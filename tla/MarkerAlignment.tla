--------------------------- MODULE MarkerAlignment ---------------------------
(***************************************************************************)
(* The marker search of core/src/alignment.cpp: where the five impulses    *)
(* played before the source are found in a recording, and which part of    *)
(* the recording is therefore the captured source.                         *)
(*                                                                         *)
(* Levels are thousandths of full scale.  A recording is the sequence of   *)
(* its loud runs [from, to, peak], none next to another.  Scores are       *)
(* thousandths of a frame; a standard deviation is rounded down to a       *)
(* hundredth, and two scores that the code tells apart by less than that   *)
(* are equal here.                                                         *)
(***************************************************************************)
EXTENDS Integers, Sequences, FiniteSets, SequencesExt

NotFound == [pairs |-> <<>>]

\* llround(sample_rate * seconds)
Rounded(rate, milliseconds) == (rate * milliseconds + 500) \div 1000

AtLeast(low, x) == IF x < low THEN low ELSE x

Absolute(x) == IF x < 0 THEN -x ELSE x

\* The elements of s at some of its positions, in order.
Picked(s, positions) ==
  LET picked[i \in 0..Len(s)] ==
        IF i = 0 THEN <<>>
        ELSE IF i \in positions THEN Append(picked[i - 1], s[i]) ELSE picked[i - 1]
  IN picked[Len(s)]

Total(s) ==
  LET sum[i \in 0..Len(s)] == IF i = 0 THEN 0 ELSE sum[i - 1] + s[i]
  IN sum[Len(s)]

----------------------------------------------------------------------------
(* What is played, and where its markers are looked for.                   *)

MarkerCount == 5

PlaybackPlan(rate, sourceFrames) ==
  LET interval == AtLeast(1, Rounded(rate, 100))
      markers  == [i \in 1..MarkerCount |-> (i - 1) * interval]
      start    == markers[MarkerCount] + AtLeast(1, Rounded(rate, 2000))
  IN [markers |-> markers, sourceStart |-> start,
      sourceFrames |-> sourceFrames]

SearchRange(expected, sourceStart, total, rate) ==
  LET radius == AtLeast(64, Rounded(rate, 600))
      lower  == AtLeast(0, expected[1] - radius)
      last   == expected[Len(expected)]
      end    == last + radius + AtLeast(8, Rounded(rate, 80))
      capped == IF sourceStart > last /\ sourceStart < end
                  THEN sourceStart ELSE end
      upper  == IF AtLeast(lower, capped) < total
                  THEN AtLeast(lower, capped) ELSE total
  IN [lower |-> lower, upper |-> upper]

\* The onset and the peak of every stretch above the threshold, in order.
DetectImpulses(runs, range) ==
  LET Within(r) == [from |-> AtLeast(range.lower, r.from),
                    to   |-> IF r.to < range.upper THEN r.to ELSE range.upper,
                    peak |-> r.peak]
      heard == {i \in DOMAIN runs : Within(runs[i]).from < Within(runs[i]).to}
      above == {i \in heard : /\ runs[i].peak > 5
                              /\ \A k \in heard : 2 * runs[i].peak > runs[k].peak}
  IN Picked([i \in DOMAIN runs |-> [frame |-> Within(runs[i]).from, peak |-> runs[i].peak]],
            above)

----------------------------------------------------------------------------
(* The best order-preserving pairing of markers and candidates for one     *)
(* latency, by dynamic programming over (expected, candidate) cells.  What *)
(* is paired is t = [candidates, expected, latency, tolerance].            *)

ToleranceFrames(rate) == AtLeast(8, Rounded(rate, 35))

\* Mutant: only the number of markers is compared.
IsBetterByCount(a, b) == Len(a.pairs) > Len(b.pairs)

IsBetterPairing(a, b) ==
  \/ Len(a.pairs) > Len(b.pairs)
  \/ /\ Len(a.pairs) = Len(b.pairs)
     /\ \/ a.residual < b.residual
        \/ a.residual = b.residual /\ a.peaks > b.peaks

\* update_alignment_cell: the cell keeps the first of equals.
KeepBetter(current, offered) ==
  IF IsBetterPairing(offered, current) THEN offered ELSE current

Residual(t, e, c) == t.candidates[c].frame - t.expected[e] - t.latency

EmptyCell == [pairs |-> <<>>, residual |-> 0, peaks |-> 0]

Matched(t, cell, e, c) ==
  [pairs    |-> Append(cell.pairs, <<e, c>>),
   residual |-> cell.residual + Residual(t, e, c) * Residual(t, e, c),
   peaks    |-> cell.peaks + t.candidates[c].peak]

\* The updates a cell gets, in the order the loops make them.
BestCell(t, diagonal, above, left, e, c) ==
  IF Absolute(Residual(t, e, c)) > t.tolerance THEN KeepBetter(above, left)
  ELSE KeepBetter(KeepBetter(Matched(t, diagonal, e, c), above), left)

\* The cells of one marker, from those of the marker before.
NextRow(t, above, e) ==
  LET row[c \in 0..Len(t.candidates)] ==
        IF c = 0 THEN <<above[1]>>
        ELSE LET before == row[c - 1]
             IN Append(before,
                       BestCell(t, above[c], above[c + 1], before[c], e, c))
  IN row[Len(t.candidates)]

BestPairing(t) ==
  LET rows[e \in 0..Len(t.expected)] ==
        IF e = 0 THEN [c \in 1..(Len(t.candidates) + 1) |-> EmptyCell]
        ELSE NextRow(t, rows[e - 1], e)
  IN rows[Len(t.expected)][Len(t.candidates) + 1]

----------------------------------------------------------------------------
(* How well a pairing fits.                                                *)

\* The one of xs that half of them come before when they are sorted.
Median(xs) ==
  xs[CHOOSE k \in DOMAIN xs :
       Cardinality({j \in DOMAIN xs : xs[j] < xs[k] \/ (xs[j] = xs[k] /\ j < k)})
         = Len(xs) \div 2]

\* n^2 times the variance
Spread(xs) ==
  Len(xs) * Total([i \in DOMAIN xs |-> xs[i] * xs[i]]) - Total(xs) * Total(xs)

\* The integer square root of n, up to 46340, bit by bit from the highest.
Root(n) ==
  LET above[bit \in 0..16] ==
        IF bit = 16 THEN 0
        ELSE LET found == above[bit + 1]
                 root == found + 2 ^ bit
             IN IF root <= 46340 /\ root * root <= n THEN root ELSE found
  IN above[0]

Deviation(xs) ==
  10 * Root((10000 * Spread(xs)) \div (Len(xs) * Len(xs)))

Fit(pairing, candidates, expected, rate) ==
  LET n == Len(pairing.pairs)
      latencies == [i \in 1..n |-> candidates[pairing.pairs[i][2]].frame
                                     - expected[pairing.pairs[i][1]]]
      \* measured minus expected interval is the difference of two latencies
      errors == [i \in 1..(n - 1) |-> latencies[i + 1] - latencies[i]]
      errorSum == Total([i \in DOMAIN errors |-> Absolute(errors[i])])
      median == Median(latencies)
      timing == Deviation(latencies) + (1000 * errorSum) \div (n - 1)
                  + Deviation(errors)
  IN [pairs |-> pairing.pairs, latencies |-> latencies, median |-> median,
      frames |-> [i \in 1..n |-> candidates[pairing.pairs[i][2]].frame],
      timing |-> timing,
      score |-> timing + (IF median < 0 THEN 10000 * (-median) ELSE median)
                  + (Len(expected) - n) * AtLeast(16000, 20 * rate),
      peaks |-> pairing.peaks,
      coherent |-> /\ Spread(latencies) <= 100 * n * n
                   /\ errorSum <= 10 * (n - 1)
                   /\ Spread(errors) <= 100 * (n - 1) * (n - 1)]

\* make_marker_sequence: at least two markers have to be paired.
MakeSequence(candidates, expected, latency, rate) ==
  LET pairing == BestPairing([candidates |-> candidates, expected |-> expected,
                              latency |-> latency,
                              tolerance |-> ToleranceFrames(rate)])
  IN IF Len(pairing.pairs) < 2 THEN NotFound
     ELSE Fit(pairing, candidates, expected, rate)

IsBetterSequence(a, b) ==
  \/ a.score < b.score
  \/ a.score = b.score /\ a.peaks * Len(b.pairs) > b.peaks * Len(a.pairs)

\* Mutant: every marker is asked for.
IsCompleteDirect(s, expectedCount) ==
  s.coherent /\ s.median >= 0 /\ Len(s.pairs) = expectedCount

IsStrongDirect(s, expectedCount) ==
  s.coherent /\ s.median >= 0 /\ 4 * Len(s.pairs) >= 3 * expectedCount

IsBetterInBand(a, b) ==
  IF Len(a.pairs) # Len(b.pairs) THEN Len(a.pairs) > Len(b.pairs)
  ELSE IF a.timing # b.timing THEN a.timing < b.timing
  ELSE \/ IsBetterSequence(a, b)
       \/ ~IsBetterSequence(b, a) /\ a.median < b.median

----------------------------------------------------------------------------
(* select_marker_sequence: every distinct latency a candidate suggests is  *)
(* tried; the earliest strong direct train and its latency band come first *)

SortedCandidates(heard) ==   \* by frame, the loudest of each frame
  LET Before(j, k) == \/ heard[j].frame < heard[k].frame
                      \/ /\ heard[j].frame = heard[k].frame
                         /\ \/ heard[j].peak > heard[k].peak
                            \/ heard[j].peak = heard[k].peak /\ j < k
      sorted == [i \in DOMAIN heard |->
                   heard[CHOOSE k \in DOMAIN heard :
                           Cardinality({j \in DOMAIN heard : Before(j, k)}) = i - 1]]
  IN Picked(sorted, {i \in DOMAIN sorted : i > 1 => sorted[i - 1].frame # sorted[i].frame})

Hypotheses(candidates, expected) ==
  LET n == Len(expected)
      all == [k \in 1..(Len(candidates) * n) |->
                candidates[1 + ((k - 1) \div n)].frame - expected[1 + ((k - 1) % n)]]
  IN Picked(all, {k \in DOMAIN all : \A j \in 1..(k - 1) : all[j] # all[k]})

MaximumCandidates == 512

\* A sequence for each latency that pairs two markers or more.
Sequences(heard, expected, rate) ==
  LET candidates == SortedCandidates(heard)
      latencies == Hypotheses(candidates, expected)
      tried == [i \in DOMAIN latencies |->
                  MakeSequence(candidates, expected, latencies[i], rate)]
  IN IF heard = <<>> \/ Len(heard) > MaximumCandidates THEN <<>>
     ELSE Picked(tried, {i \in DOMAIN tried : tried[i] # NotFound})

\* The first of those that no other one is better than, met in order.
FirstBest(s, IsBetter(_, _)) ==
  LET best[i \in 1..Len(s)] ==
        IF i = 1 THEN s[1]
        ELSE LET before == best[i - 1]
             IN IF IsBetter(s[i], before) THEN s[i] ELSE before
  IN best[Len(s)]

SelectSequence(found, expectedCount, rate) ==
  LET direct == Picked(found, {i \in DOMAIN found : IsStrongDirect(found[i], expectedCount)})
      earliest == Min({direct[i].median : i \in DOMAIN direct})
      band == Picked(direct, {i \in DOMAIN direct :
                                direct[i].median - earliest <= ToleranceFrames(rate)})
  IN IF found = <<>> THEN NotFound
     ELSE IF direct # <<>> THEN FirstBest(band, IsBetterInBand)
     ELSE FirstBest(found, IsBetterSequence)

----------------------------------------------------------------------------
(* align_payload: what is heard, the train that is chosen from the         *)
(* sequences found in it, and the payload that is cut out behind it.       *)

HeardMarkers(runs, total, plan, rate) ==
  LET range == SearchRange(plan.markers, plan.sourceStart, total, rate)
  IN IF range.upper <= range.lower THEN <<>> ELSE DetectImpulses(runs, range)

Warnings(sequence, expected) ==
  LET first == sequence.pairs[1]
      last  == sequence.pairs[Len(sequence.pairs)]
      span  == expected[last[1]] - expected[first[1]]
      heard == sequence.frames[Len(sequence.frames)] - sequence.frames[1]
      n     == Len(sequence.pairs)
  IN (IF 4 * n < 3 * Len(expected) THEN {"marker_evidence_low"} ELSE {})
       \cup (IF \/ Spread(sequence.latencies) > 100 * n * n
                \/ 1000 * Absolute(heard - span) > span
               THEN {"alignment_fit_error_high"} ELSE {})

HasEvidence(chosen, expectedCount) ==
  chosen # NotFound /\ 100 * Len(chosen.pairs) >= 45 * expectedCount

AlignedPayload(chosen, total, plan) ==
  LET start == AtLeast(0, plan.sourceStart + chosen.median)
      left == AtLeast(0, total - start)
  IN [start |-> start, target |-> plan.sourceFrames,
      trimmed |-> IF left < plan.sourceFrames THEN left ELSE plan.sourceFrames,
      warnings |-> Warnings(chosen, plan.markers)]
=============================================================================
