-------------------------- MODULE SweepVerification --------------------------
(***************************************************************************)
(* The sweep check of core/src/verification.cpp: whether the test sweep is *)
(* found in an aligned recording, at the right time, and how sure that is. *)
(*                                                                         *)
(* A recorded channel is the set of the places [frame, score] where the    *)
(* sweep correlates with it, everywhere else the correlation is 0; scores  *)
(* are hundredths of a perfect match.  Levels are thousandths of full      *)
(* scale, decibels are tenths.                                             *)
(***************************************************************************)
EXTENDS Integers, Sequences, FiniteSets

Reliabilities == {"reliable", "ambiguous", "unmeasurable"}

NoMatch == [reliability |-> "none"]

Frames(rate, milliseconds) == (rate * milliseconds + 500) \div 1000

AtLeastOf(low, x) == IF x < low THEN low ELSE x

AtMostOf(high, x) == IF x > high THEN high ELSE x

Magnitude(x) == IF x < 0 THEN -x ELSE x

----------------------------------------------------------------------------
VerificationSignal(rate) ==
  LET leading == AtLeastOf(1, Frames(rate, 100))
      sweep == AtLeastOf(1, Frames(rate, 300))
  IN [rate |-> rate, expected |-> leading, sweepFrames |-> sweep,
      total |-> leading + sweep + AtLeastOf(1, Frames(rate, 500))]

TimingTolerance(rate) == AtLeastOf(8, Frames(rate, 10))

\* best_correlation_match: the first of the best places the steps come by.
BestPlace(channel, lower, upper, step) ==
  LET seen == {p \in channel : /\ lower <= p.frame /\ p.frame < upper
                               /\ (p.frame - lower) % step = 0 /\ p.score > 0}
      best == {p \in seen : \A q \in seen : q.score <= p.score}
  IN IF seen = {} THEN [frame |-> lower, score |-> 0]
     ELSE CHOOSE p \in best : \A q \in best : p.frame <= q.frame

MinimumDirectScore == 5

MatchChannel(channel, frames, signal) ==
  LET end == frames - signal.sweepFrames + 1
      radius == AtLeastOf(64, Frames(signal.rate, 50))
      lower == AtLeastOf(0, signal.expected - radius)
      upper == AtMostOf(end, signal.expected + radius + 1)
      direct == BestPlace(channel, lower, upper, 1)
      step == AtLeastOf(1, AtMostOf(32, signal.sweepFrames \div 600))
      coarse == BestPlace(channel, 0, end, step)
      refined == BestPlace(channel, AtLeastOf(0, coarse.frame - step),
                           AtMostOf(end, coarse.frame + step + 1), 1)
      strongest == IF refined.score > direct.score THEN refined ELSE direct
      separate == Magnitude(strongest.frame - direct.frame)
                    > AtLeastOf(8, Frames(signal.rate, 10))
      Result(s, reliability) ==
        [score |-> direct.score, error |-> direct.frame - signal.expected,
         strongest |-> s, reliability |-> reliability]
  IN IF frames < signal.sweepFrames \/ upper <= lower THEN NoMatch
     ELSE IF direct.score < MinimumDirectScore THEN Result(0, "unmeasurable")
     ELSE IF separate /\ strongest.score >= direct.score
       THEN Result(strongest.score, "ambiguous")
     ELSE Result(strongest.score, "reliable")

----------------------------------------------------------------------------
(* The channel whose match counts.                                         *)

Rank(reliability) ==
  CASE reliability = "reliable" -> 2
    [] reliability = "ambiguous" -> 1
    [] reliability = "unmeasurable" -> 0

HasAcceptableTiming(match, tolerance) ==
  match.reliability # "unmeasurable" /\ Magnitude(match.error) <= tolerance

\* Mutant: how sure a match is goes before how strong it is.
IsSurerMatch(a, b, tolerance) ==
  LET inTime == HasAcceptableTiming(a, tolerance)
  IN IF inTime # HasAcceptableTiming(b, tolerance) THEN inTime
     ELSE IF Rank(a.reliability) # Rank(b.reliability)
       THEN Rank(a.reliability) > Rank(b.reliability)
     ELSE a.score > b.score

IsBetterMatch(a, b, tolerance) ==
  LET inTime == HasAcceptableTiming(a, tolerance)
  IN IF inTime # HasAcceptableTiming(b, tolerance) THEN inTime
     ELSE IF Magnitude(a.score - b.score) > MinimumDirectScore
       THEN a.score > b.score
     ELSE IF Rank(a.reliability) # Rank(b.reliability)
       THEN Rank(a.reliability) > Rank(b.reliability)
     ELSE IF a.score # b.score THEN a.score > b.score
     ELSE Magnitude(a.error) < Magnitude(b.error)

\* The first channel that is heard, until a later one is better.
MatchSweep(channels, frames, signal) ==
  LET best[i \in 0..Len(channels)] ==
        IF i = 0 THEN NoMatch
        ELSE LET match == MatchChannel(channels[i], frames, signal)
                 before == best[i - 1]
             IN IF match # NoMatch
                    /\ \/ before = NoMatch
                       \/ IsBetterMatch(match, before, TimingTolerance(signal.rate))
                  THEN match ELSE before
  IN best[Len(channels)]

----------------------------------------------------------------------------
(* evaluate_verification.  A recording also has its input peak, its peak,  *)
(* its peak around the start of the sweep, and the peak and the rms of     *)
(* what comes before.                                                      *)

ClippingThreshold == -1

LooksContaminated(r) ==   \* -18 dB and -30 dB below the first event
  /\ r.event > 0
  /\ 1000 * r.leadPeak > 126 * r.event \/ 1000 * r.leadRms > 32 * r.event

Evaluate(r, frames, signal) ==
  LET sweep == MatchSweep(r.channels, frames, signal)
      tolerance == TimingTolerance(signal.rate)
      clipped == IF r.inputPeak >= ClippingThreshold
                   THEN {"digital_clipping"} ELSE {}
      Missing(match) == [sweep |-> match, warnings |-> {},
                         failures |-> clipped \cup {"verification_signal_missing"}]
      late == Magnitude(sweep.error) > tolerance
  IN IF r.peak <= 1 \/ frames <= 0 \/ sweep = NoMatch THEN Missing(NoMatch)
     ELSE [sweep |-> sweep,
           failures |-> clipped
             \cup (IF late THEN {"verification_timing_mismatch"} ELSE {})
             \cup (IF sweep.reliability = "unmeasurable"
                     THEN {"verification_signal_missing"} ELSE {}),
           warnings |->
             (IF ~late /\ 2 * Magnitude(sweep.error) > tolerance
                THEN {"alignment_fit_error_high"} ELSE {})
             \cup (IF sweep.reliability = "ambiguous"
                     THEN {"verification_ambiguous"} ELSE {})
             \cup (IF LooksContaminated(r)
                     THEN {"equipment_decay_may_affect_capture"} ELSE {})]
=============================================================================
