------------------------ MODULE MainViewModelProofs ------------------------
(***************************************************************************)
(* Proofs about MainViewModel, for any drivers, channels, sources, levels, *)
(* saved settings, outstanding lookups, edits and commands.                *)
(***************************************************************************)
EXTENDS MainViewModel, TLAPS

-----------------------------------------------------------------------------
(* The inductive invariant.                                                *)

Entry == [path : Sources, entry : Nat, content : Nat]
Hashed == [path : Sources, entry : Nat, content : Nat \ {0}]

LookupType ==
    /\ lookup \in [Lookups -> [device : Devices \cup {None},
                               token : {"none", "live", "cancelled"},
                               answer : {"none", "channels", "failed", "cancelled"},
                               list : SUBSET Channels, byRefresh : BOOLEAN]]
    /\ current \in Lookups \cup {None}
RefreshType ==
    refresh \in [stage : {"idle", "devices", "channels", "ending"},
                 token : {"none", "live", "cancelled"},
                 answer : {"none", "devices", "failed", "cancelled"},
                 found : SUBSET Devices, preserve : BOOLEAN]
LoadType ==
    load \in [stage : {"none", "reading", "read", "failed"}, path : Sources \cup {None},
              found : Entry \cup {None}, superseded : BOOLEAN]
DiskType == disk \in [Sources -> [entry : Nat, content : Nat \ {0}]]
FlagType == verified \in BOOLEAN /\ recovery \in BOOLEAN

TypeInv == LookupType /\ RefreshType /\ LoadType /\ DiskType /\ FlagType

\* Where an operation is, and what its token and its gate may be there.
StageInv ==
    /\ op \in {"none", "dialog", "test", "capture"}
    /\ stage \in IF op \in {"none", "dialog"} THEN {"none"}
                 ELSE IF op = "test" THEN {"revalidate", "call", "recheck"}
                 ELSE {"revalidate", "call", "recheck", "gate", "promote"}
    /\ op \in {"test", "capture"} => token \in {"live", "cancelled"}
    /\ stage = "promote" <=> commit = "CommitStarted"
    /\ stage = "promote" => token = "live"
    /\ op \in {"none", "dialog"} => answer = "none"
    /\ answer = "cancelled" => token = "cancelled"
    /\ stage = "call" /\ op = "capture" =>
          answer \in {"none", "failed", "cancelled", "completed"}

\* At most the current lookup has not been cancelled, and while it is under
\* way no channel can be selected; the lookup of a refresh belongs to it.
LookupInv ==
    /\ \A l \in Lookups : lookup[l].token = "live" =>
          current = l /\ channel = None /\ offered = {}
    /\ \A l \in Lookups : lookup[l].byRefresh => refresh.stage = "channels"
    /\ \A l, m \in Lookups : lookup[l].byRefresh /\ lookup[m].byRefresh => l = m

\* The saved source is loaded into an empty selection, or it is not used.
LoadInv ==
    /\ load.stage # "none" => load.path \in Sources
    /\ load.stage # "none" /\ ~load.superseded => snapshot = None
    /\ load.stage = "read" => load.found \in Entry /\ load.found.path = load.path
    /\ load.stage # "read" => load.found = None
    /\ snapshot # None => snapshot \in Entry /\ path = snapshot.path

\* An operation runs alone: what would interfere is over, and nothing starts.
AloneInv ==
    /\ op # "none" => ~Refreshing /\ channel # None
    /\ op # "none" \/ verified =>
          path \in Sources /\ (load.stage = "none" \/ load.superseded)

\* The files of a capture, and what the user is told of them.
FilesInv ==
    /\ op = "capture" => outcome = "none" /\ ~recovery
    /\ op = "capture" /\ (\/ stage \in {"recheck", "gate", "promote"}
                          \/ stage = "call" /\ answer = "completed")
          => "temporary" \in files /\ read # None
    /\ TemporaryAccounted

\* What is selected now has passed the test.
Confirmed ==
    tested = Setup(snapshot) /\ channel # None /\ snapshot \in Hashed

VerifiedInv ==
    /\ verified /\ refresh.stage \in {"idle", "devices"} => Confirmed
    /\ op \in {"dialog", "capture"} => Confirmed
    /\ op = "test" => ~verified
    /\ verified /\ Refreshing => ~refresh.preserve

\* A later reading of the same file is not older.
NotBefore(a, b) == a.path = b.path /\ a.entry <= b.entry /\ a.content <= b.content
OnDisk == Snapshot(path, TRUE)

\* What was read of the source during the operation, in order.
ReadingInv ==
    /\ answer = "source" => now \in Hashed /\ NotBefore(now, OnDisk)
    /\ op \in {"test", "capture"} /\ stage # "revalidate" =>
          /\ request = Setup(request.source) /\ request.source \in Hashed
          /\ NotBefore(request.source, OnDisk)
          /\ op = "capture" => request = tested /\ target # "source"
    /\ op = "capture" /\ stage = "revalidate" => read = None
    /\ op = "capture" /\ stage \in {"call", "recheck"} /\ read # None =>
          /\ read \in Hashed /\ NotBefore(request.source, read) /\ NotBefore(read, OnDisk)
          /\ stage = "recheck" /\ answer = "source" => NotBefore(read, now)
    /\ stage \in {"gate", "promote"} => read = request.source

IInv ==
    /\ TypeInv /\ StageInv /\ LookupInv /\ LoadInv /\ AloneInv
    /\ FilesInv /\ VerifiedInv /\ ReadingInv

-----------------------------------------------------------------------------
(* The steps.                                                              *)

\* What is read of a source is an entry, or with its content hashed.
LEMMA SnapshotType ==
    ASSUME DiskType, NEW p \in Sources
    PROVE  /\ Snapshot(p, FALSE) \in Entry /\ Snapshot(p, TRUE) \in Hashed
           /\ Snapshot(p, FALSE).path = p /\ Snapshot(p, TRUE).path = p
<1>1. disk[p] \in [entry : Nat, content : Nat \ {0}]
  BY DEF DiskType
<1> QED BY <1>1 DEF Snapshot, Unhashed, Entry, Hashed

\* An edit moves the entry and the content of the file on, or keeps the entry.
LEMMA EditMoves ==
    ASSUME DiskType, AloneInv, NEW silent \in BOOLEAN, EditSource(silent)
    PROVE  /\ DiskType' /\ path \in Sources
           /\ \A p \in Sources : /\ disk'[p].entry >= disk[p].entry
                                 /\ disk'[p].content >= disk[p].content
<1>1. path \in Sources
  BY DEF EditSource, AloneInv
<1>2. disk' = [disk EXCEPT ![path].content = @ + 1,
                           ![path].entry = IF silent THEN @ ELSE @ + 1]
  BY DEF EditSource
<1>3. disk[path].entry \in Nat /\ disk[path].content \in Nat \ {0}
  BY <1>1 DEF DiskType
<1>4. DiskType'
  <2> DEFINE mid == [disk EXCEPT ![path].content = @ + 1]
  <2>1. disk' = [mid EXCEPT ![path].entry = IF silent THEN @ ELSE @ + 1]
    BY <1>2
  <2>2. mid \in [Sources -> [entry : Nat, content : Nat \ {0}]]
    BY <1>1, <1>3 DEF DiskType
  <2>3. mid[path].entry \in Nat
    BY <1>1, <2>2
  <2> HIDE DEF mid
  <2>4. disk' \in [Sources -> [entry : Nat, content : Nat \ {0}]]
    BY <1>1, <2>1, <2>2, <2>3
  <2> QED BY <2>4 DEF DiskType
<1>5. \A p \in Sources : disk[p].entry \in Nat /\ disk[p].content \in Nat
  BY DEF DiskType
<1>6. ASSUME NEW p \in Sources
      PROVE  disk'[p].entry >= disk[p].entry /\ disk'[p].content >= disk[p].content
  <2>1. CASE p = path
    <3>1. disk'[p].entry \in {disk[p].entry, disk[p].entry + 1}
          /\ disk'[p].content = disk[p].content + 1
      BY <1>1, <1>2, <2>1 DEF DiskType
    <3> QED BY <1>5, <3>1
  <2>2. CASE p # path
    BY <1>2, <1>5, <2>2 DEF DiskType
  <2> QED BY <2>1, <2>2
<1> QED BY <1>1, <1>4, <1>6

\* A new lookup takes the place of the current one, and the lists are empty.
LEMMA ReloadStep ==
    ASSUME LookupType, NEW d, NEW available, NEW byRefresh \in BOOLEAN,
           available => d \in Devices, ReloadChannels(d, available, byRefresh)
    PROVE  /\ LookupType'
           /\ channel' = None /\ offered' = {}
           /\ \A l \in Lookups :
                 \/ /\ lookup'[l].token \in {lookup[l].token, "cancelled"}
                    /\ lookup'[l].byRefresh = lookup[l].byRefresh
                    /\ current = l => lookup'[l].token = "cancelled"
                 \/ /\ available /\ current' = l
                    /\ lookup'[l].byRefresh = byRefresh
           /\ available => current' \in Lookups
<1> DEFINE Rec == [device : Devices \cup {None}, token : {"none", "live", "cancelled"},
                   answer : {"none", "channels", "failed", "cancelled"},
                   list : SUBSET Channels, byRefresh : BOOLEAN]
           over == Superseded
<1>1. over \in [Lookups -> Rec]
      /\ \A l \in Lookups : /\ over[l].token \in {lookup[l].token, "cancelled"}
                            /\ over[l].byRefresh = lookup[l].byRefresh
                            /\ current = l => over[l].token = "cancelled"
  <2>1. lookup \in [Lookups -> Rec] /\ current \in Lookups \cup {None}
    BY DEF LookupType
  <2>2. CASE current = None
    BY <2>1, <2>2, PanelAssumption DEF Superseded
  <2>3. CASE current \in Lookups
    <3>1. over = [lookup EXCEPT ![current].token = "cancelled"]
      BY <2>3, PanelAssumption DEF Superseded
    <3> QED BY <2>1, <2>3, <3>1
  <2> QED BY <2>1, <2>2, <2>3
<1> HIDE DEF over
<1>2. channel' = None /\ offered' = {}
  BY DEF ReloadChannels
<1>3. CASE ~available
  <2>1. lookup' = over /\ current' = None
    BY <1>3 DEF ReloadChannels, over
  <2> QED BY <1>1, <1>2, <1>3, <2>1 DEF LookupType
<1>4. CASE available
  <2>1. PICK m \in Lookups : /\ lookup[m] = NoLookup /\ current' = m
           /\ lookup' = [over EXCEPT ![m] = [device |-> d, token |-> "live", answer |-> "none",
                                             list |-> {}, byRefresh |-> byRefresh]]
    BY <1>4 DEF ReloadChannels, over
  <2>2. LookupType'
    BY <1>1, <1>4, <2>1 DEF LookupType
  <2>3. ASSUME NEW l \in Lookups, l # m
        PROVE  /\ lookup'[l].token \in {lookup[l].token, "cancelled"}
               /\ lookup'[l].byRefresh = lookup[l].byRefresh
               /\ current = l => lookup'[l].token = "cancelled"
    BY <1>1, <2>1, <2>3
  <2>4. lookup'[m].byRefresh = byRefresh
    BY <1>1, <2>1
  <2> QED BY <1>2, <1>4, <2>1, <2>2, <2>3, <2>4
<1> QED BY <1>3, <1>4

\* What an operation has read is the selected source, hashed.
LEMMA NowIsHashed ==
    ASSUME ReadingInv, SourceUnchanged \/ SourceReturned, DiskType, path \in Sources
    PROVE  now \in Hashed /\ now \in Entry /\ now.path = path
<1>1. now \in Hashed /\ NotBefore(now, OnDisk)
  BY DEF ReadingInv, SourceUnchanged, SourceReturned
<1>2. OnDisk.path = path
  BY SnapshotType DEF OnDisk
<1> QED BY <1>1, <1>2 DEF NotBefore, Hashed, Entry

\* A hashed source that passes the comparison is the expected one.
LEMMA MatchIsEqual ==
    ASSUME NEW a \in Hashed, NEW b \in Hashed, SourceSnapshotsMatch(a, b)
    PROVE  a = b
BY DEF Hashed, SourceSnapshotsMatch, Unhashed

\* What the worker would find at the selected path is of that path.
LEMMA SnapshotOfPath ==
    ASSUME DiskType, path \in Sources
    PROVE  OnDisk \in Hashed /\ OnDisk.path = path
BY SnapshotType DEF OnDisk

\* The order of readings.
LEMMA NotBeforeOrder ==
    /\ \A a \in Hashed : NotBefore(a, a)
    /\ \A a, b, c \in Hashed : NotBefore(a, b) /\ NotBefore(b, c) => NotBefore(a, c)
    /\ \A a, b \in Hashed : NotBefore(a, b) /\ NotBefore(b, a) => a = b
BY DEF NotBefore, Hashed

\* Where an operation may go.
LEMMA NextStage == StageInv /\ [Next]_vars => StageInv'
<1> SUFFICES ASSUME StageInv, [Next]_vars PROVE StageInv'
  OBVIOUS
<1> USE DEF StageInv, route, discovery, source, operation, output, outside, Command,
   Open, ControlsLocked, Refreshing, InvalidateVerification, KeepVerification,
   EndOperation, EndTest, EndCapture, EndCancelled, EndFailed, CleanUp
<1>1. CASE StartRefresh
  BY <1>1 DEF StartRefresh, Discovery
<1>2. CASE StartTest
  BY <1>2 DEF StartTest, CanTest, AudioReady
<1>3. CASE AskDestination
  BY <1>3 DEF AskDestination, CanCapture, CanTest, AudioReady
<1>4. CASE DestinationRefused
  BY <1>4 DEF DestinationRefused
<1>5. CASE StartCapture
  BY <1>5 DEF StartCapture
<1>6. CASE CancelCapture
  BY <1>6 DEF CancelCapture
<1>7. CASE Dispose
  BY <1>7 DEF Dispose, Superseded
<1>8. ASSUME NEW d \in Devices, SelectDevice(d) PROVE StageInv'
  BY <1>8 DEF SelectDevice, ReloadChannels, Superseded
<1>9. ASSUME NEW c \in offered, SelectChannel(c) PROVE StageInv'
  BY <1>9 DEF SelectChannel
<1>10. ASSUME NEW x \in Trims, SetTrim(x) PROVE StageInv'
  BY <1>10 DEF SetTrim
<1>11. ASSUME NEW p \in Sources, ChooseSource(p) PROVE StageInv'
  BY <1>11 DEF ChooseSource, NoLoad
<1>12. CASE DiscoveryFails
  BY <1>12 DEF DiscoveryFails, Idle
<1>13. CASE DevicesListed
  BY <1>13 DEF DevicesListed, ReloadChannels, Superseded, Idle
<1>14. CASE RefreshEnds
  BY <1>14 DEF RefreshEnds, Idle
<1>15. CASE SavedSourceContinues
  BY <1>15 DEF SavedSourceContinues, NoLoad
<1>16. CASE SourceUnreadable
  BY <1>16 DEF SourceUnreadable
<1>17. CASE SourceCheckCancelled
  BY <1>17 DEF SourceCheckCancelled
<1>18. CASE SourceChanged
  BY <1>18 DEF SourceChanged
<1>19. CASE OverwriteRefused
  BY <1>19 DEF OverwriteRefused
<1>20. CASE CallWorker
  BY <1>20 DEF CallWorker
<1>21. CASE CallFailed
  BY <1>21 DEF CallFailed
<1>22. CASE CallCancelled
  BY <1>22 DEF CallCancelled
<1>23. CASE CallReturned
  BY <1>23 DEF CallReturned
<1>24. CASE ApplySetupTestResult
  BY <1>24 DEF ApplySetupTestResult
<1>25. CASE OutputValidated
  BY <1>25 DEF OutputValidated
<1>26. CASE TryBeginCaptureCommit
  BY <1>26 DEF TryBeginCaptureCommit
<1>27. CASE Promote
  BY <1>27 DEF Promote
<1>28. ASSUME NEW gone \in BOOLEAN, PromotionFails(gone) PROVE StageInv'
  BY <1>28 DEF PromotionFails
<1>29. ASSUME NEW l \in Lookups, LookupContinues(l) PROVE StageInv'
  BY <1>29 DEF LookupContinues, NoLookup
<1>30. CASE DevicesTimeOut
  BY <1>30 DEF DevicesTimeOut
<1>31. CASE TestTimesOut
  BY <1>31 DEF TestTimesOut
<1>32. ASSUME NEW l \in Lookups, LookupTimesOut(l) PROVE StageInv'
  BY <1>32 DEF LookupTimesOut
<1>33. CASE DevicesAnswered
  BY <1>33 DEF DevicesAnswered
<1>34. CASE DevicesCancelled
  BY <1>34 DEF DevicesCancelled
<1>35. CASE SavedSourceRead
  BY <1>35 DEF SavedSourceRead
<1>36. CASE SourceRead
  BY <1>36 DEF SourceRead
<1>37. CASE WorkerReads
  BY <1>37 DEF WorkerReads
<1>38. CASE WorkerSucceeds
  BY <1>38 DEF WorkerSucceeds
<1>39. CASE WorkerFails
  BY <1>39 DEF WorkerFails, Temporaries
<1>40. ASSUME NEW l \in Lookups, LookupAnswered(l) PROVE StageInv'
  BY <1>40 DEF LookupAnswered
<1>41. ASSUME NEW l \in Lookups, LookupCancelled(l) PROVE StageInv'
  BY <1>41 DEF LookupCancelled
<1>42. ASSUME NEW silent \in BOOLEAN, EditSource(silent) PROVE StageInv'
  BY <1>42 DEF EditSource
<1>43. CASE UNCHANGED vars
  BY <1>43 DEF vars
<1> QED
  BY <1>1, <1>2, <1>3, <1>4, <1>5, <1>6, <1>7, <1>8, <1>9, <1>10, <1>11, <1>12, <1>13,
     <1>14, <1>15, <1>16, <1>17, <1>18, <1>19, <1>20, <1>21, <1>22, <1>23, <1>24,
     <1>25, <1>26, <1>27, <1>28, <1>29, <1>30, <1>31, <1>32, <1>33, <1>34, <1>35,
     <1>36, <1>37, <1>38, <1>39, <1>40, <1>41, <1>42, <1>43 DEF Next, Controls,
     Continuations, Timers, Answers, Environment

\* The lookups keep their type.
LEMMA NextLookupType == RefreshType /\ LookupType /\ [Next]_vars => LookupType'
<1> SUFFICES ASSUME RefreshType, LookupType, [Next]_vars PROVE LookupType'
  OBVIOUS
<1> USE DEF LookupType, RefreshType, route, discovery, source, operation, output,
   outside, Command, InvalidateVerification, KeepVerification, EndOperation, EndTest,
   EndCapture, EndCancelled, EndFailed
<1>1. CASE StartRefresh
  BY <1>1, PanelAssumption DEF StartRefresh, Discovery
<1>2. CASE StartTest
  BY <1>2, PanelAssumption DEF StartTest, CanTest, AudioReady
<1>3. CASE AskDestination
  BY <1>3, PanelAssumption DEF AskDestination, CanCapture, CanTest, AudioReady
<1>4. CASE DestinationRefused
  BY <1>4, PanelAssumption DEF DestinationRefused
<1>5. CASE StartCapture
  BY <1>5, PanelAssumption DEF StartCapture
<1>6. CASE CancelCapture
  BY <1>6, PanelAssumption DEF CancelCapture
<1>7. CASE Dispose
  BY <1>7, PanelAssumption DEF Dispose, Superseded
<1>8. ASSUME NEW d \in Devices, SelectDevice(d) PROVE LookupType'
  <2>1. ReloadChannels(d, TRUE, FALSE)
    BY <1>8 DEF SelectDevice
  <2> QED BY <2>1, ReloadStep
<1>9. ASSUME NEW c \in offered, SelectChannel(c) PROVE LookupType'
  BY <1>9, PanelAssumption DEF SelectChannel
<1>10. ASSUME NEW x \in Trims, SetTrim(x) PROVE LookupType'
  BY <1>10, PanelAssumption DEF SetTrim
<1>11. ASSUME NEW p \in Sources, ChooseSource(p) PROVE LookupType'
  BY <1>11, PanelAssumption DEF ChooseSource, NoLoad
<1>12. CASE DiscoveryFails
  BY <1>12, PanelAssumption DEF DiscoveryFails, Idle
<1>13. CASE DevicesListed
  <2>1. CASE ReloadChannels(device', device' \in refresh.found, TRUE)
    <3>1. device' \in refresh.found => device' \in Devices
      OBVIOUS
    <3> HIDE DEF LookupType
    <3> QED BY <2>1, <3>1, ReloadStep
  <2>2. CASE UNCHANGED <<lookup, current>>
    BY <2>2
  <2> QED BY <1>13, <2>1, <2>2 DEF DevicesListed
<1>14. CASE RefreshEnds
  BY <1>14, PanelAssumption DEF RefreshEnds, Idle
<1>15. CASE SavedSourceContinues
  BY <1>15, PanelAssumption DEF SavedSourceContinues, NoLoad
<1>16. CASE SourceUnreadable
  BY <1>16, PanelAssumption DEF SourceUnreadable
<1>17. CASE SourceCheckCancelled
  BY <1>17, PanelAssumption DEF SourceCheckCancelled
<1>18. CASE SourceChanged
  BY <1>18, PanelAssumption DEF SourceChanged
<1>19. CASE OverwriteRefused
  BY <1>19, PanelAssumption DEF OverwriteRefused
<1>20. CASE CallWorker
  BY <1>20, PanelAssumption DEF CallWorker
<1>21. CASE CallFailed
  BY <1>21, PanelAssumption DEF CallFailed
<1>22. CASE CallCancelled
  BY <1>22, PanelAssumption DEF CallCancelled
<1>23. CASE CallReturned
  BY <1>23, PanelAssumption DEF CallReturned
<1>24. CASE ApplySetupTestResult
  BY <1>24, PanelAssumption DEF ApplySetupTestResult
<1>25. CASE OutputValidated
  BY <1>25, PanelAssumption DEF OutputValidated
<1>26. CASE TryBeginCaptureCommit
  BY <1>26, PanelAssumption DEF TryBeginCaptureCommit
<1>27. CASE Promote
  BY <1>27, PanelAssumption DEF Promote
<1>28. ASSUME NEW gone \in BOOLEAN, PromotionFails(gone) PROVE LookupType'
  BY <1>28, PanelAssumption DEF PromotionFails
<1>29. ASSUME NEW l \in Lookups, LookupContinues(l) PROVE LookupType'
  BY <1>29, PanelAssumption DEF LookupContinues, NoLookup
<1>30. CASE DevicesTimeOut
  BY <1>30, PanelAssumption DEF DevicesTimeOut
<1>31. CASE TestTimesOut
  BY <1>31, PanelAssumption DEF TestTimesOut
<1>32. ASSUME NEW l \in Lookups, LookupTimesOut(l) PROVE LookupType'
  BY <1>32, PanelAssumption DEF LookupTimesOut
<1>33. CASE DevicesAnswered
  BY <1>33, PanelAssumption DEF DevicesAnswered
<1>34. CASE DevicesCancelled
  BY <1>34, PanelAssumption DEF DevicesCancelled
<1>35. CASE SavedSourceRead
  BY <1>35, PanelAssumption DEF SavedSourceRead
<1>36. CASE SourceRead
  BY <1>36, PanelAssumption DEF SourceRead
<1>37. CASE WorkerReads
  BY <1>37, PanelAssumption DEF WorkerReads
<1>38. CASE WorkerSucceeds
  BY <1>38, PanelAssumption DEF WorkerSucceeds
<1>39. CASE WorkerFails
  BY <1>39, PanelAssumption DEF WorkerFails, Temporaries
<1>40. ASSUME NEW l \in Lookups, LookupAnswered(l) PROVE LookupType'
  BY <1>40, PanelAssumption DEF LookupAnswered
<1>41. ASSUME NEW l \in Lookups, LookupCancelled(l) PROVE LookupType'
  BY <1>41, PanelAssumption DEF LookupCancelled
<1>42. ASSUME NEW silent \in BOOLEAN, EditSource(silent) PROVE LookupType'
  BY <1>42, PanelAssumption DEF EditSource
<1>43. CASE UNCHANGED vars
  BY <1>43, PanelAssumption DEF vars
<1> QED
  BY <1>1, <1>2, <1>3, <1>4, <1>5, <1>6, <1>7, <1>8, <1>9, <1>10, <1>11, <1>12, <1>13,
     <1>14, <1>15, <1>16, <1>17, <1>18, <1>19, <1>20, <1>21, <1>22, <1>23, <1>24,
     <1>25, <1>26, <1>27, <1>28, <1>29, <1>30, <1>31, <1>32, <1>33, <1>34, <1>35,
     <1>36, <1>37, <1>38, <1>39, <1>40, <1>41, <1>42, <1>43 DEF Next, Controls,
     Continuations, Timers, Answers, Environment

\* The refresh keeps its type.
LEMMA NextRefreshType == RefreshType /\ [Next]_vars => RefreshType'
<1> SUFFICES ASSUME RefreshType, [Next]_vars PROVE RefreshType'
  OBVIOUS
<1> USE DEF RefreshType, route, discovery, source, operation, output, outside,
   Command, InvalidateVerification, KeepVerification, EndOperation, EndTest,
   EndCapture, EndCancelled, EndFailed
<1>1. CASE StartRefresh
  BY <1>1 DEF StartRefresh, Discovery
<1>2. CASE StartTest
  BY <1>2 DEF StartTest, CanTest, AudioReady
<1>3. CASE AskDestination
  BY <1>3 DEF AskDestination, CanCapture, CanTest, AudioReady
<1>4. CASE DestinationRefused
  BY <1>4 DEF DestinationRefused
<1>5. CASE StartCapture
  BY <1>5 DEF StartCapture
<1>6. CASE CancelCapture
  BY <1>6 DEF CancelCapture
<1>7. CASE Dispose
  BY <1>7 DEF Dispose, Superseded
<1>8. ASSUME NEW d \in Devices, SelectDevice(d) PROVE RefreshType'
  BY <1>8 DEF SelectDevice, ReloadChannels, Superseded
<1>9. ASSUME NEW c \in offered, SelectChannel(c) PROVE RefreshType'
  BY <1>9 DEF SelectChannel
<1>10. ASSUME NEW x \in Trims, SetTrim(x) PROVE RefreshType'
  BY <1>10 DEF SetTrim
<1>11. ASSUME NEW p \in Sources, ChooseSource(p) PROVE RefreshType'
  BY <1>11 DEF ChooseSource, NoLoad
<1>12. CASE DiscoveryFails
  BY <1>12 DEF DiscoveryFails, Idle
<1>13. CASE DevicesListed
  <2>1. refresh' = Idle \/ refresh' = [refresh EXCEPT !.stage = "channels"]
    BY <1>13 DEF DevicesListed
  <2>2. CASE refresh' = Idle
    BY <2>2 DEF Idle
  <2>3. CASE refresh' = [refresh EXCEPT !.stage = "channels"]
    BY <2>3
  <2> QED BY <2>1, <2>2, <2>3
<1>14. CASE RefreshEnds
  BY <1>14 DEF RefreshEnds, Idle
<1>15. CASE SavedSourceContinues
  BY <1>15 DEF SavedSourceContinues, NoLoad
<1>16. CASE SourceUnreadable
  BY <1>16 DEF SourceUnreadable
<1>17. CASE SourceCheckCancelled
  BY <1>17 DEF SourceCheckCancelled
<1>18. CASE SourceChanged
  BY <1>18 DEF SourceChanged
<1>19. CASE OverwriteRefused
  BY <1>19 DEF OverwriteRefused
<1>20. CASE CallWorker
  BY <1>20 DEF CallWorker
<1>21. CASE CallFailed
  BY <1>21 DEF CallFailed
<1>22. CASE CallCancelled
  BY <1>22 DEF CallCancelled
<1>23. CASE CallReturned
  BY <1>23 DEF CallReturned
<1>24. CASE ApplySetupTestResult
  BY <1>24 DEF ApplySetupTestResult
<1>25. CASE OutputValidated
  BY <1>25 DEF OutputValidated
<1>26. CASE TryBeginCaptureCommit
  BY <1>26 DEF TryBeginCaptureCommit
<1>27. CASE Promote
  BY <1>27 DEF Promote
<1>28. ASSUME NEW gone \in BOOLEAN, PromotionFails(gone) PROVE RefreshType'
  BY <1>28 DEF PromotionFails
<1>29. ASSUME NEW l \in Lookups, LookupContinues(l) PROVE RefreshType'
  BY <1>29 DEF LookupContinues, NoLookup
<1>30. CASE DevicesTimeOut
  BY <1>30 DEF DevicesTimeOut
<1>31. CASE TestTimesOut
  BY <1>31 DEF TestTimesOut
<1>32. ASSUME NEW l \in Lookups, LookupTimesOut(l) PROVE RefreshType'
  BY <1>32 DEF LookupTimesOut
<1>33. CASE DevicesAnswered
  BY <1>33 DEF DevicesAnswered
<1>34. CASE DevicesCancelled
  BY <1>34 DEF DevicesCancelled
<1>35. CASE SavedSourceRead
  BY <1>35 DEF SavedSourceRead
<1>36. CASE SourceRead
  BY <1>36 DEF SourceRead
<1>37. CASE WorkerReads
  BY <1>37 DEF WorkerReads
<1>38. CASE WorkerSucceeds
  BY <1>38 DEF WorkerSucceeds
<1>39. CASE WorkerFails
  BY <1>39 DEF WorkerFails, Temporaries
<1>40. ASSUME NEW l \in Lookups, LookupAnswered(l) PROVE RefreshType'
  BY <1>40 DEF LookupAnswered
<1>41. ASSUME NEW l \in Lookups, LookupCancelled(l) PROVE RefreshType'
  BY <1>41 DEF LookupCancelled
<1>42. ASSUME NEW silent \in BOOLEAN, EditSource(silent) PROVE RefreshType'
  BY <1>42 DEF EditSource
<1>43. CASE UNCHANGED vars
  BY <1>43 DEF vars
<1> QED
  BY <1>1, <1>2, <1>3, <1>4, <1>5, <1>6, <1>7, <1>8, <1>9, <1>10, <1>11, <1>12, <1>13,
     <1>14, <1>15, <1>16, <1>17, <1>18, <1>19, <1>20, <1>21, <1>22, <1>23, <1>24,
     <1>25, <1>26, <1>27, <1>28, <1>29, <1>30, <1>31, <1>32, <1>33, <1>34, <1>35,
     <1>36, <1>37, <1>38, <1>39, <1>40, <1>41, <1>42, <1>43 DEF Next, Controls,
     Continuations, Timers, Answers, Environment

\* The load of the saved source keeps its type.
LEMMA NextLoadType == DiskType /\ LoadType /\ LoadInv /\ [Next]_vars => LoadType'
<1> SUFFICES ASSUME DiskType, LoadType, LoadInv, [Next]_vars PROVE LoadType'
  OBVIOUS
<1> USE DEF LoadType, DiskType, route, discovery, source, operation, output, outside,
   Command, InvalidateVerification, KeepVerification, EndOperation, EndTest,
   EndCapture, EndCancelled, EndFailed
<1>1. CASE StartRefresh
  BY <1>1 DEF StartRefresh, Discovery
<1>2. CASE StartTest
  BY <1>2 DEF StartTest, CanTest, AudioReady
<1>3. CASE AskDestination
  BY <1>3 DEF AskDestination, CanCapture, CanTest, AudioReady
<1>4. CASE DestinationRefused
  BY <1>4 DEF DestinationRefused
<1>5. CASE StartCapture
  BY <1>5 DEF StartCapture
<1>6. CASE CancelCapture
  BY <1>6 DEF CancelCapture
<1>7. CASE Dispose
  BY <1>7 DEF Dispose, Superseded
<1>8. ASSUME NEW d \in Devices, SelectDevice(d) PROVE LoadType'
  BY <1>8 DEF SelectDevice, ReloadChannels, Superseded
<1>9. ASSUME NEW c \in offered, SelectChannel(c) PROVE LoadType'
  BY <1>9 DEF SelectChannel
<1>10. ASSUME NEW x \in Trims, SetTrim(x) PROVE LoadType'
  BY <1>10 DEF SetTrim
<1>11. ASSUME NEW p \in Sources, ChooseSource(p) PROVE LoadType'
  BY <1>11 DEF ChooseSource, NoLoad
<1>12. CASE DiscoveryFails
  BY <1>12 DEF DiscoveryFails, Idle
<1>13. CASE DevicesListed
  BY <1>13 DEF DevicesListed, ReloadChannels, Superseded, Idle
<1>14. CASE RefreshEnds
  BY <1>14 DEF RefreshEnds, Idle
<1>15. CASE SavedSourceContinues
  BY <1>15 DEF SavedSourceContinues, NoLoad
<1>16. CASE SourceUnreadable
  BY <1>16 DEF SourceUnreadable
<1>17. CASE SourceCheckCancelled
  BY <1>17 DEF SourceCheckCancelled
<1>18. CASE SourceChanged
  BY <1>18 DEF SourceChanged
<1>19. CASE OverwriteRefused
  BY <1>19 DEF OverwriteRefused
<1>20. CASE CallWorker
  BY <1>20 DEF CallWorker
<1>21. CASE CallFailed
  BY <1>21 DEF CallFailed
<1>22. CASE CallCancelled
  BY <1>22 DEF CallCancelled
<1>23. CASE CallReturned
  BY <1>23 DEF CallReturned
<1>24. CASE ApplySetupTestResult
  BY <1>24 DEF ApplySetupTestResult
<1>25. CASE OutputValidated
  BY <1>25 DEF OutputValidated
<1>26. CASE TryBeginCaptureCommit
  BY <1>26 DEF TryBeginCaptureCommit
<1>27. CASE Promote
  BY <1>27 DEF Promote
<1>28. ASSUME NEW gone \in BOOLEAN, PromotionFails(gone) PROVE LoadType'
  BY <1>28 DEF PromotionFails
<1>29. ASSUME NEW l \in Lookups, LookupContinues(l) PROVE LoadType'
  BY <1>29 DEF LookupContinues, NoLookup
<1>30. CASE DevicesTimeOut
  BY <1>30 DEF DevicesTimeOut
<1>31. CASE TestTimesOut
  BY <1>31 DEF TestTimesOut
<1>32. ASSUME NEW l \in Lookups, LookupTimesOut(l) PROVE LoadType'
  BY <1>32 DEF LookupTimesOut
<1>33. CASE DevicesAnswered
  BY <1>33 DEF DevicesAnswered
<1>34. CASE DevicesCancelled
  BY <1>34 DEF DevicesCancelled
<1>35. CASE SavedSourceRead
  <2>1. load.path \in Sources
    BY <1>35 DEF SavedSourceRead, LoadInv
  <2>2. Snapshot(load.path, FALSE) \in Entry
    BY <2>1, SnapshotType
  <2> QED BY <1>35, <2>2 DEF SavedSourceRead
<1>36. CASE SourceRead
  BY <1>36 DEF SourceRead
<1>37. CASE WorkerReads
  BY <1>37 DEF WorkerReads
<1>38. CASE WorkerSucceeds
  BY <1>38 DEF WorkerSucceeds
<1>39. CASE WorkerFails
  BY <1>39 DEF WorkerFails, Temporaries
<1>40. ASSUME NEW l \in Lookups, LookupAnswered(l) PROVE LoadType'
  BY <1>40 DEF LookupAnswered
<1>41. ASSUME NEW l \in Lookups, LookupCancelled(l) PROVE LoadType'
  BY <1>41 DEF LookupCancelled
<1>42. ASSUME NEW silent \in BOOLEAN, EditSource(silent) PROVE LoadType'
  BY <1>42 DEF EditSource
<1>43. CASE UNCHANGED vars
  BY <1>43 DEF vars
<1> QED
  BY <1>1, <1>2, <1>3, <1>4, <1>5, <1>6, <1>7, <1>8, <1>9, <1>10, <1>11, <1>12, <1>13,
     <1>14, <1>15, <1>16, <1>17, <1>18, <1>19, <1>20, <1>21, <1>22, <1>23, <1>24,
     <1>25, <1>26, <1>27, <1>28, <1>29, <1>30, <1>31, <1>32, <1>33, <1>34, <1>35,
     <1>36, <1>37, <1>38, <1>39, <1>40, <1>41, <1>42, <1>43 DEF Next, Controls,
     Continuations, Timers, Answers, Environment

\* The sources keep their type.
LEMMA NextDiskType == DiskType /\ AloneInv /\ [Next]_vars => DiskType'
<1> SUFFICES ASSUME DiskType, AloneInv, [Next]_vars PROVE DiskType'
  OBVIOUS
<1> USE DEF DiskType, route, discovery, source, operation, output, outside, Command,
   InvalidateVerification, KeepVerification, EndOperation, EndTest, EndCapture,
   EndCancelled, EndFailed
<1>1. CASE StartRefresh
  BY <1>1 DEF StartRefresh, Discovery
<1>2. CASE StartTest
  BY <1>2 DEF StartTest, CanTest, AudioReady
<1>3. CASE AskDestination
  BY <1>3 DEF AskDestination, CanCapture, CanTest, AudioReady
<1>4. CASE DestinationRefused
  BY <1>4 DEF DestinationRefused
<1>5. CASE StartCapture
  BY <1>5 DEF StartCapture
<1>6. CASE CancelCapture
  BY <1>6 DEF CancelCapture
<1>7. CASE Dispose
  BY <1>7 DEF Dispose, Superseded
<1>8. ASSUME NEW d \in Devices, SelectDevice(d) PROVE DiskType'
  BY <1>8 DEF SelectDevice, ReloadChannels, Superseded
<1>9. ASSUME NEW c \in offered, SelectChannel(c) PROVE DiskType'
  BY <1>9 DEF SelectChannel
<1>10. ASSUME NEW x \in Trims, SetTrim(x) PROVE DiskType'
  BY <1>10 DEF SetTrim
<1>11. ASSUME NEW p \in Sources, ChooseSource(p) PROVE DiskType'
  BY <1>11 DEF ChooseSource, NoLoad
<1>12. CASE DiscoveryFails
  BY <1>12 DEF DiscoveryFails, Idle
<1>13. CASE DevicesListed
  BY <1>13 DEF DevicesListed, ReloadChannels, Superseded, Idle
<1>14. CASE RefreshEnds
  BY <1>14 DEF RefreshEnds, Idle
<1>15. CASE SavedSourceContinues
  BY <1>15 DEF SavedSourceContinues, NoLoad
<1>16. CASE SourceUnreadable
  BY <1>16 DEF SourceUnreadable
<1>17. CASE SourceCheckCancelled
  BY <1>17 DEF SourceCheckCancelled
<1>18. CASE SourceChanged
  BY <1>18 DEF SourceChanged
<1>19. CASE OverwriteRefused
  BY <1>19 DEF OverwriteRefused
<1>20. CASE CallWorker
  BY <1>20 DEF CallWorker
<1>21. CASE CallFailed
  BY <1>21 DEF CallFailed
<1>22. CASE CallCancelled
  BY <1>22 DEF CallCancelled
<1>23. CASE CallReturned
  BY <1>23 DEF CallReturned
<1>24. CASE ApplySetupTestResult
  BY <1>24 DEF ApplySetupTestResult
<1>25. CASE OutputValidated
  BY <1>25 DEF OutputValidated
<1>26. CASE TryBeginCaptureCommit
  BY <1>26 DEF TryBeginCaptureCommit
<1>27. CASE Promote
  BY <1>27 DEF Promote
<1>28. ASSUME NEW gone \in BOOLEAN, PromotionFails(gone) PROVE DiskType'
  BY <1>28 DEF PromotionFails
<1>29. ASSUME NEW l \in Lookups, LookupContinues(l) PROVE DiskType'
  BY <1>29 DEF LookupContinues, NoLookup
<1>30. CASE DevicesTimeOut
  BY <1>30 DEF DevicesTimeOut
<1>31. CASE TestTimesOut
  BY <1>31 DEF TestTimesOut
<1>32. ASSUME NEW l \in Lookups, LookupTimesOut(l) PROVE DiskType'
  BY <1>32 DEF LookupTimesOut
<1>33. CASE DevicesAnswered
  BY <1>33 DEF DevicesAnswered
<1>34. CASE DevicesCancelled
  BY <1>34 DEF DevicesCancelled
<1>35. CASE SavedSourceRead
  BY <1>35 DEF SavedSourceRead
<1>36. CASE SourceRead
  BY <1>36 DEF SourceRead
<1>37. CASE WorkerReads
  BY <1>37 DEF WorkerReads
<1>38. CASE WorkerSucceeds
  BY <1>38 DEF WorkerSucceeds
<1>39. CASE WorkerFails
  BY <1>39 DEF WorkerFails, Temporaries
<1>40. ASSUME NEW l \in Lookups, LookupAnswered(l) PROVE DiskType'
  BY <1>40 DEF LookupAnswered
<1>41. ASSUME NEW l \in Lookups, LookupCancelled(l) PROVE DiskType'
  BY <1>41 DEF LookupCancelled
<1>42. ASSUME NEW silent \in BOOLEAN, EditSource(silent) PROVE DiskType'
  BY <1>42, EditMoves
<1>43. CASE UNCHANGED vars
  BY <1>43 DEF vars
<1> QED
  BY <1>1, <1>2, <1>3, <1>4, <1>5, <1>6, <1>7, <1>8, <1>9, <1>10, <1>11, <1>12, <1>13,
     <1>14, <1>15, <1>16, <1>17, <1>18, <1>19, <1>20, <1>21, <1>22, <1>23, <1>24,
     <1>25, <1>26, <1>27, <1>28, <1>29, <1>30, <1>31, <1>32, <1>33, <1>34, <1>35,
     <1>36, <1>37, <1>38, <1>39, <1>40, <1>41, <1>42, <1>43 DEF Next, Controls,
     Continuations, Timers, Answers, Environment

\* The flags keep their type.
LEMMA NextFlagType == FlagType /\ [Next]_vars => FlagType'
<1> SUFFICES ASSUME FlagType, [Next]_vars PROVE FlagType'
  OBVIOUS
<1> USE DEF FlagType, route, discovery, source, operation, output, outside, Command,
   Open, ControlsLocked, Refreshing, InvalidateVerification, KeepVerification,
   EndOperation, EndTest, EndCapture, EndCancelled, EndFailed, CleanUp
<1>1. CASE StartRefresh
  BY <1>1 DEF StartRefresh, Discovery
<1>2. CASE StartTest
  BY <1>2 DEF StartTest, CanTest, AudioReady
<1>3. CASE AskDestination
  BY <1>3 DEF AskDestination, CanCapture, CanTest, AudioReady
<1>4. CASE DestinationRefused
  BY <1>4 DEF DestinationRefused
<1>5. CASE StartCapture
  BY <1>5 DEF StartCapture
<1>6. CASE CancelCapture
  BY <1>6 DEF CancelCapture
<1>7. CASE Dispose
  BY <1>7 DEF Dispose, Superseded
<1>8. ASSUME NEW d \in Devices, SelectDevice(d) PROVE FlagType'
  BY <1>8 DEF SelectDevice, ReloadChannels, Superseded
<1>9. ASSUME NEW c \in offered, SelectChannel(c) PROVE FlagType'
  BY <1>9 DEF SelectChannel
<1>10. ASSUME NEW x \in Trims, SetTrim(x) PROVE FlagType'
  BY <1>10 DEF SetTrim
<1>11. ASSUME NEW p \in Sources, ChooseSource(p) PROVE FlagType'
  BY <1>11 DEF ChooseSource, NoLoad
<1>12. CASE DiscoveryFails
  BY <1>12 DEF DiscoveryFails, Idle
<1>13. CASE DevicesListed
  BY <1>13 DEF DevicesListed, ReloadChannels, Superseded, Idle
<1>14. CASE RefreshEnds
  BY <1>14 DEF RefreshEnds, Idle
<1>15. CASE SavedSourceContinues
  BY <1>15 DEF SavedSourceContinues, NoLoad
<1>16. CASE SourceUnreadable
  BY <1>16 DEF SourceUnreadable
<1>17. CASE SourceCheckCancelled
  BY <1>17 DEF SourceCheckCancelled
<1>18. CASE SourceChanged
  BY <1>18 DEF SourceChanged
<1>19. CASE OverwriteRefused
  BY <1>19 DEF OverwriteRefused
<1>20. CASE CallWorker
  BY <1>20 DEF CallWorker
<1>21. CASE CallFailed
  BY <1>21 DEF CallFailed
<1>22. CASE CallCancelled
  BY <1>22 DEF CallCancelled
<1>23. CASE CallReturned
  BY <1>23 DEF CallReturned
<1>24. CASE ApplySetupTestResult
  BY <1>24 DEF ApplySetupTestResult
<1>25. CASE OutputValidated
  BY <1>25 DEF OutputValidated
<1>26. CASE TryBeginCaptureCommit
  BY <1>26 DEF TryBeginCaptureCommit
<1>27. CASE Promote
  BY <1>27 DEF Promote
<1>28. ASSUME NEW gone \in BOOLEAN, PromotionFails(gone) PROVE FlagType'
  BY <1>28 DEF PromotionFails
<1>29. ASSUME NEW l \in Lookups, LookupContinues(l) PROVE FlagType'
  BY <1>29 DEF LookupContinues, NoLookup
<1>30. CASE DevicesTimeOut
  BY <1>30 DEF DevicesTimeOut
<1>31. CASE TestTimesOut
  BY <1>31 DEF TestTimesOut
<1>32. ASSUME NEW l \in Lookups, LookupTimesOut(l) PROVE FlagType'
  BY <1>32 DEF LookupTimesOut
<1>33. CASE DevicesAnswered
  BY <1>33 DEF DevicesAnswered
<1>34. CASE DevicesCancelled
  BY <1>34 DEF DevicesCancelled
<1>35. CASE SavedSourceRead
  BY <1>35 DEF SavedSourceRead
<1>36. CASE SourceRead
  BY <1>36 DEF SourceRead
<1>37. CASE WorkerReads
  BY <1>37 DEF WorkerReads
<1>38. CASE WorkerSucceeds
  BY <1>38 DEF WorkerSucceeds
<1>39. CASE WorkerFails
  BY <1>39 DEF WorkerFails, Temporaries
<1>40. ASSUME NEW l \in Lookups, LookupAnswered(l) PROVE FlagType'
  BY <1>40 DEF LookupAnswered
<1>41. ASSUME NEW l \in Lookups, LookupCancelled(l) PROVE FlagType'
  BY <1>41 DEF LookupCancelled
<1>42. ASSUME NEW silent \in BOOLEAN, EditSource(silent) PROVE FlagType'
  BY <1>42 DEF EditSource
<1>43. CASE UNCHANGED vars
  BY <1>43 DEF vars
<1> QED
  BY <1>1, <1>2, <1>3, <1>4, <1>5, <1>6, <1>7, <1>8, <1>9, <1>10, <1>11, <1>12, <1>13,
     <1>14, <1>15, <1>16, <1>17, <1>18, <1>19, <1>20, <1>21, <1>22, <1>23, <1>24,
     <1>25, <1>26, <1>27, <1>28, <1>29, <1>30, <1>31, <1>32, <1>33, <1>34, <1>35,
     <1>36, <1>37, <1>38, <1>39, <1>40, <1>41, <1>42, <1>43 DEF Next, Controls,
     Continuations, Timers, Answers, Environment

\* A lookup is cancelled before the next begins, and nothing else fills the lists.
LEMMA NextLookup == LookupType /\ RefreshType /\ LookupInv /\ [Next]_vars =>
   LookupInv'
<1> SUFFICES ASSUME LookupType, RefreshType, LookupInv, [Next]_vars PROVE LookupInv'
  OBVIOUS
<1> USE DEF route, discovery, source, operation, output, outside, Command, Open,
   ControlsLocked, Refreshing
<1>1. CASE StartRefresh
  BY <1>1 DEF StartRefresh, Discovery, LookupInv, LookupType, RefreshType
<1>2. CASE StartTest
  BY <1>2 DEF StartTest, CanTest, AudioReady, LookupInv, LookupType, RefreshType
<1>3. CASE AskDestination
  BY <1>3 DEF AskDestination, CanCapture, CanTest, AudioReady, LookupInv, LookupType,
     RefreshType
<1>4. CASE DestinationRefused
  BY <1>4 DEF DestinationRefused, LookupInv, LookupType, RefreshType
<1>5. CASE StartCapture
  BY <1>5 DEF StartCapture, LookupInv, LookupType, RefreshType
<1>6. CASE CancelCapture
  BY <1>6 DEF CancelCapture, LookupInv, LookupType, RefreshType
<1>7. CASE Dispose
  BY <1>7 DEF Dispose, Superseded, LookupInv, LookupType, RefreshType
<1>8. ASSUME NEW d \in Devices, SelectDevice(d) PROVE LookupInv'
  <2>1. ReloadChannels(d, TRUE, FALSE) /\ UNCHANGED refresh
    BY <1>8 DEF SelectDevice
  <2>2. /\ channel' = None /\ offered' = {}
        /\ \A l \in Lookups :
              \/ /\ lookup'[l].token \in {lookup[l].token, "cancelled"}
                 /\ lookup'[l].byRefresh = lookup[l].byRefresh
                 /\ current = l => lookup'[l].token = "cancelled"
              \/ current' = l /\ lookup'[l].byRefresh = FALSE
    BY <2>1, ReloadStep
  <2> QED BY <2>1, <2>2 DEF LookupInv
<1>9. ASSUME NEW c \in offered, SelectChannel(c) PROVE LookupInv'
  BY <1>9 DEF SelectChannel, LookupInv, LookupType, RefreshType
<1>10. ASSUME NEW x \in Trims, SetTrim(x) PROVE LookupInv'
  BY <1>10 DEF SetTrim, LookupInv, LookupType, RefreshType
<1>11. ASSUME NEW p \in Sources, ChooseSource(p) PROVE LookupInv'
  BY <1>11 DEF ChooseSource, NoLoad, LookupInv, LookupType, RefreshType
<1>12. CASE DiscoveryFails
  BY <1>12 DEF DiscoveryFails, Idle, LookupInv, LookupType, RefreshType
<1>13. CASE DevicesListed
  <2>1. CASE ReloadChannels(device', device' \in refresh.found, TRUE)
             /\ refresh' = (IF device' \in refresh.found THEN [refresh EXCEPT !.stage = "channels"]
                                                     ELSE Idle)
    <3>1. device' \in refresh.found => device' \in Devices
      BY DEF RefreshType
    <3>2. /\ channel' = None /\ offered' = {}
          /\ \A l \in Lookups :
                \/ /\ lookup'[l].token \in {lookup[l].token, "cancelled"}
                   /\ lookup'[l].byRefresh = lookup[l].byRefresh
                   /\ current = l => lookup'[l].token = "cancelled"
                \/ /\ device' \in refresh.found /\ current' = l
                   /\ lookup'[l].byRefresh = TRUE
      BY <2>1, <3>1, ReloadStep
    <3>3. \A l \in Lookups : ~lookup[l].byRefresh
      BY <1>13 DEF DevicesListed, LookupInv
    <3>4. device' \in refresh.found => refresh'.stage = "channels"
      BY <2>1 DEF RefreshType
    <3> QED BY <3>2, <3>3, <3>4 DEF LookupInv
  <2>2. CASE UNCHANGED <<offered, channel, lookup, current>>
    <3>1. \A l \in Lookups : ~lookup[l].byRefresh
      BY <1>13 DEF DevicesListed, LookupInv
    <3> QED BY <2>2, <3>1 DEF LookupInv
  <2> QED BY <1>13, <2>1, <2>2 DEF DevicesListed
<1>14. CASE RefreshEnds
  BY <1>14 DEF RefreshEnds, Idle, LookupInv, LookupType, RefreshType
<1>15. CASE SavedSourceContinues
  BY <1>15 DEF SavedSourceContinues, NoLoad, LookupInv, LookupType, RefreshType
<1>16. CASE SourceUnreadable
  BY <1>16 DEF SourceUnreadable, LookupInv, LookupType, RefreshType
<1>17. CASE SourceCheckCancelled
  BY <1>17 DEF SourceCheckCancelled, LookupInv, LookupType, RefreshType
<1>18. CASE SourceChanged
  BY <1>18 DEF SourceChanged, LookupInv, LookupType, RefreshType
<1>19. CASE OverwriteRefused
  BY <1>19 DEF OverwriteRefused, LookupInv, LookupType, RefreshType
<1>20. CASE CallWorker
  BY <1>20 DEF CallWorker, LookupInv, LookupType, RefreshType
<1>21. CASE CallFailed
  BY <1>21 DEF CallFailed, LookupInv, LookupType, RefreshType
<1>22. CASE CallCancelled
  BY <1>22 DEF CallCancelled, LookupInv, LookupType, RefreshType
<1>23. CASE CallReturned
  BY <1>23 DEF CallReturned, LookupInv, LookupType, RefreshType
<1>24. CASE ApplySetupTestResult
  BY <1>24 DEF ApplySetupTestResult, LookupInv, LookupType, RefreshType
<1>25. CASE OutputValidated
  BY <1>25 DEF OutputValidated, LookupInv, LookupType, RefreshType
<1>26. CASE TryBeginCaptureCommit
  BY <1>26 DEF TryBeginCaptureCommit, LookupInv, LookupType, RefreshType
<1>27. CASE Promote
  BY <1>27 DEF Promote, LookupInv, LookupType, RefreshType
<1>28. ASSUME NEW gone \in BOOLEAN, PromotionFails(gone) PROVE LookupInv'
  BY <1>28 DEF PromotionFails, LookupInv, LookupType, RefreshType
<1>29. ASSUME NEW l \in Lookups, LookupContinues(l) PROVE LookupInv'
  BY <1>29 DEF LookupContinues, NoLookup, LookupInv, LookupType, RefreshType
<1>30. CASE DevicesTimeOut
  BY <1>30 DEF DevicesTimeOut, LookupInv, LookupType, RefreshType
<1>31. CASE TestTimesOut
  BY <1>31 DEF TestTimesOut, LookupInv, LookupType, RefreshType
<1>32. ASSUME NEW l \in Lookups, LookupTimesOut(l) PROVE LookupInv'
  BY <1>32 DEF LookupTimesOut, LookupInv, LookupType, RefreshType
<1>33. CASE DevicesAnswered
  BY <1>33 DEF DevicesAnswered, LookupInv, LookupType, RefreshType
<1>34. CASE DevicesCancelled
  BY <1>34 DEF DevicesCancelled, LookupInv, LookupType, RefreshType
<1>35. CASE SavedSourceRead
  BY <1>35 DEF SavedSourceRead, LookupInv, LookupType, RefreshType
<1>36. CASE SourceRead
  BY <1>36 DEF SourceRead, LookupInv, LookupType, RefreshType
<1>37. CASE WorkerReads
  BY <1>37 DEF WorkerReads, LookupInv, LookupType, RefreshType
<1>38. CASE WorkerSucceeds
  BY <1>38 DEF WorkerSucceeds, LookupInv, LookupType, RefreshType
<1>39. CASE WorkerFails
  BY <1>39 DEF WorkerFails, Temporaries, LookupInv, LookupType, RefreshType
<1>40. ASSUME NEW l \in Lookups, LookupAnswered(l) PROVE LookupInv'
  BY <1>40 DEF LookupAnswered, LookupInv, LookupType, RefreshType
<1>41. ASSUME NEW l \in Lookups, LookupCancelled(l) PROVE LookupInv'
  BY <1>41 DEF LookupCancelled, LookupInv, LookupType, RefreshType
<1>42. ASSUME NEW silent \in BOOLEAN, EditSource(silent) PROVE LookupInv'
  BY <1>42 DEF EditSource, LookupInv, LookupType, RefreshType
<1>43. CASE UNCHANGED vars
  BY <1>43 DEF vars, LookupInv, LookupType, RefreshType
<1> QED
  BY <1>1, <1>2, <1>3, <1>4, <1>5, <1>6, <1>7, <1>8, <1>9, <1>10, <1>11, <1>12, <1>13,
     <1>14, <1>15, <1>16, <1>17, <1>18, <1>19, <1>20, <1>21, <1>22, <1>23, <1>24,
     <1>25, <1>26, <1>27, <1>28, <1>29, <1>30, <1>31, <1>32, <1>33, <1>34, <1>35,
     <1>36, <1>37, <1>38, <1>39, <1>40, <1>41, <1>42, <1>43 DEF Next, Controls,
     Continuations, Timers, Answers, Environment

\* A source that is chosen supersedes the load.
LEMMA NextLoad == LoadType /\ DiskType /\ StageInv /\ AloneInv /\ LoadInv /\
   ReadingInv /\ [Next]_vars => LoadInv'
<1> SUFFICES ASSUME LoadType, DiskType, StageInv, AloneInv, LoadInv, ReadingInv,
   [Next]_vars PROVE LoadInv'
  OBVIOUS
<1> USE DEF route, discovery, source, operation, output, outside, Command,
   InvalidateVerification, KeepVerification, EndOperation, EndTest, EndCapture,
   EndCancelled, EndFailed
<1>1. CASE StartRefresh
  BY <1>1 DEF StartRefresh, Discovery, LoadInv, LoadType
<1>2. CASE StartTest
  BY <1>2 DEF StartTest, CanTest, AudioReady, LoadInv, LoadType
<1>3. CASE AskDestination
  BY <1>3 DEF AskDestination, CanCapture, CanTest, AudioReady, LoadInv, LoadType
<1>4. CASE DestinationRefused
  BY <1>4 DEF DestinationRefused, LoadInv, LoadType
<1>5. CASE StartCapture
  BY <1>5 DEF StartCapture, LoadInv, LoadType
<1>6. CASE CancelCapture
  BY <1>6 DEF CancelCapture, LoadInv, LoadType
<1>7. CASE Dispose
  BY <1>7 DEF Dispose, Superseded, LoadInv, LoadType
<1>8. ASSUME NEW d \in Devices, SelectDevice(d) PROVE LoadInv'
  BY <1>8 DEF SelectDevice, ReloadChannels, Superseded, LoadInv, LoadType
<1>9. ASSUME NEW c \in offered, SelectChannel(c) PROVE LoadInv'
  BY <1>9 DEF SelectChannel, LoadInv, LoadType
<1>10. ASSUME NEW x \in Trims, SetTrim(x) PROVE LoadInv'
  BY <1>10 DEF SetTrim, LoadInv, LoadType
<1>11. ASSUME NEW p \in Sources, ChooseSource(p) PROVE LoadInv'
  <2>1. /\ path' = p /\ snapshot' = Snapshot(p, FALSE)
        /\ \/ load' = NoLoad /\ load = NoLoad
           \/ load' = [load EXCEPT !.superseded = TRUE]
    BY <1>11 DEF ChooseSource
  <2>2. Snapshot(p, FALSE) \in Entry /\ Snapshot(p, FALSE).path = p
    BY SnapshotType
  <2>3. CASE load' = NoLoad /\ load = NoLoad
    BY <2>1, <2>2, <2>3 DEF LoadInv, NoLoad
  <2>4. CASE load' = [load EXCEPT !.superseded = TRUE]
    BY <2>1, <2>2, <2>4 DEF LoadInv, LoadType
  <2> QED BY <2>1, <2>3, <2>4
<1>12. CASE DiscoveryFails
  BY <1>12 DEF DiscoveryFails, Idle, LoadInv, LoadType
<1>13. CASE DevicesListed
  BY <1>13 DEF DevicesListed, ReloadChannels, Superseded, Idle, LoadInv, LoadType
<1>14. CASE RefreshEnds
  BY <1>14 DEF RefreshEnds, Idle, LoadInv, LoadType
<1>15. CASE SavedSourceContinues
  BY <1>15 DEF SavedSourceContinues, NoLoad, LoadInv, LoadType
<1>16. CASE SourceUnreadable
  BY <1>16 DEF SourceUnreadable, LoadInv, LoadType
<1>17. CASE SourceCheckCancelled
  BY <1>17 DEF SourceCheckCancelled, LoadInv, LoadType
<1>18. CASE SourceChanged
  <2>1. /\ op # "none" /\ (SourceUnchanged \/ SourceReturned)
        /\ snapshot' = now /\ UNCHANGED <<load, path>>
    BY <1>18 DEF SourceChanged, StageInv
  <2>2. now \in Entry /\ now.path = path
    BY <2>1, NowIsHashed DEF AloneInv
  <2>3. load.stage = "none" \/ load.superseded
    BY <2>1 DEF AloneInv
  <2> QED BY <2>1, <2>2, <2>3 DEF LoadInv
<1>19. CASE OverwriteRefused
  <2>1. /\ op # "none" /\ (SourceUnchanged \/ SourceReturned)
        /\ snapshot' = now /\ UNCHANGED <<load, path>>
    BY <1>19 DEF OverwriteRefused, StageInv
  <2>2. now \in Entry /\ now.path = path
    BY <2>1, NowIsHashed DEF AloneInv
  <2>3. load.stage = "none" \/ load.superseded
    BY <2>1 DEF AloneInv
  <2> QED BY <2>1, <2>2, <2>3 DEF LoadInv
<1>20. CASE CallWorker
  <2>1. /\ op # "none" /\ (SourceUnchanged \/ SourceReturned)
        /\ snapshot' = now /\ UNCHANGED <<load, path>>
    BY <1>20 DEF CallWorker, StageInv
  <2>2. now \in Entry /\ now.path = path
    BY <2>1, NowIsHashed DEF AloneInv
  <2>3. load.stage = "none" \/ load.superseded
    BY <2>1 DEF AloneInv
  <2> QED BY <2>1, <2>2, <2>3 DEF LoadInv
<1>21. CASE CallFailed
  BY <1>21 DEF CallFailed, LoadInv, LoadType
<1>22. CASE CallCancelled
  BY <1>22 DEF CallCancelled, LoadInv, LoadType
<1>23. CASE CallReturned
  BY <1>23 DEF CallReturned, LoadInv, LoadType
<1>24. CASE ApplySetupTestResult
  <2>1. /\ op # "none" /\ (SourceUnchanged \/ SourceReturned)
        /\ snapshot' = now /\ UNCHANGED <<load, path>>
    BY <1>24 DEF ApplySetupTestResult, StageInv
  <2>2. now \in Entry /\ now.path = path
    BY <2>1, NowIsHashed DEF AloneInv
  <2>3. load.stage = "none" \/ load.superseded
    BY <2>1 DEF AloneInv
  <2> QED BY <2>1, <2>2, <2>3 DEF LoadInv
<1>25. CASE OutputValidated
  <2>1. /\ op # "none" /\ (SourceUnchanged \/ SourceReturned)
        /\ snapshot' = now /\ UNCHANGED <<load, path>>
    BY <1>25 DEF OutputValidated, StageInv
  <2>2. now \in Entry /\ now.path = path
    BY <2>1, NowIsHashed DEF AloneInv
  <2>3. load.stage = "none" \/ load.superseded
    BY <2>1 DEF AloneInv
  <2> QED BY <2>1, <2>2, <2>3 DEF LoadInv
<1>26. CASE TryBeginCaptureCommit
  BY <1>26 DEF TryBeginCaptureCommit, LoadInv, LoadType
<1>27. CASE Promote
  BY <1>27 DEF Promote, LoadInv, LoadType
<1>28. ASSUME NEW gone \in BOOLEAN, PromotionFails(gone) PROVE LoadInv'
  BY <1>28 DEF PromotionFails, LoadInv, LoadType
<1>29. ASSUME NEW l \in Lookups, LookupContinues(l) PROVE LoadInv'
  BY <1>29 DEF LookupContinues, NoLookup, LoadInv, LoadType
<1>30. CASE DevicesTimeOut
  BY <1>30 DEF DevicesTimeOut, LoadInv, LoadType
<1>31. CASE TestTimesOut
  BY <1>31 DEF TestTimesOut, LoadInv, LoadType
<1>32. ASSUME NEW l \in Lookups, LookupTimesOut(l) PROVE LoadInv'
  BY <1>32 DEF LookupTimesOut, LoadInv, LoadType
<1>33. CASE DevicesAnswered
  BY <1>33 DEF DevicesAnswered, LoadInv, LoadType
<1>34. CASE DevicesCancelled
  BY <1>34 DEF DevicesCancelled, LoadInv, LoadType
<1>35. CASE SavedSourceRead
  <2>1. Snapshot(load.path, FALSE) \in Entry /\ Snapshot(load.path, FALSE).path = load.path
    BY <1>35, SnapshotType DEF SavedSourceRead, LoadInv
  <2> QED BY <1>35, <2>1 DEF SavedSourceRead, LoadInv, LoadType
<1>36. CASE SourceRead
  BY <1>36 DEF SourceRead, LoadInv, LoadType
<1>37. CASE WorkerReads
  BY <1>37 DEF WorkerReads, LoadInv, LoadType
<1>38. CASE WorkerSucceeds
  BY <1>38 DEF WorkerSucceeds, LoadInv, LoadType
<1>39. CASE WorkerFails
  BY <1>39 DEF WorkerFails, Temporaries, LoadInv, LoadType
<1>40. ASSUME NEW l \in Lookups, LookupAnswered(l) PROVE LoadInv'
  BY <1>40 DEF LookupAnswered, LoadInv, LoadType
<1>41. ASSUME NEW l \in Lookups, LookupCancelled(l) PROVE LoadInv'
  BY <1>41 DEF LookupCancelled, LoadInv, LoadType
<1>42. ASSUME NEW silent \in BOOLEAN, EditSource(silent) PROVE LoadInv'
  BY <1>42 DEF EditSource, LoadInv, LoadType
<1>43. CASE UNCHANGED vars
  BY <1>43 DEF vars, LoadInv, LoadType
<1> QED
  BY <1>1, <1>2, <1>3, <1>4, <1>5, <1>6, <1>7, <1>8, <1>9, <1>10, <1>11, <1>12, <1>13,
     <1>14, <1>15, <1>16, <1>17, <1>18, <1>19, <1>20, <1>21, <1>22, <1>23, <1>24,
     <1>25, <1>26, <1>27, <1>28, <1>29, <1>30, <1>31, <1>32, <1>33, <1>34, <1>35,
     <1>36, <1>37, <1>38, <1>39, <1>40, <1>41, <1>42, <1>43 DEF Next, Controls,
     Continuations, Timers, Answers, Environment

\* What interferes is over when an operation begins, and does not come back.
LEMMA NextAlone == LoadType /\ StageInv /\ LookupInv /\ LoadInv /\ AloneInv /\
   [Next]_vars => AloneInv'
<1> SUFFICES ASSUME LoadType, StageInv, LookupInv, LoadInv, AloneInv, [Next]_vars
   PROVE AloneInv'
  OBVIOUS
<1> USE DEF route, discovery, source, operation, output, outside, Command, Open,
   ControlsLocked, Refreshing, InvalidateVerification, KeepVerification, EndOperation,
   EndTest, EndCapture, EndCancelled, EndFailed, CleanUp
<1>1. CASE StartRefresh
  BY <1>1 DEF StartRefresh, Discovery, StageInv, AloneInv, LookupInv, LoadInv,
     LoadType
<1>2. CASE StartTest
  <2>1. op = "none" /\ ~Refreshing /\ channel # None /\ snapshot # None
    BY <1>2 DEF StartTest, CanTest, AudioReady
  <2>2. path \in Sources /\ (load.stage = "none" \/ load.superseded)
    BY <2>1 DEF LoadInv, Entry
  <2>3. UNCHANGED <<channel, path, load, refresh>>
    BY <1>2 DEF StartTest
  <2> QED BY <2>1, <2>2, <2>3 DEF AloneInv
<1>3. CASE AskDestination
  BY <1>3 DEF AskDestination, CanCapture, CanTest, AudioReady, StageInv, AloneInv,
     LookupInv, LoadInv, LoadType
<1>4. CASE DestinationRefused
  BY <1>4 DEF DestinationRefused, StageInv, AloneInv, LookupInv, LoadInv, LoadType
<1>5. CASE StartCapture
  BY <1>5 DEF StartCapture, StageInv, AloneInv, LookupInv, LoadInv, LoadType
<1>6. CASE CancelCapture
  BY <1>6 DEF CancelCapture, StageInv, AloneInv, LookupInv, LoadInv, LoadType
<1>7. CASE Dispose
  BY <1>7 DEF Dispose, Superseded, StageInv, AloneInv, LookupInv, LoadInv, LoadType
<1>8. ASSUME NEW d \in Devices, SelectDevice(d) PROVE AloneInv'
  BY <1>8 DEF SelectDevice, ReloadChannels, Superseded, StageInv, AloneInv, LookupInv,
     LoadInv, LoadType
<1>9. ASSUME NEW c \in offered, SelectChannel(c) PROVE AloneInv'
  BY <1>9 DEF SelectChannel, StageInv, AloneInv, LookupInv, LoadInv, LoadType
<1>10. ASSUME NEW x \in Trims, SetTrim(x) PROVE AloneInv'
  BY <1>10 DEF SetTrim, StageInv, AloneInv, LookupInv, LoadInv, LoadType
<1>11. ASSUME NEW p \in Sources, ChooseSource(p) PROVE AloneInv'
  BY <1>11 DEF ChooseSource, NoLoad, StageInv, AloneInv, LookupInv, LoadInv, LoadType
<1>12. CASE DiscoveryFails
  BY <1>12 DEF DiscoveryFails, Idle, StageInv, AloneInv, LookupInv, LoadInv, LoadType
<1>13. CASE DevicesListed
  BY <1>13 DEF DevicesListed, ReloadChannels, Superseded, Idle, StageInv, AloneInv,
     LookupInv, LoadInv, LoadType
<1>14. CASE RefreshEnds
  BY <1>14 DEF RefreshEnds, Idle, StageInv, AloneInv, LookupInv, LoadInv, LoadType
<1>15. CASE SavedSourceContinues
  BY <1>15 DEF SavedSourceContinues, NoLoad, StageInv, AloneInv, LookupInv, LoadInv,
     LoadType
<1>16. CASE SourceUnreadable
  BY <1>16 DEF SourceUnreadable, StageInv, AloneInv, LookupInv, LoadInv, LoadType
<1>17. CASE SourceCheckCancelled
  BY <1>17 DEF SourceCheckCancelled, StageInv, AloneInv, LookupInv, LoadInv, LoadType
<1>18. CASE SourceChanged
  BY <1>18 DEF SourceChanged, StageInv, AloneInv, LookupInv, LoadInv, LoadType
<1>19. CASE OverwriteRefused
  BY <1>19 DEF OverwriteRefused, StageInv, AloneInv, LookupInv, LoadInv, LoadType
<1>20. CASE CallWorker
  BY <1>20 DEF CallWorker, StageInv, AloneInv, LookupInv, LoadInv, LoadType
<1>21. CASE CallFailed
  BY <1>21 DEF CallFailed, StageInv, AloneInv, LookupInv, LoadInv, LoadType
<1>22. CASE CallCancelled
  BY <1>22 DEF CallCancelled, StageInv, AloneInv, LookupInv, LoadInv, LoadType
<1>23. CASE CallReturned
  BY <1>23 DEF CallReturned, StageInv, AloneInv, LookupInv, LoadInv, LoadType
<1>24. CASE ApplySetupTestResult
  BY <1>24 DEF ApplySetupTestResult, StageInv, AloneInv, LookupInv, LoadInv, LoadType
<1>25. CASE OutputValidated
  BY <1>25 DEF OutputValidated, StageInv, AloneInv, LookupInv, LoadInv, LoadType
<1>26. CASE TryBeginCaptureCommit
  BY <1>26 DEF TryBeginCaptureCommit, StageInv, AloneInv, LookupInv, LoadInv, LoadType
<1>27. CASE Promote
  BY <1>27 DEF Promote, StageInv, AloneInv, LookupInv, LoadInv, LoadType
<1>28. ASSUME NEW gone \in BOOLEAN, PromotionFails(gone) PROVE AloneInv'
  BY <1>28 DEF PromotionFails, StageInv, AloneInv, LookupInv, LoadInv, LoadType
<1>29. ASSUME NEW l \in Lookups, LookupContinues(l) PROVE AloneInv'
  BY <1>29 DEF LookupContinues, NoLookup, StageInv, AloneInv, LookupInv, LoadInv,
     LoadType
<1>30. CASE DevicesTimeOut
  BY <1>30 DEF DevicesTimeOut, StageInv, AloneInv, LookupInv, LoadInv, LoadType
<1>31. CASE TestTimesOut
  BY <1>31 DEF TestTimesOut, StageInv, AloneInv, LookupInv, LoadInv, LoadType
<1>32. ASSUME NEW l \in Lookups, LookupTimesOut(l) PROVE AloneInv'
  BY <1>32 DEF LookupTimesOut, StageInv, AloneInv, LookupInv, LoadInv, LoadType
<1>33. CASE DevicesAnswered
  BY <1>33 DEF DevicesAnswered, StageInv, AloneInv, LookupInv, LoadInv, LoadType
<1>34. CASE DevicesCancelled
  BY <1>34 DEF DevicesCancelled, StageInv, AloneInv, LookupInv, LoadInv, LoadType
<1>35. CASE SavedSourceRead
  BY <1>35 DEF SavedSourceRead, StageInv, AloneInv, LookupInv, LoadInv, LoadType
<1>36. CASE SourceRead
  BY <1>36 DEF SourceRead, StageInv, AloneInv, LookupInv, LoadInv, LoadType
<1>37. CASE WorkerReads
  BY <1>37 DEF WorkerReads, StageInv, AloneInv, LookupInv, LoadInv, LoadType
<1>38. CASE WorkerSucceeds
  BY <1>38 DEF WorkerSucceeds, StageInv, AloneInv, LookupInv, LoadInv, LoadType
<1>39. CASE WorkerFails
  BY <1>39 DEF WorkerFails, Temporaries, StageInv, AloneInv, LookupInv, LoadInv,
     LoadType
<1>40. ASSUME NEW l \in Lookups, LookupAnswered(l) PROVE AloneInv'
  BY <1>40 DEF LookupAnswered, StageInv, AloneInv, LookupInv, LoadInv, LoadType
<1>41. ASSUME NEW l \in Lookups, LookupCancelled(l) PROVE AloneInv'
  BY <1>41 DEF LookupCancelled, StageInv, AloneInv, LookupInv, LoadInv, LoadType
<1>42. ASSUME NEW silent \in BOOLEAN, EditSource(silent) PROVE AloneInv'
  BY <1>42 DEF EditSource, StageInv, AloneInv, LookupInv, LoadInv, LoadType
<1>43. CASE UNCHANGED vars
  BY <1>43 DEF vars, StageInv, AloneInv, LookupInv, LoadInv, LoadType
<1> QED
  BY <1>1, <1>2, <1>3, <1>4, <1>5, <1>6, <1>7, <1>8, <1>9, <1>10, <1>11, <1>12, <1>13,
     <1>14, <1>15, <1>16, <1>17, <1>18, <1>19, <1>20, <1>21, <1>22, <1>23, <1>24,
     <1>25, <1>26, <1>27, <1>28, <1>29, <1>30, <1>31, <1>32, <1>33, <1>34, <1>35,
     <1>36, <1>37, <1>38, <1>39, <1>40, <1>41, <1>42, <1>43 DEF Next, Controls,
     Continuations, Timers, Answers, Environment

\* What a capture leaves is deleted or told.
LEMMA NextFiles == StageInv /\ FilesInv /\ FlagType /\ [Next]_vars => FilesInv'
<1> SUFFICES ASSUME StageInv, FilesInv, FlagType, [Next]_vars PROVE FilesInv'
  OBVIOUS
<1> USE DEF route, discovery, source, operation, output, outside, Command, Open,
   ControlsLocked, Refreshing, InvalidateVerification, KeepVerification, EndOperation,
   EndTest, EndCapture, EndCancelled, EndFailed, CleanUp
<1>1. CASE StartRefresh
  BY <1>1 DEF StartRefresh, Discovery, StageInv, FilesInv, TemporaryAccounted
<1>2. CASE StartTest
  BY <1>2 DEF StartTest, CanTest, AudioReady, StageInv, FilesInv, TemporaryAccounted
<1>3. CASE AskDestination
  BY <1>3 DEF AskDestination, CanCapture, CanTest, AudioReady, StageInv, FilesInv,
     TemporaryAccounted
<1>4. CASE DestinationRefused
  <2>1. /\ op = "dialog" /\ op' = "none"
        /\ UNCHANGED <<stage, answer, outcome, files, undeleted, read>>
        /\ recovery' \in {recovery, FALSE}
    BY <1>4 DEF DestinationRefused
  <2>2. recovery' = recovery \/ recovery' = FALSE
    BY <2>1
  <2>3. CASE recovery' = recovery
    BY <2>1, <2>3 DEF StageInv, FilesInv, TemporaryAccounted
  <2>4. CASE recovery' = FALSE
    BY <2>1, <2>4 DEF StageInv, FilesInv, TemporaryAccounted
  <2> QED BY <2>2, <2>3, <2>4
<1>5. CASE StartCapture
  BY <1>5 DEF StartCapture, StageInv, FilesInv, TemporaryAccounted
<1>6. CASE CancelCapture
  BY <1>6 DEF CancelCapture, StageInv, FilesInv, TemporaryAccounted
<1>7. CASE Dispose
  BY <1>7 DEF Dispose, Superseded, StageInv, FilesInv, TemporaryAccounted
<1>8. ASSUME NEW d \in Devices, SelectDevice(d) PROVE FilesInv'
  BY <1>8 DEF SelectDevice, ReloadChannels, Superseded, StageInv, FilesInv,
     TemporaryAccounted
<1>9. ASSUME NEW c \in offered, SelectChannel(c) PROVE FilesInv'
  BY <1>9 DEF SelectChannel, StageInv, FilesInv, TemporaryAccounted
<1>10. ASSUME NEW x \in Trims, SetTrim(x) PROVE FilesInv'
  BY <1>10 DEF SetTrim, StageInv, FilesInv, TemporaryAccounted
<1>11. ASSUME NEW p \in Sources, ChooseSource(p) PROVE FilesInv'
  BY <1>11 DEF ChooseSource, NoLoad, StageInv, FilesInv, TemporaryAccounted
<1>12. CASE DiscoveryFails
  BY <1>12 DEF DiscoveryFails, Idle, StageInv, FilesInv, TemporaryAccounted
<1>13. CASE DevicesListed
  BY <1>13 DEF DevicesListed, ReloadChannels, Superseded, Idle, StageInv, FilesInv,
     TemporaryAccounted
<1>14. CASE RefreshEnds
  BY <1>14 DEF RefreshEnds, Idle, StageInv, FilesInv, TemporaryAccounted
<1>15. CASE SavedSourceContinues
  BY <1>15 DEF SavedSourceContinues, NoLoad, StageInv, FilesInv, TemporaryAccounted
<1>16. CASE SourceUnreadable
  BY <1>16 DEF SourceUnreadable, StageInv, FilesInv, TemporaryAccounted
<1>17. CASE SourceCheckCancelled
  BY <1>17 DEF SourceCheckCancelled, StageInv, FilesInv, TemporaryAccounted
<1>18. CASE SourceChanged
  BY <1>18 DEF SourceChanged, StageInv, FilesInv, TemporaryAccounted
<1>19. CASE OverwriteRefused
  BY <1>19 DEF OverwriteRefused, StageInv, FilesInv, TemporaryAccounted
<1>20. CASE CallWorker
  BY <1>20 DEF CallWorker, StageInv, FilesInv, TemporaryAccounted
<1>21. CASE CallFailed
  BY <1>21 DEF CallFailed, StageInv, FilesInv, TemporaryAccounted
<1>22. CASE CallCancelled
  BY <1>22 DEF CallCancelled, StageInv, FilesInv, TemporaryAccounted
<1>23. CASE CallReturned
  BY <1>23 DEF CallReturned, StageInv, FilesInv, TemporaryAccounted
<1>24. CASE ApplySetupTestResult
  BY <1>24 DEF ApplySetupTestResult, StageInv, FilesInv, TemporaryAccounted
<1>25. CASE OutputValidated
  BY <1>25 DEF OutputValidated, StageInv, FilesInv, TemporaryAccounted
<1>26. CASE TryBeginCaptureCommit
  BY <1>26 DEF TryBeginCaptureCommit, StageInv, FilesInv, TemporaryAccounted
<1>27. CASE Promote
  BY <1>27 DEF Promote, StageInv, FilesInv, TemporaryAccounted
<1>28. ASSUME NEW gone \in BOOLEAN, PromotionFails(gone) PROVE FilesInv'
  BY <1>28 DEF PromotionFails, StageInv, FilesInv, TemporaryAccounted
<1>29. ASSUME NEW l \in Lookups, LookupContinues(l) PROVE FilesInv'
  BY <1>29 DEF LookupContinues, NoLookup, StageInv, FilesInv, TemporaryAccounted
<1>30. CASE DevicesTimeOut
  BY <1>30 DEF DevicesTimeOut, StageInv, FilesInv, TemporaryAccounted
<1>31. CASE TestTimesOut
  BY <1>31 DEF TestTimesOut, StageInv, FilesInv, TemporaryAccounted
<1>32. ASSUME NEW l \in Lookups, LookupTimesOut(l) PROVE FilesInv'
  BY <1>32 DEF LookupTimesOut, StageInv, FilesInv, TemporaryAccounted
<1>33. CASE DevicesAnswered
  BY <1>33 DEF DevicesAnswered, StageInv, FilesInv, TemporaryAccounted
<1>34. CASE DevicesCancelled
  BY <1>34 DEF DevicesCancelled, StageInv, FilesInv, TemporaryAccounted
<1>35. CASE SavedSourceRead
  BY <1>35 DEF SavedSourceRead, StageInv, FilesInv, TemporaryAccounted
<1>36. CASE SourceRead
  BY <1>36 DEF SourceRead, StageInv, FilesInv, TemporaryAccounted
<1>37. CASE WorkerReads
  BY <1>37 DEF WorkerReads, StageInv, FilesInv, TemporaryAccounted
<1>38. CASE WorkerSucceeds
  BY <1>38 DEF WorkerSucceeds, StageInv, FilesInv, TemporaryAccounted
<1>39. CASE WorkerFails
  BY <1>39 DEF WorkerFails, Temporaries, StageInv, FilesInv, TemporaryAccounted
<1>40. ASSUME NEW l \in Lookups, LookupAnswered(l) PROVE FilesInv'
  BY <1>40 DEF LookupAnswered, StageInv, FilesInv, TemporaryAccounted
<1>41. ASSUME NEW l \in Lookups, LookupCancelled(l) PROVE FilesInv'
  BY <1>41 DEF LookupCancelled, StageInv, FilesInv, TemporaryAccounted
<1>42. ASSUME NEW silent \in BOOLEAN, EditSource(silent) PROVE FilesInv'
  BY <1>42 DEF EditSource, StageInv, FilesInv, TemporaryAccounted
<1>43. CASE UNCHANGED vars
  BY <1>43 DEF vars, StageInv, FilesInv, TemporaryAccounted
<1> QED
  BY <1>1, <1>2, <1>3, <1>4, <1>5, <1>6, <1>7, <1>8, <1>9, <1>10, <1>11, <1>12, <1>13,
     <1>14, <1>15, <1>16, <1>17, <1>18, <1>19, <1>20, <1>21, <1>22, <1>23, <1>24,
     <1>25, <1>26, <1>27, <1>28, <1>29, <1>30, <1>31, <1>32, <1>33, <1>34, <1>35,
     <1>36, <1>37, <1>38, <1>39, <1>40, <1>41, <1>42, <1>43 DEF Next, Controls,
     Continuations, Timers, Answers, Environment

\* What is verified is what is selected.
LEMMA NextVerified == FlagType /\ RefreshType /\ LoadType /\ DiskType /\ StageInv /\
   LookupInv /\ LoadInv /\ AloneInv /\ ReadingInv /\ VerifiedInv /\ [Next]_vars =>
   VerifiedInv'
<1> SUFFICES ASSUME FlagType, RefreshType, LoadType, DiskType, StageInv, LookupInv,
   LoadInv, AloneInv, ReadingInv, VerifiedInv, [Next]_vars PROVE VerifiedInv'
  OBVIOUS
<1> USE DEF route, discovery, source, operation, output, outside, Command, Open,
   ControlsLocked, Refreshing, InvalidateVerification, KeepVerification, EndOperation,
   EndTest, EndCapture, EndCancelled, EndFailed, CleanUp
<1>1. CASE StartRefresh
  BY <1>1 DEF StartRefresh, Discovery, VerifiedInv, Confirmed, Setup
<1>2. CASE StartTest
  BY <1>2 DEF StartTest, CanTest, AudioReady, VerifiedInv, Confirmed, Setup
<1>3. CASE AskDestination
  BY <1>3 DEF AskDestination, CanCapture, CanTest, AudioReady, VerifiedInv, Confirmed,
     Setup
<1>4. CASE DestinationRefused
  BY <1>4 DEF DestinationRefused, VerifiedInv, Confirmed, Setup
<1>5. CASE StartCapture
  BY <1>5 DEF StartCapture, VerifiedInv, Confirmed, Setup
<1>6. CASE CancelCapture
  BY <1>6 DEF CancelCapture, VerifiedInv, Confirmed, Setup
<1>7. CASE Dispose
  BY <1>7 DEF Dispose, Superseded, VerifiedInv, Confirmed, Setup
<1>8. ASSUME NEW d \in Devices, SelectDevice(d) PROVE VerifiedInv'
  BY <1>8 DEF SelectDevice, ReloadChannels, Superseded, VerifiedInv, Confirmed, Setup
<1>9. ASSUME NEW c \in offered, SelectChannel(c) PROVE VerifiedInv'
  BY <1>9 DEF SelectChannel, VerifiedInv, Confirmed, Setup
<1>10. ASSUME NEW x \in Trims, SetTrim(x) PROVE VerifiedInv'
  BY <1>10 DEF SetTrim, VerifiedInv, Confirmed, Setup
<1>11. ASSUME NEW p \in Sources, ChooseSource(p) PROVE VerifiedInv'
  <2>1. op = "none" /\ ~Refreshing /\ UNCHANGED <<op, refresh>>
    BY <1>11 DEF ChooseSource
  <2>2. CASE verified
    <3>1. snapshot \in Hashed /\ snapshot.content # Unhashed
      BY <2>1, <2>2 DEF VerifiedInv, Confirmed, Hashed, Unhashed
    <3>2. Snapshot(p, FALSE).content = Unhashed
      BY DEF Snapshot
    <3>3. ~SourceSnapshotsMatch(snapshot, Snapshot(p, FALSE))
      BY <3>1, <3>2 DEF SourceSnapshotsMatch
    <3>4. verified' = FALSE
      BY <1>11, <3>3 DEF ChooseSource
    <3> QED BY <2>1, <3>4 DEF VerifiedInv
  <2>3. CASE ~verified
    <3>1. ~verified'
      BY <1>11, <2>3 DEF ChooseSource
    <3> QED BY <2>1, <3>1 DEF VerifiedInv
  <2> QED BY <2>2, <2>3
<1>12. CASE DiscoveryFails
  BY <1>12 DEF DiscoveryFails, Idle, VerifiedInv, Confirmed, Setup
<1>13. CASE DevicesListed
  <2>1. refresh.stage = "devices" /\ op = "none" /\ op' = "none"
    BY <1>13 DEF DevicesListed, AloneInv
  <2>2. CASE verified' = FALSE
    BY <2>1, <2>2 DEF VerifiedInv
  <2>3. CASE refresh' = [refresh EXCEPT !.stage = "channels"] /\ verified' = verified
    <3>1. refresh'.stage = "channels" /\ refresh'.preserve = refresh.preserve
      BY <2>3 DEF RefreshType
    <3> QED BY <2>1, <2>3, <3>1 DEF VerifiedInv
  <2>4. CASE refresh.preserve /\ verified' = verified
    BY <2>1, <2>4, <2>2 DEF VerifiedInv, FlagType
  <2> QED BY <1>13, <2>2, <2>3, <2>4 DEF DevicesListed
<1>14. CASE RefreshEnds
  BY <1>14 DEF RefreshEnds, Idle, VerifiedInv, Confirmed, Setup
<1>15. CASE SavedSourceContinues
  <2>1. UNCHANGED <<verified, tested, op, refresh, device, channel, trim>>
    BY <1>15 DEF SavedSourceContinues
  <2>2. op # "none" \/ verified => snapshot' = snapshot
    BY <1>15 DEF SavedSourceContinues, AloneInv
  <2> QED BY <2>1, <2>2 DEF VerifiedInv, Confirmed, Setup
<1>16. CASE SourceUnreadable
  BY <1>16 DEF SourceUnreadable, VerifiedInv, Confirmed, Setup
<1>17. CASE SourceCheckCancelled
  BY <1>17 DEF SourceCheckCancelled, VerifiedInv, Confirmed, Setup
<1>18. CASE SourceChanged
  BY <1>18 DEF SourceChanged, VerifiedInv, Confirmed, Setup
<1>19. CASE OverwriteRefused
  <2>1. (op = "capture" \/ op = "test") /\ SourceUnchanged /\ snapshot' = now /\ op # "none"
    BY <1>19 DEF OverwriteRefused, StageInv
  <2>2. now \in Hashed
    BY <2>1, NowIsHashed DEF AloneInv
  <2>3. op = "capture" => now = snapshot
    <3>1. op = "capture" => snapshot \in Hashed
      BY DEF VerifiedInv, Confirmed
    <3>2. SourceSnapshotsMatch(snapshot, now)
      BY <1>19, <2>1 DEF OverwriteRefused, SourceUnchanged, ExpectedSource
    <3> QED BY <2>2, <3>1, <3>2, MatchIsEqual
  <2>4. op = "test" => ~verified
    BY DEF VerifiedInv
  <2> QED BY <1>19, <2>1, <2>2, <2>3, <2>4 DEF OverwriteRefused, VerifiedInv, Confirmed, Setup
<1>20. CASE CallWorker
  <2>1. (op = "capture" \/ op = "test") /\ SourceUnchanged /\ snapshot' = now /\ op # "none"
    BY <1>20 DEF CallWorker, StageInv
  <2>2. now \in Hashed
    BY <2>1, NowIsHashed DEF AloneInv
  <2>3. op = "capture" => now = snapshot
    <3>1. op = "capture" => snapshot \in Hashed
      BY DEF VerifiedInv, Confirmed
    <3>2. SourceSnapshotsMatch(snapshot, now)
      BY <1>20, <2>1 DEF CallWorker, SourceUnchanged, ExpectedSource
    <3> QED BY <2>2, <3>1, <3>2, MatchIsEqual
  <2>4. op = "test" => ~verified
    BY DEF VerifiedInv
  <2> QED BY <1>20, <2>1, <2>2, <2>3, <2>4 DEF CallWorker, VerifiedInv, Confirmed, Setup
<1>21. CASE CallFailed
  BY <1>21 DEF CallFailed, VerifiedInv, Confirmed, Setup
<1>22. CASE CallCancelled
  BY <1>22 DEF CallCancelled, VerifiedInv, Confirmed, Setup
<1>23. CASE CallReturned
  BY <1>23 DEF CallReturned, VerifiedInv, Confirmed, Setup
<1>24. CASE ApplySetupTestResult
  <2>1. op = "test" /\ stage = "recheck" /\ SourceUnchanged /\ snapshot' = now /\ op' = "none"
        /\ UNCHANGED <<device, channel, trim, refresh>>
        /\ (verified' => tested' = request)
    BY <1>24 DEF ApplySetupTestResult
  <2>2. now \in Hashed
    BY <2>1, NowIsHashed DEF AloneInv
  <2>3. request = Setup(request.source) /\ request.source \in Hashed
    BY <2>1 DEF ReadingInv
  <2>4. now = request.source
    BY <2>1, <2>2, <2>3, MatchIsEqual DEF SourceUnchanged, ExpectedSource
  <2>5. channel # None /\ refresh.stage = "idle"
    BY <2>1 DEF AloneInv
  <2>6. verified' => Confirmed'
    BY <2>1, <2>2, <2>3, <2>4, <2>5 DEF Confirmed, Setup
  <2> QED BY <2>1, <2>5, <2>6 DEF VerifiedInv
<1>25. CASE OutputValidated
  <2>1. (op = "capture" \/ op = "test") /\ SourceUnchanged /\ snapshot' = now /\ op # "none"
    BY <1>25 DEF OutputValidated, StageInv
  <2>2. now \in Hashed
    BY <2>1, NowIsHashed DEF AloneInv
  <2>3. op = "capture" => now = snapshot
    <3>1. op = "capture" => snapshot \in Hashed
      BY DEF VerifiedInv, Confirmed
    <3>2. SourceSnapshotsMatch(request.source, now)
      BY <1>25, <2>1 DEF OutputValidated, SourceUnchanged, ExpectedSource
    <3>3. op = "capture" => /\ request.source \in Hashed
                            /\ request = Setup(request.source) /\ request = tested
      BY <1>25 DEF OutputValidated, ReadingInv
    <3>4. op = "capture" => tested = Setup(snapshot)
      BY DEF VerifiedInv, Confirmed
    <3>5. op = "capture" => request.source = snapshot
      BY <3>3, <3>4 DEF Setup
    <3> QED BY <2>2, <3>2, <3>3, <3>5, MatchIsEqual
  <2>4. op = "test" => ~verified
    BY DEF VerifiedInv
  <2> QED BY <1>25, <2>1, <2>2, <2>3, <2>4 DEF OutputValidated, VerifiedInv, Confirmed, Setup
<1>26. CASE TryBeginCaptureCommit
  BY <1>26 DEF TryBeginCaptureCommit, VerifiedInv, Confirmed, Setup
<1>27. CASE Promote
  BY <1>27 DEF Promote, VerifiedInv, Confirmed, Setup
<1>28. ASSUME NEW gone \in BOOLEAN, PromotionFails(gone) PROVE VerifiedInv'
  BY <1>28 DEF PromotionFails, VerifiedInv, Confirmed, Setup
<1>29. ASSUME NEW l \in Lookups, LookupContinues(l) PROVE VerifiedInv'
  <2>1. UNCHANGED <<device, trim, snapshot, op>> /\ (verified' => verified)
        /\ (op \in {"dialog", "capture"} => tested' = tested) /\ (verified' => tested' = tested)
    BY <1>29 DEF LookupContinues, FlagType
  <2>2. channel' = channel \/ channel = None
    BY <1>29 DEF LookupContinues, LookupInv
  <2>3. \/ refresh' = refresh
        \/ refresh.stage = "channels" /\ refresh' = [refresh EXCEPT !.stage = "ending"]
    BY <1>29 DEF LookupContinues, LookupInv
  <2>4. /\ refresh'.preserve = refresh.preserve
        /\ refresh'.stage \in {"idle", "devices"} => refresh' = refresh
        /\ (refresh'.stage # "idle" => refresh.stage # "idle")
    BY <2>3 DEF RefreshType
  <2>5. Confirmed => channel # None
    BY DEF Confirmed
  <2>6. Confirmed /\ tested' = tested => Confirmed'
    BY <2>1, <2>2, <2>5 DEF Confirmed, Setup
  <2> QED BY <2>1, <2>4, <2>6 DEF VerifiedInv
<1>30. CASE DevicesTimeOut
  BY <1>30 DEF DevicesTimeOut, VerifiedInv, Confirmed, Setup
<1>31. CASE TestTimesOut
  BY <1>31 DEF TestTimesOut, VerifiedInv, Confirmed, Setup
<1>32. ASSUME NEW l \in Lookups, LookupTimesOut(l) PROVE VerifiedInv'
  BY <1>32 DEF LookupTimesOut, VerifiedInv, Confirmed, Setup
<1>33. CASE DevicesAnswered
  <2>1. refresh'.stage = refresh.stage /\ refresh'.preserve = refresh.preserve
    BY <1>33 DEF DevicesAnswered, RefreshType
  <2>2. UNCHANGED <<verified, tested, op, device, channel, trim, snapshot>>
    BY <1>33 DEF DevicesAnswered
  <2> QED BY <2>1, <2>2 DEF VerifiedInv, Confirmed, Setup
<1>34. CASE DevicesCancelled
  BY <1>34 DEF DevicesCancelled, VerifiedInv, Confirmed, Setup
<1>35. CASE SavedSourceRead
  BY <1>35 DEF SavedSourceRead, VerifiedInv, Confirmed, Setup
<1>36. CASE SourceRead
  BY <1>36 DEF SourceRead, VerifiedInv, Confirmed, Setup
<1>37. CASE WorkerReads
  BY <1>37 DEF WorkerReads, VerifiedInv, Confirmed, Setup
<1>38. CASE WorkerSucceeds
  BY <1>38 DEF WorkerSucceeds, VerifiedInv, Confirmed, Setup
<1>39. CASE WorkerFails
  BY <1>39 DEF WorkerFails, Temporaries, VerifiedInv, Confirmed, Setup
<1>40. ASSUME NEW l \in Lookups, LookupAnswered(l) PROVE VerifiedInv'
  BY <1>40 DEF LookupAnswered, VerifiedInv, Confirmed, Setup
<1>41. ASSUME NEW l \in Lookups, LookupCancelled(l) PROVE VerifiedInv'
  BY <1>41 DEF LookupCancelled, VerifiedInv, Confirmed, Setup
<1>42. ASSUME NEW silent \in BOOLEAN, EditSource(silent) PROVE VerifiedInv'
  BY <1>42 DEF EditSource, VerifiedInv, Confirmed, Setup
<1>43. CASE UNCHANGED vars
  BY <1>43 DEF vars, VerifiedInv, Confirmed, Setup
<1> QED
  BY <1>1, <1>2, <1>3, <1>4, <1>5, <1>6, <1>7, <1>8, <1>9, <1>10, <1>11, <1>12, <1>13,
     <1>14, <1>15, <1>16, <1>17, <1>18, <1>19, <1>20, <1>21, <1>22, <1>23, <1>24,
     <1>25, <1>26, <1>27, <1>28, <1>29, <1>30, <1>31, <1>32, <1>33, <1>34, <1>35,
     <1>36, <1>37, <1>38, <1>39, <1>40, <1>41, <1>42, <1>43 DEF Next, Controls,
     Continuations, Timers, Answers, Environment

\* The source is read in the order of its edits.
LEMMA NextReading == DiskType /\ StageInv /\ AloneInv /\ LookupInv /\ FilesInv /\
   VerifiedInv /\ ReadingInv /\ [Next]_vars => ReadingInv'
<1> SUFFICES ASSUME DiskType, StageInv, AloneInv, LookupInv, FilesInv, VerifiedInv,
   ReadingInv, [Next]_vars PROVE ReadingInv'
  OBVIOUS
<1> USE DEF route, discovery, source, operation, output, outside, Command, Open,
   ControlsLocked, Refreshing, InvalidateVerification, KeepVerification, EndOperation,
   EndTest, EndCapture, EndCancelled, EndFailed, CleanUp
<1>0. ASSUME UNCHANGED <<disk, path, device, channel, trim, op, answer, now,
                         request, target, read>>,
             stage' = stage, op = "capture" => tested' = tested
      PROVE  ReadingInv'
  BY <1>0 DEF ReadingInv, OnDisk, Snapshot, Setup
<1>a. ASSUME op' \in {"none", "dialog"}, stage' = "none", answer' = "none"
      PROVE  ReadingInv'
  BY <1>a DEF ReadingInv
<1>b. ASSUME UNCHANGED <<disk, path>> PROVE OnDisk' = OnDisk
  BY <1>b DEF OnDisk, Snapshot
<1>1. CASE StartRefresh
  <2>1. op = "none" /\ op' \in {"none", "dialog"} /\ UNCHANGED <<stage, answer>>
    BY <1>1 DEF StartRefresh
  <2> QED BY <1>a, <2>1 DEF StageInv
<1>2. CASE StartTest
  BY <1>2 DEF StartTest, CanTest, AudioReady, ReadingInv
<1>3. CASE AskDestination
  <2>1. op = "none" /\ op' \in {"none", "dialog"} /\ UNCHANGED <<stage, answer>>
    BY <1>3 DEF AskDestination
  <2> QED BY <1>a, <2>1 DEF StageInv
<1>4. CASE DestinationRefused
  <2>1. op = "dialog" /\ op' = "none" /\ UNCHANGED <<stage, answer>>
    BY <1>4 DEF DestinationRefused
  <2> QED BY <1>a, <2>1 DEF StageInv
<1>5. CASE StartCapture
  BY <1>5 DEF StartCapture, ReadingInv
<1>6. CASE CancelCapture
  BY <1>6, <1>0 DEF CancelCapture
<1>7. CASE Dispose
  BY <1>7, <1>0 DEF Dispose
<1>8. ASSUME NEW d \in Devices, SelectDevice(d) PROVE ReadingInv'
  <2>1. op = "none" /\ op' \in {"none", "dialog"} /\ UNCHANGED <<stage, answer>>
    BY <1>8 DEF SelectDevice
  <2> QED BY <1>a, <2>1 DEF StageInv
<1>9. ASSUME NEW c \in offered, SelectChannel(c) PROVE ReadingInv'
  <2>1. op = "none" /\ op' \in {"none", "dialog"} /\ UNCHANGED <<stage, answer>>
    BY <1>9 DEF SelectChannel
  <2> QED BY <1>a, <2>1 DEF StageInv
<1>10. ASSUME NEW x \in Trims, SetTrim(x) PROVE ReadingInv'
  <2>1. op = "none" /\ op' \in {"none", "dialog"} /\ UNCHANGED <<stage, answer>>
    BY <1>10 DEF SetTrim
  <2> QED BY <1>a, <2>1 DEF StageInv
<1>11. ASSUME NEW p \in Sources, ChooseSource(p) PROVE ReadingInv'
  <2>1. op = "none" /\ op' \in {"none", "dialog"} /\ UNCHANGED <<stage, answer>>
    BY <1>11 DEF ChooseSource
  <2> QED BY <1>a, <2>1 DEF StageInv
<1>12. CASE DiscoveryFails
  <2>1. refresh.stage # "idle" /\ UNCHANGED <<op, stage, answer>>
    BY <1>12 DEF DiscoveryFails
  <2>2. op = "none"
    BY <2>1 DEF AloneInv
  <2> QED BY <1>a, <2>1, <2>2 DEF StageInv
<1>13. CASE DevicesListed
  <2>1. refresh.stage # "idle" /\ UNCHANGED <<op, stage, answer>>
    BY <1>13 DEF DevicesListed
  <2>2. op = "none"
    BY <2>1 DEF AloneInv
  <2> QED BY <1>a, <2>1, <2>2 DEF StageInv
<1>14. CASE RefreshEnds
  <2>1. refresh.stage # "idle" /\ UNCHANGED <<op, stage, answer>>
    BY <1>14 DEF RefreshEnds
  <2>2. op = "none"
    BY <2>1 DEF AloneInv
  <2> QED BY <1>a, <2>1, <2>2 DEF StageInv
<1>15. CASE SavedSourceContinues
  BY <1>15, <1>0 DEF SavedSourceContinues
<1>16. CASE SourceUnreadable
  BY <1>16 DEF SourceUnreadable, ReadingInv
<1>17. CASE SourceCheckCancelled
  BY <1>17 DEF SourceCheckCancelled, ReadingInv
<1>18. CASE SourceChanged
  BY <1>18 DEF SourceChanged, ReadingInv
<1>19. CASE OverwriteRefused
  BY <1>19 DEF OverwriteRefused, ReadingInv
<1>20. CASE CallWorker
  <2>1. /\ UNCHANGED <<disk, path, device, channel, trim, op, target, tested, read>>
        /\ stage = "revalidate" /\ stage' = "call" /\ answer' = "none" /\ request' = Setup(now)
        /\ (op = "capture" => target # "source") /\ SourceUnchanged
    BY <1>20 DEF CallWorker
  <2>2. OnDisk' = OnDisk
    BY <2>1, <1>b
  <2>3. now \in Hashed /\ NotBefore(now, OnDisk)
    BY <2>1 DEF ReadingInv, SourceUnchanged, SourceReturned
  <2>4. op = "capture" => Setup(now) = tested
    <3>1. op = "capture" => tested = Setup(snapshot) /\ snapshot \in Hashed
      BY DEF VerifiedInv, Confirmed
    <3>2. SourceSnapshotsMatch(snapshot, now)
      BY <2>1 DEF SourceUnchanged, ExpectedSource
    <3> QED BY <2>3, <3>1, <3>2, MatchIsEqual
  <2>5. request' = [device |-> device', channel |-> channel', trim |-> trim', source |-> now]
    BY <2>1 DEF Setup
  <2>6. op = "capture" => read' = None
    BY <2>1 DEF ReadingInv
  <2>7. request'.source = now
    BY <2>5
  <2>8. op = "capture" => request' = tested' /\ target' # "source"
    BY <2>1, <2>4
  <2> QED BY <2>1, <2>2, <2>3, <2>5, <2>6, <2>7, <2>8 DEF ReadingInv, Setup
<1>21. CASE CallFailed
  BY <1>21 DEF CallFailed, ReadingInv
<1>22. CASE CallCancelled
  BY <1>22 DEF CallCancelled, ReadingInv
<1>23. CASE CallReturned
  <2>1. UNCHANGED <<disk, path, device, channel, trim, op, request, target, tested>>
    BY <1>23 DEF CallReturned
  <2>2. OnDisk' = OnDisk
    BY <2>1, <1>b
  <2>3. UNCHANGED <<now, read>> /\ stage = "call" /\ stage' = "recheck" /\ answer' = "none"
    BY <1>23 DEF CallReturned
  <2> QED BY <2>1, <2>2, <2>3 DEF ReadingInv, Setup
<1>24. CASE ApplySetupTestResult
  BY <1>24 DEF ApplySetupTestResult, ReadingInv
<1>25. CASE OutputValidated
  <2>1. /\ UNCHANGED <<disk, path, device, channel, trim, op, target, tested, read, request>>
        /\ op = "capture" /\ stage = "recheck" /\ stage' = "gate" /\ answer' = "none"
        /\ SourceUnchanged
    BY <1>25 DEF OutputValidated
  <2>2. OnDisk' = OnDisk
    BY <2>1, <1>b
  <2>3. answer = "source" /\ now \in Hashed /\ request.source \in Hashed
    BY <2>1 DEF ReadingInv, SourceUnchanged, SourceReturned
  <2>4. now = request.source
    BY <2>1, <2>3, MatchIsEqual DEF SourceUnchanged, ExpectedSource
  <2>5. read # None
    BY <2>1 DEF FilesInv
  <2>6. read \in Hashed /\ NotBefore(request.source, read) /\ NotBefore(read, now)
    BY <2>1, <2>3, <2>5 DEF ReadingInv
  <2>7. read = request.source
    BY <2>3, <2>4, <2>6, NotBeforeOrder
  <2> QED BY <2>1, <2>2, <2>7 DEF ReadingInv, Setup
<1>26. CASE TryBeginCaptureCommit
  <2>1. CASE commit = "Active" /\ token = "live"
    <3>1. UNCHANGED <<disk, path, device, channel, trim, op, request, target,
                      tested, now, answer, read>>
          /\ stage = "gate" /\ stage' = "promote"
      BY <1>26, <2>1 DEF TryBeginCaptureCommit
    <3>2. OnDisk' = OnDisk
      BY <3>1, <1>b
    <3> QED BY <3>1, <3>2 DEF ReadingInv, Setup
  <2>2. CASE ~(commit = "Active" /\ token = "live")
    BY <1>26, <1>a, <2>2 DEF TryBeginCaptureCommit
  <2> QED BY <2>1, <2>2
<1>27. CASE Promote
  BY <1>27 DEF Promote, ReadingInv
<1>28. ASSUME NEW gone \in BOOLEAN, PromotionFails(gone) PROVE ReadingInv'
  BY <1>28 DEF PromotionFails, ReadingInv
<1>29. ASSUME NEW l \in Lookups, LookupContinues(l) PROVE ReadingInv'
  <2>1. UNCHANGED <<disk, path, device, trim, op, answer, now, request, target, read, stage>>
        /\ (op = "capture" => tested' = tested)
    BY <1>29 DEF LookupContinues
  <2>2. CASE op = "none"
    BY <1>a, <2>1, <2>2 DEF StageInv
  <2>3. CASE op # "none"
    <3>1. lookup[l].token # "live"
      BY <2>3 DEF AloneInv, LookupInv
    <3>2. channel' = channel
      BY <1>29, <3>1 DEF LookupContinues
    <3> QED BY <1>0, <2>1, <3>2
  <2> QED BY <2>2, <2>3
<1>30. CASE DevicesTimeOut
  BY <1>30, <1>0 DEF DevicesTimeOut
<1>31. CASE TestTimesOut
  BY <1>31, <1>0 DEF TestTimesOut
<1>32. ASSUME NEW l \in Lookups, LookupTimesOut(l) PROVE ReadingInv'
  BY <1>32, <1>0 DEF LookupTimesOut
<1>33. CASE DevicesAnswered
  BY <1>33, <1>0 DEF DevicesAnswered
<1>34. CASE DevicesCancelled
  BY <1>34, <1>0 DEF DevicesCancelled
<1>35. CASE SavedSourceRead
  BY <1>35, <1>0 DEF SavedSourceRead
<1>36. CASE SourceRead
  <2>1. UNCHANGED <<disk, path, device, channel, trim, op, request, target, tested>>
    BY <1>36 DEF SourceRead
  <2>2. OnDisk' = OnDisk
    BY <2>1, <1>b
  <2>3. UNCHANGED <<read, stage>> /\ stage \in {"revalidate", "recheck"}
        /\ (answer' = "source" => now' = OnDisk)
    BY <1>36 DEF SourceRead, OnDisk
  <2>4. OnDisk \in Hashed /\ NotBefore(OnDisk, OnDisk)
    <3>1. path \in Sources
      BY <2>3 DEF StageInv, AloneInv
    <3> QED BY <3>1, SnapshotOfPath, NotBeforeOrder
  <2> QED BY <2>1, <2>2, <2>3, <2>4 DEF ReadingInv, Setup
<1>37. CASE WorkerReads
  <2>1. UNCHANGED <<disk, path, device, channel, trim, op, request, target, tested>>
    BY <1>37 DEF WorkerReads
  <2>2. OnDisk' = OnDisk
    BY <2>1, <1>b
  <2>3. UNCHANGED <<now, stage, answer>> /\ stage = "call" /\ answer = "none" /\ op = "capture"
        /\ read' = Snapshot(request.source.path, TRUE)
    BY <1>37 DEF WorkerReads
  <2>4. path \in Sources /\ request.source \in Hashed /\ NotBefore(request.source, OnDisk)
    BY <2>3 DEF AloneInv, ReadingInv
  <2>5. OnDisk \in Hashed /\ OnDisk.path = path
    BY <2>4, SnapshotOfPath
  <2>6. read' = OnDisk
    BY <2>3, <2>4, <2>5 DEF NotBefore, OnDisk
  <2>7. NotBefore(OnDisk, OnDisk)
    BY <2>5, NotBeforeOrder
  <2> QED BY <2>1, <2>2, <2>3, <2>4, <2>5, <2>6, <2>7 DEF ReadingInv, Setup
<1>38. CASE WorkerSucceeds
  <2>1. UNCHANGED <<disk, path, device, channel, trim, op, request, target, tested>>
    BY <1>38 DEF WorkerSucceeds
  <2>2. OnDisk' = OnDisk
    BY <2>1, <1>b
  <2>3. UNCHANGED <<now, read, stage>> /\ stage = "call" /\ answer' # "source"
    BY <1>38 DEF WorkerSucceeds
  <2> QED BY <2>1, <2>2, <2>3 DEF ReadingInv, Setup
<1>39. CASE WorkerFails
  <2>1. UNCHANGED <<disk, path, device, channel, trim, op, request, target, tested>>
    BY <1>39 DEF WorkerFails
  <2>2. OnDisk' = OnDisk
    BY <2>1, <1>b
  <2>3. UNCHANGED <<now, read, stage>> /\ stage = "call" /\ answer' # "source"
    BY <1>39 DEF WorkerFails
  <2> QED BY <2>1, <2>2, <2>3 DEF ReadingInv, Setup
<1>40. ASSUME NEW l \in Lookups, LookupAnswered(l) PROVE ReadingInv'
  BY <1>40, <1>0 DEF LookupAnswered
<1>41. ASSUME NEW l \in Lookups, LookupCancelled(l) PROVE ReadingInv'
  BY <1>41, <1>0 DEF LookupCancelled
<1>42. ASSUME NEW silent \in BOOLEAN, EditSource(silent) PROVE ReadingInv'
  <2>1. UNCHANGED <<path, device, channel, trim, op, answer, now, request, target,
                    read, stage, tested>>
    BY <1>42 DEF EditSource
  <2>2. DiskType' /\ path \in Sources /\ disk'[path].entry >= disk[path].entry
        /\ disk'[path].content >= disk[path].content
    BY <1>42, EditMoves
  <2>3. OnDisk \in Hashed /\ OnDisk' \in Hashed /\ NotBefore(OnDisk, OnDisk')
    <3>1. OnDisk = [path |-> path, entry |-> disk[path].entry, content |-> disk[path].content]
          /\ OnDisk' = [path |-> path, entry |-> disk'[path].entry, content |-> disk'[path].content]
      BY <2>1 DEF OnDisk, Snapshot
    <3>2. /\ disk[path] \in [entry : Nat, content : Nat \ {0}]
          /\ disk'[path] \in [entry : Nat, content : Nat \ {0}]
      BY <2>2 DEF DiskType
    <3> QED BY <2>2, <3>1, <3>2 DEF Hashed, NotBefore
  <2>4. \A a \in Hashed : NotBefore(a, OnDisk) => NotBefore(a, OnDisk')
    BY <2>3, NotBeforeOrder
  <2> QED BY <2>1, <2>4 DEF ReadingInv, Setup
<1>43. CASE UNCHANGED vars
  BY <1>43, <1>0 DEF vars
<1> QED
  BY <1>1, <1>2, <1>3, <1>4, <1>5, <1>6, <1>7, <1>8, <1>9, <1>10, <1>11, <1>12, <1>13,
     <1>14, <1>15, <1>16, <1>17, <1>18, <1>19, <1>20, <1>21, <1>22, <1>23, <1>24,
     <1>25, <1>26, <1>27, <1>28, <1>29, <1>30, <1>31, <1>32, <1>33, <1>34, <1>35,
     <1>36, <1>37, <1>38, <1>39, <1>40, <1>41, <1>42, <1>43 DEF Next, Controls,
     Continuations, Timers, Answers, Environment

-----------------------------------------------------------------------------
(* The theorems.                                                           *)

\* The window opens with nothing verified, and its first refresh under way.
LEMMA InitInvariant == Init => IInv
<1> SUFFICES ASSUME Init PROVE IInv
  OBVIOUS
<1>1. path \in Sources \cup {None} /\ snapshot = None
  BY PanelAssumption DEF Init
<1>2. TypeInv
  <2>1. LookupType
    BY DEF Init, LookupType, NoLookup
  <2>2. RefreshType
    BY DEF Init, RefreshType, Discovery
  <2>3. LoadType
    BY <1>1 DEF Init, LoadType, NoLoad
  <2>4. DiskType
    BY DEF Init, DiskType
  <2>5. verified = FALSE /\ recovery = FALSE
    BY DEF Init
  <2> QED BY <2>1, <2>2, <2>3, <2>4, <2>5 DEF TypeInv, FlagType
<1>3. StageInv
  BY DEF Init, StageInv
<1>4. LookupInv
  BY DEF Init, LookupInv, NoLookup
<1>5. LoadInv
  BY <1>1 DEF Init, LoadInv, NoLoad
<1>6. AloneInv /\ FilesInv /\ VerifiedInv
  BY DEF Init, AloneInv, FilesInv, TemporaryAccounted, VerifiedInv
<1>7. ReadingInv
  BY DEF Init, ReadingInv
<1> QED BY <1>2, <1>3, <1>4, <1>5, <1>6, <1>7 DEF IInv

\* The inductive invariant holds in every behaviour.
THEOREM PanelInvariant == Spec => []IInv
<1>1. IInv /\ [Next]_vars => IInv'
  BY NextLookupType, NextRefreshType, NextLoadType, NextDiskType, NextFlagType, NextStage,
     NextLookup, NextLoad, NextAlone, NextFiles, NextVerified, NextReading DEF IInv, TypeInv
<1> QED BY <1>1, InitInvariant, PTL DEF Spec

\* A setup is shown as verified only while it is the one that passed a test.
THEOREM PanelVerifiedIsCurrent == Spec => []VerifiedIsCurrent
<1>1. IInv => VerifiedIsCurrent
  BY DEF IInv, VerifiedInv, VerifiedIsCurrent, Confirmed, Refreshing
<1> QED BY <1>1, PanelInvariant, PTL

\* A test or a capture never runs beside a discovery or a lookup that was not
\* cancelled.
THEOREM PanelOneAudioOperation == Spec => []OneAudioOperation
<1>1. IInv => OneAudioOperation
  BY DEF IInv, AloneInv, LookupInv, OneAudioOperation
<1> QED BY <1>1, PanelInvariant, PTL

\* No file of a capture is left that the user is not told of or that could
\* have been deleted.
THEOREM PanelTemporaryAccounted == Spec => []TemporaryAccounted
<1>1. IInv => TemporaryAccounted
  BY DEF IInv, FilesInv
<1> QED BY <1>1, PanelInvariant, PTL

OutcomeStep ==
    /\ outcome # "saved" /\ outcome' = "saved" => Promote
    /\ op = "capture" /\ token = "cancelled" => outcome' \notin {"saved", "kept"}

\* The destination is replaced by Promote only, and not after a cancellation.
LEMMA OutcomeSteps == StageInv /\ FilesInv /\ [Next]_vars => OutcomeStep
<1> SUFFICES ASSUME StageInv, FilesInv, [Next]_vars PROVE OutcomeStep
  OBVIOUS
<1> USE DEF route, discovery, source, operation, output, outside, Command, Open,
   ControlsLocked, Refreshing, InvalidateVerification, KeepVerification, EndOperation,
   EndTest, EndCapture, EndCancelled, EndFailed, CleanUp
<1>1. CASE StartRefresh
  BY <1>1 DEF StartRefresh, Discovery, OutcomeStep, StageInv, FilesInv
<1>2. CASE StartTest
  BY <1>2 DEF StartTest, CanTest, AudioReady, OutcomeStep, StageInv, FilesInv
<1>3. CASE AskDestination
  BY <1>3 DEF AskDestination, CanCapture, CanTest, AudioReady, OutcomeStep, StageInv,
     FilesInv
<1>4. CASE DestinationRefused
  BY <1>4 DEF DestinationRefused, OutcomeStep, StageInv, FilesInv
<1>5. CASE StartCapture
  BY <1>5 DEF StartCapture, OutcomeStep, StageInv, FilesInv
<1>6. CASE CancelCapture
  BY <1>6 DEF CancelCapture, OutcomeStep, StageInv, FilesInv
<1>7. CASE Dispose
  BY <1>7 DEF Dispose, Superseded, OutcomeStep, StageInv, FilesInv
<1>8. ASSUME NEW d \in Devices, SelectDevice(d) PROVE OutcomeStep
  BY <1>8 DEF SelectDevice, ReloadChannels, Superseded, OutcomeStep, StageInv,
     FilesInv
<1>9. ASSUME NEW c \in offered, SelectChannel(c) PROVE OutcomeStep
  BY <1>9 DEF SelectChannel, OutcomeStep, StageInv, FilesInv
<1>10. ASSUME NEW x \in Trims, SetTrim(x) PROVE OutcomeStep
  BY <1>10 DEF SetTrim, OutcomeStep, StageInv, FilesInv
<1>11. ASSUME NEW p \in Sources, ChooseSource(p) PROVE OutcomeStep
  BY <1>11 DEF ChooseSource, NoLoad, OutcomeStep, StageInv, FilesInv
<1>12. CASE DiscoveryFails
  BY <1>12 DEF DiscoveryFails, Idle, OutcomeStep, StageInv, FilesInv
<1>13. CASE DevicesListed
  BY <1>13 DEF DevicesListed, ReloadChannels, Superseded, Idle, OutcomeStep, StageInv,
     FilesInv
<1>14. CASE RefreshEnds
  BY <1>14 DEF RefreshEnds, Idle, OutcomeStep, StageInv, FilesInv
<1>15. CASE SavedSourceContinues
  BY <1>15 DEF SavedSourceContinues, NoLoad, OutcomeStep, StageInv, FilesInv
<1>16. CASE SourceUnreadable
  BY <1>16 DEF SourceUnreadable, OutcomeStep, StageInv, FilesInv
<1>17. CASE SourceCheckCancelled
  BY <1>17 DEF SourceCheckCancelled, OutcomeStep, StageInv, FilesInv
<1>18. CASE SourceChanged
  BY <1>18 DEF SourceChanged, OutcomeStep, StageInv, FilesInv
<1>19. CASE OverwriteRefused
  BY <1>19 DEF OverwriteRefused, OutcomeStep, StageInv, FilesInv
<1>20. CASE CallWorker
  BY <1>20 DEF CallWorker, OutcomeStep, StageInv, FilesInv
<1>21. CASE CallFailed
  BY <1>21 DEF CallFailed, OutcomeStep, StageInv, FilesInv
<1>22. CASE CallCancelled
  BY <1>22 DEF CallCancelled, OutcomeStep, StageInv, FilesInv
<1>23. CASE CallReturned
  BY <1>23 DEF CallReturned, OutcomeStep, StageInv, FilesInv
<1>24. CASE ApplySetupTestResult
  BY <1>24 DEF ApplySetupTestResult, OutcomeStep, StageInv, FilesInv
<1>25. CASE OutputValidated
  BY <1>25 DEF OutputValidated, OutcomeStep, StageInv, FilesInv
<1>26. CASE TryBeginCaptureCommit
  BY <1>26 DEF TryBeginCaptureCommit, OutcomeStep, StageInv, FilesInv
<1>27. CASE Promote
  BY <1>27 DEF Promote, OutcomeStep, StageInv, FilesInv
<1>28. ASSUME NEW gone \in BOOLEAN, PromotionFails(gone) PROVE OutcomeStep
  BY <1>28 DEF PromotionFails, OutcomeStep, StageInv, FilesInv
<1>29. ASSUME NEW l \in Lookups, LookupContinues(l) PROVE OutcomeStep
  BY <1>29 DEF LookupContinues, NoLookup, OutcomeStep, StageInv, FilesInv
<1>30. CASE DevicesTimeOut
  BY <1>30 DEF DevicesTimeOut, OutcomeStep, StageInv, FilesInv
<1>31. CASE TestTimesOut
  BY <1>31 DEF TestTimesOut, OutcomeStep, StageInv, FilesInv
<1>32. ASSUME NEW l \in Lookups, LookupTimesOut(l) PROVE OutcomeStep
  BY <1>32 DEF LookupTimesOut, OutcomeStep, StageInv, FilesInv
<1>33. CASE DevicesAnswered
  BY <1>33 DEF DevicesAnswered, OutcomeStep, StageInv, FilesInv
<1>34. CASE DevicesCancelled
  BY <1>34 DEF DevicesCancelled, OutcomeStep, StageInv, FilesInv
<1>35. CASE SavedSourceRead
  BY <1>35 DEF SavedSourceRead, OutcomeStep, StageInv, FilesInv
<1>36. CASE SourceRead
  BY <1>36 DEF SourceRead, OutcomeStep, StageInv, FilesInv
<1>37. CASE WorkerReads
  BY <1>37 DEF WorkerReads, OutcomeStep, StageInv, FilesInv
<1>38. CASE WorkerSucceeds
  BY <1>38 DEF WorkerSucceeds, OutcomeStep, StageInv, FilesInv
<1>39. CASE WorkerFails
  BY <1>39 DEF WorkerFails, Temporaries, OutcomeStep, StageInv, FilesInv
<1>40. ASSUME NEW l \in Lookups, LookupAnswered(l) PROVE OutcomeStep
  BY <1>40 DEF LookupAnswered, OutcomeStep, StageInv, FilesInv
<1>41. ASSUME NEW l \in Lookups, LookupCancelled(l) PROVE OutcomeStep
  BY <1>41 DEF LookupCancelled, OutcomeStep, StageInv, FilesInv
<1>42. ASSUME NEW silent \in BOOLEAN, EditSource(silent) PROVE OutcomeStep
  BY <1>42 DEF EditSource, OutcomeStep, StageInv, FilesInv
<1>43. CASE UNCHANGED vars
  BY <1>43 DEF vars, OutcomeStep, StageInv, FilesInv
<1> QED
  BY <1>1, <1>2, <1>3, <1>4, <1>5, <1>6, <1>7, <1>8, <1>9, <1>10, <1>11, <1>12, <1>13,
     <1>14, <1>15, <1>16, <1>17, <1>18, <1>19, <1>20, <1>21, <1>22, <1>23, <1>24,
     <1>25, <1>26, <1>27, <1>28, <1>29, <1>30, <1>31, <1>32, <1>33, <1>34, <1>35,
     <1>36, <1>37, <1>38, <1>39, <1>40, <1>41, <1>42, <1>43 DEF Next, Controls,
     Continuations, Timers, Answers, Environment

\* A cancellation that was accepted is never followed by a saved or kept output.
THEOREM PanelCancelIsFinal == Spec => CancelIsFinal
<1>1. IInv /\ [Next]_vars => (op = "capture" /\ token = "cancelled" =>
                                 outcome' \notin {"saved", "kept"})
  BY OutcomeSteps DEF IInv, OutcomeStep
<1> QED BY <1>1, PanelInvariant, PTL DEF Spec, CancelIsFinal

\* What replaces the destination was captured as it was tested, from the
\* source as it was tested.
THEOREM PanelPromotedAsTested == Spec => PromotedAsTested
<1>1. IInv /\ [Next]_vars => (outcome # "saved" /\ outcome' = "saved" =>
           request = tested /\ read = tested.source /\ target # "source")
  <2> SUFFICES ASSUME IInv, Promote
               PROVE  request = tested /\ read = tested.source /\ target # "source"
    BY OutcomeSteps DEF IInv, OutcomeStep
  <2>1. stage = "promote" /\ op = "capture"
    BY DEF Promote, IInv, StageInv
  <2> QED BY <2>1 DEF IInv, ReadingInv
<1> QED BY <1>1, PanelInvariant, PTL DEF Spec, PromotedAsTested
=============================================================================
