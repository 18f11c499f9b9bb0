---------------------------- MODULE MainViewModel ----------------------------
(***************************************************************************)
(* The view model of the window (MainViewModel.cs): the selected route and *)
(* source, the verification that a setup test gives them, device discovery *)
(* and channel lookups in the background, and the one operation - a test   *)
(* or a capture - that may run, with its source checks, its commit gate,   *)
(* the promotion of its output and its clean-up.                           *)
(*                                                                         *)
(* Every handler and every continuation of an await runs on the dispatcher *)
(* and is one action.  What is awaited is answered by an action of its own *)
(* (the worker client, the file system), so that anything may happen       *)
(* between an answer and the continuation that uses it.  The worker client *)
(* is used as ExclusiveCalls promises: a cancelled call has no result, but *)
(* it may still fail for a reason of its own.  The commit gate and the     *)
(* move that follows are steps of their own, as the lock around the gate   *)
(* allows and as the hooks between them are used by the tests.             *)
(*                                                                         *)
(* One channel stands for the playback and the recording channel, one trim *)
(* for the output and the input trim: their handlers are alike.            *)
(***************************************************************************)
EXTENDS Naturals, FiniteSets

CONSTANTS
    Devices, Channels, Trims, Sources,
    ChannelLists,   \* the lists of channels a driver may report
    Lookups,        \* channel lookups that may be outstanding at once
    Settings,       \* the settings files that a start may find
    MaxEdits,       \* bound on changes of a source on disk
    MaxCommands,    \* bound on commands of the user
    None

ASSUME PanelAssumption ==
    /\ Channels \subseteq Nat /\ ChannelLists \subseteq SUBSET Channels
    /\ Settings \subseteq [device : Devices \cup {None},
                            channel : Channels \cup {None},
                            source : Sources \cup {None}]
    /\ MaxEdits \in Nat /\ MaxCommands \in Nat
    /\ None \notin Devices \cup Channels \cup Sources \cup Lookups

VARIABLES
    \* the route
    devices,        \* Devices: the listed drivers that are available
    device,         \* the selected driver; before the first list, the saved one
    offered,        \* the listed channels, each with the driver it came from
    channel,        \* the selected one of them
    saved,          \* _settings: the saved channel index
    trim, deviceFailed,
    \* discovery
    lookup,         \* what each outstanding ReloadChannelsAsync waits for
    current,        \* _channelCancellation: the lookup it belongs to
    refresh,        \* RefreshDevicesAsync
    \* the source
    disk,           \* the source files, changed by other programs
    path, snapshot,
    load,           \* LoadSavedSourceAsync, and whether _sourceSelectionVersion
                    \* has moved since it began
    \* the verification
    verified,
    tested,         \* the setup that passed the test (history)
    \* the operation
    op, stage, token,
    answer,         \* what came back for the await it is at
    now,            \* the source as it was read
    result, request, target, commit,
    \* its output
    files,          \* the files with temporary names of the last capture
    undeleted,      \* those of them whose deletion failed (history)
    read,           \* what its worker read of the source (history)
    outcome,        \* how it ended
    recovery,       \* RecoveryOutputPath is set
    disposed, edits, commands

route == <<devices, device, offered, channel, saved, trim, deviceFailed>>
discovery == <<lookup, current, refresh>>
source == <<path, snapshot, load>>
operation == <<op, stage, token, answer, now, result, request, target, commit>>
output == <<files, undeleted, read, outcome>>
outside == <<disk, edits, commands, disposed>>
vars == <<route, discovery, source, disk, verified, tested, operation, output,
          recovery, disposed, edits, commands>>

-----------------------------------------------------------------------------
(* What the code computes from its state.                                  *)

(* A snapshot of a source: what its directory entry shows and, when it was *)
(* hashed, its content.                                                    *)
Unhashed == 0
Snapshot(p, hashed) ==
    [path |-> p, entry |-> disk[p].entry,
     content |-> IF hashed THEN disk[p].content ELSE Unhashed]

SourceSnapshotsMatch(expected, latest) ==
    /\ expected.path = latest.path /\ expected.entry = latest.entry
    /\ expected.content \in {Unhashed, latest.content}

Setup(s) == [device |-> device, channel |-> channel, trim |-> trim, source |-> s]

Refreshing == refresh.stage # "idle"
LockedByOperations ==  \* mutant: a refresh does not lock the controls
    op \in {"test", "capture"}

ControlsLocked == Refreshing \/ op \in {"test", "capture"}

(* The window takes commands: its controls are bound to ControlsLocked and *)
(* the modal dialog of a capture disables it.                              *)
Open == ~ControlsLocked /\ op = "none" /\ ~disposed
Command == Open /\ commands < MaxCommands /\ commands' = commands + 1

AudioReady == ~deviceFailed /\ device \in devices /\ channel # None
CanTest == AudioReady /\ snapshot # None
CanCapture == CanTest /\ verified

(* RecoveryOutputPath goes with the verification.  What was tested is      *)
(* remembered for the capture that was begun with it.                      *)
InvalidateVerification ==
    /\ verified' = FALSE /\ recovery' = FALSE
    /\ tested' = IF op \in {"dialog", "capture"} THEN tested ELSE None

KeepVerification == UNCHANGED <<verified, tested, recovery>>

NoLookup == [device |-> None, token |-> "none", answer |-> "none", list |-> {},
             byRefresh |-> FALSE]
Idle == [stage |-> "idle", token |-> "none", answer |-> "none", found |-> {},
         preserve |-> FALSE]
Discovery(preserve) == [stage |-> "devices", token |-> "live", answer |-> "none",
                        found |-> {}, preserve |-> preserve]

NoLoad == [stage |-> "none", path |-> None, found |-> None, superseded |-> FALSE]

(* InitializeAsync has started the load of the saved source and the first  *)
(* refresh.                                                                *)
Init ==
    /\ \E found \in Settings :
           device = found.device /\ saved = found.channel /\ path = found.source
    /\ devices = {} /\ offered = {} /\ channel = None /\ deviceFailed = FALSE
    /\ trim = CHOOSE t \in Trims : TRUE
    /\ lookup = [l \in Lookups |-> NoLookup] /\ current = None
    /\ refresh = Discovery(TRUE)
    /\ disk = [p \in Sources |-> [entry |-> 1, content |-> 1]]
    /\ snapshot = None
    /\ load = IF path = None THEN NoLoad 
              ELSE [NoLoad EXCEPT !.stage = "reading", !.path = path]
    /\ verified = FALSE /\ tested = None
    /\ op = "none" /\ stage = "none" /\ token = "none" /\ answer = "none" /\ now = None
    /\ result = "none" /\ request = None /\ target = "none" /\ commit = "Idle"
    /\ files = {} /\ undeleted = {} /\ read = None
    /\ outcome = "none" /\ recovery = FALSE
    /\ disposed = FALSE /\ edits = 0 /\ commands = 0

-----------------------------------------------------------------------------
(* Channel lookups.                                                        *)

(* The synchronous part of ReloadChannelsAsync for driver d: the lookup    *)
(* before is cancelled, the lists are cleared, and the worker is asked     *)
(* when the driver is available.                                           *)
Superseded ==
    IF current = None THEN lookup ELSE [lookup EXCEPT ![current].token = "cancelled"]

ReloadChannels(d, available, byRefresh) ==
    /\ offered' = {} /\ channel' = None
    /\ IF available
       THEN \E l \in Lookups :
                /\ lookup[l] = NoLookup
                /\ current' = l
                /\ lookup' = [Superseded EXCEPT ![l] =
                       [device |-> d, token |-> "live", answer |-> "none",
                        list |-> {}, byRefresh |-> byRefresh]]
       ELSE current' = None /\ lookup' = Superseded

LookupAnswered(l) ==
    /\ lookup[l].device # None /\ lookup[l].answer = "none"
    /\ \/ /\ lookup[l].token = "live"
          /\ \E list \in ChannelLists :
                 lookup' = [lookup EXCEPT ![l].answer = "channels", ![l].list = list]
       \/ lookup' = [lookup EXCEPT ![l].answer = "failed"]
    /\ UNCHANGED <<route, current, refresh, source, verified, tested, operation,
                   output, recovery, outside>>

LookupCancelled(l) ==
    /\ lookup[l].token = "cancelled" /\ lookup[l].answer = "none"
    /\ lookup' = [lookup EXCEPT ![l].answer = "cancelled"]
    /\ UNCHANGED <<route, current, refresh, source, verified, tested, operation,
                   output, recovery, outside>>

LookupTimesOut(l) ==
    /\ lookup[l].token = "live"
    /\ lookup' = [lookup EXCEPT ![l].token = "cancelled"]
    /\ UNCHANGED <<route, current, refresh, source, verified, tested, operation,
                   output, recovery, outside>>

(* The saved channel when the list has it, and else the first of the list. *)
Preferred(list) ==
    IF saved \in list THEN saved
    ELSE IF list = {} THEN None ELSE CHOOSE c \in list : \A e \in list : c <= e

LookupContinuesAnyway(l) ==  \* mutant: a list is used whenever it comes
    LET rec == lookup[l]
        pick == Preferred(rec.list)
    IN  /\ rec.answer # "none"
        /\ lookup' = [lookup EXCEPT ![l] = NoLookup]
        /\ current' = IF current = l THEN None ELSE current
        /\ refresh' = IF rec.byRefresh THEN [refresh EXCEPT !.stage = "ending"] ELSE refresh
        /\ IF rec.answer = "channels"
           THEN /\ offered' = {<<rec.device, c>> : c \in rec.list}
                /\ channel' = IF pick = None THEN None ELSE <<rec.device, pick>>
                /\ saved' = pick
           ELSE UNCHANGED <<offered, channel, saved>>
        /\ IF rec.answer = "failed" THEN InvalidateVerification ELSE KeepVerification
        /\ UNCHANGED <<devices, device, trim, deviceFailed, source, operation, output,
                       outside>>

(* The continuation: a list is used when its lookup was not cancelled and  *)
(* the driver is still selected.  A cancelled lookup that was superseded   *)
(* says nothing; a failed one invalidates the verification even then.      *)
LookupContinues(l) ==
    LET rec == lookup[l]
        listed == rec.answer = "channels" /\ rec.token = "live"
        pick == Preferred(rec.list)
    IN  /\ rec.answer # "none"
        /\ lookup' = [lookup EXCEPT ![l] = NoLookup]
        /\ current' = IF current = l THEN None ELSE current
        /\ refresh' = IF rec.byRefresh THEN [refresh EXCEPT !.stage = "ending"] ELSE refresh
        /\ IF listed /\ device = rec.device
           THEN /\ offered' = {<<rec.device, c>> : c \in rec.list}
                /\ channel' = IF pick = None THEN None ELSE <<rec.device, pick>>
                /\ saved' = pick
           ELSE UNCHANGED <<offered, channel, saved>>
        /\ IF rec.answer = "failed" \/ (~listed /\ current = l /\ ~disposed)
           THEN InvalidateVerification
           ELSE KeepVerification
        /\ UNCHANGED <<devices, device, trim, deviceFailed, source,
                       operation, output, outside>>

-----------------------------------------------------------------------------
(* RefreshDevicesAsync.                                                    *)

StartRefresh ==
    /\ Command
    /\ refresh' = Discovery(FALSE)
    /\ UNCHANGED <<route, lookup, current, source, verified, tested, operation,
                   output, recovery, disk, edits, disposed>>

DevicesAnswered ==
    /\ refresh.stage = "devices" /\ refresh.answer = "none"
    /\ \/ /\ refresh.token = "live"
          /\ \E found \in SUBSET Devices :
                 refresh' = [refresh EXCEPT !.answer = "devices", !.found = found]
       \/ refresh' = [refresh EXCEPT !.answer = "failed"]
    /\ UNCHANGED <<route, lookup, current, source, verified, tested, operation,
                   output, recovery, outside>>

DevicesCancelled ==
    /\ refresh.stage = "devices" /\ refresh.answer = "none"
    /\ refresh.token = "cancelled"
    /\ refresh' = [refresh EXCEPT !.answer = "cancelled"]
    /\ UNCHANGED <<route, lookup, current, source, verified, tested, operation,
                   output, recovery, outside>>

(* After the list of drivers has come the token is not looked at.          *)
DevicesTimeOut ==
    /\ refresh.stage = "devices" /\ refresh.token = "live"
    /\ refresh' = [refresh EXCEPT !.token = "cancelled"]
    /\ UNCHANGED <<route, lookup, current, source, verified, tested, operation,
                   output, recovery, outside>>

DiscoveryFails ==
    /\ refresh.stage = "devices" /\ refresh.answer \in {"failed", "cancelled"}
    /\ refresh' = Idle
    /\ IF refresh.answer = "failed" \/ ~disposed
       THEN deviceFailed' = TRUE /\ InvalidateVerification
       ELSE UNCHANGED deviceFailed /\ KeepVerification
    /\ UNCHANGED <<devices, device, offered, channel, saved, trim, lookup, current,
                   source, operation, output, outside>>

(* The selected driver is kept, as an unavailable one when it is not       *)
(* found.  After Dispose the token source of a lookup that is still        *)
(* outstanding is disposed and cannot be cancelled again.                  *)
DevicesListed ==
    LET found == refresh.found
        keep == refresh.preserve
    IN  /\ refresh.stage = "devices" /\ refresh.answer = "devices"
        /\ devices' = found
        /\ \/ device # None /\ device' = device
           \/ device = None /\ device' \in found
           \/ device = None /\ found = {} /\ device' = None
        /\ IF disposed /\ current # None
           THEN /\ deviceFailed' = TRUE /\ InvalidateVerification /\ refresh' = Idle
                /\ UNCHANGED <<offered, channel, lookup, current>>
           ELSE /\ deviceFailed' = FALSE
                /\ ReloadChannels(device', device' \in found, TRUE)
                /\ IF device' \in found
                   THEN /\ refresh' = [refresh EXCEPT !.stage = "channels"]
                        /\ KeepVerification
                   ELSE /\ refresh' = Idle
                        /\ IF keep THEN KeepVerification
                           ELSE InvalidateVerification
        /\ UNCHANGED <<saved, trim, source, operation, output, outside>>

(* The lookup of a refresh has ended, with or without a list.              *)
RefreshEnds ==
    /\ refresh.stage = "ending"
    /\ refresh' = Idle
    /\ IF refresh.preserve THEN KeepVerification
       ELSE InvalidateVerification
    /\ UNCHANGED <<route, lookup, current, source, operation, output, outside>>

-----------------------------------------------------------------------------
(* The controls of the route.                                              *)

SelectDevice(d) ==
    /\ Command /\ d \in devices \ {device}
    /\ device' = d
    /\ InvalidateVerification
    /\ ReloadChannels(d, TRUE, FALSE)
    /\ UNCHANGED <<devices, saved, trim, deviceFailed, refresh, source,
                   operation, output, disk, edits, disposed>>

SelectChannel(c) ==
    /\ Command /\ c \in offered \ {channel}
    /\ channel' = c /\ saved' = c[2]
    /\ InvalidateVerification
    /\ UNCHANGED <<devices, device, offered, trim, deviceFailed, discovery, source,
                   operation, output, disk, edits, disposed>>

SetTrim(t) ==
    /\ Command /\ t \in Trims \ {trim}
    /\ trim' = t
    /\ InvalidateVerification
    /\ UNCHANGED <<devices, device, offered, channel, saved, deviceFailed, discovery,
                   source, operation, output, disk, edits, disposed>>

-----------------------------------------------------------------------------
(* The source.                                                             *)

(* Another program rewrites the source; it may leave the size and the time *)
(* of the file as they were.  Before anything is verified and no operation *)
(* runs, a rewritten source is just another source.                        *)
EditSource(silent) ==
    /\ verified \/ op # "none"
    /\ edits < MaxEdits /\ edits' = edits + 1
    /\ disk' = [disk EXCEPT ![path].content = @ + 1,
                            ![path].entry = IF silent THEN @ ELSE @ + 1]
    /\ UNCHANGED <<route, discovery, source, verified, tested, operation, output,
                   recovery, commands, disposed>>

(* The dialog has returned a file; one that cannot be read changes nothing.  *)
ChooseSource(p) ==
    LET picked == Snapshot(p, FALSE)
        changed == snapshot = None \/ ~SourceSnapshotsMatch(snapshot, picked)
    IN  /\ Command
        /\ path' = p /\ snapshot' = picked
        /\ load' = IF load = NoLoad THEN NoLoad ELSE [load EXCEPT !.superseded = TRUE]
        /\ IF changed THEN InvalidateVerification ELSE KeepVerification
        /\ UNCHANGED <<route, discovery, operation, output, disk,
                       edits, disposed>>

SavedSourceRead ==
    /\ load.stage = "reading"
    /\ \/ load' = [load EXCEPT !.stage = "failed"]
       \/ load' = [load EXCEPT !.stage = "read", !.found = Snapshot(load.path, FALSE)]
    /\ UNCHANGED <<route, discovery, path, snapshot, verified, tested,
                   operation, output, recovery, outside>>

(* What was read is used unless a source was chosen meanwhile.             *)
SavedSourceContinues ==
    /\ load.stage \in {"read", "failed"}
    /\ load' = NoLoad
    /\ snapshot' = IF ~disposed /\ ~load.superseded /\ path = load.path
                   THEN load.found ELSE snapshot
    /\ UNCHANGED <<route, discovery, path, verified, tested, operation,
                   output, recovery, outside>>

-----------------------------------------------------------------------------
(* The start of an operation.                                              *)

StartTest ==
    /\ Command /\ CanTest
    /\ op' = "test" /\ stage' = "revalidate" /\ token' = "live" /\ answer' = "none"
    /\ InvalidateVerification
    /\ UNCHANGED <<route, discovery, source, now, result, request, target, commit,
                   output, disk, edits, disposed>>

(* CanCapture is looked at before the dialog for the destination, not      *)
(* after it; the dispatcher runs continuations while the dialog is open.   *)
AskDestination ==
    /\ Command /\ CanCapture
    /\ op' = "dialog"
    /\ UNCHANGED <<route, discovery, source, verified, tested, stage, token, answer, now,
                   result, request, target, commit, output, recovery, disk, edits, disposed>>

(* The dialog was dismissed, or no staging path can be made of its answer. *)
DestinationRefused ==
    /\ op = "dialog"
    /\ op' = "none"
    /\ recovery' \in {recovery, FALSE}
    /\ UNCHANGED <<route, discovery, source, verified, tested, stage, token, answer, now,
                   result, request, target, commit, output, outside>>

StartCapture ==
    /\ op = "dialog"
    /\ op' = "capture" /\ stage' = "revalidate" /\ token' = "live" /\ answer' = "none"
    /\ commit' = "Active"
    /\ target' \in {"source", "other"}
    /\ files' = {} /\ undeleted' = {} /\ read' = None
    /\ outcome' = "none" /\ recovery' = FALSE
    /\ UNCHANGED <<route, discovery, source, verified, tested, now, result, request, outside>>

-----------------------------------------------------------------------------
(* The end of an operation: the clean-up in the finally blocks.            *)

EndOperation ==
    /\ op' = "none" /\ stage' = "none" /\ token' = "none" /\ answer' = "none"
    /\ now' = None /\ result' = "none" /\ request' = None /\ target' = "none"
    /\ commit' = "Idle" /\ read' = None

CleanUpAll(left, keep) ==  \* mutant: the output that is kept is deleted with the others
    undeleted' \in SUBSET left /\ files' = undeleted'

(* Siblings are deleted, the temporary output unless it is kept; a file    *)
(* that another process holds stays.                                       *)
CleanUp(left, keep) ==
    /\ undeleted' \in SUBSET (left \ keep)
    /\ files' = undeleted' \cup (left \cap keep)

EndTest == EndOperation /\ UNCHANGED <<files, undeleted, outcome>>

EndCapture ==
    EndOperation /\ CleanUp(files, {}) /\ outcome' = "unsaved"

(* A test ends without having verified anything; a capture is cancelled.   *)
EndCancelled ==
    \/ op = "test" /\ EndTest /\ InvalidateVerification
    \/ op = "capture" /\ EndCapture /\ KeepVerification

EndFailed ==
    /\ InvalidateVerification
    /\ \/ op = "test" /\ EndTest
       \/ op = "capture" /\ EndCapture

-----------------------------------------------------------------------------
(* The steps of an operation.                                              *)

(* ReadSnapshotAsync on the thread pool.                                   *)
SourceRead ==
    /\ stage \in {"revalidate", "recheck"} /\ answer = "none"
    /\ \/ answer' = "failed" /\ now' = None
       \/ token = "live" /\ answer' = "source" /\ now' = Snapshot(path, TRUE)
       \/ token = "cancelled" /\ answer' = "cancelled" /\ now' = None
    /\ UNCHANGED <<route, discovery, source, verified, tested, op, stage, token, result,
                   request, target, commit, output, recovery, outside>>

(* The three ends of ReadSourceIfUnchangedAsync that give no snapshot.  A  *)
(* failed read is reported before the token is looked at.                  *)
ExpectedSource == IF stage = "recheck" THEN request.source ELSE snapshot
SourceReturned == answer = "source" /\ token = "live"
SourceUnchanged == SourceReturned /\ SourceSnapshotsMatch(ExpectedSource, now)

SourceUnreadable ==
    /\ stage \in {"revalidate", "recheck"} /\ answer = "failed"
    /\ snapshot' = None
    /\ EndFailed
    /\ UNCHANGED <<route, discovery, path, load, outside>>

SourceCheckCancelled ==
    /\ stage \in {"revalidate", "recheck"} /\ answer \notin {"none", "failed"}
    /\ token = "cancelled"
    /\ EndCancelled
    /\ UNCHANGED <<route, discovery, source, outside>>

SourceChanged ==
    /\ stage \in {"revalidate", "recheck"} /\ SourceReturned /\ ~SourceUnchanged
    /\ snapshot' = now
    /\ EndFailed
    /\ UNCHANGED <<route, discovery, path, load, outside>>

(* The source is as expected, and is hashed now.  A capture onto its own   *)
(* source is refused; else the worker is asked.                            *)
OverwriteRefused ==
    /\ stage = "revalidate" /\ SourceUnchanged /\ op = "capture" /\ target = "source"
    /\ snapshot' = now
    /\ EndCapture
    /\ UNCHANGED <<route, discovery, path, load, verified, tested, recovery,
                   outside>>

CallWorker ==
    /\ stage = "revalidate" /\ SourceUnchanged
    /\ op = "capture" => target # "source"
    /\ snapshot' = now
    /\ stage' = "call" /\ answer' = "none" /\ now' = None /\ request' = Setup(now)
    /\ UNCHANGED <<route, discovery, path, load, verified, tested, op, token,
                   result, target, commit, output, recovery, outside>>

(* The worker of a capture reads the source; a test needs its rate only.   *)
WorkerReads ==
    /\ op = "capture" /\ stage = "call" /\ answer = "none" /\ read = None
    /\ read' = Snapshot(request.source.path, TRUE)
    /\ UNCHANGED <<route, discovery, source, verified, tested, operation, files,
                   undeleted, outcome, recovery, outside>>

(* The client returns a result, or throws and the worker has left behind   *)
(* what it could not delete.  An output that does not stand the checks of  *)
(* ValidateCaptureCompleted counts as a failure.                           *)
Temporaries == {"temporary", "sibling"}
WorkerSucceeds ==
    /\ stage = "call" /\ answer = "none" /\ token = "live"
    /\ \/ op = "test" /\ answer' \in {"passed", "rejected"} /\ UNCHANGED files
       \/ /\ op = "capture" /\ read # None
          /\ answer' = "completed" /\ files' = {"temporary"}
    /\ UNCHANGED <<route, discovery, source, verified, tested, op, stage, token, now, result,
                   request, target, commit, undeleted, read, outcome, recovery, outside>>

WorkerFails ==
    /\ stage = "call" /\ answer = "none"
    /\ answer' \in {"failed"} \cup (IF token = "live" THEN {} ELSE {"cancelled"})
    /\ files' \in IF op = "capture" THEN SUBSET Temporaries ELSE {files}
    /\ UNCHANGED <<route, discovery, source, verified, tested, op, stage, token, now, result,
                   request, target, commit, undeleted, read, outcome, recovery, outside>>

CallFailed ==
    /\ stage = "call" /\ answer = "failed" /\ token = "live"
    /\ EndFailed
    /\ UNCHANGED <<route, discovery, source, outside>>

(* Whatever the call came back with, its cancellation decides.             *)
CallCancelled ==
    /\ stage = "call" /\ answer # "none" /\ token = "cancelled"
    /\ EndCancelled
    /\ UNCHANGED <<route, discovery, source, outside>>

CallReturnedUnchecked ==  \* mutant: the source is not looked at again after a capture
    /\ stage = "call" /\ answer \notin {"none", "failed"} /\ token = "live"
    /\ stage' = IF op = "capture" THEN "gate" ELSE "recheck"
    /\ answer' = "none" /\ result' = answer
    /\ UNCHANGED <<route, discovery, source, verified, tested, op, token, now, request,
                   target, commit, output, recovery, outside>>

CallReturned ==
    /\ stage = "call" /\ answer \notin {"none", "failed"} /\ token = "live"
    /\ stage' = "recheck" /\ answer' = "none" /\ result' = answer
    /\ UNCHANGED <<route, discovery, source, verified, tested, op, token, now, request,
                   target, commit, output, recovery, outside>>

ApplySetupTestResult ==
    /\ op = "test" /\ stage = "recheck" /\ SourceUnchanged
    /\ snapshot' = now
    /\ verified' = (result = "passed")
    /\ tested' = IF result = "passed" THEN request ELSE None
    /\ EndTest
    /\ UNCHANGED <<route, discovery, path, load, recovery, outside>>

OutputValidated ==
    /\ op = "capture" /\ stage = "recheck" /\ SourceUnchanged
    /\ snapshot' = now
    /\ stage' = "gate" /\ answer' = "none" /\ now' = None
    /\ UNCHANGED <<route, discovery, path, load, verified, tested, op, token,
                   result, request, target, commit, output, recovery, outside>>

BeginCommitAnyway ==  \* mutant: the commit begins without asking the gate
    /\ stage = "gate"
    /\ commit' = "CommitStarted" /\ stage' = "promote"
    /\ UNCHANGED <<op, token, answer, now, result, request, target, output>>
    /\ UNCHANGED <<route, discovery, source, verified, tested, recovery, outside>>

TryBeginCaptureCommit ==
    /\ stage = "gate"
    /\ IF commit = "Active" /\ token = "live"
       THEN /\ commit' = "CommitStarted" /\ stage' = "promote"
            /\ UNCHANGED <<op, token, answer, now, result, request, target, output>>
       ELSE EndCapture
    /\ UNCHANGED <<route, discovery, source, verified, tested, recovery, outside>>

(* File.Move has replaced the destination.                                 *)
Promote ==
    /\ stage = "promote"
    /\ EndOperation /\ CleanUp(files \ {"temporary"}, {})
    /\ outcome' = "saved"
    /\ UNCHANGED <<route, discovery, source, verified, tested, recovery, outside>>

(* File.Move has failed.  The validated output is kept, unless it is the   *)
(* output that has gone.                                                   *)
PromotionFails(gone) ==
    /\ stage = "promote"
    /\ EndOperation
    /\ IF gone THEN CleanUp(files \ {"temporary"}, {}) ELSE CleanUp(files, {"temporary"})
    /\ recovery' = ~gone
    /\ outcome' = IF gone THEN "unsaved" ELSE "kept"
    /\ UNCHANGED <<route, discovery, source, verified, tested, outside>>

-----------------------------------------------------------------------------
(* Cancellation.                                                           *)

CancelCapture ==
    /\ op = "capture" /\ commit = "Active" /\ ~disposed
    /\ commit' = "CancellationRequested" /\ token' = "cancelled"
    /\ UNCHANGED <<route, discovery, source, verified, tested, op, stage, answer, now, result,
                   request, target, output, recovery, outside>>

TestNeverTimesOut == FALSE  \* mutant: a test has no watchdog

TestTimesOut ==
    /\ op = "test" /\ token = "live"
    /\ token' = "cancelled"
    /\ UNCHANGED <<route, discovery, source, verified, tested, op, stage, answer, now, result,
                   request, target, commit, output, recovery, outside>>

(* The window closes, which its dialogs prevent.                           *)
Dispose ==
    /\ ~disposed /\ op # "dialog"
    /\ disposed' = TRUE
    /\ token' = IF op = "none" \/ commit = "CommitStarted" THEN token ELSE "cancelled"
    /\ commit' = IF commit = "Active" THEN "CancellationRequested" ELSE commit
    /\ refresh' = IF Refreshing THEN [refresh EXCEPT !.token = "cancelled"] ELSE refresh
    /\ lookup' = Superseded
    /\ UNCHANGED <<route, current, source, verified, tested, op, stage, answer, now, result,
                   request, target, output, recovery, disk, edits, commands>>

-----------------------------------------------------------------------------
Controls ==
    \/ StartRefresh \/ StartTest \/ AskDestination \/ DestinationRefused
    \/ StartCapture \/ CancelCapture \/ Dispose
    \/ \E d \in Devices : SelectDevice(d)
    \/ \E c \in offered : SelectChannel(c)
    \/ \E t \in Trims : SetTrim(t)
    \/ \E p \in Sources : ChooseSource(p)

(* Continuations on the dispatcher.                                        *)
Continuations ==
    \/ DiscoveryFails \/ DevicesListed \/ RefreshEnds \/ SavedSourceContinues
    \/ SourceUnreadable \/ SourceCheckCancelled \/ SourceChanged
    \/ OverwriteRefused \/ CallWorker
    \/ CallFailed \/ CallCancelled \/ CallReturned
    \/ ApplySetupTestResult \/ OutputValidated \/ TryBeginCaptureCommit
    \/ Promote \/ \E gone \in BOOLEAN : PromotionFails(gone)
    \/ \E l \in Lookups : LookupContinues(l)

Timers == DevicesTimeOut \/ TestTimesOut \/ \E l \in Lookups : LookupTimesOut(l)

(* What is awaited: the worker client and the file system.                 *)
Answers ==
    \/ DevicesAnswered \/ DevicesCancelled
    \/ \E l \in Lookups : LookupAnswered(l) \/ LookupCancelled(l)
    \/ SavedSourceRead \/ SourceRead
    \/ WorkerReads \/ WorkerSucceeds \/ WorkerFails

Environment == \E silent \in BOOLEAN : EditSource(silent)

Next == Controls \/ Continuations \/ Timers \/ Answers \/ Environment

Spec == Init /\ [][Next]_vars

(* The dispatcher runs what is posted to it, a timer fires, a read of a    *)
(* file comes back, and so does a cancelled call of the client             *)
(* (CancelledCallEnds of WorkerClient).                                    *)
Fairness ==
    /\ WF_vars(Continuations)
    /\ WF_vars(DevicesTimeOut) /\ WF_vars(TestTimesOut)
    /\ \A l \in Lookups : WF_vars(LookupTimesOut(l)) /\ WF_vars(LookupCancelled(l))
    /\ WF_vars(DevicesCancelled)
    /\ WF_vars(SourceRead)
    /\ WF_vars(token = "cancelled" /\ WorkerFails)

FairSpec == Spec /\ Fairness

-----------------------------------------------------------------------------
(* Properties.                                                             *)

(* A verified setup is the one that passed a test: the driver, the channel *)
(* and the level that are selected now, and the content of the selected    *)
(* source, whatever lookups, refreshes and loads have ended since          *)
(* (Docs/WINDOWS_UI_DESIGN.md:39).                                         *)
VerifiedIsCurrent == verified /\ ~Refreshing => tested = Setup(snapshot)

(* No discovery and no lookup is under way while an operation runs         *)
(* (Docs/WINDOWS_UI_DESIGN.md:201): a lookup does not lock the controls,   *)
(* the channels it has yet to bring do.                                    *)
OneAudioOperation ==
    op # "none" => ~Refreshing /\ \A l \in Lookups : lookup[l].token # "live"

(* What takes the place of the destination was captured over the route     *)
(* that passed the test, by a worker that read the tested content of the   *)
(* source, and the destination is not the source.                          *)
PromotedAsTested ==
    [][outcome # "saved" /\ outcome' = "saved" =>
           request = tested /\ read = tested.source /\ target # "source"]_vars

(* A cancellation that the panel accepted is final: the destination is not *)
(* replaced and no output is offered for recovery afterwards.              *)
CancelIsFinal ==
    [][op = "capture" /\ token = "cancelled" =>
           outcome' \notin {"saved", "kept"}]_vars

(* When no capture runs, its temporary files are gone except those that    *)
(* could not be deleted and the validated output that could not be moved;  *)
(* a path the user is told of leads to that output.                        *)
TemporaryAccounted ==
    op # "capture" =>
        /\ files \ undeleted \subseteq IF outcome = "kept" THEN {"temporary"} ELSE {}
        /\ recovery => outcome = "kept" /\ "temporary" \in files

(* The panel is given back: a refresh and a test end by themselves, a      *)
(* capture that was cancelled ends.                                        *)
Awaited == Refreshing \/ op = "test" \/ (op = "capture" /\ token = "cancelled")
PanelUnlocks == Awaited ~> ~Awaited
=============================================================================
