--------------------------- MODULE SecurityConsole ---------------------------
(***************************************************************************)
(* The controller's SecurityConsole (boundary_audit/ui_server.py) and the   *)
(* device host it drives over gRPC.  Every HTTP request has a thread of its *)
(* own: actions, starts and stops hold the console's lock, the browser's    *)
(* polls of /api/state do not.  The device host is seen as its replies: a   *)
(* call takes effect at once (module MonitoringAgent has its inside) and    *)
(* may fail before that, after it, or with a part of it done.               *)
(***************************************************************************)
EXTENDS Integers, Sequences

CONSTANTS
  Requesters,    \* threads of /api/action, /api/monitor/start and .../stop
  Pollers,       \* threads of /api/state and of what the page posts after it
  Bundle,        \* the files of a run on the device (docs/results.md:6-21)
  DownloadList,  \* the names that _download_run() asks for, in its order
  Faults,        \* what may go wrong, a subset of FaultKinds
  MaxRuns,       \* bound on the runs of the device host
  MaxActions     \* bound on the actions

\* "lost": a call to the device fails, GetArtifact too; "restart": the agent
\* restarts and forgets its session; "otherStarts", "otherStops": another
\* controller starts, stops a run; "otherBetween": it starts one between two
\* requests of the console; "page": a request of the page is not answered
\* (module ConsolePage).
FaultKinds == {"lost", "restart", "otherStarts", "otherBetween", "otherStops", "page"}

ASSUME ConsoleAssumption ==
  /\ Requesters \cap Pollers = {}
  /\ "no one" \notin Requesters \cup Pollers
  /\ DownloadList \in Seq(Bundle)
  /\ \E i \in 1..Len(DownloadList) : DownloadList[i] = "api-results.jsonl"
  /\ Faults \subseteq FaultKinds
  /\ MaxRuns \in Nat
  /\ MaxActions \in Nat

Workers == Requesters \cup Pollers
Runs    == 1..MaxRuns
None    == 0
NoOne   == "no one"

VARIABLES
  lock,        \* SecurityConsole.lock: who holds it
  monitoring,  \* SecurityConsole.monitoring
  active,      \* SecurityConsole.active_run_id
  copy,        \* runs_root: what the directory of a run holds, file by file
  pc,          \* where each thread is
  target,      \* the run_id of a thread's _download_run
  nextFile,    \* the index in DownloadList of the `name` it is at
  skipped,     \* the names it has passed over (history)
  reply,       \* the status that a poller was answered
  mine,        \* the run and the line that recorded a thread's action (history)
  calls,       \* actions asked for
  device,      \* the agent: its run, whether it is started, and runs made
  lines,       \* lines in api-results.jsonl of each run
  sealed       \* runs with a manifest

job == <<target, nextFile, skipped, mine>>
remote == <<device, lines, sealed>>
vars == <<lock, monitoring, active, copy, pc, job, reply, calls, remote>>

Labels == {"idle", "status", "autoStart", "start", "execute", "check", "snapshot",
           "download", "fetch", "return", "stop", "stopFetch", "clear", "write"}

\* A file as it was fetched: whose it is, how many of the lines of its run it
\* covers, and whether the run was sealed.
Versions   == [of : 0..MaxRuns, lines : 0..MaxActions, sealed : BOOLEAN]
NoFile     == [of |-> None, lines |-> 0, sealed |-> FALSE]
Version(r) == [of |-> r, lines |-> lines[r], sealed |-> r \in sealed]

\* Inside the `with self.lock` block.
Locked(w) == pc[w] \notin {"idle", "write"}

(* Type invariant. *)
TypeOK ==
  /\ lock \in Workers \cup {NoOne}
  /\ monitoring \in BOOLEAN
  /\ active \in 0..MaxRuns
  /\ copy \in [Runs -> [Bundle -> Versions]]
  /\ pc \in [Workers -> Labels]
  /\ \A w \in Workers : Locked(w) <=> lock = w
  /\ target \in [Workers -> 0..MaxRuns]
  /\ nextFile \in [Workers -> 1..Len(DownloadList) + 1]
  /\ \A w \in Workers :
       /\ pc[w] \in {"fetch", "stopFetch"} => nextFile[w] <= Len(DownloadList)
       /\ pc[w] \notin {"fetch", "stopFetch", "return", "clear"} => nextFile[w] = 1
  /\ skipped \in [Workers -> SUBSET Bundle]
  /\ reply \in [Workers -> [running : BOOLEAN, run : 0..MaxRuns]]
  /\ mine \in [Workers -> [run : 0..MaxRuns, line : 0..MaxActions]]
  /\ calls \in 0..MaxActions
  /\ device \in [run : 0..MaxRuns, started : BOOLEAN, made : 0..MaxRuns]
  /\ lines \in [Runs -> 0..MaxActions]
  /\ sealed \subseteq Runs

NoReply == [running |-> FALSE, run |-> None]
NoLine  == [run |-> None, line |-> 0]

Init ==
  /\ lock = NoOne
  /\ monitoring = FALSE
  /\ active = None
  /\ copy = [r \in Runs |-> [name \in Bundle |-> NoFile]]
  /\ pc = [w \in Workers |-> "idle"]
  /\ target = [w \in Workers |-> None]
  /\ nextFile = [w \in Workers |-> 1]
  /\ skipped = [w \in Workers |-> {}]
  /\ reply = [w \in Workers |-> NoReply]
  /\ mine = [w \in Workers |-> NoLine]
  /\ calls = 0
  /\ device = [run |-> None, started |-> FALSE, made |-> 0]
  /\ lines = [r \in Runs |-> 0]
  /\ sealed = {}

Goto(w, label) == pc' = [pc EXCEPT ![w] = label] /\ UNCHANGED <<lock, job>>

(* A request waits for the lock; leaving the `with` block, normally or by   *)
(* an exception, releases it.                                               *)
Acquire(w, label) ==
  /\ pc[w] = "idle" /\ lock = NoOne
  /\ lock' = w
  /\ pc' = [pc EXCEPT ![w] = label]

Forget(w) ==
  /\ target' = [target EXCEPT ![w] = None]
  /\ nextFile' = [nextFile EXCEPT ![w] = 1]
  /\ skipped' = [skipped EXCEPT ![w] = {}]
  /\ mine' = [mine EXCEPT ![w] = NoLine]

Leave_KeepsLock(w) ==  \* mutant: acquire() and release() without `with`
  /\ pc' = [pc EXCEPT ![w] = "idle"]
  /\ lock' = IF pc[w] \in {"clear", "return", "start"} THEN NoOne ELSE lock
  /\ Forget(w)

Leave(w) ==
  /\ pc' = [pc EXCEPT ![w] = "idle"]
  /\ lock' = NoOne
  /\ Forget(w)

Lost == "lost" \in Faults

-----------------------------------------------------------------------------
(* action(): ensure that the device monitors, execute, refresh the copy. *)

ActionBegin(w) ==
  /\ calls < MaxActions
  /\ Acquire(w, "status")
  /\ calls' = calls + 1
  /\ UNCHANGED <<monitoring, active, copy, job, reply, remote>>

EnsureStatus_TrustsFlag(w) ==  \* mutant: no call when the flag is set
  /\ pc[w] = "status"
  /\ \/ monitoring /\ Goto(w, "execute") /\ UNCHANGED <<monitoring, active>>
     \/ /\ ~monitoring /\ device.started
        /\ monitoring' = TRUE
        /\ active' = device.run
        /\ Goto(w, "execute")
     \/ ~monitoring /\ ~device.started /\ Goto(w, "autoStart") /\ UNCHANGED <<monitoring, active>>
     \/ Lost /\ Leave(w) /\ UNCHANGED <<monitoring, active>>
  /\ UNCHANGED <<copy, reply, calls, remote>>

EnsureStatus(w) ==
  /\ pc[w] = "status"
  /\ \/ /\ device.started
        /\ monitoring' = TRUE
        /\ active' = device.run
        /\ Goto(w, "execute")
     \/ ~device.started /\ Goto(w, "autoStart") /\ UNCHANGED <<monitoring, active>>
     \/ Lost /\ Leave(w) /\ UNCHANGED <<monitoring, active>>
  /\ UNCHANGED <<copy, reply, calls, remote>>

(* MonitoringAgent.start makes a session before it starts its capture.      *)
NewSession(up) ==
  /\ device.made < MaxRuns
  /\ device' = [run |-> device.made + 1, started |-> up, made |-> device.made + 1]

(* StartMonitor is answered by an error when a session is running.          *)
StartCall(w) ==
  /\ pc[w] \in {"autoStart", "start"}
  /\ \/ /\ ~device.started /\ NewSession(TRUE)
        /\ monitoring' = TRUE
        /\ active' = device'.run
        /\ \/ pc[w] = "autoStart" /\ Goto(w, "execute")
           \/ pc[w] = "start" /\ Leave(w)
     \/ /\ \/ Lost /\ ~device.started /\ \E up \in BOOLEAN : NewSession(up)
           \/ (device.started \/ Lost) /\ UNCHANGED device
        /\ Leave(w)
        /\ UNCHANGED <<monitoring, active>>
  /\ UNCHANGED <<copy, reply, calls, lines, sealed>>

(* The device records the action in the run that it monitors, if any. *)
ActionExecute(w) ==
  /\ pc[w] = "execute"
  /\ \/ /\ IF device.started
           THEN /\ lines' = [lines EXCEPT ![device.run] = @ + 1]
                /\ mine' = [mine EXCEPT ![w] = [run |-> device.run, line |-> lines'[device.run]]]
           ELSE mine' = [mine EXCEPT ![w] = NoLine] /\ UNCHANGED lines
        /\ pc' = [pc EXCEPT ![w] = "check"]
        /\ UNCHANGED <<lock, target, nextFile, skipped>>
     \/ /\ Lost /\ Leave(w)
        /\ \/ UNCHANGED lines
           \/ device.started /\ lines' = [lines EXCEPT ![device.run] = @ + 1]
  /\ UNCHANGED <<monitoring, active, copy, reply, calls, device, sealed>>

(* `if self.active_run_id`: nothing to refresh without one. *)
ActionCheck(w) ==
  /\ pc[w] = "check"
  /\ \/ active # None /\ Goto(w, "snapshot")
     \/ active = None /\ Goto(w, "return")
  /\ UNCHANGED <<monitoring, active, copy, reply, calls, remote>>

ActionSnapshot(w) ==
  /\ pc[w] = "snapshot"
  /\ \/ device.run # None /\ Goto(w, "download")
     \/ (device.run = None \/ Lost) /\ Leave(w)
  /\ UNCHANGED <<monitoring, active, copy, reply, calls, remote>>

(* The attribute is read again; `runs_root / None` raises. *)
ActionDownload(w) ==
  /\ pc[w] = "download"
  /\ \/ /\ active # None
        /\ target' = [target EXCEPT ![w] = active]
        /\ pc' = [pc EXCEPT ![w] = "fetch"]
        /\ UNCHANGED <<lock, nextFile, skipped, mine>>
     \/ active = None /\ Leave(w)
  /\ UNCHANGED <<monitoring, active, copy, reply, calls, remote>>

ActionReturn(w) ==
  /\ pc[w] = "return"
  /\ Leave(w)
  /\ UNCHANGED <<monitoring, active, copy, reply, calls, remote>>

-----------------------------------------------------------------------------
(* _download_run(): one call for each name, answered from the session that  *)
(* is current on the device; a name that cannot be fetched is passed over.  *)

OnDevice(name) == device.run # None /\ (name = "manifest.json" => device.run \in sealed)

Advance(w) ==
  /\ nextFile' = [nextFile EXCEPT ![w] = @ + 1]
  /\ pc' = [pc EXCEPT ![w] = IF nextFile[w] < Len(DownloadList) THEN @
                             ELSE IF @ = "fetch" THEN "return" ELSE "clear"]

GetArtifact_SkipsExisting(w) ==  \* mutant: keeps a file that is already there
  /\ pc[w] \in {"fetch", "stopFetch"}
  /\ LET name == DownloadList[nextFile[w]] IN
       \/ /\ OnDevice(name)
          /\ copy' = IF copy[target[w]][name] = NoFile
                     THEN [copy EXCEPT ![target[w]][name] = Version(device.run)]
                     ELSE copy
          /\ UNCHANGED skipped
       \/ /\ ~OnDevice(name) \/ Lost
          /\ skipped' = [skipped EXCEPT ![w] = @ \cup {name}]
          /\ UNCHANGED copy
  /\ Advance(w)
  /\ UNCHANGED <<lock, monitoring, active, target, mine, reply, calls, remote>>

GetArtifact(w) ==
  /\ pc[w] \in {"fetch", "stopFetch"}
  /\ LET name == DownloadList[nextFile[w]] IN
       \/ /\ OnDevice(name)
          /\ copy' = [copy EXCEPT ![target[w]][name] = Version(device.run)]
          /\ UNCHANGED skipped
       \/ /\ ~OnDevice(name) \/ Lost
          /\ skipped' = [skipped EXCEPT ![w] = @ \cup {name}]
          /\ UNCHANGED copy
  /\ Advance(w)
  /\ UNCHANGED <<lock, monitoring, active, target, mine, reply, calls, remote>>

-----------------------------------------------------------------------------
(* start_monitor() and stop_monitor(). *)

(* An error at once when the flag is set. *)
StartBegin(w) ==
  /\ ~monitoring
  /\ Acquire(w, "start")
  /\ UNCHANGED <<monitoring, active, copy, job, reply, calls, remote>>

StopBegin(w) ==
  /\ Acquire(w, "stop")
  /\ UNCHANGED <<monitoring, active, copy, job, reply, calls, remote>>

(* A stop that fails on the device ends the capture, and may not seal.      *)
StopsPartly ==
  /\ device.run # None
  /\ device' = [device EXCEPT !.started = FALSE]
  /\ sealed' \in {sealed, sealed \cup {device.run}}

StopCall_IntoActive(w) ==  \* mutant: downloads into the run it believes active
  /\ pc[w] = "stop"
  /\ \/ /\ device.run # None
        /\ device' = [device EXCEPT !.started = FALSE]
        /\ sealed' = sealed \cup {device.run}
        /\ monitoring' = FALSE
        /\ target' = [target EXCEPT ![w] = IF active # None THEN active ELSE device.run]
        /\ pc' = [pc EXCEPT ![w] = "stopFetch"]
        /\ UNCHANGED <<lock, nextFile, skipped, mine>>
     \/ /\ \/ Lost /\ StopsPartly
           \/ (device.run = None \/ Lost) /\ UNCHANGED <<device, sealed>>
        /\ Leave(w)
        /\ UNCHANGED monitoring
  /\ UNCHANGED <<active, copy, reply, calls, lines>>

(* Stopping a session again is no error; without a session it is.           *)
StopCall(w) ==
  /\ pc[w] = "stop"
  /\ \/ /\ device.run # None
        /\ device' = [device EXCEPT !.started = FALSE]
        /\ sealed' = sealed \cup {device.run}
        /\ monitoring' = FALSE
        /\ target' = [target EXCEPT ![w] = device.run]
        /\ pc' = [pc EXCEPT ![w] = "stopFetch"]
        /\ UNCHANGED <<lock, nextFile, skipped, mine>>
     \/ /\ \/ Lost /\ StopsPartly
           \/ (device.run = None \/ Lost) /\ UNCHANGED <<device, sealed>>
        /\ Leave(w)
        /\ UNCHANGED monitoring
  /\ UNCHANGED <<active, copy, reply, calls, lines>>

StopClear(w) ==
  /\ pc[w] = "clear"
  /\ active' = None
  /\ Leave(w)
  /\ UNCHANGED <<monitoring, copy, reply, calls, remote>>

-----------------------------------------------------------------------------
(* state(): asks the device, then sets the flag and the run, without lock.  *)
(* An error leaves them alone.                                              *)

PollStatus(w) ==
  /\ pc[w] = "idle"
  /\ reply' = [reply EXCEPT ![w] = [running |-> device.started, run |-> device.run]]
  /\ Goto(w, "write")
  /\ UNCHANGED <<monitoring, active, copy, calls, remote>>

PollWrite_OnlySets(w) ==  \* mutant: no else branch
  /\ pc[w] = "write"
  /\ IF reply[w].running
     THEN monitoring' = TRUE /\ active' = reply[w].run
     ELSE UNCHANGED <<monitoring, active>>
  /\ reply' = [reply EXCEPT ![w] = NoReply]
  /\ Goto(w, "idle")
  /\ UNCHANGED <<copy, calls, remote>>

PollWrite_NeedsLock(w) ==  \* mutant: state() waits for the lock
  /\ pc[w] = "write" /\ lock = NoOne
  /\ monitoring' = reply[w].running
  /\ active' = IF reply[w].running THEN reply[w].run ELSE None
  /\ reply' = [reply EXCEPT ![w] = NoReply]
  /\ Goto(w, "idle")
  /\ UNCHANGED <<copy, calls, remote>>

PollWrite(w) ==
  /\ pc[w] = "write"
  /\ monitoring' = reply[w].running
  /\ active' = IF reply[w].running THEN reply[w].run ELSE None
  /\ reply' = [reply EXCEPT ![w] = NoReply]
  /\ Goto(w, "idle")
  /\ UNCHANGED <<copy, calls, remote>>

-----------------------------------------------------------------------------
(* Around the console. *)

DeviceRestarts ==
  /\ "restart" \in Faults
  /\ device' = [device EXCEPT !.run = None, !.started = FALSE]
  /\ UNCHANGED <<lock, monitoring, active, copy, pc, job, reply, calls, lines, sealed>>

OtherStarts ==
  /\ "otherStarts" \in Faults \/ ("otherBetween" \in Faults /\ lock = NoOne)
  /\ ~device.started
  /\ NewSession(TRUE) \/ (Lost /\ NewSession(FALSE))
  /\ UNCHANGED <<lock, monitoring, active, copy, pc, job, reply, calls, lines, sealed>>

OtherStops ==
  /\ "otherStops" \in Faults /\ device.started
  /\ StopsPartly /\ (Lost \/ sealed' # sealed)
  /\ UNCHANGED <<lock, monitoring, active, copy, pc, job, reply, calls, lines>>

Inside(w) ==
  \/ EnsureStatus(w) \/ StartCall(w) \/ ActionExecute(w) \/ ActionCheck(w)
  \/ ActionSnapshot(w) \/ ActionDownload(w) \/ ActionReturn(w) \/ GetArtifact(w)
  \/ StopCall(w) \/ StopClear(w)

Requests == \E w \in Requesters : ActionBegin(w) \/ StartBegin(w) \/ StopBegin(w) \/ Inside(w)

Next ==
  \/ Requests
  \/ \E w \in Pollers : PollStatus(w) \/ PollWrite(w)
  \/ DeviceRestarts \/ OtherStarts \/ OtherStops

Spec == Init /\ [][Next]_vars

-----------------------------------------------------------------------------
(* Properties. *)

(* "Each action is recorded" (README.md:118): no action reaches a device    *)
(* that does not monitor, whatever the flag says after a lost reply         *)
(* (ui_server.py:91, 103).                                                  *)
ActionMonitored ==
  [][\A w \in Requesters : ActionExecute(w) => device.started]_vars

(* "the active evidence is refreshed" (README.md:118-119): when an action   *)
(* returns its result, the copy of its run has the line that recorded it,   *)
(* unless that file was passed over (ui_server.py:94-97, 144).              *)
EvidenceRefreshed ==
  [][\A w \in Requesters :
       ActionReturn(w) /\ mine[w].run # None /\ "api-results.jsonl" \notin skipped[w] =>
         /\ copy[mine[w].run]["api-results.jsonl"].of = mine[w].run
         /\ copy[mine[w].run]["api-results.jsonl"].lines >= mine[w].line]_vars

(* What a stop saves is final (ui_server.py:128-130, 143): when it returns, *)
(* every file of the list that was not passed over is the one of the sealed *)
(* run, and none is left from a refresh after an action.                    *)
SavedIsSealed ==
  [][\A w \in Requesters : StopClear(w) =>
       \A i \in 1..Len(DownloadList) : DownloadList[i] \notin skipped[w] =>
         copy[target[w]][DownloadList[i]] =
           [of |-> target[w], lines |-> lines[target[w]], sealed |-> TRUE]]_vars

(* "Every run is stored in a directory named with its UTC timestamp and run *)
(* ID" (docs/results.md:3): a directory has no file of another run.         *)
FilesBelong == \A r \in Runs, name \in Bundle : copy[r][name].of \in {None, r}
=============================================================================
