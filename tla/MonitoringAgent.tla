--------------------------- MODULE MonitoringAgent ---------------------------
(***************************************************************************)
(* The monitoring agent of the device host and the gRPC handlers that       *)
(* drive it (boundary_audit/monitoring/agent.py, replay.py and the          *)
(* DutGrpcService of grpc_sdk.py).  The handlers run in the threads of one  *)
(* pool, share the agent's current session and take no lock: each of their  *)
(* steps between two shared reads or writes is an action here.              *)
(***************************************************************************)
EXTENDS Integers

CONSTANTS
  Workers,      \* the threads of the gRPC server
  Controllers,  \* the workers that serve StartMonitor and StopMonitor
  Faults,       \* what may fail, a subset of FaultKinds
  MaxRuns,      \* bound on the run directories
  MaxCalls      \* bound on the calls other than StartMonitor

\* "start": the capture program cannot be run; "stop": CaptureManager.stop
\* raises; "dut": the action itself raises; "replay": the capture cannot be
\* replayed (tcpdump missing, pcap cut short); "write": writing layers.json
\* fails midway (disk full); "restart": the agent dies.
FaultKinds == {"start", "stop", "dut", "replay", "write", "restart"}

ASSUME AgentAssumption ==
  /\ Controllers \subseteq Workers
  /\ Faults \subseteq FaultKinds
  /\ MaxRuns \in Nat
  /\ MaxCalls \in Nat

Runs == 1..MaxRuns   \* run directories, in the order of their creation
None == 0            \* no session

(* What the JSON-lines files of a run hold: API_CALL_BEGIN, API_CALL_END and *)
(* other lines of events.jsonl, lines of api-results.jsonl, host snapshots   *)
(* (processes, sockets, firewall) and DNS/TLS records.                       *)
LineKinds == {"begin", "end", "other", "api", "host", "names"}
NoLines   == [k \in LineKinds |-> 0]

VARIABLES
  session,   \* MonitoringAgent.session: the run of the current session
  created,   \* run directories made so far
  started,   \* MonitoringSession.started, per run
  children,  \* capture programs running for a run
  held,      \* runs whose CaptureManager has the handle of such a program
  files,     \* lines in the files of each run
  layers,    \* lines counted by the layers.json of each run
  text,      \* that file: "whole" (or not there), "empty" or "broken" (text
             \* of two replays, or cut short)
  status,    \* metadata["status"] of each run, "created" when there is none
  sealed,    \* runs with a manifest.json
  pc,        \* where each worker is
  run,       \* the run that a worker's call works on
  seen,      \* the lines a worker's replay has counted
  cancelled, \* the argument of a worker's StopMonitor
  calls      \* calls made so far, other than StartMonitor

vars == <<session, created, started, children, held, files, layers, text,
          status, sealed, pc, run, seen, cancelled, calls>>

StartStates == {"create", "assign", "startCall", "startCapture", "startFlag",
                "startMark"}
StopStates  == {"stopCapture", "stopHost", "stopMeta", "stopReplay",
                "stopLayers", "stopWrite", "stopManifest"}
OtherStates == {"idle", "snapReplay", "snapLayers", "snapWrite", "begin",
                "dut", "recheck", "record", "end"}

(* Type invariant. *)
TypeOK ==
  /\ session \in 0..MaxRuns
  /\ created \in 0..MaxRuns
  /\ started \in [Runs -> BOOLEAN]
  /\ children \in [Runs -> Nat]
  /\ held \subseteq Runs
  /\ files \in [Runs -> [LineKinds -> Nat]]
  /\ layers \in [Runs -> [LineKinds -> Nat]]
  /\ text \in [Runs -> {"whole", "empty", "broken"}]
  /\ status \in [Runs -> {"created", "complete", "cancelled"}]
  /\ sealed \subseteq Runs
  /\ pc \in [Workers -> StartStates \cup StopStates \cup OtherStates]
  /\ run \in [Workers -> 0..MaxRuns]
  /\ seen \in [Workers -> [LineKinds -> Nat]]
  /\ cancelled \in [Workers -> BOOLEAN]
  /\ calls \in 0..MaxCalls

Init ==
  /\ session = None
  /\ created = 0
  /\ started = [r \in Runs |-> FALSE]
  /\ children = [r \in Runs |-> 0]
  /\ held = {}
  /\ files = [r \in Runs |-> NoLines]
  /\ layers = [r \in Runs |-> NoLines]
  /\ text = [r \in Runs |-> "whole"]
  /\ status = [r \in Runs |-> "created"]
  /\ sealed = {}
  /\ pc = [w \in Workers |-> "idle"]
  /\ run = [w \in Workers |-> None]
  /\ seen = [w \in Workers |-> NoLines]
  /\ cancelled = [w \in Workers |-> FALSE]
  /\ calls = 0

Goto(w, label) == pc' = [pc EXCEPT ![w] = label]

(* A worker that is idle keeps nothing of its last call. *)
Return(w) ==
  /\ Goto(w, "idle")
  /\ run' = [run EXCEPT ![w] = None]
  /\ seen' = [seen EXCEPT ![w] = NoLines]
  /\ cancelled' = [cancelled EXCEPT ![w] = FALSE]

(* self.session and self.session.started *)
Monitoring == session # None /\ started[session]

(* One more line of kind k in the files of run r. *)
Append(r, k) == files' = [files EXCEPT ![r][k] = @ + 1]

(* Lines for the processes, the sockets and, at the end, the firewall. *)
HostSnapshot(r) == Append(r, "host")

(* DNS and TLS records of the endpoints of an action, of those that answer. *)
ProbeEndpoints(r) == Append(r, "names") \/ UNCHANGED files

(* tshark appends the DNS and TLS records of the capture, if it finds any.  *)
Decode(r) == Append(r, "names") \/ UNCHANGED files

(* A call reaches worker w. *)
Call(w) ==
  /\ pc[w] = "idle"
  /\ calls < MaxCalls
  /\ calls' = calls + 1

results == <<layers, text>>
bundle == <<files, results, status, sealed>>
captures == <<children, held>>

-----------------------------------------------------------------------------
(* StartMonitor: MonitoringAgent.start, then MonitoringSession.start. *)

(* Without a running session; otherwise RuntimeError and no effect. *)
StartCheck(w) ==
  /\ w \in Controllers /\ pc[w] = "idle" /\ ~Monitoring
  /\ Goto(w, "create")
  /\ UNCHANGED <<session, created, started, captures, bundle, run, seen,
                 cancelled, calls>>

(* The run directory, its metadata.json and its empty JSON-lines files. *)
StartCreate(w) ==
  /\ pc[w] = "create" /\ created < MaxRuns
  /\ created' = created + 1
  /\ run' = [run EXCEPT ![w] = created + 1]
  /\ Goto(w, "assign")
  /\ UNCHANGED <<session, started, captures, bundle, seen, cancelled, calls>>

StartAssign(w) ==
  /\ pc[w] = "assign"
  /\ session' = run[w]
  /\ Goto(w, "startCall")
  /\ UNCHANGED <<created, started, captures, bundle, run, seen, cancelled, calls>>

(* `self.session.start()` reads the current session again. *)
StartCall(w) ==
  /\ pc[w] = "startCall"
  /\ run' = [run EXCEPT ![w] = session]
  /\ Goto(w, "startCapture")
  /\ UNCHANGED <<session, created, started, captures, bundle, seen, cancelled, calls>>

(* capture.start(): a second call on the same manager replaces its handle. *)
StartCapture(w) ==
  /\ pc[w] = "startCapture"
  /\ children' = [children EXCEPT ![run[w]] = @ + 1]
  /\ held' = held \cup {run[w]}
  /\ Goto(w, "startFlag")
  /\ UNCHANGED <<session, created, started, bundle, run, seen, cancelled, calls>>

StartRaises(w) ==
  /\ pc[w] = "startCapture" /\ "start" \in Faults
  /\ Return(w)
  /\ UNCHANGED <<session, created, started, captures, bundle, calls>>

StartFlag(w) ==
  /\ pc[w] = "startFlag"
  /\ started' = [started EXCEPT ![run[w]] = TRUE]
  /\ Goto(w, "startMark")
  /\ UNCHANGED <<session, created, captures, bundle, run, seen, cancelled, calls>>

(* Host snapshots and the MONITOR_START event. *)
StartMark(w) ==
  /\ pc[w] = "startMark"
  /\ files' = [files EXCEPT ![run[w]]["host"] = @ + 1, ![run[w]]["other"] = @ + 1]
  /\ Return(w)
  /\ UNCHANGED <<session, created, started, captures, results, status, sealed, calls>>

-----------------------------------------------------------------------------
(* StopMonitor: MonitoringSession.stop on the session that is current when  *)
(* the call comes in.                                                       *)

StopBegin(w) ==
  /\ w \in Controllers /\ session # None /\ Call(w)
  /\ run' = [run EXCEPT ![w] = session]
  /\ \E c \in BOOLEAN : cancelled' = [cancelled EXCEPT ![w] = c]
  /\ \/ /\ started[session]
        /\ Append(session, "other")
        /\ Goto(w, "stopCapture")
     \/ /\ ~started[session]
        /\ UNCHANGED files
        /\ Goto(w, "stopMeta")
  /\ UNCHANGED <<session, created, started, captures, results, status, sealed, seen>>

EndHeld_NoCheck(r) ==  \* mutant: the handle may have been dropped already
  /\ children' = [children EXCEPT ![r] = @ - 1]
  /\ held' = held \ {r}

(* The manager stops the program it has a handle of, if it has one. *)
EndHeld(r) ==
  /\ children' = [children EXCEPT ![r] = IF r \in held THEN @ - 1 ELSE @]
  /\ held' = held \ {r}

StopCapture(w) ==
  /\ pc[w] = "stopCapture"
  /\ EndHeld(run[w])
  /\ Goto(w, "stopHost")
  /\ UNCHANGED <<session, created, started, bundle, run, seen, cancelled, calls>>

StopRaises_ClearsFlag(w) ==  \* mutant: `finally: self.started = False`
  /\ pc[w] = "stopCapture" /\ "stop" \in Faults
  /\ EndHeld(run[w]) \/ UNCHANGED captures
  /\ started' = [started EXCEPT ![run[w]] = FALSE]
  /\ Return(w)
  /\ UNCHANGED <<session, created, bundle, calls>>

StopRaises_Swallowed(w) ==  \* mutant: the exception is caught and stop goes on
  /\ pc[w] = "stopCapture" /\ "stop" \in Faults
  /\ EndHeld(run[w]) \/ UNCHANGED captures
  /\ Goto(w, "stopHost")
  /\ UNCHANGED <<session, created, started, bundle, run, seen, cancelled, calls>>

(* It raises: the program did not exit in time, or it did and publishing    *)
(* the packets failed.                                                      *)
StopRaises(w) ==
  /\ pc[w] = "stopCapture" /\ "stop" \in Faults
  /\ EndHeld(run[w]) \/ UNCHANGED captures
  /\ Return(w)
  /\ UNCHANGED <<session, created, started, bundle, calls>>

StopHost(w) ==
  /\ pc[w] = "stopHost"
  /\ HostSnapshot(run[w])
  /\ started' = [started EXCEPT ![run[w]] = FALSE]
  /\ Goto(w, "stopMeta")
  /\ UNCHANGED <<session, created, captures, results, status, sealed, run, seen,
                 cancelled, calls>>

StopMeta_SkipsCancelled(w) ==  \* mutant: a cancelled run is not replayed and sealed
  /\ pc[w] = "stopMeta"
  /\ status' = [status EXCEPT ![run[w]] = IF cancelled[w] THEN "cancelled" ELSE "complete"]
  /\ \/ cancelled[w] /\ Return(w)
     \/ ~cancelled[w] /\ Goto(w, "stopReplay") /\ UNCHANGED <<run, seen, cancelled>>
  /\ UNCHANGED <<session, created, started, captures, files, results, sealed, calls>>

StopMeta(w) ==
  /\ pc[w] = "stopMeta"
  /\ status' = [status EXCEPT ![run[w]] = IF cancelled[w] THEN "cancelled" ELSE "complete"]
  /\ Goto(w, "stopReplay")
  /\ UNCHANGED <<session, created, started, captures, files, results, sealed,
                 run, seen, cancelled, calls>>

StopManifest(w) ==
  /\ pc[w] = "stopManifest"
  /\ sealed' = sealed \cup {run[w]}
  /\ Return(w)
  /\ UNCHANGED <<session, created, started, captures, files, results, status, calls>>

-----------------------------------------------------------------------------
(* SnapshotMonitor, MarkEvent and replay_run. *)

(* capture.snapshot() is in module CaptureManager. *)
SnapshotBegin(w) ==
  /\ session # None /\ Call(w)
  /\ run' = [run EXCEPT ![w] = session]
  /\ Goto(w, "snapReplay")
  /\ UNCHANGED <<session, created, started, captures, bundle, seen, cancelled>>

MarkEvent(w) ==
  /\ session # None /\ Call(w)
  /\ Append(session, "other")
  /\ UNCHANGED <<session, created, started, captures, results, status, sealed,
                 pc, run, seen, cancelled>>

(* The capture is decoded; then the lines of every layer are counted. *)
ReplayCount(w) ==
  /\ pc[w] \in {"stopReplay", "snapReplay"}
  /\ Decode(run[w])
  /\ seen' = [seen EXCEPT ![w] = files'[run[w]]]
  /\ Goto(w, IF pc[w] = "stopReplay" THEN "stopLayers" ELSE "snapLayers")
  /\ UNCHANGED <<session, created, started, captures, results, status, sealed,
                 run, cancelled, calls>>

(* Nothing is written by a replay that raises but what tshark has appended. *)
ReplayRaises(w) ==
  /\ pc[w] \in {"stopReplay", "snapReplay"} /\ "replay" \in Faults
  /\ Decode(run[w])
  /\ Return(w)
  /\ UNCHANGED <<session, created, started, captures, results, status, sealed, calls>>

(* The results are rewritten in place: `write_text` truncates the file ... *)
ReplayOpen(w) ==
  /\ pc[w] \in {"stopLayers", "snapLayers"}
  /\ text' = [text EXCEPT ![run[w]] = "empty"]
  /\ Goto(w, IF pc[w] = "stopLayers" THEN "stopWrite" ELSE "snapWrite")
  /\ UNCHANGED <<session, created, started, captures, files, layers, status,
                 sealed, run, seen, cancelled, calls>>

ReplayWrite_KeepsFirst(w) ==  \* mutant: an existing layers.json is kept
  /\ pc[w] \in {"stopWrite", "snapWrite"}
  /\ layers' = [layers EXCEPT ![run[w]] = IF @ = NoLines THEN seen[w] ELSE @]
  /\ text' = [text EXCEPT ![run[w]] = "whole"]
  /\ \/ pc[w] = "stopWrite" /\ Goto(w, "stopManifest") /\ UNCHANGED <<run, seen, cancelled>>
     \/ pc[w] = "snapWrite" /\ Return(w)
  /\ UNCHANGED <<session, created, started, captures, files, status, sealed, calls>>

(* ... and writes from its beginning.  When another replay of the run has   *)
(* written in between, the end of its text may be left behind ours.         *)
ReplayWrite(w) ==
  /\ pc[w] \in {"stopWrite", "snapWrite"}
  /\ layers' = [layers EXCEPT ![run[w]] = seen[w]]
  /\ \/ text' = [text EXCEPT ![run[w]] = "whole"]
     \/ /\ text[run[w]] = "broken" \/ (text[run[w]] = "whole" /\ layers[run[w]] # seen[w])
        /\ text' = [text EXCEPT ![run[w]] = "broken"]
  /\ \/ pc[w] = "stopWrite" /\ Goto(w, "stopManifest") /\ UNCHANGED <<run, seen, cancelled>>
     \/ pc[w] = "snapWrite" /\ Return(w)
  /\ UNCHANGED <<session, created, started, captures, files, status, sealed, calls>>

ReplayWriteFails_Swallowed(w) ==  \* mutant: the failure is caught, stop goes on
  /\ pc[w] \in {"stopWrite", "snapWrite"} /\ "write" \in Faults
  /\ text' = [text EXCEPT ![run[w]] = "broken"]
  /\ \/ pc[w] = "stopWrite" /\ Goto(w, "stopManifest") /\ UNCHANGED <<run, seen, cancelled>>
     \/ pc[w] = "snapWrite" /\ Return(w)
  /\ UNCHANGED <<session, created, started, captures, files, layers, status, sealed, calls>>

(* The write fails midway and leaves a part of the text, or none of it. *)
ReplayWriteFails(w) ==
  /\ pc[w] \in {"stopWrite", "snapWrite"} /\ "write" \in Faults
  /\ \E left \in {text[run[w]], "broken"} : text' = [text EXCEPT ![run[w]] = left]
  /\ Return(w)
  /\ UNCHANGED <<session, created, started, captures, files, layers, status, sealed, calls>>

-----------------------------------------------------------------------------
(* Execute.  Every access goes to the session that is current at that time. *)

ExecuteCheck(w) ==
  /\ Call(w)
  /\ Goto(w, IF Monitoring THEN "begin" ELSE "dut")
  /\ UNCHANGED <<session, created, started, captures, bundle, run, seen, cancelled>>

ExecuteMark(w) ==
  /\ pc[w] = "begin"
  /\ Append(session, "begin")
  /\ Goto(w, "dut")
  /\ UNCHANGED <<session, created, started, captures, results, status, sealed,
                 run, seen, cancelled, calls>>

(* DutSimulator.execute returns a result or raises. *)
ExecuteDut(w) ==
  /\ pc[w] = "dut"
  /\ \/ Goto(w, "recheck")
     \/ "dut" \in Faults /\ Goto(w, "idle")
  /\ UNCHANGED <<session, created, started, captures, bundle, run, seen,
                 cancelled, calls>>

ExecuteRecheck_AnySession(w) ==  \* mutant: a stopped session gets the result too
  /\ pc[w] = "recheck"
  /\ \/ /\ session # None
        /\ ProbeEndpoints(session)
        /\ Goto(w, "record")
     \/ /\ session = None
        /\ UNCHANGED files
        /\ Goto(w, "idle")
  /\ UNCHANGED <<session, created, started, captures, results, status, sealed,
                 run, seen, cancelled, calls>>

(* Still monitoring?  Then the endpoints of the action are probed. *)
ExecuteRecheck(w) ==
  /\ pc[w] = "recheck"
  /\ \/ /\ Monitoring
        /\ ProbeEndpoints(session)
        /\ Goto(w, "record")
     \/ /\ ~Monitoring
        /\ UNCHANGED files
        /\ Goto(w, "idle")
  /\ UNCHANGED <<session, created, started, captures, results, status, sealed,
                 run, seen, cancelled, calls>>

ExecuteRecord(w) ==
  /\ pc[w] = "record"
  /\ Append(session, "api")
  /\ Goto(w, "end")
  /\ UNCHANGED <<session, created, started, captures, results, status, sealed,
                 run, seen, cancelled, calls>>

ExecuteEnd(w) ==
  /\ pc[w] = "end"
  /\ Append(session, "end")
  /\ Return(w)
  /\ UNCHANGED <<session, created, started, captures, results, status, sealed, calls>>

-----------------------------------------------------------------------------
Restart_KeepsSession ==  \* mutant: the last session is read back
  /\ "restart" \in Faults
  /\ started' = [r \in Runs |-> FALSE]
  /\ held' = {}
  /\ pc' = [w \in Workers |-> "idle"]
  /\ run' = [w \in Workers |-> None]
  /\ seen' = [w \in Workers |-> NoLines]
  /\ cancelled' = [w \in Workers |-> FALSE]
  /\ UNCHANGED <<session, created, children, bundle, calls>>

(* The agent process dies and is started again.  The run directories and    *)
(* the capture programs outlive it; no session is read back.                *)
Restart ==
  /\ "restart" \in Faults
  /\ session' = None
  /\ started' = [r \in Runs |-> FALSE]
  /\ held' = {}
  /\ pc' = [w \in Workers |-> "idle"]
  /\ run' = [w \in Workers |-> None]
  /\ seen' = [w \in Workers |-> NoLines]
  /\ cancelled' = [w \in Workers |-> FALSE]
  /\ UNCHANGED <<created, children, bundle, calls>>

StartMonitor(w) ==
  \/ StartCheck(w) \/ StartCreate(w) \/ StartAssign(w) \/ StartCall(w)
  \/ StartCapture(w) \/ StartRaises(w) \/ StartFlag(w) \/ StartMark(w)

StopMonitor(w) ==
  \/ StopBegin(w) \/ StopCapture(w) \/ StopRaises(w) \/ StopHost(w)
  \/ StopMeta(w) \/ StopManifest(w)

Replay(w) ==
  \/ ReplayCount(w) \/ ReplayRaises(w) \/ ReplayOpen(w)
  \/ ReplayWrite(w) \/ ReplayWriteFails(w)

Execute(w) ==
  \/ ExecuteCheck(w) \/ ExecuteMark(w) \/ ExecuteDut(w)
  \/ ExecuteRecheck(w) \/ ExecuteRecord(w) \/ ExecuteEnd(w)

Next ==
  \/ \E w \in Workers :
       \/ StartMonitor(w) \/ StopMonitor(w) \/ Replay(w) \/ Execute(w)
       \/ SnapshotBegin(w) \/ MarkEvent(w)
  \/ Restart

Spec == Init /\ [][Next]_vars

-----------------------------------------------------------------------------
(* Properties. *)

Quiet == \A w \in Workers : pc[w] = "idle"

(* One capture at a time, and none out of reach: a capture program only     *)
(* runs for the current session, whose manager can stop it (agent.py:114,   *)
(* 61-69).  It holds through failing starts and stops as long as one        *)
(* controller starts and stops runs, whatever the other workers do.         *)
NoOrphanCapture ==
  \A r \in Runs : children[r] > 0 => r = session /\ r \in held /\ children[r] = 1

(* "closes the run" (docs/architecture.md:42): a run whose metadata says    *)
(* complete or cancelled is not being captured any more, nor is it after a  *)
(* restart of the agent, which leaves the runs it forgets open.             *)
FinishedNotCapturing ==
  \A r \in Runs : status[r] # "created" => children[r] = 0

(* A run that was finished is sealed once nobody is at work, although a     *)
(* later run may have become the current one meanwhile (agent.py:70-74).    *)
FinishedIsSealed ==
  Quiet => \A r \in Runs : status[r] # "created" => r \in sealed

(* "replay it into normalized flows and layer data [...] again when the run *)
(* is finalized" (docs/methodology.md:10-11): the layers.json that a        *)
(* manifest seals is whole and counts every line of the bundle, also when   *)
(* earlier stops and snapshots have left it cut short (replay.py:35).       *)
LayersSealed ==
  [][\A w \in Workers : StopManifest(w) =>
       layers[run[w]] = files[run[w]] /\ text[run[w]] = "whole"]_vars

(* The checksums are those of the actions' evidence (agent.py:88-102): the  *)
(* markers and results of a sealed run do not change any more, although the *)
(* session of the run stays the current one and actions keep coming in.     *)
SealedActions ==
  [][\A r \in sealed, k \in {"begin", "end", "api"} :
       files'[r][k] = files[r][k]]_vars

(* "gRPC actions are recorded in api-results.jsonl and receive automatic    *)
(* API_CALL_BEGIN/API_CALL_END markers" (docs/architecture.md:36-37): in    *)
(* every run, however it failed, no end marker without a result and no      *)
(* result without a begin marker.  The handler looks at the session twice   *)
(* (grpc_sdk.py:81, 87), so it takes that no start or stop comes between.   *)
ActionsBracketed ==
  \A r \in Runs : /\ files[r]["end"] <= files[r]["api"]
                  /\ files[r]["api"] <= files[r]["begin"]

(* The agent implements RunLifecycle: a run is captured once, one run at a  *)
(* time, and finished and sealed only afterwards.  start leaves a host      *)
(* snapshot in every run that it has begun to capture.                      *)
Lifecycle == INSTANCE RunLifecycle WITH
  fresh    <- {r \in Runs : children[r] = 0 /\ files[r]["host"] = 0},
  captured <- {r \in Runs : children[r] > 0},
  finished <- {r \in Runs : status[r] # "created"},
  sealed   <- sealed

ImplementsLifecycle == Lifecycle!Spec
=============================================================================
