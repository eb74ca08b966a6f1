----------------------- MODULE MonitoringAgent_proofs -----------------------
(* Theorems about MonitoringAgent, for any number of workers, runs and      *)
(* calls.                                                                   *)
EXTENDS MonitoringAgent, TLAPS

-----------------------------------------------------------------------------
(* Type correctness, whatever calls overlap.  That a capture is never ended *)
(* twice needs BusyInv: a handle stands for a running program.              *)

RunStates == {"assign", "startCapture", "startFlag", "startMark"}
               \cup StopStates \cup {"snapReplay", "snapLayers", "snapWrite"}

BusyInv ==
  /\ \A w \in Workers : pc[w] \in RunStates => run[w] # None
  /\ \A w \in Workers :
       pc[w] \in {"startCall", "begin", "record", "end"} => session # None
  /\ \A r \in held : children[r] > 0

TypeInv == TypeOK /\ BusyInv

LEMMA LineFacts ==
  /\ {"begin", "end", "other", "api", "host", "names"} \subseteq LineKinds
  /\ NoLines \in [LineKinds -> Nat]
BY DEF LineKinds, NoLines

LEMMA AppendType ==
  ASSUME TypeOK, NEW r \in Runs, NEW k \in LineKinds, Append(r, k)
  PROVE  files' \in [Runs -> [LineKinds -> Nat]]
BY DEF TypeOK, Append

LEMMA ReturnType ==
  ASSUME TypeOK, NEW w \in Workers, Return(w)
  PROVE  /\ pc' \in [Workers -> StartStates \cup StopStates \cup OtherStates]
         /\ run' \in [Workers -> 0..MaxRuns]
         /\ seen' \in [Workers -> [LineKinds -> Nat]]
         /\ cancelled' \in [Workers -> BOOLEAN]
         /\ \A v \in Workers : pc'[v] = IF v = w THEN "idle" ELSE pc[v]
         /\ \A v \in Workers : v # w => run'[v] = run[v]
<1> USE AgentAssumption, LineFacts DEF TypeOK, Return, Goto, None, OtherStates
<1>1. pc' \in [Workers -> StartStates \cup StopStates \cup OtherStates]
  OBVIOUS
<1>2. run' \in [Workers -> 0..MaxRuns]
  OBVIOUS
<1>3. seen' \in [Workers -> [LineKinds -> Nat]]
  OBVIOUS
<1> QED
  BY <1>1, <1>2, <1>3

LEMMA RunKnown ==
  ASSUME TypeInv, NEW w \in Workers, pc[w] \in RunStates
  PROVE  run[w] \in Runs
BY AgentAssumption DEF TypeInv, TypeOK, BusyInv, Runs, None

LEMMA SessionKnown ==
  ASSUME TypeInv, session # None
  PROVE  session \in Runs
BY AgentAssumption DEF TypeInv, TypeOK, Runs, None

LEMMA TypeStep == TypeInv /\ [Next]_vars => TypeInv'
<1> USE AgentAssumption, LineFacts DEF TypeInv, captures, results, bundle
<1> SUFFICES ASSUME TypeInv, [Next]_vars PROVE TypeInv'
  OBVIOUS
<1>1. ASSUME NEW w \in Workers, StartMonitor(w) PROVE TypeInv'
  <2>1. CASE StartCheck(w)
    BY <2>1
    DEF StartCheck, TypeOK, BusyInv, Goto, RunStates, StartStates, StopStates,
        OtherStates, Runs, None
  <2>2. CASE StartCreate(w)
    <3> USE <2>2 DEF StartCreate
    <3>1. TypeOK'
      BY DEF TypeOK, Goto, StartStates
    <3>2. BusyInv'
      BY DEF TypeOK, BusyInv, Goto, RunStates, StopStates, None
    <3> QED
      BY <3>1, <3>2
  <2>3. CASE StartAssign(w)
    BY <2>3
    DEF StartAssign, TypeOK, BusyInv, Goto, RunStates, StartStates, StopStates,
        OtherStates, Runs, None
  <2>4. CASE StartCall(w)
    BY <2>4
    DEF StartCall, TypeOK, BusyInv, Goto, RunStates, StartStates, StopStates,
        OtherStates, Runs, None
  <2>5. CASE StartCapture(w)
    <3> USE <2>5 DEF StartCapture
    <3>1. run[w] \in Runs
      BY RunKnown DEF RunStates, StopStates
    <3>2. TypeOK'
      BY <3>1
      DEF TypeOK, Goto, StartStates, StopStates, OtherStates
    <3>3. BusyInv'
      BY <3>1
      DEF TypeOK, BusyInv, Goto, RunStates, StopStates
    <3> QED
      BY <3>2, <3>3
  <2>6. CASE StartRaises(w)
    BY <2>6, ReturnType
    DEF StartRaises, TypeOK, BusyInv, Goto, RunStates, StartStates, StopStates,
        OtherStates, Runs, None
  <2>7. CASE StartFlag(w)
    BY <2>7
    DEF StartFlag, TypeOK, BusyInv, Goto, RunStates, StartStates, StopStates,
        OtherStates, Runs, None
  <2>8. CASE StartMark(w)
    <3> USE <2>8 DEF StartMark
    <3>1. run[w] \in Runs
      BY RunKnown DEF RunStates, StopStates
    <3>2. files' \in [Runs -> [LineKinds -> Nat]]
      BY <3>1, AppendType DEF TypeOK
    <3>3. TypeOK'
      BY <3>1, <3>2, ReturnType
      DEF TypeOK, Goto, StartStates, StopStates, OtherStates
    <3>4. BusyInv'
      BY <3>1, <3>2, ReturnType
      DEF TypeOK, BusyInv, Goto, RunStates, StopStates
    <3> QED
      BY <3>3, <3>4
  <2> QED
    BY <1>1, <2>1, <2>2, <2>3, <2>4, <2>5, <2>6, <2>7, <2>8 DEF StartMonitor
<1>2. ASSUME NEW w \in Workers, StopMonitor(w) PROVE TypeInv'
  <2>1. CASE StopBegin(w)
    <3> USE <2>1 DEF StopBegin, Call
    <3>1. session \in Runs
      BY SessionKnown
    <3>2. files' \in [Runs -> [LineKinds -> Nat]]
      BY <3>1, AppendType DEF TypeOK
    <3>3. TypeOK'
      <4>1. pc' = [pc EXCEPT ![w] = "stopCapture"] \/ pc' = [pc EXCEPT ![w] = "stopMeta"]
        BY DEF Goto
      <4>2. pc' \in [Workers -> StartStates \cup StopStates \cup OtherStates]
        BY <4>1 DEF TypeOK, StopStates
      <4>3. run' \in [Workers -> 0..MaxRuns]
        BY <3>1 DEF TypeOK
      <4>4. cancelled' \in [Workers -> BOOLEAN]
        BY DEF TypeOK
      <4> QED
        BY <3>2, <4>2, <4>3, <4>4 DEF TypeOK
    <3>4. BusyInv'
      BY <3>1, <3>2
      DEF TypeOK, BusyInv, Goto, RunStates, StopStates
    <3> QED
      BY <3>3, <3>4
  <2>2. CASE StopCapture(w)
    <3> USE <2>2 DEF StopCapture, EndHeld
    <3>1. run[w] \in Runs
      BY RunKnown DEF RunStates, StopStates
    <3>2. children' \in [Runs -> Nat]
      BY <3>1 DEF TypeOK, BusyInv
    <3>3. TypeOK'
      BY <3>1, <3>2
      DEF TypeOK, Goto, StartStates, StopStates, OtherStates
    <3>4. BusyInv'
      BY <3>1, <3>2
      DEF TypeOK, BusyInv, Goto, RunStates, StopStates
    <3> QED
      BY <3>3, <3>4
  <2>3. CASE StopRaises(w)
    <3> USE <2>3 DEF StopRaises, EndHeld
    <3>1. run[w] \in Runs
      BY RunKnown DEF RunStates, StopStates
    <3>2. children' \in [Runs -> Nat]
      <4>1. CASE EndHeld(run[w])
        BY <3>1, <4>1 DEF TypeOK, BusyInv
      <4>2. CASE UNCHANGED captures
        BY <4>2 DEF TypeOK
      <4> QED
        BY <4>1, <4>2
    <3>3. TypeOK'
      BY <3>1, <3>2, ReturnType
      DEF TypeOK, Goto, StartStates, StopStates, OtherStates
    <3>4. BusyInv'
      BY <3>1, <3>2, ReturnType
      DEF TypeOK, BusyInv, Goto, RunStates, StopStates
    <3> QED
      BY <3>3, <3>4
  <2>4. CASE StopHost(w)
    <3> USE <2>4 DEF StopHost, HostSnapshot
    <3>1. run[w] \in Runs
      BY RunKnown DEF RunStates, StopStates
    <3>2. files' \in [Runs -> [LineKinds -> Nat]]
      BY <3>1, AppendType DEF TypeOK
    <3>3. TypeOK'
      BY <3>1, <3>2
      DEF TypeOK, Goto, StartStates, StopStates, OtherStates
    <3>4. BusyInv'
      BY <3>1, <3>2
      DEF TypeOK, BusyInv, Goto, RunStates, StopStates
    <3> QED
      BY <3>3, <3>4
  <2>5. CASE StopMeta(w)
    BY <2>5
    DEF StopMeta, TypeOK, BusyInv, Goto, RunStates, StartStates, StopStates,
        OtherStates, Runs, None
  <2>6. CASE StopManifest(w)
    <3> USE <2>6 DEF StopManifest
    <3>1. run[w] \in Runs
      BY RunKnown DEF RunStates, StopStates
    <3>2. TypeOK'
      BY <3>1, ReturnType
      DEF TypeOK, Goto, StartStates, StopStates, OtherStates
    <3>3. BusyInv'
      BY <3>1, ReturnType
      DEF TypeOK, BusyInv, Goto, RunStates, StopStates
    <3> QED
      BY <3>2, <3>3
  <2> QED
    BY <1>2, <2>1, <2>2, <2>3, <2>4, <2>5, <2>6 DEF StopMonitor
<1>3. ASSUME NEW w \in Workers, Replay(w) PROVE TypeInv'
  <2>1. CASE ReplayCount(w)
    <3> USE <2>1 DEF ReplayCount, Decode
    <3>1. run[w] \in Runs
      BY RunKnown DEF RunStates, StopStates
    <3>2. files' \in [Runs -> [LineKinds -> Nat]]
      BY <3>1, AppendType DEF TypeOK
    <3>3. TypeOK'
      BY <3>1, <3>2
      DEF TypeOK, Goto, StartStates, StopStates, OtherStates
    <3>4. BusyInv'
      BY <3>1, <3>2
      DEF TypeOK, BusyInv, Goto, RunStates, StopStates
    <3> QED
      BY <3>3, <3>4
  <2>2. CASE ReplayRaises(w)
    <3> USE <2>2 DEF ReplayRaises, Decode
    <3>1. run[w] \in Runs
      BY RunKnown DEF RunStates, StopStates
    <3>2. files' \in [Runs -> [LineKinds -> Nat]]
      BY <3>1, AppendType DEF TypeOK
    <3>3. TypeOK'
      BY <3>1, <3>2, ReturnType
      DEF TypeOK, Goto, StartStates, StopStates, OtherStates
    <3>4. BusyInv'
      BY <3>1, <3>2, ReturnType
      DEF TypeOK, BusyInv, Goto, RunStates, StopStates
    <3> QED
      BY <3>3, <3>4
  <2>3. CASE ReplayOpen(w)
    <3> USE <2>3 DEF ReplayOpen
    <3>1. TypeOK'
      BY DEF TypeOK, Goto, StopStates, OtherStates
    <3>2. BusyInv'
      BY DEF TypeOK, BusyInv, Goto, RunStates, StopStates
    <3> QED
      BY <3>1, <3>2
  <2>4. CASE ReplayWrite(w)
    <3> USE <2>4, ReturnType DEF ReplayWrite
    <3>1. run[w] \in Runs
      BY RunKnown DEF RunStates, StopStates
    <3>2. /\ layers' \in [Runs -> [LineKinds -> Nat]]
          /\ text' \in [Runs -> {"whole", "empty", "broken"}]
      BY <3>1 DEF TypeOK
    <3>3. /\ pc' \in [Workers -> StartStates \cup StopStates \cup OtherStates]
          /\ run' \in [Workers -> 0..MaxRuns]
          /\ seen' \in [Workers -> [LineKinds -> Nat]]
          /\ cancelled' \in [Workers -> BOOLEAN]
      <4>1. CASE pc[w] = "stopWrite"
        <5>1. /\ pc' = [pc EXCEPT ![w] = "stopManifest"]
              /\ UNCHANGED <<run, seen, cancelled>>
          BY <4>1 DEF Goto
        <5> HIDE <2>4 DEF ReplayWrite
        <5> QED
          BY <5>1 DEF TypeOK, StopStates
      <4>2. CASE pc[w] = "snapWrite"
        BY <4>2
      <4> QED
        BY <4>1, <4>2
    <3>4. TypeOK'
      BY <3>2, <3>3 DEF TypeOK
    <3>5. BusyInv'
      BY ZenonT(60) DEF TypeOK, BusyInv, Goto, RunStates, StopStates
    <3> QED
      BY <3>4, <3>5
  <2>5. CASE ReplayWriteFails(w)
    <3> USE <2>5, ReturnType DEF ReplayWriteFails
    <3>1. text' \in [Runs -> {"whole", "empty", "broken"}]
      <4>1. run[w] \in Runs
        BY RunKnown DEF RunStates, StopStates
      <4>2. text \in [Runs -> {"whole", "empty", "broken"}]
        BY DEF TypeOK
      <4>3. \/ text' = [text EXCEPT ![run[w]] = text[run[w]]]
            \/ text' = [text EXCEPT ![run[w]] = "broken"]
        OBVIOUS
      <4> HIDE <2>5 DEF ReplayWriteFails
      <4> QED
        BY <4>1, <4>2, <4>3
    <3>2. TypeOK'
      BY <3>1 DEF TypeOK, Goto, StopStates, OtherStates
    <3>3. BusyInv'
      BY DEF TypeOK, BusyInv, Goto, RunStates, StopStates
    <3> QED
      BY <3>2, <3>3
  <2> QED
    BY <1>3, <2>1, <2>2, <2>3, <2>4, <2>5 DEF Replay
<1>4. ASSUME NEW w \in Workers, Execute(w) PROVE TypeInv'
  <2>1. CASE ExecuteCheck(w)
    <3> USE <2>1 DEF ExecuteCheck, Call
    <3>2. TypeOK'
      BY DEF TypeOK, Goto, StartStates, StopStates, OtherStates
    <3>3. BusyInv'
      BY DEF TypeOK, BusyInv, Goto, RunStates, StopStates, Monitoring
    <3> QED
      BY <3>2, <3>3
  <2>2. CASE ExecuteMark(w)
    <3> USE <2>2 DEF ExecuteMark
    <3>1. session \in Runs
      BY SessionKnown DEF BusyInv
    <3>2. files' \in [Runs -> [LineKinds -> Nat]]
      BY <3>1, AppendType DEF TypeOK
    <3>3. TypeOK'
      BY <3>1, <3>2
      DEF TypeOK, Goto, StartStates, StopStates, OtherStates
    <3>4. BusyInv'
      BY <3>1, <3>2
      DEF TypeOK, BusyInv, Goto, RunStates, StopStates
    <3> QED
      BY <3>3, <3>4
  <2>3. CASE ExecuteDut(w)
    <3> USE <2>3 DEF ExecuteDut
    <3>1. TypeOK'
      <4>1. pc' = [pc EXCEPT ![w] = "recheck"] \/ pc' = [pc EXCEPT ![w] = "idle"]
        BY DEF Goto
      <4>2. pc' \in [Workers -> StartStates \cup StopStates \cup OtherStates]
        BY <4>1 DEF TypeOK, OtherStates
      <4> QED
        BY <4>2 DEF TypeOK
    <3>2. BusyInv'
      BY DEF TypeOK, BusyInv, Goto, RunStates, StopStates
    <3> QED
      BY <3>1, <3>2
  <2>4. CASE ExecuteRecheck(w)
    <3> USE <2>4 DEF ExecuteRecheck, ProbeEndpoints
    <3>1. Monitoring => session \in Runs
      BY SessionKnown DEF Monitoring
    <3>2. files' \in [Runs -> [LineKinds -> Nat]]
      BY <3>1, AppendType DEF TypeOK
    <3>3. TypeOK'
      BY <3>1, <3>2, ReturnType
      DEF TypeOK, Goto, StartStates, StopStates, OtherStates
    <3>4. BusyInv'
      BY <3>1, <3>2, ReturnType
      DEF TypeOK, BusyInv, Goto, RunStates, StopStates, Monitoring
    <3> QED
      BY <3>3, <3>4
  <2>5. CASE ExecuteRecord(w)
    <3> USE <2>5 DEF ExecuteRecord
    <3>1. session \in Runs
      BY SessionKnown DEF BusyInv
    <3>2. files' \in [Runs -> [LineKinds -> Nat]]
      BY <3>1, AppendType DEF TypeOK
    <3>3. TypeOK'
      BY <3>1, <3>2
      DEF TypeOK, Goto, StartStates, StopStates, OtherStates
    <3>4. BusyInv'
      BY <3>1, <3>2
      DEF TypeOK, BusyInv, Goto, RunStates, StopStates
    <3> QED
      BY <3>3, <3>4
  <2>6. CASE ExecuteEnd(w)
    <3> USE <2>6 DEF ExecuteEnd
    <3>1. session \in Runs
      BY SessionKnown DEF BusyInv
    <3>2. files' \in [Runs -> [LineKinds -> Nat]]
      BY <3>1, AppendType DEF TypeOK
    <3>3. TypeOK'
      BY <3>1, <3>2, ReturnType
      DEF TypeOK, Goto, StartStates, StopStates, OtherStates
    <3>4. BusyInv'
      BY <3>1, <3>2, ReturnType
      DEF TypeOK, BusyInv, Goto, RunStates, StopStates
    <3> QED
      BY <3>3, <3>4
  <2> QED
    BY <1>4, <2>1, <2>2, <2>3, <2>4, <2>5, <2>6 DEF Execute
<1>5. ASSUME NEW w \in Workers, SnapshotBegin(w) \/ MarkEvent(w) PROVE TypeInv'
  <2>1. CASE SnapshotBegin(w)
    <3> USE <2>1 DEF SnapshotBegin, Call
    <3>1. session \in Runs
      BY SessionKnown
    <3>2. TypeOK'
      BY <3>1
      DEF TypeOK, Goto, StartStates, StopStates, OtherStates
    <3>3. BusyInv'
      BY <3>1
      DEF TypeOK, BusyInv, Goto, RunStates, StopStates
    <3> QED
      BY <3>2, <3>3
  <2>2. CASE MarkEvent(w)
    <3> USE <2>2 DEF MarkEvent, Call
    <3>1. session \in Runs
      BY SessionKnown
    <3>2. files' \in [Runs -> [LineKinds -> Nat]]
      BY <3>1, AppendType DEF TypeOK
    <3>3. TypeOK'
      BY <3>1, <3>2
      DEF TypeOK, Goto, StartStates, StopStates, OtherStates
    <3>4. BusyInv'
      BY <3>1, <3>2
      DEF TypeOK, BusyInv, Goto, RunStates, StopStates
    <3> QED
      BY <3>3, <3>4
  <2> QED
    BY <1>5, <2>1, <2>2
<1>6. CASE Restart
  BY <1>6 DEF Restart, TypeOK, BusyInv, RunStates, StopStates, OtherStates, None
<1>7. CASE UNCHANGED vars
  BY <1>7 DEF vars, TypeOK, BusyInv
<1> QED
  BY <1>1, <1>2, <1>3, <1>4, <1>5, <1>6, <1>7 DEF Next

LEMMA TypeAndBusy == Spec => []TypeInv
<1>1. Init => TypeInv
  BY AgentAssumption
     DEF Init, TypeInv, TypeOK, BusyInv, RunStates, StartStates, StopStates,
         OtherStates, Runs, LineKinds, NoLines, None
<1> QED
  BY <1>1, TypeStep, PTL DEF Spec

(* The agent's state always has its type; in particular no count of running *)
(* capture programs drops below zero, however many controllers stop a run   *)
(* at the same time (agent.py:60-69, manager.py:79-88).                     *)
THEOREM TypeCorrect == Spec => []TypeOK
<1>1. TypeInv => TypeOK
  BY DEF TypeInv
<1> QED
  BY <1>1, TypeAndBusy, PTL

-----------------------------------------------------------------------------
(* One controller: StartMonitor and StopMonitor calls do not overlap, all   *)
(* other calls may.  The agent is not restarted.                            *)

OneController == \A v, w \in Controllers : v = w
NoRestart     == "restart" \notin Faults

(* Runs that have not become the current session are untouched. *)
FutureInv ==
  \A r \in Runs : r > session =>
    /\ r \notin held /\ r \notin sealed /\ ~started[r]
    /\ status[r] = "created" /\ files[r]["host"] = 0

StartInv(w) ==
  /\ pc[w] = "assign" => run[w] = created /\ run[w] > session
  /\ pc[w] \in {"create", "assign", "startCall", "startCapture"} =>
       \A r \in Runs : children[r] = 0
  /\ pc[w] \in StartStates \ {"startMark"} => \A r \in Runs : ~started[r]
  /\ pc[w] \in {"startCall", "startCapture", "startFlag", "startMark"} =>
       session \in Runs /\ status[session] = "created"
  /\ pc[w] \in {"startCall", "startCapture"} => files[session]["host"] = 0
  /\ pc[w] \in {"startCapture", "startFlag", "startMark"} => run[w] = session
  /\ pc[w] \in {"startFlag", "startMark"} => children[session] > 0

StopInv(w) ==
  /\ pc[w] \in StopStates => run[w] = session /\ session \in Runs
  /\ pc[w] \in StopStates \ {"stopCapture"} => \A r \in Runs : children[r] = 0
  /\ pc[w] \in {"stopCapture", "stopHost"} => files[session]["host"] > 0
  /\ pc[w] \in {"stopReplay", "stopLayers", "stopWrite", "stopManifest"} =>
       status[session] # "created"

RunInv(r) ==
  /\ children[r] > 0 => r = session /\ r \in held /\ children[r] = 1
  /\ started[r] => r = session
  /\ status[r] # "created" => children[r] = 0
  /\ children[r] > 0 /\ ~started[r] => \E w \in Controllers : pc[w] = "startFlag"
  /\ children[r] > 0 /\ files[r]["host"] = 0 =>
       \E w \in Controllers : pc[w] \in {"startFlag", "startMark"}
  /\ started[r] /\ files[r]["host"] = 0 =>
       \E w \in Controllers : pc[w] = "startMark"

LifeInv ==
  /\ session <= created
  /\ \A w \in Workers : pc[w] \in StartStates \cup StopStates => w \in Controllers
  /\ \A w \in Workers : StartInv(w) /\ StopInv(w)
  /\ \A r \in Runs : RunInv(r)
  /\ FutureInv

ControlStates == StartStates \cup StopStates

(* Calls that only add lines other than host snapshots, or replay a bundle, *)
(* leave everything that LifeInv is about alone.                            *)
LEMMA HostLines ==
  ASSUME TypeOK, NEW r \in Runs, NEW k \in LineKinds, Append(r, k)
  PROVE  /\ k # "host" => \A q \in Runs : files'[q]["host"] = files[q]["host"]
         /\ k = "host" => \A q \in Runs :
              files'[q]["host"] = IF q = r THEN files[q]["host"] + 1
                                           ELSE files[q]["host"]
BY LineFacts DEF TypeOK, Append

LEMMA HostNat == TypeOK => \A r \in Runs : files[r]["host"] \in Nat
BY LineFacts DEF TypeOK

LEMMA LifeFrame ==
  ASSUME LifeInv,
         UNCHANGED <<session, created, started, captures, status, sealed>>,
         \A r \in Runs : files'[r]["host"] = files[r]["host"],
         \A v \in Workers :
           \/ pc'[v] = pc[v] /\ (pc[v] \in ControlStates => run'[v] = run[v])
           \/ pc[v] \notin ControlStates /\ pc'[v] \notin ControlStates
  PROVE  LifeInv'
<1> USE DEF captures, ControlStates, StartStates, StopStates
<1>1. \A w \in Workers : pc'[w] \in ControlStates => w \in Controllers /\ pc'[w] = pc[w]
  BY DEF LifeInv
<1>2. \A w \in Workers : StartInv(w)' /\ StopInv(w)'
  BY DEF LifeInv, StartInv, StopInv
<1>3. \A r \in Runs : RunInv(r)'
  BY AgentAssumption DEF LifeInv, RunInv
<1>4. FutureInv'
  BY DEF LifeInv, FutureInv
<1> QED
  BY <1>1, <1>2, <1>3, <1>4 DEF LifeInv

LEMMA FutureFrame ==
  ASSUME FutureInv, session \in Nat, session' = session,
         \A r \in Runs : r > session =>
           /\ r \in held' => r \in held
           /\ r \in sealed' => r \in sealed
           /\ started'[r] = started[r] /\ status'[r] = status[r]
           /\ files'[r]["host"] = files[r]["host"]
  PROVE  FutureInv'
BY DEF FutureInv

(* The controller moves and the others do not. *)
LEMMA LifeBuild ==
  ASSUME OneController, LifeInv, NEW w \in Controllers,
         session' <= created' /\ \A v \in Workers : v # w => pc'[v] = pc[v],
         StartInv(w)' /\ StopInv(w)',
         \A r \in Runs : RunInv(r)',
         FutureInv'
  PROVE  LifeInv'
<1>1. \A v \in Workers : v # w => pc'[v] \notin ControlStates
  BY DEF OneController, LifeInv, ControlStates
<1>2. \A v \in Workers : v # w => StartInv(v)' /\ StopInv(v)'
  BY <1>1 DEF StartInv, StopInv, ControlStates, StartStates, StopStates
<1> QED
  BY <1>1, <1>2 DEF LifeInv, ControlStates

(* The manager of the only captured run ends the only capture. *)
LEMMA EndHeldLast ==
  ASSUME TypeInv, LifeInv, NEW w \in Workers, pc[w] \in StopStates, EndHeld(run[w])
  PROVE  \A q \in Runs : children'[q] = 0
<1>1. run[w] = session /\ session \in Runs
  BY DEF LifeInv, StopInv
<1>2. \A q \in Runs : children[q] > 0 => q = session /\ q \in held /\ children[q] = 1
  BY DEF LifeInv, RunInv
<1> QED
  BY <1>1, <1>2 DEF EndHeld, TypeInv, TypeOK, BusyInv

(* A run without a capture and without the flag says nothing else. *)
LEMMA QuietRuns ==
  ASSUME \A r \in Runs : ~started'[r] /\ children'[r] = 0
  PROVE  \A r \in Runs : RunInv(r)'
BY DEF RunInv

(* One worker moves at a time. *)
LEMMA OthersStay ==
  ASSUME TypeOK, NEW w \in Workers,
         (Goto(w, pc'[w]) /\ UNCHANGED run) \/ Return(w)
  PROVE  \A v \in Workers : v # w => pc'[v] = pc[v] /\ run'[v] = run[v]
<1>1. CASE Goto(w, pc'[w]) /\ UNCHANGED run
  BY <1>1 DEF Goto, TypeOK
<1>2. CASE Return(w)
  BY <1>2, ReturnType
<1> QED
  BY <1>1, <1>2

LEMMA StopLeaves ==
  ASSUME TypeOK, LifeInv, NEW w \in Workers, StopRaises(w) \/ StopManifest(w)
  PROVE  session' <= created' /\ \A v \in Workers : v # w => pc'[v] = pc[v]
<1>1. Return(w) /\ session' = session /\ created' = created
  BY DEF StopRaises, StopManifest
<1> QED
  BY <1>1, OthersStay DEF LifeInv

LEMMA ReplayMoves ==
  ASSUME TypeOK, NEW w \in Workers, Replay(w)
  PROVE  (Goto(w, pc'[w]) /\ UNCHANGED run) \/ Return(w)
<1>1. \A label : Goto(w, label) => Goto(w, pc'[w])
  BY DEF Goto, TypeOK
<1> QED
  BY <1>1 DEF Replay, ReplayCount, ReplayRaises, ReplayOpen, ReplayWrite, ReplayWriteFails

LEMMA ExecuteMoves ==
  ASSUME TypeOK, NEW w \in Workers, Execute(w)
  PROVE  /\ (Goto(w, pc'[w]) /\ UNCHANGED run) \/ Return(w)
         /\ pc[w] \notin ControlStates /\ pc'[w] \notin ControlStates
<1>1. \A label : Goto(w, label) => pc'[w] = label
  BY DEF Goto, TypeOK
<1>2. Return(w) => pc'[w] = "idle"
  BY <1>1 DEF Return
<1>3. pc[w] \in {"idle", "begin", "dut", "recheck", "record", "end"}
  BY DEF Execute, ExecuteCheck, ExecuteMark, ExecuteDut, ExecuteRecheck, ExecuteRecord,
         ExecuteEnd, Call
<1>4. \/ \E label \in {"idle", "begin", "dut", "recheck", "record", "end"} :
           Goto(w, label) /\ UNCHANGED run
      \/ Return(w)
  BY DEF Execute, ExecuteCheck, ExecuteMark, ExecuteDut, ExecuteRecheck, ExecuteRecord, ExecuteEnd
<1>5. pc'[w] \in {"idle", "begin", "dut", "recheck", "record", "end"}
  BY <1>1, <1>2, <1>4
<1>6. (Goto(w, pc'[w]) /\ UNCHANGED run) \/ Return(w)
  BY <1>1, <1>4
<1> QED
  BY <1>3, <1>5, <1>6 DEF ControlStates, StartStates, StopStates

LEMMA LifeStep ==
  ASSUME OneController, NoRestart, TypeInv, LifeInv, [Next]_vars
  PROVE  LifeInv'
<1> USE AgentAssumption
    DEF OneController, NoRestart, TypeInv, TypeOK, Runs, None, captures, results, bundle,
        Goto, Monitoring, ControlStates, StartStates, StopStates
<1>1. ASSUME NEW w \in Workers, StartMonitor(w) PROVE LifeInv'
  <2>0. w \in Controllers /\ \A v \in Workers : v # w => pc[v] \notin ControlStates
    BY <1>1 DEF LifeInv, StartMonitor, StartCheck, StartCreate, StartAssign, StartCall, StartCapture, StartRaises, StartFlag, StartMark
  <2>1. CASE StartCheck(w)
    <3> USE <2>1 DEF StartCheck
    <3>1. StartInv(w)' /\ StopInv(w)'
      <4>1. \A r \in Runs : ~started[r]
        BY DEF LifeInv, RunInv
      <4>2. \A r \in Runs : children[r] = 0
        BY <2>0, <4>1 DEF LifeInv, RunInv
      <4> QED
        BY <4>1, <4>2 DEF StartInv, StopInv
    <3>2. \A r \in Runs : RunInv(r)'
      BY <2>0 DEF LifeInv, StartInv, StopInv, RunInv, FutureInv
    <3>3. FutureInv'
      BY <2>0 DEF LifeInv, StartInv, StopInv, FutureInv
    <3>4. session' <= created' /\ \A v \in Workers : v # w => pc'[v] = pc[v]
      BY <2>0 DEF LifeInv, StartInv
    <3> QED
      BY <2>0, <3>1, <3>2, <3>3, <3>4, LifeBuild
  <2>2. CASE StartCreate(w)
    <3> USE <2>2 DEF StartCreate
    <3>1. StartInv(w)' /\ StopInv(w)'
      BY <2>0 DEF LifeInv, StartInv, StopInv, RunInv, FutureInv
    <3>2. \A r \in Runs : RunInv(r)'
      BY <2>0 DEF LifeInv, StartInv, StopInv, RunInv, FutureInv
    <3>3. FutureInv'
      BY <2>0 DEF LifeInv, StartInv, StopInv, FutureInv
    <3>4. session' <= created' /\ \A v \in Workers : v # w => pc'[v] = pc[v]
      BY <2>0 DEF LifeInv, StartInv
    <3> QED
      BY <2>0, <3>1, <3>2, <3>3, <3>4, LifeBuild
  <2>3. CASE StartAssign(w)
    <3> USE <2>3 DEF StartAssign
    <3>1. StartInv(w)' /\ StopInv(w)'
      BY <2>0 DEF LifeInv, StartInv, StopInv, RunInv, FutureInv
    <3>2. \A r \in Runs : RunInv(r)'
      BY <2>0 DEF LifeInv, StartInv, StopInv, RunInv, FutureInv
    <3>3. FutureInv'
      BY <2>0 DEF LifeInv, StartInv, StopInv, FutureInv
    <3>4. session' <= created' /\ \A v \in Workers : v # w => pc'[v] = pc[v]
      BY <2>0 DEF LifeInv, StartInv
    <3> QED
      BY <2>0, <3>1, <3>2, <3>3, <3>4, LifeBuild
  <2>4. CASE StartCall(w)
    <3> USE <2>4 DEF StartCall
    <3>1. StartInv(w)' /\ StopInv(w)'
      BY <2>0 DEF LifeInv, StartInv, StopInv, RunInv, FutureInv
    <3>2. \A r \in Runs : RunInv(r)'
      BY <2>0 DEF LifeInv, StartInv, StopInv, RunInv, FutureInv
    <3>3. FutureInv'
      BY <2>0 DEF LifeInv, StartInv, StopInv, FutureInv
    <3>4. session' <= created' /\ \A v \in Workers : v # w => pc'[v] = pc[v]
      BY <2>0 DEF LifeInv, StartInv
    <3> QED
      BY <2>0, <3>1, <3>2, <3>3, <3>4, LifeBuild
  <2>5. CASE StartCapture(w)
    <3> USE <2>5 DEF StartCapture
    <3>1. StartInv(w)' /\ StopInv(w)'
      BY <2>0 DEF LifeInv, StartInv, StopInv, RunInv, FutureInv
    <3>2. \A r \in Runs : RunInv(r)'
      BY <2>0 DEF LifeInv, StartInv, StopInv, RunInv, FutureInv
    <3>3. FutureInv'
      BY <2>0 DEF LifeInv, StartInv, StopInv, FutureInv
    <3>4. session' <= created' /\ \A v \in Workers : v # w => pc'[v] = pc[v]
      BY <2>0 DEF LifeInv, StartInv
    <3> QED
      BY <2>0, <3>1, <3>2, <3>3, <3>4, LifeBuild
  <2>6. CASE StartRaises(w)
    <3> USE <2>6 DEF StartRaises
    <3>1. StartInv(w)' /\ StopInv(w)'
      BY <2>0, ReturnType DEF LifeInv, StartInv, StopInv, RunInv, FutureInv
    <3>2. \A r \in Runs : RunInv(r)'
      BY <2>0, ReturnType DEF LifeInv, StartInv, StopInv, RunInv, FutureInv
    <3>3. FutureInv'
      BY <2>0, ReturnType DEF LifeInv, StartInv, StopInv, FutureInv
    <3>4. session' <= created' /\ \A v \in Workers : v # w => pc'[v] = pc[v]
      BY <2>0, ReturnType DEF LifeInv, StartInv
    <3> QED
      BY <2>0, <3>1, <3>2, <3>3, <3>4, LifeBuild
  <2>7. CASE StartFlag(w)
    <3> USE <2>7 DEF StartFlag
    <3>1. StartInv(w)' /\ StopInv(w)'
      BY <2>0 DEF LifeInv, StartInv, StopInv, RunInv, FutureInv
    <3>2. \A r \in Runs : RunInv(r)'
      <4>1. run[w] = session /\ session \in Runs
        BY DEF LifeInv, StartInv
      <4>2. \A r \in Runs : started'[r] <=> started[r] \/ r = session
        BY <4>1
      <4>3. UNCHANGED <<session, children, held, files, status>> /\ pc'[w] = "startMark"
        OBVIOUS
      <4>4. \A r \in Runs : started[r] \/ children[r] > 0 => r = session
        BY DEF LifeInv, RunInv
      <4>5. \A r \in Runs : /\ children[r] > 0 => r \in held /\ children[r] = 1
                            /\ status[r] # "created" => children[r] = 0
        BY DEF LifeInv, RunInv
      <4> HIDE <2>7 DEF StartFlag
      <4> QED
        BY <2>0, <4>2, <4>3, <4>4, <4>5 DEF RunInv
    <3>3. FutureInv'
      BY <2>0 DEF LifeInv, StartInv, StopInv, FutureInv
    <3>4. session' <= created' /\ \A v \in Workers : v # w => pc'[v] = pc[v]
      BY <2>0 DEF LifeInv, StartInv
    <3> QED
      BY <2>0, <3>1, <3>2, <3>3, <3>4, LifeBuild
  <2>8. CASE StartMark(w)
    <3>1. run[w] = session /\ session \in Runs
      BY <2>8 DEF StartMark, LifeInv, StartInv
    <3>2. /\ pc[w] = "startMark"
          /\ UNCHANGED <<session, created, started, captures, status, sealed>>
          /\ \A q \in Runs : files'[q]["host"] =
               IF q = session THEN files[q]["host"] + 1 ELSE files[q]["host"]
      BY <2>8, <3>1, LineFacts DEF StartMark
    <3>3. pc' = [pc EXCEPT ![w] = "idle"]
      BY <2>8 DEF StartMark, Return
    <3>4. StartInv(w)' /\ StopInv(w)'
      BY <3>3 DEF StartInv, StopInv
    <3>5. \A r \in Runs : RunInv(r)'
      <4>1. \A r \in Runs : children[r] > 0 => started[r]
        BY <2>0, <3>2 DEF LifeInv, RunInv
      <4>2. \A r \in Runs : started[r] \/ children[r] > 0 => r = session
        BY DEF LifeInv, RunInv
      <4>3. \A r \in Runs : /\ children[r] > 0 => r \in held /\ children[r] = 1
                            /\ status[r] # "created" => children[r] = 0
        BY DEF LifeInv, RunInv
      <4>4. files[session]["host"] \in Nat
        BY <3>1, HostNat
      <4>5. files'[session]["host"] # 0
        BY <3>1, <3>2, <4>4
      <4> QED
        BY <3>2, <4>1, <4>2, <4>3, <4>5 DEF RunInv
    <3>6. FutureInv'
      BY <3>1, <3>2, FutureFrame DEF LifeInv
    <3> QED
      BY <2>0, <3>2, <3>3, <3>4, <3>5, <3>6, LifeBuild DEF LifeInv
  <2> QED
    BY <1>1, <2>1, <2>2, <2>3, <2>4, <2>5, <2>6, <2>7, <2>8 DEF StartMonitor
<1>2. ASSUME NEW w \in Workers, StopMonitor(w) PROVE LifeInv'
  <2>0. w \in Controllers /\ \A v \in Workers : v # w => pc[v] \notin ControlStates
    BY <1>2 DEF LifeInv, StopMonitor, StopBegin, StopCapture, StopRaises, StopHost, HostSnapshot, StopMeta, StopManifest
  <2>1. CASE StopBegin(w)
    <3>1. session \in Runs /\ pc[w] = "idle"
      BY <2>1, SessionKnown DEF StopBegin, Call
    <3>2. Append(session, "other") => \A q \in Runs : files'[q]["host"] = files[q]["host"]
      BY <3>1, HostLines, LineFacts, ZenonT(60)
    <3>3. /\ UNCHANGED <<session, created, started, captures, status, sealed>>
          /\ run' = [run EXCEPT ![w] = session]
          /\ \/ started[session] /\ pc' = [pc EXCEPT ![w] = "stopCapture"]
             \/ ~started[session] /\ pc' = [pc EXCEPT ![w] = "stopMeta"]
          /\ \A q \in Runs : files'[q]["host"] = files[q]["host"]
      BY <2>1, <3>2 DEF StopBegin, Call
    <3>4. \A v \in Controllers : pc[v] = "idle" \/ pc[v] \notin ControlStates
      BY <2>0, <3>1
    <3>5. \A v \in Controllers : pc[v] \notin {"startFlag", "startMark"}
      BY <3>4
    <3>6. \A r \in Runs : /\ started[r] => r = session /\ files[r]["host"] # 0
                          /\ children[r] > 0 => started[r] /\ files[r]["host"] # 0
      BY <3>5 DEF LifeInv, RunInv
    <3>7. StartInv(w)' /\ StopInv(w)'
      <4>1. started[session] => files[session]["host"] > 0
        BY <3>1, <3>6, HostNat
      <4>2. ~started[session] => \A q \in Runs : children[q] = 0
        BY <3>1, <3>6
      <4> QED
        BY <2>0, <3>1, <3>3, <4>1, <4>2 DEF StartInv, StopInv
    <3>8. \A r \in Runs : RunInv(r)'
      <4>1. \A r \in Runs : /\ children[r] > 0 => r = session /\ r \in held /\ children[r] = 1
                            /\ status[r] # "created" => children[r] = 0
        BY DEF LifeInv, RunInv
      <4> QED
        BY <3>3, <3>6, <4>1 DEF RunInv
    <3>9. FutureInv'
      BY <3>1, <3>3, FutureFrame DEF LifeInv
    <3> QED
      BY <2>0, <3>3, <3>7, <3>8, <3>9, LifeBuild DEF LifeInv
  <2>2. CASE StopCapture(w)
    <3> USE <2>2 DEF StopCapture, EndHeld
    <3>0. \A q \in Runs : children'[q] = 0
      BY EndHeldLast DEF BusyInv
    <3>1. StartInv(w)' /\ StopInv(w)'
      BY <2>0, <3>0 DEF LifeInv, StartInv, StopInv
    <3>2. \A r \in Runs : RunInv(r)'
      BY <2>0, <3>0 DEF LifeInv, StopInv, RunInv
    <3>3. FutureInv'
      BY <2>0 DEF LifeInv, StartInv, StopInv, FutureInv
    <3>4. session' <= created' /\ \A v \in Workers : v # w => pc'[v] = pc[v]
      BY <2>0 DEF LifeInv, StartInv
    <3> QED
      BY <2>0, <3>1, <3>2, <3>3, <3>4, LifeBuild
  <2>3. CASE StopRaises(w)
    <3> USE <2>3 DEF StopRaises, EndHeld
    <3>1. StartInv(w)' /\ StopInv(w)'
      BY <2>0, ReturnType DEF LifeInv, StartInv, StopInv, RunInv, FutureInv
    <3>2. \A r \in Runs : RunInv(r)'
      <4>1. CASE EndHeld(run[w])
        <5>1. \A q \in Runs : children'[q] = 0
          BY <4>1, EndHeldLast DEF BusyInv
        <5> QED
          BY <2>0, <4>1, <5>1, ReturnType, SMTT(60) DEF LifeInv, StopInv, RunInv
      <4>2. CASE UNCHANGED captures
        BY <2>0, <4>2, ReturnType DEF LifeInv, StopInv, RunInv
      <4> QED
        BY <4>1, <4>2
    <3>3. FutureInv'
      BY <2>0, ReturnType DEF LifeInv, StartInv, StopInv, FutureInv
    <3>4. session' <= created' /\ \A v \in Workers : v # w => pc'[v] = pc[v]
      BY <2>3, StopLeaves
    <3> QED
      BY <2>0, <3>1, <3>2, <3>3, <3>4, LifeBuild
  <2>4. CASE StopHost(w)
    <3>1. run[w] = session /\ session \in Runs
      BY <2>4 DEF StopHost, HostSnapshot, LifeInv, StopInv
    <3>2. /\ pc[w] = "stopHost"
          /\ pc' = [pc EXCEPT ![w] = "stopMeta"]
          /\ started' = [started EXCEPT ![session] = FALSE]
          /\ UNCHANGED <<session, created, captures, status, sealed, run>>
      BY <2>4, <3>1 DEF StopHost, HostSnapshot
    <3>3. \A q \in Runs : files'[q]["host"] =
             IF q = session THEN files[q]["host"] + 1 ELSE files[q]["host"]
      BY <2>4, <3>1, HostLines, LineFacts DEF StopHost, HostSnapshot
    <3>4. \A q \in Runs : children[q] = 0
      BY <3>2 DEF LifeInv, StopInv
    <3>5. StartInv(w)' /\ StopInv(w)'
      BY <3>1, <3>2, <3>4 DEF StartInv, StopInv
    <3>6. \A r \in Runs : RunInv(r)'
      <4>1. \A r \in Runs : started[r] => r = session
        BY DEF LifeInv, RunInv
      <4>2. \A r \in Runs : ~started'[r] /\ children'[r] = 0
        BY <3>1, <3>2, <3>4, <4>1
      <4> QED
        BY <4>2, QuietRuns
    <3>7. FutureInv'
      <4>1. session \in Nat /\ session' = session /\ FutureInv
        BY <3>1, <3>2 DEF LifeInv
      <4>2. \A r \in Runs : r > session => r # session
        BY <4>1
      <4>3. \A r \in Runs : r > session =>
              /\ r \in held' => r \in held
              /\ r \in sealed' => r \in sealed
              /\ started'[r] = started[r] /\ status'[r] = status[r]
              /\ files'[r]["host"] = files[r]["host"]
        BY <3>1, <3>2, <3>3, <4>2
      <4> QED
        BY <4>1, <4>3, FutureFrame
    <3> QED
      BY <2>0, <3>2, <3>5, <3>6, <3>7, LifeBuild DEF LifeInv
  <2>5. CASE StopMeta(w)
    <3> USE <2>5 DEF StopMeta
    <3>1. StartInv(w)' /\ StopInv(w)'
      <4>1. /\ run[w] = session /\ session \in Runs
            /\ \A r \in Runs : children[r] = 0
        BY DEF LifeInv, StopInv
      <4> QED
        BY <4>1 DEF StartInv, StopInv
    <3>2. \A r \in Runs : RunInv(r)'
      BY <2>0 DEF LifeInv, StartInv, StopInv, RunInv, FutureInv
    <3>3. FutureInv'
      BY <2>0 DEF LifeInv, StartInv, StopInv, FutureInv
    <3>4. session' <= created' /\ \A v \in Workers : v # w => pc'[v] = pc[v]
      BY <2>0 DEF LifeInv, StartInv
    <3> QED
      BY <2>0, <3>1, <3>2, <3>3, <3>4, LifeBuild
  <2>6. CASE StopManifest(w)
    <3> USE <2>6 DEF StopManifest
    <3>1. StartInv(w)' /\ StopInv(w)'
      BY <2>0, ReturnType DEF LifeInv, StartInv, StopInv, RunInv, FutureInv
    <3>2. \A r \in Runs : RunInv(r)'
      BY <2>0, ReturnType DEF LifeInv, StartInv, StopInv, RunInv, FutureInv
    <3>3. FutureInv'
      BY <2>0, ReturnType, SMTT(60) DEF LifeInv, StartInv, StopInv, FutureInv
    <3>4. session' <= created' /\ \A v \in Workers : v # w => pc'[v] = pc[v]
      BY <2>6, StopLeaves
    <3> QED
      BY <2>0, <3>1, <3>2, <3>3, <3>4, LifeBuild
  <2> QED
    BY <1>2, <2>1, <2>2, <2>3, <2>4, <2>5, <2>6 DEF StopMonitor
<1>3. ASSUME NEW w \in Workers, Replay(w) PROVE LifeInv'
  <2> USE <1>3
  <2>1. run[w] \in Runs
    BY RunKnown DEF Replay, ReplayCount, Decode, ReplayRaises, ReplayOpen, ReplayWrite,
        ReplayWriteFails, RunStates
  <2>2. UNCHANGED <<session, created, started, captures, status, sealed>>
    BY DEF Replay, ReplayCount, Decode, ReplayRaises, ReplayOpen, ReplayWrite, ReplayWriteFails
  <2>3. \A r \in Runs : files'[r]["host"] = files[r]["host"]
    BY <2>1, HostLines, LineFacts, ZenonT(60) DEF Replay, ReplayCount, Decode, ReplayRaises, ReplayOpen, ReplayWrite, ReplayWriteFails
  <2>4. \/ pc[w] = "snapReplay" /\ pc'[w] \in {"snapLayers", "idle"}
        \/ pc[w] = "snapLayers" /\ pc'[w] = "snapWrite"
        \/ pc[w] = "snapWrite" /\ pc'[w] = "idle"
        \/ pc[w] = "stopReplay" /\ pc'[w] = "stopLayers" /\ run' = run
        \/ pc[w] = "stopReplay" /\ pc'[w] = "idle"
        \/ pc[w] = "stopLayers" /\ pc'[w] = "stopWrite" /\ run' = run
        \/ pc[w] = "stopWrite" /\ pc'[w] = "stopManifest" /\ run' = run
        \/ pc[w] = "stopWrite" /\ pc'[w] = "idle"
    BY ReturnType DEF Replay, ReplayCount, Decode, ReplayRaises, ReplayOpen, ReplayWrite, ReplayWriteFails
  <2>5. \A v \in Workers : v # w => pc'[v] = pc[v] /\ run'[v] = run[v]
    BY <1>3, ReplayMoves, OthersStay
  <2>6. CASE pc[w] \in {"snapReplay", "snapLayers", "snapWrite"}
    BY <2>2, <2>3, <2>4, <2>5, <2>6, LifeFrame
  <2>7. CASE pc[w] \in {"stopReplay", "stopLayers", "stopWrite"}
    <3>1. w \in Controllers /\ \A q \in Runs : children[q] = 0
      BY <2>7 DEF LifeInv, StopInv
    <3>2. StartInv(w)' /\ StopInv(w)'
      BY <2>2, <2>4, <2>7, <3>1 DEF LifeInv, StartInv, StopInv
    <3>3. \A r \in Runs : RunInv(r)'
      <4>1. \A v \in Controllers : pc[v] \notin {"startFlag", "startMark"}
        BY <2>7, <3>1
      <4> QED
        BY <2>2, <2>3, <3>1, <4>1 DEF LifeInv, RunInv
    <3>4. FutureInv'
      BY <2>2, <2>3 DEF LifeInv, FutureInv
    <3> QED
      BY <2>2, <2>5, <3>1, <3>2, <3>3, <3>4, LifeBuild DEF LifeInv
  <2> QED
    BY <2>4, <2>6, <2>7
<1>4. ASSUME NEW w \in Workers, Execute(w) PROVE LifeInv'
  <2> USE <1>4 DEF Execute, ExecuteCheck, ExecuteMark, ExecuteDut, ExecuteRecheck, ProbeEndpoints,
          ExecuteRecord, ExecuteEnd, Call
  <2>1. UNCHANGED <<session, created, started, captures, status, sealed>>
    OBVIOUS
  <2>2. \A r \in Runs : files'[r]["host"] = files[r]["host"]
    <3>1. session # None => session \in Runs
      BY SessionKnown
    <3>2. pc[w] \in {"begin", "record", "end"} => session # None
      BY DEF BusyInv
    <3>3. UNCHANGED files \/ \E r \in Runs, k \in LineKinds \ {"host"} : Append(r, k)
      BY <3>1, <3>2, LineFacts
    <3> QED
      BY <3>3, HostLines
  <2>3. /\ pc[w] \notin ControlStates /\ pc'[w] \notin ControlStates
        /\ \A v \in Workers : v # w => pc'[v] = pc[v] /\ run'[v] = run[v]
    BY <1>4, ExecuteMoves, OthersStay
  <2> QED
    BY <2>1, <2>2, <2>3, LifeFrame
<1>5. ASSUME NEW w \in Workers, SnapshotBegin(w) \/ MarkEvent(w) PROVE LifeInv'
  <2> USE <1>5 DEF SnapshotBegin, MarkEvent, Call
  <2>1. UNCHANGED <<session, created, started, captures, status, sealed>>
    OBVIOUS
  <2>2. \A r \in Runs : files'[r]["host"] = files[r]["host"]
    BY SessionKnown, HostLines, LineFacts, ZenonT(60)
  <2>3. /\ pc[w] \notin ControlStates /\ pc'[w] \notin ControlStates
        /\ \A v \in Workers : v # w => pc'[v] = pc[v] /\ run'[v] = run[v]
    OBVIOUS
  <2> QED
    BY <2>1, <2>2, <2>3, LifeFrame
<1>6. ASSUME Restart PROVE LifeInv'
  BY <1>6 DEF Restart
<1>7. CASE UNCHANGED vars
  BY <1>7, LifeFrame DEF vars
<1> QED
  BY <1>1, <1>2, <1>3, <1>4, <1>5, <1>6, <1>7 DEF Next

LEMMA LifeInvariant ==
  ASSUME OneController, NoRestart
  PROVE  Spec => [](TypeInv /\ LifeInv)
<1>1. Init => LifeInv
  BY AgentAssumption, LineFacts
     DEF Init, LifeInv, StartInv, StopInv, RunInv, FutureInv, StartStates,
         StopStates, Runs, NoLines, None
<1>2. TypeInv /\ LifeInv /\ [Next]_vars => LifeInv'
  BY LifeStep
<1> QED
  BY <1>1, <1>2, TypeAndBusy, PTL DEF Spec

(* One capture at a time, and the current session's manager can stop it,    *)
(* for any number of other calls, runs and failures, if StartMonitor and    *)
(* StopMonitor calls do not overlap (agent.py:112-136).                     *)
THEOREM OneCapture ==
  ASSUME OneController, NoRestart
  PROVE  Spec => []NoOrphanCapture
<1>1. LifeInv => NoOrphanCapture
  BY DEF LifeInv, RunInv, NoOrphanCapture
<1> QED
  BY <1>1, LifeInvariant, PTL

(* Under the same conditions no run is captured any more once its metadata  *)
(* says that it is complete or cancelled (agent.py:60-75).                  *)
THEOREM FinishedIsOver ==
  ASSUME OneController, NoRestart
  PROVE  Spec => []FinishedNotCapturing
<1>1. TypeInv /\ LifeInv => FinishedNotCapturing
  BY DEF TypeInv, TypeOK, LifeInv, RunInv, FinishedNotCapturing
<1> QED
  BY <1>1, LifeInvariant, PTL

-----------------------------------------------------------------------------
(* Refinement of RunLifecycle. *)

LEMMA LifecycleStutter ==
  ASSUME \A r \in Runs : /\ (children'[r] > 0) = (children[r] > 0)
                         /\ (children'[r] = 0 /\ files'[r]["host"] = 0)
                              = (children[r] = 0 /\ files[r]["host"] = 0),
         UNCHANGED <<status, sealed>>
  PROVE  UNCHANGED Lifecycle!vars
BY DEF Lifecycle!vars

LEMMA LifecycleStep ==
  ASSUME TypeInv, LifeInv, [Next]_vars, NoRestart
  PROVE  [Lifecycle!Next]_(Lifecycle!vars)
<1> USE AgentAssumption DEF captures, results, bundle
<1>0. /\ \A r \in Runs : children[r] \in Nat
      /\ \A r \in Runs : children[r] > 0 => r = session /\ r \in held /\ children[r] = 1
      /\ \A r \in held : children[r] > 0
      /\ held \subseteq Runs
  BY DEF TypeInv, TypeOK, BusyInv, LifeInv, RunInv
<1>1. ASSUME NEW w \in Workers, StartCapture(w) PROVE Lifecycle!Next
  <2>1. /\ run[w] = session /\ session \in Runs
        /\ status[session] = "created" /\ files[session]["host"] = 0
        /\ \A r \in Runs : children[r] = 0
    BY <1>1 DEF StartCapture, LifeInv, StartInv
  <2>2. \A r \in Runs : children'[r] = IF r = session THEN 1 ELSE 0
    BY <1>1, <2>1 DEF StartCapture, TypeInv, TypeOK
  <2>3. UNCHANGED <<files, status, sealed>>
    BY <1>1 DEF StartCapture
  <2>4. Lifecycle!Capture(session)
    BY <2>1, <2>2, <2>3 DEF Lifecycle!Capture
  <2> QED
    BY <2>1, <2>4 DEF Lifecycle!Next, Lifecycle!Capture
<1>2. ASSUME NEW w \in Workers, StopCapture(w) \/ StopRaises(w)
      PROVE  [Lifecycle!Next]_(Lifecycle!vars)
  <2>1. run[w] = session /\ session \in Runs /\ files[session]["host"] > 0
    BY <1>2 DEF StopCapture, StopRaises, LifeInv, StopInv, StopStates
  <2>2. UNCHANGED <<files, status, sealed>>
    BY <1>2 DEF StopCapture, StopRaises
  <2>3. CASE EndHeld(run[w])
    <3>1. \A r \in Runs : children'[r] = 0
      BY <1>0, <2>1, <2>3 DEF EndHeld, TypeInv, TypeOK
    <3>2. CASE children[session] = 0
      <4>1. \A r \in Runs : children[r] = 0
        BY <1>0, <3>2
      <4> QED
        BY <2>2, <3>1, <4>1, LifecycleStutter
    <3>3. CASE children[session] > 0
      <4>1. \A r \in Runs : children[r] > 0 <=> r = session
        BY <1>0, <3>3
      <4>2. Lifecycle!Close(session)
        BY <1>0, <2>1, <2>2, <3>1, <4>1 DEF Lifecycle!Close
      <4> QED
        BY <2>1, <4>2 DEF Lifecycle!Next, Lifecycle!Close
    <3> QED
      BY <1>0, <2>1, <3>2, <3>3
  <2>4. CASE UNCHANGED captures
    BY <2>2, <2>4, LifecycleStutter
  <2> QED
    BY <1>2, <2>3, <2>4 DEF StopCapture, StopRaises
<1>3. ASSUME NEW w \in Workers, StopMeta(w) PROVE Lifecycle!Next
  <2>1. run[w] = session /\ session \in Runs /\ children[session] = 0
    BY <1>3 DEF StopMeta, LifeInv, StopInv, StopStates
  <2>2. UNCHANGED <<children, files, sealed>>
    BY <1>3 DEF StopMeta
  <2>3. \A r \in Runs : (status'[r] # "created") <=> (status[r] # "created" \/ r = session)
    BY <1>3, <2>1 DEF StopMeta, TypeInv, TypeOK
  <2>4. Lifecycle!Finish(session)
    BY <2>1, <2>2, <2>3 DEF Lifecycle!Finish
  <2> QED
    BY <2>1, <2>4 DEF Lifecycle!Next, Lifecycle!Finish
<1>4. ASSUME NEW w \in Workers, StopManifest(w) PROVE Lifecycle!Next
  <2>1. run[w] = session /\ session \in Runs /\ status[session] # "created"
    BY <1>4 DEF StopManifest, LifeInv, StopInv, StopStates
  <2>2. UNCHANGED <<children, files, status>> /\ sealed' = sealed \cup {session}
    BY <1>4, <2>1 DEF StopManifest
  <2>3. Lifecycle!Seal(session)
    BY <2>1, <2>2 DEF Lifecycle!Seal
  <2> QED
    BY <2>1, <2>3 DEF Lifecycle!Next, Lifecycle!Seal
<1>5. ASSUME NEW w \in Workers, StartMark(w) \/ StopHost(w)
      PROVE  UNCHANGED Lifecycle!vars
  <2>1. /\ run[w] = session /\ session \in Runs
        /\ children[session] > 0 \/ files[session]["host"] > 0
    BY <1>5 DEF StartMark, StopHost, HostSnapshot, LifeInv, StartInv, StopInv, StopStates
  <2>2. UNCHANGED <<children, status, sealed>>
    BY <1>5 DEF StartMark, StopHost, HostSnapshot
  <2>3. \A q \in Runs : files'[q]["host"] =
          IF q = session THEN files[q]["host"] + 1 ELSE files[q]["host"]
    <3>1. CASE StartMark(w)
      BY <2>1, <3>1, LineFacts DEF StartMark, TypeInv, TypeOK
    <3>2. CASE StopHost(w)
      BY <2>1, <3>2, HostLines, LineFacts DEF StopHost, HostSnapshot, TypeInv
    <3> QED
      BY <1>5, <3>1, <3>2
  <2>4. \A q \in Runs : files[q]["host"] \in Nat
    BY HostNat DEF TypeInv
  <2> QED
    BY <1>0, <2>1, <2>2, <2>3, <2>4, LifecycleStutter
<1>6. ASSUME NEW w \in Workers,
             \/ StartCheck(w) \/ StartCreate(w) \/ StartAssign(w) \/ StartCall(w)
             \/ StartRaises(w) \/ StartFlag(w) \/ StopBegin(w) \/ Replay(w)
             \/ Execute(w) \/ SnapshotBegin(w) \/ MarkEvent(w)
      PROVE  UNCHANGED Lifecycle!vars
  <2> USE DEF StartCheck, StartCreate, StartAssign, StartCall, StartRaises,
          StartFlag, StopBegin, SnapshotBegin, MarkEvent,
          Replay, ReplayCount, Decode, ReplayRaises, ReplayOpen, ReplayWrite,
          ReplayWriteFails, Execute, ExecuteCheck,
          ExecuteMark, ExecuteDut, ExecuteRecheck, ProbeEndpoints, ExecuteRecord, ExecuteEnd
  <2>1. UNCHANGED <<children, status, sealed>>
    BY <1>6
  <2>2. \/ UNCHANGED files
        \/ \E r \in Runs, k \in LineKinds \ {"host"} : Append(r, k)
    <3>1. session # None => session \in Runs
      BY SessionKnown
    <3>2. pc[w] \in {"stopReplay", "snapReplay"} => run[w] \in Runs
      BY RunKnown DEF RunStates, StopStates
    <3>3. pc[w] \in {"begin", "record", "end"} => session # None
      BY DEF TypeInv, BusyInv
    <3> QED
      BY <1>6, <3>1, <3>2, <3>3, LineFacts DEF Monitoring
  <2>3. \A r \in Runs : files'[r]["host"] = files[r]["host"]
    BY <2>2, HostLines DEF TypeInv
  <2> QED
    BY <2>1, <2>3, LifecycleStutter
<1>7. CASE UNCHANGED vars
  BY <1>7, LifecycleStutter DEF vars
<1> QED
  BY <1>1, <1>2, <1>3, <1>4, <1>5, <1>6, <1>7
     DEF Next, StartMonitor, StopMonitor, NoRestart, Restart

(* The agent implements RunLifecycle as long as StartMonitor and            *)
(* StopMonitor calls do not overlap and the process is not restarted: runs  *)
(* are captured once and one at a time, then finished, then sealed.         *)
THEOREM LifecycleImplemented ==
  ASSUME OneController, NoRestart
  PROVE  Spec => ImplementsLifecycle
<1>1. Init => Lifecycle!Init
  BY LineFacts DEF Init, Lifecycle!Init, NoLines
<1>2. TypeInv /\ LifeInv /\ [Next]_vars => [Lifecycle!Next]_(Lifecycle!vars)
  BY LifecycleStep
<1> QED
  BY <1>1, <1>2, LifeInvariant, PTL DEF Spec, ImplementsLifecycle, Lifecycle!Spec
=============================================================================
