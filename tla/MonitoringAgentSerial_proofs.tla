-------------------- MODULE MonitoringAgentSerial_proofs --------------------
(* Theorems about what the files of a run hold: that a finished run is      *)
(* sealed, for any number of workers, and what one call at a time keeps.    *)
EXTENDS MonitoringAgent_proofs

-----------------------------------------------------------------------------
(* Finished runs are sealed.  The worker that finished a run is on its way  *)
(* to the manifest, unless it has written it.                               *)

SealStates == {"stopReplay", "stopLayers", "stopWrite", "stopManifest"}

SealInv ==
  \A r \in Runs : status[r] # "created" =>
    r \in sealed \/ (\E w \in Workers : pc[w] \in SealStates /\ run[w] = r)

NoReplayFault == Faults \cap {"replay", "write", "restart"} = {}

LEMMA SealFrame ==
  ASSUME SealInv, UNCHANGED status, sealed \subseteq sealed',
         \A v \in Workers : pc[v] \in SealStates =>
           \/ pc'[v] \in SealStates /\ run'[v] = run[v]
           \/ run[v] \in sealed'
  PROVE  SealInv'
BY DEF SealInv

LEMMA SealStep ==
  ASSUME NoReplayFault, TypeInv, SealInv, [Next]_vars
  PROVE  SealInv'
<1> USE DEF TypeInv, TypeOK, SealStates, StopStates, OtherStates, captures,
        results, bundle, Goto
<1>1. ASSUME NEW w \in Workers, StartMonitor(w) PROVE SealInv'
  BY <1>1, SealFrame, ReturnType
     DEF StartMonitor, StartCheck, StartCreate, StartAssign, StartCall,
         StartCapture, StartRaises, StartFlag, StartMark
<1>2. ASSUME NEW w \in Workers, StopMonitor(w) PROVE SealInv'
  <2>1. CASE StopMeta(w)
    <3>1. \A r \in Runs : status'[r] # "created" => r = run[w] \/ status[r] # "created"
      BY <2>1 DEF StopMeta
    <3>2. pc'[w] = "stopReplay" /\ run' = run /\ sealed' = sealed
      BY <2>1 DEF StopMeta
    <3>3. \A v \in Workers : pc[v] \in SealStates => pc'[v] \in SealStates
      BY <2>1 DEF StopMeta
    <3> QED
      BY <3>1, <3>2, <3>3 DEF SealInv
  <2>2. CASE StopManifest(w)
    BY <2>2, SealFrame, ReturnType DEF StopManifest
  <2>3. CASE StopBegin(w) \/ StopCapture(w) \/ StopRaises(w) \/ StopHost(w)
    BY <2>3, SealFrame, ReturnType
       DEF StopBegin, Call, StopCapture, StopRaises, StopHost
  <2> QED
    BY <1>2, <2>1, <2>2, <2>3 DEF StopMonitor
<1>3. ASSUME NEW w \in Workers, Replay(w) PROVE SealInv'
  BY <1>3, SealFrame, ReturnType
     DEF Replay, ReplayCount, ReplayRaises, ReplayOpen, ReplayWrite,
         ReplayWriteFails, NoReplayFault
<1>4. ASSUME NEW w \in Workers, Execute(w) PROVE SealInv'
  BY <1>4, SealFrame, ReturnType
     DEF Execute, ExecuteCheck, ExecuteMark, ExecuteDut, ExecuteRecheck,
         ExecuteRecord, ExecuteEnd, Call
<1>5. ASSUME NEW w \in Workers, SnapshotBegin(w) \/ MarkEvent(w) PROVE SealInv'
  BY <1>5, SealFrame DEF SnapshotBegin, MarkEvent, Call
<1>6. CASE Restart
  BY <1>6 DEF Restart, NoReplayFault
<1>7. CASE UNCHANGED vars
  BY <1>7 DEF vars, SealInv
<1> QED
  BY <1>1, <1>2, <1>3, <1>4, <1>5, <1>6, <1>7 DEF Next

(* However calls overlap and whatever else fails, a run whose metadata says *)
(* complete or cancelled has its manifest once nobody is at work, if its    *)
(* capture can be replayed and the agent is not restarted (agent.py:70-74). *)
THEOREM FinishedSealed ==
  ASSUME NoReplayFault PROVE Spec => []FinishedIsSealed
<1>1. Init => SealInv
  BY DEF Init, SealInv
<1>2. SealInv => FinishedIsSealed
  BY DEF SealInv, FinishedIsSealed, Quiet, SealStates
<1> QED
  BY <1>1, <1>2, SealStep, TypeAndBusy, PTL DEF Spec
-----------------------------------------------------------------------------
(* One call at a time, with every fault and restarts of the agent.          *)
(* SerialInv says what each call knows of the run it works on: it is the    *)
(* current one, it is not sealed while actions may be recorded in it, and   *)
(* how far the files, the counts and layers.json have come.                 *)

StopEnd == {"stopMeta"} \cup SealStates

(* The counts of action lines of the current run, in the course of a call.  *)
ActionInv(w) ==
  /\ pc[w] \in {"begin", "record", "end"} => Monitoring
  /\ pc[w] \in {"dut", "recheck", "record"} /\ Monitoring =>
       files[session]["api"] < files[session]["begin"]
  /\ pc[w] = "end" => files[session]["end"] < files[session]["api"]

(* A run is only started when it is new, and sealed when it is stopped. *)
FreshInv(w) ==
  /\ pc[w] = "assign" => run[w] <= created /\ run[w] \notin sealed
  /\ pc[w] = "startCall" => session \notin sealed
  /\ pc[w] \in {"startCapture", "startFlag"} => run[w] \notin sealed
  /\ pc[w] \in StopEnd => ~started[session]
  /\ pc[w] \in StopStates \cup {"snapReplay", "snapLayers", "snapWrite"} => run[w] = session

(* What a replay has counted and written. *)
ReplayInv(w) ==
  /\ pc[w] \in {"stopWrite", "snapWrite"} => text[session] = "empty"
  /\ pc[w] \in {"stopLayers", "stopWrite"} => seen[w] = files[session]
  /\ pc[w] = "stopManifest" => layers[session] = files[session] /\ text[session] = "whole"

SerialInv ==
  /\ session <= created
  /\ \A r \in Runs : r > created => r \notin sealed
  /\ \A r \in Runs : started[r] => r \notin sealed
  /\ ActionsBracketed
  /\ \A w \in Workers : ActionInv(w) /\ FreshInv(w) /\ ReplayInv(w)

OneWorker == \A v, w \in Workers : v = w

LEMMA Appended ==
  ASSUME TypeOK, NEW r \in Runs, NEW k \in LineKinds, Append(r, k)
  PROVE  /\ \A q \in Runs, j \in LineKinds :
              files'[q][j] = IF q = r /\ j = k THEN files[q][j] + 1 ELSE files[q][j]
         /\ \A q \in Runs, j \in LineKinds : files[q][j] \in Nat
BY DEF TypeOK, Append

(* The lines of actions stay as they are. *)
SameLines ==
  \A r \in Runs, k \in {"begin", "end", "api"} : files'[r][k] = files[r][k]

LEMMA OtherLines ==
  ASSUME TypeOK, NEW r \in Runs, NEW k \in {"other", "host", "names"},
         UNCHANGED files \/ Append(r, k)
  PROVE  SameLines
BY Appended DEF SameLines, LineKinds

LEMMA BracketFrame ==
  ASSUME ActionsBracketed, SameLines PROVE ActionsBracketed'
BY DEF ActionsBracketed, SameLines

(* With one worker it is enough to look at the worker that moves. *)
LEMMA OneBuild ==
  ASSUME OneWorker, NEW w \in Workers,
         session' <= created',
         \A r \in Runs : r > created' => r \notin sealed',
         \A r \in Runs : started'[r] => r \notin sealed',
         ActionsBracketed',
         ActionInv(w)', FreshInv(w)', ReplayInv(w)'
  PROVE  SerialInv'
BY DEF OneWorker, SerialInv

LEMMA SerialStart ==
  ASSUME OneWorker, TypeInv, TypeInv', SerialInv, NEW w \in Workers, StartMonitor(w)
  PROVE  SerialInv'
<1> USE AgentAssumption
    DEF TypeInv, TypeOK, Runs, None, Goto, captures, results, bundle
<1>1. CASE StartCheck(w)
  <2> USE <1>1 DEF StartCheck
  <2>1. pc'[w] = "create"
    OBVIOUS
  <2>2. ActionInv(w)' /\ FreshInv(w)' /\ ReplayInv(w)'
    BY <2>1 DEF ActionInv, FreshInv, ReplayInv, StopEnd, SealStates, StopStates
  <2>3. ActionsBracketed'
    BY DEF SerialInv, ActionsBracketed
  <2> QED
    BY <2>2, <2>3, OneBuild DEF SerialInv
<1>2. CASE StartCreate(w)
  <2> USE <1>2 DEF StartCreate
  <2>1. pc'[w] = "assign" /\ run'[w] = created + 1
    OBVIOUS
  <2>2. ActionInv(w)' /\ FreshInv(w)' /\ ReplayInv(w)'
    BY <2>1 DEF SerialInv, ActionInv, FreshInv, ReplayInv, StopEnd, SealStates, StopStates
  <2>3. ActionsBracketed'
    BY DEF SerialInv, ActionsBracketed
  <2> QED
    BY <2>2, <2>3, OneBuild DEF SerialInv
<1>3. CASE StartAssign(w)
  <2> USE <1>3 DEF StartAssign
  <2>1. pc'[w] = "startCall" /\ run[w] \in Runs /\ FreshInv(w)
    BY RunKnown DEF SerialInv, RunStates
  <2>2. ActionInv(w)' /\ FreshInv(w)' /\ ReplayInv(w)'
    BY <2>1 DEF ActionInv, FreshInv, ReplayInv, StopEnd, SealStates, StopStates
  <2>3. ActionsBracketed'
    BY <2>1 DEF SerialInv, ActionsBracketed, FreshInv
  <2> QED
    BY <2>1, <2>2, <2>3, OneBuild DEF SerialInv, FreshInv
<1>4. CASE StartCall(w)
  <2> USE <1>4 DEF StartCall
  <2>1. pc'[w] = "startCapture" /\ run'[w] = session /\ FreshInv(w)
    BY DEF SerialInv
  <2>2. ActionInv(w)' /\ FreshInv(w)' /\ ReplayInv(w)'
    BY <2>1 DEF ActionInv, FreshInv, ReplayInv, StopEnd, SealStates, StopStates
  <2>3. ActionsBracketed'
    BY DEF SerialInv, ActionsBracketed
  <2> QED
    BY <2>2, <2>3, OneBuild DEF SerialInv
<1>5. CASE StartCapture(w)
  <2> USE <1>5 DEF StartCapture
  <2>1. pc'[w] = "startFlag" /\ FreshInv(w)
    BY DEF SerialInv
  <2>2. ActionInv(w)' /\ FreshInv(w)' /\ ReplayInv(w)'
    BY <2>1 DEF ActionInv, FreshInv, ReplayInv, StopEnd, SealStates, StopStates
  <2>3. ActionsBracketed'
    BY DEF SerialInv, ActionsBracketed
  <2> QED
    BY <2>2, <2>3, OneBuild DEF SerialInv
<1>6. CASE StartRaises(w)
  <2> USE <1>6 DEF StartRaises
  <2>1. pc'[w] = "idle"
    BY ReturnType
  <2>2. ActionInv(w)' /\ FreshInv(w)' /\ ReplayInv(w)'
    BY <2>1 DEF ActionInv, FreshInv, ReplayInv, StopEnd, SealStates, StopStates
  <2>3. ActionsBracketed'
    BY DEF SerialInv, ActionsBracketed
  <2> QED
    BY <2>2, <2>3, OneBuild DEF SerialInv
<1>7. CASE StartFlag(w)
  <2> USE <1>7 DEF StartFlag
  <2>1. pc'[w] = "startMark" /\ FreshInv(w)
    BY DEF SerialInv
  <2>2. ActionInv(w)' /\ FreshInv(w)' /\ ReplayInv(w)'
    BY <2>1 DEF ActionInv, FreshInv, ReplayInv, StopEnd, SealStates, StopStates
  <2>3. ActionsBracketed'
    BY DEF SerialInv, ActionsBracketed
  <2>4. \A r \in Runs : started'[r] => r \notin sealed'
    BY <2>1 DEF SerialInv, FreshInv
  <2> QED
    BY <2>2, <2>3, <2>4, OneBuild DEF SerialInv
<1>8. CASE StartMark(w)
  <2> USE <1>8 DEF StartMark
  <2>1. pc'[w] = "idle"
    BY ReturnType
  <2>2. ActionInv(w)' /\ FreshInv(w)' /\ ReplayInv(w)'
    BY <2>1 DEF ActionInv, FreshInv, ReplayInv, StopEnd, SealStates, StopStates
  <2>3. run[w] \in Runs
    BY RunKnown DEF RunStates
  <2>4. SameLines
    <3>1. /\ files \in [Runs -> [LineKinds -> Nat]]
          /\ files' = [files EXCEPT ![run[w]]["host"] = @ + 1, ![run[w]]["other"] = @ + 1]
      OBVIOUS
    <3> HIDE <1>8 DEF StartMark, TypeInv, TypeOK
    <3>2. \A q \in Runs, k \in LineKinds \ {"host", "other"} : files'[q][k] = files[q][k]
      BY <2>3, <3>1, LineFacts
    <3> QED
      BY <3>2, LineFacts DEF SameLines
  <2>5. ActionsBracketed'
    BY <2>4, BracketFrame DEF SerialInv
  <2> QED
    BY <2>2, <2>5, OneBuild DEF SerialInv
<1> QED
  BY <1>1, <1>2, <1>3, <1>4, <1>5, <1>6, <1>7, <1>8 DEF StartMonitor

LEMMA SerialStop ==
  ASSUME OneWorker, TypeInv, TypeInv', SerialInv, NEW w \in Workers, StopMonitor(w)
  PROVE  SerialInv'
<1> USE AgentAssumption
    DEF TypeInv, TypeOK, Runs, None, Goto, captures, results, bundle
<1>1. CASE StopBegin(w)
  <2> USE <1>1 DEF StopBegin, Call
  <2>1. session \in Runs
    BY SessionKnown
  <2>2. ActionInv(w)' /\ FreshInv(w)' /\ ReplayInv(w)'
    <3>1. /\ pc'[w] = "stopCapture" \/ (pc'[w] = "stopMeta" /\ ~started[session])
          /\ run'[w] = session
          /\ session' = session /\ started' = started
      <4> HIDE DEF captures, results, bundle
      <4> QED
        OBVIOUS
    <3> HIDE <1>1 DEF StopBegin, Call, TypeInv, TypeOK, Runs, None, Goto
    <3> QED
      BY <3>1 DEF ActionInv, FreshInv, ReplayInv, StopEnd, SealStates, StopStates
  <2>3. ActionsBracketed'
    BY <2>1, OtherLines, BracketFrame, LineFacts DEF SerialInv
  <2> QED
    BY <2>2, <2>3, OneBuild DEF SerialInv
<1>2. CASE StopCapture(w)
  <2> USE <1>2 DEF StopCapture
  <2>1. pc'[w] = "stopHost" /\ FreshInv(w)
    BY DEF SerialInv
  <2>2. ActionInv(w)' /\ FreshInv(w)' /\ ReplayInv(w)'
    BY <2>1 DEF ActionInv, FreshInv, ReplayInv, StopEnd, SealStates, StopStates
  <2>3. ActionsBracketed'
    BY DEF SerialInv, ActionsBracketed
  <2> QED
    BY <2>2, <2>3, OneBuild DEF SerialInv
<1>3. CASE StopRaises(w)
  <2> USE <1>3 DEF StopRaises
  <2>1. pc'[w] = "idle"
    BY ReturnType
  <2>2. ActionInv(w)' /\ FreshInv(w)' /\ ReplayInv(w)'
    BY <2>1 DEF ActionInv, FreshInv, ReplayInv, StopEnd, SealStates, StopStates
  <2>3. ActionsBracketed'
    BY DEF SerialInv, ActionsBracketed
  <2> QED
    BY <2>2, <2>3, OneBuild DEF SerialInv
<1>4. CASE StopHost(w)
  <2> USE <1>4 DEF StopHost, HostSnapshot
  <2>1. pc'[w] = "stopMeta" /\ FreshInv(w) /\ run[w] = session /\ run[w] \in Runs
    BY RunKnown DEF SerialInv, FreshInv, RunStates, StopStates
  <2>2. ActionInv(w)' /\ FreshInv(w)' /\ ReplayInv(w)'
    BY <2>1 DEF ActionInv, FreshInv, ReplayInv, StopEnd, SealStates, StopStates
  <2>3. ActionsBracketed'
    BY <2>1, OtherLines, BracketFrame DEF SerialInv
  <2> QED
    BY <2>1, <2>2, <2>3, OneBuild DEF SerialInv
<1>5. CASE StopMeta(w)
  <2> USE <1>5 DEF StopMeta
  <2>1. pc'[w] = "stopReplay" /\ FreshInv(w)
    BY DEF SerialInv
  <2>2. ActionInv(w)' /\ FreshInv(w)' /\ ReplayInv(w)'
    BY <2>1 DEF ActionInv, FreshInv, ReplayInv, StopEnd, SealStates, StopStates
  <2>3. ActionsBracketed'
    BY DEF SerialInv, ActionsBracketed
  <2> QED
    BY <2>2, <2>3, OneBuild DEF SerialInv
<1>6. CASE StopManifest(w)
  <2> USE <1>6 DEF StopManifest
  <2>1. /\ run[w] = session /\ session \in Runs /\ ~started[session]
        /\ pc'[w] = "idle" /\ sealed' = sealed \cup {session}
    BY RunKnown, ReturnType
       DEF SerialInv, FreshInv, RunStates, StopStates, StopEnd, SealStates
  <2>2. ActionInv(w)' /\ FreshInv(w)' /\ ReplayInv(w)'
    BY <2>1 DEF ActionInv, FreshInv, ReplayInv, StopEnd, SealStates, StopStates
  <2>3. ActionsBracketed'
    BY DEF SerialInv, ActionsBracketed
  <2>4. \A r \in Runs : r > created' => r \notin sealed'
    BY <2>1 DEF SerialInv
  <2>5. \A r \in Runs : started'[r] => r \notin sealed'
    BY <2>1 DEF SerialInv
  <2> QED
    BY <2>2, <2>3, <2>4, <2>5, OneBuild DEF SerialInv
<1> QED
  BY <1>1, <1>2, <1>3, <1>4, <1>5, <1>6 DEF StopMonitor

LEMMA SerialReplay ==
  ASSUME OneWorker, TypeInv, TypeInv', SerialInv, NEW w \in Workers, Replay(w)
  PROVE  SerialInv'
<1> USE AgentAssumption
    DEF TypeInv, TypeOK, Runs, None, Goto, captures, results, bundle
<1>0. run[w] = session /\ session \in Runs
  <2>1. pc[w] \in {"stopReplay", "stopLayers", "stopWrite", "snapReplay",
                   "snapLayers", "snapWrite"}
    BY DEF Replay, ReplayCount, ReplayRaises, ReplayOpen, ReplayWrite,
           ReplayWriteFails
  <2>2. run[w] \in Runs
    BY <2>1, RunKnown DEF RunStates, StopStates
  <2> QED
    BY <2>1, <2>2 DEF SerialInv, FreshInv, StopStates
<1>1. CASE ReplayCount(w)
  <2> USE <1>1 DEF ReplayCount, Decode
  <2>1. /\ (pc[w] = "stopReplay" /\ pc'[w] = "stopLayers") \/ pc'[w] = "snapLayers"
        /\ seen'[w] = files'[session]
    BY <1>0
  <2>2. ActionInv(w)' /\ FreshInv(w)' /\ ReplayInv(w)'
    BY <1>0, <2>1 DEF SerialInv, ActionInv, FreshInv, ReplayInv, StopEnd, SealStates, StopStates
  <2>3. ActionsBracketed'
    BY <1>0, OtherLines, BracketFrame DEF SerialInv
  <2> QED
    BY <2>2, <2>3, OneBuild DEF SerialInv
<1>2. CASE ReplayRaises(w)
  <2> USE <1>2 DEF ReplayRaises, Decode
  <2>1. pc'[w] = "idle"
    BY ReturnType
  <2>2. ActionInv(w)' /\ FreshInv(w)' /\ ReplayInv(w)'
    BY <2>1 DEF ActionInv, FreshInv, ReplayInv, StopEnd, SealStates, StopStates
  <2>3. ActionsBracketed'
    BY <1>0, OtherLines, BracketFrame DEF SerialInv
  <2> QED
    BY <2>2, <2>3, OneBuild DEF SerialInv
<1>3. CASE ReplayOpen(w)
  <2> USE <1>3 DEF ReplayOpen
  <2>1. (pc[w] = "stopLayers" /\ pc'[w] = "stopWrite") \/ pc'[w] = "snapWrite"
    OBVIOUS
  <2>2. ActionInv(w)' /\ FreshInv(w)' /\ ReplayInv(w)'
    BY <1>0, <2>1 DEF SerialInv, ActionInv, FreshInv, ReplayInv, StopEnd, SealStates, StopStates
  <2>3. ActionsBracketed'
    BY <2>1 DEF SerialInv, ActionsBracketed
  <2>4. \A r \in Runs : r > created' => r \notin sealed'
    BY <1>0 DEF SerialInv
  <2> QED
    BY <2>2, <2>3, <2>4, OneBuild DEF SerialInv
<1>4. CASE ReplayWrite(w)
  <2> USE <1>4 DEF ReplayWrite
  <2>1. text[session] = "empty"
    BY DEF SerialInv, ReplayInv
  <2>2. /\ text' = [text EXCEPT ![session] = "whole"]
        /\ layers' = [layers EXCEPT ![session] = seen[w]]
    BY <1>0, <2>1
  <2>3. /\ \/ pc[w] = "stopWrite" /\ pc'[w] = "stopManifest" /\ UNCHANGED run
           \/ pc'[w] = "idle"
        /\ UNCHANGED <<session, created, started, files, sealed>>
    <3>1. CASE pc[w] = "stopWrite"
      BY <3>1
    <3>2. CASE pc[w] = "snapWrite"
      BY <3>2, ReturnType
    <3> QED
      BY <3>1, <3>2
  <2> HIDE <1>4
  <2>4. pc'[w] = "stopManifest" => seen[w] = files[session] /\ ~started[session] /\ run'[w] = session
    BY <1>0, <2>3 DEF SerialInv, ReplayInv, FreshInv, StopEnd, SealStates
  <2>5. text'[session] = "whole" /\ layers'[session] = seen[w]
    BY <1>0, <2>2
  <2>6. ActionInv(w)' /\ FreshInv(w)' /\ ReplayInv(w)'
    BY <2>3, <2>4, <2>5 DEF ActionInv, FreshInv, ReplayInv, StopEnd, SealStates, StopStates
  <2>7. ActionsBracketed'
    BY <2>3, <2>5 DEF SerialInv, ActionsBracketed
  <2>8. \A r \in Runs : r > created' => r \notin sealed'
    BY <1>0, <2>2, <2>3 DEF SerialInv
  <2> QED
    BY <2>3, <2>6, <2>7, <2>8, OneBuild DEF SerialInv
<1>5. CASE ReplayWriteFails(w)
  <2> USE <1>5 DEF ReplayWriteFails
  <2>1. pc'[w] = "idle"
    BY ReturnType
  <2>2. ActionInv(w)' /\ FreshInv(w)' /\ ReplayInv(w)'
    BY <2>1 DEF ActionInv, FreshInv, ReplayInv, StopEnd, SealStates, StopStates
  <2>3. ActionsBracketed'
    BY DEF SerialInv, ActionsBracketed
  <2> QED
    BY <2>2, <2>3, OneBuild DEF SerialInv
<1> QED
  BY <1>1, <1>2, <1>3, <1>4, <1>5 DEF Replay

LEMMA ActionLine ==
  ASSUME TypeOK, NEW r \in Runs, NEW k \in {"begin", "api", "end"}, Append(r, k)
  PROVE  /\ files'[r][k] = files[r][k] + 1
         /\ \A q \in Runs, j \in {"begin", "api", "end"} :
              /\ files[q][j] \in Nat
              /\ q # r \/ j # k => files'[q][j] = files[q][j]
BY Appended, LineFacts

(* One more line keeps the counts in order, if it is a begin marker or if   *)
(* the count of its kind was strictly below the next one.                   *)
LEMMA BracketLine ==
  ASSUME TypeOK, ActionsBracketed, NEW r \in Runs,
         \/ Append(r, "begin")
         \/ Append(r, "api") /\ files[r]["api"] < files[r]["begin"]
         \/ Append(r, "end") /\ files[r]["end"] < files[r]["api"]
  PROVE  ActionsBracketed'
<1>1. CASE Append(r, "begin")
  BY <1>1, ActionLine DEF ActionsBracketed
<1>2. CASE Append(r, "api") /\ files[r]["api"] < files[r]["begin"]
  BY <1>2, ActionLine DEF ActionsBracketed
<1>3. CASE Append(r, "end") /\ files[r]["end"] < files[r]["api"]
  BY <1>3, ActionLine DEF ActionsBracketed
<1> QED
  BY <1>1, <1>2, <1>3

(* A call that does not replay or stop anything. *)
LEMMA ActionBuild ==
  ASSUME OneWorker, SerialInv, NEW w \in Workers,
         pc'[w] \in {"idle", "begin", "dut", "recheck", "record", "end"},
         UNCHANGED <<session, created, started, results, sealed>>,
         pc[w] \notin {"stopWrite", "snapWrite"},
         ActionsBracketed', ActionInv(w)'
  PROVE  SerialInv'
<1> USE DEF results
<1>1. FreshInv(w)' /\ ReplayInv(w)'
  BY DEF FreshInv, ReplayInv, StopEnd, SealStates, StopStates
<1> QED
  BY <1>1, OneBuild DEF SerialInv

LEMMA SerialExecute ==
  ASSUME OneWorker, TypeInv, SerialInv, NEW w \in Workers, Execute(w)
  PROVE  SerialInv'
<1> USE DEF TypeInv, Goto, captures, results, bundle
<1>0. /\ ActionsBracketed /\ ActionInv(w)
      /\ \A l : pc' = [pc EXCEPT ![w] = l] => pc'[w] = l
      /\ \A r \in Runs : ActionsBracketed => files[r]["api"] <= files[r]["begin"]
  BY DEF SerialInv, TypeOK, ActionsBracketed
<1>1. CASE ExecuteCheck(w)
  <2> USE <1>1 DEF ExecuteCheck, Call
  <2>1. pc'[w] \in {"begin", "dut"} /\ (pc'[w] = "begin" <=> Monitoring)
    BY <1>0
  <2>2. ActionsBracketed' /\ ActionInv(w)'
    BY <1>0, <2>1 DEF ActionsBracketed, ActionInv, Monitoring
  <2> QED
    BY <2>1, <2>2, ActionBuild
<1>2. CASE ExecuteMark(w)
  <2> USE <1>2 DEF ExecuteMark
  <2>1. session \in Runs /\ pc'[w] = "dut"
    BY <1>0, SessionKnown DEF BusyInv
  <2>2. files'[session]["api"] < files'[session]["begin"]
    BY <1>0, <2>1, ActionLine
  <2>3. ActionsBracketed' /\ ActionInv(w)'
    BY <1>0, <2>1, <2>2, BracketLine DEF ActionInv
  <2> QED
    BY <2>1, <2>3, ActionBuild
<1>3. CASE ExecuteDut(w)
  <2> USE <1>3 DEF ExecuteDut
  <2>1. pc'[w] \in {"recheck", "idle"}
    BY <1>0
  <2>2. ActionsBracketed' /\ ActionInv(w)'
    BY <1>0, <2>1 DEF ActionsBracketed, ActionInv, Monitoring
  <2> QED
    BY <2>1, <2>2, ActionBuild
<1>4. CASE ExecuteRecheck(w)
  <2> USE <1>4 DEF ExecuteRecheck, ProbeEndpoints
  <2>1. pc'[w] \in {"record", "idle"} /\ (pc'[w] = "record" => Monitoring)
    BY <1>0
  <2>2. Monitoring => session \in Runs
    BY SessionKnown DEF Monitoring
  <2>3. SameLines
    <3>1. CASE UNCHANGED files
      BY <3>1 DEF SameLines
    <3>2. CASE Monitoring /\ Append(session, "names")
      BY <2>2, <3>2, OtherLines
    <3> QED
      BY <3>1, <3>2
  <2>4. ActionsBracketed' /\ ActionInv(w)'
    BY <1>0, <2>1, <2>2, <2>3, BracketFrame DEF ActionInv, SameLines, Monitoring
  <2> QED
    BY <2>1, <2>4, ActionBuild
<1>5. CASE ExecuteRecord(w)
  <2> USE <1>5 DEF ExecuteRecord
  <2>1. session \in Runs /\ pc'[w] = "end"
    BY <1>0, SessionKnown DEF BusyInv
  <2>2. files[session]["api"] < files[session]["begin"]
    BY <1>0 DEF ActionInv
  <2>3. files'[session]["end"] < files'[session]["api"]
    BY <1>0, <2>1, ActionLine DEF ActionsBracketed
  <2>4. Monitoring'
    BY <1>0 DEF ActionInv, Monitoring
  <2>5. ActionsBracketed' /\ ActionInv(w)'
    BY <1>0, <2>1, <2>2, <2>3, <2>4, BracketLine DEF ActionInv
  <2> QED
    BY <2>1, <2>5, ActionBuild
<1>6. CASE ExecuteEnd(w)
  <2> USE <1>6 DEF ExecuteEnd
  <2>1. session \in Runs /\ pc'[w] = "idle"
    BY SessionKnown, ReturnType DEF BusyInv
  <2>2. ActionsBracketed' /\ ActionInv(w)'
    BY <1>0, <2>1, BracketLine DEF ActionInv
  <2> QED
    BY <2>1, <2>2, ActionBuild
<1> QED
  BY <1>1, <1>2, <1>3, <1>4, <1>5, <1>6 DEF Execute

LEMMA SerialStep ==
  ASSUME OneWorker, TypeInv, TypeInv', SerialInv, [Next]_vars
  PROVE  SerialInv'
<1> USE DEF TypeInv, Goto, captures, results, bundle
<1>1. ASSUME NEW w \in Workers, SnapshotBegin(w) PROVE SerialInv'
  <2> USE <1>1 DEF SnapshotBegin, Call
  <2>1. pc'[w] = "snapReplay" /\ run'[w] = session
    BY DEF TypeOK
  <2>2. ActionInv(w)' /\ FreshInv(w)' /\ ReplayInv(w)'
    BY <2>1 DEF ActionInv, FreshInv, ReplayInv, StopEnd, SealStates, StopStates
  <2>3. ActionsBracketed'
    BY DEF SerialInv, ActionsBracketed
  <2> QED
    BY <2>2, <2>3, OneBuild DEF SerialInv
<1>2. ASSUME NEW w \in Workers, MarkEvent(w) PROVE SerialInv'
  <2> USE <1>2 DEF MarkEvent, Call
  <2>1. ActionsBracketed'
    BY SessionKnown, OtherLines, BracketFrame DEF SerialInv
  <2>2. ActionInv(w)'
    BY DEF ActionInv
  <2> QED
    BY <2>1, <2>2, ActionBuild
<1>3. CASE Restart
  <2> USE <1>3 DEF Restart
  <2>1. \A w \in Workers : ActionInv(w)' /\ FreshInv(w)' /\ ReplayInv(w)'
    BY DEF ActionInv, FreshInv, ReplayInv, StopEnd, SealStates, StopStates
  <2>2. ActionsBracketed'
    BY DEF SerialInv, ActionsBracketed
  <2> QED
    BY <2>1, <2>2 DEF SerialInv, TypeOK, None
<1>4. CASE UNCHANGED vars
  <2> USE <1>4 DEF vars
  <2>1. \A w \in Workers : ActionInv(w)' /\ FreshInv(w)' /\ ReplayInv(w)'
    BY DEF SerialInv, ActionInv, FreshInv, ReplayInv, Monitoring
  <2>2. ActionsBracketed'
    BY DEF SerialInv, ActionsBracketed
  <2> QED
    BY <2>1, <2>2 DEF SerialInv
<1> QED
  BY <1>1, <1>2, <1>3, <1>4, SerialStart, SerialStop, SerialReplay, SerialExecute
     DEF Next

LEMMA SerialInvariant ==
  ASSUME OneWorker PROVE Spec => [](TypeInv /\ SerialInv)
<1>1. Init => SerialInv
  BY LineFacts, AgentAssumption
     DEF Init, SerialInv, ActionInv, FreshInv, ReplayInv, ActionsBracketed,
         StopEnd, SealStates, StopStates, NoLines, None, Runs
<1> QED
  BY <1>1, SerialStep, TypeAndBusy, PTL DEF Spec

(* With one call at a time, however calls fail and wherever the agent is    *)
(* restarted, no end marker is without a result and no result without a     *)
(* begin marker (grpc_sdk.py:76-95).                                        *)
THEOREM Bracketed == ASSUME OneWorker PROVE Spec => []ActionsBracketed
<1>1. SerialInv => ActionsBracketed
  BY DEF SerialInv
<1> QED
  BY <1>1, SerialInvariant, PTL

(* Under the same condition the layers.json that a manifest seals is whole  *)
(* and counts every line of the bundle, whatever earlier writes of it have  *)
(* failed midway (agent.py:73-74, replay.py:11-36).                         *)
THEOREM SealedLayers == ASSUME OneWorker PROVE Spec => LayersSealed
<1>1. ASSUME TypeInv, SerialInv, NEW w \in Workers, StopManifest(w)
      PROVE  layers[run[w]] = files[run[w]] /\ text[run[w]] = "whole"
  BY <1>1 DEF SerialInv, ReplayInv, FreshInv, StopManifest, StopStates
<1>2. TypeInv /\ SerialInv /\ [Next]_vars =>
        [\A w \in Workers : StopManifest(w) =>
           layers[run[w]] = files[run[w]] /\ text[run[w]] = "whole"]_vars
  BY <1>1
<1> QED
  BY <1>2, SerialInvariant, PTL DEF Spec, LayersSealed

(* Under the same condition the markers and results of a sealed run do not  *)
(* change any more: an action that comes in after the stop, while the       *)
(* session is still there, leaves no line (grpc_sdk.py:81, 87).             *)
THEOREM SealedUnchanged == ASSUME OneWorker PROVE Spec => SealedActions
<1> USE DEF TypeInv, captures, results, bundle
<1> DEFINE Same == \A r \in sealed, k \in {"begin", "end", "api"} :
                     files'[r][k] = files[r][k]
<1>0. TypeInv => sealed \subseteq Runs
  BY DEF TypeOK
<1>1. ASSUME TypeInv, SerialInv, NEW w \in Workers,
             ExecuteMark(w) \/ ExecuteRecord(w) \/ ExecuteEnd(w)
      PROVE  Same
  <2>1. session \in Runs /\ session \notin sealed
    BY <1>1, SessionKnown
       DEF SerialInv, ActionInv, Monitoring, ExecuteMark, ExecuteRecord, ExecuteEnd
  <2>2. \E k \in {"begin", "api", "end"} : Append(session, k)
    BY <1>1 DEF ExecuteMark, ExecuteRecord, ExecuteEnd
  <2> QED
    BY <1>0, <1>1, <2>1, <2>2, ActionLine
<1>2. ASSUME TypeInv, [Next]_vars,
             ~ \E w \in Workers : ExecuteMark(w) \/ ExecuteRecord(w) \/ ExecuteEnd(w)
      PROVE  SameLines
  <2>1. CASE UNCHANGED files
    BY <2>1 DEF SameLines
  <2>2. ASSUME NEW w \in Workers, StartMark(w) PROVE SameLines
    <3>1. run[w] \in Runs
      BY <1>2, <2>2, RunKnown DEF RunStates, StartMark
    <3>2. /\ files \in [Runs -> [LineKinds -> Nat]]
          /\ files' = [files EXCEPT ![run[w]]["host"] = @ + 1, ![run[w]]["other"] = @ + 1]
      BY <1>2, <2>2 DEF StartMark, TypeOK
    <3>3. \A q \in Runs, k \in LineKinds \ {"host", "other"} : files'[q][k] = files[q][k]
      BY <3>1, <3>2, LineFacts
    <3> QED
      BY <3>3, LineFacts DEF SameLines
  <2>3. ASSUME NEW w \in Workers, StopHost(w) \/ ReplayCount(w) \/ ReplayRaises(w)
        PROVE  SameLines
    <3>1. run[w] \in Runs
      BY <1>2, <2>3, RunKnown DEF RunStates, StopStates, StopHost, ReplayCount, ReplayRaises
    <3>2. UNCHANGED files \/ \E k \in {"other", "host", "names"} : Append(run[w], k)
      BY <2>3 DEF StopHost, HostSnapshot, ReplayCount, ReplayRaises, Decode
    <3> QED
      BY <1>2, <3>1, <3>2, OtherLines DEF SameLines
  <2>4. ASSUME NEW w \in Workers, StopBegin(w) \/ MarkEvent(w) \/ ExecuteRecheck(w)
        PROVE  SameLines
    <3>1. \/ UNCHANGED files
          \/ session # None /\ \E k \in {"other", "host", "names"} : Append(session, k)
      BY <2>4 DEF StopBegin, MarkEvent, ExecuteRecheck, ProbeEndpoints, Monitoring
    <3> QED
      BY <1>2, <3>1, SessionKnown, OtherLines DEF SameLines
  <2>5. ASSUME NEW w \in Workers,
               \/ StartCheck(w) \/ StartCreate(w) \/ StartAssign(w) \/ StartCall(w)
               \/ StartCapture(w) \/ StartRaises(w) \/ StartFlag(w) \/ StopCapture(w)
               \/ StopRaises(w) \/ StopMeta(w) \/ StopManifest(w) \/ ReplayOpen(w)
               \/ ReplayWrite(w) \/ ReplayWriteFails(w) \/ ExecuteCheck(w) \/ ExecuteDut(w) \/ SnapshotBegin(w)
        PROVE  UNCHANGED files
    BY <2>5
       DEF StartCheck, StartCreate, StartAssign, StartCall, StartCapture,
           StartRaises, StartFlag, StopCapture, StopRaises, StopMeta,
           StopManifest, ReplayOpen, ReplayWrite, ReplayWriteFails, ExecuteCheck, ExecuteDut,
           SnapshotBegin
  <2>6. CASE Restart \/ UNCHANGED vars
    BY <2>1, <2>6 DEF Restart, vars
  <2> QED
    BY <1>2, <2>1, <2>2, <2>3, <2>4, <2>5, <2>6
       DEF Next, StartMonitor, StopMonitor, Replay, Execute
<1>3. TypeInv /\ SerialInv /\ [Next]_vars => Same
  BY <1>0, <1>1, <1>2 DEF SameLines
<1>4. TypeInv /\ SerialInv /\ [Next]_vars =>
        [\A r \in sealed, k \in {"begin", "end", "api"} : files'[r][k] = files[r][k]]_vars
  BY <1>3
<1> QED
  BY <1>4, SerialInvariant, PTL DEF Spec, SealedActions
=============================================================================
