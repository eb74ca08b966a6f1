-------------------------- MODULE ConsolePage_proofs --------------------------
(***************************************************************************)
(* The console keeps what is proved of it when the page's own starts are    *)
(* among its requests: a step of the composition is a step of the console   *)
(* by some thread, a change of the device, or one of the page alone.        *)
(***************************************************************************)
EXTENDS ConsolePage, SecurityConsole_proofs

PageInv == TypeInv /\ PageTypeOK

LEMMA PageSteps ==
  ASSUME [PageNext]_pageVars
  PROVE  \/ \E w \in Workers : Step(w)
         \/ DeviceRestarts \/ OtherStarts \/ OtherStops
         \/ UNCHANGED vars
<1>1. ASSUME NEW w \in Requesters, Click(w) \/ Served(w) PROVE Step(w)
  BY <1>1 DEF Click, Served, Step
<1>2. ASSUME NEW p \in Pollers, RefreshState(p) PROVE Step(p) \/ UNCHANGED vars
  BY <1>2 DEF RefreshState, Ask, Answer, React, AutoStart, AutoRefused, AutoCall, StartEnds,
              Step, Inside
<1> QED
  BY <1>1, <1>2 DEF PageNext, DeviceChanges, pageVars, Workers

(* A call of refreshState() moves one poller, and its thread with it.       *)
LEMMA Moves ==
  ASSUME PageTypeOK, TypeOK', NEW p \in Pollers,
         NEW stage \in {"idle", "asked", "start", "posted"} \cup Answers,
         Becomes(p, stage), UNCHANGED <<connected, starting>>,
         \A q \in Pollers \ {p} : pc'[q] = pc[q],
         pc'[p] = "write" <=> stage = "asked",
         Locked(p)' => stage = "posted"
  PROVE  PageTypeOK'
  BY DEF PageTypeOK, Becomes, Locked

LEMMA PageTypeStep == PageInv /\ [PageNext]_pageVars => PageInv'
<1> SUFFICES ASSUME PageInv, [PageNext]_pageVars PROVE PageInv'
  OBVIOUS
<1>0. TypeInv' /\ TypeOK' /\ PcOK /\ PcOK'
  <2>1. TypeInv'
    BY PageSteps, WorkerTypes, DeviceTypes, TypeStutter DEF PageInv
  <2>2. PcOK
    BY Halves DEF PageInv, TypeInv
  <2> QED
    BY <2>1, <2>2 DEF TypeInv, TypeOK, PcOK
<1> USE DEF PageTypeOK, PageInv, Answers
<1>1. ASSUME NEW w \in Requesters, Click(w) \/ Served(w) PROVE PageTypeOK'
  <2>1. Step(w) /\ UNCHANGED page /\ w \in Workers /\ \A p \in Pollers : p \in Workers /\ p # w
    BY <1>1, ConsoleAssumption DEF Click, Served, Step, Workers, ConsoleAssumption
  <2>2. \A p \in Pollers : pc'[p] = pc[p]
    BY <1>0, <2>1, StepPc
  <2> QED
    BY <1>0, <2>1, <2>2 DEF page, Locked
<1>2. ASSUME NEW p \in Pollers, RefreshState(p) PROVE PageTypeOK'
  <2>1. p \in Workers /\ \A q \in Pollers : q \in Workers
    BY DEF Workers
  <2>2. CASE Ask(p)
    <3>1. call[p] = "idle" /\ UNCHANGED <<connected, starting>>
      BY <2>2 DEF Ask
    <3>2. \/ Becomes(p, "asked") /\ pc' = [pc EXCEPT ![p] = "write"]
          \/ \E stage \in Answers : Becomes(p, stage) /\ UNCHANGED pc
      BY <2>2 DEF Ask, PollStatus, Goto, Says, vars
    <3> QED
      BY <1>0, <2>1, <3>1, <3>2, Moves DEF Becomes, Locked, PcOK
  <2>6. CASE Answer(p)
    <3>1. /\ Becomes(p, Says(reply[p].running)) /\ pc' = [pc EXCEPT ![p] = "idle"]
          /\ UNCHANGED <<connected, starting>>
      BY <2>6 DEF Answer, PollWrite, Goto
    <3> QED
      BY <1>0, <2>1, <3>1, Moves DEF Becomes, Locked, PcOK, Says
  <2>3. CASE React(p) \/ AutoRefused(p) \/ StartEnds(p)
    <3>1. /\ call[p] # "asked" /\ UNCHANGED pc
          /\ connected' \in BOOLEAN /\ starting' \in BOOLEAN
      BY <2>3 DEF React, AutoRefused, StartEnds, vars
    <3>2. PICK stage \in {"idle", "start", "posted"} :
             Becomes(p, stage) /\ (call[p] = "posted" => pc[p] = "idle")
      BY <2>3 DEF React, AutoRefused, StartEnds
    <3> QED
      BY <1>0, <2>1, <3>1, <3>2 DEF Becomes, Locked
  <2>4. CASE AutoStart(p)
    BY <1>0, <2>1, <2>4 DEF AutoStart, StartBegin, Acquire, Becomes, Locked, PcOK
  <2>5. CASE AutoCall(p)
    <3>1. pc[p] \in {"autoStart", "start"} /\ call[p] = "posted" /\ UNCHANGED page
      BY <2>5 DEF AutoCall, StartCall, Locked
    <3>2. pc'[p] \in {"execute", "idle"} /\ (pc[p] = "start" => pc'[p] = "idle")
      BY <1>0, <2>1, <2>5 DEF AutoCall, StartCall, Goto, Leave, PcOK
    <3>3. \A q \in Workers \ {p} : pc'[q] = pc[q]
      BY <1>0, <2>1, <2>5, StepPc DEF AutoCall, Step, Inside
    <3> QED
      BY <1>0, <2>1, <3>1, <3>2, <3>3 DEF page, Locked
  <2> QED
    BY <1>2, <2>2, <2>3, <2>4, <2>5, <2>6 DEF RefreshState
<1>3. ASSUME DeviceChanges \/ UNCHANGED pageVars PROVE PageTypeOK'
  BY <1>0, <1>3 DEF DeviceChanges, DeviceRestarts, OtherStarts, OtherStops, pageVars, vars,
                    page, Locked
<1> QED
  BY <1>0, <1>1, <1>2, <1>3 DEF PageNext

LEMMA PageInvariant == PageSpec => []PageInv
<1>1. PageInit => PageInv
  BY TypeInit DEF PageInit, PageInv, PageTypeOK, TypeInv, Init, Locked, Workers
<1> QED
  BY <1>1, PageTypeStep, PTL DEF PageSpec

(* Every variable of the page keeps its type, for any number of calls of    *)
(* refreshState() and of clicks and any faults, and a request of the page   *)
(* is being served only while its call waits for it.                        *)
THEOREM PageTypeCorrect == PageSpec => []PageTypeOK
<1>1. PageInv => PageTypeOK
  BY DEF PageInv
<1> QED
  BY <1>1, PageInvariant, PTL

(* With the page's own starts among the requests still no action reaches a  *)
(* device that does not monitor.                                            *)
THEOREM PageActionsMonitored == ASSUME NobodyStops PROVE PageSpec => ActionMonitored
<1>1. PageInit => ExecuteInv
  BY DEF PageInit, Init, ExecuteInv
<1>2. PageInv /\ ExecuteInv /\ [PageNext]_pageVars => ExecuteInv'
  <2>1. ASSUME ExecuteInv, UNCHANGED vars PROVE ExecuteInv'
    BY <2>1 DEF ExecuteInv, vars, remote
  <2>2. ~DeviceRestarts /\ ~OtherStops
    BY DEF NobodyStops, DeviceRestarts, OtherStops
  <2> QED
    BY <2>1, <2>2, PageSteps, ExecuteStep, ExecuteOther DEF PageInv
<1>3. ExecuteInv => [\A w \in Requesters : ActionExecute(w) => device.started]_vars
  BY DEF ExecuteInv, ActionExecute, Workers
<1> QED
  BY <1>1, <1>2, <1>3, PageInvariant, PTL DEF PageSpec, ActionMonitored
=============================================================================
