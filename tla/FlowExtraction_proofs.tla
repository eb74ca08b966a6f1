-------------------------- MODULE FlowExtraction_proofs --------------------------
(***************************************************************************)
(* Proofs about what FlowAttribution extracts: which actions a flow is      *)
(* linked to, which packets it counts, and what the candidate policy and    *)
(* the differential analysis make of that, for files of any length.         *)
(***************************************************************************)
EXTENDS FlowAttribution_proofs, FiniteSetTheorems

-----------------------------------------------------------------------------
(* The calls behind the intervals. *)

Started(C, a, b) == \E x \in C : x.action = a /\ x.from = b

Covered(C, a, from, to) == \A t \in from..to : \E x \in C : x.action = a /\ Inside(t, x)

Open(a) == Pairs!Fold(0, events).begins[a]

(* An interval need not be one call: the begin of a call may be paired with *)
(* the end of an other one.  But then the calls overlap, so that the action *)
(* ran all the time between the two markers.                                *)
IntervalInv ==
  \A x \in ToSet(Intervals(events)) : /\ Started(Calls, x.action, x.from)
                                   /\ Covered(Calls, x.action, x.from, x.to)

OpenInv ==
  \A a \in Actions : Open(a) # NotBegun =>
    /\ Started(Calls, a, Open(a))
    /\ \A w \in Workers : call[w].stage \in {"running", "end"} /\ call[w].action = a
                            => Covered(Calls, a, Open(a), call[w].from)

CallInv == IntervalInv /\ OpenInv

Going(w) == Window(w, IF call[w].stage = "end" THEN call[w].to ELSE now, FALSE)

(* A call goes on until it is over, and stays what it was. *)
LEMMA CallsGoOn ==
  ASSUME TypeInv, TypeInv', [Next]_vars, NEW x \in Calls
  PROVE  \E y \in Calls' : /\ y.action = x.action /\ y.from = x.from
                           /\ x.to <= y.to /\ y.to \in Nat /\ x.to \in Nat
<1>1. now \in Nat /\ now' \in Nat /\ now <= now' /\ call \in [Workers -> Call]
  <2>1. Tick \/ now' = now
    BY DEF Next, BeginStamp, BeginAppend, EndStamp, EndAppend, Raise, Packet, vars
  <2> QED
    BY <2>1, Bounds DEF TypeInv, TypeOK, Call, Tick
<1>2. CASE x \in windows
  <2>1. x \in windows'
    BY <1>2 DEF Next, BeginStamp, BeginAppend, EndStamp, EndAppend, Raise, Packet, vars
  <2>2. x.to \in Nat
    BY <1>2 DEF TypeInv, TypeOK
  <2>3. x \in Calls'
    BY <2>1 DEF Calls
  <2> QED
    BY <2>2, <2>3
<1>3. ASSUME NEW w \in Workers, call[w].stage # "idle", x = Going(w)
      PROVE  \E y \in Calls' : /\ y.action = x.action /\ y.from = x.from
                               /\ x.to <= y.to /\ y.to \in Nat /\ x.to \in Nat
  <2> DEFINE Stays == /\ call'[w].stage # "idle" /\ call'[w].action = call[w].action
                      /\ call'[w].from = call[w].from
                      /\ x.to <= IF call'[w].stage = "end" THEN call'[w].to ELSE now'
             Gone == \E to \in Nat, e \in BOOLEAN : Window(w, to, e) \in windows' /\ x.to <= to
  <2>0. /\ x.action = call[w].action /\ x.from = call[w].from
        /\ x.to = IF call[w].stage = "end" THEN call[w].to ELSE now
    BY <1>3 DEF Going, Window
  <2>1. call[w].to \in Nat /\ x.to \in Nat
    BY <1>1, <2>0 DEF Call
  <2>2. CASE Stays
    <3>1. Going(w)' \in Calls'
      BY <2>2 DEF Calls, Going
    <3>2. (IF call'[w].stage = "end" THEN call'[w].to ELSE now') \in Nat
      BY <1>1, <1>3 DEF TypeInv, TypeOK
    <3> QED
      BY <2>0, <2>1, <2>2, <3>1, <3>2 DEF Going, Window
  <2>3. CASE Gone
    BY <2>0, <2>1, <2>3 DEF Calls, Window
  <2>4. ASSUME call'[w] = call[w] PROVE Stays
    BY <1>1, <1>3, <2>0, <2>1, <2>4
  <2>5. ASSUME NEW action \in Actions, BeginStamp(w, action) PROVE FALSE
    BY <1>3, <2>5 DEF BeginStamp
  <2>6. ASSUME BeginAppend(w) PROVE Stays
    BY <1>1, <1>3, <2>0, <2>1, <2>6 DEF BeginAppend
  <2>7. ASSUME EndStamp(w) PROVE Stays
    BY <1>1, <1>3, <2>0, <2>1, <2>7 DEF EndStamp
  <2>8. ASSUME EndAppend(w) PROVE Gone
    <3>1. Window(w, call[w].to, TRUE) \in windows' /\ x.to <= call[w].to
      BY <1>3, <2>0, <2>1, <2>8 DEF EndAppend
    <3> QED
      BY <2>1, <3>1
  <2>9. ASSUME Raise(w) PROVE Gone
    BY <1>1, <1>3, <2>0, <2>1, <2>9 DEF Raise
  <2>10. \/ call'[w] = call[w]
         \/ \E action \in Actions : BeginStamp(w, action)
         \/ BeginAppend(w) \/ EndStamp(w) \/ EndAppend(w) \/ Raise(w)
    BY <1>1, ZenonT(60) DEF Next, BeginStamp, BeginAppend, EndStamp, EndAppend, Raise, Packet, vars
  <2> QED
    BY <2>2, <2>3, <2>4, <2>5, <2>6, <2>7, <2>8, <2>9, <2>10
<1> QED
  BY <1>2, <1>3 DEF Calls, Going

LEMMA CoverageKept ==
  ASSUME TypeInv, TypeInv', [Next]_vars
  PROVE  /\ \A a, b : Started(Calls, a, b) => Started(Calls', a, b)
         /\ \A a, from, to : Covered(Calls, a, from, to) => Covered(Calls', a, from, to)
<1>1. \A x \in Calls : x.from \in Int
  BY DEF Calls, Window, TypeInv, TypeOK
<1>2. ASSUME NEW x \in Calls, NEW t \in Int, Inside(t, x)
      PROVE  \E y \in Calls' : y.action = x.action /\ Inside(t, y)
  BY <1>2, CallsGoOn DEF Inside
<1>3. \A a, b : Started(Calls, a, b) => Started(Calls', a, b)
  BY CallsGoOn DEF Started
<1>4. \A a, from, to : Covered(Calls, a, from, to) => Covered(Calls', a, from, to)
  <2>1. \A from, to : from..to \subseteq Int
    OBVIOUS
  <2> QED
    BY <1>2, <2>1 DEF Covered
<1> QED
  BY <1>3, <1>4

LEMMA OpenType ==
  ASSUME TypeInv
  PROVE  /\ Intervals(events) \in Seq(Interval)
         /\ \A a \in Actions : Open(a) \in Nat
<1>1. events \in Seq(Mark)
  BY StateTypes
<1>2. Pairs!Fold(0, events) \in Pairing
  BY <1>1, PairingType
<1> QED
  BY <1>1, <1>2, IntervalsType DEF Pairing, Open

LEMMA CallInit == Init => CallInv
<1> SUFFICES ASSUME Init PROVE CallInv
  OBVIOUS
<1>1. Pairs!Fold(0, events) = NothingPaired
  BY Pairs!FoldEmpty DEF Init
<1>2. Intervals(events) = <<>>
  BY <1>1, IntervalsFold DEF NothingPaired
<1>3. ToSet(Intervals(events)) = {}
  BY <1>2 DEF ToSet
<1>4. \A a \in Actions : Open(a) = NotBegun
  BY <1>1 DEF Open, NothingPaired
<1> QED
  BY <1>3, <1>4 DEF CallInv, IntervalInv, OpenInv

LEMMA NewMarker ==
  ASSUME TypeInv, NEW e \in Mark, events' = Append(events, e)
  PROVE  IF e.type = "begin"
         THEN /\ Intervals(events') = Intervals(events)
              /\ \A a \in Actions : Open(a)' = IF a = e.action THEN e.at ELSE Open(a)
         ELSE IF Open(e.action) = NotBegun
         THEN /\ Intervals(events') = Intervals(events)
              /\ \A a \in Actions : Open(a)' = Open(a)
         ELSE /\ Intervals(events') =
                   Append(Intervals(events),
                          [action |-> e.action, from |-> Open(e.action), to |-> e.at])
              /\ \A a \in Actions : Open(a)' = IF a = e.action THEN NotBegun ELSE Open(a)
<1> DEFINE acc == Pairs!Fold(0, events)
<1>1. events \in Seq(Mark) /\ acc \in Pairing
  BY StateTypes, PairingType
<1>2. Pairs!Fold(0, events') = Paired(acc, e)
  BY <1>1, Pairs!FoldAppend DEF PairStep
<1>3. Intervals(events) = acc.done /\ Intervals(events') = Paired(acc, e).done
  BY <1>2, IntervalsFold
<1>4. \A a : Open(a) = acc.begins[a] /\ Open(a)' = Paired(acc, e).begins[a]
  BY <1>2 DEF Open
<1> HIDE DEF acc
<1>5. acc.begins \in [Actions -> Nat] /\ e.action \in Actions
  BY <1>1 DEF Pairing, Mark
<1> QED
  BY <1>1, <1>3, <1>4, <1>5 DEF Paired, Pairing

(* A step that appends no marker. *)
LEMMA QuietStep ==
  ASSUME TypeInv, TypeInv', CallInv, [Next]_vars, events' = events,
         \A w \in Workers : call'[w].stage \in {"running", "end"} =>
           /\ call[w].stage \in {"running", "end"} /\ call'[w].action = call[w].action
           /\ call'[w].from = call[w].from
  PROVE  CallInv'
<1>1. Intervals(events') = Intervals(events) /\ \A a : Open(a)' = Open(a)
  BY DEF Open
<1>2. IntervalInv'
  BY <1>1, CoverageKept DEF CallInv, IntervalInv
<1>3. ASSUME NEW a \in Actions, Open(a)' # NotBegun
      PROVE  Started(Calls', a, Open(a)')
  BY <1>1, <1>3, CoverageKept DEF CallInv, OpenInv
<1>4. ASSUME NEW a \in Actions, Open(a)' # NotBegun, NEW w \in Workers,
             call'[w].stage \in {"running", "end"}, call'[w].action = a
      PROVE  Covered(Calls', a, Open(a)', call'[w].from)
  <2>1. Covered(Calls, a, Open(a), call[w].from)
    BY <1>1, <1>4 DEF CallInv, OpenInv
  <2> QED
    BY <1>1, <1>4, <2>1, CoverageKept
<1>5. OpenInv'
  BY <1>3, <1>4 DEF OpenInv
<1> QED
  BY <1>2, <1>5 DEF CallInv

LEMMA BeginStep ==
  ASSUME TypeInv, TypeInv', CallInv, NEW w \in Workers, BeginAppend(w)
  PROVE  CallInv'
<1> DEFINE e == Marker(w, "begin")
<1>0. [Next]_vars
  BY DEF Next
<1>1. /\ call \in [Workers -> Call] /\ now \in Nat /\ now' = now
      /\ call[w].stage = "begin" /\ call[w].from \in 1..now /\ call[w].action \in Actions
      /\ call' = [call EXCEPT ![w].stage = "running"]
  BY Bounds DEF BeginAppend, TypeInv, TypeOK, Call, Stamped
<1>2. events' = Append(events, e) /\ e \in Mark
  BY <1>1 DEF BeginAppend, Marker, Mark
<1>3. e.type = "begin" /\ e.action = call[w].action /\ e.at = call[w].from
  BY DEF Marker
<1> HIDE DEF e
<1>4. /\ Intervals(events') = Intervals(events)
      /\ \A a \in Actions : Open(a)' = IF a = call[w].action THEN call[w].from ELSE Open(a)
  BY <1>2, <1>3, NewMarker
<1>5. IntervalInv'
  BY <1>0, <1>4, CoverageKept DEF CallInv, IntervalInv
<1>6. [action |-> call[w].action, from |-> call[w].from, to |-> now, ended |-> FALSE] \in Calls'
  <2>1. /\ call'[w].stage = "running" /\ call'[w].action = call[w].action
        /\ call'[w].from = call[w].from
    BY <1>1 DEF Call
  <2> QED
    BY <1>1, <2>1 DEF Calls, Window
<1>7. ASSUME NEW a \in Actions, Open(a)' # NotBegun
      PROVE  Started(Calls', a, Open(a)')
  <2>1. CASE a = call[w].action
    BY <1>4, <1>6, <2>1 DEF Started
  <2>2. CASE a # call[w].action
    BY <1>0, <1>4, <1>7, <2>2, CoverageKept DEF CallInv, OpenInv
  <2> QED
    BY <2>1, <2>2
<1>8. ASSUME NEW a \in Actions, Open(a)' # NotBegun, NEW v \in Workers,
             call'[v].stage \in {"running", "end"}, call'[v].action = a
      PROVE  Covered(Calls', a, Open(a)', call'[v].from)
  <2>1. CASE a = call[w].action
    <3>1. call'[v].from \in Int /\ call'[v].from <= now
      BY <1>1 DEF TypeInv, TypeOK
    <3>2. \A t \in call[w].from..call'[v].from : call[w].from <= t /\ t <= now
      BY <1>1, <3>1
    <3> QED
      BY <1>4, <1>6, <2>1, <3>2 DEF Covered, Inside
  <2>2. CASE a # call[w].action
    <3>1. v # w /\ call'[v] = call[v]
      BY <1>1, <1>8, <2>2
    <3>2. Covered(Calls, a, Open(a), call[v].from)
      BY <1>4, <1>8, <2>2, <3>1 DEF CallInv, OpenInv
    <3> QED
      BY <1>0, <1>4, <2>2, <3>1, <3>2, CoverageKept
  <2> QED
    BY <2>1, <2>2
<1>9. OpenInv'
  BY <1>7, <1>8 DEF OpenInv
<1> QED
  BY <1>5, <1>9 DEF CallInv

LEMMA EndStep ==
  ASSUME TypeInv, TypeInv', CallInv, NEW w \in Workers, EndAppend(w)
  PROVE  CallInv'
<1> DEFINE e == Marker(w, "end")
           a == call[w].action
<1>0. [Next]_vars
  BY DEF Next
<1>1. /\ call \in [Workers -> Call] /\ call[w].stage = "end" /\ a \in Actions
      /\ call[w].from \in Nat /\ call[w].to \in Nat /\ call' = [call EXCEPT ![w] = NoCall]
  BY Bounds DEF EndAppend, TypeInv, TypeOK, Call, Stamped
<1>2. events' = Append(events, e) /\ e \in Mark
  BY <1>1 DEF EndAppend, Marker, Mark
<1>3. e.type = "end" /\ e.action = a /\ e.at = call[w].to
  BY DEF Marker
<1> HIDE DEF e
<1>4. \/ /\ Intervals(events') = Intervals(events)
         /\ \A b \in Actions : Open(b)' = Open(b)
      \/ /\ Open(a) # NotBegun
         /\ Intervals(events') =
              Append(Intervals(events), [action |-> a, from |-> Open(a), to |-> call[w].to])
         /\ \A b \in Actions : Open(b)' = IF b = a THEN NotBegun ELSE Open(b)
  BY <1>2, <1>3, NewMarker
<1>5. IntervalInv'
  <2>1. CASE Intervals(events') = Intervals(events)
    BY <1>0, <2>1, CoverageKept DEF CallInv, IntervalInv
  <2>2. ASSUME Open(a) # NotBegun,
               Intervals(events') =
                 Append(Intervals(events), [action |-> a, from |-> Open(a), to |-> call[w].to])
        PROVE  IntervalInv'
    <3>1. Started(Calls', a, Open(a))
      BY <1>0, <1>1, <2>2, CoverageKept DEF CallInv, OpenInv
    <3>2. Covered(Calls', a, Open(a), call[w].from)
      BY <1>0, <1>1, <2>2, CoverageKept DEF CallInv, OpenInv
    <3>3. [action |-> a, from |-> call[w].from, to |-> call[w].to, ended |-> TRUE] \in Calls'
      BY DEF EndAppend, Calls, Window
    <3>4. Covered(Calls', a, Open(a), call[w].to)
      <4>1. Open(a) \in Nat
        BY <1>1, OpenType
      <4>2. \A t \in Open(a)..call[w].to : \/ t \in Open(a)..call[w].from
                                            \/ (call[w].from <= t /\ t <= call[w].to)
        BY <1>1, <4>1
      <4> HIDE DEF a
      <4> QED
        BY <3>2, <3>3, <4>2 DEF Covered, Inside
    <3>5. \A x \in ToSet(Intervals(events')) :
            \/ x \in ToSet(Intervals(events))
            \/ x = [action |-> a, from |-> Open(a), to |-> call[w].to]
      BY <2>2, OpenType DEF ToSet
    <3> QED
      BY <1>0, <3>1, <3>4, <3>5, CoverageKept DEF CallInv, IntervalInv
  <2> QED
    BY <1>4, <2>1, <2>2
<1>6. ASSUME NEW b \in Actions, Open(b)' # NotBegun
      PROVE  Started(Calls', b, Open(b)')
  <2>1. Open(b)' = Open(b)
    BY <1>4, <1>6
  <2> QED
    BY <1>0, <1>6, <2>1, CoverageKept DEF CallInv, OpenInv
<1>7. ASSUME NEW b \in Actions, Open(b)' # NotBegun, NEW v \in Workers,
             call'[v].stage \in {"running", "end"}, call'[v].action = b
      PROVE  Covered(Calls', b, Open(b)', call'[v].from)
  <2>1. Open(b)' = Open(b)
    BY <1>4, <1>7
  <2>2. call'[v] = call[v]
    BY <1>1, <1>7 DEF NoCall
  <2>3. Covered(Calls, b, Open(b), call[v].from)
    BY <1>7, <2>1, <2>2 DEF CallInv, OpenInv
  <2> QED
    BY <1>0, <2>1, <2>2, <2>3, CoverageKept
<1>8. OpenInv'
  BY <1>6, <1>7 DEF OpenInv
<1> QED
  BY <1>5, <1>8 DEF CallInv

LEMMA CallStep == TypeInv /\ TypeInv' /\ CallInv /\ [Next]_vars => CallInv'
<1> SUFFICES ASSUME TypeInv, TypeInv', CallInv, [Next]_vars PROVE CallInv'
  OBVIOUS
<1> DEFINE Same(w) == call'[w].stage \in {"running", "end"} =>
                        /\ call[w].stage \in {"running", "end"}
                        /\ call'[w].action = call[w].action
                        /\ call'[w].from = call[w].from
           Quiet == events' = events /\ \A w \in Workers : Same(w)
<1>0. call \in [Workers -> Call]
  BY DEF TypeInv, TypeOK, Call
<1>1. ASSUME NEW w \in Workers, NEW action \in Actions, BeginStamp(w, action) PROVE Quiet
  BY <1>0, <1>1 DEF BeginStamp
<1>2. ASSUME NEW w \in Workers, EndStamp(w) PROVE Quiet
  BY <1>0, <1>2 DEF EndStamp, Call
<1>3. ASSUME NEW w \in Workers, Raise(w) PROVE Quiet
  BY <1>0, <1>3 DEF Raise, NoCall
<1>4. ASSUME NEW c \in Connections, Packet(c) PROVE Quiet
  BY <1>4 DEF Packet
<1>5. CASE UNCHANGED vars
  <2>1. Quiet
    BY <1>5 DEF vars
  <2> QED
    BY <2>1, QuietStep
<1> QED
  BY <1>1, <1>2, <1>3, <1>4, <1>5, QuietStep, BeginStep, EndStep DEF Next

-----------------------------------------------------------------------------
(* The scenario_ids of a flow. *)

Scenarios == Actions \cup {Unattributed}

(* scenario_ids are the actions that the packets of the flow were given, or *)
(* "unattributed" alone if they were given none.                            *)
IdsOf(ids, given) ==
  \/ ids = <<>> /\ given = {}
  \/ ids = <<Unattributed>> /\ given = {Unattributed}
  \/ ids \in Seq(Actions) /\ ids # <<>> /\ ToSet(ids) = given \ {Unattributed}

LEMMA NotAnAction == Unattributed \notin Actions
BY FlowAssumption DEF FlowAssumption

LEMMA FirstRemoved ==
  /\ RemoveFirst(<<>>, Unattributed) = <<>>
  /\ RemoveFirst(<<Unattributed>>, Unattributed) = <<>>
  /\ \A ids \in Seq(Actions) : RemoveFirst(ids, Unattributed) = ids
<1>1. RemoveFirst(<<>>, Unattributed) = <<>>
  BY DEF RemoveFirst
<1>2. RemoveFirst(<<Unattributed>>, Unattributed) = <<>>
  <2> DEFINE s == <<Unattributed>>
             I == {i \in 1..Len(s) : s[i] = Unattributed}
  <2>1. I = {1}
    OBVIOUS
  <2>2. SelectInSeq(s, LAMBDA v : v = Unattributed) = Min(I)
    BY <2>1 DEF SelectInSeq
  <2>3. Min(I) = 1
    BY <2>1, Least
  <2>4. RemoveAt(s, 1) = <<>>
    BY DEF RemoveAt
  <2>5. \E i \in 1..Len(s) : s[i] = Unattributed
    BY <2>1
  <2> HIDE DEF s, I
  <2>6. RemoveFirst(s, Unattributed) = <<>>
    BY <2>2, <2>3, <2>4, <2>5 DEF RemoveFirst
  <2> QED
    BY <2>6 DEF s
<1>3. \A ids \in Seq(Actions) : RemoveFirst(ids, Unattributed) = ids
  <2> TAKE ids \in Seq(Actions)
  <2>1. ~ \E i \in 1..Len(ids) : ids[i] = Unattributed
    BY NotAnAction
  <2> QED
    BY <2>1 DEF RemoveFirst
<1> QED
  BY <1>1, <1>2, <1>3

LEMMA LinkedIds ==
  ASSUME NEW given, NEW scenario \in Scenarios, NEW ids, IdsOf(ids, given)
  PROVE  IdsOf(Linked(ids, scenario), given \cup {scenario})
<1>1. CASE scenario = Unattributed
  <2>1. Linked(ids, scenario) = IF ids = <<>> THEN <<Unattributed>> ELSE ids
    BY <1>1 DEF Linked
  <2> QED
    BY <1>1, <2>1 DEF IdsOf
<1>2. CASE scenario # Unattributed /\ Contains(ids, scenario)
  <2>1. Linked(ids, scenario) = ids
    BY <1>2 DEF Linked, Contains
  <2>2. ids \in Seq(Actions) /\ ids # <<>> /\ ToSet(ids) = given \ {Unattributed}
    <3>1. ~Contains(<<>>, scenario) /\ ~Contains(<<Unattributed>>, scenario)
      BY <1>2 DEF Contains
    <3> QED
      BY <1>2, <3>1 DEF IdsOf
  <2>3. scenario \in ToSet(ids)
    BY <1>2, <2>2 DEF Contains, ToSet
  <2> QED
    BY <1>2, <2>1, <2>2, <2>3 DEF IdsOf
<1>3. CASE scenario # Unattributed /\ ~Contains(ids, scenario)
  <2>0. scenario \in Actions
    BY <1>3 DEF Scenarios
  <2>1. Linked(ids, scenario) = Append(RemoveFirst(ids, Unattributed), scenario)
    BY <1>3 DEF Linked
  <2>2. ASSUME given \subseteq {Unattributed}, RemoveFirst(ids, Unattributed) = <<>>
        PROVE  IdsOf(Linked(ids, scenario), given \cup {scenario})
    <3>1. Linked(ids, scenario) = <<scenario>> /\ <<scenario>> \in Seq(Actions)
      BY <2>0, <2>1, <2>2
    <3>2. ToSet(<<scenario>>) = {scenario}
      BY DEF ToSet
    <3> QED
      BY <1>3, <2>2, <3>1, <3>2 DEF IdsOf
  <2>3. ASSUME ids \in Seq(Actions), ids # <<>>, ToSet(ids) = given \ {Unattributed}
        PROVE  IdsOf(Linked(ids, scenario), given \cup {scenario})
    <3>1. Linked(ids, scenario) = Append(ids, scenario)
      BY <2>1, <2>3, FirstRemoved
    <3>2. /\ Append(ids, scenario) \in Seq(Actions) /\ Append(ids, scenario) # <<>>
          /\ ToSet(Append(ids, scenario)) = ToSet(ids) \cup {scenario}
      BY <2>0, <2>3, AppendProperties DEF ToSet
    <3> QED
      BY <1>3, <2>3, <3>1, <3>2 DEF IdsOf
  <2> QED
    BY <2>2, <2>3, FirstRemoved DEF IdsOf
<1> QED
  BY <1>1, <1>2, <1>3

-----------------------------------------------------------------------------
(* extract_flows. *)

FlowStep(intervals, flows, p) == WithPacket(flows, p, intervals)

Extracts == INSTANCE SequenceFolds WITH Step <- FlowStep, Base <- <<>>

Key  == {FlowKey(p) : p \in Traffic}
Flow == [key : Key, packetsOut : Nat, packetsIn : Nat, scenarioIds : Seq(Scenarios),
         role : {Role(scenario) : scenario \in Scenarios} \cup {"mock_sink"}]

WithKey(s, key) == {p \in ToSet(s) : Kept(p) /\ FlowKey(p) = key}

(* One flow stands for all the packets of its key in s. *)
Tallies(flow, s, intervals) ==
  LET all == WithKey(s, flow.key) IN
  /\ IdsOf(flow.scenarioIds, {ScenarioFor(p.at, intervals) : p \in all})
  /\ flow.packetsOut = Cardinality({p \in all : Outbound(p)})
  /\ flow.packetsIn = Cardinality({p \in all : ~Outbound(p)})

Extracted(flows, s, intervals) ==
  /\ flows \in Seq(Flow)
  /\ \A i, j \in 1..Len(flows) : flows[i].key = flows[j].key => i = j
  /\ \A p \in ToSet(s) : Kept(p) => \E i \in 1..Len(flows) : flows[i].key = FlowKey(p)
  /\ \A i \in 1..Len(flows) : /\ WithKey(s, flows[i].key) # {}
                              /\ Tallies(flows[i], s, intervals)

LEMMA FlowsFold == Flows = Extracts!Fold(Intervals(events), packets)
BY DEF Flows, Extracts!Fold, Extracts!IsFold, Extracts!Largest, FlowStep,
       FoldLeft, MapThenFoldSet, Max

LEMMA ScenarioType ==
  ASSUME NEW s \in Seq(Interval), NEW epoch \in Nat
  PROVE  ScenarioFor(epoch, s) \in Scenarios
<1>1. ToSet(s) \subseteq Interval
  BY DEF ToSet
<1> QED
  BY <1>1, ScenarioSound DEF Scenarios, Interval

LEMMA OneMore ==
  ASSUME NEW E, NEW s \in Seq(E), NEW p \in E
  PROVE  ToSet(Append(s, p)) = ToSet(s) \cup {p}
BY AppendProperties DEF ToSet

LEMMA FilesFinite == \A s \in Seq(Traffic) : IsFiniteSet(ToSet(s))
<1> DEFINE T == {s \in Seq(Traffic) : IsFiniteSet(ToSet(s))}
<1>1. <<>> \in T
  <2>1. ToSet(<<>>) = {}
    BY DEF ToSet
  <2> QED
    BY <2>1, FS_EmptySet
<1>2. ASSUME NEW s \in T, NEW p \in Traffic PROVE Append(s, p) \in T
  BY OneMore, FS_AddElement
<1>3. T = Seq(Traffic)
  BY <1>1, <1>2, Extracts!SeqInduction
<1> QED
  BY <1>3

Known(flows, key) == SelectInSeq(flows, LAMBDA f : f.key = key)

LEMMA KnownFlow ==
  ASSUME NEW flows \in Seq(Flow), NEW key
  PROVE  \/ /\ Known(flows, key) = 0
            /\ \A i \in 1..Len(flows) : flows[i].key # key
         \/ /\ Known(flows, key) \in 1..Len(flows) /\ Known(flows, key) > 0
            /\ flows[Known(flows, key)].key = key
<1> DEFINE I == {i \in 1..Len(flows) : flows[i].key = key}
<1>1. Known(flows, key) = IF I # {} THEN Min(I) ELSE 0
  BY DEF Known, SelectInSeq
<1>2. I \in SUBSET Nat
  OBVIOUS
<1>3. I # {} => Min(I) \in I
  BY <1>2, Least
<1> QED
  BY <1>1, <1>3

(* One more packet in a flow of its key, the first included. *)
LEMMA OneMoreTallied ==
  ASSUME NEW s \in Seq(Traffic), NEW p \in Traffic, p \notin ToSet(s), Kept(p),
         NEW intervals \in Seq(Interval), NEW flow \in Flow, flow.key = FlowKey(p),
         Tallies(flow, s, intervals)
  PROVE  /\ Counted(flow, p, intervals) \in Flow
         /\ Counted(flow, p, intervals).key = flow.key
         /\ WithKey(Append(s, p), flow.key) # {}
         /\ Tallies(Counted(flow, p, intervals), Append(s, p), intervals)
<1> DEFINE all == WithKey(s, flow.key)
           more == WithKey(Append(s, p), flow.key)
           scenario == ScenarioFor(p.at, intervals)
           ids == Linked(flow.scenarioIds, scenario)
           new == Counted(flow, p, intervals)
<1>1. more = all \cup {p} /\ p \notin all
  BY OneMore DEF WithKey
<1>2. scenario \in Scenarios
  BY ScenarioType DEF Traffic
<1>3. IdsOf(ids, {ScenarioFor(q.at, intervals) : q \in more})
  <2>1. {ScenarioFor(q.at, intervals) : q \in more}
          = {ScenarioFor(q.at, intervals) : q \in all} \cup {scenario}
    BY <1>1
  <2> DEFINE given == {ScenarioFor(q.at, intervals) : q \in all}
  <2>2. IdsOf(flow.scenarioIds, given)
    BY DEF Tallies
  <2> HIDE DEF given, scenario, all, more
  <2>3. IdsOf(ids, given \cup {scenario})
    BY <1>2, <2>2, LinkedIds
  <2> QED
    BY <2>1, <2>3 DEF given, scenario
<1>4. ids \in Seq(Scenarios)
  <2>1. Seq(Actions) \subseteq Seq(Scenarios)
    BY DEF Scenarios
  <2>2. <<>> \in Seq(Scenarios) /\ <<Unattributed>> \in Seq(Scenarios)
    BY DEF Scenarios
  <2> QED
    BY <1>3, <2>1, <2>2 DEF IdsOf
<1>5. /\ new \in Flow /\ new.key = flow.key /\ new.scenarioIds = ids
      /\ new.packetsOut = IF Outbound(p) THEN flow.packetsOut + 1 ELSE flow.packetsOut
      /\ new.packetsIn = IF Outbound(p) THEN flow.packetsIn ELSE flow.packetsIn + 1
  <2> HIDE DEF ids, scenario
  <2>1. new = [flow EXCEPT !.packetsOut = IF Outbound(p) THEN @ + 1 ELSE @,
                           !.packetsIn = IF Outbound(p) THEN @ ELSE @ + 1,
                           !.scenarioIds = ids,
                           !.role = IF scenario # Unattributed /\ ids # flow.scenarioIds
                                    THEN Role(scenario) ELSE @]
    BY DEF Counted, ids, scenario
  <2> HIDE DEF new
  <2>2. /\ new.key = flow.key /\ new.scenarioIds = ids
        /\ new.packetsOut = IF Outbound(p) THEN flow.packetsOut + 1 ELSE flow.packetsOut
        /\ new.packetsIn = IF Outbound(p) THEN flow.packetsIn ELSE flow.packetsIn + 1
        /\ new.role = IF scenario # Unattributed /\ ids # flow.scenarioIds
                      THEN Role(scenario) ELSE flow.role
        /\ new = [key |-> new.key, packetsOut |-> new.packetsOut, packetsIn |-> new.packetsIn,
                  scenarioIds |-> new.scenarioIds, role |-> new.role]
    BY <2>1 DEF Flow
  <2>3. /\ new.packetsOut \in Nat /\ new.packetsIn \in Nat /\ new.key \in Key
        /\ new.scenarioIds \in Seq(Scenarios)
        /\ new.role \in {Role(c) : c \in Scenarios} \cup {"mock_sink"}
    BY <1>2, <1>4, <2>2 DEF Flow
  <2>4. new \in Flow
    BY <2>2, <2>3 DEF Flow
  <2> QED
    BY <2>2, <2>4
<1>6. IsFiniteSet({q \in all : Outbound(q)}) /\ IsFiniteSet({q \in all : ~Outbound(q)})
  <2>1. IsFiniteSet(ToSet(s))
    BY FilesFinite
  <2> QED
    BY <2>1, FS_Subset DEF WithKey
<1>7. /\ flow.packetsOut = Cardinality({q \in all : Outbound(q)})
      /\ flow.packetsIn = Cardinality({q \in all : ~Outbound(q)})
  BY DEF Tallies
<1> HIDE DEF all, more
<1>8. CASE Outbound(p)
  <2>1. /\ {q \in more : Outbound(q)} = {q \in all : Outbound(q)} \cup {p}
        /\ {q \in more : ~Outbound(q)} = {q \in all : ~Outbound(q)}
    BY <1>1, <1>8
  <2>2. Cardinality({q \in all : Outbound(q)} \cup {p}) = Cardinality({q \in all : Outbound(q)}) + 1
    BY <1>1, <1>6, FS_AddElement
  <2>3. /\ new.packetsOut = Cardinality({q \in more : Outbound(q)})
        /\ new.packetsIn = Cardinality({q \in more : ~Outbound(q)})
    BY <1>5, <1>7, <1>8, <2>1, <2>2
  <2> QED
    BY <1>1, <1>3, <1>5, <2>3 DEF Tallies, more
<1>9. CASE ~Outbound(p)
  <2>1. /\ {q \in more : ~Outbound(q)} = {q \in all : ~Outbound(q)} \cup {p}
        /\ {q \in more : Outbound(q)} = {q \in all : Outbound(q)}
    BY <1>1, <1>9
  <2>2. Cardinality({q \in all : ~Outbound(q)} \cup {p}) = Cardinality({q \in all : ~Outbound(q)}) + 1
    BY <1>1, <1>6, FS_AddElement
  <2>3. /\ new.packetsOut = Cardinality({q \in more : Outbound(q)})
        /\ new.packetsIn = Cardinality({q \in more : ~Outbound(q)})
    BY <1>5, <1>7, <1>9, <2>1, <2>2
  <2> QED
    BY <1>1, <1>3, <1>5, <2>3 DEF Tallies, more
<1> QED
  BY <1>8, <1>9

(* A packet of another key leaves a flow alone. *)
LEMMA OthersTallied ==
  ASSUME NEW s \in Seq(Traffic), NEW p \in Traffic, NEW intervals, NEW flow,
         ~Kept(p) \/ flow.key # FlowKey(p)
  PROVE  /\ WithKey(Append(s, p), flow.key) = WithKey(s, flow.key)
         /\ Tallies(flow, s, intervals) => Tallies(flow, Append(s, p), intervals)
<1>1. WithKey(Append(s, p), flow.key) = WithKey(s, flow.key)
  BY OneMore DEF WithKey
<1> QED
  BY <1>1 DEF Tallies

LEMMA ExtractedStep ==
  ASSUME NEW s \in Seq(Traffic), NEW p \in Traffic, p \notin ToSet(s),
         NEW intervals \in Seq(Interval), NEW flows, Extracted(flows, s, intervals)
  PROVE  Extracted(WithPacket(flows, p, intervals), Append(s, p), intervals)
<1> DEFINE more  == Append(s, p)
           known == Known(flows, FlowKey(p))
           new   == WithPacket(flows, p, intervals)
<1>1. flows \in Seq(Flow) /\ Len(flows) \in Nat
  BY DEF Extracted
<1>2. \A q \in ToSet(more) : q \in ToSet(s) \/ q = p
  BY OneMore
<1>3. CASE ~Kept(p)
  <2>1. new = flows
    BY <1>3 DEF WithPacket
  <2>2. \A i \in 1..Len(flows) : /\ WithKey(more, flows[i].key) # {}
                                 /\ Tallies(flows[i], more, intervals)
    BY <1>3, OthersTallied DEF Extracted
  <2> QED
    BY <1>2, <1>3, <2>1, <2>2 DEF Extracted
<1>4. CASE Kept(p) /\ known > 0
  <2>1. known \in 1..Len(flows) /\ flows[known].key = FlowKey(p) /\ flows[known] \in Flow
    BY <1>1, <1>4, KnownFlow
  <2>2. new = [flows EXCEPT ![known] = Counted(flows[known], p, intervals)]
    BY <1>1, <1>4, <2>1 DEF WithPacket, Known
  <2>3. /\ Counted(flows[known], p, intervals) \in Flow
        /\ Counted(flows[known], p, intervals).key = flows[known].key
        /\ WithKey(more, flows[known].key) # {}
        /\ Tallies(Counted(flows[known], p, intervals), more, intervals)
    BY <1>4, <2>1, OneMoreTallied DEF Extracted
  <2> HIDE DEF known, new, more
  <2>4. new \in Seq(Flow) /\ Len(new) = Len(flows)
    BY <1>1, <2>1, <2>2, <2>3, ExceptSeq
  <2>5. \A i \in 1..Len(flows) :
          new[i] = IF i = known THEN Counted(flows[known], p, intervals) ELSE flows[i]
    BY <1>1, <2>1, <2>2
  <2>6. \A i \in 1..Len(flows) : new[i].key = flows[i].key
    BY <2>3, <2>5
  <2>7. \A i, j \in 1..Len(new) : new[i].key = new[j].key => i = j
    BY <2>4, <2>6 DEF Extracted
  <2>8. \A q \in ToSet(more) : Kept(q) => \E i \in 1..Len(new) : new[i].key = FlowKey(q)
    BY <1>2, <2>1, <2>4, <2>6 DEF Extracted
  <2>9. ASSUME NEW i \in 1..Len(flows)
        PROVE  WithKey(more, new[i].key) # {} /\ Tallies(new[i], more, intervals)
    <3>1. CASE i = known
      BY <2>3, <2>5, <3>1
    <3>2. CASE i # known
      <4>1. new[i] = flows[i] /\ flows[i].key # FlowKey(p)
        BY <2>1, <2>5, <3>2 DEF Extracted
      <4> QED
        BY <4>1, OthersTallied DEF Extracted, more
    <3> QED
      BY <3>1, <3>2
  <2> QED
    BY <2>4, <2>7, <2>8, <2>9 DEF Extracted, new, more
<1>5. CASE Kept(p) /\ ~(known > 0)
  <2> DEFINE first == Counted(NewFlow(FlowKey(p)), p, intervals)
  <2>1. \A i \in 1..Len(flows) : flows[i].key # FlowKey(p)
    BY <1>1, <1>5, KnownFlow
  <2>2. new = Append(flows, first)
    BY <1>5 DEF WithPacket, Known
  <2>3. WithKey(s, FlowKey(p)) = {}
    BY <2>1 DEF Extracted, WithKey
  <2>4. NewFlow(FlowKey(p)) \in Flow /\ NewFlow(FlowKey(p)).key = FlowKey(p)
    BY DEF NewFlow, Flow, Key
  <2>5. Tallies(NewFlow(FlowKey(p)), s, intervals)
    BY <2>3, FS_EmptySet DEF NewFlow, Tallies, IdsOf
  <2>6. /\ first \in Flow /\ first.key = FlowKey(p)
        /\ WithKey(more, FlowKey(p)) # {} /\ Tallies(first, more, intervals)
    BY <1>5, <2>4, <2>5, OneMoreTallied
  <2> HIDE DEF known, new, more, first
  <2>7. /\ new \in Seq(Flow) /\ Len(new) = Len(flows) + 1
        /\ \A i \in 1..Len(flows) : new[i] = flows[i]
        /\ new[Len(flows) + 1] = first
    BY <1>1, <2>2, <2>6
  <2>8. \A i \in 1..Len(new) : i \in 1..Len(flows) \/ i = Len(flows) + 1
    BY <1>1, <2>7
  <2>9. \A i, j \in 1..Len(new) : new[i].key = new[j].key => i = j
    BY <2>1, <2>6, <2>7, <2>8 DEF Extracted
  <2>10. \A q \in ToSet(more) : Kept(q) => \E i \in 1..Len(new) : new[i].key = FlowKey(q)
    <3>1. 1..Len(flows) \subseteq 1..Len(new) /\ Len(flows) + 1 \in 1..Len(new)
      BY <1>1, <2>7
    <3> QED
      BY <1>2, <2>6, <2>7, <3>1 DEF Extracted
  <2>11. ASSUME NEW i \in 1..Len(flows)
         PROVE  WithKey(more, flows[i].key) # {} /\ Tallies(flows[i], more, intervals)
    BY <2>1, OthersTallied DEF Extracted, more
  <2>12. \A i \in 1..Len(new) : WithKey(more, new[i].key) # {} /\ Tallies(new[i], more, intervals)
    BY <2>6, <2>7, <2>8, <2>11
  <2> QED
    BY <2>7, <2>9, <2>10, <2>12 DEF Extracted, new, more
<1> QED
  BY <1>3, <1>4, <1>5

Distinct(s) == \A i, j \in 1..Len(s) : s[i] = s[j] => i = j

LEMMA ExtractedFold ==
  ASSUME NEW intervals \in Seq(Interval)
  PROVE  \A s \in Seq(Traffic) :
           Distinct(s) => Extracted(Extracts!Fold(intervals, s), s, intervals)
<1> DEFINE T == {s \in Seq(Traffic) :
                   Distinct(s) => Extracted(Extracts!Fold(intervals, s), s, intervals)}
<1>1. <<>> \in T
  <2>1. ToSet(<<>>) = {}
    BY DEF ToSet
  <2>2. Extracted(<<>>, <<>>, intervals)
    BY <2>1 DEF Extracted
  <2> QED
    BY <2>2, Extracts!FoldEmpty
<1>2. ASSUME NEW s \in T, NEW p \in Traffic PROVE Append(s, p) \in T
  <2>1. ASSUME Distinct(Append(s, p)) PROVE Distinct(s) /\ p \notin ToSet(s)
    BY <2>1 DEF Distinct, ToSet
  <2>2. Extracts!Fold(intervals, Append(s, p))
          = WithPacket(Extracts!Fold(intervals, s), p, intervals)
    BY Extracts!FoldAppend DEF FlowStep
  <2> QED
    BY <2>1, <2>2, ExtractedStep
<1>3. T = Seq(Traffic)
  BY <1>1, <1>2, Extracts!SeqInduction
<1> QED
  BY <1>3

-----------------------------------------------------------------------------
(* The invariant of the files: a tick of the clock for every packet, and    *)
(* every packet from a connection.                                          *)

From(p) == \E c \in Connections : p.proto = c.proto /\ {p.src, p.dst} = {c.a, c.b}

PacketInv ==
  /\ \A i, j \in 1..Len(packets) : i < j => packets[i].at < packets[j].at
  /\ \A p \in ToSet(packets) : From(p)

FlowInv == TypeInv /\ PacketInv /\ CallInv

LEMMA PacketStep == TypeInv /\ TypeInv' /\ PacketInv /\ [Next]_vars => PacketInv'
<1> SUFFICES ASSUME TypeInv, TypeInv', PacketInv, [Next]_vars PROVE PacketInv'
  OBVIOUS
<1>1. CASE packets' = packets
  BY <1>1 DEF PacketInv
<1>2. ASSUME NEW c \in Connections, Packet(c) PROVE PacketInv'
  <2>1. PICK q \in {<<c.a, c.b>>, <<c.b, c.a>>}, m \in BOOLEAN :
          packets' = Append(packets, [at |-> now', proto |-> c.proto, src |-> q[1], dst |-> q[2],
                                      matched |-> m])
    BY <1>2 DEF Packet
  <2> DEFINE new == [at |-> now', proto |-> c.proto, src |-> q[1], dst |-> q[2], matched |-> m]
  <2>2. From(new) /\ new.at = now + 1
    BY <1>2 DEF From, Packet, Tick
  <2> HIDE DEF new
  <2>3. packets \in Seq(Packed) /\ packets' = Append(packets, new) /\ now \in Nat
    BY <2>1, Bounds DEF TypeInv, TypeOK, Packed, new
  <2>4. /\ Len(packets') = Len(packets) + 1 /\ Len(packets) \in Nat
        /\ \A i \in 1..Len(packets) : packets'[i] = packets[i] /\ packets[i] \in Packed
        /\ packets'[Len(packets) + 1] = new
    BY <2>3
  <2>5. \A i \in 1..Len(packets) : packets[i].at \in Int /\ packets[i].at <= now
    BY <2>3, <2>4 DEF Packed
  <2>6. \A i, j \in 1..Len(packets') : i < j => packets'[i].at < packets'[j].at
    <3> SUFFICES ASSUME NEW i \in 1..Len(packets'), NEW j \in 1..Len(packets'), i < j
                 PROVE  packets'[i].at < packets'[j].at
      OBVIOUS
    <3>1. i \in 1..Len(packets)
      BY <2>4
    <3>2. CASE j \in 1..Len(packets)
      BY <2>4, <3>1, <3>2 DEF PacketInv
    <3>3. CASE j = Len(packets) + 1
      BY <2>2, <2>3, <2>4, <2>5, <3>1, <3>3
    <3> QED
      BY <2>4, <3>2, <3>3
  <2>7. \A p \in ToSet(packets') : From(p)
    <3>1. ToSet(packets') = {packets'[i] : i \in 1..Len(packets')}
      BY <2>3 DEF ToSet
    <3>2. \A i \in 1..Len(packets') : i \in 1..Len(packets) \/ i = Len(packets) + 1
      BY <2>4
    <3>3. \A i \in 1..Len(packets) : packets[i] \in ToSet(packets)
      BY <2>3 DEF ToSet
    <3> QED
      BY <2>2, <2>4, <3>1, <3>2, <3>3 DEF PacketInv
  <2> QED
    BY <2>6, <2>7 DEF PacketInv
<1> QED
  BY <1>1, <1>2 DEF Next, BeginStamp, BeginAppend, EndStamp, EndAppend, Raise, vars

LEMMA FlowInvariant == Spec => []FlowInv
<1>1. Init => FlowInv
  <2> SUFFICES ASSUME Init PROVE FlowInv
    OBVIOUS
  <2>1. PacketInv
    <3>1. packets = <<>> /\ ToSet(<<>>) = {}
      BY DEF Init, ToSet
    <3> QED
      BY <3>1 DEF PacketInv
  <2> QED
    BY <2>1, TypeInit, CallInit DEF FlowInv
<1>2. FlowInv /\ [Next]_vars => FlowInv'
  BY TypeStep, PacketStep, CallStep DEF FlowInv
<1> QED
  BY <1>1, <1>2, PTL DEF Spec

LEMMA FlowsExtracted ==
  ASSUME FlowInv
  PROVE  /\ Extracted(Flows, packets, Intervals(events))
         /\ Intervals(events) \in Seq(Interval) /\ packets \in Seq(Traffic)
         /\ \A flow : PacketsOf(flow) = WithKey(packets, flow.key)
<1>1. Intervals(events) \in Seq(Interval) /\ packets \in Seq(Traffic)
  BY OpenType, StateTypes DEF FlowInv
<1>2. Distinct(packets)
  <2> SUFFICES ASSUME NEW i \in 1..Len(packets), NEW j \in 1..Len(packets),
                      packets[i] = packets[j], i # j
               PROVE  FALSE
    BY DEF Distinct
  <2>0. packets[i] \in Traffic /\ Len(packets) \in Nat
    BY <1>1
  <2>1. packets[i].at \in Nat /\ Len(packets) \in Nat
    BY <2>0 DEF Traffic
  <2>2. i < j \/ j < i
    BY <2>1
  <2> QED
    BY <2>1, <2>2 DEF FlowInv, PacketInv
<1> QED
  BY <1>1, <1>2, FlowsFold, ExtractedFold DEF PacketsOf, WithKey

(* What the invariant says of one flow. *)
LEMMA FlowFacts ==
  ASSUME FlowInv, NEW flow \in ToSet(Flows)
  PROVE  /\ flow \in Flow
         /\ PacketsOf(flow) # {}
         /\ IdsOf(flow.scenarioIds,
                  {ScenarioFor(p.at, Intervals(events)) : p \in PacketsOf(flow)})
         /\ flow.packetsOut = Cardinality({p \in PacketsOf(flow) : Outbound(p)})
         /\ flow.packetsIn = Cardinality({p \in PacketsOf(flow) : ~Outbound(p)})
         /\ \A p \in PacketsOf(flow) : p \in Traffic /\ p.at \in Nat
<1>1. Flows \in Seq(Flow)
  BY FlowsExtracted DEF Extracted
<1>2. PICK i \in 1..Len(Flows) : flow = Flows[i]
  BY <1>1 DEF ToSet
<1>3. PacketsOf(flow) = WithKey(packets, flow.key) /\ PacketsOf(flow) # {}
  BY <1>2, FlowsExtracted DEF Extracted
<1>4. Tallies(flow, packets, Intervals(events))
  BY <1>2, FlowsExtracted DEF Extracted
<1>5. \A p \in PacketsOf(flow) : p \in Traffic /\ p.at \in Nat
  <2>1. ToSet(packets) \subseteq Traffic
    BY FlowsExtracted DEF ToSet
  <2>2. \A p \in Traffic : p.at \in Nat
    BY DEF Traffic
  <2> QED
    BY <2>1, <2>2 DEF PacketsOf
<1> QED
  BY <1>1, <1>2, <1>3, <1>4, <1>5 DEF Tallies

-----------------------------------------------------------------------------
(* Which actions a flow is linked to. *)

LEMMA IdsCases ==
  ASSUME NEW ids, NEW given, given # {}, IdsOf(ids, given)
  PROVE  /\ Contains(ids, Unattributed) => ids = <<Unattributed>> /\ given = {Unattributed}
         /\ ToSet(ids) \ {Unattributed} = given \ {Unattributed}
         /\ \A a : a # Unattributed => (Contains(ids, a) <=> a \in given)
<1>1. CASE ids = <<Unattributed>> /\ given = {Unattributed}
  <2>1. ToSet(<<Unattributed>>) = {Unattributed}
    BY DEF ToSet
  <2>2. \A a : Contains(<<Unattributed>>, a) => a = Unattributed
    BY DEF Contains
  <2> QED
    BY <1>1, <2>1, <2>2
<1>2. CASE ids \in Seq(Actions) /\ ids # <<>> /\ ToSet(ids) = given \ {Unattributed}
  <2>1. ToSet(ids) = {ids[i] : i \in 1..Len(ids)}
    BY <1>2 DEF ToSet
  <2>2. ~Contains(ids, Unattributed)
    BY <1>2, NotAnAction DEF Contains
  <2>3. \A a : Contains(ids, a) <=> a \in ToSet(ids)
    BY <2>1 DEF Contains
  <2> QED
    BY <1>2, <2>2, <2>3
<1> QED
  BY <1>1, <1>2 DEF IdsOf

Given(flow) == {ScenarioFor(p.at, Intervals(events)) : p \in PacketsOf(flow)}

LEMMA IdsOfFlow ==
  ASSUME FlowInv, NEW flow \in ToSet(Flows)
  PROVE  /\ Contains(flow.scenarioIds, Unattributed)
              => flow.scenarioIds = <<Unattributed>> /\ Given(flow) = {Unattributed}
         /\ ToSet(flow.scenarioIds) \ {Unattributed} = Given(flow) \ {Unattributed}
         /\ \A a : a # Unattributed => (Contains(flow.scenarioIds, a) <=> a \in Given(flow))
<1>1. Given(flow) # {} /\ IdsOf(flow.scenarioIds, Given(flow))
  BY FlowFacts DEF Given
<1> HIDE DEF Given
<1> QED
  BY <1>1, IdsCases

(* "unattributed" stands alone, and is the id of a flow only when none of   *)
(* its packets was in an interval that the markers delimit                  *)
(* (live.py:35-42, 80-89), however the packets of several actions mix.      *)
THEOREM NoneMatchedIfUnattributed == Spec => []UnattributedMeansNone
<1>1. ASSUME FlowInv PROVE UnattributedMeansNone
  <2> SUFFICES ASSUME NEW flow \in ToSet(Flows), Contains(flow.scenarioIds, Unattributed)
               PROVE  /\ flow.scenarioIds = <<Unattributed>>
                      /\ \A p \in PacketsOf(flow), x \in ToSet(Intervals(events)) : ~Inside(p.at, x)
    BY DEF UnattributedMeansNone
  <2>1. flow.scenarioIds = <<Unattributed>> /\ Given(flow) = {Unattributed}
    BY <1>1, IdsOfFlow
  <2>2. ASSUME NEW p \in PacketsOf(flow), NEW x \in ToSet(Intervals(events))
        PROVE  ~Inside(p.at, x)
    <3>1. ScenarioFor(p.at, Intervals(events)) = Unattributed /\ p.at \in Nat
      BY <1>1, <2>1, FlowFacts DEF Given
    <3>2. Intervals(events) \in Seq(Interval) /\ ToSet(Intervals(events)) \subseteq Interval
      BY <1>1, FlowsExtracted DEF ToSet
    <3>3. \A y \in ToSet(Intervals(events)) : y.action # Unattributed
      BY <3>2, NotAnAction DEF Interval
    <3> QED
      BY <3>1, <3>2, <3>3, ScenarioSound
  <2> QED
    BY <2>1, <2>2
<1> QED
  BY <1>1, FlowInvariant, PTL

(* An action that a packet is given to was executed then, or began near it, *)
(* even if the interval is that of two calls (live.py:29-42).               *)
LEMMA GivenNear ==
  ASSUME FlowInv, NEW t \in Nat, ScenarioFor(t, Intervals(events)) # Unattributed
  PROVE  \E x \in Calls : /\ x.action = ScenarioFor(t, Intervals(events))
                          /\ Inside(t, x) \/ Distance(t, x.from) <= Slack
<1> DEFINE I == Intervals(events)
<1>1. I \in Seq(Interval) /\ ToSet(I) \subseteq Interval
  BY FlowsExtracted DEF ToSet
<1>2. PICK y \in ToSet(I) : /\ ScenarioFor(t, I) = y.action
                            /\ Inside(t, y) \/ Distance(t, y.from) <= Slack
  BY <1>1, ScenarioSound
<1>3. Started(Calls, y.action, y.from) /\ Covered(Calls, y.action, y.from, y.to)
  BY <1>2 DEF FlowInv, CallInv, IntervalInv
<1>4. CASE Inside(t, y)
  <2>1. t \in y.from..y.to
    BY <1>1, <1>4 DEF Inside, Interval
  <2> QED
    BY <1>2, <1>3, <2>1 DEF Covered
<1>5. CASE Distance(t, y.from) <= Slack
  BY <1>2, <1>3, <1>5 DEF Started
<1> QED
  BY <1>2, <1>4, <1>5

(* A flow is linked to an action only if the device executed that action    *)
(* when, or began it within Slack of when, a packet of the flow was sent;   *)
(* also when an action of the same name overlaps with itself or raises, so  *)
(* that markers of different calls are paired (live.py:29-42).              *)
THEOREM LinksAreNear == Spec => []LinkedNear
<1>1. ASSUME FlowInv PROVE LinkedNear
  <2> SUFFICES ASSUME NEW flow \in ToSet(Flows),
                      NEW a \in ToSet(flow.scenarioIds) \ {Unattributed}
               PROVE  \E p \in PacketsOf(flow), x \in Calls :
                        x.action = a /\ (Inside(p.at, x) \/ Distance(p.at, x.from) <= Slack)
    BY DEF LinkedNear
  <2>1. a \in Given(flow) /\ a # Unattributed
    BY <1>1, IdsOfFlow
  <2>2. PICK p \in PacketsOf(flow) : a = ScenarioFor(p.at, Intervals(events))
    BY <2>1 DEF Given
  <2>3. p.at \in Nat
    BY <1>1, FlowFacts
  <2> QED
    BY <1>1, <2>1, <2>2, <2>3, GivenNear
<1> QED
  BY <1>1, FlowInvariant, PTL

(* The two markers of an interval, when no marker of the action is between  *)
(* them.                                                                    *)
Timed == {m \in Mark : m.at > 0}

Quiet(evs, a, i, j) == \A k \in (i + 1)..(j - 1) : evs[k].action # a

Delimits(evs, i, j) ==
  /\ i < j
  /\ evs[i].type = "begin" /\ evs[j].type = "end" /\ evs[i].action = evs[j].action
  /\ Quiet(evs, evs[i].action, i, j)

PairsUp(acc, evs) ==
  /\ \A i \in 1..Len(evs) :
       evs[i].type = "begin" /\ Quiet(evs, evs[i].action, i, Len(evs) + 1)
         => acc.begins[evs[i].action] = evs[i].at
  /\ \A i, j \in 1..Len(evs) :
       Delimits(evs, i, j) => \E n \in 1..Len(acc.done) :
         acc.done[n] = [action |-> evs[i].action, from |-> evs[i].at, to |-> evs[j].at]

LEMMA PairsUpStep ==
  ASSUME NEW evs \in Seq(Timed), NEW e \in Timed, NEW acc \in Pairing, PairsUp(acc, evs)
  PROVE  PairsUp(Paired(acc, e), Append(evs, e))
<1> DEFINE more == Append(evs, e)
           new  == Paired(acc, e)
           last == Len(evs) + 1
<1>1. /\ Len(evs) \in Nat /\ Len(more) = last
      /\ \A i \in 1..Len(evs) : more[i] = evs[i] /\ evs[i] \in Timed
      /\ more[last] = e
  OBVIOUS
<1>2. /\ e \in Mark /\ acc.begins \in [Actions -> Nat] /\ acc.done \in Seq(Interval)
      /\ \A i \in 1..Len(evs) : evs[i].action \in Actions /\ evs[i].at > 0 /\ evs[i].at \in Nat
  BY <1>1 DEF Timed, Mark, Pairing
<1>3. /\ e.type = "begin" => new.begins[e.action] = e.at
      /\ \A a \in Actions \ {e.action} : new.begins[a] = acc.begins[a]
  BY <1>2 DEF Paired, Mark, Pairing
<1>4. \E x : new.done = acc.done \/ new.done = Append(acc.done, x)
  BY DEF Paired
<1>5. e.type = "end" /\ acc.begins[e.action] # NotBegun =>
        new.done = Append(acc.done,
                     [action |-> e.action, from |-> acc.begins[e.action], to |-> e.at])
  BY DEF Paired
<1>6. Len(new.done) \in Nat /\ \A n \in 1..Len(acc.done) : n \in 1..Len(new.done) /\ new.done[n] = acc.done[n]
  <2> HIDE DEF new
  <2>1. CASE new.done = acc.done
    BY <1>2, <2>1
  <2>2. ASSUME NEW x, new.done = Append(acc.done, x)
        PROVE  /\ Len(new.done) \in Nat
               /\ \A n \in 1..Len(acc.done) : n \in 1..Len(new.done) /\ new.done[n] = acc.done[n]
    <3>1. new.done = acc.done \o <<x>> /\ Len(acc.done) \in Nat
      BY <1>2, <2>2
    <3>2. Len(new.done) = Len(acc.done) + 1 /\ \A n \in 1..Len(acc.done) : new.done[n] = acc.done[n]
      BY <1>2, <2>2, <3>1
    <3> QED
      BY <3>1, <3>2
  <2> QED
    BY <1>4, <2>1, <2>2
<1> HIDE DEF more, new
<1>7. \A i \in 1..Len(more) : i \in 1..Len(evs) \/ i = last
  BY <1>1
<1>8. ASSUME NEW i \in 1..Len(more), more[i].type = "begin",
             Quiet(more, more[i].action, i, Len(more) + 1)
      PROVE  new.begins[more[i].action] = more[i].at
  <2>1. CASE i = last
    BY <1>1, <1>3, <1>8, <2>1
  <2>2. CASE i \in 1..Len(evs)
    <3>1. \A k \in (i + 1)..(last - 1) : more[k] = evs[k]
      BY <1>1, <2>2
    <3>2. Quiet(evs, evs[i].action, i, last) /\ e.action # evs[i].action
      BY <1>1, <1>8, <2>2, <3>1 DEF Quiet
    <3> QED
      BY <1>1, <1>2, <1>3, <1>8, <2>2, <3>2 DEF PairsUp
  <2> QED
    BY <1>7, <2>1, <2>2
<1>9. ASSUME NEW i \in 1..Len(more), NEW j \in 1..Len(more), Delimits(more, i, j)
      PROVE  \E n \in 1..Len(new.done) :
               new.done[n] = [action |-> more[i].action, from |-> more[i].at, to |-> more[j].at]
  <2>0. i \in 1..Len(evs) /\ i < j
    BY <1>1, <1>9 DEF Delimits
  <2>1. CASE j \in 1..Len(evs)
    <3>1. \A k \in (i + 1)..(j - 1) : more[k] = evs[k]
      BY <1>1, <2>0, <2>1
    <3>2. Delimits(evs, i, j)
      BY <1>1, <1>9, <2>0, <2>1, <3>1 DEF Delimits, Quiet
    <3>3. PICK n \in 1..Len(acc.done) :
            acc.done[n] = [action |-> evs[i].action, from |-> evs[i].at, to |-> evs[j].at]
      BY <2>0, <2>1, <3>2 DEF PairsUp
    <3> QED
      BY <1>1, <1>6, <2>0, <2>1, <3>3
  <2>2. CASE j = last
    <3>1. \A k \in (i + 1)..(last - 1) : more[k] = evs[k]
      BY <1>1, <2>0
    <3>2. /\ evs[i].type = "begin" /\ Quiet(evs, evs[i].action, i, last)
          /\ e.type = "end" /\ e.action = evs[i].action
      BY <1>1, <1>9, <2>0, <2>2, <3>1 DEF Delimits, Quiet
    <3>3. acc.begins[e.action] = evs[i].at /\ acc.begins[e.action] # NotBegun
      BY <1>2, <2>0, <3>2, SMTT(60) DEF PairsUp, NotBegun
    <3>4. new.done = Append(acc.done,
                       [action |-> e.action, from |-> acc.begins[e.action], to |-> e.at])
      BY <1>5, <3>2, <3>3
    <3>5. /\ Len(acc.done) + 1 \in 1..Len(new.done)
          /\ new.done[Len(acc.done) + 1]
               = [action |-> e.action, from |-> acc.begins[e.action], to |-> e.at]
      BY <1>2, <3>4
    <3> QED
      BY <1>1, <2>0, <2>2, <3>2, <3>3, <3>5
  <2> QED
    BY <1>7, <2>1, <2>2
<1>10. PairsUp(new, more)
  BY <1>8, <1>9 DEF PairsUp
<1> QED
  BY <1>10 DEF new, more

LEMMA AllPairUp == \A evs \in Seq(Timed) : PairsUp(Pairs!Fold(0, evs), evs)
<1> DEFINE T == {evs \in Seq(Timed) : PairsUp(Pairs!Fold(0, evs), evs)}
<1>0. Seq(Timed) \subseteq Seq(Mark)
  BY SeqMonotonic DEF Timed
<1>1. <<>> \in T
  BY DEF PairsUp
<1>2. ASSUME NEW evs \in T, NEW e \in Timed PROVE Append(evs, e) \in T
  <2>1. Pairs!Fold(0, Append(evs, e)) = Paired(Pairs!Fold(0, evs), e)
    BY Pairs!FoldAppend DEF PairStep
  <2>2. Pairs!Fold(0, evs) \in Pairing
    BY <1>0, PairingType
  <2> QED
    BY <2>1, <2>2, PairsUpStep
<1>3. T = Seq(Timed)
  BY <1>1, <1>2, Pairs!SeqInduction
<1> QED
  BY <1>3

(* A packet that one call only can have caused is linked to the action of   *)
(* that call, however many calls and workers there are: its two markers     *)
(* delimit an interval, and no interval of another action holds the packet  *)
(* (live.py:29-37).                                                         *)
THEOREM ClearPacketsLinked == Spec => []WindowPacketsLinked
<1>1. ASSUME FlowInv PROVE WindowPacketsLinked
  <2> SUFFICES ASSUME NEW flow \in ToSet(Flows), NEW p \in PacketsOf(flow), NEW x \in windows,
                      Clear(p, x)
               PROVE  Contains(flow.scenarioIds, x.action)
    BY DEF WindowPacketsLinked
  <2> DEFINE I == Intervals(events)
             own == [action |-> x.action, from |-> x.from, to |-> x.to]
  <2>0. /\ x.action \in Actions /\ p.at \in Nat /\ I \in Seq(Interval)
        /\ ToSet(I) \subseteq Interval /\ x.action # Unattributed
    <3>1. x.action \in Actions
      BY <1>1 DEF FlowInv, TypeInv, TypeOK
    <3>2. p.at \in Nat
      BY <1>1, FlowFacts
    <3>3. I \in Seq(Interval) /\ ToSet(I) \subseteq Interval
      BY <1>1, FlowsExtracted DEF ToSet
    <3> QED
      BY <3>1, <3>2, <3>3, NotAnAction
  <2>1. events \in Seq(Timed)
    <3>1. [type : {"begin", "end"}, action : Actions, at : 1..now] \subseteq Timed
      BY DEF Timed, Mark
    <3> QED
      BY <1>1, <3>1, SeqMonotonic DEF FlowInv, TypeInv, TypeOK
  <2>2. own \in ToSet(I)
    <3>1. PICK i \in DOMAIN events, j \in DOMAIN events :
            /\ i < j
            /\ events[i] = [type |-> "begin", action |-> x.action, at |-> x.from]
            /\ events[j] = [type |-> "end", action |-> x.action, at |-> x.to]
            /\ \A k \in (i + 1)..(j - 1) : events[k].action # x.action
      BY DEF Clear
    <3>2. i \in 1..Len(events) /\ j \in 1..Len(events) /\ Delimits(events, i, j)
      BY <2>1, <3>1 DEF Delimits, Quiet
    <3>3. PairsUp(Pairs!Fold(0, events), events)
      BY <2>1, AllPairUp
    <3>4. \E n \in 1..Len(I) : I[n] = own
      BY <3>1, <3>2, <3>3, IntervalsFold DEF PairsUp
    <3> QED
      BY <2>0, <3>4 DEF ToSet
  <2>3. Inside(p.at, x) /\ Inside(p.at, own)
    BY DEF Clear, Inside
  <2> HIDE DEF I, own
  <2>4. PICK y \in ToSet(I) : ScenarioFor(p.at, I) = y.action /\ Inside(p.at, y)
    BY <2>0, <2>2, <2>3, ScenarioSound
  <2>5. \E z \in Calls : z.action = y.action /\ Inside(p.at, z)
    <3>1. p.at \in y.from..y.to
      BY <2>0, <2>4 DEF Inside, Interval
    <3> QED
      BY <1>1, <3>1 DEF FlowInv, CallInv, IntervalInv, Covered, I
  <2>6. y.action = x.action
    BY <2>5 DEF Clear
  <2>7. x.action \in Given(flow)
    BY <2>4, <2>6 DEF Given, I
  <2> QED
    BY <1>1, <2>0, <2>7, IdsOfFlow
<1> QED
  BY <1>1, FlowInvariant, PTL

-----------------------------------------------------------------------------
(* What a flow counts, and the policy. *)

(* The device is one end of every connection: two processes of the device   *)
(* that talk to each other have no remote end (live.py:63-69).              *)
OneDevice == \A c \in Connections : (c.a.host = DutIp) # (c.b.host = DutIp)

(* Both directions of a connection of a target are counted in one flow, and *)
(* nothing else is, for any number of packets in any order (live.py:63-76). *)
THEOREM DirectionsInOneFlow ==
  ASSUME OneDevice
  PROVE  Spec => []FlowsBidirectional
<1>1. ASSUME FlowInv PROVE FlowsBidirectional
  <2>0. \A q \in ToSet(packets) : /\ q \in Traffic
                                  /\ (q.src.host = DutIp) # (q.dst.host = DutIp)
    <3>1. \A q \in ToSet(packets) : q \in Traffic /\ From(q)
      BY <1>1, FlowsExtracted DEF FlowInv, PacketInv, ToSet
    <3>2. ASSUME NEW q, From(q) PROVE (q.src.host = DutIp) # (q.dst.host = DutIp)
      <4>1. PICK c \in Connections : {q.src, q.dst} = {c.a, c.b}
        BY <3>2 DEF From
      <4>2. (c.a.host = DutIp) # (c.b.host = DutIp)
        BY DEF OneDevice
      <4>3. \/ q.src = c.a /\ q.dst = c.b
            \/ q.src = c.b /\ q.dst = c.a
        BY <4>1, <4>2
      <4> QED
        BY <4>2, <4>3
    <3> QED
      BY <3>1, <3>2
  <2>1. ASSUME NEW p \in ToSet(packets), NEW q \in ToSet(packets), {p.src, p.dst} = {q.src, q.dst}
        PROVE  FlowKey(p) = FlowKey(q)
    BY <2>0, <2>1 DEF FlowKey, Remote, Outbound
  <2>2. ASSUME NEW p \in ToSet(packets), NEW q \in ToSet(packets), FlowKey(p) = FlowKey(q)
        PROVE  {p.src, p.dst} = {q.src, q.dst}
    <3> DEFINE Local(r) == IF Outbound(r) THEN r.src ELSE r.dst
    <3>1. ASSUME NEW r \in ToSet(packets)
          PROVE  /\ {r.src, r.dst} = {Remote(r), Local(r)} /\ Local(r) \in Endpoint
                 /\ Local(r).host = DutIp /\ FlowKey(r).remote = Remote(r)
                 /\ FlowKey(r).dutPort = Local(r).port
      BY <2>0 DEF Traffic, FlowKey, Remote, Outbound
    <3>2. \A x, y \in Endpoint : x.host = y.host /\ x.port = y.port => x = y
      BY DEF Endpoint
    <3> HIDE DEF Local
    <3>3. Remote(p) = Remote(q) /\ Local(p) = Local(q)
      BY <2>2, <3>1, <3>2
    <3> QED
      BY <3>1, <3>3
  <2> SUFFICES ASSUME NEW c \in Connections,
                      {p \in ToSet(packets) : {p.src, p.dst} = {c.a, c.b} /\ Kept(p)} # {}
               PROVE  \E flow \in ToSet(Flows) :
                        LET both == {p \in ToSet(packets) :
                                       {p.src, p.dst} = {c.a, c.b} /\ Kept(p)}
                        IN /\ PacketsOf(flow) = both
                           /\ flow.packetsOut = Cardinality({p \in both : p.src.host = DutIp})
                           /\ flow.packetsIn = Cardinality({p \in both : p.dst.host = DutIp})
    BY DEF FlowsBidirectional
  <2> DEFINE both == {p \in ToSet(packets) : {p.src, p.dst} = {c.a, c.b} /\ Kept(p)}
  <2>3. PICK p \in both : TRUE
    OBVIOUS
  <2>4. PICK flow \in ToSet(Flows) : flow.key = FlowKey(p)
    BY <1>1, <2>3, FlowsExtracted DEF Extracted, ToSet
  <2>5. PacketsOf(flow) = both
    <3>1. ASSUME NEW q \in PacketsOf(flow) PROVE q \in both
      BY <2>2, <2>3, <2>4 DEF PacketsOf
    <3>2. ASSUME NEW q \in both PROVE q \in PacketsOf(flow)
      BY <2>1, <2>3, <2>4 DEF PacketsOf
    <3> QED
      BY <3>1, <3>2
  <2>6. /\ {q \in both : Outbound(q)} = {q \in both : q.src.host = DutIp}
        /\ {q \in both : ~Outbound(q)} = {q \in both : q.dst.host = DutIp}
    BY <2>0 DEF Outbound
  <2>7. /\ flow.packetsOut = Cardinality({q \in both : Outbound(q)})
        /\ flow.packetsIn = Cardinality({q \in both : ~Outbound(q)})
    BY <1>1, <2>5, FlowFacts
  <2> QED
    BY <2>5, <2>6, <2>7
<1> QED
  BY <1>1, FlowInvariant, PTL

RuleStep(c, rules, flow) == WithRule(rules, flow)

Rules == INSTANCE SequenceFolds WITH Step <- RuleStep, Base <- <<>>

RuleOf(flow) == [host |-> flow.key.remote.host, port |-> flow.key.remote.port,
                 proto |-> flow.key.proto]
RuleSet == {RuleOf(flow) : flow \in Flow}

LEMMA PolicyFold == Policy = Rules!Fold(0, Flows)
BY DEF Policy, Rules!Fold, Rules!IsFold, Rules!Largest, RuleStep, FoldLeft, MapThenFoldSet, Max

OneRuleEach(rules, flows) ==
  /\ rules \in Seq(RuleSet) /\ IsInjective(rules)
  /\ ToSet(rules) = {RuleOf(flow) : flow \in ToSet(flows)}

LEMMA RulesOfFlows == \A flows \in Seq(Flow) : OneRuleEach(Rules!Fold(0, flows), flows)
<1> DEFINE T == {flows \in Seq(Flow) : OneRuleEach(Rules!Fold(0, flows), flows)}
<1>1. <<>> \in T
  <2>1. ToSet(<<>>) = {}
    BY DEF ToSet
  <2>2. OneRuleEach(<<>>, <<>>)
    BY <2>1 DEF OneRuleEach, IsInjective
  <2> QED
    BY <2>2, Rules!FoldEmpty
<1>2. ASSUME NEW flows \in T, NEW flow \in Flow PROVE Append(flows, flow) \in T
  <2> DEFINE rules == Rules!Fold(0, flows)
             rule  == RuleOf(flow)
  <2>1. Rules!Fold(0, Append(flows, flow)) = WithRule(rules, flow)
    BY Rules!FoldAppend DEF RuleStep
  <2>2. rules \in Seq(RuleSet) /\ IsInjective(rules) /\ rule \in RuleSet
    BY DEF OneRuleEach, RuleSet
  <2>3. WithRule(rules, flow) = IF Contains(rules, rule) THEN rules ELSE Append(rules, rule)
    BY DEF WithRule, RuleOf
  <2>4. /\ ToSet(rules) = {RuleOf(f) : f \in ToSet(flows)}
        /\ {RuleOf(f) : f \in ToSet(Append(flows, flow))} = ToSet(rules) \cup {rule}
    BY OneMore DEF OneRuleEach
  <2> HIDE DEF rules, rule
  <2>5. ASSUME Contains(rules, rule)
        PROVE  OneRuleEach(WithRule(rules, flow), Append(flows, flow))
    <3>1. rule \in ToSet(rules)
      BY <2>2, <2>5 DEF Contains, ToSet
    <3> QED
      BY <2>2, <2>3, <2>4, <2>5, <3>1 DEF OneRuleEach
  <2>6. ASSUME ~Contains(rules, rule)
        PROVE  OneRuleEach(WithRule(rules, flow), Append(flows, flow))
    <3>1. /\ Len(rules) \in Nat /\ DOMAIN rules = 1..Len(rules)
          /\ \A i \in 1..Len(rules) : rules[i] # rule
      BY <2>2, <2>6 DEF Contains
    <3>2. /\ Append(rules, rule) \in Seq(RuleSet)
          /\ ToSet(Append(rules, rule)) = ToSet(rules) \cup {rule}
      BY <2>2, OneMore
    <3>3. IsInjective(Append(rules, rule))
      BY <2>2, <3>1 DEF IsInjective
    <3> QED
      BY <2>3, <2>4, <2>6, <3>2, <3>3 DEF OneRuleEach
  <2> QED
    BY <2>1, <2>5, <2>6 DEF rules
<1>3. T = Seq(Flow)
  BY <1>1, <1>2, Rules!SeqInduction
<1> QED
  BY <1>3

(* extract_flows takes every packet for TCP (live.py:68), which is wrong of *)
(* the others: the policy would have a tcp rule for their endpoints.        *)
OnlyTcp == \A c \in Connections : c.proto = "TCP"

(* The policy has one rule for every remote endpoint that the traffic of    *)
(* the targets shows, and no other (analysis.py:55-65).                     *)
THEOREM PolicyExact ==
  ASSUME OnlyTcp
  PROVE  Spec => []PolicyMatchesTraffic
<1>1. ASSUME FlowInv PROVE PolicyMatchesTraffic
  <2> DEFINE Wanted(p) == [host |-> Remote(p).host, port |-> Remote(p).port, proto |-> p.proto]
             traffic == {q \in ToSet(packets) : Kept(q)}
  <2>1. /\ Extracted(Flows, packets, Intervals(events))
        /\ \A flow : PacketsOf(flow) = WithKey(packets, flow.key)
    BY <1>1, FlowsExtracted
  <2>2. OneRuleEach(Policy, Flows)
    BY <2>1, PolicyFold, RulesOfFlows DEF Extracted
  <2>3. \A p \in ToSet(packets) : p.proto = "TCP"
    BY <1>1 DEF FlowInv, PacketInv, From, OnlyTcp
  <2>4. \A p \in traffic, flow \in ToSet(Flows) : flow.key = FlowKey(p) => RuleOf(flow) = Wanted(p)
    BY <2>3 DEF RuleOf, FlowKey
  <2>5. \A p \in traffic : \E flow \in ToSet(Flows) : flow.key = FlowKey(p)
    BY <2>1 DEF Extracted, ToSet
  <2>6. \A flow \in ToSet(Flows) : \E p \in traffic : flow.key = FlowKey(p)
    <3> TAKE flow \in ToSet(Flows)
    <3>1. PICK p \in PacketsOf(flow) : TRUE
      BY <1>1, FlowFacts
    <3> QED
      BY <3>1 DEF PacketsOf
  <2>7. {RuleOf(flow) : flow \in ToSet(Flows)} = {Wanted(p) : p \in traffic}
    <3> HIDE DEF Wanted, traffic
    <3> QED
      BY <2>4, <2>5, <2>6
  <2> QED
    BY <2>2, <2>7 DEF OneRuleEach, PolicyMatchesTraffic
<1> QED
  BY <1>1, FlowInvariant, PTL

-----------------------------------------------------------------------------
(* The sums of the analysis: SumFunctionOnSet of Functions, written out.    *)

AnyOf(S) == CHOOSE x \in S : TRUE

IsTotal(f, fun, S) ==
  f = [s \in SUBSET S |-> IF s = {} THEN 0 ELSE fun[AnyOf(s)] + f[s \ {AnyOf(s)}]]

Total(fun, S) == (CHOOSE f : IsTotal(f, fun, S))[S]

(* The same on the subsets of at most n elements. *)
Small(S, n) == {s \in SUBSET S : Cardinality(s) <= n}

IsPartial(f, fun, S, n) ==
  f = [s \in Small(S, n) |-> IF s = {} THEN 0 ELSE fun[AnyOf(s)] + f[s \ {AnyOf(s)}]]

LEMMA SumIsTotal == \A fun, S : SumFunctionOnSet(fun, S) = Total(fun, S)
BY DEF SumFunctionOnSet, FoldFunctionOnSet, MapThenFoldSet, Total, IsTotal, AnyOf

LEMMA OneLess ==
  ASSUME NEW S, IsFiniteSet(S), NEW n \in Nat, NEW s \in Small(S, n + 1), s # {}
  PROVE  AnyOf(s) \in s /\ s \ {AnyOf(s)} \in Small(S, n)
<1>1. AnyOf(s) \in s
  BY DEF AnyOf
<1>2. s \in SUBSET S /\ IsFiniteSet(s) /\ Cardinality(s) <= n + 1
  BY FS_Subset DEF Small
<1>3. Cardinality(s \ {AnyOf(s)}) = Cardinality(s) - 1 /\ Cardinality(s) \in Nat
  BY <1>1, <1>2, FS_RemoveElement, FS_CardinalityType
<1> QED
  BY <1>1, <1>2, <1>3 DEF Small

LEMMA SmallGrows ==
  ASSUME NEW S, IsFiniteSet(S)
  PROVE  /\ Small(S, 0) = {{}}
         /\ \A n \in Nat : Small(S, n) \subseteq Small(S, n + 1)
         /\ Small(S, Cardinality(S)) = SUBSET S
<1>1. ASSUME NEW s \in SUBSET S
      PROVE  /\ Cardinality(s) \in Nat /\ Cardinality(s) <= Cardinality(S)
             /\ Cardinality(s) <= 0 <=> s = {}
             /\ \A n \in Nat : Cardinality(s) <= n => Cardinality(s) <= n + 1
  <2>1. IsFiniteSet(s) /\ Cardinality(s) <= Cardinality(S)
    BY FS_Subset
  <2>2. Cardinality(s) \in Nat /\ (Cardinality(s) = 0 <=> s = {})
    BY <2>1, FS_CardinalityType, FS_EmptySet
  <2> QED
    BY <2>1, <2>2
<1>2. Small(S, 0) = {{}}
  <2>1. \A s : s \in Small(S, 0) <=> s = {}
    BY <1>1 DEF Small
  <2> QED
    BY <2>1
<1>3. \A n \in Nat : Small(S, n) \subseteq Small(S, n + 1)
  BY <1>1 DEF Small
<1>4. Small(S, Cardinality(S)) = SUBSET S
  BY <1>1 DEF Small
<1> QED
  BY <1>2, <1>3, <1>4

LEMMA TotalExists ==
  ASSUME NEW S, IsFiniteSet(S), NEW fun
  PROVE  \E f : IsTotal(f, fun, S)
<1> DEFINE I == {n \in Nat : \E f : IsPartial(f, fun, S, n)}
<1>1. 0 \in I
  <2> DEFINE f == [s \in Small(S, 0) |-> 0]
  <2>1. IsPartial(f, fun, S, 0)
    BY SmallGrows DEF IsPartial
  <2> QED
    BY <2>1
<1>2. ASSUME NEW n \in Nat, n \in I PROVE n + 1 \in I
  <2>1. PICK f : IsPartial(f, fun, S, n)
    BY <1>2
  <2> DEFINE g == [s \in Small(S, n + 1) |->
                     IF s = {} THEN 0 ELSE fun[AnyOf(s)] + f[s \ {AnyOf(s)}]]
  <2>2. \A s \in Small(S, n) : g[s] = f[s]
    <3>1. \A s \in Small(S, n) :
            f[s] = IF s = {} THEN 0 ELSE fun[AnyOf(s)] + f[s \ {AnyOf(s)}]
      BY <2>1 DEF IsPartial
    <3> QED
      BY <3>1, SmallGrows
  <2>3. \A s \in Small(S, n + 1) :
          g[s] = IF s = {} THEN 0 ELSE fun[AnyOf(s)] + g[s \ {AnyOf(s)}]
    BY <2>2, OneLess
  <2>4. g = [s \in Small(S, n + 1) |-> g[s]]
    OBVIOUS
  <2> HIDE DEF g
  <2>5. IsPartial(g, fun, S, n + 1)
    BY <2>3, <2>4 DEF IsPartial
  <2> QED
    BY <2>5
<1>3. I = Nat
  BY <1>1, <1>2, Pairs!SetInduction
<1>4. Cardinality(S) \in Nat
  BY FS_CardinalityType
<1>5. PICK f : IsPartial(f, fun, S, Cardinality(S))
  BY <1>3, <1>4
<1> QED
  BY <1>5, SmallGrows DEF IsPartial, IsTotal

(* A total is at least the size of the union of what it counts. *)
LEMMA TotalBounds ==
  ASSUME NEW S, IsFiniteSet(S), NEW fun, NEW parts,
         \A i \in S : /\ fun[i] \in Nat /\ IsFiniteSet(parts[i])
                     /\ Cardinality(parts[i]) = fun[i]
  PROVE  /\ Total(fun, S) \in Nat
         /\ IsFiniteSet(UNION {parts[i] : i \in S})
         /\ Cardinality(UNION {parts[i] : i \in S}) <= Total(fun, S)
<1> DEFINE Whole(s) == UNION {parts[i] : i \in s}
           f == CHOOSE g : IsTotal(g, fun, S)
           Bound(s) == /\ f[s] \in Nat /\ IsFiniteSet(Whole(s))
                       /\ Cardinality(Whole(s)) <= f[s]
           I == {n \in Nat : \A s \in Small(S, n) : Bound(s)}
<1>1. IsTotal(f, fun, S) /\ Total(fun, S) = f[S]
  BY TotalExists DEF Total
<1> HIDE DEF f
<1>2. \A s \in SUBSET S : f[s] = IF s = {} THEN 0 ELSE fun[AnyOf(s)] + f[s \ {AnyOf(s)}]
  BY <1>1 DEF IsTotal
<1>3. Bound({})
  <2>1. f[{}] = 0 /\ Whole({}) = {}
    BY <1>2
  <2> HIDE DEF Whole
  <2> QED
    BY <2>1, FS_EmptySet
<1>4. 0 \in I
  <2> HIDE DEF Bound
  <2>1. \A s \in Small(S, 0) : Bound(s)
    BY <1>3, SmallGrows
  <2> QED
    BY <2>1
<1>5. ASSUME NEW n \in Nat, n \in I PROVE n + 1 \in I
  <2> HIDE DEF Bound
  <2> SUFFICES ASSUME NEW s \in Small(S, n + 1), s # {} PROVE Bound(s)
    BY <1>3
  <2> USE DEF Bound
  <2> DEFINE x == AnyOf(s)
             rest == s \ {x}
  <2>1. x \in s /\ rest \in Small(S, n) /\ s \in SUBSET S /\ x \in S
    BY OneLess DEF Small
  <2>2. Bound(rest)
    BY <1>5, <2>1
  <2>3. f[s] = fun[x] + f[rest]
    BY <1>2, <2>1
  <2>4. Whole(s) = parts[x] \cup Whole(rest)
    BY <2>1
  <2> HIDE DEF x, rest, Whole
  <2>5. fun[x] \in Nat /\ IsFiniteSet(parts[x]) /\ Cardinality(parts[x]) = fun[x]
    BY <2>1
  <2>6. IsFiniteSet(parts[x] \cap Whole(rest)) /\ Cardinality(parts[x] \cap Whole(rest)) \in Nat
    BY <2>5, FS_Intersection, FS_Subset, FS_CardinalityType
  <2>7. /\ IsFiniteSet(parts[x] \cup Whole(rest))
        /\ Cardinality(parts[x] \cup Whole(rest))
             = Cardinality(parts[x]) + Cardinality(Whole(rest))
                 - Cardinality(parts[x] \cap Whole(rest))
    BY <2>2, <2>5, FS_Union
  <2>8. Cardinality(Whole(rest)) \in Nat
    BY <2>2, FS_CardinalityType
  <2> QED
    BY <2>2, <2>3, <2>4, <2>5, <2>6, <2>7, <2>8
<1>6. I = Nat
  BY <1>4, <1>5, Pairs!SetInduction
<1>7. S \in Small(S, Cardinality(S)) /\ Cardinality(S) \in Nat
  BY SmallGrows, FS_CardinalityType
<1>8. Bound(S)
  BY <1>6, <1>7
<1> QED
  BY <1>1, <1>8

-----------------------------------------------------------------------------
(* differential. *)

LEMMA AnalysisOf ==
  ASSUME NEW flows \in Seq(Flow)
  PROVE  LET analysis == Differential(flows) IN
         /\ DOMAIN analysis = {a \in Scenarios : LinkedTo(flows, a) # {}}
         /\ \A a \in DOMAIN analysis :
              /\ analysis[a].physical
                   = {flows[i].key.remote.host : i \in LinkedTo(flows, a)}
              /\ analysis[a].packetsOut
                   = Total([i \in DOMAIN flows |-> flows[i].packetsOut], LinkedTo(flows, a))
<1> DEFINE scenarios == UNION {ToSet(flows[i].scenarioIds) : i \in DOMAIN flows}
           counts == [i \in DOMAIN flows |-> flows[i].packetsOut]
           analysis == Differential(flows)
<1>1. \A i \in DOMAIN flows : flows[i].scenarioIds \in Seq(Scenarios)
  <2>1. \A i \in DOMAIN flows : flows[i] \in Flow
    OBVIOUS
  <2> QED
    BY <2>1 DEF Flow
<1>2. \A ids \in Seq(Scenarios) : \A a : a \in ToSet(ids) <=> a \in Scenarios /\ Contains(ids, a)
  BY DEF ToSet, Contains
<1>3. scenarios = {a \in Scenarios : LinkedTo(flows, a) # {}}
  BY <1>1, <1>2 DEF LinkedTo
<1>4. DOMAIN analysis = scenarios
  BY DEF Differential
<1>5. ASSUME NEW a \in scenarios
      PROVE  /\ analysis[a].physical = {flows[i].key.remote.host : i \in LinkedTo(flows, a)}
             /\ analysis[a].packetsOut = SumFunctionOnSet(counts, LinkedTo(flows, a))
  BY DEF Differential
<1> HIDE DEF scenarios, counts, analysis
<1>6. \A a \in DOMAIN analysis :
        analysis[a].packetsOut = Total(counts, LinkedTo(flows, a))
  BY <1>4, <1>5, SumIsTotal
<1> QED
  BY <1>3, <1>4, <1>5, <1>6 DEF counts, analysis

(* The packets that LinkedTo is about. *)
LEMMA LinkedFlows ==
  ASSUME FlowInv
  PROVE  /\ Flows \in Seq(Flow)
         /\ \A i \in DOMAIN Flows : Flows[i] \in ToSet(Flows) /\ Flows[i] \in Flow
         /\ \A a \in Actions : \A i \in DOMAIN Flows :
              i \in LinkedTo(Flows, a)
                <=> \E p \in PacketsOf(Flows[i]) : ScenarioFor(p.at, Intervals(events)) = a
         /\ \A p \in ToSet(packets) : Kept(p) =>
              \E i \in DOMAIN Flows : p \in PacketsOf(Flows[i]) /\ Flows[i].key = FlowKey(p)
<1>1. Flows \in Seq(Flow)
  BY FlowsExtracted DEF Extracted
<1>2. \A i \in DOMAIN Flows : Flows[i] \in ToSet(Flows) /\ Flows[i] \in Flow
  BY <1>1 DEF ToSet
<1>3. ASSUME NEW a \in Actions, NEW i \in DOMAIN Flows
      PROVE  i \in LinkedTo(Flows, a)
               <=> \E p \in PacketsOf(Flows[i]) : ScenarioFor(p.at, Intervals(events)) = a
  <2>1. Contains(Flows[i].scenarioIds, a) <=> a \in Given(Flows[i])
    BY <1>2, IdsOfFlow, NotAnAction
  <2> QED
    BY <2>1 DEF LinkedTo, Given
<1>4. ASSUME NEW p \in ToSet(packets), Kept(p)
      PROVE  \E i \in DOMAIN Flows : p \in PacketsOf(Flows[i]) /\ Flows[i].key = FlowKey(p)
  <2>1. PICK i \in 1..Len(Flows) : Flows[i].key = FlowKey(p)
    BY <1>4, FlowsExtracted DEF Extracted
  <2>2. i \in DOMAIN Flows
    BY <1>1
  <2> QED
    BY <1>4, <2>1, <2>2 DEF PacketsOf
<1> QED
  BY <1>1, <1>2, <1>3, <1>4

(* The analysis has an entry for exactly the actions that a packet of a     *)
(* target was given, and for every host that was contacted; an entry names  *)
(* the hosts of the packets of its action, and counts at least the packets  *)
(* that the device sent then, on shared connections too                     *)
(* (analysis.py:16-36).                                                     *)
THEOREM AnalysisCovers == Spec => []AnalysisCoversTraffic
<1>1. ASSUME FlowInv PROVE AnalysisCoversTraffic
  <2> DEFINE analysis  == Differential(Flows)
             kept      == {p \in ToSet(packets) : Kept(p)}
             Scenario(p) == ScenarioFor(p.at, Intervals(events))
             during(a) == {p \in kept : Scenario(p) = a}
             linked(a) == LinkedTo(Flows, a)
             counts    == [i \in DOMAIN Flows |-> Flows[i].packetsOut]
  <2>1. /\ Flows \in Seq(Flow)
        /\ \A i \in DOMAIN Flows : Flows[i] \in ToSet(Flows) /\ Flows[i] \in Flow
        /\ \A a \in Actions : \A i \in DOMAIN Flows :
             i \in linked(a) <=> \E p \in PacketsOf(Flows[i]) : Scenario(p) = a
        /\ \A p \in kept : \E i \in DOMAIN Flows :
             p \in PacketsOf(Flows[i]) /\ Flows[i].key = FlowKey(p)
        /\ \A a : linked(a) \subseteq DOMAIN Flows
    BY <1>1, LinkedFlows DEF LinkedTo
  <2>2. /\ DOMAIN analysis = {a \in Scenarios : linked(a) # {}}
        /\ \A a \in DOMAIN analysis :
             /\ analysis[a].physical = {Flows[i].key.remote.host : i \in linked(a)}
             /\ analysis[a].packetsOut = Total(counts, linked(a))
    BY <2>1, AnalysisOf
  <2>3. \A i \in DOMAIN Flows : \A p \in PacketsOf(Flows[i]) :
          p \in kept /\ Flows[i].key.remote.host = Remote(p).host
    BY DEF PacketsOf, FlowKey
  <2>4. \A a \in DOMAIN analysis \ {Unattributed} : a \in Actions
    BY <2>2 DEF Scenarios
  <2>5. \A a \in Actions : a \in Scenarios
    BY DEF Scenarios
  <2> HIDE DEF analysis, Scenario, linked, counts, kept
  <2>6. ASSUME NEW p \in kept
        PROVE  \E a \in DOMAIN analysis : Remote(p).host \in analysis[a].physical
    <3>1. PICK i \in DOMAIN Flows : p \in PacketsOf(Flows[i])
      BY <2>1
    <3>2. PICK a \in Scenarios : Contains(Flows[i].scenarioIds, a)
      <4> DEFINE ids == Flows[i].scenarioIds
      <4>1. ids # <<>> /\ ids \in Seq(Scenarios)
        <5>1. Flows[i] \in ToSet(Flows) /\ ids \in Seq(Scenarios)
          BY <2>1 DEF Flow
        <5>2. IdsOf(ids, Given(Flows[i])) /\ Given(Flows[i]) # {}
          BY <1>1, <5>1, FlowFacts DEF Given
        <5> QED
          BY <5>1, <5>2 DEF IdsOf
      <4>2. 1 \in 1..Len(ids) /\ ids[1] \in Scenarios
        BY <4>1
      <4> QED
        BY <4>2 DEF Contains
    <3>3. i \in linked(a)
      BY <3>2 DEF linked, LinkedTo
    <3> QED
      BY <2>2, <2>3, <3>1, <3>2, <3>3
  <2>7. ASSUME NEW a \in Actions
        PROVE  during(a) # {} <=> a \in DOMAIN analysis
    BY <2>1, <2>2, <2>3, <2>5
  <2>8. ASSUME NEW a \in Actions, a \in DOMAIN analysis
        PROVE  analysis[a].physical = {Remote(p).host : p \in during(a)}
    <3>1. \A i \in linked(a) : \E p \in during(a) : Flows[i].key.remote.host = Remote(p).host
      BY <2>1, <2>3
    <3>2. \A p \in during(a) : \E i \in linked(a) : Flows[i].key.remote.host = Remote(p).host
      BY <2>1, <2>3
    <3> QED
      BY <2>2, <2>8, <3>1, <3>2
  <2>9. ASSUME NEW a \in Actions, a \in DOMAIN analysis
        PROVE  analysis[a].packetsOut >= Cardinality({p \in during(a) : Outbound(p)})
    <3> DEFINE parts == [i \in DOMAIN Flows |-> {p \in PacketsOf(Flows[i]) : Outbound(p)}]
               all   == UNION {parts[i] : i \in linked(a)}
               sent  == {p \in during(a) : Outbound(p)}
    <3>1. IsFiniteSet(linked(a))
      <4>1. IsFiniteSet(DOMAIN Flows)
        BY <2>1, FS_Interval
      <4> QED
        BY <2>1, <4>1, FS_Subset
    <3>2. ASSUME NEW i \in linked(a)
          PROVE  /\ counts[i] \in Nat /\ IsFiniteSet(parts[i])
                 /\ Cardinality(parts[i]) = counts[i]
      <4>1. i \in DOMAIN Flows /\ Flows[i] \in ToSet(Flows)
        BY <2>1
      <4>2. counts[i] = Cardinality(parts[i])
        BY <1>1, <4>1, FlowFacts DEF counts
      <4>3. IsFiniteSet(ToSet(packets))
        BY <1>1, FilesFinite, FlowsExtracted
      <4>4. IsFiniteSet(parts[i])
        BY <4>1, <4>3, FS_Subset DEF PacketsOf
      <4> QED
        BY <4>2, <4>4, FS_CardinalityType
    <3>3. \A p \in sent : \E i \in linked(a) : p \in parts[i]
      BY <2>1
    <3> HIDE DEF parts
    <3>4. /\ Total(counts, linked(a)) \in Nat
          /\ IsFiniteSet(all) /\ Cardinality(all) <= Total(counts, linked(a))
      BY <3>1, <3>2, TotalBounds
    <3>5. sent \in SUBSET all
      BY <3>3
    <3> HIDE DEF all, sent
    <3>6. /\ Cardinality(sent) <= Cardinality(all)
          /\ Cardinality(sent) \in Nat /\ Cardinality(all) \in Nat
      BY <3>4, <3>5, FS_Subset, FS_CardinalityType
    <3>7. Cardinality(sent) <= Total(counts, linked(a))
      BY <3>4, <3>6
    <3> QED
      BY <2>2, <2>9, <3>4, <3>6, <3>7 DEF sent
  <2> QED
    BY <2>4, <2>6, <2>7, <2>8, <2>9 DEF AnalysisCoversTraffic, analysis, kept, Scenario
<1> QED
  BY <1>1, FlowInvariant, PTL
=============================================================================
