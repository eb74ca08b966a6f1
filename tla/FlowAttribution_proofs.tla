------------------------ MODULE FlowAttribution_proofs ------------------------
(***************************************************************************)
(* Proofs about FlowAttribution: the types of its state, what               *)
(* _scenario_for and the key of a flow do for every input, and what more    *)
(* markers do to the intervals of a file.  FlowExtraction_proofs goes on    *)
(* with the flows.                                                          *)
(***************************************************************************)
EXTENDS FlowAttribution, SequenceTheorems, WellFoundedInduction, TLAPS

-----------------------------------------------------------------------------
(* Type correctness. *)

Stamped ==
  \A w \in Workers : /\ call[w].stage = "begin" => call[w].from > 0
                     /\ call[w].stage = "end" => call[w].to > 0 /\ call[w].from <= call[w].to

TypeInv == TypeOK /\ Stamped

LEMMA Bounds == MaxTime \in Nat /\ MaxPackets \in Nat /\ NoAction \notin Actions
BY FlowAssumption DEF FlowAssumption

LEMMA PacketType ==
  ASSUME NEW c \in Connections, NEW t \in Nat,
         NEW p \in {<<c.a, c.b>>, <<c.b, c.a>>}, NEW m \in BOOLEAN
  PROVE  [at |-> t, proto |-> c.proto, src |-> p[1], dst |-> p[2], matched |-> m]
            \in [at : {t}, proto : {"TCP", "UDP"}, src : Endpoint, dst : Endpoint,
                 matched : BOOLEAN]
BY FlowAssumption DEF FlowAssumption

Call   == [stage : Stages, action : Actions \cup {NoAction}, from : 0..now, to : 0..now]
Event  == [type : {"begin", "end"}, action : Actions, at : 1..now]
Packed == [at : 1..now, proto : {"TCP", "UDP"}, src : Endpoint, dst : Endpoint, matched : BOOLEAN]
Over   == {x \in [action : Actions, from : 0..now, to : 0..now, ended : BOOLEAN] : x.from <= x.to}

(* The clock only goes on, which widens every type. *)
LEMMA Later ==
  ASSUME TypeInv, now' \in 0..MaxTime, now <= now'
  PROVE  /\ Call \subseteq Call' /\ Seq(Event) \subseteq Seq(Event')
         /\ Seq(Packed) \subseteq Seq(Packed') /\ windows \subseteq Over'
<1>1. 0..now \subseteq 0..now' /\ 1..now \subseteq 1..now' /\ now \in Nat /\ now' \in Nat
  BY Bounds DEF TypeInv, TypeOK
<1>2. Call \subseteq Call'
  BY <1>1 DEF Call
<1>3. Event \subseteq Event' /\ Packed \subseteq Packed'
  BY <1>1 DEF Event, Packed
<1>4. Seq(Event) \subseteq Seq(Event') /\ Seq(Packed) \subseteq Seq(Packed')
  BY <1>3
<1>5. windows \subseteq Over'
  BY <1>1 DEF TypeInv, TypeOK, Over
<1> QED
  BY <1>1, <1>2, <1>4, <1>5

LEMMA TypeInit == Init => TypeInv
<1> SUFFICES ASSUME Init PROVE TypeInv
  OBVIOUS
<1>1. \A w \in Workers : call[w] = NoCall \/ call[w] \in Early
  BY DEF Init
<1>2. call \in [Workers -> Call]
  BY <1>1 DEF Init, Call, NoCall, Early, Stages, NotBegun
<1>3. \A w \in Workers : call[w].stage # "idle" => call[w].action \in Actions
  BY <1>1 DEF NoCall, Early
<1>4. Stamped
  BY <1>1 DEF Stamped, NoCall, Early
<1> QED
  BY <1>2, <1>3, <1>4, Bounds DEF Init, TypeInv, TypeOK, Call

LEMMA TypeStep == TypeInv /\ [Next]_vars => TypeInv'
<1> SUFFICES ASSUME TypeInv, [Next]_vars PROVE TypeInv'
  OBVIOUS
<1> DEFINE Good(c) == /\ c \in Call'
                      /\ c.stage # "idle" => c.action \in Actions
                      /\ c.stage = "begin" => c.from > 0
                      /\ c.stage = "end" => c.to > 0 /\ c.from <= c.to
             Moved   == call' \in [Workers -> Call'] /\ \A w \in Workers : Good(call'[w])
             Filled  == /\ events' \in Seq(Event') /\ packets' \in Seq(Packed')
                        /\ windows' \subseteq Over'
<1>0. SUFFICES /\ now' \in 0..MaxTime
               /\ Moved /\ Filled
  BY DEF TypeInv, TypeOK, Stamped, Call, Event, Packed, Over
<1>1. now \in Nat /\ now <= MaxTime /\ now \in 0..MaxTime
  BY Bounds DEF TypeInv, TypeOK
<1>2. now' \in 0..MaxTime /\ now <= now' /\ (Tick => now' > 0)
  <2>1. Tick \/ now' = now
    BY DEF Next, BeginStamp, BeginAppend, EndStamp, EndAppend, Raise, Packet, vars
  <2> QED
    BY <1>1, <2>1, Bounds DEF Tick
<1>3. /\ Call \subseteq Call' /\ Seq(Event) \subseteq Seq(Event')
      /\ Seq(Packed) \subseteq Seq(Packed') /\ windows \subseteq Over'
  BY <1>2, Later
<1>4. /\ call \in [Workers -> Call'] /\ \A w \in Workers : Good(call[w])
      /\ events \in Seq(Event') /\ packets \in Seq(Packed')
  BY <1>3 DEF TypeInv, TypeOK, Stamped, Call, Event, Packed
<1>5. Good(NoCall)
  BY <1>2 DEF NoCall, Call, Stages, NotBegun
<1>6. ASSUME NEW w \in Workers, NEW action \in Actions, BeginStamp(w, action) PROVE Moved /\ Filled
  <2>1. Good(call'[w])
    BY <1>2, <1>4, <1>6 DEF BeginStamp, Call, Stages, NotBegun
  <2> QED
    BY <1>3, <1>4, <1>6, <2>1 DEF BeginStamp
<1>7. ASSUME NEW w \in Workers, BeginAppend(w) PROVE Moved /\ Filled
  <2>1. Good(call'[w])
    BY <1>4, <1>7 DEF BeginAppend, Call, Stages
  <2>2. Marker(w, "begin") \in Event'
    BY <1>1, <1>4, <1>7 DEF BeginAppend, Marker, Event, Call
  <2> QED
    BY <1>3, <1>4, <1>7, <2>1, <2>2 DEF BeginAppend
<1>8. ASSUME NEW w \in Workers, EndStamp(w) PROVE Moved /\ Filled
  <2>1. Good(call'[w])
    BY <1>1, <1>2, <1>4, <1>8, SMTT(60) DEF EndStamp, Call, Stages, Tick, TypeInv, TypeOK
  <2> QED
    BY <1>3, <1>4, <1>8, <2>1 DEF EndStamp
<1>9. ASSUME NEW w \in Workers, EndAppend(w) PROVE Moved /\ Filled
  <2>1. Marker(w, "end") \in Event'
    BY <1>1, <1>4, <1>9 DEF EndAppend, Marker, Event, Call
  <2>2. Window(w, call[w].to, TRUE) \in Over'
    BY <1>1, <1>4, <1>9 DEF EndAppend, Window, Over, Call, TypeInv, TypeOK
  <2>3. events' \in Seq(Event')
    BY <1>4, <1>9, <2>1 DEF EndAppend
  <2>4. windows' \subseteq Over'
    BY <1>3, <1>9, <2>2 DEF EndAppend
  <2> QED
    BY <1>4, <1>5, <1>9, <2>3, <2>4 DEF EndAppend
<1>10. ASSUME NEW w \in Workers, Raise(w) PROVE Moved /\ Filled
  <2>1. Window(w, now, FALSE) \in Over'
    BY <1>1, <1>4, <1>10 DEF Raise, Window, Over, Call, TypeInv, TypeOK
  <2> QED
    BY <1>3, <1>4, <1>5, <1>10, <2>1 DEF Raise
<1>11. ASSUME NEW c \in Connections, Packet(c) PROVE Moved /\ Filled
  <2>1. PICK p \in {<<c.a, c.b>>, <<c.b, c.a>>}, m \in BOOLEAN :
          packets' = Append(packets, [at |-> now', proto |-> c.proto, src |-> p[1], dst |-> p[2],
                                      matched |-> m])
    BY <1>11 DEF Packet
  <2>2. [at |-> now', proto |-> c.proto, src |-> p[1], dst |-> p[2], matched |-> m] \in Packed'
    BY <1>2, <1>11, PacketType DEF Packet, Packed
  <2>3. packets' \in Seq(Packed')
    BY <1>4, <2>1, <2>2
  <2> QED
    BY <1>3, <1>4, <1>11, <2>3 DEF Packet
<1>12. CASE UNCHANGED vars
  <2>1. call' = call /\ events' = events /\ packets' = packets /\ windows' = windows
    BY <1>12 DEF vars
  <2> QED
    BY <1>2, <1>3, <1>4, <2>1
<1> QED
  BY <1>2, <1>6, <1>7, <1>8, <1>9, <1>10, <1>11, <1>12 DEF Next

(* The clock, the calls, markers, packets and past calls keep their types,  *)
(* and no marker, packet or end of a call is later than the clock: what     *)
(* mark_event() stamps is never in the future (agent.py:47-54).             *)
THEOREM TypeCorrect == Spec => []TypeOK
<1>1. TypeInv => TypeOK
  BY DEF TypeInv
<1> QED
  BY TypeInit, TypeStep, <1>1, PTL DEF Spec

-----------------------------------------------------------------------------
(* _scenario_for. *)

Interval == [action : Actions, from : Nat, to : Nat]

LEMMA Least ==
  ASSUME NEW I \in SUBSET Nat, I # {}
  PROVE  Min(I) \in I /\ \A i \in I : Min(I) <= i
<1>1. PICK m \in I : \A i \in I : ~(<<i, m>> \in OpToRel(<, Nat))
  BY WFMin, NatLessThanWellFounded
<1>2. ASSUME NEW i \in I PROVE m <= i
  <2>1. <<i, m>> \in Nat \X Nat /\ <<i, m>>[1] = i /\ <<i, m>>[2] = m
    OBVIOUS
  <2>2. ~(i < m)
    BY <1>1, <2>1 DEF OpToRel
  <2> QED
    BY <2>2
<1> QED
  BY <1>2 DEF Min

(* The two candidates of a packet, as sets of positions.                    *)
Around(epoch, s) == {i \in 1..Len(s) : Inside(epoch, s[i])}
Nearest(epoch, s) == {i \in 1..Len(s) :
  \A y \in ToSet(s) : Distance(epoch, s[i].from) <= Distance(epoch, y.from)}

LEMMA ScenarioCases ==
  ASSUME NEW s \in Seq(Interval), NEW epoch \in Nat
  PROVE  ScenarioFor(epoch, s) =
           IF Around(epoch, s) # {} THEN s[Min(Around(epoch, s))].action
           ELSE IF Nearest(epoch, s) # {}
                   /\ Distance(epoch, s[Min(Nearest(epoch, s))].from) <= Slack
           THEN s[Min(Nearest(epoch, s))].action
           ELSE Unattributed
<1> DEFINE A == SelectInSeq(s, LAMBDA x : Inside(epoch, x))
           N == SelectInSeq(s, LAMBDA x :
                  \A y \in ToSet(s) : Distance(epoch, x.from) <= Distance(epoch, y.from))
<1>1. A = IF Around(epoch, s) # {} THEN Min(Around(epoch, s)) ELSE 0
  BY DEF SelectInSeq, Around
<1>2. N = IF Nearest(epoch, s) # {} THEN Min(Nearest(epoch, s)) ELSE 0
  BY DEF SelectInSeq, Nearest
<1>3. Around(epoch, s) \in SUBSET Nat /\ Nearest(epoch, s) \in SUBSET Nat
  BY DEF Around, Nearest
<1>4. (A > 0 <=> Around(epoch, s) # {}) /\ (N > 0 <=> Nearest(epoch, s) # {})
  <2>1. \A I \in SUBSET (1..Len(s)) : I # {} => Min(I) > 0
    <3> TAKE I \in SUBSET (1..Len(s))
    <3> HAVE I # {}
    <3>1. I \in SUBSET Nat
      OBVIOUS
    <3>2. Min(I) \in I
      BY <3>1, Least
    <3>3. Min(I) \in 1..Len(s)
      BY <3>2
    <3> QED
      BY <3>3
  <2>2. Around(epoch, s) \in SUBSET (1..Len(s)) /\ Nearest(epoch, s) \in SUBSET (1..Len(s))
    BY DEF Around, Nearest
  <2> HIDE DEF A, N
  <2> QED
    BY <1>1, <1>2, <2>1, <2>2
<1>5. ScenarioFor(epoch, s) =
        IF A > 0 THEN s[A].action
        ELSE IF N > 0 /\ Distance(epoch, s[N].from) <= Slack THEN s[N].action
        ELSE Unattributed
  BY DEF ScenarioFor
<1> HIDE DEF A, N
<1> QED
  BY <1>1, <1>2, <1>4, <1>5

LEMMA SomeNearest ==
  ASSUME NEW s \in Seq(Interval), s # <<>>, NEW epoch \in Nat
  PROVE  Nearest(epoch, s) # {}
<1> DEFINE D == {Distance(epoch, s[i].from) : i \in 1..Len(s)}
<1>1. Len(s) \in Nat /\ Len(s) > 0 /\ \A i \in 1..Len(s) : s[i] \in Interval
  OBVIOUS
<1>2. \A x \in Interval : Distance(epoch, x.from) \in Nat
  BY DEF Distance, Interval
<1>3. D \in SUBSET Nat /\ D # {}
  BY <1>1, <1>2
<1>4. PICK i \in 1..Len(s) : Distance(epoch, s[i].from) = Min(D)
  BY <1>3, Least
<1>5. \A y \in ToSet(s) : Distance(epoch, y.from) \in D
  BY <1>1 DEF ToSet
<1>6. \A y \in ToSet(s) : Distance(epoch, s[i].from) <= Distance(epoch, y.from)
  BY <1>3, <1>4, <1>5, Least
<1> QED
  BY <1>6 DEF Nearest

(* What _scenario_for promises (live.py:35-42), whatever the intervals: a   *)
(* packet is given to an action that it is inside of, else to one that      *)
(* begins within Slack of it and nearer than none; it is unattributed       *)
(* exactly when no interval holds it and none begins that near.             *)
THEOREM ScenarioSound ==
  ASSUME NEW s \in Seq(Interval), NEW epoch \in Nat
  PROVE  \/ /\ ScenarioFor(epoch, s) = Unattributed
            /\ \A x \in ToSet(s) : /\ ~Inside(epoch, x)
                                   /\ ~(Distance(epoch, x.from) <= Slack)
         \/ \E x \in ToSet(s) :
              /\ ScenarioFor(epoch, s) = x.action
              /\ \/ Inside(epoch, x)
                 \/ /\ Distance(epoch, x.from) <= Slack
                    /\ \A y \in ToSet(s) :
                         ~Inside(epoch, y) /\ Distance(epoch, x.from) <= Distance(epoch, y.from)
<1>1. Around(epoch, s) \in SUBSET Nat /\ Nearest(epoch, s) \in SUBSET Nat
  BY DEF Around, Nearest
<1>2. ToSet(s) = {s[i] : i \in 1..Len(s)} /\ \A i \in 1..Len(s) : s[i] \in Interval
  BY DEF ToSet
<1>3. \A x \in Interval : Distance(epoch, x.from) \in Nat
  BY DEF Distance, Interval
<1>4. CASE Around(epoch, s) # {}
  <2>1. Min(Around(epoch, s)) \in Around(epoch, s)
    BY <1>1, <1>4, Least
  <2> QED
    BY <1>2, <1>4, <2>1, ScenarioCases DEF Around
<1>5. CASE Around(epoch, s) = {}
  <2>1. \A y \in ToSet(s) : ~Inside(epoch, y)
    BY <1>2, <1>5 DEF Around
  <2>2. CASE Nearest(epoch, s) = {}
    <3>1. s = <<>>
      BY <2>2, SomeNearest
    <3>2. ToSet(s) = {}
      BY <1>2, <3>1
    <3>3. ScenarioFor(epoch, s) = Unattributed
      BY <1>5, <2>2, ScenarioCases
    <3> QED
      BY <3>2, <3>3
  <2>3. CASE Nearest(epoch, s) # {}
    <3> DEFINE n == Min(Nearest(epoch, s))
    <3>1. n \in Nearest(epoch, s)
      BY <1>1, <2>3, Least
    <3>2. /\ s[n] \in ToSet(s) /\ s[n] \in Interval
          /\ \A y \in ToSet(s) : Distance(epoch, s[n].from) <= Distance(epoch, y.from)
      BY <1>2, <3>1 DEF Nearest
    <3>3. CASE Distance(epoch, s[n].from) <= Slack
      BY <1>5, <2>1, <2>3, <3>2, <3>3, ScenarioCases
    <3>4. CASE ~(Distance(epoch, s[n].from) <= Slack)
      <4>1. \A y \in ToSet(s) : ~(Distance(epoch, y.from) <= Slack)
        BY <1>2, <1>3, <3>2, <3>4, FlowAssumption, SMTT(60) DEF FlowAssumption
      <4> QED
        BY <1>5, <2>1, <2>3, <3>4, <4>1, ScenarioCases
    <3> QED
      BY <3>3, <3>4
  <2> QED
    BY <2>2, <2>3
<1> QED
  BY <1>4, <1>5

(* Replaying with more markers does not take a packet away from its action: *)
(* complete intervals are only added at the end (live.py:33-37).            *)
THEOREM ScenarioStable ==
  ASSUME NEW s \in Seq(Interval), NEW more \in Seq(Interval), NEW epoch \in Nat,
         NEW x \in ToSet(s), Inside(epoch, x)
  PROVE  ScenarioFor(epoch, s \o more) = ScenarioFor(epoch, s)
<1> DEFINE t == s \o more
<1>1. /\ t \in Seq(Interval) /\ Len(t) = Len(s) + Len(more)
      /\ Len(s) \in Nat /\ Len(more) \in Nat
      /\ \A i \in 1..Len(s) : t[i] = s[i]
  OBVIOUS
<1> HIDE DEF t
<1>2. Around(epoch, s) # {} /\ Around(epoch, s) \subseteq Around(epoch, t)
  BY <1>1, SMTT(60) DEF Around, ToSet
<1>3. \A i \in Around(epoch, t) : i \in Around(epoch, s) \/ i > Len(s)
  BY <1>1 DEF Around
<1>4. Around(epoch, s) \in SUBSET Nat /\ Around(epoch, t) \in SUBSET Nat
  BY DEF Around
<1>5. /\ Min(Around(epoch, s)) \in 1..Len(s)
      /\ Min(Around(epoch, s)) \in Around(epoch, s)
      /\ \A i \in Around(epoch, s) : Min(Around(epoch, s)) <= i
  BY <1>2, <1>4, Least DEF Around
<1>6. /\ Min(Around(epoch, t)) \in Around(epoch, t)
      /\ \A i \in Around(epoch, t) : Min(Around(epoch, t)) <= i
  BY <1>2, <1>4, Least
<1>7. Min(Around(epoch, t)) = Min(Around(epoch, s))
  BY <1>1, <1>2, <1>3, <1>4, <1>5, <1>6
<1>8. ScenarioFor(epoch, t) = ScenarioFor(epoch, s)
  BY <1>1, <1>2, <1>5, <1>7, ScenarioCases
<1> QED
  BY <1>8 DEF t

-----------------------------------------------------------------------------
(* The intervals of a file of markers.                                      *)

PairStep(c, acc, e) == Paired(acc, e)

NothingPaired == [begins |-> [a \in Actions |-> NotBegun], done |-> <<>>]

Pairs == INSTANCE SequenceFolds WITH Step <- PairStep, Base <- NothingPaired

Mark    == [type : {"begin", "end"}, action : Actions, at : Nat]
Pairing == [begins : [Actions -> Nat], done : Seq(Interval)]

LEMMA IntervalsFold == \A evs : Intervals(evs) = Pairs!Fold(0, evs).done
BY DEF Intervals, Pairs!Fold, Pairs!IsFold, Pairs!Largest, PairStep, NothingPaired,
       FoldLeft, MapThenFoldSet, Max

LEMMA PairedType ==
  ASSUME NEW acc \in Pairing, NEW e \in Mark
  PROVE  /\ Paired(acc, e) \in Pairing
         /\ \/ Paired(acc, e).done = acc.done
            \/ \E x \in Interval : Paired(acc, e).done = Append(acc.done, x)
<1>1. CASE e.type = "begin"
  <2>1. Paired(acc, e) = [begins |-> [acc.begins EXCEPT ![e.action] = e.at], done |-> acc.done]
    BY <1>1 DEF Paired, Pairing
  <2>2. [acc.begins EXCEPT ![e.action] = e.at] \in [Actions -> Nat] /\ acc.done \in Seq(Interval)
    BY DEF Pairing, Mark
  <2> QED
    BY <2>1, <2>2 DEF Pairing
<1>2. CASE e.type # "begin" /\ acc.begins[e.action] = NotBegun
  <2>1. Paired(acc, e) = acc
    BY <1>2 DEF Paired
  <2> QED
    BY <2>1
<1>3. CASE e.type # "begin" /\ acc.begins[e.action] # NotBegun
  <2> DEFINE x == [action |-> e.action, from |-> acc.begins[e.action], to |-> e.at]
  <2>1. Paired(acc, e) = [begins |-> [acc.begins EXCEPT ![e.action] = NotBegun],
                          done   |-> Append(acc.done, x)]
    BY <1>3 DEF Paired
  <2>2. x \in Interval
    BY DEF Pairing, Mark, Interval
  <2>3. [acc.begins EXCEPT ![e.action] = NotBegun] \in [Actions -> Nat]
    BY DEF Pairing, Mark, NotBegun
  <2>4. Append(acc.done, x) \in Seq(Interval)
    BY <2>2 DEF Pairing
  <2> HIDE DEF x
  <2> QED
    BY <2>1, <2>2, <2>3, <2>4 DEF Pairing
<1> QED
  BY <1>1, <1>2, <1>3

LEMMA PairingType == \A evs \in Seq(Mark) : Pairs!Fold(0, evs) \in Pairing
<1> DEFINE T == {evs \in Seq(Mark) : Pairs!Fold(0, evs) \in Pairing}
<1>1. <<>> \in T
  <2>1. NothingPaired \in Pairing
    BY DEF NothingPaired, Pairing, NotBegun
  <2> QED
    BY <2>1, Pairs!FoldEmpty
<1>2. ASSUME NEW evs \in T, NEW e \in Mark PROVE Append(evs, e) \in T
  <2>1. Pairs!Fold(0, Append(evs, e)) = Paired(Pairs!Fold(0, evs), e)
    BY Pairs!FoldAppend DEF PairStep
  <2> QED
    BY <2>1, PairedType
<1>3. T = Seq(Mark)
  BY <1>1, <1>2, Pairs!SeqInduction
<1> QED
  BY <1>3

LEMMA IntervalsType == \A evs \in Seq(Mark) : Intervals(evs) \in Seq(Interval)
BY IntervalsFold, PairingType DEF Pairing

LEMMA IntervalsAppend ==
  ASSUME NEW evs \in Seq(Mark), NEW e \in Mark
  PROVE  \/ Intervals(Append(evs, e)) = Intervals(evs)
         \/ \E x \in Interval : Intervals(Append(evs, e)) = Append(Intervals(evs), x)
<1>1. Pairs!Fold(0, Append(evs, e)) = Paired(Pairs!Fold(0, evs), e)
  BY Pairs!FoldAppend DEF PairStep
<1> QED
  BY <1>1, IntervalsFold, PairingType, PairedType

Traffic == [at : Nat, proto : {"TCP", "UDP"}, src : Endpoint, dst : Endpoint, matched : BOOLEAN]

LEMMA Dateless ==
  ASSUME NEW n
  PROVE  /\ Seq([type : {"begin", "end"}, action : Actions, at : 1..n]) \subseteq Seq(Mark)
         /\ Seq([at : 1..n, proto : {"TCP", "UDP"}, src : Endpoint, dst : Endpoint,
                  matched : BOOLEAN])
              \subseteq Seq(Traffic)
<1>1. 1..n \subseteq Nat
  OBVIOUS
<1>2. [type : {"begin", "end"}, action : Actions, at : 1..n] \subseteq Mark
  BY <1>1 DEF Mark
<1>3. [at : 1..n, proto : {"TCP", "UDP"}, src : Endpoint, dst : Endpoint, matched : BOOLEAN]
        \subseteq Traffic
  BY <1>1 DEF Traffic
<1> HIDE DEF Mark, Traffic
<1> QED
  BY <1>2, <1>3, SeqMonotonic

LEMMA StateTypes == TypeInv => events \in Seq(Mark) /\ packets \in Seq(Traffic)
BY Dateless DEF TypeInv, TypeOK

LEMMA StateTypesNext == TypeInv' => events' \in Seq(Mark) /\ packets' \in Seq(Traffic)
BY Dateless DEF TypeInv, TypeOK

(* Markers are only added to events.jsonl.                                  *)
LEMMA MarkersAdded ==
  ASSUME TypeInv, TypeInv', [Next]_vars
  PROVE  events' = events \/ \E e \in Mark : events' = Append(events, e)
<1>0. events \in Seq(Mark) /\ events' \in Seq(Mark)
  BY StateTypes, StateTypesNext
<1>1. \A m : events' = Append(events, m) => m \in Mark
  <2> SUFFICES ASSUME NEW m, events' = Append(events, m) PROVE m \in Mark
    OBVIOUS
  <2>1. events' \in Seq(Mark)
    BY <1>0
  <2>2. /\ Len(events) + 1 \in 1..Len(Append(events, m))
        /\ Append(events, m)[Len(events) + 1] = m
    BY StateTypes
  <2> QED
    BY <2>1, <2>2
<1> QED
  BY <1>1 DEF Next, BeginStamp, BeginAppend, EndStamp, EndAppend, Raise, Packet, vars

(* Extracting the flows again, whenever, does not move a packet that was    *)
(* inside a complete interval to another action (live.py:29-42): markers    *)
(* are only added, and pair up into intervals behind the earlier ones.      *)
THEOREM ReplaysAgree == Spec => ReplayStable
<1>1. ASSUME TypeInv, TypeInv', [Next]_vars,
             NEW p \in ToSet(packets), NEW x \in ToSet(Intervals(events)), Inside(p.at, x)
      PROVE  ScenarioFor(p.at, Intervals(events')) = ScenarioFor(p.at, Intervals(events))
  <2>0. events \in Seq(Mark) /\ packets \in Seq(Traffic)
    BY <1>1, StateTypes
  <2>1. Intervals(events) \in Seq(Interval) /\ p.at \in Nat
    <3>1. p \in Traffic
      BY <2>0 DEF ToSet
    <3> QED
      BY <2>0, <3>1, IntervalsType DEF Traffic
  <2>2. CASE events' = events
    BY <2>2
  <2>3. ASSUME NEW e \in Mark, events' = Append(events, e)
        PROVE  ScenarioFor(p.at, Intervals(events')) = ScenarioFor(p.at, Intervals(events))
    <3>1. CASE Intervals(events') = Intervals(events)
      BY <3>1
    <3>2. ASSUME NEW y \in Interval, Intervals(events') = Append(Intervals(events), y)
          PROVE  ScenarioFor(p.at, Intervals(events')) = ScenarioFor(p.at, Intervals(events))
      <4>1. <<y>> \in Seq(Interval) /\ Append(Intervals(events), y) = Intervals(events) \o <<y>>
        BY <2>1
      <4>2. ScenarioFor(p.at, Intervals(events) \o <<y>>) = ScenarioFor(p.at, Intervals(events))
        BY <1>1, <2>1, <4>1, ScenarioStable
      <4> QED
        BY <3>2, <4>1, <4>2
    <3> QED
      BY <1>1, <2>3, <3>1, <3>2, StateTypes, IntervalsAppend
  <2> QED
    BY <1>1, <2>2, <2>3, MarkersAdded
<1>2. TypeInv /\ TypeInv' /\ [Next]_vars =>
        [LET earlier == Intervals(events)
             later   == Intervals(events')
         IN \A p \in ToSet(packets) :
              (\E x \in ToSet(earlier) : Inside(p.at, x)) =>
                ScenarioFor(p.at, later) = ScenarioFor(p.at, earlier)]_vars
  BY <1>1
<1> QED
  BY <1>2, TypeInit, TypeStep, PTL DEF Spec, ReplayStable

-----------------------------------------------------------------------------
(* extract_flows. *)

(* A packet and its answer belong to one flow and are counted in opposite   *)
(* directions, if exactly one of their ends is the device (live.py:63-69);  *)
(* without that the two keys may differ.                                    *)
THEOREM AnswerInSameFlow ==
  ASSUME NEW p, NEW q, q.src = p.dst, q.dst = p.src,
         (p.src.host = DutIp) # (p.dst.host = DutIp)
  PROVE  FlowKey(p) = FlowKey(q) /\ Targeted(p) = Targeted(q) /\ Outbound(p) # Outbound(q)
BY DEF FlowKey, Targeted, Remote, Outbound
=============================================================================
