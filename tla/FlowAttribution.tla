--------------------------- MODULE FlowAttribution ---------------------------
(***************************************************************************)
(* How a run's packets become flows that are linked to actions, and a       *)
(* candidate policy (boundary_audit/live.py, analysis.py).  Workers execute *)
(* actions and write their markers into events.jsonl while packets are      *)
(* captured; extract_flows may read both files at any time, so its result   *)
(* is a function of the state.                                              *)
(***************************************************************************)
EXTENDS Integers, Sequences, SequencesExt, FiniteSetsExt

CONSTANTS
  Workers,      \* threads that execute actions
  Actions,      \* names of actions
  Connections,  \* pairs of endpoints that exchange packets, see below
  DutIp,        \* metadata["dut_ip"]
  TargetIps,    \* metadata["target_ips"]; empty: every host is a target
  MayRaise,     \* actions may raise, which leaves a begin without an end
  Slack,        \* the quarter of a second of _scenario_for, in ticks
  MaxTime,      \* bound on the clock
  MaxCalls,     \* bound on the calls
  MaxPackets    \* bound on the packets

NoAction     == "no action"
Unattributed == "unattributed"
NotBegun     == 0   \* the clock starts after it

Endpoint == [host : {c.a.host : c \in Connections} \cup {c.b.host : c \in Connections},
             port : {c.a.port : c \in Connections} \cup {c.b.port : c \in Connections}]

ASSUME FlowAssumption ==
  /\ NoAction \notin Actions /\ Unattributed \notin Actions
  /\ \A c \in Connections : c.proto \in {"TCP", "UDP"} /\ {c.a, c.b} \subseteq Endpoint
  /\ MayRaise \in BOOLEAN
  /\ Slack \in Nat
  /\ MaxTime \in Nat /\ MaxCalls \in Nat /\ MaxPackets \in Nat

VARIABLES
  now,      \* the clock of the device host: every stamp and packet takes a tick
  call,     \* what each worker executes
  events,   \* the markers in events.jsonl
  packets,  \* packets.pcap, and whether the line that tcpdump prints matches
  windows   \* the calls that are over (history)

vars == <<now, call, events, packets, windows>>

\* A marker is stamped before it is appended: "begin" and "end" are between
\* the two.
Stages == {"idle", "begin", "running", "end"}

(* Type invariant. *)
TypeOK ==
  /\ now \in 0..MaxTime
  /\ call \in [Workers -> [stage : Stages, action : Actions \cup {NoAction},
                           from : 0..now, to : 0..now]]
  /\ \A w \in Workers : call[w].stage # "idle" => call[w].action \in Actions
  /\ events \in Seq([type : {"begin", "end"}, action : Actions, at : 1..now])
  /\ packets \in Seq([at : 1..now, proto : {"TCP", "UDP"}, src : Endpoint, dst : Endpoint,
                      matched : BOOLEAN])
  /\ windows \subseteq [action : Actions, from : 0..now, to : 0..now, ended : BOOLEAN]
  /\ \A x \in windows : x.from <= x.to

NoCall == [stage |-> "idle", action |-> NoAction, from |-> NotBegun, to |-> NotBegun]

\* A call may have begun before the run did: it has no begin marker here.
Early == {[stage |-> "running", action |-> a, from |-> NotBegun, to |-> NotBegun] : a \in Actions}

Init ==
  /\ now = 0
  /\ call \in [Workers -> {NoCall} \cup Early]
  /\ events = <<>>
  /\ packets = <<>>
  /\ windows = {}

Tick == now < MaxTime /\ now' = now + 1

-----------------------------------------------------------------------------
(* What fills the files. *)

Marker(w, type) ==
  [type |-> type, action |-> call[w].action,
   at |-> IF type = "begin" THEN call[w].from ELSE call[w].to]

Begun == Cardinality(windows) + Cardinality({w \in Workers : call[w].stage # "idle"})

(* mark_event() takes the time ... *)
BeginStamp(w, action) ==
  /\ Tick
  /\ Begun < MaxCalls
  /\ call[w].stage = "idle"
  /\ call' = [call EXCEPT ![w] = [stage |-> "begin", action |-> action,
                                 from |-> now', to |-> NotBegun]]
  /\ UNCHANGED <<events, packets, windows>>

BeginAppend_StampsAgain(w) ==  \* mutant: the marker gets the time of its writing, rounded up
  /\ call[w].stage = "begin"
  /\ events' = Append(events, [Marker(w, "begin") EXCEPT !.at = now + 1])
  /\ call' = [call EXCEPT ![w].stage = "running"]
  /\ UNCHANGED <<now, packets, windows>>

(* ... and then appends the line; other threads may come between.           *)
BeginAppend(w) ==
  /\ call[w].stage = "begin"
  /\ events' = Append(events, Marker(w, "begin"))
  /\ call' = [call EXCEPT ![w].stage = "running"]
  /\ UNCHANGED <<now, packets, windows>>

EndStamp(w) ==
  /\ Tick
  /\ call[w].stage = "running"
  /\ call' = [call EXCEPT ![w].stage = "end", ![w].to = now']
  /\ UNCHANGED <<events, packets, windows>>

Window(w, to, ended) ==
  [action |-> call[w].action, from |-> call[w].from, to |-> to, ended |-> ended]

EndAppend(w) ==
  /\ call[w].stage = "end"
  /\ events' = Append(events, Marker(w, "end"))
  /\ windows' = windows \cup {Window(w, call[w].to, TRUE)}
  /\ call' = [call EXCEPT ![w] = NoCall]
  /\ UNCHANGED <<now, packets>>

(* DutSimulator.execute raises, or the session has been stopped meanwhile:  *)
(* the call ends without its end marker.                                    *)
Raise(w) ==
  /\ MayRaise
  /\ call[w].stage = "running"
  /\ windows' = windows \cup {Window(w, now, FALSE)}
  /\ call' = [call EXCEPT ![w] = NoCall]
  /\ UNCHANGED <<now, events, packets>>

(* Lines match _PACKET when they end with the length: not those of packets  *)
(* that tcpdump decodes, as it does DNS, or a request that opens an HTTP    *)
(* exchange.                                                                *)
Packet(c) ==
  /\ Tick
  /\ Len(packets) < MaxPackets
  /\ \E p \in {<<c.a, c.b>>, <<c.b, c.a>>}, matched \in BOOLEAN :
       packets' = Append(packets, [at |-> now', proto |-> c.proto, src |-> p[1], dst |-> p[2],
                                   matched |-> matched])
  /\ UNCHANGED <<call, events, windows>>

Next ==
  \/ \E w \in Workers : \/ \E action \in Actions : BeginStamp(w, action)
                        \/ BeginAppend(w) \/ EndStamp(w) \/ EndAppend(w) \/ Raise(w)
  \/ \E c \in Connections : Packet(c)

Spec == Init /\ [][Next]_vars

-----------------------------------------------------------------------------
(* _scenario_for: the action of a packet. *)

Paired_Prepends(acc, e) ==  \* mutant: the latest interval comes first
  IF e.type = "begin" THEN [acc EXCEPT !.begins[e.action] = e.at]
  ELSE IF acc.begins[e.action] = NotBegun THEN acc
  ELSE [begins |-> [acc.begins EXCEPT ![e.action] = NotBegun],
        done |-> <<[action |-> e.action, from |-> acc.begins[e.action], to |-> e.at]>>
                   \o acc.done]

(* A begin marker replaces one of the same name that has met no end yet; an *)
(* end marker without a begin is skipped.                                   *)
Paired(acc, e) ==
  IF e.type = "begin" THEN [acc EXCEPT !.begins[e.action] = e.at]
  ELSE IF acc.begins[e.action] = NotBegun THEN acc
  ELSE [begins |-> [acc.begins EXCEPT ![e.action] = NotBegun],
        done |-> Append(acc.done,
                   [action |-> e.action, from |-> acc.begins[e.action], to |-> e.at])]

Intervals(evs) ==
  FoldLeft(Paired, [begins |-> [a \in Actions |-> NotBegun], done |-> <<>>], evs).done

Distance(x, y) == IF x < y THEN y - x ELSE x - y

Inside(epoch, x) == x.from <= epoch /\ epoch <= x.to

ScenarioFor_Nearest(epoch, intervals) ==  \* mutant: the interval that begins nearest
  LET nearest == SelectInSeq(intervals, LAMBDA x :
                   \A y \in ToSet(intervals) : Distance(epoch, x.from) <= Distance(epoch, y.from))
  IN IF nearest > 0 /\ Distance(epoch, intervals[nearest].from) <= Slack
     THEN intervals[nearest].action
     ELSE Unattributed

ScenarioFor_NoLimit(epoch, intervals) ==  \* mutant: any distance is near enough
  LET around  == SelectInSeq(intervals, LAMBDA x : Inside(epoch, x))
      nearest == SelectInSeq(intervals, LAMBDA x :
                   \A y \in ToSet(intervals) : Distance(epoch, x.from) <= Distance(epoch, y.from))
  IN IF around > 0 THEN intervals[around].action
     ELSE IF nearest > 0 THEN intervals[nearest].action
     ELSE Unattributed

(* The first interval around the packet, else the one that begins nearest   *)
(* if that is near enough.                                                  *)
ScenarioFor(epoch, intervals) ==
  LET around  == SelectInSeq(intervals, LAMBDA x : Inside(epoch, x))
      nearest == SelectInSeq(intervals, LAMBDA x :
                   \A y \in ToSet(intervals) : Distance(epoch, x.from) <= Distance(epoch, y.from))
  IN IF around > 0 THEN intervals[around].action
     ELSE IF nearest > 0 /\ Distance(epoch, intervals[nearest].from) <= Slack
     THEN intervals[nearest].action
     ELSE Unattributed

-----------------------------------------------------------------------------
(* extract_flows. *)

Outbound(p) == p.src.host = DutIp

Remote(p) == IF Outbound(p) THEN p.dst ELSE p.src

FlowKey_Directed(p) ==  \* mutant: the key is not normalised
  [remote |-> p.dst, dutPort |-> p.src.port, proto |-> "TCP"]

(* Every packet is taken for TCP. *)
FlowKey(p) ==
  [remote |-> Remote(p), dutPort |-> IF Outbound(p) THEN p.src.port ELSE p.dst.port,
   proto |-> "TCP"]

Targeted(p) == TargetIps = {} \/ Remote(p).host \in TargetIps

Kept(p) == p.matched /\ Targeted(p)

Linked_KeepsUnattributed(ids, scenario) ==  \* mutant: "unattributed" stays
  IF (scenario = Unattributed /\ ids # <<>>) \/ Contains(ids, scenario) THEN ids
  ELSE Append(ids, scenario)

(* scenario_ids after one more packet. *)
Linked(ids, scenario) ==
  IF scenario # Unattributed /\ ~Contains(ids, scenario)
  THEN Append(RemoveFirst(ids, Unattributed), scenario)
  ELSE IF ids = <<>> THEN <<Unattributed>> ELSE ids

Roles == [camera_stream |-> "suspicious.test", read_firmware_version |-> "firmware-service",
          boot |-> "time-and-robot-services", stand |-> "local-control-telemetry"]

Role(scenario) == IF scenario \in DOMAIN Roles THEN Roles[scenario] ELSE "mock_sink"

NewFlow(key) == [key |-> key, packetsOut |-> 0, packetsIn |-> 0, scenarioIds |-> <<>>,
                 role |-> "mock_sink"]

(* A flow has the role of the action that was linked last. *)
Counted(flow, p, intervals) ==
  LET scenario == ScenarioFor(p.at, intervals)
      ids      == Linked(flow.scenarioIds, scenario)
  IN [flow EXCEPT !.packetsOut = IF Outbound(p) THEN @ + 1 ELSE @,
                  !.packetsIn = IF Outbound(p) THEN @ ELSE @ + 1,
                  !.scenarioIds = ids,
                  !.role = IF scenario # Unattributed /\ ids # flow.scenarioIds
                           THEN Role(scenario) ELSE @]

(* The flows in the order of their first packets, which numbers them; lines *)
(* that do not match and hosts that are no target are left out.             *)
WithPacket(flows, p, intervals) ==
  LET known == SelectInSeq(flows, LAMBDA f : f.key = FlowKey(p))
  IN IF ~Kept(p) THEN flows
     ELSE IF known > 0 THEN [flows EXCEPT ![known] = Counted(@, p, intervals)]
     ELSE Append(flows, Counted(NewFlow(FlowKey(p)), p, intervals))

Flows ==
  LET intervals == Intervals(events)
  IN FoldLeft(LAMBDA flows, p : WithPacket(flows, p, intervals), <<>>, packets)

-----------------------------------------------------------------------------
(* differential: what each scenario contacted, by role and by address, and  *)
(* which roles the "baseline" action did not.                               *)

LinkedTo_FirstOnly(flows, scenario) ==  \* mutant: groups by the first id of a flow
  {i \in DOMAIN flows : Head(flows[i].scenarioIds) = scenario}

LinkedTo(flows, scenario) == {i \in DOMAIN flows : Contains(flows[i].scenarioIds, scenario)}

Differential(flows) ==
  LET roles(scenario) == {flows[i].role : i \in LinkedTo(flows, scenario)}
      scenarios == UNION {ToSet(flows[i].scenarioIds) : i \in DOMAIN flows}
  IN [scenario \in scenarios |->
        LET selected == LinkedTo(flows, scenario) IN
        [destinations    |-> roles(scenario),
         newDestinations |-> roles(scenario) \ roles("baseline"),
         physical        |-> {flows[i].key.remote.host : i \in selected},
         packetsOut      |-> SumFunctionOnSet([i \in DOMAIN flows |-> flows[i].packetsOut],
                                              selected),
         flows           |-> Cardinality(selected)]]

-----------------------------------------------------------------------------
(* generate_policy: an accept rule for the remote end of every flow.  The   *)
(* flows of extract_flows are all allowed, not blocked and external.        *)

WithRule_Duplicates(rules, flow) ==  \* mutant: no `seen` set
  Append(rules, [host |-> flow.key.remote.host, port |-> flow.key.remote.port,
                 proto |-> flow.key.proto])

WithRule(rules, flow) ==
  LET rule == [host |-> flow.key.remote.host, port |-> flow.key.remote.port,
               proto |-> flow.key.proto]
  IN IF Contains(rules, rule) THEN rules ELSE Append(rules, rule)

Policy == FoldLeft(WithRule, <<>>, Flows)

-----------------------------------------------------------------------------
(* Properties. *)

(* The calls so far, those that raised or are still running included.       *)
Calls == windows \cup {Window(w, IF call[w].stage = "end" THEN call[w].to ELSE now, FALSE)
                          : w \in {v \in Workers : call[v].stage # "idle"}}

(* One call only is responsible: no other call, over or not, holds the      *)
(* packet, and in the file no marker of another call of the same action is  *)
(* between its two markers, with one of which it would be paired            *)
(* (live.py:29-34).                                                         *)
Clear(p, x) ==
  /\ {y \in Calls : Inside(p.at, y)} = {x}
  /\ \E i, j \in DOMAIN events :
       /\ i < j
       /\ events[i] = [type |-> "begin", action |-> x.action, at |-> x.from]
       /\ events[j] = [type |-> "end", action |-> x.action, at |-> x.to]
       /\ \A k \in (i + 1)..(j - 1) : events[k].action # x.action

PacketsOf(flow) == {p \in ToSet(packets) : Kept(p) /\ FlowKey(p) = flow.key}

(* "links every packet that falls inside an action window to that action"   *)
(* (docs/methodology.md:15-16): whatever other calls overlap or fail, the   *)
(* flow of a packet that only one call can have caused carries its action.  *)
(* (Of the packets that are kept, here and below.)                          *)
WindowPacketsLinked ==
  \A flow \in ToSet(Flows) : \A p \in PacketsOf(flow), x \in windows :
    Clear(p, x) => Contains(flow.scenarioIds, x.action)

(* "`unattributed` means no packet matched an action window"                *)
(* (docs/results.md:57): it never stands beside an action, and no packet of *)
(* such a flow is inside an interval that the markers delimit.              *)
UnattributedMeansNone ==
  \A flow \in ToSet(Flows) : Contains(flow.scenarioIds, Unattributed) =>
    /\ flow.scenarioIds = <<Unattributed>>
    /\ \A p \in PacketsOf(flow), x \in ToSet(Intervals(events)) : ~Inside(p.at, x)

(* No link from afar: a packet of the flow was sent during the action or    *)
(* within Slack of its beginning (live.py:40).                              *)
LinkedNear ==
  \A flow \in ToSet(Flows) : \A a \in ToSet(flow.scenarioIds) \ {Unattributed} :
    \E p \in PacketsOf(flow), x \in Calls :
      x.action = a /\ (Inside(p.at, x) \/ Distance(p.at, x.from) <= Slack)

(* "Normalized bidirectional network flows" (docs/results.md:17): both      *)
(* directions of a connection of target hosts are counted in one flow.      *)
FlowsBidirectional ==
  \A c \in Connections :
    LET both == {p \in ToSet(packets) : {p.src, p.dst} = {c.a, c.b} /\ Kept(p)}
    IN both # {} => \E flow \in ToSet(Flows) :
         /\ PacketsOf(flow) = both
         /\ flow.packetsOut = Cardinality({p \in both : p.src.host = DutIp})
         /\ flow.packetsIn = Cardinality({p \in both : p.dst.host = DutIp})

(* A later replay of the bundle agrees with an earlier one, whatever        *)
(* actions overlap: a packet that was inside a complete interval keeps its  *)
(* action (live.py:35-37).                                                  *)
ReplayStable ==
  [][LET earlier == Intervals(events)
         later   == Intervals(events')
     IN \A p \in ToSet(packets) :
          (\E x \in ToSet(earlier) : Inside(p.at, x)) =>
            ScenarioFor(p.at, later) = ScenarioFor(p.at, earlier)]_vars

(* "Candidate nftables policy from observed allowed flows"                  *)
(* (docs/results.md:20): one rule for every remote endpoint and protocol    *)
(* that was observed, and for no other.                                     *)
PolicyMatchesTraffic ==
  LET rules == Policy IN
  /\ IsInjective(rules)
  /\ ToSet(rules) = {[host |-> Remote(p).host, port |-> Remote(p).port, proto |-> p.proto]
                        : p \in {q \in ToSet(packets) : Kept(q)}}

(* "Baseline/action differential analysis" (docs/results.md:19): a host     *)
(* that was contacted during an action is listed under that action, also    *)
(* on a connection that another action opened, and under no other; the      *)
(* packets sent then are counted there (analysis.py:22-24).                 *)
AnalysisCoversTraffic ==
  LET analysis  == Differential(Flows)
      intervals == Intervals(events)
      kept      == {p \in ToSet(packets) : Kept(p)}
      during(a) == {p \in kept : ScenarioFor(p.at, intervals) = a}
  IN /\ \A p \in kept : \E a \in DOMAIN analysis : Remote(p).host \in analysis[a].physical
     /\ \A a \in Actions : during(a) # {} <=> a \in DOMAIN analysis
     /\ \A a \in DOMAIN analysis \ {Unattributed} :
          /\ analysis[a].physical = {Remote(p).host : p \in during(a)}
          /\ analysis[a].packetsOut >= Cardinality({p \in during(a) : Outbound(p)})
=============================================================================
