-------------------------- MODULE MCFlowAttribution --------------------------
(* FlowAttribution for TLC: the connections of the runs. *)
EXTENDS FlowAttribution

Dut(port)  == [host |-> "dut", port |-> port]
Peer(port) == [host |-> "peer", port |-> port]
Lo(port)   == [host |-> "lo", port |-> port]

(* Two connections to one service, and one that the filter leaves out. *)
Mixed == {[a |-> Dut(1), b |-> Peer(443), proto |-> "TCP"],
          [a |-> Dut(2), b |-> Peer(443), proto |-> "TCP"],
          [a |-> Dut(1), b |-> Lo(443), proto |-> "TCP"]}

WorkerSymmetry == Permutations(Workers)
=============================================================================
