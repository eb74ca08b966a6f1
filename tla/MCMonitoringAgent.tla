-------------------------- MODULE MCMonitoringAgent --------------------------
(* MonitoringAgent for TLC. *)
EXTENDS MonitoringAgent, TLC

(* Workers that only execute actions, snapshot and mark are interchangeable, *)
(* and so are the controllers.                                               *)
WorkerSymmetry ==
  {p \in Permutations(Workers) : \A w \in Workers : w \in Controllers <=> p[w] \in Controllers}
=============================================================================
