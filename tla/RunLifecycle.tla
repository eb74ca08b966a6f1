---------------------------- MODULE RunLifecycle ----------------------------
(***************************************************************************)
(* What the monitoring agent promises about its runs (docs/architecture.md, *)
(* "Collection and analysis"): packets are captured for one run at a time,  *)
(* a run is captured at most once, and it is finished, then sealed with its *)
(* manifest and checksums, only when its capture is over.                   *)
(***************************************************************************)
CONSTANT Runs

VARIABLES
  fresh,     \* runs that have not been captured
  captured,  \* runs that a capture program is running for
  finished,  \* runs whose metadata says complete or cancelled
  sealed     \* runs with a manifest

vars == <<fresh, captured, finished, sealed>>

Init ==
  /\ fresh = Runs
  /\ captured = {}
  /\ finished = {}
  /\ sealed = {}

Capture(r) ==
  /\ captured = {} /\ r \in fresh \ finished
  /\ fresh' = fresh \ {r}
  /\ captured' = {r}
  /\ UNCHANGED <<finished, sealed>>

Close(r) ==
  /\ captured = {r}
  /\ captured' = {}
  /\ UNCHANGED <<fresh, finished, sealed>>

(* A run may be finished that was never captured: its capture did not start. *)
Finish(r) ==
  /\ r \notin captured
  /\ finished' = finished \cup {r}
  /\ UNCHANGED <<fresh, captured, sealed>>

Seal(r) ==
  /\ r \in finished
  /\ sealed' = sealed \cup {r}
  /\ UNCHANGED <<fresh, captured, finished>>

Next == \E r \in Runs : Capture(r) \/ Close(r) \/ Finish(r) \/ Seal(r)

Spec == Init /\ [][Next]_vars
=============================================================================
