-------------------------- MODULE MCCaptureManager --------------------------
(* CaptureManager for TLC: workers are interchangeable, so the runs that    *)
(* check safety only may identify states up to a permutation of them.       *)
EXTENDS CaptureManager, TLC

WorkerSymmetry == Permutations(Workers)
=============================================================================
