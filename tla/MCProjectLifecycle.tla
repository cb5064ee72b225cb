------------------------- MODULE MCProjectLifecycle -------------------------
(* Small instances of ProjectLifecycle for TLC. One project is enough: no   *)
(* statement of the code relates two projects' rows.                        *)
EXTENDS ProjectLifecycle, TLC

\* Handler goroutines are interchangeable (used by the safety run only).
WorkerSymmetry == Permutations(Workers)
=============================================================================
