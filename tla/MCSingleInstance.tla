--------------------------- MODULE MCSingleInstance ---------------------------
(* The lock file on small instances: see MCSingleInstance*.cfg. *)
EXTENDS SingleInstance, TLC

CONSTANTS p1, p2, p3

Permuted == Permutations({p1, p2, p3})
==============================================================================
