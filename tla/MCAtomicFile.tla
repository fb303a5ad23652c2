----------------------------- MODULE MCAtomicFile -----------------------------
(* The files on small instances: see MCAtomicFile*.cfg. *)
EXTENDS AtomicFile

CONSTANTS v1, v2, v3
==============================================================================
