------------------------------ MODULE MCSpeaker ------------------------------
(* The speaker on small instances: see MCSpeaker*.cfg. *)
EXTENDS Speaker
==============================================================================
