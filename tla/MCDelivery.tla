----------------------------- MODULE MCDelivery -----------------------------
(* The console, one window and the voice loop. *)
EXTENDS Delivery

CONSTANTS console, window

MCSubmitters == {console, window}
MCConsole == {console}
=============================================================================
