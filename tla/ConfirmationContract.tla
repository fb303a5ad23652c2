------------------------ MODULE ConfirmationContract ------------------------
(***************************************************************************)
(* What the callers of ConfirmationService.ask (core/confirmation.py) rely *)
(* on: at most one question is open, it ends in one of four ways, and it   *)
(* ends approved only if the user consented to it while it was open.       *)
(***************************************************************************)
EXTENDS Naturals

CONSTANTS Callers, MaxRequests

VARIABLES open,       \* the request each caller waits for; 0 is none
          last,       \* the last request id given out
          consented,  \* the requests the user has said yes to
          ended       \* how each caller's last request ended

vars == <<open, last, consented, ended>>

Init ==
  /\ open = [c \in Callers |-> 0]
  /\ last = 0
  /\ consented = {}
  /\ ended = [c \in Callers |-> "none"]

\* A caller gives up its last result to ask again; it may have to wait.
Prepare(c) ==
  /\ open[c] = 0
  /\ ended' = [ended EXCEPT ![c] = "none"]
  /\ UNCHANGED <<open, last, consented>>

Open(c) ==
  /\ \A d \in Callers : open[d] = 0
  /\ last < MaxRequests
  /\ ended[c] = "none"
  /\ last' = last + 1
  /\ open' = [open EXCEPT ![c] = last + 1]
  /\ UNCHANGED <<consented, ended>>

Consent(c) ==
  /\ open[c] # 0
  /\ consented' = consented \cup {open[c]}
  /\ UNCHANGED <<open, last, ended>>

Close(c, how) ==
  /\ open[c] # 0
  /\ how = "approved" => open[c] \in consented
  /\ open' = [open EXCEPT ![c] = 0]
  /\ ended' = [ended EXCEPT ![c] = how]
  /\ UNCHANGED <<last, consented>>

\* A caller cancelled before its turn came.
GiveUp(c) ==
  /\ open[c] = 0
  /\ ended' = [ended EXCEPT ![c] = "aborted"]
  /\ UNCHANGED <<open, last, consented>>

Next ==
  \E c \in Callers :
    \/ Prepare(c) \/ Open(c) \/ Consent(c) \/ GiveUp(c)
    \/ \E how \in {"approved", "declined", "timeout", "aborted"} : Close(c, how)

Spec == Init /\ [][Next]_vars
=============================================================================
