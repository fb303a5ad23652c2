--------------------------- MODULE WhisperProcess ---------------------------
(***************************************************************************)
(* The recogniser that lives in a process of its own: the threads that ask *)
(* it over one pipe (services/audio/whisper_process.py) and the decoder at *)
(* the other end (services/audio/whisper.py).  One action is what a thread *)
(* does between two looks at what the threads share; the process is ended  *)
(* under the state lock.                                                   *)
(***************************************************************************)
EXTENDS Naturals, Sequences

CONSTANTS Nobody,      \* no process, no reply
          Jobs,        \* the threads that ask for a transcription
          Budgeted,    \* _external_budget: a transcription has no deadline here
          Escalates,   \* a second model is configured for doubtful results
          Cuda         \* the models run on a device that may fail

Preparer == 0   \* the thread that prepares the recogniser at startup
Callers == Jobs \cup {Preparer}

ASSUME ProcessAssumption ==
  /\ Jobs \subseteq Nat \ {Preparer}
  /\ {Budgeted, Escalates, Cuda} \subseteq BOOLEAN

VARIABLES
  call,     \* per thread: at which statement of _request it is, and its end of the pipe
  answer,   \* per thread: what its request has returned, or Nobody
  child,    \* the process with what lies in its pipe, or Nobody
  decoder,  \* the recogniser inside it
  resting,  \* _retry_after lies ahead
  ended,    \* _closed
  closing   \* close: "no", "ended" (it has set _closed), "over"

whisper == <<call, answer, child, decoder, resting, ended, closing>>

Statements == {"out", "lock", "state", "send", "poll", "failed"}
NewDecoder == [loaded |-> FALSE, active |-> "small", forced |-> FALSE, broken |-> FALSE,
               resting |-> FALSE]
Out == [at |-> "out", pipe |-> FALSE]
Empty == [op |-> "none", text |-> "", flagged |-> FALSE, of |-> Nobody]

ProcessInit ==
  /\ call = [t \in Callers |-> Out]
  /\ answer = [t \in Callers |-> Nobody]
  /\ child = Nobody /\ decoder = NewDecoder
  /\ resting = FALSE /\ ended = FALSE /\ closing = "no"

Operation(t) == IF t = Preparer THEN "prepare" ELSE "transcribe"
At(t, statement) == call[t].at = statement
Goes(t, statement) == call' = [call EXCEPT ![t].at = statement]
\* The status that the preparation returns is only reported.
Returns(t, reply) ==
  /\ call' = [call EXCEPT ![t] = Out]
  /\ answer' = [answer EXCEPT ![t] = IF t = Preparer THEN Empty ELSE reply]

Locked == \E t \in Callers : call[t].at \in {"state", "send", "poll"}

-----------------------------------------------------------------------------
(* A request *)

\* prepare and transcribe up to _request.
Request(t) ==
  /\ At(t, "out") /\ answer[t] = Nobody
  /\ IF t # Preparer /\ (ended \/ resting) THEN Returns(t, Empty)
     ELSE Goes(t, "lock") /\ UNCHANGED answer
  /\ UNCHANGED <<child, decoder, resting, ended, closing>>

Lock(t) ==
  /\ At(t, "lock") /\ ~Locked /\ Goes(t, "state")
  /\ UNCHANGED <<answer, child, decoder, resting, ended, closing>>

MaySpawn_Closed == TRUE
\* Nothing is started once close has begun.
MaySpawn == ~ended

\* Under the state lock: the process is started if there is none, which may fail.
Spawn(t) ==
  /\ At(t, "state")
  /\ \/ ~MaySpawn /\ Goes(t, "failed") /\ UNCHANGED <<child, decoder>>
     \/ /\ MaySpawn /\ child = Nobody
        /\ \E started \in BOOLEAN :
             /\ child' = [alive |-> started, inbox |-> <<>>, outbox |-> <<>>]
             /\ call' = [call EXCEPT ![t] = [at |-> IF started THEN "send" ELSE "failed",
                                             pipe |-> started]]
        /\ decoder' = NewDecoder
     \/ /\ MaySpawn /\ child # Nobody
        /\ call' = [call EXCEPT ![t] = [at |-> "send", pipe |-> TRUE]]
        /\ UNCHANGED <<child, decoder>>
  /\ UNCHANGED <<answer, resting, ended, closing>>

\* The pipe of this thread is closed, or its other end is.
Broken(t) == ~(call[t].pipe /\ child # Nobody /\ child.alive)

Send(t) ==
  /\ At(t, "send")
  /\ IF Broken(t) THEN Goes(t, "failed") /\ UNCHANGED child
     ELSE /\ child' = [child EXCEPT !.inbox = Append(@, [op |-> Operation(t), of |-> t])]
          /\ Goes(t, "poll")
  /\ UNCHANGED <<answer, decoder, resting, ended, closing>>

\* The first reply in the pipe is taken for the reply to this request.
Receive(t) ==
  /\ At(t, "poll") /\ call[t].pipe /\ child # Nobody /\ child.outbox # <<>>
  /\ child' = [child EXCEPT !.outbox = Tail(@)]
  /\ Returns(t, Head(child.outbox))
  /\ UNCHANGED <<decoder, resting, ended, closing>>

\* close, a broken pipe, or the deadline of 120 s, which a budgeted transcription has not.
GivesUp(t) ==
  /\ At(t, "poll")
  /\ \/ ended
     \/ Broken(t) /\ ~(child # Nobody /\ call[t].pipe /\ child.outbox # <<>>)
     \/ t = Preparer \/ ~Budgeted
  /\ Goes(t, "failed")
  /\ UNCHANGED <<answer, child, decoder, resting, ended, closing>>

\* _terminate: the process is gone and the pipe closed, whoever uses it.
Terminate == child' = Nobody /\ decoder' = NewDecoder

\* _failed, after the request lock was released.
Failed(t) ==
  /\ At(t, "failed")
  /\ call' = [c \in Callers |-> [at |-> IF c = t THEN "out" ELSE call[c].at, pipe |-> FALSE]]
  /\ answer' = [answer EXCEPT ![t] = Empty]
  /\ resting' = TRUE /\ Terminate
  /\ UNCHANGED <<ended, closing>>

-----------------------------------------------------------------------------
(* close *)

CloseBegins ==
  /\ closing = "no" /\ closing' = "ended" /\ ended' = TRUE
  /\ UNCHANGED <<call, answer, child, decoder, resting>>

CloseEnds ==
  /\ closing = "ended" /\ closing' = "over"
  /\ call' = [c \in Callers |-> [call[c] EXCEPT !.pipe = FALSE]] /\ Terminate
  /\ UNCHANGED <<answer, resting, ended>>

\* A minute passes, here or there.
Rested ==
  \/ resting /\ resting' = FALSE /\ UNCHANGED <<call, answer, child, decoder, ended, closing>>
  \/ /\ decoder.resting /\ decoder' = [decoder EXCEPT !.resting = FALSE]
     /\ UNCHANGED <<call, answer, child, resting, ended, closing>>

-----------------------------------------------------------------------------
(* The decoder *)

\* _select_model: one model is resident.
Select(d, model) ==
  IF d.active = model THEN d ELSE [d EXCEPT !.active = model, !.loaded = FALSE, !.resting = FALSE]

\* A device that fails is given up for good, and the same model is tried once more.
Devices(d) == IF Cuda THEN {d.forced, TRUE} ELSE {d.forced}

\* _transcribe_once: every outcome, with the state it leaves.
Once(d) ==
  IF d.resting THEN {[d |-> d, text |-> ""]}
  ELSE {[d |-> [d EXCEPT !.loaded = TRUE, !.broken = FALSE, !.forced = f], text |-> t] :
          f \in Devices(d), t \in {"", "doubtful", "open", "sure"}}
       \cup {[d |-> [d EXCEPT !.loaded = l, !.broken = TRUE, !.resting = TRUE, !.forced = f],
              text |-> ""] : f \in Devices(d), l \in {d.loaded, FALSE}}

\* Doubt is taken to the second model, a failure is not.
Uncertain(r) == r.text # "sure" /\ ~r.d.broken

\* transcribe: at most one escalation, whose doubtful result is flagged.
Transcribed(d) ==
  UNION {IF Escalates /\ Uncertain(r)
         THEN {[d |-> s.d, text |-> s.text, flagged |-> s.text \in {"", "doubtful"}] :
                 s \in Once(Select(r.d, "large"))}
         ELSE {[d |-> r.d, text |-> r.text, flagged |-> FALSE]} : r \in Once(Select(d, "small"))}

\* prepare: the model is loaded, or that has failed.
Prepared(d) ==
  IF d.loaded THEN {[d |-> d, text |-> "", flagged |-> d.broken]}
  ELSE {[d |-> [d EXCEPT !.loaded = TRUE, !.broken = FALSE, !.resting = FALSE, !.forced = f],
         text |-> "", flagged |-> FALSE] : f \in Devices(d)}
       \cup {[d |-> [d EXCEPT !.broken = TRUE, !.resting = TRUE, !.forced = f],
              text |-> "", flagged |-> TRUE] : f \in Devices(d)}

\* _worker: one request of the pipe is served.
Serve ==
  /\ child # Nobody /\ child.alive /\ child.inbox # <<>>
  /\ LET request == Head(child.inbox) IN
     \E r \in IF request.op = "prepare" THEN Prepared(decoder) ELSE Transcribed(decoder) :
       /\ decoder' = r.d
       /\ child' = [child EXCEPT !.inbox = Tail(@),
                      !.outbox = Append(@, [op |-> request.op, of |-> request.of,
                                            text |-> r.text, flagged |-> r.flagged])]
  /\ UNCHANGED <<call, answer, resting, ended, closing>>

\* The process dies by itself.
Dies ==
  /\ child # Nobody /\ child.alive /\ child' = [child EXCEPT !.alive = FALSE]
  /\ UNCHANGED <<call, answer, decoder, resting, ended, closing>>

Caller(t) == Lock(t) \/ Spawn(t) \/ Send(t) \/ Receive(t) \/ GivesUp(t) \/ Failed(t)

ProcessNext == (\E t \in Callers : Caller(t)) \/ Serve \/ Dies \/ Rested
=============================================================================
