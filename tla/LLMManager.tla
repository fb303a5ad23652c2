------------------------------ MODULE LLMManager ------------------------------
(***************************************************************************)
(* One model request per turn (services/llm/manager.py, first_text.py,     *)
(* errors.py): the order of the providers, pauses after HTTP 429, retries, *)
(* the switch to a backup that a silent or failing provider causes, the    *)
(* text the user hears on the way, the history the turn leaves behind, and *)
(* the interruption of the conversation (core/processor.py), which cancels *)
(* the request task at whatever await it has reached.                      *)
(* Time is counted in ticks.  An answer is abstracted to what it is.       *)
(***************************************************************************)
EXTENDS Integers, FiniteSets, Sequences, SequencesExt

CONSTANTS Order,      \* available_order: the configured providers
          Gemini,     \* the provider whose empty answers may be asked again
          Kinds,      \* the requests made: chat, natural, quiet, single
          FirstTexts, \* llm_first_text_timeout_seconds in ticks; 0 disables it
          TurnTime,   \* llm_total_timeout_seconds in ticks
          RetryTime,  \* the 10 seconds of the retry of an empty answer
          Attempts,   \* llm_failures_before_switch
          MaxPause,   \* bound: the longest Retry-After
          MaxTurns    \* bound: turns

ASSUME LLMAssumption ==
  /\ Order \in Seq(Range(Order)) /\ Order # <<>> /\ IsInjective(Order)
  /\ Kinds \subseteq {"chat", "natural", "quiet", "single"}
  /\ FirstTexts \subseteq Nat /\ FirstTexts # {} /\ TurnTime \in Nat \ {0} /\ RetryTime \in Nat \ {0}
  /\ Attempts \in Nat \ {0} /\ MaxPause \in Nat \ {0} /\ MaxTurns \in Nat

VARIABLES
  firstText,   \* the setting, one of FirstTexts; it never changes
  active,      \* active_name
  pause,       \* _cooldowns: ticks until each provider may be asked again
  turn,        \* the loop of the request: where it is and what it remembers
  step,        \* what it awaits
  request,     \* the provider request that is open
  heard,       \* the requests of this turn whose text was given to on_chunk
  stored,      \* what _append_history has kept of this turn
  refusedBy,   \* the providers whose answer of this turn was empty or blocked
  interrupted, \* "yes": the user interrupted the conversation during this turn; "late":
               \* only while a request without a first text was being closed
  outcome,     \* what the turn returned
  turns        \* bound: turns begun

vars == <<firstText, active, pause, turn, step, request, heard, stored, refusedBy, interrupted,
          outcome, turns>>
memory == <<heard, stored, refusedBy, interrupted>>

Providers == Range(Order)
Steps == {"idle", "asking", "closing", "backoff", "telling"}
Interruptions == {"no", "yes", "late"}
Outcomes == {"none", "answer", "partial", "action", "data", "notice", "interrupted"}

\* Kinds of failure (classify_failure).  An "empty" answer is one that Gemini
\* may be asked for again, an "invalid" one is rejected by the decoder.
Refusals == {"empty", "blocked", "invalid"}
SwitchKinds == {"transient", "rate_limit"}
Failures == SwitchKinds \cup Refusals \cup {"denied"}
Retryable_AndRateLimit == {"transient", "rate_limit"}
Retryable == {"transient"}

NoTurn == [kind |-> "none", seq |-> <<>>, available |-> {}, at |-> 0, attempt |-> 0, left |-> 0,
           backup |-> FALSE, emptied |-> FALSE, slow |-> FALSE]
NoRequest == [left |-> 0, first |-> 0, started |-> FALSE, said |-> FALSE,
              reply |-> "none", giveUp |-> "none"]
Least(a, b) == IF a <= b THEN a ELSE b

Init ==
  /\ firstText \in FirstTexts
  /\ active = Head(Order) /\ pause = [p \in Providers |-> 0]
  /\ turn = NoTurn /\ step = "idle" /\ request = NoRequest
  /\ heard = {} /\ stored = 0 /\ refusedBy = {} /\ interrupted = "no"
  /\ outcome = "none" /\ turns = 0

(***************************************************************************)
(* Asking a provider.                                                      *)
(***************************************************************************)
\* _sequence: the configured order, rotated to the active provider.
Sequence == LET i == CHOOSE i \in DOMAIN Order : Order[i] = active
            IN SubSeq(Order, i, Len(Order)) \o SubSeq(Order, 1, i - 1)

Unpaused(seq) == {i \in DOMAIN seq : pause[seq[i]] = 0}
First(S) == CHOOSE i \in S : \A j \in S : i <= j

\* chat looks at the pauses again at every provider; converse looked once, before the loop
\* (available), and what makes one request takes the first of those only.
Available(kind, seq) ==
  CASE kind = "chat" -> DOMAIN seq
    [] kind = "single" -> {i \in Unpaused(seq) : \A j \in Unpaused(seq) : i <= j}
    [] OTHER -> Unpaused(seq)
Candidates(t, from) ==
  {i \in t.available : from <= i /\ (t.kind = "chat" => pause[t.seq[i]] = 0)}

Provider == turn.seq[turn.at]
Streamed(t) == t.kind \in {"chat", "natural"}

\* await_first_text: the first text is awaited for a shorter time if there is a backup.
Unwatched == -1
Open_FullTime(t) == [NoRequest EXCEPT !.left = TurnTime, !.first = Unwatched]
Open(t) ==
  LET left == IF t.emptied THEN Least(t.left, RetryTime) ELSE t.left
      watched == t.backup /\ t.kind # "single" /\ 0 < firstText /\ firstText < left
  IN [NoRequest EXCEPT !.left = left, !.first = IF watched THEN firstText ELSE Unwatched]

Ask(t) == turn' = t /\ request' = Open(t) /\ step' = "asking"

\* has_backup is worked out once for each provider, before its attempts.
Enter(t, i) == Ask([t EXCEPT !.at = i, !.attempt = 1, !.backup = Candidates(t, i + 1) # {}])

End(result) ==
  /\ step' = "idle" /\ request' = NoRequest
  /\ outcome' = result

Begin(kind) ==
  LET seq == Sequence
      open == Unpaused(seq)
      t == [NoTurn EXCEPT !.kind = kind, !.seq = seq, !.available = Available(kind, seq),
                          !.left = TurnTime]
  IN /\ step = "idle" /\ turns < MaxTurns
     /\ turns' = turns + 1
     /\ heard' = {} /\ stored' = 0 /\ refusedBy' = {} /\ interrupted' = "no"
     /\ active' = IF kind \in {"natural", "quiet"} /\ open # {} THEN seq[First(open)] ELSE active
     /\ UNCHANGED pause
     /\ \/ open # {} /\ Enter(t, First(open)) /\ outcome' = "none"
        \/ open = {} /\ turn' = t /\ End("notice")

(***************************************************************************)
(* What the provider sends.                                                *)
(***************************************************************************)
Asking(kinds) == step = "asking" /\ turn.kind \in kinds

\* on_chunk is given a piece of the text.
Say == heard' = heard \cup {<<turn.at, turn.attempt>>}

\* The first text.  chat passes all text on; converse has to decode it first.
Text ==
  /\ Asking({"chat", "natural", "quiet"}) /\ ~request.started
  /\ request' = [request EXCEPT !.started = TRUE]
  /\ IF turn.kind = "chat" THEN Say ELSE UNCHANGED heard
  /\ UNCHANGED <<active, pause, turn, step, stored, refusedBy, interrupted, outcome, turns>>

\* ChatPreview: whole sentences of an answer that has declared itself to be chat.
Preview ==
  /\ Asking({"natural"}) /\ request.started /\ ~request.said /\ request.reply = "none"
  /\ request' = [request EXCEPT !.said = TRUE]
  /\ Say
  /\ UNCHANGED <<active, pause, turn, step, stored, refusedBy, interrupted, outcome, turns>>

Unpause(p) == pause' = [pause EXCEPT ![p] = 0]
NewActive == IF turn.slow THEN Head(turn.seq) ELSE Provider

\* The answer of chat is whole.
Answered ==
  /\ Asking({"chat"}) /\ request.started
  /\ Unpause(Provider) /\ active' = NewActive /\ stored' = stored + 1
  /\ End("answer")
  /\ UNCHANGED <<turn, heard, refusedBy, interrupted, turns>>

\* Once a sentence was heard, only an answer that is all chat may still be accepted.
Acceptable(reply) == request.said => reply = "chat"

\* The natural answer is whole: an action is returned, the rest of a text is said first.
Decoded(reply) ==
  /\ Asking({"natural", "quiet"}) /\ request.started /\ request.reply = "none"
  /\ Acceptable(reply)
  /\ IF reply = "action"
     THEN /\ Unpause(Provider) /\ End("action")
     ELSE /\ request' = [request EXCEPT !.reply = reply]
          /\ UNCHANGED <<pause, step, outcome>>
  /\ UNCHANGED <<active, turn, memory, turns>>

RestSaid ==
  /\ Asking({"natural", "quiet"}) /\ request.reply # "none"
  /\ IF turn.kind = "natural" THEN Say ELSE UNCHANGED heard
  /\ Unpause(Provider) /\ stored' = stored + 1
  /\ End("answer")
  /\ UNCHANGED <<active, turn, refusedBy, interrupted, turns>>

\* interpret_command and summarize_web: one answer, not a part of the dialogue.
Returned ==
  /\ Asking({"single"})
  /\ End("data")
  /\ UNCHANGED <<active, pause, turn, memory, turns>>

(***************************************************************************)
(* Failures.                                                               *)
(***************************************************************************)
\* On to the next provider that is not paused, if there is time.
NextProvider(t) ==
  LET rest == Candidates(t, t.at + 1)
  IN \/ /\ t.left > 0 /\ rest # {}
        /\ Enter(t, First(rest))
        /\ UNCHANGED <<active, outcome>>
     \/ /\ t.left = 0 \/ rest = {}
        /\ turn' = t /\ active' = Head(t.seq)
        /\ End("notice")

MoreAttempts == turn.attempt < Attempts
MayAskAgain(f) == /\ f = "empty" /\ Provider = Gemini /\ ~request.started
                  /\ MoreAttempts /\ turn.left >= 1

\* After any text the answer is given up, with what was heard of it.
Replayable_Always == TRUE
Replayable == ~request.started

ChatFailed(f) ==
  \/ /\ ~Replayable
     /\ step' = "telling" /\ request' = NoRequest
     /\ UNCHANGED <<active, turn, outcome>>
  \/ /\ Replayable /\ turn.emptied
     /\ End("notice")
     /\ UNCHANGED <<active, turn>>
  \/ /\ Replayable /\ ~turn.emptied
     /\ \/ /\ MayAskAgain(f)
           /\ Ask([turn EXCEPT !.attempt = @ + 1, !.emptied = TRUE])
           /\ UNCHANGED <<active, outcome>>
        \/ /\ f \in Refusals /\ ~MayAskAgain(f)
           /\ active' = Provider
           /\ End("notice") /\ UNCHANGED turn
        \/ /\ f \in Retryable /\ MoreAttempts /\ turn.left > 0
           /\ step' = "backoff" /\ request' = [NoRequest EXCEPT !.left = 1]
           /\ UNCHANGED <<active, turn, outcome>>
        \/ /\ f \notin Refusals /\ ~(f \in Retryable /\ MoreAttempts /\ turn.left > 0)
           /\ NextProvider(turn)

\* Nothing was received, decoded or spoken: the backup is not a replay.
NaturalFailed(f) ==
  LET switch == ~request.started /\ f \in SwitchKinds /\ turn.left >= 1 /\ turn.backup
  IN /\ UNCHANGED active
     /\ \/ switch /\ Enter(turn, First(Candidates(turn, turn.at + 1))) /\ UNCHANGED outcome
        \/ ~switch /\ End("notice") /\ UNCHANGED turn

Failed(f) ==
  /\ \/ f = "rate_limit" /\ \E d \in 1..MaxPause : pause' = [pause EXCEPT ![Provider] = d]
     \/ f # "rate_limit" /\ UNCHANGED pause
  /\ refusedBy' = IF f \in Refusals THEN refusedBy \cup {Provider} ELSE refusedBy
  /\ CASE turn.kind = "chat" -> ChatFailed(f)
       [] turn.kind = "single" -> End("notice") /\ UNCHANGED <<active, turn>>
       [] OTHER -> NaturalFailed(f)
  /\ UNCHANGED <<heard, stored, interrupted, turns>>

Fail(f) ==
  /\ step = "asking" /\ request.reply = "none"
  /\ f = "invalid" => turn.kind # "chat"
  /\ f = "empty" => ~request.started /\ Provider = Gemini
  /\ Failed(f)

\* The partial answer, with the notice of the failure spoken after it.
NoticeSpoken ==
  /\ step = "telling"
  /\ active' = Provider /\ stored' = stored + 1 /\ End("partial")
  /\ UNCHANGED <<pause, turn, heard, refusedBy, interrupted, turns>>

\* The sleep between two attempts is over.
Wake ==
  /\ step = "backoff" /\ request.left = 0
  /\ \/ /\ turn.left > 0
        /\ Ask([turn EXCEPT !.attempt = @ + 1])
        /\ UNCHANGED <<active, outcome>>
     \/ turn.left = 0 /\ NextProvider(turn)
  /\ UNCHANGED <<pause, memory, turns>>

(***************************************************************************)
(* Giving a request up: the timers and the user.  The request task is      *)
(* cancelled and awaited while it closes its stream.                       *)
(***************************************************************************)
GiveUp(reason) ==
  /\ step' = "closing" /\ request' = [request EXCEPT !.giveUp = reason]
  /\ UNCHANGED <<active, pause, turn, heard, stored, refusedBy, outcome, turns>>

Silent ==
  /\ step = "asking" /\ request.first = 0 /\ ~request.started
  /\ GiveUp("slow") /\ UNCHANGED interrupted

Expired_Never == FALSE
Expired == request.left = 0

TimeUp ==
  /\ step = "asking" /\ Expired
  /\ GiveUp("timeout") /\ UNCHANGED interrupted

\* wait_for passes a cancellation on; await_first_text, awaiting the request it has
\* abandoned, takes it for the end of that request.
Reason == IF step = "closing" /\ request.giveUp = "slow" THEN "slow" ELSE "interrupt"

Interrupt ==
  /\ step # "idle" /\ turn.kind # "single"
  /\ interrupted' = IF step = "closing" /\ request.giveUp = "slow" THEN "late" ELSE "yes"
  /\ \/ step \in {"asking", "closing"} /\ GiveUp(Reason)
     \/ /\ step \in {"backoff", "telling"} /\ End("interrupted")
        /\ UNCHANGED <<active, pause, turn, heard, stored, refusedBy, turns>>

Closed ==
  /\ step = "closing"
  /\ \/ request.giveUp = "timeout" /\ Failed("transient")
     \/ /\ request.giveUp = "slow" /\ turn.kind = "chat"
        /\ NextProvider([turn EXCEPT !.slow = TRUE])
        /\ UNCHANGED <<pause, memory, turns>>
     \/ /\ request.giveUp = "slow" /\ turn.kind # "chat" /\ Failed("transient")
     \/ /\ request.giveUp = "interrupt" /\ End("interrupted")
        /\ UNCHANGED <<active, pause, turn, memory, turns>>

\* A second of the clock.  A timer that has run out is acted on before the next.
Less(n) == IF n > 0 THEN n - 1 ELSE n

Tick ==
  /\ step \in {"asking", "backoff"} => request.left > 0
  /\ step = "asking" => request.first # 0 \/ request.started
  /\ pause' = [p \in Providers |-> Less(pause[p])]
  /\ IF step = "idle" THEN UNCHANGED <<turn, request>>
     ELSE /\ turn' = [turn EXCEPT !.left = Less(@)]
          /\ request' = [request EXCEPT !.left = Less(@), !.first = Less(@)]
  /\ UNCHANGED <<active, step, memory, outcome, turns>>

Next ==
  /\ \/ \E kind \in Kinds : Begin(kind)
     \/ Text \/ Preview \/ Answered \/ RestSaid \/ Returned
     \/ \E reply \in {"chat", "clarify", "action"} : Decoded(reply)
     \/ \E f \in Failures : Fail(f)
     \/ NoticeSpoken \/ Wake \/ Silent \/ TimeUp \/ Interrupt \/ Closed \/ Tick
  /\ UNCHANGED firstText

Spec == Init /\ [][Next]_vars

\* The clock runs, timers fire, a cancelled request closes its stream and the speaker
\* takes what it is given.  Nothing is assumed of the providers or of the user.
FairSpec ==
  /\ Spec
  /\ WF_vars(Tick /\ UNCHANGED firstText) /\ WF_vars(Silent /\ UNCHANGED firstText)
  /\ WF_vars(TimeUp /\ UNCHANGED firstText) /\ WF_vars(Wake /\ UNCHANGED firstText)
  /\ WF_vars(Closed /\ UNCHANGED firstText) /\ WF_vars(NoticeSpoken /\ UNCHANGED firstText)

-----------------------------------------------------------------------------
(***************************************************************************)
(* Properties.                                                             *)
(***************************************************************************)
Turn == [kind : Kinds \cup {"none"}, seq : Seq(Providers), available : SUBSET DOMAIN Order, at : 0..Len(Order),
         attempt : 0..Attempts, left : 0..TurnTime, backup : BOOLEAN,
         emptied : BOOLEAN, slow : BOOLEAN]
Request == [left : 0..TurnTime, first : Unwatched..TurnTime, started : BOOLEAN,
            said : BOOLEAN, reply : {"none", "chat", "clarify"},
            giveUp : {"none", "slow", "timeout", "interrupt"}]

\* Every variable has its type; a turn stores at most one answer.
TypeOK ==
  /\ firstText \in FirstTexts /\ active \in Providers /\ pause \in [Providers -> 0..MaxPause]
  /\ turn \in Turn /\ step \in Steps /\ request \in Request
  /\ heard \subseteq (1..Len(Order)) \X (1..Attempts)
  /\ stored \in 0..1 /\ refusedBy \subseteq Providers /\ interrupted \in Interruptions
  /\ outcome \in Outcomes /\ turns \in 0..MaxTurns

\* Whatever fails, is retried or switched, the user hears text of one request only: an
\* answer that has begun is never replayed by another attempt or another model.
OneVoice == Cardinality(heard) <= 1

\* The history gets the turn exactly when an answer, or what was heard of one, is
\* returned; and a chat that was heard and not interrupted is always in it, because
\* the processor then rewrites the last stored answer with what it has spoken.  What was
\* heard as chat never turns into an action (ChatPreview).
HistoryIsTheTurn ==
  /\ stored = 1 <=> outcome \in {"answer", "partial"}
  /\ step = "idle" /\ turn.kind = "chat" /\ heard # {} /\ outcome # "interrupted" => stored = 1
  /\ outcome = "action" => heard = {}

\* A provider that answered 429 gets no request until its pause is over, whether it is
\* reached by a retry, a switch or a later turn.
PausedProviderNotAsked ==
  [][ /\ step' = "asking"
      /\ step # "asking" \/ turn.at # turn'.at \/ turn.attempt # turn'.attempt
      => pause'[turn'.seq[turn'.at]] = 0 ]_vars

\* Retries and switches share the time of the turn: no request outlives it.
RequestsShareTheTime == step = "asking" => request.left <= turn.left

\* An answer that came empty, blocked or unparseable is not asked of another model
\* (first_text.py, tests/test_empty_response_retry.py, docs/ARCHITECTURE.md), unless
\* the one retry of an empty answer is itself given up for its slow first text.
RefusedAnswersStay ==
  step = "asking" /\ ~(turn.emptied /\ turn.slow) => refusedBy \subseteq {Provider}

\* A turn that the user has interrupted returns nothing (processor.py, _model_turn).
InterruptedTurnIsOver == interrupted # "no" => outcome \in {"none", "interrupted"}

\* It is so wherever the interruption arrives, in an attempt, a pause before the next, on the
\* way to another provider or at the end of the time, but for the await in which
\* await_first_text closes a request (first_text.py:46-47): there it is swallowed.
InterruptEndsTurn == interrupted = "yes" => outcome \in {"none", "interrupted"}

\* What makes these inductive.  A turn that goes on has a provider that may be asked and has
\* returned nothing; what was heard is of its one request, and of a request that has begun;
\* what was refused ends the turn, but for the one retry; an interruption that was not
\* swallowed has its request to close, and nothing behind it.
TurnGoesOn ==
  /\ IsInjective(turn.seq)
  /\ turn.kind # "none" => Len(turn.seq) = Len(Order)
  /\ turn.available \subseteq DOMAIN turn.seq
  /\ step # "idle" =>
       /\ turn.kind # "none" /\ turn.at \in turn.available /\ turn.attempt >= 1
       /\ outcome = "none" /\ stored = 0
       /\ turn.kind # "chat" /\ turn.backup => \E i \in turn.available : turn.at < i
  /\ step \in {"backoff", "telling"} => turn.kind = "chat"
  /\ step = "backoff" => turn.attempt < Attempts
  /\ step \in {"asking", "closing", "backoff"} => pause[Provider] = 0
  /\ step \in {"asking", "closing"} /\ turn.kind # "chat" =>
       \A i \in turn.available : turn.at < i => pause[turn.seq[i]] = 0
TurnSpeaks ==
  /\ heard \subseteq {<<turn.at, turn.attempt>>}
  /\ step = "backoff" => heard = {}
  /\ step \in {"asking", "closing"} =>
       /\ ~request.started => heard = {}
       /\ turn.kind # "chat" /\ ~request.said => heard = {}
       /\ request.said => request.started
       /\ request.giveUp = "slow" => ~request.started
  /\ step = "asking" => request.giveUp = "none"
TurnRefuses ==
  /\ turn.emptied => turn.kind = "chat"
  /\ step \in {"asking", "closing", "backoff"} =>
       /\ ~turn.emptied => refusedBy = {}
       /\ turn.emptied /\ ~turn.slow => refusedBy \subseteq {Provider}
  /\ step = "backoff" => ~turn.emptied
TurnIsCut ==
  interrupted = "yes" => \/ step = "closing" /\ request.giveUp = "interrupt"
                         \/ step = "idle" /\ outcome = "interrupted"

\* Every variable has its type, and the timers of a request that of its turn
\* (_chat_request, converse); and what makes the rest inductive.
Inv == /\ TypeOK /\ RequestsShareTheTime
       /\ TurnGoesOn /\ TurnSpeaks /\ TurnRefuses /\ TurnIsCut

\* What a turn says, stores and returns agree: no answer is replayed, taken from another
\* model or returned after an interruption, and the history has what was answered.
AnswersStand == OneVoice /\ HistoryIsTheTurn /\ RefusedAnswersStay /\ InterruptEndsTurn

\* Every turn ends, however silent the providers are.
TurnEnds == step # "idle" ~> step = "idle"
=============================================================================
