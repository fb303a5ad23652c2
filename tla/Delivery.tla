------------------------------ MODULE Delivery ------------------------------
(***************************************************************************)
(* How an utterance or a typed line becomes the turn the command loop runs *)
(* (core/app.py, core/dispatch_guard.py): the text submitters, the voice   *)
(* loop, the one-place command queue with its single-use tickets, the one  *)
(* waiting place, and the stop button.  One asyncio step is one action.    *)
(* The processor is abstracted to what delivery depends on: whether a chat *)
(* or a confirmation is running, and the prompt the user would answer.     *)
(***************************************************************************)
EXTENDS Integers, FiniteSets, Sequences

CONSTANTS Submitters,   \* text inputs: the console and the windows
          Console,      \* those of them that are tasks of the application
          None,
          QueueSize,    \* maxsize of command_queue
          Capacity,     \* capacity of DispatchGuard
          HastyAnswers, \* a confirmation may end before woken tasks have resumed
          MaxTurns,     \* bound: tickets issued
          MaxPrompts,   \* bound: prompts the processor creates
          MaxEpoch      \* bound: microphone switches

ASSUME DeliveryAssumption ==
  /\ Console \subseteq Submitters
  /\ None \notin Submitters
  /\ QueueSize \in Nat \ {0} /\ Capacity \in Nat \ {0}
  /\ HastyAnswers \in BOOLEAN
  /\ {MaxTurns, MaxPrompts, MaxEpoch} \subseteq Nat
  \* 64 tickets, a queue of one, and a handful of inputs.
  /\ IsFiniteSet(Submitters) /\ QueueSize + Cardinality(Submitters) + 1 < Capacity

VARIABLES
  running,  \* running
  queue,    \* command_queue
  idle,     \* command_idle
  worker,   \* the command loop: phase, turn, and the context it met (history)
  issued,   \* _sequence of DispatchGuard
  pending,  \* pending of DispatchGuard
  text,     \* each submitter inside _submit_text
  slot,     \* _waiting_input: who occupies the waiting place
  context,  \* what _delivery_context refers to: question and proposal; 0 is None
  prompts,  \* prompts created so far
  voice,    \* the voice loop
  mic,      \* microphone_enabled
  epoch     \* _microphone_epoch

vars == <<running, queue, idle, worker, issued, pending, text, slot, context,
          prompts, voice, mic, epoch>>

Contexts == [question : 0..MaxPrompts, proposal : 0..MaxPrompts]
NoContext == [question |-> 0, proposal |-> 0]
\* seen: the context captured by _submit_text; the rest is history about the
\* delivery: direct (nothing was running or queued), told (when the user was
\* told that it had been taken off: while it was blocked, or later) and switched (the
\* microphone was, during the recording).
Turns == [ticket : 0..MaxTurns, source : {"text", "voice"}, seen : Contexts,
          direct : BOOLEAN, told : {"no", "blocked", "late"}, switched : BOOLEAN]
NoTurn == [ticket |-> 0, source |-> "text", seen |-> NoContext,
           direct |-> FALSE, told |-> "no", switched |-> FALSE]

Kinds == {"request", "stop", "pause"}
TextPhases == {"idle", "stopping", "waiting", "leaving", "putting", "gone"}
VoicePhases == {"slot", "recording", "heard", "putting", "gone"}
WorkerPhases == {"waiting", "local", "chat", "interrupted", "confirming", "down"}

NoText == [phase |-> "idle", kind |-> "request", seen |-> NoContext, ready |-> FALSE,
           cancelled |-> FALSE, go |-> FALSE, told |-> "no", turn |-> NoTurn]
AtSlot == [phase |-> "slot", ready |-> FALSE, epoch |-> 0, confirm |-> FALSE,
           switched |-> FALSE, turn |-> NoTurn]

Init ==
  /\ running = TRUE
  /\ queue = <<>>
  /\ idle = TRUE
  /\ worker = [phase |-> "waiting", turn |-> NoTurn, met |-> NoContext]
  /\ issued = 0 /\ pending = {}
  /\ text = [s \in Submitters |-> NoText]
  /\ slot = None
  /\ context = NoContext
  /\ prompts = 0
  /\ voice = AtSlot
  /\ mic = TRUE /\ epoch = 0

Confirming == worker.phase = "confirming"      \* confirmation.awaiting

-----------------------------------------------------------------------------
(* The command loop *)

MarkBusy == idle' = FALSE      \* command_idle.clear()

Claim_Twice(ticket) == pending' = pending
\* DispatchGuard.claim: a ticket works once.
Claim(ticket) == pending' = pending \ {ticket}

\* _command_loop takes the head of the queue and starts to process it.
StartHead ==
  /\ Head(queue).ticket \in pending
  /\ Claim(Head(queue).ticket)
  /\ queue' = Tail(queue)
  /\ worker' = [phase |-> "local", turn |-> Head(queue), met |-> context]
  /\ MarkBusy

TakeTurn_WhenIdle ==
  /\ running /\ worker.phase = "waiting" /\ queue # <<>> /\ idle
  /\ StartHead
  /\ UNCHANGED <<running, issued, text, slot, context, prompts, voice, mic, epoch>>

TakeTurn ==
  /\ running /\ worker.phase = "waiting" /\ queue # <<>>
  /\ StartHead
  /\ UNCHANGED <<running, issued, text, slot, context, prompts, voice, mic, epoch>>

\* command_idle.set() and _request_event.set() wake every waiter, for good:
\* Event.wait does not look again.
WakeAll ==
  /\ text' = [s \in Submitters |->
                [text[s] EXCEPT !.ready = @ \/ text[s].phase = "waiting"]]
  /\ voice' = [voice EXCEPT !.ready = @ \/ voice.phase = "slot"]

\* The turn ends: the finally block, and the next get() without a pause when
\* something is queued already.
FinishTurn ==
  /\ running /\ worker.phase \in {"local", "interrupted"}
  /\ WakeAll
  /\ \/ queue # <<>> /\ StartHead
     \/ /\ queue = <<>>
        /\ idle' = TRUE
        /\ worker' = [worker EXCEPT !.phase = "waiting"]
        /\ UNCHANGED <<queue, pending>>
  /\ UNCHANGED <<running, issued, slot, context, prompts, mic, epoch>>

\* The processor replaces or clears the question or the proposal the user sees.
ChangeContext ==
  /\ worker.phase = "local"
  /\ \E q \in {context.question, 0, prompts + 1}, p \in {context.proposal, 0, prompts + 1} :
       /\ context' = [question |-> q, proposal |-> p]
       /\ prompts' = IF prompts + 1 \in {q, p} THEN prompts + 1 ELSE prompts
       /\ prompts' <= MaxPrompts
  /\ UNCHANGED <<running, queue, idle, worker, issued, pending, text, slot, voice, mic, epoch>>

\* A tool-free chat starts and ends inside a turn.
StartChat ==
  /\ worker.phase = "local"
  /\ worker' = [worker EXCEPT !.phase = "chat"]
  /\ UNCHANGED <<running, queue, idle, issued, pending, text, slot, context, prompts,
                 voice, mic, epoch>>

EndChat ==
  /\ worker.phase = "chat"
  /\ worker' = [worker EXCEPT !.phase = "local"]
  /\ UNCHANGED <<running, queue, idle, issued, pending, text, slot, context, prompts,
                 voice, mic, epoch>>

\* The action of the turn asks the user to confirm it, and gets its answer.
AskUser ==
  /\ worker.phase = "local"
  /\ worker' = [worker EXCEPT !.phase = "confirming"]
  /\ WakeAll
  /\ UNCHANGED <<running, queue, idle, issued, pending, slot, context, prompts, mic, epoch>>

\* An answer takes a person; only a cancelled confirmation ends within the few
\* passes of the event loop a woken sender needs to resume.
UserAnswered ==
  /\ Confirming
  /\ HastyAnswers \/ \A s \in Submitters :
                      text[s].phase # "leaving" /\ ~(text[s].phase = "waiting" /\ text[s].ready)
  /\ worker' = [worker EXCEPT !.phase = "local"]
  /\ UNCHANGED <<running, queue, idle, issued, pending, text, slot, context, prompts,
                 voice, mic, epoch>>

-----------------------------------------------------------------------------
(* Typed input *)

\* interrupt_conversation: a running chat is cancelled and its proposal dropped;
\* a discarding caller drops the proposal in any case.
Interrupt(discard) ==
  /\ worker' = IF worker.phase = "chat" THEN [worker EXCEPT !.phase = "interrupted"] ELSE worker
  /\ context' = IF discard \/ worker.phase = "chat"
                THEN [context EXCEPT !.proposal = 0] ELSE context

\* Tickets that may still be asked for; keeps MaxTurns from blocking a sender.
Senders == {s \in Submitters : text[s].phase \in {"stopping", "waiting", "leaving"}}
Underway == Cardinality(Senders)
            + (IF voice.phase \in {"recording", "heard"} THEN 1 ELSE 0)

\* _submit_text up to speaker.stop(): what is typed during a confirmation goes
\* to it instead (module Confirmation).
TypeText(s, kind) ==
  /\ text[s].phase = "idle" /\ ~Confirming
  /\ issued + Underway < MaxTurns
  /\ text' = [text EXCEPT ![s] = [NoText EXCEPT !.phase = "stopping", !.kind = kind, !.seen = context]]
  /\ Interrupt(kind # "request")
  /\ UNCHANGED <<running, queue, idle, issued, pending, slot, prompts, voice, mic, epoch>>

HasRoom == Len(queue) < QueueSize

SameContext_Ignored(seen) == TRUE
\* The comparison of the captured references with the present ones.
SameContext(seen) == seen = context

\* _enqueue_command and the put: a full queue keeps the sender waiting.  That
\* issue() raises at Capacity cannot happen (TicketsAccountedFor).
Issue(turn) ==
  /\ MarkBusy
  /\ issued' = issued + 1
  /\ pending' = pending \cup {turn.ticket}
  /\ queue' = IF HasRoom THEN Append(queue, turn) ELSE queue

\* The end of _submit_text once delivery may go ahead: last checks, then enqueue.
Deliver(s) ==
  LET turn == [NoTurn EXCEPT !.ticket = issued + 1, !.seen = text[s].seen,
                 !.direct = (worker.phase = "waiting" /\ queue = <<>>),
                 !.told = text[s].told]
  IN \/ /\ ~Confirming /\ SameContext(text[s].seen)
        /\ Issue(turn)
        /\ text' = [text EXCEPT ![s] = IF HasRoom THEN NoText
                                       ELSE [NoText EXCEPT !.phase = "putting", !.turn = turn]]
     \/ /\ Confirming \/ ~SameContext(text[s].seen)
        /\ text' = [text EXCEPT ![s] = NoText]
        /\ UNCHANGED <<queue, idle, issued, pending>>

\* _cancel_waiting_input: the event of whoever occupies the waiting place is
\* set, and the user is told that the request was taken off.
TakenOff(s) == [text[s] EXCEPT !.cancelled = TRUE,
                  !.told = IF text[s].phase = "waiting" THEN "blocked" ELSE "late"]
CancelWaiting ==
  text' = IF slot = None THEN text ELSE [text EXCEPT ![slot] = TakenOff(slot)]

\* speaker.stop() returned: pause and stop are done, a request is delivered at
\* once, waits in the one waiting place, or is refused.
SpeechStopped(s) ==
  /\ text[s].phase = "stopping"
  /\ \/ /\ text[s].kind = "request" /\ (idle \/ Confirming)
        /\ Deliver(s)
        /\ UNCHANGED slot
     \/ /\ text[s].kind = "request" /\ ~(idle \/ Confirming) /\ slot = None
        /\ slot' = s
        /\ text' = [text EXCEPT ![s].phase = "waiting"]
        /\ UNCHANGED <<queue, idle, issued, pending>>
     \/ /\ \/ text[s].kind = "pause"
           \/ text[s].kind = "request" /\ ~(idle \/ Confirming) /\ slot # None
        /\ text' = [text EXCEPT ![s] = NoText]
        /\ UNCHANGED <<slot, queue, idle, issued, pending>>
     \/ /\ text[s].kind = "stop"
        /\ text' = IF slot = None THEN [text EXCEPT ![s] = NoText]
                   ELSE [text EXCEPT ![s] = NoText, ![slot] = TakenOff(slot)]
        /\ UNCHANGED <<slot, queue, idle, issued, pending>>
  /\ UNCHANGED <<running, worker, context, prompts, voice, mic, epoch>>

Proceeds_Always(s) == TRUE
\* What the waiter decides when it wakes up.
Proceeds(s) == ~text[s].cancelled

\* _wait_for_text_delivery wakes: it decides, then still awaits its two helper
\* tasks while it occupies the waiting place.
Woken(s) ==
  /\ text[s].phase = "waiting" /\ (text[s].ready \/ text[s].cancelled)
  /\ text' = [text EXCEPT ![s].phase = "leaving", ![s].go = Proceeds(s)]
  /\ UNCHANGED <<running, queue, idle, worker, issued, pending, slot, context, prompts,
                 voice, mic, epoch>>

FreeSlot == slot' = None

LeaveWaiting(s) ==
  /\ text[s].phase = "leaving"
  /\ FreeSlot
  /\ \/ text[s].go /\ Deliver(s)
     \/ /\ ~text[s].go
        /\ text' = [text EXCEPT ![s] = NoText]
        /\ UNCHANGED <<queue, idle, issued, pending>>
  /\ UNCHANGED <<running, worker, context, prompts, voice, mic, epoch>>

\* A blocked put succeeds.
PutText(s) ==
  /\ text[s].phase = "putting" /\ HasRoom
  /\ queue' = Append(queue, text[s].turn)
  /\ text' = [text EXCEPT ![s] = NoText]
  /\ UNCHANGED <<running, idle, worker, issued, pending, slot, context, prompts, voice, mic, epoch>>

\* The stop and pause buttons (web_control).
StopButton ==
  /\ running
  /\ CancelWaiting
  /\ Interrupt(TRUE)
  /\ UNCHANGED <<running, queue, idle, issued, pending, slot, prompts, voice, mic, epoch>>

PauseButton ==
  /\ running /\ ~Confirming
  /\ Interrupt(TRUE)
  /\ UNCHANGED <<running, queue, idle, issued, pending, text, slot, prompts, voice, mic, epoch>>

-----------------------------------------------------------------------------
(* The voice loop *)

\* The slot is free: _listen_for_turn starts to record.
StartListening ==
  /\ voice.phase = "slot" /\ mic
  /\ issued + Underway < MaxTurns
  /\ idle \/ Confirming \/ voice.ready
  /\ voice' = [AtSlot EXCEPT !.phase = "recording", !.epoch = epoch, !.confirm = Confirming]
  /\ UNCHANGED <<running, queue, idle, worker, issued, pending, text, slot, context, prompts,
                 mic, epoch>>

\* Nothing usable was recorded, or the recording was interrupted: text or
\* speech began, or the microphone was switched.
NothingHeard ==
  /\ voice.phase = "recording"
  /\ voice' = AtSlot
  /\ UNCHANGED <<running, queue, idle, worker, issued, pending, text, slot, context, prompts,
                 mic, epoch>>

\* The checks of _listen_for_turn on the finished recording.
SameMicrophone == mic /\ voice.epoch = epoch

\* A whole utterance.  A reply goes to the confirmation; anything else becomes a turn,
\* but first the finally block awaits the finished recording once more.
Heard ==
  /\ voice.phase = "recording" /\ SameMicrophone
  /\ voice.confirm \/ idle
  /\ voice' = IF voice.confirm THEN AtSlot ELSE [voice EXCEPT !.phase = "heard"]
  /\ UNCHANGED <<running, queue, idle, worker, issued, pending, text, slot, context, prompts,
                 mic, epoch>>

\* The voice loop does not look at command_idle again: a woken sender may have got in.
EnqueueSpeech ==
  /\ voice.phase = "heard"
  /\ LET turn == [NoTurn EXCEPT !.ticket = issued + 1, !.source = "voice", !.seen = context,
                !.switched = voice.switched]
     IN /\ Issue(turn)
        /\ voice' = IF HasRoom THEN AtSlot
                    ELSE [AtSlot EXCEPT !.phase = "putting", !.turn = turn]
  /\ UNCHANGED <<running, worker, text, slot, context, prompts, mic, epoch>>

PutVoice ==
  /\ voice.phase = "putting" /\ HasRoom
  /\ queue' = Append(queue, voice.turn)
  /\ voice' = AtSlot
  /\ UNCHANGED <<running, idle, worker, issued, pending, text, slot, context, prompts, mic, epoch>>

\* The microphone button.
Microphone(on) ==
  /\ running /\ epoch < MaxEpoch
  /\ mic' = on
  /\ epoch' = epoch + 1
  /\ voice' = [voice EXCEPT !.switched = @ \/ voice.phase = "recording"]
  /\ UNCHANGED <<running, queue, idle, worker, issued, pending, text, slot, context, prompts>>

-----------------------------------------------------------------------------
(* The end *)

\* A turn shuts the application down: the other tasks are cancelled where they
\* wait, which takes back the ticket of a blocked put.
Shutdown ==
  LET cancelled == {s \in Console : text[s].phase = "putting"}
      tickets == {text[s].turn.ticket : s \in cancelled}
                 \cup (IF voice.phase = "putting" THEN {voice.turn.ticket} ELSE {})
  IN /\ running /\ worker.phase = "local"
     /\ running' = FALSE
     /\ worker' = [worker EXCEPT !.phase = "down"]
     /\ idle' = TRUE
     /\ pending' = pending \ tickets
     /\ text' = [s \in Submitters |->
                   IF s \in Console THEN [NoText EXCEPT !.phase = "gone"]
                   ELSE [text[s] EXCEPT !.ready = @ \/ text[s].phase = "waiting"]]
     /\ voice' = [AtSlot EXCEPT !.phase = "gone"]
     /\ slot' = IF slot \in Console THEN None ELSE slot
     /\ UNCHANGED <<queue, issued, context, prompts, mic, epoch>>

\* The finally block of run closes the windows and forgets every ticket.
Close ==
  /\ ~running /\ \E s \in Submitters \ Console : text[s].phase # "gone"
  /\ pending' = {}
  /\ text' = [s \in Submitters |-> [NoText EXCEPT !.phase = "gone"]]
  /\ slot' = None
  /\ UNCHANGED <<running, queue, idle, worker, issued, context, prompts, voice, mic, epoch>>

Text(s) == SpeechStopped(s) \/ Woken(s) \/ LeaveWaiting(s) \/ PutText(s)

Next ==
  \/ TakeTurn \/ FinishTurn \/ ChangeContext
  \/ StartChat \/ EndChat \/ AskUser \/ UserAnswered
  \/ \E s \in Submitters : (\E k \in Kinds : TypeText(s, k)) \/ Text(s)
  \/ StopButton \/ PauseButton
  \/ StartListening \/ NothingHeard \/ Heard \/ EnqueueSpeech \/ PutVoice
  \/ \E on \in BOOLEAN : Microphone(on)
  \/ Shutdown \/ Close

Spec == Init /\ [][Next]_vars

\* The event loop runs what is ready, speech stops, chats and confirmations end,
\* and a turn consists of finitely many of them.
FairSpec ==
  /\ Spec
  /\ WF_vars(TakeTurn) /\ SF_vars(FinishTurn) /\ WF_vars(EndChat) /\ WF_vars(UserAnswered)
  /\ WF_vars(EnqueueSpeech) /\ WF_vars(PutVoice) /\ WF_vars(Close)
  /\ \A s \in Submitters : WF_vars(Text(s))

-----------------------------------------------------------------------------
Texts == [phase : TextPhases, kind : Kinds, seen : Contexts, ready : BOOLEAN,
          cancelled : BOOLEAN, go : BOOLEAN, told : {"no", "blocked", "late"}, turn : Turns]
Voices == [phase : VoicePhases, ready : BOOLEAN, epoch : 0..MaxEpoch,
           confirm : BOOLEAN, switched : BOOLEAN, turn : Turns]
Workers == [phase : WorkerPhases, turn : Turns, met : Contexts]

\* Every variable has its type; the command queue keeps its size.
TypeOK ==
  /\ running \in BOOLEAN /\ idle \in BOOLEAN /\ mic \in BOOLEAN
  /\ queue \in Seq(Turns) /\ Len(queue) <= QueueSize
  /\ worker \in Workers
  /\ issued \in 0..MaxTurns /\ pending \subseteq 1..MaxTurns
  /\ text \in [Submitters -> Texts]
  /\ slot \in Submitters \cup {None}
  /\ context \in Contexts /\ prompts \in 0..MaxPrompts
  /\ voice \in Voices /\ epoch \in 0..MaxEpoch

Processing == worker.phase \in {"local", "chat", "interrupted", "confirming"}
QueuedTickets == {queue[i].ticket : i \in 1..Len(queue)}
Putting == {s \in Submitters : text[s].phase = "putting"}
PutTickets == {text[s].turn.ticket : s \in Putting}
VoiceTickets == IF voice.phase = "putting" THEN {voice.turn.ticket} ELSE {}
Accepted == QueuedTickets \cup PutTickets \cup VoiceTickets

\* The guard knows exactly the turns accepted and not yet run: none can run
\* twice or be turned away, and the tickets never run out (DispatchGuard).
TicketsAccountedFor ==
  running => /\ pending = Accepted /\ Cardinality(pending) < Capacity
             /\ worker.turn.ticket \notin pending

\* While command_idle is set no turn is being processed, also when the next one
\* started without a pause: the voice loop and every sender go ahead on it.
\* (A turn may be queued: a put that was blocked lands after the loop went idle.)
IdleIsTruthful == idle => ~Processing

\* The waiting place is occupied exactly while somebody waits in it, so a
\* finished or refused sender never blocks the next one.
SlotHasItsWaiter ==
  \A s \in Submitters : slot = s <=> text[s].phase \in {"waiting", "leaving"}

\* A prompt the user had not seen when typing.
NewPrompt(turn) == \E f \in {"question", "proposal"} :
                      worker.met[f] \notin {0, turn.seen[f]}

\* A text that found the loop free when it was enqueued never answers a prompt
\* its author had not seen, although speech was stopped and others ran between
\* the capture of the context and the delivery.
DirectTextMeetsItsPrompt ==
  Processing /\ worker.turn.source = "text" /\ worker.turn.direct => ~NewPrompt(worker.turn)

\* _delivery_context: "never bind delayed input to a new prompt".
DelayedTextMeetsItsPrompt ==
  Processing /\ worker.turn.source = "text" => ~NewPrompt(worker.turn)

\* A request that was still blocked when the stop button took it off never runs,
\* even when it was woken in the meantime.
BlockedInputObeysStop == Processing => worker.turn.told # "blocked"

\* _wait_for_text_delivery tells the user that the stop button takes the
\* request off: once that was reported done, the request never runs.
StopTakesInputOff == Processing => worker.turn.told = "no"

\* Speech that was recorded while the microphone was switched never runs, even when the
\* microphone is back on by the time the recogniser answers (the epoch of
\* _listen_for_turn).
SwitchedOffSpeechIsDropped == Processing => ~worker.turn.switched

\* Input that the user has withdrawn does not run (stop button, microphone switch).
WithdrawnInputIsDropped == BlockedInputObeysStop /\ SwitchedOffSpeechIsDropped

\* Every ticket is in one place: in the queue, in a blocked put, or with the worker.
TicketsOnce ==
  /\ \A i, j \in 1..Len(queue) : queue[i].ticket = queue[j].ticket => i = j
  /\ \A s, u \in Putting : text[s].turn.ticket = text[u].turn.ticket => s = u
  /\ QueuedTickets \cap (PutTickets \cup VoiceTickets) = {} /\ PutTickets \cap VoiceTickets = {}
  /\ Accepted \subseteq 1..issued
  /\ worker.turn.ticket \in (0..issued) \ Accepted

\* Whoever is on the way to a ticket still gets one.
BoundInv == issued + Underway <= MaxTurns

\* What has become of the input at each place on its way: a turn that was accepted was
\* not withdrawn, and one that found the loop free is first, and meets no new prompt.
Carried(turn) == turn.told # "blocked" /\ ~turn.switched
QueueCourse ==
  \A i \in 1..Len(queue) :
    /\ Carried(queue[i])
    /\ queue[i].direct => /\ i = 1 /\ worker.phase = "waiting"
                          /\ \A f \in {"question", "proposal"} : context[f] \in {0, queue[i].seen[f]}
PutCourse ==
  /\ \A s \in Putting : Carried(text[s].turn) /\ ~text[s].turn.direct
  /\ voice.phase = "putting" => Carried(voice.turn) /\ ~voice.turn.direct
SenderCourse ==
  \A s \in Submitters : text[s].told = "blocked" =>
    /\ text[s].phase \in {"waiting", "leaving"} /\ text[s].cancelled
    /\ text[s].phase = "leaving" => ~text[s].go
VoiceCourse ==
  /\ voice.phase = "recording" => voice.epoch <= epoch /\ (voice.switched => voice.epoch < epoch)
  /\ voice.phase = "heard" => ~voice.switched
CourseInv == /\ QueueCourse /\ PutCourse /\ SenderCourse /\ VoiceCourse
             /\ Processing => Carried(worker.turn)

\* The tickets, command_idle and the waiting place tell the truth about each other and
\* about who is where, through blocked puts, stops and shutdown; and what makes that
\* inductive (see DeliveryProofs).
Inv == /\ TypeOK /\ TicketsAccountedFor /\ IdleIsTruthful /\ SlotHasItsWaiter
       /\ TicketsOnce /\ BoundInv /\ CourseInv /\ DirectTextMeetsItsPrompt

\* Every accepted turn runs, unless the application ends first.
EveryTicketRuns == \A t \in 1..MaxTurns : t \in pending ~> t \notin pending

\* Every typed line is delivered, refused or dropped in the end.
NoSenderIsStuck ==
  \A s \in Submitters : text[s].phase # "idle" ~> text[s].phase \in {"idle", "gone"}

\* Whatever is typed or said gets somewhere (_submit_text, _command_loop).
InputGetsSomewhere == EveryTicketRuns /\ NoSenderIsStuck
=============================================================================
