------------------------------- MODULE Interface -------------------------------
(***************************************************************************)
(* The two graphical interfaces: a page in the browser that polls          *)
(* core/web_ui.LocalWebUI over HTTP, and a Qt window (native_ui) in the    *)
(* same process, to which NativeTransport pushes.  Both show what the core *)
(* publishes and its state, and both call the same handler, _api; what the *)
(* handler starts in the core is told in Delivery and Confirmation, and is *)
(* here only what an interface sees of it.                                 *)
(*                                                                         *)
(* The page and the core share nothing: requests may be answered in any    *)
(* order, and an answer may come too late.  The window and the core are    *)
(* two threads: what one posts to the other arrives in order, later.       *)
(***************************************************************************)
EXTENDS Naturals, Sequences, SequencesExt, FiniteSetsExt

CONSTANTS Shells,        \* the interfaces considered: "page", "window"
          Cap,           \* events that are kept for a reader: 300 in the code
          Attempts,      \* at the master password: 3 in the code
          MaxQuestions,  \* bounds: the requests remembered at a time, by interface,
          MaxEvents, MaxCalls, MaxLosses, MaxPackets   \* and the rest

ASSUME InterfaceAssumption ==
    /\ Shells \subseteq {"page", "window"}
    /\ Cap \in Nat \ {0} /\ Attempts \in Nat \ {0}
    /\ MaxQuestions \in [Shells -> Nat]
    /\ {MaxEvents, MaxCalls, MaxLosses, MaxPackets} \subseteq Nat

VARIABLES shell,    \* the interface of this session
          stage,    \* how far the core has got
          closing,  \* the user has closed the window
          cancel,   \* a call of Bridge._cancel is due
          app,      \* phase, question (0: none)
          log,      \* the events kept: first .. last
          push,     \* NativeTransport: woken, scheduled, refresh
          wire,     \* jobs, replies, packets on their way
          submission, \* the message that is being handed over, or Nobody
          client,   \* what the page or the window knows
          spent     \* answers lost, attempts at the password

interfaceVars == <<shell, stage, closing, cancel, app, log, push, wire, submission,
          client, spent>>
core == <<shell, stage, closing, cancel>>

Questions == 0 .. MaxQuestions[shell]
Nobody == [question |-> 0, begun |-> 0, at |-> "nowhere"]
NoDraft == MaxQuestions[shell] + 1

(* web_state, as far as the interfaces act on it. *)
State == [question |-> app.question, phase |-> app.phase]
Phases == {"ready", "thinking", "speaking"}
Blank == [question |-> 0, phase |-> "ready"]

NewClient == [view |-> Blank, on |-> FALSE, draft |-> NoDraft, sending |-> FALSE,
              stopping |-> FALSE, cursor |-> 0, gap |-> FALSE, warned |-> FALSE]

Stages == {"locked", "asking", "waiting", "starting", "attaching", "attached",
           "running", "ending", "closed", "over"}
Serving == stage \in {"attached", "running", "ending"}

InterfaceInit ==
    /\ shell \in Shells
    /\ stage = IF shell = "page" THEN "running" ELSE "locked"
    /\ closing = FALSE /\ cancel = FALSE
    /\ app = [phase |-> "ready", question |-> 0]
    /\ log = [first |-> 1, last |-> 0]
    /\ push = [woken |-> FALSE, scheduled |-> FALSE, refresh |-> FALSE]
    /\ wire = [jobs |-> <<>>, replies |-> <<>>, packets |-> <<>>]
    /\ submission = Nobody
    /\ client = NewClient
    /\ spent = [losses |-> 0, attempts |-> 0]

--------------------------------------------------------------------------------
(* publish and notify.  Numbers end at MaxEvents; a window is flushed ten  *)
(* times in a second and never lags behind by more than Cap events.        *)

Published ==
    LET n == log.last + 1 IN
    IF n > MaxEvents \/ (shell = "window" /\ n - log.first >= Cap) THEN log
    ELSE [first |-> IF n - log.first >= Cap THEN log.first + 1 ELSE log.first, last |-> n]

Notified == [push EXCEPT !.woken = @ \/ (shell = "window" /\ Serving)]

Publish == log' = Published /\ push' = Notified
Notify == log' = log /\ push' = Notified
Silent == UNCHANGED <<log, push>>

--------------------------------------------------------------------------------
(* The core, as an interface sees it. *)

Silenced == IF app.question = 0 THEN {"thinking", "ready"} ELSE {"thinking"}
Hushed == [app EXCEPT !.phase = IF @ = "speaking" THEN "thinking" ELSE @]
Rest == UNCHANGED <<core, wire, client, spent>>

TurnBegins ==    \* by voice or from the console
    /\ stage = "running" /\ app.phase = "ready"
    /\ app' = [app EXCEPT !.phase = "thinking"]
    /\ Notify /\ Rest /\ UNCHANGED submission

TurnEnds ==
    /\ stage = "running" /\ app.phase = "thinking" /\ app.question = 0
    /\ app' = [app EXCEPT !.phase = "ready"]
    /\ Publish /\ Rest /\ UNCHANGED submission

Speak ==
    /\ stage = "running" /\ app.phase = "thinking"
    /\ app' = [app EXCEPT !.phase = "speaking"]
    /\ Publish /\ Rest /\ UNCHANGED submission

(* The last to change is speaker.busy, of which nobody is told. *)
VoiceEnds ==
    /\ app.phase = "speaking"
    /\ \E phase \in Silenced : app' = [app EXCEPT !.phase = phase]
    /\ Silent /\ Rest /\ UNCHANGED submission

(* A request's ID is new: nobody remembers it.  *)
Remembered == {client.draft, client.view.question, submission.question, submission.begun}
              \cup UNION {{wire.jobs[i].question, wire.jobs[i].begun} : i \in DOMAIN wire.jobs}
              \cup {wire.packets[i].state.question : i \in DOMAIN wire.packets}
New == (Questions \ {0}) \ Remembered

Ask ==
    /\ stage = "running" /\ app.phase = "thinking" /\ app.question = 0
    /\ New # {} /\ app' = [app EXCEPT !.question = CHOOSE q \in New : TRUE]
    /\ Notify /\ Rest /\ UNCHANGED submission

QuestionEnds ==    \* decided, timed out or given up; nobody is told
    /\ app.question # 0
    /\ app' = [app EXCEPT !.question = 0]
    /\ Silent /\ Rest /\ UNCHANGED submission

(* ConfirmationService.submit takes a reply for an answer to the question  *)
(* that is open if it names that question.                                 *)
Answers_Unnamed(q) == app.question # 0 /\ q \in {0, app.question}
Answers(q) == q # 0 /\ q = app.question

(* _submit_text up to its first await: an answer, one that comes too late, *)
(* or a message. *)
SubmissionBegins ==
    /\ submission.at = "new" /\ Serving
    /\ LET q == submission.question IN
       IF q = 0 /\ app.question = 0
       THEN /\ submission' = [submission EXCEPT !.at = "waiting"]
            /\ app' = Hushed
       ELSE submission' = Nobody /\ app' = app
    /\ Publish /\ Rest

(* The rest: it waits for the turn before it, and becomes a turn or is     *)
(* refused with a notice, because a question or another context has come.  *)
SubmissionEnds ==
    /\ submission.at = "waiting" /\ Serving
    /\ submission' = Nobody
    /\ \/ app.phase # "thinking" /\ app.question = 0 /\ stage = "running"
          /\ app' = [app EXCEPT !.phase = "thinking"] /\ Notify
       \/ app' = app /\ Publish
    /\ Rest

--------------------------------------------------------------------------------
(* LocalWebUI._api and NativeTransport.dispatch. *)

Done(job, ok) == [kind |-> job.kind, ok |-> ok]
Replied(i, ok) ==
    wire' = [wire EXCEPT !.jobs = RemoveAt(@, i),
               !.replies = IF closing THEN @ ELSE Append(@, Done(wire.jobs[i], ok))]

(* A window's calls are handled in their order, a page's in any. *)
Next1(q) == IF shell = "window" THEN {1} \cap DOMAIN q ELSE DOMAIN q

Refuse(i) ==    \* the session is over
    /\ stage = "closed" /\ Replied(i, FALSE)
    /\ Silent /\ UNCHANGED <<core, app, submission, client, spent>>

Free == submission = Nobody

Message(i) ==
    /\ Serving /\ wire.jobs[i].kind = "message"
    /\ Replied(i, Free)
    /\ submission' = IF ~Free THEN submission
                     ELSE [question |-> wire.jobs[i].question, begun |-> wire.jobs[i].begun, at |-> "new"]
    /\ Notify /\ UNCHANGED <<core, app, client, spent>>

Confirm(i) ==
    LET job == wire.jobs[i]
        open == Answers(job.question)
    IN  /\ Serving /\ job.kind = "confirm"
        /\ Replied(i, open)
        /\ IF open THEN Publish ELSE Notify
        /\ UNCHANGED <<core, app, submission, client, spent>>

Stop(i) ==
    /\ Serving /\ wire.jobs[i].kind = "stop"
    /\ Replied(i, TRUE)
    /\ submission' = IF submission.at = "waiting" THEN Nobody ELSE submission
    /\ app' = Hushed
    /\ Publish /\ UNCHANGED <<core, client, spent>>

Handle == \E i \in Next1(wire.jobs) : Refuse(i) \/ Message(i) \/ Confirm(i) \/ Stop(i)

--------------------------------------------------------------------------------
(* NativeTransport: _schedule and _flush on the core's loop. *)

Active(s) == s.phase # "ready" \/ s.question # 0

Schedule ==
    /\ push.woken
    /\ push' = [push EXCEPT !.woken = FALSE, !.scheduled = Serving]
    /\ UNCHANGED <<core, app, log, wire, submission, client, spent>>

(* What was delivered last is what is on its way, or what is shown. *)
LastState == IF wire.packets # <<>> THEN Last(wire.packets).state
             ELSE IF client.on THEN client.view ELSE Nobody

Flush ==
    /\ push.scheduled /\ Serving /\ Len(wire.packets) < MaxPackets
    /\ push' = [push EXCEPT !.scheduled = FALSE, !.refresh = Active(State)]
    /\ log' = [log EXCEPT !.first = log.last + 1]
    /\ wire' = IF closing \/ (State = LastState /\ log.first > log.last) THEN wire
               ELSE [wire EXCEPT !.packets =
                       Append(@, [state |-> State, from |-> log.first, to |-> log.last, truncated |-> FALSE])]
    /\ UNCHANGED <<core, app, submission, client, spent>>

Refresh ==
    /\ push.refresh
    /\ push' = [push EXCEPT !.refresh = FALSE, !.woken = Serving]
    /\ UNCHANGED <<core, app, log, wire, submission, client, spent>>

--------------------------------------------------------------------------------
(* The page always has a poll on its way, after the last event it knows,   *)
(* or is about to send the next. *)

Truncated_OneLate == log.first <= log.last /\ client.cursor < log.first - 2
Truncated == log.first <= log.last /\ client.cursor < log.first - 1

(* What a client takes over: a page whole answers, a window packets. *)
Shown(p) == [client EXCEPT !.view = p.state, !.on = shell = "page" \/ stage \in {"attached", "running"},
               !.gap = @ \/ p.from > client.cursor + 1,
               !.cursor = p.to, !.warned = @ \/ p.truncated]

(* At once when there is something new, otherwise when the second is over. *)
PollAnswered ==
    /\ shell = "page" /\ Serving
    /\ client' = Shown([state |-> State, from |-> Max({client.cursor + 1, log.first}),
                        to |-> log.last, truncated |-> Truncated])
    /\ Silent /\ UNCHANGED <<core, app, wire, submission, spent>>

Lost == spent.losses < MaxLosses /\ spent' = [spent EXCEPT !.losses = @ + 1]

(* Too late or not at all: the page says so, and shows no question. *)
PollFails ==
    /\ shell = "page"
    /\ \/ Lost
       \/ stage \in {"closed", "over"} /\ client.on /\ UNCHANGED spent
    /\ client' = [client EXCEPT !.on = FALSE, !.view.question = 0]
    /\ Silent /\ UNCHANGED <<core, app, wire, submission>>

Receive ==
    /\ wire.packets # <<>> /\ ~closing
    /\ client' = Shown(Head(wire.packets))
    /\ wire' = [wire EXCEPT !.packets = Tail(@)]
    /\ Silent /\ UNCHANGED <<core, app, submission, spent>>

--------------------------------------------------------------------------------
(* The user, at the page or the window. *)

Able == client.on /\ ~closing
StopMode == client.view.phase = "speaking" \/ client.stopping

Call(kind, question, begun) ==
    /\ Able /\ Len(wire.jobs) + Len(wire.replies) < MaxCalls
    /\ wire' = IF stage = "over" \/ (shell = "page" /\ stage # "running") THEN [wire EXCEPT !.replies = Append(@, [kind |-> kind, ok |-> FALSE])]
               ELSE [wire EXCEPT !.jobs = Append(@, [kind |-> kind, question |-> question, begun |-> begun])]
    /\ Silent /\ UNCHANGED <<core, app, submission, spent>>

(* The first key binds the draft to the question that is then shown. *)
Type ==
    /\ Able /\ ~client.sending /\ client.draft = NoDraft
    /\ client' = [client EXCEPT !.draft = client.view.question]
    /\ Silent /\ UNCHANGED <<core, app, wire, submission, spent>>

Erase ==
    /\ Able /\ ~client.sending /\ client.draft # NoDraft
    /\ client' = [client EXCEPT !.draft = NoDraft]
    /\ Silent /\ UNCHANGED <<core, app, wire, submission, spent>>

Bound == client.draft

Send ==
    /\ ~client.sending /\ client.draft # NoDraft /\ ~StopMode
    /\ Call("message", Bound, client.draft)
    /\ client' = [client EXCEPT !.sending = TRUE]

(* The page sends its command the way it sends a draft. *)
NewChat ==
    LET q == IF shell = "window" THEN 0
             ELSE IF client.draft # NoDraft THEN client.draft ELSE client.view.question
    IN  /\ ~client.sending
        /\ Call("message", q, q)
        /\ client' = [client EXCEPT !.sending = shell = "page"]

PressConfirm ==
    /\ client.view.question # 0
    /\ Call("confirm", client.view.question, client.view.question)
    /\ UNCHANGED client

PressStop ==
    /\ StopMode /\ ~client.stopping
    /\ Call("stop", 0, 0)
    /\ client' = [client EXCEPT !.stopping = TRUE]

(* action_result, and what follows the await in send and stopResponse. *)
Taken(r) ==
    client' = [client EXCEPT
        !.draft = IF r.kind = "message" /\ r.ok /\ client.sending THEN NoDraft ELSE @,
        !.sending = @ /\ r.kind # "message",
        !.stopping = @ /\ r.kind # "stop"]

TakeReply ==
    /\ ~closing
    /\ \E i \in Next1(wire.replies) :
         /\ Taken(wire.replies[i])
         /\ wire' = [wire EXCEPT !.replies = RemoveAt(@, i)]
    /\ Silent /\ UNCHANGED <<core, app, submission, spent>>

(* Twelve seconds have passed: the page takes a call for lost that the     *)
(* core has taken, or may still take.                                      *)
ReplyLost ==
    /\ shell = "page" /\ Lost
    /\ \E i \in DOMAIN wire.replies :
         /\ Taken([wire.replies[i] EXCEPT !.ok = FALSE])
         /\ wire' = [wire EXCEPT !.replies = RemoveAt(@, i)]
    /\ Silent /\ UNCHANGED <<core, app, submission>>

--------------------------------------------------------------------------------
(* The window's session: Bridge, CoreThread and main.async_main. *)

Unmoved == UNCHANGED <<shell, app, log, wire, submission, client>>
Go(from, to) == stage = from /\ stage' = to

AskPassword ==
    /\ IF closing \/ spent.attempts = Attempts
       THEN Go("locked", "starting") /\ spent' = [spent EXCEPT !.attempts = 0]
       ELSE Go("locked", "asking") /\ spent' = [spent EXCEPT !.attempts = @ + 1]
    /\ Unmoved /\ UNCHANGED <<closing, cancel, push>>

(* The future is where shutdown finds it; the dialog opens. *)
PasswordNeeded ==
    Go("asking", "waiting") /\ Unmoved /\ UNCHANGED <<closing, cancel, push, spent>>

PasswordAnswered ==
    /\ \/ Go("waiting", "locked") /\ UNCHANGED spent
       \/ Go("waiting", "starting") /\ spent' = [spent EXCEPT !.attempts = 0]
    /\ Unmoved /\ UNCHANGED <<closing, cancel, push>>

Construct ==
    /\ Go("starting", IF closing THEN "over" ELSE "attaching")
    /\ Unmoved /\ UNCHANGED <<closing, cancel, push, spent>>

(* attach sets the loop first (attaching) and looks at closing last. *)
SeenClosing_Never == FALSE
SeenClosing == closing

Attach ==
    /\ Go("attaching", "attached")
    /\ push' = [push EXCEPT !.woken = TRUE]
    /\ cancel' = (cancel \/ SeenClosing)
    /\ Unmoved /\ UNCHANGED <<closing, spent>>

RunBegins ==    \* _tasks are set, and cleanup is certain from here on
    /\ Go("attached", "running")
    /\ push' = Notified /\ Unmoved /\ UNCHANGED <<closing, cancel, spent>>

(* closeEvent and Bridge.shutdown: the loop may not be there yet, a        *)
(* password that is waited for is given up.  The window takes nothing any  *)
(* more and offers nothing, so what it knew is forgotten.                  *)
LoopKnown == stage \in {"attached", "running", "ending", "closed"}

CloseWindow ==
    /\ shell = "window" /\ ~closing /\ stage # "over"
    /\ closing' = TRUE
    /\ stage' = IF stage = "waiting" THEN "locked" ELSE stage
    /\ cancel' = LoopKnown
    /\ client' = NewClient
    /\ wire' = [wire EXCEPT !.replies = <<>>, !.packets = <<>>]
    /\ UNCHANGED <<shell, app, log, push, submission, spent>>

(* Bridge._cancel comes back until there is a cleanup to run. *)
Cancel ==
    /\ cancel /\ stage # "over"
    /\ wire' = [wire EXCEPT !.jobs = <<>>]
    /\ app' = [app EXCEPT !.question = 0]
    /\ IF stage = "attached" THEN UNCHANGED <<stage, cancel>>
       ELSE /\ cancel' = FALSE
            /\ stage' = IF stage = "running" THEN "ending" ELSE stage
    /\ UNCHANGED <<shell, closing, log, push, submission, client, spent>>

(* An error, or Ctrl+C at the console. *)
CoreFails ==
    /\ Go("running", "ending") /\ app' = [app EXCEPT !.phase = "ready", !.question = 0]
    /\ UNCHANGED <<shell, closing, cancel, log, push, wire, submission, client, spent>>

(* close: the server first lets its connections end. *)
CloseTransport ==
    /\ Go("ending", "closed")
    /\ shell = "page" => wire.jobs = <<>>
    /\ submission' = Nobody
    /\ push' = [push EXCEPT !.scheduled = FALSE, !.refresh = FALSE]
    /\ app' = Hushed
    /\ UNCHANGED <<shell, closing, cancel, log, wire, client, spent>>

CoreEnds ==
    /\ Go("closed", "over")
    /\ wire' = [wire EXCEPT !.jobs = <<>>]
    /\ client' = [client EXCEPT !.on = @ /\ shell = "page"]
    /\ UNCHANGED <<shell, closing, cancel, app, log, push, submission, spent>>

--------------------------------------------------------------------------------
Core == TurnBegins \/ TurnEnds \/ Speak \/ VoiceEnds \/ Ask \/ QuestionEnds
Transport == Schedule \/ Flush \/ Refresh \/ PollAnswered \/ SubmissionBegins \/ Handle
Client == PollFails \/ Receive \/ TakeReply \/ ReplyLost
User == Type \/ Erase \/ Send \/ NewChat \/ PressConfirm \/ PressStop \/ CloseWindow
Session == AskPassword \/ PasswordNeeded \/ PasswordAnswered \/ Construct \/ Attach
           \/ RunBegins \/ Cancel \/ CoreFails \/ CloseTransport \/ CoreEnds

InterfaceNext == Core \/ SubmissionEnds \/ Transport \/ Client \/ User \/ Session
InterfaceSpec == InterfaceInit /\ [][InterfaceNext]_interfaceVars

(***************************************************************************)
(* Fairness: the core's loop, the window's event loop, the page's script   *)
(* and the thread that starts the core go on, and a password dialog is     *)
(* answered in the end.  Nothing is assumed of the user otherwise, of the  *)
(* turns, or of how long a message waits for its turn.                     *)
(***************************************************************************)
StartsAndEnds == AskPassword \/ PasswordNeeded \/ PasswordAnswered \/ Construct
                 \/ Attach \/ RunBegins \/ CloseTransport \/ CoreEnds
Fairness == /\ WF_interfaceVars(Schedule) /\ WF_interfaceVars(Flush) /\ WF_interfaceVars(Refresh)
            /\ WF_interfaceVars(PollAnswered) /\ WF_interfaceVars(Receive)
            /\ WF_interfaceVars(SubmissionBegins) /\ WF_interfaceVars(Handle) /\ WF_interfaceVars(TakeReply)
            /\ WF_interfaceVars(Cancel) /\ WF_interfaceVars(StartsAndEnds)
FairInterfaceSpec == InterfaceSpec /\ Fairness

--------------------------------------------------------------------------------
Calls == {"message", "confirm", "stop"}
View == [question : Questions, phase : Phases]
Job == [kind : Calls, question : Questions, begun : Questions]
Outcome == [kind : Calls, ok : BOOLEAN]
Packet == [state : View, from : Nat, to : Nat, truncated : BOOLEAN]
Wires == [jobs : Seq(Job), replies : Seq(Outcome), packets : Seq(Packet)]
Pushes == [woken : BOOLEAN, scheduled : BOOLEAN, refresh : BOOLEAN]
Submissions == [question : Questions, begun : Questions, at : {"nowhere", "new", "waiting"}]
Clients == [view : View, on : BOOLEAN, draft : Questions \cup {NoDraft}, sending : BOOLEAN,
            stopping : BOOLEAN, cursor : Nat, gap : BOOLEAN, warned : BOOLEAN]

InterfaceTypeOK ==
    /\ shell \in Shells /\ stage \in Stages /\ closing \in BOOLEAN /\ cancel \in BOOLEAN
    /\ app \in View
    /\ log \in [first : Nat, last : 0 .. MaxEvents] /\ log.first \in 1 .. log.last + 1
    /\ push \in Pushes /\ wire \in Wires /\ submission \in Submissions
    /\ client \in Clients /\ client.cursor <= log.last
    /\ spent \in [losses : Nat, attempts : Nat]

(* What a reader has not been shown it has been told of: the log keeps the *)
(* latest events only, and a page that comes too late gets a gap           *)
(* (web_ui.py:91).  A window, flushed in time, has no gap.                 *)
GapsAreTold == client.gap <=> client.warned

(* Nothing goes on once the transport is closed (NativeTransport.close,    *)
(* LocalWebUI.close): a message that is being handed over is cancelled,    *)
(* and a call that comes later is refused.                                 *)
ClosedIsQuiet == stage \in {"closed", "over"} => submission = Nobody

(* What a reader is shown next follows what it knows.  A page is pushed    *)
(* nothing, and what its log has dropped is followed by more; the packets  *)
(* for a window follow each other, and its log begins where they end.      *)
Delivered == IF wire.packets = <<>> THEN client.cursor ELSE Last(wire.packets).to
ReadersInv ==
    /\ \A i \in DOMAIN wire.packets :
         ~wire.packets[i].truncated /\ wire.packets[i].to <= log.last
    /\ shell = "page" =>
         /\ stage \in {"running", "ending", "closed", "over"}
         /\ ~push.woken /\ ~push.scheduled /\ ~push.refresh /\ wire.packets = <<>>
         /\ log.first <= log.last \/ log.last = 0
    /\ shell = "window" /\ ~closing =>
         /\ log.first = Delivered + 1
         /\ \A i \in DOMAIN wire.packets :
              wire.packets[i].from = 1 + (IF i = 1 THEN client.cursor ELSE wire.packets[i - 1].to)

(* A call and a message that is handed over name the question that their   *)
(* author saw, and there is no message but while the core serves.          *)
CallsInv ==
    /\ \A i \in DOMAIN wire.jobs : wire.jobs[i].begun = wire.jobs[i].question
    /\ submission.begun = submission.question
    /\ ~Serving => submission = Nobody

InterfaceInv == InterfaceTypeOK /\ GapsAreTold /\ ClosedIsQuiet /\ ReadersInv /\ CallsInv

(* A text answers a question only if its author saw that question when the *)
(* text was begun: not if the question came, or took another's place,      *)
(* while the text was typed, sent, or waited for (window.py draft_changed, *)
(* app.js draftConfirmationId, app.py:646).                                *)
AnswersWereMeant ==
    [][/\ SubmissionBegins /\ Answers(submission.question) => submission.begun = app.question
       /\ \A i \in DOMAIN wire.jobs :
            Confirm(i) /\ Answers(wire.jobs[i].question) => wire.jobs[i].begun = app.question]_interfaceVars

(* When the core comes to rest, what is shown is its state, though most    *)
(* changes tell nobody: the first of an activity wakes the transport, and  *)
(* an active state is looked at again (transport.py:52-66).                *)
StateIsShown == <>[][FALSE]_app => <>[](stage = "running" /\ ~closing => client.view = State)

(* A call that locks a control gives it back, whatever becomes of the call *)
(* (window.py action_result, app.js send and stopResponse), unless the     *)
(* session ends.                                                           *)
ControlsComeBack ==
    /\ client.sending ~> ~client.sending \/ closing \/ stage = "over"
    /\ client.stopping ~> ~client.stopping \/ closing \/ stage = "over"

(* A window closed at any moment of the start, of a password or of the     *)
(* session ends the core (runtime.py:45-53, 84-106).                       *)
ClosingEnds == closing ~> stage = "over"

InterfaceGoesOn == StateIsShown /\ ControlsComeBack /\ ClosingEnds

================================================================================
