---------------------------- MODULE Confirmation ----------------------------
(***************************************************************************)
(* ConfirmationService (core/confirmation.py) with its callers (the action *)
(* being confirmed, which may be cancelled by its own time limit) and the  *)
(* sources of replies: the voice loop, the console and the two windows.    *)
(* A source reads the request id first and submits later (core/app.py).    *)
(* One asyncio step is one action: awaits are where others interleave.     *)
(***************************************************************************)
EXTENDS Naturals, SequencesExt, ReplyPolicy

CONSTANTS Callers,       \* tasks that call ask
          Sources,       \* where replies come from
          Voice,         \* the sources that are the voice loop
          Spoken,        \* the utterances the recogniser may return
          Timeout,       \* timeout_seconds, in ticks
          MaxRequests,   \* bound: requests in one behaviour
          MaxQueued      \* bound: replies waiting in _responses

ASSUME ConfirmationAssumption ==
  /\ IsFiniteSet(Callers)
  /\ Voice \subseteq Sources
  /\ Spoken \subseteq Utterances
  /\ Timeout \in Nat \ {0}
  /\ MaxRequests \in Nat
  /\ MaxQueued \in Nat

VARIABLES
  lock,       \* _lock: the callers in it, first in first out; the head holds it
  phase,      \* where each caller is inside ask
  quiet,      \* caller_reports_result of its prompt: no spoken notice
  request,    \* request_id; 0 is None
  issued,     \* request ids handed out (uuid4 never repeats)
  awaiting,   \* _request_event
  processed,  \* _response_processed
  responses,  \* _responses
  remaining,  \* ticks left before the deadline of the current request
  held,       \* the request id each source read and has not used yet
  waiting,    \* voice sources blocked in wait_until_response_processed
  asked,      \* the request id each caller last asked with
  ended,      \* how its last ask ended
  grant,      \* history: the reply that approved it
  first       \* history: the first decisive reply submitted for each request

asking == <<lock, phase, quiet, asked, ended, grant>>
vars == <<asking, request, issued, awaiting, processed, responses, remaining,
          held, waiting, first>>

Requests == 1..MaxRequests
Replies == [meaning : Meanings, score : Scores, request : Requests, sound : BOOLEAN]
NoReply == [meaning |-> "other", score |-> "unscored", request |-> 0, sound |-> FALSE]

Phases == {"idle", "queued", "prompting", "listening", "repeating", "timeout", "declined"}
Inside == Phases \ {"idle", "queued"}
Notices == {"timeout", "declined"}
Endings == {"none", "approved", "timeout", "declined", "aborted"}

Init ==
  /\ lock = <<>>
  /\ phase = [c \in Callers |-> "idle"]
  /\ quiet = [c \in Callers |-> FALSE]
  /\ request = 0 /\ issued = 0 /\ remaining = 0
  /\ awaiting = FALSE
  /\ processed = TRUE
  /\ responses = <<>>
  /\ held = [s \in Sources |-> 0]
  /\ waiting = {}
  /\ asked = [c \in Callers |-> 0]
  /\ ended = [c \in Callers |-> "none"]
  /\ grant = [c \in Callers |-> NoReply]
  /\ first = [r \in Requests |-> "none"]

-----------------------------------------------------------------------------
(* ask *)

Queued == {c \in Callers : phase[c] = "queued"}

\* The caller queues for the lock.
Ask(c, q) ==
  /\ phase[c] = "idle"
  /\ issued + Cardinality(Queued) < MaxRequests
  /\ phase' = [phase EXCEPT ![c] = "queued"]
  /\ quiet' = [quiet EXCEPT ![c] = q]
  /\ lock' = Append(lock, c)
  /\ UNCHANGED <<request, issued, awaiting, processed, responses, remaining,
                 held, waiting, asked, ended, grant, first>>

HasLock_Shared(c) == TRUE
HasLock(c) == lock[1] = c

\* The caller gets the lock, drops leftovers and publishes a new request.
Begin(c) ==
  /\ phase[c] = "queued" /\ HasLock(c)
  /\ responses' = <<>>
  /\ issued' = issued + 1
  /\ request' = issued + 1
  /\ awaiting' = TRUE
  /\ phase' = [phase EXCEPT ![c] = "prompting"]
  /\ asked' = [asked EXCEPT ![c] = issued + 1]
  /\ ended' = [ended EXCEPT ![c] = "none"]
  /\ grant' = [grant EXCEPT ![c] = NoReply]
  /\ UNCHANGED <<lock, quiet, processed, remaining, held, waiting, first>>

\* The question has been spoken: only now does the deadline start.
PromptSpoken(c) ==
  /\ phase[c] = "prompting"
  /\ phase' = [phase EXCEPT ![c] = "listening"]
  /\ remaining' = Timeout
  /\ UNCHANGED <<lock, quiet, request, issued, awaiting, processed, responses,
                 held, waiting, asked, ended, grant, first>>

BeforeDeadline == remaining > 0

\* Time passes before the deadline.
Tick ==
  /\ \E c \in Callers : phase[c] \in {"listening", "repeating"}
  /\ BeforeDeadline
  /\ remaining' = remaining - 1
  /\ UNCHANGED <<asking, request, issued, awaiting, processed, responses,
                 held, waiting, first>>

\* _response_processed.set(): every waiter is woken, whatever happens next.
Release_Forgotten == UNCHANGED <<processed, waiting>>
Release == processed' = TRUE /\ waiting' = {}

\* The request is taken down ...
TakeDown == request' = 0 /\ awaiting' = FALSE

\* ... and so are the replies nobody looked at.
Leftovers(q) == <<>>

\* ask returns or raises: its finally block, and the lock is released.
Leave(c, how, reply) ==
  /\ phase' = [phase EXCEPT ![c] = "idle"]
  /\ ended' = [ended EXCEPT ![c] = how]
  /\ grant' = [grant EXCEPT ![c] = reply]
  /\ TakeDown
  /\ responses' = Leftovers(responses)
  /\ Release
  /\ lock' = Tail(lock)

\* _cancel_notice, with what is left of the queue: a caller that reports the
\* result itself gets no speech, so ask returns at once.
CancelNotice(c, how, rest) ==
  \/ quiet[c] /\ Leave(c, how, NoReply)
  \/ /\ ~quiet[c]
     /\ phase' = [phase EXCEPT ![c] = how]
     /\ responses' = rest
     /\ UNCHANGED <<ended, grant, request, awaiting, processed, waiting, lock>>

\* Replies after the one just taken stay queued.
Unread_Cleared(q) == <<>>
Unread(q) == Tail(q)

\* wait_for(get()) returns a reply before the timer of wait_for fires.
TakeReply(c) ==
  /\ phase[c] = "listening" /\ responses # <<>>
  /\ LET reply == Head(responses)
         decision == Decision(reply.meaning, reply.score)
     IN \/ decision = "accept" /\ Leave(c, "approved", reply)
        \/ decision = "refuse" /\ CancelNotice(c, "declined", Unread(responses))
        \/ /\ decision = "none"
           /\ phase' = [phase EXCEPT ![c] = "repeating"]
           /\ responses' = Unread(responses)
           /\ UNCHANGED <<lock, ended, grant, request, awaiting, processed, waiting>>
  /\ UNCHANGED <<quiet, issued, remaining, held, asked, first>>

\* The timer fires first: a reply still in the queue is not looked at.
TimedOut(c) ==
  /\ phase[c] = "listening" /\ remaining = 0
  /\ CancelNotice(c, "timeout", responses)
  /\ UNCHANGED <<quiet, issued, remaining, held, asked, first>>

\* The request to repeat has been spoken; the loop looks at the deadline again.
Repeated(c) ==
  /\ phase[c] = "repeating"
  /\ Release
  /\ \/ /\ remaining > 0
        /\ phase' = [phase EXCEPT ![c] = "listening"]
        /\ UNCHANGED <<lock, ended, grant, request, awaiting, responses>>
     \/ /\ remaining = 0 /\ quiet[c]
        /\ Leave(c, "timeout", NoReply)
     \/ /\ remaining = 0 /\ ~quiet[c]
        /\ phase' = [phase EXCEPT ![c] = "timeout"]
        /\ UNCHANGED <<lock, ended, grant, request, awaiting, responses>>
  /\ UNCHANGED <<quiet, issued, remaining, held, asked, first>>

\* The cancellation notice has been spoken.
NoticeSpoken(c) ==
  /\ phase[c] \in Notices
  /\ Leave(c, phase[c], NoReply)
  /\ UNCHANGED <<quiet, issued, remaining, held, asked, first>>

\* The caller is cancelled at an await, or speaking raises.
Abort(c) ==
  \/ /\ phase[c] \in Inside
     /\ Leave(c, "aborted", NoReply)
     /\ UNCHANGED <<quiet, issued, remaining, held, asked, first>>
  \/ /\ phase[c] = "queued"
     /\ phase' = [phase EXCEPT ![c] = "idle"]
     /\ ended' = [ended EXCEPT ![c] = "aborted"]
     /\ \E i \in 1..Len(lock) : lock[i] = c /\ lock' = RemoveAt(lock, i)
     /\ UNCHANGED <<quiet, request, issued, awaiting, processed, responses,
                    remaining, held, waiting, asked, grant, first>>

-----------------------------------------------------------------------------
(* The sources of replies *)

\* A source remembers which request is on the screen; the voice loop does so
\* only while one is, just before it starts to record.
Capture(s) ==
  /\ s \notin waiting
  /\ s \in Voice => awaiting
  /\ held' = [held EXCEPT ![s] = request]
  /\ UNCHANGED <<asking, request, issued, awaiting, processed, responses,
                 remaining, waiting, first>>

Correlated_Any(id) == awaiting /\ id # 0
\* submit refuses a reply to anything but the current request.
Correlated(id) == awaiting /\ id # 0 /\ id = request

\* submit(text, held[s], confidence); the voice loop then waits for the verdict.
Submit(s, meaning, score, sound) ==
  LET decision == Decision(meaning, score) IN
  /\ held[s] # 0 /\ s \notin waiting
  /\ \/ /\ Correlated(held[s])
        /\ Len(responses) < MaxQueued
        /\ responses' = Append(responses, [meaning |-> meaning, score |-> score,
                                           request |-> held[s], sound |-> sound])
        /\ processed' = FALSE
        /\ waiting' = waiting \cup ({s} \cap Voice)
        /\ first' = IF first[request] = "none"
                    THEN [first EXCEPT ![request] = decision] ELSE first
     \/ /\ ~Correlated(held[s])
        /\ UNCHANGED <<responses, processed, waiting, first>>
  /\ held' = [held EXCEPT ![s] = 0]
  /\ UNCHANGED <<asking, request, issued, awaiting, remaining>>

\* Typed replies carry no confidence.
Type(s) ==
  /\ s \notin Voice
  /\ \E meaning \in Meanings : Submit(s, meaning, "unscored", TRUE)

\* Spoken replies carry the confidence voice_confidence gives them.
Speak(s) ==
  /\ s \in Voice
  /\ \E u \in Spoken : Submit(s, u.meaning, VoiceScore(u), Sound(u))

Caller(c) == Begin(c) \/ PromptSpoken(c) \/ TakeReply(c) \/ TimedOut(c)
             \/ Repeated(c) \/ NoticeSpoken(c)

Next ==
  \/ \E c \in Callers : (\E q \in BOOLEAN : Ask(c, q)) \/ Caller(c) \/ Abort(c)
  \/ \E s \in Sources : Capture(s) \/ Type(s) \/ Speak(s)
  \/ Tick

Spec == Init /\ [][Next]_vars

\* The event loop keeps running: speech ends, the lock is handed on, and the
\* timer of wait_for fires.  Nobody has to reply.
FairSpec == Spec /\ WF_vars(Tick) /\ \A c \in Callers : WF_vars(Caller(c))

-----------------------------------------------------------------------------
\* Every variable has its type; replies are whole and requests within their bound.
TypeOK ==
  /\ lock \in Seq(Callers)
  /\ phase \in [Callers -> Phases]
  /\ quiet \in [Callers -> BOOLEAN]
  /\ issued \in 0..MaxRequests
  /\ request \in 0..MaxRequests
  /\ awaiting \in BOOLEAN
  /\ processed \in BOOLEAN
  /\ responses \in Seq(Replies)
  /\ remaining \in 0..Timeout
  /\ held \in [Sources -> 0..MaxRequests]
  /\ waiting \subseteq Voice
  /\ asked \in [Callers -> 0..MaxRequests]
  /\ ended \in [Callers -> Endings]
  /\ grant \in [Callers -> Replies \cup {NoReply}]
  /\ first \in [Requests -> {"none", "accept", "refuse"}]

\* An approved action was approved by a reply the source gave to that very
\* request, whatever other requests came and went while the reply was on its
\* way (submit and the two _clear_responses).
GrantAnswersItsRequest ==
  \A c \in Callers :
    ended[c] = "approved" => asked[c] # 0 /\ grant[c].request = asked[c]

\* The first decisive reply submitted for a request decides it: no later "yes"
\* overrides a refusal that was still queued while the question was being
\* spoken or repeated, and no late refusal turns up as a declined approval.
FirstDecisiveReplyDecides ==
  \A c \in Callers :
    /\ ended[c] = "approved" => first[asked[c]] = "accept"
    /\ ended[c] = "declined" => first[asked[c]] = "refuse"

\* Damaged, truncated or cut-off cloud speech, and unsure local speech, never
\* approves (docstring of voice_confidence, thresholds of _decision).
OnlySoundSpeechApproves ==
  \A c \in Callers : ended[c] = "approved" => grant[c].sound

\* The reply that decides a question is its first decisive one, and heard soundly.
RepliesDecide == FirstDecisiveReplyDecides /\ OnlySoundSpeechApproves

\* The published request belongs to the one caller inside ask; a cancelled or
\* finished caller leaves no request behind that could still be answered.
PublishedRequestHasOwner ==
  awaiting <=> \E c \in Callers : phase[c] \in Inside /\ request # 0
                                   /\ asked[c] = request /\ lock[1] = c

\* Once a request has been taken down, nothing submitted for it is left in the
\* queue for the next one.
NothingCarriedOver ==
  \A i \in 1..Len(responses) : awaiting /\ responses[i].request = request

\* The lock's queue holds exactly the callers inside or before ask, each once,
\* and only its head is inside.
LockInv ==
  /\ \A i, j \in 1..Len(lock) : lock[i] = lock[j] => i = j
  /\ \A c \in Callers : phase[c] # "idle" <=> \E i \in 1..Len(lock) : lock[i] = c
  /\ \A c \in Callers : phase[c] \in Inside => lock[1] = c

\* What is published belongs to the caller inside, and to no one else.
RequestInv ==
  /\ \A c \in Callers : phase[c] \in Inside =>
       awaiting /\ request # 0 /\ asked[c] = request
  /\ awaiting => \E c \in Callers : phase[c] \in Inside

\* Every queued caller still has an id to come.
BoundInv == issued + Cardinality(Queued) <= MaxRequests

\* One caller at a time asks, and what is queued is an answer to its request.
CallInv == TypeOK /\ LockInv /\ RequestInv /\ BoundInv /\ NothingCarriedOver
           /\ GrantAnswersItsRequest

Verdict(reply) == Decision(reply.meaning, reply.score)

\* The first of the queued replies that decides says what first remembers of the
\* request; if nothing has been decided, none of them decides.
FirstIsQueued ==
  \/ first[request] = "none" /\ \A i \in 1..Len(responses) : Verdict(responses[i]) = "none"
  \/ \E i \in 1..Len(responses) :
       /\ Verdict(responses[i]) = first[request] /\ first[request] # "none"
       /\ \A j \in 1..i - 1 : Verdict(responses[j]) = "none"

Undecided == {"prompting", "listening", "repeating"}

\* The verdict of a request is settled once: it is still in the queue until the caller
\* takes it, a notice of refusal follows a refusal, and a request to come has none.
VerdictInv ==
  /\ RepliesDecide
  /\ \A c \in Callers : ended[c] \in {"approved", "declined"} => asked[c] \in Requests
  /\ \A c \in Callers : phase[c] \in Undecided => FirstIsQueued
  /\ \A c \in Callers : phase[c] = "declined" => first[request] = "refuse"
  /\ \A i \in 1..Len(responses) : Verdict(responses[i]) = "accept" => responses[i].sound
  /\ request <= issued /\ \A r \in Requests : r > issued => first[r] = "none"

\* The inductive invariant of the service (see ConfirmationProofs).
IInv == CallInv /\ VerdictInv

\* Every call of ask returns, even when nobody answers or answers stay unclear.
AskReturns == \A c \in Callers : phase[c] # "idle" ~> phase[c] = "idle"

\* The voice loop is never left waiting for a verdict that nobody will give.
VoiceIsReleased == \A s \in Voice : s \in waiting ~> s \notin waiting

\* Nobody is left waiting: neither a caller of ask nor the voice loop.
NobodyIsLeftWaiting == AskReturns /\ VoiceIsReleased

Contract == INSTANCE ConfirmationContract WITH
  open      <- [c \in Callers |-> IF phase[c] \in Inside THEN asked[c] ELSE 0],
  last      <- issued,
  consented <- {r \in Requests : first[r] = "accept"},
  ended     <- [c \in Callers |-> IF phase[c] = "idle" THEN ended[c] ELSE "none"]
\* ask keeps the promise its callers rely on.
KeepsContract == Contract!Spec
=============================================================================
