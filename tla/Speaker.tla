------------------------------- MODULE Speaker -------------------------------
(***************************************************************************)
(* The voice (core/speak.py, services/platform/windows_tts.py): producers  *)
(* that split replies into phrases, the bounded phrase queue, the worker   *)
(* task, the thread that speaks one phrase, and the stops, each of which   *)
(* starts a new generation, empties the queue and kills the player in a    *)
(* thread of its own.  One asyncio step, or one step of a thread between   *)
(* two reads or writes of what it shares, is one action.  A phrase is      *)
(* abstracted to the generation it was said in and that of its turn.       *)
(***************************************************************************)
EXTENDS Integers, FiniteSets, Sequences

CONSTANTS Sayers,         \* tasks that call say
          Stoppers,       \* tasks that call stop or close
          Outputs,        \* the settings considered: whether output_device is set
          QueueSize,      \* maxsize of _queue
          MaxParts,       \* bound: phrases of one reply
          MaxPhrases,     \* bound: phrases said
          MaxGeneration   \* bound: stops

ASSUME SpeakerAssumption ==
  /\ IsFiniteSet(Stoppers)
  /\ Outputs \subseteq BOOLEAN
  /\ QueueSize \in Nat \ {0} /\ MaxParts \in Nat \ {0}
  /\ MaxPhrases \in Nat /\ MaxGeneration \in Nat

VARIABLES
  generation,    \* generation
  stopRequested, \* _stop_requested
  closing,       \* _closing
  ready,         \* _ready
  pending,       \* _stops_pending
  queue,         \* _queue
  unfinished,    \* the unfinished tasks of _queue, which join() waits for
  worker,        \* _worker: its phase and the request in its hands
  thread,        \* _speak_sync: the next step of the thread, if it runs
  process,       \* _tts_process
  mine,          \* the process the thread started or found is still the one there
  sounding,      \* the phrase an external player is speaking by itself
  playback,      \* _playback
  scope,         \* SPEECH_SCOPE of each producer: the generation of its turn
  saying,        \* what a producer still has to put; left > 0: it waits in put()
  stop,          \* each stop or close: the step it has reached
  said,          \* bound: phrases put so far
  selected       \* settings.output_device is set; it never changes

vars == <<generation, stopRequested, closing, ready, pending, queue, unfinished,
          worker, thread, process, mine, sounding, playback, scope, saying, stop, said,
          selected>>

flags == <<generation, stopRequested, closing, ready, pending>>
producers == <<scope, saying, said>>
player == <<process, mine, sounding>>

Generations == 0..MaxGeneration
Phrases == [gen : Generations, turn : Generations]
Goodbye == [gen |-> -1, turn |-> -1]   \* None, the last item of the queue
Silence == Goodbye
Threads == {"off", "enter", "process", "write", "wait", "open", "mark", "stream",
            "fallback", "remark", "submit", "play", "finally", "done"}
Steps == {"idle", "locking", "kill", "hush", "back", "goodbye"}
NotSaying == [left |-> 0, phrase |-> Silence]

Init ==
  /\ generation = 0 /\ stopRequested = FALSE /\ closing = FALSE
  /\ ready = TRUE /\ pending = 0
  /\ queue = <<>> /\ unfinished = 0
  /\ worker = [phase |-> "get", request |-> Goodbye]
  /\ thread = "off" /\ process = "none" /\ mine = FALSE /\ sounding = Silence
  /\ playback = FALSE
  /\ scope = [s \in Sayers |-> 0] /\ saying = [s \in Sayers |-> NotSaying]
  /\ stop = [p \in Stoppers |-> [step |-> "idle", closer |-> FALSE]]
  /\ said = 0
  /\ selected \in Outputs

Interrupted == stopRequested \/ closing
Room == QueueSize - Len(queue)
Least(a, b) == IF a <= b THEN a ELSE b

(***************************************************************************)
(* Producers: say().  The phrases of a reply go into the queue without     *)
(* giving way to other tasks until one of them finds the queue full.       *)
(***************************************************************************)
\* The command loop opens a scope for every turn it takes.
OpenTurn(s) ==
  /\ saying[s].left = 0 /\ scope[s] # generation
  /\ scope' = [scope EXCEPT ![s] = generation]
  /\ UNCHANGED <<flags, queue, unfinished, worker, thread, player, playback, saying, stop, said, selected>>

Put(s, phrase, now, left) ==
  /\ queue' = queue \o [i \in 1..now |-> phrase]
  /\ unfinished' = unfinished + now
  /\ said' = said + now + left - saying[s].left
  /\ saying' = [saying EXCEPT ![s] = IF left = 0 THEN NotSaying
                                     ELSE [left |-> left, phrase |-> phrase]]

\* Within a turn a producer speaks for its turn; a confirmation prompt drops the scope.
SpeaksFor(s, scoped) == IF scoped THEN scope[s] ELSE generation

Say(s, scoped, parts) ==
  LET g == SpeaksFor(s, scoped)
      phrase == [gen |-> g, turn |-> IF scoped THEN scope[s] ELSE g]
      now == Least(parts, Room)
  IN /\ saying[s].left = 0 /\ said + parts <= MaxPhrases
     /\ g = generation /\ ~closing
     /\ Put(s, phrase, now, parts - now)
     /\ UNCHANGED <<flags, worker, thread, player, playback, scope, stop, selected>>

\* The put() that waited goes through whatever has happened since; the rest is
\* said only if the generation still holds.
KeepSaying(s) ==
  LET left == saying[s].left
      stale == saying[s].phrase.gen # generation \/ closing
      now == IF stale THEN 1 ELSE Least(left, Room)
  IN /\ left > 0 /\ Room > 0
     /\ Put(s, saying[s].phrase, now, IF stale THEN 0 ELSE left - now)
     /\ UNCHANGED <<flags, worker, thread, player, playback, scope, stop, selected>>

(***************************************************************************)
(* The worker task: one phrase at a time, each in a thread.                *)
(***************************************************************************)
\* Whether a request may still be spoken once _ready has let the worker pass.
Current(request) == ~closing /\ request.gen = generation

\* Clearing the stop flag and starting the thread, or dropping the request.
Dispatch(request, open) ==
  \/ /\ Current(request)
     /\ worker' = [phase |-> "speaking", request |-> request]
     /\ stopRequested' = FALSE
     /\ thread' = "enter"
     /\ unfinished' = open
  \/ /\ ~Current(request)
     /\ worker' = [phase |-> "get", request |-> Goodbye]
     /\ unfinished' = open - 1
     /\ UNCHANGED <<stopRequested, thread>>

Get ==
  /\ worker.phase = "get" /\ queue # <<>>
  /\ queue' = Tail(queue)
  /\ \/ /\ Head(queue) = Goodbye
        /\ worker' = [phase |-> "closed", request |-> Goodbye]
        /\ unfinished' = unfinished - 1
        /\ UNCHANGED <<stopRequested, thread>>
     \/ /\ Head(queue) # Goodbye /\ ready
        /\ Dispatch(Head(queue), unfinished)
     \/ /\ Head(queue) # Goodbye /\ ~ready
        /\ worker' = [phase |-> "parked", request |-> Head(queue)]
        /\ UNCHANGED <<stopRequested, thread, unfinished>>
  /\ UNCHANGED <<generation, closing, ready, pending, player, playback, producers, stop, selected>>

\* _ready was set; it may have been cleared again before the worker resumed.
Woken ==
  /\ worker.phase = "woken"
  /\ Dispatch(worker.request, unfinished)
  /\ UNCHANGED <<generation, closing, ready, pending, queue, player, playback, producers, stop, selected>>

PhraseOver_Untold(open) == open
PhraseOver(open) == open - 1

Finished ==
  /\ thread = "done"
  /\ thread' = "off"
  /\ worker' = [phase |-> "get", request |-> Goodbye]
  /\ unfinished' = PhraseOver(unfinished)
  /\ UNCHANGED <<flags, queue, player, playback, producers, stop, selected>>

(***************************************************************************)
(* The thread that speaks one phrase.  Every step reads the flags anew.    *)
(***************************************************************************)
ThreadOnly == UNCHANGED <<flags, queue, unfinished, worker, producers, stop, selected>>
GoTo(next) == thread' = next /\ UNCHANGED <<player, playback>>

\* The first check, and a cached recording of the phrase.
Enter ==
  /\ thread = "enter"
  /\ \/ Interrupted /\ GoTo("finally")
     \/ ~Interrupted /\ GoTo("process")
     \/ ~Interrupted /\ selected /\ GoTo("open")
  /\ ThreadOnly

\* The check that is made under the lock the stops take to kill the process.
MayStart_Unchecked == TRUE
MayStart == ~Interrupted

StartProcess ==
  /\ thread = "process"
  /\ \/ ~MayStart /\ GoTo("finally")
     \/ /\ MayStart
        /\ process' = "up" /\ mine' = TRUE
        /\ thread' = "write"
        /\ UNCHANGED <<sounding, playback>>
  /\ ThreadOnly

\* The request goes to the process the thread has; writing to a dead one fails.
\* With a selected output the process only writes a recording.
WriteRequest ==
  /\ thread = "write"
  /\ \/ /\ mine /\ process = "up"
        /\ thread' = "wait"
        /\ sounding' = IF selected THEN Silence ELSE worker.request
        /\ UNCHANGED <<process, mine, playback>>
     \/ ~(mine /\ process = "up") /\ GoTo("finally")
  /\ ThreadOnly

\* Waiting for the answer: an interruption ends the wait, and so do the answer
\* (good or bad), the end of the process and the deadline, which kills it.
Interruption == thread = "wait" /\ Interrupted /\ GoTo("finally") /\ ThreadOnly

Answer ==
  /\ thread = "wait" /\ ~Interrupted /\ mine /\ process = "up"
  /\ sounding' = Silence
  /\ thread' \in IF selected THEN {"open", "finally"} ELSE {"finally"}
  /\ UNCHANGED <<process, mine, playback>> /\ ThreadOnly

Died ==
  /\ thread = "wait" /\ ~Interrupted /\ ~(mine /\ process = "up")
  /\ GoTo("finally") /\ ThreadOnly

Deadline ==
  /\ thread = "wait" /\ ~Interrupted
  /\ process' = "none" /\ mine' = FALSE /\ sounding' = Silence
  /\ thread' = "finally"
  /\ UNCHANGED playback /\ ThreadOnly

\* The resident process may end by itself (external).
Crash ==
  /\ process = "up"
  /\ process' = "dead"
  /\ sounding' = IF selected THEN sounding ELSE Silence
  /\ UNCHANGED <<thread, mine, playback>> /\ ThreadOnly

\* _set_playback(True) reads the flags and sets _playback in two steps.
Marking == thread = "wait" /\ ~Interrupted /\ ~selected /\ ~playback
           /\ GoTo("mark") /\ ThreadOnly

Mark ==
  /\ thread = "mark"
  /\ playback' = TRUE
  /\ thread' = IF selected THEN "stream" ELSE "wait"
  /\ UNCHANGED player /\ ThreadOnly

\* A selected output is opened and fed chunk by chunk; if it fails, the whole
\* recording goes to the system player.
OpenOutput ==
  /\ thread = "open"
  /\ \/ ~Interrupted /\ GoTo("mark")
     \/ Interrupted /\ GoTo("stream")
     \/ GoTo("fallback")
  /\ ThreadOnly

Stream ==
  /\ thread = "stream"
  /\ \/ stopRequested /\ GoTo("finally")
     \/ ~stopRequested /\ thread' \in {"finally", "fallback"} /\ UNCHANGED <<player, playback>>
  /\ ThreadOnly

Fallback ==
  /\ thread = "fallback"
  /\ playback' = FALSE
  /\ thread' = IF Interrupted THEN "submit" ELSE "remark"
  /\ UNCHANGED player /\ ThreadOnly

Remark ==
  /\ thread = "remark"
  /\ playback' = TRUE
  /\ thread' = "submit"
  /\ UNCHANGED player /\ ThreadOnly

Submit ==
  /\ thread = "submit"
  /\ sounding' = worker.request
  /\ thread' = "play"
  /\ UNCHANGED <<process, mine, playback>> /\ ThreadOnly

PlayedOut ==
  /\ thread = "play"
  /\ sounding' = Silence
  /\ thread' = "finally"
  /\ UNCHANGED <<process, mine, playback>> /\ ThreadOnly

LowerFlag == FALSE

Finally ==
  /\ thread = "finally"
  /\ playback' = LowerFlag
  /\ thread' = "done"
  /\ UNCHANGED player /\ ThreadOnly

(***************************************************************************)
(* stop() and close(): the part before the lock, the thread that silences  *)
(* the player, and the part after it.                                      *)
(***************************************************************************)

Killing == \E q \in Stoppers : stop[q].step \in {"kill", "hush", "back"}
LockFree == ~Killing /\ \A q \in Stoppers : stop[q].step # "locking"

\* The application closes its inputs and cancels its loops before it closes
\* the speaker, so no stop begins after close() has.
BeginStop(p, closer) ==
  /\ stop[p].step = "idle" /\ generation < MaxGeneration
  /\ ~closing
  /\ closing' = closer
  /\ generation' = generation + 1
  /\ stopRequested' = TRUE
  /\ playback' = FALSE
  /\ ready' = FALSE
  /\ pending' = pending + 1
  /\ queue' = <<>>
  /\ unfinished' = unfinished - Len(queue)
  /\ stop' = [stop EXCEPT ![p] = [step |-> IF LockFree THEN "kill" ELSE "locking",
                                  closer |-> closer]]
  /\ UNCHANGED <<worker, thread, player, producers, selected>>

Step(p, next) == stop' = [stop EXCEPT ![p].step = next]

TakeStopLock(p) ==
  /\ stop[p].step = "locking" /\ ~Killing
  /\ Step(p, "kill")
  /\ UNCHANGED <<flags, queue, unfinished, worker, thread, player, playback, producers, selected>>

\* Under the process lock: the process ends, and with it what it was speaking.
Kill(p) ==
  /\ stop[p].step = "kill"
  /\ process' = "none" /\ mine' = FALSE
  /\ sounding' = IF selected THEN sounding ELSE Silence
  /\ Step(p, "hush")
  /\ UNCHANGED <<flags, queue, unfinished, worker, thread, playback, producers, selected>>

\* The system player stops whatever it plays.
Hush(p) ==
  /\ stop[p].step = "hush"
  /\ sounding' = IF selected THEN Silence ELSE sounding
  /\ Step(p, "back")
  /\ UNCHANGED <<flags, queue, unfinished, worker, thread, process, mine, playback, producers, selected>>

LastStop_First(left) == TRUE
LastStop_Early(left) == left + 1 = 0
LastStop(left) == left = 0

\* The finally part: the last of the stops under way sets _ready.
Leave ==
  /\ pending' = pending - 1
  /\ ready' = (LastStop(pending - 1) \/ ready)
  /\ worker' = IF ready' /\ worker.phase = "parked"
               THEN [worker EXCEPT !.phase = "woken"] ELSE worker
  /\ UNCHANGED <<generation, stopRequested, closing, thread, player, playback, producers, selected>>

\* close() goes on to put the last item, and waits if the queue is full.
SayGoodbye(p) ==
  /\ Room > 0
  /\ queue' = Append(queue, Goodbye)
  /\ unfinished' = unfinished + 1
  /\ Step(p, "idle")

Stopped(p) ==
  /\ stop[p].step = "back"
  /\ Leave
  /\ \/ stop[p].closer /\ SayGoodbye(p)
     \/ stop[p].closer /\ Room = 0 /\ Step(p, "goodbye") /\ UNCHANGED <<queue, unfinished>>
     \/ ~stop[p].closer /\ Step(p, "idle") /\ UNCHANGED <<queue, unfinished>>

\* A task cancelled while it waits for the lock leaves without killing anything.
Cancelled(p) ==
  /\ stop[p].step = "locking" /\ ~stop[p].closer /\ Killing
  /\ Step(p, "idle")
  /\ Leave
  /\ UNCHANGED <<queue, unfinished>>

Goodbyes(p) ==
  /\ stop[p].step = "goodbye"
  /\ SayGoodbye(p)
  /\ UNCHANGED <<flags, worker, thread, player, playback, producers, selected>>

(***************************************************************************)
(* Specification.                                                          *)
(***************************************************************************)
Talk ==
  \/ \E s \in Sayers : OpenTurn(s) \/ KeepSaying(s)
  \/ \E s \in Sayers, scoped \in BOOLEAN, parts \in 1..MaxParts : Say(s, scoped, parts)

Speaking ==
  \/ Enter \/ StartProcess \/ WriteRequest \/ Interruption \/ Answer \/ Died
  \/ Deadline \/ Marking \/ Mark \/ OpenOutput \/ Stream \/ Fallback \/ Remark
  \/ Submit \/ PlayedOut \/ Finally \/ Crash

Stopping ==
  \/ \E p \in Stoppers, closer \in BOOLEAN : BeginStop(p, closer)
  \/ \E p \in Stoppers : \/ TakeStopLock(p) \/ Kill(p) \/ Hush(p) \/ Stopped(p)
                         \/ Cancelled(p) \/ Goodbyes(p)

Next == Talk \/ Get \/ Woken \/ Finished \/ Speaking \/ Stopping

Spec == Init /\ [][Next]_vars

\* The event loop and the threads run on; the resident process answers, dies
\* or meets its deadline, recordings end, and the lock is granted in order.
FairSpec ==
  /\ Spec
  /\ WF_vars(Get) /\ WF_vars(Woken) /\ WF_vars(Finished)
  /\ WF_vars(Enter \/ StartProcess \/ WriteRequest \/ Mark \/ OpenOutput \/ Stream
             \/ Fallback \/ Remark \/ Submit \/ PlayedOut \/ Finally)
  /\ WF_vars(Interruption \/ Answer \/ Died \/ Deadline)
  /\ \A s \in Sayers : SF_vars(KeepSaying(s))
  /\ \A p \in Stoppers : /\ SF_vars(TakeStopLock(p)) /\ SF_vars(Goodbyes(p))
                         /\ WF_vars(Kill(p)) /\ WF_vars(Hush(p)) /\ WF_vars(Stopped(p))

(***************************************************************************)
(* Properties.                                                             *)
(***************************************************************************)
\* Every variable stays in its range; the queue keeps its bound.
TypeOK ==
  /\ generation \in Generations
  /\ {stopRequested, closing, ready, mine, playback} \subseteq BOOLEAN
  /\ pending \in 0..Cardinality(Stoppers)
  /\ queue \in Seq(Phrases \cup {Goodbye}) /\ Len(queue) <= QueueSize
  /\ unfinished \in Nat
  /\ worker \in [phase : {"get", "parked", "woken", "speaking", "closed"},
                 request : Phrases \cup {Goodbye}]
  /\ thread \in Threads /\ process \in {"none", "up", "dead"}
  /\ sounding \in Phrases \cup {Silence}
  /\ scope \in [Sayers -> Generations]
  /\ saying \in [Sayers -> [left : 0..MaxParts, phrase : Phrases \cup {Silence}]]
  /\ stop \in [Stoppers -> [step : Steps, closer : BOOLEAN]]
  /\ said \in Int /\ said <= MaxPhrases /\ selected \in BOOLEAN

\* "stop increments generation, drains queue, terminates/reaps child, clears
\* playback; stale requests cannot play" (docs/STT_BACKENDS.md): once every
\* stop has returned, what the resident voice speaks is of a turn begun since.
StaleRequestsCannotPlay ==
  ~selected /\ pending = 0 /\ sounding # Silence => sounding.turn = generation

\* The worker clears the stop flag before each phrase, but never the flag of a
\* stop that is still under way: the thread being stopped must see it.
FlagOutlivesStop == pending > 0 => stopRequested

\* A stop kills whatever speaks when its thread gets to run; it never cuts off
\* a phrase that was said after the last of the stops.
StopsSpareNewSpeech ==
  [][ (\E p \in Stoppers : stop[p].step = "kill" /\ stop'[p].step = "hush")
      => sounding = Silence \/ sounding.gen # generation ]_vars

\* join() is released exactly when no phrase is queued or in hand, through
\* every way a phrase may be dropped, drained, interrupted or fail.
JoinCountsTheQueue ==
  unfinished = Len(queue)
    + (IF worker.phase \in {"parked", "woken", "speaking"} THEN 1 ELSE 0)

\* However _set_playback(True) in the thread races with stop(), the flag is
\* down again when the phrase is over.
PlaybackEndsWithThePhrase == playback => thread \notin {"off", "done"}

\* The stops that have not set _ready again; while there is one, the worker may not pass.
Stops == {p \in Stoppers : stop[p].step \notin {"idle", "goodbye"}}
ReadyInv == pending = Cardinality(Stops) /\ (ready <=> pending = 0)

\* The thread speaks for the worker, and no thread of the resident voice plays a recording.
ThreadInv ==
  /\ thread # "off" <=> worker.phase = "speaking"
  /\ ~selected => thread \notin {"open", "stream", "fallback", "remark", "submit", "play"}

\* No phrase is newer than the generation, and each was said for its own turn.
Aged(phrase) == phrase.gen <= generation /\ phrase.turn = phrase.gen
AgeInv ==
  /\ \A i \in 1..Len(queue) : Aged(queue[i])
  /\ Aged(worker.request) /\ Aged(sounding)
  /\ \A s \in Sayers : scope[s] <= generation /\ Aged(saying[s].phrase)

\* What the worker has let pass is current or is being stopped, and a stop that has killed
\* the process leaves none behind that could speak what it stopped.
Doomed == \E p \in Stoppers : stop[p].step \in {"locking", "kill"}
PassInv ==
  /\ pending > 0 /\ worker.phase \in {"woken", "speaking"} => worker.request.gen # generation
  /\ worker.phase = "speaking" => worker.request.gen = generation \/ stopRequested
  /\ pending > 0 /\ sounding # Silence => sounding.gen # generation
  /\ thread = "write" /\ mine => worker.request.gen = generation \/ Doomed
  /\ ~selected /\ sounding # Silence => sounding.gen = generation \/ Doomed
  /\ (\E p \in Stoppers : stop[p].step \in {"hush", "back"}) =>
        ~mine /\ (selected \/ sounding = Silence)

\* The flags and the counter of the queue are true of the worker, its thread and the
\* stops under way (_run, _speak_sync, stop); and what makes that inductive (see SpeakerProofs).
Inv == /\ TypeOK /\ FlagOutlivesStop /\ JoinCountsTheQueue /\ PlaybackEndsWithThePhrase
       /\ ReadyInv /\ ThreadInv /\ AgeInv /\ PassInv

\* wait_until_idle, which a confirmation prompt awaits before its deadline
\* starts to run, returns whatever is interrupted meanwhile.
JoinReturns == unfinished > 0 ~> (unfinished = 0 \/ closing)

\* close() ends the worker whatever was queued, spoken or stopped before.
CloseEndsTheWorker == closing ~> worker.phase = "closed"

\* Whoever waits for the speaker, to be silent or to be closed, does not wait for ever.
WaitingEnds == JoinReturns /\ CloseEndsTheWorker
=============================================================================
