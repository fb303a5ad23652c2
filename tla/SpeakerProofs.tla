----------------------------- MODULE SpeakerProofs -----------------------------
(***************************************************************************)
(* Theorems about Speaker, for any producers and stops, any size of the    *)
(* phrase queue and any bounds.  Inv (in Speaker) is inductive: a stop     *)
(* begins a new generation and holds the worker back until it is over, so  *)
(* that what the worker has let pass is either current or about to be      *)
(* killed; and a stop that has killed the process has left none behind.    *)
(***************************************************************************)
EXTENDS Speaker, TLAPS, SequenceTheorems, FiniteSetTheorems

Items == Phrases \cup {Goodbye}

LEMMA Constants ==
  /\ QueueSize \in Nat /\ QueueSize >= 1 /\ MaxParts \in Nat /\ MaxParts >= 1
  /\ MaxPhrases \in Nat /\ MaxGeneration \in Nat
  /\ IsFiniteSet(Stoppers) /\ Cardinality(Stoppers) \in Nat
BY SpeakerAssumption, FS_CardinalityType

LEMMA Types ==
  ASSUME TypeOK
  PROVE  /\ generation \in Nat /\ generation \in Generations
         /\ stopRequested \in BOOLEAN /\ closing \in BOOLEAN /\ ready \in BOOLEAN
         /\ mine \in BOOLEAN /\ playback \in BOOLEAN /\ selected \in BOOLEAN
         /\ pending \in Nat /\ unfinished \in Nat /\ said \in Int
         /\ queue \in Seq(Items) /\ Len(queue) \in Nat /\ Len(queue) <= QueueSize
         /\ worker.request \in Items /\ sounding \in Items
         /\ worker = [phase |-> worker.phase, request |-> worker.request]
         /\ \A p \in Stoppers : stop[p].step \in Steps /\ stop[p].closer \in BOOLEAN
BY Constants DEF TypeOK, Items, Silence, Generations

-----------------------------------------------------------------------------
(* The queue of phrases                                                    *)

LEMMA QueuePut ==
  ASSUME TypeOK, NEW phrase \in Items, NEW n \in Nat, n <= Room,
         queue' = queue \o [i \in 1..n |-> phrase]
  PROVE  /\ queue' \in Seq(Items) /\ Len(queue') = Len(queue) + n /\ Len(queue') <= QueueSize
         /\ \A i \in 1..Len(queue') : queue'[i] = phrase \/ (i \in 1..Len(queue) /\ queue'[i] = queue[i])
<1> DEFINE more == [i \in 1..n |-> phrase]
<1>1. more \in [1..n -> Items] /\ DOMAIN more = 1..n
  OBVIOUS
<1>2. more \in Seq(Items)
  BY <1>1, SeqDef
<1>3. Len(more) \in Nat /\ DOMAIN more = 1..Len(more)
  BY <1>2, LenProperties
<1>4. Len(more) = n
  BY <1>1, <1>3
<1>5. \A i \in 1..Len(more) : more[i] = phrase
  BY <1>4
<1> HIDE DEF more
<1>6. queue \in Seq(Items) /\ Len(queue) \in Nat
  BY Types
<1>7. /\ queue' \in Seq(Items) /\ Len(queue') = Len(queue) + n
      /\ \A i \in 1..Len(queue) + n :
            queue'[i] = IF i <= Len(queue) THEN queue[i] ELSE more[i - Len(queue)]
  BY <1>2, <1>4, <1>6, ConcatProperties DEF more
<1>8. ASSUME NEW i \in 1..Len(queue')
      PROVE  queue'[i] = phrase \/ (i \in 1..Len(queue) /\ queue'[i] = queue[i])
  <2>1. CASE i <= Len(queue)
    BY <1>6, <1>7, <2>1
  <2>2. CASE ~(i <= Len(queue))
    <3>1. i - Len(queue) \in 1..Len(more)
      BY <1>4, <1>6, <1>7, <2>2
    <3>2. QED
      BY <1>5, <1>7, <2>2, <3>1
  <2>3. QED
    BY <2>1, <2>2
<1>9. QED
  BY <1>6, <1>7, <1>8, Constants DEF Room

LEMMA QueueTail ==
  ASSUME TypeOK, queue # <<>>, queue' = Tail(queue)
  PROVE  /\ Head(queue) = queue[1] /\ Head(queue) \in Items /\ 1 \in 1..Len(queue)
         /\ queue' \in Seq(Items) /\ Len(queue') = Len(queue) - 1
         /\ \A i \in 1..Len(queue') : i + 1 \in 1..Len(queue) /\ queue'[i] = queue[i + 1]
<1>1. queue \in Seq(Items) /\ Len(queue) \in Nat \ {0}
  BY Types, EmptySeq
<1>2. QED
  BY <1>1, HeadTailProperties

LEMMA QueueGoodbye ==
  ASSUME TypeOK, Room > 0, queue' = Append(queue, Goodbye)
  PROVE  /\ queue' \in Seq(Items) /\ Len(queue') = Len(queue) + 1 /\ Len(queue') <= QueueSize
         /\ \A i \in 1..Len(queue') : queue'[i] = Goodbye \/ (i \in 1..Len(queue) /\ queue'[i] = queue[i])
<1>1. queue \in Seq(Items) /\ Goodbye \in Items /\ Len(queue) \in Nat
  BY Types DEF Items
<1>2. /\ queue' \in Seq(Items) /\ Len(queue') = Len(queue) + 1
      /\ queue'[Len(queue) + 1] = Goodbye /\ \A i \in 1..Len(queue) : queue'[i] = queue[i]
  BY <1>1, AppendProperties
<1>3. QED
  BY <1>1, <1>2, Constants DEF Room

-----------------------------------------------------------------------------
(* What the steps of one kind have in common                               *)

\* A producer puts phrases of its own turn, as many as there is room for.
LEMMA ProducerPuts ==
  ASSUME Inv, NEW s \in Sayers,
         (\E scoped \in BOOLEAN, parts \in 1..MaxParts : Say(s, scoped, parts)) \/ KeepSaying(s)
  PROVE  \E phrase \in Items, now \in Nat, left \in 0..MaxParts :
           /\ Aged(phrase) /\ now <= Room
           /\ Put(s, phrase, now, left) /\ said' <= MaxPhrases
           /\ UNCHANGED <<flags, worker, thread, player, playback, scope, stop, selected>>
<1>1. /\ TypeOK /\ AgeInv /\ generation \in Nat /\ Len(queue) \in Nat /\ Len(queue) <= QueueSize
      /\ said \in Int /\ said <= MaxPhrases
      /\ scope[s] \in Generations /\ saying[s] \in [left : 0..MaxParts, phrase : Items]
  BY Types DEF Inv, TypeOK, Items, Silence
<1>2. Room \in Nat
  BY <1>1, Constants DEF Room
<1>3. ASSUME NEW scoped \in BOOLEAN, NEW parts \in 1..MaxParts, Say(s, scoped, parts)
      PROVE  \E phrase \in Items, now \in Nat, left \in 0..MaxParts :
               /\ Aged(phrase) /\ now <= Room
               /\ Put(s, phrase, now, left) /\ said' <= MaxPhrases
               /\ UNCHANGED <<flags, worker, thread, player, playback, scope, stop, selected>>
  <2> DEFINE g == SpeaksFor(s, scoped)
             phrase == [gen |-> g, turn |-> IF scoped THEN scope[s] ELSE g]
             now == Least(parts, Room)
  <2>1. g = generation /\ phrase = [gen |-> generation, turn |-> generation]
    BY <1>3 DEF Say, SpeaksFor
  <2>2. phrase \in Items /\ Aged(phrase)
    BY <1>1, <2>1, Types DEF Items, Phrases, Aged
  <2>3. now \in Nat /\ now <= Room /\ parts - now \in 0..MaxParts
    BY <1>2, Constants DEF Least
  <2>4. /\ Put(s, phrase, now, parts - now)
        /\ UNCHANGED <<flags, worker, thread, player, playback, scope, stop, selected>>
        /\ saying[s].left = 0 /\ said + parts <= MaxPhrases
    BY <1>3 DEF Say
  <2>5. said' = said + now + (parts - now) - 0
    BY <2>4 DEF Put
  <2> HIDE DEF phrase, now
  <2>6. said' <= MaxPhrases
    BY <1>1, <2>3, <2>4, <2>5
  <2>7. QED
    BY <2>2, <2>3, <2>4, <2>6
<1>4. CASE KeepSaying(s)
  <2> DEFINE left == saying[s].left
             stale == saying[s].phrase.gen # generation \/ closing
             now == IF stale THEN 1 ELSE Least(left, Room)
             rest == IF stale THEN 0 ELSE left - now
  <2>1. /\ left > 0 /\ Room > 0 /\ Put(s, saying[s].phrase, now, rest)
        /\ UNCHANGED <<flags, worker, thread, player, playback, scope, stop, selected>>
    BY <1>4 DEF KeepSaying
  <2>2. saying[s].phrase \in Items /\ Aged(saying[s].phrase) /\ left \in 0..MaxParts
    BY <1>1 DEF AgeInv
  <2>3. now \in Nat /\ now <= Room /\ rest \in 0..MaxParts /\ now + rest <= left
    <3>1. CASE stale
      BY <1>2, <2>1, <2>2, <3>1, Constants
    <3>2. CASE ~stale
      BY <1>2, <2>1, <2>2, <3>2, Constants DEF Least
    <3>3. QED
      BY <3>1, <3>2
  <2>4. said' = said + now + rest - left
    BY <2>1 DEF Put
  <2> HIDE DEF left, now, rest
  <2>5. said' <= MaxPhrases
    BY <1>1, <2>2, <2>3, <2>4, Constants
  <2>6. QED
    BY <2>1, <2>2, <2>3, <2>5
<1>5. QED
  BY <1>3, <1>4

\* A stop goes on to its next step.
LEMMA StopSteps ==
  ASSUME TypeOK, NEW p \in Stoppers, NEW next \in Steps, Step(p, next)
  PROVE  /\ stop' \in [Stoppers -> [step : Steps, closer : BOOLEAN]]
         /\ stop'[p].step = next
         /\ \A q \in Stoppers \ {p} : stop'[q] = stop[q]
BY DEF TypeOK, Step

\* What a stop does in the end.
LEMMA StopEnds ==
  ASSUME TypeOK, NEW p \in Stoppers, Stopped(p) \/ Cancelled(p)
  PROVE  /\ stop[p].step \in {"back", "locking"} /\ Leave
         /\ \E next \in {"idle", "goodbye"} : Step(p, next)
         /\ \/ UNCHANGED <<queue, unfinished>>
            \/ Room > 0 /\ queue' = Append(queue, Goodbye) /\ unfinished' = unfinished + 1
BY DEF Stopped, Cancelled, SayGoodbye

\* A step of the thread leaves everybody else alone.
LEMMA ThreadSteps ==
  ASSUME Speaking
  PROVE  ThreadOnly
BY DEF Speaking, Enter, StartProcess, WriteRequest, Interruption, Answer, Died, Deadline, Crash,
       Marking, Mark, OpenOutput, Stream, Fallback, Remark, Submit, PlayedOut, Finally

LEMMA WorkerSteps ==
  ASSUME Get \/ Woken \/ Finished
  PROVE  UNCHANGED <<generation, closing, ready, pending, player, playback, producers, stop, selected>>
BY DEF Get, Woken, Finished, flags

-----------------------------------------------------------------------------
(* The stops under way and _ready                                          *)

LEMMA StopsFinite ==
  ASSUME Inv
  PROVE  /\ IsFiniteSet(Stops) /\ Cardinality(Stops) \in Nat /\ pending = Cardinality(Stops)
         /\ pending \in Nat /\ (pending = 0 <=> Stops = {})
<1>1. IsFiniteSet(Stops)
  BY Constants, FS_Subset DEF Stops
<1>2. QED
  BY <1>1, FS_CardinalityType, FS_EmptySet DEF Inv, ReadyInv

LEMMA StepReady ==
  ASSUME Inv, [Next]_vars
  PROVE  ReadyInv' /\ pending' \in 0..Cardinality(Stoppers)
<1>1. /\ TypeOK /\ ReadyInv /\ Stops \subseteq Stoppers
  BY DEF Inv, Stops
<1>2. /\ IsFiniteSet(Stops) /\ Cardinality(Stops) \in Nat
      /\ pending = Cardinality(Stops) /\ pending \in Nat
  BY StopsFinite
<1>3. SUFFICES pending' = Cardinality(Stops') /\ (ready' <=> pending' = 0)
  <2>1. IsFiniteSet(Stops') /\ Cardinality(Stops') \in Nat /\ Cardinality(Stops') <= Cardinality(Stoppers)
    <3>1. Stops' \in SUBSET Stoppers
      BY DEF Stops
    <3>2. QED
      BY <3>1, Constants, FS_Subset, FS_CardinalityType
  <2>2. QED
    BY <1>3, <2>1, Constants DEF ReadyInv
<1>4. ASSUME UNCHANGED <<ready, pending>>, Stops' = Stops
      PROVE  pending' = Cardinality(Stops') /\ (ready' <=> pending' = 0)
  BY <1>1, <1>2, <1>4 DEF ReadyInv
<1>5. ASSUME NEW p \in Stoppers, NEW next \in {"kill", "hush", "back"}, Step(p, next),
             stop[p].step \notin {"idle", "goodbye"}, UNCHANGED <<ready, pending>>
      PROVE  pending' = Cardinality(Stops') /\ (ready' <=> pending' = 0)
  <2>1. next \in Steps
    BY DEF Steps
  <2>2. Stops' = Stops
    BY <1>1, <1>5, <2>1, StopSteps DEF Stops
  <2>3. QED
    BY <1>4, <1>5, <2>2
<1>6. ASSUME NEW p \in Stoppers, NEW closer \in BOOLEAN, BeginStop(p, closer)
      PROVE  pending' = Cardinality(Stops') /\ (ready' <=> pending' = 0)
  <2>1. /\ stop'[p].step \in {"kill", "locking"} /\ \A q \in Stoppers \ {p} : stop'[q] = stop[q]
        /\ stop[p].step = "idle" /\ ready' = FALSE /\ pending' = pending + 1
    BY <1>1, <1>6 DEF BeginStop, TypeOK
  <2>2. Stops' = Stops \cup {p} /\ p \notin Stops
    BY <2>1 DEF Stops
  <2>3. Cardinality(Stops') = Cardinality(Stops) + 1
    BY <1>2, <2>2, FS_AddElement
  <2>4. QED
    BY <1>2, <2>1, <2>3
<1>7. ASSUME NEW p \in Stoppers, Stopped(p) \/ Cancelled(p)
      PROVE  pending' = Cardinality(Stops') /\ (ready' <=> pending' = 0)
  <2>1. PICK next \in {"idle", "goodbye"} : Step(p, next)
    BY <1>1, <1>7, StopEnds
  <2>2. /\ stop'[p].step = next /\ \A q \in Stoppers \ {p} : stop'[q] = stop[q]
    BY <1>1, <2>1, StopSteps DEF Steps
  <2>3. Stops' = Stops \ {p} /\ p \in Stops
    BY <1>1, <1>7, <2>2, StopEnds DEF Stops
  <2>4. Cardinality(Stops') = Cardinality(Stops) - 1
    BY <1>2, <2>3, FS_RemoveElement
  <2>5. pending # 0
    BY <1>2, <2>3, StopsFinite
  <2>6. pending' = pending - 1 /\ ready' = (pending - 1 = 0 \/ ready)
    BY <1>1, <1>7, StopEnds DEF Leave, LastStop
  <2>7. ready = FALSE
    BY <1>1, <2>5, Types DEF ReadyInv
  <2>8. QED
    BY <1>2, <2>4, <2>6, <2>7
<1>8. ASSUME NEW p \in Stoppers, Goodbyes(p)
      PROVE  pending' = Cardinality(Stops') /\ (ready' <=> pending' = 0)
  <2>1. Step(p, "idle") /\ stop[p].step = "goodbye" /\ UNCHANGED <<ready, pending>>
    BY <1>8 DEF Goodbyes, SayGoodbye, flags
  <2>2. Stops' = Stops
    BY <1>1, <2>1, StopSteps DEF Stops, Steps
  <2>3. QED
    BY <1>4, <2>1, <2>2
<1>9. CASE Stopping
  BY <1>5, <1>6, <1>7, <1>8, <1>9 DEF Stopping, TakeStopLock, Kill, Hush, flags
<1>10. ASSUME UNCHANGED <<ready, pending, stop>>
       PROVE  pending' = Cardinality(Stops') /\ (ready' <=> pending' = 0)
  BY <1>4, <1>10 DEF Stops
<1>11. CASE Talk
  <2>1. CASE \E s \in Sayers : OpenTurn(s)
    BY <1>10, <2>1 DEF OpenTurn, flags
  <2>2. CASE \E s \in Sayers : \/ KeepSaying(s)
                               \/ \E scoped \in BOOLEAN, parts \in 1..MaxParts : Say(s, scoped, parts)
    BY <1>10, <2>2, ProducerPuts DEF flags
  <2>3. QED
    BY <1>11, <2>1, <2>2 DEF Talk
<1>12. CASE Speaking
  BY <1>10, <1>12, ThreadSteps DEF ThreadOnly, flags
<1>13. CASE Get \/ Woken \/ Finished
  BY <1>10, <1>13, WorkerSteps
<1>14. CASE UNCHANGED vars
  BY <1>10, <1>14 DEF vars
<1>15. QED
  BY <1>9, <1>11, <1>12, <1>13, <1>14 DEF Next

-----------------------------------------------------------------------------
(* The counter of the queue                                                *)

\* The phrase in the hands of the worker.
InHand(w) == IF w.phase \in {"parked", "woken", "speaking"} THEN 1 ELSE 0

\* A phrase let pass stays in hand, one dropped is counted as done.
LEMMA DispatchCounts ==
  ASSUME NEW r, NEW open \in Int, Dispatch(r, open)
  PROVE  unfinished' - InHand(worker') = open - 1
<1>1. CASE worker' = [phase |-> "speaking", request |-> r] /\ unfinished' = open
  <2>1. InHand(worker') = 1
    BY <1>1 DEF InHand
  <2>2. QED
    BY <1>1, <2>1
<1>2. CASE worker' = [phase |-> "get", request |-> Goodbye] /\ unfinished' = open - 1
  <2>1. InHand(worker') = 0
    BY <1>2 DEF InHand
  <2>2. QED
    BY <1>2, <2>1
<1>3. QED
  BY <1>1, <1>2 DEF Dispatch

LEMMA StepJoin ==
  ASSUME Inv, [Next]_vars
  PROVE  /\ JoinCountsTheQueue' /\ unfinished' \in Nat
         /\ queue' \in Seq(Items) /\ Len(queue') <= QueueSize
<1> DEFINE Kept == /\ queue' \in Seq(Items) /\ Len(queue') <= QueueSize
                   /\ unfinished' = Len(queue') + InHand(worker')
<1>1. /\ TypeOK /\ queue \in Seq(Items) /\ Len(queue) \in Nat /\ Len(queue) <= QueueSize
      /\ unfinished \in Nat /\ unfinished = Len(queue) + InHand(worker)
  BY Types DEF Inv, JoinCountsTheQueue, InHand
<1>2. /\ InHand(worker) \in {0, 1} /\ InHand(worker') \in {0, 1}
      /\ worker.phase \in {"get", "closed"} => InHand(worker) = 0
      /\ worker.phase \in {"woken", "speaking"} => InHand(worker) = 1
  BY DEF InHand
<1>3. ASSUME UNCHANGED <<queue, unfinished>>, InHand(worker') = InHand(worker)
      PROVE  Kept
  BY <1>1, <1>3
<1>4. ASSUME Room > 0, queue' = Append(queue, Goodbye), unfinished' = unfinished + 1,
             InHand(worker') = InHand(worker)
      PROVE  Kept
  BY <1>1, <1>2, <1>4, QueueGoodbye
<1>0. SUFFICES Kept
  <2>1. ASSUME Kept
        PROVE  JoinCountsTheQueue' /\ unfinished' \in Nat
    <3>1. Len(queue') \in Nat
      BY <2>1, LenProperties
    <3>2. QED
      BY <1>2, <2>1, <3>1 DEF JoinCountsTheQueue, InHand
  <2>2. QED
    BY <2>1
<1>5. CASE Talk
  <2>1. ASSUME NEW s \in Sayers, OpenTurn(s)
        PROVE  Kept
    BY <1>3, <2>1 DEF OpenTurn, InHand
  <2>2. ASSUME NEW s \in Sayers,
               (\E scoped \in BOOLEAN, parts \in 1..MaxParts : Say(s, scoped, parts)) \/ KeepSaying(s)
        PROVE  Kept
    <3>1. PICK phrase \in Items, now \in Nat, left \in 0..MaxParts :
             now <= Room /\ Put(s, phrase, now, left) /\ UNCHANGED worker
      BY <2>2, ProducerPuts
    <3>2. queue' = queue \o [i \in 1..now |-> phrase] /\ unfinished' = unfinished + now
      BY <3>1 DEF Put
    <3>3. queue' \in Seq(Items) /\ Len(queue') = Len(queue) + now /\ Len(queue') <= QueueSize
      BY <1>1, <3>1, <3>2, QueuePut
    <3>4. InHand(worker') = InHand(worker)
      BY <3>1 DEF InHand
    <3>5. now \in Int /\ unfinished' = unfinished + now
      BY <3>2
    <3>6. QED
      BY <1>1, <1>2, <3>3, <3>4, <3>5
  <2>3. QED
    BY <1>5, <2>1, <2>2 DEF Talk
<1>6. CASE Get
  <2>1. worker.phase = "get" /\ queue # <<>> /\ queue' = Tail(queue)
    BY <1>6 DEF Get
  <2>2. queue' \in Seq(Items) /\ Len(queue') = Len(queue) - 1
    BY <1>1, <2>1, QueueTail
  <2>3. unfinished' - InHand(worker') = unfinished - 1
    <3>1. CASE worker' = [phase |-> "closed", request |-> Goodbye] /\ unfinished' = unfinished - 1
      <4>1. InHand(worker') = 0
        BY <3>1 DEF InHand
      <4>2. QED
        BY <1>1, <3>1, <4>1
    <3>2. CASE worker' = [phase |-> "parked", request |-> Head(queue)] /\ unfinished' = unfinished
      <4>1. InHand(worker') = 1
        BY <3>2 DEF InHand
      <4>2. QED
        BY <1>1, <3>2, <4>1
    <3>3. CASE Dispatch(Head(queue), unfinished)
      BY <1>1, <3>3, DispatchCounts
    <3>4. QED
      BY <1>6, <3>1, <3>2, <3>3 DEF Get
  <2>4. unfinished' = Len(queue') + InHand(worker')
    <3>1. unfinished' \in Int
      BY <1>1, <1>6 DEF Get, Dispatch
    <3>2. QED
      BY <1>1, <1>2, <2>1, <2>2, <2>3, <3>1
  <2>5. QED
    BY <1>1, <2>2, <2>4, Constants
<1>7. CASE Woken
  <2>1. worker.phase = "woken" /\ Dispatch(worker.request, unfinished) /\ UNCHANGED queue
    BY <1>7 DEF Woken
  <2>2. unfinished' - InHand(worker') = unfinished - 1
    BY <1>1, <2>1, DispatchCounts
  <2>3. unfinished' \in Int
    BY <1>1, <2>1 DEF Dispatch
  <2>4. QED
    BY <1>1, <1>2, <2>1, <2>2, <2>3
<1>8. CASE Finished
  <2>1. /\ thread = "done" /\ worker' = [phase |-> "get", request |-> Goodbye]
        /\ unfinished' = unfinished - 1 /\ UNCHANGED queue
    BY <1>8 DEF Finished, PhraseOver
  <2>2. worker.phase = "speaking"
    BY <2>1 DEF Inv, ThreadInv
  <2>3. InHand(worker') = 0
    BY <2>1 DEF InHand
  <2>4. QED
    BY <1>1, <1>2, <2>1, <2>2, <2>3
<1>9. CASE Speaking
  <2>1. UNCHANGED <<queue, unfinished, worker>>
    BY <1>9, ThreadSteps DEF ThreadOnly
  <2>2. InHand(worker') = InHand(worker)
    BY <2>1
  <2>3. QED
    BY <1>3, <2>1, <2>2
<1>10. CASE Stopping
  <2>1. ASSUME NEW p \in Stoppers, NEW closer \in BOOLEAN, BeginStop(p, closer)
        PROVE  Kept
    <3>1. queue' = <<>> /\ unfinished' = unfinished - Len(queue) /\ InHand(worker') = InHand(worker)
      BY <2>1 DEF BeginStop, InHand
    <3>2. Len(queue') = 0 /\ queue' \in Seq(Items)
      BY <3>1
    <3>3. QED
      BY <1>1, <1>2, <3>1, <3>2, Constants
  <2>2. ASSUME NEW p \in Stoppers, TakeStopLock(p) \/ Kill(p) \/ Hush(p)
        PROVE  Kept
    BY <1>3, <2>2 DEF TakeStopLock, Kill, Hush, InHand
  <2>3. ASSUME NEW p \in Stoppers, Stopped(p) \/ Cancelled(p)
        PROVE  Kept
    <3>1. worker' = IF ready' /\ worker.phase = "parked" THEN [worker EXCEPT !.phase = "woken"] ELSE worker
      BY <1>1, <2>3, StopEnds DEF Leave
    <3>2. InHand(worker') = InHand(worker)
      <4>1. CASE ready' /\ worker.phase = "parked"
        <5>1. worker'.phase = "woken"
          BY <1>1, <3>1, <4>1 DEF TypeOK
        <5>2. QED
          BY <4>1, <5>1 DEF InHand
      <4>2. CASE ~(ready' /\ worker.phase = "parked")
        BY <3>1, <4>2 DEF InHand
      <4>3. QED
        BY <4>1, <4>2
    <3>3. QED
      BY <1>1, <1>3, <1>4, <2>3, <3>2, StopEnds
  <2>4. ASSUME NEW p \in Stoppers, Goodbyes(p)
        PROVE  Kept
    BY <1>4, <2>4 DEF Goodbyes, SayGoodbye, InHand
  <2>5. QED
    BY <1>10, <2>1, <2>2, <2>3, <2>4 DEF Stopping
<1>11. CASE UNCHANGED vars
  <2>1. UNCHANGED <<queue, unfinished, worker>>
    BY <1>11 DEF vars
  <2>2. QED
    BY <1>3, <2>1 DEF InHand
<1>12. QED
  BY <1>5, <1>6, <1>7, <1>8, <1>9, <1>10, <1>11 DEF Next

-----------------------------------------------------------------------------
(* What the other steps may do to what they share                          *)

\* A producer leaves the worker, the thread and the stops alone, and says nothing new
\* for an old turn.
LEMMA Talks ==
  ASSUME Inv, Talk
  PROVE  /\ UNCHANGED <<flags, worker, thread, player, playback, stop, selected>>
         /\ scope' \in [Sayers -> Generations] /\ said' \in Int /\ said' <= MaxPhrases
         /\ saying' \in [Sayers -> [left : 0..MaxParts, phrase : Items]]
         /\ \A i \in 1..Len(queue') : Aged(queue'[i])
         /\ \A s \in Sayers : scope'[s] <= generation /\ Aged(saying'[s].phrase)
<1>1. /\ TypeOK /\ AgeInv /\ generation \in Generations /\ generation \in Nat
      /\ scope \in [Sayers -> Generations] /\ said \in Int /\ said <= MaxPhrases
      /\ saying \in [Sayers -> [left : 0..MaxParts, phrase : Items]]
  BY Types DEF Inv, TypeOK, Items, Silence
<1>2. ASSUME NEW s \in Sayers, OpenTurn(s)
      PROVE  /\ UNCHANGED <<flags, queue, worker, thread, player, playback, saying, stop, said, selected>>
             /\ scope' \in [Sayers -> Generations]
             /\ \A t \in Sayers : scope'[t] <= generation
  BY <1>1, <1>2 DEF OpenTurn, AgeInv
<1>3. ASSUME NEW s \in Sayers,
             (\E scoped \in BOOLEAN, parts \in 1..MaxParts : Say(s, scoped, parts)) \/ KeepSaying(s)
      PROVE  /\ UNCHANGED <<flags, worker, thread, player, playback, scope, stop, selected>>
             /\ said' \in Int /\ said' <= MaxPhrases
             /\ saying' \in [Sayers -> [left : 0..MaxParts, phrase : Items]]
             /\ \A i \in 1..Len(queue') : Aged(queue'[i])
             /\ \A t \in Sayers : Aged(saying'[t].phrase)
  <2>1. PICK phrase \in Items, now \in Nat, left \in 0..MaxParts :
          /\ Aged(phrase) /\ now <= Room /\ Put(s, phrase, now, left) /\ said' <= MaxPhrases
          /\ UNCHANGED <<flags, worker, thread, player, playback, scope, stop, selected>>
    BY <1>3, ProducerPuts
  <2>2. /\ queue' = queue \o [i \in 1..now |-> phrase] /\ said' = said + now + left - saying[s].left
        /\ saying' = [saying EXCEPT ![s] = IF left = 0 THEN NotSaying ELSE [left |-> left, phrase |-> phrase]]
    BY <2>1 DEF Put
  <2>3. saying[s].left \in 0..MaxParts
    BY <1>1
  <2>4. said' \in Int
    BY <1>1, <2>2, <2>3, Constants
  <2>5. \A i \in 1..Len(queue') : Aged(queue'[i])
    <3>1. \A i \in 1..Len(queue') :
            queue'[i] = phrase \/ (i \in 1..Len(queue) /\ queue'[i] = queue[i])
      BY <1>1, <2>1, <2>2, QueuePut
    <3>2. QED
      BY <1>1, <2>1, <3>1 DEF AgeInv
  <2> DEFINE next == IF left = 0 THEN NotSaying ELSE [left |-> left, phrase |-> phrase]
  <2>6. next \in [left : 0..MaxParts, phrase : Items] /\ Aged(next.phrase)
    <3>1. NotSaying \in [left : 0..MaxParts, phrase : Items] /\ Aged(NotSaying.phrase)
      BY <1>1, Constants DEF NotSaying, Items, Silence, Goodbye, Aged
    <3>2. QED
      BY <2>1, <3>1
  <2>7. saying' = [saying EXCEPT ![s] = next]
    BY <2>2
  <2> HIDE DEF next
  <2>8. /\ saying' \in [Sayers -> [left : 0..MaxParts, phrase : Items]]
        /\ \A t \in Sayers : Aged(saying'[t].phrase)
    BY <1>1, <2>6, <2>7 DEF AgeInv
  <2>9. QED
    BY <2>1, <2>4, <2>5, <2>8
<1>4. CASE \E s \in Sayers : OpenTurn(s)
  BY <1>1, <1>2, <1>4 DEF AgeInv
<1>5. CASE \E s \in Sayers : \/ KeepSaying(s)
                             \/ \E scoped \in BOOLEAN, parts \in 1..MaxParts : Say(s, scoped, parts)
  BY <1>1, <1>3, <1>5 DEF AgeInv
<1>6. QED
  BY <1>4, <1>5 DEF Talk

\* The worker passes a phrase only while no stop is under way; otherwise it has none.
LEMMA WorkerMoves ==
  ASSUME Inv, Get \/ Woken \/ Finished
  PROVE  /\ UNCHANGED <<generation, closing, ready, pending, player, playback, producers, stop, selected>>
         /\ worker' \in [phase : {"get", "parked", "woken", "speaking", "closed"}, request : Items]
         /\ Aged(worker'.request) /\ \A i \in 1..Len(queue') : Aged(queue'[i])
         /\ thread \in {"off", "done"}
         /\ \/ /\ worker'.phase = "speaking" /\ worker'.request.gen = generation
               /\ thread' = "enter" /\ stopRequested' = FALSE /\ pending = 0
            \/ /\ worker'.phase \in {"get", "parked", "closed"} /\ thread' = "off"
               /\ UNCHANGED stopRequested
<1> DEFINE Phases == {"get", "parked", "woken", "speaking", "closed"}
           Result == /\ worker' \in [phase : Phases, request : Items] /\ Aged(worker'.request)
                     /\ \/ /\ worker'.phase = "speaking" /\ worker'.request.gen = generation
                           /\ thread' = "enter" /\ stopRequested' = FALSE /\ pending = 0
                        \/ /\ worker'.phase \in {"get", "parked", "closed"} /\ thread' = "off"
                           /\ UNCHANGED stopRequested
<1>1. /\ TypeOK /\ ReadyInv /\ ThreadInv /\ AgeInv /\ PassInv
      /\ generation \in Nat /\ pending \in Nat /\ ready \in BOOLEAN /\ worker.request \in Items
  BY Types DEF Inv
<1>2. Goodbye \in Items /\ Aged(Goodbye)
  BY <1>1 DEF Items, Goodbye, Aged
<1>3. ASSUME NEW r \in Items, NEW open, Dispatch(r, open), Aged(r), thread = "off",
             r.gen = generation => pending = 0
      PROVE  Result
  <2>1. CASE /\ Current(r) /\ worker' = [phase |-> "speaking", request |-> r]
             /\ stopRequested' = FALSE /\ thread' = "enter"
    <3>1. r.gen = generation /\ pending = 0
      BY <1>3, <2>1 DEF Current
    <3>2. QED
      BY <1>3, <2>1, <3>1
  <2>2. CASE worker' = [phase |-> "get", request |-> Goodbye] /\ UNCHANGED <<stopRequested, thread>>
    BY <1>2, <1>3, <2>2
  <2>3. QED
    BY <1>3, <2>1, <2>2 DEF Dispatch
<1>4. CASE Get
  <2>1. worker.phase = "get" /\ queue # <<>> /\ queue' = Tail(queue)
    BY <1>4 DEF Get
  <2>2. /\ Head(queue) = queue[1] /\ Head(queue) \in Items /\ 1 \in 1..Len(queue)
        /\ \A i \in 1..Len(queue') : i + 1 \in 1..Len(queue) /\ queue'[i] = queue[i + 1]
    BY <1>1, <2>1, QueueTail
  <2>3. Aged(Head(queue)) /\ \A i \in 1..Len(queue') : Aged(queue'[i])
    BY <1>1, <2>2 DEF AgeInv
  <2>4. thread = "off"
    BY <1>1, <2>1 DEF ThreadInv
  <2>5. CASE worker' = [phase |-> "closed", request |-> Goodbye] /\ UNCHANGED <<stopRequested, thread>>
    BY <1>2, <1>4, <2>3, <2>4, <2>5, WorkerSteps
  <2>6. CASE worker' = [phase |-> "parked", request |-> Head(queue)] /\ UNCHANGED <<stopRequested, thread>>
    BY <1>4, <2>2, <2>3, <2>4, <2>6, WorkerSteps
  <2>7. CASE ready /\ Dispatch(Head(queue), unfinished)
    <3>1. pending = 0
      BY <1>1, <2>7 DEF ReadyInv
    <3>2. Result
      BY <1>3, <2>2, <2>3, <2>4, <2>7, <3>1
    <3>3. QED
      BY <1>4, <2>3, <2>4, <3>2, WorkerSteps
  <2>8. QED
    BY <1>4, <2>5, <2>6, <2>7 DEF Get
<1>5. CASE Woken
  <2>1. worker.phase = "woken" /\ Dispatch(worker.request, unfinished) /\ UNCHANGED queue
    BY <1>5 DEF Woken
  <2>2. thread = "off"
    BY <1>1, <2>1 DEF ThreadInv
  <2>3. worker.request.gen = generation => pending = 0
    BY <1>1, <2>1 DEF PassInv
  <2>4. Aged(worker.request) /\ \A i \in 1..Len(queue') : Aged(queue'[i])
    BY <1>1, <2>1 DEF AgeInv
  <2>5. Result
    BY <1>1, <1>3, <2>1, <2>2, <2>3, <2>4
  <2>6. QED
    BY <1>5, <2>2, <2>4, <2>5, WorkerSteps
<1>6. CASE Finished
  <2>1. /\ worker' = [phase |-> "get", request |-> Goodbye] /\ thread' = "off" /\ thread = "done"
        /\ UNCHANGED <<queue, stopRequested>>
    BY <1>6 DEF Finished, flags
  <2>2. \A i \in 1..Len(queue') : Aged(queue'[i])
    BY <1>1, <2>1 DEF AgeInv
  <2>3. QED
    BY <1>2, <1>6, <2>1, <2>2, WorkerSteps
<1>7. QED
  BY <1>4, <1>5, <1>6

\* The thread marks its own phrase and speaks no other: with the process it started
\* when no stop had been asked for, or on the selected output.
LEMMA ThreadMoves ==
  ASSUME Inv, Speaking
  PROVE  /\ ThreadOnly
         /\ thread' \in Threads /\ process' \in {"none", "up", "dead"}
         /\ mine' \in BOOLEAN /\ playback' \in BOOLEAN
         /\ (thread' = "off" <=> thread = "off") /\ (thread' = "done" => playback' = FALSE \/ thread = "done")
         /\ (thread \in {"off", "done"} => UNCHANGED <<thread, playback>>)
         /\ (~selected => thread' \notin {"open", "stream", "fallback", "remark", "submit", "play"})
         /\ (mine' => mine \/ (thread = "process" /\ ~stopRequested))
         /\ (thread' = "write" =>
               (thread = "process" /\ ~stopRequested) \/ (thread = "write" /\ mine' = mine))
         /\ \/ sounding' \in {sounding, Silence}
            \/ /\ sounding' = worker.request
               /\ (thread = "write" /\ mine /\ ~selected) \/ (thread = "submit" /\ selected)
<1>1. /\ ThreadInv /\ thread \in Threads /\ process \in {"none", "up", "dead"}
      /\ mine \in BOOLEAN /\ playback \in BOOLEAN /\ selected \in BOOLEAN
  BY DEF Inv, TypeOK
<1>2. CASE Enter
  <2>1. /\ thread = "enter" /\ ThreadOnly /\ UNCHANGED <<process, mine, sounding, playback>>
        /\ thread' \in {"finally", "process"} \/ (thread' = "open" /\ selected)
    BY <1>2 DEF Enter, GoTo, player
  <2>2. QED
    BY <1>1, <2>1 DEF Threads
<1>3. CASE StartProcess
  <2>1. /\ thread = "process" /\ ThreadOnly /\ sounding' = sounding /\ playback' = playback
        /\ \/ thread' = "finally" /\ mine' = mine /\ process' = process
           \/ thread' = "write" /\ mine' = TRUE /\ process' = "up" /\ ~stopRequested
    BY <1>3 DEF StartProcess, GoTo, player, MayStart, Interrupted
  <2>2. CASE thread' = "finally" /\ mine' = mine /\ process' = process
    BY <1>1, <2>1, <2>2 DEF Threads
  <2>3. CASE thread' = "write" /\ mine' = TRUE /\ process' = "up" /\ ~stopRequested
    BY <1>1, <2>1, <2>3 DEF Threads
  <2>4. QED
    BY <2>1, <2>2, <2>3
<1>4. CASE WriteRequest
  BY <1>1, <1>4 DEF WriteRequest, GoTo, player, Threads
<1>5. CASE Interruption \/ Died \/ Marking
  BY <1>1, <1>5 DEF Interruption, Died, Marking, GoTo, player, Threads
<1>6. CASE Answer
  BY <1>1, <1>6 DEF Answer, Threads
<1>7. CASE Deadline
  BY <1>1, <1>7 DEF Deadline, Threads
<1>8. CASE Crash
  BY <1>1, <1>8 DEF Crash, ThreadInv
<1>9. CASE Mark
  BY <1>1, <1>9 DEF Mark, player, Threads
<1>10. CASE OpenOutput
  BY <1>1, <1>10 DEF OpenOutput, GoTo, player, Threads, ThreadInv
<1>11. CASE Stream
  BY <1>1, <1>11 DEF Stream, GoTo, player, Threads, ThreadInv
<1>12. CASE Fallback
  BY <1>1, <1>12 DEF Fallback, player, Threads, ThreadInv
<1>13. CASE Remark
  BY <1>1, <1>13 DEF Remark, player, Threads, ThreadInv
<1>14. CASE Submit
  BY <1>1, <1>14 DEF Submit, Threads, ThreadInv
<1>15. CASE PlayedOut
  BY <1>1, <1>15 DEF PlayedOut, Threads, ThreadInv
<1>16. CASE Finally
  BY <1>1, <1>16 DEF Finally, LowerFlag, player, Threads
<1>17. QED
  BY <1>2, <1>3, <1>4, <1>5, <1>6, <1>7, <1>8, <1>9, <1>10, <1>11, <1>12, <1>13, <1>14, <1>15, <1>16
     DEF Speaking

\* A stop that begins is newer than everything said before.
LEMMA Begins ==
  ASSUME Inv, NEW p \in Stoppers, NEW closer \in BOOLEAN, BeginStop(p, closer)
  PROVE  /\ UNCHANGED <<worker, thread, player, producers, selected>>
         /\ generation' = generation + 1 /\ generation' \in Generations
         /\ closing' = closer /\ stopRequested' = TRUE /\ playback' = FALSE /\ ready' = FALSE
         /\ queue' = <<>> /\ Len(queue') = 0
         /\ stop' \in [Stoppers -> [step : Steps, closer : BOOLEAN]]
         /\ stop'[p].step \in {"kill", "locking"} /\ \A q \in Stoppers \ {p} : stop'[q] = stop[q]
<1>1. TypeOK /\ generation \in Nat /\ generation < MaxGeneration
  BY Types DEF Inv, BeginStop
<1>2. generation + 1 \in Generations
  BY <1>1, Constants DEF Generations
<1>3. queue' = <<>> /\ Len(queue') = 0
  BY DEF BeginStop
<1>4. QED
  BY <1>1, <1>2, <1>3 DEF BeginStop, TypeOK, Steps

\* A stop under way changes neither the generation nor the stop flag, and it holds the
\* worker back until the last of the stops is over.
LEMMA StopMoves ==
  ASSUME Inv, NEW p \in Stoppers,
         TakeStopLock(p) \/ Kill(p) \/ Hush(p) \/ Stopped(p) \/ Cancelled(p) \/ Goodbyes(p)
  PROVE  /\ UNCHANGED <<generation, stopRequested, closing, thread, playback, producers, selected>>
         /\ stop' \in [Stoppers -> [step : Steps, closer : BOOLEAN]]
         /\ \A q \in Stoppers \ {p} : stop'[q] = stop[q]
         /\ ready' \in BOOLEAN /\ (pending' = pending \/ pending' = pending - 1)
         /\ worker' \in [phase : {"get", "parked", "woken", "speaking", "closed"}, request : Items]
         /\ worker'.request = worker.request
         /\ \/ worker' = worker
            \/ worker.phase = "parked" /\ worker'.phase = "woken" /\ ready'
         /\ \A i \in 1..Len(queue') : Aged(queue'[i])
<1>1. /\ TypeOK /\ AgeInv /\ generation \in Nat /\ ready \in BOOLEAN
      /\ worker \in [phase : {"get", "parked", "woken", "speaking", "closed"}, request : Items]
  BY Types DEF Inv, TypeOK, Items
<1>2. \A i \in 1..Len(queue) : Aged(queue[i])
  BY <1>1 DEF AgeInv
<1>3. ASSUME Room > 0, queue' = Append(queue, Goodbye)
      PROVE  \A i \in 1..Len(queue') : Aged(queue'[i])
  <2>1. Aged(Goodbye)
    BY <1>1 DEF Aged, Goodbye
  <2>2. QED
    BY <1>1, <1>2, <1>3, <2>1, QueueGoodbye
<1>4. ASSUME NEW next \in Steps, Step(p, next)
      PROVE  /\ stop' \in [Stoppers -> [step : Steps, closer : BOOLEAN]]
             /\ \A q \in Stoppers \ {p} : stop'[q] = stop[q]
  BY <1>1, <1>4, StopSteps
<1>5. CASE TakeStopLock(p) \/ Kill(p) \/ Hush(p)
  <2>1. /\ UNCHANGED <<flags, queue, worker, thread, playback, producers, selected>>
        /\ \E next \in Steps : Step(p, next)
    BY <1>5 DEF TakeStopLock, Kill, Hush, Steps
  <2>2. QED
    BY <1>1, <1>2, <1>4, <2>1 DEF flags
<1>6. CASE Stopped(p) \/ Cancelled(p)
  <2>1. Leave /\ \E next \in Steps : Step(p, next)
    BY <1>1, <1>6, StopEnds DEF Steps
  <2>2. \A i \in 1..Len(queue') : Aged(queue'[i])
    BY <1>1, <1>2, <1>3, <1>6, StopEnds
  <2>3. /\ pending' = pending - 1 /\ ready' \in BOOLEAN
        /\ UNCHANGED <<generation, stopRequested, closing, thread, playback, producers, selected>>
        /\ worker' = IF ready' /\ worker.phase = "parked" THEN [worker EXCEPT !.phase = "woken"] ELSE worker
    BY <1>1, <2>1 DEF Leave, player
  <2>4. CASE ready' /\ worker.phase = "parked"
    <3>1. worker' = [worker EXCEPT !.phase = "woken"]
      BY <2>3, <2>4
    <3>2. /\ worker' \in [phase : {"get", "parked", "woken", "speaking", "closed"}, request : Items]
          /\ worker'.request = worker.request /\ worker'.phase = "woken"
      BY <1>1, <3>1
    <3>3. QED
      BY <1>4, <2>1, <2>2, <2>3, <2>4, <3>2
  <2>5. CASE ~(ready' /\ worker.phase = "parked")
    <3>1. worker' = worker
      BY <2>3, <2>5
    <3>2. QED
      BY <1>1, <1>4, <2>1, <2>2, <2>3, <3>1
  <2>6. QED
    BY <2>4, <2>5
<1>7. CASE Goodbyes(p)
  BY <1>1, <1>3, <1>4, <1>7 DEF Goodbyes, SayGoodbye, flags, Steps
<1>8. QED
  BY <1>5, <1>6, <1>7

-----------------------------------------------------------------------------
(* Each part of the invariant, kept by every step                          *)

LEMMA StepTypes ==
  ASSUME Inv, [Next]_vars
  PROVE  TypeOK'
<1>1. /\ TypeOK /\ generation \in Generations /\ Goodbye \in Items
      /\ stopRequested \in BOOLEAN /\ closing \in BOOLEAN /\ ready \in BOOLEAN
      /\ mine \in BOOLEAN /\ playback \in BOOLEAN
      /\ worker.request \in Items /\ sounding \in Items
  BY Types DEF Inv, Items
<1>2. /\ unfinished' \in Nat /\ queue' \in Seq(Items) /\ Len(queue') <= QueueSize
      /\ pending' \in 0..Cardinality(Stoppers)
  BY StepJoin, StepReady
<1> DEFINE Rest == /\ generation' \in Generations
                   /\ stopRequested' \in BOOLEAN /\ closing' \in BOOLEAN /\ ready' \in BOOLEAN
                   /\ mine' \in BOOLEAN /\ playback' \in BOOLEAN
                   /\ worker' \in [phase : {"get", "parked", "woken", "speaking", "closed"}, request : Items]
                   /\ thread' \in Threads /\ process' \in {"none", "up", "dead"}
                   /\ sounding' \in Items /\ scope' \in [Sayers -> Generations]
                   /\ saying' \in [Sayers -> [left : 0..MaxParts, phrase : Items]]
                   /\ stop' \in [Stoppers -> [step : Steps, closer : BOOLEAN]]
                   /\ said' \in Int /\ said' <= MaxPhrases /\ selected' \in BOOLEAN
<1>3. SUFFICES Rest
  BY <1>2 DEF TypeOK, Items, Silence
<1>4. /\ worker \in [phase : {"get", "parked", "woken", "speaking", "closed"}, request : Items]
      /\ thread \in Threads /\ process \in {"none", "up", "dead"}
      /\ scope \in [Sayers -> Generations]
      /\ saying \in [Sayers -> [left : 0..MaxParts, phrase : Items]]
      /\ stop \in [Stoppers -> [step : Steps, closer : BOOLEAN]]
      /\ said \in Int /\ said <= MaxPhrases /\ selected \in BOOLEAN
  BY <1>1 DEF TypeOK, Items, Silence
<1>5. CASE Talk
  BY <1>1, <1>4, <1>5, Talks DEF flags, player
<1>6. CASE Get \/ Woken \/ Finished
  <2>1. /\ UNCHANGED <<generation, closing, ready, player, playback, producers, stop, selected>>
        /\ worker' \in [phase : {"get", "parked", "woken", "speaking", "closed"}, request : Items]
        /\ stopRequested' \in BOOLEAN /\ thread' \in Threads
    BY <1>1, <1>4, <1>6, WorkerMoves DEF Threads
  <2>2. QED
    BY <1>1, <1>4, <2>1 DEF player, producers
<1>7. CASE Speaking
  <2>1. sounding' \in Items
    BY <1>1, <1>7, ThreadMoves DEF Silence
  <2>2. QED
    BY <1>1, <1>4, <1>7, <2>1, ThreadMoves DEF ThreadOnly, flags, producers
<1>8. ASSUME NEW p \in Stoppers, NEW closer \in BOOLEAN, BeginStop(p, closer)
      PROVE  Rest
  BY <1>1, <1>4, <1>8, Begins DEF player, producers
<1>9. ASSUME NEW p \in Stoppers,
             TakeStopLock(p) \/ Kill(p) \/ Hush(p) \/ Stopped(p) \/ Cancelled(p) \/ Goodbyes(p)
      PROVE  Rest
  <2>1. process' \in {"none", "up", "dead"} /\ mine' \in BOOLEAN /\ sounding' \in Items
    BY <1>1, <1>4, <1>9
       DEF TakeStopLock, Kill, Hush, Stopped, Cancelled, Leave, Goodbyes, player, Silence
  <2>2. QED
    BY <1>1, <1>4, <1>9, <2>1, StopMoves DEF producers
<1>10. CASE UNCHANGED vars
  BY <1>1, <1>4, <1>10 DEF vars
<1>11. QED
  BY <1>5, <1>6, <1>7, <1>8, <1>9, <1>10 DEF Next, Stopping

\* The worker lowers the flag for a phrase it lets pass, when no stop is under way.
LEMMA StepFlag ==
  ASSUME Inv, [Next]_vars
  PROVE  FlagOutlivesStop'
<1>1. FlagOutlivesStop /\ pending \in Nat /\ stopRequested \in BOOLEAN
  BY Types DEF Inv
<1>2. CASE Talk
  BY <1>1, <1>2, Talks DEF FlagOutlivesStop, flags
<1>3. CASE Get \/ Woken \/ Finished
  <2>1. pending' = pending
    BY <1>3, WorkerSteps
  <2>2. \/ stopRequested' = FALSE /\ pending = 0
        \/ UNCHANGED stopRequested
    BY <1>3, WorkerMoves
  <2>3. ASSUME pending' > 0
        PROVE  stopRequested'
    <3>1. pending > 0
      BY <1>1, <2>1, <2>3
    <3>2. UNCHANGED stopRequested
      BY <2>2, <3>1
    <3>3. QED
      BY <1>1, <3>1, <3>2 DEF FlagOutlivesStop
  <2>4. QED
    BY <2>3 DEF FlagOutlivesStop
<1>4. CASE Speaking
  BY <1>1, <1>4, ThreadMoves DEF FlagOutlivesStop, ThreadOnly, flags
<1>5. ASSUME NEW p \in Stoppers, NEW closer \in BOOLEAN, BeginStop(p, closer)
      PROVE  FlagOutlivesStop'
  BY <1>5, Begins DEF FlagOutlivesStop
<1>6. ASSUME NEW p \in Stoppers,
             TakeStopLock(p) \/ Kill(p) \/ Hush(p) \/ Stopped(p) \/ Cancelled(p) \/ Goodbyes(p)
      PROVE  FlagOutlivesStop'
  <2>1. stopRequested' = stopRequested /\ (pending' = pending \/ pending' = pending - 1)
    BY <1>6, StopMoves
  <2>2. pending' > 0 => pending > 0
    BY <1>1, <2>1
  <2>3. QED
    BY <1>1, <2>1, <2>2 DEF FlagOutlivesStop
<1>7. CASE UNCHANGED vars
  BY <1>1, <1>7 DEF FlagOutlivesStop, vars
<1>8. QED
  BY <1>2, <1>3, <1>4, <1>5, <1>6, <1>7 DEF Next, Stopping

LEMMA StepPlayback ==
  ASSUME Inv, [Next]_vars
  PROVE  PlaybackEndsWithThePhrase'
<1>1. PlaybackEndsWithThePhrase /\ playback \in BOOLEAN
  BY Types DEF Inv
<1>2. CASE Talk
  BY <1>1, <1>2, Talks DEF PlaybackEndsWithThePhrase
<1>3. CASE Get \/ Woken \/ Finished
  BY <1>1, <1>3, WorkerMoves DEF PlaybackEndsWithThePhrase
<1>4. CASE Speaking
  BY <1>1, <1>4, ThreadMoves DEF PlaybackEndsWithThePhrase
<1>5. ASSUME NEW p \in Stoppers, NEW closer \in BOOLEAN, BeginStop(p, closer)
      PROVE  PlaybackEndsWithThePhrase'
  BY <1>5, Begins DEF PlaybackEndsWithThePhrase
<1>6. ASSUME NEW p \in Stoppers,
             TakeStopLock(p) \/ Kill(p) \/ Hush(p) \/ Stopped(p) \/ Cancelled(p) \/ Goodbyes(p)
      PROVE  PlaybackEndsWithThePhrase'
  BY <1>1, <1>6, StopMoves DEF PlaybackEndsWithThePhrase
<1>7. CASE UNCHANGED vars
  BY <1>1, <1>7 DEF PlaybackEndsWithThePhrase, vars
<1>8. QED
  BY <1>2, <1>3, <1>4, <1>5, <1>6, <1>7 DEF Next, Stopping

LEMMA StepThread ==
  ASSUME Inv, [Next]_vars
  PROVE  ThreadInv'
<1>1. ThreadInv
  BY DEF Inv
<1>2. CASE Talk
  BY <1>1, <1>2, Talks DEF ThreadInv
<1>3. CASE Get \/ Woken \/ Finished
  BY <1>3, WorkerMoves DEF ThreadInv
<1>4. CASE Speaking
  BY <1>1, <1>4, ThreadMoves DEF ThreadInv, ThreadOnly
<1>5. ASSUME NEW p \in Stoppers, NEW closer \in BOOLEAN, BeginStop(p, closer)
      PROVE  ThreadInv'
  BY <1>1, <1>5, Begins DEF ThreadInv
<1>6. ASSUME NEW p \in Stoppers,
             TakeStopLock(p) \/ Kill(p) \/ Hush(p) \/ Stopped(p) \/ Cancelled(p) \/ Goodbyes(p)
      PROVE  ThreadInv'
  BY <1>1, <1>6, StopMoves DEF ThreadInv
<1>7. CASE UNCHANGED vars
  BY <1>1, <1>7 DEF ThreadInv, vars
<1>8. QED
  BY <1>2, <1>3, <1>4, <1>5, <1>6, <1>7 DEF Next, Stopping

\* A generation only ever passes, so that what was said before stays old.
LEMMA StepAge ==
  ASSUME Inv, [Next]_vars
  PROVE  AgeInv'
<1>1. /\ TypeOK /\ AgeInv /\ generation \in Nat /\ Goodbye \in Items
      /\ worker.request \in Items /\ sounding \in Items
  BY Types DEF Inv, Items
<1>2. Aged(Silence)
  BY <1>1 DEF Aged, Silence, Goodbye
<1>3. CASE Talk
  BY <1>1, <1>3, Talks DEF AgeInv, Aged, flags, player
<1>4. CASE Get \/ Woken \/ Finished
  BY <1>1, <1>4, WorkerMoves DEF AgeInv, Aged, player, producers
<1>5. CASE Speaking
  BY <1>1, <1>2, <1>5, ThreadMoves DEF AgeInv, Aged, ThreadOnly, flags, producers
<1>6. ASSUME NEW p \in Stoppers, NEW closer \in BOOLEAN, BeginStop(p, closer)
      PROVE  AgeInv'
  <2>1. /\ UNCHANGED <<worker, sounding, scope, saying>> /\ generation' = generation + 1
        /\ Len(queue') = 0
    BY <1>6, Begins DEF player, producers
  <2>2. ASSUME NEW x \in Items, Aged(x)
        PROVE  x.gen <= generation + 1 /\ x.turn = x.gen
    <3>1. x.gen \in Int
      BY <2>2 DEF Items, Phrases, Goodbye, Generations
    <3>2. QED
      BY <1>1, <2>2, <3>1 DEF Aged
  <2>3. ASSUME NEW s \in Sayers
        PROVE  scope[s] <= generation + 1 /\ saying[s].phrase \in Items /\ Aged(saying[s].phrase)
    <3>1. scope[s] \in Generations /\ saying[s].phrase \in Items
      BY <1>1 DEF TypeOK, Items, Silence
    <3>2. QED
      BY <1>1, <3>1 DEF AgeInv, Generations
  <2>4. Aged(worker.request) /\ Aged(sounding)
    BY <1>1 DEF AgeInv
  <2>5. QED
    BY <1>1, <2>1, <2>2, <2>3, <2>4 DEF AgeInv, Aged
<1>7. ASSUME NEW p \in Stoppers,
             TakeStopLock(p) \/ Kill(p) \/ Hush(p) \/ Stopped(p) \/ Cancelled(p) \/ Goodbyes(p)
      PROVE  AgeInv'
  <2>1. sounding' \in {sounding, Silence}
    BY <1>7 DEF TakeStopLock, Kill, Hush, Stopped, Cancelled, Leave, Goodbyes, player
  <2>2. QED
    BY <1>1, <1>2, <1>7, <2>1, StopMoves DEF AgeInv, Aged, producers
<1>8. CASE UNCHANGED vars
  BY <1>1, <1>8 DEF AgeInv, Aged, vars
<1>9. QED
  BY <1>3, <1>4, <1>5, <1>6, <1>7, <1>8 DEF Next, Stopping

\* Only the current phrase passes, and only while no stop is under way; a stop makes
\* everything old at once, and is over only when what was speaking has been killed.
LEMMA StepPass ==
  ASSUME Inv, [Next]_vars
  PROVE  PassInv'
<1>1. /\ TypeOK /\ PassInv /\ FlagOutlivesStop /\ ThreadInv /\ AgeInv /\ ReadyInv
      /\ generation \in Nat /\ pending \in Nat /\ ready \in BOOLEAN
      /\ stopRequested \in BOOLEAN /\ mine \in BOOLEAN /\ selected \in BOOLEAN
      /\ worker.request \in Items /\ sounding \in Items
  BY Types DEF Inv
<1>2. /\ ReadyInv' /\ pending' \in Nat
      /\ \A p \in Stoppers : stop[p].step \in {"locking", "kill", "hush", "back"} => pending > 0
  <2>1. pending' \in 0..Cardinality(Stoppers)
    BY StepReady
  <2>2. \A p \in Stoppers : stop[p].step \in {"locking", "kill", "hush", "back"} => Stops # {}
    BY DEF Stops
  <2>3. QED
    BY <1>1, <2>1, <2>2, StepReady, StopsFinite, Constants
<1>3. \A x \in Items : Aged(x) => x.gen # generation + 1
  <2>1. \A x \in Items : x.gen \in Int
    BY DEF Items, Phrases, Goodbye, Generations
  <2>2. QED
    BY <1>1, <2>1 DEF Aged
<1>4. CASE Talk
  BY <1>1, <1>4, Talks DEF PassInv, Doomed, flags, player
<1>5. CASE Get \/ Woken \/ Finished
  <2>1. UNCHANGED <<generation, pending, mine, sounding, selected, stop>>
    BY <1>5, WorkerMoves DEF player
  <2>2. \/ /\ worker'.phase = "speaking" /\ worker'.request.gen = generation
           /\ thread' = "enter" /\ pending = 0
        \/ worker'.phase \in {"get", "parked", "closed"} /\ thread' = "off"
    BY <1>5, WorkerMoves
  <2>3. /\ pending' > 0 /\ worker'.phase \in {"woken", "speaking"} => worker'.request.gen # generation'
        /\ worker'.phase = "speaking" => worker'.request.gen = generation' \/ stopRequested'
        /\ thread' # "write"
    BY <1>1, <2>1, <2>2
  <2>4. /\ pending' > 0 /\ sounding' # Silence => sounding'.gen # generation'
        /\ ~selected' /\ sounding' # Silence => sounding'.gen = generation' \/ Doomed'
        /\ (\E p \in Stoppers : stop'[p].step \in {"hush", "back"}) =>
              ~mine' /\ (selected' \/ sounding' = Silence)
    BY <1>1, <2>1 DEF PassInv, Doomed
  <2>5. QED
    BY <2>3, <2>4 DEF PassInv
<1>6. CASE Speaking
  <2>1. /\ UNCHANGED <<generation, stopRequested, pending, worker, stop, selected>>
    BY <1>6, ThreadMoves DEF ThreadOnly, flags
  <2>2. ASSUME thread # "off"
        PROVE  /\ pending > 0 => worker.request.gen # generation
               /\ worker.request.gen = generation \/ stopRequested
    BY <1>1, <2>2 DEF ThreadInv, PassInv
  <2>3. pending > 0 /\ sounding' # Silence => sounding'.gen # generation
    BY <1>1, <1>6, <2>2, ThreadMoves DEF PassInv
  <2>4. thread' = "write" /\ mine' => worker.request.gen = generation \/ Doomed
    BY <1>1, <1>6, <2>2, ThreadMoves DEF PassInv
  <2>5. ~selected /\ sounding' # Silence => sounding'.gen = generation \/ Doomed
    BY <1>1, <1>6, ThreadMoves DEF PassInv
  <2>6. ASSUME \E p \in Stoppers : stop[p].step \in {"hush", "back"}
        PROVE  ~mine' /\ (selected \/ sounding' = Silence)
    <3>1. stopRequested /\ ~mine /\ (selected \/ sounding = Silence)
      BY <1>1, <1>2, <2>6 DEF PassInv, FlagOutlivesStop
    <3>2. QED
      BY <1>1, <1>6, <3>1, ThreadMoves
  <2>7. QED
    BY <1>1, <2>1, <2>3, <2>4, <2>5, <2>6 DEF PassInv, Doomed
<1>7. ASSUME NEW p \in Stoppers, NEW closer \in BOOLEAN, BeginStop(p, closer)
      PROVE  PassInv'
  <2>1. /\ UNCHANGED <<worker, thread, mine, sounding, selected>>
        /\ generation' = generation + 1 /\ stopRequested' = TRUE
        /\ stop'[p].step \in {"kill", "locking"} /\ \A q \in Stoppers \ {p} : stop'[q] = stop[q]
    BY <1>7, Begins DEF player
  <2>2. worker.request.gen # generation + 1 /\ sounding.gen # generation + 1
    BY <1>1, <1>3 DEF AgeInv
  <2>3. Doomed'
    BY <2>1 DEF Doomed
  <2>4. ASSUME NEW q \in Stoppers, stop'[q].step \in {"hush", "back"}
        PROVE  ~mine /\ (selected \/ sounding = Silence)
    <3>1. stop[q].step \in {"hush", "back"}
      BY <2>1, <2>4
    <3>2. QED
      BY <1>1, <3>1 DEF PassInv
  <2>5. QED
    BY <2>1, <2>2, <2>3, <2>4 DEF PassInv
<1>8. ASSUME NEW p \in Stoppers, TakeStopLock(p)
      PROVE  PassInv'
  <2>1. /\ UNCHANGED <<generation, stopRequested, pending, worker, thread, mine, sounding, selected>>
        /\ stop'[p].step = "kill" /\ \A q \in Stoppers \ {p} : stop'[q] = stop[q]
    BY <1>1, <1>8, StopSteps DEF TakeStopLock, flags, player, Steps
  <2>2. Doomed'
    BY <2>1 DEF Doomed
  <2>3. QED
    BY <1>1, <2>1, <2>2 DEF PassInv
<1>9. ASSUME NEW p \in Stoppers, Kill(p)
      PROVE  PassInv'
  <2>1. /\ UNCHANGED <<generation, stopRequested, pending, worker, selected>>
        /\ ~mine' /\ sounding' \in {sounding, Silence} /\ (selected \/ sounding' = Silence)
    BY <1>9 DEF Kill, flags
  <2>2. QED
    BY <1>1, <2>1 DEF PassInv
<1>10. ASSUME NEW p \in Stoppers, Hush(p)
       PROVE  PassInv'
  <2>1. /\ UNCHANGED <<generation, stopRequested, pending, worker, mine, selected>>
        /\ stop[p].step = "hush" /\ sounding' = IF selected THEN Silence ELSE sounding
    BY <1>10 DEF Hush, flags
  <2>2. ~mine /\ (selected \/ sounding = Silence)
    BY <1>1, <2>1 DEF PassInv
  <2>3. sounding' = Silence
    BY <2>1, <2>2
  <2>4. QED
    BY <1>1, <2>1, <2>2, <2>3 DEF PassInv
<1>11. ASSUME NEW p \in Stoppers, Stopped(p) \/ Cancelled(p)
       PROVE  PassInv'
  <2>1. /\ UNCHANGED <<generation, stopRequested, thread, mine, sounding, selected>>
        /\ pending' = pending - 1 /\ pending > 0
        /\ worker'.request = worker.request
        /\ worker' = worker \/ (worker'.phase = "woken" /\ ready')
    <3>1. /\ stop[p].step \in {"back", "locking"} /\ pending' = pending - 1
          /\ UNCHANGED <<generation, stopRequested, thread, mine, sounding, selected>>
      BY <1>1, <1>11, StopEnds DEF Leave, player
    <3>2. QED
      BY <1>2, <1>11, <3>1, StopMoves
  <2>2. worker' = worker \/ (worker'.phase = "woken" /\ pending' = 0)
    BY <1>2, <2>1 DEF ReadyInv
  <2>3. /\ pending' > 0 /\ worker'.phase \in {"woken", "speaking"} => worker'.request.gen # generation
        /\ worker'.phase = "speaking" => worker'.request.gen = generation \/ stopRequested
        /\ pending' > 0 /\ sounding # Silence => sounding.gen # generation
    BY <1>1, <2>1, <2>2 DEF PassInv
  <2>4. /\ stop'[p].step \in {"idle", "goodbye"} /\ \A q \in Stoppers \ {p} : stop'[q] = stop[q]
    <3>1. PICK next \in {"idle", "goodbye"} : Step(p, next)
      BY <1>1, <1>11, StopEnds
    <3>2. QED
      BY <1>1, <3>1, StopSteps DEF Steps
  <2>5. PICK k \in Stoppers : stop[k].step \in {"kill", "hush", "back"}
                              /\ (stop[k].step = "kill" => k # p)
    BY <1>11 DEF Stopped, Cancelled, Killing
  <2>6. CASE stop[k].step = "kill"
    <3>1. Doomed'
      BY <2>4, <2>5, <2>6 DEF Doomed
    <3>2. ASSUME NEW q \in Stoppers, stop'[q].step \in {"hush", "back"}
          PROVE  ~mine /\ (selected \/ sounding = Silence)
      <4>1. stop[q].step \in {"hush", "back"}
        BY <2>4, <3>2
      <4>2. QED
        BY <1>1, <4>1 DEF PassInv
    <3>3. QED
      BY <2>1, <2>3, <3>1, <3>2 DEF PassInv
  <2>7. CASE stop[k].step \in {"hush", "back"}
    <3>1. ~mine /\ (selected \/ sounding = Silence)
      BY <1>1, <2>7 DEF PassInv
    <3>2. QED
      BY <2>1, <2>3, <3>1 DEF PassInv
  <2>8. QED
    BY <2>5, <2>6, <2>7
<1>12. ASSUME NEW p \in Stoppers, Goodbyes(p)
       PROVE  PassInv'
  <2>1. /\ UNCHANGED <<generation, stopRequested, pending, worker, thread, mine, sounding, selected>>
        /\ stop[p].step = "goodbye" /\ Step(p, "idle")
    BY <1>12 DEF Goodbyes, SayGoodbye, flags, player
  <2>2. /\ stop'[p].step = "idle" /\ \A q \in Stoppers \ {p} : stop'[q] = stop[q]
    BY <1>1, <2>1, StopSteps DEF Steps
  <2>3. \A q \in Stoppers : stop'[q].step = stop[q].step \/ (q = p /\ stop'[q].step = "idle" /\ stop[q].step = "goodbye")
    BY <2>1, <2>2
  <2>4. Doomed' <=> Doomed
    BY <2>3 DEF Doomed
  <2>5. (\E q \in Stoppers : stop'[q].step \in {"hush", "back"}) =>
           \E q \in Stoppers : stop[q].step \in {"hush", "back"}
    BY <2>3
  <2>6. QED
    BY <1>1, <2>1, <2>4, <2>5 DEF PassInv
<1>13. CASE UNCHANGED vars
  BY <1>1, <1>13 DEF PassInv, Doomed, vars
<1>14. QED
  BY <1>4, <1>5, <1>6, <1>7, <1>8, <1>9, <1>10, <1>11, <1>12, <1>13 DEF Next, Stopping

-----------------------------------------------------------------------------
(* The theorems                                                            *)

LEMMA Start ==
  ASSUME Init
  PROVE  Inv
<1>1. 0 \in Generations /\ 0 \in Nat /\ 0 <= QueueSize /\ 0 <= MaxPhrases /\ 0 \in 0..MaxParts
  BY Constants DEF Generations
<1>2. Goodbye = Silence /\ Goodbye.gen = -1 /\ Goodbye.turn = -1
  BY DEF Silence, Goodbye
<1>3. queue \in Seq(Items) /\ Len(queue) = 0
  BY DEF Init
<1>4. selected \in BOOLEAN
  BY SpeakerAssumption DEF Init
<1>5. TypeOK
  <2>1. /\ worker \in [phase : {"get", "parked", "woken", "speaking", "closed"},
                       request : Phrases \cup {Goodbye}]
        /\ scope \in [Sayers -> Generations]
        /\ saying \in [Sayers -> [left : 0..MaxParts, phrase : Phrases \cup {Silence}]]
        /\ stop \in [Stoppers -> [step : Steps, closer : BOOLEAN]]
    BY <1>1 DEF Init, NotSaying, Steps
  <2>2. 0 \in 0..Cardinality(Stoppers)
    BY Constants
  <2>3. /\ queue \in Seq(Phrases \cup {Goodbye}) /\ Len(queue) <= QueueSize
        /\ sounding \in Phrases \cup {Silence}
    BY <1>1, <1>3 DEF Init, Items
  <2>4. {stopRequested, closing, ready, mine, playback} \subseteq BOOLEAN
    BY DEF Init
  <2>5. /\ generation \in Generations /\ pending \in 0..Cardinality(Stoppers)
        /\ unfinished \in Nat /\ said \in Int /\ said <= MaxPhrases
    BY <1>1, <2>2 DEF Init
  <2>6. thread \in Threads /\ process \in {"none", "up", "dead"}
    BY DEF Init, Threads
  <2>7. QED
    BY <1>4, <2>1, <2>3, <2>4, <2>5, <2>6 DEF TypeOK
<1>6. FlagOutlivesStop /\ PlaybackEndsWithThePhrase /\ ThreadInv
  BY DEF Init, FlagOutlivesStop, PlaybackEndsWithThePhrase, ThreadInv
<1>7. JoinCountsTheQueue
  BY <1>3 DEF Init, JoinCountsTheQueue
<1>8. ReadyInv
  <2>1. Stops = {}
    BY DEF Init, Stops
  <2>2. QED
    BY <2>1, FS_EmptySet DEF Init, ReadyInv
<1>9. AgeInv
  <2>1. Aged(Goodbye)
    BY <1>2 DEF Init, Aged
  <2>2. QED
    BY <1>2, <1>3, <2>1 DEF Init, AgeInv, NotSaying
<1>10. PassInv
  BY DEF Init, PassInv
<1>11. QED
  BY <1>5, <1>6, <1>7, <1>8, <1>9, <1>10 DEF Inv

\* The flags and the counter of the queue are true of the worker, its thread and the stops
\* under way, whatever producers and stops do meanwhile (_run, _speak_sync, say, stop, close).
THEOREM VoiceIsConsistent == Spec => []Inv
<1>1. Init => Inv
  BY Start
<1>2. Inv /\ [Next]_vars => Inv'
  BY StepTypes, StepFlag, StepJoin, StepPlayback, StepReady, StepThread, StepAge, StepPass DEF Inv
<1>3. QED
  BY <1>1, <1>2, PTL DEF Spec

\* "Stale requests cannot play": once every stop has returned, the resident voice speaks
\* nothing of an earlier turn, though the thread goes on by itself between its checks of
\* the flags (_speak_sync, _request_stop).
THEOREM StoppedSpeechIsSilent == Spec => []StaleRequestsCannotPlay
<1>1. Inv => StaleRequestsCannotPlay
  <2>1. SUFFICES ASSUME Inv, ~selected, pending = 0, sounding # Silence
                 PROVE  sounding.turn = generation
    BY DEF StaleRequestsCannotPlay
  <2>2. Stops = {}
    BY <2>1, StopsFinite
  <2>3. ~Doomed
    BY <2>2 DEF Doomed, Stops
  <2>4. QED
    BY <2>1, <2>3 DEF Inv, PassInv, AgeInv, Aged
<1>2. QED
  BY <1>1, VoiceIsConsistent, PTL

\* A stop whose thread comes late never cuts off a phrase said after the last of the stops
\* (stop, _terminate_tts_process).
THEOREM StopsSpareTheNext == Spec => StopsSpareNewSpeech
<1>1. Inv /\ [Next]_vars =>
        [(\E p \in Stoppers : stop[p].step = "kill" /\ stop'[p].step = "hush")
           => sounding = Silence \/ sounding.gen # generation]_vars
  <2>1. SUFFICES ASSUME Inv, NEW p \in Stoppers, stop[p].step = "kill"
                 PROVE  sounding = Silence \/ sounding.gen # generation
    OBVIOUS
  <2>2. p \in Stops
    BY <2>1 DEF Stops
  <2>3. pending > 0
    BY <2>1, <2>2, StopsFinite
  <2>4. QED
    BY <2>1, <2>3 DEF Inv, PassInv
<1>2. QED
  BY <1>1, VoiceIsConsistent, PTL DEF Spec, StopsSpareNewSpeech
==============================================================================
