---------------------------- MODULE DeliveryProofs ----------------------------
(***************************************************************************)
(* Theorems about how what the user says and types reaches the core:       *)
(* Delivery, and the two interfaces that hand it over (Interface).         *)
(*                                                                         *)
(* For any inputs, any size of the command queue and any bounds, Inv (in   *)
(* Delivery) is inductive: a ticket is in one place at a time, so that a   *)
(* claim takes it from the guard and from the queue together; whoever is   *)
(* on the way still has a ticket to come; and a text that found the loop   *)
(* free stays first in the queue, before a worker that waits, so that no   *)
(* prompt can come between.                                                *)
(*                                                                         *)
(* For either interface and any bounds, InterfaceInv is inductive: what is *)
(* pushed to a window follows what it has (ReadersInv), and a call carries *)
(* to the core the question that its author saw (CallsInv).                *)
(***************************************************************************)
EXTENDS Delivery, Interface, TLAPS, SequenceTheorems, FiniteSetTheorems

LEMMA Records ==
  NoContext \in Contexts /\ NoTurn \in Turns /\ NoText \in Texts /\ AtSlot \in Voices
<1>1. NoContext \in Contexts /\ 0 \in 0..MaxTurns /\ 0 \in 0..MaxEpoch
  BY DeliveryAssumption DEF NoContext, Contexts
<1>2. NoTurn \in Turns
  BY <1>1 DEF NoTurn, Turns
<1>3. NoText \in Texts
  BY <1>1, <1>2 DEF NoText, Texts, Kinds, TextPhases
<1>4. AtSlot \in Voices
  BY <1>1, <1>2 DEF AtSlot, Voices, VoicePhases
<1>5. QED
  BY <1>1, <1>2, <1>3, <1>4

\* What the steps of an input change of it.
LEMMA TextEdits ==
  ASSUME NEW t \in Texts, NEW b \in BOOLEAN, NEW p \in TextPhases
  PROVE  /\ [t EXCEPT !.ready = b] \in Texts
         /\ [t EXCEPT !.phase = p] \in Texts
         /\ [t EXCEPT !.phase = p, !.go = b] \in Texts
         /\ \A w \in {"no", "blocked", "late"} : [t EXCEPT !.cancelled = b, !.told = w] \in Texts
BY DEF Texts

LEMMA NewTexts ==
  ASSUME NEW t \in Turns, NEW k \in Kinds, NEW c \in Contexts
  PROVE  /\ [NoText EXCEPT !.phase = "stopping", !.kind = k, !.seen = c] \in Texts
         /\ [NoText EXCEPT !.phase = "putting", !.turn = t] \in Texts
         /\ [NoText EXCEPT !.phase = "gone"] \in Texts
BY Records DEF Texts, TextPhases

LEMMA VoiceEdits ==
  ASSUME NEW v \in Voices, NEW b \in BOOLEAN, NEW t \in Turns, NEW e \in 0..MaxEpoch
  PROVE  /\ [v EXCEPT !.ready = b] \in Voices
         /\ [v EXCEPT !.switched = b] \in Voices
         /\ [v EXCEPT !.phase = "heard"] \in Voices
         /\ [AtSlot EXCEPT !.phase = "recording", !.epoch = e, !.confirm = b] \in Voices
         /\ [AtSlot EXCEPT !.phase = "putting", !.turn = t] \in Voices
         /\ [AtSlot EXCEPT !.phase = "gone"] \in Voices
BY Records DEF Voices, VoicePhases

LEMMA WorkerEdits ==
  ASSUME NEW w \in Workers, NEW p \in WorkerPhases, NEW t \in Turns, NEW c \in Contexts
  PROVE  /\ [w EXCEPT !.phase = p] \in Workers
         /\ [phase |-> p, turn |-> t, met |-> c] \in Workers
BY DEF Workers

LEMMA QueueTail ==
  ASSUME TypeOK, queue # <<>>, queue' = Tail(queue)
  PROVE  /\ Head(queue) = queue[1] /\ Head(queue) \in Turns /\ Len(queue) \in Nat /\ Len(queue) >= 1
         /\ queue' \in Seq(Turns) /\ Len(queue') = Len(queue) - 1
         /\ \A i \in 1..Len(queue') : queue'[i] = queue[i + 1]
<1>1. queue \in Seq(Turns)
  BY DEF TypeOK
<1>2. Len(queue) \in Nat \ {0}
  BY <1>1, EmptySeq
<1>3. QED
  BY <1>1, <1>2, HeadTailProperties

LEMMA QueueAppend ==
  ASSUME TypeOK, NEW turn \in Turns, queue' = Append(queue, turn)
  PROVE  /\ queue' \in Seq(Turns) /\ Len(queue) \in Nat /\ Len(queue') = Len(queue) + 1
         /\ queue'[Len(queue) + 1] = turn
         /\ \A i \in 1..Len(queue) : queue'[i] = queue[i]
BY AppendProperties DEF TypeOK

-----------------------------------------------------------------------------
(* What the steps that several actions share do                            *)

LEMMA SendersFinite ==
  ASSUME Inv
  PROVE  /\ IsFiniteSet(Senders) /\ Cardinality(Senders) \in Nat
         /\ Senders # {} => Cardinality(Senders) >= 1
<1>1. IsFiniteSet(Senders)
  BY DeliveryAssumption, FS_Subset DEF Senders
<1>2. QED
  BY <1>1, FS_CardinalityType, FS_EmptySet

\* A ticket is left for whoever is on the way to one.
LEMMA TicketIsLeft ==
  ASSUME Inv, Senders # {} \/ voice.phase \in {"recording", "heard"}
  PROVE  issued \in Nat /\ issued + 1 \in 0..MaxTurns
<1> DEFINE v == IF voice.phase \in {"recording", "heard"} THEN 1 ELSE 0
<1>1. issued \in 0..MaxTurns /\ MaxTurns \in Nat
  BY DeliveryAssumption DEF Inv, TypeOK
<1>2. issued + (Cardinality(Senders) + v) <= MaxTurns
  BY DEF Inv, BoundInv, Underway
<1>3. Cardinality(Senders) \in Nat /\ v \in {0, 1} /\ Cardinality(Senders) + v >= 1
  BY SendersFinite
<1> HIDE DEF v
<1>4. QED
  BY <1>1, <1>2, <1>3

\* The turn that Deliver makes of an input.
TurnOf(s) ==
  [NoTurn EXCEPT !.ticket = issued + 1, !.seen = text[s].seen,
                 !.direct = (worker.phase = "waiting" /\ queue = <<>>), !.told = text[s].told]

LEMMA DeliveredTurn ==
  ASSUME Inv, NEW s \in Senders
  PROVE  /\ TurnOf(s) \in Turns
         /\ TurnOf(s).ticket = issued + 1 /\ TurnOf(s).source = "text"
         /\ TurnOf(s).seen = text[s].seen /\ TurnOf(s).told = text[s].told
         /\ TurnOf(s).direct = (worker.phase = "waiting" /\ queue = <<>>)
         /\ TurnOf(s).switched = FALSE
<1>1. issued + 1 \in 0..MaxTurns
  BY TicketIsLeft
<1>2. text[s] \in Texts
  BY DEF Inv, TypeOK, Senders
<1>3. text[s].seen \in Contexts /\ text[s].told \in {"no", "blocked", "late"}
  BY <1>2 DEF Texts
<1>4. QED
  BY <1>1, <1>3 DEF TurnOf, NoTurn, Turns

LEMMA DeliverCases ==
  ASSUME NEW s, Deliver(s)
  PROVE  \/ /\ ~Confirming /\ SameContext(text[s].seen)
            /\ Issue(TurnOf(s))
            /\ text' = [text EXCEPT ![s] = IF HasRoom THEN NoText
                          ELSE [NoText EXCEPT !.phase = "putting", !.turn = TurnOf(s)]]
         \/ /\ text' = [text EXCEPT ![s] = NoText]
            /\ UNCHANGED <<queue, idle, issued, pending>>
BY DEF Deliver, TurnOf

\* The turn that EnqueueSpeech makes of an utterance.
TurnOfSpeech ==
  [NoTurn EXCEPT !.ticket = issued + 1, !.source = "voice", !.seen = context,
                 !.switched = voice.switched]

LEMMA SpokenTurn ==
  ASSUME Inv, EnqueueSpeech
  PROVE  /\ TurnOfSpeech \in Turns
         /\ TurnOfSpeech.ticket = issued + 1 /\ TurnOfSpeech.source = "voice"
         /\ TurnOfSpeech.told = "no" /\ TurnOfSpeech.direct = FALSE
         /\ TurnOfSpeech.switched = voice.switched
         /\ Issue(TurnOfSpeech)
         /\ voice' = IF HasRoom THEN AtSlot
                     ELSE [AtSlot EXCEPT !.phase = "putting", !.turn = TurnOfSpeech]
<1>1. issued + 1 \in 0..MaxTurns
  BY TicketIsLeft DEF EnqueueSpeech
<1>2. voice.switched \in BOOLEAN /\ context \in Contexts
  BY DEF Inv, TypeOK, Voices
<1>3. QED
  BY <1>1, <1>2 DEF EnqueueSpeech, TurnOfSpeech, NoTurn, Turns

LEMMA IssueTypes ==
  ASSUME Inv, NEW turn \in Turns, turn.ticket = issued + 1, issued + 1 \in 0..MaxTurns,
         issued \in Nat, Issue(turn)
  PROVE  /\ idle' \in BOOLEAN /\ issued' \in 0..MaxTurns /\ pending' \subseteq 1..MaxTurns
         /\ queue' \in Seq(Turns) /\ Len(queue') <= QueueSize
<1>1. TypeOK /\ MaxTurns \in Nat /\ QueueSize \in Nat
  BY DeliveryAssumption DEF Inv
<1>2. issued + 1 \in 1..MaxTurns
  BY <1>1
<1>3. pending' \subseteq 1..MaxTurns
  BY <1>1, <1>2 DEF Issue, TypeOK
<1>4. idle' \in BOOLEAN /\ issued' \in 0..MaxTurns
  BY DEF Issue, MarkBusy
<1>5. CASE HasRoom
  <2>1. Len(queue') = Len(queue) + 1 /\ Len(queue) \in Nat /\ queue' \in Seq(Turns)
    BY <1>1, <1>5, QueueAppend DEF Issue
  <2>2. QED
    BY <1>1, <1>3, <1>4, <1>5, <2>1 DEF HasRoom
<1>6. CASE ~HasRoom
  BY <1>1, <1>3, <1>4, <1>6 DEF Issue, TypeOK
<1>7. QED
  BY <1>5, <1>6

LEMMA StartTypes ==
  ASSUME TypeOK, queue # <<>>, StartHead
  PROVE  /\ idle' \in BOOLEAN /\ worker' \in Workers /\ pending' \subseteq 1..MaxTurns
         /\ queue' \in Seq(Turns) /\ Len(queue') <= QueueSize
<1>1. /\ Head(queue) \in Turns /\ Len(queue) \in Nat
      /\ queue' \in Seq(Turns) /\ Len(queue') = Len(queue) - 1
  BY QueueTail DEF StartHead
<1>2. worker' \in Workers
  BY <1>1 DEF StartHead, TypeOK, Workers, WorkerPhases
<1>3. Len(queue') <= QueueSize
  BY <1>1, DeliveryAssumption DEF TypeOK
<1>4. pending' \subseteq 1..MaxTurns /\ idle' \in BOOLEAN
  BY DEF StartHead, MarkBusy, Claim, TypeOK
<1>5. QED
  BY <1>1, <1>2, <1>3, <1>4

\* A text that the senders' array gets.
LEMMA TextSet ==
  ASSUME TypeOK, NEW s \in Submitters, NEW t \in Texts
  PROVE  [text EXCEPT ![s] = t] \in [Submitters -> Texts]
BY DEF TypeOK

LEMMA WakeTypes ==
  ASSUME TypeOK, WakeAll
  PROVE  text' \in [Submitters -> Texts] /\ voice' \in Voices
<1>1. ASSUME NEW s \in Submitters
      PROVE  [text[s] EXCEPT !.ready = @ \/ text[s].phase = "waiting"] \in Texts
  BY DEF TypeOK, Texts
<1>2. voice' \in Voices
  BY DEF TypeOK, WakeAll, Voices
<1>3. QED
  BY <1>1, <1>2 DEF WakeAll

LEMMA TakenOffTypes ==
  ASSUME TypeOK, NEW u \in Submitters
  PROVE  TakenOff(u) \in Texts
<1> DEFINE w == IF text[u].phase = "waiting" THEN "blocked" ELSE "late"
<1>1. text[u] \in Texts /\ w \in {"no", "blocked", "late"}
  BY DEF TypeOK
<1>2. TakenOff(u) = [text[u] EXCEPT !.cancelled = TRUE, !.told = w]
  BY DEF TakenOff
<1> HIDE DEF w
<1>3. QED
  BY <1>1, <1>2 DEF Texts

LEMMA DeliverTypes ==
  ASSUME Inv, NEW s \in Senders, Deliver(s)
  PROVE  /\ idle' \in BOOLEAN /\ issued' \in 0..MaxTurns /\ pending' \subseteq 1..MaxTurns
         /\ queue' \in Seq(Turns) /\ Len(queue') <= QueueSize
         /\ text' \in [Submitters -> Texts]
<1>1. s \in Submitters /\ TypeOK
  BY DEF Senders, Inv
<1>2. TurnOf(s) \in Turns /\ TurnOf(s).ticket = issued + 1
  BY DeliveredTurn
<1>3. issued \in Nat /\ issued + 1 \in 0..MaxTurns
  BY TicketIsLeft
<1>4. ASSUME Issue(TurnOf(s)),
             text' = [text EXCEPT ![s] = IF HasRoom THEN NoText
                        ELSE [NoText EXCEPT !.phase = "putting", !.turn = TurnOf(s)]]
      PROVE  /\ idle' \in BOOLEAN /\ issued' \in 0..MaxTurns /\ pending' \subseteq 1..MaxTurns
             /\ queue' \in Seq(Turns) /\ Len(queue') <= QueueSize
             /\ text' \in [Submitters -> Texts]
  <2>1. [NoText EXCEPT !.phase = "putting", !.turn = TurnOf(s)] \in Texts /\ NoText \in Texts
    BY <1>2, Records, NewTexts DEF Kinds
  <2>2. text' \in [Submitters -> Texts]
    BY <1>1, <1>4, <2>1 DEF TypeOK
  <2>3. QED
    BY <1>2, <1>3, <1>4, <2>2, IssueTypes
<1>5. CASE text' = [text EXCEPT ![s] = NoText] /\ UNCHANGED <<queue, idle, issued, pending>>
  BY <1>1, <1>5, Records, TextSet DEF TypeOK
<1>6. QED
  BY <1>4, <1>5, DeliverCases

-----------------------------------------------------------------------------
(* Every variable keeps its type                                           *)

LEMMA StepTypes ==
  ASSUME Inv, [Next]_vars
  PROVE  TypeOK'
<1> USE DEF Inv
<1> SUFFICES ASSUME TypeOK PROVE TypeOK'
  OBVIOUS
<1>1. CASE TakeTurn
  BY <1>1, StartTypes DEF TypeOK, TakeTurn
<1>2. CASE FinishTurn
  <2>1. text' \in [Submitters -> Texts] /\ voice' \in Voices
    BY <1>2, WakeTypes DEF FinishTurn
  <2>2. CASE queue # <<>> /\ StartHead
    BY <1>2, <2>1, <2>2, StartTypes DEF TypeOK, FinishTurn
  <2>3. CASE idle' = TRUE /\ worker' = [worker EXCEPT !.phase = "waiting"]
             /\ UNCHANGED <<queue, pending>>
    <3>1. worker' \in Workers
      BY <2>3, WorkerEdits DEF TypeOK, WorkerPhases, Workers
    <3>2. QED
      BY <1>2, <2>1, <2>3, <3>1 DEF TypeOK, FinishTurn
  <2>4. QED
    BY <1>2, <2>2, <2>3 DEF FinishTurn
<1>3. CASE ChangeContext
  <2>1. PICK q \in {context.question, 0, prompts + 1}, p \in {context.proposal, 0, prompts + 1} :
          /\ context' = [question |-> q, proposal |-> p]
          /\ prompts' = IF prompts + 1 \in {q, p} THEN prompts + 1 ELSE prompts
          /\ prompts' <= MaxPrompts
    BY <1>3 DEF ChangeContext
  <2>2. prompts \in Nat /\ MaxPrompts \in Nat /\ prompts <= MaxPrompts
    BY DeliveryAssumption DEF TypeOK
  <2>3. context.question \in 0..MaxPrompts /\ context.proposal \in 0..MaxPrompts
    BY DEF TypeOK, Contexts
  <2>4. prompts' \in 0..MaxPrompts /\ q \in 0..MaxPrompts /\ p \in 0..MaxPrompts
    BY <2>1, <2>2, <2>3
  <2>5. context' \in Contexts
    BY <2>1, <2>4 DEF Contexts
  <2>6. QED
    BY <1>3, <2>4, <2>5 DEF TypeOK, ChangeContext
<1>4. ASSUME \E p \in WorkerPhases : worker' = [worker EXCEPT !.phase = p]
      PROVE  worker' \in Workers
  BY <1>4, WorkerEdits DEF TypeOK, Workers
<1>5. CASE StartChat \/ EndChat \/ UserAnswered
  <2>1. worker' \in Workers
    BY <1>4, <1>5 DEF StartChat, EndChat, UserAnswered, WorkerPhases
  <2>2. QED
    BY <1>5, <2>1 DEF TypeOK, StartChat, EndChat, UserAnswered
<1>6. CASE AskUser
  <2>1. worker' \in Workers
    BY <1>4, <1>6 DEF AskUser, WorkerPhases
  <2>2. text' \in [Submitters -> Texts] /\ voice' \in Voices
    BY <1>6, WakeTypes DEF AskUser
  <2>3. QED
    BY <1>6, <2>1, <2>2 DEF TypeOK, AskUser
<1>7. ASSUME NEW d \in BOOLEAN, Interrupt(d)
      PROVE  worker' \in Workers /\ context' \in Contexts
  <2>1. worker' \in Workers
    BY <1>4, <1>7 DEF Interrupt, WorkerPhases, TypeOK
  <2>2. [context EXCEPT !.proposal = 0] \in Contexts
    BY DeliveryAssumption DEF TypeOK, Contexts
  <2>3. QED
    BY <1>7, <2>1, <2>2 DEF Interrupt, TypeOK
<1>8. ASSUME NEW s \in Submitters, NEW k \in Kinds, TypeText(s, k)
      PROVE  TypeOK'
  <2>1. [NoText EXCEPT !.phase = "stopping", !.kind = k, !.seen = context] \in Texts
    BY Records, NewTexts DEF TypeOK
  <2>2. text' \in [Submitters -> Texts]
    BY <1>8, <2>1, TextSet DEF TypeText
  <2>3. worker' \in Workers /\ context' \in Contexts
    BY <1>7, <1>8 DEF TypeText
  <2>4. QED
    BY <1>8, <2>2, <2>3 DEF TypeOK, TypeText
<1>9. ASSUME NEW s \in Submitters, SpeechStopped(s)
      PROVE  TypeOK'
  <2>1. s \in Senders
    BY <1>9 DEF SpeechStopped, Senders
  <2>2. \A u \in Submitters : TakenOff(u) \in Texts
    BY TakenOffTypes
  <2>3. NoText \in Texts /\ [text[s] EXCEPT !.phase = "waiting"] \in Texts
    BY Records, TextEdits DEF TypeOK, TextPhases, Kinds
  <2>4. CASE Deliver(s) /\ UNCHANGED slot
    BY <1>9, <2>1, <2>4, DeliverTypes DEF SpeechStopped, TypeOK
  <2>5. CASE ~(Deliver(s) /\ UNCHANGED slot)
    <3>1. /\ UNCHANGED <<queue, idle, issued, pending>>
          /\ slot' \in {slot, s}
          /\ \/ text' = [text EXCEPT ![s] = NoText]
             \/ text' = [text EXCEPT ![s].phase = "waiting"]
             \/ slot \in Submitters /\ text' = [text EXCEPT ![s] = NoText, ![slot] = TakenOff(slot)]
      BY <1>9, <2>5 DEF SpeechStopped, TypeOK
    <3>2. text' \in [Submitters -> Texts]
      BY <2>2, <2>3, <3>1 DEF TypeOK
    <3>3. QED
      BY <1>9, <3>1, <3>2 DEF SpeechStopped, TypeOK
  <2>6. QED
    BY <1>9, <2>4, <2>5 DEF SpeechStopped
<1>10. ASSUME NEW s \in Submitters, Woken(s)
       PROVE  TypeOK'
  <2>1. [text[s] EXCEPT !.phase = "leaving", !.go = Proceeds(s)] \in Texts
    BY TextEdits DEF TypeOK, TextPhases, Proceeds
  <2>2. text' = [text EXCEPT ![s] = [text[s] EXCEPT !.phase = "leaving", !.go = Proceeds(s)]]
    BY <1>10 DEF Woken, TypeOK
  <2>3. text' \in [Submitters -> Texts]
    BY <2>1, <2>2, TextSet
  <2>4. QED
    BY <1>10, <2>3 DEF Woken, TypeOK
<1>11. ASSUME NEW s \in Submitters, LeaveWaiting(s)
       PROVE  TypeOK'
  <2>1. s \in Senders
    BY <1>11 DEF LeaveWaiting, Senders
  <2>2. CASE Deliver(s)
    BY <1>11, <2>1, <2>2, DeliverTypes DEF LeaveWaiting, FreeSlot, TypeOK
  <2>3. CASE text' = [text EXCEPT ![s] = NoText] /\ UNCHANGED <<queue, idle, issued, pending>>
    BY <1>11, <2>3, Records, TextSet DEF LeaveWaiting, FreeSlot, TypeOK
  <2>4. QED
    BY <1>11, <2>2, <2>3 DEF LeaveWaiting
<1>12. ASSUME NEW s \in Submitters, PutText(s)
       PROVE  TypeOK'
  <2>1. text[s].turn \in Turns
    BY DEF TypeOK, Texts
  <2>2. queue' \in Seq(Turns) /\ Len(queue') <= QueueSize
    BY <1>12, <2>1, QueueAppend, DeliveryAssumption DEF PutText, HasRoom
  <2>3. text' \in [Submitters -> Texts]
    BY <1>12, Records, TextSet DEF PutText
  <2>4. QED
    BY <1>12, <2>2, <2>3 DEF PutText, TypeOK
<1>13. CASE StopButton
  <2>1. \A u \in Submitters : TakenOff(u) \in Texts
    BY TakenOffTypes
  <2>2. text' \in [Submitters -> Texts]
    BY <1>13, <2>1 DEF StopButton, CancelWaiting, TypeOK
  <2>3. worker' \in Workers /\ context' \in Contexts
    BY <1>7, <1>13 DEF StopButton
  <2>4. QED
    BY <1>13, <2>2, <2>3 DEF TypeOK, StopButton
<1>14. CASE PauseButton
  <2>1. worker' \in Workers /\ context' \in Contexts
    BY <1>7, <1>14 DEF PauseButton
  <2>2. QED
    BY <1>14, <2>1 DEF TypeOK, PauseButton
<1>15. CASE StartListening \/ NothingHeard \/ Heard
  <2>1. Confirming \in BOOLEAN /\ NoTurn \in Turns
    BY Records DEF Confirming
  <2>2. voice' \in {AtSlot, [AtSlot EXCEPT !.phase = "recording", !.epoch = epoch, !.confirm = Confirming],
                     [voice EXCEPT !.phase = "heard"]}
    BY <1>15 DEF StartListening, NothingHeard, Heard
  <2>3. voice \in Voices /\ epoch \in 0..MaxEpoch
    BY DEF TypeOK
  <2>4. [AtSlot EXCEPT !.phase = "recording", !.epoch = epoch, !.confirm = Confirming] \in Voices
    BY <2>1, <2>3, Records DEF Voices, VoicePhases
  <2>5. [voice EXCEPT !.phase = "heard"] \in Voices
    BY <2>3 DEF Voices, VoicePhases
  <2>6. QED
    BY <1>15, <2>2, <2>4, <2>5, Records DEF TypeOK, StartListening, NothingHeard, Heard
<1>16. CASE EnqueueSpeech
  <2>1. issued \in Nat /\ issued + 1 \in 0..MaxTurns
    BY <1>16, TicketIsLeft DEF EnqueueSpeech
  <2>2. [AtSlot EXCEPT !.phase = "putting", !.turn = TurnOfSpeech] \in Voices
    BY <1>16, SpokenTurn, VoiceEdits, DeliveryAssumption DEF TypeOK
  <2>3. voice' \in Voices
    BY <1>16, <2>2, SpokenTurn, Records
  <2>4. QED
    BY <1>16, <2>1, <2>3, SpokenTurn, IssueTypes DEF EnqueueSpeech, TypeOK
<1>17. CASE PutVoice
  <2>1. voice.turn \in Turns
    BY DEF TypeOK, Voices
  <2>2. queue' \in Seq(Turns) /\ Len(queue') <= QueueSize
    BY <1>17, <2>1, QueueAppend, DeliveryAssumption DEF PutVoice, HasRoom
  <2>3. QED
    BY <1>17, <2>2, Records DEF PutVoice, TypeOK
<1>18. ASSUME NEW on \in BOOLEAN, Microphone(on)
       PROVE  TypeOK'
  <2>1. voice' \in Voices
    BY <1>18, Records, VoiceEdits DEF Microphone, TypeOK, Voices
  <2>2. QED
    BY <1>18, <2>1, DeliveryAssumption DEF Microphone, TypeOK
<1>19. CASE Shutdown
  <2>1. worker' \in Workers
    BY <1>4, <1>19 DEF Shutdown, WorkerPhases
  <2>2. [NoText EXCEPT !.phase = "gone"] \in Texts
    BY Records, NewTexts DEF Kinds
  <2>3. ASSUME NEW s \in Submitters
        PROVE  [text[s] EXCEPT !.ready = @ \/ text[s].phase = "waiting"] \in Texts
    BY DEF TypeOK, Texts
  <2>4. text' \in [Submitters -> Texts]
    BY <1>19, <2>2, <2>3 DEF Shutdown
  <2>5. voice' \in Voices
    BY <1>19, Records, VoiceEdits, DeliveryAssumption DEF Shutdown, TypeOK
  <2>6. QED
    BY <1>19, <2>1, <2>4, <2>5 DEF Shutdown, TypeOK
<1>20. CASE Close
  <2>1. [NoText EXCEPT !.phase = "gone"] \in Texts
    BY Records, NewTexts DEF Kinds
  <2>2. QED
    BY <1>20, <2>1 DEF Close, TypeOK
<1>21. CASE UNCHANGED vars
  BY <1>21 DEF vars, TypeOK
<1>22. QED
  BY <1>1, <1>2, <1>3, <1>5, <1>6, <1>8, <1>9, <1>10, <1>11, <1>12, <1>13, <1>14, <1>15, <1>16,
     <1>17, <1>18, <1>19, <1>20, <1>21 DEF Next, Text

-----------------------------------------------------------------------------
(* The tickets                                                             *)

\* The first half of TicketsAccountedFor; the second follows from TicketsOnce and from
\* CapacityIsEnough.
Known == running => pending = Accepted

LEMMA TicketFacts ==
  ASSUME Inv
  PROVE  /\ Len(queue) \in Nat /\ issued \in Nat
         /\ TicketsOnce /\ Known
         /\ Accepted \subseteq 1..issued /\ worker.turn.ticket \in 0..issued
         /\ worker.turn.ticket \notin Accepted
         /\ \A i \in 1..Len(queue) : queue[i].ticket \in QueuedTickets
         /\ \A s \in Putting : text[s].turn.ticket \in PutTickets
<1>1. Len(queue) \in Nat /\ issued \in Nat /\ TicketsOnce /\ Known
  BY DEF Inv, TypeOK, TicketsAccountedFor, Known
<1>2. QED
  BY <1>1 DEF TicketsOnce, QueuedTickets, PutTickets

\* Blocked puts may be given up; nothing else happens to the tickets.
LEMMA TicketsFewer ==
  ASSUME Inv, UNCHANGED <<queue, issued>>, worker'.turn = worker.turn,
         Putting' \subseteq Putting, \A s \in Putting' : text'[s].turn = text[s].turn,
         VoiceTickets' \subseteq VoiceTickets
  PROVE  TicketsOnce'
<1>1. QueuedTickets' = QueuedTickets /\ PutTickets' \subseteq PutTickets
  BY DEF QueuedTickets, PutTickets
<1>2. Accepted' \subseteq Accepted
  BY <1>1 DEF Accepted
<1>3. QED
  BY <1>1, <1>2 DEF Inv, TicketsOnce

LEMMA TicketsStand ==
  ASSUME Inv, UNCHANGED <<queue, issued, pending>>, running' \in BOOLEAN, running' => running,
         worker'.turn = worker.turn,
         Putting' = Putting, \A s \in Putting : text'[s].turn = text[s].turn,
         VoiceTickets' = VoiceTickets
  PROVE  TicketsOnce' /\ Known'
<1>1. QueuedTickets' = QueuedTickets /\ PutTickets' = PutTickets
  BY DEF QueuedTickets, PutTickets
<1>2. Accepted' = Accepted
  BY <1>1 DEF Accepted
<1>3. QED
  BY <1>2, TicketsFewer, TicketFacts DEF Known

\* The claim takes the ticket from the guard and from the queue together.
LEMMA TicketsStart ==
  ASSUME Inv, queue # <<>>, StartHead, UNCHANGED <<running, issued>>,
         Putting' = Putting, \A s \in Putting : text'[s].turn = text[s].turn,
         VoiceTickets' = VoiceTickets
  PROVE  TicketsOnce' /\ Known'
<1>1. /\ Head(queue) = queue[1] /\ Len(queue) \in Nat /\ Len(queue) >= 1
      /\ Len(queue') = Len(queue) - 1
      /\ \A i \in 1..Len(queue') : queue'[i] = queue[i + 1]
  BY QueueTail DEF StartHead, Inv
<1>2. \A i, j \in 1..Len(queue) : queue[i].ticket = queue[j].ticket => i = j
  BY TicketFacts DEF TicketsOnce
<1>3. \A i \in 1..Len(queue') : i + 1 \in 1..Len(queue)
  BY <1>1
<1>4. QueuedTickets' = QueuedTickets \ {Head(queue).ticket}
  <2>1. ASSUME NEW i \in 1..Len(queue')
        PROVE  queue'[i].ticket \in QueuedTickets \ {Head(queue).ticket}
    BY <1>1, <1>2, <1>3 DEF QueuedTickets
  <2>2. ASSUME NEW i \in 1..Len(queue), queue[i].ticket # Head(queue).ticket
        PROVE  queue[i].ticket \in QueuedTickets'
    <3>1. i - 1 \in 1..Len(queue') /\ queue'[i - 1] = queue[(i - 1) + 1] /\ (i - 1) + 1 = i
      BY <1>1, <2>2
    <3>2. QED
      BY <3>1 DEF QueuedTickets
  <2>3. QED
    BY <2>1, <2>2 DEF QueuedTickets
<1>5. PutTickets' = PutTickets
  BY DEF PutTickets
<1>6. Head(queue).ticket \in QueuedTickets
  BY <1>1 DEF QueuedTickets
<1>7. Accepted' = Accepted \ {Head(queue).ticket}
  BY <1>4, <1>5, <1>6, TicketFacts DEF Accepted, TicketsOnce
<1>8. worker'.turn = Head(queue) /\ pending' = pending \ {Head(queue).ticket}
  BY DEF StartHead, Claim
<1>9. \A i, j \in 1..Len(queue') : queue'[i].ticket = queue'[j].ticket => i = j
  <2>1. SUFFICES ASSUME NEW i \in 1..Len(queue'), NEW j \in 1..Len(queue'),
                        queue'[i].ticket = queue'[j].ticket
                 PROVE  i = j
    OBVIOUS
  <2>2. /\ queue'[i] = queue[i + 1] /\ queue'[j] = queue[j + 1]
        /\ i + 1 \in 1..Len(queue) /\ j + 1 \in 1..Len(queue)
    BY <1>1, <1>3
  <2>3. i + 1 = j + 1
    BY <1>2, <2>1, <2>2
  <2>4. QED
    BY <2>3
<1>10. worker'.turn.ticket \in (0..issued') \ Accepted' /\ Accepted' \subseteq 1..issued'
  <2>1. issued' = issued /\ 1..issued \subseteq 0..issued
    BY TicketFacts
  <2>2. Head(queue).ticket \in Accepted
    BY <1>6 DEF Accepted
  <2>3. Accepted \subseteq 1..issued
    BY TicketFacts
  <2>4. QED
    BY <1>7, <1>8, <2>1, <2>2, <2>3
<1>11. TicketsOnce'
  BY <1>4, <1>5, <1>9, <1>10, TicketFacts DEF TicketsOnce, Accepted
<1>12. QED
  BY <1>7, <1>8, <1>11, TicketFacts DEF Known

\* A new ticket goes to the queue, or to the one put that is blocked for it.
LEMMA TicketsIssue ==
  ASSUME Inv, NEW turn, turn.ticket = issued + 1, Issue(turn), running' = running,
         worker'.turn = worker.turn, turn \in Turns,
         HasRoom => /\ Putting' = Putting /\ \A s \in Putting : text'[s].turn = text[s].turn
                    /\ VoiceTickets' = VoiceTickets,
         ~HasRoom => \/ /\ VoiceTickets' = VoiceTickets
                        /\ \E s \in Submitters \ Putting :
                             /\ Putting' = Putting \cup {s} /\ text'[s].turn = turn
                             /\ \A u \in Putting : text'[u].turn = text[u].turn
                     \/ /\ VoiceTickets = {} /\ VoiceTickets' = {turn.ticket}
                        /\ Putting' = Putting
                        /\ \A s \in Putting : text'[s].turn = text[s].turn
  PROVE  TicketsOnce' /\ Known'
<1> DEFINE n == issued + 1
<1>1. /\ n \notin Accepted /\ n \in 1..n /\ 1..issued \subseteq 1..n /\ 0..issued \subseteq 0..n
      /\ issued' = n /\ pending' = pending \cup {n}
  BY TicketFacts DEF TicketsOnce, Issue
<1>2. ASSUME Accepted' = Accepted \cup {n},
             QueuedTickets' \cap (PutTickets' \cup VoiceTickets') = {},
             PutTickets' \cap VoiceTickets' = {},
             \A i, j \in 1..Len(queue') : queue'[i].ticket = queue'[j].ticket => i = j,
             \A s, u \in Putting' : text'[s].turn.ticket = text'[u].turn.ticket => s = u
      PROVE  TicketsOnce' /\ Known'
  <2>1. worker'.turn.ticket \in 0..issued /\ worker'.turn.ticket # n
    BY TicketFacts
  <2>2. Accepted' \subseteq 1..n
    BY <1>1, <1>2, TicketFacts
  <2>3. worker'.turn.ticket \in (0..n) \ Accepted'
    BY <1>1, <1>2, <2>1, TicketFacts
  <2>4. TicketsOnce'
    BY <1>1, <1>2, <2>2, <2>3 DEF TicketsOnce
  <2>5. Known
    BY TicketFacts
  <2>6. QED
    BY <1>1, <1>2, <2>4, <2>5 DEF Known
<1>3. CASE HasRoom
  <2>1. /\ Len(queue') = Len(queue) + 1 /\ queue'[Len(queue) + 1] = turn
        /\ \A i \in 1..Len(queue) : queue'[i] = queue[i]
    BY <1>3, QueueAppend DEF Issue, Inv
  <2>2. /\ 1..Len(queue') = (1..Len(queue)) \cup {Len(queue) + 1}
    BY <2>1, TicketFacts
  <2>3. QueuedTickets' = QueuedTickets \cup {n}
    BY <2>1, <2>2 DEF QueuedTickets
  <2>4. PutTickets' = PutTickets
    BY <1>3 DEF PutTickets
  <2>5. \A i \in 1..Len(queue) : queue[i].ticket # n
    BY <1>1, TicketFacts DEF Accepted
  <2>6. \A i, j \in 1..Len(queue') : queue'[i].ticket = queue'[j].ticket => i = j
    BY <2>1, <2>2, <2>5, TicketFacts DEF TicketsOnce
  <2>7. QED
    BY <1>1, <1>2, <1>3, <2>3, <2>4, <2>6, TicketFacts DEF TicketsOnce, Accepted
<1>4. CASE ~HasRoom
  <2>1. queue' = queue /\ QueuedTickets' = QueuedTickets
    BY <1>4 DEF Issue, QueuedTickets
  <2>2. ASSUME NEW s \in Submitters \ Putting, VoiceTickets' = VoiceTickets,
               Putting' = Putting \cup {s}, text'[s].turn = turn,
               \A u \in Putting : text'[u].turn = text[u].turn
        PROVE  TicketsOnce' /\ Known'
    <3>1. PutTickets' = PutTickets \cup {n}
      BY <2>2 DEF PutTickets
    <3>2. \A u \in Putting : text[u].turn.ticket # n
      BY <1>1, TicketFacts DEF Accepted
    <3>3. QED
      BY <1>1, <1>2, <2>1, <2>2, <3>1, <3>2, TicketFacts DEF TicketsOnce, Accepted
  <2>3. ASSUME VoiceTickets = {}, VoiceTickets' = {n}, Putting' = Putting,
               \A s \in Putting : text'[s].turn = text[s].turn
        PROVE  TicketsOnce' /\ Known'
    <3>1. PutTickets' = PutTickets
      BY <2>3 DEF PutTickets
    <3>2. QED
      BY <1>1, <1>2, <2>1, <2>3, <3>1, TicketFacts DEF TicketsOnce, Accepted
  <2>4. QED
    BY <1>4, <2>2, <2>3
<1>5. QED
  BY <1>3, <1>4

\* A blocked put lands: its ticket only changes places.
LEMMA TicketsPut ==
  ASSUME Inv, NEW turn \in Turns, queue' = Append(queue, turn),
         UNCHANGED <<running, worker, issued, pending>>,
         \/ /\ VoiceTickets' = VoiceTickets
            /\ \E s \in Putting : /\ text[s].turn = turn /\ Putting' = Putting \ {s}
                                  /\ \A u \in Putting' : text'[u].turn = text[u].turn
         \/ /\ VoiceTickets = {turn.ticket} /\ VoiceTickets' = {}
            /\ Putting' = Putting /\ \A s \in Putting : text'[s].turn = text[s].turn
  PROVE  TicketsOnce' /\ Known'
<1>1. /\ Len(queue') = Len(queue) + 1 /\ queue'[Len(queue) + 1] = turn
      /\ \A i \in 1..Len(queue) : queue'[i] = queue[i]
  BY QueueAppend DEF Inv
<1>2. /\ 1..Len(queue') = (1..Len(queue)) \cup {Len(queue) + 1}
  BY <1>1, TicketFacts
<1>3. QueuedTickets' = QueuedTickets \cup {turn.ticket}
  BY <1>1, <1>2 DEF QueuedTickets
<1>4. turn.ticket \in (PutTickets \cup VoiceTickets) \ QueuedTickets
  <2>1. turn.ticket \in PutTickets \cup VoiceTickets
    BY TicketFacts
  <2>2. QED
    BY <2>1, TicketFacts DEF TicketsOnce
<1>5. \A i, j \in 1..Len(queue') : queue'[i].ticket = queue'[j].ticket => i = j
  BY <1>1, <1>2, <1>4, TicketFacts DEF TicketsOnce
<1>6. /\ PutTickets' \cup VoiceTickets' = (PutTickets \cup VoiceTickets) \ {turn.ticket}
      /\ PutTickets' \subseteq PutTickets /\ VoiceTickets' \subseteq VoiceTickets
  <2>1. ASSUME NEW s \in Putting, text[s].turn = turn, Putting' = Putting \ {s},
               \A u \in Putting' : text'[u].turn = text[u].turn, VoiceTickets' = VoiceTickets
        PROVE  PutTickets' = PutTickets \ {turn.ticket} /\ turn.ticket \notin VoiceTickets
    <3>1. \A u \in Putting : text[u].turn.ticket = turn.ticket => u = s
      BY <2>1, TicketFacts DEF TicketsOnce
    <3>2. turn.ticket \in PutTickets
      BY <2>1 DEF PutTickets
    <3>3. QED
      BY <2>1, <3>1, <3>2, TicketFacts DEF PutTickets, TicketsOnce
  <2>2. ASSUME VoiceTickets = {turn.ticket}, Putting' = Putting,
               \A s \in Putting : text'[s].turn = text[s].turn
        PROVE  PutTickets' = PutTickets /\ turn.ticket \notin PutTickets
    BY <2>2, TicketFacts DEF PutTickets, TicketsOnce
  <2>3. QED
    BY <2>1, <2>2
<1>7. Accepted' = Accepted
  BY <1>3, <1>4, <1>6 DEF Accepted
<1>8. \A s, u \in Putting' : text'[s].turn.ticket = text'[u].turn.ticket => s = u
  BY TicketFacts DEF TicketsOnce
<1>9. TicketsOnce'
  BY <1>3, <1>4, <1>5, <1>6, <1>7, <1>8, TicketFacts DEF TicketsOnce
<1>10. QED
  BY <1>7, <1>9, TicketFacts DEF Known

\* No put begins or ends.
PutsStand ==
  /\ Putting' = Putting /\ \A s \in Putting : text'[s].turn = text[s].turn
  /\ VoiceTickets' = VoiceTickets

LEMMA WakingSparesPuts ==
  ASSUME TypeOK, WakeAll
  PROVE  PutsStand
<1>1. \A s \in Submitters : text'[s].phase = text[s].phase /\ text'[s].turn = text[s].turn
  BY DEF TypeOK, Texts, WakeAll
<1>2. voice'.phase = voice.phase /\ voice'.turn = voice.turn
  BY DEF TypeOK, Voices, WakeAll
<1>3. QED
  BY <1>1, <1>2 DEF PutsStand, Putting, VoiceTickets

\* An input that is not in a put, before and after.
LEMMA OthersSparePuts ==
  ASSUME TypeOK, NEW s \in Submitters, NEW t, text[s].phase # "putting", t.phase # "putting",
         text' = [text EXCEPT ![s] = t], voice' = voice
  PROVE  PutsStand
BY DEF TypeOK, PutsStand, Putting, VoiceTickets

LEMMA DeliverTickets ==
  ASSUME Inv, NEW s \in Senders, Deliver(s), UNCHANGED <<running, worker, voice>>
  PROVE  TicketsOnce' /\ Known'
<1>1. TypeOK /\ s \in Submitters /\ text[s].phase # "putting" /\ running \in BOOLEAN
  BY DEF Inv, Senders, TypeOK
<1>2. NoText.phase = "idle"
  BY DEF NoText
<1>3. CASE text' = [text EXCEPT ![s] = NoText] /\ UNCHANGED <<queue, idle, issued, pending>>
  <2>1. PutsStand
    BY <1>1, <1>2, <1>3, OthersSparePuts
  <2>2. QED
    BY <1>1, <1>3, <2>1, TicketsStand DEF PutsStand
<1>4. ASSUME Issue(TurnOf(s)),
             text' = [text EXCEPT ![s] = IF HasRoom THEN NoText
                        ELSE [NoText EXCEPT !.phase = "putting", !.turn = TurnOf(s)]]
      PROVE  TicketsOnce' /\ Known'
  <2>1. TurnOf(s) \in Turns /\ TurnOf(s).ticket = issued + 1
    BY DeliveredTurn
  <2>2. HasRoom => PutsStand
    BY <1>1, <1>2, <1>4, OthersSparePuts
  <2>3. ASSUME ~HasRoom
        PROVE  /\ VoiceTickets' = VoiceTickets /\ s \in Submitters \ Putting
               /\ Putting' = Putting \cup {s} /\ text'[s].turn = TurnOf(s)
               /\ \A u \in Putting : text'[u].turn = text[u].turn
    BY <1>1, <1>4, <2>3 DEF Putting, VoiceTickets, TypeOK, NoText
  <2>4. QED
    BY <1>1, <1>4, <2>1, <2>2, <2>3, TicketsIssue DEF PutsStand
<1>5. QED
  BY <1>3, <1>4, DeliverCases

LEMMA StepTickets ==
  ASSUME Inv, TypeOK', [Next]_vars
  PROVE  TicketsOnce' /\ Known'
<1>1. TypeOK /\ running \in BOOLEAN /\ running' \in BOOLEAN
  BY DEF Inv, TypeOK
<1>2. ASSUME UNCHANGED <<queue, issued, pending>>, running' = running,
             worker'.turn = worker.turn, PutsStand
      PROVE  TicketsOnce' /\ Known'
  BY <1>1, <1>2, TicketsStand DEF PutsStand
<1>3. ASSUME text' = text, UNCHANGED <<queue, issued, pending>>, running' = running,
             worker'.turn = worker.turn,
             voice'.phase = "putting" \/ voice.phase = "putting" => UNCHANGED voice
      PROVE  TicketsOnce' /\ Known'
  <2>1. PutsStand
    BY <1>3 DEF PutsStand, Putting, VoiceTickets
  <2>2. QED
    BY <1>2, <1>3, <2>1
<1>4. ASSUME queue # <<>>, StartHead, UNCHANGED <<running, issued>>, PutsStand
      PROVE  TicketsOnce' /\ Known'
  BY <1>4, TicketsStart DEF PutsStand
<1>5. CASE TakeTurn
  <2>1. PutsStand
    BY <1>5 DEF PutsStand, TakeTurn, Putting, VoiceTickets
  <2>2. QED
    BY <1>4, <1>5, <2>1 DEF TakeTurn
<1>6. CASE FinishTurn
  <2>1. PutsStand
    BY <1>1, <1>6, WakingSparesPuts DEF FinishTurn
  <2>2. CASE queue # <<>> /\ StartHead
    BY <1>4, <1>6, <2>1, <2>2 DEF FinishTurn
  <2>3. CASE worker' = [worker EXCEPT !.phase = "waiting"] /\ UNCHANGED <<queue, pending>>
    BY <1>1, <1>2, <1>6, <2>1, <2>3 DEF FinishTurn, TypeOK, Workers
  <2>4. QED
    BY <1>6, <2>2, <2>3 DEF FinishTurn
<1>7. CASE ChangeContext \/ StartChat \/ EndChat \/ UserAnswered \/ PauseButton
  BY <1>1, <1>3, <1>7 DEF ChangeContext, StartChat, EndChat, UserAnswered, PauseButton, Interrupt,
                          TypeOK, Workers
<1>8. CASE AskUser
  <2>1. PutsStand
    BY <1>1, <1>8, WakingSparesPuts DEF AskUser
  <2>2. worker'.turn = worker.turn
    BY <1>1, <1>8 DEF AskUser, TypeOK, Workers
  <2>3. QED
    BY <1>2, <1>8, <2>1, <2>2 DEF AskUser
<1>9. ASSUME NEW s \in Submitters, NEW k \in Kinds, TypeText(s, k)
      PROVE  TicketsOnce' /\ Known'
  <2>1. [NoText EXCEPT !.phase = "stopping", !.kind = k, !.seen = context].phase # "putting"
    BY DEF NoText
  <2>2. text[s].phase = "idle"
    BY <1>9 DEF TypeText
  <2>3. PutsStand
    BY <1>1, <1>9, <2>1, <2>2, OthersSparePuts DEF TypeText
  <2>4. worker'.turn = worker.turn
    BY <1>1, <1>9 DEF TypeText, Interrupt, TypeOK, Workers
  <2>5. QED
    BY <1>2, <1>9, <2>3, <2>4 DEF TypeText
<1>10. ASSUME NEW s \in Submitters, SpeechStopped(s)
       PROVE  TicketsOnce' /\ Known'
  <2>1. s \in Senders /\ text[s].phase = "stopping"
    BY <1>10 DEF SpeechStopped, Senders
  <2>2. CASE Deliver(s)
    BY <1>10, <2>1, <2>2, DeliverTickets DEF SpeechStopped
  <2>3. CASE ~Deliver(s)
    <3>1. /\ UNCHANGED <<queue, idle, issued, pending, running, worker, voice>>
          /\ \/ text' = [text EXCEPT ![s] = NoText]
             \/ text' = [text EXCEPT ![s].phase = "waiting"]
             \/ slot \in Submitters /\ text' = [text EXCEPT ![s] = NoText, ![slot] = TakenOff(slot)]
      BY <1>1, <1>10, <2>3 DEF SpeechStopped, TypeOK
    <3>2. \A u \in Submitters : TakenOff(u).phase = text[u].phase /\ TakenOff(u).turn = text[u].turn
      BY <1>1 DEF TypeOK, Texts, TakenOff
    <3>3. \A u \in Submitters :
            /\ text'[u].phase = "putting" <=> text[u].phase = "putting"
            /\ text[u].phase = "putting" => text'[u].turn = text[u].turn
      <4>1. /\ DOMAIN text = Submitters /\ s \in Submitters /\ text[s].phase = "stopping"
            /\ NoText.phase = "idle" /\ \A u \in Submitters : text[u] \in Texts
        BY <1>1, <2>1 DEF TypeOK, NoText
      <4>2. CASE text' = [text EXCEPT ![s] = NoText]
        BY <4>1, <4>2
      <4>3. CASE text' = [text EXCEPT ![s].phase = "waiting"]
        BY <4>1, <4>3 DEF Texts
      <4>4. CASE slot \in Submitters /\ text' = [text EXCEPT ![s] = NoText, ![slot] = TakenOff(slot)]
        <5>1. TakenOff(slot).phase = text[slot].phase /\ TakenOff(slot).turn = text[slot].turn
          BY <3>2, <4>4
        <5>2. ASSUME NEW u \in Submitters
              PROVE  \/ u = s /\ text'[u].phase # "putting"
                     \/ text'[u] = text[u]
                     \/ text'[u].phase = text[u].phase /\ text'[u].turn = text[u].turn
          BY <4>1, <4>4, <5>1
        <5> QED
          BY <4>1, <5>2
      <4> QED
        BY <3>1, <4>2, <4>3, <4>4
    <3>4. PutsStand
      BY <3>1, <3>3 DEF PutsStand, Putting, VoiceTickets
    <3>5. QED
      BY <1>2, <3>1, <3>4
  <2>4. QED
    BY <2>2, <2>3
<1>11. ASSUME NEW s \in Submitters, Woken(s)
       PROVE  TicketsOnce' /\ Known'
  <2>1. text[s].phase = "waiting" /\ text'[s].phase = "leaving"
    BY <1>1, <1>11 DEF Woken, TypeOK, Texts
  <2>2. \A u \in Submitters \ {s} : text'[u] = text[u]
    BY <1>1, <1>11 DEF Woken, TypeOK
  <2>3. PutsStand
    BY <1>11, <2>1, <2>2 DEF Woken, PutsStand, Putting, VoiceTickets
  <2>4. QED
    BY <1>2, <1>11, <2>3 DEF Woken
<1>12. ASSUME NEW s \in Submitters, LeaveWaiting(s)
       PROVE  TicketsOnce' /\ Known'
  <2>1. s \in Senders /\ text[s].phase = "leaving" /\ NoText.phase = "idle"
    BY <1>12 DEF LeaveWaiting, Senders, NoText
  <2>2. CASE Deliver(s)
    BY <1>12, <2>1, <2>2, DeliverTickets DEF LeaveWaiting
  <2>3. CASE text' = [text EXCEPT ![s] = NoText] /\ UNCHANGED <<queue, idle, issued, pending>>
    <3>1. PutsStand
      BY <1>1, <1>12, <2>1, <2>3, OthersSparePuts DEF LeaveWaiting
    <3>2. QED
      BY <1>2, <1>12, <2>3, <3>1 DEF LeaveWaiting
  <2>4. QED
    BY <1>12, <2>2, <2>3 DEF LeaveWaiting
<1>13. ASSUME NEW s \in Submitters, PutText(s)
       PROVE  TicketsOnce' /\ Known'
  <2>1. text[s].turn \in Turns /\ s \in Putting
    BY <1>1, <1>13 DEF TypeOK, Texts, PutText, Putting
  <2>2. /\ VoiceTickets' = VoiceTickets /\ Putting' = Putting \ {s}
        /\ \A u \in Putting' : text'[u].turn = text[u].turn
    BY <1>1, <1>13 DEF TypeOK, PutText, Putting, VoiceTickets, NoText
  <2>3. QED
    BY <1>13, <2>1, <2>2, TicketsPut DEF PutText
<1>14. CASE StopButton
  <2>1. \A u \in Submitters : TakenOff(u).phase = text[u].phase /\ TakenOff(u).turn = text[u].turn
    BY <1>1 DEF TypeOK, Texts, TakenOff
  <2>2. \A u \in Submitters : text'[u].phase = text[u].phase /\ text'[u].turn = text[u].turn
    BY <1>1, <1>14, <2>1 DEF TypeOK, StopButton, CancelWaiting
  <2>3. PutsStand
    BY <1>14, <2>2 DEF StopButton, PutsStand, Putting, VoiceTickets
  <2>4. worker'.turn = worker.turn
    BY <1>1, <1>14 DEF StopButton, Interrupt, TypeOK, Workers
  <2>5. QED
    BY <1>2, <1>14, <2>3, <2>4 DEF StopButton
<1>15. CASE StartListening \/ NothingHeard \/ Heard
  <2>1. voice.phase \in {"slot", "recording"} /\ voice'.phase # "putting"
    <3>1. AtSlot.phase = "slot" /\ [voice EXCEPT !.phase = "heard"].phase = "heard"
      BY <1>1 DEF AtSlot, TypeOK, Voices
    <3>2. [AtSlot EXCEPT !.phase = "recording", !.epoch = epoch, !.confirm = Confirming].phase
             = "recording"
      BY DEF AtSlot
    <3>3. QED
      BY <1>15, <3>1, <3>2 DEF StartListening, NothingHeard, Heard
  <2>2. QED
    BY <1>3, <1>15, <2>1 DEF StartListening, NothingHeard, Heard
<1>16. CASE EnqueueSpeech
  <2>1. /\ TurnOfSpeech \in Turns /\ TurnOfSpeech.ticket = issued + 1 /\ Issue(TurnOfSpeech)
        /\ voice' = IF HasRoom THEN AtSlot
                    ELSE [AtSlot EXCEPT !.phase = "putting", !.turn = TurnOfSpeech]
    BY <1>16, SpokenTurn
  <2>2. VoiceTickets = {} /\ VoiceTickets' = IF HasRoom THEN {} ELSE {TurnOfSpeech.ticket}
    BY <1>16, <2>1 DEF EnqueueSpeech, VoiceTickets, AtSlot
  <2>3. Putting' = Putting /\ text' = text
    BY <1>16 DEF EnqueueSpeech, Putting
  <2>4. QED
    BY <1>16, <2>1, <2>2, <2>3, TicketsIssue DEF EnqueueSpeech
<1>17. CASE PutVoice
  <2>1. voice.turn \in Turns
    BY <1>1 DEF TypeOK, Voices
  <2>2. VoiceTickets = {voice.turn.ticket} /\ VoiceTickets' = {} /\ Putting' = Putting
    BY <1>17 DEF PutVoice, VoiceTickets, AtSlot, Putting
  <2>3. QED
    BY <1>17, <2>1, <2>2, TicketsPut DEF PutVoice
<1>18. ASSUME NEW on \in BOOLEAN, Microphone(on)
       PROVE  TicketsOnce' /\ Known'
  <2>1. voice'.phase = voice.phase /\ voice'.turn = voice.turn
    BY <1>1, <1>18 DEF Microphone, TypeOK, Voices
  <2>2. PutsStand
    BY <1>18, <2>1 DEF Microphone, PutsStand, Putting, VoiceTickets
  <2>3. QED
    BY <1>2, <1>18, <2>2 DEF Microphone
<1>19. CASE Shutdown \/ Close
  <2>1. /\ UNCHANGED <<queue, issued>> /\ ~running' /\ worker'.turn = worker.turn
        /\ \/ Shutdown /\ voice'.phase = "gone"
           \/ Close /\ voice' = voice
    BY <1>1, <1>19 DEF Shutdown, Close, AtSlot, TypeOK, Workers
  <2>2. \A s \in Submitters : text'[s].phase = "putting" =>
          text[s].phase = "putting" /\ text'[s].turn = text[s].turn
    BY <1>1, <1>19 DEF Shutdown, Close, TypeOK, Texts, NoText
  <2>3. VoiceTickets' \subseteq VoiceTickets
    BY <2>1 DEF VoiceTickets
  <2>4. Putting' \subseteq Putting /\ \A s \in Putting' : text'[s].turn = text[s].turn
    BY <2>2 DEF Putting
  <2>5. QED
    BY <2>1, <2>3, <2>4, TicketsFewer DEF Known
<1>20. CASE UNCHANGED vars
  BY <1>3, <1>20 DEF vars
<1>21. QED
  BY <1>5, <1>6, <1>7, <1>8, <1>9, <1>10, <1>11, <1>12, <1>13, <1>14, <1>15, <1>16, <1>17, <1>18,
     <1>19, <1>20 DEF Next, Text

\* The tickets never run out: at most one for each place of the queue, one for each
\* input and one for the voice loop are in use, and the guard has more.
LEMMA CapacityIsEnough ==
  ASSUME TypeOK
  PROVE  Cardinality(Accepted) < Capacity
<1>1. /\ IsFiniteSet(Submitters) /\ Cardinality(Submitters) \in Nat
      /\ QueueSize \in Nat /\ Capacity \in Nat
      /\ QueueSize + Cardinality(Submitters) + 1 < Capacity
  BY DeliveryAssumption, FS_CardinalityType
<1>2. Len(queue) \in Nat /\ Len(queue) <= QueueSize
  BY <1>1 DEF TypeOK
<1>3. IsFiniteSet(QueuedTickets) /\ Cardinality(QueuedTickets) <= Len(queue)
  <2>1. [i \in 1..Len(queue) |-> queue[i].ticket] \in Surjection(1..Len(queue), QueuedTickets)
    BY DEF Surjection, QueuedTickets
  <2>2. IsFiniteSet(1..Len(queue)) /\ Cardinality(1..Len(queue)) = Len(queue)
    BY <1>2, FS_Interval
  <2>3. QED
    BY <2>1, <2>2, FS_Surjection
<1>4. IsFiniteSet(PutTickets) /\ Cardinality(PutTickets) <= Cardinality(Submitters)
  <2>1. [s \in Putting |-> text[s].turn.ticket] \in Surjection(Putting, PutTickets)
    BY DEF Surjection, PutTickets
  <2>2. IsFiniteSet(Putting) /\ Cardinality(Putting) <= Cardinality(Submitters)
    BY <1>1, FS_Subset DEF Putting
  <2>3. IsFiniteSet(PutTickets) /\ Cardinality(PutTickets) <= Cardinality(Putting)
    BY <2>1, <2>2, FS_Surjection
  <2>4. Cardinality(PutTickets) \in Nat /\ Cardinality(Putting) \in Nat
    BY <2>2, <2>3, FS_CardinalityType
  <2>5. QED
    BY <1>1, <2>2, <2>3, <2>4
<1>5. IsFiniteSet(VoiceTickets) /\ Cardinality(VoiceTickets) <= 1
  <2>1. VoiceTickets = {voice.turn.ticket} \/ VoiceTickets = {}
    BY DEF VoiceTickets
  <2>2. IsFiniteSet({voice.turn.ticket}) /\ Cardinality({voice.turn.ticket}) = 1
    BY FS_Singleton
  <2>3. QED
    BY <2>1, <2>2, FS_EmptySet
<1>6. IsFiniteSet(QueuedTickets \cup PutTickets) /\ IsFiniteSet(Accepted)
      /\ Cardinality(QueuedTickets \cup PutTickets)
           <= Cardinality(QueuedTickets) + Cardinality(PutTickets)
      /\ Cardinality(Accepted) <= Cardinality(QueuedTickets \cup PutTickets) + Cardinality(VoiceTickets)
  <2>1. ASSUME NEW S, NEW T, IsFiniteSet(S), IsFiniteSet(T)
        PROVE  /\ IsFiniteSet(S \cup T)
               /\ Cardinality(S \cup T) <= Cardinality(S) + Cardinality(T)
    <3>1. IsFiniteSet(S \cup T) /\ IsFiniteSet(S \cap T)
          /\ Cardinality(S \cup T) = Cardinality(S) + Cardinality(T) - Cardinality(S \cap T)
      BY <2>1, FS_Union, FS_Intersection
    <3>2. Cardinality(S) \in Nat /\ Cardinality(T) \in Nat /\ Cardinality(S \cap T) \in Nat
      BY <2>1, <3>1, FS_CardinalityType
    <3>3. QED
      BY <3>1, <3>2
  <2>2. QED
    BY <1>3, <1>4, <1>5, <2>1 DEF Accepted
<1>7. /\ Cardinality(QueuedTickets) \in Nat /\ Cardinality(PutTickets) \in Nat
      /\ Cardinality(VoiceTickets) \in Nat /\ Cardinality(QueuedTickets \cup PutTickets) \in Nat
      /\ Cardinality(Accepted) \in Nat
  BY <1>3, <1>4, <1>5, <1>6, FS_CardinalityType
<1>8. QED
  BY <1>1, <1>2, <1>3, <1>4, <1>5, <1>6, <1>7

-----------------------------------------------------------------------------
(* Whoever is on the way to a ticket still gets one                        *)

LEMMA WakingSparesSenders ==
  ASSUME TypeOK, WakeAll
  PROVE  Underway' = Underway
<1>1. \A s \in Submitters : text'[s].phase = text[s].phase
  BY DEF TypeOK, Texts, WakeAll
<1>2. voice'.phase = voice.phase
  BY DEF TypeOK, Voices, WakeAll
<1>3. Senders' = Senders
  BY <1>1 DEF Senders
<1>4. QED
  BY <1>2, <1>3 DEF Underway

\* How Underway changes when one input, or the voice loop, does.
LEMMA UnderwayEdits ==
  ASSUME Inv, TypeOK', Senders' \subseteq Senders \/ \E s : Senders' = Senders \cup {s}
  PROVE  /\ Cardinality(Senders) \in Nat /\ Cardinality(Senders') \in Nat
         /\ Senders' \subseteq Senders => Cardinality(Senders') <= Cardinality(Senders)
         /\ (Senders' \subseteq Senders /\ Senders' # Senders)
               => Cardinality(Senders') + 1 <= Cardinality(Senders)
         /\ Cardinality(Senders') <= Cardinality(Senders) + 1
<1>1. IsFiniteSet(Senders) /\ Cardinality(Senders) \in Nat
  BY SendersFinite
<1>2. CASE Senders' \subseteq Senders
  <2>1. /\ IsFiniteSet(Senders') /\ Cardinality(Senders') <= Cardinality(Senders)
        /\ Cardinality(Senders) = Cardinality(Senders') => Senders = Senders'
    BY <1>1, <1>2, FS_Subset
  <2>2. Cardinality(Senders') \in Nat
    BY <2>1, FS_CardinalityType
  <2>3. QED
    BY <1>1, <2>1, <2>2
<1>3. ASSUME NEW s, Senders' = Senders \cup {s}, ~(Senders' \subseteq Senders)
      PROVE  Cardinality(Senders') = Cardinality(Senders) + 1
  BY <1>1, <1>3, FS_AddElement
<1>4. QED
  BY <1>1, <1>2, <1>3

LEMMA StepBound ==
  ASSUME Inv, TypeOK', [Next]_vars
  PROVE  BoundInv'
<1>1. /\ TypeOK /\ issued \in Nat /\ issued' \in Nat /\ MaxTurns \in Nat
      /\ BoundInv
  BY DeliveryAssumption DEF Inv, TypeOK
<1> DEFINE v == IF voice.phase \in {"recording", "heard"} THEN 1 ELSE 0
<1>2. /\ v \in {0, 1} /\ v' \in {0, 1}
      /\ Underway = Cardinality(Senders) + v /\ Underway' = Cardinality(Senders)' + v'
      /\ Cardinality(Senders)' = Cardinality(Senders')
  BY DEF Underway
<1> HIDE DEF v
<1>3. Cardinality(Senders) \in Nat
  BY SendersFinite
<1>4. ASSUME issued' = issued, Senders' \subseteq Senders, v' <= v
      PROVE  BoundInv'
  BY <1>1, <1>2, <1>3, <1>4, UnderwayEdits DEF BoundInv
<1>5. ASSUME issued' = issued, Underway' = Underway
      PROVE  BoundInv'
  BY <1>1, <1>5 DEF BoundInv
<1>6. ASSUME issued' = issued + 1, NEW s \in Senders, Senders' = Senders \ {s}, v' = v
      PROVE  BoundInv'
  <2>1. Senders' \subseteq Senders /\ Senders' # Senders
    BY <1>6
  <2>2. QED
    BY <1>1, <1>2, <1>3, <1>6, <2>1, UnderwayEdits DEF BoundInv
<1>7. ASSUME NEW s \in Senders, Deliver(s), voice' = voice
      PROVE  BoundInv'
  <2>1. s \in Submitters /\ NoText.phase = "idle" /\ v' = v
    BY <1>7 DEF Senders, NoText, v
  <2>2. Senders' = Senders \ {s}
    <3>1. PICK t \in {NoText, [NoText EXCEPT !.phase = "putting", !.turn = TurnOf(s)]} :
            text' = [text EXCEPT ![s] = t]
      BY <1>7, DeliverCases
    <3>2. [NoText EXCEPT !.phase = "putting", !.turn = TurnOf(s)].phase = "putting"
      BY DEF NoText
    <3>3. QED
      BY <1>1, <2>1, <3>1, <3>2 DEF Senders, TypeOK
  <2>3. issued' = issued + 1 \/ issued' = issued
    BY <1>7, DeliverCases DEF Issue
  <2>4. QED
    BY <1>4, <1>6, <2>1, <2>2, <2>3, <1>2
<1>8. CASE TakeTurn \/ ChangeContext \/ StartChat \/ EndChat \/ UserAnswered \/ PauseButton
           \/ UNCHANGED vars
  BY <1>5, <1>8 DEF TakeTurn, ChangeContext, StartChat, EndChat, UserAnswered, PauseButton, vars,
                    Underway, Senders
<1>9. CASE FinishTurn \/ AskUser
  BY <1>1, <1>5, <1>9, WakingSparesSenders DEF FinishTurn, AskUser
<1>10. ASSUME NEW s \in Submitters, NEW k \in Kinds, TypeText(s, k)
       PROVE  BoundInv'
  <2>1. Senders' = Senders \cup {s}
    BY <1>1, <1>10 DEF TypeText, Senders, TypeOK, NoText
  <2>2. issued + Underway < MaxTurns /\ issued' = issued /\ v' = v
    BY <1>10 DEF TypeText, v
  <2>3. Cardinality(Senders') \in Nat /\ Cardinality(Senders') <= Cardinality(Senders) + 1
    BY <2>1, UnderwayEdits
  <2>4. QED
    BY <1>1, <1>2, <1>3, <2>2, <2>3 DEF BoundInv
<1>11. ASSUME NEW s \in Submitters, SpeechStopped(s)
       PROVE  BoundInv'
  <2>1. s \in Senders /\ voice' = voice /\ v' = v
    BY <1>11 DEF SpeechStopped, Senders, v
  <2>2. CASE ~Deliver(s)
    <3>1. /\ issued' = issued
          /\ \/ text' = [text EXCEPT ![s] = NoText]
             \/ text' = [text EXCEPT ![s].phase = "waiting"]
             \/ slot \in Submitters /\ text' = [text EXCEPT ![s] = NoText, ![slot] = TakenOff(slot)]
      BY <1>1, <1>11, <2>2 DEF SpeechStopped, TypeOK
    <3>2. \A u \in Submitters : TakenOff(u).phase = text[u].phase
      BY <1>1 DEF TypeOK, Texts, TakenOff
    <3>3. Senders' \subseteq Senders
      BY <1>1, <2>1, <3>1, <3>2 DEF TypeOK, Texts, NoText, Senders
    <3>4. QED
      BY <1>2, <1>4, <2>1, <3>1, <3>3
  <2>3. QED
    BY <1>7, <2>1, <2>2
<1>12. ASSUME NEW s \in Submitters, Woken(s)
       PROVE  BoundInv'
  <2>1. Senders' = Senders
    BY <1>1, <1>12 DEF Woken, Senders, TypeOK, Texts
  <2>2. QED
    BY <1>5, <1>12, <2>1 DEF Woken, Underway
<1>13. ASSUME NEW s \in Submitters, LeaveWaiting(s)
       PROVE  BoundInv'
  <2>1. s \in Senders /\ voice' = voice /\ v' = v
    BY <1>13 DEF LeaveWaiting, Senders, v
  <2>2. CASE text' = [text EXCEPT ![s] = NoText] /\ UNCHANGED <<queue, idle, issued, pending>>
    <3>1. Senders' \subseteq Senders
      BY <1>1, <2>2 DEF TypeOK, NoText, Senders
    <3>2. QED
      BY <1>2, <1>4, <2>1, <2>2, <3>1
  <2>3. QED
    BY <1>7, <1>13, <2>1, <2>2 DEF LeaveWaiting
<1>14. ASSUME NEW s \in Submitters, PutText(s)
       PROVE  BoundInv'
  <2>1. Senders' = Senders
    BY <1>1, <1>14 DEF PutText, Senders, TypeOK, NoText
  <2>2. QED
    BY <1>5, <1>14, <2>1 DEF PutText, Underway
<1>15. CASE StopButton
  <2>1. \A u \in Submitters : TakenOff(u).phase = text[u].phase
    BY <1>1 DEF TypeOK, Texts, TakenOff
  <2>2. Senders' = Senders
    BY <1>1, <1>15, <2>1 DEF StopButton, CancelWaiting, Senders, TypeOK
  <2>3. QED
    BY <1>5, <1>15, <2>2 DEF StopButton, Underway
<1>16. CASE StartListening
  <2>1. issued + Underway < MaxTurns /\ issued' = issued /\ Senders' = Senders
    BY <1>16 DEF StartListening, Senders
  <2>2. v = 0
    BY <1>16 DEF StartListening, v
  <2>3. QED
    BY <1>1, <1>2, <1>3, <2>1, <2>2 DEF BoundInv
<1>17. CASE NothingHeard \/ Heard \/ PutVoice
  <2>1. issued' = issued /\ Senders' = Senders
    BY <1>17 DEF NothingHeard, Heard, PutVoice, Senders
  <2>2. v' <= v
    BY <1>1, <1>17 DEF NothingHeard, Heard, PutVoice, v, AtSlot, TypeOK, Voices
  <2>3. QED
    BY <1>4, <2>1, <2>2
<1>18. CASE EnqueueSpeech
  <2>1. issued' = issued + 1 /\ Senders' = Senders
    BY <1>18 DEF EnqueueSpeech, Issue, Senders
  <2>2. v = 1 /\ v' = 0
    BY <1>18 DEF EnqueueSpeech, v, AtSlot
  <2>3. QED
    BY <1>1, <1>2, <1>3, <2>1, <2>2 DEF BoundInv
<1>19. ASSUME NEW on \in BOOLEAN, Microphone(on)
       PROVE  BoundInv'
  <2>1. voice'.phase = voice.phase
    BY <1>1, <1>19 DEF Microphone, TypeOK, Voices
  <2>2. QED
    BY <1>5, <1>19, <2>1 DEF Microphone, Underway, Senders
<1>20. CASE Shutdown \/ Close
  <2>1. Senders' \subseteq Senders
    BY <1>1, <1>20 DEF Shutdown, Close, Senders, TypeOK, Texts, NoText
  <2>2. issued' = issued /\ v' <= v
    BY <1>1, <1>20 DEF Shutdown, Close, v, AtSlot
  <2>3. QED
    BY <1>4, <2>1, <2>2
<1>21. QED
  BY <1>8, <1>9, <1>10, <1>11, <1>12, <1>13, <1>14, <1>15, <1>16, <1>17, <1>18, <1>19, <1>20
     DEF Next, Text

-----------------------------------------------------------------------------
(* command_idle                                                            *)

LEMMA StepIdle ==
  ASSUME Inv, TypeOK', [Next]_vars
  PROVE  IdleIsTruthful'
<1>1. TypeOK /\ IdleIsTruthful
  BY DEF Inv
<1>2. worker \in Workers /\ worker.phase \in WorkerPhases
  BY <1>1 DEF TypeOK, Workers
<1>3. ASSUME idle' = FALSE \/ worker'.phase = "waiting" \/ worker'.phase = "down"
      PROVE  IdleIsTruthful'
  BY <1>3 DEF IdleIsTruthful, Processing
<1>4. ASSUME idle' \in {idle, FALSE}, worker'.phase = worker.phase \/ Processing
      PROVE  IdleIsTruthful'
  BY <1>1, <1>4 DEF IdleIsTruthful, Processing
<1>5. ASSUME NEW s, Deliver(s)
      PROVE  idle' \in {idle, FALSE}
  BY <1>5 DEF Deliver, Issue, MarkBusy
<1>6. CASE TakeTurn
  BY <1>3, <1>6 DEF TakeTurn, StartHead, MarkBusy
<1>7. CASE FinishTurn
  BY <1>2, <1>3, <1>7 DEF FinishTurn, StartHead, MarkBusy, Workers
<1>8. CASE ChangeContext \/ StartChat \/ EndChat \/ AskUser \/ UserAnswered
  BY <1>4, <1>8 DEF ChangeContext, StartChat, EndChat, AskUser, UserAnswered, Confirming, Processing
<1>9. ASSUME NEW s \in Submitters, NEW k \in Kinds, TypeText(s, k)
      PROVE  IdleIsTruthful'
  BY <1>4, <1>9 DEF TypeText, Interrupt, Processing
<1>10. ASSUME NEW s \in Submitters, Text(s)
       PROVE  IdleIsTruthful'
  BY <1>4, <1>5, <1>10 DEF Text, SpeechStopped, Woken, LeaveWaiting, PutText
<1>11. CASE StopButton \/ PauseButton
  BY <1>4, <1>11 DEF StopButton, PauseButton, Interrupt, Processing
<1>12. CASE StartListening \/ NothingHeard \/ Heard \/ EnqueueSpeech \/ PutVoice
  BY <1>4, <1>12 DEF StartListening, NothingHeard, Heard, EnqueueSpeech, PutVoice, Issue, MarkBusy
<1>13. ASSUME NEW on \in BOOLEAN, Microphone(on)
       PROVE  IdleIsTruthful'
  BY <1>4, <1>13 DEF Microphone
<1>14. CASE Shutdown
  BY <1>2, <1>3, <1>14 DEF Shutdown, Workers
<1>15. CASE Close \/ UNCHANGED vars
  BY <1>4, <1>15 DEF Close, vars
<1>16. QED
  BY <1>6, <1>7, <1>8, <1>9, <1>10, <1>11, <1>12, <1>13, <1>14, <1>15 DEF Next

-----------------------------------------------------------------------------
(* The waiting place                                                       *)

LEMMA StepSlot ==
  ASSUME Inv, TypeOK', [Next]_vars
  PROVE  SlotHasItsWaiter'
<1>1. TypeOK /\ SlotHasItsWaiter /\ None \notin Submitters
  BY DeliveryAssumption DEF Inv
<1>2. \A s \in Submitters : text[s] \in Texts
  BY <1>1 DEF TypeOK
<1>3. ASSUME slot' = slot, \A s \in Submitters : text'[s].phase = text[s].phase
      PROVE  SlotHasItsWaiter'
  BY <1>1, <1>3 DEF SlotHasItsWaiter
\* One input changes, and the place with it.
<1>4. ASSUME NEW s \in Submitters, NEW t, text' = [text EXCEPT ![s] = t],
             \/ slot' = slot /\ (t.phase \in {"waiting", "leaving"} <=> slot = s)
             \/ slot = None /\ slot' = s /\ t.phase = "waiting"
             \/ slot = s /\ slot' = None /\ t.phase \notin {"waiting", "leaving"}
      PROVE  SlotHasItsWaiter'
  <2>1. text'[s] = t /\ \A u \in Submitters \ {s} : text'[u] = text[u]
    BY <1>1, <1>4 DEF TypeOK
  <2>2. ASSUME NEW u \in Submitters \ {s}
        PROVE  slot' = u <=> text'[u].phase \in {"waiting", "leaving"}
    BY <1>1, <1>4, <2>1 DEF SlotHasItsWaiter
  <2>3. slot' = s <=> text'[s].phase \in {"waiting", "leaving"}
    BY <1>1, <1>4, <2>1
  <2>4. QED
    BY <2>2, <2>3 DEF SlotHasItsWaiter
<1>5. ASSUME NEW s, Deliver(s)
      PROVE  \E t : text' = [text EXCEPT ![s] = t] /\ t.phase \in {"idle", "putting"}
  <2>1. NoText.phase = "idle" /\ [NoText EXCEPT !.phase = "putting", !.turn = TurnOf(s)].phase = "putting"
    BY DEF NoText
  <2>2. QED
    BY <1>5, <2>1, DeliverCases
<1>6. CASE FinishTurn \/ AskUser
  <2>1. \A s \in Submitters : text'[s].phase = text[s].phase
    BY <1>2, <1>6 DEF FinishTurn, AskUser, WakeAll, Texts
  <2>2. QED
    BY <1>3, <1>6, <2>1 DEF FinishTurn, AskUser
<1>7. ASSUME NEW s \in Submitters, NEW k \in Kinds, TypeText(s, k)
      PROVE  SlotHasItsWaiter'
  <2>1. [NoText EXCEPT !.phase = "stopping", !.kind = k, !.seen = context].phase = "stopping"
    BY DEF NoText
  <2>2. text[s].phase = "idle" /\ slot # s
    BY <1>1, <1>7 DEF TypeText, SlotHasItsWaiter
  <2>3. QED
    BY <1>4, <1>7, <2>1, <2>2 DEF TypeText
<1>8. ASSUME NEW s \in Submitters, SpeechStopped(s)
      PROVE  SlotHasItsWaiter'
  <2>1. text[s].phase = "stopping" /\ slot # s /\ NoText.phase = "idle"
    BY <1>1, <1>8 DEF SpeechStopped, SlotHasItsWaiter, NoText
  <2>2. CASE Deliver(s) /\ slot' = slot
    BY <1>4, <1>5, <2>1, <2>2
  <2>3. CASE slot = None /\ slot' = s /\ text' = [text EXCEPT ![s].phase = "waiting"]
    <3>1. [text[s] EXCEPT !.phase = "waiting"].phase = "waiting"
      BY <1>2 DEF Texts
    <3>2. QED
      BY <1>4, <2>3, <3>1
  <2>4. CASE slot' = slot /\ text' = [text EXCEPT ![s] = NoText]
    BY <1>4, <2>1, <2>4
  <2>5. CASE /\ slot' = slot /\ slot \in Submitters
             /\ text' = [text EXCEPT ![s] = NoText, ![slot] = TakenOff(slot)]
    <3>1. TakenOff(slot).phase = text[slot].phase
      BY <1>2, <2>5 DEF TakenOff, Texts
    <3>2. \A u \in Submitters : text'[u].phase = IF u = s THEN "idle" ELSE text[u].phase
      BY <1>1, <2>1, <2>5, <3>1 DEF TypeOK
    <3>3. QED
      BY <1>1, <2>1, <2>5, <3>2 DEF SlotHasItsWaiter
  <2>6. QED
    BY <1>1, <1>8, <2>2, <2>3, <2>4, <2>5 DEF SpeechStopped, TypeOK
<1>9. ASSUME NEW s \in Submitters, Woken(s)
      PROVE  SlotHasItsWaiter'
  <2>1. [text[s] EXCEPT !.phase = "leaving", !.go = Proceeds(s)].phase = "leaving"
    BY <1>2 DEF Texts
  <2>2. slot = s /\ slot' = slot
    BY <1>1, <1>9 DEF Woken, SlotHasItsWaiter
  <2>3. text' = [text EXCEPT ![s] = [text[s] EXCEPT !.phase = "leaving", !.go = Proceeds(s)]]
    BY <1>1, <1>9 DEF Woken, TypeOK
  <2>4. QED
    BY <1>4, <2>1, <2>2, <2>3
<1>10. ASSUME NEW s \in Submitters, LeaveWaiting(s)
       PROVE  SlotHasItsWaiter'
  <2>1. slot = s /\ slot' = None /\ NoText.phase = "idle"
    BY <1>1, <1>10 DEF LeaveWaiting, FreeSlot, SlotHasItsWaiter, NoText
  <2>2. \E t : text' = [text EXCEPT ![s] = t] /\ t.phase \in {"idle", "putting"}
    BY <1>5, <1>10, <2>1 DEF LeaveWaiting
  <2>3. QED
    BY <1>4, <2>1, <2>2
<1>11. ASSUME NEW s \in Submitters, PutText(s)
       PROVE  SlotHasItsWaiter'
  <2>1. slot # s /\ NoText.phase = "idle"
    BY <1>1, <1>11 DEF PutText, SlotHasItsWaiter, NoText
  <2>2. QED
    BY <1>4, <1>11, <2>1 DEF PutText
<1>12. CASE StopButton
  <2>1. \A u \in Submitters : TakenOff(u).phase = text[u].phase
    BY <1>2 DEF Texts, TakenOff
  <2>2. \A u \in Submitters : text'[u].phase = text[u].phase
    BY <1>1, <1>12, <2>1 DEF StopButton, CancelWaiting, TypeOK
  <2>3. QED
    BY <1>3, <1>12, <2>2 DEF StopButton
<1>13. CASE Shutdown
  <2>1. \A u \in Submitters \ Console : text'[u].phase = text[u].phase
    BY <1>2, <1>13 DEF Shutdown, Texts
  <2>2. \A u \in Console : text'[u].phase = "gone"
    BY <1>13, DeliveryAssumption DEF Shutdown, NoText
  <2>3. QED
    BY <1>1, <1>13, <2>1, <2>2 DEF Shutdown, SlotHasItsWaiter
<1>14. CASE Close
  BY <1>1, <1>14 DEF Close, SlotHasItsWaiter, NoText
<1>15. CASE \/ TakeTurn \/ ChangeContext \/ StartChat \/ EndChat \/ UserAnswered \/ PauseButton
            \/ StartListening \/ NothingHeard \/ Heard \/ EnqueueSpeech \/ PutVoice
            \/ UNCHANGED vars \/ \E on \in BOOLEAN : Microphone(on)
  BY <1>3, <1>15 DEF TakeTurn, ChangeContext, StartChat, EndChat, UserAnswered, PauseButton, vars,
                    StartListening, NothingHeard, Heard, EnqueueSpeech, PutVoice, Microphone
<1>16. QED
  BY <1>6, <1>7, <1>8, <1>9, <1>10, <1>11, <1>12, <1>13, <1>14, <1>15 DEF Next, Text

-----------------------------------------------------------------------------
(* The turn and the prompt it meets                                        *)

\* The context the worker meets is the one the head of the queue was held against.
LEMMA StepDirect ==
  ASSUME Inv, TypeOK', [Next]_vars
  PROVE  DirectTextMeetsItsPrompt'
<1>1. TypeOK /\ DirectTextMeetsItsPrompt /\ CourseInv
  BY DEF Inv
<1>2. ASSUME worker'.turn = worker.turn, worker'.met = worker.met,
             worker'.phase = worker.phase \/ Processing \/ worker'.phase \in {"waiting", "down"}
      PROVE  DirectTextMeetsItsPrompt'
  <2>1. Processing' => Processing
    BY <1>2 DEF Processing
  <2>2. QED
    BY <1>1, <1>2, <2>1 DEF DirectTextMeetsItsPrompt, NewPrompt
<1>3. ASSUME queue # <<>>, StartHead
      PROVE  DirectTextMeetsItsPrompt'
  <2>1. Head(queue) = queue[1] /\ 1 \in 1..Len(queue)
    BY <1>1, <1>3, QueueTail DEF StartHead
  <2>2. worker'.turn = Head(queue) /\ worker'.met = context
    BY <1>3 DEF StartHead
  <2>3. queue[1].direct => \A f \in {"question", "proposal"} : context[f] \in {0, queue[1].seen[f]}
    BY <1>1, <2>1 DEF CourseInv, QueueCourse
  <2>4. QED
    BY <2>1, <2>2, <2>3 DEF DirectTextMeetsItsPrompt, NewPrompt
<1>4. CASE TakeTurn \/ FinishTurn
  <2>1. CASE queue # <<>> /\ StartHead
    BY <1>3, <2>1
  <2>2. CASE worker' = [worker EXCEPT !.phase = "waiting"]
    BY <1>1, <1>2, <2>2 DEF TypeOK, Workers
  <2>3. QED
    BY <1>4, <2>1, <2>2 DEF TakeTurn, FinishTurn
<1>5. CASE StartChat \/ EndChat \/ AskUser \/ UserAnswered \/ Shutdown
  BY <1>1, <1>2, <1>5 DEF StartChat, EndChat, AskUser, UserAnswered, Shutdown, Confirming, Processing,
                          TypeOK, Workers
<1>6. ASSUME NEW d \in BOOLEAN, Interrupt(d)
      PROVE  DirectTextMeetsItsPrompt'
  BY <1>1, <1>2, <1>6 DEF Interrupt, Processing, TypeOK, Workers
<1>7. ASSUME worker' = worker
      PROVE  DirectTextMeetsItsPrompt'
  BY <1>2, <1>7
<1>8. CASE StopButton \/ PauseButton \/ \E s \in Submitters, k \in Kinds : TypeText(s, k)
  BY <1>6, <1>8 DEF StopButton, PauseButton, TypeText
<1>9. CASE \/ ChangeContext \/ \E s \in Submitters : Text(s)
           \/ StartListening \/ NothingHeard \/ Heard \/ EnqueueSpeech \/ PutVoice
           \/ UNCHANGED vars \/ Close \/ \E on \in BOOLEAN : Microphone(on)
  BY <1>7, <1>9 DEF ChangeContext, Text, SpeechStopped, Woken, LeaveWaiting, PutText, StartListening,
                    NothingHeard, Heard, EnqueueSpeech, PutVoice, vars, Close, Microphone
<1>10. QED
  BY <1>4, <1>5, <1>8, <1>9 DEF Next

-----------------------------------------------------------------------------
(* What becomes of the input on its way                                    *)

LEMMA CourseFacts ==
  ASSUME Inv
  PROVE  /\ TypeOK /\ QueueCourse /\ PutCourse /\ SenderCourse /\ VoiceCourse
         /\ Processing => Carried(worker.turn)
         /\ Len(queue) \in Nat /\ (Len(queue) = 0 <=> queue = <<>>)
         /\ QueueSize \in Nat /\ QueueSize >= 1
<1>1. TypeOK /\ CourseInv
  BY DEF Inv
<1>2. Len(queue) \in Nat /\ (Len(queue) = 0 <=> queue = <<>>)
  BY <1>1, EmptySeq DEF TypeOK
<1>3. QED
  BY <1>1, <1>2, DeliveryAssumption DEF CourseInv

LEMMA CourseAppend ==
  ASSUME Inv, NEW turn \in Turns, queue' = Append(queue, turn), UNCHANGED <<worker, context>>,
         Carried(turn),
         turn.direct => /\ queue = <<>> /\ worker.phase = "waiting"
                        /\ \A f \in {"question", "proposal"} : context[f] \in {0, turn.seen[f]}
  PROVE  QueueCourse'
<1>1. /\ Len(queue') = Len(queue) + 1 /\ queue'[Len(queue) + 1] = turn
      /\ \A i \in 1..Len(queue) : queue'[i] = queue[i]
  BY QueueAppend, CourseFacts
<1>2. \A i \in 1..Len(queue') : i \in 1..Len(queue) \/ i = Len(queue) + 1
  BY <1>1, CourseFacts
<1>3. QED
  BY <1>1, <1>2, CourseFacts DEF QueueCourse, Carried

\* Nobody but the loop touches the queue; a busy worker leaves no direct turn in it.
LEMMA CourseStands ==
  ASSUME Inv, queue' = queue,
         \/ worker'.phase = worker.phase /\ context' = context
         \/ worker'.phase = worker.phase /\ context' = [context EXCEPT !.proposal = 0]
         \/ worker.phase # "waiting"
  PROVE  QueueCourse'
<1>1. context \in Contexts
  BY CourseFacts DEF TypeOK
<1>2. \A f \in {"question", "proposal"} :
         [context EXCEPT !.proposal = 0][f] \in {0, context[f]}
  BY <1>1 DEF Contexts
<1>3. QED
  BY <1>2, CourseFacts DEF QueueCourse, Carried

LEMMA CourseStart ==
  ASSUME Inv, queue # <<>>, StartHead
  PROVE  QueueCourse' /\ (Processing => Carried(worker.turn))'
<1>1. /\ Head(queue) = queue[1] /\ Len(queue) >= 1 /\ Len(queue') = Len(queue) - 1
      /\ \A i \in 1..Len(queue') : queue'[i] = queue[i + 1]
  BY QueueTail, CourseFacts DEF StartHead
<1>2. \A i \in 1..Len(queue') : i + 1 \in 1..Len(queue) /\ i + 1 # 1
  BY <1>1, CourseFacts
<1>3. \A i \in 1..Len(queue') : Carried(queue'[i]) /\ ~queue'[i].direct
  BY <1>1, <1>2, CourseFacts DEF QueueCourse
<1>4. Carried(Head(queue))
  BY <1>1, CourseFacts DEF QueueCourse
<1>5. QED
  BY <1>3, <1>4 DEF QueueCourse, Carried, StartHead

LEMMA PutRecord ==
  ASSUME NEW t
  PROVE  /\ NoText.phase = "idle" /\ NoText.told = "no"
         /\ [NoText EXCEPT !.phase = "putting", !.turn = t].phase = "putting"
         /\ [NoText EXCEPT !.phase = "putting", !.turn = t].told = "no"
         /\ [NoText EXCEPT !.phase = "putting", !.turn = t].turn = t
         /\ AtSlot.phase = "slot"
         /\ [AtSlot EXCEPT !.phase = "putting", !.turn = t].phase = "putting"
         /\ [AtSlot EXCEPT !.phase = "putting", !.turn = t].turn = t
BY DEF NoText, AtSlot

LEMMA CourseDeliver ==
  ASSUME Inv, NEW s \in Senders, Deliver(s), UNCHANGED <<worker, context, voice>>,
         text[s].phase \in {"stopping", "leaving"}, text[s].phase = "leaving" => text[s].go
  PROVE  QueueCourse' /\ PutCourse' /\ SenderCourse'
<1>1. s \in Submitters /\ text[s].told # "blocked"
  BY CourseFacts DEF Senders, SenderCourse
<1> DEFINE put == [NoText EXCEPT !.phase = "putting", !.turn = TurnOf(s)]
<1>2. \/ text' = [text EXCEPT ![s] = NoText]
      \/ text' = [text EXCEPT ![s] = put] /\ ~HasRoom
  BY DeliverCases
<1>3. /\ \A u \in Submitters \ {s} : text'[u] = text[u]
      /\ text'[s] = NoText \/ (text'[s] = put /\ ~HasRoom)
  BY <1>1, <1>2, CourseFacts DEF TypeOK
<1>4. /\ text'[s].told = "no"
      /\ text'[s].phase = "putting" => ~HasRoom /\ text'[s].turn = TurnOf(s)
  <2>1. put.phase = "putting" /\ put.told = "no" /\ put.turn = TurnOf(s)
    BY PutRecord
  <2>2. NoText.phase = "idle" /\ NoText.told = "no"
    BY PutRecord
  <2> HIDE DEF put
  <2>3. QED
    BY <1>3, <2>1, <2>2
<1>5. /\ TurnOf(s) \in Turns /\ Carried(TurnOf(s)) /\ TurnOf(s).seen = text[s].seen
      /\ TurnOf(s).direct = (worker.phase = "waiting" /\ queue = <<>>)
  BY <1>1, DeliveredTurn DEF Carried
<1>6. SenderCourse'
  BY <1>3, <1>4, CourseFacts DEF SenderCourse
<1>7. QueueCourse'
  <2>1. CASE queue' = queue
    BY <2>1, CourseStands
  <2>2. CASE queue' = Append(queue, TurnOf(s)) /\ SameContext(text[s].seen)
    BY <1>5, <2>2, CourseAppend DEF SameContext
  <2>3. QED
    BY <2>1, <2>2, DeliverCases DEF Issue
<1>8. PutCourse'
  <2>1. ASSUME ~HasRoom
        PROVE  ~TurnOf(s).direct
    <3>1. queue # <<>>
      BY <2>1, CourseFacts DEF HasRoom
    <3>2. QED
      BY <1>5, <3>1
  <2>2. QED
    BY <1>1, <1>5, <1>3, <1>4, <2>1, CourseFacts DEF PutCourse, Putting, Carried
<1>9. QED
  BY <1>6, <1>7, <1>8

LEMMA TakingOffKeepsCourse ==
  ASSUME Inv, NEW u \in Submitters, slot = u
  PROVE  /\ TakenOff(u).phase = text[u].phase /\ TakenOff(u).turn = text[u].turn
         /\ text[u].phase # "putting"
         /\ TakenOff(u).told = "blocked" =>
              /\ TakenOff(u).phase \in {"waiting", "leaving"} /\ TakenOff(u).cancelled
              /\ TakenOff(u).phase = "leaving" => ~TakenOff(u).go
<1>1. text[u] \in Texts /\ text[u].phase \in {"waiting", "leaving"}
  BY CourseFacts DEF TypeOK, Inv, SlotHasItsWaiter
<1>2. /\ TakenOff(u).phase = text[u].phase /\ TakenOff(u).turn = text[u].turn
      /\ TakenOff(u).cancelled = TRUE /\ TakenOff(u).go = text[u].go
      /\ TakenOff(u).told = "blocked" => text[u].phase = "waiting"
  BY <1>1 DEF TakenOff, Texts
<1>3. QED
  BY <1>1, <1>2

LEMMA StepCourse ==
  ASSUME Inv, TypeOK', [Next]_vars
  PROVE  CourseInv'
<1>1. /\ TypeOK /\ voice \in Voices /\ worker \in Workers
      /\ \A s \in Submitters : text[s] \in Texts
  BY CourseFacts DEF TypeOK
<1>2. ASSUME \A s \in Submitters : /\ text'[s].phase = text[s].phase /\ text'[s].turn = text[s].turn
                                   /\ text'[s].told = text[s].told /\ text'[s].go = text[s].go
                                   /\ text'[s].cancelled = text[s].cancelled
      PROVE  SenderCourse' /\ (VoiceTickets' = VoiceTickets /\ voice'.phase = voice.phase
                               /\ voice'.turn = voice.turn => PutCourse')
  BY <1>2, CourseFacts DEF SenderCourse, PutCourse, Putting, Carried
<1>3. ASSUME voice' = voice, epoch' = epoch
      PROVE  VoiceCourse'
  BY <1>3, CourseFacts DEF VoiceCourse
<1>4. ASSUME worker'.turn = worker.turn, Processing' => Processing
      PROVE  (Processing => Carried(worker.turn))'
  BY <1>4, CourseFacts DEF Carried
<1>5. ASSUME text' = text, voice' = voice, epoch' = epoch
      PROVE  PutCourse' /\ SenderCourse' /\ VoiceCourse'
  BY <1>2, <1>3, <1>5 DEF VoiceTickets
<1>6. ASSUME WakeAll, epoch' = epoch
      PROVE  PutCourse' /\ SenderCourse' /\ VoiceCourse'
  <2>1. \A s \in Submitters : /\ text'[s].phase = text[s].phase /\ text'[s].turn = text[s].turn
                              /\ text'[s].told = text[s].told /\ text'[s].go = text[s].go
                              /\ text'[s].cancelled = text[s].cancelled
    BY <1>1, <1>6 DEF WakeAll, Texts
  <2>2. /\ voice'.phase = voice.phase /\ voice'.turn = voice.turn
        /\ voice'.epoch = voice.epoch /\ voice'.switched = voice.switched
    BY <1>1, <1>6 DEF WakeAll, Voices
  <2>3. VoiceCourse'
    BY <1>6, <2>2, CourseFacts DEF VoiceCourse
  <2>4. QED
    BY <1>2, <2>1, <2>2, <2>3 DEF VoiceTickets
<1>7. CASE TakeTurn
  BY <1>5, <1>7, CourseStart DEF TakeTurn, CourseInv
<1>8. CASE FinishTurn
  <2>1. CASE queue # <<>> /\ StartHead
    BY <1>6, <1>8, <2>1, CourseStart DEF FinishTurn, CourseInv
  <2>2. CASE worker' = [worker EXCEPT !.phase = "waiting"] /\ queue' = queue
    <3>1. worker'.phase = "waiting" /\ worker.phase # "waiting"
      BY <1>1, <1>8, <2>2 DEF FinishTurn, Workers
    <3>2. QED
      BY <1>6, <1>8, <2>2, <3>1, CourseStands DEF FinishTurn, CourseInv, Processing
  <2>3. QED
    BY <1>8, <2>1, <2>2 DEF FinishTurn
<1>9. ASSUME worker.phase \in {"local", "chat", "confirming"}, queue' = queue, epoch' = epoch,
             worker'.turn = worker.turn,
             WakeAll \/ (text' = text /\ voice' = voice)
      PROVE  CourseInv'
  <2>1. Processing
    BY <1>9 DEF Processing
  <2>2. QED
    BY <1>4, <1>5, <1>6, <1>9, <2>1, CourseStands DEF CourseInv
<1>10. CASE ChangeContext \/ StartChat \/ EndChat \/ AskUser \/ UserAnswered
  <2>1. worker'.turn = worker.turn /\ worker.phase \in {"local", "chat", "confirming"}
    <3>1. \A p : [worker EXCEPT !.phase = p].turn = worker.turn
      BY <1>1 DEF Workers
    <3>2. QED
      BY <1>10, <3>1 DEF ChangeContext, StartChat, EndChat, AskUser, UserAnswered, Confirming
  <2>2. QED
    BY <1>9, <1>10, <2>1 DEF ChangeContext, StartChat, EndChat, AskUser, UserAnswered
<1>11. ASSUME NEW d \in BOOLEAN, Interrupt(d), queue' = queue
       PROVE  QueueCourse' /\ (Processing => Carried(worker.turn))'
  <2>1. worker'.turn = worker.turn /\ (worker'.phase = worker.phase \/ worker.phase = "chat")
    BY <1>1, <1>11 DEF Interrupt, Workers
  <2>2. Processing' => Processing
    BY <2>1 DEF Processing
  <2>3. QED
    BY <1>4, <1>11, <2>1, <2>2, CourseStands DEF Interrupt
<1>12. ASSUME NEW s \in Submitters, NEW k \in Kinds, TypeText(s, k)
       PROVE  CourseInv'
  <2>1. QueueCourse' /\ (Processing => Carried(worker.turn))'
    BY <1>11, <1>12 DEF TypeText
  <2>2. text'[s].told = "no" /\ text'[s].phase = "stopping"
    BY <1>1, <1>12 DEF TypeText, TypeOK, NoText
  <2>3. \A u \in Submitters \ {s} : text'[u] = text[u]
    BY <1>1, <1>12 DEF TypeText, TypeOK
  <2>4. SenderCourse' /\ PutCourse'
    BY <1>12, <2>2, <2>3, CourseFacts DEF TypeText, SenderCourse, PutCourse, Putting
  <2>5. QED
    BY <1>3, <1>12, <2>1, <2>4 DEF TypeText, CourseInv
<1>13. ASSUME NEW s \in Submitters, queue' = queue, UNCHANGED <<worker, context, voice, epoch>>,
              text'[s].phase # "putting", text'[s].told # "blocked",
              \A u \in Submitters \ {s} :
                 /\ text'[u].phase = text[u].phase /\ text'[u].turn = text[u].turn
                 /\ text'[u].told = "blocked" =>
                      /\ text'[u].phase \in {"waiting", "leaving"} /\ text'[u].cancelled
                      /\ text'[u].phase = "leaving" => ~text'[u].go
       PROVE  CourseInv'
  <2>1. SenderCourse'
    BY <1>13 DEF SenderCourse
  <2>2. PutCourse'
    BY <1>13, CourseFacts DEF PutCourse, Putting
  <2>3. QED
    BY <1>3, <1>4, <1>13, <2>1, <2>2, CourseStands DEF CourseInv, Processing
<1>14. ASSUME NEW s \in Submitters, SpeechStopped(s)
       PROVE  CourseInv'
  <2>1. s \in Senders /\ text[s].phase = "stopping" /\ text[s].told # "blocked"
    BY <1>14, CourseFacts DEF SpeechStopped, Senders, SenderCourse
  <2>2. UNCHANGED <<worker, context, voice, epoch>>
    BY <1>14 DEF SpeechStopped
  <2>3. CASE Deliver(s)
    BY <1>3, <1>4, <2>1, <2>2, <2>3, CourseDeliver DEF CourseInv, Processing
  <2>4. CASE queue' = queue /\ text' = [text EXCEPT ![s].phase = "waiting"]
    <3>1. text'[s].phase = "waiting" /\ text'[s].told = text[s].told
      BY <1>1, <2>4 DEF TypeOK, Texts
    <3>2. \A u \in Submitters \ {s} : text'[u] = text[u]
      BY <1>1, <2>4 DEF TypeOK
    <3>3. QED
      BY <1>13, <2>1, <2>2, <2>4, <3>1, <3>2, CourseFacts DEF SenderCourse
  <2>5. CASE queue' = queue /\ text' = [text EXCEPT ![s] = NoText]
    <3>1. text'[s].phase = "idle" /\ text'[s].told = "no"
      BY <1>1, <2>5 DEF TypeOK, NoText
    <3>2. \A u \in Submitters \ {s} : text'[u] = text[u]
      BY <1>1, <2>5 DEF TypeOK
    <3>3. QED
      BY <1>13, <2>2, <2>5, <3>1, <3>2, CourseFacts DEF SenderCourse
  <2>6. CASE /\ queue' = queue /\ slot \in Submitters
             /\ text' = [text EXCEPT ![s] = NoText, ![slot] = TakenOff(slot)]
    <3>1. slot # s
      BY <2>1, <2>6 DEF Inv, SlotHasItsWaiter
    <3>2. text'[s].phase = "idle" /\ text'[s].told = "no" /\ text'[slot] = TakenOff(slot)
      BY <1>1, <2>6, <3>1 DEF TypeOK, NoText
    <3>3. \A u \in Submitters \ {s, slot} : text'[u] = text[u]
      BY <1>1, <2>6 DEF TypeOK
    <3>4. /\ TakenOff(slot).phase = text[slot].phase /\ TakenOff(slot).turn = text[slot].turn
          /\ TakenOff(slot).told = "blocked" =>
               /\ TakenOff(slot).phase \in {"waiting", "leaving"} /\ TakenOff(slot).cancelled
               /\ TakenOff(slot).phase = "leaving" => ~TakenOff(slot).go
      BY <2>6, TakingOffKeepsCourse
    <3>5. \A u \in Submitters \ {s} :
             /\ text'[u].phase = text[u].phase /\ text'[u].turn = text[u].turn
             /\ text'[u].told = "blocked" =>
                  /\ text'[u].phase \in {"waiting", "leaving"} /\ text'[u].cancelled
                  /\ text'[u].phase = "leaving" => ~text'[u].go
      BY <3>2, <3>3, <3>4, CourseFacts DEF SenderCourse
    <3>6. QED
      BY <1>13, <2>2, <2>6, <3>2, <3>5
  <2>7. QED
    BY <1>1, <1>14, <2>3, <2>4, <2>5, <2>6 DEF SpeechStopped, TypeOK
<1>15. ASSUME NEW s \in Submitters, Woken(s)
       PROVE  CourseInv'
  <2>1. /\ text'[s].phase = "leaving" /\ text'[s].told = text[s].told
        /\ text'[s].cancelled = text[s].cancelled
        /\ text'[s].go = ~text[s].cancelled
    BY <1>1, <1>15 DEF Woken, Proceeds, TypeOK, Texts
  <2>2. \A u \in Submitters \ {s} : text'[u] = text[u]
    BY <1>1, <1>15 DEF Woken, TypeOK
  <2>3. SenderCourse'
    BY <1>15, <2>1, <2>2, CourseFacts DEF SenderCourse
  <2>4. PutCourse'
    BY <1>15, <2>1, <2>2, CourseFacts DEF Woken, PutCourse, Putting
  <2>5. QED
    BY <1>3, <1>4, <1>15, <2>3, <2>4, CourseStands DEF Woken, CourseInv, Processing
<1>16. ASSUME NEW s \in Submitters, LeaveWaiting(s)
       PROVE  CourseInv'
  <2>1. s \in Senders /\ text[s].phase = "leaving" /\ UNCHANGED <<worker, context, voice, epoch>>
    BY <1>16 DEF LeaveWaiting, Senders
  <2>2. CASE text[s].go /\ Deliver(s)
    BY <1>3, <1>4, <2>1, <2>2, CourseDeliver DEF CourseInv, Processing
  <2>3. CASE text' = [text EXCEPT ![s] = NoText] /\ queue' = queue
    <3>1. text'[s].phase = "idle" /\ text'[s].told = "no"
      BY <1>1, <2>3 DEF TypeOK, NoText
    <3>2. \A u \in Submitters \ {s} : text'[u] = text[u]
      BY <1>1, <2>3 DEF TypeOK
    <3>3. QED
      BY <1>13, <2>1, <2>3, <3>1, <3>2, CourseFacts DEF SenderCourse
  <2>4. QED
    BY <1>16, <2>2, <2>3 DEF LeaveWaiting
<1>17. ASSUME NEW s \in Submitters, PutText(s)
       PROVE  CourseInv'
  <2>1. text[s].turn \in Turns /\ Carried(text[s].turn) /\ ~text[s].turn.direct
    BY <1>1, <1>17, CourseFacts DEF PutText, PutCourse, Putting, Texts
  <2>2. QueueCourse'
    BY <1>17, <2>1, CourseAppend DEF PutText
  <2>3. text'[s].phase = "idle" /\ text'[s].told = "no"
    BY <1>1, <1>17 DEF PutText, TypeOK, NoText
  <2>4. \A u \in Submitters \ {s} : text'[u] = text[u]
    BY <1>1, <1>17 DEF PutText, TypeOK
  <2>5. SenderCourse' /\ PutCourse'
    BY <1>17, <2>3, <2>4, CourseFacts DEF PutText, SenderCourse, PutCourse, Putting
  <2>6. QED
    BY <1>3, <1>4, <1>17, <2>2, <2>5 DEF PutText, CourseInv, Processing
<1>18. CASE StopButton
  <2>1. QueueCourse' /\ (Processing => Carried(worker.turn))'
    BY <1>11, <1>18 DEF StopButton
  <2>2. CASE text' = text
    BY <1>5, <1>18, <2>1, <2>2 DEF StopButton, CourseInv
  <2>3. CASE slot \in Submitters /\ text' = [text EXCEPT ![slot] = TakenOff(slot)]
    <3>1. text'[slot] = TakenOff(slot) /\ \A u \in Submitters \ {slot} : text'[u] = text[u]
      BY <1>1, <2>3 DEF TypeOK
    <3>2. /\ TakenOff(slot).phase = text[slot].phase /\ text[slot].phase # "putting"
          /\ TakenOff(slot).told = "blocked" =>
               /\ TakenOff(slot).phase \in {"waiting", "leaving"} /\ TakenOff(slot).cancelled
               /\ TakenOff(slot).phase = "leaving" => ~TakenOff(slot).go
      BY <2>3, TakingOffKeepsCourse
    <3>3. SenderCourse'
      BY <3>1, <3>2, CourseFacts DEF SenderCourse
    <3>4. PutCourse'
      BY <1>18, <3>1, <3>2, CourseFacts DEF StopButton, PutCourse, Putting
    <3>5. QED
      BY <1>3, <1>18, <2>1, <3>3, <3>4 DEF StopButton, CourseInv
  <2>4. QED
    BY <1>1, <1>18, <2>2, <2>3 DEF StopButton, CancelWaiting, TypeOK
<1>19. CASE PauseButton
  BY <1>5, <1>11, <1>19 DEF PauseButton, CourseInv
<1>20. ASSUME UNCHANGED <<queue, worker, context, text>>, VoiceCourse',
              voice'.phase = "putting" => UNCHANGED voice
       PROVE  CourseInv'
  <2>1. PutCourse' /\ SenderCourse'
    BY <1>20, CourseFacts DEF PutCourse, SenderCourse, Putting
  <2>2. QED
    BY <1>4, <1>20, <2>1, CourseStands DEF CourseInv, Processing
<1>21. CASE StartListening
  <2>1. voice'.phase = "recording" /\ voice'.epoch = epoch /\ voice'.switched = FALSE
    BY <1>21 DEF StartListening, AtSlot
  <2>2. epoch' = epoch /\ epoch \in Nat
    BY <1>1, <1>21 DEF StartListening, TypeOK
  <2>3. QED
    BY <1>20, <1>21, <2>1, <2>2 DEF StartListening, VoiceCourse
<1>22. CASE NothingHeard \/ Heard
  <2>1. \/ voice'.phase = "slot"
        \/ voice'.phase = "heard" /\ voice'.switched = voice.switched /\ voice.epoch = epoch
    BY <1>1, <1>22 DEF NothingHeard, Heard, SameMicrophone, AtSlot, Voices
  <2>2. voice.phase = "recording" /\ epoch \in Nat
    BY <1>1, <1>22 DEF NothingHeard, Heard, TypeOK
  <2>3. VoiceCourse'
    BY <2>1, <2>2, CourseFacts DEF VoiceCourse
  <2>4. QED
    BY <1>20, <1>22, <2>1, <2>3 DEF NothingHeard, Heard
<1>23. CASE EnqueueSpeech
  <2>1. /\ TurnOfSpeech \in Turns /\ Carried(TurnOfSpeech) /\ TurnOfSpeech.direct = FALSE
        /\ Issue(TurnOfSpeech)
    BY <1>23, SpokenTurn, CourseFacts DEF EnqueueSpeech, VoiceCourse, Carried
  <2>2. \/ voice'.phase = "slot"
        \/ voice'.phase = "putting" /\ voice'.turn = TurnOfSpeech
    <3>1. AtSlot.phase = "slot"
      BY PutRecord
    <3>2. /\ [AtSlot EXCEPT !.phase = "putting", !.turn = TurnOfSpeech].phase = "putting"
          /\ [AtSlot EXCEPT !.phase = "putting", !.turn = TurnOfSpeech].turn = TurnOfSpeech
      BY PutRecord
    <3>3. QED
      BY <1>23, <3>1, <3>2, SpokenTurn
  <2>3. QueueCourse'
    BY <1>23, <2>1, CourseAppend, CourseStands DEF Issue, EnqueueSpeech
  <2>4. PutCourse' /\ SenderCourse' /\ VoiceCourse'
    BY <1>23, <2>1, <2>2, CourseFacts DEF EnqueueSpeech, PutCourse, SenderCourse, VoiceCourse,
                                          Putting, Carried
  <2>5. QED
    BY <1>4, <1>23, <2>3, <2>4 DEF EnqueueSpeech, CourseInv, Processing
<1>24. CASE PutVoice
  <2>1. voice.turn \in Turns /\ Carried(voice.turn) /\ ~voice.turn.direct /\ voice'.phase = "slot"
    BY <1>1, <1>24, CourseFacts DEF PutVoice, PutCourse, Voices, AtSlot
  <2>2. QueueCourse'
    BY <1>24, <2>1, CourseAppend DEF PutVoice
  <2>3. PutCourse' /\ SenderCourse' /\ VoiceCourse'
    BY <1>24, <2>1, CourseFacts DEF PutVoice, PutCourse, SenderCourse, VoiceCourse, Putting
  <2>4. QED
    BY <1>4, <1>24, <2>2, <2>3 DEF PutVoice, CourseInv, Processing
<1>25. ASSUME NEW on \in BOOLEAN, Microphone(on)
       PROVE  CourseInv'
  <2>1. /\ voice'.phase = voice.phase /\ voice'.turn = voice.turn /\ voice'.epoch = voice.epoch
        /\ voice'.switched = (voice.switched \/ voice.phase = "recording")
    BY <1>1, <1>25 DEF Microphone, Voices
  <2>2. epoch' = epoch + 1 /\ epoch \in Nat /\ voice.epoch \in Nat
    BY <1>1, <1>25 DEF Microphone, TypeOK, Voices
  <2>3. VoiceCourse'
    <3>1. voice.phase = "recording" => voice.epoch < epoch'
      BY <2>2, CourseFacts DEF VoiceCourse
    <3>2. voice.phase = "heard" => ~voice.switched
      BY CourseFacts DEF VoiceCourse
    <3>3. voice'.epoch \in Nat /\ epoch' \in Nat
      BY <2>1, <2>2
    <3>4. voice'.phase = "recording" => voice'.epoch <= epoch' /\ voice'.epoch < epoch'
      BY <2>1, <3>1, <3>3
    <3>5. voice'.phase = "heard" => ~voice'.switched
      BY <2>1, <3>2
    <3>6. QED
      BY <3>4, <3>5 DEF VoiceCourse
  <2>4. PutCourse' /\ SenderCourse'
    BY <1>25, <2>1, CourseFacts DEF Microphone, PutCourse, SenderCourse, Putting, Carried
  <2>5. QED
    BY <1>4, <1>25, <2>3, <2>4, CourseStands DEF Microphone, CourseInv, Processing
<1>26. CASE Shutdown \/ Close
  <2>1. \A s \in Submitters :
          /\ text'[s].phase = "putting" => text[s].phase = "putting" /\ text'[s].turn = text[s].turn
          /\ text'[s].told = "blocked" =>
               /\ text[s].told = "blocked" /\ text'[s].phase = text[s].phase
               /\ text'[s].cancelled = text[s].cancelled /\ text'[s].go = text[s].go
    BY <1>1, <1>26 DEF Shutdown, Close, Texts, NoText
  <2>2. voice'.phase = "gone" \/ voice' = voice
    BY <1>26 DEF Shutdown, Close, AtSlot
  <2>3. epoch' = epoch /\ queue' = queue /\ worker'.turn = worker.turn
    BY <1>1, <1>26 DEF Shutdown, Close, Workers
  <2>4. PutCourse' /\ SenderCourse' /\ VoiceCourse'
    BY <2>1, <2>2, <2>3, CourseFacts DEF PutCourse, SenderCourse, VoiceCourse, Putting
  <2>5. \/ worker'.phase = "down" /\ worker.phase = "local"
        \/ worker' = worker /\ context' = context
    BY <1>1, <1>26 DEF Shutdown, Close, Workers
  <2>6. QED
    BY <1>4, <2>3, <2>4, <2>5, CourseStands DEF CourseInv, Processing
<1>27. CASE UNCHANGED vars
  BY <1>4, <1>5, <1>27, CourseStands DEF vars, CourseInv, Processing
<1>28. QED
  BY <1>7, <1>8, <1>10, <1>12, <1>14, <1>15, <1>16, <1>17, <1>18, <1>19, <1>21, <1>22, <1>23, <1>24,
     <1>25, <1>26, <1>27 DEF Next, Text

-----------------------------------------------------------------------------
(* The theorems                                                            *)

LEMMA InitInv == Init => Inv
<1> SUFFICES ASSUME Init PROVE Inv
  OBVIOUS
<1>1. TypeOK
  <2>1. worker \in Workers
    BY Records DEF Init, Workers, WorkerPhases
  <2>2. text \in [Submitters -> Texts] /\ voice \in Voices /\ context \in Contexts
    BY Records DEF Init
  <2>3. queue \in Seq(Turns) /\ Len(queue) <= QueueSize
    BY EmptySeq, DeliveryAssumption DEF Init
  <2>4. issued \in 0..MaxTurns /\ prompts \in 0..MaxPrompts /\ epoch \in 0..MaxEpoch
    BY DeliveryAssumption DEF Init
  <2>5. QED
    BY <2>1, <2>2, <2>3, <2>4 DEF Init, TypeOK
<1>2. /\ \A s \in Submitters : text[s].phase = "idle" /\ text[s].told = "no"
      /\ voice.phase = "slot" /\ Len(queue) = 0 /\ worker.turn.ticket = 0
  BY DEF Init, NoText, AtSlot, NoTurn
<1>3. Accepted = {} /\ QueuedTickets = {} /\ PutTickets = {} /\ VoiceTickets = {} /\ Putting = {}
  BY <1>2 DEF Accepted, QueuedTickets, PutTickets, VoiceTickets, Putting
<1>4. TicketsAccountedFor
  BY <1>3, FS_EmptySet, DeliveryAssumption DEF Init, TicketsAccountedFor
<1>5. IdleIsTruthful /\ DirectTextMeetsItsPrompt
  BY DEF Init, IdleIsTruthful, DirectTextMeetsItsPrompt, Processing
<1>6. SlotHasItsWaiter
  BY <1>2, DeliveryAssumption DEF Init, SlotHasItsWaiter
<1>7. TicketsOnce
  BY <1>2, <1>3 DEF Init, TicketsOnce
<1>8. BoundInv
  <2>1. Senders = {} /\ Cardinality(Senders) = 0
    BY <1>2, FS_EmptySet DEF Senders
  <2>2. QED
    BY <1>2, <2>1, DeliveryAssumption DEF Init, BoundInv, Underway
<1>9. CourseInv
  BY <1>2, <1>3 DEF Init, CourseInv, QueueCourse, PutCourse, SenderCourse, VoiceCourse, Processing
<1>10. QED
  BY <1>1, <1>4, <1>5, <1>6, <1>7, <1>8, <1>9 DEF Inv

\* The tickets, command_idle, the waiting place and the course of every input are true
\* of each other in every reachable state (_command_loop, _submit_text, DispatchGuard).
THEOREM DeliveryIsConsistent == Spec => []Inv
<1>1. Init => Inv
  BY InitInv
<1>2. TypeOK => Cardinality(Accepted) < Capacity
  BY CapacityIsEnough
<1>3. (TypeOK => Cardinality(Accepted) < Capacity)'
  BY <1>2, PTL
<1>4. Inv /\ [Next]_vars => Inv'
  <2> SUFFICES ASSUME Inv, [Next]_vars PROVE Inv'
    OBVIOUS
  <2>1. TypeOK'
    BY StepTypes
  <2>2. TicketsOnce' /\ Known'
    BY <2>1, StepTickets
  <2>3. TicketsAccountedFor'
    BY <1>3, <2>1, <2>2 DEF TicketsAccountedFor, Known, TicketsOnce
  <2>4. QED
    BY <2>1, <2>2, <2>3, StepBound, StepIdle, StepSlot, StepCourse, StepDirect DEF Inv
<1>5. QED
  BY <1>1, <1>4, PTL DEF Spec

\* A typed line that found the loop free never answers a prompt that its author had not
\* seen (_delivery_context).
THEOREM DirectTextIsBound == Spec => []DirectTextMeetsItsPrompt
<1>1. Inv => DirectTextMeetsItsPrompt
  BY DEF Inv
<1>2. QED
  BY <1>1, DeliveryIsConsistent, PTL

\* Input that was withdrawn in time does not run: the stop button met it while it was
\* still blocked, or the microphone was switched during the recording.
THEOREM WithdrawnInputNeverRuns == Spec => []WithdrawnInputIsDropped
<1>1. Inv => WithdrawnInputIsDropped
  BY DEF Inv, CourseInv, Carried, WithdrawnInputIsDropped, BlockedInputObeysStop,
         SwitchedOffSpeechIsDropped
<1>2. QED
  BY <1>1, DeliveryIsConsistent, PTL
-------------------------------------------------------------------------------
(* Interface *)

LEMMA MaxOfTwo ==
  ASSUME NEW a \in Nat, NEW b \in Nat
  PROVE  Max({a, b}) = IF a <= b THEN b ELSE a
<1> DEFINE most == IF a <= b THEN b ELSE a
<1>1. most \in {a, b} /\ \A y \in {a, b} : most >= y
  OBVIOUS
<1>2. \A x \in {a, b} : (\A y \in {a, b} : x >= y) => x = most
  OBVIOUS
<1> HIDE DEF most
<1>3. Max({a, b}) = most
  BY <1>1, <1>2 DEF Max
<1> QED
  BY <1>3 DEF most

LEMMA RemovedFrom ==
  ASSUME NEW S, NEW s \in Seq(S), NEW i \in DOMAIN s
  PROVE  /\ RemoveAt(s, i) \in Seq(S)
         /\ \A j \in DOMAIN RemoveAt(s, i) : \E k \in DOMAIN s : RemoveAt(s, i)[j] = s[k]
<1> DEFINE front == SubSeq(s, 1, i - 1)
           back == SubSeq(s, i + 1, Len(s))
<1>1. Len(s) \in Nat /\ DOMAIN s = 1..Len(s) /\ i \in 1..Len(s)
  BY LenProperties
<1>2. /\ front \in Seq(S) /\ Len(front) = i - 1
      /\ \A j \in 1..(i - 1) : front[j] = s[j]
  BY <1>1, SubSeqProperties
<1>3. /\ back \in Seq(S) /\ Len(back) = Len(s) - i
      /\ \A j \in 1..(Len(s) - i) : back[j] = s[i + j]
  <2>1. \A j \in i + 1..Len(s) : s[j] \in S
    BY <1>1, ElementOfSeq
  <2>2. back = [j \in 1..(Len(s) - i) |-> s[i + j]]
    BY <1>1
  <2>3. back \in Seq(S) /\ Len(back) = Len(s) - i
    BY <1>1, SubSeqProperties
  <2> QED
    BY <2>2, <2>3
<1> HIDE DEF front, back
<1>4. RemoveAt(s, i) = front \o back
  BY DEF RemoveAt, front, back
<1>5. /\ front \o back \in Seq(S)
      /\ Len(front \o back) = Len(front) + Len(back)
      /\ \A j \in 1..(Len(front) + Len(back)) :
           (front \o back)[j] = IF j <= Len(front) THEN front[j] ELSE back[j - Len(front)]
  BY <1>2, <1>3, ConcatProperties
<1>6. DOMAIN (front \o back) = 1..(Len(front) + Len(back))
  BY <1>5, LenProperties
<1>7. ASSUME NEW j \in 1..(Len(front) + Len(back))
      PROVE  \E k \in DOMAIN s : (front \o back)[j] = s[k]
  <2>1. CASE j <= Len(front)
    BY <1>1, <1>2, <1>3, <1>5, <2>1
  <2>2. CASE j > Len(front)
    <3>1. j - Len(front) \in 1..(Len(s) - i)
      BY <1>1, <1>2, <1>3, <2>2
    <3>2. (front \o back)[j] = s[i + (j - Len(front))] /\ i + (j - Len(front)) \in DOMAIN s
      BY <1>1, <1>2, <1>3, <1>5, <2>2, <3>1
    <3> QED
      BY <3>2
  <2> QED
    BY <1>1, <1>2, <1>3, <2>1, <2>2
<1> QED
  BY <1>4, <1>5, <1>6, <1>7

\* What is published or not: the log goes on, and only a window is woken.
LEMMA LogKept ==
  ASSUME InterfaceInv, Publish \/ Notify \/ Silent
  PROVE  /\ log' \in [first : Nat, last : 0 .. MaxEvents] /\ log'.first \in 1 .. log'.last + 1
         /\ log.last <= log'.last /\ push' \in Pushes
         /\ shell = "page" =>
              /\ ~push'.woken /\ ~push'.scheduled /\ ~push'.refresh
              /\ log'.first <= log'.last \/ log'.last = 0
         /\ shell = "window" => log'.first = log.first
<1>1. /\ log \in [first : Nat, last : 0 .. MaxEvents] /\ log.first \in 1 .. log.last + 1
      /\ push \in Pushes /\ Cap \in Nat \ {0} /\ MaxEvents \in Nat
  BY InterfaceAssumption DEF InterfaceInv, InterfaceTypeOK
<1>2. shell = "page" => /\ ~push.woken /\ ~push.scheduled /\ ~push.refresh
                        /\ log.first <= log.last \/ log.last = 0
  BY DEF InterfaceInv, ReadersInv
<1>3. /\ Published \in [first : Nat, last : 0 .. MaxEvents]
      /\ Published.first \in 1 .. Published.last + 1 /\ log.last <= Published.last
      /\ shell = "page" => Published.first <= Published.last \/ Published.last = 0
      /\ shell = "window" => Published.first = log.first
  <2> DEFINE n == log.last + 1
             kept == IF n - log.first >= Cap THEN log.first + 1 ELSE log.first
  <2>1. CASE n > MaxEvents \/ (shell = "window" /\ n - log.first >= Cap)
    <3>1. Published = log
      BY <2>1 DEF Published
    <3> QED
      BY <1>1, <1>2, <3>1
  <2>2. CASE ~(n > MaxEvents \/ (shell = "window" /\ n - log.first >= Cap))
    <3>1. Published = [first |-> kept, last |-> n]
      BY <2>2 DEF Published
    <3>2. kept \in 1 .. n /\ n \in 0 .. MaxEvents /\ (shell = "window" => kept = log.first)
      BY <1>1, <2>2
    <3> HIDE DEF kept
    <3> QED
      BY <1>1, <3>1, <3>2
  <2> QED
    BY <2>1, <2>2
<1>4. Notified \in Pushes /\ (shell = "page" => Notified = push)
  <2>1. PICK woken \in BOOLEAN : woken = (push.woken \/ (shell = "window" /\ Serving))
    <3>1. CASE push.woken \/ (shell = "window" /\ Serving)
      BY <3>1
    <3>2. CASE ~(push.woken \/ (shell = "window" /\ Serving))
      BY <3>2
    <3> QED
      BY <3>1, <3>2
  <2>2. Notified = [push EXCEPT !.woken = woken]
    BY <2>1 DEF Notified
  <2>3. shell = "page" => woken = FALSE /\ push.woken = FALSE
    BY <1>1, <1>2, <2>1 DEF Pushes
  <2> QED
    BY <1>1, <2>2, <2>3 DEF Pushes
<1>5. CASE Publish
  BY <1>2, <1>3, <1>4, <1>5 DEF Publish
<1>6. CASE Notify
  BY <1>1, <1>2, <1>4, <1>6 DEF Notify
<1>7. CASE Silent
  BY <1>1, <1>2, <1>7 DEF Silent
<1> QED
  BY <1>5, <1>6, <1>7

\* A step that leaves alone what a reader is to be shown.
LEMMA StepKept ==
  ASSUME InterfaceInv, UNCHANGED <<shell, closing>>, cancel' \in BOOLEAN, stage' \in Stages,
         shell = "page" => stage' \in {"running", "ending", "closed", "over"},
         app' \in View, log' \in [first : Nat, last : 0 .. MaxEvents],
         log'.first \in 1 .. log'.last + 1, log.last <= log'.last, push' \in Pushes,
         shell = "page" => /\ ~push'.woken /\ ~push'.scheduled /\ ~push'.refresh
                           /\ log'.first <= log'.last \/ log'.last = 0,
         shell = "window" => log'.first = log.first,
         wire' \in Wires, wire'.packets = wire.packets,
         \A i \in DOMAIN wire'.jobs : wire'.jobs[i].begun = wire'.jobs[i].question,
         submission' \in Submissions, submission'.begun = submission'.question,
         ~(stage' \in {"attached", "running", "ending"}) => submission' = Nobody,
         client' \in Clients, client'.cursor = client.cursor, client'.gap = client.gap,
         client'.warned = client.warned, spent' \in [losses : Nat, attempts : Nat]
  PROVE  InterfaceInv'
<1>1. UNCHANGED <<Questions, NoDraft>>
  BY DEF Questions, NoDraft
<1>2. UNCHANGED <<View, Wires, Submissions, Clients, Pushes>>
  BY <1>1 DEF View, Job, Packet, Wires, Submissions, Clients, Pushes
<1>3. client.cursor \in Nat /\ client.cursor <= log.last /\ log.last \in Nat /\ log'.last \in Nat
  BY DEF InterfaceInv, InterfaceTypeOK, Clients
<1>4. InterfaceTypeOK'
  BY <1>2, <1>3 DEF InterfaceInv, InterfaceTypeOK
<1>5. GapsAreTold'
  BY DEF InterfaceInv, GapsAreTold
<1>6. CallsInv' /\ ClosedIsQuiet'
  BY DEF CallsInv, ClosedIsQuiet, Serving
<1>7. ReadersInv'
  <2>1. \A i \in DOMAIN wire.packets : wire.packets[i].to \in Nat
    <3>1. wire.packets \in Seq(Packet)
      BY DEF InterfaceInv, InterfaceTypeOK, Wires
    <3>2. \A i \in DOMAIN wire.packets : wire.packets[i] \in Packet
      BY <3>1, ElementOfSeq, LenProperties
    <3> QED
      BY <3>2 DEF Packet
  <2>2. \A i \in DOMAIN wire.packets :
          ~wire.packets[i].truncated /\ wire.packets[i].to <= log'.last
    BY <1>3, <2>1 DEF InterfaceInv, ReadersInv
  <2>3. Delivered' = Delivered
    BY DEF Delivered
  <2> QED
    BY <2>2, <2>3 DEF InterfaceInv, ReadersInv
<1> QED
  BY <1>4, <1>5, <1>6, <1>7 DEF InterfaceInv

LEMMA Parts ==
  ASSUME InterfaceInv
  PROVE  /\ app.phase \in Phases /\ app.question \in Questions /\ 0 \in Questions
         /\ client.view \in View /\ client.view.question \in Questions
         /\ client.draft \in Questions \cup {NoDraft}
         /\ submission.question \in Questions /\ submission.begun \in Questions
         /\ wire.jobs \in Seq(Job) /\ wire.replies \in Seq(Outcome)
         /\ wire.packets \in Seq(Packet) /\ Nobody \in Submissions
         /\ Nobody.begun = Nobody.question /\ State \in View
         /\ \A q \in Questions : [app EXCEPT !.question = q] \in View
         /\ \A p \in Phases : [app EXCEPT !.phase = p] \in View
<1>1. 0 \in Questions
  BY InterfaceAssumption DEF Questions, InterfaceInv, InterfaceTypeOK
<1> USE DEF InterfaceInv, InterfaceTypeOK
<1>2. app.phase \in Phases /\ app.question \in Questions
  BY DEF View
<1>3. client.view \in View /\ client.draft \in Questions \cup {NoDraft}
  BY DEF Clients
<1>4. submission.question \in Questions /\ submission.begun \in Questions
  BY DEF Submissions
<1>5. wire.jobs \in Seq(Job) /\ wire.replies \in Seq(Outcome) /\ wire.packets \in Seq(Packet)
  BY DEF Wires
<1>6. Nobody \in Submissions /\ Nobody.begun = Nobody.question
  BY <1>1 DEF Nobody, Submissions
<1>7. State \in View
  BY <1>2 DEF State, View
<1>8. /\ \A q \in Questions : [app EXCEPT !.question = q] \in View
      /\ \A p \in Phases : [app EXCEPT !.phase = p] \in View
  BY DEF View
<1>9. client.view.question \in Questions
  BY <1>3 DEF View
<1> QED
  BY <1>1, <1>2, <1>3, <1>4, <1>5, <1>6, <1>7, <1>8, <1>9

LEMMA HushedView == InterfaceInv => Hushed \in View
<1> SUFFICES ASSUME InterfaceInv PROVE Hushed \in View
  OBVIOUS
<1>1. \A p \in Phases : [app EXCEPT !.phase = p] \in View
  BY Parts
<1>2. (IF app.phase = "speaking" THEN "thinking" ELSE app.phase) \in Phases
  BY Parts DEF Phases
<1> QED
  BY <1>1, <1>2 DEF Hushed

\* The core: its phase, its question and the message that is being handed over.
LEMMA CoreStep ==
  ASSUME InterfaceInv, Core \/ SubmissionBegins \/ SubmissionEnds
  PROVE  InterfaceInv'
<1>1. UNCHANGED <<core, wire, client, spent>>
  BY DEF Core, TurnBegins, TurnEnds, Speak, VoiceEnds, Ask, QuestionEnds, SubmissionBegins,
         SubmissionEnds, Rest
<1>2. Publish \/ Notify \/ Silent
  BY DEF Core, TurnBegins, TurnEnds, Speak, VoiceEnds, Ask, QuestionEnds, SubmissionBegins,
         SubmissionEnds
<1>3. \/ UNCHANGED submission
      \/ submission' = Nobody
      \/ Serving /\ submission' = [submission EXCEPT !.at = "waiting"]
  BY DEF Core, TurnBegins, TurnEnds, Speak, VoiceEnds, Ask, QuestionEnds, SubmissionBegins,
         SubmissionEnds
<1>4. app' \in View
  <2>1. \A q \in Questions : [app EXCEPT !.question = q] \in View
    BY Parts
  <2>2. \A p \in Phases : [app EXCEPT !.phase = p] \in View
    BY Parts
  <2>3. CASE \E p \in Phases : app' = [app EXCEPT !.phase = p]
    BY <2>2, <2>3
  <2>4. CASE \E q \in Questions : app' = [app EXCEPT !.question = q]
    BY <2>1, <2>4
  <2>5. CASE app' \in {app, Hushed}
    BY <2>5, HushedView DEF InterfaceInv, InterfaceTypeOK
  <2>6. CASE TurnBegins \/ TurnEnds \/ Speak \/ VoiceEnds
    BY <2>3, <2>6 DEF TurnBegins, TurnEnds, Speak, VoiceEnds, Silenced, Phases
  <2>7. CASE Ask
    <3>1. (CHOOSE q \in New : TRUE) \in New
      BY <2>7 DEF Ask
    <3>2. New \subseteq Questions
      BY DEF New
    <3> QED
      BY <2>4, <2>7, <3>1, <3>2 DEF Ask
  <2>8. CASE QuestionEnds
    BY <2>4, <2>8, Parts DEF QuestionEnds
  <2>9. CASE SubmissionBegins
    BY <2>5, <2>9 DEF SubmissionBegins
  <2>10. CASE SubmissionEnds
    BY <2>3, <2>5, <2>10 DEF SubmissionEnds, Phases
  <2> QED
    BY <2>6, <2>7, <2>8, <2>9, <2>10 DEF Core
<1>5. /\ submission' \in Submissions /\ submission'.begun = submission'.question
      /\ ~Serving => submission' = Nobody
  <2>1. CASE Serving /\ submission' = [submission EXCEPT !.at = "waiting"]
    BY <2>1 DEF InterfaceInv, InterfaceTypeOK, CallsInv, Submissions
  <2>2. CASE UNCHANGED submission
    BY <2>2 DEF InterfaceInv, InterfaceTypeOK, CallsInv
  <2>3. CASE submission' = Nobody
    BY <2>3, Parts
  <2> QED
    BY <1>3, <2>1, <2>2, <2>3
<1>6. /\ wire' \in Wires /\ client' \in Clients /\ cancel' \in BOOLEAN /\ stage' \in Stages
      /\ spent' \in [losses : Nat, attempts : Nat]
      /\ \A i \in DOMAIN wire'.jobs : wire'.jobs[i].begun = wire'.jobs[i].question
      /\ shell = "page" => stage' \in {"running", "ending", "closed", "over"}
      /\ ~(stage' \in {"attached", "running", "ending"}) => ~Serving
  BY <1>1 DEF InterfaceInv, InterfaceTypeOK, CallsInv, ReadersInv, core, Serving
<1>7. UNCHANGED <<shell, closing>> /\ wire'.packets = wire.packets
      /\ client'.cursor = client.cursor /\ client'.gap = client.gap
      /\ client'.warned = client.warned
  BY <1>1 DEF core
<1> QED
  BY <1>2, <1>4, <1>5, <1>6, <1>7, LogKept, StepKept

LEMMA RepliedKeeps ==
  ASSUME InterfaceInv, NEW i \in DOMAIN wire.jobs, NEW ok \in BOOLEAN, Replied(i, ok)
  PROVE  /\ wire' \in Wires /\ wire'.packets = wire.packets
         /\ \A j \in DOMAIN wire'.jobs : wire'.jobs[j].begun = wire'.jobs[j].question
         /\ wire.jobs[i] \in Job
<1>1. wire \in Wires /\ wire.jobs \in Seq(Job) /\ wire.replies \in Seq(Outcome)
  BY Parts DEF InterfaceInv, InterfaceTypeOK
<1>2. wire.jobs[i] \in Job
  BY <1>1, ElementOfSeq, LenProperties
<1>3. Done(wire.jobs[i], ok) \in Outcome
  BY <1>2 DEF Done, Outcome, Job
<1> DEFINE rest == RemoveAt(wire.jobs, i)
           replies == IF closing THEN wire.replies
                      ELSE Append(wire.replies, Done(wire.jobs[i], ok))
<1>4. /\ rest \in Seq(Job)
      /\ \A j \in DOMAIN rest : \E k \in DOMAIN wire.jobs : rest[j] = wire.jobs[k]
  BY <1>1, RemovedFrom
<1>5. replies \in Seq(Outcome)
  BY <1>1, <1>3, AppendProperties
<1>6. wire' = [wire EXCEPT !.jobs = rest, !.replies = replies]
  BY DEF Replied
<1> HIDE DEF rest, replies
<1>7. wire' \in Wires /\ wire'.packets = wire.packets /\ wire'.jobs = rest
  BY <1>1, <1>4, <1>5, <1>6 DEF Wires
<1> QED
  BY <1>2, <1>4, <1>7 DEF InterfaceInv, CallsInv

\* A call is handled: the reply is on its way, and a message is handed over.
LEMMA HandleStep ==
  ASSUME InterfaceInv, Handle
  PROVE  InterfaceInv'
<1>1. PICK i \in Next1(wire.jobs) : Refuse(i) \/ Message(i) \/ Confirm(i) \/ Stop(i)
  BY DEF Handle
<1>2. i \in DOMAIN wire.jobs
  BY <1>1 DEF Next1
<1>3. PICK ok \in BOOLEAN : Replied(i, ok)
  <2>1. {Free} \subseteq BOOLEAN
    BY DEF Free
  <2>2. {Answers(wire.jobs[i].question)} \subseteq BOOLEAN
    BY DEF Answers
  <2>3. CASE Message(i)
    BY <2>1, <2>3 DEF Message
  <2>4. CASE Confirm(i)
    BY <2>2, <2>4 DEF Confirm
  <2>5. CASE Refuse(i) \/ Stop(i)
    BY <2>5 DEF Refuse, Stop
  <2> QED
    BY <1>1, <2>3, <2>4, <2>5
<1>4. /\ wire' \in Wires /\ wire'.packets = wire.packets
      /\ \A j \in DOMAIN wire'.jobs : wire'.jobs[j].begun = wire'.jobs[j].question
      /\ wire.jobs[i] \in Job
  BY <1>2, <1>3, RepliedKeeps
<1>5. UNCHANGED <<core, client, spent>> /\ (Publish \/ Notify \/ Silent)
  BY <1>1 DEF Refuse, Message, Confirm, Stop
<1>6. app' \in View
  BY <1>1, HushedView DEF Refuse, Message, Confirm, Stop, InterfaceInv, InterfaceTypeOK
<1>7. /\ submission' \in Submissions /\ submission'.begun = submission'.question
      /\ ~Serving => submission' = Nobody
  <2> DEFINE job == wire.jobs[i]
  <2>1. CASE submission' \in {submission, Nobody}
    BY <2>1, Parts DEF InterfaceInv, InterfaceTypeOK, CallsInv
  <2>2. CASE Serving /\ submission' = [question |-> job.question, begun |-> job.begun, at |-> "new"]
    <3>1. job.question \in Questions /\ job.begun \in Questions /\ job.begun = job.question
      BY <1>2, <1>4 DEF Job, InterfaceInv, CallsInv
    <3> QED
      BY <2>2, <3>1 DEF Submissions
  <2> QED
    BY <1>1, <2>1, <2>2 DEF Refuse, Message, Confirm, Stop
<1>8. /\ client' \in Clients /\ cancel' \in BOOLEAN /\ stage' \in Stages
      /\ spent' \in [losses : Nat, attempts : Nat]
      /\ shell = "page" => stage' \in {"running", "ending", "closed", "over"}
      /\ ~(stage' \in {"attached", "running", "ending"}) => ~Serving
  BY <1>5 DEF InterfaceInv, InterfaceTypeOK, ReadersInv, core, Serving
<1>9. UNCHANGED <<shell, closing>> /\ client'.cursor = client.cursor
      /\ client'.gap = client.gap /\ client'.warned = client.warned
  BY <1>5 DEF core
<1> QED
  BY <1>4, <1>5, <1>6, <1>7, <1>8, <1>9, LogKept, StepKept

\* A step of the transport at the core's side, which tells nobody.
LEMMA PushStep ==
  ASSUME InterfaceInv, Schedule \/ Refresh
  PROVE  InterfaceInv'
<1>1. UNCHANGED <<core, app, log, wire, submission, client, spent>>
  BY DEF Schedule, Refresh
<1>2. push.woken \/ push.refresh
  BY DEF Schedule, Refresh
<1>3. shell = "window"
  BY <1>2, InterfaceAssumption DEF InterfaceInv, ReadersInv, InterfaceTypeOK
<1>4. push' \in Pushes
  <2>2. PICK serving \in BOOLEAN : serving = Serving
    <3>1. CASE Serving
      <4>1. TRUE = Serving
        BY <3>1
      <4> QED
        BY <4>1
    <3>2. CASE ~Serving
      <4>1. FALSE = Serving
        BY <3>2
      <4> QED
        BY <4>1
    <3> QED
      BY <3>1, <3>2
  <2>3. \/ push' = [push EXCEPT !.woken = FALSE, !.scheduled = serving]
        \/ push' = [push EXCEPT !.refresh = FALSE, !.woken = serving]
    BY <2>2 DEF Schedule, Refresh
  <2> QED
    BY <2>2, <2>3 DEF InterfaceInv, InterfaceTypeOK, Pushes
<1>5. /\ wire' \in Wires /\ client' \in Clients /\ cancel' \in BOOLEAN /\ stage' \in Stages
      /\ app' \in View /\ submission' \in Submissions /\ spent' \in [losses : Nat, attempts : Nat]
      /\ log' \in [first : Nat, last : 0 .. MaxEvents] /\ log'.first \in 1 .. log'.last + 1
      /\ log.last <= log'.last /\ log'.first = log.first
      /\ \A i \in DOMAIN wire'.jobs : wire'.jobs[i].begun = wire'.jobs[i].question
      /\ submission'.begun = submission'.question
      /\ ~(stage' \in {"attached", "running", "ending"}) => submission' = Nobody
  BY <1>1 DEF InterfaceInv, InterfaceTypeOK, CallsInv, core, Serving
<1>6. UNCHANGED <<shell, closing>> /\ client'.cursor = client.cursor
      /\ client'.gap = client.gap /\ client'.warned = client.warned
      /\ wire'.packets = wire.packets
  BY <1>1 DEF core
<1> QED
  BY <1>3, <1>4, <1>5, <1>6, StepKept

LEMMA SetsKept ==
  ASSUME UNCHANGED shell
  PROVE  UNCHANGED <<View, Packet, Wires, Submissions, Clients, Pushes>>
<1>1. UNCHANGED <<Questions, NoDraft>>
  BY DEF Questions, NoDraft
<1> QED
  BY <1>1 DEF View, Job, Packet, Wires, Submissions, Clients, Pushes

LEMMA PacketsOf ==
  ASSUME NEW s \in Seq(Packet)
  PROVE  /\ DOMAIN s = 1 .. Len(s) /\ Len(s) \in Nat
         /\ \A i \in 1 .. Len(s) : s[i] \in Packet /\ s[i].state \in View
                                   /\ s[i].from \in Nat /\ s[i].to \in Nat
<1>1. DOMAIN s = 1 .. Len(s) /\ Len(s) \in Nat /\ \A i \in 1 .. Len(s) : s[i] \in Packet
  BY LenProperties, ElementOfSeq
<1> QED
  BY <1>1 DEF Packet

\* What is collected for the window goes on its way, after what went before.
LEMMA FlushStep ==
  ASSUME InterfaceInv, Flush
  PROVE  InterfaceInv'
<1> DEFINE s == wire.packets
           p == [state |-> State, from |-> log.first, to |-> log.last, truncated |-> FALSE]
<1>1. UNCHANGED <<shell, stage, closing, cancel, app, submission, client, spent>>
  BY DEF Flush, core
<1>2. shell = "window" /\ UNCHANGED <<View, Packet, Wires, Submissions, Clients, Pushes>>
  BY <1>1, SetsKept, InterfaceAssumption DEF InterfaceInv, InterfaceTypeOK, ReadersInv, Flush
<1>3. /\ log \in [first : Nat, last : 0 .. MaxEvents] /\ log.first \in 1 .. log.last + 1
      /\ log' = [log EXCEPT !.first = log.last + 1] /\ MaxEvents \in Nat
  BY InterfaceAssumption DEF InterfaceInv, InterfaceTypeOK, Flush
<1>4. /\ log' \in [first : Nat, last : 0 .. MaxEvents] /\ log'.first = log.last + 1
      /\ log'.last = log.last /\ log'.first \in 1 .. log'.last + 1
  BY <1>3
<1>5. push' \in Pushes
  <2>1. PICK active \in BOOLEAN : active = Active(State)
    <3>1. CASE Active(State)
      <4>1. TRUE = Active(State)
        BY <3>1
      <4> QED
        BY <4>1
    <3>2. CASE ~Active(State)
      <4>1. FALSE = Active(State)
        BY <3>2
      <4> QED
        BY <4>1
    <3> QED
      BY <3>1, <3>2
  <2>2. push' = [push EXCEPT !.scheduled = FALSE, !.refresh = active]
    BY <2>1 DEF Flush
  <2> QED
    BY <2>2 DEF InterfaceInv, InterfaceTypeOK, Pushes
<1>6. s \in Seq(Packet) /\ p \in Packet /\ wire \in Wires
  BY <1>3, Parts DEF InterfaceInv, InterfaceTypeOK, Packet
<1>7. /\ \A i \in 1 .. Len(s) : ~s[i].truncated /\ s[i].to <= log.last
      /\ ~closing =>
           /\ log.first = 1 + (IF s = <<>> THEN client.cursor ELSE s[Len(s)].to)
           /\ \A i \in 1 .. Len(s) :
                s[i].from = 1 + (IF i = 1 THEN client.cursor ELSE s[i - 1].to)
  <2>1. client.cursor \in Nat
    BY DEF InterfaceInv, InterfaceTypeOK, Clients
  <2>2. s # <<>> => s[Len(s)].to \in Nat
    BY <1>6, PacketsOf, EmptySeq
  <2>3. DOMAIN s = 1 .. Len(s)
    BY <1>6, PacketsOf
  <2>4. \A i \in 1 .. Len(s) : ~s[i].truncated /\ s[i].to <= log.last
    BY <2>3 DEF InterfaceInv, ReadersInv
  <2>5. ASSUME ~closing
        PROVE  /\ log.first = Delivered + 1
               /\ \A i \in 1 .. Len(s) :
                    s[i].from = 1 + (IF i = 1 THEN client.cursor ELSE s[i - 1].to)
    BY <1>2, <2>3, <2>5 DEF InterfaceInv, ReadersInv
  <2>6. Delivered = (IF s = <<>> THEN client.cursor ELSE s[Len(s)].to)
    BY DEF Delivered, Last
  <2> QED
    BY <2>1, <2>2, <2>4, <2>5, <2>6
<1>8. CASE wire' = wire /\ (closing \/ log.first > log.last)
  <2>1. ~closing => log'.first = log.first
    BY <1>3, <1>4, <1>8
  <2>2. Delivered' = Delivered
    BY <1>1, <1>8 DEF Delivered
  <2>3. ReadersInv'
    BY <1>1, <1>2, <1>4, <1>8, <2>1, <2>2 DEF InterfaceInv, ReadersInv
  <2> QED
    BY <1>1, <1>2, <1>4, <1>5, <1>8, <2>3
       DEF InterfaceInv, InterfaceTypeOK, GapsAreTold, CallsInv, ClosedIsQuiet, Serving
<1>9. CASE wire' = [wire EXCEPT !.packets = Append(s, p)]
  <2> HIDE DEF s, p
  <2> DEFINE t == Append(s, p)
  <2>1. /\ t \in Seq(Packet) /\ Len(t) = Len(s) + 1 /\ t # <<>>
        /\ t[Len(s) + 1] = p /\ \A i \in 1 .. Len(s) : t[i] = s[i]
    BY <1>6, PacketsOf, AppendProperties
  <2> HIDE DEF t
  <2>2. wire' \in Wires /\ wire'.packets = t /\ wire'.jobs = wire.jobs
    BY <1>6, <1>9, <2>1 DEF Wires, t
  <2>3. p.from = log.first /\ p.to = log.last /\ ~p.truncated
    BY DEF p
  <2>4. Len(s) \in Nat /\ DOMAIN t = 1 .. Len(s) + 1 /\ (s = <<>> <=> Len(s) = 0)
    BY <1>6, <2>1, PacketsOf, EmptySeq
  <2>5. Delivered' = log.last
    BY <2>1, <2>2, <2>3 DEF Delivered, Last
  <2>6. ASSUME NEW i \in 1 .. Len(s) + 1 PROVE ~t[i].truncated /\ t[i].to <= log.last
    BY <1>3, <1>7, <2>1, <2>3, <2>4
  <2>7. ASSUME NEW i \in 1 .. Len(s) + 1, ~closing
        PROVE  t[i].from = 1 + (IF i = 1 THEN client.cursor ELSE t[i - 1].to)
    <3>1. CASE i = Len(s) + 1
      BY <1>7, <2>1, <2>3, <2>4, <2>7, <3>1
    <3>2. CASE i # Len(s) + 1
      <4>1. i \in 1 .. Len(s) /\ (i # 1 => i - 1 \in 1 .. Len(s))
        BY <2>4, <3>2
      <4>2. t[i] = s[i] /\ (i # 1 => t[i - 1] = s[i - 1])
        BY <2>1, <4>1
      <4>3. s[i].from = 1 + (IF i = 1 THEN client.cursor ELSE s[i - 1].to)
        BY <1>7, <2>7, <4>1
      <4> QED
        BY <4>2, <4>3
    <3> QED
      BY <3>1, <3>2
  <2>8. ReadersInv'
    BY <1>1, <1>2, <1>4, <2>2, <2>4, <2>5, <2>6, <2>7 DEF ReadersInv
  <2> QED
    BY <1>1, <1>2, <1>4, <1>5, <2>2, <2>8
       DEF InterfaceInv, InterfaceTypeOK, GapsAreTold, CallsInv, ClosedIsQuiet, Serving
<1> QED
  BY <1>8, <1>9 DEF Flush

\* What a client takes over is what it shows.
LEMMA ShownParts ==
  ASSUME InterfaceInv, NEW p, p.state \in View, p.to \in Nat
  PROVE  /\ Shown(p) \in Clients /\ Shown(p).cursor = p.to
         /\ Shown(p).gap <=> client.gap \/ p.from > client.cursor + 1
         /\ Shown(p).warned <=> client.warned \/ p.truncated
<1>1. PICK on \in BOOLEAN : on = (shell = "page" \/ stage \in {"attached", "running"})
  <2>1. CASE shell = "page" \/ stage \in {"attached", "running"}
    BY <2>1
  <2>2. CASE ~(shell = "page" \/ stage \in {"attached", "running"})
    BY <2>2
  <2> QED
    BY <2>1, <2>2
<1>2. PICK gap \in BOOLEAN : gap = (client.gap \/ p.from > client.cursor + 1)
  <2>1. CASE client.gap \/ p.from > client.cursor + 1
    BY <2>1
  <2>2. CASE ~(client.gap \/ p.from > client.cursor + 1)
    BY <2>2
  <2> QED
    BY <2>1, <2>2
<1>3. PICK warned \in BOOLEAN : warned = (client.warned \/ p.truncated)
  <2>1. CASE client.warned \/ p.truncated
    BY <2>1
  <2>2. CASE ~(client.warned \/ p.truncated)
    BY <2>2
  <2> QED
    BY <2>1, <2>2
<1>4. Shown(p) = [client EXCEPT !.view = p.state, !.on = on, !.gap = gap, !.cursor = p.to,
                                !.warned = warned]
  BY <1>1, <1>2, <1>3 DEF Shown
<1>5. client \in Clients
  BY DEF InterfaceInv, InterfaceTypeOK
<1>6. Shown(p) \in Clients /\ Shown(p).cursor = p.to /\ Shown(p).gap = gap
      /\ Shown(p).warned = warned
  BY <1>4, <1>5 DEF Clients
<1> QED
  BY <1>2, <1>3, <1>6

\* A poll is answered: what the page has missed by then, it is told.
LEMMA PollStep ==
  ASSUME InterfaceInv, PollAnswered
  PROVE  InterfaceInv'
<1> DEFINE most == Max({client.cursor + 1, log.first})
           p == [state |-> State, from |-> most, to |-> log.last, truncated |-> Truncated]
<1>1. shell = "page" /\ UNCHANGED <<core, app, log, push, wire, submission, spent>>
      /\ client' = Shown(p)
  BY DEF PollAnswered, Silent
<1>2. /\ log.first \in Nat /\ log.last \in Nat /\ log.first <= log.last + 1
      /\ client.cursor \in Nat /\ client.cursor <= log.last /\ log.first >= 1
  BY InterfaceAssumption DEF InterfaceInv, InterfaceTypeOK, Clients
<1>3. log.first <= log.last \/ log.last = 0
  BY <1>1 DEF InterfaceInv, ReadersInv
<1>4. most > client.cursor + 1 <=> log.first > client.cursor + 1
  <2>1. most = IF client.cursor + 1 <= log.first THEN log.first ELSE client.cursor + 1
    BY <1>2, MaxOfTwo
  <2> HIDE DEF most
  <2> QED
    BY <1>2, <2>1
<1>5. Truncated <=> log.first > client.cursor + 1
  BY <1>2, <1>3 DEF Truncated
<1> HIDE DEF most
<1>6. p.state = State /\ p.to = log.last /\ p.from = most /\ p.truncated = Truncated
  OBVIOUS
<1> HIDE DEF p
<1>7. /\ client' \in Clients /\ client'.cursor = log.last
      /\ client'.gap <=> client.gap \/ most > client.cursor + 1
      /\ client'.warned <=> client.warned \/ Truncated
  BY <1>1, <1>2, <1>6, Parts, ShownParts
<1>8. UNCHANGED <<shell, stage, closing, cancel>>
  BY <1>1 DEF core
<1>9. UNCHANGED <<View, Packet, Wires, Submissions, Clients, Pushes>>
  BY <1>8, SetsKept
<1>10. GapsAreTold'
  BY <1>4, <1>5, <1>7 DEF InterfaceInv, GapsAreTold
<1>11. ReadersInv'
  BY <1>1, <1>8 DEF InterfaceInv, ReadersInv
<1>12. InterfaceTypeOK'
  BY <1>1, <1>2, <1>7, <1>8, <1>9 DEF InterfaceInv, InterfaceTypeOK
<1> QED
  BY <1>1, <1>8, <1>10, <1>11, <1>12 DEF InterfaceInv, CallsInv, ClosedIsQuiet, Serving

\* A packet arrives: it goes on where the window's view has ended.
LEMMA ReceiveStep ==
  ASSUME InterfaceInv, Receive
  PROVE  InterfaceInv'
<1> DEFINE s == wire.packets
           t == Tail(s)
<1>1. /\ s # <<>> /\ ~closing /\ client' = Shown(s[1])
      /\ wire' = [wire EXCEPT !.packets = t]
      /\ UNCHANGED <<shell, stage, closing, cancel, app, log, push, submission, spent>>
  <2>1. Head(s) = s[1]
    BY Parts, HeadTailProperties DEF Receive
  <2> QED
    BY <2>1 DEF Receive, Silent, core
<1>2. shell = "window" /\ UNCHANGED <<View, Packet, Wires, Submissions, Clients, Pushes>>
  BY <1>1, SetsKept, InterfaceAssumption DEF InterfaceInv, InterfaceTypeOK, ReadersInv
<1>3. s \in Seq(Packet) /\ wire \in Wires /\ log.last \in Nat /\ client.cursor \in Nat
  BY Parts DEF InterfaceInv, InterfaceTypeOK, Clients
<1>4. /\ Len(s) \in Nat /\ Len(s) > 0 /\ DOMAIN s = 1 .. Len(s) /\ t \in Seq(Packet)
      /\ Len(t) = Len(s) - 1 /\ DOMAIN t = 1 .. Len(s) - 1
      /\ \A i \in 1 .. Len(s) - 1 : t[i] = s[i + 1]
  <2>1. Len(s) \in Nat /\ Len(s) # 0 /\ DOMAIN s = 1 .. Len(s)
    BY <1>1, <1>3, EmptySeq, PacketsOf
  <2>2. t \in Seq(Packet) /\ Len(t) = Len(s) - 1
    BY <1>1, <1>3, HeadTailProperties
  <2>3. \A i \in 1 .. Len(t) : t[i] = s[i + 1]
    BY <1>1, <1>3, <2>1, <2>2, HeadTailProperties
  <2>4. DOMAIN t = 1 .. Len(t)
    BY <2>2, LenProperties
  <2> QED
    BY <2>1, <2>2, <2>3, <2>4
<1>5. /\ \A i \in 1 .. Len(s) : ~s[i].truncated /\ s[i].to <= log.last /\ s[i].to \in Nat
      /\ log.first = s[Len(s)].to + 1
      /\ \A i \in 1 .. Len(s) :
           s[i].from = 1 + (IF i = 1 THEN client.cursor ELSE s[i - 1].to)
  BY <1>1, <1>2, <1>3, <1>4, PacketsOf DEF InterfaceInv, ReadersInv, Delivered, Last
<1> HIDE DEF s, t
<1>6. /\ s[1].state \in View /\ s[1].to \in Nat /\ s[1].to <= log.last
      /\ s[1].from = 1 + client.cursor /\ ~s[1].truncated
  <2>1. 1 \in 1 .. Len(s)
    BY <1>4
  <2> QED
    BY <1>3, <1>5, <2>1, PacketsOf
<1>7. /\ client' \in Clients /\ client'.cursor = s[1].to
      /\ client'.gap <=> client.gap \/ s[1].from > client.cursor + 1
      /\ client'.warned <=> client.warned \/ s[1].truncated
  BY <1>1, <1>6, ShownParts
<1>8. wire' \in Wires /\ wire'.packets = t /\ wire'.jobs = wire.jobs
  BY <1>1, <1>3, <1>4 DEF Wires
<1>9. GapsAreTold'
  BY <1>3, <1>6, <1>7 DEF InterfaceInv, GapsAreTold
<1>10. Delivered' = s[Len(s)].to
  <2>1. CASE t = <<>>
    <3>1. Len(s) = 1
      BY <1>4, <2>1
    <3> QED
      BY <1>7, <1>8, <2>1, <3>1 DEF Delivered
  <2>2. CASE t # <<>>
    <3>1. Len(t) \in 1 .. Len(s) - 1
      BY <1>4, <2>2, EmptySeq
    <3>2. t[Len(t)] = s[Len(s)]
      BY <1>4, <3>1
    <3> QED
      BY <1>8, <2>2, <3>2 DEF Delivered, Last
  <2> QED
    BY <2>1, <2>2
<1>11. ASSUME NEW i \in 1 .. Len(s) - 1
       PROVE  /\ ~t[i].truncated /\ t[i].to <= log.last
              /\ t[i].from = 1 + (IF i = 1 THEN client'.cursor ELSE t[i - 1].to)
  <2>1. t[i] = s[i + 1] /\ i + 1 \in 1 .. Len(s) /\ (i + 1) - 1 = i /\ i + 1 # 1
    BY <1>4
  <2>2. i # 1 => t[i - 1] = s[i]
    <3>1. i # 1 => i - 1 \in 1 .. Len(s) - 1 /\ (i - 1) + 1 = i
      BY <1>4
    <3> QED
      BY <1>4, <3>1
  <2>3. s[i + 1].from = 1 + s[i].to
    BY <1>5, <2>1
  <2> QED
    BY <1>5, <1>7, <2>1, <2>2, <2>3
<1>12. ReadersInv'
  BY <1>1, <1>2, <1>4, <1>5, <1>8, <1>10, <1>11 DEF ReadersInv
<1>13. InterfaceTypeOK'
  BY <1>1, <1>2, <1>3, <1>6, <1>7, <1>8 DEF InterfaceInv, InterfaceTypeOK
<1> QED
  BY <1>1, <1>8, <1>9, <1>12, <1>13 DEF InterfaceInv, CallsInv, ClosedIsQuiet, Serving

\* A client's own steps: nothing of the core's changes with them.
LEMMA ClientKept ==
  ASSUME InterfaceInv, UNCHANGED <<core, app, submission>>, Silent,
         wire' \in Wires, wire'.packets = wire.packets,
         \A i \in DOMAIN wire'.jobs : wire'.jobs[i].begun = wire'.jobs[i].question,
         client' \in Clients, client'.cursor = client.cursor, client'.gap = client.gap,
         client'.warned = client.warned, spent' \in [losses : Nat, attempts : Nat]
  PROVE  InterfaceInv'
<1>1. UNCHANGED <<shell, stage, closing, cancel>>
  BY DEF core
<1>2. /\ cancel' \in BOOLEAN /\ stage' \in Stages /\ app' \in View /\ submission' \in Submissions
      /\ shell = "page" => stage' \in {"running", "ending", "closed", "over"}
      /\ submission'.begun = submission'.question
      /\ ~(stage' \in {"attached", "running", "ending"}) => submission' = Nobody
  BY <1>1 DEF InterfaceInv, InterfaceTypeOK, ReadersInv, CallsInv, Serving
<1> QED
  BY <1>1, <1>2, LogKept, StepKept

LEMMA LostCounted == InterfaceInv /\ Lost => spent' \in [losses : Nat, attempts : Nat]
BY DEF Lost, InterfaceInv, InterfaceTypeOK

LEMMA PollFailsStep ==
  ASSUME InterfaceInv, PollFails
  PROVE  InterfaceInv'
<1> DEFINE view == [client.view EXCEPT !.question = 0]
<1>1. UNCHANGED <<core, app, submission, wire>> /\ Silent
  BY DEF PollFails
<1>2. spent' \in [losses : Nat, attempts : Nat]
  BY LostCounted DEF PollFails, InterfaceInv, InterfaceTypeOK
<1>3. view \in View
  BY Parts DEF View
<1>4. client' = [client EXCEPT !.on = FALSE, !.view = view]
  BY DEF PollFails
<1> HIDE DEF view
<1>5. /\ client' \in Clients /\ client'.cursor = client.cursor /\ client'.gap = client.gap
      /\ client'.warned = client.warned
  BY <1>3, <1>4 DEF InterfaceInv, InterfaceTypeOK, Clients
<1> QED
  BY <1>1, <1>2, <1>5, ClientKept DEF InterfaceInv, InterfaceTypeOK, CallsInv

LEMMA TakenParts ==
  ASSUME InterfaceInv, NEW r, Taken(r)
  PROVE  /\ client' \in Clients /\ client'.cursor = client.cursor /\ client'.gap = client.gap
         /\ client'.warned = client.warned
<1> DEFINE draft == IF r.kind = "message" /\ r.ok /\ client.sending THEN NoDraft ELSE client.draft
<1>1. draft \in Questions \cup {NoDraft}
  BY Parts
<1>2. client \in Clients
  BY DEF InterfaceInv, InterfaceTypeOK
<1>3. PICK sending \in BOOLEAN : sending = (client.sending /\ r.kind # "message")
  <2>1. CASE client.sending /\ r.kind # "message"
    BY <2>1
  <2>2. CASE ~(client.sending /\ r.kind # "message")
    BY <2>2
  <2> QED
    BY <2>1, <2>2
<1>4. PICK stopping \in BOOLEAN : stopping = (client.stopping /\ r.kind # "stop")
  <2>1. CASE client.stopping /\ r.kind # "stop"
    BY <2>1
  <2>2. CASE ~(client.stopping /\ r.kind # "stop")
    BY <2>2
  <2> QED
    BY <2>1, <2>2
<1>5. client' = [client EXCEPT !.draft = draft, !.sending = sending, !.stopping = stopping]
  BY <1>3, <1>4 DEF Taken
<1> HIDE DEF draft
<1> QED
  BY <1>1, <1>2, <1>5 DEF Clients

\* An answer is taken, or taken for lost.
LEMMA ReplyStep ==
  ASSUME InterfaceInv, TakeReply \/ ReplyLost
  PROVE  InterfaceInv'
<1>1. UNCHANGED <<core, app, submission>> /\ Silent
  BY DEF TakeReply, ReplyLost
<1>2. spent' \in [losses : Nat, attempts : Nat]
  BY LostCounted DEF TakeReply, ReplyLost, InterfaceInv, InterfaceTypeOK
<1>3. PICK i \in DOMAIN wire.replies :
        /\ \E r : Taken(r)
        /\ wire' = [wire EXCEPT !.replies = RemoveAt(wire.replies, i)]
  BY DEF TakeReply, ReplyLost, Next1
<1>4. RemoveAt(wire.replies, i) \in Seq(Outcome)
  BY Parts, RemovedFrom
<1>5. wire' \in Wires /\ wire'.packets = wire.packets /\ wire'.jobs = wire.jobs
  BY <1>3, <1>4 DEF InterfaceInv, InterfaceTypeOK, Wires
<1>6. /\ client' \in Clients /\ client'.cursor = client.cursor /\ client'.gap = client.gap
      /\ client'.warned = client.warned
  BY <1>3, TakenParts
<1> QED
  BY <1>1, <1>2, <1>5, <1>6, ClientKept DEF InterfaceInv, CallsInv

\* A call names the question that its author has seen.
LEMMA CallKeeps ==
  ASSUME InterfaceInv, NEW kind \in Calls, NEW q \in Questions, Call(kind, q, q)
  PROVE  /\ wire' \in Wires /\ wire'.packets = wire.packets
         /\ \A i \in DOMAIN wire'.jobs : wire'.jobs[i].begun = wire'.jobs[i].question
         /\ UNCHANGED <<core, app, submission, spent>> /\ Silent
<1> DEFINE job == [kind |-> kind, question |-> q, begun |-> q]
           refusal == [kind |-> kind, ok |-> FALSE]
<1>1. job \in Job /\ refusal \in Outcome /\ job.begun = job.question
  BY DEF Job, Outcome
<1>2. wire \in Wires /\ wire.jobs \in Seq(Job) /\ wire.replies \in Seq(Outcome)
  BY Parts DEF InterfaceInv, InterfaceTypeOK
<1>3. \A i \in DOMAIN wire.jobs : wire.jobs[i].begun = wire.jobs[i].question
  BY DEF InterfaceInv, CallsInv
<1>4. UNCHANGED <<core, app, submission, spent>> /\ Silent
  BY DEF Call
<1>5. CASE wire' = [wire EXCEPT !.replies = Append(wire.replies, refusal)]
  <2> HIDE DEF refusal
  <2>1. Append(wire.replies, refusal) \in Seq(Outcome)
    BY <1>1, <1>2, AppendProperties
  <2>2. wire' \in Wires /\ wire'.packets = wire.packets /\ wire'.jobs = wire.jobs
    BY <1>2, <1>5, <2>1 DEF Wires
  <2> QED
    BY <1>3, <1>4, <2>2
<1>6. CASE wire' = [wire EXCEPT !.jobs = Append(wire.jobs, job)]
  <2> HIDE DEF job
  <2> DEFINE more == Append(wire.jobs, job)
  <2>1. /\ more \in Seq(Job) /\ Len(more) = Len(wire.jobs) + 1
        /\ \A i \in 1 .. Len(wire.jobs) : more[i] = wire.jobs[i]
        /\ more[Len(wire.jobs) + 1] = job
    BY <1>1, <1>2, AppendProperties
  <2>2. /\ DOMAIN more = 1 .. Len(wire.jobs) + 1 /\ Len(wire.jobs) \in Nat
        /\ DOMAIN wire.jobs = 1 .. Len(wire.jobs)
    BY <1>2, <2>1, LenProperties
  <2> HIDE DEF more
  <2>3. wire' \in Wires /\ wire'.packets = wire.packets /\ wire'.jobs = more
    BY <1>2, <1>6, <2>1 DEF Wires, more
  <2>4. ASSUME NEW i \in 1 .. Len(wire.jobs) + 1 PROVE more[i].begun = more[i].question
    BY <1>1, <1>3, <2>1, <2>2
  <2> QED
    BY <1>4, <2>2, <2>3, <2>4
<1> QED
  BY <1>5, <1>6 DEF Call

\* The user types, sends and presses.
LEMMA UserStep ==
  ASSUME InterfaceInv, Type \/ Erase \/ Send \/ NewChat \/ PressConfirm \/ PressStop
  PROVE  InterfaceInv'
<1>1. client \in Clients /\ wire \in Wires /\ spent \in [losses : Nat, attempts : Nat]
      /\ \A i \in DOMAIN wire.jobs : wire.jobs[i].begun = wire.jobs[i].question
  BY DEF InterfaceInv, InterfaceTypeOK, CallsInv
<1>2. CASE Type \/ Erase
  <2>1. UNCHANGED <<core, app, wire, submission, spent>> /\ Silent
    BY <1>2 DEF Type, Erase
  <2>2. client' \in Clients /\ client'.cursor = client.cursor /\ client'.gap = client.gap
        /\ client'.warned = client.warned
    BY <1>1, <1>2, Parts DEF Type, Erase, Clients
  <2> QED
    BY <1>1, <2>1, <2>2, ClientKept
<1>3. CASE Send
  <2>1. client.draft \in Questions /\ Call("message", client.draft, client.draft)
    BY <1>3, Parts DEF Send, Bound
  <2>2. client' \in Clients /\ client'.cursor = client.cursor /\ client'.gap = client.gap
        /\ client'.warned = client.warned
    BY <1>1, <1>3 DEF Send, Clients
  <2>3. "message" \in Calls
    BY DEF Calls
  <2> QED
    BY <1>1, <2>1, <2>2, <2>3, CallKeeps, ClientKept
<1>4. CASE NewChat
  <2> DEFINE q == IF shell = "window" THEN 0
                  ELSE IF client.draft # NoDraft THEN client.draft ELSE client.view.question
  <2>1. q \in Questions
    BY Parts
  <2>2. Call("message", q, q) /\ client' = [client EXCEPT !.sending = shell = "page"]
    BY <1>4 DEF NewChat
  <2>3. client' \in Clients /\ client'.cursor = client.cursor /\ client'.gap = client.gap
        /\ client'.warned = client.warned
    <3>1. PICK sending \in BOOLEAN : sending = (shell = "page")
      OBVIOUS
    <3>2. client' = [client EXCEPT !.sending = sending]
      BY <2>2, <3>1
    <3> QED
      BY <1>1, <3>2 DEF Clients
  <2>4. "message" \in Calls
    BY DEF Calls
  <2> HIDE DEF q
  <2> QED
    BY <1>1, <2>1, <2>2, <2>3, <2>4, CallKeeps, ClientKept
<1>5. CASE PressConfirm
  <2>1. Call("confirm", client.view.question, client.view.question) /\ UNCHANGED client
    BY <1>5 DEF PressConfirm
  <2>2. "confirm" \in Calls /\ client.view.question \in Questions
    BY Parts DEF Calls
  <2> QED
    BY <1>1, <2>1, <2>2, CallKeeps, ClientKept
<1>6. CASE PressStop
  <2>1. Call("stop", 0, 0)
    BY <1>6 DEF PressStop
  <2>2. "stop" \in Calls /\ 0 \in Questions
    BY Parts DEF Calls
  <2>3. client' \in Clients /\ client'.cursor = client.cursor /\ client'.gap = client.gap
        /\ client'.warned = client.warned
    BY <1>1, <1>6 DEF PressStop, Clients
  <2> QED
    BY <1>1, <2>1, <2>2, <2>3, CallKeeps, ClientKept
<1> QED
  BY <1>2, <1>3, <1>4, <1>5, <1>6

LEMMA NothingShown ==
  ASSUME InterfaceInv
  PROVE  NewClient \in Clients /\ NewClient.cursor = 0 /\ ~NewClient.gap /\ ~NewClient.warned
<1>1. Blank \in View
  BY Parts DEF Blank, View, Phases
<1> QED
  BY <1>1 DEF NewClient, Clients

\* A closed window takes nothing any more: what was on its way to it is gone.
LEMMA CloseStep ==
  ASSUME InterfaceInv, CloseWindow
  PROVE  InterfaceInv'
<1>1. /\ shell = "window" /\ closing' = TRUE /\ client' = NewClient
      /\ UNCHANGED <<shell, app, log, push, submission, spent>>
      /\ wire' = [wire EXCEPT !.replies = <<>>, !.packets = <<>>]
      /\ stage' = (IF stage = "waiting" THEN "locked" ELSE stage) /\ cancel' = LoopKnown
  BY DEF CloseWindow
<1>2. UNCHANGED <<View, Packet, Wires, Submissions, Clients, Pushes>>
  BY <1>1, SetsKept
<1>3. wire' \in Wires /\ wire'.packets = <<>> /\ wire'.jobs = wire.jobs
  <2>1. <<>> \in Seq(Outcome) /\ <<>> \in Seq(Packet)
    BY EmptySeq
  <2> QED
    BY <1>1, <2>1 DEF InterfaceInv, InterfaceTypeOK, Wires
<1>4. stage' \in Stages /\ (~Serving' => ~Serving)
  BY <1>1 DEF InterfaceInv, InterfaceTypeOK, Stages, Serving
<1>5. cancel' \in BOOLEAN
  <2>1. CASE LoopKnown
    <3>1. TRUE = LoopKnown
      BY <2>1
    <3> QED
      BY <1>1, <3>1
  <2>2. CASE ~LoopKnown
    <3>1. FALSE = LoopKnown
      BY <2>2
    <3> QED
      BY <1>1, <3>1
  <2> QED
    BY <2>1, <2>2
<1>6. log.last \in Nat
  BY DEF InterfaceInv, InterfaceTypeOK
<1>7. InterfaceTypeOK'
  BY <1>1, <1>2, <1>3, <1>4, <1>5, <1>6, NothingShown DEF InterfaceInv, InterfaceTypeOK
<1>8. GapsAreTold' /\ ReadersInv'
  BY <1>1, <1>3, NothingShown, EmptySeq DEF GapsAreTold, ReadersInv
<1>9. CallsInv' /\ ClosedIsQuiet'
  BY <1>1, <1>3, <1>4 DEF InterfaceInv, CallsInv, ClosedIsQuiet, Serving
<1> QED
  BY <1>7, <1>8, <1>9 DEF InterfaceInv

\* The session of a window begins, and that of either ends.
LEMMA SessionStep ==
  ASSUME InterfaceInv, Session
  PROVE  InterfaceInv'
<1>1. UNCHANGED <<shell, closing, log>> /\ wire'.packets = wire.packets
  <2>1. wire \in Wires
    BY DEF InterfaceInv, InterfaceTypeOK
  <2> QED
    BY <2>1 DEF Session, AskPassword, PasswordNeeded, PasswordAnswered, Construct, Attach,
                RunBegins, Cancel, CoreFails, CloseTransport, CoreEnds, Unmoved, Wires
<1>2. /\ stage' \in Stages
      /\ shell = "page" => stage' \in {"running", "ending", "closed", "over"}
  BY DEF Session, AskPassword, PasswordNeeded, PasswordAnswered, Construct, Attach, RunBegins,
         Cancel, CoreFails, CloseTransport, CoreEnds, Go, Stages, InterfaceInv, InterfaceTypeOK,
         ReadersInv
<1>3. /\ submission' \in Submissions /\ submission'.begun = submission'.question
      /\ ~(stage' \in {"attached", "running", "ending"}) => submission' = Nobody
  <2>1. CASE CloseTransport
    BY <2>1, Parts DEF CloseTransport
  <2>2. CASE ~CloseTransport
    <3>1. UNCHANGED submission
      BY <2>2 DEF Session, AskPassword, PasswordNeeded, PasswordAnswered, Construct, Attach,
                  RunBegins, Cancel, CoreFails, CoreEnds, Unmoved
    <3>2. ~(stage' \in {"attached", "running", "ending"}) => ~Serving
      BY <2>2 DEF Session, AskPassword, PasswordNeeded, PasswordAnswered, Construct, Attach,
                  RunBegins, Cancel, CoreFails, CoreEnds, Go, Serving
    <3> QED
      BY <3>1, <3>2 DEF InterfaceInv, InterfaceTypeOK, CallsInv
  <2> QED
    BY <2>1, <2>2
<1>4. cancel' \in BOOLEAN
  <2>1. cancel' \in {cancel, FALSE, TRUE} \/ cancel' = (cancel \/ SeenClosing)
    BY DEF Session, AskPassword, PasswordNeeded, PasswordAnswered, Construct, Attach, RunBegins,
           Cancel, CoreFails, CloseTransport, CoreEnds
  <2>2. cancel \in BOOLEAN /\ closing \in BOOLEAN
    BY DEF InterfaceInv, InterfaceTypeOK
  <2> QED
    BY <2>1, <2>2 DEF SeenClosing
<1>5. app' \in View
  <2>1. CASE app' \in {app, Hushed, [app EXCEPT !.question = 0],
                       [app EXCEPT !.phase = "ready", !.question = 0]}
    <3>1. [app EXCEPT !.phase = "ready", !.question = 0] \in View
      BY Parts DEF View, Phases, InterfaceInv, InterfaceTypeOK
    <3> QED
      BY <2>1, <3>1, Parts, HushedView DEF InterfaceInv, InterfaceTypeOK
  <2> QED
    BY <2>1 DEF Session, AskPassword, PasswordNeeded, PasswordAnswered, Construct, Attach,
                RunBegins, Cancel, CoreFails, CloseTransport, CoreEnds, Unmoved
<1>6. /\ push' \in Pushes
      /\ shell = "page" => ~push'.woken /\ ~push'.scheduled /\ ~push'.refresh
  <2>1. push \in Pushes
        /\ (shell = "page" => ~push.woken /\ ~push.scheduled /\ ~push.refresh)
    BY DEF InterfaceInv, InterfaceTypeOK, ReadersInv
  <2>2. CASE Attach
    <3>1. stage = "attaching" /\ push' = [push EXCEPT !.woken = TRUE]
      BY <2>2 DEF Attach, Go
    <3>2. shell # "page"
      BY <3>1 DEF InterfaceInv, ReadersInv
    <3> QED
      BY <2>1, <3>1, <3>2 DEF Pushes
  <2>3. CASE RunBegins
    <3>1. Notify
      BY <1>1, <2>3 DEF RunBegins, Notify
    <3> QED
      BY <3>1, LogKept
  <2>4. CASE CloseTransport
    BY <2>1, <2>4 DEF CloseTransport, Pushes
  <2>5. CASE UNCHANGED push
    BY <2>1, <2>5
  <2> QED
    BY <2>2, <2>3, <2>4, <2>5
       DEF Session, AskPassword, PasswordNeeded, PasswordAnswered, Construct, Cancel, CoreFails,
           CoreEnds
<1>7. /\ wire' \in Wires
      /\ \A i \in DOMAIN wire'.jobs : wire'.jobs[i].begun = wire'.jobs[i].question
  <2>1. wire \in Wires /\ <<>> \in Seq(Job) /\ DOMAIN <<>> = {}
        /\ \A i \in DOMAIN wire.jobs : wire.jobs[i].begun = wire.jobs[i].question
    BY EmptySeq DEF InterfaceInv, InterfaceTypeOK, CallsInv
  <2>2. CASE UNCHANGED wire
    BY <2>1, <2>2
  <2>3. CASE wire' = [wire EXCEPT !.jobs = <<>>]
    BY <2>1, <2>3 DEF Wires
  <2> QED
    BY <2>2, <2>3 DEF Session, AskPassword, PasswordNeeded, PasswordAnswered, Construct, Attach,
                      RunBegins, Cancel, CoreFails, CloseTransport, CoreEnds, Unmoved
<1>8. /\ client' \in Clients /\ client'.cursor = client.cursor /\ client'.gap = client.gap
      /\ client'.warned = client.warned
  <2>1. client \in Clients
    BY DEF InterfaceInv, InterfaceTypeOK
  <2>2. CASE UNCHANGED client
    BY <2>1, <2>2
  <2>3. CASE CoreEnds
    <3>1. client' = client \/ client' = [client EXCEPT !.on = FALSE]
      <4>1. client = [client EXCEPT !.on = client.on] /\ client.on \in BOOLEAN
        BY <2>1 DEF Clients
      <4>2. CASE client.on /\ shell = "page"
        <5>1. (client.on /\ shell = "page") = client.on
          BY <4>1, <4>2
        <5> QED
          BY <2>3, <4>1, <5>1 DEF CoreEnds
      <4>3. CASE ~(client.on /\ shell = "page")
        <5>1. (client.on /\ shell = "page") = FALSE
          BY <4>3
        <5> QED
          BY <2>3, <5>1 DEF CoreEnds
      <4> QED
        BY <4>2, <4>3
    <3> QED
      BY <2>1, <3>1 DEF Clients
  <2> QED
    BY <2>2, <2>3 DEF Session, AskPassword, PasswordNeeded, PasswordAnswered, Construct, Attach,
                      RunBegins, Cancel, CoreFails, CloseTransport, Unmoved
<1>9. spent' \in [losses : Nat, attempts : Nat]
  BY DEF Session, AskPassword, PasswordNeeded, PasswordAnswered, Construct, Attach, RunBegins,
         Cancel, CoreFails, CloseTransport, CoreEnds, InterfaceInv, InterfaceTypeOK
<1>10. /\ log' \in [first : Nat, last : 0 .. MaxEvents] /\ log'.first \in 1 .. log'.last + 1
       /\ log.last <= log'.last /\ log'.first = log.first
       /\ shell = "page" => log'.first <= log'.last \/ log'.last = 0
  BY <1>1 DEF InterfaceInv, InterfaceTypeOK, ReadersInv
<1> QED
  BY <1>1, <1>2, <1>3, <1>4, <1>5, <1>6, <1>7, <1>8, <1>9, <1>10, StepKept

LEMMA InterfaceBegins == InterfaceInit => InterfaceInv
<1> SUFFICES ASSUME InterfaceInit PROVE InterfaceInv
  OBVIOUS
<1> USE DEF InterfaceInit
<1>1. 0 \in Questions /\ {MaxEvents, Cap} \subseteq Nat /\ shell \in {"page", "window"}
  BY InterfaceAssumption DEF Questions
<1>2. Blank \in View /\ app \in View
  BY <1>1 DEF Blank, View, Phases
<1>3. /\ client \in Clients /\ client.cursor = 0 /\ client.gap = FALSE
      /\ client.warned = FALSE
  BY <1>2 DEF NewClient, Clients
<1>4. submission = Nobody /\ Nobody \in Submissions /\ Nobody.begun = Nobody.question
  BY <1>1 DEF Nobody, Submissions
<1>5. /\ <<>> \in Seq(Job) /\ <<>> \in Seq(Outcome) /\ <<>> \in Seq(Packet)
      /\ DOMAIN <<>> = {}
  BY EmptySeq
<1>6. wire \in Wires /\ wire.packets = <<>> /\ wire.jobs = <<>>
  BY <1>5 DEF Wires
<1>7. push \in Pushes /\ ~push.woken /\ ~push.scheduled /\ ~push.refresh
  BY DEF Pushes
<1>8. /\ log \in [first : Nat, last : 0 .. MaxEvents] /\ log.first = 1 /\ log.last = 0
  BY <1>1
<1>9. stage \in Stages /\ (shell = "page" => stage = "running")
  BY DEF Stages
<1>10. closing \in BOOLEAN /\ cancel \in BOOLEAN /\ spent \in [losses : Nat, attempts : Nat]
  OBVIOUS
<1>11. log.first \in 1 .. log.last + 1 /\ client.cursor <= log.last /\ shell \in Shells
  BY <1>3, <1>8
<1>12. InterfaceTypeOK
  BY <1>2, <1>3, <1>4, <1>6, <1>7, <1>8, <1>9, <1>10, <1>11 DEF InterfaceTypeOK
<1>13. GapsAreTold /\ ClosedIsQuiet
  BY <1>3, <1>4 DEF GapsAreTold, ClosedIsQuiet
<1>14. ReadersInv
  BY <1>3, <1>5, <1>6, <1>7, <1>8, <1>9 DEF ReadersInv, Delivered
<1>15. CallsInv
  BY <1>4, <1>5, <1>6 DEF CallsInv
<1> QED
  BY <1>12, <1>13, <1>14, <1>15 DEF InterfaceInv

LEMMA InterfaceStands ==
  ASSUME InterfaceInv, UNCHANGED interfaceVars
  PROVE  InterfaceInv'
<1>1. UNCHANGED <<Questions, NoDraft>>
  BY DEF Questions, NoDraft, interfaceVars
<1>2. UNCHANGED <<View, Wires, Submissions, Clients, Pushes>>
  BY <1>1 DEF View, Job, Packet, Wires, Submissions, Clients, Pushes
<1>3. InterfaceTypeOK'
  BY <1>2 DEF InterfaceInv, InterfaceTypeOK, interfaceVars
<1>4. UNCHANGED <<Delivered, Serving>>
  BY DEF Delivered, Serving, interfaceVars
<1>5. GapsAreTold' /\ ClosedIsQuiet' /\ ReadersInv' /\ CallsInv'
  BY <1>4 DEF InterfaceInv, GapsAreTold, ClosedIsQuiet, ReadersInv, CallsInv, interfaceVars
<1> QED
  BY <1>3, <1>5 DEF InterfaceInv

LEMMA InterfaceKept == InterfaceInv /\ [InterfaceNext]_interfaceVars => InterfaceInv'
<1> SUFFICES ASSUME InterfaceInv, [InterfaceNext]_interfaceVars PROVE InterfaceInv'
  OBVIOUS
<1>1. CASE Core \/ SubmissionBegins \/ SubmissionEnds
  BY <1>1, CoreStep
<1>2. CASE Handle
  BY <1>2, HandleStep
<1>3. CASE Schedule \/ Refresh
  BY <1>3, PushStep
<1>4. CASE Flush
  BY <1>4, FlushStep
<1>5. CASE PollAnswered
  BY <1>5, PollStep
<1>6. CASE Receive
  BY <1>6, ReceiveStep
<1>7. CASE PollFails
  BY <1>7, PollFailsStep
<1>8. CASE TakeReply \/ ReplyLost
  BY <1>8, ReplyStep
<1>9. CASE Type \/ Erase \/ Send \/ NewChat \/ PressConfirm \/ PressStop
  BY <1>9, UserStep
<1>10. CASE CloseWindow
  BY <1>10, CloseStep
<1>11. CASE Session
  BY <1>11, SessionStep
<1>12. CASE UNCHANGED interfaceVars
  BY <1>12, InterfaceStands
<1> QED
  BY <1>1, <1>2, <1>3, <1>4, <1>5, <1>6, <1>7, <1>8, <1>9, <1>10, <1>11, <1>12
     DEF InterfaceNext, Transport, Client, User

(* A reader that has missed an event has been told so, what a window is    *)
(* pushed follows what it has, and nothing is handed over to a core that   *)
(* has closed its transport (web_ui.LocalWebUI, native_ui.NativeTransport  *)
(* and runtime.Bridge).                                                    *)
THEOREM InterfaceHolds == InterfaceSpec => []InterfaceInv
<1>1. InterfaceInit => InterfaceInv
  BY InterfaceBegins
<1>2. InterfaceInv /\ [InterfaceNext]_interfaceVars => InterfaceInv'
  BY InterfaceKept
<1> QED
  BY <1>1, <1>2, PTL DEF InterfaceSpec

(* A text or a press of a button, from a page or from a window, answers a  *)
(* question only if its author saw that very question: CallsInv carries    *)
(* what was seen from the draft to the core (window.py draft_changed,      *)
(* app.js draftConfirmationId, app.py _submit_text).                       *)
THEOREM AnswersAreMeant == InterfaceSpec => AnswersWereMeant
<1>1. ASSUME InterfaceInv
      PROVE  /\ SubmissionBegins /\ Answers(submission.question) => submission.begun = app.question
             /\ \A i \in DOMAIN wire.jobs :
                  Confirm(i) /\ Answers(wire.jobs[i].question) => wire.jobs[i].begun = app.question
  BY <1>1 DEF InterfaceInv, CallsInv, Answers
<1> QED
  BY <1>1, InterfaceHolds, PTL DEF AnswersWereMeant

==============================================================================
