------------------------- MODULE ConfirmationProofs -------------------------
(***************************************************************************)
(* Theorems about Confirmation, for any finite set of callers, any sources *)
(* and any bounds.  IInv (in Confirmation) is inductive in two layers.     *)
(* CallInv: the lock lets one caller publish, a reply can only be queued   *)
(* for the request that is published, and whatever is queued is gone when  *)
(* that request is taken down.  VerdictInv: the first decisive reply is    *)
(* still in the queue, behind undecided ones only, until it is taken.      *)
(* With both, every step of the service is one of its contract or none.    *)
(***************************************************************************)
EXTENDS Confirmation, TLAPS, FiniteSetTheorems, SequenceTheorems

LEMMA QueuedFinite == IsFiniteSet(Queued) /\ Cardinality(Queued) \in Nat
<1>1. IsFiniteSet(Queued)
  BY ConfirmationAssumption, FS_Subset DEF Queued
<1>2. QED
  BY <1>1, FS_CardinalityType

\* A caller that leaves the queue frees its place in the bound.
LEMMA QueuedLeaves ==
  ASSUME NEW c \in Callers, c \in Queued, Queued' = Queued \ {c}
  PROVE  Cardinality(Queued') = Cardinality(Queued) - 1
BY QueuedFinite, FS_RemoveElement

LEMMA DecisionType ==
  \A m, sc : Decision(m, sc) \in {"none", "accept", "refuse"}
BY DEF Decision

LEMMA InitCallInv == Init => CallInv
<1> SUFFICES ASSUME Init PROVE CallInv
  OBVIOUS
<1> USE DEF Init
<1>1. TypeOK
  <2>1. lock \in Seq(Callers) /\ responses \in Seq(Replies)
    BY EmptySeq
  <2>2. /\ phase \in [Callers -> Phases] /\ quiet \in [Callers -> BOOLEAN]
        /\ ended \in [Callers -> Endings] /\ waiting \subseteq Voice
        /\ grant \in [Callers -> Replies \cup {NoReply}]
        /\ first \in [Requests -> {"none", "accept", "refuse"}]
    BY Zenon DEF Phases, Endings
  <2>3. /\ issued \in 0..MaxRequests /\ request \in 0..MaxRequests
        /\ remaining \in 0..Timeout /\ awaiting \in BOOLEAN /\ processed \in BOOLEAN
        /\ held \in [Sources -> 0..MaxRequests] /\ asked \in [Callers -> 0..MaxRequests]
    <3>1. 0 \in 0..MaxRequests /\ 0 \in 0..Timeout
      BY ConfirmationAssumption
    <3>2. QED
      BY <3>1, Zenon
  <2>4. QED
    BY <2>1, <2>2, <2>3 DEF TypeOK
<1>2. LockInv /\ RequestInv
  BY DEF LockInv, RequestInv, Inside
<1>3. BoundInv
  <2>1. Queued = {}
    BY DEF Queued
  <2>2. QED
    BY <2>1, FS_EmptySet, ConfirmationAssumption DEF BoundInv
<1>4. NothingCarriedOver /\ GrantAnswersItsRequest
  BY DEF NothingCarriedOver, GrantAnswersItsRequest
<1>5. QED
  BY <1>1, <1>2, <1>3, <1>4 DEF CallInv

\* The finally block of ask, reached with any outcome that is not an approval
\* or with a reply to the caller's own request.
LEMMA LeaveKeepsCallInv ==
  ASSUME CallInv, NEW c \in Callers, phase[c] \in Inside,
         NEW how \in Endings, NEW reply \in Replies \cup {NoReply},
         how = "approved" => reply.request = asked[c],
         Leave(c, how, reply),
         UNCHANGED <<quiet, issued, remaining, held, asked, first>>
  PROVE  CallInv'
<1> USE DEF Leave, TakeDown, Leftovers, Release
<1>1. /\ lock \in Seq(Callers) /\ Len(lock) >= 1 /\ lock[1] = c
      /\ lock' = Tail(lock) /\ lock' \in Seq(Callers)
      /\ Len(lock') = Len(lock) - 1 /\ Len(lock) \in Nat /\ Len(lock') \in Nat
      /\ \A i \in 1..Len(lock') : lock'[i] = lock[i + 1]
  <2>1. lock \in Seq(Callers) /\ lock[1] = c /\ \E i \in 1..Len(lock) : lock[i] = c
    BY DEF CallInv, TypeOK, LockInv, Inside
  <2>2. lock # <<>>
    BY <2>1
  <2>3. QED
    BY <2>1, <2>2, HeadTailProperties
<1>2. TypeOK'
  <2>1. /\ phase' \in [Callers -> Phases] /\ ended' \in [Callers -> Endings]
        /\ grant' \in [Callers -> Replies \cup {NoReply}]
    BY DEF CallInv, TypeOK, Phases
  <2>2. responses' \in Seq(Replies)
    BY EmptySeq
  <2>3. request' \in 0..MaxRequests
    BY ConfirmationAssumption
  <2>4. QED
    BY <1>1, <2>1, <2>2, <2>3 DEF CallInv, TypeOK
<1>3. LockInv'
  <2>1. \A i, j \in 1..Len(lock') : lock'[i] = lock'[j] => i = j
    BY <1>1 DEF CallInv, LockInv
  <2>2. ASSUME NEW d \in Callers
        PROVE  phase'[d] # "idle" <=> \E i \in 1..Len(lock') : lock'[i] = d
    <3>1. CASE d = c
      <4>1. phase'[d] = "idle"
        BY <3>1 DEF CallInv, TypeOK
      <4>2. \A i \in 1..Len(lock') : lock'[i] # c
        BY <1>1 DEF CallInv, LockInv
      <4>3. QED
        BY <3>1, <4>1, <4>2
    <3>2. CASE d # c
      <4>1. phase'[d] = phase[d]
        BY <3>2 DEF CallInv, TypeOK
      <4>2. (\E i \in 1..Len(lock) : lock[i] = d)
              <=> \E i \in 1..Len(lock') : lock'[i] = d
        <5>1. ASSUME NEW i \in 1..Len(lock), lock[i] = d
              PROVE  i - 1 \in 1..Len(lock') /\ lock'[i - 1] = d
          BY <5>1, <1>1, <3>2
        <5>2. ASSUME NEW i \in 1..Len(lock'), lock'[i] = d
              PROVE  i + 1 \in 1..Len(lock) /\ lock[i + 1] = d
          BY <5>2, <1>1
        <5>3. QED
          BY <5>1, <5>2
      <4>3. QED
        BY <4>1, <4>2 DEF CallInv, LockInv
    <3>3. QED
      BY <3>1, <3>2
  <2>3. \A d \in Callers : phase'[d] \notin Inside
    BY DEF CallInv, LockInv, TypeOK, Inside
  <2>4. QED
    BY <2>1, <2>2, <2>3 DEF LockInv
<1>4. RequestInv'
  BY DEF CallInv, LockInv, TypeOK, Inside, RequestInv
<1>5. BoundInv'
  <2>1. Queued' = Queued
    BY DEF CallInv, TypeOK, Queued, Inside
  <2>2. QED
    BY <2>1 DEF CallInv, BoundInv
<1>6. NothingCarriedOver' /\ GrantAnswersItsRequest'
  BY DEF CallInv, TypeOK, NothingCarriedOver, GrantAnswersItsRequest, RequestInv
<1>7. QED
  BY <1>2, <1>3, <1>4, <1>5, <1>6 DEF CallInv

\* A step that stays inside the same request.
LEMMA StayKeepsCallInv ==
  ASSUME CallInv, NEW c \in Callers, phase[c] \in Inside, NEW p \in Inside,
         phase' = [phase EXCEPT ![c] = p],
         responses' \in Seq(Replies),
         \A i \in 1..Len(responses') : responses'[i].request = request,
         remaining' \in 0..Timeout, processed' \in BOOLEAN, waiting' \subseteq Voice,
         UNCHANGED <<lock, ended, grant, request, awaiting, asked, quiet, issued,
                     held, first>>
  PROVE  CallInv'
<1>1. TypeOK'
  BY DEF CallInv, TypeOK, Inside
<1>2. \A d \in Callers : /\ phase'[d] \in Inside <=> phase[d] \in Inside
                         /\ phase'[d] = "idle" <=> phase[d] = "idle"
                         /\ phase'[d] = "queued" <=> phase[d] = "queued"
  BY DEF CallInv, TypeOK, Inside
<1>3. LockInv' /\ RequestInv'
  BY <1>2 DEF CallInv, LockInv, RequestInv
<1>4. BoundInv'
  <2>1. Queued' = Queued
    BY <1>2 DEF Queued
  <2>2. QED
    BY <2>1 DEF CallInv, BoundInv
<1>5. NothingCarriedOver' /\ GrantAnswersItsRequest'
  BY DEF CallInv, RequestInv, NothingCarriedOver, GrantAnswersItsRequest
<1>6. QED
  BY <1>1, <1>3, <1>4, <1>5 DEF CallInv

\* What is left in the queue after taking one reply still belongs to the request.
LEMMA UnreadReplies ==
  ASSUME CallInv, responses # <<>>
  PROVE  /\ Head(responses) \in Replies
         /\ Head(responses).request = request
         /\ Unread(responses) \in Seq(Replies)
         /\ \A i \in 1..Len(Unread(responses)) : Unread(responses)[i].request = request
<1>1. responses \in Seq(Replies)
  BY DEF CallInv, TypeOK
<1>2. /\ Tail(responses) \in Seq(Replies) /\ Len(Tail(responses)) = Len(responses) - 1
      /\ Head(responses) = responses[1]
      /\ \A i \in 1..Len(Tail(responses)) : Tail(responses)[i] = responses[i + 1]
      /\ Len(responses) \in Nat /\ Len(responses) >= 1 /\ responses[1] \in Replies
  BY <1>1, HeadTailProperties
<1>3. \A i \in 1..Len(responses) : responses[i].request = request
  BY DEF CallInv, NothingCarriedOver
<1>4. QED
  BY <1>2, <1>3 DEF Unread

\* _cancel_notice, spoken or not.
LEMMA NoticeKeepsCallInv ==
  ASSUME CallInv, NEW c \in Callers, phase[c] \in Inside, NEW how \in Notices, NEW rest,
         rest \in Seq(Replies), \A i \in 1..Len(rest) : rest[i].request = request,
         CancelNotice(c, how, rest),
         UNCHANGED <<quiet, issued, remaining, held, asked, first>>
  PROVE  CallInv'
<1>1. how \in Endings /\ how # "approved" /\ how \in Inside
  BY DEF Notices, Endings, Inside, Phases
<1>2. CASE Leave(c, how, NoReply)
  BY <1>1, <1>2, LeaveKeepsCallInv
<1>3. CASE /\ phase' = [phase EXCEPT ![c] = how] /\ responses' = rest
           /\ UNCHANGED <<ended, grant, request, awaiting, processed, waiting, lock>>
  <2>1. remaining' \in 0..Timeout /\ processed' \in BOOLEAN /\ waiting' \subseteq Voice
    BY <1>3 DEF CallInv, TypeOK
  <2>2. QED
    BY <1>1, <1>3, <2>1, StayKeepsCallInv
<1>4. QED
  BY <1>2, <1>3 DEF CancelNotice

LEMMA AskKeepsCallInv ==
  ASSUME CallInv, NEW c \in Callers, NEW q \in BOOLEAN, Ask(c, q)
  PROVE  CallInv'
<1> USE DEF Ask
<1>1. /\ lock \in Seq(Callers) /\ lock' \in Seq(Callers) /\ Len(lock) \in Nat
      /\ Len(lock') = Len(lock) + 1 /\ lock'[Len(lock) + 1] = c
      /\ \A i \in 1..Len(lock) : lock'[i] = lock[i]
  BY AppendProperties DEF CallInv, TypeOK
<1>2. TypeOK'
  BY <1>1 DEF CallInv, TypeOK, Phases
<1>3. \A i \in 1..Len(lock) : lock[i] # c
  BY DEF CallInv, LockInv
<1>4. LockInv'
  <2>1. \A i, j \in 1..Len(lock') : lock'[i] = lock'[j] => i = j
    BY <1>1, <1>3 DEF CallInv, LockInv
  <2>2. ASSUME NEW d \in Callers
        PROVE  phase'[d] # "idle" <=> \E i \in 1..Len(lock') : lock'[i] = d
    <3>1. CASE d = c
      BY <1>1, <3>1 DEF CallInv, TypeOK
    <3>2. CASE d # c
      <4>1. phase'[d] = phase[d]
        BY <3>2 DEF CallInv, TypeOK
      <4>2. (\E i \in 1..Len(lock') : lock'[i] = d) <=> (\E i \in 1..Len(lock) : lock[i] = d)
        BY <1>1, <3>2
      <4>3. QED
        BY <4>1, <4>2 DEF CallInv, LockInv
    <3>3. QED
      BY <3>1, <3>2
  <2>3. ASSUME NEW d \in Callers, phase'[d] \in Inside
        PROVE  lock'[1] = d
    <3>1. phase[d] \in Inside /\ lock[1] = d
      BY <2>3 DEF CallInv, TypeOK, LockInv, Inside
    <3>2. Len(lock) >= 1
      BY <3>1, <1>1 DEF CallInv, LockInv, Inside
    <3>3. QED
      BY <3>1, <3>2, <1>1
  <2>4. QED
    BY <2>1, <2>2, <2>3 DEF LockInv
<1>5. RequestInv'
  BY DEF CallInv, TypeOK, RequestInv, Inside
<1>6. BoundInv'
  <2>1. Queued' = Queued \cup {c} /\ c \notin Queued
    BY DEF CallInv, TypeOK, Queued
  <2>2. Cardinality(Queued') = Cardinality(Queued) + 1
    BY <2>1, QueuedFinite, FS_AddElement
  <2>3. QED
    BY <2>2, QueuedFinite, ConfirmationAssumption DEF CallInv, TypeOK, BoundInv
<1>7. NothingCarriedOver' /\ GrantAnswersItsRequest'
  BY DEF CallInv, NothingCarriedOver, GrantAnswersItsRequest
<1>8. QED
  BY <1>2, <1>4, <1>5, <1>6, <1>7 DEF CallInv

\* Whoever holds the lock and has not begun yet is alone: nobody is inside.
LEMMA BeginKeepsCallInv ==
  ASSUME CallInv, NEW c \in Callers, Begin(c)
  PROVE  CallInv'
<1> USE DEF Begin, HasLock
<1>1. \A d \in Callers : phase[d] \notin Inside
  BY DEF CallInv, LockInv, Inside
<1>2. issued + 1 + Cardinality(Queued') <= MaxRequests /\ Cardinality(Queued') \in Nat
  <2>1. c \in Queued /\ Queued' = Queued \ {c}
    BY DEF CallInv, TypeOK, Queued
  <2>2. Cardinality(Queued') = Cardinality(Queued) - 1
    BY <2>1, QueuedLeaves
  <2>3. Cardinality(Queued') \in Nat
    BY <2>1, QueuedFinite, FS_RemoveElement, FS_CardinalityType
  <2>4. QED
    BY <2>2, <2>3, QueuedFinite, ConfirmationAssumption DEF CallInv, TypeOK, BoundInv
<1>3. issued + 1 \in 1..MaxRequests
  BY <1>2, ConfirmationAssumption DEF CallInv, TypeOK
<1>4. TypeOK'
  <2>1. responses' \in Seq(Replies)
    BY EmptySeq
  <2>2. /\ phase' \in [Callers -> Phases] /\ ended' \in [Callers -> Endings]
        /\ grant' \in [Callers -> Replies \cup {NoReply}]
    BY DEF CallInv, TypeOK, Phases, Endings
  <2>3. /\ issued' \in 0..MaxRequests /\ request' \in 0..MaxRequests
        /\ asked' \in [Callers -> 0..MaxRequests] /\ awaiting' \in BOOLEAN
    BY <1>3 DEF CallInv, TypeOK
  <2>4. QED
    BY <2>1, <2>2, <2>3 DEF CallInv, TypeOK
<1>5. \A d \in Callers : /\ phase'[d] \in Inside <=> d = c
                         /\ phase'[d] = "idle" <=> phase[d] = "idle"
  BY <1>1 DEF CallInv, TypeOK, Inside, Phases
<1>6. LockInv'
  BY <1>5 DEF CallInv, LockInv
<1>7. RequestInv'
  BY <1>3, <1>5 DEF CallInv, TypeOK, RequestInv
<1>8. BoundInv'
  BY <1>2 DEF BoundInv
<1>9. NothingCarriedOver' /\ GrantAnswersItsRequest'
  BY DEF CallInv, TypeOK, NothingCarriedOver, GrantAnswersItsRequest
<1>10. QED
  BY <1>4, <1>6, <1>7, <1>8, <1>9 DEF CallInv

LEMMA RemoveAtProperties ==
  ASSUME NEW S, NEW s \in Seq(S), NEW i \in 1..Len(s)
  PROVE  /\ RemoveAt(s, i) \in Seq(S)
         /\ Len(RemoveAt(s, i)) = Len(s) - 1
         /\ \A j \in 1..(Len(s) - 1) :
              RemoveAt(s, i)[j] = IF j < i THEN s[j] ELSE s[j + 1]
<1> DEFINE a == SubSeq(s, 1, i - 1)
           b == SubSeq(s, i + 1, Len(s))
<1>1. Len(s) \in Nat /\ i \in Nat /\ i >= 1 /\ i <= Len(s)
  BY LenProperties
<1>2. a \in Seq(S) /\ Len(a) = i - 1 /\ \A j \in 1..(i - 1) : a[j] = s[j]
  BY <1>1, SubSeqProperties
<1>3. b \in Seq(S) /\ Len(b) = Len(s) - i /\ \A j \in 1..(Len(s) - i) : b[j] = s[i + j]
  BY <1>1, SubSeqProperties
<1>4. /\ a \o b \in Seq(S) /\ Len(a \o b) = Len(a) + Len(b)
      /\ \A j \in 1..(Len(a) + Len(b)) :
           (a \o b)[j] = IF j <= Len(a) THEN a[j] ELSE b[j - Len(a)]
  BY <1>2, <1>3, ConcatProperties
<1>5. RemoveAt(s, i) = a \o b
  BY DEF RemoveAt
<1> HIDE DEF a, b
<1>6. Len(a \o b) = Len(s) - 1
  BY <1>1, <1>2, <1>3, <1>4
<1>7. ASSUME NEW j \in 1..(Len(s) - 1)
      PROVE  (a \o b)[j] = IF j < i THEN s[j] ELSE s[j + 1]
  <2>1. j \in 1..(Len(a) + Len(b))
    BY <1>1, <1>2, <1>3
  <2>2. CASE j < i
    BY <1>1, <1>2, <1>4, <2>1, <2>2
  <2>3. CASE ~(j < i)
    <3>1. (a \o b)[j] = b[j - Len(a)] /\ j - Len(a) = j - (i - 1)
      BY <1>1, <1>2, <1>4, <2>1, <2>3
    <3>2. b[j - (i - 1)] = s[i + (j - (i - 1))]
      BY <1>1, <1>3, <2>3
    <3>3. i + (j - (i - 1)) = j + 1
      BY <1>1
    <3>4. b[j - Len(a)] = b[j - (i - 1)]
      BY <3>1, Zenon
    <3>5. s[i + (j - (i - 1))] = s[j + 1]
      BY <3>3, Zenon
    <3>6. QED
      BY <2>3, <3>1, <3>2, <3>4, <3>5, Zenon
  <2>4. QED
    BY <2>2, <2>3, Zenon
<1>8. QED
  BY <1>4, <1>5, <1>6, <1>7

\* A caller cancelled before its turn leaves the queue; the one inside stays.
LEMMA AbortKeepsCallInv ==
  ASSUME CallInv, NEW c \in Callers, Abort(c)
  PROVE  CallInv'
<1>1. CASE phase[c] \in Inside
  <2>1. Leave(c, "aborted", NoReply) /\ UNCHANGED <<quiet, issued, remaining, held, asked, first>>
    BY <1>1 DEF Abort, Inside
  <2>2. "aborted" \in Endings
    BY DEF Endings
  <2>3. QED
    BY <1>1, <2>1, <2>2, LeaveKeepsCallInv
<1>2. CASE phase[c] = "queued"
  <2>1. /\ phase' = [phase EXCEPT ![c] = "idle"]
        /\ ended' = [ended EXCEPT ![c] = "aborted"]
        /\ UNCHANGED <<quiet, request, issued, awaiting, processed, responses,
                       remaining, held, waiting, asked, grant, first>>
    BY <1>2 DEF Abort, Inside
  <2>2. PICK i \in 1..Len(lock) : lock[i] = c /\ lock' = RemoveAt(lock, i)
    BY <1>2 DEF Abort, Inside
  <2>3. /\ lock \in Seq(Callers) /\ lock' \in Seq(Callers) /\ Len(lock) \in Nat
        /\ Len(lock') = Len(lock) - 1
        /\ \A j \in 1..(Len(lock) - 1) : lock'[j] = IF j < i THEN lock[j] ELSE lock[j + 1]
    BY <2>2, RemoveAtProperties, LenProperties DEF CallInv, TypeOK
  <2>4. TypeOK'
    BY <2>1, <2>3 DEF CallInv, TypeOK, Phases, Endings
  <2>5. \A d \in Callers : phase'[d] \in Inside <=> phase[d] \in Inside
    BY <1>2, <2>1 DEF CallInv, TypeOK, Inside
  <2>6. LockInv'
    <3>1. \A j, k \in 1..Len(lock) : lock[j] = lock[k] => j = k
      BY DEF CallInv, LockInv
    <3>2. \A j, k \in 1..Len(lock') : lock'[j] = lock'[k] => j = k
      <4> SUFFICES ASSUME NEW j \in 1..Len(lock'), NEW k \in 1..Len(lock'),
                          lock'[j] = lock'[k]
                   PROVE  j = k
        OBVIOUS
      <4> DEFINE at(n) == IF n < i THEN n ELSE n + 1
      <4>1. at(j) \in 1..Len(lock) /\ at(k) \in 1..Len(lock)
        BY <2>3
      <4>2. lock'[j] = lock[at(j)] /\ lock'[k] = lock[at(k)]
        BY <2>3
      <4>3. at(j) = at(k)
        BY <3>1, <4>1, <4>2
      <4>4. QED
        BY <2>3, <4>3
    <3>3. ASSUME NEW d \in Callers
          PROVE  phase'[d] # "idle" <=> \E j \in 1..Len(lock') : lock'[j] = d
      <4>1. CASE d = c
        <5>1. \A j \in 1..Len(lock') : lock'[j] # c
          BY <2>2, <2>3, <3>1
        <5>2. QED
          BY <2>1, <4>1, <5>1 DEF CallInv, TypeOK
      <4>2. CASE d # c
        <5>1. phase'[d] = phase[d]
          BY <2>1, <4>2 DEF CallInv, TypeOK
        <5>2. ASSUME NEW j \in 1..Len(lock), lock[j] = d
              PROVE  \E k \in 1..Len(lock') : lock'[k] = d
          <6>1. CASE j < i
            <7>1. j \in 1..Len(lock') /\ lock'[j] = d
              BY <2>2, <2>3, <5>2, <6>1
            <7>2. QED
              BY <7>1
          <6>2. CASE j > i
            <7>1. j - 1 \in 1..Len(lock') /\ lock'[j - 1] = d
              BY <2>2, <2>3, <5>2, <6>2
            <7>2. QED
              BY <7>1
          <6>3. QED
            BY <2>2, <4>2, <5>2, <6>1, <6>2
        <5>3. ASSUME NEW j \in 1..Len(lock'), lock'[j] = d
              PROVE  \E k \in 1..Len(lock) : lock[k] = d
          BY <2>3, <5>3
        <5>4. QED
          BY <5>1, <5>2, <5>3 DEF CallInv, LockInv
      <4>3. QED
        BY <4>1, <4>2
    <3>4. ASSUME NEW d \in Callers, phase'[d] \in Inside
          PROVE  lock'[1] = d
      <4>1. lock[1] = d /\ d # c
        BY <1>2, <2>5, <3>4 DEF CallInv, LockInv, Inside
      <4>2. i > 1
        BY <2>2, <4>1
      <4>3. QED
        BY <2>2, <2>3, <4>1, <4>2
    <3>5. QED
      BY <3>2, <3>3, <3>4 DEF LockInv
  <2>7. RequestInv'
    BY <2>1, <2>5 DEF CallInv, RequestInv
  <2>8. BoundInv'
    <3>1. c \in Queued /\ Queued' = Queued \ {c}
      BY <1>2, <2>1 DEF CallInv, TypeOK, Queued
    <3>2. Cardinality(Queued') = Cardinality(Queued) - 1
      BY <3>1, QueuedLeaves
    <3>3. QED
      BY <2>1, <3>2, QueuedFinite, ConfirmationAssumption DEF CallInv, TypeOK, BoundInv
  <2>9. NothingCarriedOver' /\ GrantAnswersItsRequest'
    BY <2>1 DEF CallInv, TypeOK, NothingCarriedOver, GrantAnswersItsRequest
  <2>10. QED
    BY <2>4, <2>6, <2>7, <2>8, <2>9 DEF CallInv
<1>3. QED
  BY <1>1, <1>2 DEF Abort

\* The steps of the caller inside ask.
LEMMA CallerKeepsCallInv ==
  ASSUME CallInv, NEW c \in Callers, Caller(c)
  PROVE  CallInv'
<1>1. ASSUME Begin(c) PROVE CallInv'
  BY <1>1, BeginKeepsCallInv
<1>2. ASSUME PromptSpoken(c) PROVE CallInv'
  <2>1. phase[c] \in Inside /\ "listening" \in Inside /\ Timeout \in 0..Timeout
    BY <1>2, ConfirmationAssumption DEF PromptSpoken, Inside, Phases
  <2>2. /\ responses \in Seq(Replies) /\ processed \in BOOLEAN /\ waiting \subseteq Voice
        /\ \A i \in 1..Len(responses) : responses[i].request = request
    BY DEF CallInv, TypeOK, NothingCarriedOver
  <2>3. QED
    BY <1>2, <2>1, <2>2, StayKeepsCallInv DEF PromptSpoken
<1>3. ASSUME TakeReply(c) PROVE CallInv'
  <2> DEFINE reply == Head(responses)
             decision == Decision(reply.meaning, reply.score)
  <2>1. phase[c] \in Inside /\ phase[c] = "listening" /\ responses # <<>>
    BY <1>3 DEF TakeReply, Inside, Phases
  <2>2. UNCHANGED <<quiet, issued, remaining, held, asked, first>>
    BY <1>3 DEF TakeReply
  <2>3. reply \in Replies /\ reply.request = asked[c]
    BY <2>1, UnreadReplies DEF CallInv, RequestInv
  <2>4. CASE Leave(c, "approved", reply)
    <3>1. "approved" \in Endings
      BY DEF Endings
    <3>2. QED
      BY <2>1, <2>2, <2>3, <2>4, <3>1, LeaveKeepsCallInv
  <2>5. CASE CancelNotice(c, "declined", Unread(responses))
    <3>1. "declined" \in Notices
      BY DEF Notices
    <3>2. QED
      BY <2>1, <2>2, <2>5, <3>1, UnreadReplies, NoticeKeepsCallInv
  <2>6. CASE /\ phase' = [phase EXCEPT ![c] = "repeating"]
             /\ responses' = Unread(responses)
             /\ UNCHANGED <<lock, ended, grant, request, awaiting, processed, waiting>>
    <3>1. "repeating" \in Inside
      BY DEF Inside, Phases
    <3>2. remaining' \in 0..Timeout /\ processed' \in BOOLEAN /\ waiting' \subseteq Voice
      BY <2>2, <2>6 DEF CallInv, TypeOK
    <3>3. QED
      BY <2>1, <2>2, <2>6, <3>1, <3>2, UnreadReplies, StayKeepsCallInv
  <2>7. QED
    BY <1>3, <2>4, <2>5, <2>6 DEF TakeReply
<1>4. ASSUME TimedOut(c) PROVE CallInv'
  <2>1. phase[c] \in Inside /\ "timeout" \in Notices
    BY <1>4 DEF TimedOut, Inside, Phases, Notices
  <2>2. /\ responses \in Seq(Replies)
        /\ \A i \in 1..Len(responses) : responses[i].request = request
    BY DEF CallInv, TypeOK, NothingCarriedOver
  <2>3. QED
    BY <1>4, <2>1, <2>2, NoticeKeepsCallInv DEF TimedOut
<1>5. ASSUME Repeated(c) PROVE CallInv'
  <2>1. /\ phase[c] \in Inside /\ "listening" \in Inside /\ "timeout" \in Inside
        /\ "timeout" \in Endings
    BY <1>5 DEF Repeated, Inside, Phases, Endings
  <2>2. /\ responses \in Seq(Replies) /\ remaining \in 0..Timeout
        /\ \A i \in 1..Len(responses) : responses[i].request = request
    BY DEF CallInv, TypeOK, NothingCarriedOver
  <2>3. /\ UNCHANGED <<quiet, issued, remaining, held, asked, first>>
        /\ processed' \in BOOLEAN /\ waiting' \subseteq Voice
    BY <1>5 DEF Repeated, Release
  <2>4. CASE Leave(c, "timeout", NoReply)
    BY <2>1, <2>3, <2>4, LeaveKeepsCallInv
  <2>5. ASSUME NEW p \in Inside,
               /\ phase' = [phase EXCEPT ![c] = p]
               /\ UNCHANGED <<lock, ended, grant, request, awaiting, responses>>
        PROVE  CallInv'
    BY <2>1, <2>2, <2>3, <2>5, StayKeepsCallInv
  <2>6. QED
    BY <1>5, <2>1, <2>4, <2>5 DEF Repeated
<1>6. ASSUME NoticeSpoken(c) PROVE CallInv'
  <2>1. phase[c] \in Inside /\ phase[c] \in Endings /\ phase[c] # "approved"
    BY <1>6 DEF NoticeSpoken, Notices, Inside, Phases, Endings
  <2>2. QED
    BY <1>6, <2>1, LeaveKeepsCallInv DEF NoticeSpoken
<1>7. QED
  BY <1>1, <1>2, <1>3, <1>4, <1>5, <1>6 DEF Caller

\* Time, and the sources of replies, only touch what they were given.
LEMMA TickKeepsCallInv ==
  ASSUME CallInv, Tick
  PROVE  CallInv'
<1>1. remaining' \in 0..Timeout
  BY ConfirmationAssumption DEF CallInv, TypeOK, Tick, BeforeDeadline
<1>2. UNCHANGED <<asking, request, issued, awaiting, processed, responses, held, waiting, first>>
  BY DEF Tick
<1>3. QED
  BY <1>1, <1>2 DEF CallInv, TypeOK, LockInv, RequestInv, BoundInv, NothingCarriedOver,
                    GrantAnswersItsRequest, Queued, asking

LEMMA CaptureKeepsCallInv ==
  ASSUME CallInv, NEW s \in Sources, Capture(s)
  PROVE  CallInv'
<1>1. held' \in [Sources -> 0..MaxRequests]
  BY DEF CallInv, TypeOK, Capture
<1>2. UNCHANGED <<asking, request, issued, awaiting, processed, responses, remaining, waiting, first>>
  BY DEF Capture
<1>3. QED
  BY <1>1, <1>2 DEF CallInv, TypeOK, LockInv, RequestInv, BoundInv, NothingCarriedOver,
                    GrantAnswersItsRequest, Queued, asking

\* The check in submit is what puts only replies to the published request in
\* the queue.
LEMMA SubmitKeepsCallInv ==
  ASSUME CallInv, NEW s \in Sources, NEW meaning \in Meanings, NEW score \in Scores,
         NEW sound \in BOOLEAN, Submit(s, meaning, score, sound)
  PROVE  CallInv'
<1> USE DEF Submit
<1>1. UNCHANGED <<lock, phase, quiet, asked, ended, grant, request, issued, awaiting, remaining>>
  BY DEF asking
<1>2. held' \in [Sources -> 0..MaxRequests]
  BY ConfirmationAssumption DEF CallInv, TypeOK
<1>3. CASE Correlated(held[s]) /\ Len(responses) < MaxQueued
  <2> DEFINE reply == [meaning |-> meaning, score |-> score, request |-> held[s], sound |-> sound]
  <2>1. held[s] = request /\ awaiting /\ request \in Requests /\ reply \in Replies
    BY <1>3, ConfirmationAssumption DEF CallInv, TypeOK, Correlated, Requests, Replies
  <2>2. responses' = Append(responses, reply) /\ responses \in Seq(Replies)
    BY <1>3 DEF CallInv, TypeOK
  <2>3. reply.request = request
    BY <2>1
  <2> HIDE DEF reply
  <2>4. /\ responses' \in Seq(Replies) /\ Len(responses') = Len(responses) + 1
        /\ responses'[Len(responses) + 1] = reply
        /\ \A i \in 1..Len(responses) : responses'[i] = responses[i]
        /\ Len(responses) \in Nat
    BY <2>1, <2>2, AppendProperties
  <2>5. first' \in [Requests -> {"none", "accept", "refuse"}]
    <3>1. Decision(meaning, score) \in {"none", "accept", "refuse"}
      BY DecisionType
    <3>2. first' = IF first[request] = "none"
                   THEN [first EXCEPT ![request] = Decision(meaning, score)] ELSE first
      BY <1>3 DEF Correlated
    <3>3. first \in [Requests -> {"none", "accept", "refuse"}]
      BY DEF CallInv, TypeOK
    <3> HIDE DEF Submit
    <3>4. QED
      BY <3>1, <3>2, <3>3
  <2>6. processed' \in BOOLEAN /\ waiting' \subseteq Voice
    BY <1>3 DEF CallInv, TypeOK
  <2>7. TypeOK'
    BY <1>1, <1>2, <2>4, <2>5, <2>6 DEF CallInv, TypeOK
  <2>8. NothingCarriedOver'
    BY <1>1, <2>1, <2>3, <2>4 DEF CallInv, NothingCarriedOver
  <2>9. QED
    BY <1>1, <2>7, <2>8 DEF CallInv, LockInv, RequestInv, BoundInv, GrantAnswersItsRequest, Queued
<1>4. CASE ~Correlated(held[s])
  BY <1>1, <1>2, <1>4 DEF CallInv, TypeOK, LockInv, RequestInv, BoundInv, NothingCarriedOver,
                          GrantAnswersItsRequest, Queued
<1>5. QED
  BY <1>3, <1>4

LEMMA ReplyKeepsCallInv ==
  ASSUME CallInv, NEW s \in Sources, Type(s) \/ Speak(s)
  PROVE  CallInv'
<1>1. ASSUME Type(s) PROVE CallInv'
  <2>1. PICK meaning \in Meanings : Submit(s, meaning, "unscored", TRUE)
    BY <1>1 DEF Type
  <2>2. "unscored" \in Scores
    BY DEF Scores
  <2>3. QED
    BY <2>1, <2>2, SubmitKeepsCallInv
<1>2. ASSUME Speak(s) PROVE CallInv'
  <2>1. PICK u \in Spoken : Submit(s, u.meaning, VoiceScore(u), Sound(u))
    BY <1>2 DEF Speak
  <2>2. u \in Utterances
    BY ConfirmationAssumption
  <2>3. u.meaning \in Meanings /\ VoiceScore(u) \in Scores
    BY <2>2 DEF Utterances, VoiceScore, Scores
  <2>4. Sound(u) \in BOOLEAN
    BY <2>2 DEF Utterances, Sound
  <2>5. QED
    BY <2>1, <2>3, <2>4, SubmitKeepsCallInv
<1>3. QED
  BY <1>1, <1>2

LEMMA NextKeepsCallInv == CallInv /\ [Next]_vars => CallInv'
<1> SUFFICES ASSUME CallInv, [Next]_vars PROVE CallInv'
  OBVIOUS
<1>1. ASSUME NEW c \in Callers, NEW q \in BOOLEAN, Ask(c, q) PROVE CallInv'
  BY <1>1, AskKeepsCallInv
<1>2. ASSUME NEW c \in Callers, Caller(c) PROVE CallInv'
  BY <1>2, CallerKeepsCallInv
<1>3. ASSUME NEW c \in Callers, Abort(c) PROVE CallInv'
  BY <1>3, AbortKeepsCallInv
<1>4. ASSUME NEW s \in Sources, Capture(s) PROVE CallInv'
  BY <1>4, CaptureKeepsCallInv
<1>5. ASSUME NEW s \in Sources, Type(s) \/ Speak(s) PROVE CallInv'
  BY <1>5, ReplyKeepsCallInv
<1>6. ASSUME Tick PROVE CallInv'
  BY <1>6, TickKeepsCallInv
<1>7. CASE UNCHANGED vars
  BY <1>7 DEF CallInv, TypeOK, LockInv, RequestInv, BoundInv, NothingCarriedOver,
              GrantAnswersItsRequest, Queued, vars, asking
<1>8. QED
  BY <1>1, <1>2, <1>3, <1>4, <1>5, <1>6, <1>7 DEF Next

-----------------------------------------------------------------------------
\* The verdicts.  A reply that accepts is one that was heard soundly.
LEMMA AcceptingSpeechIsSound ==
  ASSUME NEW u \in Utterances, Decision(u.meaning, VoiceScore(u)) = "accept"
  PROVE  Sound(u)
<1>1. u.engine \in {"groq", "local"} /\ u.score \in Scores \ {"unscored"}
      /\ u.scored \in BOOLEAN /\ u.damaged \in BOOLEAN /\ u.fragment \in BOOLEAN
  BY DEF Utterances
<1>2. u.meaning = "accept" /\ VoiceScore(u) \in {"unscored", "high"}
  BY DEF Decision
<1>3. CASE u.engine = "groq"
  BY <1>1, <1>2, <1>3 DEF VoiceScore, Sound
<1>4. CASE u.engine = "local"
  BY <1>1, <1>2, <1>4 DEF VoiceScore, Sound, Scores
<1>5. QED
  BY <1>1, <1>3, <1>4

LEMMA InitVerdict == Init => VerdictInv
BY ConfirmationAssumption
   DEF Init, VerdictInv, RepliesDecide, FirstDecisiveReplyDecides, OnlySoundSpeechApproves,
       Undecided

\* A step that settles nothing: nobody begins to wait for a verdict, and only ends
\* without a decision are new.
LEMMA QuietKeepsVerdict ==
  ASSUME VerdictInv, UNCHANGED <<first, responses, request, issued>>,
         \A d \in Callers : phase'[d] \in Undecided => phase[d] \in Undecided,
         \A d \in Callers : phase'[d] = "declined" => phase[d] = "declined",
         \A d \in Callers : ended'[d] \in {"approved", "declined"} =>
            ended'[d] = ended[d] /\ grant'[d] = grant[d] /\ asked'[d] = asked[d]
  PROVE  VerdictInv'
<1>1. FirstIsQueued' = FirstIsQueued
  BY DEF FirstIsQueued, Verdict
<1>2. RepliesDecide'
  BY DEF VerdictInv, RepliesDecide, FirstDecisiveReplyDecides, OnlySoundSpeechApproves
<1>3. \A i \in 1..Len(responses') : Verdict(responses'[i]) = "accept" => responses'[i].sound
  BY DEF VerdictInv
<1>4. QED
  BY <1>1, <1>2, <1>3 DEF VerdictInv, Verdict

\* What the caller inside asks is the published request, and nobody else is inside.
LEMMA AloneInside ==
  ASSUME CallInv, NEW c \in Callers, phase[c] \in Inside
  PROVE  /\ asked[c] = request /\ request \in Requests
         /\ \A d \in Callers : phase[d] \in Inside => d = c
<1>1. asked[c] = request /\ request # 0
  BY DEF CallInv, RequestInv
<1>2. request \in Requests
  BY <1>1, ConfirmationAssumption DEF CallInv, TypeOK, Requests
<1>3. \A d \in Callers : phase[d] \in Inside => d = c
  BY DEF CallInv, LockInv
<1>4. QED
  BY <1>1, <1>2, <1>3

LEMMA LeaveKeepsVerdict ==
  ASSUME CallInv, VerdictInv, NEW c \in Callers, phase[c] \in Inside, NEW how, NEW reply,
         how = "approved" => first[request] = "accept" /\ reply.sound,
         how = "declined" => first[request] = "refuse",
         Leave(c, how, reply), UNCHANGED <<issued, asked, first>>
  PROVE  VerdictInv'
<1> USE DEF Leave, TakeDown, Leftovers
<1>1. /\ ended'[c] = how /\ grant'[c] = reply
      /\ \A d \in Callers : d # c => ended'[d] = ended[d] /\ grant'[d] = grant[d]
  BY DEF CallInv, TypeOK
<1>2. RepliesDecide'
  BY <1>1, AloneInside
     DEF VerdictInv, RepliesDecide, FirstDecisiveReplyDecides, OnlySoundSpeechApproves
<1>3. \A d \in Callers : ended'[d] \in {"approved", "declined"} => asked'[d] \in Requests
  BY <1>1, AloneInside DEF VerdictInv
<1>4. \A d \in Callers : phase'[d] \notin Undecided \cup {"declined"}
  <2>1. \A d \in Callers : phase[d] \in Undecided \cup {"declined"} => phase[d] \in Inside
    BY DEF Undecided, Inside, Phases
  <2>2. "idle" \notin Undecided \cup {"declined"}
    BY DEF Undecided
  <2>3. QED
    BY <2>1, <2>2, AloneInside DEF CallInv, TypeOK
<1>5. request' <= issued' /\ \A r \in Requests : r > issued' => first'[r] = "none"
  BY DEF VerdictInv, CallInv, TypeOK
<1>6. QED
  BY <1>2, <1>3, <1>4, <1>5 DEF VerdictInv

\* The step of a caller that stays inside without being given a verdict, or is given
\* one, keeps its request.
LEMMA StayKeepsVerdict ==
  ASSUME CallInv, VerdictInv, NEW c \in Callers, phase[c] \in Inside, NEW p,
         phase' = [phase EXCEPT ![c] = p],
         p \in Undecided => FirstIsQueued',
         p = "declined" => first[request] = "refuse",
         \A i \in 1..Len(responses') : Verdict(responses'[i]) = "accept" => responses'[i].sound,
         UNCHANGED <<ended, grant, request, asked, issued, first>>
  PROVE  VerdictInv'
<1>1. RepliesDecide'
  BY DEF VerdictInv, RepliesDecide, FirstDecisiveReplyDecides, OnlySoundSpeechApproves
<1>2. \A d \in Callers : d # c => phase'[d] \notin Undecided \cup {"declined"}
  <2>1. \A d \in Callers : phase[d] \in Undecided \cup {"declined"} => phase[d] \in Inside
    BY DEF Undecided, Inside, Phases
  <2>2. QED
    BY <2>1, AloneInside DEF CallInv, TypeOK
<1>3. phase'[c] = p
  BY DEF CallInv, TypeOK
<1>4. QED
  BY <1>1, <1>2, <1>3 DEF VerdictInv, Verdict

LEMMA BeginKeepsVerdict ==
  ASSUME CallInv, VerdictInv, CallInv', NEW c \in Callers, Begin(c)
  PROVE  VerdictInv'
<1> USE DEF Begin
<1>1. /\ request' = issued + 1 /\ request' \in Requests /\ issued \in Nat
      /\ first'[request'] = "none"
  <2>1. issued \in 0..MaxRequests /\ issued + 1 \in 0..MaxRequests
    BY DEF CallInv, TypeOK
  <2>2. issued + 1 \in Requests /\ issued + 1 > issued
    BY <2>1, ConfirmationAssumption DEF Requests
  <2>3. QED
    BY <2>1, <2>2 DEF VerdictInv
<1>2. FirstIsQueued'
  BY <1>1 DEF FirstIsQueued
<1>3. /\ ended'[c] = "none"
      /\ \A d \in Callers : d # c =>
           ended'[d] = ended[d] /\ grant'[d] = grant[d] /\ asked'[d] = asked[d]
  BY DEF CallInv, TypeOK
<1>4. RepliesDecide'
  BY <1>3 DEF VerdictInv, RepliesDecide, FirstDecisiveReplyDecides, OnlySoundSpeechApproves
<1>5. \A d \in Callers : ended'[d] \in {"approved", "declined"} => asked'[d] \in Requests
  BY <1>3 DEF VerdictInv
<1>6. \A d \in Callers : phase'[d] # "declined"
  <2>1. phase'[c] = "prompting" /\ phase[c] = "queued"
        /\ \A d \in Callers : d # c => phase'[d] = phase[d]
    BY DEF CallInv, TypeOK
  <2>2. ASSUME NEW d \in Callers, phase[d] = "declined" PROVE FALSE
    BY <2>1, <2>2 DEF HasLock, CallInv, LockInv, Inside, Phases
  <2>3. QED
    BY <2>1, <2>2
<1>7. request' <= issued' /\ \A r \in Requests : r > issued' => first'[r] = "none"
  BY <1>1 DEF VerdictInv, Requests
<1>8. QED
  BY <1>2, <1>4, <1>5, <1>6, <1>7 DEF VerdictInv

\* Only the first reply in the queue can be the verdict when it is taken.
LEMMA HeadDecides ==
  ASSUME CallInv, VerdictInv, NEW c \in Callers, phase[c] = "listening", responses # <<>>
  PROVE  /\ Verdict(Head(responses)) \in {"none", first[request]}
         /\ Verdict(Head(responses)) = "accept" => Head(responses).sound
         /\ Verdict(Head(responses)) = "none" /\ responses' = Tail(responses)
              /\ UNCHANGED <<first, request>> => FirstIsQueued'
         /\ \A i \in 1..Len(Tail(responses)) :
              Verdict(Tail(responses)[i]) = "accept" => Tail(responses)[i].sound
<1>1. responses \in Seq(Replies) /\ FirstIsQueued
  BY DEF CallInv, TypeOK, VerdictInv, Undecided
<1>2. /\ Len(Tail(responses)) = Len(responses) - 1 /\ Head(responses) = responses[1]
      /\ \A i \in 1..Len(Tail(responses)) : Tail(responses)[i] = responses[i + 1]
      /\ Len(responses) \in Nat /\ Len(responses) >= 1
  BY <1>1, HeadTailProperties
<1>3. \A i \in 1..Len(responses) : Verdict(responses[i]) = "accept" => responses[i].sound
  BY DEF VerdictInv
<1>4. Verdict(Head(responses)) \in {"none", first[request]}
  <2>1. CASE first[request] = "none" /\ \A i \in 1..Len(responses) : Verdict(responses[i]) = "none"
    BY <1>2, <2>1
  <2>2. ASSUME NEW i \in 1..Len(responses), Verdict(responses[i]) = first[request],
               \A j \in 1..i - 1 : Verdict(responses[j]) = "none"
        PROVE  Verdict(Head(responses)) \in {"none", first[request]}
    <3>1. i = 1 \/ 1 \in 1..i - 1
      BY <1>2
    <3>2. QED
      BY <1>2, <2>2, <3>1
  <2>3. QED
    BY <1>1, <2>1, <2>2 DEF FirstIsQueued
<1>5. ASSUME Verdict(Head(responses)) = "none", responses' = Tail(responses),
             UNCHANGED <<first, request>>
      PROVE  FirstIsQueued'
  <2>1. CASE first[request] = "none" /\ \A i \in 1..Len(responses) : Verdict(responses[i]) = "none"
    <3>1. \A i \in 1..Len(responses') : Verdict(responses'[i]) = "none"
      BY <1>2, <1>5, <2>1
    <3>2. QED
      BY <1>5, <2>1, <3>1 DEF FirstIsQueued, Verdict
  <2>2. ASSUME NEW i \in 1..Len(responses), Verdict(responses[i]) = first[request],
               first[request] # "none", \A j \in 1..i - 1 : Verdict(responses[j]) = "none"
        PROVE  FirstIsQueued'
    <3>1. i # 1
      BY <1>2, <1>5, <2>2
    <3>2. i - 1 \in 1..Len(responses') /\ Verdict(responses'[i - 1]) = first[request]
      BY <1>2, <1>5, <2>2, <3>1
    <3>3. ASSUME NEW j \in 1..(i - 1) - 1 PROVE Verdict(responses'[j]) = "none"
      <4>1. j \in 1..Len(responses') /\ j + 1 \in 1..i - 1
        BY <1>2, <1>5
      <4>2. QED
        BY <1>2, <1>5, <2>2, <4>1
    <3>4. QED
      BY <1>5, <2>2, <3>2, <3>3 DEF FirstIsQueued, Verdict
  <2>3. QED
    BY <1>1, <2>1, <2>2 DEF FirstIsQueued
<1>6. \A i \in 1..Len(Tail(responses)) :
         Verdict(Tail(responses)[i]) = "accept" => Tail(responses)[i].sound
  BY <1>2, <1>3
<1>7. Verdict(Head(responses)) = "accept" => Head(responses).sound
  BY <1>2, <1>3
<1>8. QED
  BY <1>4, <1>5, <1>6, <1>7

LEMMA NoticeKeepsVerdict ==
  ASSUME CallInv, VerdictInv, NEW c \in Callers, phase[c] \in Inside, NEW how \in Notices,
         NEW rest, how = "declined" => first[request] = "refuse",
         \A i \in 1..Len(rest) : Verdict(rest[i]) = "accept" => rest[i].sound,
         CancelNotice(c, how, rest), UNCHANGED <<issued, asked, first>>
  PROVE  VerdictInv'
<1>1. how # "approved" /\ how \notin Undecided
  BY DEF Notices, Undecided
<1>2. CASE Leave(c, how, NoReply)
  BY <1>1, <1>2, LeaveKeepsVerdict
<1>3. CASE /\ phase' = [phase EXCEPT ![c] = how] /\ responses' = rest
           /\ UNCHANGED <<ended, grant, request>>
  BY <1>1, <1>3, StayKeepsVerdict
<1>4. QED
  BY <1>2, <1>3 DEF CancelNotice

LEMMA TakeReplyKeepsVerdict ==
  ASSUME CallInv, VerdictInv, NEW c \in Callers, TakeReply(c)
  PROVE  VerdictInv'
<1> DEFINE reply == Head(responses)
<1>1. /\ phase[c] = "listening" /\ phase[c] \in Inside /\ responses # <<>>
      /\ UNCHANGED <<issued, asked, first>>
  BY DEF TakeReply, Inside, Phases
<1>2. /\ Verdict(reply) \in {"none", first[request]}
      /\ Verdict(reply) = "accept" => reply.sound
      /\ \A i \in 1..Len(Unread(responses)) :
           Verdict(Unread(responses)[i]) = "accept" => Unread(responses)[i].sound
  BY <1>1, HeadDecides DEF Unread
<1>3. CASE Verdict(reply) = "accept" /\ Leave(c, "approved", reply)
  BY <1>1, <1>2, <1>3, LeaveKeepsVerdict
<1>4. CASE Verdict(reply) = "refuse" /\ CancelNotice(c, "declined", Unread(responses))
  <2>1. "declined" \in Notices /\ first[request] = "refuse"
    BY <1>2, <1>4 DEF Notices
  <2>2. QED
    BY <1>1, <1>2, <1>4, <2>1, NoticeKeepsVerdict
<1>5. CASE /\ Verdict(reply) = "none"
           /\ phase' = [phase EXCEPT ![c] = "repeating"]
           /\ responses' = Unread(responses)
           /\ UNCHANGED <<lock, ended, grant, request, awaiting, processed, waiting>>
  <2>1. FirstIsQueued'
    BY <1>1, <1>5, HeadDecides DEF Unread
  <2>2. QED
    BY <1>1, <1>2, <1>5, <2>1, StayKeepsVerdict
<1>6. QED
  BY <1>3, <1>4, <1>5 DEF TakeReply, Verdict

LEMMA CallerKeepsVerdict ==
  ASSUME CallInv, VerdictInv, CallInv', NEW c \in Callers, Caller(c)
  PROVE  VerdictInv'
<1>0. \A i \in 1..Len(responses) : Verdict(responses[i]) = "accept" => responses[i].sound
  BY DEF VerdictInv
<1>1. CASE Begin(c)
  BY <1>1, BeginKeepsVerdict
<1>2. CASE PromptSpoken(c)
  BY <1>2, QuietKeepsVerdict DEF PromptSpoken, Undecided, CallInv, TypeOK
<1>3. CASE TakeReply(c)
  BY <1>3, TakeReplyKeepsVerdict
<1>4. CASE TimedOut(c)
  <2>1. phase[c] \in Inside /\ "timeout" \in Notices
    BY <1>4 DEF TimedOut, Inside, Phases, Notices
  <2>2. QED
    BY <1>0, <1>4, <2>1, NoticeKeepsVerdict DEF TimedOut
<1>5. CASE Repeated(c)
  <2>1. phase[c] \in Inside /\ phase[c] \in Undecided /\ UNCHANGED <<issued, asked, first>>
    BY <1>5 DEF Repeated, Inside, Phases, Undecided
  <2>2. CASE Leave(c, "timeout", NoReply)
    BY <2>1, <2>2, LeaveKeepsVerdict
  <2>3. ASSUME NEW p \in {"listening", "timeout"}, phase' = [phase EXCEPT ![c] = p],
               UNCHANGED <<ended, grant, request, responses>>
        PROVE  VerdictInv'
    <3>1. FirstIsQueued'
      BY <2>1, <2>3 DEF VerdictInv, FirstIsQueued, Verdict
    <3>2. QED
      BY <1>0, <2>1, <2>3, <3>1, StayKeepsVerdict
  <2>4. QED
    BY <1>5, <2>2, <2>3 DEF Repeated
<1>6. CASE NoticeSpoken(c)
  <2>1. /\ phase[c] \in Inside /\ phase[c] # "approved"
        /\ phase[c] = "declined" => first[request] = "refuse"
    BY <1>6 DEF NoticeSpoken, Notices, Inside, Phases, VerdictInv
  <2>2. QED
    BY <1>6, <2>1, LeaveKeepsVerdict DEF NoticeSpoken
<1>7. QED
  BY <1>1, <1>2, <1>3, <1>4, <1>5, <1>6 DEF Caller

LEMMA AbortKeepsVerdict ==
  ASSUME CallInv, VerdictInv, NEW c \in Callers, Abort(c)
  PROVE  VerdictInv'
<1>1. CASE phase[c] \in Inside
  BY <1>1, LeaveKeepsVerdict DEF Abort, Inside
<1>2. CASE phase[c] = "queued"
  <2>1. /\ phase' = [phase EXCEPT ![c] = "idle"]
        /\ ended' = [ended EXCEPT ![c] = "aborted"]
        /\ UNCHANGED <<first, responses, request, issued, grant, asked>>
    BY <1>2 DEF Abort, Inside
  <2>2. QED
    BY <2>1, QuietKeepsVerdict DEF Undecided, CallInv, TypeOK
<1>3. QED
  BY <1>1, <1>2 DEF Abort

\* submit puts a reply last, and first remembers the earliest one that decides.
LEMMA SubmitKeepsVerdict ==
  ASSUME CallInv, VerdictInv, NEW s \in Sources, NEW meaning \in Meanings,
         NEW score \in Scores, NEW sound \in BOOLEAN,
         Decision(meaning, score) = "accept" => sound,
         Submit(s, meaning, score, sound)
  PROVE  VerdictInv'
<1> USE DEF Submit
<1>1. UNCHANGED <<phase, asked, ended, grant, request, issued>>
  BY DEF asking
<1>2. CASE Correlated(held[s]) /\ Len(responses) < MaxQueued
  <2> DEFINE reply == [meaning |-> meaning, score |-> score, request |-> held[s], sound |-> sound]
             decision == Decision(meaning, score)
  <2>1. request \in Requests /\ first \in [Requests -> {"none", "accept", "refuse"}]
    BY <1>2, ConfirmationAssumption DEF CallInv, TypeOK, Correlated, Requests
  <2>2. /\ first'[request] = IF first[request] = "none" THEN decision ELSE first[request]
        /\ \A r \in Requests : first[r] # "none" => first'[r] = first[r]
        /\ \A r \in Requests : r # request => first'[r] = first[r]
    <3>1. first' = IF first[request] = "none"
                   THEN [first EXCEPT ![request] = decision] ELSE first
      BY <1>2 DEF Correlated
    <3> HIDE DEF decision, Submit
    <3>2. QED
      BY <2>1, <3>1
  <2>3. Verdict(reply) = decision /\ (Verdict(reply) = "accept" => reply.sound)
    BY DEF Verdict
  <2>4. reply \in Replies /\ responses \in Seq(Replies) /\ responses' = Append(responses, reply)
    BY <1>2, <2>1 DEF CallInv, TypeOK, Correlated, Replies, Requests
  <2> HIDE DEF reply, decision
  <2>5. /\ Len(responses') = Len(responses) + 1 /\ responses'[Len(responses) + 1] = reply
        /\ \A i \in 1..Len(responses) : responses'[i] = responses[i]
        /\ Len(responses) \in Nat
    BY <2>4, AppendProperties
  <2> HIDE DEF Submit
  <2>6. ASSUME FirstIsQueued PROVE FirstIsQueued'
    <3>1. CASE first[request] = "none" /\ \A i \in 1..Len(responses) : Verdict(responses[i]) = "none"
      <4>1. first'[request] = decision /\ \A j \in 1..Len(responses) : Verdict(responses'[j]) = "none"
        BY <2>2, <2>5, <3>1
      <4>2. CASE decision = "none"
        <5>1. \A j \in 1..Len(responses') : Verdict(responses'[j]) = "none"
          BY <2>3, <2>5, <4>1, <4>2
        <5>2. QED
          BY <1>1, <4>1, <4>2, <5>1 DEF FirstIsQueued, Verdict
      <4>3. CASE decision # "none"
        <5> DEFINE n == Len(responses) + 1
        <5>1. /\ n \in 1..Len(responses') /\ Verdict(responses'[n]) = first'[request]
              /\ \A j \in 1..n - 1 : Verdict(responses'[j]) = "none"
          BY <2>3, <2>5, <4>1
        <5>2. QED
          BY <1>1, <4>1, <4>3, <5>1 DEF FirstIsQueued, Verdict
      <4>4. QED
        BY <4>2, <4>3
    <3>2. ASSUME NEW i \in 1..Len(responses), Verdict(responses[i]) = first[request],
                 first[request] # "none", \A j \in 1..i - 1 : Verdict(responses[j]) = "none"
          PROVE  FirstIsQueued'
      <4>1. /\ i \in 1..Len(responses') /\ Verdict(responses'[i]) = first'[request]
            /\ first'[request] # "none"
        BY <2>2, <2>5, <3>2
      <4>2. \A j \in 1..i - 1 : Verdict(responses'[j]) = "none"
        BY <2>5, <3>2
      <4>3. QED
        BY <1>1, <4>1, <4>2 DEF FirstIsQueued, Verdict
    <3>3. QED
      BY <2>6, <3>1, <3>2 DEF FirstIsQueued
  <2>7. RepliesDecide'
    BY <1>1, <2>2
       DEF VerdictInv, RepliesDecide, FirstDecisiveReplyDecides, OnlySoundSpeechApproves
  <2>8. \A i \in 1..Len(responses') : Verdict(responses'[i]) = "accept" => responses'[i].sound
    BY <2>3, <2>5 DEF VerdictInv
  <2>9. \A c \in Callers : phase'[c] = "declined" => first'[request'] = "refuse"
    BY <1>1, <2>1, <2>2 DEF VerdictInv
  <2>10. \A r \in Requests : r > issued' => first'[r] = "none"
    <3>1. request <= issued /\ issued \in Nat
      BY DEF VerdictInv, CallInv, TypeOK
    <3>2. QED
      BY <1>1, <2>1, <2>2, <3>1 DEF VerdictInv, Requests
  <2>11. QED
    BY <1>1, <2>6, <2>7, <2>8, <2>9, <2>10 DEF VerdictInv, Verdict
<1>3. CASE ~Correlated(held[s])
  BY <1>1, <1>3, QuietKeepsVerdict
<1>4. QED
  BY <1>2, <1>3

LEMMA NextKeepsVerdict == CallInv /\ VerdictInv /\ CallInv' /\ [Next]_vars => VerdictInv'
<1> SUFFICES ASSUME CallInv, VerdictInv, CallInv', [Next]_vars PROVE VerdictInv'
  OBVIOUS
<1>1. ASSUME NEW c \in Callers, NEW q \in BOOLEAN, Ask(c, q) PROVE VerdictInv'
  BY <1>1, QuietKeepsVerdict DEF Ask, Undecided, CallInv, TypeOK
<1>2. ASSUME NEW c \in Callers, Caller(c) PROVE VerdictInv'
  BY <1>2, CallerKeepsVerdict
<1>3. ASSUME NEW c \in Callers, Abort(c) PROVE VerdictInv'
  BY <1>3, AbortKeepsVerdict
<1>4. ASSUME NEW s \in Sources, Capture(s) PROVE VerdictInv'
  BY <1>4, QuietKeepsVerdict DEF Capture, asking
<1>5. ASSUME NEW s \in Sources, Type(s) PROVE VerdictInv'
  <2>1. PICK meaning \in Meanings : Submit(s, meaning, "unscored", TRUE)
    BY <1>5 DEF Type
  <2>2. "unscored" \in Scores
    BY DEF Scores
  <2>3. QED
    BY <2>1, <2>2, SubmitKeepsVerdict
<1>6. ASSUME NEW s \in Sources, Speak(s) PROVE VerdictInv'
  <2>1. PICK u \in Spoken : Submit(s, u.meaning, VoiceScore(u), Sound(u))
    BY <1>6 DEF Speak
  <2>2. u \in Utterances
    BY ConfirmationAssumption
  <2>3. u.meaning \in Meanings /\ VoiceScore(u) \in Scores /\ Sound(u) \in BOOLEAN
    BY <2>2 DEF Utterances, VoiceScore, Scores, Sound
  <2>4. QED
    BY <2>1, <2>2, <2>3, AcceptingSpeechIsSound, SubmitKeepsVerdict
<1>7. CASE Tick
  BY <1>7, QuietKeepsVerdict DEF Tick, asking
<1>8. CASE UNCHANGED vars
  BY <1>8, QuietKeepsVerdict DEF vars, asking
<1>9. QED
  BY <1>1, <1>2, <1>3, <1>4, <1>5, <1>6, <1>7, <1>8 DEF Next

-----------------------------------------------------------------------------
\* The refinement: what the contract calls open, consented and ended.
openBar == [c \in Callers |-> IF phase[c] \in Inside THEN asked[c] ELSE 0]
consentedBar == {r \in Requests : first[r] = "accept"}
endedBar == [c \in Callers |-> IF phase[c] = "idle" THEN ended[c] ELSE "none"]

LEMMA InitContract == Init => Contract!Init
<1> SUFFICES ASSUME Init PROVE Contract!Init
  OBVIOUS
<1>1. openBar = [c \in Callers |-> 0] /\ endedBar = [c \in Callers |-> "none"]
  BY DEF Init, openBar, endedBar, Inside
<1>2. consentedBar = {}
  BY DEF Init, consentedBar
<1>3. QED
  BY <1>1, <1>2 DEF Init, Contract!Init, openBar, endedBar, consentedBar

\* A step that neither opens nor ends a question, nor settles one.
LEMMA Stutters ==
  ASSUME UNCHANGED <<asked, ended, issued, first>>,
         \A d \in Callers : /\ phase'[d] \in Inside <=> phase[d] \in Inside
                            /\ phase'[d] = "idle" <=> phase[d] = "idle"
  PROVE  UNCHANGED <<openBar, issued, consentedBar, endedBar>>
BY DEF openBar, consentedBar, endedBar

\* The caller who leaves closes its question; an approval was consented to.
LEMMA LeaveCloses ==
  ASSUME IInv, NEW c \in Callers, phase[c] \in Inside,
         NEW how \in {"approved", "declined", "timeout", "aborted"}, NEW reply,
         how = "approved" => first[request] = "accept",
         Leave(c, how, reply), UNCHANGED <<issued, asked, first>>
  PROVE  Contract!Next
<1>1. asked[c] = request /\ request \in Requests /\ request # 0
  BY AloneInside DEF IInv, CallInv, RequestInv
<1>2. openBar[c] = request /\ (how = "approved" => openBar[c] \in consentedBar)
  BY <1>1 DEF openBar, consentedBar
<1>3. openBar' = [openBar EXCEPT ![c] = 0]
  BY DEF Leave, openBar, IInv, CallInv, TypeOK, Inside
<1>4. endedBar' = [endedBar EXCEPT ![c] = how]
  BY DEF Leave, endedBar, IInv, CallInv, TypeOK
<1>5. consentedBar' = consentedBar
  BY DEF consentedBar
<1>6. Contract!Close(c, how)
  BY <1>1, <1>2, <1>3, <1>4, <1>5 DEF Contract!Close, openBar, endedBar, consentedBar
<1>7. QED
  BY <1>6 DEF Contract!Next

\* A notice is spoken inside the question, or the caller leaves at once.
LEMMA NoticeRefines ==
  ASSUME IInv, NEW c \in Callers, phase[c] \in Inside, NEW how \in Notices, NEW rest,
         CancelNotice(c, how, rest), UNCHANGED <<issued, asked, first>>
  PROVE  Contract!Next \/ UNCHANGED <<openBar, issued, consentedBar, endedBar>>
<1>1. CASE Leave(c, how, NoReply)
  BY <1>1, LeaveCloses DEF Notices
<1>2. CASE phase' = [phase EXCEPT ![c] = how] /\ UNCHANGED ended
  BY <1>2, Stutters DEF IInv, CallInv, TypeOK, Inside, Phases, Notices
<1>3. QED
  BY <1>1, <1>2 DEF CancelNotice

LEMMA AskPrepares ==
  ASSUME IInv, NEW c \in Callers, NEW q \in BOOLEAN, Ask(c, q)
  PROVE  Contract!Next
<1>1. openBar[c] = 0 /\ openBar' = openBar
  BY DEF Ask, openBar, IInv, CallInv, TypeOK, Inside
<1>2. endedBar' = [endedBar EXCEPT ![c] = "none"]
  BY DEF Ask, endedBar, IInv, CallInv, TypeOK
<1>3. consentedBar' = consentedBar /\ issued' = issued
  BY DEF Ask, consentedBar
<1>4. Contract!Prepare(c)
  BY <1>1, <1>2, <1>3 DEF Contract!Prepare, openBar, endedBar, consentedBar
<1>5. QED
  BY <1>4 DEF Contract!Next

LEMMA BeginOpens ==
  ASSUME IInv, CallInv', NEW c \in Callers, Begin(c)
  PROVE  Contract!Next
<1>1. \A d \in Callers : phase[d] \notin Inside
  BY DEF Begin, HasLock, IInv, CallInv, LockInv, Inside
<1>2. \A d \in Callers : openBar[d] = 0
  BY <1>1 DEF openBar
<1>3. issued < MaxRequests
  <2>1. issued \in 0..MaxRequests /\ issued + 1 \in 0..MaxRequests
    BY DEF Begin, IInv, CallInv, TypeOK
  <2>2. QED
    BY <2>1, ConfirmationAssumption
<1>4. endedBar[c] = "none" /\ endedBar' = endedBar
  BY DEF Begin, endedBar, IInv, CallInv, TypeOK
<1>5. openBar' = [openBar EXCEPT ![c] = issued + 1]
  BY <1>1 DEF Begin, openBar, IInv, CallInv, TypeOK, Inside, Phases
<1>6. consentedBar' = consentedBar /\ issued' = issued + 1
  BY DEF Begin, consentedBar
<1>7. Contract!Open(c)
  BY <1>2, <1>3, <1>4, <1>5, <1>6 DEF Contract!Open, openBar, endedBar, consentedBar
<1>8. QED
  BY <1>7 DEF Contract!Next

LEMMA CallerRefines ==
  ASSUME IInv, CallInv', NEW c \in Callers, Caller(c)
  PROVE  Contract!Next \/ UNCHANGED <<openBar, issued, consentedBar, endedBar>>
<1>1. CASE Begin(c)
  BY <1>1, BeginOpens
<1>2. CASE PromptSpoken(c)
  BY <1>2, Stutters DEF PromptSpoken, IInv, CallInv, TypeOK, Inside, Phases
<1>3. CASE TakeReply(c)
  <2>1. /\ phase[c] = "listening" /\ phase[c] \in Inside /\ responses # <<>>
        /\ UNCHANGED <<issued, asked, first>>
    BY <1>3 DEF TakeReply, Inside, Phases
  <2>2. Verdict(Head(responses)) \in {"none", first[request]}
    BY <2>1, HeadDecides DEF IInv
  <2>3. CASE Verdict(Head(responses)) = "accept" /\ Leave(c, "approved", Head(responses))
    BY <2>1, <2>2, <2>3, LeaveCloses
  <2>4. CASE CancelNotice(c, "declined", Unread(responses))
    BY <2>1, <2>4, NoticeRefines DEF Notices
  <2>5. CASE phase' = [phase EXCEPT ![c] = "repeating"] /\ UNCHANGED ended
    BY <2>1, <2>5, Stutters DEF IInv, CallInv, TypeOK, Inside, Phases
  <2>6. QED
    BY <1>3, <2>3, <2>4, <2>5 DEF TakeReply, Verdict
<1>4. CASE TimedOut(c)
  <2>1. phase[c] \in Inside /\ "timeout" \in Notices
    BY <1>4 DEF TimedOut, Inside, Phases, Notices
  <2>2. QED
    BY <1>4, <2>1, NoticeRefines DEF TimedOut
<1>5. CASE Repeated(c)
  <2>1. phase[c] \in Inside /\ UNCHANGED <<issued, asked, first>>
    BY <1>5 DEF Repeated, Inside, Phases
  <2>2. CASE Leave(c, "timeout", NoReply)
    BY <2>1, <2>2, LeaveCloses
  <2>3. ASSUME NEW p \in {"listening", "timeout"}, phase' = [phase EXCEPT ![c] = p],
               UNCHANGED ended
        PROVE  UNCHANGED <<openBar, issued, consentedBar, endedBar>>
    BY <2>1, <2>3, Stutters DEF IInv, CallInv, TypeOK, Inside, Phases
  <2>4. QED
    BY <1>5, <2>2, <2>3 DEF Repeated
<1>6. CASE NoticeSpoken(c)
  BY <1>6, LeaveCloses DEF NoticeSpoken, Notices, Inside, Phases
<1>7. QED
  BY <1>1, <1>2, <1>3, <1>4, <1>5, <1>6 DEF Caller

LEMMA AbortRefines ==
  ASSUME IInv, NEW c \in Callers, Abort(c)
  PROVE  Contract!Next
<1>1. CASE phase[c] \in Inside
  BY <1>1, LeaveCloses DEF Abort, Inside
<1>2. CASE phase[c] = "queued"
  <2>1. /\ phase' = [phase EXCEPT ![c] = "idle"]
        /\ ended' = [ended EXCEPT ![c] = "aborted"]
        /\ UNCHANGED <<first, issued, asked>>
    BY <1>2 DEF Abort, Inside
  <2>2. openBar[c] = 0 /\ openBar' = openBar
    BY <1>2, <2>1 DEF openBar, IInv, CallInv, TypeOK, Inside
  <2>3. endedBar' = [endedBar EXCEPT ![c] = "aborted"]
    BY <2>1 DEF endedBar, IInv, CallInv, TypeOK
  <2>4. consentedBar' = consentedBar
    BY <2>1 DEF consentedBar
  <2>5. Contract!GiveUp(c)
    BY <2>1, <2>2, <2>3, <2>4 DEF Contract!GiveUp, openBar, endedBar, consentedBar
  <2>6. QED
    BY <2>5 DEF Contract!Next
<1>3. QED
  BY <1>1, <1>2 DEF Abort

\* A reply that accepts is consent if it is the first that decides.
LEMMA SubmitRefines ==
  ASSUME IInv, NEW s \in Sources, NEW meaning, NEW score, NEW sound,
         Submit(s, meaning, score, sound)
  PROVE  Contract!Next \/ UNCHANGED <<openBar, issued, consentedBar, endedBar>>
<1> USE DEF Submit
<1>1. UNCHANGED <<openBar, issued, endedBar>>
  BY DEF asking, openBar, endedBar
<1>2. CASE first' = first
  BY <1>1, <1>2 DEF consentedBar
<1>3. CASE Correlated(held[s]) /\ first' = [first EXCEPT ![request] = Decision(meaning, score)]
           /\ first[request] = "none"
  <2>1. PICK c \in Callers : phase[c] \in Inside
    BY <1>3 DEF Correlated, IInv, CallInv, RequestInv
  <2>2. asked[c] = request /\ request \in Requests /\ request # 0
    BY <2>1, AloneInside DEF IInv, CallInv, RequestInv
  <2>3. openBar[c] = request
    BY <2>1, <2>2 DEF openBar
  <2>4. CASE Decision(meaning, score) = "accept"
    <3>1. consentedBar' = consentedBar \cup {openBar[c]}
      BY <1>3, <2>2, <2>3, <2>4 DEF consentedBar, IInv, CallInv, TypeOK
    <3>2. Contract!Consent(c)
      BY <1>1, <2>2, <2>3, <3>1 DEF Contract!Consent, openBar, endedBar, consentedBar
    <3>3. QED
      BY <3>2 DEF Contract!Next
  <2>5. CASE Decision(meaning, score) # "accept"
    <3>1. consentedBar' = consentedBar
      BY <1>3, <2>2, <2>5 DEF consentedBar, IInv, CallInv, TypeOK
    <3>2. QED
      BY <1>1, <3>1
  <2>6. QED
    BY <2>4, <2>5
<1>4. QED
  BY <1>2, <1>3

LEMMA NextRefines ==
  IInv /\ CallInv' /\ [Next]_vars => [Contract!Next]_<<openBar, issued, consentedBar, endedBar>>
<1> SUFFICES ASSUME IInv, CallInv', [Next]_vars
             PROVE  Contract!Next \/ UNCHANGED <<openBar, issued, consentedBar, endedBar>>
  OBVIOUS
<1>1. ASSUME NEW c \in Callers, NEW q \in BOOLEAN, Ask(c, q) PROVE Contract!Next
  BY <1>1, AskPrepares
<1>2. ASSUME NEW c \in Callers, Caller(c)
      PROVE  Contract!Next \/ UNCHANGED <<openBar, issued, consentedBar, endedBar>>
  BY <1>2, CallerRefines
<1>3. ASSUME NEW c \in Callers, Abort(c) PROVE Contract!Next
  BY <1>3, AbortRefines
<1>4. ASSUME NEW s \in Sources, Capture(s) \/ Type(s) \/ Speak(s)
      PROVE  Contract!Next \/ UNCHANGED <<openBar, issued, consentedBar, endedBar>>
  <2>1. CASE Capture(s)
    BY <2>1, Stutters DEF Capture, asking
  <2>2. CASE Type(s)
    BY <2>2, SubmitRefines DEF Type
  <2>3. CASE Speak(s)
    BY <2>3, SubmitRefines DEF Speak
  <2>4. QED
    BY <1>4, <2>1, <2>2, <2>3
<1>5. CASE Tick
  BY <1>5, Stutters DEF Tick, asking
<1>6. CASE UNCHANGED vars
  BY <1>6, Stutters DEF vars, asking
<1>7. QED
  BY <1>1, <1>2, <1>3, <1>4, <1>5, <1>6 DEF Next

-----------------------------------------------------------------------------
\* IInv holds in every state of every behaviour of ConfirmationService.
THEOREM InductiveInvariant == Spec => []IInv
<1>1. Init => IInv
  BY InitCallInv, InitVerdict DEF IInv
<1>2. IInv /\ [Next]_vars => IInv'
  BY NextKeepsCallInv, NextKeepsVerdict DEF IInv
<1>3. QED
  BY <1>1, <1>2, PTL DEF Spec

\* The reply that decides a question is the first decisive one given to it, whatever
\* is queued while it is spoken or repeated, and it was heard soundly (submit,
\* _decision, voice_confidence).
THEOREM FirstSoundReplyDecides == Spec => []RepliesDecide
<1>1. IInv => RepliesDecide
  BY DEF IInv, VerdictInv
<1>2. QED
  BY <1>1, InductiveInvariant, PTL

\* ask keeps the promise its callers rely on: one question at a time, each ended in one
\* of four ways, and approved only with the user's consent to it (ask, submit).
THEOREM Refinement == Spec => KeepsContract
<1>1. Init => Contract!Init
  BY InitContract
<1>2. IInv /\ IInv' /\ [Next]_vars => [Contract!Next]_(Contract!vars)
  BY NextRefines DEF IInv, Contract!vars, openBar, consentedBar, endedBar
<1>3. QED
  BY <1>1, <1>2, InductiveInvariant, PTL DEF Spec, KeepsContract, Contract!Spec

\* Every variable of the service keeps its type (core/confirmation.py).
THEOREM TypeCorrect == Spec => []TypeOK
<1>1. IInv => TypeOK
  BY DEF IInv, CallInv
<1>2. QED
  BY <1>1, InductiveInvariant, PTL

\* An action that ask approved was approved by a reply given to that very
\* request, whatever requests and late replies came before (submit, ask).
THEOREM GrantsAnswerTheirRequest == Spec => []GrantAnswersItsRequest
<1>1. IInv => GrantAnswersItsRequest
  BY DEF IInv, CallInv
<1>2. QED
  BY <1>1, InductiveInvariant, PTL

\* No reply outlives its request in the queue (the two _clear_responses).
THEOREM RepliesStayWithTheirRequest == Spec => []NothingCarriedOver
<1>1. IInv => NothingCarriedOver
  BY DEF IInv, CallInv
<1>2. QED
  BY <1>1, InductiveInvariant, PTL

\* A published request always belongs to the one caller inside ask, so a
\* cancelled caller leaves nothing behind to be answered (finally of ask).
THEOREM PublishedRequestsHaveOwners == Spec => []PublishedRequestHasOwner
<1>1. IInv => PublishedRequestHasOwner
  BY DEF IInv, CallInv, LockInv, RequestInv, PublishedRequestHasOwner
<1>2. QED
  BY <1>1, InductiveInvariant, PTL
=============================================================================
