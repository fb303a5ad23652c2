--------------------------- MODULE LLMManagerProofs ---------------------------
(***************************************************************************)
(* For any providers, limits and settings: what a turn says, stores and    *)
(* returns agree, whatever the providers answer and wherever the user      *)
(* interrupts (services/llm/manager.py), and a provider that answered 429  *)
(* is left alone until its pause is over.                                  *)
(***************************************************************************)
EXTENDS LLMManager, WellFoundedInduction, FiniteSetTheorems, TLAPS

LEMMA Constants ==
  /\ Order \in Seq(Providers) /\ Len(Order) \in Nat \ {0} /\ IsInjective(Order)
  /\ TurnTime \in Nat \ {0} /\ RetryTime \in Nat \ {0} /\ Attempts \in Nat \ {0}
  /\ MaxPause \in Nat \ {0} /\ MaxTurns \in Nat
  /\ FirstTexts \subseteq Nat /\ Kinds \subseteq {"chat", "natural", "quiet", "single"}
BY LLMAssumption DEF Providers

(***************************************************************************)
(* A set of positions that is not empty has a first.                       *)
(***************************************************************************)
LEMMA FirstOf ==
  ASSUME NEW S \in SUBSET DOMAIN Order, S # {}
  PROVE  First(S) \in S /\ \A i \in S : First(S) <= i
<1>1. S \subseteq Nat
  BY Constants
<1> DEFINE less == OpToRel(<, Nat)
<1>2. \E n \in S : \A m \in S : <<m, n>> \notin less
  <2>1. IsWellFoundedOn(less, Nat)
    BY NatLessThanWellFounded
  <2> HIDE DEF less
  <2> QED
    BY <1>1, <2>1, WFMin
<1>3. \A m, n \in Nat : <<m, n>> \in less <=> m < n
  BY DEF OpToRel
<1> HIDE DEF less
<1>4. PICK n \in S : \A m \in S : <<m, n>> \notin less
  BY <1>2
<1>5. \A m \in S : m \in Nat /\ n \in Nat /\ ~(m < n)
  BY <1>1, <1>3, <1>4
<1>6. \A m \in S : n <= m
  BY <1>5
<1> QED
  BY <1>6 DEF First

(***************************************************************************)
(* _sequence turns the configured order round, it leaves nobody out.       *)
(***************************************************************************)
LEMMA SequenceIsWhole ==
  ASSUME active \in Providers
  PROVE  Sequence \in Seq(Providers) /\ Len(Sequence) = Len(Order) /\ IsInjective(Sequence)
<1> DEFINE i == CHOOSE i \in DOMAIN Order : Order[i] = active
           left == SubSeq(Order, i, Len(Order))
           right == SubSeq(Order, 1, i - 1)
           n == Len(Order) - i + 1
<1>1. i \in 1..Len(Order)
  <2>1. \E j \in DOMAIN Order : Order[j] = active
    BY DEF Providers, Range
  <2> QED
    BY <2>1, Constants
<1> HIDE DEF i
<1>2. /\ left \in Seq(Providers) /\ Len(left) = n /\ n \in Nat
      /\ \A k \in 1..n : left[k] = Order[i + k - 1]
  BY <1>1, Constants
<1>3. /\ right \in Seq(Providers) /\ Len(right) = i - 1
      /\ \A k \in 1..(i - 1) : right[k] = Order[k]
  BY <1>1, Constants
<1>4. Sequence = left \o right
  BY DEF Sequence, i
<1> HIDE DEF left, right
<1>5. /\ Sequence \in Seq(Providers) /\ Len(Sequence) = Len(Order)
      /\ \A k \in 1..Len(Order) : Sequence[k] = IF k <= n THEN left[k] ELSE right[k - n]
  BY <1>1, <1>2, <1>3, <1>4, Constants
<1>6. \A k \in 1..Len(Order) :
        Sequence[k] = IF k <= n THEN Order[i + k - 1] ELSE Order[k - n]
  <2> SUFFICES ASSUME NEW k \in 1..Len(Order)
               PROVE  Sequence[k] = IF k <= n THEN Order[i + k - 1] ELSE Order[k - n]
    OBVIOUS
  <2>1. CASE k <= n
    BY <2>1, <1>2, <1>5, Constants
  <2>2. CASE ~(k <= n)
    <3>1. k - n \in 1..(i - 1)
      BY <2>2, <1>1, <1>2, Constants
    <3> QED
      BY <2>2, <3>1, <1>3, <1>5
  <2> QED
    BY <2>1, <2>2
<1>7. ASSUME NEW j \in 1..Len(Order), NEW k \in 1..Len(Order), Sequence[j] = Sequence[k]
      PROVE  j = k
  <2> DEFINE at(x) == IF x <= n THEN i + x - 1 ELSE x - n
  <2>1. \A x \in 1..Len(Order) : at(x) \in 1..Len(Order) /\ Sequence[x] = Order[at(x)]
    BY <1>1, <1>2, <1>6, Constants
  <2>2. at(j) = at(k)
    BY <1>7, <2>1, Constants DEF IsInjective
  <2> QED
    BY <2>2, <1>1, <1>2, Constants
<1>8. DOMAIN Sequence = 1..Len(Order)
  BY <1>5, Constants
<1> QED
  BY <1>5, <1>7, <1>8 DEF IsInjective

(***************************************************************************)
(* What a request looks like when it is opened.                            *)
(***************************************************************************)
Fresh(r, t) ==
  /\ r \in Request /\ r.left <= t.left /\ r.giveUp = "none" /\ r.reply = "none"
  /\ r.started = FALSE /\ r.said = FALSE

LEMMA NoRequestType == NoRequest \in Request
BY Constants DEF NoRequest, Request, Unwatched

LEMMA OpenIsFresh ==
  ASSUME NEW t \in Turn, firstText \in FirstTexts
  PROVE  Fresh(Open(t), t)
<1> DEFINE left == IF t.emptied THEN Least(t.left, RetryTime) ELSE t.left
           watched == t.backup /\ t.kind # "single" /\ 0 < firstText /\ firstText < left
           first == IF watched THEN firstText ELSE Unwatched
<1>1. t.left \in 0..TurnTime /\ t.emptied \in BOOLEAN
  BY DEF Turn
<1>2. left \in 0..TurnTime /\ left <= t.left
  BY <1>1, Constants DEF Least
<1> HIDE DEF left
<1>3. first \in Unwatched..TurnTime
  BY <1>2, Constants DEF Unwatched
<1>4. Open(t) = [NoRequest EXCEPT !.left = left, !.first = first]
  BY DEF Open, left
<1> HIDE DEF first
<1>5. /\ Open(t).left = left /\ Open(t).first = first /\ Open(t).giveUp = "none"
      /\ Open(t).reply = "none" /\ Open(t).started = FALSE /\ Open(t).said = FALSE
  BY <1>4 DEF NoRequest
<1>6. Open(t) \in Request
  BY <1>2, <1>3, <1>4 DEF NoRequest, Request
<1> QED
  BY <1>2, <1>3, <1>5, <1>6 DEF Fresh

LEMMA AskEffect ==
  ASSUME NEW t \in Turn, firstText \in FirstTexts, Ask(t)
  PROVE  turn' = t /\ step' = "asking" /\ Fresh(request', turn')
BY OpenIsFresh DEF Ask

Entered(t, i) == [t EXCEPT !.at = i, !.attempt = 1, !.backup = Candidates(t, i + 1) # {}]

LEMMA EnteredIs ==
  ASSUME NEW t \in Turn, NEW i \in DOMAIN Order
  PROVE  /\ Entered(t, i) \in Turn /\ Entered(t, i).at = i /\ Entered(t, i).attempt = 1
         /\ Entered(t, i).kind = t.kind /\ Entered(t, i).seq = t.seq
         /\ Entered(t, i).available = t.available /\ Entered(t, i).left = t.left
         /\ Entered(t, i).emptied = t.emptied /\ Entered(t, i).slow = t.slow
         /\ Entered(t, i).backup => \E j \in t.available : i < j
<1> DEFINE b == Candidates(t, i + 1) # {}
<1>1. b \in BOOLEAN
  OBVIOUS
<1> HIDE DEF b
<1>2. i \in 0..Len(Order) /\ 1 \in 0..Attempts
  BY Constants
<1>3. Entered(t, i) = [t EXCEPT !.at = i, !.attempt = 1, !.backup = b]
  BY DEF Entered, b
<1>4. [t EXCEPT !.at = i, !.attempt = 1, !.backup = b] \in Turn
  BY <1>1, <1>2 DEF Turn
<1>5. b => \E j \in t.available : i < j
  <2>1. t.available \subseteq Nat /\ i \in Nat
    BY Constants DEF Turn
  <2> QED
    BY <2>1 DEF b, Candidates
<1> QED
  BY <1>3, <1>4, <1>5 DEF Turn

LEMMA EnterEffect ==
  ASSUME NEW t \in Turn, NEW i \in DOMAIN Order, firstText \in FirstTexts, Enter(t, i)
  PROVE  /\ turn' \in Turn /\ turn'.at = i /\ turn'.attempt = 1
         /\ turn'.kind = t.kind /\ turn'.seq = t.seq
         /\ turn'.available = t.available /\ turn'.left = t.left
         /\ turn'.emptied = t.emptied /\ turn'.slow = t.slow
         /\ turn'.backup => \E j \in t.available : i < j
         /\ step' = "asking" /\ Fresh(request', turn')
<1>1. Ask(Entered(t, i))
  BY DEF Enter, Entered
<1> QED
  BY <1>1, EnteredIs, AskEffect

(***************************************************************************)
(* The inductive invariant: that of the run, and what the history has.     *)
(***************************************************************************)
IInv == Inv /\ HistoryIsTheTurn

LEMMA InitHolds == Init => IInv
<1> SUFFICES ASSUME Init PROVE IInv
  OBVIOUS
<1>1. active \in Providers
  BY Constants DEF Init, Providers, Range
<1>2. NoTurn \in Turn
  BY Constants DEF NoTurn, Turn
<1>3. pause \in [Providers -> 0..MaxPause] /\ turns \in 0..MaxTurns
  BY Constants DEF Init
<1>4. TypeOK
  <2>1. /\ step \in Steps /\ outcome \in Outcomes /\ stored \in 0..1
        /\ heard \subseteq (1..Len(Order)) \X (1..Attempts)
    BY DEF Init, Steps, Outcomes
  <2>2. /\ firstText \in FirstTexts /\ turn \in Turn /\ request \in Request
        /\ refusedBy \subseteq Providers /\ interrupted \in Interruptions
    BY <1>2, NoRequestType DEF Init, Interruptions
  <2> QED
    BY <1>1, <1>3, <2>1, <2>2 DEF TypeOK
<1> QED
  BY <1>4 DEF Init, IInv, Inv, RequestsShareTheTime, TurnGoesOn, TurnSpeaks, TurnRefuses, TurnIsCut,
              HistoryIsTheTurn, NoTurn, NoRequest, IsInjective

(***************************************************************************)
(* What the provider sends changes the request and what was heard only.    *)
(***************************************************************************)
LEMMA WhatIsSaid ==
  ASSUME TypeOK, TurnGoesOn, TurnSpeaks, step # "idle", Say
  PROVE  heard' \subseteq (1..Len(Order)) \X (1..Attempts) /\ heard' = {<<turn.at, turn.attempt>>}
<1>1. turn.at \in 1..Len(Order) /\ turn.attempt \in 1..Attempts
  BY Constants DEF TypeOK, TurnGoesOn, Turn
<1> QED
  BY <1>1 DEF Say, TurnSpeaks

LEMMA TextKeeps == ASSUME IInv, UNCHANGED firstText, Text PROVE IInv'
<1> USE DEF IInv, Inv, Text, Asking
<1>1. TypeOK'
  <2>1. request' \in Request
    BY DEF TypeOK, Request
  <2>2. heard' \subseteq (1..Len(Order)) \X (1..Attempts)
    BY WhatIsSaid DEF TypeOK
  <2> QED
    BY <2>1, <2>2 DEF TypeOK
<1>2. TurnGoesOn' /\ TurnRefuses'
  BY DEF TurnGoesOn, TurnRefuses, Provider
<1>3. TurnSpeaks' /\ TurnIsCut' /\ RequestsShareTheTime'
  BY WhatIsSaid DEF TurnSpeaks, TurnIsCut, RequestsShareTheTime, TypeOK, Request
<1>4. HistoryIsTheTurn'
  BY DEF HistoryIsTheTurn, TurnGoesOn
<1> QED
  BY <1>1, <1>2, <1>3, <1>4

(***************************************************************************)
(* The invariant of a state in which a request has just been opened, and   *)
(* of one in which a turn has just ended.                                  *)
(***************************************************************************)
SomeTurn == /\ firstText \in FirstTexts /\ active \in Providers /\ pause \in [Providers -> 0..MaxPause]
            /\ turn \in Turn /\ turn.kind # "none" /\ turn.available \subseteq DOMAIN turn.seq
            /\ IsInjective(turn.seq) /\ Len(turn.seq) = Len(Order)
            /\ turn.emptied => turn.kind = "chat"
            /\ refusedBy \subseteq Providers /\ interrupted \in Interruptions /\ turns \in 0..MaxTurns

Asks == /\ step = "asking" /\ Fresh(request, turn)
        /\ turn.at \in turn.available /\ turn.attempt >= 1
        /\ pause[Provider] = 0
        /\ turn.kind # "chat" /\ turn.backup => \E i \in turn.available : turn.at < i
        /\ turn.kind # "chat" => \A i \in turn.available : turn.at < i => pause[turn.seq[i]] = 0
        /\ heard = {} /\ stored = 0 /\ outcome = "none"
        /\ ~turn.emptied => refusedBy = {}
        /\ turn.emptied /\ ~turn.slow => refusedBy \subseteq {Provider}
        /\ interrupted # "yes"

Ends(result) ==
  /\ step = "idle" /\ request = NoRequest /\ outcome = result
  /\ heard \subseteq (1..Len(Order)) \X (1..Attempts)
  /\ heard \subseteq {<<turn.at, turn.attempt>>}
  /\ stored \in 0..1 /\ (stored = 1 <=> result \in {"answer", "partial"})
  /\ turn.kind = "chat" /\ heard # {} /\ result # "interrupted" => stored = 1
  /\ result = "action" => heard = {}
  /\ interrupted = "yes" => result = "interrupted"

LEMMA AskingHolds == SomeTurn' /\ Asks' => IInv'
<1> SUFFICES ASSUME SomeTurn', Asks' PROVE IInv'
  OBVIOUS
<1>1. TypeOK'
  <2>1. /\ step' \in Steps /\ outcome' \in Outcomes /\ stored' \in 0..1
        /\ heard' \subseteq (1..Len(Order)) \X (1..Attempts)
    BY DEF Asks, Steps, Outcomes
  <2> QED
    BY <2>1 DEF TypeOK, SomeTurn, Asks, Fresh
<1>2. TurnGoesOn'
  BY DEF TurnGoesOn, SomeTurn, Asks
<1>3. TurnSpeaks' /\ TurnIsCut' /\ RequestsShareTheTime'
  BY DEF TurnSpeaks, TurnIsCut, RequestsShareTheTime, SomeTurn, Asks, Fresh
<1>4. TurnRefuses' /\ HistoryIsTheTurn'
  BY DEF TurnRefuses, HistoryIsTheTurn, SomeTurn, Asks
<1> QED
  BY <1>1, <1>2, <1>3, <1>4 DEF IInv, Inv

LEMMA EndHolds ==
  ASSUME NEW result \in Outcomes, SomeTurn', Ends(result)'
  PROVE  IInv'
<1>1. TypeOK'
  <2>1. step' \in Steps /\ request' \in Request
    BY NoRequestType DEF Ends, Steps
  <2> QED
    BY <2>1 DEF TypeOK, SomeTurn, Ends
<1>2. TurnGoesOn' /\ TurnRefuses'
  BY DEF TurnGoesOn, TurnRefuses, SomeTurn, Ends
<1>3. TurnSpeaks' /\ TurnIsCut' /\ RequestsShareTheTime' /\ HistoryIsTheTurn'
  BY DEF TurnSpeaks, TurnIsCut, RequestsShareTheTime, HistoryIsTheTurn, SomeTurn, Ends
<1> QED
  BY <1>1, <1>2, <1>3 DEF IInv, Inv

\* The turn that goes on is one, and so it stays while only these are changed.
LEMMA IsSomeTurn == IInv /\ step # "idle" => SomeTurn
<1> SUFFICES ASSUME IInv, step # "idle" PROVE SomeTurn
  OBVIOUS
<1>1. /\ firstText \in FirstTexts /\ active \in Providers /\ pause \in [Providers -> 0..MaxPause]
      /\ turn \in Turn /\ refusedBy \subseteq Providers /\ interrupted \in Interruptions
      /\ turns \in 0..MaxTurns
  BY DEF IInv, Inv, TypeOK
<1>2. /\ turn.kind # "none" /\ turn.available \subseteq DOMAIN turn.seq
      /\ IsInjective(turn.seq) /\ Len(turn.seq) = Len(Order)
  BY DEF IInv, Inv, TurnGoesOn
<1>3. turn.emptied => turn.kind = "chat"
  BY DEF IInv, Inv, TurnRefuses
<1> QED
  BY <1>1, <1>2, <1>3 DEF SomeTurn

LEMMA PreviewKeeps == ASSUME IInv, UNCHANGED firstText, Preview PROVE IInv'
<1> USE DEF IInv, Inv, Preview, Asking
<1>1. TypeOK'
  <2>1. request' \in Request
    BY DEF TypeOK, Request
  <2>2. heard' \subseteq (1..Len(Order)) \X (1..Attempts)
    BY WhatIsSaid DEF TypeOK
  <2> QED
    BY <2>1, <2>2 DEF TypeOK
<1>2. TurnGoesOn' /\ TurnRefuses'
  BY DEF TurnGoesOn, TurnRefuses, Provider
<1>3. TurnSpeaks' /\ TurnIsCut' /\ RequestsShareTheTime'
  BY WhatIsSaid DEF TurnSpeaks, TurnIsCut, RequestsShareTheTime, TypeOK, Request
<1>4. HistoryIsTheTurn'
  BY DEF HistoryIsTheTurn, TurnGoesOn
<1> QED
  BY <1>1, <1>2, <1>3, <1>4

\* Whoever is asked is a provider, and its pause may be set or lifted.
LEMMA ProviderIs ==
  ASSUME SomeTurn, turn.at \in turn.available
  PROVE  /\ Provider \in Providers /\ Head(turn.seq) \in Providers
         /\ turn.at \in 1..Len(Order) /\ turn.at \in DOMAIN turn.seq
<1>1. turn.seq \in Seq(Providers) /\ Len(turn.seq) = Len(Order)
  BY DEF SomeTurn, Turn
<1>2. turn.at \in 1..Len(Order)
  BY <1>1 DEF SomeTurn
<1> QED
  BY <1>1, <1>2, Constants DEF Provider

LEMMA UnpauseType ==
  ASSUME pause \in [Providers -> 0..MaxPause], NEW p \in Providers
  PROVE  [pause EXCEPT ![p] = 0] \in [Providers -> 0..MaxPause]
BY Constants

LEMMA AnsweredKeeps == ASSUME IInv, UNCHANGED firstText, Answered PROVE IInv'
<1>1. SomeTurn /\ turn.at \in turn.available
  BY IsSomeTurn DEF Answered, Asking, IInv, Inv, TurnGoesOn
<1>2. active' \in Providers /\ pause' \in [Providers -> 0..MaxPause]
  BY <1>1, ProviderIs, UnpauseType DEF Answered, Unpause, NewActive, SomeTurn
<1>3. SomeTurn'
  BY <1>1, <1>2 DEF SomeTurn, Answered
<1>4. Ends("answer")'
  BY DEF Answered, Asking, End, Ends, IInv, Inv, TypeOK, TurnGoesOn, TurnSpeaks, TurnIsCut
<1> QED
  BY <1>3, <1>4, EndHolds DEF Outcomes

LEMMA RestSaidKeeps == ASSUME IInv, UNCHANGED firstText, RestSaid PROVE IInv'
<1>1. SomeTurn /\ turn.at \in turn.available
  BY IsSomeTurn DEF RestSaid, Asking, IInv, Inv, TurnGoesOn
<1>2. pause' \in [Providers -> 0..MaxPause]
  BY <1>1, ProviderIs, UnpauseType DEF RestSaid, Unpause, SomeTurn
<1>3. SomeTurn'
  BY <1>1, <1>2 DEF SomeTurn, RestSaid
<1>4. heard' \subseteq (1..Len(Order)) \X (1..Attempts) /\ heard' \subseteq {<<turn.at, turn.attempt>>}
  BY WhatIsSaid DEF RestSaid, Asking, IInv, Inv, TypeOK, TurnSpeaks
<1>5. Ends("answer")'
  BY <1>4 DEF RestSaid, Asking, End, Ends, IInv, Inv, TurnGoesOn, TurnIsCut
<1> QED
  BY <1>3, <1>5, EndHolds DEF Outcomes

LEMMA ReturnedKeeps == ASSUME IInv, UNCHANGED firstText, Returned PROVE IInv'
<1>1. SomeTurn
  BY IsSomeTurn DEF Returned, Asking
<1>2. SomeTurn'
  BY <1>1 DEF SomeTurn, Returned, memory
<1>3. Ends("data")'
  BY DEF Returned, Asking, End, Ends, IInv, Inv, TypeOK, TurnGoesOn, TurnSpeaks, TurnIsCut, memory
<1> QED
  BY <1>2, <1>3, EndHolds DEF Outcomes

LEMMA NoticeSpokenKeeps == ASSUME IInv, UNCHANGED firstText, NoticeSpoken PROVE IInv'
<1>1. SomeTurn /\ turn.at \in turn.available
  BY IsSomeTurn DEF NoticeSpoken, IInv, Inv, TurnGoesOn
<1>2. SomeTurn'
  BY <1>1, ProviderIs DEF SomeTurn, NoticeSpoken
<1>3. Ends("partial")'
  BY DEF NoticeSpoken, End, Ends, IInv, Inv, TypeOK, TurnGoesOn, TurnSpeaks, TurnIsCut
<1> QED
  BY <1>2, <1>3, EndHolds DEF Outcomes

LEMMA DecodedKeeps ==
  ASSUME IInv, UNCHANGED firstText, NEW reply \in {"chat", "clarify", "action"}, Decoded(reply)
  PROVE  IInv'
<1>1. SomeTurn /\ turn.at \in turn.available
  BY IsSomeTurn DEF Decoded, Asking, IInv, Inv, TurnGoesOn
<1>2. CASE reply = "action"
  <2>1. pause' \in [Providers -> 0..MaxPause]
    BY <1>1, <1>2, ProviderIs, UnpauseType DEF Decoded, Unpause, SomeTurn
  <2>2. SomeTurn'
    BY <1>1, <1>2, <2>1 DEF SomeTurn, Decoded, memory
  <2>3. heard = {}
    BY <1>2 DEF Decoded, Acceptable, Asking, IInv, Inv, TurnSpeaks
  <2>4. Ends("action")'
    BY <1>2, <2>3 DEF Decoded, Asking, End, Ends, IInv, Inv, TypeOK, TurnGoesOn, TurnIsCut, memory
  <2> QED
    BY <2>2, <2>4, EndHolds DEF Outcomes
<1>3. CASE reply # "action"
  <2> USE <1>3 DEF IInv, Inv, Decoded, Asking, memory
  <2>1. TypeOK'
    <3>1. request' \in Request
      BY DEF TypeOK, Request
    <3> QED
      BY <3>1 DEF TypeOK
  <2>2. TurnGoesOn' /\ TurnRefuses'
    BY DEF TurnGoesOn, TurnRefuses, Provider
  <2>3. TurnSpeaks' /\ TurnIsCut' /\ RequestsShareTheTime'
    BY DEF TurnSpeaks, TurnIsCut, RequestsShareTheTime, TypeOK, Request
  <2>4. HistoryIsTheTurn'
    BY DEF HistoryIsTheTurn, TurnGoesOn
  <2> QED
    BY <2>1, <2>2, <2>3, <2>4
<1> QED
  BY <1>2, <1>3

(***************************************************************************)
(* A request that is given up still has to close its stream.               *)
(***************************************************************************)
LEMMA GiveUpKeeps ==
  ASSUME IInv, UNCHANGED firstText, step \in {"asking", "closing"}, interrupted' \in Interruptions,
         NEW reason \in {"slow", "timeout", "interrupt"}, GiveUp(reason),
         reason = "slow" => ~request.started,
         interrupted' = "yes" => reason = "interrupt"
  PROVE  IInv'
<1> USE DEF IInv, Inv, GiveUp
<1>1. TypeOK'
  <2>1. request' \in Request
    BY DEF TypeOK, Request
  <2> QED
    BY <2>1 DEF TypeOK, Steps
<1>2. TurnGoesOn' /\ TurnRefuses'
  BY DEF TurnGoesOn, TurnRefuses, Provider
<1>3. TurnSpeaks' /\ TurnIsCut' /\ RequestsShareTheTime'
  BY DEF TurnSpeaks, TurnIsCut, RequestsShareTheTime, TypeOK, Request
<1>4. HistoryIsTheTurn'
  BY DEF HistoryIsTheTurn, TurnGoesOn
<1> QED
  BY <1>1, <1>2, <1>3, <1>4

LEMMA SilentKeeps == ASSUME IInv, UNCHANGED firstText, Silent PROVE IInv'
<1>1. interrupted' # "yes" /\ interrupted' \in Interruptions /\ GiveUp("slow")
  BY DEF Silent, IInv, Inv, TypeOK, TurnIsCut
<1> QED
  BY <1>1, GiveUpKeeps DEF Silent

LEMMA TimeUpKeeps == ASSUME IInv, UNCHANGED firstText, TimeUp PROVE IInv'
<1>1. interrupted' \in Interruptions /\ GiveUp("timeout") /\ interrupted' # "yes"
  BY DEF TimeUp, IInv, Inv, TypeOK, TurnIsCut
<1> QED
  BY <1>1, GiveUpKeeps DEF TimeUp

(***************************************************************************)
(* The interruption ends a turn that opens no request, and a request else; *)
(* one that was given up for its first text goes on as that.               *)
(***************************************************************************)
LEMMA InterruptKeeps == ASSUME IInv, UNCHANGED firstText, Interrupt PROVE IInv'
<1>1. CASE step \in {"asking", "closing"} /\ GiveUp(Reason)
  <2>1. /\ Reason \in {"slow", "timeout", "interrupt"}
        /\ Reason = "slow" => ~request.started
        /\ interrupted' = "yes" => Reason = "interrupt"
        /\ interrupted' \in Interruptions
    BY <1>1 DEF Reason, Interrupt, Interruptions, IInv, Inv, TurnSpeaks, TurnIsCut
  <2> QED
    BY <1>1, <2>1, GiveUpKeeps DEF Interrupt
<1>2. CASE step \in {"backoff", "telling"} /\ End("interrupted")
  <2>0. UNCHANGED <<active, pause, turn, heard, stored, refusedBy, turns>>
    BY <1>2 DEF Interrupt
  <2>1. SomeTurn'
    BY <1>2, <2>0, IsSomeTurn DEF Interrupt, Interruptions, SomeTurn
  <2>2. Ends("interrupted")'
    BY <1>2, <2>0 DEF Ends, End, IInv, Inv, TypeOK, TurnGoesOn, TurnSpeaks
  <2> QED
    BY <2>1, <2>2, EndHolds DEF Outcomes
<1> QED
  BY <1>1, <1>2 DEF Interrupt

(***************************************************************************)
(* The clock: a pause that is over stays over, and the time of a request   *)
(* does not outlast that of its turn.                                      *)
(***************************************************************************)
LEMMA TickKeeps == ASSUME IInv, UNCHANGED firstText, Tick PROVE IInv'
<1>1. pause' \in [Providers -> 0..MaxPause] /\ \A p \in Providers : pause[p] = 0 => pause'[p] = 0
  BY Constants DEF Tick, IInv, Inv, TypeOK, Less
<1>2. UNCHANGED <<active, step, heard, stored, refusedBy, interrupted, outcome, turns>>
  BY DEF Tick, memory
<1>3. CASE step = "idle"
  <2>1. UNCHANGED <<turn, request>>
    BY <1>3 DEF Tick
  <2>2. TypeOK'
    BY <1>1, <1>2, <2>1 DEF IInv, Inv, TypeOK
  <2>3. TurnGoesOn' /\ TurnRefuses' /\ TurnSpeaks' /\ TurnIsCut' /\ RequestsShareTheTime'
    BY <1>2, <1>3, <2>1 DEF IInv, Inv, TurnGoesOn, TurnRefuses, TurnSpeaks, TurnIsCut,
                           RequestsShareTheTime
  <2>4. HistoryIsTheTurn'
    BY <1>2, <2>1 DEF IInv, HistoryIsTheTurn
  <2> QED
    BY <2>2, <2>3, <2>4 DEF IInv, Inv
<1>4. CASE step # "idle"
  <2>1. /\ turn' = [turn EXCEPT !.left = Less(@)]
        /\ request' = [request EXCEPT !.left = Less(@), !.first = Less(@)]
    BY <1>4 DEF Tick
  <2>2. turn \in Turn /\ request \in Request
    BY DEF IInv, Inv, TypeOK
  <2>3. turn.left \in 0..TurnTime /\ request.left \in 0..TurnTime /\ request.first \in Unwatched..TurnTime
    BY <2>2 DEF Turn, Request
  <2>4. /\ Less(turn.left) \in 0..TurnTime /\ Less(request.left) \in 0..TurnTime
        /\ Less(request.first) \in Unwatched..TurnTime
        /\ request.left <= turn.left => Less(request.left) <= Less(turn.left)
    BY <2>3, Constants DEF Less, Unwatched
  <2>5. turn' \in Turn /\ turn'.left = Less(turn.left) /\ turn'.kind = turn.kind /\ turn'.seq = turn.seq
        /\ turn'.available = turn.available /\ turn'.at = turn.at /\ turn'.attempt = turn.attempt
        /\ turn'.backup = turn.backup
        /\ turn'.emptied = turn.emptied /\ turn'.slow = turn.slow
    <3>1. turn' = [turn EXCEPT !.left = Less(turn.left)]
      BY <2>1
    <3>2. \A n \in 0..TurnTime : [turn EXCEPT !.left = n] \in Turn
      BY <2>2 DEF Turn
    <3> QED
      BY <2>2, <2>4, <3>1, <3>2 DEF Turn
  <2>6. /\ request' \in Request /\ request'.left = Less(request.left) /\ request'.first = Less(request.first)
        /\ request'.started = request.started /\ request'.said = request.said
        /\ request'.giveUp = request.giveUp
    BY <2>1, <2>2, <2>4 DEF Request
  <2>7. TypeOK'
    BY <1>1, <1>2, <2>5, <2>6 DEF IInv, Inv, TypeOK
  <2>8. TurnGoesOn'
    <3>1. \A i \in turn.available : turn.seq[i] \in Providers
      BY <2>2 DEF IInv, Inv, TurnGoesOn, Turn
    <3> QED
      BY <1>1, <1>2, <1>4, <2>5, <3>1 DEF IInv, Inv, TurnGoesOn, Provider
  <2>9. TurnRefuses' /\ HistoryIsTheTurn'
    BY <1>2, <2>5 DEF IInv, Inv, TurnRefuses, HistoryIsTheTurn, Provider
  <2>10. TurnSpeaks' /\ TurnIsCut' /\ RequestsShareTheTime'
    BY <1>2, <2>4, <2>5, <2>6 DEF IInv, Inv, TurnSpeaks, TurnIsCut, RequestsShareTheTime
  <2> QED
    BY <2>7, <2>8, <2>9, <2>10 DEF IInv, Inv
<1> QED
  BY <1>3, <1>4

(***************************************************************************)
(* On to the next provider: it is none of those whose pause was just set.  *)
(***************************************************************************)
LEMMA NextCandidate ==
  ASSUME SomeTurn, NEW t \in Turn, t.seq = turn.seq, t.available = turn.available,
         t.at = turn.at, turn.at \in turn.available, Candidates(t, t.at + 1) # {}
  PROVE  /\ First(Candidates(t, t.at + 1)) \in t.available
         /\ First(Candidates(t, t.at + 1)) \in DOMAIN Order
         /\ turn.at < First(Candidates(t, t.at + 1))
         /\ t.kind = "chat" => pause[t.seq[First(Candidates(t, t.at + 1))]] = 0
<1> DEFINE rest == Candidates(t, t.at + 1)
<1>1. turn.at \in 1..Len(Order) /\ turn.available \subseteq DOMAIN Order
  BY ProviderIs DEF SomeTurn, Turn
<1>2. rest \in SUBSET DOMAIN Order /\ rest # {}
  BY <1>1 DEF Candidates
<1>3. First(rest) \in rest
  <2> HIDE DEF rest
  <2> QED
    BY <1>2, FirstOf
<1>4. \A i \in rest : i \in t.available /\ t.at + 1 <= i /\ (t.kind = "chat" => pause[t.seq[i]] = 0)
  BY DEF Candidates
<1> HIDE DEF rest
<1>5. First(rest) \in DOMAIN Order /\ First(rest) \in Nat
  BY <1>2, <1>3, Constants
<1>6. turn.at < First(rest)
  BY <1>1, <1>3, <1>4, <1>5
<1> QED
  BY <1>3, <1>4, <1>5, <1>6 DEF rest

LEMMA OthersUnpaused ==
  ASSUME SomeTurn, turn.at \in turn.available, NEW i \in turn.available, i # turn.at,
         \A p \in Providers : p # Provider => pause'[p] = pause[p]
  PROVE  pause'[turn.seq[i]] = pause[turn.seq[i]]
<1>1. turn.seq \in Seq(Providers) /\ i \in DOMAIN turn.seq /\ turn.at \in DOMAIN turn.seq
  BY DEF SomeTurn, Turn
<1>2. turn.seq[i] \in Providers /\ turn.seq[i] # Provider
  BY <1>1 DEF SomeTurn, IsInjective, Provider
<1> QED
  BY <1>2

LEMMA NextProviderKeeps ==
  ASSUME IInv, UNCHANGED <<firstText, heard, stored, interrupted, turns>>, step # "idle",
         NEW t \in Turn, t.kind = "chat", t.kind = turn.kind, t.seq = turn.seq,
         t.available = turn.available, t.at = turn.at, t.attempt = turn.attempt,
         t.emptied = turn.emptied, t.emptied => t.slow,
         heard = {}, interrupted # "yes",
         refusedBy' \subseteq Providers, ~t.emptied => refusedBy' = {},
         pause' \in [Providers -> 0..MaxPause],
         \A p \in Providers : p # Provider => pause'[p] = pause[p],
         NextProvider(t)
  PROVE  IInv'
<1> DEFINE rest == Candidates(t, t.at + 1)
           i == First(rest)
<1>1. SomeTurn /\ turn.at \in turn.available /\ outcome = "none" /\ stored = 0
  BY IsSomeTurn DEF IInv, Inv, TurnGoesOn
<1>2. CASE rest # {} /\ Enter(t, i) /\ UNCHANGED <<active, outcome>>
  <2>1. i \in turn.available /\ i \in DOMAIN Order /\ turn.at < i /\ pause[turn.seq[i]] = 0
    BY <1>1, <1>2, NextCandidate
  <2>2. turn.at \in Nat /\ i \in Nat
    BY <1>1, <2>1, ProviderIs, Constants
  <2> HIDE DEF i, rest
  <2>3. Enter(t, i)
    BY <1>2
  <2>4. firstText \in FirstTexts
    BY <1>1 DEF SomeTurn
  <2>5. /\ turn' \in Turn /\ turn'.at = i /\ turn'.attempt = 1
        /\ turn'.kind = t.kind /\ turn'.seq = t.seq
        /\ turn'.available = t.available /\ turn'.left = t.left
        /\ turn'.emptied = t.emptied /\ turn'.slow = t.slow
        /\ step' = "asking" /\ Fresh(request', turn')
    BY <2>1, <2>3, <2>4, EnterEffect
  <2>6. Fresh(request, turn)'
    BY <2>5 DEF Fresh
  <2>7. pause'[turn.seq[i]] = 0
    BY <1>1, <2>1, <2>2, OthersUnpaused
  <2>8. SomeTurn'
    BY <1>1, <1>2, <2>5 DEF SomeTurn
  <2>9. Asks'
    BY <1>1, <1>2, <2>1, <2>5, <2>6, <2>7 DEF Asks, Provider
  <2> QED
    BY <2>8, <2>9, AskingHolds
<1>3. CASE turn' = t /\ active' = Head(t.seq) /\ End("notice")
  <2>1. SomeTurn'
    BY <1>1, <1>3, ProviderIs DEF SomeTurn
  <2>2. Ends("notice")'
    BY <1>1, <1>3 DEF Ends, End
  <2> QED
    BY <2>1, <2>2, EndHolds DEF Outcomes
<1> QED
  BY <1>2, <1>3 DEF NextProvider

(***************************************************************************)
(* Failures.  What each leaves of the pauses and of what was refused:      *)
(***************************************************************************)
LEMMA FailedIs ==
  ASSUME IInv, step # "idle", NEW f \in Failures, Failed(f)
  PROVE  /\ pause' \in [Providers -> 0..MaxPause]
         /\ \A p \in Providers : p # Provider => pause'[p] = pause[p]
         /\ f # "rate_limit" => pause' = pause
         /\ refusedBy' \subseteq Providers
         /\ refusedBy' = IF f \in Refusals THEN refusedBy \cup {Provider} ELSE refusedBy
         /\ UNCHANGED <<heard, stored, interrupted, turns>>
<1>1. SomeTurn /\ Provider \in Providers
  BY IsSomeTurn, ProviderIs DEF IInv, Inv, TurnGoesOn
<1>2. refusedBy \subseteq Providers /\ pause \in [Providers -> 0..MaxPause]
  BY <1>1 DEF SomeTurn
<1>3. /\ pause' \in [Providers -> 0..MaxPause]
      /\ \A p \in Providers : p # Provider => pause'[p] = pause[p]
      /\ f # "rate_limit" => pause' = pause
  <2>1. CASE f = "rate_limit" /\ \E d \in 1..MaxPause : pause' = [pause EXCEPT ![Provider] = d]
    BY <1>1, <1>2, <2>1, Constants
  <2>2. CASE pause' = pause
    BY <1>2, <2>2
  <2> QED
    BY <2>1, <2>2 DEF Failed
<1> QED
  BY <1>1, <1>2, <1>3 DEF Failed

\* Neither a timeout nor a failure of its own comes to a request the user has interrupted.
Plain == interrupted # "yes"

LEMMA ChatFailedKeeps ==
  ASSUME IInv, UNCHANGED firstText, step \in {"asking", "closing"}, turn.kind = "chat", Plain,
         NEW f \in Failures, Failed(f)
  PROVE  IInv'
<1>1. /\ SomeTurn /\ turn.at \in turn.available /\ turn.attempt >= 1 /\ outcome = "none" /\ stored = 0
      /\ pause[Provider] = 0 /\ turn \in Turn
  BY IsSomeTurn DEF IInv, Inv, TurnGoesOn, TypeOK
<1>2. /\ ~request.started => heard = {}
      /\ ~turn.emptied => refusedBy = {}
      /\ heard \subseteq {<<turn.at, turn.attempt>>}
      /\ heard \subseteq (1..Len(Order)) \X (1..Attempts)
  BY DEF IInv, Inv, TurnSpeaks, TurnRefuses, TypeOK
<1>3. /\ pause' \in [Providers -> 0..MaxPause]
      /\ \A p \in Providers : p # Provider => pause'[p] = pause[p]
      /\ f # "rate_limit" => pause' = pause
      /\ refusedBy' \subseteq Providers
      /\ refusedBy' = IF f \in Refusals THEN refusedBy \cup {Provider} ELSE refusedBy
      /\ UNCHANGED <<heard, stored, interrupted, turns>>
  BY FailedIs
<1>4. ChatFailed(f)
  BY DEF Failed
<1>5. Provider \in Providers
  BY <1>1, ProviderIs
<1>7. ASSUME turn' = turn, active' \in Providers
      PROVE  SomeTurn'
  BY <1>1, <1>3, <1>7 DEF SomeTurn
<1>8. active \in Providers
  BY <1>1 DEF SomeTurn
<1>a. CASE End("notice") /\ turn' = turn /\ Replayable /\ active' \in Providers
  <2>1. SomeTurn'
    BY <1>a, <1>7
  <2>2. heard' = {} /\ stored' = 0 /\ interrupted' # "yes"
    BY <1>1, <1>2, <1>3, <1>a DEF Replayable, Plain
  <2>3. Ends("notice")'
    BY <1>a, <2>2 DEF Ends, End
  <2> QED
    BY <2>1, <2>3, EndHolds DEF Outcomes
<1>b. CASE ~Replayable /\ step' = "telling" /\ request' = NoRequest /\ UNCHANGED <<active, turn, outcome>>
  <2>1. SomeTurn'
    BY <1>b, <1>7, <1>8
  <2>2. TypeOK'
    BY <1>1, <1>2, <1>3, <1>b, <2>1, NoRequestType DEF TypeOK, SomeTurn, Steps, Outcomes
  <2>3. TurnGoesOn'
    BY <1>1, <1>3, <1>b DEF IInv, Inv, TurnGoesOn
  <2>4. TurnRefuses' /\ TurnSpeaks' /\ TurnIsCut' /\ RequestsShareTheTime' /\ HistoryIsTheTurn'
    BY <1>1, <1>2, <1>3, <1>b DEF TurnRefuses, TurnSpeaks, TurnIsCut, RequestsShareTheTime,
                                  HistoryIsTheTurn, Plain
  <2> QED
    BY <2>2, <2>3, <2>4 DEF IInv, Inv
<1>c. CASE /\ Replayable /\ ~turn.emptied /\ f \in Retryable /\ MoreAttempts
           /\ step' = "backoff" /\ request' = [NoRequest EXCEPT !.left = 1]
           /\ UNCHANGED <<active, turn, outcome>>
  <2>1. SomeTurn'
    BY <1>c, <1>7, <1>8
  <2>2. request' \in Request
    <3>1. \A n \in 0..TurnTime : [NoRequest EXCEPT !.left = n] \in Request
      BY NoRequestType DEF Request
    <3>2. 1 \in 0..TurnTime
      BY Constants
    <3>3. request' = [NoRequest EXCEPT !.left = 1]
      BY <1>c
    <3> QED
      BY <3>1, <3>2, <3>3
  <2>3. pause' = pause /\ refusedBy' = {} /\ heard' = {}
    <3>1. f = "transient" /\ refusedBy = {} /\ heard = {}
      BY <1>2, <1>c DEF Retryable, Replayable
    <3>2. f \notin Refusals /\ f # "rate_limit"
      BY <3>1 DEF Refusals
    <3> QED
      BY <1>3, <3>1, <3>2
  <2>4. TypeOK'
    <3>1. step' \in Steps /\ outcome' \in Outcomes /\ stored' \in 0..1
      BY <1>1, <1>3, <1>c DEF Steps, Outcomes
    <3> QED
      BY <2>1, <2>2, <2>3, <3>1 DEF TypeOK, SomeTurn
  <2>5. TurnGoesOn'
    BY <1>1, <1>3, <1>c, <2>3 DEF IInv, Inv, TurnGoesOn, Provider, MoreAttempts
  <2>6. TurnRefuses' /\ TurnSpeaks' /\ TurnIsCut' /\ RequestsShareTheTime' /\ HistoryIsTheTurn'
    BY <1>1, <1>3, <1>c, <2>3 DEF TurnRefuses, TurnSpeaks, TurnIsCut, RequestsShareTheTime,
                                  HistoryIsTheTurn, Plain
  <2> QED
    BY <2>4, <2>5, <2>6 DEF IInv, Inv
<1>d. CASE /\ Replayable /\ ~turn.emptied /\ MayAskAgain(f)
           /\ Ask([turn EXCEPT !.attempt = @ + 1, !.emptied = TRUE])
           /\ UNCHANGED <<active, outcome>>
  <2> DEFINE t == [turn EXCEPT !.attempt = @ + 1, !.emptied = TRUE]
  <2>1. turn.attempt + 1 \in 0..Attempts
    <3>1. turn.attempt \in 0..Attempts
      BY <1>1 DEF Turn
    <3>2. turn.attempt < Attempts
      BY <1>d DEF MayAskAgain, MoreAttempts
    <3> QED
      BY <3>1, <3>2, Constants
  <2>2. /\ t \in Turn /\ t.attempt = turn.attempt + 1 /\ t.kind = turn.kind /\ t.seq = turn.seq
        /\ t.available = turn.available /\ t.at = turn.at /\ t.emptied = TRUE
    <3>1. \A n \in 0..Attempts : [turn EXCEPT !.attempt = n, !.emptied = TRUE] \in Turn
      BY <1>1 DEF Turn
    <3> QED
      BY <1>1, <2>1, <3>1 DEF Turn
  <2>3. Ask(t) /\ firstText \in FirstTexts
    BY <1>1, <1>d DEF SomeTurn
  <2> HIDE DEF t
  <2>4. turn' = t /\ step' = "asking" /\ Fresh(request', turn')
    BY <2>2, <2>3, AskEffect
  <2>5. Fresh(request, turn)'
    BY <2>4 DEF Fresh
  <2>6. pause' = pause /\ refusedBy' \subseteq {Provider} /\ heard' = {}
    BY <1>2, <1>3, <1>d DEF MayAskAgain, Replayable
  <2>7. SomeTurn'
    BY <1>1, <1>3, <1>d, <2>2, <2>4 DEF SomeTurn
  <2>8. Asks'
    BY <1>1, <1>3, <1>d, <2>2, <2>4, <2>5, <2>6 DEF Asks, Provider, Plain, Turn
  <2> QED
    BY <2>7, <2>8, AskingHolds
<1>e. CASE Replayable /\ ~turn.emptied /\ f \notin Refusals /\ NextProvider(turn)
  <2>1. heard = {} /\ refusedBy' = {}
    BY <1>2, <1>3, <1>e DEF Replayable
  <2> QED
    BY <1>1, <1>3, <1>e, <2>1, NextProviderKeeps DEF Plain
<1> QED
  BY <1>4, <1>5, <1>8, <1>a, <1>b, <1>c, <1>d, <1>e DEF ChatFailed

(***************************************************************************)
(* Outside chat a failure ends the turn, or the next of the providers that *)
(* were available when it began is asked; what one request makes ends.     *)
(***************************************************************************)
LEMMA PlainFailedKeeps ==
  ASSUME IInv, UNCHANGED firstText, step \in {"asking", "closing"}, turn.kind # "chat", Plain,
         NEW f \in Failures, Failed(f)
  PROVE  IInv'
<1>1. /\ SomeTurn /\ turn.at \in turn.available /\ turn.attempt >= 1 /\ outcome = "none" /\ stored = 0
      /\ pause[Provider] = 0 /\ turn \in Turn
      /\ turn.backup => \E i \in turn.available : turn.at < i
      /\ \A i \in turn.available : turn.at < i => pause[turn.seq[i]] = 0
  BY IsSomeTurn DEF IInv, Inv, TurnGoesOn, TypeOK
<1>2. /\ ~request.started => heard = {}
      /\ refusedBy = {} /\ ~turn.emptied
      /\ heard \subseteq {<<turn.at, turn.attempt>>}
      /\ heard \subseteq (1..Len(Order)) \X (1..Attempts)
  BY DEF IInv, Inv, TurnSpeaks, TurnRefuses, TypeOK
<1>3. /\ pause' \in [Providers -> 0..MaxPause]
      /\ \A p \in Providers : p # Provider => pause'[p] = pause[p]
      /\ refusedBy' \subseteq Providers
      /\ refusedBy' = IF f \in Refusals THEN refusedBy \cup {Provider} ELSE refusedBy
      /\ UNCHANGED <<heard, stored, interrupted, turns>>
  BY FailedIs
<1>4. active' = active
  BY DEF Failed, NaturalFailed
<1>a. CASE End("notice") /\ turn' = turn
  <2>1. SomeTurn'
    BY <1>1, <1>3, <1>4, <1>a DEF SomeTurn
  <2>2. Ends("notice")'
    BY <1>1, <1>2, <1>3, <1>a DEF Ends, End, Plain
  <2> QED
    BY <2>1, <2>2, EndHolds DEF Outcomes
<1> DEFINE rest == Candidates(turn, turn.at + 1)
           i == First(rest)
<1>b. CASE /\ ~request.started /\ f \in SwitchKinds /\ turn.backup
           /\ Enter(turn, i) /\ UNCHANGED outcome
  <2>1. rest # {}
    <3>1. turn.available \subseteq Nat /\ turn.at \in Nat
      BY <1>1, Constants DEF Turn
    <3> QED
      BY <1>1, <1>b, <3>1 DEF Candidates
  <2>2. i \in turn.available /\ i \in DOMAIN Order /\ turn.at < i
    BY <1>1, <2>1, NextCandidate
  <2>3. turn.at \in Nat /\ i \in Nat
    BY <1>1, <2>2, ProviderIs, Constants
  <2> HIDE DEF i, rest
  <2>4. Enter(turn, i) /\ firstText \in FirstTexts
    BY <1>1, <1>b DEF SomeTurn
  <2>5. /\ turn' \in Turn /\ turn'.at = i /\ turn'.attempt = 1
        /\ turn'.kind = turn.kind /\ turn'.seq = turn.seq
        /\ turn'.available = turn.available
        /\ turn'.emptied = turn.emptied /\ turn'.slow = turn.slow
        /\ turn'.backup => \E j \in turn.available : i < j
        /\ step' = "asking" /\ Fresh(request', turn')
    BY <1>1, <2>2, <2>4, EnterEffect
  <2>6. Fresh(request, turn)'
    BY <2>5 DEF Fresh
  <2>7. \A j \in turn.available : j # turn.at => pause'[turn.seq[j]] = pause[turn.seq[j]]
    BY <1>1, <1>3, OthersUnpaused
  <2>8. \A j \in turn.available : i <= j => pause'[turn.seq[j]] = 0
    <3>1. turn.available \subseteq Nat
      BY <1>1, Constants DEF Turn
    <3> QED
      BY <1>1, <2>2, <2>3, <2>7, <3>1
  <2>9. heard' = {} /\ refusedBy' = {}
    BY <1>2, <1>3, <1>b DEF SwitchKinds, Refusals
  <2>10. SomeTurn'
    BY <1>1, <1>3, <1>4, <1>b, <2>5 DEF SomeTurn
  <2>11. Asks'
    <3>1. turn.available \subseteq Nat
      BY <1>1, Constants DEF Turn
    <3>2. pause'[turn'.seq[turn'.at]] = 0 /\ \A j \in turn'.available : turn'.at < j => pause'[turn'.seq[j]] = 0
      BY <2>2, <2>3, <2>5, <2>8, <3>1
    <3> QED
      BY <1>1, <1>2, <1>3, <1>b, <2>2, <2>5, <2>6, <2>9, <3>2 DEF Asks, Provider, Plain
  <2> QED
    BY <2>10, <2>11, AskingHolds
<1> QED
  BY <1>a, <1>b DEF Failed, NaturalFailed

LEMMA FailedKeeps ==
  ASSUME IInv, UNCHANGED firstText, step \in {"asking", "closing"}, Plain, NEW f \in Failures, Failed(f)
  PROVE  IInv'
BY ChatFailedKeeps, PlainFailedKeeps

LEMMA FailKeeps == ASSUME IInv, UNCHANGED firstText, NEW f \in Failures, Fail(f) PROVE IInv'
<1>1. step = "asking" /\ Plain /\ Failed(f)
  BY DEF Fail, Plain, IInv, Inv, TurnIsCut
<1> QED
  BY <1>1, FailedKeeps

LEMMA ClosedKeeps == ASSUME IInv, UNCHANGED firstText, Closed PROVE IInv'
<1>1. step = "closing"
  BY DEF Closed
<1>2. request.giveUp # "interrupt" => Plain
  BY <1>1 DEF Plain, IInv, Inv, TurnIsCut
<1>3. SomeTurn /\ turn.at \in turn.available /\ outcome = "none" /\ stored = 0 /\ turn \in Turn
  BY <1>1, IsSomeTurn DEF IInv, Inv, TurnGoesOn, TypeOK
<1>a. CASE request.giveUp # "interrupt" /\ Failed("transient")
  BY <1>1, <1>2, <1>a, FailedKeeps DEF Failures, SwitchKinds
<1>b. CASE /\ request.giveUp = "slow" /\ turn.kind = "chat"
           /\ NextProvider([turn EXCEPT !.slow = TRUE])
           /\ UNCHANGED <<pause, memory, turns>>
  <2> DEFINE t == [turn EXCEPT !.slow = TRUE]
  <2>1. /\ t \in Turn /\ t.kind = turn.kind /\ t.seq = turn.seq /\ t.available = turn.available
        /\ t.at = turn.at /\ t.attempt = turn.attempt /\ t.emptied = turn.emptied /\ t.slow = TRUE
    BY <1>3 DEF Turn
  <2>2. NextProvider(t)
    BY <1>b
  <2> HIDE DEF t
  <2>3. heard = {} /\ (~t.emptied => refusedBy' = {})
    BY <1>1, <1>b, <2>1 DEF IInv, Inv, TurnSpeaks, TurnRefuses, memory
  <2>4. /\ refusedBy' \subseteq Providers /\ pause' \in [Providers -> 0..MaxPause]
        /\ \A p \in Providers : p # Provider => pause'[p] = pause[p]
        /\ UNCHANGED <<firstText, heard, stored, interrupted, turns>>
    BY <1>3, <1>b DEF SomeTurn, memory
  <2>5. interrupted # "yes"
    BY <1>2, <1>b DEF Plain
  <2> QED
    BY <1>1, <1>b, <2>1, <2>2, <2>3, <2>4, <2>5, NextProviderKeeps
<1>c. CASE /\ request.giveUp = "interrupt" /\ End("interrupted")
           /\ UNCHANGED <<active, pause, turn, memory, turns>>
  <2>1. SomeTurn'
    BY <1>3, <1>c DEF SomeTurn, memory
  <2>2. /\ heard \subseteq {<<turn.at, turn.attempt>>}
        /\ heard \subseteq (1..Len(Order)) \X (1..Attempts)
    BY DEF IInv, Inv, TurnSpeaks, TypeOK
  <2>3. Ends("interrupted")'
    BY <1>3, <1>c, <2>2 DEF Ends, End, memory
  <2> QED
    BY <2>1, <2>3, EndHolds DEF Outcomes
<1> QED
  BY <1>a, <1>b, <1>c DEF Closed

\* The sleep between two attempts opens the same provider again, or goes on to the next.
LEMMA WakeKeeps == ASSUME IInv, UNCHANGED firstText, Wake PROVE IInv'
<1>1. step = "backoff" /\ UNCHANGED <<pause, memory, turns>>
  BY DEF Wake
<1>2. /\ SomeTurn /\ turn.at \in turn.available /\ turn.attempt >= 1 /\ outcome = "none" /\ stored = 0
      /\ pause[Provider] = 0 /\ turn \in Turn /\ turn.kind = "chat"
  BY <1>1, IsSomeTurn DEF IInv, Inv, TurnGoesOn, TypeOK
<1>3. heard = {} /\ ~turn.emptied /\ refusedBy = {} /\ interrupted # "yes"
  BY <1>1 DEF IInv, Inv, TurnSpeaks, TurnRefuses, TurnIsCut
<1>a. CASE NextProvider(turn)
  <2>1. /\ refusedBy' \subseteq Providers /\ refusedBy' = {} /\ pause' \in [Providers -> 0..MaxPause]
        /\ \A p \in Providers : p # Provider => pause'[p] = pause[p]
        /\ UNCHANGED <<firstText, heard, stored, interrupted, turns>>
    BY <1>1, <1>2, <1>3 DEF SomeTurn, memory
  <2> QED
    BY <1>1, <1>2, <1>3, <1>a, <2>1, NextProviderKeeps
<1>b. CASE Ask([turn EXCEPT !.attempt = @ + 1]) /\ UNCHANGED <<active, outcome>>
  <2> DEFINE t == [turn EXCEPT !.attempt = @ + 1]
  <2>0. turn.attempt < Attempts
    BY <1>1 DEF IInv, Inv, TurnGoesOn
  <2>1. turn.attempt + 1 \in 0..Attempts
    <3>1. turn.attempt \in 0..Attempts
      BY <1>2 DEF Turn
    <3> QED
      BY <2>0, <3>1, Constants
  <2>2. /\ t \in Turn /\ t.attempt = turn.attempt + 1 /\ t.kind = turn.kind /\ t.seq = turn.seq
        /\ t.available = turn.available /\ t.at = turn.at /\ t.emptied = turn.emptied
    <3>1. \A n \in 0..Attempts : [turn EXCEPT !.attempt = n] \in Turn
      BY <1>2 DEF Turn
    <3> QED
      BY <1>2, <2>1, <3>1 DEF Turn
  <2>3. Ask(t) /\ firstText \in FirstTexts
    BY <1>2, <1>b DEF SomeTurn
  <2> HIDE DEF t
  <2>4. turn' = t /\ step' = "asking" /\ Fresh(request', turn')
    BY <2>2, <2>3, AskEffect
  <2>5. Fresh(request, turn)'
    BY <2>4 DEF Fresh
  <2>6. SomeTurn'
    BY <1>1, <1>2, <1>3, <1>b, <2>2, <2>4 DEF SomeTurn, memory
  <2>7. Asks'
    BY <1>1, <1>2, <1>3, <1>b, <2>2, <2>4, <2>5 DEF Asks, Provider, Turn, memory
  <2> QED
    BY <2>6, <2>7, AskingHolds
<1> QED
  BY <1>a, <1>b DEF Wake

(***************************************************************************)
(* A turn begins with the first provider that is not paused, or ends.      *)
(***************************************************************************)
LEMMA BeginKeeps == ASSUME IInv, UNCHANGED firstText, NEW kind \in Kinds, Begin(kind) PROVE IInv'
<1> DEFINE seq == Sequence
           open == Unpaused(seq)
           available == Available(kind, seq)
           t == [NoTurn EXCEPT !.kind = kind, !.seq = seq, !.available = available, !.left = TurnTime]
           i == First(open)
<1>1. /\ active \in Providers /\ firstText \in FirstTexts /\ pause \in [Providers -> 0..MaxPause]
      /\ turns \in 0..MaxTurns
  BY DEF IInv, Inv, TypeOK
<1>2. seq \in Seq(Providers) /\ Len(seq) = Len(Order) /\ IsInjective(seq)
  BY <1>1, SequenceIsWhole
<1> HIDE DEF seq
<1>3. DOMAIN seq = DOMAIN Order /\ DOMAIN Order = 1..Len(Order)
  BY <1>2, Constants
<1>4. /\ open \in SUBSET DOMAIN Order /\ available \in SUBSET DOMAIN Order
      /\ \A j \in open : pause[seq[j]] = 0
      /\ kind # "chat" => available \subseteq open
  BY <1>3 DEF Unpaused, Available
<1>5. open # {} => /\ i \in open /\ (\A j \in open : i <= j) /\ i \in available
                   /\ seq[i] \in Providers /\ pause[seq[i]] = 0 /\ i \in DOMAIN Order
  <2> HIDE DEF open, available
  <2>1. open # {} => i \in open /\ \A j \in open : i <= j
    BY <1>4, FirstOf
  <2>2. open # {} => i \in available
    BY <1>3, <1>4, <2>1 DEF available, open, Available
  <2> QED
    BY <1>2, <1>3, <1>4, <2>1, <2>2
<1>6. kind # "none" /\ kind \in Kinds
  BY Constants
<1>7. /\ t \in Turn /\ t.kind = kind /\ t.seq = seq /\ t.available = available
      /\ t.emptied = FALSE /\ t.slow = FALSE /\ t.at = 0 /\ t.attempt = 0
  <2> HIDE DEF available
  <2>1. TurnTime \in 0..TurnTime /\ 0 \in 0..Len(Order) /\ 0 \in 0..Attempts
    BY Constants
  <2> QED
    BY <1>2, <1>4, <1>6, <2>1 DEF NoTurn, Turn
<1>8. /\ turns' \in 0..MaxTurns /\ pause' = pause /\ active' \in Providers
      /\ heard' = {} /\ stored' = 0 /\ refusedBy' = {} /\ interrupted' = "no"
  <2>1. turns' \in 0..MaxTurns
    BY <1>1, Constants DEF Begin
  <2>2. active' = IF kind \in {"natural", "quiet"} /\ open # {} THEN seq[i] ELSE active
    BY DEF Begin, seq
  <2> HIDE DEF open, i
  <2>3. active' \in Providers
    BY <1>1, <1>5, <2>2
  <2> QED
    BY <2>1, <2>3 DEF Begin
<1>9. \/ open # {} /\ Enter(t, i) /\ outcome' = "none"
      \/ open = {} /\ turn' = t /\ End("notice")
  BY DEF Begin, seq
<1> HIDE DEF open, available, t, i
<1>a. CASE open # {} /\ Enter(t, i) /\ outcome' = "none"
  <2>1. /\ turn' \in Turn /\ turn'.at = i /\ turn'.attempt = 1
        /\ turn'.kind = kind /\ turn'.seq = seq
        /\ turn'.available = available
        /\ turn'.emptied = FALSE /\ turn'.slow = FALSE
        /\ turn'.backup => \E j \in available : i < j
        /\ step' = "asking" /\ Fresh(request', turn')
    BY <1>1, <1>5, <1>7, <1>a, EnterEffect
  <2>2. Fresh(request, turn)'
    BY <2>1 DEF Fresh
  <2>3. SomeTurn'
    BY <1>1, <1>2, <1>3, <1>4, <1>6, <1>8, <2>1 DEF SomeTurn, Interruptions
  <2>4. Asks'
    BY <1>4, <1>5, <1>8, <1>a, <2>1, <2>2 DEF Asks, Provider
  <2> QED
    BY <2>3, <2>4, AskingHolds
<1>b. CASE open = {} /\ turn' = t /\ End("notice")
  <2>1. SomeTurn'
    BY <1>1, <1>2, <1>3, <1>4, <1>6, <1>7, <1>8, <1>b DEF SomeTurn, Interruptions
  <2>2. Ends("notice")'
    BY <1>8, <1>b DEF Ends, End
  <2> QED
    BY <2>1, <2>2, EndHolds DEF Outcomes
<1> QED
  BY <1>9, <1>a, <1>b

LEMMA StepHolds == IInv /\ [Next]_vars => IInv'
<1> SUFFICES ASSUME IInv, [Next]_vars PROVE IInv'
  OBVIOUS
<1>1. CASE UNCHANGED vars
  <2>1. UNCHANGED <<firstText, active, pause, turn, step, request, heard, stored, refusedBy,
                    interrupted, outcome, turns>>
    BY <1>1 DEF vars
  <2>2. TypeOK' /\ RequestsShareTheTime' /\ HistoryIsTheTurn'
    BY <2>1 DEF IInv, Inv, TypeOK, RequestsShareTheTime, HistoryIsTheTurn
  <2>3. TurnGoesOn' /\ TurnSpeaks' /\ TurnRefuses' /\ TurnIsCut'
    BY <2>1 DEF IInv, Inv, TurnGoesOn, TurnSpeaks, TurnRefuses, TurnIsCut, Provider
  <2> QED
    BY <2>2, <2>3 DEF IInv, Inv
<1>2. CASE Next
  <2>1. UNCHANGED firstText
    BY <1>2 DEF Next
  <2> QED
    BY <1>2, <2>1, BeginKeeps, TextKeeps, PreviewKeeps, AnsweredKeeps, RestSaidKeeps, ReturnedKeeps,
       DecodedKeeps, FailKeeps, NoticeSpokenKeeps, WakeKeeps, SilentKeeps, TimeUpKeeps,
       InterruptKeeps, ClosedKeeps, TickKeeps DEF Next
<1> QED
  BY <1>1, <1>2

LEMMA AlwaysHolds == Spec => []IInv
BY InitHolds, StepHolds, PTL DEF Spec

(***************************************************************************)
(* Every variable keeps its type, no request outlives the time of its      *)
(* turn, and the rest of what the run checks as inductive                  *)
(* (services/llm/manager.py, _chat_request and converse).                  *)
(***************************************************************************)
THEOREM TurnsHold == Spec => []Inv
<1>1. IInv => Inv
  BY DEF IInv
<1> QED
  BY AlwaysHolds, <1>1, PTL

(***************************************************************************)
(* Whatever fails, is retried, switched or interrupted: the user hears one *)
(* request only, the history gets the turn exactly when an answer or what  *)
(* was heard of it is returned, no refused answer is asked of another      *)
(* model, and an interruption that is not swallowed ends the turn without  *)
(* a result, at whatever await it arrives (first_text.py, manager.py,      *)
(* core/natural_turn.py).                                                  *)
(***************************************************************************)
THEOREM AnswersStandAlone == Spec => []AnswersStand
<1>1. IInv => OneVoice
  <2> SUFFICES ASSUME IInv PROVE OneVoice
    OBVIOUS
  <2> DEFINE one == <<turn.at, turn.attempt>>
  <2>1. heard \subseteq {one}
    BY DEF IInv, Inv, TurnSpeaks
  <2> HIDE DEF one
  <2>2. heard = {} \/ heard = {one}
    BY <2>1
  <2>3. Cardinality({}) = 0 /\ Cardinality({one}) = 1
    BY FS_EmptySet, FS_Singleton
  <2> QED
    BY <2>2, <2>3 DEF OneVoice
<1>2. IInv => RefusedAnswersStay
  BY DEF IInv, Inv, TurnRefuses, RefusedAnswersStay
<1>3. IInv => InterruptEndsTurn
  BY DEF IInv, Inv, TurnIsCut, TurnGoesOn, InterruptEndsTurn
<1>4. IInv => AnswersStand
  BY <1>1, <1>2, <1>3 DEF AnswersStand, IInv
<1> QED
  BY AlwaysHolds, <1>4, PTL

(***************************************************************************)
(* A provider that answered 429 is asked nothing before its pause is over, *)
(* not by a retry, a switch or a turn that begins (_cooling_down).         *)
(***************************************************************************)
THEOREM PausedAreLeftAlone == Spec => PausedProviderNotAsked
<1>1. IInv' => (step' = "asking" => pause'[turn'.seq[turn'.at]] = 0)
  BY DEF IInv, Inv, TurnGoesOn, Provider
<1>2. IInv /\ [Next]_vars =>
        [ /\ step' = "asking"
          /\ step # "asking" \/ turn.at # turn'.at \/ turn.attempt # turn'.attempt
          => pause'[turn'.seq[turn'.at]] = 0 ]_vars
  BY StepHolds, <1>1
<1> QED
  BY AlwaysHolds, <1>2, PTL DEF Spec, PausedProviderNotAsked
==============================================================================
