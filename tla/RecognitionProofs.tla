------------------------- MODULE RecognitionProofs -------------------------
(***************************************************************************)
(* Theorems about Recognition: for any lengths of a recording, any queue,  *)
(* any microphones and any number of listens, on every loop and with every *)
(* profile, whenever the user switches the microphone or the program ends. *)
(* SoundInv is kept by the capture loops alone, PipeInv by the threads at  *)
(* the recogniser's pipe, ListenInv by the listen; the lemmas follow that  *)
(* order, and the last part puts them together.                            *)
(***************************************************************************)
EXTENDS Recognition, TLAPS, FiniteSetTheorems, FunctionTheorems, SequenceTheorems

-----------------------------------------------------------------------------
(* The sound in the queue *)

Sounding(queue) == {i \in DOMAIN queue : queue[i]}
One(b) == IF b THEN 1 ELSE 0

LEMMA SoundsCounted ==
  ASSUME NEW q \in Seq(BOOLEAN)
  PROVE  IsFiniteSet(Sounding(q)) /\ Sounds(q) = Cardinality(Sounding(q)) /\ Sounds(q) \in Nat
<1>1. DOMAIN q = 1..Len(q) /\ Len(q) \in Nat
  BY LenProperties
<1>2. IsFiniteSet(1..Len(q))
  BY <1>1, FS_Interval
<1>3. Sounding(q) \subseteq 1..Len(q)
  BY <1>1 DEF Sounding
<1>4. IsFiniteSet(Sounding(q))
  BY <1>2, <1>3, FS_Subset
<1> QED
  BY <1>4, FS_CardinalityType DEF Sounds, Sounding

LEMMA NoSounds == Sounds(<<>>) = 0 /\ <<>> \in Seq(BOOLEAN)
<1>1. {i \in DOMAIN <<>> : <<>>[i]} = {}
  OBVIOUS
<1>2. Sounds(<<>>) = Cardinality({})
  BY <1>1 DEF Sounds
<1> QED
  BY <1>2, FS_EmptySet

LEMMA OneOf == \A b \in BOOLEAN : One(b) \in {0, 1} /\ (b => One(b) = 1) /\ (~b => One(b) = 0)
BY DEF One

LEMMA SoundsAppend ==
  ASSUME NEW q \in Seq(BOOLEAN), NEW b \in BOOLEAN
  PROVE  /\ Append(q, b) \in Seq(BOOLEAN) /\ Len(Append(q, b)) = Len(q) + 1
         /\ Sounds(Append(q, b)) = Sounds(q) + One(b)
<1> DEFINE a == Append(q, b)
           n == Len(q) + 1
<1>1. a \in Seq(BOOLEAN) /\ Len(a) = n /\ DOMAIN a = 1..n /\ DOMAIN q = 1..Len(q)
      /\ Len(q) \in Nat
  BY LenProperties, AppendProperties
<1>2. a[n] = b /\ \A i \in 1..Len(q) : a[i] = q[i]
  BY AppendProperties
<1>3. CASE b
  <2>1. Sounding(a) = Sounding(q) \cup {n} /\ n \notin Sounding(q)
    BY <1>1, <1>2, <1>3 DEF Sounding
  <2>2. Cardinality(Sounding(q) \cup {n}) = Cardinality(Sounding(q)) + 1
    BY <2>1, SoundsCounted, FS_AddElement
  <2> QED
    BY <1>1, <1>3, <2>1, <2>2, SoundsCounted DEF One
<1>4. CASE ~b
  <2>1. Sounding(a) = Sounding(q)
    BY <1>1, <1>2, <1>4 DEF Sounding
  <2>2. One(b) = 0
    BY <1>4 DEF One
  <2>3. Sounds(a) = Sounds(q) /\ Sounds(q) \in Nat
    BY <1>1, <2>1, SoundsCounted
  <2> QED
    BY <1>1, <2>2, <2>3
<1> QED
  BY <1>3, <1>4

\* What the tail holds is what the whole holds but for the head.
LEMMA SoundsTail ==
  ASSUME NEW q \in Seq(BOOLEAN), q # <<>>
  PROVE  /\ Head(q) \in BOOLEAN /\ Tail(q) \in Seq(BOOLEAN) /\ Len(q) = Len(Tail(q)) + 1
         /\ Sounds(q) = Sounds(Tail(q)) + One(Head(q))
<1> DEFINE t == Tail(q)
           rest == Sounding(q) \ {1}
           Back == [i \in rest |-> i - 1]
<1>1. /\ t \in Seq(BOOLEAN) /\ Len(q) \in Nat /\ Len(q) = Len(t) + 1 /\ Head(q) = q[1]
      /\ DOMAIN q = 1..Len(q) /\ DOMAIN t = 1..Len(t) /\ Len(t) \in Nat
  BY LenProperties, HeadTailProperties
<1>2. \A i \in 1..Len(t) : t[i] = q[i + 1]
  BY HeadTailProperties
<1>3. \A i \in rest : i \in Nat /\ i - 1 \in Sounding(t)
  BY <1>1, <1>2 DEF Sounding
<1>4. \A i \in Sounding(t) : i \in Nat /\ i + 1 \in rest
  BY <1>1, <1>2 DEF Sounding
<1>5. Back \in Bijection(rest, Sounding(t))
  <2>1. Back \in [rest -> Sounding(t)]
    BY <1>3
  <2>2. \A i, j \in rest : Back[i] = Back[j] => i = j
    BY <1>3
  <2>3. \A k \in Sounding(t) : k + 1 \in rest /\ Back[k + 1] = k
    BY <1>4
  <2>4. \A k \in Sounding(t) : \E i \in rest : Back[i] = k
    BY <2>3
  <2> QED
    BY <2>1, <2>2, <2>4, Fun_IsBij
<1>6. IsFiniteSet(rest)
  BY SoundsCounted, FS_RemoveElement
<1>7. ExistsBijection(rest, Sounding(t))
  BY <1>5 DEF ExistsBijection
<1>8. Cardinality(rest) = Cardinality(Sounding(t))
  BY <1>6, <1>7, FS_Bijection
<1>10. Head(q) \in BOOLEAN
  BY <1>1
<1>9. Cardinality(Sounding(q)) = Cardinality(rest) + One(Head(q))
  <2>1. CASE q[1]
    <3>1. 1 \in Sounding(q)
      BY <1>1, <2>1 DEF Sounding
    <3>2. IsFiniteSet(Sounding(q)) /\ Cardinality(Sounding(q)) \in Nat
      BY SoundsCounted
    <3>3. Cardinality(rest) = Cardinality(Sounding(q)) - 1
      BY <3>1, <3>2, FS_RemoveElement
    <3>4. One(Head(q)) = 1
      BY <1>1, <2>1 DEF One
    <3> QED
      BY <3>2, <3>3, <3>4
  <2>2. CASE ~q[1]
    <3>1. rest = Sounding(q)
      BY <2>2 DEF Sounding
    <3>4. ~Head(q)
      BY <1>1, <2>2
    <3>2. One(Head(q)) = 0
      BY <1>10, <3>4, OneOf
    <3>3. Cardinality(Sounding(q)) \in Nat
      BY SoundsCounted
    <3>5. Cardinality(rest) = Cardinality(Sounding(q))
      BY <3>1
    <3> HIDE DEF rest
    <3> QED
      BY <3>2, <3>3, <3>5
  <2> QED
    BY <2>1, <2>2
<1> QED
  BY <1>1, <1>8, <1>9, <1>10, SoundsCounted

-----------------------------------------------------------------------------
(* The capture loops *)

LEMMA MinOfTwo ==
  ASSUME NEW a \in Nat, NEW b \in Nat
  PROVE  Min({a, b}) = IF a <= b THEN a ELSE b
<1> DEFINE least == IF a <= b THEN a ELSE b
<1>1. least \in {a, b} /\ \A y \in {a, b} : least <= y
  OBVIOUS
<1>2. \A x \in {a, b} : (\A y \in {a, b} : x <= y) => x = least
  OBVIOUS
<1> HIDE DEF least
<1>3. Min({a, b}) = least
  BY <1>1, <1>2 DEF Min
<1> QED
  BY <1>3 DEF least

LEMMA Zeros == [first |-> 0, last |-> 0, active |-> 0, processed |-> 0] \in
                 [first : Nat, last : Nat, active : Nat, processed : Nat]
OBVIOUS

\* What a recording has at its beginning, and what is left of it at its end.
LEMMA FreshSound ==
  ASSUME path' \in Paths \cup {"none"}, limit' \in 0..(Wait + Most), path' = "pcm" => limit' = Wait,
         now' = 0, blocks' = <<>>, overflow' = FALSE, heard' = Fresh, spoken' = 0,
         interrupt' \in BOOLEAN, paused' \in BOOLEAN, closed' \in BOOLEAN
  PROVE  SoundInv'
<1>1. /\ Fresh \in [first : Nat, last : Nat, active : Nat, processed : Nat]
      /\ Fresh.active = 0 /\ Fresh.processed = 0
  BY Zeros DEF Fresh
<1>2. 0 \in 0..Horizon /\ 0 \in 0..0 /\ Len(<<>>) = 0
  BY CaptureAssumption DEF Horizon
<1>3. Sounds(blocks') = 0
  BY NoSounds
<1>4. heard'.active + Sounds(blocks') = spoken'
  BY <1>1, <1>3
<1>5. now' \in 0..Horizon /\ spoken' \in 0..now' /\ blocks' \in Seq(BOOLEAN)
      /\ heard' \in [first : Nat, last : Nat, active : Nat, processed : Nat]
  BY <1>1, <1>2, NoSounds
<1>6. heard'.active <= heard'.processed /\ heard'.processed + Len(blocks') <= now'
  BY <1>1, <1>2
<1>7. path' = "pcm" => IF heard'.active = 0 THEN limit' = Wait ELSE limit' >= heard'.first + Most
  BY <1>1
<1>8. overflow' \in BOOLEAN /\ (path' # "pcm" => ~overflow')
  OBVIOUS
<1> QED
  BY <1>4, <1>5, <1>6, <1>7, <1>8 DEF SoundInv

\* Whatever a loop gives back, nothing of its recording is left; a new one begins with nothing.
LEMMA EndsSound ==
  ASSUME SoundInv, NEW r, Over(r)
  PROVE  SoundInv' /\ taken' = r
<1>1. 0 \in 0..(Wait + Most)
  BY CaptureAssumption
<1>2. interrupt' \in BOOLEAN /\ paused' \in BOOLEAN /\ closed' \in BOOLEAN
  BY DEF SoundInv, Over, flags
<1> QED
  BY <1>1, <1>2, FreshSound DEF Over

LEMMA BeginsSound ==
  ASSUME NEW p \in Paths, Open(p),
         interrupt' \in BOOLEAN, paused' \in BOOLEAN, closed' \in BOOLEAN
  PROVE  SoundInv' /\ taken' = None
<1>1. Wait \in 0..(Wait + Most)
  BY CaptureAssumption
<1> QED
  BY <1>1, FreshSound DEF Open

\* The endpoint after a block, on the timeline of what was taken.
LEMMA FedHeard ==
  ASSUME SoundInv, NEW b \in BOOLEAN
  PROVE  /\ Fed(b) \in [first : Nat, last : Nat, active : Nat, processed : Nat]
         /\ Fed(b).processed = heard.processed + 1
         /\ Fed(b).active = heard.active + One(b)
         /\ heard.active # 0 => Fed(b).first = heard.first
         /\ heard.active = 0 /\ One(b) = 1 => Fed(b).first = heard.processed
<1>1. heard.processed \in Nat /\ heard.active \in Nat /\ heard.first \in Nat /\ heard.last \in Nat
  BY DEF SoundInv
<1> QED
  BY <1>1 DEF Fed, One

\* The deadline with the first sound of an utterance.
LEMMA BudgetOfSpeech ==
  ASSUME NEW at \in Nat, NEW end \in Nat, at + 1 <= now, now \in Nat, now < Wait,
         end = Min({Wait + Most, now + Most - 1})
  PROVE  end \in 0..(Wait + Most) /\ end >= at + Most
<1>1. Wait \in Nat /\ Most \in Nat
  BY CaptureAssumption
<1>2. now + Most - 1 \in Nat /\ Wait + Most \in Nat
  BY <1>1
<1>3. end = IF Wait + Most <= now + Most - 1 THEN Wait + Most ELSE now + Most - 1
  BY <1>2, MinOfTwo
<1> QED
  BY <1>1, <1>2, <1>3

\* A block leaves the queue, and the loop goes on.
LEMMA TakesSound ==
  ASSUME SoundInv, blocks # <<>>, heard' = Fed(Head(blocks)), blocks' = Tail(blocks),
         interrupt' = interrupt, paused' = paused, closed' = closed, path' = path, now' = now,
         overflow' = overflow, spoken' = spoken,
         path # "pcm" => limit' = limit,
         path = "pcm" => /\ now < limit
                         /\ limit' = IF heard'.active = 1 /\ heard.active = 0
                                     THEN Backdated(heard') ELSE limit
  PROVE  SoundInv'
<1> DEFINE t == Tail(blocks)
           o == One(Head(blocks))
           n == Len(t)
           s == Sounds(t)
<1>1. /\ Head(blocks) \in BOOLEAN /\ t \in Seq(BOOLEAN) /\ Len(blocks) = n + 1
      /\ Sounds(blocks) = s + o
  BY SoundsTail DEF SoundInv
<1>2. n \in Nat /\ s \in Nat /\ o \in {0, 1}
  BY <1>1, SoundsCounted, LenProperties, OneOf
<1>3. /\ heard' \in [first : Nat, last : Nat, active : Nat, processed : Nat]
      /\ heard'.processed = heard.processed + 1 /\ heard'.active = heard.active + o
      /\ heard.active # 0 => heard'.first = heard.first
      /\ heard.active = 0 /\ o = 1 => heard'.first = heard.processed
  BY <1>1, FedHeard
<1>4. blocks' = t /\ Len(blocks') = n /\ Sounds(blocks') = s
  OBVIOUS
<1> HIDE DEF t, o, n, s
<1>5. /\ heard.processed \in Nat /\ heard.active \in Nat /\ heard.first \in Nat /\ spoken \in Nat
      /\ heard.processed + n + 1 <= now /\ now \in Nat /\ limit \in Nat /\ limit <= Wait + Most
      /\ heard.active <= heard.processed /\ Wait \in Nat /\ Most \in Nat
      /\ heard'.first \in Nat
  <2>1. /\ heard.processed \in Nat /\ heard.active \in Nat /\ heard.first \in Nat
        /\ heard.active <= heard.processed /\ heard.processed + (n + 1) <= now
        /\ limit \in 0..(Wait + Most) /\ now \in 0..Horizon /\ spoken \in 0..now
    BY <1>1 DEF SoundInv
  <2>2. Wait \in Nat /\ Most \in Nat
    BY CaptureAssumption
  <2>3. heard'.first \in Nat
    BY <1>3
  <2> QED
    BY <1>2, <2>1, <2>2, <2>3 DEF Horizon
<1>6. overflow' \/ heard'.active + Sounds(blocks') = spoken'
  <2>1. overflow \/ heard.active + (s + o) = spoken
    BY <1>1 DEF SoundInv
  <2> QED
    BY <1>2, <1>3, <1>4, <1>5, <2>1
<1>7. heard'.active <= heard'.processed /\ heard'.processed + Len(blocks') <= now'
  <2>1. heard'.processed = heard.processed + 1 /\ heard'.active = heard.active + o
    BY <1>3
  <2>2. o <= 1 /\ Len(blocks') = n /\ now' = now
    BY <1>2, <1>4
  <2>3. heard.active + o <= heard.processed + 1
    BY <1>2, <1>5, <2>2
  <2>4. heard.processed + 1 + n <= now
    BY <1>2, <1>5
  <2> QED
    BY <2>1, <2>2, <2>3, <2>4
<1>8. /\ limit' \in 0..(Wait + Most)
      /\ path = "pcm" => IF heard'.active = 0 THEN limit' = Wait ELSE limit' >= heard'.first + Most
  <2>1. CASE path # "pcm"
    BY <1>5, <2>1
  <2>2. CASE path = "pcm" /\ heard.active # 0
    <3>1. limit >= heard.first + Most /\ limit' = limit /\ heard'.active # 0
      BY <1>2, <1>3, <1>5, <2>2, SMTT(30) DEF SoundInv
    <3> QED
      BY <1>3, <1>5, <2>2, <3>1
  <2>3. CASE path = "pcm" /\ heard.active = 0 /\ o = 0
    <3>1. limit = Wait /\ heard'.active = 0 /\ limit' = limit
      BY <1>3, <1>5, <2>3 DEF SoundInv
    <3> QED
      BY <1>5, <2>3, <3>1
  <2>4. CASE path = "pcm" /\ heard.active = 0 /\ o = 1
    <3>1. heard'.active = 1 /\ heard'.first = heard.processed /\ limit = Wait /\ now < Wait
      BY <1>3, <1>5, <2>4 DEF SoundInv
    <3>2. limit' = Min({Wait + Most, now + Most - (heard'.processed - heard'.first)})
      BY <2>4, <3>1 DEF Backdated
    <3>3. heard'.processed - heard'.first = 1 /\ heard.processed + 1 <= now
      BY <1>2, <1>3, <1>5, <3>1
    <3>4. limit' = Min({Wait + Most, now + Most - 1})
      BY <3>2, <3>3
    <3>5. Wait + Most \in Nat /\ now + Most - 1 \in Nat
      BY <1>5, <3>3
    <3>6. limit' \in Nat
      BY <3>4, <3>5, MinOfTwo
    <3>7. limit' \in 0..(Wait + Most) /\ limit' >= heard.processed + Most
      BY <1>5, <3>1, <3>3, <3>4, <3>6, BudgetOfSpeech
    <3> QED
      BY <3>1, <3>7
  <2> QED
    BY <1>2, <2>1, <2>2, <2>3, <2>4
<1>9. path' \in Paths \cup {"none"} /\ now' \in 0..Horizon /\ blocks' \in Seq(BOOLEAN)
      /\ spoken' \in 0..now' /\ (path' # "pcm" => ~overflow')
      /\ interrupt' \in BOOLEAN /\ paused' \in BOOLEAN /\ closed' \in BOOLEAN /\ overflow' \in BOOLEAN
  BY <1>1, <1>4 DEF SoundInv
<1> QED
  BY <1>3, <1>6, <1>7, <1>8, <1>9 DEF SoundInv

\* What Capture promises of what it gives back.
Whole(r) ==
  /\ r.text # "" /\ ~r.cut /\ ~Unwatched(r) => r.all
  /\ r.kind = "limit" /\ r.text # "" => r.length >= Most

LEMMA WholeSpeech == (taken = None \/ Whole(taken)) => SpeechIsWhole
BY DEF Whole, SpeechIsWhole, CutSpeechIsMarked, SpeechHasItsBudget, Unwatched

LEMMA SpeechWhole == SpeechIsWhole => taken = None \/ Whole(taken)
BY DEF Whole, SpeechIsWhole, CutSpeechIsMarked, SpeechHasItsBudget, Unwatched

LEMMA PcmWhole ==
  ASSUME SoundInv, NEW h, NEW cut \in BOOLEAN, EndPcm(h, cut),
         ~cut /\ ~overflow => h.active = spoken,
         cut /\ h.active > 0 /\ ~Cancelled => now - h.first >= Most
  PROVE  SoundInv' /\ Whole(taken')
<1> DEFINE r == [path |-> "pcm", cut |-> cut \/ overflow,
                 kind |-> IF Cancelled THEN "interrupted" ELSE IF cut THEN "limit" ELSE "silence",
                 text |-> IF h.active > 0 THEN "speech" ELSE "", denied |-> FALSE,
                 length |-> IF h.active > 0 THEN now - h.first ELSE 0, all |-> h.active = spoken]
<1>1. Over(r)
  BY DEF EndPcm
<1>2. SoundInv' /\ taken' = r
  BY <1>1, EndsSound
<1>3. r.path = "pcm" /\ (r.kind = "limit" => cut /\ ~Cancelled)
  OBVIOUS
<1>4. r.text # "" => h.active > 0 /\ r.length = now - h.first
  OBVIOUS
<1>5. ~r.cut => r.all
  BY DEF SoundInv
<1>6. Whole(r)
  BY <1>3, <1>4, <1>5 DEF Whole
<1> QED
  BY <1>2, <1>6

\* The other loops mark nothing but what the adaptive one gave up; an end by a pause leaves
\* nothing, and the others that have a text are unwatched.
LEMMA FinishWhole ==
  ASSUME SoundInv, NEW h, NEW text, NEW kind, NEW rest, Finish(h, text, kind, rest),
         path \in Paths \ {"pcm"},
         \/ kind = "held"
         \/ kind \in {"quiet", "flushed"} /\ h.active = spoken /\ rest = <<>>
         \/ kind = "native" /\ path # "adaptive"
         \/ kind = "timeout"
         \/ kind \in {"noise", "interrupted"} /\ text = ""
  PROVE  SoundInv' /\ Whole(taken')
<1> DEFINE r == [path |-> path, text |-> IF Stopped THEN "" ELSE text, denied |-> denied,
                 kind |-> IF Stopped THEN "interrupted" ELSE kind,
                 cut |-> path = "adaptive" /\ kind = "timeout",
                 length |-> now, all |-> h.active = spoken /\ rest = <<>>]
<1>1. Over(r)
  BY DEF Finish
<1>2. r.kind # "limit"
  OBVIOUS
<1>3. r.text # "" => r.text = text /\ r.kind = kind
  OBVIOUS
<1>4. /\ r.path = path
      /\ path = "adaptive" /\ kind = "timeout" => r.cut
      /\ h.active = spoken /\ rest = <<>> => r.all
  OBVIOUS
<1> HIDE DEF r
<1>5. SoundInv' /\ taken' = r
  BY <1>1, EndsSound
<1>6. r.text # "" /\ ~r.cut => Unwatched(r) \/ r.all
  <2> SUFFICES ASSUME r.text # "", ~r.cut PROVE Unwatched(r) \/ r.all
    OBVIOUS
  <2>1. text # "" /\ kind = r.kind
    BY <1>3
  <2>2. CASE kind = "held"
    BY <2>1, <2>2 DEF Unwatched
  <2>3. CASE kind \in {"quiet", "flushed"} /\ h.active = spoken /\ rest = <<>>
    BY <1>4, <2>3
  <2>4. CASE (kind = "native" /\ path # "adaptive") \/ kind = "timeout"
    <3>1. path # "adaptive"
      BY <1>4, <2>4
    <3>2. path \in {"native", "quiet", "confirming"}
      BY <3>1 DEF Paths
    <3> QED
      BY <1>4, <2>1, <2>4, <3>2 DEF Unwatched
  <2> QED
    BY <2>1, <2>2, <2>3, <2>4
<1>7. Whole(r)
  BY <1>2, <1>6 DEF Whole
<1> QED
  BY <1>5, <1>7

\* When nothing is left in the queue, all that was said has been heard.
LEMMA LastBlock ==
  ASSUME SoundInv, ~overflow, blocks # <<>>, Unheard(Tail(blocks))
  PROVE  Fed(Head(blocks)).active = spoken /\ Tail(blocks) = <<>>
<1> DEFINE h == Fed(Head(blocks))
<1>1. /\ Head(blocks) \in BOOLEAN /\ Tail(blocks) = <<>>
      /\ Sounds(blocks) = Sounds(Tail(blocks)) + One(Head(blocks))
  BY SoundsTail DEF SoundInv, Unheard
<1>2. Sounds(Tail(blocks)) = 0 /\ One(Head(blocks)) \in {0, 1}
  BY <1>1, NoSounds, OneOf
<1>3. Sounds(blocks) = One(Head(blocks))
  BY <1>1, <1>2
<1>4. h.active = heard.active + One(Head(blocks))
  BY <1>1, FedHeard
<1> QED
  BY <1>1, <1>3, <1>4 DEF SoundInv

LEMMA PcmTaken ==
  ASSUME SoundInv, TakePcm
  PROVE  SoundInv' /\ (taken' = taken \/ Whole(taken'))
<1> DEFINE h == Fed(Head(blocks))
<1>1. path = "pcm" /\ now < limit /\ ~Cancelled /\ blocks # <<>>
  BY DEF TakePcm
<1>2. CASE Ready(h) /\ Unheard(Tail(blocks))
  <2>1. EndPcm(h, FALSE)
    BY <1>2 DEF TakePcm
  <2>2. ~overflow => h.active = spoken
    BY <1>1, <1>2, LastBlock
  <2> QED
    BY <2>1, <2>2, PcmWhole
<1>3. CASE ~(Ready(h) /\ Unheard(Tail(blocks)))
  <2>1. /\ heard' = h /\ blocks' = Tail(blocks)
        /\ limit' = IF h.active = 1 /\ heard.active = 0 THEN Backdated(h) ELSE limit
        /\ UNCHANGED <<flags, path, now, overflow, words, spoken, denied, taken>>
    BY <1>3 DEF TakePcm
  <2>2. SoundInv'
    BY <1>1, <2>1, TakesSound DEF flags
  <2> QED
    BY <2>1, <2>2
<1> QED
  BY <1>2, <1>3

LEMMA PcmEnded ==
  ASSUME SoundInv, PcmEnds
  PROVE  SoundInv' /\ Whole(taken')
<1>1. EndPcm(heard, TRUE) /\ path = "pcm" /\ (~Cancelled => now >= limit)
  BY DEF PcmEnds
<1>2. heard.active > 0 /\ ~Cancelled => now - heard.first >= Most
  <2>1. heard.active \in Nat /\ heard.first \in Nat /\ now \in Nat /\ limit \in Nat
    BY CaptureAssumption DEF SoundInv, Horizon
  <2>2. heard.active > 0 => limit >= heard.first + Most
    BY <1>1, <2>1 DEF SoundInv
  <2>3. Most \in Nat
    BY CaptureAssumption
  <2> QED
    BY <1>1, <2>1, <2>2, <2>3
<1> QED
  BY <1>1, <1>2, PcmWhole

LEMMA AdaptiveTaken ==
  ASSUME SoundInv, TakeAdaptive
  PROVE  SoundInv' /\ (taken' = taken \/ Whole(taken'))
<1>1. path = "adaptive" /\ blocks # <<>>
  BY DEF TakeAdaptive
<1> DEFINE h == Fed(Head(blocks))
<1>2. PICK w, over :
        /\ over \in BOOLEAN
        /\ IF over /\ Unheard(Tail(blocks))
           THEN \E last \in Texts : Finish(h, Combined(w.segment, last), "quiet", Tail(blocks))
           ELSE /\ heard' = h /\ blocks' = Tail(blocks) /\ words' = w
                /\ UNCHANGED <<flags, path, now, overflow, limit, spoken, denied, taken>>
  <2>1. PICK final \in BOOLEAN, text \in Texts, same \in BOOLEAN :
          LET sound == Head(blocks)
              judged == Judged(h, Decoded(final, text, same, h))
          IN IF /\ judged.over /\ ~(judged.words.native # None /\ sound)
                /\ SpeechObserved /\ Unheard(Tail(blocks))
             THEN \E last \in Texts :
                    Finish(h, Combined(judged.words.segment, last), "quiet", Tail(blocks))
             ELSE /\ heard' = h /\ blocks' = Tail(blocks) /\ words' = judged.words
                  /\ UNCHANGED <<flags, path, now, overflow, limit, spoken, denied, taken>>
    BY ZenonT(60) DEF TakeAdaptive
  <2> DEFINE judged == Judged(h, Decoded(final, text, same, h))
             over == judged.over /\ ~(judged.words.native # None /\ Head(blocks)) /\ SpeechObserved
  <2>2. over \in BOOLEAN
    BY Zenon
  <2>3. IF over /\ Unheard(Tail(blocks))
        THEN \E last \in Texts :
               Finish(h, Combined(judged.words.segment, last), "quiet", Tail(blocks))
        ELSE /\ heard' = h /\ blocks' = Tail(blocks) /\ words' = judged.words
             /\ UNCHANGED <<flags, path, now, overflow, limit, spoken, denied, taken>>
    BY <2>1
  <2> HIDE DEF over, judged, h
  <2> QED
    BY <2>2, <2>3
<1>3. CASE over /\ Unheard(Tail(blocks))
  <2>1. PICK last \in Texts : Finish(h, Combined(w.segment, last), "quiet", Tail(blocks))
    BY <1>2, <1>3
  <2>2. ~overflow
    BY <1>1 DEF SoundInv
  <2>3. h.active = spoken /\ Tail(blocks) = <<>>
    BY <1>1, <1>3, <2>2, LastBlock
  <2> HIDE DEF h
  <2>4. path \in Paths \ {"pcm"}
    BY <1>1 DEF Paths
  <2> QED
    BY <2>1, <2>3, <2>4, FinishWhole
<1>4. CASE ~(over /\ Unheard(Tail(blocks)))
  <2>1. /\ heard' = h /\ blocks' = Tail(blocks)
        /\ UNCHANGED <<flags, path, now, overflow, limit, spoken, denied, taken>>
    BY <1>2, <1>4
  <2>2. SoundInv'
    BY <1>1, <2>1, TakesSound DEF flags
  <2> QED
    BY <2>1, <2>2
<1> QED
  BY <1>3, <1>4

\* The loops that Vosk ends by itself.
LEMMA PartialTaken ==
  ASSUME SoundInv, TakePartial
  PROVE  SoundInv' /\ (taken' = taken \/ Whole(taken'))
<1>1. path \in Paths \ {"pcm"} /\ blocks # <<>>
  BY DEF TakePartial, Paths
<1> DEFINE h == Fed(Head(blocks))
           goesOn == /\ heard' = h /\ blocks' = Tail(blocks)
                     /\ UNCHANGED <<flags, path, now, overflow, limit, spoken, taken>>
<1>2. (Unheard(Tail(blocks)) /\ \E all : Finish(h, all, "flushed", Tail(blocks))) \/ goesOn
  <2>1. PICK text \in Texts, same \in BOOLEAN :
          \/ /\ Unheard(Tail(blocks))
             /\ \E last \in Texts :
                  Finish(h, IF Conflict(text, last) THEN "" ELSE last, "flushed", Tail(blocks))
          \/ /\ heard' = h /\ blocks' = Tail(blocks)
             /\ UNCHANGED <<flags, path, now, overflow, limit, spoken, taken>>
    BY DEF TakePartial
  <2> HIDE DEF h
  <2> QED
    BY <2>1
<1>3. CASE Unheard(Tail(blocks)) /\ \E all : Finish(h, all, "flushed", Tail(blocks))
  <2>1. PICK all : Finish(h, all, "flushed", Tail(blocks))
    BY <1>3
  <2>2. ~overflow
    BY <1>1 DEF SoundInv
  <2>3. h.active = spoken /\ Tail(blocks) = <<>>
    BY <1>1, <1>3, <2>2, LastBlock
  <2> HIDE DEF h
  <2> QED
    BY <1>1, <2>1, <2>3, FinishWhole
<1>4. CASE goesOn
  <2>1. SoundInv'
    BY <1>1, <1>4, TakesSound DEF flags
  <2> QED
    BY <1>4, <2>1
<1> QED
  BY <1>2, <1>3, <1>4

LEMMA OthersEnded ==
  ASSUME SoundInv, HoldEnds \/ TakeNative \/ VoskTimeout \/ VoskStopped
  PROVE  SoundInv' /\ Whole(taken')
<1>1. CASE HoldEnds
  <2>1. path \in Paths \ {"pcm"} /\ \E text : Finish(heard, text, "held", blocks)
    BY <1>1 DEF HoldEnds, Paths
  <2> QED
    BY <2>1, FinishWhole
<1>2. CASE TakeNative
  <2>1. /\ path \in Paths \ {"pcm"} /\ path # "adaptive"
        /\ \E text, h, rest : Finish(h, text, "native", rest)
    BY <1>2 DEF TakeNative, Paths
  <2> QED
    BY <2>1, FinishWhole
<1>3. CASE VoskTimeout
  <2>1. /\ path \in Paths \ {"pcm"}
        /\ (\E text : Finish(heard, text, "timeout", blocks)) \/ Finish(heard, "", "noise", blocks)
    BY <1>3 DEF VoskTimeout
  <2>2. CASE \E text : Finish(heard, text, "timeout", blocks)
    BY <2>1, <2>2, FinishWhole
  <2>3. CASE Finish(heard, "", "noise", blocks)
    <3> DEFINE nothing == ""
    <3>1. nothing = "" /\ Finish(heard, nothing, "noise", blocks)
      BY <2>3, Zenon
    <3> HIDE DEF nothing
    <3> QED
      BY <2>1, <3>1, FinishWhole
  <2> QED
    BY <2>1, <2>2, <2>3
<1>4. CASE VoskStopped
  <2> DEFINE nothing == ""
  <2>1. /\ path \in Paths \ {"pcm"}
        /\ nothing = "" /\ Finish(heard, nothing, "interrupted", blocks)
    BY <1>4, Zenon DEF VoskStopped
  <2> HIDE DEF nothing
  <2> QED
    BY <2>1, FinishWhole
<1> QED
  BY <1>1, <1>2, <1>3, <1>4

LEMMA DeviceLost ==
  ASSUME SoundInv, DeviceFails
  PROVE  SoundInv' /\ Whole(taken')
<1> DEFINE r == [path |-> path, text |-> "", denied |-> denied, cut |-> FALSE, kind |-> "failed",
                 length |-> 0, all |-> TRUE]
<1>1. Over(r)
  BY DEF DeviceFails
<1>2. Whole(r)
  BY DEF Whole
<1> HIDE DEF r
<1> QED
  BY <1>1, <1>2, EndsSound

LEMMA BlockArrived ==
  ASSUME SoundInv, NEW b \in BOOLEAN \cup {None}, BlockArrives(b)
  PROVE  SoundInv' /\ taken' = taken
<1>1. /\ now' = now + 1 /\ now < Horizon /\ taken' = taken /\ path' = path /\ path # "none"
      /\ heard' = heard /\ limit' = limit
      /\ interrupt' = interrupt /\ paused' = paused /\ closed' = closed
  BY DEF BlockArrives, flags
<1>2. /\ now \in Nat /\ now' \in 0..Horizon /\ spoken \in Nat /\ spoken <= now
      /\ heard.processed \in Nat /\ heard.active \in Nat /\ heard.first \in Nat
      /\ heard.processed + Len(blocks) <= now /\ blocks \in Seq(BOOLEAN) /\ Len(blocks) \in Nat
  <2>1. now \in 0..Horizon /\ Horizon \in Nat /\ spoken \in 0..now /\ blocks \in Seq(BOOLEAN)
        /\ heard.processed + Len(blocks) <= now
        /\ heard \in [first : Nat, last : Nat, active : Nat, processed : Nat]
    BY CaptureAssumption DEF SoundInv, Horizon
  <2>2. Len(blocks) \in Nat
    BY <2>1, LenProperties
  <2> QED
    BY <1>1, <2>1, <2>2
<1>3. /\ spoken' \in 0..now' /\ overflow' \in BOOLEAN /\ blocks' \in Seq(BOOLEAN)
      /\ heard.processed + Len(blocks') <= now' /\ (path # "pcm" => ~overflow')
      /\ overflow' \/ heard.active + Sounds(blocks') = spoken'
  <2>1. CASE blocks' = blocks /\ overflow' = overflow /\ spoken' = spoken
    BY <1>1, <1>2, <2>1 DEF SoundInv
  <2>2. CASE b # None /\ path = "pcm" /\ overflow' = TRUE /\ blocks' = blocks
             /\ (spoken' = spoken \/ spoken' = spoken + 1)
    BY <1>1, <1>2, <2>2
  <2>3. CASE b \in BOOLEAN /\ blocks' = Append(blocks, b) /\ overflow' = overflow
             /\ spoken' = spoken + One(b)
    <3>1. /\ blocks' \in Seq(BOOLEAN) /\ Len(blocks') = Len(blocks) + 1
          /\ Sounds(blocks') = Sounds(blocks) + One(b)
      BY <1>2, <2>3, SoundsAppend
    <3>2. Sounds(blocks) \in Nat /\ One(b) \in {0, 1}
      BY <1>2, <2>3, SoundsCounted, OneOf
    <3>3. overflow \/ heard.active + Sounds(blocks) = spoken
      BY DEF SoundInv
    <3>4. overflow' \/ heard.active + Sounds(blocks') = spoken'
      BY <1>2, <2>3, <3>1, <3>2, <3>3
    <3>5. heard.processed + Len(blocks') <= now' /\ spoken' \in 0..now'
      BY <1>1, <1>2, <2>3, <3>1, <3>2
    <3> QED
      BY <2>3, <3>1, <3>4, <3>5 DEF SoundInv
  <2>4. CASE b = None
    BY <2>1, <2>4 DEF BlockArrives
  <2>5. CASE b # None
    <3>1. b \in BOOLEAN /\ spoken' = spoken + One(b) /\ (spoken' = spoken \/ spoken' = spoken + 1)
      <4>1. b \in BOOLEAN /\ spoken' = IF b THEN spoken + 1 ELSE spoken
        BY <2>5 DEF BlockArrives
      <4>2. CASE b
        BY <1>2, <4>1, <4>2, OneOf
      <4>3. CASE ~b
        BY <1>2, <4>1, <4>3, OneOf
      <4> QED
        BY <4>1, <4>2, <4>3
    <3>2. \/ path = "pcm" /\ overflow' = TRUE /\ blocks' = blocks
          \/ blocks' = Append(blocks, b) /\ overflow' = overflow
      BY <2>5 DEF BlockArrives
    <3> QED
      BY <2>2, <2>3, <2>5, <3>1, <3>2
  <2> QED
    BY <2>4, <2>5
<1>4. path' = "pcm" => IF heard'.active = 0 THEN limit' = Wait ELSE limit' >= heard'.first + Most
  BY <1>1 DEF SoundInv
<1>5. /\ path' \in Paths \cup {"none"} /\ limit' \in 0..(Wait + Most)
      /\ heard' \in [first : Nat, last : Nat, active : Nat, processed : Nat]
      /\ heard'.active <= heard'.processed
      /\ interrupt' \in BOOLEAN /\ paused' \in BOOLEAN /\ closed' \in BOOLEAN
  BY <1>1 DEF SoundInv
<1> QED
  BY <1>1, <1>2, <1>3, <1>4, <1>5 DEF SoundInv

\* A turn of any loop keeps account of the sound, and gives back whole recordings.
LEMMA CaptureGoesOn ==
  ASSUME SoundInv, CaptureNext
  PROVE  SoundInv' /\ (taken' = taken \/ Whole(taken'))
<1>1. CASE TakePcm
  BY <1>1, PcmTaken
<1>2. CASE PcmEnds
  BY <1>2, PcmEnded
<1>3. CASE TakeAdaptive
  BY <1>3, AdaptiveTaken
<1>4. CASE TakePartial
  BY <1>4, PartialTaken
<1>5. CASE HoldEnds \/ TakeNative \/ VoskTimeout \/ VoskStopped
  BY <1>5, OthersEnded
<1>6. CASE DeviceFails
  BY <1>6, DeviceLost
<1>7. CASE \E b \in BOOLEAN \cup {None} : BlockArrives(b)
  BY <1>7, BlockArrived
<1> QED
  BY <1>1, <1>2, <1>3, <1>4, <1>5, <1>6, <1>7 DEF CaptureNext, CaptureStep

\* A recording made in one step is one of those that a loop would have made.
LEMMA BriefWhole ==
  ASSUME SoundInv, RecordBriefly
  PROVE  SoundInv' /\ Whole(taken')
<1>1. PICK r \in Results(path) : Over(r)
  BY DEF RecordBriefly
<1> DEFINE kinds == IF Cancelled THEN {"interrupted"}
                    ELSE IF path = "pcm" THEN {"limit", "silence"} ELSE {"native", "noise"}
           texts == IF path = "pcm" THEN {"", "speech"} ELSE {"", "open", "whole"}
           lost == [path |-> path, kind |-> "failed", text |-> "", cut |-> FALSE, denied |-> FALSE,
                    length |-> 0, all |-> TRUE]
           recordings == [path : {path}, kind : kinds, text : texts, cut : BOOLEAN,
                          denied : {FALSE}, length : {Most}, all : {TRUE}]
<1>2. r \in {lost} \cup recordings
  <2>1. Results(path) \subseteq {lost} \cup recordings
    <3> HIDE DEF kinds, texts
    <3> QED
      BY DEF Results, kinds, texts
  <2> QED
    BY <2>1
<1>3. lost.text = "" /\ lost.kind = "failed"
  OBVIOUS
<1>4. \A rec \in recordings : rec.length = Most /\ rec.all = TRUE
  <2> HIDE DEF kinds, texts
  <2> QED
    OBVIOUS
<1> HIDE DEF lost, recordings
<1>5. r.text = "" \/ (r.length = Most /\ r.all = TRUE)
  BY <1>2, <1>3, <1>4
<1>6. Most >= Most
  BY CaptureAssumption
<1>7. Whole(r)
  <2>1. r.all = TRUE => r.all
    OBVIOUS
  <2> QED
    BY <1>5, <1>6, <2>1 DEF Whole
<1> QED
  BY <1>1, <1>7, EndsSound

LEMMA SoundStays ==
  ASSUME SoundInv, UNCHANGED device,
         interrupt' \in BOOLEAN, paused' \in BOOLEAN, closed' \in BOOLEAN
  PROVE  SoundInv'
BY DEF SoundInv, device

LEMMA LoopsHavePaths == \A x, p : <<x, p>> \in Loops => p \in Paths /\ x \in Profiles
BY DEF Loops, Paths, Profiles

LEMMA ListensAlongPaths ==
  ASSUME ListenInv, listen.at # "none"
  PROVE  listen.path \in Paths
BY LoopsHavePaths DEF ListenInv

\* Every step keeps account of the sound, and what is handed on is whole.
LEMMA SoundGoesOn ==
  ASSUME SoundInv, ListenInv, Next
  PROVE  SoundInv' /\ (taken' = taken \/ taken' = None \/ Whole(taken'))
<1> USE DEF flags, recording
<1>1. CASE Begin
  <2>1. listen.at = "called" /\ interrupt' = FALSE /\ UNCHANGED <<paused, closed>>
        /\ ((UNCHANGED device /\ taken' = None) \/ Open(listen.path))
    BY <1>1 DEF Begin, Return
  <2>2. listen.path \in Paths
    BY <2>1, ListensAlongPaths
  <2>3. interrupt' \in BOOLEAN /\ paused' \in BOOLEAN /\ closed' \in BOOLEAN
    BY <2>1 DEF SoundInv
  <2> QED
    BY <2>1, <2>2, <2>3, SoundStays, BeginsSound
<1>2. CASE Record
  BY <1>2, CaptureGoesOn DEF Record
<1>3. CASE RecordBriefly
  BY <1>3, BriefWhole
<1>4. CASE DeviceFailed
  <2>1. listen.at = "recording" /\ UNCHANGED <<interrupt, paused, closed>>
        /\ ((UNCHANGED device /\ taken' = None) \/ Open(listen.path))
    BY <1>4 DEF DeviceFailed, Return
  <2>2. listen.path \in Paths
    BY <2>1, ListensAlongPaths
  <2>3. interrupt' \in BOOLEAN /\ paused' \in BOOLEAN /\ closed' \in BOOLEAN
    BY <2>1 DEF SoundInv
  <2> QED
    BY <2>1, <2>2, <2>3, SoundStays, BeginsSound
<1>5. CASE UNCHANGED device /\ (taken' = taken \/ taken' = None)
           /\ interrupt' \in BOOLEAN /\ paused' \in BOOLEAN /\ closed' \in BOOLEAN
  BY <1>5, SoundStays
<1>6. interrupt \in BOOLEAN /\ paused \in BOOLEAN /\ closed \in BOOLEAN
  BY DEF SoundInv
<1>7. CASE UNCHANGED <<flags, device>> /\ (taken' = taken \/ taken' = None)
  BY <1>5, <1>6, <1>7
<1>8. CASE VoskReturns \/ RefinementBegins \/ RecognitionBegins \/ Decides
  <2>1. CASE VoskReturns
    BY <1>7, <2>1 DEF VoskReturns, Return
  <2>2. CASE RefinementBegins
    BY <1>7, <2>2 DEF RefinementBegins, Return
  <2>3. CASE RecognitionBegins
    BY <1>7, <2>3 DEF RecognitionBegins, Return
  <2>4. CASE Decides
    BY <1>7, <2>4 DEF Decides, Return
  <2> QED
    BY <1>8, <2>1, <2>2, <2>3, <2>4
<1>9. CASE BreaksOff \/ Shutdown \/ CloseListener
  BY <1>5, <1>6, <1>9 DEF BreaksOff, Shutdown, CloseListener, device
<1>10. CASE \E on \in BOOLEAN : SwitchMicrophone(on)
  <2>1. PICK on \in BOOLEAN : SwitchMicrophone(on)
    BY <1>10
  <2>2. UNCHANGED <<closed, recording>> /\ paused' = ~on /\ interrupt' = (interrupt \/ ~on)
    BY <2>1 DEF SwitchMicrophone
  <2> QED
    BY <1>5, <1>6, <2>2 DEF device
<1>11. CASE \/ (\E p \in Paths : Listen(p)) \/ Delivers \/ CloseRecognizer \/ Waited
            \/ (\E t \in Jobs : Asks(t) \/ JobEnds(t)) \/ Prepare \/ Process
  <2>1. UNCHANGED <<flags, recording>>
    BY <1>11 DEF Listen, Delivers, CloseRecognizer, Waited, Asks, JobEnds, Prepare, Process
  <2> QED
    BY <1>7, <2>1 DEF device
<1> QED
  BY <1>1, <1>2, <1>3, <1>4, <1>8, <1>9, <1>10, <1>11 DEF Next, ListenThread

-----------------------------------------------------------------------------
(* The threads at the recogniser's pipe *)

Within == {"state", "send", "poll"}
Pipes ==
  /\ call \in [Callers -> [at : Statements, pipe : BOOLEAN]] /\ DOMAIN answer = Callers
  /\ resting \in BOOLEAN /\ ended \in BOOLEAN /\ closing \in {"no", "ended", "over"}
  /\ active \in Jobs \cup {None} /\ profile \in Profiles
  /\ ClosedForGood /\ PipeInv
  /\ \A t \in Jobs : call[t].at # "out" \/ answer[t] # Nobody => active = t

LEMMA JobsAreCallers == Jobs \subseteq Callers /\ Preparer \in Callers /\ Preparer \notin Jobs
BY ProcessAssumption DEF Callers

LEMMA OneAtThePipe ==
  ASSUME Pipes
  PROVE  OneJobAtATime
<1> DEFINE S == {t \in Callers : call[t].at \in Within}
<1>1. \A t, u \in S : t = u
  <2> SUFFICES ASSUME NEW t \in S, NEW u \in S PROVE t = u
    OBVIOUS
  <2>1. t \in Callers /\ u \in Callers /\ {call[t].at, call[u].at} \subseteq Within
    OBVIOUS
  <2> QED
    BY <2>1 DEF Pipes, PipeInv, Within
<1>2. Cardinality(S) <= 1
  <2> HIDE DEF S
  <2>1. CASE S = {}
    BY <2>1, FS_EmptySet
  <2>2. CASE S # {}
    <3>1. PICK x : x \in S
      BY <2>2
    <3>2. S = {x}
      BY <1>1, <3>1
    <3> QED
      BY <3>2, FS_Singleton
  <2> QED
    BY <2>1, <2>2
<1> QED
  BY <1>2 DEF Pipes, OneJobAtATime, Within

\* One thread goes on: a job of which it is the one, and into the lock when that is free.
LEMMA PipeMoves ==
  ASSUME Pipes, NEW t \in Callers,
         call' \in [Callers -> [at : Statements, pipe : BOOLEAN]], DOMAIN answer' = Callers,
         \A u \in Callers \ {t} : call'[u].at = call[u].at /\ answer'[u] = answer[u],
         answer'[t] # Nobody => call'[t].at = "out",
         t \in Jobs => active = t /\ profile # "groq",
         call'[t].at \in Within => call[t].at \in Within \/ ~Locked,
         active' = active, profile' = profile, resting' \in BOOLEAN,
         ended' = ended, closing' = closing, closing = "over" => child' = Nobody
  PROVE  Pipes'
<1>1. \A u, v \in Callers : call'[u].at \in Within /\ call'[v].at \in Within => u = v
  <2> SUFFICES ASSUME NEW u \in Callers, NEW v \in Callers, u # v,
                      call'[u].at \in Within, call'[v].at \in Within
               PROVE  FALSE
    OBVIOUS
  <2>1. \A x, y \in Callers : call[x].at \in Within /\ call[y].at \in Within => x = y
    BY DEF Pipes, PipeInv, Within
  <2>2. \A x \in Callers \ {t} : call'[x].at = call[x].at
    OBVIOUS
  <2>3. CASE u # t /\ v # t
    BY <2>1, <2>2, <2>3
  <2>4. CASE u = t
    BY <2>1, <2>2, <2>4 DEF Locked, Within
  <2>5. CASE v = t
    BY <2>1, <2>2, <2>5 DEF Locked, Within
  <2> QED
    BY <2>3, <2>4, <2>5
<1>2. \A u \in Callers : answer'[u] # Nobody => call'[u].at = "out"
  BY DEF Pipes, PipeInv
<1>3. \A u \in Jobs : call'[u].at # "out" \/ answer'[u] # Nobody => active' = u
  BY JobsAreCallers DEF Pipes
<1>4. profile' = "groq" => \A u \in Jobs : call'[u].at = "out" /\ answer'[u] = Nobody
  BY JobsAreCallers DEF Pipes, PipeInv
<1>5. (closing' # "no" => ended') /\ ClosedForGood'
  BY DEF Pipes, PipeInv, ClosedForGood
<1>6. \A u, v \in Callers : {call'[u].at, call'[v].at} \subseteq Within => u = v
  BY <1>1
<1> QED
  BY <1>2, <1>3, <1>4, <1>5, <1>6 DEF Pipes, PipeInv, Within

\* What a step does to the entry of one thread.
LEMMA EntryOf ==
  ASSUME Pipes, NEW t \in Callers
  PROVE  /\ call[t].at \in Statements /\ call[t].pipe \in BOOLEAN
         /\ \A s \in Statements : Goes(t, s) =>
              /\ call' \in [Callers -> [at : Statements, pipe : BOOLEAN]] /\ call'[t].at = s
              /\ \A u \in Callers \ {t} : call'[u].at = call[u].at
         /\ \A r \in [at : Statements, pipe : BOOLEAN] : call' = [call EXCEPT ![t] = r] =>
              /\ call' \in [Callers -> [at : Statements, pipe : BOOLEAN]] /\ call'[t].at = r.at
              /\ \A u \in Callers \ {t} : call'[u].at = call[u].at
         /\ \A a : answer' = [answer EXCEPT ![t] = a] =>
              /\ DOMAIN answer' = Callers /\ answer'[t] = a
              /\ \A u \in Callers \ {t} : answer'[u] = answer[u]
<1>1. call \in [Callers -> [at : Statements, pipe : BOOLEAN]] /\ DOMAIN answer = Callers
  BY DEF Pipes
<1>2. call[t] \in [at : Statements, pipe : BOOLEAN]
  BY <1>1
<1>3. ASSUME NEW s \in Statements, Goes(t, s)
      PROVE  /\ call' \in [Callers -> [at : Statements, pipe : BOOLEAN]] /\ call'[t].at = s
             /\ \A u \in Callers \ {t} : call'[u].at = call[u].at
  <2>1. [call[t] EXCEPT !.at = s] \in [at : Statements, pipe : BOOLEAN]
        /\ [call[t] EXCEPT !.at = s].at = s
    BY <1>2
  <2>2. call' = [call EXCEPT ![t] = [call[t] EXCEPT !.at = s]]
    BY <1>3 DEF Goes
  <2> QED
    BY <1>1, <2>1, <2>2
<1>4. ASSUME NEW r \in [at : Statements, pipe : BOOLEAN], call' = [call EXCEPT ![t] = r]
      PROVE  /\ call' \in [Callers -> [at : Statements, pipe : BOOLEAN]] /\ call'[t].at = r.at
             /\ \A u \in Callers \ {t} : call'[u].at = call[u].at
  BY <1>1, <1>4
<1>5. ASSUME NEW a, answer' = [answer EXCEPT ![t] = a]
      PROVE  /\ DOMAIN answer' = Callers /\ answer'[t] = a
             /\ \A u \in Callers \ {t} : answer'[u] = answer[u]
  BY <1>1, <1>5
<1> QED
  BY <1>2, <1>3, <1>4, <1>5

\* A thread that is not out is that of the one job, unless it prepares.
LEMMA WhoAsks ==
  ASSUME Pipes, NEW t \in Callers, call[t].at # "out"
  PROVE  answer[t] = Nobody /\ (t \in Jobs => active = t /\ profile # "groq")
BY DEF Pipes, PipeInv

LEMMA OutEntry == Out \in [at : Statements, pipe : BOOLEAN] /\ Out.at = "out"
BY DEF Out, Statements

\* Each step of a thread at the pipe.
LEMMA CallerMoves ==
  ASSUME Pipes, NEW t \in Callers, Caller(t), active' = active, profile' = profile
  PROVE  Pipes'
<1> DEFINE Entries == [at : Statements, pipe : BOOLEAN]
<1>0. /\ resting \in BOOLEAN /\ DOMAIN answer = Callers /\ call \in [Callers -> Entries]
      /\ (closing = "over" => child = Nobody)
      /\ (closing = "over" => ended)
  BY DEF Pipes, ClosedForGood, PipeInv
<1>1. CASE Lock(t)
  <2>1. call[t].at = "lock" /\ ~Locked /\ Goes(t, "state")
        /\ UNCHANGED <<answer, child, decoder, resting, ended, closing>>
    BY <1>1 DEF Lock, At
  <2>2. call' \in [Callers -> Entries] /\ call'[t].at = "state"
        /\ \A u \in Callers \ {t} : call'[u].at = call[u].at
    BY <2>1, EntryOf DEF Statements
  <2>3. answer[t] = Nobody /\ (t \in Jobs => active = t /\ profile # "groq")
    BY <2>1, WhoAsks
  <2> QED
    BY <1>0, <2>1, <2>2, <2>3, PipeMoves
<1>2. CASE Spawn(t)
  <2>1. /\ call[t].at = "state" /\ UNCHANGED <<answer, resting, ended, closing>>
        /\ \/ Goes(t, "failed") /\ child' = child
           \/ ~ended /\ \E r \in Entries : call' = [call EXCEPT ![t] = r]
    <3>1. CASE ~MaySpawn
      BY <1>2, <3>1 DEF Spawn, At
    <3>2. CASE MaySpawn /\ child = Nobody
      <4>1. PICK started \in BOOLEAN :
              call' = [call EXCEPT ![t] = [at |-> IF started THEN "send" ELSE "failed",
                                           pipe |-> started]]
        BY <1>2, <3>2 DEF Spawn
      <4>2. [at |-> IF started THEN "send" ELSE "failed", pipe |-> started] \in Entries
        BY DEF Statements
      <4> QED
        BY <1>2, <3>2, <4>1, <4>2 DEF Spawn, At, MaySpawn
    <3>3. CASE MaySpawn /\ child # Nobody
      <4>1. [at |-> "send", pipe |-> TRUE] \in Entries
        BY DEF Statements
      <4>2. call' = [call EXCEPT ![t] = [at |-> "send", pipe |-> TRUE]]
        BY <1>2, <3>3 DEF Spawn
      <4> QED
        BY <1>2, <3>3, <4>1, <4>2 DEF Spawn, At, MaySpawn
    <3> QED
      BY <3>1, <3>2, <3>3
  <2>2. answer[t] = Nobody /\ (t \in Jobs => active = t /\ profile # "groq")
    BY <2>1, WhoAsks
  <2>3. call' \in [Callers -> Entries] /\ \A u \in Callers \ {t} : call'[u].at = call[u].at
    BY <2>1, EntryOf DEF Statements
  <2>4. closing = "over" => child' = Nobody
    BY <1>0, <2>1
  <2>5. call[t].at \in Within
    BY <2>1 DEF Within
  <2> QED
    BY <1>0, <2>1, <2>2, <2>3, <2>4, <2>5, PipeMoves
<1>3. CASE Send(t)
  <2>1. /\ call[t].at = "send" /\ UNCHANGED <<answer, resting, ended, closing>>
        /\ \E s \in Statements : Goes(t, s)
        /\ child' = child \/ child # Nobody
    BY <1>3 DEF Send, At, Broken, Statements
  <2>2. answer[t] = Nobody /\ (t \in Jobs => active = t /\ profile # "groq")
    BY <2>1, WhoAsks
  <2>3. call' \in [Callers -> Entries] /\ \A u \in Callers \ {t} : call'[u].at = call[u].at
    BY <2>1, EntryOf
  <2>4. call[t].at \in Within
    BY <2>1 DEF Within
  <2> QED
    BY <1>0, <2>1, <2>2, <2>3, <2>4, PipeMoves
<1>4. CASE Receive(t)
  <2>1. /\ call[t].at = "poll" /\ UNCHANGED <<resting, ended, closing>> /\ child # Nobody
        /\ call' = [call EXCEPT ![t] = Out] /\ \E a : answer' = [answer EXCEPT ![t] = a]
    BY <1>4 DEF Receive, At, Returns
  <2>2. t \in Jobs => active = t /\ profile # "groq"
    BY <2>1, WhoAsks
  <2>3. call' \in [Callers -> Entries] /\ call'[t].at = "out"
        /\ \A u \in Callers \ {t} : call'[u].at = call[u].at
    BY <2>1, EntryOf, OutEntry
  <2>4. DOMAIN answer' = Callers /\ \A u \in Callers \ {t} : answer'[u] = answer[u]
    BY <2>1, EntryOf
  <2> QED
    BY <1>0, <2>1, <2>2, <2>3, <2>4, PipeMoves DEF Within
<1>5. CASE GivesUp(t)
  <2>1. /\ call[t].at = "poll" /\ UNCHANGED <<answer, child, resting, ended, closing>>
        /\ Goes(t, "failed")
    BY <1>5 DEF GivesUp, At
  <2>2. answer[t] = Nobody /\ (t \in Jobs => active = t /\ profile # "groq")
    BY <2>1, WhoAsks
  <2>3. call' \in [Callers -> Entries] /\ call'[t].at = "failed"
        /\ \A u \in Callers \ {t} : call'[u].at = call[u].at
    BY <2>1, EntryOf DEF Statements
  <2> QED
    BY <1>0, <2>1, <2>2, <2>3, PipeMoves DEF Within
<1>6. CASE Failed(t)
  <2>1. /\ call[t].at = "failed" /\ UNCHANGED <<ended, closing>> /\ resting' = TRUE
        /\ child' = Nobody /\ answer' = [answer EXCEPT ![t] = Empty]
        /\ call' = [c \in Callers |-> [at |-> IF c = t THEN "out" ELSE call[c].at, pipe |-> FALSE]]
    BY <1>6 DEF Failed, At, Terminate
  <2>2. t \in Jobs => active = t /\ profile # "groq"
    BY <2>1, WhoAsks
  <2>3. call' \in [Callers -> Entries] /\ call'[t].at = "out"
        /\ \A u \in Callers \ {t} : call'[u].at = call[u].at
    BY <1>0, <2>1 DEF Statements
  <2>4. DOMAIN answer' = Callers /\ \A u \in Callers \ {t} : answer'[u] = answer[u]
    BY <2>1, EntryOf
  <2> QED
    BY <2>1, <2>2, <2>3, <2>4, PipeMoves DEF Within
<1> QED
  BY <1>1, <1>2, <1>3, <1>4, <1>5, <1>6 DEF Caller

\* A thread begins to ask: the one job, or the preparation.
LEMMA RequestMoves ==
  ASSUME Pipes, NEW t \in Callers, Request(t), active' = active, profile' = profile,
         t \in Jobs => active = t /\ profile # "groq"
  PROVE  Pipes'
<1>1. /\ call[t].at = "out" /\ answer[t] = Nobody
      /\ UNCHANGED <<child, decoder, resting, ended, closing>>
  BY DEF Request, At
<1>2. \/ Goes(t, "lock") /\ answer' = answer
      \/ call' = [call EXCEPT ![t] = Out] /\ \E a : answer' = [answer EXCEPT ![t] = a]
  BY DEF Request, Returns
<1>3. /\ resting \in BOOLEAN /\ DOMAIN answer = Callers /\ (closing = "over" => child = Nobody)
  BY DEF Pipes, ClosedForGood
<1>4. CASE Goes(t, "lock") /\ answer' = answer
  <2>1. /\ call' \in [Callers -> [at : Statements, pipe : BOOLEAN]] /\ call'[t].at = "lock"
        /\ \A u \in Callers \ {t} : call'[u].at = call[u].at
    BY <1>4, EntryOf DEF Statements
  <2> QED
    BY <1>1, <1>3, <1>4, <2>1, PipeMoves DEF Within
<1>5. CASE call' = [call EXCEPT ![t] = Out] /\ \E a : answer' = [answer EXCEPT ![t] = a]
  <2>1. /\ call' \in [Callers -> [at : Statements, pipe : BOOLEAN]] /\ call'[t].at = "out"
        /\ \A u \in Callers \ {t} : call'[u].at = call[u].at
    BY <1>5, EntryOf, OutEntry
  <2>2. DOMAIN answer' = Callers /\ \A u \in Callers \ {t} : answer'[u] = answer[u]
    BY <1>5, EntryOf
  <2> QED
    BY <1>1, <1>3, <2>1, <2>2, PipeMoves DEF Within
<1> QED
  BY <1>2, <1>4, <1>5

\* What happens in the process, or on the clock.
LEMMA ProcessMoves ==
  ASSUME Pipes, Serve \/ Dies \/ Rested, active' = active, profile' = profile
  PROVE  Pipes'
<1>1. /\ UNCHANGED <<call, answer, ended, closing>> /\ (resting' = resting \/ resting' = FALSE)
      /\ (child' = child \/ child # Nobody)
  BY DEF Serve, Dies, Rested
<1>2. ClosedForGood' /\ resting' \in BOOLEAN
  BY <1>1 DEF Pipes, ClosedForGood
<1> QED
  BY <1>1, <1>2 DEF Pipes, PipeInv

LEMMA CloseMoves ==
  ASSUME Pipes, CloseBegins \/ CloseEnds, active' = active, profile' = profile
  PROVE  Pipes'
<1>1. call \in [Callers -> [at : Statements, pipe : BOOLEAN]] /\ ended \in BOOLEAN
      /\ resting \in BOOLEAN /\ DOMAIN answer = Callers /\ closing \in {"no", "ended", "over"}
      /\ active \in Jobs \cup {None} /\ profile \in Profiles
  BY DEF Pipes
<1>2. CASE CloseBegins
  <2>1. closing' = "ended" /\ ended' = TRUE /\ UNCHANGED <<call, answer, child, resting>>
    BY <1>2 DEF CloseBegins
  <2>2. ClosedForGood' /\ ended' \in BOOLEAN /\ closing' \in {"no", "ended", "over"}
    BY <2>1 DEF ClosedForGood
  <2> QED
    BY <1>1, <2>1, <2>2 DEF Pipes, PipeInv
<1>3. CASE CloseEnds
  <2>1. /\ closing = "ended" /\ closing' = "over" /\ child' = Nobody
        /\ UNCHANGED <<answer, resting, ended>>
        /\ call' = [c \in Callers |-> [call[c] EXCEPT !.pipe = FALSE]]
    BY <1>3 DEF CloseEnds, Terminate
  <2>2. \A c \in Callers : [call[c] EXCEPT !.pipe = FALSE] \in [at : Statements, pipe : BOOLEAN]
                           /\ [call[c] EXCEPT !.pipe = FALSE].at = call[c].at
    <3> SUFFICES ASSUME NEW c \in Callers
                 PROVE  /\ [call[c] EXCEPT !.pipe = FALSE] \in [at : Statements, pipe : BOOLEAN]
                        /\ [call[c] EXCEPT !.pipe = FALSE].at = call[c].at
      OBVIOUS
    <3>1. call[c] \in [at : Statements, pipe : BOOLEAN]
      BY <1>1
    <3> QED
      BY <3>1
  <2>3. call' \in [Callers -> [at : Statements, pipe : BOOLEAN]]
        /\ \A c \in Callers : call'[c].at = call[c].at
    BY <2>1, <2>2
  <2>4. ClosedForGood' /\ closing' \in {"no", "ended", "over"} /\ ended
    BY <2>1 DEF ClosedForGood, Pipes, PipeInv
  <2>5. \A u, v \in Callers : {call'[u].at, call'[v].at} \subseteq Within => u = v
    <3>1. \A u, v \in Callers : {call[u].at, call[v].at} \subseteq Within => u = v
      BY DEF Pipes, PipeInv, Within
    <3> QED
      BY <2>3, <3>1
  <2>6. /\ \A u \in Callers : answer'[u] # Nobody => call'[u].at = "out"
        /\ profile' = "groq" => \A u \in Jobs : call'[u].at = "out" /\ answer'[u] = Nobody
        /\ \A u \in Jobs : call'[u].at # "out" \/ answer'[u] # Nobody => active' = u
    BY <2>1, <2>3, JobsAreCallers DEF Pipes, PipeInv
  <2> QED
    BY <1>1, <2>1, <2>3, <2>4, <2>5, <2>6 DEF Pipes, PipeInv, Within
<1> QED
  BY <1>2, <1>3

\* A job begins while no other is under way, and ends with its answer taken.
LEMMA JobMoves ==
  ASSUME Pipes, UNCHANGED <<call, child, resting, ended, closing, profile>>,
         active' \in Jobs \cup {None},
         \/ active = None /\ answer' = answer
         \/ \E t \in Jobs : /\ active = t /\ active' = None
                            /\ \/ profile = "groq" /\ answer' = answer
                               \/ answer[t] # Nobody /\ answer' = [answer EXCEPT ![t] = Nobody]
  PROVE  Pipes'
<1>1. None \notin Jobs
  BY RecognitionAssumption
<1>2. /\ DOMAIN answer' = Callers
      /\ \A u \in Callers : answer'[u] # Nobody => answer[u] # Nobody
  <2>1. DOMAIN answer = Callers
    BY DEF Pipes
  <2>2. CASE answer' = answer
    BY <2>1, <2>2
  <2>3. CASE \E t \in Jobs : answer' = [answer EXCEPT ![t] = Nobody]
    BY <2>1, <2>3
  <2> QED
    BY <2>2, <2>3
<1>3. \A u \in Jobs : call[u].at = "out" /\ answer'[u] = Nobody
  <2> SUFFICES ASSUME NEW u \in Jobs PROVE call[u].at = "out" /\ answer'[u] = Nobody
    OBVIOUS
  <2>1. u \in Callers
    BY JobsAreCallers
  <2>2. CASE active = None
    BY <1>1, <1>2, <2>1, <2>2 DEF Pipes
  <2>3. CASE active # None
    <3>1. PICK t \in Jobs :
            /\ active = t /\ active' = None
            /\ \/ profile = "groq" /\ answer' = answer
               \/ answer[t] # Nobody /\ answer' = [answer EXCEPT ![t] = Nobody]
      BY <2>3
    <3>2. CASE profile = "groq"
      BY <1>2, <2>1, <3>2 DEF Pipes, PipeInv
    <3>3. CASE profile # "groq" /\ u # t
      BY <1>2, <2>1, <3>1, <3>3 DEF Pipes
    <3>4. CASE profile # "groq" /\ u = t
      <4>1. DOMAIN answer = Callers /\ answer[t] # Nobody
            /\ answer' = [answer EXCEPT ![t] = Nobody]
        BY <3>1, <3>4 DEF Pipes
      <4> QED
        BY <2>1, <3>4, <4>1 DEF Pipes, PipeInv
    <3> QED
      BY <3>2, <3>3, <3>4
  <2> QED
    BY <2>2, <2>3
<1>4. ClosedForGood'
  BY DEF Pipes, ClosedForGood
<1>5. \A u \in Callers : answer'[u] # Nobody => call'[u].at = "out"
  BY <1>2 DEF Pipes, PipeInv
<1> QED
  BY <1>2, <1>3, <1>4, <1>5 DEF Pipes, PipeInv

LEMMA PipesGoOn ==
  ASSUME Pipes, TypeOK, ListenInv, Next
  PROVE  Pipes'
<1>1. UNCHANGED profile
  BY DEF Next, Listen, BreaksOff, Delivers, SwitchMicrophone, Shutdown, CloseListener,
         CloseRecognizer, ListenThread, Begin, Record, RecordBriefly, DeviceFailed, VoskReturns,
         RefinementBegins, RecognitionBegins, Waited, Decides, Asks, JobEnds, Prepare, Process, app
<1>2. CASE UNCHANGED <<whisper, active>>
  BY <1>1, <1>2 DEF Pipes, PipeInv, ClosedForGood, whisper
<1>3. listen.at # "none" => listen.id \in Jobs
  BY RecognitionAssumption DEF TypeOK, ListenStates, ListenInv
<1>4. CASE RefinementBegins \/ RecognitionBegins
  <2>1. /\ UNCHANGED whisper /\ listen.at = "recording"
        /\ \/ active' = active
           \/ active = None /\ active' = listen.id
    BY <1>4 DEF RefinementBegins, RecognitionBegins, Recorded, Ask, Free
  <2>2. CASE active' = active
    BY <1>2, <2>1, <2>2
  <2>3. CASE active = None /\ active' = listen.id
    BY <1>1, <1>3, <2>1, <2>3, JobMoves DEF whisper
  <2> QED
    BY <2>1, <2>2, <2>3
<1>5. CASE \E t \in Jobs : Asks(t)
  <2>1. PICK t \in Jobs : Asks(t)
    BY <1>5
  <2> QED
    BY <1>1, <2>1, RequestMoves, JobsAreCallers DEF Asks, app
<1>6. CASE \E t \in Jobs : JobEnds(t)
  <2>1. PICK t \in Jobs : JobEnds(t)
    BY <1>6
  <2>2. active = t /\ active' = None
        /\ \/ profile = "groq" /\ UNCHANGED whisper
           \/ /\ answer[t] # Nobody /\ answer' = [answer EXCEPT ![t] = Nobody]
              /\ UNCHANGED <<call, child, decoder, resting, ended, closing>>
    BY <2>1 DEF JobEnds
  <2> QED
    BY <1>1, <2>2, JobMoves DEF whisper
<1>7. CASE Prepare
  BY <1>1, <1>7, RequestMoves, JobsAreCallers DEF Prepare, app
<1>8. CASE Process
  BY <1>1, <1>8, CallerMoves, ProcessMoves DEF Process, ProcessNext, app
<1>9. CASE CloseRecognizer
  BY <1>1, <1>9, CloseMoves DEF CloseRecognizer, app
<1>10. CASE \/ (\E p \in Paths : Listen(p)) \/ BreaksOff \/ Delivers
            \/ (\E on \in BOOLEAN : SwitchMicrophone(on)) \/ Shutdown \/ CloseListener
            \/ Begin \/ Record \/ RecordBriefly \/ DeviceFailed \/ VoskReturns \/ Waited \/ Decides
  <2>1. UNCHANGED <<whisper, active>>
    BY <1>10 DEF Listen, BreaksOff, Delivers, SwitchMicrophone, Shutdown, CloseListener, Begin,
                 Record, RecordBriefly, DeviceFailed, VoskReturns, Waited, Decides, app
  <2> QED
    BY <1>2, <2>1
<1> QED
  BY <1>4, <1>5, <1>6, <1>7, <1>8, <1>9, <1>10 DEF Next, ListenThread

-----------------------------------------------------------------------------
(* The listen *)

ListenHolds == mic \in BOOLEAN /\ profile \in Profiles /\ listen \in ListenStates /\ ListenInv

LEMMA LoopsOfProfiles ==
  \A x, p : <<x, p>> \in Loops => (p = "pcm" => x # "refined")
BY DEF Loops

LEMMA ListenBegun == NoListen \in ListenStates /\ NoListen.at = "none" /\ ~NoListen.muted
                     /\ NoListen.mailbox = None
<1>1. 0 \in 0..MaxListens
  BY RecognitionAssumption
<1> QED
  BY <1>1 DEF NoListen, ListenStates

\* A field of a listen is replaced by another of its kind.
LEMMA ListenFields ==
  ASSUME NEW l \in ListenStates
  PROVE  /\ \A a \in {"none", "called", "recording", "waiting", "deciding", "returned"} :
              [l EXCEPT !.at = a] \in ListenStates
         /\ \A a \in {"none", "called", "recording", "waiting", "deciding", "returned"},
               m \in Recognised \cup {None}, o \in {"done", "cancelled", "busy", "timeout"},
               f \in Recognised \cup {None}, r \in Recognised \cup {None} :
              [l EXCEPT !.at = a, !.mailbox = m, !.outcome = o, !.result = r, !.first = f]
                \in ListenStates
<1>1. ASSUME NEW a \in {"none", "called", "recording", "waiting", "deciding", "returned"}
      PROVE  [l EXCEPT !.at = a] \in ListenStates
  BY DEF ListenStates
<1>2. ASSUME NEW a \in {"none", "called", "recording", "waiting", "deciding", "returned"},
             NEW m \in Recognised \cup {None}, NEW o \in {"done", "cancelled", "busy", "timeout"},
             NEW f \in Recognised \cup {None}, NEW r \in Recognised \cup {None}
      PROVE  [l EXCEPT !.at = a, !.mailbox = m, !.outcome = o, !.result = r, !.first = f]
               \in ListenStates
  BY DEF ListenStates
<1> QED
  BY <1>1, <1>2

LEMMA ReturnKeeps ==
  ASSUME ListenHolds, listen.at # "none", UNCHANGED <<profile, mic>>,
         NEW r \in Recognised \cup {None},
         r # None => Fit(profile, listen.path, listen.first, r), Return(r)
  PROVE  ListenHolds'
<1>1. PICK s \in {r, None} : listen' = [listen EXCEPT !.at = "returned", !.mailbox = None,
                                                 !.outcome = "done", !.result = s]
  BY DEF Return
<1>2. listen' \in ListenStates
  BY <1>1 DEF ListenHolds, ListenStates
<1>3. /\ listen'.at = "returned" /\ listen'.mailbox = None /\ listen'.result = s
      /\ listen'.muted = listen.muted /\ listen'.moved = listen.moved
      /\ listen'.id = listen.id /\ listen'.path = listen.path /\ listen'.first = listen.first
  BY <1>1 DEF ListenHolds, ListenStates
<1>4. s # None => Fit(profile, listen.path, listen.first, s)
  OBVIOUS
<1> QED
  BY <1>2, <1>3, <1>4 DEF ListenHolds, ListenInv

\* The voice loop's part: it begins a listen, breaks it off, and takes what it has.
LEMMA LoopKeeps ==
  ASSUME ListenHolds,
         \/ \E p \in Paths : Listen(p)
         \/ BreaksOff \/ Delivers \/ (\E on \in BOOLEAN : SwitchMicrophone(on)) \/ Shutdown
  PROVE  ListenHolds'
<1>1. UNCHANGED profile
  BY DEF Listen, BreaksOff, Delivers, SwitchMicrophone, Shutdown
<1>2. CASE \E p \in Paths : Listen(p)
  <2>1. PICK p \in Paths : Listen(p)
    BY <1>2
  <2>2. listen' = [NoListen EXCEPT !.id = listen.id + 1, !.loop = "listening", !.at = "called",
                                   !.path = p]
        /\ listen.id < MaxListens /\ <<profile, p>> \in Explored[listen.id + 1] /\ UNCHANGED mic
    BY <2>1 DEF Listen
  <2>3. listen.id + 1 \in 0..MaxListens /\ listen.id + 1 > 0
    BY <2>2, RecognitionAssumption DEF ListenHolds, ListenStates
  <2>a. <<profile, p>> \in Loops
    <3>1. listen.id + 1 \in Jobs
      BY <2>2, <2>3, RecognitionAssumption
    <3> QED
      BY <2>2, <3>1, RecognitionAssumption
  <2>4. listen' \in ListenStates /\ listen'.at = "called" /\ ~listen'.muted
        /\ listen'.mailbox = None /\ listen'.id = listen.id + 1 /\ listen'.path = p
    BY <2>2, <2>3, ListenBegun DEF ListenStates
  <2> QED
    BY <1>1, <2>2, <2>3, <2>4, <2>a DEF ListenHolds, ListenInv
<1>3. CASE BreaksOff \/ Shutdown
  <2>1. PICK l \in {"awaiting", "over"} :
          listen' = [listen EXCEPT !.loop = l, !.moved = FALSE, !.muted = FALSE, !.result = None]
    BY <1>3 DEF BreaksOff, Shutdown
  <2>2. listen' \in ListenStates
    BY <2>1 DEF ListenHolds, ListenStates
  <2>3. /\ listen'.at = listen.at /\ listen'.mailbox = listen.mailbox /\ listen'.result = None
        /\ ~listen'.muted /\ listen'.outcome = listen.outcome
        /\ listen'.id = listen.id /\ listen'.path = listen.path /\ listen'.first = listen.first
    BY <2>1 DEF ListenHolds, ListenStates
  <2>4. UNCHANGED mic
    BY <1>3 DEF BreaksOff, Shutdown
  <2> QED
    BY <1>1, <2>2, <2>3, <2>4 DEF ListenHolds, ListenInv
<1>4. CASE Delivers
  <2>1. listen' = [NoListen EXCEPT !.id = listen.id] /\ UNCHANGED mic
    BY <1>4 DEF Delivers
  <2>2. listen' \in ListenStates /\ listen'.at = "none" /\ ~listen'.muted
        /\ listen'.mailbox = None
    BY <2>1, ListenBegun DEF ListenStates, ListenHolds
  <2> QED
    BY <1>1, <2>1, <2>2 DEF ListenHolds, ListenInv
<1>5. CASE \E on \in BOOLEAN : SwitchMicrophone(on)
  <2>1. PICK on \in BOOLEAN : SwitchMicrophone(on)
    BY <1>5
  <2> DEFINE moved == listen.loop = "listening"
             muted == listen.loop = "listening"
                      /\ (listen.muted \/ (~on /\ listen.at # "called"))
  <2>2. mic' \in BOOLEAN /\ listen' = [listen EXCEPT !.moved = moved, !.muted = muted]
    BY <2>1 DEF SwitchMicrophone, ListenHolds, ListenStates
  <2>3. moved \in BOOLEAN /\ muted \in BOOLEAN /\ (muted => moved)
    OBVIOUS
  <2> HIDE DEF moved, muted
  <2>4. listen' \in ListenStates
    BY <2>2, <2>3 DEF ListenHolds, ListenStates
  <2>5. /\ listen'.at = listen.at /\ listen'.mailbox = listen.mailbox
        /\ listen'.result = listen.result /\ listen'.outcome = listen.outcome
        /\ (listen'.muted => listen'.moved)
        /\ listen'.id = listen.id /\ listen'.path = listen.path /\ listen'.first = listen.first
    BY <2>2, <2>3 DEF ListenHolds, ListenStates
  <2> QED
    BY <1>1, <2>2, <2>4, <2>5 DEF ListenHolds, ListenInv
<1> QED
  BY <1>2, <1>3, <1>4, <1>5

\* Results of a recogniser; their texts are left as they are.
LEMMA OtherFlags ==
  ASSUME NEW w \in Words, NEW e \in Engines, NEW f \in SUBSET Flags
  PROVE  [[text |-> w, engine |-> e, sure |-> FALSE, flags |-> {}] EXCEPT !.flags = f]
         = [text |-> w, engine |-> e, sure |-> FALSE, flags |-> f]
<1> DEFINE r == [text |-> w, engine |-> e, sure |-> FALSE, flags |-> {}]
           s == [text |-> w, engine |-> e, sure |-> FALSE, flags |-> f]
<1>1. r \in Recognised /\ s \in Recognised
  BY DEF Recognised
<1>2. /\ r.text = w /\ r.engine = e /\ r.sure = FALSE
      /\ s.text = w /\ s.engine = e /\ s.sure = FALSE /\ s.flags = f
  OBVIOUS
<1> HIDE DEF r, s
<1>3. [r EXCEPT !.flags = f] = s
  BY <1>1, <1>2 DEF Recognised
<1> QED
  BY <1>3 DEF r, s

LEMMA SomeResults ==
  /\ Interrupted \in Recognised /\ Nothing("whisper") \in Recognised
  /\ Interrupted.text = "" /\ Nothing("whisper").text = ""
  /\ Nothing("whisper").engine = "whisper"
  /\ [Nothing("groq") EXCEPT !.flags = {"fragmented", "unreliable", "unscored"}] \in Recognised
  /\ [Nothing("groq") EXCEPT !.flags = {"fragmented", "unreliable", "unscored"}].text = ""
  /\ [Nothing("broken") EXCEPT !.flags = {}] \in Recognised
  /\ [Nothing("broken") EXCEPT !.flags = {}].engine = "broken"
  /\ [Nothing("groq") EXCEPT !.flags = {"fragmented", "repeat", "unreliable", "unscored"}]
       \in Recognised
  /\ [Nothing("groq") EXCEPT !.flags = {"fragmented", "repeat", "unreliable", "unscored"}].flags
       = {"fragmented", "repeat", "unreliable", "unscored"}
<1> DEFINE mute == ""
<1>1. mute \in Words
  BY DEF Words
<1>2. \A e, f : e \in Engines /\ f \in SUBSET Flags =>
        [text |-> mute, engine |-> e, sure |-> FALSE, flags |-> f] \in Recognised
  <2> HIDE DEF mute
  <2> QED
    BY <1>1 DEF Recognised
<1>3. \A e : Nothing(e) = [text |-> mute, engine |-> e, sure |-> FALSE, flags |-> {}]
  BY DEF Nothing
<1>4. Interrupted = [text |-> mute, engine |-> "interrupted", sure |-> FALSE, flags |-> {}]
  BY DEF Interrupted
<1>5. \A e \in Engines, f \in SUBSET Flags :
        [Nothing(e) EXCEPT !.flags = f]
        = [text |-> mute, engine |-> e, sure |-> FALSE, flags |-> f]
  <2> HIDE DEF mute
  <2> SUFFICES ASSUME NEW e \in Engines, NEW f \in SUBSET Flags
               PROVE  [Nothing(e) EXCEPT !.flags = f]
                      = [text |-> mute, engine |-> e, sure |-> FALSE, flags |-> f]
    OBVIOUS
  <2>1. Nothing(e) = [text |-> mute, engine |-> e, sure |-> FALSE, flags |-> {}]
    BY <1>3
  <2>2. [[text |-> mute, engine |-> e, sure |-> FALSE, flags |-> {}] EXCEPT !.flags = f]
        = [text |-> mute, engine |-> e, sure |-> FALSE, flags |-> f]
    BY <1>1, OtherFlags
  <2> QED
    BY <2>1, <2>2, Zenon
<1>6. /\ "whisper" \in Engines /\ "groq" \in Engines /\ "broken" \in Engines
      /\ "interrupted" \in Engines /\ {} \in SUBSET Flags
      /\ {"fragmented", "unreliable", "unscored"} \in SUBSET Flags
      /\ {"fragmented", "repeat", "unreliable", "unscored"} \in SUBSET Flags
  BY DEF Engines, Flags
<1>7. \A e, f : [text |-> mute, engine |-> e, sure |-> FALSE, flags |-> f].text = mute
                /\ [text |-> mute, engine |-> e, sure |-> FALSE, flags |-> f].engine = e
                /\ [text |-> mute, engine |-> e, sure |-> FALSE, flags |-> f].flags = f
  <2> HIDE DEF mute
  <2> QED
    OBVIOUS
<1> HIDE DEF mute
<1>8. mute = ""
  BY DEF mute
<1> DEFINE result(e, f) == [text |-> mute, engine |-> e, sure |-> FALSE, flags |-> f]
<1>9. /\ \A e \in Engines, f \in SUBSET Flags : result(e, f) \in Recognised
      /\ \A e, f : result(e, f).text = mute /\ result(e, f).engine = e /\ result(e, f).flags = f
      /\ \A e \in Engines, f \in SUBSET Flags : [Nothing(e) EXCEPT !.flags = f] = result(e, f)
      /\ \A e : Nothing(e) = result(e, {})
      /\ Interrupted = result("interrupted", {})
  BY <1>2, <1>3, <1>4, <1>5, <1>7
<1> HIDE DEF result
<1>10. Interrupted \in Recognised /\ Interrupted.text = ""
  BY <1>6, <1>8, <1>9, Zenon
<1>11. /\ Nothing("whisper") \in Recognised /\ Nothing("whisper").text = ""
       /\ Nothing("whisper").engine = "whisper"
  <2>1. Nothing("whisper") = result("whisper", {})
    BY <1>9
  <2>2. /\ result("whisper", {}) \in Recognised /\ result("whisper", {}).text = mute
        /\ result("whisper", {}).engine = "whisper"
    BY <1>6, <1>9
  <2> QED
    BY <1>8, <2>1, <2>2, Zenon
<1>12. /\ [Nothing("groq") EXCEPT !.flags = {"fragmented", "unreliable", "unscored"}]
            \in Recognised
       /\ [Nothing("groq") EXCEPT !.flags = {"fragmented", "unreliable", "unscored"}].text = ""
  <2> DEFINE most == {"fragmented", "unreliable", "unscored"}
  <2>1. most \in SUBSET Flags
    BY <1>6
  <2> HIDE DEF most
  <2>2. [Nothing("groq") EXCEPT !.flags = most] = result("groq", most)
    BY <1>6, <1>9, <2>1
  <2>3. /\ [Nothing("groq") EXCEPT !.flags = most] \in Recognised
        /\ [Nothing("groq") EXCEPT !.flags = most].text = ""
    <3>1. result("groq", most) \in Recognised /\ result("groq", most).text = mute
      BY <1>6, <1>9, <2>1
    <3> QED
      BY <1>8, <2>2, <3>1, Zenon
  <2> QED
    BY <2>3 DEF most
<1>13. /\ [Nothing("broken") EXCEPT !.flags = {}] \in Recognised
       /\ [Nothing("broken") EXCEPT !.flags = {}].engine = "broken"
  <2>1. [Nothing("broken") EXCEPT !.flags = {}] = result("broken", {})
    BY <1>6, <1>9
  <2>2. result("broken", {}) \in Recognised /\ result("broken", {}).engine = "broken"
    BY <1>6, <1>9
  <2> QED
    BY <2>1, <2>2, Zenon
<1> DEFINE all == {"fragmented", "repeat", "unreliable", "unscored"}
<1>14. all \in SUBSET Flags
  BY <1>6
<1> HIDE DEF all
<1>15. /\ [Nothing("groq") EXCEPT !.flags = all] \in Recognised
       /\ [Nothing("groq") EXCEPT !.flags = all].flags = all
  <2>1. [Nothing("groq") EXCEPT !.flags = all] = result("groq", all)
    BY <1>6, <1>9, <1>14
  <2>2. result("groq", all) \in Recognised /\ result("groq", all).flags = all
    BY <1>6, <1>9, <1>14
  <2> QED
    BY <2>1, <2>2, Zenon
<1> QED
  BY <1>10, <1>11, <1>12, <1>13, <1>15 DEF all

\* A text that is none is fit, and so is everything on a loop and for a profile without rules.
LEMMA SilenceIsFit ==
  ASSUME NEW who, NEW loop, NEW first, NEW r, r.text = ""
  PROVE  Fit(who, loop, first, r)
BY DEF Fit

LEMMA OthersAreFit ==
  ASSUME NEW who, NEW loop, NEW first, NEW r, who # "refined", loop # "pcm"
  PROVE  Fit(who, loop, first, r)
BY DEF Fit

LEMMA VoskRecognises == VoskResults \subseteq Recognised
<1> DEFINE marked == IF listen.path = "adaptive"
                     THEN (IF taken.cut THEN {"truncated", "fragmented"} ELSE {})
                          \cup (IF Fragment(taken.text) THEN {"cut", "repeat", "fragmented"}
                                ELSE {})
                     ELSE {}
           texts == CASE taken.text = "" -> {""}
                      [] Fragment(taken.text) -> {"open"}
                      [] taken.text = "greeting" -> {"chat"}
                      [] OTHER -> {"command", "action", "chat"}
           confidences == IF taken.text = "" THEN {FALSE} ELSE BOOLEAN
<1>1. texts \subseteq Words
  BY DEF Words
<1>2. marked \in SUBSET Flags
  <2>1. {"truncated", "fragmented"} \subseteq Flags /\ {"cut", "repeat", "fragmented"} \subseteq Flags
    BY DEF Flags
  <2> QED
    BY <2>1
<1>3. confidences \subseteq BOOLEAN
  BY Zenon
<1>4. "vosk" \in Engines
  BY DEF Engines
<1>5. VoskResults = [text : texts, engine : {"vosk"}, sure : confidences, flags : {marked}]
  BY DEF VoskResults
<1> HIDE DEF texts, marked, confidences
<1> QED
  BY <1>1, <1>2, <1>3, <1>4, <1>5 DEF Recognised

\* Asking the second recogniser, or not being able to.
LEMMA AskKeeps ==
  ASSUME ListenHolds, listen.at = "recording", UNCHANGED <<profile, mic>>,
         NEW first \in Recognised \cup {None},
         IF profile = "refined" THEN first # None ELSE listen.path = "pcm", Ask(first)
  PROVE  ListenHolds'
<1>1. /\ listen'.at \in {"waiting", "deciding"} /\ listen'.first = first
      /\ listen'.muted = listen.muted /\ listen'.moved = listen.moved
      /\ listen'.id = listen.id /\ listen'.path = listen.path
      /\ (listen'.mailbox = None \/ listen'.mailbox = listen.mailbox)
      /\ (listen'.at = "deciding" => listen'.outcome \in {"cancelled", "busy"})
  BY DEF Ask, ListenHolds, ListenStates
<1>2. listen' \in ListenStates
  <2>1. listen \in ListenStates
    BY DEF ListenHolds
  <2>2. CASE listen' = [listen EXCEPT !.at = "waiting", !.first = first, !.mailbox = None]
    BY <2>1, <2>2 DEF ListenStates
  <2>3. CASE \E way \in {"cancelled", "busy"} :
               listen' = [listen EXCEPT !.at = "deciding", !.first = first, !.outcome = way]
    BY <2>1, <2>3 DEF ListenStates
  <2> QED
    BY <2>2, <2>3 DEF Ask
<1> QED
  BY <1>1, <1>2 DEF ListenHolds, ListenInv

LEMMA RecordedOn ==
  ASSUME ListenHolds, NEW p, Recorded(p)
  PROVE  p /\ listen.at = "recording" /\ <<profile, listen.path>> \in Loops
BY DEF Recorded, ListenHolds, ListenInv

LEMMA VoskKeeps ==
  ASSUME ListenHolds, VoskReturns
  PROVE  ListenHolds'
<1>1. PICK r \in VoskResults :
        Return(IF Dropped \/ taken.kind = "interrupted" THEN Interrupted ELSE r)
  BY DEF VoskReturns
<1>2. PICK s \in Recognised : Return(s)
  BY <1>1, VoskRecognises, SomeResults
<1>3. profile # "refined" /\ listen.path # "pcm" /\ listen.at = "recording"
  BY RecordedOn DEF VoskReturns
<1>4. UNCHANGED <<profile, mic>>
  BY DEF VoskReturns
<1> QED
  BY <1>2, <1>3, <1>4, OthersAreFit, ReturnKeeps

\* What is not to be confirmed is sure, and neither a command nor an action.
LEMMA UnrefinedIsFit ==
  ASSUME NEW r \in Recognised, NEW loop, NEW first, loop # "pcm",
         ~ShouldRefine(r) \/ r.text = ""
  PROVE  Fit("refined", loop, first, r)
<1>1. CASE r.text = ""
  BY <1>1, SilenceIsFit
<1>2. CASE ~ShouldRefine(r)
  <2>1. r.sure /\ (r.text = "scoped" \/ ~ActionHint(r))
    BY <1>2 DEF ShouldRefine
  <2>2. ~IsCommand(r)
    BY <2>1 DEF IsCommand, ActionHint
  <2> QED
    BY <2>1, <2>2 DEF Fit
<1> QED
  BY <1>1, <1>2

LEMMA RefinementKeeps ==
  ASSUME ListenHolds, RefinementBegins
  PROVE  ListenHolds'
<1>1. listen.at = "recording" /\ profile = "refined" /\ listen.path # "pcm"
      /\ UNCHANGED <<profile, mic>>
  BY RecordedOn, LoopsOfProfiles DEF RefinementBegins
<1>2. PICK r \in VoskResults :
        \/ Return(Interrupted)
        \/ Ask(r)
        \/ (~ShouldRefine(r) \/ r.text = "") /\ Return(IF Dropped THEN Interrupted ELSE r)
  BY DEF RefinementBegins
<1>3. r \in Recognised /\ r # None
  BY <1>2, VoskRecognises, RecognitionAssumption
<1>4. CASE Return(Interrupted)
  BY <1>1, <1>4, SomeResults, SilenceIsFit, ReturnKeeps
<1>5. CASE Ask(r)
  BY <1>1, <1>3, <1>5, AskKeeps
<1>6. CASE (~ShouldRefine(r) \/ r.text = "") /\ Return(r)
  BY <1>1, <1>3, <1>6, UnrefinedIsFit, ReturnKeeps
<1> QED
  BY <1>2, <1>4, <1>5, <1>6

LEMMA RecognitionKeeps ==
  ASSUME ListenHolds, RecognitionBegins
  PROVE  ListenHolds'
<1> DEFINE nothing == [Nothing("groq") EXCEPT !.flags = {"fragmented", "unreliable", "unscored"}]
<1>1. listen.at = "recording" /\ profile # "refined" /\ listen.path = "pcm"
      /\ UNCHANGED <<profile, mic>>
  BY RecordedOn, LoopsOfProfiles DEF RecognitionBegins
<1>2. Return(Interrupted) \/ Return(Nothing("whisper")) \/ Return(nothing) \/ Ask(None)
  BY DEF RecognitionBegins
<1>3. \A s \in {Interrupted, Nothing("whisper"), nothing} : s \in Recognised /\ s.text = ""
  BY SomeResults
<1> HIDE DEF nothing
<1>4. CASE \E s \in {Interrupted, Nothing("whisper"), nothing} : Return(s)
  BY <1>1, <1>3, <1>4, SilenceIsFit, ReturnKeeps
<1>5. CASE Ask(None)
  BY <1>1, <1>5, AskKeeps
<1> QED
  BY <1>2, <1>4, <1>5

\* A record of which the parts are known is a result.
LEMMA ResultOf ==
  ASSUME NEW T, T \subseteq Words, NEW E, E \subseteq Engines, NEW S, S \subseteq BOOLEAN,
         NEW F, F \subseteq SUBSET Flags
  PROVE  [text : T, engine : E, sure : S, flags : F] \subseteq Recognised
BY DEF Recognised

LEMMA Truth == ASSUME NEW x, NEW S PROVE {x \in S} \subseteq BOOLEAN
OBVIOUS

LEMMA ReplyRecognised ==
  ASSUME NEW reply, NEW r \in ReplyOf(reply)
  PROVE  r \in Recognised /\ r.engine \in {"whisper", "broken"}
<1> DEFINE nothing == [Nothing("broken") EXCEPT !.flags = {}]
           T == IF reply.text = "" THEN {""} ELSE IF reply.text = "open" THEN {"open"}
                ELSE IF profile = "refined" THEN {"command", "chat"} ELSE {"chat"}
           S == {reply.text \in {"open", "sure"}}
           F == {IF reply.flagged THEN {"unreliable"} ELSE {}}
           E == {"whisper"}
<1>1. T \subseteq Words
  BY DEF Words
<1>2. S \subseteq BOOLEAN
  BY Truth
<1>3. F \subseteq SUBSET Flags
  BY DEF Flags
<1>4. E \subseteq Engines
  BY DEF Engines
<1>5. r \in {nothing} \cup [text : T, engine : E, sure : S, flags : F]
  <2>1. ReplyOf(reply) \subseteq {nothing} \cup [text : T, engine : E, sure : S, flags : F]
    BY Zenon DEF ReplyOf
  <2> QED
    BY <2>1
<1>6. nothing \in Recognised /\ nothing.engine = "broken"
  BY SomeResults
<1> HIDE DEF nothing, T, S, F
<1>7. CASE r \in [text : T, engine : E, sure : S, flags : F]
  BY <1>1, <1>2, <1>3, <1>4, <1>7, ResultOf
<1> QED
  BY <1>5, <1>6, <1>7

LEMMA GroqRecognised ==
  ASSUME NEW r \in GroqReplies
  PROVE  r \in Recognised /\ "unscored" \in r.flags
<1> DEFINE failure == [Nothing("groq") EXCEPT !.flags = {"fragmented", "repeat", "unreliable",
                                                         "unscored"}]
           T == {"open", "chat"}
           E == {"groq"}
           S == {FALSE}
           F == {{"fragmented", "unscored"}}
<1>1. T \subseteq Words
  BY DEF Words
<1>2. S \subseteq BOOLEAN
  BY Zenon
<1>3. F \subseteq SUBSET Flags
  BY DEF Flags
<1>4. E \subseteq Engines
  BY DEF Engines
<1>5. r = failure \/ r \in [text : T, engine : E, sure : S, flags : F]
  <2> HIDE DEF failure
  <2>1. GroqReplies = {failure} \cup (IF closing = "over" THEN {}
                                      ELSE [text : T, engine : E, sure : S, flags : F])
    BY Zenon DEF GroqReplies, failure
  <2> QED
    BY <2>1
<1>6. failure \in Recognised /\ "unscored" \in failure.flags
  BY SomeResults
<1> HIDE DEF failure, T
<1>7. CASE r \in [text : T, engine : E, sure : S, flags : F]
  BY <1>1, <1>2, <1>3, <1>4, <1>7, ResultOf
<1> QED
  BY <1>5, <1>6, <1>7

LEMMA JobKeeps ==
  ASSUME ListenHolds, NEW t \in Jobs, JobEnds(t)
  PROVE  ListenHolds'
<1>1. UNCHANGED <<profile, mic>>
  BY DEF JobEnds
<1>2. PICK r \in Recognised :
        /\ r.engine \in {"whisper", "broken"} \/ "unscored" \in r.flags
        /\ listen' = [listen EXCEPT !.mailbox = IF listen.id = t /\ listen.at = "waiting"
                                                THEN r ELSE @]
  <2>1. CASE \E r \in GroqReplies :
               listen' = [listen EXCEPT !.mailbox = IF listen.id = t /\ listen.at = "waiting"
                                                    THEN r ELSE @]
    BY <2>1, GroqRecognised
  <2>2. CASE \E r \in ReplyOf(answer[t]) :
               listen' = [listen EXCEPT !.mailbox = IF listen.id = t /\ listen.at = "waiting"
                                                    THEN r ELSE @]
    BY <2>2, ReplyRecognised
  <2> QED
    BY <2>1, <2>2 DEF JobEnds
<1>3. CASE UNCHANGED listen
  BY <1>1, <1>3 DEF ListenHolds, ListenInv
<1>4. CASE listen.at = "waiting" /\ listen' = [listen EXCEPT !.mailbox = r]
  <2>1. listen' \in ListenStates
    BY <1>4 DEF ListenHolds, ListenStates
  <2>2. /\ listen'.at = listen.at /\ listen'.mailbox = r
        /\ listen'.muted = listen.muted /\ listen'.moved = listen.moved
        /\ listen'.id = listen.id /\ listen'.path = listen.path /\ listen'.first = listen.first
    BY <1>4 DEF ListenHolds, ListenStates
  <2> QED
    BY <1>1, <1>2, <1>4, <2>1, <2>2 DEF ListenHolds, ListenInv
<1>5. UNCHANGED listen \/ (listen.at = "waiting" /\ listen' = [listen EXCEPT !.mailbox = r])
  <2>1. listen = [listen EXCEPT !.mailbox = listen.mailbox]
    BY DEF ListenHolds, ListenStates
  <2> QED
    BY <1>2, <2>1
<1> QED
  BY <1>3, <1>4, <1>5

LEMMA WaitKeeps ==
  ASSUME ListenHolds, Waited
  PROVE  ListenHolds'
<1>1. PICK o \in {"done", "cancelled", "timeout"} :
        /\ listen' = [listen EXCEPT !.at = "deciding", !.outcome = o]
        /\ o = "done" => listen.mailbox # None
  BY DEF Waited
<1>2. listen.at = "waiting" /\ UNCHANGED <<profile, mic>>
  BY DEF Waited
<1>3. listen' \in ListenStates
  BY <1>1 DEF ListenHolds, ListenStates
<1>4. /\ listen'.at = "deciding" /\ listen'.outcome = o /\ listen'.mailbox = listen.mailbox
      /\ listen'.muted = listen.muted /\ listen'.moved = listen.moved
      /\ listen'.id = listen.id /\ listen'.path = listen.path /\ listen'.first = listen.first
  BY <1>1 DEF ListenHolds, ListenStates
<1> QED
  BY <1>1, <1>2, <1>3, <1>4 DEF ListenHolds, ListenInv

\* A result with other flags is a result.
LEMMA FlagsReplaced ==
  ASSUME NEW r \in Recognised, NEW f \in SUBSET Flags
  PROVE  /\ [r EXCEPT !.flags = f] \in Recognised
         /\ [r EXCEPT !.flags = f].text = r.text /\ [r EXCEPT !.flags = f].engine = r.engine
         /\ [r EXCEPT !.flags = f].sure = r.sure /\ [r EXCEPT !.flags = f].flags = f
BY DEF Recognised

Silent(r) == r.text = ""

\* Of two texts one is taken: the second, if it is there and sure and they do not disagree.
LEMMA SelectKeeps ==
  ASSUME NEW f \in Recognised, NEW s \in Recognised
  PROVE  /\ SelectResult(f, s) \in Recognised
         /\ ~Silent(s) /\ s.sure =>
              \/ SelectResult(f, s).engine = "conflict"
              \/ SelectResult(f, s) = s /\ (IsCommand(s) => IsCommand(f))
<1> DEFINE taking == IF IsCommand(s) THEN f ELSE s
           x == [taking EXCEPT !.engine = "conflict", !.sure = f.sure /\ s.sure]
<1>1. x \in Recognised /\ x.engine = "conflict"
  <2>1. PICK b \in BOOLEAN : b = (f.sure /\ s.sure)
    BY DEF Recognised
  <2>2. taking \in Recognised /\ "conflict" \in Engines
    BY DEF Engines
  <2> HIDE DEF taking
  <2>3. /\ [taking EXCEPT !.engine = "conflict", !.sure = b] \in Recognised
        /\ [taking EXCEPT !.engine = "conflict", !.sure = b].engine = "conflict"
    BY <2>2 DEF Recognised
  <2> QED
    BY <2>1, <2>3
<1>2. SelectResult(f, s) = f \/ SelectResult(f, s) = s \/ SelectResult(f, s) = x
  BY Zenon DEF SelectResult
<1>3. ~Silent(s) /\ s.sure =>
        SelectResult(f, s) = x \/ (SelectResult(f, s) = s /\ (IsCommand(s) => IsCommand(f)))
  BY Zenon DEF SelectResult, Silent
<1> HIDE DEF x
<1>4. SelectResult(f, s) \in Recognised
  BY <1>1, <1>2, Zenon
<1> QED
  BY <1>1, <1>3, <1>4, Zenon

LEMMA RefinedKeeps ==
  ASSUME NEW f \in Recognised, NEW c \in Recognised, NEW unsafe
  PROVE  /\ Refined(f, c, unsafe) \in Recognised
         /\ Refined(f, c, unsafe).text = c.text /\ Refined(f, c, unsafe).engine = c.engine
         /\ Refined(f, c, unsafe).sure = c.sure
         /\ Eligible(Refined(f, c, unsafe)) => ~unsafe
<1> DEFINE doubt == unsafe /\ (ActionHint(c) \/ c.text = "" \/ ~c.sure)
           F == f.flags \cup (IF unsafe \/ c.engine = "conflict" THEN {"unreliable"} ELSE {})
                \cup (IF unsafe THEN {"fragmented"} ELSE {})
                \cup (IF doubt THEN {"repeat"} ELSE {})
<1>1. Refined(f, c, unsafe) = [c EXCEPT !.flags = F]
  BY Zenon DEF Refined
<1> HIDE DEF doubt
<1>2. F \in SUBSET Flags /\ (unsafe => "fragmented" \in F)
  BY DEF Recognised, Flags
<1> HIDE DEF F
<1>3. /\ [c EXCEPT !.flags = F] \in Recognised
      /\ [c EXCEPT !.flags = F].text = c.text /\ [c EXCEPT !.flags = F].engine = c.engine
      /\ [c EXCEPT !.flags = F].sure = c.sure /\ [c EXCEPT !.flags = F].flags = F
  BY <1>2, FlagsReplaced
<1>4. Eligible(Refined(f, c, unsafe)) => ~unsafe
  BY <1>1, <1>2, <1>3 DEF Eligible
<1> QED
  BY <1>1, <1>3, <1>4

LEMMA MarksKeep ==
  ASSUME NEW r \in Recognised, NEW failed, NEW truncated
  PROVE  /\ Marks(r, failed, truncated) \in Recognised
         /\ Marks(r, failed, truncated).text = r.text
         /\ Marks(r, failed, truncated).engine = r.engine
         /\ Marks(r, failed, truncated).sure = r.sure
         /\ Eligible(Marks(r, failed, truncated)) =>
              ~failed /\ ~PossibleFragment(r) /\ "unscored" \notin r.flags
<1> DEFINE again == failed \/ truncated \/ PossibleFragment(r)
           F == (r.flags \cap {"unscored"})
                \cup (IF PossibleFragment(r) THEN {"cut"} ELSE {})
                \cup (IF truncated THEN {"truncated"} ELSE {})
                \cup (IF failed THEN {"unreliable"} ELSE {})
                \cup (IF again THEN {"repeat"} ELSE {})
                \cup (IF again \/ "unscored" \in r.flags THEN {"fragmented"} ELSE {})
<1>1. Marks(r, failed, truncated) = [r EXCEPT !.flags = F]
  BY Zenon DEF Marks
<1>2. F \in SUBSET Flags /\ (again \/ "unscored" \in r.flags => "fragmented" \in F)
  <2> HIDE DEF again
  <2> QED
    BY DEF Recognised, Flags
<1>3. (failed => again) /\ (PossibleFragment(r) => again)
  OBVIOUS
<1> HIDE DEF F, again
<1>4. /\ [r EXCEPT !.flags = F] \in Recognised
      /\ [r EXCEPT !.flags = F].text = r.text /\ [r EXCEPT !.flags = F].engine = r.engine
      /\ [r EXCEPT !.flags = F].sure = r.sure /\ [r EXCEPT !.flags = F].flags = F
  BY <1>2, FlagsReplaced
<1>5. Eligible(Marks(r, failed, truncated)) =>
        ~failed /\ ~PossibleFragment(r) /\ "unscored" \notin r.flags
  BY <1>1, <1>2, <1>3, <1>4 DEF Eligible
<1> QED
  BY <1>1, <1>4, <1>5

LEMMA FallbackRecognised ==
  ASSUME NEW reply \in Recognised, NEW r \in Fallback(reply)
  PROVE  r \in Recognised
<1> DEFINE T == {"", "open", "chat"}
           E == {"vosk"}
           S == BOOLEAN
           F == {{}}
<1>1. T \subseteq Words
  BY DEF Words
<1>2. E \subseteq Engines
  BY DEF Engines
<1>3. r = reply \/ r \in [text : T, engine : E, sure : S, flags : F]
  <2>1. Fallback(reply) \subseteq {reply} \cup [text : T, engine : E, sure : S, flags : F]
    <3> DEFINE others == [text : T, engine : E, sure : S, flags : F]
    <3>1. Fallback(reply) = IF profile = "groq" THEN {reply} ELSE {reply} \cup others
      BY Zenon DEF Fallback
    <3> HIDE DEF others
    <3>2. Fallback(reply) \subseteq {reply} \cup others
      BY <3>1
    <3> QED
      BY <3>2 DEF others
  <2> HIDE DEF T
  <2> QED
    BY <2>1
<1> HIDE DEF T
<1>4. CASE r \in [text : T, engine : E, sure : S, flags : F]
  BY <1>1, <1>2, <1>4, ResultOf
<1> QED
  BY <1>3, <1>4

LEMMA ReplyHeld ==
  ASSUME ListenHolds, listen.at = "deciding"
  PROVE  /\ Reply \in Recognised
         /\ Reply.engine \in {"whisper", "broken"} \/ "unscored" \in Reply.flags
<1>1. CASE listen.outcome = "done"
  <2>1. Reply = listen.mailbox
    BY <1>1 DEF Reply
  <2>2. listen.mailbox # None /\ listen.mailbox \in Recognised \cup {None}
    BY <1>1 DEF ListenHolds, ListenInv, ListenStates
  <2> QED
    BY <2>1, <2>2 DEF ListenHolds, ListenInv
<1>2. CASE listen.outcome # "done"
  <2>1. Reply = Nothing("whisper")
    BY <1>2 DEF Reply
  <2> QED
    BY <2>1, SomeResults
<1> QED
  BY <1>1, <1>2

\* What a sure recogniser of the whole recording makes of it is fit.
LEMMA MarkedIsFit ==
  ASSUME ListenHolds, listen.at = "deciding", profile # "refined",
         Reply.engine # "broken",
         NEW r \in IF Failure(Reply) THEN Fallback(Reply) ELSE {Reply}
  PROVE  /\ Marks(r, Failure(Reply), taken.cut) \in Recognised
         /\ Fit(profile, listen.path, listen.first, Marks(r, Failure(Reply), taken.cut))
<1> DEFINE failed == Failure(Reply)
           m == Marks(r, failed, taken.cut)
<1>1. r \in Recognised /\ (~failed => r = Reply)
  BY ReplyHeld, FallbackRecognised
<1>2. ~failed => /\ "unscored" \notin Reply.flags => Reply.sure
                 /\ "unscored" \notin Reply.flags => Reply.engine = "whisper"
  <2>1. ~failed => ("unscored" \notin Reply.flags => Reply.sure)
    BY Zenon DEF Failure
  <2> HIDE DEF failed
  <2> QED
    BY <2>1, ReplyHeld
<1> HIDE DEF failed
<1>3. /\ m \in Recognised /\ m.text = r.text /\ m.engine = r.engine /\ m.sure = r.sure
      /\ Eligible(m) => ~failed /\ ~PossibleFragment(r) /\ "unscored" \notin r.flags
  BY <1>1, MarksKeep
<1> HIDE DEF m
<1>4. Eligible(m) => m.engine = "whisper" /\ m.sure /\ ~PossibleFragment(m)
  BY <1>1, <1>2, <1>3 DEF PossibleFragment
<1>5. Fit(profile, listen.path, listen.first, m)
  BY <1>4 DEF Fit
<1> QED
  BY <1>3, <1>5 DEF m, failed

\* A text of the second recogniser is fit if it is sure and the first has not heard
\* something else.
LEMMA RefinedIsFit ==
  ASSUME ListenHolds, listen.at = "deciding", profile = "refined",
         NEW unsafe, Silent(Reply) \/ ~Reply.sure => unsafe
  PROVE  LET r == Refined(listen.first, SelectResult(listen.first, Reply), unsafe)
         IN r \in Recognised /\ Fit(profile, listen.path, listen.first, r)
<1> DEFINE f == listen.first
           c == SelectResult(f, Reply)
           r == Refined(f, c, unsafe)
<1>1. Reply \in Recognised /\ f \in Recognised /\ listen.path # "pcm"
  BY ReplyHeld, LoopsOfProfiles DEF ListenHolds, ListenInv, ListenStates
<1> HIDE DEF f
<1>2. /\ c \in Recognised
      /\ ~Silent(Reply) /\ Reply.sure =>
           c.engine = "conflict" \/ (c = Reply /\ (IsCommand(Reply) => IsCommand(f)))
  BY <1>1, SelectKeeps
<1> HIDE DEF c
<1>3. /\ r \in Recognised /\ r.text = c.text /\ r.engine = c.engine /\ r.sure = c.sure
      /\ Eligible(r) => ~unsafe
  BY <1>1, <1>2, RefinedKeeps
<1> HIDE DEF r
<1>4. ~unsafe => ~Silent(Reply) /\ Reply.sure
  OBVIOUS
<1>5. r.engine # "conflict" /\ Eligible(r) => r.sure /\ (IsCommand(c) => IsCommand(f))
  BY <1>2, <1>3, <1>4, Zenon
<1>6. IsCommand(r) => IsCommand(c)
  BY <1>3 DEF IsCommand
<1>7. Fit(profile, listen.path, f, r)
  BY <1>1, <1>5, <1>6, Zenon DEF Fit
<1> QED
  BY <1>3, <1>7 DEF f, c, r

LEMMA DecisionKeeps ==
  ASSUME ListenHolds, Decides
  PROVE  ListenHolds'
<1>1. listen.at = "deciding" /\ UNCHANGED <<profile, mic>>
  BY DEF Decides
<1>2. CASE Return(Interrupted)
  BY <1>1, <1>2, SomeResults, SilenceIsFit, ReturnKeeps
<1>3. CASE Return(None)
  BY <1>1, <1>3, ReturnKeeps
<1>4. CASE /\ profile = "refined"
           /\ LET unsafe == listen.outcome # "done" \/ Reply.text = "" \/ ~Reply.sure
              IN Return(Refined(listen.first, SelectResult(listen.first, Reply), unsafe))
  <2> DEFINE unsafe == listen.outcome # "done" \/ Reply.text = "" \/ ~Reply.sure
             r == Refined(listen.first, SelectResult(listen.first, Reply), unsafe)
  <2>1. Silent(Reply) \/ ~Reply.sure => unsafe
    BY Zenon DEF Silent
  <2>2. Return(r)
    BY <1>4, Zenon
  <2> HIDE DEF unsafe
  <2>3. r \in Recognised /\ Fit(profile, listen.path, listen.first, r)
    BY <1>1, <1>4, <2>1, RefinedIsFit
  <2> HIDE DEF r
  <2> QED
    BY <1>1, <2>2, <2>3, ReturnKeeps
<1>5. CASE /\ profile # "refined" /\ Reply.engine # "broken"
           /\ \E r \in IF Failure(Reply) THEN Fallback(Reply) ELSE {Reply} :
                Return(Marks(r, Failure(Reply), taken.cut))
  <2>1. PICK r \in IF Failure(Reply) THEN Fallback(Reply) ELSE {Reply} :
               Return(Marks(r, Failure(Reply), taken.cut))
    BY <1>5
  <2>2. /\ Marks(r, Failure(Reply), taken.cut) \in Recognised
        /\ Fit(profile, listen.path, listen.first, Marks(r, Failure(Reply), taken.cut))
    BY <1>1, <1>5, MarkedIsFit
  <2> QED
    BY <1>1, <2>1, <2>2, ReturnKeeps
<1> QED
  BY <1>2, <1>3, <1>4, <1>5, Zenon DEF Decides

\* Every step keeps what a listen has at each await.
LEMMA ListenGoesOn ==
  ASSUME ListenHolds, Next
  PROVE  ListenHolds'
<1>1. CASE UNCHANGED <<listen, profile, mic>>
  BY <1>1 DEF ListenHolds, ListenInv
<1>2. CASE \/ CloseListener \/ CloseRecognizer \/ Record \/ RecordBriefly
           \/ (\E t \in Jobs : Asks(t)) \/ Prepare \/ Process
  BY <1>1, <1>2 DEF CloseListener, CloseRecognizer, Record, RecordBriefly, Asks, Prepare,
                    Process, app
<1>3. CASE Begin
  <2>1. listen.at = "called" /\ UNCHANGED <<profile, mic>>
    BY <1>3 DEF Begin
  <2>2. Return(Interrupted) \/ Thread("recording")
    BY <1>3 DEF Begin
  <2>3. CASE Return(Interrupted)
    BY <2>1, <2>3, SomeResults, SilenceIsFit, ReturnKeeps
  <2>4. CASE Thread("recording")
    <3>1. listen' \in ListenStates
      BY <2>4, ListenFields DEF Thread, ListenHolds
    <3>2. /\ listen'.at = "recording" /\ listen'.mailbox = listen.mailbox
          /\ listen'.muted = listen.muted /\ listen'.moved = listen.moved
          /\ listen'.id = listen.id /\ listen'.path = listen.path
      BY <2>4 DEF Thread, ListenHolds, ListenStates
    <3> QED
      BY <2>1, <3>1, <3>2 DEF ListenHolds, ListenInv
  <2> QED
    BY <2>2, <2>3, <2>4
<1>4. CASE DeviceFailed
  <2>1. listen.at = "recording" /\ UNCHANGED <<profile, mic>>
    BY <1>4 DEF DeviceFailed
  <2>2. Return(None) \/ listen' = [listen EXCEPT !.tried = @ + 1]
    BY <1>4 DEF DeviceFailed
  <2>3. CASE Return(None)
    BY <2>1, <2>3, ReturnKeeps
  <2>4. CASE listen' = [listen EXCEPT !.tried = @ + 1]
    <3>1. listen' \in ListenStates
      BY <2>4 DEF ListenHolds, ListenStates
    <3>2. /\ listen'.at = listen.at /\ listen'.mailbox = listen.mailbox
          /\ listen'.muted = listen.muted /\ listen'.moved = listen.moved
          /\ listen'.id = listen.id /\ listen'.path = listen.path
      BY <2>4 DEF ListenHolds, ListenStates
    <3> QED
      BY <2>1, <3>1, <3>2 DEF ListenHolds, ListenInv
  <2> QED
    BY <2>2, <2>3, <2>4
<1> QED
  BY <1>2, <1>3, <1>4, LoopKeeps, VoskKeeps, RefinementKeeps, RecognitionKeeps, JobKeeps,
     WaitKeeps, DecisionKeeps DEF Next, ListenThread

-----------------------------------------------------------------------------
(* The theorems *)

RecognitionInv == SoundInv /\ Pipes /\ ListenHolds

LEMMA SoundBegins == CaptureInit => SoundInv
<1> SUFFICES ASSUME CaptureInit PROVE SoundInv
  OBVIOUS
<1> USE DEF CaptureInit
<1>1. /\ heard \in [first : Nat, last : Nat, active : Nat, processed : Nat]
      /\ heard.active = 0 /\ heard.processed = 0
  BY Zeros DEF Fresh
<1>2. now \in 0..Horizon /\ spoken \in 0..now /\ 0 \in 0..(Wait + Most) /\ Len(<<>>) = 0
  BY CaptureAssumption DEF Horizon
<1>3. blocks \in Seq(BOOLEAN) /\ heard.active + Sounds(blocks) = spoken
  BY <1>1, NoSounds
<1>4. heard.active <= heard.processed /\ heard.processed + Len(blocks) <= now
  BY <1>1, <1>2
<1>5. path \in Paths \cup {"none"} /\ path # "pcm"
  OBVIOUS
<1>6. interrupt \in BOOLEAN /\ paused \in BOOLEAN /\ closed \in BOOLEAN /\ overflow \in BOOLEAN
  OBVIOUS
<1> HIDE DEF CaptureInit
<1>7. limit = 0 /\ ~overflow
  BY DEF CaptureInit
<1> QED
  BY <1>1, <1>2, <1>3, <1>4, <1>5, <1>6, <1>7 DEF SoundInv

LEMMA RecognitionBegun == Init => RecognitionInv /\ taken = None
<1> SUFFICES ASSUME Init PROVE RecognitionInv /\ taken = None
  OBVIOUS
<1>1. SoundInv /\ taken = None
  BY SoundBegins DEF Init, CaptureInit
<1>2. profile \in Profiles
  <2>1. Explored[1] \subseteq Loops
    BY RecognitionAssumption
  <2> QED
    BY <2>1 DEF Init, Loops, Profiles
<1>3. ListenHolds
  <2>1. mic = TRUE /\ listen = NoListen
    BY DEF Init
  <2> QED
    BY <1>2, <2>1, ListenBegun DEF ListenHolds, ListenInv
<1>4. Pipes
  <2>1. /\ call = [t \in Callers |-> Out] /\ answer = [t \in Callers |-> Nobody]
        /\ resting = FALSE /\ ended = FALSE /\ closing = "no" /\ active = None /\ child = Nobody
    BY DEF Init, ProcessInit
  <2>2. \A t \in Callers : call[t].at = "out" /\ answer[t] = Nobody
    BY <2>1, OutEntry
  <2>3. call \in [Callers -> [at : Statements, pipe : BOOLEAN]] /\ DOMAIN answer = Callers
    BY <2>1, OutEntry
  <2>4. ClosedForGood
    BY <2>1 DEF ClosedForGood
  <2>5. PipeInv
    BY <2>1, <2>2, JobsAreCallers DEF PipeInv
  <2> QED
    BY <1>2, <2>1, <2>2, <2>3, <2>4, <2>5, JobsAreCallers DEF Pipes
<1> QED
  BY <1>1, <1>3, <1>4 DEF RecognitionInv

LEMMA RecognitionTypes ==
  ASSUME RecognitionInv
  PROVE  TypeOK /\ ListenInv
BY DEF RecognitionInv, Pipes, ListenHolds, TypeOK

LEMMA RecognitionGoesOn ==
  RecognitionInv /\ [Next]_vars =>
    RecognitionInv' /\ (taken' = taken \/ taken' = None \/ Whole(taken'))
<1> SUFFICES ASSUME RecognitionInv, [Next]_vars
             PROVE  RecognitionInv' /\ (taken' = taken \/ taken' = None \/ Whole(taken'))
  OBVIOUS
<1>1. SoundInv /\ Pipes /\ ListenHolds /\ TypeOK /\ ListenInv
  BY RecognitionTypes DEF RecognitionInv
<1>2. CASE Next
  BY <1>1, <1>2, SoundGoesOn, PipesGoOn, ListenGoesOn DEF RecognitionInv
<1>3. CASE UNCHANGED vars
  <2>1. SoundInv'
    BY <1>1, <1>3 DEF SoundInv, vars
  <2>2. Pipes'
    BY <1>1, <1>3 DEF Pipes, PipeInv, ClosedForGood, vars
  <2>3. ListenHolds'
    BY <1>1, <1>3 DEF ListenHolds, ListenInv, vars
  <2> QED
    BY <1>3, <2>1, <2>2, <2>3 DEF RecognitionInv, vars
<1> QED
  BY <1>2, <1>3

(***************************************************************************)
(* One job at a time asks the recogniser, whoever waits for it, and none   *)
(* is left running when the program has closed it (refinement.py, and      *)
(* close of whisper_process.py); what the listener holds at each await     *)
(* belongs to the listen in progress, and the sound of a recording is      *)
(* accounted for.                                                          *)
(***************************************************************************)
THEOREM RecognitionHolds == Spec => []Inv
<1>1. RecognitionInv => Inv
  BY OneAtThePipe, RecognitionTypes DEF RecognitionInv, Pipes, Inv
<1>2. Init => RecognitionInv
  BY RecognitionBegun
<1>3. RecognitionInv /\ [Next]_vars => RecognitionInv'
  BY RecognitionGoesOn
<1> QED
  BY <1>1, <1>2, <1>3, PTL DEF Spec

(***************************************************************************)
(* What the user says reaches the recogniser whole, is marked as cut off,  *)
(* or was given all the time an utterance has: no block is lost unnoticed  *)
(* between the two threads (pcm_capture.py, listen.py with endpoint.py).   *)
(***************************************************************************)
THEOREM SpeechArrivesWhole == Spec => []SpeechIsWhole
<1> DEFINE Speech == RecognitionInv /\ (taken = None \/ Whole(taken))
<1>1. Speech => SpeechIsWhole
  BY WholeSpeech
<1>2. Init => Speech
  BY RecognitionBegun
<1>3. Speech /\ [Next]_vars => Speech'
  <2> SUFFICES ASSUME RecognitionInv, taken = None \/ Whole(taken), [Next]_vars
               PROVE  RecognitionInv' /\ (taken' = None \/ Whole(taken'))
    OBVIOUS
  <2>1. RecognitionInv' /\ (taken' = taken \/ taken' = None \/ Whole(taken'))
    BY RecognitionGoesOn
  <2>2. taken' = taken /\ Whole(taken) => Whole(taken')
    BY DEF Whole
  <2> QED
    BY <2>1, <2>2
<1> QED
  BY <1>1, <1>2, <1>3, PTL DEF Spec

(***************************************************************************)
(* What was said before the microphone was switched off leads to nothing,  *)
(* and no text starts an action unless its recogniser was in time, sure    *)
(* and heard it all, whatever job was late and whatever was broken off     *)
(* (_listen_for_turn of app.py, both listen_once, recognition_policy.py).  *)
(***************************************************************************)
THEOREM OnlyFitSpeech == Spec => []OnlyFitSpeechActs
<1>1. RecognitionInv => OnlyFitSpeechActs
  <2> SUFFICES ASSUME ListenInv PROVE OnlyFitSpeechActs
    BY DEF RecognitionInv, ListenHolds
  <2>1. MutedSpeechIsDropped
    BY DEF MutedSpeechIsDropped, ListenInv, Tells, Withdrawn
  <2>2. OnlySureSpeechActs
    <3> SUFFICES ASSUME Tells, Eligible(listen.result)
                 PROVE  LET r == listen.result IN
                        /\ listen.path = "pcm" =>
                             r.engine = "whisper" /\ r.sure /\ ~PossibleFragment(r)
                        /\ profile = "refined" /\ ActionHint(r) => r.sure
                        /\ profile = "refined" /\ IsCommand(r) => IsCommand(listen.first)
      BY Zenon DEF OnlySureSpeechActs
    <3>1. /\ listen.at = "returned" /\ listen.result # None
          /\ listen.result.text # "" /\ listen.result.engine # "conflict"
      BY Zenon DEF Tells
    <3>2. Fit(profile, listen.path, listen.first, listen.result)
      BY <3>1, Zenon DEF ListenInv
    <3> QED
      BY <3>1, <3>2, Zenon DEF Fit
  <2> QED
    BY <2>1, <2>2 DEF OnlyFitSpeechActs
<1>2. Init => RecognitionInv
  BY RecognitionBegun
<1>3. RecognitionInv /\ [Next]_vars => RecognitionInv'
  BY RecognitionGoesOn
<1> QED
  BY <1>1, <1>2, <1>3, PTL DEF Spec
=============================================================================
