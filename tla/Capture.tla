------------------------------ MODULE Capture ------------------------------
(***************************************************************************)
(* One recording of the microphone, on the listener's thread, while the    *)
(* audio thread delivers blocks: the whole utterance for a primary         *)
(* recogniser (services/audio/pcm_capture.py), and the recording that Vosk *)
(* follows word by word (core/listen.py with services/audio/endpoint.py),  *)
(* with its native endpoint, with a pause as well, with the adaptive       *)
(* endpoint, or for a confirmation.                                        *)
(* A block is a tick; a text is one of the classes that the code tells     *)
(* apart.  One action is one turn of a capture loop.                       *)
(***************************************************************************)
EXTENDS Naturals, Sequences, FiniteSetsExt

CONSTANTS None,
          Wait,        \* ticks for the onset of speech (timeout)
          Most,        \* further ticks for an utterance (utterance_timeout)
          Places,      \* blocks that capture_pcm's queue holds; bound: how many blocks
                       \* the decoder may be behind, whose queue has no end
          Silence,     \* [short, usual, long, fixed]: the pauses that end an utterance;
                       \* fixed is that of the quiet loop
          ShortSpan, LongSpan,  \* ... of less, or of at least, so many ticks
          Hold         \* ticks that an unfinished phrase is held

ASSUME CaptureAssumption ==
  /\ {Wait, Most, Places, Hold, ShortSpan, LongSpan} \subseteq Nat
  /\ Silence \in [{"short", "usual", "long", "fixed"} -> Nat \ {0}]

VARIABLES
  interrupt, paused, closed, \* the events of the listener
  path,      \* the loop that runs, one of Paths, or "none"
  now,       \* ticks since it began
  blocks,    \* the queue between the two threads: is there sound in a block
  overflow,  \* capture_pcm: a block was dropped, or the device says so
  heard,     \* the endpoint, on the timeline of the blocks that were taken
  limit,     \* capture_pcm: deadline
  words,     \* Vosk: what is known of the text
  spoken,    \* history: the blocks with sound since the beginning, taken or not
  denied,    \* history: a confirmation's partial text was a refusal
  taken      \* what the loop has returned, or None

flags == <<interrupt, paused, closed>>
recording == <<path, now, blocks, overflow, heard, limit, words, spoken, denied, taken>>

\* feed of the energy gate: what nobody has said aloud is no speech.
SpeechObserved == spoken > 0

Horizon == Wait + Most + 1   \* bound: the clock stops here
Paths == {"pcm", "native", "quiet", "adaptive", "confirming"}
\* "greeting" is a FAST_CHAT, which only the quiet loop tells apart.
Texts == CASE path = "confirming" -> {"", "yes", "no"}
           [] path = "quiet" -> {"", "open", "whole", "greeting"}
           [] OTHER -> {"", "open", "whole"}
Fresh == [first |-> 0, last |-> 0, active |-> 0, processed |-> 0]
NoWords == [segment |-> "", text |-> "", changed |-> 0, native |-> None,
            until |-> None, held |-> FALSE, merged |-> FALSE]

CaptureInit ==
  /\ interrupt = FALSE /\ paused = FALSE /\ closed = FALSE
  /\ path = "none" /\ now = 0 /\ blocks = <<>> /\ overflow = FALSE /\ heard = Fresh
  /\ limit = 0 /\ words = NoWords /\ spoken = 0 /\ denied = FALSE /\ taken = None

\* cancelled of capture_pcm; the events that the other loop looks at.
Cancelled == interrupt \/ paused \/ closed
Stopped == interrupt \/ paused

Open(p) ==
  /\ path' = p /\ now' = 0 /\ blocks' = <<>> /\ overflow' = FALSE /\ heard' = Fresh
  /\ limit' = Wait /\ words' = NoWords /\ spoken' = 0 /\ denied' = FALSE /\ taken' = None

-----------------------------------------------------------------------------
(* The audio thread *)

\* A tick: the callback puts a block, or the device delivers none.  Only capture_pcm's
\* queue has an end.
BlockArrives(sound) ==
  /\ path # "none" /\ now < Horizon
  /\ now' = now + 1
  /\ IF sound = None THEN UNCHANGED <<blocks, overflow, spoken>>
     ELSE /\ path = "pcm" \/ Len(blocks) < Places
          /\ spoken' = IF sound THEN spoken + 1 ELSE spoken
          /\ IF path = "pcm" /\ Len(blocks) >= Places
             THEN overflow' = TRUE /\ UNCHANGED blocks
             ELSE blocks' = Append(blocks, sound) /\ UNCHANGED overflow
  /\ UNCHANGED <<flags, path, heard, limit, words, denied, taken>>

\* feed of either endpoint.
Fed(sound) ==
  LET at == heard.processed IN
  [processed |-> at + 1,
   first |-> IF sound /\ heard.active = 0 THEN at ELSE heard.first,
   last |-> IF sound THEN at + 1 ELSE heard.last,
   active |-> IF sound THEN heard.active + 1 ELSE heard.active]

Quiet(h) == h.processed - h.last
Span(h) == h.last - h.first

-----------------------------------------------------------------------------
(* capture_pcm *)

\* threshold_ms.
Threshold(h) == IF Span(h) < ShortSpan THEN Silence.short
                ELSE IF Span(h) >= LongSpan THEN Silence.long ELSE Silence.usual

Ready(h) == h.active > 0 /\ Quiet(h) >= Threshold(h)

\* The budget of an utterance begins with its sound, and not with the wait for it.
Backdated(h) == Min({Wait + Most, now + Most - (h.processed - h.first)})

\* What the loop kept for itself is gone.
Over(result) ==
  /\ taken' = result
  /\ path' = "none" /\ now' = 0 /\ blocks' = <<>> /\ overflow' = FALSE /\ heard' = Fresh
  /\ limit' = 0 /\ words' = NoWords /\ spoken' = 0 /\ denied' = FALSE
  /\ UNCHANGED flags

EndPcm(h, cut) ==
  Over([path |-> "pcm", cut |-> cut \/ overflow,
        kind |-> IF Cancelled THEN "interrupted" ELSE IF cut THEN "limit" ELSE "silence",
        text |-> IF h.active > 0 THEN "speech" ELSE "", denied |-> FALSE,
        length |-> IF h.active > 0 THEN now - h.first ELSE 0, all |-> h.active = spoken])

Unheard_Ignored(rest) == TRUE
\* Nothing waits in the queue: what was said meanwhile is not cut off.
Unheard(rest) == rest = <<>>

TakePcm ==
  /\ path = "pcm" /\ now < limit /\ ~Cancelled /\ blocks # <<>>
  /\ LET h == Fed(Head(blocks)) IN
     IF Ready(h) /\ Unheard(Tail(blocks)) THEN EndPcm(h, FALSE)
     ELSE /\ heard' = h /\ blocks' = Tail(blocks)
          /\ limit' = IF h.active = 1 /\ heard.active = 0 THEN Backdated(h) ELSE limit
          /\ UNCHANGED <<flags, path, now, overflow, words, spoken, denied, taken>>

\* The deadline, or a cancellation.
PcmEnds == path = "pcm" /\ (now >= limit \/ Cancelled) /\ EndPcm(heard, TRUE)

-----------------------------------------------------------------------------
(* _listen_on_device *)

\* possible_fragment: the text ends with a word that asks for another.
Fragment(text) == text = "open"

\* finish: the flags go with the text of the decoder's final result.
Finish(h, text, kind, rest) ==
  Over([path |-> path, text |-> IF Stopped THEN "" ELSE text, denied |-> denied,
        kind |-> IF Stopped THEN "interrupted" ELSE kind,
        cut |-> path = "adaptive" /\ kind = "timeout",
        length |-> now, all |-> h.active = spoken /\ rest = <<>>])

\* FinalResult after the segments that the decoder has already closed.
Combined(segment, text) == IF text = "" THEN segment ELSE text

Expired == words.until # None /\ now >= words.until

\* wait_expired at the head of the loop: the phrase was held long enough.
HoldEnds ==
  /\ path = "adaptive" /\ now < Wait /\ ~Stopped /\ Expired
  /\ \E text \in Texts : Finish(heard, Combined(words.segment, text), "held", blocks)

\* continuation: what goes on is not held again.
Continued(w) == [w EXCEPT !.merged = TRUE, !.until = None, !.native = None]

\* required_silence of the adaptive endpoint.
Required(h, text) ==
  IF h.active >= LongSpan THEN Silence.long
  ELSE IF text # "" /\ ~Fragment(text) THEN Silence.short ELSE Silence.usual

\* A phrase that ends openly is held once, unless it went on.
HoldOnce(w) == ~w.held

\* ready: the pause is long enough and the text has stood still; a phrase that may go on
\* is held first.  What is known of the text afterwards, and whether the turn is over.
Judged(h, w) ==
  LET quiet == IF w.native = None THEN Quiet(h) ELSE h.processed - w.native
      candidate == /\ w.text # "" /\ h.active > 0 /\ quiet >= Required(h, w.text)
                   /\ w.native # None \/ h.processed > w.changed
      holds == candidate /\ Fragment(w.text) /\ ~w.merged
      begun == IF holds /\ HoldOnce(w) THEN [w EXCEPT !.held = TRUE, !.until = now + Hold] ELSE w
  IN IF w.until # None /\ now >= w.until THEN [over |-> TRUE, words |-> w]
     ELSE [over |-> candidate /\ ~(holds /\ begun.until # None /\ now < begun.until),
           words |-> begun]

\* The decoder says that a stretch of speech is over, or shows what it has so far.
Decoded(final, text, same, h) ==
  LET w == words
      goesOn == IF final THEN text # "" /\ w.segment # ""
                ELSE text # "" /\ (w.segment # "" \/ (w.until # None /\ ~same))
      w1 == IF goesOn THEN Continued(w) ELSE w
      w2 == IF final /\ text # "" THEN [w1 EXCEPT !.segment = text, !.native = h.last] ELSE w1
      shown == Combined(w2.segment, IF final THEN "" ELSE text)
  IN IF same THEN w2 ELSE [w2 EXCEPT !.text = shown, !.changed = h.processed]

SameText(final, text, same) ==
  same => words.text = Combined(IF final /\ text # "" THEN text ELSE words.segment,
                                IF final THEN "" ELSE text)

TakeAdaptive ==
  /\ path = "adaptive" /\ now < Wait /\ ~Stopped /\ ~Expired /\ blocks # <<>>
  /\ \E final \in BOOLEAN, text \in Texts, same \in BOOLEAN :
       /\ SameText(final, text, same) /\ (final /\ ~SpeechObserved => text = "")
       /\ LET sound == Head(blocks)
              h == Fed(sound)
              judged == Judged(h, Decoded(final, text, same, h))
              w == judged.words
          IN IF /\ judged.over /\ ~(w.native # None /\ sound)
                /\ SpeechObserved /\ Unheard(Tail(blocks))
             THEN \E last \in Texts : Finish(h, Combined(w.segment, last), "quiet", Tail(blocks))
             ELSE /\ heard' = h /\ blocks' = Tail(blocks) /\ words' = w
                  /\ UNCHANGED <<flags, path, now, overflow, limit, spoken, denied, taken>>

\* All but the adaptive loop end where the decoder ends a stretch, whatever else is in the
\* queue.
TakeNative ==
  /\ path \in {"native", "quiet", "confirming"} /\ now < Wait /\ ~Stopped /\ blocks # <<>>
  /\ SpeechObserved
  /\ \E text \in Texts \ {""} : Finish(Fed(Head(blocks)), text, "native", Tail(blocks))

\* A refusal that becomes a permission in the last result of the same words is neither.
Conflict(partial, text) == partial = "no" /\ text = "yes"

\* After how long a pause the partial text is flushed; a greeting is left to the decoder.
Pause == IF path = "confirming" THEN Silence.short ELSE Silence.fixed
MayFlush(text, h) == path = "quiet" => text # "greeting" /\ h.active > 0

\* No end yet: a confirmation and the quiet loop watch the decoder's partial text and flush
\* it after a pause, the native loop goes on.
TakePartial ==
  /\ path \in {"native", "quiet", "confirming"} /\ now < Wait /\ ~Stopped /\ blocks # <<>>
  /\ \E text \in Texts, same \in BOOLEAN :
       LET h == Fed(Head(blocks))
           w == IF same THEN words ELSE [words EXCEPT !.text = text, !.changed = h.processed]
       IN /\ path = "native" => text = "" /\ same
          \* "": a stretch ended without words
          /\ same => text = words.text \/ (text = "" /\ path # "quiet")
          /\ IF /\ text # "" /\ SpeechObserved /\ Unheard(Tail(blocks))
                /\ h.processed > w.changed /\ Quiet(h) >= Pause /\ MayFlush(text, h)
             THEN \E last \in Texts :
                    Finish(h, IF Conflict(text, last) THEN "" ELSE last, "flushed", Tail(blocks))
             ELSE /\ heard' = h /\ blocks' = Tail(blocks) /\ words' = w
                  /\ denied' = (denied \/ text = "no")
                  /\ UNCHANGED <<flags, path, now, overflow, limit, spoken, taken>>

\* The time is up: what the decoder has, unless nobody was heard.
VoskTimeout ==
  /\ path \in Paths \ {"pcm"} /\ now >= Wait
  /\ \E text \in Texts :
       LET all == Combined(words.segment, text) IN
       IF all # "" /\ SpeechObserved THEN Finish(heard, all, "timeout", blocks)
       ELSE Finish(heard, "", "noise", blocks)

VoskStopped ==
  /\ path \in Paths \ {"pcm"} /\ now < Wait /\ Stopped
  /\ Finish(heard, "", "interrupted", blocks)

\* The device cannot be opened or read, or delivers nothing but zeros.
DeviceFails ==
  /\ path # "none"
  /\ Over([path |-> path, text |-> "", denied |-> denied, cut |-> FALSE, kind |-> "failed",
           length |-> 0, all |-> TRUE])

CaptureStep ==
  \/ TakePcm \/ PcmEnds \/ HoldEnds \/ TakeAdaptive \/ TakeNative \/ TakePartial
  \/ VoskTimeout \/ VoskStopped

CaptureNext == CaptureStep \/ DeviceFails \/ \E s \in BOOLEAN \cup {None} : BlockArrives(s)

-----------------------------------------------------------------------------
Sounds(queue) == Cardinality({i \in DOMAIN queue : queue[i]})

\* What a recording has at each turn of its loop: unless a block was dropped, what was said
\* has been heard or is still in the queue; and an utterance ends later than its time after
\* the first sound.
SoundInv ==
  /\ interrupt \in BOOLEAN /\ paused \in BOOLEAN /\ closed \in BOOLEAN /\ overflow \in BOOLEAN
  /\ path \in Paths \cup {"none"} /\ now \in 0..Horizon /\ limit \in 0..(Wait + Most)
  /\ blocks \in Seq(BOOLEAN) /\ spoken \in 0..now
  /\ heard \in [first : Nat, last : Nat, active : Nat, processed : Nat]
  /\ heard.active <= heard.processed /\ heard.processed + Len(blocks) <= now
  /\ overflow \/ heard.active + Sounds(blocks) = spoken
  /\ path # "pcm" => ~overflow
  /\ path = "pcm" => IF heard.active = 0 THEN limit = Wait ELSE limit >= heard.first + Most
=============================================================================
