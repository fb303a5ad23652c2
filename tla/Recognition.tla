---------------------------- MODULE Recognition ----------------------------
(***************************************************************************)
(* From the microphone to the queue: the voice loop's side of a listen     *)
(* (_listen_for_turn of core/app.py), the listener's thread (listen_once   *)
(* of core/listen.py and core/stt_listener.py) with the recording it makes *)
(* and the recogniser it asks, the one job of services/audio/refinement.py *)
(* that may outlive the listen, the microphone switch and shutdown.        *)
(***************************************************************************)
EXTENDS Capture, WhisperProcess, RecognitionPolicy, FiniteSets

CONSTANTS MaxListens,  \* bound: listens; a listen and its job have the same number
          Microphones, \* how many _input_candidates lists
          Explored,    \* bound: the <<profile, path>> pairs of each listen
          Brief        \* bound: those of them whose recordings are one step; in their
                       \* profiles the microphone stays on: to the recogniser a switch
                       \* is an interruption like BreaksOff

Profiles == {"whisper", "groq", "vosk", "refined"}
Loops == ({"whisper", "groq"} \X {"pcm"}) \cup ({"whisper", "vosk"} \X {"confirming"})
         \cup ({"vosk", "refined"} \X {"native", "adaptive"})
         \cup {<<"refined", "quiet">>}

Flags == {"cut", "fragmented", "repeat", "truncated", "unreliable", "unscored"}
Engines == {"vosk", "whisper", "groq", "broken", "conflict", "interrupted"}
Recognised == [text : Words, engine : Engines, sure : BOOLEAN, flags : SUBSET Flags]

ASSUME RecognitionAssumption ==
  /\ {MaxListens, Microphones} \subseteq Nat \ {0} /\ Jobs = 1..MaxListens
  /\ Explored \in [Jobs -> SUBSET Loops] /\ Brief \subseteq Loops
  /\ None \notin Recognised \cup Jobs

VARIABLES
  profile,   \* what resolve_profile chose; "refined" is a VoskListener by itself
  mic,       \* microphone_enabled
  listen,    \* the listen in progress
  active     \* RefinementWait._active: the listen whose job has not ended, or None

vars == <<interrupt, paused, closed, path, now, blocks, overflow, heard, limit, words,
          spoken, denied, taken, call, answer, child, decoder, resting, ended, closing,
          profile, mic, listen, active>>
device == <<path, now, blocks, overflow, heard, limit, words, spoken, denied>>
app == <<profile, mic, listen, active>>

\* loop: the voice loop; at: the listener's thread; moved: the microphone was switched
\* since the listen began; muted: ... and was off while the thread ran (history).
NoListen == [id |-> 0, loop |-> "idle", at |-> "none", path |-> "none", tried |-> 0,
             moved |-> FALSE, muted |-> FALSE, first |-> None, mailbox |-> None,
             outcome |-> "done", result |-> None]

Init ==
  /\ CaptureInit /\ ProcessInit
  /\ profile \in {pair[1] : pair \in Explored[1]}
  /\ mic = TRUE /\ listen = NoListen /\ active = None

Thread(state) == listen' = [listen EXCEPT !.at = state]
\* listen_once returns or raises (None): what it worked with is gone, and its result too
\* unless the voice loop still looks at it.
Return(result) ==
  /\ listen' = [listen EXCEPT !.at = "returned", !.mailbox = None,
                   !.outcome = "done", !.result = IF listen.loop = "listening" THEN result ELSE None]
  /\ taken' = None

-----------------------------------------------------------------------------
(* The voice loop *)

Listen(p) ==
  /\ listen.loop = "idle" /\ listen.at = "none" /\ mic /\ listen.id < MaxListens
  /\ <<profile, p>> \in Explored[listen.id + 1]
  /\ listen' = [NoListen EXCEPT !.id = listen.id + 1, !.loop = "listening", !.at = "called",
                                !.path = p]
  /\ UNCHANGED <<flags, recording, whisper, profile, mic, active>>

\* The microphone is off, or was switched since.
Withdrawn == ~mic \/ listen.moved

\* Every 50 ms: the microphone was switched, or the assistant speaks or works.
BreaksOff ==
  /\ listen.loop = "listening"
  /\ interrupt' = TRUE
  /\ listen' = [listen EXCEPT !.loop = "awaiting", !.moved = FALSE, !.muted = FALSE,
                              !.result = None]
  /\ UNCHANGED <<paused, closed, recording, whisper, profile, mic, active>>

\* The thread has a text that goes to the queue, or to the confirmation.
Tells ==
  /\ listen.loop = "listening" /\ listen.at = "returned" /\ ~Withdrawn
  /\ listen.result # None /\ listen.result.text # "" /\ listen.result.engine # "conflict"

\* The text of a finished thread is told, or dropped, and the loop begins again.
Delivers ==
  /\ listen.loop \in {"listening", "awaiting"} /\ listen.at = "returned"
  /\ listen' = [NoListen EXCEPT !.id = listen.id]
  /\ UNCHANGED <<flags, recording, whisper, profile, mic, active>>

\* web_control: set_paused also interrupts.
SwitchMicrophone(on) ==
  /\ profile \notin {pair[1] : pair \in Brief} /\ listen.loop # "over"
  /\ mic' = on /\ paused' = ~on /\ interrupt' = (interrupt \/ ~on)
  /\ listen' = [listen EXCEPT !.moved = listen.loop = "listening",
                   !.muted = listen.loop = "listening" /\ (@ \/ (~on /\ listen.at # "called"))]
  /\ UNCHANGED <<closed, recording, whisper, profile, active>>

\* Shutdown cancels the voice loop; the listener's thread goes on until it returns.
Shutdown ==
  /\ listen.loop # "over" /\ interrupt' = TRUE
  /\ listen' = [listen EXCEPT !.loop = "over", !.moved = FALSE, !.muted = FALSE,
                              !.result = None]
  /\ UNCHANGED <<paused, closed, recording, whisper, profile, mic, active>>

\* close of the listener, before that of its recogniser.
CloseListener ==
  /\ listen.loop = "over" /\ ~closed /\ closed' = TRUE /\ interrupt' = TRUE
  /\ UNCHANGED <<paused, recording, whisper, app>>

CloseRecognizer ==
  /\ closed /\ (CloseBegins \/ CloseEnds) /\ UNCHANGED <<flags, recording, app>>

-----------------------------------------------------------------------------
(* The listener's thread *)

\* An interruption of the listen before it is forgotten, a pause and the end are not.
Begin ==
  /\ listen.at = "called"
  /\ IF closed \/ paused
     THEN interrupt' = FALSE /\ Return(Interrupted) /\ UNCHANGED <<paused, closed, device>>
     ELSE /\ interrupt' = FALSE /\ UNCHANGED <<paused, closed>>
          /\ Open(listen.path) /\ Thread("recording")
  /\ UNCHANGED <<whisper, profile, mic, active>>

Record ==
  /\ listen.at = "recording" /\ <<profile, listen.path>> \notin Brief /\ CaptureNext
  /\ UNCHANGED <<whisper, app>>

\* A whole recording in one step: any result that Capture has for the same path.
Results(p) ==
  LET ends == IF Cancelled THEN {"interrupted"}
              ELSE IF p = "pcm" THEN {"limit", "silence"} ELSE {"native", "noise"}
      texts == IF p = "pcm" THEN {"", "speech"} ELSE {"", "open", "whole"}
  IN {[path |-> p, kind |-> "failed", text |-> "", cut |-> FALSE, denied |-> FALSE,
       length |-> 0, all |-> TRUE]}
     \cup {r \in [path : {p}, kind : ends, text : texts, cut : BOOLEAN, denied : {FALSE},
                   length : {Most}, all : {TRUE}] :
            /\ p = "pcm" => (r.kind = "limit" => r.cut)
            /\ p # "pcm" => ~r.cut /\ (r.text = "") = (r.kind # "native")}

RecordBriefly ==
  /\ listen.at = "recording" /\ <<profile, listen.path>> \in Brief /\ path # "none"
  /\ \E r \in Results(path) : Over(r)
  /\ UNCHANGED <<whisper, app>>

\* The next microphone, or none is left and listen_once raises.
DeviceFailed ==
  /\ listen.at = "recording" /\ taken # None /\ taken.kind = "failed"
  /\ IF listen.tried + 1 < Microphones
     THEN /\ Open(listen.path) /\ listen' = [listen EXCEPT !.tried = @ + 1]
     ELSE Return(None) /\ UNCHANGED device
  /\ UNCHANGED <<flags, whisper, profile, mic, active>>

Recorded(p) ==
  listen.at = "recording" /\ path = "none" /\ taken # None /\ taken.kind # "failed" /\ p

\* Only a closed listener and an interruption discard Vosk's text here, no pause: but that
\* comes with an interruption.
Dropped == closed \/ interrupt

\* A text of the capture's decoder, with any confidence; a permission is a text as well.
VoskResults ==
  LET marked == IF listen.path = "adaptive"
                THEN (IF taken.cut THEN {"truncated", "fragmented"} ELSE {})
                     \cup (IF Fragment(taken.text) THEN {"cut", "repeat", "fragmented"} ELSE {})
                ELSE {}
      texts == CASE taken.text = "" -> {""}
                 [] Fragment(taken.text) -> {"open"}
                 [] taken.text = "greeting" -> {"chat"}
                 [] OTHER -> {"command", "action", "chat"}
  IN [text : texts, engine : {"vosk"}, sure : IF taken.text = "" THEN {FALSE} ELSE BOOLEAN,
      flags : {marked}]

\* Without a second recogniser Vosk's text is the result.
VoskReturns ==
  /\ Recorded(profile # "refined" /\ listen.path # "pcm")
  /\ \E r \in VoskResults : Return(IF Dropped \/ taken.kind = "interrupted" THEN Interrupted ELSE r)
  /\ UNCHANGED <<flags, device, whisper, profile, mic, active>>

\* No job of an earlier listen is under way.
Free == active = None

\* run of RefinementWait: one job at a time, with a mailbox of its own.
Ask(first) ==
  IF Free /\ ~Cancelled
  THEN /\ active' = listen.id
       /\ listen' = [listen EXCEPT !.at = "waiting", !.first = first, !.mailbox = None]
  ELSE /\ listen' = [listen EXCEPT !.at = "deciding", !.first = first,
                       !.outcome = IF Cancelled THEN "cancelled" ELSE "busy"]
       /\ UNCHANGED active

\* _should_refine says that the text is to be confirmed, or it is not asked at all.
RefinementBegins ==
  /\ Recorded(profile = "refined")
  /\ \E r \in VoskResults :
       IF taken.kind = "interrupted" THEN Return(Interrupted) /\ UNCHANGED active
       ELSE \/ ShouldRefine(r) /\ Ask(r) /\ UNCHANGED taken
            \/ /\ ~ShouldRefine(r) \/ r.text = ""   \* silence
               /\ Return(IF Dropped THEN Interrupted ELSE r) /\ UNCHANGED active
  /\ UNCHANGED <<flags, device, whisper, profile, mic>>

\* sparse_activity: a long span with next to no sound in it.
Sparse == profile = "groq" /\ taken.length >= LongSpan

\* listen_once after capture_pcm, up to the job.
RecognitionBegins ==
  /\ Recorded(listen.path = "pcm")
  /\ \/ Cancelled /\ Return(Interrupted) /\ UNCHANGED active
     \/ ~Cancelled /\ taken.text = "" /\ Return(Nothing("whisper")) /\ UNCHANGED active
     \/ /\ ~Cancelled /\ taken.text # "" /\ Sparse
        /\ Return([Nothing("groq") EXCEPT !.flags = {"fragmented", "unreliable", "unscored"}])
        /\ UNCHANGED active
     \/ ~Cancelled /\ taken.text # "" /\ Ask(None) /\ UNCHANGED taken
  /\ UNCHANGED <<flags, device, whisper, profile, mic>>

-----------------------------------------------------------------------------
(* The job *)

Asks(t) ==
  /\ active = t /\ profile # "groq" /\ Request(t) /\ UNCHANGED <<flags, recording, app>>

\* What the reply to this thread is, as a result of the recogniser; a reply to "prepare"
\* has neither text nor flags, and listen_once fails on it.
ReplyOf(reply) ==
  IF reply.op = "prepare" THEN {[Nothing("broken") EXCEPT !.flags = {}]}
  ELSE [text : IF reply.text = "" THEN {""} ELSE IF reply.text = "open" THEN {"open"}
               ELSE IF profile = "refined" THEN {"command", "chat"} ELSE {"chat"},
        engine : {"whisper"}, sure : {reply.text \in {"open", "sure"}},
        flags : {IF reply.flagged THEN {"unreliable"} ELSE {}}]

\* GroqBackend.transcribe: an answer of the service, or one of many failures; nothing is
\* taken from it once it is closed.  It has no score.
GroqReplies ==
  LET failure == [Nothing("groq") EXCEPT !.flags = {"fragmented", "repeat", "unreliable",
                                                    "unscored"}]
  IN {failure} \cup (IF closing = "over" THEN {} ELSE
       [text : {"open", "chat"}, engine : {"groq"}, sure : {FALSE},
        flags : {{"fragmented", "unscored"}}])

\* The mailbox belongs to the listen that began the job, which may wait no longer.
JobEnds(t) ==
  /\ active = t /\ active' = None
  /\ \/ /\ profile = "groq" /\ UNCHANGED whisper
        /\ \E r \in GroqReplies :
             listen' = [listen EXCEPT !.mailbox = IF listen.id = t /\ listen.at = "waiting"
                                                  THEN r ELSE @]
     \/ /\ profile # "groq" /\ answer[t] # Nobody /\ answer' = [answer EXCEPT ![t] = Nobody]
        /\ UNCHANGED <<call, child, decoder, resting, ended, closing>>
        /\ \E r \in ReplyOf(answer[t]) :
             listen' = [listen EXCEPT !.mailbox = IF listen.id = t /\ listen.at = "waiting"
                                                  THEN r ELSE @]
  /\ UNCHANGED <<flags, recording, profile, mic>>

TimesUp_Never == FALSE
\* The hard budget of the wait, for which the job is left alone.
TimesUp == listen.at = "waiting"

Waited ==
  /\ listen.at = "waiting"
  /\ \/ /\ Cancelled
        /\ listen' = [listen EXCEPT !.at = "deciding", !.outcome = "cancelled"]
     \/ /\ ~Cancelled /\ TimesUp
        /\ listen' = [listen EXCEPT !.at = "deciding", !.outcome = "timeout"]
     \/ /\ ~Cancelled /\ listen.mailbox # None
        /\ listen' = [listen EXCEPT !.at = "deciding", !.outcome = "done"]
  /\ UNCHANGED <<flags, recording, whisper, profile, mic, active>>

Reply == IF listen.outcome = "done" THEN listen.mailbox ELSE Nothing("whisper")

\* The primary recogniser has not done it, or is not sure.
Failure(reply) ==
  \/ listen.outcome # "done" \/ "unreliable" \in reply.flags \/ reply.text = ""
  \/ "unscored" \notin reply.flags /\ ~reply.sure

\* The fallback of a failed recognition is Vosk, if that is configured, and not for Groq.
Fallback(r) ==
  IF profile = "groq" THEN {r}
  ELSE {r} \cup [text : {"", "open", "chat"}, engine : {"vosk"}, sure : BOOLEAN,
                 flags : {{}}]

\* The end of _recognize_capture and of listen_once.
Decides ==
  /\ listen.at = "deciding"
  /\ \/ (Cancelled \/ listen.outcome = "cancelled") /\ Return(Interrupted)
     \/ Reply.engine = "broken" /\ Return(None)
     \/ /\ ~Cancelled /\ Reply.engine # "broken" /\ listen.outcome # "cancelled"
        /\ IF profile = "refined"
           THEN LET unsafe == listen.outcome # "done" \/ Reply.text = "" \/ ~Reply.sure
                IN Return(Refined(listen.first, SelectResult(listen.first, Reply), unsafe))
           ELSE LET failed == Failure(Reply) IN
                \E r \in IF failed THEN Fallback(Reply) ELSE {Reply} :
                  Return(Marks(r, failed, taken.cut))
  /\ UNCHANGED <<flags, device, whisper, profile, mic, active>>

\* The preparation at startup (stt_whisper_preload), and what the processes do.
Prepare ==
  /\ profile = "whisper" /\ Request(Preparer) /\ UNCHANGED <<flags, recording, app>>

Process == ProcessNext /\ UNCHANGED <<flags, recording, app>>

ListenThread ==
  \/ Begin \/ Record \/ RecordBriefly \/ DeviceFailed \/ VoskReturns \/ RefinementBegins
  \/ RecognitionBegins \/ Waited \/ Decides

Next ==
  \/ \E p \in Paths : Listen(p)
  \/ BreaksOff \/ Delivers \/ (\E on \in BOOLEAN : SwitchMicrophone(on)) \/ Shutdown \/ CloseListener \/ CloseRecognizer
  \/ ListenThread
  \/ \E t \in Jobs : Asks(t) \/ JobEnds(t)
  \/ Prepare \/ Process

Spec == Init /\ [][Next]_vars

\* The listener's thread and the threads that ask go on, their waits have ends, and the
\* clock of a recording ticks.  Nothing is assumed of the process, which may hang, nor of
\* the user; shutdown, once begun, goes through.
FairSpec ==
  /\ Spec
  /\ WF_vars(Begin) /\ WF_vars(Record) /\ WF_vars(RecordBriefly) /\ WF_vars(DeviceFailed) /\ WF_vars(Waited) /\ WF_vars(Decides)
  /\ WF_vars(VoskReturns) /\ WF_vars(RefinementBegins) /\ WF_vars(RecognitionBegins)
  /\ WF_vars(CloseListener) /\ WF_vars(CloseRecognizer)
  /\ \A t \in Callers : WF_vars(Caller(t) /\ UNCHANGED <<flags, recording, app>>)

-----------------------------------------------------------------------------
ListenStates ==
  [id : 0..MaxListens, loop : {"idle", "listening", "awaiting", "over"},
   at : {"none", "called", "recording", "waiting", "deciding", "returned"},
   path : Paths \cup {"none"}, tried : Nat, moved : BOOLEAN, muted : BOOLEAN,
   first : Recognised \cup {None}, mailbox : Recognised \cup {None},
   outcome : {"done", "cancelled", "busy", "timeout"}, result : Recognised \cup {None}]

TypeOK ==
  /\ resting \in BOOLEAN /\ ended \in BOOLEAN /\ mic \in BOOLEAN /\ profile \in Profiles
  /\ call \in [Callers -> [at : Statements, pipe : BOOLEAN]] /\ DOMAIN answer = Callers
  /\ closing \in {"no", "ended", "over"}
  /\ listen \in ListenStates /\ active \in Jobs \cup {None}

\* No process is left when the program has closed its recogniser, whoever was asking for
\* one at that moment.
ClosedForGood == closing = "over" => child = Nobody

\* One job at a time owns the recogniser (refinement.py:1 "one drain-only job owns the
\* worker pipe"), and one request at a time its pipe.
OneJobAtATime ==
  /\ \A t \in Jobs : call[t].at # "out" \/ answer[t] # Nobody => active = t
  /\ Cardinality({t \in Callers : call[t].at \in {"state", "send", "poll"}}) <= 1

\* Who asks the recogniser is the one job, and has no answer yet; one of them holds its lock,
\* and nothing is started once close has begun.
PipeInv ==
  /\ closing # "no" => ended
  /\ \A t \in Callers : answer[t] # Nobody => call[t].at = "out"
  /\ profile = "groq" => \A t \in Jobs : call[t].at = "out" /\ answer[t] = Nobody
  /\ \A t, u \in Callers : {call[t].at, call[u].at} \subseteq {"state", "send", "poll"} => t = u

\* What a listen has at each await: a loop that its profile knows, what the first recogniser
\* has made of it, and in its mailbox only what the second has; what it returns is fit.
Fit(who, loop, first, r) ==
  r.text # "" /\ r.engine # "conflict" /\ Eligible(r) =>
    /\ loop = "pcm" => r.engine = "whisper" /\ r.sure /\ ~PossibleFragment(r)
    /\ who = "refined" /\ ActionHint(r) => r.sure
    /\ who = "refined" /\ IsCommand(r) => IsCommand(first)
ListenInv ==
  /\ listen.muted => listen.moved
  /\ listen.at # "none" => listen.id > 0 /\ <<profile, listen.path>> \in Loops
  /\ listen.at \in {"waiting", "deciding"} =>
       IF profile = "refined" THEN listen.first # None ELSE listen.path = "pcm"
  /\ listen.mailbox # None =>
       listen.mailbox.engine \in {"whisper", "broken"} \/ "unscored" \in listen.mailbox.flags
  /\ listen.at = "deciding" /\ listen.outcome = "done" => listen.mailbox # None
  /\ listen.at = "returned" /\ listen.result # None =>
       Fit(profile, listen.path, listen.first, listen.result)

Inv == TypeOK /\ ClosedForGood /\ OneJobAtATime /\ SoundInv /\ PipeInv /\ ListenInv

\* The ends of a recording that nobody checks and nobody marks: a phrase was held in vain;
\* outside capture_pcm and the adaptive loop the decoder has ended a stretch, or the time was
\* up (listen.py:408-410, 322-325, 463-475).
Unwatched(r) == \/ r.kind = "held"
                \/ r.path \in {"native", "quiet", "confirming"} /\ r.kind \in {"native", "timeout"}

\* What was said after the last block that the decoder has seen is not cut off unnoticed:
\* a recording that lacks some of the sound is marked, unless its end was unwatched.
CutSpeechIsMarked ==
  taken # None /\ taken.text # "" /\ ~taken.cut /\ ~Unwatched(taken) => taken.all

\* The time for which nobody spoke is not taken off the time for the utterance.
SpeechHasItsBudget ==
  taken # None /\ taken.kind = "limit" /\ taken.text # "" => taken.length >= Most

\* What the user says arrives whole, or is marked as cut, wherever a loop decides by a pause
\* that the recording is over, and wherever capture_pcm or the adaptive loop gives it up; and
\* capture_pcm gives an utterance all its time.
SpeechIsWhole == CutSpeechIsMarked /\ SpeechHasItsBudget

\* What was said before the microphone was switched off is not acted upon when it is on
\* again, wherever the thread was.
MutedSpeechIsDropped == Tells => ~listen.muted

\* A text may start an action only if the recogniser that is responsible for it has
\* answered in time, was sure and had the whole recording; a command that two recognisers
\* were asked about was one to both.
OnlySureSpeechActs ==
  Tells /\ Eligible(listen.result) =>
    LET r == listen.result IN
    /\ listen.path = "pcm" => r.engine = "whisper" /\ r.sure /\ ~PossibleFragment(r)
    /\ profile = "refined" /\ ActionHint(r) => r.sure
    /\ profile = "refined" /\ IsCommand(r) => IsCommand(listen.first)

\* Only speech that is wanted and sure leads to anything.
OnlyFitSpeechActs == MutedSpeechIsDropped /\ OnlySureSpeechActs

\* A listen ends although the recogniser hangs, and nobody waits for a recogniser that
\* has been closed.
ThreadsEnd ==
  listen.at \in {"called", "recording", "waiting", "deciding"} \/ closing = "over"
    ~> /\ listen.at \in {"none", "returned"}
       /\ closing = "over" => \A t \in Callers : At(t, "out")

\* A recording that ends by its limit is marked as truncated
\* (docs/ARCHITECTURE.md:319, RecognitionResult.capture_truncated).
LimitIsMarked ==
  taken # None /\ taken.kind \in {"limit", "timeout"} /\ taken.text # "" => taken.cut

\* listen.py:436 "A negative partial changing into a positive final is ambiguous: never
\* turn that conflict into permission."
ConflictIsNoPermission ==
  taken # None /\ taken.path = "confirming" /\ taken.text = "yes" => ~taken.denied
=============================================================================
