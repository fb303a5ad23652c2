# A TLA+ model of Raven

Raven (this repository) is a desktop voice assistant: one asyncio process that listens,
reads typed lines, asks a language model what is meant, asks the user before it changes
anything, acts, and speaks. Most of its code is sequential, but what makes it dependable
is not: every turn crosses awaits at which the user may stop, pause, type or switch the
microphone, at which timers fire and threads go on, and much of what a short "yes" means
depends on what an earlier turn has left open.

These modules model that part of the program. `PROJECT.json` maps every definition to
the lines it models and lists the runs, the hazards, the findings and the theorems.

## 1. The system

| Component | State it keeps | Operations | What makes it correct |
|---|---|---|---|
| Confirmation service, `core/confirmation.py` | the lock, the published request, queued replies, the deadline | `ask`, `submit`, `wait_until_response_processed` | an approval answers the very question it was given to; every ask returns |
| Input delivery, `core/app.py`, `core/dispatch_guard.py` | command queue, single-use tickets, the one waiting place, `command_idle`, microphone epoch | `_submit_text`, `_wait_for_text_delivery`, `_voice_loop`, `_command_loop`, stop button | every accepted input runs once, and meets the prompt its author saw |
| Speech output, `core/speak.py`, `services/platform/windows_tts.py` | generation, phrase queue, stop flags, worker, voice process | `say`, `stop`, `close`, `wait_until_idle` | what was stopped is not heard; what was said since is |
| Model requests, `services/llm/manager.py`, `first_text.py`, `errors.py` | active provider, pauses, history | `chat`, `converse`, `interpret_command`, `summarize_web` | one voice per turn, bounded time, a truthful history |
| Dialogue turns, `core/processor.py` with `action_proposal.py`, `task_context.py`, `document_reading.py`, `natural_turn.py`, `action_policy.py`, `command_actions.py` | proposal, list, clarifying question, document list, previous reply, pause | `process`, `interrupt_conversation` | one short answer has one meaning; nothing changes without consent |
| Turn gate, `core/turn_gate.py`, `core/models.py` | none | the quality of an utterance | doubtful speech starts nothing |
| Atomic JSON files, `core/atomic_json.py` | the file, its `.tmp`, its `.bakN` | `load`, `save`, `purge_backups` | a save happens wholly or not at all; what was deleted is gone |
| Reminders, `services/storage/reminder_store.py`, `_reminder_loop` | the file of reminders | announcing, adding, cancelling, completing | each due time is announced once, and marked only then |
| Single instance, `core/single_instance.py` | the lock file | `acquire`, `release` | one instance runs, and a lone launch gets in |
| Speech capture and recognition, `core/listen.py`, `core/stt_listener.py`, `services/audio/*` | the recording with its queue, the recogniser's process and its pipe, the one refinement job | record, `_request`, `close`, refine, `listen_once`, `_listen_for_turn` | what was said arrives whole or marked; only sure text acts; no process and no wait outlives the program |
| Workplace agent, `services/apps/workplace.py` | the running task, the last task, `cancelled` | `run`, `followup`, `cancel`, `clear_context` | what is launched was approved in this task, unchanged; every task ends and says truly what it did |
| File search, `services/files/file_service.py` | the kept walk, its key and age, the progress record | `search`, `cancel_search`, `close` | the pages of a walk are whole: nothing twice, nothing left out |
| Task progress, `core/task_progress.py` | none | `current`, `cancel` | a button cancels the task it names, or nothing |
| Browser interface, `core/web_ui.py`, `web_ui/app.js`, `native_ui/*` | bounded event log, what a page or the window shows, the text a user has begun, the bridge between two threads | publish, poll, push, call, start, close | a text answers the question its author saw; the state is shown in the end; a closed window ends the core |
| Web answers, `services/web/*`, `skills/web/skill.py` | the search process, the pages being read, the last answer with its sources | `search_web`, `answer`, `_fill_gaps`, `followup`, `summarize` | an answer cites what was read; a first answer yields only to a better one |
| Pentest mode, `services/pentest/*`, `skills/pentest/skill.py` | the session, its target, the scan and its status | activate, set a target, scan, deactivate, shutdown | a scan runs only as consented to, and ends with the mode |
| Memory and knowledge, `skills/memory/*`, `services/storage/*` | facts, the knowledge base with its imports, a password in the clipboard, what backups and the conversation still hold | add, remember, forget, clear, import a folder, lend a password | what was forgotten is gone everywhere it was promised to be |
| Health, platform adapters, provider transports, command parsing | see section 8 | | |

How they interact. The voice loop, the console and the windows deliver input to one
command queue; `_command_loop` takes one turn at a time and calls
`CommandProcessor.process`. The processor asks the model through `LLMManager`, which
streams text to the speaker while the turn runs, and executes an action through
`command_actions`, which awaits `ConfirmationService.ask`. The ask speaks its question
(through the speaker, whose queue it joins), and while it waits the voice loop and the
typed sources hand their input to `submit` instead of the queue. Stop and pause reach
the speaker, the running model request (a task that is cancelled), the proposal and the
waiting place, but not an action that runs. Reminders and stores write atomic files
beside all this; the reminder loop does so in worker threads.

What is hard to test here, at the lines given under "hazards": replies that arrive for
an earlier question; senders that wake up to a world that has changed; a stop that races
with the thread it is to stop; cancellation delivered at an await nobody thought of; a
retry of what was partly heard; several things left open for one short answer; files
written by two tasks, or cut short.

## 2. The modules

`Name_Fault` operators are plausible faults of the definition whose name precedes the
underscore. They are part of no specification; "mutants" names the property that each
violates when it replaces that definition.

| Module | Models | Composed with |
|---|---|---|
| `ReplyPolicy` | what a reply decides: `_decision`, `voice_confidence` | extended by `Confirmation` |
| `Confirmation` | `ConfirmationService`, its callers and its sources of replies | implements `ConfirmationContract` |
| `ConfirmationContract` | what callers of `ask` rely on | |
| `ConfirmationProofs` | theorems | extends `Confirmation` |
| `Delivery` | submitters, voice loop, command loop, buttons, shutdown | |
| `DeliveryProofs` | theorems | extends `Delivery`, `Interface` |
| `Speaker` | producers, queue, worker, the speaking thread, stops, the voice process or output device | |
| `SpeakerProofs` | theorems | extends `Speaker` |
| `LLMManager` | a turn's requests over several providers, in ticks | |
| `LLMManagerProofs` | theorems | extends `LLMManager` |
| `TurnTrust` | the turn gate and the local readings of the words | extended by `Dialogue` |
| `Dialogue` | every path of `process` in chat mode, and what is left open between turns | |
| `DialogueProofs` | theorems | extends `Dialogue` |
| `AtomicFile` | every file operation of a save, a restore, a purge | implements `AtomicFileContract` |
| `AtomicFileContract` | one value, replaced as a whole | |
| `Reminders` | the store, the announcing loop, the commands, restarts | |
| `SingleInstance` | launches as sequences of system calls | |
| `FileProofs` | theorems | extends `AtomicFile`, `Reminders`, `SingleInstance` |
| `TaskProgress` | ids of long tasks and whom a cancellation meets | extended by the two below |
| `Workplace` | the workplace agent | |
| `FileSearch` | the resumable file search | |
| `WebReader` | the search process and the page reader | extended by `WebAnswers` |
| `WebAnswers` | a question to the web, its second try, what is kept for the next | |
| `Pentest` | the audit mode with its background scan | |
| `Stores` | facts, knowledge base, import, clipboard | |
| `Tasks` | the long tasks of a session: turns one at a time, registry, windows, typed lines, the scan behind the turns, shutdown | composes `Workplace`, `FileSearch`, `WebAnswers`, `Pentest`, `Stores` |
| `TasksProofs` | theorems | extends `Tasks` |
| `Capture` | one recording: the loops of `pcm_capture.py` and `listen.py`, block by block | extended by `Recognition` |
| `WhisperProcess` | the threads at the recogniser's pipe, and the process | extended by `Recognition` |
| `RecognitionPolicy` | what may be made of a recognised text | extended by `Recognition` |
| `Recognition` | a listen from the microphone to the queue, refinement, switch, shutdown | composes the three above |
| `RecognitionProofs` | theorems | extends `Recognition` |
| `Interface` | the page and the window, from the published event to the call | |
| `MC*` | the instances that the configurations check | |

How state and actions correspond to the code:

- **One action is what runs between two awaits** (or, in the speaking thread, in a file
  or in the lock, between two reads or writes of what others share). asyncio runs such a
  stretch without interruption, so `Leave` of `Confirmation` is the whole `finally` block
  of `ask`, and `Over` of `Dialogue` goes with the assignments before a `return`.
- **Confirmation.** `phase` is the await at which each caller of `ask` stands; `request`,
  `awaiting`, `processed`, `responses` are the fields of those names; `held` is the id a
  source read before it listened or typed. `grant` and `first` are history.
- **Delivery.** `text[s]` is one invocation of `_submit_text`, with the context it has
  captured; `slot` is `_waiting_input`; `worker` is the command loop with the turn in its
  hands; `pending` are the tickets of `DispatchGuard`. A turn is reduced to what delivery
  depends on: is a chat or a confirmation running, which prompt is open. `Event.set`
  wakes every waiter for good (`WakeAll`), `Event.wait` does not look again. A
  finished recording is awaited once more after the last look at `command_idle`, so that
  `Heard` and `EnqueueSpeech` are two actions and an utterance may be blocked in `put`.
- **Speaker.** `thread` is the next step of `_speak_sync`, `process` the resident voice,
  `sounding` the phrase that is heard, `stop[p]` the await or thread step each concurrent
  stop has reached, `pending` the counter of stops. A phrase is the generation in which
  it was said and that of its turn. `selected` says whether an output device is set.
- **LLMManager.** `turn` is the loop of `_chat_request` or `converse`, `step` what it
  awaits, `request` the open request with its two timers. The providers are the
  environment: they may send text, end, refuse, fail or stay silent at any tick.
- **TurnTrust and Dialogue.** A quality is the set of flags of a `TurnEnvelope`. A text is
  one of fifteen classes, the ones which the regular expressions of the repository tell
  apart. `now` is the turn in progress, `proposal`, `tasks`, `pending`, `docs`, `reply` are
  what earlier turns left open. What the model answers is any answer that the decoder lets
  through; what an action does is an outcome. A control of a window asks the user, switching
  to one does not: `Kind` tells `focus_window` apart. A question may lead to an action of
  its kind, and any request to a search of the web when the model says that it does not know
  (`MayInquire`). `stamping` is the await at which `open_file` of `task_context.py` has
  compared the file with its list and not yet taken the stamp with which it compares
  afterwards; `act.slipped` is history: the file was replaced there.
- **AtomicFile.** `main`, `temp`, `bak` are the files, `Torn` a half-written text,
  `Abandon` an exception or the death of the program at any step, `PowerLoss` the loss of
  what the system had not yet written. `faulty` says whether the machine has such losses
  and reads that fail.
- **Reminders.** `copy` is what the loop's thread has loaded and will save, `change` what
  the user's command has: load, change and save are not under one lock in the code. `told`
  is what was said of which time and when, `lost` the times that the code loses: marked as
  missed when the program was killed before it said so, or added while the loop had the file
  loaded.
- **Workplace.** `step` is the await at which `run` stands; `plan`, `fresh`, `verdict`,
  `last` are `targets`, `fresh`, what `_approve` has got and `_last_task`. `answered` and
  `settling` are the two awaits of `_approve`, between which a cancellation may still
  come. `agreed`, `spared` and `launched` are history. What a name resolves to and which
  windows there are is chosen anew at every look.
- **FileSearch.** `searching` says what the thread does under `_lock`; a file is its place
  in the walk, so that `cursor` is the generator. `Key` has the time in it for a dated
  request, as the file skill computes `modified_after` from the clock.
- **WebReader and WebAnswers.** A web is a map from public addresses to a text, a refusal
  or a redirect; `Canon` is `public_url`. `service` holds the fields of the service and
  of the candidate that `_fill_gaps` makes; `look` is the await. A search finds any of
  some ranked lists, a page answers or is slow, and the model cites any set of numbers.
- **Pentest.** `turn` is what the turn asks, `job` is `_task`, `leaving` is shutdown's own
  `deactivate`, which may overlap that of a turn. `names` and `checks` are the hosts and
  ports of the scan. `consented` is history.
- **Stores.** `wish` is the request with what it is about, fixed before the user is asked;
  `waits` its await. `folder` is read file by file in a thread, while the user may change
  it. A chunk is its file, that file's version and its number. A save ends in one of three
  ways, which are what `AtomicFile` leaves behind: an error before anything is replaced,
  done, or done with a backup that could not be removed, of which only the log is told
  (`stuck`). `talk` is what the conversation may hold of the facts: its history, and the
  rest that `_personal_memory_turn` clears. `gone`, `forgotten` and `unsaid` are history:
  the entries and facts of which the user was told, by the answer, that they are removed,
  forgotten, or out of the conversation, whatever the code has done to that end.
- **Tasks.** Turns begin tasks one at a time. `shown` is what a window shows, which may
  be older than what runs; `meant` holds the ids for which a button was pressed;
  `skills` says which skills the session has.
- **Capture.** A block of audio is a tick. `blocks` is the queue between the audio thread
  and the decoder, `heard` the endpoint's timeline (`first` and `last` sound, `active`,
  `processed`), `words` what Vosk has made of it: nothing, an unfinished or a whole phrase.
  `spoken` and `denied` are history. The loop of `listen.py` has three forms: with the
  adaptive endpoint, with one that flushes the decoder after a fixed pause (`quiet`), and
  with the decoder's own; a confirmation has a fourth.
- **WhisperProcess.** `call[t]` is the statement of `_request` at which a thread stands,
  with its end of the pipe: the request lock is held from `state` on, the state lock is
  one action. `decoder` is the recogniser in the process with its two models.
- **Recognition.** `listen` has the voice loop's side and the listener's thread; `active` is
  `RefinementWait._active`, the job that may outlive its listen. A result has a class of
  text, whether it is sure, and its flags.
- **Interface.** `wire.jobs`, `wire.replies`, `wire.packets` are calls, answers and states
  on their way: in any order and losable for the page, in order for the window's thread.
  `client` is what the page's script or the window knows. `stage` is how far the core
  thread has started or closed.
- **SingleInstance.** `pc` is the next system call of each launch; `open` are the
  processes that hold the file they made, which Windows therefore does not remove.

## 3. The runs

Every passing run checks all properties of one component, safety and liveness together.
Related invariants are conjoined: `Inv` of a module (`IInv`, `ReminderInv`, `LockInv`,
`InterfaceInv`) is its type invariant with the named parts in parentheses. It holds what a
proof needs as well, so that the runs check what the proofs rest on.

| Run | Instance | Shows |
|---|---|---|
| `confirmation` | two callers, a typed source and the voice loop, two requests, two queued replies, clean, damaged and cut-off speech | `IInv` (`TypeOK`, `RequestInv`, `LockInv`, `BoundInv`, `NothingCarriedOver`, `GrantAnswersItsRequest`, and `VerdictInv` on the first reply that decides), `RepliesDecide` (`FirstDecisiveReplyDecides`, `OnlySoundSpeechApproves`), the refinement `KeepsContract`, `NobodyIsLeftWaiting` (`AskReturns`, `VoiceIsReleased`) |
| `delivery` | the console (a task that shutdown cancels), one window, the voice loop, three turns, one prompt, two microphone switches | `Inv` (`TicketsAccountedFor`, `TicketsOnce`, `IdleIsTruthful`, `SlotHasItsWaiter`, and `CourseInv` on who stands where with which ticket), `DirectTextMeetsItsPrompt`, `WithdrawnInputIsDropped` (`BlockedInputObeysStop`, `SwitchedOffSpeechIsDropped`), `InputGetsSomewhere` (`EveryTicketRuns`, `NoSenderIsStuck`) |
| `delivery_prompt` | the same | violation of `DelayedTextMeetsItsPrompt` |
| `speaker` | two producers of two phrases each, two concurrent stops or closes, a queue of one, with and without a selected output | `Inv` (`FlagOutlivesStop`, `JoinCountsTheQueue`, `PlaybackEndsWithThePhrase`, and `ThreadInv`, `AgeInv`, `PassInv` on the thread and its phrase), `StaleRequestsCannotPlay`, `StopsSpareNewSpeech`, `WaitingEnds` (`JoinReturns`, `CloseEndsTheWorker`) |
| `llm` | three providers, four kinds of request, three attempts, three turns of four ticks, pauses of up to two, the first-text switch on and off | `Inv` (`RequestsShareTheTime`, and `TurnGoesOn`, `TurnSpeaks`, `TurnRefuses`, `TurnIsCut` on what a turn has at each await), `AnswersStand` (`OneVoice`, `HistoryIsTheTurn`, `RefusedAnswersStay`, `InterruptEndsTurn`), `PausedProviderNotAsked`, `TurnEnds` |
| `atomic` | three values, two backups, sound and faulty machines | `Inv` (`DeletedIsGone`, `BackupsAreHistory`, and `StepInv`, `HistoryInv`, `PurgeInv` on what is where at each step), the refinement `KeepsContract` |
| `reminders` | four files an earlier session may have left, three reminders, one command, one restart, a clock of three seconds | `ReminderInv` (`TriggeredWasAnnounced`, `EachTimeOnce`, and `MarkInv`, `OnceInv` on the copies of the file that are on their way), `DueIsAnnounced` |
| `instance` | three launches with crashes over an absent, empty or stale lock, on Windows | `LockInv` (`LockIInv` with `HolderOwnsLock`, `OneInstance`), `AloneGetsIn` |
| `recognition` | two listens on each loop of each profile, up to seven blocks of sound, a queue of two, two models in the process, which may hang, die or fail; microphone switches and shutdown | `Inv` (`ClosedForGood`, `OneJobAtATime`, and `SoundInv`, `PipeInv`, `ListenInv` on the recording, the threads at the pipe and the listen), `SpeechIsWhole` (`CutSpeechIsMarked`, `SpeechHasItsBudget`), `OnlyFitSpeechActs` (`MutedSpeechIsDropped`, `OnlySureSpeechActs`), `ThreadsEnd` |
| `interface` | the page with two questions, the window with one; a log of one event, a lost answer, a call and a packet on their way, two attempts at the password | `InterfaceInv` (`GapsAreTold`, `ClosedIsQuiet`, and `ReadersInv`, `CallsInv` on what is on its way), `AnswersWereMeant`, `InterfaceGoesOn` (`StateIsShown`, `ControlsComeBack`, `ClosingEnds`) |
| `tasks` | sessions of some skills each: two launches or searches (lists of one or two programs, one name with two executables or versions, three files, pages of one); questions over three webs of seven addresses; scans of three hosts and two ports; a folder of two files, three facts, two passwords | `Inv` (`StepsTellTheTruth`, `CancelMeetsItsTask`, `StatusIsTheScans`, and `WorkInv`, `WalkInv`, `HandedInv`, `WebInv`, `ScanHolds`, `StoresHold` on what each skill knows at each await), `OnlyApprovedRuns` (`LaunchesWereApproved`, `ScansWereApproved`), `DataIsWhole` (`PagesAreWhole`, `ImportsAreOfOneVersion`, `ForgottenStaysForgotten`), `AnswersAreSound` (`SourcesStandBehindAnswers`, `SecondTryIsNew`, `ContextIsCurrent`), `FirstAnswerStands`, `TasksEnd` |
| `dialogue` | all fifteen texts, seven qualities, six tools, both with and without the document and memory skills | `Inv` (`OneQuestionAtATime`, and `TurnInv`, `TrustInv`, `GroundInv`, `OpenInv` on what a turn at each of its awaits has and has left open), `ProposalsAreCurrent` (`LateAnswersAreVoid`, `ProposalIsForTheNextTurn`), `ActionsWereMeant` (`ChangesAreConfirmed`, `OnlyTheActionAskedFor`, `UnscoredSpeechIsBounded`), `ReplacedFileStaysShut` |

Why the bounds are enough:

- `confirmation`: two callers meet at the lock, two requests are needed for a reply to go
  to the wrong one, and two queued replies for one to overtake the other. A third request
  repeats the state after the second.
- `delivery`: the queue has one place in the code as well. With three turns one runs, one
  is queued and a third waits or is blocked in `put`; one prompt is one that somebody has
  not seen. Two switches turn the microphone off and on again. In this run a user takes
  longer to answer a confirmation than woken tasks need to resume (`HastyAnswers` is
  FALSE): with TRUE the safety properties hold as well, but a sender could be made to
  wait by ever new confirmations.
- `speaker`: a stop that overtakes another needs two, and the phrases of two turns are
  the old and the new one. `QueueSize` is 1 so that producers have to wait.
- `llm`: three providers leave a provider to skip between the first and the last. In four
  ticks a first text of one tick, a retry of two and a switch all fit, and all can run
  out. Three turns carry a pause and a changed active provider into a later turn.
- `atomic`: a rotation needs two backups to have an order and a loss; with three values
  the file, both backups and the value being saved may differ or agree.
- `reminders`: the files contain a missed reminder, a recurring one missed several times,
  two that recur with different periods and the same text, and one that is to come; in three
  seconds the periods of two and of three both come round. One command is enough to
  interleave a load and save with the loop's. `Periods` are seconds where the program has
  days.
- `instance`: one launch that looks, one that removes and one that makes the lock. The
  code's four attempts are two here: three launches cannot use up four, so that a launch
  which runs out of attempts would not occur.
- `tasks`: the second task is the retry of the first, the continued search, or the one
  that a late button may hit. In three files a match comes before and after a miss, and
  with pages of one the walk breaks off at either. `Sessions` keeps apart what meets in
  the turn gate only; launches and searches are looked at together as well, without the
  five minutes after which each is forgotten. Four redirects are the code's own limit, and
  one of the webs uses it up. Two hosts are permitted of three, so that a target may be
  partly permitted; one connection at a time lets ports wait. The base holds two chunks
  where a file may have one or two, so that a file fits, is skipped, or loses its place;
  of the three facts two share a key; two timers of the clipboard may overlap.
- `recognition`: the onset of speech, its pauses and its end fit into the seven ticks; the
  second listen meets the job of the first. `Brief` loops record in one step, because
  nothing but the result matters behind it; the others go block by block. `Explored` leaves out loops that differ from explored ones in their recogniser
  only. The loop with the fixed pause, block by block, is that of the first listen only; a
  fixed pause is a tick, so that it can end while another block is waiting.
- `interface`: with a log of one event every second event is one too many. Two requests
  are needed to confuse them; their numbers are used again, as a page cannot tell. The
  window's thread may be behind by as many packets as the bound allows.
- `dialogue` has no bound on turns at all: the state is finite by abstraction, and the
  run covers every number of turns. Tools beyond the six (weather, ...) are treated by
  the code as one of them is.

`CHECK_DEADLOCK FALSE` stands where the system may really stop: the bounds on turns and
phrases are used up, the program is shut down, or every launch has ended.

## 4. Fairness

- `Confirmation!FairSpec`: the event loop goes on, the clock ticks, speech ends. Nothing
  is assumed of the user or of the sources of replies, and a caller need not ask.
- `Delivery!FairSpec`: weak fairness of what the event loop has ready, of the end of a
  chat (bounded by the model's time limit) and of a confirmation (by its deadline); strong
  fairness of the end of a turn, which consists of finitely many chats and confirmations
  although the model does not count them. Nobody has to type, speak or press anything.
- `Speaker!FairSpec`: weak fairness of the worker, of the speaking thread and of each
  stop; the resident process answers, dies or meets the deadline that `_speak_sync` polls.
  Strong fairness of a blocked `put` and of the stop lock, whose waiters asyncio serves
  first in, first out.
- `LLMManager!FairSpec`: the clock, the timers and the clean-up of cancelled requests.
  Nothing is assumed of the providers: `TurnEnds` is about their silence.
- `Reminders!FairReminderSpec`: the loop sleeps a second at most, its threads end; a command that
  has loaded the file saves it.
- `Tasks!FairSpec`: every await of a task has its time limit (ten seconds for a name,
  three for a look, eight for a window, the deadline of the confirmation), a search its
  budget of fifteen seconds, the search process ten, the pages twelve, a summary
  twenty-five, a scan `scan_timeout`; a cancelled scan unwinds; a confirmation of the
  memory skill has its deadline, the timer of the clipboard its thirty seconds.
- `Recognition!FairSpec`: the listener's thread, its waits, the recording's clock and the
  threads at the pipe go on; shutdown, once begun, goes through. Nothing is assumed of
  the recogniser's process, which may hang for ever, or of the user.
- `Interface!FairInterfaceSpec`: the core's loop, the window's loop, the page's script and the
  thread that starts go on, and the password dialog is answered. Nothing is assumed of
  the user, of turns, or of how long a message waits for its turn.
- `AtomicFile`, `SingleInstance` and `Dialogue` state safety only.

## 5. What is proved

For every value of the constants that the named assumptions of the modules allow, by
TLAPS. Every safety invariant, action property and refinement of a passing run is a
theorem; liveness is not.

`ConfirmationProofs`, from `ConfirmationAssumption` (the callers are finitely many,
the voice loop is one of the sources, bounds are naturals):

- `TypeCorrect`, `GrantsAnswerTheirRequest`, `RepliesStayWithTheirRequest`,
  `PublishedRequestsHaveOwners`. That an approval answers its own request is not
  inductive: in a state in which the queue holds a reply to another request the next
  `TakeReply` would break it. `CallInv` adds that everything queued is for the published
  request and that nothing is queued when none is published (`NothingCarriedOver`), that
  the published request is that of the caller inside `ask` (`RequestInv`), that the lock's
  queue holds exactly the callers before or inside, each once, with only its head inside
  (`LockInv`), and that each caller in the queue has an id to come (`BoundInv`, which the
  bound on requests needs). The ways out of `ask` share the lemma about its `finally` block.
- `FirstSoundReplyDecides` (`RepliesDecide`). What the first decisive reply to a request
  was is history; `VerdictInv` says where it still is: in the queue, behind replies that
  decide nothing, until the caller takes it, and with the caller afterwards.
- `Refinement`: every step implements a step of `ConfirmationContract` or none. `IInv` is
  used for the steps that end an ask, where the contract wants the consent to be to the
  request that ends.

`FileProofs`, from `AtomicFileAssumption` (at least one backup; a half-written text and no
file are no values), `SingleInstanceAssumption` and `RemindersAssumption` (the reminders of
a kept file are numbered in its order), for any values and either kind of machine:

- `HistoryIsKept` (`Inv`). `BackupsAreHistory` breaks off in the middle of a rotation, when
  one value is in two places: `HistoryInv` says for each step how far the backups have
  moved, `StepInv` what the temporary file holds, `PurgeInv` which backups a removal has
  passed. Lemmas say what the front of a sequence cut to `Backups` is.
- `Refinement`: `Replace` is a save of `AtomicFileContract`, the choice of a backup its
  restoration, the loss of power its breaking, everything else a stutter.
- `LockTypesHold`, on either operating system. `HoldersOwnTheLock` and `Exclusion` (`LockInv`)
  ASSUME `Windows`. `HolderOwnsLock` is inductive with the types: a launch makes the file
  only where there is none, has it open until it releases it, and a file that is open is
  not removed. Without the assumption the step `Unlink` breaks it, and on Linux it is false
  (section 7).
- `CrashesLetIn` (`AloneGetsIn`), on either operating system, ASSUMEs two attempts (the code
  has four; with one, a launch that removes a stale lock has none left to make its own).
  `AloneInv`: beside a launch that is alone nobody lives or holds a file, so that the lock it
  finds can be removed, and it has an attempt left when it comes back.
- `RemindersHold` (`ReminderInv`). The user's save may undo the loop's, so nothing holds of
  the file that does not hold of every copy of it: by `MarkInv` a copy marks only what was
  announced. That no time is announced twice holds while the user does not interfere;
  `OnceInv` says for each thing said that it is behind the reminder in the file, or its
  mark is on the way and nothing else is.

`DeliveryProofs`, from `DeliveryAssumption` (finitely many submitters, and tickets for
the queue, for each of them and the voice loop, and one more: 64 in
`core/dispatch_guard.py:6`, a queue of one and a handful of inputs):

- `DeliveryIsConsistent` (`Inv`). That the pending tickets are those queued, blocked or in
  the command loop needs that each is in one such place (`TicketsOnce`) and that the guard
  never drops one, for which the pending tickets are counted against `Capacity`. That an
  empty waiting place has nobody waiting, and `command_idle` its truth, go together with
  `CourseInv`: at each place, what an input can still have met.
- `DirectTextIsBound` (`DirectTextMeetsItsPrompt`) and `WithdrawnInputNeverRuns`
  (`WithdrawnInputIsDropped`) follow from it. `QueueCourse` is the step between: a text
  that found the loop free is first in the queue, with the loop waiting, so that no turn
  can raise a prompt before it.
- `InterfaceHolds` (`InterfaceInv`), from `InterfaceAssumption`, for a page and a window, a log
  of any length and any bounds. That a gap is told is not inductive: what a window is
  pushed next must follow what it has, with several packets on their way (`ReadersInv`), and
  what a page's log has dropped must be followed by more. `AnswersAreMeant` (`AnswersWereMeant`)
  is `CallsInv` at the core: the question that a draft is bound to is the one its call names.

`SpeakerProofs`, from `SpeakerAssumption` (finitely many concurrent stops):

- `VoiceIsConsistent` (`Inv`), `StoppedSpeechIsSilent` (`StaleRequestsCannotPlay`) and
  `StopsSpareTheNext` (`StopsSpareNewSpeech`, an action property). `ReadyInv` counts the
  stops under way, so that the last one and no other lets the worker go on; `AgeInv` orders
  phrases by generation. `PassInv` says what saves the thread, which looks at its flags
  and acts afterwards: whatever has passed a look is current, or a stop that has not yet
  killed the process will.

`LLMManagerProofs`, from `LLMAssumption` (the providers in their order, none twice; positive
times and attempts):

- `TurnsHold` (`Inv`): the four parts say what a turn at each await has said, whom it may
  still ask and whether it was refused or cut off.
- `AnswersStandAlone` (`AnswersStand`): `HistoryIsTheTurn` is inductive with `Inv`; the
  other parts follow, `InterruptEndsTurn` by `TurnIsCut`: an interruption that was not
  swallowed has its request to close, and no other request behind it. The one await at which
  it is swallowed (section 7) is excepted by name, with any limit on the first text.
- `PausedAreLeftAlone` (`PausedProviderNotAsked`), an action property: every way to a request
  goes through the choice of a provider that is not paused.

`DialogueProofs`, from `DialogueAssumption` (`None` is no tool and no question, speech has
known flags, any set of skills), for any tools, texts and qualities:

- `TurnsAreConsistent` (`Inv`). That of what a short answer may mean at most one thing is
  open relates what several turns have left; it is inductive with `OpenInv`, by which a turn
  has closed what it found before it opens anything. `TurnInv`, `TrustInv` and `GroundInv` say
  what a turn has at each await, so that an action at the end has its grounds although
  speech, request and answer were looked at in different stretches. One lemma for each way
  of leaving something open, cited by the actions that share it.
- `WhatIsDoneWasMeant` (`ActionsWereMeant`), `OffersAreCurrent` (`ProposalsAreCurrent`) and
  `ReplacedFilesStayShut` (`ReplacedFileStaysShut`) follow from it, by the definitions of
  what the paths admit. Each says what the code does and no more: switching to a window is
  not confirmed; a request leads to the action it names or to a search of the web; and a
  file that is replaced in the await between the first comparison and the second stamp is
  opened (section 7), what is replaced before or after it is not.

`TasksProofs`, from the assumptions of the modules it composes: a list has one to three
names, none twice, as `services/apps/workplace.py:205-210` requires (`WorkplaceAssumption`);
`public_url` makes public addresses (`ReaderAssumption`), a search has at most five rows
(`AnswersAssumption`); ports and hosts are finitely many (`PentestAssumption`); a file has a
part at least (`StoresAssumption`). Each skill is proved about by itself, and then among the
others, which leave its variables alone.

- `LaunchesAreApproved`. `LaunchesWereApproved` relates what was launched to what was agreed
  to, which the steps do not look at. `WorkInv` joins them: the plan is what was agreed to
  (`PlanInv`), the steps are verified up to the one at work, which is launched from the plan
  at most once (`LaunchInv`), and a retry takes up names that the last task had not verified
  (`LastInv`, for which a lemma says what is left of a list). `ReportsAreTrue`
  (`StepsTellTheTruth`) follows with `ToldInv`.
- `Approval`: a scan runs only as approved. `ScansWereApproved` is not inductive: a scan
  that is started again takes the target that is set, and a new session forgets the
  consents. `ApprovalHolds` adds that the target that is set was consented to and is
  permitted, that nothing is set and nothing runs while the user is asked whether to
  begin a session, and that shutdown leaves no question behind. `RunsAreApproved`
  (`OnlyApprovedRuns`) joins it with `LaunchesAreApproved`.
- `StatusIsTrue` (`StatusIsTheScans`): `ScanHolds` adds who it is that cancels a scan, so that
  its status has an author; the connections are counted as those of the ports under way.
- `CancellationsMeetTheirTask` (`CancelMeetsItsTask`): `WalkInv` adds that a walk is active only
  while the thread is at it, so that a turn which is free to begin meets none.
- `PagesOfAWalk` (`PagesAreWhole`): by `HandedInv` what was handed out and the page in hand are,
  at each step, exactly the matching files up to the cursor.
- `AnswersStandOnSources` (`AnswersAreSound`) and `TheFirstAnswerStands` (`FirstAnswerStands`):
  `BatchInv` says which rows are being read and that they follow, in rank, those whose pages
  are kept; `KeptInv` whose answer is being made.
- `MemoriesAreSound` (`ForgottenStaysForgotten`): what the user was told against the file,
  its backups and the conversation. What was told is recorded by the answer and not by what
  the save did; the one exception is the backup that could not be removed (section 7).
- `WholeDataOnly` (`DataIsWhole`): that, the pages, and imports of one version. The import of a folder
  is a recursion over its files; lemmas say by induction what it and a removal leave of the
  base.
- `SessionsHold` (`Inv`): all of it together, with the types.

`RecognitionProofs`, from `CaptureAssumption` (lengths are naturals, a pause is positive),
`ProcessAssumption` and `RecognitionAssumption`, on every loop and with every profile:

- `RecognitionHolds` (`Inv`). The inductive invariant joins three that are kept apart:
  `SoundInv` by the capture loops, where the sound heard and the sound still queued are what
  was spoken unless the queue has overflowed; `Pipes` by the threads at the pipe, where a
  job that has not ended is the active one, so that at most one stands in the request; and
  `ListenHolds` by the listen, whose mailbox has only what its own refinement made.
- `SpeechArrivesWhole` (`SpeechIsWhole`): a recording is whole when it is taken; it is
  carried beside the invariant, as the loop that made it is over then. It covers the end by
  a pause that the program itself has measured, in every loop, and every end of
  `capture_pcm` and of the adaptive loop but a phrase held in vain. The other ends
  (`Unwatched`) are left out, because there the code neither looks at what is queued nor
  marks what it hands on (section 7).
- `OnlyFitSpeech` (`OnlyFitSpeechActs`): what is returned passed the same tests at its await
  (`Fit` in `ListenInv`), and a microphone switched off leaves its mark on the listen.

No theorem assumes fairness: they are about `Init /\ [][Next]_vars`.

Only model-checked: all liveness (the prover has no rule for fairness and `ENABLED`), that is
`NobodyIsLeftWaiting`, `InputGetsSomewhere`, `WaitingEnds`, `TurnEnds`, `DueIsAnnounced`, `TasksEnd`,
`ThreadsEnd` and `InterfaceGoesOn`. Nor is it proved what the recursions over
data compute in full: the induction theorems of the library take an operator as a
parameter, which the provers cannot instantiate. Where an invariant needs an induction, it
is over a set of numbers (`SetInduction` in `TasksProofs`), from the well-foundedness of
inclusion between finite sets.

## 6. The finding that a run shows

A property quoted from the repository which TLC finds violated; PROJECT.json has the
lines and the quotations.

- `delivery_prompt`: a text that waited for a turn to end does not look at `command_idle`
  again. It is queued behind a text that got in meanwhile and can answer a question which
  that one has raised (`core/app.py:611`).

## 7. Known disagreements without a run

Met in the same way, and reproducible by checking the formula named. The passing
runs state the corresponding property with the exception made explicit.

| What the code does | What the repository says | Formula |
|---|---|---|
| The waiter decides that it was not cancelled (`core/app.py:624`) and awaits two helper tasks before it leaves the waiting place; a stop in that window reports that the text was taken off, and the text runs. | `core/app.py:619`, `:811` | `StopTakesInputOff` of `Delivery` |
| When a selected output device fails, the system player gets the whole recording although a stop has returned (`core/speak.py:370`). | `docs/STT_BACKENDS.md:265` "stale requests cannot play" | `StaleRequestsCannotPlay` without `~selected` |
| The one retry of an empty answer, given up as slow, is taken to another model after all (`manager.py:385`). | `first_text.py:12`, `manager.py:406` | `RefusedAnswersStay` without its exception |
| A backup that stands in for a slow primary and then breaks off or is refused becomes the active provider (`manager.py:395`, `:412`). | `manager.py:426`, `docs/CONFIGURATION.md:103` | `turn.slow` and a turn that has ended imply `active = Head(turn.seq)` |
| Missed reminders are marked before they are announced; a program that dies in between never announces them (`reminder_store.py:57`). `DueIsAnnounced` excepts them. | `docs/TECHNICAL_SPECIFICATION.md:190` | `MissedWasAnnounced` of `Reminders` |
| The store's load, change and save are not atomic between the loop's thread and a command: a missed reminder becomes pending again (`reminder_store.py:72`), or one that the user adds meanwhile is lost with the loop's save. `EachTimeOnce` is therefore about a session without such a command, and `DueIsAnnounced` excepts what is added meanwhile. | the same line | `MissedUntilCompleted` of `Reminders` |
| `mark_completed` takes the first reminder with the text, also one that is completed already (`reminder_store.py:107`). | the same line | `CompletionReaches` of `Reminders` |
| A program killed between the replacement of the file and the purge leaves backups of what the user deleted, and nothing removes them (`atomic_json.py:46`). | `atomic_json.py:34` "deleted records do not survive in rotating backups" | `DeletedForGood` of `AtomicFile` |
| A request for files of yesterday or of the last month carries the time at which it was made (`skills/files/skill.py:92`); its repetition is another request to the search, which begins again each time. | `skills/files/skill.py:32`: the same request within five minutes continues the walk | `RepeatedRequestContinues` of `Tasks` |
| A cancellation that arrives while `_approve` closes its helper tasks is accepted, and a list is saved all the same (`workplace.py:187`, `:243`). | `workplace.py:83` | `task.status # "saved"` whenever `cancelled`, in `Tasks` |
| `close` between the last section under the progress lock and the release of `_lock` leaves the walk and its open directory (`file_service.py:67`, `:181`). | the purpose of `close` | `stopped /\ searching = "no" => cursor = None` in `Tasks` |
| On Linux a launch that judged the lock stale removes the one another launch has made since; two instances run (`single_instance.py:37`). | `docs/CONFIGURATION.md:191`, `docs/LINUX_RUNTIME.md:80` | `OneInstance` with `Windows = FALSE` |
| A memory turn and a refused document end before `begin_turn`, so that a proposal outlives them (`processor.py:216`, `:200`). | `action_proposal.py:98` "One proposal, one next turn" | `ProposalIsForTheNextTurn` without `enabled = {}` |
| The same turns, and those the gate restricts, leave a list open (`processor.py:227`). | `task_context.py:92` | `AnotherRequestClosesTheList` of `Dialogue` |
| The previous reply, which a "yes" may accept, is not replaced by what local commands, memory turns and refusals say (`processor.py:975`). | `action_policy.py:55` | `OfferIsThePreviousReply` of `Dialogue` |
| A pause pressed while the name of a program is looked up cancels nothing, and the model is asked (`processor.py:845`). | `docs/USER_GUIDE.md:517` | `PausedAsksNobody` of `Dialogue` |
| "Forget the entry" may take one chunk of an imported file. The file's sha is still among the others, so that the next update finds it unchanged and never brings the chunk back (`knowledge_store.py:75`, `knowledge_import.py:70`). | `docs/USER_GUIDE.md:63`, `skills/memory/knowledge.py:125` | `UpdateBringsBack` of `Stores` |
| Between the comparison of a chosen file with its list and the stamp with which it is compared before it is opened there is an await; a file that is replaced there is opened, a document without any question (`core/task_context.py:121`). | `docs/BEHAVIORAL_CONTRACTS.md:82` "the checks of the file's stamp remain" | `ListedFileIsOpened` of `Dialogue` |
| An interruption that arrives while `await_first_text` closes an abandoned request is swallowed there; the turn goes on with the backup (`services/llm/first_text.py:47`). | `core/processor.py:508` "None means the conversation was interrupted", `docs/ARCHITECTURE.md:231` | `InterruptedTurnIsOver` of `LLMManager` |
| Outside `capture_pcm` and the adaptive loop a recording that its limit ends is handed on without the mark that it was truncated (`core/listen.py:323`). | `docs/ARCHITECTURE.md:319` | `LimitIsMarked` of `Recognition` |
| A whole "yes" after a partial "no" in the same recording is a yes (`core/listen.py`, the confirming loop). | `core/listen.py:436` "never turn that conflict into permission" | `ConflictIsNoPermission` of `Recognition` |
| A backup that cannot be removed is written to the log only; the user is told that the entry is removed, or the fact forgotten (`atomic_json.py:50`). | `docs/BEHAVIORAL_CONTRACTS.md:160`, `:171`, `docs/ARCHITECTURE.md:79` | `ForgottenStaysForgotten` without its `stuck` exceptions |
| In the loops of `listen.py` other than the adaptive one, the decoder's own end of a phrase ends the recording although blocks are still queued, and no mark says so (`core/listen.py:408`); so does, in the adaptive one, the end of a phrase that was held in vain. | the purpose of `capture_truncated`, `docs/ARCHITECTURE.md:319` | `SpeechIsWhole` without `Unwatched` |

Met while reading, stated by no formula of the modules:

- Stores: a changed file that no longer fits the base loses its old entries as well
  (`knowledge_store.py:90`). A folder that is missing is made, but what was imported from
  it stays (`knowledge.py:134`). "Clear the memory" in words that only
  `skills/memory/skill.py` knows clears the file and leaves the conversation as it is;
  nothing is claimed of the conversation there, so that `unsaid` leaves it out. The value
  that an update replaces stays in the backups of `memory.json` (`remember` saves without
  `forget_history`). A password stays in the clipboard when the program is closed within
  its thirty seconds; `TasksEnd` has that exception.
- Recognition: an answer to `prepare` that comes after its deadline is taken for the text
  of the next request and makes `listen_once` raise (`whisper_process.py:134`). A hung
  transcription with a budget keeps later listens from being refined until the program is
  closed.
- Interface: with two messages on their way the window gives a result to the wrong one,
  because it knows them by the action only (`native_ui/window.py:235`, `:456`). "New chat"
  on the page sends with the id of the user's draft and clears it (`web_ui/app.js:293`).
  The notice of a gap is given once per page. A password dialog may open after the window
  was closed (`native_ui/runtime.py:32`).
- Pentest: `skills/conversation/skill.py` sets the mode to "chat" while the session and
  its scan go on. A scan cancelled before its task first ran leaves no "scan_cancelled"
  in the audit log. A failing audit write in `start_quick_scan` leaves the status at
  "running" with no task (not modelled: the log is left out).
- Web: after "that is not it" the sources are empty, and "refine the search" clears the
  question with them.

## 8. What is not modelled

- Which files the walk visits and in which order, and `open`, `copy`, `move` and
  `delete_to_trash` of the file service, which are single checked system calls.
- Wording, normalisation, parsing and validation of commands: string work. What they
  tell apart is in the classes of `TurnTrust` and in the meanings of `ReplyPolicy`.
- Signal processing: when a block counts as sound is the environment's choice. The order
  in which input devices are tried, and the probe of a microphone.
- The recognisers and the models: what they return is any result the code tells apart. With
  `stt_selective_whisper_enabled = False` (the default is True, `config.py:78`) a refinement
  has no budget and its text needs no confidence (`listen.py:153-158`); that profile is not
  modelled.
- Of opening a file: a replacement between the last comparison (`task_context.py:130`) and
  the thread that opens it (`:132`).
- Provider transports, platform adapters, health, diagnostics, logs: I/O or reporting.
- Web: weather, the extraction of text and its limits, ranking, the wording of answers.
  Turns come one at a time, so that the skill's "busy" answer is never given; a lookup cut
  by shutdown is not modelled.
- Stores: search and its ranking, the recognition of secrets, the consent to send entries
  to the model, answers about sources, the limit on characters; notes, which are single
  calls; the encryption and the unlocking of the vault. In chat mode `personal.py` rejects
  whatever mentions a password, so that the writing of secrets by a phrase is not reached.
- Pentest: what is found in headers and on pages, the report, the audit log; a host has
  one address.
- Interface: HTTP and its limit on connections, drawing, the controls of tasks, which are in
  `Tasks`, and of the microphone, which is in `Delivery`. `Attach` is one step for
  `runtime.py:46-53`, where `_cancel` may run twice; the second run cancels nothing new.
- The chat path for `natural_actions_enabled = False`, and the part of `_restricted_turn`
  that only words a refusal.
- `Speaker.prepare`, which startup awaits before anything is said.
- `src/tester.py`, `setup_wizard.py`, `install.py`, `tools/`: programs of their own.

## 9. The plan

Order, most important behaviour first; all done.

1. `Confirmation` with its contract: nothing matters more than what was consented to.
2. `Delivery`: which prompt an input meets.
3. `Speaker`: stops against threads.
4. `LLMManager`: retries, switches and interruptions.
5. `AtomicFile` with its contract; `Reminders`, which lives on such a file.
6. `SingleInstance`.
7. `TurnTrust`, `Dialogue`: the turns that use all of these.
8. Proofs of the core: `ConfirmationProofs`, `SingleInstance` (in `FileProofs`).
9. `Workplace`: plan, one approval, per step a second look, launch and verification;
   `FileSearch` beside it. Both composed in `Tasks`, with one run.
10. `Capture`, `WhisperProcess`, `RecognitionPolicy`, composed in `Recognition`.
11. `Interface`: the page and the window against the core.
12. `WebReader`, `WebAnswers`, `Pentest` and `Stores`, composed in `Tasks`.
13. The first theorem about `Tasks`' parts, the approval of scans (in `TasksProofs`).
14. `AtomicFile` (in `FileProofs`), `DeliveryProofs`, `SpeakerProofs`, `DialogueProofs`, and the
    refinement of `ConfirmationContract`.
15. `TasksProofs`: the workplace agent within a session.
16. The invariants that were only model-checked: `LLMManagerProofs`; `Reminders` (in
    `FileProofs`); the other skills, and `Inv`, in `TasksProofs`; `RecognitionProofs`;
    `Interface` (in `DeliveryProofs`).

## 10. Running it

    tlc -config MCConfirmation.cfg MCConfirmation
    tlapm ConfirmationProofs.tla

and likewise for the other modules.

Each passing run takes between a second and three minutes with two workers.
