------------------------------ MODULE Dialogue ------------------------------
(***************************************************************************)
(* The turns of CommandProcessor.process in chat mode (core/processor.py)  *)
(* with everything that may be left open between two turns: the list of a  *)
(* document search (core/document_reading.py), the list of a file, program *)
(* or window search (core/task_context.py), the clarifying question and    *)
(* the proposal (core/action_proposal.py), and the previous reply.  Turns  *)
(* are serial; stop, pause and a new typed line come at any await.  One    *)
(* action is what runs between two awaits.  The model's answer is any of   *)
(* those the decoder lets through (core/natural_turn.py).                  *)
(***************************************************************************)
EXTENDS TurnTrust, Integers

CONSTANTS Tools,      \* the tools the model may name
          Qualities,  \* the qualities a turn may have
          Spoken,     \* the texts that occur
          Skills      \* the values enabled_skills may have, of "files" and "memory"

\* What may stand open as a clarifying question.
Questions == [tool : Tools, window : BOOLEAN, groq : BOOLEAN, live : BOOLEAN]

ASSUME DialogueAssumption ==
  /\ None \notin Tools \cup {"open_app", "window_control"} /\ None \notin Questions
  /\ "focus_window" \notin Tools
  /\ \A q \in Qualities : q \subseteq Flags
  /\ Spoken \subseteq Texts
  /\ Skills \subseteq SUBSET {"files", "memory"} /\ Skills # {}

VARIABLES
  enabled,  \* enabled_skills, one of Skills; it never changes
  proposal, \* proposals.pending
  current,  \* proposals.generation is what it was when the turn began
  tasks,    \* TaskContext.pending
  pending,  \* dialogue_state.pending
  docs,     \* DocumentReading.pending
  reply,    \* _last_reply
  paused,   \* conversation_paused
  stopped,  \* stopped, paused or asked for safety in this turn (history)
  now       \* the turn in progress

vars == <<enabled, proposal, current, tasks, pending, docs, reply, paused, stopped, now>>

(* Closed sets of the code *)
Proposable == {"web_search", "open_app", "find_files", "weather", "window_control",
               "prepare_workplace"}
OfferVerbs == {"web_search", "find_files", "open_app", "weather"}
UnscoredVoiceTools == {"open_app", "find_files", "weather", "web_search", "media_control",
                       "show_desktop", "window_control", "lock_screen", "screenshot"}
\* UNCONFIRMED_TOOLS, UNCONFIRMED_WINDOW_ACTIONS, and what an entry of a list does
\* by itself.
Unconfirmed == {"web_search", "weather", "open_app", "media_control", "show_desktop",
                "focus_window", "open_file", "open_listed"}

\* A change of a window is "focus_window" where its action is focus.
Variants(tool) == IF tool = "window_control" THEN {"window_control", "focus_window"} ELSE {tool}
Kind(tool) == IF tool = "focus_window" THEN "window_control" ELSE tool

Blank == [phase |-> "idle", heard |-> None, lease |-> None, pend |-> None,
          offer |-> None, path |-> None, answer |-> None, act |-> None]

\* A request without a scope may be a web search, or a saved workplace.
Scopes == (Tools \ {"web_search", "prepare_workplace"}) \cup {None}
Utterances ==
  {u \in [text : Spoken, tool : Scopes \cup {"new_conversation", "prepare_workplace"},
          quality : Qualities] :
     CASE u.text = "request" -> u.tool \in Scopes \cup {"prepare_workplace"}
       [] u.text = "unnamed" -> u.tool = "window_control"
       [] u.text = "command" -> u.tool \in {"find_files", "open_app", "new_conversation"}
       [] OTHER -> u.tool = None}
\* request_scope
Scope(u) == IF Direct(u) /\ u.tool \in Scopes THEN u.tool ELSE None

Says == Tools \cup {"prose"}    \* the kind of action the last sentence offers
Reply(s) == [says |-> s, last |-> TRUE]
\* Raven said something it did not keep as its reply.
Said(r) == IF r = None THEN None ELSE [r EXCEPT !.last = FALSE]

Answers ==
  [kind : {"chat", "clarify", "unavailable"}, tool : Says, which : {None}]
  \cup [kind : {"action", "proposal"}, tool : Tools, which : {None}]
  \cup [kind : {"lookup"}, tool : {"web_search"}, which : {None}]
  \cup [kind : {"accept", "reject", "modify", "ambiguous"}, tool : {None},
        which : {"leased", "other"}]

Init ==
  /\ enabled \in Skills
  /\ proposal = None /\ current = TRUE
  /\ tasks = None /\ pending = None /\ docs = None
  /\ reply = None
  /\ paused = FALSE
  /\ stopped = FALSE
  /\ now = Blank

-----------------------------------------------------------------------------
(* What is left open *)

Live(x) == x # None /\ x.live
List(kind, size) == [kind |-> kind, size |-> size, live |-> TRUE, changed |-> FALSE,
                     closed |-> FALSE]
Question(tool, window, groq) == [tool |-> tool, window |-> window, groq |-> groq, live |-> TRUE]

\* ProposalState.clear: nothing on offer, and a new generation.
ClearProposals_SameGeneration == proposal' = None /\ UNCHANGED current
ClearProposals == proposal' = None /\ current' = FALSE

LeaseCurrent == Live(now.lease) /\ current
Propose(tool) ==
  /\ proposal' = [tool |-> tool, live |-> TRUE, next |-> TRUE]
  /\ reply' = Reply(tool)

\* The turn is over; Raven replies, or stays silent.
Over == now' = Blank
Answer == Over /\ reply' = Said(reply)
Silent == Over /\ UNCHANGED reply

Act(tool, basis) ==
  [tool |-> tool, basis |-> basis, confirmed |-> FALSE, late |-> FALSE, timely |-> TRUE,
   changed |-> FALSE, slipped |-> FALSE]
Run(tool, basis) == now' = [now EXCEPT !.phase = "acting", !.act = Act(tool, basis)]

-----------------------------------------------------------------------------
(* A turn that reads a document *)

IsLocal(u) == u.text = "command" \/ (tasks # None /\ Selecting(u))
\* What _command_loop lets through to the processor; a scored voice turn has
\* passed its threshold.
Admitted(u) ==
  \/ "scored" \in u.quality
  \/ /\ u.quality \cap {"unreliable", "truncated"} = {}
     /\ Incomplete(u.quality) => "cut" \in u.quality
     /\ IsLocal(u) => "groq" \in u.quality

Turn(u, phase, path) == [Blank EXCEPT !.phase = phase, !.heard = u, !.path = path]

\* History: a proposal and a list that this turn has left alone.
Waited(p) == IF p = None THEN None ELSE [p EXCEPT !.next = FALSE]
Crossed(t, u) == IF t = None \/ Selecting(u) THEN t ELSE [t EXCEPT !.closed = TRUE]
LeaveOpen(u) ==
  /\ proposal' = Waited(proposal)
  /\ tasks' = Crossed(tasks, u)
  /\ stopped' = FALSE
  /\ UNCHANGED <<current, pending, paused>>

DocAccepts(u) == "files" \in enabled /\ (u.text = "read" \/ Live(docs))
\* A list takes a number, a missing name anything but another request.
DocWords ==
  {"read", "no"} \cup (IF docs = None THEN {}
                      ELSE IF docs.kind = "name" THEN Texts \ {"request", "unnamed", "command"}
                      ELSE {"first", "second"})
DocHandles(u) == u.text \in DocWords

RefuseDocument(u) ==
  /\ DocAccepts(u) /\ ~ExplicitLocalRequest(u.quality)
  /\ docs' = None
  /\ LeaveOpen(u)
  /\ Answer

CloseOthers_Lists == ClearProposals /\ pending' = None /\ UNCHANGED tasks
\* A document turn ends everything else that was open.
CloseOthers == ClearProposals /\ pending' = None /\ tasks' = None

\* The list asked for, a name asked for, nothing found, or reading cancelled.
AnswerDocument(u) ==
  /\ DocAccepts(u) /\ ExplicitLocalRequest(u.quality) /\ DocHandles(u)
  /\ \/ u.text = "no" /\ docs' = None
     \/ /\ u.text = "read"
        /\ docs' \in {None, [kind |-> "name", live |-> TRUE], [kind |-> "choice", live |-> TRUE]}
     \/ /\ u.text \notin {"no", "read"} /\ docs.kind = "name"
        /\ docs' \in {None, [kind |-> "choice", live |-> TRUE]}
     \/ u.text = "second" /\ docs.kind = "choice" /\ docs' = docs
  /\ CloseOthers
  /\ stopped' = FALSE /\ UNCHANGED paused
  /\ Answer

\* One document is meant: ask whether it may be read.
ReadDocument(u) ==
  /\ DocAccepts(u) /\ ExplicitLocalRequest(u.quality) /\ DocHandles(u)
  /\ u.text # "no"
  /\ docs' = None
  /\ now' = [Turn(u, "acting", "document") EXCEPT !.act = Act("read_document", "request")]
  /\ LeaveOpen(u)
  /\ UNCHANGED reply

PastDocuments(u) ==
  ~(DocAccepts(u) /\ (~ExplicitLocalRequest(u.quality) \/ DocHandles(u)))

\* Personal memory and the knowledge base, before the turn begins for proposals.
MemoryTurn(u) ==
  /\ PastDocuments(u) /\ "memory" \in enabled /\ u.text = "memory"
  /\ docs' = None
  /\ LeaveOpen(u)
  /\ \/ Answer
     \/ /\ ExplicitLocalRequest(u.quality)
        /\ now' = [Turn(u, "acting", "memory") EXCEPT !.act = Act("memory", "request")]
        /\ UNCHANGED reply

-----------------------------------------------------------------------------
(* An operational turn begins *)

Operational(u) == PastDocuments(u) /\ ~("memory" \in enabled /\ u.text = "memory")

\* begin_turn, and the priority of a list and of a clarifying question.
LeaseFor(u) ==
  IF ProposalQuality(u.quality) /\ Live(proposal) /\ pending = None /\ tasks = None
  THEN proposal ELSE None

BeginTurn == proposal' = None /\ current' = TRUE /\ docs' = None /\ stopped' = FALSE
Begun(u, phase, path) == [Turn(u, phase, path) EXCEPT !.lease = LeaseFor(u)]

\* TaskContext.consume
Chosen(u) ==
  tasks.live /\ u.text # "no" /\ (u.text = "yes" => tasks.size = 1) /\ Ordinal(u) <= tasks.size
SameFile_Unchecked == TRUE
SameFile == ~tasks.changed
EntryTools ==
  CASE tasks.kind = "file" -> {"open_file", "run_file"}
    [] tasks.kind = "app" -> {"open_listed"}
    [] OTHER -> Variants("window_control")

SelectTurn(u) ==
  /\ Operational(u) /\ tasks # None /\ Selecting(u)
  /\ Outcome(u) \/ MaySelectOffer(u.quality)
  /\ BeginTurn
  /\ IF Chosen(u) /\ SameFile
     THEN /\ \E t \in EntryTools :
               now' = [Begun(u, IF tasks.kind = "file" THEN "stamping" ELSE "acting",
                             "select") EXCEPT
                         !.act = [Act(t, "selection") EXCEPT !.timely = ~tasks.closed,
                                                             !.changed = tasks.changed]]
          /\ tasks' = None
          /\ UNCHANGED reply
     ELSE /\ tasks' = IF u.text = "no" \/ ~tasks.live \/ Chosen(u) THEN None ELSE tasks
          /\ Answer
  /\ UNCHANGED <<pending, paused>>

\* open_file awaits a thread that looks at the file, and takes its stamp anew.
Stamp ==
  /\ now.phase = "stamping"
  /\ now' = [now EXCEPT !.phase = "acting"]
  /\ UNCHANGED <<proposal, current, tasks, pending, docs, reply, paused, stopped>>

\* Any other words that pass the gate close the list.
Passing(u) ==
  /\ Operational(u) /\ Outcome(u) /\ ~(tasks # None /\ Selecting(u))
  /\ BeginTurn
  /\ tasks' = None

StopOrPause(u) ==
  /\ Passing(u) /\ u.text \in {"stop", "pause"}
  /\ pending' = None
  /\ IF u.text = "pause" THEN paused' = TRUE /\ Answer ELSE UNCHANGED paused /\ Silent

\* "Command, ...": one local action by its own words, or none.
LocalCommand(u) ==
  /\ Passing(u) /\ u.text = "command"
  /\ pending' = None
  /\ \/ Answer
     \/ /\ now' = [Begun(u, "acting", "local") EXCEPT !.act = Act(u.tool, "command")]
        /\ UNCHANGED reply
  /\ UNCHANGED paused

\* Repeat, continue, shorter, simpler: said locally, or by the model without tools.
Control(u) ==
  /\ Passing(u) /\ u.text = "control"
  /\ pending' = None
  /\ paused' = FALSE
  /\ \/ Answer
     \/ Over /\ reply # None /\ reply' = Reply(reply.says)
     \/ now' = Begun(u, "thinking", "control") /\ UNCHANGED reply

StaysSilent(u) ==
  /\ Passing(u) /\ paused
  /\ u.text \notin {"stop", "pause", "command", "control"}
  /\ UNCHANGED <<pending, paused>>
  /\ Silent

-----------------------------------------------------------------------------
(* An ordinary turn *)

Scoped(u) == Live(pending) /\ ShortReply(u)

Ordinary(u) ==
  /\ Passing(u) /\ ~paused
  /\ u.text \notin {"stop", "pause", "command", "control"}
  /\ UNCHANGED paused

\* Words that refer to an action when none has been proposed.
AskWhatIsMeant(u) ==
  /\ Ordinary(u) /\ NeedsProposal(u) /\ ~Scoped(u) /\ LeaseFor(u) = None
  /\ pending' = None
  /\ Answer

HasReferent(u) == NeedsProposal(u) /\ ~Scoped(u) => LeaseFor(u) # None
ForWindow(u) == Scoped(u) /\ pending.window

\* Window requests are resolved here, a missing name is asked for.
WindowTurn(u) ==
  /\ Ordinary(u) /\ HasReferent(u)
  /\ \/ /\ u.text = "unnamed" \/ (ForWindow(u) /\ ~NamesSomething(u))
        /\ pending' = IF u.text = "unnamed" THEN Question("window_control", TRUE, FALSE)
                                            ELSE pending
        /\ Answer
     \/ /\ \/ u.text = "request" /\ u.tool = "window_control"
           \/ ForWindow(u) /\ NamesSomething(u)
        /\ pending' = None
        /\ now' = [Begun(u, "acting", "natural") EXCEPT
                     !.act = Act("window_control", IF ForWindow(u) THEN "reply" ELSE "request")]
        /\ UNCHANGED reply

\* A saved workplace runs at once; the name of a program is looked up first.
Shortcut(u) ==
  /\ Ordinary(u) /\ u.text = "request" /\ u.tool \in {"prepare_workplace", "open_app"}
  /\ pending' = None
  /\ now' = IF u.tool = "open_app" THEN Begun(u, "looking", "natural")
            ELSE [Begun(u, "acting", "natural") EXCEPT !.act = Act(u.tool, "request")]
  /\ UNCHANGED reply

ExactApp ==
  /\ now.phase = "looking"
  /\ Run("open_app", "request")
  /\ UNCHANGED <<proposal, current, tasks, pending, docs, reply, paused, stopped>>

NoExactApp ==
  /\ now.phase = "looking"
  /\ now' = [now EXCEPT !.phase = "thinking", !.offer = IF LeaseCurrent THEN None ELSE reply]
  /\ reply' = None
  /\ UNCHANGED <<proposal, current, tasks, pending, docs, paused, stopped>>

\* The model is asked; a short answer to a clarifying question goes with it.
AskModel(u) ==
  /\ Ordinary(u) /\ HasReferent(u) /\ ~ForWindow(u)
  /\ u.text # "unnamed" /\ ~(u.text = "request" /\ u.tool \in {"prepare_workplace", "open_app"})
  /\ pending' = None
  /\ now' = [Begun(u, "thinking", "natural") EXCEPT
               !.pend = IF Scoped(u) THEN pending ELSE None,
               !.offer = IF LeaseFor(u) # None THEN None ELSE reply]
  /\ reply' = None

\* Speech that may not act: what it left open is over, and at most the model is
\* asked, for a clean Groq phrase with a chance to name a harmless tool.
CandidateFor(u) == MaySelectOffer(u.quality)
RestrictedTurn(u) ==
  /\ Operational(u) /\ ~Outcome(u)
  /\ ~(tasks # None /\ Selecting(u) /\ MaySelectOffer(u.quality))
  /\ BeginTurn
  /\ pending' = None
  /\ tasks' = Crossed(tasks, u)
  /\ UNCHANGED paused
  /\ LET lexical == LexicalFragment(u.quality) /\ u.text # "command"
         asks == ~(Incomplete(u.quality) /\ ~lexical)
                 /\ (u.text = "command" => CandidateFor(u))
         named == CandidateFor(u) /\ Live(pending) /\ pending.groq /\ NamesSomething(u)
     IN \/ paused /\ Silent
        \/ ~paused /\ ~asks /\ Answer
        \/ /\ ~paused /\ asks
           /\ now' = [Begun(u, "thinking", IF CandidateFor(u) THEN "groq" ELSE "quiet") EXCEPT
                        !.pend = IF named THEN pending ELSE None,
                        !.offer = reply]
           /\ UNCHANGED reply

-----------------------------------------------------------------------------
(* The model answers, and the turn goes on *)

\* FOLLOWUP may name the proposal the model was shown, or any other.
ModelAnswers ==
  /\ now.phase = "thinking"
  /\ \E a \in Answers :
       /\ a.which = "leased" => now.lease # None
       /\ now.path = "control" => a.kind = "chat"
       /\ now' = [now EXCEPT !.phase = "answered", !.answer = a]
  /\ UNCHANGED <<proposal, current, tasks, pending, docs, reply, paused, stopped>>

Answered(kinds, paths) ==
  now.phase = "answered" /\ now.answer.kind \in kinds /\ now.path \in paths

\* What the clarifying question or the question in a reply would be about.
Asked == IF now.pend # None THEN now.pend.tool ELSE Scope(now.heard)

\* _remember_natural_question, and its narrower form for Groq phrases.
Remember ==
  IF now.path = "groq"
  THEN IF Scope(now.heard) = "open_app" /\ now.answer.kind = "clarify"
       THEN Question("open_app", FALSE, TRUE) ELSE pending
  ELSE IF /\ Asked # None
          /\ now.answer.kind = "clarify" \/ (now.answer.kind = "chat" /\ now.answer.tool # "prose")
       THEN Question(Asked, FALSE, FALSE) ELSE pending

\* CHAT and CLARIFY only speak.  What the restricted path says is kept as the
\* reply only when it was streamed.
SpeakAnswer ==
  /\ Answered({"chat", "clarify", "unavailable"}, {"natural", "control", "groq", "quiet"})
  /\ pending' = IF now.path \in {"natural", "groq"} THEN Remember ELSE pending
  /\ reply' \in IF now.path \in {"natural", "control"} THEN {Reply(now.answer.tool)}
                ELSE IF now.path = "groq" THEN {Reply(now.answer.tool), Said(reply)}
                ELSE {Said(reply)}
  /\ Over
  /\ UNCHANGED <<proposal, current, tasks, docs, paused, stopped>>

\* A restricted turn neither proposes nor takes an answer to a proposal; speech
\* that is no candidate starts nothing at all.
NothingDone ==
  /\ \/ Answered({"proposal", "accept", "reject", "modify", "ambiguous"}, {"groq", "quiet"})
     \/ Answered({"action", "lookup"}, {"quiet"})
  /\ Answer
  /\ UNCHANGED <<proposal, current, tasks, pending, docs, paused, stopped>>

MayResolve == ProposalQuality(now.heard.quality) /\ now.pend = None

\* ProposalState.offer refuses another generation.
Offered == current /\ now.answer.tool \in Proposable

ResolveProposal ==
  /\ Answered({"proposal"}, {"natural"})
  /\ IF MayResolve /\ Offered
     THEN Propose(now.answer.tool) /\ Over
     ELSE Answer /\ UNCHANGED proposal
  /\ UNCHANGED <<current, tasks, pending, docs, paused, stopped>>

Correlated == MayResolve /\ LeaseCurrent /\ now.answer.which = "leased"

\* Reject, or unclear: the lease is used up.  A stale answer changes nothing.
RejectProposal ==
  /\ Answered({"accept", "reject", "modify", "ambiguous"}, {"natural"})
  /\ IF Correlated
     THEN now.answer.kind \in {"reject", "ambiguous"} /\ ClearProposals
     ELSE UNCHANGED <<proposal, current>>
  /\ Answer
  /\ UNCHANGED <<tasks, pending, docs, paused, stopped>>

\* Other arguments for the same tool: a new proposal, or unclear if invalid.
ModifyProposal ==
  /\ Answered({"modify"}, {"natural"}) /\ Correlated
  /\ current' = FALSE
  /\ \/ Propose(now.lease.tool) /\ Over
     \/ proposal' = None /\ Answer
  /\ UNCHANGED <<tasks, pending, docs, paused, stopped>>

\* The words must be an acceptance of that tool; the stored arguments are used.
AcceptProposal ==
  /\ Answered({"accept"}, {"natural"}) /\ Correlated
  /\ IF Accepts(now.heard, now.lease.tool)
     THEN /\ ClearProposals
          /\ \E t \in Variants(now.lease.tool) :
               now' = [now EXCEPT !.phase = "acting",
                                  !.act = [Act(t, "proposal") EXCEPT
                                             !.late = stopped, !.timely = now.lease.next]]
          /\ UNCHANGED reply
     ELSE Answer /\ UNCHANGED <<proposal, current>>
  /\ UNCHANGED <<tasks, pending, docs, paused, stopped>>

TakesOffer(tool) ==
  /\ now.pend = None /\ ~Direct(now.heard) /\ now.heard.text = "yes"
  /\ now.offer # None /\ now.offer.says = tool /\ tool \in OfferVerbs

\* natural_action_permission with knowledge_gap_fallback, and knowledge_gap_permission
\* for LOOKUP: on what grounds the tool the model names may go to the executor, None
\* for none.  A search for what the model does not know looks at the words alone.
Bases(tool) ==
  LET gap == IF MayInquire(now.heard) THEN {"gap", None} ELSE {None}
  IN IF now.answer.kind = "lookup" THEN gap
     ELSE IF Asked # None /\ Kind(tool) # Asked THEN {None}
     ELSE IF TakesOffer(tool) THEN {"offer"}
     ELSE IF tool = "open_app" /\ Live(now.pend) /\ ~NamesSomething(now.heard) THEN {None}
     ELSE IF now.pend # None THEN {"reply"}
     ELSE IF Direct(now.heard) THEN {"request"}
     ELSE IF tool = "web_search" THEN gap
     ELSE {None}

\* A Groq phrase reaches UNSCORED_VOICE_TOOLS only.
AllowedFromSpeech(tool) == now.path = "groq" => tool \in UnscoredVoiceTools

ModelActs ==
  /\ Answered({"action", "lookup"}, {"natural", "groq"})
  /\ \E t \in Variants(now.answer.tool) : \E b \in Bases(t) :
       IF b = None \/ ~AllowedFromSpeech(now.answer.tool)
       THEN Answer
       ELSE /\ now' = [now EXCEPT !.phase = "acting",
                         !.act = [Act(t, b) EXCEPT !.timely = (b = "offer") => now.offer.last]]
            /\ reply' = IF b = "gap" THEN Reply("prose") ELSE reply
  /\ UNCHANGED <<proposal, current, tasks, pending, docs, paused, stopped>>

-----------------------------------------------------------------------------
(* The executor *)

Confirms_Requests == now.act.tool \notin Unconfirmed /\ now.act.basis \in {"request", "gap"}
\* A local command confirms by itself what its skill says.
Confirms == now.act.tool \notin Unconfirmed /\ now.act.basis # "command"

\* The result of a document turn ends what else was open.
Conclude == IF now.path = "document" THEN CloseOthers
            ELSE UNCHANGED <<proposal, current, tasks, pending>>

\* Not found, not accepted by the system, failed.
ActFails ==
  /\ now.phase \in {"stamping", "acting"}
  /\ Conclude
  /\ Answer
  /\ UNCHANGED <<docs, paused, stopped>>

\* Several programs or windows fit: their list is offered.
OfferEntries ==
  /\ now.phase = "acting" /\ now.act.basis # "selection"
  /\ \/ now.act.tool = "open_app" /\ tasks' = List("app", 2)
     \/ Kind(now.act.tool) = "window_control" /\ tasks' = List("window", 2)
  /\ Answer
  /\ UNCHANGED <<proposal, current, pending, docs, paused, stopped>>

\* _say_confirmation: a safety question drops any proposal.
AskUser ==
  /\ now.phase = "acting" /\ Confirms
  /\ now' = [now EXCEPT !.phase = "confirming"]
  /\ ClearProposals
  /\ stopped' = TRUE
  /\ UNCHANGED <<tasks, pending, docs, reply, paused>>

Do ==
  /\ now.phase = "acting" /\ ~Confirms
  /\ now' = [now EXCEPT !.phase = "done"]
  /\ UNCHANGED <<proposal, current, tasks, pending, docs, reply, paused, stopped>>

\* open_file compares the file with what it was before the question.
SameAfterConsent == now.act.tool = "run_file" => ~now.act.changed

UserAgrees ==
  /\ now.phase = "confirming" /\ SameAfterConsent
  /\ now' = [now EXCEPT !.phase = "done", !.act.confirmed = TRUE]
  /\ UNCHANGED <<proposal, current, tasks, pending, docs, reply, paused, stopped>>

UserRefuses ==
  /\ now.phase = "confirming"
  /\ Conclude
  /\ Answer
  /\ UNCHANGED <<docs, paused, stopped>>

\* The reset that follows a change of memory, and a new conversation.
Reset ==
  /\ docs' = None /\ pending' = None /\ reply' = None

Finish ==
  /\ now.phase = "done"
  /\ \/ /\ now.act.tool = "new_conversation"
        /\ Reset /\ tasks' = None /\ paused' = FALSE
        /\ UNCHANGED <<proposal, current>>
     \/ /\ now.act.tool = "memory"
        /\ Reset /\ ClearProposals
        /\ UNCHANGED <<tasks, paused>>
     \/ /\ now.act.tool # "new_conversation"
        /\ IF now.act.tool = "find_files"
           THEN tasks' \in {tasks, List("file", 1), List("file", 2)}
                /\ UNCHANGED <<proposal, current, pending>>
           ELSE Conclude
        /\ reply' = Said(reply)
        /\ UNCHANGED <<docs, paused>>
  /\ Over
  /\ UNCHANGED stopped

-----------------------------------------------------------------------------
(* Meanwhile *)

Partial == {reply} \cup {Reply(s) : s \in Says}
\* interrupt_conversation: a chat that is running is cancelled, and proposals are
\* dropped with it; a discarding caller drops them in any case.
Interrupt(discard) ==
  IF now.phase = "thinking"
  THEN ClearProposals /\ Over /\ reply' \in IF now.path = "quiet" THEN {reply} ELSE Partial
  ELSE /\ UNCHANGED <<now, reply>>
       /\ IF discard THEN ClearProposals ELSE UNCHANGED <<proposal, current>>

Stop ==
  /\ Interrupt(TRUE)
  /\ stopped' = TRUE
  /\ UNCHANGED <<tasks, pending, docs, paused>>

\* A typed line cancels the chat and will be a turn of its own.
TypedLine ==
  /\ now.phase = "thinking"
  /\ Interrupt(FALSE)
  /\ UNCHANGED <<tasks, pending, docs, paused, stopped>>

\* Pause, unless a confirmation is awaited.
Pause ==
  /\ now.phase # "confirming" /\ ~paused
  /\ Interrupt(TRUE)
  /\ stopped' = TRUE
  /\ paused' = TRUE
  /\ UNCHANGED <<tasks, pending, docs>>

Resume ==
  /\ now.phase # "confirming" /\ paused
  /\ paused' = FALSE
  /\ UNCHANGED <<proposal, current, tasks, pending, docs, reply, stopped, now>>

\* The two minutes of one thing that is open are over.
Expired(x) == [x EXCEPT !.live = FALSE]
Expire ==
  /\ \/ /\ Live(tasks) /\ tasks' = Expired(tasks)
        /\ UNCHANGED <<proposal, pending, docs, now>>
     \/ /\ Live(pending) /\ pending' = Expired(pending)
        /\ UNCHANGED <<proposal, tasks, docs, now>>
     \/ /\ Live(docs) /\ docs' = Expired(docs)
        /\ UNCHANGED <<proposal, tasks, pending, now>>
     \/ /\ Live(proposal) /\ proposal' = Expired(proposal)
        /\ UNCHANGED <<tasks, pending, docs, now>>
     \/ /\ Live(now.lease) /\ now' = [now EXCEPT !.lease = Expired(@)]
        /\ UNCHANGED <<proposal, tasks, pending, docs>>
     \/ /\ Live(now.pend) /\ now' = [now EXCEPT !.pend = Expired(@)]
        /\ UNCHANGED <<proposal, tasks, pending, docs>>
  /\ UNCHANGED <<current, reply, paused, stopped>>

\* The file that will be chosen, is about to be stamped, or is being confirmed, is
\* replaced.
FileChanges ==
  /\ \/ /\ tasks # None /\ tasks.kind = "file" /\ ~tasks.changed
        /\ tasks' = [tasks EXCEPT !.changed = TRUE]
        /\ UNCHANGED now
     \/ /\ now.phase = "stamping" /\ ~now.act.slipped
        /\ now' = [now EXCEPT !.act.slipped = TRUE]
        /\ UNCHANGED tasks
     \/ /\ now.phase = "confirming" /\ now.act.tool = "run_file" /\ ~now.act.changed
        /\ now' = [now EXCEPT !.act.changed = TRUE]
        /\ UNCHANGED tasks
  /\ UNCHANGED <<proposal, current, pending, docs, reply, paused, stopped>>

Process(u) ==
  \/ RefuseDocument(u) \/ AnswerDocument(u) \/ ReadDocument(u) \/ MemoryTurn(u)
  \/ SelectTurn(u) \/ StopOrPause(u) \/ LocalCommand(u) \/ Control(u) \/ StaysSilent(u)
  \/ AskWhatIsMeant(u) \/ WindowTurn(u) \/ Shortcut(u) \/ AskModel(u)
  \/ RestrictedTurn(u)

Next ==
  /\ \/ now.phase = "idle" /\ \E u \in Utterances : Admitted(u) /\ Process(u)
     \/ ExactApp \/ NoExactApp
     \/ ModelAnswers \/ SpeakAnswer \/ NothingDone \/ ResolveProposal \/ RejectProposal
     \/ ModifyProposal \/ AcceptProposal \/ ModelActs
     \/ Stamp \/ ActFails \/ OfferEntries \/ AskUser \/ Do \/ UserAgrees \/ UserRefuses \/ Finish
     \/ Stop \/ TypedLine \/ Pause \/ Resume \/ Expire \/ FileChanges
  /\ UNCHANGED enabled

Spec == Init /\ [][Next]_vars

-----------------------------------------------------------------------------
(* Properties *)

Doing == now.phase = "done"
Did(basis) == Doing /\ now.act.basis = basis

Offerable == [tool : Proposable \cap Tools, live : BOOLEAN, next : BOOLEAN]
Replies == [says : Says, last : BOOLEAN]

\* Every variable has its type; only what may be proposed is proposed.
TypeOK ==
  /\ enabled \in Skills
  /\ proposal \in Offerable \cup {None}
  /\ tasks \in [kind : {"file", "app", "window"}, size : 1..2, live : BOOLEAN,
                changed : BOOLEAN, closed : BOOLEAN] \cup {None}
  /\ pending \in Questions \cup {None}
  /\ docs \in [kind : {"name", "choice"}, live : BOOLEAN] \cup {None}
  /\ reply \in Replies \cup {None}
  /\ {current, paused, stopped} \subseteq BOOLEAN

\* Of a document list, a clarifying question and a proposal at most one is open,
\* and a list of files, programs or windows beside neither a document list nor a
\* proposal: one short answer cannot mean two things (processor.py:208-212, 216-223).
OneQuestionAtATime ==
  /\ docs # None => pending = None /\ proposal = None
  /\ pending # None => proposal = None
  /\ tasks # None => docs = None /\ proposal = None

\* The tools an action may have, and the grounds on which it is taken.
Doable == Tools \cup Proposable \cup {"read_document", "memory", "new_conversation",
                                      "open_file", "run_file", "open_listed", "focus_window"}
Grounds == {"request", "selection", "command", "reply", "proposal", "offer", "gap"}
Acting == now.phase \in {"stamping", "acting", "confirming", "done"}

Phases == {"idle", "looking", "thinking", "answered", "stamping", "acting", "confirming", "done"}
Paths == {"document", "memory", "select", "local", "control", "natural", "groq", "quiet"}
Acts == [tool : Doable, basis : Grounds, confirmed : BOOLEAN, late : BOOLEAN,
         timely : BOOLEAN, changed : BOOLEAN, slipped : BOOLEAN]

\* A turn knows what it needs in each of its phases.
TurnInv ==
  /\ now \in [phase : Phases, heard : Utterances \cup {None}, lease : Offerable \cup {None},
             pend : Questions \cup {None}, offer : Replies \cup {None},
             path : Paths \cup {None}, answer : Answers \cup {None}, act : Acts \cup {None}]
  /\ now.phase # "idle" => now.heard \in Utterances /\ now.path \in Paths
  /\ now.phase = "looking" => now.path = "natural" /\ now.pend = None /\ now.heard.tool = "open_app"
  /\ now.phase \in {"thinking", "answered"} => now.path \in {"control", "natural", "groq", "quiet"}
  /\ now.phase = "answered" => now.answer \in Answers
  /\ Acting => now.act \in Acts

\* Speech that cannot be relied upon takes the paths that are open to it, and on them only
\* to the tools that are.
TrustInv ==
  /\ now.phase # "idle" =>
       \/ AllowActions(now.heard.quality)
       \/ /\ GroqUnscored(now.heard.quality) /\ Reliable(now.heard.quality)
          /\ now.path \in {"document", "memory", "select", "groq"}
       \/ now.path = "quiet"
  /\ Acting =>
       /\ now.path # "quiet"
       /\ now.path = "document" => now.act.tool = "read_document"
       /\ now.path = "memory" => now.act.tool = "memory"
       /\ now.path = "groq" => Kind(now.act.tool) \in UnscoredVoiceTools

\* An action has the grounds it claims, and a question is asked before those that change something.
GroundInv ==
  Acting =>
    /\ now.path \in {"natural", "groq"} =>
         \/ Asked \in {None, Kind(now.act.tool)}
         \/ now.act.basis = "gap" /\ now.act.tool = "web_search"
    /\ now.act.basis = "proposal" => ~now.act.late /\ (enabled = {} => now.act.timely)
    /\ now.act.changed /\ now.act.tool \in {"open_file", "run_file"} =>
         now.phase = "confirming" /\ now.act.tool = "run_file"
    /\ now.phase = "done" => ~Confirms \/ now.act.confirmed

\* A turn has closed what it found open; what was stopped is of an older generation.
OpenInv ==
  /\ stopped => ~current /\ proposal = None
  /\ enabled = {} => /\ proposal # None => proposal.next
                     /\ now.lease # None => now.lease.next
  /\ now.phase # "idle" => docs = None /\ (now.path \in {"document", "memory"} \/ proposal = None)
  /\ now.phase \in {"looking", "thinking", "answered"} /\ now.path = "natural" =>
       pending = None /\ tasks = None

\* The types, what may be open between two turns, and what makes that and the properties
\* below inductive (see DialogueProofs).
Inv == TypeOK /\ OneQuestionAtATime /\ TurnInv /\ TrustInv /\ GroundInv /\ OpenInv

\* A stop, a pause or a safety question ends what was proposed: an answer of the
\* model that comes after it neither offers an action nor accepts one
\* (docs/ARCHITECTURE.md:230-232).
LateAnswersAreVoid ==
  /\ stopped => proposal = None
  /\ Did("proposal") => ~now.act.late

\* "One proposal, one next turn" (core/action_proposal.py:98), when neither the document
\* nor the memory skill is enabled: their turns end before a proposal is dropped.
ProposalIsForTheNextTurn == enabled = {} /\ Did("proposal") => now.act.timely

\* What the user agrees to is what was offered last and is still on offer.
ProposalsAreCurrent == LateAnswersAreVoid /\ ProposalIsForTheNextTurn

\* What changes files, memory or windows by the model's word, by a short answer or
\* from a list has been confirmed by the user; only switching to a window has not
\* (core/command_actions.py:3-6, skills/windows/skill.py:50-52).
ChangesAreConfirmed ==
  /\ Doing /\ now.act.basis # "command"
  /\ now.act.tool \in {"find_files", "window_control", "prepare_workplace", "run_file",
                       "read_document", "memory", "lock_screen", "screenshot"}
  => now.act.confirmed

\* Speech that is cut, doubtful or of unknown quality starts nothing; a clean Groq
\* phrase without a score picks from a list, reads a document, changes memory, or
\* starts one of the harmless tools (core/turn_gate.py:20-31, core/command_actions.py).
UnscoredSpeechIsBounded ==
  Doing /\ ~AllowActions(now.heard.quality) =>
    /\ "groq" \in now.heard.quality
    /\ now.heard.quality \cap {"scored", "repeat", "unreliable", "truncated", "cut"} = {}
    /\ \/ now.path = "select"
       \/ Kind(now.act.tool) \in UnscoredVoiceTools \cup {"read_document", "memory"}

\* A request that names a kind of action, and an answer to a question about one,
\* lead to that action however the model reads them, or to a search of the web that
\* the model asks for because it does not know (core/processor.py:862-864,
\* core/action_policy.py:151-180: the search looks at no scope), and to nothing else.
OnlyTheActionAskedFor ==
  Doing /\ now.path \in {"natural", "groq"} /\ Asked # None =>
    \/ Kind(now.act.tool) = Asked
    \/ now.act.basis = "gap" /\ now.act.tool = "web_search"

\* What is done was meant: asked for or confirmed, and by speech that can be relied upon.
ActionsWereMeant == ChangesAreConfirmed /\ UnscoredSpeechIsBounded /\ OnlyTheActionAskedFor

\* A file that was replaced while it stood in the list, or while the user was asked
\* about it, is not opened (core/task_context.py:108-111, 129-131).  What is replaced
\* in the await between the first comparison and the second stamp is ListedFileIsOpened.
ReplacedFileStaysShut ==
  Doing /\ now.act.tool \in {"open_file", "run_file"} => ~now.act.changed

\* "Only the listed items, ... the checks of the file's stamp ... remain"
\* (docs/BEHAVIORAL_CONTRACTS.md:82-84): what is opened is the file that was listed.
ListedFileIsOpened ==
  Doing /\ now.act.tool \in {"open_file", "run_file"} => ~now.act.changed /\ ~now.act.slipped

\* "A different request closes the old permission window" (core/task_context.py:92).
AnotherRequestClosesTheList == Did("selection") => now.act.timely

\* An offer in plain words is accepted "right after Raven's own plain-CHAT offer"
\* (core/action_policy.py:56).
OfferIsThePreviousReply == Did("offer") => now.act.timely

\* While the conversation is paused no ordinary phrase goes to the model
\* (docs/USER_GUIDE.md:517).
PausedAsksNobody ==
  [][ now'.phase = "thinking" /\ now.phase # "thinking" => ~paused' ]_vars
=============================================================================
