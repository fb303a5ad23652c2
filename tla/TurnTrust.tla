------------------------------ MODULE TurnTrust ------------------------------
(***************************************************************************)
(* What a recognised or typed utterance may be used for: the quality flags *)
(* of a TurnEnvelope (core/models.py), the pre-routing gate                *)
(* (core/turn_gate.py), and the local readings of the words themselves     *)
(* (core/task_context.py, core/natural_turn.py, core/action_proposal.py).  *)
(* A quality is the set of the flags that are raised.  A text is one of    *)
(* the classes these readings tell apart; a request carries the kind of    *)
(* action it names, or None when the words do not fix one.  "first" and    *)
(* "second" are a number that is on every list and one that may lie beyond *)
(* a list; "bare" is a verb without an object, "name" a possible name.     *)
(***************************************************************************)
CONSTANT None

Flags == {"voice",        \* source == "voice"
          "groq",         \* stt_engine == "groq"
          "scored",       \* confidence_available
          "eligible",     \* action_eligible
          "repeat",       \* clarification_required
          "unreliable",   \* recognition_unreliable
          "truncated",    \* capture_truncated
          "cut"}          \* utterance_incomplete

Incomplete(q) == "repeat" \in q
AllowActions(q) == {"eligible", "scored"} \subseteq q
Reliable(q) == ~Incomplete(q) /\ q \cap {"unreliable", "truncated", "cut"} = {}
GroqUnscored(q) == "groq" \in q /\ "scored" \notin q
LexicalFragment(q) ==
  "cut" \in q /\ q \cap {"scored", "unreliable", "truncated"} = {}

MaySelectOffer(q) == "voice" \in q /\ Reliable(q) /\ GroqUnscored(q)
ExplicitLocalRequest(q) == Reliable(q) /\ (AllowActions(q) \/ GroqUnscored(q))
ProposalQuality(q) == AllowActions(q) /\ Reliable(q)

\* TurnGate.outcome: a stop phrase passes with any known score.
Outcome(u) == AllowActions(u.quality) \/ (u.text = "stop" /\ "scored" \in u.quality)

-----------------------------------------------------------------------------
(* The words *)

Texts == {"memory", "read", "stop", "pause", "control", "command", "request", "unnamed",
          "yes", "no", "first", "second", "bare", "name", "chat"}

\* TaskContext.is_selection_reply; a document list takes numbers and "no".
Selecting(u) == u.text \in {"yes", "no", "first", "second"}
Ordinal(u) == CASE u.text = "second" -> 2 [] OTHER -> 1

Direct(u) == u.text \in {"request", "unnamed", "command"}                   \* direct_request
ShortReply(u) == u.text \in {"yes", "first", "second", "bare", "name"}      \* short_clarification
NamesSomething(u) == u.text \in {"name", "first", "second", "bare"}         \* application_name_reply
NeedsProposal(u) == u.text \in {"bare", "second"}                           \* needs_proposal
\* The words may hold a question or a search word of _gap_refusal, whatever else
\* they say; those that agree, refuse or choose by a number hold none.
MayInquire(u) ==
  u.text \in {"chat", "request", "unnamed", "command", "memory", "read", "name", "yes"}
\* acceptance_matches, for an agreement in general and for a verb of the tool.
Accepts(u, tool) ==
  u.text = "yes" \/ (u.text = "bare" /\ tool \in {"web_search", "find_files"})
==============================================================================
