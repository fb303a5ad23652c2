------------------------- MODULE RecognitionPolicy -------------------------
(***************************************************************************)
(* What may be made of a recognised text (core/recognition_policy.py and   *)
(* the end of both listen_once): when a second recogniser is asked, which  *)
(* of two texts is taken, and the flags that go with it to the queue.      *)
(* A result is [text, engine, sure, flags]; "sure" is a confidence that is *)
(* known and above its threshold.  Of a text only its class counts.        *)
(***************************************************************************)
EXTENDS Naturals

\* "scoped" is a name that the pending question expects, "odd" a suspicious fragment.
Words == {"", "open", "odd", "scoped", "command", "action", "chat"}

Interrupted == [text |-> "", engine |-> "interrupted", sure |-> FALSE, flags |-> {}]
Nothing(engine) == [text |-> "", engine |-> engine, sure |-> FALSE, flags |-> {}]

IsCommand(r) == r.text = "command"                          \* _contains_command_prefix
ActionHint(r) == r.text \in {"command", "action"}           \* _action_hint
PossibleFragment(r) == r.text = "open"

\* action_eligible: what cannot be trusted with an action is fragmented or unscored.
Eligible(r) == r.flags \cap {"fragmented", "unscored"} = {}

\* _should_refine where the second recogniser is asked selectively.
ShouldRefine(r) ==
  \/ r.flags \cap {"fragmented", "repeat", "truncated"} # {}
  \/ PossibleFragment(r) \/ r.text \in {"", "odd"} \/ ~r.sure
  \/ r.text # "scoped" /\ ActionHint(r)

SelectResult_Second(first, second) == IF second.text = "" THEN first ELSE second
\* _select_result: a command is one only if both recognisers have heard one.
SelectResult(first, second) ==
  IF second.text = "" THEN first
  ELSE IF IsCommand(first) # IsCommand(second)
       THEN [IF IsCommand(second) THEN first ELSE second EXCEPT
               !.engine = "conflict", !.sure = first.sure /\ second.sure]
  ELSE IF ~second.sure /\ first.text # "" THEN first ELSE second

\* The end of VoskListener.listen_once: what the capture has marked stays so, an unsafe
\* refinement restricts the text, and a doubtful action is not even talked about.
Refined(first, chosen, unsafe) ==
  [chosen EXCEPT !.flags =
     first.flags
     \cup (IF unsafe \/ chosen.engine = "conflict" THEN {"unreliable"} ELSE {})
     \cup (IF unsafe THEN {"fragmented"} ELSE {})
     \cup (IF unsafe /\ (ActionHint(chosen) \/ chosen.text = "" \/ ~chosen.sure)
           THEN {"repeat"} ELSE {})]

\* The end of _recognize_capture: the flags of a whole recording's text.
Marks(r, failed, truncated) ==
  LET again == failed \/ truncated \/ PossibleFragment(r) IN
  [r EXCEPT !.flags =
     (@ \cap {"unscored"})
     \cup (IF PossibleFragment(r) THEN {"cut"} ELSE {})
     \cup (IF truncated THEN {"truncated"} ELSE {})
     \cup (IF failed THEN {"unreliable"} ELSE {})
     \cup (IF again THEN {"repeat"} ELSE {})
     \cup (IF again \/ "unscored" \in r.flags THEN {"fragmented"} ELSE {})]
=============================================================================
