---------------------------- MODULE DialogueProofs ----------------------------
(***************************************************************************)
(* Theorems about Dialogue, for any tools, any qualities an utterance may  *)
(* have, any texts and any skills.  Inv (in Dialogue) is inductive: a turn *)
(* closes what it finds open before it asks the model, so that what the    *)
(* model's answer may still start is known from the turn alone.            *)
(***************************************************************************)
EXTENDS Dialogue, TLAPS

NowInv == TurnInv /\ TrustInv /\ GroundInv

Lists == [kind : {"file", "app", "window"}, size : 1..2, live : BOOLEAN, changed : BOOLEAN,
          closed : BOOLEAN]
Turns == [phase : Phases, heard : Utterances \cup {None}, lease : Offerable \cup {None},
          pend : Questions \cup {None}, offer : Replies \cup {None}, path : Paths \cup {None},
          answer : Answers \cup {None}, act : Acts \cup {None}]

\* What the words of an utterance say of the tool it names.
LEMMA Words ==
  ASSUME NEW u \in Utterances
  PROVE  /\ u.quality \in Qualities
         /\ u.tool \in Scopes \cup {"new_conversation", "prepare_workplace"}
         /\ u.text = "request" => u.tool \in Scopes \cup {"prepare_workplace"}
         /\ u.text = "unnamed" => u.tool = "window_control"
         /\ u.text = "command" => u.tool \in {"find_files", "open_app", "new_conversation"}
         /\ u.text \notin {"request", "unnamed", "command"} => u.tool = None
BY DEF Utterances

LEMMA ScopeOf ==
  ASSUME NEW u \in Utterances
  PROVE  /\ Scope(u) \in Tools \cup {None}
         /\ Scope(u) \in {None, u.tool}
         /\ u.tool = "prepare_workplace" => Scope(u) = None
BY Words DEF Scope, Scopes

-----------------------------------------------------------------------------
(* The turn in progress                                                    *)

LEMMA TurnTyped ==
  ASSUME Inv
  PROVE  now \in Turns /\ enabled \in Skills /\ NowInv
BY DEF Inv, TypeOK, TurnInv, NowInv, Turns

\* The turn is over.
LEMMA TurnOver ==
  ASSUME now' = Blank
  PROVE  NowInv'
<1>1. /\ now'.phase = "idle"
      /\ now' \in Turns
  BY DEF Blank, Turns, Phases
<1>2. QED
  BY <1>1 DEF NowInv, TurnInv, TrustInv, GroundInv, Acting, Turns

\* The turn is left alone.
LEMMA TurnSame ==
  ASSUME Inv, UNCHANGED <<now, enabled>>
  PROVE  NowInv'
BY DEF Inv, NowInv, TurnInv, TrustInv, GroundInv, Acting, Asked, Confirms

\* A turn begins, and takes the lease of what was offered before it.
LEMMA TurnBegins ==
  ASSUME Inv, NEW u, NEW phase, NEW path
  PROVE  /\ Turn(u, phase, path) =
              [phase |-> phase, heard |-> u, lease |-> None, pend |-> None, offer |-> None,
               path |-> path, answer |-> None, act |-> None]
         /\ Begun(u, phase, path) =
              [phase |-> phase, heard |-> u, lease |-> LeaseFor(u), pend |-> None, offer |-> None,
               path |-> path, answer |-> None, act |-> None]
         /\ LeaseFor(u) \in Offerable \cup {None}
         /\ LeaseFor(u) # None => LeaseFor(u) = proposal
<1> DEFINE at == [Blank EXCEPT !.phase = phase]
           on == [at EXCEPT !.heard = u]
           full == [on EXCEPT !.path = path]
<1>1. at = [phase |-> phase, heard |-> None, lease |-> None, pend |-> None, offer |-> None,
            path |-> None, answer |-> None, act |-> None]
  BY DEF Blank
<1>2. Turn(u, phase, path) = full
  BY DEF Turn
<1> HIDE DEF at
<1>3. on = [phase |-> phase, heard |-> u, lease |-> None, pend |-> None, offer |-> None,
            path |-> None, answer |-> None, act |-> None]
  BY <1>1
<1> HIDE DEF on
<1>4. full = [phase |-> phase, heard |-> u, lease |-> None, pend |-> None, offer |-> None,
              path |-> path, answer |-> None, act |-> None]
  BY <1>3
<1> HIDE DEF full
<1>5. Begun(u, phase, path) =
              [phase |-> phase, heard |-> u, lease |-> LeaseFor(u), pend |-> None, offer |-> None,
               path |-> path, answer |-> None, act |-> None]
  <2>1. Begun(u, phase, path) = [full EXCEPT !.lease = LeaseFor(u)]
    BY <1>2 DEF Begun
  <2>2. QED
    BY <1>4, <2>1
<1>6. LeaseFor(u) \in Offerable \cup {None} /\ (LeaseFor(u) # None => LeaseFor(u) = proposal)
  BY DEF LeaseFor, Inv, TypeOK
<1>7. QED
  BY <1>2, <1>4, <1>5, <1>6

\* A turn that acts at once.
LEMMA TurnActs ==
  ASSUME Inv, NEW u \in Utterances, NEW lease \in Offerable \cup {None},
         NEW path \in {"document", "memory", "select", "local", "natural"}, NEW a \in Acts,
         NEW phase \in {"stamping", "acting"},
         now' = [phase |-> phase, heard |-> u, lease |-> lease, pend |-> None, offer |-> None,
                 path |-> path, answer |-> None, act |-> a],
         \/ AllowActions(u.quality)
         \/ GroqUnscored(u.quality) /\ Reliable(u.quality) /\ path \in {"document", "memory", "select"},
         path = "natural" => Scope(u) \in {None, Kind(a.tool)},
         path = "document" => a.tool = "read_document",
         path = "memory" => a.tool = "memory",
         a.basis # "proposal",
         a.changed => a.tool \notin {"open_file", "run_file"}
  PROVE  NowInv'
<1>1. /\ now'.phase = phase /\ now'.heard = u /\ now'.pend = None /\ now'.path = path
      /\ now'.act = a
  OBVIOUS
<1>2. now' \in Turns
  <2>1. phase \in Phases /\ path \in Paths
    BY DEF Phases, Paths
  <2>2. QED
    BY <2>1 DEF Turns
<1>3. TurnInv'
  BY <1>1, <1>2 DEF TurnInv, Turns, Acting, Paths
<1>4. TrustInv'
  BY <1>1 DEF TrustInv, Acting
<1>5. GroundInv'
  <2>1. Asked' = Scope(u)
    BY <1>1 DEF Asked
  <2>2. QED
    BY <1>1, <2>1 DEF GroundInv, Acting
<1>6. QED
  BY <1>3, <1>4, <1>5 DEF NowInv

LEMMA ActTyped ==
  ASSUME NEW tool \in Doable, NEW basis \in Grounds
  PROVE  /\ Act(tool, basis) \in Acts
         /\ Act(tool, basis) = [tool |-> tool, basis |-> basis, confirmed |-> FALSE, late |-> FALSE,
                                timely |-> TRUE, changed |-> FALSE, slipped |-> FALSE]
BY DEF Act, Acts

\* A turn for which something is looked up, or the model asked.
LEMMA TurnAsks ==
  ASSUME now' \in Turns, now'.phase \in {"looking", "thinking"}, now'.heard \in Utterances,
         now'.path \in {"control", "natural", "groq", "quiet"},
         now'.phase = "looking" =>
           now'.path = "natural" /\ now'.pend = None /\ now'.heard.tool = "open_app",
         \/ AllowActions(now'.heard.quality)
         \/ /\ GroqUnscored(now'.heard.quality) /\ Reliable(now'.heard.quality)
            /\ now'.path = "groq"
         \/ now'.path = "quiet"
  PROVE  NowInv'
<1>1. TurnInv'
  BY DEF TurnInv, Turns, Acting, Paths
<1>2. TrustInv' /\ GroundInv'
  BY DEF TrustInv, GroundInv, Acting
<1>3. QED
  BY <1>1, <1>2 DEF NowInv

LEMMA ActsAtOnce ==
  ASSUME Inv, NEW u \in Utterances, NEW path \in {"document", "memory", "select", "local", "natural"},
         NEW a \in Acts, NEW phase \in {"stamping", "acting"},
         now' = [Turn(u, phase, path) EXCEPT !.act = a]
           \/ now' = [Begun(u, phase, path) EXCEPT !.act = a],
         \/ AllowActions(u.quality)
         \/ GroqUnscored(u.quality) /\ Reliable(u.quality) /\ path \in {"document", "memory", "select"},
         path = "natural" => Scope(u) \in {None, Kind(a.tool)},
         path = "document" => a.tool = "read_document",
         path = "memory" => a.tool = "memory",
         a.basis # "proposal",
         a.changed => a.tool \notin {"open_file", "run_file"}
  PROVE  NowInv'
<1> DEFINE turn == Turn(u, phase, path)
           begun == Begun(u, phase, path)
<1>1. /\ turn = [phase |-> phase, heard |-> u, lease |-> None, pend |-> None, offer |-> None,
                 path |-> path, answer |-> None, act |-> None]
      /\ begun = [phase |-> phase, heard |-> u, lease |-> LeaseFor(u), pend |-> None, offer |-> None,
                  path |-> path, answer |-> None, act |-> None]
      /\ LeaseFor(u) \in Offerable \cup {None} /\ None \in Offerable \cup {None}
  BY TurnBegins
<1>2. now' = [turn EXCEPT !.act = a] \/ now' = [begun EXCEPT !.act = a]
  OBVIOUS
<1> HIDE DEF turn, begun
<1>3. [turn EXCEPT !.act = a] =
              [phase |-> phase, heard |-> u, lease |-> None, pend |-> None, offer |-> None,
               path |-> path, answer |-> None, act |-> a]
  BY <1>1
<1>4. [begun EXCEPT !.act = a] =
              [phase |-> phase, heard |-> u, lease |-> LeaseFor(u), pend |-> None, offer |-> None,
               path |-> path, answer |-> None, act |-> a]
  BY <1>1
<1>5. PICK lease \in Offerable \cup {None} :
         now' = [phase |-> phase, heard |-> u, lease |-> lease, pend |-> None, offer |-> None,
                 path |-> path, answer |-> None, act |-> a]
  BY <1>1, <1>2, <1>3, <1>4
<1>6. QED
  BY <1>5, TurnActs

LEMMA ProcessTurn ==
  ASSUME Inv, UNCHANGED enabled, now.phase = "idle", NEW u \in Utterances, Process(u)
  PROVE  NowInv'
<1>1. /\ TypeOK /\ tasks \in Lists \cup {None}
      /\ {"read_document", "memory", "open_file", "run_file", "open_listed", "window_control",
          "focus_window", "prepare_workplace", "new_conversation", "find_files", "open_app"} \subseteq Doable
      /\ {"request", "selection", "command", "reply"} \subseteq Grounds
  BY DEF Inv, TypeOK, Lists, Doable, Grounds, Proposable
<1>2. CASE RefuseDocument(u) \/ AnswerDocument(u) \/ StopOrPause(u) \/ StaysSilent(u) \/ AskWhatIsMeant(u)
  BY <1>2, TurnOver
     DEF RefuseDocument, AnswerDocument, StopOrPause, StaysSilent, AskWhatIsMeant, Answer, Silent, Over
<1>3. CASE ReadDocument(u)
  <2>1. /\ now' = [Turn(u, "acting", "document") EXCEPT !.act = Act("read_document", "request")]
        /\ Reliable(u.quality) /\ (AllowActions(u.quality) \/ GroqUnscored(u.quality))
    BY <1>3 DEF ReadDocument, ExplicitLocalRequest
  <2>2. /\ Act("read_document", "request") \in Acts
        /\ Act("read_document", "request").tool = "read_document"
        /\ Act("read_document", "request").basis = "request"
        /\ Act("read_document", "request").changed = FALSE
    BY <1>1, ActTyped
  <2>3. QED
    BY <2>1, <2>2, ActsAtOnce
<1>4. CASE MemoryTurn(u)
  <2>1. CASE Answer
    BY <2>1, TurnOver DEF Answer, Over
  <2>2. CASE /\ now' = [Turn(u, "acting", "memory") EXCEPT !.act = Act("memory", "request")]
             /\ ExplicitLocalRequest(u.quality)
    <3>1. /\ Act("memory", "request") \in Acts /\ Act("memory", "request").tool = "memory"
          /\ Act("memory", "request").basis = "request" /\ Act("memory", "request").changed = FALSE
      BY <1>1, ActTyped
    <3>2. Reliable(u.quality) /\ (AllowActions(u.quality) \/ GroqUnscored(u.quality))
      BY <2>2 DEF ExplicitLocalRequest
    <3>3. QED
      BY <2>2, <3>1, <3>2, ActsAtOnce
  <2>3. QED
    BY <1>4, <2>1, <2>2 DEF MemoryTurn
<1>5. CASE SelectTurn(u)
  <2>1. CASE Answer
    BY <2>1, TurnOver DEF Answer, Over
  <2>2. CASE /\ Chosen(u) /\ SameFile
             /\ \E t \in EntryTools :
                  now' = [Begun(u, IF tasks.kind = "file" THEN "stamping" ELSE "acting",
                                "select") EXCEPT
                            !.act = [Act(t, "selection") EXCEPT !.timely = ~tasks.closed,
                                                                !.changed = tasks.changed]]
    <3> DEFINE phase == IF tasks.kind = "file" THEN "stamping" ELSE "acting"
    <3>1. PICK t \in EntryTools :
             now' = [Begun(u, phase, "select") EXCEPT
                       !.act = [Act(t, "selection") EXCEPT !.timely = ~tasks.closed,
                                                           !.changed = tasks.changed]]
      BY <2>2
    <3>2. t \in Doable /\ tasks \in Lists
      <4>1. t \in {"open_file", "run_file", "open_listed", "window_control", "focus_window"}
        BY DEF EntryTools, Variants
      <4>2. tasks # None
        BY <1>5 DEF SelectTurn
      <4>3. QED
        BY <1>1, <4>1, <4>2
    <3> DEFINE a == [Act(t, "selection") EXCEPT !.timely = ~tasks.closed, !.changed = tasks.changed]
    <3>3. /\ a \in Acts /\ a.tool = t /\ a.basis = "selection" /\ a.changed = tasks.changed
      <4>1. Act(t, "selection") =
              [tool |-> t, basis |-> "selection", confirmed |-> FALSE, late |-> FALSE,
               timely |-> TRUE, changed |-> FALSE, slipped |-> FALSE] /\ Act(t, "selection") \in Acts
        BY <1>1, <3>2, ActTyped
      <4>2. (~tasks.closed) \in BOOLEAN /\ tasks.changed \in BOOLEAN
        <5>1. tasks.closed \in BOOLEAN /\ tasks.changed \in BOOLEAN
          BY <3>2 DEF Lists
        <5>2. QED
          BY <5>1
      <4> DEFINE b == [Act(t, "selection") EXCEPT !.timely = ~tasks.closed]
      <4>3. b \in Acts /\ b.tool = t /\ b.basis = "selection"
        BY <4>1, <4>2 DEF Acts
      <4>4. a = [b EXCEPT !.changed = tasks.changed]
        OBVIOUS
      <4> HIDE DEF a, b
      <4>5. QED
        BY <4>2, <4>3, <4>4 DEF Acts
    <3>4. /\ now' = [Begun(u, phase, "select") EXCEPT !.act = a]
          /\ phase \in {"stamping", "acting"}
      BY <3>1
    <3> HIDE DEF a, phase
    <3>5. AllowActions(u.quality) \/ (GroqUnscored(u.quality) /\ Reliable(u.quality))
      BY <1>5 DEF SelectTurn, Outcome, MaySelectOffer, Selecting
    <3>6. ~a.changed
      BY <2>2, <3>3 DEF SameFile
    <3>7. QED
      BY <3>3, <3>4, <3>5, <3>6, ActsAtOnce
  <2>3. QED
    BY <1>5, <2>1, <2>2 DEF SelectTurn
<1>6. ASSUME Passing(u), u.text # "stop"
      PROVE  AllowActions(u.quality)
  BY <1>6 DEF Passing, Outcome
<1>7. CASE LocalCommand(u)
  <2>1. CASE Answer
    BY <2>1, TurnOver DEF Answer, Over
  <2>2. CASE now' = [Begun(u, "acting", "local") EXCEPT !.act = Act(u.tool, "command")]
    <3>1. u.tool \in Doable /\ AllowActions(u.quality)
      BY <1>1, <1>6, <1>7, Words DEF LocalCommand
    <3>2. /\ Act(u.tool, "command") \in Acts
          /\ Act(u.tool, "command").basis = "command" /\ Act(u.tool, "command").changed = FALSE
      BY <1>1, <3>1, ActTyped
    <3>3. QED
      BY <2>2, <3>1, <3>2, ActsAtOnce
  <2>3. QED
    BY <1>7, <2>1, <2>2 DEF LocalCommand
<1>8. ASSUME NEW phase \in {"looking", "thinking"}, NEW path \in {"control", "natural", "groq", "quiet"},
             now' = Begun(u, phase, path),
             phase = "looking" => path = "natural" /\ u.tool = "open_app",
             \/ AllowActions(u.quality)
             \/ GroqUnscored(u.quality) /\ Reliable(u.quality) /\ path = "groq"
             \/ path = "quiet"
      PROVE  NowInv'
  <2>1. /\ now' = [phase |-> phase, heard |-> u, lease |-> LeaseFor(u), pend |-> None, offer |-> None,
                   path |-> path, answer |-> None, act |-> None]
        /\ LeaseFor(u) \in Offerable \cup {None}
    BY <1>8, TurnBegins
  <2>2. now' \in Turns
    BY <2>1 DEF Turns, Phases, Paths
  <2>3. now'.phase = phase /\ now'.heard = u /\ now'.path = path /\ now'.pend = None
    BY <2>1
  <2>4. QED
    BY <1>8, <2>2, <2>3, TurnAsks
<1>9. CASE Control(u)
  <2>1. AllowActions(u.quality)
    BY <1>6, <1>9 DEF Control
  <2>2. CASE now' = Begun(u, "thinking", "control")
    BY <1>8, <2>1, <2>2
  <2>3. CASE now' = Blank
    BY <2>3, TurnOver
  <2>4. QED
    BY <1>9, <2>2, <2>3 DEF Control, Answer, Over
<1>10. ASSUME Ordinary(u)
       PROVE  AllowActions(u.quality)
  BY <1>6, <1>10 DEF Ordinary
<1>11. ASSUME NEW tool \in Doable, NEW basis \in {"request", "reply"}, Ordinary(u),
              now' = [Begun(u, "acting", "natural") EXCEPT !.act = Act(tool, basis)],
              Scope(u) \in {None, Kind(tool)}
       PROVE  NowInv'
  <2>1. /\ Act(tool, basis) \in Acts /\ Act(tool, basis).tool = tool
        /\ Act(tool, basis).basis = basis /\ Act(tool, basis).changed = FALSE
    BY <1>1, ActTyped
  <2>2. QED
    BY <1>10, <1>11, <2>1, ActsAtOnce
<1>12. CASE WindowTurn(u)
  <2>1. CASE Answer
    BY <2>1, TurnOver DEF Answer, Over
  <2>2. CASE /\ \/ u.text = "request" /\ u.tool = "window_control"
                \/ ForWindow(u) /\ NamesSomething(u)
             /\ now' = [Begun(u, "acting", "natural") EXCEPT
                          !.act = Act("window_control", IF ForWindow(u) THEN "reply" ELSE "request")]
    <3>1. Scope(u) \in {None, Kind("window_control")}
      <4>1. NamesSomething(u) => ~Direct(u)
        BY DEF NamesSomething, Direct
      <4>2. QED
        BY <2>2, <4>1, ScopeOf DEF Scope, Kind
    <3>2. Ordinary(u) /\ (IF ForWindow(u) THEN "reply" ELSE "request") \in {"request", "reply"}
      BY <1>12 DEF WindowTurn
    <3>3. QED
      BY <1>1, <1>11, <2>2, <3>1, <3>2
  <2>3. QED
    BY <1>12, <2>1, <2>2 DEF WindowTurn
<1>13. CASE Shortcut(u)
  <2>1. Ordinary(u) /\ u.tool \in {"prepare_workplace", "open_app"}
    BY <1>13 DEF Shortcut
  <2>2. CASE u.tool = "open_app"
    <3>1. now' = Begun(u, "looking", "natural")
      BY <1>13, <2>2 DEF Shortcut
    <3>2. QED
      BY <1>8, <1>10, <2>1, <2>2, <3>1
  <2>3. CASE u.tool # "open_app"
    <3>1. now' = [Begun(u, "acting", "natural") EXCEPT !.act = Act("prepare_workplace", "request")]
      BY <1>13, <2>1, <2>3 DEF Shortcut
    <3>2. QED
      BY <1>1, <1>11, <2>1, <2>3, <3>1, ScopeOf
  <2>4. QED
    BY <2>2, <2>3

<1>14. ASSUME NEW path \in {"natural", "groq", "quiet"}, NEW pend \in Questions \cup {None},
              NEW offer \in Replies \cup {None},
              now' = [Begun(u, "thinking", path) EXCEPT !.pend = pend, !.offer = offer],
              \/ AllowActions(u.quality)
              \/ GroqUnscored(u.quality) /\ Reliable(u.quality) /\ path = "groq"
              \/ path = "quiet"
       PROVE  NowInv'
  <2> DEFINE begun == Begun(u, "thinking", path)
             asked == [begun EXCEPT !.pend = pend]
  <2>1. /\ begun = [phase |-> "thinking", heard |-> u, lease |-> LeaseFor(u), pend |-> None,
                    offer |-> None, path |-> path, answer |-> None, act |-> None]
        /\ LeaseFor(u) \in Offerable \cup {None}
    BY TurnBegins
  <2>2. now' = [asked EXCEPT !.offer = offer]
    BY <1>14
  <2> HIDE DEF begun
  <2>3. asked = [phase |-> "thinking", heard |-> u, lease |-> LeaseFor(u), pend |-> pend,
                 offer |-> None, path |-> path, answer |-> None, act |-> None]
    BY <2>1
  <2> HIDE DEF asked
  <2>4. now' = [phase |-> "thinking", heard |-> u, lease |-> LeaseFor(u), pend |-> pend,
                offer |-> offer, path |-> path, answer |-> None, act |-> None]
    BY <2>2, <2>3
  <2>5. now' \in Turns
    <3>1. "thinking" \in Phases /\ path \in Paths
      BY DEF Phases, Paths
    <3>2. QED
      BY <2>1, <2>4, <3>1 DEF Turns
  <2>6. now'.phase = "thinking" /\ now'.heard = u /\ now'.path = path /\ now'.pend = pend
    BY <2>4
  <2>7. QED
    BY <1>14, <2>5, <2>6, TurnAsks
<1>15. pending \in Questions \cup {None} /\ reply \in Replies \cup {None}
  BY <1>1 DEF TypeOK
<1>16. CASE AskModel(u)
  <2> DEFINE pend == IF Scoped(u) THEN pending ELSE None
             offer == IF LeaseFor(u) # None THEN None ELSE reply
  <2>1. pend \in Questions \cup {None} /\ offer \in Replies \cup {None}
    BY <1>15
  <2>2. now' = [Begun(u, "thinking", "natural") EXCEPT !.pend = pend, !.offer = offer]
    BY <1>16 DEF AskModel
  <2>3. AllowActions(u.quality)
    BY <1>10, <1>16 DEF AskModel
  <2> HIDE DEF pend, offer
  <2>4. QED
    BY <1>14, <2>1, <2>2, <2>3
<1>17. CASE RestrictedTurn(u)
  <2> DEFINE named == CandidateFor(u) /\ Live(pending) /\ pending.groq /\ NamesSomething(u)
             path == IF CandidateFor(u) THEN "groq" ELSE "quiet"
             pend == IF named THEN pending ELSE None
  <2>1. \/ Silent \/ Answer
        \/ now' = [Begun(u, "thinking", path) EXCEPT !.pend = pend, !.offer = reply]
    BY <1>17 DEF RestrictedTurn
  <2>2. CASE Silent \/ Answer
    BY <2>2, TurnOver DEF Silent, Answer, Over
  <2>3. CASE now' = [Begun(u, "thinking", path) EXCEPT !.pend = pend, !.offer = reply]
    <3>1. pend \in Questions \cup {None}
      BY <1>15
    <3>2. /\ path \in {"natural", "groq", "quiet"}
          /\ (GroqUnscored(u.quality) /\ Reliable(u.quality) /\ path = "groq") \/ path = "quiet"
      BY DEF CandidateFor, MaySelectOffer
    <3> HIDE DEF pend, path
    <3>3. QED
      BY <1>14, <1>15, <2>3, <3>1, <3>2
  <2>4. QED
    BY <2>1, <2>2, <2>3
<1>18. QED
  BY <1>2, <1>3, <1>4, <1>5, <1>7, <1>9, <1>12, <1>13, <1>16, <1>17 DEF Process

\* The turn goes on to an action, on grounds of its own.
LEMMA TakesAction ==
  ASSUME Inv, UNCHANGED enabled, now.phase \in {"looking", "answered"},
         now.path \in {"natural", "groq"}, NEW a \in Acts,
         now' = [now EXCEPT !.phase = "acting", !.act = a],
         now.path = "groq" => Kind(a.tool) \in UnscoredVoiceTools,
         Asked \in {None, Kind(a.tool)} \/ (a.basis = "gap" /\ a.tool = "web_search"),
         a.basis = "proposal" => ~a.late /\ (enabled = {} => a.timely),
         ~a.changed
  PROVE  NowInv'
<1>1. now \in Turns /\ NowInv
  BY TurnTyped
<1>2. now' \in Turns
  BY <1>1 DEF Turns, Phases
<1>3. /\ now'.phase = "acting" /\ now'.heard = now.heard /\ now'.pend = now.pend
      /\ now'.path = now.path /\ now'.act = a
  BY <1>1 DEF Turns
<1>4. now.phase # "idle" /\ now.heard \in Utterances
  BY <1>1 DEF NowInv, TurnInv
<1>5. TurnInv'
  BY <1>2, <1>3, <1>4 DEF TurnInv, Turns, Acting, Paths
<1>6. TrustInv'
  BY <1>1, <1>3, <1>4 DEF NowInv, TrustInv, Acting
<1>7. GroundInv'
  <2>1. Asked' = Asked
    BY <1>3 DEF Asked
  <2>2. QED
    BY <1>3, <2>1 DEF GroundInv, Acting
<1>8. QED
  BY <1>5, <1>6, <1>7 DEF NowInv

\* The action in progress goes on.
LEMMA ActionGoesOn ==
  ASSUME Inv, UNCHANGED enabled, Acting, now' \in Turns, NEW a \in Acts,
         now'.heard = now.heard, now'.pend = now.pend, now'.path = now.path, now'.act = a,
         now'.phase \in {"stamping", "acting", "confirming", "done"},
         a.tool = now.act.tool, a.basis = now.act.basis, a.late = now.act.late,
         a.timely = now.act.timely,
         a.changed /\ a.tool \in {"open_file", "run_file"} =>
            now'.phase = "confirming" /\ a.tool = "run_file",
         now'.phase = "done" => ~Confirms \/ a.confirmed
  PROVE  NowInv'
<1>1. NowInv /\ now.phase # "idle" /\ now.heard \in Utterances /\ now.path \in Paths
  BY TurnTyped DEF Acting, NowInv, TurnInv
<1>2. TurnInv'
  BY <1>1 DEF TurnInv, Turns, Acting
<1>3. TrustInv'
  BY <1>1 DEF NowInv, TrustInv, Acting
<1>4. Asked' = Asked /\ (Confirms' <=> Confirms)
  BY DEF Asked, Confirms
<1>5. GroundInv'
  BY <1>1, <1>4 DEF NowInv, GroundInv, Acting
<1>6. QED
  BY <1>2, <1>3, <1>5 DEF NowInv

\* On what grounds a tool the model names may be used.
LEMMA BasisHolds ==
  ASSUME NEW tool, NEW t \in Variants(tool), NEW b \in Bases(t), b # None,
         now.answer.kind = "lookup" => tool = "web_search"
  PROVE  /\ b \in {"gap", "offer", "reply", "request"}
         /\ Asked \in {None, Kind(t)} \/ (b = "gap" /\ t = "web_search")
         /\ b = "offer" => now.offer # None
<1>1. /\ b \in {"gap", "offer", "reply", "request"}
      /\ b = "offer" => now.offer # None
  BY DEF Bases, TakesOffer
<1>2. CASE now.answer.kind = "lookup"
  BY <1>2 DEF Bases, Variants
<1>3. ASSUME now.answer.kind # "lookup", Asked # None, Kind(t) # Asked
      PROVE  FALSE
  <2>1. Bases(t) = {None}
    BY <1>3 DEF Bases
  <2>2. QED
    BY <2>1
<1>4. QED
  BY <1>1, <1>2, <1>3

\* Who agrees to a proposal has asked for nothing himself.
LEMMA AgreedAsks ==
  ASSUME NEW tool, Accepts(now.heard, tool), now.pend = None
  PROVE  Asked = None
BY DEF Accepts, Asked, Scope, Direct

LEMMA TurnGoesOn ==
  ASSUME Inv, UNCHANGED enabled,
         \/ ExactApp \/ NoExactApp
         \/ ModelAnswers \/ SpeakAnswer \/ NothingDone \/ ResolveProposal \/ RejectProposal
         \/ ModifyProposal \/ AcceptProposal \/ ModelActs
         \/ Stamp \/ ActFails \/ OfferEntries \/ AskUser \/ Do \/ UserAgrees \/ UserRefuses \/ Finish
         \/ Stop \/ TypedLine \/ Pause \/ Resume \/ Expire \/ FileChanges
  PROVE  NowInv'
<1>1. /\ now \in Turns /\ NowInv /\ TypeOK
      /\ OpenInv /\ {"open_app", "web_search", "focus_window"} \subseteq Doable /\ Tools \subseteq Doable
      /\ {"request", "reply", "proposal", "offer", "gap"} \subseteq Grounds
  BY TurnTyped DEF Inv, Doable, Grounds, Proposable
<1>2. CASE now' = Blank
  BY <1>2, TurnOver
<1>3. CASE now' = now
  BY <1>3, TurnSame
<1>4. CASE ExactApp
  <2>1. /\ now.phase = "looking"
        /\ now' = [now EXCEPT !.phase = "acting", !.act = Act("open_app", "request")]
    BY <1>4 DEF ExactApp, Run
  <2>2. /\ Act("open_app", "request") \in Acts /\ Act("open_app", "request").tool = "open_app"
        /\ Act("open_app", "request").basis = "request" /\ Act("open_app", "request").changed = FALSE
    BY <1>1, ActTyped
  <2>3. /\ now.path = "natural" /\ now.pend = None /\ now.heard.tool = "open_app"
        /\ now.heard \in Utterances
    BY <1>1, <2>1 DEF NowInv, TurnInv
  <2>4. Asked \in {None, Kind("open_app")}
    BY <2>3, ScopeOf DEF Asked, Kind
  <2>5. QED
    BY <2>1, <2>2, <2>3, <2>4, TakesAction
<1>5. CASE NoExactApp
  <2> DEFINE offer == IF LeaseCurrent THEN None ELSE reply
  <2>1. now.phase = "looking" /\ now' = [now EXCEPT !.phase = "thinking", !.offer = offer]
    BY <1>5 DEF NoExactApp
  <2>2. offer \in Replies \cup {None}
    BY <1>1 DEF TypeOK
  <2> HIDE DEF offer
  <2>3. now' \in Turns
    BY <1>1, <2>1, <2>2 DEF Turns, Phases
  <2>4. now'.phase = "thinking" /\ now'.heard = now.heard /\ now'.path = now.path
    BY <1>1, <2>1 DEF Turns
  <2>5. now.path = "natural" /\ now.heard \in Utterances /\ now.phase # "idle"
    BY <1>1, <2>1 DEF NowInv, TurnInv
  <2>6. AllowActions(now.heard.quality)
    BY <1>1, <2>5 DEF NowInv, TrustInv
  <2>7. QED
    BY <2>3, <2>4, <2>5, <2>6, TurnAsks
<1>6. CASE ModelAnswers
  <2>1. PICK a \in Answers : now' = [now EXCEPT !.phase = "answered", !.answer = a]
    BY <1>6 DEF ModelAnswers
  <2>2. now' \in Turns
    BY <1>1, <2>1 DEF Turns, Phases
  <2>3. /\ now'.phase = "answered" /\ now'.heard = now.heard /\ now'.path = now.path
        /\ now'.answer = a
    BY <1>1, <2>1 DEF Turns
  <2>4. /\ now.phase = "thinking" /\ now.heard \in Utterances
        /\ now.path \in {"control", "natural", "groq", "quiet"}
    BY <1>1, <1>6 DEF ModelAnswers, NowInv, TurnInv
  <2>5. TurnInv'
    BY <2>2, <2>3, <2>4 DEF TurnInv, Turns, Acting, Paths
  <2>6. TrustInv' /\ GroundInv'
    BY <1>1, <2>3, <2>4 DEF NowInv, TrustInv, GroundInv, Acting
  <2>7. QED
    BY <2>5, <2>6 DEF NowInv
<1>7. CASE SpeakAnswer \/ NothingDone \/ ResolveProposal \/ RejectProposal \/ ModifyProposal
  BY <1>2, <1>7
     DEF SpeakAnswer, NothingDone, ResolveProposal, RejectProposal, ModifyProposal, Answer, Over
<1>8. CASE AcceptProposal
  <2>1. CASE Answer
    BY <1>2, <2>1 DEF Answer, Over
  <2>2. ASSUME NEW t \in Variants(now.lease.tool), Accepts(now.heard, now.lease.tool),
               now' = [now EXCEPT !.phase = "acting",
                                  !.act = [Act(t, "proposal") EXCEPT
                                             !.late = stopped, !.timely = now.lease.next]]
        PROVE  NowInv'
    <3> DEFINE a == [Act(t, "proposal") EXCEPT !.late = stopped, !.timely = now.lease.next]
    <3>1. now.phase = "answered" /\ now.path = "natural" /\ LeaseCurrent /\ now.pend = None
      BY <1>8 DEF AcceptProposal, Answered, Correlated, MayResolve
    <3>2. now.lease \in Offerable /\ ~stopped /\ stopped \in BOOLEAN
      BY <1>1, <3>1 DEF LeaseCurrent, Live, Turns, OpenInv, TypeOK
    <3>3. t \in Doable /\ now.lease.next \in BOOLEAN
      BY <1>1, <2>2, <3>2 DEF Offerable, Variants
    <3>4. enabled = {} => now.lease.next
      BY <1>1, <3>1 DEF OpenInv, LeaseCurrent, Live
    <3>5. /\ a \in Acts /\ a.basis = "proposal" /\ a.late = stopped
          /\ a.timely = now.lease.next /\ a.changed = FALSE
      <4> DEFINE first == Act(t, "proposal")
                 second == [first EXCEPT !.late = stopped]
      <4>1. first \in Acts /\ first.basis = "proposal" /\ first.changed = FALSE
        BY <1>1, <3>3, ActTyped
      <4>2. a = [second EXCEPT !.timely = now.lease.next]
        OBVIOUS
      <4> HIDE DEF first
      <4>3. second \in Acts /\ second.basis = "proposal" /\ second.late = stopped /\ second.changed = FALSE
        BY <3>2, <4>1 DEF Acts
      <4> HIDE DEF a, second
      <4>4. QED
        BY <3>3, <4>2, <4>3 DEF Acts
    <3>6. now' = [now EXCEPT !.phase = "acting", !.act = a]
      BY <2>2
    <3> HIDE DEF a
    <3>7. Asked = None
      BY <2>2, <3>1, AgreedAsks
    <3>8. QED
      BY <3>1, <3>2, <3>4, <3>5, <3>6, <3>7, TakesAction
  <2>3. QED
    BY <1>8, <2>1, <2>2 DEF AcceptProposal
<1>9. CASE ModelActs
  <2>1. CASE Answer
    BY <1>2, <2>1 DEF Answer, Over
  <2>2. ASSUME NEW t \in Variants(now.answer.tool), NEW b \in Bases(t), b # None,
               AllowedFromSpeech(now.answer.tool),
               now' = [now EXCEPT !.phase = "acting",
                         !.act = [Act(t, b) EXCEPT !.timely = (b = "offer") => now.offer.last]]
        PROVE  NowInv'
    <3> DEFINE timely == (b = "offer") => now.offer.last
               a == [Act(t, b) EXCEPT !.timely = timely]
    <3>1. /\ now.phase = "answered" /\ now.path \in {"natural", "groq"}
          /\ now.answer.kind \in {"action", "lookup"}
      BY <1>9 DEF ModelActs, Answered
    <3>2. now.answer \in Answers
      BY <1>1, <3>1 DEF NowInv, TurnInv
    <3>3. /\ now.answer.tool \in Doable /\ now.answer.tool # "focus_window"
          /\ now.answer.kind = "lookup" => now.answer.tool = "web_search"
      BY <1>1, <3>1, <3>2, DialogueAssumption DEF Answers
    <3>4. t \in Doable /\ Kind(t) = now.answer.tool
      BY <1>1, <2>2, <3>3 DEF Variants, Kind
    <3>5. /\ b \in {"gap", "offer", "reply", "request"}
          /\ Asked \in {None, Kind(t)} \/ (b = "gap" /\ t = "web_search")
      BY <2>2, <3>3, BasisHolds
    <3>6. timely \in BOOLEAN /\ now' = [now EXCEPT !.phase = "acting", !.act = a]
      BY <2>2
    <3> HIDE DEF timely
    <3>7. a \in Acts /\ a.tool = t /\ a.basis = b /\ a.changed = FALSE
      <4> DEFINE first == Act(t, b)
      <4>1. first \in Acts /\ first.tool = t /\ first.basis = b /\ first.changed = FALSE
        BY <1>1, <3>4, <3>5, ActTyped
      <4>2. a = [first EXCEPT !.timely = timely]
        OBVIOUS
      <4> HIDE DEF first, a
      <4>3. QED
        BY <3>6, <4>1, <4>2 DEF Acts
    <3> HIDE DEF a
    <3>8. now.path = "groq" => Kind(a.tool) \in UnscoredVoiceTools
      BY <2>2, <3>4, <3>7 DEF AllowedFromSpeech
    <3>9. QED
      BY <3>1, <3>5, <3>6, <3>7, <3>8, TakesAction
  <2>3. QED
    BY <1>9, <2>1, <2>2 DEF ModelActs
<1>10. CASE ActFails \/ OfferEntries \/ UserRefuses \/ Finish
  BY <1>2, <1>10 DEF ActFails, OfferEntries, UserRefuses, Finish, Answer, Over
<1>11. ASSUME Acting, NEW phase \in {"acting", "confirming", "done"},
              now' = [now EXCEPT !.phase = phase],
              now.phase \in {"stamping", "acting"}, phase = "done" => ~Confirms
       PROVE  NowInv'
  <2>1. now' \in Turns /\ now.act \in Acts
    BY <1>1, <1>11 DEF Turns, Phases, NowInv, TurnInv
  <2>2. /\ now'.phase = phase /\ now'.heard = now.heard /\ now'.pend = now.pend
        /\ now'.path = now.path /\ now'.act = now.act
    BY <1>1, <1>11 DEF Turns
  <2>3. ~(now.act.changed /\ now.act.tool \in {"open_file", "run_file"})
    BY <1>1, <1>11 DEF NowInv, GroundInv
  <2>4. QED
    BY <1>11, <2>1, <2>2, <2>3, ActionGoesOn
<1>12. CASE Stamp \/ AskUser \/ Do
  BY <1>11, <1>12 DEF Stamp, AskUser, Do, Acting
<1>13. CASE UserAgrees
  <2> DEFINE a == [now.act EXCEPT !.confirmed = TRUE]
  <2>1. /\ Acting /\ now.phase = "confirming" /\ now.act \in Acts /\ SameAfterConsent
    BY <1>1, <1>13 DEF UserAgrees, Acting, NowInv, TurnInv
  <2>2. /\ a \in Acts /\ a.tool = now.act.tool /\ a.basis = now.act.basis /\ a.late = now.act.late
        /\ a.timely = now.act.timely /\ a.changed = now.act.changed /\ a.confirmed = TRUE
    BY <2>1 DEF Acts
  <2>3. now' = [[now EXCEPT !.phase = "done"] EXCEPT !.act = a]
    BY <1>1, <1>13 DEF UserAgrees, Turns
  <2> HIDE DEF a
  <2>4. now' \in Turns
    BY <1>1, <2>2, <2>3 DEF Turns, Phases
  <2>5. /\ now'.phase = "done" /\ now'.heard = now.heard /\ now'.pend = now.pend
        /\ now'.path = now.path /\ now'.act = a
    BY <1>1, <2>3 DEF Turns
  <2>6. ~(a.changed /\ a.tool \in {"open_file", "run_file"})
    BY <1>1, <2>1, <2>2 DEF NowInv, GroundInv, SameAfterConsent
  <2>7. QED
    BY <2>1, <2>2, <2>4, <2>5, <2>6, ActionGoesOn
<1>14. CASE Stop \/ TypedLine \/ Pause \/ Resume
  BY <1>2, <1>3, <1>14 DEF Stop, TypedLine, Pause, Resume, Interrupt, Over
<1>15. CASE FileChanges
  <2>1. ASSUME Acting, now.phase \in {"stamping", "confirming"}, NEW a \in Acts,
               now' = [now EXCEPT !.act = a],
               a.tool = now.act.tool, a.basis = now.act.basis, a.late = now.act.late,
               a.timely = now.act.timely,
               a.changed = now.act.changed \/ (now.phase = "confirming" /\ a.tool = "run_file")
        PROVE  NowInv'
    <3>1. now' \in Turns
      BY <1>1, <2>1 DEF Turns
    <3>2. /\ now'.phase = now.phase /\ now'.heard = now.heard /\ now'.pend = now.pend
          /\ now'.path = now.path /\ now'.act = a
      BY <1>1, <2>1 DEF Turns
    <3>3. now.act.changed /\ now.act.tool \in {"open_file", "run_file"} =>
            now.phase = "confirming" /\ now.act.tool = "run_file"
      BY <1>1, <2>1 DEF NowInv, GroundInv
    <3>4. QED
      BY <2>1, <3>1, <3>2, <3>3, ActionGoesOn
  <2>2. CASE now.phase = "stamping" /\ now' = [now EXCEPT !.act.slipped = TRUE]
    <3> DEFINE a == [now.act EXCEPT !.slipped = TRUE]
    <3>1. Acting /\ now.act \in Acts
      BY <1>1, <2>2 DEF Acting, NowInv, TurnInv
    <3>2. /\ a \in Acts /\ a.tool = now.act.tool /\ a.basis = now.act.basis
          /\ a.late = now.act.late /\ a.timely = now.act.timely /\ a.changed = now.act.changed
      BY <3>1 DEF Acts
    <3>3. now' = [now EXCEPT !.act = a]
      BY <2>2
    <3> HIDE DEF a
    <3>4. QED
      BY <2>1, <2>2, <3>1, <3>2, <3>3
  <2>3. CASE /\ now.phase = "confirming" /\ now.act.tool = "run_file" /\ ~now.act.changed
             /\ now' = [now EXCEPT !.act.changed = TRUE]
    <3> DEFINE a == [now.act EXCEPT !.changed = TRUE]
    <3>1. Acting /\ now.act \in Acts
      BY <1>1, <2>3 DEF Acting, NowInv, TurnInv
    <3>2. /\ a \in Acts /\ a.tool = now.act.tool /\ a.basis = now.act.basis
          /\ a.late = now.act.late /\ a.timely = now.act.timely
      BY <3>1 DEF Acts
    <3>3. now' = [now EXCEPT !.act = a]
      BY <2>3
    <3> HIDE DEF a
    <3>4. QED
      BY <2>1, <2>3, <3>1, <3>2, <3>3
  <2>4. QED
    BY <1>3, <1>15, <2>2, <2>3 DEF FileChanges
<1>16. CASE Expire
  <2>1. CASE Live(now.lease) /\ now' = [now EXCEPT !.lease = Expired(@)]
    <3>1. now.lease \in Offerable
      BY <1>1, <2>1 DEF Live, Turns
    <3>2. Expired(now.lease) \in Offerable
      BY <3>1 DEF Expired, Offerable
    <3>3. now' = [now EXCEPT !.lease = Expired(now.lease)]
      BY <2>1
    <3>4. now' \in Turns
      BY <1>1, <3>2, <3>3 DEF Turns
    <3>5. /\ now'.phase = now.phase /\ now'.heard = now.heard /\ now'.pend = now.pend
          /\ now'.path = now.path /\ now'.act = now.act /\ now'.answer = now.answer
      BY <1>1, <3>3 DEF Turns
    <3>6. Asked' = Asked /\ (Confirms' <=> Confirms) /\ (Acting' <=> Acting)
      BY <3>5 DEF Asked, Confirms, Acting
    <3>7. TurnInv'
      BY <1>1, <3>4, <3>5, <3>6 DEF NowInv, TurnInv, Turns
    <3>8. TrustInv' /\ GroundInv'
      BY <1>1, <3>5, <3>6 DEF NowInv, TrustInv, GroundInv
    <3>9. QED
      BY <3>7, <3>8 DEF NowInv
  <2>2. CASE Live(now.pend) /\ now' = [now EXCEPT !.pend = Expired(@)]
    <3>1. now.pend \in Questions /\ now.pend # None
      BY <1>1, <2>2 DEF Live, Turns
    <3>2. Expired(now.pend) \in Questions /\ Expired(now.pend).tool = now.pend.tool
      BY <3>1 DEF Expired, Questions
    <3>3. now' = [now EXCEPT !.pend = Expired(now.pend)]
      BY <2>2
    <3>4. now' \in Turns
      BY <1>1, <3>2, <3>3 DEF Turns
    <3>5. /\ now'.phase = now.phase /\ now'.heard = now.heard /\ now'.pend = Expired(now.pend)
          /\ now'.path = now.path /\ now'.act = now.act /\ now'.answer = now.answer
      BY <1>1, <3>3 DEF Turns
    <3>6. (Confirms' <=> Confirms) /\ (Acting' <=> Acting) /\ now.phase # "looking"
      BY <1>1, <3>1, <3>5 DEF Confirms, Acting, NowInv, TurnInv
    <3>7. TurnInv'
      BY <1>1, <3>4, <3>5, <3>6 DEF NowInv, TurnInv, Turns
    <3>8. TrustInv'
      BY <1>1, <3>5, <3>6 DEF NowInv, TrustInv
    <3>9. GroundInv'
      <4>1. Asked' = Asked
        BY <3>1, <3>2, <3>5, DialogueAssumption DEF Asked
      <4>2. QED
        BY <1>1, <3>5, <3>6, <4>1 DEF NowInv, GroundInv
    <3>10. QED
      BY <3>7, <3>8, <3>9 DEF NowInv
  <2>3. QED
    BY <1>3, <1>16, <2>1, <2>2 DEF Expire
<1>17. QED
  BY <1>4, <1>5, <1>6, <1>7, <1>8, <1>9, <1>10, <1>12, <1>13, <1>14, <1>15, <1>16

-----------------------------------------------------------------------------
(* What is left open                                                       *)

LeftOpen == TypeOK /\ OneQuestionAtATime /\ OpenInv

\* What a turn writes to what is left open has its type, and opens nothing.
LEMMA Written ==
  /\ \A p \in Offerable \cup {None} : Waited(p) \in Offerable \cup {None}
  /\ \A r \in Replies \cup {None} : Said(r) \in Replies \cup {None}
  /\ \A s \in Says : Reply(s) \in Replies
  /\ \A t \in Lists \cup {None}, u \in Utterances :
       Crossed(t, u) \in Lists \cup {None} /\ (Crossed(t, u) # None => t # None)
  /\ \A k \in {"file", "app", "window"}, n \in 1..2 : List(k, n) \in Lists
  /\ \A t \in Tools, w, g \in BOOLEAN : Question(t, w, g) \in Questions
<1>1. \A p \in Offerable \cup {None} : Waited(p) \in Offerable \cup {None}
  BY DEF Waited, Offerable
<1>2. /\ \A r \in Replies \cup {None} : Said(r) \in Replies \cup {None}
      /\ \A s \in Says : Reply(s) \in Replies
  BY DEF Said, Reply, Replies
<1>3. ASSUME NEW t \in Lists \cup {None}, NEW u \in Utterances
      PROVE  Crossed(t, u) \in Lists \cup {None} /\ (Crossed(t, u) # None => t # None)
  BY DEF Crossed, Lists
<1>4. \A k \in {"file", "app", "window"}, n \in 1..2 : List(k, n) \in Lists
  BY DEF List, Lists
<1>5. \A t \in Tools, w, g \in BOOLEAN : Question(t, w, g) \in Questions
  BY DEF Question, Questions
<1>6. QED
  BY <1>1, <1>2, <1>3, <1>4, <1>5

\* Nothing is heard before the turn that hears it.
LEMMA OpenTyped ==
  ASSUME Inv
  PROVE  /\ LeftOpen
         /\ proposal \in Offerable \cup {None} /\ tasks \in Lists \cup {None}
         /\ pending \in Questions \cup {None} /\ reply \in Replies \cup {None}
         /\ docs \in [kind : {"name", "choice"}, live : BOOLEAN] \cup {None}
         /\ current \in BOOLEAN /\ paused \in BOOLEAN /\ stopped \in BOOLEAN
BY DEF Inv, TypeOK, LeftOpen, Lists

\* What the turn that began has of what was offered before it.
LEMMA BegunFields ==
  ASSUME Inv, NEW u, NEW phase, NEW path, NEW a, NEW pend, NEW offer,
         \/ now' = Begun(u, phase, path)
         \/ now' = [Begun(u, phase, path) EXCEPT !.act = a]
         \/ now' = [Begun(u, phase, path) EXCEPT !.pend = pend, !.offer = offer]
  PROVE  /\ now'.phase = phase /\ now'.path = path
         /\ now'.lease # None => now'.lease = proposal
<1> DEFINE begun == Begun(u, phase, path)
           asked == [begun EXCEPT !.pend = pend]
<1>1. /\ begun = [phase |-> phase, heard |-> u, lease |-> LeaseFor(u), pend |-> None,
                  offer |-> None, path |-> path, answer |-> None, act |-> None]
      /\ LeaseFor(u) # None => LeaseFor(u) = proposal
  BY TurnBegins
<1>2. now' = begun \/ now' = [begun EXCEPT !.act = a] \/ now' = [asked EXCEPT !.offer = offer]
  OBVIOUS
<1> HIDE DEF begun
<1>3. CASE now' = begun \/ now' = [begun EXCEPT !.act = a]
  BY <1>1, <1>3
<1>4. CASE now' = [asked EXCEPT !.offer = offer]
  <2>1. asked = [phase |-> phase, heard |-> u, lease |-> LeaseFor(u), pend |-> pend,
                 offer |-> None, path |-> path, answer |-> None, act |-> None]
    BY <1>1
  <2> HIDE DEF asked
  <2>2. QED
    BY <1>1, <1>4, <2>1
<1>5. QED
  BY <1>2, <1>3, <1>4

\* A turn that begins drops what was offered.
LEMMA BegunOpen ==
  ASSUME Inv, UNCHANGED enabled, BeginTurn, tasks' \in Lists \cup {None},
         pending' \in Questions \cup {None}, reply' \in Replies \cup {None}, paused' \in BOOLEAN,
         now'.lease # None => now'.lease = proposal,
         now'.phase \in {"looking", "thinking"} /\ now'.path = "natural" =>
            pending' = None /\ tasks' = None,
         now'.phase # "answered"
  PROVE  LeftOpen'
<1>1. TypeOK'
  BY OpenTyped DEF LeftOpen, TypeOK, BeginTurn, Lists
<1>2. OneQuestionAtATime'
  BY DEF OneQuestionAtATime, BeginTurn
<1>3. OpenInv'
  BY OpenTyped DEF LeftOpen, OpenInv, BeginTurn
<1>4. QED
  BY <1>1, <1>2, <1>3 DEF LeftOpen

\* A turn about a document or the memory leaves open what it does not answer.
LEMMA LeftAlone ==
  ASSUME Inv, UNCHANGED enabled, NEW u \in Utterances, LeaveOpen(u), docs' = None,
         reply' \in Replies \cup {None}, now'.lease = None,
         now'.phase = "idle" \/ (now'.phase = "acting" /\ now'.path \in {"document", "memory"}),
         enabled # {}
  PROVE  LeftOpen'
<1>1. /\ proposal' \in Offerable \cup {None} /\ (proposal' # None => proposal # None)
      /\ tasks' \in Lists \cup {None} /\ (tasks' # None => tasks # None)
  BY OpenTyped, Written DEF LeaveOpen, Waited
<1>2. TypeOK'
  BY <1>1, OpenTyped DEF LeftOpen, TypeOK, LeaveOpen, Lists
<1>3. OneQuestionAtATime'
  BY <1>1, OpenTyped DEF LeftOpen, OneQuestionAtATime, LeaveOpen
<1>4. OpenInv'
  BY <1>1, OpenTyped DEF LeftOpen, OpenInv, LeaveOpen
<1>5. QED
  BY <1>2, <1>3, <1>4 DEF LeftOpen

\* A turn of its own, from the words to the first await.
LEMMA ProcessOpen ==
  ASSUME Inv, UNCHANGED enabled, now.phase = "idle", NEW u \in Utterances, Process(u)
  PROVE  LeftOpen'
<1>1. /\ LeftOpen /\ TypeOK /\ docs \in [kind : {"name", "choice"}, live : BOOLEAN] \cup {None}
      /\ proposal \in Offerable \cup {None} /\ tasks \in Lists \cup {None}
      /\ pending \in Questions \cup {None} /\ reply \in Replies \cup {None}
      /\ current \in BOOLEAN /\ paused \in BOOLEAN /\ stopped \in BOOLEAN
  BY OpenTyped DEF LeftOpen
<1>2. Blank.phase = "idle" /\ Blank.lease = None
  BY DEF Blank
<1>3. Said(reply) \in Replies \cup {None}
  BY <1>1, Written
<1>4. (Answer => reply' \in Replies \cup {None}) /\ (Silent => reply' \in Replies \cup {None})
  BY <1>1, <1>3 DEF Answer, Silent
<1>5. Answer \/ Silent => now'.phase = "idle" /\ now'.lease = None
  BY <1>2 DEF Answer, Silent, Over
<1>6. CASE RefuseDocument(u)
  <2>1. enabled # {} /\ LeaveOpen(u) /\ docs' = None /\ Answer
    BY <1>6 DEF RefuseDocument, DocAccepts
  <2>2. QED
    BY <2>1, <1>4, <1>5, LeftAlone
<1>7. CASE AnswerDocument(u)
  <2>1. /\ proposal' = None /\ current' = FALSE /\ pending' = None /\ tasks' = None
        /\ stopped' = FALSE /\ paused' = paused /\ Answer
    BY <1>7 DEF AnswerDocument, CloseOthers, ClearProposals
  <2>2. docs' \in [kind : {"name", "choice"}, live : BOOLEAN] \cup {None}
    <3>1. \/ docs' \in {None, docs}
          \/ docs' \in {None, [kind |-> "name", live |-> TRUE], [kind |-> "choice", live |-> TRUE]}
          \/ docs' \in {None, [kind |-> "choice", live |-> TRUE]}
      BY <1>7 DEF AnswerDocument
    <3>2. {[kind |-> "name", live |-> TRUE], [kind |-> "choice", live |-> TRUE]}
             \subseteq [kind : {"name", "choice"}, live : BOOLEAN]
      OBVIOUS
    <3>3. QED
      BY <1>1, <3>1, <3>2, Zenon
  <2>3. TypeOK'
    BY <1>1, <1>4, <2>1, <2>2 DEF TypeOK
  <2>4. OneQuestionAtATime' /\ OpenInv'
    BY <1>5, <2>1 DEF OneQuestionAtATime, OpenInv
  <2>5. QED
    BY <2>3, <2>4 DEF LeftOpen
<1>8. CASE ReadDocument(u)
  <2> DEFINE a == Act("read_document", "request")
  <2>1. /\ enabled # {} /\ LeaveOpen(u) /\ docs' = None /\ reply' = reply
        /\ now' = [Turn(u, "acting", "document") EXCEPT !.act = a]
    BY <1>8 DEF ReadDocument, DocAccepts
  <2> HIDE DEF a
  <2>2. now'.phase = "acting" /\ now'.path = "document" /\ now'.lease = None
    BY <2>1, TurnBegins
  <2>3. QED
    BY <1>1, <2>1, <2>2, LeftAlone
<1>9. CASE MemoryTurn(u)
  <2> DEFINE a == Act("memory", "request")
  <2>1. enabled # {} /\ LeaveOpen(u) /\ docs' = None
    BY <1>9 DEF MemoryTurn
  <2>2. CASE Answer
    BY <2>1, <2>2, <1>4, <1>5, LeftAlone
  <2>3. CASE now' = [Turn(u, "acting", "memory") EXCEPT !.act = a] /\ reply' = reply
    <3> HIDE DEF a
    <3>1. now'.phase = "acting" /\ now'.path = "memory" /\ now'.lease = None
      BY <2>3, TurnBegins
    <3>2. QED
      BY <1>1, <2>1, <2>3, <3>1, LeftAlone
  <2>4. QED
    BY <1>9, <2>2, <2>3 DEF MemoryTurn
<1>10. CASE SelectTurn(u)
  <2>1. BeginTurn /\ pending' = pending /\ paused' = paused
    BY <1>10 DEF SelectTurn
  <2>2. CASE Answer
    <3>1. tasks' \in {None, tasks} \/ tasks' = None
      BY <1>10 DEF SelectTurn
    <3>2. QED
      BY <1>1, <1>4, <1>5, <2>1, <2>2, <3>1, BegunOpen
  <2>3. CASE /\ \E t \in EntryTools :
                  now' = [Begun(u, IF tasks.kind = "file" THEN "stamping" ELSE "acting",
                                "select") EXCEPT
                            !.act = [Act(t, "selection") EXCEPT !.timely = ~tasks.closed,
                                                                !.changed = tasks.changed]]
             /\ tasks' = None /\ reply' = reply
    <3> DEFINE phase == IF tasks.kind = "file" THEN "stamping" ELSE "acting"
    <3>1. PICK t \in EntryTools :
             now' = [Begun(u, phase, "select") EXCEPT
                       !.act = [Act(t, "selection") EXCEPT !.timely = ~tasks.closed,
                                                           !.changed = tasks.changed]]
      BY <2>3
    <3>2. phase \in {"stamping", "acting"}
      OBVIOUS
    <3> HIDE DEF phase
    <3>3. now'.phase = phase /\ (now'.lease # None => now'.lease = proposal)
      BY <3>1, BegunFields
    <3>4. QED
      BY <1>1, <2>1, <2>3, <3>2, <3>3, BegunOpen
  <2>4. QED
    BY <1>10, <2>2, <2>3 DEF SelectTurn
<1>11. Passing(u) => BeginTurn /\ tasks' = None
  BY DEF Passing
<1>12. ASSUME Passing(u), pending' \in Questions \cup {None}, paused' \in BOOLEAN, Answer \/ Silent
       PROVE  LeftOpen'
  BY <1>1, <1>4, <1>5, <1>11, <1>12, BegunOpen
<1>13. ASSUME Passing(u), pending' = None, paused' \in BOOLEAN, reply' \in Replies \cup {None},
              NEW phase \in {"looking", "thinking", "acting"}, NEW path, NEW a, NEW pend, NEW offer,
              \/ now' = Begun(u, phase, path)
              \/ now' = [Begun(u, phase, path) EXCEPT !.act = a]
              \/ now' = [Begun(u, phase, path) EXCEPT !.pend = pend, !.offer = offer]
       PROVE  LeftOpen'
  <2>1. now'.phase = phase /\ (now'.lease # None => now'.lease = proposal)
    <3>1. CASE now' = Begun(u, phase, path)
      BY <3>1, BegunFields
    <3>2. CASE now' = [Begun(u, phase, path) EXCEPT !.act = a]
      BY <3>2, BegunFields
    <3>3. CASE now' = [Begun(u, phase, path) EXCEPT !.pend = pend, !.offer = offer]
      BY <3>3, BegunFields
    <3>4. QED
      BY <1>13, <3>1, <3>2, <3>3
  <2>2. QED
    BY <1>1, <1>11, <1>13, <2>1, BegunOpen
<1>14. CASE StopOrPause(u) \/ StaysSilent(u) \/ AskWhatIsMeant(u)
  BY <1>1, <1>12, <1>14 DEF StopOrPause, StaysSilent, AskWhatIsMeant, Ordinary
<1>15. CASE LocalCommand(u)
  BY <1>1, <1>12, <1>13, <1>15 DEF LocalCommand
<1>16. CASE Control(u)
  <2>1. Passing(u) /\ pending' = None /\ paused' = FALSE
    BY <1>16 DEF Control
  <2>2. CASE Answer
    BY <1>12, <2>1, <2>2
  <2>3. CASE Over /\ reply # None /\ reply' = Reply(reply.says)
    <3>1. reply.says \in Says
      BY <1>1, <2>3 DEF Replies
    <3>2. reply' \in Replies
      BY <2>3, <3>1, Written
    <3>3. now'.phase = "idle" /\ now'.lease = None
      BY <1>2, <2>3 DEF Over
    <3>4. QED
      BY <1>1, <1>11, <2>1, <3>2, <3>3, BegunOpen
  <2>4. CASE now' = Begun(u, "thinking", "control") /\ reply' = reply
    BY <1>1, <1>13, <2>1, <2>4
  <2>5. QED
    BY <1>16, <2>2, <2>3, <2>4 DEF Control
<1>17. CASE WindowTurn(u)
  <2>1. Passing(u) /\ paused' = paused
    BY <1>17 DEF WindowTurn, Ordinary
  <2>2. CASE /\ pending' = IF u.text = "unnamed" THEN Question("window_control", TRUE, FALSE)
                                                 ELSE pending
             /\ Answer
    <3>1. u.text = "unnamed" => "window_control" \in Tools
      BY Words, DialogueAssumption DEF Scopes
    <3>2. pending' \in Questions \cup {None}
      BY <1>1, <2>2, <3>1, Written
    <3>3. QED
      BY <1>1, <1>12, <2>1, <2>2, <3>2
  <2>3. CASE /\ pending' = None /\ reply' = reply
             /\ now' = [Begun(u, "acting", "natural") EXCEPT
                          !.act = Act("window_control", IF ForWindow(u) THEN "reply" ELSE "request")]
    BY <1>1, <1>13, <2>1, <2>3
  <2>4. QED
    BY <1>17, <2>2, <2>3 DEF WindowTurn
<1>18. CASE Shortcut(u)
  <2>1. Passing(u) /\ pending' = None /\ paused' = paused /\ reply' = reply
    BY <1>18 DEF Shortcut, Ordinary
  <2>2. \/ now' = Begun(u, "looking", "natural")
        \/ now' = [Begun(u, "acting", "natural") EXCEPT !.act = Act(u.tool, "request")]
    BY <1>18 DEF Shortcut
  <2>3. QED
    BY <1>1, <1>13, <2>1, <2>2
<1>19. CASE AskModel(u)
  <2> DEFINE pend == IF Scoped(u) THEN pending ELSE None
             offer == IF LeaseFor(u) # None THEN None ELSE reply
  <2>1. /\ Passing(u) /\ pending' = None /\ paused' = paused /\ reply' = None
        /\ now' = [Begun(u, "thinking", "natural") EXCEPT !.pend = pend, !.offer = offer]
    BY <1>19 DEF AskModel, Ordinary
  <2> HIDE DEF pend, offer
  <2>2. QED
    BY <1>1, <1>13, <2>1
<1>20. CASE RestrictedTurn(u)
  <2> DEFINE named == CandidateFor(u) /\ Live(pending) /\ pending.groq /\ NamesSomething(u)
             path == IF CandidateFor(u) THEN "groq" ELSE "quiet"
             pend == IF named THEN pending ELSE None
  <2>1. /\ BeginTurn /\ pending' = None /\ tasks' = Crossed(tasks, u) /\ paused' = paused
        /\ \/ Silent \/ Answer
           \/ /\ now' = [Begun(u, "thinking", path) EXCEPT !.pend = pend, !.offer = reply]
              /\ reply' = reply
    BY <1>20 DEF RestrictedTurn
  <2>2. tasks' \in Lists \cup {None}
    BY <1>1, <2>1, Written
  <2>3. CASE Silent \/ Answer
    BY <1>1, <1>4, <1>5, <2>1, <2>2, <2>3, BegunOpen
  <2>4. CASE /\ now' = [Begun(u, "thinking", path) EXCEPT !.pend = pend, !.offer = reply]
             /\ reply' = reply
    <3>1. path # "natural"
      OBVIOUS
    <3> HIDE DEF pend, path
    <3>2. /\ now'.phase = "thinking" /\ now'.path = path
          /\ now'.lease # None => now'.lease = proposal
      BY <2>4, BegunFields
    <3>3. QED
      BY <1>1, <2>1, <2>2, <2>4, <3>1, <3>2, BegunOpen
  <2>5. QED
    BY <2>1, <2>3, <2>4
<1>21. QED
  BY <1>6, <1>7, <1>8, <1>9, <1>10, <1>14, <1>15, <1>16, <1>17, <1>18, <1>19, <1>20 DEF Process

\* A step that closes some of what is open, and opens nothing.
LEMMA OpensNothing ==
  ASSUME Inv, UNCHANGED enabled, proposal' \in {proposal, None}, tasks' \in {tasks, None},
         pending' \in {pending, None}, docs' \in {docs, None}, reply' \in Replies \cup {None},
         current' \in BOOLEAN, paused' \in BOOLEAN, stopped' \in BOOLEAN,
         stopped' => ~current' /\ proposal' = None,
         now'.lease \in {now.lease, None},
         now'.phase # "idle" => now.phase # "idle" /\ now'.path = now.path,
         now'.phase \in {"looking", "thinking", "answered"} =>
            now.phase \in {"looking", "thinking", "answered"}
  PROVE  LeftOpen'
<1>1. TypeOK'
  BY OpenTyped DEF LeftOpen, TypeOK, Lists
<1>2. OneQuestionAtATime'
  BY OpenTyped DEF LeftOpen, OneQuestionAtATime
<1>3. OpenInv'
  BY OpenTyped DEF LeftOpen, OpenInv
<1>4. QED
  BY <1>1, <1>2, <1>3 DEF LeftOpen

\* Once the model has answered a request, nothing is open but what it may resolve.
LEMMA AnsweredOpen ==
  ASSUME Inv, now.phase = "answered"
  PROVE  /\ docs = None /\ proposal = None
         /\ now.path = "natural" => pending = None /\ tasks = None
         /\ now.answer \in Answers /\ now.heard \in Utterances
         /\ now.lease \in Offerable \cup {None} /\ now.pend \in Questions \cup {None}
<1>1. /\ now \in Turns /\ OpenInv /\ TurnInv /\ now.path \notin {"document", "memory"}
  BY TurnTyped, OpenTyped DEF LeftOpen, NowInv, TurnInv
<1>2. QED
  BY <1>1 DEF Turns, TurnInv, OpenInv

LEMMA SpeakAnswerOpen ==
  ASSUME Inv, UNCHANGED enabled, SpeakAnswer
  PROVE  LeftOpen'
<1>1. /\ now.phase = "answered" /\ now.answer.kind \in {"chat", "clarify", "unavailable"}
      /\ UNCHANGED <<proposal, current, tasks, docs, paused, stopped>> /\ now' = Blank
  BY DEF SpeakAnswer, Answered, Over
<1>2. now.answer.tool \in Says
  BY <1>1, AnsweredOpen DEF Answers
<1>3. reply' \in Replies \cup {None}
  BY <1>2, OpenTyped, Written DEF SpeakAnswer
<1>4. Asked \in Tools \cup {None}
  BY <1>1, AnsweredOpen, ScopeOf DEF Asked, Questions
<1>5. Scope(now.heard) = "open_app" => "open_app" \in Tools
  BY <1>1, AnsweredOpen, ScopeOf, DialogueAssumption
<1>6. Remember \in Questions \cup {None}
  BY <1>4, <1>5, OpenTyped, Written DEF Remember
<1>7. pending' \in Questions \cup {None}
  BY <1>6, OpenTyped DEF SpeakAnswer
<1>8. docs' = None /\ proposal' = None
  BY <1>1, AnsweredOpen
<1>9. TypeOK'
  BY <1>1, <1>3, <1>7, OpenTyped DEF LeftOpen, TypeOK
<1>10. OneQuestionAtATime'
  BY <1>8 DEF OneQuestionAtATime
<1>11. OpenInv'
  BY <1>1, <1>8, OpenTyped DEF LeftOpen, OpenInv, Blank
<1>12. QED
  BY <1>9, <1>10, <1>11 DEF LeftOpen

\* What is offered anew is all that is open.
LEMMA ProposeOpen ==
  ASSUME Inv, UNCHANGED <<enabled, tasks, pending, docs, paused, stopped>>, now.phase = "answered",
         now.path = "natural", NEW tool \in Proposable \cap Tools, Propose(tool), now' = Blank,
         current, current' \in BOOLEAN
  PROVE  LeftOpen'
<1>1. /\ docs' = None /\ pending' = None /\ tasks' = None
  BY AnsweredOpen
<1>2. /\ proposal' = [tool |-> tool, live |-> TRUE, next |-> TRUE] /\ reply' = Reply(tool)
  BY DEF Propose
<1>3. proposal' \in Offerable /\ proposal'.next /\ reply' \in Replies
  <2>1. [tool |-> tool, live |-> TRUE, next |-> TRUE] \in Offerable
    BY DEF Offerable
  <2>2. QED
    BY <1>2, <2>1, Written DEF Says
<1>4. ~stopped
  BY OpenTyped DEF LeftOpen, OpenInv
<1>5. TypeOK'
  BY <1>3, OpenTyped DEF LeftOpen, TypeOK
<1>6. OneQuestionAtATime' /\ OpenInv'
  BY <1>1, <1>3, <1>4 DEF OneQuestionAtATime, OpenInv, Blank
<1>7. QED
  BY <1>5, <1>6 DEF LeftOpen

\* A list is offered at the end of an action that left nothing else open.
LEMMA ListOpen ==
  ASSUME Inv, UNCHANGED <<enabled, proposal, current, pending, docs, paused, stopped>>, Acting,
         now.act.tool \notin {"read_document", "memory"}, tasks' \in Lists \cup {None},
         reply' \in Replies \cup {None}, now' = Blank
  PROVE  LeftOpen'
<1>1. docs = None /\ proposal = None
  <2>1. now.phase # "idle" /\ TrustInv /\ OpenInv
    BY TurnTyped, OpenTyped DEF Acting, NowInv, LeftOpen
  <2>2. now.path \notin {"document", "memory"}
    BY <2>1 DEF TrustInv
  <2>3. QED
    BY <2>1, <2>2 DEF OpenInv
<1>2. TypeOK'
  BY OpenTyped DEF LeftOpen, TypeOK, Lists
<1>3. OneQuestionAtATime' /\ OpenInv'
  BY <1>1, OpenTyped DEF LeftOpen, OneQuestionAtATime, OpenInv, Blank
<1>4. QED
  BY <1>2, <1>3 DEF LeftOpen

LEMMA ExpireOpen ==
  ASSUME Inv, UNCHANGED enabled, Expire
  PROVE  LeftOpen'
<1>1. /\ UNCHANGED <<current, reply, paused, stopped>> /\ LeftOpen /\ now \in Turns
      /\ proposal \in Offerable \cup {None} /\ tasks \in Lists \cup {None}
      /\ pending \in Questions \cup {None}
      /\ docs \in [kind : {"name", "choice"}, live : BOOLEAN] \cup {None}
  BY OpenTyped, TurnTyped DEF Expire
<1>2. /\ proposal' \in Offerable \cup {None}
      /\ proposal' # None => proposal # None /\ proposal'.next = proposal.next
      /\ proposal = None => proposal' = None
  BY <1>1 DEF Expire, Expired, Live, Offerable
<1>3. tasks' \in Lists \cup {None} /\ (tasks' # None => tasks # None) /\ (tasks = None => tasks' = None)
  BY <1>1 DEF Expire, Expired, Live, Lists
<1>4. /\ pending' \in Questions \cup {None} /\ (pending' # None => pending # None)
      /\ pending = None => pending' = None
  BY <1>1 DEF Expire, Expired, Live, Questions
<1>5. /\ docs' \in [kind : {"name", "choice"}, live : BOOLEAN] \cup {None}
      /\ docs' # None => docs # None
  BY <1>1 DEF Expire, Expired, Live
<1>6. /\ now'.phase = now.phase /\ now'.path = now.path
      /\ now'.lease # None => now.lease # None /\ now'.lease.next = now.lease.next
  <2>1. CASE now' = now
    BY <2>1
  <2>2. CASE Live(now.lease) /\ now' = [now EXCEPT !.lease = Expired(now.lease)]
    BY <1>1, <2>2 DEF Live, Expired, Turns, Offerable
  <2>3. CASE Live(now.pend) /\ now' = [now EXCEPT !.pend = Expired(now.pend)]
    BY <1>1, <2>3 DEF Turns
  <2>4. QED
    BY <2>1, <2>2, <2>3 DEF Expire
<1>7. TypeOK'
  BY <1>1, <1>2, <1>3, <1>4, <1>5 DEF LeftOpen, TypeOK, Lists
<1>8. OneQuestionAtATime'
  BY <1>1, <1>2, <1>3, <1>4, <1>5 DEF LeftOpen, OneQuestionAtATime
<1>9. OpenInv'
  BY <1>1, <1>2, <1>3, <1>4, <1>5, <1>6 DEF LeftOpen, OpenInv
<1>10. QED
  BY <1>7, <1>8, <1>9 DEF LeftOpen

\* Every other step.
LEMMA GoesOnOpen ==
  ASSUME Inv, UNCHANGED enabled,
         \/ ExactApp \/ NoExactApp
         \/ ModelAnswers \/ SpeakAnswer \/ NothingDone \/ ResolveProposal \/ RejectProposal
         \/ ModifyProposal \/ AcceptProposal \/ ModelActs
         \/ Stamp \/ ActFails \/ OfferEntries \/ AskUser \/ Do \/ UserAgrees \/ UserRefuses \/ Finish
         \/ Stop \/ TypedLine \/ Pause \/ Resume \/ Expire \/ FileChanges
  PROVE  LeftOpen'
<1>1. /\ LeftOpen /\ OpenInv /\ now \in Turns /\ TurnInv /\ {"prose"} \cup Tools \subseteq Says
      /\ proposal \in Offerable \cup {None} /\ tasks \in Lists \cup {None}
      /\ pending \in Questions \cup {None} /\ reply \in Replies \cup {None}
      /\ current \in BOOLEAN /\ paused \in BOOLEAN /\ stopped \in BOOLEAN
  BY OpenTyped, TurnTyped DEF LeftOpen, NowInv, Says
<1>2. Blank.phase = "idle" /\ Blank.lease = None
  BY DEF Blank
<1>3. /\ Said(reply) \in Replies \cup {None}
      /\ \A s \in Says : Reply(s) \in Replies
      /\ stopped => ~current /\ proposal = None
  BY <1>1, Written DEF OpenInv
<1>4. CASE ExactApp
  <2> DEFINE a == Act("open_app", "request")
  <2>1. /\ now' = [now EXCEPT !.phase = "acting", !.act = a] /\ now.phase = "looking"
        /\ UNCHANGED <<proposal, current, tasks, pending, docs, reply, paused, stopped>>
    BY <1>4 DEF ExactApp, Run
  <2> HIDE DEF a
  <2>2. now'.phase = "acting" /\ now'.path = now.path /\ now'.lease = now.lease
    BY <1>1, <2>1 DEF Turns
  <2>3. QED
    BY <1>1, <1>3, <2>1, <2>2, OpensNothing
<1>5. CASE NoExactApp
  <2> DEFINE offer == IF LeaseCurrent THEN None ELSE reply
  <2>1. /\ now' = [now EXCEPT !.phase = "thinking", !.offer = offer] /\ now.phase = "looking"
        /\ UNCHANGED <<proposal, current, tasks, pending, docs, paused, stopped>> /\ reply' = None
    BY <1>5 DEF NoExactApp
  <2> HIDE DEF offer
  <2>2. now'.phase = "thinking" /\ now'.path = now.path /\ now'.lease = now.lease
    BY <1>1, <2>1 DEF Turns
  <2>3. QED
    BY <1>1, <1>3, <2>1, <2>2, OpensNothing
<1>6. CASE ModelAnswers
  <2>1. PICK a \in Answers : now' = [now EXCEPT !.phase = "answered", !.answer = a]
    BY <1>6 DEF ModelAnswers
  <2>2. now'.phase = "answered" /\ now'.path = now.path /\ now'.lease = now.lease
    BY <1>1, <2>1 DEF Turns
  <2>3. /\ now.phase = "thinking"
        /\ UNCHANGED <<proposal, current, tasks, pending, docs, reply, paused, stopped>>
    BY <1>6 DEF ModelAnswers
  <2>4. QED
    BY <1>1, <1>3, <2>2, <2>3, OpensNothing
<1>7. ASSUME now' = Blank, proposal' \in {proposal, None}, tasks' \in {tasks, None},
             pending' \in {pending, None}, docs' \in {docs, None}, reply' \in Replies \cup {None},
             current' \in BOOLEAN, paused' \in BOOLEAN, stopped' \in BOOLEAN,
             stopped' => ~current' /\ proposal' = None
      PROVE  LeftOpen'
  <2>1. now'.phase = "idle" /\ now'.lease = None
    BY <1>2, <1>7
  <2>2. QED
    BY <1>7, <2>1, OpensNothing
<1>8. CASE NothingDone \/ RejectProposal
  <2>1. /\ UNCHANGED <<tasks, pending, docs, paused, stopped>> /\ now' = Blank
        /\ reply' = Said(reply)
        /\ UNCHANGED <<proposal, current>> \/ (proposal' = None /\ current' = FALSE)
    BY <1>8 DEF NothingDone, RejectProposal, Answer, Over, ClearProposals
  <2>2. QED
    BY <1>1, <1>3, <1>7, <2>1
<1>9. CASE SpeakAnswer
  BY <1>9, SpeakAnswerOpen
<1>10. CASE ResolveProposal
  <2>1. /\ now.phase = "answered" /\ now.path = "natural" /\ now.answer.kind = "proposal"
        /\ UNCHANGED <<current, tasks, pending, docs, paused, stopped>>
    BY <1>10 DEF ResolveProposal, Answered
  <2>2. CASE Answer /\ UNCHANGED proposal
    BY <1>1, <1>3, <1>7, <2>1, <2>2 DEF Answer, Over
  <2>3. CASE MayResolve /\ Offered /\ Propose(now.answer.tool) /\ Over
    <3>1. now.answer.tool \in Proposable \cap Tools /\ current
      BY <2>1, <2>3, AnsweredOpen DEF Offered, Answers
    <3>2. QED
      BY <1>1, <2>1, <2>3, <3>1, ProposeOpen DEF Over
  <2>4. QED
    BY <1>10, <2>2, <2>3 DEF ResolveProposal
<1>11. CASE ModifyProposal
  <2>1. /\ now.phase = "answered" /\ now.path = "natural" /\ Live(now.lease) /\ current
        /\ current' = FALSE /\ UNCHANGED <<tasks, pending, docs, paused, stopped>>
    BY <1>11 DEF ModifyProposal, Answered, Correlated, LeaseCurrent
  <2>2. CASE proposal' = None /\ Answer
    BY <1>1, <1>3, <1>7, <2>1, <2>2 DEF Answer, Over
  <2>3. CASE Propose(now.lease.tool) /\ Over
    <3>1. now.lease.tool \in Proposable \cap Tools
      BY <2>1, AnsweredOpen DEF Live, Offerable
    <3>2. QED
      BY <2>1, <2>3, <3>1, ProposeOpen DEF Over
  <2>4. QED
    BY <1>11, <2>2, <2>3 DEF ModifyProposal
<1>12. CASE AcceptProposal
  <2>1. now.phase = "answered" /\ UNCHANGED <<tasks, pending, docs, paused, stopped>>
    BY <1>12 DEF AcceptProposal, Answered
  <2>2. CASE Answer /\ UNCHANGED <<proposal, current>>
    BY <1>1, <1>3, <1>7, <2>1, <2>2 DEF Answer, Over
  <2>3. ASSUME ClearProposals, NEW a, now' = [now EXCEPT !.phase = "acting", !.act = a],
               UNCHANGED reply
        PROVE  LeftOpen'
    <3>1. now'.phase = "acting" /\ now'.path = now.path /\ now'.lease = now.lease
      BY <1>1, <2>3 DEF Turns
    <3>2. proposal' = None /\ current' = FALSE /\ reply' = reply
      BY <2>3 DEF ClearProposals
    <3>3. QED
      BY <1>1, <2>1, <3>1, <3>2, OpensNothing
  <2>4. QED
    BY <1>12, <2>2, <2>3 DEF AcceptProposal
<1>13. CASE ModelActs
  <2>1. /\ now.phase = "answered"
        /\ UNCHANGED <<proposal, current, tasks, pending, docs, paused, stopped>>
    BY <1>13 DEF ModelActs, Answered
  <2>2. CASE Answer
    BY <1>1, <1>3, <1>7, <2>1, <2>2 DEF Answer, Over
  <2>3. ASSUME NEW a, NEW b, now' = [now EXCEPT !.phase = "acting", !.act = a],
               reply' = IF b = "gap" THEN Reply("prose") ELSE reply
        PROVE  LeftOpen'
    <3>1. reply' \in Replies \cup {None}
      BY <1>1, <1>3, <2>3
    <3>2. now'.phase = "acting" /\ now'.path = now.path /\ now'.lease = now.lease
      BY <1>1, <2>3 DEF Turns
    <3>3. QED
      BY <1>1, <1>3, <2>1, <3>1, <3>2, OpensNothing
  <2>4. QED
    BY <1>13, <2>2, <2>3 DEF ModelActs
<1>14. Conclude => \/ UNCHANGED <<proposal, current, tasks, pending>>
                   \/ proposal' = None /\ current' = FALSE /\ tasks' = None /\ pending' = None
  BY DEF Conclude, CloseOthers, ClearProposals
<1>15. CASE ActFails \/ UserRefuses
  <2>1. Conclude /\ now' = Blank /\ reply' = Said(reply) /\ UNCHANGED <<docs, paused, stopped>>
    BY <1>15 DEF ActFails, UserRefuses, Answer, Over
  <2>2. QED
    BY <1>1, <1>3, <1>7, <1>14, <2>1
<1>16. CASE OfferEntries
  <2>1. /\ Acting /\ now.act.tool \in {"open_app", "window_control", "focus_window"}
        /\ UNCHANGED <<proposal, current, pending, docs, paused, stopped>>
        /\ now' = Blank /\ reply' = Said(reply)
        /\ tasks' \in {List("app", 2), List("window", 2)}
    BY <1>16 DEF OfferEntries, Kind, Acting, Answer, Over
  <2>2. tasks' \in Lists
    BY <2>1, Written
  <2>3. QED
    BY <1>3, <2>1, <2>2, ListOpen
<1>17. CASE Stamp \/ AskUser \/ Do
  <2>1. PICK phase \in {"acting", "confirming", "done"} : now' = [now EXCEPT !.phase = phase]
    BY <1>17 DEF Stamp, AskUser, Do
  <2>2. now'.phase = phase /\ now'.path = now.path /\ now'.lease = now.lease
    BY <1>1, <2>1 DEF Turns
  <2>3. /\ now.phase \in {"stamping", "acting"}
        /\ UNCHANGED <<tasks, pending, docs, reply, paused>>
        /\ \/ proposal' = None /\ current' = FALSE /\ stopped' = TRUE
           \/ UNCHANGED <<proposal, current, stopped>>
    BY <1>17 DEF Stamp, AskUser, Do, ClearProposals
  <2>4. proposal' \in {proposal, None} /\ current' \in BOOLEAN /\ stopped' \in BOOLEAN
    BY <1>1, <2>3
  <2>5. stopped' => ~current' /\ proposal' = None
    BY <1>3, <2>3
  <2>6. QED
    BY <1>1, <2>2, <2>3, <2>4, <2>5, OpensNothing
<1>18. CASE UserAgrees
  <2>1. /\ now.phase = "confirming" /\ now' = [now EXCEPT !.phase = "done", !.act.confirmed = TRUE]
        /\ UNCHANGED <<proposal, current, tasks, pending, docs, reply, paused, stopped>>
    BY <1>18 DEF UserAgrees
  <2>2. now'.phase = "done" /\ now'.path = now.path /\ now'.lease = now.lease
    BY <1>1, <2>1 DEF Turns
  <2>3. QED
    BY <1>1, <1>3, <2>1, <2>2, OpensNothing
<1>19. CASE Finish
  <2>1. now' = Blank /\ UNCHANGED stopped /\ now.phase = "done"
    BY <1>19 DEF Finish, Over
  <2>2. CASE Reset /\ tasks' = None /\ paused' = FALSE /\ UNCHANGED <<proposal, current>>
    BY <1>1, <1>3, <1>7, <2>1, <2>2 DEF Reset
  <2>3. CASE Reset /\ ClearProposals /\ UNCHANGED <<tasks, paused>>
    BY <1>1, <1>3, <1>7, <2>1, <2>3 DEF Reset, ClearProposals
  <2>4. CASE Conclude /\ reply' = Said(reply) /\ UNCHANGED <<docs, paused>>
    BY <1>1, <1>3, <1>7, <1>14, <2>1, <2>4
  <2>5. CASE /\ now.act.tool = "find_files" /\ tasks' \in {tasks, List("file", 1), List("file", 2)}
             /\ UNCHANGED <<proposal, current, pending>>
             /\ reply' = Said(reply) /\ UNCHANGED <<docs, paused>>
    <3>1. tasks' \in Lists \cup {None}
      BY <1>1, <2>5, Written
    <3>2. QED
      BY <1>3, <2>1, <2>5, <3>1, ListOpen DEF Acting
  <2>6. QED
    BY <1>19, <2>2, <2>3, <2>4, <2>5 DEF Finish
<1>20. CASE Stop \/ TypedLine \/ Pause
  <2>1. UNCHANGED <<tasks, pending, docs>> /\ paused' \in BOOLEAN /\ stopped' \in BOOLEAN
    BY <1>1, <1>20 DEF Stop, TypedLine, Pause
  <2>2. /\ \/ proposal' = None /\ current' = FALSE
           \/ UNCHANGED <<proposal, current, stopped>>
        /\ now' = Blank \/ now' = now
        /\ reply' \in Partial \cup {reply}
    BY <1>20 DEF Stop, TypedLine, Pause, Interrupt, ClearProposals, Over
  <2>3. reply' \in Replies \cup {None}
    BY <1>1, <1>3, <2>2 DEF Partial
  <2>4. proposal' \in {proposal, None} /\ current' \in BOOLEAN
    BY <1>1, <2>2
  <2>5. stopped' => ~current' /\ proposal' = None
    BY <1>3, <2>2
  <2>6. CASE now' = Blank
    BY <1>7, <2>1, <2>3, <2>4, <2>5, <2>6
  <2>7. CASE now' = now
    BY <2>1, <2>3, <2>4, <2>5, <2>7, OpensNothing
  <2>8. QED
    BY <2>2, <2>6, <2>7
<1>21. CASE Resume
  BY <1>1, <1>3, <1>21, OpensNothing DEF Resume
<1>22. CASE Expire
  BY <1>22, ExpireOpen
<1>23. CASE FileChanges
  <2>1. UNCHANGED <<proposal, current, pending, docs, reply, paused, stopped>>
    BY <1>23 DEF FileChanges
  <2>2. /\ tasks' \in Lists \cup {None}
        /\ (tasks' # None => tasks # None) /\ (tasks = None => tasks' = None)
    BY <1>1, <1>23 DEF FileChanges, Lists
  <2>3. now'.phase = now.phase /\ now'.path = now.path /\ now'.lease = now.lease
    BY <1>1, <1>23 DEF FileChanges, Turns
  <2>4. TypeOK'
    BY <1>1, <2>1, <2>2, OpenTyped DEF LeftOpen, TypeOK, Lists
  <2>5. OneQuestionAtATime' /\ OpenInv'
    BY <1>1, <2>1, <2>2, <2>3 DEF LeftOpen, OneQuestionAtATime, OpenInv
  <2>6. QED
    BY <2>4, <2>5 DEF LeftOpen
<1>24. QED
  BY <1>4, <1>5, <1>6, <1>8, <1>9, <1>10, <1>11, <1>12, <1>13, <1>15, <1>16, <1>17, <1>18, <1>19,
     <1>20, <1>21, <1>22, <1>23

-----------------------------------------------------------------------------
(* The theorems                                                            *)

LEMMA Start == Init => Inv
<1> SUFFICES ASSUME Init PROVE Inv
  OBVIOUS
<1>1. /\ now = Blank /\ proposal = None /\ tasks = None /\ pending = None /\ docs = None
      /\ reply = None /\ enabled \in Skills /\ current = TRUE /\ paused = FALSE /\ stopped = FALSE
  BY DEF Init
<1>2. Blank \in Turns /\ Blank.phase = "idle" /\ Blank.lease = None
  BY DEF Blank, Turns, Phases
<1>3. TypeOK /\ OneQuestionAtATime
  BY <1>1 DEF TypeOK, OneQuestionAtATime
<1>4. TurnInv /\ TrustInv /\ GroundInv
  BY <1>1, <1>2 DEF TurnInv, TrustInv, GroundInv, Acting, Turns
<1>5. OpenInv
  BY <1>1, <1>2 DEF OpenInv
<1>6. QED
  BY <1>3, <1>4, <1>5 DEF Inv

LEMMA Step == Inv /\ [Next]_vars => Inv'
<1> SUFFICES ASSUME Inv, [Next]_vars PROVE Inv'
  OBVIOUS
<1>1. NowInv' /\ LeftOpen' => Inv'
  BY DEF NowInv, LeftOpen, Inv
<1>2. ASSUME UNCHANGED enabled, now.phase = "idle", NEW u \in Utterances, Process(u)
      PROVE  Inv'
  BY <1>1, <1>2, ProcessTurn, ProcessOpen
<1>3. CASE Next
  <2>1. UNCHANGED enabled
    BY <1>3 DEF Next
  <2>2. CASE now.phase = "idle" /\ \E u \in Utterances : Admitted(u) /\ Process(u)
    BY <1>2, <2>1, <2>2
  <2>3. CASE \/ ExactApp \/ NoExactApp
             \/ ModelAnswers \/ SpeakAnswer \/ NothingDone \/ ResolveProposal \/ RejectProposal
             \/ ModifyProposal \/ AcceptProposal \/ ModelActs
             \/ Stamp \/ ActFails \/ OfferEntries \/ AskUser \/ Do \/ UserAgrees \/ UserRefuses \/ Finish
             \/ Stop \/ TypedLine \/ Pause \/ Resume \/ Expire \/ FileChanges
    BY <1>1, <2>1, <2>3, TurnGoesOn, GoesOnOpen
  <2>4. QED
    BY <1>3, <2>2, <2>3 DEF Next
<1>4. CASE UNCHANGED vars
  <2>1. NowInv'
    BY <1>4, TurnSame DEF vars
  <2>2. LeftOpen'
    BY <1>4, OpenTyped DEF vars, LeftOpen, TypeOK, OneQuestionAtATime, OpenInv
  <2>3. QED
    BY <1>1, <2>1, <2>2
<1>5. QED
  BY <1>3, <1>4

\* The invariant holds: a short answer never has two things it could mean, and the turn in
\* progress has the grounds, the speech and the consent that its action needs.
THEOREM TurnsAreConsistent == Spec => []Inv
<1>1. QED
  BY Start, Step, PTL DEF Spec

\* What is done by the model's word, by a short answer or from a list was confirmed where it
\* changes something (switching to a window does not), came from speech that may start it, and is
\* the action asked for or a search of the web for what the model does not know.
THEOREM WhatIsDoneWasMeant == Spec => []ActionsWereMeant
<1>1. Inv => ActionsWereMeant
  <2> SUFFICES ASSUME Inv PROVE ActionsWereMeant
    OBVIOUS
  <2>1. TrustInv /\ GroundInv /\ TurnInv
    BY DEF Inv
  <2>2. ChangesAreConfirmed
    BY <2>1 DEF ChangesAreConfirmed, GroundInv, Acting, Doing, Confirms, Unconfirmed
  <2>3. UnscoredSpeechIsBounded
    <3> SUFFICES ASSUME Doing, ~AllowActions(now.heard.quality)
                 PROVE  /\ "groq" \in now.heard.quality
                        /\ now.heard.quality \cap {"scored", "repeat", "unreliable", "truncated", "cut"} = {}
                        /\ \/ now.path = "select"
                           \/ Kind(now.act.tool) \in UnscoredVoiceTools \cup {"read_document", "memory"}
      BY DEF UnscoredSpeechIsBounded
    <3>1. Acting /\ now.phase # "idle" /\ now.path # "quiet"
      BY <2>1 DEF Doing, Acting, TrustInv
    <3>2. /\ GroqUnscored(now.heard.quality) /\ Reliable(now.heard.quality)
          /\ now.path \in {"document", "memory", "select", "groq"}
      BY <2>1, <3>1 DEF TrustInv
    <3>3. /\ "groq" \in now.heard.quality
          /\ now.heard.quality \cap {"scored", "repeat", "unreliable", "truncated", "cut"} = {}
      BY <3>2 DEF GroqUnscored, Reliable, Incomplete
    <3>4. QED
      BY <2>1, <3>1, <3>2, <3>3 DEF TrustInv, Kind
  <2>4. OnlyTheActionAskedFor
    BY <2>1 DEF OnlyTheActionAskedFor, GroundInv, Acting, Doing
  <2>5. QED
    BY <2>2, <2>3, <2>4 DEF ActionsWereMeant
<1>2. QED
  BY <1>1, TurnsAreConsistent, PTL

\* A stop, a pause or a safety question voids what was offered and what answers it, and an offer
\* is for the next turn only.
THEOREM OffersAreCurrent == Spec => []ProposalsAreCurrent
<1>1. Inv => ProposalsAreCurrent
  BY DEF Inv, OpenInv, GroundInv, Acting, ProposalsAreCurrent, LateAnswersAreVoid, Did, Doing,
         ProposalIsForTheNextTurn
<1>2. QED
  BY <1>1, TurnsAreConsistent, PTL

\* A file replaced while it stood in the list, or while the user was asked, is not opened.
THEOREM ReplacedFilesStayShut == Spec => []ReplacedFileStaysShut
<1>1. Inv => ReplacedFileStaysShut
  BY DEF Inv, GroundInv, Acting, ReplacedFileStaysShut, Doing
<1>2. QED
  BY <1>1, TurnsAreConsistent, PTL
==============================================================================
