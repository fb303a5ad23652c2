------------------------------- MODULE Stores -------------------------------
(***************************************************************************)
(* What the user has the program remember (skills/memory): facts about the *)
(* user (personal.py, memory_store.py), the knowledge base with the files  *)
(* it imports from a folder (knowledge.py, knowledge_store.py,             *)
(* knowledge_import.py), and the passwords that are lent to the clipboard  *)
(* (skill.py).  A save may fail, or leave backups behind; every file       *)
(* operation of one is in AtomicFile.                                      *)
(***************************************************************************)
EXTENDS Naturals, FiniteSets, Sequences, SequencesExt, Functions

CONSTANTS Nobody,      \* no request, no fact, nothing in the clipboard
          Versions,    \* what each file of the folder may hold, in the order of the names
          PartsOf(_),  \* into how many chunks that falls
          Topics,      \* what is added by a phrase
          MaxEntries,  \* MAX_ENTRIES
          Facts,       \* what may be told of the user: keys with values
          Passwords    \* those in the vault

Away == "away"  \* a file that is gone, or refused: a secret, the format, the size, unreadable

FileNames == DOMAIN Versions

ASSUME StoresAssumption ==
  /\ MaxEntries \in Nat /\ Len(Versions) \in Nat /\ FileNames = 1..Len(Versions)
  /\ \A n \in FileNames : Away \notin Versions[n] /\ \A v \in Versions[n] : PartsOf(v) \in Nat \ {0}
  /\ Nobody \notin Passwords /\ \A f \in Facts : f = <<f[1], f[2]>> /\ f[2] # Nobody

VARIABLES
  folder,    \* data/knowledge
  base,      \* the entries of the knowledge base
  baseOld,   \* entries that its backups may hold
  facts,     \* the memory
  factsOld,  \* facts that its backups may hold
  talk,      \* facts that the conversation may hold: its history, and the rest
  wish,      \* the request: what it is, what it is about, what was read
  waits,     \* its await: "no", "reading", "asked"
  clip,      \* the clipboard: a password, or Nobody for anything else
  timers,    \* the tasks of clear_clipboard_later
  stuck,     \* "base", "facts": of which of the two files a backup could not be removed
  gone,      \* history: the entries the user was told are removed, and has not added since
  forgotten, \* history: the facts the user was told are forgotten, likewise
  unsaid     \* history: the facts the user was told the conversation is rid of, likewise

knowledge == <<base, baseOld, gone>>
memory == <<facts, factsOld, talk, forgotten, unsaid>>
remembered == <<knowledge, memory, stuck>>
clipboard == <<clip, timers>>
stores == <<folder, remembered, wish, waits, clipboard>>

Entry(from, version, part) == [from |-> from, version |-> version, part |-> part]
Phrase(topic) == Entry(0, topic, 1)
Chunks(name, version) == [k \in 1..PartsOf(version) |-> Entry(name, version, k)]
FactKeys == {f[1] : f \in Facts}
FactsIn(f) == {<<k, f[k]>> : k \in {k \in FactKeys : f[k] # Nobody}}
Wish(op, about, seen) == [op |-> op, about |-> about, seen |-> seen]
NoWish == Wish("none", {}, <<>>)

StoresInit ==
  /\ folder = [n \in FileNames |-> Away] /\ base = <<>> /\ baseOld = {}
  /\ facts = [k \in FactKeys |-> Nobody] /\ factsOld = {} /\ talk = [history |-> {}, rest |-> {}]
  /\ wish = NoWish /\ waits = "no" /\ clip = Nobody /\ timers = <<>>
  /\ stuck = {} /\ gone = {} /\ forgotten = {} /\ unsaid = {}

Concluded == waits' = "no" /\ wish' = NoWish
Asks(w) == waits' = "asked" /\ wish' = w
Apart == UNCHANGED <<folder, clipboard>>

-----------------------------------------------------------------------------
(* The requests: what is asked of the user before anything is changed *)

AskUser(w) == waits = "no" /\ Asks(w) /\ Apart /\ UNCHANGED remembered

AskAdd(topic) == AskUser(Wish("add", {Phrase(topic)}, <<>>))
\* The entries whose titles match; a file's title tells its parts apart.
AskForget == \E about \in SUBSET ToSet(base) : about # {} /\ AskUser(Wish("forget", about, <<>>))
AskClear == AskUser(Wish("clear", ToSet(base), <<>>))

\* The one fact of a key is replaced, which needs a new conversation, or added.
AskRemember(key, value) == AskUser(Wish("remember", {<<key, value>>}, <<>>))
AskForgetFacts ==
  \E about \in SUBSET FactsIn(facts) : about # {} /\ AskUser(Wish("forget_facts", about, <<>>))
AskClearFacts == AskUser(Wish("forget_facts", FactsIn(facts), <<>>))
\* "Command: clear the memory ..." in other words than personal.py knows.
AskClearMemory == AskUser(Wish("clear_memory", {}, <<>>))
AskPassword(p) == AskUser(Wish("password", {<<"password", p>>}, <<>>))

BeginUpdate ==
  /\ waits = "no" /\ waits' = "reading" /\ wish' = Wish("update", {}, <<>>)
  /\ Apart /\ UNCHANGED remembered

\* plan_import in its thread comes to a file, in the order of the names.
ReadFile ==
  /\ waits = "reading" /\ Len(wish.seen) < Len(Versions)
  /\ wish' = [wish EXCEPT !.seen = Append(@, folder[Len(@) + 1])]
  /\ UNCHANGED waits /\ Apart /\ UNCHANGED remembered

\* imported_files
Imported(name) == \E e \in ToSet(base) : e.from = name
VersionOf(name) == (CHOOSE e \in ToSet(base) : e.from = name).version

Ready(seen, name) == seen[name] # Away /\ ~(Imported(name) /\ VersionOf(name) = seen[name])
Changed(seen) == {n \in FileNames : Imported(n) /\ Ready(seen, n)}
\* A file that is gone or no longer fit loses its entries.
Removed(seen) == {n \in FileNames : Imported(n) /\ seen[n] = Away}

PlanReady ==
  /\ waits = "reading" /\ Len(wish.seen) = Len(Versions)
  /\ IF \E n \in FileNames : Ready(wish.seen, n) \/ n \in Removed(wish.seen)
     THEN waits' = "asked" /\ UNCHANGED wish ELSE Concluded
  /\ Apart /\ UNCHANGED remembered

\* No, no answer in time, or the turn is cancelled, its thread being left to itself.
NotDone == waits # "no" /\ Concluded /\ Apart /\ UNCHANGED remembered

-----------------------------------------------------------------------------
(* What is done when the user agrees *)

Agreed(op) == waits = "asked" /\ wish.op = op /\ Concluded /\ UNCHANGED folder

\* AtomicJSONFile.save, by what it leaves behind: all is well; an error, before anything is
\* replaced; or a backup that could not be removed, of which only the log is told.
SaveResults == {"saved", "failed", "left"}
MayEnd(result, forget, old) == result = "left" => forget /\ old # {}

\* What the backups may hold then, if they held old and the file held current.
Backed(old, current, forget, result) ==
  IF ~forget THEN old \cup current ELSE IF result = "saved" THEN {} ELSE old
Stuck(name, forget, result) ==
  IF result = "left" THEN stuck \cup {name}
  ELSE IF result = "saved" /\ forget THEN stuck \ {name} ELSE stuck

SaveBase(new, forget, result) ==
  /\ MayEnd(result, forget, baseOld)
  /\ base' = IF result = "failed" THEN base ELSE new
  /\ baseOld' = Backed(baseOld, ToSet(base), forget, result)
  /\ stuck' = Stuck("base", forget, result)

\* The reply names what was removed; what has been added may be found again.
TellsOfEntries(result, removed) ==
  gone' = IF result = "failed" THEN gone ELSE (gone \cup removed) \ (ToSet(base') \ ToSet(base))

AddEntry(result) ==
  /\ Agreed("add") /\ UNCHANGED <<memory, clipboard>>
  /\ IF Len(base) >= MaxEntries THEN UNCHANGED <<knowledge, stuck>>
     ELSE \E entry \in wish.about :
            SaveBase(Append(base, entry), FALSE, result) /\ TellsOfEntries(result, {})

\* The entries that are not among those, in their order.
Without(entries, out) ==
  LET rest[k \in 0..Len(entries)] ==
        IF k = 0 THEN <<>>
        ELSE IF entries[k] \in out THEN rest[k - 1] ELSE Append(rest[k - 1], entries[k])
  IN rest[Len(entries)]

ForgetEntries_KeepsHistory(result) ==
  /\ Agreed("forget") /\ SaveBase(Without(base, wish.about), FALSE, result)
  /\ TellsOfEntries(result, wish.about) /\ UNCHANGED <<memory, clipboard>>
ForgetEntries(result) ==
  /\ \/ Agreed("forget") /\ SaveBase(Without(base, wish.about), TRUE, result)
     \/ Agreed("clear") /\ SaveBase(<<>>, TRUE, result)
  /\ TellsOfEntries(result, wish.about) /\ UNCHANGED <<memory, clipboard>>

Replaced_RemovedOnly(seen) == Removed(seen)
\* What apply_import takes out of the base before it adds.
Replaced(seen) == Removed(seen) \cup Changed(seen)

Fits(entries, more) == Len(entries) + Len(more) <= MaxEntries

\* apply_import: the files in the order of their names, one that does not fit being skipped.
Import(seen, kept) ==
  LET upto[n \in 0..Len(Versions)] ==
        IF n = 0 THEN kept
        ELSE IF Ready(seen, n) /\ Fits(upto[n - 1], Chunks(n, seen[n]))
             THEN upto[n - 1] \o Chunks(n, seen[n]) ELSE upto[n - 1]
  IN upto[Len(Versions)]

\* The plan that the user agreed to names the files that were changed or taken away.
Outdated(seen) == {e \in ToSet(base) : e.from # 0 /\ e.version # seen[e.from]}

ApplyImport(result) ==
  /\ Agreed("update") /\ UNCHANGED <<memory, clipboard>>
  /\ LET seen == wish.seen
         out == {e \in ToSet(base) : e.from \in Replaced(seen)}
     IN /\ SaveBase(Import(seen, Without(base, out)), Replaced(seen) # {}, result)
        /\ TellsOfEntries(result, Outdated(seen))

\* The store's part of handle_request; a save that fails leaves an error to the user.
SaveFacts(new, forget, result) ==
  /\ MayEnd(result, forget, factsOld)
  /\ facts' = IF result = "failed" THEN facts ELSE new
  /\ factsOld' = Backed(factsOld, FactsIn(facts), forget, result)
  /\ stuck' = Stuck("facts", forget, result)

\* The conversation is reset before anything is changed, what surrounds it when there was
\* no error (_personal_memory_turn).
NewConversation(result) ==
  talk' = [history |-> {}, rest |-> IF result = "failed" THEN talk.rest ELSE {}]

\* The reply: what is forgotten, what is not in the conversation any more, what is known.
TellsOfFacts(result, lost, left, known) ==
  IF result = "failed" THEN UNCHANGED <<forgotten, unsaid>>
  ELSE forgotten' = (forgotten \cup lost) \ known /\ unsaid' = (unsaid \cup left) \ known

\* The facts of that key: the one, or none.
Existing(key) == {f \in FactsIn(facts) : f[1] = key}

\* new_conversation could not archive the history: nothing is changed.
ResetFails ==
  /\ \/ Agreed("forget_facts")
     \/ Agreed("remember") /\ \E fact \in wish.about : Existing(fact[1]) # {}
  /\ UNCHANGED <<clipboard, remembered>>

RememberFact(result) ==
  /\ Agreed("remember")
  /\ \E fact \in wish.about :
       LET existing == Existing(fact[1])
       IN /\ SaveFacts([facts EXCEPT ![fact[1]] = fact[2]], FALSE, result)
          /\ IF existing # {} THEN NewConversation(result) ELSE UNCHANGED talk
          /\ TellsOfFacts(result, {}, existing, {fact})
  /\ UNCHANGED <<clipboard, knowledge>>
ForgetFacts(result) ==
  /\ Agreed("forget_facts")
  /\ SaveFacts([k \in FactKeys |-> IF <<k, facts[k]>> \in wish.about THEN Nobody ELSE facts[k]],
               TRUE, result)
  /\ NewConversation(result)
  /\ TellsOfFacts(result, wish.about, wish.about, {})
  /\ UNCHANGED <<clipboard, knowledge>>

\* skill.py clears the file and leaves the conversation as it is.
ClearMemory(result) ==
  /\ Agreed("clear_memory") /\ SaveFacts([k \in FactKeys |-> Nobody], TRUE, result)
  /\ UNCHANGED talk /\ TellsOfFacts(result, FactsIn(facts), {}, {})
  /\ UNCHANGED <<clipboard, knowledge>>

LendPassword ==
  /\ Agreed("password") /\ \E asked \in wish.about : clip' = asked[2]
  /\ timers' = Append(timers, clip') /\ UNCHANGED remembered

-----------------------------------------------------------------------------
(* The rest of the world *)

\* Thirty seconds are up: the clipboard is emptied if it still holds that password.
ClearClipboard ==
  /\ timers # <<>> /\ timers' = Tail(timers)
  /\ clip' = IF clip = Head(timers) THEN Nobody ELSE clip
  /\ UNCHANGED <<folder, remembered, wish, waits>>

\* A chat turn tells the model and the user of the facts that are relevant to it.
Talk ==
  /\ waits = "no"
  /\ \E told \in SUBSET FactsIn(facts) :
       talk' = [history |-> talk.history \cup told, rest |-> told]
  /\ UNCHANGED <<folder, knowledge, facts, factsOld, forgotten, unsaid, stuck, clipboard, wish, waits>>

\* The user changes the folder, or copies something.  Bound: while an answer is awaited
\* nothing reads the folder, and its changes can wait.
FolderChanges ==
  /\ waits # "asked"
  /\ \E n \in FileNames : \E v \in Versions[n] \cup {Away} :
       folder[n] # v /\ folder' = [folder EXCEPT ![n] = v]
  /\ UNCHANGED <<remembered, clipboard, wish, waits>>
UserCopies == clip # Nobody /\ clip' = Nobody
              /\ UNCHANGED <<folder, remembered, timers, wish, waits>>

KnowledgeTurn == AskForget \/ AskClear \/ BeginUpdate \/ \E t \in Topics : AskAdd(t)
MemoryTurn == \/ AskForgetFacts \/ AskClearFacts \/ AskClearMemory \/ Talk
              \/ \E f \in Facts : AskRemember(f[1], f[2])
PasswordTurn == \E p \in Passwords : Len(timers) < 2 /\ AskPassword(p)  \* Bound
Change(result) == \/ AddEntry(result) \/ ForgetEntries(result) \/ ApplyImport(result) \/ RememberFact(result)
                \/ ForgetFacts(result) \/ ClearMemory(result)
StoresStep == \/ ReadFile \/ PlanReady \/ NotDone \/ ResetFails \/ LendPassword
              \/ \E r \in SaveResults : Change(r)
StoresWorld == FolderChanges \/ UserCopies \/ ClearClipboard

-----------------------------------------------------------------------------
Entries == {Phrase(t) : t \in Topics} \cup UNION {UNION {ToSet(Chunks(n, v)) : v \in Versions[n]} : n \in FileNames}

StoresTypeOK ==
  /\ DOMAIN folder = FileNames /\ \A n \in FileNames : folder[n] \in Versions[n] \cup {Away}
  /\ base \in Seq(Entries) /\ baseOld \subseteq Entries
  /\ DOMAIN facts = FactKeys /\ FactsIn(facts) \cup factsOld \subseteq Facts
  /\ talk \in [history : SUBSET Facts, rest : SUBSET Facts]
  /\ waits \in {"no", "reading", "asked"}
  /\ clip \in Passwords \cup {Nobody} /\ timers \in Seq(Passwords)
  /\ stuck \subseteq {"base", "facts"} /\ gone \subseteq Entries /\ forgotten \cup unsaid \subseteq Facts

\* Whatever the user agreed to and whichever saves failed or archives could not be written:
\* what the user was told is removed or forgotten, by a request or because its file was changed
\* or taken away, is not in the file; it is in a backup only while there is one that could not
\* be removed (storage/knowledge_store.py:97); and what the user was told the conversation is
\* rid of is not told again (personal.py:96).
ForgottenStaysForgotten ==
  /\ gone \cap ToSet(base) = {} /\ forgotten \cap FactsIn(facts) = {}
  /\ "base" \in stuck \/ gone \cap baseOld = {}
  /\ "facts" \in stuck \/ forgotten \cap factsOld = {}
  /\ unsaid \cap (talk.history \cup talk.rest) = {}

\* However the folder and the base changed before, what the base has of a file is of one
\* version of it, each chunk once; and it never grows beyond its limit.
ImportsAreOfOneVersion ==
  /\ Len(base) <= MaxEntries
  /\ \A i, j \in DOMAIN base :
       base[i].from = base[j].from /\ base[i].from # 0 /\ i # j =>
         base[i].version = base[j].version /\ base[i].part # base[j].part

\* A request still carries what it was made of, and an import that is asked about has been
\* through all of the folder.
WishInv ==
  /\ wish = Wish(wish.op, wish.about, wish.seen)
  /\ wish.seen \in Seq((UNION Range(Versions)) \cup {Away}) /\ Len(wish.seen) <= Len(Versions)
  /\ \A n \in DOMAIN wish.seen : n \in FileNames /\ wish.seen[n] \in Versions[n] \cup {Away}
  /\ waits = "asked" /\ wish.op = "update" => DOMAIN wish.seen = FileNames
  /\ waits = "reading" => wish.op = "update"
  /\ wish.op = "add" => wish.about \subseteq {Phrase(t) : t \in Topics}
  /\ wish.op \in {"forget", "clear"} => wish.about \subseteq Entries
  /\ wish.op \in {"remember", "forget_facts"} => wish.about \subseteq Facts
  /\ wish.op = "password" => \A asked \in wish.about : asked[2] \in Passwords

\* What the conversation is rid of is no longer known either.
StoresHold == WishInv /\ ForgottenStaysForgotten /\ ImportsAreOfOneVersion /\ unsaid \cap FactsIn(facts) = {}

\* "If «Forget the entry» removes one of a file, the file stays in the folder, and the next
\* update brings the entry back" (docs/USER_GUIDE.md:63).
UpdateBringsBack ==
  [][ PlanReady /\ waits' = "no" =>
        \A n \in FileNames : wish.seen[n] # Away =>
          ToSet(Chunks(n, wish.seen[n])) \subseteq ToSet(base) ]_stores
=============================================================================
