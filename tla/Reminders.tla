------------------------------- MODULE Reminders -------------------------------
(***************************************************************************)
(* Reminders: the file (services/storage/reminder_store.py), the loop that *)
(* announces them (core/app.py, _reminder_loop) and the user's commands    *)
(* (skills/reminders/skill.py).  Every operation of the store loads the    *)
(* file, changes what it loaded and saves it; only the load and the save   *)
(* hold the file's lock.  The loop calls the store in worker threads, the  *)
(* commands call it on the event loop, which stands still meanwhile.       *)
(***************************************************************************)
EXTENDS Integers, FiniteSets, Sequences, SequencesExt

CONSTANTS Texts,        \* what the user wants to be reminded of
          Periods,      \* seconds between two times of a recurring reminder; 0: it occurs once
          Kept,         \* the files an earlier session may have left
          MaxReminders, \* bound on the reminders ever made
          MaxChanges,   \* bound on the user's commands
          MaxCrashes,   \* bound on the restarts
          MaxTime       \* bound on the clock

VARIABLES
  file,    \* the reminders, in the order in which they were made
  clock,
  phase,   \* where the loop is
  list,    \* what it is still to announce
  copy,    \* what its thread has loaded and will save
  change,  \* what the user's command has loaded, changed and will save
  made, changes, crashes,
  asof,    \* when the loop read the list
  said,    \* the times announced since the program was started
  told,    \* history: every time that was announced, of whatever run
  lost,    \* history: those that no run will announce
  telling  \* whether the last command told the user that a reminder is completed

reminderVars == <<file, clock, phase, list, copy, change, made, changes, crashes, asof, said, told, lost,
                  telling>>
bounds == <<made, changes, crashes>>
user == <<change, telling>>
tellings == <<told, lost>>
announced == <<asof, said, tellings>>

None == <<>>
Statuses == {"pending", "missed", "triggered", "cancelled", "completed"}
Reminder == [id : 1..MaxReminders, text : Texts, due : Int, every : Periods, status : Statuses]

ASSUME RemindersAssumption ==
  /\ Periods \subseteq Nat /\ {MaxReminders, MaxChanges, MaxCrashes, MaxTime} \subseteq Nat
  /\ \A f \in Kept : f \in Seq(Reminder) /\ \A k \in DOMAIN f : f[k].id = k

Said(r, at) == [id |-> r.id, due |-> r.due, at |-> at]
\* The reminders ever announced.
ever == {t.id : t \in told}

ReminderInit ==
  /\ file \in Kept /\ clock = 0
  /\ phase = "begin" /\ list = <<>> /\ copy = None /\ change = None
  /\ made = Len(file) /\ changes = 0 /\ crashes = 0
  /\ asof = 0 /\ said = {} /\ telling = FALSE
  /\ told = {Said(r, 0) : r \in {r \in ToSet(file) : r.status \in {"missed", "triggered"}}}
  /\ lost = {}

(***************************************************************************)
(* The store.                                                              *)
(***************************************************************************)
NextDue(r) == IF clock < r.due THEN r.due
              ELSE r.due + r.every * ((clock - r.due) \div r.every + 1)

IsDue(r) == r.status = "pending" /\ r.due <= clock
WasMissed(r) == r.status = "pending" /\ r.due < clock

\* Those reminders, in the order of the file, which is the one in which they were made.
Listed(S) == {l \in [1..Cardinality(S) -> S] : \A i, j \in DOMAIN l : i < j => l[i].id < l[j].id}
DueNow == {r \in ToSet(file) : IsDue(r)}
MissedOnes == {r \in ToSet(file) : WasMissed(r)}

\* A reminder that occurs once gets a status, a recurring one its next time, unless it
\* is cancelled.
Over(r, status) == IF r.every = 0 \/ status = "cancelled" THEN [r EXCEPT !.status = status]
                   ELSE [r EXCEPT !.due = NextDue(r)]

\* The reminders in S are changed where they stand.
Each(f, S, status) == [k \in DOMAIN f |-> IF f[k] \in S THEN Over(f[k], status) ELSE f[k]]

TimesOf(reminders) == {[id |-> r.id, due |-> r.due] : r \in reminders}

(***************************************************************************)
(* The loop.  What is said is said on the event loop.                      *)
(***************************************************************************)
Missed ==
  /\ phase = "begin"
  /\ list' \in Listed(MissedOnes) /\ asof' = clock
  /\ IF list' = <<>> THEN phase' = "poll" /\ UNCHANGED copy
     ELSE /\ phase' = "missed"
          /\ copy' = <<Each(file, ToSet(list'), "missed")>>
  /\ UNCHANGED <<file, clock, user, bounds, said, tellings>>

\* The thread saves what it has loaded and changed: what the user has added since is gone.
Saved ==
  /\ file' = copy[1] /\ copy' = None
  /\ lost' = lost \cup TimesOf({r \in ToSet(file) : \A s \in ToSet(copy[1]) : s.id # r.id})
  /\ UNCHANGED <<asof, said, told>>

MissedSaved ==
  /\ phase = "missed" /\ Saved /\ phase' = "announce"
  /\ UNCHANGED <<clock, list, user, bounds>>

Say(r) == /\ said' = said \cup {Said(r, asof)}
          /\ told' = told \cup {Said(r, asof)} /\ UNCHANGED <<asof, lost>>

SayMissed ==
  /\ phase = "announce" /\ change = None
  /\ Say(Head(list)) /\ list' = Tail(list)
  /\ phase' = IF Len(list) = 1 THEN "poll" ELSE "announce"
  /\ UNCHANGED <<file, clock, copy, user, bounds>>

Due_Exact ==
  /\ phase = "poll"
  /\ list' \in Listed({r \in DueNow : r.due = clock}) /\ asof' = clock
  /\ phase' = IF list' = <<>> THEN "poll" ELSE "remind"
  /\ UNCHANGED <<file, clock, copy, user, bounds, said, tellings>>
Due ==
  /\ phase = "poll"
  /\ list' \in Listed(DueNow) /\ asof' = clock
  /\ phase' = IF list' = <<>> THEN "poll" ELSE "remind"
  /\ UNCHANGED <<file, clock, copy, user, bounds, said, tellings>>

Remind ==
  /\ phase = "remind" /\ change = None
  /\ Say(Head(list)) /\ phase' = "mark"
  /\ UNCHANGED <<file, clock, list, copy, user, bounds>>

Onwards == list' = Tail(list) /\ phase' = IF Len(list) = 1 THEN "poll" ELSE "remind"

MarkTriggered_ByText ==
  /\ phase = "mark"
  /\ copy' = <<Each(file, {r \in ToSet(file) : r.text = Head(list).text}, "triggered")>>
  /\ phase' = "marking"
  /\ UNCHANGED <<file, clock, list, user, bounds, announced>>
MarkTriggered ==
  /\ phase = "mark"
  /\ LET same == {r \in ToSet(file) : r.id = Head(list).id}
     IN \/ /\ same # {}
           /\ copy' = <<Each(file, same, "triggered")>>
           /\ phase' = "marking" /\ UNCHANGED list
        \/ same = {} /\ Onwards /\ UNCHANGED copy
  /\ UNCHANGED <<file, clock, user, bounds, announced>>

MarkSaved ==
  /\ phase = "marking"
  /\ Saved /\ Onwards
  /\ UNCHANGED <<clock, user, bounds>>

(***************************************************************************)
(* The user's commands.  A query stands for the texts that contain it.     *)
(***************************************************************************)
Command ==
  /\ change = None /\ changes < MaxChanges
  /\ changes' = changes + 1
  /\ UNCHANGED <<file, clock, phase, list, copy, crashes, announced>>

Add(text, due, every) ==
  /\ Command /\ made < MaxReminders
  /\ made' = made + 1
  /\ change' = <<Append(file, [id |-> made', text |-> text, due |-> due, every |-> every,
                               status |-> "pending"])>>
  /\ telling' = FALSE

Cancel(query) ==
  /\ Command
  /\ LET ongoing == {r \in ToSet(file) : r.text \in query /\ r.status \in {"pending", "missed"}}
     IN change' = <<Each(file, ongoing, "cancelled")>>
  /\ telling' = FALSE /\ UNCHANGED made

\* The first reminder that has the text, whatever its status.
MarkCompleted(query) ==
  /\ Command
  /\ LET found == {k \in DOMAIN file : file[k].text \in query}
     IN \/ /\ found # {}
           /\ \E k \in found : /\ \A j \in found : k <= j
                               /\ change' = <<[file EXCEPT ![k].status = "completed"]>>
           /\ telling' = TRUE
        \/ found = {} /\ telling' = FALSE /\ UNCHANGED change
  /\ UNCHANGED made

CommandSaved ==
  /\ change # None
  /\ file' = change[1] /\ change' = None
  /\ UNCHANGED <<clock, phase, list, copy, telling, bounds, announced>>

(***************************************************************************)
(* The program is killed, or stopped, and started again.                   *)
(***************************************************************************)
\* What was already marked as missed, and is still to be said, nobody says any more.
Restart ==
  /\ crashes < MaxCrashes /\ crashes' = crashes + 1
  /\ phase' = "begin" /\ list' = <<>> /\ copy' = None /\ change' = None
  /\ asof' = 0 /\ said' = {} /\ telling' = FALSE
  /\ lost' = IF phase = "announce" THEN lost \cup TimesOf(ToSet(list)) ELSE lost
  /\ UNCHANGED <<file, clock, made, changes, told>>

Tick ==
  /\ clock < MaxTime /\ clock' = clock + 1
  /\ UNCHANGED <<file, phase, list, copy, user, bounds, announced>>

Loop == \/ Missed \/ MissedSaved \/ SayMissed \/ Due \/ Remind
        \/ MarkTriggered \/ MarkSaved

ReminderNext ==
  \/ Loop
  \/ \E t \in Texts, d \in clock..MaxTime, p \in Periods : Add(t, d, p)
  \/ \E q \in SUBSET Texts \ {{}} : Cancel(q) \/ MarkCompleted(q)
  \/ CommandSaved
  \/ Restart \/ Tick

ReminderSpec == ReminderInit /\ [][ReminderNext]_reminderVars

\* The loop sleeps for a second at most, the threads and the event loop run.
FairReminderSpec == ReminderSpec /\ WF_reminderVars(Loop) /\ WF_reminderVars(CommandSaved)

-----------------------------------------------------------------------------
(***************************************************************************)
(* Properties.                                                             *)
(***************************************************************************)
Files == Seq(Reminder)
Dues == [id : 1..MaxReminders, due : Int]
Times == [id : 1..MaxReminders, due : Int, at : 0..MaxTime]

\* Every variable has its type.
ReminderTypeOK ==
  /\ file \in Files /\ clock \in 0..MaxTime
  /\ phase \in {"begin", "missed", "announce", "poll", "remind", "mark", "marking"}
  /\ list \in Files /\ (list = <<>> <=> phase \in {"begin", "poll"})
  /\ copy \in Seq(Files) /\ Len(copy) <= 1 /\ (copy # None <=> phase \in {"missed", "marking"})
  /\ change \in Seq(Files) /\ Len(change) <= 1
  /\ made \in 0..MaxReminders /\ changes \in 0..MaxChanges /\ crashes \in 0..MaxCrashes
  /\ asof \in 0..MaxTime /\ said \subseteq Times /\ told \subseteq Times /\ lost \subseteq Dues
  /\ telling \in BOOLEAN

OnlyMarks(f, ids) == \A r \in ToSet(f) : r.status = "triggered" => r.id \in ids

\* A reminder is done with only after it was announced, although the program may be killed
\* between any two steps and the user's saves may undo the loop's (_reminder_loop).
TriggeredWasAnnounced == OnlyMarks(file, ever)

\* While the user does not interfere, each time of a reminder is announced once in a run of
\* the program, and the times of a recurring one that passed before it was announced are
\* not made up for (ReminderStore._next_due).
EachTimeOnce ==
  changes = 0 =>
    \A a, b \in said :
      a.id = b.id /\ a # b => \/ (a.due < b.due /\ a.at < b.due)
                             \/ (b.due < a.due /\ b.at < a.due)

Marking == phase \in {"mark", "marking"}

\* Nothing that is loaded, changed and not yet saved is marked without an announcement either.
MarkInv ==
  /\ \A f \in {file} \cup ToSet(copy) \cup ToSet(change) : OnlyMarks(f, ever)
  /\ Marking => Head(list).id \in ever

\* r does not come up again at a time that was announced as due when the loop read the list.
After(r, due, at) == r.status = "pending" => due < r.due /\ at < r.due

\* While the user does not interfere: what is said of a reminder is behind it in the file,
\* unless its mark is on the way; what is left of the list has not been said; and the thread
\* changes nothing but what the loop is at.
OnceInv ==
  changes = 0 =>
    /\ change = None /\ asof <= clock /\ \A k \in DOMAIN file : file[k].id = k
    /\ \A i, j \in DOMAIN list : i < j => list[i].id < list[j].id
    /\ \A i \in DOMAIN list : list[i].id \in DOMAIN file
    /\ \A s \in said :
         /\ s.id \in DOMAIN file
         /\ \/ After(file[s.id], s.due, s.at)
            \/ Marking /\ s = [id |-> list[1].id, due |-> list[1].due, at |-> asof]
    /\ copy # None => DOMAIN copy[1] = DOMAIN file /\ \A k \in DOMAIN file : copy[1][k].id = k
    /\ phase \in {"begin", "missed"} => said = {}
    /\ phase = "missed" =>
         \A i \in DOMAIN list : After(copy[1][list[i].id], list[i].due, asof)
    /\ phase = "announce" =>
         \A i \in DOMAIN list : /\ After(file[list[i].id], list[i].due, asof)
                                /\ \A s \in said : s.id < list[i].id
    /\ phase = "remind" \/ Marking =>
         \A i \in DOMAIN list : /\ file[list[i].id] = list[i] /\ list[i].status = "pending"
                                /\ list[i].due <= asof
    /\ phase = "marking" =>
         \A k \in DOMAIN file : IF k = list[1].id THEN After(copy[1][k], list[1].due, asof)
                                ELSE copy[1][k] = file[k]

\* The types, no mark without an announcement, and no announcement twice.
ReminderInv == ReminderTypeOK /\ TriggeredWasAnnounced /\ EachTimeOnce /\ MarkInv /\ OnceInv

DueTimes == 0..MaxTime \cup UNION {{r.due : r \in ToSet(f)} : f \in Kept}

TakenBack(id) ==
  \E r \in ToSet(file) : r.id = id /\ r.status \in {"cancelled", "completed"}
\* That time was announced, or an earlier one when that had come too: a recurring reminder
\* does not make up for it.
Announced(id, due) == \E t \in told : t.id = id /\ t.due <= due /\ due <= t.at

\* Each time of a reminder that has come is announced, unless the user takes the reminder back;
\* excepted are those that the code loses: what a run of the program had marked as missed and
\* was killed before it said, and what the user added while the loop had the file loaded
\* (_reminder_loop; docs/TECHNICAL_SPECIFICATION.md:190).
DueIsAnnounced ==
  \A i \in 1..MaxReminders, d \in DueTimes :
    (\E r \in ToSet(file) : r.id = i /\ r.due = d /\ IsDue(r))
      ~> (Announced(i, d) \/ TakenBack(i) \/ [id |-> i, due |-> d] \in lost)

\* What is missed has been announced once the loop has begun to watch the file
\* (docs/TECHNICAL_SPECIFICATION.md:190).
MissedWasAnnounced ==
  phase \in {"poll", "remind", "mark", "marking"} =>
    \A r \in ToSet(file) : r.status = "missed" => r.id \in ever

\* What is missed stays missed until the user says otherwise
\* (docs/TECHNICAL_SPECIFICATION.md:190).
MissedUntilCompleted ==
  [][ \A r \in ToSet(file) : r.status = "missed" =>
        \E s \in ToSet(file') :
          s.id = r.id /\ s.status \in {"missed", "cancelled", "completed"} ]_reminderVars

Open(f, query) ==
  {r.id : r \in {r \in ToSet(f) : r.text \in query /\ r.status \in {"pending", "missed"}}}

\* A completion that the user is told of completes an open reminder, if one has the text
\* (docs/TECHNICAL_SPECIFICATION.md:190).
CompletionReaches ==
  [][ \A q \in SUBSET Texts : MarkCompleted(q) /\ Open(file, q) # {} =>
        Open(change'[1], q) # Open(file, q) ]_reminderVars
=============================================================================
