------------------------------ MODULE AtomicFile ------------------------------
(***************************************************************************)
(* A JSON file with rotating backups (core/atomic_json.py): every file     *)
(* operation of a save, of a restore after damage and of the removal of    *)
(* the backups is a step between which the program may die or an           *)
(* operation may fail.  A file that is being written holds Torn text.      *)
(* The lock of the object serialises loads and saves.                      *)
(***************************************************************************)
EXTENDS Integers, Sequences

CONSTANTS Values,  \* the data saved
          Default, \* what an absent file is read as
          Backups  \* backup_count

Torn == "torn"
Absent == "absent"

ASSUME AtomicFileAssumption ==
  /\ Backups \in Nat \ {0}
  /\ Torn \notin Values \cup {Default} /\ Absent \notin Values \cup {Default}

VARIABLES
  faulty,   \* whether power may be lost and reads may fail, on this machine
  main,     \* the file
  temp,     \* the .tmp file
  bak,      \* the .bakN files
  step,     \* the operation's next step
  index,    \* the backup it has come to
  data,     \* what is being saved
  forget,   \* forget_history
  todo,     \* the backups still to be purged
  purged,   \* how the last purge ended
  loaded,   \* what the last load returned
  held,     \* what the file held before, newest first, since a save was cut short
  erased    \* what the last save that forgot the history was to remove

vars == <<faulty, main, temp, bak, step, index, data, forget, todo, purged, loaded,
          held, erased>>
history == <<loaded, held, erased>>
request == <<data, forget, todo, purged>>

Slots == 1..Backups
Contents == Values \cup {Torn, Absent}
Saving == {"write", "rotate", "copy", "copying", "replace", "purge"}
Restoring == {"restore", "restoring"}
Nothing == <<>>

Init ==
  /\ faulty \in BOOLEAN
  /\ main = Absent /\ temp = Absent /\ bak = [k \in Slots |-> Absent]
  /\ step = "idle" /\ index = 0 /\ data = Default /\ forget = FALSE
  /\ todo = {} /\ purged = "done"
  /\ loaded = Nothing /\ held = <<>> /\ erased = {}

(***************************************************************************)
(* save                                                                    *)
(***************************************************************************)
Save(v, f) ==
  /\ step = "idle"
  /\ step' = "write" /\ data' = v /\ forget' = f
  /\ temp' = Torn
  /\ UNCHANGED <<main, bak, index, todo, purged, history>>

Written ==
  /\ step = "write"
  /\ temp' = data
  /\ \/ main # Absent /\ ~forget /\ step' = "rotate" /\ index' = Backups
     \/ (main = Absent \/ forget) /\ step' = "replace" /\ UNCHANGED index
  /\ UNCHANGED <<main, bak, request, history>>

\* The oldest backup is removed, each of the others takes the place of the next.
Shifted(k) ==
  IF k = Backups THEN [bak EXCEPT ![k] = Absent]
  ELSE IF bak[k] = Absent THEN bak
  ELSE [bak EXCEPT ![k + 1] = bak[k], ![k] = Absent]

Rotate ==
  /\ step = "rotate"
  /\ bak' = Shifted(index) /\ index' = index - 1
  /\ step' = IF index = 1 THEN "copy" ELSE "rotate"
  /\ UNCHANGED <<main, temp, request, history>>

\* The file is copied, not moved: it stays in its place.
Copy_Moved ==
  /\ step = "copy"
  /\ main' = Absent /\ bak' = [bak EXCEPT ![1] = main]
  /\ step' = "replace"
  /\ UNCHANGED <<temp, index, request, history>>
Copy ==
  \/ /\ step = "copy"
     /\ bak' = [bak EXCEPT ![1] = Torn]
     /\ step' = "copying"
     /\ UNCHANGED <<main, temp, index, request, history>>
  \/ /\ step = "copying"
     /\ bak' = [bak EXCEPT ![1] = main]
     /\ step' = "replace"
     /\ UNCHANGED <<main, temp, index, request, history>>

InBackups_NotLast == {k \in 1..Backups - 1 : bak[k] # Absent}
InBackups == {k \in Slots : bak[k] # Absent}

Newest(s) == SubSeq(s, 1, IF Len(s) < Backups THEN Len(s) ELSE Backups)

Replace ==
  /\ step = "replace"
  /\ main' = temp /\ temp' = Absent
  /\ held' = IF forget THEN <<>> ELSE IF main = Absent THEN held
             ELSE Newest(<<main>> \o held)
  /\ erased' = (IF forget THEN Values ELSE erased) \ {data}
  /\ todo' = IF forget THEN InBackups ELSE {}
  /\ purged' = IF todo' # {} THEN "unfinished" ELSE IF forget THEN "done" ELSE purged
  /\ step' = IF todo' # {} THEN "purge" ELSE "idle"
  /\ UNCHANGED <<bak, index, data, forget, loaded>>

\* purge_backups takes the copies in the order of the directory.  One that cannot be
\* removed is reported and stays.
Purge ==
  /\ step = "purge"
  /\ \E k \in todo :
       /\ todo' = todo \ {k}
       /\ \/ bak' = [bak EXCEPT ![k] = Absent] /\ UNCHANGED purged
          \/ UNCHANGED bak /\ purged' = "failed"
  /\ UNCHANGED <<main, temp, step, index, data, forget, history>>

PurgeEnds ==
  /\ step = "purge" /\ todo = {}
  /\ purged' = IF purged = "failed" THEN "failed" ELSE "done"
  /\ step' = "idle"
  /\ UNCHANGED <<main, temp, bak, index, data, forget, todo, history>>

(***************************************************************************)
(* load                                                                    *)
(***************************************************************************)
Load ==
  /\ step = "idle"
  /\ \/ /\ main # Torn
        /\ loaded' = <<IF main = Absent THEN Default ELSE main>>
        /\ UNCHANGED <<step, index>>
     \/ /\ main = Torn \/ (faulty /\ main # Absent)
        /\ step' = "restore" /\ index' = 1
        /\ UNCHANGED loaded
     \/ /\ main = Torn  \* cut within a letter, which raises what load does not catch
        /\ UNCHANGED <<step, index, loaded>>
  /\ UNCHANGED <<main, temp, bak, request, held, erased>>

\* The backups are tried from the newest; the one that can be read is copied over the
\* file.  If it cannot, the next is tried.
Restore ==
  /\ step = "restore"
  /\ \/ /\ index > Backups
        /\ loaded' = <<Default>> /\ step' = "idle"
        /\ UNCHANGED <<main, index>>
     \/ /\ index <= Backups /\ (faulty \/ bak[index] \in {Absent, Torn})
        /\ index' = index + 1
        /\ UNCHANGED <<main, step, loaded>>
     \/ /\ index <= Backups /\ bak[index] \notin {Absent, Torn}
        /\ step' = "restoring" /\ main' = Torn
        /\ UNCHANGED <<index, loaded>>
  /\ UNCHANGED <<temp, bak, request, held, erased>>

Restored ==
  /\ step = "restoring"
  /\ \/ /\ main' = bak[index] /\ loaded' = <<bak[index]>>
        /\ step' = "idle" /\ held' = <<>>
        /\ UNCHANGED index
     \/ /\ index' = index + 1 /\ step' = "restore"
        /\ UNCHANGED <<main, loaded, held>>
  /\ UNCHANGED <<temp, bak, request, erased>>

Shifting == step \in {"rotate", "copy", "copying", "replace"} /\ ~forget

\* A file operation raises, or the program is killed and started again.
Abandon ==
  /\ step # "idle"
  /\ step' = "idle"
  /\ held' = IF Shifting THEN <<>> ELSE held
  /\ UNCHANGED <<main, temp, bak, index, request, loaded, erased>>

\* The machine loses power before what was saved last has reached the disk.
PowerLoss ==
  /\ faulty /\ main \notin {Absent, Torn}
  /\ main' = Torn /\ step' = "idle"
  /\ held' = IF Shifting THEN <<>> ELSE held
  /\ UNCHANGED <<temp, bak, index, request, loaded, erased>>

Next ==
  /\ \/ \E v \in Values, f \in BOOLEAN : Save(v, f)
     \/ Written \/ Rotate \/ Copy \/ Replace \/ Purge \/ PurgeEnds
     \/ Load \/ Restore \/ Restored \/ Abandon \/ PowerLoss
  /\ UNCHANGED faulty

Spec == Init /\ [][Next]_vars

-----------------------------------------------------------------------------
(***************************************************************************)
(* Properties.                                                             *)
(***************************************************************************)
\* Every variable has its type.
TypeOK ==
  /\ faulty \in BOOLEAN /\ main \in Contents /\ temp \in Contents /\ bak \in [Slots -> Contents]
  /\ step \in Saving \cup Restoring \cup {"idle"} /\ index \in 0..Backups + 1
  /\ data \in Values \cup {Default} /\ forget \in BOOLEAN
  /\ todo \subseteq Slots /\ purged \in {"done", "failed", "unfinished"}
  /\ loaded \in {Nothing} \cup {<<v>> : v \in Values \cup {Default}}
  /\ held \in Seq(Contents) /\ Len(held) <= Backups /\ erased \subseteq Values

\* However a save is cut short, the file holds its old or its new value (save, "Atomic
\* write"): a program that was killed never finds the file missing or half written, and
\* on a machine that loses data a load returns it whole, restored, or the default.
Contract == INSTANCE AtomicFileContract WITH
  value <- IF main = Absent THEN Default ELSE main,
  Broken <- Torn,
  saving <- IF step \in Saving THEN <<data>> ELSE Nothing
KeepsContract == Contract!Spec

\* The backups are what the file held before each of the last saves, newest first, as
\* far back as no save was cut short (docs/TECHNICAL_SPECIFICATION.md, 14): damage to
\* the file costs one save.
BackupsAreHistory == step = "idle" => \A k \in DOMAIN held : bak[k] = held[k]

\* When a save that forgets the history has removed every backup, what was deleted is in
\* no file, whatever is saved, damaged or restored later.
DeletedIsGone ==
  purged = "done" => ({main} \cup {bak[k] : k \in Slots}) \cap erased = {}

\* What each step of an operation relies on: the temporary file holds what is saved, a
\* rotation found a file, and only a machine that loses data leaves it to be restored.
StepInv ==
  /\ step \in Saving => data \in Values
  /\ step \in {"rotate", "copy", "copying", "replace"} => temp = data
  /\ step \in {"rotate", "copy", "copying"} => ~forget /\ main # Absent
  /\ main = Torn \/ step \in Restoring => faulty
  /\ step \in {"rotate", "restoring"} => index \in Slots
  /\ step = "restore" => index >= 1
  /\ step = "restoring" => bak[index] \in Values

\* The backups above the i-th have moved on by one place.
Moved(i) ==
  \A k \in DOMAIN held : /\ k <= i => bak[k] = held[k]
                         /\ i < k /\ k < Backups => bak[k + 1] = held[k]

\* Where the history is while a save moves it.
HistoryInv ==
  /\ \A k \in DOMAIN held : held[k] # Absent
  /\ step \in {"idle", "write"} \cup Restoring => Moved(Backups)
  /\ step = "rotate" => Moved(index)
  /\ step \in {"copy", "copying"} => Moved(0)
  /\ step = "replace" => IF forget \/ main = Absent THEN Moved(Backups)
                         ELSE Moved(0) /\ bak[1] = main
  /\ step = "purge" => held = <<>>

\* How far a removal of the backups has come.
PurgeInv ==
  step = "purge" =>
    /\ main \notin erased /\ purged # "done"
    /\ purged = "unfinished" => \A k \in Slots \ todo : bak[k] = Absent

\* The types, the history in the backups, no trace of what was deleted, and what makes
\* them inductive (see FileProofs).
Inv == TypeOK /\ DeletedIsGone /\ BackupsAreHistory /\ StepInv /\ HistoryInv /\ PurgeInv

\* What was deleted is in no backup once the deletion is over, unless it was reported
\* that a backup could not be removed (save, docstring).
DeletedForGood ==
  purged # "failed" /\ step # "purge" => {bak[k] : k \in Slots} \cap erased = {}
=============================================================================
