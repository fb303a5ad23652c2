------------------------------ MODULE FileProofs ------------------------------
(***************************************************************************)
(* Theorems about the files that outlive the program: AtomicFile, the lock *)
(* of SingleInstance, and Reminders.                                       *)
(*                                                                         *)
(* For any values, any number of backups and on machines of both kinds Inv *)
(* (in AtomicFile) is inductive: each step of a save leaves the history at *)
(* a place that depends on how far the rotation has come. With it, every   *)
(* step of a save, a restore or a crash is one of AtomicFileContract, or   *)
(* none of its concern.                                                    *)
(*                                                                         *)
(* For any launches the lock file is that of its holder, on Windows. For   *)
(* any reminders and periods ReminderInv is inductive: MarkInv says of     *)
(* every copy of the file, also one on its way to be saved, that it marks  *)
(* only what was announced; OnceInv says what the loop has still to do     *)
(* with what it has said.                                                  *)
(***************************************************************************)
EXTENDS AtomicFile, SingleInstance, Reminders, TLAPS, FiniteSetTheorems, SequenceTheorems

LEMMA StringsDiffer == Torn # Absent /\ Torn \notin Values /\ Absent \notin Values
BY AtomicFileAssumption DEF Torn, Absent

\* What a save puts in front of the history, cut to the number of the backups.
LEMMA NewestProperties ==
  ASSUME NEW v \in Contents, held \in Seq(Contents), Len(held) <= Backups
  PROVE  LET h == Newest(<<v>> \o held) IN
         /\ h \in Seq(Contents) /\ Len(h) <= Backups
         /\ \A k \in DOMAIN h : \/ k = 1 /\ h[k] = v
                                \/ k > 1 /\ k - 1 \in DOMAIN held /\ h[k] = held[k - 1]
<1> DEFINE s == <<v>> \o held
           n == IF Len(s) < Backups THEN Len(s) ELSE Backups
<1>1. Backups \in Nat /\ Backups >= 1
  BY AtomicFileAssumption
<1>2. <<v>> \in Seq(Contents) /\ Len(<<v>>) = 1 /\ <<v>>[1] = v
  OBVIOUS
<1>3. /\ s \in Seq(Contents) /\ Len(s) = Len(held) + 1 /\ Len(held) \in Nat
      /\ \A k \in 1..Len(s) : s[k] = IF k <= 1 THEN v ELSE held[k - 1]
  <2>1. /\ s \in Seq(Contents) /\ Len(s) = Len(<<v>>) + Len(held)
        /\ \A k \in 1..(Len(<<v>>) + Len(held)) :
             s[k] = IF k <= Len(<<v>>) THEN <<v>>[k] ELSE held[k - Len(<<v>>)]
    BY <1>2, ConcatProperties
  <2>2. Len(held) \in Nat
    BY LenProperties
  <2> HIDE DEF s
  <2>3. ASSUME NEW k \in 1..Len(s) PROVE s[k] = IF k <= 1 THEN v ELSE held[k - 1]
    BY <1>2, <2>1, <2>2
  <2>4. QED
    BY <1>2, <2>1, <2>2, <2>3
<1> HIDE DEF s
<1>4. n \in 1..Len(s) /\ n <= Backups
  BY <1>1, <1>3
<1> HIDE DEF n
<1>5. /\ SubSeq(s, 1, n) \in Seq(Contents) /\ Len(SubSeq(s, 1, n)) = n
      /\ \A k \in 1..n : SubSeq(s, 1, n)[k] = s[k]
  <2>1. \A k \in 1..n : s[k] \in Contents
    BY <1>3, <1>4, ElementOfSeq
  <2>2. QED
    BY <1>3, <1>4, <2>1, SubSeqProperties
<1>6. Newest(s) = SubSeq(s, 1, n)
  BY DEF Newest, n
<1>7. DOMAIN Newest(s) = 1..n /\ DOMAIN held = 1..Len(held)
  BY <1>5, <1>6, LenProperties
<1>8. \A k \in 1..n : \/ k = 1 /\ s[k] = v
                      \/ k > 1 /\ k - 1 \in 1..Len(held) /\ s[k] = held[k - 1]
  BY <1>3, <1>4
<1>9. QED
  BY <1>4, <1>5, <1>6, <1>7, <1>8 DEF s

LEMMA InitInv == Init => Inv
<1> SUFFICES ASSUME Init PROVE Inv
  OBVIOUS
<1> USE AtomicFileAssumption, StringsDiffer DEF Init
<1>1. TypeOK
  <2>1. held \in Seq(Contents) /\ Len(held) <= Backups
    BY EmptySeq
  <2>2. 0 \in 0..Backups + 1
    OBVIOUS
  <2>3. QED
    BY <2>1, <2>2 DEF TypeOK, Contents, Nothing, Slots
<1>2. DeletedIsGone /\ BackupsAreHistory /\ PurgeInv
  BY DEF DeletedIsGone, BackupsAreHistory, PurgeInv
<1>3. StepInv /\ HistoryInv
  BY DEF StepInv, HistoryInv, Saving, Restoring, Moved
<1>4. QED
  BY <1>1, <1>2, <1>3 DEF Inv

LEMMA SaveKeepsInv ==
  ASSUME Inv, UNCHANGED faulty, NEW v \in Values, NEW f \in BOOLEAN, Save(v, f)
  PROVE  Inv'
<1> USE AtomicFileAssumption, StringsDiffer DEF Save, request, history
<1>1. TypeOK'
  BY DEF Inv, TypeOK, StepInv, Saving, Restoring, Contents, Slots
<1>2. DeletedIsGone' /\ PurgeInv'
  BY DEF Inv, TypeOK, DeletedIsGone, PurgeInv, StepInv, Saving, Restoring, Slots
<1>3. StepInv'
  BY DEF Inv, TypeOK, StepInv, Saving, Restoring, Contents, Slots
<1>4. HistoryInv' /\ BackupsAreHistory'
  BY DEF Inv, TypeOK, StepInv, HistoryInv, BackupsAreHistory, Moved, Saving, Restoring, Slots
<1>5. QED
  BY <1>1, <1>2, <1>3, <1>4 DEF Inv

LEMMA WrittenKeepsInv ==
  ASSUME Inv, UNCHANGED faulty, Written
  PROVE  Inv'
<1> USE AtomicFileAssumption, StringsDiffer DEF Written, request, history
<1>1. TypeOK'
  BY DEF Inv, TypeOK, StepInv, Saving, Restoring, Contents, Slots
<1>2. DeletedIsGone' /\ PurgeInv'
  BY DEF Inv, TypeOK, DeletedIsGone, PurgeInv, StepInv, Saving, Restoring, Slots
<1>3. StepInv'
  BY DEF Inv, TypeOK, StepInv, Saving, Restoring, Contents, Slots
<1>4. HistoryInv' /\ BackupsAreHistory'
  BY DEF Inv, TypeOK, StepInv, HistoryInv, BackupsAreHistory, Moved, Saving, Restoring, Slots
<1>5. QED
  BY <1>1, <1>2, <1>3, <1>4 DEF Inv

LEMMA RotateKeepsInv ==
  ASSUME Inv, UNCHANGED faulty, Rotate
  PROVE  Inv'
<1> USE AtomicFileAssumption, StringsDiffer DEF Rotate, Shifted, request, history
<1>1. TypeOK'
  BY DEF Inv, TypeOK, StepInv, Saving, Restoring, Contents, Slots
<1>2. DeletedIsGone' /\ PurgeInv'
  BY DEF Inv, TypeOK, DeletedIsGone, PurgeInv, StepInv, Saving, Restoring, Slots
<1>3. StepInv'
  BY DEF Inv, TypeOK, StepInv, Saving, Restoring, Contents, Slots
<1>4. HistoryInv' /\ BackupsAreHistory'
  <2>1. /\ index \in 1..Backups /\ Backups \in Nat \ {0} /\ bak \in [1..Backups -> Contents]
        /\ held \in Seq(Contents) /\ Len(held) <= Backups /\ step = "rotate"
    BY DEF Inv, TypeOK, StepInv, Slots
  <2>2. DOMAIN held \subseteq 1..Backups
    BY <2>1
  <2>3. Moved(index) /\ \A k \in DOMAIN held : held[k] # Absent
    BY <2>1 DEF Inv, HistoryInv
  <2>4. \A k \in DOMAIN held : /\ k <= index - 1 => bak'[k] = held[k]
                               /\ index - 1 < k /\ k < Backups => bak'[k + 1] = held[k]
    BY <2>1, <2>2, <2>3 DEF Moved
  <2>5. (\A k \in DOMAIN held : held[k] # Absent)'
    BY <2>3
  <2>6. \/ step' = "copy" /\ index - 1 = 0
        \/ step' = "rotate" /\ index' = index - 1
    BY <2>1
  <2>7. step' = "copy" => Moved(0)'
    BY <2>1, <2>2, <2>4, <2>6 DEF Moved
  <2>8. step' = "rotate" => Moved(index)'
    BY <2>4, <2>6 DEF Moved
  <2> QED
    BY <2>5, <2>6, <2>7, <2>8 DEF HistoryInv, BackupsAreHistory, Restoring
<1>5. QED
  BY <1>1, <1>2, <1>3, <1>4 DEF Inv

LEMMA CopyKeepsInv ==
  ASSUME Inv, UNCHANGED faulty, Copy
  PROVE  Inv'
<1> USE AtomicFileAssumption, StringsDiffer DEF Copy, request, history
<1>1. TypeOK'
  BY DEF Inv, TypeOK, StepInv, Saving, Restoring, Contents, Slots
<1>2. DeletedIsGone' /\ PurgeInv'
  BY DEF Inv, TypeOK, DeletedIsGone, PurgeInv, StepInv, Saving, Restoring, Slots
<1>3. StepInv'
  BY DEF Inv, TypeOK, StepInv, Saving, Restoring, Contents, Slots
<1>4. HistoryInv' /\ BackupsAreHistory'
  BY DEF Inv, TypeOK, StepInv, HistoryInv, BackupsAreHistory, Moved, Saving, Restoring, Slots
<1>5. QED
  BY <1>1, <1>2, <1>3, <1>4 DEF Inv

\* The file takes its place in front of the history at the moment it is replaced.
LEMMA ReplaceKeepsInv ==
  ASSUME Inv, UNCHANGED faulty, Replace
  PROVE  Inv'
<1> USE AtomicFileAssumption, StringsDiffer DEF Replace, InBackups
<1>0. /\ main' = data /\ data \in Values /\ main \in Contents
      /\ held \in Seq(Contents) /\ Len(held) <= Backups
  BY DEF Inv, TypeOK, StepInv, Saving
<1>1. /\ held' \in Seq(Contents) /\ Len(held') <= Backups
      /\ \/ forget /\ held' = <<>>
         \/ ~forget /\ main = Absent /\ held' = held
         \/ /\ ~forget /\ main # Absent
            /\ \A k \in DOMAIN held' :
                 \/ k = 1 /\ held'[k] = main
                 \/ k > 1 /\ k - 1 \in DOMAIN held /\ held'[k] = held[k - 1]
  <2>1. CASE forget
    BY <2>1, EmptySeq
  <2>2. CASE ~forget /\ main = Absent
    BY <1>0, <2>2
  <2>3. CASE ~forget /\ main # Absent
    <3>1. held' = Newest(<<main>> \o held)
      BY <2>3
    <3>2. QED
      BY <1>0, <2>3, <3>1, NewestProperties
  <2>4. QED
    BY <2>1, <2>2, <2>3
<1>2. TypeOK'
  <2>1. todo' \subseteq Slots /\ purged' \in {"done", "failed", "unfinished"}
    BY DEF Inv, TypeOK, Slots
  <2>2. step' \in Saving \cup Restoring \cup {"idle"}
    BY DEF Saving
  <2>3. erased' \subseteq Values
    BY DEF Inv, TypeOK
  <2>4. main' \in Contents /\ temp' \in Contents
    BY <1>0 DEF Contents
  <2>5. QED
    BY <1>1, <2>1, <2>2, <2>3, <2>4 DEF Inv, TypeOK
<1>3. DeletedIsGone' /\ PurgeInv'
  BY DEF Inv, TypeOK, DeletedIsGone, PurgeInv, StepInv, Saving, Restoring, Slots
<1>4. StepInv'
  BY DEF Inv, TypeOK, StepInv, Saving, Restoring, Contents, Slots
<1>5. \A k \in DOMAIN held' : held'[k] # Absent /\ k \in Slots /\ bak'[k] = held'[k]
  <2>1. \A k \in DOMAIN held' : k \in Slots
    BY <1>1, LenProperties DEF Slots
  <2>2. \A k \in DOMAIN held : held[k] # Absent
    BY DEF Inv, HistoryInv
  <2>3. CASE forget
    BY <1>1, <2>3
  <2>4. CASE ~forget /\ main = Absent
    BY <1>1, <2>1, <2>2, <2>4 DEF Inv, HistoryInv, Moved, Slots
  <2>5. CASE ~forget /\ main # Absent
    <3>1. Moved(0) /\ bak[1] = main
      BY <2>5 DEF Inv, HistoryInv
    <3>2. ASSUME NEW k \in DOMAIN held', k > 1
          PROVE  held'[k] = held[k - 1] /\ k - 1 \in DOMAIN held /\ bak[k] = held[k - 1]
      BY <1>1, <2>1, <2>5, <3>1, <3>2 DEF Moved, Slots
    <3>3. QED
      BY <1>1, <2>1, <2>2, <2>5, <3>1, <3>2
  <2>6. QED
    BY <2>3, <2>4, <2>5
<1>6. HistoryInv' /\ BackupsAreHistory'
  <2>1. step' = "purge" => held' = <<>>
    BY <1>1
  <2>2. Moved(Backups)'
    BY <1>5 DEF Moved, Slots
  <2>3. step' \in {"idle", "purge"}
    OBVIOUS
  <2>4. QED
    BY <1>5, <2>1, <2>2, <2>3 DEF HistoryInv, BackupsAreHistory, Restoring
<1>7. QED
  BY <1>2, <1>3, <1>4, <1>6 DEF Inv

LEMMA PurgeKeepsInv ==
  ASSUME Inv, UNCHANGED faulty, Purge
  PROVE  Inv'
<1> USE AtomicFileAssumption, StringsDiffer DEF Purge, history
<1>1. TypeOK'
  BY DEF Inv, TypeOK, StepInv, Saving, Restoring, Contents, Slots
<1>2. DeletedIsGone' /\ PurgeInv'
  BY DEF Inv, TypeOK, DeletedIsGone, PurgeInv, StepInv, Saving, Restoring, Slots
<1>3. StepInv'
  BY DEF Inv, TypeOK, StepInv, Saving, Restoring, Contents, Slots
<1>4. HistoryInv' /\ BackupsAreHistory'
  BY DEF Inv, TypeOK, StepInv, HistoryInv, BackupsAreHistory, Moved, Saving, Restoring, Slots
<1>5. QED
  BY <1>1, <1>2, <1>3, <1>4 DEF Inv

LEMMA PurgeEndsKeepsInv ==
  ASSUME Inv, UNCHANGED faulty, PurgeEnds
  PROVE  Inv'
<1> USE AtomicFileAssumption, StringsDiffer DEF PurgeEnds, history
<1>1. TypeOK'
  BY DEF Inv, TypeOK, StepInv, Saving, Restoring, Contents, Slots
<1>2. DeletedIsGone' /\ PurgeInv'
  BY DEF Inv, TypeOK, DeletedIsGone, PurgeInv, StepInv, Saving, Restoring, Slots
<1>3. StepInv'
  BY DEF Inv, TypeOK, StepInv, Saving, Restoring, Contents, Slots
<1>4. HistoryInv' /\ BackupsAreHistory'
  BY DEF Inv, TypeOK, StepInv, HistoryInv, BackupsAreHistory, Moved, Saving, Restoring, Slots
<1>5. QED
  BY <1>1, <1>2, <1>3, <1>4 DEF Inv

LEMMA LoadKeepsInv ==
  ASSUME Inv, UNCHANGED faulty, Load
  PROVE  Inv'
<1> USE AtomicFileAssumption, StringsDiffer DEF Load, request
<1>1. TypeOK'
  BY DEF Inv, TypeOK, StepInv, Saving, Restoring, Contents, Slots
<1>2. DeletedIsGone' /\ PurgeInv'
  BY DEF Inv, TypeOK, DeletedIsGone, PurgeInv, StepInv, Saving, Restoring, Slots
<1>3. StepInv'
  BY DEF Inv, TypeOK, StepInv, Saving, Restoring, Contents, Slots
<1>4. HistoryInv' /\ BackupsAreHistory'
  BY DEF Inv, TypeOK, StepInv, HistoryInv, BackupsAreHistory, Moved, Saving, Restoring, Slots
<1>5. QED
  BY <1>1, <1>2, <1>3, <1>4 DEF Inv

LEMMA RestoreKeepsInv ==
  ASSUME Inv, UNCHANGED faulty, Restore
  PROVE  Inv'
<1> USE AtomicFileAssumption, StringsDiffer DEF Restore, request
<1>1. TypeOK'
  BY DEF Inv, TypeOK, StepInv, Saving, Restoring, Contents, Slots
<1>2. DeletedIsGone' /\ PurgeInv'
  BY DEF Inv, TypeOK, DeletedIsGone, PurgeInv, StepInv, Saving, Restoring, Slots
<1>3. StepInv'
  BY DEF Inv, TypeOK, StepInv, Saving, Restoring, Contents, Slots
<1>4. HistoryInv' /\ BackupsAreHistory'
  BY DEF Inv, TypeOK, StepInv, HistoryInv, BackupsAreHistory, Moved, Saving, Restoring, Slots
<1>5. QED
  BY <1>1, <1>2, <1>3, <1>4 DEF Inv

LEMMA RestoredKeepsInv ==
  ASSUME Inv, UNCHANGED faulty, Restored
  PROVE  Inv'
<1> USE AtomicFileAssumption, StringsDiffer DEF Restored, request
<1>1. TypeOK'
  <2>1. /\ step = "restoring" /\ index \in Slots /\ index + 1 \in 0..Backups + 1
        /\ bak[index] \in Values
    BY DEF Inv, TypeOK, StepInv, Slots
  <2>2. /\ main' \in Contents /\ index' \in 0..Backups + 1
        /\ loaded' \in {Nothing} \cup {<<v>> : v \in Values \cup {Default}}
    BY <2>1 DEF Inv, TypeOK, Contents
  <2>3. held' \in Seq(Contents) /\ Len(held') <= Backups
    <3>1. held' = <<>> \/ held' = held
      OBVIOUS
    <3>2. Len(<<>>) <= Backups /\ <<>> \in Seq(Contents)
      OBVIOUS
    <3>3. QED
      BY <3>1, <3>2 DEF Inv, TypeOK
  <2>4. QED
    BY <2>1, <2>2, <2>3 DEF Inv, TypeOK, Restoring
<1>2. DeletedIsGone' /\ PurgeInv'
  BY DEF Inv, TypeOK, DeletedIsGone, PurgeInv, StepInv, Saving, Restoring, Slots
<1>3. StepInv'
  BY DEF Inv, TypeOK, StepInv, Saving, Restoring, Contents, Slots
<1>4. HistoryInv' /\ BackupsAreHistory'
  BY DEF Inv, TypeOK, StepInv, HistoryInv, BackupsAreHistory, Moved, Saving, Restoring, Slots
<1>5. QED
  BY <1>1, <1>2, <1>3, <1>4 DEF Inv

LEMMA AbandonKeepsInv ==
  ASSUME Inv, UNCHANGED faulty, Abandon
  PROVE  Inv'
<1> USE AtomicFileAssumption, StringsDiffer DEF Abandon, Shifting, request
<1>1. TypeOK'
  BY DEF Inv, TypeOK, StepInv, Saving, Restoring, Contents, Slots
<1>2. DeletedIsGone' /\ PurgeInv'
  BY DEF Inv, TypeOK, DeletedIsGone, PurgeInv, StepInv, Saving, Restoring, Slots
<1>3. StepInv'
  BY DEF Inv, TypeOK, StepInv, Saving, Restoring, Contents, Slots
<1>4. HistoryInv' /\ BackupsAreHistory'
  BY DEF Inv, TypeOK, StepInv, HistoryInv, BackupsAreHistory, Moved, Saving, Restoring, Slots
<1>5. QED
  BY <1>1, <1>2, <1>3, <1>4 DEF Inv

LEMMA PowerLossKeepsInv ==
  ASSUME Inv, UNCHANGED faulty, PowerLoss
  PROVE  Inv'
<1> USE AtomicFileAssumption, StringsDiffer DEF PowerLoss, Shifting, request
<1>1. TypeOK'
  BY DEF Inv, TypeOK, StepInv, Saving, Restoring, Contents, Slots
<1>2. DeletedIsGone' /\ PurgeInv'
  BY DEF Inv, TypeOK, DeletedIsGone, PurgeInv, StepInv, Saving, Restoring, Slots
<1>3. StepInv'
  BY DEF Inv, TypeOK, StepInv, Saving, Restoring, Contents, Slots
<1>4. HistoryInv' /\ BackupsAreHistory'
  BY DEF Inv, TypeOK, StepInv, HistoryInv, BackupsAreHistory, Moved, Saving, Restoring, Slots
<1>5. QED
  BY <1>1, <1>2, <1>3, <1>4 DEF Inv

LEMMA NextKeepsInv == Inv /\ [Next]_vars => Inv'
<1> SUFFICES ASSUME Inv, [Next]_vars PROVE Inv'
  OBVIOUS
<1>1. CASE Next
  <2>1. UNCHANGED faulty
    BY <1>1 DEF Next
  <2>2. ASSUME NEW v \in Values, NEW f \in BOOLEAN, Save(v, f) PROVE Inv'
    BY <2>1, <2>2, SaveKeepsInv
  <2>3. CASE Written \/ Rotate \/ Copy \/ Replace
    BY <2>1, <2>3, WrittenKeepsInv, RotateKeepsInv, CopyKeepsInv, ReplaceKeepsInv
  <2>4. CASE Purge \/ PurgeEnds
    BY <2>1, <2>4, PurgeKeepsInv, PurgeEndsKeepsInv
  <2>5. CASE Load \/ Restore \/ Restored
    BY <2>1, <2>5, LoadKeepsInv, RestoreKeepsInv, RestoredKeepsInv
  <2>6. CASE Abandon \/ PowerLoss
    BY <2>1, <2>6, AbandonKeepsInv, PowerLossKeepsInv
  <2>7. QED
    BY <1>1, <2>2, <2>3, <2>4, <2>5, <2>6 DEF Next
<1>2. CASE UNCHANGED vars
  BY <1>2 DEF vars, Inv, TypeOK, DeletedIsGone, BackupsAreHistory, StepInv, HistoryInv,
              PurgeInv, Moved
<1>3. QED
  BY <1>1, <1>2

-----------------------------------------------------------------------------
\* The refinement: what the contract calls the value and the save in progress.
valueBar == IF main = Absent THEN Default ELSE main
savingBar == IF step \in Saving THEN <<data>> ELSE Nothing

LEMMA InitContract == Init => Contract!Init
BY DEF Init, Contract!Init, Contract!Nothing, Nothing, Saving

LEMMA NextRefines ==
  Inv /\ [Next]_vars => [Contract!Next]_<<faulty, valueBar, savingBar, loaded>>
<1> SUFFICES ASSUME Inv, [Next]_vars
             PROVE  Contract!Next \/ UNCHANGED <<faulty, valueBar, savingBar, loaded>>
  OBVIOUS
<1> USE AtomicFileAssumption, StringsDiffer
    DEF Inv, TypeOK, StepInv, valueBar, savingBar, Saving, Restoring, Nothing, request, history
<1>1. ASSUME NEW v \in Values, NEW f \in BOOLEAN, Save(v, f), UNCHANGED faulty
      PROVE  Contract!Next
  BY <1>1 DEF Save, Contract!Next, Contract!Begin, Contract!Nothing
<1>2. CASE (Written \/ Rotate \/ Copy \/ Purge) /\ UNCHANGED faulty
  BY <1>2 DEF Written, Rotate, Copy, Purge
<1>3. CASE Replace /\ UNCHANGED faulty
  BY <1>3 DEF Replace, Contract!Next, Contract!Take, Contract!Nothing
<1>4. CASE PurgeEnds /\ UNCHANGED faulty
  BY <1>4 DEF PurgeEnds, Contract!Next, Contract!Finish, Contract!Nothing
<1>5. CASE Load /\ UNCHANGED faulty
  BY <1>5 DEF Load, Contract!Next, Contract!Load
<1>6. CASE Restore /\ UNCHANGED faulty
  BY <1>6 DEF Restore, Contract!Next, Contract!Break, Contract!Restore, Contract!Nothing
<1>7. CASE Restored /\ UNCHANGED faulty
  BY <1>7 DEF Restored, Contract!Next, Contract!Restore, Contract!Nothing
<1>8. CASE Abandon /\ UNCHANGED faulty
  BY <1>8 DEF Abandon, Contract!Next, Contract!Finish, Contract!Nothing
<1>9. CASE PowerLoss /\ UNCHANGED faulty
  BY <1>9 DEF PowerLoss, Contract!Next, Contract!Break, Contract!Nothing
<1>10. CASE UNCHANGED vars
  BY <1>10 DEF vars
<1>11. QED
  BY <1>1, <1>2, <1>3, <1>4, <1>5, <1>6, <1>7, <1>8, <1>9, <1>10 DEF Next

-----------------------------------------------------------------------------
\* Wherever saves, restores and removals are cut short: the backups are the history,
\* newest first, and what was deleted for good is in no file (save, _rotate_backups,
\* purge_backups, load).
THEOREM HistoryIsKept == Spec => []Inv
BY InitInv, NextKeepsInv, PTL DEF Spec

\* A value is replaced as a whole or not at all, and only a machine that loses what was
\* written can break the file (save, "Atomic write"; load).
THEOREM Refinement == Spec => KeepsContract
<1>1. Inv /\ [Next]_vars => [Contract!Next]_(Contract!vars)
  BY NextRefines DEF Contract!vars, valueBar, savingBar
<1>2. QED
  BY <1>1, InitContract, HistoryIsKept, PTL DEF Spec, KeepsContract, Contract!Spec

(***************************************************************************)
(* The lock file, for any number of launches and of attempts: the types,   *)
(* and on Windows that the program runs once.  What is inductive is        *)
(* HolderOwnsLock: a launch makes the file only where there is none and    *)
(* holds it open until it gives it back, and a file held open is not       *)
(* removed.                                                                *)
(***************************************************************************)
LEMMA LockInitTypes == LockInit => LockTypeOK
<1> SUFFICES ASSUME LockInit PROVE LockTypeOK
  OBVIOUS
<1>1. pc \in [Processes -> Acquiring \cup Releasing \cup Ended \cup {"running"}]
  BY DEF LockInit, Ended
<1>2. tries \in [Processes -> 0..Attempts]
  BY SingleInstanceAssumption DEF LockInit
<1>3. full \in BOOLEAN /\ recent \in BOOLEAN
  BY Zenon DEF LockInit
<1>4. /\ lock \in Processes \cup {NoLock, Gone}
      /\ open \subseteq Processes /\ alone \subseteq Processes
  BY DEF LockInit
<1> QED
  BY <1>1, <1>2, <1>3, <1>4 DEF LockTypeOK

LEMMA LockStepTypes == LockTypeOK /\ [LockNext]_lockVars => LockTypeOK'
<1> SUFFICES ASSUME LockTypeOK, [LockNext]_lockVars PROVE LockTypeOK'
  OBVIOUS
<1> USE SingleInstanceAssumption DEF LockTypeOK, Go, lockFile, Acquiring, Releasing, Ended
<1>1. ASSUME NEW p \in Processes, Start(p) PROVE LockTypeOK'
  BY <1>1 DEF Start
<1>2. ASSUME NEW p \in Processes, Make(p) PROVE LockTypeOK'
  <2>1. tries' \in [Processes -> 0..Attempts]
    <3>1. tries[p] > 0 => tries[p] - 1 \in 0..Attempts
      OBVIOUS
    <3> QED
      BY <1>2, <3>1 DEF Make
  <2>2. pc' \in [Processes -> Acquiring \cup Releasing \cup Ended \cup {"running"}]
    BY <1>2 DEF Make
  <2>3. \/ UNCHANGED lockFile
        \/ lock' = p /\ full' = FALSE /\ recent' = TRUE /\ open' = open \cup {p}
    BY <1>2 DEF Make
  <2> QED
    BY <1>2, <2>1, <2>2, <2>3 DEF Make
<1>3. ASSUME NEW p \in Processes, Check(p) PROVE LockTypeOK'
  BY <1>3 DEF Check
<1>4. ASSUME NEW p \in Processes, Age(p) PROVE LockTypeOK'
  BY <1>4 DEF Age
<1>5. ASSUME NEW p \in Processes, Unlink(p) PROVE LockTypeOK'
  BY <1>5 DEF Unlink
<1>6. ASSUME NEW p \in Processes, Write(p) PROVE LockTypeOK'
  BY <1>6 DEF Write
<1>7. ASSUME NEW p \in Processes, Release(p) PROVE LockTypeOK'
  BY <1>7 DEF Release
<1>8. ASSUME NEW p \in Processes, Token(p) PROVE LockTypeOK'
  BY <1>8 DEF Token
<1>9. ASSUME NEW p \in Processes, TakeAway(p) PROVE LockTypeOK'
  BY <1>9 DEF TakeAway
<1>10. ASSUME NEW p \in Processes, Crash(p) PROVE LockTypeOK'
  BY <1>10 DEF Crash
<1>11. CASE Pass
  BY <1>11 DEF Pass
<1>12. CASE UNCHANGED lockVars
  BY <1>12 DEF lockVars
<1> QED
  BY <1>1, <1>2, <1>3, <1>4, <1>5, <1>6, <1>7, <1>8, <1>9, <1>10, <1>11, <1>12 DEF LockNext, Step

\* Every variable has its type, on either operating system.
THEOREM LockTypesHold == LockSpec => []LockTypeOK
BY LockInitTypes, LockStepTypes, PTL DEF LockSpec

\* The file belongs to the process that holds it open.
LEMMA InitHolder == LockInit => HolderOwnsLock
BY DEF LockInit, HolderOwnsLock, Running

LEMMA StepHolder ==
  ASSUME Windows
  PROVE  LockTypeOK /\ HolderOwnsLock /\ [LockNext]_lockVars => HolderOwnsLock'
<1> SUFFICES ASSUME LockTypeOK, HolderOwnsLock, [LockNext]_lockVars PROVE HolderOwnsLock'
  OBVIOUS
<1> USE SingleInstanceAssumption DEF LockTypeOK, HolderOwnsLock, Running, Go, lockFile
<1>1. ASSUME NEW p \in Processes, Start(p) PROVE HolderOwnsLock'
  BY <1>1 DEF Start
<1>2. ASSUME NEW p \in Processes, Make(p) PROVE HolderOwnsLock'
  BY <1>2 DEF Make
<1>3. ASSUME NEW p \in Processes, Check(p) PROVE HolderOwnsLock'
  BY <1>3 DEF Check
<1>4. ASSUME NEW p \in Processes, Age(p) PROVE HolderOwnsLock'
  BY <1>4 DEF Age
<1>5. ASSUME NEW p \in Processes, Unlink(p) PROVE HolderOwnsLock'
  BY <1>5 DEF Unlink, Removable
<1>6. ASSUME NEW p \in Processes, Write(p) PROVE HolderOwnsLock'
  BY <1>6 DEF Write
<1>7. ASSUME NEW p \in Processes, Release(p) PROVE HolderOwnsLock'
  BY <1>7 DEF Release
<1>8. ASSUME NEW p \in Processes, Token(p) PROVE HolderOwnsLock'
  BY <1>8 DEF Token
<1>9. ASSUME NEW p \in Processes, TakeAway(p) PROVE HolderOwnsLock'
  BY <1>9 DEF TakeAway, Removable
<1>10. ASSUME NEW p \in Processes, Crash(p) PROVE HolderOwnsLock'
  BY <1>10 DEF Crash, Ended
<1>11. CASE Pass
  BY <1>11 DEF Pass
<1>12. CASE UNCHANGED lockVars
  BY <1>12 DEF lockVars
<1> QED
  BY <1>1, <1>2, <1>3, <1>4, <1>5, <1>6, <1>7, <1>8, <1>9, <1>10, <1>11, <1>12 DEF LockNext, Step

\* On Windows the lock file is that of the process which makes it or runs.
THEOREM HoldersOwnTheLock == ASSUME Windows PROVE LockSpec => []LockIInv
<1>1. LockInit => LockIInv
  BY LockInitTypes, InitHolder DEF LockIInv
<1>2. LockIInv /\ [LockNext]_lockVars => LockIInv'
  BY LockStepTypes, StepHolder DEF LockIInv
<1> QED
  BY <1>1, <1>2, PTL DEF LockSpec

\* On Windows at most one instance of the program runs, whatever the number of launches
\* and the order of their steps, crashes included; and the lock file is that instance's.
THEOREM Exclusion == ASSUME Windows PROVE LockSpec => []LockInv
<1>1. LockIInv => LockInv
  BY DEF LockInv, LockIInv, HolderOwnsLock, OneInstance, Running
<1> QED
  BY HoldersOwnTheLock, <1>1, PTL

(***************************************************************************)
(* A launch that is alone finds at most what a crash has left: its maker   *)
(* does not live and has it no longer open, so that it is removed, and of  *)
(* two attempts the second makes a new one.                                *)
(***************************************************************************)
Before == {"open", "check", "age", "unlink"}
Looking(p) ==
  /\ pc[p] = "open" => tries[p] = Attempts \/ (tries[p] = Attempts - 1 /\ lock = NoLock)
  /\ pc[p] \in {"check", "age", "unlink"} => tries[p] = Attempts - 1
  /\ pc[p] = "age" => ~OwnerWritten
AloneInv ==
  /\ \A p \in Processes : p \in open => pc[p] \in {"write", "running"}
  /\ \A p \in Processes : pc[p] \in Before \cup {"off"} => lock # p
  /\ \A p \in alone : Looking(p) /\ \A q \in Processes : q # p => pc[q] \in Ended

LEMMA StepAlone ==
  ASSUME LockTypeOK, AloneInv, [LockNext]_lockVars
  PROVE  AloneInv'
<1> USE SingleInstanceAssumption DEF LockTypeOK, Go, lockFile
<1> USE DEF Before
<1>1. \A p \in Processes : p \in open' => pc'[p] \in {"write", "running"}
  BY DEF AloneInv, LockNext, Step, Start, Make, Check, Age, Unlink, Write, Release, Token,
         TakeAway, Crash, Pass, lockVars, Ended
<1>2. \A p \in Processes : pc'[p] \in Before \cup {"off"} => lock' # p
  BY DEF AloneInv, LockNext, Step, Start, Make, Check, Age, Unlink, Write, Release, Token,
         TakeAway, Crash, Pass, lockVars, Ended
<1>3. ASSUME NEW p \in alone'
      PROVE  Looking(p)' /\ \A q \in Processes : q # p => pc'[q] \in Ended
  <2>1. p \in Processes
    BY <1>3, LockStepTypes
  <2>2. CASE \E q \in Processes : Start(q)
    <3>1. PICK q \in Processes : Start(q)
      BY <2>2
    <3>2. p = q /\ Alive = {}
      BY <1>3, <3>1 DEF Start
    <3>3. \A r \in Processes : r # p => pc'[r] \in Ended
      BY <3>1, <3>2 DEF Start, Alive
    <3>4. pc'[p] = "open" /\ tries'[p] = Attempts
      BY <3>1, <3>2 DEF Start
    <3> QED
      BY <3>3, <3>4 DEF Looking
  <2>3. CASE ~\E q \in Processes : Start(q)
    <3>1. /\ p \in alone /\ Looking(p) /\ \A q \in Processes : q # p => pc[q] \in Ended
      BY <1>3, <2>3 DEF AloneInv, LockNext, Step, Make, Check, Age, Unlink, Write, Release, Token,
                        TakeAway, Crash, Pass, lockVars
    <3>2. \A q \in Processes : q # p => ~Step(q)
      BY <2>3, <3>1 DEF Step, Make, Check, Age, Unlink, Write, Release, Token, TakeAway, Crash,
                        Ended
    <3>3. Step(p) \/ Pass \/ UNCHANGED lockVars
      BY <2>1, <3>2 DEF LockNext
    <3>4. \A q \in Processes : q # p => pc'[q] \in Ended
      BY <2>1, <2>3, <3>1, <3>3
         DEF Step, Make, Check, Age, Unlink, Write, Release, Token, TakeAway, Crash, Pass, lockVars
    <3>5. Looking(p)'
      BY <2>1, <2>3, <3>1, <3>3
         DEF Looking, OwnerWritten, Step, Make, Check, Age, Unlink, Write, Release, Token, TakeAway,
             Crash, Pass, lockVars
    <3> QED
      BY <3>4, <3>5
  <2> QED
    BY <2>2, <2>3
<1> QED
  BY <1>1, <1>2, <1>3 DEF AloneInv

\* What a crash leaves behind does not keep the program from starting again, on either
\* operating system, if a launch may try twice: it is refused only while a lock is so young
\* that its maker might still write in it (acquire, _lock_is_recent).
THEOREM CrashesLetIn == ASSUME Attempts > 1 PROVE LockSpec => AloneGetsIn
<1>1. LockInit => AloneInv
  BY SingleInstanceAssumption DEF LockInit, AloneInv
<1>2. LockTypeOK /\ AloneInv /\ [LockNext]_lockVars => AloneInv'
  BY StepAlone
<1>3. ASSUME LockTypeOK, AloneInv, [LockNext]_lockVars, NEW p \in alone,
             pc[p] # "refused", pc'[p] = "refused"
      PROVE  recent /\ ~full
  <2>1. p \in Processes /\ Looking(p) /\ \A q \in Processes : q # p => pc[q] \in Ended
    BY <1>3 DEF LockTypeOK, AloneInv
  <2>2. Step(p)
    <3>1. PICK q \in Processes : Step(q)
      BY <1>3 DEF LockNext, Pass, lockVars
    <3>2. q # p => pc'[p] = pc[p]
      BY <1>3, <2>1, <3>1 DEF LockTypeOK, Step, Start, Make, Check, Age, Unlink, Write, Release,
                              Token, TakeAway, Crash, Go
    <3> QED
      BY <1>3, <3>1, <3>2
  <2>3. Make(p) \/ Check(p) \/ Age(p) \/ Unlink(p)
    BY <1>3, <2>1, <2>2 DEF LockTypeOK, Step, Start, Make, Check, Age, Unlink, Write, Release,
                            Token, TakeAway, Crash, Go, Ended
  <2>4. ~Make(p)
    BY <1>3, <2>1, SingleInstanceAssumption DEF Make, Go, Looking, LockTypeOK
  <2>5. ~Check(p)
    BY <1>3, <2>1, SingleInstanceAssumption DEF Check, Go, AloneInv, Alive, Before, LockTypeOK
  <2>6. ~Unlink(p)
    BY <1>3, <2>1 DEF Unlink, Go, Removable, AloneInv, Ended, LockTypeOK
  <2>7. CASE Age(p)
    BY <1>3, <2>1, <2>7 DEF Age, Go, Looking, OwnerWritten, LockTypeOK
  <2> QED
    BY <2>3, <2>4, <2>5, <2>6, <2>7
<1>4. LockTypeOK /\ AloneInv /\ [LockNext]_lockVars
      => [\A p \in alone : pc[p] # "refused" /\ pc'[p] = "refused" => recent /\ ~full]_lockVars
  BY <1>3
<1> QED
  BY <1>1, <1>2, <1>4, LockTypesHold, PTL DEF LockSpec, AloneGetsIn

(***************************************************************************)
(* Reminders, for any file of an earlier session and any bounds.           *)
(* ReminderInv is inductive: MarkInv says that what is loaded, changed and *)
(* not yet saved marks nothing that was not announced, so that it does not *)
(* matter whose save comes last; OnceInv says, until the user's first      *)
(* command, that what was said of a reminder is behind it in the file,     *)
(* unless its mark is on the way.                                          *)
(***************************************************************************)
(***************************************************************************)
(* What the store's operations do to one reminder.                         *)
(***************************************************************************)
LEMMA StepsPast ==
  ASSUME NEW a \in Int, NEW b \in Nat, b # 0, NEW now \in Int, a <= now
  PROVE  /\ a + b * ((now - a) \div b + 1) \in Int
         /\ a + b * ((now - a) \div b + 1) > now
<1> DEFINE q == (now - a) \div b
<1>1. q \in Int /\ now - a < b * (q + 1)
  OBVIOUS
<1>2. b * (q + 1) \in Int
  BY <1>1
<1> QED
  BY <1>1, <1>2

\* The next time of a recurring reminder lies ahead (ReminderStore._next_due).
LEMMA NextDueIsAhead ==
  ASSUME clock \in Int, NEW r \in Reminder, r.every # 0
  PROVE  NextDue(r) \in Int /\ NextDue(r) > clock /\ NextDue(r) >= r.due
<1>1. r.due \in Int /\ r.every \in Nat
  BY RemindersAssumption DEF Reminder
<1>2. CASE clock < r.due
  BY <1>1, <1>2 DEF NextDue
<1>3. CASE ~(clock < r.due)
  <2>1. r.due <= clock
    BY <1>1, <1>3
  <2> DEFINE there == r.due + r.every * ((clock - r.due) \div r.every + 1)
  <2>2. there \in Int /\ there > clock
    BY <1>1, <2>1, StepsPast
  <2>3. NextDue(r) = there
    BY <1>3 DEF NextDue
  <2> HIDE DEF there
  <2> QED
    BY <1>1, <2>1, <2>2, <2>3
<1> QED
  BY <1>2, <1>3

LEMMA OverProperties ==
  ASSUME clock \in Int, NEW r \in Reminder, NEW status \in Statuses
  PROVE  /\ Over(r, status) \in Reminder
         /\ Over(r, status).id = r.id
         /\ Over(r, status).status \in {r.status, status}
         /\ status # "pending" /\ r.due <= clock =>
              (Over(r, status).status = "pending" =>
                 r.due < Over(r, status).due /\ clock < Over(r, status).due)
<1>1. CASE r.every = 0 \/ status = "cancelled"
  BY <1>1 DEF Over, Reminder
<1>2. CASE ~(r.every = 0 \/ status = "cancelled")
  <2>1. Over(r, status) = [r EXCEPT !.due = NextDue(r)]
    BY <1>2 DEF Over
  <2>2. NextDue(r) \in Int /\ NextDue(r) > clock
    BY <1>2, NextDueIsAhead
  <2>3. /\ Over(r, status) \in Reminder /\ Over(r, status).id = r.id
        /\ Over(r, status).status = r.status /\ Over(r, status).due = NextDue(r)
    BY <2>1, <2>2 DEF Reminder
  <2>4. r.due \in Int
    BY DEF Reminder
  <2> QED
    BY <2>2, <2>3, <2>4
<1> QED
  BY <1>1, <1>2

LEMMA ElementsOf ==
  ASSUME NEW S, NEW f \in Seq(S)
  PROVE  /\ \A x \in ToSet(f) : x \in S /\ \E k \in DOMAIN f : f[k] = x
         /\ \A k \in DOMAIN f : f[k] \in ToSet(f) /\ f[k] \in S
         /\ DOMAIN f = 1..Len(f) /\ Len(f) \in Nat
BY DEF ToSet

\* The change goes through the whole file and leaves each reminder in its place.
LEMMA EachProperties ==
  ASSUME clock \in Int, NEW f \in Files, NEW S, NEW status \in Statuses
  PROVE  /\ Each(f, S, status) \in Files
         /\ DOMAIN Each(f, S, status) = DOMAIN f /\ Len(Each(f, S, status)) = Len(f)
         /\ \A k \in DOMAIN f :
              Each(f, S, status)[k] = IF f[k] \in S THEN Over(f[k], status) ELSE f[k]
         /\ \A k \in DOMAIN f : Each(f, S, status)[k].id = f[k].id
<1> DEFINE g == Each(f, S, status)
<1>1. /\ \A k \in DOMAIN f : f[k] \in Reminder
      /\ DOMAIN f = 1..Len(f) /\ Len(f) \in Nat
  BY ElementsOf DEF Files
<1>2. g = [k \in DOMAIN f |-> IF f[k] \in S THEN Over(f[k], status) ELSE f[k]]
  BY DEF Each
<1>3. \A k \in DOMAIN f : /\ g[k] \in Reminder /\ g[k].id = f[k].id
                          /\ g[k] = IF f[k] \in S THEN Over(f[k], status) ELSE f[k]
  BY <1>1, <1>2, OverProperties
<1>4. g \in [1..Len(f) -> Reminder]
  BY <1>1, <1>2, <1>3
<1>5. g \in Seq(Reminder) /\ Len(g) = Len(f)
  BY <1>1, <1>4
<1> QED
  BY <1>1, <1>2, <1>3, <1>5 DEF Files

\* A change marks as triggered nothing but what it is told to.
LEMMA EachMarks ==
  ASSUME clock \in Int, NEW f \in Files, NEW S, NEW status \in Statuses,
         NEW done, OnlyMarks(f, done), status = "triggered" => \A r \in S : r.id \in done
  PROVE  OnlyMarks(Each(f, S, status), done)
<1> DEFINE g == Each(f, S, status)
<1>1. g \in Files /\ DOMAIN g = DOMAIN f
  BY EachProperties
<1> SUFFICES ASSUME NEW k \in DOMAIN f, g[k].status = "triggered" PROVE g[k].id \in done
  BY <1>1, ElementsOf DEF Files, OnlyMarks
<1>2. f[k] \in Reminder /\ f[k] \in ToSet(f)
  BY ElementsOf DEF Files
<1>3. g[k] = IF f[k] \in S THEN Over(f[k], status) ELSE f[k]
  BY EachProperties
<1>4. CASE f[k] \in S
  BY <1>2, <1>3, <1>4, OverProperties DEF OnlyMarks
<1>5. CASE f[k] \notin S
  BY <1>2, <1>3, <1>5 DEF OnlyMarks
<1> QED
  BY <1>4, <1>5

\* The list of what is due holds each of them, in the order of the file.
LEMMA ListedProperties ==
  ASSUME NEW f \in Files, NEW S \in SUBSET ToSet(f), NEW l \in Listed(S)
  PROVE  /\ l \in Files /\ \A i \in DOMAIN l : l[i] \in S
         /\ \A i, j \in DOMAIN l : i < j => l[i].id < l[j].id
<1>1. IsFiniteSet(ToSet(f))
  <2>1. f \in Seq(ToSet(f))
    BY ElementsOf DEF Files
  <2>2. \A x \in ToSet(f) : \E k \in 1..Len(f) : f[k] = x
    BY ElementsOf DEF Files
  <2> QED
    BY <2>1, <2>2 DEF IsFiniteSet
<1>2. Cardinality(S) \in Nat
  BY <1>1, FS_Subset, FS_CardinalityType
<1>3. l \in [1..Cardinality(S) -> S] /\ \A i, j \in DOMAIN l : i < j => l[i].id < l[j].id
  BY DEF Listed
<1>4. S \subseteq Reminder
  BY ElementsOf DEF Files
<1>5. l \in Seq(Reminder)
  BY <1>2, <1>3, <1>4
<1> QED
  BY <1>3, <1>5 DEF Files

LEMMA RestOf ==
  ASSUME NEW l \in Files, l # <<>>
  PROVE  /\ Head(l) = l[1] /\ Head(l) \in Reminder /\ 1 \in DOMAIN l
         /\ Tail(l) \in Files
         /\ \A i \in DOMAIN Tail(l) : i + 1 \in DOMAIN l /\ Tail(l)[i] = l[i + 1]
         /\ Tail(l) = <<>> <=> Len(l) = 1
<1>1. l \in Seq(Reminder) /\ Len(l) \in Nat /\ Len(l) >= 1 /\ DOMAIN l = 1..Len(l)
  BY DEF Files
<1>2. /\ Head(l) \in Reminder /\ Tail(l) \in Seq(Reminder) /\ Len(Tail(l)) = Len(l) - 1
      /\ \A i \in 1..Len(Tail(l)) : Tail(l)[i] = l[i + 1]
  BY <1>1, HeadTailProperties
<1>3. Head(l) = l[1]
  BY <1>1
<1>4. DOMAIN Tail(l) = 1..Len(Tail(l))
  BY <1>2
<1>5. Tail(l) = <<>> <=> Len(Tail(l)) = 0
  BY <1>2
<1> QED
  BY <1>1, <1>2, <1>3, <1>4, <1>5 DEF Files

LEMMA AddedTo ==
  ASSUME NEW f \in Files, NEW r \in Reminder
  PROVE  /\ Append(f, r) \in Files
         /\ \A x \in ToSet(Append(f, r)) : x \in ToSet(f) \/ x = r
<1>1. /\ Append(f, r) \in Seq(Reminder) /\ Len(Append(f, r)) = Len(f) + 1
      /\ \A i \in 1..Len(f) : Append(f, r)[i] = f[i]
      /\ Append(f, r)[Len(f) + 1] = r
  BY AppendProperties DEF Files
<1>2. Len(f) \in Nat /\ DOMAIN f = 1..Len(f)
  BY DEF Files
<1>3. ASSUME NEW x \in ToSet(Append(f, r)) PROVE x \in ToSet(f) \/ x = r
  <2>1. PICK k \in DOMAIN Append(f, r) : x = Append(f, r)[k]
    BY DEF ToSet
  <2>3. k \in 1..(Len(f) + 1)
    BY <1>1
  <2>2. k \in 1..Len(f) \/ k = Len(f) + 1
    BY <1>2, <2>3
  <2> QED
    BY <1>1, <1>2, <2>1, <2>2, ElementsOf DEF Files
<1> QED
  BY <1>1, <1>3 DEF Files

(***************************************************************************)
(* Types.                                                                  *)
(***************************************************************************)
LEMMA Bounds ==
  /\ MaxReminders \in Nat /\ MaxChanges \in Nat /\ MaxCrashes \in Nat /\ MaxTime \in Nat
  /\ Periods \subseteq Nat
BY RemindersAssumption

LEMMA One ==
  ASSUME NEW x
  PROVE  /\ <<x>> # <<>> /\ Len(<<x>>) = 1 /\ <<x>>[1] = x /\ DOMAIN <<x>> = {1}
         /\ ToSet(<<x>>) = {x} /\ \A S : x \in S => <<x>> \in Seq(S)
BY DEF ToSet

LEMMA Few ==
  ASSUME NEW S, NEW c \in Seq(S), Len(c) <= 1, c # <<>>
  PROVE  c[1] \in S /\ c = <<c[1]>> /\ ToSet(c) = {c[1]}
<1>1. Len(c) = 1 /\ DOMAIN c = {1}
  <2>1. Len(Tail(c)) = Len(c) - 1 /\ Len(Tail(c)) \in Nat
    BY HeadTailProperties
  <2>2. Len(c) \in Nat /\ DOMAIN c = 1..Len(c)
    OBVIOUS
  <2> QED
    BY <2>1, <2>2
<1> QED
  BY <1>1 DEF ToSet

\* What is said of a reminder, and the times of several.
LEMMA SaidIsTyped ==
  ASSUME NEW r \in Reminder, NEW at \in 0..MaxTime
  PROVE  Said(r, at) \in Times
BY DEF Said, Times, Reminder

LEMMA TimesAreTyped ==
  ASSUME NEW f \in Files, NEW S \in SUBSET ToSet(f)
  PROVE  TimesOf(S) \subseteq Dues
<1>1. \A r \in S : r \in Reminder
  BY ElementsOf DEF Files
<1>2. \A r \in S : [id |-> r.id, due |-> r.due] \in Dues
  BY <1>1 DEF Reminder, Dues
<1> QED
  BY <1>2 DEF TimesOf

LEMMA InitTypes == ReminderInit => ReminderTypeOK
<1> SUFFICES ASSUME ReminderInit PROVE ReminderTypeOK
  OBVIOUS
<1> USE Bounds
<1>1. file \in Seq(Reminder) /\ \A k \in DOMAIN file : file[k].id = k
  BY RemindersAssumption DEF ReminderInit
<1>2. Len(file) \in 0..MaxReminders
  <2>1. CASE Len(file) = 0
    BY <2>1
  <2>2. CASE Len(file) # 0
    <3>1. Len(file) \in DOMAIN file
      BY <1>1, <2>2
    <3>2. file[Len(file)] \in Reminder /\ file[Len(file)].id = Len(file)
      BY <1>1, <3>1
    <3> QED
      BY <3>2 DEF Reminder
  <2> QED
    BY <2>1, <2>2
<1>3. told \subseteq Times /\ lost \subseteq Dues
  <2>1. \A r \in ToSet(file) : Said(r, 0) \in Times
    <3>1. \A r \in ToSet(file) : r \in Reminder
      BY <1>1, ElementsOf
    <3> QED
      BY <3>1, SaidIsTyped
  <2> QED
    BY <2>1 DEF ReminderInit
<1>4. /\ clock = 0 /\ phase = "begin" /\ list = <<>> /\ copy = <<>> /\ change = <<>>
      /\ made = Len(file) /\ changes = 0 /\ crashes = 0 /\ asof = 0 /\ said = {}
  BY DEF ReminderInit, None
<1>6. telling \in BOOLEAN
  BY Zenon DEF ReminderInit
<1>5. <<>> \in Seq(Reminder) /\ <<>> \in Seq(Files) /\ Len(<<>>) = 0
  OBVIOUS
<1> QED
  BY <1>1, <1>2, <1>3, <1>4, <1>5, <1>6 DEF ReminderTypeOK, Files, None

\* The types of the loop's variables that a step of the loop changes.
LEMMA StepTypesOfTheLoop == ReminderTypeOK /\ Loop => ReminderTypeOK'
<1> SUFFICES ASSUME ReminderTypeOK, Loop PROVE ReminderTypeOK'
  OBVIOUS
<1> USE Bounds
<1>t. /\ file \in Files /\ clock \in 0..MaxTime /\ clock \in Int
      /\ list \in Files /\ (list = <<>> <=> phase \in {"begin", "poll"})
      /\ copy \in Seq(Files) /\ Len(copy) <= 1
      /\ (copy # None <=> phase \in {"missed", "marking"})
      /\ asof \in 0..MaxTime /\ said \subseteq Times /\ told \subseteq Times
      /\ lost \subseteq Dues
  BY DEF ReminderTypeOK
<1>n. None = <<>> /\ <<>> \in Seq(Files) /\ Len(<<>>) = 0
  BY DEF None
<1>e. {"triggered", "missed", "cancelled"} \subseteq Statuses
  BY DEF Statuses
<1>1. CASE Missed
  <2>1. list' \in Files
    <3>1. MissedOnes \in SUBSET ToSet(file)
      BY DEF MissedOnes
    <3> QED
      BY <1>1, <1>t, <3>1, ListedProperties DEF Missed
  <2>2. CASE list' = <<>>
    BY <1>1, <1>t, <2>1, <2>2 DEF Missed, ReminderTypeOK, user, bounds, tellings
  <2>3. CASE list' # <<>>
    <3>1. copy' = <<Each(file, ToSet(list'), "missed")>>
      BY <1>1, <2>3 DEF Missed
    <3>2. Each(file, ToSet(list'), "missed") \in Files
      BY <1>t, <1>e, EachProperties
    <3>3. copy' \in Seq(Files) /\ Len(copy') <= 1 /\ copy' # None
      BY <3>1, <3>2, <1>n, One
    <3> QED
      BY <1>1, <1>t, <2>1, <2>3, <3>3 DEF Missed, ReminderTypeOK, user, bounds, tellings
  <2> QED
    BY <2>2, <2>3
<1>v. ASSUME Saved, copy # <<>>
      PROVE  /\ file' \in Files /\ copy' = <<>> /\ lost' \subseteq Dues
             /\ UNCHANGED <<asof, said, told>>
  <2>1. copy[1] \in Files
    BY <1>v, <1>t, Few
  <2> DEFINE over == {r \in ToSet(file) : \A s \in ToSet(copy[1]) : s.id # r.id}
  <2>2. over \in SUBSET ToSet(file)
    OBVIOUS
  <2>3. lost' = lost \cup TimesOf(over)
    BY <1>v DEF Saved
  <2> HIDE DEF over
  <2>4. TimesOf(over) \subseteq Dues
    BY <1>t, <2>2, TimesAreTyped
  <2> QED
    BY <1>v, <1>t, <1>n, <2>1, <2>3, <2>4 DEF Saved
<1>2. CASE MissedSaved
  <2>1. copy # <<>> /\ Saved
    BY <1>2, <1>t, <1>n DEF MissedSaved
  <2>2. /\ file' \in Files /\ copy' = <<>> /\ lost' \subseteq Dues
        /\ UNCHANGED <<asof, said, told>>
    BY <1>v, <2>1
  <2> QED
    BY <1>2, <1>t, <1>n, <2>2 DEF MissedSaved, ReminderTypeOK, user, bounds
<1>3. ASSUME Say(Head(list)), list # <<>>
      PROVE  /\ said' \subseteq Times /\ told' \subseteq Times
             /\ asof' = asof /\ lost' = lost
  <2>1. Said(Head(list), asof) \in Times
    BY <1>3, <1>t, RestOf, SaidIsTyped
  <2> QED
    BY <1>3, <1>t, <2>1 DEF Say
<1>4. CASE SayMissed
  <2>1. list # <<>>
    BY <1>4, <1>t DEF SayMissed
  <2>2. /\ said' \subseteq Times /\ told' \subseteq Times
        /\ asof' = asof /\ lost' = lost
    BY <1>3, <1>4, <2>1 DEF SayMissed
  <2>3. list' \in Files /\ (list' = <<>> <=> Len(list) = 1)
    BY <1>4, <1>t, <2>1, RestOf DEF SayMissed
  <2> QED
    BY <1>4, <1>t, <2>2, <2>3 DEF SayMissed, ReminderTypeOK, user, bounds
<1>5. CASE Due
  <2>1. DueNow \in SUBSET ToSet(file)
    BY DEF DueNow
  <2>2. list' \in Files
    BY <1>5, <1>t, <2>1, ListedProperties DEF Due
  <2> QED
    BY <1>5, <1>t, <2>2 DEF Due, ReminderTypeOK, user, bounds, tellings
<1>6. CASE Remind
  <2>1. list # <<>>
    BY <1>6, <1>t DEF Remind
  <2>2. /\ said' \subseteq Times /\ told' \subseteq Times
        /\ asof' = asof /\ lost' = lost
    BY <1>3, <1>6, <2>1 DEF Remind
  <2> QED
    BY <1>6, <1>t, <2>1, <2>2 DEF Remind, ReminderTypeOK, user, bounds
<1>7. ASSUME Onwards, list # <<>>
      PROVE  /\ list' \in Files /\ phase' \in {"poll", "remind"}
             /\ list' = <<>> <=> phase' \in {"begin", "poll"}
  BY <1>7, <1>t, RestOf DEF Onwards
<1>8. CASE MarkTriggered
  <2>1. list # <<>>
    BY <1>8, <1>t DEF MarkTriggered
  <2> DEFINE same == {r \in ToSet(file) : r.id = Head(list).id}
  <2>2. CASE phase' = "marking" /\ UNCHANGED list /\ copy' = <<Each(file, same, "triggered")>>
    <3>1. Each(file, same, "triggered") \in Files
      BY <1>t, <1>e, EachProperties
    <3>2. copy' \in Seq(Files) /\ Len(copy') <= 1 /\ copy' # None
      BY <2>2, <3>1, <1>n, One
    <3> QED
      BY <1>8, <1>t, <2>1, <2>2, <3>2 DEF MarkTriggered, ReminderTypeOK, user, bounds, announced, tellings
  <2>3. CASE Onwards /\ UNCHANGED copy
    BY <1>7, <1>8, <1>t, <2>1, <2>3 DEF MarkTriggered, ReminderTypeOK, user, bounds, announced, tellings
  <2> QED
    BY <1>8, <2>2, <2>3 DEF MarkTriggered
<1>9. CASE MarkSaved
  <2>1. list # <<>> /\ copy # <<>>
    BY <1>9, <1>t, <1>n DEF MarkSaved
  <2>2. /\ file' \in Files /\ copy' = <<>> /\ lost' \subseteq Dues
        /\ UNCHANGED <<asof, said, told>>
    BY <1>9, <1>v, <2>1 DEF MarkSaved
  <2>3. list' \in Files /\ phase' \in {"poll", "remind"} /\ (list' = <<>> <=> phase' \in {"begin", "poll"})
    BY <1>7, <1>9, <2>1 DEF MarkSaved
  <2> QED
    BY <1>9, <1>t, <1>n, <2>2, <2>3 DEF MarkSaved, ReminderTypeOK, user, bounds
<1> QED
  BY <1>1, <1>2, <1>4, <1>5, <1>6, <1>8, <1>9 DEF Loop

LEMMA StepTypes == ReminderTypeOK /\ [ReminderNext]_reminderVars => ReminderTypeOK'
<1> SUFFICES ASSUME ReminderTypeOK, [ReminderNext]_reminderVars PROVE ReminderTypeOK'
  OBVIOUS
<1> USE Bounds
<1>t. /\ file \in Files /\ clock \in 0..MaxTime /\ clock \in Int
      /\ change \in Seq(Files) /\ Len(change) <= 1
      /\ made \in 0..MaxReminders /\ changes \in 0..MaxChanges
  BY DEF ReminderTypeOK
<1>n. None = <<>> /\ <<>> \in Seq(Files) /\ Len(<<>>) = 0 /\ <<>> \in Files
  BY DEF None, Files
<1>c. ASSUME Command, change' \in Seq(Files), Len(change') <= 1, telling' \in BOOLEAN,
             made' \in 0..MaxReminders
      PROVE  ReminderTypeOK'
  <2>1. changes' \in 0..MaxChanges
    BY <1>c, <1>t DEF Command
  <2> QED
    BY <1>c, <2>1 DEF Command, ReminderTypeOK, announced, tellings
<1>1. ASSUME NEW t \in Texts, NEW d \in clock..MaxTime, NEW p \in Periods, Add(t, d, p)
      PROVE  ReminderTypeOK'
  <2> DEFINE r == [id |-> made', text |-> t, due |-> d, every |-> p, status |-> "pending"]
  <2>1. made' \in 1..MaxReminders
    BY <1>1, <1>t DEF Add
  <2>2. r \in Reminder
    BY <1>t, <2>1 DEF Reminder, Statuses
  <2>3. change' = <<Append(file, r)>>
    BY <1>1 DEF Add
  <2>4. change' \in Seq(Files) /\ Len(change') <= 1
    BY <1>t, <2>2, <2>3, AddedTo, One
  <2>5. telling' \in BOOLEAN
    BY <1>1, Zenon DEF Add
  <2> QED
    BY <1>1, <1>c, <2>1, <2>4, <2>5 DEF Add
<1>2. ASSUME NEW q, Cancel(q) PROVE ReminderTypeOK'
  <2> DEFINE S == {r \in ToSet(file) : r.text \in q /\ r.status \in {"pending", "missed"}}
  <2>1. Each(file, S, "cancelled") \in Files
    BY <1>t, EachProperties DEF Statuses
  <2>2. change' = <<Each(file, S, "cancelled")>>
    BY <1>2 DEF Cancel
  <2>3. change' \in Seq(Files) /\ Len(change') <= 1
    BY <2>1, <2>2, One
  <2> QED
    BY <1>2, <1>c, <1>t, <2>3 DEF Cancel
<1>3. ASSUME NEW q, MarkCompleted(q) PROVE ReminderTypeOK'
  <2>1. CASE UNCHANGED change
    BY <1>3, <1>c, <1>t, <2>1 DEF MarkCompleted
  <2>2. CASE \E k \in DOMAIN file : change' = <<[file EXCEPT ![k].status = "completed"]>>
    <3>1. PICK k \in DOMAIN file : change' = <<[file EXCEPT ![k].status = "completed"]>>
      BY <2>2
    <3>2. [file[k] EXCEPT !.status = "completed"] \in Reminder
      <4>1. file[k] \in Reminder
        BY <1>t, ElementsOf DEF Files
      <4> QED
        BY <4>1 DEF Reminder, Statuses
    <3>3. [file EXCEPT ![k].status = "completed"] \in Files
      BY <1>t, <3>2 DEF Files
    <3>4. change' \in Seq(Files) /\ Len(change') <= 1
      BY <3>1, <3>3, One
    <3> QED
      BY <1>3, <1>c, <1>t, <3>4 DEF MarkCompleted
  <2> QED
    BY <1>3, <2>1, <2>2 DEF MarkCompleted
<1>4. CASE CommandSaved
  <2>1. change[1] \in Files
    BY <1>4, <1>t, <1>n, Few DEF CommandSaved
  <2> QED
    BY <1>4, <1>n, <2>1 DEF CommandSaved, ReminderTypeOK, bounds, announced, tellings
<1>5. CASE Restart
  <2>1. /\ phase' = "begin" /\ list' = <<>> /\ copy' = <<>> /\ change' = <<>>
        /\ asof' = 0 /\ said' = {} /\ crashes' \in 0..MaxCrashes
        /\ UNCHANGED <<file, clock, made, changes, told>>
    BY <1>5 DEF Restart, None, ReminderTypeOK
  <2>3. lost' \subseteq Dues
    <3>1. list \in Files /\ lost \subseteq Dues
      BY DEF ReminderTypeOK
    <3>2. TimesOf(ToSet(list)) \subseteq Dues
      BY <3>1, TimesAreTyped
    <3> QED
      BY <1>5, <3>1, <3>2 DEF Restart
  <2>2. telling' \in BOOLEAN
    BY <1>5, Zenon DEF Restart
  <2> QED
    BY <1>n, <2>1, <2>2, <2>3 DEF ReminderTypeOK
<1>6. CASE Tick
  BY <1>6 DEF Tick, ReminderTypeOK, user, bounds, announced, tellings
<1>7. CASE UNCHANGED reminderVars
  BY <1>7 DEF reminderVars, ReminderTypeOK
<1> QED
  BY <1>1, <1>2, <1>3, <1>4, <1>5, <1>6, <1>7, StepTypesOfTheLoop DEF ReminderNext

(***************************************************************************)
(* No mark without an announcement.                                        *)
(***************************************************************************)
LEMMA InitMarks == ReminderInit => MarkInv
<1> SUFFICES ASSUME ReminderInit PROVE MarkInv
  OBVIOUS
<1>1. ToSet(copy) = {} /\ ToSet(change) = {}
  BY DEF ReminderInit, None, ToSet
<1>2. ASSUME NEW r \in ToSet(file), r.status = "triggered" PROVE r.id \in ever
  <2>1. Said(r, 0) \in told
    BY <1>2 DEF ReminderInit
  <2>2. Said(r, 0).id = r.id
    BY DEF Said
  <2> QED
    BY <2>1, <2>2, Zenon DEF ever
<1>3. OnlyMarks(file, ever)
  BY <1>2, Zenon DEF OnlyMarks
<1> QED
  BY <1>1, <1>3 DEF MarkInv, ReminderInit, Marking

LEMMA StepMarks == ReminderTypeOK /\ MarkInv /\ [ReminderNext]_reminderVars => MarkInv'
<1> SUFFICES ASSUME ReminderTypeOK, MarkInv, [ReminderNext]_reminderVars PROVE MarkInv'
  OBVIOUS
<1>t. /\ file \in Files /\ clock \in Int
      /\ list \in Files /\ (list = <<>> <=> phase \in {"begin", "poll"})
      /\ copy \in Seq(Files) /\ Len(copy) <= 1
      /\ (copy # None <=> phase \in {"missed", "marking"})
      /\ change \in Seq(Files) /\ Len(change) <= 1
  BY DEF ReminderTypeOK
<1>n. None = <<>> /\ ToSet(None) = {} /\ \A f : ToSet(<<f>>) = {f}
  BY One DEF None, ToSet
<1>e. {"triggered", "missed", "cancelled"} \subseteq Statuses
  BY DEF Statuses
<1>m. /\ OnlyMarks(file, ever)
      /\ \A f \in ToSet(copy) : OnlyMarks(f, ever)
      /\ \A f \in ToSet(change) : OnlyMarks(f, ever)
      /\ Marking => Head(list).id \in ever
  BY DEF MarkInv
<1>s. /\ copy # None => copy[1] \in ToSet(copy)
      /\ change # None => change[1] \in ToSet(change)
  BY <1>t, <1>n, Few
<1>g. \A f : OnlyMarks(f, ever) /\ ever \subseteq ever' => OnlyMarks(f, ever')
  BY DEF OnlyMarks
<1>1. CASE Missed
  <2>1. OnlyMarks(Each(file, ToSet(list'), "missed"), ever)
    BY <1>t, <1>e, <1>m, EachMarks
  <2>2. copy' = copy \/ copy' = <<Each(file, ToSet(list'), "missed")>>
    BY <1>1 DEF Missed
  <2>3. phase' \in {"poll", "missed"} /\ UNCHANGED <<file, change, ever>>
    BY <1>1 DEF Missed, user, tellings, ever
  <2> QED
    BY <1>m, <1>n, <2>1, <2>2, <2>3 DEF MarkInv, Marking
<1>2. CASE MissedSaved
  <2>1. /\ file' = copy[1] /\ copy' = None /\ phase' = "announce"
        /\ UNCHANGED <<change, ever>> /\ copy # None
    BY <1>2, <1>t DEF MissedSaved, Saved, user, ever
  <2> QED
    BY <1>m, <1>n, <1>s, <2>1 DEF MarkInv, Marking
<1>3. CASE SayMissed
  <2>1. ever \subseteq ever' /\ UNCHANGED <<file, copy, change>> /\ phase' \in {"poll", "announce"}
    BY <1>3 DEF SayMissed, Say, user, ever
  <2> QED
    BY <1>m, <1>g, <2>1 DEF MarkInv, Marking
<1>4. CASE Due
  <2>1. UNCHANGED <<file, copy, change, ever>> /\ phase' \in {"poll", "remind"}
    BY <1>4 DEF Due, user, tellings, ever
  <2> QED
    BY <1>m, <2>1 DEF MarkInv, Marking
<1>5. CASE Remind
  <2>1. /\ ever' = ever \cup {Head(list).id} /\ UNCHANGED <<file, copy, change, list>>
    <3>1. /\ told' = told \cup {Said(Head(list), asof)}
          /\ UNCHANGED <<file, copy, change, list>>
      BY <1>5 DEF Remind, Say, user
    <3>2. Said(Head(list), asof).id = Head(list).id
      BY DEF Said
    <3> QED
      BY <3>1, <3>2, Zenon DEF ever
  <2> QED
    BY <1>m, <1>g, <2>1 DEF MarkInv, Marking
<1>6. CASE MarkTriggered
  <2> DEFINE same == {r \in ToSet(file) : r.id = Head(list).id}
  <2>0. UNCHANGED <<file, change, ever>> /\ Head(list).id \in ever
    BY <1>6, <1>m DEF MarkTriggered, user, announced, tellings, ever, Marking
  <2>1. CASE phase' = "marking" /\ UNCHANGED list /\ copy' = <<Each(file, same, "triggered")>>
    <3>1. OnlyMarks(Each(file, same, "triggered"), ever)
      BY <1>t, <1>e, <1>m, <2>0, EachMarks
    <3> HIDE DEF same
    <3> QED
      BY <1>m, <1>n, <2>0, <2>1, <3>1 DEF MarkInv, Marking
  <2>2. CASE Onwards /\ UNCHANGED copy
    <3>1. phase' \in {"poll", "remind"}
      BY <2>2 DEF Onwards
    <3> QED
      BY <1>m, <2>0, <2>2, <3>1 DEF MarkInv, Marking
  <2> QED
    BY <1>6, <2>1, <2>2 DEF MarkTriggered
<1>7. CASE MarkSaved
  <2>1. /\ file' = copy[1] /\ copy' = None /\ phase' \in {"poll", "remind"}
        /\ UNCHANGED <<change, ever>> /\ copy # None
    BY <1>7, <1>t DEF MarkSaved, Saved, Onwards, user, ever
  <2> QED
    BY <1>m, <1>n, <1>s, <2>1 DEF MarkInv, Marking
<1>8. ASSUME UNCHANGED <<file, copy, ever, list, phase>>,
             \A f \in ToSet(change') : OnlyMarks(f, ever)
      PROVE  MarkInv'
  BY <1>8, <1>m DEF MarkInv, Marking
<1>9. ASSUME NEW t \in Texts, NEW d \in clock..MaxTime, NEW p \in Periods, Add(t, d, p)
      PROVE  MarkInv'
  <2> DEFINE r == [id |-> made', text |-> t, due |-> d, every |-> p, status |-> "pending"]
  <2>1. r \in Reminder
    BY <1>9, Bounds DEF Add, Reminder, Statuses, ReminderTypeOK
  <2>2. OnlyMarks(Append(file, r), ever)
    <3>1. r.status # "triggered"
      OBVIOUS
    <3> HIDE DEF r
    <3> QED
      BY <1>t, <1>m, <2>1, <3>1, AddedTo DEF OnlyMarks
  <2>3. change' = <<Append(file, r)>> /\ UNCHANGED <<file, copy, ever, list, phase>>
    BY <1>9 DEF Add, Command, announced, tellings, ever
  <2> HIDE DEF r
  <2> QED
    BY <1>n, <1>8, <2>2, <2>3
<1>10. ASSUME NEW q, Cancel(q) PROVE MarkInv'
  <2> DEFINE S == {r \in ToSet(file) : r.text \in q /\ r.status \in {"pending", "missed"}}
  <2>1. OnlyMarks(Each(file, S, "cancelled"), ever)
    BY <1>t, <1>e, <1>m, EachMarks
  <2>2. /\ change' = <<Each(file, S, "cancelled")>>
        /\ UNCHANGED <<file, copy, ever, list, phase>>
    BY <1>10 DEF Cancel, Command, announced, tellings, ever
  <2> HIDE DEF S
  <2> QED
    BY <1>n, <1>8, <2>1, <2>2
<1>11. ASSUME NEW q, MarkCompleted(q) PROVE MarkInv'
  <2>0. UNCHANGED <<file, copy, ever, list, phase>>
    BY <1>11 DEF MarkCompleted, Command, announced, tellings, ever
  <2>1. CASE UNCHANGED change
    BY <1>8, <1>m, <2>0, <2>1
  <2>2. CASE \E k \in DOMAIN file : change' = <<[file EXCEPT ![k].status = "completed"]>>
    <3>1. PICK k \in DOMAIN file : change' = <<[file EXCEPT ![k].status = "completed"]>>
      BY <2>2
    <3> DEFINE f == [file EXCEPT ![k].status = "completed"]
    <3>2. OnlyMarks(f, ever)
      <4>1. \A j \in DOMAIN file : file[j] \in Reminder /\ file[j] \in ToSet(file)
        BY <1>t, ElementsOf DEF Files
      <4>2. DOMAIN f = DOMAIN file
        OBVIOUS
      <4>3. \A j \in DOMAIN file : f[j] = file[j] \/ f[j].status = "completed"
        BY <4>1 DEF Reminder
      <4> HIDE DEF f
      <4>4. \A j \in DOMAIN file : f[j].status = "triggered" => f[j].id \in ever
        BY <1>m, <4>1, <4>3 DEF OnlyMarks
      <4> QED
        BY <4>2, <4>4 DEF OnlyMarks, ToSet
    <3> HIDE DEF f
    <3> QED
      BY <1>n, <1>8, <2>0, <3>1, <3>2 DEF f
  <2> QED
    BY <1>11, <2>1, <2>2 DEF MarkCompleted
<1>12. CASE CommandSaved
  <2>1. /\ file' = change[1] /\ change' = None /\ change # None
        /\ UNCHANGED <<copy, ever, list, phase>>
    BY <1>12 DEF CommandSaved, announced, tellings, ever
  <2> QED
    BY <1>m, <1>n, <1>s, <2>1 DEF MarkInv, Marking
<1>13. CASE Restart
  <2>1. /\ UNCHANGED <<file, ever>> /\ copy' = None /\ change' = None /\ phase' = "begin"
    BY <1>13 DEF Restart, ever
  <2> QED
    BY <1>m, <1>n, <2>1 DEF MarkInv, Marking
<1>14. CASE Tick \/ UNCHANGED reminderVars
  <2>1. UNCHANGED <<file, copy, change, ever, list, phase>>
    BY <1>14 DEF Tick, reminderVars, user, announced, tellings, ever
  <2> QED
    BY <1>m, <1>8, <2>1
<1> QED
  BY <1>1, <1>2, <1>3, <1>4, <1>5, <1>6, <1>7, <1>9, <1>10, <1>11, <1>12, <1>13, <1>14
     DEF ReminderNext, Loop

(***************************************************************************)
(* No announcement twice.                                                  *)
(***************************************************************************)
LEMMA InitOnce == ReminderInit => OnceInv /\ EachTimeOnce
<1> SUFFICES ASSUME ReminderInit PROVE OnceInv /\ EachTimeOnce
  OBVIOUS
<1>1. /\ phase = "begin" /\ said = {} /\ change = None /\ copy = None /\ list = <<>>
      /\ asof = 0 /\ clock = 0 /\ \A k \in DOMAIN file : file[k].id = k
  BY RemindersAssumption DEF ReminderInit
<1> QED
  BY <1>1 DEF OnceInv, EachTimeOnce, Marking

\* What a reminder becomes when its time is over does not come up again before now.
LEMMA OverIsBehind ==
  ASSUME clock \in Int, NEW r \in Reminder, r.due <= clock, NEW status \in Statuses,
         status # "pending", NEW at \in Int, at <= clock
  PROVE  After(Over(r, status), r.due, at)
<1>1. Over(r, status) \in Reminder
  BY OverProperties
<1>2. /\ Over(r, status).due \in Int /\ r.due \in Int
      /\ Over(r, status).status = "pending" =>
           r.due < Over(r, status).due /\ clock < Over(r, status).due
  BY <1>1, OverProperties DEF Reminder
<1> QED
  BY <1>2 DEF After

\* What is said of a reminder that has come up again is about another time.
LEMMA SayOnce ==
  ASSUME EachTimeOnce, changes = 0, said \subseteq Times,
         NEW r, NEW at, NEW more, more = said \cup {[id |-> r.id, due |-> r.due, at |-> at]},
         \A s \in said : s.id = r.id => s.due < r.due /\ s.at < r.due
  PROVE  \A a, b \in more : a.id = b.id /\ a # b => \/ (a.due < b.due /\ a.at < b.due)
                                                    \/ (b.due < a.due /\ b.at < a.due)
<1> DEFINE n == [id |-> r.id, due |-> r.due, at |-> at]
<1>1. n.id = r.id /\ n.due = r.due
  OBVIOUS
<1> HIDE DEF n
<1>2. \A a \in more : a \in said \/ a = n
  BY DEF n
<1> QED
  BY <1>1, <1>2 DEF EachTimeOnce

LEMMA StepOnce ==
  ReminderTypeOK /\ OnceInv /\ EachTimeOnce /\ [ReminderNext]_reminderVars
    => OnceInv' /\ EachTimeOnce'
<1> SUFFICES ASSUME ReminderTypeOK, OnceInv, EachTimeOnce, [ReminderNext]_reminderVars, changes' = 0
             PROVE  OnceInv' /\ EachTimeOnce'
  BY DEF OnceInv, EachTimeOnce
<1>c. ASSUME Command PROVE FALSE
  BY <1>c DEF Command, ReminderTypeOK
<1>z. changes = 0 /\ ~CommandSaved
  <2>1. changes = 0
    BY <1>c DEF ReminderNext, Loop, Missed, MissedSaved, SayMissed, Due, Remind, MarkTriggered,
                MarkSaved, Add, Cancel, MarkCompleted, CommandSaved, Restart, Tick, reminderVars,
                bounds
  <2> QED
    BY <2>1 DEF OnceInv, CommandSaved
<1>t. /\ file \in Files /\ clock \in Int /\ asof \in Int
      /\ list \in Files /\ (list = <<>> <=> phase \in {"begin", "poll"})
      /\ copy \in Seq(Files) /\ Len(copy) <= 1
      /\ (copy # None <=> phase \in {"missed", "marking"})
      /\ said \subseteq Times
  BY DEF ReminderTypeOK
<1>f. \A k \in DOMAIN file : file[k] \in Reminder /\ file[k].due \in Int
  <2>1. \A k \in DOMAIN file : file[k] \in Reminder
    BY <1>t, ElementsOf DEF Files
  <2> QED
    BY <2>1 DEF Reminder
<1>l. \A i \in DOMAIN list : list[i] \in Reminder /\ list[i].due \in Int /\ list[i].id \in Int
  <2>1. \A i \in DOMAIN list : list[i] \in Reminder
    BY <1>t, ElementsOf DEF Files
  <2> QED
    BY <2>1, Bounds DEF Reminder
<1>k. \A s \in said : s.due \in Int /\ s.at \in Int /\ s.id \in Int
  BY <1>t, Bounds DEF Times
<1>e. {"triggered", "missed", "cancelled"} \subseteq Statuses
  BY DEF Statuses
<1>n. None = <<>> /\ \A x : <<x>> # <<>> /\ <<x>>[1] = x
  BY One DEF None
<1>i. /\ change = None /\ asof <= clock /\ \A k \in DOMAIN file : file[k].id = k
      /\ \A i, j \in DOMAIN list : i < j => list[i].id < list[j].id
      /\ \A i \in DOMAIN list : list[i].id \in DOMAIN file
      /\ \A s \in said : s.id \in DOMAIN file
      /\ copy # None => DOMAIN copy[1] = DOMAIN file /\ \A k \in DOMAIN file : copy[1][k].id = k
      /\ phase \in {"begin", "missed"} => said = {}
  BY <1>z DEF OnceInv
<1>s. ~Marking => \A s \in said : After(file[s.id], s.due, s.at)
  BY <1>z DEF OnceInv
\* The list that the loop reads.
<1>r. ASSUME NEW S \in SUBSET ToSet(file), list' \in Listed(S)
      PROVE  /\ \A i \in DOMAIN list' : /\ list'[i].id \in DOMAIN file
                                        /\ list'[i] = file[list'[i].id] /\ list'[i] \in S
             /\ \A i, j \in DOMAIN list' : i < j => list'[i].id < list'[j].id
  <2>1. PICK l : l = list'
    OBVIOUS
  <2>2. /\ l \in Files /\ \A i \in DOMAIN l : l[i] \in S
        /\ \A i, j \in DOMAIN l : i < j => l[i].id < l[j].id
    BY <1>r, <1>t, <2>1, ListedProperties
  <2>3. \A x \in ToSet(file) : x.id \in DOMAIN file /\ file[x.id] = x
    BY <1>t, <1>i, ElementsOf DEF Files
  <2> QED
    BY <2>1, <2>2, <2>3
<1>1. CASE Missed
  <2>1. MissedOnes \in SUBSET ToSet(file)
    BY DEF MissedOnes
  <2>2. /\ \A i \in DOMAIN list' : /\ list'[i].id \in DOMAIN file
                                   /\ list'[i] = file[list'[i].id] /\ list'[i] \in MissedOnes
        /\ \A i, j \in DOMAIN list' : i < j => list'[i].id < list'[j].id
    BY <1>1, <1>r, <2>1 DEF Missed
  <2>3. /\ UNCHANGED <<file, clock, change, said>> /\ said = {} /\ asof' = clock
        /\ phase' \in {"poll", "missed"} /\ (list' = <<>> => phase' = "poll" /\ copy' = copy)
        /\ (list' # <<>> => phase' = "missed" /\ copy' = <<Each(file, ToSet(list'), "missed")>>)
        /\ copy = None
    BY <1>1, <1>i, <1>t DEF Missed, user
  <2>4. EachTimeOnce'
    BY <1>z, <2>3 DEF EachTimeOnce
  <2>5. CASE list' = <<>>
    <3>1. /\ phase' = "poll" /\ copy' = None /\ ~Marking' /\ DOMAIN list' = {}
          /\ UNCHANGED <<file, clock, change, said>> /\ said = {} /\ asof' = clock
      BY <2>3, <2>5 DEF Marking
    <3>2. asof' <= clock'
      BY <1>t, <3>1
    <3>3. \A k \in DOMAIN file' : file'[k].id = k
      BY <1>i, <3>1
    <3>4. copy' = None /\ change' = None /\ said' = {}
      BY <1>i, <3>1
    <3> QED
      BY <2>4, <3>1, <3>2, <3>3, <3>4 DEF OnceInv, Marking
  <2>6. CASE list' # <<>>
    <3> DEFINE g == Each(file, ToSet(list'), "missed")
    <3>1. /\ DOMAIN g = DOMAIN file /\ \A k \in DOMAIN file : g[k].id = file[k].id
          /\ \A k \in DOMAIN file :
               g[k] = IF file[k] \in ToSet(list') THEN Over(file[k], "missed") ELSE file[k]
      BY <1>t, <1>e, EachProperties
    <3> HIDE DEF g
    <3>2. copy' = <<g>> /\ copy'[1] = g /\ copy' # None
      BY <1>n, <2>3, <2>6 DEF g
    <3>3. ASSUME NEW i \in DOMAIN list' PROVE After(g[list'[i].id], list'[i].due, asof')
      <4>1. list'[i] \in ToSet(list') /\ list'[i].due < clock /\ list'[i] \in Reminder
        BY <1>f, <2>2 DEF ToSet, MissedOnes, WasMissed
      <4>2. g[list'[i].id] = Over(list'[i], "missed")
        BY <2>2, <3>1, <4>1
      <4>3. list'[i].due <= clock
        BY <1>f, <1>t, <2>2, <4>1
      <4> QED
        BY <1>e, <1>t, <2>3, <4>1, <4>2, <4>3, OverIsBehind
    <3>4. phase' = "missed" /\ ~Marking'
      BY <2>3, <2>6 DEF Marking
    <3> QED
      BY <1>i, <1>t, <2>2, <2>3, <2>4, <3>1, <3>2, <3>3, <3>4 DEF OnceInv, Marking
  <2> QED
    BY <2>5, <2>6, <2>4
<1>2. CASE MissedSaved
  <2>1. /\ file' = copy[1] /\ copy' = None /\ phase' = "announce" /\ phase = "missed"
        /\ UNCHANGED <<clock, list, change, asof, said>> /\ copy # None /\ said = {}
    BY <1>2, <1>t, <1>i DEF MissedSaved, Saved, user
  <2>2. /\ DOMAIN file' = DOMAIN file /\ \A k \in DOMAIN file : file'[k].id = k
        /\ \A i \in DOMAIN list : After(file'[list[i].id], list[i].due, asof)
    BY <1>i, <1>z, <2>1 DEF OnceInv
  <2> QED
    BY <1>i, <1>z, <2>1, <2>2 DEF OnceInv, EachTimeOnce, Marking
\* What is announced is added to what was said.
<1>3. ASSUME Say(Head(list)), list # <<>>, UNCHANGED <<file, clock, copy, change>>
      PROVE  /\ list[1] = Head(list) /\ 1 \in DOMAIN list /\ asof' = asof
             /\ \A s \in said' : \/ s \in said
                                 \/ s = [id |-> list[1].id, due |-> list[1].due, at |-> asof]
             /\ said' = said \cup {[id |-> list[1].id, due |-> list[1].due, at |-> asof]}
  BY <1>3, <1>t, RestOf DEF Say, Said
<1>4. CASE SayMissed
  <2>0. list # <<>> /\ phase = "announce" /\ UNCHANGED <<file, clock, copy, change>>
    BY <1>4, <1>t DEF SayMissed, user
  <2>1. /\ list[1] = Head(list) /\ 1 \in DOMAIN list /\ asof' = asof
        /\ \A s \in said' : s \in said \/ s = [id |-> list[1].id, due |-> list[1].due, at |-> asof]
        /\ said' = said \cup {[id |-> list[1].id, due |-> list[1].due, at |-> asof]}
    BY <1>3, <1>4, <2>0 DEF SayMissed
  <2>2. /\ list' = Tail(list) /\ phase' \in {"poll", "announce"}
        /\ \A i \in DOMAIN list' : /\ i \in Int /\ i >= 1 /\ i + 1 \in DOMAIN list
                                   /\ list'[i] = list[i + 1]
        /\ (list' = <<>> <=> phase' = "poll")
    <3>1. list' = Tail(list) /\ phase' = IF Len(list) = 1 THEN "poll" ELSE "announce"
      BY <1>4 DEF SayMissed
    <3>2. Tail(list) \in Seq(Reminder)
      BY <1>t, <2>0, RestOf DEF Files
    <3> QED
      BY <1>t, <2>0, <3>1, <3>2, RestOf
  <2>3. \A i \in DOMAIN list : /\ After(file[list[i].id], list[i].due, asof)
                               /\ \A s \in said : s.id < list[i].id
    BY <1>z, <2>0 DEF OnceInv
  <2>4. EachTimeOnce'
    <3>1. \A s \in said : s.id # list[1].id
      BY <1>k, <1>l, <2>1, <2>3
    <3> QED
      BY <1>t, <1>z, <2>1, <3>1, SayOnce DEF EachTimeOnce
  <2>5. \A s \in said' : s.id \in DOMAIN file /\ After(file[s.id], s.due, s.at)
    BY <1>i, <1>s, <2>0, <2>1, <2>3 DEF Marking
  <2>6. \A i \in DOMAIN list' : \A s \in said' : s.id < list'[i].id
    <3>1. \A i \in DOMAIN list' : list[1].id < list'[i].id
      BY <1>i, <2>1, <2>2
    <3> QED
      BY <2>1, <2>2, <2>3, <3>1
  <2>7. \A i, j \in DOMAIN list' : i < j => list'[i].id < list'[j].id
    BY <1>i, <2>2
  <2>8. copy = None
    BY <1>t, <2>0
  <2> QED
    BY <1>i, <2>0, <2>1, <2>2, <2>3, <2>4, <2>5, <2>6, <2>7, <2>8 DEF OnceInv, Marking
<1>5. CASE Due
  <2>1. DueNow \in SUBSET ToSet(file)
    BY DEF DueNow
  <2>2. /\ \A i \in DOMAIN list' : /\ list'[i].id \in DOMAIN file
                                   /\ list'[i] = file[list'[i].id] /\ list'[i] \in DueNow
        /\ \A i, j \in DOMAIN list' : i < j => list'[i].id < list'[j].id
    BY <1>5, <1>r, <2>1 DEF Due
  <2>3. /\ UNCHANGED <<file, clock, change, said, copy>> /\ asof' = clock
        /\ phase = "poll" /\ phase' \in {"poll", "remind"} /\ copy = None
    BY <1>5, <1>t DEF Due, user
  <2>4. \A i \in DOMAIN list' : list'[i].status = "pending" /\ list'[i].due <= asof'
    BY <2>2, <2>3 DEF DueNow, IsDue
  <2>5. \A s \in said : After(file[s.id], s.due, s.at)
    BY <1>s, <2>3 DEF Marking
  <2> QED
    BY <1>i, <1>t, <1>z, <2>2, <2>3, <2>4, <2>5 DEF OnceInv, EachTimeOnce, Marking
<1>6. CASE Remind
  <2>0. /\ list # <<>> /\ phase = "remind" /\ phase' = "mark"
        /\ UNCHANGED <<file, clock, copy, change, list>> /\ copy = None
    BY <1>6, <1>t DEF Remind, user
  <2>1. /\ list[1] = Head(list) /\ 1 \in DOMAIN list /\ asof' = asof
        /\ \A s \in said' : s \in said \/ s = [id |-> list[1].id, due |-> list[1].due, at |-> asof]
        /\ said' = said \cup {[id |-> list[1].id, due |-> list[1].due, at |-> asof]}
    BY <1>3, <1>6, <2>0 DEF Remind
  <2>2. \A i \in DOMAIN list : /\ file[list[i].id] = list[i] /\ list[i].status = "pending"
                               /\ list[i].due <= asof
    BY <1>z, <2>0 DEF OnceInv
  <2>3. \A s \in said : After(file[s.id], s.due, s.at)
    BY <1>s, <2>0 DEF Marking
  <2>4. EachTimeOnce'
    <3>1. \A s \in said : s.id = list[1].id => s.due < list[1].due /\ s.at < list[1].due
      BY <2>1, <2>2, <2>3 DEF After
    <3> QED
      BY <1>t, <1>z, <2>1, <3>1, SayOnce DEF EachTimeOnce
  <2>5. \A s \in said' : /\ s.id \in DOMAIN file
                         /\ \/ After(file[s.id], s.due, s.at)
                            \/ s = [id |-> list[1].id, due |-> list[1].due, at |-> asof]
    BY <1>i, <2>1, <2>3
  <2> QED
    BY <1>i, <2>0, <2>1, <2>2, <2>4, <2>5 DEF OnceInv, Marking
<1>7. ASSUME phase \in {"mark", "marking"}
      PROVE  /\ list # <<>> /\ 1 \in DOMAIN list /\ Head(list) = list[1]
             /\ \A i \in DOMAIN list : /\ file[list[i].id] = list[i] /\ list[i].status = "pending"
                                       /\ list[i].due <= asof
             /\ \A s \in said : \/ After(file[s.id], s.due, s.at)
                                \/ s = [id |-> list[1].id, due |-> list[1].due, at |-> asof]
  BY <1>7, <1>t, <1>z, RestOf DEF OnceInv, Marking
<1>8. CASE MarkTriggered
  <2> DEFINE same == {r \in ToSet(file) : r.id = Head(list).id}
             g == Each(file, same, "triggered")
  <2>0. phase = "mark" /\ UNCHANGED <<file, clock, change, said, asof>>
    BY <1>8 DEF MarkTriggered, user, announced
  <2>1. same = {list[1]} /\ list[1].id \in DOMAIN file /\ file[list[1].id] = list[1]
    <3>1. \A x \in ToSet(file) : x.id \in DOMAIN file /\ file[x.id] = x
      BY <1>t, <1>i, ElementsOf DEF Files
    <3>2. list[1].id \in DOMAIN file /\ file[list[1].id] = list[1] /\ Head(list) = list[1]
      BY <1>7, <1>i, <2>0
    <3>3. list[1] \in ToSet(file)
      BY <3>2 DEF ToSet
    <3> QED
      BY <3>1, <3>2, <3>3
  <2>2. phase' = "marking" /\ UNCHANGED list /\ copy' = <<g>>
    BY <1>8, <2>1 DEF MarkTriggered
  <2>3. /\ DOMAIN g = DOMAIN file /\ \A k \in DOMAIN file : g[k].id = file[k].id
        /\ \A k \in DOMAIN file :
             g[k] = IF file[k] \in same THEN Over(file[k], "triggered") ELSE file[k]
    BY <1>t, <1>e, EachProperties
  <2> HIDE DEF g
  <2>4. copy'[1] = g
    BY <1>n, <2>2
  <2>5. \A k \in DOMAIN file : file[k] \in same <=> k = list[1].id
    BY <1>i, <2>1
  <2> HIDE DEF same
  <2>6. After(g[list[1].id], list[1].due, asof)
    <3>1. g[list[1].id] = Over(list[1], "triggered")
      BY <2>1, <2>3, <2>5
    <3>2. list[1] \in Reminder /\ list[1].due <= asof
      BY <1>7, <1>f, <2>0, <2>1
    <3>3. list[1].due <= clock
      BY <1>i, <1>t, <1>f, <2>1, <3>2
    <3> QED
      BY <1>e, <1>i, <1>t, <3>1, <3>2, <3>3, OverIsBehind
  <2>7. \A k \in DOMAIN file : IF k = list[1].id THEN After(g[k], list[1].due, asof)
                               ELSE g[k] = file[k]
    BY <2>3, <2>5, <2>6
  <2> QED
    BY <1>7, <1>i, <1>z, <2>0, <2>2, <2>3, <2>4, <2>7 DEF OnceInv, EachTimeOnce, Marking
<1>9. CASE MarkSaved
  <2>0. /\ phase = "marking" /\ UNCHANGED <<clock, change, said, asof>>
        /\ file' = copy[1] /\ copy' = None /\ Onwards /\ copy # None
    BY <1>9, <1>t DEF MarkSaved, Saved, user
  <2>1. /\ DOMAIN file' = DOMAIN file /\ \A k \in DOMAIN file : file'[k].id = k
        /\ \A k \in DOMAIN file : IF k = list[1].id THEN After(file'[k], list[1].due, asof)
                                  ELSE file'[k] = file[k]
    BY <1>i, <1>z, <2>0 DEF OnceInv
  <2>2. /\ phase' \in {"poll", "remind"}
        /\ \A i \in DOMAIN list' : /\ i \in Int /\ i >= 1 /\ i + 1 \in DOMAIN list
                                   /\ list'[i] = list[i + 1]
    <3>1. Tail(list) \in Seq(Reminder)
      BY <1>7, <1>t, <2>0, RestOf DEF Files
    <3> QED
      BY <1>7, <1>t, <2>0, <3>1, RestOf DEF Onwards
  <2>3. \A i, j \in DOMAIN list' : i < j => list'[i].id < list'[j].id
    BY <1>i, <2>2
  <2>4. \A i \in DOMAIN list' : list[1].id < list'[i].id
    BY <1>7, <1>i, <2>0, <2>2
  <2>5. \A i \in DOMAIN list' : /\ list'[i].id \in DOMAIN file /\ file'[list'[i].id] = list'[i]
                                /\ list'[i].status = "pending" /\ list'[i].due <= asof
    <3>1. ASSUME NEW i \in DOMAIN list'
          PROVE  /\ list'[i].id \in DOMAIN file /\ file[list'[i].id] = list'[i]
                 /\ list'[i].status = "pending" /\ list'[i].due <= asof
                 /\ list'[i].id # list[1].id
      BY <1>7, <1>i, <1>l, <2>0, <2>2, <2>4, <3>1
    <3> QED
      BY <2>1, <3>1
  <2>6. ASSUME NEW s \in said PROVE After(file'[s.id], s.due, s.at)
    <3>0. s.id \in DOMAIN file /\ s.due \in Int /\ s.at \in Int
      BY <1>i, <1>k
    <3>1. CASE s.id # list[1].id
      BY <1>7, <2>0, <2>1, <3>0, <3>1
    <3>2. CASE s = [id |-> list[1].id, due |-> list[1].due, at |-> asof]
      BY <1>7, <1>i, <2>0, <2>1, <3>2
    <3>3. CASE s.id = list[1].id /\ After(file[s.id], s.due, s.at)
      <4>1. s.due < list[1].due /\ s.at < list[1].due
        BY <1>7, <2>0, <3>3 DEF After
      <4>2. After(file'[s.id], list[1].due, asof)
        BY <2>1, <3>0, <3>3
      <4>3. copy[1] \in Files
        BY <1>t, <1>n, <2>0, Few
      <4>4. file'[s.id].due \in Int
        <5>1. file'[s.id] \in Reminder
          BY <2>0, <2>1, <3>0, <4>3, ElementsOf DEF Files
        <5> QED
          BY <5>1 DEF Reminder
      <4>5. list[1].due \in Int
        BY <1>7, <1>l, <2>0
      <4> QED
        BY <3>0, <4>1, <4>2, <4>4, <4>5 DEF After
    <3> QED
      BY <1>7, <2>0, <3>1, <3>2, <3>3
  <2> QED
    BY <1>i, <1>z, <2>0, <2>1, <2>2, <2>3, <2>5, <2>6 DEF OnceInv, EachTimeOnce, Marking
<1>10. CASE Restart
  <2>1. /\ phase' = "begin" /\ list' = <<>> /\ copy' = None /\ change' = None
        /\ asof' = 0 /\ said' = {} /\ UNCHANGED <<file, clock>> /\ 0 <= clock
    BY <1>10, Bounds DEF Restart, ReminderTypeOK
  <2> QED
    BY <1>i, <2>1 DEF OnceInv, EachTimeOnce, Marking
<1>11. CASE Tick \/ UNCHANGED reminderVars
  <2>1. /\ UNCHANGED <<file, phase, list, copy, change, changes, asof, said>>
        /\ clock' = clock \/ clock' = clock + 1
    BY <1>11 DEF Tick, reminderVars, user, bounds, announced
  <2>2. asof' <= clock'
    BY <1>i, <1>t, <2>1
  <2> QED
    BY <1>i, <1>z, <2>1, <2>2 DEF OnceInv, EachTimeOnce, Marking
<1> QED
  BY <1>1, <1>2, <1>4, <1>5, <1>6, <1>8, <1>9, <1>10, <1>11, <1>c, <1>z
     DEF ReminderNext, Loop, Add, Cancel, MarkCompleted

\* Every variable has its type; no reminder is marked as triggered that was not announced,
\* wherever the program is killed and whoever saves last; and while the user does not
\* interfere no time of a reminder is announced twice.
THEOREM RemindersHold == ReminderSpec => []ReminderInv
<1>1. ReminderInit => ReminderInv
  <2>1. MarkInv => TriggeredWasAnnounced
    BY DEF MarkInv, TriggeredWasAnnounced
  <2> QED
    BY <2>1, InitTypes, InitMarks, InitOnce DEF ReminderInv
<1>2. ReminderInv /\ [ReminderNext]_reminderVars => ReminderInv'
  <2>1. MarkInv' => TriggeredWasAnnounced'
    BY DEF MarkInv, TriggeredWasAnnounced
  <2> QED
    BY <2>1, StepTypes, StepMarks, StepOnce DEF ReminderInv
<1> QED
  BY <1>1, <1>2, PTL DEF ReminderSpec
===============================================================================
