-------------------------- MODULE AtomicFileContract --------------------------
(***************************************************************************)
(* What AtomicJSONFile (core/atomic_json.py) promises its stores: a file   *)
(* that holds one value; a save replaces it as a whole, at one moment or,  *)
(* if the program dies, perhaps not at all; a load returns what it holds.  *)
(* A machine that loses what it has written may break the file; a load     *)
(* then puts an earlier value in its place, or returns the default.        *)
(***************************************************************************)
CONSTANTS Values, Default,
          Broken  \* what cannot be read

VARIABLES faulty, \* whether the machine may lose what was written
          value,  \* what the file holds
          saving, \* the value of the save in progress, if any
          loaded  \* what the last load returned

vars == <<faulty, value, saving, loaded>>

Nothing == <<>>

Init == faulty \in BOOLEAN /\ value = Default /\ saving = Nothing /\ loaded = Nothing

Begin == saving = Nothing /\ saving' \in {<<v>> : v \in Values} /\ UNCHANGED <<value, loaded>>
Take == /\ saving # Nothing /\ <<value>>' = saving
        /\ UNCHANGED loaded /\ saving' \in {saving, Nothing}
Finish == saving # Nothing /\ saving' = Nothing /\ UNCHANGED <<value, loaded>>
Load == value # Broken /\ loaded' = <<value>> /\ UNCHANGED <<value, saving>>

Break == faulty /\ value' = Broken /\ saving' = Nothing /\ UNCHANGED loaded
Restore == /\ faulty /\ saving = Nothing /\ UNCHANGED saving
           /\ \/ value' \in Values /\ loaded' = <<value'>>
              \/ UNCHANGED value /\ loaded' = <<Default>>

Next == (Begin \/ Take \/ Finish \/ Load \/ Break \/ Restore) /\ UNCHANGED faulty

Spec == Init /\ [][Next]_vars
==============================================================================
