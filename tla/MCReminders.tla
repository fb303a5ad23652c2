------------------------------ MODULE MCReminders ------------------------------
(* Reminders on small instances: see MCReminders*.cfg. *)
EXTENDS Reminders

CONSTANTS tea, post

Old(i, text, due, every) ==
  [id |-> i, text |-> text, due |-> due, every |-> every, status |-> "pending"]

\* No file, one reminder that was missed, a recurring one beside one that is to come, and
\* two of the same text that recur.
Files_Earlier ==
  {<<>>, <<Old(1, tea, -1, 0)>>, <<Old(1, tea, -3, 2), Old(2, post, 1, 0)>>,
   <<Old(1, tea, 0, 3), Old(2, tea, 0, 2)>>}
==============================================================================
