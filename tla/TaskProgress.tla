---------------------------- MODULE TaskProgress ----------------------------
(***************************************************************************)
(* What the executors of long tasks share (core/task_progress.py): every   *)
(* task has an id of its own, and a cancellation names the id it is meant  *)
(* for.  Ids are numbers in the order in which the tasks were started, for *)
(* uuid4 and started_at.                                                   *)
(***************************************************************************)
EXTENDS Naturals

CONSTANTS None,     \* no task, no list, no name
          MaxTasks  \* bound: tasks started

ASSUME TaskAssumption == MaxTasks \in Nat

VARIABLES
  issued,  \* the last id
  meant    \* history: the ids for which the user has asked to cancel since then

Ids == 1..MaxTasks
NewId == issued < MaxTasks /\ issued' = issued + 1 /\ meant' = {}
NoNewId == UNCHANGED <<issued, meant>>

NamesTask_Any(id, current) == TRUE
\* An executor cancels nothing but the task that the id names.
NamesTask(id, current) == id = current
=============================================================================
