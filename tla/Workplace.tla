----------------------------- MODULE Workplace -----------------------------
(***************************************************************************)
(* The workplace agent (services/apps/workplace.py): a list of programs is *)
(* resolved, shown, approved as a whole and launched one by one, each      *)
(* after a second look at it, with cancellation at every await.  What the  *)
(* index, the disk and the windows show is any answer at each look.  One   *)
(* action is what runs between two awaits.                                 *)
(***************************************************************************)
EXTENDS TaskProgress, FiniteSets, Sequences, SequencesExt

CONSTANTS Lists,   \* what may be asked for: sequences of one to three names
          Targets  \* what a name may be resolved to: a path with the size and time
                   \* of the file there

Names == UNION {ToSet(l) : l \in Lists}

\* What run refuses is not asked for: an empty list, a long one, a name twice.
ASSUME WorkplaceAssumption ==
  \A l \in Lists : l \in Seq(Names) /\ Len(l) \in 1..3 /\ IsInjective(l)

VARIABLES
  step,      \* the await at which run stands, "idle" outside (busy = FALSE)
  task,      \* current
  cancelled, \* the event
  plan,      \* targets
  fresh,     \* fresh: the program as the second look has found it
  verdict,   \* what confirm has returned
  last,      \* _last_task (done, the names it had verified, is history)
  spared,    \* history: the names that the task being retried had verified
  agreed,    \* history: what the user has said yes to in this task
  launched   \* history: every Popen of this task

workplace == <<step, task, cancelled, plan, fresh, verdict, last, spared, agreed, launched>>
history == <<spared, agreed, launched>>

Awaits == {"resolving", "asking", "answered", "settling", "checking", "inspecting",
           "verifying"}
StepStates == {"pending", "running", "verifying", "verified", "unknown", "skipped", "saved"}
Evidence == {"nothing", "process", "window"}

Busy == step \in Awaits
Count == Len(task.steps)
\* The step being carried out: the first that is neither verified nor left alone.
Present == CHOOSE k \in 1..Count : /\ task.steps[k].status # "verified"
                                   /\ \A j \in 1..(k - 1) : task.steps[j].status = "verified"

WorkplaceInit ==
  /\ step = "idle" /\ task = None /\ cancelled = FALSE /\ plan = <<>> /\ fresh = None
  /\ verdict = "no" /\ last = None
  /\ spared = {} /\ agreed = <<>> /\ launched = {}

-----------------------------------------------------------------------------
(* The beginning and the end *)

Begin(kind, names, verified) ==
  /\ step = "idle" /\ NewId
  /\ step' = "resolving" /\ cancelled' = FALSE /\ plan' = <<>> /\ last' = None
  /\ task' = [id |-> issued', kind |-> kind, status |-> "planning",
              steps |-> [k \in 1..Len(names) |-> [name |-> names[k], status |-> "pending"]]]
  /\ verdict' = "no" /\ agreed' = <<>> /\ spared' = verified
  /\ launched' = {} /\ UNCHANGED fresh

\* A list of the user's, or the one in the profile.
Run == \E kind \in {"launch", "configure"}, names \in Lists : Begin(kind, names, {})

\* What a retry takes up: the steps that were not verified, in their order.
Remaining(steps) ==
  LET left == {k \in DOMAIN steps : steps[k].status # "verified"}
      order == CHOOSE o \in [1..Cardinality(left) -> left] :
                 \A i, j \in DOMAIN o : i < j => o[i] < o[j]
  IN [i \in DOMAIN order |-> steps[order[i]]]

\* followup: a new plan for the rest of the last task, if that is fresh.
Retry ==
  /\ last # None /\ last.fresh /\ last.rest # <<>>
  /\ Begin("launch", last.rest, last.done)

\* A followup finds the last task too old.
Forget ==
  /\ step = "idle" /\ last # None /\ ~last.fresh
  /\ last' = None
  /\ NoNewId /\ UNCHANGED <<step, task, cancelled, plan, fresh, verdict, history>>

\* Five minutes pass.
Expire ==
  /\ last # None /\ last.fresh /\ last' = [last EXCEPT !.fresh = FALSE]
  /\ NoNewId /\ UNCHANGED <<step, task, cancelled, plan, fresh, verdict, history>>

\* clear_context, when a new conversation begins.
ClearContext ==
  /\ step = "idle" /\ task # None
  /\ task' = None /\ last' = None
  /\ NoNewId /\ UNCHANGED <<step, cancelled, plan, fresh, verdict, history>>

Ended(status) == CASE status \in {"running", "verifying"} -> "unknown"
                   [] status = "pending" -> "skipped"
                   [] OTHER -> status

Leave_Busy(status) == step' = IF status = "failed" THEN "failed" ELSE "idle"
\* busy = False; an interrupted turn is the last.
Leave(status) == step' = IF status = "interrupted" THEN "down" ELSE "idle"

\* _finish and the finally block of run, whose locals are gone.
Finish(steps, status) ==
  LET over == [k \in DOMAIN steps |-> [steps[k] EXCEPT !.status = Ended(@)]]
      names(s) == [k \in DOMAIN s |-> s[k].name]
  IN /\ task' = [task EXCEPT !.status = status, !.steps = over]
     /\ last' = IF task.kind = "configure" THEN last
                ELSE [fresh |-> TRUE, rest |-> names(Remaining(over)),
                      done |-> {s.name : s \in {t \in ToSet(over) : t.status = "verified"}}]
     /\ Leave(status)
     /\ plan' = <<>> /\ fresh' = None /\ verdict' = "no" /\ agreed' = <<>> /\ spared' = {}

Stays == UNCHANGED <<cancelled, launched>> /\ NoNewId
\* What the locals of run hold is left alone.
Kept == UNCHANGED <<plan, fresh, verdict, last, spared, agreed>>

\* An await raises: an error of the index, the disk or the system, or a time limit.
Fails ==
  /\ step \in {"resolving", "checking", "inspecting", "verifying"}
  /\ Finish(task.steps, "failed") /\ Stays

\* Shutdown cancels the turn.
Interrupted == Busy /\ Finish(task.steps, "interrupted") /\ Stays

-----------------------------------------------------------------------------
(* The plan and its approval *)

NewProgram(target) == \A k \in 1..Len(plan) : plan[k].path # target.path

\* One name of the list is resolved.
Resolved(target) ==
  /\ step = "resolving"
  /\ \/ cancelled /\ Finish(task.steps, "cancelled")
     \/ ~cancelled /\ ~NewProgram(target) /\ Finish(task.steps, "failed")
     \/ /\ ~cancelled /\ NewProgram(target)
        /\ plan' = Append(plan, target)
        /\ IF Len(plan') = Count
           THEN step' = "asking" /\ task' = [task EXCEPT !.status = "awaiting_confirmation"]
           ELSE UNCHANGED <<step, task>>
        /\ UNCHANGED <<fresh, verdict, last, spared, agreed>>
  /\ Stays

\* confirm returns or raises; _approve has not yet been resumed.
Answered(answer) ==
  /\ step = "asking"
  /\ step' = "answered" /\ verdict' = answer
  /\ agreed' = IF answer = "yes" THEN plan ELSE <<>>
  /\ UNCHANGED <<task, cancelled, plan, fresh, last, spared, launched>> /\ NoNewId

\* _approve goes on, with the answer or because of a cancellation, and awaits both of
\* its helper tasks.
Approve ==
  /\ \/ step = "answered"
     \/ step = "asking" /\ cancelled
  /\ step' = "settling" /\ verdict' = IF cancelled THEN "no" ELSE verdict
  /\ UNCHANGED <<task, cancelled, plan, fresh, last, history>> /\ NoNewId

\* The look at the event before a step, before its launch and after its verification.
MayGoOn == ~cancelled

\* The loop over the steps, up to its first await.
NextStep(steps, k) ==
  \/ k > Len(steps) /\ Finish(steps, "completed")
  \/ k <= Len(steps) /\ ~MayGoOn /\ Finish(steps, "cancelled")
  \/ /\ k <= Len(steps) /\ MayGoOn
     /\ task' = [task EXCEPT !.status = "running", !.steps = [steps EXCEPT ![k].status = "running"]]
     /\ step' = "checking" /\ Kept

\* run has the answer: nothing is done without a yes, a list is saved without another
\* look at the event, or the steps begin.
Settled ==
  /\ step = "settling"
  /\ \/ verdict # "yes" /\ Finish(task.steps, IF verdict = "no" THEN "cancelled" ELSE "failed")
     \/ /\ verdict = "yes" /\ task.kind = "configure"
        /\ \/ Finish([k \in 1..Count |-> [task.steps[k] EXCEPT !.status = "saved"]], "saved")
           \/ Finish(task.steps, "failed")
     \/ verdict = "yes" /\ task.kind = "launch" /\ NextStep(task.steps, 1)
  /\ Stays

-----------------------------------------------------------------------------
(* One step *)

\* The program is still the one that was approved.
Same(found, target) == found = target

Checked(target) ==
  /\ step = "checking"
  /\ IF Same(target, plan[Present])
     THEN fresh' = target /\ step' = "inspecting" /\ UNCHANGED <<task, plan, verdict, last, spared, agreed>>
     ELSE Finish(task.steps, "failed")
  /\ Stays

With(status) == [task.steps EXCEPT ![Present].status = status]

\* No process and no window: Popen.
Launch == launched \cup {[step |-> Present, target |-> fresh, late |-> cancelled]}

\* The first look for a window.
Inspected(evidence) ==
  /\ step = "inspecting"
  /\ \/ ~MayGoOn /\ Finish(task.steps, "cancelled") /\ UNCHANGED launched
     \/ /\ MayGoOn /\ evidence = "window"
        /\ NextStep(With("verified"), Present + 1) /\ UNCHANGED launched
     \/ /\ MayGoOn /\ evidence # "window"
        /\ step' = "verifying" /\ task' = [task EXCEPT !.steps = With("verifying")]
        /\ launched' = IF evidence = "process" THEN launched ELSE Launch
        /\ Kept
     \/ /\ MayGoOn /\ evidence = "nothing"   \* Popen fails
        /\ Finish(With("verifying"), "failed") /\ UNCHANGED launched
  /\ UNCHANGED cancelled /\ NoNewId

\* _verify_window returns: a window, the time is up, or the task was cancelled.
Verified(evidence) ==
  /\ step = "verifying"
  /\ \/ ~MayGoOn /\ Finish(task.steps, "cancelled")
     \/ MayGoOn /\ evidence = "window" /\ NextStep(With("verified"), Present + 1)
     \/ MayGoOn /\ evidence # "window" /\ Finish(With("unknown"), "partial")
  /\ Stays

-----------------------------------------------------------------------------
\* cancel, which the windows and a typed line call with an id.
CancelTask(id) ==
  /\ Busy /\ NamesTask(id, task.id)
  /\ cancelled' = TRUE
  /\ UNCHANGED <<step, task, plan, fresh, verdict, last, history, issued>>

Progress ==
  \/ \E t \in Targets : Resolved(t) \/ Checked(t)
  \/ \E e \in Evidence : Inspected(e) \/ Verified(e)
  \/ \E a \in {"yes", "no", "error"} : Answered(a)
  \/ Approve \/ Settled \/ Fails

WorkplaceNext ==
  Run \/ Retry \/ Forget \/ Expire \/ ClearContext \/ Progress \/ Interrupted

-----------------------------------------------------------------------------
(* What run knows at each of its awaits (see TasksProofs) *)

Carrying == step \in {"checking", "inspecting", "verifying"}

\* A task has a step for each name asked for, and none for what is not to be done again.
TaskInv ==
  /\ cancelled \in BOOLEAN
  /\ Busy =>
       /\ DOMAIN task = {"id", "kind", "status", "steps"}
       /\ task.kind \in {"launch", "configure"} /\ task.status # "completed"
       /\ task.steps \in [1..Count -> [name : Names, status : StepStates]] /\ Count \in 1..3
       /\ \A j, k \in 1..Count : task.steps[j].name = task.steps[k].name => j = k
       /\ \A k \in 1..Count : task.steps[k].name \notin spared

\* The plan has a program of its own for each step, and the yes was to all of it.
PlanInv ==
  /\ Busy =>
       /\ plan \in Seq(Targets)
       /\ IF step = "resolving" THEN Len(plan) < Count ELSE Len(plan) = Count
       /\ \A j, k \in 1..Len(plan) : plan[j].path = plan[k].path => j = k
  /\ step \in {"answered", "settling"} /\ verdict = "yes" => agreed = plan
  /\ Carrying => agreed = plan /\ task.kind = "launch"

\* How far the p-th step has come, and all others.
CarryingOut(p) ==
  /\ \A k \in 1..Count : task.steps[k].status =
       CASE k < p -> "verified" [] k > p -> "pending"
         [] OTHER -> IF step = "verifying" THEN "verifying" ELSE "running"
  /\ step = "inspecting" => fresh = plan[p]
  /\ \A l \in launched : /\ l.step \in 1..(IF step = "verifying" THEN p ELSE p - 1)
                         /\ l = [step |-> l.step, target |-> plan[l.step], late |-> FALSE]

\* Programs are started one by one, each as it is in the plan.
LaunchInv ==
  /\ Busy /\ ~Carrying => launched = {} /\ \A k \in 1..Count : task.steps[k].status = "pending"
  /\ Carrying => \E p \in 1..Count : CarryingOut(p)

\* What a retry would take up is nothing that was done.
LastInv ==
  last # None => /\ last.rest \in Seq(Names) /\ Len(last.rest) <= 3 /\ IsInjective(last.rest)
                 /\ \A i \in 1..Len(last.rest) : last.rest[i] \notin last.done

\* What a task that has ended is reported to have done.
ToldInv ==
  task # None /\ ~Busy =>
    /\ \A l \in launched : l.step \in 1..Count /\ task.steps[l.step].status \in {"verified", "unknown"}
    /\ \A k \in 1..Count : task.steps[k].status \in {"verified", "unknown", "skipped", "saved"}
    /\ task.status = "completed" => \A k \in 1..Count : task.steps[k].status = "verified"

WorkInv == TaskInv /\ PlanInv /\ LaunchInv /\ LastInv /\ ToldInv
=============================================================================
