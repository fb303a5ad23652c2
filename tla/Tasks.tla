------------------------------- MODULE Tasks -------------------------------
(***************************************************************************)
(* The long tasks of a session together: the turns that run them, one at a *)
(* time, the scan that goes on behind them, the window that shows the      *)
(* current one (TaskProgressRegistry), its buttons and the typed lines     *)
(* that cancel (core/app.py), and shutdown.                                *)
(***************************************************************************)
EXTENDS Workplace, FileSearch, WebAnswers, Pentest, Stores

CONSTANT Profiles  \* the sets of skills that are enabled, one of them in a session

VARIABLES shown,   \* what the window shows: the kind and id of a task, or None
          skills   \* enabled_skills

asking == <<web, answers>>
vars == <<issued, meant, shown, skills, workplace, searches, asking, pentest, stores>>

Init ==
  /\ WorkplaceInit /\ SearchInit /\ WebInit /\ PentestInit /\ StoresInit
  /\ issued = 0 /\ meant = {} /\ shown = None /\ skills \in Profiles
  /\ "web" \in skills \/ site = CHOOSE s \in Sites : TRUE  \* a web nobody looks at

\* A turn is free to begin another task.
Free == step = "idle" /\ searching = "no" /\ look = "idle" /\ turn = NoTarget
        /\ waits = "no" /\ ~stopped
Local == UNCHANGED <<skills, asking, pentest, stores>>

WorkplaceTurn == /\ Free /\ "workplace" \in skills /\ (Run \/ Retry \/ Forget \/ ClearContext)
                 /\ UNCHANGED <<searches, shown>> /\ Local
\* Bound: the five minutes of a plan and of a search pass in sessions without the other.
OnItsOwn == Cardinality(skills) = 1
WorkplaceStep == (Progress \/ (OnItsOwn /\ Expire)) /\ UNCHANGED <<searches, shown>> /\ Local
Cut == Interrupted /\ UNCHANGED <<searches, shown>> /\ Local
SearchTurn == /\ Free /\ "files" \in skills /\ (\E r \in Requests : BeginSearch(r))
              /\ UNCHANGED <<workplace, shown>> /\ Local
SearchStep == (SearchProgress \/ (OnItsOwn /\ SearchAges)) /\ UNCHANGED <<workplace, shown>> /\ Local

Elsewhere == UNCHANGED <<issued, meant, shown, skills, workplace, searches>>
WebTask == /\ Free /\ "web" \in skills /\ WebTurn /\ Elsewhere /\ UNCHANGED <<pentest, stores>>
WebGoesOn == (WebStep \/ AnswerAges) /\ Elsewhere /\ UNCHANGED <<pentest, stores>>
PentestTask == /\ Free /\ "pentest" \in skills /\ PentestTurn /\ Elsewhere /\ UNCHANGED <<asking, stores>>
PentestGoesOn == (PentestStep \/ ScanStep) /\ Elsewhere /\ UNCHANGED <<asking, stores>>

\* The knowledge base, the facts and the passwords are stores of one skill, each with turns
\* of its own.
StoresTask ==
  /\ Free
  /\ \/ "knowledge" \in skills /\ KnowledgeTurn
     \/ "memory" \in skills /\ MemoryTurn
     \/ "passwords" \in skills /\ PasswordTurn
  /\ Elsewhere /\ UNCHANGED <<asking, pentest>>
StoresGoOn == StoresStep /\ Elsewhere /\ UNCHANGED <<asking, pentest>>
TimerFires == ~stopped /\ ClearClipboard /\ Elsewhere /\ UNCHANGED <<asking, pentest>>
UserActs ==
  /\ \/ "knowledge" \in skills /\ FolderChanges
     \/ "passwords" \in skills /\ UserCopies
  /\ Elsewhere /\ UNCHANGED <<asking, pentest>>

\* Shutdown closes the search first, and later switches the audit mode off; without the
\* skill that changes nothing.  Bound: of the two stores it only cancels the turn (NotDone).
Close == skills \cap {"knowledge", "memory"} = {} /\ CloseFiles /\ UNCHANGED <<workplace, shown>> /\ Local
CloseScan == "pentest" \in skills /\ stopped /\ (ShutDown \/ ShutDownDone)
             /\ Elsewhere /\ UNCHANGED <<asking, stores>>

\* TaskProgressRegistry.current: the active task, or else the latest.
Shown ==
  LET works == IF task = None THEN {} ELSE {[kind |-> "workplace", id |-> task.id, active |-> Busy]}
      finds == IF search = None THEN {}
               ELSE {[kind |-> "file_search", id |-> search.id, active |-> search.active]}
      tasks == works \cup finds
      first == IF \E t \in tasks : t.active THEN {t \in tasks : t.active} ELSE tasks
  IN IF tasks = {} THEN None
     ELSE CHOOSE t \in first : \A u \in first : u.id <= t.id

\* The window is told the state; it keeps showing it until it is told again.
Show ==
  /\ shown # Shown /\ shown' = Shown
  /\ UNCHANGED <<issued, meant, workplace, searches>> /\ Local

\* web_control: cancel_progress looks at the current task first, cancel_task and
\* cancel_search leave that to the executor.
Press ==
  /\ shown # None
  /\ meant' = meant \cup {shown.id}
  /\ \/ shown.kind = "workplace" /\ CancelTask(shown.id) /\ UNCHANGED searches
     \/ shown.kind = "file_search" /\ CancelSearch(shown.id) /\ UNCHANGED workplace
  /\ UNCHANGED shown /\ Local

\* A typed line cancels whatever runs.
TypeCancel ==
  /\ \/ Busy /\ CancelTask(task.id) /\ meant' = meant \cup {task.id} /\ UNCHANGED searches
     \/ /\ search # None /\ CancelSearch(search.id)
        /\ meant' = meant \cup {search.id} /\ UNCHANGED workplace
  /\ UNCHANGED shown /\ Local

Next == \/ WorkplaceTurn \/ WorkplaceStep \/ Cut \/ SearchTurn \/ SearchStep
        \/ WebTask \/ WebGoesOn \/ PentestTask \/ PentestGoesOn \/ StoresTask \/ StoresGoOn
        \/ TimerFires \/ UserActs
        \/ Close \/ CloseScan \/ Show \/ Press \/ TypeCancel

Spec == Init /\ [][Next]_vars

\* Every await of a task has a time limit of its own: ten seconds for a name, three for
\* a look, eight for a window, the deadline of a confirmation, the budget of a search,
\* ten seconds for the finder, twelve for the pages, twenty-five for a summary,
\* scan_timeout for a scan; a cancelled scan unwinds.
FairSpec == /\ Spec
            /\ WF_vars(Progress /\ UNCHANGED <<searches, shown>> /\ Local)
            /\ WF_vars(SearchProgress /\ UNCHANGED <<workplace, shown>> /\ Local)
            /\ WF_vars(WebStep /\ Elsewhere /\ UNCHANGED <<pentest, stores>>)
            /\ WF_vars(ScanStep /\ Elsewhere /\ UNCHANGED <<asking, stores>>)
            /\ WF_vars(PentestStep /\ Elsewhere /\ UNCHANGED <<asking, stores>>)
            /\ WF_vars(StoresGoOn) /\ WF_vars(TimerFires)

-----------------------------------------------------------------------------
StepsOf(n) == [1..n -> [name : Names, status : StepStates]]
Searches == [id : Ids, active : BOOLEAN, stage : Stages, cancel : BOOLEAN]

TypeOK ==
  /\ issued \in 0..MaxTasks /\ meant \subseteq Ids
  /\ step \in Awaits \cup {"idle", "down"} /\ cancelled \in BOOLEAN
  /\ \/ task = None
     \/ /\ task.id \in Ids /\ task.kind \in {"launch", "configure"}
        /\ task.steps \in StepsOf(Count)
  /\ plan \in Seq(Targets) /\ fresh \in Targets \cup {None}
  /\ verdict \in {"yes", "no", "error"}
  /\ searching \in {"no", "walking", "settled"}
  /\ search = None \/ search \in Searches
  /\ key \in Keys \cup {None} /\ cursor \in 0..Files \cup {None}
  /\ page \in Seq(1..Files) /\ Len(page) <= Limit

\* What a step is reported to be agrees with what was done: a step that is said to have
\* been left out launched nothing, and nothing that has ended is still said to go on.
StepsTellTheTruth ==
  task # None =>
    /\ \A l \in launched : task.steps[l.step].status \in {"verifying", "verified", "unknown"}
    /\ ~Busy => \A k \in 1..Count : task.steps[k].status \in {"verified", "unknown", "skipped", "saved"}
    /\ task.status = "completed" => \A k \in 1..Count : task.steps[k].status = "verified"

\* A button pressed for a task that the window still shows never cancels the next one
\* (docs/ARCHITECTURE.md:181: "cancel" looks at the operational id again).
CancelMeetsItsTask ==
  /\ Busy /\ cancelled => task.id \in meant
  /\ search # None /\ search.active /\ search.cancel => search.id \in meant

\* A walk is active while the thread is at it.
WalkInv == /\ searching # "no" => search \in Searches
           /\ search # None => search \in Searches /\ (search.active => searching = "walking")

\* Each matching file that a walk has passed has been handed out, once, or is in the page that
\* will be, or could not be read; a walk that goes on is one for the same request.
Handed == IF searching = "no" THEN given ELSE given \o page
HandedInv ==
  /\ given \in Seq(1..Files) /\ IsInjective(Handed) /\ stopped \in BOOLEAN
  /\ searching = "walking" \/ cursor # None =>
       /\ cursor \in 0..Files /\ key[1] = asked
       /\ ToSet(Handed) \cup skipped = Wanted(asked) \cap 1..cursor
  /\ searching = "walking" => search.stage # "completed"
  /\ search # None /\ search.stage = "completed" =>
       ToSet(Handed) \cup skipped = Wanted(asked) \cap 1..Files
  /\ searching # "walking" /\ search # None /\ search.cancel => page = <<>>

Inv == TypeOK /\ WebInv /\ StoresTypeOK /\ StepsTellTheTruth /\ CancelMeetsItsTask
       /\ ScanHolds /\ WorkInv /\ WalkInv /\ HandedInv /\ StoresHold

\* A program is launched only as the user has approved it in this very task, the file
\* being the same at the second look, never after the task was cancelled, no program
\* twice in one task, and in a retry nothing that was verified before.
LaunchesWereApproved ==
  Busy => \A l \in launched :
    /\ l.step \in 1..Len(agreed) /\ agreed[l.step] = l.target /\ ~l.late
    /\ task.steps[l.step].name \notin spared
    /\ \A m \in launched : m.target.path = l.target.path => m = l

\* What is started on the user's computer or asked of another was approved by the user.
OnlyApprovedRuns == LaunchesWereApproved /\ ScansWereApproved

\* The pages of a walk hand out each matching file once and leave none out, over any
\* number of requests, full pages and spent budgets; a cancelled search hands out none.
PagesAreWhole ==
  /\ IsInjective(given)
  /\ searching = "no" /\ search # None /\ search.stage \in {"partial", "completed"} =>
       LET passed == IF search.stage = "completed" THEN 1..Files ELSE 1..cursor
       IN cursor # None \/ search.stage = "completed" =>
            ToSet(given) \cup skipped = Wanted(asked) \cap passed
  /\ searching = "no" /\ search # None /\ search.cancel => page = <<>>

\* What a search hands out is whole, so is what is imported, and what the user was told is
\* forgotten is gone.
DataIsWhole == PagesAreWhole /\ ImportsAreOfOneVersion /\ ForgottenStaysForgotten

\* Whatever the index, the windows, the web and the user do, a task of a turn ends and the
\* next is let in (no two are at work at once), and so does a scan behind the turns; a
\* password leaves the clipboard again, unless the program is closed before.
AtWork == step \notin {"idle", "down"} \/ searching # "no" \/ look # "idle" \/ turn # NoTarget
          \/ waits # "no"
TasksEnd == /\ AtWork ~> ~AtWork
            /\ Alive ~> ~Alive
            /\ \A p \in Passwords : clip = p ~> clip # p \/ stopped

\* search_result promises: "repeat the same request within five minutes, to continue".
RepeatedRequestContinues ==
  [][\A r \in Requests :
       BeginSearch(r) /\ r = asked /\ recent /\ cursor # None => cursor' = cursor]_vars
=============================================================================
