------------------------------ MODULE Pentest ------------------------------
(***************************************************************************)
(* The audit mode (services/pentest, skills/pentest/skill.py): the user    *)
(* switches it on, names a target, is asked, and a scan of the target's    *)
(* hosts runs in the background of the turns that follow, until it is      *)
(* complete, out of time, or the mode is switched off by a turn or by      *)
(* shutdown.  What the network answers is any answer at each attempt.  One *)
(* action is what runs between two awaits.                                 *)
(***************************************************************************)
EXTENDS Naturals, FiniteSets

CONSTANTS NoTarget,    \* no scope, no question
          Aims,        \* what a target may be called
          HostsOf(_),  \* the hosts that PentestScope.parse makes of it, {} when it refuses
          Ports,       \* COMMON_PORTS, or the port of a URL
          WebPorts,    \* those on which a page is asked for
          Permitted,   \* the hosts that TargetAllowlist permits
          Concurrency, \* the limit on connections
          Enabled      \* security.pentest.enabled

ASSUME PentestAssumption ==
  /\ NoTarget \notin Aims /\ WebPorts \subseteq Ports /\ Concurrency \in Nat \ {0}
  /\ Enabled \in BOOLEAN /\ NoTarget # [kind |-> "leave", target |-> NoTarget]
  /\ IsFiniteSet(Ports) /\ \A t \in Aims : IsFiniteSet(HostsOf(t))

VARIABLES
  mode,     \* state["mode"]: "chat" or "pentest"
  active,   \* active, and what session_id tells: a session is open
  scope,    \* scope
  turn,     \* the await of the turn: NoTarget, what it asks, or "leave" (deactivate)
  job,      \* _task: "none", "created", "running", "expiring", "cancelling"
  status,   \* scan_state["status"]
  aim,      \* the scope of _task
  names,    \* the hosts of the scan: "asked", "valid", "error"
  checks,   \* its ports: "todo", "connecting", "closed", "open", "read", "silent"
  leaving,  \* shutdown's own deactivate: "no", "waits", "done"
  consented    \* history: the targets the user has consented to in this session

pentest == <<mode, active, scope, turn, job, status, aim, names, checks, leaving, consented>>
scanning == <<job, status, aim, names, checks>>

PentestInit ==
  /\ mode = "chat" /\ active = FALSE /\ scope = NoTarget /\ turn = NoTarget /\ job = "none"
  /\ status = "idle" /\ aim = NoTarget /\ names = <<>> /\ checks = <<>> /\ leaving = "no"
  /\ consented = {}

Alive == job # "none"
Turn(kind, target) == [kind |-> kind, target |-> target]
Leaves == Turn("leave", NoTarget)
\* A turn may begin: there is none, and the program is not being closed.
NoTurn == turn = NoTarget /\ leaving = "no"

-----------------------------------------------------------------------------
(* The turns *)

\* parse and ensure_authorized
Authorized(target) == HostsOf(target) # {} /\ HostsOf(target) \subseteq Permitted

Begins(question) ==
  /\ NoTurn /\ turn' = question
  /\ UNCHANGED <<mode, active, scope, scanning, leaving, consented>>

AskToActivate == ~active /\ Enabled /\ Begins(Turn("activate", NoTarget))
\* A new target is read back; nothing is asked of one that is refused.
AskForTarget(target) ==
  active /\ ~Alive /\ Authorized(target) /\ Begins(Turn("target", target))
\* "Start the scan" asks about the target that is set, whether a scan runs or not.
AskToScan == active /\ scope # NoTarget /\ Begins(Turn("scan", scope))

Settable_Inactive(target) == ~Alive /\ Authorized(target)
\* set_target, which looks at everything once more after the wait.
Settable(target) == active /\ ~Alive /\ Authorized(target)
\* start_quick_scan
Startable(target) == target # NoTarget /\ ~Alive

StartScan(target) ==
  /\ job' = "created" /\ status' = "running" /\ aim' = target
  /\ names' = [h \in HostsOf(target) |-> "asked"]
  /\ checks' = [c \in HostsOf(target) \X Ports |-> "todo"]

Activated ==
  /\ turn # NoTarget /\ turn.kind = "activate"
  /\ active' = TRUE /\ mode' = "pentest" /\ turn' = NoTarget /\ consented' = {}
  /\ UNCHANGED <<scope, scanning, leaving>>

TargetConfirmed ==
  /\ turn # NoTarget /\ turn.kind = "target" /\ turn' = NoTarget
  /\ consented' = consented \cup {turn.target}
  /\ IF Settable(turn.target) THEN scope' = turn.target /\ StartScan(turn.target)
     ELSE UNCHANGED <<scope, scanning>>
  /\ UNCHANGED <<mode, active, leaving>>

ScanConfirmed ==
  /\ turn # NoTarget /\ turn.kind = "scan" /\ turn' = NoTarget
  /\ consented' = consented \cup {turn.target}
  /\ IF active /\ Startable(scope) THEN StartScan(scope) ELSE UNCHANGED scanning
  /\ UNCHANGED <<mode, active, scope, leaving>>

\* No, no answer in time, or the question is withdrawn.
Declined ==
  /\ turn # NoTarget /\ turn.kind # "leave" /\ turn' = NoTarget
  /\ UNCHANGED <<mode, active, scope, scanning, leaving, consented>>

\* Back to conversation by the skill that knows nothing of the scan.
ConversationMode ==
  /\ NoTurn /\ mode' = "chat"
  /\ UNCHANGED <<active, scope, turn, scanning, leaving, consented>>

-----------------------------------------------------------------------------
(* deactivate, by a turn and by shutdown *)

CancelJob == job' = (IF Alive THEN "cancelling" ELSE "none")
             /\ UNCHANGED <<status, aim, names, checks>>

Deactivate ==
  /\ NoTurn /\ turn' = Leaves /\ active' = FALSE /\ CancelJob
  /\ UNCHANGED <<mode, scope, leaving, consented>>

ShutDown ==
  /\ leaving = "no" /\ leaving' = "waits" /\ active' = FALSE /\ CancelJob
  /\ UNCHANGED <<mode, scope, turn, consented>>

\* The task has ended, and deactivate goes on behind its await.
JobEnded == ~Alive
AfterCancel(status0) == IF status0 = "running" THEN "cancelled" ELSE status0

Deactivated ==
  /\ turn = Leaves /\ JobEnded
  /\ turn' = NoTarget /\ mode' = "chat" /\ scope' = NoTarget /\ status' = AfterCancel(status)
  /\ UNCHANGED <<active, job, aim, names, checks, leaving, consented>>

\* The turn that is still there is cancelled next.
ShutDownDone ==
  /\ leaving = "waits" /\ JobEnded
  /\ leaving' = "done" /\ scope' = NoTarget /\ status' = AfterCancel(status) /\ turn' = NoTarget
  /\ UNCHANGED <<mode, active, job, aim, names, checks, consented>>

-----------------------------------------------------------------------------
(* _run_quick_scan and BuiltinPentestScanner *)

JobBegins == job = "created" /\ job' = "running" /\ UNCHANGED <<status, aim, names, checks>>

HostResolved(h, result) ==
  /\ job = "running" /\ names[h] = "asked" /\ names' = [names EXCEPT ![h] = result]
  /\ UNCHANGED <<job, status, aim, checks>>

SlotFree == Cardinality({c \in DOMAIN checks : checks[c] = "connecting"}) < Concurrency
ConnectPort(c) ==
  /\ job = "running" /\ checks[c] = "todo" /\ names[c[1]] = "valid" /\ SlotFree
  /\ checks' = [checks EXCEPT ![c] = "connecting"] /\ UNCHANGED <<job, status, aim, names>>
PortAnswered(c, result) ==
  /\ job = "running" /\ checks[c] = "connecting"
  /\ checks' = [checks EXCEPT ![c] = result] /\ UNCHANGED <<job, status, aim, names>>

\* The pages of a host are asked for when all its ports have been tried.
AllTried(h) == \A c \in DOMAIN checks : c[1] = h => checks[c] \notin {"todo", "connecting"}
ToProbe(c) == checks[c] = "open" /\ c[2] \in WebPorts
Probed(c, result) ==
  /\ job = "running" /\ ToProbe(c) /\ AllTried(c[1])
  /\ checks' = [checks EXCEPT ![c] = result] /\ UNCHANGED <<job, status, aim, names>>

HostDone(h) ==
  \/ names[h] = "error"
  \/ names[h] = "valid" /\ AllTried(h) /\ ~\E c \in DOMAIN checks : c[1] = h /\ ToProbe(c)

\* What a scan has found is gone with it, unless it is reported.
GoneWithIt == aim' = NoTarget /\ names' = <<>> /\ checks' = <<>>

\* All hosts are done: the report is saved, or that fails.
ScanEnds(result) ==
  /\ job = "running" /\ \A h \in DOMAIN names : HostDone(h)
  /\ job' = "none" /\ status' = result
  /\ IF result = "completed" THEN UNCHANGED <<aim, names, checks>> ELSE GoneWithIt

\* scan_timeout: wait_for cancels what runs, and tells when it has ended.
ScanExpires == job = "running" /\ job' = "expiring" /\ UNCHANGED <<status, aim, names, checks>>
ScanExpired ==
  job = "expiring" /\ job' = "none" /\ status' = "failed" /\ GoneWithIt

\* The cancellation has gone through; a task that never began leaves its status behind.
Unwound ==
  /\ job = "cancelling" /\ job' = "none" /\ status' \in {status, "cancelled"}
  /\ GoneWithIt

ScanStep ==
  /\ \/ JobBegins \/ ScanExpires \/ ScanExpired \/ Unwound
     \/ \E h \in DOMAIN names, r \in {"valid", "error"} : HostResolved(h, r)
     \/ \E c \in DOMAIN checks : ConnectPort(c)
     \/ \E c \in DOMAIN checks, r \in {"open", "closed"} : PortAnswered(c, r)
     \/ \E c \in DOMAIN checks, r \in {"read", "silent"} : Probed(c, r)
     \/ \E r \in {"completed", "failed"} : ScanEnds(r)
  /\ UNCHANGED <<mode, active, scope, turn, leaving, consented>>

PentestTurn == \/ AskToActivate \/ AskToScan \/ (\E t \in Aims : AskForTarget(t))
               \/ Deactivate \/ ConversationMode
PentestStep == Activated \/ TargetConfirmed \/ ScanConfirmed \/ Declined \/ Deactivated
PentestNext == PentestTurn \/ PentestStep \/ ScanStep \/ ShutDown \/ ShutDownDone
PentestSpec == PentestInit /\ [][PentestNext]_pentest

-----------------------------------------------------------------------------
PentestTypeOK ==
  /\ mode \in {"chat", "pentest"} /\ active \in BOOLEAN /\ scope \in Aims \cup {NoTarget}
  /\ turn \in {NoTarget} \cup [kind : {"activate", "target", "scan", "leave"}, target : Aims \cup {NoTarget}]
  /\ job \in {"none", "created", "running", "expiring", "cancelling"}
  /\ status \in {"idle", "running", "completed", "failed", "cancelled"}
  /\ aim \in Aims \cup {NoTarget} /\ leaving \in {"no", "waits", "done"} /\ consented \subseteq Aims

\* A scan goes on only against a target that the user has consented to since the mode was
\* last switched on, all of whose hosts are permitted, with the mode still on; when
\* deactivate has returned, to a turn or to shutdown, nothing of it is left.
ScansWereApproved ==
  /\ Alive => aim \in consented /\ HostsOf(aim) \subseteq Permitted
  /\ job \in {"created", "running", "expiring"} => active
  /\ ~active /\ turn # Leaves /\ leaving # "waits" => ~Alive /\ scope = NoTarget
  /\ leaving = "done" => ~Alive

\* What makes it inductive: the target that is set was consented to; while the user is
\* asked whether to begin, nothing is set and nothing runs; shutdown leaves no question.
ApprovalHolds ==
  /\ ScansWereApproved
  /\ scope # NoTarget => scope \in consented /\ Authorized(scope)
  /\ turn # NoTarget /\ turn.kind = "activate" => ~active /\ ~Alive /\ scope = NoTarget
  /\ leaving = "done" => turn = NoTarget

\* The status that is read out is that of the scan: it says "running" exactly as long as
\* a scan is, and "completed" only of a scan all of whose ports were tried; never are more
\* connections open than allowed.
StatusIsTheScans ==
  /\ job \in {"created", "running", "expiring"} => status = "running"
  /\ ~Alive /\ status = "running" => turn = Leaves \/ leaving = "waits"
  /\ status = "completed" /\ ~Alive => \A h \in DOMAIN names : HostDone(h)
  /\ Cardinality({c \in DOMAIN checks : checks[c] = "connecting"}) <= Concurrency

\* What makes it inductive: a scan, and a question about one, has a target; somebody waits
\* for a scan that is being cancelled; the ports of a scan can be counted.
ScanHolds ==
  /\ PentestTypeOK /\ StatusIsTheScans
  /\ turn # NoTarget /\ turn.kind \in {"target", "scan"} => turn.target \in Aims
  /\ job = "cancelling" => turn = Leaves \/ leaving = "waits"
  /\ IsFiniteSet(DOMAIN checks)
=============================================================================
