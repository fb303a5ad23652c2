----------------------------- MODULE TasksProofs -----------------------------
(***************************************************************************)
(* Theorems about Tasks and the skills it composes, each skill by itself   *)
(* and then among the others, whose steps leave its variables alone; in    *)
(* whatever order the tasks of a session come and end.                     *)
(*                                                                         *)
(* ApprovalHolds and ScanHolds (in Pentest) are what the audit mode keeps: *)
(* consent and status. WorkInv (in Workplace): what is launched is the     *)
(* next program of the plan, the plan is what was approved, what a retry   *)
(* takes up is nothing that was verified, and what a task reports is what  *)
(* it did. CancelInv says whom a cancellation meets, HandedInv what the    *)
(* pages of a walk hold, WebInv what an answer stands on, StoresHold what  *)
(* is remembered. The last part puts them together.                        *)
(***************************************************************************)
EXTENDS Tasks, TLAPS, FiniteSetTheorems, SequenceTheorems

-----------------------------------------------------------------------------
(***************************************************************************)
(* The audit mode, by itself: a scan runs only against what the user has   *)
(* consented to in this session and the list permits, and not behind a     *)
(* mode that is off.  The target that is set carries the consent from the  *)
(* question to a later scan; a new session begins without one because      *)
(* nothing is set while the user is asked to begin it.                     *)
(***************************************************************************)
LEMMA InitApproved == PentestInit => ApprovalHolds
BY DEF PentestInit, ApprovalHolds, ScansWereApproved, Alive

(***************************************************************************)
(* The scan's own steps end it or go on with it: they never begin one.     *)
(***************************************************************************)
LEMMA ScanStepsGoOn ==
  ASSUME ScanStep
  PROVE  /\ UNCHANGED <<mode, active, scope, turn, leaving, consented>>
         /\ Alive
         /\ \/ job' = "none"
            \/ aim' = aim /\ job \in {"created", "running"} /\ job' \in {"running", "expiring"}
<1>1. CASE JobBegins
  BY <1>1 DEF JobBegins, ScanStep, Alive
<1>2. CASE ScanExpires
  BY <1>2 DEF ScanExpires, ScanStep, Alive
<1>3. CASE ScanExpired \/ Unwound \/ \E r \in {"completed", "failed"} : ScanEnds(r)
  BY <1>3 DEF ScanExpired, Unwound, ScanEnds, ScanStep, Alive
<1>4. CASE \E h \in DOMAIN names, r \in {"valid", "error"} : HostResolved(h, r)
  BY <1>4 DEF HostResolved, ScanStep, Alive
<1>5. CASE \/ \E c \in DOMAIN checks : ConnectPort(c)
           \/ \E c \in DOMAIN checks, r \in {"open", "closed"} : PortAnswered(c, r)
           \/ \E c \in DOMAIN checks, r \in {"read", "silent"} : Probed(c, r)
  BY <1>5 DEF ConnectPort, PortAnswered, Probed, ScanStep, Alive
<1> QED
  BY <1>1, <1>2, <1>3, <1>4, <1>5 DEF ScanStep

LEMMA StepApproved == ApprovalHolds /\ [PentestNext]_pentest => ApprovalHolds'
<1> SUFFICES ASSUME ApprovalHolds, [PentestNext]_pentest PROVE ApprovalHolds'
  OBVIOUS
<1> USE DEF ApprovalHolds, ScansWereApproved, Alive, Authorized
<1>1. CASE PentestTurn
  <2>1. CASE AskToActivate
    BY <2>1, PentestAssumption DEF AskToActivate, Begins, NoTurn, Turn, Leaves, scanning
  <2>2. CASE AskToScan
    BY <2>2 DEF AskToScan, Begins, NoTurn, Turn, Leaves, scanning
  <2>3. ASSUME NEW t \in Aims, AskForTarget(t) PROVE ApprovalHolds'
    BY <2>3 DEF AskForTarget, Begins, NoTurn, Turn, Leaves, scanning
  <2>4. CASE Deactivate
    BY <2>4 DEF Deactivate, CancelJob, NoTurn, Turn, Leaves
  <2>5. CASE ConversationMode
    BY <2>5 DEF ConversationMode, NoTurn, scanning
  <2> QED
    BY <1>1, <2>1, <2>2, <2>3, <2>4, <2>5 DEF PentestTurn
<1>2. CASE PentestStep
  <2>1. CASE Activated
    BY <2>1 DEF Activated, scanning
  <2>2. CASE TargetConfirmed
    BY <2>2 DEF TargetConfirmed, Settable, StartScan, scanning, Turn, Leaves
  <2>3. CASE ScanConfirmed
    BY <2>3 DEF ScanConfirmed, Startable, StartScan, scanning, Turn, Leaves
  <2>4. CASE Declined
    BY <2>4 DEF Declined, scanning, Turn, Leaves
  <2>5. CASE Deactivated
    BY <2>5 DEF Deactivated, JobEnded
  <2> QED
    BY <1>2, <2>1, <2>2, <2>3, <2>4, <2>5 DEF PentestStep
<1>3. CASE ScanStep
  BY <1>3, ScanStepsGoOn
<1>4. CASE ShutDown
  BY <1>4 DEF ShutDown, CancelJob
<1>5. CASE ShutDownDone
  BY <1>5 DEF ShutDownDone, JobEnded
<1>6. CASE UNCHANGED pentest
  BY <1>6 DEF pentest
<1> QED
  BY <1>1, <1>2, <1>3, <1>4, <1>5, <1>6 DEF PentestNext

(***************************************************************************)
(* Whatever the user answers, the network does and shutdown meets, a scan  *)
(* is one that was approved (services/pentest/service.py).                 *)
(***************************************************************************)
THEOREM Approval == PentestSpec => []ScansWereApproved
<1>1. ApprovalHolds => ScansWereApproved
  BY DEF ApprovalHolds
<1> QED
  BY InitApproved, StepApproved, <1>1, PTL DEF PentestSpec

\* What is set is as it should be, and what is read out is the state of the scan, whatever ends it.
LEMMA InitScanHolds == PentestInit => ScanHolds
<1> SUFFICES ASSUME PentestInit PROVE ScanHolds
  OBVIOUS
<1>1. DOMAIN checks = {} /\ DOMAIN names = {}
  BY DEF PentestInit
<1>2. {c \in DOMAIN checks : checks[c] = "connecting"} = {}
  BY <1>1
<1>3. IsFiniteSet(DOMAIN checks) /\ Cardinality({}) = 0
  BY <1>1, FS_EmptySet
<1>4. StatusIsTheScans
  BY <1>1, <1>2, <1>3, PentestAssumption DEF PentestInit, StatusIsTheScans, Alive
<1> QED
  BY <1>3, <1>4 DEF PentestInit, ScanHolds, PentestTypeOK

Connecting == {c \in DOMAIN checks : checks[c] = "connecting"}
ConnectionsInv == IsFiniteSet(DOMAIN checks) /\ Cardinality(Connecting) <= Concurrency

\* A connection takes a free slot, and everything else a scan does gives slots back.
LEMMA ConnectionsStep ==
  ASSUME PentestTypeOK, ConnectionsInv,
         turn # NoTarget /\ turn.kind \in {"target", "scan"} => turn.target \in Aims,
         [PentestNext]_pentest
  PROVE  ConnectionsInv'
<1> USE DEF ConnectionsInv
<1>1. IsFiniteSet(Connecting) /\ Cardinality(Connecting) \in Nat
  BY FS_Subset, FS_CardinalityType DEF Connecting
<1>2. ASSUME IsFiniteSet(DOMAIN checks'), Connecting' \subseteq Connecting PROVE ConnectionsInv'
  BY <1>1, <1>2, FS_Subset, FS_CardinalityType, PentestAssumption
<1>3. CASE checks' = checks
  BY <1>2, <1>3 DEF Connecting
<1>4. CASE checks' = <<>>
  <2>1. DOMAIN checks' = {}
    BY <1>4
  <2> QED
    BY <1>2, <2>1, FS_EmptySet DEF Connecting
<1>5. ASSUME NEW target \in Aims, StartScan(target) PROVE ConnectionsInv'
  <2>1. IsFiniteSet(HostsOf(target) \X Ports)
    BY PentestAssumption, FS_Product
  <2>2. Connecting' = {}
    BY <1>5 DEF StartScan, Connecting
  <2> QED
    BY <1>2, <1>5, <2>1, <2>2 DEF StartScan
<1>6. ASSUME NEW c \in DOMAIN checks, NEW result, checks' = [checks EXCEPT ![c] = result],
             result # "connecting"
      PROVE  ConnectionsInv'
  BY <1>2, <1>6 DEF Connecting
<1>7. ASSUME NEW c \in DOMAIN checks, ConnectPort(c) PROVE ConnectionsInv'
  <2>1. DOMAIN checks' = DOMAIN checks /\ Connecting' = Connecting \cup {c} /\ c \notin Connecting
    BY <1>7 DEF ConnectPort, Connecting
  <2>2. Cardinality(Connecting') = Cardinality(Connecting) + 1
    BY <1>1, <2>1, FS_AddElement
  <2>3. Cardinality(Connecting) < Concurrency
    BY <1>7 DEF ConnectPort, SlotFree, Connecting
  <2> QED
    BY <1>1, <2>1, <2>2, <2>3, PentestAssumption
<1>8. CASE ScanStep
  <2>1. CASE JobBegins \/ ScanExpires \/ \E h \in DOMAIN names, r \in {"valid", "error"} : HostResolved(h, r)
    BY <1>3, <2>1 DEF JobBegins, ScanExpires, HostResolved
  <2>2. CASE ScanExpired \/ Unwound
    BY <1>4, <2>2 DEF ScanExpired, Unwound, GoneWithIt
  <2>3. CASE \E r \in {"completed", "failed"} : ScanEnds(r)
    BY <1>3, <1>4, <2>3 DEF ScanEnds, GoneWithIt
  <2>4. CASE \/ \E c \in DOMAIN checks, r \in {"open", "closed"} : PortAnswered(c, r)
             \/ \E c \in DOMAIN checks, r \in {"read", "silent"} : Probed(c, r)
    BY <1>6, <2>4 DEF PortAnswered, Probed
  <2> QED
    BY <1>7, <1>8, <2>1, <2>2, <2>3, <2>4 DEF ScanStep
<1>9. CASE TargetConfirmed
  BY <1>3, <1>5, <1>9 DEF TargetConfirmed, scanning
<1>10. CASE ScanConfirmed
  BY <1>3, <1>5, <1>10 DEF ScanConfirmed, Startable, scanning, PentestTypeOK
<1>11. CASE PentestTurn \/ Activated \/ Declined \/ Deactivated \/ ShutDown \/ ShutDownDone
  <2>1. UNCHANGED checks
    BY <1>11 DEF PentestTurn, AskToActivate, AskToScan, AskForTarget, Begins, Deactivate, CancelJob,
       ConversationMode, Activated, Declined, Deactivated, ShutDown, ShutDownDone, scanning
  <2> QED
    BY <1>3, <2>1
<1>12. CASE UNCHANGED pentest
  BY <1>3, <1>12 DEF pentest
<1> QED
  BY <1>8, <1>9, <1>10, <1>11, <1>12 DEF PentestNext, PentestStep

LEMMA PentestTypesStep ==
  ASSUME ScanHolds, [PentestNext]_pentest
  PROVE  /\ PentestTypeOK'
         /\ (turn # NoTarget /\ turn.kind \in {"target", "scan"} => turn.target \in Aims)'
<1> DEFINE Questions == [kind : {"activate", "target", "scan", "leave"}, target : Aims \cup {NoTarget}]
           Still == /\ PentestTypeOK'
                   /\ (turn # NoTarget /\ turn.kind \in {"target", "scan"} => turn.target \in Aims)'
<1>1. turn # NoTarget => turn \in Questions
  BY DEF ScanHolds, PentestTypeOK
<1>2. \A k \in {"activate", "target", "scan", "leave"}, t \in Aims \cup {NoTarget} :
        Turn(k, t) \in Questions /\ Turn(k, t).kind = k /\ Turn(k, t).target = t
  BY DEF Turn
<1>3. CASE ScanStep
  <2>1. UNCHANGED <<mode, active, scope, turn, leaving, consented>>
    BY <1>3 DEF ScanStep
  <2>2. job' \in {"none", "running", "expiring"} \/ job' = job
    BY <1>3 DEF ScanStep, JobBegins, ScanExpires, ScanExpired, Unwound, HostResolved, ConnectPort,
                PortAnswered, Probed, ScanEnds
  <2>3. status' \in {"completed", "failed", "cancelled"} \/ status' = status
    BY <1>3 DEF ScanStep, JobBegins, ScanExpires, ScanExpired, Unwound, HostResolved, ConnectPort,
                PortAnswered, Probed, ScanEnds
  <2>4. aim' = NoTarget \/ aim' = aim
    BY <1>3 DEF ScanStep, JobBegins, ScanExpires, ScanExpired, Unwound, HostResolved, ConnectPort,
                PortAnswered, Probed, ScanEnds, GoneWithIt
  <2> QED
    BY <2>1, <2>2, <2>3, <2>4 DEF ScanHolds, PentestTypeOK
<1>4. CASE AskToActivate \/ AskToScan \/ \E t \in Aims : AskForTarget(t)
  <2>1. /\ turn' \in Questions /\ (turn'.kind \in {"target", "scan"} => turn'.target \in Aims)
        /\ UNCHANGED <<mode, active, scope, scanning, leaving, consented>>
    BY <1>2, <1>4 DEF AskToActivate, AskToScan, AskForTarget, Begins, ScanHolds, PentestTypeOK
  <2> QED
    BY <2>1 DEF ScanHolds, PentestTypeOK, scanning
<1>5. CASE Deactivate \/ ConversationMode \/ ShutDown
  <2>1. turn' = turn \/ (turn' \in Questions /\ turn'.kind = "leave")
    BY <1>2, <1>5 DEF Deactivate, ConversationMode, ShutDown, Leaves
  <2>2. job' \in {job, "cancelling", "none"}
    BY <1>5 DEF Deactivate, ConversationMode, ShutDown, CancelJob, scanning
  <2>3. CASE ConversationMode
    BY <2>1, <2>3 DEF ConversationMode, scanning, ScanHolds, PentestTypeOK
  <2>4. CASE Deactivate
    BY <2>1, <2>2, <2>4 DEF Deactivate, CancelJob, ScanHolds, PentestTypeOK
  <2>5. CASE ShutDown
    BY <2>1, <2>2, <2>5 DEF ShutDown, CancelJob, ScanHolds, PentestTypeOK
  <2> QED
    BY <1>5, <2>3, <2>4, <2>5
<1>6. CASE Activated \/ Declined \/ Deactivated \/ ShutDownDone
  <2>1. turn' = NoTarget /\ UNCHANGED <<job, aim>>
    BY <1>6 DEF Activated, Declined, Deactivated, ShutDownDone, scanning
  <2> QED
    BY <1>6, <2>1 DEF Activated, Declined, Deactivated, ShutDownDone, scanning, AfterCancel, ScanHolds,
                      PentestTypeOK
<1>7. CASE TargetConfirmed \/ ScanConfirmed
  <2>1. turn' = NoTarget /\ turn.target \in Aims /\ UNCHANGED <<mode, active, leaving>>
    BY <1>7 DEF TargetConfirmed, ScanConfirmed, ScanHolds
  <2>2. consented' = consented \cup {turn.target} /\ scope' \in {scope, turn.target}
    BY <1>7 DEF TargetConfirmed, ScanConfirmed
  <2>3. \/ UNCHANGED scanning
        \/ job' = "created" /\ status' = "running" /\ aim' \in {scope, turn.target}
    BY <1>7 DEF TargetConfirmed, ScanConfirmed, StartScan
  <2> QED
    BY <2>1, <2>2, <2>3 DEF scanning, ScanHolds, PentestTypeOK
<1>8. CASE UNCHANGED pentest
  BY <1>8 DEF pentest, ScanHolds, PentestTypeOK
<1> QED
  BY <1>3, <1>4, <1>5, <1>6, <1>7, <1>8 DEF PentestNext, PentestTurn, PentestStep

\* A scan is being cancelled by somebody, who reads its status when it has ended.
CancelledBySomebody == job = "cancelling" => turn = Leaves \/ leaving = "waits"
ReadOut ==
  /\ job \in {"created", "running", "expiring"} => status = "running"
  /\ ~Alive /\ status = "running" => turn = Leaves \/ leaving = "waits"
  /\ status = "completed" /\ ~Alive => \A h \in DOMAIN names : HostDone(h)

LEMMA ReadOutStep ==
  ASSUME PentestTypeOK, ReadOut, CancelledBySomebody, [PentestNext]_pentest
  PROVE  ReadOut' /\ CancelledBySomebody'
<1> USE DEF Alive
<1>1. ASSUME UNCHANGED <<job, status, names, checks>>,
             turn = Leaves => turn' = Leaves, leaving = "waits" => leaving' = "waits"
      PROVE  ReadOut' /\ CancelledBySomebody'
  <2>1. \A h \in DOMAIN names : HostDone(h) => HostDone(h)'
    BY <1>1 DEF HostDone, AllTried, ToProbe
  <2> QED
    BY <1>1, <2>1 DEF ReadOut, CancelledBySomebody
<1>2. ASSUME NEW target, StartScan(target) PROVE ReadOut' /\ CancelledBySomebody'
  BY <1>2 DEF StartScan, ReadOut, CancelledBySomebody
<1>3. CASE ScanStep
  <2>1. turn' = turn /\ leaving' = leaving
    BY <1>3 DEF ScanStep
  <2>2. ASSUME status' = status, job \in {"created", "running"}, job' \in {"running", "expiring"}
        PROVE  ReadOut' /\ CancelledBySomebody'
    BY <2>2 DEF ReadOut, CancelledBySomebody
  <2>3. CASE JobBegins \/ ScanExpires
    BY <2>2, <2>3 DEF JobBegins, ScanExpires
  <2>4. CASE \/ \E h \in DOMAIN names, r \in {"valid", "error"} : HostResolved(h, r)
             \/ \E c \in DOMAIN checks : ConnectPort(c)
             \/ \E c \in DOMAIN checks, r \in {"open", "closed"} : PortAnswered(c, r)
             \/ \E c \in DOMAIN checks, r \in {"read", "silent"} : Probed(c, r)
    BY <2>2, <2>4 DEF HostResolved, ConnectPort, PortAnswered, Probed
  <2>5. CASE ScanExpired
    BY <2>5 DEF ScanExpired, ReadOut, CancelledBySomebody
  <2>6. CASE Unwound
    <3>1. job' = "none" /\ DOMAIN names' = {} /\ (turn' = Leaves \/ leaving' = "waits")
      BY <2>1, <2>6 DEF Unwound, GoneWithIt, CancelledBySomebody
    <3> QED
      BY <3>1 DEF ReadOut, CancelledBySomebody
  <2>7. ASSUME NEW r \in {"completed", "failed"}, ScanEnds(r) PROVE ReadOut' /\ CancelledBySomebody'
    <3>1. job' = "none" /\ status' = r
      BY <2>7 DEF ScanEnds
    <3>2. ASSUME r = "completed" PROVE \A h \in DOMAIN names' : HostDone(h)'
      BY <2>7, <3>2 DEF ScanEnds, HostDone, AllTried, ToProbe
    <3> QED
      BY <3>1, <3>2 DEF ReadOut, CancelledBySomebody
  <2> QED
    BY <1>3, <2>3, <2>4, <2>5, <2>6, <2>7 DEF ScanStep
<1>4. CASE PentestTurn
  <2>1. CASE Deactivate
    <3>1. turn' = Leaves /\ status' = status /\ names' = names /\ checks' = checks
          /\ job' \in {"cancelling", "none"} /\ (job' = "none" => job = "none")
      BY <2>1 DEF Deactivate, CancelJob
    <3>2. \A h \in DOMAIN names : HostDone(h) => HostDone(h)'
      BY <3>1 DEF HostDone, AllTried, ToProbe
    <3> QED
      BY <3>1, <3>2 DEF ReadOut, CancelledBySomebody
  <2>2. CASE AskToActivate \/ AskToScan \/ (\E t \in Aims : AskForTarget(t)) \/ ConversationMode
    BY <1>1, <2>2, PentestAssumption DEF AskToActivate, AskToScan, AskForTarget, Begins, NoTurn,
       ConversationMode, scanning, Leaves, Turn
  <2> QED
    BY <1>4, <2>1, <2>2 DEF PentestTurn
<1>5. CASE Activated \/ Declined
  BY <1>1, <1>5 DEF Activated, Declined, scanning, Leaves, Turn
<1>6. CASE TargetConfirmed \/ ScanConfirmed
  <2>1. turn # Leaves /\ leaving' = leaving
    BY <1>6 DEF TargetConfirmed, ScanConfirmed, Leaves, Turn
  <2> QED
    BY <1>1, <1>2, <1>6, <2>1 DEF TargetConfirmed, ScanConfirmed, scanning
<1>7. CASE Deactivated \/ ShutDownDone
  <2>1. job = "none" /\ job' = "none" /\ status' = AfterCancel(status) /\ names' = names
        /\ checks' = checks
    BY <1>7 DEF Deactivated, ShutDownDone, JobEnded
  <2>2. \A h \in DOMAIN names : HostDone(h) => HostDone(h)'
    BY <2>1 DEF HostDone, AllTried, ToProbe
  <2> QED
    BY <2>1, <2>2 DEF ReadOut, CancelledBySomebody, AfterCancel
<1>8. CASE ShutDown
  <2>1. leaving' = "waits" /\ status' = status /\ names' = names /\ checks' = checks
        /\ job' \in {"cancelling", "none"} /\ (job' = "none" => job = "none")
    BY <1>8 DEF ShutDown, CancelJob
  <2>2. \A h \in DOMAIN names : HostDone(h) => HostDone(h)'
    BY <2>1 DEF HostDone, AllTried, ToProbe
  <2> QED
    BY <2>1, <2>2 DEF ReadOut, CancelledBySomebody
<1>9. CASE UNCHANGED pentest
  BY <1>1, <1>9 DEF pentest
<1> QED
  BY <1>3, <1>4, <1>5, <1>6, <1>7, <1>8, <1>9 DEF PentestNext, PentestStep

LEMMA ScanHoldsStep == ScanHolds /\ [PentestNext]_pentest => ScanHolds'
<1> SUFFICES ASSUME ScanHolds, [PentestNext]_pentest PROVE ScanHolds'
  OBVIOUS
<1>1. ReadOut /\ CancelledBySomebody /\ ConnectionsInv /\ PentestTypeOK
  BY DEF ScanHolds, StatusIsTheScans, ReadOut, CancelledBySomebody, ConnectionsInv, Connecting
<1>2. ReadOut' /\ CancelledBySomebody'
  BY <1>1, ReadOutStep
<1>3. ConnectionsInv'
  BY <1>1, ConnectionsStep DEF ScanHolds
<1>4. StatusIsTheScans' /\ IsFiniteSet(DOMAIN checks') /\ CancelledBySomebody'
  BY <1>2, <1>3 DEF StatusIsTheScans, ReadOut, ConnectionsInv, Connecting
<1> QED
  BY <1>4, PentestTypesStep DEF ScanHolds, CancelledBySomebody

(***************************************************************************)
(* However a scan ends, by its own result, its time, a turn or shutdown,   *)
(* the status that is read out is its own, and it never holds more         *)
(* connections open than the limit (services/pentest/service.py,           *)
(* scanner.py).                                                            *)
(***************************************************************************)
THEOREM StatusIsTrue == PentestSpec => []StatusIsTheScans
<1>1. ScanHolds => StatusIsTheScans
  BY DEF ScanHolds
<1> QED
  BY InitScanHolds, ScanHoldsStep, <1>1, PTL DEF PentestSpec

-----------------------------------------------------------------------------

\* The names that a retry takes up.
RestOf(steps) == [k \in DOMAIN Remaining(steps) |-> Remaining(steps)[k].name]

\* What is left of a list is in order and has nothing of what was verified.
LEMMA RestOfTheList ==
  ASSUME NEW n \in 0..3, NEW p \in 0..n,
         NEW steps \in [1..n -> [name : Names, status : StepStates]],
         \A j, k \in 1..n : steps[j].name = steps[k].name => j = k,
         \A k \in 1..n : steps[k].status = "verified" <=> k <= p
  PROVE  /\ RestOf(steps) \in Seq(Names) /\ Len(RestOf(steps)) <= 3 /\ IsInjective(RestOf(steps))
         /\ \A i \in 1..Len(RestOf(steps)), k \in 1..n :
              steps[k].status = "verified" => RestOf(steps)[i] # steps[k].name
<1> DEFINE left == {k \in DOMAIN steps : steps[k].status # "verified"}
           Increasing(o) == \A i, j \in DOMAIN o : i < j => o[i] < o[j]
           order == CHOOSE o \in [1..Cardinality(left) -> left] : Increasing(o)
           rest == RestOf(steps)
<1>1. left = (p + 1)..n
  OBVIOUS
<1>2. Cardinality(left) = n - p
  <2>1. Cardinality((p + 1)..n) = n - p
    <3>1. ASSUME NEW a \in Int, NEW b \in Int, a <= b + 1 PROVE Cardinality(a..b) = b - a + 1
      BY <3>1, FS_Interval
    <3> QED
      BY <3>1
  <2> QED
    BY <1>1, <2>1
<1>3. \E o \in [1..Cardinality(left) -> left] : Increasing(o)
  <2>1. [i \in 1..(n - p) |-> i + p] \in [1..Cardinality(left) -> left]
    <3>1. [i \in 1..(n - p) |-> i + p] \in [1..(n - p) -> (p + 1)..n]
      OBVIOUS
    <3> QED
      BY <1>1, <1>2, <3>1
  <2>2. Increasing([i \in 1..(n - p) |-> i + p])
    OBVIOUS
  <2> QED
    BY <2>1, <2>2
<1>4. order \in [1..(n - p) -> (p + 1)..n] /\ Increasing(order)
  BY <1>1, <1>2, <1>3
<1>5. Remaining(steps) = [i \in 1..(n - p) |-> steps[order[i]]]
  BY <1>4 DEF Remaining
<1> HIDE DEF order
<1>6. rest = [i \in 1..(n - p) |-> steps[order[i]].name]
  BY <1>5 DEF RestOf
<1> HIDE DEF rest
<1>7. rest \in Seq(Names) /\ Len(rest) = n - p
  <2>1. \A i \in 1..(n - p) : steps[order[i]].name \in Names
    BY <1>4
  <2> QED
    BY <1>6, <2>1
<1>8. IsInjective(rest)
  BY <1>4, <1>6 DEF IsInjective
<1>9. ASSUME NEW i \in 1..Len(rest), NEW k \in 1..n, steps[k].status = "verified"
      PROVE  rest[i] # steps[k].name
  BY <1>4, <1>6, <1>7, <1>9
<1> QED
  BY <1>7, <1>8, <1>9 DEF rest

\* The step that is carried out is the first that is not verified.
LEMMA PresentStep ==
  ASSUME NEW p \in 1..Count, Count \in Nat, task.steps[p].status # "verified",
         \A j \in 1..(p - 1) : task.steps[j].status = "verified"
  PROVE  Present = p
<1>1. \A k \in 1..Count :
        /\ task.steps[k].status # "verified"
        /\ \A j \in 1..(k - 1) : task.steps[j].status = "verified"
        => k = p
  <2> TAKE k \in 1..Count
  <2>1. CASE k < p
    BY <2>1
  <2>2. CASE p < k
    BY <2>2
  <2> QED
    BY <2>1, <2>2
<1> QED
  BY <1>1 DEF Present

-----------------------------------------------------------------------------
(* The end of a task *)

\* The names of the steps are those of the task, of which the first p are verified.
Reached(steps, p) ==
  /\ p \in 0..Count
  /\ steps \in [1..Count -> [name : Names, status : StepStates]]
  /\ \A k \in 1..Count : /\ steps[k].name = task.steps[k].name
                         /\ steps[k].status = "verified" <=> k <= p
  /\ \A l \in launched : /\ l.step \in 1..Count
                         /\ steps[l.step].status \in {"verifying", "verified", "unknown"}

\* However a task ends, what it leaves for a retry is nothing that was verified.
LEMMA FinishKeeps ==
  ASSUME WorkInv, Busy, NEW steps, NEW p, Reached(steps, p),
         NEW outcome, Finish(steps, outcome), outcome = "completed" => p = Count,
         cancelled' \in BOOLEAN, launched' = launched
  PROVE  WorkInv'
<1> DEFINE over == [k \in DOMAIN steps |-> [steps[k] EXCEPT !.status = Ended(@)]]
           rest == RestOf(over)
           done == {s.name : s \in {t \in ToSet(over) : t.status = "verified"}}
<1>1. /\ Count \in 0..3 /\ p \in 0..Count
      /\ steps \in [1..Count -> [name : Names, status : StepStates]]
  BY DEF WorkInv, TaskInv, Reached
<1>2. /\ over \in [1..Count -> [name : Names, status : StepStates]]
      /\ \A k \in 1..Count : over[k].name = task.steps[k].name
      /\ \A k \in 1..Count : over[k].status = "verified" <=> k <= p
      /\ \A k \in 1..Count : over[k].status = Ended(steps[k].status)
  <2>1. ASSUME NEW k \in 1..Count
        PROVE  /\ over[k] \in [name : Names, status : StepStates]
               /\ over[k].name = steps[k].name /\ over[k].status = Ended(steps[k].status)
    BY <1>1 DEF Ended, StepStates
  <2> QED
    BY <1>1, <2>1 DEF Ended, StepStates, Reached
<1> HIDE DEF over
<1>3. \A j, k \in 1..Count : over[j].name = over[k].name => j = k
  BY <1>2 DEF WorkInv, TaskInv
<1>4. /\ rest \in Seq(Names) /\ Len(rest) <= 3 /\ IsInjective(rest)
      /\ \A i \in 1..Len(rest), k \in 1..Count :
           over[k].status = "verified" => rest[i] # over[k].name
  BY <1>1, <1>2, <1>3, RestOfTheList
<1>5. \A i \in 1..Len(rest) : rest[i] \notin done
  BY <1>2, <1>4 DEF ToSet
<1>6. /\ step' \in {"idle", "down"}
      /\ last' = IF task.kind = "configure" THEN last
                 ELSE [fresh |-> TRUE, rest |-> rest, done |-> done]
  BY DEF Finish, Leave, RestOf, over
<1> HIDE DEF rest, done
<1>7. LastInv'
  BY <1>4, <1>5, <1>6 DEF WorkInv, LastInv
<1>8. ToldInv'
  <2>1. task'.steps = over /\ task'.status = outcome /\ Count' = Count
    <3>1. task'.steps = over /\ task'.status = outcome
      BY DEF WorkInv, TaskInv, Finish, over
    <3> QED
      BY <1>1, <1>2, <3>1 DEF Count
  <2>2. \A k \in 1..Count : over[k].status \in {"verified", "unknown", "skipped", "saved"}
    BY <1>1, <1>2 DEF Ended, StepStates
  <2>3. \A l \in launched : l.step \in 1..Count /\ over[l.step].status \in {"verified", "unknown"}
    BY <1>1, <1>2 DEF Ended, Reached
  <2>4. outcome = "completed" => \A k \in 1..Count : over[k].status = "verified"
    BY <1>1, <1>2
  <2> QED
    BY <2>1, <2>2, <2>3, <2>4 DEF ToldInv
<1> QED
  BY <1>6, <1>7, <1>8 DEF WorkInv, TaskInv, PlanInv, LaunchInv, Busy, Awaits, Carrying

\* A task may end before its next step, or in the middle of one.
LEMMA StopKeeps ==
  ASSUME WorkInv, Busy, NEW outcome, Finish(task.steps, outcome), outcome # "completed",
         cancelled' \in BOOLEAN, launched' = launched
  PROVE  WorkInv'
<1>1. \E p : Reached(task.steps, p)
  <2>1. CASE ~Carrying
    <3>1. Reached(task.steps, 0)
      BY <2>1 DEF WorkInv, TaskInv, LaunchInv, Reached
    <3> QED
      BY <3>1
  <2>2. CASE Carrying
    <3>1. PICK p \in 1..Count : CarryingOut(p)
      BY <2>2 DEF WorkInv, LaunchInv
    <3>2. Reached(task.steps, p - 1)
      <4>1. \A l \in launched : l.step \in 1..p /\ (step = "verifying" \/ l.step \in 1..(p - 1))
        BY <3>1 DEF WorkInv, TaskInv, CarryingOut
      <4> QED
        BY <3>1, <4>1 DEF WorkInv, TaskInv, CarryingOut, Reached
    <3> QED
      BY <3>2
  <2> QED
    BY <2>1, <2>2
<1> QED
  BY <1>1, FinishKeeps

-----------------------------------------------------------------------------
(* The beginning of a task, and of a step *)

\* A task begins with nothing launched and nothing agreed to.
LEMMA BeginKeeps ==
  ASSUME WorkInv, NEW kind \in {"launch", "configure"}, NEW asks \in Seq(Names),
         Len(asks) \in 1..3, IsInjective(asks), NEW verified,
         \A i \in 1..Len(asks) : asks[i] \notin verified,
         Begin(kind, asks, verified)
  PROVE  WorkInv'
<1> DEFINE list == [k \in 1..Len(asks) |-> [name |-> asks[k], status |-> "pending"]]
<1>1. /\ step' = "resolving" /\ cancelled' = FALSE /\ plan' = <<>> /\ last' = None
      /\ task'.kind = kind /\ task'.status = "planning" /\ task'.steps = list
      /\ DOMAIN task' = {"id", "kind", "status", "steps"}
      /\ spared' = verified /\ launched' = {} /\ verdict' = "no"
  BY DEF Begin
<1>2. /\ list \in [1..Len(asks) -> [name : Names, status : StepStates]]
      /\ Len(list) = Len(asks)
      /\ \A k \in 1..Len(asks) : list[k].name = asks[k] /\ list[k].status = "pending"
  <2>1. \A k \in 1..Len(asks) :
          [name |-> asks[k], status |-> "pending"] \in [name : Names, status : StepStates]
    BY DEF StepStates
  <2> QED
    BY <2>1
<1> HIDE DEF list
<1>3. Count' = Len(asks)
  BY <1>1, <1>2 DEF Count
<1>4. TaskInv'
  <2>1. \A j, k \in 1..Len(asks) : asks[j] = asks[k] => j = k
    BY DEF IsInjective
  <2>2. /\ cancelled' \in BOOLEAN /\ DOMAIN task' = {"id", "kind", "status", "steps"}
        /\ task'.kind \in {"launch", "configure"} /\ task'.status # "completed"
    BY <1>1
  <2>3. /\ (task.steps \in [1..Count -> [name : Names, status : StepStates]])'
        /\ Count' \in 1..3
    BY <1>1, <1>2, <1>3
  <2>4. \A k \in 1..Count' : task'.steps[k].name = asks[k]
    BY <1>1, <1>2, <1>3
  <2> QED
    BY <1>1, <1>3, <2>1, <2>2, <2>3, <2>4 DEF TaskInv
<1>5. PlanInv'
  BY <1>1, <1>3 DEF PlanInv, Carrying
<1>6. LaunchInv'
  BY <1>1, <1>2, <1>3 DEF LaunchInv, Carrying
<1>7. LastInv'
  BY <1>1 DEF LastInv
<1>8. ToldInv'
  BY <1>1 DEF ToldInv, Busy, Awaits
<1> QED
  BY <1>4, <1>5, <1>6, <1>7, <1>8 DEF WorkInv

\* What the approved plan, carried out up to its k-th step, has launched.
UpTo(steps, k) ==
  /\ agreed = plan /\ task.kind = "launch" /\ Len(plan) = Count /\ k \in 1..(Count + 1)
  /\ steps \in [1..Count -> [name : Names, status : StepStates]]
  /\ \A j \in 1..Count : /\ steps[j].name = task.steps[j].name
                         /\ steps[j].status = IF j < k THEN "verified" ELSE "pending"
  /\ \A l \in launched : /\ l.step \in 1..(k - 1)
                         /\ l = [step |-> l.step, target |-> plan[l.step], late |-> FALSE]

\* After a step that is verified comes the next, or the end.
LEMMA NextStepKeeps ==
  ASSUME WorkInv, Busy, NEW steps, NEW k, UpTo(steps, k), NextStep(steps, k),
         UNCHANGED <<cancelled, launched>>
  PROVE  WorkInv'
<1>1. cancelled' \in BOOLEAN /\ Count \in 1..3 /\ k \in 1..(Count + 1) /\ Len(steps) = Count
  BY DEF WorkInv, TaskInv, UpTo
<1>2. ASSUME NEW outcome, Finish(steps, outcome), outcome = "completed" => k > Count
      PROVE  WorkInv'
  <2>1. Reached(steps, k - 1)
    BY <1>1 DEF UpTo, Reached
  <2> QED
    BY <1>1, <1>2, <2>1, FinishKeeps
<1>3. CASE k <= Count /\ task' = [task EXCEPT !.status = "running",
                                             !.steps = [steps EXCEPT ![k].status = "running"]]
                      /\ step' = "checking" /\ Kept
  <2> DEFINE next == [steps EXCEPT ![k].status = "running"]
  <2>1. /\ task'.steps = next /\ task'.kind = task.kind /\ task'.status = "running"
        /\ DOMAIN task' = DOMAIN task
    BY <1>3
  <2>2. /\ next \in [1..Count -> [name : Names, status : StepStates]]
        /\ \A j \in 1..Count : /\ next[j].name = task.steps[j].name
                               /\ next[j].status = CASE j < k -> "verified" [] j > k -> "pending"
                                                     [] OTHER -> "running"
    BY <1>1, <1>3 DEF UpTo, StepStates
  <2> HIDE DEF next
  <2>3. Count' = Count
    BY <1>1, <2>1, <2>2 DEF Count
  <2>4. TaskInv'
    <3>1. /\ cancelled' \in BOOLEAN /\ DOMAIN task' = {"id", "kind", "status", "steps"}
          /\ task'.kind \in {"launch", "configure"} /\ task'.status # "completed"
      BY <1>1, <2>1 DEF WorkInv, TaskInv
    <3>2. /\ (task.steps \in [1..Count -> [name : Names, status : StepStates]])'
          /\ Count' \in 1..3
      BY <1>1, <2>1, <2>2, <2>3
    <3>3. spared' = spared /\ \A j \in 1..Count' : task'.steps[j].name = task.steps[j].name
      BY <1>3, <2>1, <2>2, <2>3 DEF Kept
    <3> QED
      BY <2>3, <3>1, <3>2, <3>3 DEF WorkInv, TaskInv
  <2>5. PlanInv'
    BY <1>3, <2>1, <2>3 DEF WorkInv, PlanInv, Busy, Kept, UpTo, Carrying
  <2>6. CarryingOut(k)'
    BY <1>1, <1>3, <2>1, <2>2, <2>3 DEF CarryingOut, Kept, UpTo
  <2>7. LaunchInv'
    BY <1>1, <1>3, <2>3, <2>6 DEF LaunchInv, Carrying
  <2>8. LastInv'
    BY <1>3 DEF WorkInv, LastInv, Kept
  <2>9. ToldInv'
    BY <1>3 DEF ToldInv, Busy, Awaits
  <2> QED
    BY <2>4, <2>5, <2>7, <2>8, <2>9 DEF WorkInv
<1> QED
  BY <1>1, <1>2, <1>3 DEF NextStep, UpTo

-----------------------------------------------------------------------------
(* The turns, and what interrupts them *)

LEMMA OthersKeep == ASSUME WorkInv, UNCHANGED workplace PROVE WorkInv'
BY DEF workplace, history, WorkInv, TaskInv, PlanInv, LaunchInv, LastInv, ToldInv, CarryingOut,
       Busy, Count, Carrying

LEMMA RunKeeps == ASSUME WorkInv, Run PROVE WorkInv'
<1>1. PICK kind \in {"launch", "configure"}, l \in Lists : Begin(kind, l, {})
  BY DEF Run
<1>2. l \in Seq(Names) /\ Len(l) \in 1..3 /\ IsInjective(l)
  BY WorkplaceAssumption
<1> QED
  BY <1>1, <1>2, BeginKeeps

LEMMA RetryKeeps == ASSUME WorkInv, Retry PROVE WorkInv'
<1>1. Begin("launch", last.rest, last.done) /\ last # None /\ last.rest # <<>>
  BY DEF Retry
<1>2. /\ last.rest \in Seq(Names) /\ Len(last.rest) \in 1..3 /\ IsInjective(last.rest)
      /\ \A i \in 1..Len(last.rest) : last.rest[i] \notin last.done
  <2>1. last.rest \in Seq(Names) /\ Len(last.rest) <= 3
    BY <1>1 DEF WorkInv, LastInv
  <2>2. Len(last.rest) \in 1..3
    <3>1. \A q \in Seq(Names) : q # <<>> => Len(q) \in Nat \ {0}
      BY EmptySeq
    <3>2. Len(last.rest) \in Nat \ {0}
      BY <1>1, <2>1, <3>1, Zenon
    <3>3. \A i \in Nat \ {0} : i <= 3 => i \in 1..3
      OBVIOUS
    <3> QED
      BY <2>1, <3>2, <3>3, Zenon
  <2> QED
    BY <1>1, <2>1, <2>2 DEF WorkInv, LastInv
<1> QED
  BY <1>1, <1>2, BeginKeeps

\* What is kept of the last task is taken up, grows too old, or is given up.
LEMMA AgeingKeeps == ASSUME WorkInv, Forget \/ Expire \/ ClearContext PROVE WorkInv'
<1>1. CASE Forget
  BY <1>1 DEF Forget, history, WorkInv, TaskInv, PlanInv, LaunchInv, LastInv, ToldInv, CarryingOut,
              Busy, Awaits, Count, Carrying
<1>2. CASE Expire
  <2>1. /\ last # None /\ last' = [last EXCEPT !.fresh = FALSE]
        /\ UNCHANGED <<step, task, cancelled, plan, fresh, verdict, history>>
    BY <1>2 DEF Expire
  <2>2. last'.rest = last.rest /\ last'.done = last.done
    BY <2>1
  <2>3. LastInv'
    BY <2>1, <2>2 DEF WorkInv, LastInv
  <2> QED
    BY <2>1, <2>3 DEF history, WorkInv, TaskInv, PlanInv, LaunchInv, ToldInv, CarryingOut,
                       Busy, Count, Carrying
<1>3. CASE ClearContext
  BY <1>3 DEF ClearContext, history, WorkInv, TaskInv, PlanInv, LaunchInv, LastInv, ToldInv,
              Busy, Awaits, Carrying
<1> QED
  BY <1>1, <1>2, <1>3

\* A cancellation only raises the event.
LEMMA CancelKeeps == ASSUME WorkInv, NEW id, CancelTask(id) PROVE WorkInv'
BY DEF CancelTask, history, WorkInv, TaskInv, PlanInv, LaunchInv, LastInv, ToldInv, CarryingOut,
       Busy, Count, Carrying

LEMMA CutKeeps == ASSUME WorkInv, Interrupted \/ Fails PROVE WorkInv'
<1>1. \E outcome : /\ Busy /\ Finish(task.steps, outcome) /\ outcome # "completed"
                    /\ cancelled' = cancelled /\ launched' = launched
  BY DEF Interrupted, Fails, Stays, Busy, Awaits
<1>2. cancelled \in BOOLEAN
  BY DEF WorkInv, TaskInv
<1> QED
  BY <1>1, <1>2, StopKeeps

-----------------------------------------------------------------------------
(* The plan and its approval *)

LEMMA ResolvedKeeps == ASSUME WorkInv, NEW t \in Targets, Resolved(t) PROVE WorkInv'
<1>1. step = "resolving" /\ Busy /\ ~Carrying /\ cancelled' = cancelled /\ launched' = launched
  BY DEF Resolved, Stays, Busy, Awaits, Carrying
<1>2. ASSUME NEW outcome, Finish(task.steps, outcome), outcome # "completed" PROVE WorkInv'
  BY <1>1, <1>2, StopKeeps DEF WorkInv, TaskInv
<1>3. CASE /\ NewProgram(t) /\ plan' = Append(plan, t)
           /\ UNCHANGED <<fresh, verdict, last, spared, agreed>>
           /\ IF Len(plan') = Count
              THEN step' = "asking" /\ task' = [task EXCEPT !.status = "awaiting_confirmation"]
              ELSE UNCHANGED <<step, task>>
  <2>1. /\ DOMAIN task' = DOMAIN task /\ task'.kind = task.kind /\ task'.steps = task.steps
        /\ task'.status # "completed"
    BY <1>1, <1>3 DEF WorkInv, TaskInv
  <2>2. Count' = Count
    BY <2>1 DEF Count
  <2>3. step' \in {"resolving", "asking"} /\ Busy' /\ ~Carrying'
    BY <1>1, <1>3 DEF Busy, Awaits, Carrying
  <2>4. TaskInv'
    BY <1>1, <1>3, <2>1, <2>2, <2>3 DEF WorkInv, TaskInv
  <2>5. PlanInv'
    <3>1. plan \in Seq(Targets) /\ Len(plan) < Count /\ Count \in 1..3
      BY <1>1 DEF WorkInv, PlanInv, TaskInv
    <3>2. /\ plan' \in Seq(Targets) /\ Len(plan') = Len(plan) + 1
          /\ \A k \in 1..Len(plan') : plan'[k] = IF k <= Len(plan) THEN plan[k] ELSE t
      BY <1>3, <3>1
    <3>3. \A j, k \in 1..Len(plan') : plan'[j].path = plan'[k].path => j = k
      BY <1>1, <1>3, <3>1, <3>2 DEF WorkInv, PlanInv, NewProgram
    <3>4. IF step' = "resolving" THEN Len(plan') < Count ELSE Len(plan') = Count
      BY <1>1, <1>3, <3>1, <3>2
    <3> QED
      BY <2>2, <2>3, <3>2, <3>3, <3>4 DEF PlanInv
  <2>6. LaunchInv'
    BY <1>1, <2>1, <2>2, <2>3 DEF WorkInv, LaunchInv
  <2>7. LastInv'
    BY <1>3 DEF WorkInv, LastInv
  <2>8. ToldInv'
    BY <2>3 DEF ToldInv
  <2> QED
    BY <2>4, <2>5, <2>6, <2>7, <2>8 DEF WorkInv
<1> QED
  BY <1>1, <1>2, <1>3 DEF Resolved

\* The answer, or the cancellation that comes before it.
LEMMA ApproveKeeps ==
  ASSUME WorkInv, Approve \/ \E a \in {"yes", "no", "error"} : Answered(a)
  PROVE  WorkInv'
<1>1. /\ step \in {"asking", "answered"} /\ step' \in {"answered", "settling"}
      /\ UNCHANGED <<task, cancelled, plan, fresh, last, spared, launched>>
  BY DEF Approve, Answered, history
<1>2. step' \in {"answered", "settling"} /\ verdict' = "yes" => agreed' = plan'
  BY <1>1 DEF Approve, Answered, history, WorkInv, PlanInv
<1> QED
  BY <1>1, <1>2 DEF WorkInv, TaskInv, PlanInv, LaunchInv, LastInv, ToldInv, Busy, Awaits,
                   Count, Carrying

LEMMA SettledKeeps == ASSUME WorkInv, Settled PROVE WorkInv'
<1>1. /\ step = "settling" /\ Busy /\ ~Carrying /\ UNCHANGED <<cancelled, launched>>
      /\ cancelled' \in BOOLEAN
  BY DEF Settled, Stays, Busy, Awaits, Carrying, WorkInv, TaskInv
<1>2. ASSUME NEW outcome, Finish(task.steps, outcome), outcome # "completed" PROVE WorkInv'
  BY <1>1, <1>2, StopKeeps
<1>3. CASE Finish([k \in 1..Count |-> [task.steps[k] EXCEPT !.status = "saved"]], "saved")
  <2> DEFINE saved == [k \in 1..Count |-> [task.steps[k] EXCEPT !.status = "saved"]]
  <2>1. saved \in [1..Count -> [name : Names, status : StepStates]]
    BY <1>1 DEF WorkInv, TaskInv, StepStates
  <2>2. Reached(saved, 0)
    BY <1>1, <2>1 DEF WorkInv, TaskInv, LaunchInv, Reached
  <2> HIDE DEF saved
  <2> QED
    BY <1>1, <1>3, <2>2, FinishKeeps DEF saved
<1>4. CASE verdict = "yes" /\ task.kind = "launch" /\ NextStep(task.steps, 1)
  <2>1. UpTo(task.steps, 1)
    BY <1>1, <1>4 DEF WorkInv, TaskInv, PlanInv, LaunchInv, UpTo
  <2> QED
    BY <1>1, <1>4, <2>1, NextStepKeeps
<1> QED
  BY <1>1, <1>2, <1>3, <1>4 DEF Settled

-----------------------------------------------------------------------------
(* One step *)

\* Where the loop over the steps stands.
LEMMA StandingAt ==
  ASSUME WorkInv, Carrying
  PROVE  \E p \in 1..Count : CarryingOut(p) /\ Present = p
<1>1. PICK p \in 1..Count : CarryingOut(p)
  BY DEF WorkInv, LaunchInv
<1>2. Count \in Nat /\ task.steps[p].status # "verified"
      /\ \A j \in 1..(p - 1) : task.steps[j].status = "verified"
  BY <1>1 DEF WorkInv, TaskInv, CarryingOut, Carrying, Busy, Awaits
<1>3. Present = p
  BY <1>2, PresentStep
<1> QED
  BY <1>1, <1>3

\* One step is reported to be somewhere else, the task going on or at its end.
LEMMA WithStatus ==
  ASSUME WorkInv, Carrying, NEW p \in 1..Count, Present = p, NEW s \in StepStates
  PROVE  /\ With(s) \in [1..Count -> [name : Names, status : StepStates]]
         /\ \A k \in 1..Count : /\ With(s)[k].name = task.steps[k].name
                                /\ With(s)[k].status = IF k = p THEN s ELSE task.steps[k].status
BY DEF With, WorkInv, TaskInv, Carrying, Busy, Awaits

\* A window is there: the step is verified, and the next one follows.
LEMMA VerifiedStepKeeps ==
  ASSUME WorkInv, Carrying, NextStep(With("verified"), Present + 1),
         UNCHANGED <<cancelled, launched>>
  PROVE  WorkInv'
<1>1. PICK p \in 1..Count : CarryingOut(p) /\ Present = p
  BY StandingAt
<1>2. Busy /\ Count \in 1..3 /\ agreed = plan /\ task.kind = "launch" /\ Len(plan) = Count
  BY DEF WorkInv, TaskInv, PlanInv, Carrying, Busy, Awaits
<1>3. UpTo(With("verified"), p + 1)
  <2>1. \A j \in 1..Count : /\ With("verified")[j].name = task.steps[j].name
                            /\ With("verified")[j].status = IF j < p + 1 THEN "verified" ELSE "pending"
    <3> TAKE j \in 1..Count
    <3>1. /\ With("verified")[j].name = task.steps[j].name
          /\ With("verified")[j].status = IF j = p THEN "verified" ELSE task.steps[j].status
      BY <1>1, WithStatus DEF StepStates
    <3>2. j # p => task.steps[j].status = IF j < p THEN "verified" ELSE "pending"
      BY <1>1, <1>2 DEF CarryingOut
    <3> QED
      BY <1>2, <3>1, <3>2
  <2>2. With("verified") \in [1..Count -> [name : Names, status : StepStates]]
    BY <1>1, WithStatus DEF StepStates
  <2>3. \A l \in launched : /\ l.step \in 1..p
                            /\ l = [step |-> l.step, target |-> plan[l.step], late |-> FALSE]
    <3>1. (IF step = "verifying" THEN p ELSE p - 1) \in {p, p - 1}
      OBVIOUS
    <3> QED
      BY <1>1, <1>2, <3>1 DEF CarryingOut
  <2> QED
    BY <1>1, <1>2, <2>1, <2>2, <2>3 DEF UpTo
<1> QED
  BY <1>1, <1>2, <1>3, NextStepKeeps

\* A step may end the task in any state but that of being verified.
LEMMA StepEndKeeps ==
  ASSUME WorkInv, Carrying, NEW s \in {"verifying", "unknown"}, NEW outcome,
         Finish(With(s), outcome), outcome # "completed",
         cancelled' \in BOOLEAN, launched' = launched
  PROVE  WorkInv'
<1>1. PICK p \in 1..Count : CarryingOut(p) /\ Present = p
  BY StandingAt
<1>2. Busy /\ Count \in 1..3
  BY DEF WorkInv, TaskInv, Carrying, Busy, Awaits
<1>3. Reached(With(s), p - 1)
  <2>1. /\ With(s) \in [1..Count -> [name : Names, status : StepStates]]
        /\ \A k \in 1..Count : /\ With(s)[k].name = task.steps[k].name
                               /\ With(s)[k].status = IF k = p THEN s ELSE task.steps[k].status
    BY <1>1, WithStatus DEF StepStates
  <2>2. \A k \in 1..Count : With(s)[k].status = "verified" <=> k <= p - 1
    BY <1>1, <1>2, <2>1 DEF CarryingOut
  <2>3. \A l \in launched : l.step \in 1..p
    BY <1>1, <1>2 DEF CarryingOut
  <2>4. \A k \in 1..p : With(s)[k].status \in {"verifying", "verified", "unknown"}
    BY <1>1, <1>2, <2>1 DEF CarryingOut
  <2> QED
    BY <1>1, <1>2, <2>1, <2>2, <2>3, <2>4 DEF Reached
<1> QED
  BY <1>2, <1>3, FinishKeeps

LEMMA CheckedKeeps == ASSUME WorkInv, NEW t \in Targets, Checked(t) PROVE WorkInv'
<1>1. step = "checking" /\ Busy /\ Carrying /\ cancelled' = cancelled /\ launched' = launched
      /\ cancelled' \in BOOLEAN
  BY DEF Checked, Stays, Busy, Awaits, Carrying, WorkInv, TaskInv
<1>2. PICK p \in 1..Count : CarryingOut(p) /\ Present = p
  BY <1>1, StandingAt
<1>3. CASE Finish(task.steps, "failed")
  BY <1>1, <1>3, StopKeeps
<1>4. CASE /\ fresh' = t /\ t = plan[Present] /\ step' = "inspecting"
           /\ UNCHANGED <<task, plan, verdict, last, spared, agreed>>
  <2>1. CarryingOut(p)'
    BY <1>1, <1>2, <1>4 DEF CarryingOut, Count
  <2>2. Busy' /\ Carrying' /\ Count' = Count
    BY <1>4 DEF Busy, Awaits, Carrying, Count
  <2>3. TaskInv' /\ PlanInv' /\ LastInv'
    BY <1>1, <1>4, <2>2 DEF WorkInv, TaskInv, PlanInv, LastInv
  <2>4. LaunchInv'
    BY <2>1, <2>2 DEF LaunchInv
  <2>5. ToldInv'
    BY <2>2 DEF ToldInv
  <2> QED
    BY <2>3, <2>4, <2>5 DEF WorkInv
<1> QED
  BY <1>3, <1>4 DEF Checked, Same

\* No window yet: the program is launched, if no process of it runs, and is looked for.
LEMMA LaunchKeeps ==
  ASSUME WorkInv, step = "inspecting", ~cancelled, cancelled' = cancelled,
         step' = "verifying", task' = [task EXCEPT !.steps = With("verifying")], Kept,
         launched' = launched \/ launched' = Launch
  PROVE  WorkInv'
<1>1. Busy /\ Carrying /\ Busy' /\ Carrying' /\ cancelled = FALSE
  BY DEF Busy, Awaits, Carrying, WorkInv, TaskInv
<1>2. PICK p \in 1..Count : CarryingOut(p) /\ Present = p
  BY <1>1, StandingAt
<1>3. DOMAIN task = {"id", "kind", "status", "steps"} /\ Count \in 1..3
  BY <1>1 DEF WorkInv, TaskInv
<1> DEFINE now == With("verifying")
<1>4. /\ now \in [1..Count -> [name : Names, status : StepStates]]
      /\ \A k \in 1..Count : /\ now[k].name = task.steps[k].name
                             /\ now[k].status = IF k = p THEN "verifying" ELSE task.steps[k].status
  BY <1>1, <1>2, WithStatus DEF StepStates
<1>5. /\ task'.steps = now /\ task'.kind = task.kind /\ task'.status = task.status
      /\ DOMAIN task' = DOMAIN task
  BY <1>3
<1> HIDE DEF now
<1>6. Count' = Count
  BY <1>3, <1>4, <1>5 DEF Count
<1>7. TaskInv'
  <2>1. /\ cancelled' \in BOOLEAN /\ DOMAIN task' = {"id", "kind", "status", "steps"}
        /\ task'.kind \in {"launch", "configure"} /\ task'.status # "completed"
    BY <1>1, <1>5 DEF WorkInv, TaskInv
  <2>2. /\ (task.steps \in [1..Count -> [name : Names, status : StepStates]])'
        /\ Count' \in 1..3
    BY <1>3, <1>4, <1>5, <1>6
  <2>3. spared' = spared /\ \A j \in 1..Count' : task'.steps[j].name = task.steps[j].name
    BY <1>4, <1>5, <1>6 DEF Kept
  <2> QED
    BY <1>1, <1>6, <2>1, <2>2, <2>3 DEF WorkInv, TaskInv
<1>8. PlanInv'
  BY <1>1, <1>5, <1>6 DEF WorkInv, PlanInv, Kept
<1>9. CarryingOut(p)'
  <2>1. \A k \in 1..Count' : task'.steps[k].status =
          CASE k < p -> "verified" [] k > p -> "pending" [] OTHER -> "verifying"
    BY <1>2, <1>3, <1>4, <1>5, <1>6 DEF CarryingOut
  <2>2. \A l \in launched' : /\ l.step \in 1..p
                             /\ l = [step |-> l.step, target |-> plan[l.step], late |-> FALSE]
    <3> TAKE l \in launched'
    <3>1. CASE l \in launched
      BY <1>2, <1>3, <3>1 DEF CarryingOut
    <3>2. CASE l = [step |-> p, target |-> plan[p], late |-> FALSE]
      BY <3>2
    <3> QED
      BY <1>1, <1>2, <3>1, <3>2 DEF Launch, CarryingOut
  <2> QED
    BY <2>1, <2>2 DEF CarryingOut, Kept
<1>10. LaunchInv'
  BY <1>1, <1>6, <1>9 DEF LaunchInv
<1>11. LastInv'
  BY DEF WorkInv, LastInv, Kept
<1>12. ToldInv'
  BY <1>1 DEF ToldInv
<1> QED
  BY <1>7, <1>8, <1>10, <1>11, <1>12 DEF WorkInv

LEMMA InspectedKeeps == ASSUME WorkInv, NEW e \in Evidence, Inspected(e) PROVE WorkInv'
<1>1. /\ step = "inspecting" /\ Busy /\ Carrying
      /\ cancelled' = cancelled /\ cancelled' \in BOOLEAN
  BY DEF Inspected, Busy, Awaits, Carrying, WorkInv, TaskInv
<1>2. CASE Finish(task.steps, "cancelled") /\ UNCHANGED launched
  BY <1>1, <1>2, StopKeeps
<1>3. CASE NextStep(With("verified"), Present + 1) /\ UNCHANGED launched
  BY <1>1, <1>3, VerifiedStepKeeps
<1>4. CASE /\ MayGoOn /\ step' = "verifying" /\ task' = [task EXCEPT !.steps = With("verifying")]
           /\ Kept /\ launched' = IF e = "process" THEN launched ELSE Launch
  BY <1>1, <1>4, LaunchKeeps DEF MayGoOn
<1>5. CASE Finish(With("verifying"), "failed") /\ UNCHANGED launched
  BY <1>1, <1>5, StepEndKeeps DEF StepStates
<1> QED
  BY <1>2, <1>3, <1>4, <1>5 DEF Inspected

LEMMA VerifiedKeeps == ASSUME WorkInv, NEW e \in Evidence, Verified(e) PROVE WorkInv'
<1>1. /\ step = "verifying" /\ Busy /\ Carrying /\ cancelled' = cancelled /\ launched' = launched
      /\ cancelled' \in BOOLEAN
  BY DEF Verified, Stays, Busy, Awaits, Carrying, WorkInv, TaskInv
<1>2. CASE Finish(task.steps, "cancelled")
  BY <1>1, <1>2, StopKeeps
<1>3. CASE NextStep(With("verified"), Present + 1)
  BY <1>1, <1>3, VerifiedStepKeeps
<1>4. CASE Finish(With("unknown"), "partial")
  BY <1>1, <1>4, StepEndKeeps DEF StepStates
<1> QED
  BY <1>2, <1>3, <1>4 DEF Verified

-----------------------------------------------------------------------------
(* The session *)

LEMMA WorkStarts == Init => WorkInv
BY DEF Init, WorkplaceInit, WorkInv, TaskInv, PlanInv, LaunchInv, LastInv, ToldInv, Busy, Awaits,
       Carrying

\* Whatever other skills, windows and shutdown do, they leave the agent alone or cancel it.
LEMMA WorkGoesOn == WorkInv /\ [Next]_vars => WorkInv'
<1> SUFFICES ASSUME WorkInv, [Next]_vars PROVE WorkInv'
  OBVIOUS
<1>1. CASE WorkplaceTurn
  BY <1>1, RunKeeps, RetryKeeps, AgeingKeeps DEF WorkplaceTurn
<1>2. CASE WorkplaceStep \/ Cut
  BY <1>2, ResolvedKeeps, CheckedKeeps, InspectedKeeps, VerifiedKeeps, ApproveKeeps, SettledKeeps,
     CutKeeps, AgeingKeeps DEF WorkplaceStep, Cut, Progress
<1>3. CASE SearchTurn \/ SearchStep \/ Close
  BY <1>3, OthersKeep DEF SearchTurn, SearchStep, Close
<1>4. CASE WebTask \/ WebGoesOn \/ PentestTask \/ PentestGoesOn \/ CloseScan
  BY <1>4, OthersKeep DEF WebTask, WebGoesOn, PentestTask, PentestGoesOn, CloseScan, Elsewhere
<1>5. CASE StoresTask \/ StoresGoOn \/ TimerFires \/ UserActs
  BY <1>5, OthersKeep DEF StoresTask, StoresGoOn, TimerFires, UserActs, Elsewhere
<1>6. CASE Show
  BY <1>6, OthersKeep DEF Show
<1>7. CASE Press \/ TypeCancel
  BY <1>7, OthersKeep, CancelKeeps DEF Press, TypeCancel
<1>8. CASE UNCHANGED vars
  BY <1>8, OthersKeep DEF vars
<1> QED
  BY <1>1, <1>2, <1>3, <1>4, <1>5, <1>6, <1>7, <1>8 DEF Next

\* The audit mode goes on as it would by itself, whatever runs beside it.
LEMMA PentestByItself == [Next]_vars => [PentestNext]_pentest
BY DEF Next, vars, WorkplaceTurn, WorkplaceStep, Cut, SearchTurn, SearchStep, Close, WebTask,
       WebGoesOn, PentestTask, PentestGoesOn, CloseScan, StoresTask, StoresGoOn, TimerFires,
       UserActs, Show, Press, TypeCancel, Local, PentestNext

LEMMA ScansGoOn == ApprovalHolds /\ [Next]_vars => ApprovalHolds'
BY PentestByItself, StepApproved

\* A task that may be cancelled was meant: the window's id is looked at again, and none but the
\* task at work is cancelled.
CancelInv == CancelMeetsItsTask /\ WalkInv /\ issued \in 0..MaxTasks

\* The agent goes on with the task it has, or ends it, and raises no event itself.
LEMMA ProgressSameTask ==
  ASSUME WorkInv, Progress \/ Interrupted
  PROVE  UNCHANGED <<cancelled, issued, meant>> /\ (Busy' => Busy /\ task'.id = task.id)
<1> DEFINE Kin == ~Busy' \/ task'.id = task.id
<1>1. \A steps, outcome : Finish(steps, outcome) => Kin
  BY DEF Finish, Leave, Busy, Awaits
<1>2. \A steps, k : NextStep(steps, k) => Kin
  <2>1. \A new : task' = [task EXCEPT !.status = "running", !.steps = new] => task'.id = task.id
    OBVIOUS
  <2> QED
    BY <1>1, <2>1 DEF NextStep
<1>3. \A s : task' = [task EXCEPT !.status = s] => task'.id = task.id
  OBVIOUS
<1>4. \A new : task' = [task EXCEPT !.steps = new] => task'.id = task.id
  OBVIOUS
<1>5. task' = task => task'.id = task.id
  OBVIOUS
<1> HIDE DEF Kin
<1>6. ASSUME NEW t \in Targets, Resolved(t) PROVE Kin
  BY <1>1, <1>3, <1>5, <1>6 DEF Resolved, Kin
<1>7. ASSUME NEW t \in Targets, Checked(t) PROVE Kin
  BY <1>1, <1>5, <1>7 DEF Checked, Kin
<1>8. ASSUME NEW e \in Evidence, Inspected(e) PROVE Kin
  BY <1>1, <1>2, <1>4, <1>8 DEF Inspected, Kin
<1>9. ASSUME NEW e \in Evidence, Verified(e) PROVE Kin
  BY <1>1, <1>2, <1>9 DEF Verified
<1>10. ASSUME Approve \/ \E a \in {"yes", "no", "error"} : Answered(a) PROVE Kin
  BY <1>5, <1>10 DEF Approve, Answered, Kin
<1>11. ASSUME Settled \/ Fails \/ Interrupted PROVE Kin
  BY <1>1, <1>2, <1>11 DEF Settled, Fails, Interrupted
<1>12. Kin
  BY <1>6, <1>7, <1>8, <1>9, <1>10, <1>11 DEF Progress
<1>13. UNCHANGED <<cancelled, issued, meant>> /\ Busy
  BY DEF Progress, Resolved, Checked, Inspected, Verified, Approve, Answered, Settled, Fails,
         Interrupted, Stays, NoNewId, Busy, Awaits
<1> QED
  BY <1>12, <1>13 DEF Kin

\* A walk that has ended is no longer active, so that nothing of it can be cancelled.
LEMMA SearchSteps ==
  ASSUME CancelInv, SearchProgress, UNCHANGED workplace
  PROVE  CancelInv'
<1>1. UNCHANGED <<issued, meant>> /\ UNCHANGED <<step, task, cancelled>>
  BY DEF SearchProgress, Look, WalkEnds, BreakOff, Settle, SearchFails, Return, NoNewId, workplace
<1>2. search \in Searches
  BY DEF SearchProgress, Look, WalkEnds, BreakOff, SearchFails, Return, CancelInv, WalkInv
<1>3. CASE search' = search /\ (searching' = searching \/ searching = "settled")
  BY <1>1, <1>2, <1>3 DEF CancelInv, CancelMeetsItsTask, WalkInv, Busy
<1>4. CASE \E s \in Stages : search' = [search EXCEPT !.active = FALSE, !.stage = s]
  <2>1. search'.active = FALSE /\ search' \in Searches
    BY <1>2, <1>4 DEF Searches
  <2> QED
    BY <1>1, <2>1 DEF CancelInv, CancelMeetsItsTask, WalkInv, Busy
<1>5. CASE WalkEnds \/ BreakOff \/ SearchFails
  BY <1>4, <1>5 DEF WalkEnds, BreakOff, SearchFails, Settle, Stages
<1>6. CASE Return \/ \E r \in BOOLEAN : Look(r)
  BY <1>3, <1>6 DEF Return, Look
<1> QED
  BY <1>5, <1>6 DEF SearchProgress

\* A button cancels the task whose id the window shows, if it is still at work, and a task begins
\* with no event raised.
LEMMA CancelGoesOn == WorkInv /\ CancelInv /\ [Next]_vars => CancelInv'
<1> SUFFICES ASSUME WorkInv, CancelInv, [Next]_vars PROVE CancelInv'
  OBVIOUS
<1>1. CASE WorkplaceTurn
  <2>1. step = "idle" /\ searching = "no" /\ UNCHANGED searches
    BY <1>1 DEF WorkplaceTurn, Free
  <2>2. ASSUME NewId, cancelled' = FALSE PROVE CancelInv'
    BY <2>1, <2>2, TaskAssumption DEF NewId, CancelInv, CancelMeetsItsTask, WalkInv, searches
  <2>3. ASSUME NoNewId, step' = step PROVE CancelInv'
    BY <2>1, <2>3 DEF NoNewId, CancelInv, CancelMeetsItsTask, WalkInv, searches, Busy, Awaits
  <2> QED
    BY <1>1, <2>2, <2>3 DEF WorkplaceTurn, Run, Retry, Begin, Forget, ClearContext
<1>2. CASE WorkplaceStep \/ Cut
  <2>1. UNCHANGED searches
    BY <1>2 DEF WorkplaceStep, Cut
  <2>2. UNCHANGED <<cancelled, issued, meant>> /\ (Busy' => Busy /\ task'.id = task.id)
    <3>1. CASE Expire
      BY <3>1 DEF Expire, NoNewId, Busy
    <3> QED
      BY <1>2, <3>1, ProgressSameTask DEF WorkplaceStep, Cut
  <2> QED
    BY <2>1, <2>2 DEF CancelInv, CancelMeetsItsTask, WalkInv, searches
<1>3. CASE SearchTurn
  <2>1. PICK q \in Requests : BeginSearch(q)
    BY <1>3 DEF SearchTurn
  <2>2. step = "idle" /\ UNCHANGED workplace
    BY <1>3 DEF SearchTurn, Free
  <2>3. issued' \in Ids /\ issued' \in 0..MaxTasks
    BY <2>1, TaskAssumption DEF BeginSearch, NewId, CancelInv, Ids
  <2>4. search' \in Searches /\ search'.cancel = FALSE /\ searching' = "walking"
    BY <2>1, <2>3 DEF BeginSearch, Searches, Stages
  <2> QED
    BY <2>2, <2>3, <2>4 DEF CancelInv, CancelMeetsItsTask, WalkInv, workplace, Busy, Awaits
<1>4. CASE SearchStep
  <2>1. CASE SearchAges
    BY <1>4, <2>1 DEF SearchStep, SearchAges, NoNewId, CancelInv, CancelMeetsItsTask, WalkInv,
                      workplace, Busy
  <2> QED
    BY <1>4, <2>1, SearchSteps DEF SearchStep
<1>5. ASSUME UNCHANGED <<issued, meant, step, task, cancelled, search, searching>> PROVE CancelInv'
  BY <1>5 DEF CancelInv, CancelMeetsItsTask, WalkInv, Busy
<1>6. CASE Close \/ Show
  BY <1>5, <1>6 DEF Close, CloseFiles, Show, NoNewId, workplace, searches
<1>7. CASE WebTask \/ WebGoesOn \/ PentestTask \/ PentestGoesOn \/ CloseScan
  BY <1>5, <1>7 DEF WebTask, WebGoesOn, PentestTask, PentestGoesOn, CloseScan, Elsewhere, workplace,
                    searches
<1>8. CASE StoresTask \/ StoresGoOn \/ TimerFires \/ UserActs
  BY <1>5, <1>8 DEF StoresTask, StoresGoOn, TimerFires, UserActs, Elsewhere, workplace, searches
<1>9. ASSUME NEW id, CancelTask(id), meant' = meant \cup {id}, UNCHANGED searches PROVE CancelInv'
  BY <1>9 DEF CancelTask, NamesTask, CancelInv, CancelMeetsItsTask, WalkInv, searches, Busy
<1>10. ASSUME NEW id, CancelSearch(id), meant' = meant \cup {id}, UNCHANGED workplace
       PROVE  CancelInv'
  <2>1. /\ search # None /\ search.active /\ id = search.id /\ search \in Searches
        /\ search' = [search EXCEPT !.cancel = TRUE, !.stage = "cancelling"]
        /\ UNCHANGED <<searching, issued, step, task, cancelled>>
    BY <1>10 DEF CancelSearch, NamesTask, CancelInv, WalkInv, workplace
  <2>2. search' \in Searches /\ search'.id = id /\ search'.active = search.active
    BY <2>1 DEF Searches, Stages
  <2> QED
    BY <1>10, <2>1, <2>2 DEF CancelInv, CancelMeetsItsTask, WalkInv, Busy
<1>11. CASE Press \/ TypeCancel
  BY <1>9, <1>10, <1>11 DEF Press, TypeCancel
<1>12. CASE UNCHANGED vars
  BY <1>5, <1>12 DEF vars, workplace, searches
<1> QED
  BY <1>1, <1>2, <1>3, <1>4, <1>6, <1>7, <1>8, <1>11, <1>12 DEF Next

-----------------------------------------------------------------------------
(* The file search *)

\* What an element at the end adds to a sequence.
LEMMA OneMore ==
  ASSUME NEW S, NEW s \in Seq(S), NEW e \in S
  PROVE  /\ Append(s, e) \in Seq(S) /\ ToSet(Append(s, e)) = ToSet(s) \cup {e}
         /\ IsInjective(s) /\ e \notin ToSet(s) => IsInjective(Append(s, e))
<1>1. /\ Append(s, e) \in Seq(S) /\ Len(Append(s, e)) = Len(s) + 1
      /\ \A i \in 1..Len(s) : Append(s, e)[i] = s[i]
      /\ Append(s, e)[Len(s) + 1] = e
  OBVIOUS
<1>2. DOMAIN s = 1..Len(s) /\ DOMAIN Append(s, e) = 1..(Len(s) + 1) /\ Len(s) \in Nat
  BY <1>1
<1>3. ToSet(Append(s, e)) = ToSet(s) \cup {e}
  BY <1>1, <1>2 DEF ToSet
<1>4. ASSUME IsInjective(s), e \notin ToSet(s) PROVE IsInjective(Append(s, e))
  <2> SUFFICES ASSUME NEW i \in 1..(Len(s) + 1), NEW j \in 1..(Len(s) + 1),
                      Append(s, e)[i] = Append(s, e)[j]
               PROVE  i = j
    BY <1>2 DEF IsInjective
  <2>1. \A k \in 1..Len(s) : s[k] # e
    BY <1>2, <1>4 DEF ToSet
  <2> QED
    BY <1>1, <1>2, <1>4, <2>1 DEF IsInjective
<1> QED
  BY <1>1, <1>3, <1>4

LEMMA AppendConcat ==
  ASSUME NEW S, NEW s \in Seq(S), NEW u \in Seq(S), NEW e \in S
  PROVE  s \o Append(u, e) = Append(s \o u, e)
<1>1. Append(u, e) \in Seq(S) /\ Len(Append(u, e)) = Len(u) + 1 /\ Len(u) \in Nat /\ Len(s) \in Nat
  OBVIOUS
<1>2. Append(u, e)[Len(u) + 1] = e /\ \A i \in 1..Len(u) : Append(u, e)[i] = u[i]
  OBVIOUS
<1>3. s \o u \in Seq(S) /\ Len(s \o u) = Len(s) + Len(u)
  OBVIOUS
<1>4. \A w \in Seq(S) : \A i \in 1..(Len(s) + Len(w)) :
        (s \o w)[i] = IF i <= Len(s) THEN s[i] ELSE w[i - Len(s)]
  BY ConcatProperties
<1>5. \A i \in 1..(Len(s) + (Len(u) + 1)) :
        (s \o Append(u, e))[i] = IF i <= Len(s) THEN s[i] ELSE Append(u, e)[i - Len(s)]
  BY <1>1, <1>4
<1> DEFINE m == s \o u  n == s \o Append(u, e)
<1>6. n \in Seq(S) /\ Len(n) = Len(m) + 1
  BY <1>1, <1>3
<1>7. Append(m, e) \in Seq(S) /\ Len(Append(m, e)) = Len(m) + 1
  BY <1>3
<1>8. \A i \in 1..(Len(m) + 1) : Append(m, e)[i] = IF i <= Len(m) THEN m[i] ELSE e
  BY <1>3
<1>9. \A i \in 1..(Len(m) + 1) : n[i] = Append(m, e)[i]
  <2> HIDE DEF m, n
  <2> QED
    BY <1>1, <1>2, <1>3, <1>4, <1>5, <1>8 DEF m, n
<1> QED
  BY <1>6, <1>7, <1>9, SeqEqual

LEMMA PrefixInjective ==
  \A S : \A s, u \in Seq(S) : IsInjective(s \o u) => IsInjective(s)
<1> SUFFICES ASSUME NEW S, NEW s \in Seq(S), NEW u \in Seq(S), IsInjective(s \o u),
                    NEW i \in DOMAIN s, NEW j \in DOMAIN s, s[i] = s[j]
             PROVE  i = j
  BY DEF IsInjective
<1>1. (s \o u)[i] = s[i] /\ (s \o u)[j] = s[j] /\ i \in DOMAIN (s \o u) /\ j \in DOMAIN (s \o u)
  BY ConcatProperties
<1> QED
  BY <1>1 DEF IsInjective

SearchTypes ==
  /\ searching \in {"no", "walking", "settled"}
  /\ search = None \/ search \in Searches
  /\ key \in Keys \cup {None} /\ cursor \in 0..Files \cup {None}
  /\ page \in Seq(1..Files) /\ Len(page) <= Limit

SearchInv == SearchTypes /\ WalkInv /\ HandedInv /\ issued \in 0..MaxTasks

LEMMA SearchBegins ==
  ASSUME SearchInv, NEW r \in Requests, BeginSearch(r)
  PROVE  SearchTypes' /\ HandedInv'
<1>1. searching = "no" /\ searching' = "walking" /\ page' = <<>> /\ asked' = r /\ stopped' = stopped
  BY DEF BeginSearch
<1>2. issued' \in 0..MaxTasks /\ issued' \in Ids
  BY TaskAssumption DEF BeginSearch, NewId, SearchInv, Ids
<1>3. search' \in Searches /\ search'.stage = "searching"
  <2>1. search' = [id |-> issued', active |-> TRUE, stage |-> "searching", cancel |-> FALSE]
    BY DEF BeginSearch
  <2> QED
    BY <1>2, <2>1 DEF Searches, Stages
<1>4. Key(r) \in Keys /\ Key(r)[1] = r
  <2>1. (IF r \in Dated THEN issued' ELSE 0) \in 0..MaxTasks
    BY <1>2, TaskAssumption
  <2> QED
    BY <2>1 DEF Key, Keys
<1>5. given' \in Seq(1..Files) => Handed' = given'
  BY <1>1, ConcatEmptySeq DEF Handed
<1>6. CASE Resumes(r)
  <2>1. /\ UNCHANGED <<key, cursor, given, skipped>>
        /\ key = Key(r) /\ cursor # None
    BY <1>6 DEF BeginSearch, Resumes
  <2>2. /\ Handed' = given /\ Handed = given /\ given \in Seq(1..Files)
        /\ cursor \in 0..Files /\ asked = r
        /\ ToSet(Handed) \cup skipped = Wanted(asked) \cap 1..cursor /\ IsInjective(Handed)
    BY <1>1, <1>4, <1>5, <2>1 DEF SearchInv, HandedInv, Handed
  <2>3. HandedInv'
    BY <1>1, <1>3, <1>4, <2>1, <2>2 DEF HandedInv, SearchInv
  <2> QED
    BY <1>1, <1>3, <1>4, <2>1, <2>2, <2>3, SearchAssumption, EmptySeq DEF SearchTypes
<1>7. CASE ~Resumes(r)
  <2>1. key' = Key(r) /\ cursor' = 0 /\ given' = <<>> /\ skipped' = {}
    BY <1>7 DEF BeginSearch
  <2>2. Handed' = <<>> /\ ToSet(<<>>) = {} /\ IsInjective(<<>>) /\ given' \in Seq(1..Files)
    BY <1>5, <2>1 DEF ToSet, IsInjective
  <2>3. HandedInv'
    BY <1>1, <1>3, <1>4, <2>1, <2>2, SearchAssumption DEF HandedInv, SearchInv
  <2> QED
    BY <1>1, <1>3, <1>4, <2>1, <2>2, <2>3, SearchAssumption, EmptySeq DEF SearchTypes
<1> QED
  BY <1>6, <1>7

\* One more file is passed, and it goes where it belongs.
LEMMA FileLooked ==
  ASSUME SearchInv, NEW readable \in BOOLEAN, Look(readable)
  PROVE  SearchTypes' /\ HandedInv'
<1>1. /\ searching = "walking" /\ searching' = "walking" /\ Len(page) < Limit
      /\ cursor' = cursor + 1 /\ cursor < Files
      /\ UNCHANGED <<search, asked, key, stopped, given>>
  BY DEF Look
<1>2. /\ cursor \in 0..Files /\ cursor' \in 1..Files /\ key[1] = asked
      /\ ToSet(Handed) \cup skipped = Wanted(asked) \cap 1..cursor
      /\ Handed = given \o page /\ Handed' = given \o page'
      /\ given \in Seq(1..Files) /\ page \in Seq(1..Files) /\ IsInjective(Handed)
  BY <1>1, SearchAssumption DEF SearchInv, SearchTypes, HandedInv, Handed
<1>3. cursor' \notin ToSet(Handed)
  BY <1>1, <1>2
<1>4. 1..cursor' = 1..cursor \cup {cursor'}
  BY <1>1, <1>2
<1>5. Handed \in Seq(1..Files)
  BY <1>2
<1>6. CASE page' = Append(page, cursor') /\ skipped' = skipped /\ cursor' \in Wanted(asked)
  <2>1. page' \in Seq(1..Files) /\ Len(page') = Len(page) + 1
    BY <1>2, <1>6
  <2>2. Handed' = Append(Handed, cursor')
    BY <1>2, <1>6, AppendConcat
  <2>3. IsInjective(Handed') /\ ToSet(Handed') = ToSet(Handed) \cup {cursor'}
    <3>1. /\ IsInjective(Append(Handed, cursor'))
          /\ ToSet(Append(Handed, cursor')) = ToSet(Handed) \cup {cursor'}
      <4>1. cursor' \in 1..Files /\ IsInjective(Handed)
        BY <1>2
      <4>2. \A S : \A s \in Seq(S), e \in S :
              /\ ToSet(Append(s, e)) = ToSet(s) \cup {e}
              /\ IsInjective(s) /\ e \notin ToSet(s) => IsInjective(Append(s, e))
        BY OneMore
      <4> QED
        BY <1>3, <1>5, <4>1, <4>2
    <3> QED
      BY <2>2, <3>1
  <2>4. ToSet(Handed') \cup skipped' = Wanted(asked) \cap 1..cursor'
    BY <1>2, <1>4, <1>6, <2>3
  <2>5. HandedInv'
    BY <1>1, <1>2, <2>3, <2>4 DEF SearchInv, HandedInv, WalkInv, Searches
  <2> QED
    BY <1>1, <1>2, <2>1, <2>5, SearchAssumption DEF SearchInv, SearchTypes
<1>7. CASE page' = page
  <2>1. Handed' = Handed
    BY <1>2, <1>7
  <2>2. ToSet(Handed') \cup skipped' = Wanted(asked) \cap 1..cursor'
    BY <1>2, <1>4, <1>7, <2>1 DEF Look
  <2>3. HandedInv'
    BY <1>1, <1>2, <2>1, <2>2 DEF SearchInv, HandedInv
  <2> QED
    BY <1>1, <1>2, <1>7, <2>3 DEF SearchInv, SearchTypes
<1> QED
  BY <1>6, <1>7 DEF Look

\* The walk ends with its page, or hands out nothing, and another can go on where it stands.
LEMMA WalkSettles ==
  ASSUME SearchInv, WalkEnds \/ BreakOff
  PROVE  SearchTypes' /\ HandedInv'
<1>1. PICK complete \in BOOLEAN : Settle(complete) /\ (complete => cursor = Files)
  BY DEF WalkEnds, BreakOff
<1>2. /\ searching = "walking" /\ searching' = "settled" /\ search \in Searches
      /\ UNCHANGED <<asked, key, stopped, given, skipped>>
  BY <1>1 DEF WalkEnds, BreakOff, Settle, SearchInv, WalkInv
<1>3. /\ cursor \in 0..Files /\ key[1] = asked /\ page \in Seq(1..Files) /\ Len(page) <= Limit
      /\ key \in Keys \cup {None}
      /\ ToSet(Handed) \cup skipped = Wanted(asked) \cap 1..cursor
      /\ Handed = given \o page /\ Handed' = given \o page'
      /\ given \in Seq(1..Files) /\ IsInjective(Handed) /\ stopped \in BOOLEAN
  BY <1>2 DEF SearchInv, SearchTypes, HandedInv, Handed
<1>4. CASE Dropped
  <2>1. /\ cursor' = None /\ page' = <<>>
        /\ search' = [search EXCEPT !.active = FALSE, !.stage = "cancelled"]
    BY <1>1, <1>4 DEF Settle
  <2>2. search' \in Searches /\ search'.stage = "cancelled"
    BY <1>2, <2>1 DEF Searches, Stages
  <2>3. Handed' = given
    BY <1>3, <2>1, ConcatEmptySeq
  <2>4. IsInjective(given)
    BY <1>3, PrefixInjective
  <2>5. SearchTypes'
    BY <1>2, <1>3, <2>1, <2>2, SearchAssumption, EmptySeq DEF SearchTypes
  <2> QED
    BY <1>2, <1>3, <2>1, <2>2, <2>3, <2>4, <2>5 DEF HandedInv
<1>5. CASE ~Dropped
  <2>1. /\ page' = page /\ cursor' = (IF complete THEN None ELSE cursor) /\ ~search.cancel
        /\ search' = [search EXCEPT !.active = FALSE,
                        !.stage = IF complete THEN "completed" ELSE "partial"]
    BY <1>1, <1>5 DEF Settle, Dropped
  <2>2. /\ search' \in Searches /\ search'.stage = (IF complete THEN "completed" ELSE "partial")
        /\ search'.cancel = search.cancel
    BY <1>2, <2>1 DEF Searches, Stages
  <2>3. SearchTypes' /\ Handed' = Handed
    BY <1>2, <1>3, <2>1, <2>2 DEF SearchTypes
  <2> QED
    BY <1>1, <1>2, <1>3, <2>1, <2>2, <2>3 DEF HandedInv
<1> QED
  BY <1>4, <1>5

LEMMA SearchCloses ==
  ASSUME SearchInv, SearchFails \/ Return \/ CloseFiles \/ SearchAges
  PROVE  SearchTypes' /\ HandedInv'
<1> USE DEF SearchInv
<1>1. CASE SearchFails
  <2>1. /\ searching = "walking" /\ searching' = "no" /\ cursor' = None /\ page' = <<>>
        /\ search' = [search EXCEPT !.active = FALSE, !.stage = "failed"] /\ search \in Searches
        /\ UNCHANGED <<asked, key, stopped, given, skipped>>
    BY <1>1 DEF SearchFails, WalkInv
  <2>2. search' \in Searches /\ search'.stage = "failed"
    BY <2>1 DEF Searches, Stages
  <2>3. Handed = given \o page /\ given \in Seq(1..Files) /\ page \in Seq(1..Files) /\ IsInjective(Handed)
    BY <2>1 DEF HandedInv, Handed, SearchTypes
  <2>4. IsInjective(given) /\ Handed' = given
    BY <2>1, <2>3, PrefixInjective DEF Handed
  <2>5. SearchTypes'
    BY <2>1, <2>2, SearchAssumption, EmptySeq DEF SearchTypes
  <2> QED
    BY <2>1, <2>2, <2>3, <2>4, <2>5 DEF HandedInv
<1>2. CASE Return
  <2>1. /\ searching = "settled" /\ searching' = "no" /\ given' = given \o page
        /\ UNCHANGED <<search, asked, key, cursor, page, stopped, skipped>>
    BY <1>2 DEF Return
  <2>2. Handed' = Handed /\ given' \in Seq(1..Files)
    BY <2>1, ConcatProperties DEF Handed, HandedInv, SearchTypes
  <2> QED
    BY <2>1, <2>2 DEF HandedInv, SearchTypes
<1>3. CASE CloseFiles
  <2>1. /\ UNCHANGED <<searching, search, asked, key, page, given, skipped>>
        /\ stopped' = TRUE /\ cursor' \in {cursor, None}
        /\ (searching = "walking" => cursor' = cursor)
    BY <1>3 DEF CloseFiles
  <2>2. Handed' = Handed
    BY <2>1 DEF Handed
  <2> QED
    BY <2>1, <2>2 DEF HandedInv, SearchTypes
<1>4. CASE SearchAges
  BY <1>4 DEF SearchAges, HandedInv, SearchTypes, Handed
<1> QED
  BY <1>1, <1>2, <1>3, <1>4

LEMMA SearchCancelled ==
  ASSUME SearchInv, NEW id, CancelSearch(id)
  PROVE  SearchTypes' /\ HandedInv'
<1>1. /\ search # None /\ search.active /\ search \in Searches /\ searching = "walking"
      /\ search' = [search EXCEPT !.cancel = TRUE, !.stage = "cancelling"]
      /\ UNCHANGED <<searching, asked, key, cursor, page, stopped, given, skipped>>
  BY DEF CancelSearch, SearchInv, WalkInv
<1>2. search' \in Searches /\ search'.stage = "cancelling"
  BY <1>1 DEF Searches, Stages
<1>3. Handed' = Handed
  BY <1>1 DEF Handed
<1> QED
  BY <1>1, <1>2, <1>3 DEF SearchInv, HandedInv, SearchTypes

LEMMA SearchGoesOn ==
  CancelInv /\ SearchTypes /\ HandedInv /\ [Next]_vars => SearchTypes' /\ HandedInv'
<1> SUFFICES ASSUME CancelInv, SearchTypes, HandedInv, [Next]_vars PROVE SearchTypes' /\ HandedInv'
  OBVIOUS
<1>1. SearchInv
  BY DEF SearchInv, CancelInv
<1>2. CASE UNCHANGED searches
  BY <1>2 DEF searches, SearchTypes, HandedInv, Handed
<1>3. CASE SearchTurn
  BY <1>1, <1>3, SearchBegins DEF SearchTurn
<1>4. CASE SearchStep
  BY <1>1, <1>4, FileLooked, WalkSettles, SearchCloses DEF SearchStep, SearchProgress
<1>5. CASE Close
  BY <1>1, <1>5, SearchCloses DEF Close
<1>6. CASE Press \/ TypeCancel
  BY <1>1, <1>2, <1>6, SearchCancelled DEF Press, TypeCancel
<1>7. CASE WorkplaceTurn \/ WorkplaceStep \/ Cut \/ Show \/ UNCHANGED vars
  BY <1>2, <1>7 DEF WorkplaceTurn, WorkplaceStep, Cut, Show, vars
<1>8. CASE WebTask \/ WebGoesOn \/ PentestTask \/ PentestGoesOn \/ StoresTask \/ StoresGoOn
             \/ TimerFires \/ UserActs \/ CloseScan
  BY <1>2, <1>8 DEF WebTask, WebGoesOn, PentestTask, PentestGoesOn, StoresTask, StoresGoOn, TimerFires,
                    UserActs, CloseScan, Elsewhere
<1> QED
  BY <1>3, <1>4, <1>5, <1>6, <1>7, <1>8 DEF Next

LEMMA SearchStarts == Init => SearchTypes /\ HandedInv
<1> SUFFICES ASSUME Init PROVE SearchTypes /\ HandedInv
  OBVIOUS
<1>1. /\ searching = "no" /\ search = None /\ key = None /\ cursor = None /\ page = <<>>
      /\ stopped = FALSE /\ given = <<>> /\ skipped = {}
  BY DEF Init, SearchInit
<1>2. Handed = <<>> /\ IsInjective(<<>>)
  BY <1>1 DEF Handed, IsInjective
<1> QED
  <2>1. <<>> \in Seq(1..Files) /\ Len(<<>>) = 0
    OBVIOUS
  <2>2. SearchTypes
    BY <1>1, <2>1, SearchAssumption DEF SearchTypes
  <2>3. HandedInv
    BY <1>1, <1>2, <2>1 DEF HandedInv
  <2> QED
    BY <2>2, <2>3

-----------------------------------------------------------------------------
(* The types of the agent *)

TaskTyped == /\ DOMAIN task = {"id", "kind", "status", "steps"}
             /\ task.id \in Ids /\ task.kind \in {"launch", "configure"}
             /\ task.steps \in StepsOf(Count) /\ Count \in Nat
WorkTypes ==
  /\ step \in Awaits \cup {"idle", "down"} /\ meant \subseteq Ids
  /\ (task = None \/ TaskTyped) /\ (Busy => TaskTyped)
  /\ plan \in Seq(Targets) /\ fresh \in Targets \cup {None} /\ verdict \in {"yes", "no", "error"}

LEMMA StepTyped ==
  \A n, p : \A steps \in StepsOf(n), s \in StepStates :
    [steps EXCEPT ![p].status = s] \in StepsOf(n)
<1> SUFFICES ASSUME NEW n, NEW steps \in StepsOf(n), NEW p, NEW s \in StepStates
             PROVE  [steps EXCEPT ![p].status = s] \in StepsOf(n)
  OBVIOUS
<1>1. \A i \in 1..n : [steps[i] EXCEPT !.status = s] \in [name : Names, status : StepStates]
  BY DEF StepsOf
<1> QED
  BY <1>1 DEF StepsOf

LEMMA FinishTyped ==
  ASSUME TaskTyped, meant' = meant, meant \subseteq Ids, NEW steps \in StepsOf(Count), NEW outcome,
         Finish(steps, outcome)
  PROVE  WorkTypes'
<1> DEFINE over == [k \in DOMAIN steps |-> [steps[k] EXCEPT !.status = Ended(@)]]
<1>1. /\ task' = [task EXCEPT !.status = outcome, !.steps = over]
      /\ step' \in {"idle", "down"} /\ plan' = <<>> /\ fresh' = None /\ verdict' = "no"
  BY DEF Finish, Leave
<1>2. \A s \in StepStates : Ended(s) \in StepStates
  BY DEF Ended, StepStates
<1>3. \A k \in 1..Count : [steps[k] EXCEPT !.status = Ended(@)] \in [name : Names, status : StepStates]
  <2> TAKE k \in 1..Count
  <2>1. steps[k] \in [name : Names, status : StepStates]
    BY DEF StepsOf
  <2> QED
    BY <1>2, <2>1
<1>4. over \in StepsOf(Count) /\ DOMAIN over = 1..Count
  BY <1>3 DEF StepsOf
<1>5. /\ DOMAIN task' = DOMAIN task /\ task'.steps = over /\ task'.id = task.id
      /\ task'.kind = task.kind
  BY <1>1 DEF TaskTyped
<1> QED
  BY <1>1, <1>4, <1>5 DEF WorkTypes, TaskTyped, Count, Busy, Awaits

LEMMA NextStepTyped ==
  ASSUME TaskTyped, UNCHANGED meant, WorkTypes, NEW steps \in StepsOf(Count), NEW k \in Nat,
         NextStep(steps, k)
  PROVE  WorkTypes'
<1>1. CASE \E outcome : Finish(steps, outcome)
  BY <1>1, FinishTyped DEF WorkTypes
<1>2. CASE /\ task' = [task EXCEPT !.status = "running", !.steps = [steps EXCEPT ![k].status = "running"]]
           /\ step' = "checking" /\ Kept
  <2>1. [steps EXCEPT ![k].status = "running"] \in StepsOf(Count)
    BY StepTyped DEF StepStates
  <2>2. /\ DOMAIN task' = DOMAIN task /\ task'.id = task.id /\ task'.kind = task.kind
        /\ task'.steps = [steps EXCEPT ![k].status = "running"]
    <3>1. DOMAIN task = {"id", "kind", "status", "steps"}
      BY DEF TaskTyped
    <3> DEFINE new == [steps EXCEPT ![k].status = "running"]
    <3>2. task' = [task EXCEPT !.status = "running", !.steps = new]
      BY <1>2
    <3> HIDE DEF new
    <3>3. DOMAIN task' = DOMAIN task /\ task'.id = task.id /\ task'.kind = task.kind /\ task'.steps = new
      BY <3>1, <3>2
    <3> QED
      BY <3>3 DEF new
  <2>3. Len(task'.steps) = Count
    BY <2>1, <2>2 DEF StepsOf, TaskTyped
  <2> QED
    BY <1>2, <2>1, <2>2, <2>3 DEF WorkTypes, TaskTyped, Kept, Count, Busy, Awaits
<1> QED
  BY <1>1, <1>2 DEF NextStep

LEMMA BeginTyped ==
  ASSUME WorkTypes, issued \in 0..MaxTasks, NEW kind \in {"launch", "configure"}, NEW asks \in Seq(Names),
         NEW verified, Begin(kind, asks, verified)
  PROVE  WorkTypes'
<1> DEFINE list == [k \in 1..Len(asks) |-> [name |-> asks[k], status |-> "pending"]]
<1>1. /\ task' = [id |-> issued', kind |-> kind, status |-> "planning", steps |-> list]
      /\ step' = "resolving" /\ plan' = <<>> /\ fresh' = fresh /\ verdict' = "no" /\ meant' = {}
  BY DEF Begin, NewId
<1>2. issued' \in Ids
  BY TaskAssumption DEF Begin, NewId, Ids
<1>3. Len(asks) \in Nat /\ list \in StepsOf(Len(asks)) /\ Len(list) = Len(asks)
  BY DEF StepsOf, StepStates
<1>4. /\ DOMAIN task' = {"id", "kind", "status", "steps"} /\ task'.id = issued' /\ task'.kind = kind
      /\ task'.steps = list
  BY <1>1
<1> QED
  BY <1>1, <1>2, <1>3, <1>4 DEF WorkTypes, TaskTyped, Count, Awaits

LEMMA ProgressTyped ==
  ASSUME WorkInv, WorkTypes, Progress \/ Interrupted PROVE WorkTypes'
<1>1. Busy /\ TaskTyped /\ UNCHANGED meant /\ task.steps \in StepsOf(Count)
  <2>1. Busy /\ UNCHANGED meant
    BY DEF Progress, Interrupted, Resolved, Checked, Inspected, Verified, Answered, Approve, Settled, Fails,
           Stays, NoNewId, Busy, Awaits
  <2> QED
    BY <2>1 DEF WorkTypes, TaskTyped
<1>2. \A outcome : Finish(task.steps, outcome) => WorkTypes'
  BY <1>1, FinishTyped DEF WorkTypes
<1>3. \A s \in StepStates : With(s) \in StepsOf(Count)
  BY <1>1, StepTyped DEF With
<1>4. \A s \in StepStates : \A outcome : Finish(With(s), outcome) => WorkTypes'
  BY <1>1, <1>3, FinishTyped DEF WorkTypes
<1>5. \A s : task' = [task EXCEPT !.status = s] => TaskTyped'
  <2> SUFFICES ASSUME NEW s, task' = [task EXCEPT !.status = s] PROVE TaskTyped'
    OBVIOUS
  <2>1. DOMAIN task = {"id", "kind", "status", "steps"}
    BY <1>1 DEF TaskTyped
  <2>2. DOMAIN task' = DOMAIN task /\ task'.id = task.id /\ task'.kind = task.kind /\ task'.steps = task.steps
    BY <2>1
  <2> QED
    BY <1>1, <2>2 DEF TaskTyped, Count
<1>6. ASSUME Carrying PROVE Present \in Nat
  <2>1. PICK p \in 1..Count : CarryingOut(p)
    BY <1>6 DEF WorkInv, LaunchInv
  <2> QED
    BY <1>6, <2>1, StandingAt
<1>7. ASSUME NEW t \in Targets, Resolved(t) PROVE WorkTypes'
  <2>1. CASE Append(plan, t) = plan' /\ UNCHANGED <<fresh, verdict>>
    <3>1. plan' \in Seq(Targets)
      BY <2>1 DEF WorkTypes
    <3>2. TaskTyped' /\ step' \in Awaits
      <4>1. \/ step' = "asking" /\ task' = [task EXCEPT !.status = "awaiting_confirmation"]
            \/ step' = "resolving" /\ task' = task
            \/ \E outcome : Finish(task.steps, outcome)
        BY <1>7, <2>1 DEF Resolved
      <4>2. task' = task => TaskTyped'
        BY <1>1 DEF TaskTyped, Count
      <4>3. (\E outcome : Finish(task.steps, outcome)) => plan' = <<>>
        BY DEF Finish
      <4>4. plan' # <<>>
        BY <2>1 DEF WorkTypes
      <4> QED
        BY <1>5, <4>1, <4>2, <4>3, <4>4 DEF Awaits
    <3> QED
      BY <1>1, <2>1, <3>1, <3>2 DEF WorkTypes
  <2> QED
    BY <1>2, <1>7, <2>1 DEF Resolved
<1>8. ASSUME NEW t \in Targets, Checked(t) PROVE WorkTypes'
  BY <1>1, <1>2, <1>8 DEF Checked, WorkTypes, Awaits, TaskTyped, Count
<1>9. ASSUME With("verified") \in StepsOf(Count), Carrying, NextStep(With("verified"), Present + 1)
      PROVE  WorkTypes'
  BY <1>1, <1>6, <1>9, NextStepTyped
<1>10. CASE Approve \/ \E a \in {"yes", "no", "error"} : Answered(a)
  BY <1>1, <1>10 DEF Approve, Answered, WorkTypes, Awaits, TaskTyped, Count, history
<1>11. ASSUME NEW e \in Evidence, Inspected(e) PROVE WorkTypes'
  <2>1. CASE step' = "verifying" /\ task' = [task EXCEPT !.steps = With("verifying")] /\ Kept
    <3>1. /\ DOMAIN task' = DOMAIN task /\ task'.id = task.id /\ task'.kind = task.kind
          /\ task'.steps = With("verifying")
      BY <1>1, <2>1 DEF TaskTyped
    <3>2. With("verifying") \in StepsOf(Count)
      BY <1>3 DEF StepStates
    <3>3. Len(With("verifying")) = Count
      BY <1>1, <3>2 DEF StepsOf, TaskTyped
    <3> QED
      BY <1>1, <2>1, <3>1, <3>2, <3>3 DEF WorkTypes, TaskTyped, Kept, Count, Awaits
  <2>2. Carrying
    BY <1>11 DEF Inspected, Carrying
  <2> QED
    BY <1>2, <1>3, <1>4, <1>9, <1>11, <2>1, <2>2 DEF Inspected, StepStates
<1>12. ASSUME NEW e \in Evidence, Verified(e) PROVE WorkTypes'
  <2>1. Carrying
    BY <1>12 DEF Verified, Carrying
  <2> QED
    BY <1>2, <1>3, <1>4, <1>9, <1>12, <2>1 DEF Verified, StepStates
<1>13. CASE Settled
  <2>1. CASE Finish([k \in 1..Count |-> [task.steps[k] EXCEPT !.status = "saved"]], "saved")
    <3>1. [k \in 1..Count |-> [task.steps[k] EXCEPT !.status = "saved"]] \in StepsOf(Count)
      <4>1. \A k \in 1..Count : [task.steps[k] EXCEPT !.status = "saved"] \in [name : Names, status : StepStates]
        BY <1>1 DEF StepsOf, StepStates
      <4> QED
        BY <4>1 DEF StepsOf
    <3> QED
      BY <1>1, <2>1, <3>1, FinishTyped DEF WorkTypes
  <2>2. CASE NextStep(task.steps, 1)
    BY <1>1, <2>2, NextStepTyped
  <2> QED
    BY <1>2, <1>13, <2>1, <2>2 DEF Settled
<1>14. CASE Fails \/ Interrupted
  BY <1>2, <1>14 DEF Fails, Interrupted
<1> QED
  BY <1>7, <1>8, <1>10, <1>11, <1>12, <1>13, <1>14 DEF Progress

LEMMA WorkTyped ==
  WorkInv /\ CancelInv /\ WorkTypes /\ [Next]_vars => WorkTypes'
<1> SUFFICES ASSUME WorkInv, CancelInv, WorkTypes, [Next]_vars PROVE WorkTypes'
  OBVIOUS
<1>1. ASSUME UNCHANGED <<step, task, plan, fresh, verdict>>, meant' \subseteq Ids PROVE WorkTypes'
  BY <1>1 DEF WorkTypes, TaskTyped, Count, Busy
<1>2. CASE UNCHANGED workplace /\ meant' \in {meant, {}}
  BY <1>1, <1>2 DEF workplace, WorkTypes
<1>3. CASE WorkplaceTurn
  <2>1. issued \in 0..MaxTasks
    BY DEF CancelInv
  <2>2. CASE Run
    <3>1. PICK kind \in {"launch", "configure"}, titles \in Lists : Begin(kind, titles, {})
      BY <2>2 DEF Run
    <3> QED
      BY <2>1, <3>1, BeginTyped, WorkplaceAssumption
  <2>3. CASE Retry
    BY <2>1, <2>3, BeginTyped DEF Retry, WorkInv, LastInv
  <2>4. CASE Forget
    BY <1>1, <2>4 DEF Forget, NoNewId, WorkTypes
  <2>5. CASE ClearContext
    BY <2>5 DEF ClearContext, NoNewId, WorkTypes, Busy, Awaits
  <2> QED
    BY <1>3, <2>2, <2>3, <2>4, <2>5 DEF WorkplaceTurn
<1>4. CASE WorkplaceStep \/ Cut
  <2>1. CASE Expire
    BY <1>1, <2>1 DEF Expire, NoNewId, WorkTypes
  <2> QED
    BY <1>4, <2>1, ProgressTyped DEF WorkplaceStep, Cut
<1>5. CASE SearchTurn \/ SearchStep \/ Close
  <2>1. meant' \in {meant, {}}
    BY <1>5 DEF SearchTurn, SearchStep, Close, BeginSearch, NewId, SearchProgress, Look, WalkEnds, BreakOff,
                Settle, SearchFails, Return, CloseFiles, SearchAges, NoNewId
  <2> QED
    BY <1>2, <1>5, <2>1 DEF SearchTurn, SearchStep, Close
<1>6. CASE Show \/ UNCHANGED vars
  BY <1>2, <1>6 DEF Show, vars
<1>7. CASE WebTask \/ WebGoesOn \/ PentestTask \/ PentestGoesOn \/ StoresTask \/ StoresGoOn
             \/ TimerFires \/ UserActs \/ CloseScan
  BY <1>2, <1>7 DEF WebTask, WebGoesOn, PentestTask, PentestGoesOn, StoresTask, StoresGoOn, TimerFires,
                    UserActs, CloseScan, Elsewhere
<1>8. ASSUME NEW id, CancelTask(id), meant' = meant \cup {id} PROVE WorkTypes'
  BY <1>1, <1>8 DEF CancelTask, NamesTask, WorkTypes, TaskTyped
<1>9. ASSUME NEW id, CancelSearch(id), meant' = meant \cup {id}, UNCHANGED workplace PROVE WorkTypes'
  BY <1>1, <1>9 DEF CancelSearch, NamesTask, CancelInv, WalkInv, Searches, WorkTypes, workplace
<1>10. CASE Press \/ TypeCancel
  BY <1>8, <1>9, <1>10 DEF Press, TypeCancel
<1> QED
  BY <1>3, <1>4, <1>5, <1>6, <1>7, <1>10 DEF Next

LEMMA WorkTypesStart == Init => WorkTypes
BY EmptySeq DEF Init, WorkplaceInit, WorkTypes, Busy, Awaits

TaskTypes == WorkTypes /\ SearchTypes
LEMMA TypesOfTasks == WorkInv /\ CancelInv /\ TaskTypes => TypeOK
BY DEF WorkInv, TaskInv, CancelInv, TaskTypes, WorkTypes, TaskTyped, SearchTypes, TypeOK

-----------------------------------------------------------------------------
(* The web *)

\* Where the way of redirects goes from an address.
Onward(url) == IF url = Nothing \/ site[url] \notin Urls THEN Nothing ELSE Canon[site[url]]

LEMMA WayGoesOn ==
  ASSUME NEW url
  PROVE  Way(url) = [n \in 1..4 |-> IF n = 1 THEN Canon[url] ELSE Onward(Way(url)[n - 1])]
<1> DEFINE Is(f) == f = [n \in 1..4 |-> IF n = 1 THEN Canon[url] ELSE Onward(f[n - 1])]
           w == Canon[url]
           ways == [n \in 1..4 |-> IF n = 1 THEN w ELSE IF n = 2 THEN Onward(w)
                                   ELSE IF n = 3 THEN Onward(Onward(w)) ELSE Onward(Onward(Onward(w)))]
<1>1. Is(ways)
  <2> DEFINE new == [n \in 1..4 |-> IF n = 1 THEN Canon[url] ELSE Onward(ways[n - 1])]
  <2>1. \A n \in 1..4 : n = 1 \/ n = 2 \/ n = 3 \/ n = 4
    OBVIOUS
  <2>2. ways[1] = w /\ ways[2] = Onward(w) /\ ways[3] = Onward(Onward(w))
        /\ ways[4] = Onward(Onward(Onward(w)))
    OBVIOUS
  <2>3. new[1] = w /\ new[2] = Onward(ways[1]) /\ new[3] = Onward(ways[2]) /\ new[4] = Onward(ways[3])
    OBVIOUS
  <2>4. \A n \in 1..4 : ways[n] = new[n]
    <3> HIDE DEF ways, new
    <3> QED
      BY <2>1, <2>2, <2>3
  <2>5. ways = new
    BY <2>4
  <2> QED
    BY <2>5
<1>2. Way(url) = CHOOSE f : Is(f)
  BY DEF Way, Onward, Hops
<1> QED
  BY <1>1, <1>2

\* There is one text on a way at most, and that is where it lands.
LEMMA LandsAtText ==
  ASSUME NEW url, NEW n \in 1..4, Way(url)[n] # Nothing, site[Way(url)[n]] = "text"
  PROVE  Lands(url) = Way(url)[n]
<1> DEFINE way == Way(url)
           texts == {m \in 1..4 : way[m] # Nothing /\ site[way[m]] = "text"}
<1>1. way[2] = Onward(way[1]) /\ way[3] = Onward(way[2]) /\ way[4] = Onward(way[3])
  <2> DEFINE new == [m \in 1..4 |-> IF m = 1 THEN Canon[url] ELSE Onward(way[m - 1])]
  <2>1. new[2] = Onward(way[1]) /\ new[3] = Onward(way[2]) /\ new[4] = Onward(way[3])
    OBVIOUS
  <2>2. way = new
    BY WayGoesOn
  <2> HIDE DEF way, new
  <2> QED
    BY <2>1, <2>2
<1> HIDE DEF way
<1>2. "text" \notin Urls
  BY ReaderAssumption
<1>3. \A m \in texts : Onward(way[m]) = Nothing
  BY <1>2 DEF Onward
<1>4. Onward(Nothing) = Nothing
  BY DEF Onward
<1>5. \A m \in 1..4 : m = 1 \/ m = 2 \/ m = 3 \/ m = 4
  OBVIOUS
<1>6. \A m, k \in texts : ~(m < k)
  BY <1>1, <1>3, <1>4, <1>5
<1>7. \A m \in texts : m = n
  <2> TAKE m \in texts
  <2>1. m \in 1..4 /\ n \in texts
    BY DEF way
  <2> QED
    BY <1>6, <2>1
<1>8. n \in texts
  BY DEF way
<1>9. (CHOOSE m \in texts : TRUE) = n
  BY <1>7, <1>8
<1> QED
  BY <1>8, <1>9 DEF Lands, way, Hops

\* The loop of the reader goes on along the way, and ends where it lands or with nothing.
LEMMA FetchedFollows ==
  ASSUME site \in Sites, NEW url, NEW doc, Follows(doc, url), doc.end = Nothing
  PROVE  Follows(Fetched(doc), url) /\ Follows(Failed(doc), url)
<1> DEFINE next == Canon[doc.at]
           been == Cardinality(doc.visited)
<1>1. /\ doc \in Pages /\ doc.at \in Urls /\ IsFiniteSet(doc.visited) /\ been \in Nat /\ been <= 4
      /\ been < 4 => next = Way(url)[been + 1]
  BY FS_CardinalityType DEF Follows, Hops
<1>2. Nothing \notin Urls /\ "failed" \notin Urls
  BY ReaderAssumption
<1>3. Follows(Failed(doc), url)
  <2>1. Failed(doc) \in Pages /\ Failed(doc).end = "failed" /\ Failed(doc).at = doc.at
        /\ Failed(doc).visited = doc.visited
    BY <1>1 DEF Failed, Pages
  <2> QED
    BY <1>1, <1>2, <2>1, ReaderAssumption DEF Follows, Hops
<1>4. ASSUME next # Nothing, next \notin doc.visited, site[next] # "refused", been # 4
      PROVE  Follows(Fetched(doc), url)
  <2>1. next \in Public /\ next \in Urls /\ next = Way(url)[been + 1] /\ been + 1 \in 1..4
    BY <1>1, <1>4, ReaderAssumption DEF Public
  <2>2. CASE site[next] = "text"
    <3>1. Fetched(doc) = [doc EXCEPT !.end = next]
      BY <1>4, <2>2 DEF Fetched, Hops
    <3>2. Fetched(doc) \in Pages /\ Fetched(doc).end = next
      BY <1>1, <2>1, <3>1 DEF Pages
    <3>3. next = Lands(url)
      BY <1>4, <2>1, <2>2, LandsAtText
    <3> QED
      BY <1>4, <2>2, <3>2, <3>3 DEF Follows
  <2>3. CASE site[next] # "text"
    <3>1. Fetched(doc) = [doc EXCEPT !.at = site[next], !.visited = doc.visited \cup {next}]
      BY <1>4, <2>3 DEF Fetched, Hops
    <3>2. site[next] \in Urls
      BY <1>4, <2>1, <2>3, ReaderAssumption
    <3>3. /\ Fetched(doc) \in Pages /\ Fetched(doc).at = site[next]
          /\ Fetched(doc).visited = doc.visited \cup {next} /\ Fetched(doc).end = Nothing
      <4> DEFINE more == doc.visited \cup {next}
      <4>1. more \in SUBSET Public /\ site[next] \in Urls \cup {Nothing}
        BY <1>1, <2>1, <3>2 DEF Pages
      <4>2. Fetched(doc) = [doc EXCEPT !.at = site[next], !.visited = more]
        BY <3>1
      <4> HIDE DEF more, next
      <4>3. /\ Fetched(doc) \in Pages /\ Fetched(doc).at = site[next]
            /\ Fetched(doc).visited = more /\ Fetched(doc).end = doc.end
        BY <1>1, <4>1, <4>2 DEF Pages
      <4> QED
        BY <4>3 DEF more, next
    <3>4. /\ IsFiniteSet(doc.visited \cup {next})
          /\ Cardinality(doc.visited \cup {next}) = been + 1
      BY <1>1, <1>4, FS_AddElement
    <3>5. been + 1 < 4 => Canon[site[next]] = Way(url)[been + 2]
      <4>1. been + 1 < 4 => Way(url)[been + 2] = Onward(Way(url)[been + 1])
        <5> SUFFICES ASSUME been + 1 < 4 PROVE Way(url)[been + 2] = Onward(Way(url)[been + 1])
          OBVIOUS
        <5> DEFINE new == [m \in 1..4 |-> IF m = 1 THEN Canon[url] ELSE Onward(Way(url)[m - 1])]
        <5>1. been + 2 \in 1..4 /\ been + 2 # 1 /\ (been + 2) - 1 = been + 1
          BY <1>1
        <5>2. new[been + 2] = Onward(Way(url)[been + 1])
          BY <5>1
        <5> HIDE DEF new
        <5>3. Way(url) = new
          BY WayGoesOn DEF new
        <5> QED
          BY <5>2, <5>3
      <4>2. Onward(next) = Canon[site[next]]
        BY <1>4, <3>2 DEF Onward
      <4> QED
        BY <2>1, <4>1, <4>2
    <3> QED
      <4>1. Cardinality(Fetched(doc).visited) = been + 1 /\ been + 1 <= 4
        BY <2>1, <3>3, <3>4
      <4>2. been + 1 + 1 = been + 2
        BY <1>1
      <4> QED
        BY <1>2, <3>2, <3>3, <3>4, <3>5, <4>1, <4>2 DEF Follows, Hops
  <2> QED
    BY <2>2, <2>3
<1>5. ASSUME ~(next # Nothing /\ next \notin doc.visited /\ site[next] # "refused" /\ been # 4)
      PROVE  Fetched(doc) = Failed(doc)
  BY <1>5 DEF Fetched, Hops
<1> QED
  BY <1>3, <1>4, <1>5

\* What may stand in the service: pages that hold text, each once, and an answer that rests
\* on them.
Sound(r, held) ==
  /\ r \in ServiceStates /\ Len(r.sources) <= 3 /\ IsInjective(r.sources)
  /\ \A k \in 1..Len(r.sources) : held[r.sources[k]] = "text"
  /\ r.last # Nothing /\ Grounded(r.last) =>
       r.last.links = r.sources /\ r.last.cited # {} /\ r.last.cited \subseteq DOMAIN r.sources

\* What a second try leaves alone.
Earlier == ToSet(service[1].sources) \cup service[1].attempted
Fine(s) ==
  /\ s \in Seq(Public) /\ IsInjective(s) /\ \A k \in 1..Len(s) : site[s[k]] = "text"
  /\ pass = 2 => ToSet(s) \cap Earlier = {}

LEMMA RankGrows ==
  ASSUME NEW s, NEW m \in Nat, NEW n \in Nat, m <= n, InRank(s, m) PROVE InRank(s, n)
<1>1. 1..m \subseteq 1..n
  OBVIOUS
<1> QED
  BY <1>1 DEF InRank

\* One page is taken: it is where its row lands, and is as good as those before it.
LEMMA TakeKeeps ==
  ASSUME site \in Sites, service \in [1..2 -> ServiceStates], NEW s, Fine(s),
         NEW i \in 1..Len(queue), InRank(s, i - 1), i \in DOMAIN reads, Follows(reads[i], queue[i])
  PROVE  /\ Fine(Take(s, i)) /\ InRank(Take(s, i), i)
         /\ Len(Take(s, i)) \in Nat /\ Len(Take(s, i)) <= Len(s) + 1
<1> DEFINE e == reads[i].end
<1>1. s \in Seq(Public) /\ Len(s) \in Nat
  BY DEF Fine
<1>2. CASE ~Usable(e, s)
  <2>1. Take(s, i) = s
    BY <1>2 DEF Take
  <2>2. i - 1 \in Nat /\ i \in Nat /\ i - 1 <= i
    OBVIOUS
  <2> QED
    BY <1>1, <2>1, <2>2, RankGrows
<1>3. CASE Usable(e, s)
  <2>1. /\ Take(s, i) = Append(s, e) /\ e \in Urls /\ e \notin ToSet(s)
        /\ Canon[e] \notin Excluded
    BY <1>3 DEF Take, Usable
  <2>2. e = Lands(queue[i]) /\ site[e] = "text" /\ e \in Public
    BY <2>1, ReaderAssumption DEF Follows, Pages
  <2>3. Len(Append(s, e)) = Len(s) + 1 /\ Append(s, e)[Len(s) + 1] = e
        /\ \A k \in 1..Len(s) : Append(s, e)[k] = s[k]
    BY <1>1, <2>2
  <2>4. Append(s, e) \in Seq(Public) /\ IsInjective(Append(s, e)) /\ ToSet(Append(s, e)) = ToSet(s) \cup {e}
    BY <1>1, <2>1, <2>2, OneMore DEF Fine
  <2>5. \A k \in 1..(Len(s) + 1) : site[Append(s, e)[k]] = "text"
    BY <1>1, <2>2, <2>3 DEF Fine
  <2>6. pass = 2 => e \notin Earlier
    <3> SUFFICES ASSUME pass = 2 PROVE e \notin Earlier
      OBVIOUS
    <3>1. Canon[e] = e /\ e \notin Old
      BY <2>1, <2>2 DEF Public, Excluded
    <3>2. \A u \in ToSet(service[1].sources) : Canon[u] = u
      <4>1. service[1].sources \in Seq(Public)
        BY DEF ServiceStates
      <4> QED
        BY <4>1 DEF ToSet, Public
    <3> QED
      BY <3>1, <3>2 DEF Old, Earlier
  <2>7. InRank(Append(s, e), i)
    <3>1. PICK at \in [1..Len(s) -> 1..(i - 1)] :
            /\ \A j, k \in DOMAIN at : j < k => at[j] < at[k]
            /\ \A k \in DOMAIN at : Lands(queue[at[k]]) = s[k]
      BY DEF InRank
    <3> DEFINE more == [k \in 1..(Len(s) + 1) |-> IF k <= Len(s) THEN at[k] ELSE i]
    <3>2. more \in [1..(Len(s) + 1) -> 1..i]
      BY <1>1
    <3>3. \A j, k \in 1..(Len(s) + 1) : j < k => more[j] < more[k]
      BY <1>1, <3>1
    <3>4. \A k \in 1..(Len(s) + 1) : Lands(queue[more[k]]) = Append(s, e)[k]
      BY <1>1, <2>2, <2>3, <3>1
    <3> HIDE DEF more
    <3>5. DOMAIN more = 1..(Len(s) + 1)
      BY <3>2
    <3> QED
      BY <2>3, <3>2, <3>3, <3>4, <3>5 DEF InRank
  <2> QED
    BY <1>1, <2>1, <2>3, <2>4, <2>5, <2>6, <2>7 DEF Fine
<1> QED
  BY <1>2, <1>3

\* The pages of a batch are taken one after the other.
LEMMA BatchTaken ==
  ASSUME site \in Sites, service \in [1..2 -> ServiceStates], queue \in Seq(Urls), tried \in Nat,
         BatchInv, look = "reading", Fine(service[pass].sources), NEW s, s = WithPages(service[pass].sources)
  PROVE  Fine(s) /\ InRank(s, tried) /\ Len(s) \in 0..3 /\ tried \in 1..Len(queue)
<1> DEFINE had == service[pass].sources
<1>1. PICK from \in 0..(tried - 1) :
         /\ DOMAIN reads = (from + 1)..tried /\ Len(had) + (tried - from) <= 3 /\ InRank(had, from)
         /\ \A i \in DOMAIN reads : Follows(reads[i], queue[i])
  BY DEF BatchInv
<1>2. from \in Nat /\ tried \in 1..Len(queue) /\ from < tried /\ Len(had) \in Nat /\ Len(queue) \in Nat
  BY DEF BatchInv, Fine
<1>3. tried - from \in 1..3
  BY <1>1, <1>2
<1> DEFINE Got(x, i) == Fine(x) /\ InRank(x, i) /\ Len(x) \in Nat /\ Len(x) + (tried - i) <= 3
<1>4. ASSUME NEW x, NEW i \in (from + 1)..tried, Got(x, i - 1) PROVE Got(Take(x, i), i)
  <2>1. i \in 1..Len(queue) /\ i \in DOMAIN reads
    BY <1>1, <1>2
  <2>2. /\ Fine(Take(x, i)) /\ InRank(Take(x, i), i)
        /\ Len(Take(x, i)) \in Nat /\ Len(Take(x, i)) <= Len(x) + 1
    BY <1>1, <1>4, <2>1, TakeKeeps
  <2> QED
    BY <1>2, <1>4, <2>2
<1>5. \A x, i : i \notin DOMAIN reads => Take(x, i) = x
  BY DEF Take
<1>6. Got(had, from)
  BY <1>1, <1>2
<1> DEFINE a == Take(had, tried - 2)  b == Take(a, tried - 1)
<1>7. s = Take(b, tried)
  BY DEF WithPages
<1> HIDE DEF Got, had, a, b
<1>8. Got(b, tried - 1) => Got(s, tried)
  <2>1. tried \in (from + 1)..tried
    BY <1>2
  <2> QED
    BY <1>4, <1>7, <2>1
<1>9. Got(b, tried - 1)
  <2>1. CASE tried - from = 1
    <3>1. tried - 2 \notin DOMAIN reads /\ tried - 1 \notin DOMAIN reads /\ tried - 1 = from
      BY <1>1, <1>2, <2>1
    <3> QED
      BY <1>5, <1>6, <3>1 DEF a, b
  <2>2. CASE tried - from = 2
    <3>1. tried - 2 \notin DOMAIN reads /\ (tried - 1) - 1 = from /\ tried - 1 \in (from + 1)..tried
      BY <1>1, <1>2, <2>2
    <3>2. a = had
      BY <1>5, <3>1 DEF a
    <3> QED
      BY <1>4, <1>6, <3>1, <3>2 DEF b
  <2>3. CASE tried - from = 3
    <3>1. (tried - 2) - 1 = from /\ tried - 2 \in (from + 1)..tried /\ tried - 1 \in (from + 1)..tried
          /\ (tried - 1) - 1 = tried - 2
      BY <1>1, <1>2, <2>3
    <3>2. Got(a, tried - 2)
      BY <1>4, <1>6, <3>1 DEF a
    <3> QED
      BY <1>4, <3>1, <3>2 DEF b
  <2> QED
    BY <1>3, <2>1, <2>2, <2>3
<1>10. Got(s, tried)
  BY <1>8, <1>9
<1> QED
  <2>1. Fine(s) /\ InRank(s, tried) /\ Len(s) \in Nat /\ Len(s) + (tried - tried) <= 3
    BY <1>10, Zenon DEF Got
  <2>2. \A n, m \in Nat : n + (m - m) <= 3 => n \in 0..3
    OBVIOUS
  <2>3. Len(s) \in 0..3
    BY <2>1, <2>2, Zenon
  <2> QED
    BY <1>2, <2>1, <2>3, Zenon

\* What holds of the answers at each await, and is kept by every step.
WebCore ==
  /\ WebTypeOK /\ \A p \in 1..2 : Sound(service[p], site)
  /\ SecondTryIsNew /\ ContextIsCurrent /\ BatchInv /\ KeptInv

\* A record of the service with other sources, attempts or answer.
LEMMA ServiceChanged ==
  ASSUME NEW r \in ServiceStates
  PROVE  /\ \A l : [r EXCEPT !.last = l] =
              [query |-> r.query, sources |-> r.sources, attempted |-> r.attempted, last |-> l]
         /\ \A s : [r EXCEPT !.sources = s] =
              [query |-> r.query, sources |-> s, attempted |-> r.attempted, last |-> r.last]
         /\ \A s, tries : [r EXCEPT !.sources = s, !.attempted = tries] =
              [query |-> r.query, sources |-> s, attempted |-> tries, last |-> r.last]
         /\ \A l, s : [r EXCEPT !.last = l, !.sources = s] =
              [query |-> r.query, sources |-> s, attempted |-> r.attempted, last |-> l]
         /\ \A s, l : [r EXCEPT !.sources = s, !.last = l] =
              [query |-> r.query, sources |-> s, attempted |-> r.attempted, last |-> l]
         /\ r.query \in Queries \cup {Nothing} /\ r.sources \in Seq(Public)
         /\ r.attempted \in SUBSET (Urls \cup {Nothing}) /\ r.last \in Told \cup {Nothing}
<1>0. ASSUME NEW l, NEW s, NEW tries
      PROVE  /\ [r EXCEPT !.last = l] =
                   [query |-> r.query, sources |-> r.sources, attempted |-> r.attempted, last |-> l]
             /\ [r EXCEPT !.sources = s] =
                   [query |-> r.query, sources |-> s, attempted |-> r.attempted, last |-> r.last]
             /\ [r EXCEPT !.sources = s, !.attempted = tries] =
                   [query |-> r.query, sources |-> s, attempted |-> tries, last |-> r.last]
             /\ [r EXCEPT !.last = l, !.sources = s] =
                   [query |-> r.query, sources |-> s, attempted |-> r.attempted, last |-> l]
             /\ [r EXCEPT !.sources = s, !.last = l] =
                   [query |-> r.query, sources |-> s, attempted |-> r.attempted, last |-> l]
             /\ r.query \in Queries \cup {Nothing} /\ r.sources \in Seq(Public)
             /\ r.attempted \in SUBSET (Urls \cup {Nothing}) /\ r.last \in Told \cup {Nothing}
  <2>1. /\ r = [query |-> r.query, sources |-> r.sources, attempted |-> r.attempted, last |-> r.last]
        /\ r.query \in Queries \cup {Nothing} /\ r.sources \in Seq(Public)
        /\ r.attempted \in SUBSET (Urls \cup {Nothing}) /\ r.last \in Told \cup {Nothing}
    BY DEF ServiceStates
  <2>2. [r EXCEPT !.last = l] =
          [query |-> r.query, sources |-> r.sources, attempted |-> r.attempted, last |-> l]
    BY <2>1
  <2>3. [r EXCEPT !.sources = s] =
          [query |-> r.query, sources |-> s, attempted |-> r.attempted, last |-> r.last]
    BY <2>1
  <2>4. [r EXCEPT !.sources = s, !.attempted = tries] =
          [query |-> r.query, sources |-> s, attempted |-> tries, last |-> r.last]
    <3> DEFINE half == [r EXCEPT !.sources = s]
    <3>1. half = [query |-> r.query, sources |-> s, attempted |-> r.attempted, last |-> r.last]
      BY <2>3
    <3> HIDE DEF half
    <3>2. [half EXCEPT !.attempted = tries] =
            [query |-> r.query, sources |-> s, attempted |-> tries, last |-> r.last]
      BY <3>1
    <3> QED
      BY <3>2 DEF half
  <2>5. [r EXCEPT !.last = l, !.sources = s] =
          [query |-> r.query, sources |-> s, attempted |-> r.attempted, last |-> l]
    <3> DEFINE half == [r EXCEPT !.last = l]
    <3>1. half = [query |-> r.query, sources |-> r.sources, attempted |-> r.attempted, last |-> l]
      BY <2>2
    <3> HIDE DEF half
    <3>2. [half EXCEPT !.sources = s] =
            [query |-> r.query, sources |-> s, attempted |-> r.attempted, last |-> l]
      BY <3>1
    <3> QED
      BY <3>2 DEF half
  <2>6. [r EXCEPT !.sources = s, !.last = l] =
          [query |-> r.query, sources |-> s, attempted |-> r.attempted, last |-> l]
    <3> DEFINE half == [r EXCEPT !.sources = s]
    <3>1. half = [query |-> r.query, sources |-> s, attempted |-> r.attempted, last |-> r.last]
      BY <2>3
    <3> HIDE DEF half
    <3>2. [half EXCEPT !.last = l] =
            [query |-> r.query, sources |-> s, attempted |-> r.attempted, last |-> l]
      BY <3>1
    <3> QED
      BY <3>2 DEF half
  <2> QED
    BY <2>1, <2>2, <2>3, <2>4, <2>5, <2>6, Zenon
<1> QED
  BY <1>0, Zenon

LEMMA BareTold ==
  ASSUME NEW s \in Statuses
  PROVE  /\ Bare(s) \in Told /\ Bare(s).links = <<>>
         /\ s \notin {"answered", "partial_answer"} => ~Grounded(Bare(s))
BY DEF Bare, Answer, Told, Coverages, Grounded

\* An answer that names no source stands on its own.
LEMMA BareSound ==
  ASSUME NEW r, NEW held, Sound(r, held), NEW l \in Told \cup {Nothing}, l # Nothing => ~Grounded(l)
  PROVE  /\ Sound([r EXCEPT !.last = l], held) /\ [r EXCEPT !.last = l].query = r.query
         /\ [r EXCEPT !.last = l].last = l /\ [r EXCEPT !.last = l].sources = r.sources
<1> DEFINE new == [r EXCEPT !.last = l]
<1>1. r \in ServiceStates
  BY DEF Sound
<1>2. new = [query |-> r.query, sources |-> r.sources, attempted |-> r.attempted, last |-> l]
      /\ r.query \in Queries \cup {Nothing} /\ r.sources \in Seq(Public)
      /\ r.attempted \in SUBSET (Urls \cup {Nothing})
  BY <1>1, ServiceChanged
<1> HIDE DEF new
<1>3. new \in ServiceStates /\ new.query = r.query /\ new.sources = r.sources /\ new.last = l
  BY <1>2 DEF ServiceStates
<1>4. Sound(new, held)
  BY <1>3 DEF Sound
<1> QED
  BY <1>3, <1>4 DEF new

\* A question begins with nothing, and so does what was asked in between.
LEMMA AskedSound ==
  ASSUME NEW held, NEW q \in Queries \cup {Nothing}, NEW tries \in SUBSET (Urls \cup {Nothing}),
         NEW l \in Told \cup {Nothing}, l # Nothing => ~Grounded(l),
         NEW r, r = [query |-> q, sources |-> <<>>, attempted |-> tries, last |-> l]
  PROVE  Sound(r, held)
<1>1. <<>> \in Seq(Public) /\ Len(<<>>) = 0 /\ IsInjective(<<>>)
  BY DEF IsInjective
<1>2. r \in ServiceStates /\ r.query = q /\ r.sources = <<>> /\ r.last = l
  BY <1>1 DEF ServiceStates
<1> QED
  BY <1>1, <1>2 DEF Sound

LEMMA ClearedSound ==
  ASSUME NEW held
  PROVE  /\ Sound(Cleared, held) /\ Cleared.query = Nothing /\ Cleared.sources = <<>>
         /\ Cleared.attempted = {} /\ Cleared.last = Nothing /\ Cleared \in ServiceStates
<1>1. {} \in SUBSET (Urls \cup {Nothing})
  OBVIOUS
<1>2. Sound(Cleared, held)
  BY <1>1, AskedSound DEF Cleared, Begun
<1> QED
  BY <1>2 DEF Cleared, Begun, Sound

\* What a redirect leads to depends on the web alone.
LEMMA LandsStay == ASSUME site' = site PROVE \A u : Lands(u)' = Lands(u) /\ Way(u)' = Way(u)
BY DEF Lands, Way

Flags == live \in BOOLEAN /\ followup \in BOOLEAN
Queued == queue \in Seq(Urls) /\ Len(queue) <= 5 /\ tried \in 0..5

\* The answers when nothing is read and nothing is summed up.
LEMMA Settles ==
  ASSUME WebCore, site' = site, finder' \in {"none", "running", "killed"}, look' \in {"idle", "searching"},
         finder' # "none" => look' = "searching", look' = "searching" => ~followup',
         pass' \in 1..2, Flags', about' \in Queries \cup {Nothing},
         Queued', service' \in [1..2 -> ServiceStates],
         Sound(service'[1], site), Sound(service'[2], site),
         \/ service'[1].last # Nothing
         \/ service'[1].sources # <<>>
         \/ (look' = "searching" /\ pass' = 2)
         => service'[1].query = about'
  PROVE  WebCore'
<1>1. \A p \in 1..2 : Sound(service'[p], site) /\ service'[p] \in ServiceStates /\ Len(service'[p].sources) <= 3
  BY DEF Sound
<1>3. WebTypeOK'
  BY <1>1 DEF WebCore, WebTypeOK, Flags, Queued
<1>4. (\A p \in 1..2 : Sound(service[p], site))'
  BY <1>1
<1>5. SecondTryIsNew' /\ BatchInv'
  BY DEF SecondTryIsNew, BatchInv
<1>6. ContextIsCurrent' /\ KeptInv'
  BY DEF ContextIsCurrent, KeptInv
<1> QED
  BY <1>3, <1>4, <1>5, <1>6 DEF WebCore

LEMMA WebStarts == WebInit => WebCore
<1> SUFFICES ASSUME WebInit PROVE WebCore
  OBVIOUS
<1>1. service = <<Cleared, Cleared>> /\ look = "idle" /\ finder = "none" /\ site \in Sites
  BY DEF WebInit, AnswersInit, ReaderInit
<1>2. \A p \in 1..2 : service[p] = Cleared
  BY <1>1
<1>3. \A p \in 1..2 : Sound(service[p], site) /\ service[p] \in ServiceStates /\ Len(service[p].sources) <= 3
  BY <1>2, ClearedSound DEF Sound
<1>4. service \in [1..2 -> ServiceStates]
  BY <1>1, ClearedSound
<1>5. WebTypeOK
  <2>1. queue \in Seq(Urls) /\ Len(queue) <= 5 /\ tried \in 0..5 /\ pass \in 1..2
        /\ about \in Queries \cup {Nothing}
    BY DEF WebInit, AnswersInit
  <2>2. live \in BOOLEAN /\ followup \in BOOLEAN
    BY Zenon DEF WebInit, AnswersInit
  <2> QED
    BY <1>1, <1>3, <1>4, <2>1, <2>2 DEF WebTypeOK
<1>6. SecondTryIsNew /\ BatchInv
  BY <1>1 DEF SecondTryIsNew, BatchInv
<1>7. ContextIsCurrent /\ KeptInv
  BY <1>1, <1>2, ClearedSound DEF ContextIsCurrent, KeptInv
<1> QED
  BY <1>3, <1>5, <1>6, <1>7 DEF WebCore

\* The first service and the candidate, when one of them has changed.
LEMMA OneService ==
  ASSUME WebCore, NEW r \in ServiceStates
  PROVE  /\ service' = [service EXCEPT ![1] = r] =>
              service' \in [1..2 -> ServiceStates] /\ service'[1] = r /\ service'[2] = service[2]
         /\ service' = [service EXCEPT ![2] = r] =>
              service' \in [1..2 -> ServiceStates] /\ service'[2] = r /\ service'[1] = service[1]
         /\ service \in [1..2 -> ServiceStates] /\ Sound(service[1], site) /\ Sound(service[2], site)
<1>1. service \in [1..2 -> ServiceStates] /\ \A q \in 1..2 : Sound(service[q], site)
  BY DEF WebCore, WebTypeOK
<1>2. 1 \in 1..2 /\ 2 \in 1..2 /\ 1 # 2
  OBVIOUS
<1> QED
  BY <1>1, <1>2

LEMMA ClearedCore ==
  ASSUME WebCore, site' = site, service' = [service EXCEPT ![1] = Cleared],
         look' \in {"idle", "searching"}, finder' \in {"none", "running"}, finder' # "none" => look' = "searching",
         pass' = 1 \/ look' = "idle", pass' \in 1..2, look' = "searching" => ~followup',
         Flags', about' \in Queries \cup {Nothing}, UNCHANGED <<queue, tried>>
  PROVE  WebCore'
<1>1. /\ service' \in [1..2 -> ServiceStates] /\ service'[1] = Cleared
      /\ service'[2] = service[2] /\ Sound(service[2], site)
  BY OneService, ClearedSound
<1>2. Sound(service'[1], site) /\ service'[1].last = Nothing /\ service'[1].sources = <<>>
  BY <1>1, ClearedSound
<1>3. Queued'
  BY DEF WebCore, WebTypeOK, Queued
<1>4. ~(\/ service'[1].last # Nothing
        \/ service'[1].sources # <<>>
        \/ (look' = "searching" /\ pass' = 2))
  BY <1>2
<1>5. finder' \in {"none", "running", "killed"}
  OBVIOUS
<1> QED
  BY <1>1, <1>2, <1>3, <1>4, <1>5, Settles

LEMMA AskKeeps == ASSUME WebCore, NEW q \in Queries, Ask(q) PROVE WebCore'
<1>1. finder = "none" /\ look = "idle"
  BY DEF Ask, WebCore, ContextIsCurrent
<1>2. /\ site' = site /\ service' = [service EXCEPT ![1] = Cleared] /\ UNCHANGED <<queue, tried>>
      /\ pass' = 1 /\ followup' = FALSE /\ live' = FALSE /\ about' = q
  BY DEF Ask
<1>3. /\ look' \in {"idle", "searching"} /\ finder' \in {"none", "running"}
      /\ finder' # "none" => look' = "searching"
  BY <1>1 DEF Ask, StartFinder
<1>4. about' \in Queries \cup {Nothing} /\ pass' \in 1..2
  BY <1>2
<1>5. Flags'
  BY <1>2, Zenon DEF Flags
<1> QED
  BY <1>2, <1>3, <1>4, <1>5, ClearedCore

LEMMA ForgetKeeps == ASSUME WebCore, ForgetAnswer PROVE WebCore'
<1>1. finder = "none" /\ look = "idle"
  BY DEF ForgetAnswer, WebCore, ContextIsCurrent
<1>2. pass \in 1..2 /\ followup \in BOOLEAN /\ about \in Queries \cup {Nothing}
  BY DEF WebCore, WebTypeOK
<1>3. Flags'
  BY <1>2, Zenon DEF ForgetAnswer, Forgotten, Flags
<1> QED
  BY <1>1, <1>2, <1>3, ClearedCore DEF ForgetAnswer, Forgotten, web

\* The time passes, and nothing else changes.
LEMMA LiveKeeps ==
  ASSUME WebCore, live' \in BOOLEAN, UNCHANGED <<web, look, pass, service, queue, tried, about, followup>>
  PROVE  WebCore'
<1>1. /\ site' = site /\ reads' = reads /\ finder' = finder /\ look' = look /\ pass' = pass
      /\ service' = service /\ queue' = queue /\ tried' = tried /\ about' = about /\ followup' = followup
  BY DEF web
<1>2. \A u : Lands(u)' = Lands(u) /\ Way(u)' = Way(u)
  BY <1>1, LandsStay
<1>3. WebTypeOK'
  BY <1>1 DEF WebCore, WebTypeOK
<1>4. (\A p \in 1..2 : Sound(service[p], site))'
  BY <1>1 DEF WebCore
<1>5. SecondTryIsNew' /\ ContextIsCurrent'
  BY <1>1 DEF WebCore, SecondTryIsNew, ContextIsCurrent
<1>6. KeptInv'
  BY <1>1, <1>2 DEF WebCore, KeptInv, InRank
<1>7. ASSUME look = "reading" PROVE BatchInv'
  <2>1. PICK from \in 0..(tried - 1) :
          /\ DOMAIN reads = (from + 1)..tried
          /\ Len(service[pass].sources) + (tried - from) <= 3
          /\ InRank(service[pass].sources, from)
          /\ \A i \in DOMAIN reads : Follows(reads[i], queue[i])
    BY <1>7 DEF WebCore, BatchInv
  <2>2. InRank(service[pass].sources, from)'
    BY <1>1, <1>2, <2>1 DEF InRank
  <2>3. \A i \in DOMAIN reads : Follows(reads[i], queue[i])'
    BY <1>1, <1>2, <2>1 DEF Follows
  <2>4. /\ tried <= Len(queue) /\ ~followup /\ service[pass].last = Nothing
    BY <1>7 DEF WebCore, BatchInv
  <2> QED
    BY <1>1, <2>1, <2>2, <2>3, <2>4 DEF BatchInv
<1>8. look # "reading" => BatchInv'
  BY <1>1 DEF BatchInv
<1> QED
  BY <1>3, <1>4, <1>5, <1>6, <1>7, <1>8 DEF WebCore

\* The answers when pages are read or summed up.
LEMMA GoesOn ==
  ASSUME WebCore, site' = site, finder' = "none", look' \in {"reading", "summing"}, pass' \in 1..2,
         Flags', about' \in Queries \cup {Nothing}, Queued',
         service' \in [1..2 -> ServiceStates], Sound(service'[1], site), Sound(service'[2], site),
         service'[1].query = about', SecondTryIsNew', BatchInv',
         look' = "summing" => IF followup' THEN pass' = 1 ELSE InRank(service[pass].sources, Len(queue))'
  PROVE  WebCore'
<1>1. \A p \in 1..2 : Sound(service'[p], site) /\ Len(service'[p].sources) <= 3
  BY DEF Sound
<1>2. WebTypeOK'
  BY <1>1 DEF WebCore, WebTypeOK, Flags, Queued
<1>3. (\A p \in 1..2 : Sound(service[p], site))'
  BY <1>1
<1>4. ContextIsCurrent'
  BY DEF ContextIsCurrent
<1>5. KeptInv'
  BY DEF KeptInv
<1> QED
  BY <1>2, <1>3, <1>4, <1>5 DEF WebCore

LEMMA WebTypes ==
  ASSUME WebCore
  PROVE  /\ pass \in 1..2 /\ about \in Queries \cup {Nothing} /\ queue \in Seq(Urls) /\ tried \in 0..5 /\ Queued
         /\ Flags /\ service \in [1..2 -> ServiceStates] /\ site \in Sites
         /\ Sound(service[1], site) /\ Sound(service[2], site)
         /\ service[1] \in ServiceStates /\ service[2] \in ServiceStates
BY DEF WebCore, WebTypeOK, Flags, Queued

LEMMA CorrectionKeeps == ASSUME WebCore, RequestCorrection PROVE WebCore'
<1> DEFINE l == Bare("correction_requested")
           new == [service[1] EXCEPT !.last = l, !.sources = <<>>]
<1>1. /\ look = "idle" /\ finder = "none" /\ service' = [service EXCEPT ![1] = new]
      /\ UNCHANGED <<web, look, pass, live, queue, tried, about, followup>> /\ service[1].query = about
  <2>1. finder = "none" /\ service[1].query = about /\ look = "idle"
    BY DEF RequestCorrection, WebCore, ContextIsCurrent
  <2>2. service' = [service EXCEPT ![1].last = l, ![1].sources = <<>>]
    BY DEF RequestCorrection
  <2>3. DOMAIN service = 1..2
    BY DEF WebCore, WebTypeOK
  <2>4. service' = [service EXCEPT ![1] = new]
    BY <2>2, <2>3
  <2> QED
    BY <2>1, <2>4 DEF RequestCorrection
<1>2. l \in Told /\ ~Grounded(l)
  BY BareTold DEF Statuses
<1>3. /\ new = [query |-> service[1].query, sources |-> <<>>, attempted |-> service[1].attempted, last |-> l]
      /\ service[1].query \in Queries \cup {Nothing} /\ service[1].attempted \in SUBSET (Urls \cup {Nothing})
  <2> DEFINE first == service[1]
  <2>1. first \in ServiceStates
    BY WebTypes
  <2> HIDE DEF l, first
  <2>2. \A x, s : [first EXCEPT !.last = x, !.sources = s] =
          [query |-> first.query, sources |-> s, attempted |-> first.attempted, last |-> x]
    BY <2>1, ServiceChanged, Zenon
  <2> QED
    BY <2>1, <2>2, ServiceChanged DEF first
<1> HIDE DEF l, new
<1>4. Sound(new, site) /\ new.query = service[1].query
  BY <1>2, <1>3, AskedSound
<1>5. new \in ServiceStates
  BY <1>4 DEF Sound
<1>6. service' \in [1..2 -> ServiceStates] /\ service'[1] = new /\ service'[2] = service[2]
  BY <1>1, <1>5, OneService
<1>7. Flags' /\ Queued'
  BY <1>1, WebTypes DEF Flags, Queued
<1> QED
  BY <1>1, <1>4, <1>6, <1>7, WebTypes, Settles DEF web

LEMMA LookupKeeps ==
  ASSUME WebCore, NEW s \in {"resources_found", "pages_unavailable", "search_failed"}, RememberLookup(s),
         site' = site, finder' = "none", UNCHANGED <<pass, about, followup>>
  PROVE  WebCore'
<1> DEFINE l == Bare(s)
           new == Begun(about, {}, l)
<1>1. service' = [service EXCEPT ![1] = new] /\ look' = "idle" /\ queue' = <<>> /\ tried' = 0 /\ live' = TRUE
  BY DEF RememberLookup, Over
<1>2. l \in Told /\ ~Grounded(l)
  BY BareTold DEF Statuses
<1>3. new = [query |-> about, sources |-> <<>>, attempted |-> {}, last |-> l]
  BY DEF Begun
<1> HIDE DEF l, new
<1>4. Sound(new, site) /\ new.query = about
  BY <1>2, <1>3, AskedSound, WebTypes
<1>5. new \in ServiceStates
  BY <1>4 DEF Sound
<1>6. service' \in [1..2 -> ServiceStates] /\ service'[1] = new /\ service'[2] = service[2]
  BY <1>1, <1>5, OneService
<1>7. Flags'
  BY <1>1, WebTypes, Zenon DEF Flags
<1>8. Queued'
  BY <1>1 DEF Queued
<1> QED
  BY <1>1, <1>4, <1>6, <1>7, <1>8, WebTypes, Settles

\* The candidate is given up: the first answer is as it was.
LEMMA StandsKeeps ==
  ASSUME WebCore, pass = 2, look # "idle", Stands, site' = site, finder' = "none",
         UNCHANGED <<pass, live, about, followup>>
  PROVE  WebCore'
<1>1. service' = [service EXCEPT ![2] = Cleared] /\ look' = "idle" /\ queue' = <<>> /\ tried' = 0
  BY DEF Stands, Over
<1>2. service' \in [1..2 -> ServiceStates] /\ service'[2] = Cleared /\ service'[1] = service[1]
  BY <1>1, OneService, ClearedSound
<1>3. service[1].query = about
  BY DEF WebCore, KeptInv
<1>4. Flags'
  BY WebTypes DEF Flags
<1>5. Sound(service'[1], site) /\ Sound(service'[2], site)
  BY <1>2, ClearedSound, WebTypes
<1>6. Queued'
  BY <1>1 DEF Queued
<1> QED
  BY <1>1, <1>2, <1>3, <1>4, <1>5, <1>6, WebTypes, Settles

LEMMA GivesUpKeeps == ASSUME WebCore, SearchGivesUp PROVE WebCore'
<1>1. site' = site /\ finder' = "none" /\ UNCHANGED <<pass, about, followup>> /\ look = "searching"
  BY DEF SearchGivesUp, FinderAnswers, FinderReaped
<1>2. CASE pass = 1
  BY <1>1, <1>2, LookupKeeps DEF SearchGivesUp
<1>3. CASE pass # 1
  BY <1>1, <1>3, StandsKeeps, WebTypes DEF SearchGivesUp
<1> QED
  BY <1>2, <1>3

LEMMA TimesOutKeeps == ASSUME WebCore, SearchTimesOut PROVE WebCore'
<1>1. /\ site' = site /\ look' = "searching" /\ look = "searching" /\ finder' = "killed"
      /\ UNCHANGED <<pass, service, live, queue, tried, about, followup>>
  BY DEF SearchTimesOut, KillFinder, answers
<1>2. /\ ~followup'
      /\ service[1].last # Nothing => service[1].query = about
      /\ service[1].sources # <<>> \/ (look = "searching" /\ pass = 2) => service[1].query = about
  BY <1>1 DEF WebCore, KeptInv, ContextIsCurrent
<1>3. Flags' /\ Queued'
  BY <1>1, WebTypes DEF Flags, Queued
<1> QED
  BY <1>1, <1>2, <1>3, WebTypes, Settles

LEMMA RepairKeeps == ASSUME WebCore, RepairTimesOut PROVE WebCore'
<1>1. /\ pass = 2 /\ look # "idle" /\ Stands /\ site' = site /\ UNCHANGED <<pass, live, about, followup>>
      /\ finder' = finder /\ finder = "none"
  BY DEF RepairTimesOut, WebCore, ContextIsCurrent
<1> QED
  BY <1>1, StandsKeeps

LEMMA FollowUpKeeps == ASSUME WebCore, NEW q \in Queries, FollowUp(q) PROVE WebCore'
<1>1. /\ look = "idle" /\ finder = "none" /\ finder' = "none" /\ site' = site
      /\ pass' = 1 /\ followup' = TRUE /\ UNCHANGED <<queue, tried>>
  BY DEF FollowUp, web, WebCore, ContextIsCurrent
<1>2. CASE service[1].sources = <<>> \/ ~live
  <2>1. service' = [service EXCEPT ![1] = Cleared] /\ look' = "idle" /\ live' = FALSE /\ about' = about
    BY <1>1, <1>2 DEF FollowUp, Forgotten
  <2>2. Flags'
    BY <1>1, <2>1, Zenon DEF Flags
  <2>3. pass' \in 1..2 /\ about' \in Queries \cup {Nothing}
    BY <1>1, <2>1, WebTypes
  <2> QED
    BY <1>1, <2>1, <2>2, <2>3, ClearedCore
<1>3. CASE ~(service[1].sources = <<>> \/ ~live)
  <2>1. look' \in {"idle", "summing"} /\ UNCHANGED <<service, live, about>>
    BY <1>3 DEF FollowUp
  <2>2. Flags'
    BY <1>1, <2>1, WebTypes, Zenon DEF Flags
  <2>6. Queued'
    BY <1>1, WebTypes DEF Queued
  <2>3. service[1].query = about
    BY <1>3 DEF WebCore, KeptInv
  <2>4. CASE look' = "idle"
    BY <1>1, <2>1, <2>2, <2>3, <2>4, <2>6, WebTypes, Settles
  <2>5. CASE look' = "summing"
    <3>1. SecondTryIsNew' /\ BatchInv'
      BY <1>1, <2>5 DEF SecondTryIsNew, BatchInv
    <3>2. pass' \in 1..2 /\ pass' = 1 /\ followup'
      BY <1>1
    <3> QED
      BY <1>1, <2>1, <2>2, <2>3, <2>5, <2>6, <3>1, <3>2, WebTypes, GoesOn
  <2> QED
    BY <2>1, <2>4, <2>5
<1> QED
  BY <1>2, <1>3

\* The places of a search, one after the other.
LEMMA Ordered ==
  ASSUME NEW places \in SUBSET (1..5)
  PROVE  /\ Cardinality(places) \in 0..5 /\ (places # {} => Cardinality(places) # 0)
         /\ \E o \in [1..Cardinality(places) -> places] : \A i, j \in DOMAIN o : i < j => o[i] < o[j]
<1> DEFINE Order(s) == \E o \in [1..Cardinality(s) -> s] : \A i, j \in DOMAIN o : i < j => o[i] < o[j]
           All(n) == \A s \in SUBSET (1..5) : Cardinality(s) = n => Order(s)
<1>1. \A s \in SUBSET (1..5) : /\ IsFiniteSet(s) /\ Cardinality(s) \in Nat /\ Cardinality(s) <= 5
                               /\ (Cardinality(s) = 0 => s = {})
  <2> DEFINE five == 1..5
  <2>1. IsFiniteSet(five) /\ Cardinality(five) = 5
    <3>1. \A k, l \in Int : IsFiniteSet(k..l) /\ Cardinality(k..l) = IF k > l THEN 0 ELSE l - k + 1
      BY FS_Interval
    <3>2. 1 \in Int /\ 5 \in Int /\ ~(1 > 5) /\ 5 - 1 + 1 = 5
      OBVIOUS
    <3>3. IsFiniteSet(1..5) /\ Cardinality(1..5) = IF 1 > 5 THEN 0 ELSE 5 - 1 + 1
      BY <3>1, <3>2, Zenon
    <3> QED
      BY <3>2, <3>3, Zenon
  <2> HIDE DEF five
  <2>2. ASSUME NEW s \in SUBSET five
        PROVE  /\ IsFiniteSet(s) /\ Cardinality(s) \in Nat /\ Cardinality(s) <= 5
               /\ (Cardinality(s) = 0 => s = {})
    <3>1. IsFiniteSet(s) /\ Cardinality(s) <= 5
      BY <2>1, FS_Subset
    <3> QED
      BY <3>1, FS_CardinalityType, FS_EmptySet
  <2> QED
    BY <2>2 DEF five
<1>2. All(0)
  <2> SUFFICES ASSUME NEW s \in SUBSET (1..5), Cardinality(s) = 0 PROVE Order(s)
    OBVIOUS
  <2>1. s = {} /\ 1..0 = {}
    BY <1>1
  <2> DEFINE o == [i \in 1..0 |-> i]
  <2>2. o \in [1..0 -> s] /\ DOMAIN o = {}
    BY <2>1
  <2> QED
    BY <2>2
<1>3. ASSUME NEW s \in SUBSET (1..5), s # {} PROVE \E m \in s : \A k \in s : k <= m
  <2>1. CASE 5 \in s
    BY <2>1
  <2>2. CASE 5 \notin s /\ 4 \in s
    BY <2>2
  <2>3. CASE 5 \notin s /\ 4 \notin s /\ 3 \in s
    BY <2>3
  <2>4. CASE 5 \notin s /\ 4 \notin s /\ 3 \notin s /\ 2 \in s
    BY <2>4
  <2>5. CASE 5 \notin s /\ 4 \notin s /\ 3 \notin s /\ 2 \notin s
    <3>1. \A k \in s : k = 1
      BY <2>5
    <3>2. PICK k \in s : TRUE
      BY <1>3
    <3> QED
      BY <3>1, <3>2
  <2> QED
    BY <2>1, <2>2, <2>3, <2>4, <2>5
<1>4. ASSUME NEW n \in Nat, All(n) PROVE All(n + 1)
  <2> SUFFICES ASSUME NEW s \in SUBSET (1..5), Cardinality(s) = n + 1 PROVE Order(s)
    OBVIOUS
  <2>1. s # {}
    BY FS_EmptySet
  <2>2. PICK m \in s : \A k \in s : k <= m
    BY <1>3, <2>1
  <2>3. Cardinality(s \ {m}) = n /\ s \ {m} \in SUBSET (1..5)
    BY <1>1, FS_RemoveElement
  <2>4. PICK o \in [1..n -> s \ {m}] : \A i, j \in DOMAIN o : i < j => o[i] < o[j]
    BY <1>4, <2>3
  <2> DEFINE more == [i \in 1..(n + 1) |-> IF i <= n THEN o[i] ELSE m]
  <2>5. more \in [1..(n + 1) -> s]
    BY <2>4
  <2>6. \A i, j \in 1..(n + 1) : i < j => more[i] < more[j]
    <3> SUFFICES ASSUME NEW i \in 1..(n + 1), NEW j \in 1..(n + 1), i < j PROVE more[i] < more[j]
      OBVIOUS
    <3>1. i \in 1..n /\ more[i] = o[i]
      OBVIOUS
    <3>2. CASE j \in 1..n
      BY <2>4, <3>1, <3>2
    <3>3. CASE j \notin 1..n
      <4>1. more[j] = m
        BY <3>3
      <4>2. o[i] \in s /\ o[i] # m
        BY <2>4, <3>1
      <4>3. \A k \in s : k \in Nat
        OBVIOUS
      <4>4. o[i] \in Nat /\ m \in Nat /\ o[i] <= m
        BY <2>2, <4>2, <4>3
      <4> HIDE DEF more
      <4> QED
        BY <3>1, <4>1, <4>2, <4>4
    <3> QED
      BY <3>2, <3>3
  <2> HIDE DEF more
  <2>7. DOMAIN more = 1..(n + 1)
    BY <2>5
  <2> QED
    BY <2>5, <2>6, <2>7
<1> HIDE DEF Order, All
<1>5. All(1) /\ All(2) /\ All(3) /\ All(4) /\ All(5)
  BY <1>2, <1>4
<1>6. Order(places)
  BY <1>1, <1>2, <1>5 DEF All
<1>7. /\ Cardinality(places) \in Nat /\ Cardinality(places) <= 5
      /\ (places # {} => Cardinality(places) # 0)
  BY <1>1, Zenon
<1>8. Cardinality(places) \in 0..5
  BY <1>7
<1> QED
  BY <1>6, <1>7, <1>8, Zenon DEF Order

LEMMA InOrderKeeps ==
  ASSUME NEW rows \in Seq(Urls), Len(rows) <= 5, NEW places \in SUBSET DOMAIN rows, places # {}
  PROVE  InOrder(rows, places) \in Seq(Urls) /\ Len(InOrder(rows, places)) \in 1..5
<1> DEFINE count == Cardinality(places)
           order == CHOOSE o \in [1..count -> places] : \A i, j \in DOMAIN o : i < j => o[i] < o[j]
           found == [i \in 1..count |-> rows[order[i]]]
<1>1. places \in SUBSET (1..5)
  OBVIOUS
<1>2. count \in 1..5 /\ order \in [1..count -> places]
  BY <1>1, Ordered
<1> HIDE DEF count, order
<1>3. found \in [1..count -> Urls] /\ found \in Seq(Urls) /\ Len(found) = count
  BY <1>2
<1> QED
  BY <1>2, <1>3 DEF InOrder, order, count

LEMMA PageFollows ==
  ASSUME NEW url \in Urls PROVE Follows(Page(url), url) /\ Follows(Skipped, url)
<1>1. Nothing \notin Urls /\ "failed" \notin Urls
  BY ReaderAssumption
<1>2. Cardinality({}) = 0 /\ IsFiniteSet({})
  BY FS_EmptySet
<1>3. Way(url)[1] = Canon[url]
  BY WayGoesOn
<1>4. /\ Page(url) \in Pages /\ Page(url).at = url /\ Page(url).visited = {} /\ Page(url).end = Nothing
      /\ Skipped \in Pages /\ Skipped.end = "failed"
  BY DEF Page, Skipped, Pages
<1>5. Follows(Page(url), url)
  <2>1. Cardinality(Page(url).visited) = 0 /\ IsFiniteSet(Page(url).visited) /\ 0 <= Hops /\ 0 + 1 = 1
    BY <1>2, <1>4 DEF Hops
  <2> QED
    BY <1>1, <1>3, <1>4, <2>1 DEF Follows
<1>6. Follows(Skipped, url)
  <2>1. "failed" # Nothing
    BY ReaderAssumption
  <2> QED
    BY <1>1, <1>4, <2>1 DEF Follows
<1> QED
  BY <1>5, <1>6

\* A batch is of the rows that follow, and is begun at the start of each.
LEMMA BatchStarts ==
  ASSUME NEW rows \in Seq(Urls), NEW from \in Nat, NEW have \in 0..3, NEW b, b = Batch(rows, from, have),
         b # {}, StartBatch(rows, b)
  PROVE  /\ look' = "reading" /\ tried' \in Nat /\ from < tried' /\ tried' <= Len(rows)
         /\ have + (tried' - from) <= 3 /\ DOMAIN reads' = (from + 1)..tried'
         /\ \A i \in DOMAIN reads' : Follows(reads'[i], rows[i])
<1> DEFINE top == IF Len(rows) <= from + 3 - have THEN Len(rows) ELSE from + 3 - have
<1>1. top \in Int /\ b = (from + 1)..top
  BY DEF Batch
<1>2. from < top
  BY <1>1
<1>3. top \in b /\ \A j \in b : j <= top
  BY <1>1, <1>2
<1>4. \A i \in b : (\A j \in b : j <= i) => i = top
  BY <1>1, <1>3
<1>5. tried' = top /\ look' = "reading"
      /\ reads' = [i \in b |-> IF Canon[rows[i]] \in Excluded THEN Skipped ELSE Page(rows[i])]
  <2>1. (CHOOSE i \in b : \A j \in b : j <= i) = top
    BY <1>3, <1>4
  <2> QED
    BY <2>1 DEF StartBatch
<1>6. top <= Len(rows) /\ have + (top - from) <= 3 /\ top \in Nat
  BY <1>2
<1>7. \A i \in b : i \in DOMAIN rows /\ rows[i] \in Urls
  BY DEF Batch
<1> HIDE DEF top
<1>8. DOMAIN reads' = b
  BY <1>5
<1>9. ASSUME NEW i \in b PROVE Follows(reads'[i], rows[i])
  <2>1. reads'[i] = Skipped \/ reads'[i] = Page(rows[i])
    BY <1>5
  <2> QED
    BY <1>7, <2>1, PageFollows
<1> QED
  BY <1>1, <1>2, <1>5, <1>6, <1>8, <1>9

LEMMA BatchHolds ==
  ASSUME site' = site, look' = "reading", ~followup', service'[pass'].last = Nothing,
         NEW from \in Nat, tried' \in Nat, from < tried', tried' <= Len(queue'),
         DOMAIN reads' = (from + 1)..tried', Len(service'[pass'].sources) + (tried' - from) <= 3,
         InRank(service[pass].sources, from)', \A i \in DOMAIN reads' : Follows(reads'[i], queue'[i])
  PROVE  BatchInv'
<1>1. \A u : Lands(u)' = Lands(u) /\ Way(u)' = Way(u)
  BY LandsStay
<1>2. \A i \in DOMAIN reads' : Follows(reads[i], queue[i])'
  BY <1>1 DEF Follows
<1>3. from \in 0..(tried' - 1)
  <2>1. \A k, n \in Nat : k < n => k \in 0..(n - 1)
    OBVIOUS
  <2> QED
    BY <2>1, Zenon
<1> QED
  BY <1>2, <1>3 DEF BatchInv

LEMMA InRankOfNone == ASSUME NEW n, service'[pass'].sources = <<>> PROVE InRank(service[pass].sources, n)'
<1> DEFINE at == [k \in 1..0 |-> k]
<1>1. at \in [1..0 -> 1..n] /\ DOMAIN at = {} /\ Len(<<>>) = 0
  OBVIOUS
<1> QED
  BY <1>1 DEF InRank

LEMMA AnswerBegins ==
  ASSUME WebCore, look = "searching", site' = site, finder' = "none", UNCHANGED <<pass, about, followup>>,
         NEW rows \in Seq(Urls), Len(rows) \in 1..5, BeginAnswer(rows)
  PROVE  WebCore'
<1> DEFINE b == Batch(rows, 0, 0)
           new == Begun(about, Attempts(rows, b), Nothing)
<1>1. /\ queue' = rows /\ StartBatch(rows, b) /\ service' = [service EXCEPT ![pass] = new]
      /\ live' = (pass = 1 \/ live)
  BY DEF BeginAnswer
<1>2. 1 \in b
  BY DEF Batch
<1>3. /\ look' = "reading" /\ tried' \in Nat /\ 0 < tried' /\ tried' <= Len(rows) /\ tried' <= 3
      /\ DOMAIN reads' = (0 + 1)..tried' /\ \A i \in DOMAIN reads' : Follows(reads'[i], rows[i])
  <2>1. 0 \in Nat /\ 0 \in 0..3 /\ b # {}
    BY <1>2
  <2> HIDE DEF b
  <2>2. /\ look' = "reading" /\ tried' \in Nat /\ 0 < tried' /\ tried' <= Len(rows)
        /\ 0 + (tried' - 0) <= 3 /\ DOMAIN reads' = (0 + 1)..tried'
        /\ \A i \in DOMAIN reads' : Follows(reads'[i], rows[i])
    BY <1>1, <2>1, BatchStarts DEF b
  <2>3. \A n \in Nat : 0 + (n - 0) <= 3 => n <= 3
    OBVIOUS
  <2> QED
    BY <2>2, <2>3, Zenon
<1>4. /\ new = [query |-> about, sources |-> <<>>, attempted |-> Attempts(rows, b), last |-> Nothing]
      /\ new.query = about /\ new.sources = <<>> /\ new.last = Nothing
      /\ Attempts(rows, b) \in SUBSET (Urls \cup {Nothing})
  <2>1. \A i \in b : Canon[rows[i]] \in Urls \cup {Nothing}
    BY ReaderAssumption DEF Batch
  <2> QED
    BY <2>1 DEF Begun, Attempts
<1> HIDE DEF b, new
<1>5. Sound(new, site) /\ new \in ServiceStates
  <2>1. Sound(new, site)
    BY <1>4, AskedSound, WebTypes
  <2> QED
    BY <2>1 DEF Sound
<1>6. /\ service' \in [1..2 -> ServiceStates] /\ service'[pass] = new
      /\ \A p \in 1..2 : p # pass => service'[p] = service[p]
  BY <1>1, <1>5, WebTypes
<1>7. Sound(service'[1], site) /\ Sound(service'[2], site)
  BY <1>5, <1>6, WebTypes
<1>8. service'[1].query = about'
  <2>1. pass = 2 => service[1].query = about
    BY DEF WebCore, KeptInv
  <2> QED
    BY <1>4, <1>6, <2>1, WebTypes
<1>9. Flags'
  <2>1. followup \in BOOLEAN /\ live \in BOOLEAN
    BY WebTypes DEF Flags
  <2> QED
    BY <1>1, <2>1, Zenon DEF Flags
<1>10. SecondTryIsNew'
  <2>1. pass' = 2 => service'[2].sources = <<>>
    BY <1>4, <1>6
  <2>2. ToSet(<<>>) = {}
    BY DEF ToSet
  <2> QED
    BY <2>1, <2>2, Zenon DEF SecondTryIsNew
<1>11. service'[pass'].sources = <<>> /\ InRank(service[pass].sources, 0)'
  <2>1. service'[pass'].sources = <<>>
    BY <1>4, <1>6
  <2> QED
    BY <2>1, InRankOfNone
<1>12. BatchInv'
  <2>1. ~followup' /\ service'[pass'].last = Nothing
    BY <1>4, <1>6 DEF WebCore, KeptInv
  <2>2. /\ 0 \in Nat /\ Len(service'[pass'].sources) + (tried' - 0) <= 3 /\ tried' <= Len(queue')
        /\ \A i \in DOMAIN reads' : Follows(reads'[i], queue'[i])
    BY <1>1, <1>3, <1>11
  <2> QED
    BY <1>3, <1>11, <2>1, <2>2, BatchHolds
<1>13. pass' \in 1..2 /\ about' \in Queries \cup {Nothing} /\ Queued'
  <2>1. \A k \in Nat : k <= 3 => k \in 0..5
    OBVIOUS
  <2>2. tried' \in 0..5
    BY <1>3, <2>1, Zenon
  <2>3. \A k \in 1..5 : k <= 5
    OBVIOUS
  <2>4. queue' \in Seq(Urls) /\ Len(queue') <= 5
    BY <1>1, <2>3, Zenon
  <2> QED
    BY <2>2, <2>4, WebTypes DEF Queued
<1> QED
  BY <1>3, <1>6, <1>7, <1>8, <1>9, <1>10, <1>12, <1>13, GoesOn

LEMMA SearchFindsKeeps == ASSUME WebCore, NEW rows \in Results, SearchFinds(rows) PROVE WebCore'
<1>1. /\ site' = site /\ finder' = "none" /\ UNCHANGED <<pass, about, followup>> /\ look = "searching"
  BY DEF SearchFinds, FinderAnswers
<1>2. rows \in Seq(Urls) /\ Len(rows) <= 5
  BY AnswersAssumption
<1>3. CASE pass = 1
  <2>1. CASE rows = <<>> \/ about \in Lookups
    <3> DEFINE told == IF about \in Lookups THEN "resources_found" ELSE "pages_unavailable"
    <3>1. RememberLookup(told)
      BY <1>3, <2>1 DEF SearchFinds
    <3>2. told \in {"resources_found", "pages_unavailable", "search_failed"}
      OBVIOUS
    <3> HIDE DEF told
    <3> QED
      <4>1. \A x \in {"resources_found", "pages_unavailable", "search_failed"} :
              RememberLookup(x) => WebCore'
        BY <1>1, LookupKeeps
      <4> QED
        BY <3>1, <3>2, <4>1, Zenon
  <2>2. CASE ~(rows = <<>> \/ about \in Lookups)
    <3>1. BeginAnswer(rows)
      BY <1>3, <2>2 DEF SearchFinds
    <3>2. Len(rows) \in 1..5
      <4>1. Len(rows) \in Nat /\ Len(rows) # 0
        BY <1>2, <2>2, EmptySeq, LenProperties
      <4>2. \A k \in Nat : k # 0 /\ k <= 5 => k \in 1..5
        OBVIOUS
      <4> QED
        BY <1>2, <4>1, <4>2, Zenon
    <3> QED
      BY <1>1, <1>2, <3>1, <3>2, AnswerBegins
  <2> QED
    BY <2>1, <2>2
<1>4. CASE pass # 1
  <2> DEFINE fits == {i \in DOMAIN rows : Canon[rows[i]] \notin Old}
  <2>1. pass = 2
    BY <1>4, WebTypes
  <2>2. CASE fits = {}
    <3>1. Stands /\ UNCHANGED live
      BY <1>4, <2>2 DEF SearchFinds
    <3> QED
      BY <1>1, <2>1, <3>1, StandsKeeps
  <2>3. CASE fits # {}
    <3>1. BeginAnswer(InOrder(rows, fits))
      BY <1>4, <2>3 DEF SearchFinds
    <3>2. InOrder(rows, fits) \in Seq(Urls) /\ Len(InOrder(rows, fits)) \in 1..5
      BY <1>2, <2>3, InOrderKeeps
    <3> QED
      BY <1>1, <3>1, <3>2, AnswerBegins
  <2> QED
    BY <2>2, <2>3
<1> QED
  BY <1>3, <1>4

LEMMA ReadOnKeeps == ASSUME WebCore, ReadOn PROVE WebCore'
<1>1. /\ look = "reading" /\ site' = site /\ finder' = finder
      /\ UNCHANGED <<look, pass, service, live, queue, tried, about, followup>>
  BY DEF ReadOn, answers
<1>2. PICK i \in Pending : \/ reads' = [reads EXCEPT ![i] = Fetched(@)]
                           \/ reads' = [reads EXCEPT ![i] = Failed(@)]
  BY DEF ReadOn, Exchange, PageTimesOut
<1>3. i \in DOMAIN reads /\ reads[i].end = Nothing
  BY DEF Pending, Done
<1>4. PICK from \in 0..(tried - 1) :
        /\ DOMAIN reads = (from + 1)..tried
        /\ Len(service[pass].sources) + (tried - from) <= 3
        /\ InRank(service[pass].sources, from)
        /\ \A k \in DOMAIN reads : Follows(reads[k], queue[k])
  BY <1>1 DEF WebCore, BatchInv
<1>5. tried <= Len(queue) /\ ~followup /\ service[pass].last = Nothing
  BY <1>1 DEF WebCore, BatchInv
<1>6. Follows(Fetched(reads[i]), queue[i]) /\ Follows(Failed(reads[i]), queue[i])
  BY <1>3, <1>4, WebTypes, FetchedFollows
<1>7. DOMAIN reads' = DOMAIN reads /\ \A k \in DOMAIN reads' : Follows(reads'[k], queue[k])
  <2>1. DOMAIN reads' = DOMAIN reads
    BY <1>2
  <2>2. reads'[i] \in {Fetched(reads[i]), Failed(reads[i])} /\ \A k \in DOMAIN reads : k # i => reads'[k] = reads[k]
    BY <1>2, <1>3
  <2> QED
    BY <1>4, <1>6, <2>1, <2>2
<1>8. InRank(service[pass].sources, from)'
  <2>1. \A u : Lands(u)' = Lands(u)
    BY <1>1, LandsStay
  <2> QED
    BY <1>1, <1>4, <2>1 DEF InRank
<1>9. from \in Nat /\ from < tried /\ tried \in Nat
  BY WebTypes
<1>10. BatchInv'
  BY <1>1, <1>4, <1>5, <1>7, <1>8, <1>9, BatchHolds
<1>11. SecondTryIsNew' /\ Flags' /\ Queued' /\ service[1].query = about /\ finder = "none"
  BY <1>1, WebTypes DEF WebCore, SecondTryIsNew, KeptInv, Flags, Queued, ContextIsCurrent
<1> QED
  BY <1>1, <1>10, <1>11, WebTypes, GoesOn

\* The pages that have been read so far, as a batch finds them.
LEMMA SourcesFine == ASSUME WebCore, look \in {"reading", "summing"} PROVE Fine(service[pass].sources)
<1>1. Sound(service[pass], site)
  BY WebTypes
<1>2. service[pass].sources \in Seq(Public)
  BY <1>1 DEF Sound, ServiceStates
<1>3. pass = 2 => ToSet(service[pass].sources) \cap Earlier = {}
  BY DEF WebCore, SecondTryIsNew, Earlier
<1> QED
  BY <1>1, <1>2, <1>3 DEF Sound, Fine

\* A service gets sources that are fine, while it has no answer yet.
LEMMA SourcesChanged ==
  ASSUME NEW old \in ServiceStates, NEW s \in Seq(Public)
  PROVE  /\ [old EXCEPT !.sources = s] \in ServiceStates
         /\ [old EXCEPT !.sources = s].sources = s /\ [old EXCEPT !.sources = s].query = old.query
         /\ [old EXCEPT !.sources = s].last = old.last
<1> DEFINE new == [old EXCEPT !.sources = s]
<1>1. /\ new = [query |-> old.query, sources |-> s, attempted |-> old.attempted, last |-> old.last]
      /\ old.query \in Queries \cup {Nothing} /\ old.attempted \in SUBSET (Urls \cup {Nothing})
      /\ old.last \in Told \cup {Nothing}
  BY ServiceChanged, Zenon
<1> HIDE DEF new
<1>2. new \in ServiceStates /\ new.sources = s /\ new.query = old.query /\ new.last = old.last
  BY <1>1 DEF ServiceStates
<1> QED
  BY <1>2 DEF new

LEMMA SourcesSound ==
  ASSUME WebCore, NEW new \in ServiceStates, Fine(new.sources), Len(new.sources) \in 0..3,
         new.last = Nothing, service' = [service EXCEPT ![pass] = new], UNCHANGED pass, site' = site
  PROVE  /\ service' \in [1..2 -> ServiceStates] /\ service'[pass] = new
         /\ \A p \in 1..2 : p # pass => service'[p] = service[p]
         /\ Sound(service'[1], site) /\ Sound(service'[2], site) /\ SecondTryIsNew'
<1>1. Sound(new, site)
  BY DEF Sound, Fine
<1>2. /\ service' \in [1..2 -> ServiceStates] /\ service'[pass] = new
      /\ \A p \in 1..2 : p # pass => service'[p] = service[p]
  BY WebTypes
<1>3. Sound(service'[1], site) /\ Sound(service'[2], site)
  BY <1>1, <1>2, WebTypes
<1>4. SecondTryIsNew'
  <2>1. pass' = 2 => service'[2] = new /\ service'[1] = service[1] /\ ToSet(new.sources) \cap Earlier = {}
    BY <1>2, WebTypes DEF Fine
  <2> QED
    BY <2>1 DEF SecondTryIsNew, Earlier
<1> QED
  BY <1>2, <1>3, <1>4

LEMMA BatchEndsKeeps == ASSUME WebCore, NEW late \in BOOLEAN, BatchEnds(late) PROVE WebCore'
<1> DEFINE s == WithPages(service[pass].sources)
           b == Batch(queue, tried, Len(s))
<1>1. /\ look = "reading" /\ site' = site /\ UNCHANGED <<live, about, followup>> /\ finder = "none"
  BY DEF BatchEnds, WebCore, ContextIsCurrent
<1>2. /\ service[pass].last = Nothing /\ ~followup /\ service[1].query = about /\ BatchInv
  BY <1>1 DEF WebCore, BatchInv, KeptInv
<1>3. Fine(s) /\ InRank(s, tried) /\ Len(s) \in 0..3 /\ tried \in 1..Len(queue)
  <2>1. Fine(service[pass].sources) /\ tried \in Nat
    BY <1>1, SourcesFine, WebTypes
  <2> QED
    BY <1>1, <1>2, <2>1, WebTypes, BatchTaken
<1>4. \/ /\ b # {} /\ StartBatch(queue, b)
         /\ service' = [service EXCEPT ![pass].sources = s,
                                       ![pass].attempted = @ \cup Attempts(queue, b)]
         /\ UNCHANGED <<finder, pass, queue>>
      \/ /\ look' = "summing" /\ service' = [service EXCEPT ![pass].sources = s]
         /\ reads' = <<>> /\ UNCHANGED <<finder, pass, queue, tried>>
      \/ pass = 1 /\ Remember(1, Bare("pages_unavailable")) /\ TryAgain
      \/ pass # 1 /\ Stands /\ UNCHANGED <<finder, pass>>
  BY Zenon DEF BatchEnds
<1> HIDE DEF s, b
<1>5. Flags' /\ about' \in Queries \cup {Nothing} /\ pass \in 1..2 /\ DOMAIN service = 1..2
  BY <1>1, WebTypes DEF Flags
<1>6. ASSUME b # {}, StartBatch(queue, b), UNCHANGED <<finder, pass, queue>>,
             service' = [service EXCEPT ![pass].sources = s,
                                        ![pass].attempted = @ \cup Attempts(queue, b)]
      PROVE  WebCore'
  <2> DEFINE tries == service[pass].attempted \cup Attempts(queue, b)
             new == [service[pass] EXCEPT !.sources = s, !.attempted = tries]
  <2>1. service' = [service EXCEPT ![pass] = new]
    BY <1>5, <1>6
  <2>2. tries \in SUBSET (Urls \cup {Nothing})
    <3>1. \A i \in b : Canon[queue[i]] \in Urls \cup {Nothing}
      BY WebTypes, ReaderAssumption DEF b, Batch
    <3>2. service[pass].attempted \in SUBSET (Urls \cup {Nothing})
      BY WebTypes DEF ServiceStates
    <3> QED
      BY <3>1, <3>2 DEF Attempts
  <2> HIDE DEF tries
  <2>3. new \in ServiceStates /\ new.sources = s /\ new.query = service[pass].query /\ new.last = Nothing
    <3> DEFINE old == service[pass]
    <3>1. old \in ServiceStates /\ s \in Seq(Public) /\ old.last = Nothing
      BY <1>2, <1>3, WebTypes DEF Fine
    <3>2. new = [old EXCEPT !.sources = s, !.attempted = tries]
      OBVIOUS
    <3> HIDE DEF old, new
    <3>3. /\ new = [query |-> old.query, sources |-> s, attempted |-> tries, last |-> old.last]
          /\ old.query \in Queries \cup {Nothing} /\ old.last \in Told \cup {Nothing}
      BY <3>1, <3>2, ServiceChanged, Zenon
    <3>4. new \in ServiceStates /\ new.sources = s /\ new.query = old.query /\ new.last = Nothing
      BY <2>2, <3>1, <3>3 DEF ServiceStates
    <3> QED
      BY <3>4 DEF old
  <2> HIDE DEF new
  <2>4. /\ service' \in [1..2 -> ServiceStates] /\ service'[pass] = new
        /\ \A p \in 1..2 : p # pass => service'[p] = service[p]
        /\ Sound(service'[1], site) /\ Sound(service'[2], site) /\ SecondTryIsNew'
    BY <1>1, <1>3, <1>6, <2>1, <2>3, SourcesSound
  <2>5. /\ look' = "reading" /\ tried' \in Nat /\ tried < tried' /\ tried' <= Len(queue)
        /\ Len(s) + (tried' - tried) <= 3 /\ DOMAIN reads' = (tried + 1)..tried'
        /\ \A i \in DOMAIN reads' : Follows(reads'[i], queue[i])
    <3>1. queue \in Seq(Urls) /\ tried \in Nat /\ b = Batch(queue, tried, Len(s))
      BY WebTypes DEF b
    <3> QED
      BY <1>3, <1>6, <3>1, BatchStarts
  <2>6. PICK m \in Nat : m = tried
    BY WebTypes
  <2>7. Queued'
    BY <1>6, <2>5, WebTypes DEF Queued
  <2>8. BatchInv'
    <3>1. ~followup' /\ service'[pass'].last = Nothing /\ service'[pass'].sources = s
      BY <1>1, <1>2, <1>6, <2>3, <2>4
    <3>2. InRank(service[pass].sources, m)'
      <4>1. \A u : Lands(u)' = Lands(u)
        BY <1>1, LandsStay
      <4> QED
        BY <1>3, <1>6, <2>6, <3>1, <4>1 DEF InRank
    <3>3. tried' <= Len(queue') /\ Len(service'[pass'].sources) + (tried' - m) <= 3
          /\ m < tried' /\ DOMAIN reads' = (m + 1)..tried'
          /\ \A i \in DOMAIN reads' : Follows(reads'[i], queue'[i])
      BY <1>6, <2>5, <2>6, <3>1
    <3> QED
      BY <1>1, <2>5, <3>1, <3>2, <3>3, BatchHolds
  <2>9. service'[1].query = about'
    BY <1>1, <1>2, <1>6, <2>3, <2>4, WebTypes
  <2> QED
    BY <1>1, <1>5, <1>6, <2>4, <2>5, <2>7, <2>8, <2>9, WebTypes, GoesOn
<1>7. ASSUME look' = "summing", service' = [service EXCEPT ![pass].sources = s],
             UNCHANGED <<finder, pass, queue, tried>>
      PROVE  WebCore'
  <2> DEFINE old == service[pass]
             new == [old EXCEPT !.sources = s]
  <2>1. service' = [service EXCEPT ![pass] = new]
    BY <1>7
  <2>2. old \in ServiceStates /\ s \in Seq(Public) /\ old.last = Nothing /\ {} \in SUBSET (Urls \cup {Nothing})
    BY <1>2, <1>3, WebTypes DEF Fine
  <2> HIDE DEF old
  <2>3. new \in ServiceStates /\ new.sources = s /\ new.query = old.query /\ new.last = Nothing
    BY <2>2, SourcesChanged
  <2> HIDE DEF new
  <2>4. /\ service' \in [1..2 -> ServiceStates] /\ service'[pass] = new
        /\ \A p \in 1..2 : p # pass => service'[p] = service[p]
        /\ Sound(service'[1], site) /\ Sound(service'[2], site) /\ SecondTryIsNew'
    BY <1>1, <1>3, <1>7, <2>1, <2>3, SourcesSound
  <2>5. service'[1].query = about'
    BY <1>1, <1>2, <1>7, <2>3, <2>4, WebTypes DEF old
  <2>6. PICK m \in Nat : m = Len(queue) /\ InRank(s, m)
    <3>1. Len(queue) \in Nat /\ tried \in Nat /\ tried <= Len(queue)
      BY <1>3, WebTypes
    <3> QED
      BY <1>3, <3>1, RankGrows
  <2>7. InRank(service[pass].sources, Len(queue))'
    <3>1. \A u : Lands(u)' = Lands(u)
      BY <1>1, LandsStay
    <3>2. service'[pass'].sources = s /\ queue' = queue
      BY <1>7, <2>3, <2>4
    <3> QED
      BY <2>6, <3>1, <3>2 DEF InRank
  <2>8. BatchInv' /\ Queued' /\ ~followup' /\ finder' = "none"
    BY <1>1, <1>2, <1>7, WebTypes DEF BatchInv, Queued
  <2> QED
    BY <1>1, <1>5, <1>7, <2>4, <2>5, <2>7, <2>8, WebTypes, GoesOn
<1>8. ASSUME pass = 1, Remember(1, Bare("pages_unavailable")), TryAgain PROVE WebCore'
  <2> DEFINE l == Bare("pages_unavailable")
             new == [service[1] EXCEPT !.last = l]
  <2>1. service' = [service EXCEPT ![1] = new]
    BY <1>5, <1>8 DEF Remember
  <2>2. l \in Told /\ ~Grounded(l)
    BY BareTold DEF Statuses
  <2> HIDE DEF l
  <2>3. Sound(new, site) /\ new.query = service[1].query
    BY <2>2, WebTypes, BareSound
  <2>4. new \in ServiceStates
    BY <2>3 DEF Sound
  <2> HIDE DEF new
  <2>5. service' \in [1..2 -> ServiceStates] /\ service'[1] = new /\ service'[2] = service[2]
    BY <2>1, <2>4, OneService
  <2>6. look' = "searching" /\ pass' = 2 /\ finder' = "running" /\ ~followup' /\ Queued'
    BY <1>1, <1>2, <1>8 DEF TryAgain, StartFinder, Queued
  <2>7. pass' \in 1..2 /\ finder' \in {"none", "running", "killed"} /\ service'[1].query = about'
    BY <1>1, <1>2, <2>3, <2>5, <2>6
  <2> QED
    BY <1>1, <1>5, <2>3, <2>5, <2>6, <2>7, WebTypes, Settles
<1>9. ASSUME pass # 1, Stands, UNCHANGED <<finder, pass>> PROVE WebCore'
  <2>1. pass = 2 /\ finder' = "none"
    BY <1>1, <1>5, <1>9
  <2> QED
    BY <1>1, <1>9, <2>1, StandsKeeps
<1> QED
  BY <1>4, <1>6, <1>7, <1>8, <1>9

\* An answer that rests on its sources.
Rests(l, s) ==
  /\ l \in Told /\ l.links = s
  /\ Grounded(l) => l.cited # {} /\ l.cited \subseteq DOMAIN s

\* Whatever the model says, the answer cites pages that were read, or is none.
LEMMA SummaryRests ==
  ASSUME NEW s \in Seq(Public), Len(s) <= 3,
         NEW l \in {NoSummary(s)} \cup {Summarized(x, s) : x \in Summaries}
  PROVE  Rests(l, s)
<1>1. \A c \in Coverages, cited \in SUBSET (1..3), t \in Statuses :
        Answer(t, c, s, cited) \in Told /\ Answer(t, c, s, cited).links = s
        /\ Answer(t, c, s, cited).cited = cited /\ Answer(t, c, s, cited).status = t
  BY DEF Answer, Told
<1>2. Rests(NoSummary(s), s)
  <2>1. "unassessed" \in Coverages /\ {} \in SUBSET (1..3) /\ "insufficient_answer" \in Statuses
    BY DEF Coverages, Statuses
  <2>2. /\ NoSummary(s) \in Told /\ NoSummary(s).links = s /\ NoSummary(s).status = "insufficient_answer"
    BY <1>1, <2>1 DEF NoSummary
  <2> QED
    BY <2>2 DEF Rests, Grounded
<1>3. ASSUME NEW x \in Summaries PROVE Rests(Summarized(x, s), s)
  <2>1. CASE ~Valid(x, s)
    BY <1>2, <2>1 DEF Summarized
  <2>2. CASE Valid(x, s)
    <3> DEFINE t == IF x.cited = {} THEN "insufficient_answer"
                    ELSE IF x.coverage = "partial" THEN "partial_answer" ELSE "answered"
    <3>1. Summarized(x, s) = Answer(t, x.coverage, s, x.cited)
      BY <2>2 DEF Summarized
    <3>2. x.cited \subseteq DOMAIN s /\ x.coverage \in Coverages /\ DOMAIN s \subseteq 1..3
      BY <2>2 DEF Valid, Summaries, Coverages
    <3>3. t \in Statuses /\ (t # "insufficient_answer" => x.cited # {})
      BY DEF Statuses
    <3>4. x.cited \in SUBSET (1..3) /\ (t \in {"answered", "partial_answer"} => x.cited # {})
      BY <3>2
    <3> HIDE DEF t
    <3>5. /\ Answer(t, x.coverage, s, x.cited) \in Told /\ Answer(t, x.coverage, s, x.cited).links = s
          /\ Answer(t, x.coverage, s, x.cited).cited = x.cited
          /\ Answer(t, x.coverage, s, x.cited).status = t
      BY <1>1, <3>2, <3>3, <3>4
    <3>6. Rests(Answer(t, x.coverage, s, x.cited), s)
      BY <3>2, <3>4, <3>5 DEF Rests, Grounded
    <3> QED
      BY <3>1, <3>6
  <2> QED
    BY <2>1, <2>2
<1> QED
  BY <1>2, <1>3

\* The answer is remembered with the sources it rests on.
LEMMA AnswerSound ==
  ASSUME NEW r \in ServiceStates, NEW s \in Seq(Public), NEW held, Len(s) <= 3, IsInjective(s),
         \A k \in 1..Len(s) : held[s[k]] = "text", NEW l, Rests(l, s),
         NEW new, new = [query |-> r.query, sources |-> s, attempted |-> r.attempted, last |-> l]
  PROVE  Sound(new, held) /\ new \in ServiceStates /\ new.query = r.query
<1>1. r.query \in Queries \cup {Nothing} /\ r.attempted \in SUBSET (Urls \cup {Nothing}) /\ l \in Told
  BY DEF ServiceStates, Rests
<1>2. new \in ServiceStates /\ new.query = r.query /\ new.sources = s /\ new.last = l
  BY <1>1 DEF ServiceStates
<1> QED
  BY <1>2 DEF Sound, Rests

LEMMA SummaryKeeps == ASSUME WebCore, Summary PROVE WebCore'
<1> DEFINE s == service[pass].sources
<1>1. /\ look = "summing" /\ site' = site /\ UNCHANGED <<live, about, followup>> /\ finder = "none"
      /\ service[1].query = about /\ (followup => pass = 1)
  BY DEF Summary, WebCore, ContextIsCurrent, KeptInv
<1>2. /\ s \in Seq(Public) /\ Len(s) <= 3 /\ IsInjective(s)
      /\ \A k \in 1..Len(s) : site[s[k]] = "text"
  <2>1. Sound(service[pass], site)
    BY WebTypes
  <2> QED
    BY <2>1 DEF Sound, ServiceStates
<1>3. PICK l \in {NoSummary(s)} \cup {Summarized(x, s) : x \in Summaries} :
        IF pass = 2 THEN Adopt(l) /\ UNCHANGED <<finder, pass>>
        ELSE /\ Remember(1, l)
             /\ \/ ~followup /\ l.coverage \in {"partial", "insufficient"} /\ TryAgain
                \/ Over /\ UNCHANGED <<finder, pass>>
  BY DEF Summary
<1>4. Rests(l, s)
  BY <1>2, SummaryRests
<1>5. /\ Flags' /\ about' \in Queries \cup {Nothing} /\ pass \in 1..2 /\ service[1] \in ServiceStates
      /\ service \in [1..2 -> ServiceStates] /\ Sound(service[1], site) /\ Sound(service[2], site)
  BY <1>1, WebTypes DEF Flags
<1> DEFINE new == [query |-> service[1].query, sources |-> s, attempted |-> service[1].attempted, last |-> l]
<1>6. Sound(new, site) /\ new \in ServiceStates /\ new.query = service[1].query
  <2> HIDE DEF s
  <2> QED
    BY <1>2, <1>4, <1>5, AnswerSound
<1>7. CASE pass = 2
  <2>1. Adopt(l) /\ UNCHANGED <<finder, pass>>
    BY <1>3, <1>7
  <2>2. CASE Stands
    BY <1>1, <1>7, <2>1, <2>2, StandsKeeps
  <2>3. CASE ~Stands
    <3>1. service' = <<[service[1] EXCEPT !.sources = s, !.last = l], Cleared>> /\ Over
      BY <1>7, <2>1, <2>3, Zenon DEF Adopt
    <3>2. [service[1] EXCEPT !.sources = s, !.last = l] = new
      <4> DEFINE first == service[1]
      <4> HIDE DEF first, s
      <4>1. first \in ServiceStates
        BY <1>5 DEF first
      <4>2. \A x, y : [first EXCEPT !.sources = x, !.last = y] =
              [query |-> first.query, sources |-> x, attempted |-> first.attempted, last |-> y]
        BY <4>1, ServiceChanged, Zenon
      <4> QED
        BY <4>2 DEF first
    <3> HIDE DEF new
    <3>3. service' = <<new, Cleared>>
      BY <3>1, <3>2, Zenon
    <3>4. service'[1] = new /\ service'[2] = Cleared /\ service' \in [1..2 -> ServiceStates]
      BY <1>6, <3>3, ClearedSound
    <3>5. look' = "idle" /\ Queued' /\ finder' = "none" /\ pass' = 2
      BY <1>1, <1>7, <2>1, <3>1 DEF Over, Queued
    <3>6. Sound(service'[1], site) /\ Sound(service'[2], site) /\ service'[1].query = about'
      BY <1>1, <1>6, <3>4, ClearedSound
    <3>7. pass' \in 1..2 /\ finder' \in {"none", "running", "killed"}
      BY <3>5
    <3> QED
      BY <1>1, <1>5, <3>4, <3>5, <3>6, <3>7, Settles
  <2> QED
    BY <2>2, <2>3
<1>8. CASE pass # 2
  <2>1. pass = 1 /\ s = service[1].sources
    BY <1>5, <1>8
  <2>2. service' = [service EXCEPT ![1] = new]
    <3> DEFINE first == service[1]
    <3>1. service' = [service EXCEPT ![1] = [first EXCEPT !.last = l]]
      BY <1>3, <1>8 DEF Remember
    <3>2. first \in ServiceStates
      BY <1>5
    <3>3. new = [query |-> first.query, sources |-> first.sources, attempted |-> first.attempted, last |-> l]
      BY <2>1
    <3> HIDE DEF first, new
    <3>4. [first EXCEPT !.last = l] = new
      BY <3>2, <3>3, ServiceChanged, Zenon
    <3> QED
      BY <3>1, <3>4
  <2> HIDE DEF new
  <2>3. service' \in [1..2 -> ServiceStates] /\ service'[1] = new /\ service'[2] = service[2]
    BY <1>6, <2>2, OneService
  <2>4. Sound(service'[1], site) /\ Sound(service'[2], site) /\ service'[1].query = about'
    BY <1>1, <1>5, <1>6, <2>3
  <2>5. \/ look' = "searching" /\ finder' = "running" /\ pass' = 2 /\ ~followup'
        \/ look' = "idle" /\ finder' = "none" /\ pass' = 1
    BY <1>1, <1>3, <1>8, <2>1 DEF TryAgain, StartFinder, Over
  <2>6. Queued'
    <3>1. queue' = <<>> /\ tried' = 0
      BY <1>3, <1>8 DEF TryAgain, Over
    <3> QED
      BY <3>1 DEF Queued
  <2>7. pass' \in 1..2 /\ finder' \in {"none", "running", "killed"} /\ look' \in {"idle", "searching"}
    BY <2>5
  <2> QED
    BY <1>1, <1>5, <2>3, <2>4, <2>5, <2>6, <2>7, Settles
<1> QED
  BY <1>7, <1>8

LEMMA WebGoesOnSound == WebCore /\ [WebNext]_<<web, answers>> => WebCore'
<1> SUFFICES ASSUME WebCore, [WebNext]_<<web, answers>> PROVE WebCore'
  OBVIOUS
<1>1. CASE WebTurn
  <2>1. CASE RequestCorrection
    BY <2>1, CorrectionKeeps
  <2>2. CASE ForgetAnswer
    BY <2>2, ForgetKeeps
  <2>3. CASE \E q \in Queries : Ask(q) \/ FollowUp(q)
    BY <2>3, AskKeeps, FollowUpKeeps
  <2> QED
    BY <1>1, <2>1, <2>2, <2>3 DEF WebTurn
<1>2. CASE \E rows \in Results : SearchFinds(rows)
  BY <1>2, SearchFindsKeeps
<1>3. CASE SearchGivesUp \/ SearchTimesOut
  BY <1>3, GivesUpKeeps, TimesOutKeeps
<1>4. CASE ReadOn
  BY <1>4, ReadOnKeeps
<1>5. CASE \E late \in BOOLEAN : BatchEnds(late)
  BY <1>5, BatchEndsKeeps
<1>6. CASE Summary \/ RepairTimesOut
  BY <1>6, SummaryKeeps, RepairKeeps
<1>7. CASE AnswerAges
  <2>1. live' \in BOOLEAN
    BY <1>7, Zenon DEF AnswerAges
  <2> QED
    BY <1>7, <2>1, LiveKeeps DEF AnswerAges
<1>8. CASE UNCHANGED <<web, answers>>
  <2>1. live' \in BOOLEAN
    BY <1>8, WebTypes, Zenon DEF Flags, answers
  <2> QED
    BY <1>8, <2>1, LiveKeeps DEF answers
<1> QED
  BY <1>1, <1>2, <1>3, <1>4, <1>5, <1>6, <1>7, <1>8 DEF WebNext, WebStep

LEMMA CoreIsSound == WebCore => WebInv
<1> SUFFICES ASSUME WebCore PROVE WebInv
  OBVIOUS
<1>1. \A p \in 1..2 : Sound(service[p], site)
  BY WebTypes
<1>2. look \in {"reading", "summing"} /\ ~followup => InRank(service[pass].sources, Len(queue))
  <2>1. CASE look = "summing"
    BY <2>1 DEF WebCore, KeptInv
  <2>2. CASE look = "reading"
    <3>1. PICK from \in 0..(tried - 1) : InRank(service[pass].sources, from)
      BY <2>2 DEF WebCore, BatchInv
    <3>2. from \in Nat /\ Len(queue) \in Nat /\ from <= Len(queue)
      BY <2>2, WebTypes DEF WebCore, BatchInv
    <3> QED
      BY <3>1, <3>2, RankGrows
  <2> QED
    BY <2>1, <2>2
<1>3. SourcesStandBehindAnswers
  <2>1. /\ \A p \in 1..2 : IsInjective(service[p].sources)
        /\ \A p \in 1..2 : \A k \in 1..Len(service[p].sources) : site[service[p].sources[k]] = "text"
    BY <1>1 DEF Sound
  <2>2. service[1].last # Nothing /\ Grounded(service[1].last) =>
          /\ service[1].last.links = service[1].sources
          /\ service[1].last.cited # {} /\ service[1].last.cited \subseteq DOMAIN service[1].sources
    BY <1>1 DEF Sound
  <2> QED
    BY <1>2, <2>1, <2>2, Zenon DEF SourcesStandBehindAnswers, InRank
<1> QED
  BY <1>3 DEF WebCore, WebInv, AnswersAreSound

LEMMA WebByItself == [Next]_vars => [WebNext]_<<web, answers>>
BY DEF Next, WorkplaceTurn, WorkplaceStep, Cut, SearchTurn, SearchStep, WebTask, WebGoesOn, PentestTask,
       PentestGoesOn, StoresTask, StoresGoOn, TimerFires, UserActs, Close, CloseScan, Show, Press,
       TypeCancel, Local, vars, asking, WebNext

\* The two tries of a web answer are told apart by their numbers.
LEMMA PassesDiffer == 2 # 1
OBVIOUS

\* A second try touches its own service, except to put a better answer in the place of the
\* first.
LEMMA FirstStays ==
  ASSUME WebCore, [WebNext]_<<web, answers>>, pass = 2, look # "idle", service'[1] # service[1]
  PROVE  /\ Grounded(service'[1].last) /\ service'[1].query = service[1].query
         /\ service'[1].last.coverage = "complete" \/ ~Grounded(service[1].last)
<1>1. \A r : service' = [service EXCEPT ![2] = r] => service'[1] = service[1]
  BY WebTypes
<1>2. ~Stands
  BY <1>1 DEF Stands
<1>3. CASE WebTurn
  BY <1>3 DEF WebTurn, Ask, FollowUp, RequestCorrection, ForgetAnswer
<1>4. CASE \E rows \in Results : SearchFinds(rows)
  <2>1. PICK rows \in Results : SearchFinds(rows)
    BY <1>4
  <2>2. \A q : ~BeginAnswer(q)
    BY <1>1 DEF BeginAnswer
  <2>3. FALSE
    BY <1>2, <2>1, <2>2 DEF SearchFinds
  <2> QED
    BY <2>3
<1>5. CASE SearchGivesUp \/ SearchTimesOut \/ ReadOn \/ RepairTimesOut \/ AnswerAges \/ UNCHANGED <<web, answers>>
  BY <1>2, <1>5 DEF SearchGivesUp, SearchTimesOut, ReadOn, RepairTimesOut, AnswerAges, answers
<1>6. CASE \E late \in BOOLEAN : BatchEnds(late)
  <2>1. PICK late \in BOOLEAN : BatchEnds(late)
    BY <1>6
  <2>2. \A s : service' # [service EXCEPT ![pass].sources = s]
    BY <1>1
  <2>3. \A s, more : service' # [service EXCEPT ![pass].sources = s, ![pass].attempted = @ \cup more]
    <3> SUFFICES ASSUME NEW s, NEW more,
                        service' = [service EXCEPT ![pass].sources = s, ![pass].attempted = @ \cup more]
                 PROVE  FALSE
      OBVIOUS
    <3> DEFINE half == [service EXCEPT ![pass].sources = s]
    <3>1. DOMAIN half = 1..2 /\ half[1] = service[1]
      BY WebTypes
    <3>2. service' = [half EXCEPT ![pass].attempted = service[pass].attempted \cup more]
      OBVIOUS
    <3> HIDE DEF half
    <3>3. service'[1] = half[1]
      BY <3>1, <3>2
    <3> QED
      BY <3>1, <3>3
  <2>4. pass # 1
    <3>1. pass = 2
      BY Zenon
    <3> QED
      BY <3>1, PassesDiffer, Zenon
  <2>5. FALSE
    BY <1>2, <2>1, <2>2, <2>3, <2>4, ZenonT(60) DEF BatchEnds
  <2> QED
    BY <2>5
<1>7. CASE Summary
  <2>1. PICK l : Adopt(l)
    BY <1>7 DEF Summary
  <2>2. /\ Better(l, service[1].last)
        /\ service' = <<[service[1] EXCEPT !.sources = service[2].sources, !.last = l], Cleared>>
    BY <1>2, <2>1, Zenon DEF Adopt
  <2>3. service'[1].query = service[1].query /\ service'[1].last = l
    <3> DEFINE first == service[1]
    <3> HIDE DEF first
    <3>1. first \in ServiceStates
      BY WebTypes DEF first
    <3>2. \A x, y : [first EXCEPT !.sources = x, !.last = y] =
            [query |-> first.query, sources |-> x, attempted |-> first.attempted, last |-> y]
      BY <3>1, ServiceChanged, Zenon
    <3>3. service'[1] = [first EXCEPT !.sources = service[2].sources, !.last = l]
      BY <2>2 DEF first
    <3>4. service'[1].query = first.query /\ service'[1].last = l
      BY <3>2, <3>3
    <3> QED
      BY <3>4 DEF first
  <2> QED
    BY <2>2, <2>3 DEF Better
<1> QED
  BY <1>3, <1>4, <1>5, <1>6, <1>7 DEF WebNext, WebStep

-----------------------------------------------------------------------------
(***************************************************************************)
(* What is remembered.  Without and Import go through a sequence entry by  *)
(* entry; induction over the naturals comes from the finite sets, whose    *)
(* inclusion is well founded.                                              *)
(***************************************************************************)
LEMMA LeastOf ==
  ASSUME NEW T \in SUBSET Nat, T # {}
  PROVE  \E m \in T : \A k \in T : m <= k
<1>1. PICK top \in T : TRUE
  OBVIOUS
<1> DEFINE Below(k) == 1..k
           some == {k \in T : k <= top}
           family == {Below(k) : k \in some}
<1>2. IsWellFoundedOn(StrictSubsetOrdering(1..top), SUBSET (1..top))
  <2>1. ASSUME NEW S, IsFiniteSet(S) PROVE IsWellFoundedOn(StrictSubsetOrdering(S), SUBSET S)
    BY <2>1, FS_StrictSubsetOrderingWellFounded, FS_FiniteSubsetsOfFinite
  <2>2. top \in Int /\ 1 \in Int
    BY <1>1
  <2>3. IsFiniteSet(1..top)
    BY <2>2, FS_Interval
  <2> QED
    BY <2>1, <2>3
<1>3. family \subseteq SUBSET (1..top) /\ family # {}
  BY <1>1
<1>4. PICK x \in family : \A y \in family : <<y, x>> \notin StrictSubsetOrdering(1..top)
  <2> HIDE DEF family
  <2> QED
    BY <1>2, <1>3, WFMin
<1>5. PICK m \in some : x = Below(m)
  BY <1>4
<1>6. ASSUME NEW k \in T, k < m PROVE FALSE
  <2>1. k \in some /\ k \in Nat /\ m \in Nat
    BY <1>1, <1>6
  <2>2. Below(k) \in family /\ Below(k) \subseteq Below(m) /\ m \in Below(m) /\ m \notin Below(k)
    BY <1>6, <2>1
  <2>3. <<Below(k), x>> \in StrictSubsetOrdering(1..top)
    BY <1>3, <1>4, <1>5, <2>2 DEF StrictSubsetOrdering
  <2> QED
    BY <1>4, <2>2, <2>3
<1> QED
  BY <1>5, <1>6

\* A set that has 0 and with each number the next, up to n, has them all.
LEMMA SetInduction ==
  ASSUME NEW n \in Nat, NEW P, 0 \in P, \A k \in 1..n : k - 1 \in P => k \in P
  PROVE  \A k \in 0..n : k \in P
<1> DEFINE out == (0..n) \ P
<1> SUFFICES ASSUME out # {} PROVE FALSE
  OBVIOUS
<1>1. out \in SUBSET Nat
  OBVIOUS
<1>2. PICK m \in out : \A k \in out : m <= k
  <2> HIDE DEF out
  <2> QED
    BY <1>1, LeastOf
<1>3. m \in 1..n /\ m \notin P
  BY <1>2
<1>4. m - 1 \in P
  <2>1. m - 1 \in 0..n /\ ~ (m <= m - 1)
    BY <1>3
  <2> QED
    BY <1>2, <2>1
<1> QED
  BY <1>3, <1>4

\* A function defined by steps from the one before it.
StepsOn(next, n, S) == next \in [1..n -> [S -> S]]
IsRecursion(g, n, S, first, next) ==
  g \in [0..n -> S] /\ g[0] = first /\ \A k \in 1..n : g[k] = next[k][g[k - 1]]

LEMMA Recursion ==
  ASSUME NEW S, NEW n \in Nat, NEW first \in S, NEW next, StepsOn(next, n, S)
  PROVE  \E g : IsRecursion(g, n, S, first, next)
<1> USE DEF StepsOn
<1> DEFINE Upto(m, g) == g[0] = first /\ \A k \in 1..m : g[k] = next[k][g[k - 1]]
           Can(m) == \E g \in [0..m -> S] : Upto(m, g)
           P == {m \in 0..n : Can(m)}
<1>1. 0 \in P
  <2> DEFINE g == [k \in 0..0 |-> first]
  <2>1. g \in [0..0 -> S] /\ Upto(0, g)
    OBVIOUS
  <2>2. Can(0)
    <3> HIDE DEF Upto
    <3> QED
      BY <2>1
  <2> HIDE DEF Can
  <2> QED
    BY <2>2
<1>2. ASSUME NEW m \in 1..n, m - 1 \in P PROVE m \in P
  <2>1. PICK g \in [0..(m - 1) -> S] : Upto(m - 1, g)
    BY <1>2
  <2> DEFINE h == [k \in 0..m |-> IF k = m THEN next[m][g[m - 1]] ELSE g[k]]
  <2>2. h \in [0..m -> S]
    OBVIOUS
  <2>3. \A k \in 1..m : h[k] = next[k][h[k - 1]]
    <3> SUFFICES ASSUME NEW k \in 1..m PROVE h[k] = next[k][h[k - 1]]
      OBVIOUS
    <3>1. k - 1 \in 0..m /\ k - 1 # m /\ k \in 0..m
      OBVIOUS
    <3>2. h[k - 1] = g[k - 1]
      BY <3>1
    <3>3. CASE k = m
      BY <3>1, <3>2, <3>3
    <3>4. CASE k # m
      <4>1. k \in 1..(m - 1) /\ h[k] = g[k]
        BY <3>1, <3>4
      <4> QED
        BY <2>1, <3>2, <4>1
    <3> QED
      BY <3>3, <3>4
  <2>4. h[0] = first
    BY <2>1
  <2> HIDE DEF h
  <2>5. Upto(m, h)
    BY <2>3, <2>4
  <2> QED
    <3>1. Can(m)
      BY <2>2, <2>5
    <3> HIDE DEF Can
    <3> QED
      BY <3>1
<1> HIDE DEF P
<1>3. \A m \in 1..n : m - 1 \in P => m \in P
  BY <1>2
<1>4. n \in P
  <2>1. \A m \in 0..n : m \in P
    BY <1>1, <1>3, SetInduction
  <2> QED
    BY <2>1
<1> QED
  BY <1>4 DEF P, IsRecursion

\* s is what o picks from the entries, in their order, and nothing that is to be out.
Picks(o, s, entries, out) ==
  /\ o \in [1..Len(s) -> DOMAIN entries]
  /\ \A i, j \in 1..Len(s) : i < j => o[i] < o[j]
  /\ \A i \in 1..Len(s) : s[i] = entries[o[i]] /\ s[i] \notin out

LEMMA WithoutIsPart ==
  ASSUME NEW S, NEW entries \in Seq(S), NEW out
  PROVE  /\ Without(entries, out) \in Seq(S) /\ Len(Without(entries, out)) <= Len(entries)
         /\ \E o : Picks(o, Without(entries, out), entries, out)
<1> DEFINE n == Len(entries)
           seqs == Seq(S)
           More(s, k) == IF entries[k] \in out THEN s ELSE Append(s, entries[k])
           Rest(f) == [k \in 0..n |-> IF k = 0 THEN <<>> ELSE More(f[k - 1], k)]
           rest == CHOOSE f : f = Rest(f)
           next == [k \in 1..n |-> [s \in seqs |-> More(s, k)]]
<1>1. n \in Nat /\ DOMAIN entries = 1..n /\ \A k \in 1..n : entries[k] \in S
  OBVIOUS
<1>2. \E f : f = Rest(f)
  <2>1. next \in [1..n -> [seqs -> seqs]]
    BY <1>1
  <2> DEFINE first == <<>>
  <2>2. first \in seqs /\ n \in Nat
    BY <1>1
  <2> HIDE DEF n, next, seqs, More, first
  <2>3. PICK g \in [0..n -> seqs] : g[0] = first /\ \A k \in 1..n : g[k] = next[k][g[k - 1]]
    <3>1. StepsOn(next, n, seqs)
      BY <2>1 DEF StepsOn
    <3>2. \E g : IsRecursion(g, n, seqs, first, next)
      BY <2>2, <3>1, Recursion
    <3> QED
      BY <3>2 DEF IsRecursion
  <2>4. ASSUME NEW k \in 1..n PROVE g[k] = More(g[k - 1], k)
    <3>1. g[k - 1] \in seqs
      BY <1>1
    <3> QED
      BY <2>3, <3>1 DEF next
  <2>5. g = Rest(g)
    <3>1. \A k \in 0..n : g[k] = IF k = 0 THEN <<>> ELSE More(g[k - 1], k)
      BY <1>1, <2>3, <2>4 DEF first
    <3> QED
      BY <2>3, <3>1, Zenon
  <2> QED
    BY <2>5
<1>3. rest = Rest(rest)
  BY <1>2
<1>4. Without(entries, out) = rest[n]
  BY DEF Without
<1> DEFINE Part(k, s) == s \in Seq(S) /\ Len(s) <= k
                         /\ \E o : Picks(o, s, entries, out) /\ \A i \in 1..Len(s) : o[i] <= k
           P == {k \in 0..n : Part(k, rest[k])}
<1> HIDE DEF n, rest
<1>5. rest[0] = <<>> /\ \A k \in 1..n : rest[k] = More(rest[k - 1], k)
  <2> HIDE DEF More
  <2> QED
    BY <1>1, <1>3
<1>6. 0 \in P
  <2> DEFINE o == [i \in 1..0 |-> 1]
  <2>1. o \in [1..0 -> DOMAIN entries]
    OBVIOUS
  <2>2. <<>> \in Seq(S) /\ Len(<<>>) = 0
    OBVIOUS
  <2>3. Picks(o, <<>>, entries, out) /\ \A i \in 1..Len(<<>>) : o[i] <= 0
    BY <2>1, <2>2 DEF Picks
  <2>4. Part(0, <<>>)
    <3> HIDE DEF o
    <3> QED
      BY <2>2, <2>3
  <2> HIDE DEF Part
  <2> QED
    BY <1>1, <1>5, <2>4
<1>7. ASSUME NEW k \in 1..n, k - 1 \in P PROVE k \in P
  <2> DEFINE s == rest[k - 1]
  <2> HIDE DEF s
  <2>1. s \in Seq(S) /\ Len(s) <= k - 1 /\ Len(s) \in Nat
    BY <1>7 DEF s
  <2>2. PICK o : Picks(o, s, entries, out) /\ \A i \in 1..Len(s) : o[i] <= k - 1
    BY <1>7 DEF s
  <2>0. k \in 0..n /\ k \in Int /\ n \in Int
    BY <1>1
  <2>3. CASE entries[k] \in out
    <3>1. rest[k] = s
      BY <1>5, <2>3 DEF s
    <3>2. \A i \in 1..Len(s) : o[i] \in Int
      BY <1>1, <2>2 DEF Picks
    <3>3. \A i \in 1..Len(s) : o[i] <= k
      BY <2>0, <2>2, <3>2
    <3>4. Part(k, s)
      BY <2>0, <2>1, <2>2, <3>3
    <3> HIDE DEF Part
    <3> QED
      BY <2>0, <3>1, <3>4
  <2>4. CASE entries[k] \notin out
    <3> DEFINE t == Append(s, entries[k])
               m == Len(s) + 1
               q == [i \in 1..m |-> IF i = m THEN k ELSE o[i]]
    <3>1. rest[k] = t
      BY <1>5, <2>4 DEF s
    <3>2. t \in Seq(S) /\ Len(t) = m /\ \A i \in 1..m : t[i] = IF i = m THEN entries[k] ELSE s[i]
      BY <1>1, <2>1
    <3>3. o \in [1..Len(s) -> 1..n] /\ \A i \in 1..Len(s) : o[i] <= k - 1
      BY <1>1, <2>2 DEF Picks
    <3>4. m \in Nat /\ \A i \in 1..m : i # m => i \in 1..Len(s)
      BY <2>1
    <3>5. \A i \in 1..m : q[i] \in 1..n /\ q[i] <= k
      BY <2>0, <3>3, <3>4
    <3>6. q \in [1..m -> DOMAIN entries]
      BY <1>1, <3>5
    <3>7. ASSUME NEW i \in 1..m, NEW j \in 1..m, i < j PROVE q[i] < q[j]
      <4>1. i # m /\ i \in 1..Len(s)
        BY <3>4, <3>7
      <4>2. CASE j = m
        BY <2>0, <3>3, <4>1, <4>2
      <4>3. CASE j # m
        <5>1. j \in 1..Len(s)
          BY <3>4, <4>3
        <5> QED
          BY <2>2, <3>7, <4>1, <4>3, <5>1 DEF Picks
      <4> QED
        BY <4>2, <4>3
    <3>8. ASSUME NEW i \in 1..m PROVE t[i] = entries[q[i]] /\ t[i] \notin out
      BY <2>2, <2>4, <3>2, <3>4 DEF Picks
    <3> HIDE DEF q, t
    <3>9. Picks(q, t, entries, out)
      BY <3>2, <3>6, <3>7, <3>8 DEF Picks
    <3>10. Part(k, t)
      BY <2>1, <3>2, <3>5, <3>9
    <3> HIDE DEF Part
    <3> QED
      BY <2>0, <3>1, <3>10
  <2> QED
    BY <2>3, <2>4
<1> HIDE DEF P
<1>8. n \in P
  <2>1. \A k \in 1..n : k - 1 \in P => k \in P
    BY <1>7
  <2>2. \A k \in 0..n : k \in P
    BY <1>1, <1>6, <2>1, SetInduction
  <2> QED
    BY <1>1, <2>2
<1> QED
  BY <1>4, <1>8 DEF P, n


\* ImportsAreOfOneVersion, of a base that is not yet saved.
Whole(s) ==
  /\ Len(s) <= MaxEntries
  /\ \A i, j \in DOMAIN s :
       s[i].from = s[j].from /\ s[i].from # 0 /\ i # j =>
         s[i].version = s[j].version /\ s[i].part # s[j].part

LEMMA WithoutIsWhole ==
  ASSUME NEW S, NEW entries \in Seq(S), NEW out, Whole(entries)
  PROVE  /\ Without(entries, out) \in Seq(S) /\ Whole(Without(entries, out))
         /\ ToSet(Without(entries, out)) \subseteq ToSet(entries) \ out
<1> DEFINE rest == Without(entries, out)
<1>1. rest \in Seq(S) /\ Len(rest) <= Len(entries)
  BY WithoutIsPart
<1>2. PICK o : Picks(o, rest, entries, out)
  BY WithoutIsPart
<1> HIDE DEF rest
<1>3. /\ DOMAIN rest = 1..Len(rest) /\ Len(rest) \in Nat
      /\ DOMAIN entries = 1..Len(entries) /\ Len(entries) \in Nat
  BY <1>1
<1>4. Len(rest) <= MaxEntries
  BY <1>1, <1>3, StoresAssumption DEF Whole
<1>5. ASSUME NEW i \in DOMAIN rest, NEW j \in DOMAIN rest, i # j PROVE o[i] # o[j]
  <2>1. i \in 1..Len(rest) /\ j \in 1..Len(rest) /\ (i < j \/ j < i)
    BY <1>3, <1>5
  <2>2. o[i] \in Nat /\ o[j] \in Nat /\ (o[i] < o[j] \/ o[j] < o[i])
    BY <1>2, <1>3, <2>1 DEF Picks
  <2> QED
    BY <2>2
<1>6. \A i \in DOMAIN rest : o[i] \in DOMAIN entries /\ rest[i] = entries[o[i]] /\ rest[i] \notin out
  BY <1>2, <1>3 DEF Picks
<1>7. Whole(rest)
  BY <1>4, <1>5, <1>6 DEF Whole
<1>8. ToSet(rest) \subseteq ToSet(entries) \ out
  BY <1>6 DEF ToSet
<1> QED
  BY <1>1, <1>7, <1>8 DEF rest

LEMMA EntriesOf ==
  /\ \A t \in Topics : Phrase(t) \in Entries /\ Phrase(t).from = 0
  /\ \A n \in FileNames : \A v \in Versions[n] :
       /\ Chunks(n, v) \in Seq(Entries) /\ Len(Chunks(n, v)) = PartsOf(v) /\ PartsOf(v) \in Nat
       /\ \A k \in 1..PartsOf(v) : Chunks(n, v)[k] = Entry(n, v, k)
<1>1. ASSUME NEW t \in Topics PROVE Phrase(t) \in Entries /\ Phrase(t).from = 0
  BY DEF Entries, Phrase, Entry
<1>2. ASSUME NEW n \in FileNames, NEW v \in Versions[n]
      PROVE  /\ Chunks(n, v) \in Seq(Entries) /\ Len(Chunks(n, v)) = PartsOf(v) /\ PartsOf(v) \in Nat
             /\ \A k \in 1..PartsOf(v) : Chunks(n, v)[k] = Entry(n, v, k)
  <2>1. PartsOf(v) \in Nat
    BY StoresAssumption
  <2>2. ToSet(Chunks(n, v)) \subseteq Entries
    BY DEF Entries
  <2>3. DOMAIN Chunks(n, v) = 1..PartsOf(v) /\ \A k \in 1..PartsOf(v) : Chunks(n, v)[k] = Entry(n, v, k)
    BY DEF Chunks
  <2>4. \A k \in 1..PartsOf(v) : Chunks(n, v)[k] \in Entries
    BY <2>2, <2>3 DEF ToSet
  <2>5. Chunks(n, v) \in [1..PartsOf(v) -> Entries]
    BY <2>4 DEF Chunks
  <2> HIDE DEF Chunks
  <2> QED
    BY <2>1, <2>3, <2>5
<1> QED
  BY <1>1, <1>2

\* A file is added, as it was seen, after what the base had of it is out.
Before(s, kept, seen, n) ==
  \A i \in DOMAIN s :
    s[i].from # 0 =>
      s[i] \in ToSet(kept) \/ (s[i].from \in 1..n /\ s[i].version = seen[s[i].from])

LEMMA ChunksFit ==
  ASSUME NEW kept, NEW s \in Seq(Entries), Whole(s), NEW seen, NEW n \in FileNames,
         NEW v \in Versions[n], v = seen[n],
         Before(s, kept, seen, n - 1), \A e \in ToSet(kept) : e.from # n, Fits(s, Chunks(n, v))
  PROVE  s \o Chunks(n, v) \in Seq(Entries) /\ Whole(s \o Chunks(n, v))
         /\ Before(s \o Chunks(n, v), kept, seen, n)
<1> DEFINE c == Chunks(n, v)
           t == s \o c
<1>1. n \in Nat \ {0} /\ MaxEntries \in Nat
  BY StoresAssumption
<1>2. c \in Seq(Entries) /\ Len(c) \in Nat /\ \A k \in 1..Len(c) : c[k] = Entry(n, v, k)
  BY EntriesOf
<1> HIDE DEF c
<1>3. Len(s) \in Nat /\ DOMAIN s = 1..Len(s)
  OBVIOUS
<1>4. /\ t \in Seq(Entries) /\ Len(t) = Len(s) + Len(c)
      /\ \A i \in 1..(Len(s) + Len(c)) : t[i] = IF i <= Len(s) THEN s[i] ELSE c[i - Len(s)]
  BY <1>2, ConcatProperties
<1> HIDE DEF t
<1>5. DOMAIN t = 1..Len(t)
  BY <1>4
<1>6. ASSUME NEW i \in DOMAIN t
      PROVE  \/ i \in DOMAIN s /\ t[i] = s[i]
             \/ i - Len(s) \in 1..Len(c) /\ t[i] = Entry(n, v, i - Len(s)) /\ i \notin DOMAIN s
  <2>1. CASE i <= Len(s)
    BY <1>2, <1>3, <1>4, <1>5, <2>1
  <2>2. CASE ~ (i <= Len(s))
    <3>1. i - Len(s) \in 1..Len(c) /\ i \notin DOMAIN s
      BY <1>2, <1>3, <1>4, <1>5, <2>2
    <3>2. t[i] = c[i - Len(s)]
      BY <1>4, <1>5, <2>2
    <3> QED
      BY <1>2, <3>1, <3>2
  <2> QED
    BY <2>1, <2>2
<1>7. ASSUME NEW i \in DOMAIN s PROVE s[i].from # n
  <2>1. s[i].from \notin 1..(n - 1) => s[i].from = 0 \/ s[i] \in ToSet(kept)
    BY DEF Before
  <2>2. n \notin 1..(n - 1)
    BY <1>1
  <2> QED
    BY <1>1, <2>1, <2>2
<1>8. Whole(t)
  <2>1. Len(t) <= MaxEntries
    BY <1>4 DEF Fits, c
  <2>2. ASSUME NEW i \in DOMAIN t, NEW j \in DOMAIN t, t[i].from = t[j].from, t[i].from # 0, i # j
        PROVE  t[i].version = t[j].version /\ t[i].part # t[j].part
    <3>1. \A k : Entry(n, v, k).from = n /\ Entry(n, v, k).version = v /\ Entry(n, v, k).part = k
      BY DEF Entry
    <3>2. CASE i \in DOMAIN s /\ t[i] = s[i] /\ j \in DOMAIN s /\ t[j] = s[j]
      BY <2>2, <3>2 DEF Whole
    <3>3. CASE /\ i - Len(s) \in 1..Len(c) /\ t[i] = Entry(n, v, i - Len(s))
               /\ j - Len(s) \in 1..Len(c) /\ t[j] = Entry(n, v, j - Len(s))
      <4>1. i - Len(s) # j - Len(s)
        BY <1>3, <1>4, <1>5, <2>2
      <4> QED
        BY <3>1, <3>3, <4>1
    <3> QED
      BY <1>6, <1>7, <2>2, <3>1, <3>2, <3>3
  <2> QED
    BY <2>1, <2>2 DEF Whole
<1>9. Before(t, kept, seen, n)
  <2> SUFFICES ASSUME NEW i \in DOMAIN t, t[i].from # 0
               PROVE  \/ t[i] \in ToSet(kept)
                      \/ t[i].from \in 1..n /\ t[i].version = seen[t[i].from]
    BY DEF Before
  <2>1. n \in 1..n /\ 1..(n - 1) \subseteq 1..n
    BY <1>1
  <2>2. CASE i \in DOMAIN s /\ t[i] = s[i]
    BY <2>1, <2>2 DEF Before
  <2>3. CASE t[i] = Entry(n, v, i - Len(s))
    BY <2>1, <2>3 DEF Entry
  <2> QED
    BY <1>6, <2>2, <2>3
<1> QED
  BY <1>4, <1>8, <1>9 DEF t, c


\* What the folder was seen to hold.
Seen(seen) == /\ DOMAIN seen = FileNames
              /\ \A n \in FileNames : seen[n] \in Versions[n] \cup {Away}

LEMMA ImportIsWhole ==
  ASSUME NEW seen, Seen(seen), NEW kept \in Seq(Entries), Whole(kept),
         \A e \in ToSet(kept) : e \in ToSet(base) /\ e.from \notin Replaced(seen)
  PROVE  /\ Import(seen, kept) \in Seq(Entries) /\ Whole(Import(seen, kept))
         /\ \A e \in ToSet(Import(seen, kept)) :
              e.from # 0 => e \in ToSet(kept) \/ e.version = seen[e.from]
<1> DEFINE m == Len(Versions)
           seqs == Seq(Entries)
           More(s, n) == IF Ready(seen, n) /\ Fits(s, Chunks(n, seen[n]))
                         THEN s \o Chunks(n, seen[n]) ELSE s
           Upto(f) == [n \in 0..m |-> IF n = 0 THEN kept ELSE More(f[n - 1], n)]
           upto == CHOOSE f : f = Upto(f)
           next == [n \in 1..m |-> [s \in seqs |-> More(s, n)]]
<1>1. m \in Nat /\ FileNames = 1..m
  BY StoresAssumption
<1>2. ASSUME NEW n \in 1..m, Ready(seen, n) PROVE n \in FileNames /\ seen[n] \in Versions[n]
  BY <1>1, <1>2 DEF Ready, Seen
<1>3. \E f : f = Upto(f)
  <2>1. ASSUME NEW n \in 1..m, NEW s \in seqs PROVE More(s, n) \in seqs
    <3>1. CASE Ready(seen, n)
      <4>1. Chunks(n, seen[n]) \in Seq(Entries)
        BY <1>2, <3>1, EntriesOf
      <4> QED
        BY <2>1, <4>1
    <3>2. CASE ~ Ready(seen, n)
      BY <2>1, <3>2
    <3> QED
      BY <3>1, <3>2
  <2> HIDE DEF m, seqs, More
  <2>2. next \in [1..m -> [seqs -> seqs]]
    BY <2>1
  <2>3. kept \in seqs /\ m \in Nat
    BY <1>1 DEF seqs
  <2> HIDE DEF next
  <2>4. StepsOn(next, m, seqs)
    BY <2>2 DEF StepsOn
  <2>5. PICK g : IsRecursion(g, m, seqs, kept, next)
    BY <2>3, <2>4, Recursion
  <2>6. ASSUME NEW n \in 1..m PROVE g[n] = More(g[n - 1], n)
    <3>1. g[n - 1] \in seqs
      BY <1>1, <2>5 DEF IsRecursion
    <3> QED
      BY <2>5, <3>1 DEF next, IsRecursion
  <2>7. \A n \in 0..m : g[n] = IF n = 0 THEN kept ELSE More(g[n - 1], n)
    BY <1>1, <2>5, <2>6 DEF IsRecursion
  <2>8. g = Upto(g)
    BY <2>5, <2>7, Zenon DEF IsRecursion
  <2> QED
    BY <2>8
<1>4. upto = Upto(upto)
  BY <1>3
<1>5. Import(seen, kept) = upto[m]
  BY DEF Import
<1> DEFINE Part(n, s) == s \in seqs /\ Whole(s) /\ Before(s, kept, seen, n)
           P == {n \in 0..m : Part(n, upto[n])}
<1> HIDE DEF m, upto
<1>6. upto[0] = kept /\ \A n \in 1..m : upto[n] = More(upto[n - 1], n)
  <2> HIDE DEF More
  <2> QED
    BY <1>1, <1>4
<1>7. 0 \in P
  <2>1. Before(kept, kept, seen, 0)
    BY DEF Before, ToSet
  <2> QED
    BY <1>1, <1>6, <2>1
<1>8. ASSUME NEW n \in 1..m, n - 1 \in P PROVE n \in P
  <2> DEFINE s == upto[n - 1]
  <2>1. Part(n - 1, s)
    BY <1>8
  <2>2. n \in 0..m /\ upto[n] = More(s, n)
    BY <1>1, <1>6
  <2> HIDE DEF s
  <2>3. CASE Ready(seen, n) /\ Fits(s, Chunks(n, seen[n]))
    <3>1. n \in FileNames /\ seen[n] \in Versions[n]
      BY <1>2, <2>3
    <3>2. ASSUME NEW e \in ToSet(kept), e.from = n PROVE FALSE
      <4>1. Imported(n)
        BY <3>2 DEF Imported
      <4> QED
        BY <2>3, <3>1, <3>2, <4>1 DEF Replaced, Changed
    <3> DEFINE v == seen[n]
    <3> HIDE DEF v
    <3>3. v \in Versions[n] /\ v = seen[n] /\ Fits(s, Chunks(n, v))
      BY <2>3, <3>1 DEF v
    <3>4. Part(n, s \o Chunks(n, v))
      BY <2>1, <3>1, <3>2, <3>3, ChunksFit
    <3>5. Part(n, upto[n])
      BY <2>2, <2>3, <3>4 DEF v
    <3> HIDE DEF Part, More
    <3> QED
      BY <2>2, <3>5
  <2>4. CASE ~ (Ready(seen, n) /\ Fits(s, Chunks(n, seen[n])))
    <3>1. upto[n] = s
      BY <2>2, <2>4
    <3>2. 1..(n - 1) \subseteq 1..n
      BY <1>1
    <3>3. Part(n, s)
      BY <2>1, <3>2 DEF Before
    <3> HIDE DEF Part, More
    <3> QED
      BY <2>2, <3>1, <3>3
  <2> QED
    BY <2>3, <2>4
<1> HIDE DEF P
<1>9. m \in P
  <2>1. \A n \in 1..m : n - 1 \in P => n \in P
    BY <1>8
  <2>2. \A n \in 0..m : n \in P
    BY <1>1, <1>7, <2>1, SetInduction
  <2> QED
    BY <1>1, <2>2
<1>10. Import(seen, kept) \in Seq(Entries) /\ Whole(Import(seen, kept))
       /\ Before(Import(seen, kept), kept, seen, m)
  BY <1>5, <1>9 DEF P
<1> QED
  BY <1>10 DEF Before, ToSet

\* What an import outdates is out of the base that it leaves, and it forgets then.
LEMMA OutdatedIsOut ==
  ASSUME NEW seen, Seen(seen), base \in Seq(Entries), Whole(base),
         NEW out, out = {e \in ToSet(base) : e.from \in Replaced(seen)},
         NEW e \in Outdated(seen)
  PROVE  /\ e \in out /\ Replaced(seen) # {} /\ e.version # seen[e.from] /\ e.from # 0
<1>1. e \in ToSet(base) /\ e.from # 0 /\ e.version # seen[e.from] /\ e \in Entries
  BY DEF Outdated, ToSet
<1>2. e.from \in FileNames
  <2>1. CASE \E t \in Topics : e = Phrase(t)
    BY <1>1, <2>1 DEF Phrase, Entry
  <2>2. CASE \E n \in FileNames : \E v \in Versions[n] : e \in ToSet(Chunks(n, v))
    BY <2>2 DEF Chunks, Entry, ToSet
  <2> QED
    BY <1>1, <2>1, <2>2 DEF Entries
<1>3. Imported(e.from)
  BY <1>1 DEF Imported
<1>4. VersionOf(e.from) = e.version
  <2> DEFINE chosen == CHOOSE x \in ToSet(base) : x.from = e.from
  <2>1. chosen \in ToSet(base) /\ chosen.from = e.from
    BY <1>1
  <2> HIDE DEF chosen
  <2>2. PICK i \in DOMAIN base, j \in DOMAIN base : base[i] = e /\ base[j] = chosen
    BY <1>1, <2>1 DEF ToSet
  <2>3. e.version = chosen.version
    BY <1>1, <2>1, <2>2 DEF Whole
  <2> QED
    BY <2>3 DEF VersionOf, chosen
<1>5. e.from \in Replaced(seen)
  <2>1. CASE seen[e.from] = Away
    BY <1>2, <1>3, <2>1 DEF Replaced, Removed
  <2>2. CASE seen[e.from] # Away
    BY <1>1, <1>2, <1>3, <1>4, <2>2 DEF Replaced, Changed, Ready
  <2> QED
    BY <2>1, <2>2
<1> QED
  BY <1>1, <1>5


StoresNext == \/ KnowledgeTurn \/ MemoryTurn \/ PasswordTurn \/ StoresStep \/ StoresWorld

StoresInv == StoresTypeOK /\ StoresHold

LEMMA NothingSeen ==
  /\ <<>> \in Seq((UNION Range(Versions)) \cup {Away}) /\ DOMAIN <<>> = {}
  /\ Len(<<>>) <= Len(Versions)
<1>1. \A S : <<>> \in Seq(S)
  OBVIOUS
<1>2. DOMAIN <<>> = {} /\ Len(<<>>) = 0
  OBVIOUS
<1>3. 0 <= Len(Versions)
  BY StoresAssumption
<1> QED
  BY <1>1, <1>2, <1>3

LEMMA StoresStarts == StoresInit => StoresInv
<1> SUFFICES ASSUME StoresInit PROVE StoresInv
  OBVIOUS
<1> USE DEF StoresInit
<1>1. FactsIn(facts) = {} /\ DOMAIN facts = FactKeys
  <2>1. \A k \in FactKeys : facts[k] = Nobody
    OBVIOUS
  <2>2. {k \in FactKeys : facts[k] # Nobody} = {}
    BY <2>1
  <2> QED
    BY <2>2 DEF FactsIn
<1>2. StoresTypeOK
  <2>1. \A n \in FileNames : folder[n] = Away
    OBVIOUS
  <2>2. <<>> \in Seq(Entries) /\ <<>> \in Seq(Passwords) /\ DOMAIN folder = FileNames
    OBVIOUS
  <2>3. wish.seen = <<>> /\ Len(<<>>) = 0
    BY DEF NoWish, Wish
  <2> QED
    BY <1>1, <2>1, <2>2, <2>3, StoresAssumption DEF StoresTypeOK
<1>3. wish = Wish("none", {}, <<>>) /\ wish.op = "none" /\ wish.about = {} /\ wish.seen = <<>>
  BY DEF NoWish, Wish
<1>4. WishInv
  <2>1. wish.seen \in Seq((UNION Range(Versions)) \cup {Away}) /\ DOMAIN wish.seen = {} /\ Len(wish.seen) <= Len(Versions)
    BY <1>3, NothingSeen
  <2>2. wish = Wish(wish.op, wish.about, wish.seen)
    BY <1>3
  <2>3. waits = "no" /\ wish.op = "none"
    BY <1>3
  <2> QED
    BY <2>1, <2>2, <2>3 DEF WishInv
<1>5. ForgottenStaysForgotten /\ ImportsAreOfOneVersion
  BY <1>1, StoresAssumption DEF ForgottenStaysForgotten, ImportsAreOfOneVersion
<1> QED
  BY <1>1, <1>2, <1>4, <1>5 DEF StoresInv, StoresHold

\* What a save leaves in the backups, and of which file one could not be removed.
LEMMA SaveLeaves ==
  ASSUME NEW forget \in BOOLEAN, NEW result \in SaveResults, NEW old, NEW current, NEW name,
         NEW S, stuck \subseteq S, name \in S, result = "left" => forget
  PROVE  /\ Stuck(name, forget, result) \subseteq S
         /\ Backed(old, current, forget, result) \subseteq old \cup current
         /\ \A x : x \in stuck /\ x # name => x \in Stuck(name, forget, result)
         /\ \/ result = "left" /\ name \in Stuck(name, forget, result)
            \/ /\ result = "failed" /\ Stuck(name, forget, result) = stuck
               /\ \/ Backed(old, current, forget, result) = old
                  \/ Backed(old, current, forget, result) = old \cup current
            \/ /\ result = "saved" /\ ~forget /\ Stuck(name, forget, result) = stuck
               /\ Backed(old, current, forget, result) = old \cup current
            \/ result = "saved" /\ forget /\ Backed(old, current, forget, result) = {}
<1>1. CASE result = "left"
  <2>1. Stuck(name, forget, result) = stuck \cup {name} /\ Backed(old, current, forget, result) = old
    BY <1>1, Zenon DEF Stuck, Backed
  <2> QED
    BY <1>1, <2>1
<1>2. CASE result = "failed"
  <2>1. Stuck(name, forget, result) = stuck
    BY <1>2, Zenon DEF Stuck
  <2>2. CASE forget
    <3>1. Backed(old, current, forget, result) = old
      BY <1>2, <2>2, Zenon DEF Backed
    <3> QED
      BY <1>2, <2>1, <3>1
  <2>3. CASE ~forget
    <3>1. Backed(old, current, forget, result) = old \cup current
      BY <2>3, Zenon DEF Backed
    <3> QED
      BY <1>2, <2>1, <3>1
  <2> QED
    BY <2>2, <2>3
<1>3. CASE result = "saved" /\ forget
  <2>1. Stuck(name, forget, result) = stuck \ {name} /\ Backed(old, current, forget, result) = {}
    BY <1>3, Zenon DEF Stuck, Backed
  <2> QED
    BY <1>3, <2>1
<1>4. CASE result = "saved" /\ ~forget
  <2>1. Stuck(name, forget, result) = stuck /\ Backed(old, current, forget, result) = old \cup current
    BY <1>4, Zenon DEF Stuck, Backed
  <2> QED
    BY <1>4, <2>1
<1> QED
  BY <1>1, <1>2, <1>3, <1>4 DEF SaveResults

\* Whatever a save of the base leaves behind, what the user is told is removed is not in it, nor,
\* when all the backups could be removed, in them.
LEMMA SavedBase ==
  ASSUME StoresInv, UNCHANGED memory, NEW after \in Seq(Entries), Whole(after),
         NEW forget \in BOOLEAN, NEW result \in SaveResults, NEW removed \in SUBSET Entries,
         removed \cap ToSet(after) = {}, removed # {} => forget,
         SaveBase(after, forget, result), TellsOfEntries(result, removed)
  PROVE  /\ base' \in Seq(Entries) /\ baseOld' \cup gone' \subseteq Entries
         /\ stuck' \subseteq {"base", "facts"}
         /\ ForgottenStaysForgotten' /\ ImportsAreOfOneVersion' /\ unsaid' \cap FactsIn(facts') = {}
<1> USE DEF StoresInv, StoresHold, StoresTypeOK
<1>1. UNCHANGED <<facts, factsOld, talk, forgotten, unsaid>> /\ FactsIn(facts') = FactsIn(facts)
  BY DEF memory, FactsIn
<1>2. ToSet(base) \subseteq Entries /\ Whole(base)
  BY DEF ToSet, ImportsAreOfOneVersion, Whole
<1>3. /\ gone \cap ToSet(base) = {} /\ forgotten \cap FactsIn(facts) = {}
      /\ "base" \in stuck \/ gone \cap baseOld = {}
      /\ "facts" \in stuck \/ forgotten \cap factsOld = {}
      /\ unsaid \cap (talk.history \cup talk.rest) = {}
  BY DEF ForgottenStaysForgotten
<1>4. /\ base' = IF result = "failed" THEN base ELSE after
      /\ baseOld' = Backed(baseOld, ToSet(base), forget, result)
      /\ stuck' = Stuck("base", forget, result)
      /\ result = "left" => forget
  BY DEF SaveBase, MayEnd
<1>5. gone' = IF result = "failed" THEN gone ELSE (gone \cup removed) \ (ToSet(base') \ ToSet(base))
  BY DEF TellsOfEntries
<1> DEFINE current == ToSet(base)
           both == {"base", "facts"}
<1> HIDE DEF current
<1>6. /\ stuck' \subseteq both /\ baseOld' \subseteq baseOld \cup current
      /\ \A x : x \in stuck /\ x # "base" => x \in stuck'
      /\ \/ result = "left" /\ "base" \in stuck'
         \/ result = "failed" /\ stuck' = stuck /\ (baseOld' = baseOld \/ baseOld' = baseOld \cup current)
         \/ result = "saved" /\ ~forget /\ stuck' = stuck /\ baseOld' = baseOld \cup current
         \/ result = "saved" /\ forget /\ baseOld' = {}
  <2> DEFINE stays == Stuck("base", forget, result)
             backed == Backed(baseOld, current, forget, result)
  <2>1. stuck \subseteq both /\ "base" \in both
    OBVIOUS
  <2>2. result = "left" => forget
    BY <1>4, Zenon
  <2> HIDE DEF both
  <2>3. /\ stays \subseteq both /\ backed \subseteq baseOld \cup current
        /\ \A x : x \in stuck /\ x # "base" => x \in stays
        /\ \/ result = "left" /\ "base" \in stays
           \/ result = "failed" /\ stays = stuck /\ (backed = baseOld \/ backed = baseOld \cup current)
           \/ result = "saved" /\ ~forget /\ stays = stuck /\ backed = baseOld \cup current
           \/ result = "saved" /\ forget /\ backed = {}
    BY <2>1, <2>2, SaveLeaves
  <2>4. stuck' = stays /\ baseOld' = backed
    BY <1>4, Zenon DEF current
  <2> HIDE DEF stays, backed
  <2> QED
    BY <2>3, <2>4, Zenon
<1>7. "facts" \in stuck => "facts" \in stuck'
  BY <1>6
<1>8. gone' \cap ToSet(base') = {}
  BY <1>3, <1>4, <1>5
<1>9. "base" \in stuck' \/ gone' \cap baseOld' = {}
  <2>1. CASE result = "failed" /\ stuck' = stuck /\ (baseOld' = baseOld \/ baseOld' = baseOld \cup current)
    BY <1>3, <1>5, <2>1 DEF current
  <2>2. CASE result = "saved" /\ ~forget /\ stuck' = stuck /\ baseOld' = baseOld \cup current
    BY <1>3, <1>5, <2>2 DEF current
  <2> QED
    BY <1>6, <2>1, <2>2
<1>10. base' \in Seq(Entries) /\ Whole(base')
  BY <1>2, <1>4
<1>11. ImportsAreOfOneVersion'
  BY <1>10 DEF ImportsAreOfOneVersion, Whole
<1>12. ToSet(base)' = ToSet(base') /\ FactsIn(facts)' = FactsIn(facts')
  BY DEF ToSet, FactsIn
<1>13. ForgottenStaysForgotten'
  BY <1>1, <1>3, <1>7, <1>8, <1>9, <1>12 DEF ForgottenStaysForgotten
<1> QED
  BY <1>1, <1>2, <1>5, <1>6, <1>10, <1>11, <1>13 DEF current


\* A request that is made, and one that has ended.
LEMMA WishAsked ==
  ASSUME NEW op, NEW these, wish' = Wish(op, these, <<>>),
         waits' = "asked" => op # "update", waits' = "reading" => op = "update",
         op = "add" => these \subseteq {Phrase(t) : t \in Topics},
         op \in {"forget", "clear"} => these \subseteq Entries,
         op \in {"remember", "forget_facts"} => these \subseteq Facts,
         op = "password" => \A word \in these : word[2] \in Passwords
  PROVE  WishInv'
<1>1. wish'.op = op /\ wish'.about = these /\ wish'.seen = <<>>
  BY DEF Wish
<1>4. wish' = Wish(wish'.op, wish'.about, wish'.seen)
  BY <1>1
<1>5. wish'.seen \in Seq((UNION Range(Versions)) \cup {Away}) /\ Len(wish'.seen) <= Len(Versions)
      /\ DOMAIN wish'.seen = {}
  BY <1>1, NothingSeen
<1>6. /\ wish' = Wish(wish'.op, wish'.about, wish'.seen)
      /\ \A n \in DOMAIN wish'.seen : n \in FileNames /\ wish'.seen[n] \in Versions[n] \cup {Away}
      /\ waits' = "asked" /\ wish'.op = "update" => DOMAIN wish'.seen = FileNames
      /\ waits' = "reading" => wish'.op = "update"
  BY <1>1, <1>4, <1>5
<1>7. /\ wish'.op = "add" => wish'.about \subseteq {Phrase(t) : t \in Topics}
      /\ wish'.op \in {"forget", "clear"} => wish'.about \subseteq Entries
      /\ wish'.op \in {"remember", "forget_facts"} => wish'.about \subseteq Facts
      /\ wish'.op = "password" => \A word \in wish'.about : word[2] \in Passwords
  BY <1>1
<1> QED
  BY <1>5, <1>6, <1>7 DEF WishInv

LEMMA WishConcluded == ASSUME Concluded PROVE WishInv' /\ waits' = "no"
BY WishAsked DEF Concluded, NoWish

\* A step that touches neither what is remembered nor what was forgotten.
LEMMA NothingForgotten ==
  ASSUME StoresInv, UNCHANGED remembered,
         WishInv', waits' \in {"no", "reading", "asked"},
         DOMAIN folder' = FileNames, \A n \in FileNames : folder'[n] \in Versions[n] \cup {Away},
         clip' \in Passwords \cup {Nobody}, timers' \in Seq(Passwords)
  PROVE  StoresInv'
<1> USE DEF StoresInv, StoresHold, StoresTypeOK, remembered, knowledge, memory
<1>1. UNCHANGED <<base, baseOld, facts, factsOld, talk, stuck, gone, forgotten, unsaid>>
  OBVIOUS
<1>2. FactsIn(facts)' = FactsIn(facts) /\ ToSet(base)' = ToSet(base)
  BY <1>1 DEF FactsIn, ToSet
<1>3. ForgottenStaysForgotten'
  BY <1>1, <1>2 DEF ForgottenStaysForgotten
<1>4. ImportsAreOfOneVersion'
  BY <1>1 DEF ImportsAreOfOneVersion
<1> QED
  BY <1>1, <1>2, <1>3, <1>4

LEMMA ReadingGoesOn ==
  ASSUME StoresInv, ReadFile PROVE StoresInv'
<1> DEFINE content == (UNION Range(Versions)) \cup {Away}
           n == Len(wish.seen) + 1
           more == Append(wish.seen, folder[n])
<1> USE DEF StoresInv, StoresHold, StoresTypeOK
<1>1. wish.seen \in Seq(content) /\ Len(wish.seen) \in Nat /\ Len(Versions) \in Nat
      /\ DOMAIN wish.seen = 1..Len(wish.seen)
  BY StoresAssumption DEF WishInv
<1>2. n \in FileNames /\ n <= Len(Versions)
  BY <1>1, StoresAssumption DEF ReadFile
<1>3. folder[n] \in Versions[n] \cup {Away} /\ folder[n] \in content
  BY <1>2 DEF Range
<1> DEFINE s == wish.seen
           v == folder[n]
<1> HIDE DEF s, v, content
<1>4. more \in Seq(content) /\ Len(more) = n /\ DOMAIN more = 1..n
      /\ \A k \in 1..n : more[k] = IF k = n THEN v ELSE s[k]
  BY <1>1, <1>3 DEF s, v
<1>5. \A k \in 1..n : k # n => k \in DOMAIN s
  BY <1>1 DEF s
<1>6. ASSUME NEW k \in DOMAIN more PROVE k \in FileNames /\ more[k] \in Versions[k] \cup {Away}
  BY <1>2, <1>3, <1>4, <1>5 DEF s, v, WishInv
<1> HIDE DEF n, more
<1>7. wish' = Wish(wish.op, wish.about, more)
  <2>1. wish = Wish(wish.op, wish.about, wish.seen) /\ wish' = [wish EXCEPT !.seen = more]
    BY DEF ReadFile, more, WishInv, n
  <2>2. \A x, y, z : [Wish(x, y, z) EXCEPT !.seen = more] = Wish(x, y, more)
    BY DEF Wish
  <2> QED
    BY <2>1, <2>2
<1>8. wish'.op = wish.op /\ wish'.about = wish.about /\ wish'.seen = more
  BY <1>7 DEF Wish
<1>9. waits' = "reading" /\ wish.op = "update"
  BY DEF ReadFile, WishInv
<1>10. WishInv'
  BY <1>2, <1>4, <1>6, <1>7, <1>8, <1>9 DEF WishInv, content
<1> QED
  BY <1>9, <1>10, NothingForgotten DEF ReadFile, Apart, clipboard

LEMMA PlansEnd ==
  ASSUME StoresInv, PlanReady \/ NotDone \/ ResetFails PROVE StoresInv'
<1> USE DEF StoresInv, StoresHold, StoresTypeOK
<1>1. CASE Concluded
  BY <1>1, WishConcluded, NothingForgotten DEF PlanReady, NotDone, ResetFails, Apart, clipboard, Agreed
<1>2. CASE PlanReady /\ waits' = "asked" /\ UNCHANGED wish
  <2>1. DOMAIN wish.seen = FileNames
    BY <1>2, StoresAssumption DEF PlanReady, WishInv
  <2>2. WishInv'
    BY <1>2, <2>1 DEF WishInv
  <2> QED
    BY <1>2, <2>2, NothingForgotten DEF PlanReady, Apart, clipboard
<1> QED
  BY <1>1, <1>2 DEF PlanReady, NotDone, ResetFails, Agreed

LEMMA TurnsAsk ==
  ASSUME StoresInv, KnowledgeTurn \/ MemoryTurn \/ PasswordTurn PROVE StoresInv' \/ Talk
<1> USE DEF StoresInv, StoresHold, StoresTypeOK
<1>1. ASSUME NEW op, NEW these, AskUser(Wish(op, these, <<>>)), op # "update",
             op = "add" => these \subseteq {Phrase(t) : t \in Topics},
             op \in {"forget", "clear"} => these \subseteq Entries,
             op \in {"remember", "forget_facts"} => these \subseteq Facts,
             op = "password" => \A word \in these : word[2] \in Passwords
      PROVE  StoresInv'
  <2>1. WishInv' /\ waits' = "asked"
    BY <1>1, WishAsked DEF AskUser, Asks
  <2> QED
    BY <1>1, <2>1, NothingForgotten DEF AskUser, Asks, Apart, clipboard
<1>2. CASE KnowledgeTurn
  <2>0. ToSet(base) \subseteq Entries
    BY DEF ToSet
  <2>1. CASE AskForget
    <3>1. PICK these \in SUBSET ToSet(base) : AskUser(Wish("forget", these, <<>>))
      BY <2>1 DEF AskForget
    <3> QED
      BY <1>1, <2>0, <3>1
  <2>2. CASE AskClear
    BY <1>1, <2>0, <2>2 DEF AskClear
  <2>3. CASE BeginUpdate
    <3>1. WishInv'
      BY <2>3, WishAsked DEF BeginUpdate
    <3> QED
      BY <2>3, <3>1, NothingForgotten DEF BeginUpdate, Apart, clipboard
  <2>4. ASSUME NEW t \in Topics, AskAdd(t) PROVE StoresInv'
    BY <1>1, <2>4 DEF AskAdd
  <2> QED
    BY <1>2, <2>1, <2>2, <2>3, <2>4 DEF KnowledgeTurn
<1>3. CASE MemoryTurn
  <2>1. CASE AskForgetFacts \/ AskClearFacts \/ AskClearMemory
    BY <1>1, <2>1 DEF AskForgetFacts, AskClearFacts, AskClearMemory
  <2>2. ASSUME NEW f \in Facts, AskRemember(f[1], f[2]) PROVE StoresInv'
    <3>1. {<<f[1], f[2]>>} \subseteq Facts
      BY StoresAssumption
    <3> QED
      BY <1>1, <2>2, <3>1 DEF AskRemember
  <2> QED
    BY <1>3, <2>1, <2>2 DEF MemoryTurn
<1>4. CASE PasswordTurn
  BY <1>1, <1>4 DEF PasswordTurn, AskPassword
<1> QED
  BY <1>2, <1>3, <1>4


\* The pieces that a change of the base, or of the facts, is put together from.
LEMMA StoresPutTogether ==
  ASSUME StoresInv, Concluded, UNCHANGED folder,
         base' \in Seq(Entries), baseOld' \cup gone' \subseteq Entries,
         DOMAIN facts' = FactKeys,
         FactsIn(facts') \cup factsOld' \cup forgotten' \cup unsaid' \subseteq Facts,
         talk' \in [history : SUBSET Facts, rest : SUBSET Facts],
         clip' \in Passwords \cup {Nobody}, timers' \in Seq(Passwords),
         stuck' \subseteq {"base", "facts"},
         ForgottenStaysForgotten', ImportsAreOfOneVersion', unsaid' \cap FactsIn(facts') = {}
  PROVE  StoresInv'
<1>1. WishInv' /\ waits' = "no"
  BY WishConcluded
<1>2. FactsIn(facts)' = FactsIn(facts')
  BY DEF FactsIn
<1> QED
  BY <1>1, <1>2 DEF StoresInv, StoresHold, StoresTypeOK

LEMMA BaseChanges ==
  ASSUME StoresInv, Concluded, UNCHANGED folder, UNCHANGED <<memory, clipboard>>,
         NEW after \in Seq(Entries), Whole(after), NEW forget \in BOOLEAN,
         NEW result \in SaveResults, NEW removed \in SUBSET Entries,
         removed \cap ToSet(after) = {}, removed # {} => forget,
         SaveBase(after, forget, result), TellsOfEntries(result, removed)
  PROVE  StoresInv'
<1>1. /\ base' \in Seq(Entries) /\ baseOld' \cup gone' \subseteq Entries
      /\ stuck' \subseteq {"base", "facts"}
      /\ ForgottenStaysForgotten' /\ ImportsAreOfOneVersion' /\ unsaid' \cap FactsIn(facts') = {}
  BY SavedBase
<1>2. UNCHANGED <<facts, factsOld, talk, clip, timers, forgotten, unsaid>>
  BY DEF memory, clipboard
<1>3. FactsIn(facts') = FactsIn(facts)
  BY <1>2 DEF FactsIn
<1>4. /\ DOMAIN facts' = FactKeys
      /\ FactsIn(facts') \cup factsOld' \cup forgotten' \cup unsaid' \subseteq Facts
      /\ talk' \in [history : SUBSET Facts, rest : SUBSET Facts]
      /\ clip' \in Passwords \cup {Nobody} /\ timers' \in Seq(Passwords)
  BY <1>2, <1>3 DEF StoresInv, StoresTypeOK
<1> QED
  BY <1>1, <1>4, StoresPutTogether

LEMMA AppendIsWhole ==
  ASSUME NEW s \in Seq(Entries), Whole(s), Len(s) < MaxEntries, NEW e \in Entries, e.from = 0
  PROVE  Append(s, e) \in Seq(Entries) /\ Whole(Append(s, e))
<1> DEFINE t == Append(s, e)
<1>1. Len(s) \in Nat /\ MaxEntries \in Nat /\ DOMAIN s = 1..Len(s)
  BY StoresAssumption
<1>2. t \in Seq(Entries) /\ Len(t) = Len(s) + 1 /\ DOMAIN t = 1..(Len(s) + 1)
      /\ \A i \in 1..(Len(s) + 1) : t[i] = IF i = Len(s) + 1 THEN e ELSE s[i]
  BY <1>1
<1> HIDE DEF t
<1>3. \A i \in DOMAIN t : t[i].from # 0 => i \in DOMAIN s /\ t[i] = s[i]
  BY <1>1, <1>2
<1>4. Len(t) <= MaxEntries
  BY <1>1, <1>2
<1> QED
  BY <1>2, <1>3, <1>4 DEF Whole, t

LEMMA EntriesChange ==
  ASSUME StoresInv, NEW result \in SaveResults,
         AddEntry(result) \/ ForgetEntries(result) \/ ApplyImport(result)
  PROVE  StoresInv'
<1>1. base \in Seq(Entries) /\ Whole(base) /\ WishInv /\ ToSet(base) \subseteq Entries
  BY DEF StoresInv, StoresTypeOK, StoresHold, ImportsAreOfOneVersion, Whole, ToSet
<1>2. CASE AddEntry(result)
  <2>1. Concluded /\ UNCHANGED folder /\ UNCHANGED <<memory, clipboard>>
    BY <1>2 DEF AddEntry, Agreed
  <2>2. CASE UNCHANGED <<knowledge, stuck>>
    <3>1. WishInv' /\ waits' = "no" /\ UNCHANGED remembered
      BY <2>1, <2>2, WishConcluded DEF remembered
    <3>2. UNCHANGED <<folder, clip, timers>>
      BY <2>1 DEF clipboard
    <3>3. /\ DOMAIN folder' = FileNames /\ \A n \in FileNames : folder'[n] \in Versions[n] \cup {Away}
          /\ clip' \in Passwords \cup {Nobody} /\ timers' \in Seq(Passwords)
      BY <3>2 DEF StoresInv, StoresTypeOK
    <3> QED
      BY <3>1, <3>3, NothingForgotten
  <2>3. ASSUME Len(base) < MaxEntries, NEW e \in wish.about,
               SaveBase(Append(base, e), FALSE, result), TellsOfEntries(result, {})
        PROVE  StoresInv'
    <3>1. e \in Entries /\ e.from = 0
      BY <1>1, <1>2, EntriesOf DEF WishInv, AddEntry, Agreed
    <3>2. Append(base, e) \in Seq(Entries) /\ Whole(Append(base, e))
      BY <1>1, <2>3, <3>1, AppendIsWhole
    <3> DEFINE after == Append(base, e)
    <3> HIDE DEF after
    <3>3. after \in Seq(Entries) /\ Whole(after) /\ SaveBase(after, FALSE, result)
      BY <2>3, <3>2 DEF after
    <3>4. {} \in SUBSET Entries /\ {} \cap ToSet(after) = {} /\ FALSE \in BOOLEAN
      OBVIOUS
    <3> QED
      BY <2>1, <2>3, <3>3, <3>4, BaseChanges
  <2>4. ~ (Len(base) >= MaxEntries) => Len(base) < MaxEntries
    BY <1>1, StoresAssumption
  <2> QED
    BY <1>2, <2>2, <2>3, <2>4 DEF AddEntry
<1>3. CASE ForgetEntries(result)
  <2>1. Concluded /\ UNCHANGED folder /\ UNCHANGED <<memory, clipboard>>
        /\ TellsOfEntries(result, wish.about)
    BY <1>3 DEF ForgetEntries, Agreed
  <2>2. wish.about \in SUBSET Entries
    BY <1>1, <1>3 DEF ForgetEntries, Agreed, WishInv
  <2> DEFINE these == wish.about
  <2> HIDE DEF these
  <2>3. CASE SaveBase(Without(base, wish.about), TRUE, result)
    <3> DEFINE after == Without(base, these)
    <3>1. after \in Seq(Entries) /\ Whole(after) /\ ToSet(after) \subseteq ToSet(base) \ these
      BY <1>1, WithoutIsWhole
    <3>2. SaveBase(after, TRUE, result)
      BY <2>3 DEF these
    <3> HIDE DEF after
    <3>3. these \in SUBSET Entries /\ these \cap ToSet(after) = {} /\ TellsOfEntries(result, these)
      BY <2>1, <2>2, <3>1 DEF these
    <3> QED
      BY <2>1, <3>1, <3>2, <3>3, BaseChanges
  <2>4. CASE SaveBase(<<>>, TRUE, result)
    <3>1. <<>> \in Seq(Entries) /\ Len(<<>>) = 0 /\ DOMAIN <<>> = {}
      OBVIOUS
    <3>2. Whole(<<>>) /\ ToSet(<<>>) = {}
      BY <3>1, StoresAssumption DEF Whole, ToSet
    <3> QED
      BY <2>1, <2>2, <2>4, <3>1, <3>2, BaseChanges
  <2> QED
    BY <1>3, <2>3, <2>4 DEF ForgetEntries
<1>4. CASE ApplyImport(result)
  <2> DEFINE seen == wish.seen
             out == {e \in ToSet(base) : e.from \in Replaced(seen)}
             kept == Without(base, out)
             after == Import(seen, kept)
             forget == Replaced(seen) # {}
             removed == Outdated(seen)
  <2>1. Concluded /\ UNCHANGED folder /\ UNCHANGED <<memory, clipboard>>
    BY <1>4 DEF ApplyImport, Agreed
  <2>2. Seen(seen)
    BY <1>1, <1>4 DEF ApplyImport, Agreed, WishInv, Seen
  <2>3. kept \in Seq(Entries) /\ Whole(kept) /\ ToSet(kept) \subseteq ToSet(base) \ out
    BY <1>1, WithoutIsWhole
  <2>4. \A e \in ToSet(kept) : e \in ToSet(base) /\ e.from \notin Replaced(seen)
    BY <2>3
  <2>5. SaveBase(after, forget, result) /\ forget \in BOOLEAN /\ TellsOfEntries(result, removed)
    BY <1>4 DEF ApplyImport
  <2> HIDE DEF seen
  <2>6. \A e \in removed : e \in out /\ forget /\ e.version # seen[e.from] /\ e.from # 0
    BY <1>1, <2>2, OutdatedIsOut
  <2>7. removed \in SUBSET Entries
    BY <1>1 DEF Outdated
  <2> HIDE DEF kept, forget, removed, out
  <2>8. after \in Seq(Entries) /\ Whole(after)
        /\ \A e \in ToSet(after) : e.from # 0 => e \in ToSet(kept) \/ e.version = seen[e.from]
    BY <2>2, <2>3, <2>4, ImportIsWhole
  <2> HIDE DEF after
  <2>9. removed \cap ToSet(after) = {} /\ (removed # {} => forget)
    BY <2>3, <2>6, <2>8
  <2> QED
    BY <2>1, <2>5, <2>7, <2>8, <2>9, BaseChanges
<1> QED
  BY <1>2, <1>3, <1>4

\* Whichever of the three a change of the facts is, and however the save ends: what the user is
\* told is forgotten is out of the file, and of the backups when all could be removed; what the
\* conversation is said to be rid of is out of it, and not known any more.
LEMMA FactsChanged ==
  ASSUME StoresInv, Concluded, UNCHANGED folder, UNCHANGED <<clipboard, knowledge>>,
         NEW after, DOMAIN after = FactKeys, FactsIn(after) \subseteq Facts,
         NEW forget \in BOOLEAN, NEW result \in SaveResults,
         NEW lost \in SUBSET Facts, NEW left \in SUBSET Facts, NEW known \in SUBSET Facts,
         SaveFacts(after, forget, result), UNCHANGED talk \/ NewConversation(result),
         TellsOfFacts(result, lost, left, known),
         lost \cap FactsIn(after) = {}, lost # {} => forget,
         left \cap FactsIn(after) \subseteq known, FactsIn(after) \subseteq FactsIn(facts) \cup known,
         left # {} => NewConversation(result)
  PROVE  StoresInv'
<1> USE DEF StoresInv, StoresHold, StoresTypeOK
<1>1. UNCHANGED <<base, baseOld, gone, clip, timers>> /\ ToSet(base)' = ToSet(base)
  BY DEF knowledge, clipboard, ToSet
<1>2. /\ facts' = IF result = "failed" THEN facts ELSE after
      /\ factsOld' = Backed(factsOld, FactsIn(facts), forget, result)
      /\ stuck' = Stuck("facts", forget, result)
      /\ result = "left" => forget
  BY DEF SaveFacts, MayEnd
<1>3. /\ forgotten' = IF result = "failed" THEN forgotten ELSE (forgotten \cup lost) \ known
      /\ unsaid' = IF result = "failed" THEN unsaid ELSE (unsaid \cup left) \ known
  BY DEF TellsOfFacts
<1>4. DOMAIN facts' = FactKeys /\ FactsIn(facts') = IF result = "failed" THEN FactsIn(facts) ELSE FactsIn(after)
  BY <1>2
<1>5. /\ gone \cap ToSet(base) = {} /\ forgotten \cap FactsIn(facts) = {}
      /\ "base" \in stuck \/ gone \cap baseOld = {}
      /\ "facts" \in stuck \/ forgotten \cap factsOld = {}
      /\ unsaid \cap (talk.history \cup talk.rest) = {} /\ unsaid \cap FactsIn(facts) = {}
  BY DEF ForgottenStaysForgotten
<1> DEFINE current == FactsIn(facts)
           both == {"base", "facts"}
<1> HIDE DEF current
<1>18. /\ stuck' \subseteq both /\ factsOld' \subseteq factsOld \cup current
       /\ \A x : x \in stuck /\ x # "facts" => x \in stuck'
       /\ \/ result = "left" /\ "facts" \in stuck'
          \/ result = "failed" /\ stuck' = stuck /\ (factsOld' = factsOld \/ factsOld' = factsOld \cup current)
          \/ result = "saved" /\ ~forget /\ stuck' = stuck /\ factsOld' = factsOld \cup current
          \/ result = "saved" /\ forget /\ factsOld' = {}
  <2> DEFINE stays == Stuck("facts", forget, result)
             backed == Backed(factsOld, current, forget, result)
  <2>1. stuck \subseteq both /\ "facts" \in both
    OBVIOUS
  <2>2. result = "left" => forget
    BY <1>2, Zenon
  <2> HIDE DEF both
  <2>3. /\ stays \subseteq both /\ backed \subseteq factsOld \cup current
        /\ \A x : x \in stuck /\ x # "facts" => x \in stays
        /\ \/ result = "left" /\ "facts" \in stays
           \/ result = "failed" /\ stays = stuck /\ (backed = factsOld \/ backed = factsOld \cup current)
           \/ result = "saved" /\ ~forget /\ stays = stuck /\ backed = factsOld \cup current
           \/ result = "saved" /\ forget /\ backed = {}
    BY <2>1, <2>2, SaveLeaves
  <2>4. stuck' = stays /\ factsOld' = backed
    BY <1>2, Zenon DEF current
  <2> HIDE DEF stays, backed
  <2> QED
    BY <2>3, <2>4, Zenon
<1>6. /\ "base" \in stuck => "base" \in stuck'
      /\ stuck' \subseteq {"base", "facts"} /\ factsOld' \subseteq factsOld \cup FactsIn(facts)
  BY <1>18 DEF current
<1>7. forgotten' \cap FactsIn(facts') = {} /\ unsaid' \cap FactsIn(facts') = {}
  <2>1. CASE result = "failed"
    BY <1>3, <1>4, <1>5, <2>1
  <2>2. CASE result # "failed"
    BY <1>3, <1>4, <1>5, <2>2
  <2> QED
    BY <2>1, <2>2
<1>8. "facts" \in stuck' \/ forgotten' \cap factsOld' = {}
  <2>1. CASE result = "failed" /\ stuck' = stuck /\ (factsOld' = factsOld \/ factsOld' = factsOld \cup current)
    BY <1>3, <1>5, <2>1 DEF current
  <2>2. CASE result = "saved" /\ ~forget /\ stuck' = stuck /\ factsOld' = factsOld \cup current
    BY <1>3, <1>5, <2>2 DEF current
  <2> QED
    BY <1>18, <2>1, <2>2
<1>9. talk.history \in SUBSET Facts /\ talk.rest \in SUBSET Facts
  OBVIOUS
<1>10. NewConversation(result) =>
         /\ talk' = [history |-> {}, rest |-> IF result = "failed" THEN talk.rest ELSE {}]
         /\ talk'.history = {} /\ talk'.rest = IF result = "failed" THEN talk.rest ELSE {}
  BY DEF NewConversation
<1>11. talk' \in [history : SUBSET Facts, rest : SUBSET Facts]
  BY <1>9, <1>10
<1>12. unsaid' \cap (talk'.history \cup talk'.rest) = {}
  <2>1. CASE NewConversation(result)
    BY <1>3, <1>5, <1>10, <2>1
  <2>2. CASE ~NewConversation(result)
    <3>1. left = {} /\ talk' = talk
      BY <2>2
    <3> QED
      BY <1>3, <1>5, <3>1
  <2> QED
    BY <2>1, <2>2
<1>13. FactsIn(facts)' = FactsIn(facts')
  BY DEF FactsIn
<1>14. ForgottenStaysForgotten'
  BY <1>1, <1>5, <1>6, <1>7, <1>8, <1>12, <1>13 DEF ForgottenStaysForgotten
<1>15. ImportsAreOfOneVersion'
  BY <1>1 DEF ImportsAreOfOneVersion
<1>16. FactsIn(facts') \cup factsOld' \cup forgotten' \cup unsaid' \subseteq Facts
  BY <1>3, <1>4, <1>6
<1>17. base' \in Seq(Entries) /\ baseOld' \cup gone' \subseteq Entries
       /\ clip' \in Passwords \cup {Nobody} /\ timers' \in Seq(Passwords)
  BY <1>1
<1> QED
  BY <1>4, <1>6, <1>7, <1>11, <1>14, <1>15, <1>16, <1>17, StoresPutTogether

LEMMA FactsChanges ==
  ASSUME StoresInv, NEW result \in SaveResults,
         RememberFact(result) \/ ForgetFacts(result) \/ ClearMemory(result)
  PROVE  StoresInv'
<1>1. WishInv /\ DOMAIN facts = FactKeys /\ FactsIn(facts) \subseteq Facts
  BY DEF StoresInv, StoresTypeOK, StoresHold
<1>2. Concluded /\ UNCHANGED folder /\ UNCHANGED <<clipboard, knowledge>>
  BY DEF RememberFact, ForgetFacts, ClearMemory, Agreed
<1>3. CASE RememberFact(result)
  <2>1. PICK fact \in wish.about :
          /\ SaveFacts([facts EXCEPT ![fact[1]] = fact[2]], FALSE, result)
          /\ IF Existing(fact[1]) # {} THEN NewConversation(result) ELSE UNCHANGED talk
          /\ TellsOfFacts(result, {}, Existing(fact[1]), {fact})
    BY <1>3 DEF RememberFact
  <2> DEFINE after == [facts EXCEPT ![fact[1]] = fact[2]]
             left == Existing(fact[1])
  <2>2. fact \in Facts /\ fact = <<fact[1], fact[2]>>
    BY <1>1, <1>3, StoresAssumption DEF RememberFact, Agreed, WishInv
  <2>3. DOMAIN after = FactKeys /\ \A k \in FactKeys : after[k] = IF k = fact[1] THEN fact[2] ELSE facts[k]
    BY <1>1
  <2>4. left \subseteq FactsIn(facts) /\ \A f \in left : f[1] = fact[1]
    BY DEF Existing
  <2>5. SaveFacts(after, FALSE, result) /\ TellsOfFacts(result, {}, left, {fact})
        /\ (UNCHANGED talk \/ NewConversation(result)) /\ (left # {} => NewConversation(result))
    BY <2>1
  <2> HIDE DEF after, left
  <2>6. FactsIn(after) \subseteq FactsIn(facts) \cup {fact}
    BY <2>2, <2>3 DEF FactsIn
  <2>7. left \cap FactsIn(after) \subseteq {fact}
    <3>1. ASSUME NEW f \in FactsIn(after), f[1] = fact[1] PROVE f = fact
      <4>1. PICK k \in FactKeys : f = <<k, after[k]>>
        BY <3>1 DEF FactsIn
      <4>2. k = fact[1] /\ after[k] = fact[2]
        BY <2>3, <3>1, <4>1
      <4> QED
        BY <2>2, <4>1, <4>2
    <3> QED
      BY <2>4, <3>1
  <2>8. /\ FactsIn(after) \subseteq Facts /\ FALSE \in BOOLEAN
        /\ {} \in SUBSET Facts /\ left \in SUBSET Facts /\ {fact} \in SUBSET Facts
        /\ {} \cap FactsIn(after) = {}
    BY <1>1, <2>2, <2>4, <2>6
  <2> QED
    BY <1>2, <2>3, <2>5, <2>6, <2>7, <2>8, FactsChanged
<1>4. CASE ForgetFacts(result)
  <2> DEFINE after == [k \in FactKeys |-> IF <<k, facts[k]>> \in wish.about THEN Nobody ELSE facts[k]]
             these == wish.about
  <2>1. /\ SaveFacts(after, TRUE, result) /\ NewConversation(result)
        /\ TellsOfFacts(result, these, these, {})
    BY <1>4 DEF ForgetFacts
  <2>2. these \in SUBSET Facts
    BY <1>1, <1>4 DEF ForgetFacts, Agreed, WishInv
  <2>3. DOMAIN after = FactKeys
        /\ \A k \in FactKeys : after[k] = IF <<k, facts[k]>> \in these THEN Nobody ELSE facts[k]
    OBVIOUS
  <2> HIDE DEF after, these
  <2>4. FactsIn(after) \subseteq FactsIn(facts) /\ these \cap FactsIn(after) = {}
    BY <2>3 DEF FactsIn
  <2>5. FactsIn(after) \subseteq Facts /\ TRUE \in BOOLEAN /\ {} \in SUBSET Facts
        /\ these \cap FactsIn(after) \subseteq {} /\ FactsIn(after) \subseteq FactsIn(facts) \cup {}
    BY <1>1, <2>4
  <2> QED
    BY <1>2, <2>1, <2>2, <2>3, <2>4, <2>5, FactsChanged
<1>5. CASE ClearMemory(result)
  <2> DEFINE after == [k \in FactKeys |-> Nobody]
             lost == FactsIn(facts)
  <2>1. /\ SaveFacts(after, TRUE, result) /\ UNCHANGED talk
        /\ TellsOfFacts(result, lost, {}, {})
    BY <1>5 DEF ClearMemory
  <2>2. DOMAIN after = FactKeys /\ \A k \in FactKeys : after[k] = Nobody
    OBVIOUS
  <2>3. lost \in SUBSET Facts
    BY <1>1
  <2> HIDE DEF after, lost
  <2>4. FactsIn(after) = {}
    BY <2>2 DEF FactsIn
  <2>5. /\ FactsIn(after) \subseteq Facts /\ TRUE \in BOOLEAN /\ {} \in SUBSET Facts
        /\ lost \cap FactsIn(after) = {} /\ {} \cap FactsIn(after) \subseteq {}
        /\ FactsIn(after) \subseteq FactsIn(facts) \cup {}
    BY <2>4
  <2> QED
    BY <1>2, <2>1, <2>2, <2>3, <2>5, FactsChanged
<1> QED
  BY <1>3, <1>4, <1>5

LEMMA ClipboardChanges ==
  ASSUME StoresInv, LendPassword \/ StoresWorld PROVE StoresInv'
<1> USE DEF StoresInv, StoresHold, StoresTypeOK
<1>1. CASE LendPassword
  <2>1. Concluded /\ UNCHANGED folder /\ UNCHANGED remembered
    BY <1>1 DEF LendPassword, Agreed
  <2>2. WishInv' /\ waits' = "no"
    BY <2>1, WishConcluded
  <2>3. clip' \in Passwords /\ timers' = Append(timers, clip')
    BY <1>1 DEF LendPassword, Agreed, WishInv
  <2>4. timers' \in Seq(Passwords)
    BY <2>3
  <2> QED
    BY <2>1, <2>2, <2>3, <2>4, NothingForgotten
<1>2. CASE StoresWorld
  <2>1. WishInv' /\ UNCHANGED waits /\ UNCHANGED remembered
    BY <1>2 DEF StoresWorld, FolderChanges, UserCopies, ClearClipboard, WishInv
  <2>2. DOMAIN folder' = FileNames /\ \A n \in FileNames : folder'[n] \in Versions[n] \cup {Away}
    BY <1>2 DEF StoresWorld, FolderChanges, UserCopies, ClearClipboard
  <2>3. clip' \in Passwords \cup {Nobody} /\ timers' \in Seq(Passwords)
    <3>1. CASE FolderChanges \/ UserCopies
      BY <3>1 DEF FolderChanges, UserCopies, clipboard
    <3>2. CASE ClearClipboard
      BY <3>2 DEF ClearClipboard
    <3> QED
      BY <1>2, <3>1, <3>2 DEF StoresWorld
  <2> QED
    BY <2>1, <2>2, <2>3, NothingForgotten
<1> QED
  BY <1>1, <1>2

LEMMA TalkTells ==
  ASSUME StoresInv, Talk PROVE StoresInv'
<1> USE DEF StoresInv, StoresHold, StoresTypeOK
<1>1. PICK told \in SUBSET FactsIn(facts) :
        talk' = [history |-> talk.history \cup told, rest |-> told]
  BY DEF Talk
<1>2. UNCHANGED <<folder, base, baseOld, facts, factsOld, forgotten, unsaid, stuck, gone,
                  clip, timers, wish, waits>>
  BY DEF Talk, knowledge, clipboard
<1>3. FactsIn(facts)' = FactsIn(facts) /\ ToSet(base)' = ToSet(base) /\ WishInv'
  BY <1>2 DEF FactsIn, ToSet, WishInv
<1>4. talk.history \in SUBSET Facts /\ FactsIn(facts) \subseteq Facts
  OBVIOUS
<1>5. talk' \in [history : SUBSET Facts, rest : SUBSET Facts]
  BY <1>1, <1>4
<1>6. talk'.history = talk.history \cup told /\ talk'.rest = told
  BY <1>1
<1>7. ForgottenStaysForgotten'
  BY <1>2, <1>3, <1>6 DEF ForgottenStaysForgotten
<1>8. ImportsAreOfOneVersion'
  BY <1>2 DEF ImportsAreOfOneVersion
<1> QED
  BY <1>2, <1>3, <1>5, <1>7, <1>8

LEMMA StoresGoOnSound == StoresInv /\ [StoresNext]_stores => StoresInv'
<1> SUFFICES ASSUME StoresInv, [StoresNext]_stores PROVE StoresInv'
  OBVIOUS
<1>1. CASE KnowledgeTurn \/ MemoryTurn \/ PasswordTurn
  BY <1>1, TurnsAsk, TalkTells
<1>2. CASE StoresStep
  <2>1. CASE ReadFile
    BY <2>1, ReadingGoesOn
  <2>2. CASE PlanReady \/ NotDone \/ ResetFails
    BY <2>2, PlansEnd
  <2>3. CASE LendPassword
    BY <2>3, ClipboardChanges
  <2>4. ASSUME NEW r \in SaveResults, Change(r) PROVE StoresInv'
    BY <2>4, EntriesChange, FactsChanges DEF Change
  <2> QED
    BY <1>2, <2>1, <2>2, <2>3, <2>4 DEF StoresStep
<1>3. CASE StoresWorld
  BY <1>3, ClipboardChanges
<1>4. CASE UNCHANGED stores
  <2>1. UNCHANGED remembered /\ UNCHANGED <<folder, wish, waits, clip, timers>>
    BY <1>4 DEF stores, clipboard
  <2>2. WishInv'
    BY <2>1 DEF StoresInv, StoresHold, WishInv
  <2> QED
    BY <2>1, <2>2, NothingForgotten DEF StoresInv, StoresTypeOK
<1> QED
  BY <1>1, <1>2, <1>3, <1>4 DEF StoresNext

\* No other skill touches the stores.
LEMMA StoresByItself == [Next]_vars => [StoresNext]_stores
BY DEF Next, WorkplaceTurn, WorkplaceStep, Cut, SearchTurn, SearchStep, WebTask, WebGoesOn, PentestTask,
       PentestGoesOn, StoresTask, StoresGoOn, TimerFires, UserActs, Close, CloseScan, Show, Press,
       TypeCancel, Local, vars, StoresNext, StoresWorld

\* A program that is launched is one of the approved plan of this very task, found unchanged,
\* before any cancellation, once, and none that an earlier attempt had verified (run, followup,
\* _approve).
THEOREM LaunchesAreApproved == Spec => []LaunchesWereApproved
<1>1. WorkInv => LaunchesWereApproved
  <2> SUFFICES ASSUME WorkInv, Busy, NEW l \in launched
               PROVE  /\ l.step \in 1..Len(agreed) /\ agreed[l.step] = l.target /\ ~l.late
                      /\ task.steps[l.step].name \notin spared
                      /\ \A m \in launched : m.target.path = l.target.path => m = l
    BY DEF LaunchesWereApproved
  <2>1. Carrying /\ agreed = plan /\ Len(plan) = Count /\ Count \in 1..3
    BY DEF WorkInv, TaskInv, PlanInv, LaunchInv, Carrying
  <2>2. PICK p \in 1..Count : CarryingOut(p)
    BY <2>1 DEF WorkInv, LaunchInv
  <2>3. \A m \in launched : /\ m.step \in 1..Count
                            /\ m = [step |-> m.step, target |-> plan[m.step], late |-> FALSE]
    BY <2>1, <2>2 DEF CarryingOut
  <2>4. ASSUME NEW m \in launched PROVE m.target = plan[m.step] /\ m.late = FALSE
    BY <2>3
  <2>5. ASSUME NEW m \in launched, m.target.path = l.target.path PROVE m = l
    <3>1. m.step = l.step
      BY <2>1, <2>3, <2>4, <2>5 DEF WorkInv, PlanInv
    <3> QED
      BY <2>3, <3>1
  <2> QED
    BY <2>1, <2>3, <2>4, <2>5 DEF WorkInv, TaskInv
<1> QED
  BY WorkStarts, WorkGoesOn, <1>1, PTL DEF Spec

\* What is started on the user's computer, or asked of another, was approved by the user, in
\* whatever order the tasks of a session come and end.
THEOREM RunsAreApproved == Spec => []OnlyApprovedRuns
<1>1. Init => ApprovalHolds
  BY InitApproved DEF Init
<1>2. ApprovalHolds => ScansWereApproved
  BY DEF ApprovalHolds
<1>3. Spec => []ScansWereApproved
  BY <1>1, <1>2, ScansGoOn, PTL DEF Spec
<1> QED
  BY <1>3, LaunchesAreApproved, PTL DEF OnlyApprovedRuns

\* What is cancelled was meant to be: a button pressed for a task that has ended meanwhile does
\* not reach the next one (core/task_progress.py, cancel, cancel_search).
THEOREM CancellationsMeetTheirTask == Spec => []CancelMeetsItsTask
<1>1. Init => CancelInv
  BY TaskAssumption DEF Init, WorkplaceInit, SearchInit, CancelInv, CancelMeetsItsTask, WalkInv,
     Busy, Awaits
<1>2. CancelInv => CancelMeetsItsTask
  BY DEF CancelInv
<1> QED
  BY WorkStarts, WorkGoesOn, CancelGoesOn, <1>1, <1>2, PTL DEF Spec

LEMMA WorkTellsTheTruth == WorkInv => StepsTellTheTruth
<1> SUFFICES ASSUME WorkInv, task # None PROVE StepsTellTheTruth
  BY DEF StepsTellTheTruth
<1>1. CASE ~Busy
  BY <1>1 DEF WorkInv, ToldInv, StepsTellTheTruth
<1>2. CASE Busy /\ ~Carrying
  BY <1>2 DEF WorkInv, TaskInv, LaunchInv, StepsTellTheTruth
<1>3. CASE Busy /\ Carrying
  <2>1. PICK p \in 1..Count : CarryingOut(p)
    BY <1>3 DEF WorkInv, LaunchInv
  <2>2. Count \in 1..3 /\ task.status # "completed"
    BY <1>3 DEF WorkInv, TaskInv
  <2>3. ASSUME NEW l \in launched
        PROVE  task.steps[l.step].status \in {"verifying", "verified", "unknown"}
    BY <2>1, <2>2 DEF CarryingOut
  <2> QED
    BY <1>3, <2>2, <2>3 DEF StepsTellTheTruth
<1> QED
  BY <1>1, <1>2, <1>3

\* What a task reports of its steps is what was done, at each of its awaits and when it has
\* ended in whatever way (run, _finish).
THEOREM ReportsAreTrue == Spec => []StepsTellTheTruth
BY WorkStarts, WorkGoesOn, WorkTellsTheTruth, PTL DEF Spec

(***************************************************************************)
(* What the pages of a walk hand out is each matching file once and none   *)
(* left out but what could not be read, over any number of requests, full  *)
(* pages, spent budgets, and whatever shutdown and cancellation cut off    *)
(* (services/files/file_service.py).                                       *)
(***************************************************************************)
THEOREM PagesOfAWalk == Spec => []PagesAreWhole
<1>1. SearchTypes /\ HandedInv => PagesAreWhole
  <2> SUFFICES ASSUME SearchTypes, HandedInv PROVE PagesAreWhole
    OBVIOUS
  <2>1. IsInjective(given)
    BY PrefixInjective DEF SearchTypes, HandedInv, Handed
  <2>2. searching = "no" => Handed = given
    BY DEF Handed
  <2> QED
    BY <2>1, <2>2 DEF HandedInv, PagesAreWhole
<1>2. Init => CancelInv
  BY TaskAssumption DEF Init, WorkplaceInit, SearchInit, CancelInv, CancelMeetsItsTask, WalkInv,
     Busy, Awaits
<1> QED
  BY WorkStarts, WorkGoesOn, CancelGoesOn, SearchStarts, SearchGoesOn, <1>1, <1>2, PTL DEF Spec

\* What the user is told was read has been read, each page once and in the order of the search,
\* whatever the web, the time limits and the second try do (answers.py).
THEOREM AnswersStandOnSources == Spec => []AnswersAreSound
<1>1. Init => WebCore
  BY WebStarts DEF Init
<1>2. WebCore /\ [Next]_vars => WebCore'
  BY WebByItself, WebGoesOnSound
<1>3. WebCore => AnswersAreSound
  BY CoreIsSound DEF WebInv
<1> QED
  BY <1>1, <1>2, <1>3, PTL DEF Spec

\* During a second try the first answer gives way to a better one only (_fill_gaps).
THEOREM TheFirstAnswerStands == Spec => FirstAnswerStands
<1>1. Init => WebCore
  BY WebStarts DEF Init
<1>2. WebCore /\ [Next]_vars => WebCore'
  BY WebByItself, WebGoesOnSound
<1>3. WebCore /\ [Next]_vars =>
        [pass = 2 /\ look # "idle" /\ service'[1] # service[1] =>
           /\ Grounded(service'[1].last) /\ service'[1].query = service[1].query
           /\ service'[1].last.coverage = "complete" \/ ~Grounded(service[1].last)]_<<web, answers>>
  BY WebByItself, FirstStays
<1> QED
  BY <1>1, <1>2, <1>3, PTL DEF Spec, FirstAnswerStands

\* What the user was told is removed or forgotten is out of the file, of its backups unless one of
\* them could not be removed, and of the conversation, whatever the user agreed to and whichever
\* save failed: each change forgets what its reply says (storage/knowledge_store.py:97,
\* personal.py:96).
THEOREM MemoriesAreSound == Spec => []ForgottenStaysForgotten
<1>1. Init => StoresInv
  BY StoresStarts DEF Init
<1>2. StoresInv /\ [Next]_vars => StoresInv'
  BY StoresByItself, StoresGoOnSound
<1>3. StoresInv => ForgottenStaysForgotten
  BY DEF StoresInv, StoresHold
<1> QED
  BY <1>1, <1>2, <1>3, PTL DEF Spec

\* What a search hands out is whole, and so is what the base has of a file, however the folder
\* and the base changed before; and what the user was told is forgotten is gone
\* (skills/memory/knowledge_import.py, knowledge.py, personal.py).
THEOREM WholeDataOnly == Spec => []DataIsWhole
<1>1. Init => StoresInv
  BY StoresStarts DEF Init
<1>2. StoresInv /\ [Next]_vars => StoresInv'
  BY StoresByItself, StoresGoOnSound
<1>3. StoresInv => ImportsAreOfOneVersion
  BY DEF StoresInv, StoresHold
<1>4. Spec => []ImportsAreOfOneVersion
  BY <1>1, <1>2, <1>3, PTL DEF Spec
<1> QED
  BY <1>4, PagesOfAWalk, MemoriesAreSound, PTL DEF DataIsWhole

\* All of it together, for any lists of programs and files, any web, network and folder: what is
\* where in a session, which task is whose, and what each of them may still rely on.
THEOREM SessionsHold == Spec => []Inv
<1> DEFINE All == WorkInv /\ CancelInv /\ TaskTypes /\ HandedInv /\ ScanHolds /\ WebCore /\ StoresInv
<1>1. Init => All
  <2> SUFFICES ASSUME Init PROVE All
    OBVIOUS
  <2>1. CancelInv
    BY TaskAssumption DEF Init, WorkplaceInit, SearchInit, CancelInv, CancelMeetsItsTask, WalkInv,
       Busy, Awaits
  <2>2. ScanHolds /\ WebCore /\ StoresInv
    BY InitScanHolds, WebStarts, StoresStarts DEF Init
  <2>3. WorkTypes
    BY DEF Init, WorkplaceInit, WorkTypes, TaskTyped, Count, Busy, Awaits
  <2> QED
    BY <2>1, <2>2, <2>3, WorkStarts, SearchStarts DEF TaskTypes
<1>2. All /\ [Next]_vars => All'
  <2> SUFFICES ASSUME All, [Next]_vars PROVE All'
    OBVIOUS
  <2>1. WorkInv' /\ CancelInv' /\ TaskTypes' /\ HandedInv'
    BY WorkGoesOn, CancelGoesOn, WorkTyped, SearchGoesOn DEF TaskTypes
  <2>2. ScanHolds' /\ WebCore' /\ StoresInv'
    BY PentestByItself, ScanHoldsStep, WebByItself, WebGoesOnSound, StoresByItself, StoresGoOnSound
  <2> QED
    BY <2>1, <2>2
<1>3. All => Inv
  <2> SUFFICES ASSUME All PROVE Inv
    OBVIOUS
  <2>1. TypeOK /\ CancelMeetsItsTask /\ WalkInv
    BY TypesOfTasks DEF CancelInv
  <2>2. WebInv /\ StoresTypeOK /\ StoresHold
    BY CoreIsSound DEF StoresInv
  <2>3. StepsTellTheTruth
    BY WorkTellsTheTruth
  <2> QED
    BY <2>1, <2>2, <2>3 DEF Inv
<1> HIDE DEF All
<1> QED
  BY <1>1, <1>2, <1>3, PTL DEF Spec

==============================================================================
