---------------------------- MODULE SingleInstance ----------------------------
(***************************************************************************)
(* The lock file that admits one instance of the program                   *)
(* (core/single_instance.py; main.py takes it before anything else and     *)
(* gives it back last).  Each process is one launch of the program.  The   *)
(* steps of a launch are its calls of the operating system: anything may   *)
(* happen between two of them.  Windows refuses to remove a file that a    *)
(* process holds open, Linux removes it.                                   *)
(***************************************************************************)
EXTENDS Integers, FiniteSets

CONSTANTS Processes,
          Gone,     \* a process of long ago that left its lock behind
          Windows,  \* the operating system
          Attempts  \* _ACQUIRE_ATTEMPTS

NoLock == "absent"

ASSUME SingleInstanceAssumption ==
  /\ Gone \notin Processes /\ NoLock \notin Processes \cup {Gone}
  /\ Windows \in BOOLEAN /\ Attempts \in Nat \ {0}

VARIABLES
  pc,     \* the next step of each process
  tries,  \* the attempts it has left
  lock,   \* the process that made the lock file, if there is one
  full,   \* whether its owner is written in it (means nothing if there is none)
  recent, \* whether it was written less than _RECENT_INCOMPLETE_LOCK_SECONDS ago
  open,   \* the processes that hold the file they made open
  alone   \* the processes that were the only one since they were started

lockVars == <<pc, tries, lock, full, recent, open, alone>>
lockFile == <<lock, full, recent, open>>

Acquiring == {"open", "check", "age", "unlink", "write", "drop"}
Releasing == {"token", "remove"}
Ended == {"off", "refused", "exited", "dead"}

Alive == {p \in Processes : pc[p] \notin Ended}
Running == {p \in Processes : pc[p] = "running"}

LockInit ==
  /\ pc = [p \in Processes |-> "off"] /\ tries = [p \in Processes |-> 0]
  /\ lock \in {NoLock, Gone} /\ full \in {FALSE, lock = Gone} /\ recent = FALSE
  /\ open = {} /\ alone = {}

Go(p, place) == pc' = [pc EXCEPT ![p] = place]

Start(p) ==
  /\ pc[p] = "off"
  /\ Go(p, "open") /\ tries' = [tries EXCEPT ![p] = Attempts]
  /\ alone' = IF Alive = {} THEN {p} ELSE {}
  /\ UNCHANGED lockFile

(***************************************************************************)
(* acquire                                                                 *)
(***************************************************************************)
Make(p) ==
  /\ pc[p] = "open"
  /\ \/ /\ tries[p] = 0 /\ Go(p, "refused")
        /\ UNCHANGED <<tries, lockFile>>
     \/ /\ tries[p] > 0 /\ lock # NoLock
        /\ Go(p, "check") /\ tries' = [tries EXCEPT ![p] = @ - 1]
        /\ UNCHANGED lockFile
     \/ /\ tries[p] > 0 /\ lock = NoLock
        /\ Go(p, "write") /\ tries' = [tries EXCEPT ![p] = @ - 1]
        /\ lock' = p /\ full' = FALSE /\ recent' = TRUE /\ open' = open \cup {p}
  /\ UNCHANGED alone

\* _lock_owner_is_running: an owner that can be read counts if it runs, otherwise the age
\* of the file counts.
OwnerWritten == lock # NoLock /\ full

Check(p) ==
  /\ pc[p] = "check"
  /\ Go(p, IF ~OwnerWritten THEN "age" ELSE IF lock \in Alive THEN "refused" ELSE "unlink")
  /\ UNCHANGED <<tries, lockFile, alone>>

Age_Unlimited(p) ==
  /\ pc[p] = "age"
  /\ Go(p, IF lock # NoLock THEN "refused" ELSE "unlink")
  /\ UNCHANGED <<tries, lockFile, alone>>
Age(p) ==
  /\ pc[p] = "age"
  /\ Go(p, IF lock # NoLock /\ recent THEN "refused" ELSE "unlink")
  /\ UNCHANGED <<tries, lockFile, alone>>

Removable == ~Windows \/ lock \notin open

Unlink(p) ==
  /\ pc[p] = "unlink"
  /\ \/ /\ Removable
        /\ Go(p, "open") /\ lock' = NoLock
        /\ UNCHANGED <<full, recent, open>>
     \/ /\ ~Removable
        /\ Go(p, "refused")
        /\ UNCHANGED lockFile
  /\ UNCHANGED <<tries, alone>>

Write_Closing(p) ==
  /\ pc[p] = "write" /\ open' = open \ {p}
  /\ \/ /\ Go(p, "running")
        /\ full' = (full \/ lock = p) /\ recent' = (recent \/ lock = p)
     \/ Go(p, "drop") /\ UNCHANGED <<full, recent>>
  /\ UNCHANGED <<tries, lock, alone>>

\* What is written goes to the file that was made, also when that was removed meanwhile.
Write(p) ==
  /\ pc[p] = "write"
  /\ \/ /\ Go(p, "running")
        /\ full' = (full \/ lock = p) /\ recent' = (recent \/ lock = p)
        /\ UNCHANGED <<lock, open>>
     \/ /\ Go(p, "drop") /\ open' = open \ {p}
        /\ UNCHANGED <<lock, full, recent>>
  /\ UNCHANGED <<tries, alone>>

(***************************************************************************)
(* release                                                                 *)
(***************************************************************************)
Release(p) ==
  /\ pc[p] = "running"
  /\ Go(p, "token") /\ open' = open \ {p}
  /\ UNCHANGED <<tries, lock, full, recent, alone>>

Token(p) ==
  /\ pc[p] = "token"
  /\ Go(p, IF OwnerWritten /\ lock = p THEN "remove" ELSE "exited")
  /\ UNCHANGED <<tries, lockFile, alone>>

TakeAway(p) ==
  /\ pc[p] \in {"drop", "remove"}
  /\ Go(p, "exited")
  /\ lock' = IF Removable THEN NoLock ELSE lock
  /\ UNCHANGED <<tries, full, recent, open, alone>>

(***************************************************************************)
(* The program is killed; time passes.                                     *)
(***************************************************************************)
Crash(p) ==
  /\ pc[p] \notin Ended
  /\ Go(p, "dead") /\ open' = open \ {p}
  /\ UNCHANGED <<tries, lock, full, recent, alone>>

Pass ==
  /\ recent /\ recent' = FALSE
  /\ UNCHANGED <<pc, tries, lock, full, open, alone>>

Step(p) ==
  \/ Start(p) \/ Make(p) \/ Check(p) \/ Age(p) \/ Unlink(p) \/ Write(p)
  \/ Release(p) \/ Token(p) \/ TakeAway(p) \/ Crash(p)

LockNext == Pass \/ \E p \in Processes : Step(p)

LockSpec == LockInit /\ [][LockNext]_lockVars

-----------------------------------------------------------------------------
(***************************************************************************)
(* Properties.                                                             *)
(***************************************************************************)
\* Every variable has its type.
LockTypeOK ==
  /\ pc \in [Processes -> Acquiring \cup Releasing \cup Ended \cup {"running"}]
  /\ tries \in [Processes -> 0..Attempts]
  /\ lock \in Processes \cup {NoLock, Gone} /\ full \in BOOLEAN /\ recent \in BOOLEAN
  /\ open \subseteq Processes /\ alone \subseteq Processes

\* At most one instance of the program runs (docs/CONFIGURATION.md:191), whatever the order
\* in which launches look at, remove and make the lock file.
OneInstance == \A p, q \in Running : p = q

\* What the exclusion rests on: the file on the disk is the one that the process which
\* makes it or runs holds open, and it is never removed before it is given back.
HolderOwnsLock ==
  /\ \A p \in Processes : p \in open <=> pc[p] \in {"write", "running"}
  /\ \A p \in open : lock = p
  /\ \A p \in Running : full

\* The inductive invariant behind OneInstance (see FileProofs).
LockIInv == LockTypeOK /\ HolderOwnsLock

\* The exclusion and what it rests on.
LockInv == LockIInv /\ OneInstance

\* A launch beside which no other process ran is refused only for the seconds in which a
\* lock that nobody has written to may still be written (acquire, _lock_is_recent): what
\* a crash leaves behind does not keep the program from starting again.
AloneGetsIn ==
  [][ \A p \in alone : pc[p] # "refused" /\ pc'[p] = "refused" => recent /\ ~full ]_lockVars
=============================================================================
