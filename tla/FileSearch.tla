----------------------------- MODULE FileSearch -----------------------------
(***************************************************************************)
(* The file search (services/files/file_service.py): a walk over the files *)
(* whose position is kept between requests, so that the same request goes  *)
(* on where the last one ran out of time or found enough; cancelled by id, *)
(* closed at shutdown.  A search runs in a thread under the lock _lock;    *)
(* cancellation and close come from the event loop.  One action is one     *)
(* section under _progress_lock, or one file.  A file is its place in the  *)
(* walk.                                                                   *)
(***************************************************************************)
EXTENDS TaskProgress, FiniteSets, Sequences, SequencesExt

CONSTANTS Files,     \* the number of files below the roots
          Requests,  \* what may be searched for
          Dated,     \* the requests with a time limit, which the skill computes anew
          Wanted(_), \* the files that match a request
          Limit      \* the limit of a request

ASSUME SearchAssumption ==
  /\ Files \in Nat /\ Limit \in Nat \ {0} /\ Dated \subseteq Requests
  /\ \A r \in Requests : Wanted(r) \subseteq 1..Files

VARIABLES
  searching, \* where the thread is: "no", "walking", "settled" (the lock is held)
  search,    \* _progress, with _cancel_search
  asked,     \* history: the request
  key,       \* _query
  cursor,    \* _cursor: the files the walk has passed, or None
  page,      \* result
  recent,    \* less than five minutes since _expires was set
  stopped,   \* _stopped
  given,     \* history: the files handed out since the walk began, in order
  skipped    \* history: the matching files that could not be read

searches == <<searching, search, asked, key, cursor, page, recent, stopped, given, skipped>>

Stages == {"searching", "cancelling", "cancelled", "completed", "partial", "failed"}
Keys == Requests \X (0..MaxTasks)

SearchInit ==
  /\ searching = "no" /\ search = None /\ asked = None /\ key = None /\ cursor = None
  /\ page = <<>> /\ recent = FALSE /\ stopped = FALSE /\ given = <<>> /\ skipped = {}

\* datetime.now() is part of a dated request, so that no two of them are the same.
Key(request) == <<request, IF request \in Dated THEN issued' ELSE 0>>

\* Whether the walk goes on where it stands.
Resumes(request) == Key(request) = key /\ cursor # None /\ recent

BeginSearch(request) ==
  /\ searching = "no" /\ ~stopped /\ NewId
  /\ searching' = "walking" /\ asked' = request /\ page' = <<>>
  /\ search' = [id |-> issued', active |-> TRUE, stage |-> "searching", cancel |-> FALSE]
  /\ IF Resumes(request) THEN UNCHANGED <<key, cursor, given, skipped>>
     ELSE key' = Key(request) /\ cursor' = 0 /\ given' = <<>> /\ skipped' = {}
  /\ UNCHANGED <<recent, stopped>>

\* The loop's condition holds and the next file is taken; it may be unreadable.
Look(readable) ==
  /\ searching = "walking" /\ ~stopped /\ ~search.cancel /\ Len(page) < Limit
  /\ cursor < Files
  /\ cursor' = cursor + 1
  /\ LET hit == cursor' \in Wanted(asked)
     IN /\ page' = IF hit /\ readable THEN Append(page, cursor') ELSE page
        /\ skipped' = IF hit /\ ~readable THEN skipped \cup {cursor'} ELSE skipped
  /\ UNCHANGED <<searching, search, asked, key, recent, stopped, given>> /\ NoNewId

\* A cancelled search, or one that shutdown has met, hands out nothing.
Dropped == search.cancel \/ stopped

\* The last section under _progress_lock.
Settle(complete) ==
  /\ searching' = "settled"
  /\ search' = [search EXCEPT !.active = FALSE,
                  !.stage = IF Dropped THEN "cancelled" ELSE IF complete THEN "completed" ELSE "partial"]
  /\ cursor' = IF Dropped \/ complete THEN None ELSE cursor
  /\ page' = IF Dropped THEN <<>> ELSE page
  /\ UNCHANGED <<asked, key, recent, stopped, given, skipped>> /\ NoNewId

\* The next file is asked for and there is none.
WalkEnds ==
  /\ searching = "walking" /\ ~stopped /\ ~search.cancel /\ Len(page) < Limit
  /\ cursor = Files
  /\ Settle(TRUE)

\* The page is full, the budget is spent, or the search is cancelled.
BreakOff == searching = "walking" /\ Settle(FALSE)

\* An error ends the search: the position is lost.
SearchFails ==
  /\ searching = "walking"
  /\ searching' = "no" /\ search' = [search EXCEPT !.active = FALSE, !.stage = "failed"]
  /\ cursor' = None /\ page' = <<>>
  /\ UNCHANGED <<asked, key, recent, stopped, given, skipped>> /\ NoNewId

\* The lock is released and the page returned.
Return ==
  /\ searching = "settled"
  /\ searching' = "no" /\ recent' = TRUE /\ given' = given \o page
  /\ UNCHANGED <<search, asked, key, cursor, page, stopped, skipped>> /\ NoNewId

CancelSearch(id) ==
  /\ search # None /\ search.active /\ NamesTask(id, search.id)
  /\ search' = [search EXCEPT !.cancel = TRUE, !.stage = "cancelling"]
  /\ UNCHANGED <<searching, asked, key, cursor, page, recent, stopped, given, skipped, issued>>

\* close, which never waits for the lock.
CloseFiles ==
  /\ ~stopped /\ stopped' = TRUE
  /\ cursor' = IF searching = "no" THEN None ELSE cursor
  /\ UNCHANGED <<searching, search, asked, key, page, recent, given, skipped>> /\ NoNewId

\* Five minutes pass.
SearchAges ==
  /\ searching = "no" /\ recent /\ recent' = FALSE
  /\ UNCHANGED <<searching, search, asked, key, cursor, page, stopped, given, skipped>> /\ NoNewId

SearchProgress ==
  (\E r \in BOOLEAN : Look(r)) \/ WalkEnds \/ BreakOff \/ SearchFails \/ Return
SearchNext ==
  (\E r \in Requests : BeginSearch(r)) \/ SearchProgress \/ CloseFiles \/ SearchAges
=============================================================================
