----------------------------- MODULE WebAnswers -----------------------------
(***************************************************************************)
(* Questions to the web (skills/web/skill.py, services/web/answers.py): a  *)
(* search, the best pages read in batches within a budget, a summary that  *)
(* may cite those pages only, and, if it leaves gaps, a second try in a    *)
(* service of its own, so that the first answer stands until a better one  *)
(* is there.  The sources are kept for five minutes for questions about    *)
(* them.  One action is what runs between two awaits.                      *)
(***************************************************************************)
EXTENDS WebReader

CONSTANTS Queries,  \* what is asked for
          Unsafe,   \* the queries with secrets or local paths
          Lookups,  \* the queries for a link: "official site"
          Results,  \* what a search may find, after clean_results: distinct addresses by rank
          Citations \* which sources the model may cite, whether they exist or not

ASSUME AnswersAssumption ==
  /\ Unsafe \subseteq Queries /\ Lookups \subseteq Queries
  /\ \A r \in Results : r \in Seq(Urls) /\ Len(r) <= 5 /\ IsInjective(r)

VARIABLES
  look,     \* the await: "idle", "searching", "reading", "summing"
  pass,     \* whose answer(): 1 the service, 2 the candidate of _fill_gaps
  service,  \* the state of the service and of the candidate
  live,     \* clock() < expires, of the service
  queue,    \* candidates
  tried,    \* attempted
  about,    \* history: the question of this turn, or of the last
  followup  \* the question is about the sources that are kept

answers == <<look, pass, service, live, queue, tried, about, followup>>

Begun(query, attempted, last) ==
  [query |-> query, sources |-> <<>>, attempted |-> attempted, last |-> last]
Cleared == Begun(Nothing, {}, Nothing)
Answer(status, coverage, links, cited) ==
  [status |-> status, coverage |-> coverage, links |-> links, cited |-> cited]
Bare(status) == Answer(status, "unassessed", <<>>, {})
Grounded(answer) == answer.status \in {"answered", "partial_answer"}

AnswersInit ==
  /\ look = "idle" /\ pass = 1 /\ service = <<Cleared, Cleared>> /\ live = FALSE
  /\ queue = <<>> /\ tried = 0 /\ about = Nothing /\ followup = FALSE

Over == look' = "idle" /\ reads' = <<>> /\ queue' = <<>> /\ tried' = 0
\* The candidate is given up, and the first answer returned.
Stands == Over /\ service' = [service EXCEPT ![2] = Cleared]
Remember(p, answer) == service' = [service EXCEPT ![p].last = answer]

-----------------------------------------------------------------------------
(* The search of the skill, and its second one *)

\* search_web: whatever comes of the search, the earlier one is over.
Ask(q) ==
  /\ look = "idle" /\ service' = [service EXCEPT ![1] = Cleared] /\ live' = FALSE
  /\ about' = q /\ followup' = FALSE /\ pass' = 1
  /\ IF q \in Unsafe THEN UNCHANGED <<look, finder>> ELSE look' = "searching" /\ StartFinder
  /\ UNCHANGED <<site, reads, queue, tried>>

\* remember_lookup
RememberLookup(status) ==
  /\ service' = [service EXCEPT ![1] = Begun(about, {}, Bare(status))]
  /\ live' = TRUE /\ Over

\* The addresses that the second try leaves alone, whatever they redirect to.
Old == service[1].attempted \cup {Canon[u] : u \in ToSet(service[1].sources)}
Excluded == IF pass = 2 THEN Old ELSE {}

\* The next batch: as many candidates as sources are still wanted, three at most; those
\* that are old are passed over, the others are attempted.
Batch(rows, from, have) ==
  {i \in DOMAIN rows : from < i /\ i <= from + 3 - have}
Attempts(rows, batch) == {Canon[rows[i]] : i \in batch} \ Excluded
StartBatch(rows, batch) ==
  /\ look' = "reading" /\ tried' = CHOOSE i \in batch : \A j \in batch : j <= i
  /\ reads' = [i \in batch |-> IF Canon[rows[i]] \in Excluded THEN Skipped ELSE Page(rows[i])]

\* The rows at some places, in their order.
InOrder(rows, places) ==
  LET order == CHOOSE o \in [1..Cardinality(places) -> places] :
                 \A i, j \in DOMAIN o : i < j => o[i] < o[j]
  IN [i \in 1..Cardinality(places) |-> rows[order[i]]]

BeginAnswer(rows) ==
  /\ queue' = rows /\ StartBatch(rows, Batch(rows, 0, 0))
  /\ service' = [service EXCEPT ![pass] =
                    Begun(about, Attempts(rows, Batch(rows, 0, 0)), Nothing)]
  /\ live' = (pass = 1 \/ live)

SearchFinds(rows) ==
  /\ look = "searching" /\ FinderAnswers
  /\ IF pass = 1
     THEN IF rows = <<>> \/ about \in Lookups
          THEN RememberLookup(IF about \in Lookups THEN "resources_found" ELSE "pages_unavailable")
          ELSE BeginAnswer(rows)
     ELSE LET new == {i \in DOMAIN rows : Canon[rows[i]] \notin Old}
          IN IF new = {} THEN Stands /\ UNCHANGED live ELSE BeginAnswer(InOrder(rows, new))
  /\ UNCHANGED <<site, pass, about, followup>>

\* An error: the lookup has failed, or the first answer stands.
SearchGivesUp ==
  /\ look = "searching" /\ (FinderAnswers \/ FinderReaped)
  /\ IF pass = 1 THEN RememberLookup("search_failed") ELSE Stands /\ UNCHANGED live
  /\ UNCHANGED <<site, pass, about, followup>>

SearchTimesOut ==
  /\ look = "searching" /\ KillFinder /\ UNCHANGED <<site, reads>> /\ UNCHANGED answers

\* _fill_gaps asks again; a question whose words the gaps do not touch is not refined.
TryAgain ==
  /\ look' = "searching" /\ pass' = 2 /\ StartFinder
  /\ reads' = <<>> /\ queue' = <<>> /\ tried' = 0

-----------------------------------------------------------------------------
(* Reading *)

ReadOn == /\ look = "reading" /\ (\E i \in Pending : Exchange(i) \/ PageTimesOut(i))
          /\ UNCHANGED <<site, finder>> /\ UNCHANGED answers

Usable_RedirectedAnywhere(url, sources) == url \in Urls /\ url \notin ToSet(sources)
\* A page that has been read is taken once, however it was reached, and not if it is old.
Usable(url, sources) ==
  url \in Urls /\ url \notin ToSet(sources) /\ Canon[url] \notin Excluded

Take(sources, i) ==
  IF i \in DOMAIN reads /\ Usable(reads[i].end, sources) THEN Append(sources, reads[i].end)
  ELSE sources

\* The sources with the pages of a batch (three at most, the one tried last being its end),
\* in the order of the search and not in that in which they came.
WithPages(sources) == Take(Take(Take(sources, tried - 2), tried - 1), tried)

\* Every page of the batch has come to an end, or the twelve seconds are up (late).
BatchEnds(late) ==
  /\ look = "reading" /\ (late \/ Pending = {})
  /\ LET sources == WithPages(service[pass].sources)
         batch == Batch(queue, tried, Len(sources))
         more == ~late /\ batch # {}
     IN \/ /\ more /\ StartBatch(queue, batch)
           /\ service' = [service EXCEPT ![pass].sources = sources,
                                         ![pass].attempted = @ \cup Attempts(queue, batch)]
           /\ UNCHANGED <<finder, pass, queue>>
        \/ /\ ~more /\ sources # <<>> /\ look' = "summing"
           /\ service' = [service EXCEPT ![pass].sources = sources]
           /\ reads' = <<>> /\ UNCHANGED <<finder, pass, queue, tried>>
        \/ /\ ~more /\ sources = <<>>
           /\ IF pass = 1 THEN Remember(1, Bare("pages_unavailable")) /\ TryAgain
              ELSE Stands /\ UNCHANGED <<finder, pass>>
  /\ UNCHANGED <<site, live, about, followup>>

-----------------------------------------------------------------------------
(* The summary *)

Summaries == [coverage : {"complete", "partial", "insufficient", "unassessed"},
              cited : Citations, missing : BOOLEAN]

\* parse_summary: the citations exist, and the assessment agrees with the rest.
Valid(s, sources) ==
  /\ s.cited \subseteq DOMAIN sources
  /\ s.coverage = "complete" => s.cited # {} /\ ~s.missing
  /\ s.coverage = "partial" => s.cited # {} /\ s.missing
  /\ s.coverage = "insufficient" => s.cited = {} /\ s.missing

\* The request has failed, or what it brought is rejected: there is no coverage then.
NoSummary(sources) == Answer("insufficient_answer", "unassessed", sources, {})
Summarized(s, sources) ==
  IF ~Valid(s, sources) THEN NoSummary(sources)
  ELSE Answer(IF s.cited = {} THEN "insufficient_answer"
              ELSE IF s.coverage = "partial" THEN "partial_answer" ELSE "answered",
              s.coverage, sources, s.cited)

Better_AnyGrounded(improved, first) == Grounded(improved)
Better(improved, first) ==
  Grounded(improved) /\ (improved.coverage = "complete" \/ ~Grounded(first))

\* The candidate's answer takes the place of the first, with the pages it cites.
Adopt(improved) ==
  IF Better(improved, service[1].last)
  THEN /\ service' = <<[service[1] EXCEPT !.sources = service[2].sources, !.last = improved], Cleared>>
       /\ Over
  ELSE Stands

Summary ==
  /\ look = "summing"
  /\ \E answer \in {NoSummary(service[pass].sources)}
                     \cup {Summarized(s, service[pass].sources) : s \in Summaries} :
       IF pass = 2 THEN Adopt(answer) /\ UNCHANGED <<finder, pass>>
       ELSE /\ Remember(1, answer)
            /\ \/ ~followup /\ answer.coverage \in {"partial", "insufficient"} /\ TryAgain
               \/ Over /\ UNCHANGED <<finder, pass>>
  /\ UNCHANGED <<site, live, about, followup>>

\* The thirty seconds of the second try are up.
RepairTimesOut ==
  /\ pass = 2 /\ look \in {"reading", "summing"}
  /\ Stands /\ UNCHANGED <<site, finder, pass, live, about, followup>>

-----------------------------------------------------------------------------
(* What is asked about an answer *)

Forgotten == service' = [service EXCEPT ![1] = Cleared] /\ live' = FALSE

FollowUp(q) ==
  /\ look = "idle" /\ pass' = 1 /\ followup' = TRUE
  /\ IF service[1].sources = <<>> \/ ~live
     THEN Forgotten /\ UNCHANGED <<look, about>>
     ELSE /\ look' = IF q \in Unsafe THEN "idle" ELSE "summing"
          /\ UNCHANGED <<service, live, about>>
  /\ UNCHANGED <<web, queue, tried>>

\* "You found the wrong thing": the question stays, the sources go.
RequestCorrection ==
  /\ look = "idle" /\ service[1].last # Nothing /\ live
  /\ service' = [service EXCEPT ![1].last = Bare("correction_requested"), ![1].sources = <<>>]
  /\ UNCHANGED <<web, look, pass, live, queue, tried, about, followup>>

\* A new conversation, or the memory of this one is reset.
ForgetAnswer == /\ look = "idle" /\ Forgotten
          /\ UNCHANGED <<web, look, pass, queue, tried, about, followup>>

\* Five minutes are up; no lookup takes as long, but a question about one may begin late.
AnswerAges == /\ live /\ (look = "idle" \/ followup) /\ live' = FALSE
              /\ UNCHANGED <<web, look, pass, service, queue, tried, about, followup>>

WebTurn == (\E q \in Queries : Ask(q) \/ FollowUp(q)) \/ RequestCorrection \/ ForgetAnswer
WebStep == \/ \E rows \in Results : SearchFinds(rows)
           \/ SearchGivesUp \/ SearchTimesOut \/ ReadOn
           \/ \E late \in BOOLEAN : BatchEnds(late)
           \/ Summary \/ RepairTimesOut
WebNext == WebTurn \/ WebStep \/ AnswerAges
WebInit == ReaderInit /\ AnswersInit

-----------------------------------------------------------------------------
Statuses == {"answered", "partial_answer", "insufficient_answer", "pages_unavailable",
             "search_failed", "resources_found", "correction_requested"}
Coverages == {"complete", "partial", "insufficient", "unassessed"}
Told == [status : Statuses, coverage : Coverages, links : Seq(Public), cited : SUBSET (1..3)]
ServiceStates == [query : Queries \cup {Nothing}, sources : Seq(Public),
                  attempted : SUBSET (Urls \cup {Nothing}), last : Told \cup {Nothing}]

WebTypeOK ==
  /\ site \in Sites /\ finder \in {"none", "running", "killed"}
  /\ look \in {"idle", "searching", "reading", "summing"} /\ pass \in 1..2
  /\ service \in [1..2 -> ServiceStates] /\ \A p \in 1..2 : Len(service[p].sources) <= 3
  /\ live \in BOOLEAN /\ followup \in BOOLEAN /\ about \in Queries \cup {Nothing}
  /\ queue \in Seq(Urls) /\ Len(queue) <= 5 /\ tried \in 0..5

\* What the user is told was read has been read, each page once, in the order of the
\* search; a citation means the same page to the user and to the next question about it.
SourcesStandBehindAnswers ==
  /\ \A p \in 1..2 : IsInjective(service[p].sources)
  /\ \A p \in 1..2 : \A k \in 1..Len(service[p].sources) : site[service[p].sources[k]] = "text"
  /\ look \in {"reading", "summing"} /\ ~followup =>
       \E at \in [1..Len(service[pass].sources) -> 1..Len(queue)] :
         /\ \A j, k \in DOMAIN at : j < k => at[j] < at[k]
         /\ \A k \in DOMAIN at : Lands(queue[at[k]]) = service[pass].sources[k]
  /\ service[1].last # Nothing /\ Grounded(service[1].last) =>
       /\ service[1].last.links = service[1].sources
       /\ service[1].last.cited # {} /\ service[1].last.cited \subseteq DOMAIN service[1].sources

\* The second try uses no page that the first has read or tried to read, under whatever
\* address or redirect it is reached.
SecondTryIsNew ==
  pass = 2 /\ look # "idle" /\ look # "searching" =>
    ToSet(service[2].sources) \cap (ToSet(service[1].sources) \cup service[1].attempted) = {}

\* The dialogue is told about the last question that was asked, and of no search process
\* that nobody waits for.
ContextIsCurrent ==
  /\ service[1].last # Nothing => service[1].query = about
  /\ finder # "none" => look = "searching"

AnswersAreSound == SourcesStandBehindAnswers /\ SecondTryIsNew /\ ContextIsCurrent

\* What the answers have at each await.  The sources are in the order of the first n rows ...
InRank(sources, n) ==
  \E at \in [1..Len(sources) -> 1..n] :
    /\ \A j, k \in DOMAIN at : j < k => at[j] < at[k]
    /\ \A k \in DOMAIN at : Lands(queue[at[k]]) = sources[k]

\* ... a batch is of rows that follow them, three with the sources at most ...
BatchInv ==
  look = "reading" =>
    /\ tried <= Len(queue) /\ ~followup /\ service[pass].last = Nothing
    /\ \E from \in 0..(tried - 1) :
         /\ DOMAIN reads = (from + 1)..tried
         /\ Len(service[pass].sources) + (tried - from) <= 3
         /\ InRank(service[pass].sources, from)
         /\ \A i \in DOMAIN reads : Follows(reads[i], queue[i])

\* ... and what is kept is about the question, also while a second try is under way.
KeptInv ==
  /\ look = "summing" /\ ~followup => InRank(service[pass].sources, Len(queue))
  /\ look = "summing" /\ followup => pass = 1
  /\ look = "searching" => ~followup
  /\ \/ service[1].sources # <<>>
     \/ look \in {"reading", "summing"}
     \/ look # "idle" /\ pass = 2
     => service[1].query = about

WebInv == WebTypeOK /\ AnswersAreSound /\ BatchInv /\ KeptInv

\* During the second try the first answer and its sources change only for a better answer
\* (services/web/answers.py:368: "timeout, cancellation and invalid output cannot overwrite
\* the initial answer's citations or temporary dialogue state").
FirstAnswerStands ==
  [][pass = 2 /\ look # "idle" /\ service'[1] # service[1] =>
       /\ Grounded(service'[1].last) /\ service'[1].query = service[1].query
       /\ service'[1].last.coverage = "complete" \/ ~Grounded(service[1].last)]_<<web, answers>>
=============================================================================
