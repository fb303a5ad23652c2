----------------------------- MODULE WebReader -----------------------------
(***************************************************************************)
(* The two ways out to the web: one search at a time, in a process of its  *)
(* own that is killed and reaped before the next may begin                 *)
(* (services/web/search.py), and the pages of one batch, read side by side *)
(* and followed through their redirects (services/web/reader.py).  One     *)
(* action is one answer of the network to one page, or a time limit.       *)
(***************************************************************************)
EXTENDS Naturals, FiniteSets, Sequences, SequencesExt

CONSTANTS Nothing,\* no page, no address
          Urls,   \* addresses as a search or a redirect spells them
          Canon,  \* what public_url makes of each: its public form, or Nothing
          Sites   \* the webs to look at: what each public address holds, "text" or
                  \* "refused" (a status, a type, a wall, too little text) or a redirect

Public == {u \in Urls : Canon[u] = u}

ASSUME ReaderAssumption ==
  /\ Canon \in [Urls -> Urls \cup {Nothing}]
  /\ Urls \cap {Nothing, "text", "refused", "failed"} = {} /\ Nothing # "failed"
  /\ \A u \in Urls : Canon[u] # Nothing => Canon[u] \in Public
  /\ Sites \subseteq [Public -> Urls \cup {"text", "refused"}]

VARIABLES
  site,    \* the web, one of Sites
  finder,  \* the search process: "none", "running", "killed" (not reaped); Nothing holds _lock
  reads    \* the pages of the batch, by candidate

web == <<site, finder, reads>>

ReaderInit == site \in Sites /\ finder = "none" /\ reads = <<>>

-----------------------------------------------------------------------------
(* WebSearchService.search *)

\* A second search is refused while one is at work.
StartFinder == finder = "none" /\ finder' = "running"

\* The process has answered, or it has broken down.
FinderAnswers == finder = "running" /\ finder' = "none"

\* The time of the search, or of its caller, is up: the child is killed ...
KillFinder == finder = "running" /\ finder' = "killed"
\* ... and the error is raised only when it is reaped.
FinderReaped == finder = "killed" /\ finder' = "none"

-----------------------------------------------------------------------------
(* PublicPageReader.read *)

Hops == 4  \* for _ in range(4)

\* A page that is being read: where the loop stands and where it has been; end is the
\* address whose text it returns, or "failed".
Page(url) == [at |-> url, visited |-> {}, end |-> Nothing]
Skipped == [at |-> Nothing, visited |-> {}, end |-> "failed"]
Failed(page) == [page EXCEPT !.end = "failed"]
Done(page) == page.end # Nothing

\* What one turn of the loop makes of a page.
Fetched(page) ==
  LET url == Canon[page.at]
  IN IF \/ url = Nothing \/ url \in page.visited \/ site[url] = "refused"
        \/ Cardinality(page.visited) = Hops
     THEN Failed(page)
     ELSE IF site[url] = "text" THEN [page EXCEPT !.end = url]
     ELSE [page EXCEPT !.at = site[url], !.visited = @ \cup {url}]

Pending == {i \in DOMAIN reads : ~Done(reads[i])}

Exchange(i) == i \in Pending /\ reads' = [reads EXCEPT ![i] = Fetched(@)]

\* Seven seconds, the wait for one of the three slots included.
PageTimesOut(i) == i \in Pending /\ reads' = [reads EXCEPT ![i] = Failed(@)]

\* The way of redirects from an address, as far as it is followed, by its definition.
Way(url) ==
  LET way[n \in 1..Hops] == IF n = 1 THEN Canon[url]
                            ELSE IF way[n - 1] = Nothing \/ site[way[n - 1]] \notin Urls THEN Nothing
                            ELSE Canon[site[way[n - 1]]]
  IN way

\* What reading an address gives when nothing is slow: the first text on its way, Nothing
\* when there is none.
Lands(url) ==
  LET texts == {n \in 1..Hops : Way(url)[n] # Nothing /\ site[Way(url)[n]] = "text"}
  IN IF texts = {} THEN Nothing ELSE Way(url)[CHOOSE n \in texts : TRUE]

\* A page is somewhere on the way of its address: what it gives is where that lands.
Pages == [at : Urls \cup {Nothing}, visited : SUBSET Public, end : Public \cup {Nothing, "failed"}]
Follows(page, url) ==
  /\ page \in Pages
  /\ page.end = Nothing =>
       /\ page.at \in Urls /\ IsFiniteSet(page.visited) /\ Cardinality(page.visited) <= Hops
       /\ Cardinality(page.visited) < Hops =>
            Canon[page.at] = Way(url)[Cardinality(page.visited) + 1]
  /\ page.end \in Urls => page.end = Lands(url) /\ site[page.end] = "text"
=============================================================================
