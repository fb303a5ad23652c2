------------------------------ MODULE MCTasks ------------------------------
(* Two programs by name, one of which has two executables; a request by    *)
(* name and one with a time limit.  Seven addresses, one of them another   *)
(* spelling and one not public, in three webs: plain pages with a refusal  *)
(* and a redirect, a long way of redirects, a circle.  Two machines that   *)
(* are permitted and one that is not.                                      *)
EXTENDS Tasks

CONSTANTS a, b,            \* the paths, and two pages
          c, d, e, n, m

TwoNames == {<<"editor">>, <<"editor", "browser">>}
Programs == {[path |-> a, stamp |-> 1], [path |-> a, stamp |-> 2], [path |-> b, stamp |-> 1]}
Matches(request) == IF request = "name" THEN {1, 3} ELSE {2, 3}

Addresses == {a, b, c, d, e, n, m}
PublicForm == [u \in Addresses |-> CASE u = n -> a [] u = m -> Nothing [] OTHER -> u]
Webs ==
  {[u \in Public |-> CASE u = b -> "refused" [] u = c -> a [] OTHER -> "text"],
   [u \in Public |-> CASE u = a -> b [] u = b -> c [] u = c -> d [] u = d -> e [] OTHER -> "text"],
   [u \in Public |-> CASE u = a -> b [] u = b -> a [] u = c -> m [] u = d -> n [] OTHER -> "text"]}
Found == {<<>>, <<a, n, c, d>>, <<m, b, e>>, <<c, d>>}
Cites == {{}, {1}, {1, 2}, {4}}

Machines(target) == CASE target = "box" -> {1} [] target = "net" -> {1, 2}
                      [] target = "far" -> {2, 3} [] OTHER -> {}

\* A version of one chunk and one of two; a fact that may be replaced and one that may not.
TwoFiles == <<{"short", "long"}, {"short"}>>
Chunked(version) == IF version = "short" THEN 1 ELSE 2
Known == {<<"name", "old">>, <<"name", "new">>, <<"town", "old">>}

\* Bound: the tasks of different skills meet in the turn gate and at shutdown only, and
\* are looked at in sessions of their own.
Sessions == {{"workplace", "files"}, {"workplace"}, {"files"}, {"web"}, {"pentest"},
             {"knowledge"}, {"memory"}, {"passwords"}}
=============================================================================
