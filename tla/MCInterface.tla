------------------------------ MODULE MCInterface ------------------------------
(* Both interfaces, with a log so short that a page can come too late.  A  *)
(* page may confuse two requests; for the window one is enough to make the *)
(* other cases meet.                                                       *)
EXTENDS Interface
MCMaxQuestions == [s \in Shells |-> IF s = "page" THEN 2 ELSE 1]
================================================================================
