------------------------------ MODULE MCDialogue ------------------------------
(* Dialogue on small instances: see MCDialogue.cfg. *)
EXTENDS Dialogue

\* Typed text, and speech whose score passed its threshold, differ in no reading.
typed    == {"scored", "eligible"}
groq     == {"voice", "groq"}
conflict == {"voice", "scored", "eligible", "unreliable"}
doubtful == {"voice", "scored"}
unscored == {"voice"}
cut      == {"voice", "groq", "cut"}
again    == {"voice", "scored", "repeat", "cut"}

Qualities_All == {typed, groq, conflict, doubtful, unscored, cut, again}

Skills_AllOrNone == {{}, {"files", "memory"}}
===============================================================================
