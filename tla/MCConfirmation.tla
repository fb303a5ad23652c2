--------------------------- MODULE MCConfirmation ---------------------------
(* Two callers, the voice loop and one typed source. *)
EXTENDS Confirmation

CONSTANTS c1, c2, voice, typed

MCCallers == {c1, c2}
MCSources == {voice, typed}
MCVoice == {voice}

Utterance(engine, meaning, score, scored, damaged, fragment) ==
  [engine |-> engine, meaning |-> meaning, score |-> score, scored |-> scored,
   damaged |-> damaged, fragment |-> fragment]

\* Clean, damaged and cut-off cloud speech, and local speech on both sides of
\* the thresholds.
MCSpoken ==
  {Utterance("groq", m, "low", FALSE, d, f) : m \in {"accept", "refuse"}, d, f \in BOOLEAN}
  \cup {Utterance("local", m, s, TRUE, FALSE, FALSE) :
          m \in {"accept", "refuse"}, s \in {"medium", "high"}}
=============================================================================
