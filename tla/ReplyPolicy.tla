---------------------------- MODULE ReplyPolicy ----------------------------
(***************************************************************************)
(* What one reply to a confirmation means: ConfirmationService._decision   *)
(* and voice_confidence (core/confirmation.py).  The words of a reply are  *)
(* abstracted to the class _normalized_reply puts them in, a confidence to *)
(* the interval the two thresholds 0.5 and 0.8 cut it into.                *)
(***************************************************************************)

\* "accept": in ACCEPTED; "refuse": in REJECTED or a negative form; else "other".
Meanings == {"accept", "refuse", "other"}

\* "unscored" is None (typed text, clean cloud speech); "invalid" is not finite
\* or outside 0..1; "low" < 0.5 <= "medium" < 0.8 <= "high".
Scores == {"unscored", "invalid", "low", "medium", "high"}

\* _decision: which replies decide, and how ("none" asks again).
Decision(meaning, score) ==
  CASE meaning = "refuse" /\ score \in {"unscored", "medium", "high"} -> "refuse"
    [] meaning = "accept" /\ score \in {"unscored", "high"}           -> "accept"
    [] OTHER                                                          -> "none"

\* A recognised utterance, as far as a reply depends on it: damaged is
\* recognition_unreliable or capture_truncated, fragment is utterance_incomplete
\* or incomplete, scored is confidence_available.
Utterances ==
  [engine : {"groq", "local"}, meaning : Meanings, score : Scores \ {"unscored"},
   scored : BOOLEAN, damaged : BOOLEAN, fragment : BOOLEAN]

\* voice_confidence: cloud speech has no number; only a whole, undamaged
\* utterance (or a fragment that refuses) may stand without one.
VoiceScore(u) ==
  CASE u.engine # "groq" -> u.score
    [] u.engine = "groq" /\ ~u.scored /\ ~u.damaged
         /\ (u.fragment => u.meaning = "refuse") -> "unscored"
    [] OTHER -> "invalid"

\* What the docstring of voice_confidence calls a complete utterance: the one
\* kind of cloud speech that may approve; local speech needs a high score.
Sound(u) ==
  IF u.engine = "groq" THEN ~u.damaged /\ ~u.fragment /\ ~u.scored
                       ELSE u.score = "high"
=============================================================================
