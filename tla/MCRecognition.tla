--------------------------- MODULE MCRecognition ---------------------------
(* Two listens.  A second recogniser is asked about what the native end of *)
(* a recording gives; a confirmation's recording is Vosk's by itself.      *)
EXTENDS Recognition

Pauses == [short |-> 1, usual |-> 2, long |-> 2, fixed |-> 1]
Two == 1..2
AllPaths == [t \in Two |->
  Loops \ ({<<"refined", "adaptive">>, <<"whisper", "confirming">>}
           \cup IF t = 1 THEN {} ELSE {<<"refined", "quiet">>})]
BriefPaths == {<<"whisper", "pcm">>, <<"refined", "native">>}
=============================================================================
