--------------------------- MODULE MCWhisperService ---------------------------
(* Constants of the model-checking runs of WhisperService.                  *)
EXTENDS WhisperService, TLC

CONSTANTS s1, s2

MCFlushes == s1 :> 2 @@ s2 :> 1
MCFrames == s1 :> <<2, 0, 0>> @@ s2 :> <<1, 1, 0>>
=============================================================================
