--------------------------- MODULE MCKokoroService ---------------------------
(* Constants of the model-checking run of KokoroService.                   *)
EXTENDS KokoroService

MCVoices == {WarmupVoice, [prefix |-> "qwen3-tts", name |-> "unheard of"]}

MCDeployments == {<<"kokoro", "qwen3-tts">>, <<"qwen3-tts", "qwen3-tts-vllm">>}
=============================================================================
