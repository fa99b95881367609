----------------------------- MODULE MCLoadSweep -----------------------------
(* Constants of the model-checking run of LoadSweep.                       *)
EXTENDS LoadSweep

(* An utterance with a pause; one that is followed by one nobody can hear. *)
MCScripts == {<<<<TRUE, FALSE, TRUE>>>>, <<<<TRUE>>, <<FALSE>>>>}

MCChunks == {<<FALSE, TRUE>>, <<FALSE>>}

MCModes == {<<"selfhosted", TRUE>>, <<"api", TRUE>>, <<"api", FALSE>>}
MCLevels == <<1>>
MCBeyond == <<2>>

(* Well within, outside the perceived budget, and over by rounding.        *)
MCLatencies == {<<40000, 75000>>, <<86000, 121000>>, <<89996, 110000>>}

Component(kindOf, figure, reserved) == [kind |-> kindOf, figure |-> figure, reserved |-> reserved]

MCDeployments ==
    [gpus : 0..2, total : {4}, llmShare : {-1, 50, 75}, eu : BOOLEAN,
     components : {[stt |-> Component("stt", stt, sttShare), llm |-> Component("llm", -1, -1),
                    tts |-> Component("tts", tts, -1)] :
                       stt \in {-1, 1}, sttShare \in {-1, 25}, tts \in {-1, 0, 1, 2}}]
=============================================================================
