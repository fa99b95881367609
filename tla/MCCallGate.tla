------------------------------ MODULE MCCallGate ------------------------------
(* Constants of the model-checking run of CallGate.                        *)
EXTENDS CallGate, TLC

CONSTANTS a, b

Api == [pipeline |-> "api", engine |-> NoEngine]
SelfHosted(engine) == [pipeline |-> "selfhosted", engine |-> engine]

MCRequests ==
    {a :> Api @@ b :> Api,
     a :> SelfHosted("qwen3-tts") @@ b :> SelfHosted(NoEngine)}

MCEntries == [k \in Kinds |-> IF k = "tts" THEN {"kokoro", "qwen3-tts"} ELSE {"faster-whisper"}]

MCReports == {{"kokoro", "qwen3-tts"}, {"kokoro", "piper"}}

Deployment(euOnly, pipeline, keys, simulated, leaving) ==
    [euOnly |-> euOnly, pipeline |-> pipeline, keys |-> keys,
     simulated |-> simulated, leaving |-> leaving]

(* Real services without the keys of the API; the simulated pipelines; the *)
(* EU-only profile, with and without an engine that leaves the EU.         *)
MCDeployments ==
    {Deployment(FALSE, "selfhosted", FALSE, FALSE, {"cloud"}),
     Deployment(FALSE, "api", FALSE, TRUE, {"cloud"}),
     Deployment(TRUE, "selfhosted", TRUE, TRUE, {"cloud"}),
     Deployment(TRUE, "selfhosted", TRUE, FALSE, {"cloud", "qwen3-tts"})}
=============================================================================
