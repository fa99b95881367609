---------------------------- MODULE MCCallRecords ----------------------------
(* Constants of the model-checking run of CallRecords.                     *)
EXTENDS CallRecords

CONSTANTS a, b

MCKindsOf == {a :> "api" @@ b :> "selfhosted", a :> "selfhosted" @@ b :> "selfhosted"}

Segment(wall, concurrent) == [audio |-> 2, tokens |-> 1, wall |-> wall, calls |-> concurrent]

(* Four seconds alone, or as many shared with another call.                *)
MCLastSegment == Segment(4, 1)
MCSegments == {Segment(4, 1), Segment(4, 2)}

Prices(stt, llm, tts, gpu) ==
    [stt |-> stt, input |-> llm, output |-> 3 * llm, tts |-> tts, gpu |-> gpu,
     telephony |-> 140]

(* Every column that has a price rounds: down for the minutes of audio and *)
(* of the telephone, by exactly half a digit for the tokens, up for the    *)
(* characters and the hours of the GPU.                                    *)
MCCards ==
    <<[api |-> Prices(43, 375, 1600, 0), selfhosted |-> Prices(0, 0, 0, 5000)],
      [api |-> Prices(43, 375, 1600, 0), selfhosted |-> Prices(0, 0, 0, 9000)]>>
=============================================================================
