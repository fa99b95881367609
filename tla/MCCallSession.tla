---------------------------- MODULE MCCallSession ----------------------------
(* The callers and transcript streams of the model-checking runs.          *)
EXTENDS CallSession

(* A talkative caller on a stream that may answer late, and a short call   *)
(* on a stream that may do anything.                                       *)
MCEnvironments ==
    { [words |-> 4, late |-> TRUE, givesUp |-> FALSE, dies |-> FALSE],
      [words |-> 2, late |-> TRUE, givesUp |-> TRUE, dies |-> TRUE] }
=============================================================================
