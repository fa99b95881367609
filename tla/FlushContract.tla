---------------------------- MODULE FlushContract ----------------------------
(***************************************************************************)
(* What SttPort.stream promises the call session                           *)
(* (backend/application/ports/stt_port.py): each FlushSignal is eventually *)
(* answered by exactly one event with flushed=True, for as long as the     *)
(* stream goes on.                                                         *)
(***************************************************************************)
EXTENDS Naturals

CONSTANT MaxFlushes   \* bound: flushes of one stream

VARIABLES
    asked,     \* FlushSignals the stream has consumed
    answered,  \* flushed events it has produced
    over       \* the stream has ended or failed

contractVars == <<asked, answered, over>>

ContractInit == asked = 0 /\ answered = 0 /\ over = FALSE

Ask ==
    /\ ~over /\ asked < MaxFlushes
    /\ asked' = asked + 1
    /\ UNCHANGED <<answered, over>>

Answer ==
    /\ ~over /\ answered < asked
    /\ answered' = answered + 1
    /\ UNCHANGED <<asked, over>>

Finish == ~over /\ over' = TRUE /\ UNCHANGED <<asked, answered>>

ContractNext == Ask \/ Answer \/ Finish

(* Nothing is answered that was not asked, and each flush once. *)
ContractSafety == ContractInit /\ [][ContractNext]_contractVars

(* Whoever asks is answered, unless the stream is over first. *)
ContractLive == \A n \in 1..MaxFlushes : asked >= n ~> (answered >= n \/ over)

ContractSpec == ContractSafety /\ ContractLive
=============================================================================
