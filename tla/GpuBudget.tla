------------------------------ MODULE GpuBudget ------------------------------
(***************************************************************************)
(* Whether one card holds the components of a deployment:                  *)
(* domain/services/gpu_memory_budget.py, CheckGpuBudget, the figures of    *)
(* the catalogue and the warning that is logged.  A deployment is          *)
(*   gpus:       how many hosts name a GPU;                                *)
(*   total:      the memory of the one there is;                           *)
(*   llmShare:   the part of it, in percent, that the LLM server is        *)
(*               configured to take, or None;                              *)
(*   components: for each of the components on that host its kind, the     *)
(*               figure of the catalogue and the part its service reports  *)
(*               that it reserves, either of them perhaps None;            *)
(*   eu:         EU_ONLY.                                                  *)
(***************************************************************************)
EXTENDS Integers, FiniteSets, Functions

None == -1

(* What can be read of a deployment.                                       *)
Figures == Nat \cup {None}
IsReading(d) ==
    /\ {d.gpus, d.total} \subseteq Nat /\ d.llmShare \in Figures /\ d.eu \in BOOLEAN
    /\ IsFiniteSet(DOMAIN d.components)
    /\ \A c \in DOMAIN d.components :
        {d.components[c].figure, d.components[c].reserved} \subseteq Figures

(* _gpu_memory(): more than one card, or a figure that is none, stops the  *)
(* container; without a card there is no budget.                           *)
Unreadable(d) ==
    \/ d.gpus > 1
    \/ d.gpus = 1 /\ \E c \in DOMAIN d.components : d.components[c].figure = 0

Share(d, percent) == IF percent = None THEN None ELSE (d.total * percent) \div 100

(* _claim(): what a component holds follows how it is served.              *)
Claim(d, component) ==
    IF component.kind = "llm" THEN Share(d, d.llmShare)
    ELSE IF component.reserved > 0 THEN Share(d, component.reserved)
    ELSE component.figure

(* CheckGpuBudget.execute(): the claims.                                   *)
Claims(d) ==
    [c \in IF d.gpus = 0 THEN {} ELSE DOMAIN d.components |-> Claim(d, d.components[c])]

Unknown(claims) == {c \in DOMAIN claims : claims[c] = None}
Claimed(claims) ==
    SumFunction([c \in DOMAIN claims |-> IF c \in Unknown(claims) THEN 0 ELSE claims[c]])

(* The variant reads a missing figure as nothing.                          *)
VerdictOfKnown(total, claims) ==
    IF Claimed(claims) > total THEN "does not fit" ELSE "fits"

Verdict(total, claims) ==
    IF Claimed(claims) > total THEN "does not fit"
    ELSE IF Unknown(claims) # {} THEN "unknown"
    ELSE "fits"

(* warn_over_budget()                                                      *)
Logged(d, claims) ==
    IF claims = <<>> \/ Verdict(d.total, claims) = "fits" THEN "nothing"
    ELSE IF d.eu /\ Verdict(d.total, claims) = "does not fit" THEN "error"
    ELSE "warning"
=============================================================================
