------------------------------- MODULE Pricing -------------------------------
(***************************************************************************)
(* What a segment of a call costs: domain/services/cost_calculator.py and  *)
(* domain/entities/cost.py.  Prices are in the last digit the database     *)
(* keeps (NUMERIC(18, 10)), per minute, thousand or hour.  A Decimal       *)
(* amount, which has 28 figures, is cut at a Fine-th of that digit: half a *)
(* digit being a whole number of them, what a column rounds it to is the   *)
(* same.                                                                   *)
(***************************************************************************)
EXTENDS Integers, Sequences, FiniteSetsExt, Functions

Stages == {"stt", "llm", "tts", "gpu", "telephony"}

Fine == 60

Larger(m, n) == IF m > n THEN m ELSE n

NoCost == [s \in Stages |-> 0]
Total(c) == c.stt + c.llm + c.tts + c.gpu + c.telephony

(* CostBreakdown.__add__, of one cost and those of a family, stage by stage. *)
SumCosts(first, rest) ==
    [s \in Stages |-> first[s] + SumFunction([i \in DOMAIN rest |-> rest[i][s]])]

NoUsage == [audio |-> 0, input |-> 0, output |-> 0, chars |-> 0,
            gpu |-> 0, calls |-> 1, telephony |-> 0]

(* UsageUnits.__add__: concurrency does not add up.                        *)
AddUsage(u, v) ==
    [f \in DOMAIN u |-> IF f = "calls" THEN Larger(u[f], v[f]) ELSE u[f] + v[f]]

(* segment_usage() and _record's replace(): what a segment of `wall`       *)
(* seconds shared with `calls` used.                                       *)
SegmentUsage(segment, usesGpu) ==
    [audio |-> segment.audio, input |-> segment.tokens, output |-> segment.tokens,
     chars |-> segment.tokens,
     gpu |-> IF usesGpu THEN segment.wall ELSE 0,
     calls |-> IF usesGpu THEN segment.calls ELSE 1,
     telephony |-> segment.wall]

GpuCost(seconds, hourly, calls) == (Fine * seconds * hourly) \div (3600 * Larger(calls, 1))

(* CostCalculator.calculate() with one pipeline's rates.                   *)
Calculate(rates, u) ==
    [stt |-> (Fine * (rates.stt * u.audio)) \div 60,
     llm |-> (Fine * (rates.input * u.input + rates.output * u.output)) \div 1000,
     tts |-> (Fine * (rates.tts * u.chars)) \div 1000,
     gpu |-> GpuCost(u.gpu, rates.gpu, u.calls),
     telephony |-> (Fine * (rates.telephony * u.telephony)) \div 60]

(* A NUMERIC column rounds half away from zero; the variant cuts off.      *)
StoredCut(cost) == [s \in Stages |-> (cost[s] \div Fine) * Fine]

Stored(cost) == [s \in Stages |-> ((cost[s] + Fine \div 2) \div Fine) * Fine]
=============================================================================
