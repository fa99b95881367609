------------------------------ MODULE LoadSweep ------------------------------
(***************************************************************************)
(* The load harness: the sweep over levels of concurrency                  *)
(* (interfaces/cli/loadtest.py), the callers of a level                    *)
(* (interfaces/cli/harness/runner.py) and what the report says of it       *)
(* (interfaces/cli/harness/report.py, domain/services/latency_analyzer.py) *)
(*                                                                         *)
(* The first call of a level of one caller, on the self-hosted pipeline,   *)
(* is the call of SyntheticCaller; every other call is over in one step,   *)
(* with an outcome that SyntheticCaller allows.                            *)
(***************************************************************************)
EXTENDS SyntheticCaller

GB == INSTANCE GpuBudget

CONSTANTS
    Modes,       \* the pipelines, each with --until-break or without
    Deployments, \* bound: what the card is asked to hold (see GpuBudget)
    Levels,      \* --levels, or DEFAULT_LEVELS
    Beyond,      \* BEYOND_LEVELS above them
    BreakFrom,   \* the level from which the sweep may stop: 40
    MaxCalls,    \* bound: calls in one level
    SpendLimit,  \* dev_spend_limit_usd, in calls
    Latencies    \* bound: the latencies of a call's timed turn, in 0.01 ms:
                 \* end_to_end and perceived_delay

ASSUME SweepAssumption ==
    /\ {Levels, Beyond} \subseteq Seq(Nat) /\ Len(Levels) > 0
    /\ {MaxCalls, SpendLimit, BreakFrom} \subseteq Nat
    /\ Modes \subseteq {"api", "selfhosted"} \X BOOLEAN
    /\ Latencies \subseteq Nat \X Nat
    /\ \A d \in Deployments : GB!IsReading(d)

VARIABLES
    kind,       \* the pipeline
    untilBreak, \* --no-until-break
    deployment, \* what the budget is asked for
    budget,     \* what it says and what is logged of it
    phase,      \* budget, between, level, done, aborted
    at,         \* the levels begun
    past,       \* the deadline has passed
    doing,      \* each caller's place in its loop
    active,     \* slots taken of the supervisor
    spent,      \* calls the spend limit counts
    result,     \* the LevelRun
    levels      \* the summaries so far

loopVars == <<past, doing, active, spent, result>>
sweepVars == <<kind, untilBreak, deployment, budget, phase, at, levels>>
vars == <<callVars, loopVars, sweepVars>>

Planned == IF untilBreak THEN Levels \o Beyond ELSE Levels
Callers == 1..Max(ToSet(Levels \o Beyond))

(* _sweep(): room for the largest level.  The variant: for the largest of  *)
(* the levels asked for.                                                   *)
CeilingAsked == Max(ToSet(Levels))

Ceiling == Max(ToSet(Planned))

NoBudget == [verdict |-> "none", logged |-> "nothing"]

(* started and stamps are history: calls begun and utterances finished in  *)
(* those that completed.  samples is sorted.                               *)
NewResult ==
    [started |-> 0, stamps |-> 0, completed |-> 0, failed |-> 0, refused |-> 0, overfull |-> 0,
     timeouts |-> 0, observed |-> 0, unanswered |-> 0, endToEnd |-> <<>>, perceived |-> <<>>]

Init ==
    /\ NoCall
    /\ \E mode \in Modes : kind = mode[1] /\ untilBreak = mode[2]
    /\ deployment \in Deployments /\ budget = NoBudget
    /\ phase = "budget" /\ at = 0
    /\ past = FALSE /\ active = 0 /\ spent = 0
    /\ doing = [c \in Callers |-> "done"]
    /\ result = NewResult /\ levels = <<>>

-----------------------------------------------------------------------------
(* LevelRunner                                                             *)

(* The top of _caller_loop's while.                                        *)
Loop(c) ==
    /\ phase = "level" /\ doing[c] = "looping"
    /\ past \/ result.started < MaxCalls
    /\ doing' = [doing EXCEPT ![c] = IF past THEN "done" ELSE "starting"]
    /\ UNCHANGED <<callVars, sweepVars, past, active, spent, result>>

Watched == kind = "selfhosted" /\ Planned[at] = 1 /\ result.started = 0

(* start_call: a caller refused for want of a slot tries again a second    *)
(* later, one refused by the spend limit does not.  (That the spend was    *)
(* read a little before is CallGate's.)                                    *)
Refused == IF kind = "api" THEN spent >= SpendLimit ELSE active >= Ceiling

StartRefused(c) ==
    /\ phase = "level" /\ doing[c] = "starting" /\ Refused
    /\ doing' = [doing EXCEPT ![c] = IF kind = "api" THEN "done" ELSE "looping"]
    /\ result' = [result EXCEPT !.refused = @ + 1,
                                !.overfull = IF kind = "api" THEN @ ELSE @ + 1]
    /\ UNCHANGED <<callVars, sweepVars, past, active, spent>>

Begin(c) ==
    /\ phase = "level" /\ doing[c] = "starting" /\ ~Refused
    /\ IF Watched THEN StartsCalling ELSE UNCHANGED callVars
    /\ doing' = [doing EXCEPT ![c] = IF Watched THEN "watched" ELSE "calling"]
    /\ active' = active + 1
    /\ result' = [result EXCEPT !.started = @ + 1]
    /\ UNCHANGED <<sweepVars, past, spent>>

(* start_call raises, or the session cannot be put together: gather()      *)
(* raises, and the sweep with it.                                          *)
CannotStart(c) ==
    /\ phase = "level" /\ doing[c] = "starting"
    /\ phase' = "aborted"
    /\ UNCHANGED <<callVars, loopVars, kind, untilBreak, deployment, budget, at, levels>>

Watch ==
    /\ phase = "level"
    /\ CallStep
    /\ UNCHANGED <<loopVars, sweepVars>>

(* A call is over: end_call has given its slot back (the sinks' failures   *)
(* are swallowed by CompositeMetricsSink, so that none kills the ticker,   *)
(* without which end_call would not run).  What came of it is              *)
(* a record [completed, stamps, observed, unanswered, timeouts], and the   *)
(* latencies of its timed turns, one at most.  The variant gives the slot  *)
(* of a failed call back twice.                                            *)
Timed(turns) == IF turns > 0 THEN {<<l>> : l \in Latencies} ELSE {<<>>}

(* sorted(), when one more is added.                                       *)
With(seq, x) == InsertAt(seq, Cardinality({i \in DOMAIN seq : seq[i] <= x}) + 1, x)

Tally(outcome, timed) ==
    IF ~outcome.completed
    THEN [result EXCEPT !.failed = @ + 1, !.timeouts = @ + outcome.timeouts]
    ELSE [result EXCEPT
            !.completed = @ + 1,
            !.stamps = @ + outcome.stamps,
            !.timeouts = @ + outcome.timeouts,
            !.observed = @ + outcome.observed,
            !.unanswered = @ + outcome.unanswered,
            !.endToEnd = IF timed = <<>> THEN @ ELSE With(@, timed[1][1]),
            !.perceived = IF timed = <<>> THEN @ ELSE With(@, timed[1][2])]

ReleasedTwice(outcome) == IF outcome.completed THEN active - 1 ELSE active - 2

Released(outcome) == active - 1

Over(c, outcome, timed) ==
    /\ doing' = [doing EXCEPT ![c] = "looping"]
    /\ active' = Released(outcome)
    /\ spent' = IF kind = "api" THEN spent + 1 ELSE spent
    /\ result' = Tally(outcome, timed)
    /\ UNCHANGED <<sweepVars, past>>

WatchedOver(c) ==
    /\ phase = "level" /\ doing[c] = "watched"
    /\ agent.phase \in {"completed", "failed"}
    /\ \E timed \in Timed(output.observed) :
        Over(c, [completed |-> agent.phase = "completed", stamps |-> history.stamps,
                 observed |-> output.observed, unanswered |-> UnansweredTurns(output),
                 timeouts |-> caller.timeouts], timed)
    /\ clock' = 0 /\ script' = <<>> /\ caller' = NewCaller(0) /\ output' = NewOutput(0)
    /\ agent' = [NewAgent(0) EXCEPT !.phase = "none"] /\ history' = NewHistory

(* One utterance: answered, given up on, or none before a hang-up.         *)
Outcomes ==
    {[completed |-> TRUE, stamps |-> 1, observed |-> 1, unanswered |-> 0, timeouts |-> 0],
     [completed |-> TRUE, stamps |-> 1, observed |-> 0, unanswered |-> 1, timeouts |-> 1],
     [completed |-> FALSE, stamps |-> 0, observed |-> 0, unanswered |-> 0, timeouts |-> 0]}

CallOver(c) ==
    /\ phase = "level" /\ doing[c] = "calling"
    /\ \E outcome \in Outcomes :
        \E timed \in Timed(outcome.observed) :
            Over(c, outcome, timed)
    /\ UNCHANGED callVars

(* Only Loop looks at the clock.                                           *)
DeadlinePasses ==
    /\ phase = "level" /\ ~past /\ \E c \in Callers : doing[c] = "looping"
    /\ past' = TRUE
    /\ UNCHANGED <<callVars, sweepVars, doing, active, spent, result>>

-----------------------------------------------------------------------------
(* The report                                                              *)

(* percentile(): between the closest ranks, to the hundredth.              *)
Percentile(ordered, pct) ==
    IF ordered = <<>> THEN 0
    ELSE LET rank == (Len(ordered) - 1) * pct
             low == ordered[rank \div 100 + 1]
             high == ordered[(rank + 99) \div 100 + 1] IN
         low + ((high - low) * (rank % 100)) \div 100

EndToEndBudget == 90000
PerceivedBudget == 120000

(* round(x, 1)                                                             *)
Rounded(x) == ((x + 5) \div 10) * 10

(* LatencyAnalyzer.budget() and summarise_level().                         *)
Summary ==
    LET e2e == Percentile(result.endToEnd, 95) perceived == Percentile(result.perceived, 95) IN
    [concurrency |-> Planned[at], turns |-> Len(result.endToEnd),
     p95 |-> Rounded(e2e), within |-> e2e < EndToEndBudget /\ perceived < PerceivedBudget]

(* _last_ok() and breaking_point()                                         *)
LastOk(before) ==
    Max({0} \cup {levels[i].concurrency : i \in
        {j \in DOMAIN levels : levels[j].concurrency < before /\ levels[j].within}})

BreakingPoint ==
    LET breaking == SelectInSeq(levels, LAMBDA l : l.turns > 0 /\ l.p95 >= EndToEndBudget) IN
    IF breaking = 0 THEN [concurrency |-> 0, lastOk |-> 0]
    ELSE [concurrency |-> levels[breaking].concurrency,
          lastOk |-> LastOk(levels[breaking].concurrency)]

-----------------------------------------------------------------------------
(* The sweep                                                               *)

(* The container's reading of the catalogue, the budget and the warning.   *)
AskBudget ==
    /\ phase = "budget" /\ budget = NoBudget
    /\ IF GB!Unreadable(deployment)
       THEN /\ phase' = "aborted" /\ UNCHANGED budget
       ELSE LET claims == GB!Claims(deployment) IN
            /\ budget' = [verdict |-> IF claims = <<>> THEN "no card"
                                      ELSE GB!Verdict(deployment.total, claims),
                          logged |-> GB!Logged(deployment, claims)]
            /\ UNCHANGED phase
    /\ UNCHANGED <<callVars, loopVars, kind, untilBreak, deployment, at, levels>>

(* The budget is reported only: it stops nothing, and what it was is left  *)
(* behind here.                                                            *)
GoOn ==
    /\ phase = "budget" /\ budget # NoBudget
    /\ phase' = "between" /\ budget' = NoBudget
    /\ deployment' = CHOOSE d \in Deployments : TRUE
    /\ UNCHANGED <<callVars, loopVars, kind, untilBreak, at, levels>>

(* The variant stops at a level that is outside either budget.             *)
BreaksOutside(summary) == untilBreak /\ ~summary.within /\ summary.concurrency >= BreakFrom

Breaks(summary) ==
    untilBreak /\ summary.p95 >= EndToEndBudget /\ summary.concurrency >= BreakFrom

StartLevel ==
    /\ phase = "between"
    /\ IF at = Len(Planned) \/ (at > 0 /\ Breaks(levels[at]))
       THEN phase' = "done" /\ UNCHANGED <<at, doing, past>>
       ELSE /\ phase' = "level" /\ at' = at + 1
            /\ doing' = [c \in Callers |-> IF c <= Planned[at + 1] THEN "looping" ELSE "done"]
            /\ past' = FALSE
    /\ UNCHANGED <<callVars, kind, untilBreak, deployment, budget, levels, active, spent, result>>

(* gather() returns when every caller has.  The variant goes by the clock. *)
LevelOverAtDeadline == past

LevelOver == \A c \in Callers : doing[c] = "done"

EndLevel ==
    /\ phase = "level" /\ LevelOver
    /\ phase' = "between"
    /\ levels' = Append(levels, Summary)
    /\ result' = NewResult
    /\ UNCHANGED <<callVars, kind, untilBreak, deployment, budget, at, past, doing, active,
                   spent>>

-----------------------------------------------------------------------------
Next ==
    \/ \E c \in Callers :
        \/ Loop(c) \/ StartRefused(c) \/ Begin(c) \/ CannotStart(c)
        \/ WatchedOver(c) \/ CallOver(c)
    \/ Watch \/ DeadlinePasses
    \/ AskBudget \/ GoOn \/ StartLevel \/ EndLevel

(* The event loop runs the caller when its sleep is over, and time passes. *)
Spec ==
    /\ Init /\ [][Next]_vars
    /\ WF_vars(CallerStep /\ UNCHANGED <<loopVars, sweepVars>>)
    /\ WF_vars(Pass /\ UNCHANGED <<loopVars, sweepVars>>)

-----------------------------------------------------------------------------
(* Slots and callers' places are those of the level, and what the speaker  *)
(* holds is not in the past.                                               *)
TypeOK ==
    /\ phase \in {"budget", "between", "level", "done", "aborted"}
    /\ doing \in [Callers -> {"looping", "starting", "watched", "calling", "done"}]
    /\ active \in 0..(IF at = 0 THEN 0 ELSE Planned[at])
    /\ output.until >= clock
    /\ agent.phase = "none" <=> \A c \in Callers : doing[c] # "watched"

(* "Calls still in progress at the deadline are allowed to finish and are  *)
(* counted": when a level is summed up, every call it started is in        *)
(* calls_completed or in calls_failed, none holds a slot, and the turns    *)
(* that callers finished in the completed ones are timed or unanswered.    *)
EveryCallCounted ==
    [][levels' # levels =>
        /\ result.completed + result.failed = result.started /\ active = 0
        /\ result.observed + result.unanswered = result.stamps]_vars

(* The ceiling is the largest level the sweep may come to, and a call that *)
(* has ended has given its slot back before its caller calls again: no     *)
(* caller of the harness is refused for want of a slot.                    *)
NeverOverfull == result.overfull = 0

Rising(seq) == \A i, j \in DOMAIN seq : i < j => seq[i] <= seq[j]

(* When the levels rise as planned, the sweep is cut short only by a level *)
(* that it reports as the breaking point, or that comes after it; below    *)
(* the breaking point no level that timed a turn was at 900 ms; the last   *)
(* level within budget is below it and within both budgets.                *)
StopsAtTheBreak ==
    phase = "done" /\ Rising(Planned) =>
        LET broke == BreakingPoint.concurrency IN
        /\ Len(levels) < Len(Planned) =>
            broke > 0 /\ broke <= levels[Len(levels)].concurrency
        /\ \A i \in DOMAIN levels :
            levels[i].turns > 0 /\ (broke = 0 \/ levels[i].concurrency < broke) =>
                levels[i].p95 < EndToEndBudget
        /\ BreakingPoint.lastOk > 0 =>
            BreakingPoint.lastOk < broke
            /\ \E i \in DOMAIN levels :
                levels[i].concurrency = BreakingPoint.lastOk /\ levels[i].within

(* "a missing figure must not be read as nothing": of all the ways that    *)
(* the unknown figures may turn out, a card fits that fits in each, does   *)
(* not that fits in none, and is unknown otherwise; an error is logged     *)
(* only under EU_ONLY and when no way fits.                                *)
VerdictIsCertain ==
    phase = "budget" /\ budget # NoBudget /\ budget.verdict # "no card" =>
        LET claims == GB!Claims(deployment)
            worlds == {[c \in DOMAIN claims |-> IF claims[c] = GB!None THEN f[c] ELSE claims[c]] :
                        f \in [DOMAIN claims -> 0..(deployment.total + 1)]}
            fitting == {w \in worlds : SumFunction(w) <= deployment.total} IN
        /\ budget.verdict = "fits" <=> fitting = worlds
        /\ budget.verdict = "does not fit" <=> fitting = {}
        /\ budget.logged = "error" <=> deployment.eu /\ fitting = {}

(* Of the turns of a synthetic caller none is lost or counted twice, and   *)
(* one is unanswered only when the agent did not answer in time.           *)
TurnsAccounted == TypeOK /\ EachTurnCountedOnce /\ UnansweredMeansTimedOut

(* The delays that are reported are those the caller heard, and a harness  *)
(* that is itself late says so.                                            *)
DelaysAreTrue == TimedWhenHeard /\ LatenessIsSeen

(* What is said of a sweep follows from what was measured: no caller       *)
(* refused for want of a slot, a breaking point that is one, and a memory  *)
(* verdict that no unknown figure could change.                            *)
VerdictsAreSound == NeverOverfull /\ StopsAtTheBreak /\ VerdictIsCertain

(* Every call of a level comes to its end and is counted.                  *)
EveryCallIsOver == CallerGetsThrough /\ EveryCallCounted
=============================================================================
