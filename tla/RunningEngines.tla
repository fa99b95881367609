---------------------------- MODULE RunningEngines ----------------------------
(***************************************************************************)
(* backend/infrastructure/running_engines.py: what the self-hosted speech  *)
(* services say they run.  An answer, a failure included, is kept for      *)
(* ttl_s, and callers that come while a probe is in flight await that      *)
(* probe, shielded, so that one giving up does not cancel it.              *)
(*                                                                         *)
(* Each entry of _answers is the time it was asked at, the event loop it   *)
(* belongs to and the task.  A probe is over within ProbeLimit, less than  *)
(* the ttl (2 s against 60 s), so callers only ever await the task in the  *)
(* current entry.                                                          *)
(***************************************************************************)
EXTENDS Integers, FiniteSets

CONSTANTS
    Callers,      \* those who await report(kind)
    Kinds,        \* ComponentKinds a service reports
    Reports,      \* the sets of engines a service may report
    Ttl,          \* ttl_s
    ProbeLimit,   \* the client's timeout
    MaxClock,     \* bound: the last tick
    MaxDeploys,   \* bound: times the services are deployed anew
    MaxLoops      \* bound: event loops the container is used on

ASSUME TtlAssumption == ProbeLimit \in Nat /\ Ttl \in Nat /\ ProbeLimit < Ttl
ASSUME BoundsAssumption == MaxClock \in Nat /\ MaxDeploys \in Nat /\ MaxLoops \in Nat \ {0}

VARIABLES
    now,         \* clock.monotonic()
    loop,        \* the running event loop
    entry,       \* _answers, by kind
    asking,      \* each caller's report(kind): idle, waiting, answered, gone
    result,      \* what an answered one returned, and when it had called
    running,     \* what each service runs
    lastRun,     \* the last time it ran what
    deploys

cacheVars == <<loop, entry, asking, result>>
serviceVars == <<running, lastRun, deploys>>
engineVars == <<now, cacheVars, serviceVars>>

NoEntry == [state |-> "none", at |-> 0, on |-> 0, value |-> {}]
NoResult == [state |-> "none", called |-> 0, value |-> {}]
Never == 0 - Ttl

EnginesInit ==
    /\ now = 0 /\ loop = 1
    /\ entry = [k \in Kinds |-> NoEntry]
    /\ asking = [c \in Callers |-> [k \in Kinds |-> "idle"]]
    /\ result = [c \in Callers |-> [k \in Kinds |-> NoResult]]
    /\ running \in [Kinds -> Reports]
    /\ lastRun = [k \in Kinds |-> [v \in Reports |-> IF v = running[k] THEN 0 ELSE Never]]
    /\ deploys = 0

-----------------------------------------------------------------------------
(* report(kind): is there an entry of this loop, younger than the ttl?     *)
(* The variants keep an answer a tick too long and forget a failure.       *)
UsableLonger(k) ==
    /\ entry[k].state # "none" /\ entry[k].on = loop
    /\ now - entry[k].at <= Ttl

UsableUnlessFailed(k) ==
    /\ entry[k].state \in {"asking", "ok"} /\ entry[k].on = loop
    /\ now - entry[k].at < Ttl

Usable(k) ==
    /\ entry[k].state # "none" /\ entry[k].on = loop
    /\ now - entry[k].at < Ttl

Returned(e, called) ==
    [state |-> e.state, called |-> called, value |-> e.value]

(* Start a probe or share the entry's; a task that is done answers at once.*)
Report(c, k) ==
    /\ asking[c][k] = "idle"
    /\ entry' = IF Usable(k) THEN entry
                ELSE [entry EXCEPT ![k] =
                        [state |-> "asking", at |-> now, on |-> loop, value |-> {}]]
    /\ asking' = [asking EXCEPT ![c][k] =
                    IF entry'[k].state = "asking" THEN "waiting" ELSE "answered"]
    /\ result' = [result EXCEPT ![c][k] = Returned(entry'[k], now)]
    /\ UNCHANGED <<now, loop, serviceVars>>

(* The probe's task completes and wakes all that await it.                 *)
Told(record, state, value) == [record EXCEPT !.state = state, !.value = value]

Complete(k, state, value) ==
    /\ entry[k].state = "asking" /\ entry[k].on = loop
    /\ entry' = [entry EXCEPT ![k] = Told(@, state, value)]
    /\ asking' = [c \in Callers |->
                    [asking[c] EXCEPT ![k] = IF @ = "waiting" THEN "answered" ELSE @]]
    /\ result' = [c \in Callers |->
                    IF asking[c][k] = "waiting"
                    THEN [result[c] EXCEPT ![k] = Told(@, state, value)]
                    ELSE result[c]]
    /\ UNCHANGED <<now, loop, serviceVars>>

(* _ask(): the service's report, or EngineReportUnavailable (unreachable,  *)
(* a timeout, an error status, a malformed body).  A gpu_fraction that is  *)
(* no number is neither: decimal.InvalidOperation is no ValueError, and is *)
(* what every caller is raised until the entry is a ttl old.               *)
ProbeAnswered(k) == Complete(k, "ok", running[k])

ProbeFails(k) == Complete(k, "failed", {})

ProbeBreaks(k) == Complete(k, "broken", {})

(* A caller is cancelled: the shield keeps the probe.  Without it the      *)
(* probe is cancelled too, and nobody wakes the others with an answer.     *)
GiveUpUnshielded(c, k) ==
    /\ asking[c][k] = "waiting"
    /\ asking' = [asking EXCEPT ![c][k] = "gone"]
    /\ entry' = [entry EXCEPT ![k].on = 0]
    /\ UNCHANGED <<now, loop, result, serviceVars>>

GiveUp(c, k) ==
    /\ asking[c][k] = "waiting"
    /\ asking' = [asking EXCEPT ![c][k] = "gone"]
    /\ UNCHANGED <<now, loop, entry, result, serviceVars>>

(* The container is used on another loop: the old one's tasks, and whoever *)
(* awaited them, are no more.                                              *)
ChangeLoop ==
    /\ loop < MaxLoops
    /\ loop' = loop + 1
    /\ asking' = [c \in Callers |->
                    [k \in Kinds |-> IF asking[c][k] = "waiting" THEN "gone" ELSE asking[c][k]]]
    /\ UNCHANGED <<now, entry, result, serviceVars>>

-----------------------------------------------------------------------------
(* The services and time                                                   *)

Deploy(k, value) ==
    /\ deploys < MaxDeploys /\ value # running[k]
    /\ deploys' = deploys + 1
    /\ running' = [running EXCEPT ![k] = value]
    /\ lastRun' = [lastRun EXCEPT ![k][value] = now]
    /\ UNCHANGED <<now, cacheVars>>

InTime(k) ==
    entry[k].state = "asking" /\ entry[k].on = loop => now < entry[k].at + ProbeLimit

Tick ==
    /\ now < MaxClock
    /\ \A k \in Kinds : InTime(k)
    /\ now' = now + 1
    /\ lastRun' = [k \in Kinds |-> [lastRun[k] EXCEPT ![running[k]] = now + 1]]
    /\ UNCHANGED <<cacheVars, running, deploys>>

EnginesNext ==
    \/ Tick \/ ChangeLoop
    \/ \E k \in Kinds :
        \/ ProbeAnswered(k) \/ ProbeFails(k) \/ ProbeBreaks(k)
        \/ \E v \in Reports : Deploy(k, v)
        \/ \E c \in Callers : GiveUp(c, k)

(* A probe in flight ends: the client has a timeout.                       *)
EnginesFairness ==
    \A k \in Kinds : WF_engineVars(ProbeAnswered(k) \/ ProbeFails(k) \/ ProbeBreaks(k))

-----------------------------------------------------------------------------
EnginesTypeOK ==
    /\ now \in 0..MaxClock /\ loop \in 1..MaxLoops
    /\ \A k \in Kinds :
        /\ entry[k].state \in {"none", "asking", "ok", "failed", "broken"}
        /\ running[k] \in Reports
    /\ \A c \in Callers, k \in Kinds :
        asking[c][k] \in {"idle", "waiting", "answered", "gone"}

(* Whoever is told what a service runs is told something it did run less   *)
(* than a ttl before the question, or since, deployments notwithstanding.  *)
AnswersAreFresh ==
    \A c \in Callers, k \in Kinds :
        asking[c][k] = "answered" /\ result[c][k].state = "ok" =>
            lastRun[k][result[c][k].value] > result[c][k].called - Ttl

(* "A public endpoint can't turn its traffic into load on the GPU          *)
(* services": two probes of a service are a ttl apart, whatever the        *)
(* callers do and whatever the first one's outcome, except across loops.   *)
ProbesAreApart ==
    [][\A k \in Kinds :
        /\ entry[k].state # "none"
        /\ entry'[k] # entry[k] /\ entry'[k].state = "asking"
        => \/ entry'[k].at >= entry[k].at + Ttl
           \/ entry'[k].on # entry[k].on]_engineVars

(* Nobody waits for a task that will not complete: a caller that does not  *)
(* give up is answered, whoever else gives up and whatever loop the last   *)
(* entry was made on.                                                      *)
CallersAreAnswered ==
    \A c \in Callers, k \in Kinds :
        asking[c][k] = "waiting" ~> asking[c][k] # "waiting"
=============================================================================
