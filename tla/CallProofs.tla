------------------------------ MODULE CallProofs ------------------------------
(***************************************************************************)
(* What a call promises.  On its way in (CallGate): what RunningEngines    *)
(* tells it is fresh, and it is admitted within the policy of the          *)
(* deployment, for every set of calls, services and reports, every ttl and *)
(* every history of deployments and event loops.  While it lasts           *)
(* (CallSession): the caller's words are kept, nobody talks over a         *)
(* goodbye and its end tells how it went, for any caller, stream of        *)
(* transcripts and bounds.                                                 *)
(***************************************************************************)
EXTENDS CallGate, CallSession, FiniteSetTheorems, SequenceTheorems, TLAPS

-----------------------------------------------------------------------------
(* The gate: the gate uses the cache through report(kind) alone.           *)

EnginesStep == EnginesNext \/ \E c \in Callers, k \in Kinds : Report(c, k)

LEMMA StepIsEnginesStep == [GateNext]_gateVars => [EnginesStep]_engineVars
<1> SUFFICES ASSUME [GateNext]_gateVars PROVE [EnginesStep]_engineVars
  OBVIOUS
<1>1. CASE StartUp \/ UNCHANGED gateVars
  BY <1>1 DEF StartUp, gateVars
<1>2. ASSUME NEW c \in Calls, Start(c) \/ Spend(c) \/ EndCall(c)
      PROVE  [EnginesStep]_engineVars
  <2>1. CASE AskForVoice(c)
    BY <2>1, CallersAssumption, KindsAssumption DEF AskForVoice, EnginesStep
  <2>2. CASE ~AskForVoice(c)
    BY <1>2, <2>2 DEF Start, SkipSpendCheck, AskSpend, CheckSpend, DecideOnSpend, SpendUnread,
                      SkipVoiceCheck, HearAboutVoice, AbandonCall, Resolve, Spend, EndCall
  <2> QED BY <2>1, <2>2
<1>3. ASSUME NEW d \in Descriptions, Describe(d) \/ \E k \in Kinds : AskForDescription(d, k)
      PROVE  [EnginesStep]_engineVars
  BY <1>3, CallersAssumption DEF Describe, AskForDescription, EnginesStep
<1>4. CASE EnginesNext
  BY <1>4 DEF EnginesStep
<1> QED BY <1>1, <1>2, <1>3, <1>4 DEF GateNext

-----------------------------------------------------------------------------
(* The gate: the cache.                                                    *)

Values == Reports \cup {{}}
AskStates == {"idle", "waiting", "answered", "gone"}
TaskStates == {"none", "asking", "ok", "failed", "broken"}

CacheTypes ==
    /\ now \in Nat
    /\ loop \in Nat
    /\ entry \in [Kinds -> [state : TaskStates, at : Nat, on : Nat, value : Values]]
    /\ asking \in [Callers -> [Kinds -> AskStates]]
    /\ result \in [Callers -> [Kinds -> [state : TaskStates, called : Nat, value : Values]]]
    /\ running \in [Kinds -> Reports]
    /\ lastRun \in [Kinds -> [Reports -> Int]]

LEMMA EnginesTypesInit == GateInit => CacheTypes
<1> SUFFICES ASSUME GateInit PROVE CacheTypes
  OBVIOUS
<1> USE DEF GateInit, EnginesInit, CacheTypes, Values, AskStates, TaskStates
<1>1. lastRun \in [Kinds -> [Reports -> Int]]
  BY TtlAssumption DEF Never
<1> QED BY <1>1 DEF NoEntry, NoResult

LEMMA ReportTypes ==
    ASSUME CacheTypes, NEW c \in Callers, NEW k \in Kinds, Report(c, k)
    PROVE  /\ entry'[k].state \in TaskStates /\ entry'[k].value \in Values
           /\ CacheTypes'
<1> USE DEF CacheTypes, Values, AskStates, TaskStates
<1>1. entry' \in [Kinds -> [state : TaskStates, at : Nat, on : Nat, value : Values]]
  BY DEF Report
<1>2. asking' \in [Callers -> [Kinds -> AskStates]]
  BY DEF Report
<1>3. result' \in [Callers -> [Kinds -> [state : TaskStates, called : Nat, value : Values]]]
  BY <1>1 DEF Report, Returned
<1> QED BY <1>1, <1>2, <1>3 DEF Report, serviceVars

LEMMA CompleteTypes ==
    ASSUME CacheTypes, NEW k \in Kinds, NEW value \in Values,
           NEW state \in {"ok", "failed", "broken"}, Complete(k, state, value)
    PROVE  CacheTypes'
<1> USE DEF CacheTypes, AskStates, TaskStates
<1>1. entry' \in [Kinds -> [state : TaskStates, at : Nat, on : Nat, value : Values]]
  <2>1. Told(entry[k], state, value)
            \in [state : TaskStates, at : Nat, on : Nat, value : Values]
    BY ZenonT(60) DEF Told
  <2> QED BY <2>1 DEF Complete
<1>2. asking' \in [Callers -> [Kinds -> AskStates]]
  <2>1. \A c \in Callers :
            [asking[c] EXCEPT ![k] = IF @ = "waiting" THEN "answered" ELSE @]
                \in [Kinds -> AskStates]
    OBVIOUS
  <2> QED BY <2>1 DEF Complete
<1>3. result' \in [Callers -> [Kinds -> [state : TaskStates, called : Nat, value : Values]]]
  <2>1. \A c \in Callers :
            Told(result[c][k], state, value)
                \in [state : TaskStates, called : Nat, value : Values]
    <3>1. ASSUME NEW c \in Callers
          PROVE  Told(result[c][k], state, value)
                     \in [state : TaskStates, called : Nat, value : Values]
      <4>1. result[c][k] \in [state : TaskStates, called : Nat, value : Values]
        OBVIOUS
      <4> QED BY <4>1 DEF Told
    <3> QED BY <3>1
  <2>2. \A c \in Callers :
            [result[c] EXCEPT ![k] = Told(@, state, value)]
                \in [Kinds -> [state : TaskStates, called : Nat, value : Values]]
    BY <2>1
  <2> QED BY <2>2 DEF Complete
<1> QED BY <1>1, <1>2, <1>3 DEF Complete, serviceVars

LEMMA CacheTypesStep == CacheTypes /\ [EnginesStep]_engineVars => CacheTypes'
<1> SUFFICES ASSUME CacheTypes, [EnginesStep]_engineVars PROVE CacheTypes'
  OBVIOUS
<1>1. CASE UNCHANGED engineVars
  BY <1>1 DEF engineVars, cacheVars, serviceVars, CacheTypes
<1>2. CASE Tick
  BY <1>2 DEF Tick, cacheVars, CacheTypes
<1>3. CASE ChangeLoop
  <2>1. asking' \in [Callers -> [Kinds -> AskStates]]
    BY <1>3 DEF ChangeLoop, CacheTypes, AskStates
  <2> QED BY <1>3, <2>1 DEF ChangeLoop, serviceVars, CacheTypes
<1>4. ASSUME NEW k \in Kinds, ProbeAnswered(k) \/ ProbeFails(k) \/ ProbeBreaks(k) PROVE CacheTypes'
  <2>1. running[k] \in Values /\ {} \in Values
    BY DEF CacheTypes, Values
  <2> QED BY <1>4, <2>1, CompleteTypes DEF ProbeAnswered, ProbeFails, ProbeBreaks
<1>5. ASSUME NEW k \in Kinds, NEW v \in Reports, Deploy(k, v) PROVE CacheTypes'
  BY <1>5 DEF Deploy, cacheVars, CacheTypes
<1>6. ASSUME NEW k \in Kinds, NEW c \in Callers, GiveUp(c, k) PROVE CacheTypes'
  BY <1>6 DEF GiveUp, serviceVars, CacheTypes, AskStates
<1> QED BY <1>1, <1>2, <1>3, <1>4, <1>5, <1>6, ReportTypes DEF EnginesStep, EnginesNext

LEMMA CacheTypesHold == GateSpec => []CacheTypes
<1>1. CacheTypes /\ [GateNext]_gateVars => CacheTypes'
  BY StepIsEnginesStep, CacheTypesStep
<1> QED BY <1>1, EnginesTypesInit, PTL DEF GateSpec

(* Only report(kind) starts a probe, and only without a usable entry.      *)
LEMMA ProbesApartStep ==
    ASSUME CacheTypes, [EnginesStep]_engineVars, NEW k \in Kinds,
           entry[k].state # "none", entry'[k] # entry[k], entry'[k].state = "asking"
    PROVE  entry'[k].at >= entry[k].at + Ttl \/ entry'[k].on # entry[k].on
<1>1. CASE UNCHANGED entry
  BY <1>1
<1>2. ASSUME NEW c \in Callers, NEW l \in Kinds, Report(c, l)
      PROVE  entry'[k].at >= entry[k].at + Ttl \/ entry'[k].on # entry[k].on
  <2>1. /\ ~Usable(l) /\ l = k
        /\ entry' = [entry EXCEPT ![l] =
                        [state |-> "asking", at |-> now, on |-> loop, value |-> {}]]
    BY <1>2 DEF Report, CacheTypes
  <2>2. entry'[k].at = now /\ entry'[k].on = loop
    BY <2>1 DEF CacheTypes
  <2> QED BY <2>1, <2>2, TtlAssumption DEF Usable, CacheTypes
<1>3. ASSUME NEW l \in Kinds, ProbeAnswered(l) \/ ProbeFails(l) \/ ProbeBreaks(l) PROVE FALSE
  <2>1. PICK state \in {"ok", "failed", "broken"} :
            \E value : entry' = [entry EXCEPT ![l] = Told(entry[l], state, value)]
    BY <1>3 DEF ProbeAnswered, ProbeFails, ProbeBreaks, Complete
  <2>2. entry'[l].state \in {"ok", "failed", "broken"} /\ (k # l => entry'[k] = entry[k])
    BY <2>1 DEF CacheTypes, Told
  <2> QED BY <2>2
<1> QED BY <1>1, <1>2, <1>3
        DEF EnginesStep, EnginesNext, Tick, ChangeLoop, Deploy, GiveUp, engineVars, cacheVars

(* An answer or a failure is kept for the ttl and a probe in flight is     *)
(* shared: two probes of a service on one event loop are a ttl apart,      *)
(* whoever calls and whatever the first one's outcome.                     *)
THEOREM ProbesStayApart == GateSpec => ProbesAreApart
<1>1. CacheTypes /\ [GateNext]_gateVars =>
        [\A k \in Kinds :
            /\ entry[k].state # "none"
            /\ entry'[k] # entry[k] /\ entry'[k].state = "asking"
            => \/ entry'[k].at >= entry[k].at + Ttl
               \/ entry'[k].on # entry[k].on]_engineVars
  BY StepIsEnginesStep, ProbesApartStep
<1> QED BY <1>1, CacheTypesHold, PTL DEF GateSpec, ProbesAreApart

(* What ran last is no later than now, an entry's value ran when it was    *)
(* asked for or since, and an answer's less than a ttl before the question.*)
RunsUntilNow ==
    \A k \in Kinds :
        /\ lastRun[k][running[k]] = now
        /\ \A v \in Reports : lastRun[k][v] <= now

EntriesRan ==
    \A k \in Kinds :
        /\ entry[k].at <= now
        /\ entry[k].state = "ok" =>
             entry[k].value \in Reports /\ lastRun[k][entry[k].value] >= entry[k].at

AnswersRan ==
    \A c \in Callers, k \in Kinds :
        /\ result[c][k].called <= now
        /\ result[c][k].state = "ok" =>
            /\ asking[c][k] = "answered"
            /\ result[c][k].value \in Reports
            /\ lastRun[k][result[c][k].value] > result[c][k].called - Ttl

FreshInv == RunsUntilNow /\ EntriesRan /\ AnswersRan

LEMMA TtlIsPositive == Ttl \in Nat /\ Ttl > 0
BY TtlAssumption

LEMMA FreshInit == GateInit => FreshInv
<1> SUFFICES ASSUME GateInit PROVE FreshInv
  OBVIOUS
<1>1. RunsUntilNow
  BY TtlAssumption DEF GateInit, EnginesInit, RunsUntilNow, Never
<1>2. EntriesRan /\ AnswersRan
  BY DEF GateInit, EnginesInit, EntriesRan, AnswersRan, NoEntry, NoResult
<1> QED BY <1>1, <1>2 DEF FreshInv

(* Time and deployments only bring what ran last nearer.                   *)
LEMMA LastRunGrows ==
    ASSUME CacheTypes, RunsUntilNow, [EnginesStep]_engineVars
    PROVE  /\ now' >= now
           /\ \A k \in Kinds, v \in Reports : lastRun'[k][v] >= lastRun[k][v]
           /\ RunsUntilNow'
<1>1. CASE UNCHANGED <<now, running, lastRun>>
  BY <1>1 DEF RunsUntilNow, CacheTypes
<1>2. CASE Tick
  <2>1. now' = now + 1 /\ running' = running
    BY <1>2 DEF Tick
  <2>2. \A k \in Kinds : lastRun'[k] = [lastRun[k] EXCEPT ![running[k]] = now + 1]
    BY <1>2 DEF Tick
  <2>3. \A k \in Kinds, v \in Reports :
            lastRun'[k][v] = IF v = running[k] THEN now + 1 ELSE lastRun[k][v]
    <3>1. ASSUME NEW k \in Kinds, NEW v \in Reports
          PROVE  lastRun'[k][v] = IF v = running[k] THEN now + 1 ELSE lastRun[k][v]
      <4>1. lastRun[k] \in [Reports -> Int]
        BY DEF CacheTypes
      <4>2. lastRun'[k] = [lastRun[k] EXCEPT ![running[k]] = now + 1]
        BY <2>2
      <4> QED BY <4>1, <4>2
    <3> QED BY <3>1
  <2>4. now \in Nat /\ \A k \in Kinds : running[k] \in Reports
    BY DEF CacheTypes
  <2>5. \A k \in Kinds, v \in Reports : lastRun[k][v] \in Int /\ lastRun[k][v] <= now
    BY DEF RunsUntilNow, CacheTypes
  <2> QED BY <2>1, <2>3, <2>4, <2>5 DEF RunsUntilNow
<1>3. ASSUME NEW k \in Kinds, NEW value \in Reports, Deploy(k, value)
      PROVE  /\ now' >= now
             /\ \A l \in Kinds, v \in Reports : lastRun'[l][v] >= lastRun[l][v]
             /\ RunsUntilNow'
  <2>1. /\ now' = now /\ running' = [running EXCEPT ![k] = value]
        /\ lastRun' = [lastRun EXCEPT ![k] = [lastRun[k] EXCEPT ![value] = now]]
    BY <1>3 DEF Deploy
  <2>2. \A l \in Kinds, v \in Reports :
            lastRun'[l][v] = IF l = k /\ v = value THEN now ELSE lastRun[l][v]
    BY <2>1 DEF CacheTypes
  <2> QED BY <2>1, <2>2 DEF RunsUntilNow, CacheTypes
<1>4. CASE \E k \in Kinds : ProbeAnswered(k) \/ ProbeFails(k) \/ ProbeBreaks(k)
  BY <1>1, <1>4 DEF ProbeAnswered, ProbeFails, ProbeBreaks, Complete, serviceVars
<1> QED BY <1>1, <1>2, <1>3, <1>4
        DEF EnginesStep, EnginesNext, ChangeLoop, GiveUp, Report, engineVars, serviceVars

(* What is kept and answered stays true while the cache itself is left.    *)
LEMMA FreshKept ==
    ASSUME CacheTypes, CacheTypes', FreshInv, RunsUntilNow', now' >= now,
           \A k \in Kinds, v \in Reports : lastRun'[k][v] >= lastRun[k][v],
           UNCHANGED <<entry, result>>,
           \A c \in Callers, k \in Kinds :
               asking[c][k] = "answered" => asking'[c][k] = "answered"
    PROVE  FreshInv'
<1>1. EntriesRan'
  BY DEF FreshInv, EntriesRan, CacheTypes
<1>2. AnswersRan'
  BY TtlIsPositive DEF FreshInv, AnswersRan, CacheTypes
<1> QED BY <1>1, <1>2 DEF FreshInv

LEMMA FreshReport ==
    ASSUME CacheTypes, CacheTypes', FreshInv, NEW c \in Callers, NEW k \in Kinds, Report(c, k)
    PROVE  FreshInv'
<1>1. /\ UNCHANGED <<now, running, lastRun>> /\ asking[c][k] = "idle"
      /\ \/ Usable(k) /\ entry' = entry
         \/ entry' = [entry EXCEPT ![k] =
                        [state |-> "asking", at |-> now, on |-> loop, value |-> {}]]
      /\ asking' = [asking EXCEPT ![c][k] =
                      IF entry'[k].state = "asking" THEN "waiting" ELSE "answered"]
      /\ result' = [result EXCEPT ![c][k] =
                      [state |-> entry'[k].state, called |-> now, value |-> entry'[k].value]]
  BY DEF Report, Returned, serviceVars
<1>2. RunsUntilNow'
  BY <1>1 DEF FreshInv, RunsUntilNow
<1>3. EntriesRan'
  BY <1>1 DEF FreshInv, EntriesRan, CacheTypes
<1>4. ASSUME NEW d \in Callers, NEW l \in Kinds, d # c \/ l # k
      PROVE  asking'[d][l] = asking[d][l] /\ result'[d][l] = result[d][l]
  BY <1>1, <1>4 DEF CacheTypes
<1>5. /\ result'[c][k].state = entry'[k].state /\ result'[c][k].called = now
      /\ result'[c][k].value = entry'[k].value
      /\ entry'[k].state = "ok" => asking'[c][k] = "answered"
  BY <1>1 DEF CacheTypes
<1>6. entry'[k].state = "ok" => Usable(k) /\ entry' = entry
  BY <1>1 DEF CacheTypes
<1>7. entry'[k].state = "ok" =>
          entry'[k].value \in Reports /\ lastRun[k][entry'[k].value] > now - Ttl
  <2> SUFFICES ASSUME entry'[k].state = "ok"
               PROVE  entry'[k].value \in Reports /\ lastRun[k][entry'[k].value] > now - Ttl
    OBVIOUS
  <2>1. entry' = entry /\ now - entry[k].at < Ttl
    BY <1>6 DEF Usable
  <2>2. entry[k].value \in Reports /\ lastRun[k][entry[k].value] >= entry[k].at
    BY <2>1 DEF FreshInv, EntriesRan
  <2>3. lastRun[k][entry[k].value] \in Int /\ entry[k].at \in Nat /\ now \in Nat
    BY <2>2 DEF CacheTypes
  <2> QED BY <2>1, <2>2, <2>3, TtlIsPositive
<1>8. AnswersRan'
  <2> SUFFICES ASSUME NEW d \in Callers, NEW l \in Kinds
               PROVE  /\ result'[d][l].called <= now'
                      /\ result'[d][l].state = "ok" =>
                          /\ asking'[d][l] = "answered"
                          /\ result'[d][l].value \in Reports
                          /\ lastRun'[l][result'[d][l].value] > result'[d][l].called - Ttl
    BY DEF AnswersRan
  <2>1. CASE d = c /\ l = k
    BY <1>1, <1>5, <1>7, <2>1 DEF CacheTypes
  <2>2. CASE d # c \/ l # k
    BY <1>1, <1>4, <2>2 DEF FreshInv, AnswersRan
  <2> QED BY <2>1, <2>2
<1> QED BY <1>2, <1>3, <1>8 DEF FreshInv

(* A probe's answer is what runs at that moment.                           *)
LEMMA FreshComplete ==
    ASSUME CacheTypes, CacheTypes', FreshInv, NEW k \in Kinds,
           ProbeAnswered(k) \/ ProbeFails(k) \/ ProbeBreaks(k)
    PROVE  FreshInv'
<1>1. PICK state \in {"ok", "failed", "broken"}, value \in Values :
          /\ state = "ok" => value = running[k]
          /\ Complete(k, state, value)
  <2>1. running[k] \in Values /\ {} \in Values
    BY DEF CacheTypes, Values
  <2> QED BY <2>1 DEF ProbeAnswered, ProbeFails, ProbeBreaks
<1>2. UNCHANGED <<now, running, lastRun>>
  BY <1>1 DEF Complete, serviceVars
<1>3. RunsUntilNow'
  BY <1>2 DEF FreshInv, RunsUntilNow
<1>4. running[k] \in Reports /\ lastRun[k][running[k]] = now /\ now \in Nat
  BY DEF FreshInv, RunsUntilNow, CacheTypes
<1>5. EntriesRan'
  <2>1. /\ entry'[k].state = state /\ entry'[k].value = value /\ entry'[k].at = entry[k].at
        /\ \A l \in Kinds : l # k => entry'[l] = entry[l]
    <3>1. entry' = [entry EXCEPT ![k] = Told(entry[k], state, value)]
      BY <1>1 DEF Complete
    <3>2. entry'[k] = Told(entry[k], state, value) /\ \A l \in Kinds : l # k => entry'[l] = entry[l]
      BY <3>1 DEF CacheTypes
    <3>3. entry[k] \in [state : TaskStates, at : Nat, on : Nat, value : Values]
      BY DEF CacheTypes
    <3> QED BY <3>2, <3>3 DEF Told
  <2> SUFFICES ASSUME NEW l \in Kinds
               PROVE  /\ entry'[l].at <= now'
                      /\ entry'[l].state = "ok" =>
                           /\ entry'[l].value \in Reports
                           /\ lastRun'[l][entry'[l].value] >= entry'[l].at
    BY DEF EntriesRan
  <2>2. CASE l = k
    BY <1>1, <1>2, <1>4, <2>1, <2>2 DEF FreshInv, EntriesRan
  <2>3. CASE l # k
    BY <1>2, <2>1, <2>3 DEF FreshInv, EntriesRan
  <2> QED BY <2>2, <2>3
<1>6. AnswersRan'
  <2> SUFFICES ASSUME NEW c \in Callers, NEW l \in Kinds
               PROVE  /\ result'[c][l].called <= now'
                      /\ result'[c][l].state = "ok" =>
                          /\ asking'[c][l] = "answered"
                          /\ result'[c][l].value \in Reports
                          /\ lastRun'[l][result'[c][l].value] > result'[c][l].called - Ttl
    BY DEF AnswersRan
  <2>1. CASE l = k /\ asking[c][k] = "waiting"
    <3>1. asking'[c][k] = "answered"
      BY <1>1, <2>1 DEF Complete, CacheTypes
    <3>2. result'[c][k] = Told(result[c][k], state, value)
      <4>1. result'[c] = [result[c] EXCEPT ![k] = Told(result[c][k], state, value)]
        BY <1>1, <2>1 DEF Complete
      <4> QED BY <4>1 DEF CacheTypes
    <3>3. result[c][k] \in [state : TaskStates, called : Nat, value : Values]
      BY DEF CacheTypes
    <3>4. /\ result'[c][k].state = state /\ result'[c][k].value = value
          /\ result'[c][k].called = result[c][k].called
      BY <3>2, <3>3 DEF Told
    <3>5. result[c][k].called \in Nat /\ result[c][k].called <= now
      BY <3>3 DEF FreshInv, AnswersRan
    <3> QED BY <1>1, <1>2, <1>4, <2>1, <3>1, <3>4, <3>5, TtlIsPositive
  <2>2. CASE ~(l = k /\ asking[c][k] = "waiting")
    <3>1. asking'[c][l] = asking[c][l]
      BY <1>1, <2>2 DEF Complete, CacheTypes
    <3>2. result'[c][l] = result[c][l]
      BY <1>1, <2>2 DEF Complete, CacheTypes
    <3> QED BY <1>2, <3>1, <3>2 DEF FreshInv, AnswersRan
  <2> QED BY <2>1, <2>2
<1> QED BY <1>3, <1>5, <1>6 DEF FreshInv

LEMMA FreshStep == CacheTypes /\ FreshInv /\ [EnginesStep]_engineVars => FreshInv'
<1> SUFFICES ASSUME CacheTypes, FreshInv, [EnginesStep]_engineVars PROVE FreshInv'
  OBVIOUS
<1>1. CacheTypes'
  BY CacheTypesStep
<1>2. /\ now' >= now /\ RunsUntilNow'
      /\ \A k \in Kinds, v \in Reports : lastRun'[k][v] >= lastRun[k][v]
  BY LastRunGrows DEF FreshInv
<1>3. CASE \E c \in Callers, k \in Kinds : Report(c, k)
  BY <1>1, <1>3, FreshReport
<1>4. CASE \E k \in Kinds : ProbeAnswered(k) \/ ProbeFails(k) \/ ProbeBreaks(k)
  BY <1>1, <1>4, FreshComplete
<1>5. CASE \/ Tick \/ ChangeLoop \/ UNCHANGED engineVars
           \/ \E k \in Kinds : \/ \E v \in Reports : Deploy(k, v)
                               \/ \E c \in Callers : GiveUp(c, k)
  <2>1. UNCHANGED <<entry, result>>
    BY <1>5 DEF Tick, ChangeLoop, Deploy, GiveUp, engineVars, cacheVars
  <2>2. \A c \in Callers, k \in Kinds :
            asking[c][k] = "answered" => asking'[c][k] = "answered"
    <3>1. CASE ChangeLoop
      BY <3>1 DEF ChangeLoop
    <3>2. ASSUME NEW k \in Kinds, NEW c \in Callers, GiveUp(c, k)
          PROVE  \A d \in Callers, l \in Kinds :
                     asking[d][l] = "answered" => asking'[d][l] = "answered"
      BY <3>2 DEF GiveUp, CacheTypes
    <3>3. CASE UNCHANGED asking
      BY <3>3
    <3> QED BY <1>5, <3>1, <3>2, <3>3 DEF Tick, Deploy, engineVars, cacheVars
  <2> QED BY <1>1, <1>2, <2>1, <2>2, FreshKept
<1> QED BY <1>3, <1>4, <1>5 DEF EnginesStep, EnginesNext

LEMMA FreshInvHolds == GateSpec => []FreshInv
<1>1. CacheTypes /\ FreshInv /\ [GateNext]_gateVars => FreshInv'
  BY StepIsEnginesStep, FreshStep
<1> QED BY <1>1, FreshInit, CacheTypesHold, PTL DEF GateSpec

(* Whoever has an answer keeps it.                                         *)
LEMMA AnswersStay ==
    ASSUME CacheTypes, [EnginesStep]_engineVars, NEW c \in Callers, NEW k \in Kinds,
           asking[c][k] = "answered"
    PROVE  asking'[c][k] = "answered" /\ result'[c][k] = result[c][k]
<1>1. CASE UNCHANGED <<asking, result>>
  BY <1>1
<1>2. CASE ChangeLoop
  BY <1>2 DEF ChangeLoop
<1>3. ASSUME NEW d \in Callers, NEW l \in Kinds, GiveUp(d, l)
      PROVE  asking'[c][k] = "answered" /\ result'[c][k] = result[c][k]
  BY <1>3 DEF GiveUp, CacheTypes
<1>4. ASSUME NEW d \in Callers, NEW l \in Kinds, Report(d, l)
      PROVE  asking'[c][k] = "answered" /\ result'[c][k] = result[c][k]
  <2>1. c # d \/ k # l
    BY <1>4 DEF Report
  <2>2. asking'[c][k] = asking[c][k]
    BY <1>4, <2>1 DEF Report, CacheTypes
  <2>3. result'[c][k] = result[c][k]
    BY <1>4, <2>1 DEF Report, CacheTypes
  <2> QED BY <2>2, <2>3
<1>5. ASSUME NEW l \in Kinds, ProbeAnswered(l) \/ ProbeFails(l) \/ ProbeBreaks(l)
      PROVE  asking'[c][k] = "answered" /\ result'[c][k] = result[c][k]
  <2>1. PICK state, value : Complete(l, state, value)
    BY <1>5 DEF ProbeAnswered, ProbeFails, ProbeBreaks
  <2>2. /\ asking'[c] = [asking[c] EXCEPT ![l] = IF asking[c][l] = "waiting" THEN "answered"
                                                                       ELSE asking[c][l]]
        /\ asking[c][l] # "waiting" => result'[c] = result[c]
        /\ asking[c][l] = "waiting" =>
             result'[c] = [result[c] EXCEPT ![l] = Told(result[c][l], state, value)]
    BY <2>1 DEF Complete
  <2>3. asking[c] \in [Kinds -> AskStates] /\ DOMAIN result[c] = Kinds
    BY DEF CacheTypes
  <2>4. CASE k = l
    <3>1. asking'[c][k] = "answered" /\ result'[c] = result[c]
      BY <2>2, <2>3, <2>4
    <3> QED BY <3>1
  <2>5. CASE k # l
    <3>1. asking'[c][k] = "answered"
      BY <2>2, <2>3, <2>5
    <3>2. result'[c][k] = result[c][k]
      BY <2>2, <2>3, <2>5 DEF Told
    <3> QED BY <3>1, <3>2
  <2> QED BY <2>4, <2>5
<1> QED BY <1>1, <1>2, <1>3, <1>4, <1>5
        DEF EnginesStep, EnginesNext, Tick, Deploy, engineVars, cacheVars

-----------------------------------------------------------------------------
(* The gate: what calls and descriptions rest on their answers.            *)

GateTypes ==
    /\ pc \in [Calls -> {"new", "reading", "vetted", "resolving", "admitted", "refused", "over"}]
    /\ \A c \in Calls : pc[c] = "reading" => Metered(c)
    /\ described = [d \in Descriptions |-> described[d]]

(* A call refused for its voice was told so, and one let through was not   *)
(* told otherwise.                                                         *)
VoiceInv ==
    \A c \in Calls :
        NeedsEngine(c) =>
            /\ pc[c] = "refused" /\ Buildable("selfhosted") =>
                 asking[c]["tts"] = "answered" /\ ~Spoken(c)
            /\ pc[c] \in {"resolving", "admitted"} =>
                 asking[c]["tts"] = "answered" /\ Spoken(c)

(* A confirmed entry is the answer it was made from.                       *)
DescriptionInv ==
    \A d \in Descriptions : \A k \in DOMAIN described[d] :
        described[d][k].confirmed =>
            /\ k \in Kinds /\ result[d][k].state = "ok"
            /\ described[d][k].engines = result[d][k].value
            /\ described[d][k].engines \subseteq Entries[k]

GateInv == GateTypes /\ VoiceInv /\ DescriptionInv

LEMMA GateInvInit == GateInit => GateInv
BY DEF GateInit, GateInv, GateTypes, VoiceInv, DescriptionInv

(* The calls' side moves one call at a time, or none.                      *)
LEMMA VoiceKept ==
    ASSUME CacheTypes, [EnginesStep]_engineVars, VoiceInv, UNCHANGED <<settings, asks, pc>>
    PROVE  VoiceInv'
<1> SUFFICES ASSUME NEW c \in Calls, NeedsEngine(c)'
             PROVE  /\ pc'[c] = "refused" /\ Buildable("selfhosted")' =>
                         asking'[c]["tts"] = "answered" /\ ~Spoken(c)'
                    /\ pc'[c] \in {"resolving", "admitted"} =>
                         asking'[c]["tts"] = "answered" /\ Spoken(c)'
  BY DEF VoiceInv
<1>1. NeedsEngine(c) /\ (Buildable("selfhosted")' <=> Buildable("selfhosted"))
  BY DEF NeedsEngine, Buildable, Selectable
<1>2. c \in Callers /\ "tts" \in Kinds
  BY CallersAssumption, KindsAssumption
<1>3. asking[c]["tts"] = "answered" =>
          asking'[c]["tts"] = "answered" /\ result'[c]["tts"] = result[c]["tts"]
  BY <1>2, AnswersStay
<1>4. asking[c]["tts"] = "answered" => (Spoken(c)' <=> Spoken(c))
  BY <1>3 DEF Spoken
<1> QED BY <1>1, <1>3, <1>4 DEF VoiceInv

LEMMA VoiceStart ==
    ASSUME GateTypes, VoiceInv, NEW c \in Calls,
           \/ SkipSpendCheck(c) \/ AskSpend(c) \/ CheckSpend(c) \/ SpendUnread(c)
           \/ SkipVoiceCheck(c) \/ HearAboutVoice(c) \/ AbandonCall(c)
           \/ Resolve(c) \/ EndCall(c)
    PROVE  VoiceInv'
<1>1. UNCHANGED <<settings, asks, asking, result>>
  BY DEF SkipSpendCheck, AskSpend, CheckSpend, DecideOnSpend, SpendUnread, SkipVoiceCheck,
         HearAboutVoice, AbandonCall, Resolve, EndCall, engineVars, cacheVars
<1>2. PICK point : pc' = [pc EXCEPT ![c] = point]
  BY DEF SkipSpendCheck, AskSpend, CheckSpend, DecideOnSpend, SpendUnread, SkipVoiceCheck,
         HearAboutVoice, AbandonCall, Resolve, EndCall, Goto
<1>3. \A d \in Calls :
          /\ NeedsEngine(d)' <=> NeedsEngine(d)
          /\ Spoken(d)' <=> Spoken(d)
          /\ Buildable("selfhosted")' <=> Buildable("selfhosted")
  BY <1>1 DEF NeedsEngine, Spoken, Buildable, Selectable
<1>4. ASSUME NEW d \in Calls, d # c PROVE pc'[d] = pc[d]
  BY <1>2, <1>4 DEF GateTypes
<1>5. ASSUME NeedsEngine(c)
      PROVE  /\ pc'[c] = "refused" /\ Buildable("selfhosted") =>
                  asking[c]["tts"] = "answered" /\ ~Spoken(c)
             /\ pc'[c] \in {"resolving", "admitted"} =>
                  asking[c]["tts"] = "answered" /\ Spoken(c)
  <2>1. asks[c].pipeline = "selfhosted"
    BY <1>5 DEF NeedsEngine
  <2>2. CASE SkipSpendCheck(c) \/ AskSpend(c) \/ CheckSpend(c) \/ SpendUnread(c)
    <3>1. ~Metered(c) /\ c \in Calls
      BY <2>1 DEF Metered
    <3>2. ~AskSpend(c)
      BY <3>1 DEF AskSpend
    <3>3. pc[c] = "reading" \/ pc'[c] = "vetted"
      BY <2>2, <3>2 DEF SkipSpendCheck, CheckSpend, DecideOnSpend, SpendUnread, Goto, GateTypes
    <3>4. pc'[c] = "vetted"
      BY <3>1, <3>3 DEF GateTypes
    <3> QED BY <3>4
  <2>3. CASE HearAboutVoice(c)
    BY <2>3 DEF HearAboutVoice, Goto, GateTypes
  <2>4. CASE Resolve(c)
    BY <1>5, <2>1, <2>4 DEF Resolve, Goto, GateTypes, VoiceInv
  <2>5. CASE SkipVoiceCheck(c) \/ AbandonCall(c) \/ EndCall(c)
    BY <1>5, <2>5 DEF SkipVoiceCheck, AbandonCall, EndCall, Goto, GateTypes
  <2> QED BY <2>2, <2>3, <2>4, <2>5
<1> QED BY <1>1, <1>3, <1>4, <1>5 DEF VoiceInv

LEMMA DescriptionKept ==
    ASSUME CacheTypes, FreshInv, [EnginesStep]_engineVars, DescriptionInv,
           UNCHANGED described
    PROVE  DescriptionInv'
<1> SUFFICES ASSUME NEW d \in Descriptions, NEW k \in DOMAIN described[d],
                    described[d][k].confirmed
             PROVE  /\ k \in Kinds /\ result'[d][k].state = "ok"
                    /\ described[d][k].engines = result'[d][k].value
                    /\ described[d][k].engines \subseteq Entries[k]
  BY DEF DescriptionInv
<1>1. /\ k \in Kinds /\ result[d][k].state = "ok"
      /\ described[d][k].engines = result[d][k].value
      /\ described[d][k].engines \subseteq Entries[k]
  BY DEF DescriptionInv
<1>2. d \in Callers
  BY CallersAssumption
<1>3. asking[d][k] = "answered"
  BY <1>1, <1>2 DEF FreshInv, AnswersRan
<1>4. result'[d][k] = result[d][k]
  BY <1>1, <1>2, <1>3, AnswersStay
<1> QED BY <1>1, <1>4

LEMMA DescriptionMade ==
    ASSUME GateTypes, DescriptionInv, NEW d \in Descriptions, Describe(d)
    PROVE  DescriptionInv'
<1>1. /\ result' = result
      /\ described' = [described EXCEPT ![d] = [k \in Kinds |-> Confirm(result[d][k], k)]]
  BY DEF Describe, engineVars, cacheVars
<1>2. described'[d] = [k \in Kinds |-> Confirm(result[d][k], k)]
      /\ \A e \in Descriptions : e # d => described'[e] = described[e]
  BY <1>1 DEF GateTypes
<1>3. \A k \in Kinds :
          Confirm(result[d][k], k).confirmed =>
              /\ result[d][k].state = "ok"
              /\ Confirm(result[d][k], k).engines = result[d][k].value
              /\ Confirm(result[d][k], k).engines \subseteq Entries[k]
  BY DEF Confirm
<1> QED BY <1>1, <1>2, <1>3 DEF DescriptionInv

LEMMA GateStep == CacheTypes /\ FreshInv /\ GateInv /\ [GateNext]_gateVars => GateInv'
<1> SUFFICES ASSUME CacheTypes, FreshInv, GateInv, [GateNext]_gateVars PROVE GateInv'
  OBVIOUS
<1>0. [EnginesStep]_engineVars /\ GateTypes /\ VoiceInv /\ DescriptionInv
  BY StepIsEnginesStep DEF GateInv
<1>1. GateTypes'
  <2>1. \/ UNCHANGED pc
        \/ \E c \in Calls :
            /\ pc' = [pc EXCEPT ![c] = pc'[c]]
            /\ pc'[c] \in {"reading", "vetted", "resolving", "admitted", "refused", "over"}
            /\ pc'[c] = "reading" => Metered(c)
    BY <1>0 DEF GateNext, StartUp, Start, SkipSpendCheck, AskSpend, CheckSpend, DecideOnSpend,
                SpendUnread, SkipVoiceCheck, AskForVoice, HearAboutVoice, AbandonCall, Resolve,
                Spend, EndCall, Describe, AskForDescription, Goto, callVars, spendVars,
                gateVars, GateTypes
  <2>2. UNCHANGED asks
    BY DEF GateNext, StartUp, Start, SkipSpendCheck, AskSpend, CheckSpend, DecideOnSpend,
           SpendUnread, SkipVoiceCheck, AskForVoice, HearAboutVoice, AbandonCall, Resolve, Spend,
           EndCall, Describe, AskForDescription, gateVars
  <2>3. \/ UNCHANGED described
        \/ \E d \in Descriptions :
            described' = [described EXCEPT ![d] = [k \in Kinds |-> Confirm(result[d][k], k)]]
    BY DEF GateNext, StartUp, Start, SkipSpendCheck, AskSpend, CheckSpend, DecideOnSpend,
           SpendUnread, SkipVoiceCheck, AskForVoice, HearAboutVoice, AbandonCall, Resolve, Spend,
           EndCall, Describe, AskForDescription, gateVars
  <2>4. \A c \in Calls : Metered(c)' <=> Metered(c)
    BY <2>2 DEF Metered
  <2>5. /\ pc' \in [Calls -> {"new", "reading", "vetted", "resolving", "admitted", "refused",
                             "over"}]
        /\ \A c \in Calls : pc'[c] = "reading" => Metered(c)
    <3>1. CASE UNCHANGED pc
      BY <1>0, <3>1 DEF GateTypes
    <3>2. CASE ~UNCHANGED pc
      <4>1. PICK c \in Calls :
                /\ pc' = [pc EXCEPT ![c] = pc'[c]]
                /\ pc'[c] \in {"reading", "vetted", "resolving", "admitted", "refused", "over"}
                /\ pc'[c] = "reading" => Metered(c)
        BY <2>1, <3>2
      <4> QED BY <1>0, <4>1 DEF GateTypes
    <3> QED BY <3>1, <3>2
  <2>6. described' = [d \in Descriptions |-> described'[d]]
    BY <1>0, <2>3 DEF GateTypes
  <2> QED BY <2>4, <2>5, <2>6 DEF GateTypes
<1>2. VoiceInv'
  <2>1. CASE UNCHANGED <<settings, asks, pc>>
    BY <1>0, <2>1, VoiceKept
  <2>2. ASSUME NEW c \in Calls, Start(c) \/ Spend(c) \/ EndCall(c) PROVE VoiceInv'
    <3>1. CASE AskForVoice(c) \/ Spend(c)
      BY <2>1, <3>1 DEF AskForVoice, Spend, callVars
    <3>2. CASE ~(AskForVoice(c) \/ Spend(c))
      BY <1>0, <2>2, <3>2, VoiceStart DEF Start
    <3> QED BY <3>1, <3>2
  <2>3. ASSUME NEW d \in Descriptions, Describe(d) \/ \E k \in Kinds : AskForDescription(d, k)
        PROVE  VoiceInv'
    BY <2>1, <2>3 DEF Describe, AskForDescription, callVars
  <2> QED BY <2>1, <2>2, <2>3 DEF GateNext, StartUp, callVars, spendVars, gateVars
<1>3. DescriptionInv'
  <2>1. CASE UNCHANGED described
    BY <1>0, <2>1, DescriptionKept
  <2>2. CASE \E d \in Descriptions : Describe(d)
    BY <1>0, <2>2, DescriptionMade
  <2> QED BY <2>1, <2>2 DEF GateNext, StartUp, Start, SkipSpendCheck, AskSpend, CheckSpend,
                            DecideOnSpend, SpendUnread, SkipVoiceCheck, AskForVoice,
                            HearAboutVoice, AbandonCall, Resolve, Spend, EndCall,
                            AskForDescription, gateVars
<1> QED BY <1>1, <1>2, <1>3 DEF GateInv

LEMMA GateInvHolds == GateSpec => []GateInv
BY GateInvInit, GateStep, CacheTypesHold, FreshInvHolds, PTL DEF GateSpec

LEMMA EvidenceFromInvariants ==
    ASSUME CacheTypes, FreshInv, GateInv
    PROVE  EvidenceIsFresh
<1>1. AnswersAreFresh
  BY DEF FreshInv, AnswersRan, AnswersAreFresh
<1>2. VoiceRefusedOnEvidence
  <2> SUFFICES ASSUME NEW c \in Calls, NeedsEngine(c), asking[c]["tts"] = "answered"
               PROVE  LET ran == {v \in Reports :
                                    lastRun["tts"][v] > result[c]["tts"].called - Ttl} IN
                      /\ pc[c] = "refused" /\ Buildable("selfhosted") =>
                           \E v \in ran : asks[c].engine \notin v
                      /\ pc[c] = "admitted" /\ result[c]["tts"].state = "ok" =>
                           \E v \in ran : asks[c].engine \in v
    BY DEF VoiceRefusedOnEvidence
  <2>1. c \in Callers /\ "tts" \in Kinds
    BY CallersAssumption, KindsAssumption
  <2>2. result[c]["tts"].state = "ok" =>
            result[c]["tts"].value
                \in {v \in Reports : lastRun["tts"][v] > result[c]["tts"].called - Ttl}
    BY <2>1 DEF FreshInv, AnswersRan
  <2> QED BY <2>2 DEF GateInv, VoiceInv, Spoken
<1>3. ConfirmedIsWhatRan
  BY CallersAssumption DEF GateInv, DescriptionInv, FreshInv, AnswersRan, ConfirmedIsWhatRan
<1> QED BY <1>1, <1>2, <1>3 DEF EvidenceIsFresh

(* Whatever is deployed when, however probes fail and callers give up:     *)
(* what callers are told did run less than a ttl before they asked or      *)
(* since; a call is refused for its voice, and an engine confirmed in a    *)
(* description, on such an answer and never on a failed probe.             *)
THEOREM EvidenceStaysFresh == GateSpec => []EvidenceIsFresh
BY CacheTypesHold, FreshInvHolds, GateInvHolds, EvidenceFromInvariants, PTL

-----------------------------------------------------------------------------
(* The gate: the type invariant.                                           *)

(* The bounded counters, the settings, and the total as the sum of what    *)
(* the calls have spent: the pairs of a call and a unit it has spent.      *)
Units == Calls \X (1..CostPerCall)
SpentUnits == {cn \in Units : cn[2] <= spentBy[cn[1]]}

AccountTypes ==
    /\ now \in 0..MaxClock /\ loop \in 1..MaxLoops
    /\ settings \in Deployments
    /\ startup \in {"starting", "up", "refused"}
    /\ spentBy \in [Calls -> 0..CostPerCall]
    /\ spent = Cardinality(SpentUnits)
    /\ readFrom \in [Calls -> 0..spent]

LEMMA UnitsAreFinite ==
    ASSUME NEW W \in SUBSET Units
    PROVE  IsFiniteSet(W) /\ Cardinality(W) \in Nat
<1>1. IsFiniteSet(1..CostPerCall)
  BY SpendAssumption, FS_Interval
<1>2. IsFiniteSet(Units)
  BY <1>1, CallsAssumption, FS_Product DEF Units
<1> QED BY <1>2, FS_Subset, FS_CardinalityType

LEMMA AccountInit == GateInit => AccountTypes
<1> SUFFICES ASSUME GateInit PROVE AccountTypes
  OBVIOUS
<1>1. now \in 0..MaxClock /\ loop \in 1..MaxLoops
  BY BoundsAssumption DEF GateInit, EnginesInit
<1>2. spentBy \in [Calls -> 0..CostPerCall]
  BY SpendAssumption DEF GateInit
<1>3. SpentUnits = {} /\ readFrom \in [Calls -> 0..spent]
  BY SpendAssumption DEF GateInit, SpentUnits, Units
<1> QED BY <1>1, <1>2, <1>3, FS_EmptySet DEF GateInit, AccountTypes

(* What an admitted call spends is one more unit of its own.               *)
LEMMA SpendTakesAUnit ==
    ASSUME AccountTypes, NEW c \in Calls, Spend(c)
    PROVE  /\ <<c, spentBy[c] + 1>> \in Units \ SpentUnits
           /\ SpentUnits' = SpentUnits \cup {<<c, spentBy[c] + 1>>}
           /\ spentBy' \in [Calls -> 0..CostPerCall]
<1>1. spentBy \in [Calls -> 0..CostPerCall] /\ CostPerCall \in Nat
  BY SpendAssumption DEF AccountTypes
<1>2. spentBy[c] \in Nat /\ spentBy[c] < CostPerCall
      /\ spentBy' = [spentBy EXCEPT ![c] = spentBy[c] + 1]
  BY <1>1 DEF Spend
<1>3. /\ spentBy'[c] = spentBy[c] + 1
      /\ \A d \in Calls : d # c => spentBy'[d] = spentBy[d]
  BY <1>1, <1>2
<1>4. ASSUME NEW cn \in Units
      PROVE  cn[2] <= spentBy'[cn[1]]
                <=> (cn[2] <= spentBy[cn[1]] \/ cn = <<c, spentBy[c] + 1>>)
  <2>1. PICK d \in Calls, n \in 1..CostPerCall : cn = <<d, n>>
    BY <1>4 DEF Units
  <2>2. spentBy[d] \in Nat /\ n \in Nat
    BY <1>1
  <2>3. CASE d = c
    BY <1>2, <1>3, <2>1, <2>2, <2>3
  <2>4. CASE d # c
    BY <1>3, <2>1, <2>4
  <2> QED BY <2>3, <2>4
<1>5. <<c, spentBy[c] + 1>> \in Units
  BY <1>1, <1>2 DEF Units
<1>6. <<c, spentBy[c] + 1>> \notin SpentUnits
  BY <1>2 DEF SpentUnits
<1>7. SpentUnits' = {cn \in Units : cn[2] <= spentBy'[cn[1]]}
  BY DEF SpentUnits, Units
<1>8. SpentUnits' = SpentUnits \cup {<<c, spentBy[c] + 1>>}
  BY <1>4, <1>5, <1>7 DEF SpentUnits
<1>9. spentBy' \in [Calls -> 0..CostPerCall]
  BY <1>1, <1>2
<1> QED BY <1>5, <1>6, <1>8, <1>9

LEMMA AccountStep == AccountTypes /\ [GateNext]_gateVars => AccountTypes'
<1> SUFFICES ASSUME AccountTypes, [GateNext]_gateVars PROVE AccountTypes'
  OBVIOUS
<1>1. now' \in 0..MaxClock /\ loop' \in 1..MaxLoops
  <2>1. [EnginesStep]_engineVars
    BY StepIsEnginesStep
  <2>2. UNCHANGED now \/ (now < MaxClock /\ now' = now + 1)
    BY <2>1 DEF EnginesStep, EnginesNext, Tick, ChangeLoop, ProbeAnswered, ProbeFails, ProbeBreaks,
                Complete, Deploy, GiveUp, Report, engineVars
  <2>3. UNCHANGED loop \/ (loop < MaxLoops /\ loop' = loop + 1)
    BY <2>1 DEF EnginesStep, EnginesNext, Tick, ChangeLoop, ProbeAnswered, ProbeFails, ProbeBreaks,
                Complete, Deploy, GiveUp, Report, engineVars, cacheVars
  <2> QED BY <2>2, <2>3, BoundsAssumption DEF AccountTypes
<1>2. settings' \in Deployments /\ startup' \in {"starting", "up", "refused"}
  BY DEF AccountTypes, GateNext, StartUp, Start, SkipSpendCheck, AskSpend, CheckSpend,
         DecideOnSpend, SpendUnread, SkipVoiceCheck, AskForVoice, HearAboutVoice, AbandonCall,
         Resolve, Spend, EndCall, Describe, AskForDescription, gateVars
<1>3. CASE \E c \in Calls : Spend(c)
  <2>1. PICK c \in Calls : Spend(c)
    BY <1>3
  <2>2. SpentUnits \in SUBSET Units
    BY DEF SpentUnits
  <2>3. IsFiniteSet(SpentUnits) /\ spent = Cardinality(SpentUnits)
    BY <2>2, UnitsAreFinite DEF AccountTypes
  <2>4. Cardinality(SpentUnits') = Cardinality(SpentUnits) + 1
    BY <2>1, <2>3, SpendTakesAUnit, FS_AddElement
  <2>5. spent' = spent + 1 /\ readFrom' = readFrom
    BY <2>1 DEF Spend
  <2>6. spent \in Nat
    BY <2>2, <2>3, UnitsAreFinite
  <2>7. readFrom' \in [Calls -> 0..spent']
    BY <2>5, <2>6 DEF AccountTypes
  <2> QED BY <1>1, <1>2, <2>1, <2>3, <2>4, <2>5, <2>7, SpendTakesAUnit DEF AccountTypes
<1>4. CASE /\ UNCHANGED <<spent, spentBy>>
           /\ \/ UNCHANGED readFrom
              \/ \E c \in Calls : \E sum \in {0, spent} : readFrom' = [readFrom EXCEPT ![c] = sum]
  <2>1. SpentUnits' = SpentUnits
    BY <1>4 DEF SpentUnits, Units
  <2>2. SpentUnits \in SUBSET Units
    BY DEF SpentUnits
  <2>3. spent \in Nat
    BY <2>2, UnitsAreFinite DEF AccountTypes
  <2>4. readFrom' \in [Calls -> 0..spent]
    BY <1>4, <2>3 DEF AccountTypes
  <2> QED BY <1>1, <1>2, <1>4, <2>1, <2>4 DEF AccountTypes
<1>5. \/ \E c \in Calls : Spend(c)
      \/ /\ UNCHANGED <<spent, spentBy>>
         /\ \/ UNCHANGED readFrom
            \/ \E c \in Calls : \E sum \in {0, spent} : readFrom' = [readFrom EXCEPT ![c] = sum]
  BY DEF GateNext, StartUp, Start, SkipSpendCheck, AskSpend, CheckSpend, DecideOnSpend,
         SpendUnread, SkipVoiceCheck, AskForVoice, HearAboutVoice, AbandonCall, Resolve, EndCall,
         Describe, AskForDescription, callVars, spendVars, gateVars
<1> QED BY <1>3, <1>4, <1>5

LEMMA AdmissionTypesHold == CacheTypes /\ GateInv /\ AccountTypes => AdmissionTypes
BY DEF CacheTypes, AskStates, TaskStates, GateInv, GateTypes, AccountTypes, SpentUnits, Units,
       AdmissionTypes, EnginesTypeOK

-----------------------------------------------------------------------------
(* The gate: the EU-only profile.                                          *)

(* Calls come once the profile has been checked, and only those to a       *)
(* pipeline it checked are admitted.                                       *)
ProfileInv ==
    /\ startup # "up" => \A c \in Calls : pc[c] = "new"
    /\ startup = "up" /\ settings.euOnly => Offenders = {}
    /\ \A c \in Calls : pc[c] = "admitted" => Buildable(asks[c].pipeline)

LEMMA ProfileInit == GateInit => ProfileInv
BY DEF GateInit, ProfileInv

LEMMA ProfileStep == GateInv /\ ProfileInv /\ [GateNext]_gateVars => ProfileInv'
<1> SUFFICES ASSUME GateInv, ProfileInv, [GateNext]_gateVars PROVE ProfileInv'
  OBVIOUS
<1>1. UNCHANGED <<settings, asks>>
  BY DEF GateNext, StartUp, Start, SkipSpendCheck, AskSpend, CheckSpend, DecideOnSpend,
         SpendUnread, SkipVoiceCheck, AskForVoice, HearAboutVoice, AbandonCall, Resolve, Spend,
         EndCall, Describe, AskForDescription, gateVars
<1>2. /\ Offenders' = Offenders
      /\ \A c \in Calls :
            Buildable(asks[c].pipeline)' <=> Buildable(asks[c].pipeline)
  BY <1>1 DEF Offenders, Selectable, Buildable
<1>3. CASE UNCHANGED <<startup, pc>>
  BY <1>1, <1>2, <1>3 DEF ProfileInv
<1>4. CASE StartUp
  BY <1>1, <1>2, <1>4 DEF StartUp, callVars, ProfileInv
<1>5. ASSUME NEW c \in Calls, Start(c) \/ Spend(c) \/ EndCall(c), pc' # pc
      PROVE  ProfileInv'
  <2>1. pc[c] # "new" \/ startup = "up"
    BY <1>5 DEF Start, SkipSpendCheck, AskSpend, CheckSpend, DecideOnSpend, SpendUnread,
                SkipVoiceCheck, AskForVoice, HearAboutVoice, AbandonCall, Resolve, Spend, EndCall,
                callVars
  <2>2. startup = "up"
    BY <2>1 DEF ProfileInv
  <2>3. startup' = startup
    BY <1>5 DEF Start, SkipSpendCheck, AskSpend, CheckSpend, DecideOnSpend, SpendUnread,
                SkipVoiceCheck, AskForVoice, HearAboutVoice, AbandonCall, Resolve, Spend, EndCall
  <2>4. PICK point : pc' = [pc EXCEPT ![c] = point]
    BY <1>5 DEF Start, SkipSpendCheck, AskSpend, CheckSpend, DecideOnSpend, SpendUnread,
                SkipVoiceCheck, AskForVoice, HearAboutVoice, AbandonCall, Resolve, Spend, EndCall,
                callVars, Goto
  <2>5. pc'[c] = "admitted" => Buildable(asks[c].pipeline)
    BY <1>5 DEF GateInv, GateTypes, Start, SkipSpendCheck, AskSpend, CheckSpend, DecideOnSpend,
                SpendUnread, SkipVoiceCheck, AskForVoice, HearAboutVoice, AbandonCall, Resolve,
                Spend, EndCall, callVars, Goto
  <2>6. \A d \in Calls : d # c => pc'[d] = pc[d]
    BY <2>4 DEF GateInv, GateTypes
  <2> QED BY <1>1, <1>2, <2>2, <2>3, <2>5, <2>6 DEF ProfileInv
<1>6. \/ UNCHANGED <<startup, pc>> \/ StartUp
      \/ \E c \in Calls : (Start(c) \/ Spend(c) \/ EndCall(c)) /\ pc' # pc
  BY DEF GateNext, Start, SkipSpendCheck, AskSpend, CheckSpend, DecideOnSpend, SpendUnread,
         SkipVoiceCheck, AskForVoice, HearAboutVoice, AbandonCall, Resolve, Spend, EndCall,
         Describe, AskForDescription, callVars, spendVars, gateVars
<1> QED BY <1>3, <1>4, <1>5, <1>6

LEMMA EuOnlyFromInvariants == GateInv /\ ProfileInv => EuOnlyStaysInEu
<1> SUFFICES ASSUME GateInv, ProfileInv, NEW c \in Calls, pc[c] = "admitted", settings.euOnly
             PROVE  /\ Components(asks[c].pipeline) \cap settings.leaving = {}
                    /\ asks[c].pipeline = "selfhosted" =>
                         \A k \in Kinds : Entries[k] \cap settings.leaving = {}
  BY DEF EuOnlyStaysInEu
<1>1. asks[c].pipeline \in Selectable /\ Offenders = {}
  BY DEF ProfileInv, Buildable
<1>2. (UNION {Components(p) : p \in Selectable}) \cap settings.leaving = {}
  BY <1>1 DEF Offenders
<1>3. Components(asks[c].pipeline) \subseteq UNION {Components(p) : p \in Selectable}
  BY <1>1
<1>4. "selfhosted" \in Selectable =>
          (UNION {Entries[k] : k \in Kinds}) \cap settings.leaving = {}
  BY <1>1 DEF Offenders
<1> QED BY <1>1, <1>2, <1>3, <1>4

-----------------------------------------------------------------------------
(* The gate: the spend limit.                                              *)

(* The units that the calls in or past the check may yet spend.            *)
LeftUnits == {cn \in Spending \X (1..CostPerCall) : cn[2] > spentBy[cn[1]]}

(* What is spent and what may yet be is covered by the calls that were in  *)
(* or past the check together when the last of them asked for the total.   *)
BudgetInv ==
    /\ peak \in Nat
    /\ peak = 0 => spent = 0 /\ Spending = {}
    /\ peak > 0 => spent + Cardinality(LeftUnits) <= SpendLimit - 1 + CostPerCall * peak

LEMMA MaxOfTwo ==
    ASSUME NEW m \in Int, NEW n \in Int
    PROVE  Max({m, n}) \in {m, n} /\ Max({m, n}) >= m /\ Max({m, n}) >= n
<1>1. \E x \in {m, n} : \A y \in {m, n} : x >= y
  OBVIOUS
<1> QED BY <1>1 DEF Max

LEMMA CostGrows ==
    ASSUME NEW m \in Nat, NEW n \in Nat, m <= n
    PROVE  /\ CostPerCall * m \in Nat /\ CostPerCall * n \in Nat
           /\ m * CostPerCall <= CostPerCall * n /\ CostPerCall * m <= CostPerCall * n
<1>1. CostPerCall \in Nat
  BY SpendAssumption
<1> QED BY <1>1

(* A set of calls has at most so much to spend.                            *)
LEMMA CallsCostAtMost ==
    ASSUME NEW S \in SUBSET Calls, NEW W \in SUBSET (S \X (1..CostPerCall)), NEW n \in Nat,
           Cardinality(S) <= n
    PROVE  Cardinality(W) <= CostPerCall * n
<1>1. IsFiniteSet(S) /\ Cardinality(S) \in Nat
  BY CallsAssumption, FS_Subset, FS_CardinalityType
<1>2. IsFiniteSet(1..CostPerCall) /\ Cardinality(1..CostPerCall) = CostPerCall
  BY SpendAssumption, FS_Interval
<1>3. /\ IsFiniteSet(S \X (1..CostPerCall))
      /\ Cardinality(S \X (1..CostPerCall)) = Cardinality(S) * CostPerCall
  BY <1>1, <1>2, FS_Product
<1>4. Cardinality(W) \in Nat /\ Cardinality(W) <= Cardinality(S) * CostPerCall
  BY <1>3, FS_Subset, FS_CardinalityType
<1>5. Cardinality(S) * CostPerCall <= CostPerCall * n /\ CostPerCall * n \in Nat
  BY <1>1, CostGrows
<1>6. Cardinality(S) * CostPerCall \in Nat
  BY <1>3, FS_CardinalityType
<1> QED BY <1>4, <1>5, <1>6

LEMMA LeftUnitsAreUnits ==
    /\ LeftUnits \in SUBSET Units /\ LeftUnits' \in SUBSET Units
    /\ Spending \in SUBSET Calls /\ Spending' \in SUBSET Calls
BY DEF LeftUnits, Spending, Units

LEMMA BudgetInit == GateInit => BudgetInv
BY DEF GateInit, BudgetInv, Spending, MaySpend

(* The total is no greater, no call more may spend, and none has less.     *)
LEMMA BudgetKept ==
    ASSUME AccountTypes, BudgetInv, UNCHANGED <<spent, spentBy>>,
           Spending' \subseteq Spending, peak' \in Nat, peak' >= peak, peak = 0 => peak' = 0
    PROVE  BudgetInv'
<1>1. LeftUnits' \in SUBSET LeftUnits
  BY DEF LeftUnits
<1>2. Cardinality(LeftUnits') <= Cardinality(LeftUnits)
  BY <1>1, LeftUnitsAreUnits, UnitsAreFinite, FS_Subset
<1>3. Cardinality(LeftUnits) \in Nat /\ Cardinality(LeftUnits') \in Nat
  BY LeftUnitsAreUnits, UnitsAreFinite
<1>4. spent \in Nat
  BY UnitsAreFinite DEF AccountTypes, SpentUnits
<1>5. peak \in Nat /\ CostPerCall * peak <= CostPerCall * peak'
      /\ CostPerCall * peak \in Nat /\ CostPerCall * peak' \in Nat
  <2>1. peak \in Nat /\ peak' \in Nat /\ peak <= peak'
    BY DEF BudgetInv
  <2> QED BY <2>1, CostGrows
<1> QED BY <1>2, <1>3, <1>4, <1>5, SpendAssumption DEF BudgetInv

(* Only a query that begins below the limit adds a call to them.           *)
LEMMA BudgetAsked ==
    ASSUME AccountTypes, GateTypes, BudgetInv, NEW c \in Calls, AskSpend(c)
    PROVE  BudgetInv'
<1> DEFINE asked == IF spent < SpendLimit THEN Spending \cup {c} ELSE Spending
<1>1. /\ UNCHANGED <<asks, spent, spentBy>> /\ pc[c] = "new" /\ Metered(c)
      /\ pc' = [pc EXCEPT ![c] = "reading"] /\ readFrom' = [readFrom EXCEPT ![c] = spent]
      /\ peak' = Max({peak, Cardinality(asked)})
  BY DEF AskSpend, Goto
<1>2. spent \in Nat
  BY UnitsAreFinite DEF AccountTypes, SpentUnits
<1>3. Spending' = asked
  <2>1. Spending' = {d \in Calls : Metered(d) /\ MaySpend(pc'[d], readFrom'[d])}
    BY <1>1 DEF Spending, Metered
  <2>2. \A d \in Calls : d # c => pc'[d] = pc[d] /\ readFrom'[d] = readFrom[d]
    BY <1>1 DEF GateTypes, AccountTypes
  <2>3. pc'[c] = "reading" /\ readFrom'[c] = spent
    BY <1>1 DEF GateTypes, AccountTypes
  <2>4. ~MaySpend(pc[c], readFrom[c]) /\ (MaySpend(pc'[c], readFrom'[c]) <=> spent < SpendLimit)
    BY <1>1, <2>3 DEF MaySpend
  <2> QED BY <1>1, <2>1, <2>2, <2>4 DEF Spending
<1>4. Cardinality(Spending') \in Nat
  BY LeftUnitsAreUnits, CallsAssumption, FS_Subset, FS_CardinalityType
<1>5. /\ peak' \in {peak, Cardinality(Spending')} /\ peak' \in Nat
      /\ peak' >= peak /\ peak' >= Cardinality(Spending')
  <2>1. peak' = Max({peak, Cardinality(Spending')})
    BY <1>1, <1>3
  <2>2. peak \in Nat
    BY DEF BudgetInv
  <2> DEFINE m == Cardinality(Spending')
  <2>3. Max({peak, m}) \in {peak, m} /\ Max({peak, m}) >= peak /\ Max({peak, m}) >= m
    <3> HIDE DEF m
    <3>1. peak \in Int /\ m \in Int
      BY <1>4, <2>2 DEF m
    <3> QED BY <3>1, MaxOfTwo
  <2> QED BY <1>4, <2>1, <2>2, <2>3
<1>6. CASE spent < SpendLimit
  <2>1. Cardinality(Spending') # 0
    BY <1>3, <1>6, LeftUnitsAreUnits, CallsAssumption, FS_Subset, FS_EmptySet
  <2>2. LeftUnits' \in SUBSET (Spending' \X (1..CostPerCall))
    BY DEF LeftUnits
  <2>3. Cardinality(LeftUnits') <= CostPerCall * peak'
    BY <1>5, <2>2, LeftUnitsAreUnits, CallsCostAtMost
  <2>4. Cardinality(LeftUnits') \in Nat /\ CostPerCall * peak' \in Nat
    BY <1>5, LeftUnitsAreUnits, UnitsAreFinite, CostGrows
  <2> QED BY <1>1, <1>2, <1>4, <1>5, <1>6, <2>1, <2>3, <2>4, SpendAssumption DEF BudgetInv
<1>7. CASE ~(spent < SpendLimit)
  <2>1. Spending' \subseteq Spending
    BY <1>3, <1>7
  <2>2. peak = 0 => peak' = 0
    <3>1. peak = 0 => Spending' = {}
      BY <2>1 DEF BudgetInv
    <3> QED BY <1>5, <3>1, FS_EmptySet
  <2> QED BY <1>1, <1>5, <2>1, <2>2, BudgetKept
<1> QED BY <1>6, <1>7

(* What the query answers is no less than when it began: a call that was   *)
(* not among them does not pass.                                           *)
LEMMA BudgetChecked ==
    ASSUME AccountTypes, GateTypes, BudgetInv, NEW c \in Calls, CheckSpend(c) \/ SpendUnread(c)
    PROVE  BudgetInv'
<1>1. /\ UNCHANGED <<asks, spent, spentBy, peak>> /\ pc[c] = "reading"
      /\ readFrom' = [readFrom EXCEPT ![c] = 0]
      /\ \/ pc' = [pc EXCEPT ![c] = "refused"] \/ pc' = [pc EXCEPT ![c] = "over"]
         \/ /\ pc' = [pc EXCEPT ![c] = "vetted"]
            /\ \E sum \in readFrom[c]..spent : sum < SpendLimit
  BY DEF CheckSpend, DecideOnSpend, SpendUnread, Goto
<1>2. spent \in Nat /\ readFrom[c] \in Nat
  <2>1. spent \in Nat
    BY UnitsAreFinite DEF AccountTypes, SpentUnits
  <2> QED BY <2>1 DEF AccountTypes
<1>3. MaySpend(pc'[c], readFrom'[c]) => MaySpend(pc[c], readFrom[c])
  <2>1. CASE pc'[c] \in {"refused", "over"}
    BY <2>1 DEF MaySpend
  <2>2. CASE \E sum \in readFrom[c]..spent : sum < SpendLimit
    <3>1. readFrom[c] < SpendLimit
      BY <1>2, <2>2, SpendAssumption
    <3> QED BY <1>1, <3>1 DEF MaySpend
  <2> QED BY <1>1, <2>1, <2>2 DEF GateTypes
<1>4. \A d \in Calls : d # c => pc'[d] = pc[d] /\ readFrom'[d] = readFrom[d]
  BY <1>1 DEF GateTypes, AccountTypes
<1>5. Spending' \subseteq Spending
  BY <1>1, <1>3, <1>4 DEF Spending, Metered
<1> QED BY <1>1, <1>5, BudgetKept DEF BudgetInv

(* What is spent was left to spend.                                        *)
LEMMA BudgetSpent ==
    ASSUME AccountTypes, BudgetInv, NEW c \in Calls, Spend(c)
    PROVE  BudgetInv'
<1>1. /\ pc[c] = "admitted" /\ Metered(c) /\ spentBy[c] < CostPerCall
      /\ UNCHANGED <<asks, pc, readFrom, peak>> /\ spent' = spent + 1
      /\ spentBy' = [spentBy EXCEPT ![c] = spentBy[c] + 1]
  BY DEF Spend
<1>2. spentBy[c] \in Nat /\ CostPerCall \in Nat /\ c \in Spending
  BY <1>1, SpendAssumption DEF Spending, MaySpend, AccountTypes
<1>3. <<c, spentBy[c] + 1>> \in LeftUnits
  BY <1>1, <1>2 DEF LeftUnits
<1>4. LeftUnits' \subseteq LeftUnits \ {<<c, spentBy[c] + 1>>}
  <2> SUFFICES ASSUME NEW d \in Spending, NEW n \in 1..CostPerCall, n > spentBy'[d]
               PROVE  n > spentBy[d] /\ <<d, n>> # <<c, spentBy[c] + 1>>
    BY <1>1 DEF LeftUnits, Spending, Metered
  <2>1. d \in Calls
    BY DEF Spending
  <2>2. spentBy[d] \in Nat /\ n \in Nat
    BY <2>1 DEF AccountTypes
  <2>3. spentBy'[d] = IF d = c THEN spentBy[c] + 1 ELSE spentBy[d]
    BY <1>1, <2>1 DEF AccountTypes
  <2> QED BY <1>2, <2>2, <2>3
<1>5. IsFiniteSet(LeftUnits) /\ Cardinality(LeftUnits) \in Nat
      /\ Cardinality(LeftUnits') \in Nat
  BY LeftUnitsAreUnits, UnitsAreFinite
<1>6. /\ IsFiniteSet(LeftUnits \ {<<c, spentBy[c] + 1>>})
      /\ Cardinality(LeftUnits \ {<<c, spentBy[c] + 1>>}) = Cardinality(LeftUnits) - 1
  BY <1>3, <1>5, FS_RemoveElement
<1>7. Cardinality(LeftUnits') <= Cardinality(LeftUnits) - 1
  BY <1>4, <1>6, FS_Subset
<1>8. peak > 0 /\ CostPerCall * peak \in Nat /\ spent \in Nat
  BY <1>2, CostGrows, UnitsAreFinite DEF BudgetInv, AccountTypes, SpentUnits
<1> QED BY <1>1, <1>5, <1>7, <1>8, SpendAssumption DEF BudgetInv

LEMMA BudgetStep == GateInv /\ AccountTypes /\ BudgetInv /\ [GateNext]_gateVars => BudgetInv'
<1> SUFFICES ASSUME GateInv, AccountTypes, BudgetInv, [GateNext]_gateVars PROVE BudgetInv'
  OBVIOUS
<1>1. GateTypes /\ peak \in Nat
  BY DEF GateInv, BudgetInv
<1>2. CASE UNCHANGED <<asks, pc, spendVars>>
  <2>1. Spending' \subseteq Spending
    BY <1>2 DEF Spending, Metered, spendVars
  <2> QED BY <1>1, <1>2, <2>1, BudgetKept DEF spendVars
<1>3. ASSUME NEW c \in Calls, \/ SkipSpendCheck(c) \/ SkipVoiceCheck(c) \/ HearAboutVoice(c)
                              \/ AbandonCall(c) \/ Resolve(c) \/ EndCall(c)
      PROVE  BudgetInv'
  <2>1. UNCHANGED <<asks, spendVars>>
    BY <1>3 DEF SkipSpendCheck, SkipVoiceCheck, HearAboutVoice, AbandonCall, Resolve, EndCall
  <2>2. /\ Metered(c) => pc[c] \in {"vetted", "resolving", "admitted"}
        /\ \A d \in Calls : d # c => pc'[d] = pc[d]
    BY <1>1, <1>3 DEF SkipSpendCheck, SkipVoiceCheck, HearAboutVoice, AbandonCall, Resolve,
                      EndCall, Goto, GateTypes
  <2>3. Spending' \subseteq Spending
    BY <2>1, <2>2 DEF Spending, Metered, MaySpend, spendVars
  <2> QED BY <1>1, <2>1, <2>3, BudgetKept DEF spendVars
<1>4. CASE \E c \in Calls : AskSpend(c)
  BY <1>1, <1>4, BudgetAsked
<1>5. CASE \E c \in Calls : CheckSpend(c) \/ SpendUnread(c)
  BY <1>1, <1>5, BudgetChecked
<1>6. CASE \E c \in Calls : Spend(c)
  BY <1>6, BudgetSpent
<1>7. \/ UNCHANGED <<asks, pc, spendVars>>
      \/ \E c \in Calls : \/ SkipSpendCheck(c) \/ AskSpend(c) \/ CheckSpend(c) \/ SpendUnread(c)
                           \/ SkipVoiceCheck(c) \/ HearAboutVoice(c) \/ AbandonCall(c)
                           \/ Resolve(c) \/ EndCall(c) \/ Spend(c)
  BY DEF GateNext, StartUp, Start, AskForVoice, Describe, AskForDescription, callVars, gateVars
<1> QED BY <1>2, <1>3, <1>4, <1>5, <1>6, <1>7

LEMMA OverspendFromInvariants == AccountTypes /\ BudgetInv => OverspendIsBounded
<1> SUFFICES ASSUME AccountTypes, BudgetInv, spent > 0
             PROVE  spent <= SpendLimit - 1 + CostPerCall * peak
  BY DEF OverspendIsBounded
<1>1. Cardinality(LeftUnits) \in Nat /\ spent \in Nat
  BY LeftUnitsAreUnits, UnitsAreFinite DEF AccountTypes, SpentUnits
<1>2. peak \in Nat /\ CostPerCall * peak \in Nat /\ peak > 0
  BY CostGrows DEF BudgetInv
<1> QED BY <1>1, <1>2, SpendAssumption DEF BudgetInv

(* Whatever the calls ask for and whenever they start: a call admitted     *)
(* under the EU-only profile sends nothing, and could be switched to       *)
(* nothing, that leaves the EU; and the total exceeds the spend limit by   *)
(* at most what the calls that were in or past the check together may.     *)
THEOREM AdmissionKeepsPolicy == GateSpec => []AdmittedWithinPolicy
<1>1. GateSpec => [](AccountTypes /\ ProfileInv /\ BudgetInv)
  BY AccountInit, AccountStep, ProfileInit, ProfileStep, BudgetInit, BudgetStep, GateInvHolds,
     PTL DEF GateSpec
<1>2. CacheTypes /\ GateInv /\ AccountTypes /\ ProfileInv /\ BudgetInv => AdmittedWithinPolicy
  BY AdmissionTypesHold, EuOnlyFromInvariants, OverspendFromInvariants DEF AdmittedWithinPolicy
<1> QED BY <1>1, <1>2, CacheTypesHold, GateInvHolds, PTL

-----------------------------------------------------------------------------
(***************************************************************************)
(* The session.                                                            *)
(***************************************************************************)

(* What a call's end rests on: the frame loop is left by an exception only *)
(* as a failure, and from then on, or once the turn was waited for, a      *)
(* turn's error has been counted and no turn is left to fail.              *)
EndInv ==
    /\ phase \in {"live", "finishing", "cleanup", "closing", "ended", "lost"}
    /\ phase = "cleanup" => failed
    /\ phase \in {"closing", "ended"} => ~Busy /\ (turnError => failed)
    /\ phase = "ended" /\ ~failed => sttState # "failed"

-----------------------------------------------------------------------------
(* _barge_in's reset of _hang_up_at, the early return of _on_audio and the *)
(* end of _respond together keep turns and hang-ups apart.                 *)
THEOREM HangUpIsExclusive == Spec => []NoTurnDuringHangUp
<1>1. Init => NoTurnDuringHangUp
  BY DEF Init, NoTurnDuringHangUp
<1>2. NoTurnDuringHangUp /\ [Next]_vars => NoTurnDuringHangUp'
  <2> SUFFICES ASSUME NoTurnDuringHangUp, [Next]_vars
               PROVE  NoTurnDuringHangUp'
    OBVIOUS
  <2> USE DEF NoTurnDuringHangUp, Busy
  <2>1. CASE Loop
    <3>1. ASSUME NEW speech \in BOOLEAN, FrameWhileBusy(speech)
          PROVE  NoTurnDuringHangUp'
      BY <3>1 DEF FrameWhileBusy, replyVars
    <3>2. ASSUME NEW speech \in BOOLEAN, FrameBeforeHangUp(speech)
          PROVE  NoTurnDuringHangUp'
      BY <3>2 DEF FrameBeforeHangUp, replyVars
    <3>3. ASSUME NEW speech \in BOOLEAN, FrameListening(speech)
          PROVE  NoTurnDuringHangUp'
      BY <3>3 DEF FrameListening, Listening, replyVars
    <3>4. CASE FrameCommits
      BY <3>4 DEF FrameCommits, Listening
    <3>5. CASE AudioEnds \/ AudioFails
      BY <3>5 DEF AudioEnds, AudioFails, replyVars
    <3>6. CASE Finish \/ CleanUp \/ EndSession \/ LoseEnd \/ TickerDies
      BY <3>6 DEF Finish, CleanUp, EndSession, LoseEnd, TickerDies, replyVars
    <3>7. CASE HangUpFallsDue
      BY <3>7 DEF HangUpFallsDue, replyVars
    <3> QED BY <2>1, <3>1, <3>2, <3>3, <3>4, <3>5, <3>6, <3>7 DEF Loop
  <2>2. CASE Turn
    <3>1. CASE TurnBegins
      BY <3>1 DEF TurnBegins
    <3>2. CASE FlushAnswered
      BY <3>2 DEF FlushAnswered, replyVars
    <3>3. CASE FlushGivenUp
      BY <3>3 DEF FlushGivenUp, replyVars
    <3>4. ASSUME NEW text \in {"words", "goodbye"}, LlmReplies(text)
          PROVE  NoTurnDuringHangUp'
      BY <3>4 DEF LlmReplies
    <3>5. CASE AudioStarts
      BY <3>5 DEF AudioStarts
    <3>6. CASE WorkDone \/ InterruptSeen \/ ProviderFails
      BY <3>6 DEF WorkDone, InterruptSeen, ProviderFails, StopWork
    <3>7. CASE TurnFails
      BY <3>7 DEF TurnFails, replyVars
    <3>8. CASE TurnRecorded
      BY <3>8 DEF TurnRecorded, Conclude, replyVars
    <3> QED BY <2>2, <3>1, <3>2, <3>3, <3>4, <3>5, <3>6, <3>7, <3>8 DEF Turn
  <2>3. CASE Stt
    BY <2>3 DEF Stt, SttHears, SttInterim, SttFinal, SttAnswers, SttTimesOut,
                SttAnswersShifted, SttStops, replyVars
  <2>4. CASE UNCHANGED vars
    BY <2>4 DEF vars, replyVars
  <2> QED BY <2>1, <2>2, <2>3, <2>4 DEF Next
<1> QED BY <1>1, <1>2, PTL DEF Spec

-----------------------------------------------------------------------------
(* run()'s two checks of _turn_error, its wait for the turn and its look   *)
(* at the transcript task leave no failure out of the call's status.       *)
THEOREM CompletedMeansClean == Spec => []CompletedCleanly
<1>1. Init => EndInv
  BY DEF Init, EndInv
<1>2. EndInv /\ [Next]_vars => EndInv'
  <2> SUFFICES ASSUME EndInv, [Next]_vars
               PROVE  EndInv'
    OBVIOUS
  <2> USE DEF EndInv, Busy
  <2>1. CASE Loop
    <3>1. ASSUME NEW speech \in BOOLEAN, FrameWhileBusy(speech)
          PROVE  EndInv'
      BY <3>1 DEF FrameWhileBusy, TakeFrame, AfterFrame, sttVars
    <3>2. ASSUME NEW speech \in BOOLEAN, FrameBeforeHangUp(speech)
          PROVE  EndInv'
      BY <3>2 DEF FrameBeforeHangUp, TakeFrame, AfterFrame, sttVars
    <3>3. ASSUME NEW speech \in BOOLEAN, FrameListening(speech)
          PROVE  EndInv'
      BY <3>3 DEF FrameListening, TakeFrame, AfterFrame, sttVars
    <3>4. CASE FrameCommits
      BY <3>4 DEF FrameCommits, TakeFrame, AfterFrame, sttVars
    <3>5. CASE AudioEnds \/ AudioFails
      BY <3>5 DEF AudioEnds, AudioFails, sttVars
    <3>6. CASE Finish
      BY <3>6 DEF Finish, sttVars
    <3>7. CASE CleanUp
      BY <3>7 DEF CleanUp, sttVars
    <3>8. CASE EndSession \/ LoseEnd \/ TickerDies
      <4>1. CASE EndSession
        BY <4>1 DEF EndSession, sttVars
      <4>2. CASE LoseEnd
        BY <4>2 DEF LoseEnd, sttVars
      <4>3. CASE TickerDies
        BY <4>3 DEF TickerDies, sttVars
      <4> QED BY <3>8, <4>1, <4>2, <4>3
    <3>9. CASE HangUpFallsDue
      BY <3>9 DEF HangUpFallsDue, sttVars, loopVars
    <3> QED BY <2>1, <3>1, <3>2, <3>3, <3>4, <3>5, <3>6, <3>7, <3>8, <3>9 DEF Loop
  <2>2. CASE Turn
    <3>1. CASE TurnBegins
      BY <3>1 DEF TurnBegins, sttVars, loopVars
    <3>2. CASE FlushAnswered
      BY <3>2 DEF FlushAnswered, Transcribed, sttVars, loopVars
    <3>3. CASE FlushGivenUp
      BY <3>3 DEF FlushGivenUp, Transcribed, sttVars, loopVars
    <3>4. ASSUME NEW text \in {"words", "goodbye"}, LlmReplies(text)
          PROVE  EndInv'
      BY <3>4 DEF LlmReplies, sttVars, loopVars
    <3>5. CASE AudioStarts
      BY <3>5 DEF AudioStarts, sttVars, loopVars
    <3>6. CASE WorkDone \/ InterruptSeen \/ ProviderFails
      BY <3>6 DEF WorkDone, InterruptSeen, ProviderFails, StopWork, sttVars, loopVars
    <3>7. CASE TurnFails
      BY <3>7 DEF TurnFails, sttVars, loopVars
    <3>8. CASE TurnRecorded
      BY <3>8 DEF TurnRecorded, sttVars, loopVars
    <3> QED BY <2>2, <3>1, <3>2, <3>3, <3>4, <3>5, <3>6, <3>7, <3>8 DEF Turn
  <2>3. CASE Stt
    BY <2>3 DEF Stt, Streaming, SttHears, SttInterim, SttFinal, SttAnswers, SttTimesOut,
                SttAnswersShifted, SttStops, loopVars, sttVars
  <2>4. CASE UNCHANGED vars
    BY <2>4 DEF vars, loopVars, sttVars
  <2> QED BY <2>1, <2>2, <2>3, <2>4 DEF Next
<1>3. EndInv => CompletedCleanly
  BY DEF EndInv, CompletedCleanly
<1> QED BY <1>1, <1>2, <1>3, PTL DEF Spec

-----------------------------------------------------------------------------
(* Words in order.  A text spans what lies between two words: it holds     *)
(* those after the first up to the second, and no others.                  *)
NumSeq == Seq(Nat)

Spans(text, a, b) ==
    /\ text \in NumSeq /\ Len(text) = b - a
    /\ \A n \in 1..Len(text) : text[n] = a + n

LEMMA EmptySpans ==
    ASSUME NEW a \in Nat
    PROVE  Spans(<<>>, a, a)
<1>1. <<>> \in NumSeq /\ Len(<<>>) = 0
  BY EmptySeq DEF NumSeq
<1> QED BY <1>1 DEF Spans

LEMMA SpansLen ==
    ASSUME NEW a \in Nat, NEW b \in Nat, NEW t, Spans(t, a, b)
    PROVE  a <= b /\ (t = <<>> <=> a = b)
<1>1. Len(t) \in Nat /\ (t = <<>> <=> Len(t) = 0)
  BY EmptySeq, LenProperties DEF Spans, NumSeq
<1> QED BY <1>1 DEF Spans

LEMMA SpansJoin ==
    ASSUME NEW a \in Nat, NEW b \in Nat, NEW c \in Nat, NEW s, NEW t,
           Spans(s, a, b), Spans(t, b, c)
    PROVE  Spans(s \o t, a, c)
<1>1. s \in Seq(Nat) /\ t \in Seq(Nat)
  BY DEF Spans, NumSeq
<1>2. Len(s) \in Nat /\ Len(t) \in Nat /\ Len(s) = b - a /\ Len(t) = c - b
  BY <1>1, LenProperties DEF Spans
<1>3. /\ s \o t \in Seq(Nat) /\ Len(s \o t) = Len(s) + Len(t)
      /\ \A i \in 1..Len(s) + Len(t) :
            (s \o t)[i] = IF i <= Len(s) THEN s[i] ELSE t[i - Len(s)]
  BY <1>1, ConcatProperties
<1>4. ASSUME NEW i \in 1..Len(s) + Len(t) PROVE (s \o t)[i] = a + i
  <2>1. CASE i <= Len(s)
    BY <1>2, <1>3, <2>1 DEF Spans
  <2>2. CASE i > Len(s)
    <3>1. i - Len(s) \in 1..Len(t)
      BY <1>2, <2>2
    <3>2. t[i - Len(s)] = b + (i - Len(s))
      BY <3>1 DEF Spans
    <3> QED BY <1>2, <1>3, <2>2, <3>2
  <2> QED BY <1>2, <2>1, <2>2
<1> QED BY <1>2, <1>3, <1>4 DEF Spans, NumSeq

LEMMA SpansMore ==
    ASSUME NEW a \in Nat, NEW b \in Nat, NEW s, Spans(s, a, b)
    PROVE  Spans(Append(s, b + 1), a, b + 1)
<1>1. s \in Seq(Nat) /\ Len(s) \in Nat /\ Len(s) = b - a
  BY LenProperties DEF Spans, NumSeq
<1>2. /\ Append(s, b + 1) \in Seq(Nat) /\ Len(Append(s, b + 1)) = Len(s) + 1
      /\ \A i \in 1..Len(s) : Append(s, b + 1)[i] = s[i]
      /\ Append(s, b + 1)[Len(s) + 1] = b + 1
  BY <1>1, AppendProperties
<1>3. ASSUME NEW i \in 1..(Len(s) + 1) PROVE Append(s, b + 1)[i] = a + i
  <2>1. i \in 1..Len(s) \/ i = Len(s) + 1
    BY <1>1
  <2>2. CASE i \in 1..Len(s)
    BY <1>1, <1>2, <2>2 DEF Spans
  <2>3. CASE i = Len(s) + 1
    BY <1>1, <1>2, <2>3
  <2> QED BY <2>1, <2>2, <2>3
<1> QED BY <1>1, <1>2, <1>3 DEF Spans, NumSeq

(* The same of the words still on their way to the transcript stream, with *)
(* flushes among them.                                                     *)
QueueSpans(q, a, b) ==
    /\ q \in NumSeq /\ a <= b
    /\ \A i \in 1..Len(q) : q[i] # Flush => q[i] \in (a + 1)..b
    /\ \A i, j \in 1..Len(q) : i < j /\ q[i] # Flush /\ q[j] # Flush => q[i] < q[j]
    /\ \A w \in (a + 1)..b : \E i \in 1..Len(q) : q[i] = w

LEMMA QueueInit == QueueSpans(<<>>, 0, 0)
<1>1. <<>> \in NumSeq /\ Len(<<>>) = 0
  BY EmptySeq DEF NumSeq
<1> QED BY <1>1 DEF QueueSpans

LEMMA QueueWord ==
    ASSUME NEW a \in Nat, NEW b \in Nat, NEW q, QueueSpans(q, a, b)
    PROVE  QueueSpans(Append(q, b + 1), a, b + 1)
<1> DEFINE r == Append(q, b + 1)
<1>1. q \in Seq(Nat) /\ Len(q) \in Nat
  BY LenProperties DEF QueueSpans, NumSeq
<1>2. /\ r \in Seq(Nat) /\ Len(r) = Len(q) + 1
      /\ \A i \in 1..Len(q) : r[i] = q[i]
      /\ r[Len(q) + 1] = b + 1
  BY <1>1, AppendProperties
<1> HIDE DEF r
<1>3. \A i \in 1..Len(r) : i \in 1..Len(q) \/ i = Len(q) + 1
  BY <1>1, <1>2
<1>4. \A i \in 1..Len(q) : i \in 1..Len(r) /\ q[i] \in Nat
  BY SMTT(30), <1>1, <1>2, ElementOfSeq
<1>5. \A i \in 1..Len(r) : r[i] # Flush => r[i] \in (a + 1)..(b + 1)
  BY <1>2, <1>3 DEF QueueSpans
<1>6. \A i, j \in 1..Len(r) : i < j /\ r[i] # Flush /\ r[j] # Flush => r[i] < r[j]
  <2> SUFFICES ASSUME NEW i \in 1..Len(r), NEW j \in 1..Len(r), i < j,
                      r[i] # Flush, r[j] # Flush
               PROVE  r[i] < r[j]
    OBVIOUS
  <2>1. i \in 1..Len(q)
    BY <1>1, <1>2
  <2>2. CASE j \in 1..Len(q)
    BY <1>2, <2>1, <2>2 DEF QueueSpans
  <2>3. CASE j = Len(q) + 1
    <3>1. r[j] = b + 1 /\ r[i] = q[i] /\ q[i] \in (a + 1)..b
      BY <1>2, <2>1, <2>3 DEF QueueSpans
    <3> QED BY <3>1
  <2> QED BY <1>3, <2>2, <2>3
<1>7. \A w \in (a + 1)..(b + 1) : \E i \in 1..Len(r) : r[i] = w
  <2> SUFFICES ASSUME NEW w \in (a + 1)..(b + 1) PROVE \E i \in 1..Len(r) : r[i] = w
    OBVIOUS
  <2>1. CASE w = b + 1
    <3>1. Len(q) + 1 \in 1..Len(r)
      BY <1>1, <1>2
    <3> QED BY <1>2, <2>1, <3>1
  <2>2. CASE w \in (a + 1)..b
    <3>1. PICK i \in 1..Len(q) : q[i] = w
      BY <2>2 DEF QueueSpans
    <3> QED BY <1>2, <1>4, <3>1
  <2> QED BY <2>1, <2>2
<1>8. a <= b + 1
  BY DEF QueueSpans
<1>9. QueueSpans(r, a, b + 1)
  BY <1>2, <1>5, <1>6, <1>7, <1>8 DEF QueueSpans, NumSeq
<1> QED BY <1>9 DEF r

LEMMA QueueFlush ==
    ASSUME NEW a \in Nat, NEW b \in Nat, NEW q, QueueSpans(q, a, b)
    PROVE  QueueSpans(Append(q, Flush), a, b)
<1> DEFINE r == Append(q, Flush)
<1>1. q \in Seq(Nat) /\ Len(q) \in Nat /\ Flush \in Nat
  BY LenProperties DEF QueueSpans, NumSeq, Flush
<1>2. /\ r \in Seq(Nat) /\ Len(r) = Len(q) + 1
      /\ \A i \in 1..Len(q) : r[i] = q[i]
      /\ r[Len(q) + 1] = Flush
  BY <1>1, AppendProperties
<1> HIDE DEF r
<1>3. \A i \in 1..Len(r) : i \in 1..Len(q) \/ r[i] = Flush
  BY <1>1, <1>2
<1>4. \A i \in 1..Len(q) : i \in 1..Len(r)
  BY <1>1, <1>2
<1> QED BY <1>2, <1>3, <1>4 DEF QueueSpans, NumSeq, r

(* Taking the flush out, wherever it is, moves no word.                    *)
LEMMA QueueWithoutFlush ==
    ASSUME NEW a \in Nat, NEW b \in Nat, NEW q, QueueSpans(q, a, b),
           NEW k \in 1..Len(q), q[k] = Flush, NEW r \in Seq(Nat), Len(r) = Len(q) - 1,
           \A i \in 1..Len(r) : r[i] = IF i < k THEN q[i] ELSE q[i + 1]
    PROVE  QueueSpans(r, a, b)
<1>1. q \in Seq(Nat) /\ Len(q) \in Nat /\ Len(r) \in Nat
  BY LenProperties DEF QueueSpans, NumSeq
<1>2. \A i \in 1..Len(r) : i \in 1..Len(q) /\ i + 1 \in 1..Len(q)
  BY <1>1
<1>3. \A i \in 1..Len(r) : r[i] # Flush => r[i] \in (a + 1)..b
  BY <1>2 DEF QueueSpans
<1>4. \A i, j \in 1..Len(r) : i < j /\ r[i] # Flush /\ r[j] # Flush => r[i] < r[j]
  <2> SUFFICES ASSUME NEW i \in 1..Len(r), NEW j \in 1..Len(r), i < j,
                      r[i] # Flush, r[j] # Flush
               PROVE  r[i] < r[j]
    OBVIOUS
  <2> DEFINE m == IF i < k THEN i ELSE i + 1
             n == IF j < k THEN j ELSE j + 1
  <2>1. m \in 1..Len(q) /\ n \in 1..Len(q)
    BY <1>2
  <2>3. m < n
    <3>1. i \in Int /\ j \in Int /\ k \in Int
      BY <1>1
    <3> QED BY <3>1
  <2>2. r[i] = q[m] /\ r[j] = q[n]
    OBVIOUS
  <2> HIDE DEF m, n
  <2> QED BY <2>1, <2>2, <2>3 DEF QueueSpans
<1>5. \A w \in (a + 1)..b : \E i \in 1..Len(r) : r[i] = w
  <2> SUFFICES ASSUME NEW w \in (a + 1)..b PROVE \E i \in 1..Len(r) : r[i] = w
    OBVIOUS
  <2>1. PICK i \in 1..Len(q) : q[i] = w
    BY DEF QueueSpans
  <2>2. i # k
    BY <2>1 DEF Flush
  <2>3. CASE i < k
    <3>1. i \in 1..Len(r) /\ r[i] = q[i]
      BY SMTT(30), <1>1, <2>3
    <3> QED BY <2>1, <3>1
  <2>4. CASE i > k
    <3>1. i - 1 \in 1..Len(r)
      BY <1>1, <2>4
    <3>2. r[i - 1] = q[(i - 1) + 1]
      BY <2>4, <3>1
    <3>3. r[i - 1] = q[i]
      BY <3>2
    <3> QED BY <2>1, <3>1, <3>3
  <2> QED BY <2>2, <2>3, <2>4
<1> QED BY <1>3, <1>4, <1>5 DEF QueueSpans, NumSeq

LEMMA QueueHead ==
    ASSUME NEW a \in Nat, NEW b \in Nat, NEW q, QueueSpans(q, a, b), q # <<>>
    PROVE  /\ Head(q) = Flush => QueueSpans(Tail(q), a, b)
           /\ Head(q) # Flush => Head(q) = a + 1 /\ a + 1 <= b /\ QueueSpans(Tail(q), a + 1, b)
<1>1. q \in Seq(Nat) /\ Len(q) \in Nat \ {0}
  BY EmptySeq DEF QueueSpans, NumSeq
<1>2. /\ Tail(q) \in Seq(Nat) /\ Len(Tail(q)) = Len(q) - 1
      /\ \A i \in 1..Len(Tail(q)) : Tail(q)[i] = q[i + 1]
  BY <1>1, HeadTailProperties
<1>3. Head(q) = q[1] /\ 1 \in 1..Len(q)
  BY <1>1
<1>4. CASE Head(q) = Flush
  <2>1. \A i \in 1..Len(Tail(q)) : Tail(q)[i] = IF i < 1 THEN q[i] ELSE q[i + 1]
    BY <1>1, <1>2
  <2> QED BY <1>2, <1>3, <1>4, <2>1, QueueWithoutFlush
<1>5. CASE Head(q) # Flush
  <2>1. q[1] \in (a + 1)..b
    BY <1>3, <1>5 DEF QueueSpans
  <2>2. q[1] = a + 1
    <3>1. PICK i \in 1..Len(q) : q[i] = a + 1
      BY <2>1 DEF QueueSpans
    <3>2. CASE i = 1
      BY <3>1, <3>2
    <3>3. CASE 1 < i
      <4>1. q[1] < q[i]
        BY <1>3, <1>5, <3>1, <3>3 DEF QueueSpans, Flush
      <4> QED BY <2>1, <3>1, <4>1
    <3> QED BY <3>2, <3>3
  <2>3. \A i \in 1..Len(Tail(q)) : i + 1 \in 1..Len(q) /\ 1 < i + 1 /\ Tail(q)[i] = q[i + 1]
    BY <1>1, <1>2
  <2>4. \A i \in 1..Len(Tail(q)) :
            Tail(q)[i] # Flush => Tail(q)[i] \in ((a + 1) + 1)..b
    <3> SUFFICES ASSUME NEW i \in 1..Len(Tail(q)), Tail(q)[i] # Flush
                 PROVE  Tail(q)[i] \in ((a + 1) + 1)..b
      OBVIOUS
    <3>1. q[i + 1] \in (a + 1)..b /\ q[1] < q[i + 1]
      BY <1>3, <1>5, <2>3 DEF QueueSpans
    <3> QED BY <2>2, <2>3, <3>1
  <2>5. \A i, j \in 1..Len(Tail(q)) :
            i < j /\ Tail(q)[i] # Flush /\ Tail(q)[j] # Flush => Tail(q)[i] < Tail(q)[j]
    BY <2>3 DEF QueueSpans
  <2>6. \A w \in ((a + 1) + 1)..b : \E i \in 1..Len(Tail(q)) : Tail(q)[i] = w
    <3> SUFFICES ASSUME NEW w \in ((a + 1) + 1)..b
                 PROVE  \E i \in 1..Len(Tail(q)) : Tail(q)[i] = w
      OBVIOUS
    <3>1. PICK i \in 1..Len(q) : q[i] = w
      BY DEF QueueSpans
    <3>2. i # 1
      BY <2>2, <3>1
    <3>3. i - 1 \in 1..Len(Tail(q))
      BY <1>1, <1>2, <3>2
    <3>4. Tail(q)[i - 1] = q[(i - 1) + 1] /\ (i - 1) + 1 = i
      BY <2>3, <3>3
    <3>5. Tail(q)[i - 1] = w
      BY <3>1, <3>4
    <3> QED BY <3>3, <3>5
  <2> QED BY <1>2, <1>3, <1>5, <2>1, <2>2, <2>4, <2>5, <2>6 DEF QueueSpans, NumSeq
<1> QED BY <1>4, <1>5

(* The history: what each entry says, in order.                            *)
Lines == [role : {"user", "assistant"}, words : NumSeq]
LineSeq == Seq(Lines)

HistorySpans(hs, b) ==
    /\ hs \in LineSeq
    /\ \A i \in 1..Len(hs) : \A m \in 1..Len(hs[i].words) : hs[i].words[m] \in 1..b
    /\ \A i, j \in 1..Len(hs) :
        \A m \in 1..Len(hs[i].words), n \in 1..Len(hs[j].words) :
            i < j \/ (i = j /\ m < n) => hs[i].words[m] < hs[j].words[n]
    /\ \A w \in 1..b : \E i \in 1..Len(hs) : \E m \in 1..Len(hs[i].words) : hs[i].words[m] = w

LEMMA HistoryInit == HistorySpans(<<>>, 0)
<1>1. <<>> \in LineSeq /\ Len(<<>>) = 0
  BY EmptySeq DEF LineSeq
<1> QED BY <1>1 DEF HistorySpans

LEMMA HistoryMore ==
    ASSUME NEW b \in Nat, NEW c \in Nat, NEW hs, HistorySpans(hs, b),
           NEW line \in Lines, Spans(line.words, b, c)
    PROVE  HistorySpans(hs \o <<line>>, c)
<1> DEFINE r == Append(hs, line)
<1>1. hs \in Seq(Lines) /\ Len(hs) \in Nat
  BY LenProperties DEF HistorySpans, LineSeq
<1>2. hs \o <<line>> = r
  BY <1>1, AppendIsConcat
<1>3. /\ r \in Seq(Lines) /\ Len(r) = Len(hs) + 1
      /\ \A i \in 1..Len(hs) : r[i] = hs[i]
      /\ r[Len(hs) + 1] = line
  BY <1>1, AppendProperties
<1> HIDE DEF r
<1>4. \A i \in 1..Len(r) : i \in 1..Len(hs) \/ i = Len(hs) + 1
  BY <1>1, <1>3
<1>5. \A i \in 1..Len(hs) : i \in 1..Len(r)
  BY <1>1, <1>3
<1>6. b <= c /\ Len(line.words) = c - b /\ \A m \in 1..Len(line.words) : line.words[m] = b + m
  BY SpansLen DEF Spans
<1>7. \A i \in 1..Len(r) : \A m \in 1..Len(r[i].words) : r[i].words[m] \in 1..c
  <2> SUFFICES ASSUME NEW i \in 1..Len(r), NEW m \in 1..Len(r[i].words)
               PROVE  r[i].words[m] \in 1..c
    OBVIOUS
  <2>1. CASE i \in 1..Len(hs)
    <3>1. r[i] = hs[i]
      BY <1>3, <2>1
    <3>2. hs[i].words[m] \in 1..b
      BY <2>1, <3>1 DEF HistorySpans
    <3> QED BY <1>6, <3>1, <3>2
  <2>2. CASE i = Len(hs) + 1
    <3>1. r[i] = line
      BY <1>3, <2>2
    <3>2. m \in 1..(c - b) /\ line.words[m] = b + m
      BY <1>6, <3>1
    <3>3. b + m \in 1..c
      BY <1>6, <3>2
    <3> QED BY <3>1, <3>2, <3>3
  <2> QED BY <1>4, <2>1, <2>2
<1>8. \A i, j \in 1..Len(r) :
        \A m \in 1..Len(r[i].words), n \in 1..Len(r[j].words) :
            i < j \/ (i = j /\ m < n) => r[i].words[m] < r[j].words[n]
  <2> SUFFICES ASSUME NEW i \in 1..Len(r), NEW j \in 1..Len(r),
                      NEW m \in 1..Len(r[i].words), NEW n \in 1..Len(r[j].words),
                      i < j \/ (i = j /\ m < n)
               PROVE  r[i].words[m] < r[j].words[n]
    OBVIOUS
  <2>1. CASE j \in 1..Len(hs)
    <3>1. i \in 1..Len(hs)
      BY <1>1, <1>3, <2>1
    <3>2. r[i] = hs[i] /\ r[j] = hs[j]
      BY <1>3, <2>1, <3>1
    <3> QED BY <2>1, <3>1, <3>2 DEF HistorySpans
  <2>2. CASE j = Len(hs) + 1
    <3>1. r[j] = line /\ r[j].words[n] = b + n
      BY <1>3, <1>6, <2>2
    <3>2. CASE i \in 1..Len(hs)
      <4>1. r[i] = hs[i]
        BY <1>3, <3>2
      <4>2. hs[i].words[m] \in 1..b
        BY <3>2, <4>1 DEF HistorySpans
      <4>3. n \in 1..Len(line.words)
        BY <3>1
      <4> QED BY SMTT(30), <1>6, <3>1, <4>1, <4>2, <4>3
    <3>3. CASE i = Len(hs) + 1
      <4>1. r[i] = line /\ m < n
        BY <1>1, <1>3, <2>2, <3>3
      <4>2. r[i].words[m] = b + m
        BY <1>6, <4>1
      <4>3. m \in 1..Len(line.words) /\ n \in 1..Len(line.words)
        BY <3>1, <4>1
      <4> QED BY <1>6, <3>1, <4>1, <4>2, <4>3
    <3> QED BY <1>4, <3>2, <3>3
  <2> QED BY <1>4, <2>1, <2>2
<1>9. \A w \in 1..c : \E i \in 1..Len(r) : \E m \in 1..Len(r[i].words) : r[i].words[m] = w
  <2> SUFFICES ASSUME NEW w \in 1..c
               PROVE  \E i \in 1..Len(r) : \E m \in 1..Len(r[i].words) : r[i].words[m] = w
    OBVIOUS
  <2>1. CASE w <= b
    <3>1. w \in 1..b
      BY <2>1
    <3>2. PICK i \in 1..Len(hs) : \E m \in 1..Len(hs[i].words) : hs[i].words[m] = w
      BY <3>1 DEF HistorySpans
    <3>3. i \in 1..Len(r) /\ r[i] = hs[i]
      BY <1>3, <1>5
    <3> QED BY <3>2, <3>3
  <2>2. CASE w > b
    <3>1. w - b \in 1..Len(line.words)
      BY <1>6, <2>2
    <3>2. line.words[w - b] = b + (w - b) /\ b + (w - b) = w
      BY <1>6, <3>1
    <3>3. Len(hs) + 1 \in 1..Len(r) /\ r[Len(hs) + 1] = line
      BY <1>1, <1>3
    <3> QED BY <3>1, <3>2, <3>3
  <2> QED BY <2>1, <2>2
<1>10. HistorySpans(r, c)
  BY <1>3, <1>7, <1>8, <1>9 DEF HistorySpans, LineSeq
<1> QED BY <1>2, <1>10

-----------------------------------------------------------------------------
(* The type invariant, part by part.                                       *)
Queues == Seq(0..MaxWords)
Histories == Seq([role : {"user", "assistant"}, words : Texts])

LoopTypes ==
    /\ phase \in {"live", "finishing", "cleanup", "closing", "ended", "lost"}
    /\ ticker \in {"running", "dead"}
    /\ leftBy \in {"nobody", "agent", "caller", "error"}
    /\ hangUp \in {"none", "armed", "due"}
    /\ sttState \in {"running", "ended", "failed"}
    /\ failed \in BOOLEAN /\ heardSpeech \in BOOLEAN /\ turnError \in BOOLEAN
    /\ owed \in BOOLEAN
    /\ env \in Environments /\ spoken \in 0..env.words

BargeTypes == run \in Nat /\ gap \in 0..GapFrames

TurnTypes ==
    /\ turn \in {"fresh", "flushing", "executing", "recording", "done"}
    /\ reply \in {"none", "words", "goodbye"}
    /\ future \in {"none", "waiting", "resolved"}
    /\ greeting \in BOOLEAN /\ interrupt \in BOOLEAN /\ audio \in BOOLEAN
    /\ cutShort \in BOOLEAN /\ error \in BOOLEAN

LEMMA WordsAreBounded ==
    ASSUME LoopTypes
    PROVE  env.words \in 0..MaxWords /\ spoken \in 0..MaxWords
<1>1. env.words \in 0..MaxWords
  BY SessionAssumption DEF LoopTypes
<1> QED BY <1>1, SessionAssumption DEF LoopTypes

LEMMA LoopTypesInit == Init => LoopTypes /\ BargeTypes /\ TurnTypes
<1> SUFFICES ASSUME Init PROVE LoopTypes /\ BargeTypes /\ TurnTypes
  OBVIOUS
<1>1. env.words \in 0..MaxWords
  BY SessionAssumption DEF Init
<1>2. LoopTypes
  <2>1. spoken \in 0..env.words /\ env \in Environments
    BY <1>1 DEF Init
  <2> QED BY <2>1 DEF Init, LoopTypes
<1>3. BargeTypes
  BY SessionAssumption DEF Init, BargeTypes
<1>4. TurnTypes
  BY DEF Init, TurnTypes
<1> QED BY <1>2, <1>3, <1>4

LEMMA LoopTypesStep == LoopTypes /\ [Next]_vars => LoopTypes'
<1> SUFFICES ASSUME LoopTypes, [Next]_vars PROVE LoopTypes'
  OBVIOUS
<1> USE DEF LoopTypes
<1>0. env.words \in Nat
  BY WordsAreBounded, SessionAssumption
<1>1. CASE Loop
  <2>1. ASSUME NEW speech \in BOOLEAN, TakeFrame(speech), AfterFrame, UNCHANGED sttVars,
               hangUp' \in {"none", "armed", "due"}, heardSpeech' \in BOOLEAN,
               UNCHANGED turnError
        PROVE  LoopTypes'
    BY <1>0, <2>1 DEF TakeFrame, AfterFrame, sttVars
  <2>2. ASSUME NEW speech \in BOOLEAN, FrameWhileBusy(speech) PROVE LoopTypes'
    BY <2>1, <2>2 DEF FrameWhileBusy
  <2>3. ASSUME NEW speech \in BOOLEAN, FrameBeforeHangUp(speech) PROVE LoopTypes'
    BY <2>1, <2>3 DEF FrameBeforeHangUp
  <2>4. ASSUME NEW speech \in BOOLEAN, FrameListening(speech) PROVE LoopTypes'
    BY <2>1, <2>4 DEF FrameListening
  <2>5. CASE FrameCommits
    BY <2>1, <2>5 DEF FrameCommits
  <2>6. CASE AudioEnds \/ AudioFails \/ Finish \/ CleanUp \/ EndSession \/ LoseEnd
             \/ TickerDies \/ HangUpFallsDue
    BY <2>6 DEF AudioEnds, AudioFails, Finish, CleanUp, EndSession, LoseEnd, TickerDies,
                HangUpFallsDue, sttVars, loopVars
  <2> QED BY <1>1, <2>2, <2>3, <2>4, <2>5, <2>6 DEF Loop
<1>2. CASE Turn
  <2>1. UNCHANGED <<loopVars, sttVars, heardSpeech, spoken>>
    BY <1>2 DEF Turn, TurnBegins, FlushAnswered, FlushGivenUp, LlmReplies, AudioStarts, WorkDone,
                InterruptSeen, ProviderFails, StopWork, TurnFails, TurnRecorded
  <2>2. turnError' \in BOOLEAN
    BY <1>2 DEF Turn, TurnBegins, FlushAnswered, FlushGivenUp, LlmReplies, AudioStarts, WorkDone,
                InterruptSeen, ProviderFails, StopWork, TurnFails, TurnRecorded
  <2>3. hangUp' \in {"none", "armed", "due"}
    BY <1>2 DEF Turn, TurnBegins, FlushAnswered, FlushGivenUp, LlmReplies, AudioStarts, WorkDone,
                InterruptSeen, ProviderFails, StopWork, TurnFails, TurnRecorded, Conclude
  <2> QED BY <2>1, <2>2, <2>3 DEF loopVars, sttVars
<1>3. CASE Stt
  <2>1. UNCHANGED <<loopVars, env, heardSpeech, spoken, turnError, hangUp>>
    BY <1>3 DEF Stt, SttHears, SttInterim, SttFinal, SttAnswers, SttTimesOut, SttAnswersShifted,
                SttStops, sttVars
  <2>2. owed' \in BOOLEAN /\ sttState' \in {"running", "ended", "failed"}
    BY <1>3 DEF Stt, SttHears, SttInterim, SttFinal, SttAnswers, SttTimesOut, SttAnswersShifted,
                SttStops, sttVars
  <2> QED BY <2>1, <2>2 DEF loopVars
<1>4. CASE UNCHANGED vars
  BY <1>4 DEF vars, loopVars, sttVars
<1> QED BY <1>1, <1>2, <1>3, <1>4 DEF Next

LEMMA BargeTypesStep == BargeTypes /\ [Next]_vars => BargeTypes'
<1> SUFFICES ASSUME BargeTypes, [Next]_vars PROVE BargeTypes'
  OBVIOUS
<1> USE DEF BargeTypes
<1>1. GapFrames \in Nat \ {0}
  BY SessionAssumption
<1>2. ASSUME NEW speech \in BOOLEAN PROVE RunWith(speech) \in Nat /\ GapWith(speech) \in 0..GapFrames
  BY <1>1 DEF RunWith, GapWith
<1>3. CASE Loop
  <2>1. ASSUME NEW speech \in BOOLEAN,
               FrameWhileBusy(speech) \/ FrameBeforeHangUp(speech) \/ FrameListening(speech)
        PROVE  BargeTypes'
    BY <1>1, <1>2, <2>1 DEF FrameWhileBusy, FrameBeforeHangUp, FrameListening
  <2>2. CASE FrameCommits
    BY <1>1, <2>2 DEF FrameCommits
  <2> QED BY <1>3, <2>1, <2>2 DEF Loop, AudioEnds, AudioFails, Finish, CleanUp, EndSession,
                                  LoseEnd, TickerDies, HangUpFallsDue, bargeVars
<1>4. CASE Turn \/ Stt \/ UNCHANGED vars
  BY <1>4 DEF Turn, TurnBegins, FlushAnswered, FlushGivenUp, LlmReplies, AudioStarts, WorkDone,
              InterruptSeen, ProviderFails, StopWork, TurnFails, TurnRecorded,
              Stt, SttHears, SttInterim, SttFinal, SttAnswers, SttTimesOut, SttAnswersShifted,
              SttStops, bargeVars, vars
<1> QED BY <1>3, <1>4 DEF Next

LEMMA TurnTypesStep == TurnTypes /\ [Next]_vars => TurnTypes'
<1> SUFFICES ASSUME TurnTypes, [Next]_vars PROVE TurnTypes'
  OBVIOUS
<1> USE DEF TurnTypes
<1>1. CASE Loop
  BY ZenonT(60), <1>1
     DEF Loop, FrameWhileBusy, FrameBeforeHangUp, FrameListening, FrameCommits, AudioEnds,
         AudioFails, Finish, CleanUp, EndSession, LoseEnd, TickerDies, HangUpFallsDue,
         textVars, requestVars, replyVars
<1>2. CASE Turn
  <2>1. CASE TurnBegins
    BY <2>1 DEF TurnBegins, requestVars
  <2>2. CASE FlushAnswered \/ FlushGivenUp
    BY <2>2 DEF FlushAnswered, FlushGivenUp, Transcribed, replyVars
  <2>3. CASE (\E text \in {"words", "goodbye"} : LlmReplies(text)) \/ AudioStarts
    BY <2>3 DEF LlmReplies, AudioStarts, textVars, requestVars
  <2>4. CASE WorkDone \/ InterruptSeen \/ ProviderFails
    BY <2>4 DEF WorkDone, InterruptSeen, ProviderFails, StopWork, textVars, requestVars
  <2>5. CASE TurnFails \/ TurnRecorded
    BY <2>5 DEF TurnFails, TurnRecorded, textVars, replyVars
  <2> QED BY <1>2, <2>1, <2>2, <2>3, <2>4, <2>5 DEF Turn
<1>3. CASE Stt
  BY <1>3 DEF Stt, SttHears, SttInterim, SttFinal, SttAnswers, SttTimesOut, SttAnswersShifted,
              SttStops, ConsumeFlushed, textVars, requestVars, replyVars
<1>4. CASE UNCHANGED vars
  BY <1>4 DEF vars, textVars, requestVars, replyVars
<1> QED BY <1>1, <1>2, <1>3, <1>4 DEF Next

LEMMA TextFacts ==
    /\ <<>> \in Texts
    /\ \A s, t \in Texts : s \o t \in Texts
    /\ \A s \in Texts, w \in 1..MaxWords : Append(s, w) \in Texts
<1>1. <<>> \in Texts
  BY EmptySeq DEF Texts
<1>2. \A s, t \in Texts : s \o t \in Texts
  BY ConcatProperties DEF Texts
<1>3. \A s \in Texts, w \in 1..MaxWords : Append(s, w) \in Texts
  BY AppendProperties DEF Texts
<1> QED BY <1>1, <1>2, <1>3

LEMMA QueueFacts ==
    /\ <<>> \in Queues
    /\ \A q \in Queues, w \in 0..MaxWords : Append(q, w) \in Queues
    /\ \A q \in Queues : q # <<>> => Head(q) \in 0..MaxWords /\ Tail(q) \in Queues
    /\ \A q \in Queues : \A i \in 1..Len(q) : RemoveAt(q, i) \in Queues
<1>1. <<>> \in Queues
  BY EmptySeq DEF Queues
<1>2. \A q \in Queues, w \in 0..MaxWords : Append(q, w) \in Queues
  BY AppendProperties DEF Queues
<1>3. \A q \in Queues : q # <<>> => Head(q) \in 0..MaxWords /\ Tail(q) \in Queues
  BY HeadTailProperties DEF Queues
<1>4. ASSUME NEW q \in Queues, NEW i \in 1..Len(q) PROVE RemoveAt(q, i) \in Queues
  <2>1. q \in Seq(0..MaxWords) /\ Len(q) \in Nat
    BY LenProperties DEF Queues
  <2>2. \A j \in 1..Len(q) : q[j] \in 0..MaxWords
    BY <2>1, ElementOfSeq
  <2>3. SubSeq(q, 1, i - 1) \in Seq(0..MaxWords)
    <3>1. \A j \in 1..(i - 1) : q[j] \in 0..MaxWords
      BY <2>1, <2>2
    <3>2. 1 \in Int /\ i - 1 \in Int
      BY <2>1
    <3> QED BY <3>1, <3>2, SubSeqProperties
  <2>4. SubSeq(q, i + 1, Len(q)) \in Seq(0..MaxWords)
    <3>1. \A j \in (i + 1)..Len(q) : q[j] \in 0..MaxWords
      BY <2>1, <2>2
    <3>2. i + 1 \in Int /\ Len(q) \in Int
      BY <2>1
    <3> QED BY <3>1, <3>2, SubSeqProperties
  <2> QED BY <2>3, <2>4, ConcatProperties DEF RemoveAt, Queues
<1> QED BY <1>1, <1>2, <1>3, <1>4

WordTypes ==
    /\ sttIn \in Queues
    /\ finals \in Texts /\ interim \in Texts /\ futureText \in Texts /\ userText \in Texts
    /\ carry \in Texts /\ heard \in Texts /\ unanswered \in Texts
    /\ history \in Histories

LEMMA WordTypesInit == Init => WordTypes
<1>1. <<>> \in Histories
  BY EmptySeq DEF Histories
<1> QED BY <1>1, TextFacts, QueueFacts DEF Init, WordTypes

LEMMA HistoryFacts ==
    ASSUME NEW hs \in Histories, NEW words \in Texts
    PROVE  hs \o <<Said(words)>> \in Histories /\ hs \o <<Replied>> \in Histories
           /\ hs \o <<>> \in Histories
<1>1. Said(words) \in [role : {"user", "assistant"}, words : Texts]
  BY DEF Said
<1>2. Replied \in [role : {"user", "assistant"}, words : Texts]
  BY TextFacts DEF Replied
<1>3. \A x \in [role : {"user", "assistant"}, words : Texts] : hs \o <<x>> \in Histories
  <2> DEFINE L == [role : {"user", "assistant"}, words : Texts]
  <2>1. hs \in Seq(L)
    BY DEF Histories
  <2> HIDE DEF L
  <2>2. \A x \in L : Append(hs, x) \in Seq(L) /\ Append(hs, x) = hs \o <<x>>
    BY <2>1, AppendProperties, AppendIsConcat
  <2> QED BY <2>2 DEF Histories, L
<1>4. hs \o <<>> = hs
  BY ConcatEmptySeq DEF Histories
<1> QED BY <1>1, <1>2, <1>3, <1>4

LEMMA WordTypesStep == LoopTypes /\ WordTypes /\ [Next]_vars => WordTypes'
<1> SUFFICES ASSUME LoopTypes, WordTypes, [Next]_vars PROVE WordTypes'
  OBVIOUS
<1> USE DEF WordTypes
<1>1. CASE Loop
  <2>1. ASSUME NEW speech \in BOOLEAN, TakeFrame(speech),
               UNCHANGED <<textVars, carry, history, heard, unanswered>>, userText' \in Texts
        PROVE  WordTypes'
    <3>1. sttIn' \in Queues
      <4>1. CASE speech
        <5>1. spoken' \in 0..MaxWords
          BY <2>1, <4>1, WordsAreBounded, SessionAssumption DEF TakeFrame, LoopTypes
        <5> QED BY <2>1, <4>1, <5>1, QueueFacts DEF TakeFrame
      <4>2. CASE ~speech
        BY <2>1, <4>2 DEF TakeFrame
      <4> QED BY <4>1, <4>2
    <3> QED BY <2>1, <3>1 DEF textVars
  <2>2. ASSUME NEW speech \in BOOLEAN, FrameWhileBusy(speech) PROVE WordTypes'
    BY <2>1, <2>2 DEF FrameWhileBusy, sttVars
  <2>3. ASSUME NEW speech \in BOOLEAN, FrameBeforeHangUp(speech) PROVE WordTypes'
    BY <2>1, <2>3 DEF FrameBeforeHangUp, sttVars, requestVars
  <2>4. ASSUME NEW speech \in BOOLEAN, FrameListening(speech) PROVE WordTypes'
    BY <2>1, <2>4 DEF FrameListening, sttVars, requestVars
  <2>5. CASE FrameCommits
    BY <2>1, <2>5, TextFacts DEF FrameCommits, sttVars
  <2>6. CASE AudioEnds \/ AudioFails \/ Finish \/ CleanUp \/ EndSession \/ LoseEnd
             \/ TickerDies \/ HangUpFallsDue
    BY <2>6 DEF AudioEnds, AudioFails, Finish, CleanUp, EndSession, LoseEnd, TickerDies,
                HangUpFallsDue,
                sttVars, textVars, requestVars
  <2> QED BY <1>1, <2>2, <2>3, <2>4, <2>5, <2>6 DEF Loop
<1>2. CASE Turn
  <2>1. CASE TurnBegins
    <3>1. Flush \in 0..MaxWords
      BY SessionAssumption DEF Flush
    <3> QED BY <2>1, <3>1, QueueFacts DEF TurnBegins, requestVars, sttVars
  <2>2. CASE FlushAnswered
    BY <2>2, TextFacts DEF FlushAnswered, Transcribed, sttVars
  <2>3. CASE FlushGivenUp
    <3>1. finals \o interim \in Texts
      BY TextFacts
    <3>2. carry \o (finals \o interim) \in Texts
      BY <3>1, TextFacts
    <3> QED BY <2>3, <3>2, TextFacts DEF FlushGivenUp, Transcribed, sttVars
  <2>4. CASE (\E text \in {"words", "goodbye"} : LlmReplies(text)) \/ AudioStarts
                \/ WorkDone \/ InterruptSeen \/ ProviderFails
    BY <2>4 DEF LlmReplies, AudioStarts, WorkDone, InterruptSeen, ProviderFails, StopWork,
                textVars, requestVars, sttVars
  <2>5. CASE TurnFails
    BY <2>5, TextFacts DEF TurnFails, textVars, sttVars
  <2>6. CASE TurnRecorded
    <3>1. carry' \in Texts
      BY <2>6 DEF TurnRecorded, Conclude
    <3>2. history' \in Histories
      <4> DEFINE hs == history \o (IF userText # <<>> THEN <<Said(userText)>> ELSE <<>>)
      <4>1. hs \in Histories
        BY HistoryFacts
      <4>2. hs \o (IF reply # "none" THEN <<Replied>> ELSE <<>>) \in Histories
        <5> HIDE DEF hs
        <5> QED BY <4>1, TextFacts, HistoryFacts
      <4> QED BY <2>6, <4>2 DEF TurnRecorded, Conclude
    <3> QED BY <2>6, <3>1, <3>2, TextFacts DEF TurnRecorded, textVars, sttVars
  <2> QED BY <1>2, <2>1, <2>2, <2>3, <2>4, <2>5, <2>6 DEF Turn
<1>3. CASE Stt
  <2>1. ASSUME NEW text \in Texts, ConsumeFlushed(text)
        PROVE  futureText' \in Texts /\ finals' \in Texts /\ interim' \in Texts
    BY <2>1, TextFacts DEF ConsumeFlushed
  <2>2. CASE SttHears
    <3>1. Head(sttIn) \in 1..MaxWords /\ Tail(sttIn) \in Queues
      BY <2>2, QueueFacts DEF SttHears, Flush
    <3> QED BY <2>2, <3>1, TextFacts DEF SttHears, textVars, requestVars
  <2>3. CASE SttInterim
    BY <2>3 DEF SttInterim, requestVars, sttVars
  <2>4. CASE SttFinal
    BY <2>4, TextFacts DEF SttFinal, requestVars
  <2>5. CASE SttAnswers
    BY <2>1, <2>5, TextFacts, QueueFacts DEF SttAnswers, requestVars
  <2>6. CASE SttTimesOut
    BY <2>1, <2>6, TextFacts, QueueFacts DEF SttTimesOut, requestVars
  <2>7. CASE SttAnswersShifted
    BY <2>1, <2>7, TextFacts, QueueFacts DEF SttAnswersShifted, requestVars
  <2>8. CASE \E how \in {"ended", "failed"} : SttStops(how)
    BY <2>8 DEF SttStops, textVars, requestVars
  <2> QED BY <1>3, <2>2, <2>3, <2>4, <2>5, <2>6, <2>7, <2>8 DEF Stt
<1>4. CASE UNCHANGED vars
  BY <1>4 DEF vars, textVars, requestVars, sttVars
<1> QED BY <1>1, <1>2, <1>3, <1>4 DEF Next

-----------------------------------------------------------------------------
(* What a turn holds in which phase: words only while it executes or is    *)
(* recorded, and then none are carried; a flush only while it waits; and   *)
(* once a turn has failed no other one gets past its transcript.           *)
TurnInv ==
    /\ turn \in {"executing", "recording"} => carry = <<>> /\ ~turnError
    /\ turn \notin {"executing", "recording"} => userText = <<>>
    /\ turn = "flushing" <=> future # "none"
    /\ future # "resolved" => futureText = <<>>
    /\ greeting => carry = <<>> /\ userText = <<>> /\ turn # "flushing"
    /\ greeting /\ turn = "fresh" => ~turnError
    /\ unanswered # <<>> => turnError
    /\ turnError /\ turn # "done" => phase = "cleanup"
    /\ phase \in {"closing", "ended"} => turn = "done"

LEMMA TurnInvInit == Init => TurnInv
BY DEF Init, TurnInv

LEMMA TurnInvStep == TurnTypes /\ WordTypes /\ TurnInv /\ [Next]_vars => TurnInv'
<1> SUFFICES ASSUME TurnTypes, WordTypes, TurnInv, [Next]_vars PROVE TurnInv'
  OBVIOUS
<1> USE DEF TurnInv, Busy
<1>1. CASE Loop
  <2>1. ASSUME NEW speech \in BOOLEAN,
               FrameWhileBusy(speech) \/ FrameBeforeHangUp(speech) \/ FrameListening(speech)
        PROVE  TurnInv'
    BY <2>1 DEF FrameWhileBusy, FrameBeforeHangUp, FrameListening, TakeFrame, AfterFrame,
                textVars, requestVars, sttVars
  <2>2. CASE FrameCommits
    BY <2>2 DEF FrameCommits, Listening, TakeFrame, AfterFrame, textVars, sttVars
  <2>3. CASE AudioEnds \/ AudioFails \/ HangUpFallsDue
    BY <2>3 DEF AudioEnds, AudioFails, HangUpFallsDue, textVars, requestVars, loopVars
  <2>4. CASE Finish \/ CleanUp \/ EndSession \/ LoseEnd \/ TickerDies
    BY <2>4 DEF Finish, CleanUp, EndSession, LoseEnd, TickerDies, textVars, requestVars
  <2> QED BY <1>1, <2>1, <2>2, <2>3, <2>4 DEF Loop
<1>2. CASE Turn
  <2>1. CASE TurnBegins
    BY <2>1 DEF TurnBegins, requestVars, loopVars
  <2>2. CASE FlushAnswered
    BY <2>2 DEF FlushAnswered, Transcribed, Stopped, loopVars
  <2>3. CASE FlushGivenUp
    BY <2>3 DEF FlushGivenUp, Transcribed, Stopped, loopVars
  <2>4. CASE (\E text \in {"words", "goodbye"} : LlmReplies(text)) \/ AudioStarts
                \/ WorkDone \/ InterruptSeen \/ ProviderFails
    BY <2>4 DEF LlmReplies, AudioStarts, WorkDone, InterruptSeen, ProviderFails, StopWork,
                textVars, requestVars, loopVars
  <2>5. CASE TurnFails
    BY <2>5 DEF TurnFails, textVars, loopVars
  <2>6. CASE TurnRecorded
    BY <2>6 DEF TurnRecorded, Conclude, textVars, loopVars
  <2> QED BY <1>2, <2>1, <2>2, <2>3, <2>4, <2>5, <2>6 DEF Turn
<1>3. CASE Stt
  BY <1>3 DEF Stt, SttHears, SttInterim, SttFinal, SttAnswers, SttTimesOut, SttAnswersShifted,
              SttStops, ConsumeFlushed, textVars, requestVars, loopVars, TurnTypes
<1>4. CASE UNCHANGED vars
  BY <1>4 DEF vars, textVars, requestVars, loopVars
<1> QED BY <1>1, <1>2, <1>3, <1>4 DEF Next

-----------------------------------------------------------------------------
(* A flush is on its way exactly while a turn waits for it.                *)
NoFlush(q) == \A i \in 1..Len(q) : q[i] # Flush
OneFlush(q) == \E k \in 1..Len(q) : \A i \in 1..Len(q) : q[i] = Flush <=> i = k

FlushInv ==
    ~env.givesUp => IF future = "waiting" THEN OneFlush(sttIn) ELSE NoFlush(sttIn)

LEMMA FlushOnItsWay ==
    ASSUME NEW q \in Queues, NEW w \in 0..MaxWords
    PROVE  /\ w # Flush /\ NoFlush(q) => NoFlush(Append(q, w))
           /\ w # Flush /\ OneFlush(q) => OneFlush(Append(q, w))
           /\ w = Flush /\ NoFlush(q) => OneFlush(Append(q, w))
<1> DEFINE r == Append(q, w)
<1>1. Len(q) \in Nat
  BY LenProperties DEF Queues
<1>2. /\ Len(r) = Len(q) + 1 /\ r[Len(q) + 1] = w
      /\ \A i \in 1..Len(q) : r[i] = q[i]
  BY AppendProperties DEF Queues
<1> HIDE DEF r
<1>3. /\ \A i \in 1..Len(r) : i \in 1..Len(q) \/ i = Len(q) + 1
      /\ \A i \in 1..Len(q) : i \in 1..Len(r) /\ i # Len(q) + 1
      /\ Len(q) + 1 \in 1..Len(r)
  BY <1>1, <1>2
<1>4. w # Flush /\ NoFlush(q) => NoFlush(r)
  BY <1>2, <1>3 DEF NoFlush
<1>5. w # Flush /\ OneFlush(q) => OneFlush(r)
  BY ZenonT(60), <1>2, <1>3 DEF OneFlush
<1>6. w = Flush /\ NoFlush(q) => OneFlush(r)
  BY <1>2, <1>3 DEF NoFlush, OneFlush
<1> QED BY <1>4, <1>5, <1>6 DEF r

LEMMA RemoveAtFacts ==
    ASSUME NEW S, NEW q \in Seq(S), NEW k \in 1..Len(q)
    PROVE  /\ RemoveAt(q, k) \in Seq(S) /\ Len(RemoveAt(q, k)) = Len(q) - 1
           /\ \A i \in 1..Len(q) - 1 : RemoveAt(q, k)[i] = IF i < k THEN q[i] ELSE q[i + 1]
<1> DEFINE s == SubSeq(q, 1, k - 1)
           t == SubSeq(q, k + 1, Len(q))
<1>1. Len(q) \in Nat /\ \A i \in 1..Len(q) : q[i] \in S
  BY LenProperties, ElementOfSeq
<1>2. k \in Nat /\ 1 <= k /\ k <= Len(q)
  BY <1>1
<1>3. s \in Seq(S) /\ Len(s) = k - 1 /\ \A i \in 1..k - 1 : s[i] = q[i]
  <2>1. /\ \A i \in 1..(k - 1) : q[i] \in S
        /\ 1 \in Int /\ k - 1 \in Int
    BY <1>1, <1>2
  <2>2. /\ s \in Seq(S) /\ Len(s) = IF 1 <= k - 1 THEN (k - 1) - 1 + 1 ELSE 0
        /\ \A i \in 1..(k - 1) - 1 + 1 : s[i] = q[1 + i - 1]
    BY <2>1, SubSeqProperties
  <2>3. (k - 1) - 1 + 1 = k - 1 /\ \A i \in 1..k - 1 : 1 + i - 1 = i
    BY <1>2
  <2> QED BY <1>2, <2>2, <2>3
<1>4. t \in Seq(S) /\ Len(t) = Len(q) - k /\ \A i \in 1..Len(q) - k : t[i] = q[k + i]
  <2>1. /\ \A i \in (k + 1)..Len(q) : q[i] \in S
        /\ k + 1 \in Int /\ Len(q) \in Int
    BY <1>1, <1>2
  <2>2. /\ t \in Seq(S)
        /\ Len(t) = IF k + 1 <= Len(q) THEN Len(q) - (k + 1) + 1 ELSE 0
        /\ \A i \in 1..Len(q) - (k + 1) + 1 : t[i] = q[(k + 1) + i - 1]
    BY <2>1, SubSeqProperties
  <2>3. Len(t) = Len(q) - k
    BY <1>1, <1>2, <2>2
  <2>4. ASSUME NEW i \in 1..Len(q) - k PROVE t[i] = q[k + i]
    <3>1. i \in 1..Len(q) - (k + 1) + 1 /\ (k + 1) + i - 1 = k + i
      BY <1>1, <1>2
    <3>2. t[i] = q[(k + 1) + i - 1]
      BY <2>2, <3>1
    <3> QED BY <3>1, <3>2
  <2> QED BY <2>2, <2>3, <2>4
<1>5. RemoveAt(q, k) = s \o t
  BY DEF RemoveAt
<1> HIDE DEF s, t
<1>6. /\ s \o t \in Seq(S) /\ Len(s \o t) = Len(s) + Len(t)
      /\ \A i \in 1..Len(s) + Len(t) :
            (s \o t)[i] = IF i <= Len(s) THEN s[i] ELSE t[i - Len(s)]
  BY <1>3, <1>4, ConcatProperties
<1>7. Len(s) + Len(t) = Len(q) - 1
  BY <1>1, <1>2, <1>3, <1>4
<1>8. ASSUME NEW i \in 1..Len(q) - 1
      PROVE  (s \o t)[i] = IF i < k THEN q[i] ELSE q[i + 1]
  <2>1. i \in 1..Len(s) + Len(t)
    BY <1>7
  <2>2. CASE i < k
    BY <1>1, <1>2, <1>3, <1>6, <2>1, <2>2
  <2>3. CASE i >= k
    <3>1. i - (k - 1) \in 1..Len(q) - k /\ k + (i - (k - 1)) = i + 1
      BY <1>1, <1>2, <2>3
    <3>2. (s \o t)[i] = t[i - (k - 1)]
      BY <1>2, <1>3, <1>6, <2>1, <2>3
    <3>3. t[i - (k - 1)] = q[k + (i - (k - 1))]
      BY <1>4, <3>1
    <3>4. (s \o t)[i] = q[i + 1]
      BY <3>1, <3>2, <3>3
    <3>5. ~(i < k)
      BY <1>1, <1>2, <2>3
    <3> QED BY <3>4, <3>5
  <2>4. i < k \/ i >= k
    BY <1>1, <1>2
  <2> QED BY <2>2, <2>3, <2>4
<1> QED BY <1>5, <1>6, <1>7, <1>8

LEMMA FlushTaken ==
    ASSUME NEW q \in Queues, NEW k \in 1..Len(q), NEW r, Len(r) = Len(q) - 1,
           \A i \in 1..Len(q) - 1 : r[i] = IF i < k THEN q[i] ELSE q[i + 1]
    PROVE  /\ OneFlush(q) /\ q[k] = Flush => NoFlush(r)
           /\ NoFlush(q) => NoFlush(r)
           /\ OneFlush(q) /\ k = 1 /\ q[k] # Flush => OneFlush(r)
<1>1. Len(q) \in Nat
  BY LenProperties DEF Queues
<1>2. \A i \in 1..Len(r) : i \in 1..Len(q) /\ i + 1 \in 1..Len(q) /\ i \in 1..Len(q) - 1
  BY <1>1
<1>3. OneFlush(q) /\ q[k] = Flush => NoFlush(r)
  <2> SUFFICES ASSUME OneFlush(q), q[k] = Flush, NEW i \in 1..Len(r) PROVE r[i] # Flush
    BY DEF NoFlush
  <2>1. \A j \in 1..Len(q) : j # k => q[j] # Flush
    BY DEF OneFlush
  <2>2. CASE i < k
    BY <1>2, <2>1, <2>2
  <2>3. CASE i >= k
    BY <1>2, <2>1, <2>3
  <2> QED BY <1>1, <2>2, <2>3
<1>4. NoFlush(q) => NoFlush(r)
  BY <1>2 DEF NoFlush
<1>5. OneFlush(q) /\ k = 1 /\ q[k] # Flush => OneFlush(r)
  <2> SUFFICES ASSUME OneFlush(q), k = 1, q[1] # Flush PROVE OneFlush(r)
    OBVIOUS
  <2>1. PICK l \in 1..Len(q) : \A i \in 1..Len(q) : q[i] = Flush <=> i = l
    BY DEF OneFlush
  <2>2. l # 1
    BY <1>1, <2>1
  <2>3. l - 1 \in 1..Len(r)
    BY <1>1, <2>2
  <2>4. ASSUME NEW i \in 1..Len(r) PROVE r[i] = Flush <=> i = l - 1
    <3>1. r[i] = q[i + 1] /\ i + 1 \in 1..Len(q)
      BY <1>2
    <3>2. i + 1 = l <=> i = l - 1
      BY <1>1
    <3> QED BY <2>1, <3>1, <3>2
  <2> QED BY <2>3, <2>4 DEF OneFlush
<1> QED BY <1>3, <1>4, <1>5

LEMMA FlushHead ==
    ASSUME NEW q \in Queues, q # <<>>
    PROVE  /\ Head(q) = Flush /\ OneFlush(q) => NoFlush(Tail(q))
           /\ Head(q) = Flush => ~NoFlush(q)
           /\ Head(q) # Flush /\ NoFlush(q) => NoFlush(Tail(q))
           /\ Head(q) # Flush /\ OneFlush(q) => OneFlush(Tail(q))
<1>1. Len(q) \in Nat \ {0} /\ Head(q) = q[1] /\ 1 \in 1..Len(q)
  BY EmptySeq DEF Queues
<1>2. /\ Len(Tail(q)) = Len(q) - 1
      /\ \A i \in 1..Len(Tail(q)) : Tail(q)[i] = q[i + 1]
  BY HeadTailProperties DEF Queues
<1>3. \A i \in 1..Len(q) - 1 : Tail(q)[i] = IF i < 1 THEN q[i] ELSE q[i + 1]
  BY <1>1, <1>2
<1>4. ~NoFlush(q) \/ Head(q) # Flush
  BY <1>1 DEF NoFlush
<1> QED BY <1>1, <1>2, <1>3, <1>4, FlushTaken

LEMMA FlushRemoved ==
    ASSUME NEW q \in Queues, NEW k \in 1..Len(q), q[k] = Flush
    PROVE  OneFlush(q) => NoFlush(RemoveAt(q, k))
BY RemoveAtFacts, FlushTaken DEF Queues

LEMMA FlushInvInit == Init => FlushInv
<1>1. Len(<<>>) = 0
  BY EmptySeq
<1> QED BY <1>1 DEF Init, FlushInv, NoFlush

LEMMA FlushInvStep ==
    LoopTypes /\ WordTypes /\ TurnTypes /\ TurnInv /\ FlushInv /\ [Next]_vars => FlushInv'
<1> SUFFICES ASSUME LoopTypes, WordTypes, TurnTypes, TurnInv, FlushInv, [Next]_vars, ~env'.givesUp
             PROVE  IF future' = "waiting" THEN OneFlush(sttIn') ELSE NoFlush(sttIn')
  BY DEF FlushInv
<1>0. ~env.givesUp
  BY DEF Next, Loop, FrameWhileBusy, FrameBeforeHangUp, FrameListening, FrameCommits, AudioEnds,
         AudioFails, Finish, CleanUp, EndSession, LoseEnd, TickerDies, HangUpFallsDue, Turn,
         TurnBegins, FlushAnswered, FlushGivenUp, LlmReplies, AudioStarts, WorkDone, InterruptSeen,
         ProviderFails, StopWork, TurnFails, TurnRecorded, Stt, SttHears, SttInterim, SttFinal,
         SttAnswers, SttTimesOut, SttAnswersShifted, SttStops, sttVars, vars
<1>1. IF future = "waiting" THEN OneFlush(sttIn) ELSE NoFlush(sttIn)
  BY <1>0 DEF FlushInv
<1>2. sttIn \in Queues
  BY DEF WordTypes
<1>3. CASE UNCHANGED <<future, sttIn>>
  BY <1>1, <1>3
<1>4. ASSUME NEW speech \in BOOLEAN, TakeFrame(speech), UNCHANGED future
      PROVE  IF future' = "waiting" THEN OneFlush(sttIn') ELSE NoFlush(sttIn')
  <2>1. CASE speech
    <3>1. spoken' = spoken + 1 /\ sttIn' = Append(sttIn, spoken') /\ spoken < env.words
      BY <1>4, <2>1 DEF TakeFrame
    <3>2. spoken' \in 0..MaxWords /\ spoken' # Flush
      BY <3>1, WordsAreBounded, SessionAssumption DEF Flush
    <3> QED BY <1>1, <1>2, <1>4, <3>1, <3>2, FlushOnItsWay
  <2>2. CASE ~speech
    BY <1>1, <1>4, <2>2 DEF TakeFrame
  <2> QED BY <2>1, <2>2
<1>5. CASE Loop
  BY <1>3, <1>4, <1>5 DEF Loop, FrameWhileBusy, FrameBeforeHangUp, FrameListening, FrameCommits,
       AudioEnds, AudioFails, Finish, CleanUp, EndSession, LoseEnd, TickerDies,
       HangUpFallsDue, textVars
<1>6. CASE Turn
  <2>1. CASE TurnBegins
    <3>1. Flush \in 0..MaxWords
      BY SessionAssumption DEF Flush
    <3>2. NoFlush(sttIn) /\ future = "none"
      BY <1>1, <2>1 DEF TurnBegins, TurnInv
    <3> QED BY <1>2, <2>1, <3>1, <3>2, FlushOnItsWay DEF TurnBegins
  <2>2. CASE FlushAnswered
    BY <1>1, <2>2 DEF FlushAnswered, Transcribed
  <2>3. CASE FlushGivenUp
    BY <1>0, <2>3 DEF FlushGivenUp
  <2> QED BY <1>3, <1>6, <2>1, <2>2, <2>3 DEF Turn, LlmReplies, AudioStarts, WorkDone, InterruptSeen,
               ProviderFails, StopWork, TurnFails, TurnRecorded, textVars
<1>7. CASE Stt
  <2>1. CASE SttHears
    BY <1>1, <1>2, <2>1, FlushHead DEF SttHears, textVars
  <2>2. CASE SttAnswers \/ SttTimesOut
    <3>1. sttIn # <<>> /\ Head(sttIn) = Flush /\ sttIn' = Tail(sttIn) /\ future' # "waiting"
      BY <2>2 DEF SttAnswers, SttTimesOut, ConsumeFlushed
    <3> QED BY <1>1, <1>2, <3>1, FlushHead
  <2>3. CASE SttAnswersShifted
    <3>1. PICK k \in 1..Len(sttIn) : sttIn[k] = Flush /\ sttIn' = RemoveAt(sttIn, k)
      BY <2>3 DEF SttAnswersShifted
    <3>2. future' # "waiting"
      BY <2>3 DEF SttAnswersShifted, ConsumeFlushed
    <3>3. OneFlush(sttIn)
      BY <1>1, <3>1 DEF NoFlush
    <3> QED BY <1>2, <3>1, <3>2, <3>3, FlushRemoved
  <2> QED BY <1>3, <1>7, <2>1, <2>2, <2>3 DEF Stt, SttInterim, SttFinal, SttStops, textVars
<1>8. CASE UNCHANGED vars
  BY <1>3, <1>8 DEF vars, textVars
<1> QED BY <1>5, <1>6, <1>7, <1>8 DEF Next

-----------------------------------------------------------------------------
(* Where the words are: each place spans what follows the one before it.   *)
Arranged(hs, un, us, ca, fu, fi, he, q, n) ==
    \E h, p1, p2, p3, p4, p5, p6 \in Nat :
        /\ HistorySpans(hs, h) /\ Spans(un, h, p1) /\ Spans(us, p1, p2) /\ Spans(ca, p2, p3)
        /\ Spans(fu, p3, p4) /\ Spans(fi, p4, p5) /\ Spans(he, p5, p6)
        /\ QueueSpans(q, p6, n)

WordsInv ==
    ~env.givesUp =>
        Arranged(history, unanswered, userText, carry, futureText, finals, heard, sttIn, spoken)

LEMMA ArrangedNow ==
    ASSUME NEW hs, NEW un, NEW us, NEW ca, NEW fu, NEW fi, NEW he, NEW q, NEW n,
           NEW h \in Nat, NEW p1 \in Nat, NEW p2 \in Nat, NEW p3 \in Nat, NEW p4 \in Nat,
           NEW p5 \in Nat, NEW p6 \in Nat,
           HistorySpans(hs, h), Spans(un, h, p1), Spans(us, p1, p2), Spans(ca, p2, p3),
           Spans(fu, p3, p4), Spans(fi, p4, p5), Spans(he, p5, p6), QueueSpans(q, p6, n)
    PROVE  Arranged(hs, un, us, ca, fu, fi, he, q, n)
<1> SUFFICES \E h_, p1_, p2_, p3_, p4_, p5_, p6_ \in Nat :
        /\ HistorySpans(hs, h_) /\ Spans(un, h_, p1_) /\ Spans(us, p1_, p2_)
        /\ Spans(ca, p2_, p3_) /\ Spans(fu, p3_, p4_) /\ Spans(fi, p4_, p5_)
        /\ Spans(he, p5_, p6_) /\ QueueSpans(q, p6_, n)
  BY ZenonT(60) DEF Arranged
<1> WITNESS h \in Nat, p1 \in Nat, p2 \in Nat, p3 \in Nat, p4 \in Nat, p5 \in Nat, p6 \in Nat
<1> QED OBVIOUS

LEMMA WordsInit == Init => WordsInv
<1> SUFFICES ASSUME Init
             PROVE  Arranged(history, unanswered, userText, carry, futureText, finals, heard,
                             sttIn, spoken)
  BY DEF WordsInv
<1>1. HistorySpans(history, 0) /\ QueueSpans(sttIn, 0, spoken) /\ Spans(<<>>, 0, 0)
  BY HistoryInit, QueueInit, EmptySpans DEF Init
<1> QED BY <1>1, ArrangedNow DEF Init

(* How each step moves words, for any cuts.                                *)
LEMMA MovesOfTurns ==
    ASSUME NEW hs, NEW us, NEW ca, NEW fu, NEW fi, NEW he, NEW q, NEW n, NEW un,
           Arranged(hs, un, us, ca, fu, fi, he, q, n)
    PROVE  /\ us = <<>> =>
                /\ Arranged(hs, un, ca \o fu, <<>>, <<>>, fi, he, q, n)
                /\ Arranged(hs, un, <<>>, ca \o fu, <<>>, fi, he, q, n)
           /\ Arranged(hs, un \o us, <<>>, ca, fu, fi, he, q, n)
           /\ ca = <<>> => Arranged(hs, un, <<>>, us, fu, fi, he, q, n)
<1> PICK h \in Nat, p1 \in Nat, p2 \in Nat, p3 \in Nat, p4 \in Nat, p5 \in Nat, p6 \in Nat :
        /\ HistorySpans(hs, h) /\ Spans(un, h, p1) /\ Spans(us, p1, p2) /\ Spans(ca, p2, p3)
        /\ Spans(fu, p3, p4) /\ Spans(fi, p4, p5) /\ Spans(he, p5, p6)
        /\ QueueSpans(q, p6, n)
  BY DEF Arranged
<1>1. /\ Spans(<<>>, p1, p1) /\ Spans(<<>>, p2, p2) /\ Spans(<<>>, p4, p4)
  BY EmptySpans
<1>2. Spans(ca \o fu, p2, p4) /\ Spans(un \o us, h, p2)
  BY SpansJoin
<1>3. (us = <<>> => p1 = p2) /\ (ca = <<>> => p2 = p3)
  BY SpansLen
<1>4. ASSUME us = <<>>
      PROVE  /\ Arranged(hs, un, ca \o fu, <<>>, <<>>, fi, he, q, n)
             /\ Arranged(hs, un, <<>>, ca \o fu, <<>>, fi, he, q, n)
  <2>1. p1 = p2
    BY <1>3, <1>4
  <2>2. Arranged(hs, un, ca \o fu, <<>>, <<>>, fi, he, q, n)
    <3>1. Spans(ca \o fu, p1, p4)
      BY <1>2, <2>1
    <3> QED BY <1>1, <3>1, ArrangedNow
  <2>3. Arranged(hs, un, <<>>, ca \o fu, <<>>, fi, he, q, n)
    <3>1. Spans(ca \o fu, p1, p4)
      BY <1>2, <2>1
    <3> QED BY <1>1, <3>1, ArrangedNow
  <2> QED BY <2>2, <2>3
<1>5. Arranged(hs, un \o us, <<>>, ca, fu, fi, he, q, n)
  BY <1>1, <1>2, ArrangedNow
<1>6. ca = <<>> => Arranged(hs, un, <<>>, us, fu, fi, he, q, n)
  <2> SUFFICES ASSUME ca = <<>> PROVE Arranged(hs, un, <<>>, us, fu, fi, he, q, n)
    OBVIOUS
  <2>1. Spans(us, p1, p3)
    BY <1>3
  <2> QED BY <1>1, <2>1, ArrangedNow
<1> QED BY <1>4, <1>5, <1>6

LEMMA MovesToHistory ==
    ASSUME NEW hs, NEW us, NEW ca, NEW fu, NEW fi, NEW he, NEW q, NEW n,
           Arranged(hs, <<>>, us, ca, fu, fi, he, q, n)
    PROVE  /\ Arranged(hs \o <<Said(us)>>, <<>>, <<>>, ca, fu, fi, he, q, n)
           /\ Arranged(hs \o <<Replied>>, <<>>, us, ca, fu, fi, he, q, n)
           /\ hs \o <<>> = hs
<1> PICK h \in Nat, p1 \in Nat, p2 \in Nat, p3 \in Nat, p4 \in Nat, p5 \in Nat, p6 \in Nat :
        /\ HistorySpans(hs, h) /\ Spans(<<>>, h, p1) /\ Spans(us, p1, p2) /\ Spans(ca, p2, p3)
        /\ Spans(fu, p3, p4) /\ Spans(fi, p4, p5) /\ Spans(he, p5, p6)
        /\ QueueSpans(q, p6, n)
  BY DEF Arranged
<1>1. h = p1 /\ Spans(<<>>, p2, p2) /\ Spans(<<>>, h, h)
  BY SpansLen, EmptySpans
<1>2. HistorySpans(hs \o <<Said(us)>>, p2)
  <2>1. Said(us) \in Lines /\ Said(us).words = us
    BY DEF Said, Lines, Spans
  <2>2. Spans(Said(us).words, h, p2)
    BY <1>1, <2>1
  <2> QED BY <2>1, <2>2, HistoryMore
<1>3. HistorySpans(hs \o <<Replied>>, h)
  <2>1. <<>> \in NumSeq
    BY EmptySeq DEF NumSeq
  <2>2. Replied \in Lines /\ Replied.words = <<>>
    BY <2>1 DEF Replied, Lines
  <2>3. Spans(Replied.words, h, h)
    BY <1>1, <2>2
  <2> QED BY <2>2, <2>3, HistoryMore
<1>4. Arranged(hs \o <<Said(us)>>, <<>>, <<>>, ca, fu, fi, he, q, n)
  BY <1>1, <1>2, ArrangedNow
<1>5. Arranged(hs \o <<Replied>>, <<>>, us, ca, fu, fi, he, q, n)
  BY <1>1, <1>3, ArrangedNow
<1>6. hs \o <<>> = hs
  BY ConcatEmptySeq DEF HistorySpans, LineSeq
<1> QED BY <1>4, <1>5, <1>6

LEMMA MovesOfFinals ==
    ASSUME NEW hs, NEW us, NEW ca, NEW fu, NEW fi, NEW he, NEW q, NEW n, NEW un,
           Arranged(hs, un, us, ca, fu, fi, he, q, n)
    PROVE  /\ Arranged(hs, un, us, ca, fu, fi \o he, <<>>, q, n)
           /\ fu = <<>> =>
                /\ Arranged(hs, un, us, ca, fi \o he, <<>>, <<>>, q, n)
                /\ Arranged(hs, un, us, ca, fi \o <<>>, <<>>, he, q, n)
<1> PICK h \in Nat, p1 \in Nat, p2 \in Nat, p3 \in Nat, p4 \in Nat, p5 \in Nat, p6 \in Nat :
        /\ HistorySpans(hs, h) /\ Spans(un, h, p1) /\ Spans(us, p1, p2) /\ Spans(ca, p2, p3)
        /\ Spans(fu, p3, p4) /\ Spans(fi, p4, p5) /\ Spans(he, p5, p6)
        /\ QueueSpans(q, p6, n)
  BY DEF Arranged
<1>1. Spans(<<>>, p6, p6) /\ Spans(<<>>, p5, p5) /\ Spans(fi \o he, p4, p6)
  BY EmptySpans, SpansJoin
<1>2. fu = <<>> => p3 = p4
  BY SpansLen
<1>3. Arranged(hs, un, us, ca, fu, fi \o he, <<>>, q, n)
  BY <1>1, ArrangedNow
<1>4. ASSUME fu = <<>> PROVE Arranged(hs, un, us, ca, fi \o he, <<>>, <<>>, q, n)
  <2>1. Spans(fi \o he, p3, p6)
    BY <1>1, <1>2, <1>4
  <2> QED BY <1>1, <2>1, ArrangedNow
<1>5. ASSUME fu = <<>> PROVE Arranged(hs, un, us, ca, fi \o <<>>, <<>>, he, q, n)
  <2>1. fi \o <<>> = fi
    BY ConcatEmptySeq DEF Spans, NumSeq
  <2>2. Spans(fi \o <<>>, p3, p5)
    BY <1>2, <1>5, <2>1
  <2> QED BY <1>1, <2>2, ArrangedNow
<1> QED BY <1>3, <1>4, <1>5

LEMMA MovesOfQueue ==
    ASSUME NEW hs, NEW us, NEW ca, NEW fu, NEW fi, NEW he, NEW q, NEW n \in Nat, NEW un,
           Arranged(hs, un, us, ca, fu, fi, he, q, n)
    PROVE  /\ Arranged(hs, un, us, ca, fu, fi, he, Append(q, n + 1), n + 1)
           /\ Arranged(hs, un, us, ca, fu, fi, he, Append(q, Flush), n)
           /\ q # <<>> /\ Head(q) # Flush =>
                Arranged(hs, un, us, ca, fu, fi, Append(he, Head(q)), Tail(q), n)
           /\ q # <<>> /\ Head(q) = Flush => Arranged(hs, un, us, ca, fu, fi, he, Tail(q), n)
           /\ \A k \in 1..Len(q) :
                q[k] = Flush => Arranged(hs, un, us, ca, fu, fi, he, RemoveAt(q, k), n)
<1> PICK h \in Nat, p1 \in Nat, p2 \in Nat, p3 \in Nat, p4 \in Nat, p5 \in Nat, p6 \in Nat :
        /\ HistorySpans(hs, h) /\ Spans(un, h, p1) /\ Spans(us, p1, p2) /\ Spans(ca, p2, p3)
        /\ Spans(fu, p3, p4) /\ Spans(fi, p4, p5) /\ Spans(he, p5, p6)
        /\ QueueSpans(q, p6, n)
  BY DEF Arranged
<1>1. Arranged(hs, un, us, ca, fu, fi, he, Append(q, n + 1), n + 1)
  <2>1. QueueSpans(Append(q, n + 1), p6, n + 1)
    BY QueueWord
  <2> QED BY <2>1, ArrangedNow
<1>2. Arranged(hs, un, us, ca, fu, fi, he, Append(q, Flush), n)
  <2>1. QueueSpans(Append(q, Flush), p6, n)
    BY QueueFlush
  <2> QED BY <2>1, ArrangedNow
<1>3. ASSUME q # <<>>, Head(q) # Flush
      PROVE  Arranged(hs, un, us, ca, fu, fi, Append(he, Head(q)), Tail(q), n)
  <2>1. Head(q) = p6 + 1 /\ QueueSpans(Tail(q), p6 + 1, n)
    BY <1>3, QueueHead
  <2>2. Spans(Append(he, p6 + 1), p5, p6 + 1) /\ p6 + 1 \in Nat
    BY SpansMore
  <2>3. Spans(Append(he, Head(q)), p5, p6 + 1)
    BY <2>1, <2>2
  <2> QED BY <2>1, <2>2, <2>3, ArrangedNow
<1>4. ASSUME q # <<>>, Head(q) = Flush
      PROVE  Arranged(hs, un, us, ca, fu, fi, he, Tail(q), n)
  <2>1. QueueSpans(Tail(q), p6, n)
    BY <1>4, QueueHead
  <2> QED BY <2>1, ArrangedNow
<1>5. ASSUME NEW k \in 1..Len(q), q[k] = Flush
      PROVE  Arranged(hs, un, us, ca, fu, fi, he, RemoveAt(q, k), n)
  <2>1. q \in Seq(Nat)
    BY DEF QueueSpans, NumSeq
  <2> DEFINE r == RemoveAt(q, k)
  <2>2. /\ r \in Seq(Nat) /\ Len(r) = Len(q) - 1
        /\ \A i \in 1..Len(q) - 1 : r[i] = IF i < k THEN q[i] ELSE q[i + 1]
    BY <2>1, RemoveAtFacts
  <2> HIDE DEF r
  <2>3. QueueSpans(r, p6, n)
    BY <1>5, <2>2, QueueWithoutFlush
  <2>4. Arranged(hs, un, us, ca, fu, fi, he, r, n)
    BY <2>3, ArrangedNow
  <2> QED BY <2>4 DEF r
<1> QED BY <1>1, <1>2, <1>3, <1>4, <1>5

LEMMA WordsStep ==
    LoopTypes /\ TurnTypes /\ TurnInv /\ FlushInv /\ WordsInv /\ [Next]_vars => WordsInv'
<1> SUFFICES ASSUME LoopTypes, TurnTypes, TurnInv, FlushInv, WordsInv, [Next]_vars, ~env'.givesUp
             PROVE  Arranged(history', unanswered', userText', carry', futureText', finals', heard',
                             sttIn', spoken')
  BY DEF WordsInv
<1>0. ~env.givesUp
  BY DEF Next, Loop, FrameWhileBusy, FrameBeforeHangUp, FrameListening, FrameCommits, AudioEnds,
         AudioFails, Finish, CleanUp, EndSession, LoseEnd, TickerDies, HangUpFallsDue, Turn,
         TurnBegins, FlushAnswered, FlushGivenUp, LlmReplies, AudioStarts, WorkDone, InterruptSeen,
         ProviderFails, StopWork, TurnFails, TurnRecorded, Stt, SttHears, SttInterim, SttFinal,
         SttAnswers, SttTimesOut, SttAnswersShifted, SttStops, sttVars, vars
<1>1. Arranged(history, unanswered, userText, carry, futureText, finals, heard, sttIn, spoken)
  BY <1>0 DEF WordsInv
<1>2. spoken \in Nat
  BY WordsAreBounded DEF LoopTypes
<1> DEFINE Texts0 == <<history, unanswered, carry, futureText, finals, heard>>
<1>3. CASE UNCHANGED <<Texts0, userText, sttIn, spoken>>
  BY <1>1, <1>3
<1>4. ASSUME NEW speech \in BOOLEAN, TakeFrame(speech), UNCHANGED Texts0, userText' = userText
      PROVE  Arranged(history', unanswered', userText', carry', futureText', finals', heard',
                      sttIn', spoken')
  <2>1. CASE speech
    <3>1. spoken' = spoken + 1 /\ sttIn' = Append(sttIn, spoken + 1)
      BY <1>4, <2>1 DEF TakeFrame
    <3>2. Arranged(history, unanswered, userText, carry, futureText, finals, heard,
                   Append(sttIn, spoken + 1), spoken + 1)
      BY <1>1, <1>2, MovesOfQueue
    <3> QED BY <1>4, <3>1, <3>2
  <2>2. CASE ~speech
    BY <1>1, <1>4, <2>2 DEF TakeFrame
  <2> QED BY <2>1, <2>2
<1>5. CASE Loop
  <2>1. ASSUME NEW speech \in BOOLEAN,
               FrameWhileBusy(speech) \/ FrameBeforeHangUp(speech) \/ FrameListening(speech)
        PROVE  TakeFrame(speech) /\ UNCHANGED <<Texts0, userText>>
    BY <2>1 DEF FrameWhileBusy, FrameBeforeHangUp, FrameListening, textVars, requestVars, sttVars
  <2>2. FrameCommits => TakeFrame(FALSE) /\ UNCHANGED <<Texts0, userText>>
    BY DEF FrameCommits, Listening, Busy, TurnInv, textVars, sttVars
  <2>3. ASSUME AudioEnds \/ AudioFails \/ Finish \/ CleanUp \/ EndSession \/ LoseEnd
               \/ TickerDies \/ HangUpFallsDue
        PROVE  UNCHANGED <<Texts0, userText, sttIn, spoken>>
    BY <2>3 DEF AudioEnds, AudioFails, Finish, CleanUp, EndSession, LoseEnd, TickerDies,
                HangUpFallsDue, textVars,
                requestVars, sttVars
  <2> QED BY <1>3, <1>4, <1>5, <2>1, <2>2, <2>3 DEF Loop
<1>6. CASE Turn
  <2>1. CASE TurnBegins
    <3>1. CASE greeting
      BY <1>3, <2>1, <3>1 DEF TurnBegins, requestVars, sttVars
    <3>2. CASE ~greeting
      <4>1. /\ sttIn' = Append(sttIn, Flush) /\ UNCHANGED <<Texts0, userText, spoken>>
        BY <2>1, <3>2 DEF TurnBegins, requestVars, sttVars
      <4>2. Arranged(history, unanswered, userText, carry, futureText, finals, heard,
                     Append(sttIn, Flush), spoken)
        BY <1>1, <1>2, MovesOfQueue
      <4> QED BY <4>1, <4>2
    <3> QED BY <3>1, <3>2
  <2>2. CASE FlushAnswered
    <3>1. userText = <<>>
      BY <2>2 DEF FlushAnswered, TurnInv
    <3>2. /\ futureText' = <<>>
          /\ UNCHANGED <<history, unanswered, finals, heard, sttIn, spoken>>
          /\ \/ userText' = <<>> /\ carry' = carry \o futureText
             \/ userText' = carry \o futureText /\ carry' = <<>>
      BY <2>2 DEF FlushAnswered, Transcribed, sttVars
    <3>3. /\ Arranged(history, unanswered, carry \o futureText, <<>>, <<>>, finals, heard, sttIn,
                       spoken)
          /\ Arranged(history, unanswered, <<>>, carry \o futureText, <<>>, finals, heard, sttIn,
                       spoken)
      BY <1>1, <3>1, MovesOfTurns
    <3> QED BY <3>2, <3>3
  <2>3. CASE FlushGivenUp
    BY <1>0, <2>3 DEF FlushGivenUp
  <2>4. CASE (\E text \in {"words", "goodbye"} : LlmReplies(text)) \/ AudioStarts
                \/ WorkDone \/ InterruptSeen \/ ProviderFails
    <3>1. UNCHANGED <<Texts0, userText, sttIn, spoken>>
      BY <2>4 DEF LlmReplies, AudioStarts, WorkDone, InterruptSeen, ProviderFails, StopWork,
                  textVars, requestVars, sttVars
    <3> QED BY <1>3, <3>1
  <2>5. CASE TurnFails
    <3>1. /\ unanswered' = unanswered \o userText /\ userText' = <<>>
          /\ UNCHANGED <<history, carry, futureText, finals, heard, sttIn, spoken>>
      BY <2>5 DEF TurnFails, textVars, sttVars
    <3>2. Arranged(history, unanswered \o userText, <<>>, carry, futureText, finals, heard, sttIn,
                   spoken)
      BY <1>1, MovesOfTurns
    <3> QED BY <3>1, <3>2
  <2>6. CASE TurnRecorded
    <3>1. /\ carry = <<>> /\ unanswered = <<>> /\ userText' = <<>>
          /\ UNCHANGED <<unanswered, futureText, finals, heard, sttIn, spoken>>
      BY <2>6 DEF TurnRecorded, TurnInv, textVars, sttVars
    <3>2. CASE cutShort /\ ~audio /\ userText # <<>>
      <4>1. carry' = userText /\ history' = history
        BY <2>6, <3>2 DEF TurnRecorded, Conclude
      <4>2. Arranged(history, unanswered, <<>>, userText, futureText, finals, heard, sttIn, spoken)
        BY <1>1, <3>1, MovesOfTurns
      <4> QED BY <3>1, <4>1, <4>2
    <3>3. CASE ~(cutShort /\ ~audio /\ userText # <<>>)
      <4> DEFINE hs == history \o (IF userText # <<>> THEN <<Said(userText)>> ELSE <<>>)
                 hs2 == hs \o (IF reply # "none" THEN <<Replied>> ELSE <<>>)
      <4>1. carry' = carry /\ history' = hs2
        BY <2>6, <3>3 DEF TurnRecorded, Conclude
      <4>2. Arranged(history, <<>>, userText, carry, futureText, finals, heard, sttIn, spoken)
        BY <1>1, <3>1
      <4>3. Arranged(hs, <<>>, <<>>, carry, futureText, finals, heard, sttIn, spoken)
        BY <4>2, MovesToHistory
      <4> HIDE DEF hs
      <4>4. Arranged(hs2, <<>>, <<>>, carry, futureText, finals, heard, sttIn, spoken)
        <5>1. CASE reply # "none"
          BY <4>3, <5>1, MovesToHistory
        <5>2. CASE reply = "none"
          BY <4>3, <5>2, MovesToHistory
        <5> QED BY <5>1, <5>2
      <4> HIDE DEF hs2
      <4> QED BY <3>1, <4>1, <4>4
    <3> QED BY <3>2, <3>3
  <2> QED BY <1>6, <2>1, <2>2, <2>3, <2>4, <2>5, <2>6 DEF Turn
<1>7. CASE Stt
  <2>0. UNCHANGED <<history, unanswered, userText, carry, spoken>>
    BY <1>7 DEF Stt, SttHears, SttInterim, SttFinal, SttAnswers, SttTimesOut, SttAnswersShifted,
                SttStops, requestVars
  <2>1. CASE SttHears
    <3>1. /\ sttIn # <<>> /\ Head(sttIn) # Flush /\ heard' = Append(heard, Head(sttIn))
          /\ sttIn' = Tail(sttIn) /\ UNCHANGED <<futureText, finals>>
      BY <2>1 DEF SttHears, textVars
    <3>2. Arranged(history, unanswered, userText, carry, futureText, finals,
                   Append(heard, Head(sttIn)), Tail(sttIn), spoken)
      BY <1>1, <1>2, <3>1, MovesOfQueue
    <3> QED BY <2>0, <3>1, <3>2
  <2>2. CASE SttFinal
    <3>1. /\ finals' = finals \o heard /\ heard' = <<>> /\ UNCHANGED <<futureText, sttIn>>
      BY <2>2 DEF SttFinal
    <3>2. Arranged(history, unanswered, userText, carry, futureText, finals \o heard, <<>>, sttIn,
                   spoken)
      BY <1>1, MovesOfFinals
    <3> QED BY <2>0, <3>1, <3>2
  <2>3. CASE SttAnswers \/ SttTimesOut \/ SttAnswersShifted
    <3>1. /\ \/ sttIn # <<>> /\ Head(sttIn) = Flush /\ sttIn' = Tail(sttIn)
             \/ \E k \in 1..Len(sttIn) : sttIn[k] = Flush /\ sttIn' = RemoveAt(sttIn, k)
          /\ \/ ConsumeFlushed(heard) /\ heard' = <<>>
             \/ ConsumeFlushed(<<>>) /\ heard' = heard
      BY <2>3 DEF SttAnswers, SttTimesOut, SttAnswersShifted
    <3>2. ~NoFlush(sttIn)
      <4>1. CASE sttIn # <<>> /\ Head(sttIn) = Flush
        <5>1. CASE sttIn \in Seq(Nat)
          <6>1. Len(sttIn) \in Nat \ {0} /\ Head(sttIn) = sttIn[1]
            BY <4>1, <5>1, EmptySeq
          <6> QED BY <4>1, <6>1 DEF NoFlush
        <5> QED BY <1>1, <5>1 DEF Arranged, QueueSpans, NumSeq
      <4>2. CASE \E k \in 1..Len(sttIn) : sttIn[k] = Flush
        BY <4>2 DEF NoFlush
      <4> QED BY <3>1, <4>1, <4>2
    <3>3. future = "waiting"
      BY <1>0, <3>2 DEF FlushInv
    <3>4. futureText = <<>>
      BY <3>3 DEF TurnInv
    <3>5. Arranged(history, unanswered, userText, carry, futureText, finals, heard, sttIn', spoken)
      BY <1>1, <1>2, <3>1, MovesOfQueue
    <3>6. /\ Arranged(history, unanswered, userText, carry, finals \o heard, <<>>, <<>>, sttIn',
                       spoken)
          /\ Arranged(history, unanswered, userText, carry, finals \o <<>>, <<>>, heard, sttIn',
                       spoken)
      BY <3>4, <3>5, MovesOfFinals
    <3>7. \/ futureText' = finals \o heard /\ finals' = <<>> /\ heard' = <<>>
          \/ futureText' = finals \o <<>> /\ finals' = <<>> /\ heard' = heard
      BY <3>1, <3>3 DEF ConsumeFlushed
    <3> QED BY <2>0, <3>6, <3>7
  <2>4. CASE SttInterim \/ \E how \in {"ended", "failed"} : SttStops(how)
    <3>1. UNCHANGED <<Texts0, userText, sttIn, spoken>>
      BY <2>4 DEF SttInterim, SttStops, textVars, requestVars, sttVars
    <3> QED BY <1>3, <3>1
  <2> QED BY <1>7, <2>1, <2>2, <2>3, <2>4 DEF Stt
<1>8. CASE UNCHANGED vars
  BY <1>3, <1>8 DEF vars, textVars, requestVars, sttVars
<1> QED BY <1>5, <1>6, <1>7, <1>8 DEF Next

(* Texts that hold, in order, the words after a up to b: what each part of *)
(* Places does, and so all of it.                                          *)
TextSeqs == Seq(NumSeq)

Holds(texts, a, b) ==
    /\ texts \in TextSeqs /\ a <= b
    /\ \A i \in 1..Len(texts) : \A m \in 1..Len(texts[i]) : texts[i][m] \in (a + 1)..b
    /\ \A i, j \in 1..Len(texts) : \A m \in 1..Len(texts[i]), n \in 1..Len(texts[j]) :
         i < j \/ (i = j /\ m < n) => texts[i][m] < texts[j][n]
    /\ \A w \in (a + 1)..b :
         \E i \in 1..Len(texts) : \E m \in 1..Len(texts[i]) : texts[i][m] = w

LEMMA TextFact ==
    ASSUME NEW texts \in TextSeqs
    PROVE  /\ Len(texts) \in Nat /\ DOMAIN texts = 1..Len(texts)
           /\ \A i \in 1..Len(texts) :
                /\ texts[i] \in Seq(Nat) /\ Len(texts[i]) \in Nat
                /\ DOMAIN texts[i] = 1..Len(texts[i])
<1>1. texts \in Seq(NumSeq)
  BY DEF TextSeqs
<1>2. Len(texts) \in Nat /\ DOMAIN texts = 1..Len(texts)
  BY <1>1, LenProperties
<1>3. ASSUME NEW i \in 1..Len(texts)
      PROVE  /\ texts[i] \in Seq(Nat) /\ Len(texts[i]) \in Nat
             /\ DOMAIN texts[i] = 1..Len(texts[i])
  <2>1. texts[i] \in Seq(Nat)
    BY <1>1, ElementOfSeq DEF NumSeq
  <2> QED BY <2>1, LenProperties
<1> QED BY <1>2, <1>3

LEMMA HoldsInOrder ==
    ASSUME NEW texts, NEW b \in Nat, Holds(texts, 0, b)
    PROVE  InOrder(texts) /\ WordsOf(texts) = 1..b
<1>1. texts \in TextSeqs
  BY DEF Holds
<1>2. InOrder(texts)
  <2> SUFFICES ASSUME NEW i \in DOMAIN texts, NEW j \in DOMAIN texts,
                      NEW m \in DOMAIN texts[i], NEW n \in DOMAIN texts[j],
                      i < j \/ (i = j /\ m < n)
               PROVE  texts[i][m] < texts[j][n]
    BY DEF InOrder
  <2>1. i \in 1..Len(texts) /\ j \in 1..Len(texts)
    BY <1>1, TextFact
  <2>2. m \in 1..Len(texts[i]) /\ n \in 1..Len(texts[j])
    BY <1>1, <2>1, TextFact
  <2> QED BY <2>1, <2>2 DEF Holds
<1>3. ASSUME NEW w \in WordsOf(texts) PROVE w \in 1..b
  <2>1. PICK i \in DOMAIN texts : w \in Range(texts[i])
    BY <1>3 DEF WordsOf
  <2>2. PICK m \in DOMAIN texts[i] : w = texts[i][m]
    BY <2>1 DEF Range
  <2>3. i \in 1..Len(texts)
    BY <1>1, TextFact
  <2>4. m \in 1..Len(texts[i])
    BY <1>1, <2>3, TextFact
  <2>5. texts[i][m] \in (0 + 1)..b
    BY <2>3, <2>4 DEF Holds
  <2> QED BY <2>2, <2>5
<1>4. ASSUME NEW w \in 1..b PROVE w \in WordsOf(texts)
  <2>0. w \in (0 + 1)..b
    OBVIOUS
  <2>1. PICK i \in 1..Len(texts) : \E m \in 1..Len(texts[i]) : texts[i][m] = w
    BY ZenonT(60), <2>0 DEF Holds
  <2>2. PICK m \in 1..Len(texts[i]) : texts[i][m] = w
    BY <2>1
  <2>3. i \in DOMAIN texts /\ m \in DOMAIN texts[i]
    BY <1>1, TextFact
  <2>4. w \in Range(texts[i])
    BY <2>2, <2>3 DEF Range
  <2> QED BY <2>3, <2>4 DEF WordsOf
<1> QED BY <1>2, <1>3, <1>4

LEMMA PlacesJoin ==
    ASSUME NEW x \in Nat, NEW y \in Nat, NEW k \in 1..(x + y)
    PROVE  \/ k \in 1..x
           \/ k - x \in 1..y /\ ~(k <= x)
OBVIOUS

LEMMA HoldsJoin ==
    ASSUME NEW a \in Nat, NEW b \in Nat, NEW c \in Nat, NEW A, NEW B,
           Holds(A, a, b), Holds(B, b, c)
    PROVE  Holds(A \o B, a, c)
<1> DEFINE T == A \o B
<1>0. A \in Seq(NumSeq) /\ B \in Seq(NumSeq) /\ a <= b /\ b <= c
  BY DEF Holds, TextSeqs
<1>1. /\ T \in Seq(NumSeq) /\ Len(T) = Len(A) + Len(B)
      /\ \A k \in 1..(Len(A) + Len(B)) : T[k] = IF k <= Len(A) THEN A[k] ELSE B[k - Len(A)]
  BY <1>0, ConcatProperties
<1>2. PICK x \in Nat : x = Len(A)
  BY <1>0, LenProperties
<1>3. PICK y \in Nat : y = Len(B)
  BY <1>0, LenProperties
<1> HIDE DEF T
<1>4. ASSUME NEW k \in 1..Len(T)
      PROVE  \/ k \in 1..x /\ T[k] = A[k]
             \/ k - x \in 1..y /\ T[k] = B[k - x]
  <2>1. k \in 1..(x + y)
    BY <1>1, <1>2, <1>3
  <2>2. CASE k \in 1..x
    BY <1>1, <1>2, <1>3, <2>1, <2>2
  <2>3. CASE k - x \in 1..y /\ ~(k <= x)
    BY <1>1, <1>2, <1>3, <2>1, <2>3
  <2> QED BY <2>1, <2>2, <2>3, PlacesJoin
<1>5. ASSUME NEW k \in 1..x, NEW m \in 1..Len(A[k]) PROVE A[k][m] \in Int /\ A[k][m] \in (a + 1)..b
  BY <1>2 DEF Holds
<1>6. ASSUME NEW k \in 1..y, NEW m \in 1..Len(B[k]) PROVE B[k][m] \in Int /\ B[k][m] \in (b + 1)..c
  BY <1>3 DEF Holds
<1>7. ASSUME NEW i \in 1..Len(T), NEW m \in 1..Len(T[i])
      PROVE  T[i][m] \in (a + 1)..c
  <2>1. CASE i \in 1..x /\ T[i] = A[i]
    <3>1. T[i][m] \in (a + 1)..b
      BY <1>5, <2>1
    <3> QED BY <1>0, <3>1
  <2>2. CASE i - x \in 1..y /\ T[i] = B[i - x]
    <3>1. T[i][m] \in (b + 1)..c
      BY <1>6, <2>2
    <3> QED BY <1>0, <3>1
  <2> QED BY <1>4, <2>1, <2>2
<1>8. ASSUME NEW i \in 1..Len(T), NEW j \in 1..Len(T),
             NEW m \in 1..Len(T[i]), NEW n \in 1..Len(T[j]), i < j \/ (i = j /\ m < n)
      PROVE  T[i][m] < T[j][n]
  <2>1. CASE i \in 1..x /\ T[i] = A[i] /\ j \in 1..x /\ T[j] = A[j]
    <3>1. i \in 1..Len(A) /\ j \in 1..Len(A) /\ m \in 1..Len(A[i]) /\ n \in 1..Len(A[j])
      BY <1>2, <2>1
    <3>2. A[i][m] < A[j][n]
      BY <1>8, <3>1 DEF Holds
    <3> QED BY <2>1, <3>2
  <2>2. CASE i \in 1..x /\ T[i] = A[i] /\ j - x \in 1..y /\ T[j] = B[j - x]
    <3>1. T[i][m] \in (a + 1)..b
      BY <1>5, <2>2
    <3>2. T[j][n] \in (b + 1)..c
      BY <1>6, <2>2
    <3> DEFINE u == T[i][m]
               v == T[j][n]
    <3>3. u \in (a + 1)..b /\ v \in (b + 1)..c
      BY <3>1, <3>2
    <3> HIDE DEF u, v
    <3>4. u < v
      BY <3>3
    <3> QED BY <3>4 DEF u, v
  <2>3. CASE i - x \in 1..y /\ j \in 1..x
    <3>1. Len(T) \in Nat
      BY <1>1, <1>2, <1>3
    <3>2. i \in Nat /\ j \in Nat /\ i <= j
      BY <1>8, <3>1
    <3> QED BY <2>3, <3>2
  <2>4. CASE i - x \in 1..y /\ T[i] = B[i - x] /\ j - x \in 1..y /\ T[j] = B[j - x]
    <3>1. i - x < j - x \/ (i - x = j - x /\ m < n)
      BY <1>8
    <3>2. i - x \in 1..Len(B) /\ j - x \in 1..Len(B)
      BY <1>3, <2>4
    <3>3. m \in 1..Len(B[i - x]) /\ n \in 1..Len(B[j - x])
      BY <2>4
    <3>4. B[i - x][m] < B[j - x][n]
      BY <3>1, <3>2, <3>3 DEF Holds
    <3> QED BY <2>4, <3>4
  <2> QED BY <1>4, <2>1, <2>2, <2>3, <2>4
<1>9. ASSUME NEW w \in (a + 1)..c
      PROVE  \E i \in 1..Len(T) : \E m \in 1..Len(T[i]) : T[i][m] = w
  <2>1. CASE w <= b
    <3>1. w \in (a + 1)..b
      BY <2>1
    <3>2. PICK i \in 1..x : \E m \in 1..Len(A[i]) : A[i][m] = w
      BY <1>2, <3>1 DEF Holds
    <3>3. i \in 1..Len(T) /\ i \in 1..(x + y) /\ i <= x
      BY <1>1, <1>2, <1>3
    <3>4. T[i] = A[i]
      BY <1>1, <1>2, <1>3, <3>3
    <3> QED BY <3>2, <3>3, <3>4
  <2>2. CASE b < w
    <3>1. w \in (b + 1)..c
      BY <2>2
    <3>2. PICK i \in 1..y : \E m \in 1..Len(B[i]) : B[i][m] = w
      BY <1>3, <3>1 DEF Holds
    <3>3. x + i \in 1..Len(T) /\ x + i \in 1..(x + y) /\ ~(x + i <= x) /\ (x + i) - x = i
      BY <1>1, <1>2, <1>3
    <3>4. T[x + i] = B[i]
      BY <1>1, <1>2, <1>3, <3>3
    <3> QED BY <3>2, <3>3, <3>4
  <2> QED BY <2>1, <2>2
<1>10. T \in TextSeqs /\ a <= c
  BY <1>0, <1>1 DEF TextSeqs
<1>11. Holds(T, a, c)
  BY <1>7, <1>8, <1>9, <1>10 DEF Holds
<1> QED BY <1>11 DEF T

LEMMA HoldsOne ==
    ASSUME NEW a \in Nat, NEW b \in Nat, NEW t, Spans(t, a, b)
    PROVE  Holds(<<t>>, a, b)
<1>1. t \in Seq(Nat) /\ Len(t) = b - a /\ a <= b
  BY SpansLen DEF Spans, NumSeq
<1>2. <<t>> \in TextSeqs /\ Len(<<t>>) = 1 /\ <<t>>[1] = t
  BY <1>1 DEF TextSeqs, NumSeq
<1>3. ASSUME NEW m \in 1..Len(t) PROVE t[m] = a + m /\ t[m] \in (a + 1)..b
  BY <1>1 DEF Spans
<1>4. ASSUME NEW w \in (a + 1)..b PROVE w - a \in 1..Len(t) /\ t[w - a] = w
  <2>1. w - a \in 1..Len(t) /\ a + (w - a) = w
    BY <1>1
  <2> QED BY <2>1 DEF Spans
<1> DEFINE T == <<t>>
<1>5. T \in TextSeqs /\ Len(T) = 1 /\ T[1] = t
  BY <1>2
<1> HIDE DEF T
<1>6. \A i \in 1..Len(T) : i = 1 /\ T[i] = t
  BY <1>5
<1>7. \A i, j \in 1..Len(T) : \A m \in 1..Len(T[i]), n \in 1..Len(T[j]) :
         i < j \/ (i = j /\ m < n) => T[i][m] < T[j][n]
  <2> SUFFICES ASSUME NEW i \in 1..Len(T), NEW j \in 1..Len(T),
                      NEW m \in 1..Len(T[i]), NEW n \in 1..Len(T[j]),
                      i < j \/ (i = j /\ m < n)
               PROVE  T[i][m] < T[j][n]
    OBVIOUS
  <2>1. i = 1 /\ j = 1 /\ T[i] = t /\ T[j] = t
    BY <1>6
  <2>2. m < n
    BY <2>1
  <2>3. T[i][m] = a + m /\ T[j][n] = a + n
    BY <1>3, <2>1
  <2> QED BY <2>2, <2>3
<1>8. \A w \in (a + 1)..b : \E i \in 1..Len(T) : \E m \in 1..Len(T[i]) : T[i][m] = w
  BY <1>4, <1>5
<1>9. \A i \in 1..Len(T) : \A m \in 1..Len(T[i]) : T[i][m] \in (a + 1)..b
  BY <1>3, <1>6
<1>10. Holds(T, a, b)
  BY <1>1, <1>5, <1>7, <1>8, <1>9 DEF Holds
<1> QED BY <1>10 DEF T

LEMMA HistoryHolds ==
    ASSUME NEW hs, NEW h \in Nat, HistorySpans(hs, h)
    PROVE  Holds([i \in 1..Len(hs) |-> hs[i].words], 0, h)
<1> DEFINE T == [i \in 1..Len(hs) |-> hs[i].words]
<1>1. Len(hs) \in Nat /\ \A i \in 1..Len(hs) : hs[i].words \in NumSeq
  <2> DEFINE R == [role : {"user", "assistant"}, words : NumSeq]
  <2>1. hs \in Seq(R)
    BY DEF HistorySpans, LineSeq, Lines
  <2>2. Len(hs) \in Nat /\ \A i \in 1..Len(hs) : hs[i] \in R
    <3> HIDE DEF R
    <3> QED BY <2>1, LenProperties, ElementOfSeq
  <2> QED BY <2>2
<1>2. T \in [1..Len(hs) -> NumSeq] /\ \A i \in 1..Len(hs) : T[i] = hs[i].words
  BY <1>1
<1> HIDE DEF T
<1>3. T \in Seq(NumSeq)
  BY <1>1, <1>2, SeqDef
<1>4. DOMAIN T = 1..Len(T) /\ Len(T) \in Nat
  BY <1>3, LenProperties
<1>5. Len(T) = Len(hs)
  BY <1>1, <1>2, <1>4
<1>6. ASSUME NEW i \in 1..Len(T), NEW m \in 1..Len(T[i]) PROVE T[i][m] \in (0 + 1)..h
  <2>1. i \in 1..Len(hs) /\ m \in 1..Len(hs[i].words) /\ T[i] = hs[i].words
    BY <1>2, <1>5
  <2>2. T[i][m] \in 1..h
    BY <2>1 DEF HistorySpans
  <2> QED BY <2>2
<1>7. ASSUME NEW i \in 1..Len(T), NEW j \in 1..Len(T),
             NEW m \in 1..Len(T[i]), NEW n \in 1..Len(T[j]), i < j \/ (i = j /\ m < n)
      PROVE  T[i][m] < T[j][n]
  <2>1. /\ i \in 1..Len(hs) /\ m \in 1..Len(hs[i].words) /\ T[i] = hs[i].words
        /\ j \in 1..Len(hs) /\ n \in 1..Len(hs[j].words) /\ T[j] = hs[j].words
    BY <1>2, <1>5
  <2>2. hs[i].words[m] < hs[j].words[n]
    BY <1>7, <2>1 DEF HistorySpans
  <2> QED BY <2>1, <2>2
<1>8. ASSUME NEW w \in (0 + 1)..h
      PROVE  \E i \in 1..Len(T) : \E m \in 1..Len(T[i]) : T[i][m] = w
  <2>1. w \in 1..h
    OBVIOUS
  <2>2. PICK i \in 1..Len(hs) : \E m \in 1..Len(hs[i].words) : hs[i].words[m] = w
    BY <2>1 DEF HistorySpans
  <2>3. i \in 1..Len(T) /\ T[i] = hs[i].words
    BY <1>2, <1>5
  <2> QED BY <2>2, <2>3
<1>9. Holds(T, 0, h)
  BY <1>3, <1>6, <1>7, <1>8 DEF Holds, TextSeqs
<1> QED BY <1>9 DEF T

LEMMA QueueHolds ==
    ASSUME NEW q, NEW a \in Nat, NEW b \in Nat, QueueSpans(q, a, b)
    PROVE  Holds([i \in 1..Len(q) |-> IF q[i] = Flush THEN <<>> ELSE <<q[i]>>], a, b)
<1> DEFINE T == [i \in 1..Len(q) |-> IF q[i] = Flush THEN <<>> ELSE <<q[i]>>]
<1>1. Len(q) \in Nat /\ a <= b /\ \A i \in 1..Len(q) : q[i] \in Nat
  BY LenProperties, ElementOfSeq DEF QueueSpans, NumSeq
<1>2. ASSUME NEW i \in 1..Len(q)
      PROVE  /\ T[i] \in NumSeq
             /\ q[i] = Flush => Len(T[i]) = 0
             /\ q[i] # Flush => Len(T[i]) = 1 /\ T[i][1] = q[i]
  <2>1. CASE q[i] = Flush
    <3>1. T[i] = <<>>
      BY <2>1
    <3> QED BY <2>1, <3>1, EmptySeq DEF NumSeq
  <2>2. CASE q[i] # Flush
    <3>1. T[i] = <<q[i]>> /\ q[i] \in Nat
      BY <1>1, <2>2
    <3> HIDE DEF T
    <3>2. <<q[i]>> \in Seq(Nat) /\ Len(<<q[i]>>) = 1 /\ <<q[i]>>[1] = q[i]
      BY <3>1
    <3> QED BY <2>2, <3>1, <3>2 DEF NumSeq
  <2> QED BY <2>1, <2>2
<1>3. T \in [1..Len(q) -> NumSeq]
  BY <1>2
<1> HIDE DEF T
<1>4. T \in Seq(NumSeq)
  BY <1>1, <1>3, SeqDef
<1>5. DOMAIN T = 1..Len(T) /\ Len(T) \in Nat
  BY <1>4, LenProperties
<1>6. Len(T) = Len(q)
  BY <1>1, <1>3, <1>5
<1>7. ASSUME NEW i \in 1..Len(T), NEW m \in 1..Len(T[i])
      PROVE  q[i] # Flush /\ m = 1 /\ T[i][m] = q[i] /\ q[i] \in (a + 1)..b
  <2>1. q[i] # Flush /\ Len(T[i]) = 1 /\ T[i][1] = q[i]
    BY <1>2, <1>6
  <2> QED BY <1>6, <2>1 DEF QueueSpans
<1>8. ASSUME NEW i \in 1..Len(T), NEW j \in 1..Len(T),
             NEW m \in 1..Len(T[i]), NEW n \in 1..Len(T[j]), i < j \/ (i = j /\ m < n)
      PROVE  T[i][m] < T[j][n]
  <2>1. /\ q[i] # Flush /\ m = 1 /\ T[i][m] = q[i]
        /\ q[j] # Flush /\ n = 1 /\ T[j][n] = q[j]
    BY <1>7
  <2>2. i < j
    BY <1>8, <2>1
  <2> QED BY <1>6, <2>1, <2>2 DEF QueueSpans
<1>9. ASSUME NEW w \in (a + 1)..b
      PROVE  \E i \in 1..Len(T) : \E m \in 1..Len(T[i]) : T[i][m] = w
  <2>1. PICK i \in 1..Len(q) : q[i] = w
    BY DEF QueueSpans
  <2>2. q[i] # Flush
    BY <2>1 DEF Flush
  <2>3. i \in 1..Len(T) /\ 1 \in 1..Len(T[i]) /\ T[i][1] = w
    BY <1>2, <1>6, <2>1, <2>2
  <2> QED BY <2>3
<1>10. Holds(T, a, b)
  BY <1>1, <1>4, <1>7, <1>8, <1>9 DEF Holds, TextSeqs
<1> QED BY <1>10 DEF T

LEMMA TwoTexts ==
    ASSUME NEW S, NEW a \in S, NEW b \in S
    PROVE  <<a>> \o <<b>> = <<a, b>>
<1> DEFINE T == <<a>> \o <<b>>
<1>1. <<a>> \in Seq(S) /\ <<b>> \in Seq(S) /\ <<a, b>> \in Seq(S)
  OBVIOUS
<1>2. Len(T) = 2 /\ T \in Seq(S)
  BY <1>1, ConcatProperties
<1>3. T[1] = a /\ T[2] = b
  BY <1>1, ConcatProperties
<1> HIDE DEF T
<1>4. T = <<a, b>>
  BY <1>1, <1>2, <1>3, SeqEqual
<1> QED BY <1>4 DEF T

LEMMA FourTexts ==
    ASSUME NEW S, NEW a \in S, NEW b \in S, NEW c \in S, NEW d \in S
    PROVE  <<a, b>> \o <<c, d>> = <<a, b, c, d>>
<1> DEFINE T == <<a, b>> \o <<c, d>>
<1>1. <<a, b>> \in Seq(S) /\ <<c, d>> \in Seq(S) /\ <<a, b, c, d>> \in Seq(S)
  OBVIOUS
<1>2. Len(T) = 4 /\ T \in Seq(S)
  BY <1>1, ConcatProperties
<1>3. T[1] = a /\ T[2] = b /\ T[3] = c /\ T[4] = d
  BY <1>1, ConcatProperties
<1> HIDE DEF T
<1>4. T = <<a, b, c, d>>
  BY <1>1, <1>2, <1>3, SeqEqual
<1> QED BY <1>4 DEF T

LEMMA SixTexts ==
    ASSUME NEW S, NEW a \in S, NEW b \in S, NEW c \in S, NEW d \in S, NEW e \in S, NEW f \in S
    PROVE  <<a, b, c, d>> \o <<e, f>> = <<a, b, c, d, e, f>>
<1> DEFINE T == <<a, b, c, d>> \o <<e, f>>
<1>1. <<a, b, c, d>> \in Seq(S) /\ <<e, f>> \in Seq(S) /\ <<a, b, c, d, e, f>> \in Seq(S)
  OBVIOUS
<1>2. Len(T) = 6 /\ T \in Seq(S)
  BY <1>1, ConcatProperties
<1>3. T[1] = a /\ T[2] = b /\ T[3] = c /\ T[4] = d /\ T[5] = e /\ T[6] = f
  BY <1>1, ConcatProperties
<1> HIDE DEF T
<1>4. T = <<a, b, c, d, e, f>>
  BY <1>1, <1>2, <1>3, SeqEqual
<1> QED BY <1>4 DEF T

LEMMA ArrangedInOrder ==
    ASSUME NEW b \in Nat,
           Arranged(history, unanswered, userText, carry, futureText, finals, heard, sttIn, b)
    PROVE  InOrder(Places) /\ WordsOf(Places) = 1..b
<1> PICK h \in Nat, p1 \in Nat, p2 \in Nat, p3 \in Nat, p4 \in Nat, p5 \in Nat, p6 \in Nat :
        /\ HistorySpans(history, h) /\ Spans(unanswered, h, p1) /\ Spans(userText, p1, p2)
        /\ Spans(carry, p2, p3) /\ Spans(futureText, p3, p4) /\ Spans(finals, p4, p5)
        /\ Spans(heard, p5, p6) /\ QueueSpans(sttIn, p6, b)
  BY ZenonT(60) DEF Arranged
<1>1. Holds([i \in 1..Len(history) |-> history[i].words], 0, h)
  BY HistoryHolds
<1>2. Holds([i \in 1..Len(sttIn) |-> IF sttIn[i] = Flush THEN <<>> ELSE <<sttIn[i]>>], p6, b)
  BY QueueHolds
<1>3. /\ Holds(<<unanswered>>, h, p1) /\ Holds(<<userText>>, p1, p2) /\ Holds(<<carry>>, p2, p3)
      /\ Holds(<<futureText>>, p3, p4) /\ Holds(<<finals>>, p4, p5) /\ Holds(<<heard>>, p5, p6)
  BY HoldsOne
<1>4. /\ unanswered \in NumSeq /\ userText \in NumSeq /\ carry \in NumSeq
      /\ futureText \in NumSeq /\ finals \in NumSeq /\ heard \in NumSeq
  BY DEF Spans
<1>5. Holds(<<unanswered, userText>>, h, p2)
  <2>1. Holds(<<unanswered>> \o <<userText>>, h, p2)
    BY <1>3, HoldsJoin
  <2> QED BY <1>4, <2>1, TwoTexts
<1>6. Holds(<<carry, futureText>>, p2, p4)
  <2>1. Holds(<<carry>> \o <<futureText>>, p2, p4)
    BY <1>3, HoldsJoin
  <2> QED BY <1>4, <2>1, TwoTexts
<1>7. Holds(<<finals, heard>>, p4, p6)
  <2>1. Holds(<<finals>> \o <<heard>>, p4, p6)
    BY <1>3, HoldsJoin
  <2> QED BY <1>4, <2>1, TwoTexts
<1>8. Holds(<<unanswered, userText, carry, futureText>>, h, p4)
  <2>1. Holds(<<unanswered, userText>> \o <<carry, futureText>>, h, p4)
    BY <1>5, <1>6, HoldsJoin
  <2>2. <<unanswered, userText>> \o <<carry, futureText>>
          = <<unanswered, userText, carry, futureText>>
    BY <1>4, FourTexts
  <2> QED BY <2>1, <2>2
<1>9. Holds(<<unanswered, userText, carry, futureText, finals, heard>>, h, p6)
  <2>1. Holds(<<unanswered, userText, carry, futureText>> \o <<finals, heard>>, h, p6)
    BY <1>7, <1>8, HoldsJoin
  <2>2. <<unanswered, userText, carry, futureText>> \o <<finals, heard>>
          = <<unanswered, userText, carry, futureText, finals, heard>>
    BY <1>4, SixTexts
  <2> QED BY <2>1, <2>2
<1>10. Holds([i \in 1..Len(history) |-> history[i].words]
                 \o <<unanswered, userText, carry, futureText, finals, heard>>, 0, p6)
  BY <1>1, <1>9, HoldsJoin
<1>11. Holds(Places, 0, b)
  BY <1>2, <1>10, HoldsJoin DEF Places
<1> QED BY <1>11, HoldsInOrder

LEMMA WordsKeptFromInvariants ==
    ASSUME LoopTypes, BargeTypes, TurnTypes, WordTypes, TurnInv, WordsInv
    PROVE  WordsKept
<1>1. TypeOK
  BY DEF LoopTypes, BargeTypes, TurnTypes, WordTypes, TurnInv, Queues, Histories, TypeOK
<1>2. WordsAccounted
  <2> SUFFICES ASSUME ~env.givesUp PROVE InOrder(Places) /\ WordsOf(Places) = 1..spoken
    BY DEF WordsAccounted
  <2>1. spoken \in Nat
    BY WordsAreBounded
  <2> QED BY <2>1, ArrangedInOrder DEF WordsInv
<1> QED BY <1>1, <1>2 DEF WordsKept

(* However frames, barge-ins, turns and late transcripts interleave, the   *)
(* words of the caller are each in one place and in the order they were    *)
(* said, answered, carried or on their way: as long as the session's own   *)
(* timeout does not win, for any caller, stream and number of words.       *)
THEOREM CallersWordsAreKept == Spec => []WordsKept
<1>1. Spec => []LoopTypes
  BY LoopTypesInit, LoopTypesStep, PTL DEF Spec
<1>2. Spec => [](BargeTypes /\ TurnTypes)
  BY LoopTypesInit, BargeTypesStep, TurnTypesStep, PTL DEF Spec
<1>3. Spec => []WordTypes
  BY <1>1, WordTypesInit, WordTypesStep, PTL DEF Spec
<1>4. Spec => []TurnInv
  BY <1>2, <1>3, TurnInvInit, TurnInvStep, PTL DEF Spec
<1>5. Spec => []FlushInv
  BY <1>1, <1>2, <1>3, <1>4, FlushInvInit, FlushInvStep, PTL DEF Spec
<1>6. Spec => []WordsInv
  BY <1>1, <1>2, <1>4, <1>5, WordsInit, WordsStep, PTL DEF Spec
<1> QED BY <1>1, <1>2, <1>3, <1>4, <1>6, WordsKeptFromInvariants, PTL
=============================================================================
