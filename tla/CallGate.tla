------------------------------- MODULE CallGate -------------------------------
(***************************************************************************)
(* What a deployment lets through: the EU-only profile checked at startup  *)
(* (build_catalogue, require_eu_residency), the checks of StartCall before *)
(* a slot is taken (spend limit, the voice's engine, PipelineFactory), and *)
(* what DescribeComponents says runs.  The calls and the descriptions      *)
(* share the engine reports of RunningEngines.                             *)
(***************************************************************************)
EXTENDS RunningEngines, FiniteSetsExt

CONSTANTS
    Calls,         \* the calls; a call and a description are Callers
    Requests,      \* bound: what the calls ask for, a pipeline and a voice
    Descriptions,  \* executions of DescribeComponents
    Deployments,   \* bound: settings and catalogues tried
    SpendLimit,    \* dev_spend_limit_usd
    CostPerCall,   \* bound: what an API call may spend
    Entries,       \* the engines with an entry in the catalogue, by kind
    NoEngine

ASSUME CallersAssumption == Calls \cup Descriptions \subseteq Callers
ASSUME CallsAssumption == IsFiniteSet(Calls)
ASSUME KindsAssumption == "tts" \in Kinds
ASSUME SpendAssumption == SpendLimit \in Nat /\ CostPerCall \in Nat

VARIABLES
    settings,    \* the deployment's settings, and what leaves the EU
    asks,        \* each call's pipeline, and the engine its voice names
    startup,     \* starting, up or refused
    pc,          \* each call: new, reading, vetted, resolving, admitted, refused or over
    spent,       \* what total_spend_usd(API) would add up now
    readFrom,    \* what it would have when a call's query began
    spentBy,     \* what each call has spent
    peak,        \* most API calls at once that could pass the limit check, or had
    described    \* each description: none, or its entries by kind

spendVars == <<spent, readFrom, spentBy, peak>>
callVars == <<pc, spendVars>>
gateVars == <<engineVars, settings, asks, startup, callVars, described>>

(* The components of each pipeline as configured; a service's default is   *)
(* the first engine it can run.                                            *)
Default(k) == IF k = "tts" THEN "kokoro" ELSE "faster-whisper"
Components(p) == IF p = "api" THEN {"cloud"} ELSE {"llm"} \cup {Default(k) : k \in Kinds}

GateInit ==
    /\ EnginesInit
    /\ settings \in Deployments
    /\ asks \in Requests
    /\ startup = "starting"
    /\ pc = [c \in Calls |-> "new"]
    /\ spent = 0 /\ spentBy = [c \in Calls |-> 0] /\ peak = 0
    /\ readFrom = [c \in Calls |-> 0]
    /\ described = [d \in Descriptions |-> [k \in {} |-> {}]]

-----------------------------------------------------------------------------
(* Startup                                                                 *)

Selectable == IF settings.euOnly THEN {settings.pipeline} ELSE {"api", "selfhosted"}

(* require_eu_residency(): the components of every selectable pipeline,    *)
(* and every engine a service can run; the variant trusts the defaults.    *)
OffendersOfDefaults ==
    (UNION {Components(p) : p \in Selectable}) \cap settings.leaving

Offenders ==
    ((UNION {Components(p) : p \in Selectable}) \cup
        (IF "selfhosted" \in Selectable THEN UNION {Entries[k] : k \in Kinds} ELSE {}))
    \cap settings.leaving

StartUp ==
    /\ startup = "starting"
    /\ startup' = IF settings.euOnly /\ Offenders # {} THEN "refused" ELSE "up"
    /\ UNCHANGED <<engineVars, settings, asks, callVars, described>>

-----------------------------------------------------------------------------
(* StartCall.execute, up to the slot                                       *)

Goto(c, point) == pc' = [pc EXCEPT ![c] = point]

Metered(c) == asks[c].pipeline = "api"

(* API calls that the limit has let pass and that may still spend, and     *)
(* those whose query began while there was room.                           *)
MaySpend(point, from) ==
    \/ point \in {"vetted", "resolving", "admitted"}
    \/ point = "reading" /\ from < SpendLimit

Spending == {c \in Calls : Metered(c) /\ MaySpend(pc[c], readFrom[c])}

(* Only the metered pipeline has a limit.                                  *)
SkipSpendCheck(c) ==
    /\ startup = "up" /\ pc[c] = "new" /\ ~Metered(c)
    /\ Goto(c, "vetted")
    /\ UNCHANGED <<engineVars, settings, asks, startup, spendVars, described>>

(* await total_spend_usd(API): other calls go on while the query runs.     *)
AskSpend(c) ==
    /\ startup = "up" /\ pc[c] = "new" /\ Metered(c)
    /\ Goto(c, "reading")
    /\ readFrom' = [readFrom EXCEPT ![c] = spent]
    /\ LET asked == IF spent < SpendLimit THEN Spending \cup {c} ELSE Spending
       IN peak' = Max({peak, Cardinality(asked)})
    /\ UNCHANGED <<engineVars, settings, asks, startup, spent, spentBy, described>>

(* The answer is some sum between the one when the query began and the one *)
(* now, for it adds up two tables one after the other (CallRecords), and   *)
(* decides: BudgetExceeded.  The variant forgets to refuse at the limit.   *)
DecideOnSpend(c, room) ==
    /\ pc[c] = "reading"
    /\ \E sum \in readFrom[c]..spent : Goto(c, IF sum < room THEN "vetted" ELSE "refused")
    /\ readFrom' = [readFrom EXCEPT ![c] = 0]
    /\ UNCHANGED <<engineVars, settings, asks, startup, spent, spentBy, peak, described>>

CheckSpendBeyond(c) == DecideOnSpend(c, SpendLimit + 1)

CheckSpend(c) == DecideOnSpend(c, SpendLimit)

(* The query raises, or the job is cancelled while it awaits it.           *)
SpendUnread(c) ==
    /\ pc[c] = "reading"
    /\ Goto(c, "over")
    /\ readFrom' = [readFrom EXCEPT ![c] = 0]
    /\ UNCHANGED <<engineVars, settings, asks, startup, spent, spentBy, peak, described>>

(* _require_a_voice(): only a self-hosted voice that names its engine, and *)
(* only if there are services to ask.                                      *)
NeedsEngine(c) ==
    asks[c].pipeline = "selfhosted" /\ asks[c].engine # NoEngine /\ ~settings.simulated

SkipVoiceCheck(c) ==
    /\ pc[c] = "vetted" /\ ~NeedsEngine(c)
    /\ Goto(c, "resolving")
    /\ UNCHANGED <<engineVars, settings, asks, startup, spendVars, described>>

AskForVoice(c) ==
    /\ pc[c] = "vetted" /\ NeedsEngine(c)
    /\ Report(c, "tts")
    /\ UNCHANGED <<settings, asks, startup, callVars, described>>

(* VoiceNotAvailable on a report without the engine; a failed probe is no  *)
(* evidence, and lets the call through.  The variant refuses on both.      *)
SpokenOrRefused(c) ==
    result[c]["tts"].state = "ok" /\ asks[c].engine \in result[c]["tts"].value

Spoken(c) ==
    result[c]["tts"].state = "ok" => asks[c].engine \in result[c]["tts"].value

HearAboutVoice(c) ==
    /\ pc[c] = "vetted" /\ NeedsEngine(c) /\ asking[c]["tts"] = "answered"
    /\ result[c]["tts"].state # "broken"
    /\ Goto(c, IF Spoken(c) THEN "resolving" ELSE "refused")
    /\ UNCHANGED <<engineVars, settings, asks, startup, spendVars, described>>

(* The job is cancelled while it awaits the report, or the report raises   *)
(* what only EngineReportUnavailable is caught of.                         *)
AbandonCall(c) ==
    /\ pc[c] = "vetted" /\ NeedsEngine(c)
    /\ \/ asking[c]["tts"] = "gone"
       \/ asking[c]["tts"] = "answered" /\ result[c]["tts"].state = "broken"
    /\ Goto(c, "over")
    /\ UNCHANGED <<engineVars, settings, asks, startup, spendVars, described>>

(* PipelineFactory.resolve(): PipelineNotSelectable, MissingCredentials;   *)
(* simulated builders want no keys.                                        *)
Buildable(p) ==
    /\ p \in Selectable
    /\ p = "api" => settings.keys \/ settings.simulated

Resolve(c) ==
    /\ pc[c] = "resolving"
    /\ Goto(c, IF Buildable(asks[c].pipeline) THEN "admitted" ELSE "refused")
    /\ UNCHANGED <<engineVars, settings, asks, startup, spendVars, described>>

(* _record() of a turn, or EndCall for the tail: a cost is committed, until*)
(* the call ends.  (A commit that lands after its call's end, CallRecords' *)
(* CommitLate, would leave that call among the spending ones until then.)  *)
(* The variant leaves the total as it was.                                 *)
SpendUnrecorded(c) ==
    /\ pc[c] = "admitted" /\ Metered(c) /\ spentBy[c] < CostPerCall
    /\ spentBy' = [spentBy EXCEPT ![c] = @ + 1]
    /\ UNCHANGED <<engineVars, settings, asks, startup, pc, spent, readFrom, peak, described>>

Spend(c) ==
    /\ pc[c] = "admitted" /\ Metered(c) /\ spentBy[c] < CostPerCall
    /\ spent' = spent + 1
    /\ spentBy' = [spentBy EXCEPT ![c] = @ + 1]
    /\ UNCHANGED <<engineVars, settings, asks, startup, pc, readFrom, peak, described>>

EndCall(c) ==
    /\ pc[c] = "admitted"
    /\ Goto(c, "over")
    /\ UNCHANGED <<engineVars, settings, asks, startup, spendVars, described>>

-----------------------------------------------------------------------------
(* DescribeComponents.execute(SELFHOSTED): both services asked together    *)

AskForDescription(d, k) ==
    /\ startup = "up" /\ ~settings.simulated
    /\ Report(d, k)
    /\ UNCHANGED <<settings, asks, startup, callVars, described>>

(* _confirm(): what is reported, if it is something and all of it is in    *)
(* the catalogue; else the default, unconfirmed.  The variant drops what   *)
(* is not in the catalogue.                                                *)
ConfirmKnown(r, k) ==
    LET known == r.value \cap Entries[k] IN
    IF r.state = "ok" /\ known # {}
    THEN [engines |-> known, confirmed |-> TRUE]
    ELSE [engines |-> {Default(k)}, confirmed |-> FALSE]

Confirm(r, k) ==
    IF r.state = "ok" /\ r.value # {} /\ r.value \subseteq Entries[k]
    THEN [engines |-> r.value, confirmed |-> TRUE]
    ELSE [engines |-> {Default(k)}, confirmed |-> FALSE]

(* asyncio.gather has all the answers, or nobody was asked; it raises what *)
(* a report raises that is not EngineReportUnavailable.                    *)
Describe(d) ==
    /\ startup = "up" /\ DOMAIN described[d] = {}
    /\ ~settings.simulated =>
         \A k \in Kinds : asking[d][k] = "answered" /\ result[d][k].state # "broken"
    /\ described' = [described EXCEPT ![d] =
                        [k \in Kinds |-> Confirm(result[d][k], k)]]
    /\ UNCHANGED <<engineVars, settings, asks, startup, callVars>>

-----------------------------------------------------------------------------
Start(c) ==
    \/ SkipSpendCheck(c) \/ AskSpend(c) \/ CheckSpend(c) \/ SpendUnread(c)
    \/ SkipVoiceCheck(c) \/ AskForVoice(c) \/ HearAboutVoice(c) \/ AbandonCall(c) \/ Resolve(c)

GateNext ==
    \/ StartUp
    \/ \E c \in Calls : Start(c) \/ Spend(c) \/ EndCall(c)
    \/ \E d \in Descriptions : Describe(d) \/ \E k \in Kinds : AskForDescription(d, k)
    \/ EnginesNext /\ UNCHANGED <<settings, asks, startup, callVars, described>>

(* A coroutine that can go on does, a query is answered or raises, and a   *)
(* probe ends; nobody has to call, and time need not pass.                 *)
Fairness ==
    /\ \A c \in Calls :
        WF_gateVars(CheckSpend(c) \/ SpendUnread(c) \/ SkipVoiceCheck(c) \/ AskForVoice(c)
                    \/ HearAboutVoice(c) \/ AbandonCall(c) \/ Resolve(c))
    /\ \A k \in Kinds : WF_gateVars((ProbeAnswered(k) \/ ProbeFails(k) \/ ProbeBreaks(k))
                                    /\ UNCHANGED <<settings, asks, startup, callVars, described>>)

GateSpec == GateInit /\ [][GateNext]_gateVars /\ Fairness

-----------------------------------------------------------------------------
AdmissionTypes ==
    /\ EnginesTypeOK
    /\ settings \in Deployments
    /\ startup \in {"starting", "up", "refused"}
    /\ pc \in [Calls -> {"new", "reading", "vetted", "resolving", "admitted", "refused", "over"}]
    /\ readFrom \in [Calls -> 0..spent]
    /\ spentBy \in [Calls -> 0..CostPerCall]
    /\ spent = Cardinality({cn \in Calls \X (1..CostPerCall) : cn[2] <= spentBy[cn[1]]})

(* Under the EU-only profile no call is admitted to a pipeline with a      *)
(* component, or with an engine its services could be switched to, that    *)
(* leaves the EU, whatever pipeline the call asks for.                     *)
EuOnlyStaysInEu ==
    \A c \in Calls :
        pc[c] = "admitted" /\ settings.euOnly =>
            /\ Components(asks[c].pipeline) \cap settings.leaving = {}
            /\ asks[c].pipeline = "selfhosted" =>
                 \A k \in Kinds : Entries[k] \cap settings.leaving = {}

(* "An unreachable service is not evidence the voice is missing": a call   *)
(* is refused for its voice only when the service, shortly before or       *)
(* since, did run without that engine; and one let through on a report     *)
(* names an engine that did run.                                           *)
VoiceRefusedOnEvidence ==
    \A c \in Calls :
        NeedsEngine(c) /\ asking[c]["tts"] = "answered" =>
            LET ran == {v \in Reports : lastRun["tts"][v] > result[c]["tts"].called - Ttl} IN
            /\ pc[c] = "refused" /\ Buildable("selfhosted") =>
                 \E v \in ran : asks[c].engine \notin v
            /\ pc[c] = "admitted" /\ result[c]["tts"].state = "ok" =>
                 \E v \in ran : asks[c].engine \in v

(* The spend limit is read, by a query other calls run on beside, before a *)
(* call spends, so several may pass it on the same money: by how much is   *)
(* bounded by how many had asked while there was room and had not ended.   *)
OverspendIsBounded ==
    spent > 0 => spent <= SpendLimit - 1 + CostPerCall * peak

(* "Naming only one of them would misstate what processes a call": a       *)
(* confirmed entry lists all that a service ran, shortly before or since,  *)
(* and only what has an entry.                                             *)
ConfirmedIsWhatRan ==
    \A d \in Descriptions : \A k \in DOMAIN described[d] :
        described[d][k].confirmed =>
            /\ described[d][k].engines \in Reports
            /\ lastRun[k][described[d][k].engines] > result[d][k].called - Ttl
            /\ described[d][k].engines \subseteq Entries[k]

(* A call that asked what has been spent is admitted, refused or over: no  *)
(* query that ends and no service can hold it up for ever.                 *)
GateDecides ==
    \A c \in Calls :
        pc[c] \in {"reading", "vetted"} ~> pc[c] \in {"admitted", "refused", "over"}

(* What callers are told, what calls are refused for and what descriptions *)
(* confirm did run, less than a ttl ago.                                   *)
EvidenceIsFresh == AnswersAreFresh /\ VoiceRefusedOnEvidence /\ ConfirmedIsWhatRan

(* Admitted calls stay within the deployment's profile, and within its     *)
(* spend limit but for those that were in or past the check together.      *)
AdmittedWithinPolicy == AdmissionTypes /\ EuOnlyStaysInEu /\ OverspendIsBounded

(* Nobody waits for ever for a probe, and so no call for its admission,    *)
(* whoever gives up and whatever event loop the probe belonged to.         *)
EveryoneIsAnswered == CallersAreAnswered /\ GateDecides
=============================================================================
