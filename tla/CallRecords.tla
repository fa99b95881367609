----------------------------- MODULE CallRecords -----------------------------
(***************************************************************************)
(* The records of the calls: SqlCallRepository                             *)
(* (infrastructure/persistence/postgres_call_repository.py) with the calls *)
(* that write it and the reports that read it (ComputeCallCost,            *)
(* ComparePipelines and the sum that StartCall's budget check reads).      *)
(*                                                                         *)
(* A call is in a process of its own and does one thing after another.     *)
(* Each operation is one transaction, which the connection may fail before *)
(* the commit, after it, or so that the commit is applied once the caller  *)
(* has been told of the failure.  A report selects the rows of calls and   *)
(* then the rows of their turns, with READ COMMITTED in between.           *)
(***************************************************************************)
EXTENDS Pricing, TLC

CONSTANTS
    Calls,
    KindsOf,      \* bound: which calls are on which pipeline
    Segments,     \* bound: the usage of a turn, as the meter cuts it
    LastSegment,  \* bound: the usage after the last turn
    Cards,        \* the rate cards deployed, oldest first: rates by pipeline
    MaxTurns,     \* bound: turns of a call
    Limit,        \* limit of a listing
    MaxBreaks     \* bound: failures of the connection

Kinds == {"api", "selfhosted"}
Statuses == {"active", "completed", "failed"}

(* _price() refuses a negative price. *)
ASSUME RecordsAssumption ==
    /\ IsFiniteSet(Calls)
    /\ KindsOf \subseteq [Calls -> Kinds]
    /\ {MaxTurns, MaxBreaks} \subseteq Nat
    /\ Limit \in Nat \ {0}
    /\ Segments \cup {LastSegment} \subseteq
          [audio : Nat, tokens : Nat, wall : Nat, calls : Nat]
    /\ Len(Cards) > 0
    /\ Cards \in Seq([Kinds -> [stt : Nat, input : Nat, output : Nat, tts : Nat, gpu : Nat,
                                telephony : Nat]])

VARIABLES
    kind,      \* each call's pipeline
    startedAt, \* each call's started_at: 0 until it starts
    pc,        \* new, adding, talking, recording, ending or over
    cardOf,    \* the rate card its process has read
    turns,     \* Call.turns
    closing,   \* Call.closing_usage and closing_cost
    failed,    \* EndCall's parameter
    answer,    \* what the operation in progress came to: none, ok or error
    op,        \* its transaction, sent and not yet committed
    late,      \* one whose caller has been told of a failure
    callRows, turnRows,  \* the tables calls and turns
    latest,    \* the rate card now deployed
    breaks,
    reading    \* the report in progress: what its first select found

callVars == <<kind, startedAt, pc, cardOf, turns, closing, failed, answer>>
tableVars == <<callRows, turnRows>>
vars == <<callVars, op, late, tableVars, latest, breaks, reading>>

UsesGpu(k) == k = "selfhosted"
Rates(card, k) == Cards[card][k]

NoOp == [type |-> "none"]
NoReport == [type |-> "none"]
Empty == [x \in {} |-> {}]
Unbilled == [usage |-> NoUsage, cost |-> NoCost]

(* The usage and the cost of a segment, priced when it is cut.             *)
BilledBy(card, k, segment) ==
    LET usage == SegmentUsage(segment, UsesGpu(k)) IN
    [usage |-> usage, cost |-> Calculate(Rates(card, k), usage)]

Billed(c, segment) == BilledBy(cardOf[c], kind[c], segment)

(* _write_usage(): the columns round what they are given.  The variant's   *)
(* do not.                                                                 *)
RowUnrounded(segment) == segment

Row(segment) == [usage |-> segment.usage, cost |-> Stored(segment.cost)]

Put(f, x, y) == [z \in DOMAIN f \cup {x} |-> IF z = x THEN y ELSE f[z]]

-----------------------------------------------------------------------------
Init ==
    /\ kind \in KindsOf
    /\ startedAt = [c \in Calls |-> 0]
    /\ pc = [c \in Calls |-> "new"]
    /\ cardOf = [c \in Calls |-> 1]
    /\ turns = [c \in Calls |-> <<>>]
    /\ closing = [c \in Calls |-> Unbilled]
    /\ failed = [c \in Calls |-> FALSE]
    /\ answer = [c \in Calls |-> "none"]
    /\ op = [c \in Calls |-> NoOp] /\ late = [c \in Calls |-> NoOp]
    /\ callRows = Empty /\ turnRows = Empty
    /\ latest = 1 /\ breaks = 0
    /\ reading = NoReport

-----------------------------------------------------------------------------
(* The calls                                                               *)

Send(c, step, operation) ==
    /\ pc' = [pc EXCEPT ![c] = step]
    /\ op' = [op EXCEPT ![c] = operation]
    /\ answer' = [answer EXCEPT ![c] = "none"]

(* StartCall: Call(...) and repository.add.                                *)
StartCall(c) ==
    /\ pc[c] = "new"
    /\ startedAt' = [startedAt EXCEPT ![c] = 1 + Cardinality({o \in Calls : startedAt[o] > 0})]
    /\ cardOf' = [cardOf EXCEPT ![c] = latest]
    /\ Send(c, "adding", [type |-> "add"])
    /\ UNCHANGED <<kind, turns, closing, failed, late, tableVars, latest, breaks,
                   reading>>

(* HandleCallTurn._record: the turn joins the call, then the table.        *)
RecordTurn(c, segment) ==
    /\ pc[c] = "talking" /\ Len(turns[c]) < MaxTurns
    /\ turns' = [turns EXCEPT ![c] = Append(@, Billed(c, segment))]
    /\ Send(c, "recording",
            [type |-> "turn", index |-> Len(turns'[c]), row |-> Row(Billed(c, segment))])
    /\ UNCHANGED <<kind, startedAt, cardOf, closing, failed, late, tableVars, latest, breaks,
                   reading>>

(* EndCall: update() with the closing segment and the status.              *)
EndCall(c) ==
    /\ pc[c] = "talking"
    /\ closing' = [closing EXCEPT ![c] = Billed(c, LastSegment)]
    /\ Send(c, "ending",
            [type |-> "end", row |-> Row(Billed(c, LastSegment)),
             status |-> IF failed[c] THEN "failed" ELSE "completed"])
    /\ UNCHANGED <<kind, startedAt, cardOf, turns, failed, late, tableVars, latest, breaks,
                   reading>>

(* The operation returns, or raises: a call that was not added is none, a  *)
(* turn that was not recorded fails the call, and an update that failed is *)
(* not tried again.  The variant goes on after a turn that was not         *)
(* recorded.                                                               *)
ProceedRegardless(c) ==
    /\ answer[c] # "none" /\ pc[c] \in {"adding", "recording", "ending"}
    /\ pc' = [pc EXCEPT ![c] =
                IF @ = "ending" \/ (@ = "adding" /\ answer[c] = "error") THEN "over" ELSE "talking"]
    /\ answer' = [answer EXCEPT ![c] = "none"]
    /\ UNCHANGED <<kind, startedAt, cardOf, turns, closing, failed, op, late, tableVars,
                   latest, breaks, reading>>

Proceed(c) ==
    /\ answer[c] # "none" /\ pc[c] \in {"adding", "recording", "ending"}
    /\ pc' = [pc EXCEPT ![c] =
                IF @ = "ending" \/ (@ = "adding" /\ answer[c] = "error") THEN "over" ELSE "talking"]
    /\ failed' = [failed EXCEPT ![c] = @ \/ answer[c] = "error"]
    /\ answer' = [answer EXCEPT ![c] = "none"]
    /\ UNCHANGED <<kind, startedAt, cardOf, turns, closing, op, late, tableVars, latest,
                   breaks, reading>>

(* The session fails for a reason of its own.                              *)
SessionFails(c) ==
    /\ pc[c] = "talking" /\ ~failed[c]
    /\ failed' = [failed EXCEPT ![c] = TRUE]
    /\ UNCHANGED <<kind, startedAt, pc, cardOf, turns, closing, answer, op, late, tableVars,
                   latest, breaks, reading>>

-----------------------------------------------------------------------------
(* The database                                                            *)

(* The keys and the foreign key; update() looks for its row.               *)
Accepted(c, o) == (o.type = "add") = (c \notin DOMAIN callRows)

AddedRow(c) ==
    [kind |-> kind[c], startedAt |-> startedAt[c], status |-> "active", closing |-> Row(Unbilled)]

EndedRow(c, o) == [callRows[c] EXCEPT !.status = o.status, !.closing = o.row]

(* add(), session.merge(_turn_row()) and update().  The variant's update   *)
(* merges the whole call, its turns with it.                               *)
AppliedWhole(c, o) ==
    /\ callRows' = CASE o.type = "add" -> Put(callRows, c, AddedRow(c))
                      [] o.type = "end" -> Put(callRows, c, EndedRow(c, o))
                      [] OTHER -> callRows
    /\ turnRows' = CASE o.type = "turn" -> Put(turnRows, <<c, o.index>>, o.row)
                      [] o.type = "end" ->
                            [t \in {c} \X (DOMAIN turns[c]) |-> Row(turns[c][t[2]])] @@ turnRows
                      [] OTHER -> turnRows

Applied(c, o) ==
    /\ callRows' = CASE o.type = "add" -> Put(callRows, c, AddedRow(c))
                      [] o.type = "end" -> Put(callRows, c, EndedRow(c, o))
                      [] OTHER -> callRows
    /\ turnRows' = IF o.type = "turn" THEN Put(turnRows, <<c, o.index>>, o.row) ELSE turnRows

(* The transaction is committed, or refused, and its caller told.          *)
Commit(c) ==
    /\ op[c] # NoOp
    /\ IF Accepted(c, op[c]) THEN Applied(c, op[c]) ELSE UNCHANGED tableVars
    /\ answer' = [answer EXCEPT ![c] = IF Accepted(c, op[c]) THEN "ok" ELSE "error"]
    /\ op' = [op EXCEPT ![c] = NoOp]
    /\ UNCHANGED <<kind, startedAt, pc, cardOf, turns, closing, failed, late, latest, breaks,
                   reading>>

(* The connection breaks: before the commit, or with it still on its way.  *)
Break(c) ==
    /\ op[c] # NoOp /\ breaks < MaxBreaks
    /\ breaks' = breaks + 1
    /\ late' \in {late, [late EXCEPT ![c] = op[c]]}
    /\ op' = [op EXCEPT ![c] = NoOp]
    /\ answer' = [answer EXCEPT ![c] = "error"]
    /\ UNCHANGED <<kind, startedAt, pc, cardOf, turns, closing, failed, tableVars, latest,
                   reading>>

CommitLate(c) ==
    /\ late[c] # NoOp
    /\ IF Accepted(c, late[c]) THEN Applied(c, late[c]) ELSE UNCHANGED tableVars
    /\ late' = [late EXCEPT ![c] = NoOp]
    /\ UNCHANGED <<callVars, op, latest, breaks, reading>>

(* A new rates.yaml is deployed.                                           *)
DeployRates ==
    /\ latest < Len(Cards)
    /\ latest' = latest + 1
    /\ UNCHANGED <<callVars, op, late, tableVars, breaks, reading>>

-----------------------------------------------------------------------------
(* The reports                                                             *)

RowsOf(k) == {c \in DOMAIN callRows : callRows[c].kind = k}
TurnsOf(c) == [i \in {j \in 1..MaxTurns : <<c, j>> \in DOMAIN turnRows} |-> turnRows[<<c, i>>]]

(* order_by(started_at.desc()).limit()                                     *)
Newest(rows) ==
    {c \in rows : Cardinality({o \in rows : callRows[o].startedAt > callRows[c].startedAt}) < Limit}

ClosingTotal(k) == SumFunction([c \in RowsOf(k) |-> Total(callRows[c].closing.cost)])

(* The variant sums the turns of every pipeline.                           *)
TurnTotalOfAll(k) == SumFunction([t \in DOMAIN turnRows |-> Total(turnRows[t].cost)])

TurnsOfKind(k) == {t \in DOMAIN turnRows : t[1] \in RowsOf(k)}
TurnTotal(k) == SumFunction([t \in TurnsOfKind(k) |-> Total(turnRows[t].cost)])

(* Call.cost: the closing segment and the turns.                           *)
CostOf(call) ==
    SumCosts(call.row.closing.cost, [i \in DOMAIN call.turns |-> call.turns[i].cost])

(* The sum as the in-memory repository has it: of whole calls, at once.    *)
StoredCall(c) == [row |-> callRows[c], turns |-> TurnsOf(c)]
Spend(k) == SumFunction([c \in RowsOf(k) |-> Total(CostOf(StoredCall(c)))])

(* The first select of total_spend_usd, of a listing or of get.            *)
BeginSpend(k) ==
    /\ reading = NoReport
    /\ reading' = [type |-> "spend", kind |-> k, closing |-> ClosingTotal(k), atLeast |-> Spend(k)]
    /\ UNCHANGED <<callVars, op, late, tableVars, latest, breaks>>

BeginListing(k) ==
    /\ reading = NoReport
    /\ reading' = [type |-> "listing", rows |-> [c \in Newest(RowsOf(k)) |-> callRows[c]]]
    /\ UNCHANGED <<callVars, op, late, tableVars, latest, breaks>>

(* The second, after which the report has its result.                      *)
EndReport ==
    /\ reading # NoReport
    /\ reading' = NoReport
    /\ UNCHANGED <<callVars, op, late, tableVars, latest, breaks>>

SpendRead == reading.closing + TurnTotal(reading.kind)

(* selectinload(CallRow.turns) and _to_call().                             *)
Listed == [c \in DOMAIN reading.rows |-> [row |-> reading.rows[c], turns |-> TurnsOf(c)]]

(* ComputeCallCost: every segment priced anew by the card of today.  The   *)
(* variant prices the call's summed usage.                                 *)
RecomputedFromSum(rates, call) ==
    Calculate(rates,
        FoldFunction(LAMBDA turn, sum : AddUsage(turn.usage, sum),
                     call.row.closing.usage, call.turns))

Recomputed(rates, call) ==
    SumCosts(Calculate(rates, call.row.closing.usage),
             [i \in DOMAIN call.turns |-> Calculate(rates, call.turns[i].usage)])

(* ComparePipelines: the completed calls of a listing, their turns and     *)
(* their cost.                                                             *)
Completed(listing) == {c \in DOMAIN listing : listing[c].row.status = "completed"}

Summary(listing) ==
    [calls |-> Cardinality(Completed(listing)),
     turns |-> SumFunction([c \in Completed(listing) |-> Cardinality(DOMAIN listing[c].turns)]),
     cost |-> SumCosts(NoCost, [c \in Completed(listing) |-> CostOf(listing[c])])]

-----------------------------------------------------------------------------
Next ==
    \/ \E c \in Calls :
        \/ StartCall(c) \/ Proceed(c) \/ SessionFails(c)
        \/ Commit(c) \/ Break(c) \/ CommitLate(c)
        \/ EndCall(c)
        \/ \E segment \in Segments : RecordTurn(c, segment)
    \/ \E k \in Kinds : BeginSpend(k) \/ BeginListing(k)
    \/ EndReport \/ DeployRates

Spec == Init /\ [][Next]_vars

-----------------------------------------------------------------------------
(* Amounts in the tables are whole digits, and no API call holds a GPU.    *)
TypeOK ==
    /\ pc \in [Calls -> {"new", "adding", "talking", "recording", "ending", "over"}]
    /\ answer \in [Calls -> {"none", "ok", "error"}]
    /\ DOMAIN callRows \subseteq Calls
    /\ DOMAIN turnRows \subseteq (DOMAIN callRows) \X (1..MaxTurns)
    /\ \A c \in DOMAIN callRows :
        /\ callRows[c].status \in Statuses
        /\ \A s \in Stages : callRows[c].closing.cost[s] % Fine = 0
        /\ callRows[c].kind = "api" => callRows[c].closing.usage.gpu = 0
    /\ \A t \in DOMAIN turnRows, s \in Stages : turnRows[t].cost[s] % Fine = 0

BillableRows == {Row(BilledBy(i, k, s)) : i \in DOMAIN Cards, k \in Kinds, s \in Segments \cup {LastSegment}}

(* "Which is the behaviour the Postgres adapter has": the tables, joined,  *)
(* go through steps of the in-memory repository only, broken connections   *)
(* and late commits included.                                              *)
Store == INSTANCE CallStore WITH
    Ids <- Calls, MaxStart <- Cardinality(Calls),
    Turns <- BillableRows, Costs <- BillableRows \cup {Row(Unbilled)},
    calls <- [c \in DOMAIN callRows |->
                [kind |-> callRows[c].kind, startedAt |-> callRows[c].startedAt,
                 status |-> callRows[c].status, closing |-> callRows[c].closing,
                 turns |-> TurnsOf(c)]]
ImplementsStore == Store!StoreSpec

(* A comparison of pipelines counts whole calls only: what it takes for    *)
(* completed, though it reads the turns later, has every turn that the     *)
(* call's own process billed, at its stored price, and its closing         *)
(* segment.                                                                *)
ComparedWhole ==
    reading.type = "listing" =>
        LET whole == [c \in Completed(Listed) |->
                [row |-> [closing |-> Row(closing[c])],
                 turns |-> [i \in DOMAIN turns[c] |-> Row(turns[c][i])]]] IN
        Summary(Listed) =
            [calls |-> Cardinality(DOMAIN whole),
             turns |-> SumFunction([c \in DOMAIN whole |-> Len(turns[c])]),
             cost |-> SumCosts(NoCost, [c \in DOMAIN whole |-> CostOf(whole[c])])]

(* The sum that the spend limit is held against is read in two queries     *)
(* with turns and ends in between: it is never less than was spent when it *)
(* was asked for, nor more than when it is answered.                       *)
SpendBetween ==
    reading.type = "spend" =>
        reading.atLeast <= SpendRead /\ SpendRead <= Spend(reading.kind)

(* Two amounts of which one was rounded to a digit so many times.          *)
RoundedApart(m, n, times) == 2 * (m - n) \in (-(Fine * times))..(Fine * times)

(* A stored call repriced with the card it was billed by costs, stage by   *)
(* stage, what is stored but for the rounding of the columns, half a digit *)
(* a segment at most: any more "differs from the stored total only if      *)
(* rates.yaml changed".                                                    *)
RepricingAgrees ==
    reading.type = "listing" =>
        \A c \in DOMAIN Listed :
            cardOf[c] = latest =>
                LET call == Listed[c]
                    recomputed == Recomputed(Rates(latest, kind[c]), call)
                    segments == 1 + Cardinality(DOMAIN call.turns) IN
                \A s \in Stages : RoundedApart(CostOf(call)[s], recomputed[s], segments)

(* What the history shows of a completed call is final: no late commit     *)
(* changes its row or adds a turn to it.                                   *)
CompletedIsFinal ==
    [][\A c \in DOMAIN callRows :
        callRows[c].status = "completed" =>
            callRows'[c] = callRows[c] /\ TurnsOf(c)' = TurnsOf(c)]_vars

(* Though calls write while it reads in two queries, a report compares     *)
(* whole calls, sums what was spent at a time within the reading, and      *)
(* agrees with the prices it was billed at.                                *)
ReportsAreTrue == TypeOK /\ ComparedWhole /\ SpendBetween /\ RepricingAgrees
=============================================================================
