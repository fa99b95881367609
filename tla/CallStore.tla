------------------------------ MODULE CallStore ------------------------------
(***************************************************************************)
(* What the use cases expect of a CallRepository, as the in-memory one     *)
(* has it (infrastructure/persistence/inmemory_call_repository.py): every  *)
(* operation is one step on one map of calls.                              *)
(***************************************************************************)
EXTENDS Naturals

CONSTANTS
    Ids,       \* ids of calls
    Kinds,     \* pipelines
    Statuses,  \* CallStatus
    Turns,     \* what a turn holds besides its index
    Costs,     \* closing segments
    MaxTurns,  \* bound: turns of a call
    MaxStart   \* bound: the values of started_at

VARIABLE calls \* _calls: from the ids added so far

Call == [kind : Kinds, startedAt : 1..MaxStart, status : Statuses, closing : Costs,
         turns : UNION {[I -> Turns] : I \in SUBSET (1..MaxTurns)}]

StoreInit == calls = [id \in {} |-> {}]

With(f, x, y) == [z \in DOMAIN f \cup {x} |-> IF z = x THEN y ELSE f[z]]

(* add(): a deep copy of a call that starts, whatever was there.           *)
Add(id) ==
    /\ id \in DOMAIN calls' /\ calls'[id] \in Call
    /\ calls'[id].status = "active" /\ DOMAIN calls'[id].turns = {}
    /\ calls' = With(calls, id, calls'[id])

(* add_turn(): replaces the turn of that index.                            *)
AddTurn(id, index) ==
    /\ id \in DOMAIN calls /\ id \in DOMAIN calls'
    /\ index \in DOMAIN calls'[id].turns
    /\ LET turn == calls'[id].turns[index] IN
       /\ turn \in Turns
       /\ calls' = [calls EXCEPT ![id].turns = With(@, index, turn)]

(* update(): the status and the closing segment, and nothing else.         *)
Update(id) ==
    /\ id \in DOMAIN calls /\ id \in DOMAIN calls'
    /\ calls'[id] \in Call
    /\ calls' = [calls EXCEPT ![id].status = calls'[id].status,
                              ![id].closing = calls'[id].closing]

StoreNext ==
    \E id \in Ids :
        \/ Add(id) \/ Update(id)
        \/ \E index \in 1..MaxTurns : AddTurn(id, index)

StoreSpec == StoreInit /\ [][StoreNext]_calls
=============================================================================
