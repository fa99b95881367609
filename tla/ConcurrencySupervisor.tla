------------------------ MODULE ConcurrencySupervisor ------------------------
(***************************************************************************)
(* backend/application/services/concurrency_supervisor.py: the one count   *)
(* of active calls on a GPU pool.  It refuses admission above a ceiling    *)
(* and integrates 1/active over time; the difference of two readings of    *)
(* that integral is a call's share of the GPU for the interval.            *)
(*                                                                         *)
(* Every operation takes the lock for its whole body, so each is one       *)
(* action.  `now` is the caller's own clock reading, taken before the lock *)
(* and possibly overtaken by another caller's: Readings is any set of      *)
(* integers and the operations assume no order on it.                      *)
(*                                                                         *)
(* Shares are counted in 1/Unit of a tick.  Unit is a common multiple of   *)
(* 1..Ceiling, so that the division by the number of active calls is exact.*)
(***************************************************************************)
EXTENDS Integers, FiniteSets

CONSTANTS
    Calls,      \* call ids
    Ceiling,    \* the admission ceiling
    Unit,       \* share units per tick
    Readings,   \* the clock readings callers may pass
    NoTime      \* _last_update before the first operation (None)

ASSUME CeilingAssumption == Ceiling \in Nat \ {0}
ASSUME UnitAssumption == /\ Unit \in Nat \ {0}
                         /\ \A n \in 1..Ceiling : n * (Unit \div n) = Unit
ASSUME ReadingsAssumption == Readings \subseteq Int
ASSUME NoTimeAssumption == NoTime \notin Int

VARIABLES
    active,     \* _active: the calls that hold a slot
    integral,   \* _share_integral, in 1/Unit ticks
    last,       \* _last_update
    peak,       \* _peak
    (* History: what the shares of all calls should add up to.             *)
    ledger,     \* sum of the cursors at release minus those at acquire
    since,      \* the reading with which the current busy period began
    busyDone,   \* the length of the busy periods that are over
    rewound     \* total by which `last` moved back while calls were active

supVars == <<active, integral, last, peak, ledger, since, busyDone, rewound>>

AtLeastZero(x) == IF x > 0 THEN x ELSE 0

Busy == active # {}

(* max(0.0, now - _last_update); the variant lets a late reading subtract. *)
ElapsedSigned(now) == now - last
Elapsed(now) == AtLeastZero(now - last)

(* One call's part of a tick; the variant charges every call the whole GPU.*)
SliceUndivided == Unit
Slice == Unit \div Cardinality(active)

(* acquire's refusal condition; the variant admits one call too many.      *)
FullOffByOne == Cardinality(active) > Ceiling
Full == Cardinality(active) >= Ceiling

(* The variant of _advance that ignores late readings altogether.          *)
AdvanceMonotone(now) ==
    /\ integral' = IF last # NoTime /\ Busy THEN integral + Elapsed(now) * Slice ELSE integral
    /\ last' = IF last # NoTime /\ now < last THEN last ELSE now
    /\ UNCHANGED rewound

(* _advance: the interval since the last operation is shared by the calls  *)
(* active in it.  A reading older than `last` adds nothing but is still    *)
(* stored, which is where `rewound` grows.                                 *)
Advance(now) ==
    /\ integral' = IF last # NoTime /\ Busy THEN integral + Elapsed(now) * Slice ELSE integral
    /\ last' = now
    /\ rewound' = IF Busy THEN rewound + AtLeastZero(last - now) ELSE rewound

-----------------------------------------------------------------------------
SupInit ==
    /\ active = {}
    /\ integral = 0
    /\ last = NoTime
    /\ peak = 0
    /\ ledger = 0
    /\ since = NoTime
    /\ busyDone = 0
    /\ rewound = 0

(* acquire of a new id below the ceiling. *)
Acquire(c, now) ==
    /\ c \notin active
    /\ ~Full
    /\ Advance(now)
    /\ active' = active \cup {c}
    /\ peak' = IF peak > Cardinality(active') THEN peak ELSE Cardinality(active')
    /\ ledger' = ledger - integral'
    /\ since' = IF Busy THEN since ELSE now
    /\ UNCHANGED busyDone

(* acquire of an id that already holds a slot returns at once. *)
AcquireAgain(c) == c \in active /\ UNCHANGED supVars

(* acquire at the ceiling raises CapacityExceeded before it advances. *)
AcquireRefused(c) == c \notin active /\ Full /\ UNCHANGED supVars

Release(c, now) ==
    /\ c \in active
    /\ Advance(now)
    /\ active' = active \ {c}
    /\ ledger' = ledger + integral'
    /\ busyDone' = IF active' = {} THEN busyDone + (now - since) ELSE busyDone
    /\ since' = IF active' = {} THEN NoTime ELSE since
    /\ UNCHANGED peak

(* release of an id that holds no slot does nothing. *)
ReleaseAbsent(c) == c \notin active /\ UNCHANGED supVars

(* share_cursor: its result is integral' of the step. *)
ShareCursor(now) ==
    /\ Advance(now)
    /\ UNCHANGED <<active, peak, ledger, since, busyDone>>

SupNext ==
    \E c \in Calls, now \in Readings :
        \/ Acquire(c, now) \/ AcquireAgain(c) \/ AcquireRefused(c)
        \/ Release(c, now) \/ ReleaseAbsent(c)
        \/ ShareCursor(now)

SupSpec == SupInit /\ [][SupNext]_supVars

-----------------------------------------------------------------------------
SupTypeOK ==
    /\ active \subseteq Calls
    /\ IsFiniteSet(active)
    /\ integral \in Nat
    /\ last \in Int \cup {NoTime}
    /\ peak \in Nat
    /\ ledger \in Int
    /\ since \in Int \cup {NoTime}
    /\ busyDone \in Int
    /\ rewound \in Nat
    /\ Busy => last \in Int /\ since \in Int

(* Admission never exceeds the ceiling, and the peak reported to the       *)
(* load-test report is between the current occupancy and the ceiling.      *)
CeilingRespected ==
    /\ Cardinality(active) <= peak
    /\ peak <= Ceiling

(* The time the pool was occupied, in the callers' own readings.           *)
BusyTime == busyDone + (IF Busy THEN last - since ELSE 0)

(* What all calls together accrued while they held a slot.                 *)
TotalShare == ledger + Cardinality(active) * integral

(* Cost conservation, as the code achieves it: the shares of all calls add *)
(* up to the busy time plus exactly the time by which late readings moved  *)
(* `_last_update` backwards.                                               *)
ShareConservation == TotalShare = Unit * (BusyTime + rewound)

(* Cost conservation as the class docstring states it: the shares of all   *)
(* calls sum exactly to the busy time, never double-counted.               *)
SharesSumToBusyTime == TotalShare = Unit * BusyTime
=============================================================================
