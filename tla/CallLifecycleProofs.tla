------------------------- MODULE CallLifecycleProofs -------------------------
(***************************************************************************)
(* The supervisor's admission and accounting, proved for every set of      *)
(* calls, every ceiling and any clock readings; then admission, slots and  *)
(* bills of CallLifecycle, for every interleaving of the job threads.      *)
(***************************************************************************)
EXTENDS CallLifecycle, FiniteSetTheorems, TLAPS

-----------------------------------------------------------------------------
(* Part 1: the supervisor by itself.                                       *)

(* What every operation preserves: the types, the ceiling and the ledger.  *)
SupInv == SupTypeOK /\ CeilingRespected /\ ShareConservation

-----------------------------------------------------------------------------
(* Arithmetic over products, kept apart from the state.                    *)

LEMMA Spread ==
    ASSUME NEW n \in Int, NEW i \in Int, NEW e \in Int, NEW s \in Int, NEW u \in Int,
           n * s = u
    PROVE  n * (i + e * s) = n * i + u * e
<1>1. n * (i + e * s) = n * i + n * (e * s) OBVIOUS
<1>2. n * (e * s) = (n * s) * e OBVIOUS
<1> QED BY <1>1, <1>2

LEMMA Distribute ==
    ASSUME NEW u \in Int, NEW x \in Int, NEW y \in Int
    PROVE  u * (x + y) = u * x + u * y
OBVIOUS

(* The slice every active call gets, times their number, is the whole.     *)
LEMMA SliceIsExact ==
    ASSUME SupTypeOK, CeilingRespected, Busy
    PROVE  /\ Cardinality(active) \in 1..Ceiling
           /\ Slice \in Nat
           /\ Cardinality(active) * Slice = Unit
<1>1. Cardinality(active) \in Nat /\ Cardinality(active) # 0
  BY FS_CardinalityType, FS_EmptySet DEF SupTypeOK, Busy
<1>2. Cardinality(active) \in 1..Ceiling
  BY <1>1, CeilingAssumption DEF SupTypeOK, CeilingRespected
<1>3. Unit \div Cardinality(active) \in Nat
  BY <1>2, UnitAssumption, CeilingAssumption
<1> QED BY <1>2, <1>3, UnitAssumption DEF Slice

-----------------------------------------------------------------------------
(* Advance, seen from before the operation changes the set of calls: the   *)
(* integral does not fall, and while the pool is busy the active calls     *)
(* together accrue the interval since `last`, counting what was rewound.   *)
LEMMA AdvanceAccrues ==
    ASSUME SupInv, NEW now \in Int, Advance(now)
    PROVE  /\ integral' \in Nat /\ integral' >= integral
           /\ last' = now
           /\ rewound' \in Nat
           /\ ~Busy => integral' = integral /\ rewound' = rewound
           /\ Busy => Cardinality(active) * integral'
                        = Cardinality(active) * integral
                          + Unit * ((now - last) + (rewound' - rewound))
<1> USE DEF SupInv
<1>1. CASE ~Busy
  BY <1>1 DEF Advance, SupTypeOK
<1>2. CASE Busy
  <2>1. /\ last \in Int /\ last # NoTime
        /\ integral \in Nat /\ rewound \in Nat
    BY <1>2, NoTimeAssumption DEF SupTypeOK
  <2>2. /\ Elapsed(now) \in Nat
        /\ AtLeastZero(last - now) \in Nat
        /\ Elapsed(now) = (now - last) + AtLeastZero(last - now)
    BY <2>1 DEF Elapsed, AtLeastZero
  <2>3. /\ Cardinality(active) \in Int /\ Slice \in Nat /\ Unit \in Nat
        /\ Cardinality(active) * Slice = Unit
    BY <1>2, SliceIsExact, UnitAssumption
  <2>4. /\ integral' = integral + Elapsed(now) * Slice
        /\ rewound' = rewound + AtLeastZero(last - now)
        /\ last' = now
    BY <1>2, <2>1 DEF Advance
  <2>5. Elapsed(now) * Slice \in Nat
    BY <2>2, <2>3
  <2>6. Cardinality(active) * (integral + Elapsed(now) * Slice)
          = Cardinality(active) * integral + Unit * Elapsed(now)
    BY <2>1, <2>2, <2>3, Spread
  <2>7. Elapsed(now) = (now - last) + (rewound' - rewound)
    BY <2>1, <2>2, <2>4
  <2> QED BY <1>2, <2>1, <2>2, <2>4, <2>5, <2>6, <2>7
<1> QED BY <1>1, <1>2

-----------------------------------------------------------------------------
(* The operations, one lemma each.                                         *)

LEMMA AcquirePreserves ==
    ASSUME SupInv, NEW c \in Calls, NEW now \in Int, Acquire(c, now)
    PROVE  SupInv'
<1> USE DEF SupInv
<1>1. /\ active' = active \cup {c} /\ c \notin active
      /\ IsFiniteSet(active') /\ Cardinality(active) \in Nat
      /\ Cardinality(active') = Cardinality(active) + 1
      /\ active' # {}
  BY FS_AddElement, FS_CardinalityType DEF Acquire, SupTypeOK
<1>2. Cardinality(active') <= Ceiling
  BY <1>1, CeilingAssumption DEF Acquire, Full
<1>3. /\ integral' \in Nat /\ last' = now /\ rewound' \in Nat
  BY AdvanceAccrues DEF Acquire
<1>4. CeilingRespected'
  BY <1>1, <1>2, CeilingAssumption DEF Acquire, CeilingRespected, SupTypeOK
<1>5. SupTypeOK'
  BY <1>1, <1>2, <1>3, CeilingAssumption DEF Acquire, SupTypeOK, Busy
<1>6. TotalShare' = ledger + Cardinality(active) * integral'
  <2>1. ledger' = ledger - integral' /\ ledger \in Int
    BY DEF Acquire, SupTypeOK
  <2>2. (Cardinality(active) + 1) * integral' = Cardinality(active) * integral' + integral'
    BY <1>1, <1>3
  <2>3. Cardinality(active) * integral' \in Int
    BY <1>1, <1>3
  <2> QED BY <1>1, <1>3, <2>1, <2>2, <2>3 DEF TotalShare
<1>7. CASE ~Busy
  <2>1. Cardinality(active) = 0 /\ integral' = integral /\ rewound' = rewound
    BY <1>7, FS_EmptySet, AdvanceAccrues DEF Busy, Acquire
  <2>2. BusyTime' = busyDone + (now - now)
    BY <1>1, <1>3, <1>7 DEF BusyTime, Busy, Acquire
  <2>3. BusyTime' = BusyTime
    BY <1>7, <2>2 DEF BusyTime, SupTypeOK
  <2> QED BY <1>4, <1>5, <1>6, <2>1, <2>3 DEF ShareConservation, TotalShare
<1>8. CASE Busy
  <2>1. Cardinality(active) * integral'
          = Cardinality(active) * integral + Unit * ((now - last) + (rewound' - rewound))
    BY <1>8, AdvanceAccrues DEF Acquire
  <2>2. /\ last \in Int /\ since \in Int /\ busyDone \in Int /\ rewound \in Int
        /\ rewound' \in Int /\ ledger \in Int /\ Unit \in Int
        /\ Cardinality(active) * integral \in Int
    BY <1>1, <1>3, <1>8, UnitAssumption DEF SupTypeOK
  <2>3. BusyTime' = BusyTime + (now - last) /\ BusyTime \in Int
    BY <1>1, <1>3, <1>8, <2>2 DEF BusyTime, Busy, Acquire
  <2>4. BusyTime' + rewound' = (BusyTime + rewound) + ((now - last) + (rewound' - rewound))
    BY <2>2, <2>3
  <2>5. Unit * (BusyTime' + rewound')
          = Unit * (BusyTime + rewound) + Unit * ((now - last) + (rewound' - rewound))
    BY <2>2, <2>3, <2>4, Distribute
  <2>6. TotalShare' = TotalShare + Unit * ((now - last) + (rewound' - rewound))
    BY <1>6, <2>1, <2>2 DEF TotalShare
  <2> QED BY <1>4, <1>5, <2>5, <2>6 DEF ShareConservation
<1> QED BY <1>7, <1>8

LEMMA ReleasePreserves ==
    ASSUME SupInv, NEW c \in Calls, NEW now \in Int, Release(c, now)
    PROVE  SupInv'
<1> USE DEF SupInv
<1>1. /\ active' = active \ {c} /\ c \in active /\ Busy
      /\ IsFiniteSet(active') /\ Cardinality(active) \in Nat
      /\ Cardinality(active') \in Nat
      /\ Cardinality(active) = Cardinality(active') + 1
  <2>1. active' = active \ {c} /\ c \in active /\ IsFiniteSet(active)
    BY DEF Release, SupTypeOK
  <2>2. /\ IsFiniteSet(active \ {c})
        /\ Cardinality(active \ {c}) = Cardinality(active) - 1
    BY <2>1, FS_RemoveElement
  <2>3. Cardinality(active) \in Nat /\ Cardinality(active \ {c}) \in Nat
    BY <2>1, <2>2, FS_CardinalityType
  <2> QED BY <2>1, <2>2, <2>3 DEF Busy
<1>2. /\ integral' \in Nat /\ last' = now /\ rewound' \in Nat
  BY AdvanceAccrues DEF Release
<1>3. /\ last \in Int /\ since \in Int /\ busyDone \in Int /\ rewound \in Int
      /\ rewound' \in Int /\ ledger \in Int /\ Unit \in Int
      /\ Cardinality(active) * integral \in Int
  BY <1>1, <1>2, UnitAssumption DEF SupTypeOK
<1>4. CeilingRespected'
  BY <1>1, CeilingAssumption DEF Release, CeilingRespected, SupTypeOK
<1>5. SupTypeOK'
  BY <1>1, <1>2, <1>3 DEF Release, SupTypeOK, Busy
<1>6. TotalShare' = ledger + Cardinality(active) * integral'
  <2>1. ledger' = ledger + integral'
    BY DEF Release
  <2>2. (Cardinality(active') + 1) * integral' = Cardinality(active') * integral' + integral'
    BY <1>1, <1>2
  <2>3. Cardinality(active') * integral' \in Int
    BY <1>1, <1>2
  <2> QED BY <1>1, <1>2, <1>3, <2>1, <2>2, <2>3 DEF TotalShare
<1>7. Cardinality(active) * integral'
        = Cardinality(active) * integral + Unit * ((now - last) + (rewound' - rewound))
  BY <1>1, AdvanceAccrues DEF Release
<1>8. BusyTime' = BusyTime + (now - last) /\ BusyTime \in Int
  <2>1. BusyTime = busyDone + (last - since)
    BY <1>1 DEF BusyTime
  <2>2. CASE active' = {}
    BY <1>1, <1>2, <1>3, <2>1, <2>2 DEF BusyTime, Busy, Release
  <2>3. CASE active' # {}
    BY <1>1, <1>2, <1>3, <2>1, <2>3 DEF BusyTime, Busy, Release
  <2> QED BY <2>2, <2>3
<1>9. BusyTime' + rewound' = (BusyTime + rewound) + ((now - last) + (rewound' - rewound))
  BY <1>3, <1>8
<1>10. Unit * (BusyTime' + rewound')
         = Unit * (BusyTime + rewound) + Unit * ((now - last) + (rewound' - rewound))
  BY <1>3, <1>8, <1>9, Distribute
<1>11. TotalShare' = TotalShare + Unit * ((now - last) + (rewound' - rewound))
  BY <1>3, <1>6, <1>7 DEF TotalShare
<1> QED BY <1>4, <1>5, <1>10, <1>11 DEF ShareConservation

LEMMA ShareCursorPreserves ==
    ASSUME SupInv, NEW now \in Int, ShareCursor(now)
    PROVE  SupInv'
<1> USE DEF SupInv
<1>1. /\ integral' \in Nat /\ last' = now /\ rewound' \in Nat
  BY AdvanceAccrues DEF ShareCursor
<1>2. SupTypeOK' /\ CeilingRespected'
  BY <1>1 DEF ShareCursor, SupTypeOK, CeilingRespected, Busy
<1>3. CASE ~Busy
  BY <1>2, <1>3, AdvanceAccrues
  DEF ShareCursor, ShareConservation, TotalShare, BusyTime, Busy
<1>4. CASE Busy
  <2>1. Cardinality(active) * integral'
          = Cardinality(active) * integral + Unit * ((now - last) + (rewound' - rewound))
    BY <1>4, AdvanceAccrues DEF ShareCursor
  <2>2. /\ last \in Int /\ since \in Int /\ busyDone \in Int /\ rewound \in Int
        /\ rewound' \in Int /\ ledger \in Int /\ Unit \in Int
        /\ Cardinality(active) * integral \in Int
    BY <1>1, <1>4, FS_CardinalityType, UnitAssumption DEF SupTypeOK
  <2>3. BusyTime' = BusyTime + (now - last) /\ BusyTime \in Int
    BY <1>1, <1>4, <2>2 DEF BusyTime, Busy, ShareCursor
  <2>4. BusyTime' + rewound' = (BusyTime + rewound) + ((now - last) + (rewound' - rewound))
    BY <2>2, <2>3
  <2>5. Unit * (BusyTime' + rewound')
          = Unit * (BusyTime + rewound) + Unit * ((now - last) + (rewound' - rewound))
    BY <2>2, <2>3, <2>4, Distribute
  <2>6. TotalShare' = TotalShare + Unit * ((now - last) + (rewound' - rewound))
    BY <2>1, <2>2 DEF TotalShare, ShareCursor
  <2> QED BY <1>2, <2>5, <2>6 DEF ShareConservation
<1> QED BY <1>3, <1>4

-----------------------------------------------------------------------------
LEMMA SupInitEstablishes == SupInit => SupInv
<1> SUFFICES ASSUME SupInit PROVE SupInv OBVIOUS
<1>1. IsFiniteSet(active) /\ Cardinality(active) = 0 /\ ~Busy
  BY FS_EmptySet DEF SupInit, Busy
<1>2. SupTypeOK /\ CeilingRespected
  BY <1>1, CeilingAssumption DEF SupInit, SupTypeOK, CeilingRespected
<1>3. ShareConservation
  BY <1>1, UnitAssumption DEF SupInit, ShareConservation, TotalShare, BusyTime
<1> QED BY <1>2, <1>3 DEF SupInv

LEMMA SupStepPreserves == SupInv /\ [SupNext]_supVars => SupInv'
<1> SUFFICES ASSUME SupInv, [SupNext]_supVars PROVE SupInv'
  OBVIOUS
<1>1. CASE UNCHANGED supVars
  BY <1>1 DEF supVars, SupInv, SupTypeOK, CeilingRespected, ShareConservation,
              TotalShare, BusyTime, Busy
<1>2. ASSUME NEW c \in Calls, NEW now \in Readings, Acquire(c, now) PROVE SupInv'
  BY <1>2, ReadingsAssumption, AcquirePreserves
<1>3. ASSUME NEW c \in Calls, NEW now \in Readings, Release(c, now) PROVE SupInv'
  BY <1>3, ReadingsAssumption, ReleasePreserves
<1>4. ASSUME NEW now \in Readings, ShareCursor(now) PROVE SupInv'
  BY <1>4, ReadingsAssumption, ShareCursorPreserves
<1>5. ASSUME NEW c \in Calls, AcquireAgain(c) \/ AcquireRefused(c) \/ ReleaseAbsent(c)
      PROVE  UNCHANGED supVars
  BY <1>5 DEF AcquireAgain, AcquireRefused, ReleaseAbsent
<1> QED BY <1>1, <1>2, <1>3, <1>4, <1>5 DEF SupNext

(* Admission never exceeds the ceiling and the shares of all calls add up  *)
(* to the busy time plus what late readings rewound, whatever readings the *)
(* callers pass and in whatever order they come to the lock.               *)
THEOREM SupervisorSafe == SupSpec => [](SupTypeOK /\ CeilingRespected /\ ShareConservation)
<1>1. SupInit => SupInv BY SupInitEstablishes
<1>2. SupInv /\ [SupNext]_supVars => SupInv' BY SupStepPreserves
<1>3. SupInv => SupTypeOK /\ CeilingRespected /\ ShareConservation BY DEF SupInv
<1> QED BY <1>1, <1>2, <1>3, PTL DEF SupSpec

-----------------------------------------------------------------------------
(* Part 2: every step of a call's thread is an operation of the supervisor *)
(* or leaves it alone, so what is proved of the supervisor holds here.     *)

ReadingTypes ==
    /\ clock \in 0..MaxClock
    /\ reading \in [Calls -> 0..MaxClock]

LEMMA ReadingTypesHold == Spec => []ReadingTypes
<1>1. Init => ReadingTypes
  BY ClockAssumption DEF Init, ReadingTypes
<1>2. ReadingTypes /\ [Next]_vars => ReadingTypes'
  <2> SUFFICES ASSUME ReadingTypes, [Next]_vars PROVE ReadingTypes'
    OBVIOUS
  <2>1. CASE UNCHANGED vars
    BY <2>1 DEF vars, callVars, ReadingTypes
  <2>2. CASE Tick
    BY <2>2, ClockAssumption DEF Tick, callVars, ReadingTypes
  <2>3. ASSUME NEW c \in Calls, Start(c) PROVE ReadingTypes'
    BY <2>3 DEF Start, RefuseUnvetted, ReadStart, Admit, RejectAtCapacity, Persist,
                PersistFails, BackOut, EmitFails, StartMeter, EnterSession, AbandonCall,
                LoseEnd, ReadClock, ReadingTypes
  <2>4. ASSUME NEW c \in Calls, Meter(c) PROVE ReadingTypes'
    BY <2>4 DEF Meter, StreamAudio, ReadForTick, Peek, ReadForRecord, RecordTurn,
                callVars, ReadClock, ReadingTypes
  <2>5. ASSUME NEW c \in Calls, End(c) PROVE ReadingTypes'
    BY <2>5 DEF End, ReadForEnd, CloseTail, GiveSlotBack, SaveEnd, SaveFails, CommitLate,
                ReadClock, ReadingTypes
  <2> QED BY <2>1, <2>2, <2>3, <2>4, <2>5 DEF Next
<1> QED BY <1>1, <1>2, PTL DEF Spec

LEMMA StepIsSupervisorStep == ReadingTypes /\ [Next]_vars => [SupNext]_supVars
<1> SUFFICES ASSUME ReadingTypes, [Next]_vars PROVE [SupNext]_supVars
  OBVIOUS
<1>1. \A c \in Calls : reading[c] \in Readings
  BY ClockAssumption DEF ReadingTypes
<1>2. CASE UNCHANGED vars \/ Tick
  BY <1>2 DEF vars, Tick
<1>3. ASSUME NEW c \in Calls, Start(c) PROVE [SupNext]_supVars
  <2>1. CASE Admit(c)
    BY <1>1, <2>1 DEF Admit, SupNext
  <2>2. CASE RejectAtCapacity(c)
    BY <2>2 DEF RejectAtCapacity, AcquireRefused
  <2>3. CASE BackOut(c)
    BY <1>1, <2>3 DEF BackOut, SupNext
  <2>4. CASE StartMeter(c)
    BY <1>1, <2>4 DEF StartMeter, SupNext
  <2>5. CASE ~(Admit(c) \/ RejectAtCapacity(c) \/ BackOut(c) \/ StartMeter(c))
    BY <1>3, <2>5 DEF Start, RefuseUnvetted, ReadStart, Persist, PersistFails,
                      EmitFails, EnterSession, AbandonCall, LoseEnd
  <2> QED BY <2>1, <2>2, <2>3, <2>4, <2>5
<1>4. ASSUME NEW c \in Calls, Meter(c) PROVE [SupNext]_supVars
  <2>1. CASE Peek(c)
    BY <1>1, <2>1 DEF Peek, SupNext
  <2>2. CASE RecordTurn(c)
    BY <1>1, <2>2 DEF RecordTurn, CloseSegment, SupNext
  <2>3. CASE StreamAudio(c) \/ ReadForTick(c) \/ ReadForRecord(c)
    BY <2>3 DEF StreamAudio, ReadForTick, ReadForRecord
  <2> QED BY <1>4, <2>1, <2>2, <2>3 DEF Meter
<1>5. ASSUME NEW c \in Calls, End(c) PROVE [SupNext]_supVars
  <2>1. CASE CloseTail(c)
    BY <1>1, <2>1 DEF CloseTail, CloseSegment, SupNext
  <2>2. CASE GiveSlotBack(c)
    BY <1>1, <2>2 DEF GiveSlotBack, SupNext
  <2>3. CASE ReadForEnd(c) \/ SaveEnd(c) \/ SaveFails(c) \/ CommitLate(c)
    BY <2>3 DEF ReadForEnd, SaveEnd, SaveFails, CommitLate
  <2> QED BY <1>5, <2>1, <2>2, <2>3 DEF End
<1> QED BY <1>2, <1>3, <1>4, <1>5 DEF Next

(* The threads use the supervisor only through its operations.             *)
THEOREM LifecycleImplementsSupervisor == Spec => SupSpec
<1>1. Init => SupInit BY DEF Init
<1>2. ReadingTypes /\ [Next]_vars => [SupNext]_supVars BY StepIsSupervisorStep
<1> QED BY <1>1, <1>2, ReadingTypesHold, PTL DEF Spec, SupSpec

(* Admission stays below the ceiling, and the shares of all calls add up   *)
(* to the busy time plus what late readings rewound, with threads that     *)
(* read the clock, wait for the database and then take the lock.           *)
THEOREM LifecycleConservesShares == Spec => [](CeilingRespected /\ ShareConservation)
BY LifecycleImplementsSupervisor, SupervisorSafe, PTL

-----------------------------------------------------------------------------
(* Part 3: slots and rows.                                                 *)

SlotTypes ==
    /\ pc \in [Calls -> Points]
    /\ row \in [Calls -> {"none", "active", "ended"}]
    /\ late \in [Calls -> {"none", "active", "ended"}]

(* Where a call's row, and the commit that may still change it, come from. *)
RowOrigins ==
    \A c \in Calls :
        /\ pc[c] \in {"new", "refused", "acquiring", "adding"} => row[c] = "none"
        /\ late[c] = "active" => pc[c] \in {"backingOut", "backedOut"}
        /\ late[c] = "ended" => At(c, "over")

SlotInv == SlotTypes /\ SlotHeldByLiveCall /\ RowOrigins

LEMMA SlotStart ==
    ASSUME SlotInv, NEW c \in Calls, Start(c)
    PROVE  SlotInv'
<1> USE SelfHostedAssumption
    DEF SlotInv, SlotTypes, SlotHeldByLiveCall, RowOrigins, Goto, At, Points,
        HoldsSlot, Failed, Starting, Metered, InSession, Ending, Settled
<1>1. CASE RefuseUnvetted(c) BY <1>1 DEF RefuseUnvetted, supVars
<1>2. CASE ReadStart(c) BY <1>2 DEF ReadStart, supVars
<1>3. CASE Admit(c) BY <1>3 DEF Admit, Acquire, supVars
<1>4. CASE RejectAtCapacity(c) BY <1>4 DEF RejectAtCapacity, AcquireRefused, supVars
<1>5. CASE Persist(c) BY <1>5 DEF Persist, supVars
<1>6. CASE PersistFails(c) BY <1>6 DEF PersistFails, MayCommitLate, supVars
<1>7. CASE BackOut(c) BY <1>7 DEF BackOut, Release, supVars
<1>8. CASE StartMeter(c) BY <1>8 DEF StartMeter, ShareCursor, supVars
<1>9. CASE EnterSession(c) BY <1>9 DEF EnterSession, supVars
<1>10. CASE AbandonCall(c) BY <1>10 DEF AbandonCall, supVars
<1>11. CASE LoseEnd(c) BY <1>11 DEF LoseEnd, supVars
<1>12. CASE EmitFails(c) BY <1>12 DEF EmitFails, supVars
<1> QED BY <1>1, <1>2, <1>3, <1>4, <1>5, <1>6, <1>7, <1>8, <1>9, <1>10, <1>11, <1>12
       DEF Start

LEMMA SlotMeter ==
    ASSUME SlotInv, NEW c \in Calls, Meter(c)
    PROVE  SlotInv'
<1> USE SelfHostedAssumption
    DEF SlotInv, SlotTypes, SlotHeldByLiveCall, RowOrigins, Goto, At, Points,
        HoldsSlot, Failed, Starting, Metered, InSession, Ending, Settled
<1>1. CASE StreamAudio(c) BY <1>1 DEF StreamAudio, supVars, callVars
<1>2. CASE ReadForTick(c) BY <1>2 DEF ReadForTick, supVars
<1>3. CASE Peek(c) BY <1>3 DEF Peek, ShareCursor, supVars
<1>4. CASE ReadForRecord(c) BY <1>4 DEF ReadForRecord, supVars
<1>5. CASE RecordTurn(c) BY <1>5 DEF RecordTurn, CloseSegment, ShareCursor, supVars
<1> QED BY <1>1, <1>2, <1>3, <1>4, <1>5 DEF Meter

LEMMA SlotEnd ==
    ASSUME SlotInv, NEW c \in Calls, End(c)
    PROVE  SlotInv'
<1> USE SelfHostedAssumption
    DEF SlotInv, SlotTypes, SlotHeldByLiveCall, RowOrigins, Goto, At, Points,
        HoldsSlot, Failed, Starting, Metered, InSession, Ending, Settled
<1>1. CASE ReadForEnd(c) BY <1>1 DEF ReadForEnd, supVars
<1>2. CASE CloseTail(c) BY <1>2 DEF CloseTail, CloseSegment, ShareCursor, supVars
<1>3. CASE GiveSlotBack(c) BY <1>3 DEF GiveSlotBack, Release, supVars
<1>4. CASE SaveEnd(c) BY <1>4 DEF SaveEnd, supVars
<1>5. CASE SaveFails(c) BY <1>5 DEF SaveFails, MayCommitLate, supVars
<1>6. CASE CommitLate(c) BY <1>6 DEF CommitLate, supVars
<1> QED BY <1>1, <1>2, <1>3, <1>4, <1>5, <1>6 DEF End

LEMMA SlotInvHolds == Spec => []SlotInv
<1>1. Init => SlotInv
  BY SelfHostedAssumption DEF Init, SupInit, SlotInv, SlotTypes, SlotHeldByLiveCall, RowOrigins,
         Points, HoldsSlot, Failed, Starting, Metered, InSession, Ending, Settled
<1>2. SlotInv /\ [Next]_vars => SlotInv'
  <2> SUFFICES ASSUME SlotInv, [Next]_vars PROVE SlotInv'
    OBVIOUS
  <2>1. CASE UNCHANGED vars \/ Tick
    BY <2>1 DEF vars, Tick, supVars, callVars, SlotInv, SlotTypes, SlotHeldByLiveCall,
                RowOrigins, At
  <2> QED BY <2>1, SlotStart, SlotMeter, SlotEnd DEF Next
<1> QED BY <1>1, <1>2, PTL DEF Spec

(* Slots are held by exactly the self-hosted calls that are on, a refused  *)
(* call leaves neither a slot nor a row nor a commit that could still make *)
(* one, and a row without its slot is left only by a failed commit.        *)
THEOREM SlotsAreExact ==
    Spec => [](SlotHeldByLiveCall /\ RefusedLeavesNothing /\ PhantomsAreFailedCommits)
<1>1. ASSUME SlotInv PROVE RefusedLeavesNothing
  <2> SUFFICES ASSUME NEW c \in Calls
               PROVE  /\ At(c, "refused") => row[c] = "none" /\ late[c] = "none"
                      /\ pc[c] \in {"refused", "backedOut"} => c \notin active
    BY DEF RefusedLeavesNothing
  <2>1. At(c, "refused") => row[c] = "none" /\ late[c] = "none"
    BY <1>1 DEF SlotInv, SlotTypes, RowOrigins, At
  <2>2. pc[c] \in {"refused", "backedOut"} => c \notin active
    BY <1>1 DEF SlotInv, SlotHeldByLiveCall, HoldsSlot, Metered, InSession, Ending
  <2> QED BY <2>1, <2>2
<1>2. ASSUME SlotInv PROVE PhantomsAreFailedCommits
  <2> SUFFICES ASSUME NEW c \in SelfHosted \ active, row[c] = "active"
               PROVE  pc[c] \in {"backedOut"} \cup Settled
    BY DEF PhantomsAreFailedCommits
  <2>1. c \in Calls /\ pc[c] \in Points /\ pc[c] \notin HoldsSlot
    BY <1>2, SelfHostedAssumption DEF SlotInv, SlotTypes, SlotHeldByLiveCall
  <2>2. pc[c] \notin {"new", "refused", "acquiring"}
    BY <1>2, <2>1 DEF SlotInv, RowOrigins
  <2> QED BY <2>1, <2>2 DEF Points, HoldsSlot, Failed, Starting
<1>3. SlotInv => SlotHeldByLiveCall BY DEF SlotInv
<1> QED BY <1>1, <1>2, <1>3, SlotInvHolds, PTL

(* With the ceiling: what the supervisor holds is what it should, through  *)
(* every failure of a start or an end, late commits included.              *)
THEOREM AdmissionIsExact == Spec => []AdmissionExact
<1>1. /\ CeilingRespected /\ SlotHeldByLiveCall
      /\ RefusedLeavesNothing /\ PhantomsAreFailedCommits
      => AdmissionExact
  BY DEF AdmissionExact
<1> QED BY <1>1, SlotsAreExact, LifecycleConservesShares, PTL

-----------------------------------------------------------------------------
(* Part 4: bills.  No call pays for less than 1/Ceiling of the time it is  *)
(* billed for, because between two operations a busy supervisor adds at    *)
(* least 1/Ceiling of what its clock moves, late readings included.        *)

LEMMA ScaleMonotone ==
    ASSUME NEW k \in Nat, NEW x \in Int, NEW y \in Int, x >= y
    PROVE  k * x >= k * y
<1>1. k * x = k * y + k * (x - y) OBVIOUS
<1>2. k * (x - y) \in Nat OBVIOUS
<1> QED BY <1>1, <1>2

LEMMA AdvanceFloor ==
    ASSUME SupInv, Busy, NEW now \in Int, Advance(now)
    PROVE  Ceiling * (integral' - integral) >= Unit * (now - last)
<1> USE DEF SupInv
<1>1. /\ last \in Int /\ last # NoTime /\ integral \in Nat
  BY NoTimeAssumption DEF SupTypeOK
<1>2. Elapsed(now) \in Nat /\ Elapsed(now) >= now - last
  BY <1>1 DEF Elapsed, AtLeastZero
<1>3. integral' - integral = Elapsed(now) * Slice
  <2>1. integral' = integral + Elapsed(now) * Slice
    BY <1>1 DEF Advance
  <2>2. Elapsed(now) * Slice \in Int
    BY <1>2, SliceIsExact
  <2> QED BY <1>1, <2>1, <2>2
<1>4. /\ Slice \in Nat /\ Ceiling \in Nat /\ Unit \in Nat
      /\ Ceiling * Slice >= Unit
  <2>1. /\ Slice \in Nat /\ Cardinality(active) \in Nat /\ Ceiling >= Cardinality(active)
        /\ Cardinality(active) * Slice = Unit
    BY SliceIsExact, CeilingAssumption
  <2>2. Slice * Ceiling >= Slice * Cardinality(active)
    BY <2>1, CeilingAssumption, ScaleMonotone
  <2>3. Slice * Ceiling = Ceiling * Slice /\ Slice * Cardinality(active) = Unit
    BY <2>1, CeilingAssumption
  <2> QED BY <2>1, <2>2, <2>3, CeilingAssumption, UnitAssumption
<1>5. Ceiling * (Elapsed(now) * Slice) = Elapsed(now) * (Ceiling * Slice)
  BY <1>2, <1>4
<1>6. Elapsed(now) * (Ceiling * Slice) >= Elapsed(now) * Unit
  <2>1. Ceiling * Slice \in Int
    BY <1>4
  <2> QED BY <1>2, <1>4, <2>1, ScaleMonotone
<1>7. Elapsed(now) * Unit = Unit * Elapsed(now) /\ Unit * Elapsed(now) >= Unit * (now - last)
  BY <1>1, <1>2, <1>4, ScaleMonotone
<1>8. /\ Elapsed(now) * (Ceiling * Slice) \in Int
      /\ Unit * Elapsed(now) \in Int /\ Unit * (now - last) \in Int
  BY <1>1, <1>2, <1>4
<1> QED BY <1>3, <1>5, <1>6, <1>7, <1>8

(* What any step does to the integral while calls are active.              *)
FloorStep ==
    /\ integral' >= integral
    /\ Busy => Ceiling * (integral' - integral) >= Unit * (last' - last)

LEMMA OperationKeepsFloor ==
    ASSUME SupInv, NEW now \in Int, Advance(now)
    PROVE  FloorStep /\ last' = now
BY AdvanceAccrues, AdvanceFloor DEF FloorStep

LEMMA SupervisorKeepsFloor == SupInv /\ [SupNext]_supVars => FloorStep
<1> SUFFICES ASSUME SupInv, [SupNext]_supVars PROVE FloorStep
  OBVIOUS
<1>1. CASE UNCHANGED supVars
  BY <1>1, UnitAssumption, CeilingAssumption DEF supVars, FloorStep, SupInv, SupTypeOK
<1>2. ASSUME NEW c \in Calls, NEW now \in Readings,
             Acquire(c, now) \/ Release(c, now) \/ ShareCursor(now)
      PROVE  FloorStep
  <2> now \in Int /\ Advance(now)
    BY <1>2, ReadingsAssumption DEF Acquire, Release, ShareCursor
  <2> QED BY OperationKeepsFloor
<1>3. ASSUME NEW c \in Calls, AcquireAgain(c) \/ AcquireRefused(c) \/ ReleaseAbsent(c)
      PROVE  UNCHANGED supVars
  BY <1>3 DEF AcquireAgain, AcquireRefused, ReleaseAbsent
<1> QED BY <1>1, <1>2, <1>3 DEF SupNext

-----------------------------------------------------------------------------
MeterTypes ==
    /\ started \in [Calls -> Int]
    /\ segStart \in [Calls -> Int]
    /\ cursor \in [Calls -> Int]
    /\ wallCharged \in [Calls -> Int]
    /\ shareCharged \in [Calls -> Int]

Unmetered == {"new"} \cup Failed \cup Starting

(* What is true of one call's meter between any two steps.                 *)
Bill(c) ==
    /\ reading[c] <= clock
    /\ pc[c] \in Unmetered => wallCharged[c] = 0 /\ shareCharged[c] = 0
    /\ pc[c] \in Metered \cup Settled =>
         wallCharged[c] = segStart[c] - started[c] /\ segStart[c] <= clock
    /\ pc[c] \in {"closing", "ending"} => segStart[c] <= reading[c]
    /\ c \in SelfHosted /\ pc[c] \in Metered =>
         /\ cursor[c] <= integral
         /\ Ceiling * (integral - cursor[c]) >= Unit * (last - segStart[c])
    /\ Ceiling * shareCharged[c] >= Unit * wallCharged[c]

BillInv == MeterTypes /\ \A c \in Calls : Bill(c)

Context == ReadingTypes /\ SlotInv /\ SupInv

(* A step that leaves the meter of d as it is, and moves d's thread only   *)
(* within the life of the meter.                                           *)
MeterUntouched(d) ==
    /\ started'[d] = started[d] /\ segStart'[d] = segStart[d] /\ cursor'[d] = cursor[d]
    /\ wallCharged'[d] = wallCharged[d] /\ shareCharged'[d] = shareCharged[d]
    /\ pc'[d] \in Unmetered => pc[d] \in Unmetered
    /\ pc'[d] \in Metered => pc[d] \in Metered
    /\ pc'[d] \in Metered \cup Settled => pc[d] \in Metered \cup Settled
    /\ \/ reading'[d] = reading[d] /\ (pc'[d] \in {"closing", "ending"} => pc'[d] = pc[d])
       \/ reading'[d] = clock /\ pc'[d] \in Metered \cup Unmetered

LEMMA UntouchedBill ==
    ASSUME Context, BillInv, FloorStep, clock' \in Int, clock' >= clock,
           integral' \in Int, Busy => last' \in Int,
           NEW d \in Calls, MeterUntouched(d)
    PROVE  Bill(d)'
<1>1. /\ clock \in Int /\ reading[d] \in Int /\ pc[d] \in Points
      /\ segStart[d] \in Int /\ cursor[d] \in Int /\ integral \in Nat
      /\ Bill(d)
  BY DEF Context, ReadingTypes, SlotInv, SlotTypes, BillInv, MeterTypes, SupInv, SupTypeOK
<1>2. ASSUME d \in SelfHosted, pc'[d] \in Metered
      PROVE  /\ cursor[d] <= integral'
             /\ Ceiling * (integral' - cursor[d]) >= Unit * (last' - segStart[d])
  <2>1. pc[d] \in Metered
    BY <1>2 DEF MeterUntouched
  <2>2. Busy
    BY <1>2, <2>1 DEF Context, SlotInv, SlotHeldByLiveCall, HoldsSlot, Busy
  <2>3. last \in Int /\ last' \in Int
    BY <2>2 DEF Context, SupInv, SupTypeOK
  <2>4. /\ cursor[d] <= integral
        /\ Ceiling * (integral - cursor[d]) >= Unit * (last - segStart[d])
        /\ Ceiling * (integral' - integral) >= Unit * (last' - last)
        /\ integral' >= integral
    BY <1>1, <1>2, <2>1, <2>2 DEF Bill, FloorStep
  <2>5. Ceiling * (integral' - cursor[d])
          = Ceiling * (integral' - integral) + Ceiling * (integral - cursor[d])
    BY <1>1, CeilingAssumption
  <2>6. Unit * (last' - segStart[d]) = Unit * (last' - last) + Unit * (last - segStart[d])
    BY <1>1, <2>3, UnitAssumption
  <2>7. /\ Ceiling * (integral' - integral) \in Int /\ Ceiling * (integral - cursor[d]) \in Int
        /\ Unit * (last' - last) \in Int /\ Unit * (last - segStart[d]) \in Int
    BY <1>1, <2>3, CeilingAssumption, UnitAssumption
  <2> QED BY <1>1, <2>4, <2>5, <2>6, <2>7
<1>3. reading'[d] <= clock'
  BY <1>1 DEF MeterUntouched, Bill
<1>4. pc'[d] \in Unmetered => wallCharged'[d] = 0 /\ shareCharged'[d] = 0
  BY <1>1 DEF MeterUntouched, Bill
<1>5. pc'[d] \in Metered \cup Settled =>
        wallCharged'[d] = segStart'[d] - started'[d] /\ segStart'[d] <= clock'
  BY <1>1 DEF MeterUntouched, Bill
<1>6. pc'[d] \in {"closing", "ending"} => segStart'[d] <= reading'[d]
  BY <1>1 DEF MeterUntouched, Bill, Metered, InSession, Ending
<1> QED BY <1>1, <1>2, <1>3, <1>4, <1>5, <1>6 DEF MeterUntouched, Bill

(* The wall time and the share of the segment that a close returns.        *)
LEMMA ClosedBill ==
    ASSUME Context, BillInv, NEW c \in Calls, CloseSegment(c, reading[c]),
           pc[c] \in {"closing", "ending"}, started' = started, reading' = reading,
           clock' = clock, pc'[c] \in {"talking", "releasing"}
    PROVE  Bill(c)' /\ MeterTypes'
<1>1. /\ clock \in Int /\ reading[c] \in Int /\ integral \in Nat /\ Unit \in Nat
      /\ started[c] \in Int /\ segStart[c] \in Int /\ cursor[c] \in Int
      /\ wallCharged[c] \in Int /\ shareCharged[c] \in Int /\ Ceiling \in Nat \ {0}
      /\ Bill(c) /\ pc[c] \in Metered
  BY CeilingAssumption, UnitAssumption
  DEF Context, ReadingTypes, BillInv, MeterTypes, SupInv, SupTypeOK, Metered, InSession, Ending
<1>2. Wall(c, reading[c]) = reading[c] - segStart[c] /\ reading[c] - segStart[c] \in Nat
  BY <1>1 DEF Bill, Wall, AtLeastZero
<1>3. /\ segStart' = [segStart EXCEPT ![c] = reading[c]]
      /\ wallCharged' = [wallCharged EXCEPT ![c] = @ + (reading[c] - segStart[c])]
      /\ shareCharged' = [shareCharged EXCEPT ![c] = @ + ShareTaken(c, reading[c])]
      /\ cursor' = [cursor EXCEPT ![c] = IF c \in SelfHosted THEN integral' ELSE @]
  BY <1>2 DEF CloseSegment, ChargeSegment, ResetSegment
<1>4. /\ ShareTaken(c, reading[c]) \in Int
      /\ Ceiling * ShareTaken(c, reading[c]) >= Unit * (reading[c] - segStart[c])
      /\ c \in SelfHosted => integral' \in Int /\ last' = reading[c]
  <2>1. CASE c \in SelfHosted
    <3>1. Busy /\ last \in Int
      BY <1>1, <2>1 DEF Context, SlotInv, SlotHeldByLiveCall, HoldsSlot, Busy, SupInv, SupTypeOK
    <3>2. FloorStep /\ last' = reading[c] /\ integral' \in Nat
      BY <1>1, <2>1, OperationKeepsFloor, AdvanceAccrues
      DEF CloseSegment, ShareCursor, Context
    <3>3. Ceiling * (integral' - cursor[c])
            = Ceiling * (integral' - integral) + Ceiling * (integral - cursor[c])
      BY <1>1, <3>2
    <3>4. Unit * (last' - segStart[c]) = Unit * (last' - last) + Unit * (last - segStart[c])
      BY <1>1, <3>1, <3>2
    <3>5. /\ Ceiling * (integral - cursor[c]) >= Unit * (last - segStart[c])
          /\ Ceiling * (integral' - integral) >= Unit * (last' - last)
      BY <1>1, <2>1, <3>1, <3>2 DEF Bill, FloorStep
    <3>6. /\ Ceiling * (integral' - integral) \in Int /\ Ceiling * (integral - cursor[c]) \in Int
          /\ Unit * (last' - last) \in Int /\ Unit * (last - segStart[c]) \in Int
      BY <1>1, <3>1, <3>2
    <3>7. Ceiling * (integral' - cursor[c]) >= Unit * (reading[c] - segStart[c])
      BY <3>2, <3>3, <3>4, <3>5, <3>6
    <3> QED BY <1>1, <2>1, <3>2, <3>7 DEF ShareTaken
  <2>2. CASE c \notin SelfHosted
    <3>1. ShareTaken(c, reading[c]) = Unit * (reading[c] - segStart[c])
      BY <1>2, <2>2 DEF ShareTaken
    <3>2. Unit * (reading[c] - segStart[c]) \in Nat
      BY <1>1, <1>2
    <3>3. ASSUME NEW x \in Nat PROVE Ceiling * x >= x
      <4>1. Ceiling * x = x + (Ceiling - 1) * x
        BY <1>1
      <4>2. (Ceiling - 1) * x \in Nat
        BY <1>1
      <4> QED BY <4>1, <4>2
    <3> QED BY <2>2, <3>1, <3>2, <3>3
  <2> QED BY <2>1, <2>2
<1>5. MeterTypes'
  BY <1>1, <1>3, <1>4 DEF BillInv, MeterTypes
<1>6. /\ segStart'[c] = reading[c] /\ started'[c] = started[c]
      /\ wallCharged'[c] = wallCharged[c] + (reading[c] - segStart[c])
      /\ shareCharged'[c] = shareCharged[c] + ShareTaken(c, reading[c])
      /\ c \in SelfHosted => cursor'[c] = integral'
  BY <1>3 DEF BillInv, MeterTypes
<1>7. Ceiling * shareCharged'[c] >= Unit * wallCharged'[c]
  <2>1. Ceiling * (shareCharged[c] + ShareTaken(c, reading[c]))
          = Ceiling * shareCharged[c] + Ceiling * ShareTaken(c, reading[c])
    BY <1>1, <1>4
  <2>2. Unit * (wallCharged[c] + (reading[c] - segStart[c]))
          = Unit * wallCharged[c] + Unit * (reading[c] - segStart[c])
    BY <1>1, Distribute
  <2>3. /\ Ceiling * shareCharged[c] \in Int /\ Ceiling * ShareTaken(c, reading[c]) \in Int
        /\ Unit * wallCharged[c] \in Int /\ Unit * (reading[c] - segStart[c]) \in Int
    BY <1>1, <1>4
  <2>4. Ceiling * shareCharged[c] >= Unit * wallCharged[c]
    BY <1>1 DEF Bill
  <2> QED BY <1>4, <1>6, <2>1, <2>2, <2>3, <2>4
<1>8. c \in SelfHosted =>
        /\ cursor'[c] <= integral'
        /\ Ceiling * (integral' - cursor'[c]) >= Unit * (last' - segStart'[c])
  <2> SUFFICES ASSUME c \in SelfHosted
               PROVE  /\ cursor'[c] <= integral'
                      /\ Ceiling * (integral' - cursor'[c]) >= Unit * (last' - segStart'[c])
    OBVIOUS
  <2>1. integral' \in Int /\ cursor'[c] = integral' /\ last' - segStart'[c] = 0
    BY <1>1, <1>4, <1>6
  <2> QED BY <1>1, <2>1
<1>9. /\ wallCharged'[c] = segStart'[c] - started'[c]
      /\ segStart'[c] <= clock' /\ reading'[c] <= clock'
  BY <1>1, <1>6 DEF Bill
<1>10. pc'[c] \notin Unmetered /\ pc'[c] \notin {"closing", "ending"}
  BY DEF Unmetered, Failed, Starting
<1> QED BY <1>5, <1>7, <1>8, <1>9, <1>10 DEF Bill

LEMMA StartedBill ==
    ASSUME Context, BillInv, NEW c \in Calls, StartMeter(c)
    PROVE  Bill(c)' /\ MeterTypes'
<1>1. /\ clock \in Int /\ reading[c] \in Int /\ integral \in Nat /\ Bill(c)
      /\ pc[c] = "metering" /\ wallCharged[c] = 0 /\ shareCharged[c] = 0
      /\ Ceiling \in Nat /\ Unit \in Nat
  BY CeilingAssumption, UnitAssumption
  DEF Context, ReadingTypes, BillInv, Bill, SupInv, SupTypeOK, StartMeter, At, Unmetered,
      Failed, Starting
<1>2. c \in SelfHosted => integral' \in Nat /\ last' = reading[c]
  BY <1>1, AdvanceAccrues DEF StartMeter, ShareCursor, Context
<1>3. /\ started' = [started EXCEPT ![c] = reading[c]]
      /\ segStart' = [segStart EXCEPT ![c] = reading[c]]
      /\ cursor' = [cursor EXCEPT ![c] = IF c \in SelfHosted THEN integral' ELSE 0]
      /\ pc' = [pc EXCEPT ![c] = "ready"]
      /\ UNCHANGED <<reading, clock, wallCharged, shareCharged>>
  BY DEF StartMeter, Goto
<1>4. MeterTypes'
  BY <1>1, <1>2, <1>3 DEF BillInv, MeterTypes
<1>5. pc'[c] = "ready" /\ segStart'[c] = reading[c] /\ started'[c] = reading[c]
  BY <1>3 DEF BillInv, MeterTypes, Context, SlotInv, SlotTypes
<1>6. c \in SelfHosted =>
        /\ cursor'[c] <= integral'
        /\ Ceiling * (integral' - cursor'[c]) >= Unit * (last' - segStart'[c])
  <2> SUFFICES ASSUME c \in SelfHosted
               PROVE  /\ cursor'[c] <= integral'
                      /\ Ceiling * (integral' - cursor'[c]) >= Unit * (last' - segStart'[c])
    OBVIOUS
  <2>1. cursor'[c] = integral' /\ integral' - cursor'[c] = 0 /\ last' - segStart'[c] = 0
    BY <1>1, <1>2, <1>3, <1>5 DEF BillInv, MeterTypes
  <2> QED BY <1>1, <1>2, <2>1
<1>7. pc'[c] \notin Unmetered /\ pc'[c] \notin {"closing", "ending"}
  BY <1>5 DEF Unmetered, Failed, Starting
<1> QED BY <1>1, <1>3, <1>4, <1>5, <1>6, <1>7 DEF Bill

-----------------------------------------------------------------------------
(* Every thread but the one that moves keeps its meter.                    *)
OthersUntouched(c) == \A d \in Calls \ {c} : MeterUntouched(d)

LEMMA MeterUntouchedBy ==
    ASSUME Context, BillInv, NEW c \in Calls, Start(c) \/ Meter(c) \/ End(c),
           ~StartMeter(c), ~RecordTurn(c), ~CloseTail(c)
    PROVE  /\ \A d \in Calls : MeterUntouched(d)
           /\ UNCHANGED <<clock, started, segStart, cursor, wallCharged, shareCharged>>
<1> USE DEF Context, ReadingTypes, SlotInv, SlotTypes, BillInv, MeterTypes, MeterUntouched,
            Goto, At, ReadClock, meterVars, callVars,
            Unmetered, Points, Failed, Starting, Metered, InSession, Ending, Settled
<1>1. CASE RefuseUnvetted(c) BY <1>1 DEF RefuseUnvetted
<1>2. CASE ReadStart(c) BY <1>2 DEF ReadStart
<1>3. CASE Admit(c) BY <1>3 DEF Admit
<1>4. CASE RejectAtCapacity(c) BY <1>4 DEF RejectAtCapacity
<1>5. CASE Persist(c) BY <1>5 DEF Persist
<1>6. CASE PersistFails(c) BY <1>6 DEF PersistFails
<1>7. CASE BackOut(c) BY <1>7 DEF BackOut
<1>8. CASE EnterSession(c) BY <1>8 DEF EnterSession
<1>9. CASE AbandonCall(c) BY <1>9 DEF AbandonCall
<1>10. CASE LoseEnd(c) BY <1>10 DEF LoseEnd
<1>11. CASE StreamAudio(c) BY <1>11 DEF StreamAudio
<1>12. CASE ReadForTick(c) BY <1>12 DEF ReadForTick
<1>13. CASE Peek(c) BY <1>13 DEF Peek
<1>14. CASE ReadForRecord(c) BY <1>14 DEF ReadForRecord
<1>15. CASE ReadForEnd(c) BY <1>15 DEF ReadForEnd
<1>16. CASE GiveSlotBack(c) BY <1>16 DEF GiveSlotBack
<1>17. CASE SaveEnd(c) BY <1>17 DEF SaveEnd
<1>18. CASE SaveFails(c) BY <1>18 DEF SaveFails
<1>19. CASE EmitFails(c) BY <1>19 DEF EmitFails
<1>20. CASE CommitLate(c) BY <1>20 DEF CommitLate
<1> QED BY <1>1, <1>2, <1>3, <1>4, <1>5, <1>6, <1>7, <1>8, <1>9, <1>10, <1>11, <1>12,
           <1>13, <1>14, <1>15, <1>16, <1>17, <1>18, <1>19, <1>20 DEF Start, Meter, End

LEMMA OthersUntouchedBy ==
    ASSUME Context, BillInv, NEW c \in Calls, StartMeter(c) \/ RecordTurn(c) \/ CloseTail(c)
    PROVE  OthersUntouched(c) /\ UNCHANGED clock
<1> USE DEF Context, ReadingTypes, SlotInv, SlotTypes, BillInv, MeterTypes, MeterUntouched,
            OthersUntouched, Goto, At
<1>1. CASE StartMeter(c) BY <1>1 DEF StartMeter
<1>2. CASE RecordTurn(c) BY <1>2 DEF RecordTurn, CloseSegment, ChargeSegment, ResetSegment
<1>3. CASE CloseTail(c) BY <1>3 DEF CloseTail, CloseSegment, ChargeSegment, ResetSegment
<1> QED BY <1>1, <1>2, <1>3

LEMMA BillStep == Context /\ Context' /\ BillInv /\ [Next]_vars => BillInv'
<1> SUFFICES ASSUME Context, Context', BillInv, [Next]_vars PROVE BillInv'
  OBVIOUS
<1>1. FloorStep /\ integral' \in Int /\ clock' \in Int /\ clock \in Int
  BY StepIsSupervisorStep, SupervisorKeepsFloor
  DEF Context, SupInv, SupTypeOK, ReadingTypes
<1>2. Busy => last' \in Int
  <2> SUFFICES ASSUME Busy PROVE last' \in Int
    OBVIOUS
  <2>1. last \in Int /\ [SupNext]_supVars
    BY StepIsSupervisorStep DEF Context, SupInv, SupTypeOK
  <2>2. ASSUME NEW c \in Calls, NEW now \in Readings,
               Acquire(c, now) \/ Release(c, now) \/ ShareCursor(now)
        PROVE  last' \in Int
    BY <2>2, ReadingsAssumption DEF Acquire, Release, ShareCursor, Advance
  <2>3. ASSUME NEW c \in Calls, AcquireAgain(c) \/ AcquireRefused(c) \/ ReleaseAbsent(c)
        PROVE  last' \in Int
    BY <2>1, <2>3 DEF AcquireAgain, AcquireRefused, ReleaseAbsent, supVars
  <2> QED BY <2>1, <2>2, <2>3 DEF SupNext, supVars
<1>3. CASE UNCHANGED vars \/ Tick
  <2>1. clock' >= clock /\ UNCHANGED <<meterVars, callVars>>
    BY <1>1, <1>3 DEF vars, Tick
  <2>2. \A d \in Calls : MeterUntouched(d)
    BY <2>1 DEF meterVars, callVars, MeterUntouched
  <2>3. \A d \in Calls : Bill(d)'
    BY <1>1, <1>2, <2>1, <2>2, UntouchedBill
  <2> QED BY <2>1, <2>3 DEF BillInv, MeterTypes, meterVars, callVars
<1>4. ASSUME NEW c \in Calls, Start(c) \/ Meter(c) \/ End(c),
             ~StartMeter(c), ~RecordTurn(c), ~CloseTail(c)
      PROVE  BillInv'
  <2>1. /\ \A d \in Calls : MeterUntouched(d)
        /\ UNCHANGED <<clock, started, segStart, cursor, wallCharged, shareCharged>>
    BY <1>4, MeterUntouchedBy
  <2>2. \A d \in Calls : Bill(d)'
    BY <1>1, <1>2, <2>1, UntouchedBill
  <2> QED BY <2>1, <2>2 DEF BillInv, MeterTypes
<1>5. ASSUME NEW c \in Calls, StartMeter(c) \/ RecordTurn(c) \/ CloseTail(c)
      PROVE  BillInv'
  <2>1. OthersUntouched(c) /\ UNCHANGED clock
    BY <1>5, OthersUntouchedBy
  <2>2. \A d \in Calls \ {c} : Bill(d)'
    BY <1>1, <1>2, <2>1, UntouchedBill DEF OthersUntouched
  <2>3. CASE StartMeter(c)
    BY <2>2, <2>3, StartedBill DEF BillInv
  <2>4. CASE RecordTurn(c)
    <3>1. /\ CloseSegment(c, reading[c]) /\ pc[c] \in {"closing", "ending"}
          /\ UNCHANGED <<started, reading, clock>> /\ pc'[c] = "talking"
      BY <2>4 DEF RecordTurn, At, Goto, Context, SlotInv, SlotTypes
    <3> QED BY <2>2, <3>1, ClosedBill DEF BillInv
  <2>5. CASE CloseTail(c)
    <3>1. /\ CloseSegment(c, reading[c]) /\ pc[c] \in {"closing", "ending"}
          /\ UNCHANGED <<started, reading, clock>> /\ pc'[c] = "releasing"
      BY <2>5 DEF CloseTail, At, Goto, Context, SlotInv, SlotTypes
    <3> QED BY <2>2, <3>1, ClosedBill DEF BillInv
  <2> QED BY <1>5, <2>3, <2>4, <2>5
<1> QED BY <1>3, <1>4, <1>5 DEF Next

LEMMA InitBill == Init => BillInv
<1> SUFFICES ASSUME Init PROVE BillInv
  OBVIOUS
<1>1. MeterTypes
  BY DEF Init, MeterTypes
<1>2. ASSUME NEW c \in Calls PROVE Bill(c)
  BY CeilingAssumption, UnitAssumption
  DEF Init, Bill, Metered, Settled, InSession, Ending
<1> QED BY <1>1, <1>2 DEF BillInv

LEMMA ContextHolds == Spec => []Context
<1>1. SupInit => SupInv BY SupInitEstablishes
<1>2. SupInv /\ [SupNext]_supVars => SupInv' BY SupStepPreserves
<1>3. Spec => []SupInv
  BY <1>1, <1>2, LifecycleImplementsSupervisor, PTL DEF SupSpec
<1>4. ReadingTypes /\ SlotInv /\ SupInv => Context BY DEF Context
<1> QED BY <1>3, <1>4, ReadingTypesHold, SlotInvHolds, PTL

(* The segments of a call tile its time exactly, and no call is charged    *)
(* less than 1/Ceiling of it.                                              *)
THEOREM BillsAreFair == Spec => [](WallBilledOnce /\ NoShareBelowFloor)
<1>1. BillInv => WallBilledOnce /\ NoShareBelowFloor
  BY DEF BillInv, Bill, WallBilledOnce, NoShareBelowFloor
<1> QED BY <1>1, InitBill, BillStep, ContextHolds, PTL DEF Spec

-----------------------------------------------------------------------------
(* Part 5: usage.  What is charged for audio is what was marked as billed, *)
(* and a call that has closed its tail has nothing unbilled left.          *)

UsageTypes ==
    /\ started \in [Calls -> 0..MaxClock]
    /\ segStart \in [Calls -> 0..MaxClock]
    /\ cursor \in [Calls -> Nat]
    /\ sttTotal \in [Calls -> 0..MaxAudio]
    /\ sttBilled \in [Calls -> 0..MaxAudio]
    /\ turns \in [Calls -> 0..MaxTurns]
    /\ wallCharged \in [Calls -> Nat]
    /\ shareCharged \in [Calls -> Nat]
    /\ sttCharged \in [Calls -> Nat]

Audio(c) ==
    /\ sttCharged[c] = sttBilled[c] /\ sttBilled[c] <= sttTotal[c]
    /\ pc[c] \in {"releasing"} \cup Settled => sttBilled[c] = sttTotal[c]

(* A turn about to be recorded is within the bound on turns.               *)
RoomToRecord == \A c \in Calls : pc[c] = "closing" => turns[c] < MaxTurns

UsageInv == UsageTypes /\ RoomToRecord /\ \A c \in Calls : Audio(c)

LEMMA InitUsage == Init => UsageInv
BY ClockAssumption, BoundsAssumption
DEF Init, UsageInv, UsageTypes, RoomToRecord, Audio, Settled

(* The steps that touch no meter and count no turn.                        *)
LEMMA UsageKept ==
    ASSUME Context, UsageInv, NEW c \in Calls, Start(c) \/ Meter(c) \/ End(c),
           ~StartMeter(c), ~StreamAudio(c), ~RecordTurn(c), ~CloseTail(c)
    PROVE  UsageInv'
<1>1. UNCHANGED <<meterVars, started, turns>>
  BY DEF Start, Meter, End, RefuseUnvetted, ReadStart, Admit, RejectAtCapacity, Persist,
         PersistFails, BackOut, EmitFails, EnterSession, AbandonCall, LoseEnd, ReadForTick, Peek,
         ReadForRecord, ReadForEnd, GiveSlotBack, SaveEnd, SaveFails, CommitLate
<1>2. UsageTypes'
  BY <1>1 DEF UsageInv, UsageTypes, meterVars
<1>3. ASSUME NEW d \in Calls, pc'[d] \in {"releasing"} \cup Settled
      PROVE  pc[d] \in {"releasing"} \cup Settled
  BY <1>3 DEF Start, Meter, End, RefuseUnvetted, ReadStart, Admit, RejectAtCapacity,
         Persist, PersistFails, BackOut, EmitFails, EnterSession, AbandonCall, LoseEnd, ReadForTick,
         Peek, ReadForRecord, ReadForEnd, GiveSlotBack, SaveEnd, SaveFails, CommitLate, Goto,
         At,
         Context, SlotInv, SlotTypes, Settled
<1>4. \A d \in Calls : Audio(d)'
  BY <1>1, <1>3 DEF UsageInv, Audio, meterVars
<1>5. RoomToRecord'
  BY <1>1 DEF Start, Meter, End, RefuseUnvetted, ReadStart, Admit, RejectAtCapacity,
         Persist, PersistFails, BackOut, EmitFails, EnterSession, AbandonCall, LoseEnd, ReadForTick,
         Peek, ReadForRecord, ReadForEnd, GiveSlotBack, SaveEnd, SaveFails, CommitLate, Goto,
         Context, SlotInv, SlotTypes, UsageInv, RoomToRecord
<1> QED BY <1>2, <1>4, <1>5 DEF UsageInv

(* A segment that is closed charges what is unbilled, and no less than     *)
(* nothing for the GPU.                                                    *)
LEMMA UsageClosed ==
    ASSUME Context, Context', BillInv, FloorStep, UsageInv, NEW c \in Calls,
           CloseSegment(c, reading[c]), pc[c] \in {"closing", "ending"},
           started' = started, turns' \in [Calls -> 0..MaxTurns],
           \A d \in Calls \ {c} : turns'[d] = turns[d],
           pc' = [pc EXCEPT ![c] = pc'[c]], pc'[c] \in {"talking", "releasing"}
    PROVE  UsageInv'
<1>1. /\ reading[c] \in 0..MaxClock /\ integral \in Nat /\ integral' \in Nat
      /\ cursor[c] \in Nat /\ segStart[c] \in 0..MaxClock
      /\ Bill(c) /\ Audio(c) /\ pc[c] \in Metered
  BY DEF Context, ReadingTypes, SupInv, SupTypeOK, UsageInv, UsageTypes, BillInv,
         Metered, InSession, Ending
<1>2. Wall(c, reading[c]) \in Nat
  BY <1>1, ClockAssumption DEF Wall, AtLeastZero
<1>3. ShareTaken(c, reading[c]) \in Nat
  <2>1. CASE c \in SelfHosted
    <3>1. cursor[c] <= integral /\ integral' >= integral
      BY <1>1, <2>1 DEF Bill, FloorStep
    <3> QED BY <1>1, <2>1, <3>1 DEF ShareTaken
  <2>2. CASE c \notin SelfHosted
    BY <1>2, <2>2, UnitAssumption DEF ShareTaken
  <2> QED BY <2>1, <2>2
<1>4. /\ sttCharged[c] = sttBilled[c] /\ sttBilled[c] \in 0..MaxAudio
      /\ sttTotal[c] \in 0..MaxAudio
  BY <1>1 DEF Audio, UsageInv, UsageTypes
<1>5. sttCharged[c] + sttTotal[c] - sttBilled[c] = sttTotal[c]
  BY <1>4, BoundsAssumption
<1>6. /\ segStart' = [segStart EXCEPT ![c] = reading[c]]
      /\ cursor' = [cursor EXCEPT ![c] = IF c \in SelfHosted THEN integral' ELSE @]
      /\ sttBilled' = [sttBilled EXCEPT ![c] = sttTotal[c]]
      /\ sttCharged' = [sttCharged EXCEPT ![c] = sttTotal[c]]
      /\ sttTotal' = sttTotal
  BY <1>5 DEF CloseSegment, ChargeSegment, ResetSegment
<1>7. /\ wallCharged' = [wallCharged EXCEPT ![c] = wallCharged[c] + Wall(c, reading[c])]
      /\ shareCharged' = [shareCharged EXCEPT ![c] = shareCharged[c] + ShareTaken(c, reading[c])]
  BY DEF CloseSegment, ChargeSegment
<1>8. wallCharged[c] + Wall(c, reading[c]) \in Nat
  BY <1>2 DEF UsageInv, UsageTypes
<1>9. shareCharged[c] + ShareTaken(c, reading[c]) \in Nat
  BY <1>3 DEF UsageInv, UsageTypes
<1>10. sttTotal[c] \in Nat
  BY <1>4, BoundsAssumption
<1>11. UsageTypes'
  BY <1>1, <1>4, <1>6, <1>7, <1>8, <1>9, <1>10 DEF UsageInv, UsageTypes
<1>12. ASSUME NEW d \in Calls PROVE Audio(d)'
  <2>1. CASE d = c
    BY <1>4, <1>6, <2>1, BoundsAssumption DEF Audio, UsageInv, UsageTypes
  <2>2. CASE d # c
    BY <1>6, <2>2 DEF Audio, UsageInv, UsageTypes, Context, SlotInv, SlotTypes
  <2> QED BY <2>1, <2>2
<1>13. RoomToRecord'
  <2> SUFFICES ASSUME NEW d \in Calls, pc'[d] = "closing" PROVE turns'[d] < MaxTurns
    BY DEF RoomToRecord
  <2>1. d # c /\ pc[d] = "closing"
    BY DEF Context, SlotInv, SlotTypes
  <2> QED BY <2>1 DEF UsageInv, RoomToRecord
<1> QED BY <1>11, <1>12, <1>13 DEF UsageInv

LEMMA UsageStep ==
    Context /\ Context' /\ BillInv /\ UsageInv /\ [Next]_vars => UsageInv'
<1> SUFFICES ASSUME Context, Context', BillInv, UsageInv, [Next]_vars PROVE UsageInv'
  OBVIOUS
<1>1. FloorStep
  BY StepIsSupervisorStep, SupervisorKeepsFloor DEF Context
<1>2. CASE UNCHANGED vars \/ Tick
  BY <1>2 DEF vars, Tick, meterVars, callVars, UsageInv, UsageTypes, RoomToRecord, Audio
<1>3. ASSUME NEW c \in Calls, StartMeter(c) PROVE UsageInv'
  <2>1. /\ reading[c] \in 0..MaxClock /\ integral' \in Nat
    BY DEF Context, ReadingTypes, SupInv, SupTypeOK
  <2>2. UsageTypes'
    BY <1>3, <2>1 DEF StartMeter, UsageInv, UsageTypes
  <2>3. \A d \in Calls : Audio(d)'
    BY <1>3 DEF StartMeter, Goto, UsageInv, Audio, Settled, Context, SlotInv, SlotTypes
  <2>4. RoomToRecord'
    BY <1>3 DEF StartMeter, Goto, UsageInv, RoomToRecord, Context, SlotInv, SlotTypes
  <2> QED BY <2>2, <2>3, <2>4 DEF UsageInv
<1>4. ASSUME NEW c \in Calls, StreamAudio(c) PROVE UsageInv'
  <2>1. sttTotal[c] + 1 \in 0..MaxAudio /\ sttBilled[c] <= sttTotal[c] + 1
    BY <1>4, BoundsAssumption DEF StreamAudio, UsageInv, UsageTypes, Audio
  <2>2. UsageTypes'
    BY <1>4, <2>1 DEF StreamAudio, callVars, UsageInv, UsageTypes
  <2>3. \A d \in Calls : Audio(d)'
    BY <1>4, <2>1 DEF StreamAudio, At, callVars, UsageInv, UsageTypes, Audio, Settled
  <2>4. RoomToRecord'
    BY <1>4 DEF StreamAudio, callVars, UsageInv, RoomToRecord
  <2> QED BY <2>2, <2>3, <2>4 DEF UsageInv
<1>5. ASSUME NEW c \in Calls, RecordTurn(c) PROVE UsageInv'
  <2>1. turns[c] + 1 \in 0..MaxTurns
    BY <1>5, BoundsAssumption DEF RecordTurn, At, UsageInv, UsageTypes, RoomToRecord
  <2> QED BY <1>1, <1>5, <2>1, UsageClosed
          DEF RecordTurn, At, Goto, UsageInv, UsageTypes, Context, SlotInv, SlotTypes
<1>6. ASSUME NEW c \in Calls, CloseTail(c) PROVE UsageInv'
  BY <1>1, <1>6, UsageClosed
  DEF CloseTail, At, Goto, UsageInv, UsageTypes, Context, SlotInv, SlotTypes
<1> QED BY <1>2, <1>3, <1>4, <1>5, <1>6, UsageKept DEF Next

(* However peeks, turns and the end of a call interleave with its audio    *)
(* and with other calls: what it used is billed once, its segments tile    *)
(* its time, every second of its audio is in one of them, and by the end   *)
(* all are.                                                                *)
THEOREM UsageIsBilledOnce == Spec => []UsageBilledOnce
<1>1. Context /\ BillInv /\ UsageInv => UsageBilledOnce
  <2> SUFFICES ASSUME Context, BillInv, UsageInv PROVE UsageBilledOnce
    OBVIOUS
  <2>1. TypeOK
    BY DEF Context, ReadingTypes, SlotInv, SlotTypes, SupInv, UsageInv, UsageTypes, TypeOK
  <2>2. WallBilledOnce
    BY DEF BillInv, Bill, WallBilledOnce
  <2>3. AudioBilledOnce
    BY DEF UsageInv, Audio, AudioBilledOnce
  <2> QED BY <2>1, <2>2, <2>3 DEF UsageBilledOnce
<1> QED BY <1>1, InitBill, InitUsage, BillStep, UsageStep, ContextHolds, PTL DEF Spec

-----------------------------------------------------------------------------
(* Part 6: the other bound.  What a call is charged beyond its wall time   *)
(* is at most what late readings rewound, whoever made them: between two   *)
(* operations the integral grows by no more than the clock and `rewound`   *)
(* together.                                                               *)

RewindStep ==
    /\ rewound' >= rewound
    /\ Busy => integral' - integral <= Unit * ((last' - last) + (rewound' - rewound))

LEMMA PartOfSum ==
    ASSUME NEW n \in Nat \ {0}, NEW i \in Nat, NEW j \in Nat, j >= i, NEW k \in Int,
           n * j = n * i + k
    PROVE  j - i <= k
<1>1. n * j = n * i + n * (j - i) OBVIOUS
<1>2. n * (j - i) = (j - i) + (n - 1) * (j - i) OBVIOUS
<1>3. (n - 1) * (j - i) \in Nat /\ n * i \in Int /\ n * (j - i) \in Int OBVIOUS
<1> QED BY <1>1, <1>2, <1>3

LEMMA AdvanceCap ==
    ASSUME SupInv, NEW now \in Int, Advance(now)
    PROVE  RewindStep
<1>1. rewound' >= rewound /\ rewound' \in Nat
  BY AdvanceAccrues DEF Advance, AtLeastZero, SupInv, SupTypeOK, Busy
<1>2. ASSUME Busy
      PROVE  integral' - integral <= Unit * ((last' - last) + (rewound' - rewound))
  <2>1. /\ integral \in Nat /\ integral' \in Nat /\ integral' >= integral
        /\ last' = now /\ last \in Int /\ rewound \in Int /\ rewound' \in Int
    BY <1>1, <1>2, AdvanceAccrues DEF SupInv, SupTypeOK
  <2>2. Cardinality(active) * integral'
          = Cardinality(active) * integral + Unit * ((last' - last) + (rewound' - rewound))
    BY <1>2, <2>1, AdvanceAccrues
  <2>3. Cardinality(active) \in Nat \ {0}
    BY <1>2, SliceIsExact DEF SupInv
  <2>4. Unit * ((last' - last) + (rewound' - rewound)) \in Int
    BY <2>1, UnitAssumption
  <2> QED BY <2>1, <2>2, <2>3, <2>4, PartOfSum
<1> QED BY <1>1, <1>2 DEF RewindStep

LEMMA SupervisorKeepsCap == SupInv /\ [SupNext]_supVars => RewindStep
<1> SUFFICES ASSUME SupInv, [SupNext]_supVars PROVE RewindStep
  OBVIOUS
<1>1. CASE UNCHANGED supVars
  BY <1>1, UnitAssumption DEF supVars, RewindStep, SupInv, SupTypeOK
<1>2. ASSUME NEW c \in Calls, NEW now \in Readings,
             Acquire(c, now) \/ Release(c, now) \/ ShareCursor(now)
      PROVE  RewindStep
  <2> now \in Int /\ Advance(now)
    BY <1>2, ReadingsAssumption DEF Acquire, Release, ShareCursor
  <2> QED BY AdvanceCap
<1>3. ASSUME NEW c \in Calls, AcquireAgain(c) \/ AcquireRefused(c) \/ ReleaseAbsent(c)
      PROVE  UNCHANGED supVars
  BY <1>3 DEF AcquireAgain, AcquireRefused, ReleaseAbsent
<1> QED BY <1>1, <1>2, <1>3 DEF SupNext

(* The bound on what was charged, and on what would be, were the open      *)
(* segment closed at the supervisor's time.                                *)
Cap(c) ==
    /\ shareCharged[c] <= Unit * (wallCharged[c] + rewound)
    /\ c \in SelfHosted /\ pc[c] \in Metered =>
         shareCharged[c] + (integral - cursor[c])
           <= Unit * (wallCharged[c] + (last - segStart[c]) + rewound)

CapInv == \A c \in Calls : Cap(c)

LEMMA UntouchedCap ==
    ASSUME Context, Context', BillInv, CapInv, RewindStep,
           NEW d \in Calls, MeterUntouched(d)
    PROVE  Cap(d)'
<1>1. /\ segStart[d] \in Int /\ cursor[d] \in Int /\ wallCharged[d] \in Int
      /\ shareCharged[d] \in Int /\ integral \in Nat /\ integral' \in Nat
      /\ rewound \in Nat /\ rewound' \in Nat /\ rewound' >= rewound /\ Unit \in Nat /\ Cap(d)
  BY UnitAssumption
  DEF Context, SupInv, SupTypeOK, BillInv, MeterTypes, CapInv, RewindStep
<1>2. shareCharged'[d] <= Unit * (wallCharged'[d] + rewound')
  <2>1. Unit * (wallCharged[d] + rewound') >= Unit * (wallCharged[d] + rewound)
    BY <1>1, ScaleMonotone
  <2>2. Unit * (wallCharged[d] + rewound') \in Int /\ Unit * (wallCharged[d] + rewound) \in Int
    BY <1>1
  <2> QED BY <1>1, <2>1, <2>2 DEF MeterUntouched, Cap
<1>3. ASSUME d \in SelfHosted, pc'[d] \in Metered
      PROVE  shareCharged[d] + (integral' - cursor[d])
               <= Unit * (wallCharged[d] + (last' - segStart[d]) + rewound')
  <2>1. pc[d] \in Metered
    BY <1>3 DEF MeterUntouched
  <2>2. Busy /\ Busy'
    BY <1>3, <2>1 DEF Context, SlotInv, SlotHeldByLiveCall, HoldsSlot, Busy
  <2>3. last \in Int /\ last' \in Int
    BY <2>2 DEF Context, SupInv, SupTypeOK
  <2> DEFINE before == wallCharged[d] + (last - segStart[d]) + rewound
             moved == (last' - last) + (rewound' - rewound)
  <2>4. before \in Int /\ moved \in Int
    BY <1>1, <2>3
  <2>5. /\ shareCharged[d] + (integral - cursor[d]) <= Unit * before
        /\ integral' - integral <= Unit * moved
    BY <1>1, <1>3, <2>1, <2>2 DEF Cap, RewindStep
  <2>6. wallCharged[d] + (last' - segStart[d]) + rewound' = before + moved
    BY <1>1, <2>3
  <2> HIDE DEF before, moved
  <2>7. Unit * (before + moved) = Unit * before + Unit * moved
    BY <1>1, <2>4, Distribute
  <2>8. Unit * before \in Int /\ Unit * moved \in Int
    BY <1>1, <2>4
  <2> QED BY <1>1, <2>5, <2>6, <2>7, <2>8
<1> QED BY <1>2, <1>3 DEF MeterUntouched, Cap

LEMMA ClosedCap ==
    ASSUME Context, Context', BillInv, UsageInv, CapInv, RewindStep, NEW c \in Calls,
           CloseSegment(c, reading[c]), pc[c] \in {"closing", "ending"}
    PROVE  Cap(c)'
<1>1. /\ reading[c] \in Int /\ segStart[c] \in Int /\ cursor[c] \in Int
      /\ wallCharged[c] \in Int /\ shareCharged[c] \in Int
      /\ integral \in Nat /\ integral' \in Nat /\ rewound \in Nat /\ rewound' \in Nat
      /\ rewound' >= rewound /\ Unit \in Nat
      /\ Cap(c) /\ Bill(c) /\ pc[c] \in Metered
  BY UnitAssumption, ClockAssumption
  DEF Context, ReadingTypes, SupInv, SupTypeOK, BillInv, MeterTypes, CapInv, RewindStep,
      Metered, InSession, Ending
<1>2. Wall(c, reading[c]) = reading[c] - segStart[c]
  <2>1. segStart[c] <= reading[c]
    BY <1>1 DEF Bill
  <2> QED BY <1>1, <2>1 DEF Wall, AtLeastZero
<1>3. /\ segStart'[c] = reading[c]
      /\ wallCharged'[c] = wallCharged[c] + (reading[c] - segStart[c])
      /\ shareCharged'[c] = shareCharged[c] + ShareTaken(c, reading[c])
      /\ c \in SelfHosted => cursor'[c] = integral'
  BY <1>2 DEF CloseSegment, ChargeSegment, ResetSegment, BillInv, MeterTypes
<1>4. CASE c \in SelfHosted
  <2>1. Busy /\ last \in Int /\ last' = reading[c]
    BY <1>1, <1>4, AdvanceAccrues
    DEF CloseSegment, ShareCursor, Context, SlotInv, SlotHeldByLiveCall, HoldsSlot, Busy,
        SupInv, SupTypeOK
  <2> DEFINE before == wallCharged[c] + (last - segStart[c]) + rewound
             moved == (last' - last) + (rewound' - rewound)
  <2>2. before \in Int /\ moved \in Int
    BY <1>1, <2>1
  <2>3. /\ shareCharged[c] + (integral - cursor[c]) <= Unit * before
        /\ integral' - integral <= Unit * moved
    BY <1>1, <1>4, <2>1 DEF Cap, RewindStep
  <2>4. wallCharged'[c] + rewound' = before + moved
    BY <1>1, <1>3, <2>1
  <2> HIDE DEF before, moved
  <2>5. Unit * (before + moved) = Unit * before + Unit * moved
    BY <1>1, <2>2, Distribute
  <2>6. Unit * before \in Int /\ Unit * moved \in Int
    BY <1>1, <2>2
  <2>7. shareCharged'[c] = shareCharged[c] + (integral' - cursor[c])
    BY <1>3, <1>4 DEF ShareTaken
  <2>8. shareCharged'[c] <= Unit * (wallCharged'[c] + rewound')
    BY <1>1, <2>3, <2>4, <2>5, <2>6, <2>7
  <2>9. /\ integral' - cursor'[c] = 0
        /\ wallCharged'[c] + (last' - segStart'[c]) + rewound' = wallCharged'[c] + rewound'
        /\ shareCharged'[c] \in Int
    BY <1>1, <1>3, <1>4, <2>1, <2>7
  <2> QED BY <2>8, <2>9 DEF Cap
<1>5. CASE c \notin SelfHosted
  <2> DEFINE before == wallCharged[c] + rewound
             moved == (reading[c] - segStart[c]) + (rewound' - rewound)
  <2>1. shareCharged'[c] = shareCharged[c] + Unit * (reading[c] - segStart[c])
    BY <1>2, <1>3, <1>5 DEF ShareTaken
  <2>2. Unit * moved >= Unit * (reading[c] - segStart[c])
    BY <1>1, ScaleMonotone
  <2>3. wallCharged'[c] + rewound' = before + moved /\ before \in Int /\ moved \in Int
    BY <1>1, <1>3
  <2>4. shareCharged[c] <= Unit * before
    BY <1>1 DEF Cap
  <2>5. Unit * (reading[c] - segStart[c]) \in Int
    BY <1>1
  <2> HIDE DEF before, moved
  <2>6. Unit * (before + moved) = Unit * before + Unit * moved
    BY <1>1, <2>3, Distribute
  <2>7. Unit * before \in Int /\ Unit * moved \in Int
    BY <1>1, <2>3
  <2>8. shareCharged'[c] <= Unit * (wallCharged'[c] + rewound')
    BY <1>1, <2>1, <2>2, <2>3, <2>4, <2>5, <2>6, <2>7
  <2> QED BY <1>5, <2>8 DEF Cap
<1> QED BY <1>4, <1>5

LEMMA NoLessThanNothing ==
    ASSUME NEW k \in Nat, NEW x \in Nat
    PROVE  k * (0 + x) >= 0
<1>1. k * (0 + x) \in Nat OBVIOUS
<1> QED BY <1>1

LEMMA StartedCap ==
    ASSUME Context, Context', BillInv, NEW c \in Calls, StartMeter(c)
    PROVE  Cap(c)'
<1>1. /\ reading[c] \in Int /\ integral' \in Nat /\ rewound' \in Nat /\ Unit \in Nat
      /\ wallCharged[c] = 0 /\ shareCharged[c] = 0
  BY UnitAssumption
  DEF Context, ReadingTypes, BillInv, Bill, SupInv, SupTypeOK, StartMeter, At, Unmetered,
      Failed, Starting
<1>2. /\ wallCharged'[c] = 0 /\ shareCharged'[c] = 0 /\ segStart'[c] = reading[c]
      /\ c \in SelfHosted => cursor'[c] = integral' /\ last' = reading[c]
  BY <1>1, AdvanceAccrues DEF StartMeter, ShareCursor, Context, BillInv, MeterTypes
<1>3. Unit * (0 + rewound') >= 0
  BY <1>1, NoLessThanNothing
<1>4. c \in SelfHosted =>
        /\ integral' - cursor'[c] = 0
        /\ wallCharged'[c] + (last' - segStart'[c]) + rewound' = 0 + rewound'
  BY <1>1, <1>2
<1> QED BY <1>2, <1>3, <1>4 DEF Cap

LEMMA CapStep ==
    Context /\ Context' /\ BillInv /\ UsageInv /\ CapInv /\ [Next]_vars => CapInv'
<1> SUFFICES ASSUME Context, Context', BillInv, UsageInv, CapInv, [Next]_vars PROVE CapInv'
  OBVIOUS
<1>1. RewindStep
  BY StepIsSupervisorStep, SupervisorKeepsCap DEF Context
<1>2. CASE UNCHANGED vars \/ Tick
  <2>1. \A d \in Calls : MeterUntouched(d)
    BY <1>2 DEF vars, Tick, meterVars, callVars, MeterUntouched
  <2> QED BY <1>1, <2>1, UntouchedCap DEF CapInv
<1>3. ASSUME NEW c \in Calls, Start(c) \/ Meter(c) \/ End(c),
             ~StartMeter(c), ~RecordTurn(c), ~CloseTail(c)
      PROVE  CapInv'
  BY <1>1, <1>3, MeterUntouchedBy, UntouchedCap DEF CapInv
<1>4. ASSUME NEW c \in Calls, StartMeter(c) \/ RecordTurn(c) \/ CloseTail(c)
      PROVE  CapInv'
  <2>1. \A d \in Calls \ {c} : Cap(d)'
    BY <1>1, <1>4, OthersUntouchedBy, UntouchedCap DEF OthersUntouched
  <2>2. Cap(c)'
    BY <1>1, <1>4, StartedCap, ClosedCap DEF RecordTurn, CloseTail, At
  <2> QED BY <2>1, <2>2 DEF CapInv
<1> QED BY <1>2, <1>3, <1>4 DEF Next

(* No call is charged more GPU time than it was connected, but for what    *)
(* late readings moved the supervisor's clock back.                        *)
THEOREM ExcessIsOnlyRewinds == Spec => []ExcessOnlyFromRewinds
<1>1. Init => CapInv
  BY UnitAssumption DEF Init, SupInit, CapInv, Cap, Metered, InSession, Ending
<1>2. CapInv => ExcessOnlyFromRewinds
  BY DEF CapInv, Cap, ExcessOnlyFromRewinds
<1> QED BY <1>1, <1>2, InitBill, InitUsage, BillStep, UsageStep, CapStep, ContextHolds,
           PTL DEF Spec
=============================================================================
