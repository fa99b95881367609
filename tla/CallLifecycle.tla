---------------------------- MODULE CallLifecycle ----------------------------
(***************************************************************************)
(* The life of a call outside its conversation: admission (StartCall), the *)
(* meter that bills it segment by segment (CallMeter) and its end          *)
(* (EndCall), for calls whose job threads share one ConcurrencySupervisor  *)
(* (livekit_agent.py runs jobs as threads of one process).                 *)
(*                                                                         *)
(* A thread reads the clock in one step and takes the supervisor's lock in *)
(* a later one; repository and metrics awaits are steps of their own.  The *)
(* local variable `now` of the running operation is reading[c].            *)
(***************************************************************************)
EXTENDS ConcurrencySupervisor

CONSTANTS
    SelfHosted,   \* the calls whose pipeline uses the GPU pool
    Preemptive,   \* may a tick pass while a thread waits for the lock?
    MaxClock,     \* bound: the last tick of the clock
    MaxTurns,     \* bound: turns recorded per call
    MaxAudio      \* bound: seconds of caller audio streamed per call

ASSUME PreemptiveAssumption == Preemptive \in BOOLEAN
ASSUME SelfHostedAssumption == SelfHosted \subseteq Calls
ASSUME ClockAssumption == MaxClock \in Nat /\ 0..MaxClock \subseteq Readings
ASSUME BoundsAssumption == MaxTurns \in Nat /\ MaxAudio \in Nat

VARIABLES
    clock,        \* time.monotonic(), in ticks
    pc,           \* where each call's thread is
    reading,      \* the local `now` of the operation the thread is in
    row,          \* the call's row in the repository
    late,         \* a commit reported as failed that the database may yet apply
    started,      \* CallContext.started_monotonic
    segStart,     \* CallMeter._segment_start
    cursor,       \* CallMeter._share_cursor
    sttTotal,     \* CallMeter._stt_seconds_total
    sttBilled,    \* CallMeter._stt_seconds_billed
    turns,        \* turns recorded
    (* The sums over the segments the meter has returned.                  *)
    wallCharged, shareCharged, sttCharged

meterVars == <<segStart, cursor, sttTotal, sttBilled, wallCharged, shareCharged, sttCharged>>
callVars == <<pc, reading, row, late, started, turns>>
vars == <<supVars, meterVars, callVars, clock>>

(* The program points of one call's thread.                                *)
Starting  == {"acquiring", "adding", "backingOut", "metering"}
InSession == {"talking", "peeking", "closing"}
Ending    == {"ending", "releasing"}
Metered   == {"ready", "abandoned"} \cup InSession \cup Ending
Settled   == {"saving", "over"}
Failed    == {"refused", "backedOut", "stranded"}
Points    == {"new"} \cup Failed \cup Starting \cup Metered \cup Settled

(* Where a self-hosted call holds a slot of the pool.                      *)
HoldsSlot == {"adding", "backingOut", "metering", "stranded"} \cup Metered

(* Between a clock reading and the lock of the operation it was read for.  *)
Midway == {"acquiring", "backingOut", "peeking", "closing", "ending", "releasing"}

Goto(c, point) == pc' = [pc EXCEPT ![c] = point]
At(c, point) == pc[c] = point

(* now = self._clock.monotonic() *)
ReadClock(c) == reading' = [reading EXCEPT ![c] = clock]

-----------------------------------------------------------------------------
Init ==
    /\ SupInit
    /\ clock = 0
    /\ pc = [c \in Calls |-> "new"]
    /\ reading = [c \in Calls |-> 0]
    /\ row = [c \in Calls |-> "none"]
    /\ late = [c \in Calls |-> "none"]
    /\ started = [c \in Calls |-> 0]
    /\ segStart = [c \in Calls |-> 0]
    /\ cursor = [c \in Calls |-> 0]
    /\ sttTotal = [c \in Calls |-> 0]
    /\ sttBilled = [c \in Calls |-> 0]
    /\ turns = [c \in Calls |-> 0]
    /\ wallCharged = [c \in Calls |-> 0]
    /\ shareCharged = [c \in Calls |-> 0]
    /\ sttCharged = [c \in Calls |-> 0]

Tick ==
    /\ clock < MaxClock
    /\ Preemptive \/ \A c \in Calls : pc[c] \notin Midway
    /\ clock' = clock + 1
    /\ UNCHANGED <<supVars, meterVars, callVars>>

-----------------------------------------------------------------------------
(* StartCall.execute *)

(* BudgetExceeded, an unknown persona, VoiceNotAvailable or missing        *)
(* credentials, before anything is acquired.                               *)
RefuseUnvetted(c) ==
    /\ At(c, "new")
    /\ Goto(c, "refused")
    /\ UNCHANGED <<supVars, meterVars, reading, row, late, started, turns, clock>>

ReadStart(c) ==
    /\ At(c, "new")
    /\ Goto(c, "acquiring")
    /\ ReadClock(c)
    /\ UNCHANGED <<supVars, meterVars, row, late, started, turns, clock>>

(* supervisor.acquire(call_id, now); the API pipeline has no supervisor.   *)
Admit(c) ==
    /\ At(c, "acquiring")
    /\ IF c \in SelfHosted THEN Acquire(c, reading[c]) ELSE UNCHANGED supVars
    /\ Goto(c, "adding")
    /\ UNCHANGED <<meterVars, reading, row, late, started, turns, clock>>

RejectAtCapacity(c) ==
    /\ At(c, "acquiring")
    /\ c \in SelfHosted
    /\ AcquireRefused(c)
    /\ Goto(c, "refused")
    /\ UNCHANGED <<meterVars, reading, row, late, started, turns, clock>>

Persist(c) ==
    /\ At(c, "adding")
    /\ row' = [row EXCEPT ![c] = "active"]
    /\ Goto(c, "metering")
    /\ UNCHANGED <<supVars, meterVars, reading, late, started, turns, clock>>

(* repository.add raised or was cancelled: read the clock again and give   *)
(* the slot back.  The failure may be one the database does not share: the *)
(* commit it reports as failed can still be applied.  The variant lets the *)
(* exception out without giving the slot back.                             *)
MayCommitLate(c, status) == \E s \in {"none", status} : late' = [late EXCEPT ![c] = s]

PersistFailsLeaky(c) ==
    /\ At(c, "adding")
    /\ MayCommitLate(c, "active")
    /\ Goto(c, "backedOut")
    /\ UNCHANGED <<supVars, meterVars, reading, row, started, turns, clock>>

PersistFails(c) ==
    /\ At(c, "adding")
    /\ MayCommitLate(c, "active")
    /\ Goto(c, "backingOut")
    /\ ReadClock(c)
    /\ UNCHANGED <<supVars, meterVars, row, started, turns, clock>>

BackOut(c) ==
    /\ At(c, "backingOut")
    /\ IF c \in SelfHosted THEN Release(c, reading[c]) ELSE UNCHANGED supVars
    /\ Goto(c, "backedOut")
    /\ UNCHANGED <<meterVars, reading, row, late, started, turns, clock>>

(* The commit whose failure the thread was told of is applied after all.   *)
CommitLate(c) ==
    /\ late[c] # "none"
    /\ row' = [row EXCEPT ![c] = late[c]]
    /\ late' = [late EXCEPT ![c] = "none"]
    /\ UNCHANGED <<supVars, meterVars, pc, reading, started, turns, clock>>

(* The "started" event is emitted after the except clause that backs out:  *)
(* were the sink to raise, or the job be cancelled there, the row and the  *)
(* slot would stay and no CallContext come back to end them.  The port     *)
(* allows it; the sinks of today neither raise nor suspend in emit.        *)
EmitFails(c) ==
    /\ At(c, "metering")
    /\ Goto(c, "stranded")
    /\ UNCHANGED <<supVars, meterVars, reading, row, late, started, turns, clock>>

(* CallMeter(now, supervisor) with the reading taken before the add and    *)
(* the "started" event were awaited.                                       *)
StartMeter(c) ==
    /\ At(c, "metering")
    /\ IF c \in SelfHosted THEN ShareCursor(reading[c]) ELSE UNCHANGED supVars
    /\ started' = [started EXCEPT ![c] = reading[c]]
    /\ segStart' = [segStart EXCEPT ![c] = reading[c]]
    /\ cursor' = [cursor EXCEPT ![c] = IF c \in SelfHosted THEN integral' ELSE 0]
    /\ Goto(c, "ready")
    /\ UNCHANGED <<reading, row, late, turns, clock, sttTotal, sttBilled,
                   wallCharged, shareCharged, sttCharged>>

-----------------------------------------------------------------------------
(* The agent job between StartCall and CallSession.run                     *)

EnterSession(c) ==
    /\ At(c, "ready")
    /\ Goto(c, "talking")
    /\ UNCHANGED <<supVars, meterVars, reading, row, late, started, turns, clock>>

(* Publishing the track or building the session raised: the job shuts down *)
(* without EndCall.                                                        *)
AbandonCall(c) ==
    /\ At(c, "ready")
    /\ Goto(c, "abandoned")
    /\ UNCHANGED <<supVars, meterVars, reading, row, late, started, turns, clock>>

(* The ticker had died of an exception: CallSession.run's cleanup raises it *)
(* again where it awaits the ticker, and the statements after it, EndCall  *)
(* among them, never run (CallSession models that cleanup step by step).   *)
LoseEnd(c) ==
    /\ At(c, "talking")
    /\ Goto(c, "abandoned")
    /\ UNCHANGED <<supVars, meterVars, reading, row, late, started, turns, clock>>

-----------------------------------------------------------------------------
(* The meter                                                               *)

StreamAudio(c) ==
    /\ At(c, "talking")
    /\ sttTotal[c] < MaxAudio
    /\ sttTotal' = [sttTotal EXCEPT ![c] = @ + 1]
    /\ UNCHANGED <<supVars, callVars, clock, segStart, cursor, sttBilled,
                   wallCharged, shareCharged, sttCharged>>

(* What close_segment returns at `now` and resets.  Without a supervisor   *)
(* the share of a segment is its wall time.                                *)
Wall(c, now) == AtLeastZero(now - segStart[c])

ShareTaken(c, now) ==
    IF c \in SelfHosted THEN integral' - cursor[c] ELSE Unit * Wall(c, now)

(* What the segment is charged and what is reset for the next one; each    *)
(* variant forgets one of the resets.                                      *)
ChargeSegment(c, now) ==
    /\ wallCharged' = [wallCharged EXCEPT ![c] = @ + Wall(c, now)]
    /\ shareCharged' = [shareCharged EXCEPT ![c] = @ + ShareTaken(c, now)]
    /\ sttCharged' = [sttCharged EXCEPT ![c] = @ + sttTotal[c] - sttBilled[c]]

ResetKeepingStart(c, now) ==
    /\ cursor' = [cursor EXCEPT ![c] = IF c \in SelfHosted THEN integral' ELSE @]
    /\ sttBilled' = [sttBilled EXCEPT ![c] = sttTotal[c]]
    /\ UNCHANGED segStart

ResetKeepingCursor(c, now) ==
    /\ segStart' = [segStart EXCEPT ![c] = now]
    /\ sttBilled' = [sttBilled EXCEPT ![c] = sttTotal[c]]
    /\ UNCHANGED cursor

ResetKeepingAudio(c, now) ==
    /\ segStart' = [segStart EXCEPT ![c] = now]
    /\ cursor' = [cursor EXCEPT ![c] = IF c \in SelfHosted THEN integral' ELSE @]
    /\ UNCHANGED sttBilled

ResetSegment(c, now) ==
    /\ segStart' = [segStart EXCEPT ![c] = now]
    /\ cursor' = [cursor EXCEPT ![c] = IF c \in SelfHosted THEN integral' ELSE @]
    /\ sttBilled' = [sttBilled EXCEPT ![c] = sttTotal[c]]

CloseSegment(c, now) ==
    /\ IF c \in SelfHosted THEN ShareCursor(now) ELSE UNCHANGED supVars
    /\ ChargeSegment(c, now)
    /\ ResetSegment(c, now)
    /\ UNCHANGED sttTotal

(* The session's loop reads the clock for a running-cost tick, for a       *)
(* turn's record or for the end of the call.                               *)
ReadForTick(c) ==
    /\ At(c, "talking")
    /\ Goto(c, "peeking")
    /\ ReadClock(c)
    /\ UNCHANGED <<supVars, meterVars, row, late, started, turns, clock>>

(* CallMeter.peek advances the supervisor and keeps nothing.               *)
Peek(c) ==
    /\ At(c, "peeking")
    /\ IF c \in SelfHosted THEN ShareCursor(reading[c]) ELSE UNCHANGED supVars
    /\ Goto(c, "talking")
    /\ UNCHANGED <<meterVars, reading, row, late, started, turns, clock>>

ReadForRecord(c) ==
    /\ At(c, "talking")
    /\ turns[c] < MaxTurns
    /\ Goto(c, "closing")
    /\ ReadClock(c)
    /\ UNCHANGED <<supVars, meterVars, row, late, started, turns, clock>>

RecordTurn(c) ==
    /\ At(c, "closing")
    /\ CloseSegment(c, reading[c])
    /\ turns' = [turns EXCEPT ![c] = @ + 1]
    /\ Goto(c, "talking")
    /\ UNCHANGED <<reading, row, late, started, clock>>

-----------------------------------------------------------------------------
(* EndCall.execute *)

ReadForEnd(c) ==
    /\ At(c, "talking")
    /\ Goto(c, "ending")
    /\ ReadClock(c)
    /\ UNCHANGED <<supVars, meterVars, row, late, started, turns, clock>>

CloseTail(c) ==
    /\ At(c, "ending")
    /\ CloseSegment(c, reading[c])
    /\ Goto(c, "releasing")
    /\ UNCHANGED <<reading, row, late, started, turns, clock>>

(* release(call.id, now); the variant leaves the slot to the saved row.    *)
GiveSlotBackSkipped(c) ==
    /\ At(c, "releasing")
    /\ Goto(c, "saving")
    /\ UNCHANGED <<supVars, meterVars, reading, row, late, started, turns, clock>>

GiveSlotBack(c) ==
    /\ At(c, "releasing")
    /\ IF c \in SelfHosted THEN Release(c, reading[c]) ELSE UNCHANGED supVars
    /\ Goto(c, "saving")
    /\ UNCHANGED <<meterVars, reading, row, late, started, turns, clock>>

SaveEnd(c) ==
    /\ At(c, "saving")
    /\ row' = [row EXCEPT ![c] = "ended"]
    /\ Goto(c, "over")
    /\ UNCHANGED <<supVars, meterVars, reading, late, started, turns, clock>>

(* repository.update raised: the slot is already back, the row stays, or   *)
(* is ended by a commit that was reported as failed.                       *)
SaveFails(c) ==
    /\ At(c, "saving")
    /\ MayCommitLate(c, "ended")
    /\ Goto(c, "over")
    /\ UNCHANGED <<supVars, meterVars, reading, row, started, turns, clock>>

-----------------------------------------------------------------------------
Start(c) ==
    \/ RefuseUnvetted(c) \/ ReadStart(c) \/ Admit(c) \/ RejectAtCapacity(c)
    \/ Persist(c) \/ PersistFails(c) \/ BackOut(c) \/ EmitFails(c) \/ StartMeter(c)
    \/ EnterSession(c) \/ AbandonCall(c) \/ LoseEnd(c)

Meter(c) ==
    \/ StreamAudio(c) \/ ReadForTick(c) \/ Peek(c) \/ ReadForRecord(c) \/ RecordTurn(c)

End(c) ==
    \/ ReadForEnd(c) \/ CloseTail(c) \/ GiveSlotBack(c) \/ SaveEnd(c) \/ SaveFails(c)
    \/ CommitLate(c)

Next == Tick \/ \E c \in Calls : Start(c) \/ Meter(c) \/ End(c)

(* A thread that is inside an operation is eventually scheduled; nothing   *)
(* makes a caller ring, speak or hang up, or the clock move.               *)
Fairness ==
    \A c \in Calls :
        /\ WF_vars(BackOut(c)) /\ WF_vars(Peek(c)) /\ WF_vars(RecordTurn(c))
        /\ WF_vars(CloseTail(c)) /\ WF_vars(GiveSlotBack(c))

Spec == Init /\ [][Next]_vars

FairSpec == Spec /\ Fairness

-----------------------------------------------------------------------------
TypeOK ==
    /\ SupTypeOK
    /\ clock \in 0..MaxClock
    /\ pc \in [Calls -> Points]
    /\ reading \in [Calls -> 0..MaxClock]
    /\ row \in [Calls -> {"none", "active", "ended"}]
    /\ late \in [Calls -> {"none", "active", "ended"}]
    /\ started \in [Calls -> 0..MaxClock]
    /\ segStart \in [Calls -> 0..MaxClock]
    /\ cursor \in [Calls -> Nat]
    /\ sttTotal \in [Calls -> 0..MaxAudio]
    /\ sttBilled \in [Calls -> 0..MaxAudio]
    /\ turns \in [Calls -> 0..MaxTurns]
    /\ wallCharged \in [Calls -> Nat]
    /\ shareCharged \in [Calls -> Nat]
    /\ sttCharged \in [Calls -> Nat]

(* The pool's slots are exactly those of the self-hosted calls that were   *)
(* admitted and have not yet given theirs back: a failed start keeps one   *)
(* only when it fails after its row is in, no running call is without one, *)
(* and no API call takes one.                                              *)
SlotHeldByLiveCall == active = {c \in SelfHosted : pc[c] \in HoldsSlot}

(* "None persists a call": BudgetExceeded, CapacityExceeded and            *)
(* VoiceNotAvailable leave no row, not even one that is still to come, and *)
(* no slot; nor does a start that was backed out leave a slot.             *)
RefusedLeavesNothing ==
    \A c \in Calls :
        /\ At(c, "refused") => row[c] = "none" /\ late[c] = "none"
        /\ pc[c] \in {"refused", "backedOut"} => c \notin active

(* A row that says a self-hosted call is on while it holds no slot is only *)
(* that of a call being ended, or one left by a commit that failed, or was *)
(* reported as failed, while its start was backed out or its end saved.    *)
PhantomsAreFailedCommits ==
    \A c \in SelfHosted \ active :
        row[c] = "active" => pc[c] \in {"backedOut"} \cup Settled

(* The segments of a call (one per turn, then the tail) tile its time from *)
(* the admission reading to the last close: no gap and no overlap.         *)
WallBilledOnce ==
    \A c \in Calls :
        pc[c] \in Metered \cup Settled => wallCharged[c] = segStart[c] - started[c]

(* Every streamed second of caller audio is charged in exactly one segment,*)
(* and by the end all of them are.                                         *)
AudioBilledOnce ==
    \A c \in Calls :
        /\ sttCharged[c] <= sttTotal[c]
        /\ pc[c] \in Settled => sttCharged[c] = sttTotal[c]

(* However the threads interleave, no call pays for less than 1/Ceiling of *)
(* the wall time it is billed for: no part of the GPU's time is skipped.   *)
NoShareBelowFloor ==
    \A c \in Calls :
        Ceiling * shareCharged[c] >= Unit * wallCharged[c]

(* A call is charged more GPU time than it was connected only by what late *)
(* readings moved the supervisor's clock back.                             *)
ExcessOnlyFromRewinds ==
    \A c \in Calls :
        shareCharged[c] <= Unit * (wallCharged[c] + rewound)

(* A thread that has begun to end its call, or to back out of its start,   *)
(* gives the slot back, whatever then happens to the row.                  *)
EndingGivesSlotBack ==
    \A c \in Calls :
        pc[c] \in {"backingOut", "ending", "releasing"} ~> c \notin active

(* However peeks, turns and the end of a call interleave with its audio,   *)
(* what it used is billed once: its segments tile its time and its audio.  *)
UsageBilledOnce == TypeOK /\ WallBilledOnce /\ AudioBilledOnce

(* Through every failure of admission and of the end, and every commit     *)
(* that is applied although reported failed, the supervisor holds slots    *)
(* for exactly the calls that are on, no more than it has, a refused call  *)
(* has left nothing, and a row without its slot comes of a failed commit.  *)
AdmissionExact ==
    /\ CeilingRespected
    /\ SlotHeldByLiveCall
    /\ RefusedLeavesNothing
    /\ PhantomsAreFailedCommits
=============================================================================
