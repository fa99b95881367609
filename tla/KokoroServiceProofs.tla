------------------------- MODULE KokoroServiceProofs -------------------------
(***************************************************************************)
(* The slots, threads and answers of KokoroService, proved for every set of*)
(* requests, every number of workers and every length of audio.            *)
(***************************************************************************)
EXTENDS KokoroService, FiniteSetTheorems, FunctionTheorems, SequenceTheorems, TLAPS

States == {"new", "waiting", "first", "body", "done"}

(* What each variable may hold.                                            *)
Labels ==
    /\ phase \in {"starting", "up", "failed"}
    /\ st \in [Requests -> States]
    /\ kind \in [Requests -> {"none", "synthesize", "probe"}]
    /\ answer \in [Requests -> {"none", "200", "400", "500", "503", "whole", "cut", "left"}]
    /\ gone \subseteq Requests
    /\ made \in [Requests -> 0..MaxSegments]
    /\ failed \subseteq Requests

Lines ==
    /\ slotQueue \in Seq(Requests)
    /\ poolQueue \in Seq(Requests)
    /\ queue \in [Requests -> Seq(Nat)]
    /\ thread \in [Threads -> [on : Requests \cup {"none"}, step : Steps]]
    /\ \A t \in Threads : thread[t].step # "idle" => thread[t].on \in Requests

Types == Labels /\ Lines

LEMMA LabelsStep == Types /\ [Next]_vars => Labels'
<1> SUFFICES ASSUME Types, [Next]_vars PROVE Labels'
  OBVIOUS
<1> USE SegmentsAssumption
    DEF Types, Labels, Lines, States, bootVars, requestVars, slotVars, threadVars
<1>1. CASE Boot
  BY <1>1 DEF Boot, RefuseToStart, LoadEngine, LoadFails, Serve
<1>2. ASSUME NEW r \in Requests, NEW k \in {"synthesize", "probe"}, NEW v \in Voices, Ask(r, k, v)
      PROVE  Labels'
  BY <1>2 DEF Ask
<1>3. ASSUME NEW r \in Requests, EnterSlot(r) PROVE Labels'
  BY <1>3 DEF EnterSlot
<1>4. ASSUME NEW r \in Requests, Read(r) PROVE Labels'
  <2>1. CASE TakeSegment(r)
    BY <2>1 DEF TakeSegment
  <2>2. CASE TakeLast(r)
    BY <2>2 DEF TakeLast, Finish, HandlerAnswer, ProbeAnswer
  <2>3. CASE CloseStream(r)
    BY <2>3 DEF CloseStream, Finish
  <2> QED BY <1>4, <2>1, <2>2, <2>3 DEF Read
<1>5. ASSUME NEW r \in Requests, Disconnect(r) PROVE Labels'
  BY <1>5 DEF Disconnect
<1>6. ASSUME NEW t \in Threads, Work(t) PROVE Labels'
  <2>1. CASE MakeSegment(t)
    <3>1. thread[t].on \in Requests
      BY <2>1 DEF MakeSegment
    <3>2. made' \in [Requests -> 0..MaxSegments]
      BY <2>1, <3>1 DEF MakeSegment
    <3> QED BY <2>1, <3>2 DEF MakeSegment
  <2>2. CASE FailSynthesis(t)
    <3>1. thread[t].on \in Requests
      BY <2>2 DEF FailSynthesis
    <3> QED BY <2>2, <3>1 DEF FailSynthesis
  <2>3. CASE StartWork(t) \/ FinishSynthesis(t) \/ PostEnd(t) \/ ReturnThread(t)
    BY <2>3 DEF StartWork, FinishSynthesis, PostEnd, ReturnThread
  <2> QED BY <1>6, <2>1, <2>2, <2>3 DEF Work
<1>7. CASE UNCHANGED vars
  BY <1>7 DEF vars
<1> QED BY <1>1, <1>2, <1>3, <1>4, <1>5, <1>6, <1>7 DEF Next

(* A queue holds numbers whatever is posted to it.                         *)
LEMMA PostType ==
    ASSUME Types, NEW r \in Requests, NEW item \in Nat, Post(r, item)
    PROVE  queue' \in [Requests -> Seq(Nat)]
<1>1. Append(queue[r], item) \in Seq(Nat)
  BY DEF Types, Lines
<1> QED BY <1>1 DEF Post, Types, Lines

(* Reading takes a request's first item, or forgets the queue.             *)
LEMMA ReadShortens ==
    ASSUME Types, NEW r \in Requests, Read(r)
    PROVE  /\ \/ queue' = [queue EXCEPT ![r] = <<>>]
              \/ queue[r] # <<>> /\ queue' = [queue EXCEPT ![r] = Tail(queue[r])]
           /\ queue' \in [Requests -> Seq(Nat)]
<1>1. \/ queue' = [queue EXCEPT ![r] = <<>>]
      \/ queue[r] # <<>> /\ queue' = [queue EXCEPT ![r] = Tail(queue[r])]
  BY DEF Read, TakeSegment, TakeLast, CloseStream
<1>2. queue \in [Requests -> Seq(Nat)]
  BY DEF Types, Lines
<1>3. CASE queue' = [queue EXCEPT ![r] = <<>>]
  BY <1>2, <1>3
<1>4. CASE queue[r] # <<>> /\ queue' = [queue EXCEPT ![r] = Tail(queue[r])]
  <2>1. Tail(queue[r]) \in Seq(Nat)
    BY <1>2, <1>4
  <2> QED BY <1>2, <1>4, <2>1
<1> QED BY <1>1, <1>3, <1>4

(* Only asking lengthens the line for a slot.                              *)
LEMMA AskJoins ==
    ASSUME NEW r \in Requests, NEW k, NEW v, Ask(r, k, v)
    PROVE  slotQueue' = slotQueue \/ slotQueue' = Append(slotQueue, r)
<1>1. CASE Known(v)
  BY <1>1 DEF Ask
<1>2. CASE ~Known(v)
  BY <1>2 DEF Ask
<1> QED BY <1>1, <1>2

LEMMA LinesStep == Types /\ [Next]_vars => Lines'
<1> SUFFICES ASSUME Types, [Next]_vars PROVE Lines'
  OBVIOUS
<1> USE SegmentsAssumption DEF Types, Lines, bootVars, requestVars, slotVars, threadVars, Steps
<1>1. CASE Boot \/ UNCHANGED vars
  BY <1>1 DEF Boot, RefuseToStart, LoadEngine, LoadFails, Serve, vars
<1>2. ASSUME NEW r \in Requests, NEW k \in {"synthesize", "probe"}, NEW v \in Voices, Ask(r, k, v)
      PROVE  Lines'
  <2>1. slotQueue' = slotQueue \/ slotQueue' = Append(slotQueue, r)
    BY <1>2, AskJoins
  <2>2. slotQueue' \in Seq(Requests)
    <3>1. slotQueue \in Seq(Requests)
      OBVIOUS
    <3>2. Append(slotQueue, r) \in Seq(Requests)
      BY <3>1, AppendProperties
    <3> QED BY <2>1, <3>1, <3>2, Zenon
  <2> QED BY <1>2, <2>2 DEF Ask
<1>3. ASSUME NEW r \in Requests, EnterSlot(r) PROVE Lines'
  <2>1. slotQueue # <<>> /\ slotQueue' = Tail(slotQueue) /\ poolQueue' = Append(poolQueue, r)
    BY <1>3 DEF EnterSlot
  <2>2. slotQueue' \in Seq(Requests) /\ poolQueue' \in Seq(Requests)
    BY <2>1, AppendProperties, HeadTailProperties
  <2> QED BY <1>3, <2>2 DEF EnterSlot
<1>4. ASSUME NEW r \in Requests, Read(r) PROVE Lines'
  <2>1. queue' \in [Requests -> Seq(Nat)]
    BY <1>4, ReadShortens
  <2>2. UNCHANGED <<slotQueue, poolQueue, thread>>
    BY <1>4 DEF Read, TakeSegment, TakeLast, CloseStream
  <2> QED BY <2>1, <2>2
<1>5. ASSUME NEW r \in Requests, Disconnect(r) PROVE Lines'
  BY <1>5 DEF Disconnect
<1>6. ASSUME NEW t \in Threads, Work(t) PROVE Lines'
  <2>1. CASE StartWork(t)
    BY <2>1 DEF StartWork
  <2>2. CASE MakeSegment(t)
    <3>1. thread[t].on \in Requests /\ made[thread[t].on] + 1 \in Nat
      BY <2>2 DEF MakeSegment, Labels
    <3>2. queue' \in [Requests -> Seq(Nat)]
      BY <2>2, <3>1, PostType DEF MakeSegment
    <3> QED BY <2>2, <3>2 DEF MakeSegment
  <2>3. CASE FailSynthesis(t)
    <3>1. thread[t].on \in Requests /\ Error \in Nat
      BY <2>3 DEF FailSynthesis, Error
    <3>2. queue' \in [Requests -> Seq(Nat)]
      BY <2>3, <3>1, PostType DEF FailSynthesis
    <3> QED BY <2>3, <3>2 DEF FailSynthesis, GoOn
  <2>4. CASE FinishSynthesis(t)
    BY <2>4 DEF FinishSynthesis, GoOn
  <2>5. CASE PostEnd(t)
    <3>1. thread[t].on \in Requests /\ End \in Nat
      BY <2>5 DEF PostEnd, End
    <3>2. queue' \in [Requests -> Seq(Nat)]
      BY <2>5, <3>1, PostType DEF PostEnd
    <3> QED BY <2>5, <3>2 DEF PostEnd, GoOn
  <2>6. CASE ReturnThread(t)
    BY <2>6 DEF ReturnThread, Idle
  <2> QED BY <1>6, <2>1, <2>2, <2>3, <2>4, <2>5, <2>6 DEF Work
<1> QED BY <1>1, <1>2, <1>3, <1>4, <1>5, <1>6 DEF Next

LEMMA TypesHold == Spec => []Types
<1>1. Init => Types
  BY SegmentsAssumption DEF Init, Types, Labels, Lines, States, Idle, Steps
<1>2. Types /\ [Next]_vars => Types'
  BY LabelsStep, LinesStep DEF Types
<1> QED BY <1>1, <1>2, PTL DEF Spec

-----------------------------------------------------------------------------
(* Part 1: slots.  Requests hold them one each.                            *)

HoldersOf(states) == {r \in Requests : states[r] \in {"first", "body"}}

LEMMA HoldersFinite ==
    ASSUME NEW states
    PROVE  /\ IsFiniteSet(HoldersOf(states))
           /\ Cardinality(HoldersOf(states)) \in Nat
BY RequestsAssumption, FS_Subset, FS_CardinalityType DEF HoldersOf

(* Letting one in and out changes the number of holders by one.            *)
LEMMA HoldersGrow ==
    ASSUME NEW states \in [Requests -> States], NEW r \in Requests,
           states[r] \notin {"first", "body"}
    PROVE  Cardinality(HoldersOf([states EXCEPT ![r] = "first"]))
               = Cardinality(HoldersOf(states)) + 1
<1>1. HoldersOf([states EXCEPT ![r] = "first"]) = HoldersOf(states) \cup {r}
  BY DEF HoldersOf
<1>2. r \notin HoldersOf(states)
  BY DEF HoldersOf
<1> QED BY <1>1, <1>2, HoldersFinite, FS_AddElement

LEMMA HoldersShrink ==
    ASSUME NEW states \in [Requests -> States], NEW r \in Requests,
           states[r] \in {"first", "body"}
    PROVE  Cardinality(HoldersOf([states EXCEPT ![r] = "done"]))
               = Cardinality(HoldersOf(states)) - 1
<1>1. HoldersOf([states EXCEPT ![r] = "done"]) = HoldersOf(states) \ {r}
  BY DEF HoldersOf
<1>2. r \in HoldersOf(states)
  BY DEF HoldersOf
<1> QED BY <1>1, <1>2, HoldersFinite, FS_RemoveElement

(* Those in the line for a slot wait, and each stands in it once.          *)
LineWaits ==
    /\ \A i \in 1..Len(slotQueue) : st[slotQueue[i]] = "waiting"
    /\ \A i, j \in 1..Len(slotQueue) : slotQueue[i] = slotQueue[j] => i = j

SlotInv ==
    /\ slots \in Nat /\ inFlight \in Nat
    /\ slots + Cardinality(HoldersOf(st)) = Workers
    /\ inFlight = Cardinality(HoldersOf(st))
    /\ LineWaits

(* The holders are the same when a step moves no request in or out.        *)
LEMMA SlotsUntouched ==
    ASSUME SlotInv, UNCHANGED <<st, slots, slotQueue, inFlight>>
    PROVE  SlotInv'
BY DEF SlotInv, LineWaits

LEMMA SlotAsk ==
    ASSUME Types, SlotInv, NEW r \in Requests, NEW k, NEW v, Ask(r, k, v)
    PROVE  SlotInv'
<1>1. /\ st[r] = "new" /\ UNCHANGED <<slots, inFlight>>
      /\ \/ st' = [st EXCEPT ![r] = "waiting"] /\ slotQueue' = Append(slotQueue, r)
         \/ st' = [st EXCEPT ![r] = "done"] /\ slotQueue' = slotQueue
  <2>1. CASE Known(v)
    BY <2>1 DEF Ask
  <2>2. CASE ~Known(v)
    BY <2>2 DEF Ask
  <2> QED BY <2>1, <2>2
<1>2. st \in [Requests -> States] /\ slotQueue \in Seq(Requests)
  BY DEF Types, Labels, Lines
<1>3. HoldersOf(st') = HoldersOf(st)
  BY <1>1, <1>2 DEF HoldersOf, States
<1>4. Len(slotQueue) \in Nat /\ \A i \in 1..Len(slotQueue) : slotQueue[i] \in Requests
  BY <1>2, LenProperties, ElementOfSeq
<1>5. LineWaits'
  <2>1. CASE st' = [st EXCEPT ![r] = "done"] /\ slotQueue' = slotQueue
    BY <1>1, <1>2, <1>4, <2>1 DEF SlotInv, LineWaits
  <2>2. CASE st' = [st EXCEPT ![r] = "waiting"] /\ slotQueue' = Append(slotQueue, r)
    <3>1. /\ Len(slotQueue') = Len(slotQueue) + 1
          /\ \A i \in 1..Len(slotQueue) : slotQueue'[i] = slotQueue[i]
          /\ slotQueue'[Len(slotQueue) + 1] = r
      BY <1>2, <2>2, AppendProperties
    <3>2. \A i \in 1..Len(slotQueue) : slotQueue[i] # r
      BY <1>1 DEF SlotInv, LineWaits
    <3>3. \A i \in 1..Len(slotQueue') : i \in 1..Len(slotQueue) \/ i = Len(slotQueue) + 1
      BY <1>4, <3>1
    <3> QED BY <1>2, <1>4, <2>2, <3>1, <3>2, <3>3 DEF SlotInv, LineWaits
  <2> QED BY <1>1, <2>1, <2>2
<1> QED BY <1>1, <1>3, <1>5 DEF SlotInv

LEMMA SlotEnter ==
    ASSUME Types, SlotInv, NEW r \in Requests, EnterSlot(r)
    PROVE  SlotInv'
<1>1. /\ slotQueue # <<>> /\ r = Head(slotQueue) /\ slots > 0
      /\ slots' = slots - 1 /\ inFlight' = inFlight + 1
      /\ slotQueue' = Tail(slotQueue)
      /\ st' = [st EXCEPT ![r] = "first"]
  BY DEF EnterSlot
<1>2. st \in [Requests -> States] /\ slotQueue \in Seq(Requests)
  BY DEF Types, Labels, Lines
<1>3. /\ Len(slotQueue) \in Nat \ {0}
      /\ \A i \in 1..Len(slotQueue) : slotQueue[i] \in Requests
  BY <1>1, <1>2, EmptySeq, ElementOfSeq
<1>4. r = slotQueue[1] /\ st[r] = "waiting"
  BY <1>1, <1>2, <1>3 DEF SlotInv, LineWaits
<1>5. Cardinality(HoldersOf(st')) = Cardinality(HoldersOf(st)) + 1
  BY <1>1, <1>2, <1>4, HoldersGrow
<1>6. /\ Len(slotQueue') = Len(slotQueue) - 1
      /\ \A i \in 1..Len(slotQueue') : slotQueue'[i] = slotQueue[i + 1]
  BY <1>1, <1>2, HeadTailProperties
<1>7. LineWaits'
  <2>1. \A i \in 1..Len(slotQueue') : i + 1 \in 1..Len(slotQueue) /\ i + 1 # 1
    BY <1>3, <1>6
  <2>2. \A i \in 1..Len(slotQueue') : slotQueue'[i] # r /\ slotQueue'[i] \in Requests
    <3>1. ASSUME NEW i \in 1..Len(slotQueue')
          PROVE  slotQueue'[i] # r /\ slotQueue'[i] \in Requests
      <4>1. slotQueue'[i] = slotQueue[i + 1]
        BY <1>6
      <4>2. i + 1 \in 1..Len(slotQueue) /\ 1 \in 1..Len(slotQueue) /\ i + 1 # 1
        BY <1>3, <2>1
      <4>3. slotQueue[i + 1] # slotQueue[1]
        BY <4>2 DEF SlotInv, LineWaits
      <4> QED BY <1>3, <1>4, <4>1, <4>2, <4>3
    <3> QED BY <3>1
  <2>3. \A i \in 1..Len(slotQueue') : st'[slotQueue'[i]] = "waiting"
    <3>1. ASSUME NEW i \in 1..Len(slotQueue') PROVE st'[slotQueue'[i]] = "waiting"
      <4>1. st[slotQueue'[i]] = "waiting"
        BY <1>6, <2>1 DEF SlotInv, LineWaits
      <4> QED BY <1>1, <1>2, <2>2, <4>1
    <3> QED BY <3>1
  <2>4. ASSUME NEW i \in 1..Len(slotQueue'), NEW j \in 1..Len(slotQueue'),
               slotQueue'[i] = slotQueue'[j]
        PROVE  i = j
    <3>1. i + 1 = j + 1
      BY <1>6, <2>1, <2>4 DEF SlotInv, LineWaits
    <3> QED BY <1>3, <1>6, <3>1
  <2> QED BY <2>3, <2>4 DEF LineWaits
<1> QED BY <1>1, <1>5, <1>7, HoldersFinite, WorkersAssumption DEF SlotInv

(* The reader who leaves, however it does, gives back one slot.            *)
LEMMA SlotRead ==
    ASSUME Types, SlotInv, NEW r \in Requests, Read(r)
    PROVE  SlotInv'
<1>1. st \in [Requests -> States] /\ slotQueue \in Seq(Requests)
  BY DEF Types, Labels, Lines
<1>2. /\ st[r] \in {"first", "body"} /\ slotQueue' = slotQueue
      /\ st' = [st EXCEPT ![r] = "body"] \/ st' = [st EXCEPT ![r] = "done"]
  BY DEF Read, TakeSegment, TakeLast, CloseStream, HoldsSlot, Finish, slotVars
<1>3. LineWaits'
  <2>1. \A i \in 1..Len(slotQueue) : slotQueue[i] \in Requests /\ slotQueue[i] # r
    BY <1>1, <1>2, ElementOfSeq DEF SlotInv, LineWaits
  <2> QED BY <1>1, <1>2, <2>1 DEF SlotInv, LineWaits
<1>4. CASE TakeSegment(r)
  <2>1. st' = [st EXCEPT ![r] = "body"] /\ UNCHANGED <<slots, inFlight>>
    BY <1>4 DEF TakeSegment, slotVars
  <2>2. HoldersOf(st') = HoldersOf(st)
    BY <1>1, <1>2, <2>1 DEF HoldersOf
  <2> QED BY <1>3, <2>1, <2>2 DEF SlotInv
<1>5. CASE TakeLast(r) \/ CloseStream(r)
  <2>1. /\ st' = [st EXCEPT ![r] = "done"]
        /\ slots' = slots + 1 /\ inFlight' = inFlight - 1
    BY <1>5 DEF TakeLast, CloseStream, Finish, LeaveSlot
  <2>2. Cardinality(HoldersOf(st')) = Cardinality(HoldersOf(st)) - 1
    BY <1>1, <1>2, <2>1, HoldersShrink
  <2> QED BY <1>3, <2>1, <2>2, HoldersFinite, WorkersAssumption DEF SlotInv
<1> QED BY <1>4, <1>5 DEF Read

LEMMA SlotInvStep == Types /\ SlotInv /\ [Next]_vars => SlotInv'
<1> SUFFICES ASSUME Types, SlotInv, [Next]_vars PROVE SlotInv'
  OBVIOUS
<1>1. CASE Boot \/ (\E r \in Requests : Disconnect(r)) \/ (\E t \in Threads : Work(t))
           \/ UNCHANGED vars
  BY <1>1, SlotsUntouched
     DEF Boot, RefuseToStart, LoadEngine, LoadFails, Serve, Disconnect, Work, StartWork,
         MakeSegment, FailSynthesis, FinishSynthesis, PostEnd, ReturnThread,
         requestVars, slotVars, vars
<1>2. ASSUME NEW r \in Requests, NEW k \in {"synthesize", "probe"}, NEW v \in Voices, Ask(r, k, v)
      PROVE  SlotInv'
  BY <1>2, SlotAsk
<1> QED BY <1>1, <1>2, SlotEnter, SlotRead DEF Next

LEMMA SlotInvHolds == Spec => []SlotInv
<1>1. Init => SlotInv
  <2> SUFFICES ASSUME Init PROVE SlotInv
    OBVIOUS
  <2>1. HoldersOf(st) = {}
    BY DEF Init, HoldersOf
  <2>2. Cardinality(HoldersOf(st)) = 0
    BY <2>1, FS_EmptySet
  <2>3. Len(slotQueue) = 0
    BY DEF Init
  <2> QED BY <2>2, <2>3, WorkersAssumption DEF Init, SlotInv, LineWaits
<1>2. Types /\ SlotInv /\ [Next]_vars => SlotInv'
  BY SlotInvStep
<1> QED BY <1>1, <1>2, TypesHold, PTL DEF Spec

-----------------------------------------------------------------------------
(* Part 2: threads.  Each text is in one place, and a text whose synthesis *)
(* is not over has a reader, unless its client left.                       *)

InPool(r) == \E i \in 1..Len(poolQueue) : poolQueue[i] = r
OnThread(t, r) == thread[t].step # "idle" /\ thread[t].on = r
SpokenBy(t, r) == thread[t].step = "speaking" /\ thread[t].on = r

OnePlace ==
    /\ \A i, j \in 1..Len(poolQueue) : poolQueue[i] = poolQueue[j] => i = j
    /\ \A t, u \in Threads, r \in Requests : OnThread(t, r) /\ OnThread(u, r) => t = u
    /\ \A t \in Threads, r \in Requests : OnThread(t, r) => ~InPool(r)

Started ==
    \A r \in Requests :
        InPool(r) \/ (\E t \in Threads : OnThread(t, r)) => st[r] \in {"first", "body", "done"}

PlaceInv == OnePlace /\ Started

(* Nothing in this queue tells its reader that the synthesis is over.      *)
Unended(q) == \A i \in 1..Len(q) : q[i] # Error /\ q[i] # End

ReaderStays ==
    \A r \in Requests :
        InPool(r) \/ (\E t \in Threads : SpokenBy(t, r)) =>
            Unended(queue[r]) /\ (st[r] = "done" => r \in gone)

EmptyBefore == \A r \in Requests : st[r] \in {"new", "waiting"} => queue[r] = <<>>

ReaderInv == ReaderStays /\ EmptyBefore

(* Joining the executor's line, and leaving it at its head.                *)
LEMMA PoolGrows ==
    ASSUME Types, NEW r \in Requests, poolQueue' = Append(poolQueue, r),
           \A i, j \in 1..Len(poolQueue) : poolQueue[i] = poolQueue[j] => i = j,
           ~InPool(r)
    PROVE  /\ \A x \in Requests : InPool(x)' <=> InPool(x) \/ x = r
           /\ \A i, j \in 1..Len(poolQueue') : poolQueue'[i] = poolQueue'[j] => i = j
<1>1. poolQueue \in Seq(Requests) /\ Len(poolQueue) \in Nat
  BY LenProperties DEF Types, Lines
<1>2. /\ Len(poolQueue') = Len(poolQueue) + 1
      /\ \A i \in 1..Len(poolQueue) : poolQueue'[i] = poolQueue[i]
      /\ poolQueue'[Len(poolQueue) + 1] = r
  BY <1>1, AppendProperties
<1>3. \A i : i \in 1..Len(poolQueue') <=> i \in 1..Len(poolQueue) \/ i = Len(poolQueue) + 1
  BY <1>1, <1>2
<1>4. ASSUME NEW x \in Requests PROVE InPool(x)' <=> InPool(x) \/ x = r
  BY <1>2, <1>3 DEF InPool
<1>5. \A i, j \in 1..Len(poolQueue') : poolQueue'[i] = poolQueue'[j] => i = j
  BY <1>2, <1>3 DEF InPool
<1> QED BY <1>4, <1>5

LEMMA PoolShrinks ==
    ASSUME Types, poolQueue # <<>>, poolQueue' = Tail(poolQueue),
           \A i, j \in 1..Len(poolQueue) : poolQueue[i] = poolQueue[j] => i = j
    PROVE  /\ Head(poolQueue) \in Requests /\ InPool(Head(poolQueue))
           /\ \A x \in Requests : InPool(x)' <=> InPool(x) /\ x # Head(poolQueue)
           /\ \A i, j \in 1..Len(poolQueue') : poolQueue'[i] = poolQueue'[j] => i = j
<1>1. poolQueue \in Seq(Requests) /\ Len(poolQueue) \in Nat \ {0}
  BY EmptySeq DEF Types, Lines
<1>2. /\ Head(poolQueue) \in Requests
      /\ Len(poolQueue') = Len(poolQueue) - 1
      /\ \A i \in 1..Len(poolQueue') : poolQueue'[i] = poolQueue[i + 1]
  BY <1>1, HeadTailProperties
<1>3. Head(poolQueue) = poolQueue[1] /\ 1 \in 1..Len(poolQueue)
  BY <1>1
<1>4. \A i \in 1..Len(poolQueue') : i + 1 \in 1..Len(poolQueue) /\ i + 1 # 1
  BY <1>1, <1>2
<1>5. ASSUME NEW x \in Requests
      PROVE  InPool(x)' <=> InPool(x) /\ x # Head(poolQueue)
  <2>1. ASSUME NEW i \in 1..Len(poolQueue'), poolQueue'[i] = x
        PROVE  InPool(x) /\ x # Head(poolQueue)
    <3>1. poolQueue[i + 1] = x /\ i + 1 \in 1..Len(poolQueue) /\ i + 1 # 1
      BY <1>2, <1>4, <2>1
    <3> QED BY <1>3, <3>1 DEF InPool
  <2>2. ASSUME NEW i \in 1..Len(poolQueue), poolQueue[i] = x, x # Head(poolQueue)
        PROVE  InPool(x)'
    <3>1. i # 1 /\ i - 1 \in 1..Len(poolQueue') /\ (i - 1) + 1 = i
      BY <1>1, <1>2, <1>3, <2>2
    <3>2. poolQueue'[i - 1] = x
      BY <1>2, <2>2, <3>1
    <3> QED BY <3>1, <3>2 DEF InPool
  <2> QED BY <2>1, <2>2 DEF InPool
<1>6. ASSUME NEW i \in 1..Len(poolQueue'), NEW j \in 1..Len(poolQueue'),
             poolQueue'[i] = poolQueue'[j]
      PROVE  i = j
  <2>1. i + 1 = j + 1
    BY <1>2, <1>4, <1>6
  <2> QED BY <1>1, <1>2, <2>1
<1> QED BY <1>2, <1>3, <1>5, <1>6 DEF InPool

(* A step that moves no text keeps every text in its place.                *)
LEMMA PlacesKept ==
    ASSUME Types, PlaceInv, poolQueue' = poolQueue,
           \A t \in Threads, r \in Requests : OnThread(t, r)' => OnThread(t, r),
           \A r \in Requests :
               st[r] \in {"first", "body", "done"} => st'[r] \in {"first", "body", "done"}
    PROVE  PlaceInv'
BY DEF PlaceInv, OnePlace, Started, InPool

LEMMA PlaceEnter ==
    ASSUME Types, SlotInv, PlaceInv, NEW r \in Requests, EnterSlot(r)
    PROVE  PlaceInv' /\ st[r] = "waiting" /\ ~InPool(r)
           /\ \A x \in Requests : InPool(x)' <=> InPool(x) \/ x = r
<1>1. /\ slotQueue # <<>> /\ r = Head(slotQueue)
      /\ poolQueue' = Append(poolQueue, r)
      /\ thread' = thread /\ st' = [st EXCEPT ![r] = "first"]
  BY DEF EnterSlot, threadVars
<1>2. st \in [Requests -> States] /\ slotQueue \in Seq(Requests)
  BY DEF Types, Labels, Lines
<1>3. r = slotQueue[1] /\ 1 \in 1..Len(slotQueue)
  BY <1>1, <1>2, EmptySeq
<1>4. st[r] = "waiting"
  BY <1>3 DEF SlotInv, LineWaits
<1>5. ~InPool(r) /\ \A t \in Threads : ~OnThread(t, r)
  BY <1>4 DEF PlaceInv, Started
<1>6. /\ \A x \in Requests : InPool(x)' <=> InPool(x) \/ x = r
      /\ \A i, j \in 1..Len(poolQueue') : poolQueue'[i] = poolQueue'[j] => i = j
  BY <1>1, <1>5, PoolGrows DEF PlaceInv, OnePlace
<1>7. \A t \in Threads, x \in Requests : OnThread(t, x)' <=> OnThread(t, x)
  BY <1>1 DEF OnThread
<1>8. OnePlace'
  BY <1>5, <1>6, <1>7 DEF PlaceInv, OnePlace
<1>9. Started'
  BY <1>1, <1>2, <1>6, <1>7 DEF PlaceInv, Started
<1> QED BY <1>4, <1>5, <1>6, <1>8, <1>9 DEF PlaceInv

LEMMA PlaceStart ==
    ASSUME Types, PlaceInv, NEW t \in Threads, StartWork(t)
    PROVE  PlaceInv'
<1> DEFINE h == Head(poolQueue)
<1>1. /\ thread[t].step = "idle" /\ poolQueue # <<>> /\ poolQueue' = Tail(poolQueue)
      /\ thread' = [thread EXCEPT ![t] = [on |-> h, step |-> "speaking"]]
      /\ st' = st
  BY DEF StartWork, Idle, requestVars
<1>2. /\ h \in Requests /\ InPool(h)
      /\ \A x \in Requests : InPool(x)' <=> InPool(x) /\ x # h
      /\ \A i, j \in 1..Len(poolQueue') : poolQueue'[i] = poolQueue'[j] => i = j
  BY <1>1, PoolShrinks DEF PlaceInv, OnePlace
<1>3. \A u \in Threads, x \in Requests :
          OnThread(u, x)' <=> IF u = t THEN x = h ELSE OnThread(u, x)
  BY <1>1 DEF OnThread, Types, Lines
<1> HIDE DEF h
<1>4. \A u \in Threads : ~OnThread(u, h)
  BY <1>2 DEF PlaceInv, OnePlace
<1>5. OnePlace'
  BY <1>2, <1>3, <1>4 DEF PlaceInv, OnePlace
<1>6. Started'
  BY <1>1, <1>2, <1>3 DEF PlaceInv, Started
<1> QED BY <1>5, <1>6 DEF PlaceInv

LEMMA PlaceInvStep == Types /\ SlotInv /\ PlaceInv /\ [Next]_vars => PlaceInv'
<1> SUFFICES ASSUME Types, SlotInv, PlaceInv, [Next]_vars PROVE PlaceInv'
  OBVIOUS
<1>1. CASE Boot \/ (\E r \in Requests : Disconnect(r)) \/ UNCHANGED vars
  <2>1. UNCHANGED <<st, poolQueue, thread>>
    BY <1>1 DEF Boot, RefuseToStart, LoadEngine, LoadFails, Serve, Disconnect,
                requestVars, threadVars, vars
  <2> QED BY <2>1, PlacesKept DEF OnThread
<1>2. ASSUME NEW r \in Requests,
             Read(r) \/ \E k \in {"synthesize", "probe"}, v \in Voices : Ask(r, k, v)
      PROVE  PlaceInv'
  <2>1. UNCHANGED <<poolQueue, thread>>
    BY <1>2 DEF Read, TakeSegment, TakeLast, CloseStream, Ask, threadVars
  <2>2. \/ st' = [st EXCEPT ![r] = "body"] \/ st' = [st EXCEPT ![r] = "done"]
        \/ st[r] = "new"  /\ st' = [st EXCEPT ![r] = "waiting"]
    BY <1>2 DEF Read, TakeSegment, TakeLast, CloseStream, Finish, Ask
  <2>3. \A x \in Requests :
            st[x] \in {"first", "body", "done"} => st'[x] \in {"first", "body", "done"}
    BY <2>2 DEF Types, Labels
  <2> QED BY <2>1, <2>3, PlacesKept DEF OnThread
<1>3. ASSUME NEW r \in Requests, EnterSlot(r) PROVE PlaceInv'
  BY <1>3, PlaceEnter
<1>4. ASSUME NEW t \in Threads, Work(t) PROVE PlaceInv'
  <2>1. CASE StartWork(t)
    BY <2>1, PlaceStart
  <2>2. CASE ~StartWork(t)
    <3>1. UNCHANGED <<st, poolQueue>>
      BY <1>4, <2>2 DEF Work, MakeSegment, FailSynthesis, FinishSynthesis, PostEnd,
                        ReturnThread, requestVars
    <3>2. \/ thread' = thread
          \/ thread[t].step # "idle" /\ \E step \in Steps : GoOn(t, step)
          \/ thread' = [thread EXCEPT ![t] = Idle]
      BY <1>4, <2>2 DEF Work, MakeSegment, FailSynthesis, FinishSynthesis, PostEnd,
                        ReturnThread, Steps
    <3>3. \A u \in Threads, x \in Requests : OnThread(u, x)' => OnThread(u, x)
      <4>1. CASE thread' = thread
        BY <4>1 DEF OnThread
      <4>2. CASE thread' = [thread EXCEPT ![t] = Idle]
        BY <4>2 DEF OnThread, Idle, Types, Lines
      <4>3. ASSUME NEW step \in Steps, thread[t].step # "idle", GoOn(t, step)
            PROVE  \A u \in Threads, x \in Requests : OnThread(u, x)' => OnThread(u, x)
        BY <4>3 DEF OnThread, GoOn, Types, Lines
      <4> QED BY <3>2, <4>1, <4>2, <4>3
    <3> QED BY <3>1, <3>3, PlacesKept
  <2> QED BY <2>1, <2>2
<1> QED BY <1>1, <1>2, <1>3, <1>4 DEF Next

LEMMA PlaceInvHolds == Spec => []PlaceInv
<1>1. Init => PlaceInv
  <2> SUFFICES ASSUME Init PROVE PlaceInv
    OBVIOUS
  <2>1. Len(poolQueue) = 0 /\ \A t \in Threads : thread[t].step = "idle"
    BY DEF Init, Idle
  <2> QED BY <2>1 DEF PlaceInv, OnePlace, Started, InPool, OnThread
<1>2. Types /\ SlotInv /\ PlaceInv /\ [Next]_vars => PlaceInv'
  BY PlaceInvStep
<1> QED BY <1>1, <1>2, TypesHold, SlotInvHolds, PTL DEF Spec

(* What reading and posting do to a queue without an end.                  *)
LEMMA UnendedQueues ==
    ASSUME NEW q \in Seq(Nat)
    PROVE  /\ Unended(<<>>)
           /\ Unended(q) /\ q # <<>> => Unended(Tail(q)) /\ Head(q) \notin {Error, End}
           /\ \A item \in 1..MaxSegments : Unended(q) => Unended(Append(q, item))
<1>1. Unended(<<>>)
  BY DEF Unended
<1>2. ASSUME Unended(q), q # <<>> PROVE Unended(Tail(q)) /\ Head(q) \notin {Error, End}
  <2>1. Len(q) \in Nat \ {0} /\ Head(q) = q[1]
    BY <1>2, EmptySeq
  <2>2. Len(Tail(q)) = Len(q) - 1 /\ \A i \in 1..Len(Tail(q)) : Tail(q)[i] = q[i + 1]
    BY <1>2, HeadTailProperties
  <2>3. 1 \in 1..Len(q) /\ \A i \in 1..Len(Tail(q)) : i + 1 \in 1..Len(q)
    BY <2>1, <2>2
  <2> QED BY <1>2, <2>1, <2>2, <2>3 DEF Unended
<1>3. ASSUME NEW item \in 1..MaxSegments, Unended(q) PROVE Unended(Append(q, item))
  <2>1. /\ Len(Append(q, item)) = Len(q) + 1
        /\ \A i \in 1..Len(q) : Append(q, item)[i] = q[i]
        /\ Append(q, item)[Len(q) + 1] = item
    BY AppendProperties
  <2>2. item # Error /\ item # End
    BY SegmentsAssumption DEF Error, End
  <2>3. Len(q) \in Nat
    BY LenProperties
  <2>4. \A i \in 1..Len(Append(q, item)) : i \in 1..Len(q) \/ i = Len(q) + 1
    BY <2>1, <2>3
  <2> QED BY <1>3, <2>1, <2>2, <2>4 DEF Unended
<1> QED BY <1>1, <1>2, <1>3

(* Posting touches the queue of a request that is being served, no other.  *)
LEMMA PostTouchesOne ==
    ASSUME Types, NEW r \in Requests, NEW item, Post(r, item)
    PROVE  /\ \A x \in Requests : x # r => queue'[x] = queue[x]
           /\ st[r] \notin {"first", "body"} => queue'[r] = queue[r]
           /\ queue'[r] = queue[r] \/ queue'[r] = Append(queue[r], item)
<1> DEFINE longer == Append(queue[r], item)
<1>1. DOMAIN queue = Requests
  BY DEF Types, Lines
<1>2. \/ queue' = queue
      \/ st[r] \in {"first", "body"} /\ queue' = [queue EXCEPT ![r] = longer]
  BY DEF Post, HoldsSlot
<1> HIDE DEF longer
<1>3. /\ \A x \in Requests : x # r => queue'[x] = queue[x]
      /\ st[r] \notin {"first", "body"} => queue'[r] = queue[r]
      /\ queue'[r] = queue[r] \/ queue'[r] = longer
  BY <1>1, <1>2
<1> QED BY <1>3 DEF longer

(* A step after which nobody new speaks, and that ends no queue of those   *)
(* whose text is still to be spoken.                                       *)
LEMMA ReadersKept ==
    ASSUME Types, ReaderInv, gone \subseteq gone',
           \A r \in Requests :
               InPool(r)' \/ (\E t \in Threads : SpokenBy(t, r)')
                   => /\ InPool(r) \/ \E t \in Threads : SpokenBy(t, r)
                      /\ Unended(queue[r]) => Unended(queue'[r])
                      /\ st'[r] = "done" => st[r] = "done" \/ r \in gone',
           \A r \in Requests :
               st'[r] \in {"new", "waiting"} =>
                   st[r] \in {"new", "waiting"} /\ queue'[r] = queue[r]
    PROVE  ReaderInv'
<1>1. ReaderStays'
  <2> SUFFICES ASSUME NEW r \in Requests,
                      InPool(r)' \/ \E t \in Threads : SpokenBy(t, r)'
               PROVE  Unended(queue'[r]) /\ (st'[r] = "done" => r \in gone')
    BY DEF ReaderStays
  <2>1. InPool(r) \/ \E t \in Threads : SpokenBy(t, r)
    OBVIOUS
  <2>2. Unended(queue[r]) /\ (st[r] = "done" => r \in gone)
    BY <2>1 DEF ReaderInv, ReaderStays
  <2> QED BY <2>2
<1>2. EmptyBefore'
  BY DEF ReaderInv, EmptyBefore
<1> QED BY <1>1, <1>2 DEF ReaderInv

LEMMA ReaderRead ==
    ASSUME Types, PlaceInv, ReaderInv, NEW r \in Requests, Read(r)
    PROVE  ReaderInv'
<1>1. /\ st \in [Requests -> States] /\ queue \in [Requests -> Seq(Nat)]
      /\ UNCHANGED <<poolQueue, thread, gone>>
  BY DEF Types, Labels, Lines, Read, TakeSegment, TakeLast, CloseStream, threadVars
<1>2. st' = [st EXCEPT ![r] = "body"] \/ st' = [st EXCEPT ![r] = "done"]
  BY DEF Read, TakeSegment, TakeLast, CloseStream, Finish
<1>3. \A x \in Requests : x # r => queue'[x] = queue[x] /\ st'[x] = st[x]
  BY <1>1, <1>2, ReadShortens
<1>4. Unended(queue[r]) => Unended(queue'[r])
  BY ZenonT(60), <1>1, ReadShortens, UnendedQueues
<1>5. CASE TakeLast(r)
  <2>1. queue[r] # <<>> /\ Head(queue[r]) \in {Error, End}
    BY <1>5 DEF TakeLast
  <2>2. ~Unended(queue[r])
    BY <1>1, <2>1, UnendedQueues
  <2>3. ~InPool(r) /\ \A t \in Threads : ~SpokenBy(t, r)
    BY <2>2 DEF ReaderInv, ReaderStays
  <2> QED BY <1>1, <1>2, <1>3, <2>3, ReadersKept DEF InPool, SpokenBy
<1>6. CASE TakeSegment(r) \/ CloseStream(r)
  <2>1. st'[r] = "done" => r \in gone'
    BY <1>1, <1>2, <1>6 DEF TakeSegment, CloseStream
  <2> QED BY <1>1, <1>2, <1>3, <1>4, <2>1, ReadersKept DEF InPool, SpokenBy
<1> QED BY <1>5, <1>6 DEF Read

LEMMA ReaderEnter ==
    ASSUME Types, SlotInv, PlaceInv, ReaderInv, NEW r \in Requests, EnterSlot(r)
    PROVE  ReaderInv'
<1>1. UNCHANGED <<queue, thread, gone>> /\ st' = [st EXCEPT ![r] = "first"]
  BY DEF EnterSlot
<1>2. st \in [Requests -> States]
  BY DEF Types, Labels
<1>3. st[r] = "waiting" /\ \A x \in Requests : InPool(x)' <=> InPool(x) \/ x = r
  BY PlaceEnter
<1>4. Unended(queue[r])
  <2>1. queue[r] = <<>>
    BY <1>3 DEF ReaderInv, EmptyBefore
  <2> QED BY <2>1 DEF Unended
<1>5. ReaderStays'
  <2> SUFFICES ASSUME NEW x \in Requests,
                      InPool(x)' \/ \E t \in Threads : SpokenBy(t, x)'
               PROVE  Unended(queue'[x]) /\ (st'[x] = "done" => x \in gone')
    BY DEF ReaderStays
  <2>1. CASE x = r
    BY <1>1, <1>2, <1>4, <2>1
  <2>2. CASE x # r
    <3>1. InPool(x) \/ \E t \in Threads : SpokenBy(t, x)
      BY <1>1, <1>3, <2>2 DEF SpokenBy
    <3> QED BY <1>1, <1>2, <2>2, <3>1 DEF ReaderInv, ReaderStays
  <2> QED BY <2>1, <2>2
<1>6. EmptyBefore'
  BY <1>1, <1>2 DEF ReaderInv, EmptyBefore
<1> QED BY <1>5, <1>6 DEF ReaderInv

LEMMA ReaderAsk ==
    ASSUME Types, PlaceInv, ReaderInv, NEW r \in Requests, NEW k, NEW v, Ask(r, k, v)
    PROVE  ReaderInv'
<1>1. st[r] = "new" /\ UNCHANGED <<queue, poolQueue, thread, gone>>
  BY DEF Ask, threadVars
<1>2. st' = [st EXCEPT ![r] = "waiting"] \/ st' = [st EXCEPT ![r] = "done"]
  BY DEF Ask, Finish
<1>3. st \in [Requests -> States]
  BY DEF Types, Labels
<1>4. ~InPool(r) /\ \A t \in Threads : ~SpokenBy(t, r)
  BY <1>1 DEF PlaceInv, Started, OnThread, SpokenBy
<1> QED BY <1>1, <1>2, <1>3, <1>4, ReadersKept DEF InPool, SpokenBy

(* A thread that posts an end speaks for nobody afterwards.                *)
LEMMA ReaderWork ==
    ASSUME Types, PlaceInv, ReaderInv, NEW t \in Threads, Work(t)
    PROVE  ReaderInv'
<1> DEFINE r == thread[t].on
<1>1. UNCHANGED <<st, gone>>
  BY DEF Work, StartWork, MakeSegment, FailSynthesis, FinishSynthesis, PostEnd, ReturnThread,
         requestVars
<1>2. CASE StartWork(t)
  <2>1. /\ poolQueue # <<>> /\ poolQueue' = Tail(poolQueue) /\ queue' = queue
        /\ thread' = [thread EXCEPT ![t] = [on |-> Head(poolQueue), step |-> "speaking"]]
    BY <1>2 DEF StartWork
  <2>2. /\ Head(poolQueue) \in Requests /\ InPool(Head(poolQueue))
        /\ \A x \in Requests : InPool(x)' => InPool(x)
    BY <2>1, PoolShrinks DEF PlaceInv, OnePlace
  <2>3. \A u \in Threads, x \in Requests :
            SpokenBy(u, x)' => SpokenBy(u, x) \/ x = Head(poolQueue)
    BY <2>1 DEF SpokenBy, Types, Lines
  <2> QED BY <1>1, <2>1, <2>2, <2>3, ReadersKept
<1>3. CASE MakeSegment(t)
  <2>1. /\ r \in Requests /\ UNCHANGED <<poolQueue, thread>>
        /\ made[r] + 1 \in 1..MaxSegments /\ Post(r, made[r] + 1)
    BY <1>3, SegmentsAssumption DEF MakeSegment, Types, Labels, Lines
  <2>2. /\ \A x \in Requests : x # r => queue'[x] = queue[x]
        /\ st[r] \notin {"first", "body"} => queue'[r] = queue[r]
        /\ queue'[r] = queue[r] \/ queue'[r] = Append(queue[r], made[r] + 1)
    BY <2>1, PostTouchesOne
  <2>3. queue[r] \in Seq(Nat)
    BY <2>1 DEF Types, Lines
  <2>4. Unended(queue[r]) => Unended(queue'[r])
    BY <2>1, <2>2, <2>3, UnendedQueues
  <2> QED BY <1>1, <2>1, <2>2, <2>4, ReadersKept DEF InPool, SpokenBy
<1>4. CASE FailSynthesis(t) \/ PostEnd(t)
  <2>1. /\ thread[t].step # "idle" /\ r \in Requests /\ poolQueue' = poolQueue
        /\ Post(r, Error) \/ Post(r, End)
        /\ \E step \in {"closing", "returning"} : GoOn(t, step)
    BY <1>4 DEF FailSynthesis, PostEnd, Types, Lines
  <2>2. /\ \A x \in Requests : x # r => queue'[x] = queue[x]
        /\ st[r] \notin {"first", "body"} => queue'[r] = queue[r]
    BY <2>1, PostTouchesOne
  <2>3. \A u \in Threads, x \in Requests : SpokenBy(u, x)' => u # t /\ SpokenBy(u, x)
    BY <2>1 DEF SpokenBy, GoOn, Types, Lines
  <2>4. ~InPool(r) /\ \A u \in Threads : u # t => ~SpokenBy(u, r)
    BY <2>1 DEF PlaceInv, OnePlace, OnThread, SpokenBy
  <2>5. \A x \in Requests : InPool(x)' <=> InPool(x)
    BY <2>1 DEF InPool
  <2> HIDE DEF r
  <2> QED BY <1>1, <2>2, <2>3, <2>4, <2>5, ReadersKept
<1>5. CASE FinishSynthesis(t) \/ ReturnThread(t)
  <2>1. /\ UNCHANGED <<queue, poolQueue>>
        /\ GoOn(t, "closing") \/ thread' = [thread EXCEPT ![t] = Idle]
    BY <1>5 DEF FinishSynthesis, ReturnThread
  <2>2. \A u \in Threads, x \in Requests : SpokenBy(u, x)' => SpokenBy(u, x)
    BY <2>1 DEF SpokenBy, GoOn, Idle, Types, Lines
  <2> QED BY <1>1, <2>1, <2>2, ReadersKept DEF InPool
<1> QED BY <1>2, <1>3, <1>4, <1>5 DEF Work

LEMMA ReaderInvStep == Types /\ SlotInv /\ PlaceInv /\ ReaderInv /\ [Next]_vars => ReaderInv'
<1> SUFFICES ASSUME Types, SlotInv, PlaceInv, ReaderInv, [Next]_vars PROVE ReaderInv'
  OBVIOUS
<1>1. CASE Boot \/ (\E r \in Requests : Disconnect(r)) \/ UNCHANGED vars
  <2>1. UNCHANGED <<st, queue, poolQueue, thread>> /\ gone \subseteq gone'
    BY <1>1 DEF Boot, RefuseToStart, LoadEngine, LoadFails, Serve, Disconnect,
                requestVars, threadVars, vars
  <2> QED BY <2>1, ReadersKept DEF InPool, SpokenBy
<1>2. ASSUME NEW r \in Requests, NEW k \in {"synthesize", "probe"}, NEW v \in Voices, Ask(r, k, v)
      PROVE  ReaderInv'
  BY <1>2, ReaderAsk
<1> QED BY <1>1, <1>2, ReaderEnter, ReaderRead, ReaderWork DEF Next

LEMMA ReaderInvHolds == Spec => []ReaderInv
<1>1. Init => ReaderInv
  <2> SUFFICES ASSUME Init PROVE ReaderInv
    OBVIOUS
  <2>1. Len(poolQueue) = 0 /\ \A t \in Threads : thread[t].step = "idle"
    BY DEF Init, Idle
  <2> QED BY <2>1 DEF Init, ReaderInv, ReaderStays, EmptyBefore, InPool, SpokenBy
<1>2. Types /\ SlotInv /\ PlaceInv /\ ReaderInv /\ [Next]_vars => ReaderInv'
  BY ReaderInvStep
<1> QED BY <1>1, <1>2, TypesHold, SlotInvHolds, PlaceInvHolds, PTL DEF Spec

-----------------------------------------------------------------------------
(* Part 3: as long as clients stay, texts in line and texts being spoken   *)
(* belong to different holders of slots, and there are as many threads.    *)

Pooled == {r \in Requests : InPool(r)}
Spoken == {r \in Requests : \E t \in Threads : SpokenBy(t, r)}
Speaking == {t \in Threads : thread[t].step = "speaking"}

LEMMA PooledCount ==
    ASSUME Types, PlaceInv
    PROVE  IsFiniteSet(Pooled) /\ Cardinality(Pooled) = Len(poolQueue)
<1>1. /\ Len(poolQueue) \in Nat
      /\ \A i \in 1..Len(poolQueue) : poolQueue[i] \in Requests
  BY LenProperties, ElementOfSeq DEF Types, Lines
<1> DEFINE f == [i \in 1..Len(poolQueue) |-> poolQueue[i]]
<1>2. f \in [1..Len(poolQueue) -> Pooled]
  BY <1>1 DEF Pooled, InPool
<1>3. \A i, j \in 1..Len(poolQueue) : f[i] = f[j] => i = j
  BY DEF PlaceInv, OnePlace
<1>4. \A x \in Pooled : \E i \in 1..Len(poolQueue) : f[i] = x
  BY DEF Pooled, InPool
<1>5. ExistsBijection(1..Len(poolQueue), Pooled)
  <2>1. f \in Bijection(1..Len(poolQueue), Pooled)
    BY <1>2, <1>3, <1>4, Fun_IsBij
  <2> QED BY <2>1, Fun_ExistsBij
<1>6. IsFiniteSet(1..Len(poolQueue)) /\ Cardinality(1..Len(poolQueue)) = Len(poolQueue)
  BY <1>1, FS_Interval
<1> QED BY <1>5, <1>6, FS_Bijection

LEMMA ThreadsFinite ==
    /\ IsFiniteSet(Threads) /\ Cardinality(Threads) = Workers
    /\ \A S : S \subseteq Threads => IsFiniteSet(S) /\ Cardinality(S) \in Nat
<1>1. IsFiniteSet(Threads) /\ Cardinality(Threads) = Workers
  BY WorkersAssumption, FS_Interval DEF Threads
<1> QED BY <1>1, FS_Subset, FS_CardinalityType

LEMMA SpokenCount ==
    ASSUME Types, PlaceInv
    PROVE  IsFiniteSet(Spoken) /\ Cardinality(Spoken) = Cardinality(Speaking)
<1> DEFINE f == [t \in Speaking |-> thread[t].on]
<1>1. \A t \in Speaking : OnThread(t, thread[t].on) /\ thread[t].on \in Requests
  BY DEF Speaking, OnThread, Types, Lines
<1>2. f \in [Speaking -> Spoken]
  BY <1>1 DEF Speaking, Spoken, SpokenBy
<1>3. \A t, u \in Speaking : f[t] = f[u] => t = u
  BY <1>1 DEF Speaking, PlaceInv, OnePlace
<1>4. \A x \in Spoken : \E t \in Speaking : f[t] = x
  BY DEF Speaking, Spoken, SpokenBy
<1>5. ExistsBijection(Speaking, Spoken)
  <2>1. f \in Bijection(Speaking, Spoken)
    BY <1>2, <1>3, <1>4, Fun_IsBij
  <2> QED BY <2>1, Fun_ExistsBij
<1>6. IsFiniteSet(Speaking)
  BY ThreadsFinite DEF Speaking
<1> QED BY <1>5, <1>6, FS_Bijection

LEMMA DisjointCount ==
    ASSUME NEW S, NEW T, IsFiniteSet(S), IsFiniteSet(T), S \cap T = {}
    PROVE  Cardinality(S \cup T) = Cardinality(S) + Cardinality(T)
<1>1. Cardinality(S \cup T) = Cardinality(S) + Cardinality(T) - 0
  BY FS_Union, FS_EmptySet
<1>2. Cardinality(S) \in Nat /\ Cardinality(T) \in Nat
  BY FS_CardinalityType
<1> QED BY <1>1, <1>2

LEMMA ThreadForEveryHolder ==
    ASSUME Types, SlotInv, PlaceInv, ReaderInv
    PROVE  NoHiddenQueue
<1> SUFFICES ASSUME gone = {}
             PROVE  Len(poolQueue)
                        <= Cardinality({t \in Threads : thread[t].step # "speaking"})
  BY DEF NoHiddenQueue
<1> DEFINE Free == {t \in Threads : thread[t].step # "speaking"}
<1>1. Pooled \cap Spoken = {}
  BY DEF Pooled, Spoken, SpokenBy, OnThread, PlaceInv, OnePlace
<1>2. Pooled \cup Spoken \subseteq HoldersOf(st)
  BY DEF Pooled, Spoken, SpokenBy, OnThread, PlaceInv, Started, ReaderInv, ReaderStays,
         HoldersOf
<1>3. Cardinality(Pooled \cup Spoken) = Len(poolQueue) + Cardinality(Speaking)
  BY <1>1, PooledCount, SpokenCount, DisjointCount
<1>4. Cardinality(Pooled \cup Spoken) <= Workers
  <2>1. /\ Cardinality(Pooled \cup Spoken) <= Cardinality(HoldersOf(st))
        /\ Cardinality(Pooled \cup Spoken) \in Nat
    BY <1>2, HoldersFinite, FS_Subset, FS_CardinalityType
  <2> QED BY <2>1, HoldersFinite, WorkersAssumption DEF SlotInv
<1>5. Workers = Cardinality(Speaking) + Cardinality(Free)
  <2>1. Threads = Speaking \cup Free /\ Speaking \cap Free = {}
    BY DEF Speaking
  <2>2. /\ IsFiniteSet(Speaking) /\ IsFiniteSet(Free)
        /\ Cardinality(Speaking) \in Nat /\ Cardinality(Free) \in Nat
    BY ThreadsFinite DEF Speaking
  <2> HIDE DEF Free
  <2>3. Cardinality(Speaking \cup Free) = Cardinality(Speaking) + Cardinality(Free)
    BY <2>1, <2>2, DisjointCount
  <2> QED BY <2>1, <2>3, ThreadsFinite
<1>6. /\ Len(poolQueue) \in Nat /\ Cardinality(Speaking) \in Nat
      /\ Cardinality(Free) \in Nat
  BY LenProperties, ThreadsFinite DEF Types, Lines, Speaking
<1> QED BY <1>3, <1>4, <1>5, <1>6, WorkersAssumption

(* Whatever engines and clients do, slots are conserved, the gauge of      *)
(* running syntheses counts their holders, and while clients stay nobody   *)
(* who holds a slot stands in the executor's line behind a speaking thread.*)
THEOREM SlotsAreSafe == Spec => []SlotsSafe
<1>1. Types /\ SlotInv => TypeOK
  <2> SUFFICES ASSUME Types, SlotInv PROVE TypeOK
    OBVIOUS
  <2>1. slots \in 0..Workers /\ inFlight \in 0..Workers
    BY HoldersFinite, WorkersAssumption DEF SlotInv
  <2> QED BY <2>1 DEF TypeOK, Types, Labels, Lines, States, Steps
<1>2. SlotInv => SlotsConserved
  BY DEF SlotInv, SlotsConserved, HoldersOf, HoldsSlot
<1>3. Types /\ SlotInv /\ PlaceInv /\ ReaderInv => SlotsSafe
  BY <1>1, <1>2, ThreadForEveryHolder DEF SlotsSafe
<1> QED BY <1>3, TypesHold, SlotInvHolds, PlaceInvHolds, ReaderInvHolds, PTL

-----------------------------------------------------------------------------
(* Part 4: audio and answers.  Where the synthesis of a text is, and how   *)
(* it has gone.                                                            *)

Talking(r) == InPool(r) \/ \E t \in Threads : SpokenBy(t, r)
Closing(r) == \E t \in Threads : thread[t].step = "closing" /\ thread[t].on = r
Life(r) == IF Talking(r) THEN "talking" ELSE IF Closing(r) THEN "closing" ELSE "over"
Health(r) == IF r \in failed THEN "failed" ELSE "sound"

(* What a reader who has g of the m segments made still finds in q: the    *)
(* others in order, then how the synthesis ended, if it has.               *)
Stream(g, m, q, health, life) ==
    /\ Len(g) <= m /\ Len(q) >= m - Len(g)
    /\ \A i \in 1..(m - Len(g)) : q[i] = Len(g) + i
    /\ life = "talking" => Len(q) = m - Len(g)
    /\ life = "closing" /\ health = "sound" => Len(q) = m - Len(g)
    /\ life # "talking" /\ health = "failed" =>
          Len(q) > m - Len(g) /\ q[m - Len(g) + 1] = Error
    /\ life = "over" /\ health = "sound" =>
          Len(q) = m - Len(g) + 1 /\ q[m - Len(g) + 1] = End

(* The answer a that says something of the whole synthesis.                *)
Settled(a, k) == a \in {"500", "503", "whole"} \/ (a = "200" /\ k = "probe")

(* What a request in state s has got and was answered.                     *)
Faithful(s, g, m, q, health, life, a, k) ==
    /\ Len(g) <= m /\ \A i \in 1..Len(g) : g[i] = i
    /\ life = "talking" => health = "sound"
    /\ s \in {"new", "waiting"} => m = 0 /\ health = "sound" /\ q = <<>>
    /\ s \in {"new", "waiting", "first"} => g = <<>> /\ a = "none"
    /\ s \in {"first", "body"} => Stream(g, m, q, health, life)
    /\ s = "body" => g # <<>> /\ a = (IF k = "probe" THEN "none" ELSE "200")
    /\ a \in {"200", "whole", "cut", "left"} => g # <<>>
    /\ a = "500" => m = 0
    /\ k = "probe" /\ a = "200" => health = "sound"
    /\ k = "probe" /\ a = "503" => health = "failed" \/ m = 0
    /\ a = "whole" => Len(g) = m /\ health = "sound"
    /\ Settled(a, k) => life # "talking"

FaithfulFor(r) ==
    Faithful(st[r], got[r], made[r], queue[r], Health(r), Life(r), answer[r], kind[r])

AudioInv ==
    /\ got \in [Requests -> Seq(Nat)]
    /\ \A r \in Requests : FaithfulFor(r)

Healths == {"sound", "failed"}
Lives == {"talking", "closing", "over"}

(* The reader's next item is the next segment while there is one, and else *)
(* tells truly how the synthesis ended.                                    *)
LEMMA NextItem ==
    ASSUME NEW g \in Seq(Nat), NEW m \in 0..MaxSegments, NEW q \in Seq(Nat),
           NEW health \in Healths, NEW life \in Lives,
           Stream(g, m, q, health, life), q # <<>>
    PROVE  /\ Head(q) \notin {Error, End} => Len(g) < m /\ Head(q) = Len(g) + 1
           /\ Head(q) \in {Error, End} => Len(g) = m /\ life # "talking"
           /\ Head(q) = End => health = "sound"
           /\ Head(q) = Error => health = "failed"
<1>1. Len(q) \in Nat \ {0} /\ Head(q) = q[1] /\ Len(g) \in Nat /\ m \in Nat
  BY EmptySeq, SegmentsAssumption
<1>2. Error # End /\ Error \in Nat /\ End = 0 /\ \A n \in 1..MaxSegments : n # Error /\ n # End
  BY SegmentsAssumption DEF Error, End
<1>3. CASE Len(g) < m
  <2>1. 1 \in 1..(m - Len(g)) /\ Len(g) + 1 \in 1..MaxSegments
    BY <1>1, <1>3, SegmentsAssumption
  <2>2. q[1] = Len(g) + 1
    BY <2>1 DEF Stream
  <2> QED BY <1>1, <1>2, <1>3, <2>1, <2>2
<1>4. CASE Len(g) = m
  <2>1. m - Len(g) = 0 /\ m - Len(g) + 1 = 1
    BY <1>1, <1>4
  <2>2. life # "talking" /\ ~(life = "closing" /\ health = "sound")
    BY <1>1, <2>1 DEF Stream
  <2>3. CASE health = "failed"
    <3>1. q[1] = Error
      BY <2>1, <2>2, <2>3 DEF Stream
    <3> QED BY <1>1, <1>2, <1>4, <2>2, <2>3, <3>1
  <2>4. CASE health = "sound"
    <3>1. q[1] = End
      BY <2>1, <2>2, <2>4 DEF Stream, Lives
    <3> QED BY <1>1, <1>2, <1>4, <2>2, <2>4, <3>1
  <2> QED BY <2>3, <2>4 DEF Healths
<1> QED BY <1>1, <1>3, <1>4 DEF Stream

LEMMA TakenSegment ==
    ASSUME NEW s \in {"first", "body"}, NEW g \in Seq(Nat), NEW m \in 0..MaxSegments,
           NEW q \in Seq(Nat), NEW health \in Healths, NEW life \in Lives, NEW a, NEW k,
           Faithful(s, g, m, q, health, life, a, k), q # <<>>, Head(q) \notin {Error, End}
    PROVE  Faithful("body", Append(g, Head(q)), m, Tail(q), health, life,
                    IF k = "probe" THEN a ELSE "200", k)
<1> DEFINE n == Append(g, Head(q))
           t == Tail(q)
<1>1. Stream(g, m, q, health, life) /\ Len(g) <= m /\ \A i \in 1..Len(g) : g[i] = i
  BY DEF Faithful
<1>2. Len(g) < m /\ Head(q) = Len(g) + 1
  BY <1>1, NextItem
<1>3. /\ Len(q) \in Nat \ {0} /\ Len(g) \in Nat /\ m \in Nat
      /\ Len(t) = Len(q) - 1 /\ \A i \in 1..(Len(q) - 1) : t[i] = q[i + 1]
  BY EmptySeq, HeadTailProperties, SegmentsAssumption
<1>4. /\ Len(n) = Len(g) + 1 /\ n # <<>>
      /\ \A i \in 1..Len(g) : n[i] = g[i]
      /\ n[Len(g) + 1] = Len(g) + 1
  BY <1>2, AppendProperties
<1> HIDE DEF n, t
<1>5. \A i \in 1..Len(n) : n[i] = i
  <2>1. \A i \in 1..Len(n) : i \in 1..Len(g) \/ i = Len(g) + 1
    <3>1. Len(n) = Len(g) + 1 /\ Len(g) \in Nat
      BY <1>3, <1>4
    <3> QED BY SMTT(30), <3>1
  <2> QED BY <1>1, <1>4, <2>1
<1>6. Stream(n, m, t, health, life)
  <2>1. m - Len(n) = m - Len(g) - 1 /\ Len(n) <= m /\ Len(t) >= m - Len(n)
    BY <1>1, <1>2, <1>3, <1>4 DEF Stream
  <2>2. ASSUME NEW i \in 1..(m - Len(n)) PROVE t[i] = Len(n) + i
    <3>1. i + 1 \in 1..(m - Len(g)) /\ i \in 1..(Len(q) - 1)
      BY SMTT(30), <1>1, <1>2, <1>3, <2>1 DEF Stream
    <3>2. q[i + 1] = Len(g) + (i + 1)
      BY <1>1, <3>1 DEF Stream
    <3> QED BY <1>3, <1>4, <3>1, <3>2
  <2>3. Len(q) > m - Len(g) => t[m - Len(n) + 1] = q[m - Len(g) + 1]
    <3>1. ASSUME Len(q) > m - Len(g) PROVE t[m - Len(n) + 1] = q[m - Len(g) + 1]
      <4>1. m - Len(g) \in 1..(Len(q) - 1) /\ m - Len(n) + 1 = m - Len(g)
        BY <1>2, <1>3, <1>4, <3>1
      <4>2. t[m - Len(g)] = q[(m - Len(g)) + 1]
        BY <1>3, <4>1
      <4> QED BY <4>1, <4>2
    <3> QED BY <3>1
  <2>4. /\ Len(q) = m - Len(g) <=> Len(t) = m - Len(n)
        /\ Len(q) > m - Len(g) <=> Len(t) > m - Len(n)
        /\ Len(q) = m - Len(g) + 1 <=> Len(t) = m - Len(n) + 1
        /\ Len(q) = m - Len(g) + 1 => Len(q) > m - Len(g)
    BY <1>3, <1>4
  <2> QED BY <1>1, <2>1, <2>2, <2>3, <2>4 DEF Stream
<1>7. a = "none" \/ a = (IF k = "probe" THEN "none" ELSE "200")
  BY DEF Faithful
<1>8. Faithful("body", n, m, t, health, life, IF k = "probe" THEN a ELSE "200", k)
  <2>1. Len(n) <= m
    BY <1>2, <1>3, <1>4
  <2>2. CASE k = "probe"
    BY <1>4, <1>5, <1>6, <1>7, <2>1, <2>2 DEF Faithful, Settled
  <2>3. CASE k # "probe"
    BY <1>4, <1>5, <1>6, <2>1, <2>3 DEF Faithful, Settled
  <2> QED BY <2>2, <2>3
<1> QED BY <1>8 DEF n, t

LEMMA TakenLast ==
    ASSUME NEW s \in {"first", "body"}, NEW g \in Seq(Nat), NEW m \in 0..MaxSegments,
           NEW q \in Seq(Nat), NEW health \in Healths, NEW life \in Lives, NEW a, NEW k,
           Faithful(s, g, m, q, health, life, a, k), q # <<>>, Head(q) \in {Error, End}
    PROVE  Faithful("done", g, m, <<>>, health, life,
                    IF k = "probe"
                    THEN IF Head(q) = Error \/ s = "first" THEN "503" ELSE "200"
                    ELSE IF s = "first" THEN "500"
                         ELSE IF Head(q) = Error THEN "cut" ELSE "whole", k)
<1>1. Stream(g, m, q, health, life) /\ Len(g) <= m /\ \A i \in 1..Len(g) : g[i] = i
  BY DEF Faithful
<1>2. /\ Len(g) = m /\ life # "talking"
      /\ Head(q) = End => health = "sound"
      /\ Head(q) = Error => health = "failed"
  BY <1>1, NextItem
<1>3. s = "first" => m = 0
  BY <1>2 DEF Faithful
<1>4. s = "body" => g # <<>>
  BY DEF Faithful
<1>5. CASE k = "probe" /\ (Head(q) = Error \/ s = "first")
  BY <1>1, <1>2, <1>3, <1>4, <1>5 DEF Faithful, Settled
<1>6. CASE k = "probe" /\ ~(Head(q) = Error \/ s = "first")
  BY <1>1, <1>2, <1>3, <1>4, <1>6 DEF Faithful, Settled
<1>7. CASE k # "probe" /\ s = "first"
  BY <1>1, <1>2, <1>3, <1>4, <1>7 DEF Faithful, Settled
<1>8. CASE k # "probe" /\ s # "first" /\ Head(q) = Error
  BY <1>1, <1>2, <1>3, <1>4, <1>8 DEF Faithful, Settled
<1>9. CASE k # "probe" /\ s # "first" /\ Head(q) # Error
  BY <1>1, <1>2, <1>3, <1>4, <1>9 DEF Faithful, Settled
<1> QED BY <1>5, <1>6, <1>7, <1>8, <1>9

(* What a thread posts to a queue that is read.                            *)
LEMMA PostedSegment ==
    ASSUME NEW s \in States, NEW g \in Seq(Nat), NEW m \in Nat, NEW q \in Seq(Nat),
           NEW a, NEW k, NEW p,
           Faithful(s, g, m, q, "sound", "talking", a, k), s \in {"first", "body", "done"},
           p = IF s \in {"first", "body"} THEN Append(q, m + 1) ELSE q
    PROVE  Faithful(s, g, m + 1, p, "sound", "talking", a, k)
<1>1. /\ Len(g) \in Nat /\ Len(q) \in Nat /\ Len(g) <= m /\ Len(g) <= m + 1
      /\ \A i \in 1..Len(g) : g[i] = i
  BY DEF Faithful
<1>2. ~Settled(a, k)
  BY DEF Faithful
<1>3. CASE s \in {"first", "body"}
  <2>1. p = Append(q, m + 1)
    BY <1>3
  <2>2. /\ Len(p) = Len(q) + 1 /\ p[Len(q) + 1] = m + 1
        /\ \A i \in 1..Len(q) : p[i] = q[i]
    BY <2>1, AppendProperties
  <2>3. Len(q) = m - Len(g) /\ \A i \in 1..(m - Len(g)) : q[i] = Len(g) + i
    BY <1>3 DEF Faithful, Stream
  <2>4. Stream(g, m + 1, p, "sound", "talking")
    <3>1. Len(p) = m + 1 - Len(g)
      BY <1>1, <2>2, <2>3
    <3>2. ASSUME NEW i \in 1..(m + 1 - Len(g)) PROVE p[i] = Len(g) + i
      <4>1. CASE i \in 1..Len(q)
        BY <2>2, <2>3, <4>1
      <4>2. CASE i = Len(q) + 1
        <5>1. m + 1 = Len(g) + i
          BY <1>1, <2>3, <4>2
        <5> QED BY <2>2, <4>2, <5>1
      <4>3. i \in 1..Len(q) \/ i = Len(q) + 1
        BY <1>1, <2>3
      <4> QED BY <4>1, <4>2, <4>3
    <3> QED BY <1>1, <3>1, <3>2 DEF Stream
  <2> QED BY <1>1, <1>2, <1>3, <2>4 DEF Faithful, Settled
<1>4. CASE s = "done"
  BY <1>1, <1>2, <1>4 DEF Faithful, Settled
<1> QED BY <1>3, <1>4

LEMMA PostedError ==
    ASSUME NEW s \in States, NEW g \in Seq(Nat), NEW m \in Nat, NEW q \in Seq(Nat),
           NEW a, NEW k, NEW p,
           Faithful(s, g, m, q, "sound", "talking", a, k), s \in {"first", "body", "done"},
           p = IF s \in {"first", "body"} THEN Append(q, Error) ELSE q
    PROVE  Faithful(s, g, m, p, "failed", "closing", a, k)
<1>1. /\ Len(g) \in Nat /\ Len(q) \in Nat /\ Len(g) <= m
      /\ \A i \in 1..Len(g) : g[i] = i
  BY DEF Faithful
<1>2. ~Settled(a, k)
  BY DEF Faithful
<1>3. CASE s \in {"first", "body"}
  <2>1. p = Append(q, Error) /\ Error \in Nat
    BY <1>3, SegmentsAssumption DEF Error
  <2>2. /\ Len(p) = Len(q) + 1 /\ p[Len(q) + 1] = Error
        /\ \A i \in 1..Len(q) : p[i] = q[i]
    BY <2>1, AppendProperties
  <2>3. Len(q) = m - Len(g) /\ \A i \in 1..(m - Len(g)) : q[i] = Len(g) + i
    BY <1>3 DEF Faithful, Stream
  <2>4. Stream(g, m, p, "failed", "closing")
    BY <1>1, <2>2, <2>3 DEF Stream
  <2> QED BY <1>1, <1>2, <1>3, <2>4 DEF Faithful, Settled
<1>4. CASE s = "done"
  BY <1>1, <1>2, <1>4 DEF Faithful, Settled
<1> QED BY <1>3, <1>4

LEMMA PostedEnd ==
    ASSUME NEW s \in States, NEW g \in Seq(Nat), NEW m \in Nat, NEW q \in Seq(Nat),
           NEW health \in Healths, NEW a, NEW k, NEW p,
           Faithful(s, g, m, q, health, "closing", a, k), s \in {"first", "body", "done"},
           p = IF s \in {"first", "body"} THEN Append(q, End) ELSE q
    PROVE  Faithful(s, g, m, p, health, "over", a, k)
<1>1. /\ Len(g) \in Nat /\ Len(q) \in Nat /\ Len(g) <= m
      /\ \A i \in 1..Len(g) : g[i] = i
  BY DEF Faithful
<1>2. CASE s \in {"first", "body"}
  <2>1. p = Append(q, End) /\ End \in Nat
    BY <1>2 DEF End
  <2>2. /\ Len(p) = Len(q) + 1 /\ p[Len(q) + 1] = End
        /\ \A i \in 1..Len(q) : p[i] = q[i]
    BY <2>1, AppendProperties
  <2>3. /\ Len(q) >= m - Len(g) /\ \A i \in 1..(m - Len(g)) : q[i] = Len(g) + i
        /\ health = "sound" => Len(q) = m - Len(g)
        /\ health = "failed" => Len(q) > m - Len(g) /\ q[m - Len(g) + 1] = Error
    BY <1>2 DEF Faithful, Stream
  <2>4. Stream(g, m, p, health, "over")
    <3>1. \A i \in 1..(m - Len(g)) : p[i] = Len(g) + i
      BY <1>1, <2>2, <2>3
    <3>2. CASE health = "sound"
      BY <1>1, <2>2, <2>3, <3>1, <3>2 DEF Stream
    <3>3. CASE health = "failed"
      <4>1. m - Len(g) + 1 \in 1..Len(q)
        BY <1>1, <2>3, <3>3
      <4> QED BY SMTT(30), <1>1, <2>2, <2>3, <3>1, <3>3, <4>1 DEF Stream
    <3> QED BY <3>2, <3>3 DEF Healths
  <2> QED BY <1>1, <1>2, <2>4 DEF Faithful, Settled
<1>3. CASE s = "done"
  BY <1>1, <1>3 DEF Faithful, Settled
<1> QED BY <1>2, <1>3

(* A synthesis that ends well posts only its end.                          *)
LEMMA Finished ==
    ASSUME NEW s, NEW g, NEW m, NEW q, NEW a, NEW k,
           Faithful(s, g, m, q, "sound", "talking", a, k)
    PROVE  Faithful(s, g, m, q, "sound", "closing", a, k)
BY DEF Faithful, Stream, Settled

(* A request that enters, is refused, or is left.                          *)
LEMMA Entered ==
    ASSUME NEW g, NEW m, NEW q, NEW life, NEW health, NEW a, NEW k,
           Faithful("waiting", g, m, q, health, life, a, k)
    PROVE  Faithful("first", g, m, q, health, "talking", a, k)
BY DEF Faithful, Stream, Settled

LEMMA Asked ==
    ASSUME NEW g, NEW m, NEW q, NEW life, NEW health, NEW a, NEW k, NEW n,
           Faithful("new", g, m, q, health, life, a, n)
    PROVE  /\ Faithful("waiting", g, m, q, health, life, a, k)
           /\ Faithful("done", g, m, q, health, life, "400", k)
BY DEF Faithful, Stream, Settled

LEMMA Left ==
    ASSUME NEW g, NEW m, NEW q, NEW life, NEW health, NEW a, NEW k,
           Faithful("body", g, m, q, health, life, a, k)
    PROVE  Faithful("done", g, m, <<>>, health, life, "left", k)
BY DEF Faithful, Stream, Settled

(* Where syntheses are does not depend on who reads them.                  *)
LEMMA LifeKept ==
    ASSUME poolQueue' = poolQueue, thread' = thread, NEW r \in Requests
    PROVE  Life(r)' = Life(r)
BY DEF Life, Talking, Closing, InPool, SpokenBy

LEMMA LifeEnters ==
    ASSUME Types, SlotInv, PlaceInv, NEW r \in Requests, EnterSlot(r), NEW x \in Requests
    PROVE  Life(x)' = IF x = r THEN "talking" ELSE Life(x)
<1>1. thread' = thread /\ (InPool(x)' <=> InPool(x) \/ x = r)
  BY PlaceEnter DEF EnterSlot
<1> QED BY <1>1 DEF Life, Talking, Closing, SpokenBy

LEMMA LifeStarts ==
    ASSUME Types, PlaceInv, NEW t \in Threads, StartWork(t), NEW x \in Requests
    PROVE  Life(x)' = Life(x)
<1> DEFINE h == Head(poolQueue)
<1>1. /\ poolQueue # <<>> /\ poolQueue' = Tail(poolQueue) /\ thread[t].step = "idle"
      /\ thread' = [thread EXCEPT ![t] = [on |-> h, step |-> "speaking"]]
  BY DEF StartWork, Idle
<1>2. InPool(h) /\ (InPool(x)' <=> InPool(x) /\ x # h)
  BY <1>1, PoolShrinks DEF PlaceInv, OnePlace
<1>3. thread \in [Threads -> [on : Requests \cup {"none"}, step : Steps]]
  BY DEF Types, Lines
<1> HIDE DEF h
<1>4. \A u \in Threads : thread'[u] = IF u = t THEN [on |-> h, step |-> "speaking"] ELSE thread[u]
  BY <1>1, <1>3
<1>5. (\E u \in Threads : SpokenBy(u, x)') <=> (\E u \in Threads : SpokenBy(u, x)) \/ x = h
  BY <1>1, <1>4 DEF SpokenBy
<1>6. Closing(x)' <=> Closing(x)
  BY <1>1, <1>4 DEF Closing
<1> QED BY <1>2, <1>5, <1>6 DEF Life, Talking

(* The thread of a text decides its life; moving on it changes no other's. *)
LEMMA LifeGoesOn ==
    ASSUME Types, PlaceInv, NEW t \in Threads, thread[t].step # "idle",
           NEW r \in Requests, r = thread[t].on,
           NEW step \in {"closing", "returning"}, GoOn(t, step), poolQueue' = poolQueue
    PROVE  /\ thread[t].step = "speaking" => Life(r) = "talking"
           /\ thread[t].step = "closing" => Life(r) = "closing"
           /\ Life(r)' = (IF step = "closing" THEN "closing" ELSE "over")
           /\ \A x \in Requests : x # r => Life(x)' = Life(x)
<1>1. thread \in [Threads -> [on : Requests \cup {"none"}, step : Steps]]
  BY DEF Types, Lines
<1>2. ~InPool(r) /\ \A u \in Threads : u # t => thread[u].step = "idle" \/ thread[u].on # r
  BY <1>1 DEF PlaceInv, OnePlace, OnThread
<1>3. \A u \in Threads :
          /\ thread'[u].on = thread[u].on
          /\ thread'[u].step = IF u = t THEN step ELSE thread[u].step
  BY <1>1 DEF GoOn
<1>4. \A x \in Requests : InPool(x)' <=> InPool(x)
  BY DEF InPool
<1>5. /\ thread[t].step = "speaking" => Life(r) = "talking"
      /\ thread[t].step = "closing" => Life(r) = "closing"
  BY <1>1, <1>2 DEF Life, Talking, Closing, SpokenBy
<1>6. ~Talking(r)'
  BY <1>2, <1>3, <1>4 DEF Talking, SpokenBy
<1>7. Closing(r)' <=> step = "closing"
  <2>1. ASSUME step = "closing" PROVE Closing(r)'
    BY <1>3, <2>1 DEF Closing
  <2>2. ASSUME step # "closing" PROVE ~Closing(r)'
    BY <1>2, <1>3, <2>2 DEF Closing
  <2> QED BY <2>1, <2>2
<1>8. ASSUME NEW x \in Requests, x # r PROVE Life(x)' = Life(x)
  <2>1. Talking(x)' <=> Talking(x)
    BY <1>3, <1>4, <1>8 DEF Talking, SpokenBy
  <2>2. Closing(x)' <=> Closing(x)
    BY <1>3, <1>8 DEF Closing
  <2> QED BY <2>1, <2>2 DEF Life
<1>9. Life(r)' = IF step = "closing" THEN "closing" ELSE "over"
  BY <1>6, <1>7 DEF Life
<1> QED BY <1>5, <1>8, <1>9

LEMMA LifeReturns ==
    ASSUME Types, NEW t \in Threads, ReturnThread(t), NEW x \in Requests
    PROVE  Life(x)' = Life(x)
<1>1. /\ poolQueue' = poolQueue /\ thread[t].step = "returning"
      /\ thread' = [thread EXCEPT ![t] = Idle]
      /\ thread \in [Threads -> [on : Requests \cup {"none"}, step : Steps]]
  BY DEF ReturnThread, Types, Lines
<1>2. \A u \in Threads : thread'[u] = IF u = t THEN Idle ELSE thread[u]
  BY <1>1
<1>3. Talking(x)' <=> Talking(x)
  BY <1>1, <1>2 DEF Talking, InPool, SpokenBy, Idle
<1>4. Closing(x)' <=> Closing(x)
  BY <1>1, <1>2 DEF Closing, Idle
<1> QED BY <1>3, <1>4 DEF Life

LEMMA LifeTypes ==
    ASSUME NEW r \in Requests
    PROVE  Life(r) \in Lives /\ Health(r) \in Healths
BY DEF Life, Lives, Health, Healths

(* A step leaves alone the requests whose variables it does not touch.     *)
LEMMA AudioKept ==
    ASSUME NEW r \in Requests, FaithfulFor(r), Life(r)' = Life(r),
           st'[r] = st[r], got'[r] = got[r], made'[r] = made[r], queue'[r] = queue[r],
           r \in failed' <=> r \in failed, answer'[r] = answer[r], kind'[r] = kind[r]
    PROVE  FaithfulFor(r)'
<1>1. Health(r)' = Health(r)
  BY DEF Health
<1> QED BY <1>1 DEF FaithfulFor

LEMMA AudioAsk ==
    ASSUME Types, AudioInv, NEW r \in Requests, NEW k, NEW v, Ask(r, k, v)
    PROVE  AudioInv'
<1>1. /\ st[r] = "new" /\ UNCHANGED <<got, made, queue, failed, poolQueue, thread>>
      /\ kind' = [kind EXCEPT ![r] = k]
      /\ \/ st' = [st EXCEPT ![r] = "waiting"] /\ answer' = answer
         \/ st' = [st EXCEPT ![r] = "done"] /\ answer' = [answer EXCEPT ![r] = "400"]
  <2>1. CASE Known(v)
    BY <2>1 DEF Ask, threadVars
  <2>2. CASE ~Known(v)
    BY <2>2 DEF Ask, threadVars
  <2> QED BY <2>1, <2>2
<1>2. DOMAIN st = Requests /\ DOMAIN kind = Requests /\ DOMAIN answer = Requests
  BY DEF Types, Labels
<1>3. \A x \in Requests : Life(x)' = Life(x)
  BY <1>1, LifeKept
<1>4. Health(r)' = Health(r)
  BY <1>1 DEF Health
<1>5. FaithfulFor(r)'
  <2>1. Faithful("new", got[r], made[r], queue[r], Health(r), Life(r), answer[r], kind[r])
    BY <1>1 DEF AudioInv, FaithfulFor
  <2>2. /\ Faithful("waiting", got[r], made[r], queue[r], Health(r), Life(r), answer[r], k)
        /\ Faithful("done", got[r], made[r], queue[r], Health(r), Life(r), "400", k)
    BY <2>1, Asked
  <2>3. kind'[r] = k /\ \/ st'[r] = "waiting" /\ answer'[r] = answer[r]
                        \/ st'[r] = "done" /\ answer'[r] = "400"
    BY <1>1, <1>2
  <2> QED BY <1>1, <1>3, <1>4, <2>2, <2>3 DEF FaithfulFor
<1>6. ASSUME NEW x \in Requests, x # r PROVE FaithfulFor(x)'
  BY <1>1, <1>2, <1>3, <1>6, AudioKept DEF AudioInv
<1> QED BY <1>1, <1>5, <1>6 DEF AudioInv

LEMMA AudioEnter ==
    ASSUME Types, SlotInv, PlaceInv, AudioInv, NEW r \in Requests, EnterSlot(r)
    PROVE  AudioInv'
<1>1. /\ UNCHANGED <<got, made, queue, failed, answer, kind>>
      /\ st' = [st EXCEPT ![r] = "first"] /\ st[r] = "waiting"
  BY PlaceEnter DEF EnterSlot
<1>2. DOMAIN st = Requests
  BY DEF Types, Labels
<1>3. Life(r)' = "talking" /\ \A x \in Requests : x # r => Life(x)' = Life(x)
  BY LifeEnters
<1>4. Health(r)' = Health(r)
  BY <1>1 DEF Health
<1>5. FaithfulFor(r)'
  <2>1. Faithful("waiting", got[r], made[r], queue[r], Health(r), Life(r), answer[r], kind[r])
    BY <1>1 DEF AudioInv, FaithfulFor
  <2>2. Faithful("first", got[r], made[r], queue[r], Health(r), "talking", answer[r], kind[r])
    BY <2>1, Entered
  <2> QED BY <1>1, <1>2, <1>3, <1>4, <2>2 DEF FaithfulFor
<1>6. ASSUME NEW x \in Requests, x # r PROVE FaithfulFor(x)'
  BY <1>1, <1>2, <1>3, <1>6, AudioKept DEF AudioInv
<1> QED BY <1>1, <1>5, <1>6 DEF AudioInv

LEMMA AudioRead ==
    ASSUME Types, AudioInv, NEW r \in Requests, Read(r)
    PROVE  AudioInv'
<1>0. /\ DOMAIN st = Requests /\ DOMAIN answer = Requests /\ DOMAIN queue = Requests
      /\ DOMAIN got = Requests /\ got[r] \in Seq(Nat) /\ queue[r] \in Seq(Nat)
      /\ made[r] \in 0..MaxSegments /\ got \in [Requests -> Seq(Nat)]
  BY DEF Types, Labels, Lines, AudioInv
<1>1. UNCHANGED <<kind, made, failed, poolQueue, thread>>
  BY DEF Read, TakeSegment, TakeLast, CloseStream, threadVars
<1>2. \A x \in Requests : Life(x)' = Life(x) /\ Health(x)' = Health(x)
  BY <1>1, LifeKept DEF Health
<1>3. Faithful(st[r], got[r], made[r], queue[r], Health(r), Life(r), answer[r], kind[r])
  BY DEF AudioInv, FaithfulFor
<1>4. Life(r) \in Lives /\ Health(r) \in Healths
  BY LifeTypes
<1>5. CASE TakeSegment(r)
  <2>1. /\ st[r] \in {"first", "body"} /\ queue[r] # <<>> /\ Head(queue[r]) \notin {Error, End}
        /\ got' = [got EXCEPT ![r] = Append(got[r], Head(queue[r]))]
        /\ queue' = [queue EXCEPT ![r] = Tail(queue[r])]
        /\ st' = [st EXCEPT ![r] = "body"]
        /\ answer' = [answer EXCEPT ![r] = IF kind[r] = "probe" THEN answer[r] ELSE "200"]
    BY <1>5 DEF TakeSegment, HoldsSlot
  <2>2. Faithful("body", Append(got[r], Head(queue[r])), made[r], Tail(queue[r]), Health(r),
                 Life(r), IF kind[r] = "probe" THEN answer[r] ELSE "200", kind[r])
    BY <1>0, <1>3, <1>4, <2>1, TakenSegment
  <2>3. FaithfulFor(r)'
    BY <1>0, <1>1, <1>2, <2>1, <2>2 DEF FaithfulFor
  <2>4. ASSUME NEW x \in Requests, x # r PROVE FaithfulFor(x)'
    BY <1>0, <1>1, <1>2, <2>1, <2>4, AudioKept DEF AudioInv
  <2>5. Append(got[r], Head(queue[r])) \in Seq(Nat)
    BY <1>0, <2>1, HeadTailProperties, AppendProperties
  <2>6. got' \in [Requests -> Seq(Nat)]
    BY <1>0, <2>1, <2>5
  <2> QED BY <2>3, <2>4, <2>6 DEF AudioInv
<1>6. CASE TakeLast(r)
  <2> DEFINE how == IF kind[r] = "probe"
                    THEN IF Head(queue[r]) = Error \/ st[r] = "first" THEN "503" ELSE "200"
                    ELSE IF st[r] = "first" THEN "500"
                         ELSE IF Head(queue[r]) = Error THEN "cut" ELSE "whole"
  <2>1. /\ st[r] \in {"first", "body"} /\ queue[r] # <<>> /\ Head(queue[r]) \in {Error, End}
        /\ got' = got
        /\ queue' = [queue EXCEPT ![r] = <<>>]
        /\ st' = [st EXCEPT ![r] = "done"]
        /\ answer' = [answer EXCEPT ![r] = how]
    BY <1>6 DEF TakeLast, HoldsSlot, Finish, HandlerAnswer, ProbeAnswer
  <2>2. Faithful("done", got[r], made[r], <<>>, Health(r), Life(r), how, kind[r])
    BY <1>0, <1>3, <1>4, <2>1, TakenLast
  <2> HIDE DEF how
  <2>3. FaithfulFor(r)'
    BY <1>0, <1>1, <1>2, <2>1, <2>2 DEF FaithfulFor
  <2>4. ASSUME NEW x \in Requests, x # r PROVE FaithfulFor(x)'
    BY <1>0, <1>1, <1>2, <2>1, <2>4, AudioKept DEF AudioInv
  <2> QED BY <1>0, <2>1, <2>3, <2>4 DEF AudioInv
<1>7. CASE CloseStream(r)
  <2>1. /\ st[r] = "body" /\ got' = got
        /\ queue' = [queue EXCEPT ![r] = <<>>]
        /\ st' = [st EXCEPT ![r] = "done"]
        /\ answer' = [answer EXCEPT ![r] = "left"]
    BY <1>7 DEF CloseStream, Finish
  <2>2. Faithful("done", got[r], made[r], <<>>, Health(r), Life(r), "left", kind[r])
    BY <1>3, <2>1, Left
  <2>3. FaithfulFor(r)'
    BY <1>0, <1>1, <1>2, <2>1, <2>2 DEF FaithfulFor
  <2>4. ASSUME NEW x \in Requests, x # r PROVE FaithfulFor(x)'
    BY <1>0, <1>1, <1>2, <2>1, <2>4, AudioKept DEF AudioInv
  <2> QED BY <1>0, <2>1, <2>3, <2>4 DEF AudioInv
<1> QED BY <1>5, <1>6, <1>7 DEF Read

LEMMA AudioSpeaks ==
    ASSUME Types, PlaceInv, AudioInv, NEW t \in Threads, NEW r \in Requests, r = thread[t].on,
           MakeSegment(t) \/ FailSynthesis(t) \/ FinishSynthesis(t) \/ PostEnd(t)
    PROVE  AudioInv'
<1>0. /\ st \in [Requests -> States] /\ DOMAIN queue = Requests /\ DOMAIN made = Requests
      /\ got \in [Requests -> Seq(Nat)]
      /\ \A x \in Requests : queue[x] \in Seq(Nat) /\ made[x] \in Nat
  BY SegmentsAssumption DEF Types, Labels, Lines, AudioInv
<1>1. UNCHANGED <<st, kind, got, answer>>
  BY DEF MakeSegment, FailSynthesis, FinishSynthesis, PostEnd, requestVars
<1>3. /\ st[r] \in {"first", "body", "done"} /\ thread[t].step # "idle"
      /\ Faithful(st[r], got[r], made[r], queue[r], Health(r), Life(r), answer[r], kind[r])
  <2>1. thread[t].step # "idle"
    BY DEF MakeSegment, FailSynthesis, FinishSynthesis, PostEnd
  <2> QED BY <2>1 DEF PlaceInv, Started, OnThread, AudioInv, FaithfulFor
<1>4. ASSUME NEW item, Post(r, item)
      PROVE  /\ queue'[r] = IF st[r] \in {"first", "body"} THEN Append(queue[r], item)
                            ELSE queue[r]
             /\ \A x \in Requests : x # r => queue'[x] = queue[x]
  BY <1>0, <1>4 DEF Post, HoldsSlot
<1>9. /\ st[r] \in States /\ got[r] \in Seq(Nat) /\ queue[r] \in Seq(Nat) /\ made[r] \in Nat
  BY <1>0
<1>5. CASE MakeSegment(t)
  <2>1. /\ thread[t].step = "speaking" /\ Post(r, made[r] + 1)
        /\ made' = [made EXCEPT ![r] = made[r] + 1]
        /\ UNCHANGED <<poolQueue, thread, failed>>
    BY <1>5 DEF MakeSegment
  <2>2. Life(r) = "talking" /\ Health(r) = "sound"
    <3>1. SpokenBy(t, r)
      BY <1>3, <2>1 DEF SpokenBy
    <3>2. Life(r) = "talking"
      BY <3>1 DEF Life, Talking
    <3>3. Health(r) \in Healths
      BY <3>1, LifeTypes
    <3> QED BY <1>3, <2>1, <3>2 DEF Faithful
  <2>3. /\ made'[r] = made[r] + 1
        /\ queue'[r] = IF st[r] \in {"first", "body"} THEN Append(queue[r], made[r] + 1)
                       ELSE queue[r]
    BY <1>0, <1>3, <1>4, <2>1
  <2>4. \A x \in Requests : Life(x)' = Life(x) /\ Health(x)' = Health(x)
    BY <2>1, LifeKept DEF Health
  <2>5. Faithful(st[r], got[r], made[r] + 1, queue'[r], "sound", "talking", answer[r], kind[r])
    <3>1. Faithful(st[r], got[r], made[r], queue[r], "sound", "talking", answer[r], kind[r])
      BY <1>3, <2>2, <2>3
    <3> QED BY <1>9, <1>3, <2>3, <3>1, PostedSegment
  <2>6. \A x \in Requests : x = r => FaithfulFor(x)'
    BY <1>1, <2>2, <2>3, <2>4, <2>5 DEF FaithfulFor
  <2>7. ASSUME NEW x \in Requests, x # r PROVE FaithfulFor(x)'
    <3>1. queue'[x] = queue[x] /\ made'[x] = made[x]
      BY <1>0, <1>4, <2>1, <2>3, <2>7
    <3> QED BY <1>1, <2>1, <2>4, <3>1, AudioKept DEF AudioInv
  <2> QED BY <1>0, <1>1, <2>6, <2>7 DEF AudioInv
<1>6. CASE FailSynthesis(t)
  <2>1. /\ thread[t].step = "speaking" /\ Post(r, Error) /\ GoOn(t, "closing")
        /\ failed' = failed \cup {r}
        /\ UNCHANGED <<poolQueue, made>>
    BY <1>6 DEF FailSynthesis
  <2>2. /\ Life(r) = "talking" /\ Life(r)' = "closing"
        /\ \A x \in Requests : x # r => Life(x)' = Life(x)
    BY <1>3, <2>1, LifeGoesOn
  <2>3. Health(r) = "sound"
    BY <1>3, <2>1, <2>2, LifeTypes DEF Faithful
  <2>4. queue'[r] = IF st[r] \in {"first", "body"} THEN Append(queue[r], Error) ELSE queue[r]
    BY <1>4, <2>1, <2>3
  <2>5. Faithful(st[r], got[r], made[r], queue'[r], "failed", "closing", answer[r], kind[r])
    <3>1. Faithful(st[r], got[r], made[r], queue[r], "sound", "talking", answer[r], kind[r])
      BY <1>3, <2>2, <2>3
    <3> QED BY <1>9, <1>3, <2>4, <3>1, PostedError
  <2>6. ASSUME NEW x \in Requests, x = r PROVE FaithfulFor(x)'
    <3>1. Life(x)' = "closing"
      BY <2>2, <2>6
    <3>2. Health(x)' = "failed"
      BY <2>1, <2>6 DEF Health
    <3> QED BY <1>1, <2>1, <2>5, <2>6, <3>1, <3>2 DEF FaithfulFor
  <2>7. ASSUME NEW x \in Requests, x # r PROVE FaithfulFor(x)'
    <3>1. queue'[x] = queue[x] /\ (x \in failed' <=> x \in failed)
      BY <1>4, <2>1, <2>3, <2>7
    <3> QED BY <1>1, <2>1, <2>2, <2>7, <3>1, AudioKept DEF AudioInv
  <2> QED BY <1>0, <1>1, <2>6, <2>7 DEF AudioInv
<1>7. CASE FinishSynthesis(t)
  <2>1. /\ thread[t].step = "speaking" /\ GoOn(t, "closing")
        /\ UNCHANGED <<poolQueue, made, queue, failed>>
    BY <1>7 DEF FinishSynthesis
  <2>2. /\ Life(r) = "talking" /\ Life(r)' = "closing"
        /\ \A x \in Requests : x # r => Life(x)' = Life(x)
    BY <1>3, <2>1, LifeGoesOn
  <2>3. Health(r) = "sound"
    BY <1>3, <2>1, <2>2, LifeTypes DEF Faithful
  <2>4. Faithful(st[r], got[r], made[r], queue[r], "sound", "closing", answer[r], kind[r])
    BY <1>3, <2>1, <2>2, <2>3, Finished
  <2>5. ASSUME NEW x \in Requests, x = r PROVE FaithfulFor(x)'
    <3>1. Life(x)' = "closing"
      BY <2>2, <2>5
    <3>2. Health(x)' = "sound"
      BY <2>1, <2>3, <2>5 DEF Health
    <3> QED BY <1>1, <2>1, <2>4, <2>5, <3>1, <3>2 DEF FaithfulFor
  <2>6. ASSUME NEW x \in Requests, x # r PROVE FaithfulFor(x)'
    BY <1>1, <2>1, <2>2, <2>6, AudioKept DEF AudioInv
  <2> QED BY <1>0, <1>1, <2>5, <2>6 DEF AudioInv
<1>8. CASE PostEnd(t)
  <2>1. /\ thread[t].step = "closing" /\ Post(r, End) /\ GoOn(t, "returning")
        /\ UNCHANGED <<poolQueue, made, failed>>
    BY <1>8 DEF PostEnd
  <2>2. /\ Life(r) = "closing" /\ Life(r)' = "over"
        /\ \A x \in Requests : x # r => Life(x)' = Life(x)
    BY <1>3, <2>1, LifeGoesOn
  <2>3. Health(r) \in Healths
    BY <1>3, <2>1, LifeTypes
  <2>4. queue'[r] = IF st[r] \in {"first", "body"} THEN Append(queue[r], End) ELSE queue[r]
    BY <1>4, <2>1, <2>3
  <2>5. Faithful(st[r], got[r], made[r], queue'[r], Health(r), "over", answer[r], kind[r])
    <3>1. Faithful(st[r], got[r], made[r], queue[r], Health(r), "closing", answer[r], kind[r])
      BY <1>3, <2>2, <2>3
    <3> QED BY <1>9, <1>3, <2>3, <2>4, <3>1, PostedEnd
  <2>6. ASSUME NEW x \in Requests, x = r PROVE FaithfulFor(x)'
    <3>1. Life(x)' = "over"
      BY <2>2, <2>6
    <3>2. Health(x)' = Health(r)
      BY <2>1, <2>6 DEF Health
    <3> QED BY <1>1, <2>1, <2>5, <2>6, <3>1, <3>2 DEF FaithfulFor
  <2>7. ASSUME NEW x \in Requests, x # r PROVE FaithfulFor(x)'
    <3>1. queue'[x] = queue[x]
      BY <1>4, <2>1, <2>3, <2>7
    <3> QED BY <1>1, <2>1, <2>2, <2>7, <3>1, AudioKept DEF AudioInv
  <2> QED BY <1>0, <1>1, <2>6, <2>7 DEF AudioInv
<1> QED BY <1>5, <1>6, <1>7, <1>8

LEMMA AudioWork ==
    ASSUME Types, PlaceInv, AudioInv, NEW t \in Threads, Work(t)
    PROVE  AudioInv'
<1>1. CASE StartWork(t) \/ ReturnThread(t)
  <2>1. UNCHANGED <<st, kind, got, answer, queue, made, failed>>
    BY <1>1 DEF StartWork, ReturnThread, requestVars
  <2>2. \A x \in Requests : Life(x)' = Life(x)
    BY <1>1, LifeStarts, LifeReturns
  <2> QED BY <2>1, <2>2, AudioKept DEF AudioInv
<1>2. CASE MakeSegment(t) \/ FailSynthesis(t) \/ FinishSynthesis(t) \/ PostEnd(t)
  <2>1. thread[t].on \in Requests
    BY <1>2 DEF MakeSegment, FailSynthesis, FinishSynthesis, PostEnd, Types, Lines
  <2> QED BY <1>2, <2>1, AudioSpeaks
<1> QED BY <1>1, <1>2 DEF Work

LEMMA AudioInvStep ==
    Types /\ SlotInv /\ PlaceInv /\ AudioInv /\ [Next]_vars => AudioInv'
<1> SUFFICES ASSUME Types, SlotInv, PlaceInv, AudioInv, [Next]_vars PROVE AudioInv'
  OBVIOUS
<1>1. CASE Boot \/ (\E r \in Requests : Disconnect(r)) \/ UNCHANGED vars
  <2>1. UNCHANGED <<st, kind, got, answer, queue, made, failed, poolQueue, thread>>
    BY <1>1 DEF Boot, RefuseToStart, LoadEngine, LoadFails, Serve, Disconnect, requestVars,
                threadVars, vars
  <2>2. \A x \in Requests : Life(x)' = Life(x)
    BY <2>1, LifeKept
  <2> QED BY <2>1, <2>2, AudioKept DEF AudioInv
<1>2. ASSUME NEW r \in Requests, NEW k \in {"synthesize", "probe"}, NEW v \in Voices, Ask(r, k, v)
      PROVE  AudioInv'
  BY <1>2, AudioAsk
<1> QED BY <1>1, <1>2, AudioEnter, AudioRead, AudioWork DEF Next

LEMMA AudioInvHolds == Spec => []AudioInv
<1>1. Init => AudioInv
  <2> SUFFICES ASSUME Init PROVE AudioInv
    OBVIOUS
  <2>1. got \in [Requests -> Seq(Nat)]
    <3>1. <<>> \in Seq(Nat)
      BY EmptySeq
    <3> QED BY <3>1 DEF Init
  <2>2. ASSUME NEW r \in Requests PROVE FaithfulFor(r)
    <3>1. Health(r) = "sound" /\ got[r] = <<>> /\ made[r] = 0 /\ queue[r] = <<>>
          /\ st[r] = "new" /\ answer[r] = "none"
      BY DEF Init, Health
    <3>2. Len(got[r]) = 0
      BY <3>1
    <3> QED BY <3>1, <3>2 DEF FaithfulFor, Faithful, Settled
  <2> QED BY <2>1, <2>2 DEF AudioInv
<1>2. Types /\ SlotInv /\ PlaceInv /\ AudioInv /\ [Next]_vars => AudioInv'
  BY AudioInvStep
<1> QED BY <1>1, <1>2, TypesHold, SlotInvHolds, PlaceInvHolds, PTL DEF Spec

-----------------------------------------------------------------------------
(* Part 5: engines.  Those loaded are the first of TTS_ENGINES, which are  *)
(* distinct, and a request speaks with one of them.                        *)

EngineIds == {EngineOf(backend) : backend \in Backends}

EngineInv ==
    /\ wanted \in Seq(STRING) /\ wanted # <<>>
    /\ loaded \in Seq(EngineIds) /\ Len(loaded) <= Len(wanted)
    /\ loaded # <<>> => Enabled(wanted)
    /\ \A i \in 1..Len(loaded) : loaded[i] = EngineOf(wanted[i])
    /\ phase = "up" => loaded # <<>>
    /\ DOMAIN engine = Requests
    /\ \A r \in Requests :
          st[r] \in {"waiting", "first", "body"} => \E i \in 1..Len(loaded) : engine[r] = loaded[i]

LEMMA EngineKept ==
    ASSUME EngineInv, UNCHANGED <<wanted, loaded, phase, engine>>,
           \A r \in Requests : st'[r] \in {"waiting", "first", "body"} =>
                                   st[r] \in {"waiting", "first", "body"}
    PROVE  EngineInv'
BY DEF EngineInv, Enabled

(* A voice that is known is routed to an engine that is loaded.            *)
LEMMA RouteIsLoaded ==
    ASSUME EngineInv, phase = "up", NEW v, Known(v)
    PROVE  \E i \in 1..Len(loaded) : Route(v) = loaded[i]
<1>1. loaded \in Seq(EngineIds) /\ loaded # <<>>
  BY DEF EngineInv
<1>2. Len(loaded) \in Nat \ {0} /\ Head(loaded) = loaded[1] /\ DOMAIN loaded = 1..Len(loaded)
  BY <1>1, EmptySeq, LenProperties
<1>3. CASE v.prefix = "bare"
  BY <1>2, <1>3 DEF Route
<1>4. CASE v.prefix # "bare"
  BY <1>2, <1>4 DEF Route, Known, ToSet
<1> QED BY <1>3, <1>4

LEMMA EngineStep == Types /\ SlotInv /\ EngineInv /\ [Next]_vars => EngineInv'
<1> SUFFICES ASSUME Types, SlotInv, EngineInv, [Next]_vars PROVE EngineInv'
  OBVIOUS
<1>0. st \in [Requests -> States]
  BY DEF Types, Labels
<1>1. CASE RefuseToStart \/ LoadFails
  BY <1>1 DEF RefuseToStart, LoadFails, EngineInv, requestVars
<1>2. CASE LoadEngine
  <2> DEFINE e == EngineOf(wanted[Len(loaded) + 1])
  <2>1. /\ loaded' = Append(loaded, e) /\ Enabled(wanted) /\ Len(loaded) < Len(wanted)
        /\ UNCHANGED <<wanted, phase, st, engine>> /\ phase = "starting"
    BY <1>2 DEF LoadEngine, requestVars
  <2>2. wanted \in Seq(STRING) /\ loaded \in Seq(EngineIds)
    BY DEF EngineInv
  <2>3. e \in EngineIds
    <3>1. Len(loaded) + 1 \in DOMAIN wanted
      BY <2>1, <2>2, LenProperties
    <3>2. wanted[Len(loaded) + 1] \in Backends
      BY <2>1, <3>1 DEF Enabled, ToSet
    <3> QED BY <3>2 DEF EngineIds
  <2> HIDE DEF e
  <2>4. /\ loaded' \in Seq(EngineIds) /\ loaded' # <<>>
        /\ Len(loaded') = Len(loaded) + 1
        /\ \A i \in 1..Len(loaded) : loaded'[i] = loaded[i]
        /\ loaded'[Len(loaded) + 1] = e
        /\ Len(loaded) \in Nat /\ Len(wanted) \in Nat
    BY <2>1, <2>2, <2>3, AppendProperties, LenProperties
  <2>5. \A i \in 1..Len(loaded') : loaded'[i] = EngineOf(wanted[i])
    <3>1. \A i \in 1..Len(loaded') : i \in 1..Len(loaded) \/ i = Len(loaded) + 1
      <4>1. Len(loaded') = Len(loaded) + 1 /\ Len(loaded) \in Nat
        BY <2>4
      <4> QED BY <4>1
    <3> QED BY <2>4, <3>1 DEF EngineInv, e
  <2>6. ASSUME NEW r \in Requests, st[r] \in {"waiting", "first", "body"}
        PROVE  \E i \in 1..Len(loaded') : engine[r] = loaded'[i]
    <3>1. PICK i \in 1..Len(loaded) : engine[r] = loaded[i]
      BY <2>6 DEF EngineInv
    <3>2. i \in 1..Len(loaded') /\ engine[r] = loaded'[i]
      BY <2>4, <3>1
    <3> QED BY <3>2
  <2>7. Enabled(wanted)' /\ Len(loaded') <= Len(wanted)
    BY <2>1, <2>4 DEF Enabled
  <2> QED BY <2>1, <2>2, <2>4, <2>5, <2>6, <2>7 DEF EngineInv
<1>3. CASE Serve
  <2>1. /\ phase' = "up" /\ Len(loaded) = Len(wanted)
        /\ UNCHANGED <<wanted, loaded, st, engine>>
    BY <1>3 DEF Serve, requestVars
  <2>2. loaded # <<>>
    BY <2>1, EmptySeq DEF EngineInv
  <2> QED BY <2>1, <2>2 DEF EngineInv, Enabled
<1>4. ASSUME NEW r \in Requests, NEW k \in {"synthesize", "probe"}, NEW v \in Voices, Ask(r, k, v)
      PROVE  EngineInv'
  <2>1. phase = "up" /\ UNCHANGED <<wanted, loaded, phase>>
    BY <1>4 DEF Ask, bootVars
  <2>2. CASE Known(v)
    <3>1. st' = [st EXCEPT ![r] = "waiting"] /\ engine' = [engine EXCEPT ![r] = Route(v)]
      BY <1>4, <2>2 DEF Ask
    <3>2. \E i \in 1..Len(loaded) : Route(v) = loaded[i]
      BY <2>1, <2>2, RouteIsLoaded
    <3>3. DOMAIN engine = Requests
      BY DEF EngineInv
    <3>4. \A x \in Requests : st'[x] \in {"waiting", "first", "body"} =>
              \E i \in 1..Len(loaded) : engine'[x] = loaded[i]
      BY <1>0, <3>1, <3>2, <3>3 DEF EngineInv
    <3> QED BY <2>1, <3>1, <3>4 DEF EngineInv, Enabled
  <2>3. CASE ~Known(v)
    <3>1. st' = [st EXCEPT ![r] = "done"] /\ engine' = engine
      BY <1>4, <2>3 DEF Ask
    <3> QED BY <1>0, <2>1, <3>1, EngineKept
  <2> QED BY <2>2, <2>3
<1>5. ASSUME NEW r \in Requests, EnterSlot(r) PROVE EngineInv'
  <2>1. /\ UNCHANGED <<wanted, loaded, phase, engine>> /\ st' = [st EXCEPT ![r] = "first"]
        /\ slotQueue # <<>> /\ r = Head(slotQueue) /\ slotQueue \in Seq(Requests)
    BY <1>5 DEF EnterSlot, bootVars, Types, Lines
  <2>2. 1 \in 1..Len(slotQueue) /\ r = slotQueue[1]
    BY <2>1
  <2>3. st[r] = "waiting"
    BY <2>2 DEF SlotInv, LineWaits
  <2> QED BY <1>0, <2>1, <2>3, EngineKept
<1>6. ASSUME NEW r \in Requests, Read(r) PROVE EngineInv'
  <2>1. /\ UNCHANGED <<wanted, loaded, phase, engine>> /\ st[r] \in {"first", "body"}
        /\ st' = [st EXCEPT ![r] = "body"] \/ st' = [st EXCEPT ![r] = "done"]
    BY <1>6 DEF Read, TakeSegment, TakeLast, CloseStream, HoldsSlot, Finish, bootVars
  <2> QED BY <1>0, <2>1, EngineKept
<1>7. CASE (\E r \in Requests : Disconnect(r)) \/ (\E t \in Threads : Work(t)) \/ UNCHANGED vars
  <2>1. UNCHANGED <<wanted, loaded, phase, engine, st>>
    BY <1>7 DEF Disconnect, Work, StartWork, MakeSegment, FailSynthesis, FinishSynthesis, PostEnd,
                ReturnThread, requestVars, bootVars, vars
  <2> QED BY <2>1, EngineKept
<1> QED BY <1>1, <1>2, <1>3, <1>4, <1>5, <1>6, <1>7 DEF Next, Boot

LEMMA EngineInvHolds == Spec => []EngineInv
<1>1. Init => EngineInv
  <2> SUFFICES ASSUME Init PROVE EngineInv
    OBVIOUS
  <2>1. <<>> \in Seq(EngineIds) /\ Len(<<>>) = 0
    BY EmptySeq
  <2>2. Len(wanted) \in Nat
    BY DeploymentsAssumption, LenProperties DEF Init
  <2> QED BY <2>1, <2>2, DeploymentsAssumption DEF Init, EngineInv
<1> QED BY <1>1, EngineStep, TypesHold, SlotInvHolds, PTL DEF Spec

(* Whatever clients and engines do, a status, a body and an engine are     *)
(* true to the synthesis: no 200 without audio, no whole body with a hole  *)
(* or of a text the engine failed on, no engine that is not loaded.        *)
THEOREM AnswersAreFaithful == Spec => []AnswersFaithful
<1>1. Types /\ AudioInv => AnswerFitsOutcome
  <2> SUFFICES ASSUME Types, AudioInv, NEW r \in Requests
               PROVE  /\ answer[r] \in {"200", "whole", "cut", "left"} => got[r] # <<>>
                      /\ answer[r] = "500" => made[r] = 0
                      /\ kind[r] = "probe" /\ answer[r] = "200" => r \notin failed
                      /\ kind[r] = "probe" /\ answer[r] = "503" => r \in failed \/ made[r] = 0
    BY DEF AnswerFitsOutcome
  <2> QED BY DEF AudioInv, FaithfulFor, Faithful, Health
<1>2. Types /\ AudioInv => ServedWhole
  <2> SUFFICES ASSUME Types, AudioInv, NEW r \in Requests
               PROVE  /\ got[r] = [i \in 1..Len(got[r]) |-> i]
                      /\ answer[r] = "whole" => Len(got[r]) = made[r] /\ r \notin failed
    BY DEF ServedWhole
  <2>1. got[r] \in Seq(Nat) /\ \A i \in 1..Len(got[r]) : got[r][i] = i
    BY DEF AudioInv, FaithfulFor, Faithful
  <2>2. got[r] = [i \in 1..Len(got[r]) |-> i]
    BY <2>1, LenProperties
  <2> QED BY <2>2 DEF AudioInv, FaithfulFor, Faithful, Health
<1>3. EngineInv => OneRuntimePerVoice
  <2> SUFFICES ASSUME EngineInv PROVE OneRuntimePerVoice
    OBVIOUS
  <2>1. /\ DOMAIN loaded = 1..Len(loaded) /\ DOMAIN wanted = 1..Len(wanted)
        /\ Len(loaded) <= Len(wanted) /\ Len(loaded) \in Nat /\ Len(wanted) \in Nat
    BY LenProperties DEF EngineInv
  <2>2. ASSUME NEW i \in DOMAIN loaded, NEW j \in DOMAIN loaded, loaded[i] = loaded[j]
        PROVE  i = j
    <3>1. Enabled(wanted)
      BY <2>1, EmptySeq DEF EngineInv
    <3>2. i \in DOMAIN wanted /\ j \in DOMAIN wanted
      BY <2>1
    <3>3. EngineOf(wanted[i]) = EngineOf(wanted[j])
      BY <2>1, <2>2 DEF EngineInv
    <3> QED BY <3>1, <3>2, <3>3 DEF Enabled
  <2>3. IsInjective(loaded)
    BY <2>2 DEF IsInjective
  <2>4. \A r \in Requests : st[r] \in {"waiting", "first", "body"} => engine[r] \in ToSet(loaded)
    BY <2>1 DEF EngineInv, ToSet
  <2> QED BY <2>3, <2>4 DEF OneRuntimePerVoice
<1> QED BY <1>1, <1>2, <1>3, TypesHold, AudioInvHolds, EngineInvHolds, PTL DEF AnswersFaithful
=============================================================================
