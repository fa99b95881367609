---------------------------- MODULE KokoroService ----------------------------
(***************************************************************************)
(* gpu/kokoro_service/app.py: the self-hosted text-to-speech service.  It  *)
(* readies the engines TTS_ENGINES names, then answers syntheses.  A       *)
(* request takes a slot of an asyncio.Semaphore(workers), hands `produce`  *)
(* to a ThreadPoolExecutor of as many threads and reads what the thread    *)
(* posts through a queue of its own.  The slot belongs to the request and  *)
(* the thread to the synthesis: a client that goes away ends the first and *)
(* not the second.                                                         *)
(*                                                                         *)
(* A segment of audio is its number; what the engine makes of a text is    *)
(* any number of segments up to MaxSegments, then an end or a failure.     *)
(***************************************************************************)
EXTENDS Naturals, Sequences, FiniteSets, SequencesExt

CONSTANTS
    Requests,     \* the HTTP requests
    Workers,      \* KOKORO_WORKERS
    Voices,       \* voice ids a request may ask for
    Deployments,  \* bound: the values of TTS_ENGINES tried
    MaxSegments   \* bound: segments of one synthesis

ASSUME RequestsAssumption == IsFiniteSet(Requests)
ASSUME WorkersAssumption == Workers \in Nat \ {0}
ASSUME DeploymentsAssumption == \A names \in Deployments : names \in Seq(STRING) /\ names # <<>>
ASSUME SegmentsAssumption == MaxSegments \in Nat

VARIABLES
    wanted,     \* TTS_ENGINES, a sequence of backends
    loaded,     \* the keys of `synthesizers`, in loading order
    phase,      \* the lifespan: starting, up or failed
    st,         \* each request: new, waiting, first, body or done
    kind,       \* synthesize, or the deep health probe
    engine,     \* the engine the request was routed to
    answer,     \* the status and, once headers are out, how the body ended
    got,        \* the segments the reader of the stream has taken
    gone,       \* clients that have disconnected
    slots,      \* Semaphore._value
    slotQueue,  \* its waiters
    inFlight,   \* the gauge kokoro_in_flight
    queue,      \* each request's asyncio.Queue
    poolQueue,  \* work the executor has not started
    thread,     \* what each thread of the executor is doing
    made,       \* segments the engine has made of each text
    failed      \* texts the engine failed on

requestVars == <<st, kind, engine, answer, got, gone>>
slotVars == <<slots, slotQueue, inFlight>>
threadVars == <<poolQueue, thread, made, failed>>
bootVars == <<wanted, loaded, phase>>
vars == <<bootVars, requestVars, slotVars, queue, threadVars>>

Threads == 1..Workers
Idle == [on |-> "none", step |-> "idle"]

(* The items of a queue other than segments 1, 2, ...: the end marker None *)
(* and an exception.                                                       *)
End == 0
Error == MaxSegments + 1

-----------------------------------------------------------------------------
(* Configuration and routing                                               *)

(* SYNTHESIZERS: each backend's engine id and the names it can say; Kokoro *)
(* fetches packs by name, so it accepts any and fails later.               *)
EngineOf(backend) ==
    CASE backend = "kokoro" -> "kokoro"
      [] backend \in {"qwen3-tts", "qwen3-tts-vllm"} -> "qwen3-tts"

Backends == {"kokoro", "qwen3-tts", "qwen3-tts-vllm"}

(* enabled_synthesizers(): known backends, and one runtime per engine;     *)
(* the variant only wants the backends to differ.                          *)
EnabledByBackend(names) ==
    /\ ToSet(names) \subseteq Backends
    /\ IsInjective(names)

Enabled(names) ==
    /\ ToSet(names) \subseteq Backends
    /\ \A i, j \in DOMAIN names : i # j => EngineOf(names[i]) # EngineOf(names[j])

(* A voice id: [prefix |-> engine or "bare", name |-> ...].                *)
Route(voice) == IF voice.prefix = "bare" THEN Head(loaded) ELSE voice.prefix

Speaks(e, name) == e = "kokoro" \/ name = "designed"

(* UnknownVoice: no such engine is loaded, or it speaks no such voice.     *)
Known(voice) ==
    /\ voice.prefix = "bare" \/ voice.prefix \in ToSet(loaded)
    /\ Speaks(Route(voice), voice.name)

WarmupVoice == [prefix |-> "bare", name |-> "designed"]

-----------------------------------------------------------------------------
Init ==
    /\ wanted \in Deployments
    /\ loaded = <<>> /\ phase = "starting"
    /\ st = [r \in Requests |-> "new"]
    /\ kind = [r \in Requests |-> "none"]
    /\ engine = [r \in Requests |-> "none"]
    /\ answer = [r \in Requests |-> "none"]
    /\ got = [r \in Requests |-> <<>>]
    /\ gone = {}
    /\ slots = Workers /\ slotQueue = <<>> /\ inFlight = 0
    /\ queue = [r \in Requests |-> <<>>]
    /\ poolQueue = <<>>
    /\ thread = [t \in Threads |-> Idle]
    /\ made = [r \in Requests |-> 0]
    /\ failed = {}

-----------------------------------------------------------------------------
(* lifespan                                                                *)

RefuseToStart ==
    /\ phase = "starting" /\ loaded = <<>>
    /\ ~Enabled(wanted)
    /\ phase' = "failed"
    /\ UNCHANGED <<wanted, loaded, requestVars, slotVars, queue, threadVars>>

(* factory(), then warm_up on the pool; `synthesizers` is keyed by engine. *)
LoadEngine ==
    /\ phase = "starting" /\ Enabled(wanted)
    /\ Len(loaded) < Len(wanted)
    /\ loaded' = Append(loaded, EngineOf(wanted[Len(loaded) + 1]))
    /\ UNCHANGED <<wanted, phase, requestVars, slotVars, queue, threadVars>>

(* The weights do not load, or the warm-up raises.                         *)
LoadFails ==
    /\ phase = "starting" /\ Enabled(wanted)
    /\ Len(loaded) < Len(wanted)
    /\ phase' = "failed"
    /\ UNCHANGED <<wanted, loaded, requestVars, slotVars, queue, threadVars>>

Serve ==
    /\ phase = "starting" /\ Len(loaded) = Len(wanted)
    /\ phase' = "up"
    /\ UNCHANGED <<wanted, loaded, requestVars, slotVars, queue, threadVars>>

-----------------------------------------------------------------------------
(* segments(), with the handler that pulls it                              *)

(* waiting.inc() and the wait for a slot; an unknown voice never waits.    *)
Ask(r, k, voice) ==
    /\ phase = "up" /\ st[r] = "new"
    /\ k = "probe" => voice = WarmupVoice
    /\ kind' = [kind EXCEPT ![r] = k]
    /\ IF Known(voice)
       THEN /\ st' = [st EXCEPT ![r] = "waiting"]
            /\ engine' = [engine EXCEPT ![r] = Route(voice)]
            /\ slotQueue' = Append(slotQueue, r)
            /\ UNCHANGED answer
       ELSE /\ st' = [st EXCEPT ![r] = "done"]
            /\ answer' = [answer EXCEPT ![r] = "400"]
            /\ UNCHANGED <<engine, slotQueue>>
    /\ UNCHANGED <<bootVars, got, gone, slots, inFlight, queue, threadVars>>

(* The semaphore serves its waiters in order; the request then submits     *)
(* `produce`, and waits for its first segment.  The variant does not wait  *)
(* for a slot.                                                             *)
EnterUnslotted(r) ==
    /\ slotQueue # <<>> /\ r = Head(slotQueue)
    /\ slots' = slots - 1
    /\ slotQueue' = Tail(slotQueue)
    /\ inFlight' = inFlight + 1
    /\ st' = [st EXCEPT ![r] = "first"]
    /\ poolQueue' = Append(poolQueue, r)
    /\ UNCHANGED <<bootVars, kind, engine, answer, got, gone, queue, thread, made, failed>>

EnterSlot(r) ==
    /\ slotQueue # <<>> /\ r = Head(slotQueue) /\ slots > 0
    /\ slots' = slots - 1
    /\ slotQueue' = Tail(slotQueue)
    /\ inFlight' = inFlight + 1
    /\ st' = [st EXCEPT ![r] = "first"]
    /\ poolQueue' = Append(poolQueue, r)
    /\ UNCHANGED <<bootVars, kind, engine, answer, got, gone, queue, thread, made, failed>>

(* in_flight.dec() and the end of `async with slots`.                      *)
LeaveSlot ==
    /\ slots' = slots + 1
    /\ inFlight' = inFlight - 1

HoldsSlot(r) == st[r] \in {"first", "body"}

Finish(r, how) ==
    /\ st' = [st EXCEPT ![r] = "done"]
    /\ answer' = [answer EXCEPT ![r] = how]

(* `item := await queue.get()` when it is a segment: the first one commits *)
(* the handler to a 200; the probe only counts.                            *)
TakeSegment(r) ==
    /\ HoldsSlot(r) /\ queue[r] # <<>> /\ Head(queue[r]) \notin {Error, End}
    /\ r \in gone => st[r] = "first"
    /\ got' = [got EXCEPT ![r] = Append(@, Head(queue[r]))]
    /\ queue' = [queue EXCEPT ![r] = Tail(@)]
    /\ st' = [st EXCEPT ![r] = "body"]
    /\ answer' = [answer EXCEPT ![r] = IF kind[r] = "probe" THEN @ ELSE "200"]
    /\ UNCHANGED <<bootVars, kind, engine, gone, slotVars, threadVars>>

(* How the handler answers when the stream ends, by the end marker or by   *)
(* an exception: before the headers by a status, after them by the way the *)
(* body stops.  The variant catches the exception of a started body.       *)
HandlerAnswerQuiet(r, item) == IF st[r] = "first" THEN "500" ELSE "whole"

HandlerAnswer(r, item) ==
    IF st[r] = "first" THEN "500" ELSE IF item = Error THEN "cut" ELSE "whole"

(* The probe reads to the end and wants some audio; the variant does not.  *)
ProbeAnswerDeaf(r, item) == IF item = Error THEN "503" ELSE "200"

ProbeAnswer(r, item) == IF item = Error \/ st[r] = "first" THEN "503" ELSE "200"

(* The end marker, or the exception that comes out of the generator.       *)
TakeLast(r) ==
    /\ HoldsSlot(r) /\ queue[r] # <<>> /\ Head(queue[r]) \in {Error, End}
    /\ r \in gone => st[r] = "first"
    /\ queue' = [queue EXCEPT ![r] = <<>>]
    /\ Finish(r, IF kind[r] = "probe" THEN ProbeAnswer(r, Head(queue[r]))
                                      ELSE HandlerAnswer(r, Head(queue[r])))
    /\ LeaveSlot
    /\ UNCHANGED <<bootVars, kind, engine, got, gone, slotQueue, threadVars>>

(* The client goes away.  A handler still before its headers is not told.  *)
Disconnect(r) ==
    /\ kind[r] = "synthesize" /\ st[r] \in {"waiting", "first", "body"}
    /\ r \notin gone
    /\ gone' = gone \cup {r}
    /\ UNCHANGED <<bootVars, st, kind, engine, answer, got, slotVars, queue, threadVars>>

(* The response is cancelled, which closes the generator: its `finally`    *)
(* and the semaphore's run; `produce` is told nothing.  The variant keeps  *)
(* the slot.                                                               *)
CloseStreamKeepingSlot(r) ==
    /\ r \in gone /\ st[r] = "body"
    /\ queue' = [queue EXCEPT ![r] = <<>>]
    /\ Finish(r, "left")
    /\ UNCHANGED <<bootVars, kind, engine, got, gone, slotVars, threadVars>>

CloseStream(r) ==
    /\ r \in gone /\ st[r] = "body"
    /\ queue' = [queue EXCEPT ![r] = <<>>]
    /\ Finish(r, "left")
    /\ LeaveSlot
    /\ UNCHANGED <<bootVars, kind, engine, got, gone, slotQueue, threadVars>>

-----------------------------------------------------------------------------
(* produce(), on a thread of the executor                                  *)

StartWork(t) ==
    /\ thread[t] = Idle /\ poolQueue # <<>>
    /\ thread' = [thread EXCEPT ![t] = [on |-> Head(poolQueue), step |-> "speaking"]]
    /\ poolQueue' = Tail(poolQueue)
    /\ UNCHANGED <<bootVars, requestVars, slotVars, queue, made, failed>>

(* loop.call_soon_threadsafe(queue.put_nowait, item); nobody reads the     *)
(* queue of a request that is over.                                        *)
Post(r, item) ==
    queue' = IF HoldsSlot(r) THEN [queue EXCEPT ![r] = Append(@, item)] ELSE queue

GoOn(t, step) == thread' = [thread EXCEPT ![t].step = step]

MakeSegment(t) ==
    LET r == thread[t].on IN
    /\ thread[t].step = "speaking" /\ made[r] < MaxSegments
    /\ made' = [made EXCEPT ![r] = @ + 1]
    /\ Post(r, made[r] + 1)
    /\ UNCHANGED <<bootVars, requestVars, slotVars, poolQueue, thread, failed>>

FailSynthesis(t) ==
    LET r == thread[t].on IN
    /\ thread[t].step = "speaking"
    /\ failed' = failed \cup {r}
    /\ Post(r, Error)
    /\ GoOn(t, "closing")
    /\ UNCHANGED <<bootVars, requestVars, slotVars, poolQueue, made>>

FinishSynthesis(t) ==
    /\ thread[t].step = "speaking"
    /\ GoOn(t, "closing")
    /\ UNCHANGED <<bootVars, requestVars, slotVars, queue, poolQueue, made, failed>>

(* `finally`: the end marker, also after an error.  The variant forgets it.*)
PostNoEnd(t) ==
    /\ thread[t].step = "closing"
    /\ GoOn(t, "returning")
    /\ UNCHANGED <<bootVars, requestVars, slotVars, queue, poolQueue, made, failed>>

PostEnd(t) ==
    /\ thread[t].step = "closing"
    /\ Post(thread[t].on, End)
    /\ GoOn(t, "returning")
    /\ UNCHANGED <<bootVars, requestVars, slotVars, poolQueue, made, failed>>

ReturnThread(t) ==
    /\ thread[t].step = "returning"
    /\ thread' = [thread EXCEPT ![t] = Idle]
    /\ UNCHANGED <<bootVars, requestVars, slotVars, queue, poolQueue, made, failed>>

-----------------------------------------------------------------------------
Boot == RefuseToStart \/ LoadEngine \/ LoadFails \/ Serve

Read(r) == TakeSegment(r) \/ TakeLast(r) \/ CloseStream(r)

Work(t) ==
    \/ StartWork(t) \/ MakeSegment(t) \/ FailSynthesis(t) \/ FinishSynthesis(t)
    \/ PostEnd(t) \/ ReturnThread(t)

Next ==
    \/ Boot
    \/ \E r \in Requests :
        \/ \E k \in {"synthesize", "probe"}, v \in Voices : Ask(r, k, v)
        \/ EnterSlot(r) \/ Read(r) \/ Disconnect(r)
    \/ \E t \in Threads : Work(t)

(* The event loop runs what is ready, and a synthesis comes to an end: the *)
(* engines generate a bounded text and the one behind a socket times out.  *)
Fairness ==
    /\ \A r \in Requests : WF_vars(EnterSlot(r)) /\ WF_vars(Read(r))
    /\ \A t \in Threads : WF_vars(Work(t))

Spec == Init /\ [][Next]_vars /\ Fairness

-----------------------------------------------------------------------------
Steps == {"idle", "speaking", "closing", "returning"}

TypeOK ==
    /\ phase \in {"starting", "up", "failed"}
    /\ st \in [Requests -> {"new", "waiting", "first", "body", "done"}]
    /\ kind \in [Requests -> {"none", "synthesize", "probe"}]
    /\ answer \in [Requests -> {"none", "200", "400", "500", "503", "whole", "cut", "left"}]
    /\ gone \subseteq Requests
    /\ slots \in 0..Workers
    /\ inFlight \in 0..Workers
    /\ \A t \in Threads : thread[t].on \in Requests \cup {"none"} /\ thread[t].step \in Steps
    /\ made \in [Requests -> 0..MaxSegments]
    /\ failed \subseteq Requests

(* Whether a stream ends by itself, by an error, or because its client     *)
(* left, exactly one slot comes back, and the gauge of running syntheses   *)
(* counts the requests that hold one.                                      *)
SlotsConserved ==
    LET holders == {r \in Requests : HoldsSlot(r)} IN
    /\ slots + Cardinality(holders) = Workers
    /\ inFlight = Cardinality(holders)

(* "Pull the first segment before committing to a 200": a client is        *)
(* promised audio only once there is some, and told of a failure by the    *)
(* status whenever there was none.  The probe calls the service healthy    *)
(* only if the engine spoke to its end.                                    *)
AnswerFitsOutcome ==
    \A r \in Requests :
        /\ answer[r] \in {"200", "whole", "cut", "left"} => got[r] # <<>>
        /\ answer[r] = "500" => made[r] = 0
        /\ kind[r] = "probe" /\ answer[r] = "200" => r \notin failed
        /\ kind[r] = "probe" /\ answer[r] = "503" => r \in failed \/ made[r] = 0

(* The client has, in order and without a hole, the first segments the     *)
(* engine made; a body that ends as it should has all of them, and never   *)
(* one the engine failed in the middle of.                                 *)
ServedWhole ==
    \A r \in Requests :
        /\ got[r] = [i \in 1..Len(got[r]) |-> i]
        /\ answer[r] = "whole" => Len(got[r]) = made[r] /\ r \notin failed

(* The engine a stream was opened on is one the deployment loaded, and an  *)
(* engine id means one runtime: two backends of one engine never load.     *)
OneRuntimePerVoice ==
    /\ \A r \in Requests : st[r] \in {"waiting", "first", "body"} => engine[r] \in ToSet(loaded)
    /\ IsInjective(loaded)

(* The semaphore is what makes requests wait, and kokoro_waiting what      *)
(* counts them: as long as nobody hangs up, a request that has a slot also *)
(* finds a thread, idle or about to be.                                    *)
NoHiddenQueue ==
    gone = {} =>
        Len(poolQueue) <= Cardinality({t \in Threads : thread[t].step # "speaking"})

(* However clients come and go, a request that was let in is answered:     *)
(* slots and threads always come back, the orphans' too.                   *)
EveryRequestEnds == \A r \in Requests : st[r] = "waiting" ~> st[r] = "done"

(* A slot is a promise of a thread: it comes back once, and while clients  *)
(* stay, whoever has it is not queued behind a second, uncounted line.     *)
SlotsSafe == TypeOK /\ SlotsConserved /\ NoHiddenQueue

(* Status, body and engine of an answer fit what the engine did, wherever  *)
(* in the audio it fails and whoever leaves.                               *)
AnswersFaithful == AnswerFitsOutcome /\ ServedWhole /\ OneRuntimePerVoice
=============================================================================
