# Verification of voice-cost-bench

TLA+ models of voice-cost-bench, the model-checking runs over them and the theorems
proved about them. The repository is a voice agent that answers calls over LiveKit with
one of two pipelines (commercial APIs, or models served on one's own GPU), bills every
call segment by segment, and compares what the pipelines cost. Everything here is
translated from the code; `PROJECT.json` maps each definition to its lines.

Run a check with `tlc -config <Run>.cfg <Module>` and a proof with `tlapm <Module>.tla`.

## 1. Inventory

Paths are below `backend/` unless they start with `gpu/`.

### The control of a call

| Component | State | Operations | What makes it correct |
|---|---|---|---|
| Concurrency supervisor (`application/services/concurrency_supervisor.py`) | active ids, the integral of 1/active, last update, peak; one lock | `acquire`, `release`, `share_cursor` | admission never exceeds the ceiling; shares of all calls add up to the pool's busy time |
| Call meter (`application/services/call_meter.py`) | segment start, share cursor, audio seconds, billed seconds | `add_stt_audio`, `peek`, `close_segment` | segments tile the call; audio and GPU time are billed once |
| Start and end (`application/use_cases/start_call.py`, `end_call.py`) | the call's row, its slot, its meter | `execute` of each, with every failure between | a refused call leaves nothing behind, a failed start no slot; an ended call gives its slot back |
| LiveKit agent (`interfaces/agent/livekit_agent.py`) | one job per thread, a room-join lock, a frame pump | `entrypoint` | a job that ends, ends its call |
| Call session (`application/use_cases/call_session.py`) | frame loop, turn task, transcript task, ticker, pending flush, carried text, hang-up time | `run`, `_on_audio`, `_barge_in`, `_run_turn`, `_consume_stt` | no word lost, doubled or out of order; no turn during a hang-up; leaving ends the call, truthfully |
| Turn pipeline (`application/use_cases/handle_call_turn.py`) | a task group: generator, synthesizer, workers, player; three kinds of queue | `execute` | audio in order, bounded lookahead, cut-off turns billed and silent, every turn recorded |
| Streaming STT (`infrastructure/stt/`) | sender and receiver tasks, a timer per flush, an output queue | `stream` | every flush answered exactly once, with everything said before it |
| Endpointing (`application/services/endpointing.py`, `infrastructure/vad/energy_vad.py`, `infrastructure/endpointing/`) | speech tracker, transcript tracker, cached wait, a question to a turn model | `observe_audio`, `observe_transcript`, `observe_agent_turn`, `should_commit`, `reset` | turns committed in a pause, within the detector's waits, on current information |

### The services on the GPU

| Component | State | Operations | What makes it correct |
|---|---|---|---|
| Whisper service (`gpu/whisper_service/app.py`) | slots, thread pool, one utterance and one interim per socket, sessions with a lock | frame, flush, close; interim, final | slots conserved; answers in order and whole; nobody waits for ever |
| Kokoro service (`gpu/kokoro_service/app.py`) | slots, thread pool, a queue per request, loaded engines | `synthesize`, `health`, startup | an abandoned stream gives its slot back; chunks in order; a status that fits what the engine did |

### Around a call

| Component | State | Operations | What makes it correct |
|---|---|---|---|
| Process supervisors (`interfaces/container.py`) | the registry of supervisors | `process_supervisors` | one count per pool |
| Telemetry (`infrastructure/telemetry/`, `frontend/lib/useLiveMetrics.ts`) | bounded queues, replay buffers, a gauge of active calls, a panel | `emit`, drain, `aclose`, `subscribe` | calls are never held up; replay joins live events; the gauge returns to zero; the panel learns of the end |
| Running engines (`infrastructure/running_engines.py`) | a cached probe per service and loop | `report` | one probe in flight per service; no answer older than its time; nobody waits for ever |
| What a deployment lets through (`application/use_cases/start_call.py`, `describe_components.py`, `infrastructure/pipeline_factory.py`, `config/component_catalogue.py`) | settings, the catalogue | EU-only gate, spend limit, voice check, pipeline choice, description | refusals rest on evidence; overspending is bounded; what is described is what ran |
| Repositories (`infrastructure/persistence/`) | rows of calls and of turns | `add`, `add_turn`, `update`, `get`, `list`, `total_spend_usd` | reports see whole calls; a completed call is final; the spend read is a spend that was |
| Load harness (`interfaces/cli/`, `infrastructure/transport/paced_output.py`, `infrastructure/simulated/`) | a synthetic caller, its pacer, a virtual speaker, a level, a sweep | `frames`, `tick`, `write`, `clear`, `run`, `summarise_level` | the delay measured is the caller's; every call and turn is counted; the breaking point is one |
| Domain algorithms (`domain/services/`, `domain/entities/`) | none | cost of a segment, percentiles, memory plan | equal to their reference definitions |
| Text rules (`application/services/sentence_chunker.py`, `farewell.py`) | the chunker's buffer | `push`, `flush`, `call_is_over` | no text lost or reordered |
| Text-to-speech, LLM, LiveKit audio, configuration, HTTP, frontend | per request | adapters and queries | conversions and I/O |

### How they interact

A LiveKit job runs in a thread of the agent's process. Its event loop calls `StartCall`,
which takes a slot of the supervisor shared by all threads, then `CallSession.run`, whose
`finally` calls `EndCall`. The session feeds caller frames to the endpoint detector and to
the STT stream; the detector's commit starts a turn task, which sends a flush down the
stream and waits for its answer, then runs the turn pipeline. Barge-in sets the turn's
interrupt and clears the output. The turn pipeline bills its segment through the meter,
which reads the supervisor's cursor. The STT stream is a WebSocket to Deepgram or to the
Whisper service, where each socket's handler shares a pool of threads with all the others.

Around it: `StartCall` first asks the repository what was spent and the speech services
what they run; every turn is written to the repository and announced to the metrics sink,
which posts it to the API's process, where the gauge, the history and the browsers' streams
take it. The load harness calls `StartCall` and `CallSession` in its own process, with a
synthetic caller at one end and a virtual speaker at the other.

### What is hard here

* **Threads and a clock**: job threads read the clock, then wait for the supervisor's lock,
  or for the database, and use the old reading.
* **Timers against answers**: two flush timeouts (0.8 s in the adapter, 1.0 s in the
  session), a hang-up timer, the silence ceiling, each racing what it stands in for.
* **Answers without names**: nothing in an STT answer says which flush it answers.
* **Cancellation**: barge-in cancels a task group at any await; cancelling an asyncio task
  does not stop its thread.
* **A cache shared by requests**: one probe answers many, for a minute, while what it asks
  about is deployed anew.
* **Two queries for one answer**: sums and listings are read while calls write; a commit
  that was reported as failed may have been applied.
* **Measuring in real time**: the harness is itself a program that can be late.
* **Partial failure**: the database, a provider, a socket, the job itself fail between any
  two steps of admission, of a turn and of the end.

`PROJECT.json` lists each hazard at its line with the properties that cover it.

## 2. Modules

| Module | Models | State and actions |
|---|---|---|
| `ConcurrencySupervisor` | the class | one action per method, each atomic because the method holds the lock; a ledger records what the cursors handed out should add up to |
| `CallLifecycle` (extends it) | `StartCall`, `CallMeter`, `EndCall`, the job | a program counter per thread; a clock reading and the operation it is used for are two actions; awaits are steps |
| `CallSession` | `CallSession` | an action is what one task does between two awaits; words are numbered in the order they are said |
| `TurnPipeline` | `HandleCallTurn` | the tasks of the group, their queues, and the group's cancellation |
| `FlushContract` | what `SttPort.stream` promises | ask, answer, finish |
| `WebSocketStt` | `ws_stt_base.py` and a server | sender, receiver, timers and generator; the server may be late, silent or gone |
| `EndpointDetector` | what `EndpointDetector` (the port) promises | speech, quiet, commit |
| `Endpointing` | the three detectors, `EnergyVad`, and the session's calls to them | frames, transcripts, verdicts and replies |
| `WhisperService` | `gpu/whisper_service/app.py` | handlers, interim tasks, semaphore, pool threads, sessions of three engines; an utterance is a count of frames and a text the frames it is of, `Text(since, upto)` |
| `KokoroService` | `gpu/kokoro_service/app.py` | requests, semaphore, pool threads, each request's queue; the thread belongs to the synthesis, the slot to the request |
| `Telemetry` | `HttpMetricsSink` → API → `PrometheusMetricsSink`, `InMemoryMetricsSink` → SSE → browser | events are numbers; a post is answered, fails, or times out and arrives later or not |
| `RunningEngines` | `running_engines.py` | entries of `_answers` with their time and loop, probes, callers |
| `CallGate` (extends it) | EU-only gate, `StartCall`'s checks, `PipelineFactory`, `DescribeComponents` | a deployment is fixed at startup; a call's checks are its awaits |
| `Pricing` | `cost_calculator.py`, `cost.py` | operators on whole numbers of a sixtieth of the last digit kept, with the divisions of the calculator (60, 1000, 3600 and the calls that share) and the rounding of each column |
| `CallStore` | what use cases expect of a repository, as `inmemory_call_repository.py` has it | a map of calls, one step per operation |
| `CallRecords` (extends `Pricing`) | `postgres_call_repository.py` with the calls that write and the reports that read | transactions over a connection that may break before or after a commit, or apply it later; reads of two queries |
| `GpuBudget` | `gpu_memory_budget.py`, `check_gpu_budget.py` and the figures of the catalogue | operators |
| `SyntheticCaller` | `caller.py`, `paced_output.py` | windows of 20 ms; the agent between caller and speaker may do what a session may |
| `LoadSweep` (extends it) | `loadtest.py`, `runner.py`, `report.py`, `latency_analyzer.py` | levels, callers' loops, verdicts |
| `MC*` | | the constants of the runs |
| `*Proofs` | | theorems and their proofs |

`CallLifecycle` is composed with `ConcurrencySupervisor` by EXTENDS: its actions call the
component's operations. `CallSession` takes the behaviour of `WebSocketStt` as its
transcript stream (`SttHears` ... `SttAnswersShifted`: an answer may come late and be
taken for the next flush's) and that of `TurnPipeline` as a turn in phase *executing* or
*recording*. `Endpointing` has the session's side of the detector (`CommitFrame` and the
turn task) so that a reset races the transcript it resets. `CallGate` is composed with
`RunningEngines` by EXTENDS: its calls and descriptions are the callers of the cached
probe. `CallRecords` implements `CallStore` (INSTANCE with the tables read as a map of
calls). In `LoadSweep` the first call of a level of one self-hosted caller is the detailed
call of `SyntheticCaller`; every other call is over in one step, with an outcome
`SyntheticCaller` allows, so that the sweep's counts rest on the detailed call's.

Conventions of the models:

* Time is a count where a duration matters (`CallLifecycle.clock`, `Endpointing.silence`)
  and otherwise an action that may happen at any moment (timers).
* In `SyntheticCaller` the loop may be late: `Pass` moves the clock past a sleeper's time
  by up to `MaxLate`.
* Speech is a sequence of numbered words, a text a sequence of them, so that loss,
  repetition and reordering can be told apart. In `Endpointing` a text is how it ends.
* A definition named for a mistake (`FullOffByOne`, `WakeNobody`, ...) is not used by the
  specification. It stands beside the definition it would replace, and each property is
  broken by one of them.

## 3. Runs

Passing runs explore the whole bounded state space. A property of a run is often a
conjunction of named parts, the type invariant among them; the parts are given in
brackets and are stated one by one in the module.

| Run | Question | Result and bounds |
|---|---|---|
| `call_shares` | Are wall time, audio and GPU shares billed once? | Two threads, clock 0..2, one turn and one second of audio each. Both orders of every pair of reading and lock occur, as does the rewind of the supervisor's clock, which takes two calls and one tick. `UsageBilledOnce` (`TypeOK`, `WallBilledOnce`, `AudioBilledOnce`), `ShareConservation`, `NoShareBelowFloor`, `ExcessOnlyFromRewinds`. |
| `call_admission` | Who holds a slot, and is it given back? | Three calls on a pool of one, one of them an API call; every failure of admission and of the end, with a commit that was reported as failed applied at any later time or never. A third contender adds nothing: a slot is fought over by two. `AdmissionExact` (`CeilingRespected`, `SlotHeldByLiveCall`, `RefusedLeavesNothing`, `PhantomsAreFailedCommits`) and, under fairness, `EndingGivesSlotBack`. |
| `call_session` | Where are the caller's words, and how does the call end? | Two environments: four words and a stream that may be late, and two words with everything failing, the ticker included, and every timeout firing. Four words are two turns cut off and a third that joins them. `WordsKept` (`TypeOK`, `WordsAccounted`), `NoTurnDuringHangUp`, `CompletedCleanly`, `LeavingEndsCall`. |
| `turn_pipeline` | Order, lookahead, bills, silence, termination | Three sentences of up to two chunks, lookahead two: one more sentence than the queue holds, so that the synthesizer blocks. `HeardAsWritten` (`TypeOK`, `PlayedInOrder`, `CompleteIsHeard`), `LookaheadBounded`, `RequestedIsBilled`, `QuietAfterRecord`, `TurnEnds`. |
| `stt_contract` | Does the adapter keep the port's contract? | Two flushes, which may overlap, two words; a server late, silent or gone. `FlushesAnswered` (`AnsweredOrArmed`, `OwnAnswerCompletes`), and `FlushContract` as a refinement, with its liveness (`ImplementsContract`). |
| `endpointing` | Do the detectors keep the port's promise? | Each detector, frames one or two units apart (a late frame skips a wait's boundary), waits of 1 to 4 units, all orders of transcripts, verdicts and replies. `NothingStale` (`DetectorTypes`, `AskedOncePerPause`, `VerdictOfThisPause`, `CacheFresh`), `ImplementsPort`. |
| `whisper_service` | Slots, order and wholeness of answers, deadlock | One socket with a flush of two voiced frames, of which a buffer keeps one, and a flush of silence; one with a flush of one frame and an utterance after it; two workers, three engines, a server that goes quiet during a finish. Two workers are needed for an interim and a final of one session to be on threads at once. `SlotsSafe` (`TypeOK`, `SlotsConserved`), `AnswersFaithful` (`AnswersInOrder`, `FinalIsWhole`, `LocalStepsInOrder`), `NobodyStuck`, and of every step `NothingTakenBack`. |
| `kokoro_service` | Slots, statuses, order, termination | Three requests, syntheses or probes, on one worker: one that speaks, one left behind whose thread goes on, and one that has the slot and waits for the thread. Up to two segments, so that an engine fails before, between and after them. `SlotsSafe` (`TypeOK`, `SlotsConserved`, `NoHiddenQueue`), `AnswersFaithful` (`AnswerFitsOutcome`, `ServedWhole`, `OneRuntimePerVoice`) and, under fairness, `EveryRequestEnds`. `NoHiddenQueue` is stated for clients that stay: with one gone its thread is still taken, and the next request waits where no gauge counts it. |
| `telemetry` | From the agent to the panel | One call of five events; a queue of two, a history of two and a stream of three, so that each overflows; one post that times out, one restart of the API, one lost connection. `EventsOnce` (`TypeOK`, `IngestedOnceInOrder`, `GaugeSettles`), `PanelFaithful` (`NoSeamInTheStream`, `PanelOncePerTurn`, `PanelComplete`) and, under fairness, `EndIsReached` (`CallAlwaysCloses`, `EndReachesPanel`). |
| `call_gate` | On what evidence are calls refused and engines described? | Two calls (API, or self-hosted with and without an engine in the voice) and a description; four deployments (real services without the keys of the API, simulated pipelines, the EU-only profile with and without an engine that leaves the EU), two ticks with a ttl of two, one new deployment of the service, two event loops. Two loops and one expiry are what an entry can meet. The query of the spend and its answer are two steps, between which the other call asks, spends and ends; a probe is answered, fails, or dies of an exception nobody catches. `EvidenceIsFresh` (`AnswersAreFresh`, `VoiceRefusedOnEvidence`, `ConfirmedIsWhatRan`), `AdmittedWithinPolicy` (`AdmissionTypes`, `EuOnlyStaysInEu`, `OverspendIsBounded`), `ProbesAreApart` and, under fairness, `EveryoneIsAnswered` (`CallersAreAnswered`, `GateDecides`). |
| `call_records` | What do reports see of calls that are being written? | Two calls, of one pipeline or of two, a turn each and the tail, two rate cards, one break of the connection, which may apply its commit at any later time. Two calls are needed for a listing to take one and miss another. With the prices and seconds of the run every column that has a price rounds: up, down, or at exactly half a digit, so that the bound of `RepricingAgrees`, half a digit for each segment and stage, is met. `ReportsAreTrue` (`TypeOK`, `ComparedWhole`, `SpendBetween`, `RepricingAgrees`), `CompletedIsFinal`, and `CallStore` as a refinement (`ImplementsStore`). |
| `load_harness` | Is what the harness measures what happened? | Levels of one caller and of two, up to three calls; one conversation with a pause in an utterance, one with an utterance nobody can hear; an agent that answers early, late or never, is interrupted, hangs up or fails; frames late by up to one window. The clock's bound is never reached (`CallerGetsThrough` says so). Every deployment of `GpuBudget` with at most three components and figures up to the card's size. `TurnsAccounted` (`TypeOK`, `EachTurnCountedOnce`, `UnansweredMeansTimedOut`), `DelaysAreTrue` (`TimedWhenHeard`, `LatenessIsSeen`), `VerdictsAreSound` (`NeverOverfull`, `StopsAtTheBreak`, `VerdictIsCertain`) and, under fairness, `EveryCallIsOver` (`CallerGetsThrough`, `EveryCallCounted`). |

Most runs have `CHECK_DEADLOCK FALSE`: a call, a stream or a turn is over at last, and then
nothing happens. `endpointing` describes a detector that is fed for ever and checks it.

### What the code does and its documentation does not say

The models have these behaviours. The runs' properties are stated so as to hold all the
same, and say in each case how far the sentence of the repository does.

* **A second shared twice.** `StartCall` reads the clock, awaits the repository and the
  metrics sink, and builds the meter with the old reading (`start_call.py:98-130`);
  `share_cursor` stores it as the last update (`concurrency_supervisor.py:83-86`) and the
  interval since is added to the integral once more. "Cost is conserved, never
  double-counted" (`concurrency_supervisor.py:29-30`) holds up to exactly what such
  readings rewound (`ShareConservation`, `ExcessOnlyFromRewinds`).
* **A slot that is lost.** A job that fails between `StartCall` and `CallSession.run`
  (`livekit_agent.py:124-132`) never reaches `EndCall` and keeps its slot until the process
  ends (`AbandonCall`). So does a session whose ticker died of an exception: the cleanup
  awaits the ticker and suppresses only its cancellation (`call_session.py:119-122`), so the
  exception is raised there and `EndCall` skipped (`TickerDies`, `LoseEnd`). Nothing else can
  skip it, as `LeavingEndsCall` says; a second cancellation is swallowed by the await it
  meets. The ticker can die of pricing, not of a sink: `CompositeMetricsSink` swallows what
  sinks raise. A sink that raised or was cancelled in the "started" event, which is emitted
  after the `except` that backs out (`start_call.py:117`), would strand slot and row
  (`EmitFails`). `SlotHeldByLiveCall` counts all these calls among the holders.
* **A row without a call.** `repository.add` may raise although its commit was, or will be,
  applied; the start is backed out and its row stays active (`start_call.py:112-115`). "None
  persists a call" (`:86`) holds of the three refusals it names (`RefusedLeavesNothing`), not
  of a start that failed; `PhantomsAreFailedCommits` says that failed commits, there and at
  the end, are the only source of such rows.
* **The budget is read before it is used.** The query of the spend is awaited and compared
  after it (`start_call.py:88-89`): a call can pass on a sum older than what others have spent
  and ended with since. `OverspendIsBounded` counts every call from its question on.
* **Thirty seconds.** An utterance of the buffered engine keeps its newest 30 s ("older
  audio is dropped", `gpu/whisper_service/app.py:48`, `:476-477`), and a remote engine whose
  server is quiet answers a flush with "the deltas it has" (`:277-280`, `:414-415`).
  `FinalIsWhole` speaks of all other audio, and `NothingTakenBack` of the partial answer: it
  is of no less than what was sent before it.
* **A figure nobody can parse.** `_ask` turns errors of HTTP and of the report's form into
  `EngineReportUnavailable`, but a `gpu_fraction` that is no number raises
  `decimal.InvalidOperation` (`running_engines.py:21`, `:78`), which is cached with the probe
  and fails every call that asks until the entry expires (`ProbeBreaks`). The two seconds of
  the client are httpx's limit for each operation, not for the probe, which is one step here.
* **Exact sums.** "10 decimal places keep sums exact" (`models.py:9`) is so of token prices;
  minutes, thousands of characters and hours of the GPU divide first, and the columns round
  what they give (`RepricingAgrees`).
* **A sink that died.** `HttpMetricsSink.aclose` raises the exception its drain task died of
  (`http_metrics_sink.py:54-57`); its client then stays open, and the job's `finally` skips
  `dispose` and `shutdown` (`livekit_agent.py:165-168`). `Telemetry` lets the drain die
  (`DrainDies`); what `aclose` raises after the call's last event (`FinishClose`) is left out.
* **An answer taken for the next.** The server's answer to a flush whose timer has fired is
  taken for the answer to the next (`ws_stt_base.py:83-85`), so a flushed final need not be
  complete, as `stt_port.py:21` has it. Answers in time are (`OwnAnswerCompletes`).
* **Hung up on while talking.** Barge-in on a goodbye clears a hang-up
  (`call_session.py:180-183`) that is armed only afterwards, when the interrupted turn
  concludes (`:232-235`), although the README of the repository says "talk over her goodbye
  and she stays on the line". Once armed, it is called off as it says (`FrameBeforeHangUp`).
* **Words of the last turn.** A turn's transcript reaches the semantic detector after the
  reset that its commit made (`call_session.py:152-153`, `:257`) and decides the wait of the
  next turn until its own first transcript comes.
* **Two supervisors.** `process_supervisors` (`container.py:59-64`) looks and assigns
  without a lock; two job threads that build the first two containers at once make two.
  The models start from one.
* **Failed calls among the completed.** `CallSession.run` returns normally, with the call
  marked failed, when the transcript stream failed; the harness counts such a call in
  `calls_completed` (`runner.py:101-107`), and `LoadSweep` does as it does.
* **A level without a turn.** Its p95 is 0 and within budget, so it can be the last level
  "within budget" (`report.py:160-162`). `StopsAtTheBreak` speaks of levels that timed one.
* **Levels in any order.** `--levels` is taken in the order given (`loadtest.py:65`,
  `:188`), and the breaking point is the first level over budget in that order, although a
  smaller one that came later may be over it too (`report.py:145-157`). `StopsAtTheBreak` is
  about levels in rising order.
* `WhisperService`: with a connection per session and several threads, a cancelled interim
  whose thread has not yet taken the session's lock may step after `finish()`, although
  `gpu/whisper_service/app.py:154-155` says "Nothing is called after `finish`", and reopen a
  connection that nothing closes. `LocalStepsInOrder` holds because the local engine has one
  thread.
* After a connection is lost, a flush pending then stays unanswered; the contract therefore
  says "or the stream is over", which the sentence in `ws_stt_base.py:21` does not.

### Fairness

Weak fairness only, and only for steps the program's own scheduler takes:

* `CallLifecycle`: a thread inside an operation goes on, since the lock is held for a few
  assignments. No fairness of callers, of the clock or of the database.
* `CallSession`: the event loop runs the turn task, the cleanup and the flush timeout;
  `HandleCallTurn` ends, which is what `TurnPipeline` shows (`TurnEnds`); the database
  answers or raises; the cleanup ends the call, or loses its end to a dead ticker. None of
  the caller or of the stream: `LeavingEndsCall` is claimed of a session whose own timeout
  fires, since nothing else bounds a silent stream.
* `KokoroService`: the event loop runs what is ready and an engine's generation ends or
  raises. None of clients, who may leave or stay.
* `Telemetry`: the call goes on to its end, the drain task runs, a client's timeout fires,
  the browser's `EventSource` reconnects and reads. A late post need not arrive.
* `CallGate`: coroutines that can go on do, the query of the spend is answered or raises, and
  a probe ends, since its client has a timeout of two seconds. Nobody has to call, and time
  need not pass.
* `LoadSweep`: time passes, and the loop runs the caller once its sleep is over. None of
  the agent: the caller gives up waiting by itself.
* `TurnPipeline`: LLM and syntheses end or raise (their HTTP clients have timeouts) and a
  write returns or raises.
* `WebSocketStt`: timers fire, tasks that can go on do. None of the server.

`NobodyStuck` of `WhisperService` is a safety property (some step of the service is
enabled while somebody waits), so it needs no fairness; the service's own steps are
finitely many between two requests.

## 4. Proofs

All proofs hold for every value of the constants that satisfies the named assumptions, and
the theorems are about the same definitions that the runs check.

**Supervisor** (first part of `CallLifecycleProofs`). Assumes a positive ceiling, and a unit
that every number of active calls divides, which stands for exact division.
`SupervisorSafe`: types, ceiling and conservation together are inductive for readings in any
order. Conservation is stated with a ledger: what the shares of past and present calls sum
to is the busy time plus `rewound`. The key lemmas are `AdvanceAccrues` (an operation adds
to the integral what the interval is worth, divided by the active calls) and `SliceIsExact`.

**Call lifecycle** (the rest of `CallLifecycleProofs`). `LifecycleImplementsSupervisor`:
every step of the composed system is one supervisor operation with a reading the thread
really took, or leaves the supervisor alone. The supervisor's theorems carry over
(`LifecycleConservesShares`). `AdmissionIsExact` rests on `SlotInv`: the slots as
`SlotHeldByLiveCall` has them, and where a row, or a commit still to come, can have come from
(`RowOrigins`). `BillsAreFair` is inductive only
together with the cursor a thread remembers being at most the integral, and the floor being
kept by the open segment too. `UsageIsBilledOnce` adds that what was charged for audio is
what was marked as billed (`UsageInv`). `ExcessIsOnlyRewinds` is the bound from above, by the
mirror image of the floor's argument (`CapInv`): between two operations the integral grows by
at most what the clock and `rewound` move together.

**Call session** (first part of `CallProofs`). `HangUpIsExclusive` is inductive as it stands.
`CompletedMeansClean` needs `EndInv`: the cleanup is entered by an exception only as a
failure, and once the turn was waited for no error is uncounted and no turn is left to fail.
`CallersWordsAreKept`: no word of the caller is lost, said twice or out of order between the
transcript stream and the history, as long as the session does not give up waiting. It needs
`TurnInv` (what a turn holds in which phase), `FlushInv` (a flush is on its way exactly while
a turn waits for it) and `WordsInv`: the history, the line not yet answered, the turn's text,
the carried words, the text a late answer will bring, the finals and what the server has
heard each span an interval of word numbers, and each interval starts where the one before
it ends.

**Turn pipeline** (first part of `TurnProofs`). `LookaheadHolds` needs `QueueInv`: the
playback queue holds exactly the sentences after the one being played, in order, then perhaps
the end; the number taken follows from where the synthesizer is. `RecordedTurnIsQuiet` needs
`RecordInv`: a turn is recorded only when its task group is over or has been aborted.
`EveryRequestIsBilled` needs `BillInv`: at least the sentences whose synthesis started are
billed, and the synthesizer is at most one sentence ahead of the bill. `ReplyIsHeardAsWritten`
needs `EndInv` (how the end of the reply travels from the generator through synthesizer and
queue to the player, and why a group is over or aborts) and `PlayInv`: an unstarted synthesis
has made nothing, of every sentence still to come nothing was taken from its queue, of every
past one everything was written, and the sentence being played is split between what was
written and what its queue still holds.

**Endpointing** (second part of `TurnProofs`). Types, then `AskInv` (a question, its future
and its verdict stand and fall together with the pause they are about) and `CacheInv` (the
cached wait belongs to the cached text, whatever the text is now) give `InformationIsCurrent`.
`DetectorsKeepThePort` is a refinement: each step of any detector is a step of the port or a
stutter.

**Streaming speech recognition** (first part of `StreamProofs`). `EveryFlushIsAnswered`: the
events the session gets answer its flushes in the order they were asked, each at most once,
and `pending` is exactly the rest (`AnswersInv`), whatever the timers and the server do.
`WordsInv` says that every word said before a flush is final in an event, in a message on its
way, or still ahead of the flush in a request. With both, `StreamKeepsContract`: every step is
an ask, an answer or a finish of `FlushContract`, or a stutter (the safety part of the
refinement).

**Whisper service** (`WhisperServiceProofs`). Assumes a finite set of sockets.
`SlotsAreSafe` rests on `SlotInv`: the free slots and those of interims and finals make up
the threads; whoever is in the semaphore's line waits, once; nobody waits while a slot is
free and nobody was woken for it. `TaskInv` makes the turn, the answers sent and the interim
of a socket agree. `FlushesAreAnsweredWhole` (an answer to a flush has all the audio of its
turn that a buffer still had, or that the server answered for in time) needs `FinishInv` (a
finish that was submitted is of an earlier utterance, and no work of its session comes
behind it), `WholeInv` (a finish that stepped has given the model all audio before the
flush, and has read all the model has of it unless it lapsed) and `ThreadInv` (no more
threads than the pool has; the local engine's thread is never on a session that is
finished). `TranscriptsOnlyGrow` needs `SaidInv` (nothing was sent that goes beyond what is
available of its utterance) and that a session reads on from what it has read.

**Kokoro service** (`KokoroServiceProofs`). Assumes a finite set of requests. `SlotsAreSafe`
counts. `SlotInv`: the free slots and the requests that hold one are the workers together.
`PlaceInv`: a synthesis is in the pool's line or on one thread, once, and only after its
request took a slot. `ReaderInv`: while it is there, nothing in its queue has told the
request that it is over, so a request that is done without it has left. If nobody left,
every synthesis in the line or on a thread is therefore that of a holder; there are no more
holders than threads, so whoever is in the line has a free thread (`NoHiddenQueue`).
`AnswersAreFaithful` assumes that `TTS_ENGINES` is a non-empty list. It needs `AudioInv`
(what a reader takes next is the next segment, or truthfully how the synthesis ended) and
`EngineInv` (the engines loaded so far are the first ones of the list).

**The gate** (second part of `CallProofs`; the gate's initial states, steps and specification
are `GateInit`, `GateNext` and `GateSpec`, so that one module can extend both). Every step of
a call or a description is one of the cache's operations or leaves the cache alone, so the
cache is reasoned about once. `ProbesStayApart` needs only its types. `EvidenceStaysFresh`
needs `FreshInv`: an entry that holds an answer names engines that ran since its ttl began,
and so does what each caller was told, for probes that are shared, outlived by their loop or
overtaken by a new deployment; then `GateInv`, that decisions are taken on what the caller was
told. `AdmissionKeepsPolicy` assumes finitely many calls. It needs `ProfileInv` (a call goes
on only past the profile check, and is admitted only to a pipeline that can be built) and
`BudgetInv`: what is spent, with what the calls past the budget check may yet spend, is at
most `SpendLimit - 1 + CostPerCall * peak`, where the total is the number of units all calls
spent (`AccountTypes`). A call whose query is under way counts while what it may read is
below the limit: no answer is below the sum at which it was asked (`readFrom`).

**Telemetry** (second part of `StreamProofs`). `EventsTakenOnce` needs `SinkInv`: an event is
in one place (queue, post on its way, or taken in) once (`OnceInv`), whatever is in no place
had trouble while the API is the same (`CoverInv`), and the events taken in without trouble
come before the one being posted, which comes before the queue (`SmoothInv`).
`PanelShowsTheCall` needs `BrowserInv`: the history is a suffix of what was taken in, an open
stream is a suffix of it too, and without a lag what the connection has read is exactly the
part before (`HistoryInv`, `StreamInv`); so a reconnection neither leaves out nor repeats an
event. Sizes of queue, replay and stream are any that `QueueAssumption` and `ReplayAssumption`
allow.

**Call records** (`CallRecordsProofs`). Assumes finitely many calls and prices that are
naturals. `CallInv` is of one call: what its writer is doing (`OpInv`), what a late commit may
still do (`LateInv`), what its row says (`RowInv`), its turns' rows (`TurnInv`), and when
nothing is missing (`WholeInv`); `BillInv` says what its bills may be. `TablesImplementStore`
is the refinement, step by step: a commit, on time or late, is an add, a turn or an update of
`CallStore`, every other step is a stutter. `CompletedCallsAreFinal` follows: a late commit
that could still touch a completed row would break `LateInv`. `ReportsAreTrueAlways` needs
that the spend of the two tables is the sum of what the whole calls spent, and what a report's
first query has found by the time of the second (`Reads`). For repricing, a column and what it
stores are half a digit apart (`RoundedTogether`), and sums of such pairs by half a digit for
each (`SumRounded`), stage by stage. Sums over finite sets are handled
by `SetInduction`, an induction stated for sets instead of predicates, which these provers can
instantiate.

**Load harness** (`LoadSweepProofs`). Assumes `CallerAssumption` and `SweepAssumption`: any
scripts, levels, latencies and figures. `CallInv` is about the detailed call: who runs and who
waits (`PlaceInv`), each utterance is timed, unanswered or awaited (`CountInv`), a lag of the
pacer is seen or will be at its next tick (`LateInv`), and the speaker's queue reaches from
the clock to the moment it falls silent, so that the delay noted is when the first audible
window will be heard; while the caller has something audible left nobody else speaks
(`HearInv`). `SweepInv` is about the level: no more callers than its size, and the calls
started are those completed, failed and under way; `CallsCountedAlways` is its consequence.
`ReportInv` gives `VerdictsSoundAlways`: one summary for every level begun, and over budget
only with a turn that was timed (`LevelsInv`), and a memory answer that is the verdict on the
claims (`BudgetInv`). The lemma `CertainOf` is the argument about unknown figures: the known
claims are the least any card can be asked for, and an unknown one of the whole card and one
more does not fit; sums of naturals grow with their summands (`SumsGrow`).

Model-checked only:

* everything under fairness (`TurnEnds`, `LeavingEndsCall`, `EndingGivesSlotBack`,
  `EveryRequestEnds`, `EndIsReached`, `EveryoneIsAnswered`, `CallerGetsThrough`, and the
  liveness of `FlushContract`): liveness is out of the prover's reach;
* `NobodyStuck`, which is about ENABLED, out of its reach too.

## 5. Plan

In the order of what a mistake would cost; each with the property it is for.

1. A supervisor registry: `process_supervisors` called by two job threads, composed with
   `ConcurrencySupervisor`; two calls with one id, of which the second takes no slot.
2. The LiveKit agent's room-join lock and frame pump, and the cancellation of `run()` at
   shutdown, in `CallLifecycle` or beside it.
3. The data algorithms that are left, each against a reference definition: the sentence
   chunker, the carry of odd bytes of PCM, the rate card's tiers, the stages of a latency
   trace.

## 6. Not modelled

* **Floating point**: time, shares and prices are exact numbers. Prices keep the code's
  rounding to a number of digits (`Pricing`), not the rounding of its sums of floats.
* **Formats, audio samples, model outputs**: data the properties do not tell apart. A
  synthesis or a reply is a worker that ends or raises; what a request, a row or a report
  contains is what some property reads of it. Of SQL, transactions and what a query selects
  are modelled, not the statements.
* **Text rules** (`sentence_chunker.py`, `farewell.py`): character classes and regular
  expressions; their results are inputs of `TurnPipeline` and `CallSession`.
* **Text-to-speech and LLM adapters, LiveKit's audio track**: one request each, local
  state, conversions and I/O.
* **The session's LLM prewarm and its response-delay timeline** (`_listening_since`):
  measurements that steer nothing.
* **The registry of supervisors** (`container.py`): `CallLifecycle` starts with one
  supervisor; see section 3 for what two threads may do.
* **The reasons for refusing a call** are in `CallGate`, its slot and its row in
  `CallLifecycle`, where they are one action, `RefuseUnvetted`, that may happen or not.
  **Distinct calls have distinct ids**: the id is the room's name.
* **Of the harness**: word error rates, provenance, the utilisation curve, the simulated
  GPU, and the 95th percentile of its lateness that marks a level invalid (`report.py:93`,
  `:141`): `LatenessIsSeen` is about the lateness that percentile is taken of. **Of HTTP and
  the frontend**: everything but the stream of events and the panel it feeds. **Of
  configuration**: parsing, personas, and building the adapters.

`PROJECT.json` gives each component's status with its reason.
