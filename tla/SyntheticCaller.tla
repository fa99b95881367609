--------------------------- MODULE SyntheticCaller ---------------------------
(***************************************************************************)
(* One call of the load harness: SyntheticCaller and its Pacer             *)
(* (interfaces/cli/harness/caller.py) and the virtual speaker              *)
(* PacedAudioOutput (infrastructure/transport/paced_output.py), with the   *)
(* CallSession between them as the harness sees it: it takes frames, may   *)
(* commit a turn or be interrupted, writes audio, hangs up or fails.       *)
(*                                                                         *)
(* Time is counted in the 20 ms windows of audio.  The event loop may be   *)
(* late for a sleeper.  An utterance is a sequence of frames, audible or   *)
(* not.                                                                    *)
(***************************************************************************)
EXTENDS Integers, Sequences, SequencesExt

CONSTANTS
    Scripts,      \* bound: the conversations to consider
    Frame,        \* FRAME_S
    ReplyTimeout, \* reply_timeout_s
    MaxQueue,     \* max_queue_s
    Grace,        \* HANG_UP_GRACE_S
    Chunks,       \* bound: the agent's audio: its windows, audible or not
    MaxChunks,    \* bound: chunks in a turn
    MaxLate,      \* bound: how late the loop may be with a frame
    MaxClock      \* bound: the clock; no call takes as long

ASSUME CallerAssumption ==
    /\ {ReplyTimeout, MaxQueue, Grace, MaxChunks, MaxLate, MaxClock} \subseteq Nat
    /\ Frame \in Nat \ {0}
    /\ Scripts \subseteq Seq(Seq(BOOLEAN) \ {<<>>}) /\ Chunks \subseteq Seq(BOOLEAN) \ {<<>>}

VARIABLES
    clock,
    script,
    caller, \* SyntheticCaller and Pacer
    output, \* PacedAudioOutput
    agent,  \* the CallSession
    history

callVars == <<clock, script, caller, output, agent, history>>

Never == -1

(* index:    the utterance being said, or whose answer is awaited (0: the  *)
(*           greeting);                                                    *)
(* position: the next frame of it, 0 in _await_reply();                    *)
(* step:     in tick(): about to look at the clock, or asleep;             *)
(* due:      when the next frame is;                                       *)
(* lateness: the largest in lateness_ms.                                   *)
NewCaller(now) ==
    [index |-> 0, position |-> 0, step |-> "ask", due |-> now, deadline |-> now + ReplyTimeout,
     timeouts |-> 0, lateness |-> Never]

NewOutput(now) ==
    [until |-> now, firstAudio |-> FALSE, stoppedAt |-> Never, unanswered |-> 0, observed |-> 0]

(* observed is the number of caller_observed_ms; the session starts with   *)
(* the greeting's turn.                                                    *)
NewAgent(now) ==
    [phase |-> "live", busy |-> TRUE, chunks |-> 0, writeUntil |-> now, listening |-> FALSE,
     hangUp |-> Never, left |-> "no", error |-> FALSE]

(* stamps:  utterances whose audible end was sent;                         *)
(* lag, lastLag: the largest lag of a frame but the last, and the last's;  *)
(* and, until the caller gives up waiting or the agent answers before they *)
(* have finished (which makes it loose),                                   *)
(* queue:   the windows in the speaker;                                    *)
(* since:   when the caller stopped, if nothing was audible since;         *)
(* noted:   the delays in caller_observed_ms that nobody heard yet;        *)
(* mistimed: another delay was heard.                                      *)
NewHistory ==
    [stamps |-> 0, lag |-> 0, lastLag |-> 0,
     loose |-> FALSE, queue |-> <<>>, since |-> Never, noted |-> <<>>, mistimed |-> FALSE]

Kept(h) ==
    IF h.loose THEN [h EXCEPT !.queue = <<>>, !.since = Never, !.noted = <<>>] ELSE h

NoCall ==
    /\ clock = 0 /\ script = <<>>
    /\ caller = NewCaller(0) /\ output = NewOutput(0)
    /\ agent = [NewAgent(0) EXCEPT !.phase = "none"]
    /\ history = NewHistory

Later(m, n) == IF m > n THEN m ELSE n

-----------------------------------------------------------------------------
(* PacedAudioOutput                                                        *)

Awaiting(out) == out.stoppedAt # Never
UnansweredTurns(out) == out.unanswered + IF Awaiting(out) THEN 1 ELSE 0
Drained(out) == clock >= out.until

(* The variant leaves the time the caller stopped at.                      *)
SpeechStartedOnly(out) ==
    IF Awaiting(out) THEN [out EXCEPT !.unanswered = @ + 1] ELSE out

SpeechStarted(out) ==
    IF Awaiting(out) THEN [out EXCEPT !.unanswered = @ + 1, !.stoppedAt = Never] ELSE out

SpeechEnded(out) == [out EXCEPT !.stoppedAt = clock]

Clear(out) == [out EXCEPT !.until = clock]

(* write(), up to its sleep.  The variant takes what is queued for played. *)
(* FirstAudible is Never for a silent chunk.                               *)
FirstAudible(chunk) == SelectInSeq(chunk, LAMBDA window : window) - 1

Answers(out, chunk) == Awaiting(out) /\ FirstAudible(chunk) # Never

PlaysAtOnce(out) == clock

PlaysAt(out) == Later(out.until, clock)

Delay(out, chunk) == PlaysAt(out) + FirstAudible(chunk) - out.stoppedAt

Written(out, chunk) ==
    [out EXCEPT
        !.firstAudio = TRUE,
        !.observed = IF Answers(out, chunk) THEN @ + 1 ELSE @,
        !.stoppedAt = IF Answers(out, chunk) THEN Never ELSE @,
        !.until = Later(out.until, clock) + Len(chunk)]

-----------------------------------------------------------------------------
(* The session                                                             *)

(* _on_audio(): what a frame that it takes for speech, or not, may lead to. *)
Allowed(does, speech) ==
    \/ does = "listens"
    \/ /\ does = "interrupts"
       /\ speech /\ (agent.busy \/ agent.hangUp # Never)
    \/ /\ does = "commits"
       /\ ~speech /\ agent.listening /\ ~agent.busy /\ agent.hangUp = Never

OnAudio(does, speech) ==
    IF does = "commits"
    THEN [agent EXCEPT !.busy = TRUE, !.chunks = 0, !.writeUntil = clock, !.listening = FALSE]
    ELSE [agent EXCEPT !.listening = @ \/ speech,
                       !.hangUp = IF does = "interrupts" THEN Never ELSE @]

Clears(does) == does = "interrupts" /\ agent.busy

(* A turn writes audio to the speaker.                                     *)
WriteChunk ==
    /\ agent.phase \in {"live", "finishing"} /\ agent.busy
    /\ agent.chunks < MaxChunks /\ clock >= agent.writeUntil
    /\ \E chunk \in Chunks :
        /\ output' = Written(output, chunk)
        /\ agent' = [agent EXCEPT !.chunks = @ + 1,
                                  !.writeUntil = Later(clock, output'.until - MaxQueue)]
        /\ history' = Kept([history EXCEPT
                !.queue = @ \o chunk,
                !.noted = IF Answers(output, chunk) THEN Append(@, Delay(output, chunk)) ELSE @])
    /\ UNCHANGED <<clock, script, caller>>

(* It ends, fails, or was the goodbye; an interrupted one ends in a write. *)
ConcludeTurn ==
    /\ agent.phase \in {"live", "finishing"} /\ agent.busy
    /\ \/ agent' = [agent EXCEPT !.busy = FALSE]
       \/ agent' = [agent EXCEPT !.busy = FALSE, !.error = TRUE]
       \/ /\ agent.chunks > 0
          /\ agent' = [agent EXCEPT !.busy = FALSE, !.hangUp = Later(clock, output.until) + Grace]
    /\ UNCHANGED <<clock, script, caller, output, history>>

(* After the frame loop, run() waits for the turn.                         *)
EndSession ==
    /\ agent.phase = "finishing" /\ ~agent.busy
    /\ agent' = [agent EXCEPT !.phase = IF agent.error THEN "failed" ELSE "completed"]
    /\ UNCHANGED <<clock, script, caller, output, history>>

-----------------------------------------------------------------------------
(* The caller                                                              *)

Speaking == caller.position > 0
Utterance == script[caller.index]
Audible == Speaking /\ Utterance[caller.position]
LastAudible(utterance) == SelectLastInSeq(utterance, LAMBDA audible : audible)
Stamped == Speaking /\ caller.position = LastAudible(Utterance)

(* What ends _await_reply(): the answer has been heard and played, or the  *)
(* caller gives up.  The variants take the agent's first sound for the     *)
(* answer, and wait for the last answer for as long as it takes.           *)
AnsweredOnce(ag, out) == out.firstAudio /\ ~ag.busy /\ Drained(out)

Answered(ag, out) == out.firstAudio /\ ~Awaiting(out) /\ ~ag.busy /\ Drained(out)

GivesUpBeforeTheLast == clock > caller.deadline /\ caller.index < Len(script)

GivesUp == clock > caller.deadline

(* frames(), from one yield to the next tick(): the caller, the speaker it *)
(* tells, and whether there is no more to say.                             *)
NextUtterance(next, out) ==
    IF next.index = Len(script)
    THEN [caller |-> next, output |-> out, more |-> FALSE]
    ELSE [caller |-> [next EXCEPT !.index = @ + 1, !.position = 1, !.deadline = 0],
          output |-> SpeechStarted(out), more |-> TRUE]

Resumed(next, ag, out) ==
    IF Speaking
    THEN [caller |-> IF next.position < Len(Utterance)
                     THEN [next EXCEPT !.position = @ + 1]
                     ELSE [next EXCEPT !.position = 0, !.deadline = clock + ReplyTimeout],
          output |-> out, more |-> TRUE]
    ELSE IF Answered(ag, out) THEN NextUtterance(next, out)
    ELSE IF GivesUp THEN NextUtterance([next EXCEPT !.timeouts = @ + 1], out)
    ELSE [caller |-> next, output |-> out, more |-> TRUE]

(* A frame is yielded; run() hands it to the session, looks for a failure  *)
(* and for the time to hang up, and asks for the next.                     *)
HandOver(next) ==
    \E speech \in {FALSE, Audible}, does \in {"listens", "interrupts", "commits"} :
        LET told == IF Stamped THEN SpeechEnded(output) ELSE output
            out == IF Clears(does) THEN Clear(told) ELSE told
            ag == OnAudio(does, speech)
            left == IF agent.error THEN "error"
                    ELSE IF ag.hangUp # Never /\ clock >= ag.hangUp THEN "hang-up"
                    ELSE IF Resumed(next, ag, out).more THEN "no" ELSE "end"
            now == IF left \in {"no", "end"} THEN Resumed(next, ag, out)
                   ELSE [caller |-> next, output |-> out]
        IN
        /\ Allowed(does, speech)
        /\ caller' = [now.caller EXCEPT !.due = @ + Frame, !.step = "ask"]
        /\ output' = now.output
        /\ agent' = [ag EXCEPT !.left = left,
                !.phase = IF left = "no" THEN "live"
                          ELSE IF left = "error" THEN "failed" ELSE "finishing"]
        /\ history' = Kept([history EXCEPT
                !.stamps = IF Stamped THEN @ + 1 ELSE @,
                !.lag = Later(@, history.lastLag), !.lastLag = clock - caller.due,
                !.queue = IF Clears(does) THEN <<>> ELSE @,
                !.since = IF now.caller.index # caller.index THEN Never
                          ELSE IF Stamped THEN clock ELSE @,
                !.loose = \/ @ \/ now.caller.timeouts > 0
                          \/ /\ does = "commits" /\ Speaking
                             /\ caller.position < LastAudible(Utterance)])
        /\ UNCHANGED <<clock, script>>

InTick(step) == agent.phase = "live" /\ caller.step = step

(* Pacer.tick(): early, late, and waking up, perhaps late as well.  The    *)
(* variant records only what is more than a frame.                         *)
TickEarly ==
    /\ InTick("ask") /\ caller.due > clock
    /\ caller' = [caller EXCEPT !.step = "sleep"]
    /\ UNCHANGED <<clock, script, output, agent, history>>

TickLateTolerant ==
    /\ InTick("ask") /\ caller.due <= clock
    /\ HandOver([caller EXCEPT !.lateness =
            IF clock - caller.due > Frame THEN Later(@, clock - caller.due) ELSE @])

TickLate ==
    /\ InTick("ask") /\ caller.due <= clock
    /\ HandOver([caller EXCEPT !.lateness = Later(@, clock - caller.due)])

Wake ==
    /\ InTick("sleep") /\ caller.due <= clock
    /\ HandOver(caller)

-----------------------------------------------------------------------------
(* Time passes and the speaker plays.  (Times of the past are as good as   *)
(* now for max(_until, now) and for a write that may return.)              *)
Pass ==
    /\ \/ /\ agent.phase = "live"
          /\ clock < caller.due + MaxLate /\ clock < MaxClock
       \/ /\ agent.phase = "finishing"
          /\ clock < Later(agent.writeUntil, output.until)
    /\ clock' = clock + 1
    /\ output' = [output EXCEPT !.until = Later(@, clock')]
    /\ history' =
        IF history.queue = <<>> THEN history
        ELSE LET sounds == Head(history.queue) /\ history.since # Never IN
             [history EXCEPT
                !.queue = Tail(@),
                !.since = IF sounds THEN Never ELSE @,
                !.mistimed = @ \/ (sounds /\ ~IsPrefix(<<clock - history.since>>, history.noted)),
                !.noted = IF sounds THEN SubSeq(@, 2, Len(@)) ELSE @]
    /\ agent' = [agent EXCEPT !.writeUntil = Later(@, clock')]
    /\ UNCHANGED <<script, caller>>

CallerStep == TickEarly \/ TickLate \/ Wake
CallStep == CallerStep \/ WriteChunk \/ ConcludeTurn \/ EndSession \/ Pass

StartsCalling ==
    /\ clock' = 0 /\ script' \in Scripts
    /\ caller' = NewCaller(0) /\ output' = NewOutput(0)
    /\ agent' = NewAgent(0) /\ history' = NewHistory

-----------------------------------------------------------------------------
(* Every utterance that a caller finished is timed or counted as           *)
(* unanswered, once, whoever speaks over whom: with the numbers the report *)
(* gives, a share of answered turns can be computed.                       *)
EachTurnCountedOnce ==
    output.observed + UnansweredTurns(output) = history.stamps

(* "waiting for each reply to finish playing before speaking again": an    *)
(* utterance stays without an answer only if the caller gave up waiting    *)
(* for it, or it is the one that the call ended on.                        *)
UnansweredMeansTimedOut ==
    UnansweredTurns(output)
        <= caller.timeouts + IF Awaiting(output) /\ agent.left # "end" THEN 1 ELSE 0

(* "as Openbenchmarks' TTFAB does from a recording of both sides": unless  *)
(* the caller gave up waiting before, or the agent answered before they    *)
(* had finished, the delays noted when audio is queued are those at which  *)
(* the caller then hears it.                                               *)
TimedWhenHeard == ~history.loose => ~history.mistimed

(* "if the harness itself falls behind real time, its latencies are        *)
(* fiction": a frame that was late by a window or more, whether the caller *)
(* came late to tick() or slept too long, shows in lateness_ms by then, up *)
(* to one frame less.                                                      *)
LatenessIsSeen ==
    \/ history.lag < Frame
    \/ caller.lateness # Never /\ history.lag <= caller.lateness + Frame

(* A caller gets to the end of the conversation whatever the agent does,   *)
(* and long before the model's clock does.                                 *)
CallerGetsThrough ==
    /\ [](agent.phase = "live" => <>(agent.phase # "live"))
    /\ [](agent.phase = "live" => clock < MaxClock)
=============================================================================
