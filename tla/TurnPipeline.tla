----------------------------- MODULE TurnPipeline -----------------------------
(***************************************************************************)
(* backend/application/use_cases/handle_call_turn.py: one reply, from LLM  *)
(* tokens to audio.  A task group holds the generator of sentences, the    *)
(* task that starts their synthesis, one synthesis task per sentence and   *)
(* the player.  They meet in an unbounded queue of sentences, a bounded    *)
(* queue `playback` of audio queues, and the audio queues themselves.  An  *)
(* exception of one of them, or an interrupt, cancels all.                 *)
(*                                                                         *)
(* Sentence n is the n-th the chunker completes and travels through FIFO   *)
(* queues, so the queue of sentences is two counters.  A chunk is a pair   *)
(* of a sentence and a number.                                             *)
(***************************************************************************)
EXTENDS Naturals, Sequences, SequencesExt

CONSTANTS
    MaxSentences,  \* bound: sentences of the reply
    MaxChunks,     \* bound: audio chunks of a sentence
    Lookahead      \* _LOOKAHEAD_SENTENCES

ASSUME PipelineAssumption ==
    MaxSentences \in Nat /\ MaxChunks \in Nat /\ Lookahead \in Nat \ {0}

VARIABLES
    generator,  \* _generate: running, done, failed or stopped
    generated,  \* sentences put on `sentences`
    synthesizer,\* _synthesize: taking, putting, closing, done or stopped
    taken,      \* sentences it has taken
    playback,   \* the queue of audio queues, each named by its sentence
    worker,     \* _synthesize_one per sentence: none, created, running, ...
    made,       \* chunks per sentence
    audioQueue, \* chunks made and not yet taken by the player, then End
    player,     \* _play: waiting, playing, writing, done, failed or stopped
    playing,    \* sentences it has taken from `playback`
    written,    \* the chunks written to the output
    billed,     \* progress.spoken_chars, in sentences
    interrupt,  \* request.interrupt
    group,      \* the task group: running, cancelled, aborting or over
    outcome,    \* execute(): open, or the record it wrote
    error       \* the exception _record is followed by

taskVars == <<generator, generated, synthesizer, taken, worker, made, player, playing>>
queueVars == <<playback, audioQueue>>
vars == <<taskVars, queueVars, written, billed, interrupt, group, outcome, error>>

End == 0
Sentence == 1..MaxSentences

Init ==
    /\ generator = "running" /\ generated = 0
    /\ synthesizer = "taking" /\ taken = 0
    /\ playback = <<>>
    /\ worker = [s \in Sentence |-> "none"]
    /\ made = [s \in Sentence |-> 0]
    /\ audioQueue = [s \in Sentence |-> <<>>]
    /\ player = "waiting" /\ playing = 0
    /\ written = <<>> /\ billed = 0
    /\ interrupt = FALSE /\ group = "running"
    /\ outcome = "open" /\ error = FALSE

(* Until the group cancels its tasks they go on, even if it has been asked *)
(* to; an error of one is noticed by the group in a later step.            *)
Running == group \in {"running", "cancelled"}

SetWorker(s, state) == worker' = [worker EXCEPT ![s] = state]

-----------------------------------------------------------------------------
(* _generate, or _fixed_text for the greeting *)

GenerateSentence ==
    /\ Running /\ generator = "running" /\ generated < MaxSentences
    /\ generated' = generated + 1
    /\ UNCHANGED <<generator, synthesizer, taken, worker, made, player, playing, queueVars,
                   written, billed, interrupt, group, outcome, error>>

(* The LLM's stream ends, or raises. *)
GeneratorStops(how) ==
    /\ Running /\ generator = "running"
    /\ generator' = how
    /\ UNCHANGED <<generated, synthesizer, taken, worker, made, player, playing, queueVars,
                   written, billed, interrupt, group, outcome, error>>

-----------------------------------------------------------------------------
(* _synthesize *)

TakeSentence ==
    /\ Running /\ synthesizer = "taking" /\ taken < generated
    /\ taken' = taken + 1
    /\ synthesizer' = "putting"
    /\ UNCHANGED <<generator, generated, worker, made, player, playing, queueVars,
                   written, billed, interrupt, group, outcome, error>>

(* playback.put blocks while the lookahead is full; the variant lets one   *)
(* more in.                                                                *)
RoomForOneMore == Len(playback) <= Lookahead
Room == Len(playback) < Lookahead

(* Only then the sentence is billed and its synthesis started, in one go;  *)
(* the variant leaves the bill to the end of the synthesis.                *)
BillLate == UNCHANGED billed
Bill == billed' = billed + 1

StartSentence ==
    /\ Running /\ synthesizer = "putting" /\ Room
    /\ playback' = Append(playback, taken)
    /\ Bill
    /\ SetWorker(taken, "created")
    /\ synthesizer' = "taking"
    /\ UNCHANGED <<generator, generated, taken, made, player, playing, audioQueue,
                   written, interrupt, group, outcome, error>>

TakeEnd ==
    /\ Running /\ synthesizer = "taking" /\ taken = generated /\ generator = "done"
    /\ synthesizer' = "closing"
    /\ UNCHANGED <<generator, generated, taken, worker, made, player, playing, queueVars,
                   written, billed, interrupt, group, outcome, error>>

PutEnd ==
    /\ Running /\ synthesizer = "closing" /\ Room
    /\ playback' = Append(playback, End)
    /\ synthesizer' = "done"
    /\ UNCHANGED <<generator, generated, taken, worker, made, player, playing, audioQueue,
                   written, billed, interrupt, group, outcome, error>>

-----------------------------------------------------------------------------
(* _synthesize_one *)

(* The synthesis is requested of the provider. *)
RequestSpeech(s) ==
    /\ Running /\ worker[s] = "created"
    /\ SetWorker(s, "running")
    /\ UNCHANGED <<generator, generated, synthesizer, taken, made, player, playing, queueVars,
                   written, billed, interrupt, group, outcome, error>>

MakeChunk(s) ==
    /\ Running /\ worker[s] = "running" /\ made[s] < MaxChunks
    /\ made' = [made EXCEPT ![s] = @ + 1]
    /\ audioQueue' = [audioQueue EXCEPT ![s] = Append(@, made'[s])]
    /\ UNCHANGED <<generator, generated, synthesizer, taken, worker, player, playing, playback,
                   written, billed, interrupt, group, outcome, error>>

(* The stream ends or raises; either way the player is told the end.  The  *)
(* variant tells it only of an error.                                      *)
CloseAudioOnError(s, how) ==
    audioQueue' = [audioQueue EXCEPT ![s] = IF how = "failed" THEN Append(@, End) ELSE @]
CloseAudio(s, how) == audioQueue' = [audioQueue EXCEPT ![s] = Append(@, End)]

WorkerStops(s, how) ==
    /\ Running /\ worker[s] = "running"
    /\ SetWorker(s, how)
    /\ CloseAudio(s, how)
    /\ UNCHANGED <<generator, generated, synthesizer, taken, made, player, playing, playback,
                   written, billed, interrupt, group, outcome, error>>

-----------------------------------------------------------------------------
(* _play *)

(* The audio queue the player drains next is the oldest in `playback`; the *)
(* variant takes the newest.                                               *)
GetNewest(s) == s = Last(playback) /\ playback' = Front(playback)
GetOldest(s) == s = Head(playback) /\ playback' = Tail(playback)

PlayNext ==
    /\ Running /\ player = "waiting" /\ playback # <<>>
    /\ \E s \in 0..MaxSentences :
          /\ GetOldest(s)
          /\ playing' = IF s = End THEN playing ELSE s
          /\ player' = IF s = End THEN "done" ELSE "playing"
    /\ UNCHANGED <<generator, generated, synthesizer, taken, worker, made, audioQueue,
                   written, billed, interrupt, group, outcome, error>>

TakeChunk ==
    /\ Running /\ player = "playing" /\ audioQueue[playing] # <<>>
    /\ audioQueue' = [audioQueue EXCEPT ![playing] = Tail(@)]
    /\ LET chunk == Head(audioQueue[playing]) IN
          IF chunk = End
          THEN player' = "waiting" /\ UNCHANGED written
          ELSE player' = "writing" /\ written' = Append(written, <<playing, chunk>>)
    /\ UNCHANGED <<generator, generated, synthesizer, taken, worker, made, playing, playback,
                   billed, interrupt, group, outcome, error>>

(* output.write paces the playback: it returns when there is room, or      *)
(* raises.                                                                 *)
WriteReturns(how) ==
    /\ Running /\ player = "writing"
    /\ player' = how
    /\ UNCHANGED <<generator, generated, synthesizer, taken, worker, made, playing, queueVars,
                   written, billed, interrupt, group, outcome, error>>

-----------------------------------------------------------------------------
(* The task group and execute() *)

Failed ==
    \/ generator = "failed" \/ player = "failed"
    \/ \E s \in Sentence : worker[s] = "failed"

(* The group cancels every task that is left.  A cancelled synthesis that  *)
(* had begun still puts its end.                                           *)
Abort ==
    /\ group = "cancelled" \/ (group = "running" /\ Failed)
    /\ group' = "aborting"
    /\ generator' = IF generator = "running" THEN "stopped" ELSE generator
    /\ synthesizer' = IF synthesizer = "done" THEN "done" ELSE "stopped"
    /\ player' = IF player \in {"done", "failed"} THEN player ELSE "stopped"
    /\ worker' = [s \in Sentence |->
                    IF worker[s] \in {"created", "running"} THEN "stopped" ELSE worker[s]]
    /\ audioQueue' = [s \in Sentence |->
                        IF worker[s] = "running" THEN Append(audioQueue[s], End)
                        ELSE audioQueue[s]]
    /\ UNCHANGED <<generated, taken, made, playing, playback, written, billed, interrupt,
                   outcome, error>>

AllDone ==
    /\ generator = "done" /\ synthesizer = "done" /\ player = "done"
    /\ \A s \in Sentence : worker[s] \in {"none", "done"}

(* The work is over by itself. *)
Complete ==
    /\ group = "running" /\ AllDone
    /\ group' = "over"
    /\ UNCHANGED <<taskVars, queueVars, written, billed, interrupt, outcome, error>>

(* The session's barge-in. *)
BargeIn ==
    /\ ~interrupt /\ outcome = "open"
    /\ interrupt' = TRUE
    /\ UNCHANGED <<taskVars, queueVars, written, billed, group, outcome, error>>

(* The interrupt is seen while the work goes on: `interrupted` is settled  *)
(* and the work is cancelled.  The variant leaves the work running.        *)
CancelWorkSkipped ==
    /\ interrupt /\ group = "running" /\ outcome = "open"
    /\ outcome' = "interrupted"
    /\ UNCHANGED <<taskVars, queueVars, written, billed, interrupt, group, error>>

CancelWork ==
    /\ interrupt /\ group = "running" /\ outcome = "open"
    /\ group' = "cancelled"
    /\ outcome' = "interrupting"
    /\ UNCHANGED <<taskVars, queueVars, written, billed, interrupt, error>>

(* _record, once the work is over. *)
Record ==
    /\ outcome \in {"open", "interrupting"}
    /\ group \in {"over", "aborting"}
    /\ outcome' = IF outcome = "interrupting" \/ Failed THEN "interrupted" ELSE "complete"
    /\ error' = Failed
    /\ UNCHANGED <<taskVars, queueVars, written, billed, interrupt, group>>

-----------------------------------------------------------------------------
Synthesis ==
    \/ TakeSentence \/ StartSentence \/ TakeEnd \/ PutEnd
    \/ \E s \in Sentence :
          RequestSpeech(s) \/ MakeChunk(s)
            \/ \E how \in {"done", "failed"} : WorkerStops(s, how)

Playing == PlayNext \/ TakeChunk \/ \E how \in {"playing", "failed"} : WriteReturns(how)

Next ==
    \/ GenerateSentence \/ \E how \in {"done", "failed"} : GeneratorStops(how)
    \/ Synthesis \/ Playing
    \/ Abort \/ Complete \/ BargeIn \/ CancelWork \/ Record

Spec == Init /\ [][Next]_vars

(* The event loop runs the tasks; the LLM's stream and each synthesis end  *)
(* or raise, and a write returns or raises (PacedAudioOutput and LiveKit's *)
(* AudioSource play in real time).                                         *)
FairSpec ==
    /\ Spec
    /\ WF_vars(\E how \in {"done", "failed"} : GeneratorStops(how))
    /\ WF_vars(TakeSentence \/ StartSentence \/ TakeEnd \/ PutEnd)
    /\ \A s \in Sentence :
          /\ WF_vars(RequestSpeech(s))
          /\ WF_vars(\E how \in {"done", "failed"} : WorkerStops(s, how))
    /\ WF_vars(Playing)
    /\ WF_vars(Abort \/ Complete) /\ WF_vars(CancelWork) /\ WF_vars(Record)

-----------------------------------------------------------------------------
TypeOK ==
    /\ generator \in {"running", "done", "failed", "stopped"}
    /\ generated \in 0..MaxSentences
    /\ synthesizer \in {"taking", "putting", "closing", "done", "stopped"}
    /\ taken \in 0..generated
    /\ playback \in Seq(0..MaxSentences) /\ Len(playback) <= Lookahead
    /\ worker \in [Sentence -> {"none", "created", "running", "done", "failed", "stopped"}]
    /\ made \in [Sentence -> 0..MaxChunks]
    /\ audioQueue \in [Sentence -> Seq(0..MaxChunks)]
    /\ player \in {"waiting", "playing", "writing", "done", "failed", "stopped"}
    /\ playing \in 0..taken
    /\ written \in Seq(Sentence \X (1..MaxChunks))
    /\ billed \in Nat
    /\ {interrupt, error} \subseteq BOOLEAN
    /\ group \in {"running", "cancelled", "aborting", "over"}
    /\ outcome \in {"open", "interrupting", "interrupted", "complete"}

Started == {s \in Sentence : worker[s] # "none"}

(* "Synthesis never runs further ahead of playback than                    *)
(* _LOOKAHEAD_SENTENCES."                                                  *)
LookaheadBounded == \A s \in Started : s <= playing + Lookahead

(* Everything the provider was asked to speak is billed, even when the     *)
(* turn is cut off right after.                                            *)
RequestedIsBilled == \A s \in Sentence : worker[s] \notin {"none", "created"} => s <= billed

(* Whichever synthesis is faster, audio is played sentence by sentence,    *)
(* without a gap: what was written is a prefix of the reply's audio.       *)
PlayedInOrder ==
    /\ \A i \in 1..Len(written) :
          written[i][2] = 1 \/ (i > 1 /\ written[i - 1] = <<written[i][1], written[i][2] - 1>>)
    /\ \A i \in 1..Len(written) : \A s \in 1..(written[i][1] - 1) :
          \A c \in 1..made[s] : \E j \in 1..(i - 1) : written[j] = <<s, c>>

(* A turn recorded as neither interrupted nor failed was heard to its end. *)
CompleteIsHeard ==
    outcome = "complete" =>
        \A s \in 1..generated : \A c \in 1..made[s] : Contains(written, <<s, c>>)

(* After a turn is recorded it speaks no more: barge-in really silences it.*)
QuietAfterRecord ==
    [][(outcome \in {"interrupted", "complete"}) => UNCHANGED written]_vars

(* Every turn is recorded: no full queue, slow synthesis or failure leaves *)
(* a task waiting for another for ever.                                    *)
TurnEnds == <>(outcome \in {"interrupted", "complete"})

(* What the caller hears is the reply: its audio in the order of the text, *)
(* and all of it unless the turn is recorded as cut off or failed.         *)
HeardAsWritten == TypeOK /\ PlayedInOrder /\ CompleteIsHeard
=============================================================================
