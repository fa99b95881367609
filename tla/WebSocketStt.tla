----------------------------- MODULE WebSocketStt -----------------------------
(***************************************************************************)
(* backend/infrastructure/stt/ws_stt_base.py: streaming speech recognition *)
(* over one WebSocket per call.  A sender task pushes audio and flush      *)
(* requests, a receiver task puts the server's transcripts on a queue, a   *)
(* timer per flush puts an empty answer there when the server is silent,   *)
(* and the generator yields from the queue.  All share one event loop: an  *)
(* action is what one of them does between two awaits.                     *)
(*                                                                         *)
(* The server (Deepgram, or gpu/whisper_service through WhisperStt) reads  *)
(* its requests in order; its answers do not name the flush they answer.   *)
(* Speech is a count of words: word w is the w-th the caller says.         *)
(***************************************************************************)
EXTENDS Integers, Sequences, FiniteSets

CONSTANTS
    MaxFlushes,   \* bound: FlushSignals of one stream
    MaxWords,     \* bound: words of audio
    Late,         \* may the server be slower than flush_timeout_s?
    Overlap,      \* may a flush be asked while another is pending?
    Drops         \* may the server close the connection unasked?

ASSUME SttAssumption ==
    /\ MaxFlushes \in Nat /\ MaxWords \in Nat
    /\ {Late, Overlap, Drops} \subseteq BOOLEAN

VARIABLES
    sender,     \* where the send() task is
    pending,    \* the flushes whose timers are armed, oldest first
    out,        \* everything put on the queue `out`
    yielded,    \* how much of it the generator has taken
    over,       \* the generator has ended
    (* The connection and the server behind it.                            *)
    uplink,     \* requests sent and not yet read by the server
    heard,      \* words the server has buffered since its last final
    silent,     \* flushes the server will never answer
    downlink,   \* messages not yet received
    hungUp,     \* the server has closed the connection
    (* History.                                                            *)
    words,      \* words the sender has sent
    asked,      \* FlushSignals taken
    before      \* how many words were sent before each flush

taskVars == <<sender, pending, out, yielded, over>>
serverVars == <<uplink, heard, silent, downlink, hungUp>>
sttVars == <<taskVars, serverVars, words, asked, before>>

Flush(n) == [kind |-> "flush", n |-> n]
Word(n) == [kind |-> "word", n |-> n]
Close == [kind |-> "close", n |-> 0]

(* A transcript with the words it covers; `asker` is the flush the server  *)
(* was answering, 0 for none.                                              *)
Message(text, final, asker) == [text |-> text, final |-> final, asker |-> asker]

(* What the generator yields; `answers` is the flush whose timer was       *)
(* pending when the event was marked flushed, 0 for a plain event.         *)
Event(text, final, answers, asker) ==
    [text |-> text, final |-> final, flushed |-> answers # 0, answers |-> answers,
     asker |-> asker]
End == [text |-> {}, final |-> FALSE, flushed |-> FALSE, answers |-> 0, asker |-> 0]
PutOut(event) == out' = Append(out, event)

-----------------------------------------------------------------------------
SttInit ==
    /\ sender = "idle" /\ pending = <<>> /\ out = <<>> /\ yielded = 0 /\ over = FALSE
    /\ uplink = <<>> /\ heard = {} /\ silent = {} /\ downlink = <<>> /\ hungUp = FALSE
    /\ words = 0 /\ asked = 0 /\ before = <<>>

(* send(): an audio item. *)
SendAudio ==
    /\ ~over /\ sender = "idle" /\ ~hungUp /\ words < MaxWords
    /\ words' = words + 1
    /\ uplink' = Append(uplink, Word(words'))
    /\ UNCHANGED <<taskVars, heard, silent, downlink, hungUp, asked, before>>

(* send(): a FlushSignal.  The timer is armed and pending before the       *)
(* request is on its way; the variant forgets to keep it.  A session waits *)
(* for one answer at a time, but gives up by a clock of its own (Overlap). *)
ArmTimerForgotten(n) == UNCHANGED pending
ArmTimer(n) == pending' = Append(pending, n)

TakeFlush ==
    /\ ~over /\ sender = "idle" /\ asked < MaxFlushes
    /\ Overlap \/ pending = <<>>
    /\ asked' = asked + 1
    /\ before' = Append(before, words)
    /\ ArmTimer(asked')
    /\ sender' = "flushing"
    /\ UNCHANGED <<out, yielded, over, serverVars, words>>

SendFlush ==
    /\ ~over /\ sender = "flushing" /\ ~hungUp
    /\ uplink' = Append(uplink, Flush(asked))
    /\ sender' = "idle"
    /\ UNCHANGED <<pending, out, yielded, over, heard, silent, downlink, hungUp, words, asked, before>>

(* send(): the session's audio has ended. *)
SendClose ==
    /\ ~over /\ sender = "idle" /\ ~hungUp
    /\ uplink' = Append(uplink, Close)
    /\ sender' = "done"
    /\ UNCHANGED <<pending, out, yielded, over, heard, silent, downlink, hungUp, words, asked, before>>

(* A send on a closed connection raises; the exception goes on the queue.  *)
SendFails ==
    /\ ~over /\ sender \in {"idle", "flushing"} /\ hungUp
    /\ PutOut(End)
    /\ sender' = "done"
    /\ UNCHANGED <<pending, yielded, over, serverVars, words, asked, before>>

(* on_flush_timeout: timers run out in the order they were armed.  Without *)
(* Late they do so only for the flushes the server leaves unanswered.      *)
TimerFires ==
    /\ ~over /\ pending # <<>>
    /\ Late \/ hungUp \/ Head(pending) \in silent
    /\ PutOut(Event({}, TRUE, Head(pending), 0))
    /\ pending' = Tail(pending)
    /\ UNCHANGED <<sender, yielded, over, serverVars, words, asked, before>>

(* receive(): the oldest pending flush is taken to be the one a flush      *)
(* answer is for; with none pending the event passes unmarked.  The first  *)
(* variant leaves the timer armed, the second lets other finals pass as    *)
(* interims while an answer is due.                                        *)
TakeMessageKeepingTimer(m) ==
    /\ pending' = pending
    /\ PutOut(IF m.asker # 0 /\ pending # <<>>
              THEN Event(m.text, TRUE, Head(pending), m.asker)
              ELSE Event(m.text, m.final, 0, m.asker))

TakeMessageAwaitingAnswer(m) ==
    IF m.asker # 0 /\ pending # <<>>
    THEN pending' = Tail(pending) /\ PutOut(Event(m.text, TRUE, Head(pending), m.asker))
    ELSE UNCHANGED pending /\ PutOut(Event(m.text, m.final /\ pending = <<>>, 0, m.asker))

TakeMessage(m) ==
    IF m.asker # 0 /\ pending # <<>>
    THEN pending' = Tail(pending) /\ PutOut(Event(m.text, TRUE, Head(pending), m.asker))
    ELSE UNCHANGED pending /\ PutOut(Event(m.text, m.final, 0, m.asker))

Receive ==
    /\ ~over /\ downlink # <<>>
    /\ TakeMessage(Head(downlink))
    /\ downlink' = Tail(downlink)
    /\ UNCHANGED <<sender, yielded, over, uplink, heard, silent, hungUp, words, asked, before>>

(* receive(): the connection has ended; _END goes on the queue.  What is   *)
(* put after a first _END or exception is never read, so it is left out.   *)
ReceiveEnd ==
    /\ ~over /\ hungUp /\ downlink = <<>>
    /\ \A i \in 1..Len(out) : out[i] # End
    /\ PutOut(End)
    /\ UNCHANGED <<sender, pending, yielded, over, serverVars, words, asked, before>>

Yield ==
    /\ ~over /\ yielded < Len(out) /\ out[yielded + 1] # End
    /\ yielded' = yielded + 1
    /\ UNCHANGED <<sender, pending, out, over, serverVars, words, asked, before>>

(* _END or an exception: the generator leaves its loop, cancels the timers *)
(* and both tasks.                                                         *)
StopStream ==
    /\ ~over /\ yielded < Len(out) /\ out[yielded + 1] = End
    /\ over' = TRUE
    /\ pending' = <<>>
    /\ sender' = "done"
    /\ UNCHANGED <<out, yielded, serverVars, words, asked, before>>

-----------------------------------------------------------------------------
(* The server *)

ServerHears ==
    /\ ~hungUp /\ uplink # <<>> /\ Head(uplink).kind = "word"
    /\ heard' = heard \cup {Head(uplink).n}
    /\ uplink' = Tail(uplink)
    /\ UNCHANGED <<taskVars, silent, downlink, hungUp, words, asked, before>>

(* An interim repeats what is buffered; a plain final takes it away.  Only *)
(* one interim is kept on its way, which bounds the repetition.            *)
ServerTranscribes(final) ==
    /\ ~hungUp /\ heard # {}
    /\ \A i \in 1..Len(downlink) : downlink[i].final
    /\ Message(heard, FALSE, 0) \notin {Message(out[i].text, out[i].final, 0) : i \in 1..Len(out)}
    /\ downlink' = Append(downlink, Message(heard, final, 0))
    /\ heard' = IF final THEN {} ELSE heard
    /\ UNCHANGED <<taskVars, uplink, silent, hungUp, words, asked, before>>

ServerAnswers ==
    /\ ~hungUp /\ uplink # <<>> /\ Head(uplink).kind = "flush"
    /\ downlink' = Append(downlink, Message(heard, TRUE, Head(uplink).n))
    /\ heard' = {}
    /\ uplink' = Tail(uplink)
    /\ UNCHANGED <<taskVars, silent, hungUp, words, asked, before>>

(* Deepgram says nothing when nothing was buffered. *)
ServerIgnores ==
    /\ ~hungUp /\ uplink # <<>> /\ Head(uplink).kind = "flush" /\ heard = {}
    /\ silent' = silent \cup {Head(uplink).n}
    /\ uplink' = Tail(uplink)
    /\ UNCHANGED <<taskVars, heard, downlink, hungUp, words, asked, before>>

ServerCloses ==
    /\ ~hungUp
    /\ Drops \/ (uplink # <<>> /\ Head(uplink) = Close)
    /\ hungUp' = TRUE
    /\ uplink' = <<>>
    /\ UNCHANGED <<taskVars, heard, silent, downlink, words, asked, before>>

-----------------------------------------------------------------------------
Client ==
    \/ SendAudio \/ TakeFlush \/ SendFlush \/ SendClose \/ SendFails
    \/ TimerFires \/ Receive \/ ReceiveEnd \/ Yield \/ StopStream

Server ==
    \/ ServerHears \/ ServerAnswers \/ ServerIgnores \/ ServerCloses
    \/ \E final \in BOOLEAN : ServerTranscribes(final)

SttNext == Client \/ Server

(* The event loop runs every timer and every task that can go on.  Nothing *)
(* is assumed of the server or of the caller.                              *)
SttSpec ==
    /\ SttInit /\ [][SttNext]_sttVars
    /\ WF_sttVars(TimerFires) /\ WF_sttVars(Receive) /\ WF_sttVars(ReceiveEnd)
    /\ WF_sttVars(Yield) /\ WF_sttVars(StopStream)

-----------------------------------------------------------------------------
FlushedAt == {i \in 1..Len(out) : out[i].flushed}

(* While the stream goes on, every flush taken either has its one answer   *)
(* on the queue or a timer that will put it there, and flushes are         *)
(* answered in the order they were asked: a server answer racing a timer   *)
(* never answers twice or leaves a gap.                                    *)
AnsweredOrArmed ==
    ~over =>
        LET answered == asked - Len(pending) IN
        /\ {out[i].answers : i \in FlushedAt} = 1..answered
        /\ \A i, j \in FlushedAt : i < j => out[i].answers < out[j].answers
        /\ pending = [i \in 1..Len(pending) |-> answered + i]

(* The finals up to the i-th event hold every word sent before the flush   *)
(* that it answers.                                                        *)
Complete(i) ==
    1..before[out[i].answers]
        \subseteq UNION {out[j].text : j \in {k \in 1..i : out[k].final}}

(* When the server's answer to a flush, or to a later one, is yielded as   *)
(* the answer to it, the transcript is complete, whatever timers, interims *)
(* and plain finals came in between.                                       *)
OwnAnswerCompletes ==
    \A i \in 1..Len(out) :
        out[i].flushed /\ out[i].asker >= out[i].answers => Complete(i)

(* The port's contract, by refinement. *)
Contract == INSTANCE FlushContract WITH answered <- Cardinality(FlushedAt)
ImplementsContract == Contract!ContractSpec

(* Every flush has its one answer or a timer that will give it one, and    *)
(* the server's own answer is complete.                                    *)
FlushesAnswered == AnsweredOrArmed /\ OwnAnswerCompletes
=============================================================================
