----------------------------- MODULE CallSession -----------------------------
(***************************************************************************)
(* backend/application/use_cases/call_session.py: one call from greeting   *)
(* to hang-up.  The frame loop, the turn task, the task that consumes      *)
(* transcripts and the timers share one event loop; an action is what one  *)
(* of them does between two awaits.                                        *)
(*                                                                         *)
(* Speech is a count of words, one per speech frame: word n is the n-th    *)
(* the caller says.  The transcript stream is the one WebSocketStt offers: *)
(* it may answer a flush late, and a late answer may be taken for the next *)
(* flush's.  HandleCallTurn is a turn task in phase "executing" (the reply *)
(* is generated and played) and then "recording" (the turn is persisted).  *)
(***************************************************************************)
EXTENDS Naturals, Sequences, SequencesExt

CONSTANTS
    MaxWords,      \* bound: words of the caller
    BargeInFrames, \* speech frames that interrupt (barge_in_min_speech_ms)
    GapFrames,     \* silent frames that forget them (barge_in_gap_reset_ms)
    Environments   \* the kinds of caller and transcript stream to consider

(* words:   how many words the caller has to say (a bound);                *)
(* late:    may the stream answer a flush before it has the words?         *)
(* givesUp: may the session's own flush timeout win?                       *)
(* dies:    may the transcript stream end or fail, and the ticker fail?    *)
ASSUME SessionAssumption ==
    /\ MaxWords \in Nat
    /\ {BargeInFrames, GapFrames} \subseteq Nat \ {0}
    /\ Environments \subseteq
          [words : 0..MaxWords, late : BOOLEAN, givesUp : BOOLEAN, dies : BOOLEAN]

VARIABLES
    phase,      \* run(): live, finishing, cleanup, closing, ended or lost
    failed,     \* run()'s local
    leftBy,     \* what ended the frame loop
    ticker,     \* the task of _tick: running, or dead of an exception
    sttIn,      \* _stt_in: words, and 0 for a FlushSignal
    finals,     \* _finals
    interim,    \* _interim
    future,     \* _pending_flush: none, waiting or resolved
    futureText, \* its result
    turn,       \* _turn_task: fresh, flushing, executing, recording or done
    greeting,   \* _turn_request.fixed_reply is not None
    userText,   \* _turn_request.user_text
    interrupt,  \* _turn_request.interrupt
    reply,      \* progress.agent_text: none, words or goodbye
    audio,      \* progress.audio_started
    cutShort,   \* HandleCallTurn's `interrupted`
    error,      \* HandleCallTurn's `error`
    turnError,  \* _turn_error is not None
    carry,      \* _carry_text
    history,    \* the context's history: what the agent believes was said
    hangUp,     \* _hang_up_at: none, armed (in the future) or due
    run, gap,   \* _speech_run_ms and _gap_ms, in frames
    heardSpeech,\* the endpointer has observed speech since its reset
    (* The transcript stream.                                              *)
    heard,      \* words taken from sttIn and not yet in a final
    owed,       \* a flush was answered before the server had answered it
    sttState,   \* running, ended or failed
    env,        \* the caller and the stream of this behaviour
    (* History.                                                            *)
    spoken,     \* words said so far
    unanswered  \* words of turns that failed

loopVars == <<phase, failed, leftBy, ticker>>
textVars == <<finals, interim, future, futureText>>
requestVars == <<greeting, userText, interrupt>>
replyVars == <<reply, audio, cutShort, error>>
bargeVars == <<run, gap>>
sttVars == <<heard, owed, sttState, env>>
vars == <<loopVars, textVars, requestVars, replyVars, bargeVars, sttVars, sttIn, turn,
          turnError, carry, history, hangUp, heardSpeech, spoken, unanswered>>

Flush == 0

(* agent_busy *)
Busy == turn # "done"

(* Leaving the frame loop by an exception interrupts the turn at once.     *)
Stopped == interrupt \/ phase = "cleanup"

Said(words) == [role |-> "user", words |-> words]
Replied == [role |-> "assistant", words |-> <<>>]

-----------------------------------------------------------------------------
(* run() has started the greeting's turn, whose text is known at once. *)
Init ==
    /\ phase = "live" /\ failed = FALSE /\ leftBy = "nobody" /\ ticker = "running"
    /\ sttIn = <<>> /\ finals = <<>> /\ interim = <<>>
    /\ future = "none" /\ futureText = <<>>
    /\ turn = "fresh" /\ greeting = TRUE /\ userText = <<>> /\ interrupt = FALSE
    /\ reply = "none" /\ audio = FALSE /\ cutShort = FALSE /\ error = FALSE
    /\ turnError = FALSE /\ carry = <<>> /\ history = <<>>
    /\ hangUp = "none" /\ run = 0 /\ gap = 0 /\ heardSpeech = FALSE
    /\ heard = <<>> /\ owed = FALSE /\ sttState = "running" /\ env \in Environments
    /\ spoken = 0 /\ unanswered = <<>>

-----------------------------------------------------------------------------
(* The frame loop *)

(* _on_audio, whatever follows: a frame of speech is one more word for the *)
(* transcript stream and is observed by the endpointer.                    *)
TakeFrame(speech) ==
    /\ phase = "live"
    /\ speech => spoken < env.words
    /\ spoken' = IF speech THEN spoken + 1 ELSE spoken
    /\ sttIn' = IF speech THEN Append(sttIn, spoken') ELSE sttIn

(* run(), after _on_audio: a turn's error is raised, a due hang-up breaks. *)
AfterFrame ==
    /\ leftBy' = IF turnError THEN "error" ELSE IF hangUp' = "due" THEN "agent" ELSE leftBy
    /\ phase' = IF turnError THEN "cleanup" ELSE IF hangUp' = "due" THEN "finishing" ELSE phase
    /\ failed' = turnError
    /\ UNCHANGED ticker

(* _barge_in_detected: what the run and the gap become with this frame.    *)
RunWith(speech) ==
    IF speech THEN run + 1 ELSE IF gap + 1 >= GapFrames THEN 0 ELSE run
GapWith(speech) == IF speech THEN 0 ELSE IF gap + 1 >= GapFrames THEN GapFrames ELSE gap + 1
BargedIn(speech) == RunWith(speech) >= BargeInFrames

(* agent_busy: enough speech interrupts the turn (_barge_in).              *)
FrameWhileBusy(speech) ==
    /\ Busy
    /\ TakeFrame(speech)
    /\ heardSpeech' = (heardSpeech \/ speech)
    /\ IF BargedIn(speech)
       THEN /\ interrupt' = TRUE
            /\ hangUp' = "none"
            /\ run' = 0 /\ gap' = 0
       ELSE /\ run' = RunWith(speech) /\ gap' = GapWith(speech)
            /\ UNCHANGED <<interrupt, hangUp>>
    /\ AfterFrame
    /\ UNCHANGED <<textVars, greeting, userText, replyVars, sttVars, turn, turnError, carry,
                   history, unanswered>>

(* The goodbye may still be audible: enough speech calls the hang-up off.  *)
FrameBeforeHangUp(speech) ==
    /\ ~Busy /\ hangUp # "none"
    /\ TakeFrame(speech)
    /\ heardSpeech' = (heardSpeech \/ speech)
    /\ run' = RunWith(speech) /\ gap' = GapWith(speech)
    /\ hangUp' = IF BargedIn(speech) THEN "none" ELSE hangUp
    /\ AfterFrame
    /\ UNCHANGED <<textVars, requestVars, replyVars, sttVars, turn, turnError,
                   carry, history, unanswered>>

(* When a frame can lead to a new turn; the variant forgets to return      *)
(* while a hang-up is armed.                                               *)
ListeningEvenToHangUp == ~Busy
Listening == ~Busy /\ hangUp = "none"

FrameListening(speech) ==
    /\ Listening
    /\ TakeFrame(speech)
    /\ heardSpeech' = (heardSpeech \/ speech)
    /\ run' = 0 /\ gap' = 0
    /\ UNCHANGED hangUp
    /\ AfterFrame
    /\ UNCHANGED <<textVars, requestVars, replyVars, sttVars, turn, turnError,
                   carry, history, unanswered>>

(* should_commit: the endpointer may commit once there was speech.         *)
FrameCommits ==
    /\ Listening
    /\ TakeFrame(FALSE)
    /\ heardSpeech
    /\ heardSpeech' = FALSE
    /\ run' = 0 /\ gap' = 0
    /\ turn' = "fresh" /\ greeting' = FALSE /\ userText' = <<>> /\ interrupt' = FALSE
    /\ reply' = "none" /\ audio' = FALSE /\ cutShort' = FALSE /\ error' = FALSE
    /\ UNCHANGED hangUp
    /\ AfterFrame
    /\ UNCHANGED <<textVars, sttVars, turnError, carry, history, unanswered>>

(* The caller is gone: the frames end. *)
AudioEnds ==
    /\ phase = "live"
    /\ phase' = "finishing"
    /\ leftBy' = "caller"
    /\ UNCHANGED <<failed, ticker, textVars, requestVars, replyVars, bargeVars, sttVars, sttIn,
                   turn, turnError, carry, history, hangUp, heardSpeech, spoken, unanswered>>

(* The frames raise, or the job is cancelled. *)
AudioFails ==
    /\ phase = "live"
    /\ phase' = "cleanup"
    /\ leftBy' = "error"
    /\ failed' = TRUE
    /\ UNCHANGED <<ticker, textVars, requestVars, replyVars, bargeVars, sttVars, sttIn, turn,
                   turnError, carry, history, hangUp, heardSpeech, spoken, unanswered>>

(* _finish_turn returns; a turn that failed meanwhile fails the call.  The *)
(* variant does not look.                                                  *)
FinishUnchecked ==
    /\ phase = "finishing" /\ ~Busy
    /\ phase' = "closing"
    /\ UNCHANGED <<failed, leftBy, ticker, textVars, requestVars, replyVars, bargeVars, sttVars,
                   sttIn, turn, turnError, carry, history, hangUp, heardSpeech, spoken, unanswered>>

Finish ==
    /\ phase = "finishing" /\ ~Busy
    /\ phase' = "closing"
    /\ failed' = turnError
    /\ UNCHANGED <<leftBy, ticker, textVars, requestVars, replyVars, bargeVars, sttVars, sttIn,
                   turn, turnError, carry, history, hangUp, heardSpeech, spoken, unanswered>>

CleanUp ==
    /\ phase = "cleanup" /\ ~Busy
    /\ phase' = "closing"
    /\ UNCHANGED <<failed, leftBy, ticker, textVars, requestVars, replyVars, bargeVars, sttVars,
                   sttIn, turn, turnError, carry, history, hangUp, heardSpeech, spoken, unanswered>>

(* The ticker is cancelled and awaited; then the stream is given its end   *)
(* and at most two seconds, and EndCall runs.                              *)
EndSession ==
    /\ phase = "closing" /\ ticker = "running"
    /\ phase' = "ended"
    /\ failed' = (failed \/ sttState = "failed")
    /\ UNCHANGED <<leftBy, ticker, textVars, requestVars, replyVars, bargeVars, sttVars, sttIn,
                   turn, turnError, carry, history, hangUp, heardSpeech, spoken, unanswered>>

(* A ticker that had died raises its exception where it is awaited: run()  *)
(* is left before the stream is waited for and before EndCall.             *)
LoseEnd ==
    /\ phase = "closing" /\ ticker = "dead"
    /\ phase' = "lost"
    /\ UNCHANGED <<failed, leftBy, ticker, textVars, requestVars, replyVars, bargeVars, sttVars,
                   sttIn, turn, turnError, carry, history, hangUp, heardSpeech, spoken, unanswered>>

(* _tick: its pricing or its sink raises, and nobody looks before the      *)
(* cleanup.                                                                *)
TickerDies ==
    /\ env.dies
    /\ phase \in {"live", "finishing", "cleanup"} /\ ticker = "running"
    /\ ticker' = "dead"
    /\ UNCHANGED <<phase, failed, leftBy, textVars, requestVars, replyVars, bargeVars, sttVars,
                   sttIn, turn, turnError, carry, history, hangUp, heardSpeech, spoken, unanswered>>

(* The clock reaches _hang_up_at. *)
HangUpFallsDue ==
    /\ hangUp = "armed"
    /\ hangUp' = "due"
    /\ UNCHANGED <<loopVars, textVars, requestVars, replyVars, bargeVars, sttVars, sttIn, turn,
                   turnError, carry, history, heardSpeech, spoken, unanswered>>

-----------------------------------------------------------------------------
(* The turn task *)

(* _respond: the greeting is spoken as it is, any other turn asks for the  *)
(* transcript first (_flush_transcript).                                   *)
TurnBegins ==
    /\ turn = "fresh"
    /\ turn' = IF greeting THEN "executing" ELSE "flushing"
    /\ reply' = IF greeting THEN "words" ELSE "none"
    /\ IF greeting
       THEN UNCHANGED <<future, sttIn>>
       ELSE future' = "waiting" /\ sttIn' = Append(sttIn, Flush)
    /\ UNCHANGED <<loopVars, finals, interim, futureText, requestVars, audio, cutShort, error,
                   bargeVars, sttVars, turnError, carry, history, hangUp, heardSpeech, spoken,
                   unanswered>>

(* _respond, with the transcript: carried words come first; an empty turn  *)
(* is dropped, an interrupted one carried.  The variants forget the words  *)
(* of a turn interrupted while it waited, or that the flush is over.       *)
TranscribedForgetful(text) ==
    LET user == carry \o text IN
    /\ future' = "none"
    /\ userText' = IF Stopped THEN <<>> ELSE user
    /\ carry' = <<>>
    /\ turn' = IF user = <<>> \/ Stopped THEN "done" ELSE "executing"

TranscribedStillPending(text) ==
    LET user == carry \o text IN
    /\ userText' = IF Stopped THEN <<>> ELSE user
    /\ carry' = IF Stopped THEN user ELSE <<>>
    /\ turn' = IF user = <<>> \/ Stopped THEN "done" ELSE "executing"
    /\ UNCHANGED future

Transcribed(text) ==
    LET user == carry \o text IN
    /\ future' = "none"
    /\ userText' = IF Stopped THEN <<>> ELSE user
    /\ carry' = IF Stopped THEN user ELSE <<>>
    /\ turn' = IF user = <<>> \/ Stopped THEN "done" ELSE "executing"

FlushAnswered ==
    /\ turn = "flushing" /\ future = "resolved"
    /\ Transcribed(futureText)
    /\ futureText' = <<>>
    /\ UNCHANGED <<loopVars, finals, interim, greeting, interrupt, replyVars, bargeVars, sttVars,
                   sttIn, turnError, history, hangUp, heardSpeech, spoken, unanswered>>

(* wait_for times out, with what there is of a transcript.  It can do so   *)
(* even when the future has just been resolved and the task not yet woken. *)
FlushNeverGivenUp == FALSE /\ UNCHANGED vars
FlushGivenUp ==
    /\ env.givesUp
    /\ turn = "flushing"
    /\ Transcribed(finals \o interim)
    /\ finals' = <<>> /\ interim' = <<>> /\ futureText' = <<>>
    /\ UNCHANGED <<loopVars, greeting, interrupt, replyVars, bargeVars, sttVars,
                   sttIn, turnError, history, hangUp, heardSpeech, spoken, unanswered>>

(* The reply's text; a goodbye is one for which call_is_over holds. *)
LlmReplies(text) ==
    /\ turn = "executing" /\ reply = "none"
    /\ reply' = text
    /\ UNCHANGED <<loopVars, textVars, requestVars, audio, cutShort, error, bargeVars, sttVars,
                   sttIn, turn, turnError, carry, history, hangUp, heardSpeech, spoken,
                   unanswered>>

AudioStarts ==
    /\ turn = "executing" /\ reply # "none" /\ ~audio
    /\ audio' = TRUE
    /\ UNCHANGED <<loopVars, textVars, requestVars, reply, cutShort, error, bargeVars, sttVars,
                   sttIn, turn, turnError, carry, history, hangUp, heardSpeech, spoken,
                   unanswered>>

(* HandleCallTurn.execute stops waiting: the work is done, the interrupt   *)
(* was seen first, or a provider failed.                                   *)
StopWork(cut, err) ==
    /\ turn = "executing"
    /\ turn' = "recording"
    /\ cutShort' = cut
    /\ error' = err
    /\ UNCHANGED <<loopVars, textVars, requestVars, reply, audio, bargeVars, sttVars, sttIn,
                   turnError, carry, history, hangUp, heardSpeech, spoken, unanswered>>

WorkDone == StopWork(FALSE, FALSE)
InterruptSeen == Stopped /\ StopWork(TRUE, FALSE)
ProviderFails == StopWork(TRUE, TRUE)

(* _record raised, or the provider's error is raised after it: the turn    *)
(* ends with _turn_error.                                                  *)
TurnFails ==
    /\ turn = "recording"
    /\ turn' = "done"
    /\ turnError' = TRUE
    /\ unanswered' = unanswered \o userText
    /\ userText' = <<>>
    /\ UNCHANGED <<loopVars, textVars, greeting, interrupt, replyVars, bargeVars, sttVars, sttIn,
                   carry, history, hangUp, heardSpeech, spoken>>

(* The turn was recorded.  The caller's words are carried when the turn    *)
(* was cut off before any sound.                                           *)
Conclude ==
    IF cutShort /\ ~audio /\ userText # <<>>
    THEN carry' = userText /\ UNCHANGED <<history, hangUp>>
    ELSE /\ history' = history \o (IF userText # <<>> THEN <<Said(userText)>> ELSE <<>>)
                               \o (IF reply # "none" THEN <<Replied>> ELSE <<>>)
         /\ hangUp' = IF audio /\ reply = "goodbye" THEN "armed" ELSE hangUp
         /\ UNCHANGED carry

TurnRecorded ==
    /\ turn = "recording" /\ ~error
    /\ turn' = "done"
    /\ Conclude
    /\ userText' = <<>>
    /\ UNCHANGED <<loopVars, textVars, greeting, interrupt, replyVars, bargeVars, sttVars, sttIn,
                   turnError, heardSpeech, spoken, unanswered>>

-----------------------------------------------------------------------------
(* The transcript stream and _consume_stt *)

Streaming == sttState = "running" /\ phase # "ended"

SttHears ==
    /\ Streaming /\ sttIn # <<>> /\ Head(sttIn) # Flush
    /\ heard' = Append(heard, Head(sttIn))
    /\ sttIn' = Tail(sttIn)
    /\ UNCHANGED <<loopVars, textVars, requestVars, replyVars, bargeVars, owed, sttState, env,
                   turn,
                   turnError, carry, history, hangUp, heardSpeech, spoken, unanswered>>

SttInterim ==
    /\ Streaming /\ heard # <<>>
    /\ interim' = heard
    /\ UNCHANGED <<loopVars, finals, future, futureText, requestVars, replyVars, bargeVars,
                   sttVars, sttIn, turn, turnError, carry, history, hangUp, heardSpeech, spoken,
                   unanswered>>

(* A final that answers no flush, a late answer among them. *)
SttFinal ==
    /\ Streaming /\ heard # <<>>
    /\ finals' = finals \o heard
    /\ interim' = <<>>
    /\ heard' = <<>>
    /\ owed' = FALSE
    /\ UNCHANGED <<loopVars, future, futureText, requestVars, replyVars, bargeVars, sttState, env,
                   sttIn, turn, turnError, carry, history, hangUp, heardSpeech, spoken,
                   unanswered>>

(* An event with flushed=True: the finals become the result of the pending *)
(* future, or nobody's if there is none waiting.                           *)
ConsumeFlushed(text) ==
    /\ future' = IF future = "waiting" THEN "resolved" ELSE future
    /\ futureText' = IF future = "waiting" THEN finals \o text ELSE futureText
    /\ finals' = <<>>
    /\ interim' = <<>>

SttAnswers ==
    /\ Streaming /\ sttIn # <<>> /\ Head(sttIn) = Flush
    /\ ConsumeFlushed(heard)
    /\ heard' = <<>>
    /\ sttIn' = Tail(sttIn)
    /\ UNCHANGED <<loopVars, requestVars, replyVars, bargeVars, owed, sttState, env,
                   turn, turnError,
                   carry, history, hangUp, heardSpeech, spoken, unanswered>>

(* The adapter's timer answers for a server that is late. *)
SttTimesOut ==
    /\ env.late /\ Streaming /\ sttIn # <<>> /\ Head(sttIn) = Flush
    /\ ConsumeFlushed(<<>>)
    /\ owed' = TRUE
    /\ sttIn' = Tail(sttIn)
    /\ UNCHANGED <<loopVars, requestVars, replyVars, bargeVars, heard, sttState, env, turn, turnError,
                   carry, history, hangUp, heardSpeech, spoken, unanswered>>

(* The late answer is taken for the next flush's, still behind other words.*)
SttAnswersShifted ==
    /\ env.late /\ Streaming /\ owed
    /\ \E i \in 1..Len(sttIn) :
          /\ sttIn[i] = Flush
          /\ sttIn' = RemoveAt(sttIn, i)
    /\ ConsumeFlushed(heard)
    /\ heard' = <<>>
    /\ UNCHANGED <<loopVars, requestVars, replyVars, bargeVars, owed, sttState, env,
                   turn, turnError,
                   carry, history, hangUp, heardSpeech, spoken, unanswered>>

SttStops(how) ==
    /\ env.dies /\ Streaming
    /\ sttState' = how
    /\ UNCHANGED <<loopVars, textVars, requestVars, replyVars, bargeVars, heard, owed, env, sttIn,
                   turn, turnError, carry, history, hangUp, heardSpeech, spoken, unanswered>>

-----------------------------------------------------------------------------
Loop ==
    \/ \E speech \in BOOLEAN :
          FrameWhileBusy(speech) \/ FrameBeforeHangUp(speech) \/ FrameListening(speech)
    \/ FrameCommits \/ AudioEnds \/ AudioFails
    \/ Finish \/ CleanUp \/ EndSession \/ LoseEnd \/ TickerDies \/ HangUpFallsDue

Turn ==
    \/ TurnBegins \/ FlushAnswered \/ FlushGivenUp
    \/ (\E text \in {"words", "goodbye"} : LlmReplies(text)) \/ AudioStarts
    \/ WorkDone \/ InterruptSeen \/ ProviderFails \/ TurnFails \/ TurnRecorded

Stt ==
    \/ SttHears \/ SttInterim \/ SttFinal \/ SttAnswers \/ SttTimesOut \/ SttAnswersShifted
    \/ \E how \in {"ended", "failed"} : SttStops(how)

Next == Loop \/ Turn \/ Stt

Spec == Init /\ [][Next]_vars

(* The event loop runs its tasks and timers; a provider's reply ends, by   *)
(* itself or by an error; the database answers or raises.  Nothing is      *)
(* assumed of the caller or of the transcript stream.                      *)
FairSpec ==
    /\ Spec
    /\ WF_vars(TurnBegins) /\ WF_vars(FlushAnswered) /\ WF_vars(FlushGivenUp)
    /\ WF_vars(WorkDone \/ InterruptSeen \/ ProviderFails)
    /\ WF_vars(TurnFails \/ TurnRecorded)
    /\ WF_vars(Finish) /\ WF_vars(CleanUp) /\ WF_vars(EndSession \/ LoseEnd)

-----------------------------------------------------------------------------
Texts == Seq(1..MaxWords)

TypeOK ==
    /\ phase \in {"live", "finishing", "cleanup", "closing", "ended", "lost"}
    /\ ticker \in {"running", "dead"}
    /\ leftBy \in {"nobody", "agent", "caller", "error"}
    /\ sttIn \in Seq(0..MaxWords)
    /\ {finals, interim, futureText, userText, carry, heard, unanswered} \subseteq Texts
    /\ future \in {"none", "waiting", "resolved"}
    /\ turn = "flushing" <=> future # "none"
    /\ turn \in {"fresh", "flushing", "executing", "recording", "done"}
    /\ reply \in {"none", "words", "goodbye"}
    /\ {failed, greeting, interrupt, audio, cutShort, error, turnError, heardSpeech, owed}
        \subseteq BOOLEAN
    /\ history \in Seq([role : {"user", "assistant"}, words : Texts])
    /\ hangUp \in {"none", "armed", "due"}
    /\ run \in Nat /\ gap \in 0..GapFrames
    /\ sttState \in {"running", "ended", "failed"}
    /\ env \in Environments
    /\ spoken \in 0..env.words

(* Where the caller's words are, oldest first: texts, whose words are in   *)
(* order when each is later than those before it, here or in its text.     *)
Places ==
    [i \in 1..Len(history) |-> history[i].words]
        \o <<unanswered, userText, carry, futureText, finals, heard>>
        \o [i \in 1..Len(sttIn) |-> IF sttIn[i] = Flush THEN <<>> ELSE <<sttIn[i]>>]

WordsOf(texts) == UNION {Range(texts[i]) : i \in DOMAIN texts}

InOrder(texts) ==
    \A i, j \in DOMAIN texts : \A m \in DOMAIN texts[i], n \in DOMAIN texts[j] :
        i < j \/ (i = j /\ m < n) => texts[i][m] < texts[j][n]

(* However frames, barge-ins, turns and (late) transcripts interleave,     *)
(* every word said is in exactly one place, in the order it was said:      *)
(* words of a cut-off turn join the next one, words said over the agent    *)
(* wait, and no word is answered twice.  It is claimed of calls in which   *)
(* the session's own timeout, a fifth of a second behind the adapter's,    *)
(* does not win: an answer that arrives after that is nobody's.            *)
WordsAccounted == ~env.givesUp => InOrder(Places) /\ WordsOf(Places) = 1..spoken

(* Nothing starts while a hang-up is armed, and it is armed only when the  *)
(* turn is over, on a goodbye the caller heard: what follows it is either  *)
(* the hang-up or the caller's own words.                                  *)
NoTurnDuringHangUp == hangUp # "none" => ~Busy /\ reply = "goodbye" /\ audio

(* A call is reported completed only when no turn and no transcript stream *)
(* failed, even if the failure came while the call was finishing.          *)
CompletedCleanly == phase = "ended" /\ ~failed => ~turnError /\ sttState # "failed"

(* Once the frame loop is left, for whatever reason, EndCall runs, unless  *)
(* the ticker had died: no silent transcript stream and no turn in progress*)
(* can hold the call open, given that the session's timeout fires, and     *)
(* nothing else keeps EndCall from running.                                *)
LeavingEndsCall ==
    env.givesUp /\ phase \in {"finishing", "cleanup"} ~>
        phase = "ended" \/ (phase = "lost" /\ ticker = "dead")

(* The words of the caller, in a session whose flush is pending exactly    *)
(* while a turn waits for it.                                              *)
WordsKept == TypeOK /\ WordsAccounted
=============================================================================
