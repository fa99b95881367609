----------------------------- MODULE Endpointing -----------------------------
(***************************************************************************)
(* backend/application/services/endpointing.py behind the call session's   *)
(* frame loop (call_session.py: _on_audio, _consume_stt, _respond): the    *)
(* silence, semantic and smart-turn detectors, fed by EnergyVad with one   *)
(* verdict per frame, by the transcript stream at any time, by the         *)
(* executor that runs the turn model, and by the agent's replies.          *)
(*                                                                         *)
(* A transcript is what its ending says: complete, incomplete or unsure    *)
(* (heuristic_completeness), and whose words end it: those of the turn     *)
(* that was committed or ones the caller has said since.                   *)
(***************************************************************************)
EXTENDS Naturals

CONSTANTS
    MinWait, DefaultWait, MaxWait, \* SemanticEndpointDetector's waits
    SilenceWait,                   \* SilenceEndpointDetector's
    Onset, Ceiling,                \* SmartTurnEndpointDetector's
    VadOnset, VadReset,            \* EnergyVad's smoothing, in frames
    MaxGap,                        \* bound: time from one frame to the next
    Horizon                        \* bound: longer pauses are all alike

ASSUME WaitsAssumption ==
    /\ {MinWait, DefaultWait, MaxWait, SilenceWait, Onset, Ceiling} \subseteq 1..Horizon
    /\ MinWait <= DefaultWait /\ DefaultWait <= MaxWait /\ Onset <= Ceiling
    /\ {VadOnset, VadReset, MaxGap, Horizon} \subseteq Nat \ {0}
    /\ MaxGap <= Horizon

VARIABLES
    kind,        \* EndpointerKind of this call
    voiced,      \* EnergyVad._voiced_ms, in frames
    hushed,      \* EnergyVad._silent_ms, in frames
    inSpeech,    \* _SpeechTracker.in_speech
    heardSpeech, \* _SpeechTracker.heard_speech
    silence,     \* now - _SpeechTracker.last_speech at the last frame
    finals,      \* the last of _TranscriptTracker.finals
    interim,     \* _TranscriptTracker.interim
    cachedText, cachedWait, dictation,  \* SemanticEndpointDetector
    asked, pending, verdict,            \* SmartTurnEndpointDetector
    turn,        \* the session's turn: flushing, replying (until a hang-up
                 \* it leads to is called off), or none: listening
    owing,       \* the stream has still to transcribe the committed turn
    (* History.                                                            *)
    questions,   \* decisions asked for since the caller last spoke
    overtaken    \* the caller has spoken since the last question was asked

vadVars == <<voiced, hushed>>
speechVars == <<inSpeech, heardSpeech, silence>>
textVars == <<finals, interim>>
semanticVars == <<cachedText, cachedWait, dictation>>
smartVars == <<asked, pending, verdict>>
smartHistory == <<questions, overtaken>>
detectorVars == <<kind, vadVars, speechVars, textVars, semanticVars, smartVars, turn, owing,
                  smartHistory>>

Endings == {"complete", "incomplete", "unsure"}
NoText == [says |-> "nothing", of |-> "nobody"]
Pieces == [says : Endings, of : {"turn", "caller"}]
Outcomes == {"yes", "no", "failed"}

(* _TranscriptTracker.text, by its last piece. *)
Text == IF interim # NoText THEN interim ELSE finals

Listening == turn = "listening"

-----------------------------------------------------------------------------
(* The greeting is playing. *)
DetectorInit ==
    /\ kind \in {"silence", "semantic", "smart_turn"}
    /\ voiced = 0 /\ hushed = 0
    /\ inSpeech = FALSE /\ heardSpeech = FALSE /\ silence = 0
    /\ finals = NoText /\ interim = NoText
    /\ cachedText = "unread" /\ cachedWait = DefaultWait /\ dictation = FALSE
    /\ asked = FALSE /\ pending = "none" /\ verdict = "none"
    /\ turn = "replying" /\ owing = FALSE
    /\ questions = 0 /\ overtaken = FALSE

-----------------------------------------------------------------------------
(* EnergyVad.is_speech: a sound counts once there was VadOnset of it, and  *)
(* VadReset of quiet forgets it.                                           *)
IsSpeech == voiced + 1 >= VadOnset

HearSound ==
    /\ voiced' = IF voiced + 1 > VadOnset THEN VadOnset ELSE voiced + 1
    /\ hushed' = 0

HearQuiet ==
    /\ hushed' = IF hushed + 1 > VadReset THEN VadReset ELSE hushed + 1
    /\ voiced' = IF hushed + 1 >= VadReset THEN 0 ELSE voiced

HearSpeech == IsSpeech /\ HearSound
HearNoSpeech == (~IsSpeech /\ HearSound) \/ HearQuiet

(* _SpeechTracker.silence_ms on a quiet frame that comes d later; None     *)
(* before the caller has spoken.                                           *)
Silence(d) == IF silence + d > Horizon THEN Horizon ELSE silence + d

-----------------------------------------------------------------------------
(* SemanticEndpointDetector: _wait_for and required_silence_ms, whose      *)
(* variant looks at the text once per turn.                                *)
WaitFor(says) ==
    IF says = "incomplete" THEN MaxWait
    ELSE IF says = "complete" /\ ~dictation THEN MinWait ELSE DefaultWait

RequiredSilenceOnce == IF cachedText = "unread" THEN WaitFor(Text.says) ELSE cachedWait
RequiredSilence == IF Text.says # cachedText THEN WaitFor(Text.says) ELSE cachedWait

(* SmartTurnEndpointDetector.observe_audio asks once the pause has reached *)
(* its onset; the executor may have answered by the time it is looked at.  *)
(* The variant asks on every frame from then on.                           *)
AsksEveryFrame(s) == s >= Onset
Asks(s) == ~asked /\ s >= Onset
Pending(s, answer) == IF Asks(s) THEN answer ELSE pending

(* _collect_decision: a failed decision leaves no verdict; the variant     *)
(* takes whatever the future holds for one.                                *)
VerdictOrFailure(p) == IF p \in Outcomes THEN p ELSE verdict
Verdict(p) == IF p \in {"yes", "no"} THEN p ELSE verdict

(* should_commit; the variant waits for the model, however long it takes.  *)
SmartCommitsOnVerdict(s, p) == Verdict(p) = "yes"
SmartCommits(s, p) == s >= Ceiling \/ Verdict(p) = "yes"

ShouldCommit(s, p) ==
    \/ kind = "silence" /\ s >= SilenceWait
    \/ kind = "semantic" /\ s >= RequiredSilence
    \/ kind = "smart_turn" /\ SmartCommits(s, p)

(* What should_commit leaves behind when it says no. *)
Consult(s, p) ==
    /\ IF kind = "semantic"
       THEN cachedText' = Text.says /\ cachedWait' = RequiredSilence
       ELSE UNCHANGED <<cachedText, cachedWait>>
    /\ IF kind = "smart_turn" /\ p \in Outcomes
       THEN pending' = "none" /\ verdict' = Verdict(p)
       ELSE pending' = p /\ UNCHANGED verdict

-----------------------------------------------------------------------------
(* CallSession._on_audio *)

(* _forget_decision; the variant leaves the question that is being decided *)
(* for the next look.                                                      *)
ForgetVerdict ==
    /\ asked' = FALSE /\ verdict' = "none"
    /\ UNCHANGED pending

ForgetDecision == asked' = FALSE /\ pending' = "none" /\ verdict' = "none"

SpeechFrame ==
    /\ HearSpeech
    /\ inSpeech' = TRUE /\ heardSpeech' = TRUE /\ silence' = 0
    /\ ForgetDecision
    /\ questions' = 0 /\ overtaken' = TRUE
    /\ UNCHANGED <<kind, textVars, semanticVars, turn, owing>>

(* A frame without speech, the caller not having spoken yet. *)
QuietFrame ==
    /\ ~heardSpeech
    /\ HearNoSpeech
    /\ inSpeech' = FALSE
    /\ UNCHANGED <<kind, heardSpeech, silence, textVars, semanticVars, smartVars, turn, owing,
                   smartHistory>>

(* ... and one in a pause that goes on. *)
PauseFrame(d, answer) ==
    LET s == Silence(d)
        p == IF kind = "smart_turn" THEN Pending(s, answer) ELSE pending
    IN  /\ heardSpeech
        /\ HearNoSpeech
        /\ inSpeech' = FALSE /\ silence' = s
        /\ IF Listening
           THEN ~ShouldCommit(s, p) /\ Consult(s, p)
           ELSE pending' = p /\ UNCHANGED <<cachedText, cachedWait, verdict>>
        /\ IF kind = "smart_turn" /\ Asks(s)
           THEN asked' = TRUE /\ questions' = questions + 1 /\ overtaken' = FALSE
           ELSE UNCHANGED <<asked, smartHistory>>
        /\ UNCHANGED <<kind, heardSpeech, textVars, dictation, turn, owing>>

(* The detector's reset(): all but what the agent said last. *)
Reset ==
    /\ inSpeech' = FALSE /\ heardSpeech' = FALSE /\ silence' = 0
    /\ finals' = NoText /\ interim' = NoText
    /\ cachedText' = "unread"
    /\ asked' = FALSE /\ pending' = "none" /\ verdict' = "none"
    /\ UNCHANGED <<cachedWait, dictation>>

(* ... and one on which the session starts a turn. *)
CommitFrame(d, answer) ==
    LET s == Silence(d)
    IN  /\ Listening /\ heardSpeech
        /\ HearNoSpeech
        /\ ShouldCommit(s, IF kind = "smart_turn" THEN Pending(s, answer) ELSE pending)
        /\ Reset
        /\ turn' = "flushing" /\ owing' = TRUE
        /\ questions' = 0 /\ overtaken' = FALSE
        /\ UNCHANGED kind

(* The executor's thread is done with the model. *)
Decides(outcome) ==
    /\ pending = "running"
    /\ pending' = outcome
    /\ UNCHANGED <<kind, vadVars, speechVars, textVars, semanticVars, asked, verdict, turn,
                   owing, smartHistory>>

-----------------------------------------------------------------------------
(* _consume_stt hands every event to observe_transcript, which smart turn  *)
(* ignores.                                                                *)
ObserveInterim(piece) ==
    IF kind = "smart_turn" THEN UNCHANGED textVars
    ELSE interim' = piece /\ UNCHANGED finals

ObserveFinal(piece) ==
    IF kind = "smart_turn" THEN UNCHANGED textVars
    ELSE finals' = (IF piece = NoText THEN finals ELSE piece) /\ interim' = NoText

(* Words of the committed turn while they are owed, else the caller's new  *)
(* ones.                                                                   *)
Transcribable == {p \in Pieces : IF p.of = "turn" THEN owing ELSE heardSpeech} \cup {NoText}

InterimEvent(piece) ==
    /\ piece \in Transcribable
    /\ ObserveInterim(piece)
    /\ UNCHANGED <<kind, vadVars, speechVars, semanticVars, smartVars, turn, owing,
                   smartHistory>>

FinalEvent(piece) ==
    /\ piece \in Transcribable
    /\ ObserveFinal(piece)
    /\ UNCHANGED <<kind, vadVars, speechVars, semanticVars, smartVars, turn, owing,
                   smartHistory>>

(* The flush is answered: the last event about the committed turn. *)
FlushEvent(piece) ==
    /\ owing
    /\ piece \in Transcribable
    /\ ObserveFinal(piece)
    /\ owing' = FALSE
    /\ UNCHANGED <<kind, vadVars, speechVars, semanticVars, smartVars, turn,
                   smartHistory>>

-----------------------------------------------------------------------------
(* The turn task (_respond) *)

(* _flush_transcript has returned, with the answer or without. *)
TurnHasText ==
    /\ turn = "flushing" /\ turn' = "replying"
    /\ UNCHANGED <<kind, vadVars, speechVars, textVars, semanticVars, smartVars, owing,
                   smartHistory>>

(* Nothing was said, or the turn was cut off and its words are carried. *)
TurnDropped ==
    /\ ~Listening /\ turn' = "listening"
    /\ UNCHANGED <<kind, vadVars, speechVars, textVars, semanticVars, smartVars, owing,
                   smartHistory>>

(* observe_agent_turn: was the agent's question one to dictate an answer   *)
(* to?                                                                     *)
ObserveAgentTurn(dictates) ==
    IF kind = "semantic"
    THEN dictation' = dictates /\ cachedText' = "unread" /\ UNCHANGED cachedWait
    ELSE UNCHANGED semanticVars

TurnAnswered(dictates) ==
    /\ turn = "replying" /\ turn' = "listening"
    /\ ObserveAgentTurn(dictates)
    /\ UNCHANGED <<kind, vadVars, speechVars, textVars, smartVars, owing, smartHistory>>

-----------------------------------------------------------------------------
Answers == {"running"} \cup Outcomes

Frames ==
    \/ SpeechFrame \/ QuietFrame
    \/ \E d \in 1..MaxGap, answer \in Answers : PauseFrame(d, answer) \/ CommitFrame(d, answer)

Others ==
    \/ \E outcome \in Outcomes : Decides(outcome)
    \/ \E piece \in Pieces \cup {NoText} :
          InterimEvent(piece) \/ FinalEvent(piece) \/ FlushEvent(piece)
    \/ TurnHasText \/ TurnDropped
    \/ \E dictates \in BOOLEAN : TurnAnswered(dictates)

DetectorNext == Frames \/ Others

DetectorSpec == DetectorInit /\ [][DetectorNext]_detectorVars

-----------------------------------------------------------------------------
Numbers ==
    /\ voiced \in 0..VadOnset /\ hushed \in 0..VadReset /\ silence \in 0..Horizon
    /\ cachedWait \in {MinWait, DefaultWait, MaxWait}
    /\ questions \in Nat

Flags ==
    /\ inSpeech \in BOOLEAN /\ heardSpeech \in BOOLEAN
    /\ dictation \in BOOLEAN /\ asked \in BOOLEAN
    /\ owing \in BOOLEAN /\ overtaken \in BOOLEAN

Names ==
    /\ kind \in {"silence", "semantic", "smart_turn"}
    /\ finals \in Pieces \cup {NoText} /\ interim \in Pieces \cup {NoText}
    /\ cachedText \in Endings \cup {"nothing", "unread"}
    /\ pending \in {"none"} \cup Answers /\ verdict \in {"none", "yes", "no"}
    /\ turn \in {"listening", "flushing", "replying"}

DetectorTypes == Numbers /\ Flags /\ Names

(* "It is asked once per pause": whatever the model's delay or failure,    *)
(* one pause costs at most one inference.                                  *)
AskedOncePerPause == questions <= 1 /\ (questions = 1 => asked)

(* A decision, under way or made, is about the pause that is going on: a   *)
(* caller who resumes speaking makes it void before it can commit a turn.  *)
VerdictOfThisPause == pending # "none" \/ verdict # "none" => ~overtaken /\ asked /\ ~inSpeech

(* The wait the semantic detector has cached is the one it would compute   *)
(* now: no transcript and no agent turn can have changed it behind the     *)
(* cache's back.                                                           *)
CacheFresh == cachedText = Text.says => cachedWait = WaitFor(Text.says)

(* The waits that bound each detector's decision. *)
Shortest ==
    IF kind = "silence" THEN SilenceWait ELSE IF kind = "semantic" THEN MinWait ELSE Onset
Longest ==
    IF kind = "silence" THEN SilenceWait ELSE IF kind = "semantic" THEN MaxWait ELSE Ceiling

Port == INSTANCE EndpointDetector WITH
    shortest <- Shortest, longest <- Longest, spoke <- heardSpeech, pause <- silence,
    listening <- Listening

(* Each of the three detectors, with a model that is slow or fails and     *)
(* transcripts that come at any time, keeps the port's promise: turns are  *)
(* committed within its waits, after speech and never during it.           *)
ImplementsPort == Port!PortSpec

(* Whatever is remembered across frames is about now: the question asked   *)
(* and its decision about this pause, the cached wait about this text.     *)
NothingStale == DetectorTypes /\ AskedOncePerPause /\ VerdictOfThisPause /\ CacheFresh
=============================================================================
