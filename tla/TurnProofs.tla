----------------------------- MODULE TurnProofs -----------------------------
(***************************************************************************)
(* A turn from one end to the other: that the detectors of Endpointing     *)
(* commit it when their port says they may, for any waits, gaps between    *)
(* frames and kind of detector, and that TurnPipeline plays and bills its  *)
(* reply, for any number of sentences and chunks and any lookahead.        *)
(***************************************************************************)
EXTENDS Endpointing, TurnPipeline, SequenceTheorems, TLAPS

(***************************************************************************)
(* Endpointing                                                             *)
(***************************************************************************)

(* A question is of the pause that goes on: _asked is cleared by speech    *)
(* and by reset, together with all that hangs on it.                       *)
AskInv ==
    /\ asked => /\ kind = "smart_turn" /\ heardSpeech /\ ~inSpeech
                /\ silence >= Onset /\ ~overtaken
    /\ pending # "none" \/ verdict # "none" => asked
    /\ questions = IF asked THEN 1 ELSE 0

(* The cached wait belongs to the cached text, whatever the text is now.   *)
CacheInv == cachedText # "unread" => cachedWait = WaitFor(cachedText)

DetectorInv == DetectorTypes /\ AskInv /\ CacheInv

-----------------------------------------------------------------------------
(* The waits and bounds, one by one.                                       *)
LEMMA Waits ==
    /\ MinWait \in 1..Horizon /\ DefaultWait \in 1..Horizon /\ MaxWait \in 1..Horizon
    /\ SilenceWait \in 1..Horizon /\ Onset \in 1..Horizon /\ Ceiling \in 1..Horizon
    /\ MinWait <= DefaultWait /\ DefaultWait <= MaxWait /\ Onset <= Ceiling
    /\ Horizon \in Nat \ {0} /\ MaxGap \in 1..Horizon
    /\ VadOnset \in Nat \ {0} /\ VadReset \in Nat \ {0}
<1>1. {MinWait, DefaultWait, MaxWait, SilenceWait, Onset, Ceiling} \subseteq 1..Horizon
  BY WaitsAssumption
<1>2. {VadOnset, VadReset, MaxGap, Horizon} \subseteq Nat \ {0}
  BY WaitsAssumption
<1>3. MaxGap \in 1..Horizon
  BY <1>2, WaitsAssumption
<1> QED BY <1>1, <1>2, <1>3, WaitsAssumption

(* The VAD counts up to its onset and to its reset.                        *)
LEMMA VadType ==
    ASSUME voiced \in 0..VadOnset, hushed \in 0..VadReset, HearSpeech \/ HearNoSpeech
    PROVE  voiced' \in 0..VadOnset /\ hushed' \in 0..VadReset
BY Waits DEF HearSpeech, HearNoSpeech, HearSound, HearQuiet

(* The pause after another frame stays within the horizon and never falls. *)
LEMMA SilenceGrows ==
    ASSUME silence \in 0..Horizon, NEW d \in 1..MaxGap
    PROVE  Silence(d) \in 0..Horizon /\ Silence(d) >= silence
BY Waits DEF Silence

(* What is transcribed ends in something or is empty.                      *)
LEMMA TextSays ==
    ASSUME DetectorTypes
    PROVE  Text.says \in Endings \cup {"nothing"}
BY DEF DetectorTypes, Names, Text, NoText, Pieces

(* Every wait the semantic detector computes is one of its three.          *)
LEMMA WaitIsOneOfThree ==
    ASSUME DetectorTypes, NEW says
    PROVE  /\ WaitFor(says) \in {MinWait, DefaultWait, MaxWait}
           /\ RequiredSilence \in {MinWait, DefaultWait, MaxWait}
BY DEF DetectorTypes, Numbers, WaitFor, RequiredSilence

(* Numbers stay in their ranges.                                           *)
LEMMA NumbersStep == DetectorTypes /\ [DetectorNext]_detectorVars => Numbers'
<1> SUFFICES ASSUME DetectorTypes, [DetectorNext]_detectorVars
             PROVE  Numbers'
  OBVIOUS
<1>0. Numbers
  BY DEF DetectorTypes
<1> USE DEF Numbers
<1>1. CASE SpeechFrame
  BY <1>0, <1>1, VadType, Waits DEF SpeechFrame, semanticVars
<1>2. CASE QuietFrame
  BY <1>0, <1>2, VadType DEF QuietFrame, semanticVars, smartHistory
<1>3. ASSUME NEW d \in 1..MaxGap, NEW answer \in Answers, PauseFrame(d, answer)
      PROVE  Numbers'
  <2>1. silence' = Silence(d) /\ HearNoSpeech
    BY <1>3 DEF PauseFrame
  <2>2. cachedWait' = RequiredSilence \/ cachedWait' = cachedWait
    BY <1>3 DEF PauseFrame, Consult
  <2>3. questions' = questions + 1 \/ questions' = questions
    BY <1>3 DEF PauseFrame, smartHistory
  <2> QED BY <1>0, <2>1, <2>2, <2>3, VadType, SilenceGrows, WaitIsOneOfThree
<1>4. ASSUME NEW d \in 1..MaxGap, NEW answer \in Answers, CommitFrame(d, answer)
      PROVE  Numbers'
  BY <1>0, <1>4, VadType, Waits DEF CommitFrame, Reset
<1>5. CASE Others \/ UNCHANGED detectorVars
  <2>1. UNCHANGED <<voiced, hushed, silence, cachedWait, questions>>
    BY <1>5 DEF Others, Decides, InterimEvent, FinalEvent, FlushEvent, TurnHasText, TurnDropped,
                TurnAnswered, ObserveAgentTurn, detectorVars, vadVars, speechVars, semanticVars,
                smartHistory
  <2> QED BY <1>0, <2>1
<1> QED BY <1>1, <1>2, <1>3, <1>4, <1>5 DEF DetectorNext, Frames

(* Flags stay Boolean.                                                     *)
LEMMA FlagsStep == DetectorTypes /\ [DetectorNext]_detectorVars => Flags'
<1> SUFFICES ASSUME DetectorTypes, [DetectorNext]_detectorVars
             PROVE  Flags'
  OBVIOUS
<1>0. Flags
  BY DEF DetectorTypes
<1> USE DEF Flags
<1>1. CASE SpeechFrame
  BY <1>0, <1>1 DEF SpeechFrame, ForgetDecision, semanticVars
<1>2. CASE QuietFrame
  BY <1>0, <1>2 DEF QuietFrame, semanticVars, smartVars, smartHistory
<1>3. ASSUME NEW d \in 1..MaxGap, NEW answer \in Answers, PauseFrame(d, answer)
      PROVE  Flags'
  <2>1. asked' \in BOOLEAN /\ overtaken' \in BOOLEAN
    BY <1>0, <1>3 DEF PauseFrame, smartHistory
  <2>2. inSpeech' = FALSE /\ UNCHANGED <<heardSpeech, dictation, owing>>
    BY <1>3 DEF PauseFrame
  <2> QED BY <1>0, <2>1, <2>2
<1>4. ASSUME NEW d \in 1..MaxGap, NEW answer \in Answers, CommitFrame(d, answer)
      PROVE  Flags'
  BY <1>0, <1>4 DEF CommitFrame, Reset
<1>5. CASE Others \/ UNCHANGED detectorVars
  <2>1. dictation' \in BOOLEAN /\ owing' \in BOOLEAN
    BY <1>0, <1>5 DEF Others, Decides, InterimEvent, FinalEvent, FlushEvent, TurnHasText,
                      TurnDropped, TurnAnswered, ObserveAgentTurn, detectorVars, semanticVars
  <2>2. UNCHANGED <<inSpeech, heardSpeech, asked, overtaken>>
    BY <1>5 DEF Others, Decides, InterimEvent, FinalEvent, FlushEvent, TurnHasText,
                TurnDropped, TurnAnswered, detectorVars, speechVars, smartVars, smartHistory
  <2> QED BY <1>0, <2>1, <2>2
<1> QED BY <1>1, <1>2, <1>3, <1>4, <1>5 DEF DetectorNext, Frames

(* Texts, decisions and program points stay what they are.                 *)
LEMMA NamesStep == DetectorTypes /\ [DetectorNext]_detectorVars => Names'
<1> SUFFICES ASSUME DetectorTypes, [DetectorNext]_detectorVars
             PROVE  Names'
  OBVIOUS
<1>0. Names
  BY DEF DetectorTypes
<1> USE DEF Names
<1>1. CASE SpeechFrame
  BY <1>0, <1>1 DEF SpeechFrame, ForgetDecision, textVars, semanticVars
<1>2. CASE QuietFrame
  BY <1>0, <1>2 DEF QuietFrame, textVars, semanticVars, smartVars
<1>3. ASSUME NEW d \in 1..MaxGap, NEW answer \in Answers, PauseFrame(d, answer)
      PROVE  Names'
  <2>1. cachedText' = Text.says \/ cachedText' = cachedText
    BY <1>3 DEF PauseFrame, Consult
  <2>2. Pending(Silence(d), answer) \in {"none"} \cup Answers
    BY <1>0 DEF Pending
  <2>3. pending' \in {"none"} \cup Answers /\ verdict' \in {"none", "yes", "no"}
    BY <1>0, <1>3, <2>2 DEF PauseFrame, Consult, Verdict
  <2>4. UNCHANGED <<kind, finals, interim, turn>>
    BY <1>3 DEF PauseFrame, textVars
  <2> QED BY <1>0, <2>1, <2>3, <2>4, TextSays
<1>4. ASSUME NEW d \in 1..MaxGap, NEW answer \in Answers, CommitFrame(d, answer)
      PROVE  Names'
  BY <1>0, <1>4 DEF CommitFrame, Reset
<1>5. ASSUME NEW decision \in Outcomes, Decides(decision)
      PROVE  Names'
  BY <1>0, <1>5 DEF Decides, Answers, textVars, semanticVars
<1>6. ASSUME NEW piece \in Pieces \cup {NoText},
             InterimEvent(piece) \/ FinalEvent(piece) \/ FlushEvent(piece)
      PROVE  Names'
  <2>1. finals' \in {finals, piece} /\ interim' \in {interim, piece, NoText}
    BY <1>6 DEF InterimEvent, FinalEvent, FlushEvent, ObserveInterim, ObserveFinal, textVars
  <2>2. UNCHANGED <<kind, cachedText, pending, verdict, turn>>
    BY <1>6 DEF InterimEvent, FinalEvent, FlushEvent, semanticVars, smartVars
  <2> QED BY <1>0, <2>1, <2>2
<1>7. CASE TurnHasText \/ TurnDropped
  BY <1>0, <1>7 DEF TurnHasText, TurnDropped, textVars, semanticVars, smartVars
<1>8. ASSUME NEW dictates \in BOOLEAN, TurnAnswered(dictates)
      PROVE  Names'
  BY <1>0, <1>8 DEF TurnAnswered, ObserveAgentTurn, textVars, semanticVars, smartVars
<1>9. CASE UNCHANGED detectorVars
  BY <1>0, <1>9 DEF detectorVars, textVars, semanticVars, smartVars
<1> QED BY <1>1, <1>2, <1>3, <1>4, <1>5, <1>6, <1>7, <1>8, <1>9 DEF DetectorNext, Frames, Others

LEMMA DetectorTypesStep == DetectorTypes /\ [DetectorNext]_detectorVars => DetectorTypes'
BY NumbersStep, FlagsStep, NamesStep DEF DetectorTypes

(* The first state has the right types.                                    *)
LEMMA DetectorTypesInit == DetectorInit => DetectorTypes
<1>1. DetectorInit => Numbers
  BY Waits DEF DetectorInit, Numbers
<1>2. DetectorInit => Flags
  BY DEF DetectorInit, Flags
<1>3. DetectorInit => Names
  BY DEF DetectorInit, Names
<1> QED BY <1>1, <1>2, <1>3 DEF DetectorTypes

(* ... and so hold for every behaviour.                                    *)
THEOREM DetectorTypesHold == DetectorSpec => []DetectorTypes
BY DetectorTypesInit, DetectorTypesStep, PTL DEF DetectorSpec

-----------------------------------------------------------------------------
(* The smart-turn detector's question, future and verdict stay together.   *)
LEMMA AskStep == DetectorTypes /\ AskInv /\ [DetectorNext]_detectorVars => AskInv'
<1> SUFFICES ASSUME DetectorTypes, AskInv, [DetectorNext]_detectorVars
             PROVE  AskInv'
  OBVIOUS
<1> USE DEF AskInv
<1>1. CASE SpeechFrame
  BY <1>1 DEF SpeechFrame, ForgetDecision
<1>2. CASE QuietFrame
  BY <1>2 DEF QuietFrame, smartVars, smartHistory
<1>3. ASSUME NEW d \in 1..MaxGap, NEW answer \in Answers,
             PauseFrame(d, answer)
      PROVE  AskInv'
  <2>1. Silence(d) \in 0..Horizon /\ Silence(d) >= silence
    BY SilenceGrows DEF DetectorTypes, Numbers
  <2>2. silence' = Silence(d) /\ heardSpeech' /\ ~inSpeech' /\ kind' = kind
    BY <1>3 DEF PauseFrame
  <2>3. CASE kind = "smart_turn" /\ Asks(Silence(d))
    BY <1>3, <2>2, <2>3 DEF PauseFrame, Asks
  <2>4. CASE ~(kind = "smart_turn" /\ Asks(Silence(d)))
    <3>1. asked' = asked /\ questions' = questions /\ overtaken' = overtaken
      BY <1>3, <2>4 DEF PauseFrame, smartHistory
    <3>2. (IF kind = "smart_turn" THEN Pending(Silence(d), answer) ELSE pending) = pending
      BY <2>4 DEF Pending
    <3>3. pending' # "none" \/ verdict' # "none" => pending # "none" \/ verdict # "none"
      BY <1>3, <3>2 DEF PauseFrame, Consult, Verdict, Outcomes
    <3>4. asked => silence' >= Onset
      BY <2>1, <2>2, Waits DEF DetectorTypes, Numbers
    <3> QED BY <2>2, <3>1, <3>3, <3>4
  <2> QED BY <2>3, <2>4
<1>4. ASSUME NEW d \in 1..MaxGap, NEW answer \in Answers,
             CommitFrame(d, answer)
      PROVE  AskInv'
  BY <1>4 DEF CommitFrame, Reset
<1>5. ASSUME NEW decision \in Outcomes, Decides(decision)
      PROVE  AskInv'
  BY <1>5 DEF Decides, speechVars, smartHistory
<1>6. ASSUME NEW piece \in Pieces \cup {NoText},
             InterimEvent(piece) \/ FinalEvent(piece) \/ FlushEvent(piece)
      PROVE  AskInv'
  BY <1>6 DEF InterimEvent, FinalEvent, FlushEvent, speechVars, smartVars, smartHistory
<1>7. CASE TurnHasText \/ TurnDropped
  BY <1>7 DEF TurnHasText, TurnDropped, speechVars, smartVars, smartHistory
<1>8. ASSUME NEW dictates \in BOOLEAN, TurnAnswered(dictates)
      PROVE  AskInv'
  BY <1>8 DEF TurnAnswered, speechVars, smartVars, smartHistory
<1>9. CASE UNCHANGED detectorVars
  BY <1>9 DEF detectorVars, speechVars, smartVars, smartHistory
<1> QED BY <1>1, <1>2, <1>3, <1>4, <1>5, <1>6, <1>7, <1>8, <1>9 DEF DetectorNext, Frames, Others

(* The semantic detector's cache stays true to the last agent turn.        *)
LEMMA CacheStep == DetectorTypes /\ CacheInv /\ [DetectorNext]_detectorVars => CacheInv'
<1> SUFFICES ASSUME DetectorTypes, CacheInv, [DetectorNext]_detectorVars
             PROVE  CacheInv'
  OBVIOUS
<1> USE DEF CacheInv, WaitFor
<1>1. CASE SpeechFrame
  BY <1>1 DEF SpeechFrame, semanticVars
<1>2. CASE QuietFrame
  BY <1>2 DEF QuietFrame, semanticVars
<1>3. ASSUME NEW d \in 1..MaxGap, NEW answer \in Answers,
             PauseFrame(d, answer)
      PROVE  CacheInv'
  <2>1. dictation' = dictation
    BY <1>3 DEF PauseFrame
  <2>2. CASE cachedText' = cachedText /\ cachedWait' = cachedWait
    BY <2>1, <2>2
  <2>3. CASE cachedText' = Text.says /\ cachedWait' = RequiredSilence
    <3>1. Text.says # "unread"
      BY TextSays DEF Endings
    <3> QED BY <2>1, <2>3, <3>1 DEF RequiredSilence
  <2> QED BY <1>3, <2>2, <2>3 DEF PauseFrame, Consult
<1>4. ASSUME NEW d \in 1..MaxGap, NEW answer \in Answers,
             CommitFrame(d, answer)
      PROVE  CacheInv'
  BY <1>4 DEF CommitFrame, Reset
<1>5. ASSUME NEW decision \in Outcomes, Decides(decision)
      PROVE  CacheInv'
  BY <1>5 DEF Decides, semanticVars
<1>6. ASSUME NEW piece \in Pieces \cup {NoText},
             InterimEvent(piece) \/ FinalEvent(piece) \/ FlushEvent(piece)
      PROVE  CacheInv'
  BY <1>6 DEF InterimEvent, FinalEvent, FlushEvent, semanticVars
<1>7. CASE TurnHasText \/ TurnDropped
  BY <1>7 DEF TurnHasText, TurnDropped, semanticVars
<1>8. ASSUME NEW dictates \in BOOLEAN, TurnAnswered(dictates)
      PROVE  CacheInv'
  BY <1>8 DEF TurnAnswered, ObserveAgentTurn, semanticVars
<1>9. CASE UNCHANGED detectorVars
  BY <1>9 DEF detectorVars, semanticVars
<1> QED BY <1>1, <1>2, <1>3, <1>4, <1>5, <1>6, <1>7, <1>8, <1>9 DEF DetectorNext, Frames, Others

(* The three together are inductive.                                       *)
LEMMA DetectorInvHolds == DetectorSpec => []DetectorInv
<1>1. DetectorInit => DetectorInv
  BY DetectorTypesInit DEF DetectorInit, DetectorInv, AskInv, CacheInv
<1>2. DetectorInv /\ [DetectorNext]_detectorVars => DetectorInv'
  BY DetectorTypesStep, AskStep, CacheStep DEF DetectorInv
<1> QED BY <1>1, <1>2, PTL DEF DetectorSpec

(* The turn model is asked once per pause.                                 *)
THEOREM OneInferencePerPause == DetectorSpec => []AskedOncePerPause
<1>1. DetectorInv => AskedOncePerPause
  BY DEF DetectorInv, AskInv, AskedOncePerPause
<1> QED BY <1>1, DetectorInvHolds, PTL

(* No decision outlives the pause it was asked about.                      *)
THEOREM NoOldVerdict == DetectorSpec => []VerdictOfThisPause
<1>1. DetectorInv => VerdictOfThisPause
  BY DEF DetectorInv, AskInv, VerdictOfThisPause
<1> QED BY <1>1, DetectorInvHolds, PTL

(* The cached wait is never out of date.                                   *)
THEOREM NoOldWait == DetectorSpec => []CacheFresh
<1>1. DetectorInv => CacheFresh
  <2> SUFFICES ASSUME DetectorInv PROVE CacheFresh
    OBVIOUS
  <2>1. Text.says # "unread"
    BY TextSays DEF DetectorInv, Endings
  <2> QED BY <2>1 DEF DetectorInv, CacheInv, CacheFresh
<1> QED BY <1>1, DetectorInvHolds, PTL

(* Nothing that the detectors remember is about an earlier pause or text.  *)
THEOREM InformationIsCurrent == DetectorSpec => []NothingStale
<1>1. DetectorTypes /\ AskedOncePerPause /\ VerdictOfThisPause /\ CacheFresh => NothingStale
  BY DEF NothingStale
<1> QED BY <1>1, DetectorTypesHold, OneInferencePerPause, NoOldVerdict, NoOldWait, PTL

-----------------------------------------------------------------------------
(* The first state is one of the port's.                                   *)
LEMMA PortStarts == DetectorInit => Port!PortInit
BY Waits DEF DetectorInit, Port!PortInit, Shortest, Longest, Listening

(* A frame on which a detector says yes is one on which the port allows a  *)
(* commit: smart turn's verdict comes no earlier than its onset.           *)
LEMMA CommitAllowed ==
    ASSUME DetectorInv, NEW d \in 1..MaxGap, NEW answer \in Answers,
           CommitFrame(d, answer)
    PROVE  Port!Commit(d)
<1> DEFINE s == Silence(d)
<1>1. s = Port!Longer(d)
  BY DEF Silence, Port!Longer
<1>2. s \in 0..Horizon /\ s >= silence
  BY SilenceGrows DEF DetectorInv, DetectorTypes, Numbers, Names
<1>3. s >= Shortest
  <2>1. CASE kind = "silence"
    BY <2>1 DEF CommitFrame, ShouldCommit, Shortest
  <2>2. CASE kind = "semantic"
    <3>1. s >= RequiredSilence
      BY <2>2 DEF CommitFrame, ShouldCommit
    <3> QED BY <1>2, <2>2, <3>1, WaitIsOneOfThree, Waits DEF DetectorInv, Shortest
  <2>3. CASE kind = "smart_turn"
    <3>1. SmartCommits(s, Pending(s, answer))
      BY <2>3 DEF CommitFrame, ShouldCommit
    <3>2. s >= Ceiling \/ asked \/ Asks(s)
      BY <3>1 DEF SmartCommits, Verdict, Pending, DetectorInv, AskInv
    <3>3. asked => silence >= Onset
      BY DEF DetectorInv, AskInv
    <3>4. silence \in 0..Horizon
      BY DEF DetectorInv, DetectorTypes, Numbers
    <3> QED BY <1>2, <2>3, <3>2, <3>3, <3>4, Waits DEF Asks, Shortest, DetectorInv, DetectorTypes
  <2> QED BY <2>1, <2>2, <2>3 DEF DetectorInv, DetectorTypes, Numbers, Names
<1> QED BY <1>1, <1>3 DEF CommitFrame, Reset, Port!Commit, Listening, Shortest, Longest

(* A frame in a pause on which the detector says no is before its longest  *)
(* wait.                                                                   *)
LEMMA PauseAllowed ==
    ASSUME DetectorInv, NEW d \in 1..MaxGap, NEW answer \in Answers,
           PauseFrame(d, answer)
    PROVE  Port!Quiet(d)
<1> DEFINE s == Silence(d)
<1>1. s = Port!Longer(d)
  BY DEF Silence, Port!Longer
<1>2. s \in 0..Horizon
  BY SilenceGrows DEF DetectorInv, DetectorTypes, Numbers, Names
<1>3. silence' = s /\ heardSpeech /\ heardSpeech' = heardSpeech /\ kind' = kind /\ turn' = turn
  BY DEF PauseFrame
<1>4. ASSUME Listening PROVE s < Longest
  <2>1. ~ShouldCommit(s, IF kind = "smart_turn" THEN Pending(s, answer) ELSE pending)
    BY <1>4 DEF PauseFrame
  <2>2. CASE kind = "silence"
    BY <1>2, <2>1, <2>2, Waits DEF ShouldCommit, Longest
  <2>3. CASE kind = "semantic"
    <3>1. ~(s >= RequiredSilence)
      BY <2>1, <2>3 DEF ShouldCommit
    <3> QED BY <1>2, <2>3, <3>1, WaitIsOneOfThree, Waits DEF DetectorInv, Longest
  <2>4. CASE kind = "smart_turn"
    BY <1>2, <2>1, <2>4, Waits DEF ShouldCommit, SmartCommits, Longest
  <2> QED BY <2>2, <2>3, <2>4 DEF DetectorInv, DetectorTypes, Numbers, Names
<1> QED BY <1>1, <1>3, <1>4 DEF Port!Quiet, Listening, Shortest, Longest

(* Every step of a detector and its session is a step of the port or none. *)
LEMMA PortStep == DetectorInv /\ [DetectorNext]_detectorVars => [Port!PortNext]_(Port!portVars)
<1> SUFFICES ASSUME DetectorInv, [DetectorNext]_detectorVars
             PROVE  [Port!PortNext]_(Port!portVars)
  OBVIOUS
<1> USE DEF Shortest, Longest, Listening, Port!portVars
<1>1. CASE SpeechFrame
  <2>1. Port!Speech
    BY <1>1 DEF SpeechFrame, Port!Speech
  <2> QED BY <2>1 DEF Port!PortNext
<1>2. ASSUME QuietFrame
      PROVE  UNCHANGED Port!portVars
  BY <1>2 DEF QuietFrame
<1>3. ASSUME NEW d \in 1..MaxGap, NEW answer \in Answers,
             PauseFrame(d, answer) \/ CommitFrame(d, answer)
      PROVE  Port!PortNext
  <2>1. Port!Quiet(d) \/ Port!Commit(d)
    BY <1>3, PauseAllowed, CommitAllowed
  <2>2. d \in 1..Horizon
    BY Waits
  <2> QED BY <2>1, <2>2 DEF Port!PortNext
<1>4. ASSUME NEW decision \in Outcomes, Decides(decision)
      PROVE  UNCHANGED Port!portVars
  BY <1>4 DEF Decides, speechVars
<1>5. ASSUME NEW piece \in Pieces \cup {NoText},
             InterimEvent(piece) \/ FinalEvent(piece) \/ FlushEvent(piece)
      PROVE  UNCHANGED Port!portVars
  BY <1>5 DEF InterimEvent, FinalEvent, FlushEvent, speechVars
<1>6. CASE TurnHasText
  BY <1>6 DEF TurnHasText, speechVars
<1>7. CASE TurnDropped
  <2>1. Port!TurnOver
    BY <1>7 DEF TurnDropped, speechVars, Port!TurnOver
  <2> QED BY <2>1 DEF Port!PortNext
<1>8. ASSUME NEW dictates \in BOOLEAN, TurnAnswered(dictates)
      PROVE  Port!PortNext
  <2>1. Port!TurnOver
    BY <1>8 DEF TurnAnswered, speechVars, Port!TurnOver
  <2> QED BY <2>1 DEF Port!PortNext
<1>9. CASE UNCHANGED detectorVars
  BY <1>9 DEF detectorVars, speechVars
<1> QED BY <1>1, <1>2, <1>3, <1>4, <1>5, <1>6, <1>7, <1>8, <1>9 DEF DetectorNext, Frames, Others

(* Each detector keeps the port's promise, for any waits, model, frames,   *)
(* transcripts and replies.                                                *)
THEOREM DetectorsKeepThePort == DetectorSpec => ImplementsPort
<1>1. DetectorSpec => Port!PortInit
  BY PortStarts DEF DetectorSpec
<1>2. DetectorInv /\ [DetectorNext]_detectorVars => [Port!PortNext]_(Port!portVars)
  BY PortStep
<1> QED BY <1>1, <1>2, DetectorInvHolds, PTL DEF DetectorSpec, ImplementsPort, Port!PortSpec

-----------------------------------------------------------------------------
(***************************************************************************)
(* The turn pipeline                                                       *)
(***************************************************************************)

(* How the synthesizer, the queue and the player divide the sentences:     *)
(* the queue holds the sentences after the one being played, in order, and *)
(* then perhaps the end; a synthesis that was started is in one of them.   *)
QueueInv ==
    /\ playback \in Seq(0..MaxSentences)
    /\ playing \in Nat /\ taken \in 0..generated
    /\ generated \in 0..MaxSentences
    /\ worker \in [Sentence -> {"none", "created", "running", "done", "failed", "stopped"}]
    /\ Len(playback) <= Lookahead
    /\ \A i \in 1..Len(playback) :
          \/ playback[i] = playing + i
          \/ playback[i] = End /\ i = Len(playback) /\ synthesizer = "done"
    /\ synthesizer \in {"taking", "closing"} => taken = playing + Len(playback)
    /\ synthesizer = "putting" => taken = playing + Len(playback) + 1
    /\ \A s \in Started : s <= playing + Len(playback)
    /\ \A s \in Started :
          s <= playing \/ \E i \in 1..Len(playback) : playback[i] = s

LEMMA QueueInit == Init => QueueInv
BY PipelineAssumption DEF Init, QueueInv, Started, Sentence

LEMMA QueueStep == QueueInv /\ [Next]_vars => QueueInv'
<1> SUFFICES ASSUME QueueInv, [Next]_vars
             PROVE  QueueInv'
  OBVIOUS
<1> USE PipelineAssumption DEF QueueInv, Started, Sentence, End
<1>1. CASE GenerateSentence
  BY <1>1 DEF GenerateSentence, queueVars
<1>2. ASSUME NEW how \in {"done", "failed"}, GeneratorStops(how)
      PROVE  QueueInv'
  BY <1>2 DEF GeneratorStops, queueVars
<1>3. CASE TakeSentence
  BY <1>3 DEF TakeSentence, queueVars
<1>4. CASE StartSentence
  <2>1. /\ synthesizer = "putting" /\ synthesizer' = "taking"
        /\ playback' = Append(playback, taken)
        /\ Len(playback) < Lookahead
        /\ taken \in Sentence
        /\ worker' = [worker EXCEPT ![taken] = "created"]
        /\ UNCHANGED <<generated, taken, playing>>
    BY <1>4 DEF StartSentence, Room, SetWorker
  <2>2. /\ playback' \in Seq(0..MaxSentences)
        /\ Len(playback') = Len(playback) + 1
        /\ \A i \in 1..Len(playback) : playback'[i] = playback[i]
        /\ playback'[Len(playback) + 1] = taken
    BY <2>1
  <2>3. Started' = Started \cup {taken}
    BY <2>1
  <2>4. \A s \in Started' :
           s <= playing' \/ \E i \in 1..Len(playback') : playback'[i] = s
    <3> SUFFICES ASSUME NEW s \in Started', ~(s <= playing)
                 PROVE  \E i \in 1..Len(playback') : playback'[i] = s
      BY <2>1
    <3>1. CASE s = taken
      BY <2>2, <3>1
    <3>2. CASE s \in Started
      <4>1. PICK i \in 1..Len(playback) : playback[i] = s
        BY <3>2
      <4> QED BY <4>1, <2>2
    <3> QED BY <2>3, <3>1, <3>2
  <2>5. \A s \in Started' : s <= playing' + Len(playback')
    BY <2>1, <2>2, <2>3
  <2>6. \A i \in 1..Len(playback') : playback'[i] = playing' + i
    <3> SUFFICES ASSUME NEW i \in 1..Len(playback')
                 PROVE  playback'[i] = playing + i
      BY <2>1
    <3>1. CASE i \in 1..Len(playback)
      <4>1. playback[i] = playing + i
        BY <2>1, <3>1
      <4> QED BY <4>1, <3>1, <2>2
    <3>2. CASE i = Len(playback) + 1
      <4>1. taken = playing + Len(playback) + 1
        BY <2>1
      <4> QED BY <4>1, <3>2, <2>2
    <3>3. Len(playback) \in Nat
      OBVIOUS
    <3> QED BY <3>1, <3>2, <3>3, <2>2
  <2>7. worker' \in [Sentence -> {"none", "created", "running", "done", "failed", "stopped"}]
    BY <2>1
  <2> QED BY SMTT(30), <2>1, <2>2, <2>4, <2>5, <2>6, <2>7
<1>5. CASE TakeEnd
  BY <1>5 DEF TakeEnd, queueVars
<1>6. CASE PutEnd
  <2>1. /\ synthesizer = "closing" /\ synthesizer' = "done"
        /\ playback' = Append(playback, 0)
        /\ Len(playback) < Lookahead
        /\ UNCHANGED <<generated, taken, playing, worker>>
    BY <1>6 DEF PutEnd, Room
  <2>2. /\ playback' \in Seq(0..MaxSentences)
        /\ Len(playback') = Len(playback) + 1
        /\ \A i \in 1..Len(playback) : playback'[i] = playback[i]
        /\ playback'[Len(playback) + 1] = 0
    BY <2>1
  <2>3. \A i \in 1..Len(playback') :
           \/ playback'[i] = playing' + i
           \/ playback'[i] = 0 /\ i = Len(playback')
    BY <2>1, <2>2
  <2>4. \A s \in Started' :
           s <= playing' \/ \E i \in 1..Len(playback') : playback'[i] = s
    <3> SUFFICES ASSUME NEW s \in Started, ~(s <= playing)
                 PROVE  \E i \in 1..Len(playback') : playback'[i] = s
      BY <2>1
    <3>1. PICK i \in 1..Len(playback) : playback[i] = s
      OBVIOUS
    <3> QED BY SMTT(30), <3>1, <2>2
  <2>5. \A s \in Started' : s <= playing' + Len(playback')
    BY <2>1, <2>2
  <2> QED BY <2>1, <2>2, <2>3, <2>4, <2>5
<1>7. ASSUME NEW s \in Sentence, RequestSpeech(s)
      PROVE  QueueInv'
  BY <1>7 DEF RequestSpeech, SetWorker, queueVars
<1>8. ASSUME NEW s \in Sentence, MakeChunk(s)
      PROVE  QueueInv'
  BY <1>8 DEF MakeChunk
<1>9. ASSUME NEW s \in Sentence, NEW how \in {"done", "failed"}, WorkerStops(s, how)
      PROVE  QueueInv'
  BY <1>9 DEF WorkerStops, SetWorker
<1>10. CASE PlayNext
  <2>1. PICK s \in 0..MaxSentences :
           /\ s = Head(playback) /\ playback' = Tail(playback)
           /\ playing' = IF s = 0 THEN playing ELSE s
    BY <1>10 DEF PlayNext, GetOldest
  <2>2. playback # <<>> /\ UNCHANGED <<generated, taken, worker, synthesizer>>
    BY <1>10 DEF PlayNext
  <2>3. /\ playback' \in Seq(0..MaxSentences)
        /\ Len(playback') = Len(playback) - 1
        /\ \A i \in 1..Len(playback') : playback'[i] = playback[i + 1]
        /\ s = playback[1] /\ 1 \in 1..Len(playback)
    BY <2>1, <2>2
  <2>4. /\ playing \in Nat /\ Len(playback) \in Nat
        /\ \A i \in 1..Len(playback) :
              \/ playback[i] = playing + i
              \/ playback[i] = 0 /\ i = Len(playback) /\ synthesizer = "done"
        /\ \A x \in Started : x \in Nat
        /\ \A x \in Started :
              x <= playing \/ \E i \in 1..Len(playback) : playback[i] = x
    OBVIOUS
  <2> HIDE DEF QueueInv, Started
  <2>5. ASSUME s = 0
        PROVE  /\ \A i \in 1..Len(playback') :
                     \/ playback'[i] = playing' + i
                     \/ playback'[i] = 0 /\ i = Len(playback') /\ synthesizer' = "done"
               /\ \A x \in Started :
                     x <= playing' \/ \E i \in 1..Len(playback') : playback'[i] = x
               /\ \A x \in Started : x <= playing' + Len(playback')
               /\ playing' \in Nat /\ synthesizer = "done"
    <3>1. Len(playback) = 1 /\ synthesizer = "done"
      <4>1. playback[1] # playing + 1
        BY <2>3, <2>4, <2>5
      <4> QED BY <2>3, <2>4, <4>1
    <3>2. Len(playback') = 0 /\ playing' = playing
      BY <3>1, <2>1, <2>3, <2>5
    <3>3. ASSUME NEW x \in Started
          PROVE  x <= playing
      <4>1. ASSUME NEW i \in 1..Len(playback), playback[i] = x
            PROVE  x <= playing
        <5>1. i = 1
          BY <3>1
        <5>2. x = 0
          BY <4>1, <5>1, <2>3, <2>5
        <5> QED BY <5>2, <2>4
      <4> QED BY <4>1, <2>4
    <3> QED BY <3>1, <3>2, <3>3, <2>4
  <2>6. ASSUME s # 0
        PROVE  /\ \A i \in 1..Len(playback') :
                     \/ playback'[i] = playing' + i
                     \/ playback'[i] = 0 /\ i = Len(playback') /\ synthesizer' = "done"
               /\ \A x \in Started :
                     x <= playing' \/ \E i \in 1..Len(playback') : playback'[i] = x
               /\ playing' + Len(playback') = playing + Len(playback)
               /\ playing' \in Nat
    <3>1. s = playing + 1 /\ playing' = playing + 1
      BY <2>1, <2>3, <2>4, <2>6
    <3>2. ASSUME NEW i \in 1..Len(playback')
          PROVE  \/ playback'[i] = playing' + i
                 \/ playback'[i] = 0 /\ i = Len(playback') /\ synthesizer' = "done"
      <4>1. i + 1 \in 1..Len(playback) /\ playback'[i] = playback[i + 1]
        BY <2>3, <2>4
      <4>2. \/ playback[i + 1] = playing + (i + 1)
            \/ playback[i + 1] = 0 /\ i + 1 = Len(playback) /\ synthesizer = "done"
        BY <4>1, <2>4
      <4> QED BY <4>1, <4>2, <3>1, <2>2, <2>3, <2>4
    <3>3. ASSUME NEW x \in Started, ~(x <= playing')
          PROVE  \E i \in 1..Len(playback') : playback'[i] = x
      <4>1. PICK i \in 1..Len(playback) : playback[i] = x
        BY <3>1, <3>3, <2>4
      <4>2. i # 1
        <5>1. x > playing + 1
          BY <3>1, <3>3, <2>4
        <5>2. playback[1] = s
          BY <2>3
        <5> QED BY <4>1, <5>1, <5>2, <3>1, <2>4
      <4>3. i - 1 \in 1..Len(playback') /\ playback'[i - 1] = playback[(i - 1) + 1]
        BY <4>2, <2>3, <2>4
      <4>4. (i - 1) + 1 = i
        OBVIOUS
      <4> QED BY <4>1, <4>3, <4>4
    <3> QED BY <2>3, <2>4, <3>1, <3>2, <3>3
  <2> USE DEF QueueInv, Started
  <2>7. CASE s = 0
    BY <2>2, <2>3, <2>5, <2>7
  <2>8. CASE s # 0
    BY SMTT(30), <2>2, <2>3, <2>6, <2>8
  <2> QED BY <2>7, <2>8
<1>11. CASE TakeChunk
  BY <1>11 DEF TakeChunk
<1>12. ASSUME NEW how \in {"playing", "failed"}, WriteReturns(how)
       PROVE  QueueInv'
  BY <1>12 DEF WriteReturns, queueVars
<1>13. CASE Abort
  <2>1. /\ UNCHANGED <<playback, playing, generated, taken>>
        /\ synthesizer' = IF synthesizer = "done" THEN "done" ELSE "stopped"
        /\ worker' = [s \in Sentence |->
              IF worker[s] \in {"created", "running"} THEN "stopped" ELSE worker[s]]
    BY <1>13 DEF Abort
  <2>2. Started' = Started
    BY <2>1
  <2> QED BY <2>1, <2>2
<1>14. CASE Complete \/ BargeIn \/ CancelWork \/ Record
  BY <1>14 DEF Complete, BargeIn, CancelWork, Record, taskVars, queueVars
<1>15. CASE UNCHANGED vars
  BY <1>15 DEF vars, taskVars, queueVars
<1> QED
  BY <1>1, <1>2, <1>3, <1>4, <1>5, <1>6, <1>7, <1>8, <1>9, <1>10, <1>11, <1>12, <1>13, <1>14,
     <1>15 DEF Next, Synthesis, Playing

(* "Synthesis never runs further ahead of playback than                    *)
(* _LOOKAHEAD_SENTENCES": put() blocking before create_task suffices for   *)
(* any speeds of the LLM, of the syntheses and of the speaker.             *)
THEOREM LookaheadHolds == Spec => []LookaheadBounded
<1>1. QueueInv => LookaheadBounded
  BY PipelineAssumption DEF QueueInv, LookaheadBounded, Started, Sentence
<1> QED BY QueueInit, QueueStep, <1>1, PTL DEF Spec

(* A task group that is over or aborting runs nothing, and a turn is       *)
(* recorded only then.                                                     *)
RecordInv == outcome \in {"interrupted", "complete"} => group \in {"over", "aborting"}

(* Once a turn is recorded nothing of it reaches the speaker: execute()    *)
(* awaits the cancelled work before it records.                            *)
THEOREM RecordedTurnIsQuiet == Spec => QuietAfterRecord
<1>1. Init => RecordInv
  BY DEF Init, RecordInv
<1>2. RecordInv /\ [Next]_vars => RecordInv'
  <2> SUFFICES ASSUME RecordInv, [Next]_vars
               PROVE  RecordInv'
    OBVIOUS
  <2> USE DEF RecordInv
  <2>1. CASE UNCHANGED <<outcome, group>>
    BY <2>1
  <2>2. CASE Abort
    BY <2>2 DEF Abort
  <2>3. CASE Complete
    BY <2>3 DEF Complete
  <2>4. CASE CancelWork
    BY <2>4 DEF CancelWork
  <2>5. CASE Record
    BY <2>5 DEF Record
  <2>6. CASE ~(Abort \/ Complete \/ CancelWork \/ Record)
    <3>1. UNCHANGED <<outcome, group>>
      BY <2>6 DEF Next, Synthesis, Playing, GenerateSentence, GeneratorStops, TakeSentence,
                  StartSentence, TakeEnd, PutEnd, RequestSpeech, MakeChunk, WorkerStops,
                  PlayNext, TakeChunk, WriteReturns, BargeIn, vars
    <3> QED BY <3>1, <2>1
  <2> QED BY <2>2, <2>3, <2>4, <2>5, <2>6
<1>3. RecordInv /\ [Next]_vars =>
        [(outcome \in {"interrupted", "complete"}) => UNCHANGED written]_vars
  <2> SUFFICES ASSUME RecordInv, Next, outcome \in {"interrupted", "complete"}
               PROVE  UNCHANGED written
    BY DEF vars
  <2>1. ~Running
    BY DEF RecordInv, Running
  <2> QED
    BY <2>1 DEF Next, Synthesis, Playing, GenerateSentence, GeneratorStops, TakeSentence,
                StartSentence, TakeEnd, PutEnd, RequestSpeech, MakeChunk, WorkerStops,
                PlayNext, TakeChunk, WriteReturns, BargeIn, Abort, Complete, CancelWork, Record
<1> QED BY <1>1, <1>2, <1>3, PTL DEF Spec, QuietAfterRecord

-----------------------------------------------------------------------------
(* Types of what the tasks and the group keep.                             *)
Chunk == Sentence \X (1..MaxChunks)

TaskTypes ==
    /\ generator \in {"running", "done", "failed", "stopped"}
    /\ synthesizer \in {"taking", "putting", "closing", "done", "stopped"}
    /\ player \in {"waiting", "playing", "writing", "done", "failed", "stopped"}
    /\ playing \in 0..MaxSentences
    /\ player \in {"playing", "writing"} => playing \in Sentence
    /\ made \in [Sentence -> 0..MaxChunks]
    /\ audioQueue \in [Sentence -> Seq(0..MaxChunks)]
    /\ written \in Seq(Chunk)
    /\ interrupt \in BOOLEAN /\ error \in BOOLEAN
    /\ group \in {"running", "cancelled", "aborting", "over"}
    /\ outcome \in {"open", "interrupting", "interrupted", "complete"}

LEMMA TaskTypesInit == Init => TaskTypes
<1>1. <<>> \in Seq(Chunk) /\ <<>> \in Seq(0..MaxChunks)
  BY EmptySeq
<1>2. 0 \in 0..MaxChunks /\ 0 \in 0..MaxSentences
  BY PipelineAssumption
<1> QED BY <1>1, <1>2 DEF Init, TaskTypes

LEMMA TaskTypesStep == QueueInv /\ TaskTypes /\ [Next]_vars => TaskTypes'
<1> SUFFICES ASSUME QueueInv, TaskTypes, [Next]_vars PROVE TaskTypes'
  OBVIOUS
<1> USE PipelineAssumption DEF TaskTypes
<1>1. CASE GenerateSentence
  BY <1>1 DEF GenerateSentence, queueVars
<1>2. ASSUME NEW how \in {"done", "failed"}, GeneratorStops(how) PROVE TaskTypes'
  BY <1>2 DEF GeneratorStops, queueVars
<1>3. CASE TakeSentence
  BY <1>3 DEF TakeSentence, queueVars
<1>4. CASE StartSentence
  BY <1>4 DEF StartSentence
<1>5. CASE TakeEnd
  BY <1>5 DEF TakeEnd, queueVars
<1>6. CASE PutEnd
  BY <1>6 DEF PutEnd
<1>7. ASSUME NEW s \in Sentence, RequestSpeech(s) PROVE TaskTypes'
  BY <1>7 DEF RequestSpeech, queueVars
<1>8. ASSUME NEW s \in Sentence, MakeChunk(s) PROVE TaskTypes'
  <2>1. made[s] + 1 \in 0..MaxChunks /\ audioQueue[s] \in Seq(0..MaxChunks)
    BY <1>8 DEF MakeChunk
  <2>2. made' = [made EXCEPT ![s] = made[s] + 1] /\ made'[s] = made[s] + 1
    BY <1>8 DEF MakeChunk
  <2>3. Append(audioQueue[s], made'[s]) \in Seq(0..MaxChunks)
    BY <2>1, <2>2, AppendProperties
  <2> QED BY <1>8, <2>1, <2>2, <2>3 DEF MakeChunk
<1>9. ASSUME NEW s \in Sentence, NEW how \in {"done", "failed"}, WorkerStops(s, how)
      PROVE  TaskTypes'
  <2>1. Append(audioQueue[s], End) \in Seq(0..MaxChunks)
    BY AppendProperties DEF End
  <2> QED BY <1>9, <2>1 DEF WorkerStops, CloseAudio
<1>10. CASE PlayNext
  BY <1>10 DEF PlayNext, End, Sentence
<1>11. CASE TakeChunk
  <2>1. playing \in Sentence /\ audioQueue[playing] \in Seq(0..MaxChunks)
        /\ audioQueue[playing] # <<>>
    BY <1>11 DEF TakeChunk
  <2>2. Head(audioQueue[playing]) \in 0..MaxChunks
        /\ Tail(audioQueue[playing]) \in Seq(0..MaxChunks)
    BY <2>1, HeadTailProperties
  <2>3. CASE Head(audioQueue[playing]) = End
    BY <1>11, <2>1, <2>2, <2>3 DEF TakeChunk
  <2>4. CASE Head(audioQueue[playing]) # End
    <3>1. <<playing, Head(audioQueue[playing])>> \in Chunk
      BY <2>1, <2>2, <2>4 DEF End, Chunk
    <3>2. written' = Append(written, <<playing, Head(audioQueue[playing])>>)
      BY <1>11, <2>4 DEF TakeChunk
    <3>3. written' \in Seq(Chunk)
      BY <3>1, <3>2, AppendProperties
    <3> QED BY <1>11, <2>1, <2>2, <2>4, <3>3 DEF TakeChunk
  <2> QED BY <2>3, <2>4
<1>12. ASSUME NEW how \in {"playing", "failed"}, WriteReturns(how) PROVE TaskTypes'
  BY <1>12 DEF WriteReturns, queueVars
<1>13. CASE Abort
  <2>1. \A s \in Sentence : Append(audioQueue[s], End) \in Seq(0..MaxChunks)
    BY AppendProperties DEF End
  <2>2. audioQueue' \in [Sentence -> Seq(0..MaxChunks)]
    BY <1>13, <2>1 DEF Abort
  <2> QED BY <1>13, <2>2 DEF Abort
<1>14. CASE Complete \/ BargeIn \/ CancelWork
  <2>1. CASE Complete BY <2>1 DEF Complete, taskVars, queueVars
  <2>2. CASE BargeIn BY <2>2 DEF BargeIn, taskVars, queueVars
  <2>3. CASE CancelWork BY <2>3 DEF CancelWork, taskVars, queueVars
  <2> QED BY <1>14, <2>1, <2>2, <2>3
<1>15. CASE Record
  BY <1>15 DEF Record, Failed, taskVars, queueVars
<1>16. CASE UNCHANGED vars
  BY <1>16 DEF vars, taskVars, queueVars
<1> QED
  BY <1>1, <1>2, <1>3, <1>4, <1>5, <1>6, <1>7, <1>8, <1>9, <1>10, <1>11, <1>12, <1>13, <1>14,
     <1>15, <1>16 DEF Next, Synthesis, Playing

-----------------------------------------------------------------------------
(* A sentence is billed in the step that starts its synthesis, so those    *)
(* taken are billed but for the one that waits for room.                   *)
BillInv ==
    /\ billed \in Nat
    /\ \A s \in Started : s <= billed
    /\ Running => synthesizer # "stopped"
    /\ synthesizer = "putting" => taken = billed + 1
    /\ synthesizer \in {"taking", "closing", "done"} => taken = billed

LEMMA BillInit == Init => BillInv
BY DEF Init, BillInv, Started

LEMMA BillStep == QueueInv /\ TaskTypes /\ BillInv /\ [Next]_vars => BillInv'
<1> SUFFICES ASSUME QueueInv, TaskTypes, BillInv, [Next]_vars PROVE BillInv'
  OBVIOUS
<1>0. /\ taken \in Nat /\ billed \in Nat /\ Sentence \subseteq Nat
      /\ worker \in [Sentence -> {"none", "created", "running", "done", "failed", "stopped"}]
  BY PipelineAssumption DEF QueueInv, BillInv, Sentence
<1> USE DEF BillInv, Running
<1>1. CASE UNCHANGED <<billed, worker, taken, synthesizer, group>>
  BY <1>1 DEF Started
<1>2. CASE TakeSentence
  BY <1>0, <1>2 DEF TakeSentence, Started
<1>3. CASE StartSentence
  <2>1. taken \in Sentence /\ taken = billed + 1
    BY <1>0, <1>3, PipelineAssumption DEF StartSentence, QueueInv, Sentence
  <2>2. Started' = Started \cup {taken}
    BY <1>0, <1>3, <2>1 DEF StartSentence, SetWorker, Started
  <2> QED BY <1>0, <1>3, <2>1, <2>2 DEF StartSentence, Bill, Started
<1>4. CASE TakeEnd \/ PutEnd
  BY <1>4 DEF TakeEnd, PutEnd, Started
<1>5. ASSUME NEW s \in Sentence, NEW how \in {"running", "done", "failed"},
             worker[s] # "none", worker' = [worker EXCEPT ![s] = how],
             UNCHANGED <<billed, taken, synthesizer, group>>
      PROVE  BillInv'
  BY <1>0, <1>5 DEF Started
<1>6. CASE Abort
  <2>1. Started' = Started
    BY <1>0, <1>6 DEF Abort, Started
  <2> QED BY <1>6, <2>1 DEF Abort
<1>7. CASE Complete \/ CancelWork
  BY <1>7 DEF Complete, CancelWork, taskVars, Started
<1>8. ASSUME NEW s \in Sentence, RequestSpeech(s) PROVE BillInv'
  BY <1>5, <1>8 DEF RequestSpeech, SetWorker
<1>9. ASSUME NEW s \in Sentence, NEW how \in {"done", "failed"}, WorkerStops(s, how)
      PROVE  BillInv'
  BY <1>5, <1>9 DEF WorkerStops, SetWorker
<1> QED
  BY <1>1, <1>2, <1>3, <1>4, <1>6, <1>7, <1>8, <1>9
  DEF Next, Synthesis, Playing, GenerateSentence, GeneratorStops, MakeChunk, PlayNext, TakeChunk,
      WriteReturns, BargeIn, Record, taskVars, vars

LEMMA InvariantsHold == Spec => [](QueueInv /\ TaskTypes /\ BillInv)
BY QueueInit, QueueStep, TaskTypesInit, TaskTypesStep, BillInit, BillStep, PTL DEF Spec

(* Whatever the provider was asked to speak is on the bill, however the    *)
(* turn ends and wherever it is cut off.                                   *)
THEOREM EveryRequestIsBilled == Spec => []RequestedIsBilled
<1>1. BillInv => RequestedIsBilled
  BY DEF BillInv, RequestedIsBilled, Started
<1> QED BY <1>1, InvariantsHold, PTL

-----------------------------------------------------------------------------
(* What PlayNext takes: the end, which is then the last in the queue, or   *)
(* the sentence after the one that was played.                             *)
LEMMA PlayNextTakes ==
    ASSUME QueueInv, PlayNext
    PROVE  /\ playback' \in Seq(0..MaxSentences)
           /\ Len(playback) \in Nat /\ Len(playback) >= 1
           /\ Len(playback') = Len(playback) - 1
           /\ \A i \in 1..Len(playback') : playback'[i] = playback[i + 1]
           /\ \/ /\ playback[1] = End /\ Len(playback) = 1 /\ synthesizer = "done"
                 /\ playing' = playing /\ player' = "done"
              \/ /\ playback[1] = playing + 1 /\ playing + 1 \in Sentence
                 /\ playing' = playing + 1 /\ player' = "playing"
<1>1. PICK s \in 0..MaxSentences :
         /\ s = Head(playback) /\ playback' = Tail(playback)
         /\ playing' = IF s = 0 THEN playing ELSE s
         /\ player' = IF s = 0 THEN "done" ELSE "playing"
  BY DEF PlayNext, GetOldest, End
<1>2. playback # <<>> /\ playback \in Seq(0..MaxSentences) /\ playing \in Nat
  BY DEF PlayNext, QueueInv
<1>3. /\ playback' \in Seq(0..MaxSentences)
      /\ Len(playback) \in Nat /\ Len(playback) >= 1
      /\ Len(playback') = Len(playback) - 1
      /\ \A i \in 1..Len(playback') : playback'[i] = playback[i + 1]
      /\ s = playback[1]
  BY <1>1, <1>2
<1>4. \/ playback[1] = playing + 1
      \/ playback[1] = End /\ 1 = Len(playback) /\ synthesizer = "done"
  BY <1>3 DEF QueueInv
<1> QED BY <1>1, <1>2, <1>3, <1>4, PipelineAssumption DEF End, Sentence

(* How the end travels: from the generator through the synthesizer and the *)
(* queue to the player; and why the group is over, or aborts.              *)
EndInv ==
    /\ synthesizer \in {"closing", "done"} => generator = "done" /\ taken = generated
    /\ synthesizer = "done" /\ Len(playback) = 0 => taken = playing
    /\ synthesizer = "done" /\ Len(playback) > 0 =>
          playback[Len(playback)] = End /\ taken + 1 = playing + Len(playback)
    /\ player = "done" => synthesizer = "done" /\ Len(playback) = 0
    /\ playing <= taken
    /\ group = "cancelled" => outcome = "interrupting"
    /\ group = "aborting" => Failed \/ outcome # "open"
    /\ group = "over" => player = "done"
    /\ outcome = "complete" => player = "done" /\ ~Running

LEMMA EndInit == Init => EndInv
BY DEF Init, EndInv, Failed, Running

LEMMA EndStep == QueueInv /\ TaskTypes /\ BillInv /\ EndInv /\ [Next]_vars => EndInv'
<1> SUFFICES ASSUME QueueInv, TaskTypes, BillInv, EndInv, [Next]_vars PROVE EndInv'
  OBVIOUS
<1>0. /\ taken \in Nat /\ playing \in Nat /\ generated \in Nat
      /\ playback \in Seq(0..MaxSentences) /\ Len(playback) \in Nat
      /\ group \in {"running", "cancelled", "aborting", "over"}
      /\ outcome \in {"open", "interrupting", "interrupted", "complete"}
  BY PipelineAssumption DEF QueueInv, TaskTypes
<1> USE DEF EndInv, Running
<1>1. ASSUME UNCHANGED <<synthesizer, taken, playback, playing, group, outcome>>,
             Running, player # "done", player' # "done",
             UNCHANGED <<generator, generated>>
      PROVE  EndInv'
  BY <1>0, <1>1
<1>2. ASSUME UNCHANGED <<synthesizer, taken, playback, player, playing, group, outcome>>,
             Running, generator = "done" => UNCHANGED <<generator, generated>>,
             generated' >= generated
      PROVE  EndInv'
  BY <1>0, <1>2
<1>3. CASE GenerateSentence
  BY <1>0, <1>2, <1>3 DEF GenerateSentence, queueVars
<1>4. ASSUME NEW how \in {"done", "failed"}, GeneratorStops(how) PROVE EndInv'
  BY <1>0, <1>2, <1>4 DEF GeneratorStops, queueVars
<1>5. CASE TakeSentence
  BY <1>0, <1>5 DEF TakeSentence, queueVars
<1>6. CASE StartSentence
  <2>1. taken \in 0..MaxSentences
    BY <1>0, PipelineAssumption DEF QueueInv
  <2>2. Len(playback') = Len(playback) + 1
    BY <1>0, <1>6, <2>1 DEF StartSentence
  <2> QED BY <1>0, <1>6, <2>2 DEF StartSentence, QueueInv
<1>7. CASE TakeEnd
  BY <1>0, <1>7 DEF TakeEnd, queueVars
<1>8. CASE PutEnd
  <2>1. /\ Len(playback') = Len(playback) + 1
        /\ playback'[Len(playback) + 1] = End
    BY <1>0, <1>8, PipelineAssumption DEF PutEnd, End
  <2>2. taken = playing + Len(playback)
    BY <1>8 DEF PutEnd, QueueInv
  <2> QED BY <1>0, <1>8, <2>1, <2>2 DEF PutEnd
<1>9. ASSUME NEW s \in Sentence,
             \/ RequestSpeech(s) \/ MakeChunk(s)
             \/ \E how \in {"done", "failed"} : WorkerStops(s, how)
      PROVE  EndInv'
  BY <1>0, <1>2, <1>9 DEF RequestSpeech, MakeChunk, WorkerStops, queueVars
<1>10. CASE PlayNext
  <2>1. /\ Len(playback) >= 1
        /\ Len(playback') = Len(playback) - 1
        /\ \A i \in 1..Len(playback') : playback'[i] = playback[i + 1]
        /\ \/ /\ playback[1] = End /\ Len(playback) = 1 /\ synthesizer = "done"
              /\ playing' = playing /\ player' = "done"
           \/ /\ playback[1] = playing + 1
              /\ playing' = playing + 1 /\ player' = "playing"
    BY <1>10, PlayNextTakes
  <2>2. /\ UNCHANGED <<generator, generated, synthesizer, taken, group, outcome>>
        /\ synthesizer # "stopped" /\ Running
    BY <1>10 DEF PlayNext, BillInv
  <2>3. CASE playback[1] = End /\ Len(playback) = 1 /\ synthesizer = "done"
             /\ playing' = playing /\ player' = "done"
    BY <1>0, <2>1, <2>2, <2>3
  <2>4. CASE playback[1] = playing + 1 /\ playing' = playing + 1 /\ player' = "playing"
    <3>1. CASE synthesizer = "done"
      <4>1. playback[Len(playback)] = End /\ taken + 1 = playing + Len(playback)
        BY <1>0, <2>1, <3>1
      <4>2. Len(playback) # 1
        BY <1>0, <2>4, <4>1 DEF End
      <4>3. playback'[Len(playback')] = End
        <5>1. Len(playback') \in 1..Len(playback') /\ Len(playback') + 1 = Len(playback)
          BY <1>0, <2>1, <4>2
        <5> QED BY <5>1, <2>1, <4>1
      <4>4. Len(playback') > 0 /\ taken' + 1 = playing' + Len(playback')
        <5> HIDE DEF EndInv
        <5>1. taken + 1 = playing + Len(playback)
          BY <4>1
        <5>2. Len(playback') = Len(playback) - 1 /\ Len(playback) > 1
          BY <1>0, <2>1, <4>2
        <5>3. playing' = playing + 1 /\ taken' = taken
          BY <2>2, <2>4
        <5> QED BY <1>0, <5>1, <5>2, <5>3
      <4>5. playing' <= taken'
        BY <1>0, <2>1, <2>2, <2>4, <4>1, <4>2
      <4>6. player' # "done" /\ synthesizer' = "done" /\ Running'
        BY <2>2, <2>4, <3>1
      <4> QED BY <2>2, <3>1, <4>3, <4>4, <4>5, <4>6
    <3>2. CASE synthesizer # "done"
      <4>1. taken >= playing + Len(playback)
        BY <1>0, <2>2, <3>2 DEF QueueInv, TaskTypes
      <4> QED BY <1>0, <2>1, <2>2, <2>4, <3>2, <4>1
    <3> QED BY <3>1, <3>2
  <2> QED BY <2>1, <2>3, <2>4
<1>11. CASE TakeChunk
  BY <1>1, <1>11 DEF TakeChunk
<1>12. ASSUME NEW how \in {"playing", "failed"}, WriteReturns(how) PROVE EndInv'
  BY <1>1, <1>12 DEF WriteReturns, queueVars
<1>13. CASE Abort
  <2>1. /\ group' = "aborting" /\ Running
        /\ UNCHANGED <<taken, generated, playing, playback, outcome>>
        /\ player' = "done" <=> player = "done"
        /\ synthesizer' = IF synthesizer = "done" THEN "done" ELSE "stopped"
        /\ generator = "done" => generator' = "done"
    BY <1>13 DEF Abort
  <2>2. Failed => Failed'
    <3>1. CASE generator = "failed" \/ player = "failed"
      BY <1>13, <3>1 DEF Abort, Failed
    <3>2. ASSUME NEW s \in Sentence, worker[s] = "failed" PROVE worker'[s] = "failed"
      BY <1>13, <3>2 DEF Abort
    <3> QED BY <3>1, <3>2 DEF Failed
  <2>3. Failed \/ outcome # "open"
    BY <1>13 DEF Abort
  <2>4. outcome # "complete"
    BY <2>1
  <2> QED BY <1>0, <2>1, <2>2, <2>3, <2>4
<1>14. CASE Complete
  BY <1>0, <1>14 DEF Complete, AllDone, taskVars, queueVars
<1>15. CASE BargeIn
  BY <1>0, <1>15 DEF BargeIn, Failed, taskVars, queueVars
<1>16. CASE CancelWork
  BY <1>0, <1>16 DEF CancelWork, taskVars, queueVars
<1>17. CASE Record
  BY <1>0, <1>17 DEF Record, Failed, taskVars, queueVars
<1>18. CASE UNCHANGED vars
  BY <1>18 DEF vars, taskVars, queueVars, Failed
<1> QED
  BY <1>3, <1>4, <1>5, <1>6, <1>7, <1>8, <1>9, <1>10, <1>11, <1>12, <1>13, <1>14, <1>15, <1>16,
     <1>17, <1>18 DEF Next, Synthesis, Playing

-----------------------------------------------------------------------------
(* The audio of a sentence s whose first k chunks the player has taken:    *)
(* its queue holds the others in order, and then the end if the synthesis  *)
(* has stopped.                                                            *)
Stopped(s) == worker[s] \in {"done", "failed", "stopped"}

Rest(s, k) ==
    /\ k \in 0..made[s]
    /\ Len(audioQueue[s]) = made[s] - k + (IF Stopped(s) THEN 1 ELSE 0)
    /\ \A i \in 1..(made[s] - k) : audioQueue[s][i] = k + i
    /\ Stopped(s) => audioQueue[s][made[s] - k + 1] = End

Heard(s, k) == \A c \in 1..k : \E j \in 1..Len(written) : written[j] = <<s, c>>

(* The sentences before the one being played are finished and heard, those *)
(* after it are whole in their queues, and the one being played is heard   *)
(* up to some chunk k, the last that was written, the rest in its queue.   *)
Unmade == \A s \in Sentence : worker[s] \in {"none", "created"} => made[s] = 0
WrittenKnown == \A i \in 1..Len(written) : written[i][1] <= playing
Coming == Running => \A s \in Sentence : s > playing => Rest(s, 0)
Past ==
    \A s \in Sentence :
        s < playing \/ (s = playing /\ player \in {"waiting", "done"})
            => Stopped(s) /\ Heard(s, made[s])
Current ==
    Running /\ player \in {"playing", "writing"} =>
        \E k \in 0..made[playing] :
            /\ Rest(playing, k) /\ Heard(playing, k)
            /\ k > 0 => Len(written) > 0 /\ written[Len(written)] = <<playing, k>>

PlayInv == Unmade /\ WrittenKnown /\ Coming /\ Past /\ Current /\ PlayedInOrder

LEMMA PlayInit == Init => PlayInv
BY DEF Init, PlayInv, Unmade, WrittenKnown, Coming, Past, Current, PlayedInOrder, Rest, Stopped,
       Sentence

(* Most steps touch neither the audio nor what was heard.                  *)
LEMMA PlayFrame ==
    ASSUME PlayInv, UNCHANGED <<made, audioQueue, written, playing>>, Running' => Running,
           \/ player' \in {player, "failed", "stopped"}
           \/ player = "writing" /\ player' = "playing",
           \A s \in Sentence : Stopped(s)' = Stopped(s),
           \A s \in Sentence : worker'[s] \in {"none", "created"} =>
                                   worker[s] \in {"none", "created"},
           TaskTypes
    PROVE  PlayInv'
<1>1. Unmade' /\ WrittenKnown' /\ PlayedInOrder'
  BY DEF PlayInv, Unmade, WrittenKnown, PlayedInOrder
<1>2. \A s \in Sentence, k \in Nat : Rest(s, k)' = Rest(s, k) /\ Heard(s, k)' = Heard(s, k)
  BY DEF Rest, Heard
<1>3. made \in [Sentence -> 0..MaxChunks] /\ \A s \in Sentence : made[s] \in Nat
  BY PipelineAssumption DEF TaskTypes
<1>4. Coming'
  BY <1>2 DEF PlayInv, Coming
<1>5. Past'
  BY <1>2, <1>3 DEF PlayInv, Past
<1>6. Current'
  <2> SUFFICES ASSUME Running', player' \in {"playing", "writing"}
               PROVE  \E k \in 0..made[playing] :
                         /\ Rest(playing, k)' /\ Heard(playing, k)'
                         /\ k > 0 => /\ Len(written) > 0
                                     /\ written[Len(written)] = <<playing, k>>
    BY DEF Current
  <2>1. Running /\ player \in {"playing", "writing"}
    OBVIOUS
  <2>2. playing \in Sentence
    BY <2>1 DEF TaskTypes
  <2>3. PICK k \in 0..made[playing] :
             /\ Rest(playing, k) /\ Heard(playing, k)
             /\ k > 0 => Len(written) > 0 /\ written[Len(written)] = <<playing, k>>
    BY <2>1 DEF PlayInv, Current
  <2>4. k \in Nat
    BY <2>2, <2>3, <1>3
  <2> QED BY <2>2, <2>3, <2>4, <1>2
<1> QED BY <1>1, <1>4, <1>5, <1>6 DEF PlayInv

LEMMA OrderFrame ==
    ASSUME PlayedInOrder, written' = written, made' = made
    PROVE  PlayedInOrder'
<1>1. \A i \in 1..Len(written) :
         written'[i][2] = 1
           \/ (i > 1 /\ written'[i - 1] = <<written'[i][1], written'[i][2] - 1>>)
  BY DEF PlayedInOrder
<1>2. \A i \in 1..Len(written) : \A s \in 1..(written'[i][1] - 1) :
         \A c \in 1..made'[s] : \E j \in 1..(i - 1) : written'[j] = <<s, c>>
  BY DEF PlayedInOrder
<1> QED BY <1>1, <1>2 DEF PlayedInOrder

(* A synthesis that runs is of a sentence not yet played to its end.       *)
LEMMA RunningIsAhead ==
    ASSUME PlayInv, TaskTypes, NEW s \in Sentence, worker[s] = "running"
    PROVE  /\ s >= playing
           /\ s = playing => player \notin {"waiting", "done"}
<1>1. playing \in Nat /\ s \in Nat
  BY PipelineAssumption DEF TaskTypes, Sentence
<1>2. ~Stopped(s)
  BY DEF Stopped
<1>3. ~(s < playing \/ (s = playing /\ player \in {"waiting", "done"}))
  BY <1>2 DEF PlayInv, Past
<1> QED BY <1>1, <1>3

LEMMA PlayMakeChunk ==
    ASSUME PlayInv, QueueInv, TaskTypes, NEW s \in Sentence, MakeChunk(s)
    PROVE  PlayInv'
<1>0. /\ made \in [Sentence -> 0..MaxChunks] /\ made[s] \in Nat
      /\ audioQueue[s] \in Seq(0..MaxChunks)
      /\ playing \in Nat /\ Sentence \subseteq Nat
      /\ audioQueue \in [Sentence -> Seq(0..MaxChunks)]
  BY PipelineAssumption DEF TaskTypes, Sentence
<1>1. /\ Running /\ worker[s] = "running" /\ made[s] < MaxChunks
      /\ made' = [made EXCEPT ![s] = made[s] + 1]
      /\ made'[s] = made[s] + 1
      /\ audioQueue' = [audioQueue EXCEPT ![s] = Append(audioQueue[s], made[s] + 1)]
      /\ UNCHANGED <<worker, player, playing, written, group>>
  BY <1>0 DEF MakeChunk
<1>2. s >= playing /\ (s = playing => player \notin {"waiting", "done"})
  BY <1>1, RunningIsAhead
<1>3. made[s] + 1 \in 0..MaxChunks
  BY <1>0, <1>1, PipelineAssumption
<1>4. /\ audioQueue'[s] = Append(audioQueue[s], made[s] + 1)
      /\ Len(audioQueue'[s]) = Len(audioQueue[s]) + 1
      /\ \A i \in 1..Len(audioQueue[s]) : audioQueue'[s][i] = audioQueue[s][i]
      /\ audioQueue'[s][Len(audioQueue[s]) + 1] = made[s] + 1
      /\ Len(audioQueue[s]) \in Nat
  BY <1>0, <1>1, <1>3, AppendProperties
<1>5. \A x \in Sentence : x # s => made'[x] = made[x] /\ audioQueue'[x] = audioQueue[x]
  BY <1>0, <1>1
<1>6. ASSUME NEW k \in Nat, Rest(s, k) PROVE Rest(s, k)'
  <2>1. /\ k \in 0..made[s] /\ ~Stopped(s) /\ ~Stopped(s)'
        /\ Len(audioQueue[s]) = made[s] - k
        /\ \A i \in 1..(made[s] - k) : audioQueue[s][i] = k + i
    BY <1>1, <1>6, <1>0 DEF Rest, Stopped
  <2>2. k \in 0..made'[s] /\ Len(audioQueue'[s]) = made'[s] - k
    BY <1>0, <1>1, <1>4, <2>1
  <2>3. ASSUME NEW i \in 1..(made'[s] - k) PROVE audioQueue'[s][i] = k + i
    <3>1. CASE i \in 1..(made[s] - k)
      BY <1>4, <2>1, <3>1
    <3>2. CASE i = made[s] - k + 1
      <4>1. i = Len(audioQueue[s]) + 1 /\ made[s] + 1 = k + i
        BY <1>0, <2>1, <3>2
      <4> QED BY <1>4, <4>1
    <3> QED BY <1>0, <1>1, <2>1, <3>1, <3>2
  <2> QED BY <2>1, <2>2, <2>3 DEF Rest
<1>7. \A x \in Sentence, k \in Nat : x # s /\ Rest(x, k) => Rest(x, k)'
  BY <1>1, <1>5 DEF Rest, Stopped
<1>8. \A x \in Sentence, k \in Nat : Heard(x, k)' = Heard(x, k)
  BY <1>1 DEF Heard
<1>9. Unmade'
  BY <1>0, <1>1, <1>5 DEF PlayInv, Unmade
<1>10. WrittenKnown'
  BY <1>1 DEF PlayInv, WrittenKnown
<1>11. Coming'
  BY <1>1, <1>6, <1>7 DEF PlayInv, Coming, Running
<1>12. Past'
  <2> SUFFICES ASSUME NEW x \in Sentence,
                      x < playing \/ (x = playing /\ player \in {"waiting", "done"})
               PROVE  Stopped(x)' /\ Heard(x, made[x])'
    BY <1>1 DEF Past
  <2>1. x # s /\ Stopped(x) /\ Heard(x, made[x])
    BY <1>0, <1>2 DEF PlayInv, Past
  <2>2. Stopped(x)'
    BY <1>1, <2>1 DEF Stopped
  <2>3. Heard(x, made[x])'
    BY <1>1, <1>5, <2>1 DEF Heard
  <2> QED BY <2>2, <2>3
<1>13. Current'
  <2> SUFFICES ASSUME player \in {"playing", "writing"}
               PROVE  \E k \in 0..made'[playing] :
                         /\ Rest(playing, k)' /\ Heard(playing, k)'
                         /\ k > 0 => /\ Len(written) > 0
                                     /\ written[Len(written)] = <<playing, k>>
    BY <1>1 DEF Current
  <2>1. playing \in Sentence
    BY DEF TaskTypes
  <2>2. PICK k \in 0..made[playing] :
             /\ Rest(playing, k) /\ Heard(playing, k)
             /\ k > 0 => Len(written) > 0 /\ written[Len(written)] = <<playing, k>>
    BY <1>1 DEF PlayInv, Current
  <2>3. k \in Nat /\ k \in 0..made'[playing]
    BY <1>0, <1>1, <1>5, <2>1, <2>2
  <2>4. Rest(playing, k)'
    <3>1. CASE playing = s
      <4>1. Rest(s, k)
        BY <2>2, <3>1
      <4>2. Rest(s, k)'
        BY <1>6, <2>3, <4>1
      <4> QED BY <3>1, <4>2, <1>1 DEF Rest, Stopped
    <3>2. CASE playing # s
      <4>1. /\ made'[playing] = made[playing] /\ audioQueue'[playing] = audioQueue[playing]
            /\ worker' = worker /\ playing' = playing
        BY <1>1, <1>5, <2>1, <3>2
      <4> QED BY <2>2, <4>1 DEF Rest, Stopped
    <3> QED BY <3>1, <3>2
  <2>5. Heard(playing, k)'
    BY <1>1, <2>2 DEF Heard
  <2> QED BY <2>2, <2>3, <2>4, <2>5
<1>14. PlayedInOrder'
  <2>1. \A i \in 1..Len(written) : written[i][1] \in Nat /\ written[i][1] <= playing
    <3>1. written \in Seq(Chunk)
      BY DEF TaskTypes
    <3>2. \A i \in 1..Len(written) : written[i] \in Chunk
      BY <3>1, ElementOfSeq
    <3> QED BY <3>2, <1>0 DEF PlayInv, WrittenKnown, Chunk
  <2>2. ASSUME NEW i \in 1..Len(written), NEW x \in 1..(written[i][1] - 1),
               NEW c \in 1..made'[x]
        PROVE  \E j \in 1..(i - 1) : written[j] = <<x, c>>
    <3>1. x \in Nat /\ x < playing /\ x >= 1
      BY <1>0, <2>1, <2>2
    <3>2. x \in Sentence /\ x # s
      BY <1>0, <1>2, <3>1, PipelineAssumption DEF TaskTypes, Sentence
    <3>3. c \in 1..made[x]
      BY <1>5, <3>2
    <3> QED BY <3>3 DEF PlayInv, PlayedInOrder
  <2>3. \A i \in 1..Len(written) :
           written[i][2] = 1
             \/ (i > 1 /\ written[i - 1] = <<written[i][1], written[i][2] - 1>>)
    BY DEF PlayInv, PlayedInOrder
  <2>4. written' = written
    BY <1>1
  <2> QED BY <2>2, <2>3, <2>4 DEF PlayedInOrder
<1> QED BY <1>9, <1>10, <1>11, <1>12, <1>13, <1>14 DEF PlayInv

LEMMA PlayWorkerStops ==
    ASSUME PlayInv, TaskTypes, QueueInv,
           NEW s \in Sentence, NEW how \in {"done", "failed"}, WorkerStops(s, how)
    PROVE  PlayInv'
<1>0. /\ made \in [Sentence -> 0..MaxChunks] /\ made[s] \in Nat
      /\ audioQueue[s] \in Seq(0..MaxChunks)
      /\ playing \in Nat /\ Sentence \subseteq Nat
      /\ audioQueue \in [Sentence -> Seq(0..MaxChunks)]
      /\ worker \in [Sentence -> {"none", "created", "running", "done", "failed", "stopped"}]
  BY PipelineAssumption DEF TaskTypes, QueueInv, Sentence
<1>1. /\ Running /\ worker[s] = "running"
      /\ worker' = [worker EXCEPT ![s] = how]
      /\ audioQueue' = [audioQueue EXCEPT ![s] = Append(audioQueue[s], End)]
      /\ UNCHANGED <<made, player, playing, written, group>>
  BY <1>0 DEF WorkerStops, SetWorker, CloseAudio
<1>2. s >= playing /\ (s = playing => player \notin {"waiting", "done"})
  BY <1>1, RunningIsAhead
<1>3. End \in 0..MaxChunks
  BY PipelineAssumption DEF End
<1>4. /\ audioQueue'[s] = Append(audioQueue[s], End)
      /\ Len(audioQueue'[s]) = Len(audioQueue[s]) + 1
      /\ \A i \in 1..Len(audioQueue[s]) : audioQueue'[s][i] = audioQueue[s][i]
      /\ audioQueue'[s][Len(audioQueue[s]) + 1] = End
      /\ Len(audioQueue[s]) \in Nat
  BY <1>0, <1>1, <1>3, AppendProperties
<1>5. \A x \in Sentence : x # s => worker'[x] = worker[x] /\ audioQueue'[x] = audioQueue[x]
  BY <1>0, <1>1
<1>6. ~Stopped(s) /\ Stopped(s)'
  BY <1>0, <1>1 DEF Stopped
<1>7. ASSUME NEW x \in Sentence, NEW k \in Nat, Rest(x, k) PROVE Rest(x, k)'
  <2>1. CASE x = s
    <3>1. /\ k \in 0..made[s] /\ Len(audioQueue[s]) = made[s] - k
          /\ \A i \in 1..(made[s] - k) : audioQueue[s][i] = k + i
      BY <1>0, <1>6, <1>7, <2>1 DEF Rest
    <3>2. Len(audioQueue'[s]) = made[s] - k + 1
      BY <1>4, <3>1
    <3>3. audioQueue'[s][made[s] - k + 1] = End
      BY <1>4, <3>1
    <3>4. \A i \in 1..(made[s] - k) : audioQueue'[s][i] = k + i
      BY <1>4, <3>1
    <3> QED BY <1>1, <1>6, <2>1, <3>1, <3>2, <3>3, <3>4 DEF Rest
  <2>2. CASE x # s
    BY <1>1, <1>5, <1>7, <2>2 DEF Rest, Stopped
  <2> QED BY <2>1, <2>2
<1>8. Unmade' /\ WrittenKnown' /\ PlayedInOrder'
  <2>1. written' = written /\ made' = made /\ playing' = playing
    BY <1>1
  <2>2. Unmade'
    BY <1>0, <1>1, <1>5 DEF PlayInv, Unmade
  <2>3. PlayedInOrder'
    BY <2>1, OrderFrame DEF PlayInv
  <2> QED BY <2>1, <2>2, <2>3 DEF PlayInv, WrittenKnown
<1>9. Coming'
  BY <1>1, <1>7 DEF PlayInv, Coming, Running
<1>10. Past'
  <2> SUFFICES ASSUME NEW x \in Sentence,
                      x < playing \/ (x = playing /\ player \in {"waiting", "done"})
               PROVE  Stopped(x)' /\ Heard(x, made[x])'
    BY <1>1 DEF Past
  <2>1. Stopped(x) /\ Heard(x, made[x])
    BY DEF PlayInv, Past
  <2>2. Stopped(x)'
    BY <1>5, <1>6, <2>1 DEF Stopped
  <2>3. Heard(x, made[x])'
    BY <1>1, <2>1 DEF Heard
  <2> QED BY <2>2, <2>3
<1>11. Current'
  <2> SUFFICES ASSUME player \in {"playing", "writing"}
               PROVE  \E k \in 0..made[playing] :
                         /\ Rest(playing, k)' /\ Heard(playing, k)'
                         /\ k > 0 => /\ Len(written) > 0
                                     /\ written[Len(written)] = <<playing, k>>
    BY <1>1 DEF Current
  <2>1. playing \in Sentence
    BY DEF TaskTypes
  <2>2. PICK k \in 0..made[playing] :
             /\ Rest(playing, k) /\ Heard(playing, k)
             /\ k > 0 => Len(written) > 0 /\ written[Len(written)] = <<playing, k>>
    BY <1>1 DEF PlayInv, Current
  <2>3. k \in Nat
    BY <1>0, <2>1, <2>2
  <2>4. Rest(playing, k)'
    <3>1. \A x \in Sentence : Rest(x, k) => Rest(x, k)'
      BY <1>7, <2>3
    <3> QED BY ZenonT(60), <1>1, <2>1, <2>2, <3>1 DEF Rest, Stopped
  <2>5. Heard(playing, k)'
    BY <1>1, <2>2 DEF Heard
  <2> QED BY <2>2, <2>3, <2>4, <2>5
<1> QED BY <1>8, <1>9, <1>10, <1>11 DEF PlayInv

LEMMA PlayPlayNext ==
    ASSUME PlayInv, TaskTypes, QueueInv, PlayNext
    PROVE  PlayInv'
<1>0. /\ made \in [Sentence -> 0..MaxChunks]
      /\ playing \in Nat /\ Sentence \subseteq Nat
      /\ \A s \in Sentence : made[s] \in Nat
  BY PipelineAssumption DEF TaskTypes, Sentence
<1>1. /\ Running /\ player = "waiting"
      /\ UNCHANGED <<made, audioQueue, worker, written, group>>
  BY DEF PlayNext
<1>2. \/ playing' = playing /\ player' = "done"
      \/ playing + 1 \in Sentence /\ playing' = playing + 1 /\ player' = "playing"
  BY PlayNextTakes
<1>3. \A s \in Sentence : s <= playing => Stopped(s) /\ Heard(s, made[s])
  BY <1>0, <1>1 DEF PlayInv, Past
<1>4. \A s \in Sentence : Stopped(s)' = Stopped(s) /\ Heard(s, made[s])' = Heard(s, made[s])
  BY <1>1 DEF Stopped, Heard
<1>5. \A s \in Sentence, k \in Nat : Rest(s, k)' = Rest(s, k)
  BY <1>1 DEF Rest, Stopped
<1>6. playing' >= playing /\ playing' \in Nat
  BY <1>0, <1>2
<1>7. Unmade'
  BY <1>1 DEF PlayInv, Unmade
<1>8. WrittenKnown'
  <2>1. \A i \in 1..Len(written) : written[i][1] \in Nat
    <3>1. \A i \in 1..Len(written) : written[i] \in Chunk
      BY ElementOfSeq DEF TaskTypes
    <3> QED BY <3>1, <1>0 DEF Chunk
  <2>2. \A i \in 1..Len(written) : written[i][1] <= playing'
    BY <1>0, <1>6, <2>1 DEF PlayInv, WrittenKnown
  <2> QED BY <1>1, <2>2 DEF WrittenKnown
<1>9. PlayedInOrder'
  BY <1>1, OrderFrame DEF PlayInv
<1>10. Coming'
  <2>1. \A s \in Sentence : s > playing' => Rest(s, 0)
    BY <1>0, <1>1, <1>6 DEF PlayInv, Coming
  <2> QED BY <1>5, <2>1 DEF Coming
<1>11. Past'
  <2> SUFFICES ASSUME NEW s \in Sentence,
                      s < playing' \/ (s = playing' /\ player' \in {"waiting", "done"})
               PROVE  Stopped(s)' /\ Heard(s, made[s])'
    BY DEF Past
  <2>1. s <= playing
    BY <1>0, <1>2
  <2> QED BY <1>3, <1>4, <2>1
<1>12. Current'
  <2>1. CASE player' = "done"
    BY <2>1 DEF Current
  <2>2. CASE playing + 1 \in Sentence /\ playing' = playing + 1 /\ player' = "playing"
    <3>1. Rest(playing + 1, 0)
      BY <1>0, <1>1, <2>2 DEF PlayInv, Coming
    <3>2. /\ made' = made /\ audioQueue' = audioQueue /\ worker' = worker
          /\ playing' = playing + 1 /\ written' = written
      BY <1>1, <2>2
    <3>3. Rest(playing, 0)'
      BY <3>1, <3>2 DEF Rest, Stopped
    <3>4. Heard(playing, 0)'
      BY DEF Heard
    <3>5. 0 \in 0..made'[playing']
      BY <1>0, <2>2, <3>2
    <3> QED BY <3>3, <3>4, <3>5 DEF Current
  <2> QED BY <1>2, <2>1, <2>2
<1> QED BY <1>7, <1>8, <1>9, <1>10, <1>11, <1>12 DEF PlayInv

LEMMA PlayAbort ==
    ASSUME PlayInv, TaskTypes, QueueInv, Abort
    PROVE  PlayInv'
<1>1. /\ ~Running' /\ UNCHANGED <<made, written, playing>>
      /\ player' = IF player \in {"done", "failed"} THEN player ELSE "stopped"
      /\ worker' = [s \in Sentence |->
            IF worker[s] \in {"created", "running"} THEN "stopped" ELSE worker[s]]
  BY DEF Abort, Running
<1>2. Unmade'
  BY <1>1 DEF PlayInv, Unmade
<1>3. WrittenKnown' /\ Coming' /\ Current'
  BY <1>1 DEF PlayInv, WrittenKnown, Coming, Current
<1>5. PlayedInOrder'
  BY <1>1, OrderFrame DEF PlayInv
<1>4. Past'
  <2>1. \A s \in Sentence : Stopped(s) => Stopped(s)'
    BY <1>1 DEF Stopped
  <2>2. \A s \in Sentence : Heard(s, made[s])' = Heard(s, made[s])
    BY <1>1 DEF Heard
  <2>3. player' \in {"waiting", "done"} => player = "done"
    BY <1>1
  <2> QED BY <1>1, <2>1, <2>2, <2>3 DEF PlayInv, Past
<1> QED BY <1>2, <1>3, <1>4, <1>5 DEF PlayInv

LEMMA PlayTakeChunk ==
    ASSUME PlayInv, TaskTypes, QueueInv, TakeChunk
    PROVE  PlayInv'
<1>0. /\ made \in [Sentence -> 0..MaxChunks]
      /\ playing \in Sentence /\ Sentence \subseteq Nat /\ End = 0
      /\ audioQueue \in [Sentence -> Seq(0..MaxChunks)]
      /\ \A s \in Sentence : made[s] \in Nat
      /\ player = "playing" /\ Running
  BY PipelineAssumption DEF TaskTypes, TakeChunk, Sentence, End
<1> DEFINE queue == audioQueue[playing]
           m == made[playing]
           chunk == queue[1]
<1>1. /\ queue \in Seq(0..MaxChunks) /\ queue # <<>> /\ m \in Nat
      /\ Len(queue) \in Nat /\ Len(queue) >= 1
      /\ Tail(queue) \in Seq(0..MaxChunks)
      /\ Len(Tail(queue)) = Len(queue) - 1
      /\ \A i \in 1..(Len(queue) - 1) : Tail(queue)[i] = queue[i + 1]
      /\ Head(queue) = chunk
  <2>1. queue \in Seq(0..MaxChunks) /\ queue # <<>> /\ m \in Nat
    BY <1>0 DEF TakeChunk
  <2> HIDE DEF queue
  <2> QED BY <2>1
<1>2. /\ audioQueue'[playing] = Tail(queue)
      /\ \A s \in Sentence : s # playing => audioQueue'[s] = audioQueue[s]
      /\ UNCHANGED <<made, worker, playing, group>>
      /\ \/ chunk = 0 /\ player' = "waiting" /\ written' = written
         \/ /\ chunk # 0 /\ player' = "writing"
            /\ written' = Append(written, <<playing, chunk>>)
  BY <1>0, <1>1 DEF TakeChunk
<1>3. PICK k \in 0..m :
         /\ Rest(playing, k) /\ Heard(playing, k)
         /\ k > 0 => Len(written) > 0 /\ written[Len(written)] = <<playing, k>>
  BY <1>0 DEF PlayInv, Current
<1> HIDE DEF queue, m, chunk
<1>4. /\ k \in Nat /\ k <= m
      /\ Len(queue) = m - k + (IF Stopped(playing) THEN 1 ELSE 0)
      /\ \A i \in 1..(m - k) : queue[i] = k + i
      /\ Stopped(playing) => queue[m - k + 1] = 0
  BY <1>0, <1>1, <1>3 DEF Rest, queue, m
<1>5. \/ /\ k = m /\ Stopped(playing) /\ chunk = 0
      \/ /\ k < m /\ chunk = k + 1
  <2>1. CASE k = m
    <3>1. Stopped(playing) /\ m - k + 1 = 1
      BY <1>1, <1>4, <2>1
    <3> QED BY <1>4, <2>1, <3>1 DEF chunk
  <2>2. CASE k < m
    <3>1. 1 \in 1..(m - k)
      BY <1>1, <1>4, <2>2
    <3> QED BY <1>4, <2>2, <3>1 DEF chunk
  <2> QED BY <1>1, <1>4, <2>1, <2>2
<1>6. \A s \in Sentence : s # playing => \A n \in Nat : Rest(s, n)' = Rest(s, n)
  BY <1>2 DEF Rest, Stopped
<1>7. Unmade'
  BY <1>2 DEF PlayInv, Unmade
<1>8. Coming'
  <2>1. \A s \in Sentence : s > playing => s # playing /\ Rest(s, 0)
    BY <1>0 DEF PlayInv, Coming
  <2> QED BY <1>2, <1>6, <2>1 DEF Coming
<1>9. \A s \in Sentence : Stopped(s)' = Stopped(s)
  BY <1>2 DEF Stopped
<1>10. CASE k = m /\ Stopped(playing) /\ chunk = 0
  <2>1. player' = "waiting" /\ written' = written
    BY <1>2, <1>10
  <2>2. WrittenKnown'
    BY <1>2, <2>1 DEF PlayInv, WrittenKnown
  <2>3. PlayedInOrder'
    BY <1>2, <2>1, OrderFrame DEF PlayInv
  <2>4. \A s \in Sentence : Heard(s, made[s])' = Heard(s, made[s])
    BY <1>2, <2>1 DEF Heard
  <2>5. Heard(playing, made[playing])
    BY <1>3, <1>10 DEF m
  <2>6. Past'
    <3> SUFFICES ASSUME NEW s \in Sentence, s <= playing
                 PROVE  Stopped(s)' /\ Heard(s, made[s])'
      BY <1>0, <1>2 DEF Past
    <3>1. CASE s = playing
      BY <1>9, <1>10, <2>4, <2>5, <3>1
    <3>2. CASE s < playing
      BY <1>9, <2>4, <3>2 DEF PlayInv, Past
    <3> QED BY <1>0, <3>1, <3>2
  <2>7. Current'
    BY <2>1 DEF Current
  <2> QED BY <1>7, <1>8, <2>2, <2>3, <2>6, <2>7 DEF PlayInv
<1>11. CASE k < m /\ chunk = k + 1
  <2> DEFINE n == Len(written)
  <2>0. written \in Seq(Chunk) /\ n \in Nat
    BY DEF TaskTypes
  <2>1. player' = "writing" /\ written' = Append(written, <<playing, k + 1>>)
    BY <1>2, <1>4, <1>11
  <2>2. <<playing, k + 1>> \in Chunk
    <3>1. m <= MaxChunks
      BY <1>0, PipelineAssumption DEF m
    <3>2. k + 1 \in 1..MaxChunks
      BY <1>1, <1>4, <1>11, <3>1, PipelineAssumption
    <3> QED BY <1>0, <3>2 DEF Chunk
  <2>3. /\ Len(written') = n + 1
        /\ \A i \in 1..n : written'[i] = written[i]
        /\ written'[n + 1] = <<playing, k + 1>>
    BY <2>0, <2>1, <2>2, AppendProperties
  <2> HIDE DEF n
  <2>4. WrittenKnown'
    <3> SUFFICES ASSUME NEW i \in 1..(n + 1)
                 PROVE  written'[i][1] <= playing
      BY <1>2, <2>3 DEF WrittenKnown
    <3>1. CASE i \in 1..n
      BY <2>3, <3>1 DEF PlayInv, WrittenKnown, n
    <3>2. CASE i = n + 1
      BY <1>0, <2>3, <3>2
    <3> QED BY <2>0, <3>1, <3>2
  <2>5. Past'
    <3> SUFFICES ASSUME NEW s \in Sentence, s < playing
                 PROVE  Stopped(s)' /\ Heard(s, made[s])'
      BY <1>2, <2>1 DEF Past
    <3>1. Stopped(s) /\ Heard(s, made[s])
      BY DEF PlayInv, Past
    <3>2. Heard(s, made[s])'
      <4>1. \A c \in 1..made[s] : \E j \in 1..n : written[j] = <<s, c>>
        BY <3>1 DEF Heard, n
      <4>2. \A c \in 1..made[s] : \E j \in 1..Len(written') : written'[j] = <<s, c>>
        <5> TAKE c \in 1..made[s]
        <5>1. PICK j \in 1..n : written[j] = <<s, c>>
          BY <4>1
        <5>2. j \in 1..Len(written') /\ written'[j] = <<s, c>>
          BY <2>0, <2>3, <5>1
        <5> QED BY <5>2
      <4> QED BY <1>2, <4>2 DEF Heard
    <3> QED BY <1>9, <3>1, <3>2
  <2>6. Current'
    <3>1. k + 1 \in 0..made'[playing']
      BY <1>0, <1>2, <1>4, <1>11 DEF m
    <3>2. Rest(playing, k + 1)'
      <4>1. /\ Len(Tail(queue)) = m - (k + 1) + (IF Stopped(playing) THEN 1 ELSE 0)
            /\ \A i \in 1..(m - (k + 1)) : Tail(queue)[i] = (k + 1) + i
            /\ Stopped(playing) => Tail(queue)[m - (k + 1) + 1] = 0
        <5>1. Len(Tail(queue)) = m - (k + 1) + (IF Stopped(playing) THEN 1 ELSE 0)
          BY <1>1, <1>4, <1>11
        <5>2. ASSUME NEW i \in 1..(m - (k + 1)) PROVE Tail(queue)[i] = (k + 1) + i
          <6>1. i + 1 \in 1..(m - k) /\ i \in 1..(Len(queue) - 1)
            BY <1>1, <1>4, <1>11
          <6>2. queue[i + 1] = k + (i + 1)
            BY <1>4, <6>1
          <6> QED BY <1>1, <1>4, <6>1, <6>2
        <5>3. ASSUME Stopped(playing) PROVE Tail(queue)[m - (k + 1) + 1] = 0
          <6>1. m - k \in 1..(Len(queue) - 1) /\ m - (k + 1) + 1 = m - k
            BY <1>1, <1>4, <1>11, <5>3
          <6>2. Tail(queue)[m - k] = queue[m - k + 1]
            BY <1>1, <6>1
          <6> QED BY <1>4, <5>3, <6>1, <6>2
        <5> QED BY <5>1, <5>2, <5>3
      <4>2. made'[playing] = m /\ audioQueue'[playing] = Tail(queue) /\ playing' = playing
        BY <1>2 DEF m
      <4>3. Stopped(playing)' = Stopped(playing)
        BY <1>2 DEF Stopped
      <4>4. k + 1 \in 0..m
        BY <1>1, <1>4, <1>11
      <4> QED BY <1>0, <4>1, <4>2, <4>3, <4>4 DEF Rest
    <3>3. Heard(playing, k + 1)'
      <4> SUFFICES ASSUME NEW c \in 1..(k + 1)
                   PROVE  \E j \in 1..Len(written') : written'[j] = <<playing, c>>
        BY <1>2 DEF Heard
      <4>1. CASE c \in 1..k
        <5>1. PICK j \in 1..n : written[j] = <<playing, c>>
          BY <1>3, <4>1 DEF Heard, n
        <5>2. j \in 1..Len(written') /\ written'[j] = <<playing, c>>
          BY <2>0, <2>3, <5>1
        <5> QED BY <5>2
      <4>2. CASE c = k + 1
        <5>1. n + 1 \in 1..Len(written') /\ written'[n + 1] = <<playing, c>>
          BY <2>0, <2>3, <4>2
        <5> QED BY <5>1
      <4> QED BY <1>4, <4>1, <4>2
    <3>4. Len(written') > 0 /\ written'[Len(written')] = <<playing', k + 1>>
      BY <1>2, <2>0, <2>3
    <3> QED BY <3>1, <3>2, <3>3, <3>4 DEF Current
  <2>7. PlayedInOrder'
    <3>1. ASSUME NEW i \in 1..(n + 1)
          PROVE  written'[i][2] = 1
                   \/ (i > 1 /\ written'[i - 1] = <<written'[i][1], written'[i][2] - 1>>)
      <4>1. CASE i \in 1..n
        <5>1. written'[i] = written[i] /\ (i > 1 => written'[i - 1] = written[i - 1])
          BY <2>0, <2>3, <4>1
        <5>2. written[i][2] = 1
                \/ (i > 1 /\ written[i - 1] = <<written[i][1], written[i][2] - 1>>)
          BY <4>1 DEF PlayInv, PlayedInOrder, n
        <5> QED BY <5>1, <5>2
      <4>2. CASE i = n + 1 /\ k = 0
        BY <2>3, <4>2
      <4>3. CASE i = n + 1 /\ k > 0
        <5>1. n > 0 /\ written[n] = <<playing, k>>
          BY <1>3, <4>3 DEF n
        <5>2. i > 1 /\ i - 1 = n /\ n \in 1..n
          BY <2>0, <4>3, <5>1
        <5>3. written'[i - 1] = <<playing, k>> /\ written'[i] = <<playing, k + 1>>
          BY <2>3, <4>3, <5>1, <5>2
        <5>4. (k + 1) - 1 = k
          BY <1>4
        <5> QED BY <5>2, <5>3, <5>4
      <4> QED BY <1>4, <2>0, <4>1, <4>2, <4>3
    <3>2. ASSUME NEW i \in 1..(n + 1), NEW s \in 1..(written'[i][1] - 1), NEW c \in 1..made[s]
          PROVE  \E j \in 1..(i - 1) : written'[j] = <<s, c>>
      <4>1. CASE i \in 1..n
        <5>1. written'[i] = written[i]
          BY <2>3, <4>1
        <5>2. PICK j \in 1..(i - 1) : written[j] = <<s, c>>
          BY <4>1, <5>1 DEF PlayInv, PlayedInOrder, n
        <5>3. written'[j] = written[j]
          BY <2>0, <2>3, <4>1
        <5> QED BY <5>2, <5>3
      <4>2. CASE i = n + 1
        <5>1. s \in 1..(playing - 1)
          BY <2>3, <4>2
        <5>2. s \in Sentence /\ s < playing
          BY <1>0, <5>1, PipelineAssumption DEF Sentence
        <5>3. PICK j \in 1..n : written[j] = <<s, c>>
          BY <5>2 DEF PlayInv, Past, Heard, n
        <5>4. j \in 1..(i - 1) /\ written'[j] = <<s, c>>
          BY <2>0, <2>3, <4>2, <5>3
        <5> QED BY <5>4
      <4> QED BY <2>0, <4>1, <4>2
    <3>3. Len(written') = n + 1 /\ made' = made
      BY <1>2, <2>3
    <3> QED BY <3>1, <3>2, <3>3 DEF PlayedInOrder
  <2> QED BY <1>7, <1>8, <2>4, <2>5, <2>6, <2>7 DEF PlayInv
<1> QED BY <1>5, <1>10, <1>11

LEMMA PlayStep == QueueInv /\ TaskTypes /\ PlayInv /\ [Next]_vars => PlayInv'
<1> SUFFICES ASSUME QueueInv, TaskTypes, PlayInv, [Next]_vars PROVE PlayInv'
  OBVIOUS
<1>0. worker \in [Sentence -> {"none", "created", "running", "done", "failed", "stopped"}]
  BY DEF QueueInv
<1>1. ASSUME UNCHANGED <<made, audioQueue, written, playing, player, worker>>,
             Running' => Running
      PROVE  PlayInv'
  BY <1>1, PlayFrame DEF Stopped
<1>2. CASE StartSentence
  <2>1. /\ taken \in Sentence /\ taken \notin Started
        /\ worker' = [worker EXCEPT ![taken] = "created"]
        /\ UNCHANGED <<made, audioQueue, written, playing, player, group>>
    BY <1>2, PipelineAssumption DEF StartSentence, SetWorker, QueueInv, Sentence, Started
  <2>2. worker[taken] = "none"
    BY <2>1 DEF Started
  <2>3. \A s \in Sentence : Stopped(s)' = Stopped(s)
    BY <1>0, <2>1, <2>2 DEF Stopped
  <2>4. \A s \in Sentence : worker'[s] \in {"none", "created"} =>
                                worker[s] \in {"none", "created"}
    BY <1>0, <2>1, <2>2
  <2> QED BY <2>1, <2>3, <2>4, PlayFrame DEF Running
<1>3. ASSUME NEW s \in Sentence, RequestSpeech(s) PROVE PlayInv'
  <2>1. /\ worker[s] = "created" /\ worker' = [worker EXCEPT ![s] = "running"]
        /\ UNCHANGED <<made, audioQueue, written, playing, player, group>>
    BY <1>3 DEF RequestSpeech, SetWorker, queueVars
  <2>2. \A x \in Sentence : Stopped(x)' = Stopped(x)
    BY <1>0, <2>1 DEF Stopped
  <2>3. \A x \in Sentence : worker'[x] \in {"none", "created"} =>
                                worker[x] \in {"none", "created"}
    BY <1>0, <2>1
  <2> QED BY <2>1, <2>2, <2>3, PlayFrame DEF Running
<1>4. ASSUME NEW how \in {"playing", "failed"}, WriteReturns(how) PROVE PlayInv'
  <2>1. /\ player = "writing" /\ player' \in {"playing", "failed"}
        /\ UNCHANGED <<made, audioQueue, written, playing, worker, group>>
    BY <1>4 DEF WriteReturns, queueVars
  <2> QED BY <2>1, PlayFrame DEF Running, Stopped
<1>5. CASE GenerateSentence \/ (\E how \in {"done", "failed"} : GeneratorStops(how))
             \/ TakeSentence \/ TakeEnd \/ PutEnd
  BY <1>1, <1>5
  DEF GenerateSentence, GeneratorStops, TakeSentence, TakeEnd, PutEnd, queueVars, Running
<1>6. CASE Complete \/ BargeIn \/ CancelWork \/ Record \/ UNCHANGED vars
  BY <1>1, <1>6
  DEF Complete, BargeIn, CancelWork, Record, vars, taskVars, queueVars, Running
<1> QED
  BY <1>2, <1>3, <1>4, <1>5, <1>6, PlayMakeChunk, PlayWorkerStops, PlayPlayNext, PlayTakeChunk,
     PlayAbort DEF Next, Synthesis, Playing

LEMMA PlayHolds == Spec => [](QueueInv /\ TaskTypes /\ BillInv /\ EndInv /\ PlayInv)
BY InvariantsHold, EndInit, EndStep, PlayInit, PlayStep, PTL DEF Spec

(* The caller hears the reply's sentences in the order of the text, each   *)
(* without a gap, however the syntheses and the playback overlap; and a    *)
(* turn recorded as complete was heard to its last chunk.                  *)
THEOREM ReplyIsHeardAsWritten == Spec => []HeardAsWritten
<1>1. QueueInv /\ TaskTypes /\ BillInv /\ EndInv => TypeOK
  BY PipelineAssumption DEF QueueInv, TaskTypes, BillInv, EndInv, TypeOK, Chunk
<1>2. QueueInv /\ TaskTypes /\ EndInv /\ PlayInv => CompleteIsHeard
  <2> SUFFICES ASSUME QueueInv, TaskTypes, EndInv, PlayInv, outcome = "complete",
                      NEW s \in 1..generated, NEW c \in 1..made[s]
               PROVE  \E i \in 1..Len(written) : written[i] = <<s, c>>
    BY DEF CompleteIsHeard, Contains
  <2>1. player = "done" /\ playing = generated
    BY DEF EndInv, QueueInv
  <2>2. s \in Sentence /\ s <= playing
    BY <2>1, PipelineAssumption DEF QueueInv, Sentence
  <2>3. Heard(s, made[s])
    BY <2>1, <2>2, PipelineAssumption DEF PlayInv, Past, QueueInv, Sentence
  <2> QED BY <2>3 DEF Heard
<1>3. PlayInv => PlayedInOrder
  BY DEF PlayInv
<1> QED BY <1>1, <1>2, <1>3, PlayHolds, PTL DEF HeardAsWritten
=============================================================================
