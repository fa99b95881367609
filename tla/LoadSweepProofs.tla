---------------------------- MODULE LoadSweepProofs ----------------------------
(***************************************************************************)
(* What the load harness promises, for any number of callers, any script,  *)
(* any plan of levels and whatever the agent does: each utterance of a     *)
(* call is counted once, each delay is the one that the caller heard, each *)
(* call of a level is counted once and never refused for want of a slot,   *)
(* and what is said of the levels and of the card's memory is true.        *)
(***************************************************************************)
EXTENDS LoadSweep, SequenceTheorems, FiniteSetTheorems, WellFoundedInduction, TLAPS

(***************************************************************************)
(* Least and largest numbers, and the first and the last audible window.   *)
(***************************************************************************)
LEMMA Smallest ==
    ASSUME NEW S \in SUBSET Nat, S # {}
    PROVE  Min(S) \in S /\ \A x \in S : Min(S) <= x
<1>1. PICK n \in S : \A m \in S : ~ (<<m, n>> \in OpToRel(<, Nat))
  BY WFMin, NatLessThanWellFounded, Zenon
<1>2. \A m \in S : ~ (m < n)
  BY <1>1, Zenon DEF OpToRel
<1>3. n \in S /\ \A m \in S : n <= m
  BY <1>2
<1> QED BY <1>3 DEF Min

LEMMA Largest ==
    ASSUME NEW n \in Nat, NEW S \in SUBSET (0..n), S # {}
    PROVE  Max(S) \in S /\ \A x \in S : x <= Max(S)
<1> DEFINE Gaps == {n - x : x \in S}
<1>0. \A x \in S : x \in Nat /\ n - x \in Nat
  OBVIOUS
<1>1. Gaps \in SUBSET Nat /\ Gaps # {}
  BY <1>0
<1>2. Min(Gaps) \in Gaps /\ \A d \in Gaps : Min(Gaps) <= d
  <2> HIDE DEF Gaps
  <2> QED BY <1>1, Smallest
<1>3. PICK m \in S : Min(Gaps) = n - m
  BY <1>2
<1>4. ASSUME NEW x \in S PROVE x <= m
  <2>1. n - x \in Gaps
    OBVIOUS
  <2>2. n - m <= n - x /\ m \in Nat /\ x \in Nat
    BY <1>0, <1>2, <1>3, <2>1
  <2> QED BY <2>2
<1>5. m \in S /\ \A x \in S : m >= x
  BY <1>4
<1> QED BY <1>5 DEF Max

(* Which window of a chunk is heard first, and which frame of an utterance *)
(* is its last audible one.                                                *)
LEMMA FirstHeard ==
    ASSUME NEW s \in Seq(BOOLEAN)
    PROVE  \/ FirstAudible(s) = Never /\ \A i \in 1..Len(s) : ~s[i]
           \/ /\ FirstAudible(s) \in Nat /\ FirstAudible(s) + 1 \in 1..Len(s)
              /\ s[FirstAudible(s) + 1] /\ \A i \in 1..FirstAudible(s) : ~s[i]
<1> DEFINE I == {i \in 1..Len(s) : s[i]}
<1>1. Len(s) \in Nat /\ I \in SUBSET Nat
  BY LenProperties
<1>2. FirstAudible(s) = (IF I # {} THEN Min(I) ELSE 0) - 1
  BY DEF FirstAudible, SelectInSeq
<1>3. CASE I = {}
  BY <1>2, <1>3 DEF Never
<1>4. CASE I # {}
  <2> DEFINE m == Min(I)
  <2>1. m \in I /\ \A x \in I : m <= x
    <3> HIDE DEF I
    <3> QED BY <1>1, <1>4, Smallest
  <2>2. FirstAudible(s) = m - 1
    BY <1>2, <1>4
  <2> HIDE DEF m
  <2>3. m \in 1..Len(s) /\ s[m]
    BY <2>1
  <2>4. FirstAudible(s) \in Nat /\ FirstAudible(s) + 1 = m
    BY <1>1, <2>2, <2>3
  <2>5. ASSUME NEW i \in 1..FirstAudible(s) PROVE ~s[i]
    <3>1. i \in 1..Len(s) /\ ~(m <= i)
      BY <1>1, <2>2, <2>3, <2>4
    <3> QED BY <2>1, <3>1
  <2> QED BY <2>3, <2>4, <2>5
<1> QED BY <1>3, <1>4

LEMMA LastHeard ==
    ASSUME NEW s \in Seq(BOOLEAN)
    PROVE  LastAudible(s) \in Nat /\ \A i \in 1..Len(s) : s[i] => i <= LastAudible(s)
<1> DEFINE I == {i \in 1..Len(s) : s[i]}
<1>1. Len(s) \in Nat /\ I \in SUBSET (0..Len(s)) /\ I \in SUBSET Nat
  BY LenProperties
<1>2. LastAudible(s) = (IF I # {} THEN Max(I) ELSE 0)
  BY DEF LastAudible, SelectLastInSeq
<1>3. I # {} => Max(I) \in I /\ \A x \in I : x <= Max(I)
  <2> HIDE DEF I
  <2> QED BY <1>1, Largest
<1> QED BY <1>1, <1>2, <1>3

-----------------------------------------------------------------------------
(***************************************************************************)
(* One call: what its parts are, and what a step of it does.               *)
(***************************************************************************)
CallerSet ==
    [index : Nat, position : Nat, step : {"ask", "sleep"}, due : Nat, deadline : Nat,
     timeouts : Nat, lateness : Int]
OutputSet ==
    [until : Nat, firstAudio : BOOLEAN, stoppedAt : Nat \cup {Never}, unanswered : Nat,
     observed : Nat]
AgentSet ==
    [phase : {"none", "live", "finishing", "failed", "completed"}, busy : BOOLEAN, chunks : Nat,
     writeUntil : Int, listening : BOOLEAN, hangUp : Int,
     left : {"no", "error", "hang-up", "end"}, error : BOOLEAN]
HistorySet ==
    [stamps : Nat, lag : Int, lastLag : Int, loose : BOOLEAN, queue : Seq(BOOLEAN),
     since : Nat \cup {Never}, noted : Seq(Int), mistimed : BOOLEAN]

CallTypes ==
    /\ clock \in Nat /\ script \in Seq(Seq(BOOLEAN) \ {<<>>})
    /\ caller \in CallerSet /\ output \in OutputSet /\ agent \in AgentSet /\ history \in HistorySet
    /\ output.until >= clock

(* The caller is at a frame of an utterance of the script, or waits.       *)
PlaceInv ==
    agent.phase = "live" =>
        /\ caller.index \in 0..Len(script)
        /\ caller.position > 0 =>
            caller.index \in 1..Len(script) /\ caller.position \in 1..Len(script[caller.index])

LEMMA CallNumbers ==
    /\ Frame \in Nat /\ Frame > 0 /\ Never = -1
    /\ {ReplyTimeout, MaxQueue, Grace, MaxChunks, MaxLate, MaxClock} \subseteq Nat
    /\ Scripts \subseteq Seq(Seq(BOOLEAN) \ {<<>>}) /\ Chunks \subseteq Seq(BOOLEAN) \ {<<>>}
BY CallerAssumption DEF Never

NoCallAgain ==
    /\ clock' = 0 /\ script' = <<>> /\ caller' = NewCaller(0) /\ output' = NewOutput(0)
    /\ agent' = [NewAgent(0) EXCEPT !.phase = "none"] /\ history' = NewHistory

CallNext == StartsCalling \/ NoCallAgain \/ CallStep \/ UNCHANGED callVars

LEMMA CallsGoOn == [Next]_vars => CallNext
<1> SUFFICES ASSUME [Next]_vars PROVE CallNext
  OBVIOUS
<1>1. ASSUME NEW c \in Callers, Begin(c) PROVE CallNext
  BY <1>1, Zenon DEF Begin, CallNext
<1>2. ASSUME NEW c \in Callers, WatchedOver(c) PROVE CallNext
  BY <1>2, Zenon DEF WatchedOver, CallNext, NoCallAgain
<1>3. ASSUME NEW c \in Callers, Loop(c) \/ StartRefused(c) \/ CannotStart(c) \/ CallOver(c)
      PROVE  CallNext
  BY <1>3, Zenon DEF Loop, StartRefused, CannotStart, CallOver, CallNext
<1>4. CASE Watch
  BY <1>4, Zenon DEF Watch, CallNext
<1>5. CASE DeadlinePasses \/ AskBudget \/ GoOn \/ StartLevel \/ EndLevel
  BY <1>5, Zenon DEF DeadlinePasses, AskBudget, GoOn, StartLevel, EndLevel, CallNext
<1>6. CASE UNCHANGED vars
  BY <1>6, Zenon DEF vars, CallNext
<1> QED BY <1>1, <1>2, <1>3, <1>4, <1>5, <1>6, Zenon DEF Next

(* Where the caller is after a frame, and what the speaker is told.        *)
Goes(next, ag, out, w, o, left) ==
    \/ left \in {"error", "hang-up"} /\ w = next /\ o = out
    \/ /\ left = "no" /\ Speaking /\ caller.position < Len(Utterance) /\ o = out
       /\ w = [next EXCEPT !.position = @ + 1]
    \/ /\ left = "no" /\ Speaking /\ ~(caller.position < Len(Utterance)) /\ o = out
       /\ w = [next EXCEPT !.position = 0, !.deadline = clock + ReplyTimeout]
    \/ left = "no" /\ ~Speaking /\ ~Answered(ag, out) /\ w = next /\ o = out
    \/ /\ left \in {"no", "end"} /\ ~Speaking
       /\ \E n \in {next, [next EXCEPT !.timeouts = @ + 1]} :
            /\ n = next => Answered(ag, out)
            /\ \/ left = "end" /\ n.index = Len(script) /\ w = n /\ o = out
               \/ /\ left = "no" /\ n.index # Len(script) /\ o = SpeechStarted(out)
                  /\ w = [n EXCEPT !.index = @ + 1, !.position = 1, !.deadline = 0]

Told == IF Stamped THEN SpeechEnded(output) ELSE output
Heard(does) == IF Clears(does) THEN Clear(Told) ELSE Told

Remembered(does, w) ==
    Kept([history EXCEPT
        !.stamps = IF Stamped THEN @ + 1 ELSE @,
        !.lag = Later(@, history.lastLag), !.lastLag = clock - caller.due,
        !.queue = IF Clears(does) THEN <<>> ELSE @,
        !.since = IF w.index # caller.index THEN Never ELSE IF Stamped THEN clock ELSE @,
        !.loose = \/ @ \/ w.timeouts > 0
                  \/ /\ does = "commits" /\ Speaking
                     /\ caller.position < LastAudible(Utterance)])

Hands(next, does, speech, w, left) ==
    /\ Allowed(does, speech) /\ speech \in {FALSE, Audible}
    /\ does \in {"listens", "interrupts", "commits"}
    /\ left \in {"no", "error", "hang-up", "end"}
    /\ Goes(next, OnAudio(does, speech), Heard(does), w, output', left)
    /\ caller' = [w EXCEPT !.due = @ + Frame, !.step = "ask"]
    /\ agent' = [OnAudio(does, speech) EXCEPT !.left = left,
            !.phase = IF left = "no" THEN "live" ELSE IF left = "error" THEN "failed" ELSE "finishing"]
    /\ history' = Remembered(does, w)
    /\ UNCHANGED <<clock, script>>

LEMMA HandedOver ==
    ASSUME NEW next, next \in CallerSet, next.index = caller.index,
           next.position = caller.position, HandOver(next)
    PROVE  \E does, speech, w, left : Hands(next, does, speech, w, left)
<1>1. PICK speech \in {FALSE, Audible}, does \in {"listens", "interrupts", "commits"} :
        LET told == IF Stamped THEN SpeechEnded(output) ELSE output
            out == IF Clears(does) THEN Clear(told) ELSE told
            ag == OnAudio(does, speech)
            left == IF agent.error THEN "error"
                    ELSE IF ag.hangUp # Never /\ clock >= ag.hangUp THEN "hang-up"
                    ELSE IF Resumed(next, ag, out).more THEN "no" ELSE "end"
            now == IF left \in {"no", "end"} THEN Resumed(next, ag, out)
                   ELSE [caller |-> next, output |-> out]
        IN
        /\ Allowed(does, speech)
        /\ caller' = [now.caller EXCEPT !.due = @ + Frame, !.step = "ask"]
        /\ output' = now.output
        /\ agent' = [ag EXCEPT !.left = left,
                !.phase = IF left = "no" THEN "live"
                          ELSE IF left = "error" THEN "failed" ELSE "finishing"]
        /\ history' = Kept([history EXCEPT
                !.stamps = IF Stamped THEN @ + 1 ELSE @,
                !.lag = Later(@, history.lastLag), !.lastLag = clock - caller.due,
                !.queue = IF Clears(does) THEN <<>> ELSE @,
                !.since = IF now.caller.index # caller.index THEN Never
                          ELSE IF Stamped THEN clock ELSE @,
                !.loose = \/ @ \/ now.caller.timeouts > 0
                          \/ /\ does = "commits" /\ Speaking
                             /\ caller.position < LastAudible(Utterance)])
        /\ UNCHANGED <<clock, script>>
  BY Zenon DEF HandOver
<1> DEFINE ag == OnAudio(does, speech)  out == Heard(does)  r == Resumed(next, ag, out)
           left == IF agent.error THEN "error"
                   ELSE IF ag.hangUp # Never /\ clock >= ag.hangUp THEN "hang-up"
                   ELSE IF r.more THEN "no" ELSE "end"
           now == IF left \in {"no", "end"} THEN r ELSE [caller |-> next, output |-> out]
<1>2. /\ Allowed(does, speech) /\ caller' = [now.caller EXCEPT !.due = @ + Frame, !.step = "ask"]
      /\ output' = now.output /\ history' = Remembered(does, now.caller)
      /\ agent' = [ag EXCEPT !.left = left,
            !.phase = IF left = "no" THEN "live" ELSE IF left = "error" THEN "failed" ELSE "finishing"]
      /\ UNCHANGED <<clock, script>>
  BY <1>1, Zenon DEF Told, Heard, Remembered
<1>3. left \in {"no", "error", "hang-up", "end"}
  BY Zenon
<1>4. Goes(next, ag, out, now.caller, now.output, left)
  <2> HIDE DEF ag, out
  <2>1. CASE left \in {"error", "hang-up"}
    BY <2>1 DEF Goes
  <2>2. CASE left \in {"no", "end"}
    <3>1. now = r /\ (left = "no" <=> r.more)
      BY <2>2
    <3>2. ASSUME NEW n \in {next, [next EXCEPT !.timeouts = @ + 1]}, r = NextUtterance(n, out),
                 ~Speaking, n = next => Answered(ag, out)
          PROVE  Goes(next, ag, out, now.caller, now.output, left)
      <4>1. CASE n.index = Len(script)
        <5>1. r.caller = n /\ r.output = out /\ ~r.more
          BY <3>2, <4>1 DEF NextUtterance
        <5>2. left = "end"
          BY <2>2, <3>1, <5>1
        <5> HIDE DEF left, now, r
        <5> QED BY <3>1, <3>2, <4>1, <5>1, <5>2 DEF Goes
      <4>2. CASE n.index # Len(script)
        <5>1. /\ r.caller = [n EXCEPT !.index = @ + 1, !.position = 1, !.deadline = 0]
              /\ r.output = SpeechStarted(out) /\ r.more
          BY <3>2, <4>2 DEF NextUtterance
        <5>2. left = "no"
          BY <2>2, <3>1, <5>1
        <5> HIDE DEF left, now, r
        <5> QED BY <3>1, <3>2, <4>2, <5>1, <5>2 DEF Goes
      <4> QED BY <4>1, <4>2
    <3>3. CASE Speaking /\ next.position < Len(Utterance)
      <4>1. r.caller = [next EXCEPT !.position = @ + 1] /\ r.output = out /\ r.more
        BY <3>3 DEF Resumed
      <4>2. left = "no"
        BY <2>2, <3>1, <4>1
      <4> HIDE DEF left, now, r
      <4> QED BY <3>1, <3>3, <4>1, <4>2 DEF Goes
    <3>4. CASE Speaking /\ ~(next.position < Len(Utterance))
      <4>1. /\ r.caller = [next EXCEPT !.position = 0, !.deadline = clock + ReplyTimeout]
            /\ r.output = out /\ r.more
        BY <3>4 DEF Resumed
      <4>2. left = "no"
        BY <2>2, <3>1, <4>1
      <4> HIDE DEF left, now, r
      <4> QED BY <3>1, <3>4, <4>1, <4>2 DEF Goes
    <3>5. CASE ~Speaking /\ Answered(ag, out)
      <4>1. r = NextUtterance(next, out)
        BY <3>5 DEF Resumed
      <4> HIDE DEF left, now, r
      <4> QED BY <3>2, <3>5, <4>1
    <3>6. CASE ~Speaking /\ ~Answered(ag, out) /\ GivesUp
      <4>1. r = NextUtterance([next EXCEPT !.timeouts = @ + 1], out)
        BY <3>6 DEF Resumed
      <4>2. [next EXCEPT !.timeouts = @ + 1] # next
        BY DEF CallerSet
      <4> HIDE DEF left, now, r
      <4> QED BY <3>2, <3>6, <4>1, <4>2
    <3>7. CASE ~Speaking /\ ~Answered(ag, out) /\ ~GivesUp
      <4>1. r.caller = next /\ r.output = out /\ r.more
        BY <3>7 DEF Resumed
      <4>2. left = "no"
        BY <2>2, <3>1, <4>1
      <4> HIDE DEF left, now, r
      <4> QED BY <3>1, <3>7, <4>1, <4>2 DEF Goes
    <3> QED BY <3>3, <3>4, <3>5, <3>6, <3>7, Zenon
  <2> QED BY <1>3, <2>1, <2>2
<1>5. Hands(next, does, speech, now.caller, left)
  <2> HIDE DEF ag, out, now, left, r
  <2>1. OnAudio(does, speech) = ag /\ Heard(does) = out
    BY DEF ag, out
  <2> QED BY <1>1, <1>2, <1>3, <1>4, <2>1, Zenon DEF Hands
<1> QED BY <1>5

(* The same, field by field.                                               *)
Stays == caller'.index = caller.index /\ caller'.timeouts = caller.timeouts

Moves(ag, out, left) ==
    \/ left \in {"error", "hang-up"} /\ Stays /\ caller'.position = caller.position /\ output' = out
    \/ /\ left = "no" /\ Speaking /\ caller.position < Len(Utterance) /\ output' = out
       /\ Stays /\ caller'.position = caller.position + 1
    \/ left = "no" /\ Speaking /\ output' = out /\ Stays /\ caller'.position = 0
    \/ left = "no" /\ ~Speaking /\ output' = out /\ Stays /\ caller'.position = caller.position
    \/ /\ left \in {"no", "end"} /\ ~Speaking
       /\ \/ Answered(ag, out) /\ caller'.timeouts = caller.timeouts
          \/ caller'.timeouts = caller.timeouts + 1
       /\ \/ /\ left = "end" /\ output' = out
             /\ caller'.index = caller.index /\ caller'.position = caller.position
          \/ /\ left = "no" /\ caller.index # Len(script) /\ output' = SpeechStarted(out)
             /\ caller'.index = caller.index + 1 /\ caller'.position = 1

LEMMA Moved ==
    ASSUME CallTypes, NEW next, next \in CallerSet, next.index = caller.index,
           next.position = caller.position, next.timeouts = caller.timeouts,
           next.due = caller.due,
           NEW does, NEW speech, NEW w, NEW left, Hands(next, does, speech, w, left)
    PROVE  /\ caller' \in CallerSet /\ caller'.due = caller.due + Frame /\ caller'.step = "ask"
           /\ caller'.lateness = next.lateness
           /\ w.index = caller'.index /\ w.timeouts = caller'.timeouts
           /\ Moves(OnAudio(does, speech), Heard(does), left)
<1>1. caller \in CallerSet /\ clock \in Nat /\ Frame \in Nat /\ ReplyTimeout \in Nat
  BY CallNumbers DEF CallTypes
<1>2. Goes(next, OnAudio(does, speech), Heard(does), w, output', left)
      /\ caller' = [w EXCEPT !.due = @ + Frame, !.step = "ask"]
  BY DEF Hands
<1> DEFINE ag == OnAudio(does, speech)  out == Heard(does)
<1>3. Goes(next, ag, out, w, output', left)
  BY <1>2
<1> HIDE DEF ag, out
<1>4. /\ w \in CallerSet /\ w.due = next.due /\ w.lateness = next.lateness
  <2>2. /\ next.index \in Nat /\ next.position \in Nat /\ next.timeouts \in Nat
        /\ next.deadline \in Nat
    BY DEF CallerSet
  <2>3. [next EXCEPT !.position = @ + 1] \in CallerSet
        /\ [next EXCEPT !.position = @ + 1].due = next.due
        /\ [next EXCEPT !.position = @ + 1].lateness = next.lateness
    BY <2>2 DEF CallerSet
  <2>4. ASSUME NEW d \in Nat
        PROVE  /\ [next EXCEPT !.position = 0, !.deadline = d] \in CallerSet
               /\ [next EXCEPT !.position = 0, !.deadline = d].due = next.due
               /\ [next EXCEPT !.position = 0, !.deadline = d].lateness = next.lateness
    BY <2>2 DEF CallerSet
  <2>5. /\ [next EXCEPT !.timeouts = @ + 1] \in CallerSet
        /\ [next EXCEPT !.timeouts = @ + 1].due = next.due
        /\ [next EXCEPT !.timeouts = @ + 1].lateness = next.lateness
    BY <2>2 DEF CallerSet
  <2>6. ASSUME NEW n \in CallerSet, n.due = next.due, n.lateness = next.lateness
        PROVE  /\ [n EXCEPT !.index = @ + 1, !.position = 1, !.deadline = 0] \in CallerSet
               /\ [n EXCEPT !.index = @ + 1, !.position = 1, !.deadline = 0].due = next.due
               /\ [n EXCEPT !.index = @ + 1, !.position = 1, !.deadline = 0].lateness = next.lateness
    <3>1. n.index + 1 \in Nat
      BY DEF CallerSet
    <3> QED BY <2>6, <3>1 DEF CallerSet
  <2>7. clock + ReplyTimeout \in Nat
    BY <1>1
  <2>8. CASE w = next
    BY <2>8
  <2>9. CASE w = [next EXCEPT !.position = @ + 1]
    BY <2>3, <2>9, Zenon
  <2>10. CASE w = [next EXCEPT !.position = 0, !.deadline = clock + ReplyTimeout]
    BY <2>4, <2>7, <2>10, Zenon
  <2>11. ASSUME NEW n \in {next, [next EXCEPT !.timeouts = @ + 1]},
                w = n \/ w = [n EXCEPT !.index = @ + 1, !.position = 1, !.deadline = 0]
         PROVE  w \in CallerSet /\ w.due = next.due /\ w.lateness = next.lateness
    <3>1. n \in CallerSet /\ n.due = next.due /\ n.lateness = next.lateness
      BY <2>5, Zenon
    <3> QED BY <2>6, <2>11, <3>1, Zenon
  <2> QED BY <1>3, <2>8, <2>9, <2>10, <2>11, Zenon DEF Goes
<1>5. /\ caller' \in CallerSet /\ caller'.due = caller.due + Frame /\ caller'.step = "ask"
      /\ caller'.lateness = next.lateness /\ caller'.index = w.index
      /\ caller'.position = w.position /\ caller'.timeouts = w.timeouts
  <2>1. w.due + Frame \in Nat
    BY <1>1, <1>4 DEF CallerSet
  <2> QED BY <1>2, <1>4, <2>1 DEF CallerSet
<1>6. Moves(ag, out, left)
  <2>1. CASE left \in {"error", "hang-up"} /\ w = next /\ output' = out
    BY <1>5, <2>1 DEF Moves, Stays
  <2>2. CASE /\ left = "no" /\ Speaking /\ caller.position < Len(Utterance) /\ output' = out
             /\ w = [next EXCEPT !.position = @ + 1]
    <3>1. w.index = next.index /\ w.position = next.position + 1 /\ w.timeouts = next.timeouts
      BY <2>2 DEF CallerSet
    <3> QED BY <1>5, <2>2, <3>1 DEF Moves, Stays
  <2>3. CASE /\ left = "no" /\ Speaking /\ ~(caller.position < Len(Utterance)) /\ output' = out
             /\ w = [next EXCEPT !.position = 0, !.deadline = clock + ReplyTimeout]
    <3>1. w.index = next.index /\ w.position = 0 /\ w.timeouts = next.timeouts
      BY <2>3 DEF CallerSet
    <3> QED BY <1>5, <2>3, <3>1 DEF Moves, Stays
  <2>4. CASE left = "no" /\ ~Speaking /\ ~Answered(ag, out) /\ w = next /\ output' = out
    BY <1>5, <2>4 DEF Moves, Stays
  <2>5. ASSUME left \in {"no", "end"}, ~Speaking,
               NEW n \in {next, [next EXCEPT !.timeouts = @ + 1]}, n = next => Answered(ag, out),
               \/ left = "end" /\ n.index = Len(script) /\ w = n /\ output' = out
               \/ /\ left = "no" /\ n.index # Len(script) /\ output' = SpeechStarted(out)
                  /\ w = [n EXCEPT !.index = @ + 1, !.position = 1, !.deadline = 0]
        PROVE  Moves(ag, out, left)
    <3>1. /\ n \in CallerSet /\ n.index = caller.index /\ n.position = caller.position
          /\ \/ Answered(ag, out) /\ n.timeouts = caller.timeouts
             \/ n.timeouts = caller.timeouts + 1
      BY <2>5 DEF CallerSet
    <3>2. CASE left = "end" /\ w = n /\ output' = out
      BY <1>5, <2>5, <3>1, <3>2 DEF Moves
    <3>3. CASE /\ left = "no" /\ n.index # Len(script) /\ output' = SpeechStarted(out)
               /\ w = [n EXCEPT !.index = @ + 1, !.position = 1, !.deadline = 0]
      <4>1. w.index = n.index + 1 /\ w.position = 1 /\ w.timeouts = n.timeouts
        BY <3>1, <3>3 DEF CallerSet
      <4> QED BY <1>5, <2>5, <3>1, <3>3, <4>1 DEF Moves
    <3> QED BY <2>5, <3>2, <3>3
  <2> QED BY <1>3, <2>1, <2>2, <2>3, <2>4, <2>5, Zenon DEF Goes
<1> QED BY <1>4, <1>5, <1>6 DEF ag, out

(* What the speaker and the session have after the frame.                  *)
LEMMA Sounded ==
    ASSUME CallTypes, NEW does, NEW speech
    PROVE  /\ Told \in OutputSet /\ Heard(does) \in OutputSet
           /\ Told.until = output.until /\ Heard(does).until >= clock
           /\ Heard(does).stoppedAt = Told.stoppedAt
           /\ Heard(does).until = IF Clears(does) THEN clock ELSE output.until
           /\ Told.stoppedAt = IF Stamped THEN clock ELSE output.stoppedAt
           /\ Heard(does).observed = output.observed /\ Heard(does).unanswered = output.unanswered
           /\ Heard(does).firstAudio = output.firstAudio
           /\ SpeechStarted(Heard(does)) \in OutputSet
           /\ SpeechStarted(Heard(does)).until = Heard(does).until
           /\ SpeechStarted(Heard(does)).stoppedAt = Never
           /\ SpeechStarted(Heard(does)).observed = output.observed
           /\ SpeechStarted(Heard(does)).unanswered =
                output.unanswered + IF Awaiting(Told) THEN 1 ELSE 0
<1>1. clock \in Nat /\ output \in OutputSet /\ output.until >= clock
  BY DEF CallTypes
<1>2. Told \in OutputSet /\ Told.until = output.until /\ Told.observed = output.observed
      /\ Told.unanswered = output.unanswered /\ Told.firstAudio = output.firstAudio
      /\ Told.stoppedAt = IF Stamped THEN clock ELSE output.stoppedAt
  BY <1>1 DEF Told, SpeechEnded, OutputSet
<1>3. /\ Heard(does) \in OutputSet /\ Heard(does).stoppedAt = Told.stoppedAt
      /\ Heard(does).until = (IF Clears(does) THEN clock ELSE output.until)
      /\ Heard(does).observed = output.observed /\ Heard(does).unanswered = output.unanswered
      /\ Heard(does).firstAudio = output.firstAudio
  BY <1>1, <1>2 DEF Heard, Clear, OutputSet
<1> DEFINE out == Heard(does)
<1>4. /\ SpeechStarted(out) \in OutputSet /\ SpeechStarted(out).until = out.until
      /\ SpeechStarted(out).stoppedAt = Never /\ SpeechStarted(out).observed = out.observed
      /\ SpeechStarted(out).unanswered = out.unanswered + IF Awaiting(out) THEN 1 ELSE 0
  <2>1. out \in OutputSet
    BY <1>3
  <2> HIDE DEF out
  <2>2. Never \in Int /\ out.unanswered + 1 \in Nat /\ out.unanswered + 0 = out.unanswered
    BY <2>1, CallNumbers DEF OutputSet
  <2>3. CASE Awaiting(out)
    <3>1. SpeechStarted(out) = [out EXCEPT !.unanswered = @ + 1, !.stoppedAt = Never]
      BY <2>3 DEF SpeechStarted
    <3> QED BY <2>1, <2>2, <2>3, <3>1 DEF OutputSet
  <2>4. CASE ~Awaiting(out)
    <3>1. SpeechStarted(out) = out /\ out.stoppedAt = Never
      BY <2>4 DEF SpeechStarted, Awaiting
    <3> QED BY <2>1, <2>2, <2>4, <3>1
  <2> QED BY <2>3, <2>4
<1>5. Awaiting(out) <=> Awaiting(Told)
  BY <1>3 DEF Awaiting
<1>6. Heard(does).until >= clock
  BY <1>1, <1>3
<1> HIDE DEF out
<1> QED BY <1>2, <1>3, <1>4, <1>5, <1>6 DEF out

LEMMA Agents ==
    ASSUME CallTypes, NEW does, NEW speech \in BOOLEAN, Allowed(does, speech)
    PROVE  /\ OnAudio(does, speech) \in AgentSet
           /\ OnAudio(does, speech).busy <=> (agent.busy \/ does = "commits")
           /\ OnAudio(does, speech).error <=> agent.error
           /\ does = "commits" => ~speech
<1>1. agent \in AgentSet /\ clock \in Int
  BY DEF CallTypes
<1>2. CASE does = "commits"
  <2>1. ~speech
    BY <1>2 DEF Allowed
  <2> QED BY <1>1, <1>2, <2>1 DEF OnAudio, AgentSet
<1>3. CASE does # "commits"
  <2>1. (agent.listening \/ speech) \in BOOLEAN
    BY <1>1 DEF AgentSet
  <2>2. (IF does = "interrupts" THEN Never ELSE agent.hangUp) \in Int
    BY <1>1, CallNumbers DEF AgentSet
  <2>3. OnAudio(does, speech) = [agent EXCEPT !.listening = @ \/ speech,
                                              !.hangUp = IF does = "interrupts" THEN Never ELSE @]
    BY <1>3 DEF OnAudio
  <2> QED BY <1>1, <1>3, <2>1, <2>2, <2>3 DEF AgentSet
<1> QED BY <1>2, <1>3

LEMMA Histories ==
    ASSUME NEW h, h \in HistorySet
    PROVE  /\ Kept(h) \in HistorySet /\ Kept(h).stamps = h.stamps /\ Kept(h).lag = h.lag
           /\ Kept(h).lastLag = h.lastLag /\ (Kept(h).loose <=> h.loose)
           /\ (Kept(h).mistimed <=> h.mistimed) /\ (~h.loose => Kept(h) = h)
<1>1. <<>> \in Seq(BOOLEAN) /\ <<>> \in Seq(Int)
  BY EmptySeq
<1>2. CASE h.loose
  BY <1>1, <1>2, CallNumbers DEF Kept, HistorySet
<1>3. CASE ~h.loose
  BY <1>3 DEF Kept
<1> QED BY <1>2, <1>3

(* What is remembered of a frame, before a loose call forgets.             *)
Fresh(does, index, timeouts) ==
    [history EXCEPT
        !.stamps = IF Stamped THEN @ + 1 ELSE @,
        !.lag = Later(@, history.lastLag), !.lastLag = clock - caller.due,
        !.queue = IF Clears(does) THEN <<>> ELSE @,
        !.since = IF index # caller.index THEN Never ELSE IF Stamped THEN clock ELSE @,
        !.loose = \/ @ \/ timeouts > 0
                  \/ /\ does = "commits" /\ Speaking
                     /\ caller.position < LastAudible(Utterance)]

LEMMA FreshIs ==
    ASSUME CallTypes, NEW does, NEW index, NEW timeouts
    PROVE  LET h == Fresh(does, index, timeouts) IN
           /\ h \in HistorySet
           /\ h.stamps = history.stamps + IF Stamped THEN 1 ELSE 0
           /\ h.lag = Later(history.lag, history.lastLag) /\ h.lastLag = clock - caller.due
           /\ h.queue = IF Clears(does) THEN <<>> ELSE history.queue
           /\ h.since = IF index # caller.index THEN Never ELSE IF Stamped THEN clock ELSE history.since
           /\ h.noted = history.noted /\ (h.mistimed <=> history.mistimed)
           /\ h.loose <=> \/ history.loose \/ timeouts > 0
                          \/ does = "commits" /\ Speaking /\ caller.position < LastAudible(Utterance)
<1> DEFINE h == Fresh(does, index, timeouts)
           loose == \/ history.loose \/ timeouts > 0
                    \/ does = "commits" /\ Speaking /\ caller.position < LastAudible(Utterance)
           since == IF index # caller.index THEN Never ELSE IF Stamped THEN clock ELSE history.since
           queue == IF Clears(does) THEN <<>> ELSE history.queue
           lag == Later(history.lag, history.lastLag)
           stamps == history.stamps + IF Stamped THEN 1 ELSE 0
           last == clock - caller.due
<1>1. history \in HistorySet /\ caller \in CallerSet /\ clock \in Nat
  BY DEF CallTypes
<1>2. loose \in BOOLEAN
  OBVIOUS
<1>3. since \in Nat \cup {Never} /\ queue \in Seq(BOOLEAN)
  BY <1>1, EmptySeq DEF HistorySet
<1>4. stamps \in Nat /\ last \in Int
  BY SMTT(30), <1>1 DEF HistorySet, CallerSet
<1>5. lag \in Int
  BY <1>1 DEF HistorySet, Later
<1>6. h = [history EXCEPT !.stamps = stamps, !.lag = lag, !.lastLag = last, !.queue = queue,
                          !.since = since, !.loose = loose]
  <2>1. stamps = IF Stamped THEN history.stamps + 1 ELSE history.stamps
    BY <1>1 DEF HistorySet
  <2> QED BY <1>1, <2>1 DEF Fresh
<1> HIDE DEF loose, since, queue, lag, stamps, last, h
<1>7. /\ h \in HistorySet /\ h.stamps = stamps /\ h.lag = lag /\ h.lastLag = last
      /\ h.queue = queue /\ h.since = since /\ h.noted = history.noted
      /\ (h.mistimed <=> history.mistimed) /\ (h.loose <=> loose)
  BY <1>1, <1>2, <1>3, <1>4, <1>5, <1>6 DEF HistorySet
<1> QED BY <1>7 DEF loose, since, queue, lag, stamps, last, h

LEMMA HandTypes ==
    ASSUME CallTypes, PlaceInv, agent.phase = "live", NEW next, next \in CallerSet,
           next.index = caller.index, next.position = caller.position,
           next.timeouts = caller.timeouts, next.due = caller.due,
           NEW does, NEW speech, NEW w, NEW left, Hands(next, does, speech, w, left)
    PROVE  /\ CallTypes' /\ PlaceInv'
           /\ agent'.left = left /\ (agent'.phase = "live" <=> left = "no")
           /\ agent'.phase # "none"
           /\ (agent'.busy <=> (agent.busy \/ does = "commits"))
           /\ history' = Kept(Fresh(does, caller'.index, caller'.timeouts))
<1>1. /\ caller' \in CallerSet /\ caller'.due = caller.due + Frame /\ caller'.step = "ask"
      /\ caller'.lateness = next.lateness
      /\ w.index = caller'.index /\ w.timeouts = caller'.timeouts
      /\ Moves(OnAudio(does, speech), Heard(does), left)
  BY Moved
<1>2. /\ Heard(does) \in OutputSet /\ Heard(does).until >= clock
      /\ SpeechStarted(Heard(does)) \in OutputSet
      /\ SpeechStarted(Heard(does)).until = Heard(does).until
  BY Sounded
<1>3. output' \in OutputSet /\ output'.until >= clock
  BY <1>1, <1>2 DEF Moves
<1>4. speech \in BOOLEAN
  <2>1. CASE speech = FALSE
    BY <2>1
  <2>2. CASE speech = Audible /\ Speaking
    <3>1. /\ script \in Seq(Seq(BOOLEAN) \ {<<>>}) /\ caller.position > 0
      BY <2>2 DEF CallTypes, Speaking
    <3>2. caller.index \in 1..Len(script) /\ caller.position \in 1..Len(script[caller.index])
      BY <3>1 DEF PlaceInv
    <3>3. script[caller.index] \in Seq(BOOLEAN)
      BY <3>1, <3>2, ElementOfSeq
    <3>4. script[caller.index][caller.position] \in BOOLEAN
      BY <3>2, <3>3, ElementOfSeq
    <3> QED BY <2>2, <3>4 DEF Audible, Utterance
  <2>3. CASE speech = Audible /\ ~Speaking
    BY <2>3 DEF Audible
  <2> QED BY <2>1, <2>2, <2>3 DEF Hands
<1>5. /\ OnAudio(does, speech) \in AgentSet
      /\ (OnAudio(does, speech).busy <=> (agent.busy \/ does = "commits"))
  BY <1>4, Agents DEF Hands
<1>6. /\ agent' \in AgentSet /\ agent'.left = left /\ agent'.busy = OnAudio(does, speech).busy
      /\ agent'.phase = IF left = "no" THEN "live" ELSE IF left = "error" THEN "failed" ELSE "finishing"
  <2> DEFINE ag == OnAudio(does, speech)
  <2>1. /\ left \in {"no", "error", "hang-up", "end"}
        /\ agent' = [ag EXCEPT !.left = left,
            !.phase = IF left = "no" THEN "live" ELSE IF left = "error" THEN "failed" ELSE "finishing"]
    BY DEF Hands
  <2>2. ag \in AgentSet
    BY <1>5
  <2> HIDE DEF ag
  <2>3. /\ agent' \in AgentSet /\ agent'.left = left /\ agent'.busy = ag.busy
        /\ agent'.phase = IF left = "no" THEN "live" ELSE IF left = "error" THEN "failed" ELSE "finishing"
    BY <2>1, <2>2 DEF AgentSet
  <2> QED BY <2>3 DEF ag
<1>7. history' = Kept(Fresh(does, caller'.index, caller'.timeouts))
  BY <1>1, Zenon DEF Hands, Remembered, Fresh
<1>8. history' \in HistorySet
  BY <1>7, FreshIs, Histories
<1>9. CallTypes'
  BY <1>1, <1>3, <1>6, <1>8 DEF CallTypes, Hands
<1>10. PlaceInv'
  <2> SUFFICES ASSUME left = "no"
               PROVE  /\ caller'.index \in 0..Len(script)
                      /\ caller'.position > 0 => /\ caller'.index \in 1..Len(script)
                                                 /\ caller'.position \in 1..Len(script[caller'.index])
    BY <1>6 DEF PlaceInv, Hands
  <2>1. /\ caller.index \in 0..Len(script) /\ caller.position \in Nat
        /\ caller.position > 0 =>
            caller.index \in 1..Len(script) /\ caller.position \in 1..Len(script[caller.index])
    BY DEF PlaceInv, CallTypes, CallerSet
  <2>2. CASE caller'.index = caller.index
             /\ (caller'.position = caller.position \/ caller'.position = 0)
    BY <2>1, <2>2
  <2>3. CASE /\ Speaking /\ caller.position < Len(Utterance) /\ caller'.index = caller.index
             /\ caller'.position = caller.position + 1
    BY <2>1, <2>3 DEF Speaking, Utterance
  <2>4. CASE /\ caller.index # Len(script) /\ caller'.index = caller.index + 1
             /\ caller'.position = 1
    <3>1. caller'.index \in 1..Len(script) /\ script \in Seq(Seq(BOOLEAN) \ {<<>>})
          /\ Len(script) \in Nat
      BY <2>1, <2>4, LenProperties DEF CallTypes
    <3>2. script[caller'.index] \in Seq(BOOLEAN) /\ script[caller'.index] # <<>>
      BY <3>1, ElementOfSeq
    <3>3. Len(script[caller'.index]) \in Nat /\ Len(script[caller'.index]) # 0
      BY <3>2, EmptySeq, LenProperties
    <3> QED BY <2>4, <3>1, <3>3
  <2> QED BY <1>1, <2>2, <2>3, <2>4 DEF Moves, Stays
<1> QED BY <1>5, <1>6, <1>7, <1>9, <1>10

-----------------------------------------------------------------------------
(***************************************************************************)
(* Each utterance that was finished is timed, unanswered or awaited, and   *)
(* an awaited one is behind the caller who speaks.                         *)
(***************************************************************************)
CountInv ==
    /\ EachTurnCountedOnce
    /\ output.unanswered <= caller.timeouts
    /\ agent.left = "end" /\ Awaiting(output) => output.unanswered + 1 <= caller.timeouts
    /\ agent.phase = "live" /\ Awaiting(output) /\ Speaking =>
        \E q \in 1..(caller.position - 1) : q = LastAudible(Utterance)

(* A lag is seen, or will be at the next tick().                           *)
LateInv ==
    /\ LatenessIsSeen
    /\ agent.phase = "live" =>
        \/ history.lastLag < Frame
        \/ caller.lateness # Never /\ history.lastLag <= caller.lateness + Frame
        \/ caller.step = "ask" /\ history.lastLag <= (clock - caller.due) + Frame

LEMMA HandCounts ==
    ASSUME CallTypes, PlaceInv, CountInv, agent.phase = "live", NEW next, next \in CallerSet,
           next.index = caller.index, next.position = caller.position,
           next.timeouts = caller.timeouts, next.due = caller.due,
           NEW does, NEW speech, NEW w, NEW left, Hands(next, does, speech, w, left)
    PROVE  CountInv'
<1>1. /\ CallTypes' /\ PlaceInv' /\ agent'.left = left /\ (agent'.phase = "live" <=> left = "no")
      /\ history' = Kept(Fresh(does, caller'.index, caller'.timeouts))
  BY HandTypes
<1>2. Moves(OnAudio(does, speech), Heard(does), left) /\ script' = script
  BY Moved DEF Hands
<1> DEFINE out == Heard(does)  started == SpeechStarted(Heard(does))
<1>3. /\ out.stoppedAt = (IF Stamped THEN clock ELSE output.stoppedAt)
      /\ out.observed = output.observed /\ out.unanswered = output.unanswered
      /\ started.stoppedAt = Never /\ started.observed = output.observed
      /\ started.unanswered = output.unanswered + IF Awaiting(Told) THEN 1 ELSE 0
      /\ Told.stoppedAt = out.stoppedAt
  BY Sounded
<1>4. history'.stamps = history.stamps + IF Stamped THEN 1 ELSE 0
  BY <1>1, FreshIs, Histories
<1>5. /\ output \in OutputSet /\ caller \in CallerSet /\ history \in HistorySet /\ clock \in Nat
      /\ output' \in OutputSet /\ caller' \in CallerSet /\ history' \in HistorySet
  BY <1>1 DEF CallTypes
<1>6. Stamped => Speaking /\ caller.position = LastAudible(Utterance) /\ ~Awaiting(output)
  BY <1>5 DEF Stamped, CountInv, Speaking, CallerSet
<1>7. /\ output.unanswered \in Nat /\ output.observed \in Nat /\ caller.timeouts \in Nat
      /\ output'.unanswered \in Nat /\ output'.observed \in Nat /\ caller'.timeouts \in Nat
      /\ history.stamps \in Nat /\ caller.position \in Nat
  BY <1>5 DEF OutputSet, CallerSet, HistorySet
<1>8. output.observed + output.unanswered + (IF Awaiting(output) THEN 1 ELSE 0) = history.stamps
      /\ output.unanswered <= caller.timeouts
  BY <1>7 DEF CountInv, EachTurnCountedOnce, UnansweredTurns
<1>9. Awaiting(out) <=> (Stamped \/ Awaiting(output))
  BY <1>3, <1>5, CallNumbers DEF Awaiting
<1>10. Awaiting(Told) <=> Awaiting(out)
  BY <1>3 DEF Awaiting
<1>11. Answered(OnAudio(does, speech), out) => ~Awaiting(out)
  BY DEF Answered
<1>12. \/ output' = out \/ output' = started
  BY <1>2 DEF Moves
<1>13. /\ output'.observed = output.observed
       /\ output'.unanswered = output.unanswered
            + IF output' = out THEN 0 ELSE IF Awaiting(out) THEN 1 ELSE 0
       /\ output' = out => (Awaiting(output') <=> Awaiting(out))
       /\ output' # out => ~Awaiting(output')
  BY <1>3, <1>7, <1>10, <1>12 DEF Awaiting
<1> HIDE DEF out, started
<1>14. EachTurnCountedOnce'
  <2>1. output'.observed + output'.unanswered + (IF Awaiting(output') THEN 1 ELSE 0) = history'.stamps
    BY <1>4, <1>6, <1>7, <1>8, <1>9, <1>13
  <2> QED BY <1>7, <2>1 DEF EachTurnCountedOnce, UnansweredTurns, Awaiting
<1>15. caller'.timeouts >= caller.timeouts
       /\ (~Speaking /\ Awaiting(out) /\ left = "end" => caller'.timeouts = caller.timeouts + 1)
       /\ (output' # out => ~Awaiting(out) \/ caller'.timeouts = caller.timeouts + 1)
  BY <1>2, <1>7, <1>11 DEF Moves, Stays, out
<1>16. output'.unanswered <= caller'.timeouts
  BY <1>7, <1>8, <1>13, <1>15
<1>17. left = "end" /\ Awaiting(output') => output'.unanswered + 1 <= caller'.timeouts
  <2>1. left = "end" => output' = out /\ ~Speaking
    BY <1>2 DEF Moves, out
  <2> QED BY <1>7, <1>8, <1>13, <1>15, <2>1
<1>18. ASSUME left = "no", Awaiting(output'), caller'.position > 0
       PROVE  \E q \in 1..(caller'.position - 1) : q = LastAudible(script[caller'.index])
  <2>1. output' = out /\ (Stamped \/ Awaiting(output))
    BY <1>9, <1>13, <1>18
  <2>2. ~(output' = started /\ caller'.position = 1)
    BY <1>3, <1>18 DEF Awaiting, started
  <2>3. caller'.index = caller.index
        /\ ((Speaking /\ caller'.position = caller.position + 1) \/ (~Speaking /\ caller'.position = caller.position))
    BY <1>2, <2>1, <1>18, <2>2 DEF Moves, Stays, started
  <2>4. Speaking /\ caller'.position = caller.position + 1
    BY <1>7, <1>18, <2>3 DEF Speaking
  <2>5. CASE Stamped
    BY <1>6, <1>7, <2>3, <2>4, <2>5 DEF Utterance, Speaking
  <2>6. CASE Awaiting(output)
    <3>1. PICK q \in 1..(caller.position - 1) : q = LastAudible(Utterance)
      BY <2>4, <2>6 DEF CountInv
    <3>2. q \in 1..(caller'.position - 1)
      BY <1>7, <2>4, <3>1
    <3> QED BY <2>3, <3>1, <3>2 DEF Utterance
  <2> QED BY <2>1, <2>5, <2>6
<1> QED BY <1>1, <1>2, <1>14, <1>16, <1>17, <1>18 DEF CountInv, Speaking, Utterance, Awaiting

LEMMA HandLate ==
    ASSUME CallTypes, PlaceInv, LateInv, agent.phase = "live", NEW next, next \in CallerSet,
           next.index = caller.index, next.position = caller.position,
           next.timeouts = caller.timeouts, next.due = caller.due, caller.due <= clock,
           \/ caller.step = "ask" /\ next.lateness = Later(caller.lateness, clock - caller.due)
           \/ caller.step = "sleep" /\ next.lateness = caller.lateness,
           NEW does, NEW speech, NEW w, NEW left, Hands(next, does, speech, w, left)
    PROVE  LateInv'
<1>1. history' = Kept(Fresh(does, caller'.index, caller'.timeouts)) /\ CallTypes'
  BY HandTypes
<1>2. /\ history'.lag = Later(history.lag, history.lastLag) /\ history'.lastLag = clock - caller.due
  BY <1>1, FreshIs, Histories
<1>3. /\ caller'.due = caller.due + Frame /\ caller'.step = "ask"
      /\ caller'.lateness = next.lateness /\ clock' = clock
  BY Moved DEF Hands
<1>4. /\ caller.due \in Nat /\ clock \in Nat /\ caller.lateness \in Int
      /\ history.lag \in Int /\ history.lastLag \in Int /\ Frame \in Nat /\ Never = -1
  BY CallNumbers DEF CallTypes, CallerSet, HistorySet
<1>5. \/ history.lastLag < Frame
      \/ caller'.lateness # Never /\ history.lastLag <= caller'.lateness + Frame
  BY <1>3, <1>4 DEF LateInv, Later
<1>6. \/ history.lag < Frame
      \/ caller'.lateness # Never /\ history.lag <= caller'.lateness + Frame
  BY <1>3, <1>4 DEF LateInv, LatenessIsSeen, Later
<1>7. \/ history'.lag < Frame
      \/ caller'.lateness # Never /\ history'.lag <= caller'.lateness + Frame
  BY <1>2, <1>4, <1>5, <1>6 DEF Later
<1>8. history'.lastLag <= (clock' - caller'.due) + Frame
  BY <1>2, <1>3, <1>4
<1> QED BY <1>3, <1>7, <1>8 DEF LateInv, LatenessIsSeen

-----------------------------------------------------------------------------
(***************************************************************************)
(* The delay of an answer, noted when its audio is queued, is the one at   *)
(* which its first audible window will be heard.                           *)
(***************************************************************************)
Silent(s) == \A i \in 1..Len(s) : ~s[i]

(* The first audible window in the speaker is at place k.                  *)
FirstAt(s, k) == k \in 1..Len(s) /\ s[k] /\ \A i \in 1..(k - 1) : ~s[i]

(* While the caller still has something audible to say, nobody else does.  *)
Undisturbed == ~agent.busy /\ history.queue = <<>> /\ ~Awaiting(output) /\ history.since = Never

HearInv ==
    ~history.loose =>
        /\ ~history.mistimed
        /\ Len(history.queue) = output.until - clock
        /\ Awaiting(output) =>
            history.since = output.stoppedAt /\ Silent(history.queue) /\ history.noted = <<>>
        /\ ~Awaiting(output) /\ history.since # Never =>
            \E k \in Nat : /\ FirstAt(history.queue, k)
                           /\ history.noted = <<(clock + (k - 1)) - history.since>>
        /\ ~Awaiting(output) /\ history.since = Never => history.noted = <<>>
        /\ agent.phase = "live" /\ Speaking /\ caller.position <= LastAudible(Utterance) => Undisturbed

LEMMA HandHears ==
    ASSUME CallTypes, PlaceInv, HearInv, agent.phase = "live", NEW next, next \in CallerSet,
           next.index = caller.index, next.position = caller.position,
           next.timeouts = caller.timeouts, next.due = caller.due,
           NEW does, NEW speech, NEW w, NEW left, Hands(next, does, speech, w, left)
    PROVE  HearInv'
<1>1. /\ CallTypes' /\ PlaceInv' /\ agent'.left = left /\ (agent'.phase = "live" <=> left = "no")
      /\ (agent'.busy <=> (agent.busy \/ does = "commits"))
      /\ history' = Kept(Fresh(does, caller'.index, caller'.timeouts))
  BY HandTypes
<1>2. Moves(OnAudio(does, speech), Heard(does), left) /\ script' = script /\ clock' = clock
  BY Moved DEF Hands
<1> DEFINE out == Heard(does)  started == SpeechStarted(Heard(does))
           h == Fresh(does, caller'.index, caller'.timeouts)
<1>3. /\ out.stoppedAt = (IF Stamped THEN clock ELSE output.stoppedAt)
      /\ out.until = (IF Clears(does) THEN clock ELSE output.until)
      /\ started.stoppedAt = Never /\ started.until = out.until
  BY Sounded
<1>4. /\ output \in OutputSet /\ caller \in CallerSet /\ history \in HistorySet /\ clock \in Nat
      /\ caller' \in CallerSet /\ agent \in AgentSet /\ output.until >= clock
      /\ script \in Seq(Seq(BOOLEAN) \ {<<>>})
  BY <1>1 DEF CallTypes
<1>5. /\ h \in HistorySet
      /\ h.queue = (IF Clears(does) THEN <<>> ELSE history.queue)
      /\ h.since = (IF caller'.index # caller.index THEN Never ELSE IF Stamped THEN clock ELSE history.since)
      /\ h.noted = history.noted /\ (h.mistimed <=> history.mistimed)
      /\ h.loose <=> \/ history.loose \/ caller'.timeouts > 0
                     \/ does = "commits" /\ Speaking /\ caller.position < LastAudible(Utterance)
  BY FreshIs
<1>6. /\ history' = Kept(h) /\ (history'.loose <=> h.loose) /\ (~h.loose => history' = h)
  BY <1>1, <1>5, Histories
<1> SUFFICES ASSUME ~h.loose PROVE HearInv'
  BY <1>6 DEF HearInv
<1>7. /\ ~history.loose /\ ~(caller'.timeouts > 0) /\ caller'.timeouts \in Nat /\ caller.timeouts \in Nat
      /\ ~(does = "commits" /\ Speaking /\ caller.position < LastAudible(Utterance))
      /\ history' = h
  BY <1>4, <1>5, <1>6 DEF CallerSet
<1>8. Speaking => /\ Utterance \in Seq(BOOLEAN) /\ caller.position \in 1..Len(Utterance)
                  /\ LastAudible(Utterance) \in Nat
                  /\ Audible => caller.position <= LastAudible(Utterance)
  <2> SUFFICES ASSUME Speaking
               PROVE  /\ Utterance \in Seq(BOOLEAN) /\ caller.position \in 1..Len(Utterance)
                      /\ LastAudible(Utterance) \in Nat
                      /\ Audible => caller.position <= LastAudible(Utterance)
    OBVIOUS
  <2>1. caller.index \in 1..Len(script) /\ caller.position \in 1..Len(script[caller.index])
    BY DEF PlaceInv, Speaking
  <2>2. script[caller.index] \in Seq(BOOLEAN)
    BY <1>4, <2>1, ElementOfSeq
  <2>3. Utterance \in Seq(BOOLEAN) /\ caller.position \in 1..Len(Utterance)
    BY <2>1, <2>2 DEF Utterance
  <2> QED BY <2>3, LastHeard DEF Audible
<1>9. Speaking /\ caller.position <= LastAudible(Utterance) => Undisturbed
  BY <1>7 DEF HearInv
<1>10. ~Clears(does)
  <2> SUFFICES ASSUME Clears(does) PROVE FALSE
    OBVIOUS
  <2>1. does = "interrupts" /\ agent.busy
    BY DEF Clears
  <2>2. Audible
    BY <2>1 DEF Hands, Allowed
  <2>3. Undisturbed
    BY <1>8, <1>9, <2>2 DEF Audible
  <2> QED BY <2>1, <2>3 DEF Undisturbed
<1>11. Stamped => Undisturbed /\ Speaking /\ caller.position = LastAudible(Utterance)
  BY <1>8, <1>9 DEF Stamped
<1>12. /\ out.until = output.until /\ started.until = output.until /\ h.queue = history.queue
       /\ output'.until = output.until
  BY <1>2, <1>3, <1>5, <1>10 DEF Moves
<1>13. CASE Stamped
  <2>1. Undisturbed /\ Speaking /\ caller'.index = caller.index /\ output' = out
    BY <1>2, <1>11, <1>13 DEF Moves, Stays
  <2>2. /\ h.since = clock /\ output'.stoppedAt = clock /\ h.queue = <<>> /\ h.noted = <<>>
    BY <1>3, <1>5, <1>7, <1>12, <1>13, <2>1 DEF Undisturbed, HearInv
  <2>3. Awaiting(output') /\ Silent(h.queue)
    BY <1>4, <2>2, CallNumbers DEF Awaiting, Silent
  <2>4. left = "no" /\ caller'.position > 0 => ~(caller'.position <= LastAudible(Utterance))
    <3>1. left = "no" => caller'.position \in {0, caller.position + 1}
      BY <1>2, <2>1 DEF Moves
    <3> QED BY SMTT(30), <1>4, <1>8, <1>11, <1>13, <3>1 DEF CallerSet
  <2> QED BY <1>1, <1>2, <1>5, <1>7, <1>12, <2>1, <2>2, <2>3, <2>4 DEF HearInv, Awaiting, Speaking, Utterance
<1>14. CASE ~Stamped /\ caller'.index = caller.index
  <2>1. output' = out
    BY <1>2, <1>4, <1>14 DEF Moves, CallerSet
  <2>2. h.since = history.since /\ output'.stoppedAt = output.stoppedAt
    BY <1>3, <1>5, <1>14, <2>1
  <2>3. ASSUME left = "no", caller'.position > 0, caller'.position <= LastAudible(Utterance)
        PROVE  Undisturbed'
    <3>1. Speaking /\ caller'.position = caller.position + 1
      <4>1. ~(caller'.position = 1 /\ caller'.index = caller.index + 1)
        BY <1>4, <1>14 DEF CallerSet
      <4> QED BY <1>2, <1>4, <2>3, <4>1 DEF Moves, Speaking
    <3>2. caller.position < LastAudible(Utterance) /\ caller.position <= LastAudible(Utterance)
      BY <1>8, <2>3, <3>1
    <3>3. Undisturbed /\ does # "commits"
      BY <1>7, <1>9, <3>1, <3>2
    <3> QED BY <1>1, <1>7, <1>12, <2>2, <3>3 DEF Undisturbed, Awaiting
  <2> QED BY <1>1, <1>2, <1>5, <1>7, <1>12, <1>14, <2>2, <2>3 DEF HearInv, Awaiting, Speaking, Utterance
<1>15. CASE ~Stamped /\ caller'.index # caller.index
  <2>1. /\ left = "no" /\ ~Speaking /\ output' = started
        /\ Answered(OnAudio(does, speech), out) \/ caller'.timeouts = caller.timeouts + 1
    BY <1>2, <1>15 DEF Moves, Stays
  <2>2. Answered(OnAudio(does, speech), out)
    BY <1>7, <2>1
  <2>3. ~Awaiting(output) /\ ~OnAudio(does, speech).busy /\ output.until <= clock
    BY <1>3, <1>12, <1>15, <2>2 DEF Answered, Awaiting, Drained
  <2>4. history.queue = <<>>
    <3>1. Len(history.queue) = 0
      BY <1>4, <1>7, <2>3 DEF HearInv, OutputSet
    <3> QED BY <1>4, <3>1, EmptySeq DEF HistorySet
  <2>5. history.since = Never
    <3>1. ASSUME NEW k \in Nat PROVE ~FirstAt(<<>>, k)
      BY EmptySeq DEF FirstAt
    <3> QED BY <1>7, <2>3, <2>4, <3>1 DEF HearInv
  <2>6. history.noted = <<>> /\ h.since = Never /\ ~Awaiting(output')
    BY <1>3, <1>5, <1>7, <1>15, <2>1, <2>3, <2>5 DEF HearInv, Awaiting
  <2>7. ~agent'.busy
    BY <1>1, <2>3 DEF Hands
  <2>8. Undisturbed'
    BY <1>7, <1>12, <2>4, <2>6, <2>7 DEF Undisturbed, Awaiting
  <2> QED BY <1>2, <1>5, <1>7, <1>12, <2>6, <2>8 DEF HearInv, Awaiting
<1> QED BY <1>13, <1>14, <1>15

LEMMA WindowsJoined ==
    ASSUME NEW a \in Seq(BOOLEAN), NEW b \in Seq(BOOLEAN)
    PROVE  /\ a \o b \in Seq(BOOLEAN) /\ Len(a \o b) = Len(a) + Len(b)
           /\ Len(a) \in Nat /\ Len(b) \in Nat
           /\ \A i \in 1..Len(a) : (a \o b)[i] = a[i]
           /\ \A i \in 1..Len(b) : (a \o b)[Len(a) + i] = b[i]
<1> DEFINE c == a \o b
<1>1. Len(a) \in Nat /\ Len(b) \in Nat
  BY LenProperties
<1>2. /\ c \in Seq(BOOLEAN) /\ Len(c) = Len(a) + Len(b)
      /\ \A i \in 1..(Len(a) + Len(b)) : c[i] = IF i <= Len(a) THEN a[i] ELSE b[i - Len(a)]
  BY ConcatProperties
<1> HIDE DEF c
<1>3. ASSUME NEW i \in 1..Len(a) PROVE c[i] = a[i]
  <2>1. i \in 1..(Len(a) + Len(b)) /\ i <= Len(a)
    BY <1>1
  <2> QED BY <1>2, <2>1
<1>4. ASSUME NEW i \in 1..Len(b) PROVE c[Len(a) + i] = b[i]
  <2>1. Len(a) + i \in 1..(Len(a) + Len(b)) /\ ~(Len(a) + i <= Len(a)) /\ (Len(a) + i) - Len(a) = i
    BY <1>1
  <2> QED BY <1>2, <2>1
<1> QED BY <1>1, <1>2, <1>3, <1>4 DEF c

(* A chunk behind silence is heard where its own first sound is.           *)
LEMMA FirstBehind ==
    ASSUME NEW a \in Seq(BOOLEAN), NEW b \in Seq(BOOLEAN)
    PROVE  /\ \A k \in Nat : FirstAt(a, k) => FirstAt(a \o b, k)
           /\ Silent(a) /\ Silent(b) => Silent(a \o b)
           /\ \A k \in Nat : Silent(a) /\ FirstAt(b, k) => FirstAt(a \o b, Len(a) + k)
<1> DEFINE c == a \o b
<1>1. /\ c \in Seq(BOOLEAN) /\ Len(c) = Len(a) + Len(b) /\ Len(a) \in Nat /\ Len(b) \in Nat
      /\ \A i \in 1..Len(a) : c[i] = a[i]
      /\ \A i \in 1..Len(b) : c[Len(a) + i] = b[i]
  BY WindowsJoined
<1> HIDE DEF c
<1>2. ASSUME NEW k \in Nat, FirstAt(a, k) PROVE FirstAt(c, k)
  <2>1. k \in 1..Len(a) /\ k \in 1..Len(c) /\ \A i \in 1..(k - 1) : i \in 1..Len(a)
    BY <1>1, <1>2 DEF FirstAt
  <2> QED BY <1>1, <1>2, <2>1 DEF FirstAt
<1>3. \A i \in 1..Len(c) : i \in 1..Len(a) \/ (i - Len(a) \in 1..Len(b) /\ Len(a) + (i - Len(a)) = i)
  BY <1>1
<1>4. Silent(a) /\ Silent(b) => Silent(c)
  BY <1>1, <1>3 DEF Silent
<1>5. ASSUME NEW k \in Nat, Silent(a), FirstAt(b, k) PROVE FirstAt(c, Len(a) + k)
  <2>1. k \in 1..Len(b) /\ Len(a) + k \in 1..Len(c) /\ b[k]
    BY <1>1, <1>5 DEF FirstAt
  <2>2. c[Len(a) + k]
    BY <1>1, <2>1
  <2>3. ASSUME NEW i \in 1..((Len(a) + k) - 1) PROVE ~c[i]
    <3>1. i \in 1..Len(a) \/ (i - Len(a) \in 1..(k - 1) /\ i - Len(a) \in 1..Len(b)
                              /\ Len(a) + (i - Len(a)) = i)
      BY <1>1, <2>1
    <3> QED BY <1>1, <1>5, <3>1 DEF Silent, FirstAt
  <2> QED BY <2>1, <2>2, <2>3 DEF FirstAt
<1> QED BY <1>2, <1>4, <1>5 DEF c

(* A window of the speaker is played.                                      *)
LEMMA WindowPlayed ==
    ASSUME NEW s \in Seq(BOOLEAN), s # <<>>
    PROVE  /\ Tail(s) \in Seq(BOOLEAN) /\ Len(s) \in Nat /\ Len(s) >= 1
           /\ Len(Tail(s)) = Len(s) - 1 /\ Head(s) \in BOOLEAN
           /\ Silent(s) => ~Head(s) /\ Silent(Tail(s))
           /\ \A k \in Nat : FirstAt(s, k) =>
                /\ k = 1 => Head(s)
                /\ k # 1 => ~Head(s) /\ FirstAt(Tail(s), k - 1)
<1> DEFINE t == Tail(s)
<1>1. Head(s) \in BOOLEAN /\ t \in Seq(BOOLEAN) /\ Len(t) = Len(s) - 1
      /\ \A i \in 1..Len(t) : t[i] = s[i + 1]
  BY HeadTailProperties
<1>2. Len(s) \in Nat /\ Len(s) # 0 /\ Head(s) = s[1]
  BY EmptySeq, LenProperties
<1> HIDE DEF t
<1>3. Silent(s) => ~Head(s) /\ Silent(t)
  <2>1. 1 \in 1..Len(s) /\ \A i \in 1..Len(t) : i + 1 \in 1..Len(s)
    BY <1>1, <1>2
  <2> QED BY <1>1, <1>2, <2>1 DEF Silent
<1>4. ASSUME NEW k \in Nat, FirstAt(s, k)
      PROVE  (k = 1 => Head(s)) /\ (k # 1 => ~Head(s) /\ FirstAt(t, k - 1))
  <2>1. CASE k = 1
    BY <1>2, <1>4, <2>1 DEF FirstAt
  <2>2. CASE k # 1
    <3>1. k \in 1..Len(s) /\ 1 \in 1..(k - 1) /\ k - 1 \in 1..Len(t) /\ (k - 1) + 1 = k
      BY <1>1, <1>2, <1>4, <2>2 DEF FirstAt
    <3>2. \A i \in 1..((k - 1) - 1) : i \in 1..Len(t) /\ i + 1 \in 1..(k - 1)
      BY <3>1
    <3>3. s[k] /\ ~s[1] /\ \A i \in 1..(k - 1) : ~s[i]
      BY <1>4, <3>1 DEF FirstAt
    <3>4. t[k - 1] /\ \A i \in 1..((k - 1) - 1) : ~t[i]
      BY <1>1, <3>1, <3>2, <3>3
    <3>5. FirstAt(t, k - 1)
      BY <3>1, <3>4, Zenon DEF FirstAt
    <3>6. ~Head(s)
      BY <1>2, <3>3
    <3> QED BY <2>2, <3>5, <3>6
  <2> QED BY <2>1, <2>2
<1>5. Len(s) \in Nat /\ Len(s) >= 1
  BY <1>2
<1> QED BY <1>1, <1>3, <1>4, <1>5, Zenon DEF t

(* write()                                                                 *)
LEMMA WriteFacts ==
    ASSUME CallTypes, NEW chunk \in Seq(BOOLEAN)
    PROVE  /\ Written(output, chunk) \in OutputSet
           /\ Written(output, chunk).until = output.until + Len(chunk) /\ Len(chunk) \in Nat
           /\ Written(output, chunk).unanswered = output.unanswered
           /\ Written(output, chunk).observed =
                output.observed + IF Answers(output, chunk) THEN 1 ELSE 0
           /\ Written(output, chunk).stoppedAt =
                IF Answers(output, chunk) THEN Never ELSE output.stoppedAt
           /\ Answers(output, chunk) =>
                Delay(output, chunk) = (output.until + FirstAudible(chunk)) - output.stoppedAt
                /\ Delay(output, chunk) \in Int
<1>1. output \in OutputSet /\ clock \in Nat /\ output.until >= clock /\ Len(chunk) \in Nat
  BY LenProperties DEF CallTypes
<1>2. Later(output.until, clock) = output.until
  BY <1>1 DEF Later, OutputSet
<1> DEFINE obs == output.observed + IF Answers(output, chunk) THEN 1 ELSE 0
           stop == IF Answers(output, chunk) THEN Never ELSE output.stoppedAt
           til == output.until + Len(chunk)
<1>3. obs \in Nat /\ stop \in Nat \cup {Never} /\ til \in Nat
  BY <1>1 DEF OutputSet
<1>4. obs = IF Answers(output, chunk) THEN output.observed + 1 ELSE output.observed
  BY <1>1 DEF OutputSet
<1>5. Written(output, chunk) = [output EXCEPT !.firstAudio = TRUE, !.observed = obs,
                                              !.stoppedAt = stop, !.until = til]
  BY <1>2, <1>4 DEF Written
<1> HIDE DEF obs, stop, til
<1>6. /\ Written(output, chunk) \in OutputSet /\ Written(output, chunk).until = til
      /\ Written(output, chunk).unanswered = output.unanswered
      /\ Written(output, chunk).observed = obs /\ Written(output, chunk).stoppedAt = stop
  BY <1>1, <1>3, <1>5 DEF OutputSet
<1>7. Answers(output, chunk) =>
        Delay(output, chunk) = (output.until + FirstAudible(chunk)) - output.stoppedAt
        /\ Delay(output, chunk) \in Int
  <2>1. FirstAudible(chunk) \in Int /\ output.stoppedAt \in Int /\ output.until \in Int
    BY <1>1, FirstHeard, CallNumbers DEF OutputSet
  <2> QED BY <1>2, <2>1 DEF Delay, PlaysAt
<1> QED BY <1>1, <1>6, <1>7 DEF obs, stop, til

-----------------------------------------------------------------------------
(***************************************************************************)
(* The call as a whole.                                                    *)
(***************************************************************************)
CallInv == CallTypes /\ PlaceInv /\ CountInv /\ LateInv /\ HearInv

LEMMA WriteKeeps == CallInv /\ WriteChunk => CallInv'
<1> SUFFICES ASSUME CallInv, WriteChunk PROVE CallInv'
  OBVIOUS
<1> USE DEF CallInv
<1>1. PICK chunk \in Chunks :
        /\ output' = Written(output, chunk)
        /\ agent' = [agent EXCEPT !.chunks = @ + 1,
                                  !.writeUntil = Later(clock, output'.until - MaxQueue)]
        /\ history' = Kept([history EXCEPT
                !.queue = @ \o chunk,
                !.noted = IF Answers(output, chunk) THEN Append(@, Delay(output, chunk)) ELSE @])
  BY Zenon DEF WriteChunk
<1>2. /\ agent.phase \in {"live", "finishing"} /\ agent.busy
      /\ clock' = clock /\ script' = script /\ caller' = caller
  BY DEF WriteChunk
<1>3. chunk \in Seq(BOOLEAN)
  BY CallNumbers
<1>4. /\ output' \in OutputSet /\ output'.until = output.until + Len(chunk) /\ Len(chunk) \in Nat
      /\ output'.unanswered = output.unanswered
      /\ output'.observed = output.observed + IF Answers(output, chunk) THEN 1 ELSE 0
      /\ output'.stoppedAt = IF Answers(output, chunk) THEN Never ELSE output.stoppedAt
      /\ Answers(output, chunk) =>
            Delay(output, chunk) = (output.until + FirstAudible(chunk)) - output.stoppedAt
            /\ Delay(output, chunk) \in Int
  BY <1>1, <1>3, WriteFacts
<1>5. /\ output \in OutputSet /\ agent \in AgentSet /\ history \in HistorySet /\ caller \in CallerSet
      /\ clock \in Nat /\ output.until \in Nat /\ output.until >= clock /\ MaxQueue \in Nat
  BY CallNumbers DEF CallTypes, OutputSet
<1>6. /\ agent' \in AgentSet /\ agent'.phase = agent.phase /\ agent'.busy = agent.busy
      /\ agent'.left = agent.left
  <2>1. agent.chunks + 1 \in Nat /\ Later(clock, output'.until - MaxQueue) \in Int
    BY SMTT(30), <1>4, <1>5 DEF AgentSet, OutputSet, Later
  <2> QED BY <1>1, <1>5, <2>1 DEF AgentSet
<1> DEFINE q == history.queue \o chunk
           n == IF Answers(output, chunk) THEN Append(history.noted, Delay(output, chunk))
                ELSE history.noted
           h == [history EXCEPT !.queue = q, !.noted = n]
<1>7. q \in Seq(BOOLEAN) /\ Len(q) = Len(history.queue) + Len(chunk) /\ n \in Seq(Int)
  BY <1>3, <1>4, <1>5, WindowsJoined, AppendProperties DEF HistorySet
<1> HIDE DEF q, n
<1>8. /\ h \in HistorySet /\ h.queue = q /\ h.noted = n /\ h.since = history.since
      /\ (h.loose <=> history.loose) /\ (h.mistimed <=> history.mistimed)
      /\ h.stamps = history.stamps /\ h.lag = history.lag /\ h.lastLag = history.lastLag
  BY <1>5, <1>7 DEF HistorySet
<1>9. history' = Kept(h)
  BY <1>1 DEF q, n
<1> HIDE DEF h
<1>10. /\ history' \in HistorySet /\ history'.stamps = history.stamps /\ history'.lag = history.lag
       /\ history'.lastLag = history.lastLag /\ (history'.loose <=> history.loose)
       /\ (~history.loose => history' = h)
  BY <1>8, <1>9, Histories
<1>11. CallTypes'
  BY <1>2, <1>4, <1>5, <1>6, <1>10 DEF CallTypes
<1>12. PlaceInv'
  BY <1>2, <1>6 DEF PlaceInv
<1>13. /\ Answers(output, chunk) => Awaiting(output) /\ ~Awaiting(output')
       /\ ~Answers(output, chunk) => (Awaiting(output') <=> Awaiting(output))
  BY <1>4 DEF Answers, Awaiting
<1>14. CountInv'
  <2>1. /\ output.observed \in Nat /\ output.unanswered \in Nat /\ history.stamps \in Nat
        /\ caller.timeouts \in Nat
    BY <1>5 DEF OutputSet, HistorySet, CallerSet
  <2>2. output'.observed + (output'.unanswered + IF Awaiting(output') THEN 1 ELSE 0)
          = output.observed + (output.unanswered + IF Awaiting(output) THEN 1 ELSE 0)
    BY <1>4, <1>13, <2>1
  <2>3. EachTurnCountedOnce'
    BY <1>10, <2>2 DEF CountInv, EachTurnCountedOnce, UnansweredTurns, Awaiting
  <2>4. Awaiting(output)' <=> Awaiting(output')
    BY DEF Awaiting
  <2>5. Speaking' <=> Speaking
    BY <1>2 DEF Speaking
  <2> QED BY <1>2, <1>4, <1>6, <1>13, <2>3, <2>4, <2>5 DEF CountInv, Utterance
<1>15. LateInv'
  BY <1>2, <1>6, <1>10 DEF LateInv, LatenessIsSeen
<1>16. HearInv'
  <2> SUFFICES ASSUME ~history.loose PROVE HearInv'
    BY <1>10 DEF HearInv
  <2>1. history' = h
    BY <1>10
  <2>2. ~(agent.phase = "live" /\ Speaking /\ caller.position <= LastAudible(Utterance))
    BY <1>2 DEF HearInv, Undisturbed
  <2>3. ~(agent'.phase = "live" /\ Speaking' /\ caller'.position <= LastAudible(Utterance'))
    BY <1>2, <1>6, <2>2 DEF Speaking, Utterance
  <2>4. history.queue \in Seq(BOOLEAN) /\ Len(history.queue) \in Nat
    BY <1>5, LenProperties DEF HistorySet
  <2>5. ~h.mistimed /\ Len(h.queue) = output'.until - clock'
    BY SMTT(30), <1>2, <1>4, <1>5, <1>7, <1>8, <2>4 DEF HearInv
  <2>6. CASE Answers(output, chunk)
    <3>1. /\ Awaiting(output) /\ ~Awaiting(output')
          /\ history.since = output.stoppedAt /\ Silent(history.queue) /\ history.noted = <<>>
          /\ Len(history.queue) = output.until - clock
      BY <1>13, <2>6 DEF HearInv
    <3> DEFINE f == FirstAudible(chunk)  k == Len(history.queue) + (f + 1)
    <3>2. f \in Nat /\ FirstAt(chunk, f + 1)
      <4>1. /\ f \in Nat /\ f + 1 \in 1..Len(chunk) /\ chunk[f + 1]
            /\ \A i \in 1..f : ~chunk[i]
        BY <1>3, <2>6, FirstHeard DEF Answers
      <4> HIDE DEF f
      <4>2. (f + 1) - 1 = f
        BY <4>1
      <4> QED BY <4>1, <4>2 DEF FirstAt
    <3> HIDE DEF f
    <3>3. k \in Nat /\ f + 1 \in Nat
      <4>1. f \in Nat
        BY <3>2
      <4>2. Len(history.queue) \in Nat
        BY <2>4
      <4>3. \A l, g \in Nat : l + (g + 1) \in Nat /\ g + 1 \in Nat
        OBVIOUS
      <4> QED BY <4>1, <4>2, <4>3
    <3>4. FirstAt(q, k)
      BY <1>3, <2>4, <3>1, <3>2, <3>3, FirstBehind DEF q
    <3>5. n = <<Delay(output, chunk)>>
      BY <2>6, <3>1 DEF n
    <3>6. history.since \in Int /\ output.stoppedAt \in Int
      BY SMTT(30), <1>5, CallNumbers DEF HistorySet, OutputSet
    <3>7. Delay(output, chunk) = (clock + (k - 1)) - history.since
      <4>1. Delay(output, chunk) = (output.until + f) - output.stoppedAt
        BY <1>4, <2>6 DEF f
      <4> QED BY <1>5, <2>4, <3>1, <3>2, <3>6, <4>1
    <3> HIDE DEF k
    <3>8. FirstAt(h.queue, k) /\ h.noted = <<(clock' + (k - 1)) - h.since>>
      BY <1>2, <1>8, <3>4, <3>5, <3>7
    <3>9. h.since # Never
      BY <1>8, <3>1 DEF Awaiting
    <3> QED BY <2>1, <2>3, <2>5, <3>1, <3>3, <3>8, <3>9 DEF HearInv, Awaiting
  <2>7. CASE ~Answers(output, chunk) /\ Awaiting(output)
    <3>1. /\ history.since = output.stoppedAt /\ Silent(history.queue) /\ history.noted = <<>>
      BY <2>7 DEF HearInv
    <3>2. Silent(chunk)
      BY <1>3, <2>7, FirstHeard, CallNumbers DEF Answers, Silent
    <3>3. Silent(q)
      BY <1>3, <2>4, <3>1, <3>2, FirstBehind DEF q
    <3>4. n = <<>> /\ output'.stoppedAt = output.stoppedAt
      BY <1>4, <2>7, <3>1 DEF n
    <3> QED BY <1>8, <2>1, <2>3, <2>5, <2>7, <3>1, <3>3, <3>4 DEF HearInv, Awaiting
  <2>8. CASE ~Awaiting(output)
    <3>1. ~Answers(output, chunk) /\ ~Awaiting(output') /\ n = history.noted
      BY <1>13, <2>8 DEF Answers, n
    <3>2. ASSUME history.since # Never
          PROVE  \E k \in Nat : FirstAt(h.queue, k) /\ h.noted = <<(clock' + (k - 1)) - h.since>>
      <4>1. PICK k \in Nat : /\ FirstAt(history.queue, k)
                             /\ history.noted = <<(clock + (k - 1)) - history.since>>
        BY <2>8, <3>2 DEF HearInv
      <4>2. FirstAt(q, k)
        BY <1>3, <2>4, <4>1, FirstBehind DEF q
      <4> QED BY <1>2, <1>8, <3>1, <4>1, <4>2
    <3>3. history.since = Never => h.noted = <<>>
      BY <1>8, <2>8, <3>1 DEF HearInv
    <3> QED BY <1>8, <2>1, <2>3, <2>5, <3>1, <3>2, <3>3 DEF HearInv, Awaiting
  <2> QED BY <2>6, <2>7, <2>8
<1> QED BY <1>11, <1>12, <1>14, <1>15, <1>16

LEMMA AgentKeeps == CallInv /\ (ConcludeTurn \/ EndSession) => CallInv'
<1> SUFFICES ASSUME CallInv, ConcludeTurn \/ EndSession PROVE CallInv'
  OBVIOUS
<1> USE DEF CallInv
<1>1. UNCHANGED <<clock, script, caller, output, history>> /\ agent \in AgentSet
      /\ clock \in Nat /\ output.until \in Nat /\ Grace \in Nat
  BY CallNumbers DEF ConcludeTurn, EndSession, CallTypes, OutputSet
<1>2. /\ agent' \in AgentSet /\ agent'.left = agent.left
      /\ (agent'.phase = "live" => agent.phase = "live") /\ (agent'.busy => agent.busy)
  <2>1. CASE EndSession
    <3>1. (IF agent.error THEN "failed" ELSE "completed") \in {"failed", "completed"}
      OBVIOUS
    <3> QED BY <1>1, <2>1, <3>1 DEF EndSession, AgentSet
  <2>2. CASE agent' = [agent EXCEPT !.busy = FALSE] \/ agent' = [agent EXCEPT !.busy = FALSE, !.error = TRUE]
    BY <1>1, <2>2 DEF AgentSet
  <2>3. CASE agent' = [agent EXCEPT !.busy = FALSE, !.hangUp = Later(clock, output.until) + Grace]
    <3>1. Later(clock, output.until) + Grace \in Int
      BY <1>1 DEF Later
    <3> QED BY <1>1, <2>3, <3>1 DEF AgentSet
  <2> QED BY <2>1, <2>2, <2>3 DEF ConcludeTurn
<1>3. CallTypes' /\ PlaceInv'
  BY <1>1, <1>2 DEF CallTypes, PlaceInv
<1>4. Speaking' = Speaking /\ Utterance' = Utterance /\ Awaiting(output)' = Awaiting(output)
  BY <1>1 DEF Speaking, Utterance, Awaiting
<1>5. CountInv'
  BY <1>1, <1>2, <1>4 DEF CountInv, EachTurnCountedOnce, UnansweredTurns
<1>6. LateInv'
  BY <1>1, <1>2 DEF LateInv, LatenessIsSeen
<1>7. HearInv'
  BY <1>1, <1>2, <1>4 DEF HearInv, Undisturbed
<1> QED BY <1>3, <1>5, <1>6, <1>7

LEMMA TickKeeps == CallInv /\ TickEarly => CallInv'
<1> SUFFICES ASSUME CallInv, TickEarly PROVE CallInv'
  OBVIOUS
<1> USE DEF CallInv
<1>1. /\ agent.phase = "live" /\ caller.step = "ask" /\ caller.due > clock
      /\ caller' = [caller EXCEPT !.step = "sleep"]
      /\ UNCHANGED <<clock, script, output, agent, history>>
  BY DEF TickEarly, InTick
<1>2. caller \in CallerSet /\ history \in HistorySet /\ clock \in Nat /\ Frame \in Nat
  BY CallNumbers DEF CallTypes
<1>3. /\ caller' \in CallerSet /\ caller'.index = caller.index /\ caller'.position = caller.position
      /\ caller'.timeouts = caller.timeouts /\ caller'.lateness = caller.lateness
  BY <1>1, <1>2 DEF CallerSet
<1>4. CallTypes' /\ PlaceInv'
  BY <1>1, <1>3 DEF CallTypes, PlaceInv
<1>5. Speaking' = Speaking /\ Utterance' = Utterance /\ Awaiting(output)' = Awaiting(output)
  BY <1>1, <1>3 DEF Speaking, Utterance, Awaiting
<1>6. CountInv'
  BY <1>1, <1>3, <1>5 DEF CountInv, EachTurnCountedOnce, UnansweredTurns
<1>7. \/ history.lastLag < Frame
      \/ caller.lateness # Never /\ history.lastLag <= caller.lateness + Frame
  <2>1. caller.due \in Nat /\ history.lastLag \in Int
    BY <1>2 DEF CallerSet, HistorySet
  <2> QED BY <1>1, <1>2, <2>1 DEF LateInv
<1>8. LateInv'
  BY <1>1, <1>3, <1>7 DEF LateInv, LatenessIsSeen
<1>9. HearInv'
  BY <1>1, <1>3, <1>5 DEF HearInv, Undisturbed
<1> QED BY <1>4, <1>6, <1>8, <1>9

LEMMA FrameKeeps ==
    CallInv /\ (TickLate \/ Wake) => CallInv' /\ agent.phase # "none" /\ agent'.phase # "none"
<1> SUFFICES ASSUME CallInv, TickLate \/ Wake
             PROVE  CallInv' /\ agent.phase # "none" /\ agent'.phase # "none"
  OBVIOUS
<1> USE DEF CallInv
<1> DEFINE Ready(next) ==
      /\ next \in CallerSet /\ next.index = caller.index /\ next.position = caller.position
      /\ next.timeouts = caller.timeouts /\ next.due = caller.due
      /\ \/ caller.step = "ask" /\ next.lateness = Later(caller.lateness, clock - caller.due)
         \/ caller.step = "sleep" /\ next.lateness = caller.lateness
<1>1. caller \in CallerSet /\ clock \in Nat
  BY DEF CallTypes
<1>2. \E next : HandOver(next) /\ Ready(next)
  <2>1. CASE Wake
    BY <1>1, <2>1 DEF Wake, InTick
  <2>2. CASE TickLate
    <3> DEFINE l == Later(caller.lateness, clock - caller.due)
    <3>1. l \in Int
      BY <1>1 DEF Later, CallerSet
    <3> HIDE DEF l
    <3>2. Ready([caller EXCEPT !.lateness = l])
      <4>1. caller.step = "ask"
        BY <2>2 DEF TickLate, InTick
      <4> QED BY <1>1, <3>1, <4>1 DEF CallerSet, l
    <3>3. HandOver([caller EXCEPT !.lateness = l])
      BY <2>2 DEF TickLate, l
    <3> QED BY <3>2, <3>3, Zenon
  <2> QED BY <2>1, <2>2
<1>3. PICK next : HandOver(next) /\ Ready(next)
  BY <1>2, Zenon
<1>4. PICK does, speech, w, left : Hands(next, does, speech, w, left)
  BY <1>3, HandedOver, Zenon
<1>5. agent.phase = "live" /\ caller.due <= clock
  BY DEF TickLate, Wake, InTick
<1>6. CallTypes' /\ PlaceInv' /\ agent.phase # "none" /\ agent'.phase # "none"
  BY <1>3, <1>4, <1>5, HandTypes
<1>7. CountInv'
  BY <1>3, <1>4, <1>5, HandCounts
<1>8. LateInv'
  BY <1>3, <1>4, <1>5, HandLate
<1>9. HearInv'
  BY <1>3, <1>4, <1>5, HandHears
<1> QED BY <1>6, <1>7, <1>8, <1>9

LEMMA PassKeeps == CallInv /\ Pass => CallInv'
<1> SUFFICES ASSUME CallInv, Pass PROVE CallInv'
  OBVIOUS
<1> USE DEF CallInv
<1> DEFINE sounds == Head(history.queue) /\ history.since # Never
           heard == [history EXCEPT
                !.queue = Tail(@),
                !.since = IF sounds THEN Never ELSE @,
                !.mistimed = @ \/ (sounds /\ ~IsPrefix(<<clock - history.since>>, history.noted)),
                !.noted = IF sounds THEN SubSeq(@, 2, Len(@)) ELSE @]
<1>1. /\ clock' = clock + 1 /\ output' = [output EXCEPT !.until = Later(@, clock')]
      /\ agent' = [agent EXCEPT !.writeUntil = Later(@, clock')]
      /\ UNCHANGED <<script, caller>>
      /\ history' = IF history.queue = <<>> THEN history ELSE heard
  BY DEF Pass
<1> HIDE DEF sounds, heard
<1>2. /\ output \in OutputSet /\ agent \in AgentSet /\ history \in HistorySet /\ caller \in CallerSet
      /\ clock \in Nat /\ output.until \in Nat /\ output.until >= clock
      /\ history.queue \in Seq(BOOLEAN) /\ history.noted \in Seq(Int)
      /\ history.since \in Int /\ Never = -1
  BY CallNumbers DEF CallTypes, OutputSet, HistorySet
<1>3. /\ output' \in OutputSet /\ output'.until = Later(output.until, clock + 1)
      /\ output'.stoppedAt = output.stoppedAt /\ output'.observed = output.observed
      /\ output'.unanswered = output.unanswered
      /\ output'.until >= clock'
  <2>1. Later(output.until, clock + 1) \in Nat /\ Later(output.until, clock + 1) >= clock + 1
    BY <1>2 DEF Later
  <2> QED BY <1>1, <1>2, <2>1 DEF OutputSet
<1>4. /\ agent' \in AgentSet /\ agent'.phase = agent.phase /\ agent'.busy = agent.busy
      /\ agent'.left = agent.left
  <2>1. Later(agent.writeUntil, clock + 1) \in Int
    BY <1>2 DEF Later, AgentSet
  <2> QED BY <1>1, <1>2, <2>1 DEF AgentSet
<1>5. history.queue # <<>> =>
        /\ Tail(history.queue) \in Seq(BOOLEAN) /\ Len(history.queue) \in Nat
        /\ Len(Tail(history.queue)) = Len(history.queue) - 1 /\ Head(history.queue) \in BOOLEAN
        /\ Silent(history.queue) => ~Head(history.queue) /\ Silent(Tail(history.queue))
        /\ \A k \in Nat : FirstAt(history.queue, k) =>
             /\ k = 1 => Head(history.queue)
             /\ k # 1 => ~Head(history.queue) /\ FirstAt(Tail(history.queue), k - 1)
  BY <1>2, WindowPlayed
<1>6. history.queue # <<>> =>
        /\ heard \in HistorySet /\ heard.stamps = history.stamps /\ heard.lag = history.lag
        /\ heard.lastLag = history.lastLag /\ (heard.loose <=> history.loose)
        /\ heard.queue = Tail(history.queue)
        /\ heard.since = (IF sounds THEN Never ELSE history.since)
        /\ (heard.mistimed <=>
              (history.mistimed \/ (sounds /\ ~IsPrefix(<<clock - history.since>>, history.noted))))
        /\ heard.noted = (IF sounds THEN SubSeq(history.noted, 2, Len(history.noted))
                          ELSE history.noted)
  <2> SUFFICES ASSUME history.queue # <<>>
               PROVE  /\ heard \in HistorySet /\ heard.stamps = history.stamps
                      /\ heard.lag = history.lag /\ heard.lastLag = history.lastLag
                      /\ (heard.loose <=> history.loose) /\ heard.queue = Tail(history.queue)
                      /\ heard.since = (IF sounds THEN Never ELSE history.since)
                      /\ (heard.mistimed <=>
                           (history.mistimed
                             \/ (sounds /\ ~IsPrefix(<<clock - history.since>>, history.noted))))
                      /\ heard.noted = (IF sounds THEN SubSeq(history.noted, 2, Len(history.noted))
                                        ELSE history.noted)
    OBVIOUS
  <2> DEFINE s == IF sounds THEN Never ELSE history.since
             m == history.mistimed
                    \/ (sounds /\ ~IsPrefix(<<clock - history.since>>, history.noted))
             n == IF sounds THEN SubSeq(history.noted, 2, Len(history.noted)) ELSE history.noted
             t == Tail(history.queue)
  <2>1. s \in Nat \cup {Never} /\ m \in BOOLEAN /\ t \in Seq(BOOLEAN)
    BY <1>2, <1>5 DEF HistorySet
  <2>2. n \in Seq(Int)
    <3>1. Len(history.noted) \in Nat
      BY <1>2, LenProperties
    <3>2. \A i \in 2..Len(history.noted) : history.noted[i] \in Int
      BY <1>2, <3>1, ElementOfSeq
    <3>3. SubSeq(history.noted, 2, Len(history.noted)) \in Seq(Int)
      BY <1>2, <3>1, <3>2, SubSeqProperties
    <3> QED BY <1>2, <3>3
  <2>3. heard = [history EXCEPT !.queue = t, !.since = s, !.mistimed = m, !.noted = n]
    BY <1>2 DEF heard
  <2> HIDE DEF s, m, n, t
  <2>4. /\ heard \in HistorySet /\ heard.stamps = history.stamps
        /\ heard.lag = history.lag /\ heard.lastLag = history.lastLag
        /\ (heard.loose <=> history.loose) /\ heard.queue = t
        /\ heard.since = s /\ (heard.mistimed <=> m) /\ heard.noted = n
    BY <1>2, <2>1, <2>2, <2>3 DEF HistorySet
  <2> QED BY <2>4 DEF s, m, n, t
<1>7. /\ history' \in HistorySet /\ history'.stamps = history.stamps /\ history'.lag = history.lag
      /\ history'.lastLag = history.lastLag /\ (history'.loose <=> history.loose)
  BY <1>1, <1>2, <1>6
<1>8. CallTypes' /\ PlaceInv'
  <2>1. clock' \in Nat
    BY <1>1, <1>2
  <2> QED BY <1>1, <1>3, <1>4, <1>7, <2>1 DEF CallTypes, PlaceInv
<1>9. (Speaking' <=> Speaking) /\ Utterance' = Utterance /\ (Awaiting(output') <=> Awaiting(output))
  BY <1>1, <1>3 DEF Speaking, Utterance, Awaiting
<1>10. CountInv'
  BY <1>1, <1>3, <1>4, <1>7, <1>9 DEF CountInv, EachTurnCountedOnce, UnansweredTurns, Awaiting
<1>11. LateInv'
  <2>1. history.lastLag <= (clock - caller.due) + Frame => history.lastLag <= (clock' - caller.due) + Frame
    <3>1. history.lastLag \in Int /\ caller.due \in Nat /\ Frame \in Nat
      BY <1>2, CallNumbers DEF HistorySet, CallerSet
    <3> QED BY <1>1, <1>2, <3>1
  <2>2. LatenessIsSeen'
    BY <1>1, <1>7 DEF LateInv, LatenessIsSeen
  <2> QED BY <1>1, <1>4, <1>7, <2>1, <2>2 DEF LateInv
<1>12. HearInv'
  <2> SUFFICES ASSUME ~history.loose PROVE HearInv'
    BY <1>7 DEF HearInv
  <2>1. /\ agent'.phase = "live" /\ Speaking' /\ caller'.position <= LastAudible(Utterance')
           => Undisturbed /\ agent.phase = "live" /\ history.queue = <<>>
    BY <1>1, <1>4, <1>9 DEF HearInv, Undisturbed, Speaking, Utterance
  <2>2. Undisturbed /\ history.queue = <<>> => Undisturbed'
    BY <1>1, <1>4, <1>9 DEF Undisturbed, Awaiting
  <2>3. /\ agent'.phase = "live" /\ Speaking' /\ caller'.position <= LastAudible(Utterance')
           => Undisturbed'
    BY <2>1, <2>2
  <2>4. ~history.mistimed /\ Len(history.queue) = output.until - clock /\ Len(history.queue) \in Nat
    BY <1>2, LenProperties DEF HearInv
  <2>5. CASE history.queue = <<>>
    <3>1. Len(history.queue) = 0 /\ output'.until = clock'
      BY <1>1, <1>2, <1>3, <2>4, <2>5, EmptySeq DEF Later
    <3>2. history' = history
      BY <1>1, <2>5
    <3>3. ASSUME NEW k \in Nat PROVE ~FirstAt(history.queue, k)
      BY <3>1 DEF FirstAt
    <3>4. Len(history'.queue) = output'.until - clock'
      BY <1>1, <1>2, <3>1, <3>2
    <3>5. ~Awaiting(output) /\ history.since # Never => FALSE
      BY <3>3 DEF HearInv
    <3> QED BY <1>3, <1>9, <2>3, <2>4, <3>2, <3>4, <3>5 DEF HearInv, Awaiting
  <2>6. CASE history.queue # <<>>
    <3>1. history' = heard /\ Len(history.queue) # 0
      BY <1>1, <1>2, <2>6, EmptySeq
    <3>2. output'.until = output.until
      BY <1>2, <1>3, <2>4, <3>1 DEF Later
    <3>3. Len(history'.queue) = output'.until - clock'
      <4>1. history'.queue = Tail(history.queue)
            /\ Len(Tail(history.queue)) = Len(history.queue) - 1
        BY <1>5, <1>6, <2>6, <3>1
      <4>2. (output.until - clock) - 1 = output.until - (clock + 1)
        BY <1>2
      <4> QED BY <1>1, <2>4, <3>2, <4>1, <4>2
    <3>4. ~(agent'.phase = "live" /\ Speaking' /\ caller'.position <= LastAudible(Utterance'))
      BY <2>1, <2>6
    <3>5. CASE Awaiting(output)
      <4>1. history.since = output.stoppedAt /\ Silent(history.queue) /\ history.noted = <<>>
        BY <3>5 DEF HearInv
      <4>2. ~sounds /\ Silent(Tail(history.queue))
        BY <1>5, <2>6, <4>1 DEF sounds
      <4> QED BY <1>3, <1>6, <1>9, <2>4, <2>6, <3>1, <3>3, <3>4, <3>5, <4>1, <4>2 DEF HearInv, Awaiting
    <3>6. CASE ~Awaiting(output) /\ history.since = Never
      <4>1. ~sounds /\ history.noted = <<>>
        BY <3>6 DEF sounds, HearInv
      <4> QED BY <1>3, <1>6, <1>9, <2>4, <2>6, <3>1, <3>3, <3>4, <3>6, <4>1 DEF HearInv, Awaiting
    <3>7. CASE ~Awaiting(output) /\ history.since # Never
      <4>1. PICK k \in Nat : /\ FirstAt(history.queue, k)
                             /\ history.noted = <<(clock + (k - 1)) - history.since>>
        BY <3>7 DEF HearInv
      <4>2. CASE k = 1
        <5>1. sounds
          BY <1>5, <2>6, <3>7, <4>1, <4>2 DEF sounds
        <5> DEFINE d == clock - history.since
        <5>2. history.noted = <<d>> /\ d \in Int
          <6>1. (clock + (k - 1)) - history.since = d
            BY <1>2, <4>2
          <6> QED BY <1>2, <4>1, <6>1
        <5> HIDE DEF d
        <5>3. Len(<<d>>) = 1 /\ SubSeq(<<d>>, 2, 1) = <<>>
          BY <5>2
        <5>4. IsPrefix(<<d>>, history.noted)
          BY <5>2 DEF IsPrefix
        <5>5. history'.since = Never /\ history'.noted = <<>> /\ ~history'.mistimed
          BY <1>6, <2>4, <2>6, <3>1, <5>1, <5>2, <5>3, <5>4 DEF d
        <5> QED BY <1>9, <3>3, <3>4, <3>7, <5>5 DEF HearInv, Awaiting
      <4>3. CASE k # 1
        <5>1. ~Head(history.queue) /\ FirstAt(Tail(history.queue), k - 1)
          BY <1>5, <2>6, <4>1, <4>3
        <5>2. ~sounds
          BY <5>1 DEF sounds
        <5>3. /\ history'.since = history.since /\ history'.noted = history.noted
              /\ ~history'.mistimed /\ history'.queue = Tail(history.queue)
          BY <1>6, <2>4, <2>6, <3>1, <5>2
        <5>4. k - 1 \in Nat
          <6>1. k \in 1..Len(history.queue)
            BY <4>1 DEF FirstAt
          <6> QED BY <2>4, <4>3, <6>1
        <5>5. (clock + (k - 1)) - history.since = (clock' + ((k - 1) - 1)) - history'.since
          BY <1>1, <1>2, <5>3, <5>4
        <5>6. \E j \in Nat : /\ FirstAt(history'.queue, j)
                             /\ history'.noted = <<(clock' + (j - 1)) - history'.since>>
          <6>1. history'.noted = <<(clock' + ((k - 1) - 1)) - history'.since>>
            BY <4>1, <5>3, <5>5
          <6> QED BY <5>1, <5>3, <5>4, <6>1
        <5> QED BY <1>9, <3>3, <3>4, <3>7, <5>3, <5>6 DEF HearInv, Awaiting
      <4> QED BY <4>2, <4>3
    <3> QED BY <3>5, <3>6, <3>7
  <2> QED BY <2>5, <2>6
<1> QED BY <1>8, <1>10, <1>11, <1>12

(* The state in which a call begins, or none is watched.                   *)
AtRest ==
    /\ clock = 0 /\ script \in Seq(Seq(BOOLEAN) \ {<<>>})
    /\ caller = NewCaller(0) /\ output = NewOutput(0)
    /\ agent \in {NewAgent(0), [NewAgent(0) EXCEPT !.phase = "none"]} /\ history = NewHistory

LEMMA Waits == AtRest => CallInv
<1> SUFFICES ASSUME AtRest PROVE CallInv
  OBVIOUS
<1> USE DEF AtRest
<1>1. /\ caller = [index |-> 0, position |-> 0, step |-> "ask", due |-> 0,
                    deadline |-> ReplyTimeout, timeouts |-> 0, lateness |-> Never]
      /\ ReplyTimeout \in Nat /\ Frame \in Nat /\ Frame > 0 /\ Never = -1
      /\ Never \in Int
  BY CallNumbers DEF NewCaller
<1>2. output = [until |-> 0, firstAudio |-> FALSE, stoppedAt |-> Never, unanswered |-> 0,
                 observed |-> 0]
  BY DEF NewOutput
<1>3. PICK p \in {"none", "live"} :
      agent = [phase |-> p, busy |-> TRUE, chunks |-> 0, writeUntil |-> 0, listening |-> FALSE,
                hangUp |-> Never, left |-> "no", error |-> FALSE]
  BY DEF NewAgent
<1>4. history = [stamps |-> 0, lag |-> 0, lastLag |-> 0, loose |-> FALSE, queue |-> <<>>,
                  since |-> Never, noted |-> <<>>, mistimed |-> FALSE]
  BY DEF NewHistory
<1>5. caller \in CallerSet /\ output \in OutputSet
  <2>1. caller \in CallerSet
    BY <1>1 DEF CallerSet
  <2>2. output \in OutputSet
    <3>1. FALSE \in BOOLEAN /\ 0 \in Nat /\ Never \in Nat \cup {Never}
      OBVIOUS
    <3>2. \A s \in Nat \cup {Never} :
            [until |-> 0, firstAudio |-> FALSE, stoppedAt |-> s, unanswered |-> 0, observed |-> 0]
              \in OutputSet
      BY <3>1 DEF OutputSet
    <3> QED BY <1>2, <3>1, <3>2
  <2> QED BY <2>1, <2>2
<1>6. agent \in AgentSet
  BY <1>1, <1>3 DEF AgentSet
<1>7. history \in HistorySet
  <2>1. <<>> \in Seq(BOOLEAN) /\ <<>> \in Seq(Int)
    BY EmptySeq
  <2> QED BY <1>1, <1>4, <2>1 DEF HistorySet
<1>8. CallTypes
  BY <1>2, <1>5, <1>6, <1>7 DEF CallTypes
<1>9. PlaceInv
  <2>1. Len(script) \in Nat
    BY LenProperties
  <2> QED BY <1>1, <2>1 DEF PlaceInv
<1>10. ~Awaiting(output) /\ ~Speaking
  BY <1>1, <1>2 DEF Awaiting, Speaking
<1>11. CountInv
  BY <1>1, <1>2, <1>3, <1>4, <1>10 DEF CountInv, EachTurnCountedOnce, UnansweredTurns, Awaiting
<1>12. LateInv
  BY <1>1, <1>4 DEF LateInv, LatenessIsSeen
<1>13. HearInv
  <2>1. Len(history.queue) = output.until - clock
    BY <1>2, <1>4, EmptySeq
  <2> QED BY <1>4, <1>10, <2>1 DEF HearInv, Awaiting
<1> QED BY <1>8, <1>9, <1>11, <1>12, <1>13 DEF CallInv

LEMMA WaitsAgain == AtRest' => CallInv'
BY Waits, PTL

LEMMA CallKeeps == CallInv /\ CallNext => CallInv'
<1> SUFFICES ASSUME CallInv, CallNext PROVE CallInv'
  OBVIOUS
<1>1. CASE StartsCalling
  <2>1. script' \in Seq(Seq(BOOLEAN) \ {<<>>})
    BY <1>1, CallNumbers DEF StartsCalling
  <2> QED BY <1>1, <2>1, WaitsAgain DEF StartsCalling, AtRest
<1>2. CASE NoCallAgain
  <2>1. script' \in Seq(Seq(BOOLEAN) \ {<<>>})
    BY <1>2, EmptySeq DEF NoCallAgain
  <2> QED BY <1>2, <2>1, WaitsAgain DEF NoCallAgain, AtRest
<1>3. CASE CallStep
  BY <1>3, WriteKeeps, AgentKeeps, TickKeeps, FrameKeeps, PassKeeps, Zenon DEF CallStep, CallerStep
<1>4. CASE UNCHANGED callVars
  BY <1>4 DEF callVars, CallInv, CallTypes, PlaceInv, CountInv, LateInv, HearInv, EachTurnCountedOnce,
              UnansweredTurns, Awaiting, Speaking, Utterance, LatenessIsSeen, Undisturbed
<1> QED BY <1>1, <1>2, <1>3, <1>4, Zenon DEF CallNext

LEMMA CallPhases == CallInv /\ CallStep => agent.phase # "none" /\ agent'.phase # "none"
<1> SUFFICES ASSUME CallInv, CallStep PROVE agent.phase # "none" /\ agent'.phase # "none"
  OBVIOUS
<1>1. agent \in AgentSet
  BY DEF CallInv, CallTypes
<1>2. CASE WriteChunk
  BY <1>1, <1>2 DEF WriteChunk, AgentSet
<1>3. CASE ConcludeTurn
  BY <1>1, <1>3 DEF ConcludeTurn, AgentSet
<1>4. CASE EndSession
  BY <1>1, <1>4 DEF EndSession, AgentSet
<1>5. CASE Pass
  BY <1>1, <1>5 DEF Pass, AgentSet
<1>6. CASE TickEarly
  BY <1>6 DEF TickEarly, InTick
<1>7. CASE TickLate \/ Wake
  BY <1>7, FrameKeeps
<1> QED BY <1>2, <1>3, <1>4, <1>5, <1>6, <1>7 DEF CallStep, CallerStep

-----------------------------------------------------------------------------
(***************************************************************************)
(* The sweep: callers are within the level, each call holds one slot and   *)
(* is counted once.                                                        *)
(***************************************************************************)
Busy == {c \in Callers : doing[c] \in {"watched", "calling"}}

Size == IF at = 0 THEN 0 ELSE Planned[at]

SweepTypes ==
    /\ phase \in {"budget", "between", "level", "done", "aborted"}
    /\ doing \in [Callers -> {"looping", "starting", "watched", "calling", "done"}]
    /\ at \in 0..Len(Planned)
    /\ kind \in {"api", "selfhosted"}

PlacesInv ==
    /\ phase \in {"budget", "between", "done"} => \A c \in Callers : doing[c] = "done"
    /\ \A c \in Callers : doing[c] # "done" => c <= Size
    /\ active = Cardinality(Busy)

WatchInv ==
    /\ \A c \in Callers : doing[c] = "watched" => Size = 1
    /\ agent.phase = "none" <=> \A c \in Callers : doing[c] # "watched"

ResultFields ==
    {"started", "stamps", "completed", "failed", "refused", "overfull", "timeouts", "observed",
     "unanswered", "endToEnd", "perceived"}

TallyInv ==
    /\ DOMAIN result = ResultFields
    /\ {result.started, result.stamps, result.completed, result.failed, result.observed,
        result.unanswered} \subseteq Nat
    /\ result.started = (result.completed + result.failed) + active
    /\ result.observed + result.unanswered = result.stamps

SweepInv == SweepTypes /\ PlacesInv /\ WatchInv /\ TallyInv

LEMMA Plan ==
    /\ Planned \in Seq(Nat) /\ Len(Planned) \in Nat
    /\ at \in 0..Len(Planned) => Size \in Nat
<1>1. Levels \in Seq(Nat) /\ Beyond \in Seq(Nat)
  BY SweepAssumption
<1>2. Planned \in Seq(Nat)
  BY <1>1, ConcatProperties DEF Planned
<1>3. Len(Planned) \in Nat
  BY <1>2, LenProperties
<1>4. ASSUME at \in 0..Len(Planned) PROVE Size \in Nat
  <2>1. CASE at = 0
    BY <2>1 DEF Size
  <2>2. CASE at # 0
    <3>1. at \in 1..Len(Planned)
      BY <1>3, <1>4, <2>2
    <3>2. Planned[at] \in Nat
      BY <1>2, <3>1, ElementOfSeq
    <3> QED BY <2>2, <3>2 DEF Size
  <2> QED BY <2>1, <2>2
<1> QED BY <1>2, <1>3, <1>4

(* The callers in a call are no more than the level has.                   *)
LEMMA BusyCallers ==
    ASSUME SweepTypes, \A c \in Callers : doing[c] # "done" => c <= Size
    PROVE  /\ IsFiniteSet(Busy) /\ Cardinality(Busy) \in 0..Size
           /\ \A c \in Callers : doing[c] \in {"looping", "starting"} => Cardinality(Busy) < Size
<1>1. Size \in Nat
  BY Plan DEF SweepTypes
<1>2. Busy \subseteq 1..Size
  <2> SUFFICES ASSUME NEW c \in Busy PROVE c \in 1..Size
    OBVIOUS
  <2>1. c \in Callers /\ doing[c] # "done"
    BY DEF Busy
  <2>2. c <= Size /\ c \in Int /\ c >= 1
    BY <2>1 DEF Callers
  <2> QED BY <1>1, <2>2
<1>3. IsFiniteSet(1..Size) /\ Cardinality(1..Size) = Size
  <2>1. 1 \in Int /\ Size \in Int
    BY <1>1
  <2>2. IsFiniteSet(1..Size) /\ Cardinality(1..Size) = IF 1 > Size THEN 0 ELSE Size - 1 + 1
    BY <2>1, FS_Interval, Zenon
  <2> QED BY <1>1, <2>2
<1>4. IsFiniteSet(Busy) /\ Cardinality(Busy) <= Size
  BY <1>2, <1>3, FS_Subset
<1>5. Cardinality(Busy) \in Nat
  BY <1>4, FS_CardinalityType
<1>6. ASSUME NEW c \in Callers, doing[c] \in {"looping", "starting"} PROVE Cardinality(Busy) < Size
  <2>1. c <= Size /\ c \in Int /\ c >= 1 /\ c \notin Busy
    BY <1>6 DEF Callers, Busy
  <2>2. c \in 1..Size
    BY <1>1, <2>1
  <2>3. Cardinality(Busy) # Size
    BY <1>2, <1>3, <2>1, <2>2, FS_Subset
  <2> QED BY <1>1, <1>4, <1>5, <2>3
<1> QED BY <1>1, <1>4, <1>5, <1>6

(* One caller goes on to another place in its loop.                        *)
Holds(place) == IF place \in {"watched", "calling"} THEN 1 ELSE 0

LEMMA OneMoves ==
    ASSUME SweepTypes, PlacesInv, phase = "level", NEW c \in Callers, doing[c] # "done",
           NEW v \in {"looping", "starting", "watched", "calling", "done"},
           doing' = [doing EXCEPT ![c] = v], UNCHANGED sweepVars,
           active' = (active + Holds(v)) - Holds(doing[c])
    PROVE  /\ SweepTypes' /\ PlacesInv' /\ Size' = Size
           /\ \A d \in Callers : doing'[d] = IF d = c THEN v ELSE doing[d]
<1>1. /\ phase' = phase /\ at' = at /\ kind' = kind /\ Planned' = Planned /\ Size' = Size
  BY DEF sweepVars, Planned, Size
<1>2. /\ doing' \in [Callers -> {"looping", "starting", "watched", "calling", "done"}]
      /\ \A d \in Callers : doing'[d] = IF d = c THEN v ELSE doing[d]
  BY DEF SweepTypes
<1>3. SweepTypes'
  BY <1>1, <1>2 DEF SweepTypes
<1>4. \A d \in Callers : doing'[d] # "done" => d <= Size'
  BY <1>1, <1>2 DEF PlacesInv
<1>5. IsFiniteSet(Busy) /\ active = Cardinality(Busy) /\ Cardinality(Busy) \in Int
  <2>1. IsFiniteSet(Busy) /\ Cardinality(Busy) \in 0..Size
    BY BusyCallers DEF PlacesInv
  <2>2. Cardinality(Busy) \in Nat
    BY <2>1, FS_CardinalityType
  <2> QED BY <2>1, <2>2 DEF PlacesInv
<1>6. active' = Cardinality(Busy')
  <2>1. CASE v \in {"watched", "calling"}
    <3>1. Busy' = Busy \cup {c}
      BY <1>2, <2>1 DEF Busy
    <3>2. Cardinality(Busy') = IF c \in Busy THEN Cardinality(Busy) ELSE Cardinality(Busy) + 1
      BY <1>5, <3>1, FS_AddElement
    <3>3. c \in Busy <=> doing[c] \in {"watched", "calling"}
      BY DEF Busy
    <3> QED BY <1>5, <2>1, <3>2, <3>3 DEF Holds
  <2>2. CASE v \notin {"watched", "calling"}
    <3>1. Busy' = Busy \ {c}
      BY <1>2, <2>2 DEF Busy
    <3>2. Cardinality(Busy') = IF c \in Busy THEN Cardinality(Busy) - 1 ELSE Cardinality(Busy)
      BY <1>5, <3>1, FS_RemoveElement
    <3>3. c \in Busy <=> doing[c] \in {"watched", "calling"}
      BY DEF Busy
    <3> QED BY <1>5, <2>2, <3>2, <3>3 DEF Holds
  <2> QED BY <2>1, <2>2
<1> QED BY <1>1, <1>2, <1>3, <1>4, <1>6 DEF PlacesInv

LEMMA LoopKeeps ==
    ASSUME SweepInv, NEW c \in Callers, Loop(c) \/ StartRefused(c) PROVE SweepInv'
<1> USE DEF SweepInv
<1> DEFINE v == IF Loop(c) THEN IF past THEN "done" ELSE "starting"
                ELSE IF kind = "api" THEN "done" ELSE "looping"
<1>1. /\ phase = "level" /\ doing[c] \in {"looping", "starting"} /\ UNCHANGED sweepVars
      /\ doing' = [doing EXCEPT ![c] = v] /\ active' = active /\ UNCHANGED callVars
      /\ \/ result' = result
         \/ result' = [result EXCEPT !.refused = @ + 1,
                                     !.overfull = IF kind = "api" THEN @ ELSE @ + 1]
  BY DEF Loop, StartRefused
<1>2. v \in {"looping", "starting", "done"}
  OBVIOUS
<1> HIDE DEF v
<1>3. active' = (active + Holds(v)) - Holds(doing[c])
  <2>1. active \in Int
    BY BusyCallers, FS_CardinalityType DEF PlacesInv
  <2> QED BY <1>1, <1>2, <2>1 DEF Holds
<1>4. /\ SweepTypes' /\ PlacesInv' /\ Size' = Size
      /\ \A d \in Callers : doing'[d] = IF d = c THEN v ELSE doing[d]
  <2>1. doing[c] # "done" /\ v \in {"looping", "starting", "watched", "calling", "done"}
    BY <1>1, <1>2
  <2> QED BY <1>1, <1>3, <2>1, OneMoves
<1>5. WatchInv'
  BY <1>1, <1>2, <1>4 DEF WatchInv, callVars
<1>6. TallyInv'
  <2> DEFINE o == IF kind = "api" THEN result.overfull ELSE result.overfull + 1
  <2>1. \/ result' = result
        \/ result' = [result EXCEPT !.refused = @ + 1, !.overfull = o]
    BY <1>1
  <2> HIDE DEF o
  <2>2. /\ result'.started = result.started /\ result'.completed = result.completed
        /\ result'.failed = result.failed /\ result'.observed = result.observed
        /\ result'.unanswered = result.unanswered /\ result'.stamps = result.stamps
        /\ DOMAIN result' = DOMAIN result
    BY <2>1 DEF TallyInv, ResultFields
  <2> QED BY <1>1, <2>2 DEF TallyInv
<1> QED BY <1>4, <1>5, <1>6

LEMMA BeginKeeps ==
    ASSUME SweepInv, NEW c \in Callers, Begin(c) PROVE SweepInv'
<1> USE DEF SweepInv
<1> DEFINE v == IF Watched THEN "watched" ELSE "calling"
<1>1. /\ phase = "level" /\ doing[c] = "starting" /\ UNCHANGED sweepVars
      /\ doing' = [doing EXCEPT ![c] = v] /\ active' = active + 1
      /\ result' = [result EXCEPT !.started = @ + 1]
      /\ IF Watched THEN StartsCalling ELSE UNCHANGED callVars
  BY DEF Begin
<1>2. v \in {"watched", "calling"} /\ (v = "watched" <=> Watched)
  OBVIOUS
<1> HIDE DEF v
<1>3. active \in Int /\ active' = (active + Holds(v)) - Holds(doing[c])
  <2>1. active \in Int
    BY BusyCallers, FS_CardinalityType DEF PlacesInv
  <2> QED BY <1>1, <1>2, <2>1 DEF Holds
<1>4. /\ SweepTypes' /\ PlacesInv' /\ Size' = Size
      /\ \A d \in Callers : doing'[d] = IF d = c THEN v ELSE doing[d]
  <2>1. doing[c] # "done" /\ v \in {"looping", "starting", "watched", "calling", "done"}
    BY <1>1, <1>2
  <2> QED BY <1>1, <1>3, <2>1, OneMoves
<1>5. WatchInv'
  <2>1. CASE Watched
    <3>1. Size = 1
      <4>1. at # 0
        BY <1>1, BusyCallers DEF PlacesInv, Size, Callers
      <4> QED BY <2>1, <4>1 DEF Watched, Size
    <3>2. agent'.phase = "live"
      BY <1>1, <2>1 DEF StartsCalling, NewAgent
    <3> QED BY <1>2, <1>4, <2>1, <3>1, <3>2 DEF WatchInv
  <2>2. CASE ~Watched
    BY <1>1, <1>2, <1>4, <2>2 DEF WatchInv, callVars
  <2> QED BY <2>1, <2>2
<1>6. TallyInv'
  <2>1. /\ result'.started = result.started + 1 /\ result'.completed = result.completed
        /\ result'.failed = result.failed /\ result'.observed = result.observed
        /\ result'.unanswered = result.unanswered /\ result'.stamps = result.stamps
        /\ DOMAIN result' = DOMAIN result
    BY <1>1 DEF TallyInv, ResultFields
  <2> QED BY <1>1, <1>3, <2>1 DEF TallyInv
<1> QED BY <1>4, <1>5, <1>6

(* A call that is over is counted as what came of it.                      *)
Sums(outcome) ==
    /\ outcome.stamps \in Nat /\ outcome.observed \in Nat /\ outcome.unanswered \in Nat
    /\ outcome.completed => outcome.observed + outcome.unanswered = outcome.stamps

LEMMA OverKeeps ==
    ASSUME SweepInv, NEW c \in Callers, phase = "level", doing[c] \in {"watched", "calling"},
           NEW outcome, NEW timed, Over(c, outcome, timed), Sums(outcome)
    PROVE  /\ SweepTypes' /\ PlacesInv' /\ TallyInv' /\ Size' = Size
           /\ \A d \in Callers : doing'[d] = IF d = c THEN "looping" ELSE doing[d]
<1> USE DEF SweepInv
<1>1. /\ UNCHANGED sweepVars /\ doing' = [doing EXCEPT ![c] = "looping"] /\ active' = active - 1
      /\ result' = Tally(outcome, timed)
  BY DEF Over, Released
<1>2. active \in Int /\ active' = (active + Holds("looping")) - Holds(doing[c])
  <2>1. active \in Int
    BY BusyCallers, FS_CardinalityType DEF PlacesInv
  <2> QED BY <1>1, <2>1 DEF Holds
<1>3. /\ SweepTypes' /\ PlacesInv' /\ Size' = Size
      /\ \A d \in Callers : doing'[d] = IF d = c THEN "looping" ELSE doing[d]
  BY <1>1, <1>2, OneMoves
<1>4. TallyInv'
  <2>1. CASE ~outcome.completed
    <3>1. /\ result'.started = result.started /\ result'.completed = result.completed
          /\ result'.failed = result.failed + 1 /\ result'.observed = result.observed
          /\ result'.unanswered = result.unanswered /\ result'.stamps = result.stamps
          /\ DOMAIN result' = DOMAIN result
      BY <1>1, <2>1 DEF TallyInv, ResultFields, Tally
    <3> QED BY <1>1, <1>2, <3>1 DEF TallyInv
  <2>2. CASE outcome.completed
    <3>1. /\ result'.started = result.started /\ result'.completed = result.completed + 1
          /\ result'.failed = result.failed /\ result'.observed = result.observed + outcome.observed
          /\ result'.unanswered = result.unanswered + outcome.unanswered
          /\ result'.stamps = result.stamps + outcome.stamps
          /\ DOMAIN result' = DOMAIN result
      BY <1>1, <2>2 DEF TallyInv, ResultFields, Tally
    <3> QED BY <1>1, <1>2, <2>2, <3>1 DEF TallyInv, Sums
  <2> QED BY <2>1, <2>2
<1> QED BY <1>3, <1>4

LEMMA WatchedOverKeeps ==
    ASSUME SweepInv, CallInv, NEW c \in Callers, WatchedOver(c) PROVE SweepInv'
<1> USE DEF SweepInv
<1>1. /\ phase = "level" /\ doing[c] = "watched" /\ agent' = [NewAgent(0) EXCEPT !.phase = "none"]
  BY DEF WatchedOver
<1> DEFINE outcome == [completed |-> agent.phase = "completed", stamps |-> history.stamps,
                       observed |-> output.observed, unanswered |-> UnansweredTurns(output),
                       timeouts |-> caller.timeouts]
<1>2. PICK timed \in Timed(output.observed) : Over(c, outcome, timed)
  BY Zenon DEF WatchedOver
<1>3. Sums(outcome)
  <2>1. output \in OutputSet /\ history \in HistorySet
    BY DEF CallInv, CallTypes
  <2>2. /\ output.observed \in Nat /\ output.unanswered \in Nat /\ history.stamps \in Nat
        /\ UnansweredTurns(output) \in Nat
    BY <2>1 DEF OutputSet, HistorySet, UnansweredTurns
  <2>3. output.observed + UnansweredTurns(output) = history.stamps
    BY DEF CallInv, CountInv, EachTurnCountedOnce
  <2>4. /\ outcome.stamps = history.stamps /\ outcome.observed = output.observed
        /\ outcome.unanswered = UnansweredTurns(output)
    OBVIOUS
  <2> HIDE DEF outcome
  <2> QED BY <2>2, <2>3, <2>4 DEF Sums
<1> HIDE DEF outcome
<1>4. /\ SweepTypes' /\ PlacesInv' /\ TallyInv' /\ Size' = Size
      /\ \A d \in Callers : doing'[d] = IF d = c THEN "looping" ELSE doing[d]
  BY <1>1, <1>2, <1>3, OverKeeps
<1>5. WatchInv'
  <2>1. ASSUME NEW d \in Callers, d # c PROVE doing[d] # "watched"
    <3> SUFFICES ASSUME doing[d] = "watched" PROVE FALSE
      OBVIOUS
    <3>1. Size = 1 /\ c <= 1 /\ d <= 1
      BY <1>1 DEF WatchInv, PlacesInv
    <3>2. c \in Int /\ d \in Int /\ c >= 1 /\ d >= 1
      BY DEF Callers
    <3> QED BY <2>1, <3>1, <3>2
  <2>2. agent'.phase = "none"
    BY <1>1 DEF NewAgent
  <2> QED BY <1>4, <2>1, <2>2 DEF WatchInv
<1> QED BY <1>4, <1>5

LEMMA CallOverKeeps ==
    ASSUME SweepInv, NEW c \in Callers, CallOver(c) PROVE SweepInv'
<1> USE DEF SweepInv
<1>1. phase = "level" /\ doing[c] = "calling" /\ UNCHANGED callVars
  BY DEF CallOver
<1>2. PICK outcome \in Outcomes : \E timed \in Timed(outcome.observed) : Over(c, outcome, timed)
  BY Zenon DEF CallOver
<1>3. PICK timed : Over(c, outcome, timed)
  BY <1>2
<1>4. Sums(outcome)
  <2>1. /\ outcome.stamps \in {0, 1} /\ outcome.observed \in {0, 1}
        /\ outcome.unanswered \in {0, 1}
        /\ outcome.observed + outcome.unanswered = outcome.stamps
    BY DEF Outcomes
  <2> QED BY <2>1 DEF Sums
<1>5. /\ SweepTypes' /\ PlacesInv' /\ TallyInv' /\ Size' = Size
      /\ \A d \in Callers : doing'[d] = IF d = c THEN "looping" ELSE doing[d]
  BY <1>1, <1>3, <1>4, OverKeeps
<1>6. WatchInv'
  BY <1>1, <1>5 DEF WatchInv, callVars
<1> QED BY <1>5, <1>6

(* What leaves the callers' places alone.                                  *)
LEMMA PlacesKept ==
    ASSUME SweepInv, UNCHANGED <<doing, active, result, kind, untilBreak, at>>,
           phase' = phase \/ phase' = "aborted" \/ (phase = "budget" /\ phase' = "between")
             \/ (phase = "between" /\ phase' = "done"),
           agent'.phase = "none" <=> agent.phase = "none"
    PROVE  SweepInv'
<1> USE DEF SweepInv
<1>1. Planned' = Planned /\ Size' = Size /\ Busy' = Busy
  BY DEF Planned, Size, Busy
<1>2. SweepTypes'
  BY <1>1 DEF SweepTypes
<1>3. PlacesInv'
  BY <1>1 DEF PlacesInv
<1>4. WatchInv' /\ TallyInv'
  BY <1>1 DEF WatchInv, TallyInv
<1> QED BY <1>2, <1>3, <1>4

LEMMA LevelKeeps == SweepInv /\ (StartLevel \/ EndLevel) => SweepInv'
<1> SUFFICES ASSUME SweepInv, StartLevel \/ EndLevel PROVE SweepInv'
  OBVIOUS
<1> USE DEF SweepInv
<1>1. /\ UNCHANGED <<callVars, kind, untilBreak, active>> /\ Planned' = Planned
      /\ agent' = agent
  BY DEF StartLevel, EndLevel, Planned, callVars
<1>2. \A c \in Callers : doing[c] = "done"
  BY DEF StartLevel, EndLevel, PlacesInv, LevelOver
<1>3. Busy = {} /\ active = 0 /\ agent.phase = "none"
  <2>1. Busy = {} /\ agent.phase = "none"
    BY <1>2 DEF Busy, WatchInv
  <2> QED BY <2>1, FS_EmptySet DEF PlacesInv
<1>4. CASE EndLevel
  <2>1. /\ phase' = "between" /\ result' = NewResult /\ UNCHANGED <<at, doing>>
    BY <1>4 DEF EndLevel
  <2>2. Size' = Size /\ Busy' = Busy
    BY <1>1, <2>1 DEF Size, Busy
  <2>3. SweepTypes' /\ PlacesInv' /\ WatchInv'
    BY <1>1, <1>2, <2>1, <2>2 DEF SweepTypes, PlacesInv, WatchInv
  <2>4. TallyInv'
    BY <1>1, <1>3, <2>1 DEF TallyInv, NewResult, ResultFields
  <2> QED BY <2>3, <2>4
<1>5. CASE StartLevel /\ phase' = "done" /\ UNCHANGED <<at, doing, past>>
  <2>1. phase = "between" /\ UNCHANGED <<doing, active, result, kind, untilBreak, at>>
    BY <1>1, <1>5 DEF StartLevel
  <2> QED BY <1>1, <1>5, <2>1, PlacesKept
<1>6. CASE /\ StartLevel /\ phase' = "level" /\ at' = at + 1 /\ at # Len(Planned)
           /\ doing' = [c \in Callers |-> IF c <= Planned[at + 1] THEN "looping" ELSE "done"]
  <2>1. result' = result
    BY <1>6 DEF StartLevel
  <2>2. at' \in 0..Len(Planned') /\ at' # 0 /\ Size' = Planned[at + 1]
    BY <1>1, <1>6, Plan DEF SweepTypes, Size
  <2>3. /\ doing' \in [Callers -> {"looping", "starting", "watched", "calling", "done"}]
        /\ \A c \in Callers : doing'[c] \in {"looping", "done"}
                              /\ (doing'[c] # "done" => c <= Size')
    BY <1>6, <2>2
  <2>4. Busy' = {}
    BY <2>3 DEF Busy
  <2>5. SweepTypes'
    BY <1>1, <1>6, <2>2, <2>3 DEF SweepTypes
  <2>6. PlacesInv'
    BY <1>1, <1>3, <1>6, <2>3, <2>4, FS_EmptySet DEF PlacesInv
  <2>7. WatchInv'
    BY <1>1, <1>3, <2>3 DEF WatchInv
  <2>8. TallyInv'
    BY <1>1, <2>1 DEF TallyInv
  <2> QED BY <2>5, <2>6, <2>7, <2>8
<1> QED BY <1>4, <1>5, <1>6 DEF StartLevel

LEMMA SweepKeeps == CallInv /\ SweepInv /\ [Next]_vars => SweepInv'
<1> SUFFICES ASSUME CallInv, SweepInv, [Next]_vars PROVE SweepInv'
  OBVIOUS
<1>1. ASSUME NEW c \in Callers, Loop(c) \/ StartRefused(c) \/ Begin(c) \/ WatchedOver(c) \/ CallOver(c)
      PROVE  SweepInv'
  BY <1>1, LoopKeeps, BeginKeeps, WatchedOverKeeps, CallOverKeeps
<1>2. CASE \/ \E c \in Callers : CannotStart(c)
           \/ Watch \/ DeadlinePasses \/ AskBudget \/ GoOn \/ UNCHANGED vars
  <2>1. UNCHANGED <<doing, active, result, kind, untilBreak, at>>
    BY <1>2 DEF CannotStart, Watch, DeadlinePasses, AskBudget, GoOn, vars, loopVars, sweepVars
  <2>2. phase' = phase \/ phase' = "aborted" \/ (phase = "budget" /\ phase' = "between")
    BY <1>2 DEF CannotStart, Watch, DeadlinePasses, AskBudget, GoOn, vars, sweepVars
  <2>3. agent'.phase = "none" <=> agent.phase = "none"
    BY <1>2, CallPhases DEF CannotStart, Watch, DeadlinePasses, AskBudget, GoOn, vars, callVars
  <2> QED BY <2>1, <2>2, <2>3, PlacesKept
<1>3. CASE StartLevel \/ EndLevel
  BY <1>3, LevelKeeps
<1> QED BY <1>1, <1>2, <1>3, Zenon DEF Next

LEMMA SweepStarts == Init => CallInv /\ SweepInv
<1> SUFFICES ASSUME Init PROVE CallInv /\ SweepInv
  OBVIOUS
<1>1. CallInv
  <2>1. AtRest
    BY EmptySeq DEF Init, NoCall, AtRest
  <2> QED BY <2>1, Waits
<1>2. /\ phase = "budget" /\ at = 0 /\ active = 0 /\ doing = [c \in Callers |-> "done"]
      /\ result = NewResult /\ agent = [NewAgent(0) EXCEPT !.phase = "none"]
  BY DEF Init, NoCall
<1>3. kind \in {"api", "selfhosted"}
  BY SweepAssumption DEF Init
<1>4. SweepTypes
  BY <1>2, <1>3, Plan DEF SweepTypes
<1>5. Busy = {} /\ \A c \in Callers : doing[c] = "done"
  BY <1>2 DEF Busy
<1>6. PlacesInv
  BY <1>2, <1>5, FS_EmptySet DEF PlacesInv
<1>7. WatchInv
  BY <1>2, <1>5 DEF WatchInv, NewAgent
<1>8. TallyInv
  BY <1>2 DEF TallyInv, NewResult, ResultFields
<1> QED BY <1>1, <1>4, <1>6, <1>7, <1>8 DEF SweepInv

LEMMA SweepHolds == Spec => [](CallInv /\ SweepInv)
<1>1. CallInv /\ SweepInv /\ [Next]_vars => (CallInv /\ SweepInv)'
  BY CallsGoOn, CallKeeps, SweepKeeps
<1> QED BY <1>1, SweepStarts, PTL DEF Spec

LEMMA Accounted == CallInv /\ SweepInv => TurnsAccounted
<1> SUFFICES ASSUME CallInv, SweepInv PROVE TurnsAccounted
  OBVIOUS
<1>1. TypeOK
  <2>1. Cardinality(Busy) \in 0..Size
    BY BusyCallers DEF SweepInv, PlacesInv
  <2>2. active \in 0..(IF at = 0 THEN 0 ELSE Planned[at])
    BY <2>1 DEF SweepInv, PlacesInv, Size
  <2> QED BY <2>2 DEF TypeOK, SweepInv, SweepTypes, WatchInv, CallInv, CallTypes
<1>2. EachTurnCountedOnce
  BY DEF CallInv, CountInv
<1>3. UnansweredMeansTimedOut
  <2>1. output.unanswered \in Nat /\ caller.timeouts \in Nat
    BY DEF CallInv, CallTypes, OutputSet, CallerSet
  <2> QED BY <2>1 DEF CallInv, CountInv, UnansweredMeansTimedOut, UnansweredTurns
<1> QED BY <1>1, <1>2, <1>3 DEF TurnsAccounted

(* Every utterance that the caller of a call finished is timed or counted  *)
(* as unanswered, once, and unanswered only when the caller gave up on it: *)
(* SyntheticCaller and PacedAudioOutput, in every order of the caller's    *)
(* speech, the agent's writes and interruptions; and the level's slots and *)
(* callers are those of LevelRunner.                                       *)
THEOREM TurnsCountedAlways == Spec => []TurnsAccounted
BY SweepHolds, Accounted, PTL

(* The delay that PacedAudioOutput notes when it is given the audio of an  *)
(* answer is the one after which the caller hears it; and a frame that the *)
(* Pacer was late with shows in lateness_ms.                               *)
THEOREM DelaysTrueAlways == Spec => []DelaysAreTrue
<1>1. CallInv /\ SweepInv => DelaysAreTrue
  BY DEF CallInv, HearInv, LateInv, DelaysAreTrue, TimedWhenHeard
<1> QED BY <1>1, SweepHolds, PTL

(* When a level is summed up every call that was started is in it as       *)
(* completed or as failed, no slot is taken, and the turns of the          *)
(* completed ones are timed or unanswered: _caller_loop, run_level.        *)
THEOREM CallsCountedAlways == Spec => EveryCallCounted
<1>1. CallInv /\ SweepInv /\ [Next]_vars =>
        [levels' # levels => /\ result.completed + result.failed = result.started /\ active = 0
                             /\ result.observed + result.unanswered = result.stamps]_vars
  <2> SUFFICES ASSUME SweepInv, [Next]_vars, levels' # levels
               PROVE  /\ result.completed + result.failed = result.started /\ active = 0
                      /\ result.observed + result.unanswered = result.stamps
    OBVIOUS
  <2>1. EndLevel
    BY Zenon DEF Next, Loop, StartRefused, Begin, CannotStart, WatchedOver, CallOver, Watch, Over,
        DeadlinePasses, AskBudget, GoOn, StartLevel, vars, sweepVars
  <2>2. Busy = {}
    BY <2>1 DEF EndLevel, LevelOver, Busy
  <2>3. active = 0
    BY <2>2, FS_EmptySet DEF SweepInv, PlacesInv
  <2> QED BY <2>3 DEF SweepInv, TallyInv
<1> QED BY <1>1, SweepHolds, PTL DEF Spec, EveryCallCounted

(* A sequence of numbers has a largest one.                                *)
LEMMA LargestOf ==
    ASSUME NEW s \in Seq(Nat), NEW i \in 1..Len(s)
    PROVE  s[i] <= Max(ToSet(s)) /\ Max(ToSet(s)) \in Nat
<1> DEFINE Bounds(b, n) == \A j \in 1..n : s[j] <= b
           Bad == {n \in 0..Len(s) : ~ \E b \in Nat : Bounds(b, n)}
<1>1. Len(s) \in Nat /\ \A j \in 1..Len(s) : s[j] \in Nat
  BY LenProperties, ElementOfSeq
<1>2. \A n \in 0..Len(s) : n \notin Bad => \E b \in Nat : Bounds(b, n)
  OBVIOUS
<1>3. Bad \subseteq 0..Len(s) /\ \A n \in Bad : ~ \E b \in Nat : Bounds(b, n)
  OBVIOUS
<1>4. Bounds(0, 0)
  OBVIOUS
<1>5. \A b, n : Bounds(b, n) <=> \A j \in 1..n : s[j] <= b
  OBVIOUS
<1> HIDE DEF Bounds, Bad
<1>6. Bad = {}
  <2> SUFFICES ASSUME Bad # {} PROVE FALSE
    OBVIOUS
  <2>0. Bad \in SUBSET Nat
    BY <1>1, <1>3
  <2>1. PICK n \in Bad : \A m \in Bad : n <= m
    BY <2>0, Smallest
  <2>2. n # 0 /\ n \in 0..Len(s)
    BY <1>3, <1>4, <2>1
  <2>3. n \in 1..Len(s) /\ n - 1 \in 0..Len(s) /\ ~ (n <= n - 1)
    BY <1>1, <2>2
  <2>4. n - 1 \notin Bad
    BY <2>1, <2>3
  <2>5. PICK b \in Nat : Bounds(b, n - 1)
    BY <1>2, <2>3, <2>4
  <2>6. s[n] \in Nat
    BY <1>1, <2>3
  <2>7. PICK t \in Nat : s[n] <= t /\ b <= t
    <3>1. CASE s[n] <= b
      BY <3>1, <2>6
    <3>2. CASE ~(s[n] <= b)
      BY <3>2, <2>6
    <3> QED BY <3>1, <3>2
  <2>8. ASSUME NEW j \in 1..n PROVE s[j] <= t
    <3>1. s[j] \in Nat /\ (j = n \/ j \in 1..(n - 1))
      BY <1>1, <2>3
    <3>2. j \in 1..(n - 1) => s[j] <= b
      BY <1>5, <2>5
    <3> QED BY <2>6, <2>7, <3>1, <3>2
  <2> QED BY <1>3, <1>5, <2>1, <2>7, <2>8
<1>7. PICK b \in Nat : Bounds(b, Len(s))
  <2>1. Len(s) \in 0..Len(s)
    BY <1>1
  <2> QED BY <1>2, <1>6, <2>1
<1>8. \A j \in 1..Len(s) : s[j] \in 0..b
  <2>1. \A j \in 1..Len(s) : s[j] <= b /\ s[j] \in Nat
    BY <1>1, <1>5, <1>7
  <2> QED BY <2>1
<1>9. ToSet(s) = {s[j] : j \in 1..Len(s)}
  BY LenProperties DEF ToSet
<1>10. ToSet(s) \in SUBSET (0..b) /\ s[i] \in ToSet(s)
  BY <1>8, <1>9
<1>11. Max(ToSet(s)) \in ToSet(s) /\ \A x \in ToSet(s) : x <= Max(ToSet(s))
  BY <1>10, Largest
<1> QED BY <1>10, <1>11

(* A caller that is about to start a call finds a slot.                    *)
LEMMA RoomForAll == SweepInv /\ NeverOverfull /\ [Next]_vars => NeverOverfull'
<1> SUFFICES ASSUME SweepInv, result.overfull = 0, [Next]_vars PROVE result'.overfull = 0
  BY DEF NeverOverfull
<1> USE DEF SweepInv
<1>1. DOMAIN result = ResultFields
  BY DEF TallyInv
<1>2. ASSUME NEW c \in Callers, StartRefused(c) PROVE kind = "api"
  <2> SUFFICES ASSUME kind # "api" PROVE FALSE
    OBVIOUS
  <2>1. doing[c] = "starting" /\ active >= Ceiling
    BY <1>2 DEF StartRefused, Refused
  <2>2. active < Size /\ active \in Int /\ Size \in Nat
    <3>1. active < Size /\ active \in 0..Size
      BY <2>1, BusyCallers DEF PlacesInv
    <3> QED BY <3>1, Plan DEF SweepTypes
  <2>3. Size = 0 \/ (at \in 1..Len(Planned) /\ Size = Planned[at])
    BY Plan DEF Size, SweepTypes
  <2>4. Size # 0
    BY <2>2, BusyCallers DEF PlacesInv
  <2>5. Size <= Ceiling /\ Ceiling \in Nat
    BY <2>3, <2>4, Plan, LargestOf DEF Ceiling
  <2> QED BY <2>1, <2>2, <2>5
<1>3. ASSUME NEW c \in Callers, StartRefused(c) PROVE result'.overfull = 0
  <2>1. kind = "api"
    BY <1>2, <1>3
  <2>2. result' = [result EXCEPT !.refused = @ + 1, !.overfull = @]
    BY <1>3, <2>1 DEF StartRefused
  <2> QED BY <1>1, <2>2 DEF ResultFields
<1>4. ASSUME NEW c \in Callers, Begin(c) PROVE result'.overfull = 0
  BY <1>1, <1>4 DEF Begin, ResultFields
<1>5. ASSUME NEW c, NEW outcome, NEW timed, Over(c, outcome, timed) PROVE result'.overfull = 0
  BY <1>1, <1>5 DEF Over, Tally, ResultFields
<1>6. ASSUME NEW c \in Callers, WatchedOver(c) \/ CallOver(c) PROVE result'.overfull = 0
  <2>1. \E outcome, timed : Over(c, outcome, timed)
    BY <1>6, Zenon DEF WatchedOver, CallOver
  <2> QED BY <1>5, <2>1
<1>7. CASE EndLevel
  BY <1>7 DEF EndLevel, NewResult
<1>8. CASE \/ \E c \in Callers : Loop(c) \/ CannotStart(c)
           \/ Watch \/ DeadlinePasses \/ AskBudget \/ GoOn \/ StartLevel \/ UNCHANGED vars
  <2>1. result' = result
    BY <1>8 DEF Loop, CannotStart, Watch, DeadlinePasses, AskBudget, GoOn, StartLevel, vars, loopVars
  <2> QED BY <2>1
<1> QED BY <1>3, <1>4, <1>6, <1>7, <1>8, Zenon DEF Next

(* No caller of the harness is refused for want of a slot: the supervisor  *)
(* has as many as the largest level that the sweep may come to, and        *)
(* end_call has given a call's slot back before its caller calls again.    *)
THEOREM NeverOverfullAlways == Spec => []NeverOverfull
<1>1. Init => NeverOverfull
  BY DEF Init, NewResult, NeverOverfull
<1> QED BY <1>1, SweepHolds, RoomForAll, PTL DEF Spec

-----------------------------------------------------------------------------
(***************************************************************************)
(* Sums over finite sets.  SumFunction is a fold whose recursive function  *)
(* is chosen by its equation (IsSum): that there is one, and that it is    *)
(* the same whatever summand is taken out first, is shown by induction on  *)
(* the number of summands, with the set of numbers it holds for.           *)
(***************************************************************************)

(* A set of numbers that has 0 and with each its successor has them all.   *)
LEMMA SetInduction ==
    ASSUME NEW S, 0 \in S, \A n \in Nat : n \in S => n + 1 \in S
    PROVE  Nat \subseteq S
<1> DEFINE Rest == Nat \ S
<1> SUFFICES ASSUME Rest # {} PROVE FALSE
  OBVIOUS
<1>0. Rest \subseteq Nat
  OBVIOUS
<1>1. PICK n \in Rest : \A m \in Rest : ~ (<<m, n>> \in OpToRel(<, Nat))
  <2> HIDE DEF Rest
  <2> QED BY <1>0, WFMin, NatLessThanWellFounded, Zenon
<1>2. \A m \in Rest : ~ (m < n)
  BY <1>1, Zenon DEF OpToRel
<1>3. n # 0 /\ n \in Nat
  OBVIOUS
<1>4. n - 1 \in Nat /\ n - 1 < n /\ (n - 1) + 1 = n
  BY <1>3
<1>5. n - 1 \in S
  BY <1>2, <1>4
<1> QED BY <1>3, <1>4, <1>5

Some(s) == CHOOSE x \in s : TRUE
Summed(g, f, s) == IF s = {} THEN 0 ELSE f[Some(s)] + g[s \ {Some(s)}]
IsSum(g, f, S) == g = [s \in SUBSET S |-> Summed(g, f, s)]

LEMMA SumIsFold ==
    ASSUME NEW f
    PROVE  SumFunction(f) = (CHOOSE g : IsSum(g, f, DOMAIN f))[DOMAIN f]
BY DEF SumFunction, SumFunctionOnSet, FoldFunctionOnSet, MapThenFoldSet, IsSum, Summed, Some

LEMMA Fewer ==
    ASSUME NEW s, IsFiniteSet(s), s # {}, NEW x \in s
    PROVE  /\ Some(s) \in s
           /\ IsFiniteSet(s \ {x}) /\ Cardinality(s) \in Nat /\ Cardinality(s) > 0
           /\ Cardinality(s \ {x}) = Cardinality(s) - 1
<1>1. Some(s) \in s
  BY DEF Some
<1> QED BY <1>1, FS_RemoveElement, FS_CardinalityType, FS_EmptySet

LEMMA SumExists ==
    ASSUME NEW S, IsFiniteSet(S), NEW f \in [S -> Int]
    PROVE  \E g \in [SUBSET S -> Int] : IsSum(g, f, S)
<1> DEFINE Upto(n, g) == \A s \in SUBSET S : Cardinality(s) <= n => g[s] = Summed(g, f, s)
           Ok == {n \in Nat : \E g \in [SUBSET S -> Int] : Upto(n, g)}
<1>1. \A s \in SUBSET S :
            IsFiniteSet(s) /\ Cardinality(s) \in Nat /\ Cardinality(s) <= Cardinality(S)
  BY FS_Subset, FS_CardinalityType
<1>2. 0 \in Ok
  <2> DEFINE g == [s \in SUBSET S |-> 0]
  <2>1. Upto(0, g)
    <3> SUFFICES ASSUME NEW s \in SUBSET S, Cardinality(s) <= 0 PROVE g[s] = Summed(g, f, s)
      OBVIOUS
    <3>1. s = {}
      BY <1>1, FS_EmptySet
    <3> QED BY <3>1 DEF Summed
  <2>2. g \in [SUBSET S -> Int]
    OBVIOUS
  <2> HIDE DEF g, Upto
  <2> QED BY <2>1, <2>2
<1>3. ASSUME NEW n \in Nat, n \in Ok PROVE n + 1 \in Ok
  <2>1. PICK g \in [SUBSET S -> Int] : Upto(n, g)
    BY <1>3
  <2> DEFINE h == [s \in SUBSET S |-> IF Cardinality(s) <= n THEN g[s] ELSE Summed(g, f, s)]
  <2>2. ASSUME NEW s \in SUBSET S, s # {}
        PROVE  /\ Some(s) \in S /\ s \ {Some(s)} \in SUBSET S
               /\ Cardinality(s \ {Some(s)}) = Cardinality(s) - 1
    BY <2>2, <1>1, Fewer
  <2>3. h \in [SUBSET S -> Int]
    <3> SUFFICES ASSUME NEW s \in SUBSET S PROVE h[s] \in Int
      OBVIOUS
    <3> QED BY <2>2 DEF Summed
  <2>4. ASSUME NEW s \in SUBSET S, Cardinality(s) <= n + 1 PROVE h[s] = Summed(h, f, s)
    <3>1. s # {} => h[s \ {Some(s)}] = g[s \ {Some(s)}]
      BY <2>2, <2>4, <1>1
    <3>2. Summed(h, f, s) = Summed(g, f, s)
      BY <3>1 DEF Summed
    <3>3. Cardinality(s) <= n => g[s] = Summed(g, f, s)
      BY <2>1
    <3>4. h[s] = Summed(g, f, s)
      BY <3>3
    <3> QED BY <3>2, <3>4
  <2> HIDE DEF h
  <2>5. Upto(n + 1, h)
    BY <2>4
  <2> HIDE DEF Upto
  <2> QED BY <2>3, <2>5
<1>4. Cardinality(S) \in Ok
  <2> HIDE DEF Ok
  <2> QED BY <1>2, <1>3, SetInduction, FS_CardinalityType
<1>5. PICK g \in [SUBSET S -> Int] : Upto(Cardinality(S), g)
  BY <1>4
<1>6. \A s \in SUBSET S : g[s] = Summed(g, f, s)
  BY <1>5, <1>1
<1>7. g = [s \in SUBSET S |-> Summed(g, f, s)]
  BY <1>6
<1> QED BY <1>7 DEF IsSum

LEMMA SumApplied ==
    ASSUME NEW S, NEW f, NEW g, IsSum(g, f, S), NEW s \in SUBSET S
    PROVE  g[s] = Summed(g, f, s)
<1> DEFINE h == [t \in SUBSET S |-> Summed(g, f, t)]
<1>1. g = h
  BY Zenon DEF IsSum
<1>2. h[s] = Summed(g, f, s)
  OBVIOUS
<1> QED BY <1>1, <1>2, Zenon

(* A sum of naturals grows with its summands and is no less than any.      *)
LEMMA SumsGrow ==
    ASSUME NEW S, IsFiniteSet(S), NEW f \in [S -> Nat], NEW f1 \in [S -> Nat], NEW g, NEW g1,
           IsSum(g, f, S), IsSum(g1, f1, S), \A x \in S : f[x] <= f1[x]
    PROVE  \A s \in SUBSET S : /\ g[s] \in Nat /\ g1[s] \in Nat /\ g[s] <= g1[s]
                               /\ \A x \in s : f[x] <= g[s]
<1> DEFINE Fine(s) == /\ g[s] \in Nat /\ g1[s] \in Nat /\ g[s] <= g1[s]
                      /\ \A x \in s : f[x] <= g[s]
           Ok == {n \in Nat : \A s \in SUBSET S : Cardinality(s) = n => Fine(s)}
<1>1. \A s \in SUBSET S : IsFiniteSet(s) /\ Cardinality(s) \in Nat
  BY FS_Subset, FS_CardinalityType
<1>2. 0 \in Ok
  <2> SUFFICES ASSUME NEW s \in SUBSET S, Cardinality(s) = 0 PROVE Fine(s)
    OBVIOUS
  <2>1. s = {}
    BY <1>1, FS_EmptySet
  <2>2. g[s] = 0 /\ g1[s] = 0
    BY <2>1, SumApplied DEF Summed
  <2> QED BY <2>1, <2>2
<1>3. ASSUME NEW n \in Nat, n \in Ok PROVE n + 1 \in Ok
  <2> SUFFICES ASSUME NEW s \in SUBSET S, Cardinality(s) = n + 1 PROVE Fine(s)
    OBVIOUS
  <2> DEFINE c == Some(s)  r == s \ {c}
  <2>1. s # {}
    BY <1>1, FS_EmptySet
  <2>2. c \in s /\ c \in S /\ r \in SUBSET S /\ Cardinality(r) = n
    <3>1. c \in s
      BY <2>1 DEF Some
    <3>2. IsFiniteSet(s)
      BY <1>1
    <3>3. Cardinality(r) = Cardinality(s) - 1
      BY <2>1, <3>1, <3>2, Fewer
    <3> QED BY <3>1, <3>3
  <2>3. Fine(r)
    BY <2>2, <1>3
  <2>4. g[s] = f[c] + g[r] /\ g1[s] = f1[c] + g1[r]
    BY <2>1, SumApplied DEF Summed
  <2>5. f[c] \in Nat /\ f1[c] \in Nat /\ f[c] <= f1[c]
    BY <2>2
  <2>6. \A x \in s : x = c \/ x \in r
    OBVIOUS
  <2>7. \A x \in s : f[x] \in Nat
    OBVIOUS
  <2> HIDE DEF c, r
  <2> QED BY <2>3, <2>4, <2>5, <2>6, <2>7
<1>4. Nat \subseteq Ok
  <2> HIDE DEF Ok
  <2> QED BY <1>2, <1>3, SetInduction
<1> QED BY <1>1, <1>4

LEMMA SumOfNaturals ==
    ASSUME NEW S, IsFiniteSet(S), NEW f \in [S -> Nat], NEW f1 \in [S -> Nat],
           \A x \in S : f[x] <= f1[x]
    PROVE  /\ SumFunction(f) \in Nat /\ SumFunction(f1) \in Nat
           /\ SumFunction(f) <= SumFunction(f1)
           /\ \A x \in S : f[x] <= SumFunction(f)
<1> DEFINE g == CHOOSE h : IsSum(h, f, S)
           g1 == CHOOSE h : IsSum(h, f1, S)
<1>1. IsSum(g, f, S) /\ IsSum(g1, f1, S)
  <2>1. f \in [S -> Int] /\ f1 \in [S -> Int]
    OBVIOUS
  <2>2. (\E h : IsSum(h, f, S)) /\ (\E h : IsSum(h, f1, S))
    BY <2>1, SumExists
  <2> QED BY <2>2, Zenon
<1>2. SumFunction(f) = g[S] /\ SumFunction(f1) = g1[S]
  BY SumIsFold
<1> HIDE DEF g, g1
<1> QED BY <1>1, <1>2, SumsGrow

-----------------------------------------------------------------------------
(***************************************************************************)
(* The memory budget: the known claims are the least of what the           *)
(* components may turn out to hold, and an unknown one may be too much.    *)
(***************************************************************************)
Worlds(claims, total) ==
    {[c \in DOMAIN claims |-> IF claims[c] = GB!None THEN f[c] ELSE claims[c]] :
        f \in [DOMAIN claims -> 0..(total + 1)]}

LEMMA ClaimsType ==
    ASSUME NEW d, GB!IsReading(d)
    PROVE  /\ d.total \in Nat /\ d.eu \in BOOLEAN
           /\ IsFiniteSet(DOMAIN GB!Claims(d))
           /\ GB!Claims(d) \in [DOMAIN GB!Claims(d) -> Nat \cup {GB!None}]
<1> USE DEF GB!None
<1>0. GB!Figures = Nat \cup {-1}
  BY DEF GB!Figures
<1>1. ASSUME NEW p \in GB!Figures PROVE GB!Share(d, p) \in GB!Figures
  <2>1. d.total \in Nat
    BY DEF GB!IsReading
  <2>2. CASE p = -1
    BY <1>0, <2>2 DEF GB!Share
  <2>3. CASE p # -1
    <3>1. p \in Nat /\ GB!Share(d, p) = (d.total * p) \div 100
      BY <1>0, <2>3 DEF GB!Share
    <3>2. d.total * p \in Nat
      BY <2>1, <3>1
    <3> QED BY <1>0, <3>1, <3>2
  <2> QED BY <2>2, <2>3
<1>2. ASSUME NEW c \in DOMAIN d.components
      PROVE  GB!Claim(d, d.components[c]) \in GB!Figures
  <2>1. /\ d.components[c].figure \in GB!Figures /\ d.components[c].reserved \in GB!Figures
        /\ d.llmShare \in GB!Figures
    BY DEF GB!IsReading
  <2> QED BY <1>1, <2>1 DEF GB!Claim
<1> DEFINE D == IF d.gpus = 0 THEN {} ELSE DOMAIN d.components
<1>3. IsFiniteSet(D) /\ \A c \in D : c \in DOMAIN d.components
  <2>1. IsFiniteSet({}) /\ IsFiniteSet(DOMAIN d.components)
    BY FS_EmptySet DEF GB!IsReading, GB!IsFiniteSet, IsFiniteSet
  <2>2. D = {} \/ D = DOMAIN d.components
    OBVIOUS
  <2> HIDE DEF D
  <2> QED BY <2>1, <2>2
<1>4. GB!Claims(d) = [c \in D |-> GB!Claim(d, d.components[c])]
  BY DEF GB!Claims
<1> HIDE DEF D
<1>5. DOMAIN GB!Claims(d) = D /\ GB!Claims(d) \in [D -> GB!Figures]
  BY <1>2, <1>3, <1>4
<1> QED BY <1>0, <1>3, <1>5 DEF GB!IsReading

LEMMA SameSum == ASSUME NEW f PROVE GB!SumFunction(f) = SumFunction(f)
BY DEF SumFunction, SumFunctionOnSet, FoldFunctionOnSet, MapThenFoldSet,
       GB!SumFunction, GB!SumFunctionOnSet, GB!FoldFunctionOnSet, GB!MapThenFoldSet

LEMMA CertainOf ==
    ASSUME NEW D, IsFiniteSet(D), NEW claims \in [D -> Nat \cup {GB!None}], NEW total \in Nat
    PROVE  LET fitting == {w \in Worlds(claims, total) : SumFunction(w) <= total} IN
           /\ GB!Verdict(total, claims) \in {"fits", "does not fit", "unknown"}
           /\ GB!Verdict(total, claims) = "fits" <=> fitting = Worlds(claims, total)
           /\ GB!Verdict(total, claims) = "does not fit" <=> fitting = {}
<1> USE DEF GB!None
<1> DEFINE worlds == Worlds(claims, total)
           fitting == {w \in worlds : SumFunction(w) <= total}
           fill(n) == [c \in D |-> IF claims[c] = -1 THEN n ELSE claims[c]]
<1>1. ASSUME NEW n \in Nat PROVE fill(n) \in [D -> Nat] /\ \A c \in D : fill(0)[c] <= fill(n)[c]
  OBVIOUS
<1>2. ASSUME NEW n \in 0..(total + 1) PROVE fill(n) \in worlds
  <2> DEFINE f == [c \in D |-> n]
  <2>1. f \in [DOMAIN claims -> 0..(total + 1)] /\ DOMAIN claims = D
    OBVIOUS
  <2>2. fill(n) = [c \in DOMAIN claims |-> IF claims[c] = -1 THEN f[c] ELSE claims[c]]
    BY <2>1
  <2> HIDE DEF f, fill
  <2> QED BY <2>1, <2>2 DEF Worlds
<1>3. ASSUME NEW w \in worlds
      PROVE  /\ w \in [D -> Nat]
             /\ \A c \in D : fill(0)[c] <= w[c] /\ (claims[c] # -1 => w[c] = claims[c])
  <2>1. PICK f \in [D -> 0..(total + 1)] :
            w = [c \in D |-> IF claims[c] = -1 THEN f[c] ELSE claims[c]]
    BY DEF Worlds
  <2>2. \A c \in D : f[c] \in Nat
    OBVIOUS
  <2> QED BY <2>1, <2>2
<1>4. GB!Claimed(claims) = SumFunction(fill(0))
  <2>1. fill(0) = [c \in DOMAIN claims |-> IF c \in GB!Unknown(claims) THEN 0 ELSE claims[c]]
    BY DEF GB!Unknown
  <2> HIDE DEF fill
  <2>2. GB!Claimed(claims) = GB!SumFunction(fill(0))
    BY <2>1, Zenon DEF GB!Claimed
  <2> QED BY <2>2, SameSum
<1>5. SumFunction(fill(0)) \in Nat /\ fill(0) \in worlds
  <2>1. fill(0) \in [D -> Nat] /\ \A c \in D : fill(0)[c] <= fill(0)[c]
    BY <1>1
  <2>2. 0 \in 0..(total + 1)
    OBVIOUS
  <2> HIDE DEF fill, worlds
  <2> QED BY <1>2, <2>1, <2>2, SumOfNaturals
<1>6. ASSUME NEW w \in worlds PROVE SumFunction(w) \in Nat /\ SumFunction(fill(0)) <= SumFunction(w)
  <2>1. fill(0) \in [D -> Nat] /\ w \in [D -> Nat] /\ \A c \in D : fill(0)[c] <= w[c]
    BY <1>1, <1>3
  <2> HIDE DEF fill, worlds
  <2> QED BY <2>1, SumOfNaturals
<1>7. GB!Unknown(claims) = {c \in D : claims[c] = -1}
  BY DEF GB!Unknown
<1>8. CASE SumFunction(fill(0)) > total
  <2>1. fitting = {}
    <3> HIDE DEF fill, worlds
    <3> QED BY <1>5, <1>6, <1>8
  <2>2. GB!Verdict(total, claims) = "does not fit"
    BY <1>4, <1>8 DEF GB!Verdict
  <2> HIDE DEF fill
  <2> QED BY <1>5, <2>1, <2>2
<1>9. CASE ~(SumFunction(fill(0)) > total) /\ GB!Unknown(claims) = {}
  <2>1. \A w \in worlds : w = fill(0)
    BY <1>1, <1>3, <1>7, <1>9
  <2>2. GB!Verdict(total, claims) = "fits"
    BY <1>4, <1>9 DEF GB!Verdict
  <2>3. SumFunction(fill(0)) <= total
    BY <1>5, <1>9
  <2> HIDE DEF fill, worlds
  <2>4. fitting = worlds /\ fitting # {}
    BY <1>5, <2>1, <2>3
  <2> QED BY <2>2, <2>4 DEF worlds
<1>10. CASE ~(SumFunction(fill(0)) > total) /\ GB!Unknown(claims) # {}
  <2>1. PICK c \in D : claims[c] = -1
    BY <1>7, <1>10
  <2>2. /\ fill(total + 1) \in worlds /\ fill(total + 1) \in [D -> Nat]
        /\ fill(total + 1)[c] = total + 1
    BY <1>1, <1>2, <2>1
  <2>3. SumFunction(fill(total + 1)) \in Nat /\ total + 1 <= SumFunction(fill(total + 1))
    <3> DEFINE u == fill(total + 1)
    <3>1. u \in [D -> Nat] /\ u[c] = total + 1
      BY <2>2
    <3> HIDE DEF u
    <3>2. \A x \in D : u[x] <= u[x]
      BY <3>1
    <3>3. SumFunction(u) \in Nat /\ u[c] <= SumFunction(u)
      BY <3>1, <3>2, SumOfNaturals
    <3> QED BY <3>1, <3>3 DEF u
  <2>4. SumFunction(fill(0)) <= total
    BY <1>5, <1>10
  <2>5. GB!Verdict(total, claims) = "unknown"
    BY <1>4, <1>10 DEF GB!Verdict
  <2> HIDE DEF fill, worlds
  <2>6. fill(total + 1) \notin fitting /\ fill(0) \in fitting
    BY <1>5, <2>3, <2>4
  <2>7. fitting # worlds /\ fitting # {}
    BY <2>2, <2>6
  <2> QED BY <2>5, <2>7 DEF worlds
<1> HIDE DEF fill
<1> QED BY <1>8, <1>9, <1>10

-----------------------------------------------------------------------------
(***************************************************************************)
(* The report: what is kept of a level when it is over.                    *)
(***************************************************************************)
SummarySet == [concurrency : Nat, turns : Nat, p95 : Int, within : BOOLEAN]

SamplesInv ==
    /\ result.endToEnd \in Seq(Nat) /\ result.perceived \in Seq(Nat)
    /\ phase \in {"budget", "between", "done"} => result.endToEnd = <<>>
    /\ result.endToEnd # <<>> => Size > 0

StopInv == phase = "done" => at = Len(Planned) \/ (at > 0 /\ Breaks(levels[at]))

LevelsInv ==
    /\ levels \in Seq(SummarySet) /\ Len(levels) <= Len(Planned)
    /\ phase = "level" => at > 0 /\ Len(levels) = at - 1
    /\ phase \in {"budget", "between", "done"} => Len(levels) = at
    /\ \A i \in 1..Len(levels) :
        /\ levels[i].concurrency = Planned[i]
        /\ levels[i].turns > 0 => levels[i].concurrency > 0
        /\ levels[i].p95 >= EndToEndBudget => levels[i].turns > 0
    /\ StopInv

BudgetInv ==
    /\ deployment \in Deployments
    /\ budget # NoBudget =>
        LET claims == GB!Claims(deployment) IN
        budget = [verdict |-> IF claims = <<>> THEN "no card"
                              ELSE GB!Verdict(deployment.total, claims),
                  logged |-> GB!Logged(deployment, claims)]

ReportInv == SamplesInv /\ LevelsInv /\ BudgetInv

LEMMA WithType ==
    ASSUME NEW seq \in Seq(Nat), NEW x \in Nat
    PROVE  With(seq, x) \in Seq(Nat) /\ With(seq, x) # <<>>
<1> DEFINE S == {i \in DOMAIN seq : seq[i] <= x}
           k == Cardinality(S)
           a == SubSeq(seq, 1, (k + 1) - 1)
           b == SubSeq(seq, k + 1, Len(seq))
<1>1. Len(seq) \in Nat /\ DOMAIN seq = 1..Len(seq)
  BY LenProperties
<1>2. IsFiniteSet(1..Len(seq)) /\ Cardinality(1..Len(seq)) = Len(seq)
  <2>1. 1 \in Int /\ Len(seq) \in Int
    BY <1>1
  <2>2. /\ IsFiniteSet(1..Len(seq))
        /\ Cardinality(1..Len(seq)) = IF 1 > Len(seq) THEN 0 ELSE Len(seq) - 1 + 1
    BY <2>1, FS_Interval, Zenon
  <2> QED BY <1>1, <2>2
<1>3. k \in 0..Len(seq)
  <2>1. S \subseteq 1..Len(seq)
    BY <1>1
  <2> HIDE DEF S
  <2>2. IsFiniteSet(S) /\ k <= Len(seq)
    BY <1>2, <2>1, FS_Subset
  <2> QED BY <1>1, <2>2, FS_CardinalityType
<1> HIDE DEF k
<1>4. a \in Seq(Nat) /\ b \in Seq(Nat)
  <2>1. 1 \in Int /\ (k + 1) - 1 \in Int /\ k + 1 \in Int /\ Len(seq) \in Int
    BY <1>1, <1>3
  <2>2. \A i \in 1..((k + 1) - 1) : seq[i] \in Nat
    BY <1>1, <1>3, ElementOfSeq
  <2>3. \A i \in (k + 1)..Len(seq) : seq[i] \in Nat
    BY <1>1, <1>3, ElementOfSeq
  <2>4. a \in Seq(Nat)
    BY <2>1, <2>2, SubSeqProperties
  <2>5. b \in Seq(Nat)
    BY <2>1, <2>3, SubSeqProperties
  <2> QED BY <2>4, <2>5
<1>5. With(seq, x) = (a \o <<x>>) \o b
  BY DEF With, InsertAt, k, S
<1> HIDE DEF a, b
<1>6. <<x>> \in Seq(Nat) /\ Len(<<x>>) = 1
  OBVIOUS
<1>7. a \o <<x>> \in Seq(Nat) /\ Len(a \o <<x>>) = Len(a) + 1
  BY <1>4, <1>6, ConcatProperties
<1>8. (a \o <<x>>) \o b \in Seq(Nat) /\ Len((a \o <<x>>) \o b) = (Len(a) + 1) + Len(b)
  BY <1>4, <1>7, ConcatProperties
<1>9. Len(a) \in Nat /\ Len(b) \in Nat
  BY <1>4, LenProperties
<1> QED BY <1>5, <1>8, <1>9, EmptySeq

LEMMA PercentileType ==
    ASSUME NEW s \in Seq(Nat)
    PROVE  Percentile(s, 95) \in Int /\ (s = <<>> => Percentile(s, 95) = 0)
<1>1. CASE s = <<>>
  BY <1>1 DEF Percentile
<1>2. CASE s # <<>>
  <2> DEFINE rank == (Len(s) - 1) * 95
             i == rank \div 100 + 1
             j == (rank + 99) \div 100 + 1
             part == rank % 100
  <2>1. Len(s) \in Nat /\ Len(s) >= 1
    BY <1>2, EmptySeq, LenProperties
  <2>2. i \in 1..Len(s) /\ j \in 1..Len(s) /\ part \in Int
    BY <2>1
  <2>3. s[i] \in Nat /\ s[j] \in Nat
    BY <2>2, ElementOfSeq
  <2>4. Percentile(s, 95) = s[i] + ((s[j] - s[i]) * part) \div 100
    BY <1>2 DEF Percentile
  <2> HIDE DEF i, j, part
  <2>5. (s[j] - s[i]) * part \in Int
    BY <2>2, <2>3
  <2>6. ((s[j] - s[i]) * part) \div 100 \in Int
    BY <2>5
  <2> QED BY <1>2, <2>3, <2>4, <2>6
<1> QED BY <1>1, <1>2

LEMMA SummaryType ==
    ASSUME SamplesInv, at \in 1..Len(Planned)
    PROVE  /\ Summary \in SummarySet /\ Summary.concurrency = Planned[at]
           /\ Summary.turns > 0 => Planned[at] > 0
           /\ Summary.p95 >= EndToEndBudget => Summary.turns > 0
<1> DEFINE e == Percentile(result.endToEnd, 95)
           p == Percentile(result.perceived, 95)
           n == Len(result.endToEnd)
<1>1. e \in Int /\ p \in Int /\ (result.endToEnd = <<>> => e = 0)
  BY PercentileType DEF SamplesInv
<1>2. n \in Nat /\ (result.endToEnd = <<>> <=> n = 0)
  BY EmptySeq, LenProperties DEF SamplesInv
<1>3. Planned[at] \in Nat /\ Size = Planned[at]
  <2>1. Planned[at] \in Nat
    BY Plan, ElementOfSeq
  <2>2. at # 0
    BY Plan
  <2> QED BY <2>1, <2>2 DEF Size
<1>4. Summary = [concurrency |-> Planned[at], turns |-> n, p95 |-> Rounded(e),
                 within |-> e < EndToEndBudget /\ p < PerceivedBudget]
  BY DEF Summary
<1> HIDE DEF e, p, n
<1>5. Rounded(e) \in Int /\ (e = 0 => Rounded(e) = 0)
  BY <1>1 DEF Rounded
<1> DEFINE within == e < EndToEndBudget /\ p < PerceivedBudget
<1>6. within \in BOOLEAN
  OBVIOUS
<1> HIDE DEF within
<1>7. /\ Summary \in SummarySet /\ Summary.concurrency = Planned[at] /\ Summary.turns = n
      /\ Summary.p95 = Rounded(e)
  BY <1>2, <1>3, <1>4, <1>5, <1>6 DEF SummarySet, within
<1>8. n > 0 => Planned[at] > 0
  BY <1>2, <1>3 DEF SamplesInv
<1>9. Rounded(e) >= EndToEndBudget => n > 0
  BY <1>1, <1>2, <1>5 DEF EndToEndBudget
<1> QED BY <1>7, <1>8, <1>9

LEMMA ReportStarts == Init => ReportInv
<1> SUFFICES ASSUME Init PROVE ReportInv
  OBVIOUS
<1>1. /\ phase = "budget" /\ at = 0 /\ result = NewResult /\ levels = <<>>
      /\ deployment \in Deployments /\ budget = NoBudget
  BY DEF Init
<1>2. <<>> \in Seq(Nat) /\ <<>> \in Seq(SummarySet) /\ Len(<<>>) = 0
  BY EmptySeq
<1>3. SamplesInv
  BY <1>1, <1>2 DEF SamplesInv, NewResult
<1>4. LevelsInv
  BY <1>1, <1>2, Plan DEF LevelsInv, StopInv
<1>5. BudgetInv
  BY <1>1 DEF BudgetInv
<1> QED BY <1>3, <1>4, <1>5 DEF ReportInv

(* What leaves the level's samples and the summaries alone.                *)
LEMMA SamplesKept ==
    ASSUME SamplesInv, LevelsInv, UNCHANGED <<levels, at, untilBreak>>,
           result'.endToEnd = result.endToEnd, result'.perceived = result.perceived,
           phase' = phase \/ phase' = "aborted" \/ (phase = "budget" /\ phase' = "between")
    PROVE  SamplesInv' /\ LevelsInv'
<1>1. Planned' = Planned /\ Size' = Size
  BY DEF Planned, Size
<1>2. SamplesInv'
  BY <1>1 DEF SamplesInv
<1>3. phase' = "done" => phase = "done"
  OBVIOUS
<1>4. LevelsInv'
  <2>1. (\A i \in 1..Len(levels) :
            /\ levels[i].concurrency = Planned[i]
            /\ levels[i].turns > 0 => levels[i].concurrency > 0
            /\ levels[i].p95 >= EndToEndBudget => levels[i].turns > 0)'
    BY <1>1 DEF LevelsInv, EndToEndBudget
  <2>2. StopInv'
    BY <1>1, <1>3 DEF LevelsInv, StopInv, Breaks
  <2> QED BY <1>1, <2>1, <2>2 DEF LevelsInv
<1> QED BY <1>2, <1>4

LEMMA OverReports ==
    ASSUME SweepInv, ReportInv, NEW c \in Callers, phase = "level", doing[c] # "done",
           NEW outcome, NEW n, NEW timed \in Timed(n), Over(c, outcome, timed)
    PROVE  SamplesInv' /\ LevelsInv'
<1>1. UNCHANGED sweepVars /\ result' = Tally(outcome, timed) /\ DOMAIN result = ResultFields
  BY DEF Over, SweepInv, TallyInv
<1>2. UNCHANGED <<levels, at, untilBreak, phase>> /\ Planned' = Planned /\ Size' = Size
  BY <1>1 DEF sweepVars, Planned, Size
<1>3. \/ result'.endToEnd = result.endToEnd /\ result'.perceived = result.perceived
      \/ timed # <<>> /\ result'.endToEnd = With(result.endToEnd, timed[1][1])
                      /\ result'.perceived = With(result.perceived, timed[1][2])
  BY <1>1 DEF Tally, ResultFields
<1>4. CASE result'.endToEnd = result.endToEnd /\ result'.perceived = result.perceived
  BY <1>2, <1>4, SamplesKept DEF ReportInv
<1>5. CASE timed # <<>> /\ result'.endToEnd = With(result.endToEnd, timed[1][1])
                        /\ result'.perceived = With(result.perceived, timed[1][2])
  <2>1. timed[1][1] \in Nat /\ timed[1][2] \in Nat
    <3>1. PICK l \in Latencies : timed = <<l>>
      BY <1>5 DEF Timed
    <3>2. l \in Nat \X Nat
      BY SweepAssumption
    <3> QED BY <3>1, <3>2
  <2>2. result'.endToEnd \in Seq(Nat) /\ result'.perceived \in Seq(Nat)
    BY <1>5, <2>1, WithType DEF ReportInv, SamplesInv
  <2>3. Size > 0
    <3>1. c <= Size /\ c \in Int /\ c >= 1
      BY DEF SweepInv, PlacesInv, Callers
    <3> QED BY <3>1, Plan DEF SweepInv, SweepTypes
  <2>4. SamplesInv'
    BY <1>2, <2>2, <2>3 DEF SamplesInv
  <2>5. LevelsInv'
    BY <1>2 DEF LevelsInv, StopInv, Breaks, ReportInv
  <2> QED BY <2>4, <2>5
<1> QED BY <1>3, <1>4, <1>5

LEMMA LevelReports ==
    ASSUME SweepInv, ReportInv, StartLevel \/ EndLevel PROVE SamplesInv' /\ LevelsInv'
<1>1. UNCHANGED untilBreak /\ Planned' = Planned
  BY DEF StartLevel, EndLevel, Planned
<1>2. /\ at \in 0..Len(Planned) /\ Planned \in Seq(Nat) /\ Len(Planned) \in Nat
      /\ levels \in Seq(SummarySet) /\ Len(levels) \in Nat
  BY Plan, LenProperties DEF SweepInv, SweepTypes, ReportInv, LevelsInv
<1>3. CASE StartLevel
  <2>1. /\ phase = "between" /\ result.endToEnd = <<>> /\ Len(levels) = at
        /\ result.endToEnd \in Seq(Nat) /\ result.perceived \in Seq(Nat)
        /\ result' = result /\ levels' = levels
    BY <1>3 DEF StartLevel, ReportInv, SamplesInv, LevelsInv
  <2>2. SamplesInv'
    BY <2>1 DEF SamplesInv
  <2>3. \/ /\ phase' = "done" /\ at' = at
           /\ at = Len(Planned) \/ (at > 0 /\ Breaks(levels[at]))
        \/ phase' = "level" /\ at' = at + 1
    BY <1>3 DEF StartLevel
  <2>4. StopInv'
    BY <1>1, <2>1, <2>3 DEF StopInv, Breaks
  <2>5. (\A i \in 1..Len(levels) :
            /\ levels[i].concurrency = Planned[i]
            /\ levels[i].turns > 0 => levels[i].concurrency > 0
            /\ levels[i].p95 >= EndToEndBudget => levels[i].turns > 0)'
    BY <1>1, <2>1 DEF ReportInv, LevelsInv, EndToEndBudget
  <2>6. Len(levels') <= Len(Planned') /\ levels' \in Seq(SummarySet)
    BY <1>1, <1>2, <2>1
  <2>7. phase' = "level" => at' > 0 /\ Len(levels') = at' - 1
    BY <1>2, <2>1, <2>3
  <2>8. phase' \in {"budget", "between", "done"} => Len(levels') = at'
    BY <2>1, <2>3
  <2>9. LevelsInv'
    BY <2>4, <2>5, <2>6, <2>7, <2>8 DEF LevelsInv
  <2> QED BY <2>2, <2>9
<1>4. CASE EndLevel
  <2>1. /\ phase = "level" /\ phase' = "between" /\ result' = NewResult /\ at' = at
        /\ levels' = Append(levels, Summary)
    BY <1>4 DEF EndLevel
  <2>2. at \in 1..Len(Planned) /\ Len(levels) = at - 1
    BY <1>2, <2>1 DEF ReportInv, LevelsInv
  <2>3. /\ Summary \in SummarySet /\ Summary.concurrency = Planned[at]
        /\ Summary.turns > 0 => Planned[at] > 0
        /\ Summary.p95 >= EndToEndBudget => Summary.turns > 0
    BY <2>2, SummaryType DEF ReportInv
  <2>4. SamplesInv'
    BY <2>1, EmptySeq DEF SamplesInv, NewResult
  <2>5. /\ levels' \in Seq(SummarySet) /\ Len(levels') = at
        /\ \A i \in 1..Len(levels) : levels'[i] = levels[i]
        /\ levels'[at] = Summary
    BY <1>2, <2>1, <2>2, <2>3, AppendProperties
  <2>6. \A i \in 1..Len(levels') :
            /\ levels'[i].concurrency = Planned[i]
            /\ levels'[i].turns > 0 => levels'[i].concurrency > 0
            /\ levels'[i].p95 >= EndToEndBudget => levels'[i].turns > 0
    <3> SUFFICES ASSUME NEW i \in 1..Len(levels')
                 PROVE  /\ levels'[i].concurrency = Planned[i]
                        /\ levels'[i].turns > 0 => levels'[i].concurrency > 0
                        /\ levels'[i].p95 >= EndToEndBudget => levels'[i].turns > 0
      OBVIOUS
    <3>1. CASE i = at
      BY <2>3, <2>5, <3>1
    <3>2. CASE i # at
      <4>1. i \in 1..Len(levels) /\ levels'[i] = levels[i]
        BY <2>2, <2>5, <3>2
      <4> QED BY <4>1 DEF ReportInv, LevelsInv
    <3> QED BY <3>1, <3>2
  <2>7. LevelsInv'
    BY <1>1, <2>1, <2>2, <2>5, <2>6 DEF LevelsInv, StopInv, EndToEndBudget
  <2> QED BY <2>4, <2>7
<1> QED BY <1>3, <1>4

LEMMA BudgetReports == ASSUME BudgetInv, [Next]_vars PROVE BudgetInv'
<1>1. CASE UNCHANGED <<deployment, budget>>
  BY <1>1 DEF BudgetInv, NoBudget
<1>2. CASE AskBudget
  <2>1. deployment' = deployment
    BY <1>2 DEF AskBudget
  <2>2. \/ budget' = NoBudget
        \/ LET claims == GB!Claims(deployment) IN
           budget' = [verdict |-> IF claims = <<>> THEN "no card"
                                  ELSE GB!Verdict(deployment.total, claims),
                      logged |-> GB!Logged(deployment, claims)]
    BY <1>2, Zenon DEF AskBudget
  <2> QED BY <2>1, <2>2 DEF BudgetInv, NoBudget
<1>3. CASE GoOn
  <2>1. budget' = NoBudget /\ deployment' = CHOOSE d \in Deployments : TRUE
    BY <1>3 DEF GoOn
  <2>2. deployment' \in Deployments
    BY <2>1 DEF BudgetInv
  <2> QED BY <2>1, <2>2 DEF BudgetInv, NoBudget
<1>4. CASE \/ \E c \in Callers : Loop(c) \/ StartRefused(c) \/ Begin(c) \/ CannotStart(c)
           \/ Watch \/ DeadlinePasses \/ StartLevel \/ EndLevel \/ UNCHANGED vars
  BY <1>1, <1>4 DEF Loop, StartRefused, Begin, CannotStart, Watch, DeadlinePasses, StartLevel,
                    EndLevel, vars, sweepVars
<1>5. ASSUME NEW c \in Callers, WatchedOver(c) \/ CallOver(c) PROVE UNCHANGED sweepVars
  <2>1. \E outcome, timed : Over(c, outcome, timed)
    BY <1>5, Zenon DEF WatchedOver, CallOver
  <2> QED BY <2>1 DEF Over
<1>6. ASSUME NEW c \in Callers, WatchedOver(c) \/ CallOver(c) PROVE BudgetInv'
  BY <1>1, <1>5, <1>6 DEF sweepVars
<1> QED BY <1>2, <1>3, <1>4, <1>6, Zenon DEF Next

LEMMA ReportKeeps == ASSUME SweepInv, ReportInv, [Next]_vars PROVE ReportInv'
<1>1. DOMAIN result = ResultFields
  BY DEF SweepInv, TallyInv
<1>2. CASE \/ \E c \in Callers : Loop(c) \/ StartRefused(c) \/ Begin(c) \/ CannotStart(c)
           \/ Watch \/ DeadlinePasses \/ AskBudget \/ GoOn \/ UNCHANGED vars
  <2>1. UNCHANGED <<levels, at, untilBreak>>
    BY <1>2 DEF Loop, StartRefused, Begin, CannotStart, Watch, DeadlinePasses, AskBudget, GoOn,
                vars, sweepVars
  <2>2. phase' = phase \/ phase' = "aborted" \/ (phase = "budget" /\ phase' = "between")
    BY <1>2 DEF Loop, StartRefused, Begin, CannotStart, Watch, DeadlinePasses, AskBudget, GoOn,
                vars, sweepVars
  <2>3. result'.endToEnd = result.endToEnd /\ result'.perceived = result.perceived
    <3>1. CASE \E c \in Callers : StartRefused(c) \/ Begin(c)
      BY <1>1, <3>1 DEF StartRefused, Begin, ResultFields
    <3>2. CASE \/ \E c \in Callers : Loop(c) \/ CannotStart(c)
               \/ Watch \/ DeadlinePasses \/ AskBudget \/ GoOn \/ UNCHANGED vars
      BY <3>2 DEF Loop, CannotStart, Watch, DeadlinePasses, AskBudget, GoOn, vars, loopVars
    <3> QED BY <1>2, <3>1, <3>2, Zenon
  <2> QED BY <2>1, <2>2, <2>3, SamplesKept, BudgetReports DEF ReportInv
<1>3. ASSUME NEW c \in Callers, WatchedOver(c) PROVE ReportInv'
  <2>1. phase = "level" /\ doing[c] # "done"
    BY <1>3 DEF WatchedOver
  <2>2. \E outcome, n : \E timed \in Timed(n) : Over(c, outcome, timed)
    BY <1>3, Zenon DEF WatchedOver
  <2> QED BY <2>1, <2>2, OverReports, BudgetReports DEF ReportInv
<1>4. ASSUME NEW c \in Callers, CallOver(c) PROVE ReportInv'
  <2>1. phase = "level" /\ doing[c] # "done"
    BY <1>4 DEF CallOver
  <2>2. \E outcome, n : \E timed \in Timed(n) : Over(c, outcome, timed)
    BY <1>4, Zenon DEF CallOver
  <2> QED BY <2>1, <2>2, OverReports, BudgetReports DEF ReportInv
<1>5. CASE StartLevel \/ EndLevel
  BY <1>5, LevelReports, BudgetReports DEF ReportInv
<1> QED BY <1>2, <1>3, <1>4, <1>5, Zenon DEF Next

LEMMA ReportHolds == Spec => [](SweepInv /\ ReportInv)
<1>1. SweepInv /\ ReportInv /\ [Next]_vars => ReportInv'
  BY ReportKeeps
<1> QED BY <1>1, SweepHolds, ReportStarts, PTL DEF Spec

(* What the report says of the levels, once the sweep is over.             *)
LEMMA BreakFound ==
    ASSUME ReportInv
    PROVE  \/ /\ BreakingPoint.concurrency = 0 /\ BreakingPoint.lastOk = 0
              /\ \A i \in 1..Len(levels) :
                    ~(levels[i].turns > 0 /\ levels[i].p95 >= EndToEndBudget)
           \/ \E k \in 1..Len(levels) :
              /\ BreakingPoint.concurrency = levels[k].concurrency
              /\ BreakingPoint.lastOk = LastOk(levels[k].concurrency)
              /\ levels[k].turns > 0 /\ levels[k].p95 >= EndToEndBudget
              /\ \A i \in 1..Len(levels) :
                    levels[i].turns > 0 /\ levels[i].p95 >= EndToEndBudget => k <= i
<1> DEFINE I == {i \in 1..Len(levels) : levels[i].turns > 0 /\ levels[i].p95 >= EndToEndBudget}
           k == IF I # {} THEN Min(I) ELSE 0
<1>1. Len(levels) \in Nat
  BY LenProperties DEF ReportInv, LevelsInv
<1>2. BreakingPoint = IF k = 0 THEN [concurrency |-> 0, lastOk |-> 0]
                      ELSE [concurrency |-> levels[k].concurrency,
                            lastOk |-> LastOk(levels[k].concurrency)]
  BY Zenon DEF BreakingPoint, SelectInSeq
<1>3. CASE I = {}
  <2>1. k = 0 /\ \A i \in 1..Len(levels) :
                    ~(levels[i].turns > 0 /\ levels[i].p95 >= EndToEndBudget)
    BY <1>3
  <2> HIDE DEF k, I
  <2> QED BY <1>2, <2>1
<1>4. CASE I # {}
  <2>1. I \in SUBSET Nat /\ k = Min(I)
    BY <1>1, <1>4
  <2>2. \A i \in I : i \in 1..Len(levels) /\ levels[i].turns > 0 /\ levels[i].p95 >= EndToEndBudget
    OBVIOUS
  <2>3. \A i \in 1..Len(levels) :
            levels[i].turns > 0 /\ levels[i].p95 >= EndToEndBudget => i \in I
    OBVIOUS
  <2> HIDE DEF k, I
  <2>4. k \in I /\ \A i \in I : k <= i
    BY <1>4, <2>1, Smallest
  <2>5. k \in 1..Len(levels) /\ k # 0
    BY <1>1, <2>2, <2>4
  <2>6. /\ BreakingPoint.concurrency = levels[k].concurrency
        /\ BreakingPoint.lastOk = LastOk(levels[k].concurrency)
    BY <1>2, <2>5
  <2> QED BY <2>2, <2>3, <2>4, <2>5, <2>6
<1> HIDE DEF k, I
<1> QED BY <1>3, <1>4

LEMMA LastOkIs ==
    ASSUME ReportInv, NEW b \in Nat, LastOk(b) > 0
    PROVE  /\ LastOk(b) < b
           /\ \E i \in DOMAIN levels : levels[i].concurrency = LastOk(b) /\ levels[i].within
<1> DEFINE J == {j \in DOMAIN levels : levels[j].concurrency < b /\ levels[j].within}
           X == {0} \cup {levels[i].concurrency : i \in J}
<1>1. \A j \in J : levels[j].concurrency \in 0..b /\ levels[j].concurrency < b
  <2> SUFFICES ASSUME NEW j \in J
               PROVE  levels[j].concurrency \in 0..b /\ levels[j].concurrency < b
    OBVIOUS
  <2>1. levels[j] \in SummarySet
    BY ElementOfSeq, LenProperties DEF ReportInv, LevelsInv
  <2>2. levels[j].concurrency \in Nat
    BY <2>1 DEF SummarySet
  <2> QED BY <2>2
<1>2. X \in SUBSET (0..b) /\ X # {}
  <2> HIDE DEF J
  <2> QED BY <1>1
<1>3. LastOk(b) = Max(X)
  BY DEF LastOk
<1>4. \A x \in X : x = 0 \/ \E i \in J : x = levels[i].concurrency
  OBVIOUS
<1>5. Max(X) \in X
  <2> HIDE DEF X
  <2> QED BY <1>2, Largest
<1> HIDE DEF X
<1>6. LastOk(b) # 0
  OBVIOUS
<1>7. PICK i \in J : LastOk(b) = levels[i].concurrency
  BY <1>3, <1>4, <1>5, <1>6
<1> QED BY <1>1, <1>7

LEMMA BreaksReported == SweepInv /\ ReportInv => StopsAtTheBreak
<1> DEFINE broke == BreakingPoint.concurrency
<1> SUFFICES ASSUME SweepInv, ReportInv, phase = "done", Rising(Planned)
             PROVE  /\ Len(levels) < Len(Planned) =>
                        broke > 0 /\ broke <= levels[Len(levels)].concurrency
                    /\ \A i \in DOMAIN levels :
                        levels[i].turns > 0 /\ (broke = 0 \/ levels[i].concurrency < broke) =>
                            levels[i].p95 < EndToEndBudget
                    /\ BreakingPoint.lastOk > 0 =>
                        BreakingPoint.lastOk < broke
                        /\ \E i \in DOMAIN levels :
                            levels[i].concurrency = BreakingPoint.lastOk /\ levels[i].within
  BY DEF StopsAtTheBreak
<1>1. /\ Len(levels) = at /\ at \in Nat /\ at <= Len(Planned) /\ Len(Planned) \in Nat
      /\ DOMAIN levels = 1..at /\ DOMAIN Planned = 1..Len(Planned)
  BY Plan, LenProperties DEF SweepInv, SweepTypes, ReportInv, LevelsInv
<1>2. \A i \in 1..at : /\ levels[i].concurrency = Planned[i] /\ levels[i].concurrency \in Nat
                       /\ levels[i].turns \in Nat /\ levels[i].p95 \in Int
                       /\ levels[i].turns > 0 => levels[i].concurrency > 0
                       /\ levels[i].p95 >= EndToEndBudget => levels[i].turns > 0
  <2> SUFFICES ASSUME NEW i \in 1..at
               PROVE  /\ levels[i].concurrency = Planned[i] /\ levels[i].concurrency \in Nat
                      /\ levels[i].turns \in Nat /\ levels[i].p95 \in Int
                      /\ levels[i].turns > 0 => levels[i].concurrency > 0
                      /\ levels[i].p95 >= EndToEndBudget => levels[i].turns > 0
    OBVIOUS
  <2>1. levels[i] \in SummarySet
    BY <1>1, ElementOfSeq DEF ReportInv, LevelsInv
  <2> QED BY <1>1, <2>1 DEF SummarySet, ReportInv, LevelsInv
<1>3. ASSUME at < Len(Planned) PROVE at \in 1..at /\ levels[at].p95 >= EndToEndBudget
  <2>0. at \in Int /\ Len(Planned) \in Int
    BY <1>1
  <2>1. at # Len(Planned)
    BY <1>3, <2>0
  <2>2. at > 0 /\ Breaks(levels[at])
    BY <2>1 DEF ReportInv, LevelsInv, StopInv
  <2>3. at \in 1..at
    BY <1>1, <2>2
  <2> QED BY <2>2, <2>3 DEF Breaks
<1>4. CASE /\ broke = 0 /\ BreakingPoint.lastOk = 0
           /\ \A i \in 1..at : ~(levels[i].turns > 0 /\ levels[i].p95 >= EndToEndBudget)
  <2>1. ~(at < Len(Planned))
    BY <1>2, <1>3, <1>4
  <2>2. \A i \in 1..at : levels[i].turns > 0 => levels[i].p95 < EndToEndBudget
    BY <1>2, <1>4 DEF EndToEndBudget
  <2> QED BY <1>1, <1>4, <2>1, <2>2
<1>5. ASSUME NEW k \in 1..at, broke = levels[k].concurrency,
             BreakingPoint.lastOk = LastOk(levels[k].concurrency),
             levels[k].turns > 0, levels[k].p95 >= EndToEndBudget,
             \A i \in 1..at : levels[i].turns > 0 /\ levels[i].p95 >= EndToEndBudget => k <= i
      PROVE  /\ Len(levels) < Len(Planned) =>
                  broke > 0 /\ broke <= levels[Len(levels)].concurrency
             /\ \A i \in DOMAIN levels :
                  levels[i].turns > 0 /\ (broke = 0 \/ levels[i].concurrency < broke) =>
                      levels[i].p95 < EndToEndBudget
             /\ BreakingPoint.lastOk > 0 =>
                  BreakingPoint.lastOk < broke
                  /\ \E i \in DOMAIN levels :
                      levels[i].concurrency = BreakingPoint.lastOk /\ levels[i].within
  <2>1. broke \in Nat /\ broke > 0
    BY <1>2, <1>5
  <2>2. ASSUME NEW i \in 1..at, k <= i PROVE broke <= levels[i].concurrency
    <3>1. CASE k = i
      BY <1>5, <2>1, <3>1
    <3>2. CASE k < i
      <4>1. k \in DOMAIN Planned /\ i \in DOMAIN Planned
        BY <1>1
      <4>2. Planned[k] <= Planned[i]
        BY <3>2, <4>1 DEF Rising
      <4> QED BY <1>2, <1>5, <4>2
    <3> QED BY <2>2, <3>1, <3>2
  <2>3. Len(levels) < Len(Planned) => broke <= levels[Len(levels)].concurrency
    BY <1>1, <1>3, <2>2
  <2>4. ASSUME NEW i \in 1..at, levels[i].turns > 0, levels[i].concurrency < broke
        PROVE  levels[i].p95 < EndToEndBudget
    <3>1. ~(k <= i)
      BY <1>2, <2>1, <2>2, <2>4
    <3>2. ~(levels[i].p95 >= EndToEndBudget)
      BY <1>5, <2>4, <3>1
    <3> QED BY <1>2, <3>2 DEF EndToEndBudget
  <2>5. BreakingPoint.lastOk > 0 =>
            BreakingPoint.lastOk < broke
            /\ \E i \in DOMAIN levels :
                levels[i].concurrency = BreakingPoint.lastOk /\ levels[i].within
    BY <1>5, <2>1, LastOkIs
  <2> QED BY <1>1, <2>1, <2>3, <2>4, <2>5
<1> HIDE DEF broke
<1>6. \/ /\ broke = 0 /\ BreakingPoint.lastOk = 0
         /\ \A i \in 1..at : ~(levels[i].turns > 0 /\ levels[i].p95 >= EndToEndBudget)
      \/ \E k \in 1..at :
            /\ broke = levels[k].concurrency
            /\ BreakingPoint.lastOk = LastOk(levels[k].concurrency)
            /\ levels[k].turns > 0 /\ levels[k].p95 >= EndToEndBudget
            /\ \A i \in 1..at :
                  levels[i].turns > 0 /\ levels[i].p95 >= EndToEndBudget => k <= i
  BY <1>1, BreakFound DEF broke
<1> QED BY <1>4, <1>5, <1>6

LEMMA VerdictsCertain == ReportInv => VerdictIsCertain
<1> SUFFICES ASSUME ReportInv, budget # NoBudget, budget.verdict # "no card"
             PROVE  LET claims == GB!Claims(deployment)
                        worlds == Worlds(claims, deployment.total)
                        fitting == {w \in worlds : SumFunction(w) <= deployment.total} IN
                    /\ budget.verdict = "fits" <=> fitting = worlds
                    /\ budget.verdict = "does not fit" <=> fitting = {}
                    /\ budget.logged = "error" <=> deployment.eu /\ fitting = {}
  BY DEF VerdictIsCertain, Worlds
<1> DEFINE claims == GB!Claims(deployment)
           fitting == {w \in Worlds(claims, deployment.total) : SumFunction(w) <= deployment.total}
<1>1. GB!IsReading(deployment)
  BY SweepAssumption DEF ReportInv, BudgetInv
<1>2. /\ deployment.total \in Nat /\ deployment.eu \in BOOLEAN /\ IsFiniteSet(DOMAIN claims)
      /\ claims \in [DOMAIN claims -> Nat \cup {GB!None}]
  BY <1>1, ClaimsType
<1>3. budget = [verdict |-> IF claims = <<>> THEN "no card"
                            ELSE GB!Verdict(deployment.total, claims),
                logged |-> GB!Logged(deployment, claims)]
  BY DEF ReportInv, BudgetInv
<1> HIDE DEF claims
<1>4. /\ GB!Verdict(deployment.total, claims) \in {"fits", "does not fit", "unknown"}
      /\ GB!Verdict(deployment.total, claims) = "fits"
            <=> fitting = Worlds(claims, deployment.total)
      /\ GB!Verdict(deployment.total, claims) = "does not fit" <=> fitting = {}
  BY <1>2, CertainOf
<1>5. claims # <<>> /\ budget.verdict = GB!Verdict(deployment.total, claims)
  BY <1>3
<1>6. budget.logged = "error"
        <=> deployment.eu /\ GB!Verdict(deployment.total, claims) = "does not fit"
  BY <1>2, <1>3, <1>5 DEF GB!Logged
<1> HIDE DEF fitting
<1>7. /\ budget.verdict = "fits" <=> fitting = Worlds(claims, deployment.total)
      /\ budget.verdict = "does not fit" <=> fitting = {}
      /\ budget.logged = "error" <=> deployment.eu /\ fitting = {}
  BY <1>4, <1>5, <1>6
<1> QED BY <1>7 DEF claims, fitting

(* What is said of a sweep follows from what was measured, for any plan of *)
(* levels, any latencies and any figures of the components: NeverOverfull, *)
(* the breaking point of breaking_point() and _last_ok(), and the verdict  *)
(* of GpuMemoryBudget with the warning that is logged of it.               *)
THEOREM VerdictsSoundAlways == Spec => []VerdictsAreSound
<1>1. SweepInv /\ ReportInv /\ NeverOverfull => VerdictsAreSound
  BY BreaksReported, VerdictsCertain DEF VerdictsAreSound
<1> QED BY <1>1, ReportHolds, NeverOverfullAlways, PTL

================================================================================
