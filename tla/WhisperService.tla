---------------------------- MODULE WhisperService ----------------------------
(***************************************************************************)
(* gpu/whisper_service/app.py: the speech recognition service behind       *)
(* WhisperStt.  One handler per socket and at most one interim task beside *)
(* it run on the event loop; the model's work runs on a thread pool, and a *)
(* semaphore of as many slots as threads lets a final, or an interim when  *)
(* nobody waits, submit it.  Cancelling an interim gives its slot back but *)
(* does not stop its thread.                                               *)
(*                                                                         *)
(* An action is what a task does between two awaits, or what a pool thread *)
(* does before it waits for a lock, a model or a server.  The audio of an  *)
(* utterance is a count of voiced frames, and a text the frames it is of:  *)
(* those after the first `since`, up to the last of `upto`.  /health/deep  *)
(* is a socket that sends one frame and one flush.                         *)
(***************************************************************************)
EXTENDS Naturals, Sequences, FiniteSets, SequencesExt

CONSTANTS
    Sockets,      \* one per call
    Workers,      \* WHISPER_WORKERS
    MaxUtterance, \* MAX_UTTERANCE_S: frames a buffer keeps
    Engines,      \* the engines to consider, among those below
    MaxFlushes,   \* bound: flushes of each socket
    MaxFrames     \* bound: voiced frames of each utterance of each socket

Utterances == UNION {1..(1 + MaxFlushes[s]) : s \in Sockets}

(* A buffered engine (Whisper) transcribes a copy of the utterance; a      *)
(* local one (Voxtral on MLX) steps all its sessions on one thread; a      *)
(* remote one (Voxtral on vLLM) has a connection and a lock per session.   *)
ASSUME WhisperAssumption ==
    /\ IsFiniteSet(Sockets)
    /\ Workers \in Nat \ {0} /\ MaxUtterance \in Nat \ {0}
    /\ Engines \subseteq {"buffered", "local", "remote"}
    /\ MaxFlushes \in [Sockets -> Nat] /\ MaxFrames \in [Sockets -> [Utterances -> Nat]]

VARIABLES
    engine,     \* the transcriber the service was started with
    handler,    \* what each socket's handler waits for
    turn,       \* the utterance each socket's Turn collects
    fed,        \* voiced frames of each utterance
    dropped,    \* how many of them, the oldest, its buffer no longer has
    interim,    \* the interim task of each socket
    permits,    \* the semaphore's value
    waiters,    \* finals waiting for a slot, first come first
    pool,       \* works submitted and not begun
    threads,    \* works on a thread, with how far they are
    results,    \* works whose outcome their task has not seen
    (* The sessions of a streaming engine.                                 *)
    taken,      \* frames the model has been given
    read,       \* frames whose text has been read of it, _text
    lapsed,     \* finish() did not wait for the rest of the text
    failed,     \* _failure is set
    finished,   \* finish() has returned or raised
    connected,  \* the connection is open
    (* History.                                                            *)
    sent,       \* the last transcript sent to each socket
    answers     \* finals sent to each socket

taskVars == <<handler, turn, fed, dropped, interim>>
slotVars == <<permits, waiters>>
workVars == <<pool, threads, results>>
sessionVars == <<taken, read, lapsed, failed, finished, connected>>
sentVars == <<sent, answers>>
vars == <<engine, taskVars, slotVars, workVars, sessionVars, sentVars>>

Frames == {f \in Nat : \E s \in Sockets, u \in Utterances : f <= MaxFrames[s][u]}
Work(kind, s, u) == [kind |-> kind, socket |-> s, turn |-> u]
Works == [kind : {"advance", "finish"}, socket : Sockets, turn : Utterances]
Text(since, upto) == [since |-> since, upto |-> upto]
NoText == Text(0, 0)
Texts == [since : Frames, upto : Frames]
Idle == [at |-> "none", turn |-> 0, audio |-> NoText]

(* threads = 1 if alone else workers; the variant gives every engine all.  *)
ThreadsAlways(e) == Workers
Threads(e) == IF e = "local" THEN 1 ELSE Workers

Interim(text, u) == [final |-> FALSE, turn |-> u, text |-> text]
Final(text, u) == [final |-> TRUE, turn |-> u, text |-> text]

-----------------------------------------------------------------------------
Init ==
    /\ engine \in Engines
    /\ handler = [s \in Sockets |-> "receiving"]
    /\ turn = [s \in Sockets |-> 1]
    /\ fed = [s \in Sockets |-> [u \in Utterances |-> 0]] /\ dropped = fed
    /\ interim = [s \in Sockets |-> Idle]
    /\ permits = Threads(engine) /\ waiters = <<>>
    /\ pool = <<>> /\ threads = {} /\ results = {}
    /\ taken = fed /\ read = fed
    /\ lapsed = {} /\ failed = {} /\ finished = {} /\ connected = {}
    /\ sent = [s \in Sockets |-> Interim(NoText, 1)] /\ answers = [s \in Sockets |-> 0]

(* send(), which holds send_lock until the message is written. *)
Send(s, message) ==
    /\ sent' = [sent EXCEPT ![s] = message]
    /\ answers' = IF message.final THEN [answers EXCEPT ![s] = @ + 1] ELSE answers

-----------------------------------------------------------------------------
(* The semaphore                                                           *)

(* Semaphore.locked(): no value left, or someone is in the queue (one that *)
(* was woken stays there until it runs).                                   *)
Locked == permits = 0 \/ waiters # <<>> \/ \E s \in Sockets : handler[s] = "woken"

Submit(work) == pool' = Append(pool, work)

(* Leaving `async with slots`: the first in the queue is woken with the    *)
(* slot, and runs later.  `still` is the handlers as the caller leaves     *)
(* them.  The variant also keeps the slot it hands on.                     *)
ReleaseTwice(still) ==
    /\ permits' = permits + 1
    /\ handler' = IF waiters = <<>> THEN still ELSE [still EXCEPT ![Head(waiters)] = "woken"]
    /\ waiters' = IF waiters = <<>> THEN waiters ELSE Tail(waiters)

Release(still) ==
    IF waiters = <<>>
    THEN permits' = permits + 1 /\ handler' = still /\ UNCHANGED waiters
    ELSE /\ handler' = [still EXCEPT ![Head(waiters)] = "woken"]
         /\ waiters' = Tail(waiters)
         /\ UNCHANGED permits

-----------------------------------------------------------------------------
(* The handler of a socket                                                 *)

(* Utterance.add() of a buffered turn: the oldest frame goes when there    *)
(* are too many; the variant empties the buffer instead.                   *)
KeepNone(s, u) ==
    dropped' = IF engine = "buffered" /\ fed'[s][u] - dropped[s][u] > MaxUtterance
               THEN [dropped EXCEPT ![s][u] = fed'[s][u]]
               ELSE dropped

KeepNewest(s, u) ==
    dropped' = IF engine = "buffered" /\ fed'[s][u] - dropped[s][u] > MaxUtterance
               THEN [dropped EXCEPT ![s][u] = @ + 1]
               ELSE dropped

(* A voiced frame; an interim is started when none is in progress and one  *)
(* is due, with a copy of the buffer if there is one.                      *)
Frame(s, due) ==
    LET u == turn[s] IN
    /\ handler[s] = "receiving"
    /\ fed[s][u] < MaxFrames[s][u]
    /\ fed' = [fed EXCEPT ![s][u] = @ + 1]
    /\ KeepNewest(s, u)
    /\ due => interim[s] = Idle
    /\ interim' = IF due
                  THEN [interim EXCEPT ![s] =
                          [at |-> "new", turn |-> u, audio |-> Text(dropped'[s][u], fed'[s][u])]]
                  ELSE interim
    /\ UNCHANGED <<engine, handler, turn, slotVars, workVars, sessionVars, sentVars>>

(* interim_task.cancel(): a task that has not run never does; one that     *)
(* waits for its work is woken with the cancellation later.  The variant   *)
(* lets it go on.                                                          *)
CancelNothing(task) == task
Cancel(task) ==
    IF task.at = "new" THEN Idle
    ELSE IF task.at = "deciding" THEN [task EXCEPT !.at = "cancelled"]
    ELSE task

StartTurn(s) ==
    /\ turn[s] <= MaxFlushes[s]
    /\ turn' = [turn EXCEPT ![s] = @ + 1]
    /\ interim' = [interim EXCEPT ![s] = Cancel(@)]

(* A flush of an utterance nobody spoke in needs no model.                 *)
FlushSilence(s) ==
    /\ handler[s] = "receiving" /\ fed[s][turn[s]] = 0
    /\ StartTurn(s)
    /\ Send(s, Final(NoText, turn[s]))
    /\ UNCHANGED <<engine, handler, fed, dropped, slotVars, workVars, sessionVars>>

(* final(): with a slot free the work is submitted at once, before the     *)
(* cancelled interim has run.                                              *)
FlushSpeech(s) ==
    /\ handler[s] = "receiving" /\ fed[s][turn[s]] > 0
    /\ StartTurn(s)
    /\ IF Locked
       THEN /\ waiters' = Append(waiters, s)
            /\ handler' = [handler EXCEPT ![s] = "waiting"]
            /\ UNCHANGED <<permits, pool>>
       ELSE /\ permits' = permits - 1
            /\ Submit(Work("finish", s, turn[s]))
            /\ handler' = [handler EXCEPT ![s] = "deciding"]
            /\ UNCHANGED waiters
    /\ UNCHANGED <<engine, fed, dropped, threads, results, sessionVars, sentVars>>

(* acquire() returns, having woken whoever came while slots were free but  *)
(* it had not yet left the queue; the variant wakes nobody.                *)
WakeNobody(s) == handler' = [handler EXCEPT ![s] = "deciding"] /\ UNCHANGED slotVars
WakeOthers(s) ==
    LET n == IF permits < Len(waiters) THEN permits ELSE Len(waiters) IN
    /\ permits' = permits - n
    /\ waiters' = SubSeq(waiters, n + 1, Len(waiters))
    /\ handler' = [w \in Sockets |->
                      IF w = s THEN "deciding"
                      ELSE IF \E i \in 1..n : waiters[i] = w THEN "woken" ELSE handler[w]]

SlotGranted(s) ==
    /\ handler[s] = "woken"
    /\ WakeOthers(s)
    /\ Submit(Work("finish", s, turn[s] - 1))
    /\ UNCHANGED <<engine, turn, fed, dropped, interim, threads, results, sessionVars, sentVars>>

(* The text of an utterance, as far as it has been read.                   *)
Heard(s, u) == Text(dropped[s][u], read[s][u])

(* The work has returned: the slot goes back and the answer is sent, or    *)
(* the client is gone; a work that raised ends the handler.                *)
FinalReturns(s, gone) ==
    \E r \in results : LET work == r.work  over == gone \/ ~r.ok IN
    /\ handler[s] = "deciding" /\ work = Work("finish", s, turn[s] - 1)
    /\ results' = results \ {r}
    /\ Release([handler EXCEPT ![s] = IF over THEN "closed" ELSE "receiving"])
    /\ interim' = IF over THEN [interim EXCEPT ![s] = Cancel(@)] ELSE interim
    /\ IF over THEN UNCHANGED sentVars ELSE Send(s, Final(Heard(s, work.turn), work.turn))
    /\ UNCHANGED <<engine, turn, fed, dropped, pool, threads, sessionVars>>

(* {"type": "close"} or a lost connection. *)
Disconnect(s) ==
    /\ handler[s] = "receiving"
    /\ handler' = [handler EXCEPT ![s] = "closed"]
    /\ interim' = [interim EXCEPT ![s] = Cancel(@)]
    /\ UNCHANGED <<engine, turn, fed, dropped, slotVars, workVars, sessionVars, sentVars>>

-----------------------------------------------------------------------------
(* The interim task of a socket                                            *)

(* interim(): nothing if a final needs the worker more. *)
InterimBegins(s) ==
    /\ interim[s].at = "new"
    /\ IF Locked
       THEN interim' = [interim EXCEPT ![s] = Idle] /\ UNCHANGED <<permits, pool>>
       ELSE /\ interim' = [interim EXCEPT ![s].at = "deciding"]
            /\ permits' = permits - 1
            /\ Submit(Work("advance", s, interim[s].turn))
    /\ UNCHANGED <<engine, handler, turn, fed, dropped, waiters, threads, results, sessionVars,
                   sentVars>>

(* What an interim has transcribed: a buffered engine, the copy of the     *)
(* audio that was made when the task was; a streaming one, what was read.  *)
Transcribed(s) ==
    IF engine = "buffered" THEN interim[s].audio ELSE Heard(s, interim[s].turn)

(* The text is sent if there is any; an interim that raised says nothing.  *)
InterimReturns(s, text) ==
    \E r \in results : LET work == r.work IN
    /\ interim[s].at = "deciding" /\ work = Work("advance", s, interim[s].turn)
    /\ text => r.ok /\ Transcribed(s).upto > 0
    /\ results' = results \ {r}
    /\ Release(handler)
    /\ interim' = [interim EXCEPT ![s] = Idle]
    /\ IF text THEN Send(s, Interim(Transcribed(s), work.turn)) ELSE UNCHANGED sentVars
    /\ UNCHANGED <<engine, turn, fed, dropped, pool, threads, sessionVars>>

(* The cancelled task gives its slot back; its work is taken out of the    *)
(* pool's queue if no thread has begun it.  The variant keeps the slot.    *)
GiveSlotBackNever == UNCHANGED <<permits, waiters, handler>>
GiveSlotBack == Release(handler)

Withdraw(work) ==
    LET at == {i \in 1..Len(pool) : pool[i] = work} IN
    pool' = IF at = {} THEN pool ELSE RemoveAt(pool, CHOOSE i \in at : TRUE)

InterimEnds(s) ==
    LET work == Work("advance", s, interim[s].turn) IN
    /\ interim[s].at = "cancelled"
    /\ GiveSlotBack
    /\ interim' = [interim EXCEPT ![s] = Idle]
    /\ Withdraw(work)
    /\ results' = {r \in results : r.work # work}
    /\ UNCHANGED <<engine, turn, fed, dropped, threads, sessionVars, sentVars>>

-----------------------------------------------------------------------------
(* The pool                                                                *)

Session(work) == <<work.socket, work.turn>>
On(work, place, ok) == [work |-> work, at |-> place, ok |-> ok]
Stepping(session) == \E t \in threads : Session(t.work) = session /\ t.at = "stepping"
Free(session) == engine = "remote" => ~Stepping(session)

Takes ==
    /\ pool # <<>> /\ Cardinality(threads) < Threads(engine)
    /\ threads' = threads \cup {On(Head(pool), "taken", TRUE)}
    /\ pool' = Tail(pool)
    /\ UNCHANGED <<engine, taskVars, slotVars, results, sessionVars, sentVars>>

(* What a step reads of the utterance: every frame fed so far.  The        *)
(* variant commits without sending the frames that are pending.            *)
TakeAudioOnlyToAdvance(work) ==
    taken' = IF work.kind = "finish" THEN taken
             ELSE [taken EXCEPT ![work.socket][work.turn] = fed[work.socket][work.turn]]
TakeAudio(work) ==
    taken' = [taken EXCEPT ![work.socket][work.turn] = fed[work.socket][work.turn]]

(* A remote session holds its lock across a step, raises again what it     *)
(* failed with, and connects when it has no connection.                    *)
Steps(t) ==
    LET session == Session(t.work)  broken == session \in failed IN
    /\ t.at = "taken" /\ Free(session)
    /\ threads' = (threads \ {t}) \cup {On(t.work, "stepping", ~broken)}
    /\ IF broken THEN UNCHANGED taken ELSE TakeAudio(t.work)
    /\ connected' = IF engine = "remote" /\ ~broken THEN connected \cup {session} ELSE connected
    /\ UNCHANGED <<engine, taskVars, slotVars, pool, results, read, lapsed, failed, finished,
                   sentVars>>

(* A step begun on frames not yet decoded reads what text there is; one    *)
(* that finishes reads all there will be, unless the server is too slow to *)
(* say it is done.  A session finished before has a new connection, with   *)
(* nothing to read.  The variant forgets the text that was not finished.   *)
ReadsAnew(work, done) ==
    LET s == work.socket  u == work.turn IN
    \E n \in 0..taken'[s][u] :
        /\ done => n = taken'[s][u]
        /\ read' = [read EXCEPT ![s][u] = n]

Reads(work, done) ==
    LET s == work.socket  u == work.turn
        last == IF Session(work) \in finished THEN read[s][u] ELSE taken'[s][u] IN
    \E n \in read[s][u]..last :
        /\ done => n = last
        /\ read' = [read EXCEPT ![s][u] = n]

(* The outcome goes to the task that waits for it, if one still does.      *)
Awaited(work) ==
    IF work.kind = "finish" THEN handler[work.socket] = "deciding"
    ELSE interim[work.socket].at # "none" /\ interim[work.socket].turn = work.turn

Leave(t, ok) ==
    /\ threads' = threads \ {t}
    /\ results' = IF Awaited(t.work) THEN results \cup {[work |-> t.work, ok |-> ok]} ELSE results
    /\ finished' = IF t.work.kind = "finish" THEN finished \cup {Session(t.work)} ELSE finished

(* The step is over: it came to its end, or the remote server broke it,    *)
(* which the session remembers, or did not finish in time                  *)
(* (VLLM_FLUSH_TIMEOUT_S).  A local session is fed while it steps, until   *)
(* it has caught up.  A remote finish takes the lock once more to close.   *)
Stepped(t, outcome) ==
    LET session == Session(t.work)  finish == t.work.kind = "finish"
        ok == t.ok /\ outcome # "breaks" IN
    /\ t.at = "stepping"
    /\ outcome # "ends" => engine = "remote" /\ t.ok
    /\ outcome = "lapses" => finish
    /\ IF engine = "local" THEN TakeAudio(t.work) ELSE UNCHANGED taken
    /\ IF ok THEN Reads(t.work, outcome = "ends" /\ (finish \/ engine = "buffered"))
       ELSE UNCHANGED read
    /\ lapsed' = IF outcome = "lapses" THEN lapsed \cup {session} ELSE lapsed
    /\ failed' = IF outcome = "breaks" THEN failed \cup {session} ELSE failed
    /\ connected' = IF outcome = "breaks" THEN connected \ {session} ELSE connected
    /\ IF engine = "remote" /\ finish
       THEN /\ threads' = (threads \ {t}) \cup {On(t.work, "closing", ok)}
            /\ UNCHANGED <<results, finished>>
       ELSE Leave(t, ok)
    /\ UNCHANGED <<engine, taskVars, slotVars, pool, sentVars>>

Closes(t) ==
    /\ t.at = "closing" /\ Free(Session(t.work))
    /\ connected' = connected \ {Session(t.work)}
    /\ Leave(t, t.ok)
    /\ UNCHANGED <<engine, taskVars, slotVars, pool, taken, read, lapsed, failed, sentVars>>

-----------------------------------------------------------------------------
Client ==
    \E s \in Sockets : (\E due \in BOOLEAN : Frame(s, due)) \/ FlushSilence(s) \/ FlushSpeech(s)
                          \/ Disconnect(s)

EventLoop(s) ==
    \/ SlotGranted(s) \/ InterimBegins(s) \/ InterimEnds(s)
    \/ \E gone \in BOOLEAN : FinalReturns(s, gone)
    \/ \E text \in BOOLEAN : InterimReturns(s, text)

Thread(work) ==
    \E t \in threads :
        /\ t.work = work
        /\ \/ Steps(t) \/ Closes(t)
           \/ \E outcome \in {"ends", "breaks", "lapses"} : Stepped(t, outcome)

Service ==
    \/ Takes
    \/ \E s \in Sockets : EventLoop(s)
    \/ \E work \in Works : Thread(work)

Next == Client \/ Service

Spec == Init /\ [][Next]_vars

-----------------------------------------------------------------------------
TypeOK ==
    /\ engine \in Engines
    /\ handler \in [Sockets -> {"receiving", "waiting", "woken", "deciding", "closed"}]
    /\ turn \in [Sockets -> Utterances]
    /\ {fed, dropped, taken, read} \subseteq [Sockets -> [Utterances -> Frames]]
    /\ interim \in [Sockets -> [at : {"none", "new", "deciding", "cancelled"},
                                turn : {0} \cup Utterances, audio : Texts]]
    /\ permits \in 0..Threads(engine)
    /\ {waiters[i] : i \in 1..Len(waiters)} \subseteq Sockets
    /\ {pool[i] : i \in 1..Len(pool)} \subseteq Works
    /\ threads \subseteq [work : Works, at : {"taken", "stepping", "closing"}, ok : BOOLEAN]
    /\ results \subseteq [work : Works, ok : BOOLEAN]
    /\ sent \in [Sockets -> [final : BOOLEAN, turn : Utterances, text : Texts]]
    /\ answers \in [Sockets -> Nat]
    /\ {lapsed, failed, finished, connected} \subseteq SUBSET (Sockets \X Utterances)

(* Every slot is free or held by one interim or one final, however many    *)
(* interims are cancelled and whichever of slot, cancellation and result   *)
(* comes first; a final waits only while all slots are taken or about to   *)
(* be handed on.                                                           *)
SlotsConserved ==
    /\ Threads(engine) = permits
          + Cardinality({s \in Sockets : interim[s].at \in {"deciding", "cancelled"}})
          + Cardinality({s \in Sockets : handler[s] \in {"woken", "deciding"}})
    /\ waiters # <<>> => permits = 0 \/ \E s \in Sockets : handler[s] = "woken"

(* "A flush is answered exactly once": a socket's finals come in the order *)
(* of its utterances, and no interim of an utterance comes after its final.*)
AnswersInOrder ==
    \A s \in Sockets :
        /\ sent[s].turn = IF sent[s].final THEN answers[s] ELSE answers[s] + 1
        /\ answers[s] <= turn[s] - 1

(* A flush is answered with the text of all the audio before it, whatever  *)
(* an interim was doing, but for what the 30 s of a buffer cannot hold and *)
(* what a remote server had not said within the flush timeout: "a flush    *)
(* must not answer with the text from before the server broke".            *)
FinalIsWhole ==
    \A s \in Sockets : sent[s].final =>
        LET text == sent[s].text  frames == fed[s][sent[s].turn] IN
        /\ text.upto = frames \/ (engine = "remote" /\ <<s, sent[s].turn>> \in lapsed)
        /\ IF engine = "buffered" /\ frames > MaxUtterance
           THEN text.since = frames - MaxUtterance
           ELSE text.since = 0

(* What has been said of an utterance is not taken back: an interim, and   *)
(* the final even when its flush timed out, is of no less of the audio     *)
(* than what was sent before it.                                           *)
NothingTakenBack ==
    [][\A s \in Sockets :
        sent'[s].turn = sent[s].turn => sent'[s].text.upto >= sent[s].text.upto]_vars

(* "Keeps a cancelled interim ordered ahead of the flush behind it": with  *)
(* a model of its own the service steps one session at a time, and none    *)
(* after its finish.                                                       *)
LocalStepsInOrder ==
    engine = "local" =>
        LET stepping == {t \in threads : t.at = "stepping"} IN
        Cardinality(stepping) <= 1 /\ \A t \in stepping : Session(t.work) \notin finished

(* No flush is left with everyone waiting for everyone: while a handler    *)
(* waits for a slot, a thread or a result, some step of the service is     *)
(* possible, without the help of any client.  The service's own steps are  *)
(* finitely many, so every flush is answered or its socket closed.         *)
NobodyStuck ==
    (\E s \in Sockets : handler[s] \in {"waiting", "woken", "deciding"}) => ENABLED Service

(* Slots, for at most two interims and finals a socket, none given back    *)
(* twice.                                                                  *)
SlotsSafe == TypeOK /\ SlotsConserved

(* Whatever thread an interim is on when it is cancelled, a flush is       *)
(* answered once, in order, with what can be said of the audio before it.  *)
AnswersFaithful == AnswersInOrder /\ FinalIsWhole /\ LocalStepsInOrder
=============================================================================
