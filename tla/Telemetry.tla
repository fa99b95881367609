------------------------------ MODULE Telemetry ------------------------------
(***************************************************************************)
(* backend/infrastructure/telemetry/: the live events of one call, from    *)
(* the process that runs it to a browser.  HttpMetricsSink queues them and *)
(* posts them one at a time to the API, whose CompositeMetricsSink hands   *)
(* each to the Prometheus gauge and to InMemoryMetricsSink, which keeps a  *)
(* short history and feeds the queues of the SSE streams; the browser's    *)
(* EventSource folds what it reads into its panel and reconnects by itself.*)
(*                                                                         *)
(* Event 1 is "started", event Ended is "ended", and those between are      *)
(* turns and ticks.  Nothing is retried, and the API may be slow, down or  *)
(* restarted: a post is answered, fails, or times out, and then it may     *)
(* still arrive later.                                                     *)
(***************************************************************************)
EXTENDS Integers, Sequences, FiniteSets, SequencesExt

CONSTANTS
    Ended,         \* bound: the number of the "ended" event
    QueueSize,     \* HttpMetricsSink's queue_size
    Replay,        \* InMemoryMetricsSink's replay
    StreamSize,    \* InMemoryMetricsSink's subscriber_queue
    MaxTimeouts,   \* bound: posts that time out
    MaxRestarts,   \* bound: restarts of the API
    MaxDrops       \* bound: connections the browser loses

ASSUME EventsAssumption == Ended \in Nat /\ Ended > 1
ASSUME QueueAssumption == QueueSize \in Nat \ {0}
(* subscribe() puts the history without waiting; the defaults are 200, 500.*)
ASSUME ReplayAssumption == Replay \in Nat \ {0} /\ StreamSize \in Nat /\ Replay <= StreamSize

VARIABLES
    emitted,    \* events the call has emitted so far
    caller,     \* the call's process: calling, closing, closed
    queue,      \* HttpMetricsSink._queue
    drain,      \* its task: none, waiting, posting, dead or cancelled
    posting,    \* the event being posted, or None
    dropped,    \* HttpMetricsSink.dropped
    late,       \* posts given up on that the API has yet to read
    trouble,    \* events dropped, failed, given up on or left behind
    history,    \* InMemoryMetricsSink._history
    ingested,   \* what this API process has taken in, in order
    gauge,      \* voice_active_calls
    closingSeen,\* the call is in PrometheusMetricsSink._closing_seen
    conn,       \* the EventSource: closed, connecting, open or finished
    stream,     \* the queue of its SSE response
    lagged,     \* the stream lost events: overflow, or older than the replay
    read,       \* what this connection has read
    panel,      \* LiveState.turns, in their order
    ended,      \* LiveState.ended
    timeouts, restarts, drops

sinkVars == <<queue, drain, posting, dropped>>
apiVars == <<history, ingested, gauge, closingSeen>>
browserVars == <<conn, lagged, read, panel, ended>>
bounds == <<timeouts, restarts, drops>>
vars == <<emitted, caller, sinkVars, late, trouble, apiVars, browserVars, stream, bounds>>

Events == 1..Ended
Turns == 2..(Ended - 1)
None == 0

Init ==
    /\ emitted = 0 /\ caller = "calling"
    /\ queue = <<>> /\ drain = "none" /\ posting = None /\ dropped = 0
    /\ late = {} /\ trouble = {}
    /\ history = <<>> /\ ingested = <<>> /\ gauge = 0 /\ closingSeen = FALSE
    /\ conn = "closed" /\ stream = <<>> /\ lagged = FALSE /\ read = <<>>
    /\ panel = <<>> /\ ended = FALSE
    /\ timeouts = 0 /\ restarts = 0 /\ drops = 0

-----------------------------------------------------------------------------
(* HttpMetricsSink, in the process of the call                             *)

(* emit(): (re)start the task, then put_nowait or count a drop; it never   *)
(* waits.  The variant has an unbounded queue.                             *)
EmitUnbounded ==
    /\ caller = "calling" /\ emitted < Ended
    /\ emitted' = emitted + 1
    /\ drain' = IF drain \in {"none", "dead"} THEN "waiting" ELSE drain
    /\ queue' = Append(queue, emitted + 1)
    /\ UNCHANGED <<dropped, trouble, caller, posting, late, apiVars, browserVars, stream, bounds>>

Emit ==
    /\ caller = "calling" /\ emitted < Ended
    /\ emitted' = emitted + 1
    /\ drain' = IF drain \in {"none", "dead"} THEN "waiting" ELSE drain
    /\ IF Len(queue) < QueueSize
       THEN queue' = Append(queue, emitted + 1) /\ UNCHANGED <<dropped, trouble>>
       ELSE /\ dropped' = dropped + 1
            /\ trouble' = trouble \cup {emitted + 1}
            /\ UNCHANGED queue
    /\ UNCHANGED <<caller, posting, late, apiVars, browserVars, stream, bounds>>

Take ==
    /\ drain = "waiting" /\ queue # <<>>
    /\ posting' = Head(queue)
    /\ queue' = Tail(queue)
    /\ drain' = "posting"
    /\ UNCHANGED <<emitted, caller, dropped, late, trouble, apiVars, browserVars,
                   stream, bounds>>

PostOver == posting' = None /\ drain' = "waiting"

-----------------------------------------------------------------------------
(* The sinks of the API                                                    *)

(* A deque(maxlen=n) and a full stream drop their oldest event for a new   *)
(* one; the variant refuses the new one.                                   *)
KeepOldest(s, e, n) == IF Len(s) < n THEN Append(s, e) ELSE s

Keep(s, e, n) == IF Len(s) < n THEN Append(s, e) ELSE Append(Tail(s), e)

(* InMemoryMetricsSink.emit: "drop its oldest event", with the stream open.*)
FeedStream(e) ==
    IF conn = "open"
    THEN /\ stream' = Keep(stream, e, StreamSize)
         /\ lagged' = (lagged \/ Len(stream) = StreamSize)
    ELSE UNCHANGED <<stream, lagged>>

(* PrometheusMetricsSink.emit, as far as the gauge goes; the variant       *)
(* counts only the end of a call.                                          *)
CountEnds(e) ==
    /\ gauge' = gauge - (IF e = Ended /\ ~closingSeen THEN 1 ELSE 0)
    /\ closingSeen' = (closingSeen \/ e = Ended)

Count(e) ==
    /\ gauge' = gauge + (IF e = 1 THEN 1 ELSE 0)
                      - (IF e = Ended /\ ~closingSeen THEN 1 ELSE 0)
    /\ closingSeen' = (closingSeen \/ e = Ended)

(* ingest(): CompositeMetricsSink.emit; neither sink waits in between.     *)
Ingest(e) ==
    /\ history' = Keep(history, e, Replay)
    /\ ingested' = Append(ingested, e)
    /\ Count(e)
    /\ FeedStream(e)
    /\ UNCHANGED <<conn, read, panel, ended>>

-----------------------------------------------------------------------------
(* _drain(): the outcomes of a post                                        *)

PostAnswered ==
    /\ drain = "posting"
    /\ Ingest(posting)
    /\ PostOver
    /\ UNCHANGED <<emitted, caller, queue, dropped, late, trouble, bounds>>

(* No connection, or a status the task does not look at (a wrong token).   *)
PostFails ==
    /\ drain = "posting"
    /\ trouble' = trouble \cup {posting}
    /\ PostOver
    /\ UNCHANGED <<emitted, caller, queue, dropped, late, apiVars, browserVars,
                   stream, bounds>>

(* The client gives up after 2 s on a request the API has not read yet;    *)
(* the variant posts it again.                                             *)
PostTimesOutAndRetries ==
    /\ drain = "posting" /\ timeouts < MaxTimeouts
    /\ timeouts' = timeouts + 1
    /\ trouble' = trouble \cup {posting}
    /\ late' = late \cup {posting}
    /\ UNCHANGED <<emitted, caller, sinkVars, apiVars, browserVars, stream, restarts, drops>>

PostTimesOut ==
    /\ drain = "posting" /\ timeouts < MaxTimeouts
    /\ timeouts' = timeouts + 1
    /\ trouble' = trouble \cup {posting}
    /\ late' = late \cup {posting}
    /\ PostOver
    /\ UNCHANGED <<emitted, caller, queue, dropped, apiVars, browserVars, stream,
                   restarts, drops>>

(* Anything but an httpx.HTTPError ends the task; emit() makes another.    *)
DrainDies ==
    /\ drain = "posting"
    /\ trouble' = trouble \cup {posting}
    /\ posting' = None
    /\ drain' = "dead"
    /\ UNCHANGED <<emitted, caller, queue, dropped, late, apiVars, browserVars,
                   stream, bounds>>

ArriveLate(e) ==
    /\ e \in late
    /\ late' = late \ {e}
    /\ Ingest(e)
    /\ UNCHANGED <<emitted, caller, sinkVars, trouble, bounds>>

-----------------------------------------------------------------------------
(* aclose(), once the call is over                                         *)

BeginClose ==
    /\ caller = "calling" /\ emitted = Ended
    /\ caller' = "closing"
    /\ UNCHANGED <<emitted, sinkVars, late, trouble, apiVars, browserVars, stream, bounds>>

(* queue.join() has everything posted, or its 2 s pass, or there is no     *)
(* live task to wait for.  Cancelling the task abandons the post it is in, *)
(* which the API may or may not have read.  The variant waits for the join *)
(* without a limit.                                                        *)
CloseWhenJoined ==
    /\ caller = "closing"
    /\ queue = <<>> /\ posting = None
    /\ caller' = "closed"
    /\ drain' = IF drain = "none" THEN "none" ELSE "cancelled"
    /\ UNCHANGED <<emitted, queue, posting, dropped, late, trouble, apiVars, browserVars,
                   stream, bounds>>

(* The rest of aclose(), with or without the queue's join.  That it raises *)
(* again what a dead drain task died of, and so leaves the client open, is *)
(* no event's business: the caller has sent its last.                      *)
FinishClose ==
    /\ caller = "closing"
    /\ caller' = "closed"
    /\ drain' = IF drain = "none" THEN "none" ELSE "cancelled"
    /\ trouble' = trouble \cup ToSet(queue) \cup ({posting} \ {None})
    /\ late' \in {late, late \cup ({posting} \ {None})}
    /\ posting' = None
    /\ UNCHANGED <<emitted, queue, dropped, apiVars, browserVars, stream, bounds>>

-----------------------------------------------------------------------------
(* The API restarts: counters, history and streams are gone, and so are    *)
(* the requests on their way.                                              *)
Restart ==
    /\ restarts < MaxRestarts
    /\ restarts' = restarts + 1
    /\ history' = <<>> /\ ingested' = <<>> /\ gauge' = 0 /\ closingSeen' = FALSE
    /\ late' = {}
    /\ conn' = IF conn = "open" THEN "connecting" ELSE conn
    /\ stream' = <<>>
    /\ UNCHANGED <<emitted, caller, sinkVars, trouble, lagged, read, panel, ended,
                   timeouts, drops>>

-----------------------------------------------------------------------------
(* live_metrics() and useLiveMetrics()                                     *)

Open ==
    /\ conn = "closed"
    /\ conn' = "connecting"
    /\ UNCHANGED <<emitted, caller, sinkVars, late, trouble, apiVars, lagged, read, panel,
                   ended, stream, bounds>>

(* subscribe(): the history is replayed and the queue registered in one    *)
(* step.  The variants replay nothing, or what it was an event ago.        *)
SubscribeLive ==
    /\ conn = "connecting"
    /\ conn' = "open"
    /\ stream' = <<>>
    /\ read' = <<>>
    /\ lagged' = (Len(ingested) > Replay)
    /\ UNCHANGED <<emitted, caller, sinkVars, late, trouble, apiVars, panel, ended, bounds>>

SubscribeStale ==
    /\ conn = "connecting"
    /\ conn' = "open"
    /\ stream' = IF history = <<>> THEN <<>> ELSE Front(history)
    /\ read' = <<>>
    /\ lagged' = (Len(ingested) > Replay)
    /\ UNCHANGED <<emitted, caller, sinkVars, late, trouble, apiVars, panel, ended, bounds>>

Subscribe ==
    /\ conn = "connecting"
    /\ conn' = "open"
    /\ stream' = history
    /\ read' = <<>>
    /\ lagged' = (Len(ingested) > Replay)
    /\ UNCHANGED <<emitted, caller, sinkVars, late, trouble, apiVars, panel, ended, bounds>>

(* A turn replaces the one with its index, and the list is sorted: the     *)
(* smaller ones stay before it, the larger ones after it.  The variant     *)
(* only adds it.                                                           *)
Smaller(turns, e) == Cardinality({i \in DOMAIN turns : turns[i] < e})

AddTurn(turns, e) ==
    Append(SubSeq(turns, 1, Smaller(turns, e)), e)
        \o SubSeq(turns, Smaller(turns, e) + 1, Len(turns))

ReplaceTurn(turns, e) ==
    Append(SubSeq(turns, 1, Smaller(turns, e)), e)
        \o SubSeq(turns, Smaller(turns, e + 1) + 1, Len(turns))

(* One event: the stream ends after "ended" (unsubscribe in its finally),  *)
(* and the browser closes.                                                 *)
Deliver ==
    /\ conn = "open" /\ stream # <<>>
    /\ LET e == Head(stream) IN
        /\ read' = Append(read, e)
        /\ panel' = IF e \in Turns THEN ReplaceTurn(panel, e) ELSE panel
        /\ ended' = (ended \/ e = Ended)
        /\ conn' = IF e = Ended THEN "finished" ELSE "open"
        /\ stream' = IF e = Ended THEN <<>> ELSE Tail(stream)
    /\ UNCHANGED <<emitted, caller, sinkVars, late, trouble, apiVars, lagged, bounds>>

(* The connection breaks; EventSource connects again.                      *)
LoseConnection ==
    /\ conn = "open" /\ drops < MaxDrops
    /\ drops' = drops + 1
    /\ conn' = "connecting"
    /\ stream' = <<>>
    /\ UNCHANGED <<emitted, caller, sinkVars, late, trouble, apiVars, lagged, read, panel,
                   ended, timeouts, restarts>>

-----------------------------------------------------------------------------
Sink == Emit \/ Take \/ PostAnswered \/ PostFails \/ PostTimesOut \/ DrainDies

Next ==
    \/ Sink \/ BeginClose \/ FinishClose
    \/ \E e \in Events : ArriveLate(e)
    \/ Restart
    \/ Open \/ Subscribe \/ Deliver \/ LoseConnection

(* The call goes on and ends, the task runs, a timeout fires, the browser  *)
(* retries and reads; nobody has to open a panel, and a late post need not *)
(* arrive.                                                                 *)
Fairness ==
    /\ WF_vars(Emit) /\ WF_vars(BeginClose) /\ WF_vars(FinishClose)
    /\ WF_vars(Take) /\ WF_vars(PostAnswered)
    /\ WF_vars(Subscribe) /\ WF_vars(Deliver)

Spec == Init /\ [][Next]_vars /\ Fairness

-----------------------------------------------------------------------------
TypeOK ==
    /\ emitted \in 0..Ended
    /\ caller \in {"calling", "closing", "closed"}
    /\ drain \in {"none", "waiting", "posting", "dead", "cancelled"}
    /\ posting \in Events \cup {None} /\ (posting # None <=> drain = "posting")
    /\ Len(queue) <= QueueSize /\ Len(history) <= Replay /\ Len(stream) <= StreamSize
    /\ late \subseteq trouble /\ trouble \subseteq Events
    /\ conn \in {"closed", "connecting", "open", "finished"}

(* Nothing is duplicated: the API takes in each event at most once, and    *)
(* those posted without trouble in the order of the call.                  *)
IngestedOnceInOrder ==
    /\ IsInjective(ingested)
    /\ \A i, j \in DOMAIN ingested :
        i < j /\ {ingested[i], ingested[j]} \cap trouble = {} => ingested[i] < ingested[j]

(* "A browser that connects a moment after the call starts still sees the  *)
(* greeting": between the replay and the live events nothing is missing    *)
(* and nothing comes twice, unless more than the replay had gone by or the *)
(* browser was so slow that its queue overflowed.                          *)
NoSeamInTheStream ==
    conn = "open" =>
        IF lagged
        THEN \E k \in 0..Len(ingested) : stream = SubSeq(ingested, k + 1, Len(ingested))
        ELSE read \o stream = ingested

(* The panel shows each turn once and in order, however often the stream   *)
(* was replayed to it.                                                     *)
PanelOncePerTurn == \A i, j \in DOMAIN panel : i < j => panel[i] < panel[j]

(* A browser that saw the call to its end, on one connection that kept up  *)
(* and with no event in trouble, has every turn of it.                     *)
PanelComplete ==
    ended /\ trouble = {} /\ ~lagged /\ restarts = 0 => ToSet(panel) = Turns

(* The gauge of active calls is back at zero after the call, unless one of *)
(* its two ends never reached this API process.                            *)
GaugeSettles ==
    caller = "closed" /\ late = {} /\ restarts = 0 =>
        \/ gauge = 0
        \/ {1, Ended} \ ToSet(ingested) # {}

(* "A slow or down API drops metrics, never audio": the call, and the      *)
(* closing of its sink, come to an end whatever the API does.              *)
CallAlwaysCloses == <>(caller = "closed")

(* A panel that is open when the call's end reaches the API is told, even  *)
(* if it had fallen behind or has to connect again.                        *)
EndReachesPanel ==
    conn # "closed" /\ Ended \in ToSet(ingested) ~>
        conn = "finished" \/ Ended \notin ToSet(ingested)

(* The API takes in the events of a call once, in order but for those in   *)
(* trouble, and its gauge comes back to zero.                              *)
EventsOnce == TypeOK /\ IngestedOnceInOrder /\ GaugeSettles

(* What a browser shows is the call: replay and live events meet without a *)
(* gap or repetition, every turn is there once, and all are when nothing   *)
(* was lost.                                                               *)
PanelFaithful == NoSeamInTheStream /\ PanelOncePerTurn /\ PanelComplete

(* A call comes to its end whatever the API does, and a panel that is open *)
(* learns of it.                                                           *)
EndIsReached == CallAlwaysCloses /\ EndReachesPanel
=============================================================================
