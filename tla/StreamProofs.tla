---------------------------- MODULE StreamProofs -----------------------------
(***************************************************************************)
(* What the two streams of a call promise, for any number of things said   *)
(* and any queue.  Of speech (WebSocketStt): every flush has its one       *)
(* answer or an armed timer, the server's own answer holds every word said *)
(* before the flush, and the stream implements the safety part of          *)
(* FlushContract.  Of live events (Telemetry): the API takes each in once, *)
(* in order, and a browser's panel shows the call.                         *)
(***************************************************************************)
EXTENDS WebSocketStt, Telemetry, SequenceTheorems, FiniteSetTheorems, WellFoundedInduction, TLAPS

-----------------------------------------------------------------------------
(***************************************************************************)
(* The stream of speech (WebSocketStt).                                    *)
(***************************************************************************)
(* What is on the queue, on the way to the client and to the server.       *)
EventSet == [text : SUBSET Nat, final : BOOLEAN, flushed : BOOLEAN, answers : Nat, asker : Nat]
MessageSet == [text : SUBSET Nat, final : BOOLEAN, asker : Nat]
RequestSet == [kind : {"word", "flush", "close"}, n : Nat]
EventSeqs == Seq(EventSet)
MessageSeqs == Seq(MessageSet)
RequestSeqs == Seq(RequestSet)
NatSeqs == Seq(Nat)

LEMMA EventAdded ==
    ASSUME NEW o \in EventSeqs, NEW e \in EventSet
    PROVE  /\ Append(o, e) \in EventSeqs /\ Len(o) \in Nat /\ Len(Append(o, e)) = Len(o) + 1
           /\ \A i \in 1..Len(o) : Append(o, e)[i] = o[i]
           /\ Append(o, e)[Len(o) + 1] = e
BY AppendProperties, LenProperties DEF EventSeqs

LEMMA MessageAdded ==
    ASSUME NEW d \in MessageSeqs, NEW m \in MessageSet
    PROVE  /\ Append(d, m) \in MessageSeqs /\ Len(d) \in Nat /\ Len(Append(d, m)) = Len(d) + 1
           /\ \A i \in 1..Len(d) : Append(d, m)[i] = d[i]
           /\ Append(d, m)[Len(d) + 1] = m
BY AppendProperties, LenProperties DEF MessageSeqs

LEMMA RequestAdded ==
    ASSUME NEW u \in RequestSeqs, NEW r \in RequestSet
    PROVE  /\ Append(u, r) \in RequestSeqs /\ Len(u) \in Nat /\ Len(Append(u, r)) = Len(u) + 1
           /\ \A i \in 1..Len(u) : Append(u, r)[i] = u[i]
           /\ Append(u, r)[Len(u) + 1] = r
BY AppendProperties, LenProperties DEF RequestSeqs

LEMMA NumberAdded ==
    ASSUME NEW p \in NatSeqs, NEW n \in Nat
    PROVE  /\ Append(p, n) \in NatSeqs /\ Len(p) \in Nat /\ Len(Append(p, n)) = Len(p) + 1
           /\ \A i \in 1..Len(p) : p[i] \in Nat /\ Append(p, n)[i] = p[i]
           /\ Append(p, n)[Len(p) + 1] = n
BY AppendProperties, LenProperties, ElementOfSeq DEF NatSeqs

LEMMA MessageTaken ==
    ASSUME NEW d \in MessageSeqs, d # <<>>
    PROVE  /\ Head(d) \in MessageSet /\ Head(d) = d[1] /\ Tail(d) \in MessageSeqs
           /\ Len(d) \in Nat /\ Len(d) >= 1 /\ Len(Tail(d)) = Len(d) - 1
           /\ \A i \in 1..Len(Tail(d)) : Tail(d)[i] = d[i + 1]
<1>1. d \in Seq(MessageSet)
  BY DEF MessageSeqs
<1>2. /\ Head(d) \in MessageSet /\ Tail(d) \in Seq(MessageSet) /\ Len(Tail(d)) = Len(d) - 1
      /\ \A i \in 1..Len(Tail(d)) : Tail(d)[i] = d[i + 1]
  BY <1>1, HeadTailProperties
<1>3. Len(d) \in Nat /\ Len(d) # 0
  BY <1>1, EmptySeq, LenProperties
<1>4. Head(d) = d[1]
  BY <1>1
<1> QED BY <1>2, <1>3, <1>4 DEF MessageSeqs

LEMMA RequestTaken ==
    ASSUME NEW u \in RequestSeqs, u # <<>>
    PROVE  /\ Head(u) \in RequestSet /\ Head(u) = u[1] /\ Tail(u) \in RequestSeqs
           /\ Len(u) \in Nat /\ Len(u) >= 1 /\ Len(Tail(u)) = Len(u) - 1
           /\ \A i \in 1..Len(Tail(u)) : Tail(u)[i] = u[i + 1]
<1>1. u \in Seq(RequestSet)
  BY DEF RequestSeqs
<1>2. /\ Head(u) \in RequestSet /\ Tail(u) \in Seq(RequestSet) /\ Len(Tail(u)) = Len(u) - 1
      /\ \A i \in 1..Len(Tail(u)) : Tail(u)[i] = u[i + 1]
  BY <1>1, HeadTailProperties
<1>3. Len(u) \in Nat /\ Len(u) # 0
  BY <1>1, EmptySeq, LenProperties
<1>4. Head(u) = u[1]
  BY <1>1
<1> QED BY <1>2, <1>3, <1>4 DEF RequestSeqs

LEMMA NumberTaken ==
    ASSUME NEW p \in NatSeqs, p # <<>>
    PROVE  /\ Head(p) \in Nat /\ Head(p) = p[1] /\ Tail(p) \in NatSeqs
           /\ Len(p) \in Nat /\ Len(p) >= 1 /\ Len(Tail(p)) = Len(p) - 1
           /\ \A i \in 1..Len(Tail(p)) : Tail(p)[i] = p[i + 1]
<1>1. p \in Seq(Nat)
  BY DEF NatSeqs
<1>2. /\ Head(p) \in Nat /\ Tail(p) \in Seq(Nat) /\ Len(Tail(p)) = Len(p) - 1
      /\ \A i \in 1..Len(Tail(p)) : Tail(p)[i] = p[i + 1]
  BY <1>1, HeadTailProperties
<1>3. Len(p) \in Nat /\ Len(p) # 0
  BY <1>1, EmptySeq, LenProperties
<1>4. Head(p) = p[1]
  BY <1>1
<1> QED BY <1>2, <1>3, <1>4 DEF NatSeqs

-----------------------------------------------------------------------------
(* Part 1: the answers.  Of n flushes those on the queue o are answered,   *)
(* in order, and those in p, the last ones, are not.                       *)
AnsweredAt(o) == {i \in 1..Len(o) : o[i].flushed}

Answers(o, p, n) ==
    /\ o \in EventSeqs /\ p \in NatSeqs /\ n \in Nat /\ Len(p) <= n
    /\ \A i \in 1..Len(p) : p[i] = (n - Len(p)) + i
    /\ \A i \in 1..Len(o) : o[i].flushed => o[i].answers \in 1..(n - Len(p))
    /\ \A i, j \in 1..Len(o) : i < j /\ o[i].flushed /\ o[j].flushed => o[i].answers < o[j].answers
    /\ \A k \in 1..(n - Len(p)) : \E i \in 1..Len(o) : o[i].flushed /\ o[i].answers = k
    /\ Cardinality(AnsweredAt(o)) = n - Len(p)

LEMMA AnswersNone == Answers(<<>>, <<>>, 0)
<1>1. <<>> \in EventSeqs /\ <<>> \in NatSeqs /\ Len(<<>>) = 0
  BY EmptySeq DEF EventSeqs, NatSeqs
<1>2. AnsweredAt(<<>>) = {}
  BY DEF AnsweredAt
<1> QED BY <1>1, <1>2, FS_EmptySet DEF Answers

LEMMA AnswersAsked ==
    ASSUME NEW o, NEW p, NEW n, Answers(o, p, n)
    PROVE  Answers(o, Append(p, n + 1), n + 1)
<1> DEFINE q == Append(p, n + 1)
<1>1. n \in Nat /\ p \in NatSeqs /\ o \in EventSeqs /\ n + 1 \in Nat
  BY DEF Answers
<1>2. /\ q \in NatSeqs /\ Len(p) \in Nat /\ Len(q) = Len(p) + 1
      /\ \A i \in 1..Len(p) : p[i] \in Nat /\ q[i] = p[i]
      /\ q[Len(p) + 1] = n + 1
  BY <1>1, NumberAdded
<1> HIDE DEF q
<1>3. (n + 1) - Len(q) = n - Len(p) /\ Len(q) <= n + 1
  BY <1>1, <1>2 DEF Answers
<1>4. ASSUME NEW i \in 1..Len(q) PROVE q[i] = (n - Len(p)) + i
  <2>1. i \in 1..Len(p) \/ i = Len(p) + 1
    BY <1>2
  <2>2. CASE i \in 1..Len(p)
    BY <1>2, <2>2 DEF Answers
  <2>3. CASE i = Len(p) + 1
    BY <1>1, <1>2, <2>3
  <2> QED BY <2>1, <2>2, <2>3
<1>5. Answers(o, q, n + 1)
  BY <1>1, <1>2, <1>3, <1>4 DEF Answers
<1> QED BY <1>5 DEF q

(* The oldest flush without an answer is given one.                        *)
LEMMA AnswersGiven ==
    ASSUME NEW o, NEW p, NEW n, Answers(o, p, n), p # <<>>,
           NEW e \in EventSet, e.flushed, e.answers = Head(p)
    PROVE  /\ Answers(Append(o, e), Tail(p), n)
           /\ Cardinality(AnsweredAt(Append(o, e))) = Cardinality(AnsweredAt(o)) + 1
           /\ Cardinality(AnsweredAt(o)) \in Nat /\ Cardinality(AnsweredAt(o)) < n
<1> DEFINE r == Append(o, e)
           t == Tail(p)
<1>1. n \in Nat /\ p \in NatSeqs /\ o \in EventSeqs
  BY DEF Answers
<1>2. /\ r \in EventSeqs /\ Len(o) \in Nat /\ Len(r) = Len(o) + 1
      /\ \A i \in 1..Len(o) : r[i] = o[i]
      /\ r[Len(o) + 1] = e
  BY <1>1, EventAdded
<1>3. /\ Head(p) = p[1] /\ t \in NatSeqs /\ Len(p) \in Nat /\ Len(p) >= 1
      /\ Len(t) = Len(p) - 1 /\ \A i \in 1..Len(t) : t[i] = p[i + 1]
  BY <1>1, NumberTaken
<1> HIDE DEF r, t
<1>4. PICK x \in Nat : x = Len(o)
  BY <1>2
<1>5. PICK k \in Nat : k = n - Len(p) /\ n - Len(t) = k + 1 /\ k < n
  <2>1. Len(p) <= n
    BY DEF Answers
  <2>2. n - Len(p) \in Nat /\ n - Len(t) = (n - Len(p)) + 1 /\ n - Len(p) < n
    BY <1>1, <1>3, <2>1
  <2> QED BY <2>2
<1>6. e.answers = k + 1
  <2>1. 1 \in 1..Len(p)
    BY <1>3
  <2>2. p[1] = k + 1
    BY <1>5, <2>1 DEF Answers
  <2> QED BY <1>3, <2>2
<1>7. ASSUME NEW i \in 1..Len(r)
      PROVE  \/ i \in 1..x /\ i \in 1..Len(o) /\ r[i] = o[i]
             \/ i = x + 1 /\ r[i] = e
  BY <1>2, <1>4
<1>8. \A i \in 1..Len(o) : o[i].flushed => o[i].answers \in 1..k
  BY <1>5 DEF Answers
<1>9. \A i \in 1..Len(t) : t[i] = (k + 1) + i
  <2> SUFFICES ASSUME NEW i \in 1..Len(t) PROVE t[i] = (k + 1) + i
    OBVIOUS
  <2>1. i + 1 \in 1..Len(p) /\ t[i] = p[i + 1] /\ k + (i + 1) = (k + 1) + i
    BY <1>3
  <2>2. p[i + 1] = k + (i + 1)
    BY <1>5, <2>1 DEF Answers
  <2> QED BY <2>1, <2>2
<1>10. ASSUME NEW i \in 1..Len(r), r[i].flushed PROVE r[i].answers \in 1..(k + 1)
  <2>1. CASE i \in 1..Len(o) /\ r[i] = o[i]
    <3>1. r[i].answers \in 1..k
      BY <1>8, <1>10, <2>1
    <3> QED BY <3>1
  <2>2. CASE r[i] = e
    BY <1>6, <2>2
  <2> QED BY <1>7, <2>1, <2>2
<1>11. ASSUME NEW i \in 1..Len(r), NEW j \in 1..Len(r), i < j, r[i].flushed, r[j].flushed
       PROVE  r[i].answers < r[j].answers
  <2>0. i \in 1..Len(o) /\ r[i] = o[i]
    <3>1. i \in Nat /\ j \in Nat /\ j <= x + 1
      BY <1>2, <1>4
    <3> QED BY <1>7, <1>11, <3>1
  <2>1. CASE j \in 1..Len(o) /\ r[j] = o[j]
    BY <1>11, <2>0, <2>1 DEF Answers
  <2>2. CASE r[j] = e
    <3>1. r[i].answers \in 1..k
      BY <1>8, <1>11, <2>0
    <3> QED BY <1>6, <2>2, <3>1
  <2> QED BY <1>7, <2>1, <2>2
<1>12. ASSUME NEW m \in 1..(k + 1) PROVE \E i \in 1..Len(r) : r[i].flushed /\ r[i].answers = m
  <2>1. CASE m \in 1..k
    <3>1. PICK i \in 1..Len(o) : o[i].flushed /\ o[i].answers = m
      BY <1>5, <2>1 DEF Answers
    <3>2. i \in 1..Len(r) /\ r[i] = o[i]
      BY <1>2
    <3> QED BY <3>1, <3>2
  <2>2. CASE m = k + 1
    <3>1. Len(o) + 1 \in 1..Len(r)
      BY <1>2
    <3> QED BY <1>2, <1>6, <2>2, <3>1
  <2> QED BY <2>1, <2>2
<1>13. Cardinality(AnsweredAt(r)) = k + 1 /\ Cardinality(AnsweredAt(o)) = k
  <2>1. AnsweredAt(r) = AnsweredAt(o) \cup {x + 1} /\ x + 1 \notin AnsweredAt(o)
    <3>1. x + 1 \in 1..Len(r) /\ r[x + 1] = e /\ \A i \in 1..Len(o) : i \in 1..Len(r)
      BY <1>2, <1>4
    <3>2. x + 1 \notin 1..Len(o)
      BY <1>4
    <3> QED BY <1>2, <1>7, <3>1, <3>2 DEF AnsweredAt
  <2>2. IsFiniteSet(AnsweredAt(o))
    <3>a. 1 \in Int /\ Len(o) \in Int
      BY <1>2
    <3>0. IsFiniteSet(1..Len(o))
      BY <3>a, FS_Interval
    <3>1. IsFiniteSet(1..Len(o)) /\ AnsweredAt(o) \in SUBSET (1..Len(o))
      BY <3>0 DEF AnsweredAt
    <3> QED BY <3>1, FS_Subset
  <2>3. Cardinality(AnsweredAt(o)) = k
    BY <1>5 DEF Answers
  <2> QED BY <2>1, <2>2, <2>3, FS_AddElement
<1>14. Len(t) <= n
  BY <1>1, <1>3 DEF Answers
<1>15. Answers(r, t, n)
  BY <1>1, <1>2, <1>3, <1>5, <1>9, <1>10, <1>11, <1>12, <1>13, <1>14 DEF Answers
<1> QED BY <1>5, <1>13, <1>15 DEF r, t

(* An event that answers nothing.                                          *)
LEMMA AnswersPassed ==
    ASSUME NEW o, NEW p, NEW n, Answers(o, p, n), NEW e \in EventSet, ~e.flushed
    PROVE  Answers(Append(o, e), p, n) /\ AnsweredAt(Append(o, e)) = AnsweredAt(o)
<1> DEFINE r == Append(o, e)
<1>1. n \in Nat /\ p \in NatSeqs /\ o \in EventSeqs
  BY DEF Answers
<1>2. /\ r \in EventSeqs /\ Len(o) \in Nat /\ Len(r) = Len(o) + 1
      /\ \A i \in 1..Len(o) : r[i] = o[i]
      /\ r[Len(o) + 1] = e
  BY <1>1, EventAdded
<1> HIDE DEF r
<1>3. ASSUME NEW i \in 1..Len(r), r[i].flushed
      PROVE  i \in 1..Len(o) /\ r[i] = o[i]
  <2>1. i \in 1..Len(o) \/ i = Len(o) + 1
    BY <1>2
  <2> QED BY <1>2, <1>3, <2>1
<1>4. \A i \in 1..Len(o) : i \in 1..Len(r)
  BY <1>2
<1>5. AnsweredAt(r) = AnsweredAt(o)
  BY <1>2, <1>3, <1>4 DEF AnsweredAt
<1>6. \A i \in 1..Len(r) : r[i].flushed => r[i].answers \in 1..(n - Len(p))
  BY <1>3 DEF Answers
<1>7. \A i, j \in 1..Len(r) : i < j /\ r[i].flushed /\ r[j].flushed => r[i].answers < r[j].answers
  BY <1>3 DEF Answers
<1>8. \A k \in 1..(n - Len(p)) : \E i \in 1..Len(r) : r[i].flushed /\ r[i].answers = k
  <2> SUFFICES ASSUME NEW k \in 1..(n - Len(p))
               PROVE  \E i \in 1..Len(r) : r[i].flushed /\ r[i].answers = k
    OBVIOUS
  <2>1. PICK i \in 1..Len(o) : o[i].flushed /\ o[i].answers = k
    BY DEF Answers
  <2> QED BY <1>2, <1>4, <2>1
<1>9. Answers(r, p, n)
  BY <1>2, <1>5, <1>6, <1>7, <1>8 DEF Answers
<1> QED BY <1>5, <1>9 DEF r

(* Until the stream is over the flushes without an answer are those whose  *)
(* timers are armed.                                                       *)
AnswersInv == \E p \in NatSeqs : Answers(out, p, asked) /\ (~over => p = pending)

LEMMA AnswersArmed ==
    ASSUME AnswersInv, ~over
    PROVE  Answers(out, pending, asked)
BY DEF AnswersInv
-----------------------------------------------------------------------------
(* Part 2: the words.  Where word w is, looking at the first k messages of *)
(* a queue: final in an event or a message, or still in a request.         *)
FinalIn(q, k, w) == \E j \in 1..k : q[j].final /\ w \in q[j].text
SentIn(u, k, w) == \E j \in 1..k : u[j].kind = "word" /\ u[j].n = w
Somewhere(o, d, h, u, k, w) ==
    FinalIn(o, Len(o), w) \/ FinalIn(d, Len(d), w) \/ w \in h \/ SentIn(u, k, w)

(* b says how many of the n words were sent before each of the a flushes.  *)
Before(b, a, n) ==
    /\ b \in NatSeqs /\ a \in Nat /\ n \in Nat /\ Len(b) = a
    /\ \A i \in 1..a : b[i] <= n
    /\ \A i, j \in 1..a : i <= j => b[i] <= b[j]

(* An event or a message that answers a flush comes after every word sent  *)
(* before the flush, and so does the flush itself on its way.              *)
EventsComplete(o, a, b) ==
    \A i \in 1..Len(o) :
        /\ o[i].asker \in 0..a
        /\ o[i].asker # 0 => \A w \in 1..b[o[i].asker] : FinalIn(o, i, w)

MessagesComplete(o, d, a, b) ==
    \A k \in 1..Len(d) :
        /\ d[k].asker \in 0..a
        /\ d[k].asker # 0 =>
             d[k].final /\ \A w \in 1..b[d[k].asker] : FinalIn(o, Len(o), w) \/ FinalIn(d, k, w)

RequestsComplete(o, d, h, u, a, b) ==
    \A k \in 1..Len(u) :
        u[k].kind = "flush" =>
            u[k].n \in 1..a /\ \A w \in 1..b[u[k].n] : Somewhere(o, d, h, u, k, w)

WordsComplete(o, d, h, u, n) == \A w \in 1..n : Somewhere(o, d, h, u, Len(u), w)

Carried(o, d, h, u, a, b, n, closed) ==
    /\ o \in EventSeqs /\ d \in MessageSeqs /\ u \in RequestSeqs /\ h \in SUBSET Nat
    /\ Before(b, a, n)
    /\ EventsComplete(o, a, b) /\ MessagesComplete(o, d, a, b)
    /\ RequestsComplete(o, d, h, u, a, b)
    /\ ~closed => WordsComplete(o, d, h, u, n)

LEMMA CarriedNothing == Carried(<<>>, <<>>, {}, <<>>, 0, <<>>, 0, FALSE)
<1>1. /\ <<>> \in EventSeqs /\ <<>> \in MessageSeqs /\ <<>> \in RequestSeqs /\ <<>> \in NatSeqs
      /\ Len(<<>>) = 0
  BY EmptySeq DEF EventSeqs, MessageSeqs, RequestSeqs, NatSeqs
<1>2. Before(<<>>, 0, 0)
  BY <1>1 DEF Before
<1> QED BY <1>1, <1>2 DEF Carried, EventsComplete, MessagesComplete, RequestsComplete,
           WordsComplete

(* A word or a request is sent.                                            *)
LEMMA CarriedRequest ==
    ASSUME NEW o, NEW d, NEW h, NEW u, NEW a, NEW b, NEW n, Carried(o, d, h, u, a, b, n, FALSE),
           NEW r \in RequestSet
    PROVE  /\ r = Word(n + 1) => Carried(o, d, h, Append(u, r), a, b, n + 1, FALSE)
           /\ r = Flush(a) /\ a # 0 => Carried(o, d, h, Append(u, r), a, b, n, FALSE)
           /\ r = Close => Carried(o, d, h, Append(u, r), a, b, n, FALSE)
<1> DEFINE v == Append(u, r)
<1>1. /\ v \in RequestSeqs /\ Len(u) \in Nat /\ Len(v) = Len(u) + 1
      /\ \A i \in 1..Len(u) : v[i] = u[i]
      /\ v[Len(u) + 1] = r
  BY RequestAdded DEF Carried
<1> HIDE DEF v
<1>2. PICK x \in Nat : x = Len(u) /\ Len(v) = x + 1
  BY <1>1
<1>3. ASSUME NEW k \in 0..x, NEW w
      PROVE  /\ Somewhere(o, d, h, u, k, w) => Somewhere(o, d, h, v, k, w)
             /\ Somewhere(o, d, h, u, x, w) => Somewhere(o, d, h, v, x + 1, w)
  <2>1. \A j \in 1..x : v[j] = u[j] /\ j \in 1..(x + 1)
    BY <1>1, <1>2
  <2>2. \A j \in 1..k : j \in 1..x
    OBVIOUS
  <2> QED BY <2>1, <2>2 DEF Somewhere, SentIn
<1>4. \A k \in 1..Len(v) : (k \in 1..x /\ v[k] = u[k]) \/ (k = x + 1 /\ v[k] = r)
  BY <1>1, <1>2
<1>5. ASSUME r.kind # "flush" PROVE RequestsComplete(o, d, h, v, a, b)
  <2> SUFFICES ASSUME NEW k \in 1..Len(v), v[k].kind = "flush"
               PROVE  v[k].n \in 1..a /\ \A w \in 1..b[v[k].n] : Somewhere(o, d, h, v, k, w)
    BY DEF RequestsComplete
  <2>1. k \in 1..x /\ v[k] = u[k] /\ k \in 1..Len(u) /\ k \in 0..x
    BY <1>2, <1>4, <1>5
  <2>2. u[k].n \in 1..a /\ \A w \in 1..b[u[k].n] : Somewhere(o, d, h, u, k, w)
    BY <2>1 DEF Carried, RequestsComplete
  <2> QED BY <1>3, <2>1, <2>2
<1>6. WordsComplete(o, d, h, v, n)
  BY <1>2, <1>3 DEF Carried, WordsComplete
<1>7. CASE r = Word(n + 1)
  <2>1. r.kind = "word" /\ r.n = n + 1
    BY <1>7 DEF Word
  <2>2. n \in Nat /\ Before(b, a, n + 1)
    <3>1. n \in Nat /\ a \in Nat /\ b \in NatSeqs /\ Len(b) = a /\ \A i \in 1..a : b[i] <= n
      BY DEF Carried, Before
    <3>2. \A i \in 1..a : b[i] \in Nat
      BY <3>1, ElementOfSeq DEF NatSeqs
    <3>3. \A i \in 1..a : b[i] <= n + 1
      BY <3>1, <3>2
    <3> QED BY <3>1, <3>3 DEF Carried, Before
  <2>3. WordsComplete(o, d, h, v, n + 1)
    <3> SUFFICES ASSUME NEW w \in 1..(n + 1) PROVE Somewhere(o, d, h, v, x + 1, w)
      BY <1>2 DEF WordsComplete
    <3>1. CASE w \in 1..n
      BY <1>2, <1>6, <3>1 DEF WordsComplete
    <3>2. CASE w = n + 1
      <4>1. x + 1 \in 1..(x + 1) /\ v[x + 1] = r
        BY <1>1, <1>2
      <4> QED BY <2>1, <3>2, <4>1 DEF Somewhere, SentIn
    <3> QED BY <2>2, <3>1, <3>2
  <2> QED BY <1>1, <1>5, <1>7, <2>1, <2>2, <2>3 DEF v, Carried, Word, Flush, Close
<1>8. CASE r = Flush(a) /\ a # 0
  <2>1. r.kind = "flush" /\ r.n = a
    BY <1>8 DEF Flush
  <2>2. RequestsComplete(o, d, h, v, a, b)
    <3> SUFFICES ASSUME NEW k \in 1..Len(v), v[k].kind = "flush"
                 PROVE  v[k].n \in 1..a /\ \A w \in 1..b[v[k].n] : Somewhere(o, d, h, v, k, w)
      BY DEF RequestsComplete
    <3>1. CASE k \in 1..x /\ v[k] = u[k]
      <4>1. k \in 1..Len(u) /\ k \in 0..x
        BY <1>2, <3>1
      <4>2. u[k].n \in 1..a /\ \A w \in 1..b[u[k].n] : Somewhere(o, d, h, u, k, w)
        BY <3>1, <4>1 DEF Carried, RequestsComplete
      <4> QED BY <1>3, <3>1, <4>1, <4>2
    <3>2. CASE k = x + 1 /\ v[k] = r
      <4>1. a \in 1..a /\ b[a] <= n /\ b[a] \in Nat /\ n \in Nat
        BY <1>8, ElementOfSeq DEF Carried, Before, NatSeqs
      <4>2. \A w \in 1..b[a] : w \in 1..n
        BY <4>1
      <4> QED BY <1>2, <1>6, <2>1, <3>2, <4>1, <4>2 DEF WordsComplete
    <3> QED BY <1>4, <3>1, <3>2
  <2> QED BY <1>1, <1>6, <1>8, <2>1, <2>2 DEF v, Carried, Word, Flush, Close
<1>9. CASE r = Close
  <2>1. r.kind = "close"
    BY <1>9 DEF Close
  <2> QED BY <1>1, <1>5, <1>6, <1>9, <2>1 DEF v, Carried, Word, Flush, Close
<1> QED BY <1>7, <1>8, <1>9

(* A flush is asked: it has been sent after all the words so far.          *)
LEMMA CarriedAsked ==
    ASSUME NEW o, NEW d, NEW h, NEW u, NEW a, NEW b, NEW n, NEW closed,
           Carried(o, d, h, u, a, b, n, closed)
    PROVE  Carried(o, d, h, u, a + 1, Append(b, n), n, closed)
<1> DEFINE c == Append(b, n)
<1>1. b \in NatSeqs /\ n \in Nat /\ a \in Nat /\ Len(b) = a
  BY DEF Carried, Before
<1>2. /\ c \in NatSeqs /\ Len(c) = a + 1
      /\ \A i \in 1..a : b[i] \in Nat /\ c[i] = b[i]
      /\ c[a + 1] = n
  BY <1>1, NumberAdded
<1> HIDE DEF c
<1>3. Before(c, a + 1, n)
  <2>1. \A i \in 1..a : b[i] <= n
    BY DEF Carried, Before
  <2>2. \A i, j \in 1..a : i <= j => b[i] <= b[j]
    BY DEF Carried, Before
  <2>3. \A i \in 1..(a + 1) : i \in 1..a \/ i = a + 1
    BY <1>1
  <2>4. \A i \in 1..(a + 1) : c[i] <= n
    BY <1>1, <1>2, <2>1, <2>3
  <2>5. ASSUME NEW i \in 1..(a + 1), NEW j \in 1..(a + 1), i <= j PROVE c[i] <= c[j]
    <3>1. CASE j \in 1..a
      <4>1. i \in 1..a
        BY <1>1, <2>5, <3>1
      <4> QED BY <1>2, <2>2, <2>5, <3>1, <4>1
    <3>2. CASE j = a + 1
      BY <1>2, <2>4, <3>2
    <3> QED BY <2>3, <3>1, <3>2
  <2> QED BY <1>1, <1>2, <2>4, <2>5 DEF Before
<1>4. \A i \in 1..a : i \in 1..(a + 1) /\ c[i] = b[i]
  BY <1>1, <1>2
<1>5. \A i \in 0..a : i \in 0..(a + 1) /\ (i # 0 => c[i] = b[i])
  <2>1. \A i \in 0..a : i \in 0..(a + 1) /\ (i # 0 => i \in 1..a)
    BY <1>1
  <2> QED BY <1>4, <2>1
<1>6. EventsComplete(o, a + 1, c)
  BY <1>5 DEF Carried, EventsComplete
<1>7. MessagesComplete(o, d, a + 1, c)
  BY <1>5 DEF Carried, MessagesComplete
<1>8. RequestsComplete(o, d, h, u, a + 1, c)
  BY <1>4 DEF Carried, RequestsComplete
<1>9. Carried(o, d, h, u, a + 1, c, n, closed)
  BY <1>3, <1>6, <1>7, <1>8 DEF Carried
<1> QED BY <1>9 DEF c

(* The client takes a message: its text moves to the queue.                *)
LEMMA CarriedReceived ==
    ASSUME NEW o, NEW d, NEW h, NEW u, NEW a, NEW b, NEW n, NEW closed,
           Carried(o, d, h, u, a, b, n, closed), d # <<>>,
           NEW e \in EventSet, e.text = Head(d).text, e.final = Head(d).final,
           e.asker = Head(d).asker
    PROVE  Carried(Append(o, e), Tail(d), h, u, a, b, n, closed)
<1> DEFINE p == Append(o, e)
           t == Tail(d)
<1>0. o \in EventSeqs /\ d \in MessageSeqs
  BY DEF Carried
<1>1. /\ p \in EventSeqs /\ Len(o) \in Nat /\ Len(p) = Len(o) + 1
      /\ \A i \in 1..Len(o) : p[i] = o[i]
      /\ p[Len(o) + 1] = e
  BY <1>0, EventAdded
<1>2. /\ Head(d) = d[1] /\ t \in MessageSeqs /\ Len(d) \in Nat /\ Len(d) >= 1
      /\ Len(t) = Len(d) - 1 /\ \A i \in 1..Len(t) : t[i] = d[i + 1]
  BY <1>0, MessageTaken
<1> HIDE DEF p, t
<1>3. PICK x \in Nat : x = Len(o) /\ Len(p) = x + 1
  BY <1>1
<1>4. PICK y \in Nat : y = Len(t) /\ Len(d) = y + 1
  BY <1>2
<1>5. ASSUME NEW k \in 0..x, NEW w
      PROVE  /\ FinalIn(o, k, w) => FinalIn(p, k, w)
             /\ FinalIn(o, x, w) => FinalIn(p, x + 1, w)
  <2>1. \A j \in 1..x : p[j] = o[j] /\ j \in 1..(x + 1)
    BY <1>1, <1>3
  <2>2. \A j \in 1..k : j \in 1..x
    OBVIOUS
  <2> QED BY <2>1, <2>2 DEF FinalIn
<1>6. ASSUME NEW k \in 0..y, NEW w, FinalIn(d, k + 1, w)
      PROVE  FinalIn(p, x + 1, w) \/ FinalIn(t, k, w)
  <2>1. PICK j \in 1..(k + 1) : d[j].final /\ w \in d[j].text
    BY <1>6 DEF FinalIn
  <2>2. CASE j = 1
    <3>1. e.final /\ w \in e.text
      BY <1>2, <2>1, <2>2
    <3>2. x + 1 \in 1..(x + 1) /\ p[x + 1] = e
      BY <1>1, <1>3
    <3> QED BY <3>1, <3>2 DEF FinalIn
  <2>3. CASE j # 1
    <3>1. j - 1 \in 1..k /\ j - 1 \in 1..Len(t) /\ (j - 1) + 1 = j
      BY <1>4, <2>3
    <3>2. t[j - 1] = d[j]
      BY <1>2, <3>1
    <3> QED BY <2>1, <3>1, <3>2 DEF FinalIn
  <2> QED BY <2>2, <2>3
<1>7. EventsComplete(p, a, b)
  <2> SUFFICES ASSUME NEW i \in 1..Len(p)
               PROVE  /\ p[i].asker \in 0..a
                      /\ p[i].asker # 0 => \A w \in 1..b[p[i].asker] : FinalIn(p, i, w)
    BY DEF EventsComplete
  <2>1. CASE i \in 1..x
    <3>1. i \in 0..x /\ i \in 1..Len(o) /\ p[i] = o[i]
      BY <1>1, <1>3, <2>1
    <3>2. /\ o[i].asker \in 0..a
          /\ o[i].asker # 0 => \A w \in 1..b[o[i].asker] : FinalIn(o, i, w)
      BY <3>1 DEF Carried, EventsComplete
    <3> QED BY <1>5, <3>1, <3>2
  <2>2. CASE i = x + 1
    <3>1. 1 \in 1..Len(d) /\ p[i] = e /\ d[1].asker = e.asker /\ 0 \in 0..y /\ x \in 0..x
      BY <1>1, <1>2, <1>3, <1>4, <2>2
    <3>2. /\ d[1].asker \in 0..a
          /\ d[1].asker # 0 => \A w \in 1..b[d[1].asker] :
                                    FinalIn(o, x, w) \/ FinalIn(d, 1, w)
      BY <1>3, <3>1 DEF Carried, MessagesComplete
    <3>3. \A w : FinalIn(d, 1, w) => FinalIn(p, x + 1, w) \/ FinalIn(t, 0, w)
      BY <1>6, <3>1
    <3>4. \A w : ~FinalIn(t, 0, w)
      BY DEF FinalIn
    <3> QED BY <1>5, <2>2, <3>1, <3>2, <3>3, <3>4
  <2> QED BY <1>3, <2>1, <2>2
<1>8. MessagesComplete(p, t, a, b)
  <2> SUFFICES ASSUME NEW k \in 1..Len(t)
               PROVE  /\ t[k].asker \in 0..a
                      /\ t[k].asker # 0 =>
                           t[k].final /\ \A w \in 1..b[t[k].asker] :
                                            FinalIn(p, x + 1, w) \/ FinalIn(t, k, w)
    BY <1>3 DEF MessagesComplete
  <2>1. k \in 0..y /\ k + 1 \in 1..Len(d) /\ t[k] = d[k + 1] /\ x \in 0..x
    BY <1>2, <1>4
  <2>2. /\ d[k + 1].asker \in 0..a
        /\ d[k + 1].asker # 0 =>
             d[k + 1].final /\ \A w \in 1..b[d[k + 1].asker] :
                                  FinalIn(o, x, w) \/ FinalIn(d, k + 1, w)
    BY <1>3, <2>1 DEF Carried, MessagesComplete
  <2> QED BY <1>5, <1>6, <2>1, <2>2
<1>9. ASSUME NEW k, NEW w, Somewhere(o, d, h, u, k, w) PROVE Somewhere(p, t, h, u, k, w)
  <2>1. x \in 0..x /\ y \in 0..y
    OBVIOUS
  <2> QED BY <1>3, <1>4, <1>5, <1>6, <1>9, <2>1 DEF Somewhere
<1>10. RequestsComplete(p, t, h, u, a, b)
  BY <1>9 DEF Carried, RequestsComplete
<1>11. ~closed => WordsComplete(p, t, h, u, n)
  BY <1>9 DEF Carried, WordsComplete
<1>12. Carried(p, t, h, u, a, b, n, closed)
  BY <1>1, <1>2, <1>7, <1>8, <1>10, <1>11 DEF Carried
<1> QED BY <1>12 DEF p, t

(* An event that no server answer made.                                    *)
LEMMA CarriedPut ==
    ASSUME NEW o, NEW d, NEW h, NEW u, NEW a, NEW b, NEW n, NEW closed,
           Carried(o, d, h, u, a, b, n, closed), NEW e \in EventSet, e.asker = 0
    PROVE  Carried(Append(o, e), d, h, u, a, b, n, closed)
<1> DEFINE p == Append(o, e)
<1>0. o \in EventSeqs /\ a \in Nat
  BY DEF Carried, Before
<1>1. /\ p \in EventSeqs /\ Len(o) \in Nat /\ Len(p) = Len(o) + 1
      /\ \A i \in 1..Len(o) : p[i] = o[i]
      /\ p[Len(o) + 1] = e
  BY <1>0, EventAdded
<1> HIDE DEF p
<1>3. PICK x \in Nat : x = Len(o) /\ Len(p) = x + 1
  BY <1>1
<1>5. ASSUME NEW k \in 0..x, NEW w
      PROVE  /\ FinalIn(o, k, w) => FinalIn(p, k, w)
             /\ FinalIn(o, x, w) => FinalIn(p, x + 1, w)
  <2>1. \A j \in 1..x : p[j] = o[j] /\ j \in 1..(x + 1)
    BY <1>1, <1>3
  <2>2. \A j \in 1..k : j \in 1..x
    OBVIOUS
  <2> QED BY <2>1, <2>2 DEF FinalIn
<1>7. EventsComplete(p, a, b)
  <2> SUFFICES ASSUME NEW i \in 1..Len(p)
               PROVE  /\ p[i].asker \in 0..a
                      /\ p[i].asker # 0 => \A w \in 1..b[p[i].asker] : FinalIn(p, i, w)
    BY DEF EventsComplete
  <2>1. CASE i \in 1..x
    <3>1. i \in 0..x /\ i \in 1..Len(o) /\ p[i] = o[i]
      BY <1>1, <1>3, <2>1
    <3>2. /\ o[i].asker \in 0..a
          /\ o[i].asker # 0 => \A w \in 1..b[o[i].asker] : FinalIn(o, i, w)
      BY <3>1 DEF Carried, EventsComplete
    <3> QED BY <1>5, <3>1, <3>2
  <2>2. CASE i = x + 1
    BY <1>0, <1>1, <1>3, <2>2
  <2> QED BY <1>3, <2>1, <2>2
<1>8. MessagesComplete(p, d, a, b)
  <2>1. x \in 0..x
    OBVIOUS
  <2> QED BY <1>3, <1>5, <2>1 DEF Carried, MessagesComplete
<1>9. ASSUME NEW k, NEW w, Somewhere(o, d, h, u, k, w) PROVE Somewhere(p, d, h, u, k, w)
  <2>1. x \in 0..x
    OBVIOUS
  <2> QED BY <1>3, <1>5, <1>9, <2>1 DEF Somewhere
<1>10. RequestsComplete(p, d, h, u, a, b)
  BY <1>9 DEF Carried, RequestsComplete
<1>11. ~closed => WordsComplete(p, d, h, u, n)
  BY <1>9 DEF Carried, WordsComplete
<1>12. Carried(p, d, h, u, a, b, n, closed)
  BY <1>1, <1>7, <1>8, <1>10, <1>11 DEF Carried
<1> QED BY <1>12 DEF p

(* The server takes a request: a word is buffered; a flush is dropped.     *)
LEMMA CarriedRead ==
    ASSUME NEW o, NEW d, NEW h, NEW u, NEW a, NEW b, NEW n, NEW closed,
           Carried(o, d, h, u, a, b, n, closed), u # <<>>
    PROVE  /\ Head(u).kind = "word" => Carried(o, d, h \cup {Head(u).n}, Tail(u), a, b, n, closed)
           /\ Head(u).kind = "flush" => Carried(o, d, h, Tail(u), a, b, n, closed)
<1> DEFINE t == Tail(u)
           g == IF Head(u).kind = "word" THEN h \cup {Head(u).n} ELSE h
<1>1. /\ Head(u) \in RequestSet /\ Head(u) = u[1] /\ t \in RequestSeqs
      /\ Len(u) \in Nat /\ Len(u) >= 1 /\ Len(t) = Len(u) - 1
      /\ \A i \in 1..Len(t) : t[i] = u[i + 1]
  BY RequestTaken DEF Carried
<1>2. PICK y \in Nat : y = Len(t) /\ Len(u) = y + 1
  <2>1. Len(u) - 1 \in Nat /\ (Len(u) - 1) + 1 = Len(u)
    BY <1>1
  <2> QED BY <1>1, <2>1
<1>3. h \in SUBSET Nat /\ g \in SUBSET Nat /\ h \subseteq g
  BY <1>1 DEF Carried, RequestSet
<1>4. u[1].kind = "word" => u[1].n \in g
  BY <1>1
<1> HIDE DEF t, g
<1>5. ASSUME NEW k \in 0..y, NEW w, Somewhere(o, d, h, u, k + 1, w)
      PROVE  Somewhere(o, d, g, t, k, w)
  <2>1. CASE SentIn(u, k + 1, w)
    <3>1. PICK j \in 1..(k + 1) : u[j].kind = "word" /\ u[j].n = w
      BY <2>1 DEF SentIn
    <3>2. CASE j = 1
      BY <1>4, <3>1, <3>2 DEF Somewhere
    <3>3. CASE j # 1
      <4>1. j - 1 \in 1..k /\ j - 1 \in 1..Len(t) /\ (j - 1) + 1 = j
        BY <1>2, <3>3
      <4>2. t[j - 1] = u[j]
        BY <1>1, <4>1
      <4> QED BY <3>1, <4>1, <4>2 DEF Somewhere, SentIn
    <3> QED BY <3>2, <3>3
  <2>2. CASE ~SentIn(u, k + 1, w)
    BY <1>3, <1>5, <2>2 DEF Somewhere
  <2> QED BY <2>1, <2>2
<1>6. RequestsComplete(o, d, g, t, a, b)
  <2> SUFFICES ASSUME NEW k \in 1..Len(t), t[k].kind = "flush"
               PROVE  t[k].n \in 1..a /\ \A w \in 1..b[t[k].n] : Somewhere(o, d, g, t, k, w)
    BY DEF RequestsComplete
  <2>1. k \in 0..y /\ k + 1 \in 1..Len(u) /\ t[k] = u[k + 1]
    BY <1>1, <1>2
  <2>2. u[k + 1].n \in 1..a /\ \A w \in 1..b[u[k + 1].n] : Somewhere(o, d, h, u, k + 1, w)
    BY <2>1 DEF Carried, RequestsComplete
  <2> QED BY <1>5, <2>1, <2>2
<1>7. ~closed => WordsComplete(o, d, g, t, n)
  <2>1. y \in 0..y
    OBVIOUS
  <2> QED BY <1>2, <1>5, <2>1 DEF Carried, WordsComplete
<1>8. Carried(o, d, g, t, a, b, n, closed)
  BY <1>1, <1>3, <1>6, <1>7 DEF Carried
<1>9. Head(u).kind = "word" => g = h \cup {Head(u).n}
  BY DEF g
<1>10. Head(u).kind = "flush" => g = h
  BY DEF g
<1> QED BY <1>8, <1>9, <1>10 DEF t

(* The server sends what it has buffered: an interim, or a final that      *)
(* empties the buffer, for a flush q that all its words came before.       *)
LEMMA CarriedTranscribed ==
    ASSUME NEW o, NEW d, NEW h, NEW u, NEW a, NEW b, NEW n, NEW closed, NEW final \in BOOLEAN,
           Carried(o, d, h, u, a, b, n, closed), NEW q \in 0..a,
           q # 0 => final /\ \A w \in 1..b[q] : Somewhere(o, d, h, u, 0, w)
    PROVE  Carried(o, Append(d, Message(h, final, q)), IF final THEN {} ELSE h, u, a, b, n, closed)
<1> DEFINE m == Message(h, final, q)
           t == Append(d, m)
           g == IF final THEN {} ELSE h
<1>1. d \in MessageSeqs /\ h \in SUBSET Nat /\ a \in Nat /\ g \in SUBSET Nat
  BY DEF Carried, Before
<1>2. m \in MessageSet /\ m.text = h /\ m.final = final /\ m.asker = q
  BY <1>1 DEF Message, MessageSet
<1> HIDE DEF m
<1>3. /\ t \in MessageSeqs /\ Len(d) \in Nat /\ Len(t) = Len(d) + 1
      /\ \A i \in 1..Len(d) : t[i] = d[i]
      /\ t[Len(d) + 1] = m
  BY <1>1, <1>2, MessageAdded
<1>4. final \/ g = h
  OBVIOUS
<1> HIDE DEF t, g
<1>5. PICK x \in Nat : x = Len(d) /\ Len(t) = x + 1
  BY <1>3
<1>6. ASSUME NEW k \in 0..x, NEW w
      PROVE  /\ FinalIn(d, k, w) => FinalIn(t, k, w)
             /\ FinalIn(d, x, w) => FinalIn(t, x + 1, w)
  <2>1. \A j \in 1..x : t[j] = d[j] /\ j \in 1..(x + 1)
    BY <1>3, <1>5
  <2>2. \A j \in 1..k : j \in 1..x
    OBVIOUS
  <2> QED BY <2>1, <2>2 DEF FinalIn
<1>7. ASSUME NEW w \in h, final PROVE FinalIn(t, x + 1, w)
  <2>1. x + 1 \in 1..(x + 1) /\ t[x + 1] = m
    BY <1>3, <1>5
  <2> QED BY <1>2, <1>7, <2>1 DEF FinalIn
<1>8. x \in 0..x
  OBVIOUS
<1>9. ASSUME NEW k, NEW w, Somewhere(o, d, h, u, k, w) PROVE Somewhere(o, t, g, u, k, w)
  BY <1>4, <1>5, <1>6, <1>7, <1>8, <1>9 DEF Somewhere
<1>10. MessagesComplete(o, t, a, b)
  <2> SUFFICES ASSUME NEW k \in 1..Len(t)
               PROVE  /\ t[k].asker \in 0..a
                      /\ t[k].asker # 0 =>
                           t[k].final /\ \A w \in 1..b[t[k].asker] :
                                            FinalIn(o, Len(o), w) \/ FinalIn(t, k, w)
    BY DEF MessagesComplete
  <2>1. CASE k \in 1..x
    <3>1. k \in 0..x /\ k \in 1..Len(d) /\ t[k] = d[k]
      BY <1>3, <1>5, <2>1
    <3>2. /\ d[k].asker \in 0..a
          /\ d[k].asker # 0 => d[k].final /\ \A w \in 1..b[d[k].asker] :
                                                FinalIn(o, Len(o), w) \/ FinalIn(d, k, w)
      BY <3>1 DEF Carried, MessagesComplete
    <3> QED BY <1>6, <3>1, <3>2
  <2>2. CASE k = x + 1
    <3>1. t[k] = m
      BY <1>3, <1>5, <2>2
    <3>2. ASSUME q # 0, NEW w \in 1..b[q] PROVE FinalIn(o, Len(o), w) \/ FinalIn(t, x + 1, w)
      <4>1. final /\ Somewhere(o, d, h, u, 0, w)
        BY <3>2
      <4>2. ~SentIn(u, 0, w)
        BY DEF SentIn
      <4> QED BY <1>5, <1>6, <1>7, <1>8, <4>1, <4>2 DEF Somewhere
    <3> QED BY <1>2, <2>2, <3>1, <3>2
  <2> QED BY <1>5, <2>1, <2>2
<1>11. RequestsComplete(o, t, g, u, a, b)
  BY <1>9 DEF Carried, RequestsComplete
<1>12. ~closed => WordsComplete(o, t, g, u, n)
  BY <1>9 DEF Carried, WordsComplete
<1>13. Carried(o, t, g, u, a, b, n, closed)
  BY <1>1, <1>3, <1>10, <1>11, <1>12 DEF Carried
<1> QED BY <1>13 DEF t, g, m

(* The server closes the connection: what was on its way there is lost.    *)
LEMMA CarriedClosed ==
    ASSUME NEW o, NEW d, NEW h, NEW u, NEW a, NEW b, NEW n, NEW closed,
           Carried(o, d, h, u, a, b, n, closed)
    PROVE  Carried(o, d, h, <<>>, a, b, n, TRUE)
<1>1. <<>> \in RequestSeqs /\ Len(<<>>) = 0
  BY EmptySeq DEF RequestSeqs
<1>2. RequestsComplete(o, d, h, <<>>, a, b)
  BY <1>1 DEF RequestsComplete
<1> QED BY <1>1, <1>2 DEF Carried

-----------------------------------------------------------------------------
(* Part 3: the stream.                                                     *)
WordsInv == Carried(out, downlink, heard, uplink, asked, before, words, hungUp)
SenderInv == hungUp \in BOOLEAN /\ (sender = "flushing" => asked # 0)

LEMMA EndType == End \in EventSet /\ ~End.flushed /\ End.asker = 0
BY DEF End, EventSet

LEMMA EventType ==
    ASSUME NEW text \in SUBSET Nat, NEW final \in BOOLEAN, NEW answers \in Nat, NEW asker \in Nat
    PROVE  /\ Event(text, final, answers, asker) \in EventSet
           /\ Event(text, final, answers, asker).text = text
           /\ Event(text, final, answers, asker).final = final
           /\ Event(text, final, answers, asker).answers = answers
           /\ Event(text, final, answers, asker).asker = asker
           /\ answers # 0 => Event(text, final, answers, asker).flushed
           /\ answers = 0 => ~Event(text, final, answers, asker).flushed
<1>1. (answers # 0) \in BOOLEAN
  OBVIOUS
<1> QED BY <1>1 DEF Event, EventSet

(* What a step does to the queue and the timers: nothing; it arms a timer, *)
(* answers the flush of the first one, passes an event on, or is the end.  *)
LEMMA QueueStep ==
    ASSUME AnswersInv, WordsInv, [SttNext]_sttVars
    PROVE  \/ UNCHANGED <<out, pending, asked, over>>
           \/ /\ ~over /\ UNCHANGED <<out, over>> /\ asked < MaxFlushes
              /\ asked' = asked + 1 /\ pending' = Append(pending, asked + 1)
           \/ /\ ~over /\ UNCHANGED <<asked, over>> /\ pending # <<>> /\ pending' = Tail(pending)
              /\ \E e \in EventSet : e.flushed /\ e.answers = Head(pending) /\ out' = Append(out, e)
           \/ /\ ~over /\ UNCHANGED <<pending, asked, over>>
              /\ \E e \in EventSet : ~e.flushed /\ out' = Append(out, e)
           \/ ~over /\ over' = TRUE /\ UNCHANGED <<out, asked>>
<1>1. ASSUME ~over, pending # <<>> PROVE Head(pending) \in Nat /\ Head(pending) # 0
  <2>1. Answers(out, pending, asked)
    BY <1>1, AnswersArmed
  <2>2. pending \in NatSeqs /\ asked \in Nat /\ Len(pending) <= asked
    BY <2>1 DEF Answers
  <2>3. Head(pending) \in Nat /\ Head(pending) = pending[1] /\ Len(pending) \in Nat /\ Len(pending) >= 1
    BY <1>1, <2>2, NumberTaken
  <2>4. 1 \in 1..Len(pending)
    BY <2>3
  <2>5. pending[1] = (asked - Len(pending)) + 1
    BY <2>1, <2>4 DEF Answers
  <2> QED BY <2>2, <2>3, <2>5
<1>2. CASE TakeFlush
  BY <1>2 DEF TakeFlush, ArmTimer
<1>3. CASE TimerFires
  <2>1. ~over /\ pending # <<>> /\ {} \in SUBSET Nat /\ UNCHANGED <<asked, over>>
        /\ pending' = Tail(pending) /\ out' = Append(out, Event({}, TRUE, Head(pending), 0))
    BY <1>3 DEF TimerFires, PutOut
  <2>2. /\ Event({}, TRUE, Head(pending), 0) \in EventSet
        /\ Event({}, TRUE, Head(pending), 0).flushed
        /\ Event({}, TRUE, Head(pending), 0).answers = Head(pending)
    <3>1. PICK k \in Nat : k = Head(pending) /\ k # 0
      BY <1>1, <2>1
    <3>2. /\ Event({}, TRUE, k, 0) \in EventSet /\ Event({}, TRUE, k, 0).flushed
          /\ Event({}, TRUE, k, 0).answers = k
      BY <3>1 DEF Event, EventSet
    <3> QED BY <3>1, <3>2
  <2> QED BY <2>1, <2>2
<1>4. CASE Receive
  <2> DEFINE m == Head(downlink)
  <2>1. ~over /\ downlink # <<>> /\ TakeMessage(m) /\ UNCHANGED <<asked, over>>
    BY <1>4 DEF Receive
  <2>2. m \in MessageSet
    BY <2>1, MessageTaken DEF WordsInv, Carried
  <2> HIDE DEF m
  <2>3. m.text \in SUBSET Nat /\ m.final \in BOOLEAN /\ m.asker \in Nat
    BY <2>2 DEF MessageSet
  <2>4. CASE m.asker # 0 /\ pending # <<>>
    <3>1. pending' = Tail(pending) /\ out' = Append(out, Event(m.text, TRUE, Head(pending), m.asker))
      BY <2>1, <2>4 DEF TakeMessage, PutOut
    <3>2. /\ Event(m.text, TRUE, Head(pending), m.asker) \in EventSet
          /\ Event(m.text, TRUE, Head(pending), m.asker).flushed
          /\ Event(m.text, TRUE, Head(pending), m.asker).answers = Head(pending)
      <4>1. PICK k \in Nat : k = Head(pending) /\ k # 0
        BY <1>1, <2>1, <2>4
      <4>2. /\ Event(m.text, TRUE, k, m.asker) \in EventSet
            /\ Event(m.text, TRUE, k, m.asker).flushed
            /\ Event(m.text, TRUE, k, m.asker).answers = k
        BY <2>3, <4>1 DEF Event, EventSet
      <4> QED BY <4>1, <4>2
    <3> QED BY <2>1, <2>4, <3>1, <3>2
  <2>5. CASE ~(m.asker # 0 /\ pending # <<>>)
    <3>1. UNCHANGED pending /\ out' = Append(out, Event(m.text, m.final, 0, m.asker))
      BY <2>1, <2>5 DEF TakeMessage, PutOut
    <3>2. /\ Event(m.text, m.final, 0, m.asker) \in EventSet
          /\ ~Event(m.text, m.final, 0, m.asker).flushed
      <4>1. 0 \in Nat
        OBVIOUS
      <4> QED BY <2>3, <4>1, EventType
    <3> QED BY <2>1, <3>1, <3>2
  <2> QED BY <2>4, <2>5
<1>5. CASE SendFails \/ ReceiveEnd
  <2>1. ~over /\ UNCHANGED <<pending, asked, over>> /\ out' = Append(out, End)
    BY <1>5 DEF SendFails, ReceiveEnd, PutOut
  <2> QED BY <2>1, EndType
<1>6. CASE StopStream
  BY <1>6 DEF StopStream
<1>7. CASE SendAudio \/ SendFlush \/ SendClose \/ Yield \/ UNCHANGED sttVars
  BY <1>7 DEF SendAudio, SendFlush, SendClose, Yield, sttVars, taskVars
<1>8. CASE Server
  BY <1>8 DEF Server, ServerHears, ServerAnswers, ServerIgnores, ServerCloses, ServerTranscribes,
              taskVars
<1> QED BY <1>2, <1>3, <1>4, <1>5, <1>6, <1>7, <1>8 DEF SttNext, Client

LEMMA AnswersInit == SttInit => AnswersInv
<1>1. <<>> \in NatSeqs
  BY EmptySeq DEF NatSeqs
<1> QED BY <1>1, AnswersNone DEF SttInit, AnswersInv

LEMMA AnswersStep == AnswersInv /\ WordsInv /\ [SttNext]_sttVars => AnswersInv'
<1> SUFFICES ASSUME AnswersInv, WordsInv, [SttNext]_sttVars PROVE AnswersInv'
  OBVIOUS
<1>1. PICK p \in NatSeqs : Answers(out, p, asked) /\ (~over => p = pending)
  BY DEF AnswersInv
<1>2. CASE UNCHANGED <<out, pending, asked, over>>
  BY <1>2 DEF AnswersInv
<1>3. CASE /\ ~over /\ UNCHANGED <<out, over>> /\ asked < MaxFlushes
           /\ asked' = asked + 1 /\ pending' = Append(pending, asked + 1)
  <2>1. Answers(out, Append(pending, asked + 1), asked + 1)
    BY <1>1, <1>3, AnswersAsked
  <2>2. Answers(out', pending', asked') /\ pending' \in NatSeqs
    BY <1>3, <2>1 DEF Answers
  <2> QED BY <2>2 DEF AnswersInv
<1>4. CASE /\ ~over /\ UNCHANGED <<asked, over>> /\ pending # <<>> /\ pending' = Tail(pending)
           /\ \E e \in EventSet : e.flushed /\ e.answers = Head(pending) /\ out' = Append(out, e)
  <2>1. PICK e \in EventSet : e.flushed /\ e.answers = Head(pending) /\ out' = Append(out, e)
    BY <1>4
  <2>2. Answers(Append(out, e), Tail(pending), asked)
    BY <1>1, <1>4, <2>1, AnswersGiven
  <2>3. Answers(out', pending', asked') /\ pending' \in NatSeqs
    BY <1>4, <2>1, <2>2 DEF Answers
  <2> QED BY <2>3 DEF AnswersInv
<1>5. CASE /\ ~over /\ UNCHANGED <<pending, asked, over>>
           /\ \E e \in EventSet : ~e.flushed /\ out' = Append(out, e)
  <2>1. PICK e \in EventSet : ~e.flushed /\ out' = Append(out, e)
    BY <1>5
  <2>2. Answers(Append(out, e), pending, asked)
    BY <1>1, <1>5, <2>1, AnswersPassed
  <2>3. Answers(out', pending', asked') /\ pending' \in NatSeqs
    BY <1>5, <2>1, <2>2 DEF Answers
  <2> QED BY <2>3 DEF AnswersInv
<1>6. CASE ~over /\ over' = TRUE /\ UNCHANGED <<out, asked>>
  BY <1>1, <1>6 DEF AnswersInv
<1> QED BY <1>2, <1>3, <1>4, <1>5, <1>6, QueueStep

LEMMA WordsInit == SttInit => WordsInv /\ SenderInv
BY CarriedNothing DEF SttInit, WordsInv, SenderInv

LEMMA SenderStep == WordsInv /\ SenderInv /\ [SttNext]_sttVars => SenderInv'
<1> SUFFICES ASSUME WordsInv, SenderInv, [SttNext]_sttVars PROVE SenderInv'
  OBVIOUS
<1>1. asked \in Nat
  BY DEF WordsInv, Carried, Before
<1>2. CASE Client
  <2>1. hungUp' = hungUp
    BY <1>2 DEF Client, SendAudio, TakeFlush, SendFlush, SendClose, SendFails, TimerFires,
                Receive, ReceiveEnd, Yield, StopStream, serverVars
  <2>2. CASE TakeFlush
    <3>1. asked' = asked + 1
      BY <2>2 DEF TakeFlush
    <3> QED BY <1>1, <2>1, <3>1 DEF SenderInv
  <2>3. CASE SendFlush \/ SendClose \/ SendFails \/ StopStream
    <3>1. sender' \in {"idle", "done"}
      BY <2>3 DEF SendFlush, SendClose, SendFails, StopStream
    <3> QED BY <2>1, <3>1 DEF SenderInv
  <2>4. CASE SendAudio \/ TimerFires \/ Receive \/ ReceiveEnd \/ Yield
    <3>1. sender' = sender /\ asked' = asked
      BY <2>4 DEF SendAudio, TimerFires, Receive, ReceiveEnd, Yield, taskVars
    <3> QED BY <2>1, <3>1 DEF SenderInv
  <2> QED BY <1>2, <2>2, <2>3, <2>4 DEF Client
<1>3. CASE Server
  BY <1>3 DEF SenderInv, Server, ServerHears, ServerAnswers, ServerIgnores, ServerCloses,
              ServerTranscribes, taskVars
<1>4. CASE UNCHANGED sttVars
  BY <1>4 DEF SenderInv, sttVars, taskVars, serverVars
<1> QED BY <1>2, <1>3, <1>4 DEF SttNext

LEMMA WordsStep == AnswersInv /\ WordsInv /\ SenderInv /\ [SttNext]_sttVars => WordsInv'
<1> SUFFICES ASSUME AnswersInv, WordsInv, SenderInv, [SttNext]_sttVars PROVE WordsInv'
  OBVIOUS
<1>1. Carried(out, downlink, heard, uplink, asked, before, words, hungUp)
  BY DEF WordsInv
<1>2. /\ asked \in Nat /\ words \in Nat /\ hungUp \in BOOLEAN /\ heard \in SUBSET Nat
      /\ downlink \in MessageSeqs /\ uplink \in RequestSeqs
  BY DEF WordsInv, Carried, Before, SenderInv
<1>3. CASE SendAudio
  <2>1. /\ hungUp = FALSE /\ words' = words + 1 /\ uplink' = Append(uplink, Word(words + 1))
        /\ UNCHANGED <<out, downlink, heard, asked, before, hungUp>>
    BY <1>2, <1>3 DEF SendAudio, taskVars
  <2>2. Word(words + 1) \in RequestSet
    BY <1>2 DEF Word, RequestSet
  <2>3. Carried(out, downlink, heard, Append(uplink, Word(words + 1)), asked, before, words + 1, FALSE)
    BY <1>1, <2>1, <2>2, CarriedRequest
  <2> QED BY <2>1, <2>3 DEF WordsInv
<1>4. CASE TakeFlush
  <2>1. /\ asked' = asked + 1 /\ before' = Append(before, words)
        /\ UNCHANGED <<out, downlink, heard, uplink, words, hungUp>>
    BY <1>4 DEF TakeFlush, serverVars
  <2>2. Carried(out, downlink, heard, uplink, asked + 1, Append(before, words), words, hungUp)
    BY <1>1, CarriedAsked
  <2> QED BY <2>1, <2>2 DEF WordsInv
<1>5. CASE SendFlush \/ SendClose
  <2>1. /\ hungUp = FALSE
        /\ UNCHANGED <<out, downlink, heard, asked, before, words, hungUp>>
        /\ \/ uplink' = Append(uplink, Flush(asked)) /\ asked # 0
           \/ uplink' = Append(uplink, Close)
    BY <1>2, <1>5 DEF SendFlush, SendClose, SenderInv
  <2>2. Flush(asked) \in RequestSet /\ Close \in RequestSet
    BY <1>2 DEF Flush, Close, RequestSet
  <2>3. /\ asked # 0 => Carried(out, downlink, heard, Append(uplink, Flush(asked)), asked, before,
                                words, FALSE)
        /\ Carried(out, downlink, heard, Append(uplink, Close), asked, before, words, FALSE)
    BY <1>1, <2>1, <2>2, CarriedRequest
  <2> QED BY <2>1, <2>3 DEF WordsInv
<1>6. CASE SendFails \/ ReceiveEnd
  <2>1. /\ out' = Append(out, End)
        /\ UNCHANGED <<downlink, heard, uplink, asked, before, words, hungUp>>
    BY <1>6 DEF SendFails, ReceiveEnd, PutOut, serverVars
  <2>2. Carried(Append(out, End), downlink, heard, uplink, asked, before, words, hungUp)
    BY <1>1, EndType, CarriedPut
  <2> QED BY <2>1, <2>2 DEF WordsInv
<1>7. CASE TimerFires
  <2> DEFINE e == Event({}, TRUE, Head(pending), 0)
  <2>1. /\ ~over /\ pending # <<>> /\ out' = Append(out, e)
        /\ UNCHANGED <<downlink, heard, uplink, asked, before, words, hungUp>>
    BY <1>7 DEF TimerFires, PutOut, serverVars
  <2>2. Head(pending) \in Nat
    BY <2>1, AnswersArmed, NumberTaken DEF Answers
  <2>3. e \in EventSet /\ e.asker = 0
    <3>1. PICK k \in Nat : k = Head(pending)
      BY <2>2
    <3>2. Event({}, TRUE, k, 0) \in EventSet /\ Event({}, TRUE, k, 0).asker = 0
      BY <3>1 DEF Event, EventSet
    <3> QED BY <3>1, <3>2
  <2> HIDE DEF e
  <2>4. Carried(Append(out, e), downlink, heard, uplink, asked, before, words, hungUp)
    BY <1>1, <2>3, CarriedPut
  <2> QED BY <2>1, <2>4 DEF WordsInv
<1>8. CASE Receive
  <2> DEFINE m == Head(downlink)
  <2>1. /\ ~over /\ downlink # <<>> /\ TakeMessage(m) /\ downlink' = Tail(downlink)
        /\ UNCHANGED <<heard, uplink, asked, before, words, hungUp>>
    BY <1>8 DEF Receive
  <2>2. m \in MessageSet /\ m = downlink[1] /\ 1 \in 1..Len(downlink)
    BY <1>2, <2>1, MessageTaken
  <2>3. m.asker # 0 => m.final
    BY <2>2 DEF WordsInv, Carried, MessagesComplete
  <2> HIDE DEF m
  <2>4. m.text \in SUBSET Nat /\ m.final \in BOOLEAN /\ m.asker \in Nat
    BY <2>2 DEF MessageSet
  <2>5. pending # <<>> => Head(pending) \in Nat
    BY <2>1, AnswersArmed, NumberTaken DEF Answers
  <2>6. \E e \in EventSet : /\ out' = Append(out, e)
                            /\ e.text = m.text /\ e.final = m.final /\ e.asker = m.asker
    <3>1. CASE m.asker # 0 /\ pending # <<>>
      <4> DEFINE e == Event(m.text, TRUE, Head(pending), m.asker)
      <4>1. out' = Append(out, e)
        BY <2>1, <3>1 DEF TakeMessage, PutOut
      <4>2. e \in EventSet /\ e.text = m.text /\ e.final = TRUE /\ e.asker = m.asker
        <5>1. PICK k \in Nat : k = Head(pending)
          BY <2>5, <3>1
        <5>2. /\ Event(m.text, TRUE, k, m.asker) \in EventSet
              /\ Event(m.text, TRUE, k, m.asker).text = m.text
              /\ Event(m.text, TRUE, k, m.asker).final = TRUE
              /\ Event(m.text, TRUE, k, m.asker).asker = m.asker
          BY <2>4, <5>1 DEF Event, EventSet
        <5> QED BY <5>1, <5>2
      <4>3. m.final = TRUE
        BY <2>3, <2>4, <3>1
      <4> QED BY <4>1, <4>2, <4>3
    <3>2. CASE ~(m.asker # 0 /\ pending # <<>>)
      <4> DEFINE e == Event(m.text, m.final, 0, m.asker)
      <4>1. out' = Append(out, e)
        BY <2>1, <3>2 DEF TakeMessage, PutOut
      <4>2. e \in EventSet /\ e.text = m.text /\ e.final = m.final /\ e.asker = m.asker
        <5>1. 0 \in Nat
          OBVIOUS
        <5> QED BY <2>4, <5>1, EventType
      <4> QED BY <4>1, <4>2
    <3> QED BY <3>1, <3>2
  <2>7. PICK e \in EventSet : /\ out' = Append(out, e)
                              /\ e.text = m.text /\ e.final = m.final /\ e.asker = m.asker
    BY <2>6
  <2>8. Carried(Append(out, e), Tail(downlink), heard, uplink, asked, before, words, hungUp)
    BY <1>1, <2>1, <2>7, CarriedReceived DEF m
  <2> QED BY <2>1, <2>7, <2>8 DEF WordsInv
<1>9. CASE Yield \/ StopStream \/ UNCHANGED sttVars
  <2>1. UNCHANGED <<out, downlink, heard, uplink, asked, before, words, hungUp>>
    BY <1>9 DEF Yield, StopStream, sttVars, taskVars, serverVars
  <2> QED BY <1>1, <2>1 DEF WordsInv
<1>10. CASE ServerHears
  <2>1. /\ uplink # <<>> /\ Head(uplink).kind = "word" /\ heard' = heard \cup {Head(uplink).n}
        /\ uplink' = Tail(uplink) /\ UNCHANGED <<out, downlink, asked, before, words, hungUp>>
    BY <1>10 DEF ServerHears, taskVars
  <2>2. Carried(out, downlink, heard \cup {Head(uplink).n}, Tail(uplink), asked, before, words,
                hungUp)
    BY <1>1, <2>1, CarriedRead
  <2> QED BY <2>1, <2>2 DEF WordsInv
<1>11. CASE ServerIgnores
  <2>1. /\ uplink # <<>> /\ Head(uplink).kind = "flush" /\ uplink' = Tail(uplink)
        /\ UNCHANGED <<out, downlink, heard, asked, before, words, hungUp>>
    BY <1>11 DEF ServerIgnores, taskVars
  <2>2. Carried(out, downlink, heard, Tail(uplink), asked, before, words, hungUp)
    BY <1>1, <2>1, CarriedRead
  <2> QED BY <2>1, <2>2 DEF WordsInv
<1>12. CASE ServerAnswers
  <2> DEFINE q == Head(uplink).n
  <2>1. /\ uplink # <<>> /\ Head(uplink).kind = "flush" /\ uplink' = Tail(uplink)
        /\ downlink' = Append(downlink, Message(heard, TRUE, q)) /\ heard' = {}
        /\ UNCHANGED <<out, asked, before, words, hungUp>>
    BY <1>12 DEF ServerAnswers, taskVars
  <2>2. Head(uplink) = uplink[1] /\ 1 \in 1..Len(uplink)
    BY <1>2, <2>1, RequestTaken
  <2>3. /\ q \in 1..asked
        /\ \A w \in 1..before[q] : Somewhere(out, downlink, heard, uplink, 1, w)
    BY <1>1, <2>1, <2>2 DEF Carried, RequestsComplete
  <2>4. \A w : ~SentIn(uplink, 1, w)
    BY <2>1, <2>2 DEF SentIn
  <2>5. \A w \in 1..before[q] : Somewhere(out, downlink, heard, Tail(uplink), 0, w)
    BY <2>3, <2>4 DEF Somewhere
  <2>6. Carried(out, downlink, heard, Tail(uplink), asked, before, words, hungUp)
    BY <1>1, <2>1, CarriedRead
  <2>7. q \in 0..asked
    BY <1>2, <2>3
  <2> HIDE DEF q
  <2>8. Carried(out, Append(downlink, Message(heard, TRUE, q)), IF TRUE THEN {} ELSE heard,
                Tail(uplink), asked, before, words, hungUp)
    BY <2>5, <2>6, <2>7, CarriedTranscribed
  <2> QED BY <2>1, <2>8 DEF WordsInv
<1>13. CASE \E final \in BOOLEAN : ServerTranscribes(final)
  <2>1. PICK final \in BOOLEAN : ServerTranscribes(final)
    BY <1>13
  <2>2. /\ downlink' = Append(downlink, Message(heard, final, 0))
        /\ heard' = IF final THEN {} ELSE heard
        /\ UNCHANGED <<out, uplink, asked, before, words, hungUp>>
    BY <2>1 DEF ServerTranscribes, taskVars
  <2>3. Carried(out, Append(downlink, Message(heard, final, 0)), IF final THEN {} ELSE heard,
                uplink, asked, before, words, hungUp)
    <3>1. 0 \in 0..asked
      BY <1>2
    <3> QED BY <1>1, <3>1, CarriedTranscribed
  <2> QED BY <2>2, <2>3 DEF WordsInv
<1>14. CASE ServerCloses
  <2>1. /\ hungUp' = TRUE /\ uplink' = <<>>
        /\ UNCHANGED <<out, downlink, heard, asked, before, words>>
    BY <1>14 DEF ServerCloses, taskVars
  <2>2. Carried(out, downlink, heard, <<>>, asked, before, words, TRUE)
    BY <1>1, CarriedClosed
  <2> QED BY <2>1, <2>2 DEF WordsInv
<1> QED BY <1>3, <1>4, <1>5, <1>6, <1>7, <1>8, <1>9, <1>10, <1>11, <1>12, <1>13, <1>14
        DEF SttNext, Client, Server

LEMMA InvariantsAnswer ==
    ASSUME AnswersInv, WordsInv
    PROVE  FlushesAnswered
<1>1. PICK p \in NatSeqs : Answers(out, p, asked) /\ (~over => p = pending)
  BY DEF AnswersInv
<1>2. AnsweredOrArmed
  <2> SUFFICES ASSUME ~over
               PROVE  /\ {out[i].answers : i \in FlushedAt} = 1..(asked - Len(pending))
                      /\ \A i, j \in FlushedAt : i < j => out[i].answers < out[j].answers
                      /\ pending = [i \in 1..Len(pending) |-> (asked - Len(pending)) + i]
    BY DEF AnsweredOrArmed
  <2>1. Answers(out, pending, asked)
    BY <1>1
  <2>2. ASSUME NEW k PROVE k \in {out[i].answers : i \in FlushedAt} <=> k \in 1..(asked - Len(pending))
    BY <2>1 DEF Answers, FlushedAt
  <2>3. \A i, j \in FlushedAt : i < j => out[i].answers < out[j].answers
    BY <2>1 DEF Answers, FlushedAt
  <2>4. pending = [i \in 1..Len(pending) |-> (asked - Len(pending)) + i]
    <3>1. pending \in Seq(Nat) /\ \A i \in 1..Len(pending) : pending[i] = (asked - Len(pending)) + i
      BY <2>1 DEF Answers, NatSeqs
    <3>2. pending = [i \in 1..Len(pending) |-> pending[i]]
      BY <3>1, LenProperties
    <3> QED BY <3>1, <3>2
  <2> QED BY <2>2, <2>3, <2>4
<1>3. OwnAnswerCompletes
  <2> SUFFICES ASSUME NEW i \in 1..Len(out), out[i].flushed, out[i].asker >= out[i].answers,
                      NEW w \in 1..before[out[i].answers]
               PROVE  w \in UNION {out[j].text : j \in {k \in 1..i : out[k].final}}
    BY DEF OwnAnswerCompletes, Complete
  <2> DEFINE x == out[i].answers
             y == out[i].asker
  <2>1. asked \in Nat /\ Len(p) \in Nat /\ x \in 1..(asked - Len(p))
    BY <1>1, LenProperties DEF Answers, NatSeqs
  <2>2. y \in 0..asked /\ (y # 0 => \A v \in 1..before[y] : FinalIn(out, i, v))
    BY DEF WordsInv, Carried, EventsComplete
  <2>3. x \in 1..asked /\ y \in 1..asked /\ x <= y
    BY <2>1, <2>2
  <2>4. before \in NatSeqs /\ Len(before) = asked /\ before[x] <= before[y]
    BY <2>3 DEF WordsInv, Carried, Before
  <2>5. before[x] \in Nat /\ before[y] \in Nat
    BY <2>3, <2>4, ElementOfSeq DEF NatSeqs
  <2>6. w \in 1..before[y]
    BY <2>4, <2>5
  <2>7. FinalIn(out, i, w)
    BY <2>1, <2>2, <2>3, <2>6
  <2> QED BY <2>7 DEF FinalIn
<1> QED BY <1>2, <1>3 DEF FlushesAnswered

(* Whichever of timer and server answers first, in whatever order requests *)
(* and answers arrive, every flush has one answer or an armed timer, and   *)
(* the server's own answer is complete: for any number of flushes and      *)
(* words, and any server.                                                  *)
THEOREM EveryFlushIsAnswered == SttSpec => []FlushesAnswered
<1>1. WordsInv /\ SenderInv /\ AnswersInv /\ [SttNext]_sttVars => (WordsInv /\ SenderInv /\ AnswersInv)'
  BY AnswersStep, SenderStep, WordsStep
<1>2. SttInit => WordsInv /\ SenderInv /\ AnswersInv
  BY AnswersInit, WordsInit
<1>3. SttSpec => [](WordsInv /\ SenderInv /\ AnswersInv)
  BY <1>1, <1>2, PTL DEF SttSpec
<1> QED BY <1>3, InvariantsAnswer, PTL

-----------------------------------------------------------------------------
(* Part 4: the refinement.                                                 *)
LEMMA ContractStarts == SttInit => Contract!ContractInit
<1> SUFFICES ASSUME SttInit PROVE Contract!ContractInit
  OBVIOUS
<1>1. FlushedAt = {}
  <2>1. out = <<>> /\ Len(<<>>) = 0
    BY EmptySeq DEF SttInit
  <2> QED BY <2>1 DEF FlushedAt
<1> QED BY <1>1, FS_EmptySet DEF SttInit, Contract!ContractInit

LEMMA ContractStep ==
    AnswersInv /\ WordsInv /\ [SttNext]_sttVars => [Contract!ContractNext]_(Contract!contractVars)
<1> SUFFICES ASSUME AnswersInv, WordsInv, [SttNext]_sttVars
             PROVE  \/ Contract!Ask \/ Contract!Answer \/ Contract!Finish
                    \/ UNCHANGED <<asked, Cardinality(FlushedAt), over>>
  BY DEF Contract!ContractNext, Contract!contractVars
<1>1. FlushedAt = AnsweredAt(out) /\ FlushedAt' = AnsweredAt(out')
  BY DEF FlushedAt, AnsweredAt
<1>2. ~over => Answers(out, pending, asked)
  BY AnswersArmed
<1>3. CASE UNCHANGED <<out, pending, asked, over>>
  BY <1>1, <1>3
<1>4. CASE /\ ~over /\ UNCHANGED <<out, over>> /\ asked < MaxFlushes
           /\ asked' = asked + 1 /\ pending' = Append(pending, asked + 1)
  BY <1>1, <1>4 DEF Contract!Ask
<1>5. CASE /\ ~over /\ UNCHANGED <<asked, over>> /\ pending # <<>> /\ pending' = Tail(pending)
           /\ \E e \in EventSet : e.flushed /\ e.answers = Head(pending) /\ out' = Append(out, e)
  <2>1. PICK e \in EventSet : e.flushed /\ e.answers = Head(pending) /\ out' = Append(out, e)
    BY <1>5
  <2>2. /\ Cardinality(AnsweredAt(Append(out, e))) = Cardinality(AnsweredAt(out)) + 1
        /\ Cardinality(AnsweredAt(out)) \in Nat /\ Cardinality(AnsweredAt(out)) < asked
    BY <1>2, <1>5, <2>1, AnswersGiven
  <2> QED BY <1>1, <1>5, <2>1, <2>2 DEF Contract!Answer
<1>6. CASE /\ ~over /\ UNCHANGED <<pending, asked, over>>
           /\ \E e \in EventSet : ~e.flushed /\ out' = Append(out, e)
  <2>1. PICK e \in EventSet : ~e.flushed /\ out' = Append(out, e)
    BY <1>6
  <2>2. AnsweredAt(Append(out, e)) = AnsweredAt(out)
    BY <1>2, <1>6, <2>1, AnswersPassed
  <2> QED BY <1>1, <1>6, <2>1, <2>2
<1>7. CASE ~over /\ over' = TRUE /\ UNCHANGED <<out, asked>>
  BY <1>1, <1>7 DEF Contract!Finish
<1> QED BY <1>3, <1>4, <1>5, <1>6, <1>7, QueueStep

(* The stream keeps the safety part of the port's contract: what it yields *)
(* as answers is never more than what was asked, one at a time, and none   *)
(* after the end.                                                          *)
THEOREM StreamKeepsContract == SttSpec => Contract!ContractSafety
<1>1. WordsInv /\ SenderInv /\ AnswersInv /\ [SttNext]_sttVars => (WordsInv /\ SenderInv /\ AnswersInv)'
  BY AnswersStep, SenderStep, WordsStep
<1>2. SttInit => WordsInv /\ SenderInv /\ AnswersInv
  BY AnswersInit, WordsInit
<1>3. SttSpec => [](WordsInv /\ SenderInv /\ AnswersInv)
  BY <1>1, <1>2, PTL DEF SttSpec
<1> QED BY <1>3, ContractStarts, ContractStep, PTL DEF SttSpec, Contract!ContractSafety

-----------------------------------------------------------------------------
(***************************************************************************)
(* The stream of live events (Telemetry).  The helpers come first; a place *)
(* in a sorted list is found by induction, with the set of numbers it      *)
(* holds for.                                                              *)
(***************************************************************************)
(* A set of numbers that has 0 and with each its successor has them all.   *)
LEMMA SetInduction ==
    ASSUME NEW S, 0 \in S, \A n \in Nat : n \in S => n + 1 \in S
    PROVE  Nat \subseteq S
<1> DEFINE Rest == Nat \ S
<1> SUFFICES ASSUME Rest # {} PROVE FALSE
  OBVIOUS
<1>0. Rest \subseteq Nat
  OBVIOUS
<1>1. PICK n \in Rest : \A m \in Rest : ~ (<<m, n>> \in OpToRel(<, Nat))
  <2> HIDE DEF Rest
  <2> QED BY <1>0, WFMin, NatLessThanWellFounded, Zenon
<1>2. \A m \in Rest : ~ (m < n)
  BY <1>1, Zenon DEF OpToRel
<1>3. n # 0 /\ n \in Nat
  OBVIOUS
<1>4. n - 1 \in Nat /\ n - 1 < n /\ (n - 1) + 1 = n
  BY <1>3
<1>5. n - 1 \in S
  BY <1>2, <1>4
<1> QED BY <1>3, <1>4, <1>5

(***************************************************************************)
(* Events are numbers, and what holds or carries them are sequences.       *)
(***************************************************************************)
Increasing(s) == \A i, j \in DOMAIN s : i < j => s[i] < s[j]

InOrder(s, t) ==
    \A i, j \in DOMAIN s : i < j /\ {s[i], s[j]} \cap t = {} => s[i] < s[j]

(* s is what w ends in.                                                    *)
Suffix(s, w) ==
    /\ Len(s) <= Len(w)
    /\ \A i \in 1..Len(s) : s[i] = w[(Len(w) - Len(s)) + i]

(* r is the first n of w.                                                  *)
FirstOf(r, w, n) == Len(r) = n /\ \A i \in 1..n : r[i] = w[i]

LEMMA NothingIn ==
    /\ <<>> \in NatSeqs /\ Len(<<>>) = 0 /\ ToSet(<<>>) = {} /\ DOMAIN <<>> = {}
    /\ Increasing(<<>>) /\ IsInjective(<<>>) /\ \A t : InOrder(<<>>, t)
BY EmptySeq DEF NatSeqs, ToSet, Increasing, IsInjective, InOrder

LEMMA InSet ==
    ASSUME NEW s \in NatSeqs
    PROVE  /\ DOMAIN s = 1..Len(s) /\ Len(s) \in Nat
           /\ \A i \in 1..Len(s) : s[i] \in ToSet(s) /\ s[i] \in Nat
           /\ \A x \in ToSet(s) : x \in Nat /\ \E i \in 1..Len(s) : s[i] = x
<1>1. s \in Seq(Nat)
  BY DEF NatSeqs
<1>2. DOMAIN s = 1..Len(s) /\ Len(s) \in Nat /\ \A i \in 1..Len(s) : s[i] \in Nat
  BY <1>1, LenProperties, ElementOfSeq
<1> QED BY <1>2 DEF ToSet

LEMMA Appended ==
    ASSUME NEW s \in NatSeqs, NEW n \in Nat
    PROVE  /\ ToSet(Append(s, n)) = ToSet(s) \cup {n}
           /\ Increasing(s) /\ (\A x \in ToSet(s) : x < n) => Increasing(Append(s, n))
           /\ IsInjective(s) /\ n \notin ToSet(s) => IsInjective(Append(s, n))
           /\ \A t : /\ InOrder(s, t)
                     /\ n \in t \/ \A x \in ToSet(s) \ t : x < n
                     => InOrder(Append(s, n), t)
<1> DEFINE a == Append(s, n)
<1>1. /\ a \in NatSeqs /\ Len(s) \in Nat /\ Len(a) = Len(s) + 1 /\ a[Len(s) + 1] = n
      /\ \A i \in 1..Len(s) : a[i] = s[i]
  BY NumberAdded
<1> HIDE DEF a
<1>2. DOMAIN s = 1..Len(s) /\ DOMAIN a = 1..(Len(s) + 1)
  BY <1>1, InSet
<1>3. \A i \in DOMAIN a : (i \in DOMAIN s /\ a[i] = s[i]) \/ (i = Len(s) + 1 /\ a[i] = n)
  BY <1>1, <1>2
<1>4. \A i \in DOMAIN s : i \in DOMAIN a /\ i < Len(s) + 1 /\ a[i] = s[i] /\ s[i] \in ToSet(s)
  BY <1>1, <1>2 DEF ToSet
<1>5. ToSet(a) = ToSet(s) \cup {n}
  <2>1. ToSet(a) \subseteq ToSet(s) \cup {n}
    BY <1>3 DEF ToSet
  <2>2. ToSet(s) \subseteq ToSet(a)
    BY <1>4 DEF ToSet
  <2>3. n \in ToSet(a)
    BY <1>1, <1>2 DEF ToSet
  <2> QED BY <2>1, <2>2, <2>3
<1>6. Increasing(s) /\ (\A x \in ToSet(s) : x < n) => Increasing(a)
  BY <1>1, <1>2, <1>3, <1>4 DEF Increasing
<1>7. IsInjective(s) /\ n \notin ToSet(s) => IsInjective(a)
  BY <1>3, <1>4 DEF IsInjective
<1>8. ASSUME NEW t, InOrder(s, t), n \in t \/ \A x \in ToSet(s) \ t : x < n
      PROVE  InOrder(a, t)
  BY <1>1, <1>2, <1>3, <1>4, <1>8 DEF InOrder
<1> QED BY <1>5, <1>6, <1>7, <1>8 DEF a

LEMMA HeadTaken ==
    ASSUME NEW s \in NatSeqs, s # <<>>
    PROVE  /\ ToSet(s) = ToSet(Tail(s)) \cup {Head(s)}
           /\ Increasing(s) =>
                Increasing(Tail(s)) /\ \A x \in ToSet(Tail(s)) : Head(s) < x
<1> DEFINE r == Tail(s)
<1>1. /\ Head(s) = s[1] /\ r \in NatSeqs /\ Len(s) \in Nat /\ Len(s) >= 1 /\ Len(r) = Len(s) - 1
      /\ \A i \in 1..Len(r) : r[i] = s[i + 1]
  BY NumberTaken
<1> HIDE DEF r
<1>2. DOMAIN s = 1..Len(s) /\ DOMAIN r = 1..(Len(s) - 1)
  BY <1>1, InSet
<1>3. \A i \in DOMAIN r : i + 1 \in DOMAIN s /\ r[i] = s[i + 1] /\ 1 < i + 1
  BY <1>1, <1>2
<1>4. \A i \in DOMAIN s : i = 1 \/ (i - 1 \in DOMAIN r /\ s[i] = r[i - 1])
  <2> SUFFICES ASSUME NEW i \in DOMAIN s, i # 1
               PROVE  i - 1 \in DOMAIN r /\ s[i] = r[i - 1]
    OBVIOUS
  <2>1. i - 1 \in 1..Len(r) /\ (i - 1) + 1 = i
    BY <1>1, <1>2
  <2> QED BY <1>1, <1>2, <2>1
<1>5. 1 \in DOMAIN s
  BY <1>1, <1>2
<1>6. ToSet(s) = ToSet(r) \cup {Head(s)}
  <2>1. ToSet(r) \subseteq ToSet(s)
    BY <1>3 DEF ToSet
  <2>2. Head(s) \in ToSet(s)
    BY <1>1, <1>5 DEF ToSet
  <2>3. ToSet(s) \subseteq ToSet(r) \cup {Head(s)}
    BY <1>1, <1>4 DEF ToSet
  <2> QED BY <2>1, <2>2, <2>3
<1>7. ASSUME Increasing(s)
      PROVE  Increasing(r) /\ \A x \in ToSet(r) : Head(s) < x
  <2>1. \A i, j \in DOMAIN r : i < j => i + 1 < j + 1
    BY <1>1, <1>2
  <2>2. Increasing(r)
    BY <1>3, <1>7, <2>1 DEF Increasing
  <2>3. \A x \in ToSet(r) : Head(s) < x
    BY <1>1, <1>3, <1>5, <1>7 DEF Increasing, ToSet
  <2> QED BY <2>2, <2>3
<1> QED BY <1>6, <1>7 DEF r

(* A queue that keeps its last n is still what its source ends in.         *)
LEMMA Kept ==
    ASSUME NEW s \in NatSeqs, NEW e \in Nat, NEW n \in Nat \ {0}, Len(s) <= n
    PROVE  /\ Keep(s, e, n) \in NatSeqs /\ Len(Keep(s, e, n)) <= n /\ Len(s) \in Nat
           /\ Len(Keep(s, e, n)) = IF Len(s) < n THEN Len(s) + 1 ELSE n
           /\ Len(s) < n => \A i \in 1..Len(s) : Keep(s, e, n)[i] = s[i]
           /\ Len(s) = n => \A i \in 1..(Len(s) - 1) : Keep(s, e, n)[i] = s[i + 1]
           /\ Keep(s, e, n)[Len(Keep(s, e, n))] = e
<1> DEFINE k == Keep(s, e, n)
<1>1. Len(s) \in Nat
  BY InSet
<1>2. CASE Len(s) < n
  <2>1. k = Append(s, e)
    BY <1>2 DEF Keep
  <2>2. /\ k \in NatSeqs /\ Len(k) = Len(s) + 1 /\ k[Len(s) + 1] = e
        /\ \A i \in 1..Len(s) : k[i] = s[i]
    BY <2>1, NumberAdded
  <2> HIDE DEF k
  <2>3. Len(k) <= n /\ k[Len(k)] = e /\ Len(s) # n
    BY <1>1, <1>2, <2>2
  <2>4. /\ k \in NatSeqs /\ Len(k) <= n /\ Len(s) \in Nat
        /\ Len(k) = IF Len(s) < n THEN Len(s) + 1 ELSE n
        /\ Len(s) < n => \A i \in 1..Len(s) : k[i] = s[i]
        /\ Len(s) = n => \A i \in 1..(Len(s) - 1) : k[i] = s[i + 1]
        /\ k[Len(k)] = e
    BY <1>1, <1>2, <2>2, <2>3
  <2> QED BY <2>4 DEF k
<1>3. CASE Len(s) = n
  <2> DEFINE r == Tail(s)
  <2>1. k = Append(r, e)
    BY <1>3 DEF Keep
  <2>2. s # <<>>
    BY <1>3, NothingIn
  <2>3. r \in NatSeqs /\ Len(r) = Len(s) - 1 /\ \A i \in 1..(Len(s) - 1) : r[i] = s[i + 1]
    BY <2>2, NumberTaken
  <2> HIDE DEF r, k
  <2>4. /\ k \in NatSeqs /\ Len(k) = Len(r) + 1 /\ k[Len(r) + 1] = e
        /\ \A i \in 1..Len(r) : k[i] = r[i]
    BY <2>1, <2>3, NumberAdded
  <2>5. Len(k) = n /\ k[Len(k)] = e /\ ~(Len(s) < n)
    BY <1>1, <1>3, <2>3, <2>4
  <2>6. \A i \in 1..(Len(s) - 1) : k[i] = s[i + 1]
    BY <2>3, <2>4
  <2>7. /\ k \in NatSeqs /\ Len(k) <= n /\ Len(s) \in Nat
        /\ Len(k) = IF Len(s) < n THEN Len(s) + 1 ELSE n
        /\ Len(s) < n => \A i \in 1..Len(s) : k[i] = s[i]
        /\ Len(s) = n => \A i \in 1..(Len(s) - 1) : k[i] = s[i + 1]
        /\ k[Len(k)] = e
    BY <1>1, <1>3, <2>4, <2>5, <2>6
  <2> QED BY <2>7 DEF k
<1> QED BY <1>1, <1>2, <1>3

LEMMA KeptSuffix ==
    ASSUME NEW s \in NatSeqs, NEW w \in NatSeqs, NEW e \in Nat, NEW n \in Nat \ {0},
           Len(s) <= n, Suffix(s, w)
    PROVE  Suffix(Keep(s, e, n), Append(w, e))
<1> DEFINE k == Keep(s, e, n)  a == Append(w, e)
<1>1. /\ k \in NatSeqs /\ Len(k) <= n /\ Len(s) \in Nat
      /\ Len(k) = IF Len(s) < n THEN Len(s) + 1 ELSE n
      /\ Len(s) < n => \A i \in 1..Len(s) : k[i] = s[i]
      /\ Len(s) = n => \A i \in 1..(Len(s) - 1) : k[i] = s[i + 1]
      /\ k[Len(k)] = e
  BY Kept
<1>2. /\ Len(w) \in Nat /\ Len(a) = Len(w) + 1 /\ a[Len(w) + 1] = e
      /\ \A i \in 1..Len(w) : a[i] = w[i]
  BY NumberAdded
<1> HIDE DEF k, a
<1>3. Len(s) <= Len(w) /\ \A i \in 1..Len(s) : s[i] = w[(Len(w) - Len(s)) + i]
  BY DEF Suffix
<1>4. Len(k) <= Len(a)
  BY <1>1, <1>2, <1>3
<1>5. ASSUME NEW i \in 1..Len(k) PROVE k[i] = a[(Len(a) - Len(k)) + i]
  <2>1. CASE i = Len(k)
    BY <1>1, <1>2, <2>1
  <2>2. CASE i < Len(k) /\ Len(s) < n
    <3>1. i \in 1..Len(s) /\ (Len(w) - Len(s)) + i \in 1..Len(w)
          /\ (Len(a) - Len(k)) + i = (Len(w) - Len(s)) + i
      BY <1>1, <1>2, <1>3, <2>2
    <3> QED BY <1>1, <1>2, <1>3, <2>2, <3>1
  <2>3. CASE i < Len(k) /\ Len(s) = n
    <3>1. i \in 1..(Len(s) - 1) /\ i + 1 \in 1..Len(s)
          /\ (Len(w) - Len(s)) + (i + 1) \in 1..Len(w)
          /\ (Len(a) - Len(k)) + i = (Len(w) - Len(s)) + (i + 1)
      BY <1>1, <1>2, <1>3, <2>3
    <3>2. k[i] = s[i + 1] /\ s[i + 1] = w[(Len(w) - Len(s)) + (i + 1)]
      BY <1>1, <1>3, <2>3, <3>1
    <3> QED BY <1>2, <3>1, <3>2
  <2>4. Len(k) \in Nat /\ (Len(s) < n \/ Len(s) = n)
    BY <1>1
  <2>5. i = Len(k) \/ i < Len(k)
    BY <2>4
  <2> QED BY <2>1, <2>2, <2>3, <2>4, <2>5
<1>6. Suffix(k, a)
  BY <1>4, <1>5 DEF Suffix
<1> QED BY <1>6 DEF k, a

LEMMA TailSuffix ==
    ASSUME NEW s \in NatSeqs, NEW w \in NatSeqs, s # <<>>, Suffix(s, w)
    PROVE  Suffix(Tail(s), w) /\ Head(s) = w[(Len(w) - Len(s)) + 1]
<1> DEFINE r == Tail(s)
<1>1. /\ Head(s) = s[1] /\ r \in NatSeqs /\ Len(s) \in Nat /\ Len(s) >= 1 /\ Len(r) = Len(s) - 1
      /\ \A i \in 1..Len(r) : r[i] = s[i + 1]
  BY NumberTaken
<1> HIDE DEF r
<1>2. Len(s) <= Len(w) /\ Len(w) \in Nat /\ \A i \in 1..Len(s) : s[i] = w[(Len(w) - Len(s)) + i]
  BY InSet DEF Suffix
<1>3. ASSUME NEW i \in 1..Len(r) PROVE r[i] = w[(Len(w) - Len(r)) + i]
  <2>1. i + 1 \in 1..Len(s) /\ (Len(w) - Len(r)) + i = (Len(w) - Len(s)) + (i + 1)
    BY <1>1, <1>2
  <2> QED BY <1>1, <1>2, <2>1
<1>4. Suffix(r, w) /\ Head(s) = w[(Len(w) - Len(s)) + 1]
  BY <1>1, <1>2, <1>3 DEF Suffix
<1> QED BY <1>4 DEF r

LEMMA CutAt ==
    ASSUME NEW p \in NatSeqs, NEW k \in 0..Len(p), NEW m \in k..Len(p)
    PROVE  /\ SubSeq(p, k + 1, m) \in NatSeqs /\ Len(SubSeq(p, k + 1, m)) = m - k
           /\ \A i \in 1..(m - k) : SubSeq(p, k + 1, m)[i] = p[k + i]
<1>1. Len(p) \in Nat /\ \A i \in 1..Len(p) : p[i] \in Nat
  BY InSet
<1>2. k + 1 \in Int /\ m \in Int /\ \A i \in (k + 1)..m : p[i] \in Nat
  BY <1>1
<1> DEFINE s == SubSeq(p, k + 1, m)
<1>3. /\ s \in Seq(Nat) /\ Len(s) = IF k + 1 <= m THEN m - (k + 1) + 1 ELSE 0
      /\ \A i \in 1..(m - (k + 1) + 1) : s[i] = p[(k + 1) + i - 1]
  BY <1>2, SubSeqProperties
<1> HIDE DEF s
<1>4. Len(s) = m - k /\ \A i \in 1..(m - k) : i \in 1..(m - (k + 1) + 1) /\ (k + 1) + i - 1 = k + i
  BY <1>1, <1>3
<1> QED BY <1>3, <1>4 DEF s, NatSeqs

LEMMA JoinedTo ==
    ASSUME NEW a \in NatSeqs, NEW b \in NatSeqs
    PROVE  /\ a \o b \in NatSeqs /\ Len(a \o b) = Len(a) + Len(b)
           /\ \A i \in 1..Len(a) : (a \o b)[i] = a[i]
           /\ \A i \in 1..Len(b) : (a \o b)[Len(a) + i] = b[i]
<1> DEFINE c == a \o b
<1>1. a \in Seq(Nat) /\ b \in Seq(Nat) /\ Len(a) \in Nat /\ Len(b) \in Nat
  BY InSet DEF NatSeqs
<1>2. /\ c \in Seq(Nat) /\ Len(c) = Len(a) + Len(b)
      /\ \A i \in 1..(Len(a) + Len(b)) : c[i] = IF i <= Len(a) THEN a[i] ELSE b[i - Len(a)]
  BY <1>1, ConcatProperties
<1> HIDE DEF c
<1>3. \A i \in 1..Len(a) : c[i] = a[i]
  <2> SUFFICES ASSUME NEW i \in 1..Len(a) PROVE c[i] = a[i]
    OBVIOUS
  <2>1. i \in 1..(Len(a) + Len(b)) /\ i <= Len(a)
    BY <1>1
  <2> QED BY <1>2, <2>1
<1>4. \A i \in 1..Len(b) : c[Len(a) + i] = b[i]
  <2> SUFFICES ASSUME NEW i \in 1..Len(b) PROVE c[Len(a) + i] = b[i]
    OBVIOUS
  <2>1. Len(a) + i \in 1..(Len(a) + Len(b)) /\ ~(Len(a) + i <= Len(a)) /\ (Len(a) + i) - Len(a) = i
    BY <1>1
  <2> QED BY <1>2, <2>1
<1> QED BY <1>2, <1>3, <1>4 DEF c, NatSeqs

(* The panel's list, sorted as it is: the smaller ones are its first.      *)
LEMMA SmallerFirst ==
    ASSUME NEW p \in NatSeqs, Increasing(p), NEW e \in Nat
    PROVE  /\ Smaller(p, e) \in 0..Len(p)
           /\ \A i \in 1..Len(p) : p[i] < e <=> i <= Smaller(p, e)
<1> DEFINE Split(n, k) == \A i \in 1..n : p[i] < e <=> i <= k
           Ok == {n \in Nat : n <= Len(p) => \E k \in 0..n : Split(n, k)}
<1>1. DOMAIN p = 1..Len(p) /\ Len(p) \in Nat /\ \A i \in 1..Len(p) : p[i] \in Nat
  BY InSet
<1>2. 0 \in Ok
  OBVIOUS
<1>3. ASSUME NEW n \in Nat, n \in Ok PROVE n + 1 \in Ok
  <2> SUFFICES ASSUME n + 1 <= Len(p) PROVE \E k \in 0..(n + 1) : Split(n + 1, k)
    OBVIOUS
  <2>1. PICK k \in 0..n : Split(n, k)
    BY <1>1, <1>3
  <2>2. CASE p[n + 1] < e
    <3>1. \A i \in 1..n : p[i] < p[n + 1] /\ p[i] \in Nat /\ p[n + 1] \in Nat
      BY <1>1 DEF Increasing
    <3>2. \A i \in 1..(n + 1) : p[i] < e
      BY <2>2, <3>1
    <3>3. Split(n + 1, n + 1)
      BY <3>2
    <3> QED BY <3>3
  <2>3. CASE ~(p[n + 1] < e)
    <3>1. ASSUME NEW i \in 1..(n + 1) PROVE p[i] < e <=> i <= k
      <4>1. CASE i \in 1..n
        BY <2>1, <4>1
      <4>2. CASE i = n + 1
        <5>1. ~(n + 1 <= k)
          OBVIOUS
        <5> QED BY <2>3, <4>2, <5>1
      <4> QED BY <4>1, <4>2
    <3>2. Split(n + 1, k) /\ k \in 0..(n + 1)
      BY <3>1
    <3> HIDE DEF Split
    <3> QED BY <3>2
  <2> QED BY <2>2, <2>3
<1>4. Len(p) \in Ok
  <2> HIDE DEF Ok
  <2> QED BY <1>1, <1>2, <1>3, SetInduction
<1>5. PICK k \in 0..Len(p) : Split(Len(p), k)
  BY <1>1, <1>4
<1>6. {i \in DOMAIN p : p[i] < e} = 1..k
  BY <1>1, <1>5
<1>7. Smaller(p, e) = k
  <2>1. Cardinality(1..k) = k
    BY <1>1, <1>5, FS_Interval
  <2> QED BY <1>6, <2>1 DEF Smaller
<1> QED BY <1>5, <1>7

(* A turn is put in its place, once.                                       *)
LEMMA TurnReplaced ==
    ASSUME NEW p \in NatSeqs, Increasing(p), NEW e \in Nat
    PROVE  /\ ReplaceTurn(p, e) \in NatSeqs /\ Increasing(ReplaceTurn(p, e))
           /\ ToSet(ReplaceTurn(p, e)) = ToSet(p) \cup {e}
<1> DEFINE k == Smaller(p, e)  m == Smaller(p, e + 1)
           less == SubSeq(p, 1, k)  more == SubSeq(p, m + 1, Len(p))
           r == ReplaceTurn(p, e)
<1>1. DOMAIN p = 1..Len(p) /\ Len(p) \in Nat /\ \A i \in 1..Len(p) : p[i] \in Nat
  BY InSet
<1>2. k \in 0..Len(p) /\ \A i \in 1..Len(p) : p[i] < e <=> i <= k
  BY SmallerFirst
<1>3. m \in 0..Len(p) /\ \A i \in 1..Len(p) : p[i] < e + 1 <=> i <= m
  <2>1. e + 1 \in Nat
    OBVIOUS
  <2> HIDE DEF k, less, more, r
  <2> QED BY <2>1, SmallerFirst
<1> HIDE DEF k, m
<1>4. less \in NatSeqs /\ Len(less) = k /\ \A i \in 1..k : less[i] = p[i]
  <2>1. k \in 0..Len(p) /\ 0 \in 0..Len(p) /\ 0 + 1 = 1 /\ k - 0 = k /\ \A i \in 1..k : 0 + i = i
    BY <1>1, <1>2
  <2> QED BY <2>1, CutAt
<1>5. /\ more \in NatSeqs /\ Len(more) = Len(p) - m
      /\ \A i \in 1..(Len(p) - m) : more[i] = p[m + i]
  <2>1. Len(p) \in m..Len(p)
    BY <1>1, <1>3
  <2> QED BY <1>3, <2>1, CutAt
<1>6. r = Append(less, e) \o more
  BY DEF ReplaceTurn, k, m
<1> HIDE DEF less, more, r
<1>7. /\ r \in NatSeqs /\ Len(r) = (k + 1) + (Len(p) - m)
      /\ \A i \in 1..k : r[i] = p[i]
      /\ r[k + 1] = e
      /\ \A i \in 1..(Len(p) - m) : r[(k + 1) + i] = p[m + i]
  <2> DEFINE b == Append(less, e)
  <2>1. /\ b \in NatSeqs /\ Len(b) = k + 1 /\ b[k + 1] = e
        /\ \A i \in 1..k : b[i] = less[i]
    BY <1>4, NumberAdded
  <2> HIDE DEF b
  <2>2. r = b \o more
    BY <1>6 DEF b
  <2>3. /\ r \in NatSeqs /\ Len(r) = Len(b) + Len(more)
        /\ \A i \in 1..Len(b) : r[i] = b[i]
        /\ \A i \in 1..Len(more) : r[Len(b) + i] = more[i]
    BY <1>5, <2>1, <2>2, JoinedTo
  <2>4. k + 1 \in 1..Len(b) /\ \A i \in 1..k : i \in 1..Len(b)
    BY <1>2, <2>1
  <2> QED BY <1>4, <1>5, <2>1, <2>3, <2>4
<1>8. DOMAIN r = 1..Len(r)
  BY <1>7, InSet
<1>9. k <= m /\ (m > k => m = k + 1 /\ p[k + 1] = e)
  <2>1. k <= m
    BY <1>1, <1>2, <1>3
  <2>2. \A i \in 1..Len(p) : i > k /\ i <= m => p[i] = e
    BY <1>1, <1>2, <1>3
  <2>3. m > k + 1 => k + 1 \in 1..Len(p) /\ k + 2 \in 1..Len(p) /\ p[k + 1] = e /\ p[k + 2] = e
    BY <1>2, <1>3, <2>2
  <2>4. ~(m > k + 1)
    BY <1>1, <1>2, <2>3 DEF Increasing
  <2> QED BY <1>1, <1>2, <1>3, <2>1, <2>2, <2>4
<1>10. \A i \in 1..Len(r) :
          \/ i \in 1..k /\ r[i] = p[i] /\ p[i] < e
          \/ i = k + 1 /\ r[i] = e
          \/ /\ i > k + 1 /\ m + (i - (k + 1)) \in 1..Len(p)
             /\ r[i] = p[m + (i - (k + 1))] /\ p[m + (i - (k + 1))] > e
  <2> SUFFICES ASSUME NEW i \in 1..Len(r), i > k + 1
               PROVE  /\ m + (i - (k + 1)) \in 1..Len(p)
                      /\ r[i] = p[m + (i - (k + 1))] /\ p[m + (i - (k + 1))] > e
    BY <1>1, <1>2, <1>7
  <2> DEFINE d == i - (k + 1)
  <2>1. d \in 1..(Len(p) - m) /\ (k + 1) + d = i /\ m + d \in 1..Len(p) /\ m + d > m
    BY <1>1, <1>2, <1>3, <1>7
  <2> HIDE DEF d
  <2>2. r[(k + 1) + d] = p[m + d]
    BY <1>7, <2>1
  <2>3. ~(m + d <= m) /\ p[m + d] \in Nat
    BY <1>1, <1>3, <2>1
  <2>4. p[m + d] > e
    BY <1>3, <2>1, <2>3
  <2> QED BY <2>1, <2>2, <2>4 DEF d
<1>11. Increasing(r)
  <2> SUFFICES ASSUME NEW i \in 1..Len(r), NEW j \in 1..Len(r), i < j PROVE r[i] < r[j]
    BY <1>8 DEF Increasing
  <2>1. CASE j <= k
    <3>1. i \in 1..k /\ j \in 1..k /\ i \in 1..Len(p) /\ j \in 1..Len(p)
      BY <1>1, <1>2, <1>7, <2>1
    <3> QED BY <1>1, <1>7, <3>1 DEF Increasing
  <2>2. CASE j = k + 1
    BY <1>2, <1>10, <2>2
  <2>3. CASE j > k + 1 /\ i <= k + 1
    <3>1. r[j] > e /\ r[j] \in Nat
      BY <1>1, <1>2, <1>10, <2>3
    <3>2. r[i] <= e /\ r[i] \in Nat
      BY <1>1, <1>2, <1>10, <2>3
    <3> QED BY <3>1, <3>2
  <2>4. CASE i > k + 1
    <3> DEFINE a == m + (i - (k + 1))  b == m + (j - (k + 1))
    <3>1. a \in 1..Len(p) /\ b \in 1..Len(p) /\ r[i] = p[a] /\ r[j] = p[b] /\ a < b
      BY <1>1, <1>2, <1>3, <1>7, <1>10, <2>4
    <3> HIDE DEF a, b
    <3> QED BY <1>1, <3>1 DEF Increasing
  <2> QED BY <1>2, <1>7, <2>1, <2>2, <2>3, <2>4
<1>12. ToSet(r) = ToSet(p) \cup {e}
  <2>1. ToSet(r) \subseteq ToSet(p) \cup {e}
    BY <1>1, <1>2, <1>8, <1>10 DEF ToSet
  <2>2. e \in ToSet(r)
    BY <1>1, <1>2, <1>3, <1>7, <1>8 DEF ToSet
  <2>3. ASSUME NEW i \in 1..Len(p) PROVE p[i] \in ToSet(r) \cup {e}
    <3>1. CASE i <= k
      <4>1. i \in 1..k /\ i \in 1..Len(r)
        BY <1>1, <1>2, <1>3, <1>7, <3>1
      <4> QED BY <1>7, <1>8, <4>1 DEF ToSet
    <3>2. CASE i > m
      <4> DEFINE d == i - m
      <4>1. d \in 1..(Len(p) - m) /\ m + d = i /\ (k + 1) + d \in 1..Len(r)
        BY <1>1, <1>2, <1>3, <1>7, <3>2
      <4> HIDE DEF d
      <4> QED BY <1>7, <1>8, <4>1 DEF ToSet
    <3>3. CASE i > k /\ i <= m
      BY <1>2, <1>3, <1>9, <3>3
    <3> QED BY <1>2, <1>3, <3>1, <3>2, <3>3
  <2> QED BY <1>1, <2>1, <2>2, <2>3 DEF ToSet
<1> QED BY <1>7, <1>11, <1>12 DEF r

-----------------------------------------------------------------------------
(***************************************************************************)
(* The sink and the API: where each event of the call is.                  *)
(***************************************************************************)
Emitted == 1..emitted

EventTypes ==
    /\ {queue, history, ingested, stream, read, panel} \subseteq NatSeqs
    /\ emitted \in 0..Ended /\ posting \in 0..Ended /\ gauge \in Int /\ restarts \in Nat
    /\ closingSeen \in BOOLEAN /\ lagged \in BOOLEAN /\ ended \in BOOLEAN
    /\ caller \in {"calling", "closing", "closed"}
    /\ drain \in {"none", "waiting", "posting", "dead", "cancelled"}
    /\ conn \in {"closed", "connecting", "open", "finished"}
    /\ posting # None <=> drain = "posting"
    /\ Len(queue) <= QueueSize /\ Len(history) <= Replay /\ Len(stream) <= StreamSize

(* Only what was emitted is anywhere; a closed sink has no task that runs. *)
PlaceInv ==
    /\ caller # "calling" => emitted = Ended
    /\ caller = "closed" => drain \in {"none", "cancelled"}
    /\ posting # None => posting \in Emitted
    /\ ToSet(queue) \cup late \cup trouble \cup ToSet(ingested) \subseteq Emitted

(* What was taken in without trouble, the post, and the queue, in order.   *)
SmoothInv ==
    /\ Increasing(queue) /\ InOrder(ingested, trouble)
    /\ \A x \in ToSet(queue) : posting < x
    /\ \A x \in ToSet(ingested) \ trouble :
        (posting # None => x < posting) /\ \A y \in ToSet(queue) : x < y

(* An event is in one place: taken in, on its way late, or still to post.  *)
Untaken(e) == e \notin ToSet(ingested) /\ e \notin late

OnceInv ==
    /\ IsInjective(ingested)
    /\ late \subseteq trouble /\ late \cap ToSet(ingested) = {}
    /\ posting # None => Untaken(posting)
    /\ caller # "closed" => \A x \in ToSet(queue) : Untaken(x)

(* What is in no place had trouble, as long as the API is the same.        *)
CoverInv ==
    restarts = 0 => Emitted \subseteq ToSet(ingested) \cup trouble \cup ToSet(queue) \cup {posting}

(* The gauge counts the ends of the call that were taken in.               *)
GaugeInv ==
    /\ gauge = (IF 1 \in ToSet(ingested) THEN 1 ELSE 0)
                - (IF Ended \in ToSet(ingested) THEN 1 ELSE 0)
    /\ closingSeen <=> Ended \in ToSet(ingested)

SinkInv == PlaceInv /\ SmoothInv /\ OnceInv /\ CoverInv /\ GaugeInv

LEMMA EventNumbers == Ended \in Nat /\ Ended > 1 /\ QueueSize \in Nat \ {0}
                      /\ Replay \in Nat \ {0} /\ StreamSize \in Nat \ {0} /\ Replay <= StreamSize
BY EventsAssumption, QueueAssumption, ReplayAssumption

LEMMA SinkStarts == Init => EventTypes /\ SinkInv
<1> SUFFICES ASSUME Init PROVE EventTypes /\ SinkInv
  OBVIOUS
<1>1. EventTypes
  <2>1. <<>> \in NatSeqs /\ Len(<<>>) = 0
    BY NothingIn
  <2>2. {queue, history, ingested, stream, read, panel} \subseteq NatSeqs
    BY <2>1 DEF Init
  <2>3. Len(queue) <= QueueSize /\ Len(history) <= Replay /\ Len(stream) <= StreamSize
    BY <2>1, EventNumbers DEF Init
  <2>4. /\ emitted \in 0..Ended /\ posting \in 0..Ended /\ gauge \in Int /\ restarts \in Nat
        /\ posting = None /\ drain # "posting"
    BY EventNumbers DEF Init, None
  <2>5. closingSeen \in BOOLEAN /\ lagged \in BOOLEAN /\ ended \in BOOLEAN
    BY DEF Init
  <2>6. /\ caller \in {"calling", "closing", "closed"}
        /\ drain \in {"none", "waiting", "posting", "dead", "cancelled"}
        /\ conn \in {"closed", "connecting", "open", "finished"}
    BY DEF Init
  <2> QED BY <2>2, <2>3, <2>4, <2>5, <2>6 DEF EventTypes
<1>2. PlaceInv /\ SmoothInv /\ OnceInv /\ CoverInv
  BY NothingIn, EventNumbers
     DEF Init, PlaceInv, SmoothInv, OnceInv, CoverInv, Emitted, Untaken, None
<1>3. GaugeInv
  BY NothingIn DEF Init, GaugeInv
<1> QED BY <1>1, <1>2, <1>3 DEF SinkInv

LEMMA EventsAre ==
    ASSUME EventTypes, PlaceInv
    PROVE  /\ Emitted \subseteq 1..Ended /\ Emitted \subseteq Nat /\ None \notin Emitted
           /\ emitted + 1 \notin Emitted /\ \A x \in Emitted : x < emitted + 1
           /\ \A x \in ToSet(queue) \cup ToSet(ingested) \cup late \cup trouble : x \in Nat /\ x # None
           /\ posting \in Nat /\ posting < emitted + 1
BY EventNumbers DEF EventTypes, PlaceInv, Emitted, None

(* emit()                                                                  *)
LEMMA EmitSink ==
    ASSUME EventTypes, SinkInv, Emit
    PROVE  SinkInv'
<1> DEFINE e == emitted + 1
<1>1. e \in Nat /\ e \notin Emitted /\ (\A x \in Emitted : x < e) /\ Emitted' = Emitted \cup {e}
      /\ posting < e /\ Emitted \subseteq Nat /\ None \notin Emitted
  BY EventsAre DEF SinkInv, Emit, Emitted, EventTypes
<1>2. \/ queue' = Append(queue, e) /\ trouble' = trouble
      \/ queue' = queue /\ trouble' = trouble \cup {e}
  BY DEF Emit
<1>3. /\ UNCHANGED <<caller, posting, late, ingested, gauge, closingSeen, restarts>>
      /\ caller = "calling" /\ emitted' = e
  BY DEF Emit, apiVars, bounds
<1> HIDE DEF e
<1>4. queue \in NatSeqs
  BY DEF EventTypes
<1>5. ToSet(queue) \subseteq Emitted /\ late \subseteq Emitted /\ trouble \subseteq Emitted
      /\ ToSet(ingested) \subseteq Emitted
  BY DEF SinkInv, PlaceInv
<1>6. PlaceInv'
  <2>1. ToSet(queue)' \subseteq Emitted'
    BY ZenonT(60), <1>1, <1>2, <1>4, <1>5, Appended
  <2> QED BY <1>1, <1>2, <1>3, <1>5, <2>1 DEF SinkInv, PlaceInv
<1>7. CASE queue' = Append(queue, e) /\ trouble' = trouble
  <2>1. ToSet(queue)' = ToSet(queue) \cup {e} /\ (Increasing(queue) => Increasing(queue)')
    BY <1>1, <1>4, <1>5, <1>7, Appended
  <2>2. SmoothInv'
    BY <1>1, <1>3, <1>5, <1>7, <2>1 DEF SinkInv, SmoothInv
  <2>3. OnceInv'
    BY <1>1, <1>3, <1>5, <1>7, <2>1 DEF SinkInv, OnceInv, Untaken
  <2>4. CoverInv'
    BY <1>1, <1>3, <1>7, <2>1 DEF SinkInv, CoverInv
  <2> QED BY <1>3, <1>6, <2>2, <2>3, <2>4 DEF SinkInv, GaugeInv
<1>8. CASE queue' = queue /\ trouble' = trouble \cup {e}
  <2>1. SmoothInv'
    BY <1>3, <1>8 DEF SinkInv, SmoothInv, InOrder
  <2>2. OnceInv'
    BY <1>3, <1>8 DEF SinkInv, OnceInv, Untaken
  <2>3. CoverInv'
    BY <1>1, <1>3, <1>8 DEF SinkInv, CoverInv
  <2> QED BY <1>3, <1>6, <2>1, <2>2, <2>3 DEF SinkInv, GaugeInv
<1> QED BY <1>2, <1>7, <1>8

LEMMA TakeSink ==
    ASSUME EventTypes, SinkInv, Take
    PROVE  SinkInv'
<1>1. /\ queue \in NatSeqs /\ queue # <<>> /\ posting' = Head(queue) /\ queue' = Tail(queue)
      /\ drain = "waiting" /\ drain' = "posting" /\ posting = None
      /\ UNCHANGED <<emitted, caller, late, trouble, ingested, gauge, closingSeen, restarts>>
  BY DEF Take, EventTypes, apiVars, bounds
<1>2. /\ ToSet(queue) = ToSet(queue)' \cup {posting'} /\ Increasing(queue)'
      /\ \A x \in ToSet(queue)' : posting' < x
  BY <1>1, HeadTaken DEF SinkInv, SmoothInv
<1>3. Emitted' = Emitted /\ caller # "closed"
  BY <1>1 DEF Emitted, SinkInv, PlaceInv
<1>4. PlaceInv'
  BY <1>1, <1>2, <1>3 DEF SinkInv, PlaceInv
<1>5. SmoothInv'
  BY <1>1, <1>2 DEF SinkInv, SmoothInv
<1>6. OnceInv'
  BY <1>1, <1>2, <1>3 DEF SinkInv, OnceInv, Untaken
<1>7. CoverInv'
  BY <1>1, <1>2, <1>3, EventsAre DEF SinkInv, CoverInv
<1> QED BY <1>1, <1>4, <1>5, <1>6, <1>7 DEF SinkInv, GaugeInv

(* The API takes in an event that it has not taken in yet.                 *)
LEMMA Ingested ==
    ASSUME EventTypes, SinkInv, NEW e \in Emitted, Untaken(e) \/ e \in late, Ingest(e),
           e \in trouble \/ e = posting
    PROVE  /\ ToSet(ingested)' = ToSet(ingested) \cup {e} /\ IsInjective(ingested)'
           /\ InOrder(ingested', trouble) /\ GaugeInv'
<1>1. ingested \in NatSeqs /\ ingested' = Append(ingested, e) /\ e \in Nat /\ e \notin ToSet(ingested)
  BY EventsAre DEF Ingest, EventTypes, SinkInv, OnceInv, Untaken
<1>2. e \in trouble \/ \A x \in ToSet(ingested) \ trouble : x < e
  BY EventsAre DEF SinkInv, SmoothInv
<1>3. /\ ToSet(ingested)' = ToSet(ingested) \cup {e} /\ IsInjective(ingested)'
      /\ InOrder(ingested', trouble)
  BY <1>1, <1>2, Appended DEF SinkInv, OnceInv, SmoothInv
<1>4. GaugeInv'
  <2>1. /\ gauge' = gauge + (IF e = 1 THEN 1 ELSE 0) - (IF e = Ended /\ ~closingSeen THEN 1 ELSE 0)
        /\ closingSeen' <=> (closingSeen \/ e = Ended)
    BY DEF Ingest, Count, EventTypes
  <2>2. closingSeen <=> Ended \in ToSet(ingested)
    BY DEF SinkInv, GaugeInv
  <2>3. closingSeen' <=> Ended \in ToSet(ingested)'
    BY <1>3, <2>1, <2>2
  <2>4. CASE e = 1
    <3>1. e # Ended /\ gauge' = gauge + 1
      BY <2>1, <2>4, EventNumbers DEF EventTypes
    <3> QED BY <1>1, <1>3, <2>3, <2>4, <3>1 DEF SinkInv, GaugeInv
  <2>5. CASE e = Ended
    <3>1. e # 1 /\ gauge' = gauge - 1
      BY <1>1, <2>1, <2>2, <2>5, EventNumbers DEF EventTypes
    <3> QED BY <1>1, <1>3, <2>3, <2>5, <3>1 DEF SinkInv, GaugeInv
  <2>6. CASE e # 1 /\ e # Ended
    <3>1. gauge' = gauge
      BY <2>1, <2>6 DEF EventTypes
    <3> QED BY <1>3, <2>3, <2>6, <3>1 DEF SinkInv, GaugeInv
  <2> QED BY <2>4, <2>5, <2>6
<1> QED BY <1>3, <1>4

LEMMA AnsweredSink ==
    ASSUME EventTypes, SinkInv, PostAnswered
    PROVE  SinkInv'
<1>1. /\ drain = "posting" /\ posting # None /\ Ingest(posting) /\ posting' = None
      /\ drain' = "waiting" /\ caller # "closed"
      /\ UNCHANGED <<emitted, caller, queue, late, trouble, restarts>>
  BY DEF PostAnswered, PostOver, EventTypes, SinkInv, PlaceInv, bounds
<1>2. posting \in Emitted /\ Untaken(posting) /\ Emitted' = Emitted
  BY <1>1 DEF SinkInv, PlaceInv, OnceInv, Emitted
<1>3. /\ ToSet(ingested)' = ToSet(ingested) \cup {posting} /\ IsInjective(ingested)'
      /\ InOrder(ingested', trouble) /\ GaugeInv'
  BY <1>1, <1>2, Ingested
<1>4. PlaceInv'
  BY <1>1, <1>2, <1>3 DEF SinkInv, PlaceInv
<1>5. SmoothInv'
  <2>1. \A x \in ToSet(queue) : x \in Nat /\ None < x
    BY EventsAre DEF None, SinkInv
  <2> QED BY <1>1, <1>3, <2>1 DEF SinkInv, SmoothInv
<1>6. OnceInv'
  <2>1. \A x \in ToSet(queue) : x # posting
    BY EventsAre DEF SinkInv, SmoothInv
  <2> QED BY <1>1, <1>2, <1>3, <2>1 DEF SinkInv, OnceInv, Untaken
<1>7. CoverInv'
  BY <1>1, <1>2, <1>3 DEF SinkInv, CoverInv
<1> QED BY <1>3, <1>4, <1>5, <1>6, <1>7 DEF SinkInv

(* A post that fails, times out or is left behind by the task has trouble, *)
(* and may be late.                                                        *)
LEMMA TroubledSink ==
    ASSUME EventTypes, SinkInv, PostFails \/ PostTimesOut \/ DrainDies
    PROVE  SinkInv'
<1>1. /\ drain = "posting" /\ posting # None /\ posting' = None
      /\ drain' \in {"waiting", "dead"} /\ caller # "closed"
      /\ trouble' = trouble \cup {posting} /\ late' \in {late, late \cup {posting}}
      /\ UNCHANGED <<emitted, caller, queue, ingested, gauge, closingSeen, restarts>>
  BY DEF PostFails, PostTimesOut, DrainDies, PostOver, EventTypes, SinkInv, PlaceInv,
         bounds, apiVars
<1>2. posting \in Emitted /\ Untaken(posting) /\ Emitted' = Emitted
  BY <1>1 DEF SinkInv, PlaceInv, OnceInv, Emitted
<1>4. PlaceInv'
  BY <1>1, <1>2 DEF SinkInv, PlaceInv
<1>5. SmoothInv'
  <2>1. \A x \in ToSet(queue) : x \in Nat /\ None < x
    BY EventsAre DEF None, SinkInv
  <2>2. InOrder(ingested, trouble')
    BY <1>1 DEF SinkInv, SmoothInv, InOrder
  <2> QED BY <1>1, <2>1, <2>2 DEF SinkInv, SmoothInv
<1>6. OnceInv'
  <2>1. \A x \in ToSet(queue) : x # posting
    BY EventsAre DEF SinkInv, SmoothInv
  <2> QED BY <1>1, <1>2, <2>1 DEF SinkInv, OnceInv, Untaken
<1>7. CoverInv'
  BY <1>1, <1>2 DEF SinkInv, CoverInv
<1> QED BY <1>1, <1>4, <1>5, <1>6, <1>7 DEF SinkInv, GaugeInv

LEMMA LateSink ==
    ASSUME EventTypes, SinkInv, NEW e \in Events, ArriveLate(e)
    PROVE  SinkInv'
<1>1. /\ e \in late /\ late' = late \ {e} /\ Ingest(e)
      /\ UNCHANGED <<emitted, caller, queue, posting, drain, trouble, restarts>>
  BY DEF ArriveLate, sinkVars, bounds
<1>2. e \in Emitted /\ e \in trouble /\ Emitted' = Emitted
  BY <1>1 DEF SinkInv, PlaceInv, OnceInv, Emitted
<1>3. /\ ToSet(ingested)' = ToSet(ingested) \cup {e} /\ IsInjective(ingested)'
      /\ InOrder(ingested', trouble) /\ GaugeInv'
  BY <1>1, <1>2, Ingested
<1>4. PlaceInv'
  BY <1>1, <1>2, <1>3 DEF SinkInv, PlaceInv
<1>5. SmoothInv'
  BY <1>1, <1>2, <1>3 DEF SinkInv, SmoothInv
<1>6. OnceInv'
  BY <1>1, <1>2, <1>3 DEF SinkInv, OnceInv, Untaken
<1>7. CoverInv'
  BY <1>1, <1>2, <1>3 DEF SinkInv, CoverInv
<1> QED BY <1>3, <1>4, <1>5, <1>6, <1>7 DEF SinkInv

(* aclose(): what is in the queue or in the post is left behind.           *)
LEMMA CloseSink ==
    ASSUME EventTypes, SinkInv, BeginClose \/ FinishClose
    PROVE  SinkInv'
<1>1. CASE BeginClose
  <2>1. /\ emitted = Ended /\ caller = "calling" /\ caller' = "closing"
        /\ UNCHANGED <<emitted, queue, posting, drain, late, trouble, ingested, gauge,
                       closingSeen, restarts>>
    BY <1>1 DEF BeginClose, sinkVars, apiVars, bounds
  <2> QED BY <2>1 DEF SinkInv, PlaceInv, SmoothInv, OnceInv, CoverInv, GaugeInv, Emitted, Untaken
<1>2. CASE FinishClose
  <2>1. /\ caller = "closing" /\ caller' = "closed" /\ posting' = None
        /\ drain' \in {"none", "cancelled"}
        /\ trouble' = trouble \cup ToSet(queue) \cup ({posting} \ {None})
        /\ late' \in {late, late \cup ({posting} \ {None})}
        /\ UNCHANGED <<emitted, queue, ingested, gauge, closingSeen, restarts>>
    BY <1>2 DEF FinishClose, apiVars, bounds
  <2>2. Emitted' = Emitted /\ (posting # None => posting \in Emitted /\ Untaken(posting))
    BY <2>1 DEF SinkInv, PlaceInv, OnceInv, Emitted
  <2>3. PlaceInv'
    BY <2>1, <2>2 DEF SinkInv, PlaceInv
  <2>4. SmoothInv'
    <3>1. \A x \in ToSet(queue) : x \in Nat /\ None < x
      BY EventsAre DEF None, SinkInv
    <3>2. InOrder(ingested, trouble')
      BY <2>1 DEF SinkInv, SmoothInv, InOrder
    <3>3. trouble \subseteq trouble'
      BY <2>1
    <3> QED BY <2>1, <3>1, <3>2, <3>3 DEF SinkInv, SmoothInv
  <2>5. OnceInv'
    BY <2>1, <2>2 DEF SinkInv, OnceInv, Untaken
  <2>6. CoverInv'
    BY <2>1, <2>2, EventsAre DEF SinkInv, CoverInv
  <2> QED BY <2>1, <2>3, <2>4, <2>5, <2>6 DEF SinkInv, GaugeInv
<1> QED BY <1>1, <1>2

LEMMA RestartSink ==
    ASSUME EventTypes, SinkInv, Restart
    PROVE  SinkInv'
<1>1. /\ ingested' = <<>> /\ gauge' = 0 /\ closingSeen' = FALSE /\ late' = {}
      /\ restarts' = restarts + 1 /\ restarts' # 0
      /\ UNCHANGED <<emitted, caller, queue, posting, drain, trouble>>
  BY DEF Restart, sinkVars, EventTypes
<1>2. ToSet(ingested') = {} /\ IsInjective(ingested') /\ InOrder(ingested', trouble)
  BY <1>1, NothingIn
<1>3. PlaceInv' /\ SmoothInv'
  BY <1>1, <1>2 DEF SinkInv, PlaceInv, SmoothInv, Emitted
<1>4. OnceInv'
  BY <1>1, <1>2 DEF SinkInv, OnceInv, Untaken
<1>5. CoverInv' /\ GaugeInv'
  BY <1>1, <1>2 DEF CoverInv, GaugeInv
<1> QED BY <1>3, <1>4, <1>5 DEF SinkInv

Browser == Open \/ Subscribe \/ Deliver \/ LoseConnection

LEMMA SinkStep ==
    ASSUME EventTypes, SinkInv, [Next]_vars
    PROVE  SinkInv'
<1>1. CASE Browser \/ UNCHANGED vars
  <2>1. UNCHANGED <<emitted, caller, queue, posting, drain, late, trouble, ingested, gauge,
                    closingSeen, restarts>>
    BY <1>1 DEF Browser, Open, Subscribe, Deliver, LoseConnection, vars, sinkVars, apiVars, bounds
  <2> QED BY <2>1 DEF SinkInv, PlaceInv, SmoothInv, OnceInv, CoverInv, GaugeInv, Emitted, Untaken
<1>2. CASE Sink
  BY <1>2, EmitSink, TakeSink, AnsweredSink, TroubledSink DEF Sink
<1>3. CASE \E e \in Events : ArriveLate(e)
  BY <1>3, LateSink
<1> QED BY <1>1, <1>2, <1>3, CloseSink, RestartSink DEF Next, Browser

-----------------------------------------------------------------------------
(***************************************************************************)
(* The streams and the panel.                                              *)
(***************************************************************************)
(* The history is what was taken in last, all of it if it fits.            *)
HistoryInv ==
    /\ Suffix(history, ingested)
    /\ Len(history) = Replay \/ Len(history) = Len(ingested)

(* An open stream is about to carry the last of what was taken in; one     *)
(* that lost nothing has carried all that came before.                     *)
StreamInv ==
    conn = "open" =>
        /\ Suffix(stream, ingested)
        /\ ~lagged => FirstOf(read, ingested, Len(ingested) - Len(stream))

(* The panel has the turns the connection has carried, each in its place.  *)
PanelInv ==
    /\ ToSet(panel) \subseteq Turns /\ Increasing(panel)
    /\ conn = "open" => ToSet(read) \cap Turns \subseteq ToSet(panel)
    /\ ended => conn = "finished"
    /\ PanelComplete

BrowserInv == HistoryInv /\ StreamInv /\ PanelInv

LEMMA EmptySuffix ==
    ASSUME NEW w \in NatSeqs
    PROVE  /\ Suffix(<<>>, w) /\ Suffix(w, w) /\ FirstOf(<<>>, w, 0)
           /\ \A s \in NatSeqs : Suffix(s, w) /\ Len(s) = Len(w) => FirstOf(<<>>, w, Len(w) - Len(s))
<1>1. Len(<<>>) = 0 /\ Len(w) \in Nat
  BY NothingIn, InSet
<1> QED BY <1>1 DEF Suffix, FirstOf

LEMMA BrowserStarts == Init => BrowserInv
<1> SUFFICES ASSUME Init PROVE BrowserInv
  OBVIOUS
<1>1. HistoryInv
  BY NothingIn, EmptySuffix DEF Init, HistoryInv
<1>2. StreamInv /\ PanelInv
  BY NothingIn DEF Init, StreamInv, PanelInv, PanelComplete
<1> QED BY <1>1, <1>2 DEF BrowserInv

(* One event more is taken in: the replay and the stream end in it.        *)
LEMMA IngestStream ==
    ASSUME EventTypes, BrowserInv, NEW e \in Nat, Ingest(e)
    PROVE  HistoryInv' /\ StreamInv'
<1> DEFINE w == Append(ingested, e)
<1>1. /\ ingested' = w /\ history' = Keep(history, e, Replay) /\ FeedStream(e)
      /\ UNCHANGED <<conn, read>>
  BY DEF Ingest
<1>2. /\ history \in NatSeqs /\ ingested \in NatSeqs /\ stream \in NatSeqs /\ read \in NatSeqs
      /\ Len(history) <= Replay /\ Len(stream) <= StreamSize /\ lagged \in BOOLEAN
  BY DEF EventTypes
<1>3. /\ Len(ingested) \in Nat /\ Len(w) = Len(ingested) + 1
      /\ \A i \in 1..Len(ingested) : w[i] = ingested[i]
  BY <1>2, NumberAdded
<1> HIDE DEF w
<1>4. HistoryInv'
  <2>1. Suffix(Keep(history, e, Replay), w)
    BY <1>2, KeptSuffix, EventNumbers DEF BrowserInv, HistoryInv, w
  <2>2. /\ Len(Keep(history, e, Replay)) = IF Len(history) < Replay THEN Len(history) + 1 ELSE Replay
        /\ Len(history) \in Nat
    BY <1>2, Kept, EventNumbers
  <2> QED BY <1>1, <1>2, <1>3, <2>1, <2>2, EventNumbers DEF BrowserInv, HistoryInv
<1>5. StreamInv'
  <2> SUFFICES ASSUME conn = "open"
               PROVE  /\ Suffix(stream', w)
                      /\ ~lagged' => FirstOf(read, w, Len(w) - Len(stream'))
    BY <1>1 DEF StreamInv
  <2>1. stream' = Keep(stream, e, StreamSize) /\ (lagged' <=> lagged \/ Len(stream) = StreamSize)
    BY <1>1, <1>2 DEF FeedStream
  <2>2. Suffix(stream, ingested) /\ (~lagged => FirstOf(read, ingested, Len(ingested) - Len(stream)))
    BY DEF BrowserInv, StreamInv
  <2>3. Suffix(stream', w)
    BY <1>2, <2>1, <2>2, KeptSuffix, EventNumbers DEF w
  <2>4. ASSUME ~lagged' PROVE FirstOf(read, w, Len(w) - Len(stream'))
    <3>0. Len(stream) \in Nat /\ Len(stream) < StreamSize
      BY <1>2, <2>1, <2>4, InSet, EventNumbers
    <3> DEFINE kept == Keep(stream, e, StreamSize)
    <3>a. Len(kept) = IF Len(stream) < StreamSize THEN Len(stream) + 1 ELSE StreamSize
      BY <1>2, Kept, EventNumbers
    <3> HIDE DEF kept
    <3>1. stream' = kept /\ Len(kept) = Len(stream) + 1
      BY <2>1, <3>0, <3>a DEF kept
    <3>2. Len(w) - Len(stream') = Len(ingested) - Len(stream)
      BY <1>3, <3>0, <3>1
    <3> QED BY <1>3, <2>1, <2>2, <2>4, <3>0, <3>2 DEF FirstOf
  <2> QED BY <2>3, <2>4
<1> QED BY <1>4, <1>5

(* Nothing that befalls the sink or the API takes a turn off the panel.    *)
LEMMA PanelKept ==
    ASSUME EventTypes, BrowserInv, UNCHANGED <<read, panel, ended>>,
           trouble \subseteq trouble', restarts' = 0 => restarts = 0,
           conn' = "open" => conn = "open", conn = "finished" => conn' = "finished",
           conn # "open" => lagged' = lagged
    PROVE  PanelInv'
<1>1. ended => conn = "finished" /\ lagged' = lagged
  BY DEF BrowserInv, PanelInv
<1>2. PanelComplete'
  BY <1>1 DEF BrowserInv, PanelInv, PanelComplete
<1> QED BY <1>1, <1>2 DEF BrowserInv, PanelInv

(* When the end of a call is delivered and nothing went wrong, all its     *)
(* turns were delivered before it.                                         *)
LEMMA AllBeforeTheEnd ==
    ASSUME EventTypes, SinkInv, BrowserInv, conn = "open", stream # <<>>,
           Head(stream) = Ended, trouble = {}, ~lagged, restarts = 0
    PROVE  Turns \subseteq ToSet(panel)
<1> DEFINE k == Len(ingested) - Len(stream)
<1>1. ingested \in NatSeqs /\ stream \in NatSeqs /\ read \in NatSeqs
  BY DEF EventTypes
<1>2. Suffix(stream, ingested) /\ FirstOf(read, ingested, k)
  BY DEF BrowserInv, StreamInv
<1>3. /\ k \in Nat /\ k + 1 \in 1..Len(ingested) /\ ingested[k + 1] = Ended
  <2>1. Head(stream) = ingested[k + 1]
    BY <1>1, <1>2, TailSuffix
  <2>2. Len(stream) \in Nat /\ Len(stream) >= 1 /\ Len(ingested) \in Nat
    BY <1>1, NumberTaken, InSet
  <2> QED BY <1>2, <2>1, <2>2 DEF Suffix
<1> HIDE DEF k
<1>4. DOMAIN ingested = 1..Len(ingested) /\ Len(ingested) \in Nat /\ Ended \in ToSet(ingested)
  BY <1>1, <1>3, InSet
<1>5. Emitted = 1..Ended
  BY <1>4 DEF SinkInv, PlaceInv, Emitted, EventTypes
<1>6. posting = None /\ ToSet(queue) = {}
  <2>1. /\ posting # None => Ended < posting
        /\ \A y \in ToSet(queue) : Ended < y
    BY <1>4 DEF SinkInv, SmoothInv
  <2>2. posting \in 0..Ended /\ ToSet(queue) \subseteq 1..Ended
    BY <1>5 DEF EventTypes, SinkInv, PlaceInv
  <2> QED BY <2>1, <2>2, EventNumbers
<1>7. \A t \in Turns : t \in ToSet(ingested) /\ t \in Nat /\ t < Ended /\ t # None
  BY <1>5, <1>6, EventNumbers DEF SinkInv, CoverInv, Turns, None
<1>8. ASSUME NEW t \in Turns PROVE t \in ToSet(read)
  <2>1. PICK i \in 1..Len(ingested) : ingested[i] = t
    BY <1>1, <1>7, InSet
  <2>2. ~(k + 1 < i)
    <3>1. k + 1 < i => ingested[k + 1] < ingested[i]
      BY <1>3, <1>4 DEF SinkInv, SmoothInv, InOrder
    <3> QED BY <1>3, <1>7, <2>1, <3>1, EventNumbers
  <2>3. i # k + 1
    BY <1>3, <1>7, <2>1, EventNumbers
  <2>4. i \in 1..k
    BY <1>3, <1>4, <2>2, <2>3
  <2>5. i \in 1..Len(read) /\ read[i] = t
    BY <1>2, <2>1, <2>4 DEF FirstOf
  <2> QED BY <1>1, <2>5, InSet
<1> QED BY <1>8 DEF BrowserInv, PanelInv

LEMMA DeliverStep ==
    ASSUME EventTypes, SinkInv, BrowserInv, Deliver
    PROVE  StreamInv' /\ PanelInv'
<1> DEFINE e == Head(stream)
<1>1. /\ conn = "open" /\ stream # <<>> /\ read' = Append(read, e)
      /\ panel' = (IF e \in Turns THEN ReplaceTurn(panel, e) ELSE panel)
      /\ ended' <=> (ended \/ e = Ended)
      /\ conn' = (IF e = Ended THEN "finished" ELSE "open")
      /\ e # Ended => stream' = Tail(stream)
      /\ UNCHANGED <<ingested, lagged, trouble, restarts>>
  BY DEF Deliver, apiVars, bounds, EventTypes
<1>2. /\ ingested \in NatSeqs /\ stream \in NatSeqs /\ read \in NatSeqs /\ panel \in NatSeqs
  BY DEF EventTypes
<1>3. ~ended /\ ToSet(panel) \subseteq Turns /\ Increasing(panel)
      /\ ToSet(read) \cap Turns \subseteq ToSet(panel)
  BY <1>1 DEF BrowserInv, PanelInv
<1>4. e \in Nat /\ Ended \notin Turns
  <2>1. e \in ToSet(stream)
    BY <1>1, <1>2, HeadTaken
  <2> QED BY <1>2, <2>1, InSet, EventNumbers DEF Turns
<1>5. StreamInv'
  <2> SUFFICES ASSUME e # Ended
               PROVE  /\ Suffix(Tail(stream), ingested)
                      /\ ~lagged => FirstOf(Append(read, e), ingested,
                                            Len(ingested) - Len(Tail(stream)))
    BY <1>1 DEF StreamInv
  <2>1. Suffix(stream, ingested) /\ (~lagged => FirstOf(read, ingested, Len(ingested) - Len(stream)))
    BY <1>1 DEF BrowserInv, StreamInv
  <2>2. Suffix(Tail(stream), ingested) /\ e = ingested[(Len(ingested) - Len(stream)) + 1]
    BY <1>1, <1>2, <2>1, TailSuffix
  <2>3. ASSUME ~lagged
        PROVE  FirstOf(Append(read, e), ingested, Len(ingested) - Len(Tail(stream)))
    <3> DEFINE k == Len(ingested) - Len(stream)  a == Append(read, e)
    <3>0. Len(Tail(stream)) = Len(stream) - 1 /\ Len(stream) >= 1 /\ Len(stream) \in Nat
      BY <1>1, <1>2, NumberTaken
    <3>1. /\ Len(stream) \in Nat /\ Len(ingested) \in Nat
          /\ Len(Tail(stream)) = Len(stream) - 1 /\ Len(stream) >= 1
      BY <1>2, <3>0, InSet
    <3>a. Len(stream) <= Len(ingested)
      BY <2>1 DEF Suffix
    <3>b. ASSUME NEW n \in Nat, NEW l \in Nat, NEW r, r = l - 1, l <= n
          PROVE  n - l \in Nat /\ n - r = (n - l) + 1
      BY <3>b
    <3>2. k \in Nat /\ Len(ingested) - Len(Tail(stream)) = k + 1
      BY <3>1, <3>a, <3>b, Zenon
    <3>3. Len(read) = k /\ \A i \in 1..k : read[i] = ingested[i]
      BY <2>1, <2>3 DEF FirstOf
    <3>4. Len(a) = Len(read) + 1 /\ a[Len(read) + 1] = e /\ \A i \in 1..Len(read) : a[i] = read[i]
      BY <1>2, <1>4, NumberAdded
    <3>5. e = ingested[k + 1]
      BY <2>2
    <3> HIDE DEF k, a, e
    <3>6. ASSUME NEW i \in 1..(k + 1) PROVE a[i] = ingested[i]
      <4>1. i \in 1..k \/ i = k + 1
        BY <3>2
      <4> QED BY <3>3, <3>4, <3>5, <4>1
    <3>7. FirstOf(a, ingested, k + 1)
      BY <3>3, <3>4, <3>6 DEF FirstOf
    <3> QED BY <3>2, <3>7 DEF a
  <2> QED BY <2>2, <2>3
<1>6. /\ ToSet(panel)' = IF e \in Turns THEN ToSet(panel) \cup {e} ELSE ToSet(panel)
      /\ Increasing(panel)' /\ ToSet(read)' = ToSet(read) \cup {e}
  <2>1. /\ Increasing(ReplaceTurn(panel, e))
        /\ ToSet(ReplaceTurn(panel, e)) = ToSet(panel) \cup {e}
    BY <1>2, <1>3, <1>4, TurnReplaced
  <2>2. ToSet(Append(read, e)) = ToSet(read) \cup {e}
    BY <1>2, <1>4, Appended
  <2> HIDE DEF e
  <2> QED BY <1>1, <1>3, <2>1, <2>2
<1>7. PanelComplete'
  <2> SUFFICES ASSUME e = Ended, trouble = {}, ~lagged, restarts = 0 PROVE ToSet(panel)' = Turns
    BY <1>1, <1>3 DEF PanelComplete
  <2>1. Turns \subseteq ToSet(panel)
    BY <1>1, AllBeforeTheEnd
  <2> QED BY <1>3, <1>4, <1>6, <2>1
<1>8. PanelInv'
  BY <1>1, <1>3, <1>6, <1>7 DEF PanelInv
<1> QED BY <1>5, <1>8

LEMMA SubscribeStep ==
    ASSUME EventTypes, BrowserInv, Subscribe
    PROVE  StreamInv' /\ PanelInv'
<1>1. /\ conn = "connecting" /\ stream' = history /\ read' = <<>>
      /\ lagged' <=> Len(ingested) > Replay
      /\ UNCHANGED <<ingested, panel, ended, trouble, restarts>>
  BY DEF Subscribe, apiVars, bounds
<1>2. history \in NatSeqs /\ ingested \in NatSeqs
  BY DEF EventTypes
<1>3. Suffix(history, ingested)
  BY DEF BrowserInv, HistoryInv
<1>4. ~lagged' => Len(history) = Len(ingested)
  <2>1. Len(history) \in Nat /\ Len(ingested) \in Nat /\ Len(history) <= Len(ingested)
    BY <1>2, <1>3, InSet DEF Suffix
  <2>2. Len(history) = Replay \/ Len(history) = Len(ingested)
    BY DEF BrowserInv, HistoryInv
  <2> QED BY <1>1, <2>1, <2>2, EventNumbers
<1>5. StreamInv'
  BY <1>1, <1>2, <1>3, <1>4, EmptySuffix DEF StreamInv
<1>6. ~ended
  BY <1>1 DEF BrowserInv, PanelInv
<1> QED BY <1>1, <1>5, <1>6, NothingIn DEF BrowserInv, PanelInv, PanelComplete

LEMMA BrowserStep ==
    ASSUME EventTypes, SinkInv, BrowserInv, [Next]_vars
    PROVE  BrowserInv'
<1>1. CASE Open \/ LoseConnection
  <2>1. /\ conn \in {"closed", "open"} /\ conn' = "connecting"
        /\ UNCHANGED <<ingested, history, lagged, read, panel, ended, trouble, restarts>>
    BY <1>1 DEF Open, LoseConnection, apiVars, bounds
  <2>2. PanelInv'
    BY <2>1, PanelKept
  <2> QED BY <2>1, <2>2 DEF BrowserInv, HistoryInv, StreamInv
<1>2. CASE Subscribe
  <2>1. UNCHANGED <<history, ingested>>
    BY <1>2 DEF Subscribe, apiVars
  <2> QED BY <1>2, <2>1, SubscribeStep DEF BrowserInv, HistoryInv
<1>3. CASE Deliver
  <2>1. UNCHANGED <<history, ingested>>
    BY <1>3 DEF Deliver, apiVars
  <2> QED BY <1>3, <2>1, DeliverStep DEF BrowserInv, HistoryInv
<1>4. CASE Restart
  <2>1. /\ history' = <<>> /\ ingested' = <<>> /\ conn' # "open" /\ restarts' # 0
        /\ conn = "finished" => conn' = "finished"
        /\ UNCHANGED <<lagged, read, panel, ended, trouble>>
    BY <1>4 DEF Restart, EventTypes
  <2>2. HistoryInv'
    BY <2>1, NothingIn, EmptySuffix DEF HistoryInv
  <2>3. PanelInv'
    BY <2>1, PanelKept
  <2> QED BY <2>1, <2>2, <2>3 DEF BrowserInv, StreamInv
<1>5. ASSUME NEW e \in Nat, Ingest(e), UNCHANGED <<trouble, restarts>> PROVE BrowserInv'
  <2>1. HistoryInv' /\ StreamInv'
    BY <1>5, IngestStream
  <2>2. UNCHANGED <<conn, read, panel, ended>> /\ (conn # "open" => lagged' = lagged)
    BY <1>5 DEF Ingest, FeedStream
  <2>3. PanelInv'
    BY <1>5, <2>2, PanelKept
  <2> QED BY <2>1, <2>3 DEF BrowserInv
<1>6. CASE PostAnswered
  <2>1. posting \in Nat /\ Ingest(posting) /\ UNCHANGED <<trouble, restarts>>
    BY <1>6 DEF PostAnswered, bounds, EventTypes
  <2> QED BY <1>5, <2>1
<1>7. CASE \E e \in Events : ArriveLate(e)
  <2>1. PICK e \in Events : ArriveLate(e)
    BY <1>7
  <2>2. e \in Nat /\ Ingest(e) /\ UNCHANGED <<trouble, restarts>>
    BY <2>1, EventNumbers DEF ArriveLate, bounds, Events
  <2> QED BY <1>5, <2>2
<1>8. CASE Emit \/ Take \/ PostFails \/ PostTimesOut \/ DrainDies \/ BeginClose \/ FinishClose
           \/ UNCHANGED vars
  <2>1. UNCHANGED <<history, ingested, conn, stream, lagged, read, panel, ended, restarts>>
    BY <1>8 DEF Emit, Take, PostFails, PostTimesOut, DrainDies, BeginClose, FinishClose,
                vars, apiVars, browserVars, bounds
  <2>2. trouble \subseteq trouble'
    BY <1>8 DEF Emit, Take, PostFails, PostTimesOut, DrainDies, BeginClose, FinishClose, vars
  <2>3. PanelInv'
    BY <2>1, <2>2, PanelKept
  <2> QED BY <2>1, <2>3 DEF BrowserInv, HistoryInv, StreamInv
<1> QED BY <1>1, <1>2, <1>3, <1>4, <1>6, <1>7, <1>8 DEF Next, Sink

-----------------------------------------------------------------------------
(* Every variable keeps to its type.                                       *)
Queues ==
    /\ {queue, history, ingested, stream, read, panel} \subseteq NatSeqs
    /\ Len(queue) <= QueueSize /\ Len(history) <= Replay /\ Len(stream) <= StreamSize

Phases ==
    /\ emitted \in 0..Ended /\ posting \in 0..Ended /\ gauge \in Int /\ restarts \in Nat
    /\ closingSeen \in BOOLEAN /\ lagged \in BOOLEAN /\ ended \in BOOLEAN
    /\ caller \in {"calling", "closing", "closed"}
    /\ drain \in {"none", "waiting", "posting", "dead", "cancelled"}
    /\ conn \in {"closed", "connecting", "open", "finished"}
    /\ posting # None <=> drain = "posting"

LEMMA IngestTypes ==
    ASSUME Queues, Phases, NEW e \in Nat, Ingest(e)
    PROVE  /\ {history', ingested', stream'} \subseteq NatSeqs
           /\ Len(history)' <= Replay /\ Len(stream)' <= StreamSize
           /\ gauge' \in Int /\ closingSeen' \in BOOLEAN /\ lagged' \in BOOLEAN
           /\ UNCHANGED <<conn, read, panel, ended>>
<1>1. /\ history' \in NatSeqs /\ Len(history)' <= Replay
  BY Kept, EventNumbers DEF Ingest, Queues
<1>2. ingested' \in NatSeqs
  BY NumberAdded DEF Ingest, Queues
<1>3. stream' \in NatSeqs /\ Len(stream)' <= StreamSize /\ lagged' \in BOOLEAN
  <2>1. Keep(stream, e, StreamSize) \in NatSeqs /\ Len(Keep(stream, e, StreamSize)) <= StreamSize
    BY Kept, EventNumbers DEF Queues
  <2> QED BY <2>1 DEF Ingest, FeedStream, Queues, Phases
<1>4. gauge' \in Int /\ closingSeen' \in BOOLEAN
  BY DEF Ingest, Count, Phases
<1> QED BY <1>1, <1>2, <1>3, <1>4 DEF Ingest

LEMMA DeliverTypes ==
    ASSUME Queues, Phases, PanelInv, Deliver
    PROVE  (Queues /\ Phases)'
<1> DEFINE e == Head(stream)
<1>1. /\ conn = "open" /\ stream # <<>> /\ read' = Append(read, e)
      /\ panel' = (IF e \in Turns THEN ReplaceTurn(panel, e) ELSE panel)
      /\ ended' = (ended \/ e = Ended)
      /\ conn' = (IF e = Ended THEN "finished" ELSE "open")
      /\ stream' = (IF e = Ended THEN <<>> ELSE Tail(stream))
      /\ UNCHANGED <<emitted, caller, sinkVars, apiVars, lagged, restarts>>
  BY DEF Deliver, bounds
<1>2. e \in Nat /\ Tail(stream) \in NatSeqs /\ Len(Tail(stream)) <= StreamSize
  <2>1. stream \in NatSeqs /\ Len(stream) <= StreamSize
    BY DEF Queues
  <2>2. Tail(stream) \in NatSeqs /\ Len(Tail(stream)) = Len(stream) - 1 /\ Len(stream) \in Nat
        /\ e \in Nat
    BY <1>1, <2>1, NumberTaken
  <2> QED BY <2>1, <2>2, EventNumbers
<1>3. ReplaceTurn(panel, e) \in NatSeqs
  BY <1>2, TurnReplaced DEF PanelInv, Queues
<1>4. Append(read, e) \in NatSeqs
  BY <1>2, NumberAdded DEF Queues
<1> HIDE DEF e
<1>5. {stream', read', panel'} \subseteq NatSeqs /\ Len(stream') <= StreamSize
  <2>1. stream' \in NatSeqs /\ Len(stream') <= StreamSize
    BY <1>1, <1>2, NothingIn, EventNumbers
  <2> QED BY <1>1, <1>3, <1>4, <2>1 DEF Queues
<1>6. Queues'
  BY <1>1, <1>5 DEF Queues, sinkVars, apiVars
<1>7. conn' \in {"closed", "connecting", "open", "finished"} /\ ended' \in BOOLEAN
  BY <1>1 DEF Phases
<1> QED BY <1>1, <1>6, <1>7 DEF Phases, sinkVars, apiVars

LEMMA SinkTypes ==
    ASSUME Queues, Phases, PlaceInv, Emit \/ Take \/ PostAnswered
    PROVE  (Queues /\ Phases)'
<1>1. CASE Emit
  <2>1. /\ emitted < Ended /\ emitted' = emitted + 1
        /\ drain' = IF drain \in {"none", "dead"} THEN "waiting" ELSE drain
        /\ UNCHANGED <<caller, posting, history, ingested, gauge, closingSeen, conn, stream,
                       lagged, read, panel, ended, restarts>>
    BY <1>1 DEF Emit, apiVars, browserVars, bounds
  <2>2. queue' \in NatSeqs /\ Len(queue') <= QueueSize
    <3>1. CASE Len(queue) < QueueSize /\ queue' = Append(queue, emitted + 1)
      BY <3>1, NumberAdded, EventNumbers DEF Queues, Phases
    <3> QED BY <1>1, <3>1 DEF Emit, Queues
  <2>3. Queues'
    BY <2>1, <2>2 DEF Queues
  <2>4. Phases'
    BY <2>1, EventNumbers DEF Phases
  <2> QED BY <2>3, <2>4
<1>2. CASE Take
  <2>1. /\ queue # <<>> /\ posting' = Head(queue) /\ queue' = Tail(queue) /\ drain' = "posting"
        /\ UNCHANGED <<emitted, caller, history, ingested, gauge, closingSeen, conn, stream,
                       lagged, read, panel, ended, restarts>>
    BY <1>2 DEF Take, apiVars, browserVars, bounds
  <2>2. queue \in NatSeqs /\ Len(queue) <= QueueSize
    BY DEF Queues
  <2>3. Head(queue) \in ToSet(queue)
    BY <2>1, <2>2, HeadTaken
  <2>4. posting' \in 1..Ended
    BY <2>1, <2>3, EventNumbers DEF PlaceInv, Emitted, Phases
  <2>5. queue' \in NatSeqs /\ Len(queue)' <= QueueSize
    <3>1. Tail(queue) \in NatSeqs /\ Len(Tail(queue)) = Len(queue) - 1 /\ Len(queue) \in Nat
      BY <2>1, <2>2, NumberTaken
    <3> QED BY <2>1, <2>2, <3>1, EventNumbers
  <2>6. Queues'
    BY <2>1, <2>5 DEF Queues
  <2>7. Phases'
    BY <2>1, <2>4, EventNumbers DEF Phases, None
  <2> QED BY <2>6, <2>7
<1>3. CASE PostAnswered
  <2>1. /\ Ingest(posting) /\ posting' = None /\ drain' = "waiting"
        /\ UNCHANGED <<emitted, caller, queue, restarts>>
    BY <1>3 DEF PostAnswered, PostOver, bounds
  <2>2. posting \in Nat
    BY DEF Phases
  <2>3. /\ {history', ingested', stream'} \subseteq NatSeqs
        /\ Len(history)' <= Replay /\ Len(stream)' <= StreamSize
        /\ gauge' \in Int /\ closingSeen' \in BOOLEAN /\ lagged' \in BOOLEAN
        /\ UNCHANGED <<conn, read, panel, ended>>
    BY <2>1, <2>2, IngestTypes
  <2> QED BY <2>1, <2>3, EventNumbers DEF Queues, Phases, None
<1> QED BY <1>1, <1>2, <1>3

LEMMA TypesStep ==
    ASSUME EventTypes, SinkInv, BrowserInv, [Next]_vars
    PROVE  EventTypes'
<1>0. Queues /\ Phases /\ PlaceInv /\ PanelInv
  BY Zenon DEF EventTypes, Queues, Phases, SinkInv, BrowserInv
<1> SUFFICES (Queues /\ Phases)'
  BY Zenon DEF EventTypes, Queues, Phases
<1>1. CASE Emit \/ Take \/ PostAnswered
  BY <1>0, <1>1, SinkTypes
<1>2. CASE Deliver
  BY <1>0, <1>2, DeliverTypes
<1>3. CASE \E e \in Events : ArriveLate(e)
  <2>1. PICK e \in Events : ArriveLate(e)
    BY <1>3
  <2>2. e \in Nat /\ Ingest(e) /\ UNCHANGED <<emitted, caller, queue, drain, posting, restarts>>
    BY <2>1, EventNumbers DEF ArriveLate, sinkVars, bounds, Events
  <2>3. /\ {history', ingested', stream'} \subseteq NatSeqs
        /\ Len(history)' <= Replay /\ Len(stream)' <= StreamSize
        /\ gauge' \in Int /\ closingSeen' \in BOOLEAN /\ lagged' \in BOOLEAN
        /\ UNCHANGED <<conn, read, panel, ended>>
    BY <1>0, <2>2, IngestTypes
  <2>4. Queues'
    BY <1>0, <2>2, <2>3 DEF Queues
  <2>5. Phases'
    BY <1>0, <2>2, <2>3 DEF Phases
  <2> QED BY <2>4, <2>5
<1>4. CASE PostFails \/ PostTimesOut \/ DrainDies \/ BeginClose \/ FinishClose
  <2>1. /\ caller' \in {"calling", "closing", "closed"}
        /\ \/ posting' = None /\ drain' \in {"none", "waiting", "dead", "cancelled"}
           \/ UNCHANGED <<drain, posting>>
    BY <1>0, <1>4 DEF PostFails, PostTimesOut, DrainDies, BeginClose, FinishClose, PostOver,
                      sinkVars, Phases
  <2>2. UNCHANGED <<emitted, queue, history, ingested, gauge, closingSeen, conn, stream,
                    lagged, read, panel, ended, restarts>>
    BY <1>4 DEF PostFails, PostTimesOut, DrainDies, BeginClose, FinishClose,
                sinkVars, apiVars, browserVars, bounds
  <2>3. Queues' /\ Phases'
    BY <1>0, <2>1, <2>2, EventNumbers DEF Queues, Phases, None
  <2> QED BY <2>3
<1>5. CASE Restart
  <2>1. /\ history' = <<>> /\ ingested' = <<>> /\ stream' = <<>> /\ gauge' = 0
        /\ closingSeen' \in BOOLEAN /\ restarts' = restarts + 1
        /\ conn' \in {conn, "connecting"}
        /\ UNCHANGED <<emitted, caller, queue, drain, posting, lagged, read, panel, ended>>
    BY <1>5 DEF Restart, sinkVars
  <2>2. Queues'
    BY <1>0, <2>1, NothingIn, EventNumbers DEF Queues
  <2>3. Phases'
    BY <1>0, <2>1 DEF Phases
  <2> QED BY <2>2, <2>3
<1>6. CASE Open \/ Subscribe \/ LoseConnection
  <2>0. lagged' \in BOOLEAN
    <3>1. CASE Subscribe
      BY <3>1 DEF Subscribe
    <3>2. CASE Open \/ LoseConnection
      <4>1. lagged' = lagged
        BY <3>2 DEF Open, LoseConnection
      <4> QED BY <1>0, <4>1 DEF Phases
    <3> QED BY <1>6, <3>1, <3>2
  <2>1. /\ conn' \in {"connecting", "open"} /\ stream' \in {stream, <<>>, history}
        /\ read' \in {read, <<>>}
        /\ UNCHANGED <<emitted, caller, queue, drain, posting, history, ingested, gauge,
                       closingSeen, panel, ended, restarts>>
    BY <1>6 DEF Open, Subscribe, LoseConnection, sinkVars, apiVars, bounds
  <2>2. /\ read' \in NatSeqs /\ stream' \in NatSeqs /\ Len(stream)' <= StreamSize
    BY <1>0, <2>1, NothingIn, InSet, EventNumbers DEF Queues
  <2>3. Queues'
    BY <1>0, <2>1, <2>2 DEF Queues
  <2>4. Phases'
    BY <1>0, <2>0, <2>1 DEF Phases
  <2> QED BY <2>3, <2>4
<1>7. CASE UNCHANGED vars
  <2>1. UNCHANGED <<emitted, caller, queue, drain, posting, history, ingested, gauge, closingSeen,
                    conn, stream, lagged, read, panel, ended, restarts>>
    BY <1>7 DEF vars, sinkVars, apiVars, browserVars, bounds
  <2> QED BY <1>0, <2>1 DEF Queues, Phases
<1> QED BY <1>1, <1>2, <1>3, <1>4, <1>5, <1>6, <1>7 DEF Next, Sink

(***************************************************************************)
(* What the invariant says of the call and of its panel.                   *)
(***************************************************************************)
EventsInv == EventTypes /\ SinkInv /\ BrowserInv

LEMMA EventsAlways == Spec => []EventsInv
<1>1. Init => EventsInv
  BY SinkStarts, BrowserStarts DEF EventsInv
<1>2. EventsInv /\ [Next]_vars => EventsInv'
  BY SinkStep, BrowserStep, TypesStep DEF EventsInv
<1> QED BY <1>1, <1>2, PTL DEF Spec

(* The API takes in each event of a call at most once, in order but for    *)
(* those that had trouble, whatever posts fail, time out or come late; and *)
(* its gauge of active calls settles.                                      *)
THEOREM EventsTakenOnce == Spec => []EventsOnce
<1>1. ASSUME EventsInv PROVE EventsOnce
  <2>1. TypeOK
    <3>1. \A x \in Emitted : x \in Events
      BY <1>1, EventsAre DEF EventsInv, SinkInv, Events
    <3>2. late \subseteq trouble /\ trouble \subseteq Events
      BY <1>1, <3>1 DEF EventsInv, SinkInv, PlaceInv, OnceInv
    <3>3. posting \in Events \cup {None}
      BY <1>1, EventNumbers DEF EventsInv, EventTypes, Events, None
    <3> QED BY <1>1, <3>2, <3>3 DEF EventsInv, EventTypes, TypeOK
  <2>2. IngestedOnceInOrder
    BY <1>1 DEF EventsInv, SinkInv, OnceInv, SmoothInv, InOrder, IngestedOnceInOrder
  <2>3. GaugeSettles
    BY <1>1 DEF EventsInv, SinkInv, GaugeInv, GaugeSettles
  <2> QED BY <2>1, <2>2, <2>3 DEF EventsOnce
<1> QED BY <1>1, EventsAlways, PTL

(* What a browser reads has no gap and no repetition where the replay      *)
(* meets the live events, however often it connects; its panel shows each  *)
(* turn once, in order, and all of them when nothing was lost.             *)
THEOREM PanelShowsTheCall == Spec => []PanelFaithful
<1>1. ASSUME EventsInv PROVE PanelFaithful
  <2>1. NoSeamInTheStream
    <3> SUFFICES ASSUME conn = "open"
                 PROVE  /\ \E k \in 0..Len(ingested) : stream = SubSeq(ingested, k + 1, Len(ingested))
                        /\ ~lagged => read \o stream = ingested
      BY DEF NoSeamInTheStream
    <3> DEFINE k == Len(ingested) - Len(stream)
    <3>1. stream \in NatSeqs /\ ingested \in NatSeqs /\ read \in NatSeqs
      BY <1>1 DEF EventsInv, EventTypes
    <3>2. Suffix(stream, ingested) /\ (~lagged => FirstOf(read, ingested, k))
      BY <1>1 DEF EventsInv, BrowserInv, StreamInv
    <3>3. /\ Len(stream) \in Nat /\ Len(ingested) \in Nat /\ Len(read) \in Nat
      BY <3>1, InSet
    <3>4. k \in 0..Len(ingested) /\ Len(ingested) \in k..Len(ingested) /\ Len(ingested) - k = Len(stream)
      BY <3>2, <3>3 DEF Suffix
    <3>5. \A i \in 1..Len(stream) : stream[i] = ingested[k + i]
      BY <3>2 DEF Suffix
    <3> HIDE DEF k
    <3>6. stream = SubSeq(ingested, k + 1, Len(ingested))
      <4> DEFINE c == SubSeq(ingested, k + 1, Len(ingested))
      <4>1. /\ c \in NatSeqs /\ Len(c) = Len(ingested) - k
            /\ \A i \in 1..(Len(ingested) - k) : c[i] = ingested[k + i]
        BY <3>1, <3>4, CutAt
      <4> HIDE DEF c
      <4>2. stream \in Seq(Nat) /\ c \in Seq(Nat) /\ Len(c) = Len(stream)
            /\ \A i \in 1..Len(stream) : stream[i] = c[i]
        BY <3>1, <3>4, <3>5, <4>1 DEF NatSeqs
      <4>3. stream = c
        BY <4>2, SeqEqual
      <4> QED BY <4>3 DEF c
    <3>7. ASSUME ~lagged PROVE read \o stream = ingested
      <4> DEFINE c == read \o stream
      <4>1. /\ c \in NatSeqs /\ Len(c) = Len(read) + Len(stream)
            /\ \A i \in 1..Len(read) : c[i] = read[i]
            /\ \A i \in 1..Len(stream) : c[Len(read) + i] = stream[i]
        BY <3>1, JoinedTo
      <4> HIDE DEF c
      <4>2. Len(read) = k /\ \A i \in 1..k : read[i] = ingested[i]
        BY <3>2, <3>7 DEF FirstOf
      <4>3. Len(c) = Len(ingested)
        BY <3>3, <3>4, <4>1, <4>2
      <4>4. ASSUME NEW i \in 1..Len(c) PROVE c[i] = ingested[i]
        <5>1. CASE i \in 1..k
          BY <4>1, <4>2, <5>1
        <5>2. CASE i > k
          <6>1. i - k \in 1..Len(stream) /\ k + (i - k) = i
            BY <3>3, <3>4, <4>3, <5>2
          <6> QED BY <3>5, <4>1, <4>2, <6>1
        <5> QED BY <3>4, <5>1, <5>2
      <4>5. c \in Seq(Nat) /\ ingested \in Seq(Nat)
        BY <3>1, <4>1 DEF NatSeqs
      <4>6. c = ingested
        BY <4>3, <4>4, <4>5, SeqEqual
      <4> QED BY <4>6 DEF c
    <3> QED BY <3>4, <3>6, <3>7
  <2>2. PanelOncePerTurn /\ PanelComplete
    BY <1>1 DEF EventsInv, BrowserInv, PanelInv, Increasing, PanelOncePerTurn
  <2> QED BY <2>1, <2>2 DEF PanelFaithful
<1> QED BY <1>1, EventsAlways, PTL
=============================================================================
