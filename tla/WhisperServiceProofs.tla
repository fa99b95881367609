------------------------- MODULE WhisperServiceProofs -------------------------
(***************************************************************************)
(* What WhisperService promises, for any calls, workers and engine: every  *)
(* slot is free or held by one task, a flush is answered once, in order,   *)
(* with what the engine keeps of the audio before it, and no transcript is *)
(* taken back.                                                             *)
(***************************************************************************)
EXTENDS WhisperService, FiniteSetTheorems, SequenceTheorems, TLAPS

HandlerSet == {"receiving", "waiting", "woken", "deciding", "closed"}
InterimSet == [at : {"none", "new", "deciding", "cancelled"}, turn : {0} \cup Utterances,
               audio : Texts]
SocketSeqs == Seq(Sockets)
WorkSeqs == Seq(Works)

LEMMA Bounds ==
    ASSUME NEW s \in Sockets
    PROVE  /\ MaxFlushes[s] \in Nat
           /\ \A u \in 1..(1 + MaxFlushes[s]) : u \in Utterances
           /\ \A u \in Utterances : MaxFrames[s][u] \in Nat
           /\ \A u \in Utterances : \A f \in 0..MaxFrames[s][u] : f \in Frames
           /\ 1 \in Utterances /\ 0 \in Frames /\ NoText \in Texts /\ Idle \in InterimSet
<1>1. MaxFlushes[s] \in Nat /\ \A u \in Utterances : MaxFrames[s][u] \in Nat
  BY WhisperAssumption
<1>2. \A u \in 1..(1 + MaxFlushes[s]) : u \in Utterances
  BY DEF Utterances
<1>3. \A u \in Utterances : \A f \in 0..MaxFrames[s][u] : f \in Frames
  BY DEF Frames
<1>4. 1 \in Utterances
  BY <1>1, <1>2
<1>5. 0 \in 0..MaxFrames[s][1]
  BY <1>1, <1>4
<1>6. 0 \in Frames
  BY <1>3, <1>4, <1>5
<1>7. NoText \in Texts
  BY <1>6 DEF NoText, Text, Texts
<1> QED BY <1>1, <1>2, <1>3, <1>4, <1>6, <1>7 DEF Idle, InterimSet

LEMMA Numbers == Utterances \subseteq Nat \ {0} /\ Frames \subseteq Nat
<1>1. ASSUME NEW u \in Utterances PROVE u \in Nat \ {0}
  <2>1. PICK s \in Sockets : u \in 1..(1 + MaxFlushes[s])
    BY DEF Utterances
  <2> QED BY <2>1
<1>2. Frames \subseteq Nat
  BY DEF Frames
<1> QED BY <1>1, <1>2

LEMMA FewerFrames == ASSUME NEW f \in Frames, NEW n \in Nat, n <= f PROVE n \in Frames
<1>1. PICK s \in Sockets, u \in Utterances : f <= MaxFrames[s][u] /\ f \in Nat
  BY DEF Frames
<1>2. MaxFrames[s][u] \in Nat
  BY Bounds
<1>3. n <= MaxFrames[s][u]
  BY <1>1, <1>2
<1> QED BY <1>3 DEF Frames

LEMMA TextMade ==
    ASSUME NEW since \in Frames, NEW upto \in Frames
    PROVE  /\ Text(since, upto) \in Texts
           /\ Text(since, upto).since = since /\ Text(since, upto).upto = upto
BY DEF Text, Texts

-----------------------------------------------------------------------------
(* Part 1: the slots.  The free ones, those of the interims and those of   *)
(* the finals are n; the finals that wait are all waiting, each once, and  *)
(* none waits while a slot is free and nobody is about to be given one.    *)
Interims(im) == {s \in Sockets : im[s].at \in {"deciding", "cancelled"}}
Finals(hd) == {s \in Sockets : hd[s] \in {"woken", "deciding"}}

Balanced(per, wts, hd, im, n) ==
    /\ per \in Nat /\ wts \in SocketSeqs
    /\ hd \in [Sockets -> HandlerSet] /\ im \in [Sockets -> InterimSet]
    /\ n = per + Cardinality(Interims(im)) + Cardinality(Finals(hd))
    /\ \A i \in 1..Len(wts) : hd[wts[i]] = "waiting"
    /\ \A i, j \in 1..Len(wts) : i # j => wts[i] # wts[j]
    /\ wts # <<>> => per = 0 \/ \E s \in Sockets : hd[s] = "woken"

LEMMA Holders ==
    ASSUME NEW hd, NEW im
    PROVE  /\ IsFiniteSet(Interims(im)) /\ Cardinality(Interims(im)) \in Nat
           /\ IsFiniteSet(Finals(hd)) /\ Cardinality(Finals(hd)) \in Nat
<1>1. Interims(im) \in SUBSET Sockets /\ Finals(hd) \in SUBSET Sockets
  BY DEF Interims, Finals
<1> QED BY <1>1, WhisperAssumption, FS_Subset, FS_CardinalityType

LEMMA QueueElements ==
    ASSUME NEW wts \in SocketSeqs
    PROVE  /\ Len(wts) \in Nat /\ \A i \in 1..Len(wts) : wts[i] \in Sockets
           /\ wts = <<>> <=> Len(wts) = 0
BY LenProperties, ElementOfSeq, EmptySeq DEF SocketSeqs

(* One handler changes its mind about slots: it comes or leaves.           *)
LEMMA FinalComes ==
    ASSUME NEW hd \in [Sockets -> HandlerSet], NEW s \in Sockets, hd[s] \notin {"woken", "deciding"},
           NEW x \in {"woken", "deciding"}
    PROVE  Cardinality(Finals([hd EXCEPT ![s] = x])) = Cardinality(Finals(hd)) + 1
<1>1. Finals([hd EXCEPT ![s] = x]) = Finals(hd) \cup {s} /\ s \notin Finals(hd)
  BY DEF Finals
<1> QED BY <1>1, Holders, FS_AddElement

LEMMA FinalLeaves ==
    ASSUME NEW hd \in [Sockets -> HandlerSet], NEW s \in Sockets, hd[s] \in {"woken", "deciding"},
           NEW x \in HandlerSet, x \notin {"woken", "deciding"}
    PROVE  Cardinality(Finals([hd EXCEPT ![s] = x])) = Cardinality(Finals(hd)) - 1
<1>1. Finals([hd EXCEPT ![s] = x]) = Finals(hd) \ {s} /\ s \in Finals(hd)
  BY DEF Finals
<1> QED BY <1>1, Holders, FS_RemoveElement

LEMMA InterimComes ==
    ASSUME NEW im \in [Sockets -> InterimSet], NEW s \in Sockets,
           im[s].at \notin {"deciding", "cancelled"},
           NEW x \in InterimSet, x.at \in {"deciding", "cancelled"}
    PROVE  Cardinality(Interims([im EXCEPT ![s] = x])) = Cardinality(Interims(im)) + 1
<1>1. Interims([im EXCEPT ![s] = x]) = Interims(im) \cup {s} /\ s \notin Interims(im)
  BY DEF Interims
<1> QED BY <1>1, Holders, FS_AddElement

LEMMA InterimLeaves ==
    ASSUME NEW im \in [Sockets -> InterimSet], NEW s \in Sockets,
           im[s].at \in {"deciding", "cancelled"},
           NEW x \in InterimSet, x.at \notin {"deciding", "cancelled"}
    PROVE  Cardinality(Interims([im EXCEPT ![s] = x])) = Cardinality(Interims(im)) - 1
<1>1. Interims([im EXCEPT ![s] = x]) = Interims(im) \ {s} /\ s \in Interims(im)
  BY DEF Interims
<1> QED BY <1>1, Holders, FS_RemoveElement

LEMMA InterimStays ==
    ASSUME NEW per, NEW wts, NEW hd, NEW im, NEW n, Balanced(per, wts, hd, im, n),
           NEW s \in Sockets, NEW x \in InterimSet,
           x.at \in {"deciding", "cancelled"} <=> im[s].at \in {"deciding", "cancelled"}
    PROVE  Balanced(per, wts, hd, [im EXCEPT ![s] = x], n)
<1>1. im \in [Sockets -> InterimSet]
  BY DEF Balanced
<1>2. Interims([im EXCEPT ![s] = x]) = Interims(im)
  BY <1>1 DEF Interims
<1>3. [im EXCEPT ![s] = x] \in [Sockets -> InterimSet]
  BY <1>1
<1> QED BY <1>2, <1>3 DEF Balanced

(* A flush takes a free slot, or waits.                                    *)
LEMMA SlotTaken ==
    ASSUME NEW per, NEW wts, NEW hd, NEW im, NEW n, Balanced(per, wts, hd, im, n),
           NEW s \in Sockets, hd[s] = "receiving", per # 0, wts = <<>>
    PROVE  Balanced(per - 1, wts, [hd EXCEPT ![s] = "deciding"], im, n)
<1> DEFINE g == [hd EXCEPT ![s] = "deciding"]
<1>1. hd \in [Sockets -> HandlerSet] /\ per \in Nat
  BY DEF Balanced
<1>2. Cardinality(Finals(g)) = Cardinality(Finals(hd)) + 1
  BY <1>1, FinalComes
<1>3. g \in [Sockets -> HandlerSet] /\ per - 1 \in Nat
  BY <1>1 DEF HandlerSet
<1>4. Len(<<>>) = 0
  BY EmptySeq
<1>5. n = (per - 1) + Cardinality(Interims(im)) + Cardinality(Finals(g))
  BY <1>1, <1>2, Holders DEF Balanced
<1> HIDE DEF g
<1> QED BY <1>3, <1>4, <1>5 DEF g, Balanced

LEMMA SlotAwaited ==
    ASSUME NEW per, NEW wts, NEW hd, NEW im, NEW n, Balanced(per, wts, hd, im, n),
           NEW s \in Sockets, hd[s] = "receiving",
           per = 0 \/ wts # <<>> \/ \E w \in Sockets : hd[w] = "woken"
    PROVE  Balanced(per, Append(wts, s), [hd EXCEPT ![s] = "waiting"], im, n)
<1> DEFINE g == [hd EXCEPT ![s] = "waiting"]
           q == Append(wts, s)
<1>1. hd \in [Sockets -> HandlerSet] /\ wts \in SocketSeqs
  BY DEF Balanced
<1>2. Finals(g) = Finals(hd)
  BY <1>1 DEF Finals
<1>3. g \in [Sockets -> HandlerSet] /\ g[s] = "waiting" /\ \A w \in Sockets : w # s => g[w] = hd[w]
  BY <1>1 DEF HandlerSet
<1>4. /\ q \in SocketSeqs /\ Len(q) = Len(wts) + 1 /\ Len(wts) \in Nat
      /\ \A i \in 1..Len(wts) : q[i] = wts[i] /\ wts[i] \in Sockets
      /\ q[Len(wts) + 1] = s
  BY <1>1, AppendProperties, QueueElements DEF SocketSeqs
<1>5. \E w \in Sockets : hd[w] = "woken" => g[w] = "woken"
  BY <1>3
<1>6. per = 0 \/ \E w \in Sockets : g[w] = "woken"
  <2>1. per = 0 \/ \E w \in Sockets : hd[w] = "woken"
    BY DEF Balanced
  <2> QED BY <1>3, <2>1
<1> HIDE DEF g, q
<1>7. \A i \in 1..Len(q) : (i \in 1..Len(wts) /\ q[i] = wts[i]) \/ (i = Len(wts) + 1 /\ q[i] = s)
  BY <1>4
<1>8. \A i \in 1..Len(wts) : hd[wts[i]] = "waiting" /\ wts[i] # s
  BY DEF Balanced
<1>9. \A i \in 1..Len(q) : g[q[i]] = "waiting"
  BY <1>3, <1>4, <1>7, <1>8
<1>10. \A i, j \in 1..Len(q) : i # j => q[i] # q[j]
  BY <1>7, <1>8 DEF Balanced
<1>11. Balanced(per, q, g, im, n)
  BY <1>2, <1>3, <1>4, <1>6, <1>9, <1>10 DEF Balanced
<1> QED BY <1>11 DEF g, q

(* A final has its answer, or the client goes: the slot is owed.           *)
LEMMA SlotOwedByFinal ==
    ASSUME NEW per, NEW wts, NEW hd, NEW im, NEW n, Balanced(per, wts, hd, im, n),
           NEW s \in Sockets, hd[s] = "deciding", NEW x \in {"receiving", "closed"}
    PROVE  Balanced(per, wts, [hd EXCEPT ![s] = x], im, n - 1)
<1> DEFINE g == [hd EXCEPT ![s] = x]
<1>1. hd \in [Sockets -> HandlerSet] /\ per \in Nat /\ wts \in SocketSeqs
  BY DEF Balanced
<1>2. Cardinality(Finals(g)) = Cardinality(Finals(hd)) - 1
  BY <1>1, FinalLeaves DEF HandlerSet
<1>3. g \in [Sockets -> HandlerSet] /\ \A w \in Sockets : hd[w] # "deciding" => g[w] = hd[w]
  BY <1>1 DEF HandlerSet
<1>4. n - 1 = per + Cardinality(Interims(im)) + Cardinality(Finals(g))
  BY <1>1, <1>2, Holders DEF Balanced
<1> HIDE DEF g
<1>5. \A i \in 1..Len(wts) : g[wts[i]] = "waiting"
  BY <1>1, <1>3, QueueElements DEF Balanced
<1>6. wts # <<>> => per = 0 \/ \E w \in Sockets : g[w] = "woken"
  BY <1>3 DEF Balanced
<1>7. Balanced(per, wts, g, im, n - 1)
  BY <1>3, <1>4, <1>5, <1>6 DEF Balanced
<1> QED BY <1>7 DEF g

LEMMA HandlerCloses ==
    ASSUME NEW per, NEW wts, NEW hd, NEW im, NEW n, Balanced(per, wts, hd, im, n),
           NEW s \in Sockets, hd[s] = "receiving"
    PROVE  Balanced(per, wts, [hd EXCEPT ![s] = "closed"], im, n)
<1> DEFINE g == [hd EXCEPT ![s] = "closed"]
<1>1. hd \in [Sockets -> HandlerSet] /\ wts \in SocketSeqs
  BY DEF Balanced
<1>2. Finals(g) = Finals(hd)
  BY <1>1 DEF Finals
<1>3. g \in [Sockets -> HandlerSet] /\ \A w \in Sockets : hd[w] # "receiving" => g[w] = hd[w]
  BY <1>1 DEF HandlerSet
<1> HIDE DEF g
<1>5. \A i \in 1..Len(wts) : g[wts[i]] = "waiting"
  BY <1>1, <1>3, QueueElements DEF Balanced
<1>6. wts # <<>> => per = 0 \/ \E w \in Sockets : g[w] = "woken"
  BY <1>3 DEF Balanced
<1>7. Balanced(per, wts, g, im, n)
  BY <1>2, <1>3, <1>5, <1>6 DEF Balanced
<1> QED BY <1>7 DEF g

(* The same of the interims.                                               *)
LEMMA SlotTakenByInterim ==
    ASSUME NEW per, NEW wts, NEW hd, NEW im, NEW n, Balanced(per, wts, hd, im, n),
           NEW s \in Sockets, im[s].at = "new", per # 0, wts = <<>>
    PROVE  Balanced(per - 1, wts, hd, [im EXCEPT ![s].at = "deciding"], n)
<1> DEFINE x == [im[s] EXCEPT !.at = "deciding"]
<1>1. im \in [Sockets -> InterimSet] /\ per \in Nat
  BY DEF Balanced
<1>2. x \in InterimSet /\ x.at = "deciding"
  BY <1>1 DEF InterimSet
<1>3. [im EXCEPT ![s].at = "deciding"] = [im EXCEPT ![s] = x]
  BY <1>1
<1> HIDE DEF x
<1>4. Cardinality(Interims([im EXCEPT ![s] = x])) = Cardinality(Interims(im)) + 1
  BY <1>1, <1>2, InterimComes
<1>5. [im EXCEPT ![s] = x] \in [Sockets -> InterimSet]
  BY <1>1, <1>2
<1>6. n = (per - 1) + Cardinality(Interims([im EXCEPT ![s] = x])) + Cardinality(Finals(hd))
  BY <1>1, <1>4, Holders DEF Balanced
<1>7. Len(<<>>) = 0 /\ per - 1 \in Nat
  BY <1>1, EmptySeq
<1> QED BY <1>3, <1>5, <1>6, <1>7 DEF Balanced

LEMMA SlotOwedByInterim ==
    ASSUME NEW per, NEW wts, NEW hd, NEW im, NEW n, Balanced(per, wts, hd, im, n),
           NEW s \in Sockets, im[s].at \in {"deciding", "cancelled"}
    PROVE  Balanced(per, wts, hd, [im EXCEPT ![s] = Idle], n - 1)
<1>1. im \in [Sockets -> InterimSet] /\ per \in Nat
  BY DEF Balanced
<1>2. Idle \in InterimSet /\ Idle.at \notin {"deciding", "cancelled"}
  BY Bounds DEF Idle
<1>3. Cardinality(Interims([im EXCEPT ![s] = Idle])) = Cardinality(Interims(im)) - 1
  BY <1>1, <1>2, InterimLeaves
<1>4. [im EXCEPT ![s] = Idle] \in [Sockets -> InterimSet]
  BY <1>1, <1>2
<1>5. n - 1 = per + Cardinality(Interims([im EXCEPT ![s] = Idle])) + Cardinality(Finals(hd))
  BY <1>1, <1>3, Holders DEF Balanced
<1> QED BY <1>4, <1>5 DEF Balanced

(* What is owed is given back: to the first that waits, if any.            *)
LEMMA SlotReturned ==
    ASSUME NEW per, NEW wts, NEW hd, NEW im, NEW n \in Int, Balanced(per, wts, hd, im, n)
    PROVE  /\ wts = <<>> => Balanced(per + 1, wts, hd, im, n + 1)
           /\ wts # <<>> =>
                /\ Balanced(per, Tail(wts), [hd EXCEPT ![Head(wts)] = "woken"], im, n + 1)
                /\ Head(wts) \in Sockets /\ hd[Head(wts)] = "waiting"
<1>1. hd \in [Sockets -> HandlerSet] /\ per \in Nat /\ wts \in SocketSeqs
  BY DEF Balanced
<1>2. CASE wts = <<>>
  <2>1. n + 1 = (per + 1) + Cardinality(Interims(im)) + Cardinality(Finals(hd))
    BY <1>1, Holders DEF Balanced
  <2> QED BY <1>1, <1>2, <2>1 DEF Balanced
<1>3. CASE wts # <<>>
  <2> DEFINE s == Head(wts)
             q == Tail(wts)
             g == [hd EXCEPT ![s] = "woken"]
  <2>1. /\ q \in SocketSeqs /\ Len(q) = Len(wts) - 1 /\ Len(wts) \in Nat /\ Len(wts) # 0
        /\ \A i \in 1..Len(q) : q[i] = wts[i + 1]
    BY <1>1, <1>3, HeadTailProperties, QueueElements DEF SocketSeqs
  <2>2. s = wts[1] /\ 1 \in 1..Len(wts)
    <3>1. wts \in Seq(Sockets)
      BY <1>1 DEF SocketSeqs
    <3> QED BY <2>1, <3>1
  <2>3. s \in Sockets /\ hd[s] = "waiting"
    BY <1>1, <2>2, QueueElements DEF Balanced
  <2> HIDE DEF s, q
  <2>4. Cardinality(Finals(g)) = Cardinality(Finals(hd)) + 1
    BY <1>1, <2>3, FinalComes
  <2>5. g \in [Sockets -> HandlerSet] /\ g[s] = "woken" /\ \A w \in Sockets : w # s => g[w] = hd[w]
    BY <1>1, <2>3 DEF HandlerSet
  <2> HIDE DEF g
  <2>6. \A i \in 1..Len(q) : i + 1 \in 1..Len(wts) /\ i + 1 # 1
    BY <2>1
  <2>7. \A i \in 1..Len(q) : q[i] # s /\ q[i] \in Sockets /\ hd[q[i]] = "waiting"
    BY <1>1, <2>1, <2>2, <2>6, QueueElements DEF Balanced
  <2>8. \A i, j \in 1..Len(q) : i # j => q[i] # q[j]
    <3> SUFFICES ASSUME NEW i \in 1..Len(q), NEW j \in 1..Len(q), i # j PROVE q[i] # q[j]
      OBVIOUS
    <3>1. i + 1 # j + 1
      BY <2>1
    <3> QED BY <2>1, <2>6, <3>1 DEF Balanced
  <2>9. n + 1 = per + Cardinality(Interims(im)) + Cardinality(Finals(g))
    BY <1>1, <2>4, Holders DEF Balanced
  <2>10. Balanced(per, q, g, im, n + 1)
    BY <2>1, <2>3, <2>5, <2>7, <2>8, <2>9 DEF Balanced
  <2> QED BY <1>3, <2>3, <2>10 DEF g, q, s
<1> QED BY <1>2, <1>3

(* What a release does to the slots and to the handlers: whoever waited    *)
(* first is woken, and no other handler moves.                             *)
Moved(hd, hd1) ==
    \A w \in Sockets : hd1[w] = hd[w] \/ (hd[w] = "waiting" /\ hd1[w] = "woken")

Released(still, per, wts, per1, wts1, hd1) ==
    /\ wts = <<>> => per1 = per + 1 /\ hd1 = still /\ wts1 = wts
    /\ wts # <<>> => per1 = per /\ hd1 = [still EXCEPT ![Head(wts)] = "woken"] /\ wts1 = Tail(wts)

LEMMA ReleaseKeeps ==
    ASSUME NEW per, NEW wts, NEW hd, NEW im, NEW n \in Int, Balanced(per, wts, hd, im, n),
           NEW per1, NEW wts1, NEW hd1, Released(hd, per, wts, per1, wts1, hd1)
    PROVE  Balanced(per1, wts1, hd1, im, n + 1) /\ Moved(hd, hd1)
<1>1. hd \in [Sockets -> HandlerSet]
  BY DEF Balanced
<1>2. CASE wts = <<>>
  <2>1. Balanced(per + 1, wts, hd, im, n + 1)
    BY <1>2, SlotReturned
  <2>2. per1 = per + 1 /\ hd1 = hd /\ wts1 = wts
    BY <1>2 DEF Released
  <2> QED BY <2>1, <2>2 DEF Moved
<1>3. CASE wts # <<>>
  <2>1. /\ Balanced(per, Tail(wts), [hd EXCEPT ![Head(wts)] = "woken"], im, n + 1)
        /\ Head(wts) \in Sockets /\ hd[Head(wts)] = "waiting"
    BY <1>3, SlotReturned
  <2> QED BY <1>1, <1>3, <2>1 DEF Released, Moved
<1> QED BY <1>2, <1>3

(* A final that was woken goes on, and with it as many as there are slots. *)
Woken(s, k, wts, hd) ==
    [w \in Sockets |-> IF w = s THEN "deciding"
                       ELSE IF \E i \in 1..k : wts[i] = w THEN "woken" ELSE hd[w]]

LEMMA WokenCount ==
    ASSUME NEW wts \in SocketSeqs, NEW k \in Nat, k <= Len(wts),
           \A i, j \in 1..Len(wts) : i # j => wts[i] # wts[j]
    PROVE  LET first == {w \in Sockets : \E i \in 1..k : wts[i] = w} IN
           IsFiniteSet(first) /\ Cardinality(first) = k
<1> DEFINE first == {w \in Sockets : \E i \in 1..k : wts[i] = w}
           f == [i \in 1..k |-> wts[i]]
<1>1. Len(wts) \in Nat /\ \A i \in 1..Len(wts) : wts[i] \in Sockets
  BY QueueElements
<1>2. \A i \in 1..k : i \in 1..Len(wts)
  BY <1>1
<1>3. f \in [1..k -> first]
  BY <1>1, <1>2
<1>4. \A w \in first : \E i \in 1..k : f[i] = w
  OBVIOUS
<1>5. \A i, j \in 1..k : f[i] = f[j] => i = j
  BY <1>2
<1> HIDE DEF first, f
<1>6. f \in Surjection(1..k, first)
  BY <1>3, <1>4 DEF Surjection
<1>7. f \in Injection(1..k, first)
  BY <1>3, <1>5 DEF Injection, IsInjective
<1>8. IsFiniteSet(1..k) /\ Cardinality(1..k) = k
  BY FS_Interval
<1>9. IsFiniteSet(first) /\ Cardinality(first) = k
  BY <1>6, <1>7, <1>8, FS_Surjection
<1> QED BY <1>9 DEF first

LEMMA WakeKeeps ==
    ASSUME NEW per, NEW wts, NEW hd, NEW im, NEW n, Balanced(per, wts, hd, im, n),
           NEW s \in Sockets, hd[s] = "woken",
           NEW k \in Nat, k <= per, k <= Len(wts), k = per \/ k = Len(wts)
    PROVE  /\ Balanced(per - k, SubSeq(wts, k + 1, Len(wts)), Woken(s, k, wts, hd), im, n)
           /\ Moved([hd EXCEPT ![s] = "deciding"], Woken(s, k, wts, hd))
<1> DEFINE first == {w \in Sockets : \E i \in 1..k : wts[i] = w}
           g == Woken(s, k, wts, hd)
           q == SubSeq(wts, k + 1, Len(wts))
<1>1. hd \in [Sockets -> HandlerSet] /\ per \in Nat /\ wts \in SocketSeqs
  BY DEF Balanced
<1>2. Len(wts) \in Nat /\ \A i \in 1..Len(wts) : wts[i] \in Sockets /\ hd[wts[i]] = "waiting"
  BY <1>1, QueueElements DEF Balanced
<1>3. \A i \in 1..k : i \in 1..Len(wts)
  BY <1>2
<1>4. \A w \in first : hd[w] = "waiting" /\ w # s
  BY <1>2, <1>3
<1>5. /\ g \in [Sockets -> HandlerSet] /\ g[s] = "deciding"
      /\ \A w \in first : g[w] = "woken"
      /\ \A w \in Sockets : w # s /\ w \notin first => g[w] = hd[w]
  BY <1>1, <1>4 DEF Woken, HandlerSet
<1>6. Moved([hd EXCEPT ![s] = "deciding"], g)
  BY <1>1, <1>4, <1>5 DEF Moved
<1>7. IsFiniteSet(first) /\ Cardinality(first) = k
  BY <1>1, WokenCount DEF Balanced
<1>8. Finals(g) = Finals(hd) \cup first /\ Finals(hd) \cap first = {}
  BY <1>1, <1>4, <1>5 DEF Finals
<1>9. Cardinality(Finals(g)) = Cardinality(Finals(hd)) + k
  <2>1. Cardinality(Finals(hd) \cap first) = 0
    BY <1>8, FS_EmptySet
  <2>2. Cardinality(Finals(hd) \cup first)
            = Cardinality(Finals(hd)) + Cardinality(first) - Cardinality(Finals(hd) \cap first)
    BY <1>7, Holders, FS_Union
  <2> QED BY <1>7, <1>8, <2>1, <2>2, Holders
<1> HIDE DEF first, g
<1>10. n = (per - k) + Cardinality(Interims(im)) + Cardinality(Finals(g))
  <2>1. n = per + Cardinality(Interims(im)) + Cardinality(Finals(hd))
    BY DEF Balanced
  <2>2. Cardinality(Interims(im)) \in Nat /\ Cardinality(Finals(hd)) \in Nat
    BY Holders
  <2> HIDE DEF Finals, Interims
  <2> QED BY <1>1, <1>9, <2>1, <2>2
<1>11. /\ q \in SocketSeqs /\ Len(q) = Len(wts) - k
       /\ \A i \in 1..Len(q) : q[i] = wts[i + k]
  <2>1. /\ \A i \in (k + 1)..Len(wts) : wts[i] \in Sockets
        /\ wts \in Seq(Sockets) /\ k + 1 \in Int /\ Len(wts) \in Int
    BY <1>1, <1>2 DEF SocketSeqs
  <2>2. /\ q \in Seq(Sockets)
        /\ Len(q) = IF k + 1 <= Len(wts) THEN Len(wts) - (k + 1) + 1 ELSE 0
        /\ \A i \in 1..Len(wts) - (k + 1) + 1 : q[i] = wts[(k + 1) + i - 1]
    BY <2>1, SubSeqProperties
  <2> HIDE DEF q
  <2>3. Len(q) = Len(wts) - k /\ Len(wts) - (k + 1) + 1 = Len(wts) - k
    BY <1>2, <2>2
  <2>4. ASSUME NEW i \in 1..Len(q) PROVE q[i] = wts[i + k]
    <3>1. i \in 1..Len(wts) - (k + 1) + 1 /\ i \in Nat
      BY <1>2, <2>3
    <3>3. (k + 1) + i - 1 = i + k
      BY <3>1
    <3>2. q[i] = wts[(k + 1) + i - 1]
      BY <2>2, <3>1
    <3> QED BY <3>2, <3>3
  <2> QED BY <2>2, <2>3, <2>4 DEF SocketSeqs
<1> HIDE DEF q
<1>12. \A i \in 1..Len(q) : i + k \in 1..Len(wts) /\ \A j \in 1..k : j # i + k
  BY <1>2, <1>11
<1>13. ASSUME NEW i \in 1..Len(q) PROVE q[i] \in Sockets /\ g[q[i]] = "waiting"
  <2>1. q[i] = wts[i + k] /\ i + k \in 1..Len(wts)
    BY <1>11, <1>12
  <2>2. q[i] \notin first
    BY <1>3, <1>12, <2>1 DEF first, Balanced
  <2> QED BY <1>2, <1>5, <2>1, <2>2
<1>14. \A i, j \in 1..Len(q) : i # j => q[i] # q[j]
  <2> SUFFICES ASSUME NEW i \in 1..Len(q), NEW j \in 1..Len(q), i # j PROVE q[i] # q[j]
    OBVIOUS
  <2>1. i + k # j + k
    BY <1>11
  <2> QED BY <1>11, <1>12, <2>1 DEF Balanced
<1>15. q # <<>> => per - k = 0
  BY <1>1, <1>2, <1>11, QueueElements
<1>16. per - k \in Nat /\ im \in [Sockets -> InterimSet]
  BY <1>1 DEF Balanced
<1>17. Balanced(per - k, q, g, im, n)
  BY <1>5, <1>10, <1>11, <1>13, <1>14, <1>15, <1>16 DEF Balanced
<1> QED BY <1>6, <1>17 DEF g, q

-----------------------------------------------------------------------------
(* Part 2: a socket's turns, answers and interim agree.                    *)
ThreadSet == [work : Works, at : {"taken", "stepping", "closing"}, ok : BOOLEAN]
ResultSet == [work : Works, ok : BOOLEAN]
MessageSet == [final : BOOLEAN, turn : Utterances, text : Texts]
FrameCounts == [Sockets -> [Utterances -> Frames]]

(* What a buffer of 30 s has lost of so many frames.                       *)
Lost(e, frames) == IF e = "buffered" /\ frames > MaxUtterance THEN frames - MaxUtterance ELSE 0

Counts ==
    /\ fed \in FrameCounts /\ dropped \in FrameCounts
    /\ taken \in FrameCounts /\ read \in FrameCounts
    /\ \A s \in Sockets, u \in Utterances :
          /\ read[s][u] <= taken[s][u] /\ taken[s][u] <= fed[s][u]
          /\ dropped[s][u] = Lost(engine, fed[s][u])

Types ==
    /\ engine \in Engines
    /\ turn \in [Sockets -> Utterances]
    /\ Counts
    /\ pool \in WorkSeqs /\ threads \subseteq ThreadSet /\ results \subseteq ResultSet
    /\ sent \in [Sockets -> MessageSet] /\ answers \in [Sockets -> Nat]
    /\ {lapsed, failed, finished, connected} \subseteq SUBSET (Sockets \X Utterances)

LEMMA CountNumbers ==
    ASSUME Counts, NEW s \in Sockets, NEW u \in Utterances
    PROVE  /\ read[s][u] \in Frames /\ taken[s][u] \in Frames /\ fed[s][u] \in Frames
           /\ dropped[s][u] \in Frames
           /\ read[s][u] \in Nat /\ taken[s][u] \in Nat /\ fed[s][u] \in Nat
           /\ dropped[s][u] \in Nat
           /\ read[s][u] <= taken[s][u] /\ taken[s][u] <= fed[s][u]
           /\ dropped[s][u] = Lost(engine, fed[s][u])
<1>1. /\ read[s][u] \in Frames /\ taken[s][u] \in Frames /\ fed[s][u] \in Frames
      /\ dropped[s][u] \in Frames
  BY DEF Counts, FrameCounts
<1> QED BY <1>1, Numbers DEF Counts

SlotInv == Balanced(permits, waiters, handler, interim, Threads(engine))

(* While a flush is asked its utterance is the one before the handler's;   *)
(* an interim that may still speak is of the utterance being collected.    *)
SocketOK(h, tn, im, sn, an) ==
    /\ h \in {"waiting", "woken", "deciding"} => tn = an + 2
    /\ h = "receiving" => tn = an + 1
    /\ an <= tn - 1
    /\ sn.turn = IF sn.final THEN an ELSE an + 1
    /\ im.at \in {"new", "deciding"} => im.turn = tn /\ h = "receiving"

TaskInv == \A s \in Sockets : SocketOK(handler[s], turn[s], interim[s], sent[s], answers[s])

LEMMA ThreadsPositive == ASSUME NEW e PROVE Threads(e) \in Nat \ {0}
BY WhisperAssumption DEF Threads

LEMMA CancelFacts ==
    ASSUME NEW task \in InterimSet, NEW s \in Sockets
    PROVE  /\ Cancel(task) \in InterimSet /\ Cancel(task).at \notin {"new", "deciding"}
           /\ Cancel(task).at \in {"deciding", "cancelled"} <=> task.at \in {"deciding", "cancelled"}
<1>1. CASE task.at = "new"
  <2>1. Cancel(task) = Idle
    BY <1>1 DEF Cancel
  <2>2. Idle \in InterimSet
    BY Bounds
  <2> QED BY <1>1, <2>1, <2>2 DEF Idle
<1>2. CASE task.at = "deciding"
  <2>1. Cancel(task) = [task EXCEPT !.at = "cancelled"]
    BY <1>2 DEF Cancel
  <2> QED BY <1>2, <2>1 DEF InterimSet
<1>3. CASE task.at \notin {"new", "deciding"}
  <2>1. Cancel(task) = task
    BY <1>3 DEF Cancel
  <2> QED BY <1>3, <2>1
<1> QED BY <1>1, <1>2, <1>3

LEMMA InterimCancelled ==
    ASSUME NEW per, NEW wts, NEW hd, NEW im, NEW n, Balanced(per, wts, hd, im, n),
           NEW s \in Sockets
    PROVE  Balanced(per, wts, hd, [im EXCEPT ![s] = Cancel(im[s])], n)
<1>1. im[s] \in InterimSet
  BY DEF Balanced
<1> QED BY <1>1, CancelFacts, InterimStays
LEMMA HoldersAreSockets ==
    ASSUME SlotInv
    PROVE  /\ handler \in [Sockets -> HandlerSet] /\ interim \in [Sockets -> InterimSet]
           /\ waiters \in SocketSeqs /\ permits \in Nat /\ Threads(engine) \in Nat
           /\ Len(waiters) \in Nat
           /\ \A i \in 1..Len(waiters) : waiters[i] \in Sockets /\ handler[waiters[i]] = "waiting"
<1>1. handler \in [Sockets -> HandlerSet] /\ interim \in [Sockets -> InterimSet]
      /\ waiters \in SocketSeqs /\ permits \in Nat
      /\ \A i \in 1..Len(waiters) : handler[waiters[i]] = "waiting"
  BY DEF SlotInv, Balanced
<1> QED BY <1>1, QueueElements, ThreadsPositive

(* The slots after each action, and who moved besides the socket itself.   *)
LEMMA CountsAfterFrame ==
    ASSUME Types, NEW s \in Sockets, NEW due \in BOOLEAN, Frame(s, due)
    PROVE  /\ Counts' /\ turn[s] \in Utterances
           /\ fed' = [fed EXCEPT ![s][turn[s]] = fed[s][turn[s]] + 1]
           /\ fed[s][turn[s]] \in Nat /\ fed'[s][turn[s]] = fed[s][turn[s]] + 1
           /\ Text(dropped'[s][turn[s]], fed'[s][turn[s]]) \in Texts
<1> DEFINE u == turn[s]
           f == fed[s][u]
<1>1. /\ u \in Utterances /\ fed \in FrameCounts /\ dropped \in FrameCounts
      /\ f \in Frames /\ f \in Nat /\ MaxFrames[s][u] \in Nat
  <2>1. u \in Utterances /\ Counts
    BY DEF Types
  <2> QED BY <2>1, CountNumbers, Bounds DEF Counts
<1>2. /\ f < MaxFrames[s][u] /\ fed' = [fed EXCEPT ![s][u] = f + 1] /\ KeepNewest(s, u)
      /\ UNCHANGED <<engine, taken, read>>
  BY DEF Frame, sessionVars
<1>3. f + 1 \in Frames
  <2>1. f + 1 \in 0..MaxFrames[s][u]
    BY <1>1, <1>2
  <2> QED BY <1>1, <2>1, Bounds
<1>4. fed' \in FrameCounts /\ fed'[s][u] = f + 1
  BY <1>1, <1>2, <1>3 DEF FrameCounts
<1>5. MaxUtterance \in Nat \ {0} /\ dropped[s][u] = Lost(engine, f)
  BY <1>1, WhisperAssumption DEF Types, Counts
<1>6. dropped' = [dropped EXCEPT ![s][u] = Lost(engine, f + 1)]
  <2>1. dropped' = IF engine = "buffered" /\ f + 1 - Lost(engine, f) > MaxUtterance
                   THEN [dropped EXCEPT ![s][u] = Lost(engine, f) + 1] ELSE dropped
    <3>1. dropped' = IF engine = "buffered" /\ fed'[s][u] - dropped[s][u] > MaxUtterance
                     THEN [dropped EXCEPT ![s][u] = dropped[s][u] + 1] ELSE dropped
      BY <1>2 DEF KeepNewest
    <3>2. fed'[s][u] - dropped[s][u] > MaxUtterance <=> f + 1 - Lost(engine, f) > MaxUtterance
      <4>1. f \in Nat /\ Lost(engine, f) \in Nat /\ MaxUtterance \in Nat
        BY <1>1, <1>5 DEF Lost
      <4> HIDE DEF u, f
      <4> QED BY <1>4, <1>5, <4>1, SMTT(30)
    <3> HIDE DEF u, f
    <3>3. [dropped EXCEPT ![s][u] = dropped[s][u] + 1] = [dropped EXCEPT ![s][u] = Lost(engine, f) + 1]
      BY <1>5
    <3> QED BY Zenon, <3>1, <3>2, <3>3
  <2>2. Lost(engine, f + 1) = IF engine = "buffered" /\ f + 1 - Lost(engine, f) > MaxUtterance
                              THEN Lost(engine, f) + 1 ELSE Lost(engine, f)
    BY <1>1, <1>5 DEF Lost
  <2>3. dropped = [dropped EXCEPT ![s][u] = dropped[s][u]]
    BY <1>1 DEF FrameCounts
  <2> QED BY <1>5, <2>1, <2>2, <2>3
<1>7. Lost(engine, f + 1) \in Nat /\ Lost(engine, f + 1) <= f + 1
  BY <1>1, <1>5 DEF Lost
<1>8. Lost(engine, f + 1) \in Frames
  BY <1>3, <1>7, FewerFrames
<1>9. dropped' \in FrameCounts /\ dropped'[s][u] = Lost(engine, f + 1)
  BY <1>1, <1>6, <1>8 DEF FrameCounts
<1>10. Text(dropped'[s][u], fed'[s][u]) \in Texts
  BY <1>3, <1>4, <1>8, <1>9, TextMade
<1>11. ASSUME NEW w \in Sockets, NEW v \in Utterances
       PROVE  /\ read[w][v] <= taken[w][v] /\ taken[w][v] <= fed'[w][v]
              /\ dropped'[w][v] = Lost(engine, fed'[w][v])
  <2>1. /\ read[w][v] <= taken[w][v] /\ taken[w][v] <= fed[w][v]
        /\ dropped[w][v] = Lost(engine, fed[w][v])
        /\ taken[w][v] \in Nat /\ fed[w][v] \in Nat
    BY CountNumbers DEF Types
  <2>2. CASE w = s /\ v = u
    <3>1. taken[w][v] <= f + 1
      BY <1>1, <2>1, <2>2
    <3> QED BY <1>4, <1>9, <2>1, <2>2, <3>1
  <2>3. CASE ~(w = s /\ v = u)
    <3>1. fed'[w][v] = fed[w][v]
      BY <1>1, <1>2, <2>3 DEF FrameCounts
    <3>2. dropped'[w][v] = dropped[w][v]
      BY <1>1, <1>6, <2>3 DEF FrameCounts
    <3> QED BY <2>1, <3>1, <3>2
  <2> QED BY <2>2, <2>3
<1>12. taken \in FrameCounts /\ read \in FrameCounts
  BY DEF Types, Counts
<1> HIDE DEF f
<1>13. Counts'
  BY <1>2, <1>4, <1>9, <1>11, <1>12 DEF Counts
<1> QED BY <1>1, <1>2, <1>4, <1>10, <1>13 DEF f

LEMMA SlotsAfterFrame ==
    ASSUME Types, SlotInv, NEW s \in Sockets, NEW due \in BOOLEAN, Frame(s, due)
    PROVE  SlotInv'
<1>1. CASE due
  <2> DEFINE x == [at |-> "new", turn |-> turn[s],
                   audio |-> Text(dropped'[s][turn[s]], fed'[s][turn[s]])]
  <2>1. interim' = [interim EXCEPT ![s] = x] /\ interim[s] = Idle
    BY <1>1 DEF Frame
  <2>4. x \in InterimSet /\ x.at = "new" /\ interim[s].at = "none"
    BY <2>1, CountsAfterFrame DEF InterimSet, Idle
  <2> HIDE DEF x
  <2>5. Balanced(permits, waiters, handler, [interim EXCEPT ![s] = x], Threads(engine))
    BY <2>4, InterimStays DEF SlotInv
  <2> QED BY <2>1, <2>5 DEF SlotInv, Frame, slotVars
<1>2. CASE ~due
  BY <1>2 DEF SlotInv, Frame, slotVars
<1> QED BY <1>1, <1>2

LEMMA SlotsAfterSpeech ==
    ASSUME SlotInv, NEW s \in Sockets, FlushSpeech(s)
    PROVE  SlotInv'
<1> DEFINE im == [interim EXCEPT ![s] = Cancel(interim[s])]
<1>1. interim' = im /\ handler[s] = "receiving" /\ engine' = engine
  BY DEF FlushSpeech, StartTurn
<1>2. Balanced(permits, waiters, handler, im, Threads(engine))
  BY InterimCancelled DEF SlotInv
<1> HIDE DEF im
<1>3. CASE Locked
  <2>1. permits' = permits /\ waiters' = Append(waiters, s)
        /\ handler' = [handler EXCEPT ![s] = "waiting"]
    BY <1>3 DEF FlushSpeech
  <2>2. permits = 0 \/ waiters # <<>> \/ \E w \in Sockets : handler[w] = "woken"
    BY <1>3 DEF Locked
  <2>3. Balanced(permits, Append(waiters, s), [handler EXCEPT ![s] = "waiting"], im, Threads(engine))
    BY <1>1, <1>2, <2>2, SlotAwaited
  <2> QED BY <1>1, <2>1, <2>3 DEF SlotInv
<1>4. CASE ~Locked
  <2>1. permits' = permits - 1 /\ waiters' = waiters
        /\ handler' = [handler EXCEPT ![s] = "deciding"]
    BY <1>4 DEF FlushSpeech
  <2>2. permits # 0 /\ waiters = <<>>
    BY <1>4 DEF Locked
  <2>3. Balanced(permits - 1, waiters, [handler EXCEPT ![s] = "deciding"], im, Threads(engine))
    BY <1>1, <1>2, <2>2, SlotTaken
  <2> QED BY <1>1, <2>1, <2>3 DEF SlotInv
<1> QED BY <1>3, <1>4

LEMMA SlotsAfterGrant ==
    ASSUME SlotInv, NEW s \in Sockets, SlotGranted(s)
    PROVE  SlotInv' /\ Moved([handler EXCEPT ![s] = "deciding"], handler')
<1> DEFINE k == IF permits < Len(waiters) THEN permits ELSE Len(waiters)
<1>1. k \in Nat /\ k <= permits /\ k <= Len(waiters) /\ (k = permits \/ k = Len(waiters))
  BY HoldersAreSockets
<1>2. /\ permits' = permits - k /\ waiters' = SubSeq(waiters, k + 1, Len(waiters))
      /\ handler' = Woken(s, k, waiters, handler)
      /\ engine' = engine /\ interim' = interim /\ handler[s] = "woken"
  BY DEF SlotGranted, WakeOthers, Woken
<1> HIDE DEF k
<1>3. Balanced(permits, waiters, handler, interim, Threads(engine))
  BY DEF SlotInv
<1>4. /\ Balanced(permits - k, SubSeq(waiters, k + 1, Len(waiters)), Woken(s, k, waiters, handler),
                  interim, Threads(engine))
      /\ Moved([handler EXCEPT ![s] = "deciding"], Woken(s, k, waiters, handler))
  BY <1>1, <1>2, <1>3, WakeKeeps
<1> QED BY <1>2, <1>4 DEF SlotInv

(* A final's work has returned: its handler closes without a word, or it   *)
(* sends the final and goes on receiving.                                  *)
LEMMA FinalCases ==
    ASSUME NEW s \in Sockets, NEW gone \in BOOLEAN, FinalReturns(s, gone)
    PROVE  \E r \in results :
             /\ handler[s] = "deciding" /\ r.work = Work("finish", s, turn[s] - 1)
             /\ results' = results \ {r}
             /\ UNCHANGED <<engine, turn, fed, dropped, pool, threads, sessionVars>>
             /\ \/ /\ Release([handler EXCEPT ![s] = "closed"])
                   /\ interim' = [interim EXCEPT ![s] = Cancel(interim[s])] /\ UNCHANGED sentVars
                \/ /\ r.ok /\ Release([handler EXCEPT ![s] = "receiving"]) /\ interim' = interim
                   /\ Send(s, Final(Heard(s, turn[s] - 1), turn[s] - 1))
<1>1. PICK r \in results :
        LET over == gone \/ ~r.ok IN
        /\ handler[s] = "deciding" /\ r.work = Work("finish", s, turn[s] - 1)
        /\ results' = results \ {r}
        /\ Release([handler EXCEPT ![s] = IF over THEN "closed" ELSE "receiving"])
        /\ interim' = IF over THEN [interim EXCEPT ![s] = Cancel(@)] ELSE interim
        /\ IF over THEN UNCHANGED sentVars
           ELSE Send(s, Final(Heard(s, r.work.turn), r.work.turn))
        /\ UNCHANGED <<engine, turn, fed, dropped, pool, threads, sessionVars>>
  BY DEF FinalReturns
<1>2. r.work.turn = turn[s] - 1
  BY <1>1 DEF Work
<1>3. CASE gone \/ ~r.ok
  <2>1. Release([handler EXCEPT ![s] = "closed"])
    BY <1>1, <1>3
  <2>2. interim' = [interim EXCEPT ![s] = Cancel(interim[s])] /\ UNCHANGED sentVars
    BY <1>1, <1>3
  <2> QED BY <1>1, <2>1, <2>2
<1>4. CASE ~(gone \/ ~r.ok)
  <2>1. Release([handler EXCEPT ![s] = "receiving"])
    BY <1>1, <1>4
  <2>2. interim' = interim /\ Send(s, Final(Heard(s, turn[s] - 1), turn[s] - 1)) /\ r.ok
    BY <1>1, <1>2, <1>4
  <2> QED BY <1>1, <2>1, <2>2
<1> QED BY <1>3, <1>4

LEMMA SlotsAfterFinal ==
    ASSUME SlotInv, NEW s \in Sockets, NEW x \in {"receiving", "closed"}, handler[s] = "deciding",
           Release([handler EXCEPT ![s] = x]), engine' = engine,
           interim' = interim \/ interim' = [interim EXCEPT ![s] = Cancel(interim[s])]
    PROVE  SlotInv' /\ Moved([handler EXCEPT ![s] = x], handler')
<1> DEFINE still == [handler EXCEPT ![s] = x]
<1>1. Balanced(permits, waiters, still, interim, Threads(engine) - 1)
  BY SlotOwedByFinal DEF SlotInv
<1>2. Released(still, permits, waiters, permits', waiters', handler')
  BY DEF Release, Released
<1> HIDE DEF still
<1>3. Balanced(permits, waiters, still, interim', Threads(engine) - 1)
  BY <1>1, InterimCancelled
<1>4. Threads(engine) - 1 \in Int /\ Threads(engine) - 1 + 1 = Threads(engine)
  BY HoldersAreSockets
<1>5. Balanced(permits', waiters', handler', interim', Threads(engine) - 1 + 1)
      /\ Moved(still, handler')
  BY <1>2, <1>3, <1>4, ReleaseKeeps
<1>6. Moved([handler EXCEPT ![s] = x], handler')
  BY <1>5 DEF still
<1> QED BY <1>4, <1>5, <1>6 DEF SlotInv

LEMMA SlotsAfterInterim ==
    ASSUME SlotInv, NEW s \in Sockets, interim[s].at \in {"deciding", "cancelled"}, Release(handler),
           interim' = [interim EXCEPT ![s] = Idle], engine' = engine
    PROVE  SlotInv' /\ Moved(handler, handler')
<1>1. Released(handler, permits, waiters, permits', waiters', handler')
  BY DEF Release, Released
<1>2. Balanced(permits, waiters, handler, interim', Threads(engine) - 1)
  BY SlotOwedByInterim DEF SlotInv
<1>3. Threads(engine) - 1 \in Int /\ Threads(engine) - 1 + 1 = Threads(engine)
  BY HoldersAreSockets
<1>4. Balanced(permits', waiters', handler', interim', Threads(engine) - 1 + 1)
      /\ Moved(handler, handler')
  BY <1>1, <1>2, <1>3, ReleaseKeeps
<1> QED BY <1>3, <1>4 DEF SlotInv

LEMMA SlotsAfterBegin ==
    ASSUME SlotInv, NEW s \in Sockets, InterimBegins(s)
    PROVE  SlotInv'
<1>1. Balanced(permits, waiters, handler, interim, Threads(engine))
  BY DEF SlotInv
<1>2. engine' = engine /\ handler' = handler /\ waiters' = waiters /\ interim[s].at = "new"
  BY DEF InterimBegins
<1>3. CASE Locked
  <2>1. permits' = permits /\ interim' = [interim EXCEPT ![s] = Idle]
    BY <1>3 DEF InterimBegins
  <2>2. Idle \in InterimSet /\ Idle.at = "none"
    BY Bounds DEF Idle
  <2>3. Balanced(permits, waiters, handler, [interim EXCEPT ![s] = Idle], Threads(engine))
    BY <1>1, <1>2, <2>2, InterimStays
  <2> QED BY <1>2, <2>1, <2>3 DEF SlotInv
<1>4. CASE ~Locked
  <2>1. permits' = permits - 1 /\ interim' = [interim EXCEPT ![s].at = "deciding"]
    BY <1>4 DEF InterimBegins
  <2>2. permits # 0 /\ waiters = <<>>
    BY <1>4 DEF Locked
  <2>3. Balanced(permits - 1, waiters, handler, [interim EXCEPT ![s].at = "deciding"], Threads(engine))
    BY <1>1, <1>2, <2>2, SlotTakenByInterim
  <2> QED BY <1>2, <2>1, <2>3 DEF SlotInv
<1> QED BY <1>3, <1>4

LEMMA SlotStep ==
    ASSUME Types, SlotInv, [Next]_vars
    PROVE  SlotInv'
<1>1. ASSUME NEW s \in Sockets, FlushSilence(s) \/ Disconnect(s) PROVE SlotInv'
  <2>1. interim' = [interim EXCEPT ![s] = Cancel(interim[s])] /\ handler[s] = "receiving"
        /\ engine' = engine /\ permits' = permits /\ waiters' = waiters
        /\ (handler' = handler \/ handler' = [handler EXCEPT ![s] = "closed"])
    BY <1>1 DEF FlushSilence, Disconnect, StartTurn, slotVars
  <2>2. Balanced(permits, waiters, handler, interim', Threads(engine))
    BY <2>1, InterimCancelled DEF SlotInv
  <2>3. Balanced(permits, waiters, handler', interim', Threads(engine))
    BY <2>1, <2>2, HandlerCloses
  <2> QED BY <2>1, <2>3 DEF SlotInv
<1>2. ASSUME Client PROVE SlotInv'
  BY <1>1, <1>2, SlotsAfterFrame, SlotsAfterSpeech DEF Client
<1>3. ASSUME NEW s \in Sockets, EventLoop(s) PROVE SlotInv'
  <2>1. ASSUME InterimEnds(s) \/ \E text \in BOOLEAN : InterimReturns(s, text) PROVE SlotInv'
    <3>1. interim[s].at \in {"deciding", "cancelled"} /\ Release(handler)
          /\ interim' = [interim EXCEPT ![s] = Idle] /\ engine' = engine
      BY <2>1 DEF InterimEnds, InterimReturns, GiveSlotBack
    <3> QED BY <3>1, SlotsAfterInterim
  <2>2. ASSUME NEW gone \in BOOLEAN, FinalReturns(s, gone) PROVE SlotInv'
    <3>1. /\ handler[s] = "deciding" /\ engine' = engine
          /\ interim' = interim \/ interim' = [interim EXCEPT ![s] = Cancel(interim[s])]
          /\ \E x \in {"receiving", "closed"} : Release([handler EXCEPT ![s] = x])
      BY <2>2, FinalCases
    <3> QED BY <3>1, SlotsAfterFinal
  <2> QED BY <1>3, <2>1, <2>2, SlotsAfterGrant, SlotsAfterBegin DEF EventLoop
<1>4. ASSUME Takes \/ (\E work \in Works : Thread(work)) \/ UNCHANGED vars PROVE SlotInv'
  <2>1. UNCHANGED <<engine, handler, interim, permits, waiters>>
    BY <1>4 DEF Takes, Thread, Steps, Stepped, Closes, vars, taskVars, slotVars
  <2> QED BY <2>1 DEF SlotInv
<1> QED BY <1>2, <1>3, <1>4 DEF Next, Service
(* What a socket's own step leaves of the other sockets' agreement.        *)
LEMMA OthersAgree ==
    ASSUME TaskInv, NEW s \in Sockets,
           \A w \in Sockets \ {s} :
              /\ handler'[w] = handler[w] \/ (handler[w] = "waiting" /\ handler'[w] = "woken")
              /\ turn'[w] = turn[w] /\ interim'[w] = interim[w]
              /\ sent'[w] = sent[w] /\ answers'[w] = answers[w],
           SocketOK(handler'[s], turn'[s], interim'[s], sent'[s], answers'[s])
    PROVE  TaskInv'
<1>1. ASSUME NEW w \in Sockets, w # s
      PROVE  SocketOK(handler'[w], turn'[w], interim'[w], sent'[w], answers'[w])
  <2>1. SocketOK(handler[w], turn[w], interim[w], sent[w], answers[w])
    BY DEF TaskInv
  <2>2. SocketOK(handler'[w], turn[w], interim[w], sent[w], answers[w])
    BY <1>1, <2>1 DEF SocketOK
  <2> QED BY <1>1, <2>2
<1>2. \A w \in Sockets : SocketOK(handler'[w], turn'[w], interim'[w], sent'[w], answers'[w])
  BY <1>1
<1> QED BY <1>2 DEF TaskInv

LEMMA SocketNumbers ==
    ASSUME Types, NEW s \in Sockets
    PROVE  /\ turn[s] \in Nat \ {0} /\ turn[s] \in Utterances /\ answers[s] \in Nat
           /\ turn[s] <= MaxFlushes[s] => turn[s] + 1 \in Utterances
           /\ turn[s] >= 2 => turn[s] - 1 \in Utterances
           /\ sent[s] \in MessageSet
<1>1. turn[s] \in Utterances /\ answers[s] \in Nat /\ sent[s] \in MessageSet
  BY DEF Types
<1>2. turn[s] \in Nat \ {0}
  BY <1>1, Numbers
<1>3. ASSUME turn[s] <= MaxFlushes[s] PROVE turn[s] + 1 \in Utterances
  <2>1. MaxFlushes[s] \in Nat
    BY Bounds
  <2>2. turn[s] + 1 \in 1..(1 + MaxFlushes[s])
    BY <1>2, <1>3, <2>1
  <2> QED BY <2>2, Bounds
<1>4. ASSUME turn[s] >= 2 PROVE turn[s] - 1 \in Utterances
  <2>1. PICK w \in Sockets : turn[s] \in 1..(1 + MaxFlushes[w])
    BY <1>1 DEF Utterances
  <2>2. MaxFlushes[w] \in Nat
    BY Bounds
  <2>3. turn[s] - 1 \in 1..(1 + MaxFlushes[w])
    BY <1>4, <2>1, <2>2
  <2> QED BY <2>3, Bounds
<1> QED BY <1>1, <1>2, <1>3, <1>4

LEMMA SentFacts ==
    ASSUME Types, NEW s \in Sockets, NEW u \in Utterances, NEW text \in Texts
    PROVE  /\ Send(s, Final(text, u)) =>
                /\ sent' = [sent EXCEPT ![s] = Final(text, u)]
                /\ answers' = [answers EXCEPT ![s] = answers[s] + 1]
                /\ sent' \in [Sockets -> MessageSet] /\ answers' \in [Sockets -> Nat]
           /\ Send(s, Interim(text, u)) =>
                /\ sent' = [sent EXCEPT ![s] = Interim(text, u)] /\ answers' = answers
                /\ sent' \in [Sockets -> MessageSet] /\ answers' \in [Sockets -> Nat]
<1>1. Final(text, u) \in MessageSet /\ Final(text, u).final
  BY DEF Final, MessageSet
<1>2. Interim(text, u) \in MessageSet /\ ~Interim(text, u).final
  BY DEF Interim, MessageSet
<1>3. sent \in [Sockets -> MessageSet] /\ answers \in [Sockets -> Nat]
  BY DEF Types
<1>4. Send(s, Final(text, u)) =>
        /\ sent' = [sent EXCEPT ![s] = Final(text, u)]
        /\ answers' = [answers EXCEPT ![s] = answers[s] + 1]
  BY <1>1 DEF Send
<1>5. Send(s, Interim(text, u)) =>
        /\ sent' = [sent EXCEPT ![s] = Interim(text, u)] /\ answers' = answers
  BY <1>2 DEF Send
<1>6. [answers EXCEPT ![s] = answers[s] + 1] \in [Sockets -> Nat]
  BY <1>3
<1>7. /\ [sent EXCEPT ![s] = Final(text, u)] \in [Sockets -> MessageSet]
      /\ [sent EXCEPT ![s] = Interim(text, u)] \in [Sockets -> MessageSet]
  BY <1>1, <1>2, <1>3
<1> QED BY <1>3, <1>4, <1>5, <1>6, <1>7

LEMMA AgreeAfterClient ==
    ASSUME Types, SlotInv, TaskInv, NEW s \in Sockets,
           FlushSilence(s) \/ FlushSpeech(s) \/ Disconnect(s) \/ \E due \in BOOLEAN : Frame(s, due)
    PROVE  TaskInv'
<1> USE DEF SocketOK
<1>1. handler \in [Sockets -> HandlerSet] /\ interim \in [Sockets -> InterimSet]
  BY HoldersAreSockets
<1>2. SocketOK(handler[s], turn[s], interim[s], sent[s], answers[s])
  BY DEF TaskInv
<1>3. turn[s] \in Nat /\ answers[s] \in Nat /\ turn[s] \in Utterances /\ NoText \in Texts
  BY SocketNumbers, Bounds
<1>4. turn \in [Sockets -> Utterances] /\ sent \in [Sockets -> MessageSet]
      /\ answers \in [Sockets -> Nat]
  BY DEF Types
<1>5. Cancel(interim[s]).at \notin {"new", "deciding"}
  BY <1>1, CancelFacts
<1>6. CASE FlushSilence(s)
  <2>1. /\ handler[s] = "receiving" /\ handler' = handler
        /\ turn' = [turn EXCEPT ![s] = turn[s] + 1]
        /\ interim' = [interim EXCEPT ![s] = Cancel(interim[s])]
        /\ Send(s, Final(NoText, turn[s]))
    BY <1>6 DEF FlushSilence, StartTurn
  <2>2. /\ sent' = [sent EXCEPT ![s] = Final(NoText, turn[s])]
        /\ answers' = [answers EXCEPT ![s] = answers[s] + 1]
    BY <1>3, <2>1, SentFacts
  <2>3. /\ turn'[s] = turn[s] + 1 /\ answers'[s] = answers[s] + 1
        /\ interim'[s].at \notin {"new", "deciding"} /\ handler'[s] = "receiving"
        /\ sent'[s].turn = turn[s] /\ sent'[s].final
    BY <1>1, <1>4, <1>5, <2>1, <2>2 DEF Final
  <2>4. SocketOK(handler'[s], turn'[s], interim'[s], sent'[s], answers'[s])
    BY <1>2, <1>3, <2>1, <2>3
  <2>5. \A w \in Sockets \ {s} :
            /\ turn'[w] = turn[w] /\ interim'[w] = interim[w] /\ handler'[w] = handler[w]
            /\ sent'[w] = sent[w] /\ answers'[w] = answers[w]
    BY <1>1, <1>4, <2>1, <2>2
  <2> QED BY <2>4, <2>5, OthersAgree
<1>7. CASE FlushSpeech(s)
  <2>1. /\ handler[s] = "receiving"
        /\ turn' = [turn EXCEPT ![s] = turn[s] + 1]
        /\ interim' = [interim EXCEPT ![s] = Cancel(interim[s])]
        /\ sent' = sent /\ answers' = answers
    BY <1>7 DEF FlushSpeech, StartTurn, sentVars
  <2>2. \E x \in {"waiting", "deciding"} : handler' = [handler EXCEPT ![s] = x]
    BY <1>7 DEF FlushSpeech
  <2>3. /\ turn'[s] = turn[s] + 1 /\ handler'[s] \in {"waiting", "deciding"}
        /\ interim'[s].at \notin {"new", "deciding"}
    BY <1>1, <1>4, <1>5, <2>1, <2>2
  <2>4. SocketOK(handler'[s], turn'[s], interim'[s], sent'[s], answers'[s])
    BY <1>2, <1>3, <2>1, <2>3
  <2>5. \A w \in Sockets \ {s} :
            /\ turn'[w] = turn[w] /\ interim'[w] = interim[w] /\ handler'[w] = handler[w]
            /\ sent'[w] = sent[w] /\ answers'[w] = answers[w]
    BY <1>1, <1>4, <2>1, <2>2
  <2> QED BY <2>4, <2>5, OthersAgree
<1>8. CASE Disconnect(s)
  <2>1. /\ handler' = [handler EXCEPT ![s] = "closed"] /\ turn' = turn
        /\ interim' = [interim EXCEPT ![s] = Cancel(interim[s])]
        /\ sent' = sent /\ answers' = answers
    BY <1>8 DEF Disconnect, sentVars
  <2>2. handler'[s] = "closed" /\ interim'[s].at \notin {"new", "deciding"}
    BY <1>1, <1>5, <2>1
  <2>3. SocketOK(handler'[s], turn'[s], interim'[s], sent'[s], answers'[s])
    BY <1>2, <1>3, <2>1, <2>2
  <2>4. \A w \in Sockets \ {s} : interim'[w] = interim[w] /\ handler'[w] = handler[w]
    BY <1>1, <2>1
  <2> QED BY <2>1, <2>3, <2>4, OthersAgree
<1>9. ASSUME NEW due \in BOOLEAN, Frame(s, due) PROVE TaskInv'
  <2>1. /\ handler[s] = "receiving" /\ handler' = handler /\ turn' = turn
        /\ sent' = sent /\ answers' = answers
        /\ interim' = interim
             \/ \E a : interim' = [interim EXCEPT ![s] = [at |-> "new", turn |-> turn[s], audio |-> a]]
    BY <1>9 DEF Frame, sentVars
  <2>2. interim'[s] = interim[s] \/ interim'[s].turn = turn[s]
    BY <1>1, <2>1
  <2>3. SocketOK(handler'[s], turn'[s], interim'[s], sent'[s], answers'[s])
    BY <1>2, <2>1, <2>2
  <2>4. \A w \in Sockets \ {s} : interim'[w] = interim[w]
    BY <1>1, <2>1
  <2> QED BY <2>1, <2>3, <2>4, OthersAgree
<1> QED BY <1>6, <1>7, <1>8, <1>9
LEMMA AgreeAfterGrant ==
    ASSUME Types, SlotInv, TaskInv, NEW s \in Sockets, SlotGranted(s)
    PROVE  TaskInv'
<1>1. handler \in [Sockets -> HandlerSet]
  BY HoldersAreSockets
<1>2. UNCHANGED <<turn, interim, sent, answers>> /\ handler[s] = "woken"
  BY DEF SlotGranted, sentVars
<1>3. Moved([handler EXCEPT ![s] = "deciding"], handler')
  BY SlotsAfterGrant
<1>4. handler'[s] = "deciding"
  BY <1>1, <1>3 DEF Moved
<1>5. \A w \in Sockets \ {s} :
        handler'[w] = handler[w] \/ (handler[w] = "waiting" /\ handler'[w] = "woken")
  BY <1>1, <1>3 DEF Moved
<1>6. SocketOK(handler[s], turn[s], interim[s], sent[s], answers[s])
  BY DEF TaskInv
<1>7. SocketOK(handler'[s], turn'[s], interim'[s], sent'[s], answers'[s])
  BY <1>2, <1>4, <1>6 DEF SocketOK
<1> QED BY <1>2, <1>5, <1>7, OthersAgree

(* The texts that are sent: what was heard of an utterance, or its copy.   *)
LEMMA HeardIsText ==
    ASSUME Types, NEW s \in Sockets, NEW u \in Utterances
    PROVE  /\ Heard(s, u) \in Texts
           /\ Heard(s, u).since = dropped[s][u] /\ Heard(s, u).upto = read[s][u]
<1>1. dropped[s][u] \in Frames /\ read[s][u] \in Frames
  BY DEF Types, Counts, FrameCounts
<1> QED BY <1>1, TextMade DEF Heard

LEMMA TranscribedIsText ==
    ASSUME Types, SlotInv, NEW s \in Sockets, interim[s].turn \in Utterances
    PROVE  Transcribed(s) \in Texts
<1>1. interim[s].audio \in Texts
  BY HoldersAreSockets DEF InterimSet
<1> QED BY <1>1, HeardIsText DEF Transcribed

LEMMA FinalAnswer ==
    ASSUME Types, TaskInv, NEW s \in Sockets, handler[s] \in {"waiting", "woken", "deciding"}
    PROVE  /\ turn[s] - 1 \in Utterances /\ Heard(s, turn[s] - 1) \in Texts
           /\ turn[s] - 1 = answers[s] + 1 /\ answers[s] + 1 <= turn[s] - 1
           /\ turn[s] = answers[s] + 2
<1>1. turn[s] = answers[s] + 2
  BY DEF TaskInv, SocketOK
<1>2. turn[s] \in Nat /\ answers[s] \in Nat
  BY SocketNumbers
<1>3. turn[s] - 1 \in Utterances
  BY <1>1, <1>2, SocketNumbers
<1>4. Heard(s, turn[s] - 1) \in Texts
  BY <1>3, HeardIsText
<1> QED BY <1>1, <1>2, <1>3, <1>4

LEMMA AgreeAfterFinal ==
    ASSUME Types, SlotInv, TaskInv, NEW s \in Sockets, NEW gone \in BOOLEAN, FinalReturns(s, gone)
    PROVE  TaskInv'
<1>1. handler \in [Sockets -> HandlerSet] /\ interim \in [Sockets -> InterimSet]
      /\ sent \in [Sockets -> MessageSet] /\ answers \in [Sockets -> Nat]
  BY HoldersAreSockets DEF Types
<1>2. SocketOK(handler[s], turn[s], interim[s], sent[s], answers[s])
  BY DEF TaskInv
<1>3. /\ handler[s] = "deciding" /\ turn' = turn /\ engine' = engine
      /\ \/ /\ Release([handler EXCEPT ![s] = "closed"])
            /\ interim' = [interim EXCEPT ![s] = Cancel(interim[s])] /\ UNCHANGED sentVars
         \/ /\ Release([handler EXCEPT ![s] = "receiving"]) /\ interim' = interim
            /\ Send(s, Final(Heard(s, turn[s] - 1), turn[s] - 1))
  BY FinalCases
<1>4. /\ turn[s] \in Nat /\ answers[s] \in Nat /\ turn[s] = answers[s] + 2
      /\ turn[s] - 1 \in Utterances /\ Heard(s, turn[s] - 1) \in Texts
  BY <1>3, FinalAnswer, SocketNumbers
<1>5. CASE /\ Release([handler EXCEPT ![s] = "closed"])
           /\ interim' = [interim EXCEPT ![s] = Cancel(interim[s])] /\ UNCHANGED sentVars
  <2>1. Moved([handler EXCEPT ![s] = "closed"], handler')
    BY <1>3, <1>5, SlotsAfterFinal
  <2>2. handler'[s] = "closed"
    BY <1>1, <2>1 DEF Moved
  <2>3. \A w \in Sockets \ {s} :
            /\ handler'[w] = handler[w] \/ (handler[w] = "waiting" /\ handler'[w] = "woken")
            /\ interim'[w] = interim[w]
    BY <1>1, <1>5, <2>1 DEF Moved
  <2>4. interim'[s].at \notin {"new", "deciding"}
    BY <1>1, <1>5, CancelFacts
  <2>5. sent' = sent /\ answers' = answers
    BY <1>5 DEF sentVars
  <2>6. SocketOK(handler'[s], turn'[s], interim'[s], sent'[s], answers'[s])
    BY <1>2, <1>3, <2>2, <2>4, <2>5 DEF SocketOK
  <2> QED BY <1>3, <2>3, <2>5, <2>6, OthersAgree
<1>6. CASE /\ Release([handler EXCEPT ![s] = "receiving"]) /\ interim' = interim
           /\ Send(s, Final(Heard(s, turn[s] - 1), turn[s] - 1))
  <2>1. Moved([handler EXCEPT ![s] = "receiving"], handler')
    BY <1>3, <1>6, SlotsAfterFinal
  <2>2. handler'[s] = "receiving"
    BY <1>1, <2>1 DEF Moved
  <2>3. \A w \in Sockets \ {s} :
            handler'[w] = handler[w] \/ (handler[w] = "waiting" /\ handler'[w] = "woken")
    BY <1>1, <2>1 DEF Moved
  <2>4. /\ sent' = [sent EXCEPT ![s] = Final(Heard(s, turn[s] - 1), turn[s] - 1)]
        /\ answers' = [answers EXCEPT ![s] = answers[s] + 1]
    BY <1>4, <1>6, SentFacts
  <2>5. /\ sent'[s].final /\ sent'[s].turn = turn[s] - 1 /\ answers'[s] = answers[s] + 1
        /\ \A w \in Sockets \ {s} : sent'[w] = sent[w] /\ answers'[w] = answers[w]
    BY <1>1, <2>4 DEF Final
  <2>6. interim[s].at \notin {"new", "deciding"}
    BY <1>2, <1>3 DEF SocketOK
  <2>7. SocketOK(handler'[s], turn'[s], interim'[s], sent'[s], answers'[s])
    BY <1>2, <1>3, <1>4, <1>6, <2>2, <2>5, <2>6 DEF SocketOK
  <2> QED BY <1>3, <1>6, <2>3, <2>5, <2>7, OthersAgree
<1> QED BY <1>3, <1>5, <1>6

LEMMA AgreeAfterInterim ==
    ASSUME Types, SlotInv, TaskInv, NEW s \in Sockets,
           InterimBegins(s) \/ InterimEnds(s) \/ \E text \in BOOLEAN : InterimReturns(s, text)
    PROVE  TaskInv'
<1>1. handler \in [Sockets -> HandlerSet] /\ interim \in [Sockets -> InterimSet]
      /\ sent \in [Sockets -> MessageSet] /\ answers \in [Sockets -> Nat]
  BY HoldersAreSockets DEF Types
<1>2. SocketOK(handler[s], turn[s], interim[s], sent[s], answers[s])
  BY DEF TaskInv
<1>3. turn[s] \in Utterances /\ turn[s] \in Nat /\ answers[s] \in Nat
  BY SocketNumbers
<1>4. CASE InterimBegins(s)
  <2>1. /\ UNCHANGED <<handler, turn, sent, answers>> /\ interim[s].at = "new"
        /\ \/ interim' = [interim EXCEPT ![s] = Idle]
           \/ interim' = [interim EXCEPT ![s].at = "deciding"]
    BY <1>4 DEF InterimBegins, sentVars
  <2>2. interim'[s] = Idle \/ interim'[s].turn = interim[s].turn
    BY <1>1, <2>1 DEF InterimSet
  <2>3. SocketOK(handler'[s], turn'[s], interim'[s], sent'[s], answers'[s])
    BY <1>2, <2>1, <2>2 DEF SocketOK, Idle
  <2>4. \A w \in Sockets \ {s} : interim'[w] = interim[w]
    BY <1>1, <2>1
  <2> QED BY <2>1, <2>3, <2>4, OthersAgree
<1>5. CASE InterimEnds(s)
  <2>1. /\ UNCHANGED <<engine, turn, sent, answers>> /\ interim[s].at = "cancelled"
        /\ interim' = [interim EXCEPT ![s] = Idle] /\ Release(handler)
    BY <1>5 DEF InterimEnds, sentVars, GiveSlotBack
  <2>2. Moved(handler, handler')
    BY <2>1, SlotsAfterInterim
  <2>3. interim'[s] = Idle /\ \A w \in Sockets \ {s} : interim'[w] = interim[w]
    BY <1>1, <2>1
  <2>4. SocketOK(handler'[s], turn'[s], interim'[s], sent'[s], answers'[s])
    BY <1>2, <2>1, <2>2, <2>3 DEF SocketOK, Idle, Moved
  <2> QED BY <2>1, <2>2, <2>3, <2>4, OthersAgree DEF Moved
<1>6. ASSUME NEW text \in BOOLEAN, InterimReturns(s, text) PROVE TaskInv'
  <2>1. /\ UNCHANGED <<engine, turn>> /\ interim[s].at = "deciding"
        /\ interim' = [interim EXCEPT ![s] = Idle] /\ Release(handler)
        /\ \/ Send(s, Interim(Transcribed(s), interim[s].turn))
           \/ sent' = sent /\ answers' = answers
    BY <1>6 DEF InterimReturns, sentVars, Work
  <2>2. Moved(handler, handler')
    BY <2>1, SlotsAfterInterim
  <2>3. interim'[s] = Idle /\ \A w \in Sockets \ {s} : interim'[w] = interim[w]
    BY <1>1, <2>1
  <2>4. interim[s].turn = turn[s] /\ handler[s] = "receiving" /\ turn[s] = answers[s] + 1
    BY <1>2, <2>1 DEF SocketOK
  <2>5. Transcribed(s) \in Texts
    BY <1>3, <2>4, TranscribedIsText
  <2>6. /\ answers' = answers
        /\ sent' = sent \/ sent' = [sent EXCEPT ![s] = Interim(Transcribed(s), turn[s])]
    BY <1>3, <2>1, <2>4, <2>5, SentFacts
  <2>7. /\ sent'[s] = sent[s] \/ (~sent'[s].final /\ sent'[s].turn = turn[s])
        /\ \A w \in Sockets \ {s} : sent'[w] = sent[w]
    BY <1>1, <2>6 DEF Interim
  <2>8. SocketOK(handler'[s], turn'[s], interim'[s], sent'[s], answers'[s])
    BY <1>2, <1>3, <2>1, <2>2, <2>3, <2>4, <2>6, <2>7 DEF SocketOK, Idle, Moved
  <2> QED BY <2>1, <2>2, <2>3, <2>6, <2>7, <2>8, OthersAgree DEF Moved
<1> QED BY <1>4, <1>5, <1>6

LEMMA TaskStep ==
    ASSUME Types, SlotInv, TaskInv, [Next]_vars
    PROVE  TaskInv'
<1>1. ASSUME Client PROVE TaskInv'
  BY <1>1, AgreeAfterClient DEF Client
<1>2. ASSUME NEW s \in Sockets, EventLoop(s) PROVE TaskInv'
  BY <1>2, AgreeAfterGrant, AgreeAfterFinal, AgreeAfterInterim DEF EventLoop
<1>3. ASSUME Takes \/ (\E work \in Works : Thread(work)) \/ UNCHANGED vars PROVE TaskInv'
  <2>1. UNCHANGED <<handler, turn, interim, sent, answers>>
    BY <1>3 DEF Takes, Thread, Steps, Stepped, Closes, vars, taskVars, sentVars
  <2> QED BY <2>1 DEF TaskInv
<1> QED BY <1>1, <1>2, <1>3 DEF Next, Service

LEMMA RemoveAtFacts ==
    ASSUME NEW S, NEW q \in Seq(S), NEW k \in 1..Len(q)
    PROVE  /\ RemoveAt(q, k) \in Seq(S) /\ Len(RemoveAt(q, k)) = Len(q) - 1
           /\ \A i \in 1..Len(q) - 1 : RemoveAt(q, k)[i] = IF i < k THEN q[i] ELSE q[i + 1]
<1> DEFINE s == SubSeq(q, 1, k - 1)
           t == SubSeq(q, k + 1, Len(q))
<1>1. Len(q) \in Nat /\ \A i \in 1..Len(q) : q[i] \in S
  BY LenProperties, ElementOfSeq
<1>2. k \in Nat /\ 1 <= k /\ k <= Len(q)
  BY <1>1
<1>3. s \in Seq(S) /\ Len(s) = k - 1 /\ \A i \in 1..k - 1 : s[i] = q[i]
  <2>1. /\ \A i \in 1..(k - 1) : q[i] \in S
        /\ 1 \in Int /\ k - 1 \in Int
    BY <1>1, <1>2
  <2>2. /\ s \in Seq(S) /\ Len(s) = IF 1 <= k - 1 THEN (k - 1) - 1 + 1 ELSE 0
        /\ \A i \in 1..(k - 1) - 1 + 1 : s[i] = q[1 + i - 1]
    BY <2>1, SubSeqProperties
  <2>3. (k - 1) - 1 + 1 = k - 1 /\ \A i \in 1..k - 1 : 1 + i - 1 = i
    BY <1>2
  <2> QED BY <1>2, <2>2, <2>3
<1>4. t \in Seq(S) /\ Len(t) = Len(q) - k /\ \A i \in 1..Len(q) - k : t[i] = q[k + i]
  <2>1. /\ \A i \in (k + 1)..Len(q) : q[i] \in S
        /\ k + 1 \in Int /\ Len(q) \in Int
    BY <1>1, <1>2
  <2>2. /\ t \in Seq(S)
        /\ Len(t) = IF k + 1 <= Len(q) THEN Len(q) - (k + 1) + 1 ELSE 0
        /\ \A i \in 1..Len(q) - (k + 1) + 1 : t[i] = q[(k + 1) + i - 1]
    BY <2>1, SubSeqProperties
  <2>3. Len(t) = Len(q) - k
    BY <1>1, <1>2, <2>2
  <2>4. ASSUME NEW i \in 1..Len(q) - k PROVE t[i] = q[k + i]
    <3>1. i \in 1..Len(q) - (k + 1) + 1 /\ (k + 1) + i - 1 = k + i
      BY <1>1, <1>2
    <3>2. t[i] = q[(k + 1) + i - 1]
      BY <2>2, <3>1
    <3> QED BY <3>1, <3>2
  <2> QED BY <2>2, <2>3, <2>4
<1>5. RemoveAt(q, k) = s \o t
  BY DEF RemoveAt
<1> HIDE DEF s, t
<1>6. /\ s \o t \in Seq(S) /\ Len(s \o t) = Len(s) + Len(t)
      /\ \A i \in 1..Len(s) + Len(t) :
            (s \o t)[i] = IF i <= Len(s) THEN s[i] ELSE t[i - Len(s)]
  BY <1>3, <1>4, ConcatProperties
<1>7. Len(s) + Len(t) = Len(q) - 1
  BY <1>1, <1>2, <1>3, <1>4
<1>8. ASSUME NEW i \in 1..Len(q) - 1
      PROVE  (s \o t)[i] = IF i < k THEN q[i] ELSE q[i + 1]
  <2>1. i \in 1..Len(s) + Len(t)
    BY <1>7
  <2>2. CASE i < k
    BY <1>1, <1>2, <1>3, <1>6, <2>1, <2>2
  <2>3. CASE i >= k
    <3>1. i - (k - 1) \in 1..Len(q) - k /\ k + (i - (k - 1)) = i + 1
      BY <1>1, <1>2, <2>3
    <3>2. (s \o t)[i] = t[i - (k - 1)]
      BY <1>2, <1>3, <1>6, <2>1, <2>3
    <3>3. t[i - (k - 1)] = q[k + (i - (k - 1))]
      BY <1>4, <3>1
    <3>4. (s \o t)[i] = q[i + 1]
      BY <3>1, <3>2, <3>3
    <3>5. ~(i < k)
      BY <1>1, <1>2, <2>3
    <3> QED BY <3>4, <3>5
  <2>4. i < k \/ i >= k
    BY <1>1, <1>2
  <2> QED BY <2>2, <2>3, <2>4
<1> QED BY <1>5, <1>6, <1>7, <1>8
(* The pool's queue: one comes at the end, the first goes, or one is taken *)
(* out.                                                                    *)
LEMMA PoolAppend ==
    ASSUME NEW q \in WorkSeqs, NEW w \in Works
    PROVE  /\ Append(q, w) \in WorkSeqs /\ Len(Append(q, w)) = Len(q) + 1 /\ Len(q) \in Nat
           /\ \A i \in 1..Len(q) : Append(q, w)[i] = q[i] /\ q[i] \in Works
           /\ Append(q, w)[Len(q) + 1] = w
BY AppendProperties, LenProperties, ElementOfSeq DEF WorkSeqs

LEMMA PoolTail ==
    ASSUME NEW q \in WorkSeqs, q # <<>>
    PROVE  /\ Head(q) \in Works /\ Head(q) = q[1] /\ Len(q) \in Nat \ {0}
           /\ Tail(q) \in WorkSeqs /\ Len(Tail(q)) = Len(q) - 1
           /\ \A i \in 1..Len(Tail(q)) : Tail(q)[i] = q[i + 1]
<1>1. q \in Seq(Works)
  BY DEF WorkSeqs
<1>2. Len(q) \in Nat \ {0} /\ \A i \in 1..Len(q) : q[i] \in Works
  BY <1>1, EmptySeq, LenProperties, ElementOfSeq
<1>3. /\ Head(q) = q[1] /\ Tail(q) \in Seq(Works) /\ Len(Tail(q)) = Len(q) - 1
      /\ \A i \in 1..Len(Tail(q)) : Tail(q)[i] = q[i + 1]
  BY <1>1, HeadTailProperties
<1> QED BY <1>2, <1>3 DEF WorkSeqs

LEMMA Withdrawn ==
    ASSUME Types, NEW work, Withdraw(work)
    PROVE  pool' = pool \/ \E k \in 1..Len(pool) : pool' = RemoveAt(pool, k)
<1> DEFINE at == {i \in 1..Len(pool) : pool[i] = work}
<1>1. pool' = IF at = {} THEN pool ELSE RemoveAt(pool, CHOOSE i \in at : TRUE)
  BY DEF Withdraw
<1>2. CASE at = {}
  BY <1>1, <1>2
<1>3. CASE at # {}
  <2>1. (CHOOSE i \in at : TRUE) \in at
    BY <1>3
  <2>2. (CHOOSE i \in at : TRUE) \in 1..Len(pool)
    BY <2>1
  <2>3. pool' = RemoveAt(pool, CHOOSE i \in at : TRUE)
    BY <1>1, <1>3
  <2> QED BY <2>2, <2>3
<1> QED BY <1>2, <1>3

LEMMA PoolRemove ==
    ASSUME NEW q \in WorkSeqs, NEW k \in 1..Len(q)
    PROVE  /\ RemoveAt(q, k) \in WorkSeqs /\ Len(RemoveAt(q, k)) = Len(q) - 1 /\ Len(q) \in Nat
           /\ \A i \in 1..Len(q) - 1 : RemoveAt(q, k)[i] = IF i < k THEN q[i] ELSE q[i + 1]
BY RemoveAtFacts, LenProperties DEF WorkSeqs

LEMMA WorkParts ==
    ASSUME NEW w \in Works
    PROVE  /\ w.kind \in {"advance", "finish"} /\ w.socket \in Sockets /\ w.turn \in Utterances
           /\ Session(w) \in Sockets \X Utterances
           /\ Session(w)[1] = w.socket /\ Session(w)[2] = w.turn
           /\ w = Work(w.kind, w.socket, w.turn)
BY DEF Works, Session, Work

LEMMA WorkMade ==
    ASSUME NEW kind \in {"advance", "finish"}, NEW s \in Sockets, NEW u \in Utterances
    PROVE  /\ Work(kind, s, u) \in Works /\ Session(Work(kind, s, u)) = <<s, u>>
           /\ Work(kind, s, u).kind = kind /\ Work(kind, s, u).socket = s
           /\ Work(kind, s, u).turn = u
BY DEF Works, Session, Work

LEMMA CountsStay ==
    ASSUME Counts, UNCHANGED <<engine, fed, dropped, taken, read>>
    PROVE  Counts'
BY DEF Counts

LEMMA TypesAfterSocket ==
    ASSUME Types, SlotInv, TaskInv,
           NEW s \in Sockets,
           \/ FlushSilence(s) \/ FlushSpeech(s) \/ Disconnect(s) \/ \E due \in BOOLEAN : Frame(s, due)
           \/ EventLoop(s)
    PROVE  Types'
<1>1. /\ engine \in Engines /\ turn \in [Sockets -> Utterances]
      /\ Counts
      /\ pool \in WorkSeqs /\ threads \subseteq ThreadSet /\ results \subseteq ResultSet
      /\ sent \in [Sockets -> MessageSet] /\ answers \in [Sockets -> Nat]
      /\ {lapsed, failed, finished, connected} \subseteq SUBSET (Sockets \X Utterances)
  BY DEF Types
<1>2. turn[s] \in Utterances /\ turn[s] \in Nat /\ NoText \in Texts
  BY SocketNumbers, Bounds
<1>3. SocketOK(handler[s], turn[s], interim[s], sent[s], answers[s])
  BY DEF TaskInv
<1>4. interim \in [Sockets -> InterimSet]
  BY HoldersAreSockets
<1>5. ASSUME StartTurn(s) PROVE turn' \in [Sockets -> Utterances]
  <2>1. turn[s] + 1 \in Utterances /\ turn' = [turn EXCEPT ![s] = turn[s] + 1]
    BY <1>5, SocketNumbers DEF StartTurn
  <2> QED BY <1>1, <2>1
<1>6. CASE FlushSilence(s)
  <2>1. /\ turn' \in [Sockets -> Utterances] /\ Send(s, Final(NoText, turn[s]))
        /\ UNCHANGED <<engine, fed, dropped, pool, threads, results, taken, read, lapsed, failed,
                       finished, connected>>
    BY <1>5, <1>6 DEF FlushSilence, workVars, sessionVars
  <2>2. sent' \in [Sockets -> MessageSet] /\ answers' \in [Sockets -> Nat]
    BY <1>2, <2>1, SentFacts
  <2> QED BY <1>1, <2>1, <2>2, CountsStay DEF Types
<1>7. CASE FlushSpeech(s)
  <2>1. /\ turn' \in [Sockets -> Utterances]
        /\ UNCHANGED <<engine, fed, dropped, threads, results, taken, read, lapsed, failed,
                       finished, connected, sent, answers>>
        /\ pool' = pool \/ pool' = Append(pool, Work("finish", s, turn[s]))
    BY <1>5, <1>7 DEF FlushSpeech, Submit, workVars, sessionVars, sentVars
  <2>2. Append(pool, Work("finish", s, turn[s])) \in WorkSeqs
    <3>1. Work("finish", s, turn[s]) \in Works
      BY <1>2, WorkMade
    <3> QED BY <1>1, <3>1, PoolAppend
  <2>3. pool' \in WorkSeqs
    BY <1>1, <2>1, <2>2
  <2> QED BY <1>1, <2>1, <2>3, CountsStay DEF Types
<1>8. CASE Disconnect(s)
  <2>1. UNCHANGED <<engine, turn, fed, dropped, pool, threads, results, taken, read, lapsed,
                    failed, finished, connected, sent, answers>>
    BY <1>8 DEF Disconnect, workVars, sessionVars, sentVars
  <2> QED BY <1>1, <2>1, CountsStay DEF Types
<1>9. ASSUME NEW due \in BOOLEAN, Frame(s, due) PROVE Types'
  <2>1. UNCHANGED <<engine, turn, pool, threads, results, lapsed, failed, finished, connected,
                    sent, answers>>
    BY <1>9 DEF Frame, workVars, sessionVars, sentVars
  <2>2. Counts'
    BY <1>9, CountsAfterFrame
  <2> QED BY <1>1, <2>1, <2>2 DEF Types
<1>10. CASE SlotGranted(s)
  <2>1. /\ UNCHANGED <<engine, turn, fed, dropped, threads, results, taken, read, lapsed, failed,
                       finished, connected, sent, answers>>
        /\ handler[s] = "woken" /\ pool' = Append(pool, Work("finish", s, turn[s] - 1))
    BY <1>10 DEF SlotGranted, Submit, sessionVars, sentVars
  <2>2. pool' \in WorkSeqs
    BY <1>1, <2>1, FinalAnswer, WorkMade, PoolAppend
  <2> QED BY <1>1, <2>1, <2>2, CountsStay DEF Types
<1>11. CASE InterimBegins(s)
  <2>1. /\ UNCHANGED <<engine, turn, fed, dropped, threads, results, taken, read, lapsed, failed,
                       finished, connected, sent, answers>>
        /\ interim[s].at = "new"
        /\ pool' = pool \/ pool' = Append(pool, Work("advance", s, interim[s].turn))
    BY <1>11 DEF InterimBegins, Submit, sessionVars, sentVars
  <2>2. interim[s].turn = turn[s]
    BY <1>3, <2>1 DEF SocketOK
  <2>3. Append(pool, Work("advance", s, interim[s].turn)) \in WorkSeqs
    <3>1. Work("advance", s, interim[s].turn) \in Works
      BY <1>2, <2>2, WorkMade
    <3> QED BY <1>1, <3>1, PoolAppend
  <2>4. pool' \in WorkSeqs
    BY <1>1, <2>1, <2>3
  <2> QED BY <1>1, <2>1, <2>4, CountsStay DEF Types
<1>12. CASE InterimEnds(s)
  <2>1. /\ UNCHANGED <<engine, turn, fed, dropped, threads, taken, read, lapsed, failed, finished,
                       connected, sent, answers>>
        /\ Withdraw(Work("advance", s, interim[s].turn)) /\ results' \subseteq results
    BY <1>12 DEF InterimEnds, sessionVars, sentVars
  <2>2. pool' = pool \/ \E k \in 1..Len(pool) : pool' = RemoveAt(pool, k)
    BY <2>1, Withdrawn
  <2>3. pool' \in WorkSeqs
    BY <1>1, <2>2, PoolRemove
  <2> QED BY <1>1, <2>1, <2>3, CountsStay DEF Types
<1>13. ASSUME NEW gone \in BOOLEAN, FinalReturns(s, gone) PROVE Types'
  <2>1. /\ UNCHANGED <<engine, turn, fed, dropped, pool, threads, sessionVars>>
        /\ handler[s] = "deciding" /\ results' \subseteq results
        /\ UNCHANGED sentVars \/ Send(s, Final(Heard(s, turn[s] - 1), turn[s] - 1))
    BY <1>13, FinalCases
  <2>2. sent' \in [Sockets -> MessageSet] /\ answers' \in [Sockets -> Nat]
    BY <1>1, <2>1, FinalAnswer, SentFacts DEF sentVars
  <2>3. UNCHANGED <<engine, turn, fed, dropped, pool, threads, taken, read, lapsed, failed,
                    finished, connected>>
    BY <2>1 DEF sessionVars
  <2> QED BY <1>1, <2>1, <2>2, <2>3, CountsStay DEF Types
<1>14. ASSUME NEW text \in BOOLEAN, InterimReturns(s, text) PROVE Types'
  <2>1. /\ UNCHANGED <<engine, turn, fed, dropped, pool, threads, taken, read, lapsed, failed,
                       finished, connected>>
        /\ interim[s].at = "deciding" /\ results' \subseteq results
        /\ UNCHANGED sentVars \/ Send(s, Interim(Transcribed(s), interim[s].turn))
    BY <1>14 DEF InterimReturns, sessionVars, Work
  <2>2. interim[s].turn = turn[s]
    BY <1>3, <2>1 DEF SocketOK
  <2>3. Transcribed(s) \in Texts
    BY <1>2, <2>2, TranscribedIsText
  <2>4. sent' \in [Sockets -> MessageSet] /\ answers' \in [Sockets -> Nat]
    BY <1>1, <1>2, <2>1, <2>2, <2>3, SentFacts DEF sentVars
  <2> QED BY <1>1, <2>1, <2>4, CountsStay DEF Types
<1> QED BY <1>6, <1>7, <1>8, <1>9, <1>10, <1>11, <1>12, <1>13, <1>14 DEF EventLoop

(* A step reads no less than before and no more than there is.             *)
LEMMA ReadsFacts ==
    ASSUME NEW work \in Works, Counts, taken' \in FrameCounts,
           \A s \in Sockets, u \in Utterances : taken[s][u] <= taken'[s][u],
           NEW done \in BOOLEAN, Reads(work, done)
    PROVE  /\ read' \in FrameCounts
           /\ \A s \in Sockets, u \in Utterances :
                 read[s][u] <= read'[s][u] /\ read'[s][u] <= taken'[s][u]
           /\ done /\ Session(work) \notin finished
                 => read'[work.socket][work.turn] = taken'[work.socket][work.turn]
<1> DEFINE s == work.socket
           u == work.turn
           last == IF Session(work) \in finished THEN read[s][u] ELSE taken'[s][u]
<1>1. s \in Sockets /\ u \in Utterances
  BY WorkParts
<1>2. PICK n \in read[s][u]..last :
        (done => n = last) /\ read' = [read EXCEPT ![s][u] = n]
  BY DEF Reads
<1>3. /\ read \in FrameCounts /\ taken \in FrameCounts
      /\ \A w \in Sockets, v \in Utterances :
            read[w][v] \in Nat /\ taken[w][v] \in Nat /\ taken'[w][v] \in Nat
              /\ read[w][v] <= taken[w][v] /\ taken'[w][v] \in Frames
  <2>1. \A w \in Sockets, v \in Utterances : taken'[w][v] \in Frames
    BY DEF FrameCounts
  <2>2. \A w \in Sockets, v \in Utterances : taken'[w][v] \in Nat
    BY <2>1, Numbers
  <2> QED BY <2>1, <2>2, CountNumbers DEF Counts
<1>4. n \in Nat /\ read[s][u] <= n /\ n <= taken'[s][u]
  BY <1>1, <1>2, <1>3
<1>5. n \in Frames
  BY <1>1, <1>3, <1>4, FewerFrames
<1>6. read' \in FrameCounts /\ read'[s][u] = n
  BY <1>1, <1>2, <1>3, <1>5 DEF FrameCounts
<1>7. ASSUME NEW w \in Sockets, NEW v \in Utterances
      PROVE  read[w][v] <= read'[w][v] /\ read'[w][v] <= taken'[w][v]
  <2>1. CASE w = s /\ v = u
    BY <1>4, <1>6, <2>1
  <2>2. CASE ~(w = s /\ v = u)
    <3>1. read'[w][v] = read[w][v]
      BY <1>1, <1>2, <1>3, <2>2 DEF FrameCounts
    <3> QED BY <1>3, <3>1
  <2> QED BY <2>1, <2>2
<1>8. done /\ Session(work) \notin finished => n = taken'[s][u]
  BY <1>2
<1> HIDE DEF s, u
<1> QED BY <1>6, <1>7, <1>8 DEF s, u

(* TakeAudio takes all of an utterance, and no less than before.           *)
LEMMA TakeFacts ==
    ASSUME NEW work \in Works, Counts, taken' = taken \/ TakeAudio(work)
    PROVE  /\ taken' \in FrameCounts
           /\ \A s \in Sockets, u \in Utterances :
                 /\ taken'[s][u] = taken[s][u] \/ taken'[s][u] = fed[s][u]
                 /\ taken[s][u] <= taken'[s][u] /\ taken'[s][u] <= fed[s][u]
           /\ TakeAudio(work) => taken'[work.socket][work.turn] = fed[work.socket][work.turn]
<1>1. work.socket \in Sockets /\ work.turn \in Utterances
  BY WorkParts
<1>2. /\ taken \in FrameCounts /\ fed \in FrameCounts
      /\ \A s \in Sockets, u \in Utterances :
            taken[s][u] <= fed[s][u] /\ taken[s][u] \in Nat /\ fed[s][u] \in Nat
  BY CountNumbers DEF Counts
<1>3. CASE TakeAudio(work)
  <2>1. taken' = [taken EXCEPT ![work.socket][work.turn] = fed[work.socket][work.turn]]
    BY <1>3 DEF TakeAudio
  <2>2. /\ taken' \in FrameCounts
        /\ taken'[work.socket][work.turn] = fed[work.socket][work.turn]
        /\ \A s \in Sockets, u \in Utterances :
              taken'[s][u] = taken[s][u] \/ taken'[s][u] = fed[s][u]
    BY <1>1, <1>2, <2>1 DEF FrameCounts
  <2> QED BY <1>2, <2>2
<1>4. CASE taken' = taken
  <2>1. TakeAudio(work) => taken'[work.socket][work.turn] = fed[work.socket][work.turn]
    BY <1>3, <1>4
  <2> QED BY <1>2, <1>4, <2>1
<1> QED BY <1>3, <1>4

(* What a step of a thread does to the counts.                             *)
LEMMA CountsAfterThread ==
    ASSUME Types, NEW t \in threads,
           \/ Steps(t) \/ Closes(t)
           \/ \E outcome \in {"ends", "breaks", "lapses"} : Stepped(t, outcome)
    PROVE  /\ Counts' /\ UNCHANGED <<engine, fed, dropped>>
           /\ \A s \in Sockets, u \in Utterances :
                 /\ taken'[s][u] = taken[s][u] \/ taken'[s][u] = fed[s][u]
                 /\ read[s][u] <= read'[s][u] /\ read'[s][u] <= fed[s][u]
<1>1. t.work \in Works /\ Counts
  BY DEF Types, ThreadSet
<1>2. UNCHANGED <<engine, fed, dropped>>
  BY DEF Steps, Closes, Stepped, taskVars
<1>3. taken' = taken \/ TakeAudio(t.work)
  BY DEF Steps, Closes, Stepped
<1>4. read' = read \/ \E done \in BOOLEAN : Reads(t.work, done)
  <2>1. CASE Steps(t) \/ Closes(t)
    BY <2>1 DEF Steps, Closes
  <2>2. ASSUME NEW outcome \in {"ends", "breaks", "lapses"}, Stepped(t, outcome)
        PROVE  read' = read \/ \E done \in BOOLEAN : Reads(t.work, done)
    <3> DEFINE done == outcome = "ends" /\ (t.work.kind = "finish" \/ engine = "buffered")
    <3>1. read' = read \/ Reads(t.work, done)
      BY <2>2 DEF Stepped
    <3>2. done \in BOOLEAN
      OBVIOUS
    <3> HIDE DEF done
    <3> QED BY <3>1, <3>2
  <2> QED BY <2>1, <2>2
<1>5. /\ taken' \in FrameCounts
      /\ \A s \in Sockets, u \in Utterances :
            /\ taken'[s][u] = taken[s][u] \/ taken'[s][u] = fed[s][u]
            /\ taken[s][u] <= taken'[s][u] /\ taken'[s][u] <= fed[s][u]
  BY <1>1, <1>3, TakeFacts
<1>6. /\ fed \in FrameCounts /\ dropped \in FrameCounts
      /\ taken \in FrameCounts /\ read \in FrameCounts
      /\ \A s \in Sockets, u \in Utterances :
            /\ read[s][u] <= taken[s][u] /\ taken[s][u] <= fed[s][u]
            /\ dropped[s][u] = Lost(engine, fed[s][u])
            /\ read[s][u] \in Nat /\ taken[s][u] \in Nat /\ fed[s][u] \in Nat
  BY <1>1, CountNumbers DEF Counts
<1>7. /\ read' \in FrameCounts
      /\ \A s \in Sockets, u \in Utterances :
            read[s][u] <= read'[s][u] /\ read'[s][u] <= taken'[s][u]
  <2>1. CASE read' = read
    <3>1. \A s \in Sockets, u \in Utterances : taken'[s][u] \in Frames
      BY <1>5 DEF FrameCounts
    <3>2. \A s \in Sockets, u \in Utterances : taken'[s][u] \in Nat
      BY <3>1, Numbers
    <3> QED BY <1>5, <1>6, <2>1, <3>2
  <2>2. CASE \E done \in BOOLEAN : Reads(t.work, done)
    BY <1>1, <1>5, <2>2, ReadsFacts
  <2> QED BY <1>4, <2>1, <2>2
<1>8. \A s \in Sockets, u \in Utterances : taken'[s][u] \in Nat /\ read'[s][u] \in Nat
  <2>1. \A s \in Sockets, u \in Utterances : taken'[s][u] \in Frames /\ read'[s][u] \in Frames
    BY <1>5, <1>7 DEF FrameCounts
  <2> QED BY <2>1, Numbers
<1>9. Counts'
  BY <1>2, <1>5, <1>6, <1>7 DEF Counts
<1> QED BY <1>2, <1>5, <1>6, <1>7, <1>8, <1>9

(* A thread's step, said of one work on a thread.                          *)
LEMMA TypesAfterThread ==
    ASSUME Types,
           \/ Takes
           \/ \E t \in threads :
                \/ Steps(t) \/ Closes(t)
                \/ \E outcome \in {"ends", "breaks", "lapses"} : Stepped(t, outcome)
    PROVE  Types'
<1>1. /\ engine \in Engines /\ turn \in [Sockets -> Utterances]
      /\ Counts
      /\ pool \in WorkSeqs /\ threads \subseteq ThreadSet /\ results \subseteq ResultSet
      /\ sent \in [Sockets -> MessageSet] /\ answers \in [Sockets -> Nat]
      /\ {lapsed, failed, finished, connected} \subseteq SUBSET (Sockets \X Utterances)
  BY DEF Types
<1>2. CASE Takes
  <2>1. /\ UNCHANGED <<engine, turn, fed, dropped, results, taken, read, lapsed, failed, finished,
                       connected, sent, answers>>
        /\ pool # <<>> /\ pool' = Tail(pool)
        /\ threads' = threads \cup {On(Head(pool), "taken", TRUE)}
    BY <1>2 DEF Takes, taskVars, sessionVars, sentVars
  <2>2. Head(pool) \in Works /\ pool' \in WorkSeqs
    BY <1>1, <2>1, PoolTail
  <2>3. On(Head(pool), "taken", TRUE) \in ThreadSet
    BY <2>2 DEF On, ThreadSet
  <2> QED BY <1>1, <2>1, <2>2, <2>3, CountsStay DEF Types
<1>3. ASSUME NEW t \in threads, Steps(t) PROVE Types'
  <2>1. t.work \in Works
    BY <1>1, <1>3 DEF ThreadSet
  <2>2. Session(t.work) \in Sockets \X Utterances
    BY <2>1, WorkParts
  <2>3. /\ UNCHANGED <<engine, turn, pool, results, lapsed, failed, finished, sent, answers>>
        /\ threads' = (threads \ {t}) \cup {On(t.work, "stepping", Session(t.work) \notin failed)}
        /\ connected' = connected \/ connected' = connected \cup {Session(t.work)}
    BY <1>3 DEF Steps, taskVars, sentVars
  <2>4. On(t.work, "stepping", Session(t.work) \notin failed) \in ThreadSet
    <3>1. (Session(t.work) \notin failed) \in BOOLEAN
      OBVIOUS
    <3> QED BY <2>1, <3>1 DEF On, ThreadSet
  <2>5. Counts'
    BY <1>3, CountsAfterThread
  <2>6. threads' \subseteq ThreadSet
    BY <1>1, <2>3, <2>4
  <2>7. connected' \in SUBSET (Sockets \X Utterances)
    BY <1>1, <2>2, <2>3
  <2> QED BY <1>1, <2>3, <2>5, <2>6, <2>7 DEF Types
<1>4. ASSUME NEW t \in threads, NEW ok \in BOOLEAN, Leave(t, ok), Counts',
             UNCHANGED <<engine, turn, pool, sent, answers>>,
             lapsed' \in SUBSET (Sockets \X Utterances),
             failed' \in SUBSET (Sockets \X Utterances), connected' \in SUBSET (Sockets \X Utterances)
      PROVE  Types'
  <2>1. t.work \in Works
    BY <1>1, <1>4 DEF ThreadSet
  <2>2. Session(t.work) \in Sockets \X Utterances
    BY <2>1, WorkParts
  <2>3. [work |-> t.work, ok |-> ok] \in ResultSet
    BY <2>1 DEF ResultSet
  <2>4. threads' \subseteq ThreadSet /\ results' \subseteq ResultSet
    BY <1>1, <1>4, <2>3 DEF Leave
  <2>5. finished' \in SUBSET (Sockets \X Utterances)
    BY <1>1, <1>4, <2>2 DEF Leave
  <2> QED BY <1>1, <1>4, <2>4, <2>5 DEF Types
<1>5. ASSUME NEW t \in threads, Closes(t) PROVE Types'
  <2>1. /\ UNCHANGED <<engine, turn, pool, lapsed, failed, sent, answers>>
        /\ connected' \subseteq connected /\ Leave(t, t.ok)
    BY <1>5 DEF Closes, taskVars, sentVars
  <2>2. t.ok \in BOOLEAN /\ Counts'
    BY <1>1, <1>5, CountsAfterThread DEF ThreadSet
  <2> QED BY <1>1, <1>4, <1>5, <2>1, <2>2
<1>6. ASSUME NEW t \in threads, NEW outcome \in {"ends", "breaks", "lapses"}, Stepped(t, outcome)
      PROVE  Types'
  <2> DEFINE ok == t.ok /\ outcome # "breaks"
  <2>1. t.work \in Works /\ ok \in BOOLEAN
    BY <1>1, <1>6 DEF ThreadSet
  <2>2. Session(t.work) \in Sockets \X Utterances /\ Counts'
    BY <1>6, <2>1, WorkParts, CountsAfterThread
  <2>3. /\ UNCHANGED <<engine, turn, pool, sent, answers>>
        /\ lapsed' = lapsed \/ lapsed' = lapsed \cup {Session(t.work)}
        /\ failed' = failed \/ failed' = failed \cup {Session(t.work)}
        /\ connected' \subseteq connected
        /\ \/ Leave(t, ok)
           \/ /\ threads' = (threads \ {t}) \cup {On(t.work, "closing", ok)}
              /\ UNCHANGED <<results, finished>>
    BY <1>6 DEF Stepped, taskVars, sentVars
  <2> HIDE DEF ok
  <2>4. /\ lapsed' \in SUBSET (Sockets \X Utterances)
        /\ failed' \in SUBSET (Sockets \X Utterances)
        /\ connected' \in SUBSET (Sockets \X Utterances)
    BY <1>1, <2>2, <2>3
  <2>5. On(t.work, "closing", ok) \in ThreadSet
    BY <2>1 DEF On, ThreadSet
  <2>6. CASE Leave(t, ok)
    BY <1>4, <1>6, <2>1, <2>2, <2>3, <2>4, <2>6
  <2>7. CASE /\ threads' = (threads \ {t}) \cup {On(t.work, "closing", ok)}
             /\ UNCHANGED <<results, finished>>
    <3>1. threads' \subseteq ThreadSet
      BY <1>1, <2>5, <2>7
    <3> QED BY <1>1, <2>2, <2>3, <2>4, <2>7, <3>1 DEF Types
  <2> QED BY <2>3, <2>6, <2>7
<1> QED BY <1>2, <1>3, <1>5, <1>6

LEMMA TypesStep ==
    ASSUME Types, SlotInv, TaskInv, [Next]_vars
    PROVE  Types'
<1>1. ASSUME Client \/ \E s \in Sockets : EventLoop(s) PROVE Types'
  BY <1>1, TypesAfterSocket DEF Client
<1>2. ASSUME Takes \/ \E work \in Works : Thread(work) PROVE Types'
  BY <1>2, TypesAfterThread DEF Thread
<1>3. ASSUME UNCHANGED vars PROVE Types'
  BY <1>3 DEF vars, taskVars, workVars, sessionVars, sentVars, Types, Counts
<1> QED BY <1>1, <1>2, <1>3 DEF Next, Service

THEOREM SocketsAgree == Spec => [](Types /\ SlotInv /\ TaskInv)
<1>1. ASSUME Init PROVE Types /\ SlotInv /\ TaskInv
  <2>1. /\ Interims(interim) = {} /\ Finals(handler) = {}
        /\ handler \in [Sockets -> HandlerSet]
    BY <1>1 DEF Init, Interims, Finals, Idle, HandlerSet
  <2>2. interim \in [Sockets -> InterimSet]
    BY <1>1, Bounds DEF Init
  <2>3. /\ <<>> \in SocketSeqs /\ Len(<<>>) = 0 /\ <<>> \in WorkSeqs
    BY EmptySeq DEF SocketSeqs, WorkSeqs
  <2>4. Cardinality({}) = 0 /\ permits = Threads(engine) /\ permits \in Nat /\ waiters = <<>>
    BY <1>1, FS_EmptySet, ThreadsPositive DEF Init
  <2>5. SlotInv
    BY <2>1, <2>2, <2>3, <2>4 DEF SlotInv, Balanced
  <2>6. /\ \A s \in Sockets : 1 \in Utterances /\ NoText \in Texts
        /\ Counts
    <3>1. \A s \in Sockets : 1 \in Utterances /\ 0 \in Frames /\ NoText \in Texts
      BY Bounds
    <3>2. Lost(engine, 0) = 0
      BY WhisperAssumption DEF Lost
    <3> QED BY <1>1, <3>1, <3>2 DEF Init, FrameCounts, Counts
  <2>7. turn \in [Sockets -> Utterances] /\ answers \in [Sockets -> Nat]
    BY <1>1, <2>6 DEF Init
  <2>8. sent \in [Sockets -> MessageSet]
    BY <1>1, <2>6 DEF Init, Interim, MessageSet
  <2>9. Types
    BY <1>1, <2>3, <2>6, <2>7, <2>8 DEF Init, Types
  <2>10. TaskInv
    BY <1>1 DEF Init, TaskInv, SocketOK, Interim, Idle
  <2> QED BY <2>5, <2>9, <2>10
<1> QED BY <1>1, SlotStep, TaskStep, TypesStep, PTL DEF Spec

(* The slots of the service: however many calls and workers, every slot is *)
(* free or held by one interim or one final, whatever is cancelled when,   *)
(* and a final waits only while all are taken or one is being handed on.   *)
THEOREM SlotsAreSafe == Spec => []SlotsSafe
<1>1. ASSUME Types, SlotInv, TaskInv PROVE SlotsSafe
  <2>1. /\ handler \in [Sockets -> HandlerSet] /\ interim \in [Sockets -> InterimSet]
        /\ permits \in Nat /\ Threads(engine) \in Nat
        /\ \A i \in 1..Len(waiters) : waiters[i] \in Sockets
    BY HoldersAreSockets, <1>1
  <2>2. Threads(engine) = permits + Cardinality(Interims(interim)) + Cardinality(Finals(handler))
    BY <1>1 DEF SlotInv, Balanced
  <2>3. SlotsConserved
    BY <1>1, <2>2 DEF SlotInv, Balanced, SlotsConserved, Interims, Finals
  <2>4. permits \in 0..Threads(engine)
    <3>1. Cardinality(Interims(interim)) \in Nat /\ Cardinality(Finals(handler)) \in Nat
      BY Holders
    <3> HIDE DEF Interims, Finals
    <3> QED BY <2>1, <2>2, <3>1
  <2>5. {pool[i] : i \in 1..Len(pool)} \subseteq Works
    BY <1>1, ElementOfSeq DEF Types, WorkSeqs
  <2>6. TypeOK
    BY <1>1, <2>1, <2>4, <2>5
       DEF Types, Counts, TypeOK, HandlerSet, InterimSet, FrameCounts, ThreadSet, ResultSet,
           MessageSet
  <2> QED BY <2>3, <2>6 DEF SlotsSafe
<1> QED BY <1>1, SocketsAgree, PTL

-----------------------------------------------------------------------------
(* Part 3: the finishes.  One that was submitted is of an utterance before *)
(* the handler's, and not of the flush the handler still waits to submit;  *)
(* no work of its session comes behind it in the pool, or once it is on a  *)
(* thread or over.                                                         *)
Past(c, tn, hd) ==
    c[2] < tn[c[1]] /\ (hd[c[1]] \in {"waiting", "woken"} => c[2] # tn[c[1]] - 1)

Behind(q, th, fin, tn, hd) ==
    /\ \A i \in 1..Len(q) : q[i].kind = "finish" =>
          /\ Past(Session(q[i]), tn, hd)
          /\ \A j \in 1..Len(q) : i < j => Session(q[i]) # Session(q[j])
    /\ \A t \in th : t.work.kind = "finish" =>
          /\ Past(Session(t.work), tn, hd)
          /\ \A j \in 1..Len(q) : Session(t.work) # Session(q[j])
    /\ \A c \in fin : Past(c, tn, hd) /\ \A j \in 1..Len(q) : c # Session(q[j])

FinishInv == Behind(pool, threads, finished, turn, handler)

(* There is one finish of a session, and none once it is over.             *)
OnceInv == \A t \in threads : t.work.kind = "finish" =>
    /\ Session(t.work) \notin finished
    /\ \A o \in threads : o.work = t.work => o = t

(* A finish that stepped has given the model all that was fed before the   *)
(* flush, and one that returned has read all of it, unless its time was    *)
(* up; so has what was sent.                                               *)
Whole(w) == taken[w.socket][w.turn] = fed[w.socket][w.turn]
AllRead(w) ==
    \/ read[w.socket][w.turn] = fed[w.socket][w.turn]
    \/ engine = "remote" /\ <<w.socket, w.turn>> \in lapsed

ThreadsWhole == \A t \in threads : t.work.kind = "finish" /\ t.ok =>
    /\ t.at # "taken" => Whole(t.work)
    /\ t.at = "closing" => AllRead(t.work)
ResultsWhole == \A r \in results : r.work.kind = "finish" =>
    r.work.turn < turn[r.work.socket] /\ (r.ok => AllRead(r.work))

AnswersWith(s, u, text) ==
    /\ text.upto = fed[s][u] \/ (engine = "remote" /\ <<s, u>> \in lapsed)
    /\ text.since = Lost(engine, fed[s][u])
SentWhole == \A s \in Sockets : sent[s].final => AnswersWith(s, sent[s].turn, sent[s].text)

WholeInv == ThreadsWhole /\ ResultsWhole /\ SentWhole

(* Threads are no more than the pool has; a local engine's is not on a     *)
(* session that is over.                                                   *)
ThreadInv ==
    /\ IsFiniteSet(threads) /\ Cardinality(threads) <= Threads(engine)
    /\ engine = "local" => \A t \in threads : Session(t.work) \notin finished

(* From a step of the sockets to the next, turns only grow, and a handler  *)
(* comes to wait only with a new turn.                                     *)
Later(tn, hd, tn1, hd1) ==
    \A s \in Sockets :
        \/ tn1[s] = tn[s] /\ (hd1[s] \in {"waiting", "woken"} => hd[s] \in {"waiting", "woken"})
        \/ tn1[s] = tn[s] + 1

Turns == [Sockets -> Utterances]

LEMMA PastStays ==
    ASSUME NEW tn \in Turns, NEW hd, NEW tn1 \in Turns, NEW hd1, Later(tn, hd, tn1, hd1),
           NEW c \in Sockets \X Utterances, Past(c, tn, hd)
    PROVE  Past(c, tn1, hd1)
<1> DEFINE s == c[1]
           u == c[2]
<1>1. s \in Sockets /\ u \in Nat /\ tn[s] \in Nat
  BY Numbers DEF Turns
<1>2. u < tn[s] /\ (hd[s] \in {"waiting", "woken"} => u # tn[s] - 1)
  BY DEF Past
<1>3. \/ tn1[s] = tn[s] /\ (hd1[s] \in {"waiting", "woken"} => hd[s] \in {"waiting", "woken"})
      \/ tn1[s] = tn[s] + 1
  BY <1>1 DEF Later
<1> HIDE DEF s, u
<1>4. u < tn1[s] /\ (hd1[s] \in {"waiting", "woken"} => u # tn1[s] - 1)
  BY <1>1, <1>2, <1>3
<1> QED BY <1>4 DEF Past, s, u

LEMMA SessionsOfWorks ==
    ASSUME NEW q \in WorkSeqs, NEW th \in SUBSET ThreadSet
    PROVE  /\ \A i \in 1..Len(q) : q[i] \in Works /\ Session(q[i]) \in Sockets \X Utterances
           /\ \A t \in th : t.work \in Works /\ Session(t.work) \in Sockets \X Utterances
<1>1. \A i \in 1..Len(q) : q[i] \in Works
  BY ElementOfSeq DEF WorkSeqs
<1>2. \A t \in th : t.work \in Works
  BY DEF ThreadSet
<1> QED BY <1>1, <1>2, WorkParts

LEMMA BehindStays ==
    ASSUME NEW q \in WorkSeqs, NEW th \in SUBSET ThreadSet,
           NEW fin \in SUBSET (Sockets \X Utterances), NEW tn \in Turns, NEW hd,
           NEW tn1 \in Turns, NEW hd1, Later(tn, hd, tn1, hd1), Behind(q, th, fin, tn, hd)
    PROVE  Behind(q, th, fin, tn1, hd1)
BY SessionsOfWorks, PastStays DEF Behind

(* A work that is submitted is of no session whose finish was.             *)
LEMMA BehindAppend ==
    ASSUME NEW q \in WorkSeqs, NEW th \in SUBSET ThreadSet,
           NEW fin \in SUBSET (Sockets \X Utterances), NEW tn \in Turns, NEW hd,
           NEW tn1 \in Turns, NEW hd1, Later(tn, hd, tn1, hd1), Behind(q, th, fin, tn, hd),
           NEW w \in Works, ~Past(Session(w), tn, hd),
           w.kind = "finish" => Past(Session(w), tn1, hd1)
    PROVE  Behind(Append(q, w), th, fin, tn1, hd1)
<1> DEFINE r == Append(q, w)
<1>1. Behind(q, th, fin, tn1, hd1)
  BY BehindStays
<1>2. /\ Len(r) = Len(q) + 1 /\ Len(q) \in Nat
      /\ \A i \in 1..Len(q) : r[i] = q[i]
      /\ r[Len(q) + 1] = w
  BY PoolAppend
<1> HIDE DEF r
<1>3. \A i \in 1..Len(r) : (i \in 1..Len(q) /\ r[i] = q[i]) \/ (i = Len(q) + 1 /\ r[i] = w)
  BY <1>2
<1>4. /\ \A i \in 1..Len(q) : q[i].kind = "finish" => Session(q[i]) # Session(w)
      /\ \A t \in th : t.work.kind = "finish" => Session(t.work) # Session(w)
      /\ \A c \in fin : c # Session(w)
  BY DEF Behind
<1>5. ASSUME NEW i \in 1..Len(r), r[i].kind = "finish"
      PROVE  /\ Past(Session(r[i]), tn1, hd1)
             /\ \A j \in 1..Len(r) : i < j => Session(r[i]) # Session(r[j])
  <2>1. CASE i \in 1..Len(q) /\ r[i] = q[i]
    <3>1. Past(Session(r[i]), tn1, hd1)
      BY <1>1, <1>5, <2>1 DEF Behind
    <3>2. ASSUME NEW j \in 1..Len(r), i < j PROVE Session(r[i]) # Session(r[j])
      BY <1>1, <1>3, <1>4, <1>5, <2>1, <3>2 DEF Behind
    <3> QED BY <3>1, <3>2
  <2>2. CASE i = Len(q) + 1 /\ r[i] = w
    <3>1. \A j \in 1..Len(r) : ~(i < j)
      BY <1>2, <2>2
    <3> QED BY <1>5, <2>2, <3>1
  <2> QED BY <1>3, <2>1, <2>2
<1>6. ASSUME NEW t \in th, t.work.kind = "finish"
      PROVE  /\ Past(Session(t.work), tn1, hd1)
             /\ \A j \in 1..Len(r) : Session(t.work) # Session(r[j])
  BY <1>1, <1>3, <1>4, <1>6 DEF Behind
<1>7. ASSUME NEW c \in fin
      PROVE  Past(c, tn1, hd1) /\ \A j \in 1..Len(r) : c # Session(r[j])
  BY <1>1, <1>3, <1>4, <1>7 DEF Behind
<1>8. Behind(r, th, fin, tn1, hd1)
  BY <1>5, <1>6, <1>7 DEF Behind
<1> QED BY <1>8 DEF r

LEMMA BehindRemove ==
    ASSUME NEW q \in WorkSeqs, NEW th, NEW fin, NEW tn, NEW hd, Behind(q, th, fin, tn, hd),
           NEW k \in 1..Len(q)
    PROVE  Behind(RemoveAt(q, k), th, fin, tn, hd)
<1> DEFINE r == RemoveAt(q, k)
           m == [i \in 1..(Len(q) - 1) |-> IF i < k THEN i ELSE i + 1]
<1>1. /\ Len(r) = Len(q) - 1 /\ Len(q) \in Nat
      /\ \A i \in 1..Len(q) - 1 : r[i] = IF i < k THEN q[i] ELSE q[i + 1]
  BY PoolRemove
<1> HIDE DEF r
<1>2. \A i \in 1..Len(r) : m[i] \in 1..Len(q) /\ r[i] = q[m[i]]
  BY <1>1
<1>3. \A i, j \in 1..Len(r) : i < j => m[i] < m[j]
  BY <1>1
<1> HIDE DEF m
<1>4. Behind(r, th, fin, tn, hd)
  BY SMTT(30), <1>2, <1>3 DEF Behind
<1> QED BY <1>4 DEF r

LEMMA BehindTakes ==
    ASSUME NEW q \in WorkSeqs, NEW th, NEW fin, NEW tn, NEW hd, Behind(q, th, fin, tn, hd),
           q # <<>>
    PROVE  Behind(Tail(q), th \cup {On(Head(q), "taken", TRUE)}, fin, tn, hd)
<1> DEFINE r == Tail(q)
           x == On(Head(q), "taken", TRUE)
<1>1. /\ Head(q) = q[1] /\ Len(q) \in Nat \ {0} /\ Len(r) = Len(q) - 1
      /\ \A i \in 1..Len(r) : r[i] = q[i + 1]
  BY PoolTail
<1>2. x.work = q[1]
  BY <1>1 DEF On
<1> HIDE DEF r, x
<1>3. 1 \in 1..Len(q) /\ \A i \in 1..Len(r) : i + 1 \in 1..Len(q) /\ 1 < i + 1
  BY <1>1
<1>4. \A i, j \in 1..Len(r) : i < j => i + 1 < j + 1
  BY <1>1
<1>5. ASSUME NEW i \in 1..Len(r), r[i].kind = "finish"
      PROVE  /\ Past(Session(r[i]), tn, hd)
             /\ \A j \in 1..Len(r) : i < j => Session(r[i]) # Session(r[j])
  BY SMTT(30), <1>1, <1>3, <1>4, <1>5 DEF Behind
<1>6. ASSUME NEW t \in th \cup {x}, t.work.kind = "finish"
      PROVE  /\ Past(Session(t.work), tn, hd)
             /\ \A j \in 1..Len(r) : Session(t.work) # Session(r[j])
  <2>1. CASE t \in th
    BY <1>1, <1>3, <1>6, <2>1 DEF Behind
  <2>2. CASE t = x
    BY <1>1, <1>2, <1>3, <1>6, <2>2 DEF Behind
  <2> QED BY <2>1, <2>2
<1>7. \A c \in fin : Past(c, tn, hd) /\ \A j \in 1..Len(r) : c # Session(r[j])
  BY <1>1, <1>3 DEF Behind
<1>8. Behind(r, th \cup {x}, fin, tn, hd)
  BY <1>5, <1>6, <1>7 DEF Behind
<1> QED BY <1>8 DEF r, x

LEMMA BehindSteps ==
    ASSUME NEW q, NEW th, NEW fin, NEW tn, NEW hd, Behind(q, th, fin, tn, hd),
           NEW t \in th, NEW place, NEW ok
    PROVE  Behind(q, (th \ {t}) \cup {On(t.work, place, ok)}, fin, tn, hd)
<1> DEFINE x == On(t.work, place, ok)
<1>1. x.work = t.work
  BY DEF On
<1> HIDE DEF x
<1>2. Behind(q, (th \ {t}) \cup {x}, fin, tn, hd)
  BY <1>1 DEF Behind
<1> QED BY <1>2 DEF x

LEMMA BehindLeaves ==
    ASSUME NEW q, NEW th, NEW fin, NEW tn, NEW hd, Behind(q, th, fin, tn, hd),
           NEW t \in th, NEW fin1,
           fin1 = IF t.work.kind = "finish" THEN fin \cup {Session(t.work)} ELSE fin
    PROVE  Behind(q, th \ {t}, fin1, tn, hd)
<1>1. \A c \in fin1 : c \in fin \/ (c = Session(t.work) /\ t.work.kind = "finish")
  OBVIOUS
<1>2. \A c \in fin1 : Past(c, tn, hd) /\ \A j \in 1..Len(q) : c # Session(q[j])
  BY <1>1 DEF Behind
<1> QED BY <1>2 DEF Behind

LEMMA LaterStep ==
    ASSUME Types, SlotInv, TaskInv, [Next]_vars
    PROVE  Later(turn, handler, turn', handler')
<1>1. handler \in [Sockets -> HandlerSet] /\ turn \in [Sockets -> Utterances]
  BY HoldersAreSockets DEF Types
<1>2. ASSUME turn' = turn, Moved(handler, handler') PROVE Later(turn, handler, turn', handler')
  BY <1>2 DEF Later, Moved
<1>3. ASSUME NEW s \in Sockets, NEW x \in {"receiving", "closed", "deciding"}, turn' = turn,
             Moved([handler EXCEPT ![s] = x], handler')
      PROVE  Later(turn, handler, turn', handler')
  BY <1>1, <1>3 DEF Later, Moved
<1>4. ASSUME NEW s \in Sockets, turn' = [turn EXCEPT ![s] = turn[s] + 1],
             \A w \in Sockets \ {s} : handler'[w] = handler[w]
      PROVE  Later(turn, handler, turn', handler')
  BY <1>1, <1>4 DEF Later
<1>5. ASSUME NEW s \in Sockets, FlushSilence(s) \/ FlushSpeech(s)
      PROVE  Later(turn, handler, turn', handler')
  <2>1. /\ turn' = [turn EXCEPT ![s] = turn[s] + 1]
        /\ handler' = handler \/ \E x : handler' = [handler EXCEPT ![s] = x]
    BY <1>5 DEF FlushSilence, FlushSpeech, StartTurn
  <2>2. \A w \in Sockets \ {s} : handler'[w] = handler[w]
    BY <1>1, <2>1
  <2> QED BY <1>4, <2>1, <2>2
<1>6. ASSUME NEW s \in Sockets, Disconnect(s) \/ \E due \in BOOLEAN : Frame(s, due)
      PROVE  Later(turn, handler, turn', handler')
  <2>1. turn' = turn /\ (handler' = handler \/ handler' = [handler EXCEPT ![s] = "closed"])
    BY <1>6 DEF Disconnect, Frame
  <2> QED BY <1>1, <2>1 DEF Later
<1>7. ASSUME Client PROVE Later(turn, handler, turn', handler')
  BY <1>5, <1>6, <1>7 DEF Client
<1>8. ASSUME NEW s \in Sockets, EventLoop(s) PROVE Later(turn, handler, turn', handler')
  <2>1. CASE SlotGranted(s)
    <3>1. turn' = turn /\ Moved([handler EXCEPT ![s] = "deciding"], handler')
      BY <2>1, SlotsAfterGrant DEF SlotGranted
    <3> QED BY <1>3, <3>1
  <2>2. CASE InterimBegins(s)
    <3>1. turn' = turn /\ handler' = handler
      BY <2>2 DEF InterimBegins
    <3> QED BY <1>2, <3>1 DEF Moved
  <2>3. CASE InterimEnds(s) \/ \E text \in BOOLEAN : InterimReturns(s, text)
    <3>1. /\ turn' = turn /\ engine' = engine /\ interim[s].at \in {"deciding", "cancelled"}
          /\ Release(handler) /\ interim' = [interim EXCEPT ![s] = Idle]
      BY <2>3 DEF InterimEnds, InterimReturns, GiveSlotBack
    <3>2. Moved(handler, handler')
      BY <3>1, SlotsAfterInterim
    <3> QED BY <1>2, <3>1, <3>2
  <2>4. ASSUME NEW gone \in BOOLEAN, FinalReturns(s, gone)
        PROVE  Later(turn, handler, turn', handler')
    <3>1. PICK x \in {"receiving", "closed"} :
            /\ handler[s] = "deciding" /\ turn' = turn /\ engine' = engine
            /\ Release([handler EXCEPT ![s] = x])
            /\ interim' = interim \/ interim' = [interim EXCEPT ![s] = Cancel(interim[s])]
      BY <2>4, FinalCases
    <3>2. Moved([handler EXCEPT ![s] = x], handler')
      BY <3>1, SlotsAfterFinal
    <3> QED BY <1>3, <3>1, <3>2
  <2> QED BY <1>8, <2>1, <2>2, <2>3, <2>4 DEF EventLoop
<1>9. ASSUME Takes \/ (\E work \in Works : Thread(work)) \/ UNCHANGED vars
      PROVE  Later(turn, handler, turn', handler')
  <2>1. turn' = turn /\ handler' = handler
    BY <1>9 DEF Takes, Thread, Steps, Stepped, Closes, vars, taskVars
  <2> QED BY <1>2, <2>1 DEF Moved
<1> QED BY <1>7, <1>8, <1>9 DEF Next, Service

LEMMA FinishStep ==
    ASSUME Types, SlotInv, TaskInv, FinishInv, [Next]_vars
    PROVE  FinishInv'
<1>1. /\ pool \in WorkSeqs /\ threads \in SUBSET ThreadSet
      /\ finished \in SUBSET (Sockets \X Utterances) /\ turn \in Turns /\ turn' \in Turns
      /\ handler \in [Sockets -> HandlerSet]
  BY TypesStep, HoldersAreSockets DEF Types, Turns
<1>2. Later(turn, handler, turn', handler') /\ Behind(pool, threads, finished, turn, handler)
  BY LaterStep DEF FinishInv
<1>3. ASSUME UNCHANGED <<pool, threads, finished>> PROVE FinishInv'
  BY <1>1, <1>2, <1>3, BehindStays DEF FinishInv
<1>4. ASSUME NEW w \in Works, ~Past(Session(w), turn, handler),
             w.kind = "finish" => Past(Session(w), turn', handler'),
             pool' = Append(pool, w), UNCHANGED <<threads, finished>>
      PROVE  FinishInv'
  BY <1>1, <1>2, <1>4, BehindAppend DEF FinishInv
<1>5. ASSUME NEW s \in Sockets, FlushSpeech(s) PROVE FinishInv'
  <2>1. UNCHANGED <<threads, finished>> /\ turn' = [turn EXCEPT ![s] = turn[s] + 1]
    BY <1>5 DEF FlushSpeech, StartTurn, sessionVars
  <2>2. CASE Locked
    <3>1. pool' = pool
      BY <1>5, <2>2 DEF FlushSpeech
    <3> QED BY <1>3, <2>1, <3>1
  <2>3. CASE ~Locked
    <3> DEFINE w == Work("finish", s, turn[s])
    <3>1. pool' = Append(pool, w) /\ handler' = [handler EXCEPT ![s] = "deciding"]
      BY <1>5, <2>3 DEF FlushSpeech, Submit
    <3>2. turn[s] \in Utterances /\ turn[s] \in Nat
      BY SocketNumbers
    <3>3. w \in Works /\ Session(w) = <<s, turn[s]>>
      BY <3>2, WorkMade
    <3>4. turn'[s] = turn[s] + 1 /\ handler'[s] = "deciding"
      BY <1>1, <2>1, <3>1 DEF Turns
    <3>5. ~Past(<<s, turn[s]>>, turn, handler)
      BY <3>2 DEF Past
    <3>6. Past(<<s, turn[s]>>, turn', handler')
      BY <3>2, <3>4 DEF Past
    <3> HIDE DEF w
    <3> QED BY <1>4, <2>1, <3>1, <3>3, <3>5, <3>6
  <2> QED BY <2>2, <2>3
<1>6. ASSUME NEW s \in Sockets, SlotGranted(s) PROVE FinishInv'
  <2> DEFINE w == Work("finish", s, turn[s] - 1)
  <2>1. /\ UNCHANGED <<threads, finished, turn>> /\ handler[s] = "woken"
        /\ pool' = Append(pool, w)
    BY <1>6 DEF SlotGranted, Submit, sessionVars
  <2>2. handler'[s] = "deciding"
    <3>1. Moved([handler EXCEPT ![s] = "deciding"], handler')
      BY <1>6, SlotsAfterGrant
    <3> QED BY <1>1, <3>1 DEF Moved
  <2>3. turn[s] - 1 \in Utterances /\ turn[s] \in Nat
    BY <2>1, FinalAnswer, SocketNumbers
  <2>4. w \in Works /\ Session(w) = <<s, turn[s] - 1>>
    BY <2>3, WorkMade
  <2>5. ~Past(<<s, turn[s] - 1>>, turn, handler)
    BY <2>1 DEF Past
  <2>6. Past(<<s, turn[s] - 1>>, turn', handler')
    BY <2>1, <2>2, <2>3 DEF Past
  <2> HIDE DEF w
  <2> QED BY <1>4, <2>1, <2>4, <2>5, <2>6
<1>7. ASSUME NEW s \in Sockets, InterimBegins(s) PROVE FinishInv'
  <2>1. UNCHANGED <<threads, finished>> /\ interim[s].at = "new"
    BY <1>7 DEF InterimBegins, sessionVars
  <2>2. CASE Locked
    <3>1. pool' = pool
      BY <1>7, <2>2 DEF InterimBegins
    <3> QED BY <1>3, <2>1, <3>1
  <2>3. CASE ~Locked
    <3> DEFINE w == Work("advance", s, turn[s])
    <3>1. interim[s].turn = turn[s]
      BY <2>1 DEF TaskInv, SocketOK
    <3>2. pool' = Append(pool, w)
      BY <1>7, <2>3, <3>1 DEF InterimBegins, Submit
    <3>3. turn[s] \in Utterances /\ turn[s] \in Nat
      BY SocketNumbers
    <3>4. w \in Works /\ Session(w) = <<s, turn[s]>> /\ w.kind = "advance"
      BY <3>3, WorkMade
    <3>5. ~Past(<<s, turn[s]>>, turn, handler)
      BY <3>3 DEF Past
    <3> HIDE DEF w
    <3> QED BY <1>4, <2>1, <3>2, <3>4, <3>5
  <2> QED BY <2>2, <2>3
<1>8. ASSUME NEW s \in Sockets, InterimEnds(s) PROVE FinishInv'
  <2>1. UNCHANGED <<threads, finished>> /\ Withdraw(Work("advance", s, interim[s].turn))
    BY <1>8 DEF InterimEnds, sessionVars
  <2>2. CASE pool' = pool
    BY <1>3, <2>1, <2>2
  <2>3. ASSUME NEW k \in 1..Len(pool), pool' = RemoveAt(pool, k) PROVE FinishInv'
    <3>1. Behind(RemoveAt(pool, k), threads, finished, turn, handler) /\ RemoveAt(pool, k) \in WorkSeqs
      BY <1>1, <1>2, BehindRemove, PoolRemove
    <3>2. Behind(RemoveAt(pool, k), threads, finished, turn', handler')
      BY <1>1, <1>2, <3>1, BehindStays
    <3> QED BY <2>1, <2>3, <3>2 DEF FinishInv
  <2> QED BY <2>1, <2>2, <2>3, Withdrawn
<1>9. ASSUME NEW s \in Sockets,
             \/ FlushSilence(s) \/ Disconnect(s) \/ \E due \in BOOLEAN : Frame(s, due)
             \/ (\E gone \in BOOLEAN : FinalReturns(s, gone))
             \/ \E text \in BOOLEAN : InterimReturns(s, text)
      PROVE  FinishInv'
  <2>1. UNCHANGED <<pool, threads, finished>>
    BY <1>9 DEF FlushSilence, Disconnect, Frame, FinalReturns, InterimReturns, workVars, sessionVars
  <2> QED BY <1>3, <2>1
<1>10. CASE Takes
  <2>1. /\ UNCHANGED <<turn, handler, finished>> /\ pool # <<>> /\ pool' = Tail(pool)
        /\ threads' = threads \cup {On(Head(pool), "taken", TRUE)}
    BY <1>10 DEF Takes, taskVars, sessionVars
  <2> QED BY <1>1, <1>2, <2>1, BehindTakes DEF FinishInv
<1>11. ASSUME NEW t \in threads, NEW place, NEW ok, UNCHANGED <<turn, handler, pool, finished>>,
              threads' = (threads \ {t}) \cup {On(t.work, place, ok)}
       PROVE  FinishInv'
  BY <1>2, <1>11, BehindSteps DEF FinishInv
<1>12. ASSUME NEW t \in threads, NEW ok, UNCHANGED <<turn, handler, pool>>, Leave(t, ok)
       PROVE  FinishInv'
  <2>1. /\ threads' = threads \ {t}
        /\ finished' = IF t.work.kind = "finish" THEN finished \cup {Session(t.work)} ELSE finished
    BY <1>12 DEF Leave
  <2> QED BY <1>2, <1>12, <2>1, BehindLeaves DEF FinishInv
<1>13. ASSUME NEW t \in threads, Steps(t) PROVE FinishInv'
  <2>1. /\ UNCHANGED <<turn, handler, pool, finished>>
        /\ threads' = (threads \ {t}) \cup {On(t.work, "stepping", Session(t.work) \notin failed)}
    BY <1>13 DEF Steps, taskVars
  <2> QED BY <1>11, <2>1
<1>14. ASSUME NEW t \in threads, Closes(t) PROVE FinishInv'
  BY <1>12, <1>14 DEF Closes, taskVars
<1>15. ASSUME NEW t \in threads, NEW outcome \in {"ends", "breaks", "lapses"}, Stepped(t, outcome)
       PROVE FinishInv'
  <2>1. /\ UNCHANGED <<turn, handler, pool>>
        /\ \/ Leave(t, t.ok /\ outcome # "breaks")
           \/ /\ threads' = (threads \ {t}) \cup {On(t.work, "closing", t.ok /\ outcome # "breaks")}
              /\ finished' = finished
    BY <1>15 DEF Stepped, taskVars
  <2> QED BY <1>11, <1>12, <2>1
<1>16. CASE UNCHANGED vars
  BY <1>3, <1>16 DEF vars, workVars, sessionVars
<1>17. CASE Client
  BY <1>5, <1>9, <1>17 DEF Client
<1>18. ASSUME NEW s \in Sockets, EventLoop(s) PROVE FinishInv'
  BY <1>6, <1>7, <1>8, <1>9, <1>18 DEF EventLoop
<1>19. ASSUME NEW work \in Works, Thread(work) PROVE FinishInv'
  BY <1>13, <1>14, <1>15, <1>19 DEF Thread
<1> QED BY <1>10, <1>16, <1>17, <1>18, <1>19 DEF Next, Service

LEMMA OnceStep ==
    ASSUME Types, SlotInv, FinishInv, OnceInv, [Next]_vars
    PROVE  OnceInv'
<1>1. ASSUME UNCHANGED <<threads, finished>> PROVE OnceInv'
  BY <1>1 DEF OnceInv
<1>2. CASE Takes
  <2> DEFINE x == On(Head(pool), "taken", TRUE)
  <2>1. finished' = finished /\ pool # <<>> /\ threads' = threads \cup {x}
    BY <1>2 DEF Takes, sessionVars
  <2>2. x.work = pool[1] /\ 1 \in 1..Len(pool)
    BY <2>1, PoolTail DEF On, Types
  <2> HIDE DEF x
  <2>3. /\ \A c \in finished : c # Session(x.work)
        /\ \A t \in threads : t.work.kind = "finish" => Session(t.work) # Session(x.work)
    BY <2>2 DEF FinishInv, Behind
  <2> QED BY <2>1, <2>3 DEF OnceInv
<1>3. ASSUME NEW t \in threads, NEW place, NEW ok, finished' = finished,
             threads' = (threads \ {t}) \cup {On(t.work, place, ok)}
      PROVE  OnceInv'
  <2> DEFINE x == On(t.work, place, ok)
  <2>1. x.work = t.work
    BY DEF On
  <2>2. threads' = (threads \ {t}) \cup {x} /\ finished' = finished
    BY <1>3
  <2> HIDE DEF x
  <2> QED BY <2>1, <2>2 DEF OnceInv
<1>4. ASSUME NEW t \in threads, NEW ok, Leave(t, ok) PROVE OnceInv'
  <2>1. /\ threads' = threads \ {t}
        /\ finished' = IF t.work.kind = "finish" THEN finished \cup {Session(t.work)} ELSE finished
    BY <1>4 DEF Leave
  <2>2. ASSUME NEW o \in threads, o # t, o.work.kind = "finish", t.work.kind = "finish"
        PROVE  Session(o.work) # Session(t.work)
    <3>1. o.work \in Works /\ t.work \in Works
      BY <1>4, <2>2 DEF Types, ThreadSet
    <3>2. o.work # t.work
      BY <2>2 DEF OnceInv
    <3> QED BY <2>2, <3>1, <3>2, WorkParts
  <2> QED BY <1>4, <2>1, <2>2 DEF OnceInv
<1>5. ASSUME NEW t \in threads, Steps(t) PROVE OnceInv'
  <2>1. /\ finished' = finished
        /\ threads' = (threads \ {t}) \cup {On(t.work, "stepping", Session(t.work) \notin failed)}
    BY <1>5 DEF Steps
  <2> QED BY <1>3, <1>5, <2>1
<1>6. ASSUME NEW t \in threads, Closes(t) PROVE OnceInv'
  BY <1>4, <1>6 DEF Closes
<1>7. ASSUME NEW t \in threads, NEW outcome \in {"ends", "breaks", "lapses"}, Stepped(t, outcome)
      PROVE  OnceInv'
  <2> DEFINE ok == t.ok /\ outcome # "breaks"
  <2>1. \/ Leave(t, ok)
        \/ /\ threads' = (threads \ {t}) \cup {On(t.work, "closing", ok)}
           /\ finished' = finished
    BY <1>7 DEF Stepped
  <2> HIDE DEF ok
  <2> QED BY <1>3, <1>4, <1>7, <2>1
<1>8. CASE Client
  <2>1. UNCHANGED <<threads, finished>>
    BY <1>8 DEF Client, Frame, FlushSilence, FlushSpeech, Disconnect, workVars, sessionVars
  <2> QED BY <1>1, <2>1
<1>9. ASSUME NEW s \in Sockets, EventLoop(s) PROVE OnceInv'
  <2>1. UNCHANGED <<threads, finished>>
    BY <1>9 DEF EventLoop, SlotGranted, InterimBegins, InterimEnds, FinalReturns, InterimReturns,
                sessionVars
  <2> QED BY <1>1, <2>1
<1>10. CASE UNCHANGED vars
  BY <1>1, <1>10 DEF vars, workVars, sessionVars
<1> QED BY <1>2, <1>5, <1>6, <1>7, <1>8, <1>9, <1>10 DEF Next, Service, Thread

(* Every step: what was fed before a flush stays, and so does that the     *)
(* model has it and that it was read.  Only the utterance being collected  *)
(* grows; what is read of any never shrinks.                               *)
Settled ==
    /\ engine' = engine /\ lapsed \subseteq lapsed'
    /\ \A s \in Sockets, u \in Utterances :
          /\ fed[s][u] <= fed'[s][u] /\ read[s][u] <= read'[s][u]
          /\ u < turn[s] => fed'[s][u] = fed[s][u]
          /\ taken[s][u] = fed[s][u] /\ u < turn[s] => taken'[s][u] = fed[s][u]
          /\ read[s][u] = fed[s][u] /\ u < turn[s] => read'[s][u] = fed[s][u]

LEMMA SettledStep ==
    ASSUME Types, SlotInv, TaskInv, [Next]_vars
    PROVE  Settled
<1>1. Counts /\ threads \subseteq ThreadSet
  BY DEF Types
<1>2. \A s \in Sockets, u \in Utterances : read[s][u] \in Nat /\ fed[s][u] \in Nat
  BY <1>1, CountNumbers
<1>3. ASSUME UNCHANGED <<engine, fed, taken, read, lapsed>> PROVE Settled
  BY <1>2, <1>3 DEF Settled
<1>4. ASSUME NEW s \in Sockets, NEW due \in BOOLEAN, Frame(s, due) PROVE Settled
  <2>1. /\ fed' = [fed EXCEPT ![s][turn[s]] = fed[s][turn[s]] + 1]
        /\ UNCHANGED <<engine, taken, read, lapsed>>
    BY <1>4 DEF Frame, sessionVars
  <2>2. turn[s] \in Nat /\ turn[s] \in Utterances /\ Utterances \subseteq Nat
    BY SocketNumbers, Numbers
  <2>3. ASSUME NEW w \in Sockets, NEW u \in Utterances
        PROVE  fed[w][u] <= fed'[w][u] /\ (u < turn[w] => fed'[w][u] = fed[w][u])
    <3>1. fed \in FrameCounts
      BY <1>1 DEF Counts
    <3>2. CASE w = s /\ u = turn[s]
      <4>1. fed'[w][u] = fed[w][u] + 1
        BY <2>1, <2>2, <3>1, <3>2 DEF FrameCounts
      <4> QED BY <1>2, <2>2, <3>2, <4>1
    <3>3. CASE ~(w = s /\ u = turn[s])
      <4>1. fed'[w][u] = fed[w][u]
        BY <2>1, <2>2, <3>1, <3>3 DEF FrameCounts
      <4> QED BY <1>2, <4>1
    <3> QED BY <3>2, <3>3
  <2> QED BY <1>2, <2>1, <2>3 DEF Settled
<1>5. ASSUME NEW s \in Sockets,
             FlushSilence(s) \/ FlushSpeech(s) \/ Disconnect(s) \/ EventLoop(s)
      PROVE  Settled
  <2>1. UNCHANGED <<engine, fed, taken, read, lapsed>>
    BY <1>5 DEF FlushSilence, FlushSpeech, Disconnect, EventLoop, SlotGranted, InterimBegins,
                InterimEnds, FinalReturns, InterimReturns, sessionVars
  <2> QED BY <1>3, <2>1
<1>6. CASE Client
  BY <1>4, <1>5, <1>6 DEF Client
<1>7. ASSUME NEW t \in threads,
             \/ Steps(t) \/ Closes(t)
             \/ \E outcome \in {"ends", "breaks", "lapses"} : Stepped(t, outcome)
      PROVE  Settled
  <2>1. /\ UNCHANGED <<engine, fed>> /\ Counts'
        /\ \A s \in Sockets, u \in Utterances :
              /\ taken'[s][u] = taken[s][u] \/ taken'[s][u] = fed[s][u]
              /\ read[s][u] <= read'[s][u] /\ read'[s][u] <= fed[s][u]
    BY <1>7, CountsAfterThread
  <2>2. lapsed \subseteq lapsed'
    BY <1>7 DEF Steps, Closes, Stepped
  <2>3. \A s \in Sockets, u \in Utterances : read'[s][u] \in Nat
    <3>1. \A s \in Sockets, u \in Utterances : read'[s][u] \in Frames
      BY <2>1 DEF Counts, FrameCounts
    <3> QED BY <3>1, Numbers
  <2> QED BY <1>2, <2>1, <2>2, <2>3 DEF Settled
<1>8. CASE Takes \/ UNCHANGED vars
  BY <1>3, <1>8 DEF Takes, taskVars, sessionVars, vars
<1> QED BY <1>5, <1>6, <1>7, <1>8 DEF Next, Service, Thread

LEMMA WholeStays ==
    ASSUME NEW w \in Works, Settled, w.turn < turn[w.socket]
    PROVE  (Whole(w) => Whole(w)') /\ (AllRead(w) => AllRead(w)')
<1>1. w.socket \in Sockets /\ w.turn \in Utterances
  BY WorkParts
<1> QED BY <1>1 DEF Settled, Whole, AllRead

(* What was promised of threads and results stays true of those that stay. *)
LEMMA WholeKept ==
    ASSUME Types, SlotInv, TaskInv, FinishInv, WholeInv, [Next]_vars
    PROVE  /\ \A t \in threads : t.work.kind = "finish" =>
                /\ t.work.turn < turn[t.work.socket] /\ t.work.turn < turn'[t.work.socket]
                /\ t.ok /\ t.at # "taken" => Whole(t.work)'
                /\ t.ok /\ t.at = "closing" => AllRead(t.work)'
           /\ \A r \in results : r.work.kind = "finish" =>
                /\ r.work.turn < turn'[r.work.socket]
                /\ r.ok => AllRead(r.work)'
<1>1. /\ threads \subseteq ThreadSet /\ results \subseteq ResultSet
      /\ turn \in Turns /\ turn' \in Turns
  BY TypesStep DEF Types, Turns
<1>2. Settled
  BY SettledStep
<1>3. \A s \in Sockets : turn[s] \in Nat /\ turn'[s] \in Nat /\ turn[s] <= turn'[s]
  <2>1. \A s \in Sockets : turn[s] \in Nat /\ turn'[s] \in Nat
    BY <1>1, Numbers DEF Turns
  <2>2. \A s \in Sockets : turn'[s] = turn[s] \/ turn'[s] = turn[s] + 1
    BY LaterStep DEF Later
  <2> QED BY <2>1, <2>2
<1>4. ASSUME NEW w \in Works, w.turn < turn[w.socket] PROVE w.turn < turn'[w.socket]
  <2>1. w.socket \in Sockets /\ w.turn \in Nat
    BY WorkParts, Numbers
  <2> QED BY <1>3, <1>4, <2>1
<1>5. ASSUME NEW t \in threads, t.work.kind = "finish"
      PROVE  /\ t.work.turn < turn[t.work.socket] /\ t.work.turn < turn'[t.work.socket]
             /\ t.ok /\ t.at # "taken" => Whole(t.work)'
             /\ t.ok /\ t.at = "closing" => AllRead(t.work)'
  <2>1. t.work \in Works
    BY <1>1 DEF ThreadSet
  <2>2. Past(Session(t.work), turn, handler)
    BY <1>5 DEF FinishInv, Behind
  <2>3. t.work.turn < turn[t.work.socket]
    BY <2>1, <2>2, WorkParts DEF Past
  <2>4. /\ t.ok /\ t.at # "taken" => Whole(t.work)
        /\ t.ok /\ t.at = "closing" => AllRead(t.work)
    BY <1>5 DEF WholeInv, ThreadsWhole
  <2> QED BY <1>2, <1>4, <2>1, <2>3, <2>4, WholeStays
<1>6. ASSUME NEW r \in results, r.work.kind = "finish"
      PROVE  /\ r.work.turn < turn'[r.work.socket]
             /\ r.ok => AllRead(r.work)'
  <2>1. r.work \in Works
    BY <1>1 DEF ResultSet
  <2>2. r.work.turn < turn[r.work.socket] /\ (r.ok => AllRead(r.work))
    BY <1>6 DEF WholeInv, ResultsWhole
  <2> QED BY <1>2, <1>4, <2>1, <2>2, WholeStays
<1> QED BY <1>5, <1>6

LEMMA WorksWholeStep ==
    ASSUME Types, SlotInv, TaskInv, FinishInv, OnceInv, WholeInv, [Next]_vars
    PROVE  ThreadsWhole' /\ ResultsWhole'
<1>1. /\ \A t \in threads : t.work.kind = "finish" =>
            /\ t.work.turn < turn[t.work.socket] /\ t.work.turn < turn'[t.work.socket]
            /\ t.ok /\ t.at # "taken" => Whole(t.work)'
            /\ t.ok /\ t.at = "closing" => AllRead(t.work)'
      /\ \A r \in results : r.work.kind = "finish" =>
            /\ r.work.turn < turn'[r.work.socket]
            /\ r.ok => AllRead(r.work)'
  BY WholeKept
<1>2. ASSUME threads' = threads, results' \subseteq results PROVE ThreadsWhole' /\ ResultsWhole'
  BY <1>1, <1>2 DEF ThreadsWhole, ResultsWhole
<1>3. ASSUME NEW s \in Sockets,
             \/ FlushSilence(s) \/ FlushSpeech(s) \/ Disconnect(s) \/ EventLoop(s)
             \/ \E due \in BOOLEAN : Frame(s, due)
      PROVE  ThreadsWhole' /\ ResultsWhole'
  <2>1. threads' = threads /\ results' \subseteq results
    BY <1>3 DEF FlushSilence, FlushSpeech, Disconnect, Frame, EventLoop, SlotGranted, InterimBegins,
                InterimEnds, FinalReturns, InterimReturns, workVars
  <2> QED BY <1>2, <2>1
<1>4. CASE Takes
  <2>1. results' = results /\ threads' = threads \cup {On(Head(pool), "taken", TRUE)}
    BY <1>4 DEF Takes
  <2>2. On(Head(pool), "taken", TRUE).at = "taken"
    BY DEF On
  <2> QED BY <1>1, <2>1, <2>2 DEF ThreadsWhole, ResultsWhole
<1>5. ASSUME NEW t \in threads, NEW ok, Leave(t, ok),
             t.work.kind = "finish" /\ ok => AllRead(t.work)'
      PROVE  ThreadsWhole' /\ ResultsWhole'
  <2> DEFINE x == [work |-> t.work, ok |-> ok]
  <2>1. threads' \subseteq threads /\ results' \subseteq results \cup {x}
    BY <1>5 DEF Leave
  <2>2. x.work = t.work /\ x.ok = ok
    OBVIOUS
  <2> HIDE DEF x
  <2>5. ASSUME NEW r \in results', r.work.kind = "finish"
        PROVE  r.work.turn < turn'[r.work.socket] /\ (r.ok => AllRead(r.work)')
    <3>1. CASE r = x
      BY <1>1, <1>5, <2>2, <2>5, <3>1 DEF AllRead
    <3>2. CASE r \in results
      BY <1>1, <2>5, <3>2
    <3> QED BY <2>1, <3>1, <3>2
  <2> QED BY <1>1, <2>1, <2>5 DEF ThreadsWhole, ResultsWhole
<1>6. ASSUME NEW t \in threads, Steps(t) PROVE ThreadsWhole' /\ ResultsWhole'
  <2> DEFINE ok == Session(t.work) \notin failed
             x == On(t.work, "stepping", ok)
  <2>1. /\ results' = results /\ fed' = fed /\ threads' = (threads \ {t}) \cup {x}
        /\ ok => TakeAudio(t.work)
    BY <1>6 DEF Steps, taskVars
  <2>2. x.work = t.work /\ x.ok = ok /\ x.at = "stepping"
    BY DEF On
  <2>3. t.work \in Works /\ Counts
    BY <1>6 DEF Types, ThreadSet
  <2>4. ok => Whole(t.work)'
    <3> HIDE DEF ok
    <3> QED BY <2>1, <2>3, TakeFacts DEF Whole
  <2> HIDE DEF x, ok
  <2>6. ASSUME NEW o \in threads', o.work.kind = "finish", o.ok
        PROVE  (o.at # "taken" => Whole(o.work)') /\ (o.at = "closing" => AllRead(o.work)')
    <3>1. CASE o = x
      BY <2>2, <2>4, <2>6, <3>1 DEF Whole
    <3>2. CASE o \in threads
      BY <1>1, <2>6, <3>2
    <3> QED BY <2>1, <3>1, <3>2
  <2> QED BY <1>1, <2>1, <2>6 DEF ThreadsWhole, ResultsWhole
<1>7. ASSUME NEW t \in threads, Closes(t) PROVE ThreadsWhole' /\ ResultsWhole'
  <2>1. Leave(t, t.ok) /\ t.at = "closing"
    BY <1>7 DEF Closes
  <2> QED BY <1>1, <1>5, <1>7, <2>1
<1>8. ASSUME NEW t \in threads, NEW outcome \in {"ends", "breaks", "lapses"}, Stepped(t, outcome)
      PROVE  ThreadsWhole' /\ ResultsWhole'
  <2> DEFINE ok == t.ok /\ outcome # "breaks"
             x == On(t.work, "closing", ok)
  <2>1. /\ t.at = "stepping"
        /\ Leave(t, ok) \/ (threads' = (threads \ {t}) \cup {x} /\ results' = results)
    BY <1>8 DEF Stepped
  <2>2. x.work = t.work /\ x.ok = ok /\ (ok => t.ok)
    BY DEF On
  <2>3. t.work.kind = "finish" /\ ok => AllRead(t.work)'
    <3> SUFFICES ASSUME t.work.kind = "finish", ok PROVE AllRead(t.work)'
      OBVIOUS
    <3>1. Whole(t.work)'
      BY <1>1, <1>8, <2>1, <2>2
    <3>2. CASE outcome = "lapses"
      <4>1. engine = "remote" /\ engine' = engine /\ lapsed' = lapsed \cup {Session(t.work)}
        BY <1>8, <3>2 DEF Stepped
      <4> QED BY <4>1 DEF AllRead, Session
    <3>3. CASE outcome = "ends"
      <4>1. Reads(t.work, TRUE)
        BY <1>8, <3>3 DEF Stepped
      <4>2. Session(t.work) \notin finished /\ t.work \in Works /\ Counts
        BY <1>8 DEF OnceInv, Types, ThreadSet
      <4>3. taken' = taken \/ TakeAudio(t.work)
        BY <1>8 DEF Stepped
      <4>4. /\ taken' \in FrameCounts
            /\ \A s \in Sockets, u \in Utterances : taken[s][u] <= taken'[s][u]
        BY <4>2, <4>3, TakeFacts
      <4>5. read'[t.work.socket][t.work.turn] = taken'[t.work.socket][t.work.turn]
        BY <4>1, <4>2, <4>4, ReadsFacts
      <4> QED BY <3>1, <4>5 DEF Whole, AllRead
    <3> QED BY <1>8, <3>2, <3>3
  <2> HIDE DEF x, ok
  <2>4. CASE Leave(t, ok)
    BY <1>5, <1>8, <2>3, <2>4
  <2>5. CASE threads' = (threads \ {t}) \cup {x} /\ results' = results
    <3>1. t.work.kind = "finish" /\ ok => Whole(t.work)' /\ AllRead(t.work)'
      BY <1>1, <1>8, <2>1, <2>2, <2>3
    <3>3. ASSUME NEW o \in threads', o.work.kind = "finish", o.ok
          PROVE  (o.at # "taken" => Whole(o.work)') /\ (o.at = "closing" => AllRead(o.work)')
      <4>1. CASE o = x
        BY <2>2, <3>1, <3>3, <4>1 DEF Whole, AllRead
      <4>2. CASE o \in threads
        BY <1>1, <3>3, <4>2
      <4> QED BY <2>5, <4>1, <4>2
    <3> QED BY <1>1, <2>5, <3>3 DEF ThreadsWhole, ResultsWhole
  <2> QED BY <2>1, <2>4, <2>5
<1>9. CASE UNCHANGED vars
  BY <1>2, <1>9 DEF vars, workVars
<1> QED BY <1>3, <1>4, <1>6, <1>7, <1>8, <1>9 DEF Next, Service, Client, Thread

LEMMA SentWholeStep ==
    ASSUME Types, SlotInv, TaskInv, FinishInv, WholeInv, [Next]_vars
    PROVE  SentWhole'
<1>1. sent \in [Sockets -> MessageSet] /\ Counts /\ Counts' /\ Settled
  BY TypesStep, SettledStep DEF Types
<1>2. ASSUME NEW s \in Sockets, NEW message, message = sent[s], message.final
      PROVE  AnswersWith(s, message.turn, message.text)'
  <2>1. sent[s].turn = answers[s] /\ answers[s] <= turn[s] - 1
    BY <1>2 DEF TaskInv, SocketOK
  <2>2. sent[s].turn \in Utterances /\ turn[s] \in Nat /\ answers[s] \in Nat
    BY <1>1, SocketNumbers DEF MessageSet
  <2>3. sent[s].turn < turn[s]
    BY <2>1, <2>2
  <2>4. fed'[s][sent[s].turn] = fed[s][sent[s].turn] /\ engine' = engine /\ lapsed \subseteq lapsed'
    BY <1>1, <2>2, <2>3 DEF Settled
  <2>5. AnswersWith(s, sent[s].turn, sent[s].text)
    BY <1>2 DEF WholeInv, SentWhole
  <2> QED BY <1>2, <2>4, <2>5 DEF AnswersWith
<1>3. ASSUME sent' = sent PROVE SentWhole'
  BY <1>2, <1>3 DEF SentWhole, AnswersWith
<1>4. ASSUME NEW s \in Sockets, NEW message, sent' = [sent EXCEPT ![s] = message],
             message.final => AnswersWith(s, message.turn, message.text)'
      PROVE  SentWhole'
  <2> SUFFICES ASSUME NEW w \in Sockets, sent'[w].final
               PROVE  AnswersWith(w, sent[w].turn, sent[w].text)'
    BY DEF SentWhole
  <2>1. CASE w = s
    <3>1. sent'[w] = message
      BY <1>1, <1>4, <2>1
    <3> QED BY <1>4, <2>1, <3>1 DEF AnswersWith
  <2>2. CASE w # s
    <3>1. sent'[w] = sent[w]
      BY <1>1, <1>4, <2>2
    <3> QED BY <1>2, <3>1 DEF AnswersWith
  <2> QED BY <2>1, <2>2
<1>5. ASSUME NEW s \in Sockets, FlushSilence(s) PROVE SentWhole'
  <2>1. fed[s][turn[s]] = 0 /\ fed' = fed /\ Send(s, Final(NoText, turn[s]))
    BY <1>5 DEF FlushSilence
  <2>2. sent' = [sent EXCEPT ![s] = Final(NoText, turn[s])]
    BY <2>1 DEF Send
  <2>3. \A e : Lost(e, 0) = 0
    BY WhisperAssumption DEF Lost
  <2>4. \A message : message = Final(NoText, turn[s]) =>
            AnswersWith(s, message.turn, message.text)'
    BY <2>1, <2>3 DEF Final, NoText, Text, AnswersWith
  <2> QED BY <1>4, <2>2, <2>4
<1>6. ASSUME NEW s \in Sockets, NEW gone \in BOOLEAN, FinalReturns(s, gone) PROVE SentWhole'
  <2>1. PICK r \in results :
          /\ r.work = Work("finish", s, turn[s] - 1) /\ UNCHANGED <<engine, fed, lapsed>>
          /\ handler[s] = "deciding"
          /\ \/ UNCHANGED sentVars
             \/ r.ok /\ Send(s, Final(Heard(s, turn[s] - 1), turn[s] - 1))
    BY <1>6, FinalCases DEF sessionVars
  <2>2. CASE UNCHANGED sentVars
    BY <1>3, <2>2 DEF sentVars
  <2>3. CASE r.ok /\ Send(s, Final(Heard(s, turn[s] - 1), turn[s] - 1))
    <3> DEFINE u == turn[s] - 1
               message == Final(Heard(s, u), u)
    <3>1. sent' = [sent EXCEPT ![s] = message]
      BY <2>3 DEF Send
    <3>2. r.work.kind = "finish" /\ r.work.socket = s /\ r.work.turn = u
      BY <2>1 DEF Work
    <3>3. AllRead(r.work)
      BY <2>3, <3>2 DEF WholeInv, ResultsWhole
    <3>4. u \in Utterances
      BY <2>1, FinalAnswer
    <3> HIDE DEF u
    <3>5. Heard(s, u).since = dropped[s][u] /\ Heard(s, u).upto = read[s][u]
      BY <3>4, HeardIsText
    <3>6. dropped[s][u] = Lost(engine, fed[s][u])
      BY <1>1, <3>4, CountNumbers
    <3>7. read[s][u] = fed[s][u] \/ (engine = "remote" /\ <<s, u>> \in lapsed)
      BY <3>2, <3>3 DEF AllRead
    <3>8. message.turn = u /\ message.text.since = Lost(engine, fed[s][u])
          /\ message.text.upto = read[s][u]
      BY <3>5, <3>6 DEF Final
    <3> HIDE DEF message
    <3>9. \A m : m = message => AnswersWith(s, m.turn, m.text)'
      BY <2>1, <3>7, <3>8 DEF AnswersWith
    <3> QED BY <1>4, <3>1, <3>9
  <2> QED BY <2>1, <2>2, <2>3
<1>7. ASSUME NEW s \in Sockets, NEW text \in BOOLEAN, InterimReturns(s, text) PROVE SentWhole'
  <2>1. PICK u : Send(s, Interim(Transcribed(s), u)) \/ sent' = sent
    BY <1>7 DEF InterimReturns, sentVars
  <2>2. CASE Send(s, Interim(Transcribed(s), u))
    <3> DEFINE message == Interim(Transcribed(s), u)
    <3>1. sent' = [sent EXCEPT ![s] = message] /\ ~message.final
      BY <2>2 DEF Send, Interim
    <3> HIDE DEF message
    <3> QED BY <1>4, <3>1
  <2> QED BY <1>3, <2>1, <2>2
<1>8. ASSUME NEW s \in Sockets,
             \/ FlushSpeech(s) \/ Disconnect(s) \/ SlotGranted(s) \/ InterimBegins(s) \/ InterimEnds(s)
             \/ \E due \in BOOLEAN : Frame(s, due)
      PROVE  SentWhole'
  BY <1>3, <1>8 DEF FlushSpeech, Disconnect, SlotGranted, InterimBegins, InterimEnds, Frame, sentVars
<1>9. CASE Takes \/ (\E work \in Works : Thread(work)) \/ UNCHANGED vars
  BY <1>3, <1>9 DEF Takes, Thread, Steps, Stepped, Closes, vars, sentVars
<1> QED BY <1>5, <1>6, <1>7, <1>8, <1>9 DEF Next, Service, Client, EventLoop

LEMMA ThreadStep ==
    ASSUME Types, SlotInv, FinishInv, ThreadInv, [Next]_vars
    PROVE  ThreadInv'
<1>1. /\ IsFiniteSet(threads) /\ Cardinality(threads) <= Threads(engine)
      /\ engine = "local" => \A t \in threads : Session(t.work) \notin finished
  BY DEF ThreadInv
<1>2. Threads(engine) \in Nat /\ Cardinality(threads) \in Nat
      /\ (engine = "local" => Threads(engine) = 1)
  BY <1>1, ThreadsPositive, FS_CardinalityType DEF Threads
<1>3. ASSUME UNCHANGED <<engine, threads, finished>> PROVE ThreadInv'
  BY <1>1, <1>3 DEF ThreadInv
<1>4. CASE Takes
  <2> DEFINE x == On(Head(pool), "taken", TRUE)
  <2>1. /\ UNCHANGED <<engine, finished>> /\ pool # <<>>
        /\ threads' = threads \cup {x} /\ Cardinality(threads) < Threads(engine)
    BY <1>4 DEF Takes, sessionVars
  <2>2. IsFiniteSet(threads') /\ Cardinality(threads') <= Cardinality(threads) + 1
    <3> HIDE DEF x
    <3> QED BY <1>1, <1>2, <2>1, FS_AddElement
  <2>3. Session(x.work) \notin finished
    <3>1. x.work = pool[1] /\ 1 \in 1..Len(pool)
      BY <2>1, PoolTail DEF On, Types
    <3> QED BY <3>1 DEF FinishInv, Behind
  <2> HIDE DEF x
  <2>4. Cardinality(threads') <= Threads(engine)
    <3>1. Cardinality(threads') \in Nat
      BY <2>2, FS_CardinalityType
    <3> QED BY <1>2, <2>1, <2>2, <3>1
  <2> QED BY <1>1, <2>1, <2>2, <2>3, <2>4 DEF ThreadInv
<1>5. ASSUME NEW t \in threads, NEW place, NEW ok, UNCHANGED <<engine, finished>>,
             threads' = (threads \ {t}) \cup {On(t.work, place, ok)}
      PROVE  ThreadInv'
  <2> DEFINE x == On(t.work, place, ok)
  <2>1. x.work = t.work
    BY DEF On
  <2> HIDE DEF x
  <2>2. IsFiniteSet(threads \ {t}) /\ Cardinality(threads \ {t}) = Cardinality(threads) - 1
    BY <1>1, <1>5, FS_RemoveElement
  <2>3. /\ IsFiniteSet((threads \ {t}) \cup {x})
        /\ Cardinality((threads \ {t}) \cup {x}) <= Cardinality(threads \ {t}) + 1
    <3> DEFINE rest == threads \ {t}
    <3>1. IsFiniteSet(rest) /\ Cardinality(rest) \in Nat
      BY <2>2, FS_CardinalityType
    <3> HIDE DEF rest
    <3>2. IsFiniteSet(rest \cup {x}) /\ Cardinality(rest \cup {x}) <= Cardinality(rest) + 1
      BY <3>1, FS_AddElement
    <3> QED BY <3>2 DEF rest
  <2>4. IsFiniteSet(threads') /\ Cardinality(threads') <= Cardinality(threads)
    <3>1. threads' = (threads \ {t}) \cup {x}
      BY <1>5 DEF x
    <3>2. Cardinality((threads \ {t}) \cup {x}) \in Nat
      BY <2>3, FS_CardinalityType
    <3> QED BY <1>2, <2>2, <2>3, <3>1, <3>2
  <2>5. Cardinality(threads') <= Threads(engine)
    <3>1. Cardinality(threads') \in Nat
      BY <2>4, FS_CardinalityType
    <3> QED BY <1>1, <1>2, <2>4, <3>1
  <2>6. engine' = "local" => \A w \in threads' : Session(w.work) \notin finished'
    BY <1>1, <1>5, <2>1 DEF x
  <2> QED BY <1>5, <2>4, <2>5, <2>6 DEF ThreadInv
<1>6. ASSUME NEW t \in threads, NEW ok, engine' = engine, Leave(t, ok) PROVE ThreadInv'
  <2>1. threads' = threads \ {t}
    BY <1>6 DEF Leave
  <2>2. IsFiniteSet(threads') /\ Cardinality(threads') = Cardinality(threads) - 1
    BY <1>1, <1>6, <2>1, FS_RemoveElement
  <2>3. engine = "local" => threads' = {}
    <3> SUFFICES ASSUME engine = "local" PROVE threads' = {}
      OBVIOUS
    <3>1. Cardinality(threads') = 0
      <4>1. Cardinality(threads') \in Nat
        BY <2>2, FS_CardinalityType
      <4> QED BY <1>1, <1>2, <2>2, <4>1
    <3> QED BY <2>2, <3>1, FS_EmptySet
  <2>4. Cardinality(threads') <= Threads(engine)
    BY <1>1, <1>2, <2>2
  <2> QED BY <1>6, <2>2, <2>3, <2>4 DEF ThreadInv
<1>7. ASSUME NEW t \in threads, Steps(t) PROVE ThreadInv'
  <2>1. /\ UNCHANGED <<engine, finished>>
        /\ threads' = (threads \ {t}) \cup {On(t.work, "stepping", Session(t.work) \notin failed)}
    BY <1>7 DEF Steps
  <2> QED BY <1>5, <2>1
<1>8. ASSUME NEW t \in threads, Closes(t) PROVE ThreadInv'
  BY <1>6, <1>8 DEF Closes
<1>9. ASSUME NEW t \in threads, NEW outcome \in {"ends", "breaks", "lapses"}, Stepped(t, outcome)
      PROVE ThreadInv'
  <2>1. /\ engine' = engine
        /\ \/ Leave(t, t.ok /\ outcome # "breaks")
           \/ /\ threads' = (threads \ {t}) \cup {On(t.work, "closing", t.ok /\ outcome # "breaks")}
              /\ finished' = finished
    BY <1>9 DEF Stepped
  <2> QED BY <1>5, <1>6, <2>1
<1>10. CASE Client
  <2>1. UNCHANGED <<engine, threads, finished>>
    BY <1>10 DEF Client, Frame, FlushSilence, FlushSpeech, Disconnect, workVars, sessionVars
  <2> QED BY <1>3, <2>1
<1>11. ASSUME NEW s \in Sockets, EventLoop(s) PROVE ThreadInv'
  <2>1. UNCHANGED <<engine, threads, finished>>
    BY <1>11 DEF EventLoop, SlotGranted, InterimBegins, InterimEnds, FinalReturns, InterimReturns,
                 sessionVars
  <2> QED BY <1>3, <2>1
<1>12. CASE UNCHANGED vars
  BY <1>3, <1>12 DEF vars, workVars, sessionVars
<1> QED BY <1>4, <1>7, <1>8, <1>9, <1>10, <1>11, <1>12 DEF Next, Service, Thread

LEMMA FinishesHold == Spec => [](FinishInv /\ OnceInv /\ WholeInv /\ ThreadInv)
<1>1. ASSUME Init PROVE FinishInv /\ OnceInv /\ WholeInv /\ ThreadInv
  <2>1. Len(<<>>) = 0
    BY EmptySeq
  <2>2. FinishInv /\ OnceInv
    BY <1>1, <2>1 DEF Init, FinishInv, Behind, OnceInv
  <2>3. WholeInv
    BY <1>1 DEF Init, WholeInv, ThreadsWhole, ResultsWhole, SentWhole, Interim
  <2>4. IsFiniteSet({}) /\ Cardinality({}) = 0 /\ Threads(engine) \in Nat
    BY FS_EmptySet, ThreadsPositive
  <2>5. ThreadInv
    BY <1>1, <2>4 DEF Init, ThreadInv
  <2> QED BY <2>2, <2>3, <2>5
<1>2. ASSUME Types, SlotInv, TaskInv, FinishInv, OnceInv, WholeInv, [Next]_vars PROVE WholeInv'
  BY <1>2, WorksWholeStep, SentWholeStep DEF WholeInv
<1> QED BY <1>1, <1>2, FinishStep, OnceStep, ThreadStep, SocketsAgree, PTL DEF Spec

(* A flush is answered exactly once, in the order of the flushes, and no   *)
(* interim comes after it, whatever thread an interim was on when it was   *)
(* cancelled and whatever server broke.  The answer is of all the audio    *)
(* before the flush but what a buffer of 30 s had to drop, and but what a  *)
(* remote server had not said in time; a local engine steps one session at *)
(* a time and none after its finish.                                       *)
THEOREM FlushesAreAnsweredWhole == Spec => []AnswersFaithful
<1>1. ASSUME Types, SlotInv, TaskInv, FinishInv, WholeInv, ThreadInv PROVE AnswersFaithful
  <2>1. AnswersInOrder
    BY <1>1 DEF AnswersInOrder, TaskInv, SocketOK
  <2>2. FinalIsWhole
    BY <1>1 DEF FinalIsWhole, WholeInv, SentWhole, AnswersWith, Lost
  <2>3. LocalStepsInOrder
    <3> SUFFICES ASSUME engine = "local"
                 PROVE  LET stepping == {t \in threads : t.at = "stepping"} IN
                        Cardinality(stepping) <= 1 /\ \A t \in stepping : Session(t.work) \notin finished
      BY DEF LocalStepsInOrder
    <3> DEFINE stepping == {t \in threads : t.at = "stepping"}
    <3>1. IsFiniteSet(threads) /\ Cardinality(threads) <= 1
      BY <1>1 DEF ThreadInv, Threads
    <3>2. stepping \in SUBSET threads
      OBVIOUS
    <3>3. /\ IsFiniteSet(stepping) /\ Cardinality(stepping) <= Cardinality(threads)
      BY <3>1, <3>2, FS_Subset
    <3>4. Cardinality(stepping) \in Nat /\ Cardinality(threads) \in Nat
      BY <3>1, <3>3, FS_CardinalityType
    <3>5. \A t \in stepping : Session(t.work) \notin finished
      BY <1>1 DEF ThreadInv
    <3> HIDE DEF stepping
    <3>6. Cardinality(stepping) <= 1
      BY <3>1, <3>3, <3>4
    <3> QED BY <3>5, <3>6 DEF stepping
  <2> QED BY <2>1, <2>2, <2>3 DEF AnswersFaithful
<1> QED BY <1>1, SocketsAgree, FinishesHold, PTL

-----------------------------------------------------------------------------
(* Part 4: what has been said is not taken back.  What was said of the     *)
(* open utterance was read of it, or is of a copy of its audio, and the    *)
(* copy an interim will speak of is of no less.                            *)
Available(s, u) == IF engine = "buffered" THEN fed[s][u] ELSE read[s][u]

SaidOf(s) == ~sent[s].final => sent[s].text.upto <= Available(s, sent[s].turn)
CopyOf(s) == engine = "buffered" /\ interim[s].at \in {"new", "deciding"} =>
    /\ interim[s].audio.upto <= fed[s][interim[s].turn]
    /\ ~sent[s].final => sent[s].text.upto <= interim[s].audio.upto

SaidInv == \A s \in Sockets : SaidOf(s) /\ CopyOf(s)

LEMMA SaidNumbers ==
    ASSUME Types, SlotInv, TaskInv, NEW s \in Sockets
    PROVE  /\ sent[s].text.upto \in Nat /\ sent[s].turn \in Utterances
           /\ interim[s].audio.upto \in Nat
           /\ handler[s] = "receiving" /\ ~sent[s].final => sent[s].turn = turn[s]
           /\ handler[s] = "receiving" /\ sent[s].final => sent[s].turn # turn[s]
           /\ interim[s].at \in {"new", "deciding"} =>
                 interim[s].turn = turn[s] /\ handler[s] = "receiving"
<1>1. sent[s] \in MessageSet /\ interim[s] \in InterimSet
  BY HoldersAreSockets DEF Types
<1>2. sent[s].text \in Texts /\ interim[s].audio \in Texts /\ sent[s].turn \in Utterances
  BY <1>1 DEF MessageSet, InterimSet
<1>3. sent[s].text.upto \in Frames /\ interim[s].audio.upto \in Frames
  BY <1>2 DEF Texts
<1>4. sent[s].text.upto \in Nat /\ interim[s].audio.upto \in Nat
  BY <1>3, Numbers
<1>5. turn[s] \in Nat /\ answers[s] \in Nat
  BY SocketNumbers
<1>6. SocketOK(handler[s], turn[s], interim[s], sent[s], answers[s])
  BY DEF TaskInv
<1> QED BY <1>2, <1>4, <1>5, <1>6 DEF SocketOK

LEMMA AvailableGrows ==
    ASSUME Types, Types', Settled, NEW s \in Sockets, NEW u \in Utterances
    PROVE  /\ Available(s, u) \in Nat /\ Available(s, u)' \in Nat
           /\ Available(s, u) <= Available(s, u)'
           /\ fed[s][u] \in Nat /\ fed'[s][u] \in Nat /\ fed[s][u] <= fed'[s][u]
<1>1. fed[s][u] \in Nat /\ read[s][u] \in Nat
  BY CountNumbers DEF Types
<1>2. fed'[s][u] \in Frames /\ read'[s][u] \in Frames
  BY DEF Types, Counts, FrameCounts
<1>3. fed'[s][u] \in Nat /\ read'[s][u] \in Nat
  BY <1>2, Numbers
<1> QED BY <1>1, <1>3 DEF Settled, Available

(* A socket to which nothing is sent and whose interim is not started      *)
(* keeps what it promises.                                                 *)
LEMMA SaidStays ==
    ASSUME Types, Types', SlotInv, TaskInv, Settled, NEW s \in Sockets, SaidOf(s), CopyOf(s),
           sent'[s] = sent[s],
           interim'[s].at \in {"new", "deciding"} =>
              /\ interim[s].at \in {"new", "deciding"}
              /\ interim'[s].turn = interim[s].turn /\ interim'[s].audio = interim[s].audio
    PROVE  SaidOf(s)' /\ CopyOf(s)'
<1>1. engine' = engine
  BY DEF Settled
<1>2. sent[s].text.upto \in Nat /\ sent[s].turn \in Utterances /\ interim[s].audio.upto \in Nat
  BY SaidNumbers
<1>3. SaidOf(s)'
  <2> SUFFICES ASSUME NEW u \in Utterances, u = sent[s].turn PROVE SaidOf(s)'
    BY <1>2
  <2>1. /\ Available(s, u) \in Nat /\ Available(s, u)' \in Nat
        /\ Available(s, u) <= Available(s, u)'
    BY <1>2, AvailableGrows
  <2>2. ~sent[s].final => sent[s].text.upto <= Available(s, u)
    BY DEF SaidOf
  <2>3. ~sent[s].final => sent[s].text.upto <= Available(s, u)'
    BY <1>2, <2>1, <2>2
  <2> QED BY <2>3 DEF SaidOf, Available
<1>4. CopyOf(s)'
  <2> SUFFICES ASSUME engine = "buffered", interim'[s].at \in {"new", "deciding"}
               PROVE  /\ interim'[s].audio.upto <= fed'[s][interim'[s].turn]
                      /\ ~sent'[s].final => sent'[s].text.upto <= interim'[s].audio.upto
    BY <1>1 DEF CopyOf
  <2>1. /\ interim[s].audio.upto <= fed[s][interim[s].turn]
        /\ ~sent[s].final => sent[s].text.upto <= interim[s].audio.upto
    BY DEF CopyOf
  <2>2. interim[s].turn \in Utterances
    BY SaidNumbers, SocketNumbers
  <2>3. /\ fed[s][interim[s].turn] \in Nat /\ fed'[s][interim[s].turn] \in Nat
        /\ fed[s][interim[s].turn] <= fed'[s][interim[s].turn]
    BY <2>2, AvailableGrows
  <2> QED BY <1>2, <2>1, <2>3
<1> QED BY <1>3, <1>4

(* What a step does to one socket: nothing is sent, or what is sent of the *)
(* same utterance is of no less.                                           *)
Kept(s) == sent'[s].turn = sent[s].turn => sent'[s].text.upto >= sent[s].text.upto

LEMMA SaidStep ==
    ASSUME Types, SlotInv, TaskInv, WholeInv, SaidInv, [Next]_vars
    PROVE  SaidInv' /\ \A s \in Sockets : Kept(s)
<1> SUFFICES ASSUME NEW w \in Sockets PROVE SaidOf(w)' /\ CopyOf(w)' /\ Kept(w)
  BY DEF SaidInv
<1>1. Types' /\ Settled /\ SaidOf(w) /\ CopyOf(w)
  BY TypesStep, SettledStep DEF SaidInv
<1>2. /\ sent \in [Sockets -> MessageSet] /\ answers \in [Sockets -> Nat]
      /\ interim \in [Sockets -> InterimSet] /\ Counts
  BY HoldersAreSockets DEF Types
<1>3. /\ sent[w].text.upto \in Nat /\ sent[w].turn \in Utterances
      /\ turn[w] \in Utterances /\ turn[w] \in Nat
  BY SaidNumbers, SocketNumbers
<1>4. ASSUME sent'[w] = sent[w],
             interim'[w].at \in {"new", "deciding"} =>
                /\ interim[w].at \in {"new", "deciding"}
                /\ interim'[w].turn = interim[w].turn /\ interim'[w].audio = interim[w].audio
      PROVE  SaidOf(w)' /\ CopyOf(w)' /\ Kept(w)
  BY <1>1, <1>3, <1>4, SaidStays DEF Kept
<1>5. ASSUME NEW s \in Sockets, interim' = [interim EXCEPT ![s] = Cancel(interim[s])]
      PROVE  interim'[w].at \in {"new", "deciding"} => interim'[w] = interim[w]
  <2>1. Cancel(interim[s]).at \notin {"new", "deciding"}
    BY <1>2, CancelFacts
  <2> QED BY <1>2, <1>5, <2>1
<1>6. ASSUME NEW message, sent' = [sent EXCEPT ![w] = message], message.final,
             interim'[w].at \notin {"new", "deciding"},
             message.turn = sent[w].turn => message.text.upto >= sent[w].text.upto
      PROVE  SaidOf(w)' /\ CopyOf(w)' /\ Kept(w)
  <2>1. sent'[w] = message
    BY <1>2, <1>6
  <2> QED BY <1>6, <2>1 DEF SaidOf, CopyOf, Kept
<1>7. ASSUME NEW s \in Sockets, FlushSilence(s) PROVE SaidOf(w)' /\ CopyOf(w)' /\ Kept(w)
  <2> DEFINE message == Final(NoText, turn[s])
  <2>1. /\ handler[s] = "receiving" /\ fed[s][turn[s]] = 0
        /\ sent' = [sent EXCEPT ![s] = message]
        /\ interim' = [interim EXCEPT ![s] = Cancel(interim[s])]
    BY <1>7 DEF FlushSilence, StartTurn, Send
  <2>2. message.final /\ message.turn = turn[s] /\ message.text.upto = 0
    BY DEF Final, NoText, Text
  <2> HIDE DEF message
  <2>3. CASE w # s
    BY <1>2, <1>4, <1>5, <2>1, <2>3
  <2>4. CASE w = s
    <3>1. interim'[w].at \notin {"new", "deciding"}
      BY <1>2, <2>1, <2>4, CancelFacts
    <3>2. ASSUME message.turn = sent[w].turn PROVE sent[w].text.upto = 0
      <4>1. ~sent[w].final /\ sent[w].turn = turn[w]
        BY <2>1, <2>2, <2>4, <3>2, SaidNumbers
      <4>2. read[w][turn[w]] \in Nat /\ read[w][turn[w]] <= 0
        BY <1>2, <1>3, <2>1, <2>4, CountNumbers
      <4>3. sent[w].text.upto <= Available(w, turn[w])
        BY <1>1, <4>1 DEF SaidOf
      <4>4. Available(w, turn[w]) = 0
        BY <2>1, <2>4, <4>2 DEF Available
      <4> QED BY <1>3, <4>3, <4>4
    <3>3. message.turn = sent[w].turn => message.text.upto >= sent[w].text.upto
      BY <2>2, <3>2
    <3>4. sent' = [sent EXCEPT ![w] = message] /\ message.final
      BY <2>1, <2>2, <2>4
    <3> QED BY <1>6, <3>1, <3>3, <3>4
  <2> QED BY <2>3, <2>4
<1>8. ASSUME NEW s \in Sockets, NEW due \in BOOLEAN, Frame(s, due)
      PROVE  SaidOf(w)' /\ CopyOf(w)' /\ Kept(w)
  <2>1. sent' = sent /\ handler[s] = "receiving" /\ engine' = engine
    BY <1>8 DEF Frame, sentVars
  <2>2. CASE w # s \/ ~due
    <3>1. interim'[w] = interim[w]
      BY <1>2, <1>8, <2>2 DEF Frame
    <3> QED BY <1>4, <2>1, <3>1
  <2>3. CASE w = s /\ due
    <3> DEFINE x == [at |-> "new", turn |-> turn[s],
                     audio |-> Text(dropped'[s][turn[s]], fed'[s][turn[s]])]
    <3>1. interim' = [interim EXCEPT ![s] = x]
      BY <1>8, <2>3 DEF Frame
    <3>2. interim'[w] = x
      BY <1>2, <2>3, <3>1
    <3>3. x.turn = turn[w] /\ x.audio.upto = fed'[w][turn[w]]
      BY <2>3 DEF Text
    <3> HIDE DEF x
    <3>4. /\ fed[w][turn[w]] \in Nat /\ fed'[w][turn[w]] \in Nat
          /\ fed[w][turn[w]] <= fed'[w][turn[w]]
      BY <1>1, <1>3, AvailableGrows
    <3>5. interim[w] = Idle
      BY <1>8, <2>3 DEF Frame
    <3>6. SaidOf(w)'
      <4> SUFFICES ASSUME NEW u \in Utterances, u = sent[w].turn PROVE SaidOf(w)'
        BY <1>3
      <4>1. Available(w, u) <= Available(w, u)' /\ Available(w, u) \in Nat /\ Available(w, u)' \in Nat
        BY <1>1, <1>3, AvailableGrows
      <4>2. ~sent[w].final => sent[w].text.upto <= Available(w, u)
        BY <1>1 DEF SaidOf
      <4>3. ~sent[w].final => sent[w].text.upto <= Available(w, u)'
        BY <1>3, <4>1, <4>2
      <4> QED BY <2>1, <4>3 DEF SaidOf, Available
    <3>7. CopyOf(w)'
      <4> SUFFICES ASSUME engine = "buffered"
                   PROVE  /\ x.audio.upto <= fed'[w][x.turn]
                          /\ ~sent[w].final => sent[w].text.upto <= x.audio.upto
        BY <2>1, <3>2 DEF CopyOf
      <4>1. x.audio.upto <= fed'[w][x.turn]
        BY <3>3, <3>4
      <4>2. ASSUME ~sent[w].final PROVE sent[w].text.upto <= x.audio.upto
        <5>1. sent[w].turn = turn[w]
          BY <2>1, <2>3, <4>2, SaidNumbers
        <5>2. sent[w].text.upto <= fed[w][turn[w]]
          BY <1>1, <4>2, <5>1 DEF SaidOf, Available
        <5> QED BY <1>3, <3>3, <3>4, <5>2
      <4> QED BY <4>1, <4>2
    <3>8. Kept(w)
      BY <1>3, <2>1 DEF Kept
    <3> QED BY <3>6, <3>7, <3>8
  <2> QED BY <2>2, <2>3
<1>9. ASSUME NEW s \in Sockets, NEW gone \in BOOLEAN, FinalReturns(s, gone)
      PROVE  SaidOf(w)' /\ CopyOf(w)' /\ Kept(w)
  <2>1. PICK r \in results :
          /\ handler[s] = "deciding" /\ r.work = Work("finish", s, turn[s] - 1)
          /\ \/ interim' = [interim EXCEPT ![s] = Cancel(interim[s])] /\ UNCHANGED sentVars
             \/ /\ r.ok /\ interim' = interim
                /\ Send(s, Final(Heard(s, turn[s] - 1), turn[s] - 1))
    BY <1>9, FinalCases
  <2>2. CASE interim' = [interim EXCEPT ![s] = Cancel(interim[s])] /\ UNCHANGED sentVars
    BY <1>4, <1>5, <2>2 DEF sentVars
  <2>3. CASE /\ r.ok /\ interim' = interim
             /\ Send(s, Final(Heard(s, turn[s] - 1), turn[s] - 1))
    <3> DEFINE u == turn[s] - 1
               message == Final(Heard(s, u), u)
    <3>1. sent' = [sent EXCEPT ![s] = message] /\ message.final /\ message.turn = u
          /\ message.text = Heard(s, u)
      BY <2>3 DEF Send, Final
    <3>2. u \in Utterances /\ r.work.kind = "finish" /\ r.work.socket = s /\ r.work.turn = u
      BY <2>1, FinalAnswer DEF Work
    <3> HIDE DEF message, u
    <3>3. message.text.upto = read[s][u]
      BY <3>1, <3>2, HeardIsText
    <3>4. CASE w # s
      <4>1. sent'[w] = sent[w]
        BY <1>2, <3>1, <3>4
      <4> QED BY <1>4, <2>3, <4>1
    <3>5. CASE w = s
      <4>1. interim'[w].at \notin {"new", "deciding"}
        BY <2>1, <2>3, <3>5, SaidNumbers
      <4>2. ASSUME message.turn = sent[w].turn PROVE message.text.upto >= sent[w].text.upto
        <5>1. ~sent[w].final
          <6>1. u = answers[s] + 1 /\ answers[s] \in Nat
            BY <2>1, FinalAnswer, SocketNumbers DEF u
          <6>2. sent[s].final => sent[s].turn = answers[s]
            BY DEF TaskInv, SocketOK
          <6>3. sent[s].turn = u
            BY Zenon, <3>1, <3>5, <4>2
          <6>4. sent[s].turn # answers[s]
            BY <6>1, <6>3
          <6> QED BY Zenon, <3>5, <6>2, <6>4
        <5>2. sent[w].text.upto <= Available(w, u)
          BY <1>1, <3>1, <4>2, <5>1 DEF SaidOf
        <5>3. engine = "buffered" => read[w][u] = fed[w][u]
          <6>1. AllRead(r.work)
            BY <2>3, <3>2 DEF WholeInv, ResultsWhole
          <6> QED BY <3>2, <3>5, <6>1 DEF AllRead
        <5>4. sent[w].text.upto <= read[w][u]
          BY <5>2, <5>3 DEF Available
        <5>5. read[w][u] \in Nat
          BY <1>2, <3>2, CountNumbers
        <5> QED BY <1>3, <3>3, <3>5, <5>4, <5>5
      <4> QED BY <1>6, <3>1, <3>5, <4>1, <4>2
    <3> QED BY <3>4, <3>5
  <2> QED BY <2>1, <2>2, <2>3
<1>10. ASSUME NEW s \in Sockets, NEW text \in BOOLEAN, InterimReturns(s, text)
       PROVE  SaidOf(w)' /\ CopyOf(w)' /\ Kept(w)
  <2>1. /\ interim[s].at = "deciding" /\ interim' = [interim EXCEPT ![s] = Idle]
        /\ UNCHANGED <<engine, fed, read>>
        /\ \/ Send(s, Interim(Transcribed(s), interim[s].turn))
           \/ sent' = sent
    BY <1>10 DEF InterimReturns, sentVars, sessionVars, Work
  <2>2. CASE w # s
    <3>1. interim'[w] = interim[w]
      BY <1>2, <2>1, <2>2
    <3>2. sent'[w] = sent[w]
      BY <1>2, <2>1, <2>2 DEF Send
    <3> QED BY <1>4, <3>1, <3>2
  <2>3. CASE w = s /\ sent' = sent
    <3>1. interim'[w].at \notin {"new", "deciding"}
      BY <1>2, <2>1, <2>3 DEF Idle
    <3> QED BY <1>4, <2>3, <3>1
  <2>4. CASE w = s /\ Send(s, Interim(Transcribed(s), interim[s].turn))
    <3> DEFINE message == Interim(Transcribed(s), turn[w])
    <3>1. interim[w].turn = turn[w] /\ handler[w] = "receiving"
      BY <2>1, <2>4, SaidNumbers
    <3>2. /\ sent' = [sent EXCEPT ![w] = message] /\ ~message.final /\ message.turn = turn[w]
          /\ message.text = Transcribed(s)
      BY <2>4, <3>1 DEF Send, Interim
    <3> HIDE DEF message
    <3>3. sent'[w] = message
      BY <1>2, <3>2
    <3>4. CopyOf(w)'
      <4>1. interim'[w].at \notin {"new", "deciding"}
        BY <1>2, <2>1, <2>4 DEF Idle
      <4> QED BY <4>1 DEF CopyOf
    <3>5. interim[w].audio.upto \in Nat /\ read[w][turn[w]] \in Nat /\ fed[w][turn[w]] \in Nat
      BY <1>2, <1>3, SaidNumbers, CountNumbers
    <3>6. message.text.upto = IF engine = "buffered" THEN interim[w].audio.upto
                              ELSE read[w][turn[w]]
      BY <1>3, <2>4, <3>1, <3>2, HeardIsText DEF Transcribed
    <3>7. engine = "buffered" =>
            /\ interim[w].audio.upto <= fed[w][turn[w]]
            /\ ~sent[w].final => sent[w].text.upto <= interim[w].audio.upto
      BY <1>1, <2>1, <2>4, <3>1 DEF CopyOf
    <3>8. message.text.upto <= Available(w, turn[w])
      BY <3>5, <3>6, <3>7 DEF Available
    <3>9. SaidOf(w)'
      <4>1. sent'[w].turn = turn[w] /\ sent'[w].text.upto = message.text.upto
        BY <3>2, <3>3
      <4> QED BY <2>1, <3>8, <4>1 DEF SaidOf, Available
    <3>10. Kept(w)
      <4> SUFFICES ASSUME message.turn = sent[w].turn
                   PROVE  message.text.upto >= sent[w].text.upto
        BY <3>3 DEF Kept
      <4>1. ~sent[w].final /\ sent[w].turn = turn[w]
        BY <3>1, <3>2, SaidNumbers
      <4>2. sent[w].text.upto <= Available(w, turn[w])
        BY <1>1, <4>1 DEF SaidOf
      <4> QED BY <1>3, <3>5, <3>6, <3>7, <4>1, <4>2 DEF Available
    <3> QED BY <3>4, <3>9, <3>10
  <2> QED BY <2>1, <2>2, <2>3, <2>4
<1>11. ASSUME NEW s \in Sockets, FlushSpeech(s) \/ Disconnect(s)
       PROVE  SaidOf(w)' /\ CopyOf(w)' /\ Kept(w)
  <2>1. sent' = sent /\ interim' = [interim EXCEPT ![s] = Cancel(interim[s])]
    BY <1>11 DEF FlushSpeech, Disconnect, StartTurn, sentVars
  <2> QED BY <1>4, <1>5, <2>1
<1>12. ASSUME NEW s \in Sockets, InterimBegins(s) \/ InterimEnds(s)
       PROVE  SaidOf(w)' /\ CopyOf(w)' /\ Kept(w)
  <2>1. /\ sent' = sent
        /\ \/ interim' = [interim EXCEPT ![s] = Idle]
           \/ interim' = [interim EXCEPT ![s].at = "deciding"] /\ interim[s].at = "new"
    BY <1>12 DEF InterimBegins, InterimEnds, sentVars
  <2>2. interim'[w].at \in {"new", "deciding"} =>
          /\ interim[w].at \in {"new", "deciding"}
          /\ interim'[w].turn = interim[w].turn /\ interim'[w].audio = interim[w].audio
    BY <1>2, <2>1 DEF Idle, InterimSet
  <2> QED BY <1>4, <2>1, <2>2
<1>13. ASSUME NEW s \in Sockets, SlotGranted(s) PROVE SaidOf(w)' /\ CopyOf(w)' /\ Kept(w)
  BY <1>4, <1>13 DEF SlotGranted, sentVars
<1>14. CASE Takes \/ (\E work \in Works : Thread(work)) \/ UNCHANGED vars
  <2>1. sent' = sent /\ interim' = interim
    BY <1>14 DEF Takes, Thread, Steps, Stepped, Closes, vars, taskVars, sentVars
  <2> QED BY <1>4, <2>1
<1>15. CASE Client
  BY <1>7, <1>8, <1>11, <1>15 DEF Client
<1>16. ASSUME NEW s \in Sockets, EventLoop(s) PROVE SaidOf(w)' /\ CopyOf(w)' /\ Kept(w)
  BY <1>9, <1>10, <1>12, <1>13, <1>16 DEF EventLoop
<1> QED BY <1>14, <1>15, <1>16 DEF Next, Service

(* What a caller was heard to say is not taken back: of one utterance, no  *)
(* transcript is of less audio than the one before it, be the later one a  *)
(* final whose server was too slow, or an interim of an older copy.        *)
THEOREM TranscriptsOnlyGrow == Spec => NothingTakenBack
<1>1. ASSUME Init PROVE SaidInv
  <2>1. \A s \in Sockets : 1 \in Utterances
    BY Bounds
  <2>2. \A s \in Sockets : Available(s, 1) = 0
    BY <1>1, <2>1 DEF Init, Available
  <2> QED BY <1>1, <2>2 DEF Init, SaidInv, SaidOf, CopyOf, Interim, Idle, NoText, Text
<1>2. ASSUME Types, SlotInv, TaskInv, WholeInv, SaidInv, [Next]_vars
      PROVE  SaidInv' /\ \A s \in Sockets : Kept(s)
  BY <1>2, SaidStep
<1>3. Spec => []SaidInv
  BY <1>1, <1>2, SocketsAgree, FinishesHold, PTL DEF Spec
<1>4. ASSUME \A s \in Sockets : Kept(s)
      PROVE  \A s \in Sockets :
                sent'[s].turn = sent[s].turn => sent'[s].text.upto >= sent[s].text.upto
  BY <1>4 DEF Kept
<1> QED BY <1>2, <1>3, <1>4, SocketsAgree, FinishesHold, PTL DEF Spec, NothingTakenBack
=============================================================================
