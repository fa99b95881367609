-------------------------- MODULE CallRecordsProofs --------------------------
(***************************************************************************)
(* What the tables of calls and turns promise, for any number of calls and *)
(* turns, any prices and usage, and any number of broken connections: they *)
(* are the repository that the use cases expect, a completed call is       *)
(* final, and what a report reads in two queries is true.                  *)
(***************************************************************************)
EXTENDS CallRecords, FiniteSetTheorems, SequenceTheorems, WellFoundedInduction, TLAPS

(***************************************************************************)
(* Sums over finite sets.  SumFunction is a fold whose recursive function  *)
(* is chosen by its equation (IsSum): that there is one, and that it is    *)
(* the same whatever summand is taken out first, is shown by induction on  *)
(* the number of summands, with the set of numbers it holds for.           *)
(***************************************************************************)

(* A set of numbers that has 0 and with each its successor has them all.   *)
LEMMA SetInduction ==
    ASSUME NEW S, 0 \in S, \A n \in Nat : n \in S => n + 1 \in S
    PROVE  Nat \subseteq S
<1> DEFINE Rest == Nat \ S
<1> SUFFICES ASSUME Rest # {} PROVE FALSE
  OBVIOUS
<1>0. Rest \subseteq Nat
  OBVIOUS
<1>1. PICK n \in Rest : \A m \in Rest : ~ (<<m, n>> \in OpToRel(<, Nat))
  <2> HIDE DEF Rest
  <2> QED BY <1>0, WFMin, NatLessThanWellFounded, Zenon
<1>2. \A m \in Rest : ~ (m < n)
  BY <1>1, Zenon DEF OpToRel
<1>3. n # 0 /\ n \in Nat
  OBVIOUS
<1>4. n - 1 \in Nat /\ n - 1 < n /\ (n - 1) + 1 = n
  BY <1>3
<1>5. n - 1 \in S
  BY <1>2, <1>4
<1> QED BY <1>3, <1>4, <1>5

Some(s) == CHOOSE x \in s : TRUE
Summed(g, f, s) == IF s = {} THEN 0 ELSE f[Some(s)] + g[s \ {Some(s)}]
IsSum(g, f, S) == g = [s \in SUBSET S |-> Summed(g, f, s)]

LEMMA SumIsFold ==
    ASSUME NEW f
    PROVE  SumFunction(f) = (CHOOSE g : IsSum(g, f, DOMAIN f))[DOMAIN f]
BY DEF SumFunction, SumFunctionOnSet, FoldFunctionOnSet, MapThenFoldSet, IsSum, Summed, Some

LEMMA Fewer ==
    ASSUME NEW s, IsFiniteSet(s), s # {}, NEW x \in s
    PROVE  /\ Some(s) \in s
           /\ IsFiniteSet(s \ {x}) /\ Cardinality(s) \in Nat /\ Cardinality(s) > 0
           /\ Cardinality(s \ {x}) = Cardinality(s) - 1
<1>1. Some(s) \in s
  BY DEF Some
<1> QED BY <1>1, FS_RemoveElement, FS_CardinalityType, FS_EmptySet

LEMMA SumExists ==
    ASSUME NEW S, IsFiniteSet(S), NEW f \in [S -> Int]
    PROVE  \E g \in [SUBSET S -> Int] : IsSum(g, f, S)
<1> DEFINE Upto(n, g) == \A s \in SUBSET S : Cardinality(s) <= n => g[s] = Summed(g, f, s)
           Ok == {n \in Nat : \E g \in [SUBSET S -> Int] : Upto(n, g)}
<1>1. \A s \in SUBSET S : IsFiniteSet(s) /\ Cardinality(s) \in Nat /\ Cardinality(s) <= Cardinality(S)
  BY FS_Subset, FS_CardinalityType
<1>2. 0 \in Ok
  <2> DEFINE g == [s \in SUBSET S |-> 0]
  <2>1. Upto(0, g)
    <3> SUFFICES ASSUME NEW s \in SUBSET S, Cardinality(s) <= 0 PROVE g[s] = Summed(g, f, s)
      OBVIOUS
    <3>1. s = {}
      BY <1>1, FS_EmptySet
    <3> QED BY <3>1 DEF Summed
  <2>2. g \in [SUBSET S -> Int]
    OBVIOUS
  <2> HIDE DEF g, Upto
  <2> QED BY <2>1, <2>2
<1>3. ASSUME NEW n \in Nat, n \in Ok PROVE n + 1 \in Ok
  <2>1. PICK g \in [SUBSET S -> Int] : Upto(n, g)
    BY <1>3
  <2> DEFINE h == [s \in SUBSET S |-> IF Cardinality(s) <= n THEN g[s] ELSE Summed(g, f, s)]
  <2>2. ASSUME NEW s \in SUBSET S, s # {}
        PROVE  /\ Some(s) \in S /\ s \ {Some(s)} \in SUBSET S
               /\ Cardinality(s \ {Some(s)}) = Cardinality(s) - 1
    BY <2>2, <1>1, Fewer
  <2>3. h \in [SUBSET S -> Int]
    <3> SUFFICES ASSUME NEW s \in SUBSET S PROVE h[s] \in Int
      OBVIOUS
    <3> QED BY <2>2 DEF Summed
  <2>4. ASSUME NEW s \in SUBSET S, Cardinality(s) <= n + 1 PROVE h[s] = Summed(h, f, s)
    <3>1. s # {} => h[s \ {Some(s)}] = g[s \ {Some(s)}]
      BY <2>2, <2>4, <1>1
    <3>2. Summed(h, f, s) = Summed(g, f, s)
      BY <3>1 DEF Summed
    <3>3. Cardinality(s) <= n => g[s] = Summed(g, f, s)
      BY <2>1
    <3>4. h[s] = Summed(g, f, s)
      BY <3>3
    <3> QED BY <3>2, <3>4
  <2> HIDE DEF h
  <2>5. Upto(n + 1, h)
    BY <2>4
  <2> HIDE DEF Upto
  <2> QED BY <2>3, <2>5
<1>4. Cardinality(S) \in Ok
  <2> HIDE DEF Ok
  <2> QED BY <1>2, <1>3, SetInduction, FS_CardinalityType
<1>5. PICK g \in [SUBSET S -> Int] : Upto(Cardinality(S), g)
  BY <1>4
<1>6. \A s \in SUBSET S : g[s] = Summed(g, f, s)
  BY <1>5, <1>1
<1>7. g = [s \in SUBSET S |-> Summed(g, f, s)]
  BY <1>6
<1> QED BY <1>7 DEF IsSum

LEMMA SumApplied ==
    ASSUME NEW S, NEW f, NEW g, IsSum(g, f, S), NEW s \in SUBSET S
    PROVE  g[s] = Summed(g, f, s)
<1> DEFINE h == [t \in SUBSET S |-> Summed(g, f, t)]
<1>1. g = h
  BY Zenon DEF IsSum
<1>2. h[s] = Summed(g, f, s)
  OBVIOUS
<1> QED BY <1>1, <1>2, Zenon

(* Two such functions agree where their summands do, on whatever set.      *)
LEMMA SumAgrees ==
    ASSUME NEW S, NEW T, IsFiniteSet(T), T \subseteq S, NEW f, NEW f1, NEW g, NEW g1,
           IsSum(g, f, S), IsSum(g1, f1, T), \A x \in T : f[x] = f1[x]
    PROVE  \A s \in SUBSET T : g[s] = g1[s]
<1> DEFINE Ok == {n \in Nat : \A s \in SUBSET T : Cardinality(s) = n => g[s] = g1[s]}
<1>1. \A s \in SUBSET T : IsFiniteSet(s) /\ Cardinality(s) \in Nat
  BY FS_Subset, FS_CardinalityType
<1>2. 0 \in Ok
  <2> SUFFICES ASSUME NEW s \in SUBSET T, Cardinality(s) = 0 PROVE g[s] = g1[s]
    OBVIOUS
  <2>1. s = {}
    BY <1>1, FS_EmptySet
  <2> QED BY <2>1, SumApplied DEF Summed
<1>3. ASSUME NEW n \in Nat, n \in Ok PROVE n + 1 \in Ok
  <2> SUFFICES ASSUME NEW s \in SUBSET T, Cardinality(s) = n + 1 PROVE g[s] = g1[s]
    OBVIOUS
  <2>1. s # {}
    BY <1>1, FS_EmptySet
  <2>2. /\ Some(s) \in T /\ s \ {Some(s)} \in SUBSET T
        /\ Cardinality(s \ {Some(s)}) = n
    <3>1. Some(s) \in s
      BY <2>1 DEF Some
    <3>2. IsFiniteSet(s)
      BY <1>1
    <3>3. Cardinality(s \ {Some(s)}) = Cardinality(s) - 1
      BY <2>1, <3>1, <3>2, Fewer
    <3> QED BY <3>1, <3>3
  <2>3. g[s \ {Some(s)}] = g1[s \ {Some(s)}]
    BY <2>2, <1>3
  <2>4. g[s] = Summed(g, f, s) /\ g1[s] = Summed(g1, f1, s)
    BY SumApplied
  <2> QED BY <2>1, <2>2, <2>3, <2>4 DEF Summed
<1>4. Nat \subseteq Ok
  <2> HIDE DEF Ok
  <2> QED BY <1>2, <1>3, SetInduction
<1> QED BY <1>1, <1>4

LEMMA SumIs ==
    ASSUME NEW S, IsFiniteSet(S), NEW f \in [S -> Int], NEW g, IsSum(g, f, S)
    PROVE  SumFunction(f) = g[S]
<1> DEFINE h == CHOOSE h : IsSum(h, f, S)
<1>1. IsSum(h, f, S)
  BY Zenon
<1>2. SumFunction(f) = h[S]
  BY SumIsFold
<1> HIDE DEF h
<1>3. h[S] = g[S]
  BY <1>1, SumAgrees
<1> QED BY <1>2, <1>3

LEMMA SumType ==
    ASSUME NEW S, IsFiniteSet(S), NEW f \in [S -> Int]
    PROVE  SumFunction(f) \in Int
<1>1. PICK g \in [SUBSET S -> Int] : IsSum(g, f, S)
  BY SumExists
<1> QED BY <1>1, SumIs

Without(f, x) == [y \in DOMAIN f \ {x} |-> f[y]]

LEMMA SumOfNone ==
    ASSUME NEW f, DOMAIN f = {}, f = [x \in DOMAIN f |-> f[x]]
    PROVE  SumFunction(f) = 0
<1>1. f \in [{} -> Int] /\ IsFiniteSet({})
  BY FS_EmptySet
<1>2. PICK g \in [SUBSET {} -> Int] : IsSum(g, f, {})
  BY <1>1, SumExists
<1>3. g[{}] = 0
  BY <1>2, SumApplied DEF Summed
<1> QED BY <1>1, <1>2, <1>3, SumIs

(* Whichever summand is taken out, the sum is it and the rest.             *)
Sums(g, f, S) ==
    IsFiniteSet(S) /\ f \in [S -> Int] /\ g \in [SUBSET S -> Int] /\ IsSum(g, f, S)

LEMMA SumTakesOut ==
    ASSUME NEW S, NEW f, NEW g, Sums(g, f, S), NEW z \in S
    PROVE  g[S] = f[z] + g[S \ {z}]
<1>0. IsFiniteSet(S) /\ f \in [S -> Int] /\ g \in [SUBSET S -> Int] /\ IsSum(g, f, S)
  BY DEF Sums
<1> DEFINE Ok == {n \in Nat : \A s \in SUBSET S :
                    Cardinality(s) = n => \A x \in s : g[s] = f[x] + g[s \ {x}]}
<1>1. \A s \in SUBSET S : IsFiniteSet(s) /\ Cardinality(s) \in Nat
  BY <1>0, FS_Subset, FS_CardinalityType
<1>2. 0 \in Ok
  BY <1>1, FS_EmptySet
<1>3. ASSUME NEW n \in Nat, n \in Ok PROVE n + 1 \in Ok
  <2> SUFFICES ASSUME NEW s \in SUBSET S, Cardinality(s) = n + 1, NEW x \in s
               PROVE  g[s] = f[x] + g[s \ {x}]
    OBVIOUS
  <2> DEFINE y == Some(s)
  <2>1. y \in s
    BY DEF Some
  <2>2. g[s] = f[y] + g[s \ {y}]
    BY <1>0, <2>1, SumApplied DEF Summed
  <2> HIDE DEF y
  <2>3. SUFFICES ASSUME x # y PROVE g[s] = f[x] + g[s \ {x}]
    BY <2>2
  <2>4. /\ s \ {x} \in SUBSET S /\ s \ {y} \in SUBSET S
        /\ Cardinality(s \ {x}) = n /\ Cardinality(s \ {y}) = n
        /\ x \in s \ {y} /\ y \in s \ {x}
    BY <2>1, <2>3, <1>1, Fewer
  <2>5. g[s \ {y}] = f[x] + g[(s \ {y}) \ {x}]
    BY <2>4, <1>3
  <2>6. g[s \ {x}] = f[y] + g[(s \ {x}) \ {y}]
    BY <2>4, <1>3
  <2> DEFINE w == (s \ {y}) \ {x}
  <2>7. w = (s \ {x}) \ {y} /\ w \in SUBSET S
    OBVIOUS
  <2> HIDE DEF w
  <2>8. f[x] \in Int /\ f[y] \in Int /\ g[w] \in Int
    BY <1>0, <2>7, <2>1
  <2>9. g[s] = f[y] + (f[x] + g[w])
    BY <2>2, <2>5 DEF w
  <2>10. g[s \ {x}] = f[y] + g[w]
    BY <2>6, <2>7
  <2>11. f[y] + (f[x] + g[w]) = f[x] + (f[y] + g[w])
    BY <2>8
  <2> QED BY <2>9, <2>10, <2>11
<1>4. Nat \subseteq Ok
  <2> HIDE DEF Ok
  <2> QED BY <1>2, <1>3, SetInduction
<1>5. S \in SUBSET S /\ Cardinality(S) \in Ok
  BY <1>1, <1>4
<1> QED BY <1>5

LEMMA SumWithout ==
    ASSUME NEW S, IsFiniteSet(S), NEW f \in [S -> Int], NEW x \in S
    PROVE  SumFunction(f) = f[x] + SumFunction(Without(f, x))
<1>1. PICK g \in [SUBSET S -> Int] : IsSum(g, f, S)
  BY SumExists
<1>2. g[S] = f[x] + g[S \ {x}]
  <2>1. Sums(g, f, S)
    BY <1>1 DEF Sums
  <2>2. \A z \in S : g[S] = f[z] + g[S \ {z}]
    BY ONLY <2>1, SumTakesOut, SMT
  <2> QED BY <2>2
<1> DEFINE T == S \ {x}  f1 == Without(f, x)
<1>3. f1 \in [T -> Int] /\ IsFiniteSet(T) /\ \A y \in T : f[y] = f1[y]
  BY FS_RemoveElement DEF Without
<1> HIDE DEF f1
<1>4. PICK g1 \in [SUBSET T -> Int] : IsSum(g1, f1, T)
  BY <1>3, SumExists
<1>5. g[T] = g1[T]
  BY <1>1, <1>3, <1>4, SumAgrees
<1>6. SumFunction(f1) = g1[T]
  BY <1>3, <1>4, SumIs
<1> QED BY <1>1, <1>2, <1>5, <1>6, SumIs DEF f1

(* Another summand, or another value of one.                               *)
Puts(S, f, x, T, g) ==
    /\ IsFiniteSet(S) /\ f \in [S -> Int] /\ T = S \cup {x} /\ g \in [T -> Int]
    /\ \A y \in S : y # x => g[y] = f[y]

LEMMA SumPut ==
    ASSUME NEW S, NEW f, NEW x, NEW T, NEW g, Puts(S, f, x, T, g)
    PROVE  /\ x \in S => SumFunction(g) = SumFunction(f) + g[x] - f[x]
           /\ x \notin S => SumFunction(g) = SumFunction(f) + g[x]
<1>0. /\ IsFiniteSet(S) /\ f \in [S -> Int] /\ T = S \cup {x} /\ g \in [T -> Int]
      /\ \A y \in S : y # x => g[y] = f[y]
  BY DEF Puts
<1>1. IsFiniteSet(T) /\ x \in T
  BY <1>0, FS_AddElement
<1>2. DOMAIN g \ {x} = S \ {x} /\ Without(g, x) = [y \in S \ {x} |-> f[y]]
  BY <1>0 DEF Without
<1>3. SumFunction(g) = g[x] + SumFunction(Without(g, x))
  BY <1>0, <1>1, SumWithout
<1>4. SumFunction(Without(g, x)) \in Int /\ g[x] \in Int
  <2>1. Without(g, x) \in [S \ {x} -> Int] /\ IsFiniteSet(S \ {x})
    BY <1>0, <1>2, FS_RemoveElement, FS_Difference
  <2> QED BY <1>0, <1>1, <2>1, SumType
<1>5. CASE x \in S
  <2>1. Without(f, x) = Without(g, x)
    BY <1>0, <1>2 DEF Without
  <2>2. SumFunction(f) = f[x] + SumFunction(Without(f, x))
    BY <1>0, <1>5, SumWithout
  <2>3. f[x] \in Int
    BY <1>0, <1>5
  <2> QED BY <1>3, <1>4, <1>5, <2>1, <2>2, <2>3
<1>6. CASE x \notin S
  <2>1. Without(g, x) = f
    BY <1>0, <1>2, <1>6
  <2> QED BY <1>3, <1>4, <1>6, <2>1
<1> QED BY <1>5, <1>6

LEMMA RoundedTogether ==
    ASSUME NEW a \in Int, NEW b \in Int, NEW c \in Int, NEW d \in Int, NEW n \in Nat,
           RoundedApart(a, b, 1), RoundedApart(c, d, n)
    PROVE  RoundedApart(a + c, b + d, n + 1)
BY DEF RoundedApart, Fine

(* Sums of as many amounts, each rounded once.                             *)
LEMMA SumRounded ==
    ASSUME NEW S, IsFiniteSet(S), NEW f \in [S -> Int], NEW f1 \in [S -> Int],
           \A x \in S : RoundedApart(f[x], f1[x], 1)
    PROVE  RoundedApart(SumFunction(f), SumFunction(f1), Cardinality(S))
<1>1. PICK g \in [SUBSET S -> Int] : IsSum(g, f, S)
  BY SumExists
<1>2. PICK g1 \in [SUBSET S -> Int] : IsSum(g1, f1, S)
  BY SumExists
<1> DEFINE Ok == {n \in Nat : \A s \in SUBSET S :
                    Cardinality(s) = n => RoundedApart(g[s], g1[s], n)}
<1>3. \A s \in SUBSET S : IsFiniteSet(s) /\ Cardinality(s) \in Nat
  BY FS_Subset, FS_CardinalityType
<1>4. 0 \in Ok
  <2> SUFFICES ASSUME NEW s \in SUBSET S, Cardinality(s) = 0
               PROVE  RoundedApart(g[s], g1[s], 0)
    OBVIOUS
  <2>1. s = {}
    BY <1>3, FS_EmptySet
  <2>2. g[s] = Summed(g, f, s) /\ g1[s] = Summed(g1, f1, s)
    BY <1>1, <1>2, SumApplied
  <2>3. g[s] = 0 /\ g1[s] = 0
    BY <2>1, <2>2 DEF Summed
  <2> QED BY <2>3 DEF RoundedApart, Fine
<1>5. ASSUME NEW n \in Nat, n \in Ok PROVE n + 1 \in Ok
  <2> SUFFICES ASSUME NEW s \in SUBSET S, Cardinality(s) = n + 1
               PROVE  RoundedApart(g[s], g1[s], n + 1)
    OBVIOUS
  <2>1. s # {}
    BY <1>3, FS_EmptySet
  <2> DEFINE y == Some(s)  r == s \ {y}
  <2>2. y \in s
    BY <2>1 DEF Some
  <2>3. r \in SUBSET S /\ Cardinality(r) = n
    BY <1>3, <2>1, <2>2, Fewer
  <2>4. g[s] = Summed(g, f, s) /\ g1[s] = Summed(g1, f1, s)
    BY <1>1, <1>2, SumApplied
  <2>5. g[s] = f[y] + g[r] /\ g1[s] = f1[y] + g1[r]
    BY <2>1, <2>4 DEF Summed
  <2> HIDE DEF y, r
  <2>6. RoundedApart(g[r], g1[r], n)
    BY <1>5, <2>3
  <2>7. RoundedApart(f[y], f1[y], 1) /\ f1[y] \in Int /\ f[y] \in Int
    BY <2>2
  <2>8. g1[r] \in Int /\ g[r] \in Int
    BY <2>3
  <2> QED BY <2>5, <2>6, <2>7, <2>8, RoundedTogether
<1>6. Nat \subseteq Ok
  <2> HIDE DEF Ok
  <2> QED BY <1>4, <1>5, SetInduction
<1>7. S \in SUBSET S /\ Cardinality(S) \in Ok
  BY <1>3, <1>6
<1>8. RoundedApart(g[S], g1[S], Cardinality(S))
  BY <1>7
<1>9. SumFunction(f) = g[S] /\ SumFunction(f1) = g1[S]
  BY <1>1, <1>2, SumIs
<1> QED BY <1>8, <1>9

-----------------------------------------------------------------------------
(* Prices: what a segment costs, and what the columns keep of it.          *)

Usage == [audio : Nat, input : Nat, output : Nat, chars : Nat, gpu : Nat, calls : Nat,
          telephony : Nat]
Rate == [stt : Nat, input : Nat, output : Nat, tts : Nat, gpu : Nat, telephony : Nat]
SegmentSet == [audio : Nat, tokens : Nat, wall : Nat, calls : Nat]
Cost == [Stages -> Nat]
Bills == [usage : Usage, cost : Cost]

LEMMA CostFields ==
    ASSUME NEW c \in Cost
    PROVE  /\ c.stt \in Nat /\ c.llm \in Nat /\ c.tts \in Nat /\ c.gpu \in Nat /\ c.telephony \in Nat
           /\ Total(c) \in Nat
BY DEF Cost, Stages, Total

LEMMA GpuIsNat ==
    ASSUME NEW s \in Nat, NEW h \in Nat, NEW n \in Nat
    PROVE  GpuCost(s, h, n) \in Nat /\ (s = 0 => GpuCost(s, h, n) = 0)
<1> DEFINE a == Fine * s * h  b == 3600 * Larger(n, 1)
<1>1. a \in Nat /\ (s = 0 => a = 0)
  BY DEF Fine
<1>2. b \in Nat /\ b > 0
  BY DEF Larger
<1> HIDE DEF a, b
<1>3. a \div b \in Nat /\ (a = 0 => a \div b = 0)
  BY <1>1, <1>2
<1> QED BY <1>1, <1>3 DEF GpuCost, a, b

LEMMA UsageType ==
    ASSUME NEW segment \in SegmentSet, NEW b \in BOOLEAN
    PROVE  SegmentUsage(segment, b) \in Usage /\ (~b => SegmentUsage(segment, b).gpu = 0)
BY DEF SegmentSet, SegmentUsage, Usage

LEMMA CalculateType ==
    ASSUME NEW r \in Rate, NEW u \in Usage
    PROVE  Calculate(r, u) \in Cost
<1>1. GpuCost(u.gpu, r.gpu, u.calls) \in Nat
  BY GpuIsNat DEF Rate, Usage
<1>2. /\ r.stt * u.audio \in Nat
      /\ r.input * u.input + r.output * u.output \in Nat
      /\ r.tts * u.chars \in Nat
      /\ r.telephony * u.telephony \in Nat
  BY DEF Rate, Usage
<1>3. \A n \in Nat : (Fine * n) \div 60 \in Nat /\ (Fine * n) \div 1000 \in Nat
  BY DEF Fine
<1>4. /\ (Fine * (r.stt * u.audio)) \div 60 \in Nat
      /\ (Fine * (r.input * u.input + r.output * u.output)) \div 1000 \in Nat
      /\ (Fine * (r.tts * u.chars)) \div 1000 \in Nat
      /\ (Fine * (r.telephony * u.telephony)) \div 60 \in Nat
  BY <1>2, <1>3
<1> QED BY <1>1, <1>4 DEF Calculate, Cost, Stages

LEMMA NoUsageIsFree ==
    ASSUME NEW r \in Rate
    PROVE  Calculate(r, NoUsage) = NoCost
<1>1. GpuCost(0, r.gpu, 1) = 0
  BY GpuIsNat DEF Rate
<1> QED BY <1>1 DEF Calculate, NoUsage, NoCost, Stages, Rate, Fine

LEMMA StoredRounds ==
    ASSUME NEW c \in Cost
    PROVE  /\ Stored(c) \in Cost
           /\ \A s \in Stages : Stored(c)[s] % Fine = 0 /\ RoundedApart(Stored(c)[s], c[s], 1)
<1>1. \A n \in Nat : LET m == ((n + Fine \div 2) \div Fine) * Fine IN
          m \in Nat /\ m % Fine = 0 /\ RoundedApart(m, n, 1)
  <2> SUFFICES ASSUME NEW n \in Nat
               PROVE  LET m == ((n + 30) \div 60) * 60 IN
                      /\ m \in Nat /\ m % 60 = 0
                      /\ 2 * (m - n) <= 60 /\ 0 - 60 <= 2 * (m - n)
    BY DEF Fine, RoundedApart
  <2> QED OBVIOUS
<1> HIDE DEF Fine
<1> QED BY <1>1 DEF Cost, Stored

LEMMA UnbilledType == Unbilled \in Bills /\ Stored(NoCost) = NoCost
BY DEF Unbilled, Bills, Usage, Cost, NoUsage, NoCost, Stored, Fine

LEMMA BilledType ==
    ASSUME NEW card \in 1..Len(Cards), NEW k \in Kinds, NEW s \in Segments \cup {LastSegment}
    PROVE  /\ BilledBy(card, k, s) \in Bills
           /\ k = "api" => BilledBy(card, k, s).usage.gpu = 0
           /\ Rates(card, k) \in Rate
           /\ BilledBy(card, k, s).cost = Calculate(Rates(card, k), BilledBy(card, k, s).usage)
<1>1. s \in SegmentSet
  BY RecordsAssumption DEF SegmentSet
<1>2. Rates(card, k) \in Rate
  <2>1. Cards \in Seq([Kinds -> Rate])
    BY RecordsAssumption DEF Rate
  <2>2. Cards[card] \in [Kinds -> Rate]
    BY <2>1, ElementOfSeq
  <2> QED BY <2>2 DEF Rates
<1>3. UsesGpu(k) \in BOOLEAN /\ (k = "api" => ~UsesGpu(k))
  BY DEF UsesGpu
<1> DEFINE u == SegmentUsage(s, UsesGpu(k))
<1>4. u \in Usage /\ (k = "api" => u.gpu = 0)
  BY <1>1, <1>3, UsageType
<1> HIDE DEF u
<1>5. Calculate(Rates(card, k), u) \in Cost
  BY <1>2, <1>4, CalculateType
<1>6. BilledBy(card, k, s) = [usage |-> u, cost |-> Calculate(Rates(card, k), u)]
  BY DEF BilledBy, u
<1> QED BY <1>2, <1>4, <1>5, <1>6 DEF Bills

LEMMA RowType ==
    ASSUME NEW b \in Bills
    PROVE  /\ Row(b) \in Bills /\ Row(b).usage = b.usage /\ Row(b).cost = Stored(b.cost)
           /\ \A s \in Stages : Row(b).cost[s] % Fine = 0
BY StoredRounds DEF Row, Bills

-----------------------------------------------------------------------------
(* The types of the calls, the transactions and the tables.                *)

Add == [type |-> "add"]
TurnOps == [type : {"turn"}, index : 1..MaxTurns, row : Bills]
EndOps == [type : {"end"}, row : Bills, status : {"completed", "failed"}]
Ops == {NoOp, Add} \cup TurnOps \cup EndOps
CallRow == [kind : Kinds, startedAt : Nat, status : Statuses, closing : Bills]
Points == {"new", "adding", "talking", "recording", "ending", "over"}

CallTypes ==
    /\ kind \in [Calls -> Kinds] /\ startedAt \in [Calls -> Nat]
    /\ pc \in [Calls -> Points] /\ cardOf \in [Calls -> 1..Len(Cards)]
    /\ turns \in [Calls -> Seq(Bills)] /\ \A c \in Calls : Len(turns[c]) <= MaxTurns
    /\ closing \in [Calls -> Bills] /\ failed \in [Calls -> BOOLEAN]
    /\ answer \in [Calls -> {"none", "ok", "error"}]
    /\ op \in [Calls -> Ops] /\ late \in [Calls -> Ops]
    /\ latest \in 1..Len(Cards)

TableTypes ==
    /\ callRows \in [DOMAIN callRows -> CallRow] /\ DOMAIN callRows \subseteq Calls
    /\ turnRows \in [DOMAIN turnRows -> Bills] /\ DOMAIN turnRows \subseteq Calls \X (1..MaxTurns)

Types == CallTypes /\ TableTypes

LEMMA OpTypes ==
    ASSUME NEW o \in Ops
    PROVE  /\ o.type \in {"none", "add", "turn", "end"}
           /\ o = NoOp <=> o.type = "none"
           /\ o.type = "turn" => o.index \in 1..MaxTurns /\ o.row \in Bills
           /\ o.type = "end" => o.row \in Bills /\ o.status \in {"completed", "failed"}
BY DEF Ops, NoOp, Add, TurnOps, EndOps

LEMMA PutIs ==
    ASSUME NEW f, NEW x, NEW y
    PROVE  /\ DOMAIN Put(f, x, y) = DOMAIN f \cup {x} /\ Put(f, x, y)[x] = y
           /\ \A z \in DOMAIN f \ {x} : Put(f, x, y)[z] = f[z]
BY DEF Put

(* What a transaction that is accepted does to the tables.                 *)
Writes(c, o) ==
    \/ /\ o.type = "add" /\ c \notin DOMAIN callRows
       /\ callRows' = Put(callRows, c, AddedRow(c)) /\ turnRows' = turnRows
    \/ /\ o.type = "turn" /\ c \in DOMAIN callRows
       /\ callRows' = callRows /\ turnRows' = Put(turnRows, <<c, o.index>>, o.row)
    \/ /\ o.type = "end" /\ c \in DOMAIN callRows
       /\ callRows' = Put(callRows, c, EndedRow(c, o)) /\ turnRows' = turnRows

LEMMA AcceptedWrites ==
    ASSUME NEW c \in Calls, NEW o \in Ops, o.type # "none", Accepted(c, o), Applied(c, o)
    PROVE  Writes(c, o)
<1>1. o.type \in {"add", "turn", "end"}
  BY OpTypes
<1> QED BY <1>1 DEF Accepted, Applied, Writes

LEMMA InitTypes == Init => Types
<1> SUFFICES ASSUME Init PROVE Types
  OBVIOUS
<1>1. 1 \in 1..Len(Cards)
  BY RecordsAssumption, LenProperties
<1>2. \A c \in Calls : turns[c] = <<>> /\ turns[c] \in Seq(Bills) /\ Len(turns[c]) <= MaxTurns
  BY RecordsAssumption, EmptySeq DEF Init
<1>3. turns \in [Calls -> Seq(Bills)]
  BY <1>2 DEF Init
<1>4. CallTypes
  BY <1>1, <1>2, <1>3, UnbilledType, RecordsAssumption DEF Init, CallTypes, Points, Ops
<1>5. TableTypes
  BY DEF Init, TableTypes, Empty
<1> QED BY <1>4, <1>5 DEF Types

LEMMA WritesTypes ==
    ASSUME Types, NEW c \in Calls, NEW o \in Ops, Writes(c, o)
    PROVE  TableTypes'
<1>1. CASE o.type = "add"
  <2>1. AddedRow(c) \in CallRow
    BY RowType, UnbilledType DEF Types, CallTypes, AddedRow, CallRow, Statuses
  <2> QED BY <1>1, <2>1, PutIs DEF Types, TableTypes, Writes, Put
<1>2. CASE o.type = "turn"
  BY <1>2, OpTypes, PutIs DEF Types, TableTypes, Writes, Put
<1>3. CASE o.type = "end"
  <2>1. EndedRow(c, o) \in CallRow
    BY <1>3, OpTypes DEF Types, TableTypes, EndedRow, CallRow, Statuses, Writes
  <2> QED BY <1>3, <2>1, PutIs DEF Types, TableTypes, Writes, Put
<1> QED BY <1>1, <1>2, <1>3 DEF Writes

Quiet == EndReport \/ DeployRates \/ \E k \in Kinds : BeginSpend(k) \/ BeginListing(k)

LEMMA TypesStep == Types /\ [Next]_vars => Types'
<1> SUFFICES ASSUME Types, [Next]_vars PROVE Types'
  OBVIOUS
<1> USE DEF Types
<1>1. ASSUME NEW c \in Calls, StartCall(c) PROVE Types'
  <2>1. 1 + Cardinality({o \in Calls : startedAt[o] > 0}) \in Nat
    <3> DEFINE S == {o \in Calls : startedAt[o] > 0}
    <3>1. S \in SUBSET Calls
      OBVIOUS
    <3> HIDE DEF S
    <3>2. IsFiniteSet(S)
      BY <3>1, RecordsAssumption, FS_Subset
    <3>3. Cardinality(S) \in Nat
      BY <3>2, FS_CardinalityType
    <3>4. 1 + Cardinality(S) \in Nat
      BY <3>3
    <3> QED BY <3>4 DEF S
  <2>2. Add \in Ops
    BY DEF Ops
  <2> QED BY <1>1, <2>1, <2>2 DEF StartCall, Send, CallTypes, TableTypes, Points, tableVars, Add
<1>2. ASSUME NEW c \in Calls, NEW segment \in Segments, RecordTurn(c, segment) PROVE Types'
  <2> DEFINE b == Billed(c, segment)
  <2>1. b \in Bills
    BY BilledType DEF Billed, CallTypes
  <2>2. Row(b) \in Bills
    BY <2>1, RowType
  <2> HIDE DEF b
  <2>3. turns[c] \in Seq(Bills) /\ Len(turns[c]) \in Nat /\ Len(turns[c]) < MaxTurns /\ MaxTurns \in Nat
    BY <1>2, LenProperties, RecordsAssumption DEF RecordTurn, CallTypes
  <2>4. Append(turns[c], b) \in Seq(Bills) /\ Len(Append(turns[c], b)) = Len(turns[c]) + 1
    BY <2>1, <2>3, AppendProperties
  <2>5. turns' = [turns EXCEPT ![c] = Append(turns[c], b)]
    BY <1>2 DEF RecordTurn, b
  <2>6. turns' \in [Calls -> Seq(Bills)] /\ \A d \in Calls : Len(turns'[d]) <= MaxTurns
    BY <2>3, <2>4, <2>5 DEF CallTypes
  <2> DEFINE o == [type |-> "turn", index |-> Len(turns'[c]), row |-> Row(b)]
  <2>7. o \in Ops
    BY <2>2, <2>3, <2>4, <2>5 DEF Ops, TurnOps, CallTypes
  <2>8. op' = [op EXCEPT ![c] = o]
    BY <1>2 DEF RecordTurn, Send, b
  <2> HIDE DEF o
  <2>9. op' \in [Calls -> Ops]
    BY <2>7, <2>8 DEF CallTypes
  <2> QED BY <1>2, <2>6, <2>9 DEF RecordTurn, Send, CallTypes, TableTypes, Points, tableVars
<1>3. ASSUME NEW c \in Calls, EndCall(c) PROVE Types'
  <2> DEFINE b == Billed(c, LastSegment)
  <2>1. b \in Bills
    BY BilledType DEF Billed, CallTypes
  <2>2. Row(b) \in Bills
    BY <2>1, RowType
  <2> HIDE DEF b
  <2> DEFINE o == [type |-> "end", row |-> Row(b),
                   status |-> IF failed[c] THEN "failed" ELSE "completed"]
  <2>3. o \in Ops
    BY <2>2 DEF Ops, EndOps
  <2>4. op' = [op EXCEPT ![c] = o] /\ closing' = [closing EXCEPT ![c] = b]
    BY <1>3 DEF EndCall, Send, b
  <2> HIDE DEF o
  <2> QED BY <1>3, <2>1, <2>3, <2>4, SMTT(30)
       DEF EndCall, Send, CallTypes, TableTypes, Points, tableVars
<1>4. ASSUME NEW c \in Calls, Proceed(c) \/ SessionFails(c) PROVE Types'
  BY <1>4 DEF Proceed, SessionFails, CallTypes, TableTypes, Points, tableVars
<1>5. ASSUME NEW c \in Calls, Commit(c) \/ CommitLate(c) PROVE Types'
  <2> DEFINE o == IF Commit(c) THEN op[c] ELSE late[c]
  <2>1. o \in Ops /\ o # NoOp
    BY <1>5 DEF Commit, CommitLate, CallTypes
  <2>2. TableTypes'
    <3>1. CASE Accepted(c, o)
      <4>1. Applied(c, o)
        BY <1>5, <3>1 DEF Commit, CommitLate
      <4> HIDE DEF o
      <4> QED BY <2>1, <3>1, <4>1, AcceptedWrites, OpTypes, WritesTypes
    <3>2. CASE ~Accepted(c, o)
      BY <1>5, <3>2 DEF Commit, CommitLate, TableTypes, tableVars
    <3> QED BY <3>1, <3>2
  <2>3. NoOp \in Ops
    BY DEF Ops
  <2>4. CallTypes'
    BY ZenonT(60), <1>5, <2>3 DEF Commit, CommitLate, CallTypes, callVars
  <2> QED BY <2>2, <2>4
<1>6. ASSUME NEW c \in Calls, Break(c) PROVE Types'
  <2>1. NoOp \in Ops
    BY DEF Ops
  <2> QED BY <1>6, <2>1 DEF Break, CallTypes, TableTypes, tableVars
<1>7. CASE Quiet
  <2>1. latest' \in 1..Len(Cards)
    <3>1. Len(Cards) \in Nat
      BY RecordsAssumption, LenProperties
    <3> QED BY <1>7, <3>1 DEF Quiet, EndReport, DeployRates, BeginSpend, BeginListing, CallTypes
  <2> QED BY <1>7, <2>1 DEF Quiet, EndReport, DeployRates, BeginSpend, BeginListing, CallTypes,
                            TableTypes, callVars, tableVars
<1>8. CASE UNCHANGED vars
  BY <1>8 DEF vars, CallTypes, TableTypes, callVars, tableVars
<1> QED BY <1>1, <1>2, <1>3, <1>4, <1>5, <1>6, <1>7, <1>8 DEF Next, Quiet

-----------------------------------------------------------------------------
(***************************************************************************)
(* The invariant, call by call: where a call stands, what it has sent, and *)
(* what the tables have of it.                                             *)
(***************************************************************************)
Running == {"adding", "recording", "ending"}

Recorded(c, i) == <<c, i>> \in DOMAIN turnRows
Last(c) == Len(turns[c])

(* A transaction is on its way exactly while its call waits for it, and    *)
(* holds what the call last billed.                                        *)
OpInv(c) ==
    /\ op[c].type # "none" <=> (pc[c] \in Running /\ answer[c] = "none")
    /\ pc[c] \notin Running => answer[c] = "none"
    /\ op[c].type = "add" => pc[c] = "adding"
    /\ op[c].type = "turn" =>
        pc[c] = "recording" /\ op[c].index = Last(c) /\ op[c].row = Row(turns[c][Last(c)])
    /\ op[c].type = "end" =>
        /\ pc[c] = "ending" /\ op[c].row = Row(closing[c])
        /\ op[c].status = IF failed[c] THEN "failed" ELSE "completed"
    /\ pc[c] = "recording" => Last(c) > 0

(* One that its caller gave up has not been applied, its call has failed   *)
(* or hears of the failure next, and a call that it would complete has all *)
(* its turns in the table.                                                 *)
LateInv(c) ==
    /\ late[c].type = "add" =>
        /\ pc[c] \in {"adding", "over"} /\ (pc[c] = "adding" => answer[c] = "error")
        /\ c \notin DOMAIN callRows
    /\ late[c].type = "turn" =>
        /\ c \in DOMAIN callRows
        /\ late[c].index \in 1..Last(c) /\ late[c].row = Row(turns[c][late[c].index])
        /\ ~Recorded(c, late[c].index)
        /\ failed[c] \/ (pc[c] = "recording" /\ answer[c] = "error")
        /\ op[c].type = "turn" => late[c].index < Last(c)
    /\ late[c].type = "end" =>
        /\ pc[c] \in {"ending", "over"} /\ op[c].type = "none"
        /\ late[c].row = Row(closing[c])
        /\ c \in DOMAIN callRows /\ callRows[c].status = "active"
        /\ late[c].status = "completed" => \A i \in 1..Last(c) : Recorded(c, i)

(* The row of a call is the call's, its closing segment once it has ended; *)
(* a completed one has every turn and nothing is on its way to it.         *)
RowInv(c) ==
    /\ pc[c] \in {"new", "adding"} => turns[c] = <<>>
    /\ pc[c] = "new" => startedAt[c] = 0 /\ late[c].type = "none"
    /\ c \notin DOMAIN callRows =>
        /\ pc[c] \in {"new", "adding", "over"} /\ turns[c] = <<>>
        /\ pc[c] = "adding" => answer[c] # "ok"
    /\ c \in DOMAIN callRows =>
        /\ pc[c] # "new" /\ op[c].type # "add" /\ late[c].type # "add"
        /\ callRows[c].kind = kind[c] /\ callRows[c].startedAt = startedAt[c]
        /\ callRows[c].status = "active" => callRows[c].closing = Row(Unbilled)
        /\ callRows[c].status # "active" =>
            /\ pc[c] \in {"ending", "over"} /\ op[c].type = "none" /\ late[c].type # "end"
            /\ callRows[c].closing = Row(closing[c])
        /\ callRows[c].status = "completed" =>
            late[c].type = "none" /\ \A i \in 1..Last(c) : Recorded(c, i)

(* A row of turns is a turn of its call.                                   *)
TurnInv(c) ==
    /\ \A i \in 1..MaxTurns : Recorded(c, i) =>
        /\ c \in DOMAIN callRows /\ i \in 1..Last(c)
        /\ turnRows[<<c, i>>] = Row(turns[c][i])
    /\ op[c].type = "turn" => ~Recorded(c, Last(c))

(* A call that has not failed has every turn in the table but the one it   *)
(* is recording.                                                           *)
WholeInv(c) ==
    ~failed[c] /\ answer[c] # "error" /\ pc[c] \in {"talking", "recording", "ending"} =>
        /\ late[c].type = "none"
        /\ \A i \in 1..Last(c) : Recorded(c, i) \/ (op[c].type = "turn" /\ i = Last(c))

(* What a call billed, it billed at the rates of its card.                 *)
BillInv(c) ==
    /\ \A i \in 1..Last(c) : turns[c][i] \in {BilledBy(cardOf[c], kind[c], s) : s \in Segments}
    /\ closing[c] \in {Unbilled, Billed(c, LastSegment)}
    /\ pc[c] \notin {"ending", "over"} => closing[c] = Unbilled
    /\ pc[c] # "new" => startedAt[c] \in 1..Cardinality(Calls)

CallInv(c) ==
    OpInv(c) /\ LateInv(c) /\ RowInv(c) /\ TurnInv(c) /\ WholeInv(c) /\ BillInv(c)
Calling == \A c \in Calls : CallInv(c)

(* The sum over whole calls is that over the two tables.                   *)
SpendInv == \A k \in Kinds : Spend(k) = ClosingTotal(k) + TurnTotal(k)

(* What a report has read so far is what its first select found.           *)
Reads ==
    /\ reading.type = "spend" =>
        /\ reading.kind \in Kinds /\ {reading.closing, reading.atLeast} \subseteq Int
        /\ reading.atLeast <= reading.closing + TurnTotal(reading.kind)
        /\ reading.closing <= ClosingTotal(reading.kind)
    /\ reading.type = "listing" =>
        /\ DOMAIN reading.rows \subseteq DOMAIN callRows
        /\ reading.rows \in [DOMAIN reading.rows -> CallRow]
        /\ \A c \in DOMAIN reading.rows :
            /\ reading.rows[c].kind = kind[c]
            /\ reading.rows[c].closing \in {Row(Unbilled), Row(closing[c])}
            /\ reading.rows[c].status = "completed" => reading.rows[c] = callRows[c]

-----------------------------------------------------------------------------
(* Nothing of a call or of its rows changes.                               *)
Same(c) ==
    /\ kind'[c] = kind[c] /\ startedAt'[c] = startedAt[c] /\ pc'[c] = pc[c]
    /\ cardOf'[c] = cardOf[c] /\ turns'[c] = turns[c] /\ closing'[c] = closing[c]
    /\ failed'[c] = failed[c] /\ answer'[c] = answer[c]
    /\ op'[c] = op[c] /\ late'[c] = late[c]

SameRow(c) ==
    /\ c \in DOMAIN callRows' <=> c \in DOMAIN callRows
    /\ c \in DOMAIN callRows => callRows'[c] = callRows[c]

SameTurns(c) ==
    \A i \in 1..MaxTurns :
        /\ <<c, i>> \in DOMAIN turnRows' <=> <<c, i>> \in DOMAIN turnRows
        /\ <<c, i>> \in DOMAIN turnRows => turnRows'[<<c, i>>] = turnRows[<<c, i>>]

LEMMA LastType ==
    ASSUME Types, NEW c \in Calls
    PROVE  Last(c) \in 0..MaxTurns /\ MaxTurns \in Nat /\ 1..Last(c) \subseteq 1..MaxTurns
<1>1. Len(turns[c]) \in Nat /\ Len(turns[c]) <= MaxTurns /\ MaxTurns \in Nat
  BY LenProperties, RecordsAssumption DEF Types, CallTypes
<1> QED BY <1>1 DEF Last

LEMMA CallFrame ==
    ASSUME Types, NEW c \in Calls, Same(c), SameRow(c), SameTurns(c), CallInv(c)
    PROVE  CallInv(c)'
<1>1. Last(c)' = Last(c) /\ 1..Last(c) \subseteq 1..MaxTurns /\ (Last(c) > 0 => Last(c) \in 1..MaxTurns)
      /\ Last(c) \in Nat
  BY LastType DEF Last, Same
<1>2. \A i \in 1..MaxTurns : Recorded(c, i)' <=> Recorded(c, i)
  BY DEF SameTurns, Recorded
<1>3. OpInv(c)'
  BY <1>1 DEF CallInv, OpInv, Same
<1>4. LateInv(c)'
  BY <1>1, <1>2 DEF CallInv, LateInv, Same, SameRow
<1>5. RowInv(c)'
  BY <1>1, <1>2 DEF CallInv, RowInv, Same, SameRow
<1>6. TurnInv(c)'
  BY <1>1, <1>2 DEF CallInv, TurnInv, OpInv, Same, SameRow, SameTurns, Recorded
<1>7. WholeInv(c)'
  BY <1>1, <1>2 DEF CallInv, WholeInv, Same
<1>8. BillInv(c)'
  BY <1>1 DEF CallInv, BillInv, Same, Billed
<1> QED BY <1>3, <1>4, <1>5, <1>6, <1>7, <1>8 DEF CallInv

Others(c) == \A d \in Calls \ {c} : Same(d)

LEMMA OthersFrame ==
    ASSUME Types, Calling, NEW c \in Calls, Others(c), CallInv(c)',
           \A d \in Calls \ {c} : SameRow(d) /\ SameTurns(d)
    PROVE  Calling'
<1>1. \A d \in Calls \ {c} : CallInv(d)'
  BY CallFrame DEF Calling, Others
<1> QED BY <1>1 DEF Calling

LEMMA TablesStay ==
    ASSUME UNCHANGED tableVars
    PROVE  \A d \in Calls : SameRow(d) /\ SameTurns(d)
BY DEF tableVars, SameRow, SameTurns

LEMMA OpKinds ==
    ASSUME Types
    PROVE  \A d \in Calls : /\ op[d].type \in {"none", "add", "turn", "end"}
                            /\ late[d].type \in {"none", "add", "turn", "end"}
                            /\ op[d] = NoOp <=> op[d].type = "none"
                            /\ late[d] = NoOp <=> late[d].type = "none"
<1>1. \A d \in Calls : op[d] \in Ops /\ late[d] \in Ops
  BY DEF Types, CallTypes
<1> QED BY <1>1, OpTypes

LEMMA StartCalling ==
    ASSUME Types, Types', Calling, NEW c \in Calls, StartCall(c)
    PROVE  Calling'
<1>1. CallInv(c) /\ pc[c] = "new" /\ turns[c] = <<>> /\ startedAt[c] = 0 /\ late[c].type = "none"
  BY DEF Calling, CallInv, RowInv, StartCall
<1>2. /\ pc'[c] = "adding" /\ op'[c].type = "add" /\ answer'[c] = "none" /\ cardOf'[c] = latest
      /\ startedAt'[c] = 1 + Cardinality({o \in Calls : startedAt[o] > 0})
      /\ UNCHANGED <<kind, turns, closing, failed, late, callRows, turnRows>>
  BY DEF StartCall, Send, Types, CallTypes, tableVars
<1>3. Others(c)
  BY DEF Others, Same, StartCall, Send, Types, CallTypes
<1>4. startedAt'[c] \in 1..Cardinality(Calls)
  <2> DEFINE S == {o \in Calls : startedAt[o] > 0}
  <2>1. S \in SUBSET Calls /\ c \in Calls /\ c \notin S
    BY <1>1
  <2> HIDE DEF S
  <2>2. IsFiniteSet(Calls)
    BY RecordsAssumption
  <2>3. IsFiniteSet(S) /\ Cardinality(S) <= Cardinality(Calls)
        /\ (Cardinality(S) = Cardinality(Calls) => S = Calls)
    BY <2>1, <2>2, FS_Subset
  <2>4. Cardinality(S) \in Nat /\ Cardinality(Calls) \in Nat
    BY <2>2, <2>3, FS_CardinalityType
  <2>5. Cardinality(S) < Cardinality(Calls)
    BY <2>1, <2>3, <2>4
  <2> QED BY <1>2, <2>4, <2>5 DEF S
<1>5. Last(c) = 0 /\ Last(c)' = 0 /\ c \notin DOMAIN callRows
  BY <1>1, <1>2, EmptySeq DEF Last, CallInv, RowInv
<1>6. OpInv(c)'
  BY <1>2, <1>5, OpKinds DEF OpInv, Running
<1>7. LateInv(c)' /\ RowInv(c)' /\ WholeInv(c)'
  BY <1>1, <1>2, <1>5, OpKinds DEF LateInv, RowInv, WholeInv
<1>8. TurnInv(c)'
  BY <1>1, <1>2, <1>5 DEF CallInv, TurnInv, Recorded
<1>9. BillInv(c)'
  <2>1. closing[c] = Unbilled
    BY <1>1 DEF CallInv, RowInv, BillInv
  <2> QED BY <1>2, <1>4, <1>5, <2>1 DEF BillInv, Billed
<1> QED BY <1>2, <1>3, <1>6, <1>7, <1>8, <1>9, OthersFrame, TablesStay
        DEF CallInv, tableVars

LEMMA RecordCalling ==
    ASSUME Types, Types', Calling, NEW c \in Calls, NEW segment \in Segments,
           RecordTurn(c, segment)
    PROVE  Calling'
<1> DEFINE b == Billed(c, segment)
<1>1. CallInv(c) /\ pc[c] = "talking" /\ c \in DOMAIN callRows /\ answer[c] = "none"
      /\ op[c].type = "none" /\ late[c].type \in {"none", "turn"}
  <2>1. CallInv(c) /\ pc[c] = "talking"
    BY DEF Calling, RecordTurn
  <2> QED BY <2>1, OpKinds DEF CallInv, OpInv, LateInv, RowInv, Running
<1>2. /\ pc'[c] = "recording" /\ answer'[c] = "none" /\ turns'[c] = Append(turns[c], b)
      /\ op'[c] = [type |-> "turn", index |-> Len(turns'[c]), row |-> Row(b)]
      /\ UNCHANGED <<kind, startedAt, cardOf, closing, failed, late, callRows, turnRows>>
  BY DEF RecordTurn, Send, Types, CallTypes, tableVars
<1>3. Others(c)
  BY DEF Others, Same, RecordTurn, Send, Types, CallTypes
<1>4. b \in Bills /\ b = BilledBy(cardOf[c], kind[c], segment)
  BY BilledType DEF Billed, Types, CallTypes
<1> HIDE DEF b
<1>5. /\ Last(c) \in Nat /\ Last(c)' = Last(c) + 1 /\ turns'[c][Last(c) + 1] = b
      /\ \A i \in 1..Last(c) : turns'[c][i] = turns[c][i]
  <2>1. turns[c] \in Seq(Bills)
    BY DEF Types, CallTypes
  <2> QED BY <1>2, <1>4, <2>1, AppendProperties, LenProperties DEF Last
<1>6. ~Recorded(c, Last(c) + 1)
  <2>1. Last(c) + 1 \notin 1..Last(c)
    BY <1>5
  <2>2. Last(c) + 1 \in 1..MaxTurns
    BY LastType, <1>5 DEF RecordTurn, Last
  <2> QED BY <1>1, <2>1, <2>2 DEF CallInv, TurnInv
<1>7. /\ op'[c].type = "turn" /\ op'[c].index = Last(c)' /\ op'[c].row = Row(turns'[c][Last(c)'])
      /\ Last(c)' > 0
      /\ \A i \in 1..Last(c) : i \in 1..Last(c)' /\ i < Last(c)'
      /\ \A i \in 1..Last(c)' : i \in 1..Last(c) \/ i = Last(c)'
  BY <1>2, <1>5 DEF Last
<1>8. OpInv(c)'
  BY <1>2, <1>7 DEF OpInv, Running
<1>9. LateInv(c)'
  BY <1>1, <1>2, <1>5, <1>7 DEF CallInv, LateInv, Recorded
<1>10. RowInv(c)'
  BY <1>1, <1>2 DEF CallInv, RowInv
<1>11. TurnInv(c)'
  BY <1>1, <1>2, <1>5, <1>6, <1>7 DEF CallInv, TurnInv, Recorded
<1>12. WholeInv(c)'
  BY <1>1, <1>2, <1>5, <1>7 DEF CallInv, WholeInv, Recorded
<1>13. BillInv(c)'
  BY <1>1, <1>2, <1>4, <1>5, <1>7 DEF CallInv, BillInv, Billed
<1> QED BY <1>2, <1>3, <1>8, <1>9, <1>10, <1>11, <1>12, <1>13, OthersFrame, TablesStay
        DEF CallInv, tableVars

LEMMA EndCalling ==
    ASSUME Types, Types', Calling, NEW c \in Calls, EndCall(c)
    PROVE  Calling'
<1> DEFINE b == Billed(c, LastSegment)
<1>1. CallInv(c) /\ pc[c] = "talking" /\ c \in DOMAIN callRows /\ answer[c] = "none"
      /\ op[c].type = "none" /\ late[c].type \in {"none", "turn"} /\ callRows[c].status = "active"
  <2>1. CallInv(c) /\ pc[c] = "talking"
    BY DEF Calling, EndCall
  <2> QED BY <2>1, OpKinds DEF CallInv, OpInv, LateInv, RowInv, Running
<1>2. /\ pc'[c] = "ending" /\ answer'[c] = "none" /\ closing'[c] = b
      /\ op'[c] = [type |-> "end", row |-> Row(b),
                   status |-> IF failed[c] THEN "failed" ELSE "completed"]
      /\ UNCHANGED <<kind, startedAt, cardOf, turns, failed, late, callRows, turnRows>>
  BY DEF EndCall, Send, Types, CallTypes, tableVars
<1>3. Others(c)
  BY DEF Others, Same, EndCall, Send, Types, CallTypes
<1>4. b' = b /\ b = Billed(c, LastSegment)
  BY <1>2 DEF Billed
<1> HIDE DEF b
<1>5. Last(c)' = Last(c)
  BY <1>2 DEF Last
<1>6. OpInv(c)'
  BY <1>2 DEF OpInv, Running
<1>7. LateInv(c)' /\ RowInv(c)' /\ TurnInv(c)' /\ WholeInv(c)'
  BY <1>1, <1>2, <1>5 DEF CallInv, LateInv, RowInv, TurnInv, WholeInv, Recorded
<1>8. BillInv(c)'
  BY <1>1, <1>2, <1>4, <1>5 DEF CallInv, BillInv, Billed
<1> QED BY <1>2, <1>3, <1>6, <1>7, <1>8, OthersFrame, TablesStay DEF CallInv, tableVars

LEMMA ProceedCalling ==
    ASSUME Types, Types', Calling, NEW c \in Calls, Proceed(c)
    PROVE  Calling'
<1>1. CallInv(c) /\ pc[c] \in Running /\ answer[c] \in {"ok", "error"} /\ op[c].type = "none"
  <2>1. CallInv(c) /\ pc[c] \in Running /\ answer[c] \in {"ok", "error"}
    BY DEF Calling, Proceed, Running, Types, CallTypes
  <2> QED BY <2>1 DEF CallInv, OpInv
<1>2. /\ pc'[c] = IF pc[c] = "ending" \/ (pc[c] = "adding" /\ answer[c] = "error") THEN "over"
                  ELSE "talking"
      /\ failed'[c] = (failed[c] \/ answer[c] = "error") /\ answer'[c] = "none"
      /\ UNCHANGED <<kind, startedAt, cardOf, turns, closing, op, late, callRows, turnRows>>
  BY DEF Proceed, Types, CallTypes, tableVars
<1>3. Others(c)
  BY DEF Others, Same, Proceed, Types, CallTypes
<1>4. Last(c)' = Last(c) /\ (pc[c] = "adding" => Last(c) = 0)
  BY <1>1, <1>2, EmptySeq DEF Last, CallInv, RowInv
<1>5. OpInv(c)'
  BY <1>1, <1>2, <1>4 DEF CallInv, OpInv, Running
<1>6. LateInv(c)'
  BY <1>1, <1>2, <1>4 DEF CallInv, LateInv, RowInv, Running, Recorded
<1>7. RowInv(c)' /\ TurnInv(c)'
  BY <1>1, <1>2, <1>4 DEF CallInv, RowInv, TurnInv, Running, Recorded
<1>8. WholeInv(c)'
  <2>1. CASE pc[c] = "adding"
    BY <2>1, <1>1, <1>2, <1>4, OpKinds DEF CallInv, LateInv, RowInv, WholeInv, Recorded
  <2>2. CASE pc[c] \in {"recording", "ending"}
    BY <2>2, <1>1, <1>2, <1>4 DEF CallInv, WholeInv, Recorded
  <2> QED BY <1>1, <2>1, <2>2 DEF Running
<1>9. BillInv(c)'
  BY <1>1, <1>2, <1>4 DEF CallInv, BillInv, Billed, Running
<1> QED BY <1>2, <1>3, <1>5, <1>6, <1>7, <1>8, <1>9, OthersFrame, TablesStay
        DEF CallInv, tableVars

LEMMA SessionFailsCalling ==
    ASSUME Types, Types', Calling, NEW c \in Calls, SessionFails(c)
    PROVE  Calling'
<1>1. CallInv(c) /\ pc[c] = "talking" /\ op[c].type # "end"
  <2>1. CallInv(c) /\ pc[c] = "talking"
    BY DEF Calling, SessionFails
  <2> QED BY <2>1 DEF CallInv, OpInv
<1>2. /\ failed'[c] = TRUE
      /\ UNCHANGED <<kind, startedAt, pc, cardOf, turns, closing, answer, op, late, callRows, turnRows>>
  BY DEF SessionFails, Types, CallTypes, tableVars
<1>3. Others(c)
  BY DEF Others, Same, SessionFails, Types, CallTypes
<1>4. CallInv(c)'
  BY <1>1, <1>2
     DEF CallInv, OpInv, LateInv, RowInv, TurnInv, WholeInv, BillInv, Billed, Last, Recorded
<1> QED BY <1>2, <1>3, <1>4, OthersFrame, TablesStay DEF tableVars

LEMMA BreakCalling ==
    ASSUME Types, Types', Calling, NEW c \in Calls, Break(c)
    PROVE  Calling'
<1>1. CallInv(c) /\ op[c].type # "none" /\ pc[c] \in Running /\ answer[c] = "none"
  <2>1. CallInv(c) /\ op[c].type # "none"
    BY OpKinds DEF Calling, Break
  <2> QED BY <2>1 DEF CallInv, OpInv
<1>2. /\ op'[c].type = "none" /\ answer'[c] = "error"
      /\ late'[c] = late[c] \/ late'[c] = op[c]
      /\ UNCHANGED <<kind, startedAt, pc, cardOf, turns, closing, failed, callRows, turnRows>>
  BY DEF Break, Types, CallTypes, tableVars, NoOp
<1>3. Others(c)
  BY DEF Others, Same, Break, Types, CallTypes
<1>4. Last(c)' = Last(c) /\ Last(c) \in Nat
  BY <1>2, LastType DEF Last
<1>5. OpInv(c)'
  BY <1>1, <1>2, <1>4 DEF CallInv, OpInv, Running
<1>6. LateInv(c)'
  <2>1. CASE late'[c] = late[c]
    BY <2>1, <1>1, <1>2, <1>4 DEF CallInv, LateInv, Recorded
  <2>2. CASE late'[c] = op[c]
    <3>1. op[c].type = "add" => LateInv(c)'
      BY <2>2, <1>1, <1>2 DEF CallInv, OpInv, LateInv, RowInv
    <3>2. ASSUME op[c].type = "turn" PROVE LateInv(c)'
      <4>1. pc[c] = "recording" /\ op[c].index = Last(c) /\ op[c].row = Row(turns[c][Last(c)])
            /\ Last(c) > 0 /\ c \in DOMAIN callRows /\ ~Recorded(c, Last(c))
        BY <1>1, <3>2 DEF CallInv, OpInv, RowInv, TurnInv
      <4> QED BY <2>2, <3>2, <4>1, <1>2, <1>4 DEF LateInv, Recorded
    <3>3. ASSUME op[c].type = "end" PROVE LateInv(c)'
      <4>1. pc[c] = "ending" /\ op[c].row = Row(closing[c]) /\ c \in DOMAIN callRows
            /\ op[c].status = IF failed[c] THEN "failed" ELSE "completed"
        BY <1>1, <3>3 DEF CallInv, OpInv, RowInv
      <4>2. callRows[c].status = "active"
        BY <1>1, <4>1 DEF CallInv, RowInv
      <4>3. op[c].status = "completed" => \A i \in 1..Last(c) : Recorded(c, i)
        BY <1>1, <3>3, <4>1 DEF CallInv, WholeInv, Types, CallTypes
      <4> QED BY <2>2, <3>3, <4>1, <4>2, <4>3, <1>2, <1>4 DEF LateInv, Recorded
    <3> QED BY <3>1, <3>2, <3>3, <1>1, OpKinds
  <2> QED BY <1>2, <2>1, <2>2
<1>7. RowInv(c)'
  BY <1>1, <1>2, <1>4 DEF CallInv, OpInv, RowInv, Running, Recorded
<1>8. TurnInv(c)' /\ WholeInv(c)' /\ BillInv(c)'
  BY <1>1, <1>2, <1>4 DEF CallInv, TurnInv, WholeInv, BillInv, Billed, Recorded
<1> QED BY <1>2, <1>3, <1>5, <1>6, <1>7, <1>8, OthersFrame, TablesStay DEF CallInv, tableVars

-----------------------------------------------------------------------------
(* The tables after a transaction, row by row.                             *)
CallRowWritten(c, row) ==
    /\ DOMAIN callRows' = DOMAIN callRows \cup {c} /\ callRows'[c] = row
    /\ \A d \in DOMAIN callRows : d # c => callRows'[d] = callRows[d]

TurnRowWritten(c, i, row) ==
    /\ DOMAIN turnRows' = DOMAIN turnRows \cup {<<c, i>>} /\ turnRows'[<<c, i>>] = row
    /\ \A t \in DOMAIN turnRows : t # <<c, i>> => turnRows'[t] = turnRows[t]

LEMMA Written ==
    ASSUME NEW c, NEW o, Writes(c, o)
    PROVE  /\ o.type = "add" =>
               c \notin DOMAIN callRows /\ CallRowWritten(c, AddedRow(c)) /\ turnRows' = turnRows
           /\ o.type = "turn" =>
               c \in DOMAIN callRows /\ callRows' = callRows /\ TurnRowWritten(c, o.index, o.row)
           /\ o.type = "end" =>
               c \in DOMAIN callRows /\ CallRowWritten(c, EndedRow(c, o)) /\ turnRows' = turnRows
           /\ o.type \in {"add", "turn", "end"}
<1>1. CASE o.type = "add"
  <2>1. callRows' = Put(callRows, c, AddedRow(c)) /\ c \notin DOMAIN callRows /\ turnRows' = turnRows
    BY <1>1 DEF Writes
  <2> QED BY <1>1, <2>1 DEF Put, CallRowWritten
<1>2. CASE o.type = "turn"
  <2>1. turnRows' = Put(turnRows, <<c, o.index>>, o.row) /\ c \in DOMAIN callRows /\ callRows' = callRows
    BY <1>2 DEF Writes
  <2> DEFINE k == <<c, o.index>>
  <2>2. turnRows' = Put(turnRows, k, o.row)
    BY <2>1
  <2> HIDE DEF k
  <2>3. /\ DOMAIN turnRows' = DOMAIN turnRows \cup {k} /\ turnRows'[k] = o.row
        /\ \A t \in DOMAIN turnRows : t # k => turnRows'[t] = turnRows[t]
    BY <2>2 DEF Put
  <2>4. TurnRowWritten(c, o.index, o.row)
    BY <2>3 DEF k, TurnRowWritten
  <2> QED BY <1>2, <2>1, <2>4
<1>3. CASE o.type = "end"
  <2>1. callRows' = Put(callRows, c, EndedRow(c, o)) /\ c \in DOMAIN callRows /\ turnRows' = turnRows
    BY <1>3 DEF Writes
  <2> QED BY <1>3, <2>1 DEF Put, CallRowWritten
<1> QED BY <1>1, <1>2, <1>3 DEF Writes

LEMMA WritesFrame ==
    ASSUME Types, NEW c \in Calls, NEW o \in Ops, Writes(c, o)
    PROVE  \A d \in Calls \ {c} : SameRow(d) /\ SameTurns(d)
<1>1. \A d \in Calls \ {c} : SameRow(d)
  BY Written DEF CallRowWritten, SameRow
<1>2. \A d \in Calls \ {c}, i, j \in 1..MaxTurns : <<d, i>> # <<c, j>>
  OBVIOUS
<1>3. o.type = "turn" => o.index \in 1..MaxTurns
  BY OpTypes
<1>4. \A d \in Calls \ {c}, i \in 1..MaxTurns :
        /\ <<d, i>> \in DOMAIN turnRows' <=> <<d, i>> \in DOMAIN turnRows
        /\ <<d, i>> \in DOMAIN turnRows => turnRows'[<<d, i>>] = turnRows[<<d, i>>]
  <2>1. CASE o.type = "turn"
    <3>1. TurnRowWritten(c, o.index, o.row) /\ o.index \in 1..MaxTurns
      BY <1>3, <2>1, Written
    <3>2. \A d \in Calls \ {c}, i \in 1..MaxTurns : <<d, i>> # <<c, o.index>>
      BY <1>2, <3>1
    <3> QED BY <3>1, <3>2 DEF TurnRowWritten
  <2>2. CASE o.type # "turn"
    BY <2>2, Written
  <2> QED BY <2>1, <2>2
<1> QED BY <1>1, <1>4 DEF SameTurns

LEMMA TurnWritten ==
    ASSUME NEW c, NEW j \in 1..MaxTurns, NEW row, TurnRowWritten(c, j, row)
    PROVE  /\ Recorded(c, j)' /\ turnRows'[<<c, j>>] = row
           /\ \A i \in 1..MaxTurns : i # j =>
               /\ Recorded(c, i)' <=> Recorded(c, i)
               /\ Recorded(c, i) => turnRows'[<<c, i>>] = turnRows[<<c, i>>]
<1>1. \A i \in 1..MaxTurns : i # j => <<c, i>> # <<c, j>>
  OBVIOUS
<1> QED BY <1>1 DEF TurnRowWritten, Recorded

(* What a call sends is always accepted: only its own row is looked for.   *)
LEMMA CommitWrites ==
    ASSUME Types, Calling, NEW c \in Calls, Commit(c)
    PROVE  op[c] \in Ops /\ Writes(c, op[c]) /\ answer'[c] = "ok"
<1>1. CallInv(c) /\ op[c] \in Ops /\ op[c].type # "none"
  BY OpKinds DEF Calling, Commit, Types, CallTypes
<1>2. Accepted(c, op[c])
  BY <1>1, OpTypes DEF CallInv, OpInv, RowInv, Accepted
<1>3. Applied(c, op[c])
  BY <1>2 DEF Commit
<1>4. answer'[c] = "ok"
  BY <1>2 DEF Commit, Types, CallTypes
<1> QED BY <1>1, <1>2, <1>3, <1>4, AcceptedWrites

LEMMA CommitLateWrites ==
    ASSUME Types, Calling, NEW c \in Calls, CommitLate(c)
    PROVE  late[c] \in Ops /\ Writes(c, late[c])
<1>1. CallInv(c) /\ late[c] \in Ops /\ late[c].type # "none"
  BY OpKinds DEF Calling, CommitLate, Types, CallTypes
<1>2. Accepted(c, late[c])
  BY <1>1, OpTypes DEF CallInv, LateInv, Accepted
<1>3. Applied(c, late[c])
  BY <1>2 DEF CommitLate
<1> QED BY <1>1, <1>2, <1>3, AcceptedWrites

LEMMA CommitCalling ==
    ASSUME Types, Types', Calling, NEW c \in Calls, Commit(c)
    PROVE  Calling'
<1>1. CallInv(c) /\ op[c].type # "none" /\ pc[c] \in Running /\ answer[c] = "none"
  <2>1. CallInv(c) /\ op[c].type # "none"
    BY OpKinds DEF Calling, Commit
  <2> QED BY <2>1 DEF CallInv, OpInv
<1>2. /\ op'[c].type = "none"
      /\ UNCHANGED <<kind, startedAt, pc, cardOf, turns, closing, failed, late>>
  BY DEF Commit, Types, CallTypes, NoOp
<1>3. Writes(c, op[c]) /\ answer'[c] = "ok" /\ \A d \in Calls \ {c} : SameRow(d) /\ SameTurns(d)
  BY CommitWrites, WritesFrame
<1>4. Others(c)
  BY DEF Others, Same, Commit, Types, CallTypes
<1>5. /\ Last(c)' = Last(c) /\ Last(c) \in 0..MaxTurns /\ MaxTurns \in Nat
      /\ \A i \in 1..Last(c) : i \in 1..MaxTurns
  BY <1>2, LastType DEF Last
<1>6. OpInv(c)' /\ BillInv(c)'
  BY <1>1, <1>2, <1>3, <1>5 DEF CallInv, OpInv, BillInv, Billed, Running
<1>7. CASE op[c].type = "add"
  <2>1. /\ c \in DOMAIN callRows' /\ callRows'[c] = AddedRow(c) /\ turnRows' = turnRows
        /\ pc[c] = "adding" /\ c \notin DOMAIN callRows
    BY <1>1, <1>3, <1>7, Written DEF CallRowWritten, CallInv, OpInv
  <2>2. turns[c] = <<>> /\ Last(c) = 0
    BY <1>1, <2>1, EmptySeq DEF CallInv, RowInv, Last
  <2>3. late[c].type = "none"
    BY <1>1, <2>1, <2>2, OpKinds DEF CallInv, LateInv
  <2>4. LateInv(c)'
    BY <1>2, <2>3 DEF LateInv
  <2>5. RowInv(c)'
    BY <1>1, <1>2, <2>1, <2>2, <2>3 DEF RowInv, AddedRow
  <2>6. TurnInv(c)' /\ WholeInv(c)'
    BY <1>1, <1>2, <1>3, <1>5, <2>1, <2>2, <2>3 DEF CallInv, TurnInv, WholeInv, Recorded
  <2> QED BY <1>3, <1>4, <1>6, <2>4, <2>5, <2>6, OthersFrame DEF CallInv
<1>8. CASE op[c].type = "turn"
  <2>1. /\ c \in DOMAIN callRows /\ callRows' = callRows
        /\ TurnRowWritten(c, Last(c), Row(turns[c][Last(c)]))
        /\ pc[c] = "recording" /\ Last(c) > 0
    BY <1>1, <1>3, <1>8, Written DEF CallInv, OpInv
  <2>2. /\ Recorded(c, Last(c))' /\ turnRows'[<<c, Last(c)>>] = Row(turns[c][Last(c)])
        /\ \A i \in 1..MaxTurns : i # Last(c) =>
            /\ Recorded(c, i)' <=> Recorded(c, i)
            /\ Recorded(c, i) => turnRows'[<<c, i>>] = turnRows[<<c, i>>]
    BY <1>5, <2>1, TurnWritten
  <2>3. late[c].type \in {"none", "turn"} /\ (late[c].type = "turn" => late[c].index < Last(c))
    BY <1>1, <1>8, <2>1, OpKinds DEF CallInv, LateInv
  <2>4. LateInv(c)'
    BY <1>1, <1>2, <1>5, <2>1, <2>2, <2>3 DEF CallInv, LateInv, Recorded
  <2>5. RowInv(c)'
    BY <1>1, <1>2, <1>5, <1>8, <2>1, <2>2 DEF CallInv, RowInv
  <2>6. TurnInv(c)'
    BY <1>1, <1>2, <1>5, <2>1, <2>2 DEF CallInv, TurnInv
  <2>7. WholeInv(c)'
    BY <1>1, <1>2, <1>5, <2>1, <2>2 DEF CallInv, WholeInv
  <2> QED BY <1>3, <1>4, <1>6, <2>4, <2>5, <2>6, <2>7, OthersFrame DEF CallInv
<1>9. CASE op[c].type = "end"
  <2>1. /\ c \in DOMAIN callRows /\ turnRows' = turnRows /\ c \in DOMAIN callRows'
        /\ callRows'[c] = EndedRow(c, op[c]) /\ pc[c] = "ending"
        /\ op[c].row = Row(closing[c])
        /\ op[c].status = IF failed[c] THEN "failed" ELSE "completed"
    BY <1>1, <1>3, <1>9, Written DEF CallRowWritten, CallInv, OpInv
  <2>2. callRows[c] \in CallRow
    BY <2>1 DEF Types, TableTypes
  <2>3. /\ callRows'[c].status = op[c].status /\ callRows'[c].closing = Row(closing[c])
        /\ callRows'[c].kind = callRows[c].kind /\ callRows'[c].startedAt = callRows[c].startedAt
    BY <2>1, <2>2 DEF EndedRow, CallRow
  <2>4. \A i \in 1..MaxTurns : Recorded(c, i)' <=> Recorded(c, i)
    BY <2>1 DEF Recorded
  <2>5. late[c].type \in {"none", "turn"}
    BY <1>1, <1>9, <2>1, OpKinds DEF CallInv, LateInv
  <2>6. op[c].status = "completed" => late[c].type = "none" /\ \A i \in 1..Last(c) : Recorded(c, i)
    BY <1>1, <1>9, <2>1 DEF CallInv, WholeInv, Types, CallTypes
  <2>7. LateInv(c)'
    BY <1>1, <1>2, <1>5, <2>1, <2>4, <2>5 DEF CallInv, LateInv
  <2>8. RowInv(c)'
    BY <1>1, <1>2, <1>5, <2>1, <2>3, <2>4, <2>5, <2>6 DEF CallInv, RowInv
  <2>9. TurnInv(c)' /\ WholeInv(c)'
    BY <1>1, <1>2, <1>5, <1>9, <2>1, <2>4 DEF CallInv, TurnInv, WholeInv, Recorded
  <2> QED BY <1>3, <1>4, <1>6, <2>7, <2>8, <2>9, OthersFrame DEF CallInv
<1> QED BY <1>1, <1>7, <1>8, <1>9, OpKinds

LEMMA CommitLateCalling ==
    ASSUME Types, Types', Calling, NEW c \in Calls, CommitLate(c)
    PROVE  Calling'
<1>1. CallInv(c) /\ late[c].type # "none"
  BY OpKinds DEF Calling, CommitLate
<1>2. /\ late'[c].type = "none"
      /\ UNCHANGED <<kind, startedAt, pc, cardOf, turns, closing, failed, answer, op>>
  BY DEF CommitLate, Types, CallTypes, NoOp, callVars
<1>3. Writes(c, late[c]) /\ \A d \in Calls \ {c} : SameRow(d) /\ SameTurns(d)
  BY CommitLateWrites, WritesFrame
<1>4. Others(c)
  BY DEF Others, Same, CommitLate, Types, CallTypes, callVars
<1>5. /\ Last(c)' = Last(c) /\ Last(c) \in 0..MaxTurns /\ MaxTurns \in Nat
      /\ \A i \in 1..Last(c) : i \in 1..MaxTurns
  BY <1>2, LastType DEF Last
<1>6. OpInv(c)' /\ BillInv(c)' /\ LateInv(c)'
  BY <1>1, <1>2, <1>5 DEF CallInv, OpInv, BillInv, LateInv, Billed, Running
<1>7. CASE late[c].type = "add"
  <2>1. /\ c \in DOMAIN callRows' /\ callRows'[c] = AddedRow(c) /\ turnRows' = turnRows
        /\ pc[c] \in {"adding", "over"} /\ c \notin DOMAIN callRows
        /\ (pc[c] = "adding" => answer[c] = "error")
    BY <1>1, <1>3, <1>7, Written DEF CallRowWritten, CallInv, LateInv
  <2>2. turns[c] = <<>> /\ Last(c) = 0 /\ op[c].type # "add"
    BY <1>1, <2>1, EmptySeq DEF CallInv, OpInv, RowInv, Last
  <2>3. RowInv(c)'
    BY <1>1, <1>2, <2>1, <2>2 DEF RowInv, AddedRow
  <2>4. TurnInv(c)' /\ WholeInv(c)'
    BY <1>1, <1>2, <1>5, <2>1, <2>2 DEF CallInv, TurnInv, WholeInv, Recorded
  <2> QED BY <1>3, <1>4, <1>6, <2>3, <2>4, OthersFrame DEF CallInv
<1>8. CASE late[c].type = "turn"
  <2> PICK j \in 1..MaxTurns : j = late[c].index
    BY <1>1, <1>5, <1>8 DEF CallInv, LateInv
  <2>1. /\ c \in DOMAIN callRows /\ callRows' = callRows
        /\ j \in 1..Last(c) /\ Last(c) > 0
        /\ TurnRowWritten(c, j, Row(turns[c][j]))
        /\ failed[c] \/ (pc[c] = "recording" /\ answer[c] = "error")
        /\ (op[c].type = "turn" => j # Last(c))
    BY <1>1, <1>3, <1>5, <1>8, Written DEF CallInv, LateInv
  <2>2. /\ Recorded(c, j)' /\ turnRows'[<<c, j>>] = Row(turns[c][j])
        /\ \A i \in 1..MaxTurns : i # j =>
            /\ Recorded(c, i)' <=> Recorded(c, i)
            /\ Recorded(c, i) => turnRows'[<<c, i>>] = turnRows[<<c, i>>]
    BY <1>5, <2>1, TurnWritten
  <2>3. RowInv(c)'
    BY <1>1, <1>2, <1>5, <1>8, <2>1, <2>2 DEF CallInv, RowInv
  <2>4. TurnInv(c)'
    <3>1. \A i \in 1..MaxTurns : Recorded(c, i)' =>
            /\ c \in DOMAIN callRows' /\ i \in 1..Last(c)
            /\ turnRows'[<<c, i>>] = Row(turns[c][i])
      BY <1>1, <2>1, <2>2 DEF CallInv, TurnInv
    <3>2. op[c].type = "turn" => ~Recorded(c, Last(c))'
      <4>1. ASSUME op[c].type = "turn" PROVE Last(c) \in 1..MaxTurns /\ ~Recorded(c, Last(c))
        BY <4>1, <1>1, <1>5, <2>1 DEF CallInv, TurnInv
      <4> QED BY <1>5, <2>1, <2>2, <4>1 DEF Recorded
    <3> QED BY <1>2, <1>5, <3>1, <3>2 DEF TurnInv, Recorded
  <2>5. WholeInv(c)'
    BY <1>2, <2>1 DEF WholeInv
  <2> QED BY <1>3, <1>4, <1>6, <2>3, <2>4, <2>5, OthersFrame DEF CallInv
<1>9. CASE late[c].type = "end"
  <2>1. /\ c \in DOMAIN callRows /\ turnRows' = turnRows /\ c \in DOMAIN callRows'
        /\ callRows'[c] = EndedRow(c, late[c]) /\ pc[c] \in {"ending", "over"}
        /\ late[c].row = Row(closing[c]) /\ op[c].type = "none"
        /\ late[c].status = "completed" => \A i \in 1..Last(c) : Recorded(c, i)
    BY <1>1, <1>3, <1>9, Written DEF CallRowWritten, CallInv, LateInv
  <2>2. callRows[c] \in CallRow
    BY <2>1 DEF Types, TableTypes
  <2>3. /\ callRows'[c].status = late[c].status /\ callRows'[c].closing = Row(closing[c])
        /\ callRows'[c].kind = callRows[c].kind /\ callRows'[c].startedAt = callRows[c].startedAt
    BY <2>1, <2>2 DEF EndedRow, CallRow
  <2>4. \A i \in 1..MaxTurns : Recorded(c, i)' <=> Recorded(c, i)
    BY <2>1 DEF Recorded
  <2>5. late[c].status \in {"completed", "failed"}
    BY <1>9, OpTypes DEF Types, CallTypes
  <2>6. RowInv(c)'
    BY <1>1, <1>2, <1>5, <2>1, <2>3, <2>4, <2>5 DEF CallInv, RowInv
  <2>7. TurnInv(c)' /\ WholeInv(c)'
    BY <1>1, <1>2, <1>5, <1>9, <2>1, <2>4 DEF CallInv, TurnInv, WholeInv, Recorded
  <2> QED BY <1>3, <1>4, <1>6, <2>6, <2>7, OthersFrame DEF CallInv
<1> QED BY <1>1, <1>7, <1>8, <1>9, OpKinds

LEMMA QuietCalling ==
    ASSUME Types, Calling, Quiet \/ UNCHANGED vars
    PROVE  Calling' /\ UNCHANGED tableVars /\ \A c \in Calls : Same(c)
<1>1. UNCHANGED <<callVars, op, late, tableVars>>
  BY DEF Quiet, EndReport, DeployRates, BeginSpend, BeginListing, vars
<1>2. \A c \in Calls : Same(c) /\ SameRow(c) /\ SameTurns(c)
  BY <1>1, TablesStay DEF Same, callVars
<1> QED BY <1>1, <1>2, CallFrame DEF Calling

LEMMA InitCalling == Init => Calling
<1> SUFFICES ASSUME Init, NEW c \in Calls PROVE CallInv(c)
  BY DEF Calling
<1>1. /\ pc[c] = "new" /\ turns[c] = <<>> /\ startedAt[c] = 0 /\ op[c].type = "none"
      /\ late[c].type = "none" /\ closing[c] = Unbilled /\ answer[c] = "none"
      /\ DOMAIN callRows = {} /\ DOMAIN turnRows = {}
  BY DEF Init, NoOp, Empty
<1>2. Last(c) = 0
  BY <1>1, EmptySeq DEF Last
<1> QED BY <1>1, <1>2
        DEF CallInv, OpInv, LateInv, RowInv, TurnInv, WholeInv, BillInv, Running, Recorded

LEMMA CallingStep == Types /\ Calling /\ [Next]_vars => Calling'
<1> SUFFICES ASSUME Types, Calling, [Next]_vars PROVE Calling'
  OBVIOUS
<1>1. Types'
  BY TypesStep
<1>2. ASSUME NEW c \in Calls, NEW segment \in Segments, RecordTurn(c, segment) PROVE Calling'
  BY <1>1, <1>2, RecordCalling
<1>3. ASSUME NEW c \in Calls,
             StartCall(c) \/ EndCall(c) \/ Proceed(c) \/ SessionFails(c)
             \/ Commit(c) \/ Break(c) \/ CommitLate(c)
      PROVE  Calling'
  BY <1>1, <1>3, StartCalling, EndCalling, ProceedCalling, SessionFailsCalling, CommitCalling,
     BreakCalling, CommitLateCalling
<1>4. CASE Quiet \/ UNCHANGED vars
  BY <1>4, QuietCalling
<1> QED BY <1>2, <1>3, <1>4 DEF Next, Quiet

-----------------------------------------------------------------------------
(* TypeOK                                                                  *)

LEMMA KeysTyped ==
    ASSUME Types, Calling, NEW t \in DOMAIN turnRows
    PROVE  \E c \in DOMAIN callRows : \E i \in 1..Last(c) :
               t = <<c, i>> /\ i \in 1..MaxTurns /\ turnRows[t] = Row(turns[c][i])
<1>1. PICK c \in Calls, i \in 1..MaxTurns : t = <<c, i>>
  BY DEF Types, TableTypes
<1>2. CallInv(c) /\ Recorded(c, i)
  BY <1>1 DEF Calling, Recorded
<1> QED BY <1>1, <1>2 DEF CallInv, TurnInv

LEMMA BilledTurn ==
    ASSUME Types, Calling, NEW c \in Calls, NEW i \in 1..Last(c)
    PROVE  /\ turns[c][i] \in Bills /\ Row(turns[c][i]) \in BillableRows
           /\ turns[c][i].cost = Calculate(Rates(cardOf[c], kind[c]), turns[c][i].usage)
<1>1. turns[c][i] \in {BilledBy(cardOf[c], kind[c], s) : s \in Segments}
  BY DEF Calling, CallInv, BillInv
<1>2. cardOf[c] \in 1..Len(Cards) /\ kind[c] \in Kinds /\ DOMAIN Cards = 1..Len(Cards)
  BY RecordsAssumption, LenProperties DEF Types, CallTypes
<1> QED BY <1>1, <1>2, BilledType DEF BillableRows

LEMMA BilledClosing ==
    ASSUME Types, Calling, NEW c \in Calls
    PROVE  /\ closing[c] \in Bills
           /\ closing[c] = Unbilled \/ closing[c] = Billed(c, LastSegment)
           /\ Row(closing[c]) \in BillableRows \cup {Row(Unbilled)}
           /\ closing[c].cost = Calculate(Rates(cardOf[c], kind[c]), closing[c].usage)
           /\ kind[c] = "api" => closing[c].usage.gpu = 0
<1>1. closing[c] = Unbilled \/ closing[c] = Billed(c, LastSegment)
  BY DEF Calling, CallInv, BillInv
<1>2. cardOf[c] \in 1..Len(Cards) /\ kind[c] \in Kinds /\ DOMAIN Cards = 1..Len(Cards)
  BY RecordsAssumption, LenProperties DEF Types, CallTypes
<1>3. CASE closing[c] = Unbilled
  <2>1. Rates(cardOf[c], kind[c]) \in Rate
    BY <1>2, BilledType
  <2> QED BY <1>3, <2>1, NoUsageIsFree, UnbilledType DEF Unbilled, NoUsage
<1>4. CASE closing[c] = Billed(c, LastSegment)
  BY <1>2, <1>4, BilledType DEF Billed, BillableRows
<1> QED BY <1>1, <1>3, <1>4

LEMMA StoredClosing ==
    ASSUME Types, Calling, NEW c \in DOMAIN callRows
    PROVE  /\ c \in Calls /\ callRows[c] \in CallRow /\ callRows[c].kind = kind[c]
           /\ callRows[c].closing \in {Row(Unbilled), Row(closing[c])}
           /\ callRows[c].closing \in BillableRows \cup {Row(Unbilled)}
           /\ kind[c] = "api" => callRows[c].closing.usage.gpu = 0
           /\ \A s \in Stages : callRows[c].closing.cost[s] % Fine = 0
<1>1. c \in Calls /\ callRows[c] \in CallRow
  BY DEF Types, TableTypes
<1>2. CallInv(c)
  BY <1>1 DEF Calling
<1>3. callRows[c].kind = kind[c] /\ callRows[c].closing \in {Row(Unbilled), Row(closing[c])}
  BY <1>2 DEF CallInv, RowInv
<1>4. /\ Row(Unbilled).usage.gpu = 0 /\ \A s \in Stages : Row(Unbilled).cost[s] % Fine = 0
      /\ Row(closing[c]).usage = closing[c].usage
      /\ \A s \in Stages : Row(closing[c]).cost[s] % Fine = 0
  BY <1>1, UnbilledType, BilledClosing, RowType DEF Unbilled, NoUsage
<1> QED BY <1>1, <1>3, <1>4, BilledClosing

LEMMA TypesOK == Types /\ Calling => TypeOK
<1> SUFFICES ASSUME Types, Calling PROVE TypeOK
  OBVIOUS
<1>1. DOMAIN turnRows \subseteq (DOMAIN callRows) \X (1..MaxTurns)
  BY KeysTyped
<1>2. \A t \in DOMAIN turnRows, s \in Stages : turnRows[t].cost[s] % Fine = 0
  <2> SUFFICES ASSUME NEW t \in DOMAIN turnRows
               PROVE \A s \in Stages : turnRows[t].cost[s] % Fine = 0
    OBVIOUS
  <2>1. PICK c \in DOMAIN callRows : \E i \in 1..Last(c) : turnRows[t] = Row(turns[c][i])
    BY KeysTyped
  <2>2. c \in Calls
    BY DEF Types, TableTypes
  <2> QED BY <2>1, <2>2, BilledTurn, RowType
<1>3. \A c \in DOMAIN callRows :
        /\ callRows[c].status \in Statuses
        /\ \A s \in Stages : callRows[c].closing.cost[s] % Fine = 0
        /\ callRows[c].kind = "api" => callRows[c].closing.usage.gpu = 0
  BY StoredClosing DEF CallRow
<1> QED BY <1>1, <1>2, <1>3 DEF TypeOK, Types, CallTypes, TableTypes, Points

-----------------------------------------------------------------------------
(* The tables, step by step                                                *)

LEMMA TablesStep ==
    ASSUME Types, Calling, [Next]_vars
    PROVE  \/ UNCHANGED tableVars
           \/ \E c \in Calls : \E o \in Ops : Writes(c, o) /\ o \in {op[c], late[c]}
<1>1. ASSUME NEW c \in Calls, NEW segment \in Segments, RecordTurn(c, segment)
      PROVE  UNCHANGED tableVars
  BY <1>1 DEF RecordTurn
<1>2. ASSUME NEW c \in Calls,
             StartCall(c) \/ EndCall(c) \/ Proceed(c) \/ SessionFails(c) \/ Break(c)
      PROVE  UNCHANGED tableVars
  BY <1>2 DEF StartCall, EndCall, Proceed, SessionFails, Break
<1>3. ASSUME NEW c \in Calls, Commit(c)
      PROVE  op[c] \in Ops /\ Writes(c, op[c])
  BY <1>3, CommitWrites
<1>4. ASSUME NEW c \in Calls, CommitLate(c)
      PROVE  late[c] \in Ops /\ Writes(c, late[c])
  BY <1>4, CommitLateWrites
<1>5. CASE Quiet \/ UNCHANGED vars
  BY <1>5, QuietCalling
<1> QED BY <1>1, <1>2, <1>3, <1>4, <1>5 DEF Next, Quiet

LEMMA CompletedStays ==
    ASSUME Types, Calling, [Next]_vars, NEW c \in DOMAIN callRows,
           callRows[c].status = "completed"
    PROVE  SameRow(c) /\ SameTurns(c)
<1>1. c \in Calls
  BY DEF Types, TableTypes
<1>2. CASE UNCHANGED tableVars
  BY <1>1, <1>2, TablesStay
<1>3. ASSUME NEW d \in Calls, NEW o \in Ops, Writes(d, o), o \in {op[d], late[d]}
      PROVE  SameRow(c) /\ SameTurns(c)
  <2>1. op[c].type = "none" /\ late[c].type = "none"
    BY <1>1 DEF Calling, CallInv, RowInv
  <2>2. d # c
    BY <1>3, <2>1, Written
  <2> QED BY <1>1, <1>3, <2>2, WritesFrame
<1> QED BY <1>2, <1>3, TablesStep

(* The reads of a call's turns follow its rows.                            *)
LEMMA SameTurnsOf ==
    ASSUME NEW c, SameTurns(c)
    PROVE  TurnsOf(c)' = TurnsOf(c)
<1> DEFINE I == {j \in 1..MaxTurns : <<c, j>> \in DOMAIN turnRows}
           J == {j \in 1..MaxTurns : <<c, j>> \in DOMAIN turnRows'}
<1>1. J = I /\ \A i \in I : turnRows'[<<c, i>>] = turnRows[<<c, i>>]
  BY DEF SameTurns
<1>2. TurnsOf(c) = [i \in I |-> turnRows[<<c, i>>]] /\ TurnsOf(c)' = [i \in J |-> turnRows'[<<c, i>>]]
  BY DEF TurnsOf
<1> HIDE DEF I, J
<1> QED BY <1>1, <1>2

-----------------------------------------------------------------------------
(* The store that the tables implement                                     *)

Joined ==
    [c \in DOMAIN callRows |->
        [kind |-> callRows[c].kind, startedAt |-> callRows[c].startedAt,
         status |-> callRows[c].status, closing |-> callRows[c].closing,
         turns |-> TurnsOf(c)]]

LEMMA TurnsOfIs ==
    ASSUME Types, Calling, NEW c \in Calls
    PROVE  /\ TurnsOf(c) \in UNION {[I -> BillableRows] : I \in SUBSET (1..MaxTurns)}
           /\ DOMAIN TurnsOf(c) = {j \in 1..MaxTurns : Recorded(c, j)}
           /\ \A j \in DOMAIN TurnsOf(c) : j \in 1..Last(c) /\ TurnsOf(c)[j] = Row(turns[c][j])
<1> DEFINE I == {j \in 1..MaxTurns : Recorded(c, j)}
<1>1. TurnsOf(c) = [i \in I |-> turnRows[<<c, i>>]]
  BY DEF TurnsOf, Recorded
<1>2. \A j \in I : j \in 1..Last(c) /\ turnRows[<<c, j>>] = Row(turns[c][j])
  BY DEF Calling, CallInv, TurnInv
<1>3. \A j \in I : turnRows[<<c, j>>] \in BillableRows
  BY <1>2, BilledTurn
<1>4. I \in SUBSET (1..MaxTurns)
  OBVIOUS
<1> HIDE DEF I
<1>5. TurnsOf(c) \in [I -> BillableRows]
  BY <1>1, <1>3
<1> QED BY <1>1, <1>2, <1>4, <1>5 DEF I

LEMMA JoinedType ==
    ASSUME Types, Calling, NEW c \in DOMAIN callRows
    PROVE  Joined[c] \in Store!Call
<1>1. c \in Calls /\ callRows[c] \in CallRow
      /\ callRows[c].closing \in BillableRows \cup {Row(Unbilled)}
  BY StoredClosing
<1>2. callRows[c].startedAt \in 1..Cardinality(Calls)
  BY <1>1 DEF Calling, CallInv, RowInv, BillInv
<1>3. TurnsOf(c) \in UNION {[I -> BillableRows] : I \in SUBSET (1..MaxTurns)}
  BY <1>1, TurnsOfIs
<1> DEFINE T == UNION {[I -> BillableRows] : I \in SUBSET (1..MaxTurns)}
           W == TurnsOf(c)
<1>4. W \in T
  BY <1>3
<1>5. Joined[c] = [kind |-> callRows[c].kind, startedAt |-> callRows[c].startedAt,
                   status |-> callRows[c].status, closing |-> callRows[c].closing, turns |-> W]
  BY DEF Joined
<1>6. Store!Call = [kind : Kinds, startedAt : 1..Cardinality(Calls), status : Statuses,
                    closing : BillableRows \cup {Row(Unbilled)}, turns : T]
  BY DEF Store!Call
<1> HIDE DEF W, T
<1> QED BY <1>1, <1>2, <1>4, <1>5, <1>6 DEF CallRow

(* What a transaction on its way holds.                                    *)
LEMMA SentIs ==
    ASSUME Types, Calling, NEW c \in Calls, NEW o \in Ops, o \in {op[c], late[c]}
    PROVE  /\ o.type = "add" =>
               startedAt[c] \in 1..Cardinality(Calls) /\ c \notin DOMAIN callRows
           /\ o.type = "turn" =>
               /\ o.index \in 1..Last(c) /\ o.index \in 1..MaxTurns /\ o.row = Row(turns[c][o.index])
               /\ ~Recorded(c, o.index) /\ o.row \in BillableRows
           /\ o.type = "end" =>
               /\ o.row = Row(closing[c]) /\ o.row \in BillableRows \cup {Row(Unbilled)}
               /\ o.status \in {"completed", "failed"} /\ callRows[c].status = "active"
               /\ c \in DOMAIN callRows
<1>1. CallInv(c)
  BY DEF Calling
<1>2. ASSUME o.type = "add"
      PROVE  startedAt[c] \in 1..Cardinality(Calls) /\ c \notin DOMAIN callRows
  BY <1>1, <1>2 DEF CallInv, OpInv, LateInv, RowInv, BillInv
<1>3. ASSUME o.type = "turn"
      PROVE  /\ o.index \in 1..Last(c) /\ o.index \in 1..MaxTurns /\ o.row = Row(turns[c][o.index])
             /\ ~Recorded(c, o.index) /\ o.row \in BillableRows
  <2>1. /\ Last(c) \in 0..MaxTurns /\ MaxTurns \in Nat
        /\ \A i \in 1..Last(c) : i \in 1..MaxTurns
    BY LastType
  <2>2. CASE o = op[c]
    <3>1. /\ op[c].index = Last(c) /\ op[c].row = Row(turns[c][Last(c)]) /\ Last(c) > 0
          /\ ~Recorded(c, Last(c))
      BY <1>1, <1>3, <2>2 DEF CallInv, OpInv, TurnInv
    <3>2. o.index = Last(c) /\ o.row = Row(turns[c][Last(c)])
      BY <2>2, <3>1
    <3>3. Last(c) \in 1..Last(c) /\ Last(c) \in 1..MaxTurns
      BY <2>1, <3>1
    <3> QED BY <3>1, <3>2, <3>3, BilledTurn
  <2>3. CASE o = late[c]
    <3>1. /\ late[c].index \in 1..Last(c) /\ late[c].row = Row(turns[c][late[c].index])
          /\ ~Recorded(c, late[c].index)
      BY <1>1, <1>3, <2>3 DEF CallInv, LateInv
    <3> QED BY <2>1, <2>3, <3>1, BilledTurn
  <2> QED BY <2>2, <2>3
<1>4. ASSUME o.type = "end"
      PROVE  /\ o.row = Row(closing[c]) /\ o.row \in BillableRows \cup {Row(Unbilled)}
             /\ o.status \in {"completed", "failed"} /\ callRows[c].status = "active"
             /\ c \in DOMAIN callRows
  <2>1. o.status \in {"completed", "failed"}
    BY <1>4, OpTypes
  <2>2. o.row = Row(closing[c]) /\ c \in DOMAIN callRows
    BY <1>1, <1>4 DEF CallInv, OpInv, LateInv, RowInv
  <2>3. callRows[c].status = "active"
    BY <1>1, <1>4, <2>2 DEF CallInv, OpInv, LateInv, RowInv
  <2> QED BY <2>1, <2>2, <2>3, BilledClosing
<1> QED BY <1>2, <1>3, <1>4

LEMMA AddImplemented ==
    ASSUME Types, Calling, NEW c \in Calls, NEW o \in Ops, o \in {op[c], late[c]},
           o.type = "add", Writes(c, o)
    PROVE  Store!Add(c)
<1>1. /\ c \notin DOMAIN callRows /\ CallRowWritten(c, AddedRow(c)) /\ turnRows' = turnRows
      /\ startedAt[c] \in 1..Cardinality(Calls)
  BY Written, SentIs
<1>2. \A d \in Calls : TurnsOf(d)' = TurnsOf(d)
  BY <1>1 DEF TurnsOf
<1>3. TurnsOf(c) = [i \in {} |-> turnRows[<<c, i>>]]
  <2>1. {j \in 1..MaxTurns : <<c, j>> \in DOMAIN turnRows} = {}
    BY <1>1 DEF Calling, CallInv, TurnInv, Recorded
  <2> QED BY <2>1 DEF TurnsOf
<1>4. DOMAIN callRows \subseteq Calls /\ kind[c] \in Kinds
  BY DEF Types, TableTypes, CallTypes
<1> DEFINE new == [kind |-> kind[c], startedAt |-> startedAt[c], status |-> "active",
                   closing |-> Row(Unbilled), turns |-> TurnsOf(c)]
<1>5. /\ DOMAIN Joined' = DOMAIN Joined \cup {c} /\ Joined'[c] = new
      /\ \A d \in DOMAIN Joined : d # c => Joined'[d] = Joined[d]
  BY <1>1, <1>2, <1>4 DEF Joined, CallRowWritten, AddedRow
<1>6. new \in Store!Call /\ new.status = "active" /\ DOMAIN new.turns = {}
  <2> DEFINE T == UNION {[I -> BillableRows] : I \in SUBSET (1..MaxTurns)}
             W == TurnsOf(c)
  <2>1. W \in T
    BY TurnsOfIs
  <2>2. DOMAIN W = {}
    BY <1>3
  <2> HIDE DEF T, W
  <2> QED BY <1>1, <1>4, <2>1, <2>2 DEF Store!Call, Statuses, T, W
<1> HIDE DEF new
<1>7. Joined' = Store!With(Joined, c, Joined'[c])
  BY <1>5 DEF Store!With, Joined
<1> QED BY <1>5, <1>6, <1>7 DEF Store!Add, Joined, Store!Call

LEMMA UpdateImplemented ==
    ASSUME Types, Calling, NEW c \in Calls, NEW o \in Ops, o \in {op[c], late[c]},
           o.type = "end", Writes(c, o)
    PROVE  Store!Update(c)
<1>1. /\ c \in DOMAIN callRows /\ CallRowWritten(c, EndedRow(c, o)) /\ turnRows' = turnRows
      /\ o.row \in BillableRows \cup {Row(Unbilled)} /\ o.status \in Statuses
  BY Written, SentIs DEF Statuses
<1>2. \A d \in Calls : TurnsOf(d)' = TurnsOf(d)
  BY <1>1 DEF TurnsOf
<1>3. DOMAIN callRows \subseteq Calls /\ callRows[c] \in CallRow
  BY <1>1 DEF Types, TableTypes
<1>4. EndedRow(c, o) = [kind |-> callRows[c].kind, startedAt |-> callRows[c].startedAt,
                        status |-> o.status, closing |-> o.row]
  <2> DEFINE r == callRows[c]
  <2>1. r \in CallRow /\ EndedRow(c, o) = [r EXCEPT !.status = o.status, !.closing = o.row]
    BY <1>3 DEF EndedRow
  <2> HIDE DEF r
  <2>2. EndedRow(c, o) = [kind |-> r.kind, startedAt |-> r.startedAt, status |-> o.status,
                          closing |-> o.row]
    BY <2>1 DEF CallRow
  <2> QED BY <2>2 DEF r
<1> DEFINE new == [kind |-> callRows[c].kind, startedAt |-> callRows[c].startedAt,
                   status |-> o.status, closing |-> o.row, turns |-> TurnsOf(c)]
<1>5. /\ DOMAIN Joined' = DOMAIN Joined /\ c \in DOMAIN Joined /\ Joined'[c] = new
      /\ \A d \in DOMAIN Joined : d # c => Joined'[d] = Joined[d]
  BY <1>1, <1>2, <1>3, <1>4 DEF Joined, CallRowWritten
<1>6. Joined[c] \in Store!Call
  BY <1>1, JoinedType
<1>7. new \in Store!Call
  <2> DEFINE T == UNION {[I -> BillableRows] : I \in SUBSET (1..MaxTurns)}
             W == TurnsOf(c)
             S == 1..Cardinality(Calls)
  <2>1. W \in T
    BY <1>1, <1>3, TurnsOfIs
  <2>2. Joined[c].startedAt \in S /\ Joined[c].startedAt = callRows[c].startedAt
    BY <1>1, <1>6 DEF Store!Call, Joined
  <2> HIDE DEF T, W, S
  <2>3. callRows[c].startedAt \in S
    BY <2>2
  <2> QED BY <1>1, <1>3, <2>1, <2>3 DEF Store!Call, CallRow, T, W, S
<1>8. new = [Joined[c] EXCEPT !.status = new.status, !.closing = new.closing]
  <2>1. Joined[c] = [kind |-> callRows[c].kind, startedAt |-> callRows[c].startedAt,
                     status |-> callRows[c].status, closing |-> callRows[c].closing,
                     turns |-> TurnsOf(c)]
    BY <1>1 DEF Joined
  <2> DEFINE r == Joined[c]  k == callRows[c].kind  s == callRows[c].startedAt
             u == callRows[c].status  v == callRows[c].closing  w == TurnsOf(c)
             a == o.status  b == o.row
  <2>2. r = [kind |-> k, startedAt |-> s, status |-> u, closing |-> v, turns |-> w]
    BY <2>1
  <2>3. new = [kind |-> k, startedAt |-> s, status |-> a, closing |-> b, turns |-> w]
        /\ new.status = a /\ new.closing = b
    OBVIOUS
  <2> HIDE DEF new, r, k, s, u, v, w, a, b
  <2>4. [r EXCEPT !.status = a, !.closing = b] =
            [kind |-> k, startedAt |-> s, status |-> a, closing |-> b, turns |-> w]
    <3> DEFINE q == [r EXCEPT !.status = a]
    <3>1. q = [kind |-> k, startedAt |-> s, status |-> a, closing |-> v, turns |-> w]
      BY <2>2
    <3>2. [r EXCEPT !.status = a, !.closing = b] = [q EXCEPT !.closing = b]
      OBVIOUS
    <3> HIDE DEF q
    <3>3. [q EXCEPT !.closing = b] =
            [kind |-> k, startedAt |-> s, status |-> a, closing |-> b, turns |-> w]
      BY <3>1
    <3> QED BY <3>2, <3>3
  <2>5. new = [r EXCEPT !.status = new.status, !.closing = new.closing]
    BY <2>3, <2>4
  <2> QED BY <2>5 DEF r
<1> HIDE DEF new
<1>9. Joined' = [Joined EXCEPT ![c] = new]
  BY <1>5 DEF Joined
<1>10. Joined' = [Joined EXCEPT ![c].status = Joined'[c].status,
                                ![c].closing = Joined'[c].closing]
  BY ZenonT(60), <1>5, <1>8, <1>9 DEF Joined
<1> QED BY <1>5, <1>7, <1>10 DEF Store!Update, Joined, Store!Call

LEMMA AddTurnImplemented ==
    ASSUME Types, Calling, NEW c \in Calls, NEW o \in Ops, o \in {op[c], late[c]},
           o.type = "turn", Writes(c, o)
    PROVE  \E i \in 1..MaxTurns : Store!AddTurn(c, i)
<1> PICK i \in 1..MaxTurns : i = o.index
  BY SentIs
<1>1. /\ c \in DOMAIN callRows /\ callRows' = callRows /\ TurnRowWritten(c, i, o.row)
      /\ o.row \in BillableRows
  BY Written, SentIs
<1>2. DOMAIN callRows \subseteq Calls
  BY DEF Types, TableTypes
<1>3. \A d \in Calls : d # c => TurnsOf(d)' = TurnsOf(d)
  BY WritesFrame, SameTurnsOf
<1>4. TurnsOf(c)' = Store!With(TurnsOf(c), i, o.row)
  <2> DEFINE I == {j \in 1..MaxTurns : <<c, j>> \in DOMAIN turnRows}
             J == {j \in 1..MaxTurns : <<c, j>> \in DOMAIN turnRows'}
  <2>1. \A j \in 1..MaxTurns : j # i => <<c, j>> # <<c, i>>
    OBVIOUS
  <2>2. J = I \cup {i}
    BY <1>1, <2>1 DEF TurnRowWritten
  <2>3. \A j \in J : turnRows'[<<c, j>>] = IF j = i THEN o.row ELSE turnRows[<<c, j>>]
    BY <1>1, <2>1, <2>2 DEF TurnRowWritten
  <2>4. TurnsOf(c) = [j \in I |-> turnRows[<<c, j>>]] /\ TurnsOf(c)' = [j \in J |-> turnRows'[<<c, j>>]]
    BY DEF TurnsOf
  <2> HIDE DEF I, J
  <2> QED BY <2>2, <2>3, <2>4 DEF Store!With
<1> DEFINE new == [Joined[c] EXCEPT !.turns = Store!With(Joined[c].turns, i, o.row)]
<1>5. Joined[c].turns = TurnsOf(c)
  BY <1>1 DEF Joined
<1>6. /\ DOMAIN Joined' = DOMAIN Joined /\ c \in DOMAIN Joined /\ Joined'[c] = new
      /\ \A d \in DOMAIN Joined : d # c => Joined'[d] = Joined[d]
  BY <1>1, <1>2, <1>3, <1>4, <1>5 DEF Joined
<1>7. Joined'[c].turns = Store!With(TurnsOf(c), i, o.row)
  BY <1>1, <1>4 DEF Joined
<1>8. i \in DOMAIN Joined'[c].turns /\ Joined'[c].turns[i] = o.row
  BY <1>7 DEF Store!With
<1>9. Joined' = [Joined EXCEPT ![c] = new]
  <2> HIDE DEF new
  <2> QED BY <1>6 DEF Joined
<1>10. Joined' = [Joined EXCEPT ![c].turns = Store!With(@, i, Joined'[c].turns[i])]
  BY <1>6, <1>8, <1>9 DEF Joined
<1> QED BY <1>1, <1>6, <1>8, <1>10 DEF Store!AddTurn, Joined

LEMMA StoreStarts == Init => Store!StoreInit
BY DEF Init, Empty, Store!StoreInit

LEMMA StoreStep ==
    ASSUME Types, Calling, [Next]_vars
    PROVE  Store!StoreNext \/ UNCHANGED Joined
<1>1. CASE UNCHANGED tableVars
  BY <1>1 DEF Joined, TurnsOf, tableVars
<1>2. ASSUME NEW c \in Calls, NEW o \in Ops, Writes(c, o), o \in {op[c], late[c]}
      PROVE  Store!StoreNext
  <2>1. CASE o.type = "add"
    BY <1>2, <2>1, AddImplemented DEF Store!StoreNext
  <2>2. CASE o.type = "turn"
    BY <1>2, <2>2, AddTurnImplemented DEF Store!StoreNext
  <2>3. CASE o.type = "end"
    BY <1>2, <2>3, UpdateImplemented DEF Store!StoreNext
  <2> QED BY <1>2, <2>1, <2>2, <2>3, Written
<1> QED BY <1>1, <1>2, TablesStep

(* The tables, joined, go through steps of the in-memory repository only:  *)
(* an add, a turn or an update, whenever it was sent.                      *)
THEOREM TablesImplementStore == Spec => ImplementsStore
<1>1. Init => Types /\ Calling
  BY InitTypes, InitCalling
<1>2. Types /\ Calling /\ [Next]_vars => Types' /\ Calling'
  BY TypesStep, CallingStep
<1>3. Types /\ Calling /\ [Next]_vars => [Store!StoreNext]_Joined
  BY StoreStep
<1> QED BY <1>1, <1>2, <1>3, StoreStarts, PTL DEF Spec, ImplementsStore, Store!StoreSpec, Joined

(* What the history shows of a completed call is final, late commits       *)
(* included.                                                               *)
THEOREM CompletedCallsAreFinal == Spec => CompletedIsFinal
<1>1. Init => Types /\ Calling
  BY InitTypes, InitCalling
<1>2. Types /\ Calling /\ [Next]_vars => Types' /\ Calling'
  BY TypesStep, CallingStep
<1>3. Types /\ Calling /\ [Next]_vars =>
        \A c \in DOMAIN callRows : callRows[c].status = "completed" =>
            callRows'[c] = callRows[c] /\ TurnsOf(c)' = TurnsOf(c)
  BY CompletedStays, SameTurnsOf DEF SameRow
<1> QED BY <1>1, <1>2, <1>3, PTL DEF Spec, CompletedIsFinal

-----------------------------------------------------------------------------
(* Costs added up                                                          *)

IntCost == [Stages -> Int]

LEMMA TotalIs ==
    ASSUME NEW c \in IntCost
    PROVE  /\ c["stt"] \in Int /\ c["llm"] \in Int /\ c["tts"] \in Int /\ c["gpu"] \in Int
           /\ c["telephony"] \in Int
           /\ Total(c) = c["stt"] + c["llm"] + c["tts"] + c["gpu"] + c["telephony"]
           /\ Total(c) \in Int
BY DEF IntCost, Stages, Total

LEMMA CostIsInt ==
    ASSUME NEW c \in Cost
    PROVE  c \in IntCost
BY DEF Cost, IntCost

LEMMA StageSum ==
    ASSUME NEW I, IsFiniteSet(I), NEW rest \in [I -> Cost], NEW s \in Stages
    PROVE  /\ [i \in I |-> rest[i][s]] \in [I -> Int]
           /\ SumFunction([i \in I |-> rest[i][s]]) \in Int
<1>1. [i \in I |-> rest[i][s]] \in [I -> Int]
  BY DEF Cost
<1> QED BY <1>1, SumType

LEMMA SumCostsIs ==
    ASSUME NEW I, IsFiniteSet(I), NEW rest \in [I -> Cost], NEW first \in Cost
    PROVE  /\ SumCosts(first, rest) \in IntCost
           /\ \A s \in Stages : SumCosts(first, rest)[s]
                = first[s] + SumFunction([i \in I |-> rest[i][s]])
<1>1. DOMAIN rest = I
  OBVIOUS
<1>2. SumCosts(first, rest) = [s \in Stages |-> first[s] + SumFunction([i \in I |-> rest[i][s]])]
  BY <1>1 DEF SumCosts
<1>3. \A s \in Stages : SumFunction([i \in I |-> rest[i][s]]) \in Int
  BY StageSum
<1>4. \A s \in Stages : first[s] \in Int
  BY DEF Cost
<1> QED BY <1>2, <1>3, <1>4 DEF IntCost

LEMMA SumCostsFirst ==
    ASSUME NEW I, IsFiniteSet(I), NEW rest \in [I -> Cost], NEW a \in Cost, NEW b \in Cost
    PROVE  Total(SumCosts(a, rest)) = Total(SumCosts(b, rest)) + Total(a) - Total(b)
<1> DEFINE x == SumCosts(a, rest)  y == SumCosts(b, rest)
           z == [s \in Stages |-> SumFunction([i \in I |-> rest[i][s]])]
<1>1. x \in IntCost /\ y \in IntCost
      /\ \A s \in Stages : x[s] = a[s] + z[s] /\ y[s] = b[s] + z[s] /\ z[s] \in Int
  BY SumCostsIs, StageSum
<1> HIDE DEF x, y, z
<1>2. a \in IntCost /\ b \in IntCost
  BY CostIsInt
<1>3. \A s \in Stages : x[s] = y[s] + a[s] - b[s]
  BY <1>1, <1>2 DEF IntCost
<1>4. Total(x) = Total(y) + Total(a) - Total(b)
  BY <1>1, <1>2, <1>3, TotalIs DEF Stages
<1> QED BY <1>4 DEF x, y

LEMMA SumCostsPut ==
    ASSUME NEW I, IsFiniteSet(I), NEW rest \in [I -> Cost], NEW first \in Cost,
           NEW x, x \notin I, NEW v \in Cost,
           NEW more \in [I \cup {x} -> Cost], more[x] = v, \A i \in I : more[i] = rest[i]
    PROVE  Total(SumCosts(first, more)) = Total(SumCosts(first, rest)) + Total(v)
<1>1. IsFiniteSet(I \cup {x})
  BY FS_AddElement
<1>2. ASSUME NEW s \in Stages
      PROVE  SumFunction([i \in I \cup {x} |-> more[i][s]])
               = SumFunction([i \in I |-> rest[i][s]]) + v[s]
  <2> DEFINE f == [i \in I |-> rest[i][s]]
             T == I \cup {x}
             g == [i \in T |-> more[i][s]]
  <2>1. f \in [I -> Int] /\ SumFunction(f) \in Int /\ v[s] \in Int
    BY StageSum DEF Cost
  <2>2. g \in [T -> Int] /\ T = I \cup {x} /\ g[x] = v[s] /\ \A i \in I : g[i] = f[i]
    BY DEF Cost
  <2> HIDE DEF f, g, T
  <2>3. x \notin I => SumFunction(g) = SumFunction(f) + g[x]
    <3>1. Puts(I, f, x, T, g)
      BY <2>1, <2>2 DEF Puts
    <3> QED BY <3>1, SumPut
  <2>4. SumFunction(g) = SumFunction(f) + v[s]
    BY <2>1, <2>2, <2>3
  <2> QED BY <2>4 DEF f, g, T
<1> DEFINE p == SumCosts(first, more)  q == SumCosts(first, rest)
<1>3. p \in IntCost /\ q \in IntCost
  BY <1>1, SumCostsIs
<1> DEFINE z == [s \in Stages |-> SumFunction([i \in I |-> rest[i][s]])]
<1>4. \A s \in Stages : q[s] = first[s] + z[s] /\ z[s] \in Int
  BY SumCostsIs, StageSum
<1>5. \A s \in Stages : p[s] = first[s] + (z[s] + v[s])
  <2> SUFFICES ASSUME NEW s \in Stages PROVE p[s] = first[s] + (z[s] + v[s])
    OBVIOUS
  <2>1. p[s] = first[s] + SumFunction([i \in I \cup {x} |-> more[i][s]])
    BY <1>1, SumCostsIs
  <2> QED BY <1>2, <2>1
<1>6. v \in IntCost /\ first \in IntCost
  BY CostIsInt
<1> HIDE DEF p, q, z
<1>7. \A s \in Stages : p[s] = q[s] + v[s]
  BY <1>4, <1>5, <1>6 DEF IntCost
<1>8. Total(p) = Total(q) + Total(v)
  BY <1>3, <1>6, <1>7, TotalIs DEF Stages
<1> QED BY <1>8 DEF p, q

-----------------------------------------------------------------------------
(* The sums over the tables                                                *)

ClosingCost(c) == Total(callRows[c].closing.cost)
TurnCost(t) == Total(turnRows[t].cost)
CallCost(c) == Total(CostOf(StoredCall(c)))

LEMMA TablesFinite ==
    ASSUME Types
    PROVE  /\ IsFiniteSet(DOMAIN callRows) /\ IsFiniteSet(DOMAIN turnRows)
           /\ \A k : IsFiniteSet(RowsOf(k)) /\ IsFiniteSet(TurnsOfKind(k))
           /\ \A c : IsFiniteSet(DOMAIN TurnsOf(c))
<1>1. IsFiniteSet(1..MaxTurns)
  BY RecordsAssumption, FS_Interval
<1>2. IsFiniteSet(Calls \X (1..MaxTurns))
  BY <1>1, RecordsAssumption, FS_Product
<1>3. IsFiniteSet(DOMAIN callRows) /\ IsFiniteSet(DOMAIN turnRows)
  BY <1>2, RecordsAssumption, FS_Subset DEF Types, TableTypes
<1>4. \A k : RowsOf(k) \in SUBSET (DOMAIN callRows) /\ TurnsOfKind(k) \in SUBSET (DOMAIN turnRows)
  BY DEF RowsOf, TurnsOfKind
<1>5. \A c : DOMAIN TurnsOf(c) \in SUBSET (1..MaxTurns)
  BY DEF TurnsOf
<1>6. \A k : IsFiniteSet(RowsOf(k)) /\ IsFiniteSet(TurnsOfKind(k))
  BY <1>3, <1>4, FS_Subset
<1>7. \A c : IsFiniteSet(DOMAIN TurnsOf(c))
  BY <1>1, <1>5, FS_Subset
<1> QED BY <1>3, <1>6, <1>7

LEMMA StoredCosts ==
    ASSUME Types
    PROVE  /\ \A c \in DOMAIN callRows : callRows[c].closing.cost \in Cost /\ ClosingCost(c) \in Nat
           /\ \A t \in DOMAIN turnRows : turnRows[t].cost \in Cost /\ TurnCost(t) \in Nat
<1>1. \A c \in DOMAIN callRows : callRows[c].closing.cost \in Cost
  BY DEF Types, TableTypes, CallRow, Bills
<1>2. \A t \in DOMAIN turnRows : turnRows[t].cost \in Cost
  BY DEF Types, TableTypes, Bills
<1> QED BY <1>1, <1>2, CostFields DEF ClosingCost, TurnCost

TurnCosts(c) == [i \in DOMAIN TurnsOf(c) |-> TurnsOf(c)[i].cost]

LEMMA CallCostIs ==
    ASSUME Types, NEW c \in DOMAIN callRows
    PROVE  /\ CallCost(c) = Total(SumCosts(callRows[c].closing.cost, TurnCosts(c)))
           /\ TurnCosts(c) \in [DOMAIN TurnsOf(c) -> Cost]
           /\ CallCost(c) \in Int
<1>1. CostOf(StoredCall(c)) = SumCosts(callRows[c].closing.cost, TurnCosts(c))
  BY DEF CostOf, StoredCall, TurnCosts
<1>2. \A i \in DOMAIN TurnsOf(c) : TurnsOf(c)[i].cost \in Cost
  BY StoredCosts DEF TurnsOf
<1>3. TurnCosts(c) \in [DOMAIN TurnsOf(c) -> Cost]
  BY <1>2 DEF TurnCosts
<1>4. SumCosts(callRows[c].closing.cost, TurnCosts(c)) \in IntCost
  BY <1>3, TablesFinite, StoredCosts, SumCostsIs
<1> QED BY <1>1, <1>3, <1>4, TotalIs DEF CallCost

LEMMA SumsAre ==
    ASSUME Types, NEW k
    PROVE  /\ ClosingTotal(k) = SumFunction([c \in RowsOf(k) |-> ClosingCost(c)])
           /\ TurnTotal(k) = SumFunction([t \in TurnsOfKind(k) |-> TurnCost(t)])
           /\ Spend(k) = SumFunction([c \in RowsOf(k) |-> CallCost(c)])
           /\ [c \in RowsOf(k) |-> ClosingCost(c)] \in [RowsOf(k) -> Int]
           /\ [t \in TurnsOfKind(k) |-> TurnCost(t)] \in [TurnsOfKind(k) -> Int]
           /\ [c \in RowsOf(k) |-> CallCost(c)] \in [RowsOf(k) -> Int]
           /\ ClosingTotal(k) \in Int /\ TurnTotal(k) \in Int /\ Spend(k) \in Int
<1>1. /\ ClosingTotal(k) = SumFunction([c \in RowsOf(k) |-> ClosingCost(c)])
      /\ TurnTotal(k) = SumFunction([t \in TurnsOfKind(k) |-> TurnCost(t)])
      /\ Spend(k) = SumFunction([c \in RowsOf(k) |-> CallCost(c)])
  BY DEF ClosingTotal, TurnTotal, Spend, ClosingCost, TurnCost, CallCost
<1>2. /\ \A c \in RowsOf(k) : ClosingCost(c) \in Int /\ CallCost(c) \in Int
      /\ \A t \in TurnsOfKind(k) : TurnCost(t) \in Int
  BY StoredCosts, CallCostIs DEF RowsOf, TurnsOfKind
<1> QED BY <1>1, <1>2, TablesFinite, SumType

(* What is so of the tables before a step and after it.                    *)
TableFacts ==
    /\ \A k : IsFiniteSet(RowsOf(k)) /\ IsFiniteSet(TurnsOfKind(k))
    /\ \A c : IsFiniteSet(DOMAIN TurnsOf(c))
    /\ \A c \in DOMAIN callRows :
        /\ callRows[c].closing.cost \in Cost /\ ClosingCost(c) \in Nat /\ CallCost(c) \in Int
        /\ CallCost(c) = Total(SumCosts(callRows[c].closing.cost, TurnCosts(c)))
        /\ TurnCosts(c) \in [DOMAIN TurnsOf(c) -> Cost]
    /\ \A t \in DOMAIN turnRows : turnRows[t].cost \in Cost /\ TurnCost(t) \in Nat
    /\ \A k :
        /\ ClosingTotal(k) = SumFunction([c \in RowsOf(k) |-> ClosingCost(c)])
        /\ TurnTotal(k) = SumFunction([t \in TurnsOfKind(k) |-> TurnCost(t)])
        /\ Spend(k) = SumFunction([c \in RowsOf(k) |-> CallCost(c)])
        /\ [c \in RowsOf(k) |-> ClosingCost(c)] \in [RowsOf(k) -> Int]
        /\ [t \in TurnsOfKind(k) |-> TurnCost(t)] \in [TurnsOfKind(k) -> Int]
        /\ [c \in RowsOf(k) |-> CallCost(c)] \in [RowsOf(k) -> Int]
        /\ ClosingTotal(k) \in Int /\ TurnTotal(k) \in Int /\ Spend(k) \in Int

LEMMA FactsNow == Types => TableFacts
<1> SUFFICES ASSUME Types PROVE TableFacts
  OBVIOUS
<1>1. \A c \in DOMAIN callRows :
        /\ CallCost(c) = Total(SumCosts(callRows[c].closing.cost, TurnCosts(c)))
        /\ TurnCosts(c) \in [DOMAIN TurnsOf(c) -> Cost]
        /\ CallCost(c) \in Int
  BY CallCostIs
<1>2. \A k :
        /\ ClosingTotal(k) = SumFunction([c \in RowsOf(k) |-> ClosingCost(c)])
        /\ TurnTotal(k) = SumFunction([t \in TurnsOfKind(k) |-> TurnCost(t)])
        /\ Spend(k) = SumFunction([c \in RowsOf(k) |-> CallCost(c)])
        /\ [c \in RowsOf(k) |-> ClosingCost(c)] \in [RowsOf(k) -> Int]
        /\ [t \in TurnsOfKind(k) |-> TurnCost(t)] \in [TurnsOfKind(k) -> Int]
        /\ [c \in RowsOf(k) |-> CallCost(c)] \in [RowsOf(k) -> Int]
        /\ ClosingTotal(k) \in Int /\ TurnTotal(k) \in Int /\ Spend(k) \in Int
  BY SumsAre
<1> QED BY <1>1, <1>2, TablesFinite, StoredCosts, Zenon DEF TableFacts

LEMMA FactsNext == Types' => TableFacts'
BY FactsNow, PTL

(* The rows of a pipeline are those of its calls.                          *)
Kept == kind' = kind

LEMMA RowsAre ==
    ASSUME Types, Calling, Types', Calling', Kept, NEW k
    PROVE  /\ RowsOf(k) = {c \in DOMAIN callRows : kind[c] = k}
           /\ RowsOf(k)' = {c \in DOMAIN callRows' : kind[c] = k}
<1>1. \A c \in DOMAIN callRows : callRows[c].kind = kind[c]
  BY StoredClosing
<1>2. \A c \in DOMAIN callRows' : callRows'[c].kind = kind[c]
  BY DEF Types, TableTypes, Calling, CallInv, RowInv, Kept
<1> QED BY <1>1, <1>2 DEF RowsOf

LEMMA OtherCosts ==
    ASSUME Types, Calling, Types', Calling', Kept, NEW d, SameRow(d), SameTurns(d),
           d \in DOMAIN callRows
    PROVE  ClosingCost(d)' = ClosingCost(d) /\ CallCost(d)' = CallCost(d)
<1>1. TurnsOf(d)' = TurnsOf(d)
  BY SameTurnsOf
<1>2. callRows'[d] = callRows[d]
  BY DEF SameRow
<1> QED BY <1>1, <1>2 DEF ClosingCost, CallCost, StoredCall

LEMMA OtherTurns ==
    ASSUME Types, Calling, Types', Calling', NEW c \in Calls,
           \A d \in Calls \ {c} : SameRow(d) /\ SameTurns(d)
    PROVE  \A t \in (Calls \ {c}) \X (1..MaxTurns) :
               /\ t \in DOMAIN turnRows' <=> t \in DOMAIN turnRows
               /\ t \in DOMAIN turnRows => TurnCost(t)' = TurnCost(t)
<1>1. \A d \in Calls \ {c}, i \in 1..MaxTurns :
        /\ <<d, i>> \in DOMAIN turnRows' <=> <<d, i>> \in DOMAIN turnRows
        /\ <<d, i>> \in DOMAIN turnRows => turnRows'[<<d, i>>] = turnRows[<<d, i>>]
  BY DEF SameTurns
<1> QED BY <1>1 DEF TurnCost

(* The keys of the table of turns, by pipeline.                            *)
LEMMA TurnKeysAre ==
    ASSUME Types, Calling, Types', Calling', Kept, NEW k
    PROVE  /\ TurnsOfKind(k) = {t \in DOMAIN turnRows : kind[t[1]] = k}
           /\ TurnsOfKind(k)' = {t \in DOMAIN turnRows' : kind[t[1]] = k}
<1>1. \A t \in DOMAIN turnRows : t[1] \in DOMAIN callRows
  BY KeysTyped
<1>2. \A t \in DOMAIN turnRows' : t[1] \in DOMAIN callRows'
  <2> SUFFICES ASSUME NEW t \in DOMAIN turnRows' PROVE t[1] \in DOMAIN callRows'
    OBVIOUS
  <2>1. PICK c \in Calls, i \in 1..MaxTurns : t = <<c, i>>
    BY DEF Types, TableTypes
  <2>2. Recorded(c, i)'
    BY <2>1 DEF Recorded
  <2> QED BY <2>1, <2>2 DEF Calling, CallInv, TurnInv
<1> QED BY <1>1, <1>2, RowsAre DEF TurnsOfKind

(* How the three sums move: what closing segments and what turns add.      *)
Moves(k, x, y) ==
    /\ ClosingTotal(k)' = ClosingTotal(k) + x
    /\ TurnTotal(k)' = TurnTotal(k) + y
    /\ Spend(k)' = Spend(k) + x + y

LEMMA OtherKinds ==
    ASSUME Types, Calling, Types', Calling', Kept, NEW c \in Calls, NEW k, k # kind[c],
           \A d \in Calls \ {c} : SameRow(d) /\ SameTurns(d)
    PROVE  Moves(k, 0, 0)
<1>1. RowsOf(k)' = RowsOf(k) /\ RowsOf(k) \subseteq (DOMAIN callRows) \ {c}
      /\ DOMAIN callRows \subseteq Calls /\ DOMAIN callRows' \subseteq Calls
  <2>1. DOMAIN callRows \subseteq Calls /\ DOMAIN callRows' \subseteq Calls
    BY DEF Types, TableTypes
  <2>2. /\ RowsOf(k) = {d \in DOMAIN callRows : kind[d] = k}
        /\ RowsOf(k)' = {d \in DOMAIN callRows' : kind[d] = k}
    BY RowsAre
  <2>3. \A d \in Calls \ {c} : d \in DOMAIN callRows' <=> d \in DOMAIN callRows
    BY DEF SameRow
  <2> QED BY <2>1, <2>2, <2>3
<1>2. \A d \in RowsOf(k) : ClosingCost(d)' = ClosingCost(d) /\ CallCost(d)' = CallCost(d)
  BY <1>1, OtherCosts
<1>3. TurnsOfKind(k)' = TurnsOfKind(k) /\ \A t \in TurnsOfKind(k) : TurnCost(t)' = TurnCost(t)
  <2>1. \A t \in DOMAIN turnRows \cup DOMAIN turnRows' :
            kind[t[1]] = k => t \in (Calls \ {c}) \X (1..MaxTurns)
    BY DEF Types, TableTypes
  <2> QED BY <2>1, TurnKeysAre, OtherTurns
<1>4. TableFacts /\ TableFacts'
  BY FactsNow, FactsNext
<1>5. ClosingTotal(k)' = ClosingTotal(k) /\ Spend(k)' = Spend(k) /\ TurnTotal(k)' = TurnTotal(k)
  BY <1>1, <1>2, <1>3, <1>4 DEF TableFacts
<1>6. ClosingTotal(k) \in Int /\ Spend(k) \in Int /\ TurnTotal(k) \in Int
  BY <1>4 DEF TableFacts
<1> QED BY <1>5, <1>6 DEF Moves

LEMMA NothingCosts == Total(NoCost) = 0 /\ Total(Row(Unbilled).cost) = 0
                      /\ NoCost \in Cost /\ Row(Unbilled).cost = NoCost
BY UnbilledType DEF Row, Unbilled, NoCost, Total, Stages, Cost

LEMMA NoTurns ==
    ASSUME NEW first \in Cost, NEW rest, rest = [i \in {} |-> rest[i]]
    PROVE  Total(SumCosts(first, rest)) = Total(first)
<1>1. rest \in [{} -> Cost] /\ IsFiniteSet({})
  BY FS_EmptySet
<1> DEFINE x == SumCosts(first, rest)
<1>2. \A s \in Stages : SumFunction([i \in {} |-> rest[i][s]]) = 0
  BY SumOfNone
<1>3. x \in IntCost /\ \A s \in Stages : x[s] = first[s] + SumFunction([i \in {} |-> rest[i][s]])
  BY ZenonT(60), <1>1, SumCostsIs
<1>4. first \in IntCost
  BY CostIsInt
<1> HIDE DEF x
<1>5. \A s \in Stages : x[s] = first[s]
  BY <1>2, <1>3, <1>4 DEF IntCost
<1>6. Total(x) = Total(first)
  BY <1>3, <1>4, <1>5, TotalIs DEF Stages
<1> QED BY <1>6 DEF x

(* The sums over calls when the call that writes is one of them.           *)
LEMMA CallSums ==
    ASSUME Types, Calling, Types', Calling', Kept, NEW c \in Calls,
           NEW k, k = kind[c],
           DOMAIN callRows' = DOMAIN callRows \cup {c},
           \A d \in Calls \ {c} : SameRow(d) /\ SameTurns(d)
    PROVE  /\ c \in DOMAIN callRows =>
                /\ ClosingTotal(k)' = ClosingTotal(k) + ClosingCost(c)' - ClosingCost(c)
                /\ Spend(k)' = Spend(k) + CallCost(c)' - CallCost(c)
           /\ c \notin DOMAIN callRows =>
                /\ ClosingTotal(k)' = ClosingTotal(k) + ClosingCost(c)'
                /\ Spend(k)' = Spend(k) + CallCost(c)'
<1> DEFINE S == RowsOf(k)
           T == RowsOf(k)'
           f1 == [d \in S |-> ClosingCost(d)]
           g1 == [d \in T |-> ClosingCost(d)']
           f2 == [d \in S |-> CallCost(d)]
           g2 == [d \in T |-> CallCost(d)']
<1>1. TableFacts /\ TableFacts'
  BY FactsNow, FactsNext
<1>2. /\ IsFiniteSet(S) /\ f1 \in [S -> Int] /\ f2 \in [S -> Int]
      /\ g1 \in [T -> Int] /\ g2 \in [T -> Int]
      /\ ClosingTotal(k) = SumFunction(f1) /\ Spend(k) = SumFunction(f2)
      /\ ClosingTotal(k)' = SumFunction(g1) /\ Spend(k)' = SumFunction(g2)
  BY <1>1 DEF TableFacts
<1>3. DOMAIN callRows \subseteq Calls
  BY DEF Types, TableTypes
<1>4. T = S \cup {c} /\ S \subseteq DOMAIN callRows /\ (c \in S <=> c \in DOMAIN callRows)
  BY RowsAre
<1>5. \A d \in S : d # c => ClosingCost(d)' = ClosingCost(d) /\ CallCost(d)' = CallCost(d)
  BY <1>3, <1>4, OtherCosts
<1>6. /\ g1[c] = ClosingCost(c)' /\ g2[c] = CallCost(c)'
      /\ c \in S => f1[c] = ClosingCost(c) /\ f2[c] = CallCost(c)
  BY <1>4
<1>7. \A d \in S : d # c => g1[d] = f1[d] /\ g2[d] = f2[d]
  BY <1>4, <1>5
<1> HIDE DEF S, T, f1, f2, g1, g2
<1>8. Puts(S, f1, c, T, g1) /\ Puts(S, f2, c, T, g2)
  BY <1>2, <1>4, <1>7 DEF Puts
<1>9. /\ c \in S => /\ SumFunction(g1) = SumFunction(f1) + g1[c] - f1[c]
                    /\ SumFunction(g2) = SumFunction(f2) + g2[c] - f2[c]
      /\ c \notin S => /\ SumFunction(g1) = SumFunction(f1) + g1[c]
                       /\ SumFunction(g2) = SumFunction(f2) + g2[c]
  BY <1>8, SumPut
<1> QED BY <1>2, <1>4, <1>6, <1>9

LEMMA TurnSums ==
    ASSUME Types, Calling, Types', Calling', Kept, NEW c \in Calls,
           NEW k, k = kind[c], NEW i \in 1..MaxTurns, NEW row,
           TurnRowWritten(c, i, row), ~Recorded(c, i),
           \A d \in Calls \ {c} : SameRow(d) /\ SameTurns(d)
    PROVE  TurnTotal(k)' = TurnTotal(k) + Total(row.cost)
<1> DEFINE t == <<c, i>>
           S == TurnsOfKind(k)
           T == TurnsOfKind(k)'
           f == [u \in S |-> TurnCost(u)]
           g == [u \in T |-> TurnCost(u)']
<1>1. TableFacts /\ TableFacts'
  BY FactsNow, FactsNext
<1>2. /\ IsFiniteSet(S) /\ f \in [S -> Int] /\ g \in [T -> Int]
      /\ TurnTotal(k) = SumFunction(f) /\ TurnTotal(k)' = SumFunction(g)
  BY <1>1 DEF TableFacts
<1>3. t \notin DOMAIN turnRows /\ DOMAIN turnRows' = DOMAIN turnRows \cup {t} /\ turnRows'[t] = row
      /\ \A u \in DOMAIN turnRows : turnRows'[u] = turnRows[u]
  BY DEF TurnRowWritten, Recorded
<1>4. T = S \cup {t} /\ t \notin S /\ S \subseteq DOMAIN turnRows
  <2>1. /\ S = {u \in DOMAIN turnRows : kind[u[1]] = k}
        /\ T = {u \in DOMAIN turnRows' : kind[u[1]] = k}
    BY TurnKeysAre
  <2>2. t[1] = c
    OBVIOUS
  <2> HIDE DEF S, T, t
  <2> QED BY <1>3, <2>1, <2>2
<1>5. \A u \in S : TurnCost(u)' = TurnCost(u)
  BY <1>3, <1>4 DEF TurnCost
<1>6. TurnCost(t)' = Total(row.cost)
  BY <1>3 DEF TurnCost
<1>7. g[t] = Total(row.cost) /\ \A u \in S : g[u] = f[u]
  BY <1>4, <1>5, <1>6
<1> HIDE DEF S, T, f, g, t
<1>8. Puts(S, f, t, T, g)
  BY <1>2, <1>4, <1>7 DEF Puts
<1>9. SumFunction(g) = SumFunction(f) + g[t]
  BY <1>4, <1>8, SumPut
<1> QED BY <1>2, <1>7, <1>9

LEMMA TurnSumsStay ==
    ASSUME Types, Calling, Types', Calling', Kept, turnRows' = turnRows, NEW k
    PROVE  TurnTotal(k)' = TurnTotal(k) /\ \A c : TurnsOf(c)' = TurnsOf(c)
<1>1. TurnsOfKind(k)' = TurnsOfKind(k)
  BY TurnKeysAre
<1> QED BY <1>1 DEF TurnTotal, TurnsOf

(* A transaction adds a closing segment or a turn to the sums of its       *)
(* pipeline, to the whole what it adds to the part.                        *)
LEMMA WritesMove ==
    ASSUME Types, Calling, Types', Calling', Kept, NEW c \in Calls, NEW o \in Ops,
           o \in {op[c], late[c]}, Writes(c, o), NEW k
    PROVE  \E x, y \in Nat : Moves(k, x, y)
<1>1. \A d \in Calls \ {c} : SameRow(d) /\ SameTurns(d)
  BY WritesFrame
<1>2. CASE k # kind[c]
  BY <1>1, <1>2, OtherKinds
<1>3. CASE k = kind[c]
  <2>1. TableFacts /\ TableFacts'
    BY FactsNow, FactsNext
  <2>2. /\ ClosingTotal(k) \in Int /\ TurnTotal(k) \in Int /\ Spend(k) \in Int
    BY <2>1 DEF TableFacts
  <2>3. CASE o.type = "add"
    <3>1. /\ c \notin DOMAIN callRows /\ DOMAIN callRows' = DOMAIN callRows \cup {c}
          /\ callRows'[c] = AddedRow(c) /\ turnRows' = turnRows
      BY <2>3, Written DEF CallRowWritten
    <3>2. ClosingCost(c)' = 0
      BY <3>1, NothingCosts DEF ClosingCost, AddedRow
    <3>3. CallCost(c)' = 0
      <4>1. DOMAIN TurnsOf(c)' = {}
        BY <3>1 DEF TurnsOf, Calling, CallInv, TurnInv, Recorded
      <4>2. TurnCosts(c)' = [i \in {} |-> TurnCosts(c)'[i]]
        BY <4>1 DEF TurnCosts
      <4>3. Total(SumCosts(NoCost, TurnCosts(c)')) = 0
        BY <4>2, NoTurns, NothingCosts
      <4>4. CallCost(c)' = Total(SumCosts(callRows'[c].closing.cost, TurnCosts(c)'))
        BY <2>1, <3>1 DEF TableFacts
      <4>5. callRows'[c].closing.cost = NoCost
        BY <3>1, NothingCosts DEF AddedRow
      <4> QED BY <4>3, <4>4, <4>5
    <3>4. ClosingTotal(k)' = ClosingTotal(k) + 0 /\ Spend(k)' = Spend(k) + 0
      BY <1>1, <1>3, <3>1, <3>2, <3>3, CallSums
    <3>5. TurnTotal(k)' = TurnTotal(k)
      BY <3>1, TurnSumsStay
    <3>6. Moves(k, 0, 0)
      BY <2>2, <3>4, <3>5 DEF Moves
    <3> QED BY <3>6
  <2>4. CASE o.type = "turn"
    <3> PICK i \in 1..MaxTurns : i = o.index
      BY <2>4, SentIs
    <3>1. /\ c \in DOMAIN callRows /\ callRows' = callRows /\ TurnRowWritten(c, i, o.row)
          /\ ~Recorded(c, i) /\ o.row \in Bills
      BY <2>4, Written, SentIs, OpTypes
    <3> DEFINE row == o.row
               v == row.cost
    <3>2. v \in Cost /\ Total(v) \in Nat
      BY <3>1, CostFields DEF Bills
    <3>3. TurnTotal(k)' = TurnTotal(k) + Total(v)
      BY <1>1, <1>3, <3>1, TurnSums
    <3>4. ClosingCost(c)' = ClosingCost(c)
      BY <3>1 DEF ClosingCost
    <3>5. CallCost(c)' = CallCost(c) + Total(v)
      <4> DEFINE I == DOMAIN TurnsOf(c)
                 rest == TurnCosts(c)
                 more == TurnCosts(c)'
                 first == callRows[c].closing.cost
      <4>1. /\ rest \in [I -> Cost] /\ IsFiniteSet(I) /\ first \in Cost
            /\ CallCost(c) = Total(SumCosts(first, rest))
        BY <2>1, <3>1 DEF TableFacts
      <4>2. /\ DOMAIN TurnsOf(c)' = I \cup {i} /\ i \notin I
            /\ TurnsOf(c)'[i] = row /\ \A j \in I : TurnsOf(c)'[j] = TurnsOf(c)[j]
        <5> DEFINE J == {j \in 1..MaxTurns : <<c, j>> \in DOMAIN turnRows'}
        <5>1. \A j \in 1..MaxTurns : j # i => <<c, j>> # <<c, i>>
          OBVIOUS
        <5>2. I = {j \in 1..MaxTurns : <<c, j>> \in DOMAIN turnRows}
              /\ \A j \in I : TurnsOf(c)[j] = turnRows[<<c, j>>]
          BY DEF TurnsOf
        <5>3. TurnsOf(c)' = [j \in J |-> turnRows'[<<c, j>>]]
          BY DEF TurnsOf
        <5> HIDE DEF I
        <5>4. J = I \cup {i} /\ i \notin I
          BY <3>1, <5>1, <5>2 DEF TurnRowWritten, Recorded
        <5>5. turnRows'[<<c, i>>] = row /\ \A j \in I : turnRows'[<<c, j>>] = turnRows[<<c, j>>]
          BY <3>1, <5>1, <5>2, <5>4 DEF TurnRowWritten
        <5> HIDE DEF J
        <5> QED BY <5>2, <5>3, <5>4, <5>5
      <4>3. more = [j \in DOMAIN TurnsOf(c)' |-> TurnsOf(c)'[j].cost]
            /\ rest = [j \in I |-> TurnsOf(c)[j].cost]
        BY DEF TurnCosts
      <4>4. CallCost(c)' = Total(SumCosts(first, more)) /\ more \in [DOMAIN TurnsOf(c)' -> Cost]
        BY <2>1, <3>1 DEF TableFacts
      <4> HIDE DEF I, rest, more, first
      <4>5. more \in [I \cup {i} -> Cost] /\ more[i] = v /\ \A j \in I : more[j] = rest[j]
        BY <4>2, <4>3, <4>4
      <4> HIDE DEF v, row
      <4>6. Total(SumCosts(first, more)) = Total(SumCosts(first, rest)) + Total(v)
        BY <3>2, <4>1, <4>2, <4>5, SumCostsPut
      <4> QED BY <4>1, <4>4, <4>6
    <3>6. /\ ClosingTotal(k)' = ClosingTotal(k) + ClosingCost(c)' - ClosingCost(c)
          /\ Spend(k)' = Spend(k) + CallCost(c)' - CallCost(c)
      BY <1>1, <1>3, <3>1, CallSums
    <3>7. ClosingCost(c) \in Int /\ CallCost(c) \in Int
      BY <2>1, <3>1 DEF TableFacts
    <3> DEFINE y == Total(v)
    <3>8. y \in Nat /\ TurnTotal(k)' = TurnTotal(k) + y /\ CallCost(c)' = CallCost(c) + y
      BY <3>2, <3>3, <3>5
    <3> HIDE DEF y, v, row
    <3>9. Moves(k, 0, y)
      BY <2>2, <3>4, <3>6, <3>7, <3>8 DEF Moves
    <3> QED BY <3>8, <3>9
  <2>5. CASE o.type = "end"
    <3>1. /\ c \in DOMAIN callRows /\ DOMAIN callRows' = DOMAIN callRows \cup {c}
          /\ callRows'[c] = EndedRow(c, o) /\ turnRows' = turnRows /\ o.row \in Bills
          /\ callRows[c].status = "active"
      BY <2>5, Written, SentIs, OpTypes DEF CallRowWritten
    <3>2. callRows[c] \in CallRow
      BY <3>1 DEF Types, TableTypes
    <3>3. callRows'[c].closing = o.row
      BY <3>1, <3>2 DEF EndedRow, CallRow
    <3>4. callRows[c].closing = Row(Unbilled)
      BY <3>1 DEF Calling, CallInv, RowInv
    <3> DEFINE v == o.row.cost
    <3>5. v \in Cost /\ Total(v) \in Nat
      BY <3>1, CostFields DEF Bills
    <3>6. ClosingCost(c)' = Total(v) /\ ClosingCost(c) = 0
      BY <3>3, <3>4, NothingCosts DEF ClosingCost
    <3>7. TurnTotal(k)' = TurnTotal(k) /\ TurnsOf(c)' = TurnsOf(c)
      BY <3>1, TurnSumsStay
    <3>8. CallCost(c)' = CallCost(c) + Total(v)
      <4> DEFINE rest == TurnCosts(c)
      <4>1. TurnCosts(c)' = rest
        BY <3>7 DEF TurnCosts
      <4>2. CallCost(c)' = Total(SumCosts(v, rest)) /\ CallCost(c) = Total(SumCosts(NoCost, rest))
        BY <2>1, <3>1, <3>3, <3>4, <4>1, NothingCosts DEF TableFacts
      <4>3. rest \in [DOMAIN TurnsOf(c) -> Cost] /\ IsFiniteSet(DOMAIN TurnsOf(c))
            /\ CallCost(c) \in Int
        BY <2>1, <3>1 DEF TableFacts
      <4> HIDE DEF rest, v
      <4>4. Total(SumCosts(v, rest)) = Total(SumCosts(NoCost, rest)) + Total(v) - Total(NoCost)
        BY <3>5, <4>3, NothingCosts, SumCostsFirst
      <4> QED BY <3>5, <4>2, <4>3, <4>4, NothingCosts
    <3>9. /\ ClosingTotal(k)' = ClosingTotal(k) + ClosingCost(c)' - ClosingCost(c)
          /\ Spend(k)' = Spend(k) + CallCost(c)' - CallCost(c)
      BY <1>1, <1>3, <3>1, CallSums
    <3>10. CallCost(c) \in Int
      BY <2>1, <3>1 DEF TableFacts
    <3> DEFINE x == Total(v)
    <3>11. x \in Nat /\ ClosingCost(c)' = x /\ CallCost(c)' = CallCost(c) + x
      BY <3>5, <3>6, <3>8
    <3> HIDE DEF x, v
    <3>12. Moves(k, x, 0)
      BY <2>2, <3>6, <3>7, <3>9, <3>10, <3>11 DEF Moves
    <3> QED BY <3>11, <3>12
  <2> QED BY <2>3, <2>4, <2>5, Written
<1> QED BY <1>2, <1>3

-----------------------------------------------------------------------------
(* The sums and the reports, step by step                                  *)

LEMMA KindKept ==
    ASSUME [Next]_vars
    PROVE  Kept
<1>1. ASSUME NEW c \in Calls, NEW segment \in Segments, RecordTurn(c, segment)
      PROVE  Kept
  BY <1>1 DEF RecordTurn, Kept
<1>2. ASSUME NEW c \in Calls,
             StartCall(c) \/ EndCall(c) \/ Proceed(c) \/ SessionFails(c)
             \/ Commit(c) \/ Break(c) \/ CommitLate(c)
      PROVE  Kept
  BY <1>2 DEF StartCall, EndCall, Proceed, SessionFails, Commit, Break, CommitLate, callVars, Kept
<1>3. CASE Quiet \/ UNCHANGED vars
  BY <1>3 DEF Quiet, EndReport, DeployRates, BeginSpend, BeginListing, vars, callVars, Kept
<1> QED BY <1>1, <1>2, <1>3 DEF Next, Quiet

LEMMA SumsMove ==
    ASSUME Types, Calling, [Next]_vars, NEW k
    PROVE  \E x, y \in Nat : Moves(k, x, y)
<1>1. Types' /\ Calling' /\ Kept
  BY TypesStep, CallingStep, KindKept
<1>2. CASE UNCHANGED tableVars
  <2>1. ClosingTotal(k)' = ClosingTotal(k) /\ TurnTotal(k)' = TurnTotal(k) /\ Spend(k)' = Spend(k)
    BY <1>2 DEF tableVars, ClosingTotal, TurnTotal, Spend, RowsOf, TurnsOfKind, StoredCall, TurnsOf
  <2>2. ClosingTotal(k) \in Int /\ TurnTotal(k) \in Int /\ Spend(k) \in Int
    BY SumsAre
  <2>3. Moves(k, 0, 0)
    BY <2>1, <2>2 DEF Moves
  <2> QED BY <2>3
<1>3. ASSUME NEW c \in Calls, NEW o \in Ops, Writes(c, o), o \in {op[c], late[c]}
      PROVE  \E x, y \in Nat : Moves(k, x, y)
  BY <1>1, <1>3, WritesMove
<1> QED BY <1>2, <1>3, TablesStep

LEMMA InitSpend == Init => SpendInv
<1> SUFFICES ASSUME Init, NEW k \in Kinds PROVE Spend(k) = ClosingTotal(k) + TurnTotal(k)
  BY DEF SpendInv
<1>1. DOMAIN callRows = {} /\ DOMAIN turnRows = {}
  BY DEF Init, Empty
<1>2. RowsOf(k) = {} /\ TurnsOfKind(k) = {}
  BY <1>1 DEF RowsOf, TurnsOfKind
<1> DEFINE f == [c \in RowsOf(k) |-> Total(CostOf(StoredCall(c)))]
           g == [c \in RowsOf(k) |-> Total(callRows[c].closing.cost)]
           h == [t \in TurnsOfKind(k) |-> Total(turnRows[t].cost)]
<1>3. /\ DOMAIN f = {} /\ f = [x \in DOMAIN f |-> f[x]]
      /\ DOMAIN g = {} /\ g = [x \in DOMAIN g |-> g[x]]
      /\ DOMAIN h = {} /\ h = [x \in DOMAIN h |-> h[x]]
  BY <1>2
<1>4. Spend(k) = SumFunction(f) /\ ClosingTotal(k) = SumFunction(g) /\ TurnTotal(k) = SumFunction(h)
  BY DEF Spend, ClosingTotal, TurnTotal
<1> HIDE DEF f, g, h
<1>5. SumFunction(f) = 0 /\ SumFunction(g) = 0 /\ SumFunction(h) = 0
  BY <1>3, SumOfNone
<1> QED BY <1>4, <1>5

LEMMA SpendStep == Types /\ Calling /\ SpendInv /\ [Next]_vars => SpendInv'
<1> SUFFICES ASSUME Types, Calling, SpendInv, [Next]_vars, NEW k \in Kinds
             PROVE  Spend(k)' = ClosingTotal(k)' + TurnTotal(k)'
  BY DEF SpendInv
<1>1. PICK x, y \in Nat : Moves(k, x, y)
  BY SumsMove
<1>2. ClosingTotal(k) \in Int /\ TurnTotal(k) \in Int /\ Spend(k) \in Int
  BY SumsAre
<1> QED BY <1>1, <1>2 DEF Moves, SpendInv

LEMMA ReadsStep == Types /\ Calling /\ SpendInv /\ Reads /\ [Next]_vars => Reads'
<1> SUFFICES ASSUME Types, Calling, SpendInv, Reads, [Next]_vars PROVE Reads'
  OBVIOUS
<1>1. Types' /\ Calling' /\ Kept
  BY TypesStep, CallingStep, KindKept
<1>2. ASSUME NEW k \in Kinds, BeginSpend(k) PROVE Reads'
  <2>1. /\ reading' = [type |-> "spend", kind |-> k, closing |-> ClosingTotal(k), atLeast |-> Spend(k)]
        /\ UNCHANGED tableVars
    BY <1>2 DEF BeginSpend
  <2>2. ClosingTotal(k) \in Int /\ TurnTotal(k) \in Int /\ Spend(k) \in Int
    BY SumsAre
  <2>3. ClosingTotal(k)' = ClosingTotal(k) /\ TurnTotal(k)' = TurnTotal(k)
    BY <2>1 DEF tableVars, ClosingTotal, TurnTotal, RowsOf, TurnsOfKind
  <2>4. /\ reading'.type = "spend" /\ reading'.kind = k /\ reading'.closing = ClosingTotal(k)
        /\ reading'.atLeast = Spend(k)
    BY <2>1
  <2>5. Spend(k) = ClosingTotal(k) + TurnTotal(k)
    BY DEF SpendInv
  <2> QED BY <1>2, <2>2, <2>3, <2>4, <2>5 DEF Reads
<1>3. ASSUME NEW k \in Kinds, BeginListing(k) PROVE Reads'
  <2>1. /\ reading' = [type |-> "listing", rows |-> [c \in Newest(RowsOf(k)) |-> callRows[c]]]
        /\ UNCHANGED <<callVars, tableVars>>
    BY <1>3 DEF BeginListing
  <2> DEFINE R == Newest(RowsOf(k))
  <2>2. R \subseteq DOMAIN callRows
    BY DEF Newest, RowsOf
  <2> HIDE DEF R
  <2>3. \A c \in DOMAIN callRows :
            /\ callRows[c] \in CallRow /\ callRows[c].kind = kind[c]
            /\ callRows[c].closing \in {Row(Unbilled), Row(closing[c])}
    BY StoredClosing
  <2>4. /\ reading'.type = "listing" /\ DOMAIN reading'.rows = R
        /\ \A c \in R : reading'.rows[c] = callRows[c]
        /\ reading'.rows = [c \in R |-> callRows[c]]
    BY <2>1 DEF R
  <2> QED BY <2>1, <2>2, <2>3, <2>4 DEF Reads, tableVars, callVars
<1>4. CASE reading' = NoReport
  BY <1>4 DEF Reads, NoReport
<1>5. ASSUME reading' = reading PROVE Reads'
  <2>1. ASSUME reading.type = "spend"
        PROVE  /\ reading.atLeast <= reading.closing + TurnTotal(reading.kind)'
               /\ reading.closing <= ClosingTotal(reading.kind)'
    <3> PICK k \in Kinds : k = reading.kind
      BY <2>1 DEF Reads
    <3>1. PICK x, y \in Nat : Moves(k, x, y)
      BY SumsMove
    <3>2. ClosingTotal(k) \in Int /\ TurnTotal(k) \in Int
      BY SumsAre
    <3>3. /\ reading.closing \in Int /\ reading.atLeast \in Int
          /\ reading.atLeast <= reading.closing + TurnTotal(k)
          /\ reading.closing <= ClosingTotal(k)
      BY <2>1 DEF Reads
    <3>4. reading.atLeast <= reading.closing + TurnTotal(k)' /\ reading.closing <= ClosingTotal(k)'
      BY <3>1, <3>2, <3>3 DEF Moves
    <3>5. k = reading'.kind
      BY <1>5
    <3> QED BY <3>4, <3>5, <1>5
  <2>2. ASSUME reading.type = "listing"
        PROVE  /\ DOMAIN reading.rows \subseteq DOMAIN callRows'
               /\ \A c \in DOMAIN reading.rows :
                   /\ reading.rows[c].kind = kind'[c]
                   /\ reading.rows[c].closing \in {Row(Unbilled), Row(closing'[c])}
                   /\ reading.rows[c].status = "completed" => reading.rows[c] = callRows'[c]
    <3>1. \A c \in DOMAIN callRows : c \in DOMAIN callRows'
      <4>1. CASE UNCHANGED tableVars
        BY <4>1 DEF tableVars
      <4>2. ASSUME NEW c \in Calls, NEW o \in Ops, Writes(c, o), o \in {op[c], late[c]}
            PROVE  DOMAIN callRows \subseteq DOMAIN callRows'
        BY <4>2, Written DEF CallRowWritten
      <4> QED BY <4>1, <4>2, TablesStep
    <3>2. \A c \in Calls : closing'[c] = closing[c] \/ closing[c] = Unbilled
      <4>1. ASSUME NEW c \in Calls, EndCall(c)
            PROVE  closing[c] = Unbilled /\ closing' = [closing EXCEPT ![c] = Billed(c, LastSegment)]
        BY <4>1 DEF EndCall, Calling, CallInv, BillInv
      <4>2. ASSUME NEW c \in Calls, NEW segment \in Segments, RecordTurn(c, segment)
            PROVE  closing' = closing
        BY <4>2 DEF RecordTurn
      <4>3. ASSUME NEW c \in Calls,
                   StartCall(c) \/ Proceed(c) \/ SessionFails(c)
                   \/ Commit(c) \/ Break(c) \/ CommitLate(c)
            PROVE  closing' = closing
        BY <4>3 DEF StartCall, Proceed, SessionFails, Commit, Break, CommitLate, callVars
      <4>4. CASE Quiet \/ UNCHANGED vars
        BY <4>4 DEF Quiet, EndReport, DeployRates, BeginSpend, BeginListing, vars, callVars
      <4>5. closing \in [Calls -> Bills]
        BY DEF Types, CallTypes
      <4>6. ASSUME NEW d \in Calls, EndCall(d)
            PROVE  \A c \in Calls : closing'[c] = closing[c] \/ closing[c] = Unbilled
        BY <4>1, <4>5, <4>6
      <4> QED BY <4>2, <4>3, <4>4, <4>6 DEF Next, Quiet
    <3>3. \A c \in DOMAIN callRows : callRows[c].status = "completed" => callRows'[c] = callRows[c]
      BY CompletedStays DEF SameRow
    <3>4. DOMAIN callRows \subseteq Calls
      BY DEF Types, TableTypes
    <3> QED BY <1>1, <2>2, <3>1, <3>2, <3>3, <3>4 DEF Reads, Kept
  <2> QED BY <1>5, <2>1, <2>2 DEF Reads
<1>6. ASSUME NEW c \in Calls, NEW segment \in Segments, RecordTurn(c, segment)
      PROVE  reading' = reading
  BY <1>6 DEF RecordTurn
<1>7. ASSUME NEW c \in Calls,
             StartCall(c) \/ EndCall(c) \/ Proceed(c) \/ SessionFails(c)
             \/ Commit(c) \/ Break(c) \/ CommitLate(c)
      PROVE  reading' = reading
  BY <1>7 DEF StartCall, EndCall, Proceed, SessionFails, Commit, Break, CommitLate
<1>8. DeployRates \/ UNCHANGED vars => reading' = reading
  BY DEF DeployRates, vars
<1>9. EndReport => reading' = NoReport
  BY DEF EndReport
<1> QED BY <1>2, <1>3, <1>4, <1>5, <1>6, <1>7, <1>8, <1>9 DEF Next

-----------------------------------------------------------------------------
(* What the reports say                                                    *)

(* A segment priced again at its own rates: each column has rounded once.  *)
LEMMA RepricedSegment ==
    ASSUME NEW r \in Rate, NEW b \in Bills, b.cost = Calculate(r, b.usage)
    PROVE  /\ Row(b).cost \in Cost /\ Calculate(r, Row(b).usage) \in Cost
           /\ \A s \in Stages : RoundedApart(Row(b).cost[s], Calculate(r, Row(b).usage)[s], 1)
<1>1. Row(b).usage = b.usage /\ Row(b).cost = Stored(b.cost) /\ b.usage \in Usage /\ b.cost \in Cost
  BY RowType DEF Bills
<1>2. Stored(b.cost) \in Cost /\ \A s \in Stages : RoundedApart(Stored(b.cost)[s], b.cost[s], 1)
  BY <1>1, StoredRounds
<1> QED BY <1>1, <1>2

LEMMA Repriced ==
    ASSUME NEW I, IsFiniteSet(I), NEW a \in Cost, NEW b \in Cost,
           NEW f \in [I -> Cost], NEW g \in [I -> Cost],
           \A s \in Stages : RoundedApart(a[s], b[s], 1),
           \A s \in Stages, i \in I : RoundedApart(f[i][s], g[i][s], 1)
    PROVE  \A s \in Stages : RoundedApart(SumCosts(a, f)[s], SumCosts(b, g)[s], 1 + Cardinality(I))
<1>1. \A s \in Stages : SumCosts(a, f)[s] = a[s] + SumFunction([i \in I |-> f[i][s]])
  BY SumCostsIs
<1>2. \A s \in Stages : SumCosts(b, g)[s] = b[s] + SumFunction([i \in I |-> g[i][s]])
  BY SumCostsIs
<1> SUFFICES ASSUME NEW s \in Stages
             PROVE  RoundedApart(SumCosts(a, f)[s], SumCosts(b, g)[s], 1 + Cardinality(I))
  OBVIOUS
<1> DEFINE u == [i \in I |-> f[i][s]]
           v == [i \in I |-> g[i][s]]
<1>3. u \in [I -> Int] /\ v \in [I -> Int] /\ SumFunction(u) \in Int /\ SumFunction(v) \in Int
  BY StageSum
<1>4. SumCosts(a, f)[s] = a[s] + SumFunction(u) /\ SumCosts(b, g)[s] = b[s] + SumFunction(v)
  BY <1>1, <1>2
<1>5. \A i \in I : RoundedApart(u[i], v[i], 1)
  OBVIOUS
<1> HIDE DEF u, v
<1>6. RoundedApart(SumFunction(u), SumFunction(v), Cardinality(I))
  BY <1>3, <1>5, SumRounded
<1>7. a[s] \in Int /\ b[s] \in Int /\ Cardinality(I) \in Nat
  BY FS_CardinalityType, CostIsInt DEF IntCost
<1>8. RoundedApart(a[s] + SumFunction(u), b[s] + SumFunction(v), Cardinality(I) + 1)
  BY <1>3, <1>6, <1>7, RoundedTogether
<1> QED BY <1>4, <1>7, <1>8

LEMMA AgreesNow == Types /\ Calling /\ Reads => RepricingAgrees
<1> SUFFICES ASSUME Types, Calling, Reads, reading.type = "listing", NEW c \in DOMAIN Listed,
                    cardOf[c] = latest
             PROVE  \A s \in Stages :
                        RoundedApart(CostOf(Listed[c])[s],
                                     Recomputed(Rates(latest, kind[c]), Listed[c])[s],
                                     1 + Cardinality(DOMAIN Listed[c].turns))
  BY DEF RepricingAgrees
<1> DEFINE r == Rates(latest, kind[c])
           row == reading.rows[c]
           w == TurnsOf(c)
           I == DOMAIN TurnsOf(c)
           f == [i \in I |-> w[i].cost]
           g == [i \in I |-> Calculate(r, w[i].usage)]
           a == row.closing.cost
           b == Calculate(r, row.closing.usage)
<1>1. /\ c \in DOMAIN reading.rows /\ c \in Calls /\ c \in DOMAIN callRows
      /\ row.closing \in {Row(Unbilled), Row(closing[c])}
  BY DEF Listed, Reads, Types, TableTypes
<1>2. r \in Rate
  BY <1>1, BilledType, RecordsAssumption DEF Types, CallTypes
<1>3. Listed[c] = [row |-> row, turns |-> w]
  BY <1>1 DEF Listed
<1>4. /\ CostOf(Listed[c]) = SumCosts(a, f)
      /\ Recomputed(r, Listed[c]) = SumCosts(b, g)
      /\ DOMAIN Listed[c].turns = I
  BY <1>3 DEF CostOf, Recomputed
<1>5. /\ a \in Cost /\ b \in Cost
      /\ \A s \in Stages : RoundedApart(a[s], b[s], 1)
  <2>1. Unbilled \in Bills /\ Unbilled.cost = Calculate(r, Unbilled.usage)
    BY <1>2, UnbilledType, NoUsageIsFree DEF Unbilled
  <2>2. closing[c] \in Bills /\ closing[c].cost = Calculate(r, closing[c].usage)
    BY <1>1, BilledClosing
  <2> HIDE DEF r
  <2>3. PICK x \in {Unbilled, closing[c]} : row.closing = Row(x)
    BY <1>1
  <2>4. x \in Bills /\ x.cost = Calculate(r, x.usage)
    BY <2>1, <2>2, <2>3
  <2>5. a = Row(x).cost /\ b = Calculate(r, Row(x).usage)
    BY <2>3
  <2> HIDE DEF a, b
  <2> QED BY <1>2, <2>4, <2>5, RepricedSegment
<1>6. /\ f \in [I -> Cost] /\ g \in [I -> Cost]
      /\ \A s \in Stages, i \in I : RoundedApart(f[i][s], g[i][s], 1)
  <2>1. \A i \in I : i \in 1..Last(c) /\ w[i] = Row(turns[c][i])
    BY <1>1, TurnsOfIs
  <2>2. \A i \in I : turns[c][i] \in Bills /\ turns[c][i].cost = Calculate(r, turns[c][i].usage)
    BY <1>1, <2>1, BilledTurn
  <2> HIDE DEF r, I, w
  <2>3. \A i \in I :
          /\ w[i].cost \in Cost /\ Calculate(r, w[i].usage) \in Cost
          /\ \A s \in Stages : RoundedApart(w[i].cost[s], Calculate(r, w[i].usage)[s], 1)
    <3> SUFFICES ASSUME NEW i \in I
                 PROVE  /\ w[i].cost \in Cost /\ Calculate(r, w[i].usage) \in Cost
                        /\ \A s \in Stages :
                              RoundedApart(w[i].cost[s], Calculate(r, w[i].usage)[s], 1)
      OBVIOUS
    <3> DEFINE x == turns[c][i]
    <3>1. x \in Bills /\ x.cost = Calculate(r, x.usage) /\ w[i] = Row(x)
      BY <2>1, <2>2
    <3> HIDE DEF x
    <3> QED BY <1>2, <3>1, RepricedSegment
  <2> QED BY <2>3
<1>7. IsFiniteSet(I) /\ Cardinality(I) \in Nat
  BY TablesFinite, FS_CardinalityType
<1> HIDE DEF r, row, w, I, f, g, a, b
<1>8. \A s \in Stages :
          RoundedApart(SumCosts(a, f)[s], SumCosts(b, g)[s], 1 + Cardinality(I))
  BY <1>5, <1>6, <1>7, Repriced
<1> QED BY <1>4, <1>8 DEF r

LEMMA BetweenNow == Types /\ SpendInv /\ Reads => SpendBetween
<1> SUFFICES ASSUME Types, SpendInv, Reads, reading.type = "spend"
             PROVE  reading.atLeast <= SpendRead /\ SpendRead <= Spend(reading.kind)
  BY DEF SpendBetween
<1> PICK k \in Kinds : k = reading.kind
  BY DEF Reads
<1>1. /\ ClosingTotal(k) \in Int /\ TurnTotal(k) \in Int /\ Spend(k) = ClosingTotal(k) + TurnTotal(k)
  BY SumsAre DEF SpendInv
<1>2. /\ reading.closing \in Int /\ reading.atLeast <= reading.closing + TurnTotal(k)
      /\ reading.closing <= ClosingTotal(k)
  BY DEF Reads
<1> QED BY <1>1, <1>2 DEF SpendRead

(* A call that a listing shows as completed, it shows whole.               *)
LEMMA ListedWhole ==
    ASSUME Types, Calling, Reads, reading.type = "listing", NEW c \in Completed(Listed)
    PROVE  /\ c \in Calls /\ Listed[c].row.closing = Row(closing[c])
           /\ Listed[c].turns = [i \in DOMAIN turns[c] |-> Row(turns[c][i])]
           /\ Cardinality(DOMAIN Listed[c].turns) = Len(turns[c])
<1>1. /\ c \in DOMAIN reading.rows /\ c \in DOMAIN callRows /\ c \in Calls
      /\ Listed[c] = [row |-> reading.rows[c], turns |-> TurnsOf(c)]
      /\ reading.rows[c].status = "completed"
  BY DEF Completed, Listed, Reads, Types, TableTypes
<1>2. reading.rows[c] = callRows[c] /\ callRows[c].status = "completed"
  BY <1>1 DEF Reads
<1>3. callRows[c].closing = Row(closing[c]) /\ \A i \in 1..Last(c) : Recorded(c, i)
  BY <1>1, <1>2 DEF Calling, CallInv, RowInv
<1>4. /\ DOMAIN turns[c] = 1..Last(c) /\ Last(c) \in Nat
      /\ \A i \in 1..Last(c) : i \in 1..MaxTurns
  <2>1. turns[c] \in Seq(Bills)
    BY <1>1 DEF Types, CallTypes
  <2> QED BY <1>1, <2>1, LastType, LenProperties DEF Last
<1>5. DOMAIN TurnsOf(c) = 1..Last(c)
      /\ \A i \in DOMAIN TurnsOf(c) : TurnsOf(c)[i] = Row(turns[c][i])
  BY <1>1, <1>3, <1>4, TurnsOfIs
<1>6. TurnsOf(c) = [i \in DOMAIN TurnsOf(c) |-> TurnsOf(c)[i]]
  BY DEF TurnsOf
<1>7. TurnsOf(c) = [i \in DOMAIN turns[c] |-> Row(turns[c][i])]
  BY <1>4, <1>5, <1>6
<1>8. Cardinality(1..Last(c)) = Last(c)
  BY <1>4, FS_Interval
<1> QED BY <1>1, <1>2, <1>3, <1>5, <1>7, <1>8 DEF Last

LEMMA WholeNow == Types /\ Calling /\ Reads => ComparedWhole
<1> SUFFICES ASSUME Types, Calling, Reads, reading.type = "listing" PROVE ComparedWhole
  BY DEF ComparedWhole
<1> DEFINE D == Completed(Listed)
           whole == [c \in D |-> [row |-> [closing |-> Row(closing[c])],
                                  turns |-> [i \in DOMAIN turns[c] |-> Row(turns[c][i])]]]
<1>1. \A c \in D : /\ Listed[c].row.closing = Row(closing[c])
                   /\ Listed[c].turns = [i \in DOMAIN turns[c] |-> Row(turns[c][i])]
                   /\ Cardinality(DOMAIN Listed[c].turns) = Len(turns[c])
  BY ListedWhole
<1>2. DOMAIN whole = D
  OBVIOUS
<1>3. \A c \in D : /\ whole[c].row.closing = Row(closing[c])
                   /\ whole[c].turns = [i \in DOMAIN turns[c] |-> Row(turns[c][i])]
  OBVIOUS
<1> HIDE DEF D, whole
<1>4. \A c \in D : CostOf(Listed[c]) = CostOf(whole[c])
  <2> SUFFICES ASSUME NEW c \in D PROVE CostOf(Listed[c]) = CostOf(whole[c])
    OBVIOUS
  <2>1. Listed[c].row.closing = whole[c].row.closing /\ Listed[c].turns = whole[c].turns
    BY <1>1, <1>3
  <2> QED BY <2>1 DEF CostOf
<1>5. [c \in D |-> Cardinality(DOMAIN Listed[c].turns)] = [c \in D |-> Len(turns[c])]
  BY <1>1
<1>6. [c \in D |-> CostOf(Listed[c])] = [c \in D |-> CostOf(whole[c])]
  BY <1>4
<1>7. Summary(Listed) =
        [calls |-> Cardinality(D),
         turns |-> SumFunction([c \in D |-> Cardinality(DOMAIN Listed[c].turns)]),
         cost |-> SumCosts(NoCost, [c \in D |-> CostOf(Listed[c])])]
  BY DEF Summary, D
<1>8. Summary(Listed) =
        [calls |-> Cardinality(DOMAIN whole),
         turns |-> SumFunction([c \in DOMAIN whole |-> Len(turns[c])]),
         cost |-> SumCosts(NoCost, [c \in DOMAIN whole |-> CostOf(whole[c])])]
  BY <1>2, <1>5, <1>6, <1>7
<1> QED BY <1>8 DEF ComparedWhole, whole, D

(* Though calls write while it reads in two queries, a report compares     *)
(* whole calls, sums what was spent at a time within the reading, and      *)
(* agrees with the prices the calls were billed at.                        *)
THEOREM ReportsAreTrueAlways == Spec => []ReportsAreTrue
<1> DEFINE Inv == Types /\ Calling /\ SpendInv /\ Reads
<1>1. Init => Inv
  <2>1. Init => Reads
    BY DEF Init, Reads, NoReport
  <2> QED BY <2>1, InitTypes, InitCalling, InitSpend
<1>2. Inv /\ [Next]_vars => Inv'
  BY TypesStep, CallingStep, SpendStep, ReadsStep
<1>3. Inv => ReportsAreTrue
  BY TypesOK, WholeNow, BetweenNow, AgreesNow DEF ReportsAreTrue
<1> QED BY <1>1, <1>2, <1>3, PTL DEF Spec
=============================================================================
