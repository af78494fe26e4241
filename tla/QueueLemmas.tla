---------------------------- MODULE QueueLemmas -----------------------------
(***************************************************************************)
(* Facts about the sequences that model channels, streams and raft.msgs,   *)
(* and about the maxima that raft's Progress takes, for the proofs about   *)
(* the modules that use them.                                              *)
(***************************************************************************)
EXTENDS Integers, Sequences, SequencesExt, FiniteSetsExt, FiniteSetTheorems,
        WellFoundedInduction, TLAPS

-----------------------------------------------------------------------------
(* Sequences *)

\* The elements of a sequence.
LEMMA RangeType ==
    ASSUME NEW S, NEW s \in Seq(S)
    PROVE  /\ Range(s) \subseteq S
           /\ \A i \in 1..Len(s) : s[i] \in Range(s)
           /\ \A m \in Range(s) : \E i \in 1..Len(s) : m = s[i]
BY DEF Range

\* A message is put at the end of a stream or of recvc.
LEMMA RangeAppend ==
    ASSUME NEW S, NEW s \in Seq(S), NEW e \in S
    PROVE  /\ Append(s, e) \in Seq(S)
           /\ Len(Append(s, e)) = Len(s) + 1
           /\ Range(Append(s, e)) = Range(s) \cup {e}
<1>. DEFINE new == Append(s, e)
<1>1. /\ new \in Seq(S) /\ Len(new) = Len(s) + 1 /\ Len(s) \in Nat
      /\ \A i \in 1..Len(s) : new[i] = s[i]
      /\ new[Len(s) + 1] = e
  OBVIOUS
<1>2. DOMAIN new = 1..Len(new) /\ DOMAIN s = 1..Len(s)
  OBVIOUS
<1>. HIDE DEF new
<1>3. Range(new) = Range(s) \cup {e}
  BY <1>1, <1>2 DEF Range
<1>. QED
  BY <1>1, <1>3 DEF new

\* The first message is taken.
LEMMA RangeTail ==
    ASSUME NEW S, NEW s \in Seq(S), s # <<>>
    PROVE  /\ Head(s) \in Range(s) /\ Head(s) \in S
           /\ Tail(s) \in Seq(S)
           /\ Len(Tail(s)) = Len(s) - 1
           /\ Range(Tail(s)) \subseteq Range(s)
           /\ Len(s) \in Nat \ {0}
           /\ Tail(s) # <<>> <=> Len(s) # 1
<1>. DEFINE new == Tail(s)
<1>1. /\ new \in Seq(S) /\ Len(new) = Len(s) - 1 /\ Len(s) \in Nat \ {0}
      /\ \A i \in 1..Len(s) - 1 : new[i] = s[i + 1]
      /\ Head(s) = s[1]
  OBVIOUS
<1>2. DOMAIN new = 1..Len(new) /\ DOMAIN s = 1..Len(s)
  OBVIOUS
<1>3. new # <<>> <=> Len(new) # 0
  BY <1>1
<1>. HIDE DEF new
<1>4. Range(new) \subseteq Range(s) /\ Head(s) \in Range(s)
  BY <1>1, <1>2 DEF Range
<1>5. Head(s) \in S
  BY <1>4, RangeType
<1>. QED
  BY <1>1, <1>3, <1>4, <1>5 DEF new

\* Messages are added to raft.msgs.
LEMMA RangeConcat ==
    ASSUME NEW S, NEW s \in Seq(S), NEW t \in Seq(S)
    PROVE  s \o t \in Seq(S) /\ Range(s \o t) = Range(s) \cup Range(t)
<1>. DEFINE new == s \o t
<1>1. /\ new \in Seq(S) /\ Len(new) = Len(s) + Len(t) /\ Len(s) \in Nat /\ Len(t) \in Nat
      /\ \A i \in 1..Len(s) : new[i] = s[i]
      /\ \A i \in 1..Len(t) : new[Len(s) + i] = t[i]
  OBVIOUS
<1>2. DOMAIN new = 1..Len(new) /\ DOMAIN s = 1..Len(s) /\ DOMAIN t = 1..Len(t)
  OBVIOUS
<1>. HIDE DEF new
<1>3. Range(s) \subseteq Range(new)
  BY <1>1, <1>2 DEF Range
<1>4. Range(t) \subseteq Range(new)
  <2>. SUFFICES ASSUME NEW i \in 1..Len(t) PROVE t[i] \in Range(new)
    BY <1>2 DEF Range
  <2>1. Len(s) + i \in DOMAIN new /\ new[Len(s) + i] = t[i]
    BY <1>1, <1>2
  <2>. QED
    BY <2>1 DEF Range
<1>5. Range(new) \subseteq Range(s) \cup Range(t)
  <2>. SUFFICES ASSUME NEW i \in 1..Len(new) PROVE new[i] \in Range(s) \cup Range(t)
    BY <1>2 DEF Range
  <2>1. CASE i <= Len(s)
    BY <1>1, <1>2, <2>1 DEF Range
  <2>2. CASE i > Len(s)
    <3>1. i - Len(s) \in 1..Len(t) /\ Len(s) + (i - Len(s)) = i
      BY <1>1, <2>2
    <3>2. new[i] = t[i - Len(s)]
      BY <1>1, <3>1
    <3>. QED
      BY <1>2, <3>1, <3>2 DEF Range
  <2>. QED
    BY <1>1, <2>1, <2>2
<1>. QED
  BY <1>1, <1>3, <1>4, <1>5 DEF new

\* Nothing is in an empty channel.
LEMMA RangeEmpty == Range(<<>>) = {} /\ Len(<<>>) = 0 /\ \A S : <<>> \in Seq(S)
BY DEF Range

\* A finite set of messages, in some order.
LEMMA SetToSeqType ==
    ASSUME NEW S, IsFiniteSet(S)
    PROVE  SetToSeq(S) \in Seq(S)
<1>1. Cardinality(S) \in Nat /\ ExistsBijection(1..Cardinality(S), S)
  BY FS_CardinalityType
<1>2. PICK f : f \in Bijection(1..Cardinality(S), S)
  BY <1>1 DEF ExistsBijection
<1>3. f \in [1..Cardinality(S) -> S] /\ IsInjective(f)
  BY <1>2 DEF Bijection, Injection, IsInjective
<1>4. SetToSeq(S) \in [1..Cardinality(S) -> S]
  BY <1>3 DEF SetToSeq
<1>. QED
  BY <1>1, <1>4

-----------------------------------------------------------------------------
(* Maxima and minima *)

\* The larger and the smaller of two numbers.
LEMMA MaxOfTwo ==
    ASSUME NEW a \in Int, NEW b \in Int
    PROVE  /\ Max({a, b}) = IF a >= b THEN a ELSE b
           /\ Min({a, b}) = IF a <= b THEN a ELSE b
BY DEF Max, Min

\* A set of natural numbers has a smallest one.
LEMMA LeastNatural ==
    ASSUME NEW T \in SUBSET Nat, T # {}
    PROVE  \E t \in T : \A u \in T : t <= u
<1>. DEFINE R == OpToRel(<, Nat)
<1>1. IsWellFoundedOn(R, Nat)
  BY NatLessThanWellFounded
<1>2. \A x, y \in Nat : x < y => <<x, y>> \in R
  BY DEF OpToRel
<1>. HIDE DEF R
<1>3. PICK t \in T : \A u \in T : ~(<<u, t>> \in R)
  BY <1>1, WFMin
<1>4. ASSUME NEW u \in T PROVE t <= u
  <2>1. u \in Nat /\ t \in Nat
    OBVIOUS
  <2>2. ~(u < t)
    BY <1>2, <1>3, <2>1
  <2>. QED
    BY <2>1, <2>2
<1>. QED
  BY <1>4

\* A set of numbers up to n has a largest one.
LEMMA MaxUpTo ==
    ASSUME NEW n \in Nat, NEW S \in SUBSET (0..n), S # {}
    PROVE  Max(S) \in S /\ \A j \in S : j <= Max(S)
<1>. DEFINE T == {n - j : j \in S}
<1>1. T \in SUBSET Nat /\ T # {}
  <2>1. \A j \in S : n - j \in Nat
    OBVIOUS
  <2>2. T \subseteq Nat
    BY <2>1
  <2>3. PICK j \in S : TRUE
    OBVIOUS
  <2>4. n - j \in T
    BY <2>3
  <2>. QED
    BY <2>2, <2>4
<1>2. PICK t \in T : \A u \in T : t <= u
  BY <1>1, LeastNatural
<1>3. PICK j \in S : t = n - j
  OBVIOUS
<1>4. \A k \in S : j >= k
  BY <1>2, <1>3
<1>5. Max(S) \in S /\ \A k \in S : Max(S) >= k
  BY <1>4 DEF Max
<1>. QED
  BY <1>5


-----------------------------------------------------------------------------
(* Induction and recursion up to a number *)

\* A set that holds 0, and with each number the next one, holds all up to n.
LEMMA InductUpTo ==
    ASSUME NEW n \in Nat, NEW P, 0 \in P, \A i \in 1..n : i - 1 \in P => i \in P
    PROVE  \A i \in 0..n : i \in P
<1>. DEFINE T == {j \in Nat : j <= n /\ j \notin P}
<1>. SUFFICES ASSUME T # {} PROVE FALSE
  OBVIOUS
<1>1. PICK t \in T : \A u \in T : t <= u
  <2>1. T \in SUBSET Nat
    OBVIOUS
  <2>. HIDE DEF T
  <2>. QED
    BY <2>1, LeastNatural
<1>2. t \in 1..n /\ t - 1 \in Nat /\ t - 1 <= n /\ ~(t <= t - 1)
  OBVIOUS
<1>3. t - 1 \notin T
  BY <1>1, <1>2
<1>. QED
  BY <1>2, <1>3

\* A loop that goes through 1..n, from a on and with the body F, has a history.
LoopRuns(S, a, n, F) ==
    \E g \in [0..n -> S] : g[0] = a /\ \A i \in 1..n : g[i] = F[g[i - 1]][i]

\* If the body stays within S, the loop has one.
LEMMA LoopHistory ==
    ASSUME NEW S, NEW a \in S, NEW n \in Nat, NEW F, \A x \in S, i \in 1..n : F[x][i] \in S
    PROVE  LoopRuns(S, a, n, F)
<1>. DEFINE Upto(m) == \E g \in [0..m -> S] : g[0] = a /\ \A i \in 1..m : g[i] = F[g[i - 1]][i]
            P == {m \in Nat : Upto(m)}
<1>1. 0 \in P
  <2>1. PICK g : g = [i \in 0..0 |-> a]
    OBVIOUS
  <2>2. g \in [0..0 -> S] /\ g[0] = a /\ \A i \in 1..0 : FALSE
    BY <2>1
  <2>3. Upto(0)
    BY <2>2
  <2>. QED
    BY <2>3
<1>2. ASSUME NEW m \in 1..n, m - 1 \in P
      PROVE  m \in P
  <2>1. PICK g \in [0..(m - 1) -> S] :
               g[0] = a /\ \A i \in 1..(m - 1) : g[i] = F[g[i - 1]][i]
    BY <1>2
  <2>2. g[m - 1] \in S /\ F[g[m - 1]][m] \in S
    OBVIOUS
  <2>3. PICK h : h = [i \in 0..m |-> IF i < m THEN g[i] ELSE F[g[m - 1]][m]]
    OBVIOUS
  <2>4. h \in [0..m -> S]
    BY <2>2, <2>3
  <2>5. \A i \in 0..(m - 1) : h[i] = g[i]
    BY <2>3
  <2>6. h[0] = a /\ h[m] = F[g[m - 1]][m]
    BY <2>1, <2>3, <2>5
  <2>7. ASSUME NEW i \in 1..m PROVE h[i] = F[h[i - 1]][i]
    <3>1. h[i - 1] = g[i - 1]
      BY <2>5
    <3>2. CASE i = m
      BY <2>6, <3>1, <3>2
    <3>3. CASE i # m
      <4>1. i \in 1..(m - 1) /\ i \in 0..(m - 1)
        BY <3>3
      <4>. QED
        BY <2>1, <2>5, <3>1, <4>1
    <3>. QED
      BY <3>2, <3>3
  <2>8. \A i \in 1..m : h[i] = F[h[i - 1]][i]
    BY <2>7
  <2>9. Upto(m)
    BY <2>4, <2>6, <2>8
  <2>10. m \in Nat
    OBVIOUS
  <2>. HIDE DEF Upto
  <2>. QED
    BY <2>9, <2>10
<1>3. n \in P
  <2>1. \A m \in 1..n : m - 1 \in P => m \in P
    BY <1>2
  <2>. HIDE DEF P
  <2>2. \A m \in 0..n : m \in P
    BY <1>1, <2>1, InductUpTo
  <2>. QED
    BY <2>2
<1>. QED
  BY <1>3 DEF LoopRuns
=============================================================================
