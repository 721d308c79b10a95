----------------------------- MODULE DataLemmas -----------------------------
(***************************************************************************)
(* Facts about sequences and about repeated steps that the proofs share.   *)
(*                                                                         *)
(* What Append, the removal of an element and of the last one do, index by *)
(* index: the stacks are arrays in the code and sequences in what they     *)
(* promise, and a refinement compares the two.                             *)
(*                                                                         *)
(* Induction over the natural numbers, stated for a set: a predicate P is  *)
(* the set of the numbers that have it.  It follows from the least number  *)
(* that is not in the set.  With it, loops written as functions defined by *)
(* recursion can be reasoned about: IterationExists says that there is a   *)
(* function with the equations of the recursion.                           *)
(***************************************************************************)
EXTENDS Integers, Sequences, SequenceTheorems, WellFoundedInduction, TLAPS

\* Append and the removal of an element, index by index.
LEMMA AppendIsFunction ==
  ASSUME NEW S, NEW s \in Seq(S), NEW a \in S
  PROVE  Append(s, a) = [i \in 1 .. Len(s) + 1 |-> IF i <= Len(s) THEN s[i] ELSE a]
<1> DEFINE f == [i \in 1 .. Len(s) + 1 |-> IF i <= Len(s) THEN s[i] ELSE a]
<1>1. Append(s, a) \in Seq(S) /\ Len(Append(s, a)) = Len(s) + 1
      /\ \A i \in 1 .. Len(s) + 1 : Append(s, a)[i] = f[i]
  BY AppendProperties
<1>2. Append(s, a) \in [1 .. Len(s) + 1 -> S]
  BY <1>1, LenProperties
<1> QED BY <1>1, <1>2

LEMMA RemoveAtIsFunction ==
  ASSUME NEW S, NEW s \in Seq(S), NEW i \in 1 .. Len(s)
  PROVE  SubSeq(s, 1, i - 1) \o SubSeq(s, i + 1, Len(s))
           = [k \in 1 .. Len(s) - 1 |-> IF k < i THEN s[k] ELSE s[k + 1]]
<1> DEFINE l == SubSeq(s, 1, i - 1)
           r == SubSeq(s, i + 1, Len(s))
           f == [k \in 1 .. Len(s) - 1 |-> IF k < i THEN s[k] ELSE s[k + 1]]
<1>0. Len(s) \in Nat /\ \A k \in 1 .. Len(s) : s[k] \in S
  BY LenProperties, ElementOfSeq
<1>1. l \in Seq(S) /\ Len(l) = i - 1 /\ \A k \in 1 .. i - 1 : l[k] = s[k]
  <2>1. \A k \in 1 .. i - 1 : s[k] \in S
    BY <1>0
  <2> HIDE DEF l
  <2>2. /\ l \in Seq(S)
        /\ Len(l) = IF 1 <= i - 1 THEN (i - 1) - 1 + 1 ELSE 0
        /\ \A k \in 1 .. (i - 1) - 1 + 1 : l[k] = s[1 + k - 1]
    BY <2>1, SubSeqProperties DEF l
  <2> QED BY <2>2, <1>0
<1>2. r \in Seq(S) /\ Len(r) = Len(s) - i /\ \A k \in 1 .. Len(s) - i : r[k] = s[k + i]
  <2>1. \A k \in i + 1 .. Len(s) : s[k] \in S
    BY <1>0
  <2> HIDE DEF r
  <2>2. /\ r \in Seq(S)
        /\ Len(r) = IF i + 1 <= Len(s) THEN Len(s) - (i + 1) + 1 ELSE 0
        /\ \A k \in 1 .. Len(s) - (i + 1) + 1 : r[k] = s[(i + 1) + k - 1]
    BY <2>1, <1>0, SubSeqProperties DEF r
  <2> QED BY <2>2, <1>0
<1> HIDE DEF l, r
<1>3. l \o r \in Seq(S) /\ Len(l \o r) = Len(s) - 1
      /\ \A k \in 1 .. Len(s) - 1 : (l \o r)[k] = IF k <= i - 1 THEN l[k] ELSE r[k - (i - 1)]
  <2>1. /\ l \o r \in Seq(S)
        /\ Len(l \o r) = Len(l) + Len(r)
        /\ \A k \in 1 .. Len(l) + Len(r) :
              (l \o r)[k] = IF k <= Len(l) THEN l[k] ELSE r[k - Len(l)]
    BY <1>1, <1>2, ConcatProperties
  <2>2. Len(l) + Len(r) = Len(s) - 1
    BY <1>0, <1>1, <1>2
  <2> QED BY <1>1, <2>1, <2>2
<1>4. \A k \in 1 .. Len(s) - 1 : (l \o r)[k] = f[k]
  BY <1>0, <1>1, <1>2, <1>3
<1>5. l \o r \in [1 .. Len(s) - 1 -> S]
  BY <1>3, LenProperties
<1>6. l \o r = f
  BY <1>4, <1>5
<1> QED BY <1>6 DEF l, r

LEMMA FrontIsFunction ==
  ASSUME NEW S, NEW s \in Seq(S), NEW n \in Nat, Len(s) = n + 1
  PROVE  SubSeq(s, 1, n) = [k \in 1 .. n |-> s[k]]
<1> DEFINE l == SubSeq(s, 1, n)
<1>1. \A k \in 1 .. n : s[k] \in S
  <2>1. \A k \in 1 .. Len(s) : s[k] \in S
    BY ElementOfSeq
  <2>2. 1 .. n \subseteq 1 .. Len(s)
    OBVIOUS
  <2> QED BY <2>1, <2>2
<1> HIDE DEF l
<1>2. /\ l \in Seq(S)
      /\ Len(l) = IF 1 <= n THEN n - 1 + 1 ELSE 0
      /\ \A k \in 1 .. n - 1 + 1 : l[k] = s[1 + k - 1]
  BY <1>1, SubSeqProperties DEF l
<1>3. Len(l) = n /\ n - 1 + 1 = n
  BY <1>2
<1>4. \A k \in 1 .. n : l[k] = s[k]
  BY <1>2, <1>3
<1>5. l \in [1 .. n -> S]
  BY <1>2, <1>3, LenProperties
<1> QED BY <1>4, <1>5 DEF l

-----------------------------------------------------------------------------
\* A set of numbers has a least one.
LEMMA LeastElement ==
  ASSUME NEW S, S \subseteq Nat, S # {}
  PROVE  \E x \in S : \A y \in S : x <= y
<1> DEFINE R == {p \in Nat \X Nat : p[1] < p[2]}
<1>1. IsWellFoundedOn(R, Nat)
  BY NatLessThanWellFounded DEF OpToRel
<1> HIDE DEF R
<1>2. PICK x \in S : \A y \in S : ~(<<y, x>> \in R)
  BY <1>1, WFMin
<1>3. ASSUME NEW y \in S, ~(x <= y) PROVE FALSE
  <2>1. y \in Nat /\ x \in Nat /\ y < x
    BY <1>3
  <2>2. <<y, x>> \in R
    BY <2>1 DEF R
  <2> QED BY <1>2, <2>2
<1> QED BY <1>3

\* Induction over the natural numbers, for a set instead of a predicate.
LEMMA SetInduction ==
  ASSUME NEW S, 0 \in S, \A n \in Nat : n \in S => n + 1 \in S
  PROVE  Nat \subseteq S
<1> DEFINE T == {n \in Nat : n \notin S}
<1>1. SUFFICES ASSUME T # {} PROVE FALSE
  OBVIOUS
<1>2. PICK x \in T : \A y \in T : x <= y
  <2>1. T \subseteq Nat
    OBVIOUS
  <2> HIDE DEF T
  <2> QED BY <1>1, <2>1, LeastElement
<1>3. x \in Nat /\ x # 0 /\ x \notin S
  OBVIOUS
<1>4. x - 1 \in Nat /\ ~(x <= x - 1) /\ (x - 1) + 1 = x
  BY <1>3
<1>5. x - 1 \in T
  BY <1>3, <1>4
<1> QED BY <1>2, <1>4, <1>5

\* Up to a bound: the elements of a sequence of steps.
LEMMA StepInduction ==
  ASSUME NEW n \in Nat, NEW S, 0 \in S, \A k \in 0 .. n - 1 : k \in S => k + 1 \in S
  PROVE  0 .. n \subseteq S
<1> DEFINE T == {k \in Nat : k \in 0 .. n => k \in S}
<1>1. 0 \in T
  OBVIOUS
<1>2. ASSUME NEW k \in Nat, k \in T PROVE k + 1 \in T
  BY <1>2
<1>3. Nat \subseteq T
  <2> HIDE DEF T
  <2> QED BY <1>1, <1>2, SetInduction
<1> QED BY <1>3

\* g repeats the step F from x, n times.
Iterates(g, S, F, x, n) ==
    /\ g \in [0 .. n -> S]
    /\ g[0] = x
    /\ \A k \in 1 .. n : g[k] = F[g[k - 1]]

\* There is such a g: what a recursive definition defines exists.
LEMMA IterationExists ==
  ASSUME NEW S, NEW x \in S, NEW F \in [S -> S], NEW n \in Nat
  PROVE  \E g : Iterates(g, S, F, x, n)
<1> DEFINE Sat == {k \in Nat : \E g : Iterates(g, S, F, x, k)}
<1>1. 0 \in Sat
  <2>1. Iterates([i \in 0 .. 0 |-> x], S, F, x, 0)
    BY DEF Iterates
  <2> QED BY <2>1
<1>2. ASSUME NEW k \in Nat, k \in Sat PROVE k + 1 \in Sat
  <2>1. PICK g : Iterates(g, S, F, x, k)
    BY <1>2
  <2> DEFINE h == [i \in 0 .. k + 1 |-> IF i <= k THEN g[i] ELSE F[g[k]]]
  <2>2. h \in [0 .. k + 1 -> S]
    BY <2>1 DEF Iterates
  <2>3. ASSUME NEW i \in 1 .. k + 1 PROVE h[i] = F[h[i - 1]]
    <3>1. CASE i <= k
      BY <2>1, <3>1 DEF Iterates
    <3>2. CASE i = k + 1
      BY <2>1, <3>2 DEF Iterates
    <3> QED BY <3>1, <3>2
  <2>4. h[0] = x
    BY <2>1 DEF Iterates
  <2>5. Iterates(h, S, F, x, k + 1)
    BY <2>2, <2>3, <2>4 DEF Iterates
  <2>6. k + 1 \in Nat
    OBVIOUS
  <2> HIDE DEF h
  <2> QED BY <2>5, <2>6
<1>3. n \in Sat
  <2> HIDE DEF Sat
  <2> QED BY <1>1, <1>2, SetInduction
<1> QED BY <1>3

-----------------------------------------------------------------------------
\* A sequence, whatever of: for values whose type is left open.
IsSequence(s) == Len(s) \in Nat /\ s \in Seq({s[i] : i \in 1 .. Len(s)})

\* Append, on such a sequence.
LEMMA AppendKeeps ==
  ASSUME NEW s, IsSequence(s), NEW x
  PROVE  /\ IsSequence(Append(s, x))
         /\ Len(Append(s, x)) = Len(s) + 1
         /\ DOMAIN s = 1 .. Len(s) /\ DOMAIN Append(s, x) = 1 .. Len(s) + 1
         /\ \A i \in 1 .. Len(s) : Append(s, x)[i] = s[i]
         /\ Append(s, x)[Len(s) + 1] = x
<1> DEFINE S == {s[i] : i \in 1 .. Len(s)}
           a == Append(s, x)
<1>1. Len(s) \in Nat /\ s \in Seq(S \cup {x}) /\ x \in S \cup {x}
  BY DEF IsSequence
<1> HIDE DEF S
<1>2. /\ a \in Seq(S \cup {x}) /\ Len(a) = Len(s) + 1
      /\ \A i \in 1 .. Len(s) : a[i] = s[i]
      /\ a[Len(s) + 1] = x
  BY <1>1, AppendProperties
<1> HIDE DEF a
<1>3. a \in [1 .. Len(a) -> {a[i] : i \in 1 .. Len(a)}]
  BY <1>2, LenProperties
<1>4. Len(a) \in Nat
  BY <1>1, <1>2
<1>5. a \in Seq({a[i] : i \in 1 .. Len(a)})
  BY <1>3, <1>4
<1>6. DOMAIN s = 1 .. Len(s) /\ DOMAIN a = 1 .. Len(a)
  BY <1>1, <1>2, LenProperties
<1> QED BY <1>1, <1>2, <1>4, <1>5, <1>6 DEF a, IsSequence

\* Sequences that are such.
LEMMA SmallSequences == IsSequence(<<>>) /\ \A c : IsSequence(<<c>>)
<1>1. IsSequence(<<>>)
  BY DEF IsSequence
<1>2. ASSUME NEW c PROVE IsSequence(<<c>>)
  <2>1. Append(<<>>, c) = <<c>>
    OBVIOUS
  <2>2. IsSequence(Append(<<>>, c))
    BY <1>1, AppendKeeps
  <2> QED BY <2>1, <2>2
<1> QED BY <1>1, <1>2

LEMMA SequenceIsSequence ==
  ASSUME NEW S, NEW s \in Seq(S)
  PROVE  IsSequence(s)
<1>1. Len(s) \in Nat /\ s \in [1 .. Len(s) -> S] /\ DOMAIN s = 1 .. Len(s)
  BY LenProperties
<1> DEFINE T == {s[i] : i \in 1 .. Len(s)}
<1>2. s \in [1 .. Len(s) -> T]
  BY <1>1
<1> HIDE DEF T
<1>3. s \in Seq(T)
  BY <1>1, <1>2
<1> QED BY <1>1, <1>3 DEF T, IsSequence

=============================================================================
