----------------------------- MODULE DataLemmas -----------------------------
(***************************************************************************)
(* Lemmas about data that the proofs of several modules use: numbers,      *)
(* folds, sums, sequences, sorted lists and medians.                       *)
(*                                                                         *)
(* The induction theorems of the library take an operator as a parameter;  *)
(* NatInd and LeastNumber say the same of sets, and a definition by        *)
(* recursion is then proved about as usual: the set of the n of which the  *)
(* claim holds is Nat.                                                     *)
(***************************************************************************)
EXTENDS Integers, SequencesExt, SequenceTheorems, FiniteSetTheorems, WellFoundedInduction, TLAPS

------------------------------------------------------------------------------
(* Naturals.                                                               *)

\* The least-number principle, of sets: theorems with an operator parameter cannot be used.
LEMMA LeastNumber ==
    ASSUME NEW T \in SUBSET Nat, T # {}
    PROVE  \E n \in T : \A m \in T : n <= m
<1>1. IsWellFoundedOn({ss \in Nat \X Nat : ss[1] < ss[2]}, Nat)
  BY NatLessThanWellFounded DEF OpToRel
<1>2. PICK n \in T : \A m \in T : ~(<<m, n>> \in {ss \in Nat \X Nat : ss[1] < ss[2]})
  BY <1>1, WFMin
<1>3. ASSUME NEW m \in T PROVE n <= m
  <2>1. m \in Nat /\ n \in Nat /\ ~(m < n)
    BY <1>2
  <2>. QED BY <2>1
<1>. QED BY <1>3

\* Induction, of sets.
LEMMA NatInd ==
    ASSUME NEW S \in SUBSET Nat, 0 \in S, \A n \in S : n + 1 \in S
    PROVE  S = Nat
<1>1. SUFFICES ASSUME Nat \ S # {} PROVE FALSE
  OBVIOUS
<1>2. PICK n \in Nat \ S : \A m \in Nat \ S : n <= m
  BY <1>1, LeastNumber
<1>3. n \in Nat /\ n # 0 /\ n - 1 \in Nat
  BY <1>2
<1>4. n - 1 \in S
  BY <1>2, <1>3
<1>5. n \in S
  BY <1>3, <1>4
<1>. QED BY <1>2, <1>5

\* In a finite set something is first in any order by numbers, highest first.
LEMMA Greatest ==
    ASSUME NEW U, NEW f \in [U -> Nat], NEW T \in SUBSET U, IsFiniteSet(T), T # {}
    PROVE  \E n \in T : \A m \in T : f[m] <= f[n]
<1> DEFINE N == {k \in Nat : \A S \in SUBSET T : Cardinality(S) = k + 1 =>
                                \E n \in S : \A m \in S : f[m] <= f[n]}
<1>1. \A S \in SUBSET T : IsFiniteSet(S) /\ Cardinality(S) \in Nat
  BY FS_Subset, FS_CardinalityType
<1>2. 0 \in N
  <2>1. ASSUME NEW S \in SUBSET T, Cardinality(S) = 1
        PROVE  \E n \in S : \A m \in S : f[m] <= f[n]
    <3>1. PICK n : S = {n}
      BY <1>1, <2>1, FS_Singleton
    <3> QED BY <3>1
  <2> QED BY <2>1
<1>3. ASSUME NEW k \in N PROVE k + 1 \in N
  <2>1. ASSUME NEW S \in SUBSET T, Cardinality(S) = (k + 1) + 1
        PROVE  \E n \in S : \A m \in S : f[m] <= f[n]
    <3>0. k \in Nat
      OBVIOUS
    <3>1. S # {}
      BY <3>0, <2>1, FS_EmptySet
    <3>2. PICK x \in S : TRUE
      BY <3>1
    <3>3. Cardinality(S \ {x}) = k + 1
      BY <1>1, <3>0, <2>1, FS_RemoveElement
    <3>4. PICK n \in S \ {x} : \A m \in S \ {x} : f[m] <= f[n]
      BY <3>3
    <3>5. f[x] \in Nat /\ f[n] \in Nat /\ \A m \in S : f[m] \in Nat
      OBVIOUS
    <3>6. CASE f[x] <= f[n]
      BY <3>4, <3>5, <3>6
    <3>7. CASE ~(f[x] <= f[n])
      <4>1. f[n] <= f[x]
        BY <3>5, <3>7
      <4>2. \A m \in S : f[m] <= f[x]
        BY <3>4, <3>5, <4>1
      <4> QED BY <4>2
    <3> QED BY <3>6, <3>7
  <2> QED BY <2>1
<1>4. N = Nat
  <2> HIDE DEF N
  <2>1. N \subseteq Nat
    BY DEF N
  <2> QED BY <1>2, <1>3, <2>1, NatInd
<1>5. Cardinality(T) \in Nat \ {0}
  BY <1>1, FS_EmptySet
<1>6. Cardinality(T) - 1 \in Nat /\ (Cardinality(T) - 1) + 1 = Cardinality(T)
  BY <1>5
<1> QED BY <1>4, <1>6

------------------------------------------------------------------------------
(* Sequences, and what FlattenSeq makes of them.                           *)

\* The elements of a sequence.
Elements(s) == {s[i] : i \in 1..Len(s)}

\* The function FlattenSeq is defined with: it puts the first i sequences together.
Flattens(f, ss) ==
    f = [i \in 1..Len(ss) |-> IF i = 1 THEN ss[i] ELSE f[i - 1] \o ss[i]]

\* There is such a function, however long ss is.
LEMMA FlattenExists ==
    ASSUME NEW S, NEW ss \in Seq(Seq(S)), Len(ss) # 0
    PROVE  \E f : Flattens(f, ss)
<1> DEFINE Prefix(n, f) == f = [i \in 1..n |-> IF i = 1 THEN ss[i] ELSE f[i - 1] \o ss[i]]
           N == {n \in Nat : \E f : Prefix(n, f)}
<1>1. 0 \in N
  <2>1. Prefix(0, [i \in 1..0 |-> ss[i]])
    OBVIOUS
  <2> QED BY <2>1
<1>2. ASSUME NEW n \in N PROVE n + 1 \in N
  <2>1. PICK f : Prefix(n, f)
    OBVIOUS
  <2> DEFINE g == [i \in 1..(n + 1) |->
                     IF i <= n THEN f[i] ELSE IF i = 1 THEN ss[i] ELSE f[i - 1] \o ss[i]]
  <2>2. ASSUME NEW i \in 1..(n + 1)
        PROVE  g[i] = IF i = 1 THEN ss[i] ELSE g[i - 1] \o ss[i]
    <3>0. n \in Nat /\ i \in Nat /\ i >= 1 /\ i <= n + 1
      OBVIOUS
    <3>1. CASE i <= n
      <4>1. i \in 1..n /\ (i # 1 => i - 1 \in 1..n)
        BY <3>0, <3>1
      <4>2. f[i] = IF i = 1 THEN ss[i] ELSE f[i - 1] \o ss[i]
        BY <4>1, <2>1
      <4>3. g[i] = f[i] /\ (i # 1 => g[i - 1] = f[i - 1])
        BY <4>1, <3>0
      <4> QED BY <4>2, <4>3
    <3>2. CASE i = n + 1
      <4>1. ~(i <= n)
        BY <3>0, <3>2
      <4>2. i # 1 => i - 1 \in 1..(n + 1) /\ i - 1 <= n /\ i - 1 = n
        BY <3>0, <3>2
      <4>3. g[i] = IF i = 1 THEN ss[i] ELSE f[i - 1] \o ss[i]
        BY <4>1
      <4>4. i # 1 => g[i - 1] = f[i - 1]
        BY <4>2
      <4> QED BY <4>3, <4>4
    <3> QED BY <3>0, <3>1, <3>2
  <2>3. Prefix(n + 1, g)
    BY <2>2
  <2>4. n + 1 \in Nat /\ \E h : Prefix(n + 1, h)
    <3> HIDE DEF g, Prefix
    <3> QED BY <2>3
  <2> QED BY <2>4
<1>3. N = Nat
  <2> HIDE DEF N
  <2>1. N \subseteq Nat
    BY DEF N
  <2> QED BY <1>1, <1>2, <2>1, NatInd
<1>4. Len(ss) \in Nat
  OBVIOUS
<1>5. \E f : Prefix(Len(ss), f)
  BY <1>3, <1>4
<1> QED BY <1>5 DEF Flattens

\* So FlattenSeq is its last value.
LEMMA FlattenValue ==
    ASSUME NEW S, NEW ss \in Seq(Seq(S)), Len(ss) # 0
    PROVE  \E f : Flattens(f, ss) /\ FlattenSeq(ss) = f[Len(ss)]
<1> DEFINE flatten == CHOOSE f : f = [i \in 1..Len(ss) |->
                                        IF i = 1 THEN ss[i] ELSE f[i - 1] \o ss[i]]
<1>1. Flattens(flatten, ss)
  BY FlattenExists DEF Flattens
<1>2. FlattenSeq(ss) = flatten[Len(ss)]
  BY DEF FlattenSeq
<1> QED BY <1>1, <1>2

\* Two sequences put together have the elements of both.
LEMMA ConcatElements ==
    ASSUME NEW S, NEW s \in Seq(S), NEW t \in Seq(S)
    PROVE  s \o t \in Seq(S) /\ Elements(s \o t) = Elements(s) \cup Elements(t)
<1>1. /\ s \o t \in Seq(S) /\ Len(s \o t) = Len(s) + Len(t)
      /\ \A i \in 1..(Len(s) + Len(t)) :
           (s \o t)[i] = IF i <= Len(s) THEN s[i] ELSE t[i - Len(s)]
  BY ConcatProperties
<1>2. Len(s) \in Nat /\ Len(t) \in Nat
  OBVIOUS
<1>3. ASSUME NEW x \in Elements(s \o t) PROVE x \in Elements(s) \cup Elements(t)
  <2>1. PICK i \in 1..(Len(s) + Len(t)) : x = (s \o t)[i]
    BY <1>1 DEF Elements
  <2>2. CASE i <= Len(s)
    <3>1. i \in 1..Len(s) /\ x = s[i]
      BY <1>1, <1>2, <2>1, <2>2
    <3> QED BY <3>1 DEF Elements
  <2>3. CASE ~(i <= Len(s))
    <3>1. i - Len(s) \in 1..Len(t) /\ x = t[i - Len(s)]
      BY <1>1, <1>2, <2>1, <2>3
    <3> QED BY <3>1 DEF Elements
  <2> QED BY <2>2, <2>3
<1>4. ASSUME NEW x \in Elements(s) PROVE x \in Elements(s \o t)
  <2>1. PICK i \in 1..Len(s) : x = s[i]
    BY DEF Elements
  <2>2. i \in 1..(Len(s) + Len(t)) /\ x = (s \o t)[i]
    BY <1>1, <1>2, <2>1
  <2> QED BY <2>2, <1>1 DEF Elements
<1>5. ASSUME NEW x \in Elements(t) PROVE x \in Elements(s \o t)
  <2>1. PICK i \in 1..Len(t) : x = t[i]
    BY DEF Elements
  <2>2. i + Len(s) \in 1..(Len(s) + Len(t)) /\ ~(i + Len(s) <= Len(s)) /\ (i + Len(s)) - Len(s) = i
    BY <1>2
  <2>3. x = (s \o t)[i + Len(s)]
    BY <1>1, <2>1, <2>2
  <2> QED BY <2>2, <2>3, <1>1 DEF Elements
<1> QED BY <1>1, <1>3, <1>4, <1>5

\* FlattenSeq forgets nothing and adds nothing.
LEMMA FlattenElements ==
    ASSUME NEW S, NEW ss \in Seq(Seq(S))
    PROVE  /\ FlattenSeq(ss) \in Seq(S)
           /\ Elements(FlattenSeq(ss)) = UNION {Elements(ss[i]) : i \in 1..Len(ss)}
<1>0. Len(ss) \in Nat
  OBVIOUS
<1>1. CASE Len(ss) = 0
  <2>1. FlattenSeq(ss) = ss /\ ss = <<>>
    BY <1>1 DEF FlattenSeq
  <2> QED BY <1>1, <2>1 DEF Elements
<1>2. CASE Len(ss) # 0
  <2>1. PICK f : Flattens(f, ss) /\ FlattenSeq(ss) = f[Len(ss)]
    BY <1>2, FlattenValue
  <2> DEFINE Good(n) == /\ f[n] \in Seq(S)
                        /\ Elements(f[n]) = UNION {Elements(ss[i]) : i \in 1..n}
             N == {n \in Nat : n + 1 \in 1..Len(ss) => Good(n + 1)}
  <2>2. 0 \in N
    <3>1. f[1] = ss[1] /\ ss[1] \in Seq(S)
      BY <1>0, <1>2, <2>1 DEF Flattens
    <3>2. Good(1)
      BY <3>1
    <3> QED BY <3>2
  <2>3. ASSUME NEW n \in N PROVE n + 1 \in N
    <3>0. n \in Nat /\ n + 2 = (n + 1) + 1
      OBVIOUS
    <3>1. SUFFICES ASSUME n + 2 \in 1..Len(ss) PROVE Good(n + 2)
      BY <3>0
    <3>2. n \in Nat /\ n + 1 \in 1..Len(ss) /\ Good(n + 1)
      BY <3>1
    <3>3. f[n + 2] = f[n + 1] \o ss[n + 2] /\ ss[n + 2] \in Seq(S)
      <4>1. n + 2 # 1 /\ (n + 2) - 1 = n + 1
        BY <3>2
      <4>2. f[n + 2] = f[(n + 2) - 1] \o ss[n + 2]
        BY <3>1, <4>1, <2>1 DEF Flattens
      <4>3. f[(n + 2) - 1] = f[n + 1]
        BY <4>1
      <4>4. ss[n + 2] \in Seq(S)
        BY <3>1, ElementOfSeq
      <4> QED BY <4>2, <4>3, <4>4
    <3>4. f[n + 2] \in Seq(S) /\ Elements(f[n + 2]) = Elements(f[n + 1]) \cup Elements(ss[n + 2])
      BY <3>2, <3>3, ConcatElements
    <3>5. 1..(n + 2) = (1..(n + 1)) \cup {n + 2}
      BY <3>2
    <3> QED BY <3>2, <3>4, <3>5
  <2>4. N = Nat
    <3> HIDE DEF N
    <3>1. N \subseteq Nat
      BY DEF N
    <3> QED BY <2>2, <2>3, <3>1, NatInd
  <2>5. Len(ss) - 1 \in Nat /\ (Len(ss) - 1) + 1 = Len(ss) /\ Len(ss) \in 1..Len(ss)
    BY <1>0, <1>2
  <2>6. Good(Len(ss))
    BY <2>4, <2>5
  <2> QED BY <2>1, <2>6
<1> QED BY <1>1, <1>2

\* A finite set without one of its elements.
LEMMA RemoveOne ==
    ASSUME NEW t, IsFiniteSet(t), NEW x \in t
    PROVE  /\ IsFiniteSet(t \ {x}) /\ Cardinality(t \ {x}) \in Nat
           /\ Cardinality(t) = Cardinality(t \ {x}) + 1
<1>1. Cardinality(t) \in Nat /\ IsFiniteSet(t \ {x}) /\ Cardinality(t \ {x}) \in Nat
  BY FS_CardinalityType, FS_RemoveElement
<1>2. Cardinality(t \ {x}) = Cardinality(t) - 1
  BY FS_RemoveElement
<1> QED BY <1>1, <1>2

------------------------------------------------------------------------------
(* Folds: the function they are defined with, and what is common to all.   *)

\* A step folds a B into an A; of every subset that is not empty an element is picked.
StepOf(F, A, B) == F \in [A \X B -> A]
PickOf(pick, D) == /\ pick \in [(SUBSET D) \ {{}} -> D]
                   /\ \A t \in (SUBSET D) \ {{}} : pick[t] \in t

\* g folds the elements of the subsets of D into base, the one that is picked last.
FoldOf(g, A, base, F, s, pick, D) ==
    /\ g \in [SUBSET D -> A]
    /\ \A t \in SUBSET D :
         g[t] = IF t = {} THEN base ELSE F[<<g[t \ {pick[t]}], s[pick[t]]>>]

\* Recursion over the subsets of a finite set, one element at a time, has a solution.
LEMMA FoldExists ==
    ASSUME NEW A, NEW B, NEW base, NEW F, NEW D, NEW s, NEW pick,
           base \in A, StepOf(F, A, B), IsFiniteSet(D), s \in [D -> B], PickOf(pick, D)
    PROVE  \E g : FoldOf(g, A, base, F, s, pick, D)
<1>0. /\ F \in [A \X B -> A] /\ pick \in [(SUBSET D) \ {{}} -> D]
      /\ \A t \in (SUBSET D) \ {{}} : pick[t] \in t
  BY DEF StepOf, PickOf
<1> DEFINE Small(n) == {t \in SUBSET D : Cardinality(t) <= n}
           Solves(g, n) == \A t \in Small(n) :
               g[t] = IF t = {} THEN base ELSE F[<<g[t \ {pick[t]}], s[pick[t]]>>]
           N == {n \in Nat : \E g \in [SUBSET D -> A] : Solves(g, n)}
<1>1. \A t \in SUBSET D : IsFiniteSet(t) /\ Cardinality(t) \in Nat
  BY FS_Subset, FS_CardinalityType
<1>2. 0 \in N
  <2> DEFINE g == [t \in SUBSET D |-> base]
  <2>1. g \in [SUBSET D -> A]
    OBVIOUS
  <2>2. \A t \in Small(0) : t = {}
    BY <1>1, FS_EmptySet
  <2>3. Solves(g, 0)
    BY <2>2
  <2> QED BY <2>1, <2>3
<1>3. ASSUME NEW n \in N PROVE n + 1 \in N
  <2>1. PICK g \in [SUBSET D -> A] : Solves(g, n)
    OBVIOUS
  <2> DEFINE h == [t \in SUBSET D |->
                     IF t \in Small(n) THEN g[t]
                     ELSE IF t = {} THEN base ELSE F[<<g[t \ {pick[t]}], s[pick[t]]>>]]
  <2>2. ASSUME NEW t \in SUBSET D, t # {}
        PROVE  /\ t \ {pick[t]} \in SUBSET D /\ s[pick[t]] \in B
               /\ Cardinality(t \ {pick[t]}) = Cardinality(t) - 1
    <3>1. pick[t] \in t /\ pick[t] \in D
      BY <2>2, <1>0
    <3>2. IsFiniteSet(t)
      BY <1>1
    <3>3. Cardinality(t \ {pick[t]}) = Cardinality(t) - 1
      <4> HIDE DEF Small, Solves, N
      <4>1. \A x \in t : /\ Cardinality(t \ {x}) \in Nat
                         /\ Cardinality(t) = Cardinality(t \ {x}) + 1
        BY <3>2, RemoveOne
      <4> QED BY <3>1, <4>1
    <3>4. t \ {pick[t]} \in SUBSET D /\ s[pick[t]] \in B
      BY <3>1
    <3> QED BY <3>3, <3>4
  <2>3. h \in [SUBSET D -> A]
    <3>1. ASSUME NEW t \in SUBSET D PROVE h[t] \in A
      <4>1. CASE t = {} \/ t \in Small(n)
        BY <4>1
      <4>2. CASE t # {}
        <5>1. g[t \ {pick[t]}] \in A /\ s[pick[t]] \in B
          BY <4>2, <2>2
        <5>2. h[t] \in {g[t], F[<<g[t \ {pick[t]}], s[pick[t]]>>]}
          BY <4>2
        <5> QED BY <5>1, <5>2, <1>0
      <4> QED BY <4>1, <4>2
    <3> QED BY <3>1
  <2>4. ASSUME NEW t \in Small(n + 1)
        PROVE  h[t] = IF t = {} THEN base ELSE F[<<h[t \ {pick[t]}], s[pick[t]]>>]
    <3>1. CASE t = {}
      <4>1. t \in Small(n)
        BY <3>1, FS_EmptySet
      <4> QED BY <3>1, <4>1, <2>1
    <3>2. CASE t # {}
      <4>1. t \ {pick[t]} \in Small(n)
        BY <3>2, <2>2, <1>1
      <4>2. h[t \ {pick[t]}] = g[t \ {pick[t]}]
        BY <4>1
      <4>3. h[t] = F[<<g[t \ {pick[t]}], s[pick[t]]>>]
        BY <3>2, <2>1
      <4> QED BY <3>2, <4>2, <4>3
    <3> QED BY <3>1, <3>2
  <2>5. n + 1 \in Nat /\ Solves(h, n + 1)
    <3> HIDE DEF h, Small
    <3> QED BY <2>4
  <2>6. \E k \in [SUBSET D -> A] : Solves(k, n + 1)
    <3> HIDE DEF h, Solves
    <3> QED BY <2>3, <2>5
  <2> QED BY <2>5, <2>6
<1>4. N = Nat
  <2> HIDE DEF N
  <2>1. N \subseteq Nat
    BY DEF N
  <2> QED BY <1>2, <1>3, <2>1, NatInd
<1>5. Cardinality(D) \in Nat /\ Small(Cardinality(D)) = SUBSET D
  BY <1>1, FS_Subset
<1>6. \E g \in [SUBSET D -> A] : Solves(g, Cardinality(D))
  <2> HIDE DEF Solves
  <2> QED BY <1>4, <1>5
<1> QED BY <1>5, <1>6 DEF FoldOf

\* The highest index of the first n + 1.
LEMMA MaxIndex ==
    ASSUME NEW n \in Nat
    PROVE  Max(1..(n + 1)) = n + 1 /\ (1..(n + 1)) \ {n + 1} = 1..n
<1>1. n + 1 \in 1..(n + 1) /\ \A y \in 1..(n + 1) : n + 1 >= y
  OBVIOUS
<1>2. \A x \in 1..(n + 1) : (\A y \in 1..(n + 1) : x >= y) => x = n + 1
  OBVIOUS
<1>3. Max(1..(n + 1)) = n + 1
  BY <1>1, <1>2 DEF Max
<1> QED BY <1>3

\* g folds a sequence into base, the last element last.
LeftFoldOf(g, A, B, base, F, s) ==
    /\ g \in [SUBSET DOMAIN s -> A]
    /\ \A t \in SUBSET DOMAIN s :
         t # {} => Max(t) \in t /\ Max(t) \in DOMAIN s /\ s[Max(t)] \in B
    /\ \A t \in SUBSET DOMAIN s :
         g[t] = IF t = {} THEN base ELSE F[<<g[t \ {Max(t)}], s[Max(t)]>>]

\* FoldLeft over a sequence: the function it is defined with exists.
LEMMA LeftExists ==
    ASSUME NEW A, NEW B, NEW base, NEW F, NEW s \in Seq(B),
           base \in A, StepOf(F, A, B)
    PROVE  \E g : LeftFoldOf(g, A, B, base, F, s)
<1> DEFINE D == DOMAIN s
           pick == [t \in (SUBSET D) \ {{}} |-> Max(t)]
<1>1. D = 1..Len(s) /\ Len(s) \in Nat /\ s \in [D -> B]
  OBVIOUS
<1>2. IsFiniteSet(D)
  <2>1. 1 \in Int /\ Len(s) \in Int
    BY <1>1
  <2>2. IsFiniteSet(1..Len(s))
    BY <2>1, FS_Interval
  <2> QED BY <1>1, <2>2
<1>3. ASSUME NEW t \in SUBSET D, t # {} PROVE Max(t) \in t
  <2>1. IsFiniteSet(t)
    BY <1>2, FS_Subset
  <2> DEFINE f == [i \in D |-> i]
  <2>2. f \in [D -> Nat]
    BY <1>1
  <2>3. \E n \in t : \A m \in t : f[m] <= f[n]
    <3> HIDE DEF f
    <3> QED BY <1>3, <2>1, <2>2, Greatest
  <2>4. \E n \in t : \A m \in t : n >= m
    BY <1>1, <2>3
  <2> QED BY <2>4 DEF Max
<1>4. PickOf(pick, D)
  BY <1>3 DEF PickOf
<1>5. \E g : FoldOf(g, A, base, F, s, pick, D)
  <2> HIDE DEF pick, D
  <2> QED BY <1>1, <1>2, <1>4, FoldExists
<1>6. PICK g : FoldOf(g, A, base, F, s, pick, D)
  BY <1>5
<1>7. g \in [SUBSET DOMAIN s -> A]
  BY <1>6 DEF FoldOf
<1>8. \A t \in SUBSET DOMAIN s :
        t # {} => Max(t) \in t /\ Max(t) \in DOMAIN s /\ s[Max(t)] \in B
  BY <1>1, <1>3
<1>9. \A t \in SUBSET DOMAIN s :
        g[t] = IF t = {} THEN base ELSE F[<<g[t \ {Max(t)}], s[Max(t)]>>]
  BY <1>6 DEF FoldOf
<1> QED BY <1>7, <1>8, <1>9 DEF LeftFoldOf

------------------------------------------------------------------------------
(* Sums, with SumFunctionOnSet of Functions.tla.                           *)

\* The element a sum takes next, and the function over the subsets it is defined with.
OneOf(t) == CHOOSE x \in t : TRUE
Sums(g, f, S) == g = [t \in SUBSET S |-> IF t = {} THEN 0 ELSE f[OneOf(t)] + g[t \ {OneOf(t)}]]

\* And only one: where the functions that are summed up agree, so do the sums.
LEMMA SumsAgree ==
    ASSUME NEW S, NEW T, IsFiniteSet(S), NEW f, NEW e, NEW g, NEW h,
           Sums(g, f, S), Sums(h, e, T),
           NEW U \in SUBSET (S \cap T), \A x \in U : f[x] = e[x]
    PROVE  g[U] = h[U]
<1> DEFINE N == {n \in Nat : \A t \in SUBSET U : Cardinality(t) = n => g[t] = h[t]}
<1>1. \A t \in SUBSET U : IsFiniteSet(t) /\ Cardinality(t) \in Nat
  BY FS_Subset, FS_CardinalityType
<1>2. 0 \in N
  <2>1. ASSUME NEW t \in SUBSET U, Cardinality(t) = 0 PROVE g[t] = h[t]
    <3>1. t = {} /\ t \in SUBSET S /\ t \in SUBSET T
      BY <1>1, <2>1, FS_EmptySet
    <3> QED BY <3>1 DEF Sums
  <2> QED BY <2>1
<1>3. ASSUME NEW n \in N PROVE n + 1 \in N
  <2>1. ASSUME NEW t \in SUBSET U, Cardinality(t) = n + 1 PROVE g[t] = h[t]
    <3>0. n \in Nat /\ n + 1 # 0 /\ (n + 1) - 1 = n
      OBVIOUS
    <3>1. t # {}
      BY <2>1, <3>0, FS_EmptySet
    <3>2. OneOf(t) \in t
      BY <3>1 DEF OneOf
    <3>3. IsFiniteSet(t)
      BY <1>1
    <3>4. Cardinality(t \ {OneOf(t)}) = n
      BY <2>1, <3>0, <3>2, <3>3, FS_RemoveElement
    <3>5. g[t \ {OneOf(t)}] = h[t \ {OneOf(t)}]
      BY <3>4
    <3>6. g[t] = f[OneOf(t)] + g[t \ {OneOf(t)}]
      BY <3>1 DEF Sums
    <3>7. h[t] = e[OneOf(t)] + h[t \ {OneOf(t)}]
      BY <3>1 DEF Sums
    <3>8. f[OneOf(t)] = e[OneOf(t)]
      BY <3>2
    <3> QED BY <3>5, <3>6, <3>7, <3>8
  <2> QED BY <2>1
<1>4. N = Nat
  <2> HIDE DEF N
  <2>1. N \subseteq Nat
    BY DEF N
  <2> QED BY <1>2, <1>3, <2>1, NatInd
<1>5. Cardinality(U) \in N
  BY <1>1, <1>4
<1> QED BY <1>5

\* There is such a function.
LEMMA SumsExist ==
    ASSUME NEW S, IsFiniteSet(S), NEW f, \A x \in S : f[x] \in Int
    PROVE  \E g \in [SUBSET S -> Int] :
             Sums(g, f, S) /\ SumFunctionOnSet(f, S) = g[S]
<1> DEFINE F == [p \in Int \X Int |-> p[2] + p[1]]
           h == [x \in S |-> f[x]]
           pick == [t \in (SUBSET S) \ {{}} |-> OneOf(t)]
<1>1. \A t \in (SUBSET S) \ {{}} : OneOf(t) \in t /\ OneOf(t) \in S
  BY DEF OneOf
<1>2. pick \in [(SUBSET S) \ {{}} -> S] /\ \A t \in (SUBSET S) \ {{}} : pick[t] \in t
  BY <1>1
<1>3. F \in [Int \X Int -> Int] /\ h \in [S -> Int]
  OBVIOUS
<1>4. PICK g \in [SUBSET S -> Int] : \A t \in SUBSET S :
        g[t] = IF t = {} THEN 0 ELSE F[<<g[t \ {pick[t]}], h[pick[t]]>>]
  <2> HIDE DEF F, h, pick
  <2>1. 0 \in Int
    OBVIOUS
  <2>2. StepOf(F, Int, Int) /\ PickOf(pick, S)
    BY <1>2, <1>3 DEF StepOf, PickOf
  <2>3. \E g : FoldOf(g, Int, 0, F, h, pick, S)
    BY <1>3, <2>1, <2>2, FoldExists
  <2> QED BY <2>3 DEF FoldOf
<1>5. ASSUME NEW t \in SUBSET S
      PROVE  g[t] = IF t = {} THEN 0 ELSE f[OneOf(t)] + g[t \ {OneOf(t)}]
  <2>1. CASE t = {}
    BY <2>1, <1>4
  <2>2. CASE t # {}
    <3>1. OneOf(t) \in S /\ pick[t] = OneOf(t) /\ h[OneOf(t)] = f[OneOf(t)]
      BY <1>1, <2>2
    <3>2. g[t \ {OneOf(t)}] \in Int /\ f[OneOf(t)] \in Int
      BY <3>1
    <3>3. g[t] = F[<<g[t \ {OneOf(t)}], f[OneOf(t)]>>]
      BY <1>4, <2>2, <3>1
    <3> QED BY <2>2, <3>2, <3>3
  <2> QED BY <2>1, <2>2
<1>6. Sums(g, f, S)
  BY <1>5 DEF Sums
<1> DEFINE iter == CHOOSE k : Sums(k, f, S)
<1>7. Sums(iter, f, S)
  BY <1>6
<1>8. SumFunctionOnSet(f, S) = iter[S]
  BY DEF SumFunctionOnSet, FoldFunctionOnSet, MapThenFoldSet, Sums, OneOf
<1>9. iter[S] = g[S]
  <2>1. S \in SUBSET (S \cap S)
    OBVIOUS
  <2> HIDE DEF iter
  <2> QED BY <1>6, <1>7, <2>1, SumsAgree
<1> QED BY <1>6, <1>8, <1>9

\* The sum over nothing.
LEMMA SumEmpty == ASSUME NEW f PROVE SumFunctionOnSet(f, {}) = 0
<1>1. PICK g \in [SUBSET {} -> Int] : Sums(g, f, {}) /\ SumFunctionOnSet(f, {}) = g[{}]
  BY FS_EmptySet, SumsExist
<1> QED BY <1>1 DEF Sums

\* A sum does not depend on what the function is elsewhere.
LEMMA SumAgree ==
    ASSUME NEW S, IsFiniteSet(S), NEW f, NEW e, \A x \in S : f[x] \in Int /\ f[x] = e[x]
    PROVE  SumFunctionOnSet(f, S) = SumFunctionOnSet(e, S)
<1>1. PICK g \in [SUBSET S -> Int] : Sums(g, f, S) /\ SumFunctionOnSet(f, S) = g[S]
  BY SumsExist
<1>2. \A x \in S : e[x] \in Int
  OBVIOUS
<1>3. PICK h \in [SUBSET S -> Int] : Sums(h, e, S) /\ SumFunctionOnSet(e, S) = h[S]
  BY <1>2, SumsExist
<1>4. S \in SUBSET (S \cap S)
  OBVIOUS
<1>5. g[S] = h[S]
  BY <1>1, <1>3, <1>4, SumsAgree
<1> QED BY <1>1, <1>3, <1>5

\* The sum of integers is one.
LEMMA SumInt ==
    ASSUME NEW S, IsFiniteSet(S), NEW f, \A x \in S : f[x] \in Int
    PROVE  SumFunctionOnSet(f, S) \in Int
<1>1. PICK g \in [SUBSET S -> Int] : Sums(g, f, S) /\ SumFunctionOnSet(f, S) = g[S]
  BY SumsExist
<1> QED BY <1>1

\* Whatever the order: any element may be the last to be added.
LEMMA SumRemove ==
    ASSUME NEW S, IsFiniteSet(S), NEW f, \A x \in S : f[x] \in Int, NEW x \in S
    PROVE  SumFunctionOnSet(f, S) = f[x] + SumFunctionOnSet(f, S \ {x})
<1>1. PICK g \in [SUBSET S -> Int] : Sums(g, f, S) /\ SumFunctionOnSet(f, S) = g[S]
  BY SumsExist
<1> DEFINE N == {n \in Nat : \A t \in SUBSET S : Cardinality(t) = n + 1 =>
                                \A y \in t : g[t] = f[y] + g[t \ {y}]}
<1>2. \A t \in SUBSET S : IsFiniteSet(t) /\ Cardinality(t) \in Nat
  BY FS_Subset, FS_CardinalityType
<1>3. \A t \in SUBSET S : t # {} => /\ OneOf(t) \in t
                                   /\ g[t] = f[OneOf(t)] + g[t \ {OneOf(t)}]
  BY <1>1 DEF Sums, OneOf
<1>4. 0 \in N
  <2>1. ASSUME NEW t \in SUBSET S, Cardinality(t) = 1, NEW y \in t
        PROVE  g[t] = f[y] + g[t \ {y}]
    <3>1. IsFiniteSet(t)
      BY <1>2
    <3>2. \E z : t = {z}
      BY <2>1, <3>1, FS_Singleton
    <3>3. OneOf(t) = y
      BY <1>3, <3>2
    <3> QED BY <1>3, <3>3
  <2> QED BY <2>1
<1>5. ASSUME NEW n \in N PROVE n + 1 \in N
  <2>1. ASSUME NEW t \in SUBSET S, Cardinality(t) = (n + 1) + 1, NEW y \in t, OneOf(t) # y
        PROVE  g[t] = f[y] + g[t \ {y}]
    <3> DEFINE a == OneOf(t)
               u == t \ {a}
               v == t \ {y}
    <3>0. n \in Nat
      OBVIOUS
    <3>1. a \in t /\ g[t] = f[a] + g[u]
      BY <1>3
    <3>2. IsFiniteSet(t)
      BY <1>2
    <3>3. Cardinality(u) = n + 1
      <4>1. Cardinality(u) \in Nat /\ Cardinality(t) = Cardinality(u) + 1
        BY <3>1, <3>2, RemoveOne
      <4> HIDE DEF u, N
      <4> QED BY <2>1, <3>0, <4>1
    <3>4. Cardinality(v) = n + 1
      <4>1. Cardinality(v) \in Nat /\ Cardinality(t) = Cardinality(v) + 1
        BY <3>1, <3>2, RemoveOne
      <4> HIDE DEF v, N
      <4> QED BY <2>1, <3>0, <4>1
    <3>5. u \in SUBSET S /\ v \in SUBSET S /\ y \in u /\ a \in v /\ u \ {y} = v \ {a}
      BY <2>1, <3>1
    <3>6. g[u] = f[y] + g[u \ {y}]
      BY <3>3, <3>5
    <3>7. g[v] = f[a] + g[v \ {a}]
      BY <3>4, <3>5
    <3>8. f[a] \in Int /\ f[y] \in Int /\ g[u \ {y}] \in Int
      BY <3>5
    <3>9. g[v] = g[t \ {y}] /\ g[v \ {a}] = g[u \ {y}]
      BY <3>5
    <3> DEFINE k == g[u \ {y}]
    <3>10. g[u] = f[y] + k /\ g[v] = f[a] + k /\ k \in Int
      BY <3>6, <3>7, <3>8, <3>9
    <3> HIDE DEF a, u, v, k
    <3>11. f[a] + (f[y] + k) = f[y] + (f[a] + k)
      BY <3>8, <3>10
    <3> QED BY <3>1, <3>9, <3>10, <3>11
  <2>2. ASSUME NEW t \in SUBSET S, Cardinality(t) = (n + 1) + 1, NEW y \in t, OneOf(t) = y
        PROVE  g[t] = f[y] + g[t \ {y}]
    BY <1>3, <2>2
  <2> QED BY <2>1, <2>2
<1>6. N = Nat
  <2> HIDE DEF N
  <2>1. N \subseteq Nat
    BY DEF N
  <2> QED BY <1>4, <1>5, <2>1, NatInd
<1>7. g[S] = f[x] + g[S \ {x}]
  <2>1. Cardinality(S) \in Nat /\ Cardinality(S) # 0
    BY <1>2, FS_EmptySet
  <2>2. Cardinality(S) - 1 \in N /\ (Cardinality(S) - 1) + 1 = Cardinality(S)
    BY <1>6, <2>1
  <2> QED BY <2>2
<1>8. IsFiniteSet(S \ {x}) /\ \A y \in S \ {x} : f[y] \in Int
  BY FS_RemoveElement
<1>9. PICK h \in [SUBSET (S \ {x}) -> Int] :
        Sums(h, f, S \ {x}) /\ SumFunctionOnSet(f, S \ {x}) = h[S \ {x}]
  BY <1>8, SumsExist
<1>10. g[S \ {x}] = h[S \ {x}]
  <2>1. S \ {x} \in SUBSET (S \cap (S \ {x}))
    OBVIOUS
  <2> QED BY <1>1, <1>9, <2>1, SumsAgree
<1> QED BY <1>1, <1>7, <1>9, <1>10

\* When one summand changes, the sum changes by as much.
LEMMA SumPoint ==
    ASSUME NEW S, IsFiniteSet(S), NEW f, NEW e, NEW x \in S,
           \A y \in S : f[y] \in Int /\ e[y] \in Int,
           \A y \in S : y # x => f[y] = e[y]
    PROVE  SumFunctionOnSet(e, S) = SumFunctionOnSet(f, S) + (e[x] - f[x])
<1>1. IsFiniteSet(S \ {x})
  BY FS_RemoveElement
<1>2. SumFunctionOnSet(f, S \ {x}) = SumFunctionOnSet(e, S \ {x})
  BY <1>1, SumAgree
<1>3. SumFunctionOnSet(f, S \ {x}) \in Int
  BY <1>1, SumInt
<1>4. SumFunctionOnSet(f, S) = f[x] + SumFunctionOnSet(f, S \ {x})
  BY SumRemove
<1>5. SumFunctionOnSet(e, S) = e[x] + SumFunctionOnSet(e, S \ {x})
  BY SumRemove
<1> QED BY <1>2, <1>3, <1>4, <1>5

\* No summand is more than the sum of natural numbers.
LEMMA SumNat ==
    ASSUME NEW S, IsFiniteSet(S), NEW f, \A x \in S : f[x] \in Nat
    PROVE  /\ SumFunctionOnSet(f, S) \in Nat
           /\ \A x \in S : f[x] <= SumFunctionOnSet(f, S)
<1> DEFINE N == {n \in Nat : \A t \in SUBSET S : Cardinality(t) = n =>
                                SumFunctionOnSet(f, t) \in Nat}
<1>1. \A t \in SUBSET S : IsFiniteSet(t) /\ Cardinality(t) \in Nat
  BY FS_Subset, FS_CardinalityType
<1>2. 0 \in N
  <2>1. ASSUME NEW t \in SUBSET S, Cardinality(t) = 0 PROVE SumFunctionOnSet(f, t) \in Nat
    <3>1. t = {}
      BY <1>1, <2>1, FS_EmptySet
    <3> QED BY <3>1, SumEmpty
  <2> QED BY <2>1
<1>3. ASSUME NEW n \in N PROVE n + 1 \in N
  <2>1. ASSUME NEW t \in SUBSET S, Cardinality(t) = n + 1 PROVE SumFunctionOnSet(f, t) \in Nat
    <3>0. n \in Nat /\ n + 1 # 0 /\ (n + 1) - 1 = n
      OBVIOUS
    <3>1. IsFiniteSet(t)
      BY <1>1
    <3>2. t # {}
      BY <2>1, <3>0, FS_EmptySet
    <3>3. PICK y \in t : TRUE
      BY <3>2
    <3>4. Cardinality(t \ {y}) = n
      BY <2>1, <3>0, <3>1, FS_RemoveElement
    <3>5. SumFunctionOnSet(f, t \ {y}) \in Nat
      BY <3>4
    <3>6. SumFunctionOnSet(f, t) = f[y] + SumFunctionOnSet(f, t \ {y})
      <4>1. \A z \in t : f[z] \in Int
        OBVIOUS
      <4> QED BY <3>1, <4>1, SumRemove
    <3>7. f[y] \in Nat
      OBVIOUS
    <3> QED BY <3>5, <3>6, <3>7
  <2>2. n + 1 \in Nat
    OBVIOUS
  <2> QED BY <2>1, <2>2
<1>4. N = Nat
  <2> HIDE DEF N
  <2>1. N \subseteq Nat
    BY DEF N
  <2> QED BY <1>2, <1>3, <2>1, NatInd
<1>5. \A t \in SUBSET S : SumFunctionOnSet(f, t) \in Nat
  BY <1>1, <1>4
<1>6. ASSUME NEW x \in S PROVE f[x] <= SumFunctionOnSet(f, S)
  <2>1. SumFunctionOnSet(f, S) = f[x] + SumFunctionOnSet(f, S \ {x})
    <3>1. \A z \in S : f[z] \in Int
      OBVIOUS
    <3> QED BY <3>1, SumRemove
  <2>2. SumFunctionOnSet(f, S \ {x}) \in Nat
    BY <1>5
  <2>3. f[x] \in Nat
    OBVIOUS
  <2> QED BY <2>1, <2>2, <2>3
<1> QED BY <1>5, <1>6

\* The sum of zeros.
LEMMA SumZero ==
    ASSUME NEW S, IsFiniteSet(S), NEW f, \A x \in S : f[x] = 0
    PROVE  SumFunctionOnSet(f, S) = 0
<1> DEFINE N == {n \in Nat : \A t \in SUBSET S : Cardinality(t) = n => SumFunctionOnSet(f, t) = 0}
<1>1. \A t \in SUBSET S : IsFiniteSet(t) /\ Cardinality(t) \in Nat
  BY FS_Subset, FS_CardinalityType
<1>2. 0 \in N
  <2>1. ASSUME NEW t \in SUBSET S, Cardinality(t) = 0 PROVE SumFunctionOnSet(f, t) = 0
    <3>1. t = {}
      BY <1>1, <2>1, FS_EmptySet
    <3> QED BY <3>1, SumEmpty
  <2> QED BY <2>1
<1>3. ASSUME NEW n \in N PROVE n + 1 \in N
  <2>0. n \in Nat /\ n + 1 \in Nat /\ n + 1 # 0
    OBVIOUS
  <2>1. ASSUME NEW t \in SUBSET S, Cardinality(t) = n + 1 PROVE SumFunctionOnSet(f, t) = 0
    <3>1. IsFiniteSet(t) /\ t # {}
      BY <1>1, <2>0, <2>1, FS_EmptySet
    <3>2. PICK y \in t : TRUE
      BY <3>1
    <3>3. Cardinality(t \ {y}) \in Nat /\ n + 1 = Cardinality(t \ {y}) + 1
      BY <2>1, <3>1, RemoveOne
    <3>4. SumFunctionOnSet(f, t \ {y}) = 0
      BY <2>0, <3>3
    <3>5. SumFunctionOnSet(f, t) = f[y] + SumFunctionOnSet(f, t \ {y})
      <4>1. \A z \in t : f[z] \in Int
        OBVIOUS
      <4> HIDE DEF N
      <4> QED BY <3>1, <4>1, SumRemove
    <3> QED BY <3>4, <3>5
  <2> QED BY <2>0, <2>1
<1>4. N = Nat
  <2> HIDE DEF N
  <2>1. N \subseteq Nat
    BY DEF N
  <2> QED BY <1>2, <1>3, <2>1, NatInd
<1>5. Cardinality(S) \in N
  BY <1>1, <1>4
<1> QED BY <1>5

------------------------------------------------------------------------------
(* Sorted sequences of numbers.                                            *)

\* The numbers do not increase.
Descends(s) == \A i, j \in 1..Len(s) : i < j => s[i] >= s[j]

\* How many of them reach v.
Reaching(s, v) == {i \in 1..Len(s) : s[i] >= v}
AtLeast(s, v) == Cardinality(Reaching(s, v))

\* p sorts the n numbers of s.
Sorts(p, s, n) == /\ p \in Bijection(1..n, 1..n)
                  /\ \A i, j \in 1..n : i < j => s[p[i]] >= s[p[j]]

\* One of n + 1 numbers is the least.
LEMMA LeastAt ==
    ASSUME NEW n \in Nat, NEW s \in [1..(n + 1) -> Int]
    PROVE  \E m \in 1..(n + 1) : \A i \in 1..(n + 1) : s[m] <= s[i]
<1> DEFINE Good == {k \in Nat : \A t \in [1..(k + 1) -> Int] :
                                   \E m \in 1..(k + 1) : \A i \in 1..(k + 1) : t[m] <= t[i]}
<1>1. 0 \in Good
  <2>1. 1 \in 1..(0 + 1) /\ \A i \in 1..(0 + 1) : i = 1
    OBVIOUS
  <2> QED BY <2>1
<1>2. ASSUME NEW k \in Good PROVE k + 1 \in Good
  <2>0. k \in Nat
    OBVIOUS
  <2> DEFINE last == (k + 1) + 1
  <2> SUFFICES ASSUME NEW t \in [1..last -> Int]
               PROVE  \E m \in 1..last : \A i \in 1..last : t[m] <= t[i]
    <3>1. k + 1 \in Nat
      BY <2>0
    <3> QED BY <3>1
  <2> DEFINE u == [i \in 1..(k + 1) |-> t[i]]
  <2>1. /\ last \in 1..last /\ \A i \in 1..last : i = last \/ i \in 1..(k + 1)
        /\ \A i \in 1..(k + 1) : i \in 1..last /\ u[i] = t[i]
    BY <2>0
  <2>2. u \in [1..(k + 1) -> Int]
    BY <2>1
  <2> HIDE DEF u, last
  <2>3. PICK m \in 1..(k + 1) : \A i \in 1..(k + 1) : u[m] <= u[i]
    BY <2>2
  <2>4. m \in 1..last /\ t[m] \in Int /\ t[last] \in Int /\ \A i \in 1..(k + 1) : t[m] <= t[i]
    BY <2>1, <2>3 DEF last
  <2>5. CASE t[m] <= t[last]
    <3>1. \A i \in 1..last : t[m] <= t[i]
      BY <2>1, <2>4, <2>5
    <3> QED BY <2>4, <3>1
  <2>6. CASE t[last] <= t[m]
    <3>1. ASSUME NEW i \in 1..(k + 1) PROVE t[last] <= t[i]
      <4>1. t[i] \in Int /\ t[m] <= t[i]
        BY <2>1, <2>4 DEF last
      <4> QED BY <2>4, <2>6, <4>1
    <3>2. \A i \in 1..last : t[last] <= t[i]
      BY <2>1, <2>4, <3>1
    <3> QED BY <2>1, <3>2
  <2> QED BY <2>4, <2>5, <2>6
<1> HIDE DEF Good
<1>3. Good = Nat
  <2>1. Good \in SUBSET Nat
    BY DEF Good
  <2> QED BY <1>1, <1>2, <2>1, NatInd
<1> QED BY <1>3 DEF Good

\* n numbers can be sorted: the least comes last, the others are sorted before it.
LEMMA SortExists ==
    ASSUME NEW n \in Nat, NEW s \in [1..n -> Int]
    PROVE  \E p : Sorts(p, s, n)
<1> DEFINE Good == {k \in Nat : \A t \in [1..k -> Int] : \E p : Sorts(p, t, k)}
<1>1. 0 \in Good
  <2>1. ASSUME NEW t \in [1..0 -> Int] PROVE Sorts(t, t, 0)
    BY 1..0 = {} DEF Sorts, Bijection, Injection, Surjection, IsInjective
  <2> QED BY <2>1
<1>2. ASSUME NEW k \in Good PROVE k + 1 \in Good
  <2> SUFFICES ASSUME NEW t \in [1..(k + 1) -> Int] PROVE \E p : Sorts(p, t, k + 1)
    BY <1>2
  <2>1. PICK m \in 1..(k + 1) : \A i \in 1..(k + 1) : t[m] <= t[i]
    BY <1>2, LeastAt
  <2> DEFINE swap(i) == IF i = m THEN k + 1 ELSE i
             u == [i \in 1..k |-> t[swap(i)]]
  <2>2. k \in Nat /\ \A i \in 1..k : swap(i) \in 1..(k + 1) /\ swap(i) # m
    BY <1>2, <2>1
  <2>3. \A i, j \in 1..k : swap(i) = swap(j) => i = j
    BY <2>2
  <2>4. \A i \in 1..(k + 1) : i # m => \E j \in 1..k : swap(j) = i
    <3> SUFFICES ASSUME NEW i \in 1..(k + 1), i # m PROVE \E j \in 1..k : swap(j) = i
      OBVIOUS
    <3>1. CASE i = k + 1
      <4>1. m \in 1..k /\ swap(m) = i
        BY <2>2, <3>1
      <4> QED BY <4>1
    <3>2. CASE i # k + 1
      <4>1. i \in 1..k /\ swap(i) = i
        BY <2>2, <3>2
      <4> QED BY <4>1
    <3> QED BY <3>1, <3>2
  <2>5. u \in [1..k -> Int] /\ \A i \in 1..k : u[i] = t[swap(i)]
    BY <2>2
  <2> HIDE DEF swap, u
  <2>6. PICK q : Sorts(q, u, k)
    BY <1>2, <2>5
  <2>7. /\ q \in [1..k -> 1..k] /\ \A i, j \in 1..k : q[i] = q[j] => i = j
        /\ \A j \in 1..k : \E i \in 1..k : q[i] = j
        /\ \A i, j \in 1..k : i < j => u[q[i]] >= u[q[j]]
    BY <2>6 DEF Sorts, Bijection, Injection, Surjection, IsInjective
  <2> DEFINE p == [i \in 1..(k + 1) |-> IF i = k + 1 THEN m ELSE swap(q[i])]
  <2>8. \A i \in 1..(k + 1) : i = k + 1 \/ i \in 1..k
    BY <2>2
  <2>9. /\ k + 1 \in 1..(k + 1) /\ p[k + 1] = m
        /\ \A i \in 1..k : i \in 1..(k + 1) /\ q[i] \in 1..k /\ p[i] = swap(q[i])
    <3>1. k + 1 \in 1..(k + 1) /\ \A i \in 1..k : i \in 1..(k + 1) /\ i # k + 1
      BY <2>2
    <3>2. \A i \in 1..k : q[i] \in 1..k
      BY <2>7
    <3> QED BY <3>1, <3>2
  <2>10. p \in [1..(k + 1) -> 1..(k + 1)]
    BY <2>1, <2>2, <2>7, <2>8
  <2> HIDE DEF p
  <2>11. \A i, j \in 1..(k + 1) : p[i] = p[j] => i = j
    <3> SUFFICES ASSUME NEW i \in 1..(k + 1), NEW j \in 1..(k + 1), p[i] = p[j] PROVE i = j
      OBVIOUS
    <3>1. CASE i = k + 1
      BY <2>2, <2>8, <2>9, <3>1
    <3>2. CASE j = k + 1
      BY <2>2, <2>8, <2>9, <3>2
    <3>3. CASE i \in 1..k /\ j \in 1..k
      <4>1. swap(q[i]) = swap(q[j]) /\ q[i] \in 1..k /\ q[j] \in 1..k
        BY <2>9, <3>3
      <4>2. q[i] = q[j]
        BY <2>3, <4>1
      <4> QED BY <2>7, <3>3, <4>2
    <3> QED BY <2>8, <3>1, <3>2, <3>3
  <2>12. \A j \in 1..(k + 1) : \E i \in 1..(k + 1) : p[i] = j
    <3> SUFFICES ASSUME NEW j \in 1..(k + 1), j # m PROVE \E i \in 1..(k + 1) : p[i] = j
      BY <2>9
    <3>1. PICK x \in 1..k : swap(x) = j
      BY <2>4
    <3>2. PICK i \in 1..k : q[i] = x
      BY <2>7
    <3> QED BY <2>9, <3>1, <3>2
  <2>13. ASSUME NEW i \in 1..(k + 1), NEW j \in 1..(k + 1), i < j PROVE t[p[i]] >= t[p[j]]
    <3>1. i \in 1..k
      BY <2>2, <2>13
    <3>2. CASE j = k + 1
      <4>1. p[i] \in 1..(k + 1) /\ t[p[i]] \in Int /\ t[m] \in Int /\ t[m] <= t[p[i]]
        BY <2>1, <2>10
      <4> QED BY <2>9, <3>2, <4>1
    <3>3. CASE j \in 1..k
      <4>1. u[q[i]] >= u[q[j]]
        BY <2>7, <2>13, <3>1, <3>3
      <4>2. u[q[i]] = t[p[i]] /\ u[q[j]] = t[p[j]]
        BY <2>5, <2>9, <3>1, <3>3
      <4> QED BY <4>1, <4>2
    <3> QED BY <2>8, <3>2, <3>3
  <2> QED BY <2>10, <2>11, <2>12, <2>13 DEF Sorts, Bijection, Injection, Surjection, IsInjective
<1> HIDE DEF Good
<1>3. Good = Nat
  <2>1. Good \in SUBSET Nat
    BY DEF Good
  <2> QED BY <1>1, <1>2, <2>1, NatInd
<1> QED BY <1>3 DEF Good

\* Of a sequence that descends, those that reach a number are the first ones.
LEMMA FirstReach ==
    ASSUME NEW s \in Seq(Nat), Descends(s), NEW v \in Nat
    PROVE  /\ AtLeast(s, v) \in 0..Len(s)
           /\ Reaching(s, v) = 1..AtLeast(s, v)
<1> DEFINE T == Reaching(s, v)
<1>1. Len(s) \in Nat /\ T \in SUBSET (1..Len(s)) /\ \A i \in 1..Len(s) : s[i] \in Nat
  BY DEF Reaching
<1>2. CASE T = {}
  BY <1>1, <1>2, FS_EmptySet DEF AtLeast
<1> HIDE DEF T
<1>3. CASE T # {}
  <2> DEFINE id == [i \in 1..Len(s) |-> i]
  <2>1. IsFiniteSet(T)
    <3>1. IsFiniteSet(1..Len(s))
      BY <1>1, FS_Interval
    <3> QED BY <1>1, <3>1, FS_Subset
  <2>2. id \in [1..Len(s) -> Nat]
    BY <1>1
  <2>3. PICK k \in T : \A i \in T : id[i] <= id[k]
    BY <1>1, <1>3, <2>1, <2>2, Greatest
  <2>4. k \in 1..Len(s) /\ \A i \in T : i <= k
    BY <1>1, <2>3
  <2>5. ASSUME NEW i \in 1..k PROVE i \in T
    <3>1. i \in 1..Len(s) /\ s[k] >= v /\ (i = k \/ i < k)
      BY <2>3, <2>4 DEF Reaching, T
    <3>2. s[i] >= s[k]
      BY <1>1, <2>4, <3>1 DEF Descends
    <3> QED BY <1>1, <2>4, <3>1, <3>2 DEF Reaching, T
  <2>6. T = 1..k
    <3>1. \A i \in T : i \in 1..k
      BY <1>1, <2>4
    <3> QED BY <2>5, <3>1
  <2>7. Cardinality(1..k) = k
    BY <2>4, FS_Interval
  <2> QED BY <2>4, <2>6, <2>7 DEF AtLeast, T
<1> QED BY <1>2, <1>3 DEF T

\* A descending sequence is known from its length and from how many reach each number.
LEMMA SameNumbers ==
    ASSUME NEW s \in Seq(Nat), NEW t \in Seq(Nat), Descends(s), Descends(t), Len(s) = Len(t),
           \A v \in Nat : AtLeast(s, v) = AtLeast(t, v)
    PROVE  s = t
<1>1. ASSUME NEW i \in 1..Len(s) PROVE s[i] = t[i]
  <2>1. s[i] \in Nat /\ t[i] \in Nat /\ i \in 1..Len(t)
    OBVIOUS
  <2>2. Reaching(s, s[i]) = Reaching(t, s[i]) /\ Reaching(s, t[i]) = Reaching(t, t[i])
    BY <2>1, FirstReach
  <2>3. i \in Reaching(s, s[i]) /\ i \in Reaching(t, t[i])
    BY <2>1 DEF Reaching
  <2>4. t[i] >= s[i] /\ s[i] >= t[i]
    BY <2>2, <2>3 DEF Reaching
  <2> QED BY <2>1, <2>4
<1>2. \A i \in 1..Len(s) : s[i] = t[i]
  BY <1>1
<1> QED BY <1>2, SeqEqual, Zenon

\* The first n of a descending sequence.
LEMMA FirstOf ==
    ASSUME NEW s \in Seq(Nat), Descends(s), NEW n \in Nat, n < Len(s)
    PROVE  /\ SubSeq(s, 1, n) \in Seq(Nat) /\ Len(SubSeq(s, 1, n)) = n /\ Descends(SubSeq(s, 1, n))
           /\ \A v \in Nat : AtLeast(SubSeq(s, 1, n), v) = IF AtLeast(s, v) > n THEN n ELSE AtLeast(s, v)
<1> DEFINE t == SubSeq(s, 1, n)
<1>1. t \in Seq(Nat) /\ Len(t) = n /\ \A i \in 1..n : i \in 1..Len(s) /\ t[i] = s[i]
  <2>1. Len(s) \in Nat
    OBVIOUS
  <2>2. 1..n \subseteq 1..Len(s)
    BY <2>1
  <2> QED BY <2>1, <2>2
<1> HIDE DEF t
<1>2. Descends(t)
  BY <1>1 DEF Descends
<1>3. ASSUME NEW v \in Nat
      PROVE  AtLeast(t, v) = IF AtLeast(s, v) > n THEN n ELSE AtLeast(s, v)
  <2> DEFINE c == AtLeast(s, v)
             k == IF c > n THEN n ELSE c
  <2>1. c \in 0..Len(s) /\ Reaching(s, v) = 1..c
    BY FirstReach
  <2> HIDE DEF c
  <2>2. Reaching(t, v) = {i \in 1..n : i \in Reaching(s, v)}
    BY <1>1 DEF Reaching
  <2>3. k \in Nat /\ Reaching(t, v) = 1..k
    BY <2>1, <2>2
  <2> HIDE DEF k
  <2>4. Cardinality(1..k) = k
    BY <2>3, FS_Interval
  <2>5. AtLeast(t, v) = k
    BY <2>3, <2>4 DEF AtLeast
  <2> QED BY <2>5 DEF c, k
<1> QED BY <1>1, <1>2, <1>3 DEF t

\* One number more.
LEMMA AppendReach ==
    ASSUME NEW s \in Seq(Nat), NEW x \in Nat
    PROVE  /\ Append(s, x) \in Seq(Nat) /\ Len(Append(s, x)) = Len(s) + 1
           /\ \A v \in Nat : /\ AtLeast(s, v) \in 0..Len(s)
                            /\ AtLeast(Append(s, x), v) = AtLeast(s, v) + (IF x >= v THEN 1 ELSE 0)
<1> DEFINE t == Append(s, x)
           n == Len(s)
<1>1. /\ n \in Nat /\ t \in Seq(Nat) /\ Len(t) = n + 1 /\ t[n + 1] = x
      /\ \A i \in 1..n : t[i] = s[i]
  OBVIOUS
<1> HIDE DEF t
<1>2. ASSUME NEW v \in Nat
      PROVE  /\ AtLeast(s, v) \in 0..n
             /\ AtLeast(t, v) = AtLeast(s, v) + (IF x >= v THEN 1 ELSE 0)
  <2> DEFINE S == Reaching(s, v)
  <2>1. S \in SUBSET (1..n) /\ n + 1 \notin S
    BY <1>1 DEF Reaching
  <2> HIDE DEF S, n
  <2>2. IsFiniteSet(1..n) /\ Cardinality(1..n) = n
    <3>1. n \in Nat
      BY <1>1
    <3> QED BY <3>1, FS_Interval
  <2>3. IsFiniteSet(S) /\ Cardinality(S) \in Nat /\ Cardinality(S) <= n
    BY <2>1, <2>2, FS_Subset, FS_CardinalityType
  <2>4. Reaching(t, v) = IF x >= v THEN S \cup {n + 1} ELSE S
    BY <1>1 DEF Reaching, S, n
  <2>5. Cardinality(S \cup {n + 1}) = Cardinality(S) + 1
    BY <2>1, <2>3, FS_AddElement
  <2>6. AtLeast(s, v) = Cardinality(S) /\ AtLeast(t, v) = Cardinality(Reaching(t, v))
    BY DEF AtLeast, S
  <2> QED BY <1>1, <2>3, <2>4, <2>5, <2>6
<1> QED BY <1>1, <1>2 DEF t

\* Of a list of numbers one has no more than half of them below it, and more than that at most it.
LEMMA MedianExists ==
    ASSUME NEW s \in Seq(Int), Len(s) > 0
    PROVE  \E x \in ToSet(s) :
              /\ Cardinality({i \in DOMAIN s : s[i] < x}) <= Len(s) \div 2
              /\ Cardinality({i \in DOMAIN s : s[i] <= x}) > Len(s) \div 2
<1> DEFINE n == Len(s)
           k == n \div 2
           u == [i \in 1..n |-> -s[i]]
<1>1. n \in Nat /\ n > 0 /\ DOMAIN s = 1..n /\ \A i \in 1..n : s[i] \in Int
  OBVIOUS
<1> HIDE DEF n
<1>2. k \in Nat /\ k + 1 \in 1..n
  BY <1>1
<1> HIDE DEF k
<1>3. u \in [1..n -> Int] /\ \A i \in 1..n : u[i] = -s[i]
  BY <1>1
<1> HIDE DEF u
<1>4. PICK p : Sorts(p, u, n)
  BY <1>1, <1>3, SortExists
<1>5. /\ p \in [1..n -> 1..n] /\ \A i, j \in 1..n : p[i] = p[j] => i = j
      /\ \A i \in 1..n : \E j \in 1..n : p[j] = i
      /\ \A i, j \in 1..n : i < j => u[p[i]] >= u[p[j]]
  BY <1>4 DEF Sorts, Bijection, Injection, Surjection, IsInjective
<1>6. \A i, j \in 1..n : i <= j => s[p[i]] <= s[p[j]]
  <2> SUFFICES ASSUME NEW i \in 1..n, NEW j \in 1..n, i <= j PROVE s[p[i]] <= s[p[j]]
    OBVIOUS
  <2>1. p[i] \in 1..n /\ p[j] \in 1..n /\ s[p[i]] \in Int /\ s[p[j]] \in Int
    BY <1>1, <1>5
  <2>2. i < j => -s[p[i]] >= -s[p[j]]
    <3>1. u[p[i]] = -s[p[i]] /\ u[p[j]] = -s[p[j]]
      BY <1>3, <2>1
    <3>2. i < j => u[p[i]] >= u[p[j]]
      BY <1>5
    <3> QED BY <3>1, <3>2
  <2>3. i = j \/ i < j
    BY <1>1
  <2> QED BY <2>1, <2>2, <2>3
<1> DEFINE First(m) == {p[j] : j \in 1..m}
<1>7. ASSUME NEW m \in 1..n \cup {0}
      PROVE  IsFiniteSet(First(m)) /\ Cardinality(First(m)) = m
  <2> DEFINE f == [j \in 1..m |-> p[j]]
  <2>1. m \in Nat /\ \A j \in 1..m : j \in 1..n
    BY <1>1
  <2>2. IsFiniteSet(1..m) /\ Cardinality(1..m) = m
    BY <2>1, FS_Interval
  <2>3. f \in Bijection(1..m, First(m))
    BY <1>5, <2>1 DEF Bijection, Injection, Surjection, IsInjective
  <2> HIDE DEF First
  <2> QED BY <2>2, <2>3, FS_Bijection DEF ExistsBijection
<1> DEFINE x == s[p[k + 1]]
           below == {i \in DOMAIN s : s[i] < x}
           upto == {i \in DOMAIN s : s[i] <= x}
<1>8. x \in Int /\ x \in ToSet(s)
  <2>1. p[k + 1] \in DOMAIN s
    BY <1>1, <1>2, <1>5
  <2> QED BY <1>1, <2>1 DEF ToSet
<1>9. below \in SUBSET First(k)
  <2> SUFFICES ASSUME NEW i \in 1..n, s[i] < x PROVE i \in First(k)
    BY <1>1
  <2>1. PICK j \in 1..n : p[j] = i
    BY <1>5
  <2>2. ~(k + 1 <= j)
    <3>1. k + 1 <= j => x <= s[i]
      BY <1>2, <1>6, <2>1
    <3>2. s[i] \in Int
      BY <1>1
    <3> HIDE DEF x
    <3> QED BY <1>8, <3>1, <3>2
  <2>3. j \in 1..k
    BY <1>2, <2>2
  <2> QED BY <2>1, <2>3
<1>10. First(k + 1) \in SUBSET upto
  <2> SUFFICES ASSUME NEW j \in 1..(k + 1) PROVE p[j] \in 1..n /\ s[p[j]] <= x
    BY <1>1
  <2>1. j \in 1..n /\ j <= k + 1
    BY <1>1, <1>2
  <2> QED BY <1>2, <1>5, <1>6, <2>1
<1>11. IsFiniteSet(upto) /\ Cardinality(upto) \in Nat
  <2>1. IsFiniteSet(1..n)
    BY <1>1, FS_Interval
  <2>2. upto \in SUBSET (1..n)
    BY <1>1
  <2> HIDE DEF upto
  <2> QED BY <2>1, <2>2, FS_Subset, FS_CardinalityType
<1> HIDE DEF First, below, upto, x
<1>12. k \in 1..n \cup {0} /\ k + 1 \in 1..n \cup {0}
  BY <1>1, <1>2
<1>13. Cardinality(below) <= k
  BY <1>7, <1>9, <1>12, FS_Subset
<1>14. Cardinality(upto) > k
  <2>1. Cardinality(First(k + 1)) = k + 1
    BY <1>7, <1>12
  <2>2. Cardinality(First(k + 1)) <= Cardinality(upto)
    BY <1>10, <1>11, FS_Subset
  <2> QED BY <1>2, <1>11, <2>1, <2>2
<1> QED BY <1>8, <1>13, <1>14 DEF below, upto, k, n
=============================================================================
