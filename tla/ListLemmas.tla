----------------------------- MODULE ListLemmas -----------------------------
(***************************************************************************)
(* Lemmas about sequences, numbers and sums that no component owns: the    *)
(* elements of a list after one is put in or taken out, induction over     *)
(* numbers and over finite sets, what the folds of the community modules   *)
(* add up to, and remainders.                                              *)
(*                                                                         *)
(* The induction lemmas speak of the set T of those values of which        *)
(* something has been shown, so that they can be cited as facts.           *)
(***************************************************************************)
EXTENDS Integers, SequencesExt, FiniteSetTheorems, SequenceTheorems,
        WellFoundedInduction, TLAPS

-----------------------------------------------------------------------------
(* Induction                                                               *)

\* A set of numbers that is not empty has a least element.
LEMMA LeastIndex ==
    ASSUME NEW T \in SUBSET Nat, T # {}
    PROVE  \E x \in T : \A y \in T : x <= y
  <1>1. PICK x \in T : \A y \in T : ~(<<y, x>> \in OpToRel(<, Nat))
    BY NatLessThanWellFounded, WFMin
  <1>2. ASSUME NEW y \in T
        PROVE  x <= y
    <2>1. y \in Nat /\ x \in Nat
      OBVIOUS
    <2>2. ~(y < x)
      BY <1>1, <2>1 DEF OpToRel
    <2> QED
      BY <2>1, <2>2
  <1> QED
    BY <1>2

\* Induction from 0 to n.
LEMMA CountUp ==
    ASSUME NEW n \in Nat, NEW T, 0 \in T,
           \A k \in 0 .. n - 1 : k \in T => k + 1 \in T
    PROVE  \A k \in 0 .. n : k \in T
  <1>. DEFINE D == {k \in 0 .. n : k \notin T}
  <1> SUFFICES ASSUME D # {} PROVE FALSE
    OBVIOUS
  <1>1. D \in SUBSET Nat
    OBVIOUS
  <1>2. PICK k \in D : \A y \in D : k <= y
    <2>. HIDE DEF D
    <2> QED
      BY <1>1, LeastIndex
  <1>3. k # 0 /\ k - 1 \in 0 .. n - 1
    OBVIOUS
  <1>4. k - 1 \in T
    BY <1>2, <1>3
  <1> QED
    BY <1>3, <1>4

\* What a step of a set into itself makes of a value, again and again, n times.
LEMMA Iterates ==
    ASSUME NEW n \in Nat, NEW A, NEW a \in A, NEW T \in [A -> A]
    PROVE  \E f \in [0 .. n -> A] :
              f = [k \in 0 .. n |-> IF k = 0 THEN a ELSE T[f[k - 1]]]
  <1>. DEFINE Upto(f, k) == f[0] = a /\ \A j \in 1 .. k : f[j] = T[f[j - 1]]
              D == {k \in 0 .. n : \E f \in [0 .. k -> A] : Upto(f, k)}
  <1>1. 0 \in D
    <2>1. [j \in 0 .. 0 |-> a] \in [0 .. 0 -> A] /\ Upto([j \in 0 .. 0 |-> a], 0)
      OBVIOUS
    <2>2. \E f \in [0 .. 0 -> A] : Upto(f, 0)
      BY <2>1
    <2>3. 0 \in 0 .. n
      OBVIOUS
    <2>. HIDE DEF Upto
    <2> QED
      BY <2>2, <2>3
  <1>2. ASSUME NEW k \in 0 .. (n - 1), k \in D
        PROVE  k + 1 \in D
    <2>1. PICK f \in [0 .. k -> A] : Upto(f, k)
      BY <1>2
    <2>. DEFINE g == [j \in 0 .. (k + 1) |-> IF j <= k THEN f[j] ELSE T[f[k]]]
    <2>2. g \in [0 .. (k + 1) -> A]
      BY <2>1
    <2>3. g[0] = a /\ g[k + 1] = T[f[k]] /\ \A j \in 0 .. k : g[j] = f[j]
      BY <2>1
    <2>. HIDE DEF g
    <2>4. ASSUME NEW j \in 1 .. (k + 1)
          PROVE  g[j] = T[g[j - 1]]
      <3>1. j - 1 \in 0 .. k /\ g[j - 1] = f[j - 1]
        BY <2>3
      <3>2. CASE j = k + 1
        BY <2>3, <3>1, <3>2
      <3>3. CASE j \in 1 .. k
        BY <2>1, <2>3, <3>1, <3>3
      <3> QED
        BY <3>2, <3>3
    <2>5. k + 1 \in 0 .. n
      OBVIOUS
    <2> QED
      BY <2>2, <2>3, <2>4, <2>5
  <1>3. n \in D
    <2>. HIDE DEF D
    <2> QED
      BY <1>1, <1>2, CountUp
  <1>4. PICK f \in [0 .. n -> A] : Upto(f, n)
    BY <1>3
  <1>5. ASSUME NEW k \in 0 .. n
        PROVE  f[k] = IF k = 0 THEN a ELSE T[f[k - 1]]
    BY <1>4
  <1>6. f = [k \in 0 .. n |-> IF k = 0 THEN a ELSE T[f[k - 1]]]
    BY <1>4, <1>5
  <1> QED
    BY <1>4, <1>6

\* Induction over the subsets of a finite set, one element at a time.
LEMMA SubsetsGrow ==
    ASSUME NEW S, IsFiniteSet(S), NEW T,
           \A s \in SUBSET S : (\A x \in s : s \ {x} \in T) => s \in T
    PROVE  \A s \in SUBSET S : s \in T
  <1>. DEFINE D == {Cardinality(s) : s \in (SUBSET S) \ T}
  <1> SUFFICES ASSUME (SUBSET S) \ T # {} PROVE FALSE
    OBVIOUS
  <1>0. \A s \in SUBSET S : IsFiniteSet(s) /\ Cardinality(s) \in Nat
    BY FS_Subset, FS_CardinalityType
  <1>1. D \in SUBSET Nat /\ D # {}
    BY <1>0
  <1>2. PICK k \in D : \A y \in D : k <= y
    <2>. HIDE DEF D
    <2> QED
      BY <1>1, LeastIndex
  <1>3. PICK s \in (SUBSET S) \ T : k = Cardinality(s)
    OBVIOUS
  <1>4. ASSUME NEW x \in s
        PROVE  s \ {x} \in T
    <2>1. s \ {x} \in SUBSET S
      OBVIOUS
    <2>2. Cardinality(s \ {x}) = k - 1 /\ k \in Nat
      BY <1>0, <1>3, FS_RemoveElement
    <2>3. ~(k <= k - 1)
      BY <2>2
    <2>4. CASE s \ {x} \notin T
      BY <1>2, <2>1, <2>2, <2>3, <2>4
    <2> QED
      BY <2>4
  <1>5. s \in SUBSET S /\ s \notin T
    BY <1>3
  <1>. HIDE DEF D
  <1> QED
    BY <1>4, <1>5

-----------------------------------------------------------------------------
(* Lists                                                                   *)

\* The elements of a list after one is taken out.
LEMMA RemoveAtElements ==
    ASSUME NEW E, NEW s \in Seq(E), NEW i \in 1 .. Len(s)
    PROVE  /\ RemoveAt(s, i) \in Seq(E)
           /\ Len(RemoveAt(s, i)) = Len(s) - 1
           /\ \A j \in 1 .. (Len(s) - 1) :
                  RemoveAt(s, i)[j] = IF j < i THEN s[j] ELSE s[j + 1]
  <1>. DEFINE l == SubSeq(s, 1, i - 1)
              r == SubSeq(s, i + 1, Len(s))
  <1>0. /\ Len(s) \in Nat /\ i \in Int /\ \A j \in 1 .. Len(s) : s[j] \in E
    BY LenProperties, ElementOfSeq
  <1>1. /\ l \in Seq(E) /\ Len(l) = i - 1
        /\ \A j \in 1 .. (i - 1) : l[j] = s[j]
    <2>1. \A j \in 1 .. (i - 1) : s[j] \in E
      BY <1>0
    <2> QED
      BY <1>0, <2>1, SubSeqProperties
  <1>2. /\ r \in Seq(E) /\ Len(r) = Len(s) - i
        /\ \A j \in 1 .. (Len(s) - i) : r[j] = s[i + j]
    <2>1. \A j \in (i + 1) .. Len(s) : s[j] \in E
      BY <1>0
    <2> QED
      BY <1>0, <2>1, SubSeqProperties
  <1>3. /\ l \o r \in Seq(E) /\ Len(l \o r) = Len(l) + Len(r)
        /\ \A j \in 1 .. (Len(l) + Len(r)) :
               (l \o r)[j] = IF j <= Len(l) THEN l[j] ELSE r[j - Len(l)]
    BY <1>1, <1>2, ConcatProperties
  <1>4. RemoveAt(s, i) = l \o r
    BY DEF RemoveAt
  <1>. HIDE DEF l, r
  <1>5. ASSUME NEW j \in 1 .. (Len(s) - 1)
        PROVE  (l \o r)[j] = IF j < i THEN s[j] ELSE s[j + 1]
    <2>1. CASE j < i
      BY <1>0, <1>1, <1>2, <1>3, <2>1
    <2>2. CASE ~(j < i)
      <3>1. (l \o r)[j] = r[j - (i - 1)]
        BY <1>0, <1>1, <1>2, <1>3, <2>2
      <3>2. j - (i - 1) \in 1 .. (Len(s) - i) /\ i + (j - (i - 1)) = j + 1
        BY <1>0, <2>2
      <3> QED
        BY <1>2, <3>1, <3>2, <2>2
    <2> QED
      BY <2>1, <2>2
  <1> QED
    BY <1>0, <1>1, <1>2, <1>3, <1>4, <1>5

\* The elements of a list after one is put in.
LEMMA InsertAtElements ==
    ASSUME NEW E, NEW s \in Seq(E), NEW i \in 1 .. (Len(s) + 1), NEW e \in E
    PROVE  /\ InsertAt(s, i, e) \in Seq(E)
           /\ Len(InsertAt(s, i, e)) = Len(s) + 1
           /\ \A j \in 1 .. (Len(s) + 1) :
                  InsertAt(s, i, e)[j] = IF j < i THEN s[j]
                                         ELSE IF j = i THEN e ELSE s[j - 1]
  <1>. DEFINE l == SubSeq(s, 1, i - 1)
              r == SubSeq(s, i, Len(s))
  <1>0. /\ Len(s) \in Nat /\ i \in Int /\ \A j \in 1 .. Len(s) : s[j] \in E
    BY LenProperties, ElementOfSeq
  <1>1. /\ l \in Seq(E) /\ Len(l) = i - 1
        /\ \A j \in 1 .. (i - 1) : l[j] = s[j]
    <2>1. \A j \in 1 .. (i - 1) : s[j] \in E
      BY <1>0
    <2> QED
      BY <1>0, <2>1, SubSeqProperties
  <1>2. /\ r \in Seq(E) /\ Len(r) = Len(s) - i + 1
        /\ \A j \in 1 .. (Len(s) - i + 1) : r[j] = s[i + j - 1]
    <2>1. \A j \in i .. Len(s) : s[j] \in E
      BY <1>0
    <2> QED
      BY <1>0, <2>1, SubSeqProperties
  <1>3. <<e>> \in Seq(E) /\ Len(<<e>>) = 1 /\ <<e>>[1] = e
    OBVIOUS
  <1>. DEFINE m == l \o <<e>>
  <1>4. /\ m \in Seq(E) /\ Len(m) = i
        /\ \A j \in 1 .. i : m[j] = IF j <= i - 1 THEN l[j] ELSE <<e>>[j - (i - 1)]
    <2>. HIDE DEF l, r
    <2>1. /\ l \o <<e>> \in Seq(E) /\ Len(l \o <<e>>) = Len(l) + Len(<<e>>)
          /\ \A j \in 1 .. (Len(l) + Len(<<e>>)) :
                 (l \o <<e>>)[j] = IF j <= Len(l) THEN l[j] ELSE <<e>>[j - Len(l)]
      BY <1>1, <1>3, ConcatProperties
    <2> QED
      BY <1>0, <1>1, <1>3, <2>1
  <1>5. /\ m \o r \in Seq(E) /\ Len(m \o r) = Len(m) + Len(r)
        /\ \A j \in 1 .. (Len(m) + Len(r)) :
               (m \o r)[j] = IF j <= Len(m) THEN m[j] ELSE r[j - Len(m)]
    <2>. HIDE DEF m, r
    <2> QED
      BY <1>2, <1>4, ConcatProperties
  <1>6. InsertAt(s, i, e) = m \o r
    BY DEF InsertAt
  <1>. HIDE DEF l, r, m
  <1>7. \A j \in 1 .. i : m[j] = IF j < i THEN s[j] ELSE e
    BY <1>0, <1>1, <1>3, <1>4
  <1> QED
    BY <1>0, <1>2, <1>4, <1>5, <1>6, <1>7

-----------------------------------------------------------------------------
(* Sums.  The folds of module Folds recur over the subsets of a set, from   *)
(* which CHOOSE takes one element after the other.                          *)

\* The element that is added next.
Element(s) == CHOOSE x \in s : TRUE

\* g holds the sums of f over all subsets of S.
SumsUp(g, f, S) ==
    g = [s \in SUBSET S |-> IF s = {} THEN 0 ELSE f[Element(s)] + g[s \ {Element(s)}]]

\* There are such sums.
LEMMA SumsExist ==
    ASSUME NEW S, IsFiniteSet(S), NEW f
    PROVE  \E g : SumsUp(g, f, S)
  <1>. DEFINE Sum(g, s) == IF s = {} THEN 0 ELSE f[Element(s)] + g[s \ {Element(s)}]
              UpTo(g, k) == /\ g = [s \in SUBSET S |-> g[s]]
                            /\ \A s \in SUBSET S : Cardinality(s) <= k => g[s] = Sum(g, s)
              T == {k \in 0 .. Cardinality(S) : \E g : UpTo(g, k)}
  <1>0. /\ \A s \in SUBSET S : IsFiniteSet(s) /\ Cardinality(s) \in Nat
                               /\ Cardinality(s) <= Cardinality(S)
        /\ \A s \in SUBSET S : s # {} => /\ Element(s) \in s
                                         /\ s \ {Element(s)} \in SUBSET S
                                         /\ Cardinality(s \ {Element(s)}) = Cardinality(s) - 1
    <2>1. \A s \in SUBSET S : IsFiniteSet(s) /\ Cardinality(s) \in Nat
                               /\ Cardinality(s) <= Cardinality(S)
      BY FS_Subset, FS_CardinalityType
    <2>2. \A s : s # {} => Element(s) \in s
      BY DEF Element
    <2> QED
      BY <2>1, <2>2, FS_RemoveElement
  <1>1. 0 \in T
    <2>1. UpTo([s \in SUBSET S |-> 0], 0)
      <3>1. \A s \in SUBSET S : Cardinality(s) <= 0 => s = {}
        BY <1>0, FS_EmptySet
      <3> QED
        BY <3>1
    <2>2. 0 \in 0 .. Cardinality(S)
      BY <1>0
    <2>. HIDE DEF UpTo
    <2> QED
      BY <2>1, <2>2
  <1>2. ASSUME NEW k \in 0 .. Cardinality(S) - 1, k \in T
        PROVE  k + 1 \in T
    <2>1. PICK g : UpTo(g, k)
      BY <1>2
    <2>. DEFINE h == [s \in SUBSET S |-> IF Cardinality(s) <= k THEN g[s] ELSE Sum(g, s)]
    <2>2. \A s \in SUBSET S : Cardinality(s) <= k + 1 => h[s] = Sum(g, s)
      BY <2>1
    <2>3. \A s \in SUBSET S : s # {} /\ Cardinality(s) <= k + 1
                                => h[s \ {Element(s)}] = g[s \ {Element(s)}]
      BY <1>0
    <2>4. UpTo(h, k + 1)
      BY <2>2, <2>3
    <2>5. k + 1 \in 0 .. Cardinality(S)
      BY <1>0
    <2>. HIDE DEF UpTo, h
    <2> QED
      BY <2>4, <2>5
  <1>3. Cardinality(S) \in T
    <2>1. Cardinality(S) \in Nat
      BY <1>0
    <2>. HIDE DEF T
    <2>2. \A k \in 0 .. Cardinality(S) : k \in T
      BY <1>1, <1>2, <2>1, CountUp
    <2> QED
      BY <2>1, <2>2
  <1>4. PICK g : UpTo(g, Cardinality(S))
    BY <1>3
  <1>5. \A s \in SUBSET S : g[s] = Sum(g, s)
    BY <1>0, <1>4
  <1> QED
    BY <1>4, <1>5 DEF SumsUp

\* The sum does not depend on the order in which elements are taken.
LEMMA SumsRemove ==
    ASSUME NEW S, IsFiniteSet(S), NEW f, \A x \in S : f[x] \in Int,
           NEW g, SumsUp(g, f, S)
    PROVE  /\ g[{}] = 0
           /\ \A s \in SUBSET S : g[s] \in Int
           /\ \A s \in SUBSET S : \A x \in s : g[s] = f[x] + g[s \ {x}]
  <1>0. \A s \in SUBSET S : g[s] = IF s = {} THEN 0 ELSE f[Element(s)] + g[s \ {Element(s)}]
    BY DEF SumsUp
  <1>1. g[{}] = 0
    BY <1>0
  <1>2. \A s \in SUBSET S : s # {} => \E c \in s : g[s] = f[c] + g[s \ {c}]
    BY <1>0 DEF Element
  <1>3. \A s \in SUBSET S : g[s] \in Int
    <2>. DEFINE T == {s \in SUBSET S : g[s] \in Int}
    <2>1. ASSUME NEW s \in SUBSET S, \A x \in s : s \ {x} \in T
          PROVE  s \in T
      <3>1. CASE s = {}
        BY <1>1, <3>1
      <3>2. CASE s # {}
        <4>1. PICK c \in s : g[s] = f[c] + g[s \ {c}]
          BY <1>2, <3>2
        <4> QED
          BY <2>1, <4>1
      <3> QED
        BY <3>1, <3>2
    <2>2. \A s \in SUBSET S : s \in T
      <3>. HIDE DEF T
      <3> QED
        BY <2>1, SubsetsGrow
    <2> QED
      BY <2>2
  <1>. DEFINE Takes(s) == \A x \in s : g[s] = f[x] + g[s \ {x}]
              T == {s \in SUBSET S : Takes(s)}
  <1>4. ASSUME NEW s \in SUBSET S, \A x \in s : s \ {x} \in T
        PROVE  Takes(s)
    <2> SUFFICES ASSUME NEW x \in s PROVE g[s] = f[x] + g[s \ {x}]
      OBVIOUS
    <2>1. PICK c \in s : g[s] = f[c] + g[s \ {c}]
      BY <1>2
    <2>2. CASE x = c
      BY <2>1, <2>2
    <2>3. CASE x # c
      <3>. DEFINE r == g[(s \ {c}) \ {x}]
      <3>1. g[s \ {c}] = f[x] + r
        BY <1>4, <2>3
      <3>2. (s \ {c}) \ {x} = (s \ {x}) \ {c} /\ (s \ {c}) \ {x} \in SUBSET S
        OBVIOUS
      <3>3. g[s \ {x}] = f[c] + r
        <4>1. g[s \ {x}] = f[c] + g[(s \ {x}) \ {c}]
          BY <1>4, <2>3
        <4> QED
          BY <3>2, <4>1
      <3>4. r \in Int /\ f[x] \in Int /\ f[c] \in Int
        BY <1>3, <3>2
      <3>. HIDE DEF r
      <3> QED
        BY <2>1, <3>1, <3>3, <3>4
    <2> QED
      BY <2>2, <2>3
  <1>5. \A s \in SUBSET S : s \in T
    <2>1. \A s \in SUBSET S : (\A x \in s : s \ {x} \in T) => s \in T
      BY <1>4
    <2>. HIDE DEF T
    <2> QED
      BY <2>1, SubsetsGrow
  <1> QED
    BY <1>1, <1>3, <1>5

\* A sum to which one element at most contributes.
LEMMA SumsOne ==
    ASSUME NEW S, IsFiniteSet(S), NEW f, NEW h, \A x \in S : x # h => f[x] = 0,
           f[h] \in Int, NEW g, SumsUp(g, f, S)
    PROVE  g[S] = IF h \in S THEN f[h] ELSE 0
  <1>. DEFINE T == {s \in SUBSET S : g[s] = IF h \in s THEN f[h] ELSE 0}
  <1>0. \A s \in SUBSET S : g[s] = IF s = {} THEN 0 ELSE f[Element(s)] + g[s \ {Element(s)}]
    BY DEF SumsUp
  <1>1. ASSUME NEW s \in SUBSET S, \A x \in s : s \ {x} \in T
        PROVE  s \in T
    <2>1. CASE s = {}
      BY <1>0, <2>1
    <2>2. CASE s # {}
      <3>1. PICK c \in s : g[s] = f[c] + g[s \ {c}]
        BY <1>0, <2>2 DEF Element
      <3>2. s \ {c} \in T
        BY <1>1
      <3>3. CASE c = h
        BY <3>1, <3>2, <3>3
      <3>4. CASE c # h
        BY <3>1, <3>2, <3>4
      <3> QED
        BY <3>3, <3>4
    <2> QED
      BY <2>1, <2>2
  <1>2. S \in T
    <2>. HIDE DEF T
    <2>1. \A s \in SUBSET S : s \in T
      BY <1>1, SubsetsGrow
    <2> QED
      BY <2>1
  <1> QED
    BY <1>2

\* FoldFunctionOnSet with + is such a sum.
LEMMA FoldSumsOne ==
    ASSUME NEW S, IsFiniteSet(S), NEW f, NEW h, \A x \in S : x # h => f[x] = 0,
           f[h] \in Int
    PROVE  FoldFunctionOnSet(+, 0, f, S) = IF h \in S THEN f[h] ELSE 0
  <1>. DEFINE g == CHOOSE g : SumsUp(g, f, S)
  <1>1. SumsUp(g, f, S)
    BY SumsExist
  <1>2. FoldFunctionOnSet(+, 0, f, S) = g[S]
    BY DEF FoldFunctionOnSet, MapThenFoldSet, SumsUp, Element
  <1>. HIDE DEF g
  <1> QED
    BY <1>1, <1>2, SumsOne

-----------------------------------------------------------------------------
(* Sums over a list, from its first element to its last.                   *)

\* p[k] is the sum of the first k of the numbers f[1], ..., f[n].
PartialSums(p, f, n) ==
    /\ p \in [0 .. n -> Int] /\ p[0] = 0
    /\ \A k \in 0 .. (n - 1) : p[k + 1] = p[k] + f[k + 1]

\* What a fold adds up in any order is the last of the partial sums.
LEMMA SumsInOrder ==
    ASSUME NEW n \in Nat, NEW f, \A i \in 1 .. n : f[i] \in Int,
           NEW g, SumsUp(g, f, 1 .. n)
    PROVE  \E p : PartialSums(p, f, n) /\ p[n] = g[1 .. n]
  <1>. DEFINE p == [k \in 0 .. n |-> g[1 .. k]]
  <1>1. IsFiniteSet(1 .. n)
    BY FS_Interval
  <1>2. /\ g[{}] = 0
        /\ \A s \in SUBSET (1 .. n) : g[s] \in Int
        /\ \A s \in SUBSET (1 .. n) : \A x \in s : g[s] = f[x] + g[s \ {x}]
    <2>. DEFINE S == 1 .. n
    <2>1. IsFiniteSet(S)
      BY <1>1
    <2>2. \A x \in S : f[x] \in Int
      OBVIOUS
    <2>3. SumsUp(g, f, S)
      OBVIOUS
    <2>. HIDE DEF S
    <2>4. /\ g[{}] = 0
          /\ \A s \in SUBSET S : g[s] \in Int
          /\ \A s \in SUBSET S : \A x \in s : g[s] = f[x] + g[s \ {x}]
      BY <2>1, <2>2, <2>3, SumsRemove
    <2> QED
      BY <2>4 DEF S
  <1>3. \A k \in 0 .. n : 1 .. k \in SUBSET (1 .. n)
    OBVIOUS
  <1>4. p \in [0 .. n -> Int]
    BY <1>2, <1>3
  <1>5. p[0] = 0
    <2>1. 1 .. 0 = {} /\ 0 \in 0 .. n
      OBVIOUS
    <2> QED
      BY <1>2, <2>1
  <1>6. ASSUME NEW k \in 0 .. (n - 1)
        PROVE  p[k + 1] = p[k] + f[k + 1]
    <2>1. /\ k + 1 \in 1 .. (k + 1) /\ (1 .. (k + 1)) \ {k + 1} = 1 .. k
          /\ k \in 0 .. n /\ k + 1 \in 0 .. n /\ k + 1 \in 1 .. n
      OBVIOUS
    <2>2. g[1 .. (k + 1)] = f[k + 1] + g[1 .. k]
      <3>1. PICK s \in SUBSET (1 .. n) : s = 1 .. (k + 1)
        BY <1>3, <2>1
      <3>2. g[s] = f[k + 1] + g[s \ {k + 1}]
        BY <1>2, <2>1, <3>1
      <3> QED
        BY <2>1, <3>1, <3>2
    <2>3. f[k + 1] \in Int /\ g[1 .. k] \in Int
      BY <1>2, <1>3, <2>1
    <2> QED
      BY <2>1, <2>2, <2>3
  <1>7. p[n] = g[1 .. n]
    OBVIOUS
  <1>. HIDE DEF p
  <1> QED
    BY <1>4, <1>5, <1>6, <1>7 DEF PartialSums

\* There are partial sums.
LEMMA PartialSumsExist ==
    ASSUME NEW n \in Nat, NEW f, \A i \in 1 .. n : f[i] \in Int
    PROVE  \E p : PartialSums(p, f, n)
  <1>. DEFINE S == 1 .. n
  <1>1. IsFiniteSet(S)
    BY FS_Interval
  <1>. HIDE DEF S
  <1>2. PICK g : SumsUp(g, f, S)
    BY <1>1, SumsExist
  <1>3. SumsUp(g, f, 1 .. n)
    BY <1>2 DEF S
  <1> QED
    BY <1>3, SumsInOrder

\* h is f with e put in at i; h is f changed at i.
PutIn(h, f, n, i, e) ==
    /\ i \in 1 .. (n + 1) /\ e \in Int /\ \A j \in 1 .. n : f[j] \in Int
    /\ \A j \in 1 .. (n + 1) : h[j] = IF j < i THEN f[j] ELSE IF j = i THEN e ELSE f[j - 1]
ChangedAt(h, f, n, i) ==
    /\ i \in 1 .. n /\ \A j \in 1 .. n : f[j] \in Int /\ h[j] \in Int
    /\ \A j \in 1 .. n : j # i => h[j] = f[j]

\* A number that is put in adds itself to the sum.
LEMMA PutInSum ==
    ASSUME NEW n \in Nat, NEW m, m = n + 1, NEW f, NEW h, NEW i, NEW e, PutIn(h, f, n, i, e),
           NEW p, PartialSums(p, f, n), NEW q, PartialSums(q, h, m)
    PROVE  q[m] = p[n] + e
  <1>0. /\ i \in 1 .. (n + 1) /\ e \in Int /\ (\A j \in 1 .. n : f[j] \in Int)
        /\ (\A j \in 1 .. (n + 1) :
               h[j] = IF j < i THEN f[j] ELSE IF j = i THEN e ELSE f[j - 1])
        /\ PartialSums(p, f, n) /\ PartialSums(q, h, n + 1)
    BY DEF PutIn
  <1>. USE <1>0
  <1>. DEFINE T == {k \in 0 .. (n + 1) : q[k] = IF k < i THEN p[k] ELSE p[k - 1] + e}
  <1>1. 0 \in T
    BY DEF PartialSums
  <1>2. ASSUME NEW k \in 0 .. ((n + 1) - 1), k \in T
        PROVE  k + 1 \in T
    <2>1. /\ q[k + 1] = q[k] + h[k + 1] /\ q[k] \in Int
          /\ q[k] = IF k < i THEN p[k] ELSE p[k - 1] + e
          /\ k \in 0 .. n /\ k + 1 \in 1 .. (n + 1) /\ k + 1 \in 0 .. (n + 1)
      <3>1. /\ k \in 0 .. n /\ k \in 0 .. (n + 1) /\ k + 1 \in 1 .. (n + 1)
            /\ k + 1 \in 0 .. (n + 1)
        OBVIOUS
      <3>2. q[k + 1] = q[k] + h[k + 1] /\ q[k] \in Int
        BY <3>1 DEF PartialSums
      <3> QED
        BY <1>2, <3>1, <3>2
    <2>2. CASE k + 1 < i
      <3>1. h[k + 1] = f[k + 1] /\ k \in 0 .. (n - 1)
        BY <2>1, <2>2
      <3>2. p[k + 1] = p[k] + f[k + 1]
        BY <3>1 DEF PartialSums
      <3> QED
        BY <2>1, <2>2, <3>1, <3>2
    <2>3. CASE k + 1 = i
      BY <2>1, <2>3
    <2>4. CASE k + 1 > i
      <3>1. h[k + 1] = f[k] /\ k - 1 \in 0 .. (n - 1) /\ k \in 1 .. n
        BY <2>1, <2>4
      <3>2. p[(k - 1) + 1] = p[k - 1] + f[(k - 1) + 1] /\ p[k - 1] \in Int
        BY <3>1 DEF PartialSums
      <3>3. (k - 1) + 1 = k /\ (k + 1) - 1 = k
        BY <3>1
      <3>4. p[k] = p[k - 1] + f[k]
        BY <3>2, <3>3
      <3>5. f[k] \in Int
        BY <3>1
      <3> QED
        BY <2>1, <2>4, <3>1, <3>2, <3>3, <3>4, <3>5
    <2> QED
      BY <2>2, <2>3, <2>4
  <1>3. n + 1 \in Nat
    OBVIOUS
  <1>. HIDE DEF T
  <1>4. \A k \in 0 .. (n + 1) : k \in T
    BY <1>1, <1>2, <1>3, CountUp
  <1>5. n + 1 \in T
    BY <1>4
  <1> QED
    BY <1>5 DEF T

\* A number that is changed changes the sum by as much.
LEMMA ChangedInSum ==
    ASSUME NEW n \in Nat, NEW f, NEW h, NEW i, ChangedAt(h, f, n, i),
           NEW p, PartialSums(p, f, n), NEW q, PartialSums(q, h, n)
    PROVE  q[n] = p[n] - f[i] + h[i]
  <1>0. /\ i \in 1 .. n /\ (\A j \in 1 .. n : f[j] \in Int /\ h[j] \in Int)
        /\ (\A j \in 1 .. n : j # i => h[j] = f[j])
    BY DEF ChangedAt
  <1>. USE <1>0
  <1>. DEFINE T == {k \in 0 .. n : q[k] = IF k < i THEN p[k] ELSE p[k] - f[i] + h[i]}
  <1>1. 0 \in T
    BY DEF PartialSums
  <1>2. ASSUME NEW k \in 0 .. (n - 1), k \in T
        PROVE  k + 1 \in T
    <2>1. /\ q[k + 1] = q[k] + h[k + 1] /\ q[k] \in Int
          /\ p[k + 1] = p[k] + f[k + 1] /\ p[k] \in Int
          /\ q[k] = IF k < i THEN p[k] ELSE p[k] - f[i] + h[i]
          /\ k + 1 \in 1 .. n /\ k + 1 \in 0 .. n
      <3>1. k \in 0 .. n /\ k + 1 \in 1 .. n /\ k + 1 \in 0 .. n
        OBVIOUS
      <3>2. q[k + 1] = q[k] + h[k + 1] /\ q[k] \in Int
        BY <3>1 DEF PartialSums
      <3>3. p[k + 1] = p[k] + f[k + 1] /\ p[k] \in Int
        BY <3>1 DEF PartialSums
      <3> QED
        BY <1>2, <3>1, <3>2, <3>3
    <2>2. f[i] \in Int /\ h[i] \in Int /\ f[k + 1] \in Int /\ h[k + 1] \in Int
      BY <2>1
    <2>3. k + 1 # i => h[k + 1] = f[k + 1]
      BY <2>1
    <2>4. CASE k + 1 = i
      BY <2>1, <2>2, <2>4
    <2>5. CASE k + 1 # i
      BY <2>1, <2>2, <2>3, <2>5
    <2> QED
      BY <2>4, <2>5
  <1>. HIDE DEF T
  <1>3. \A k \in 0 .. n : k \in T
    BY <1>1, <1>2, CountUp
  <1>4. n \in T
    BY <1>3
  <1> QED
    BY <1>4 DEF T

-----------------------------------------------------------------------------
(* Division with remainder                                                 *)

\* The only multiple of L between -L and L is 0.
LEMMA Multiples ==
    ASSUME NEW L \in Nat \ {0}, NEW d \in Int, d * L < L, d * L > -L
    PROVE  d = 0
  <1>1. CASE d >= 1
    <2>1. PICK e \in Nat : d = e + 1
      <3>1. d - 1 \in Nat /\ d = (d - 1) + 1
        BY <1>1
      <3> QED
        BY <3>1
    <2>2. e * L \in Nat /\ d * L = e * L + L
      BY <2>1
    <2> QED
      BY <2>2
  <1>2. CASE d <= -1
    <2>1. PICK e \in Nat : d = -(e + 1)
      <3>1. -d - 1 \in Nat /\ d = -((-d - 1) + 1)
        BY <1>2
      <3> QED
        BY <3>1
    <2>2. e * L \in Nat /\ d * L = -(e * L + L)
      BY <2>1
    <2> QED
      BY <2>2
  <1> QED
    BY <1>1, <1>2

\* A number is a multiple of L and a remainder in only one way.
LEMMA ModUnique ==
    ASSUME NEW L \in Nat \ {0}, NEW k \in Int, NEW r \in 0 .. (L - 1)
    PROVE  (k * L + r) % L = r
  <1>. DEFINE a == k * L + r
              q == a \div L
  <1>1. a \in Int /\ q \in Int /\ a % L \in 0 .. (L - 1) /\ a = q * L + (a % L)
    OBVIOUS
  <1>2. (q - k) * L = q * L - k * L
    BY <1>1
  <1>3. (q - k) * L = r - (a % L)
    BY <1>1, <1>2
  <1>4. q - k \in Int /\ (q - k) * L < L /\ (q - k) * L > -L
    BY <1>1, <1>3
  <1>. HIDE DEF q, a
  <1>5. q - k = 0
    BY <1>4, Multiples
  <1> QED
    BY <1>1, <1>5 DEF a

\* Remainders may be taken before an addition.
LEMMA ModAdd ==
    ASSUME NEW L \in Nat \ {0}, NEW a \in Int, NEW b \in Int
    PROVE  ((a % L) + b) % L = (a + b) % L
  <1>. DEFINE q == a \div L
              m == (a % L) + b
              p == m \div L
  <1>1. a = q * L + (a % L) /\ q \in Int /\ a % L \in 0 .. (L - 1)
    OBVIOUS
  <1>2. m = p * L + (m % L) /\ p \in Int /\ m % L \in 0 .. (L - 1) /\ m \in Int
    BY <1>1
  <1>3. (q + p) * L = q * L + p * L
    BY <1>1, <1>2
  <1>4. a + b = (q + p) * L + (m % L)
    BY <1>1, <1>2, <1>3
  <1>. HIDE DEF q, p, m
  <1>5. ((q + p) * L + (m % L)) % L = m % L
    <2>1. PICK k \in Int : k = q + p
      BY <1>1, <1>2
    <2>2. PICK r \in 0 .. (L - 1) : r = m % L
      BY <1>2
    <2>3. (k * L + r) % L = r
      BY ModUnique
    <2> QED
      BY <2>1, <2>2, <2>3
  <1>6. (a + b) % L = m % L
    BY <1>4, <1>5
  <1> QED
    BY <1>6 DEF m

\* Remainders of numbers that are less than L away.
LEMMA ModSmall ==
    ASSUME NEW L \in Nat \ {0}
    PROVE  /\ \A x \in Int : x % L \in 0 .. (L - 1)
           /\ \A x \in 0 .. (L - 1) : x % L = x
           /\ L % L = 0
           /\ \A x \in (-(L - 1)) .. (-1) : x % L = x + L
  OBVIOUS

=============================================================================
