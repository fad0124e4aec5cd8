----------------------------- MODULE SequenceFacts ----------------------------
(***************************************************************************)
(* What the proofs of several components need to know about sequences.     *)
(* The first match: SelectInSeq, by which find, find_map and position of   *)
(* the code are modelled, is the smallest of the matching positions, or 0  *)
(* if there is none.  Induction: the set of all numbers, or sequences,     *)
(* that have a property.  Concatenation of many sequences: FlattenSeq, by  *)
(* which a loop that pushes to a string is modelled.                       *)
(***************************************************************************)
EXTENDS Integers, FiniteSetsExt, SequencesExt, SequenceTheorems, WellFoundedInduction, TLAPS

(***************************************************************************)
(* A non-empty set of naturals has a smallest member, which is its Min.    *)
(***************************************************************************)
LEMMA MinOfNaturals ==
  ASSUME NEW S \in SUBSET Nat, S # {}
  PROVE  Min(S) \in S /\ \A y \in S : Min(S) <= y
<1>1. PICK x \in S : \A y \in S : ~(<<y, x>> \in OpToRel(<, Nat))
  BY NatLessThanWellFounded, WFMin
<1>2. ASSUME NEW y \in S, y < x
      PROVE  FALSE
  <2>1. <<y, x>> \in OpToRel(<, Nat)
    BY <1>2 DEF OpToRel
  <2> QED
    BY <1>1, <2>1
<1>3. \A y \in S : x <= y
  BY <1>2
<1> QED
  BY <1>3 DEF Min

(***************************************************************************)
(* The first of the positions I of a sequence of length n: a position of   *)
(* I, with none before it, or 0 if I is empty.                             *)
(***************************************************************************)
LEMMA FirstPosition ==
  ASSUME NEW n \in Nat, NEW I \in SUBSET (1..n), NEW i, i = IF I # {} THEN Min(I) ELSE 0
  PROVE  /\ i = 0 <=> I = {}
         /\ I # {} => i \in I
         /\ \A j \in I : i <= j
<1>1. I \in SUBSET Nat
  OBVIOUS
<1>2. CASE I = {}
  BY <1>2
<1>3. CASE I # {}
  <2>1. Min(I) \in I /\ \A y \in I : Min(I) <= y
    BY <1>1, <1>3, MinOfNaturals
  <2>2. i = Min(I)
    BY <1>3
  <2>3. i \in I /\ \A y \in I : i <= y
    BY <2>1, <2>2
  <2>4. i # 0
    BY <2>3
  <2> QED
    BY <1>3, <2>3, <2>4
<1> QED
  BY <1>2, <1>3

-----------------------------------------------------------------------------
(***************************************************************************)
(* Induction over the naturals, by the least number outside of a set.      *)
(***************************************************************************)
LEMMA InductionOverNat ==
  ASSUME NEW T, 0 \in T, \A n \in Nat : n \in T => n + 1 \in T
  PROVE  \A n \in Nat : n \in T
<1> SUFFICES ASSUME Nat \ T # {}
             PROVE  FALSE
  OBVIOUS
<1> DEFINE R == Nat \ T
           m == Min(R)
<1>1. m \in R /\ \A y \in R : m <= y
  BY MinOfNaturals
<1> HIDE DEF m
<1>2. m \in Nat /\ m # 0 /\ m - 1 \in Nat
  BY <1>1
<1>3. m - 1 \in T
  BY <1>1, <1>2
<1> QED
  BY <1>1, <1>2, <1>3

(***************************************************************************)
(* Induction over sequences, one element at a time.                        *)
(***************************************************************************)
LEMMA InductionOverSeq ==
  ASSUME NEW S, NEW T, << >> \in T,
         \A s \in Seq(S), e \in S : s \in T => Append(s, e) \in T
  PROVE  \A s \in Seq(S) : s \in T
<1> DEFINE U == {n \in Nat : \A s \in Seq(S) : Len(s) = n => s \in T}
<1>1. 0 \in U
  <2>1. \A s \in Seq(S) : Len(s) = 0 => s = << >>
    BY EmptySeq
  <2> QED
    BY <2>1
<1>2. ASSUME NEW n \in Nat, n \in U
      PROVE  n + 1 \in U
  <2> SUFFICES ASSUME NEW s \in Seq(S), Len(s) = n + 1
               PROVE  s \in T
    OBVIOUS
  <2>1. PICK r \in Seq(S), e \in S : s = Append(r, e)
    <3>1. s # << >>
      BY EmptySeq
    <3> QED
      BY <3>1, SequenceEmptyOrAppend
  <2>2. Len(r) = n
    BY <2>1, AppendProperties, LenProperties
  <2> QED
    BY <1>2, <2>1, <2>2
<1>3. \A n \in Nat : n \in U
  <2> HIDE DEF U
  <2> QED
    BY <1>1, <1>2, InductionOverNat
<1> QED
  BY <1>3, LenProperties

-----------------------------------------------------------------------------
(***************************************************************************)
(* The elements of a concatenation, by their place in either part.         *)
(***************************************************************************)
LEMMA ConcatAt ==
  ASSUME NEW S, NEW A \in Seq(S), NEW B \in Seq(S)
  PROVE  /\ A \o B \in Seq(S) /\ Len(A) \in Nat /\ Len(B) \in Nat
         /\ Len(A \o B) = Len(A) + Len(B)
         /\ \A i \in 1..Len(A) : (A \o B)[i] = A[i]
         /\ \A i \in 1..Len(B) : (A \o B)[Len(A) + i] = B[i]
<1> DEFINE C == A \o B
           m == Len(A)
           n == Len(B)
<1>1. m \in Nat /\ n \in Nat
  BY LenProperties
<1>2. /\ C \in Seq(S) /\ Len(C) = m + n
      /\ \A i \in 1..(m + n) : C[i] = IF i <= m THEN A[i] ELSE B[i - m]
  BY ConcatProperties
<1> HIDE DEF C, m, n
<1>3. \A i \in 1..m : C[i] = A[i]
  BY <1>1, <1>2
<1>4. ASSUME NEW i \in 1..n
      PROVE  C[m + i] = B[i]
  <2> DEFINE k == m + i
  <2>1. k \in 1..(m + n) /\ ~(k <= m) /\ k - m = i
    BY <1>1
  <2> HIDE DEF k
  <2>2. C[k] = B[i]
    BY <1>2, <2>1
  <2> QED
    BY <2>2 DEF k
<1> QED
  BY <1>1, <1>2, <1>3, <1>4 DEF C, m, n

-----------------------------------------------------------------------------
(***************************************************************************)
(* f joins the sequences of ss one after the other.                        *)
(***************************************************************************)
Joins(f, ss, n) == f = [i \in 1..n |-> IF i = 1 THEN ss[i] ELSE f[i - 1] \o ss[i]]

(***************************************************************************)
(* Such a function exists: the recursion of FlattenSeq is well founded.    *)
(***************************************************************************)
LEMMA JoinsExists ==
  ASSUME NEW ss
  PROVE  \A n \in Nat : \E f : Joins(f, ss, n)
<1> DEFINE T == {n \in Nat : \E f : Joins(f, ss, n)}
<1>1. 0 \in T
  <2>1. Joins(<< >>, ss, 0)
    BY DEF Joins
  <2> QED
    BY <2>1
<1>2. ASSUME NEW n \in Nat, n \in T
      PROVE  n + 1 \in T
  <2>1. PICK f : Joins(f, ss, n)
    BY <1>2
  <2> DEFINE last == IF n = 0 THEN ss[1] ELSE f[n] \o ss[n + 1]
             g == [i \in 1..(n + 1) |-> IF i = n + 1 THEN last ELSE f[i]]
  <2>2. ASSUME NEW i \in 1..(n + 1)
        PROVE  g[i] = IF i = 1 THEN ss[i] ELSE g[i - 1] \o ss[i]
    <3>1. CASE i = n + 1
      BY <3>1
    <3>2. CASE i # n + 1
      <4>1. i \in 1..n /\ g[i] = f[i] /\ (i # 1 => g[i - 1] = f[i - 1])
        BY <3>2
      <4>2. f[i] = IF i = 1 THEN ss[i] ELSE f[i - 1] \o ss[i]
        BY <2>1, <4>1 DEF Joins
      <4> QED
        BY <4>1, <4>2
    <3> QED
      BY <3>1, <3>2
  <2>3. g = [i \in 1..(n + 1) |-> g[i]]
    OBVIOUS
  <2> HIDE DEF g
  <2>4. Joins(g, ss, n + 1)
    BY <2>2, <2>3 DEF Joins
  <2> QED
    BY <2>4
<1>3. \A n \in Nat : n \in T
  <2> HIDE DEF T
  <2> QED
    BY <1>1, <1>2, InductionOverNat
<1> QED
  BY <1>3

(***************************************************************************)
(* Its values.                                                             *)
(***************************************************************************)
LEMMA JoinsAt ==
  ASSUME NEW ss, NEW f, NEW n \in Nat, Joins(f, ss, n)
  PROVE  /\ 1 \in 1..n => f[1] = ss[1]
         /\ \A i \in Nat \ {0} : i + 1 \in 1..n => f[i + 1] = f[i] \o ss[i + 1]
<1>1. ASSUME NEW k \in 1..n
      PROVE  f[k] = IF k = 1 THEN ss[k] ELSE f[k - 1] \o ss[k]
  BY DEF Joins
<1>2. ASSUME NEW i \in Nat \ {0}, i + 1 \in 1..n
      PROVE  f[i + 1] = f[i] \o ss[i + 1]
  <2> DEFINE k == i + 1
  <2>1. k \in 1..n /\ k # 1 /\ k - 1 = i
    BY <1>2
  <2> HIDE DEF k
  <2>2. f[k] = f[i] \o ss[k]
    BY <1>1, <2>1
  <2> QED
    BY <2>2 DEF k
<1> QED
  BY <1>1, <1>2

(***************************************************************************)
(* What two such functions have in common as far as their sequences agree. *)
(***************************************************************************)
LEMMA JoinsAgree ==
  ASSUME NEW S, NEW ss, NEW tt, NEW f, NEW g, NEW m \in Nat, NEW n \in Nat, n <= m,
         Joins(f, ss, n), Joins(g, tt, m),
         \A i \in 1..n : ss[i] = tt[i] /\ ss[i] \in Seq(S)
  PROVE  \A i \in 1..n : f[i] = g[i] /\ f[i] \in Seq(S)
<1> DEFINE T == {i \in Nat : i \in 1..n => f[i] = g[i] /\ f[i] \in Seq(S)}
<1>f. /\ 1 \in 1..n => f[1] = ss[1]
      /\ \A i \in Nat \ {0} : i + 1 \in 1..n => f[i + 1] = f[i] \o ss[i + 1]
  BY JoinsAt
<1>g. /\ 1 \in 1..m => g[1] = tt[1]
      /\ \A i \in Nat \ {0} : i + 1 \in 1..m => g[i + 1] = g[i] \o tt[i + 1]
  BY JoinsAt
<1>1. 0 \in T
  OBVIOUS
<1>2. ASSUME NEW i \in Nat, i \in T
      PROVE  i + 1 \in T
  <2> SUFFICES ASSUME i + 1 \in 1..n
               PROVE  f[i + 1] = g[i + 1] /\ f[i + 1] \in Seq(S)
    OBVIOUS
  <2>1. CASE i = 0
    <3>1. 1 \in 1..n /\ 1 \in 1..m
      BY <2>1
    <3> QED
      BY <2>1, <3>1, <1>f, <1>g
  <2>2. CASE i # 0
    <3>1. i \in 1..n /\ i \in Nat \ {0} /\ i + 1 \in 1..m
      BY <2>2
    <3>2. f[i] = g[i] /\ f[i] \in Seq(S)
      BY <1>2, <3>1
    <3>3. f[i + 1] = f[i] \o ss[i + 1] /\ g[i + 1] = g[i] \o tt[i + 1]
      BY <3>1, <1>f, <1>g
    <3>4. f[i + 1] = g[i + 1]
      BY <3>2, <3>3
    <3> QED
      BY <3>2, <3>3, <3>4, ConcatProperties
  <2> QED
    BY <2>1, <2>2
<1>3. \A i \in Nat : i \in T
  <2> HIDE DEF T
  <2> QED
    BY <1>1, <1>2, InductionOverNat
<1> QED
  BY <1>3

(***************************************************************************)
(* FlattenSeq is the last value of that function.                          *)
(***************************************************************************)
LEMMA FlattenIsJoin ==
  ASSUME NEW ss, Len(ss) \in Nat \ {0}
  PROVE  \E f : Joins(f, ss, Len(ss)) /\ FlattenSeq(ss) = f[Len(ss)]
<1> DEFINE f == CHOOSE f : f = [i \in 1..Len(ss) |-> IF i = 1 THEN ss[i] ELSE f[i - 1] \o ss[i]]
<1>1. FlattenSeq(ss) = f[Len(ss)]
  BY DEF FlattenSeq
<1>2. \E g : Joins(g, ss, Len(ss))
  BY JoinsExists
<1>3. Joins(f, ss, Len(ss))
  BY <1>2 DEF Joins
<1> QED
  BY <1>1, <1>3

(***************************************************************************)
(* FlattenSeq, element by element.                                         *)
(***************************************************************************)
LEMMA FlattenEmpty == FlattenSeq(<< >>) = << >>
  BY DEF FlattenSeq

(***************************************************************************)
(* What is appended is joined at the end.                                  *)
(***************************************************************************)
LEMMA FlattenAppend ==
  ASSUME NEW S, NEW ss \in Seq(Seq(S)), NEW s \in Seq(S)
  PROVE  /\ FlattenSeq(ss) \in Seq(S)
         /\ FlattenSeq(Append(ss, s)) = FlattenSeq(ss) \o s
<1> DEFINE tt == Append(ss, s)
           n == Len(ss)
<1>1. /\ n \in Nat /\ Len(tt) = n + 1 /\ tt[n + 1] = s
      /\ \A i \in 1..n : ss[i] = tt[i] /\ ss[i] \in Seq(S)
  BY AppendProperties, LenProperties, ElementOfSeq
<1> HIDE DEF tt, n
<1>2. PICK g : Joins(g, tt, n + 1) /\ FlattenSeq(tt) = g[n + 1]
  BY <1>1, FlattenIsJoin
<1>3. /\ n = 0 => g[n + 1] = s
      /\ n # 0 => g[n + 1] = g[n] \o s
  <2>1. n + 1 \in Nat
    BY <1>1
  <2>2. /\ 1 \in 1..(n + 1) => g[1] = tt[1]
        /\ \A i \in Nat \ {0} : i + 1 \in 1..(n + 1) => g[i + 1] = g[i] \o tt[i + 1]
    BY <1>2, <2>1, JoinsAt
  <2>3. CASE n = 0
    BY <1>1, <2>2, <2>3
  <2>4. CASE n # 0
    <3>1. n \in Nat \ {0} /\ n + 1 \in 1..(n + 1)
      BY <1>1, <2>4
    <3> QED
      BY <1>1, <2>2, <2>4, <3>1
  <2> QED
    BY <2>3, <2>4
<1>4. CASE n = 0
  <2>1. ss = << >>
    BY <1>4, EmptySeq DEF n
  <2>2. FlattenSeq(ss) = << >> /\ << >> \in Seq(S) /\ << >> \o s = s
    BY <2>1, FlattenEmpty, ConcatEmptySeq
  <2> QED
    BY <1>2, <1>3, <1>4, <2>2 DEF tt
<1>5. CASE n # 0
  <2>1. PICK f : Joins(f, ss, n) /\ FlattenSeq(ss) = f[n]
    BY <1>1, <1>5, FlattenIsJoin DEF n
  <2>2. \A i \in 1..n : f[i] = g[i] /\ f[i] \in Seq(S)
    <3> DEFINE m == n + 1
    <3>1. n \in Nat /\ m \in Nat /\ n <= m
      BY <1>1
    <3>2. \A i \in 1..n : ss[i] = tt[i] /\ ss[i] \in Seq(S)
      BY <1>1
    <3>3. Joins(f, ss, n) /\ Joins(g, tt, m)
      BY <1>2, <2>1
    <3> HIDE DEF m
    <3> QED
      BY <3>1, <3>2, <3>3, JoinsAgree
  <2>3. n \in 1..n
    BY <1>1, <1>5
  <2> QED
    BY <1>2, <1>3, <1>5, <2>1, <2>2, <2>3 DEF tt
<1> QED
  BY <1>4, <1>5
=============================================================================
