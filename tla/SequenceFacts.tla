---------------------------- MODULE SequenceFacts ----------------------------
(***************************************************************************)
(* Facts about numbers and sequences that the proofs of several components  *)
(* need: induction with a set for the property, how concatenations regroup, *)
(* prefixes, and what FlattenSeq of the community modules computes.         *)
(***************************************************************************)
EXTENDS Integers, SequencesExt, SequenceTheorems, FiniteSetTheorems, TLAPS

(* Every non-empty set of natural numbers has a least element.              *)
LEMMA LeastNat ==
    ASSUME NEW T \in SUBSET Nat, T # {}
    PROVE  \E n \in T : \A m \in T : n <= m
<1> DEFINE U == {0..n : n \in T}
<1>1. U \subseteq FiniteSubsetsOf(Nat) /\ U # {}
  <2>1. ASSUME NEW n \in T PROVE 0..n \in FiniteSubsetsOf(Nat)
    <3>1. IsFiniteSet(0..n) /\ 0..n \in SUBSET Nat
      BY FS_Interval
    <3> QED
      BY <3>1 DEF FiniteSubsetsOf
  <2> QED
    BY <2>1
<1>2. PICK x \in U : \A y \in U : ~(<<y, x>> \in StrictSubsetOrdering(Nat))
  BY <1>1, FS_StrictSubsetOrderingWellFounded, WFMin
<1>3. PICK n \in T : x = 0..n
  OBVIOUS
<1>4. ASSUME NEW m \in T, m < n PROVE FALSE
  <2>1. 0..m \in U /\ 0..m \subseteq 0..n /\ n \in 0..n /\ n \notin 0..m
    BY <1>4
  <2>2. <<0..m, 0..n>> \in StrictSubsetOrdering(Nat)
    BY <2>1 DEF StrictSubsetOrdering
  <2> QED
    BY <2>1, <2>2, <1>2, <1>3
<1> QED
  BY <1>4

(* Induction, with a set of numbers for the property.                       *)
LEMMA SetInduction ==
    ASSUME NEW P \in SUBSET Nat, 0 \in P, \A n \in P : n + 1 \in P
    PROVE  \A n \in Nat : n \in P
<1> SUFFICES ASSUME Nat \ P # {} PROVE FALSE
  OBVIOUS
<1>1. PICK n \in Nat \ P : \A m \in Nat \ P : n <= m
  BY LeastNat
<1>2. n # 0 /\ n - 1 \in Nat /\ n - 1 \in P
  BY <1>1
<1> QED
  BY <1>2, <1>1

------------------------------------------------------------------------------
(* Concatenation                                                            *)

(* Concatenation is associative,                                            *)
Assoc(a, b, c) == (a \o b) \o c = a \o (b \o c)

LEMMA Associates ==
    ASSUME NEW B, NEW a \in Seq(B), NEW b \in Seq(B), NEW c \in Seq(B)
    PROVE  Assoc(a, b, c)
BY ConcatAssociative DEF Assoc

(* and what is concatenated is the same however it is grouped.              *)
Regrouped(a, b, c, d) ==
    /\ a \o (b \o c) = a \o b \o c
    /\ a \o (b \o c) \o d = a \o b \o (c \o d)
    /\ a \o (b \o c \o d) \o <<>> \o <<>> = a \o b \o c \o d
    /\ a \o (b \o c) \o <<>> \o d = a \o b \o c \o d

LEMMA Regroup ==
    ASSUME NEW B, NEW a \in Seq(B), NEW b \in Seq(B), NEW c \in Seq(B), NEW d \in Seq(B)
    PROVE  Regrouped(a, b, c, d)
<1>1. a \o b \in Seq(B) /\ b \o c \in Seq(B) /\ c \o d \in Seq(B)
  BY ConcatProperties
<1>2. Assoc(a \o b, c, d) /\ Assoc(a, b, c) /\ Assoc(a, b \o c, d)
  BY <1>1, Associates
<1>3. /\ ((a \o b) \o c) \o d = (a \o b) \o (c \o d)
      /\ (a \o b) \o c = a \o (b \o c)
      /\ (a \o (b \o c)) \o d = a \o ((b \o c) \o d)
  BY <1>2, Zenon DEF Assoc
<1>5. (a \o (b \o c)) \o <<>> = a \o (b \o c)
  <2>1. a \o (b \o c) \in Seq(B)
    BY <1>1, ConcatProperties
  <2> QED
    BY <2>1, ConcatEmptySeq
<1>6. (a \o (b \o c \o d)) \o <<>> = a \o (b \o c \o d)
  <2>1. a \o (b \o c \o d) \in Seq(B)
    BY <1>1, ConcatProperties
  <2> QED
    BY <2>1, ConcatEmptySeq
<1> QED
  BY <1>3, <1>5, <1>6, Zenon DEF Regrouped

(* Bytes move from the head of a queue behind what is written already.      *)
Shifted(a, s, f, r, z) == a \o s \o (f \o r \o z) = a \o (s \o f) \o (r \o z)

LEMMA Shifts ==
    ASSUME NEW B, NEW a \in Seq(B), NEW s \in Seq(B), NEW f \in Seq(B), NEW r \in Seq(B),
           NEW z \in Seq(B)
    PROVE  Shifted(a, s, f, r, z)
<1> DEFINE x == r \o z
           y == a \o s
<1>1. x \in Seq(B) /\ y \in Seq(B)
  BY ConcatProperties
<1>2. Regrouped(f, r, z, z) /\ Regrouped(a, s, f, f)
  BY Regroup
<1> HIDE DEF x, y
<1>3. Regrouped(y, f, x, x)
  BY <1>1, Regroup
<1> USE DEF x, y
<1>4. y \o ((f \o r) \o z) = (a \o (s \o f)) \o x
  BY <1>2, <1>3, Zenon DEF Regrouped
<1> QED
  BY <1>4, Zenon DEF Shifted

------------------------------------------------------------------------------
(* Prefixes                                                                 *)

(* IsPrefix, element by element.                                            *)
LEMMA PrefixIs ==
    ASSUME NEW B, NEW s \in Seq(B), NEW t \in Seq(B)
    PROVE  IsPrefix(s, t) <=> Len(s) <= Len(t) /\ \A i \in 1..Len(s) : s[i] = t[i]
<1>1. ASSUME Len(s) <= Len(t)
      PROVE  /\ SubSeq(s, 1, Len(s)) = s /\ SubSeq(t, 1, Len(s)) \in Seq(B)
             /\ Len(SubSeq(t, 1, Len(s))) = Len(s)
             /\ \A i \in 1..Len(s) : SubSeq(t, 1, Len(s))[i] = t[i]
  <2>1. Len(s) \in 0..Len(t) /\ \A i \in 1..Len(s) : t[i] \in B
    BY <1>1, ElementOfSeq
  <2>2. /\ SubSeq(t, 1, Len(s)) \in Seq(B) /\ Len(SubSeq(t, 1, Len(s))) = Len(s)
        /\ \A i \in 1..Len(s) : SubSeq(t, 1, Len(s))[i] = t[i]
    BY <2>1, SubSeqProperties
  <2> QED
    BY <2>2, SubSeqFull
<1>2. ASSUME Len(s) <= Len(t), \A i \in 1..Len(s) : s[i] = t[i] PROVE s = SubSeq(t, 1, Len(s))
  BY <1>1, <1>2, SeqEqual
<1> QED
  BY <1>1, <1>2 DEF IsPrefix

(* A sequence is a prefix of what it is continued to; prefixes of longer    *)
(* sequences; shorter prefixes.                                             *)
LEMMA PrefixFacts ==
    ASSUME NEW B, NEW s \in Seq(B), NEW t \in Seq(B), NEW u \in Seq(B)
    PROVE  /\ IsPrefix(s, s \o t)
           /\ IsPrefix(s, t) => IsPrefix(s, t \o u)
           /\ IsPrefix(s \o u, t) => IsPrefix(s, t)
<1>1. /\ s \o t \in Seq(B) /\ Len(s \o t) = Len(s) + Len(t)
      /\ \A i \in 1..Len(s) : (s \o t)[i] = s[i]
  BY ConcatProperties
<1>2. /\ t \o u \in Seq(B) /\ Len(t \o u) = Len(t) + Len(u)
      /\ \A i \in 1..Len(t) : (t \o u)[i] = t[i]
  BY ConcatProperties
<1>3. /\ s \o u \in Seq(B) /\ Len(s \o u) = Len(s) + Len(u)
      /\ \A i \in 1..Len(s) : (s \o u)[i] = s[i]
  BY ConcatProperties
<1>4. Len(s) \in Nat /\ Len(t) \in Nat /\ Len(u) \in Nat
  OBVIOUS
<1>5. IsPrefix(s, s \o t)
  <2> DEFINE w == s \o t
  <2>1. w \in Seq(B) /\ Len(s) <= Len(w) /\ \A i \in 1..Len(s) : s[i] = w[i]
    BY <1>1, <1>4
  <2> HIDE DEF w
  <2>2. IsPrefix(s, w)
    BY <2>1, PrefixIs
  <2> QED
    BY <2>2 DEF w
<1>6. IsPrefix(s, t) => IsPrefix(s, t \o u)
  <2>1. IsPrefix(s, t) => Len(s) <= Len(t) /\ \A i \in 1..Len(s) : s[i] = t[i] /\ i \in 1..Len(t)
    BY <1>4, PrefixIs
  <2>2. IsPrefix(s, t) => Len(s) <= Len(t \o u) /\ \A i \in 1..Len(s) : s[i] = (t \o u)[i]
    BY <1>2, <1>4, <2>1
  <2> QED
    BY <1>2, <2>2, PrefixIs
<1>7. IsPrefix(s \o u, t) => IsPrefix(s, t)
  <2>1. IsPrefix(s \o u, t) =>
            Len(s \o u) <= Len(t) /\ \A i \in 1..Len(s \o u) : (s \o u)[i] = t[i]
    BY <1>3, PrefixIs
  <2>2. \A i \in 1..Len(s) : i \in 1..Len(s \o u)
    BY <1>3, <1>4
  <2>3. IsPrefix(s \o u, t) => Len(s) <= Len(t) /\ \A i \in 1..Len(s) : s[i] = t[i]
    BY <1>3, <1>4, <2>1, <2>2
  <2> QED
    BY <2>3, PrefixIs
<1> QED
  BY <1>5, <1>6, <1>7

------------------------------------------------------------------------------
(* FlattenSeq                                                               *)

(* The recursive function in FlattenSeq, for the first n sequences of s.    *)
Flattens(s, n, f) == f = [i \in 1..n |-> IF i = 1 THEN s[i] ELSE f[i - 1] \o s[i]]

(* Its value at i,                                                          *)
LEMMA FlattensAt ==
    ASSUME NEW s, NEW n \in Nat, NEW f, Flattens(s, n, f), NEW i \in 1..n
    PROVE  f[i] = IF i = 1 THEN s[i] ELSE f[i - 1] \o s[i]
<1> DEFINE h == [j \in 1..n |-> IF j = 1 THEN s[j] ELSE f[j - 1] \o s[j]]
<1>1. f = h
  BY DEF Flattens
<1>2. h[i] = IF i = 1 THEN s[i] ELSE f[i - 1] \o s[i]
  OBVIOUS
<1> HIDE DEF h
<1> QED
  BY <1>1, <1>2

(* and that there is one.                                                   *)
LEMMA FlattensExists ==
    ASSUME NEW s
    PROVE  \A n \in Nat : \E f : Flattens(s, n, f)
<1> DEFINE P == {n \in Nat : \E f : Flattens(s, n, f)}
<1>1. 0 \in P
  <2>1. Flattens(s, 0, [i \in 1..0 |-> i])
    BY DEF Flattens
  <2> QED
    BY <2>1
<1>2. ASSUME NEW n \in P PROVE n + 1 \in P
  <2>1. PICK f : Flattens(s, n, f)
    OBVIOUS
  <2> DEFINE g == [i \in 1..(n + 1) |-> IF i = 1 THEN s[i] ELSE f[i - 1] \o s[i]]
  <2>2. \A i \in 1..n : f[i] = g[i]
    <3>1. \A i \in 1..n : f[i] = IF i = 1 THEN s[i] ELSE f[i - 1] \o s[i]
      BY <2>1, FlattensAt
    <3>2. \A i \in 1..n : i \in 1..(n + 1)
      OBVIOUS
    <3> QED
      BY <3>1, <3>2
  <2>3. \A i \in 1..(n + 1) : i # 1 => f[i - 1] = g[i - 1]
    <3>1. \A i \in 1..(n + 1) : i # 1 => i - 1 \in 1..n
      OBVIOUS
    <3> HIDE DEF g
    <3> QED
      BY <2>2, <3>1
  <2>4. Flattens(s, n + 1, g)
    <3>1. \A i \in 1..(n + 1) : g[i] = IF i = 1 THEN s[i] ELSE g[i - 1] \o s[i]
      BY <2>3
    <3> QED
      BY <3>1 DEF Flattens
  <2> QED
    BY <2>4
<1>3. \A n \in Nat : n \in P
  <2> HIDE DEF P
  <2>1. P \in SUBSET Nat
    BY DEF P
  <2> QED
    BY <1>1, <1>2, <2>1, SetInduction
<1> QED
  BY <1>3

(* What FlattenSeq returns for sequences of members of B, with the function *)
(* that computes it.                                                        *)
LEMMA FlattenIs ==
    ASSUME NEW B, NEW s \in Seq(Seq(B)), s # <<>>
    PROVE  \E f : /\ FlattenSeq(s) = f[Len(s)]
                  /\ f[1] = s[1]
                  /\ \A i \in 2..Len(s) : f[i] = f[i - 1] \o s[i]
                  /\ \A i \in 1..Len(s) : f[i] \in Seq(B)
<1> DEFINE f == CHOOSE g : Flattens(s, Len(s), g)
<1>0. Len(s) \in Nat \ {0} /\ \A i \in 1..Len(s) : s[i] \in Seq(B)
  BY EmptySeq, ElementOfSeq
<1>1. Flattens(s, Len(s), f)
  <2>1. \E g : Flattens(s, Len(s), g)
    BY <1>0, FlattensExists
  <2> QED
    BY <2>1
<1>2. FlattenSeq(s) = f[Len(s)]
  BY <1>0 DEF FlattenSeq, Flattens
<1> HIDE DEF f
<1>3. f[1] = s[1] /\ \A i \in 2..Len(s) : f[i] = f[i - 1] \o s[i]
  <2>1. \A i \in 1..Len(s) : f[i] = IF i = 1 THEN s[i] ELSE f[i - 1] \o s[i]
    BY <1>0, <1>1, FlattensAt
  <2>2. 1 \in 1..Len(s) /\ \A i \in 2..Len(s) : i \in 1..Len(s) /\ i # 1
    BY <1>0
  <2> QED
    BY <2>1, <2>2
<1> DEFINE P == {n \in Nat : n + 1 <= Len(s) => f[n + 1] \in Seq(B)}
<1>4. 0 \in P
  BY <1>0, <1>3
<1>5. ASSUME NEW n \in P PROVE n + 1 \in P
  <2> SUFFICES ASSUME n + 2 <= Len(s) PROVE f[n + 2] \in Seq(B)
    BY <1>0
  <2>1. f[n + 1] \in Seq(B) /\ s[n + 2] \in Seq(B)
    BY <1>0
  <2>2. f[n + 2] = f[n + 1] \o s[n + 2]
    <3>1. n + 2 \in 2..Len(s) /\ (n + 2) - 1 = n + 1
      BY <1>0
    <3> QED
      BY <1>3, <3>1
  <2> QED
    BY <2>1, <2>2, ConcatProperties
<1>6. \A n \in Nat : n \in P
  <2> HIDE DEF P
  <2>1. P \in SUBSET Nat
    BY DEF P
  <2> QED
    BY <1>4, <1>5, <2>1, SetInduction
<1>7. \A i \in 1..Len(s) : f[i] \in Seq(B)
  <2> SUFFICES ASSUME NEW i \in 1..Len(s) PROVE f[i] \in Seq(B)
    OBVIOUS
  <2>1. i - 1 \in Nat /\ (i - 1) + 1 = i /\ i <= Len(s)
    BY <1>0
  <2>2. i - 1 \in P
    BY <1>6, <2>1
  <2> QED
    BY <2>1, <2>2
<1> QED
  BY <1>2, <1>3, <1>7
==============================================================================
