--------------------------- MODULE SubsequenceProofs ---------------------------
(***************************************************************************)
(* What a filtered sequence has in common with the sequence it was made of,*)
(* and the extreme elements of sets and sequences of numbers.              *)
(***************************************************************************)
EXTENDS Subsequences, FiniteSetsExt, FiniteSetTheorems, SequenceTheorems, WellFoundedInduction, TLAPS

LEMMA SeqIsSequence ==
  ASSUME NEW S, NEW s \in Seq(S)
  PROVE  IsSequence(s)
<1>1. Len(s) \in Nat /\ s = [i \in 1..Len(s) |-> s[i]]
  OBVIOUS
<1>2. \A i \in 1..Len(s) : s[i] \in {s[j] : j \in DOMAIN s}
  OBVIOUS
<1> QED  BY <1>1, <1>2 DEF IsSequence

LEMMA SequenceLength ==
  ASSUME NEW s, IsSequence(s)
  PROVE  /\ Len(s) \in Nat /\ DOMAIN s = 1..Len(s)
         /\ s = <<>> <=> Len(s) = 0
<1> DEFINE S == {s[i] : i \in DOMAIN s}
<1>1. s \in Seq(S)
  BY DEF IsSequence
<1> HIDE DEF S
<1> QED  BY <1>1

LEMMA TailSequence ==
  ASSUME NEW s, IsSequence(s), s # <<>>
  PROVE  /\ IsSequence(Tail(s)) /\ Len(Tail(s)) = Len(s) - 1
         /\ Head(s) = s[1]
         /\ \A i \in DOMAIN Tail(s) : Tail(s)[i] = s[i + 1]
<1> DEFINE S == {s[i] : i \in DOMAIN s}
<1>1. s \in Seq(S)
  BY DEF IsSequence
<1> HIDE DEF S
<1>2. Tail(s) \in Seq(S) /\ Len(Tail(s)) = Len(s) - 1 /\ Head(s) = s[1]
  BY <1>1
<1>3. \A i \in DOMAIN Tail(s) : Tail(s)[i] = s[i + 1]
  BY <1>1
<1> QED  BY <1>2, <1>3, SeqIsSequence

LEMMA AppendSequence ==
  ASSUME NEW s, IsSequence(s), NEW x
  PROVE  /\ IsSequence(Append(s, x)) /\ Len(Append(s, x)) = Len(s) + 1
         /\ Append(s, x)[Len(s) + 1] = x
         /\ \A i \in DOMAIN s : i \in DOMAIN Append(s, x) /\ Append(s, x)[i] = s[i]
         /\ \A i \in DOMAIN Append(s, x) : i \in DOMAIN s \/ i = Len(s) + 1
<1> DEFINE S == {s[i] : i \in DOMAIN s} \union {x}
<1>1. s \in Seq(S) /\ x \in S
  <2>1. s \in Seq({s[i] : i \in DOMAIN s})
    BY DEF IsSequence
  <2>2. Len(s) \in Nat /\ s = [i \in 1..Len(s) |-> s[i]] /\ \A i \in 1..Len(s) : s[i] \in S
    BY <2>1
  <2> QED  BY <2>2
<1> HIDE DEF S
<1>2. /\ Append(s, x) \in Seq(S) /\ Len(Append(s, x)) = Len(s) + 1
      /\ Append(s, x)[Len(s) + 1] = x /\ Len(s) \in Nat
      /\ DOMAIN s = 1..Len(s) /\ DOMAIN Append(s, x) = 1..(Len(s) + 1)
  BY <1>1
<1>3. ASSUME NEW i \in 1..Len(s) PROVE Append(s, x)[i] = s[i]
  <2>1. i \in Nat /\ i <= Len(s) /\ i # Len(s) + 1
    BY <1>2
  <2> QED  BY <1>1, <2>1
<1>4. IsSequence(Append(s, x))
  BY <1>2, SeqIsSequence
<1>5. \A i \in 1..(Len(s) + 1) : i \in 1..Len(s) \/ i = Len(s) + 1
  BY <1>2
<1>6. \A i \in 1..Len(s) : i \in 1..(Len(s) + 1)
  BY <1>2
<1> QED  BY <1>2, <1>3, <1>4, <1>5, <1>6

LEMMA SingletonSequence ==
  ASSUME NEW x
  PROVE  IsSequence(<<x>>) /\ <<x>> # <<>> /\ DOMAIN <<x>> = {1} /\ <<x>>[1] = x
<1>1. <<x>> \in Seq({x})
  OBVIOUS
<1>2. IsSequence(<<x>>)
  BY <1>1, SeqIsSequence
<1>3. <<x>> # <<>> /\ DOMAIN <<x>> = {1} /\ <<x>>[1] = x
  OBVIOUS
<1> QED  BY <1>2, <1>3

(* A concatenation has what either part has, and nothing else.             *)
LEMMA ConcatSequence ==
  ASSUME NEW s, IsSequence(s), NEW t, IsSequence(t)
  PROVE  /\ IsSequence(s \o t)
         /\ s # <<>> \/ t # <<>> => s \o t # <<>>
         /\ \A i \in DOMAIN s : i \in DOMAIN (s \o t) /\ (s \o t)[i] = s[i]
         /\ \A i \in DOMAIN t : Len(s) + i \in DOMAIN (s \o t) /\ (s \o t)[Len(s) + i] = t[i]
         /\ \A j \in DOMAIN (s \o t) :
              \/ j \in DOMAIN s /\ (s \o t)[j] = s[j]
              \/ j - Len(s) \in DOMAIN t /\ (s \o t)[j] = t[j - Len(s)]
<1> DEFINE S == {s[i] : i \in DOMAIN s} \union {t[i] : i \in DOMAIN t}
           u == s \o t
<1>1. s \in Seq(S) /\ t \in Seq(S)
  <2>1. s \in Seq({s[i] : i \in DOMAIN s}) /\ t \in Seq({t[i] : i \in DOMAIN t})
    BY DEF IsSequence
  <2>2. /\ Len(s) \in Nat /\ s = [i \in 1..Len(s) |-> s[i]] /\ \A i \in 1..Len(s) : s[i] \in S
    BY <2>1
  <2>3. /\ Len(t) \in Nat /\ t = [i \in 1..Len(t) |-> t[i]] /\ \A i \in 1..Len(t) : t[i] \in S
    BY <2>1
  <2> QED  BY <2>2, <2>3
<1> HIDE DEF S
<1>2. /\ u \in Seq(S) /\ Len(u) = Len(s) + Len(t)
      /\ \A i \in 1..(Len(s) + Len(t)) : u[i] = IF i <= Len(s) THEN s[i] ELSE t[i - Len(s)]
  BY <1>1, ConcatProperties
<1> HIDE DEF u
<1>3. /\ Len(s) \in Nat /\ Len(t) \in Nat /\ DOMAIN u = 1..(Len(s) + Len(t))
      /\ DOMAIN s = 1..Len(s) /\ DOMAIN t = 1..Len(t)
  BY <1>1, <1>2
<1>4. s # <<>> \/ t # <<>> => u # <<>>
  BY <1>1, <1>2, <1>3
<1>5. ASSUME NEW i \in DOMAIN s PROVE i \in DOMAIN u /\ u[i] = s[i]
  <2>1. i \in 1..(Len(s) + Len(t)) /\ i <= Len(s)
    BY <1>3
  <2> QED  BY <1>2, <1>3, <2>1
<1>6. ASSUME NEW i \in DOMAIN t PROVE Len(s) + i \in DOMAIN u /\ u[Len(s) + i] = t[i]
  <2>1. Len(s) + i \in 1..(Len(s) + Len(t)) /\ ~(Len(s) + i <= Len(s)) /\ Len(s) + i - Len(s) = i
    BY <1>3
  <2> QED  BY <1>2, <1>3, <2>1
<1>7. ASSUME NEW j \in DOMAIN u
      PROVE  (j \in DOMAIN s /\ u[j] = s[j]) \/ (j - Len(s) \in DOMAIN t /\ u[j] = t[j - Len(s)])
  <2>1. CASE j <= Len(s)
    <3>1. j \in DOMAIN s /\ u[j] = s[j]
      BY <1>2, <1>3, <2>1
    <3> QED  BY <3>1
  <2>2. CASE ~(j <= Len(s))
    <3>1. j - Len(s) \in DOMAIN t
      BY <1>3, <2>2
    <3>2. u[j] = t[j - Len(s)]
      BY <1>2, <1>3, <2>2
    <3> QED  BY <3>1, <3>2
  <2> QED  BY <2>1, <2>2
<1>8. IsSequence(u)
  BY <1>2, SeqIsSequence
<1> QED  BY <1>4, <1>5, <1>6, <1>7, <1>8 DEF u

LEMMA ConcatElements ==
  ASSUME NEW s, IsSequence(s), NEW t, IsSequence(t), NEW C,
         \A i \in DOMAIN s : s[i] \in C, \A i \in DOMAIN t : t[i] \in C
  PROVE  \A j \in DOMAIN (s \o t) : (s \o t)[j] \in C
<1>1. ASSUME NEW j \in DOMAIN (s \o t) PROVE (s \o t)[j] \in C
  <2>1. \/ j \in DOMAIN s /\ (s \o t)[j] = s[j]
        \/ j - Len(s) \in DOMAIN t /\ (s \o t)[j] = t[j - Len(s)]
    BY ConcatSequence
  <2> QED  BY <2>1
<1> QED  BY <1>1

(* The first element of s, or the default.                                 *)
LEMMA HeadOrDefault ==
  ASSUME NEW s, IsSequence(s), NEW default
  PROVE  Head(s \o <<default>>) = default \/ \E i \in DOMAIN s : Head(s \o <<default>>) = s[i]
<1>1. PICK t : t = <<default>>
  OBVIOUS
<1>2. IsSequence(t) /\ t # <<>> /\ \A i \in DOMAIN t : t[i] = default
  BY <1>1, SingletonSequence
<1>3. PICK u : u = s \o t
  OBVIOUS
<1>4. IsSequence(u) /\ u # <<>>
  BY <1>2, <1>3, ConcatSequence
<1>5. 1 \in DOMAIN u /\ Head(u) = u[1]
  BY <1>4, SequenceLength, TailSequence
<1> DEFINE C == {default} \union {s[i] : i \in DOMAIN s}
<1>6. (\A i \in DOMAIN s : s[i] \in C) /\ (\A i \in DOMAIN t : t[i] \in C)
  BY <1>2
<1> HIDE DEF C
<1>7. u[1] \in C
  BY <1>2, <1>3, <1>5, <1>6, ConcatElements
<1> QED  BY <1>1, <1>3, <1>5, <1>7 DEF C

(* An array of elements of C, and what it has.                             *)
ArrayOf(s, C) == IsSequence(s) /\ \A i \in DOMAIN s : s[i] \in C
Has(s, x) == \E i \in DOMAIN s : s[i] = x

(* A sequence between an element and another sequence.                     *)
LEMMA MiddleOfThree ==
  ASSUME NEW C, NEW x \in C, NEW s, ArrayOf(s, C), NEW t, ArrayOf(t, C)
  PROVE  /\ ArrayOf((<<x>> \o s) \o t, C) /\ (<<x>> \o s) \o t # <<>>
         /\ \A i \in DOMAIN s : Has((<<x>> \o s) \o t, s[i])
<1>0. /\ IsSequence(s) /\ IsSequence(t)
      /\ \A i \in DOMAIN s : s[i] \in C
      /\ \A i \in DOMAIN t : t[i] \in C
  BY DEF ArrayOf
<1> USE <1>0
<1> DEFINE u == (<<x>> \o s) \o t
<1>1. PICK first : first = <<x>>
  OBVIOUS
<1>2. IsSequence(first) /\ first # <<>> /\ \A i \in DOMAIN first : first[i] \in C
  BY <1>1, SingletonSequence
<1>3. PICK front : front = first \o s
  OBVIOUS
<1>4. IsSequence(front) /\ front # <<>>
  BY <1>2, <1>3, ConcatSequence
<1>5. \A i \in DOMAIN front : front[i] \in C
  BY <1>2, <1>3, ConcatElements
<1>6. u = front \o t
  BY <1>1, <1>3
<1>7. IsSequence(u) /\ u # <<>>
  BY <1>4, <1>6, ConcatSequence
<1>8. \A i \in DOMAIN u : u[i] \in C
  BY <1>4, <1>5, <1>6, ConcatElements
<1> HIDE DEF u
<1>9. ASSUME NEW i \in DOMAIN s PROVE Has(u, s[i])
  <2>1. Len(first) + i \in DOMAIN front /\ front[Len(first) + i] = s[i]
    BY <1>2, <1>3, ConcatSequence
  <2>2. Len(first) + i \in DOMAIN u /\ u[Len(first) + i] = front[Len(first) + i]
    BY <1>4, <1>6, <2>1, ConcatSequence
  <2> QED  BY <2>1, <2>2 DEF Has
<1>10. ArrayOf(u, C)
  BY <1>7, <1>8 DEF ArrayOf
<1> QED  BY <1>7, <1>9, <1>10 DEF u

(* How many indices of K are not beyond i.                                 *)
Rank(K, i) == Cardinality({j \in K : j <= i})

LEMMA RankInjective ==
  ASSUME NEW K \in SUBSET Nat, IsFiniteSet(K), NEW i \in K, NEW j \in K
  PROVE  /\ Rank(K, i) \in 1..Cardinality(K)
         /\ i < j => Rank(K, i) < Rank(K, j)
<1> DEFINE Upto(x) == {k \in K : k <= x}
<1>1. ASSUME NEW x \in K
      PROVE  /\ IsFiniteSet(Upto(x)) /\ Cardinality(Upto(x)) \in Nat
             /\ Cardinality(Upto(x)) <= Cardinality(K) /\ Upto(x) # {}
             /\ Cardinality(K) \in Nat
  <2>1. Upto(x) \in SUBSET K /\ x \in Upto(x)
    OBVIOUS
  <2>2. IsFiniteSet(Upto(x)) /\ Cardinality(Upto(x)) <= Cardinality(K)
    BY <2>1, FS_Subset
  <2> QED  BY <2>1, <2>2, FS_CardinalityType
<1>2. Rank(K, i) \in 1..Cardinality(K)
  BY <1>1, FS_EmptySet DEF Rank
<1>3. ASSUME i < j PROVE Rank(K, i) < Rank(K, j)
  <2>1. Upto(i) \in SUBSET Upto(j) /\ j \in Upto(j) /\ j \notin Upto(i)
    <3>1. i \in Nat /\ j \in Nat /\ \A k \in K : k \in Nat
      OBVIOUS
    <3>2. \A k \in K : k <= i => k <= j
      BY <1>3, <3>1
    <3>3. j <= j /\ ~(j <= i)
      BY <1>3, <3>1
    <3> QED  BY <3>2, <3>3
  <2>2. Cardinality(Upto(i)) <= Cardinality(Upto(j)) /\ Cardinality(Upto(i)) # Cardinality(Upto(j))
    BY <1>1, <2>1, FS_Subset
  <2> QED  BY <1>1, <2>2 DEF Rank
<1> QED  BY <1>2, <1>3

(* Every place up to the number of indices is that of exactly one index.   *)
LEMMA NthIndex ==
  ASSUME NEW K \in SUBSET Nat, IsFiniteSet(K)
  PROVE  /\ Cardinality(K) \in Nat
         /\ \A n \in 1..Cardinality(K) : Nth(K, n) \in K /\ Rank(K, Nth(K, n)) = n
         /\ \A i \in K : Rank(K, i) \in 1..Cardinality(K) /\ Nth(K, Rank(K, i)) = i
<1> DEFINE c == Cardinality(K)
           f == [i \in K |-> Rank(K, i)]
<1>1. c \in Nat /\ IsFiniteSet(1..c) /\ Cardinality(1..c) = c
  BY FS_CardinalityType, FS_Interval
<1>2. \A i, j \in K : Rank(K, i) \in 1..c /\ (Rank(K, i) = Rank(K, j) => i = j)
  <2> SUFFICES ASSUME NEW i \in K, NEW j \in K
               PROVE  Rank(K, i) \in 1..c /\ (Rank(K, i) = Rank(K, j) => i = j)
    OBVIOUS
  <2>1. /\ Rank(K, i) \in 1..c /\ Rank(K, j) \in 1..c
        /\ i < j => Rank(K, i) < Rank(K, j)
        /\ j < i => Rank(K, j) < Rank(K, i)
    BY RankInjective
  <2>2. i \in Nat /\ j \in Nat
    OBVIOUS
  <2> QED  BY <1>1, <2>1, <2>2
<1>3. f \in Injection(K, 1..c)
  BY <1>2 DEF Injection, IsInjective
<1>4. f \in Surjection(K, 1..c)
  BY <1>1, <1>3, FS_Injection
<1>5. \A n \in 1..c : \E i \in K : Rank(K, i) = n
  BY <1>4 DEF Surjection
<1>6. \A n \in 1..c : Nth(K, n) \in K /\ Rank(K, Nth(K, n)) = n
  BY <1>5 DEF Nth, Rank
<1> QED  BY <1>1, <1>2, <1>6

(* What is kept: a sequence of the elements at the chosen indices.         *)
LEMMA KeptElements ==
  ASSUME NEW S, NEW s \in Seq(S), NEW K \in SUBSET (DOMAIN s)
  PROVE  /\ IsFiniteSet(K) /\ Cardinality(K) \in Nat
         /\ Kept(s, K) \in Seq(S)
         /\ Len(Kept(s, K)) = Cardinality(K)
         /\ \A n \in DOMAIN Kept(s, K) : \E i \in K : Kept(s, K)[n] = s[i]
         /\ \A i \in K : \E n \in DOMAIN Kept(s, K) : Kept(s, K)[n] = s[i]
<1>1. IsFiniteSet(K) /\ K \in SUBSET Nat
  <2>1. DOMAIN s = 1..Len(s) /\ Len(s) \in Nat
    OBVIOUS
  <2>2. IsFiniteSet(DOMAIN s)
    BY <2>1, FS_Interval
  <2> QED  BY <2>1, <2>2, FS_Subset
<1>2. /\ Cardinality(K) \in Nat
      /\ \A n \in 1..Cardinality(K) : Nth(K, n) \in K
      /\ \A i \in K : \E n \in 1..Cardinality(K) : Nth(K, n) = i
  BY <1>1, NthIndex
<1>3. \A n \in 1..Cardinality(K) : s[Nth(K, n)] \in S
  BY <1>2
<1>4. Kept(s, K) \in Seq(S) /\ Len(Kept(s, K)) = Cardinality(K)
      /\ DOMAIN Kept(s, K) = 1..Cardinality(K)
  BY <1>2, <1>3 DEF Kept
<1> QED  BY <1>1, <1>2, <1>4 DEF Kept

-----------------------------------------------------------------------------
(* Extreme elements.                                                       *)

(* The least-element principle.                                            *)
LEMMA LeastNatural ==
  ASSUME NEW S \in SUBSET Nat, S # {}
  PROVE  \E x \in S : \A y \in S : x <= y
<1>1. PICK x \in S : \A y \in S : ~(<<y, x>> \in OpToRel(<, Nat))
  BY NatLessThanWellFounded, WFMin
<1>2. \A y \in S : ~(y < x)
  BY <1>1 DEF OpToRel
<1> QED  BY <1>2

LEMMA MinIsLeast ==
  ASSUME NEW S \in SUBSET Nat, S # {}
  PROVE  Min(S) \in S /\ \A y \in S : Min(S) <= y
BY LeastNatural DEF Min

(* Among finitely many numbers there is a least one.                       *)
LEMMA LeastValue ==
  ASSUME NEW f, NEW n \in Nat, n # 0, \A i \in 1..n : f[i] \in Int
  PROVE  \E i \in 1..n : \A j \in 1..n : f[i] <= f[j]
<1> DEFINE HasLeast(m) == \E i \in 1..m : \A j \in 1..m : f[i] <= f[j]
           Bad == {m \in 1..n : ~HasLeast(m)}
<1>1. SUFFICES ASSUME Bad # {} PROVE FALSE
  <2>1. n \in 1..n
    OBVIOUS
  <2> QED  BY <2>1
<1>2. PICK m \in Bad : \A k \in Bad : m <= k
  <2>1. Bad \in SUBSET Nat
    OBVIOUS
  <2> HIDE DEF Bad
  <2> QED  BY <1>1, <2>1, LeastNatural
<1>3. m \in 1..n /\ ~HasLeast(m) /\ f[m] \in Int
  OBVIOUS
<1>4. m # 1
  <2>1. 1..1 = {1}
    OBVIOUS
  <2>2. HasLeast(1)
    BY <2>1
  <2> QED  BY <1>3, <2>2
<1>5. m - 1 \in 1..n /\ m - 1 \notin Bad
  <2>1. m \in Nat /\ m - 1 \in 1..n
    BY <1>3, <1>4
  <2>2. ~(m <= m - 1)
    BY <2>1
  <2> HIDE DEF Bad
  <2> QED  BY <1>2, <2>1, <2>2
<1>6. PICK i \in 1..(m - 1) : \A j \in 1..(m - 1) : f[i] <= f[j]
  BY <1>5
<1>7. i \in 1..m /\ f[i] \in Int /\ \A j \in 1..m : j = m \/ j \in 1..(m - 1)
  BY <1>3
<1>8. CASE f[i] <= f[m]
  BY <1>3, <1>6, <1>7, <1>8
<1>9. CASE f[m] <= f[i]
  <2>1. \A j \in 1..m : f[m] <= f[j]
    BY <1>3, <1>6, <1>7, <1>9
  <2> QED  BY <1>3, <2>1
<1> QED  BY <1>3, <1>7, <1>8, <1>9
=============================================================================
