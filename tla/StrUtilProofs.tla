----------------------------- MODULE StrUtilProofs -----------------------------
(***************************************************************************)
(* tokenize and strto, proved for strings of any length and any            *)
(* characters: the tokens are what the string has between its separators,  *)
(* and a number is a number.                                               *)
(*                                                                         *)
(* The proofs by induction are by the least counterexample.                *)
(***************************************************************************)
EXTENDS StrUtil, FiniteSetTheorems, WellFoundedInduction, TLAPS

\* The positions up to i.
UpTo(places, i) == {j \in places : j <= i}

-------------------------------------------------------------------------------
(* Positions.                                                              *)

\* Some natural numbers, if there are any, have a least one.
LEMMA Least ==
  ASSUME NEW T \in SUBSET Nat, T # {}
  PROVE  \E x \in T : \A y \in T : x <= y
<1>. DEFINE F == {0..m : m \in T}
<1>1. \A m \in Nat : IsFiniteSet(0..m) /\ 0..m \in SUBSET Nat
  BY FS_Interval
<1>2. F \subseteq FiniteSubsetsOf(Nat)
  BY <1>1 DEF FiniteSubsetsOf
<1>3. F # {}
  OBVIOUS
<1>4. PICK U \in F : \A V \in F : ~ (<<V, U>> \in StrictSubsetOrdering(Nat))
  <2>. HIDE DEF F
  <2>. QED
    BY <1>2, <1>3, FS_StrictSubsetOrderingWellFounded, WFMin
<1>5. PICK x \in T : U = 0..x
  BY DEF F
<1>6. ASSUME NEW y \in T, y < x PROVE FALSE
  <2>1. /\ 0..y \in F /\ 0..y \subseteq Nat /\ U \subseteq Nat
        /\ 0..y \subseteq U /\ x \in U /\ x \notin 0..y
    BY <1>5, <1>6
  <2>. QED
    BY <2>1, <1>4 DEF StrictSubsetOrdering
<1>. QED
  BY <1>6

\* The numbers from 1 to n.
LEMMA UpToN ==
  ASSUME NEW n \in Nat
  PROVE  IsFiniteSet(1..n) /\ Cardinality(1..n) = n
<1>1. IsFiniteSet(1..n) /\ Cardinality(1..n) = IF 1 > n THEN 0 ELSE n - 1 + 1
  BY FS_Interval
<1>. QED
  BY <1>1

\* The positions of a character in a string.
LEMMA OccurrencesType ==
  ASSUME NEW T, NEW s \in Seq(T), NEW sep
  PROVE  /\ Occurrences(s, sep) \in SUBSET (1..Len(s))
         /\ Occurrences(s, sep) \in SUBSET Nat
         /\ IsFiniteSet(Occurrences(s, sep))
         /\ Cardinality(Occurrences(s, sep)) \in Nat
<1>1. Len(s) \in Nat /\ DOMAIN s = 1..Len(s)
  OBVIOUS
<1>2. Occurrences(s, sep) \in SUBSET (1..Len(s))
  BY <1>1 DEF Occurrences
<1>3. IsFiniteSet(1..Len(s))
  BY <1>1, FS_Interval
<1>. QED
  BY <1>1, <1>2, <1>3, FS_Subset, FS_CardinalityType

\* memchr finds the first separator at or after i, if there is one.
LEMMA MemchrFinds ==
  ASSUME NEW T, NEW s \in Seq(T), NEW sep, NEW i \in 1..Len(s),
         \E j \in i..Len(s) : s[j] = sep
  PROVE  /\ Memchr(s, sep)[i] \in i..Len(s)
         /\ s[Memchr(s, sep)[i]] = sep
         /\ \A k \in i..(Memchr(s, sep)[i] - 1) : s[k] # sep
<1>. DEFINE P == {j \in i..Len(s) : s[j] = sep}
<1>1. P \in SUBSET Nat /\ P # {}
  OBVIOUS
<1>2. PICK m \in P : \A j \in P : m <= j
  <2>. HIDE DEF P
  <2>. QED
    BY <1>1, Least
<1>3. m \in i..Len(s) /\ s[m] = sep /\ \A k \in i..(m - 1) : s[k] # sep
  BY <1>2
<1>. QED
  BY <1>3 DEF Memchr

\* What is a position up to i.
LEMMA UpToMember ==
  ASSUME NEW P, NEW i
  PROVE  \A j : j \in UpTo(P, i) <=> j \in P /\ j <= i
BY DEF UpTo

\* The positions up to i are finitely many.
LEMMA UpToFinite ==
  ASSUME NEW P \in SUBSET Nat, IsFiniteSet(P), NEW i
  PROVE  /\ IsFiniteSet(UpTo(P, i))
         /\ Cardinality(UpTo(P, i)) \in Nat
         /\ Cardinality(P) \in Nat
         /\ Cardinality(UpTo(P, i)) <= Cardinality(P)
         /\ Cardinality(UpTo(P, i)) = Cardinality(P) => UpTo(P, i) = P
<1>1. UpTo(P, i) \in SUBSET P
  BY DEF UpTo
<1>. QED
  BY <1>1, FS_Subset, FS_CardinalityType

\* The next position is the next in number.
LEMMA NextCounts ==
  ASSUME NEW P \in SUBSET Nat, IsFiniteSet(P), NEW i \in Int, NEW m \in P, i < m,
         \A j \in P : i < j => m <= j
  PROVE  Cardinality(UpTo(P, m)) = Cardinality(UpTo(P, i)) + 1
<1>1. /\ \A j \in P : j <= m <=> j <= i \/ j = m
      /\ ~ (m <= i)
  OBVIOUS
<1>2. UpTo(P, m) = UpTo(P, i) \cup {m} /\ m \notin UpTo(P, i)
  <2>1. \A j : j \in UpTo(P, m) <=> j \in UpTo(P, i) \/ j = m
    BY <1>1, UpToMember, Zenon
  <2>2. m \notin UpTo(P, i)
    BY <1>1, UpToMember, Zenon
  <2>. QED
    BY <2>1, <2>2
<1>. QED
  BY <1>2, UpToFinite, FS_AddElement

\* A position is the one with its number.
LEMMA NthIs ==
  ASSUME NEW P \in SUBSET Nat, IsFiniteSet(P), NEW i \in P
  PROVE  Nth(P, Cardinality(UpTo(P, i))) = i
<1>1. ASSUME NEW a \in P, NEW b \in P, a < b
      PROVE  Cardinality(UpTo(P, a)) # Cardinality(UpTo(P, b))
  <2>1. UpTo(P, a) \in SUBSET UpTo(P, b) /\ b \in UpTo(P, b) /\ b \notin UpTo(P, a)
    <3>1. (\A j \in P : j <= a => j <= b) /\ b <= b /\ ~ (b <= a)
      BY <1>1
    <3>. QED
      BY <3>1, UpToMember
  <2>. QED
    BY <2>1, UpToFinite, FS_Subset
<1>2. \A a, b \in P : Cardinality(UpTo(P, a)) = Cardinality(UpTo(P, b)) => a = b
  BY <1>1
<1>. QED
  BY <1>2 DEF Nth, UpTo

\* There is a position of each number.
LEMMA NthExists ==
  ASSUME NEW P \in SUBSET Nat, IsFiniteSet(P), NEW k \in 1..Cardinality(P)
  PROVE  /\ Nth(P, k) \in P
         /\ Cardinality(UpTo(P, Nth(P, k))) = k
<1>. DEFINE Missing == {n \in 1..Cardinality(P) :
                          \A i \in P : Cardinality(UpTo(P, i)) # n}
<1>1. Missing = {}
  <2>. SUFFICES ASSUME Missing # {} PROVE FALSE
    OBVIOUS
  <2>1. Missing \in SUBSET Nat
    OBVIOUS
  <2>2. PICK n \in Missing : \A m \in Missing : n <= m
    <3>. HIDE DEF Missing
    <3>. QED
      BY <2>1, Least
  <2>3. n \in Nat /\ n >= 1 /\ n <= Cardinality(P) /\ Cardinality(P) \in Nat
    BY UpToFinite
  <2>4. PICK i \in Int : Cardinality(UpTo(P, i)) = n - 1
    <3>1. CASE n = 1
      <4>1. UpTo(P, 0 - 1) = {}
        <5>1. \A j \in P : ~ (j <= 0 - 1)
          OBVIOUS
        <5>. QED
          BY <5>1, UpToMember
      <4>. QED
        BY <3>1, <4>1, FS_EmptySet
    <3>2. CASE n # 1
      <4>1. n - 1 \in 1..Cardinality(P) /\ n - 1 \notin Missing
        BY <2>2, <2>3, <3>2
      <4>. QED
        BY <4>1
    <3>. QED
      BY <3>1, <3>2
  <2>5. PICK m \in {j \in P : i < j} : \A j \in {j \in P : i < j} : m <= j
    <3>1. UpTo(P, i) # P
      BY <2>3, <2>4
    <3>2. \E j \in P : i < j
      <4>1. \E j \in P : ~ (j <= i)
        <5>1. ASSUME \A j \in P : j <= i PROVE UpTo(P, i) = P
          <6>1. \A j : j \in UpTo(P, i) <=> j \in P
            BY <5>1, UpToMember, Zenon
          <6>. QED
            BY <6>1
        <5>. QED
          BY <5>1, <3>1
      <4>. QED
        BY <4>1
    <3>3. {j \in P : i < j} \in SUBSET Nat
      OBVIOUS
    <3>. QED
      BY <3>2, <3>3, Least
  <2>6. Cardinality(UpTo(P, m)) = n
    BY <2>3, <2>4, <2>5, NextCounts
  <2>. QED
    BY <2>6, <2>5
<1>2. PICK i \in P : Cardinality(UpTo(P, i)) = k
  BY <1>1
<1>. QED
  BY <1>2, NthIs

\* Positions are numbered in order, and all of them are.
LEMMA NthOrder ==
  ASSUME NEW P \in SUBSET Nat, IsFiniteSet(P)
  PROVE  /\ Cardinality(P) \in Nat
         /\ \A k, l \in 1..Cardinality(P) : k < l => Nth(P, k) < Nth(P, l)
         /\ \A i \in P : \E k \in 1..Cardinality(P) : i = Nth(P, k)
<1>1. Cardinality(P) \in Nat
  BY FS_CardinalityType
<1>2. ASSUME NEW k \in 1..Cardinality(P), NEW l \in 1..Cardinality(P), k < l
      PROVE  Nth(P, k) < Nth(P, l)
  <2>1. PICK i \in P, j \in P : /\ i = Nth(P, k) /\ j = Nth(P, l)
                                /\ Cardinality(UpTo(P, i)) = k /\ Cardinality(UpTo(P, j)) = l
    BY NthExists
  <2>. SUFFICES ASSUME j <= i PROVE FALSE
    BY <2>1
  <2>2. \A n \in P : n <= j => n <= i
    OBVIOUS
  <2>3. UpTo(P, j) \in SUBSET UpTo(P, i)
    BY <2>2, UpToMember
  <2>. QED
    BY <1>2, <2>1, <2>3, UpToFinite, FS_Subset
<1>3. ASSUME NEW i \in P PROVE \E k \in 1..Cardinality(P) : i = Nth(P, k)
  <2>1. PICK k : k = Cardinality(UpTo(P, i))
    OBVIOUS
  <2>2. k \in Nat /\ k <= Cardinality(P) /\ Nth(P, k) = i
    BY <2>1, UpToFinite, NthIs
  <2>3. k # 0
    <3>1. i <= i
      OBVIOUS
    <3>2. i \in UpTo(P, i)
      BY <3>1, UpToMember
    <3>. QED
      BY <2>1, <3>2, UpToFinite, FS_EmptySet
  <2>. QED
    BY <1>1, <2>2, <2>3
<1>. QED
  BY <1>1, <1>2, <1>3

\* There is nothing between one position and the next in number.
LEMMA NthNext ==
  ASSUME NEW P \in SUBSET Nat, IsFiniteSet(P), NEW k \in 1..Cardinality(P),
         NEW i \in P, Nth(P, k) < i
  PROVE  k + 1 \in 1..Cardinality(P) /\ Nth(P, k + 1) <= i
<1>1. PICK l \in 1..Cardinality(P) : i = Nth(P, l)
  BY NthOrder
<1>2. Cardinality(P) \in Nat /\ k < l
  <2>1. Cardinality(P) \in Nat
    BY NthOrder
  <2>2. l < k => Nth(P, l) < Nth(P, k)
    BY NthOrder
  <2>3. Nth(P, k) \in Nat /\ Nth(P, l) \in Nat
    BY <2>1, NthExists
  <2>. QED
    BY <1>1, <2>1, <2>2, <2>3
<1>3. k + 1 \in 1..Cardinality(P)
  BY <1>2
<1>4. k + 1 = l \/ Nth(P, k + 1) < Nth(P, l)
  BY <1>2, <1>3, NthOrder
<1>5. Nth(P, k + 1) \in Nat /\ i \in Nat
  BY <1>3, NthExists
<1>. QED
  BY <1>1, <1>3, <1>4, <1>5

\* Positions that correspond, in the same order, have the same numbers.
LEMMA NthMaps ==
  ASSUME NEW P \in SUBSET Nat, IsFiniteSet(P), NEW Q \in SUBSET Nat, NEW g,
         \A i \in P : g[i] \in Q,
         \A j \in Q : \E i \in P : j = g[i],
         \A i, j \in P : i < j => g[i] < g[j]
  PROVE  /\ IsFiniteSet(Q)
         /\ Cardinality(Q) = Cardinality(P)
         /\ \A k \in 1..Cardinality(P) : Nth(Q, k) = g[Nth(P, k)]
<1>1. \A i, j \in P : g[i] = g[j] => i = j
  <2>. SUFFICES ASSUME NEW i \in P, NEW j \in P, g[i] = g[j] PROVE i = j
    OBVIOUS
  <2>1. i < j \/ j < i \/ i = j
    OBVIOUS
  <2>2. g[i] \in Nat /\ g[j] \in Nat
    OBVIOUS
  <2>. QED
    BY <2>1, <2>2
<1>2. ASSUME NEW A \in SUBSET P, NEW B, \A j : j \in B <=> \E i \in A : j = g[i]
      PROVE  IsFiniteSet(B) /\ Cardinality(B) = Cardinality(A)
  <2>. DEFINE h == [i \in A |-> g[i]]
  <2>1. IsFiniteSet(A)
    BY FS_Subset
  <2>2. h \in Bijection(A, B)
    BY <1>1, <1>2 DEF Bijection, Injection, Surjection, IsInjective
  <2>3. ExistsBijection(A, B)
    BY <2>2 DEF ExistsBijection
  <2>. QED
    BY <2>1, <2>3, FS_Bijection
<1>3. IsFiniteSet(Q) /\ Cardinality(Q) = Cardinality(P)
  <2>1. \A j : j \in Q <=> \E i \in P : j = g[i]
    OBVIOUS
  <2>. QED
    BY <1>2, <2>1
<1>4. ASSUME NEW k \in 1..Cardinality(P) PROVE Nth(Q, k) = g[Nth(P, k)]
  <2>1. PICK i \in P : i = Nth(P, k) /\ Cardinality(UpTo(P, i)) = k
    BY NthExists
  <2>2. UpTo(P, i) \in SUBSET P
    BY UpToMember
  <2>3. \A n \in P : n <= i <=> g[n] <= g[i]
    <3>. SUFFICES ASSUME NEW n \in P PROVE n <= i <=> g[n] <= g[i]
      OBVIOUS
    <3>1. g[n] \in Nat /\ g[i] \in Nat
      OBVIOUS
    <3>2. n < i \/ i < n \/ n = i
      OBVIOUS
    <3>. QED
      BY <3>1, <3>2
  <2>4. \A j : j \in UpTo(Q, g[i]) <=> \E n \in UpTo(P, i) : j = g[n]
    <3>1. \A j : j \in UpTo(Q, g[i]) <=> j \in Q /\ j <= g[i]
      BY UpToMember
    <3>2. \A n : n \in UpTo(P, i) <=> n \in P /\ n <= i
      BY UpToMember
    <3>. QED
      BY <2>3, <3>1, <3>2
  <2>5. Cardinality(UpTo(Q, g[i])) = k
    BY <1>2, <2>1, <2>2, <2>4
  <2>6. Nth(Q, Cardinality(UpTo(Q, g[i]))) = g[i]
    BY <1>3, NthIs
  <2>. QED
    BY <2>1, <2>5, <2>6
<1>. QED
  BY <1>3, <1>4

-------------------------------------------------------------------------------
(* tokenize.                                                               *)

\* Where the cursor has to be after k tokens.
CursorAt(s, sep) ==
  [k \in 0..Cardinality(Occurrences(s, sep)) |->
     IF k = 0 THEN 1 ELSE Nth(Occurrences(s, sep), k) + 1]

\* From a cursor to the next.
LEMMA CursorNext ==
  ASSUME NEW T, NEW s \in Seq(T), NEW sep,
         NEW k \in 1..Cardinality(Occurrences(s, sep))
  PROVE  Nth(Occurrences(s, sep), k) = Memchr(s, sep)[CursorAt(s, sep)[k - 1]]
<1>. DEFINE P == Occurrences(s, sep)
<1>1. /\ P \in SUBSET Nat /\ IsFiniteSet(P) /\ Cardinality(P) \in Nat
      /\ P \in SUBSET (1..Len(s))
  BY OccurrencesType
<1>2. \A j : j \in P <=> j \in 1..Len(s) /\ s[j] = sep
  BY DEF Occurrences
<1>3. PICK before \in Nat : /\ CursorAt(s, sep)[k - 1] = before + 1
                            /\ Cardinality(UpTo(P, before)) = k - 1
  <2>1. CASE k = 1
    <3>1. \A j \in P : ~ (j <= 0)
      BY <1>1
    <3>2. UpTo(P, 0) = {}
      BY <3>1, UpToMember
    <3>3. Cardinality(UpTo(P, 0)) = 0
      BY <3>2, FS_EmptySet
    <3>4. CursorAt(s, sep)[k - 1] = 0 + 1
      BY <1>1, <2>1 DEF CursorAt
    <3>. QED
      BY <2>1, <3>3, <3>4
  <2>2. CASE k # 1
    <3>1. k - 1 \in 1..Cardinality(P)
      BY <1>1, <2>2
    <3>2. Nth(P, k - 1) \in P /\ Cardinality(UpTo(P, Nth(P, k - 1))) = k - 1
      BY <1>1, <3>1, NthExists
    <3>3. CursorAt(s, sep)[k - 1] = Nth(P, k - 1) + 1
      BY <3>1 DEF CursorAt
    <3>. QED
      BY <1>1, <3>2, <3>3
  <2>. QED
    BY <2>1, <2>2
<1>. HIDE DEF P
<1>4. \E j \in P : before + 1 <= j
  <2>1. Cardinality(UpTo(P, before)) # Cardinality(P)
    BY <1>1, <1>3 DEF P
  <2>2. UpTo(P, before) # P
    BY <2>1
  <2>3. ASSUME \A j \in P : j <= before PROVE UpTo(P, before) = P
    <3>1. \A j : j \in UpTo(P, before) <=> j \in P
      BY <2>3, UpToMember, Zenon
    <3>. QED
      BY <3>1
  <2>4. PICK j \in P : ~ (j <= before)
    BY <2>2, <2>3
  <2>5. j \in Nat
    BY <1>1
  <2>. QED
    BY <2>4, <2>5
<1>5. before + 1 \in 1..Len(s) /\ \E j \in (before + 1)..Len(s) : s[j] = sep
  BY <1>1, <1>2, <1>4
<1>6. PICK m : m = Memchr(s, sep)[before + 1]
  OBVIOUS
<1>7. m \in (before + 1)..Len(s) /\ s[m] = sep /\ \A j \in (before + 1)..(m - 1) : s[j] # sep
  BY <1>5, <1>6, MemchrFinds
<1>8. m \in P /\ before < m
  BY <1>2, <1>7
<1>9. ASSUME NEW j \in P, before < j PROVE m <= j
  BY <1>1, <1>2, <1>7, <1>9
<1>10. Cardinality(UpTo(P, m)) = k
  <2>1. Cardinality(UpTo(P, m)) = Cardinality(UpTo(P, before)) + 1
    BY <1>1, <1>8, <1>9, NextCounts
  <2>. QED
    BY <1>3, <2>1
<1>11. Nth(P, k) = m
  BY <1>1, <1>8, <1>10, NthIs
<1>. QED
  BY <1>3, <1>6, <1>11 DEF P

\* The cursor of the loop is where it has to be.
LEMMA CursorIs ==
  ASSUME NEW T, NEW s \in Seq(T), NEW sep
  PROVE  Cursor(s, sep) = CursorAt(s, sep)
<1>. DEFINE n == Cardinality(Occurrences(s, sep))
            Next(c) == [k \in 0..n |-> IF k = 0 THEN 1 ELSE Memchr(s, sep)[c[k - 1]] + 1]
            goal == CursorAt(s, sep)
<1>1. n \in Nat
  BY OccurrencesType
<1>2. goal = Next(goal)
  <2>1. \A k \in 0..n : goal[k] = IF k = 0 THEN 1 ELSE Nth(Occurrences(s, sep), k) + 1
    BY DEF CursorAt
  <2>2. \A k \in 1..n : Nth(Occurrences(s, sep), k) = Memchr(s, sep)[goal[k - 1]]
    BY CursorNext
  <2>3. \A k \in 0..n : goal[k] = Next(goal)[k]
    BY <1>1, <2>1, <2>2
  <2>. QED
    BY <2>3 DEF CursorAt
<1>3. ASSUME NEW c, c = Next(c) PROVE c = goal
  <2>. DEFINE Wrong == {k \in 0..n : c[k] # goal[k]}
  <2>1. ASSUME Wrong # {} PROVE FALSE
    <3>1. Wrong \in SUBSET Nat
      BY <1>1
    <3>2. PICK k \in Wrong : \A j \in Wrong : k <= j
      <4>. HIDE DEF Wrong
      <4>. QED
        BY <2>1, <3>1, Least
    <3>3. k \in 0..n /\ c[k] = Next(c)[k] /\ goal[k] = Next(goal)[k] /\ c[k] # goal[k]
      BY <1>2, <1>3
    <3>4. k # 0
      BY <3>3
    <3>5. k - 1 \in 0..n /\ k - 1 \notin Wrong
      BY <1>1, <3>2, <3>3, <3>4
    <3>6. c[k - 1] = goal[k - 1]
      BY <3>5
    <3>. QED
      BY <3>3, <3>4, <3>6
  <2>2. \A k \in 0..n : c[k] = goal[k]
    BY <2>1
  <2>3. c = [k \in 0..n |-> c[k]] /\ goal = [k \in 0..n |-> goal[k]]
    BY <1>2, <1>3
  <2>. QED
    BY <2>2, <2>3
<1>4. Cursor(s, sep) = CHOOSE c : c = Next(c)
  BY DEF Cursor
<1>5. (CHOOSE c : c = Next(c)) = Next(CHOOSE c : c = Next(c))
  <2>. HIDE DEF Next, goal
  <2>. QED
    BY <1>2, Zenon
<1>. QED
  BY <1>3, <1>4, <1>5
\* The tokens of a string are what it has between its separators: each of
\* them, in order, without the separators, one more than there are of those.
THEOREM TokenizeParts ==
  ASSUME NEW T, NEW s \in Seq(T), NEW sep
  PROVE  /\ Tokenize(s, sep) \in Seq(Seq(T))
         /\ Len(Tokenize(s, sep)) = Cardinality(Occurrences(s, sep)) + 1
         /\ \A n \in 1..(Cardinality(Occurrences(s, sep)) + 1) :
              Tokenize(s, sep)[n] = Part(s, sep, n)
<1>. DEFINE count == Cardinality(Occurrences(s, sep))
            P == Occurrences(s, sep)
            first == [k \in 1..count |-> SubSeq(s, CursorAt(s, sep)[k - 1],
                                                CursorAt(s, sep)[k] - 2)]
            last == SubSeq(s, CursorAt(s, sep)[count], Len(s))
<1>1. count \in Nat /\ P \in SUBSET (1..Len(s)) /\ P \in SUBSET Nat /\ IsFiniteSet(P)
  BY OccurrencesType
<1>2. Tokenize(s, sep) = Append(first, last)
  BY CursorIs DEF Tokenize
<1>3. ASSUME NEW k \in 0..count
      PROVE  /\ CursorAt(s, sep)[k] = IF k = 0 THEN 1 ELSE Nth(P, k) + 1
             /\ CursorAt(s, sep)[k] \in 1..(Len(s) + 1)
  <2>1. CursorAt(s, sep)[k] = IF k = 0 THEN 1 ELSE Nth(P, k) + 1
    BY DEF CursorAt
  <2>2. k # 0 => Nth(P, k) \in P
    BY <1>1, NthExists
  <2>. QED
    BY <1>1, <2>1, <2>2
<1>4. ASSUME NEW k \in 1..count
      PROVE  /\ first[k] = Part(s, sep, k)
             /\ first[k] \in Seq(T)
  <2>1. k - 1 \in 0..count /\ k \in 0..count
    BY <1>1
  <2>2. first[k] = SubSeq(s, CursorAt(s, sep)[k - 1], CursorAt(s, sep)[k] - 2)
    OBVIOUS
  <2>3. /\ CursorAt(s, sep)[k - 1] = IF k = 1 THEN 1 ELSE Nth(P, k - 1) + 1
        /\ CursorAt(s, sep)[k - 1] \in 1..(Len(s) + 1)
    BY <1>3, <2>1
  <2>4. CursorAt(s, sep)[k] = Nth(P, k) + 1 /\ Nth(P, k) \in 1..Len(s)
    BY <1>1, <2>1, NthExists DEF CursorAt
  <2>5. CursorAt(s, sep)[k] - 2 = Nth(P, k) - 1
    BY <2>4
  <2>6. Part(s, sep, k) = SubSeq(s, IF k = 1 THEN 1 ELSE Nth(P, k - 1) + 1, Nth(P, k) - 1)
    <3>1. ~ (k > Cardinality(Occurrences(s, sep)))
      BY <1>1
    <3>. QED
      BY <3>1, Zenon DEF Part
  <2>. QED
    <3>1. first[k] = Part(s, sep, k)
      BY <2>2, <2>3, <2>4, <2>5, <2>6, Zenon
    <3>2. SubSeq(s, CursorAt(s, sep)[k - 1], CursorAt(s, sep)[k] - 2) \in Seq(T)
      <4>. PICK a \in 1..(Len(s) + 1), b \in 0..(Len(s) - 1) :
             a = CursorAt(s, sep)[k - 1] /\ b = CursorAt(s, sep)[k] - 2
        BY <2>3, <2>4, <2>5
      <4>1. SubSeq(s, a, b) \in Seq(T)
        OBVIOUS
      <4>. QED
        BY <4>1
    <3>. QED
      BY <2>2, <3>1, <3>2
<1>5. last = Part(s, sep, count + 1) /\ last \in Seq(T)
  <2>1. /\ CursorAt(s, sep)[count] = IF count = 0 THEN 1 ELSE Nth(P, count) + 1
        /\ CursorAt(s, sep)[count] \in 1..(Len(s) + 1)
    BY <1>1, <1>3
  <2>2. /\ count + 1 > count
        /\ (count + 1) - 1 = count
        /\ count + 1 = 1 <=> count = 0
    BY <1>1
  <2>3. Part(s, sep, count + 1) =
          SubSeq(s, IF count = 0 THEN 1 ELSE Nth(P, count) + 1, Len(s))
    BY <2>2 DEF Part
  <2>. QED
    BY <2>1, <2>3
<1>. HIDE DEF first, last, count
<1>6. first \in Seq(Seq(T)) /\ Len(first) = count
  <2>1. first = [k \in 1..count |-> first[k]]
    BY DEF first
  <2>. QED
    BY <1>1, <1>4, <2>1
<1>7. /\ Append(first, last) \in Seq(Seq(T))
      /\ Len(Append(first, last)) = count + 1
      /\ Append(first, last)[count + 1] = last
      /\ \A k \in 1..count : Append(first, last)[k] = first[k]
  BY <1>1, <1>5, <1>6
<1>8. \A n \in 1..(count + 1) : Tokenize(s, sep)[n] = Part(s, sep, n)
  <2>. SUFFICES ASSUME NEW n \in 1..(count + 1)
                PROVE  Tokenize(s, sep)[n] = Part(s, sep, n)
    OBVIOUS
  <2>1. n \in 1..count \/ n = count + 1
    BY <1>1
  <2>. QED
    BY <1>2, <1>4, <1>5, <1>7, <2>1
<1>. QED
  BY <1>2, <1>7, <1>8 DEF count

-------------------------------------------------------------------------------
(* strto.                                                                  *)

\* The decimal digits have values.
DigitsWorth == \A c \in DOMAIN DigitValue : DigitValue[c] \in Nat

\* The values of the beginnings of a number are natural numbers, each made
\* from the one before.
LEMMA ValueOfType ==
  ASSUME DigitsWorth, NEW digits \in Seq(DOMAIN DigitValue)
  PROVE  /\ ValueOf(digits) \in [0..Len(digits) -> Nat]
         /\ ValueOf(digits)[0] = 0
         /\ \A k \in 1..Len(digits) :
              ValueOf(digits)[k] = 10 * ValueOf(digits)[k - 1] + DigitValue[digits[k]]
<1>. DEFINE n == Len(digits)
            Next(v) == [k \in 0..n |-> IF k = 0 THEN 0
                                       ELSE 10 * v[k - 1] + DigitValue[digits[k]]]
            Solves(v, m) == /\ v \in [0..m -> Nat]
                            /\ v[0] = 0
                            /\ \A k \in 1..m : v[k] = 10 * v[k - 1] + DigitValue[digits[k]]
            Missing == {m \in 0..n : \A v \in [0..m -> Nat] : ~ Solves(v, m)}
<1>1. n \in Nat /\ \A k \in 1..n : DigitValue[digits[k]] \in Nat
  BY DEF DigitsWorth
<1>2. ASSUME Missing # {} PROVE FALSE
  <2>1. Missing \in SUBSET Nat
    BY <1>1
  <2>2. PICK m \in Missing : \A j \in Missing : m <= j
    <3>. HIDE DEF Missing
    <3>. QED
      BY <1>2, <2>1, Least
  <2>3. m \in 0..n /\ \A v \in [0..m -> Nat] : ~ Solves(v, m)
    BY <2>2
  <2>4. CASE m = 0
    <3>1. [k \in 0..0 |-> 0] \in [0..m -> Nat] /\ Solves([k \in 0..0 |-> 0], m)
      BY <2>4
    <3>. QED
      BY <2>3, <3>1
  <2>5. CASE m # 0
    <3>1. m - 1 \in 0..n /\ ~ (m <= m - 1)
      BY <1>1, <2>3, <2>5
    <3>2. PICK v \in [0..(m - 1) -> Nat] : Solves(v, m - 1)
      <4>1. m - 1 \notin Missing
        BY <2>2, <3>1
      <4>. HIDE DEF Solves
      <4>. QED
        BY <3>1, <4>1
    <3>. DEFINE w == [k \in 0..m |-> IF k = m THEN 10 * v[m - 1] + DigitValue[digits[m]]
                                     ELSE v[k]]
    <3>3. m \in 1..n /\ v[m - 1] \in Nat /\ DigitValue[digits[m]] \in Nat
      BY <1>1, <2>3, <2>5
    <3>4. w \in [0..m -> Nat]
      BY <3>3
    <3>5. w[0] = 0 /\ w[m] = 10 * w[m - 1] + DigitValue[digits[m]]
      BY <3>2, <3>3
    <3>6. ASSUME NEW k \in 1..(m - 1) PROVE w[k] = 10 * w[k - 1] + DigitValue[digits[k]]
      <4>1. w[k] = v[k] /\ w[k - 1] = v[k - 1]
        BY <3>3
      <4>. QED
        BY <4>1, <3>2
    <3>7. \A k \in 1..m : k = m \/ k \in 1..(m - 1)
      BY <3>3
    <3>8. Solves(w, m)
      BY <3>4, <3>5, <3>6, <3>7
    <3>. QED
      BY <2>3, <3>4, <3>8
  <2>. QED
    BY <2>4, <2>5
<1>3. PICK g \in [0..n -> Nat] : Solves(g, n)
  <2>. HIDE DEF Solves
  <2>1. n \in 0..n
    BY <1>1
  <2>2. n \notin Missing
    <3>. HIDE DEF Missing
    <3>. QED
      BY <1>2
  <2>. QED
    BY <2>1, <2>2
<1>4. g = Next(g)
  <2>1. \A k \in 0..n : g[k] = Next(g)[k]
    BY <1>1, <1>3
  <2>. QED
    BY <2>1
<1>5. ASSUME NEW v, v = Next(v) PROVE Solves(v, n)
  <2>. DEFINE Wrong == {k \in 0..n : v[k] \notin Nat}
  <2>1. ASSUME Wrong # {} PROVE FALSE
    <3>1. Wrong \in SUBSET Nat
      BY <1>1
    <3>2. PICK k \in Wrong : \A j \in Wrong : k <= j
      <4>. HIDE DEF Wrong
      <4>. QED
        BY <2>1, <3>1, Least
    <3>3. k \in 0..n /\ v[k] = Next(v)[k] /\ v[k] \notin Nat
      BY <1>5
    <3>4. k # 0
      BY <3>3
    <3>5. k - 1 \in 0..n /\ k - 1 \notin Wrong /\ k \in 1..n
      BY <1>1, <3>2, <3>3, <3>4
    <3>6. v[k] = 10 * v[k - 1] + DigitValue[digits[k]] /\ v[k - 1] \in Nat
      BY <3>3, <3>4, <3>5
    <3>7. v[k] \in Nat
      <4>1. DigitValue[digits[k]] \in Nat
        BY <1>1, <3>5
      <4>. HIDE DEF Next, Solves, Missing, Wrong
      <4>. QED
        BY <3>6, <4>1
    <3>. QED
      BY <3>3, <3>7
  <2>2. \A k \in 0..n : v[k] \in Nat
    BY <2>1
  <2>3. v \in [0..n -> Nat]
    BY <1>5, <2>2
  <2>4. \A k \in 0..n : v[k] = Next(v)[k]
    BY <1>5
  <2>. QED
    BY <1>1, <2>3, <2>4
<1>6. ValueOf(digits) = CHOOSE v : v = Next(v)
  BY DEF ValueOf
<1>7. (CHOOSE v : v = Next(v)) = Next(CHOOSE v : v = Next(v))
  <2>. HIDE DEF Next, Solves
  <2>. QED
    BY <1>4, Zenon
<1>8. ValueOf(digits) = Next(ValueOf(digits))
  <2>. HIDE DEF Next
  <2>. QED
    BY <1>6, <1>7, Zenon
<1>. QED
  BY <1>5, <1>8

\* The digits stoll takes are digits.
LEMMA DigitsType ==
  ASSUME NEW T, NEW s \in Seq(T)
  PROVE  NumberIn(s).digits \in Seq(DOMAIN DigitValue)
<1>1. ASSUME NEW text \in Seq(T),
             NEW len, len = Cardinality({i \in 1..Len(text) :
                                           \A j \in 1..i : text[j] \in DOMAIN DigitValue})
      PROVE  SubSeq(text, 1, len) \in Seq(DOMAIN DigitValue)
  <2>. DEFINE D == {i \in 1..Len(text) : \A j \in 1..i : text[j] \in DOMAIN DigitValue}
  <2>1. D \in SUBSET (1..Len(text)) /\ Len(text) \in Nat
    OBVIOUS
  <2>2. IsFiniteSet(1..Len(text)) /\ Cardinality(1..Len(text)) = Len(text)
    BY <2>1, UpToN
  <2>3. len \in Nat /\ len <= Len(text)
    BY <1>1, <2>1, <2>2, FS_Subset, FS_CardinalityType
  <2>4. ASSUME NEW k \in 1..len PROVE text[k] \in DOMAIN DigitValue
    <3>. SUFFICES ASSUME k \notin D PROVE FALSE
      BY <2>3
    <3>1. \A i \in D : i < k
      BY <2>3
    <3>2. D \in SUBSET (1..(k - 1))
      BY <3>1
    <3>3. IsFiniteSet(1..(k - 1)) /\ Cardinality(1..(k - 1)) = k - 1
      <4>1. k - 1 \in Nat
        BY <2>3
      <4>. QED
        BY <4>1, UpToN
    <3>4. len <= k - 1
      BY <1>1, <3>2, <3>3, FS_Subset
    <3>. QED
      BY <2>3, <3>4
  <2>. QED
    BY <2>3, <2>4
<1>. DEFINE skip == {i \in 1..Len(s) : \A j \in 1..i : s[j] \in Spaces}
            rest == SubSeq(s, Cardinality(skip) + 1, Len(s))
            signed == rest # <<>> /\ Head(rest) \in {"-", "+"}
            text == IF signed THEN Tail(rest) ELSE rest
<1>2. Cardinality(skip) \in Nat /\ Len(s) \in Nat
  <2>1. IsFiniteSet(1..Len(s)) /\ skip \in SUBSET (1..Len(s))
    BY FS_Interval
  <2>. QED
    BY <2>1, FS_Subset, FS_CardinalityType
<1>3. rest \in Seq(T)
  <2>. HIDE DEF skip
  <2>. QED
    BY <1>2
<1>4. text \in Seq(T)
  <2>. HIDE DEF rest
  <2>. QED
    BY <1>3
<1>5. NumberIn(s).digits =
        SubSeq(text, 1, Cardinality({i \in 1..Len(text) :
                                       \A j \in 1..i : text[j] \in DOMAIN DigitValue}))
  BY DEF NumberIn
<1>. QED
  BY <1>1, <1>4, <1>5

\* stoll makes an integer of any string.
LEMMA StollType ==
  ASSUME DigitsWorth, NEW T, NEW s \in Seq(T)
  PROVE  Stoll(s) \in Int
<1>. DEFINE digits == NumberIn(s).digits
<1>1. digits \in Seq(DOMAIN DigitValue)
  BY DigitsType
<1>2. ValueOf(digits)[Len(digits)] \in Nat
  <2>. HIDE DEF digits
  <2>1. ValueOf(digits) \in [0..Len(digits) -> Nat] /\ Len(digits) \in 0..Len(digits)
    BY <1>1, ValueOfType
  <2>. QED
    BY <2>1
<1>. QED
  BY <1>2 DEF Stoll

\* What strto returns is in the range of the type, and is the number in the
\* string unless it throws.
THEOREM StrtoInRange ==
  ASSUME DigitsWorth, NEW T, NEW s \in Seq(T), NEW lo \in Int, NEW hi \in Int, lo <= hi
  PROVE  /\ Strto(s, lo, hi) \in lo..hi
         /\ StrtoThrows(s, lo, hi) = "none" => Strto(s, lo, hi) = Stoll(s)
<1>1. Stoll(s) \in Int
  BY StollType
<1>2. ASSUME NEW v \in Int
      PROVE  /\ lo + ((v - lo) % (hi - lo + 1)) \in lo..hi
             /\ v \in lo..hi => lo + ((v - lo) % (hi - lo + 1)) = v
  <2>. PICK d \in Int, w \in Nat \ {0} : d = v - lo /\ w = hi - lo + 1
    OBVIOUS
  <2>1. d % w \in 0..(w - 1)
    OBVIOUS
  <2>2. d \in 0..(w - 1) => d % w = d
    OBVIOUS
  <2>. QED
    BY <2>1, <2>2
<1>3. StrtoThrows(s, lo, hi) = "none" => Stoll(s) \in lo..hi
  BY <1>1 DEF StrtoThrows, OutOfRange
<1>. QED
  BY <1>1, <1>2, <1>3 DEF Strto

-------------------------------------------------------------------------------
(* Joining: what becomes of the parts of a string that grows.              *)

\* How many separators a string has.
Count(s, sep) == Cardinality(Occurrences(s, sep))

\* A string without a separator.
Plain(s, sep) == \A i \in DOMAIN s : s[i] # sep

\* The characters of a string after another.
Joins(c, a, b) == /\ Len(c) = Len(a) + Len(b)
                  /\ \A i \in 1..Len(a) : c[i] = a[i]
                  /\ \A i \in 1..Len(b) : c[Len(a) + i] = b[i]

\* Concatenation is that.
LEMMA ConcatJoins ==
  ASSUME NEW T, NEW a \in Seq(T), NEW b \in Seq(T)
  PROVE  a \o b \in Seq(T) /\ Joins(a \o b, a, b)
<1>1. PICK c : c = a \o b
  OBVIOUS
<1>2. /\ c \in Seq(T) /\ Len(c) = Len(a) + Len(b)
      /\ Len(a) \in Nat /\ Len(b) \in Nat
      /\ \A i \in 1..Len(a) : c[i] = a[i]
  BY <1>1
<1>3. ASSUME NEW i \in 1..Len(b) PROVE c[Len(a) + i] = b[i]
  <2>1. PICK k \in 1..(Len(a) + Len(b)) : k = Len(a) + i /\ ~ (k <= Len(a)) /\ k - Len(a) = i
    BY <1>2
  <2>2. c[k] = b[k - Len(a)]
    BY <1>1, <1>2, <2>1
  <2>. QED
    BY <2>1, <2>2
<1>. QED
  BY <1>1, <1>2, <1>3 DEF Joins

\* A string given character by character.
LEMMA Spelt ==
  ASSUME NEW a, NEW b, NEW c, NEW d, NEW e
  PROVE  /\ <<a>> \o <<b>> = <<a, b>>
         /\ <<a>> \o <<b>> \o <<c>> \o <<d>> \o <<e>> = <<a, b, c, d, e>>
<1>. PICK T : a \in T /\ b \in T /\ c \in T /\ d \in T /\ e \in T
  <2>1. /\ a \in {a, b, c, d, e} /\ b \in {a, b, c, d, e} /\ c \in {a, b, c, d, e}
        /\ d \in {a, b, c, d, e} /\ e \in {a, b, c, d, e}
    OBVIOUS
  <2>. QED
    BY <2>1
<1>1. PICK s1 : s1 = <<a>>
  OBVIOUS
<1>2. s1 \in Seq(T) /\ Len(s1) = 1 /\ s1[1] = a
  BY <1>1
<1>3. PICK s2 : s2 = s1 \o <<b>>
  OBVIOUS
<1>4. s2 \in Seq(T) /\ Len(s2) = 2 /\ s2[1] = a /\ s2[2] = b
  <2>1. <<b>> \in Seq(T)
    OBVIOUS
  <2>2. s2 \in Seq(T) /\ Joins(s2, s1, <<b>>)
    BY <1>2, <1>3, <2>1, ConcatJoins
  <2>. QED
    BY <1>2, <2>2 DEF Joins
<1>5. PICK s3 : s3 = s2 \o <<c>>
  OBVIOUS
<1>6. s3 \in Seq(T) /\ Len(s3) = 3 /\ s3[1] = a /\ s3[2] = b /\ s3[3] = c
  <2>1. <<c>> \in Seq(T)
    OBVIOUS
  <2>2. s3 \in Seq(T) /\ Joins(s3, s2, <<c>>)
    BY <1>4, <1>5, <2>1, ConcatJoins
  <2>. QED
    BY <1>4, <2>2 DEF Joins
<1>7. PICK s4 : s4 = s3 \o <<d>>
  OBVIOUS
<1>8. s4 \in Seq(T) /\ Len(s4) = 4 /\ s4[1] = a /\ s4[2] = b /\ s4[3] = c /\ s4[4] = d
  <2>1. <<d>> \in Seq(T)
    OBVIOUS
  <2>2. s4 \in Seq(T) /\ Joins(s4, s3, <<d>>)
    BY <1>6, <1>7, <2>1, ConcatJoins
  <2>. QED
    BY <1>6, <2>2 DEF Joins
<1>9. PICK s5 : s5 = s4 \o <<e>>
  OBVIOUS
<1>10. /\ s5 \in Seq(T) /\ Len(s5) = 5
       /\ s5[1] = a /\ s5[2] = b /\ s5[3] = c /\ s5[4] = d /\ s5[5] = e
  <2>1. <<e>> \in Seq(T)
    OBVIOUS
  <2>2. s5 \in Seq(T) /\ Joins(s5, s4, <<e>>)
    BY <1>8, <1>9, <2>1, ConcatJoins
  <2>. QED
    BY <1>8, <2>2 DEF Joins
<1>11. s2 = <<a, b>>
  <2>1. PICK z : z = <<a, b>>
    OBVIOUS
  <2>2. z \in Seq(T) /\ Len(z) = 2 /\ z[1] = a /\ z[2] = b
    BY <2>1
  <2>3. \A i \in 1..2 : s2[i] = z[i]
    BY <1>4, <2>2
  <2>4. s2 = z
    BY <1>4, <2>2, <2>3
  <2>. QED
    BY <2>1, <2>4
<1>12. s5 = <<a, b, c, d, e>>
  <2>1. PICK z : z = <<a, b, c, d, e>>
    OBVIOUS
  <2>2. z \in Seq(T) /\ Len(z) = 5 /\ z[1] = a /\ z[2] = b /\ z[3] = c /\ z[4] = d /\ z[5] = e
    BY <2>1
  <2>3. \A i \in 1..5 : s5[i] = z[i]
    BY <1>10, <2>2
  <2>4. s5 = z
    BY <1>10, <2>2, <2>3
  <2>. QED
    BY <2>1, <2>4
<1>. QED
  BY <1>1, <1>3, <1>5, <1>7, <1>9, <1>11, <1>12

\* Joining is associative.
LEMMA JoinAssoc ==
  ASSUME NEW T, NEW a \in Seq(T), NEW b \in Seq(T), NEW c \in Seq(T)
  PROVE  (a \o b) \o c = a \o (b \o c)
OBVIOUS

\* Nothing joined to a string leaves it.
LEMMA JoinEmpty ==
  ASSUME NEW T, NEW a \in Seq(T)
  PROVE  a \o <<>> = a
OBVIOUS

\* The first character and the others are the string.
LEMMA HeadTail ==
  ASSUME NEW T, NEW a \in Seq(T), Len(a) >= 2
  PROVE  /\ Len(a) # 0 /\ <<a[1]>> \in Seq(T) /\ Tail(a) \in Seq(T) /\ <<a[1]>> \o Tail(a) = a
         /\ \A sep : Plain(a, sep) => Plain(Tail(a), sep)
<1>1. PICK t : t = Tail(a)
  OBVIOUS
<1>2. /\ t \in Seq(T) /\ Len(a) \in Nat /\ Len(t) = Len(a) - 1
      /\ \A i \in 1..Len(t) : t[i] = a[i + 1] /\ i + 1 \in 1..Len(a)
  BY <1>1
<1>3. PICK h : h = <<a[1]>>
  OBVIOUS
<1>4. h \in Seq(T) /\ Len(h) = 1 /\ h[1] = a[1]
  BY <1>3
<1>5. PICK u : u = h \o t
  OBVIOUS
<1>6. u \in Seq(T) /\ Joins(u, h, t)
  BY <1>2, <1>4, <1>5, ConcatJoins
<1>7. Len(u) = Len(a) /\ u[1] = a[1] /\ \A i \in 1..Len(t) : u[1 + i] = a[i + 1]
  BY <1>2, <1>4, <1>6 DEF Joins
<1>8. ASSUME NEW i \in 1..Len(a) PROVE u[i] = a[i]
  <2>1. CASE i = 1
    BY <1>7, <2>1
  <2>2. CASE i # 1
    <3>1. i - 1 \in 1..Len(t) /\ 1 + (i - 1) = i /\ (i - 1) + 1 = i
      BY <1>2, <2>2
    <3>2. u[1 + (i - 1)] = a[(i - 1) + 1]
      BY <1>7, <3>1
    <3>. QED
      BY <3>1, <3>2
  <2>. QED
    BY <2>1, <2>2
<1>9. u = a
  BY <1>6, <1>7, <1>8
<1>10. ASSUME NEW sep, Plain(a, sep) PROVE Plain(t, sep)
  BY <1>2, <1>10 DEF Plain
<1>. QED
  BY <1>1, <1>2, <1>3, <1>4, <1>5, <1>9, <1>10

\* Strings without a separator joined have none.
LEMMA PlainJoint ==
  ASSUME NEW T, NEW a \in Seq(T), NEW b \in Seq(T), NEW sep, Plain(a, sep), Plain(b, sep)
  PROVE  a \o b \in Seq(T) /\ Plain(a \o b, sep)
<1>1. PICK c : c = a \o b
  OBVIOUS
<1>2. /\ c \in Seq(T) /\ Len(c) = Len(a) + Len(b) /\ Len(a) \in Nat /\ Len(b) \in Nat
      /\ \A i \in 1..Len(a) : c[i] = a[i]
      /\ \A i \in 1..Len(b) : c[Len(a) + i] = b[i]
  <2>1. a \o b \in Seq(T) /\ Joins(a \o b, a, b)
    BY ConcatJoins
  <2>. QED
    BY <1>1, <2>1 DEF Joins
<1>3. ASSUME NEW i \in 1..Len(c) PROVE c[i] # sep
  <2>1. CASE i <= Len(a)
    BY <1>2, <2>1 DEF Plain
  <2>2. CASE ~ (i <= Len(a))
    <3>1. PICK k \in 1..Len(b) : Len(a) + k = i
      <4>1. i - Len(a) \in 1..Len(b) /\ Len(a) + (i - Len(a)) = i
        BY <1>2, <2>2
      <4>. QED
        BY <4>1
    <3>. QED
      BY <1>2, <3>1 DEF Plain
  <2>. QED
    BY <2>1, <2>2
<1>. QED
  BY <1>1, <1>2, <1>3 DEF Plain

\* What s has between two separators stays when s grows.
LEMMA PartsStay ==
  ASSUME NEW T, NEW s \in Seq(T), NEW t \in Seq(T), NEW sep,
         Len(s) <= Len(t), \A i \in 1..Len(s) : t[i] = s[i]
  PROVE  /\ Occurrences(s, sep) \in SUBSET Occurrences(t, sep)
         /\ Count(s, sep) \in Nat /\ Count(t, sep) \in Nat
         /\ Count(s, sep) <= Count(t, sep)
         /\ \A k \in 1..Count(s, sep) :
              /\ Nth(Occurrences(t, sep), k) = Nth(Occurrences(s, sep), k)
              /\ Part(t, sep, k) = Part(s, sep, k)
<1>. DEFINE P == Occurrences(s, sep)
            Q == Occurrences(t, sep)
<1>1. /\ Len(s) \in Nat /\ Len(t) \in Nat
      /\ P \in SUBSET (1..Len(s)) /\ P \in SUBSET Nat /\ IsFiniteSet(P) /\ Cardinality(P) \in Nat
      /\ Q \in SUBSET (1..Len(t)) /\ Q \in SUBSET Nat /\ IsFiniteSet(Q) /\ Cardinality(Q) \in Nat
  BY OccurrencesType
<1>2. \A i \in 1..Len(s) : i \in P <=> i \in Q
  BY <1>1 DEF Occurrences
<1>3. P \in SUBSET Q
  BY <1>1, <1>2
<1>. HIDE DEF P, Q
<1>4. Cardinality(P) <= Cardinality(Q)
  BY <1>1, <1>3, FS_Subset
<1>5. ASSUME NEW k \in 1..Cardinality(P) PROVE Nth(Q, k) = Nth(P, k)
  <2>1. PICK i : i = Nth(P, k)
    OBVIOUS
  <2>2. i \in P /\ Cardinality(UpTo(P, i)) = k
    BY <1>1, <2>1, NthExists
  <2>3. \A j : j \in UpTo(P, i) <=> j \in UpTo(Q, i)
    <3>1. i \in 1..Len(s)
      BY <1>1, <2>2
    <3>2. ASSUME NEW j \in Q, j <= i PROVE j \in P
      <4>1. j \in 1..Len(s)
        BY <1>1, <3>1, <3>2
      <4>. QED
        BY <1>2, <4>1
    <3>. QED
      BY <1>3, <3>2, UpToMember
  <2>4. UpTo(P, i) = UpTo(Q, i)
    BY <2>3
  <2>5. Nth(Q, Cardinality(UpTo(Q, i))) = i
    BY <1>1, <1>3, <2>2, NthIs
  <2>. QED
    BY <2>1, <2>2, <2>4, <2>5
<1>6. ASSUME NEW k \in 1..Cardinality(P) PROVE Part(t, sep, k) = Part(s, sep, k)
  <2>1. PICK a, b : a = (IF k = 1 THEN 1 ELSE Nth(P, k - 1) + 1) /\ b = Nth(P, k) - 1
    OBVIOUS
  <2>2. ~ (k > Cardinality(P)) /\ ~ (k > Cardinality(Q))
    BY <1>1, <1>4
  <2>3. k # 1 => k - 1 \in 1..Cardinality(P)
    BY <1>1
  <2>4. Part(s, sep, k) = SubSeq(s, a, b)
    BY <2>1, <2>2, Zenon DEF Part, P
  <2>5. Part(t, sep, k) = SubSeq(t, a, b)
    <3>1. Nth(Q, k) = Nth(P, k) /\ (k # 1 => Nth(Q, k - 1) = Nth(P, k - 1))
      BY <1>5, <2>3
    <3>2. Part(t, sep, k) = SubSeq(t, IF k = 1 THEN 1 ELSE Nth(Q, k - 1) + 1, Nth(Q, k) - 1)
      BY <2>2, Zenon DEF Part, Q
    <3>3. (IF k = 1 THEN 1 ELSE Nth(Q, k - 1) + 1) = a
      BY <2>1, <3>1
    <3>. QED
      BY <2>1, <3>1, <3>2, <3>3, Zenon
  <2>6. a \in Nat \ {0} /\ b \in Int /\ b <= Len(s)
    <3>1. Nth(P, k) \in 1..Len(s)
      BY <1>1, NthExists
    <3>2. k # 1 => Nth(P, k - 1) \in 1..Len(s)
      BY <1>1, <2>3, NthExists
    <3>. QED
      BY <2>1, <3>1, <3>2
  <2>7. SubSeq(t, a, b) = SubSeq(s, a, b)
    BY <1>1, <2>6
  <2>. QED
    BY <2>4, <2>5, <2>7
<1>. QED
  BY <1>1, <1>3, <1>4, <1>5, <1>6 DEF P, Q, Count

\* The part after the last separator, which grows with s.
LEMMA LastPart ==
  ASSUME NEW T, NEW s \in Seq(T), NEW sep
  PROVE  /\ Count(s, sep) \in Nat
         /\ Part(s, sep, Count(s, sep) + 1) =
              SubSeq(s, IF Count(s, sep) = 0 THEN 1
                        ELSE Nth(Occurrences(s, sep), Count(s, sep)) + 1, Len(s))
         /\ Count(s, sep) # 0 => Nth(Occurrences(s, sep), Count(s, sep)) \in 1..Len(s)
<1>. DEFINE P == Occurrences(s, sep)
            n == Cardinality(P)
<1>1. P \in SUBSET (1..Len(s)) /\ P \in SUBSET Nat /\ IsFiniteSet(P) /\ n \in Nat
  BY OccurrencesType
<1>2. n + 1 > Cardinality(P) /\ (n + 1 = 1 <=> n = 0) /\ (n + 1) - 1 = n
  BY <1>1
<1>3. Part(s, sep, n + 1) = SubSeq(s, IF n = 0 THEN 1 ELSE Nth(P, n) + 1, Len(s))
  BY <1>2 DEF Part
<1>4. n # 0 => Nth(P, n) \in P
  <2>1. n # 0 => n \in 1..Cardinality(P)
    BY <1>1
  <2>. QED
    BY <1>1, <2>1, NthExists
<1>. QED
  BY <1>1, <1>3, <1>4 DEF Count

\* A string without a separator adds no separator.
LEMMA CountStays ==
  ASSUME NEW T, NEW s \in Seq(T), NEW d \in Seq(T), NEW sep, Plain(d, sep),
         NEW u \in Seq(T), Joins(u, s, d)
  PROVE  Occurrences(u, sep) = Occurrences(s, sep) /\ Count(u, sep) = Count(s, sep)
<1>1. /\ Len(u) = Len(s) + Len(d) /\ Len(s) \in Nat /\ Len(d) \in Nat
      /\ \A i \in 1..Len(s) : u[i] = s[i]
      /\ \A i \in 1..Len(d) : u[Len(s) + i] = d[i]
  BY DEF Joins
<1>2. \A i : i \in Occurrences(s, sep) <=> i \in Occurrences(u, sep)
  <2>1. \A i \in 1..Len(s) : i \in Occurrences(s, sep) <=> i \in Occurrences(u, sep)
    BY <1>1 DEF Occurrences
  <2>2. ASSUME NEW i \in Occurrences(u, sep) PROVE i \in 1..Len(s)
    <3>. SUFFICES ASSUME i \notin 1..Len(s) PROVE FALSE
      OBVIOUS
    <3>1. i \in 1..Len(u) /\ u[i] = sep
      BY <1>1 DEF Occurrences
    <3>2. PICK k \in 1..Len(d) : Len(s) + k = i
      <4>1. i - Len(s) \in 1..Len(d) /\ Len(s) + (i - Len(s)) = i
        BY <1>1, <3>1
      <4>. QED
        BY <4>1
    <3>3. d[k] # sep
      BY <1>1, <3>2 DEF Plain
    <3>. QED
      BY <1>1, <3>1, <3>2, <3>3
  <2>3. \A i \in Occurrences(s, sep) : i \in 1..Len(s)
    BY <1>1 DEF Occurrences
  <2>. QED
    BY <2>1, <2>2, <2>3
<1>3. Occurrences(u, sep) = Occurrences(s, sep)
  BY <1>2
<1>. QED
  BY <1>3 DEF Count

\* A string without a separator goes to the last part.
LEMMA PartGrows ==
  ASSUME NEW T, NEW s \in Seq(T), NEW d \in Seq(T), NEW sep, Plain(d, sep),
         Part(s, sep, Count(s, sep) + 1) = <<>>,
         NEW u \in Seq(T), Joins(u, s, d)
  PROVE  /\ Count(s, sep) \in Nat
         /\ Count(u, sep) = Count(s, sep)
         /\ \A k \in 1..Count(s, sep) : Part(u, sep, k) = Part(s, sep, k)
         /\ Part(u, sep, Count(s, sep) + 1) = d
<1>. DEFINE n == Count(s, sep)
<1>1. /\ Len(u) = Len(s) + Len(d) /\ Len(s) \in Nat /\ Len(d) \in Nat
      /\ \A i \in 1..Len(s) : u[i] = s[i]
      /\ \A i \in 1..Len(d) : u[Len(s) + i] = d[i]
  BY DEF Joins
<1>3. Occurrences(u, sep) = Occurrences(s, sep)
  BY CountStays
<1>4. \A k \in 1..n : Part(u, sep, k) = Part(s, sep, k)
  <2>1. Len(s) <= Len(u)
    BY <1>1
  <2>2. \A k \in 1..Count(s, sep) : Part(u, sep, k) = Part(s, sep, k)
    BY <1>1, <2>1, PartsStay
  <2>. QED
    BY <2>2
<1>. HIDE DEF n
<1>5. PICK a : a = (IF n = 0 THEN 1 ELSE Nth(Occurrences(s, sep), n) + 1)
  OBVIOUS
<1>6. /\ n \in Nat /\ Part(s, sep, n + 1) = SubSeq(s, a, Len(s))
      /\ a \in 1..(Len(s) + 1)
  <2>1. /\ n \in Nat
        /\ Part(s, sep, n + 1) =
              SubSeq(s, IF n = 0 THEN 1 ELSE Nth(Occurrences(s, sep), n) + 1, Len(s))
        /\ n # 0 => Nth(Occurrences(s, sep), n) \in 1..Len(s)
    BY LastPart DEF n
  <2>. QED
    BY <1>1, <1>5, <2>1
<1>7. a = Len(s) + 1
  <2>1. Len(SubSeq(s, a, Len(s))) = 0
    BY <1>6 DEF n
  <2>2. a <= Len(s) => Len(SubSeq(s, a, Len(s))) = Len(s) - a + 1
    BY <1>1, <1>6
  <2>. QED
    BY <1>1, <1>6, <2>1, <2>2
<1>8. Part(u, sep, n + 1) = SubSeq(u, a, Len(u))
  <2>1. Count(u, sep) = n
    BY <1>3 DEF Count, n
  <2>2. Part(u, sep, Count(u, sep) + 1) =
          SubSeq(u, IF Count(u, sep) = 0 THEN 1
                    ELSE Nth(Occurrences(u, sep), Count(u, sep)) + 1, Len(u))
    BY <1>1, LastPart
  <2>. QED
    BY <1>3, <1>5, <2>1, <2>2
<1>9. SubSeq(u, Len(s) + 1, Len(u)) = d
  <2>1. PICK w : w = SubSeq(u, Len(s) + 1, Len(u))
    OBVIOUS
  <2>2. /\ w \in Seq(T) /\ Len(w) = Len(d)
        /\ \A i \in 1..Len(d) : w[i] = u[Len(s) + i]
    BY <1>1, <2>1
  <2>3. \A i \in 1..Len(d) : w[i] = d[i]
    BY <1>1, <2>2
  <2>4. w = d
    BY <2>2, <2>3
  <2>. QED
    BY <2>1, <2>4
<1>. QED
  BY <1>1, <1>3, <1>4, <1>6, <1>7, <1>8, <1>9 DEF n, Count

\* A separator ends the last part.
LEMMA PartEnds ==
  ASSUME NEW T, NEW s \in Seq(T), NEW sep \in T, NEW t \in Seq(T), Joins(t, s, <<sep>>)
  PROVE  /\ Count(s, sep) \in Nat
         /\ Count(t, sep) = Count(s, sep) + 1
         /\ \A k \in 1..(Count(s, sep) + 1) : Part(t, sep, k) = Part(s, sep, k)
         /\ Part(t, sep, Count(s, sep) + 2) = <<>>
<1>. DEFINE n == Count(s, sep)
            P == Occurrences(s, sep)
            Q == Occurrences(t, sep)
<1>1. /\ Len(s) \in Nat /\ Len(t) = Len(s) + 1
      /\ \A i \in 1..Len(s) : t[i] = s[i]
      /\ t[Len(s) + 1] = sep
  BY DEF Joins
<1>2. /\ P \in SUBSET (1..Len(s)) /\ P \in SUBSET Nat /\ IsFiniteSet(P) /\ n \in Nat
      /\ Q \in SUBSET (1..Len(t)) /\ Q \in SUBSET Nat /\ IsFiniteSet(Q)
  BY <1>1, OccurrencesType DEF Count
<1>3. Q = P \cup {Len(s) + 1} /\ Len(s) + 1 \notin P
  <2>1. \A i : i \in Q <=> i \in 1..(Len(s) + 1) /\ t[i] = sep
    BY <1>1 DEF Occurrences
  <2>2. \A i : i \in P <=> i \in 1..Len(s) /\ s[i] = sep
    BY <1>1 DEF Occurrences
  <2>3. \A i : i \in 1..(Len(s) + 1) <=> i \in 1..Len(s) \/ i = Len(s) + 1
    BY <1>1
  <2>. HIDE DEF P, Q
  <2>4. \A i : i \in Q <=> i \in P \/ i = Len(s) + 1
    BY <1>1, <2>1, <2>2, <2>3
  <2>5. Len(s) + 1 \notin P
    BY <1>1, <2>2
  <2>. QED
    BY <2>4, <2>5
<1>. HIDE DEF P, Q, n
<1>4. Cardinality(Q) = n + 1
  BY <1>2, <1>3, FS_AddElement DEF P, n, Count
<1>5. Nth(Q, n + 1) = Len(s) + 1
  <2>1. \A j : j \in UpTo(Q, Len(s) + 1) <=> j \in Q
    <3>1. \A j \in Q : j <= Len(s) + 1
      BY <1>1, <1>2
    <3>. QED
      BY <3>1, UpToMember, Zenon
  <2>2. UpTo(Q, Len(s) + 1) = Q
    BY <2>1
  <2>3. Nth(Q, Cardinality(UpTo(Q, Len(s) + 1))) = Len(s) + 1
    BY <1>2, <1>3, NthIs
  <2>. QED
    BY <1>4, <2>2, <2>3
<1>6. Len(s) <= Len(t)
  BY <1>1
<1>7. \A k \in 1..n : Nth(Q, k) = Nth(P, k) /\ Part(t, sep, k) = Part(s, sep, k)
  <2>1. \A k \in 1..Count(s, sep) :
          /\ Nth(Occurrences(t, sep), k) = Nth(Occurrences(s, sep), k)
          /\ Part(t, sep, k) = Part(s, sep, k)
    BY <1>1, <1>6, PartsStay
  <2>. QED
    BY <2>1 DEF P, Q, n
<1>8. Part(t, sep, n + 1) = Part(s, sep, n + 1)
  <2>1. PICK a : a = (IF n = 0 THEN 1 ELSE Nth(P, n) + 1)
    OBVIOUS
  <2>2. /\ Part(s, sep, n + 1) = SubSeq(s, a, Len(s))
        /\ a \in 1..(Len(s) + 1)
    <3>1. /\ Part(s, sep, n + 1) = SubSeq(s, IF n = 0 THEN 1 ELSE Nth(P, n) + 1, Len(s))
          /\ n # 0 => Nth(P, n) \in 1..Len(s)
      BY LastPart DEF P, n
    <3>. QED
      BY <1>1, <1>2, <2>1, <3>1
  <2>3. Part(t, sep, n + 1) = SubSeq(t, a, Len(s))
    <3>1. ~ (n + 1 > Cardinality(Q)) /\ (n + 1 = 1 <=> n = 0) /\ (n + 1) - 1 = n
      BY <1>2, <1>4
    <3>2. n # 0 => Nth(Q, n) = Nth(P, n)
      BY <1>2, <1>7
    <3>3. Part(t, sep, n + 1) =
            SubSeq(t, IF n = 0 THEN 1 ELSE Nth(Q, n) + 1, Nth(Q, n + 1) - 1)
      BY <3>1 DEF Part, Q
    <3>4. Nth(Q, n + 1) - 1 = Len(s)
      BY <1>1, <1>5
    <3>5. (IF n = 0 THEN 1 ELSE Nth(Q, n) + 1) = a
      BY <2>1, <3>2
    <3>. QED
      BY <3>3, <3>4, <3>5
  <2>4. SubSeq(t, a, Len(s)) = SubSeq(s, a, Len(s))
    BY <1>1, <2>2
  <2>. QED
    BY <2>2, <2>3, <2>4
<1>9. Part(t, sep, n + 2) = <<>>
  <2>1. /\ (n + 1) + 1 = n + 2 /\ n + 1 # 0
        /\ n + 1 = Count(t, sep)
    BY <1>2, <1>4 DEF Q, Count
  <2>2. Part(t, sep, (n + 1) + 1) = SubSeq(t, Nth(Q, n + 1) + 1, Len(t))
    BY <1>1, <2>1, LastPart DEF Q
  <2>3. SubSeq(t, (Len(s) + 1) + 1, Len(s) + 1) = <<>>
    BY <1>1
  <2>. QED
    BY <1>1, <1>5, <2>1, <2>2, <2>3
<1>10. \A k \in 1..(n + 1) : k \in 1..n \/ k = n + 1
  BY <1>2
<1>. QED
  BY <1>1, <1>2, <1>4, <1>7, <1>8, <1>9, <1>10 DEF Q, n, Count

\* So a string without a separator and a separator are one more part.
LEMMA PartAdded ==
  ASSUME NEW T, NEW s \in Seq(T), NEW d \in Seq(T), NEW sep \in T, Plain(d, sep),
         Part(s, sep, Count(s, sep) + 1) = <<>>,
         NEW u \in Seq(T), Joins(u, s, d), NEW t \in Seq(T), Joins(t, u, <<sep>>)
  PROVE  /\ Count(s, sep) \in Nat
         /\ Count(t, sep) = Count(s, sep) + 1
         /\ \A k \in 1..Count(s, sep) : Part(t, sep, k) = Part(s, sep, k)
         /\ Part(t, sep, Count(s, sep) + 1) = d
         /\ Part(t, sep, Count(s, sep) + 2) = <<>>
<1>1. /\ Count(s, sep) \in Nat
      /\ Count(u, sep) = Count(s, sep)
      /\ \A k \in 1..Count(s, sep) : Part(u, sep, k) = Part(s, sep, k)
      /\ Part(u, sep, Count(s, sep) + 1) = d
  BY PartGrows
<1>2. /\ Count(t, sep) = Count(u, sep) + 1
      /\ \A k \in 1..(Count(u, sep) + 1) : Part(t, sep, k) = Part(u, sep, k)
      /\ Part(t, sep, Count(u, sep) + 2) = <<>>
  BY PartEnds
<1>. DEFINE n == Count(s, sep)
<1>3. \A k \in 1..n : k \in 1..(n + 1)
  BY <1>1
<1>4. n + 1 \in 1..(n + 1)
  BY <1>1
<1>. QED
  BY <1>1, <1>2, <1>3, <1>4

\* A string without a separator is all of its only part.
LEMMA PlainPart ==
  ASSUME NEW T, NEW s \in Seq(T), NEW sep, Plain(s, sep)
  PROVE  Count(s, sep) = 0 /\ Part(s, sep, 1) = s
<1>1. Occurrences(s, sep) = {} /\ Len(s) \in Nat
  BY DEF Occurrences, Plain
<1>2. Count(s, sep) = 0
  BY <1>1, FS_EmptySet DEF Count
<1>3. 1 > 0 /\ SubSeq(s, 1, Len(s)) = s
  OBVIOUS
<1>. QED
  BY <1>2, <1>3 DEF Part, Count

\* A part of a string has no separator, and no other character the string does
\* not have.
LEMMA PartPlain ==
  ASSUME NEW T, NEW s \in Seq(T), NEW sep, NEW n \in 1..(Count(s, sep) + 1)
  PROVE  /\ Part(s, sep, n) \in Seq(T) /\ Plain(Part(s, sep, n), sep)
         /\ \A other : Plain(s, other) => Plain(Part(s, sep, n), other)
<1>. DEFINE P == Occurrences(s, sep)
<1>1. /\ P \in SUBSET (1..Len(s)) /\ P \in SUBSET Nat /\ IsFiniteSet(P)
      /\ Count(s, sep) = Cardinality(P) /\ Cardinality(P) \in Nat /\ Len(s) \in Nat
  BY OccurrencesType DEF Count
<1>. HIDE DEF P
<1>2. PICK a, b : /\ a = (IF n = 1 THEN 1 ELSE Nth(P, n - 1) + 1)
                  /\ b = IF n > Cardinality(P) THEN Len(s) ELSE Nth(P, n) - 1
  OBVIOUS
<1>3. Part(s, sep, n) = SubSeq(s, a, b)
  BY <1>2, Zenon DEF Part, P
<1>4. n # 1 => n - 1 \in 1..Cardinality(P)
  BY <1>1
<1>5. ~ (n > Cardinality(P)) => n \in 1..Cardinality(P)
  BY <1>1
<1>6. a \in 1..(Len(s) + 1) /\ b \in 0..Len(s)
  <2>1. n # 1 => Nth(P, n - 1) \in 1..Len(s)
    BY <1>1, <1>4, NthExists
  <2>2. ~ (n > Cardinality(P)) => Nth(P, n) \in 1..Len(s)
    BY <1>1, <1>5, NthExists
  <2>. QED
    BY <1>1, <1>2, <2>1, <2>2
<1>7. PICK w : w = SubSeq(s, a, b)
  OBVIOUS
<1>8. /\ w \in Seq(T)
      /\ \A i \in 1..Len(w) : w[i] = s[a + i - 1] /\ a + i - 1 \in a..b
  BY <1>1, <1>6, <1>7
<1>9. ASSUME NEW j \in P, j \in a..b PROVE FALSE
  <2>1. PICK l \in 1..Cardinality(P) : j = Nth(P, l)
    BY <1>1, NthOrder
  <2>2. n # 1 => l > n - 1
    <3>. SUFFICES ASSUME n # 1, ~ (l > n - 1) PROVE FALSE
      OBVIOUS
    <3>1. Nth(P, l) <= Nth(P, n - 1)
      <4>1. l = n - 1 \/ l < n - 1
        BY <1>1, <2>1
      <4>2. Nth(P, n - 1) \in Nat
        BY <1>1, <1>4, NthExists
      <4>3. l < n - 1 => Nth(P, l) < Nth(P, n - 1)
        BY <1>1, <1>4, NthOrder
      <4>4. Nth(P, l) \in Nat
        BY <1>1, <2>1
      <4>. QED
        BY <4>1, <4>2, <4>3, <4>4
    <3>2. a = Nth(P, n - 1) + 1 /\ Nth(P, n - 1) \in Nat
      BY <1>1, <1>2, <1>4, NthExists
    <3>. QED
      BY <1>9, <2>1, <3>1, <3>2
  <2>3. ~ (n > Cardinality(P)) => l < n
    <3>. SUFFICES ASSUME ~ (n > Cardinality(P)), ~ (l < n) PROVE FALSE
      OBVIOUS
    <3>1. Nth(P, n) \in Nat /\ b = Nth(P, n) - 1 /\ Nth(P, l) \in Nat
      BY <1>1, <1>2, <1>5, <2>1, NthExists
    <3>2. n < l => Nth(P, n) < Nth(P, l)
      BY <1>1, <1>5, NthOrder
    <3>3. n = l \/ n < l
      BY <1>1, <2>1
    <3>. QED
      BY <1>9, <2>1, <3>1, <3>2, <3>3
  <2>. QED
    BY <1>1, <2>1, <2>2, <2>3
<1>10. ASSUME NEW i \in 1..Len(w) PROVE w[i] # sep
  <2>1. w[i] = s[a + i - 1] /\ a + i - 1 \in a..b /\ a + i - 1 \in 1..Len(s)
    BY <1>6, <1>8
  <2>2. a + i - 1 \notin P
    BY <1>9, <2>1
  <2>. QED
    BY <2>1, <2>2 DEF P, Occurrences
<1>11. ASSUME NEW other, Plain(s, other), NEW i \in 1..Len(w) PROVE w[i] # other
  <2>1. w[i] = s[a + i - 1] /\ a + i - 1 \in 1..Len(s)
    BY <1>6, <1>8
  <2>2. \A j \in 1..Len(s) : s[j] # other
    BY <1>11 DEF Plain
  <2>. QED
    BY <2>1, <2>2
<1>12. DOMAIN w = 1..Len(w)
  BY <1>8
<1>. QED
  BY <1>3, <1>7, <1>8, <1>10, <1>11, <1>12 DEF Plain

\* Four strings with separators between them.
Four(sep, a, b, c, d) == a \o <<sep>> \o b \o <<sep>> \o c \o <<sep>> \o d

\* They are its parts, and other separators do not matter.
LEMMA FourParts ==
  ASSUME NEW T, NEW a \in Seq(T), NEW b \in Seq(T), NEW c \in Seq(T), NEW d \in Seq(T),
         NEW sep \in T, Plain(a, sep), Plain(b, sep), Plain(c, sep), Plain(d, sep)
  PROVE  /\ Four(sep, a, b, c, d) \in Seq(T)
         /\ Count(Four(sep, a, b, c, d), sep) = 3
         /\ Part(Four(sep, a, b, c, d), sep, 1) = a
         /\ Part(Four(sep, a, b, c, d), sep, 2) = b
         /\ Part(Four(sep, a, b, c, d), sep, 3) = c
         /\ Part(Four(sep, a, b, c, d), sep, 4) = d
<1>. DEFINE a1 == a \o <<sep>>
            b0 == a1 \o b
            b1 == b0 \o <<sep>>
            c0 == b1 \o c
            c1 == c0 \o <<sep>>
            d0 == c1 \o d
<1>1. Four(sep, a, b, c, d) = d0
  BY DEF Four
<1>2. <<sep>> \in Seq(T)
  OBVIOUS
<1>3. a1 \in Seq(T) /\ Joins(a1, a, <<sep>>)
  BY <1>2, ConcatJoins
<1>. HIDE DEF a1
<1>4. b0 \in Seq(T) /\ Joins(b0, a1, b)
  BY <1>3, ConcatJoins
<1>. HIDE DEF b0
<1>5. b1 \in Seq(T) /\ Joins(b1, b0, <<sep>>)
  BY <1>2, <1>4, ConcatJoins
<1>. HIDE DEF b1
<1>6. c0 \in Seq(T) /\ Joins(c0, b1, c)
  BY <1>5, ConcatJoins
<1>. HIDE DEF c0
<1>7. c1 \in Seq(T) /\ Joins(c1, c0, <<sep>>)
  BY <1>2, <1>6, ConcatJoins
<1>. HIDE DEF c1
<1>8. d0 \in Seq(T) /\ Joins(d0, c1, d)
  BY <1>7, ConcatJoins
<1>. HIDE DEF d0
<1>9. Count(a, sep) = 0 /\ Part(a, sep, 1) = a
  BY PlainPart
<1>10. Count(a1, sep) = 1 /\ Part(a1, sep, 1) = a /\ Part(a1, sep, 2) = <<>>
  <2>1. /\ Count(a1, sep) = Count(a, sep) + 1
        /\ \A k \in 1..(Count(a, sep) + 1) : Part(a1, sep, k) = Part(a, sep, k)
        /\ Part(a1, sep, Count(a, sep) + 2) = <<>>
    BY <1>3, PartEnds
  <2>. QED
    BY <1>9, <2>1
<1>11. /\ Count(b1, sep) = 2 /\ Part(b1, sep, 1) = a /\ Part(b1, sep, 2) = b
       /\ Part(b1, sep, 3) = <<>>
  <2>1. Part(a1, sep, Count(a1, sep) + 1) = <<>>
    BY <1>10
  <2>2. /\ Count(b1, sep) = Count(a1, sep) + 1
        /\ \A k \in 1..Count(a1, sep) : Part(b1, sep, k) = Part(a1, sep, k)
        /\ Part(b1, sep, Count(a1, sep) + 1) = b
        /\ Part(b1, sep, Count(a1, sep) + 2) = <<>>
    BY <1>3, <1>4, <1>5, <2>1, PartAdded
  <2>. QED
    BY <1>10, <2>2
<1>12. /\ Count(c1, sep) = 3 /\ Part(c1, sep, 1) = a /\ Part(c1, sep, 2) = b
       /\ Part(c1, sep, 3) = c /\ Part(c1, sep, 4) = <<>>
  <2>1. Part(b1, sep, Count(b1, sep) + 1) = <<>>
    BY <1>11
  <2>2. /\ Count(c1, sep) = Count(b1, sep) + 1
        /\ \A k \in 1..Count(b1, sep) : Part(c1, sep, k) = Part(b1, sep, k)
        /\ Part(c1, sep, Count(b1, sep) + 1) = c
        /\ Part(c1, sep, Count(b1, sep) + 2) = <<>>
    BY <1>5, <1>6, <1>7, <2>1, PartAdded
  <2>. QED
    BY <1>11, <2>2
<1>13. /\ Count(d0, sep) = 3 /\ Part(d0, sep, 1) = a /\ Part(d0, sep, 2) = b
       /\ Part(d0, sep, 3) = c /\ Part(d0, sep, 4) = d
  <2>1. Part(c1, sep, Count(c1, sep) + 1) = <<>>
    BY <1>12
  <2>2. /\ Count(d0, sep) = Count(c1, sep)
        /\ \A k \in 1..Count(c1, sep) : Part(d0, sep, k) = Part(c1, sep, k)
        /\ Part(d0, sep, Count(c1, sep) + 1) = d
    BY <1>7, <1>8, <2>1, PartGrows
  <2>. QED
    BY <1>12, <2>2
<1>. QED
  BY <1>1, <1>8, <1>13

\* None of another separator comes in with sep.
LEMMA FourPlain ==
  ASSUME NEW T, NEW a \in Seq(T), NEW b \in Seq(T), NEW c \in Seq(T), NEW d \in Seq(T),
         NEW sep \in T, NEW other, other # sep,
         Plain(a, other), Plain(b, other), Plain(c, other), Plain(d, other)
  PROVE  /\ Four(sep, a, b, c, d) \in Seq(T) /\ Plain(Four(sep, a, b, c, d), other)
         /\ Len(Four(sep, a, b, c, d)) >= 3
<1>1. <<sep>> \in Seq(T) /\ Plain(<<sep>>, other)
  BY DEF Plain
<1>. DEFINE ab == a \o <<sep>> \o b
            abc == ab \o <<sep>> \o c
<1>2. ab \in Seq(T) /\ Plain(ab, other)
  <2>1. a \o <<sep>> \in Seq(T) /\ Plain(a \o <<sep>>, other)
    BY <1>1, PlainJoint
  <2>. QED
    BY <2>1, PlainJoint
<1>3. abc \in Seq(T) /\ Plain(abc, other)
  <2>. HIDE DEF ab
  <2>1. ab \o <<sep>> \in Seq(T) /\ Plain(ab \o <<sep>>, other)
    BY <1>1, <1>2, PlainJoint
  <2>. QED
    BY <2>1, PlainJoint
<1>4. Four(sep, a, b, c, d) = abc \o <<sep>> \o d
  BY DEF Four
<1>5. abc \o <<sep>> \o d \in Seq(T) /\ Plain(abc \o <<sep>> \o d, other)
  <2>. HIDE DEF abc
  <2>1. abc \o <<sep>> \in Seq(T) /\ Plain(abc \o <<sep>>, other)
    BY <1>1, <1>3, PlainJoint
  <2>. QED
    BY <2>1, PlainJoint
<1>6. Len(Four(sep, a, b, c, d)) >= 3
  <2>1. a \in Seq(T) /\ b \in Seq(T) /\ c \in Seq(T) /\ d \in Seq(T) /\ <<sep>> \in Seq(T)
    BY <1>1
  <2>2. Len(Four(sep, a, b, c, d)) = Len(a) + 1 + Len(b) + 1 + Len(c) + 1 + Len(d)
    BY <2>1 DEF Four
  <2>3. Len(a) \in Nat /\ Len(b) \in Nat /\ Len(c) \in Nat /\ Len(d) \in Nat
    BY <2>1
  <2>. QED
    BY <2>2, <2>3
<1>. QED
  BY <1>4, <1>5, <1>6

-------------------------------------------------------------------------------
(* Numbers that are written.                                               *)

\* One more digit makes ten times the number, and the digit.
LEMMA ValueOfAppend ==
  ASSUME DigitsWorth, NEW s \in Seq(DOMAIN DigitValue), NEW c \in DOMAIN DigitValue
  PROVE  /\ ValueOf(s)[Len(s)] \in Nat
         /\ ValueOf(Append(s, c))[Len(Append(s, c))] = 10 * ValueOf(s)[Len(s)] + DigitValue[c]
<1>1. PICK t : t = Append(s, c)
  OBVIOUS
<1>2. /\ t \in Seq(DOMAIN DigitValue) /\ Len(s) \in Nat /\ Len(t) = Len(s) + 1
      /\ t[Len(s) + 1] = c /\ \A k \in 1..Len(s) : t[k] = s[k]
  BY <1>1
<1>3. /\ ValueOf(s) \in [0..Len(s) -> Nat] /\ ValueOf(s)[0] = 0
      /\ \A k \in 1..Len(s) : ValueOf(s)[k] = 10 * ValueOf(s)[k - 1] + DigitValue[s[k]]
  BY ValueOfType
<1>4. /\ ValueOf(t) \in [0..Len(t) -> Nat] /\ ValueOf(t)[0] = 0
      /\ \A k \in 1..Len(t) : ValueOf(t)[k] = 10 * ValueOf(t)[k - 1] + DigitValue[t[k]]
  BY <1>2, ValueOfType
<1>. DEFINE Wrong == {k \in 0..Len(s) : ValueOf(t)[k] # ValueOf(s)[k]}
<1>5. ASSUME Wrong # {} PROVE FALSE
  <2>1. Wrong \in SUBSET Nat
    BY <1>2
  <2>2. PICK k \in Wrong : \A j \in Wrong : k <= j
    <3>. HIDE DEF Wrong
    <3>. QED
      BY <1>5, <2>1, Least
  <2>3. k \in 0..Len(s) /\ ValueOf(t)[k] # ValueOf(s)[k]
    OBVIOUS
  <2>4. k # 0
    BY <1>3, <1>4, <2>3
  <2>5. k \in 1..Len(s) /\ k \in 1..Len(t) /\ k - 1 \in 0..Len(s) /\ ~ (k <= k - 1)
    BY <1>2, <2>3, <2>4
  <2>6. ValueOf(t)[k - 1] = ValueOf(s)[k - 1]
    <3>1. k - 1 \notin Wrong
      BY <2>2, <2>5
    <3>. QED
      BY <2>5, <3>1
  <2>. HIDE DEF Wrong
  <2>7. ValueOf(t)[k] = 10 * ValueOf(t)[k - 1] + DigitValue[t[k]]
    BY <1>4, <2>5
  <2>8. ValueOf(s)[k] = 10 * ValueOf(s)[k - 1] + DigitValue[s[k]]
    BY <1>3, <2>5
  <2>9. t[k] = s[k]
    BY <1>2, <2>5
  <2>. QED
    BY <2>3, <2>6, <2>7, <2>8, <2>9
<1>6. ValueOf(t)[Len(s)] = ValueOf(s)[Len(s)]
  <2>1. Len(s) \in 0..Len(s) /\ Len(s) \notin Wrong
    BY <1>2, <1>5
  <2>. QED
    BY <2>1
<1>7. ValueOf(t)[Len(t)] = 10 * ValueOf(t)[Len(s)] + DigitValue[c]
  <2>1. Len(t) \in 1..Len(t) /\ Len(t) - 1 = Len(s)
    BY <1>2
  <2>. QED
    BY <1>2, <1>4, <2>1
<1>8. ValueOf(s)[Len(s)] \in Nat
  <2>1. Len(s) \in 0..Len(s)
    BY <1>2
  <2>. QED
    BY <1>3, <2>1
<1>. QED
  BY <1>1, <1>6, <1>7, <1>8

\* Digits are told from spaces and signs.
DigitsApart == (Spaces \cup {"-", "+"}) \cap DOMAIN DigitValue = {}

\* stoll takes all of a string of digits.
LEMMA StollDigits ==
  ASSUME DigitsApart, NEW s \in Seq(DOMAIN DigitValue), s # <<>>
  PROVE  Stoll(s) = ValueOf(s)[Len(s)]
<1>. DEFINE skip == {i \in 1..Len(s) : \A j \in 1..i : s[j] \in Spaces}
            rest == SubSeq(s, Cardinality(skip) + 1, Len(s))
            signed == rest # <<>> /\ Head(rest) \in {"-", "+"}
            text == IF signed THEN Tail(rest) ELSE rest
            D == {i \in 1..Len(text) : \A j \in 1..i : text[j] \in DOMAIN DigitValue}
<1>1. Len(s) \in Nat \ {0} /\ \A i \in 1..Len(s) : s[i] \in DOMAIN DigitValue
  OBVIOUS
<1>2. s[1] \notin Spaces /\ s[1] \notin {"-", "+"}
  BY <1>1 DEF DigitsApart
<1>3. Cardinality(skip) = 0
  <2>1. ASSUME NEW i \in skip PROVE FALSE
    <3>1. 1 \in 1..i
      BY <1>1
    <3>. QED
      BY <1>2, <3>1
  <2>2. skip = {}
    <3>. HIDE DEF skip
    <3>. QED
      BY <2>1
  <2>. QED
    BY <2>2, FS_EmptySet
<1>4. rest = s
  <2>1. SubSeq(s, 1, Len(s)) = s
    OBVIOUS
  <2>. HIDE DEF skip
  <2>. QED
    BY <1>3, <2>1
<1>5. ~ signed
  <2>1. Head(s) = s[1]
    BY <1>1
  <2>. HIDE DEF rest
  <2>. QED
    BY <1>2, <1>4, <2>1
<1>6. text = s
  BY <1>4, <1>5
<1>7. D = 1..Len(s) /\ Cardinality(D) = Len(s)
  <2>1. \A i \in 1..Len(s) : \A j \in 1..i : s[j] \in DOMAIN DigitValue
    BY <1>1
  <2>2. {i \in 1..Len(s) : \A j \in 1..i : s[j] \in DOMAIN DigitValue} = 1..Len(s)
    BY <2>1
  <2>3. D = {i \in 1..Len(s) : \A j \in 1..i : s[j] \in DOMAIN DigitValue}
    BY <1>6, Zenon
  <2>4. Cardinality(1..Len(s)) = Len(s)
    BY <1>1, UpToN
  <2>. QED
    BY <2>2, <2>3, <2>4
<1>8. /\ NumberIn(s).digits = SubSeq(text, 1, Cardinality(D))
      /\ NumberIn(s).negative = (signed /\ Head(rest) = "-")
  BY DEF NumberIn
<1>9. SubSeq(text, 1, Cardinality(D)) = s
  <2>1. SubSeq(s, 1, Len(s)) = s
    OBVIOUS
  <2>. QED
    BY <1>6, <1>7, <2>1
<1>. HIDE DEF skip, rest, signed, text, D
<1>10. NumberIn(s).digits = s /\ ~ NumberIn(s).negative
  BY <1>5, <1>8, <1>9
<1>. QED
  BY <1>10 DEF Stoll
===============================================================================
