------------------------------ MODULE LinkLemmas ------------------------------
(***************************************************************************)
(* Lemmas about lists that nodes form through their links: that PathFrom   *)
(* returns the path from a node, and what a store does to a path.  The     *)
(* induction that the recursive function needs is had from the pigeonhole  *)
(* principle (FS_Injection) for a set of numbers.                          *)
(***************************************************************************)
EXTENDS Links, SequencesExt, FiniteSetTheorems, SequenceTheorems, TLAPS

-----------------------------------------------------------------------------
(* A map of a finite set into itself that is one to one is onto.           *)

LEMMA OntoIs ==
  ASSUME NEW S, IsFiniteSet(S), NEW f \in [S -> S], \A x, y \in S : f[x] = f[y] => x = y
  PROVE  \A z \in S : \E x \in S : f[x] = z
<1>1. f \in Injection(S, S)
  BY DEF Injection, IsInjective
<1>2. f \in Surjection(S, S)
  BY <1>1, FS_Injection
<1> QED
  BY <1>2 DEF Surjection

(* Induction, of a set of numbers: those that are not in it, up to one,    *)
(* would all have a predecessor that is not in it either.                  *)
LEMMA SetInduction ==
  ASSUME NEW I, 0 \in I, \A n \in Nat : n \in I => n + 1 \in I
  PROVE  Nat \subseteq I
<1> SUFFICES ASSUME NEW m \in Nat, m \notin I PROVE FALSE
  OBVIOUS
<1> DEFINE J == {i \in 0..m : i \notin I}
           f == [i \in J |-> i - 1]
<1>1. IsFiniteSet(J)
  <2>1. IsFiniteSet(0..m)
    BY FS_Interval
  <2>2. J \in SUBSET (0..m)
    OBVIOUS
  <2> QED
    BY <2>1, <2>2, FS_Subset
<1>2. \A i \in J : i - 1 \in J
  OBVIOUS
<1>3. f \in [J -> J] /\ \A x, y \in J : f[x] = f[y] => x = y
  BY <1>2
<1>4. m \in J
  OBVIOUS
<1>5. PICK x \in J : f[x] = m
  <2> HIDE DEF J, f
  <2>1. \A z \in J : \E x \in J : f[x] = z
    BY <1>1, <1>3, OntoIs
  <2> QED
    BY <1>4, <2>1
<1>6. f[x] = x - 1 /\ x \in 0..m
  OBVIOUS
<1> HIDE DEF f, J
<1> QED
  BY <1>5, <1>6

(* The recursive function of PathFrom is the one its equation says.        *)
Step(link, n, p) ==
  [y \in DOMAIN link |->
     IF n = 0 THEN <<>>
     ELSE <<y>> \o (IF link[y] \in DOMAIN link THEN p[n - 1][link[y]] ELSE <<>>)]

(* There is such a function, for any number of steps.                      *)
LEMMA StepExists ==
  ASSUME NEW link, NEW N \in Nat
  PROVE  \E p : p = [n \in 0..N |-> Step(link, n, p)]
<1> DEFINE Is(p, m) == p = [n \in 0..m |-> Step(link, n, p)]
           I == {m \in Nat : \E p : Is(p, m)}
<1>1. 0 \in I
  <2> DEFINE p == [n \in 0..0 |-> [y \in DOMAIN link |-> <<>>]]
  <2>1. \A n \in 0..0 : Step(link, n, p) = [y \in DOMAIN link |-> <<>>]
    BY DEF Step
  <2>2. Is(p, 0)
    BY <2>1
  <2> HIDE DEF p
  <2> QED
    BY <2>2
<1>2. ASSUME NEW m \in Nat, m \in I PROVE m + 1 \in I
  <2>1. PICK p : Is(p, m)
    BY <1>2
  <2> DEFINE q == [n \in 0..(m + 1) |-> IF n = m + 1 THEN Step(link, n, p) ELSE p[n]]
  <2>2. \A n \in 0..(m + 1) : n # 0 => n - 1 \in 0..m /\ q[n - 1] = p[n - 1]
    OBVIOUS
  <2>3. ASSUME NEW n \in 0..(m + 1) PROVE Step(link, n, q) = Step(link, n, p)
    <3>1. CASE n = 0
      BY <3>1 DEF Step
    <3>2. CASE n # 0
      <4>1. q[n - 1] = p[n - 1]
        BY <2>2, <3>2
      <4> HIDE DEF q
      <4> QED
        BY <4>1 DEF Step
    <3> QED
      BY <3>1, <3>2
  <2>4. \A n \in 0..(m + 1) : q[n] = Step(link, n, p)
    <3>1. \A n \in 0..m : p[n] = Step(link, n, p)
      BY <2>1
    <3>2. \A n \in 0..(m + 1) : n # m + 1 => n \in 0..m
      OBVIOUS
    <3> QED
      BY <3>1, <3>2
  <2>5. q = [n \in 0..(m + 1) |-> q[n]]
    OBVIOUS
  <2> HIDE DEF q
  <2>6. Is(q, m + 1)
    BY <2>3, <2>4, <2>5
  <2> QED
    BY <2>6
<1>3. Nat \subseteq I
  <2> HIDE DEF I
  <2> QED
    BY <1>1, <1>2, SetInduction
<1> QED
  BY <1>3

(* A sequence without repetition is not longer than its set.               *)
LEMMA InjectiveLen ==
  ASSUME NEW D, IsFiniteSet(D), NEW s \in Seq(D), \A i, j \in 1..Len(s) : s[i] = s[j] => i = j
  PROVE  Len(s) <= Cardinality(D) /\ Cardinality(D) \in Nat
<1>1. Len(s) \in Nat /\ s \in [1..Len(s) -> D]
  BY LenProperties
<1>2. s \in Injection(1..Len(s), D)
  BY <1>1 DEF Injection, IsInjective
<1>3. Cardinality(1..Len(s)) <= Cardinality(D)
  BY <1>2, FS_Injection
<1>4. Cardinality(1..Len(s)) = Len(s)
  BY <1>1, FS_Interval
<1> QED
  BY <1>3, <1>4, FS_CardinalityType

(* A reader who follows the links from x finds the path that starts there: *)
(* of its last element on, of the last two, and so forth.                  *)
LEMMA PathIs ==
  ASSUME NEW link, IsFiniteSet(DOMAIN link), NEW s, NEW x, IsPath(link, s, x)
  PROVE  PathFrom(link, x) = s
<1> DEFINE D == DOMAIN link
           N == Cardinality(D)
           L == Len(s)
           Is(q) == q = [n \in 0..N |-> Step(link, n, q)]
           p == CHOOSE q : Is(q)
<1>1. /\ s \in Seq(D) /\ L \in Nat /\ \A i \in 1..L : s[i] \in D
      /\ L <= N /\ N \in Nat
      /\ \A i \in 1..(L - 1) : link[s[i]] = s[i + 1]
      /\ s = <<>> => x \notin D
      /\ s # <<>> => x = s[1] /\ link[s[L]] \notin D
  <2>1. s \in Seq(D) /\ \A i, j \in 1..L : s[i] = s[j] => i = j
    BY DEF IsPath
  <2>2. L \in Nat /\ \A i \in 1..L : s[i] \in D
    BY <2>1, LenProperties, ElementOfSeq
  <2>3. L <= N /\ N \in Nat
    BY <2>1, InjectiveLen
  <2> QED
    BY <2>1, <2>2, <2>3 DEF IsPath
<1>2. PathFrom(link, x) = IF x \in D THEN p[N][x] ELSE <<>>
  BY Zenon DEF PathFrom, Step
<1>3. Is(p)
  <2>1. \E q : Is(q)
    <3>1. N \in Nat
      BY <1>1
    <3> HIDE DEF N
    <3> QED
      BY <3>1, StepExists
  <2> HIDE DEF Is
  <2> QED
    BY <2>1
<1> HIDE DEF p
<1>4. ASSUME NEW n \in 0..N, NEW y \in D, n # 0
      PROVE  p[n][y] = <<y>> \o (IF link[y] \in D THEN p[n - 1][link[y]] ELSE <<>>)
  <2>1. p[n] = Step(link, n, p)
    BY <1>3
  <2> QED
    BY <1>4, <2>1 DEF Step
<1> DEFINE I == {m \in Nat : \A i \in 1..L, n \in 0..N :
                               L - i = m /\ n > m => p[n][s[i]] = SubSeq(s, i, L)}
<1>5. 0 \in I
  <2>1. ASSUME NEW i \in 1..L, NEW n \in 0..N, L - i = 0, n > 0
        PROVE  p[n][s[i]] = SubSeq(s, i, L)
    <3>1. i = L /\ s # <<>>
      BY <1>1, <2>1, EmptySeq
    <3>2. p[n][s[i]] = <<s[i]>> \o <<>>
      <4>1. s[i] \in D /\ n # 0 /\ link[s[i]] \notin D
        BY <1>1, <2>1, <3>1
      <4> QED
        BY <1>4, <4>1
    <3>5. L \in 1..L /\ L \in L..L /\ L + 1 \in Int /\ L \in Int /\ L < L + 1
      BY <1>1, <2>1, <3>1
    <3>6. SubSeq(s, L, L) = <<s[L]>> \o SubSeq(s, L + 1, L)
      BY <1>1, <3>5, SubSeqRecursiveFirst
    <3>7. SubSeq(s, L + 1, L) = <<>>
      BY <3>5, SubSeqEmpty
    <3> QED
      BY <3>1, <3>2, <3>6, <3>7
  <2> QED
    BY <2>1
<1>6. ASSUME NEW m \in Nat, m \in I PROVE m + 1 \in I
  <2>1. ASSUME NEW i \in 1..L, NEW n \in 0..N, L - i = m + 1, n > m + 1
        PROVE  p[n][s[i]] = SubSeq(s, i, L)
    <3>1. /\ i + 1 \in 1..L /\ n - 1 \in 0..N /\ L - (i + 1) = m /\ n - 1 > m
          /\ i \in 1..(L - 1) /\ n # 0 /\ i \in Nat
      BY <1>1, <2>1
    <3>2. p[n - 1][s[i + 1]] = SubSeq(s, i + 1, L)
      BY <1>6, <3>1
    <3>3. link[s[i]] = s[i + 1] /\ s[i + 1] \in D /\ s[i] \in D
      BY <1>1, <3>1
    <3>4. p[n][s[i]] = <<s[i]>> \o SubSeq(s, i + 1, L)
      BY <1>4, <3>1, <3>2, <3>3
    <3>5. SubSeq(s, i, L) = <<s[i]>> \o SubSeq(s, i + 1, L)
      BY <1>1, <3>1, SubSeqRecursiveFirst
    <3> QED
      BY <3>4, <3>5
  <2> QED
    BY <2>1
<1>7. Nat \subseteq I
  <2> HIDE DEF I
  <2> QED
    BY <1>5, <1>6, SetInduction
<1>8. CASE s = <<>>
  BY <1>1, <1>2, <1>8
<1>9. CASE s # <<>>
  <2>1. L > 0
    BY <1>1, <1>9, EmptySeq
  <2>2. 1 \in 1..L /\ N \in 0..N /\ L - 1 \in Nat /\ N > L - 1
    BY <1>1, <2>1
  <2>3. p[N][s[1]] = SubSeq(s, 1, L)
    BY <1>7, <2>2
  <2>4. SubSeq(s, 1, L) = s
    BY <1>1, SubSeqFull
  <2> QED
    BY <1>1, <1>2, <1>9, <2>2, <2>3, <2>4
<1> QED
  BY <1>8, <1>9

-----------------------------------------------------------------------------
(* What the stores of a list do to its path.                               *)

(* A path is one step after the other, and leads out at its end.           *)
LEMMA PathElems ==
  ASSUME NEW link, NEW s, NEW x, IsPath(link, s, x)
  PROVE  /\ s \in Seq(DOMAIN link) /\ Len(s) \in Nat /\ DOMAIN s = 1..Len(s)
         /\ ToSet(s) = {s[i] : i \in 1..Len(s)} /\ ToSet(s) \subseteq DOMAIN link
         /\ \A i \in 1..Len(s) : s[i] \in DOMAIN link /\ s[i] \in ToSet(s)
         /\ \A i \in 1..Len(s) : i < Len(s) => link[s[i]] = s[i + 1]
         /\ \A i \in 1..Len(s) : i = Len(s) => link[s[i]] \notin DOMAIN link
         /\ \A i, j \in 1..Len(s) : s[i] = s[j] => i = j
         /\ (s = <<>> <=> x \notin DOMAIN link)
         /\ s # <<>> => Len(s) > 0 /\ x = s[1]
         /\ Len(s) > 0 => s # <<>>
<1>1. s \in Seq(DOMAIN link)
  BY DEF IsPath
<1>2. Len(s) \in Nat /\ DOMAIN s = 1..Len(s) /\ \A i \in 1..Len(s) : s[i] \in DOMAIN link
  BY <1>1, LenProperties, ElementOfSeq
<1>3. (s # <<>> => Len(s) > 0) /\ (Len(s) > 0 => s # <<>>)
  BY <1>1, <1>2, EmptySeq
<1>4. ToSet(s) = {s[i] : i \in 1..Len(s)}
  BY <1>2 DEF ToSet
<1>5. \A i \in 1..Len(s) : i < Len(s) => i \in 1..(Len(s) - 1)
  BY <1>2
<1>6. s # <<>> => Len(s) \in 1..Len(s)
  BY <1>2, <1>3
<1>7. /\ \A i \in 1..Len(s) : i < Len(s) => link[s[i]] = s[i + 1]
      /\ \A i, j \in 1..Len(s) : s[i] = s[j] => i = j
  BY <1>5 DEF IsPath
<1>8. \A i \in 1..Len(s) : i = Len(s) => link[s[i]] \notin DOMAIN link
  BY <1>2, <1>3 DEF IsPath
<1>9. (s = <<>> <=> x \notin DOMAIN link) /\ (s # <<>> => x = s[1])
  BY <1>2, <1>6, <1>3 DEF IsPath
<1>10. ToSet(s) \subseteq DOMAIN link /\ \A i \in 1..Len(s) : s[i] \in ToSet(s)
  BY <1>2, <1>4
<1> QED
  BY <1>1, <1>2, <1>3, <1>4, <1>7, <1>8, <1>9, <1>10

(* A link of a node that is not in the list does not matter.               *)
LEMMA PathFrame ==
  ASSUME NEW link, NEW new, DOMAIN new = DOMAIN link, NEW s, NEW x, IsPath(link, s, x),
         \A y \in ToSet(s) : new[y] = link[y]
  PROVE  IsPath(new, s, x)
<1>1. \A i \in 1..Len(s) : new[s[i]] = link[s[i]]
  BY PathElems
<1>2. \A i \in 1..(Len(s) - 1) : i \in 1..Len(s)
  BY PathElems
<1>3. s # <<>> => Len(s) \in 1..Len(s)
  BY PathElems
<1> QED
  BY <1>1, <1>2, <1>3 DEF IsPath

(* The node before the first.                                              *)
LEMMA PathPush ==
  ASSUME NEW link, NEW s, NEW x, IsPath(link, s, x),
         NEW p \in DOMAIN link, link[p] = x, p \notin ToSet(s)
  PROVE  IsPath(link, <<p>> \o s, p) /\ ToSet(<<p>> \o s) = {p} \cup ToSet(s)
<1> DEFINE r == <<p>> \o s
           n == Len(s)
<1>0. <<p>> \in Seq(DOMAIN link) /\ Len(<<p>>) = 1 /\ <<p>>[1] = p
  OBVIOUS
<1>1. /\ r \in Seq(DOMAIN link) /\ Len(r) = n + 1 /\ n \in Nat
      /\ \A i \in 1..(n + 1) : r[i] = IF i = 1 THEN p ELSE s[i - 1]
  <2>1. s \in Seq(DOMAIN link) /\ n \in Nat
    BY PathElems
  <2>2. /\ r \in Seq(DOMAIN link) /\ Len(r) = 1 + n
        /\ \A i \in 1..(1 + n) : r[i] = IF i <= 1 THEN <<p>>[i] ELSE s[i - 1]
    BY <1>0, <2>1, ConcatProperties
  <2> QED
    BY <2>1, <2>2
<1> HIDE DEF r
<1>2. r # <<>>
  BY <1>1, EmptySeq
<1>3. p = r[1]
  BY <1>1
<1>4. link[r[n + 1]] \notin DOMAIN link
  <2>1. CASE s = <<>>
    BY <1>1, <2>1, PathElems, EmptySeq
  <2>2. CASE s # <<>>
    <3>1. n \in 1..n /\ link[s[n]] \notin DOMAIN link
      BY <2>2, PathElems
    <3> QED
      BY <1>1, <3>1
  <2> QED
    BY <2>1, <2>2
<1>5. ASSUME NEW i \in 1..(Len(r) - 1) PROVE link[r[i]] = r[i + 1]
  <2>1. i \in 1..(n + 1) /\ i + 1 \in 1..(n + 1) /\ r[i + 1] = s[i] /\ i \in 1..n
    BY <1>1
  <2>2. CASE i = 1
    BY <1>3, <2>1, <2>2, PathElems
  <2>3. CASE i # 1
    <3>1. i - 1 \in 1..n /\ i - 1 < n /\ (i - 1) + 1 = i /\ r[i] = s[i - 1]
      BY <1>1, <2>1, <2>3
    <3> QED
      BY <2>1, <3>1, PathElems
  <2> QED
    BY <2>2, <2>3
<1>6. ASSUME NEW i \in 1..Len(r), NEW j \in 1..Len(r), r[i] = r[j] PROVE i = j
  <2>1. \A k \in 1..Len(r) : k # 1 => k - 1 \in 1..n /\ r[k] = s[k - 1] /\ r[k] # p
    <3>1. \A k \in 1..Len(r) : k # 1 => k - 1 \in 1..n /\ r[k] = s[k - 1]
      BY <1>1
    <3> QED
      BY <3>1, PathElems
  <2>2. i # 1 /\ j # 1 => i - 1 = j - 1
    BY <1>6, <2>1, PathElems
  <2>3. i = 1 => j = 1
    BY <1>3, <1>6, <2>1
  <2>4. j = 1 => i = 1
    BY <1>3, <1>6, <2>1
  <2> QED
    BY <1>1, <2>2, <2>3, <2>4
<1>7. IsPath(link, r, p)
  BY <1>1, <1>2, <1>3, <1>4, <1>5, <1>6 DEF IsPath
<1>8. ToSet(r) = {p} \cup ToSet(s)
  <2>1. ToSet(r) = {r[i] : i \in 1..(n + 1)} /\ ToSet(s) = {s[i] : i \in 1..n}
    BY <1>1, <1>7, PathElems
  <2>2. \A i \in 1..n : i + 1 \in 1..(n + 1) /\ r[i + 1] = s[i]
    BY <1>1
  <2>3. \A i \in 1..(n + 1) : i = 1 \/ (i - 1 \in 1..n /\ r[i] = s[i - 1])
    BY <1>1
  <2>4. 1 \in 1..(n + 1)
    BY <1>1
  <2> QED
    BY <1>3, <2>1, <2>2, <2>3, <2>4
<1> QED
  BY <1>7, <1>8 DEF r

(* RemoveAt leaves out one element and the order of the others.            *)
LEMMA RemoveAtIs ==
  ASSUME NEW S, NEW s \in Seq(S), NEW i \in 1..Len(s)
  PROVE  /\ RemoveAt(s, i) \in Seq(S) /\ Len(RemoveAt(s, i)) = Len(s) - 1 /\ Len(s) \in Nat
         /\ \A j \in 1..(Len(s) - 1) : RemoveAt(s, i)[j] = IF j < i THEN s[j] ELSE s[j + 1]
<1> DEFINE n == Len(s)
           a == SubSeq(s, 1, i - 1)
           b == SubSeq(s, i + 1, n)
<1>1. n \in Nat /\ i \in Nat /\ i >= 1 /\ i <= n /\ \A j \in 1..n : s[j] \in S
  BY LenProperties, ElementOfSeq
<1>2. a \in Seq(S) /\ Len(a) = i - 1 /\ \A j \in 1..(i - 1) : a[j] = s[j]
  <2>1. \A j \in 1..(i - 1) : s[j] \in S
    BY <1>1
  <2>2. 1 \in Int /\ i - 1 \in Int
    BY <1>1
  <2>3. /\ a \in Seq(S) /\ Len(a) = IF 1 <= i - 1 THEN (i - 1) - 1 + 1 ELSE 0
        /\ \A j \in 1..((i - 1) - 1 + 1) : a[j] = s[1 + j - 1]
    BY <2>1, <2>2, SubSeqProperties
  <2> HIDE DEF a
  <2>4. Len(a) = i - 1
    BY <1>1, <2>3
  <2>5. (i - 1) - 1 + 1 = i - 1 /\ \A j \in 1..(i - 1) : 1 + j - 1 = j
    BY <1>1
  <2>6. \A j \in 1..(i - 1) : a[j] = s[j]
    BY <2>3, <2>5
  <2> QED
    BY <2>3, <2>4, <2>6
<1>3. b \in Seq(S) /\ Len(b) = n - i /\ \A j \in 1..(n - i) : b[j] = s[i + j]
  <2>1. \A j \in (i + 1)..n : s[j] \in S
    BY <1>1
  <2>2. i + 1 \in Int /\ n \in Int
    BY <1>1
  <2>3. /\ b \in Seq(S) /\ Len(b) = IF i + 1 <= n THEN n - (i + 1) + 1 ELSE 0
        /\ \A j \in 1..(n - (i + 1) + 1) : b[j] = s[(i + 1) + j - 1]
    BY <2>1, <2>2, SubSeqProperties
  <2> HIDE DEF b
  <2>4. Len(b) = n - i
    BY <1>1, <2>3
  <2>5. n - (i + 1) + 1 = n - i /\ \A j \in 1..(n - i) : (i + 1) + j - 1 = i + j
    BY <1>1
  <2>6. \A j \in 1..(n - i) : b[j] = s[i + j]
    BY <2>3, <2>5
  <2> QED
    BY <2>3, <2>4, <2>6
<1> DEFINE r == a \o b
<1>4. RemoveAt(s, i) = r
  BY DEF RemoveAt
<1> HIDE DEF a, b
<1>5. /\ a \o b \in Seq(S) /\ Len(a \o b) = (i - 1) + (n - i)
      /\ \A j \in 1..((i - 1) + (n - i)) : (a \o b)[j] = IF j <= i - 1 THEN a[j] ELSE b[j - (i - 1)]
  <2>1. /\ a \o b \in Seq(S) /\ Len(a \o b) = Len(a) + Len(b)
        /\ \A j \in 1..(Len(a) + Len(b)) : (a \o b)[j] = IF j <= Len(a) THEN a[j] ELSE b[j - Len(a)]
    BY <1>2, <1>3, ConcatProperties
  <2> QED
    BY <1>2, <1>3, <2>1
<1>6. (i - 1) + (n - i) = n - 1
  BY <1>1
<1>8. r \in Seq(S) /\ Len(r) = n - 1 /\ \A j \in 1..(n - 1) : r[j] = IF j <= i - 1 THEN a[j] ELSE b[j - (i - 1)]
  BY <1>5, <1>6
<1> HIDE DEF r
<1>7. ASSUME NEW j \in 1..(n - 1) PROVE r[j] = IF j < i THEN s[j] ELSE s[j + 1]
  <2>1. CASE j < i
    <3>1. j <= i - 1 /\ j \in 1..(i - 1)
      BY <1>1, <2>1
    <3> QED
      BY <1>2, <1>8, <2>1, <3>1
  <2>2. CASE ~(j < i)
    <3>1. ~(j <= i - 1) /\ j - (i - 1) \in 1..(n - i) /\ i + (j - (i - 1)) = j + 1
      BY <1>1, <2>2
    <3> QED
      BY <1>3, <1>8, <2>2, <3>1
  <2> QED
    BY <2>1, <2>2
<1> QED
  BY <1>1, <1>4, <1>7, <1>8

(* The nodes of a path without one of them.                                *)
LEMMA RemoveSet ==
  ASSUME NEW link, NEW s, NEW x, IsPath(link, s, x), NEW i \in 1..Len(s)
  PROVE  ToSet(RemoveAt(s, i)) = ToSet(s) \ {s[i]}
<1> DEFINE n == Len(s)
           r == RemoveAt(s, i)
<1>1. s \in Seq(DOMAIN link)
  BY PathElems
<1>2. /\ r \in Seq(DOMAIN link) /\ Len(r) = n - 1 /\ n \in Nat /\ i \in Nat
      /\ \A j \in 1..(n - 1) : r[j] = IF j < i THEN s[j] ELSE s[j + 1]
  BY <1>1, RemoveAtIs
<1> HIDE DEF r
<1>3. ToSet(r) = {r[j] : j \in 1..(n - 1)} /\ ToSet(s) = {s[j] : j \in 1..n}
  <2>1. DOMAIN r = 1..(n - 1)
    BY <1>2, LenProperties
  <2> QED
    BY <2>1, PathElems DEF ToSet
<1>4. \A j \in 1..(n - 1) : \E k \in 1..n : k # i /\ r[j] = s[k]
  <2> TAKE j \in 1..(n - 1)
  <2>1. CASE j < i
    <3>1. j \in 1..n /\ j # i
      BY <1>2, <2>1
    <3> QED
      BY <1>2, <2>1, <3>1
  <2>2. CASE ~(j < i)
    <3>1. j + 1 \in 1..n /\ j + 1 # i
      BY <1>2, <2>2
    <3> QED
      BY <1>2, <2>2, <3>1
  <2> QED
    BY <2>1, <2>2
<1>5. \A k \in 1..n : k # i => \E j \in 1..(n - 1) : r[j] = s[k]
  <2> SUFFICES ASSUME NEW k \in 1..n, k # i PROVE \E j \in 1..(n - 1) : r[j] = s[k]
    OBVIOUS
  <2>1. CASE k < i
    <3>1. k \in 1..(n - 1)
      BY <1>2, <2>1
    <3>2. r[k] = s[k]
      BY <1>2, <2>1, <3>1
    <3> QED
      BY <3>1, <3>2
  <2>2. CASE k > i
    <3>1. k - 1 \in 1..(n - 1) /\ ~(k - 1 < i) /\ (k - 1) + 1 = k
      BY <1>2, <2>2
    <3>2. r[k - 1] = s[k]
      BY <1>2, <3>1
    <3> QED
      BY <3>1, <3>2
  <2> QED
    BY <1>2, <2>1, <2>2
<1>6. \A k \in 1..n : s[k] = s[i] => k = i
  BY PathElems
<1>7. \A y \in ToSet(r) : y \in ToSet(s) \ {s[i]}
  BY <1>3, <1>4, <1>6
<1>8. \A y \in ToSet(s) \ {s[i]} : y \in ToSet(r)
  BY <1>3, <1>5
<1> QED
  BY <1>7, <1>8 DEF r

(* A path without its first node.                                          *)
LEMMA PathTail ==
  ASSUME NEW link, NEW s, NEW x, IsPath(link, s, x), s # <<>>
  PROVE  IsPath(link, RemoveAt(s, 1), link[x])
<1> DEFINE n == Len(s)
           r == RemoveAt(s, 1)
<1>1. s \in Seq(DOMAIN link) /\ n \in Nat /\ n > 0 /\ x = s[1]
  BY PathElems
<1> HIDE DEF n
<1>2. 1 \in 1..n
  BY <1>1
<1>3. /\ r \in Seq(DOMAIN link) /\ Len(r) = n - 1
      /\ \A j \in 1..(n - 1) : r[j] = IF j < 1 THEN s[j] ELSE s[j + 1]
  BY <1>1, <1>2, RemoveAtIs DEF n
<1> HIDE DEF r
<1>4. \A j \in 1..(n - 1) : r[j] = s[j + 1] /\ j + 1 \in 1..n
  BY <1>1, <1>3
<1>5. ASSUME n = 1 PROVE IsPath(link, r, link[x])
  <2>1. link[x] \notin DOMAIN link
    BY <1>1, <1>2, <1>5, PathElems DEF n
  <2>2. r = <<>>
    BY <1>3, <1>5, EmptySeq
  <2>3. \A i, j \in 1..Len(r) : r[i] = r[j] => i = j
    BY <1>3, <1>5
  <2>4. \A i \in 1..(Len(r) - 1) : link[r[i]] = r[i + 1]
    BY <1>3, <1>5
  <2>5. r \in Seq(DOMAIN link)
    BY <1>3
  <2> QED
    BY <2>1, <2>2, <2>3, <2>4, <2>5 DEF IsPath
<1>6. ASSUME n # 1 PROVE IsPath(link, r, link[x])
  <2>1. r # <<>> /\ 1 \in 1..(n - 1) /\ n - 1 \in 1..(n - 1)
    BY <1>1, <1>3, <1>6, EmptySeq
  <2>2. r[1] = s[2] /\ r[n - 1] = s[n]
    <3>1. 1 + 1 = 2 /\ (n - 1) + 1 = n
      BY <1>1
    <3> QED
      BY <1>4, <2>1, <3>1
  <2>3. link[x] = r[1]
    <3>1. 1 < n
      BY <1>1, <1>6
    <3> QED
      BY <1>1, <1>2, <2>2, <3>1, PathElems DEF n
  <2>4. link[r[n - 1]] \notin DOMAIN link
    <3>1. n \in 1..n
      BY <1>1
    <3> QED
      BY <2>2, <3>1, PathElems DEF n
  <2>5. ASSUME NEW i \in 1..(Len(r) - 1) PROVE link[r[i]] = r[i + 1]
    <3>1. i \in 1..(n - 1) /\ i + 1 \in 1..(n - 1) /\ i + 1 \in 1..n /\ i + 1 < n
      BY <1>1, <1>3
    <3> QED
      BY <1>4, <3>1, PathElems DEF n
  <2>6. ASSUME NEW i \in 1..Len(r), NEW j \in 1..Len(r), r[i] = r[j] PROVE i = j
    <3>1. s[i + 1] = s[j + 1] /\ i + 1 \in 1..n /\ j + 1 \in 1..n
      BY <1>3, <1>4, <2>6
    <3>2. i + 1 = j + 1
      BY <3>1, PathElems DEF n
    <3> QED
      BY <1>1, <1>3, <3>2
  <2>7. link[r[Len(r)]] \notin DOMAIN link
    BY <1>3, <2>4
  <2> QED
    BY <1>3, <2>1, <2>3, <2>7, <2>5, <2>6 DEF IsPath
<1> QED
  BY <1>5, <1>6 DEF r

(* The link that leads around a node that is not the first.                *)
LEMMA PathBypass ==
  ASSUME NEW link, NEW s, NEW x, IsPath(link, s, x), NEW i \in 2..Len(s)
  PROVE  IsPath([link EXCEPT ![s[i - 1]] = link[s[i]]], RemoveAt(s, i), x)
<1> DEFINE n == Len(s)
           r == RemoveAt(s, i)
           new == [link EXCEPT ![s[i - 1]] = link[s[i]]]
<1>1. /\ s \in Seq(DOMAIN link) /\ n \in Nat /\ i \in 1..n /\ i - 1 \in 1..n /\ x = s[1]
      /\ i \in Nat /\ n > 1 /\ i > 1 /\ i <= n
  <2>1. n \in Nat /\ s \in Seq(DOMAIN link)
    BY PathElems
  <2>2. i \in 1..n /\ i - 1 \in 1..n /\ n > 0 /\ i \in Nat /\ n > 1 /\ i > 1 /\ i <= n
    BY <2>1
  <2> QED
    BY <2>1, <2>2, PathElems
<1>3. /\ r \in Seq(DOMAIN link) /\ Len(r) = n - 1
      /\ \A j \in 1..(n - 1) : r[j] = IF j < i THEN s[j] ELSE s[j + 1]
  BY <1>1, RemoveAtIs
<1>4. DOMAIN new = DOMAIN link
  OBVIOUS
<1>5. \A j \in 1..n : new[s[j]] = IF j = i - 1 THEN link[s[i]] ELSE link[s[j]]
  <2>1. \A j \in 1..n : s[j] \in DOMAIN link /\ (s[j] = s[i - 1] => j = i - 1)
    BY <1>1, PathElems
  <2> QED
    BY <2>1
<1> HIDE DEF r, new
<1>6. r # <<>> /\ x = r[1]
  <2>1. 1 \in 1..(n - 1) /\ 1 < i
    BY <1>1
  <2> QED
    BY <1>1, <1>3, <2>1, EmptySeq
<1>7. new[r[n - 1]] \notin DOMAIN link
  <2>1. n - 1 \in 1..(n - 1) /\ n \in 1..n /\ (n - 1) + 1 = n /\ n - 1 \in 1..n
    BY <1>1
  <2>2. link[s[n]] \notin DOMAIN link
    BY <2>1, PathElems
  <2>3. CASE i = n
    <3>1. n - 1 < i
      BY <1>1, <2>3
    <3>2. r[n - 1] = s[n - 1]
      BY <1>3, <2>1, <3>1
    <3> QED
      BY <1>5, <2>1, <2>2, <2>3, <3>2
  <2>4. CASE i # n
    <3>1. ~(n - 1 < i) /\ n # i - 1
      BY <1>1, <2>4
    <3>2. r[n - 1] = s[n]
      BY <1>3, <2>1, <3>1
    <3> QED
      BY <1>5, <2>1, <2>2, <3>1, <3>2
  <2> QED
    BY <2>3, <2>4
<1>8. ASSUME NEW j \in 1..(Len(r) - 1) PROVE new[r[j]] = r[j + 1]
  <2>1. j \in 1..(n - 1) /\ j + 1 \in 1..(n - 1) /\ j + 1 \in 1..n /\ j \in 1..n /\ j \in Nat
    BY <1>1, <1>3
  <2>2. CASE j + 1 < i
    <3>1. j < i /\ j # i - 1 /\ j < n
      BY <1>1, <2>1, <2>2
    <3>2. r[j] = s[j] /\ r[j + 1] = s[j + 1]
      BY <1>3, <2>1, <2>2, <3>1
    <3> QED
      BY <1>5, <2>1, <3>1, <3>2, PathElems
  <2>3. CASE j + 1 = i
    <3>1. j < i /\ j = i - 1 /\ ~(j + 1 < i) /\ i < n
      BY <1>1, <2>1, <2>3
    <3>2. r[j] = s[j] /\ r[j + 1] = s[i + 1]
      <4>1. r[j] = s[j]
        BY <1>3, <2>1, <3>1
      <4>2. r[j + 1] = s[(j + 1) + 1]
        BY <1>3, <2>1, <3>1
      <4> QED
        BY <2>3, <4>1, <4>2
    <3> QED
      BY <1>1, <1>5, <2>1, <3>1, <3>2, PathElems
  <2>4. CASE j + 1 > i
    <3>1. ~(j < i) /\ ~(j + 1 < i) /\ j + 1 # i - 1 /\ j + 1 < n
      BY <1>1, <2>1, <2>4
    <3>2. r[j] = s[j + 1] /\ r[j + 1] = s[(j + 1) + 1]
      BY <1>3, <2>1, <3>1
    <3> QED
      BY <1>5, <2>1, <3>1, <3>2, PathElems
  <2> QED
    BY <1>1, <2>1, <2>2, <2>3, <2>4
<1>9. ASSUME NEW j \in 1..Len(r), NEW k \in 1..Len(r), r[j] = r[k] PROVE j = k
  <2> DEFINE at(m) == IF m < i THEN m ELSE m + 1
  <2>1. at(j) \in 1..n /\ at(k) \in 1..n
    BY <1>1, <1>3
  <2>2. s[at(j)] = s[at(k)]
    BY <1>3, <1>9
  <2>3. at(j) = at(k)
    <3> HIDE DEF at
    <3> QED
      BY <2>1, <2>2, PathElems
  <2> QED
    BY <1>1, <1>3, <2>3
<1>10. Len(r) = n - 1
  BY <1>3
<1>11. IsPath(new, r, x)
  BY <1>3, <1>4, <1>6, <1>7, <1>8, <1>9, <1>10 DEF IsPath
<1> QED
  BY <1>11 DEF r, new

(* A node put behind the last.                                             *)
LEMMA PathAppend ==
  ASSUME NEW link, NEW s, NEW x, IsPath(link, s, x), s # <<>>,
         NEW p \in DOMAIN link, p \notin ToSet(s), link[p] \notin DOMAIN link
  PROVE  /\ s[Len(s)] \in ToSet(s)
         /\ IsPath([link EXCEPT ![s[Len(s)]] = p], Append(s, p), x)
<1> DEFINE n == Len(s)
           r == Append(s, p)
           new == [link EXCEPT ![s[n]] = p]
<1>1. /\ s \in Seq(DOMAIN link) /\ n \in Nat /\ n > 0 /\ x = s[1]
      /\ \A i \in 1..n : s[i] \in DOMAIN link /\ s[i] \in ToSet(s)
      /\ \A i \in 1..n : i < n => link[s[i]] = s[i + 1]
      /\ \A i, j \in 1..n : s[i] = s[j] => i = j
  BY PathElems
<1>2. /\ r \in Seq(DOMAIN link) /\ Len(r) = n + 1 /\ r # <<>>
      /\ \A i \in 1..n : r[i] = s[i]
      /\ r[n + 1] = p
  BY <1>1
<1>3. n \in 1..n /\ 1 \in 1..n
  <2> HIDE DEF n
  <2> QED
    BY <1>1
<1>4. s[n] \in ToSet(s) /\ s[n] \in DOMAIN link
  BY <1>1, <1>3
<1>5. p # s[n]
  BY <1>4
<1>6. DOMAIN new = DOMAIN link /\ new[s[n]] = p /\ new[p] = link[p]
  BY <1>4, <1>5
<1>7. \A i \in 1..n : i # n => new[s[i]] = link[s[i]]
  BY <1>1, <1>3
<1>8. \A i \in 1..n : s[i] # p
  BY <1>1
<1> HIDE DEF n, r, new
<1>9. \A i \in 1..((n + 1) - 1) : new[r[i]] = r[i + 1]
  <2> SUFFICES ASSUME NEW i \in 1..((n + 1) - 1) PROVE new[r[i]] = r[i + 1]
    OBVIOUS
  <2>1. i \in 1..n
    BY <1>1
  <2>2. CASE i = n
    BY <1>2, <1>6, <2>1, <2>2
  <2>3. CASE i # n
    <3>1. i < n /\ i + 1 \in 1..n
      BY <1>1, <2>1, <2>3
    <3> QED
      BY <1>1, <1>2, <1>7, <2>1, <2>3, <3>1
  <2> QED
    BY <2>2, <2>3
<1>10. \A i, j \in 1..(n + 1) : r[i] = r[j] => i = j
  <2> SUFFICES ASSUME NEW i \in 1..(n + 1), NEW j \in 1..(n + 1), r[i] = r[j], i # j
               PROVE  FALSE
    OBVIOUS
  <2>1. (i \in 1..n \/ i = n + 1) /\ (j \in 1..n \/ j = n + 1)
    BY <1>1
  <2> QED
    BY <1>1, <1>2, <1>8, <2>1
<1>11. r[1] = x
  BY <1>1, <1>2, <1>3
<1>12. IsPath(new, r, x)
  BY <1>2, <1>6, <1>9, <1>10, <1>11 DEF IsPath
<1> QED
  BY <1>4, <1>12 DEF new, r, n

(* The only node.                                                          *)
LEMMA PathOne ==
  ASSUME NEW link, NEW p \in DOMAIN link, link[p] \notin DOMAIN link
  PROVE  IsPath(link, <<p>>, p)
<1>1. <<p>> \in Seq(DOMAIN link) /\ Len(<<p>>) = 1 /\ <<p>>[1] = p /\ <<p>> # <<>>
  OBVIOUS
<1>2. \A i \in 1..(1 - 1) : link[<<p>>[i]] = <<p>>[i + 1]
  OBVIOUS
<1>3. \A i, j \in 1..1 : i = j
  OBVIOUS
<1> QED
  BY <1>1, <1>2, <1>3 DEF IsPath

(* The elements of a sequence with one more.                               *)
LEMMA ToSetAppend ==
  ASSUME NEW S, NEW s \in Seq(S), NEW x \in S
  PROVE  ToSet(Append(s, x)) = ToSet(s) \cup {x}
<1> DEFINE n == Len(s)
           r == Append(s, x)
<1>1. /\ n \in Nat /\ DOMAIN s = 1..n /\ DOMAIN r = 1..(n + 1)
      /\ \A i \in 1..n : r[i] = s[i]
      /\ r[n + 1] = x
  OBVIOUS
<1>2. ToSet(r) = {r[i] : i \in 1..(n + 1)} /\ ToSet(s) = {s[i] : i \in 1..n}
  BY <1>1 DEF ToSet
<1> HIDE DEF n, r
<1>3. /\ \A i \in 1..(n + 1) : i \in 1..n \/ i = n + 1
      /\ \A i \in 1..n : i \in 1..(n + 1)
      /\ n + 1 \in 1..(n + 1)
  BY <1>1
<1>4. \A y \in ToSet(r) : y \in ToSet(s) \cup {x}
  BY <1>1, <1>2, <1>3
<1>5. \A y \in ToSet(s) \cup {x} : y \in ToSet(r)
  BY <1>1, <1>2, <1>3
<1> QED
  BY <1>4, <1>5 DEF r
=============================================================================
