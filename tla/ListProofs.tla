----------------------------- MODULE ListProofs -----------------------------
(***************************************************************************)
(* Lemmas about data that several proofs need: induction on natural        *)
(* numbers, functions defined by recursion, sequences that are filtered or *)
(* joined.                                                                 *)
(***************************************************************************)
EXTENDS Lists, SequencesExt, SequenceTheorems, WellFoundedInduction, TLAPS

\* Every set of natural numbers has a least one.  The proofs below by induction take
\* the least number for which what they prove is false.
LEMMA Least ==
  ASSUME NEW T, T \subseteq Nat, T # {}
  PROVE  \E m \in T : \A k \in T : m <= k
<1> DEFINE R == {x \in Nat \X Nat : x[1] < x[2]}
<1>1. IsWellFoundedOn(R, Nat)
  BY NatLessThanWellFounded, Zenon DEF OpToRel
<1>2. \A x, y \in Nat : <<y, x>> \in R <=> y < x
  OBVIOUS
<1> HIDE DEF R
<1>3. PICK m \in T : \A y \in T : ~ (<<y, m>> \in R)
  BY <1>1, WFMin
<1>4. \A y \in T : ~ (y < m)
  BY <1>2, <1>3, Zenon
<1>5. \A y \in T : m <= y
  BY <1>4
<1> QED
  BY <1>5

\* The steps of a recursion on 0 .. n stay in A, and the function that they define.
IsStep(t, n, A) == t \in [1 .. n -> [A -> A]]

Recurses(f, n, A, base, t) ==
  /\ f \in [0 .. n -> A]
  /\ f[0] = base
  /\ \A k \in 1 .. n : f[k] = t[k][f[k - 1]]

LEMMA RecursionExists ==
  ASSUME NEW n \in Nat, NEW A, NEW base \in A, NEW t, IsStep(t, n, A)
  PROVE  \E f : Recurses(f, n, A, base, t)
<1> USE DEF IsStep, Recurses
<1> DEFINE P(m) == \E f \in [0 .. m -> A] :
                     f[0] = base /\ \A k \in 1 .. m : f[k] = t[k][f[k - 1]]
           T == {m \in 0 .. n : ~ P(m)}
<1>1. P(0)
  <2> DEFINE f == [k \in 0 .. 0 |-> base]
  <2>1. f \in [0 .. 0 -> A] /\ f[0] = base /\ \A k \in 1 .. 0 : f[k] = t[k][f[k - 1]]
    OBVIOUS
  <2> QED
    BY <2>1
<1>2. ASSUME NEW m \in 1 .. n, P(m - 1)
      PROVE  P(m)
  <2>1. PICK f \in [0 .. m - 1 -> A] :
          f[0] = base /\ \A k \in 1 .. m - 1 : f[k] = t[k][f[k - 1]]
    BY <1>2
  <2> DEFINE last == t[m][f[m - 1]]
             g == [k \in 0 .. m |-> IF k = m THEN last ELSE f[k]]
  <2>2. f[m - 1] \in A /\ last \in A
    OBVIOUS
  <2>3. g[m] = last /\ \A k \in 0 .. m - 1 : g[k] = f[k]
    <3> HIDE DEF last
    <3> QED
      OBVIOUS
  <2>4. g \in [0 .. m -> A]
    BY <2>2
  <2> HIDE DEF g
  <2>5. g[0] = base
    BY <2>1, <2>3
  <2>6. ASSUME NEW k \in 1 .. m
        PROVE  g[k] = t[k][g[k - 1]]
    <3>1. g[k - 1] = f[k - 1]
      BY <2>3
    <3>2. CASE k = m
      BY <2>3, <3>1, <3>2
    <3>3. CASE k # m
      BY <2>1, <2>3, <3>1, <3>3
    <3> QED
      BY <3>2, <3>3
  <2> QED
    BY <2>4, <2>5, <2>6
<1> HIDE DEF P
<1>3. T = {}
  <2> SUFFICES ASSUME T # {} PROVE FALSE
    OBVIOUS
  <2>0. T \subseteq Nat
    OBVIOUS
  <2> HIDE DEF T
  <2>1. PICK m \in T : \A k \in T : m <= k
    BY <2>0, Least
  <2> USE DEF T
  <2>2. m \in 1 .. n
    BY <1>1, <2>1
  <2>3. P(m - 1)
    BY <2>1, <2>2
  <2> QED
    BY <1>2, <2>2, <2>3
<1>4. P(n)
  BY <1>3
<1> QED
  BY <1>4 DEF P
\* A recursion starts in A, and no step leaves A.
StaysIn(f, n, A) ==
  /\ f[0] \in A
  /\ \A k \in 1 .. n : f[k - 1] \in A => f[k] \in A

LEMMA RecursionStays ==
  ASSUME NEW n \in Nat, NEW A, NEW f, StaysIn(f, n, A)
  PROVE  f[n] \in A
<1> USE DEF StaysIn
<1> DEFINE T == {k \in 0 .. n : f[k] \notin A}
<1> SUFFICES ASSUME T # {} PROVE FALSE
  OBVIOUS
<1>0. T \subseteq Nat
  OBVIOUS
<1> HIDE DEF T
<1>1. PICK m \in T : \A k \in T : m <= k
  BY <1>0, Least
<1> USE DEF T
<1>2. m \in 1 .. n
  BY <1>1
<1>3. f[m - 1] \in A
  BY <1>1, <1>2
<1> QED
  BY <1>1, <1>2, <1>3
-----------------------------------------------------------------------------
\* What is kept are the elements in the set, and they keep their order.
IsKept(q, s, U, S) ==
  /\ q \in Seq(U \cap S)
  /\ \A i \in DOMAIN s : s[i] \in S => \E j \in DOMAIN q : q[j] = s[i]
  /\ \A i \in DOMAIN q : \E a \in DOMAIN s : q[i] = s[a]
  /\ \A i, j \in DOMAIN q :
       i < j => \E a, b \in DOMAIN s : a < b /\ q[i] = s[a] /\ q[j] = s[b]

LEMMA KeptFacts ==
  ASSUME NEW U, NEW s \in Seq(U), NEW S
  PROVE  IsKept(Kept(s, S), s, U, S)
<1> DEFINE n == Len(s)
           A == Seq(U \cap S)
           t == [k \in 1 .. n |-> [q \in A |-> IF s[k] \in S THEN Append(q, s[k]) ELSE q]]
           Eq(f) == f = [k \in 0 .. n |->
                           IF k = 0 THEN <<>>
                           ELSE IF s[k] \in S THEN Append(f[k - 1], s[k]) ELSE f[k - 1]]
           F == CHOOSE f : Eq(f)
<1>0. n \in Nat /\ DOMAIN s = 1 .. n /\ \A i \in 1 .. n : s[i] \in U
  OBVIOUS
<1>1. t \in [1 .. n -> [A -> A]] /\ <<>> \in A
  OBVIOUS
<1>2. PICK g : Recurses(g, n, A, <<>>, t)
  <2>1. n \in Nat /\ <<>> \in A /\ IsStep(t, n, A)
    BY <1>0, <1>1 DEF IsStep
  <2> HIDE DEF n, A, t
  <2> QED
    BY <2>1, RecursionExists
<1>3. ASSUME NEW k \in 1 .. n, NEW a \in A
      PROVE  t[k][a] = IF s[k] \in S THEN Append(a, s[k]) ELSE a
  OBVIOUS
<1> HIDE DEF t
<1>4. Eq(g)
  <2>0. g \in [0 .. n -> A] /\ g[0] = <<>> /\ \A k \in 1 .. n : g[k] = t[k][g[k - 1]]
    BY <1>2 DEF Recurses
  <2> DEFINE e(k) == IF k = 0 THEN <<>>
                     ELSE IF s[k] \in S THEN Append(g[k - 1], s[k]) ELSE g[k - 1]
  <2>1. ASSUME NEW k \in 0 .. n
        PROVE  g[k] = e(k)
    <3>1. CASE k = 0
      BY <2>0, <3>1
    <3>2. CASE k # 0
      <4>1. k \in 1 .. n /\ g[k - 1] \in A
        BY <2>0, <3>2
      <4>2. g[k] = t[k][g[k - 1]]
        BY <2>0, <4>1
      <4> QED
        BY <1>3, <3>2, <4>1, <4>2
    <3> QED
      BY <3>1, <3>2
  <2> HIDE DEF e
  <2>2. g = [k \in 0 .. n |-> e(k)]
    BY <2>0, <2>1
  <2> QED
    BY <2>2 DEF e
<1>5. Eq(F)
  <2> HIDE DEF Eq
  <2> QED
    BY <1>4
<1>6. Kept(s, S) = F[n]
  BY DEF Kept
<1> HIDE DEF F
<1>7. /\ F[0] = <<>>
      /\ \A k \in 1 .. n : F[k] = IF s[k] \in S THEN Append(F[k - 1], s[k]) ELSE F[k - 1]
  <2>1. n \in Nat
    BY <1>0
  <2> HIDE DEF n
  <2>2. \A k \in 0 .. n : F[k] = IF k = 0 THEN <<>>
                      ELSE IF s[k] \in S THEN Append(F[k - 1], s[k]) ELSE F[k - 1]
    BY <1>5, Zenon
  <2>3. 0 \in 0 .. n /\ \A k \in 1 .. n : k \in 0 .. n /\ k # 0
    BY <2>1
  <2> QED
    BY <2>2, <2>3, Zenon
<1> HIDE DEF Eq
<1> DEFINE Q(q, D) ==
             /\ q \in Seq(U \cap S)
             /\ \A i \in D : s[i] \in S => \E j \in DOMAIN q : q[j] = s[i]
             /\ \A i \in DOMAIN q : \E a \in D : q[i] = s[a]
             /\ \A i, j \in DOMAIN q :
                  i < j => \E a, b \in D : a < b /\ q[i] = s[a] /\ q[j] = s[b]
           P(k) == Q(F[k], 1 .. k)
<1>8. P(0)
  BY <1>7
<1>9. ASSUME NEW k \in 1 .. n, P(k - 1)
      PROVE  P(k)
  <2>0. /\ k \in Nat
        /\ 1 .. k - 1 \subseteq 1 .. k /\ k \in 1 .. k
        /\ \A i \in 1 .. k : i # k => i \in 1 .. k - 1
        /\ \A i \in 1 .. k - 1 : i < k
    BY <1>0
  <2>1. CASE s[k] \notin S
    <3>1. F[k] = F[k - 1]
      BY <1>7, <2>1
    <3>2. /\ F[k] \in A
          /\ \A i \in 1 .. k : s[i] \in S => \E j \in DOMAIN F[k] : F[k][j] = s[i]
          /\ \A i \in DOMAIN F[k] : \E a \in 1 .. k : F[k][i] = s[a]
      BY <1>9, <2>0, <2>1, <3>1
    <3>3. \A i, j \in DOMAIN F[k] :
            i < j => \E a, b \in 1 .. k : a < b /\ F[k][i] = s[a] /\ F[k][j] = s[b]
      <4> SUFFICES ASSUME NEW i \in DOMAIN F[k], NEW j \in DOMAIN F[k], i < j
                   PROVE  \E a, b \in 1 .. k : a < b /\ F[k][i] = s[a] /\ F[k][j] = s[b]
        OBVIOUS
      <4>1. PICK a, b \in 1 .. k - 1 : a < b /\ F[k - 1][i] = s[a] /\ F[k - 1][j] = s[b]
        BY <1>9, <3>1
      <4> QED
        BY <2>0, <3>1, <4>1
    <3> QED
      BY <3>2, <3>3
  <2>2. CASE s[k] \in S
    <3> DEFINE f == F[k - 1]
    <3>0. f \in A
      BY <1>9
    <3>1. F[k] = Append(f, s[k]) /\ s[k] \in U \cap S
      BY <1>0, <1>7, <2>2
    <3>2. /\ F[k] \in A
          /\ DOMAIN f = 1 .. Len(f) /\ Len(f) \in Nat
          /\ DOMAIN F[k] = 1 .. Len(f) + 1
          /\ F[k][Len(f) + 1] = s[k]
          /\ \A i \in 1 .. Len(f) : F[k][i] = f[i]
      BY <3>0, <3>1
    <3>3. /\ \A i \in 1 .. k - 1 : s[i] \in S => \E j \in DOMAIN f : f[j] = s[i]
          /\ \A i \in DOMAIN f : \E a \in 1 .. k - 1 : f[i] = s[a]
          /\ \A i, j \in DOMAIN f :
               i < j => \E a, b \in 1 .. k - 1 : a < b /\ f[i] = s[a] /\ f[j] = s[b]
      BY <1>9
    <3> HIDE DEF f
    <3>4. \A i \in 1 .. k : s[i] \in S => \E j \in DOMAIN F[k] : F[k][j] = s[i]
      <4> SUFFICES ASSUME NEW i \in 1 .. k, s[i] \in S
                   PROVE  \E j \in DOMAIN F[k] : F[k][j] = s[i]
        OBVIOUS
      <4>1. CASE i = k
        BY <3>2, <4>1
      <4>2. CASE i # k
        <5>1. PICK j \in DOMAIN f : f[j] = s[i]
          BY <2>0, <3>3, <4>2
        <5> QED
          BY <3>2, <5>1
      <4> QED
        BY <4>1, <4>2
    <3>5. \A i \in DOMAIN F[k] : \E a \in 1 .. k : F[k][i] = s[a]
      BY <3>2, <3>3
    <3>6. ASSUME NEW i \in DOMAIN F[k], NEW j \in DOMAIN F[k], i < j
          PROVE  \E a, b \in 1 .. k : a < b /\ F[k][i] = s[a] /\ F[k][j] = s[b]
      <4>1. CASE j = Len(f) + 1
        <5>1. i \in DOMAIN f /\ F[k][i] = f[i] /\ F[k][j] = s[k]
          BY <3>2, <3>6, <4>1
        <5>2. PICK a \in 1 .. k - 1 : f[i] = s[a]
          BY <3>3, <5>1
        <5> QED
          BY <2>0, <5>1, <5>2
      <4>2. CASE j # Len(f) + 1
        <5>1. i \in DOMAIN f /\ j \in DOMAIN f /\ F[k][i] = f[i] /\ F[k][j] = f[j]
          BY <3>2, <3>6, <4>2
        <5>2. PICK a, b \in 1 .. k - 1 : a < b /\ f[i] = s[a] /\ f[j] = s[b]
          BY <3>3, <3>6, <5>1
        <5> QED
          BY <2>0, <5>1, <5>2
      <4> QED
        BY <4>1, <4>2
    <3> QED
      BY <3>2, <3>4, <3>5, <3>6
  <2> QED
    BY <2>1, <2>2
<1> HIDE DEF P
<1>10. P(n)
  <2> DEFINE T == {k \in 0 .. n : ~ P(k)}
  <2> SUFFICES ASSUME T # {} PROVE FALSE
    BY <1>0
  <2>0. T \subseteq Nat
    OBVIOUS
  <2> HIDE DEF T
  <2>1. PICK m \in T : \A k \in T : m <= k
    BY <2>0, Least
  <2> USE DEF T
  <2>2. m \in 1 .. n
    BY <1>8, <2>1
  <2>3. P(m - 1)
    BY <2>1, <2>2
  <2> QED
    BY <1>9, <2>2, <2>3
<1>11. Q(Kept(s, S), DOMAIN s)
  <2>1. DOMAIN s = 1 .. n
    BY <1>0
  <2> HIDE DEF Q, n
  <2> QED
    BY <1>6, <1>10, <2>1 DEF P
<1> HIDE DEF n, A
<1> QED
  BY <1>11 DEF IsKept
LEMMA KeptTyped ==
  ASSUME NEW U, NEW S, NEW s, NEW q, IsKept(q, s, U, S)
  PROVE  q \in Seq(U) /\ DOMAIN q \subseteq Nat /\ \A i \in DOMAIN q : q[i] \in U \cap S
BY DEF IsKept

\* A list without one of its elements.
LEMMA RemovalFacts ==
  ASSUME NEW U, NEW s \in Seq(U), NEW k \in DOMAIN s
  PROVE  /\ RemoveAt(s, k) \in Seq(U)
         /\ \A i \in DOMAIN RemoveAt(s, k) : \E a \in DOMAIN s : RemoveAt(s, k)[i] = s[a]
         /\ \A i, j \in DOMAIN RemoveAt(s, k) : i # j =>
              \E a, b \in DOMAIN s : a # b /\ RemoveAt(s, k)[i] = s[a] /\ RemoveAt(s, k)[j] = s[b]
<1> DEFINE n == Len(s)
           p == SubSeq(s, 1, k - 1)
           q == SubSeq(s, k + 1, n)
           r == RemoveAt(s, k)
           from(i) == IF i < k THEN i ELSE i + 1
<1>1. n \in Nat /\ DOMAIN s = 1 .. n /\ k \in 1 .. n
  OBVIOUS
<1>2. p \in Seq(U) /\ Len(p) = k - 1 /\ \A i \in 1 .. k - 1 : p[i] = s[i]
  <2>1. /\ p \in Seq(U)
        /\ Len(p) = IF 1 <= k - 1 THEN k - 1 - 1 + 1 ELSE 0
        /\ \A i \in 1 .. k - 1 - 1 + 1 : p[i] = s[1 + i - 1]
    <3>1. 1 \in 1 .. n + 1 /\ k - 1 \in 1 - 1 .. n
      BY <1>1
    <3> QED
      BY <3>1, SubSeqProperties
  <2>2. k - 1 - 1 + 1 = k - 1 /\ \A i \in 1 .. k - 1 : 1 + i - 1 = i
    BY <1>1
  <2>3. Len(p) = k - 1
    <3> HIDE DEF p
    <3> QED
      BY <1>1, <2>1
  <2> HIDE DEF p
  <2> QED
    BY <2>1, <2>2, <2>3
<1>3. q \in Seq(U) /\ Len(q) = n - k /\ \A i \in 1 .. n - k : q[i] = s[k + i]
  <2>1. /\ q \in Seq(U)
        /\ Len(q) = IF k + 1 <= n THEN n - (k + 1) + 1 ELSE 0
        /\ \A i \in 1 .. n - (k + 1) + 1 : q[i] = s[k + 1 + i - 1]
    <3>1. k + 1 \in 1 .. n + 1 /\ n \in (k + 1) - 1 .. n
      BY <1>1
    <3> QED
      BY <3>1, SubSeqProperties
  <2>2. n - (k + 1) + 1 = n - k /\ \A i \in 1 .. n - k : k + 1 + i - 1 = k + i
    BY <1>1
  <2>3. Len(q) = n - k
    <3> HIDE DEF q
    <3> QED
      BY <1>1, <2>1
  <2> HIDE DEF q
  <2> QED
    BY <2>1, <2>2, <2>3
<1>4. r = p \o q
  BY DEF RemoveAt
<1> HIDE DEF p, q, r, n
<1>5. r \in Seq(U) /\ DOMAIN r = 1 .. n - 1
  BY <1>1, <1>2, <1>3, <1>4
<1>6. \A i \in 1 .. n - 1 : r[i] = s[from(i)] /\ from(i) \in 1 .. n
  <2> SUFFICES ASSUME NEW i \in 1 .. n - 1 PROVE r[i] = s[from(i)] /\ from(i) \in 1 .. n
    OBVIOUS
  <2>1. r[i] = IF i <= Len(p) THEN p[i] ELSE q[i - Len(p)]
    BY <1>1, <1>2, <1>3, <1>4, ConcatProperties
  <2>2. CASE i < k
    BY <1>1, <1>2, <2>1, <2>2
  <2>3. CASE ~ (i < k)
    <3>1. i - (k - 1) \in 1 .. n - k /\ k + (i - (k - 1)) = i + 1
      BY <1>1, <2>3
    <3>2. r[i] = q[i - (k - 1)]
      BY <1>1, <1>2, <2>1, <2>3
    <3>3. q[i - (k - 1)] = s[i + 1]
      BY <1>3, <3>1
    <3> QED
      BY <1>1, <2>3, <3>2, <3>3
  <2> QED
    BY <2>2, <2>3
<1>7. \A i, j \in 1 .. n - 1 : i # j => from(i) # from(j)
  BY <1>1
<1> HIDE DEF from
<1> QED
  BY <1>1, <1>5, <1>6, <1>7 DEF r
-----------------------------------------------------------------------------
\* A set of numbers that has 0, and each number with the one before, has them all.
Climbs(T, n) == 0 \in T /\ \A k \in 1 .. n : k - 1 \in T => k \in T

LEMMA Upwards ==
  ASSUME NEW n \in Nat, NEW T, Climbs(T, n)
  PROVE  n \in T
<1> DEFINE R == {k \in 0 .. n : k \notin T}
<1> SUFFICES ASSUME R # {} PROVE FALSE
  OBVIOUS
<1>1. R \subseteq Nat
  OBVIOUS
<1> HIDE DEF R
<1>2. PICK m \in R : \A k \in R : m <= k
  BY <1>1, Least
<1> USE DEF R
<1>3. m \in 1 .. n
  BY <1>2 DEF Climbs
<1>4. m - 1 \in T
  BY <1>2, <1>3
<1> QED
  BY <1>2, <1>3, <1>4 DEF Climbs

\* Sequences that are joined: every element has its place, in the order of the sequences and
\* within each.
Earlier(k, x, m, y) == k < m \/ (k = m /\ x < y)

IsJoined(q, ss, U, D) ==
  /\ q \in Seq(U)
  /\ \A k \in D : \A x \in DOMAIN ss[k] : \E i \in DOMAIN q : q[i] = ss[k][x]
  /\ \A i \in DOMAIN q : \E k \in D : \E x \in DOMAIN ss[k] : q[i] = ss[k][x]
  /\ \A i, j \in DOMAIN q : i < j =>
       \E k, m \in D : \E x \in DOMAIN ss[k], y \in DOMAIN ss[m] :
         Earlier(k, x, m, y) /\ q[i] = ss[k][x] /\ q[j] = ss[m][y]

\* One more sequence is joined.
LEMMA JoinedStep ==
  ASSUME NEW U, NEW ss, NEW n \in Nat, NEW k \in 1 .. n, ss[k] \in Seq(U),
         NEW q, IsJoined(q, ss, U, 1 .. k - 1)
  PROVE  IsJoined(q \o ss[k], ss, U, 1 .. k)
<1> DEFINE s == ss[k]
           r == q \o s
<1>1. /\ q \in Seq(U) /\ s \in Seq(U) /\ k \in Nat
      /\ Len(q) \in Nat /\ DOMAIN q = 1 .. Len(q)
      /\ Len(s) \in Nat /\ DOMAIN s = 1 .. Len(s)
  BY DEF IsJoined
<1>2. /\ r \in Seq(U) /\ DOMAIN r = 1 .. Len(q) + Len(s)
      /\ \A i \in 1 .. Len(q) : r[i] = q[i]
      /\ \A x \in 1 .. Len(s) : r[Len(q) + x] = s[x]
  BY <1>1
<1>3. \A m \in 1 .. k : m # k => m \in 1 .. k - 1
  BY <1>1
<1>4. 1 .. k - 1 \subseteq 1 .. k /\ k \in 1 .. k /\ \A m \in 1 .. k - 1 : m < k
  BY <1>1
<1> HIDE DEF r
<1>5. ASSUME NEW m \in 1 .. k, NEW x \in DOMAIN ss[m]
      PROVE  \E i \in DOMAIN r : r[i] = ss[m][x]
  <2>1. CASE m = k
    <3>1. x \in 1 .. Len(s) /\ Len(q) + x \in DOMAIN r
      BY <1>1, <1>2, <2>1
    <3> QED
      BY <1>2, <2>1, <3>1
  <2>2. CASE m # k
    <3>1. PICK i \in DOMAIN q : q[i] = ss[m][x]
      BY <1>3, <2>2 DEF IsJoined
    <3>2. i \in DOMAIN r /\ r[i] = q[i]
      BY <1>1, <1>2
    <3> QED
      BY <3>1, <3>2
  <2> QED
    BY <2>1, <2>2
<1>6. ASSUME NEW i \in DOMAIN r
      PROVE  \/ i \in DOMAIN q /\ r[i] = q[i]
             \/ i > Len(q) /\ i - Len(q) \in DOMAIN s /\ r[i] = s[i - Len(q)]
  <2>1. i \in 1 .. Len(q) + Len(s)
    BY <1>2
  <2>2. CASE i <= Len(q)
    BY <1>1, <1>2, <2>1, <2>2
  <2>3. CASE i > Len(q)
    <3>1. i - Len(q) \in 1 .. Len(s) /\ Len(q) + (i - Len(q)) = i
      BY <1>1, <2>1, <2>3
    <3> QED
      BY <1>1, <1>2, <2>3, <3>1
  <2> QED
    BY <1>1, <2>1, <2>2, <2>3
<1>7. ASSUME NEW i \in DOMAIN r
      PROVE  \E m \in 1 .. k : \E x \in DOMAIN ss[m] : r[i] = ss[m][x]
  <2>1. CASE i \in DOMAIN q /\ r[i] = q[i]
    <3>1. PICK m \in 1 .. k - 1 : \E x \in DOMAIN ss[m] : q[i] = ss[m][x]
      BY <2>1 DEF IsJoined
    <3> QED
      BY <1>4, <2>1, <3>1
  <2> QED
    BY <1>4, <1>6, <2>1
<1>8. ASSUME NEW i \in DOMAIN r, NEW j \in DOMAIN r, i < j
      PROVE  \E l, m \in 1 .. k : \E x \in DOMAIN ss[l], y \in DOMAIN ss[m] :
               Earlier(l, x, m, y) /\ r[i] = ss[l][x] /\ r[j] = ss[m][y]
  <2>1. CASE i \in DOMAIN q /\ r[i] = q[i] /\ j \in DOMAIN q /\ r[j] = q[j]
    <3>1. PICK l \in 1 .. k - 1, m \in 1 .. k - 1 : \E x \in DOMAIN ss[l], y \in DOMAIN ss[m] :
            Earlier(l, x, m, y) /\ q[i] = ss[l][x] /\ q[j] = ss[m][y]
      BY <1>8, <2>1 DEF IsJoined
    <3> QED
      BY <1>4, <2>1, <3>1
  <2>2. CASE /\ i \in DOMAIN q /\ r[i] = q[i]
             /\ j - Len(q) \in DOMAIN s /\ r[j] = s[j - Len(q)]
    <3>1. PICK l \in 1 .. k - 1 : \E x \in DOMAIN ss[l] : q[i] = ss[l][x]
      BY <2>2 DEF IsJoined
    <3>2. l \in 1 .. k /\ l < k
      BY <1>4
    <3> QED
      BY <1>4, <2>2, <3>1, <3>2 DEF Earlier
  <2>3. CASE /\ i - Len(q) \in DOMAIN s /\ r[i] = s[i - Len(q)]
             /\ j - Len(q) \in DOMAIN s /\ r[j] = s[j - Len(q)]
    <3>1. i - Len(q) < j - Len(q)
      BY <1>1, <1>2, <1>8
    <3> QED
      BY <1>4, <2>3, <3>1 DEF Earlier
  <2>4. ~ (i > Len(q) /\ j \in DOMAIN q)
    BY <1>1, <1>2, <1>8
  <2> QED
    BY <1>6, <2>1, <2>2, <2>3, <2>4
<1> QED
  BY <1>2, <1>5, <1>7, <1>8 DEF IsJoined, r

LEMMA FlattenFacts ==
  ASSUME NEW U, NEW ss \in Seq(Seq(U))
  PROVE  IsJoined(FlattenSeq(ss), ss, U, DOMAIN ss)
<1> DEFINE n == Len(ss)
<1>1. n \in Nat /\ DOMAIN ss = 1 .. n /\ \A k \in 1 .. n : ss[k] \in Seq(U)
  OBVIOUS
<1>2. CASE n = 0
  <2>1. FlattenSeq(ss) = <<>>
    BY <1>2 DEF FlattenSeq
  <2> QED
    BY <1>1, <1>2, <2>1 DEF IsJoined
<1>3. CASE n # 0
  <2> DEFINE A == Seq(U)
             t == [k \in 1 .. n |-> [q \in A |-> q \o ss[k]]]
             e(f, k) == IF k = 1 THEN ss[k] ELSE f[k - 1] \o ss[k]
             F == CHOOSE f : f = [k \in 1 .. n |-> e(f, k)]
  <2>1. IsStep(t, n, A) /\ <<>> \in A
    BY <1>1 DEF IsStep
  <2>2. PICK g : Recurses(g, n, A, <<>>, t)
    <3> HIDE DEF n, A, t
    <3> QED
      BY <1>1, <2>1, RecursionExists
  <2>3. \A k \in 1 .. n : g[k] = g[k - 1] \o ss[k]
    <3> SUFFICES ASSUME NEW k \in 1 .. n PROVE g[k] = g[k - 1] \o ss[k]
      OBVIOUS
    <3>1. g[k - 1] \in A /\ g[k] = t[k][g[k - 1]]
      <4>1. k - 1 \in 0 .. n
        BY <1>1
      <4> HIDE DEF n, A, t
      <4> QED
        BY <2>2, <4>1 DEF Recurses
    <3> QED
      BY <3>1
  <2>4. g[0] = <<>> /\ g \in [0 .. n -> A]
    BY <2>2 DEF Recurses
  <2> HIDE DEF t
  <2> DEFINE f == [k \in 1 .. n |-> g[k]]
  <2>5. f = [k \in 1 .. n |-> e(f, k)]
    <3>1. ASSUME NEW k \in 1 .. n
          PROVE  f[k] = e(f, k)
      <4>1. CASE k = 1
        <5>1. g[k] = <<>> \o ss[k]
          <6>1. k - 1 = 0
            BY <4>1
          <6> QED
            BY <2>3, <2>4, <6>1
        <5>2. ss[k] \in Seq(U)
          BY <1>1
        <5>3. <<>> \o ss[k] = ss[k]
          BY <5>2
        <5> QED
          BY <4>1, <5>1, <5>3
      <4>2. CASE k # 1
        <5>1. k - 1 \in 1 .. n
          BY <1>1, <4>2
        <5> QED
          BY <2>3, <4>2, <5>1
      <4> QED
        BY <4>1, <4>2
    <3>2. f = [k \in 1 .. n |-> f[k]]
      OBVIOUS
    <3> HIDE DEF f, e
    <3> QED
      BY <3>1, <3>2
  <2>6. F = [k \in 1 .. n |-> e(F, k)]
    <3> HIDE DEF f, e
    <3> QED
      BY <2>5
  <2>7. FlattenSeq(ss) = F[n]
    BY <1>3 DEF FlattenSeq
  <2> HIDE DEF F, f
  <2>8. \A k \in 1 .. n : F[k] = IF k = 1 THEN ss[k] ELSE F[k - 1] \o ss[k]
    <3> HIDE DEF n
    <3> QED
      BY <2>6, Zenon
  <2> DEFINE G(k) == IF k = 0 THEN <<>> ELSE F[k]
             T == {k \in 0 .. n : IsJoined(G(k), ss, U, 1 .. k)}
  <2>9. 0 \in T
    BY <1>1 DEF IsJoined
  <2>10. ASSUME NEW k \in 1 .. n, k - 1 \in T
         PROVE  k \in T
    <3>1. G(k) = G(k - 1) \o ss[k]
      <4>1. CASE k = 1
        <5>1. F[1] = ss[1] /\ ss[1] \in Seq(U)
          BY <1>1, <2>8, <4>1
        <5> QED
          BY <4>1, <5>1
      <4>2. CASE k # 1
        <5>1. F[k] = F[k - 1] \o ss[k]
          BY <2>8, <4>2
        <5>2. k # 0 /\ k - 1 # 0
          BY <1>1, <4>2
        <5> QED
          BY <5>1, <5>2
      <4> QED
        BY <4>1, <4>2
    <3>2. IsJoined(G(k - 1), ss, U, 1 .. k - 1) /\ ss[k] \in Seq(U) /\ n \in Nat
      BY <1>1, <2>10
    <3> HIDE DEF G, n
    <3>3. IsJoined(G(k - 1) \o ss[k], ss, U, 1 .. k)
      BY <3>2, JoinedStep
    <3>4. k \in 0 .. n
      BY <3>2
    <3> QED
      BY <3>1, <3>3, <3>4
  <2>11. n \in T
    <3> HIDE DEF T, n
    <3> QED
      BY <1>1, <2>9, <2>10, Upwards DEF Climbs
  <2>12. G(n) = F[n] /\ IsJoined(G(n), ss, U, 1 .. n)
    BY <1>3, <2>11
  <2> HIDE DEF G, n
  <2> QED
    BY <1>1, <2>7, <2>12
<1> QED
  BY <1>2, <1>3

\* Two lists that are joined.
LEMMA JoinedRange ==
  ASSUME NEW U, NEW s \in Seq(U), NEW t \in Seq(U)
  PROVE  /\ s \o t \in Seq(U)
         /\ \A e \in Range(s \o t) : e \in Range(s) \/ e \in Range(t)
         /\ \A e \in Range(s) \cup Range(t) : e \in Range(s \o t)
         /\ \A i, j \in DOMAIN (s \o t) : i < j =>
              \/ i \in DOMAIN s /\ j \in DOMAIN s /\ (s \o t)[i] = s[i] /\ (s \o t)[j] = s[j]
              \/ (s \o t)[i] \in Range(s) /\ (s \o t)[j] \in Range(t)
              \/ \E a, b \in DOMAIN t : a < b /\ (s \o t)[i] = t[a] /\ (s \o t)[j] = t[b]
<1> DEFINE n == Len(s)
           m == Len(t)
           r == s \o t
<1>1. /\ n \in Nat /\ m \in Nat /\ DOMAIN s = 1 .. n /\ DOMAIN t = 1 .. m
      /\ r \in Seq(U) /\ DOMAIN r = 1 .. n + m
      /\ \A i \in 1 .. n : r[i] = s[i]
      /\ \A i \in 1 .. m : r[n + i] = t[i]
  OBVIOUS
<1> HIDE DEF r, n, m
<1>2. \A i \in 1 .. n + m : i \in 1 .. n \/ (i - n \in 1 .. m /\ n + (i - n) = i /\ i > n)
  BY <1>1
<1>3. \A i \in 1 .. n : i \in 1 .. n + m
  BY <1>1
<1>4. \A i \in 1 .. m : n + i \in 1 .. n + m
  BY <1>1
<1>5. \A i \in DOMAIN r : r[i] \in Range(s) \/ r[i] \in Range(t)
  <2> SUFFICES ASSUME NEW i \in 1 .. n + m PROVE r[i] \in Range(s) \/ r[i] \in Range(t)
    BY <1>1
  <2>1. CASE i \in 1 .. n
    BY <1>1, <2>1 DEF Range
  <2>2. CASE i - n \in 1 .. m /\ n + (i - n) = i
    <3>1. r[i] = t[i - n]
      BY <1>1, <2>2
    <3> QED
      BY <1>1, <2>2, <3>1 DEF Range
  <2> QED
    BY <1>2, <2>1, <2>2
<1>6. \A e \in Range(s) \cup Range(t) : e \in Range(r)
  <2>1. \A i \in 1 .. n : s[i] \in Range(r)
    BY <1>1, <1>3 DEF Range
  <2>2. \A i \in 1 .. m : t[i] \in Range(r)
    BY <1>1, <1>4 DEF Range
  <2> QED
    BY <1>1, <2>1, <2>2 DEF Range
<1>7. ASSUME NEW i \in DOMAIN r, NEW j \in DOMAIN r, i < j
      PROVE  \/ i \in DOMAIN s /\ j \in DOMAIN s /\ r[i] = s[i] /\ r[j] = s[j]
             \/ r[i] \in Range(s) /\ r[j] \in Range(t)
             \/ \E a, b \in DOMAIN t : a < b /\ r[i] = t[a] /\ r[j] = t[b]
  <2>1. i \in 1 .. n + m /\ j \in 1 .. n + m
    BY <1>1
  <2>2. CASE i \in 1 .. n /\ j \in 1 .. n
    BY <1>1, <2>2
  <2>3. CASE i \in 1 .. n /\ j - n \in 1 .. m /\ n + (j - n) = j
    <3>1. r[j] = t[j - n] /\ r[i] = s[i]
      BY <1>1, <2>3
    <3> QED
      BY <1>1, <2>3, <3>1 DEF Range
  <2>4. CASE i - n \in 1 .. m /\ n + (i - n) = i /\ j - n \in 1 .. m /\ n + (j - n) = j
    <3>1. r[j] = t[j - n] /\ r[i] = t[i - n]
      BY <1>1, <2>4
    <3>2. i - n < j - n
      BY <1>1, <1>7, <2>1
    <3> QED
      BY <1>1, <2>4, <3>1, <3>2
  <2>5. ~ (i > n /\ j \in 1 .. n)
    BY <1>1, <1>7, <2>1
  <2> QED
    BY <1>2, <2>1, <2>2, <2>3, <2>4, <2>5
<1> QED
  BY <1>1, <1>5, <1>6, <1>7 DEF r, Range
=============================================================================
