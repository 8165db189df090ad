----------------------------- MODULE TgcsProofs -----------------------------
(***************************************************************************)
(* Proofs about the two halves of trafficgen/tgcs.ts, TrafficGen and TgRun.*)
(*                                                                         *)
(* TrafficGen, for every network, test and number of changes: whatever     *)
(* order UEs answer in, every flow has its containers, apart from those of *)
(* other flows, the table has one order, and no session is left out.       *)
(* The invariant says what has been gathered (Gathered), that rows of the  *)
(* table have ports one after the other and containers of their own        *)
(* (Planned), that flows of one UE come in turn and stay so when they are  *)
(* sorted (Stable), and that what UEs have told is found and carried to    *)
(* the table (Told, Carried).                                              *)
(*                                                                         *)
(* TgRun, for every number of hosts, containers, invocations and faults: a *)
(* full run that succeeds has its own results, servers are there before    *)
(* clients, and nothing is deleted before it is saved.  The script is in   *)
(* the order of its phases, and has every step of each (ScriptFacts).  So  *)
(* the step at hand tells which steps have been done, and the invariant    *)
(* says what these have established and nothing since, neither the         *)
(* remaining steps nor anybody else, has undone.                           *)
(***************************************************************************)
EXTENDS TgRun, TrafficGen, ListProofs, FiniteSetTheorems

-----------------------------------------------------------------------------
(* Sorting.                                                                  *)

\* A total order of 1 .. n, and the place of a number in it.
IsOrder(R, n) ==
  /\ \A i \in 1 .. n : <<i, i>> \in R
  /\ \A i, j \in 1 .. n : <<i, j>> \in R \/ <<j, i>> \in R
  /\ \A i, j \in 1 .. n : <<i, j>> \in R /\ <<j, i>> \in R => i = j
  /\ \A i, j, k \in 1 .. n : <<i, j>> \in R /\ <<j, k>> \in R => <<i, k>> \in R

Down(R, n, i) == {j \in 1 .. n : <<j, i>> \in R}

LEMMA DownFacts ==
  ASSUME NEW n \in Nat, NEW R, IsOrder(R, n)
  PROVE  /\ \A i \in 1 .. n : Cardinality(Down(R, n, i)) \in 1 .. n
         /\ \A i, j \in 1 .. n : <<i, j>> \in R /\ i # j =>
              Cardinality(Down(R, n, i)) < Cardinality(Down(R, n, j))
         /\ \A p \in 1 .. n : \E i \in 1 .. n : Cardinality(Down(R, n, i)) = p
<1> DEFINE place == [i \in 1 .. n |-> Cardinality(Down(R, n, i))]
<1>1. IsFiniteSet(1 .. n) /\ Cardinality(1 .. n) = n
  <2>1. 1 \in Int /\ n \in Int
    OBVIOUS
  <2>2. IsFiniteSet(1 .. n) /\ Cardinality(1 .. n) = IF 1 > n THEN 0 ELSE n - 1 + 1
    BY <2>1, FS_Interval
  <2> QED
    BY <2>2
<1>2. ASSUME NEW i \in 1 .. n
      PROVE  IsFiniteSet(Down(R, n, i)) /\ Cardinality(Down(R, n, i)) \in 1 .. n
  <2>1. Down(R, n, i) \in SUBSET (1 .. n) /\ i \in Down(R, n, i)
    BY DEF Down, IsOrder
  <2>2. /\ IsFiniteSet(Down(R, n, i))
        /\ Cardinality(Down(R, n, i)) <= n
    BY <1>1, <2>1, FS_Subset
  <2>3. Cardinality(Down(R, n, i)) \in Nat
    BY <2>2, FS_CardinalityType
  <2>4. Cardinality(Down(R, n, i)) # 0
    BY <2>1, <2>2, FS_EmptySet
  <2> QED
    BY <2>2, <2>3, <2>4
<1>3. ASSUME NEW i \in 1 .. n, NEW j \in 1 .. n, <<i, j>> \in R, i # j
      PROVE  Cardinality(Down(R, n, i)) < Cardinality(Down(R, n, j))
  <2>1. Down(R, n, i) \in SUBSET Down(R, n, j)
    BY <1>3 DEF Down, IsOrder
  <2>2. j \in Down(R, n, j) /\ j \notin Down(R, n, i)
    BY <1>3 DEF Down, IsOrder
  <2>3. /\ Cardinality(Down(R, n, i)) <= Cardinality(Down(R, n, j))
        /\ Cardinality(Down(R, n, j)) = Cardinality(Down(R, n, i)) => Down(R, n, j) = Down(R, n, i)
    BY <1>2, <2>1, FS_Subset
  <2> QED
    BY <1>2, <2>2, <2>3
<1>4. place \in [1 .. n -> 1 .. n]
  BY <1>2
<1>5. \A i, j \in 1 .. n : place[i] = place[j] => i = j
  <2> SUFFICES ASSUME NEW i \in 1 .. n, NEW j \in 1 .. n, place[i] = place[j], i # j
               PROVE  FALSE
    OBVIOUS
  <2>1. Cardinality(Down(R, n, i)) = Cardinality(Down(R, n, j))
    OBVIOUS
  <2>2. <<i, j>> \in R \/ <<j, i>> \in R
    BY DEF IsOrder
  <2> QED
    BY <1>2, <1>3, <2>1, <2>2
<1>6. \A p \in 1 .. n : \E i \in 1 .. n : place[i] = p
  <2>1. place \in Injection(1 .. n, 1 .. n)
    BY <1>4, <1>5 DEF Injection, IsInjective
  <2> HIDE DEF place
  <2>2. place \in Surjection(1 .. n, 1 .. n)
    BY <1>1, <2>1, FS_Injection
  <2> QED
    BY <2>2 DEF Surjection
<1> QED
  BY <1>2, <1>3, <1>6

\* Flow i stays before flow j.
Leads(fs, i, j) == Before(fs[i], fs[j]) \/ (i <= j /\ ~ Before(fs[j], fs[i]))

Resorted(q, fs) ==
  /\ q \in Seq(Flows) /\ Len(q) = Len(fs)
  /\ \A i \in DOMAIN fs : \E p \in DOMAIN q : q[p] = fs[i]
  /\ \A p \in DOMAIN q : \E i \in DOMAIN fs : q[p] = fs[i]
  /\ \A p, r \in DOMAIN q : p < r =>
       \E i, j \in DOMAIN fs : i # j /\ Leads(fs, i, j) /\ q[p] = fs[i] /\ q[r] = fs[j]

LEMMA FlowShape ==
  ASSUME NEW f \in Flows
  PROVE  /\ f.group \in DOMAIN FlowDefs /\ f.group \in Nat
         /\ f.sub \in Supis /\ f.sub \in Nat
         /\ f.dn \in DNs /\ f.dn[1] \in Nat /\ f.dn[2] \in Nat
         /\ f.ct \in UEs /\ f.addr \in UeAddrs
<1>1. f.group \in DOMAIN FlowDefs /\ f.sub \in Supis /\ f.dn \in DNs /\ f.ct \in UEs /\ f.addr \in UeAddrs
  BY DEF Flows
<1>2. DOMAIN FlowDefs \subseteq Nat
  BY FlowAssumption
<1>3. Supis \subseteq Nat
  <2> SUFFICES ASSUME NEW s \in Supis PROVE s \in Nat
    OBVIOUS
  <2>1. PICK ct \in UEs : s \in Range(Subs[ct])
    BY DEF Supis
  <2>2. Subs[ct] \in Seq(Nat)
    BY NetworkAssumption
  <2> QED
    BY <2>1, <2>2 DEF Range
<1>4. DNs \subseteq Nat \X Nat
  BY NetworkAssumption
<1> QED
  BY <1>1, <1>2, <1>3, <1>4

LEMMA LeadsOrder ==
  ASSUME NEW fs \in Seq(Flows)
  PROVE  IsOrder({x \in (1 .. Len(fs)) \X (1 .. Len(fs)) : Leads(fs, x[1], x[2])}, Len(fs))
<1> DEFINE n == Len(fs)
           R == {x \in (1 .. n) \X (1 .. n) : Leads(fs, x[1], x[2])}
           g(i) == fs[i].group
           d(i) == fs[i].dn[2]
           s(i) == fs[i].sub
<1>1. \A i \in 1 .. n : g(i) \in Nat /\ d(i) \in Nat /\ s(i) \in Nat
  <2> SUFFICES ASSUME NEW i \in 1 .. n PROVE g(i) \in Nat /\ d(i) \in Nat /\ s(i) \in Nat
    OBVIOUS
  <2>1. fs[i] \in Flows
    OBVIOUS
  <2> QED
    BY <2>1, FlowShape
<1>2. \A i, j \in 1 .. n :
        <<i, j>> \in R <=>
          \/ g(i) < g(j)
          \/ g(i) = g(j) /\ d(i) < d(j)
          \/ g(i) = g(j) /\ d(i) = d(j) /\ s(i) < s(j)
          \/ g(i) = g(j) /\ d(i) = d(j) /\ s(i) = s(j) /\ i <= j
  <2> SUFFICES ASSUME NEW i \in 1 .. n, NEW j \in 1 .. n
               PROVE  Leads(fs, i, j) <=>
                        \/ g(i) < g(j)
                        \/ g(i) = g(j) /\ d(i) < d(j)
                        \/ g(i) = g(j) /\ d(i) = d(j) /\ s(i) < s(j)
                        \/ g(i) = g(j) /\ d(i) = d(j) /\ s(i) = s(j) /\ i <= j
    OBVIOUS
  <2>1. /\ g(i) \in Nat /\ d(i) \in Nat /\ s(i) \in Nat /\ i \in Nat
        /\ g(j) \in Nat /\ d(j) \in Nat /\ s(j) \in Nat /\ j \in Nat
    BY <1>1
  <2>2. Leads(fs, i, j) <=>
          \/ g(i) < g(j)
          \/ g(i) = g(j) /\ d(i) < d(j)
          \/ g(i) = g(j) /\ d(i) = d(j) /\ s(i) < s(j)
          \/ /\ i <= j
             /\ ~ \/ g(j) < g(i)
                  \/ g(j) = g(i) /\ d(j) < d(i)
                  \/ g(j) = g(i) /\ d(j) = d(i) /\ s(j) < s(i)
    BY DEF Leads, Before
  <2> HIDE DEF g, d, s
  <2> QED
    BY <2>1, <2>2
<1>3. 1 .. n \subseteq Nat
  OBVIOUS
<1> HIDE DEF R, g, d, s, n
<1>4. \A i \in 1 .. n : <<i, i>> \in R
  BY <1>2, <1>3
<1>5. \A i, j \in 1 .. n : <<i, j>> \in R \/ <<j, i>> \in R
  <2> SUFFICES ASSUME NEW i \in 1 .. n, NEW j \in 1 .. n PROVE <<i, j>> \in R \/ <<j, i>> \in R
    OBVIOUS
  <2>1. /\ g(i) \in Nat /\ d(i) \in Nat /\ s(i) \in Nat /\ i \in Nat
        /\ g(j) \in Nat /\ d(j) \in Nat /\ s(j) \in Nat /\ j \in Nat
    BY <1>1, <1>3
  <2> QED
    BY <1>2, <2>1
<1>6. \A i, j \in 1 .. n : <<i, j>> \in R /\ <<j, i>> \in R => i = j
  BY <1>1, <1>2, <1>3
<1>7. \A i, j, k \in 1 .. n : <<i, j>> \in R /\ <<j, k>> \in R => <<i, k>> \in R
  <2> SUFFICES ASSUME NEW i \in 1 .. n, NEW j \in 1 .. n, NEW k \in 1 .. n,
                      <<i, j>> \in R, <<j, k>> \in R
               PROVE  <<i, k>> \in R
    OBVIOUS
  <2>1. /\ g(i) \in Nat /\ d(i) \in Nat /\ s(i) \in Nat /\ i \in Nat
        /\ g(j) \in Nat /\ d(j) \in Nat /\ s(j) \in Nat /\ j \in Nat
        /\ g(k) \in Nat /\ d(k) \in Nat /\ s(k) \in Nat /\ k \in Nat
    BY <1>1, <1>3
  <2> QED
    BY <1>2, <2>1
<1>8. IsOrder(R, n)
  BY <1>4, <1>5, <1>6, <1>7 DEF IsOrder
<1> QED
  BY <1>8 DEF R, n

LEMMA SortedFacts ==
  ASSUME NEW fs \in Seq(Flows)
  PROVE  Resorted(Sorted(fs), fs)
<1> DEFINE n == Len(fs)
           R == {x \in (1 .. n) \X (1 .. n) : Leads(fs, x[1], x[2])}
           pl(i) == Cardinality(Down(R, n, i))
           at(p) == CHOOSE i \in 1 .. n : pl(i) = p
           q == Sorted(fs)
<1>1. n \in Nat /\ DOMAIN fs = 1 .. n /\ \A i \in 1 .. n : fs[i] \in Flows
  OBVIOUS
<1>2. IsOrder(R, n)
  BY LeadsOrder
<1>3. \A i, j \in 1 .. n : <<i, j>> \in R <=> Leads(fs, i, j)
  OBVIOUS
<1>4. q = [p \in 1 .. n |-> fs[at(p)]]
  <2> DEFINE Place2(i) == Cardinality({j \in DOMAIN fs : Before(fs[j], fs[i]) \/ (j <= i /\ ~Before(fs[i], fs[j]))})
  <2>1. q = [p \in DOMAIN fs |-> fs[CHOOSE i \in DOMAIN fs : Place2(i) = p]]
    BY DEF Sorted
  <2>2. \A i \in 1 .. n : Place2(i) = pl(i)
    <3> SUFFICES ASSUME NEW i \in 1 .. n PROVE Place2(i) = pl(i)
      OBVIOUS
    <3>1. {j \in DOMAIN fs : Before(fs[j], fs[i]) \/ (j <= i /\ ~Before(fs[i], fs[j]))} = Down(R, n, i)
      BY <1>1, <1>3 DEF Down, Leads
    <3> QED
      BY <3>1
  <2>3. DOMAIN fs = 1 .. n
    BY <1>1
  <2> HIDE DEF Place2, pl, n
  <2>4. \A p : (CHOOSE i \in DOMAIN fs : Place2(i) = p) = (CHOOSE i \in 1 .. n : pl(i) = p)
    <3> TAKE p
    <3>1. \A i : (i \in DOMAIN fs /\ Place2(i) = p) <=> (i \in 1 .. n /\ pl(i) = p)
      BY <2>2, <2>3
    <3> QED
      BY <3>1
  <2>5. \A p \in DOMAIN fs : q[p] = fs[at(p)]
    <3> HIDE DEF q
    <3> QED
      BY <2>1, <2>4
  <2> HIDE DEF at, q
  <2> QED
    BY <2>1, <2>3, <2>5
<1>5. /\ \A i \in 1 .. n : pl(i) \in 1 .. n
      /\ \A i, j \in 1 .. n : <<i, j>> \in R /\ i # j => pl(i) < pl(j)
      /\ \A p \in 1 .. n : \E i \in 1 .. n : pl(i) = p
  <2> HIDE DEF R, n
  <2> QED
    BY ZenonT(40), <1>1, <1>2, DownFacts
<1> HIDE DEF R, pl, q, n
<1>6. \A p \in 1 .. n : at(p) \in 1 .. n /\ pl(at(p)) = p
  BY <1>5
<1> HIDE DEF at
<1>7. q \in Seq(Flows) /\ Len(q) = n /\ DOMAIN q = 1 .. n
  BY <1>1, <1>4, <1>6
<1>8. \A i \in 1 .. n : \E p \in 1 .. n : q[p] = fs[i]
  <2> SUFFICES ASSUME NEW i \in 1 .. n PROVE \E p \in 1 .. n : q[p] = fs[i]
    OBVIOUS
  <2>1. pl(i) \in 1 .. n /\ at(pl(i)) \in 1 .. n /\ pl(at(pl(i))) = pl(i)
    BY <1>5, <1>6
  <2>2. at(pl(i)) = i
    <3> SUFFICES ASSUME at(pl(i)) # i PROVE FALSE
      OBVIOUS
    <3>1. pl(at(pl(i))) < pl(i) \/ pl(i) < pl(at(pl(i)))
      BY <1>2, <1>5, <2>1 DEF IsOrder
    <3> QED
      BY <1>1, <2>1, <3>1
  <2> QED
    BY <1>4, <2>1, <2>2
<1>9. ASSUME NEW p \in DOMAIN q, NEW r \in DOMAIN q, p < r
      PROVE  \E i, j \in DOMAIN fs : i # j /\ Leads(fs, i, j) /\ q[p] = fs[i] /\ q[r] = fs[j]
  <2>0. p \in 1 .. n /\ r \in 1 .. n
    BY <1>7
  <2>1. at(p) \in 1 .. n /\ at(r) \in 1 .. n /\ pl(at(p)) = p /\ pl(at(r)) = r
    BY <1>6, <2>0
  <2>2. at(p) # at(r)
    BY <1>1, <1>9, <2>1
  <2>3. <<at(p), at(r)>> \in R
    <3>1. CASE <<at(r), at(p)>> \in R
      <4>1. r < p
        BY <1>5, <2>1, <2>2, <3>1
      <4> QED
        BY <1>1, <1>9, <2>0, <4>1
    <3> QED
      BY <1>2, <2>1, <3>1 DEF IsOrder
  <2>4. Leads(fs, at(p), at(r)) /\ q[p] = fs[at(p)] /\ q[r] = fs[at(r)]
    BY <1>3, <1>4, <2>0, <2>1, <2>3
  <2> QED
    BY <1>1, <2>1, <2>2, <2>4
<1>10. \A p \in 1 .. n : \E i \in 1 .. n : q[p] = fs[i]
  BY <1>4, <1>6
<1>11. /\ DOMAIN fs = 1 .. n /\ n = Len(fs)
       /\ q \in Seq(Flows) /\ Len(q) = n /\ DOMAIN q = 1 .. n
  BY <1>1, <1>7 DEF n
<1>12. Resorted(q, fs)
  <2>1. \A i \in DOMAIN fs : \E p \in DOMAIN q : q[p] = fs[i]
    BY <1>8, <1>11
  <2>2. \A p \in DOMAIN q : \E i \in DOMAIN fs : q[p] = fs[i]
    BY <1>10, <1>11
  <2> QED
    BY <1>9, <1>11, <2>1, <2>2 DEF Resorted
<1> QED
  BY <1>12 DEF q
-----------------------------------------------------------------------------
(* Sessions.                                                                 *)

\* UEs of the container have them, at most one in a Data Network.
Sessions(ct, q) ==
  /\ q \in Seq(Links)
  /\ \A i \in DOMAIN q : q[i].sub \in Range(Subs[ct]) /\ q[i].addr.dn \in Range(SubscribedDN[q[i].sub])
  /\ \A i, j \in DOMAIN q : q[i].sub = q[j].sub /\ q[i].addr.dn = q[j].addr.dn => i = j

LEMMA NetFacts ==
  ASSUME NEW ct \in UEs
  PROVE  /\ Subs[ct] \in Seq(Supis) /\ Range(Subs[ct]) \subseteq Supis
         /\ \A i, j \in DOMAIN Subs[ct] : Subs[ct][i] = Subs[ct][j] => i = j
<1>1. Subs[ct] \in Seq(Nat) /\ IsInjective(Subs[ct])
  BY NetworkAssumption
<1>2. Range(Subs[ct]) \subseteq Supis
  BY DEF Supis
<1>3. \A i \in DOMAIN Subs[ct] : Subs[ct][i] \in Range(Subs[ct])
  BY DEF Range
<1> QED
  BY <1>1, <1>2, <1>3 DEF IsInjective

LEMMA OwnerFacts ==
  ASSUME NEW a \in UEs, NEW b \in UEs, NEW sub, sub \in Range(Subs[a]), sub \in Range(Subs[b])
  PROVE  a = b
BY NetworkAssumption

LEMMA SubscribedFacts ==
  ASSUME NEW sub \in Supis
  PROVE  /\ SubscribedDN[sub] \in Seq(DNs) /\ Range(SubscribedDN[sub]) \subseteq DNs
         /\ \A i, j \in DOMAIN SubscribedDN[sub] : SubscribedDN[sub][i] = SubscribedDN[sub][j] => i = j
<1>1. SubscribedDN[sub] \in Seq(DNs) /\ IsInjective(SubscribedDN[sub])
  BY NetworkAssumption
<1> QED
  BY <1>1 DEF IsInjective, Range

LEMMA LinkShape ==
  ASSUME NEW l \in Links
  PROVE  l.sub \in Supis /\ l.addr \in UeAddrs /\ l.addr.dn \in DNs /\ l.addr.n \in Pool
BY DEF Links, UeAddrs

LEMMA Numbered ==
  ASSUME NEW sub \in Supis
  PROVE  Cardinality({t \in Supis : t <= sub}) \in Pool
<1> DEFINE T == {t \in Supis : t <= sub}
<1>1. IsFiniteSet(Supis) /\ 1 .. Cardinality(Supis) \subseteq Pool
  BY NetworkAssumption
<1>2. sub \in T
  <2>1. sub \in Nat
    <3>1. PICK ct \in UEs : sub \in Range(Subs[ct])
      BY DEF Supis
    <3>2. Subs[ct] \in Seq(Nat)
      BY NetworkAssumption
    <3> QED
      BY <3>1, <3>2 DEF Range
  <2> QED
    BY <2>1
<1>3. T \in SUBSET Supis
  OBVIOUS
<1> HIDE DEF T
<1>4. IsFiniteSet(T) /\ Cardinality(T) <= Cardinality(Supis)
  BY <1>1, <1>3, FS_Subset
<1>5. Cardinality(T) \in Nat /\ Cardinality(Supis) \in Nat /\ Cardinality(T) # 0
  BY <1>1, <1>2, <1>4, FS_CardinalityType, FS_EmptySet
<1>6. Cardinality(T) \in 1 .. Cardinality(Supis)
  BY <1>4, <1>5
<1> QED
  BY <1>1, <1>6 DEF T


LEMMA NoSessions ==
  ASSUME NEW ct \in UEs
  PROVE  Sessions(ct, <<>>)
BY DEF Sessions

\* Sessions of which some are left.
LEMMA FewerSessions ==
  ASSUME NEW ct \in UEs, NEW q, Sessions(ct, q), NEW r \in Seq(Links),
         \A i \in DOMAIN r : \E a \in DOMAIN q : r[i] = q[a],
         \A i, j \in DOMAIN r : i # j => \E a, b \in DOMAIN q : a # b /\ r[i] = q[a] /\ r[j] = q[b]
  PROVE  Sessions(ct, r)
BY DEF Sessions

LEMMA KeptSessions ==
  ASSUME NEW ct \in UEs, NEW q, Sessions(ct, q), NEW S
  PROVE  /\ Sessions(ct, Kept(q, S))
         /\ \A i \in DOMAIN Kept(q, S) : Kept(q, S)[i] \in S /\ Kept(q, S)[i] \in Range(q)
         /\ \A l \in Range(q) : l \in S => \E j \in DOMAIN Kept(q, S) : Kept(q, S)[j] = l
<1> DEFINE r == Kept(q, S)
<1>1. q \in Seq(Links)
  BY DEF Sessions
<1>2. IsKept(r, q, Links, S)
  BY <1>1, KeptFacts
<1> HIDE DEF r
<1>3. r \in Seq(Links) /\ \A i \in DOMAIN r : r[i] \in S
  BY <1>2 DEF IsKept
<1>4. \A i, j \in DOMAIN r : i < j => \E a, b \in DOMAIN q : a # b /\ r[i] = q[a] /\ r[j] = q[b]
  <2> SUFFICES ASSUME NEW i \in DOMAIN r, NEW j \in DOMAIN r, i < j
               PROVE  \E a, b \in DOMAIN q : a # b /\ r[i] = q[a] /\ r[j] = q[b]
    OBVIOUS
  <2>1. PICK a, b \in DOMAIN q : a < b /\ r[i] = q[a] /\ r[j] = q[b]
    BY <1>2 DEF IsKept
  <2>2. a # b
    BY <1>1, <2>1
  <2> QED
    BY <2>1, <2>2
<1>5. \A i, j \in DOMAIN r : i # j => \E a, b \in DOMAIN q : a # b /\ r[i] = q[a] /\ r[j] = q[b]
  <2> SUFFICES ASSUME NEW i \in DOMAIN r, NEW j \in DOMAIN r, i # j
               PROVE  \E a, b \in DOMAIN q : a # b /\ r[i] = q[a] /\ r[j] = q[b]
    OBVIOUS
  <2>1. i < j \/ j < i
    BY <1>3
  <2> QED
    BY <1>4, <2>1
<1>6. \A i \in DOMAIN r : \E a \in DOMAIN q : r[i] = q[a]
  BY <1>2 DEF IsKept
<1>7. Sessions(ct, r)
  BY <1>3, <1>5, <1>6, FewerSessions
<1>8. \A i \in DOMAIN r : r[i] \in Range(q)
  BY <1>6 DEF Range
<1>9. \A l \in Range(q) : l \in S => \E j \in DOMAIN r : r[j] = l
  BY <1>2 DEF IsKept, Range
<1> QED
  BY <1>3, <1>7, <1>8, <1>9 DEF r

LEMMA RemovedSessions ==
  ASSUME NEW ct \in UEs, NEW q, Sessions(ct, q), NEW k \in DOMAIN q
  PROVE  Sessions(ct, RemoveAt(q, k))
<1>1. q \in Seq(Links)
  BY DEF Sessions
<1> QED
  BY <1>1, RemovalFacts, FewerSessions

LEMMA AddedSessions ==
  ASSUME NEW ct \in UEs, NEW q, Sessions(ct, q), NEW l \in Links,
         l.sub \in Range(Subs[ct]), l.addr.dn \in Range(SubscribedDN[l.sub]),
         ~ \E i \in DOMAIN q : q[i].sub = l.sub /\ q[i].addr.dn = l.addr.dn
  PROVE  Sessions(ct, Append(q, l))
<1> DEFINE r == Append(q, l)
<1>1. q \in Seq(Links) /\ Len(q) \in Nat /\ DOMAIN q = 1 .. Len(q)
  BY DEF Sessions
<1>2. /\ r \in Seq(Links) /\ DOMAIN r = 1 .. Len(q) + 1 /\ r[Len(q) + 1] = l
      /\ \A i \in 1 .. Len(q) : r[i] = q[i]
  BY <1>1
<1>3. \A i \in DOMAIN r : i \in DOMAIN q \/ i = Len(q) + 1
  BY <1>1, <1>2
<1> HIDE DEF r
<1>4. ASSUME NEW i \in DOMAIN r
      PROVE  r[i].sub \in Range(Subs[ct]) /\ r[i].addr.dn \in Range(SubscribedDN[r[i].sub])
  BY <1>1, <1>2, <1>3 DEF Sessions
<1>5. ASSUME NEW i \in DOMAIN r, NEW j \in DOMAIN r, r[i].sub = r[j].sub, r[i].addr.dn = r[j].addr.dn
      PROVE  i = j
  BY <1>1, <1>2, <1>3, <1>5 DEF Sessions
<1> QED
  BY <1>2, <1>4, <1>5 DEF Sessions, r

\* The sessions that are up when the program starts.
LEMMA InitialSessions ==
  ASSUME NEW ct \in UEs, NEW up
  PROVE  Sessions(ct, InitialLinks(ct, up))
<1> DEFINE s == Subs[ct]
           dns(k) == Kept(SubscribedDN[s[k]], {dn \in DNs : <<s[k], dn>> \in up})
           num(k) == Cardinality({t \in Supis : t <= s[k]})
           ss == [k \in DOMAIN s |-> [j \in DOMAIN dns(k) |-> [sub |-> s[k], addr |-> [dn |-> dns(k)[j], n |-> num(k)]]]]
           q == InitialLinks(ct, up)
<1>1. s \in Seq(Supis) /\ Range(s) \subseteq Supis /\ \A k, m \in DOMAIN s : s[k] = s[m] => k = m
  BY NetFacts
<1>2. q = FlattenSeq(ss)
  BY DEF InitialLinks
<1>3. ASSUME NEW k \in DOMAIN s
      PROVE  /\ s[k] \in Supis /\ s[k] \in Range(s) /\ num(k) \in Pool
             /\ dns(k) \in Seq(DNs)
             /\ \A x \in DOMAIN dns(k) : dns(k)[x] \in DNs /\ dns(k)[x] \in Range(SubscribedDN[s[k]])
             /\ \A x, y \in DOMAIN dns(k) : x < y => dns(k)[x] # dns(k)[y]
  <2>1. s[k] \in Supis /\ s[k] \in Range(s)
    BY <1>1 DEF Range
  <2>2. num(k) \in Pool
    BY <2>1, Numbered
  <2>3. /\ SubscribedDN[s[k]] \in Seq(DNs)
        /\ \A i, j \in DOMAIN SubscribedDN[s[k]] : SubscribedDN[s[k]][i] = SubscribedDN[s[k]][j] => i = j
    BY <2>1, SubscribedFacts
  <2>4. IsKept(dns(k), SubscribedDN[s[k]], DNs, {dn \in DNs : <<s[k], dn>> \in up})
    BY <2>3, KeptFacts
  <2> HIDE DEF s, dns, num
  <2>5. dns(k) \in Seq(DNs)
    BY <2>4, KeptTyped
  <2>6. \A x \in DOMAIN dns(k) : dns(k)[x] \in DNs /\ dns(k)[x] \in Range(SubscribedDN[s[k]])
    BY <2>4, <2>5 DEF IsKept, Range
  <2>7. \A x, y \in DOMAIN dns(k) : x < y => dns(k)[x] # dns(k)[y]
    <3> SUFFICES ASSUME NEW x \in DOMAIN dns(k), NEW y \in DOMAIN dns(k), x < y
                 PROVE  dns(k)[x] # dns(k)[y]
      OBVIOUS
    <3>1. PICK a, b \in DOMAIN SubscribedDN[s[k]] :
            a < b /\ dns(k)[x] = SubscribedDN[s[k]][a] /\ dns(k)[y] = SubscribedDN[s[k]][b]
      BY <2>4 DEF IsKept
    <3>2. a # b
      BY <2>3, <3>1
    <3> QED
      BY <2>3, <3>1, <3>2
  <2> QED
    BY <2>1, <2>2, <2>5, <2>6, <2>7
<1> HIDE DEF dns, num, q
<1>4. ASSUME NEW k \in DOMAIN s
      PROVE  /\ DOMAIN ss[k] = DOMAIN dns(k)
             /\ \A x \in DOMAIN ss[k] : ss[k][x] = [sub |-> s[k], addr |-> [dn |-> dns(k)[x], n |-> num(k)]]
             /\ ss[k] \in Seq(Links)
  <2>1. ss[k] = [j \in DOMAIN dns(k) |-> [sub |-> s[k], addr |-> [dn |-> dns(k)[j], n |-> num(k)]]]
    OBVIOUS
  <2>2. \A x \in DOMAIN dns(k) : [sub |-> s[k], addr |-> [dn |-> dns(k)[x], n |-> num(k)]] \in Links
    BY <1>3 DEF Links, UeAddrs
  <2>3. DOMAIN dns(k) = 1 .. Len(dns(k)) /\ Len(dns(k)) \in Nat
    BY <1>3
  <2> QED
    BY <2>1, <2>2, <2>3
<1>5. ss \in Seq(Seq(Links)) /\ DOMAIN ss = DOMAIN s
  <2>1. DOMAIN s = 1 .. Len(s) /\ Len(s) \in Nat
    BY <1>1
  <2>2. ss \in [1 .. Len(s) -> Seq(Links)]
    <3>1. ss = [k \in DOMAIN s |-> ss[k]]
      OBVIOUS
    <3> HIDE DEF ss, s
    <3> QED
      BY <1>4, <2>1, <3>1
  <2> HIDE DEF ss, s
  <2> QED
    BY <2>1, <2>2
<1>6. IsJoined(q, ss, Links, DOMAIN s)
  <2> HIDE DEF ss
  <2> QED
    BY <1>2, <1>5, FlattenFacts
<1> HIDE DEF ss
<1>7. q \in Seq(Links)
  BY <1>6 DEF IsJoined
<1>8. ASSUME NEW i \in DOMAIN q
      PROVE  q[i].sub \in Range(s) /\ q[i].addr.dn \in Range(SubscribedDN[q[i].sub])
  <2>1. PICK k \in DOMAIN s : \E x \in DOMAIN ss[k] : q[i] = ss[k][x]
    BY <1>6 DEF IsJoined
  <2>2. PICK x \in DOMAIN ss[k] : q[i] = ss[k][x]
    BY <2>1
  <2>3. /\ x \in DOMAIN dns(k)
        /\ ss[k][x] = [sub |-> s[k], addr |-> [dn |-> dns(k)[x], n |-> num(k)]]
    BY <1>4
  <2>4. q[i].sub = s[k] /\ q[i].addr.dn = dns(k)[x]
    BY <2>2, <2>3
  <2> QED
    BY <1>3, <2>3, <2>4
<1>9. ASSUME NEW i \in DOMAIN q, NEW j \in DOMAIN q, i < j,
             q[i].sub = q[j].sub, q[i].addr.dn = q[j].addr.dn
      PROVE  FALSE
  <2>1. PICK k \in DOMAIN s, m \in DOMAIN s : \E x \in DOMAIN ss[k], y \in DOMAIN ss[m] :
          Earlier(k, x, m, y) /\ q[i] = ss[k][x] /\ q[j] = ss[m][y]
    BY <1>6, <1>9 DEF IsJoined
  <2>2. PICK x \in DOMAIN ss[k], y \in DOMAIN ss[m] :
          Earlier(k, x, m, y) /\ q[i] = ss[k][x] /\ q[j] = ss[m][y]
    BY <2>1
  <2>3. /\ x \in DOMAIN dns(k) /\ y \in DOMAIN dns(m)
        /\ s[k] = s[m] /\ dns(k)[x] = dns(m)[y]
    <3>1. x \in DOMAIN dns(k) /\ y \in DOMAIN dns(m)
      BY <1>4
    <3>2. /\ q[i] = [sub |-> s[k], addr |-> [dn |-> dns(k)[x], n |-> num(k)]]
          /\ q[j] = [sub |-> s[m], addr |-> [dn |-> dns(m)[y], n |-> num(m)]]
      BY <1>4, <2>2
    <3>3. q[i].sub = s[k] /\ q[j].sub = s[m] /\ q[i].addr.dn = dns(k)[x] /\ q[j].addr.dn = dns(m)[y]
      BY <3>2
    <3> QED
      BY <1>9, <3>1, <3>3
  <2>4. k = m
    BY <1>1, <2>3
  <2>5. x < y
    <3>1. ~ (k < m)
      BY <1>1, <2>4
    <3> QED
      BY <2>2, <2>4, <3>1 DEF Earlier
  <2> QED
    BY <1>3, <2>3, <2>4, <2>5
<1>10. \A i, j \in DOMAIN q : q[i].sub = q[j].sub /\ q[i].addr.dn = q[j].addr.dn => i = j
  <2> SUFFICES ASSUME NEW i \in DOMAIN q, NEW j \in DOMAIN q, i # j,
                      q[i].sub = q[j].sub, q[i].addr.dn = q[j].addr.dn
               PROVE  FALSE
    OBVIOUS
  <2>1. i < j \/ j < i
    BY <1>7
  <2> QED
    BY <1>9, <2>1
<1> QED
  BY <1>7, <1>8, <1>10 DEF Sessions, q
-----------------------------------------------------------------------------
(* The flows of a UE.                                                        *)

LEMMA PositionFacts ==
  ASSUME NEW sub \in Supis, NEW k \in DOMAIN SubscribedDN[sub]
  PROVE  Position(sub, SubscribedDN[sub][k]) = k
<1> DEFINE dns == SubscribedDN[sub]
           P(i) == i \in DOMAIN dns /\ dns[i] = dns[k]
<1>1. \A i, j \in DOMAIN dns : dns[i] = dns[j] => i = j
  BY SubscribedFacts
<1>2. \A i : P(i) <=> i = k
  BY <1>1
<1>3. Position(sub, dns[k]) = CHOOSE i : P(i)
  BY DEF Position
<1> HIDE DEF P
<1> QED
  BY <1>2, <1>3

\* The groups that select a session, each once.
LEMMA SelectingFacts ==
  ASSUME NEW sub, NEW dn
  PROVE  /\ Selecting(sub, dn) \in Seq(DOMAIN FlowDefs)
         /\ \A x, y \in DOMAIN Selecting(sub, dn) : x < y => Selecting(sub, dn)[x] # Selecting(sub, dn)[y]
         /\ \A g \in DOMAIN FlowDefs :
              dn \in FlowDefs[g].dns /\ sub \in FlowDefs[g].ues
                => \E x \in DOMAIN Selecting(sub, dn) : Selecting(sub, dn)[x] = g
<1> DEFINE U == DOMAIN FlowDefs
           S == {g \in U : dn \in FlowDefs[g].dns /\ sub \in FlowDefs[g].ues}
           all == [g \in U |-> g]
           q == Selecting(sub, dn)
<1>1. U = 1 .. Len(FlowDefs) /\ Len(FlowDefs) \in Nat
  BY FlowAssumption
<1>2. all \in Seq(U) /\ DOMAIN all = U /\ \A g \in U : all[g] = g
  BY <1>1
<1>3. q = Kept(all, S)
  BY DEF Selecting
<1> HIDE DEF q, all, U
<1>4. IsKept(q, all, U, S)
  BY <1>2, <1>3, KeptFacts
<1>5. q \in Seq(U)
  BY <1>4, KeptTyped
<1>6. \A x, y \in DOMAIN q : x < y => q[x] # q[y]
  <2> SUFFICES ASSUME NEW x \in DOMAIN q, NEW y \in DOMAIN q, x < y PROVE q[x] # q[y]
    OBVIOUS
  <2>1. PICK a, b \in U : a < b /\ q[x] = all[a] /\ q[y] = all[b]
    BY <1>2, <1>4 DEF IsKept
  <2> QED
    BY <1>1, <1>2, <2>1
<1>7. \A g \in U : g \in S => \E x \in DOMAIN q : q[x] = g
  BY <1>2, <1>4 DEF IsKept
<1> QED
  BY <1>5, <1>6, <1>7 DEF q, U

\* The flows of a session are for the groups that select it, in their order.
LEMMA MatchingFacts ==
  ASSUME NEW ct \in UEs, NEW sub \in Range(Subs[ct]), NEW dn \in Range(SubscribedDN[sub]),
         Sessions(ct, ueIPs[ct])
  PROVE  /\ Matching(ct, sub, dn) \in Seq(Flows)
         /\ \A x \in DOMAIN Matching(ct, sub, dn) :
              LET f == Matching(ct, sub, dn)[x] IN f.sub = sub /\ f.dn = dn /\ f.ct = ct
         /\ \A x, y \in DOMAIN Matching(ct, sub, dn) : x < y =>
              Matching(ct, sub, dn)[x].group # Matching(ct, sub, dn)[y].group
         /\ FindPduIP(ct, sub, dn) # <<>> => \A g \in DOMAIN FlowDefs :
              dn \in FlowDefs[g].dns /\ sub \in FlowDefs[g].ues
                => \E x \in DOMAIN Matching(ct, sub, dn) :
                     /\ Matching(ct, sub, dn)[x].group = g
                     /\ Matching(ct, sub, dn)[x].addr = FindPduIP(ct, sub, dn)[1].addr
<1> DEFINE q == Matching(ct, sub, dn)
           pdu == FindPduIP(ct, sub, dn)
           sel == Selecting(sub, dn)
           flow(x) == [group |-> sel[x], sub |-> sub, dn |-> dn, ct |-> ct, addr |-> pdu[1].addr]
<1>1. pdu \in Seq(Links)
  <2> DEFINE ps == Kept(psList[sub], {l \in Links : l.addr.dn[2] = dn[2]})
             S == {l \in Links : /\ IF ps # <<>> THEN l.addr = Last(ps).addr ELSE l.addr.dn = dn
                                 /\ Image[ct] = "packetrusher" => l.sub = sub}
  <2>1. pdu = Kept(ueIPs[ct], S)
    BY DEF FindPduIP
  <2> HIDE DEF S
  <2> QED
    BY <2>1, KeptSessions DEF Sessions
<1>2. sub \in Supis /\ dn \in DNs
  BY NetFacts, SubscribedFacts
<1>3. /\ sel \in Seq(DOMAIN FlowDefs)
      /\ \A x, y \in DOMAIN sel : x < y => sel[x] # sel[y]
      /\ \A g \in DOMAIN FlowDefs :
           dn \in FlowDefs[g].dns /\ sub \in FlowDefs[g].ues => \E x \in DOMAIN sel : sel[x] = g
  BY SelectingFacts
<1>4. q = IF pdu = <<>> THEN <<>> ELSE [x \in DOMAIN sel |-> flow(x)]
  <2>1. q = IF pdu = <<>> THEN <<>>
            ELSE [x \in DOMAIN sel |->
                    [group |-> sel[x], sub |-> sub, dn |-> dn, ct |-> ct, addr |-> Head(pdu).addr]]
    BY DEF Matching
  <2>2. pdu # <<>> => Head(pdu) = pdu[1]
    BY <1>1
  <2> HIDE DEF pdu, sel, q
  <2> QED
    BY <2>1, <2>2
<1> HIDE DEF q, pdu, sel
<1>5. CASE pdu = <<>>
  <2>1. q = <<>>
    BY <1>4, <1>5
  <2> QED
    BY <1>5, <2>1 DEF q, pdu
<1>6. CASE pdu # <<>>
  <2>1. pdu[1].addr \in UeAddrs
    <3>1. pdu[1] \in Links
      BY <1>1, <1>6
    <3> QED
      BY <3>1, LinkShape
  <2>2. \A x \in DOMAIN sel : flow(x) \in Flows
    BY <1>2, <1>3, <2>1 DEF Flows
  <2>3. DOMAIN q = DOMAIN sel /\ \A x \in DOMAIN sel : q[x] = flow(x)
    BY <1>4, <1>6
  <2>4. q \in Seq(Flows)
    <3>1. DOMAIN sel = 1 .. Len(sel) /\ Len(sel) \in Nat
      BY <1>3
    <3> HIDE DEF flow
    <3> QED
      BY <1>4, <1>6, <2>2, <3>1
  <2>5. \A x \in DOMAIN q : /\ q[x].sub = sub /\ q[x].dn = dn /\ q[x].ct = ct
                            /\ q[x].group = sel[x] /\ q[x].addr = pdu[1].addr
    BY <2>3
  <2> HIDE DEF flow
  <2>6. \A x, y \in DOMAIN q : x < y => q[x].group # q[y].group
    BY <1>3, <2>3, <2>5
  <2>7. \A g \in DOMAIN FlowDefs : dn \in FlowDefs[g].dns /\ sub \in FlowDefs[g].ues
          => \E x \in DOMAIN q : q[x].group = g /\ q[x].addr = pdu[1].addr
    BY <1>3, <2>3, <2>5
  <2> QED
    BY <2>4, <2>5, <2>6, <2>7 DEF q, pdu
<1> QED
  BY <1>5, <1>6

\* What a UE adds to the flows that have been found.
UeFlows(ct, sub) == FlattenSeq([i \in DOMAIN SubscribedDN[sub] |-> Matching(ct, sub, SubscribedDN[sub][i])])

\* Flows of one group, UE and DNN come in the order of its subscription.
InTurn(q) ==
  \A i, j \in DOMAIN q :
    i < j /\ q[i].group = q[j].group /\ q[i].dn[2] = q[j].dn[2] /\ q[i].sub = q[j].sub
      => Position(q[i].sub, q[i].dn) < Position(q[j].sub, q[j].dn)

LEMMA UeFlowsFacts ==
  ASSUME NEW ct \in UEs, NEW sub \in Range(Subs[ct]), Sessions(ct, ueIPs[ct])
  PROVE  /\ UeFlows(ct, sub) \in Seq(Flows)
         /\ \A f \in Range(UeFlows(ct, sub)) : f.sub = sub /\ f.ct = ct /\ f.dn \in Range(SubscribedDN[sub])
         /\ InTurn(UeFlows(ct, sub))
         /\ \A dn \in Range(SubscribedDN[sub]) : \A x \in DOMAIN Matching(ct, sub, dn) :
              Matching(ct, sub, dn)[x] \in Range(UeFlows(ct, sub))
<1> DEFINE dns == SubscribedDN[sub]
           m(k) == Matching(ct, sub, dns[k])
           ss == [k \in DOMAIN dns |-> m(k)]
           q == UeFlows(ct, sub)
<1>1. sub \in Supis /\ dns \in Seq(DNs)
  BY NetFacts, SubscribedFacts
<1>2. ASSUME NEW k \in DOMAIN dns
      PROVE  /\ m(k) \in Seq(Flows)
             /\ \A x \in DOMAIN m(k) : m(k)[x].sub = sub /\ m(k)[x].dn = dns[k] /\ m(k)[x].ct = ct
             /\ \A x, y \in DOMAIN m(k) : x < y => m(k)[x].group # m(k)[y].group
             /\ Position(sub, dns[k]) = k
  <2>1. dns[k] \in Range(dns)
    BY DEF Range
  <2>2. Position(sub, dns[k]) = k
    BY <1>1, PositionFacts
  <2> QED
    BY <2>1, <2>2, MatchingFacts
<1>3. q = FlattenSeq(ss)
  BY DEF UeFlows
<1> HIDE DEF m, q
<1>4. DOMAIN ss = DOMAIN dns /\ (\A k \in DOMAIN dns : ss[k] = m(k)) /\ ss \in Seq(Seq(Flows))
  <2>1. DOMAIN dns = 1 .. Len(dns) /\ Len(dns) \in Nat
    BY <1>1
  <2> QED
    BY <1>2, <2>1
<1> HIDE DEF ss
<1>5. IsJoined(q, ss, Flows, DOMAIN dns)
  BY <1>3, <1>4, FlattenFacts
<1>6. q \in Seq(Flows)
  BY <1>5 DEF IsJoined
<1>7. \A f \in Range(q) : f.sub = sub /\ f.ct = ct /\ f.dn \in Range(dns)
  <2> SUFFICES ASSUME NEW i \in DOMAIN q
               PROVE  q[i].sub = sub /\ q[i].ct = ct /\ q[i].dn \in Range(dns)
    BY DEF Range
  <2>1. PICK k \in DOMAIN dns : \E x \in DOMAIN ss[k] : q[i] = ss[k][x]
    BY <1>5 DEF IsJoined
  <2>2. PICK x \in DOMAIN m(k) : q[i] = m(k)[x]
    BY <1>4, <2>1
  <2> QED
    BY <1>2, <2>2 DEF Range
<1>8. InTurn(q)
  <2> SUFFICES ASSUME NEW i \in DOMAIN q, NEW j \in DOMAIN q, i < j,
                      q[i].group = q[j].group
               PROVE  Position(q[i].sub, q[i].dn) < Position(q[j].sub, q[j].dn)
    BY DEF InTurn
  <2>1. PICK k \in DOMAIN dns, l \in DOMAIN dns : \E x \in DOMAIN ss[k], y \in DOMAIN ss[l] :
          Earlier(k, x, l, y) /\ q[i] = ss[k][x] /\ q[j] = ss[l][y]
    BY <1>5 DEF IsJoined
  <2>2. PICK x \in DOMAIN m(k), y \in DOMAIN m(l) :
          Earlier(k, x, l, y) /\ q[i] = m(k)[x] /\ q[j] = m(l)[y]
    BY <1>4, <2>1
  <2>3. Position(q[i].sub, q[i].dn) = k /\ Position(q[j].sub, q[j].dn) = l
    BY <1>2, <2>2
  <2>4. k < l
    <3>1. CASE k = l /\ x < y
      BY <1>2, <2>2, <3>1
    <3> QED
      BY <2>2, <3>1 DEF Earlier
  <2> QED
    BY <2>3, <2>4
<1>9. ASSUME NEW dn \in Range(dns), NEW x \in DOMAIN Matching(ct, sub, dn)
      PROVE  Matching(ct, sub, dn)[x] \in Range(q)
  <2>1. PICK k \in DOMAIN dns : dn = dns[k]
    BY DEF Range
  <2>2. m(k) = Matching(ct, sub, dn)
    BY <2>1 DEF m
  <2>3. PICK i \in DOMAIN q : q[i] = ss[k][x]
    BY <1>4, <1>5, <2>2 DEF IsJoined
  <2> QED
    BY <1>4, <2>2, <2>3 DEF Range
<1> QED
  BY <1>6, <1>7, <1>8, <1>9 DEF q
-----------------------------------------------------------------------------
(* The containers of a flow.                                                 *)

\* A flow, or a row of the table.
IsFlow(f) ==
  /\ f.group \in DOMAIN FlowDefs /\ f.sub \in Supis /\ f.dn \in DNs /\ f.ct \in UEs /\ f.addr \in UeAddrs

LEMMA DefShape ==
  ASSUME NEW g \in DOMAIN FlowDefs
  PROVE  /\ FlowDefs[g].tgid \in Tgids /\ FlowDefs[g].reversed \in BOOLEAN
         /\ FlowDefs[g].parallel \in Nat \ {0} /\ FlowDefs[g].bindPort \in Nat
         /\ g \in Nat \ {0}
<1> DEFINE D == [tgid : Tgids, dns : SUBSET DNs, ues : SUBSET Supis, reversed : BOOLEAN,
                 parallel : Nat \ {0}, bindPort : Nat]
<1>1. FlowDefs[g] \in D
  <2>1. FlowDefs \in Seq(D)
    BY FlowAssumption
  <2> HIDE DEF D
  <2> QED
    BY <2>1
<1>2. g \in Nat \ {0}
  BY FlowAssumption
<1> QED
  BY <1>1, <1>2

\* What a generator binds to is within what it asks for.
LEMMA AskedFacts ==
  ASSUME NEW g \in DOMAIN FlowDefs
  PROVE  /\ Asked(FlowDefs[g]).n \in Nat \ {0}
         /\ Asked(FlowDefs[g]).server \subseteq 0 .. Asked(FlowDefs[g]).n - 1
         /\ Asked(FlowDefs[g]).client \subseteq 0 .. Asked(FlowDefs[g]).n - 1
<1> DEFINE d == FlowDefs[g]
<1>1. d.tgid \in Tgids /\ d.parallel \in Nat \ {0} /\ d.bindPort \in Nat
  BY DefShape
<1> HIDE DEF d
<1>2. CASE d.tgid = "iperf2"
  <2>1. CASE d.bindPort = NoBind
    BY <1>1, <1>2, <2>1 DEF Asked, Iperf2, Asks, d
  <2>2. CASE d.bindPort # NoBind
    BY <1>1, <1>2, <2>2 DEF Asked, Iperf2, Asks, NoBind, d
  <2> QED
    BY <2>1, <2>2
<1>3. CASE d.tgid \in {"owamp", "twamp"}
  BY <1>3 DEF Asked, Owamp, Asks, d
<1>4. CASE d.tgid = "itg"
  BY <1>1, <1>4 DEF Asked, Itg, Asks, d
<1>5. CASE d.tgid \in {"iperf3", "netperf", "sockperf"}
  BY <1>5 DEF Asked, Iperf3, Netperf, Sockperf, Asks, d
<1>6. CASE d.tgid \in {"ns3http", "ndnping"}
  BY <1>6 DEF Asked, Ns3http, Ndnping, Asks, d
<1> QED
  BY <1>1, <1>2, <1>3, <1>4, <1>5, <1>6 DEF Tgids

LEMMA NPortsFacts ==
  ASSUME NEW g \in DOMAIN FlowDefs, NEW port \in Nat
  PROVE  /\ NPorts(FlowDefs[g]) \in Nat \ {0}
         /\ ServerPorts(FlowDefs[g], port) \subseteq port .. port + NPorts(FlowDefs[g]) - 1
         /\ ClientPorts(FlowDefs[g], port) \subseteq port .. port + NPorts(FlowDefs[g]) - 1
<1> DEFINE a == Asked(FlowDefs[g])
<1>1. a.n \in Nat \ {0} /\ a.server \subseteq 0 .. a.n - 1 /\ a.client \subseteq 0 .. a.n - 1
  BY AskedFacts
<1>2. \A i \in 0 .. a.n - 1 : port + i \in port .. port + a.n - 1
  BY <1>1
<1> QED
  BY <1>1, <1>2 DEF NPorts, ServerPorts, ClientPorts

\* Two ends of a flow are never in one network namespace.
LEMMA EndFacts ==
  ASSUME NEW f, IsFlow(f)
  PROVE  /\ ServerEnd(f).netns \in UEs \cup Range(DnService) /\ ServerEnd(f).ip \in Addrs
         /\ ClientEnd(f).netns \in UEs \cup Range(DnService) /\ ClientEnd(f).ip \in Addrs
         /\ ServerEnd(f).netns # ClientEnd(f).netns
         /\ ServerPerDN(FlowDefs[f.group]) /\ ~ FlowDefs[f.group].reversed => ServerEnd(f) = DnEnd(f)
<1>1. /\ DnService[f.dn] \in Range(DnService)
      /\ Range(DnService) \cap UEs = {}
  BY NetworkAssumption DEF IsFlow
<1>2. f.ct \in UEs /\ f.addr \in Addrs /\ [dn |-> f.dn, n |-> 0] \in Addrs
  BY DEF IsFlow, Addrs, UeAddrs
<1>3. UeEnd(f).netns = f.ct /\ UeEnd(f).ip = f.addr
  BY DEF UeEnd
<1>4. DnEnd(f).netns = DnService[f.dn] /\ DnEnd(f).ip = [dn |-> f.dn, n |-> 0]
  BY DEF DnEnd
<1>5. CASE FlowDefs[f.group].reversed
  <2>1. ServerEnd(f) = UeEnd(f) /\ ClientEnd(f) = DnEnd(f)
    BY <1>5 DEF ServerEnd, ClientEnd
  <2> QED
    BY <1>1, <1>2, <1>3, <1>4, <1>5, <2>1
<1>6. CASE ~ FlowDefs[f.group].reversed
  <2>1. ServerEnd(f) = DnEnd(f) /\ ClientEnd(f) = UeEnd(f)
    BY <1>6 DEF ServerEnd, ClientEnd
  <2> QED
    BY <1>1, <1>2, <1>3, <1>4, <2>1
<1> QED
  BY <1>5, <1>6

LEMMA NameFacts ==
  ASSUME NEW f, IsFlow(f), NEW port \in Nat
  PROVE  /\ ClientName(f, port) \in Names /\ ServerName(f, port) \in Names
         /\ Client(f, port) \in Services /\ Server(f, port) \in Services
         /\ ClientName(f, port).side = "c" /\ ServerName(f, port).side = "s"
         /\ ClientName(f, port).port = port
         /\ ServerName(f, port).tgid = FlowDefs[f.group].tgid
         /\ ~ ServerPerDN(FlowDefs[f.group]) => ServerName(f, port).port = port
         /\ ServerPerDN(FlowDefs[f.group]) => ServerName(f, port).dn = f.dn
         /\ ClientName(f, port) # ServerName(f, port)
<1> DEFINE d == FlowDefs[f.group]
<1>1. f.group \in DOMAIN FlowDefs /\ f.dn \in DNs /\ d.tgid \in Tgids
  BY DefShape DEF IsFlow
<1>2. ClientName(f, port) = [side |-> "c", tgid |-> d.tgid, group |-> f.group, port |-> port, dn |-> NoDN]
  BY DEF ClientName
<1>3. /\ ServerName(f, port) \in Names
      /\ ServerName(f, port).side = "s"
      /\ ServerName(f, port).tgid = d.tgid
      /\ ~ ServerPerDN(d) => ServerName(f, port).port = port
      /\ ServerPerDN(d) => ServerName(f, port).dn = f.dn
  <2> DEFINE a == [side |-> "s", tgid |-> d.tgid, group |-> 0, port |-> 0, dn |-> f.dn]
             b == [side |-> "s", tgid |-> d.tgid, group |-> f.group, port |-> port, dn |-> NoDN]
  <2>1. ServerName(f, port) = IF ServerPerDN(d) THEN a ELSE b
    BY DEF ServerName
  <2> HIDE DEF d
  <2>2. a \in Names /\ a.side = "s" /\ a.tgid = d.tgid /\ a.dn = f.dn
    BY <1>1 DEF Names
  <2>3. b \in Names /\ b.side = "s" /\ b.tgid = d.tgid /\ b.port = port
    BY <1>1 DEF Names
  <2> HIDE DEF a, b
  <2> QED
    BY <2>1, <2>2, <2>3
<1>4. /\ ClientName(f, port) \in Names
      /\ ClientName(f, port).side = "c" /\ ClientName(f, port).port = port
  <2> HIDE DEF d
  <2>1. ClientName(f, port) \in Names
    BY <1>1, <1>2 DEF Names
  <2> QED
    BY <1>2, <2>1
<1>5. Client(f, port) \in Services /\ Server(f, port) \in Services
  <2>1. /\ ServerEnd(f).netns \in UEs \cup Range(DnService) /\ ServerEnd(f).ip \in Addrs
        /\ ClientEnd(f).netns \in UEs \cup Range(DnService) /\ ClientEnd(f).ip \in Addrs
    BY EndFacts
  <2>2. /\ NPorts(d) \in Nat
        /\ ServerPorts(d, port) \subseteq port .. port + NPorts(d) - 1
        /\ ClientPorts(d, port) \subseteq port .. port + NPorts(d) - 1
    BY <1>1, NPortsFacts
  <2>3. port .. port + NPorts(d) - 1 \subseteq Nat
    BY <2>2
  <2>4. TapIndexes(d, port) \subseteq Nat
    <3>1. port \div 8 \in Nat
      OBVIOUS
    <3> QED
      BY <3>1 DEF TapIndexes
  <2>5. Server(f, port) = [netns |-> ServerEnd(f).netns, ip |-> ServerEnd(f).ip,
                           ports |-> ServerPorts(d, port), taps |-> TapIndexes(d, port)]
    BY DEF Server
  <2>6. Client(f, port) = [netns |-> ClientEnd(f).netns, ip |-> ClientEnd(f).ip,
                           ports |-> ClientPorts(d, port), taps |-> TapIndexes(d, port)]
    BY DEF Client
  <2> HIDE DEF d
  <2> QED
    BY <2>1, <2>2, <2>3, <2>4, <2>5, <2>6 DEF Services
<1>6. ClientName(f, port) # ServerName(f, port)
  BY <1>3, <1>4
<1> QED
  BY <1>3, <1>4, <1>5, <1>6

\* What a flow adds to the Compose file.
LEMMA WithFlowFacts ==
  ASSUME NEW s, NEW f, IsFlow(f), NEW port \in Nat
  PROVE  LET c == ClientName(f, port)
             n == ServerName(f, port)
             w == WithFlow(s, f, port)
         IN /\ DOMAIN w = DOMAIN s \cup {c, n}
            /\ w[c] = Client(f, port)
            /\ n \in DOMAIN s => w[n] = s[n]
            /\ n \notin DOMAIN s => w[n] = Server(f, port)
            /\ \A x \in DOMAIN s : x # c => w[x] = s[x]
<1> DEFINE c == ClientName(f, port)
           n == ServerName(f, port)
           w == WithFlow(s, f, port)
           t == Including(s, c, Client(f, port))
<1>1. c # n
  BY NameFacts
<1>2. w = IF n \in DOMAIN s THEN t ELSE Including(t, n, Server(f, port))
  BY DEF WithFlow
<1> HIDE DEF c, n, w
<1>3. /\ DOMAIN t = DOMAIN s \cup {c} /\ t[c] = Client(f, port)
      /\ \A x \in DOMAIN s : x # c => t[x] = s[x]
  BY DEF Including
<1> HIDE DEF t
<1>4. CASE n \in DOMAIN s
  <2>1. w = t
    BY <1>2, <1>4
  <2> QED
    BY <1>1, <1>3, <1>4, <2>1 DEF c, n, w
<1>5. CASE n \notin DOMAIN s
  <2>1. w = Including(t, n, Server(f, port))
    BY <1>2, <1>5
  <2>2. /\ DOMAIN w = DOMAIN t \cup {n} /\ w[n] = Server(f, port)
        /\ \A x \in DOMAIN t : x # n => w[x] = t[x]
    BY <2>1 DEF Including
  <2> QED
    BY <1>1, <1>3, <1>5, <2>2 DEF c, n, w
<1> QED
  BY <1>4, <1>5
-----------------------------------------------------------------------------
(* Types, and what the program knows of the sessions.                        *)

\* What a container or a UE says of sessions is of their own.
Answers ==
  \A ct \in UEs :
    /\ Sessions(ct, links[ct]) /\ Sessions(ct, ueIPs[ct])
    /\ \A sub \in Range(Subs[ct]) :
         /\ Sessions(ct, psList[sub]) /\ \A l \in Range(psList[sub]) : l.sub = sub
         /\ Image[ct] # "ueransim" => psList[sub] = <<>>

\* Only UEs of the container are pending; and before its first stage it has said nothing.
Stages ==
  \A ct \in UEs :
    /\ pending[ct] \subseteq Range(Subs[ct])
    /\ stage[ct] = "addr" => ueIPs[ct] = <<>>
    /\ stage[ct] \in {"addr", "end"} => pending[ct] = {}

\* Flows come from UEs that have been matched.
Matched ==
  \A f \in Range(found) :
    /\ stage[f.ct] \in {"match", "end"}
    /\ f.sub \in Range(Subs[f.ct]) /\ f.sub \notin pending[f.ct] /\ f.dn \in Range(SubscribedDN[f.sub])

Gathered == PlanTypeOK /\ Answers /\ Stages /\ Matched

LEMMA GatheredInit == PlanInit => Gathered
<1> SUFFICES ASSUME PlanInit PROVE Gathered
  OBVIOUS
<1>1. PICK up : links = [ct \in UEs |-> InitialLinks(ct, up)]
  BY DEF PlanInit
<1>2. \A ct \in UEs : Sessions(ct, links[ct]) /\ links[ct] \in Seq(Links)
  <2> SUFFICES ASSUME NEW ct \in UEs PROVE Sessions(ct, links[ct]) /\ links[ct] \in Seq(Links)
    OBVIOUS
  <2>1. links[ct] = InitialLinks(ct, up)
    BY <1>1
  <2> QED
    BY <2>1, InitialSessions DEF Sessions
<1>3. /\ changes = 0 /\ stage = [ct \in UEs |-> "addr"]
      /\ ueIPs = [ct \in UEs |-> <<>>] /\ psList = [s \in Supis |-> <<>>]
      /\ pending = [ct \in UEs |-> {}] /\ found = <<>> /\ phase = "gather"
      /\ nPortsPerFlow \in FlowPorts /\ flows = <<>> /\ nextPort = BasePort
      /\ table = <<>> /\ services = <<>>
  BY DEF PlanInit
<1>4. MaxChanges \in Nat /\ BasePort \in Nat
  BY PortAssumption
<1>5. PlanTypeOK
  <2>1. links \in [UEs -> Seq(Links)]
    BY <1>1, <1>2
  <2>2. DOMAIN services = {}
    BY <1>3
  <2> QED
    BY <1>3, <1>4, <2>1, <2>2 DEF PlanTypeOK
<1>6. Answers
  <2> SUFFICES ASSUME NEW ct \in UEs
               PROVE  /\ Sessions(ct, links[ct]) /\ Sessions(ct, ueIPs[ct])
                      /\ \A sub \in Range(Subs[ct]) :
                           /\ Sessions(ct, psList[sub]) /\ \A l \in Range(psList[sub]) : l.sub = sub
                           /\ Image[ct] # "ueransim" => psList[sub] = <<>>
    BY DEF Answers
  <2>1. Sessions(ct, <<>>)
    BY NoSessions
  <2>2. \A sub \in Range(Subs[ct]) : psList[sub] = <<>>
    BY <1>3, NetFacts
  <2>3. ueIPs[ct] = <<>> /\ Range(<<>>) = {}
    BY <1>3 DEF Range
  <2> QED
    BY <1>2, <2>1, <2>2, <2>3
<1>7. Stages
  BY <1>3 DEF Stages
<1>8. Matched
  BY <1>3 DEF Matched, Range
<1> QED
  BY <1>5, <1>6, <1>7, <1>8 DEF Gathered

LEMMA ChangeGathered ==
  ASSUME Gathered, NEW ct \in UEs, Change(ct)
  PROVE  Gathered'
<1>1. /\ changes \in Nat /\ MaxChanges \in Nat /\ changes < MaxChanges /\ changes' = changes + 1
      /\ links \in [UEs -> Seq(Links)]
  BY PortAssumption DEF Change, Gathered, PlanTypeOK
<1>2. \E q : Sessions(ct, q) /\ links' = [links EXCEPT ![ct] = q]
  <2>1. Sessions(ct, links[ct])
    BY DEF Gathered, Answers
  <2>2. CASE Establish(ct)
    <3>0. PICK sub \in Range(Subs[ct]) : \E dn \in Range(SubscribedDN[sub]) : \E n \in Pool :
            /\ ~ Has(ct, sub, dn)
            /\ links' = [links EXCEPT ![ct] = Append(@, [sub |-> sub, addr |-> [dn |-> dn, n |-> n]])]
      BY <2>2 DEF Establish
    <3>1. PICK dn \in Range(SubscribedDN[sub]), n \in Pool :
            /\ ~ Has(ct, sub, dn)
            /\ links' = [links EXCEPT ![ct] = Append(@, [sub |-> sub, addr |-> [dn |-> dn, n |-> n]])]
      BY <3>0
    <3> DEFINE l == [sub |-> sub, addr |-> [dn |-> dn, n |-> n]]
    <3>2. sub \in Supis /\ dn \in DNs
      BY NetFacts, SubscribedFacts
    <3>3. l \in Links /\ l.sub = sub /\ l.addr.dn = dn
      BY <3>2 DEF Links, UeAddrs
    <3>4. ~ \E i \in DOMAIN links[ct] : links[ct][i].sub = l.sub /\ links[ct][i].addr.dn = l.addr.dn
      BY <3>1, <3>3 DEF Has
    <3>5. links' = [links EXCEPT ![ct] = Append(links[ct], l)]
      BY <3>1
    <3> HIDE DEF l
    <3>6. Sessions(ct, Append(links[ct], l))
      BY <2>1, <3>3, <3>4, AddedSessions
    <3> QED
      BY <3>5, <3>6
  <2>3. CASE Release(ct)
    <3>1. PICK i \in DOMAIN links[ct] : links' = [links EXCEPT ![ct] = RemoveAt(@, i)]
      BY <2>3 DEF Release
    <3>2. Sessions(ct, RemoveAt(links[ct], i))
      BY <2>1, RemovedSessions
    <3> QED
      BY <3>1, <3>2
  <2> QED
    BY <2>2, <2>3 DEF Change
<1>3. PICK q : Sessions(ct, q) /\ links' = [links EXCEPT ![ct] = q]
  BY <1>2
<1>4. links' \in [UEs -> Seq(Links)] /\ changes' \in 0 .. MaxChanges
  BY <1>1, <1>3 DEF Sessions
<1>5. UNCHANGED <<gather, phase, plan>>
  BY DEF Change
<1>6. PlanTypeOK'
  BY <1>4, <1>5 DEF Gathered, PlanTypeOK, gather, plan
<1>7. Answers'
  <2>1. \A c \in UEs : Sessions(c, links'[c])
    BY <1>1, <1>3 DEF Gathered, Answers
  <2> QED
    BY <1>5, <2>1 DEF Gathered, Answers, gather
<1>8. Stages' /\ Matched'
  BY <1>5 DEF Gathered, Stages, Matched, gather
<1> QED
  BY <1>6, <1>7, <1>8 DEF Gathered

LEMMA ShowAddrGathered ==
  ASSUME Gathered, NEW ct \in UEs, ShowAddr(ct)
  PROVE  Gathered'
<1>1. /\ stage[ct] = "addr" /\ stage' = [stage EXCEPT ![ct] = "sessions"]
      /\ ueIPs' = [ueIPs EXCEPT ![ct] = links[ct]]
      /\ pending' = [pending EXCEPT ![ct] = Range(Subs[ct])]
      /\ UNCHANGED <<net, psList, found, phase, plan>>
  BY DEF ShowAddr
<1>2. PlanTypeOK /\ Range(Subs[ct]) \subseteq Supis
  BY NetFacts DEF Gathered
<1>3. PlanTypeOK'
  BY <1>1, <1>2 DEF PlanTypeOK, net, plan
<1>4. Answers'
  BY <1>1, <1>2 DEF Gathered, Answers, PlanTypeOK, net
<1>5. Stages'
  BY <1>1, <1>2 DEF Gathered, Stages, PlanTypeOK
<1>6. Matched'
  <2> SUFFICES ASSUME NEW f \in Range(found)
               PROVE  /\ stage'[f.ct] \in {"match", "end"}
                      /\ f.sub \in Range(Subs[f.ct]) /\ f.sub \notin pending'[f.ct]
                      /\ f.dn \in Range(SubscribedDN[f.sub])
    BY <1>1 DEF Matched
  <2>1. /\ stage[f.ct] \in {"match", "end"}
        /\ f.sub \in Range(Subs[f.ct]) /\ f.sub \notin pending[f.ct] /\ f.dn \in Range(SubscribedDN[f.sub])
    BY DEF Gathered, Matched
  <2>2. f.ct # ct
    BY <1>1, <2>1
  <2> QED
    BY <1>1, <1>2, <2>1, <2>2 DEF PlanTypeOK
<1> QED
  BY <1>3, <1>4, <1>5, <1>6 DEF Gathered

LEMMA ShowAddrFailsGathered ==
  ASSUME Gathered, NEW ct \in UEs, ShowAddrFails(ct)
  PROVE  Gathered'
<1>1. /\ stage[ct] = "addr" /\ stage' = [stage EXCEPT ![ct] = "end"]
      /\ UNCHANGED <<net, ueIPs, psList, pending, found, phase, plan>>
  BY DEF ShowAddrFails
<1>2. PlanTypeOK
  BY DEF Gathered
<1>3. PlanTypeOK'
  BY <1>1, <1>2 DEF PlanTypeOK, net, plan
<1>4. Answers'
  BY <1>1 DEF Gathered, Answers, net
<1>5. Stages'
  BY <1>1, <1>2 DEF Gathered, Stages, PlanTypeOK
<1>6. Matched'
  BY <1>1, <1>2 DEF Gathered, Matched, PlanTypeOK
<1> QED
  BY <1>3, <1>4, <1>5, <1>6 DEF Gathered

LEMMA ListSessionsGathered ==
  ASSUME Gathered, NEW ct \in UEs, NEW sub \in Range(Subs[ct]), ListSessions(ct, sub)
  PROVE  Gathered'
<1> DEFINE kept == Kept(links[ct], {l \in Links : l.sub = sub})
           ps == IF Image[ct] = "ueransim" THEN kept ELSE <<>>
<1>1. /\ stage[ct] = "sessions" /\ psList' = [psList EXCEPT ![sub] = ps]
      /\ UNCHANGED <<net, ueIPs, found, phase, plan>>
  BY DEF ListSessions
<1>2. /\ PlanTypeOK /\ sub \in Supis /\ Range(Subs[ct]) \subseteq Supis
      /\ Sessions(ct, links[ct])
  BY NetFacts DEF Gathered, Answers
<1>3. \/ /\ stage' = [stage EXCEPT ![ct] = "match"]
         /\ pending' = [pending EXCEPT ![ct] = Range(Subs[ct])]
      \/ /\ stage' = stage
         /\ pending' = [pending EXCEPT ![ct] = pending[ct] \ {sub}]
  BY DEF ListSessions
<1>4. /\ Sessions(ct, ps) /\ (\A l \in Range(ps) : l.sub = sub)
      /\ Image[ct] # "ueransim" => ps = <<>>
  <2>1. Sessions(ct, kept) /\ \A i \in DOMAIN kept : kept[i] \in {l \in Links : l.sub = sub}
    BY <1>2, KeptSessions
  <2>2. Sessions(ct, <<>>) /\ Range(<<>>) = {}
    BY NoSessions DEF Range
  <2> HIDE DEF kept
  <2>3. \A l \in Range(kept) : l.sub = sub
    BY <2>1 DEF Range
  <2> QED
    BY <2>1, <2>2, <2>3
<1> HIDE DEF ps
<1>5. PlanTypeOK'
  <2>1. psList' \in [Supis -> Seq(Links)]
    BY <1>1, <1>2, <1>4 DEF PlanTypeOK, Sessions
  <2>2. stage' \in [UEs -> {"addr", "sessions", "match", "end"}] /\ pending' \in [UEs -> SUBSET Supis]
    BY <1>2, <1>3 DEF PlanTypeOK
  <2> QED
    BY <1>1, <1>2, <2>1, <2>2 DEF PlanTypeOK, net, plan
<1>6. Answers'
  <2> SUFFICES ASSUME NEW c \in UEs, NEW s \in Range(Subs[c])
               PROVE  /\ Sessions(c, psList'[s]) /\ \A l \in Range(psList'[s]) : l.sub = s
                      /\ Image[c] # "ueransim" => psList'[s] = <<>>
    BY <1>1 DEF Gathered, Answers, net
  <2>1. CASE s = sub
    <3>1. c = ct /\ psList'[s] = ps
      BY <1>1, <1>2, <2>1, OwnerFacts DEF PlanTypeOK
    <3> QED
      BY <1>4, <2>1, <3>1
  <2>2. CASE s # sub
    <3>1. psList'[s] = psList[s]
      BY <1>1, <1>2, <2>2 DEF PlanTypeOK
    <3> QED
      BY <3>1 DEF Gathered, Answers
  <2> QED
    BY <2>1, <2>2
<1>7. Stages'
  BY ZenonT(40), <1>1, <1>2, <1>3 DEF Gathered, Stages, PlanTypeOK
<1>8. Matched'
  <2> SUFFICES ASSUME NEW f \in Range(found)
               PROVE  /\ stage'[f.ct] \in {"match", "end"}
                      /\ f.sub \in Range(Subs[f.ct]) /\ f.sub \notin pending'[f.ct]
                      /\ f.dn \in Range(SubscribedDN[f.sub])
    BY <1>1 DEF Matched
  <2>1. /\ stage[f.ct] \in {"match", "end"}
        /\ f.sub \in Range(Subs[f.ct]) /\ f.sub \notin pending[f.ct] /\ f.dn \in Range(SubscribedDN[f.sub])
    BY DEF Gathered, Matched
  <2>2. f.ct # ct /\ f.ct \in UEs
    <3>1. f \in Flows
      BY <1>2 DEF PlanTypeOK, Range
    <3> QED
      BY <1>1, <2>1, <3>1, FlowShape
  <2>3. stage'[f.ct] = stage[f.ct] /\ pending'[f.ct] = pending[f.ct]
    BY <1>2, <1>3, <2>2 DEF PlanTypeOK
  <2> QED
    BY <2>1, <2>3
<1> QED
  BY <1>5, <1>6, <1>7, <1>8 DEF Gathered

LEMMA MatchSessionsGathered ==
  ASSUME Gathered, NEW ct \in UEs, NEW sub \in Range(Subs[ct]), MatchSessions(ct, sub)
  PROVE  Gathered'
<1> DEFINE q == UeFlows(ct, sub)
<1>1. /\ stage[ct] = "match" /\ sub \in pending[ct]
      /\ found' = found \o q
      /\ pending' = [pending EXCEPT ![ct] = pending[ct] \ {sub}]
      /\ stage' = IF pending[ct] = {sub} THEN [stage EXCEPT ![ct] = "end"] ELSE stage
      /\ UNCHANGED <<net, ueIPs, psList, phase, plan>>
  BY DEF MatchSessions, UeFlows
<1>2. /\ PlanTypeOK /\ Sessions(ct, ueIPs[ct]) /\ found \in Seq(Flows)
  BY DEF Gathered, Answers, PlanTypeOK
<1>3. /\ q \in Seq(Flows)
      /\ \A f \in Range(q) : f.sub = sub /\ f.ct = ct /\ f.dn \in Range(SubscribedDN[sub])
  BY <1>2, UeFlowsFacts
<1> HIDE DEF q
<1>4. found' \in Seq(Flows) /\ \A f \in Range(found') : f \in Range(found) \/ f \in Range(q)
  BY <1>1, <1>2, <1>3, JoinedRange
<1>5. PlanTypeOK'
  <2>1. stage' \in [UEs -> {"addr", "sessions", "match", "end"}] /\ pending' \in [UEs -> SUBSET Supis]
    BY <1>1, <1>2 DEF PlanTypeOK
  <2> QED
    BY <1>1, <1>2, <1>4, <2>1 DEF PlanTypeOK, net, plan
<1>6. Answers'
  BY <1>1 DEF Gathered, Answers, net
<1>7. Stages'
  BY <1>1, <1>2 DEF Gathered, Stages, PlanTypeOK
<1>8. Matched'
  <2> SUFFICES ASSUME NEW f \in Range(found')
               PROVE  /\ stage'[f.ct] \in {"match", "end"}
                      /\ f.sub \in Range(Subs[f.ct]) /\ f.sub \notin pending'[f.ct]
                      /\ f.dn \in Range(SubscribedDN[f.sub])
    BY DEF Matched
  <2>0. /\ \A c \in UEs : stage[c] \in {"match", "end"} => stage'[c] \in {"match", "end"}
        /\ \A c \in UEs : pending'[c] \subseteq pending[c]
        /\ stage'[ct] \in {"match", "end"} /\ sub \notin pending'[ct]
    BY <1>1, <1>2 DEF PlanTypeOK
  <2>1. CASE f \in Range(found)
    <3>1. f.ct \in UEs
      <4>1. f \in Flows
        BY <1>2, <2>1 DEF Range
      <4> QED
        BY <4>1, FlowShape
    <3> QED
      BY <2>0, <2>1, <3>1 DEF Gathered, Matched
  <2>2. CASE f \in Range(q)
    BY <1>3, <2>0, <2>2
  <2> QED
    BY <1>4, <2>1, <2>2
<1> QED
  BY <1>5, <1>6, <1>7, <1>8 DEF Gathered

LEMMA DefineGathered ==
  ASSUME Gathered, Define
  PROVE  Gathered'
<1> DEFINE f == Head(flows)
           d == FlowDefs[f.group]
           row == [group |-> f.group, sub |-> f.sub, dn |-> f.dn, ct |-> f.ct, addr |-> f.addr, port |-> nextPort]
<1>1. PlanTypeOK /\ flows # <<>> /\ UNCHANGED <<net, gather, nPortsPerFlow>>
  BY DEF Gathered, Define
<1>2. f \in Flows /\ Tail(flows) \in Seq(Flows)
  BY <1>1 DEF PlanTypeOK
<1>3. nextPort \in Nat /\ nPortsPerFlow \in Nat
  BY <1>1, PortAssumption DEF PlanTypeOK
<1>4. CASE Refused(d)
  <2>1. phase' = "failed" /\ UNCHANGED <<services, table, nextPort, flows>>
    BY <1>4 DEF Define
  <2> QED
    BY <1>1, <2>1 DEF Gathered, PlanTypeOK, Answers, Stages, Matched, net, gather
<1>5. CASE ~ Refused(d)
  <2>1. /\ services' = WithFlow(services, f, nextPort)
        /\ table' = Append(table, row)
        /\ nextPort' = nextPort + PortsOf(d)
        /\ flows' = Tail(flows)
        /\ UNCHANGED phase
    BY <1>5 DEF Define
  <2>2. IsFlow(f)
    BY <1>2, FlowShape DEF IsFlow
  <2>3. PortsOf(d) \in Nat
    BY <1>3, <2>2, NPortsFacts DEF PortsOf, IsFlow
  <2>4. row \in Rows
    BY <1>2, <1>3, FlowShape DEF Rows
  <2>5. \A name \in DOMAIN services' : name \in Names /\ services'[name] \in Services
    <3> DEFINE c == ClientName(f, nextPort)
               n == ServerName(f, nextPort)
    <3>1. /\ c \in Names /\ n \in Names
          /\ Client(f, nextPort) \in Services /\ Server(f, nextPort) \in Services
      BY <1>3, <2>2, NameFacts
    <3> DEFINE w == WithFlow(services, f, nextPort)
    <3>2. /\ DOMAIN w = DOMAIN services \cup {c, n}
          /\ w[c] = Client(f, nextPort)
          /\ n \in DOMAIN services => w[n] = services[n]
          /\ n \notin DOMAIN services => w[n] = Server(f, nextPort)
          /\ \A x \in DOMAIN services : x # c => w[x] = services[x]
      BY ZenonT(40), <1>3, <2>2, WithFlowFacts
    <3>3. services' = w
      BY <2>1
    <3> HIDE DEF c, n, f, w
    <3>4. \A name \in DOMAIN w : name \in Names /\ w[name] \in Services
      BY <1>1, <3>1, <3>2 DEF PlanTypeOK
    <3> QED
      BY <3>3, <3>4
  <2> HIDE DEF row, f, d
  <2>6. table' \in Seq(Rows) /\ nextPort' \in Nat /\ flows' \in Seq(Flows)
    BY <1>1, <1>2, <1>3, <2>1, <2>3, <2>4 DEF PlanTypeOK
  <2>7. PlanTypeOK'
    BY <1>1, <2>1, <2>5, <2>6 DEF PlanTypeOK, net, gather
  <2> QED
    BY <1>1, <2>7 DEF Gathered, Answers, Stages, Matched, net, gather
<1> QED
  BY <1>4, <1>5

LEMMA GatheredNext == Gathered /\ [PlanNext]_planVars => Gathered'
<1> SUFFICES ASSUME Gathered, [PlanNext]_planVars
             PROVE  Gathered'
  OBVIOUS
<1>1. CASE \E ct \in UEs : Change(ct)
  BY <1>1, ChangeGathered
<1>2. CASE \E ct \in UEs : Gather(ct)
  <2>1. PICK ct \in UEs : Gather(ct)
    BY <1>2
  <2>2. CASE ShowAddr(ct)
    BY <2>2, ShowAddrGathered
  <2>3. CASE ShowAddrFails(ct)
    BY <2>3, ShowAddrFailsGathered
  <2>4. CASE ListSessionsFails(ct)
    <3>1. phase' = "failed" /\ UNCHANGED <<net, gather, plan>>
      BY <2>4 DEF ListSessionsFails
    <3> QED
      BY <3>1 DEF Gathered, PlanTypeOK, Answers, Stages, Matched, net, gather, plan
  <2>5. CASE \E sub \in Range(Subs[ct]) : ListSessions(ct, sub)
    BY <2>5, ListSessionsGathered
  <2>6. CASE \E sub \in Range(Subs[ct]) : MatchSessions(ct, sub)
    BY <2>6, MatchSessionsGathered
  <2> QED
    BY <2>1, <2>2, <2>3, <2>4, <2>5, <2>6 DEF Gather
<1>3. CASE Sort
  <2>1. /\ phase' \in {"failed", "define"} /\ flows' = Sorted(found)
        /\ UNCHANGED <<net, gather, nPortsPerFlow, nextPort, table, services>>
    BY <1>3 DEF Sort
  <2>2. Sorted(found) \in Seq(Flows)
    <3>1. found \in Seq(Flows)
      BY DEF Gathered, PlanTypeOK
    <3> QED
      BY <3>1, SortedFacts DEF Resorted
  <2> QED
    BY <2>1, <2>2 DEF Gathered, PlanTypeOK, Answers, Stages, Matched, net, gather
<1>4. CASE Define
  BY <1>4, DefineGathered
<1>5. CASE Write
  <2>1. phase' = "done" /\ UNCHANGED <<net, gather, plan>>
    BY <1>5 DEF Write
  <2> QED
    BY <2>1 DEF Gathered, PlanTypeOK, Answers, Stages, Matched, net, gather, plan
<1>6. CASE UNCHANGED planVars
  BY <1>6 DEF Gathered, PlanTypeOK, Answers, Stages, Matched, planVars, net, gather, plan
<1> QED
  BY <1>1, <1>2, <1>3, <1>4, <1>5, <1>6 DEF PlanNext

\* What the program has gathered and planned is of the types that PlanTypeOK gives.
THEOREM PlanTypeCorrect == PlanSpec => []PlanTypeOK
<1>1. Gathered => PlanTypeOK
  BY DEF Gathered
<1> QED
  BY GatheredInit, GatheredNext, <1>1, PTL DEF PlanSpec
-----------------------------------------------------------------------------
(* Ports and containers.                                                     *)

DefOf(r) == FlowDefs[r.group]

\* The container is one of those of a row.
Holds(name, service, r) ==
  \/ name = ClientName(r, r.port) /\ service = Client(r, r.port)
  \/ name = ServerName(r, r.port) /\ service = Server(r, r.port)

\* Rows have ranges of ports that follow each other; and the containers of the test are theirs.
Spaced ==
  /\ \A i \in DOMAIN table : ~ Refused(DefOf(table[i])) /\ table[i].port + PortsOf(DefOf(table[i])) <= nextPort
  /\ \A i, j \in DOMAIN table : i < j => table[i].port + PortsOf(DefOf(table[i])) <= table[j].port

Contained ==
  /\ \A name \in DOMAIN services : \E i \in DOMAIN table : Holds(name, services[name], table[i])
  /\ \A i \in DOMAIN table :
       {ClientName(table[i], table[i].port), ServerName(table[i], table[i].port)} \subseteq DOMAIN services

Planned == Spaced /\ Contained

LEMMA RowFacts ==
  ASSUME Gathered, NEW i \in DOMAIN table
  PROVE  IsFlow(table[i]) /\ table[i].port \in Nat /\ table[i] \in Rows
<1>1. table[i] \in Rows
  BY DEF Gathered, PlanTypeOK
<1> QED
  BY <1>1 DEF Rows, IsFlow

LEMMA PortsFacts ==
  ASSUME Gathered, NEW g \in DOMAIN FlowDefs
  PROVE  /\ PortsOf(FlowDefs[g]) \in Nat
         /\ ~ Refused(FlowDefs[g]) => NPorts(FlowDefs[g]) <= PortsOf(FlowDefs[g])
<1>1. nPortsPerFlow \in Nat
  BY PortAssumption DEF Gathered, PlanTypeOK
<1>2. NPorts(FlowDefs[g]) \in Nat
  BY NPortsFacts
<1> QED
  BY <1>1, <1>2 DEF PortsOf, Refused

LEMMA PlannedInit == PlanInit => Planned
<1> SUFFICES ASSUME PlanInit PROVE Planned
  OBVIOUS
<1>1. table = <<>> /\ DOMAIN services = {}
  BY DEF PlanInit
<1> QED
  BY <1>1 DEF Planned, Spaced, Contained

LEMMA PlannedDefine ==
  ASSUME Gathered, Planned, Define
  PROVE  Planned'
<1> DEFINE f == Head(flows)
           d == FlowDefs[f.group]
           row == [group |-> f.group, sub |-> f.sub, dn |-> f.dn, ct |-> f.ct, addr |-> f.addr, port |-> nextPort]
           n == Len(table)
           w == WithFlow(services, f, nextPort)
<1>1. PlanTypeOK /\ flows # <<>> /\ nPortsPerFlow' = nPortsPerFlow
  BY DEF Gathered, Define
<1>2. CASE Refused(d)
  <2>1. UNCHANGED <<services, table, nextPort>>
    BY <1>2 DEF Define
  <2> QED
    BY <1>1, <2>1 DEF Planned, Spaced, Contained, PortsOf, Refused
<1>3. CASE ~ Refused(d)
  <2>1. /\ services' = w
        /\ table' = Append(table, row)
        /\ nextPort' = nextPort + PortsOf(d)
    BY <1>3 DEF Define
  <2>2. f \in Flows /\ IsFlow(f) /\ nextPort \in Nat
    <3>1. f \in Flows /\ nextPort \in Nat
      BY <1>1 DEF PlanTypeOK
    <3> QED
      BY <3>1, FlowShape DEF IsFlow
  <2>3. PortsOf(d) \in Nat
    BY <2>2, PortsFacts DEF IsFlow
  <2>4. /\ ClientName(row, row.port) = ClientName(f, nextPort)
        /\ ServerName(row, row.port) = ServerName(f, nextPort)
        /\ Client(row, row.port) = Client(f, nextPort)
        /\ Server(row, row.port) = Server(f, nextPort)
        /\ DefOf(row) = d /\ row.port = nextPort
    BY DEF ClientName, ServerName, Client, Server, ClientEnd, ServerEnd, UeEnd, DnEnd, DefOf
  <2>5. row \in Rows
    BY <2>2 DEF Rows, IsFlow
  <2> HIDE DEF f, d, row, w
  <2>6. /\ n \in Nat /\ DOMAIN table = 1 .. n /\ DOMAIN table' = 1 .. n + 1
        /\ table'[n + 1] = row /\ \A i \in 1 .. n : table'[i] = table[i]
    <3>1. table \in Seq(Rows)
      BY <1>1 DEF PlanTypeOK
    <3> QED
      BY <2>1, <2>5, <3>1
  <2> HIDE DEF n
  <2>7. \A i \in 1 .. n + 1 : i \in 1 .. n \/ i = n + 1
    BY <2>6
  <2>8. Spaced'
    <3>1. ASSUME NEW i \in 1 .. n
          PROVE  /\ table[i].port \in Nat /\ PortsOf(DefOf(table[i])) \in Nat
                 /\ ~ Refused(DefOf(table[i])) /\ table[i].port + PortsOf(DefOf(table[i])) <= nextPort
      <4>1. IsFlow(table[i]) /\ table[i].port \in Nat
        BY <2>6, RowFacts
      <4>2. PortsOf(DefOf(table[i])) \in Nat
        BY <4>1, PortsFacts DEF DefOf, IsFlow
      <4> QED
        BY <2>6, <4>1, <4>2 DEF Planned, Spaced
    <3>2. \A i \in 1 .. n + 1 :
            /\ ~ Refused(DefOf(table'[i]))
            /\ table'[i].port + PortsOf(DefOf(table'[i])) <= nextPort'
      <4> SUFFICES ASSUME NEW i \in 1 .. n + 1
                   PROVE  /\ ~ Refused(DefOf(table'[i]))
                          /\ table'[i].port + PortsOf(DefOf(table'[i])) <= nextPort'
        OBVIOUS
      <4>1. CASE i \in 1 .. n
        BY <2>1, <2>2, <2>3, <2>6, <3>1, <4>1
      <4>2. CASE i = n + 1
        BY <1>3, <2>1, <2>2, <2>3, <2>4, <2>6, <4>2
      <4> QED
        BY <2>7, <4>1, <4>2
    <3>3. \A i, j \in 1 .. n + 1 : i < j => table'[i].port + PortsOf(DefOf(table'[i])) <= table'[j].port
      <4> SUFFICES ASSUME NEW i \in 1 .. n + 1, NEW j \in 1 .. n + 1, i < j
                   PROVE  table'[i].port + PortsOf(DefOf(table'[i])) <= table'[j].port
        OBVIOUS
      <4>1. i \in 1 .. n
        BY <2>6
      <4>2. CASE j \in 1 .. n
        BY <2>6, <4>1, <4>2 DEF Planned, Spaced
      <4>3. CASE j = n + 1
        BY <2>4, <2>6, <3>1, <4>1, <4>3
      <4> QED
        BY <2>7, <4>2, <4>3
    <3> QED
      BY <1>1, <2>6, <3>2, <3>3 DEF Spaced, PortsOf, Refused
  <2>9. Contained'
    <3> DEFINE c == ClientName(f, nextPort)
               s == ServerName(f, nextPort)
    <3>1. /\ DOMAIN w = DOMAIN services \cup {c, s}
          /\ w[c] = Client(f, nextPort)
          /\ s \in DOMAIN services => w[s] = services[s]
          /\ s \notin DOMAIN services => w[s] = Server(f, nextPort)
          /\ \A x \in DOMAIN services : x # c => w[x] = services[x]
      BY <2>2, WithFlowFacts DEF w
    <3> HIDE DEF c, s
    <3>2. \A name \in DOMAIN w : \E i \in 1 .. n + 1 : Holds(name, w[name], table'[i])
      <4> SUFFICES ASSUME NEW name \in DOMAIN w PROVE \E i \in 1 .. n + 1 : Holds(name, w[name], table'[i])
        OBVIOUS
      <4>0. n + 1 \in 1 .. n + 1 /\ 1 .. n \subseteq 1 .. n + 1
        BY <2>6
      <4>1. CASE name = c
        <5>1. Holds(name, w[name], row)
          BY <2>4, <3>1, <4>1 DEF Holds, c
        <5> QED
          BY <2>6, <4>0, <5>1
      <4>2. CASE name # c /\ name \in DOMAIN services
        <5>1. PICK i \in 1 .. n : Holds(name, services[name], table[i])
          BY <2>6, <4>2 DEF Planned, Contained
        <5> QED
          BY <2>6, <3>1, <4>0, <4>2, <5>1
      <4>3. CASE name = s /\ name \notin DOMAIN services
        <5>1. Holds(name, w[name], row)
          BY <2>4, <3>1, <4>3 DEF Holds, s
        <5> QED
          BY <2>6, <4>0, <5>1
      <4> QED
        BY <3>1, <4>1, <4>2, <4>3
    <3>3. \A i \in 1 .. n + 1 :
            {ClientName(table'[i], table'[i].port), ServerName(table'[i], table'[i].port)} \subseteq DOMAIN w
      <4> SUFFICES ASSUME NEW i \in 1 .. n + 1
                   PROVE  {ClientName(table'[i], table'[i].port), ServerName(table'[i], table'[i].port)} \subseteq DOMAIN w
        OBVIOUS
      <4>1. CASE i \in 1 .. n
        BY <2>6, <3>1, <4>1 DEF Planned, Contained
      <4>2. CASE i = n + 1
        BY <2>4, <2>6, <3>1, <4>2 DEF c, s
      <4> QED
        BY <2>7, <4>1, <4>2
    <3> QED
      BY <2>1, <2>6, <3>2, <3>3 DEF Contained
  <2> QED
    BY <2>8, <2>9 DEF Planned
<1> QED
  BY <1>2, <1>3

LEMMA PlannedNext == Gathered /\ Planned /\ [PlanNext]_planVars => Planned'
<1> SUFFICES ASSUME Gathered, Planned, [PlanNext]_planVars
             PROVE  Planned'
  OBVIOUS
<1>1. CASE Define
  BY <1>1, PlannedDefine
<1>2. CASE UNCHANGED <<nPortsPerFlow, nextPort, table, services>>
  BY <1>2 DEF Planned, Spaced, Contained, PortsOf, Refused
<1>3. Define \/ UNCHANGED <<nPortsPerFlow, nextPort, table, services>>
  BY ZenonT(40) DEF PlanNext, Change, Gather, ShowAddr, ShowAddrFails, ListSessions,
         ListSessionsFails, MatchSessions, Sort, Write, planVars, plan
<1> QED
  BY <1>1, <1>2, <1>3

\* What is known of a container of a row.
LEMMA HoldsFacts ==
  ASSUME Gathered, Planned, NEW i \in DOMAIN table, NEW name, NEW service, Holds(name, service, table[i])
  PROVE  /\ service.ports \subseteq table[i].port .. table[i].port + PortsOf(DefOf(table[i])) - 1
         /\ service.taps = TapIndexes(DefOf(table[i]), table[i].port)
<1> DEFINE r == table[i]
<1>1. IsFlow(r) /\ r.port \in Nat
  BY RowFacts
<1>2. NPorts(DefOf(r)) <= PortsOf(DefOf(r)) /\ PortsOf(DefOf(r)) \in Nat
  BY <1>1, PortsFacts DEF IsFlow, DefOf, Planned, Spaced
<1>3. /\ NPorts(DefOf(r)) \in Nat
      /\ ServerPorts(DefOf(r), r.port) \subseteq r.port .. r.port + NPorts(DefOf(r)) - 1
      /\ ClientPorts(DefOf(r), r.port) \subseteq r.port .. r.port + NPorts(DefOf(r)) - 1
  BY <1>1, NPortsFacts DEF IsFlow, DefOf
<1>4. service.ports \in {ServerPorts(DefOf(r), r.port), ClientPorts(DefOf(r), r.port)}
  BY DEF Holds, Client, Server, DefOf
<1>5. service.taps = TapIndexes(DefOf(r), r.port)
  BY DEF Holds, Client, Server, DefOf
<1> HIDE DEF r
<1>6. r.port .. r.port + NPorts(DefOf(r)) - 1 \subseteq r.port .. r.port + PortsOf(DefOf(r)) - 1
  BY <1>1, <1>2, <1>3
<1> QED
  BY <1>3, <1>4, <1>5, <1>6 DEF r

\* The containers of two rows share no port, and no TAP device.
LEMMA RowsApart ==
  ASSUME Gathered, Planned, NEW i \in DOMAIN table, NEW j \in DOMAIN table, i < j,
         NEW a, NEW s, Holds(a, s, table[i]), NEW b, NEW t, Holds(b, t, table[j])
  PROVE  s.ports \cap t.ports = {} /\ s.taps \cap t.taps = {}
<1> DEFINE p == table[i].port
           q == table[j].port
           d == DefOf(table[i])
           e == DefOf(table[j])
<1>1. /\ s.ports \subseteq p .. p + PortsOf(d) - 1 /\ s.taps = TapIndexes(d, p)
      /\ t.ports \subseteq q .. q + PortsOf(e) - 1 /\ t.taps = TapIndexes(e, q)
  BY HoldsFacts
<1>2. p \in Nat /\ q \in Nat /\ p + PortsOf(d) <= q
  BY RowFacts DEF Planned, Spaced
<1>3. /\ PortsOf(d) \in Nat /\ PortsOf(e) \in Nat
      /\ NPorts(d) \in Nat /\ NPorts(d) <= PortsOf(d)
  <2>1. IsFlow(table[i]) /\ IsFlow(table[j]) /\ ~ Refused(d)
    BY RowFacts DEF Planned, Spaced
  <2> QED
    BY <2>1, PortsFacts, NPortsFacts DEF IsFlow, DefOf
<1> HIDE DEF p, q, d, e
<1>4. s.ports \cap t.ports = {}
  <2>1. (p .. p + PortsOf(d) - 1) \cap (q .. q + PortsOf(e) - 1) = {}
    BY <1>2, <1>3
  <2> QED
    BY <1>1, <2>1
<1>5. s.taps \cap t.taps = {}
  <2>1. CASE d.tgid = "ns3http" /\ e.tgid = "ns3http"
    <3>1. NPorts(d) = 8
      BY <2>1 DEF NPorts, Asked, Ns3http, Asks
    <3>2. p + 8 <= q
      BY <1>2, <1>3, <3>1
    <3>3. p \div 8 # q \div 8
      BY <1>2, <3>2
    <3> QED
      BY <1>1, <2>1, <3>3 DEF TapIndexes
  <2>2. CASE ~ (d.tgid = "ns3http" /\ e.tgid = "ns3http")
    BY <1>1, <2>2 DEF TapIndexes
  <2> QED
    BY <2>1, <2>2
<1> QED
  BY <1>4, <1>5

LEMMA PlannedApart == Gathered /\ Planned => FlowsApart
<1> SUFFICES ASSUME Gathered, Planned,
                    NEW a \in DOMAIN services, NEW b \in DOMAIN services,
                    a # b, services[a].netns = services[b].netns
             PROVE  /\ services[a].ip = services[b].ip => services[a].ports \cap services[b].ports = {}
                    /\ services[a].taps \cap services[b].taps = {}
  BY DEF FlowsApart
<1>1. PICK i \in DOMAIN table : Holds(a, services[a], table[i])
  BY DEF Planned, Contained
<1>2. PICK j \in DOMAIN table : Holds(b, services[b], table[j])
  BY DEF Planned, Contained
<1>3. i \in Nat /\ j \in Nat
  BY DEF Gathered, PlanTypeOK
<1>4. CASE i < j
  <2>1. services[a].ports \cap services[b].ports = {} /\ services[a].taps \cap services[b].taps = {}
    BY <1>1, <1>2, <1>4, RowsApart
  <2> QED
    BY <2>1
<1>5. CASE j < i
  <2>1. services[b].ports \cap services[a].ports = {} /\ services[b].taps \cap services[a].taps = {}
    BY <1>1, <1>2, <1>5, RowsApart
  <2> QED
    BY <2>1
<1>6. CASE i = j
  <2> DEFINE r == table[i]
  <2>1. ServerEnd(r).netns # ClientEnd(r).netns
    BY RowFacts, EndFacts
  <2>2. Client(r, r.port).netns = ClientEnd(r).netns /\ Server(r, r.port).netns = ServerEnd(r).netns
    BY DEF Client, Server
  <2> HIDE DEF r
  <2>3. Holds(a, services[a], r) /\ Holds(b, services[b], r)
    BY <1>1, <1>2, <1>6 DEF r
  <2> QED
    BY <2>1, <2>2, <2>3 DEF Holds
<1> QED
  BY <1>3, <1>4, <1>5, <1>6

LEMMA PlannedServed == Gathered /\ Planned => Served
<1> SUFFICES ASSUME Gathered, Planned, NEW i \in DOMAIN table
             PROVE  LET r == table[i]
                        d == FlowDefs[r.group]
                        c == ClientName(r, r.port)
                        s == ServerName(r, r.port)
                    IN /\ {c, s} \subseteq DOMAIN services
                       /\ services[c].netns = ClientEnd(r).netns /\ services[c].ip = ClientEnd(r).ip
                       /\ services[s].netns = ServerEnd(r).netns /\ services[s].ip = ServerEnd(r).ip
                       /\ ServerPerDN(d) \/ r.port \in services[s].ports
                       /\ \A j \in DOMAIN table : ClientName(table[j], table[j].port) = c => i = j
  BY DEF Served
<1> DEFINE r == table[i]
           d == FlowDefs[r.group]
           c == ClientName(r, r.port)
           s == ServerName(r, r.port)
<1>1. {c, s} \subseteq DOMAIN services
  BY DEF Planned, Contained
<1>2. IsFlow(r) /\ r.port \in Nat
  BY RowFacts
<1>3. ASSUME NEW j \in DOMAIN table, table[j].port = r.port
      PROVE  i = j
  <2>1. \A k \in DOMAIN table : PortsOf(DefOf(table[k])) \in Nat \ {0} /\ table[k].port \in Nat
    <3> SUFFICES ASSUME NEW k \in DOMAIN table
                 PROVE  PortsOf(DefOf(table[k])) \in Nat \ {0} /\ table[k].port \in Nat
      OBVIOUS
    <3>1. IsFlow(table[k]) /\ table[k].port \in Nat /\ ~ Refused(DefOf(table[k]))
      BY RowFacts DEF Planned, Spaced
    <3>2. NPorts(DefOf(table[k])) \in Nat \ {0}
      BY <3>1, NPortsFacts DEF IsFlow, DefOf
    <3>3. PortsOf(DefOf(table[k])) \in Nat /\ NPorts(DefOf(table[k])) <= PortsOf(DefOf(table[k]))
      BY <3>1, PortsFacts DEF IsFlow, DefOf
    <3> QED
      BY <3>1, <3>2, <3>3
  <2>2. i \in Nat /\ j \in Nat
    BY DEF Gathered, PlanTypeOK
  <2>3. ~ (i < j)
    <3> SUFFICES ASSUME i < j PROVE FALSE
      OBVIOUS
    <3>1. table[i].port + PortsOf(DefOf(table[i])) <= table[j].port
      BY DEF Planned, Spaced
    <3> QED
      BY <1>3, <2>1, <3>1
  <2>4. ~ (j < i)
    <3> SUFFICES ASSUME j < i PROVE FALSE
      OBVIOUS
    <3>1. table[j].port + PortsOf(DefOf(table[j])) <= table[i].port
      BY DEF Planned, Spaced
    <3> QED
      BY <1>3, <2>1, <3>1
  <2> QED
    BY <2>2, <2>3, <2>4
<1>4. ASSUME NEW j \in DOMAIN table, ClientName(table[j], table[j].port) = c
      PROVE  i = j
  <2>1. c.port = r.port
    BY <1>2, NameFacts
  <2>2. ClientName(table[j], table[j].port).port = table[j].port
    BY RowFacts, NameFacts
  <2> QED
    BY <1>3, <1>4, <2>1, <2>2
<1>5. services[c] = Client(r, r.port)
  <2>1. PICK j \in DOMAIN table : Holds(c, services[c], table[j])
    BY <1>1 DEF Planned, Contained
  <2>2. c.side = "c"
    BY <1>2, NameFacts
  <2>3. ServerName(table[j], table[j].port).side = "s"
    BY RowFacts, NameFacts
  <2>4. c = ClientName(table[j], table[j].port) /\ services[c] = Client(table[j], table[j].port)
    <3> HIDE DEF c
    <3> QED
      BY <2>1, <2>2, <2>3 DEF Holds
  <2> QED
    BY <1>4, <2>4
<1>6. PICK j \in DOMAIN table : Holds(s, services[s], table[j])
  BY <1>1 DEF Planned, Contained
<1>7. s = ServerName(table[j], table[j].port) /\ services[s] = Server(table[j], table[j].port)
  <2>1. s.side = "s"
    BY <1>2, NameFacts
  <2>2. ClientName(table[j], table[j].port).side = "c"
    BY RowFacts, NameFacts
  <2> HIDE DEF s
  <2> QED
    BY <1>6, <2>1, <2>2 DEF Holds
<1>8. /\ services[s].netns = ServerEnd(r).netns /\ services[s].ip = ServerEnd(r).ip
      /\ ServerPerDN(d) \/ r.port \in services[s].ports
  <2> DEFINE o == table[j]
             e == FlowDefs[o.group]
  <2>1. IsFlow(o) /\ o.port \in Nat
    BY RowFacts
  <2>2. d.tgid = e.tgid /\ (ServerPerDN(d) <=> ServerPerDN(e))
    <3>1. s.tgid = d.tgid
      BY <1>2, NameFacts
    <3>2. ServerName(o, o.port).tgid = e.tgid
      BY <2>1, NameFacts
    <3> QED
      BY <1>7, <3>1, <3>2 DEF ServerPerDN
  <2>3. services[s].netns = ServerEnd(o).netns /\ services[s].ip = ServerEnd(o).ip
        /\ services[s].ports = ServerPorts(e, o.port)
    BY <1>7 DEF Server
  <2>4. CASE ServerPerDN(d)
    <3>1. ~ d.reversed /\ ~ e.reversed
      BY <2>2, <2>4 DEF Planned, Spaced, Refused, DefOf
    <3>2. ServerEnd(r) = DnEnd(r) /\ ServerEnd(o) = DnEnd(o)
      BY <1>2, <2>1, <2>2, <2>4, <3>1, EndFacts
    <3>3. r.dn = o.dn
      <4>1. s.dn = r.dn
        BY <1>2, <2>4, NameFacts
      <4>2. ServerName(o, o.port).dn = o.dn
        BY <2>1, <2>2, <2>4, NameFacts
      <4> QED
        BY <1>7, <4>1, <4>2
    <3>4. DnEnd(r) = DnEnd(o)
      BY <3>3 DEF DnEnd
    <3> QED
      BY <2>3, <2>4, <3>2, <3>4
  <2>5. CASE ~ ServerPerDN(d)
    <3>1. s.port = r.port
      BY <1>2, <2>5, NameFacts
    <3>2. ServerName(o, o.port).port = o.port
      BY <2>1, <2>2, <2>5, NameFacts
    <3>3. i = j
      BY <1>3, <1>7, <3>1, <3>2
    <3>4. r.port \in ServerPorts(d, r.port)
      <4>1. d.parallel \in Nat
        BY <1>2, DefShape DEF IsFlow
      <4>2. 0 \in Asked(d).server
        BY <1>2, <2>5, <4>1, DefShape DEF Asked, Iperf2, Iperf3, Owamp, Netperf, Sockperf, Itg, Asks,
             ServerPerDN, Tgids, IsFlow
      <4>3. r.port + 0 = r.port
        BY <1>2 DEF IsFlow
      <4> HIDE DEF d, r
      <4> QED
        BY <4>2, <4>3 DEF ServerPorts
    <3> QED
      BY <2>3, <3>3, <3>4
  <2> QED
    BY <2>4, <2>5
<1>9. services[c].netns = ClientEnd(r).netns /\ services[c].ip = ClientEnd(r).ip
  BY <1>5 DEF Client
<1> QED
  BY <1>1, <1>4, <1>8, <1>9

\* Every flow of a test has its containers, in the two network namespaces that it connects, and no two
\* containers of a network namespace bind to the same port or share a TAP device.
THEOREM FlowsAreServed == PlanSpec => []FlowsServed
<1>1. Gathered /\ Planned => FlowsServed
  BY PlannedApart, PlannedServed DEF FlowsServed
<1> QED
  BY GatheredInit, GatheredNext, PlannedInit, PlannedNext, <1>1, PTL DEF PlanSpec
-----------------------------------------------------------------------------
(* The order of the table.                                                   *)

\* Every element precedes those that follow.
Ascending(q) == \A i, j \in DOMAIN q : i < j => Precedes(q[i], q[j])

\* The ports of a row follow on those of the row before it.
Chained ==
  /\ \A i \in DOMAIN table :
       table[i].port = IF i = 1 THEN BasePort ELSE table[i - 1].port + PortsOf(DefOf(table[i - 1]))
  /\ nextPort = IF table = <<>> THEN BasePort ELSE table[Len(table)].port + PortsOf(DefOf(table[Len(table)]))

\* Flows are found in turn; and those to be defined, in the order of Precedes, go on where the table ends.
Stable ==
  /\ InTurn(found)
  /\ phase = "gather" => table = <<>>
  /\ Ascending(table) /\ Ascending(flows)
  /\ \A i \in DOMAIN table, j \in DOMAIN flows : Precedes(table[i], flows[j])
  /\ Chained

LEMMA StableInit == PlanInit => Stable
<1> SUFFICES ASSUME PlanInit PROVE Stable
  OBVIOUS
<1>1. found = <<>> /\ table = <<>> /\ flows = <<>> /\ nextPort = BasePort
  BY DEF PlanInit
<1> QED
  BY <1>1 DEF Stable, InTurn, Ascending, Chained

\* Flows of another UE, or of another group, come when they come.
LEMMA StableMatch ==
  ASSUME Gathered, Stable, NEW ct \in UEs, NEW sub \in Range(Subs[ct]), MatchSessions(ct, sub)
  PROVE  Stable'
<1> DEFINE q == UeFlows(ct, sub)
           r == found \o q
<1>1. /\ sub \in pending[ct] /\ found' = r /\ UNCHANGED <<phase, plan>>
  BY DEF MatchSessions, UeFlows
<1>2. Sessions(ct, ueIPs[ct]) /\ found \in Seq(Flows)
  BY DEF Gathered, Answers, PlanTypeOK
<1>3. /\ q \in Seq(Flows) /\ InTurn(q)
      /\ \A f \in Range(q) : f.sub = sub /\ f.ct = ct
  BY <1>2, UeFlowsFacts
<1> HIDE DEF q
<1>4. \A i, j \in DOMAIN r : i < j =>
        \/ i \in DOMAIN found /\ j \in DOMAIN found /\ r[i] = found[i] /\ r[j] = found[j]
        \/ r[i] \in Range(found) /\ r[j] \in Range(q)
        \/ \E a, b \in DOMAIN q : a < b /\ r[i] = q[a] /\ r[j] = q[b]
  <2> DEFINE P(s, t, u) ==
               \A i, j \in DOMAIN u : i < j =>
                 \/ i \in DOMAIN s /\ j \in DOMAIN s /\ u[i] = s[i] /\ u[j] = s[j]
                 \/ u[i] \in Range(s) /\ u[j] \in Range(t)
                 \/ \E a, b \in DOMAIN t : a < b /\ u[i] = t[a] /\ u[j] = t[b]
  <2>1. \A s, t \in Seq(Flows) : P(s, t, s \o t)
    BY JoinedRange
  <2> HIDE DEF P
  <2>2. P(found, q, r)
    BY <1>2, <1>3, <2>1
  <2> QED
    BY <2>2 DEF P
<1> HIDE DEF r
<1>5. \A f \in Range(found) : f.sub # sub
  <2> SUFFICES ASSUME NEW f \in Range(found), f.sub = sub PROVE FALSE
    OBVIOUS
  <2>1. f.sub \in Range(Subs[f.ct]) /\ f.sub \notin pending[f.ct]
    BY DEF Gathered, Matched
  <2>2. f.ct \in UEs
    <3>1. f \in Flows
      BY <1>2 DEF Range
    <3> QED
      BY <3>1, FlowShape
  <2>3. f.ct = ct
    BY <2>1, <2>2, OwnerFacts
  <2> QED
    BY <1>1, <2>1, <2>3
<1>6. InTurn(r)
  <2> SUFFICES ASSUME NEW i \in DOMAIN r, NEW j \in DOMAIN r, i < j,
                      r[i].group = r[j].group, r[i].dn[2] = r[j].dn[2], r[i].sub = r[j].sub
               PROVE  Position(r[i].sub, r[i].dn) < Position(r[j].sub, r[j].dn)
    BY DEF InTurn
  <2>1. CASE i \in DOMAIN found /\ j \in DOMAIN found /\ r[i] = found[i] /\ r[j] = found[j]
    BY <2>1 DEF Stable, InTurn
  <2>2. CASE r[i] \in Range(found) /\ r[j] \in Range(q)
    BY <1>3, <1>5, <2>2
  <2>3. CASE \E a, b \in DOMAIN q : a < b /\ r[i] = q[a] /\ r[j] = q[b]
    BY <1>3, <2>3 DEF InTurn
  <2> QED
    BY <1>4, <2>1, <2>2, <2>3
<1>7. /\ InTurn(found)'
      /\ phase' = phase /\ table' = table /\ flows' = flows /\ nextPort' = nextPort /\ nPortsPerFlow' = nPortsPerFlow
  BY <1>1, <1>6 DEF plan, InTurn
<1> QED
  BY <1>7 DEF Stable, Chained, Ascending, PortsOf

LEMMA StableSort ==
  ASSUME Gathered, Stable, Sort
  PROVE  Stable'
<1> DEFINE q == Sorted(found)
<1>1. /\ phase = "gather" /\ phase' # "gather" /\ flows' = q
      /\ UNCHANGED <<gather, nPortsPerFlow, nextPort, table>>
  BY DEF Sort
<1>2. found \in Seq(Flows)
  BY DEF Gathered, PlanTypeOK
<1>3. Resorted(q, found)
  BY <1>2, SortedFacts
<1> HIDE DEF q
<1>4. Ascending(q)
  <2> SUFFICES ASSUME NEW a \in DOMAIN q, NEW b \in DOMAIN q, a < b
               PROVE  Precedes(q[a], q[b])
    BY DEF Ascending
  <2>1. PICK i \in DOMAIN found, j \in DOMAIN found :
          i # j /\ Leads(found, i, j) /\ q[a] = found[i] /\ q[b] = found[j]
    BY <1>3 DEF Resorted
  <2> DEFINE f == found[i]
             g == found[j]
  <2>2. /\ f.group \in Nat /\ f.dn[2] \in Nat /\ f.sub \in Nat
        /\ g.group \in Nat /\ g.dn[2] \in Nat /\ g.sub \in Nat
    <3>1. f \in Flows /\ g \in Flows
      BY <1>2
    <3> QED
      BY <3>1, FlowShape
  <2>3. CASE Before(f, g)
    <3>1. Precedes(f, g)
      BY <2>3 DEF Before, Precedes
    <3> QED
      BY <2>1, <3>1
  <2>4. CASE i <= j /\ ~ Before(g, f) /\ ~ Before(f, g)
    <3>1. i < j
      BY <1>2, <2>1, <2>4
    <3>2. f.group = g.group /\ f.dn[2] = g.dn[2] /\ f.sub = g.sub
      <4> HIDE DEF f, g
      <4> QED
        BY <2>2, <2>4 DEF Before
    <3>3. Position(f.sub, f.dn) < Position(g.sub, g.dn)
      BY <3>1, <3>2 DEF Stable, InTurn
    <3> HIDE DEF f, g
    <3>4. Precedes(f, g)
      BY <3>2, <3>3 DEF Precedes
    <3> QED
      BY <2>1, <3>4 DEF f, g
  <2> QED
    BY <2>1, <2>3, <2>4 DEF Leads
<1>5. table = <<>> /\ table' = <<>> /\ found' = found
  BY <1>1 DEF Stable, gather
<1> QED
  BY <1>1, <1>4, <1>5 DEF Stable, Chained, Ascending, InTurn

LEMMA StableDefine ==
  ASSUME Gathered, Stable, Define
  PROVE  Stable'
<1> DEFINE f == Head(flows)
           d == FlowDefs[f.group]
           row == [group |-> f.group, sub |-> f.sub, dn |-> f.dn, ct |-> f.ct, addr |-> f.addr, port |-> nextPort]
           n == Len(table)
           q == Tail(flows)
<1>1. PlanTypeOK /\ flows # <<>> /\ phase = "define" /\ nPortsPerFlow' = nPortsPerFlow /\ found' = found
  BY DEF Gathered, Define, gather
<1>2. CASE Refused(d)
  <2>1. phase' = "failed" /\ UNCHANGED <<table, nextPort, flows>>
    BY <1>2 DEF Define
  <2> QED
    BY <1>1, <2>1 DEF Stable, Chained, Ascending, InTurn, PortsOf
<1>3. CASE ~ Refused(d)
  <2>1. /\ table' = Append(table, row) /\ nextPort' = nextPort + PortsOf(d)
        /\ flows' = q /\ phase' = "define"
    BY <1>1, <1>3 DEF Define
  <2>2. /\ flows \in Seq(Flows) /\ 1 \in DOMAIN flows /\ f = flows[1] /\ f \in Flows
        /\ \A j \in DOMAIN q : j + 1 \in DOMAIN flows /\ q[j] = flows[j + 1] /\ j \in Nat \ {0}
    BY <1>1 DEF PlanTypeOK
  <2>3. row \in Rows
    <3>1. nextPort \in Nat
      BY <1>1 DEF PlanTypeOK
    <3> QED
      BY <2>2, <3>1, FlowShape DEF Rows
  <2>4. \A g : (Precedes(row, g) <=> Precedes(f, g)) /\ (Precedes(g, row) <=> Precedes(g, f))
    BY DEF Precedes
  <2>5. DefOf(row) = d /\ row.port = nextPort
    BY DEF DefOf
  <2> HIDE DEF f, d, row, q
  <2>6. /\ n \in Nat /\ DOMAIN table = 1 .. n /\ DOMAIN table' = 1 .. n + 1
        /\ Len(table') = n + 1 /\ table' # <<>> /\ (table = <<>> <=> n = 0)
        /\ table'[n + 1] = row /\ \A i \in 1 .. n : table'[i] = table[i]
    <3>1. table \in Seq(Rows)
      BY <1>1 DEF PlanTypeOK
    <3> QED
      BY <2>1, <2>3, <3>1
  <2> HIDE DEF n
  <2>7. \A i \in 1 .. n + 1 : i \in 1 .. n \/ i = n + 1
    BY <2>6
  <2>8. Ascending(q)
    <3> SUFFICES ASSUME NEW i \in DOMAIN q, NEW j \in DOMAIN q, i < j PROVE Precedes(q[i], q[j])
      BY DEF Ascending
    <3>1. i + 1 < j + 1
      BY <2>2
    <3> QED
      BY <2>2, <3>1 DEF Stable, Ascending
  <2>9. \A j \in DOMAIN q : Precedes(f, q[j])
    <3> SUFFICES ASSUME NEW j \in DOMAIN q PROVE Precedes(f, q[j])
      OBVIOUS
    <3>1. 1 < j + 1
      BY <2>2
    <3> QED
      BY <2>2, <3>1 DEF Stable, Ascending
  <2>10. \A i \in 1 .. n : Precedes(table[i], f) /\ \A j \in DOMAIN q : Precedes(table[i], q[j])
    BY <2>2, <2>6 DEF Stable
  <2>11. Ascending(table)'
    <3> SUFFICES ASSUME NEW i \in 1 .. n + 1, NEW j \in 1 .. n + 1, i < j
                 PROVE  Precedes(table'[i], table'[j])
      BY <2>6 DEF Ascending, Precedes
    <3>1. i \in 1 .. n
      BY <2>6
    <3>2. CASE j \in 1 .. n
      BY <2>6, <3>1, <3>2 DEF Stable, Ascending
    <3>3. CASE j = n + 1
      BY <2>4, <2>6, <2>10, <3>1, <3>3
    <3> QED
      BY <2>7, <3>2, <3>3
  <2>12. \A i \in DOMAIN table', j \in DOMAIN flows' : Precedes(table'[i], flows'[j])
    <3> SUFFICES ASSUME NEW i \in 1 .. n + 1, NEW j \in DOMAIN q
                 PROVE  Precedes(table'[i], q[j])
      BY <2>1, <2>6
    <3>1. CASE i \in 1 .. n
      BY <2>6, <2>10, <3>1
    <3>2. CASE i = n + 1
      BY <2>4, <2>6, <2>9, <3>2
    <3> QED
      BY <2>7, <3>1, <3>2
  <2>13. Chained'
    <3>1. nextPort = IF n = 0 THEN BasePort ELSE table[n].port + PortsOf(DefOf(table[n]))
      BY <2>6 DEF Stable, Chained, n
    <3>2. \A i \in 1 .. n + 1 :
            table'[i].port = IF i = 1 THEN BasePort ELSE table'[i - 1].port + PortsOf(DefOf(table'[i - 1]))
      <4> SUFFICES ASSUME NEW i \in 1 .. n + 1
                   PROVE  table'[i].port = IF i = 1 THEN BasePort
                                           ELSE table'[i - 1].port + PortsOf(DefOf(table'[i - 1]))
        OBVIOUS
      <4>1. i = 1 \/ i - 1 \in 1 .. n
        BY <2>6
      <4>2. CASE i \in 1 .. n
        BY <2>6, <4>1, <4>2 DEF Stable, Chained
      <4>3. CASE i = n + 1
        <5>1. table'[i].port = nextPort /\ i - 1 = n /\ (i = 1 <=> n = 0)
          BY <2>5, <2>6, <4>3
        <5> QED
          BY <2>6, <3>1, <4>1, <5>1
      <4> QED
        BY <2>7, <4>2, <4>3
    <3>3. nextPort' = table'[n + 1].port + PortsOf(DefOf(table'[n + 1]))
      BY <2>1, <2>5, <2>6
    <3> QED
      BY <1>1, <2>6, <3>2, <3>3 DEF Chained, PortsOf
  <2>14. Ascending(flows)' /\ InTurn(found)'
    BY <1>1, <2>1, <2>8 DEF Ascending, InTurn, Stable, Precedes
  <2> QED
    BY <2>1, <2>11, <2>12, <2>13, <2>14 DEF Stable, Precedes
<1> QED
  BY <1>2, <1>3

LEMMA StableNext == Gathered /\ Stable /\ [PlanNext]_planVars => Stable'
<1> SUFFICES ASSUME Gathered, Stable, [PlanNext]_planVars
             PROVE  Stable'
  OBVIOUS
<1>1. CASE \E ct \in UEs : \E sub \in Range(Subs[ct]) : MatchSessions(ct, sub)
  BY <1>1, StableMatch
<1>2. CASE Sort
  BY <1>2, StableSort
<1>3. CASE Define
  BY <1>3, StableDefine
<1>4. CASE /\ UNCHANGED <<found, nPortsPerFlow, nextPort, table, flows>>
           /\ phase' = phase \/ phase' # "gather"
  BY <1>4 DEF Stable, Chained, Ascending, InTurn, PortsOf
<1>5. \/ \E ct \in UEs : \E sub \in Range(Subs[ct]) : MatchSessions(ct, sub)
      \/ Sort \/ Define
      \/ /\ UNCHANGED <<found, nPortsPerFlow, nextPort, table, flows>>
         /\ phase' = phase \/ phase' # "gather"
  BY ZenonT(40) DEF PlanNext, Change, Gather, ShowAddr, ShowAddrFails, ListSessions,
         ListSessionsFails, Write, planVars, plan, gather
<1> QED
  BY <1>1, <1>2, <1>3, <1>4, <1>5

\* The rows of the table are in the one order that groups, DNNs, SUPIs and subscriptions give, each with the
\* ports that follow on those of the row before it, in whichever order the UEs answer.
THEOREM TableIsStable == PlanSpec => []StableTable
<1>1. Gathered /\ Stable => StableTable
  <2> SUFFICES ASSUME Gathered, Stable, NEW i \in DOMAIN table
               PROVE  /\ table[i].port = IF i = 1 THEN BasePort
                                         ELSE table[i - 1].port + PortsOf(FlowDefs[table[i - 1].group])
                      /\ \A j \in 1 .. i - 1 : Precedes(table[j], table[i])
    BY DEF StableTable
  <2>1. \A j \in 1 .. i - 1 : j \in DOMAIN table /\ j < i
    BY DEF Gathered, PlanTypeOK
  <2> QED
    BY <2>1 DEF Stable, Ascending, Chained, DefOf
<1> QED
  BY GatheredInit, GatheredNext, StableInit, StableNext, <1>1, PTL DEF PlanSpec
-----------------------------------------------------------------------------
(* Nothing is overlooked.                                                    *)

\* The UE had the session when the program asked, it can be told apart from others, and the group selects it.
Tells(ct, l, g) ==
  /\ Image[ct] = "ueransim" => l \in Range(psList[l.sub])
  /\ Image[ct] = "other" => Len(Subs[ct]) = 1
  /\ \A dn \in Range(SubscribedDN[l.sub]) : dn[2] = l.addr.dn[2] => dn = l.addr.dn
  /\ l.addr.dn \in FlowDefs[g].dns /\ l.sub \in FlowDefs[g].ues

IsFor(r, l, g) == r.group = g /\ r.sub = l.sub /\ r.dn = l.addr.dn /\ r.addr = l.addr

\* The program finds the address of such a session, and no other.
LEMMA AddressFacts ==
  ASSUME Gathered, NEW ct \in UEs, NEW l \in Range(ueIPs[ct]), NEW g, Tells(ct, l, g)
  PROVE  /\ l.sub \in Range(Subs[ct]) /\ l.addr.dn \in Range(SubscribedDN[l.sub])
         /\ FindPduIP(ct, l.sub, l.addr.dn) # <<>>
         /\ FindPduIP(ct, l.sub, l.addr.dn)[1].addr = l.addr
<1> DEFINE q == ueIPs[ct]
           sub == l.sub
           dn == l.addr.dn
           ps == Kept(psList[sub], {x \in Links : x.addr.dn[2] = dn[2]})
           S == {x \in Links : /\ IF ps # <<>> THEN x.addr = Last(ps).addr ELSE x.addr.dn = dn
                               /\ Image[ct] = "packetrusher" => x.sub = sub}
           pdu == FindPduIP(ct, sub, dn)
<1>1. Sessions(ct, q)
  BY DEF Gathered, Answers
<1>2. PICK k \in DOMAIN q : l = q[k]
  BY DEF Range
<1>3. l \in Links /\ sub \in Range(Subs[ct]) /\ dn \in Range(SubscribedDN[sub])
  BY <1>1, <1>2 DEF Sessions
<1>4. /\ Sessions(ct, psList[sub]) /\ \A x \in Range(psList[sub]) : x.sub = sub
      /\ Image[ct] # "ueransim" => psList[sub] = <<>>
  BY <1>3 DEF Gathered, Answers
<1>5. pdu = Kept(q, S)
  BY DEF FindPduIP
<1>6. /\ Sessions(ct, ps)
      /\ \A i \in DOMAIN ps : ps[i] \in {x \in Links : x.addr.dn[2] = dn[2]} /\ ps[i] \in Range(psList[sub])
      /\ \A x \in Range(psList[sub]) : x \in {y \in Links : y.addr.dn[2] = dn[2]} => \E j \in DOMAIN ps : ps[j] = x
  <2> DEFINE T == {x \in Links : x.addr.dn[2] = dn[2]}
  <2>1. /\ Sessions(ct, Kept(psList[sub], T))
        /\ \A i \in DOMAIN Kept(psList[sub], T) :
             Kept(psList[sub], T)[i] \in T /\ Kept(psList[sub], T)[i] \in Range(psList[sub])
        /\ \A x \in Range(psList[sub]) : x \in T => \E j \in DOMAIN Kept(psList[sub], T) : Kept(psList[sub], T)[j] = x
    <3> HIDE DEF T
    <3> QED
      BY <1>4, KeptSessions
  <2> QED
    BY <2>1
<1>7. /\ Sessions(ct, pdu)
      /\ \A i \in DOMAIN pdu : pdu[i] \in S /\ pdu[i] \in Range(q)
      /\ l \in S => \E j \in DOMAIN pdu : pdu[j] = l
  <2> HIDE DEF S, pdu, q
  <2> QED
    BY <1>1, <1>5, KeptSessions DEF q
<1>8. l \in S /\ \A x \in S : x \in Range(q) => x.addr = l.addr
  <2>1. CASE Image[ct] = "ueransim"
    <3>1. \E j \in DOMAIN ps : ps[j] = l
      BY <1>3, <1>6, <2>1 DEF Tells
    <3>2. \A i \in DOMAIN ps : ps[i].addr = l.addr
      <4> SUFFICES ASSUME NEW i \in DOMAIN ps PROVE ps[i].addr = l.addr
        OBVIOUS
      <4>1. PICK a \in DOMAIN psList[sub] : ps[i] = psList[sub][a]
        BY <1>6 DEF Range
      <4>2. PICK b \in DOMAIN psList[sub] : l = psList[sub][b]
        BY <2>1 DEF Tells, Range
      <4>3. ps[i].sub = sub /\ ps[i].addr.dn \in Range(SubscribedDN[sub]) /\ ps[i].addr.dn[2] = dn[2]
        BY <1>4, <1>6, <4>1 DEF Sessions
      <4>4. ps[i].addr.dn = dn
        BY <4>3 DEF Tells
      <4>5. a = b
        BY <1>4, <4>1, <4>2, <4>3, <4>4 DEF Sessions
      <4> QED
        BY <4>1, <4>2, <4>5
    <3>3. ps # <<>> /\ Last(ps).addr = l.addr
      <4>1. ps \in Seq(Links)
        BY <1>6 DEF Sessions
      <4> HIDE DEF ps
      <4>2. ps # <<>>
        BY <3>1, <4>1
      <4>3. Len(ps) \in DOMAIN ps /\ Last(ps) = ps[Len(ps)]
        BY <4>1, <4>2 DEF Last
      <4> QED
        BY <3>2, <4>2, <4>3
    <3> HIDE DEF ps
    <3> QED
      BY <1>3, <2>1, <3>3
  <2>2. CASE Image[ct] # "ueransim"
    <3>1. ps = <<>>
      <4>1. DOMAIN ps = {} /\ ps \in Seq(Links)
        <5>1. Range(psList[sub]) = {}
          BY <1>4, <2>2 DEF Range
        <5> HIDE DEF ps
        <5> QED
          BY <1>6, <5>1 DEF Sessions
      <4> HIDE DEF ps
      <4> QED
        BY <4>1
    <3> HIDE DEF ps
    <3>2. l \in S
      BY <1>3, <3>1
    <3>3. \A x \in Range(q) : x.addr.dn = dn /\ (Image[ct] = "packetrusher" => x.sub = sub) => x = l
      <4> SUFFICES ASSUME NEW j \in DOMAIN q, q[j].addr.dn = dn, Image[ct] = "packetrusher" => q[j].sub = sub
                   PROVE  q[j] = l
        BY DEF Range
      <4>1. q[j].sub = sub
        <5>1. CASE Image[ct] = "other"
          <6>1. Len(Subs[ct]) = 1 /\ Subs[ct] \in Seq(Supis)
            BY <5>1, NetFacts DEF Tells
          <6>2. \A s, t \in Range(Subs[ct]) : s = t
            BY <6>1 DEF Range
          <6>3. q[j].sub \in Range(Subs[ct])
            BY <1>1 DEF Sessions
          <6> QED
            BY <1>3, <6>2, <6>3
        <5>2. Image[ct] \in {"ueransim", "packetrusher", "other"}
          BY NetworkAssumption
        <5> QED
          BY <2>2, <5>1, <5>2
      <4>2. j = k
        BY <1>1, <1>2, <4>1 DEF Sessions
      <4> QED
        BY <1>2, <4>2
    <3> QED
      BY <3>1, <3>2, <3>3
  <2> QED
    BY <2>1, <2>2
<1> HIDE DEF S, pdu, q, ps
<1>9. pdu \in Seq(Links)
  BY <1>7 DEF Sessions
<1>10. pdu # <<>> /\ 1 \in DOMAIN pdu
  BY <1>7, <1>8, <1>9
<1>11. pdu[1].addr = l.addr
  BY <1>7, <1>8, <1>10
<1> QED
  BY <1>3, <1>10, <1>11 DEF pdu

\* What UEs have told is among the flows, and no flow is lost on its way to the table.
Told ==
  \A ct \in UEs : stage[ct] \in {"match", "end"} =>
    \A l \in Range(ueIPs[ct]) : \A g \in DOMAIN FlowDefs :
      l.sub \notin pending[ct] /\ Tells(ct, l, g) => \E f \in Range(found) : IsFor(f, l, g)

SameFlow(f, r) == r.group = f.group /\ r.sub = f.sub /\ r.dn = f.dn /\ r.addr = f.addr

Carried ==
  /\ phase \in {"define", "done"} =>
       /\ \A ct \in UEs : stage[ct] = "end"
       /\ \A f \in Range(found) : f \in Range(flows) \/ \E r \in Range(table) : SameFlow(f, r)
  /\ phase = "done" => flows = <<>>

LEMMA ToldInit == PlanInit => Told /\ Carried
<1> SUFFICES ASSUME PlanInit PROVE Told /\ Carried
  OBVIOUS
<1>1. stage = [ct \in UEs |-> "addr"] /\ phase = "gather"
  BY DEF PlanInit
<1> QED
  BY <1>1 DEF Told, Carried

LEMMA ToldShowAddr ==
  ASSUME Gathered, Told, NEW ct \in UEs, ShowAddr(ct) \/ ShowAddrFails(ct)
  PROVE  Told'
<1>1. /\ stage[ct] = "addr" /\ psList' = psList /\ found' = found
      /\ \A c \in UEs : c # ct => stage'[c] = stage[c] /\ ueIPs'[c] = ueIPs[c] /\ pending'[c] = pending[c]
      /\ stage'[ct] = "sessions" \/ ueIPs'[ct] = ueIPs[ct]
  BY DEF ShowAddr, ShowAddrFails, Gathered, PlanTypeOK
<1>2. ueIPs[ct] = <<>> /\ Range(<<>>) = {}
  BY <1>1 DEF Gathered, Stages, Range
<1> SUFFICES ASSUME NEW c \in UEs, stage'[c] \in {"match", "end"},
                    NEW l \in Range(ueIPs'[c]), NEW g \in DOMAIN FlowDefs, l.sub \notin pending'[c], Tells(c, l, g)'
             PROVE  \E f \in Range(found') : IsFor(f, l, g)
  BY DEF Told, IsFor
<1>3. c # ct
  BY <1>1, <1>2
<1>4. Tells(c, l, g)
  BY <1>1 DEF Tells
<1> QED
  BY <1>1, <1>3, <1>4 DEF Told

LEMMA ToldListSessions ==
  ASSUME Gathered, Told, NEW ct \in UEs, NEW sub \in Range(Subs[ct]), ListSessions(ct, sub)
  PROVE  Told'
<1>1. /\ stage[ct] = "sessions" /\ ueIPs' = ueIPs /\ found' = found
      /\ \A s \in Supis : s # sub => psList'[s] = psList[s]
      /\ \A c \in UEs : c # ct => stage'[c] = stage[c] /\ pending'[c] = pending[c]
      /\ stage'[ct] = "sessions" \/ pending'[ct] = Range(Subs[ct])
  BY DEF ListSessions, Gathered, PlanTypeOK
<1> SUFFICES ASSUME NEW c \in UEs, stage'[c] \in {"match", "end"},
                    NEW l \in Range(ueIPs[c]), NEW g \in DOMAIN FlowDefs, l.sub \notin pending'[c], Tells(c, l, g)'
             PROVE  \E f \in Range(found) : IsFor(f, l, g)
  BY <1>1 DEF Told, IsFor
<1>2. l.sub \in Range(Subs[c]) /\ l.sub \in Supis
  <2>1. PICK i \in DOMAIN ueIPs[c] : l = ueIPs[c][i]
    BY DEF Range
  <2>2. l.sub \in Range(Subs[c])
    BY <2>1 DEF Gathered, Answers, Sessions
  <2> QED
    BY <2>2, NetFacts
<1>3. c # ct
  BY <1>1, <1>2
<1>4. l.sub # sub
  BY <1>2, <1>3, OwnerFacts
<1>5. Tells(c, l, g)
  BY <1>1, <1>2, <1>4 DEF Tells
<1> QED
  BY <1>1, <1>3, <1>5 DEF Told

LEMMA ToldMatchSessions ==
  ASSUME Gathered, Told, NEW ct \in UEs, NEW sub \in Range(Subs[ct]), MatchSessions(ct, sub)
  PROVE  Told'
<1> DEFINE q == UeFlows(ct, sub)
<1>1. /\ stage[ct] = "match" /\ ueIPs' = ueIPs /\ psList' = psList /\ found' = found \o q
      /\ \A c \in UEs : c # ct => stage'[c] = stage[c] /\ pending'[c] = pending[c]
      /\ pending'[ct] = pending[ct] \ {sub}
  BY DEF MatchSessions, UeFlows, Gathered, PlanTypeOK
<1>2. Sessions(ct, ueIPs[ct]) /\ found \in Seq(Flows)
  BY DEF Gathered, Answers, PlanTypeOK
<1>3. /\ q \in Seq(Flows)
      /\ \A dn \in Range(SubscribedDN[sub]) : \A x \in DOMAIN Matching(ct, sub, dn) :
           Matching(ct, sub, dn)[x] \in Range(q)
  BY <1>2, UeFlowsFacts
<1> HIDE DEF q
<1>4. \A e \in Range(found) \cup Range(q) : e \in Range(found')
  BY <1>1, <1>2, <1>3, JoinedRange
<1> SUFFICES ASSUME NEW c \in UEs, stage'[c] \in {"match", "end"},
                    NEW l \in Range(ueIPs[c]), NEW g \in DOMAIN FlowDefs, l.sub \notin pending'[c], Tells(c, l, g)'
             PROVE  \E f \in Range(found') : IsFor(f, l, g)
  BY <1>1 DEF Told, IsFor
<1>5. Tells(c, l, g)
  BY <1>1 DEF Tells
<1>6. CASE l.sub \notin pending[c]
  <2>1. stage[c] \in {"match", "end"}
    BY <1>1
  <2>2. PICK f \in Range(found) : IsFor(f, l, g)
    BY <1>5, <1>6, <2>1 DEF Told
  <2> QED
    BY <1>4, <2>2
<1>7. CASE l.sub \in pending[c]
  <2>1. c = ct /\ l.sub = sub
    BY <1>1, <1>7
  <2> DEFINE dn == l.addr.dn
             m == Matching(ct, sub, dn)
  <2>2. /\ dn \in Range(SubscribedDN[sub])
        /\ FindPduIP(ct, sub, dn) # <<>> /\ FindPduIP(ct, sub, dn)[1].addr = l.addr
    BY <1>5, <2>1, AddressFacts
  <2>3. dn \in FlowDefs[g].dns /\ sub \in FlowDefs[g].ues
    BY <1>5, <2>1 DEF Tells
  <2>4. PICK x \in DOMAIN m : m[x].group = g /\ m[x].addr = FindPduIP(ct, sub, dn)[1].addr
    BY <1>2, <2>2, <2>3, MatchingFacts
  <2>5. m[x].sub = sub /\ m[x].dn = dn
    BY <1>2, <2>2, MatchingFacts
  <2>6. m[x] \in Range(found')
    BY <1>3, <1>4, <2>2
  <2>7. IsFor(m[x], l, g)
    BY <2>1, <2>2, <2>4, <2>5 DEF IsFor
  <2> QED
    BY <2>6, <2>7
<1> QED
  BY <1>6, <1>7

LEMMA CarriedDefine ==
  ASSUME Gathered, Carried, Define
  PROVE  Carried'
<1> DEFINE f == Head(flows)
           row == [group |-> f.group, sub |-> f.sub, dn |-> f.dn, ct |-> f.ct, addr |-> f.addr, port |-> nextPort]
<1>1. flows # <<>> /\ phase = "define" /\ UNCHANGED <<net, gather>>
  BY DEF Define
<1>2. CASE phase' = "failed"
  BY <1>2 DEF Carried
<1>3. CASE phase' = "define" /\ table' = Append(table, row) /\ flows' = Tail(flows)
  <2>1. flows \in Seq(Flows) /\ table \in Seq(Rows) /\ f \in Flows /\ nextPort \in Nat
    BY <1>1 DEF Gathered, PlanTypeOK
  <2>2. row \in Rows
    BY <2>1, FlowShape DEF Rows
  <2>3. SameFlow(f, row)
    BY DEF SameFlow
  <2>4. f = flows[1]
    BY <1>1, <2>1
  <2> HIDE DEF f, row
  <2>5. row \in Range(table') /\ \A r \in Range(table) : r \in Range(table')
    <3>1. /\ Len(table) \in Nat /\ DOMAIN table = 1 .. Len(table) /\ DOMAIN table' = 1 .. Len(table) + 1
          /\ table'[Len(table) + 1] = row /\ \A i \in 1 .. Len(table) : table'[i] = table[i]
      BY <1>3, <2>1, <2>2
    <3>2. Len(table) + 1 \in DOMAIN table' /\ \A i \in DOMAIN table : i \in DOMAIN table' /\ table'[i] = table[i]
      BY <3>1
    <3> QED
      BY <3>1, <3>2 DEF Range
  <2>6. \A e \in Range(flows) : e = f \/ e \in Range(flows')
    <3> SUFFICES ASSUME NEW i \in DOMAIN flows PROVE flows[i] = f \/ flows[i] \in Range(flows')
      BY DEF Range
    <3>1. CASE i = 1
      BY <2>4, <3>1
    <3>2. CASE i # 1
      <4>1. i - 1 \in DOMAIN flows' /\ flows'[i - 1] = flows[i]
        BY <1>1, <1>3, <2>1, <3>2
      <4> QED
        BY <4>1 DEF Range
    <3> QED
      BY <3>1, <3>2
  <2>7. \A e \in Range(found) : e \in Range(flows') \/ \E r \in Range(table') : SameFlow(e, r)
    <3> SUFFICES ASSUME NEW e \in Range(found)
                 PROVE  e \in Range(flows') \/ \E r \in Range(table') : SameFlow(e, r)
      OBVIOUS
    <3>1. e \in Range(flows) \/ \E r \in Range(table) : SameFlow(e, r)
      BY <1>1 DEF Carried
    <3> QED
      BY <2>3, <2>5, <2>6, <3>1
  <2>8. found' = found /\ stage' = stage
    BY <1>1 DEF gather
  <2> QED
    BY <1>1, <1>3, <2>7, <2>8 DEF Carried, SameFlow
<1> QED
  BY <1>1, <1>2, <1>3 DEF Define

LEMMA ToldNext == Gathered /\ Told /\ Carried /\ [PlanNext]_planVars => Told' /\ Carried'
<1> SUFFICES ASSUME Gathered, Told, Carried, [PlanNext]_planVars
             PROVE  Told' /\ Carried'
  OBVIOUS
<1>1. CASE \E ct \in UEs : Gather(ct)
  <2>1. PICK ct \in UEs : Gather(ct)
    BY <1>1
  <2>2. Carried'
    <3>1. phase' \notin {"define", "done"}
      BY <2>1 DEF Gather, ShowAddr, ShowAddrFails, ListSessions, ListSessionsFails, MatchSessions
    <3> QED
      BY <3>1 DEF Carried
  <2>3. CASE ShowAddr(ct) \/ ShowAddrFails(ct)
    BY <2>2, <2>3, ToldShowAddr
  <2>4. CASE \E sub \in Range(Subs[ct]) : ListSessions(ct, sub)
    BY <2>2, <2>4, ToldListSessions
  <2>5. CASE \E sub \in Range(Subs[ct]) : MatchSessions(ct, sub)
    BY <2>2, <2>5, ToldMatchSessions
  <2>6. CASE ListSessionsFails(ct)
    <3>1. UNCHANGED gather
      BY <2>6 DEF ListSessionsFails
    <3> QED
      BY <2>2, <3>1 DEF Told, Tells, IsFor, gather
  <2> QED
    BY <2>1, <2>3, <2>4, <2>5, <2>6 DEF Gather
<1>2. CASE UNCHANGED gather /\ (UNCHANGED <<phase, flows, table>> \/ Sort \/ Define \/ Write)
  <2>1. Told'
    BY <1>2 DEF Told, Tells, IsFor, gather
  <2>2. CASE UNCHANGED <<phase, flows, table>>
    <3>1. phase' = phase /\ flows' = flows /\ table' = table /\ stage' = stage /\ found' = found
      BY <1>2, <2>2 DEF gather
    <3>2. Carried'
      BY <3>1 DEF Carried, SameFlow
    <3> QED
      BY <2>1, <3>2
  <2>3. CASE Sort
    <3>1. /\ \A ct \in UEs : stage[ct] = "end"
          /\ phase' # "done" /\ flows' = Sorted(found) /\ found' = found /\ stage' = stage
      BY <1>2, <2>3 DEF Sort, gather
    <3>2. Resorted(Sorted(found), found)
      BY SortedFacts DEF Gathered, PlanTypeOK
    <3>3. \A f \in Range(found) : f \in Range(flows')
      <4> SUFFICES ASSUME NEW i \in DOMAIN found PROVE found[i] \in Range(flows')
        BY DEF Range
      <4>1. PICK p \in DOMAIN Sorted(found) : Sorted(found)[p] = found[i]
        BY <3>2 DEF Resorted
      <4> QED
        BY <3>1, <4>1 DEF Range
    <3> QED
      BY <2>1, <3>1, <3>3 DEF Carried, SameFlow
  <2>4. CASE Define
    BY <2>1, <2>4, CarriedDefine
  <2>5. CASE Write
    <3>1. phase = "define" /\ flows = <<>> /\ UNCHANGED <<gather, flows, table>>
      BY <2>5 DEF Write, plan
    <3> QED
      BY <2>1, <3>1 DEF Carried, SameFlow, gather
  <2> QED
    BY <1>2, <2>2, <2>3, <2>4, <2>5
<1>3. \/ \E ct \in UEs : Gather(ct)
      \/ UNCHANGED gather /\ (UNCHANGED <<phase, flows, table>> \/ Sort \/ Define \/ Write)
  BY DEF PlanNext, Change, Sort, Define, Write, planVars, plan
<1> QED
  BY <1>1, <1>2, <1>3

\* A session that its UE had when the program asked, and that can be told apart from others, is in the table
\* with its own address, once for every group that selects it.
THEOREM AllListed == PlanSpec => []Listed
<1>1. Gathered /\ Told /\ Carried => Listed
  <2> SUFFICES ASSUME Gathered, Told, Carried, Written,
                      NEW ct \in UEs, NEW l \in Range(ueIPs[ct]), NEW g \in DOMAIN FlowDefs, Tells(ct, l, g)
               PROVE  \E r \in Range(table) : r.group = g /\ r.sub = l.sub /\ r.dn = l.addr.dn /\ r.addr = l.addr
    BY DEF Listed, Tells
  <2>1. phase = "done" /\ stage[ct] = "end" /\ flows = <<>>
    BY DEF Written, Carried
  <2>2. pending[ct] = {}
    BY <2>1 DEF Gathered, Stages
  <2>3. PICK f \in Range(found) : IsFor(f, l, g)
    BY <2>1, <2>2 DEF Told
  <2>4. f \notin Range(flows)
    BY <2>1 DEF Range
  <2>5. PICK r \in Range(table) : SameFlow(f, r)
    BY <2>1, <2>4 DEF Carried
  <2> QED
    BY <2>3, <2>5 DEF IsFor, SameFlow
<1> QED
  BY GatheredInit, GatheredNext, ToldInit, ToldNext, <1>1, PTL DEF PlanSpec
-----------------------------------------------------------------------------
(* The test script: TgRun.                                                   *)

Ops == {"delete", "clear", "servers", "clients", "wait", "logs", "stop", "stats"}
Places == Hosts \cup Cts \cup {"stats"}
AllSteps == [op : Ops, at : Places]

\* The phases of a full run.
Rank(op) ==
  CASE op = "delete"  -> 1
    [] op = "clear"   -> 2
    [] op = "servers" -> 3
    [] op = "clients" -> 4
    [] op = "wait"    -> 5
    [] op = "logs"    -> 6
    [] op = "stop"    -> 7
    [] op = "stats"   -> 8

\* A command for a container names one.
Placed(x) ==
  /\ x.op \in {"delete", "servers", "clients", "stop"} => x.at \in Hosts
  /\ x.op = "wait" => x.at \in Clients
  /\ x.op = "logs" => x.at \in Cts

Good(q) ==
  /\ q \in Seq(AllSteps)
  /\ \A x \in Range(q) : Placed(x)
  /\ \A i, j \in DOMAIN q : i < j => Rank(q[i].op) <= Rank(q[j].op)

\* What a full run has to do.
Needed(op, at) ==
  \/ op \in {"delete", "stop"} /\ \E c \in Cts : at = HostOf[c]
  \/ op = "servers" /\ \E c \in Servers : at = HostOf[c]
  \/ op = "wait" /\ at \in Clients
  \/ op = "logs" /\ at \in Cts

Done(op, at) == Step(op, at) \notin Range(todo)

\* What has been done is of no later phase than what is to be done.
Passed ==
  \A op \in Ops, at \in Places :
    Needed(op, at) /\ Done(op, at) => \A x \in Range(todo) : Rank(op) <= Rank(x.op)

\* A container that has been deleted by this run has been created by it, if it is there again.
Fresh ==
  \A c \in Cts : Done("delete", HostOf[c]) => ctr[c] = "absent" \/ born[c] = run

ServersBorn ==
  \A s \in Servers : Done("servers", HostOf[s]) => born[s] = run

ClientsEnded ==
  ~told /\ ~unheard => \A c \in Clients : Done("wait", c) => ctr[c] # "running"

Saved ==
  \A c \in Cts : Done("logs", c) => file[c].of = run

SavedWhole ==
  ~told /\ ~unheard => \A c \in Clients : Done("logs", c) => file[c].complete

Gone ==
  \A c \in Cts : Done("stop", HostOf[c]) => ctr[c] = "absent"

FullRun == act = "all" /\ result # "none"

Achieved == Passed /\ Fresh /\ ServersBorn /\ ClientsEnded /\ Saved /\ SavedWhole /\ Gone

IInv ==
  /\ TypeOK
  /\ Good(todo)
  /\ result = "ok" => todo = <<>>
  /\ FullRun => Achieved
-----------------------------------------------------------------------------
(* The script.                                                               *)

LEMMA TestFacts ==
  /\ HostOrder \in Seq(Hosts) /\ CtOrder \in Seq(Cts)
  /\ Servers \subseteq Cts /\ Clients \subseteq Cts
  /\ HostOf \in [Cts -> Hosts]
  /\ \A h \in Hosts : \E i \in DOMAIN HostOrder : HostOrder[i] = h
  /\ \A c \in Cts : \E i \in DOMAIN CtOrder : CtOrder[i] = c
BY TestAssumption DEF Hosts, Cts, Clients, Range

LEMMA PerHostFacts ==
  ASSUME NEW op \in {"delete", "servers", "clients", "stop"}, NEW cts \in SUBSET Cts
  PROVE  /\ Good(PerHost(op, cts))
         /\ \A x \in Range(PerHost(op, cts)) : x.op = op
         /\ \A c \in cts : Step(op, HostOf[c]) \in Range(PerHost(op, cts))
<1> DEFINE S == {HostOf[c] : c \in cts}
           hosts == Kept(HostOrder, S)
           q == PerHost(op, cts)
<1>1. /\ hosts \in Seq(Hosts \cap S)
      /\ \A i \in DOMAIN HostOrder : HostOrder[i] \in S =>
           \E j \in DOMAIN hosts : hosts[j] = HostOrder[i]
  <2>1. HostOrder \in Seq(Hosts)
    BY TestFacts
  <2> HIDE DEF S
  <2>2. IsKept(Kept(HostOrder, S), HostOrder, Hosts, S)
    BY <2>1, KeptFacts
  <2> QED
    BY <2>2 DEF IsKept
<1>2. q = [i \in DOMAIN hosts |-> Step(op, hosts[i])]
  BY DEF PerHost
<1> HIDE DEF hosts, q
<1>3. /\ Len(hosts) \in Nat /\ DOMAIN hosts = 1 .. Len(hosts)
      /\ \A i \in DOMAIN hosts : hosts[i] \in Hosts
  BY <1>1
<1>4. \A i \in DOMAIN hosts : Step(op, hosts[i]) \in AllSteps
  BY <1>3 DEF Step, AllSteps, Ops, Places
<1>5. /\ q \in Seq(AllSteps) /\ DOMAIN q = DOMAIN hosts
      /\ \A i \in DOMAIN q : q[i] = Step(op, hosts[i]) /\ q[i].op = op /\ q[i].at = hosts[i]
  BY <1>2, <1>3, <1>4 DEF Step
<1>6. \A x \in Range(q) : x.op = op /\ Placed(x)
  BY <1>3, <1>5 DEF Range, Placed
<1>7. Good(q)
  BY <1>3, <1>5, <1>6 DEF Good, Rank
<1>8. ASSUME NEW c \in cts
      PROVE  Step(op, HostOf[c]) \in Range(q)
  <2>1. HostOf[c] \in Hosts /\ HostOf[c] \in S
    BY TestFacts
  <2>2. PICK i \in DOMAIN HostOrder : HostOrder[i] = HostOf[c]
    BY <2>1, TestFacts
  <2>3. PICK j \in DOMAIN hosts : hosts[j] = HostOrder[i]
    BY <1>1, <2>1, <2>2
  <2>4. j \in DOMAIN q /\ q[j] = Step(op, HostOf[c])
    BY <1>5, <2>2, <2>3
  <2> QED
    BY <2>4 DEF Range
<1> QED
  BY <1>6, <1>7, <1>8 DEF q

LEMMA PerCtFacts ==
  ASSUME NEW op \in {"wait", "logs"}, NEW cts \in SUBSET Cts, op = "wait" => cts \subseteq Clients
  PROVE  /\ Good(PerCt(op, cts))
         /\ \A x \in Range(PerCt(op, cts)) : x.op = op
         /\ \A c \in cts : Step(op, c) \in Range(PerCt(op, cts))
<1> DEFINE chosen == Kept(CtOrder, cts)
           q == PerCt(op, cts)
<1>1. /\ chosen \in Seq(Cts \cap cts)
      /\ \A i \in DOMAIN CtOrder : CtOrder[i] \in cts =>
           \E j \in DOMAIN chosen : chosen[j] = CtOrder[i]
  <2>1. CtOrder \in Seq(Cts)
    BY TestFacts
  <2>2. IsKept(Kept(CtOrder, cts), CtOrder, Cts, cts)
    BY <2>1, KeptFacts
  <2> QED
    BY <2>2 DEF IsKept
<1>2. q = [i \in DOMAIN chosen |-> Step(op, chosen[i])]
  BY DEF PerCt
<1> HIDE DEF chosen, q
<1>3. /\ Len(chosen) \in Nat /\ DOMAIN chosen = 1 .. Len(chosen)
      /\ \A i \in DOMAIN chosen : chosen[i] \in Cts /\ chosen[i] \in cts
  BY <1>1
<1>4. \A i \in DOMAIN chosen : Step(op, chosen[i]) \in AllSteps
  BY <1>3 DEF Step, AllSteps, Ops, Places
<1>5. /\ q \in Seq(AllSteps) /\ DOMAIN q = DOMAIN chosen
      /\ \A i \in DOMAIN q : q[i] = Step(op, chosen[i]) /\ q[i].op = op /\ q[i].at = chosen[i]
  BY <1>2, <1>3, <1>4 DEF Step
<1>6. \A x \in Range(q) : x.op = op /\ Placed(x)
  BY <1>3, <1>5 DEF Range, Placed
<1>7. Good(q)
  BY <1>3, <1>5, <1>6 DEF Good, Rank
<1>8. ASSUME NEW c \in cts
      PROVE  Step(op, c) \in Range(q)
  <2>1. PICK j \in DOMAIN chosen : chosen[j] = c
    BY <1>1, TestFacts
  <2> QED
    BY <1>5, <2>1 DEF Range
<1> QED
  BY <1>6, <1>7, <1>8 DEF q

\* Phases one after another.
LEMMA ConcatFacts ==
  ASSUME NEW p, NEW q, Good(p), Good(q),
         \A x \in Range(p), y \in Range(q) : Rank(x.op) <= Rank(y.op)
  PROVE  Good(p \o q) /\ Range(p \o q) = Range(p) \cup Range(q)
<1> DEFINE r == p \o q
<1>1. p \in Seq(AllSteps) /\ q \in Seq(AllSteps)
  BY DEF Good
<1>2. /\ Len(p) \in Nat /\ Len(q) \in Nat
      /\ DOMAIN p = 1 .. Len(p) /\ DOMAIN q = 1 .. Len(q)
      /\ r \in Seq(AllSteps) /\ DOMAIN r = 1 .. Len(p) + Len(q)
      /\ \A i \in 1 .. Len(p) + Len(q) : r[i] = IF i <= Len(p) THEN p[i] ELSE q[i - Len(p)]
  BY <1>1
<1> HIDE DEF r
<1>3. \A i \in DOMAIN r :
        \/ i \in DOMAIN p /\ r[i] = p[i]
        \/ i > Len(p) /\ i - Len(p) \in DOMAIN q /\ r[i] = q[i - Len(p)]
  BY <1>2
<1>4. Range(r) = Range(p) \cup Range(q)
  <2>1. Range(r) \subseteq Range(p) \cup Range(q)
    BY <1>3 DEF Range
  <2>2. Range(p) \subseteq Range(r)
    BY <1>2 DEF Range
  <2>3. ASSUME NEW i \in DOMAIN q
        PROVE  q[i] \in Range(r)
    <3>1. Len(p) + i \in DOMAIN r /\ r[Len(p) + i] = q[i]
      BY <1>2
    <3> QED
      BY <3>1 DEF Range
  <2> QED
    BY <2>1, <2>2, <2>3 DEF Range
<1>5. ASSUME NEW i \in DOMAIN r, NEW j \in DOMAIN r, i < j
      PROVE  Rank(r[i].op) <= Rank(r[j].op)
  <2>0. /\ \A a, b \in DOMAIN p : a < b => Rank(p[a].op) <= Rank(p[b].op)
        /\ \A a, b \in DOMAIN q : a < b => Rank(q[a].op) <= Rank(q[b].op)
        /\ \A a \in DOMAIN p, b \in DOMAIN q : Rank(p[a].op) <= Rank(q[b].op)
    BY DEF Good, Range
  <2>1. CASE j \in DOMAIN p
    <3>1. i \in DOMAIN p /\ r[i] = p[i] /\ r[j] = p[j]
      BY <1>2, <1>5, <2>1
    <3> QED
      BY <1>5, <2>0, <2>1, <3>1
  <2>2. CASE i \notin DOMAIN p
    <3>1. /\ i - Len(p) \in DOMAIN q /\ r[i] = q[i - Len(p)]
          /\ j - Len(p) \in DOMAIN q /\ r[j] = q[j - Len(p)]
          /\ i - Len(p) < j - Len(p)
      BY <1>2, <1>5, <2>2
    <3> QED
      BY <2>0, <3>1
  <2>3. CASE i \in DOMAIN p /\ j \notin DOMAIN p
    <3>1. r[i] = p[i] /\ j - Len(p) \in DOMAIN q /\ r[j] = q[j - Len(p)]
      BY <1>2, <1>3, <2>3
    <3> QED
      BY <2>0, <2>3, <3>1
  <2> QED
    BY <2>1, <2>2, <2>3
<1>6. \A x \in Range(r) : Placed(x)
  BY <1>4 DEF Good
<1> QED
  BY <1>2, <1>4, <1>5, <1>6 DEF Good, r

LEMMA OneStep ==
  ASSUME NEW op \in {"clear", "stats"}
  PROVE  Good(<<Step(op, "stats")>>) /\ Range(<<Step(op, "stats")>>) = {Step(op, "stats")}
BY DEF Good, Step, AllSteps, Ops, Places, Range, Placed

LEMMA GoodSteps ==
  ASSUME NEW q, Good(q)
  PROVE  \A x \in Range(q) :
           x \in AllSteps /\ x.op \in Ops /\ x.at \in Places /\ Placed(x) /\ Rank(x.op) \in Int
<1>1. \A op \in Ops : Rank(op) \in Int
  BY DEF Ops, Rank
<1>2. \A i \in DOMAIN q : q[i] \in AllSteps
  BY DEF Good
<1>3. \A x \in Range(q) : x \in AllSteps /\ x.op \in Ops /\ x.at \in Places /\ Placed(x)
  BY <1>2 DEF Good, Range, AllSteps
<1> QED
  BY <1>1, <1>3

UpTo(q, k) == Good(q) /\ \A x \in Range(q) : Rank(x.op) <= k

LEMMA NextPhase ==
  ASSUME NEW k \in Nat, NEW p, NEW q, UpTo(p, k), Good(q),
         \A x \in Range(q) : Rank(x.op) = k + 1
  PROVE  UpTo(p \o q, k + 1) /\ Range(p \o q) = Range(p) \cup Range(q)
<1>1. \A x \in Range(p) : Rank(x.op) \in Int
  BY GoodSteps DEF UpTo
<1>2. \A x \in Range(p), y \in Range(q) : Rank(x.op) <= Rank(y.op)
  BY <1>1 DEF UpTo
<1>3. Good(p \o q) /\ Range(p \o q) = Range(p) \cup Range(q)
  BY <1>2, ConcatFacts DEF UpTo
<1> QED
  BY <1>1, <1>3 DEF UpTo

\* Every script is in the order of the phases, and a full one leaves out nothing.
LEMMA ScriptFacts ==
  /\ \A a \in Acts : Good(Script(a))
  /\ \A op \in Ops, at \in Places : Needed(op, at) => Step(op, at) \in Range(Script("all"))
<1> DEFINE del == PerHost("delete", Cts)
           a2 == del \o <<Step("clear", "stats")>>
           a3 == a2 \o StartServers
           a4 == a3 \o StartClients
           a5 == a4 \o WaitClients
           a6 == a5 \o Collect
           a7 == a6 \o Stop
           a8 == a7 \o Stats
<1>0. Servers \in SUBSET Cts /\ Clients \in SUBSET Cts /\ Cts \in SUBSET Cts
  BY TestFacts
<1>1. /\ Good(del) /\ \A x \in Range(del) : x.op = "delete"
      /\ \A c \in Cts : Step("delete", HostOf[c]) \in Range(del)
  BY <1>0, PerHostFacts
<1>2. Good(<<Step("clear", "stats")>>) /\ \A x \in Range(<<Step("clear", "stats")>>) : x.op = "clear"
  BY OneStep DEF Step
<1>3. /\ Good(StartServers) /\ \A x \in Range(StartServers) : x.op = "servers"
      /\ \A c \in Servers : Step("servers", HostOf[c]) \in Range(StartServers)
  BY <1>0, PerHostFacts DEF StartServers
<1>4. Good(StartClients) /\ \A x \in Range(StartClients) : x.op = "clients"
  BY <1>0, PerHostFacts DEF StartClients
<1>5. /\ Good(WaitClients) /\ \A x \in Range(WaitClients) : x.op = "wait"
      /\ \A c \in Clients : Step("wait", c) \in Range(WaitClients)
  BY <1>0, PerCtFacts DEF WaitClients
<1>6. /\ Good(Collect) /\ \A x \in Range(Collect) : x.op = "logs"
      /\ \A c \in Cts : Step("logs", c) \in Range(Collect)
  BY <1>0, PerCtFacts DEF Collect
<1>7. /\ Good(Stop) /\ \A x \in Range(Stop) : x.op = "stop"
      /\ \A c \in Cts : Step("stop", HostOf[c]) \in Range(Stop)
  BY <1>0, PerHostFacts DEF Stop
<1>8. Good(Stats) /\ \A x \in Range(Stats) : x.op = "stats"
  BY OneStep DEF Stats, Step
<1>9. Script("all") = a8
  <2>1. del \in Seq(AllSteps)
    BY <1>1 DEF Good
  <2>2. DeleteOld = a2
    <3> DEFINE e == Step("clear", "stats")
    <3>1. DeleteOld = Append(del, e)
      BY DEF DeleteOld
    <3>2. e \in AllSteps
      BY DEF Step, AllSteps, Ops, Places
    <3> HIDE DEF del, e
    <3>3. Append(del, e) = del \o <<e>>
      BY <2>1, <3>2
    <3> QED
      BY <3>1, <3>3 DEF e
  <2> QED
    BY <2>2 DEF Script
<1>10. /\ \A x \in Range(<<Step("clear", "stats")>>) : Rank(x.op) = 1 + 1
       /\ \A x \in Range(StartServers) : Rank(x.op) = 2 + 1
       /\ \A x \in Range(StartClients) : Rank(x.op) = 3 + 1
       /\ \A x \in Range(WaitClients) : Rank(x.op) = 4 + 1
       /\ \A x \in Range(Collect) : Rank(x.op) = 5 + 1
       /\ \A x \in Range(Stop) : Rank(x.op) = 6 + 1
       /\ \A x \in Range(Stats) : Rank(x.op) = 7 + 1
  BY <1>2, <1>3, <1>4, <1>5, <1>6, <1>7, <1>8 DEF Rank
<1> HIDE DEF del
<1>11. UpTo(del, 1)
  BY <1>1 DEF UpTo, Rank
<1>12. UpTo(a2, 1 + 1) /\ Range(a2) = Range(del) \cup Range(<<Step("clear", "stats")>>)
  BY <1>2, <1>10, <1>11, NextPhase
<1> HIDE DEF a2
<1>13. UpTo(a3, 2 + 1) /\ Range(a3) = Range(a2) \cup Range(StartServers)
  BY <1>3, <1>10, <1>12, NextPhase
<1> HIDE DEF a3
<1>14. UpTo(a4, 3 + 1) /\ Range(a4) = Range(a3) \cup Range(StartClients)
  BY <1>4, <1>10, <1>13, NextPhase
<1> HIDE DEF a4
<1>15. UpTo(a5, 4 + 1) /\ Range(a5) = Range(a4) \cup Range(WaitClients)
  BY <1>5, <1>10, <1>14, NextPhase
<1> HIDE DEF a5
<1>16. UpTo(a6, 5 + 1) /\ Range(a6) = Range(a5) \cup Range(Collect)
  BY <1>6, <1>10, <1>15, NextPhase
<1> HIDE DEF a6
<1>17. UpTo(a7, 6 + 1) /\ Range(a7) = Range(a6) \cup Range(Stop)
  BY <1>7, <1>10, <1>16, NextPhase
<1> HIDE DEF a7
<1>18. UpTo(a8, 7 + 1) /\ Range(a8) = Range(a7) \cup Range(Stats)
  BY <1>8, <1>10, <1>17, NextPhase
<1> HIDE DEF a8
<1>19. \A op \in Ops, at \in Places : Needed(op, at) => Step(op, at) \in Range(a8)
  BY <1>1, <1>3, <1>5, <1>6, <1>7, <1>12, <1>13, <1>14, <1>15, <1>16, <1>17, <1>18 DEF Needed
<1>20. Good(a8)
  BY <1>18 DEF UpTo
<1>21. \A a \in Acts : Good(Script(a))
  BY <1>3, <1>4, <1>5, <1>6, <1>7, <1>8, <1>9, <1>20 DEF Script, Acts
<1> QED
  BY <1>9, <1>19, <1>21

\* What is left of a sequence in order is in order.
LEMMA TailFacts ==
  ASSUME NEW q, Good(q), q # <<>>
  PROVE  /\ Good(Tail(q))
         /\ Head(q) \in AllSteps /\ Placed(Head(q))
         /\ Range(q) = Range(Tail(q)) \cup {Head(q)}
         /\ \A x \in Range(q) : Rank(Head(q).op) <= Rank(x.op)
<1>1. /\ q \in Seq(AllSteps) /\ Len(q) \in Nat /\ Len(q) >= 1 /\ DOMAIN q = 1 .. Len(q)
      /\ Head(q) = q[1]
      /\ Tail(q) \in Seq(AllSteps) /\ DOMAIN Tail(q) = 1 .. Len(q) - 1
      /\ \A i \in 1 .. Len(q) - 1 : Tail(q)[i] = q[i + 1]
  BY DEF Good
<1>2. \A x \in Range(q) : Placed(x)
  BY DEF Good
<1>3. \A i, j \in DOMAIN q : i < j => Rank(q[i].op) <= Rank(q[j].op)
  BY DEF Good
<1> DEFINE r == Tail(q)
<1> HIDE DEF r
<1>4. \A i \in DOMAIN q : i = 1 \/ (i - 1 \in DOMAIN r /\ q[i] = r[i - 1])
  BY <1>1 DEF r
<1>5. \A i \in DOMAIN r : i + 1 \in DOMAIN q /\ r[i] = q[i + 1]
  BY <1>1 DEF r
<1>6. Range(q) = Range(r) \cup {q[1]}
  BY <1>1, <1>4, <1>5 DEF Range
<1>7. \A i, j \in DOMAIN r : i < j => Rank(r[i].op) <= Rank(r[j].op)
  <2> SUFFICES ASSUME NEW i \in DOMAIN r, NEW j \in DOMAIN r, i < j
               PROVE  Rank(r[i].op) <= Rank(r[j].op)
    OBVIOUS
  <2>1. i + 1 \in DOMAIN q /\ j + 1 \in DOMAIN q /\ i + 1 < j + 1
    BY <1>1, <1>5 DEF r
  <2> QED
    BY <1>3, <1>5, <2>1
<1>8. Good(r)
  BY <1>1, <1>2, <1>6, <1>7 DEF Good, r
<1>9. q[1] \in AllSteps /\ Rank(q[1].op) \in Int
  BY <1>1, GoodSteps DEF Range
<1>10. \A i \in DOMAIN q : Rank(q[1].op) <= Rank(q[i].op)
  BY <1>1, <1>3, <1>9
<1>11. \A x \in Range(q) : Rank(q[1].op) <= Rank(x.op)
  BY <1>10 DEF Range
<1> QED
  BY <1>1, <1>2, <1>6, <1>8, <1>9, <1>11 DEF r

\* What a filter leaves of it is in order.
LEMMA FilterFacts ==
  ASSUME NEW q, Good(q), NEW S
  PROVE  /\ Good(Kept(q, S))
         /\ Range(Kept(q, S)) \subseteq Range(q)
         /\ \A x \in Range(q) : x \in S => x \in Range(Kept(q, S))
<1> DEFINE r == Kept(q, S)
<1>1. q \in Seq(AllSteps)
  BY DEF Good
<1>2. IsKept(r, q, AllSteps, S)
  BY <1>1, KeptFacts
<1> HIDE DEF r
<1>3. /\ r \in Seq(AllSteps)
      /\ \A i \in DOMAIN r : \E a \in DOMAIN q : r[i] = q[a]
      /\ \A i \in DOMAIN q : q[i] \in S => \E j \in DOMAIN r : r[j] = q[i]
  BY <1>2 DEF IsKept
<1>4. Range(r) \subseteq Range(q) /\ \A x \in Range(q) : x \in S => x \in Range(r)
  BY <1>3 DEF Range
<1>5. ASSUME NEW i \in DOMAIN r, NEW j \in DOMAIN r, i < j
      PROVE  Rank(r[i].op) <= Rank(r[j].op)
  <2>1. PICK a, b \in DOMAIN q : a < b /\ r[i] = q[a] /\ r[j] = q[b]
    BY <1>2, <1>5 DEF IsKept
  <2> QED
    BY <2>1 DEF Good
<1>6. \A x \in Range(r) : Placed(x)
  BY <1>4 DEF Good
<1> QED
  BY <1>3, <1>4, <1>5, <1>6 DEF Good, r
-----------------------------------------------------------------------------
(* The invariant.                                                            *)

\* Types, in parts.
States == [Cts -> {"absent", "running", "exited"}]
Births == [Cts -> 0 .. MaxRuns]
FileStates == [of : 0 .. MaxRuns, complete : BOOLEAN]
Files == [Cts -> FileStates]

LEMMA NoFileType == NoFile \in FileStates
BY BoundsAssumption DEF NoFile, FileStates

LEMMA TypeFacts ==
  ASSUME TypeOK
  PROVE  /\ run \in 0 .. MaxRuns /\ faults \in 0 .. MaxFaults
         /\ act \in Acts /\ result \in {"none", "running", "ok", "failed"}
         /\ ctr \in States /\ born \in Births /\ file \in Files
         /\ told \in BOOLEAN /\ unheard \in BOOLEAN
BY Zenon DEF TypeOK, States, Births, Files, FileStates

LEMMA TypeStep ==
  ASSUME Good(todo'), run' \in 0 .. MaxRuns, faults' \in 0 .. MaxFaults,
         act' \in Acts, result' \in {"none", "running", "ok", "failed"},
         ctr' \in States, born' \in Births, file' \in Files,
         told' \in BOOLEAN, unheard' \in BOOLEAN
  PROVE  TypeOK'
BY Zenon DEF TypeOK, States, Births, Files, FileStates, Good, AllSteps, Ops, Places

LEMMA FaultType ==
  ASSUME TypeOK, Fault
  PROVE  faults' \in 0 .. MaxFaults
BY BoundsAssumption DEF TypeOK, Fault

\* Before the first invocation there is nothing to do and nothing to show (cmdOutput).
THEOREM InitInv == Init => IInv
<1> SUFFICES ASSUME Init PROVE IInv
  OBVIOUS
<1>2. Good(<<>>) /\ <<>> \in Seq(AllSteps)
  BY DEF Good, Range
<1>1. TypeOK
  <2>1. [c \in Cts |-> NoFile] \in Files
    BY NoFileType, Zenon DEF Files
  <2>2. [c \in Cts |-> "absent"] \in States /\ [c \in Cts |-> 0] \in Births
    BY BoundsAssumption DEF States, Births
  <2>3. 0 \in 0 .. MaxRuns /\ 0 \in 0 .. MaxFaults
    BY BoundsAssumption
  <2> QED
    BY <1>2, <2>1, <2>2, <2>3, Zenon
    DEF Init, TypeOK, Acts, Files, FileStates, States, Births, AllSteps, Ops, Places
<1> QED
  BY <1>1, <1>2 DEF Init, IInv, FullRun

\* The step at hand tells what has been done, and what has not.
LEMMA HeadFacts ==
  ASSUME Good(todo), todo # <<>>
  PROVE  /\ Head(todo) \in Range(todo) /\ Head(todo).op \in Ops /\ Head(todo).at \in Places
         /\ Placed(Head(todo))
         /\ Head(todo) = Step(Head(todo).op, Head(todo).at)
         /\ \A op \in Ops, at \in Places :
              Rank(op) < Rank(Head(todo).op) => Done(op, at)
         /\ \A op \in Ops, at \in Places :
              Passed /\ Needed(op, at) /\ Done(op, at) => Rank(op) <= Rank(Head(todo).op)
<1> DEFINE h == Head(todo)
<1>1. /\ h \in Range(todo) /\ h \in AllSteps /\ Placed(h)
      /\ \A x \in Range(todo) : Rank(h.op) <= Rank(x.op)
  BY TailFacts
<1> HIDE DEF h
<1>2. h.op \in Ops /\ h.at \in Places /\ h = Step(h.op, h.at)
  BY <1>1 DEF AllSteps, Step
<1>3. ASSUME NEW op \in Ops, NEW at \in Places, Rank(op) < Rank(h.op), ~ Done(op, at)
      PROVE  FALSE
  <2>1. Step(op, at) \in Range(todo) /\ Step(op, at).op = op
    BY <1>3 DEF Done, Step
  <2>2. Rank(h.op) <= Rank(op)
    BY <1>1, <2>1
  <2>3. Rank(op) \in Int /\ Rank(h.op) \in Int
    BY <1>1, <2>1, GoodSteps
  <2> QED
    BY <1>3, <2>2, <2>3
<1>4. ASSUME NEW op \in Ops, NEW at \in Places, Passed, Needed(op, at), Done(op, at)
      PROVE  Rank(op) <= Rank(h.op)
  BY <1>1, <1>4 DEF Passed
<1> QED
  BY <1>1, <1>2, <1>3, <1>4 DEF h

\* What a step makes done is the step.
LEMMA AdvanceFacts ==
  ASSUME Good(todo), todo # <<>>, Advance
  PROVE  /\ Good(todo')
         /\ \A op \in Ops, at \in Places :
              Done(op, at)' => Done(op, at) \/ (op = Head(todo).op /\ at = Head(todo).at)
         /\ Passed => Passed'
<1>1. todo' = Tail(todo)
  BY DEF Advance
<1>2. /\ Good(todo')
      /\ Range(todo) = Range(todo') \cup {Head(todo)}
      /\ \A x \in Range(todo) : Rank(Head(todo).op) <= Rank(x.op)
  BY <1>1, TailFacts
<1>3. ASSUME NEW op \in Ops, NEW at \in Places, Done(op, at)', ~ Done(op, at)
      PROVE  op = Head(todo).op /\ at = Head(todo).at
  <2>1. Step(op, at) = Head(todo)
    BY <1>2, <1>3 DEF Done
  <2> QED
    BY <2>1 DEF Step
<1>4. ASSUME Passed
      PROVE  Passed'
  <2> SUFFICES ASSUME NEW op \in Ops, NEW at \in Places, Needed(op, at), Done(op, at)',
                      NEW x \in Range(todo')
               PROVE  Rank(op) <= Rank(x.op)
    BY DEF Passed, Needed
  <2>1. CASE Done(op, at)
    BY <1>2, <1>4, <2>1 DEF Passed
  <2>2. CASE ~ Done(op, at)
    BY <1>2, <1>3, <2>2
  <2> QED
    BY <2>1, <2>2
<1> QED
  BY <1>2, <1>3, <1>4

\* Nothing but the containers and the files is at stake while the script stays as it is.
LEMMA StaysFacts ==
  ASSUME IInv, UNCHANGED <<run, act, todo>>
  PROVE  /\ Good(todo') /\ todo' = todo
         /\ \A op \in Ops, at \in Places : Done(op, at)' <=> Done(op, at)
         /\ Passed => Passed'
BY DEF IInv, Done, Passed, Needed

\* Commands and places of the containers.
LEMMA PlaceFacts ==
  /\ \A c \in Cts : HostOf[c] \in Places /\ HostOf[c] \in Hosts /\ c \in Places
  /\ \A c \in Cts : Needed("delete", HostOf[c]) /\ Needed("stop", HostOf[c]) /\ Needed("logs", c)
  /\ \A s \in Servers : Needed("servers", HostOf[s]) /\ s \in Cts
  /\ \A c \in Clients : Needed("wait", c) /\ c \in Cts
  /\ Ops = {"delete", "clear", "servers", "clients", "wait", "logs", "stop", "stats"}
BY TestFacts DEF Places, Needed, Ops

LEMMA RankFacts ==
  /\ Rank("delete") = 1 /\ Rank("clear") = 2 /\ Rank("servers") = 3 /\ Rank("clients") = 4
  /\ Rank("wait") = 5 /\ Rank("logs") = 6 /\ Rank("stop") = 7 /\ Rank("stats") = 8
BY DEF Rank

LEMMA InvokeStep ==
  ASSUME IInv, NEW a \in Acts, Invoke(a)
  PROVE  IInv'
<1>1. Good(todo') /\ todo' \in Seq(AllSteps)
  BY ScriptFacts DEF Invoke, Good
<1>2. TypeOK'
  <2>1. run' \in 0 .. MaxRuns
    BY TypeFacts, BoundsAssumption DEF IInv, Invoke
  <2> QED
    BY <1>1, <2>1, TypeFacts, TypeStep, Zenon DEF IInv, Invoke, engine
<1>3. ASSUME FullRun'
      PROVE  Achieved'
  <2>1. todo' = Script("all")
    BY <1>3 DEF FullRun, Invoke
  <2>2. \A op \in Ops, at \in Places : Needed(op, at) => ~ Done(op, at)'
    BY <2>1, ScriptFacts DEF Done
  <2> QED
    BY <2>2, PlaceFacts DEF Achieved, Passed, Fresh, ServersBorn, ClientsEnded, Saved, SavedWhole,
         Gone, Needed
<1> QED
  BY <1>1, <1>2, <1>3 DEF IInv, Invoke

\* Removing containers puts nothing at stake.
LEMMA RemovedFacts ==
  ASSUME IInv, FullRun, NEW cts \in SUBSET Cts, Removed(cts),
         UNCHANGED <<run, act, file, told, unheard>>, Passed',
         \A op \in Ops, at \in Places :
           Done(op, at)' => \/ Done(op, at)
                            \/ op \in {"delete", "stop"} /\ \A c \in Cts : HostOf[c] = at => c \in cts
  PROVE  Achieved'
<1>1. /\ \A c \in Cts : ctr'[c] = IF c \in cts THEN "absent" ELSE ctr[c]
      /\ born' = born
  BY DEF Removed
<1>2. Achieved
  BY DEF IInv
<1>3. Fresh'
  BY <1>1, <1>2, PlaceFacts DEF Achieved, Fresh
<1>4. ServersBorn'
  BY <1>1, <1>2, PlaceFacts DEF Achieved, ServersBorn
<1>5. ClientsEnded'
  BY <1>1, <1>2, PlaceFacts DEF Achieved, ClientsEnded
<1>6. Saved' /\ SavedWhole'
  BY <1>2, PlaceFacts DEF Achieved, Saved, SavedWhole
<1>7. Gone'
  BY <1>1, <1>2, PlaceFacts DEF Achieved, Gone
<1> QED
  BY <1>3, <1>4, <1>5, <1>6, <1>7 DEF Achieved

LEMMA RemovedTypes ==
  ASSUME TypeOK, NEW cts, Removed(cts)
  PROVE  ctr' \in States /\ born' \in Births
BY TypeFacts DEF Removed, States

LEMMA DeleteStep ==
  ASSUME IInv, Delete
  PROVE  IInv'
<1> DEFINE h == Head(todo)
<1>0. /\ todo # <<>> /\ result = "running" /\ h.op \in {"delete", "stop"}
      /\ Removed(Targets(h.at)) /\ Advance /\ UNCHANGED <<run, act, result, file, told, unheard, faults>>
  BY DEF Delete, Doing, Advance
<1>1. /\ Good(todo') /\ todo' \in Seq(AllSteps)
      /\ \A op \in Ops, at \in Places :
           Done(op, at)' => Done(op, at) \/ (op = h.op /\ at = h.at)
      /\ Passed => Passed'
  BY <1>0, AdvanceFacts DEF IInv, Good
<1> HIDE DEF h
<1>2. TypeOK'
  <2>1. ctr' \in States /\ born' \in Births
    BY <1>0, RemovedTypes DEF IInv
  <2> QED
    BY <1>0, <1>1, <2>1, TypeFacts, TypeStep, Zenon DEF IInv
<1>3. ASSUME FullRun'
      PROVE  Achieved'
  <2>1. FullRun
    BY <1>0, <1>3 DEF FullRun
  <2>2. Passed'
    BY <1>1, <2>1 DEF IInv, Achieved
  <2>3. /\ Targets(h.at) \in SUBSET Cts
        /\ \A op \in Ops, at \in Places :
             Done(op, at)' => \/ Done(op, at)
                              \/ op \in {"delete", "stop"} /\ \A c \in Cts : HostOf[c] = at => c \in Targets(h.at)
    BY <1>0, <1>1 DEF Targets
  <2> QED
    BY <1>0, <2>1, <2>2, <2>3, RemovedFacts
<1> QED
  BY <1>0, <1>1, <1>2, <1>3 DEF IInv

\* Some containers of a host are gone while the script stays where it is.
LEMMA LessStep ==
  ASSUME IInv, NEW cts \in SUBSET Cts, Removed(cts), Fault, UNCHANGED <<script, file, told, unheard>>
  PROVE  IInv'
<1>0. UNCHANGED <<run, act, todo, result, file, told, unheard>>
  BY DEF script
<1>1. Good(todo') /\ (\A op \in Ops, at \in Places : Done(op, at)' <=> Done(op, at)) /\ (Passed => Passed')
  BY <1>0, StaysFacts
<1>2. TypeOK'
  <2>1. ctr' \in States /\ born' \in Births
    BY <1>0, RemovedTypes DEF IInv
  <2> QED
    BY <1>0, <1>1, <2>1, FaultType, TypeFacts, TypeStep, Zenon DEF IInv
<1>3. ASSUME FullRun'
      PROVE  Achieved'
  <2>1. FullRun /\ Passed'
    BY <1>0, <1>1, <1>3 DEF FullRun, IInv, Achieved
  <2>2. \A op \in Ops, at \in Places :
          Done(op, at)' => \/ Done(op, at)
                           \/ op \in {"delete", "stop"} /\ \A c \in Cts : HostOf[c] = at => c \in cts
    BY <1>1
  <2> QED
    BY <1>0, <2>1, <2>2, RemovedFacts
<1> QED
  BY <1>0, <1>1, <1>2, <1>3 DEF IInv

LEMMA ClearStep ==
  ASSUME IInv, Clear
  PROVE  IInv'
<1>0. /\ todo # <<>> /\ result = "running" /\ Head(todo).op = "clear" /\ Advance
      /\ UNCHANGED <<run, act, result, ctr, born, told, unheard, faults>>
      /\ file' = [c \in Cts |-> NoFile]
  BY DEF Clear, Doing, Advance, engine
<1>1. /\ Good(todo')
      /\ \A op \in Ops, at \in Places :
           Done(op, at)' => Done(op, at) \/ (op = "clear" /\ at = Head(todo).at)
      /\ Passed => Passed'
  BY <1>0, AdvanceFacts DEF IInv
<1>2. TypeOK'
  <2>1. file' \in Files
    BY <1>0, NoFileType, Zenon DEF Files
  <2> QED
    BY <1>0, <1>1, <2>1, TypeFacts, TypeStep, Zenon DEF IInv
<1>3. ASSUME FullRun'
      PROVE  Achieved'
  <2>1. FullRun /\ Achieved /\ Passed'
    BY <1>0, <1>1, <1>3 DEF FullRun, IInv, Achieved
  <2>2. Fresh' /\ ServersBorn' /\ ClientsEnded' /\ Gone'
    BY <1>0, <1>1, <2>1, PlaceFacts DEF Achieved, Fresh, ServersBorn, ClientsEnded, Gone
  <2>3. \A c \in Cts : ~ Done("logs", c)'
    BY <1>0, <1>1, <2>1, HeadFacts, PlaceFacts, RankFacts DEF IInv, Achieved
  <2>4. Saved' /\ SavedWhole'
    BY <2>3, PlaceFacts DEF Saved, SavedWhole
  <2> QED
    BY <2>1, <2>2, <2>4 DEF Achieved
<1> QED
  BY <1>0, <1>1, <1>2, <1>3 DEF IInv

LEMMA StartedTypes ==
  ASSUME TypeOK, NEW cts, Started(cts)
  PROVE  ctr' \in States /\ born' \in Births
<1>1. run \in 0 .. MaxRuns /\ ctr \in States /\ born \in Births
  BY TypeFacts
<1>2. ctr' \in States
  BY <1>1 DEF Started, States
<1>3. born' \in Births
  BY <1>1 DEF Started, Births
<1> QED
  BY <1>2, <1>3

\* Starting containers, some or all of those named.
LEMMA StartedFacts ==
  ASSUME IInv, FullRun, result = "running", todo # <<>>, Head(todo).op \in {"servers", "clients"},
         NEW cts \in SUBSET Cts, Started(cts),
         UNCHANGED <<run, act, file, told, unheard>>, Passed',
         \A op \in Ops, at \in Places :
           Done(op, at)' => \/ Done(op, at)
                            \/ /\ op = Head(todo).op
                               /\ op = "servers" => \A s \in Servers : HostOf[s] = at => s \in cts
  PROVE  Achieved'
<1> DEFINE h == Head(todo)
<1>1. \A c \in Cts : /\ ctr'[c] = IF c \in cts THEN "running" ELSE ctr[c]
                     /\ born'[c] = IF c \in cts /\ ctr[c] = "absent" THEN run ELSE born[c]
  BY DEF Started
<1>2. Achieved
  BY DEF IInv
<1>3. \A op \in Ops, at \in Places :
        /\ Rank(op) < Rank(h.op) => Done(op, at)
        /\ Needed(op, at) /\ Done(op, at) => Rank(op) <= Rank(h.op)
  BY <1>2, HeadFacts DEF IInv, Achieved
<1> HIDE DEF h
<1>4. /\ \A c \in Cts : Done("delete", HostOf[c])
      /\ \A c \in Cts : ~ Done("logs", c) /\ ~ Done("stop", HostOf[c])
      /\ \A c \in Clients : ~ Done("wait", c)
  BY <1>3, PlaceFacts, RankFacts DEF h
<1>5. /\ \A c \in Cts : ~ Done("logs", c)' /\ ~ Done("stop", HostOf[c])'
      /\ \A c \in Clients : ~ Done("wait", c)'
  BY <1>4, PlaceFacts
<1>6. \A c \in Cts : ctr[c] = "absent" \/ born[c] = run
  BY <1>2, <1>4 DEF Achieved, Fresh
<1>7. Fresh'
  BY <1>1, <1>6 DEF Fresh
<1>8. ServersBorn'
  <2> SUFFICES ASSUME NEW s \in Servers, Done("servers", HostOf[s])'
               PROVE  born'[s] = run
    BY DEF ServersBorn
  <2>1. CASE Done("servers", HostOf[s])
    BY <1>1, <1>2, <2>1, PlaceFacts DEF Achieved, ServersBorn
  <2>2. CASE ~ Done("servers", HostOf[s])
    <3>1. s \in cts /\ s \in Cts
      BY <2>2, PlaceFacts
    <3> QED
      BY <1>1, <1>6, <3>1
  <2> QED
    BY <2>1, <2>2
<1>9. ClientsEnded' /\ Saved' /\ SavedWhole' /\ Gone'
  BY <1>5, PlaceFacts DEF ClientsEnded, Saved, SavedWhole, Gone
<1> QED
  BY <1>7, <1>8, <1>9 DEF Achieved

LEMMA UpStep ==
  ASSUME IInv, Up
  PROVE  IInv'
<1> DEFINE h == Head(todo)
           cts == Named(h.at, h.op)
<1>0. /\ todo # <<>> /\ result = "running" /\ h.op \in {"servers", "clients"}
      /\ Started(cts) /\ Advance /\ UNCHANGED <<run, act, result, file, told, unheard, faults>>
  BY DEF Up, Doing, Advance
<1>1. /\ Good(todo')
      /\ \A op \in Ops, at \in Places :
           Done(op, at)' => Done(op, at) \/ (op = h.op /\ at = h.at)
      /\ Passed => Passed'
  BY <1>0, AdvanceFacts DEF IInv
<1>2. /\ cts \in SUBSET Cts
      /\ h.op = "servers" => \A s \in Servers : HostOf[s] = h.at => s \in cts
  BY PlaceFacts DEF Named, Targets
<1> HIDE DEF cts
<1>3. TypeOK'
  <2>1. ctr' \in States /\ born' \in Births
    BY <1>0, StartedTypes DEF IInv
  <2> QED
    BY <1>0, <1>1, <2>1, TypeFacts, TypeStep, Zenon DEF IInv
<1>4. ASSUME FullRun'
      PROVE  Achieved'
  <2>1. FullRun /\ Passed'
    BY <1>0, <1>1, <1>4 DEF FullRun, IInv, Achieved
  <2>2. \A op \in Ops, at \in Places :
          Done(op, at)' => \/ Done(op, at)
                           \/ /\ op = h.op
                              /\ op = "servers" => \A s \in Servers : HostOf[s] = at => s \in cts
    BY <1>1, <1>2
  <2> QED
    BY <1>0, <1>2, <2>1, <2>2, StartedFacts
<1> QED
  BY <1>0, <1>1, <1>3, <1>4 DEF IInv

LEMMA UpFailsStep ==
  ASSUME IInv, UpFails
  PROVE  IInv'
<1> DEFINE h == Head(todo)
<1>0. /\ todo # <<>> /\ result = "running" /\ h.op \in {"servers", "clients"}
      /\ Fault /\ UNCHANGED <<run, act, todo, result, file, told, unheard>>
  BY DEF UpFails, Doing, script
<1>1. PICK some \in SUBSET Named(h.at, h.op) : Started(some)
  BY DEF UpFails
<1>2. some \in SUBSET Cts
  BY <1>1 DEF Named, Targets
<1>3. Good(todo') /\ (\A op \in Ops, at \in Places : Done(op, at)' <=> Done(op, at)) /\ (Passed => Passed')
  BY <1>0, StaysFacts
<1>4. TypeOK'
  <2>1. ctr' \in States /\ born' \in Births
    BY <1>1, StartedTypes DEF IInv
  <2> QED
    BY <1>0, <1>3, <2>1, FaultType, TypeFacts, TypeStep, Zenon DEF IInv
<1>5. ASSUME FullRun'
      PROVE  Achieved'
  <2>1. FullRun /\ Passed'
    BY <1>0, <1>3, <1>5 DEF FullRun, IInv, Achieved
  <2>2. \A op \in Ops, at \in Places :
          Done(op, at)' => \/ Done(op, at)
                           \/ /\ op = h.op
                              /\ op = "servers" => \A s \in Servers : HostOf[s] = at => s \in some
    BY <1>3
  <2> QED
    BY <1>0, <1>1, <1>2, <2>1, <2>2, StartedFacts
<1> QED
  BY <1>0, <1>3, <1>4, <1>5 DEF IInv

LEMMA WaitStep ==
  ASSUME IInv, Wait \/ WaitFails
  PROVE  IInv'
<1> DEFINE h == Head(todo)
<1>0. /\ todo # <<>> /\ result = "running" /\ h.op = "wait" /\ Advance
      /\ UNCHANGED <<run, act, result, ctr, born, file, told>>
      /\ \/ ctr[h.at] # "running" /\ UNCHANGED <<unheard, faults>>
         \/ unheard' = TRUE /\ Fault
  BY DEF Wait, WaitFails, Doing, Advance, engine
<1>1. /\ Good(todo')
      /\ \A op \in Ops, at \in Places :
           Done(op, at)' => Done(op, at) \/ (op = "wait" /\ at = h.at)
      /\ Passed => Passed'
  BY <1>0, AdvanceFacts DEF IInv
<1> HIDE DEF h
<1>2. TypeOK'
  <2>1. unheard' \in BOOLEAN /\ faults' \in 0 .. MaxFaults
    BY <1>0, FaultType, TypeFacts, Zenon DEF IInv
  <2> QED
    BY <1>0, <1>1, <2>1, TypeFacts, TypeStep, Zenon DEF IInv
<1>3. ASSUME FullRun'
      PROVE  Achieved'
  <2>1. FullRun /\ Achieved /\ Passed'
    BY <1>0, <1>1, <1>3 DEF FullRun, IInv, Achieved
  <2>2. Fresh' /\ ServersBorn' /\ Saved' /\ Gone'
    BY <1>0, <1>1, <2>1, PlaceFacts DEF Achieved, Fresh, ServersBorn, Saved, Gone
  <2>3. (~ unheard' => ~ unheard) /\ (~ told' => ~ told)
    BY <1>0
  <2>4. ClientsEnded' /\ SavedWhole'
    BY <1>0, <1>1, <2>1, <2>3, PlaceFacts DEF Achieved, ClientsEnded, SavedWhole
  <2> QED
    BY <2>1, <2>2, <2>4 DEF Achieved
<1> QED
  BY <1>0, <1>1, <1>2, <1>3 DEF IInv

LEMMA TimeoutStep ==
  ASSUME IInv, Timeout
  PROVE  IInv'
<1> DEFINE h == Head(todo)
           S == {s \in Range(todo) : s.op # "wait"}
<1>0. /\ todo # <<>> /\ result = "running" /\ h.op = "wait" /\ told' = TRUE /\ todo' = Kept(todo, S)
      /\ UNCHANGED <<run, act, result, ctr, born, file, unheard, faults>>
  BY DEF Timeout, Doing, engine
<1> HIDE DEF h, S
<1>1. /\ Good(todo')
      /\ Range(todo') \subseteq Range(todo)
      /\ \A x \in Range(todo) : x \in S => x \in Range(todo')
  BY <1>0, FilterFacts DEF IInv
<1>2. \A op \in Ops, at \in Places : op # "wait" /\ Done(op, at)' => Done(op, at)
  BY <1>1 DEF Done, Step, S
<1>3. TypeOK'
  BY <1>0, <1>1, TypeFacts, TypeStep, Zenon DEF IInv
<1>4. ASSUME FullRun'
      PROVE  Achieved'
  <2>1. FullRun /\ Achieved
    BY <1>0, <1>4 DEF FullRun, IInv
  <2>2. Passed'
    <3> SUFFICES ASSUME NEW op \in Ops, NEW at \in Places, Needed(op, at), Done(op, at)',
                        NEW x \in Range(todo')
                 PROVE  Rank(op) <= Rank(x.op)
      BY DEF Passed, Needed
    <3>1. CASE Done(op, at)
      BY <1>1, <2>1, <3>1 DEF Achieved, Passed
    <3>2. CASE ~ Done(op, at)
      BY <1>0, <1>1, <1>2, <3>2, TailFacts DEF IInv, h
    <3> QED
      BY <3>1, <3>2
  <2>3. Fresh' /\ ServersBorn' /\ Saved' /\ Gone'
    BY <1>0, <1>2, <2>1, PlaceFacts DEF Achieved, Fresh, ServersBorn, Saved, Gone
  <2>4. ClientsEnded' /\ SavedWhole'
    BY <1>0 DEF ClientsEnded, SavedWhole
  <2> QED
    BY <2>2, <2>3, <2>4 DEF Achieved
<1> QED
  BY <1>0, <1>1, <1>3, <1>4 DEF IInv

LEMMA LogStep ==
  ASSUME IInv, Log
  PROVE  IInv'
<1> DEFINE c == Head(todo).at
           saved == [of |-> born[c], complete |-> ctr[c] = "exited"]
<1>0. /\ todo # <<>> /\ result = "running" /\ Head(todo).op = "logs" /\ Advance
      /\ ctr[c] # "absent" /\ file' = [file EXCEPT ![c] = saved]
      /\ UNCHANGED <<run, act, result, ctr, born, told, unheard, faults>>
  BY DEF Log, Doing, Advance, engine
<1>1. /\ Good(todo')
      /\ \A op \in Ops, at \in Places :
           Done(op, at)' => Done(op, at) \/ (op = "logs" /\ at = c)
      /\ Passed => Passed'
  BY <1>0, AdvanceFacts DEF IInv
<1>2. c \in Cts
  BY <1>0, HeadFacts DEF IInv, Placed
<1>3. saved \in FileStates /\ saved.of = born[c] /\ (ctr[c] = "exited" => saved.complete)
  BY <1>2, TypeFacts DEF IInv, Births, FileStates
<1>4. /\ file' \in Files
      /\ \A k \in Cts : file'[k] = IF k = c THEN saved ELSE file[k]
  <2> HIDE DEF saved
  <2> QED
    BY <1>0, <1>2, <1>3, TypeFacts DEF IInv, Files
<1> HIDE DEF saved, c
<1>5. TypeOK'
  BY <1>0, <1>1, <1>4, TypeFacts, TypeStep, Zenon DEF IInv
<1>6. ASSUME FullRun'
      PROVE  Achieved'
  <2>1. FullRun /\ Achieved /\ Passed'
    BY <1>0, <1>1, <1>6 DEF FullRun, IInv, Achieved
  <2>2. Fresh' /\ ServersBorn' /\ ClientsEnded' /\ Gone'
    BY <1>0, <1>1, <2>1, PlaceFacts DEF Achieved, Fresh, ServersBorn, ClientsEnded, Gone
  <2>3. Done("delete", HostOf[c]) /\ Done("wait", c)
    <3>1. /\ \A op \in Ops, at \in Places : Rank(op) < Rank("logs") => Done(op, at)
      BY <1>0, HeadFacts DEF IInv
    <3> QED
      BY <1>2, <3>1, PlaceFacts, RankFacts
  <2>4. born[c] = run
    BY <1>0, <1>2, <2>1, <2>3 DEF Achieved, Fresh
  <2>5. Saved'
    BY <1>0, <1>1, <1>3, <1>4, <2>1, <2>4, PlaceFacts DEF Achieved, Saved
  <2>6. SavedWhole'
    <3> SUFFICES ASSUME ~ told', ~ unheard', NEW k \in Clients, Done("logs", k)'
                 PROVE  file'[k].complete
      BY DEF SavedWhole
    <3>1. ~ told /\ ~ unheard /\ k \in Cts /\ k \in Places
      BY <1>0, PlaceFacts
    <3>2. CASE k = c
      <4>1. ctr[c] # "running"
        BY <2>1, <2>3, <3>1, <3>2 DEF Achieved, ClientsEnded
      <4>2. ctr[c] = "exited"
        BY <1>0, <1>2, <4>1, TypeFacts DEF IInv, States
      <4> QED
        BY <1>3, <1>4, <3>1, <3>2, <4>2
    <3>3. CASE k # c
      <4>1. Done("logs", k)
        BY <1>1, <3>1, <3>3, PlaceFacts
      <4>2. file[k].complete
        BY <2>1, <3>1, <4>1 DEF Achieved, SavedWhole
      <4> QED
        BY <1>4, <3>1, <3>3, <4>2
    <3> QED
      BY <3>2, <3>3
  <2> QED
    BY <2>1, <2>2, <2>5, <2>6 DEF Achieved
<1> QED
  BY <1>0, <1>1, <1>5, <1>6 DEF IInv

\* A log that is not saved ends the script.
LEMMA NoLogStep ==
  ASSUME IInv, LogOfNone \/ LogFails
  PROVE  IInv'
<1> DEFINE c == Head(todo).at
<1>0. /\ todo # <<>> /\ result = "running" /\ Head(todo).op = "logs"
      /\ file' = [file EXCEPT ![c] = NoFile] /\ result' = "failed"
      /\ UNCHANGED <<run, act, todo, ctr, born, told, unheard>>
      /\ faults' = faults \/ Fault
  BY DEF LogOfNone, LogFails, Doing, Abort, engine
<1>1. Good(todo') /\ (\A op \in Ops, at \in Places : Done(op, at)' <=> Done(op, at)) /\ (Passed => Passed')
  BY <1>0, StaysFacts
<1>2. c \in Cts /\ ~ Done("logs", c)
  BY <1>0, HeadFacts DEF IInv, Placed, Done
<1>3. /\ file' \in Files
      /\ \A k \in Cts : k # c => file'[k] = file[k]
  BY <1>0, <1>2, NoFileType, TypeFacts DEF IInv, Files
<1> HIDE DEF c
<1>4. TypeOK'
  <2>1. faults' \in 0 .. MaxFaults /\ result' \in {"none", "running", "ok", "failed"}
    BY <1>0, FaultType, TypeFacts DEF IInv
  <2> QED
    BY <1>0, <1>1, <1>3, <2>1, TypeFacts, TypeStep, Zenon DEF IInv
<1>5. ASSUME FullRun'
      PROVE  Achieved'
  <2>1. FullRun /\ Achieved /\ Passed'
    BY <1>0, <1>1, <1>5 DEF FullRun, IInv, Achieved
  <2>2. Fresh' /\ ServersBorn' /\ ClientsEnded' /\ Gone'
    BY <1>0, <1>1, <2>1, PlaceFacts DEF Achieved, Fresh, ServersBorn, ClientsEnded, Gone
  <2>3. Saved' /\ SavedWhole'
    BY <1>0, <1>1, <1>2, <1>3, <2>1, PlaceFacts DEF Achieved, Saved, SavedWhole
  <2> QED
    BY <2>1, <2>2, <2>3 DEF Achieved
<1> QED
  BY <1>0, <1>1, <1>4, <1>5 DEF IInv

LEMMA TallyStep ==
  ASSUME IInv, Tally
  PROVE  IInv'
<1>0. /\ todo # <<>> /\ result = "running" /\ Head(todo).op = "stats"
      /\ UNCHANGED <<run, act, ctr, born, file, told, unheard, faults>>
      /\ (Advance /\ result' = result) \/ (todo' = todo /\ result' = "failed")
  BY DEF Tally, Doing, Advance, Abort, engine
<1>1. /\ Good(todo')
      /\ \A op \in Ops, at \in Places : op # "stats" /\ Done(op, at)' => Done(op, at)
      /\ Passed => Passed'
  <2>1. CASE Advance
    BY <1>0, <2>1, AdvanceFacts DEF IInv
  <2>2. CASE todo' = todo
    BY <1>0, <2>2, StaysFacts
  <2> QED
    BY <1>0, <2>1, <2>2
<1>2. TypeOK'
  <2>1. result' \in {"none", "running", "ok", "failed"}
    BY <1>0
  <2> QED
    BY <1>0, <1>1, <2>1, TypeFacts, TypeStep, Zenon DEF IInv
<1>3. ASSUME FullRun'
      PROVE  Achieved'
  <2>1. FullRun /\ Achieved /\ Passed'
    BY <1>0, <1>1, <1>3 DEF FullRun, IInv, Achieved
  <2>2. Fresh' /\ ServersBorn' /\ ClientsEnded' /\ Gone'
    BY <1>0, <1>1, <2>1, PlaceFacts DEF Achieved, Fresh, ServersBorn, ClientsEnded, Gone
  <2>3. Saved' /\ SavedWhole'
    BY <1>0, <1>1, <2>1, PlaceFacts DEF Achieved, Saved, SavedWhole
  <2> QED
    BY <2>1, <2>2, <2>3 DEF Achieved
<1> QED
  BY <1>0, <1>1, <1>2, <1>3 DEF IInv

LEMMA FinishStep ==
  ASSUME IInv, Finish
  PROVE  IInv'
<1>0. /\ todo = <<>> /\ result = "running" /\ result' = "ok"
      /\ UNCHANGED <<run, act, todo, ctr, born, file, told, unheard, faults>>
  BY DEF Finish, engine
<1>1. Good(todo') /\ (\A op \in Ops, at \in Places : Done(op, at)' <=> Done(op, at)) /\ (Passed => Passed')
  BY <1>0, StaysFacts
<1>2. TypeOK'
  <2>1. result' \in {"none", "running", "ok", "failed"}
    BY <1>0
  <2> QED
    BY <1>0, <1>1, <2>1, TypeFacts, TypeStep, Zenon DEF IInv
<1>3. ASSUME FullRun'
      PROVE  Achieved'
  <2>1. FullRun /\ Achieved /\ Passed'
    BY <1>0, <1>1, <1>3 DEF FullRun, IInv, Achieved
  <2>2. Fresh' /\ ServersBorn' /\ ClientsEnded' /\ Gone'
    BY <1>0, <1>1, <2>1, PlaceFacts DEF Achieved, Fresh, ServersBorn, ClientsEnded, Gone
  <2>3. Saved' /\ SavedWhole'
    BY <1>0, <1>1, <2>1, PlaceFacts DEF Achieved, Saved, SavedWhole
  <2> QED
    BY <2>1, <2>2, <2>3 DEF Achieved
<1> QED
  BY <1>0, <1>1, <1>2, <1>3 DEF IInv

LEMMA ExitStep ==
  ASSUME IInv, NEW x \in Cts, Exit(x)
  PROVE  IInv'
<1>0. /\ ctr[x] = "running" /\ ctr' = [ctr EXCEPT ![x] = "exited"]
      /\ UNCHANGED <<run, act, todo, result, born, file, told, unheard, faults>>
  BY DEF Exit, script
<1>1. Good(todo') /\ (\A op \in Ops, at \in Places : Done(op, at)' <=> Done(op, at)) /\ (Passed => Passed')
  BY <1>0, StaysFacts
<1>2. /\ ctr' \in States
      /\ \A c \in Cts : ctr'[c] = IF c = x THEN "exited" ELSE ctr[c]
  BY <1>0, TypeFacts DEF IInv, States
<1>3. TypeOK'
  BY <1>0, <1>1, <1>2, TypeFacts, TypeStep, Zenon DEF IInv
<1>4. ASSUME FullRun'
      PROVE  Achieved'
  <2>1. FullRun /\ Achieved /\ Passed'
    BY <1>0, <1>1, <1>4 DEF FullRun, IInv, Achieved
  <2>2. Fresh' /\ ClientsEnded' /\ Gone'
    BY <1>0, <1>1, <1>2, <2>1, PlaceFacts DEF Achieved, Fresh, ClientsEnded, Gone
  <2>3. ServersBorn' /\ Saved' /\ SavedWhole'
    BY <1>0, <1>1, <2>1, PlaceFacts DEF Achieved, ServersBorn, Saved, SavedWhole
  <2> QED
    BY <2>1, <2>2, <2>3 DEF Achieved
<1> QED
  BY <1>0, <1>1, <1>3, <1>4 DEF IInv

\* Every step preserves the invariant.
THEOREM NextInv == IInv /\ [Next]_vars => IInv'
<1> SUFFICES ASSUME IInv, [Next]_vars PROVE IInv'
  OBVIOUS
<1>1. CASE \E a \in Acts : Invoke(a)
  BY <1>1, InvokeStep
<1>2. CASE Delete
  BY <1>2, DeleteStep
<1>3. CASE Clear
  BY <1>3, ClearStep
<1>4. CASE Up
  BY <1>4, UpStep
<1>5. CASE Wait \/ WaitFails
  BY <1>5, WaitStep
<1>6. CASE Timeout
  BY <1>6, TimeoutStep
<1>7. CASE Log
  BY <1>7, LogStep
<1>8. CASE LogOfNone \/ LogFails
  BY <1>8, NoLogStep
<1>9. CASE Tally
  BY <1>9, TallyStep
<1>10. CASE Finish
  BY <1>10, FinishStep
<1>11. CASE DeleteFails
  <2>1. PICK some \in SUBSET Targets(Head(todo).at) : Removed(some)
    BY <1>11 DEF DeleteFails
  <2> QED
    BY <1>11, <2>1, LessStep DEF DeleteFails, Targets
<1>12. CASE UpFails
  BY <1>12, UpFailsStep
<1>13. CASE \E c \in Cts : Exit(c)
  BY <1>13, ExitStep
<1>14. CASE \E h \in Hosts : RemoveOrphans(h)
  BY <1>14, LessStep DEF RemoveOrphans, Targets
<1>15. CASE UNCHANGED vars
  <2>0. UNCHANGED <<run, act, todo, result, ctr, born, file, told, unheard, faults>>
    BY <1>15 DEF vars, script, engine
  <2>1. TypeOK'
    BY <2>0, TypeFacts, TypeStep, Zenon DEF IInv
  <2>2. FullRun' => Achieved'
    BY <2>0, PlaceFacts DEF IInv, FullRun, Achieved, Passed, Fresh, ServersBorn, ClientsEnded, Saved,
         SavedWhole, Gone, Done, Needed
  <2> QED
    BY <2>0, <2>1, <2>2 DEF IInv
<1> QED
  BY <1>1, <1>2, <1>3, <1>4, <1>5, <1>6, <1>7, <1>8, <1>9, <1>10, <1>11, <1>12, <1>13, <1>14, <1>15
  DEF Next, Proceed, Trouble

\* The remaining script is in the order of its phases, and what a full run has done so far holds
\* (tgcs.ts, cmdOutput, with with_retry of util/cmd.ts).
THEOREM Invariance == Spec => []IInv
BY InitInv, NextInv, PTL DEF Spec
-----------------------------------------------------------------------------
\* The state of the script, of the engines and of the files is well-formed, however many hosts,
\* containers, invocations and faults there are.
THEOREM TypeCorrect == Spec => []TypeOK
BY Invariance, PTL DEF IInv

\* A full run that succeeds leaves its own output of every container, complete for every client unless the
\* script says that it may not be or docker wait fails, and no container behind: whatever earlier
\* invocations have left, whichever commands fail and are repeated, whatever else removes containers.
THEOREM Sound == Spec => []SoundResults
<1>1. IInv => SoundResults
  <2> SUFFICES ASSUME IInv, Succeeded, NEW c \in Cts
               PROVE  /\ file[c].of = run /\ ctr[c] = "absent"
                      /\ ~ told /\ ~ unheard /\ c \in Clients => file[c].complete
    BY PlaceFacts DEF SoundResults, OwnResults, CompleteResults
  <2>1. Achieved /\ todo = <<>>
    BY DEF IInv, Succeeded, FullRun
  <2>2. \A op, at : Done(op, at)
    BY <2>1 DEF Done, Range
  <2> QED
    BY <2>1, <2>2 DEF Achieved, Saved, SavedWhole, Gone
<1> QED
  BY <1>1, Invariance, PTL

\* In a full run a client is started only after the servers on all hosts were created by this run, and the
\* containers are deleted at its end only when the output of each has been saved by it.
THEOREM InOrder == Spec => StepsInOrder
<1>1. ASSUME IInv, [Next]_vars, NEW c \in Clients, NEW s \in Servers,
             act = "all", result = "running", ctr[c] # "running", ctr'[c] = "running"
      PROVE  born[s] = run
  <2>0. c \in Cts /\ s \in Cts /\ c \notin Servers
    BY PlaceFacts DEF Clients
  <2>1. (Doing("servers") \/ Doing("clients")) /\ c \in Named(Head(todo).at, Head(todo).op)
    <3>1. CASE Up
      BY <1>1, <2>0, <3>1 DEF Up, Started
    <3>2. CASE UpFails
      BY <1>1, <2>0, <3>2 DEF UpFails, Started
    <3>3. CASE ~ Up /\ ~ UpFails
      <4>1. ~ UNCHANGED ctr
        BY <1>1
      <4>2. ~ (\E cts : Removed(cts))
        BY <1>1, <2>0 DEF Removed
      <4>3. ~ \E x \in Cts : Exit(x)
        BY <1>1, <2>0, TypeFacts DEF Exit, IInv, States
      <4> QED
        BY <1>1, <3>3, <4>1, <4>2, <4>3 DEF Next, Proceed, Trouble, vars, engine, Invoke, Delete, Clear,
             Wait, Timeout, Log, LogOfNone, Tally, Finish, DeleteFails, WaitFails, LogFails, RemoveOrphans
    <3> QED
      BY <3>1, <3>2, <3>3
  <2>2. Head(todo).op = "clients" /\ todo # <<>>
    BY <2>0, <2>1 DEF Doing, Named
  <2>3. Done("servers", HostOf[s])
    <3>1. \A op \in Ops, at \in Places : Rank(op) < Rank("clients") => Done(op, at)
      BY <1>1, <2>2, HeadFacts DEF IInv
    <3> QED
      BY <2>0, <3>1, PlaceFacts, RankFacts
  <2> QED
    BY <1>1, <2>3 DEF IInv, FullRun, Achieved, ServersBorn
<1>2. ASSUME IInv, NEW c \in Cts, Doing("stop"), act = "all"
      PROVE  file[c].of = run
  <2>1. Done("logs", c)
    BY <1>2, HeadFacts, PlaceFacts, RankFacts DEF IInv, Doing
  <2> QED
    BY <1>2, <2>1 DEF IInv, Doing, FullRun, Achieved, Saved
<1>3. IInv /\ [Next]_vars =>
        [\A c \in Clients :
           act = "all" /\ result = "running" /\ ctr[c] # "running" /\ ctr'[c] = "running"
             => \A s \in Servers : born[s] = run]_vars
  BY <1>1
<1>4. IInv =>
        [\A c \in Cts :
           Doing("stop") /\ act = "all" /\ ctr[c] # "absent" /\ ctr'[c] = "absent"
             => file[c].of = run]_vars
  BY <1>2
<1> QED
  BY <1>3, <1>4, Invariance, PTL DEF Spec, StepsInOrder, ServersFirst, SavedFirst
=============================================================================
