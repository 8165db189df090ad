----------------------------- MODULE PlaceProofs -----------------------------
(***************************************************************************)
(* place() for any rules, containers, requests and cpusets: the first rule *)
(* wins, everyone has cores, and those that are dedicated stay so.         *)
(***************************************************************************)
EXTENDS Place, ListProofs, FiniteSetTheorems, SequenceTheorems

\* A rule matches a container: Matches of the rule at hand, for any rule.
MatchedBy(r, s) == s \in rules[r].match /\ (matchHost => host[s] = rules[r].host)

Phase ==
  /\ pc \in {"match", "assign"} => rule <= Len(rules)
  /\ pc = "assign" => Rule.cpuset # <<>>
  /\ pc = "done" /\ rules # <<>> => rule = Len(rules) + 1

TypeInv == TypeOK /\ Phase /\ IsInjective(services)

\* Containers are in services until a rule takes them.
Untaken ==
  \A s \in Services :
    /\ s \in Cores(services) <=> s \in Cores(Order) \ EveryHost /\ takenBy[s] = 0
    /\ takenBy[s] # 0 => s \in Cores(Order) \ EveryHost

\* No rule before the one that took a container matches it, and no rule so far matches
\* one that is still there.
FirstOf(s) ==
  /\ takenBy[s] <= rule /\ (pc \in {"rule", "done"} => takenBy[s] < rule)
  /\ takenBy[s] # 0 =>
       /\ MatchedBy(takenBy[s], s) /\ host[s] = rules[takenBy[s]].host
       /\ \A q \in 1 .. takenBy[s] - 1 : ~ MatchedBy(q, s)
  /\ s \in Cores(services) =>
       /\ \A q \in 1 .. rule - 1 : ~ MatchedBy(q, s)
       /\ pc = "assign" => ~ MatchedBy(rule, s)
       /\ pc = "done" /\ rules # <<>> /\ ~matchHost => host[s] = Primary

Searched == pc = "match" => \A j \in 1 .. next - 1 : ~ MatchedBy(rule, services[j])

FirstInv == (\A s \in Services : FirstOf(s)) /\ Searched

\* What AssignCpuset has gathered about the containers of the rule.
Gathered ==
  /\ pc \in {"match", "assign"} =>
       /\ IsInjective(group) /\ Cores(group) \subseteq Taken(rule)
       /\ IsFiniteSet(Requests(Taken(rule)))
       /\ wantDedicated = Cardinality(Requests(Taken(rule)))
       /\ wantShared <=> \E s \in Taken(rule) : cpus[s] = 0
       /\ Cores(group) \cap warned = {}
  /\ pc = "match" => Cores(group) = Taken(rule) /\ avail = Rule.cpuset
  /\ \A s \in warned : takenBy[s] # 0

SharedOf(r) == SubSeq(rules[r].cpuset, 1, Smaller(2, Len(rules[r].cpuset)))

HasCores(r, s) ==
  /\ cpuset[s] # <<>>
  /\ Cores(cpuset[s]) \subseteq Cores(rules[r].cpuset)
  /\ IF Dedicated(s) THEN Len(cpuset[s]) = cpus[s] ELSE cpuset[s] = SharedOf(r)

Apart(S) ==
  \A s, t \in S : s # t /\ Dedicated(s) => Cores(cpuset[s]) \cap Cores(cpuset[t]) = {}

DistinctCores == \A i \in Inputs : \A r \in DOMAIN i.rules : IsInjective(i.rules[r].cpuset)

\* A rule with a cpuset that is through.
Through(r) ==
  /\ \A s \in Taken(r) : HasCores(r, s)
  /\ DistinctCores => Apart(Taken(r))
  /\ (\A s \in Taken(r) : cpus[s] > 0) /\ Cardinality(Requests(Taken(r))) <= Len(rules[r].cpuset)
       => Taken(r) \cap warned = {}

Given == Taken(rule) \ Cores(group)

\* The cores last for all that are left, and nobody needs shared ones.
Plenty ==
  /\ shared = <<>> /\ ~ wantShared /\ Taken(rule) \cap warned = {}
  /\ Cardinality(Requests(Cores(group))) <= Len(avail)

Sharing ==
  pc = "assign" =>
    /\ \A s \in Given : HasCores(rule, s)
    /\ \A s \in Given \cap warned : cpus[s] > Len(avail)
    /\ Cores(avail) \cup Cores(shared) \subseteq Cores(Rule.cpuset)
    /\ shared = SharedOf(rule) \/ Plenty
    /\ ~ wantShared /\ wantDedicated <= Len(Rule.cpuset) => Plenty
    /\ DistinctCores =>
         /\ Apart(Given)
         /\ IsInjective(avail)
         /\ Cores(avail) \cap Cores(shared) = {}
         /\ \A s \in Given : Dedicated(s) =>
              Cores(cpuset[s]) \cap (Cores(avail) \cup Cores(shared)) = {}

CpuInv ==
  /\ Gathered /\ Sharing
  /\ \A r \in 1 .. rule - 1 : rules[r].cpuset # <<>> => Through(r)

IInv == TypeInv /\ Untaken /\ FirstInv /\ CpuInv
-----------------------------------------------------------------------------
(* Lists without duplicates, and the sets of their elements.                 *)

\* What RemoveAt, SubSeq, Tail and Append make of q.
IsRemoved(t, q, U, k) ==
  /\ t \in Seq(U) /\ Len(t) = Len(q) - 1
  /\ \A i \in 1 .. k - 1 : t[i] = q[i]
  /\ IsInjective(t) /\ Cores(t) = Cores(q) \ {q[k]}

IsSplit(p, t, q, U, n) ==
  /\ p \in Seq(U) /\ t \in Seq(U) /\ Len(p) = n /\ Len(t) = Len(q) - n
  /\ Cores(p) \cup Cores(t) \subseteq Cores(q)
  /\ IsInjective(q) => IsInjective(p) /\ IsInjective(t) /\ Cores(p) \cap Cores(t) = {}

IsRest(t, q, U) ==
  /\ t \in Seq(U) /\ Head(q) \in Cores(q) /\ Head(q) \in U
  /\ IsInjective(t) /\ Cores(t) = Cores(q) \ {Head(q)}

IsLonger(t, q, U, e) ==
  t \in Seq(U) /\ IsInjective(t) /\ Cores(t) = Cores(q) \cup {e}

LEMMA RemoveFacts ==
  ASSUME NEW U, NEW q \in Seq(U), IsInjective(q), NEW k \in 1 .. Len(q)
  PROVE  IsRemoved(RemoveAt(q, k), q, U, k)
<1> DEFINE n == Len(q)
           t == RemoveAt(q, k)
<1>1. n \in Nat /\ k \in Nat /\ DOMAIN q = 1 .. n /\ \A i \in 1 .. n : q[i] \in U
  OBVIOUS
<1>2. \A i, j \in DOMAIN q : q[i] = q[j] => i = j
  BY DEF IsInjective
<1> DEFINE a == SubSeq(q, 1, k - 1)
           b == SubSeq(q, k + 1, n)
<1>3. a \in Seq(U) /\ Len(a) = k - 1 /\ \A i \in 1 .. k - 1 : a[i] = q[i]
  BY <1>1
<1>4. b \in Seq(U) /\ Len(b) = n - k /\ \A i \in 1 .. n - k : b[i] = q[k + i]
  <2>1. \A i \in k + 1 .. n : q[i] \in U
    BY <1>1
  <2> HIDE DEF n
  <2>2. /\ b \in Seq(U)
        /\ Len(b) = IF k + 1 <= n THEN n - (k + 1) + 1 ELSE 0
        /\ \A i \in 1 .. n - (k + 1) + 1 : b[i] = q[k + 1 + i - 1]
    BY <1>1, <2>1, SubSeqProperties
  <2>3. k <= n
    BY DEF n
  <2>4. \A i \in 1 .. n - k : i \in 1 .. n - (k + 1) + 1 /\ k + 1 + i - 1 = k + i
    BY <1>1
  <2> HIDE DEF b
  <2> QED
    BY <1>1, <2>2, <2>3, <2>4
<1>5. t = a \o b
  BY DEF RemoveAt
<1> HIDE DEF a, b, t
<1>6. k <= n /\ k >= 1
  OBVIOUS
<1> HIDE DEF n
<1>7. /\ t \in Seq(U) /\ Len(t) = n - 1
      /\ \A i \in 1 .. n - 1 : t[i] = IF i < k THEN q[i] ELSE q[i + 1]
  <2>1. /\ t \in Seq(U) /\ Len(t) = (k - 1) + (n - k)
        /\ \A i \in 1 .. (k - 1) + (n - k) : t[i] = IF i <= k - 1 THEN a[i] ELSE b[i - (k - 1)]
    BY <1>3, <1>4, <1>5, ConcatProperties
  <2>2. ASSUME NEW i \in 1 .. n - 1
        PROVE  t[i] = IF i < k THEN q[i] ELSE q[i + 1]
    <3>1. t[i] = IF i <= k - 1 THEN a[i] ELSE b[i - (k - 1)]
      BY <1>1, <2>1
    <3>2. CASE i < k
      BY <1>1, <1>3, <3>1, <3>2
    <3>3. CASE ~ (i < k)
      <4>1. i - (k - 1) \in 1 .. n - k /\ k + (i - (k - 1)) = i + 1
        BY <1>1, <1>6, <3>3
      <4> QED
        BY <1>1, <1>4, <3>1, <3>3, <4>1
    <3> QED
      BY <3>2, <3>3
  <2> QED
    BY <1>1, <2>1, <2>2
<1> DEFINE at(i) == IF i < k THEN i ELSE i + 1
<1>8. DOMAIN t = 1 .. n - 1
  BY <1>1, <1>7
<1>9. \A i \in 1 .. n - 1 : at(i) \in 1 .. n /\ at(i) # k /\ t[i] = q[at(i)]
  BY <1>1, <1>6, <1>7
<1>10. \A i, j \in 1 .. n - 1 : at(i) = at(j) => i = j
  BY <1>1, <1>6
<1>11. \A i \in 1 .. k - 1 : t[i] = q[i]
  BY <1>1, <1>6, <1>7
<1>12. ASSUME NEW i \in 1 .. n, i # k
       PROVE  \E j \in 1 .. n - 1 : t[j] = q[i]
  <2>1. CASE i < k
    <3>1. i \in 1 .. n - 1 /\ t[i] = q[i]
      BY <1>1, <1>6, <1>7, <2>1
    <3> QED
      BY <3>1
  <2>2. CASE i > k
    <3>1. i - 1 \in 1 .. n - 1 /\ ~ (i - 1 < k) /\ i - 1 + 1 = i
      BY <1>1, <1>6, <2>2
    <3>2. t[i - 1] = q[i]
      BY <1>1, <1>7, <3>1
    <3> QED
      BY <3>1, <3>2
  <2> QED
    BY <1>1, <1>12, <2>1, <2>2
<1> HIDE DEF at
<1>13. k \in 1 .. n
  BY <1>1, <1>6
<1>14. IsInjective(t)
  BY <1>1, <1>2, <1>8, <1>9, <1>10 DEF IsInjective
<1>15. Cores(t) = Cores(q) \ {q[k]}
  <2>1. \A i \in DOMAIN t : t[i] \in Cores(q) /\ t[i] # q[k]
    BY <1>1, <1>2, <1>8, <1>9, <1>13 DEF Cores
  <2>2. \A i \in DOMAIN q : q[i] # q[k] => q[i] \in Cores(t)
    BY <1>1, <1>8, <1>12 DEF Cores
  <2> QED
    BY <2>1, <2>2 DEF Cores
<1>16. t \in Seq(U) /\ Len(t) = Len(q) - 1
  BY <1>7 DEF n
<1>17. IsRemoved(t, q, U, k)
  BY <1>11, <1>14, <1>15, <1>16, Zenon DEF IsRemoved
<1> QED
  BY <1>17, Zenon DEF t

LEMMA SplitFacts ==
  ASSUME NEW U, NEW q \in Seq(U), NEW n \in 0 .. Len(q)
  PROVE  IsSplit(SubSeq(q, 1, n), SubSeq(q, n + 1, Len(q)), q, U, n)
<1> DEFINE p == SubSeq(q, 1, n)
           t == SubSeq(q, n + 1, Len(q))
<1>1. /\ Len(q) \in Nat /\ n \in Nat /\ n <= Len(q)
      /\ DOMAIN q = 1 .. Len(q) /\ \A i \in 1 .. Len(q) : q[i] \in U
  OBVIOUS
<1>2. p \in Seq(U) /\ Len(p) = n /\ DOMAIN p = 1 .. n /\ \A i \in 1 .. n : p[i] = q[i]
  BY <1>1
<1>3. /\ t \in Seq(U) /\ Len(t) = Len(q) - n /\ DOMAIN t = 1 .. Len(q) - n
      /\ \A i \in 1 .. Len(q) - n : t[i] = q[n + i]
  <2> DEFINE m == Len(q)
  <2>1. \A i \in n + 1 .. m : q[i] \in U
    BY <1>1
  <2>2. m \in Nat /\ n \in Nat /\ n <= m
    BY <1>1
  <2> HIDE DEF m
  <2>3. /\ SubSeq(q, n + 1, m) \in Seq(U)
        /\ Len(SubSeq(q, n + 1, m)) = IF n + 1 <= m THEN m - (n + 1) + 1 ELSE 0
        /\ \A i \in 1 .. m - (n + 1) + 1 : SubSeq(q, n + 1, m)[i] = q[n + 1 + i - 1]
    BY <2>1, <2>2, SubSeqProperties
  <2>4. t = SubSeq(q, n + 1, m)
    BY DEF m
  <2> HIDE DEF t
  <2>5. \A i \in 1 .. m - n : i \in 1 .. m - (n + 1) + 1 /\ n + 1 + i - 1 = n + i
    BY <2>2
  <2>6. t \in Seq(U) /\ Len(t) = m - n /\ \A i \in 1 .. m - n : t[i] = q[n + i]
    BY <2>2, <2>3, <2>4, <2>5
  <2> QED
    BY <2>2, <2>6 DEF m
<1> HIDE DEF p, t
<1>4. Cores(p) \cup Cores(t) \subseteq Cores(q)
  <2>1. \A i \in DOMAIN p : i \in DOMAIN q
    BY <1>1, <1>2
  <2>2. \A i \in DOMAIN t : n + i \in DOMAIN q
    BY <1>1, <1>3
  <2> QED
    BY <1>2, <1>3, <2>1, <2>2 DEF Cores
<1>5. ASSUME IsInjective(q)
      PROVE  IsInjective(p) /\ IsInjective(t) /\ Cores(p) \cap Cores(t) = {}
  <2>1. \A i, j \in 1 .. Len(q) : q[i] = q[j] => i = j
    BY <1>1, <1>5 DEF IsInjective
  <2>2. IsInjective(p)
    BY <1>1, <1>2, <2>1 DEF IsInjective
  <2>3. IsInjective(t)
    <3> SUFFICES ASSUME NEW i \in 1 .. Len(q) - n, NEW j \in 1 .. Len(q) - n, t[i] = t[j]
                 PROVE  i = j
      BY <1>3 DEF IsInjective
    <3>1. n + i \in 1 .. Len(q) /\ n + j \in 1 .. Len(q)
      BY <1>1
    <3>2. n + i = n + j
      BY <1>3, <2>1, <3>1
    <3> QED
      BY <1>1, <3>2
  <2>4. ASSUME NEW i \in 1 .. n, NEW j \in 1 .. Len(q) - n
        PROVE  p[i] # t[j]
    <3>1. i \in 1 .. Len(q) /\ n + j \in 1 .. Len(q) /\ i # n + j
      BY <1>1
    <3> QED
      BY <1>2, <1>3, <2>1, <3>1
  <2> QED
    BY <1>2, <1>3, <2>2, <2>3, <2>4 DEF Cores
<1> QED
  BY <1>2, <1>3, <1>4, <1>5 DEF IsSplit, p, t

LEMMA RestFacts ==
  ASSUME NEW U, NEW q \in Seq(U), q # <<>>, IsInjective(q)
  PROVE  IsRest(Tail(q), q, U)
<1> DEFINE t == Tail(q)
<1>1. /\ Len(q) \in Nat /\ Len(q) > 0 /\ DOMAIN q = 1 .. Len(q)
      /\ Head(q) = q[1] /\ q[1] \in U
  OBVIOUS
<1>2. /\ t \in Seq(U) /\ DOMAIN t = 1 .. Len(q) - 1
      /\ \A i \in 1 .. Len(q) - 1 : t[i] = q[i + 1]
  OBVIOUS
<1>3. \A i, j \in 1 .. Len(q) : q[i] = q[j] => i = j
  BY <1>1 DEF IsInjective
<1> HIDE DEF t
<1>4. IsInjective(t)
  <2> SUFFICES ASSUME NEW i \in 1 .. Len(q) - 1, NEW j \in 1 .. Len(q) - 1, t[i] = t[j]
               PROVE  i = j
    BY <1>2 DEF IsInjective
  <2>1. i + 1 \in 1 .. Len(q) /\ j + 1 \in 1 .. Len(q)
    BY <1>1
  <2>2. i + 1 = j + 1
    BY <1>2, <1>3, <2>1
  <2> QED
    BY <2>2
<1>5. Cores(t) \subseteq Cores(q) \ {q[1]}
  BY <1>1, <1>2, <1>3 DEF Cores
<1>6. ASSUME NEW i \in 1 .. Len(q), i # 1
      PROVE  q[i] \in Cores(t)
  <2>1. i - 1 \in DOMAIN t /\ t[i - 1] = q[i]
    BY <1>1, <1>2, <1>6
  <2> QED
    BY <2>1 DEF Cores
<1>7. Cores(q) \ {q[1]} \subseteq Cores(t)
  BY <1>1, <1>6 DEF Cores
<1>8. q[1] \in Cores(q)
  BY <1>1 DEF Cores
<1> QED
  BY <1>1, <1>2, <1>4, <1>5, <1>7, <1>8 DEF IsRest, t

LEMMA LongerFacts ==
  ASSUME NEW U, NEW q \in Seq(U), IsInjective(q), NEW e \in U, e \notin Cores(q)
  PROVE  IsLonger(Append(q, e), q, U, e)
<1> DEFINE t == Append(q, e)
<1>1. Len(q) \in Nat /\ DOMAIN q = 1 .. Len(q)
  OBVIOUS
<1>2. /\ t \in Seq(U) /\ DOMAIN t = 1 .. Len(q) + 1 /\ t[Len(q) + 1] = e
      /\ \A i \in 1 .. Len(q) : t[i] = q[i]
  OBVIOUS
<1>3. \A i, j \in 1 .. Len(q) : q[i] = q[j] => i = j
  BY <1>1 DEF IsInjective
<1>4. \A i \in 1 .. Len(q) : q[i] # e
  BY <1>1 DEF Cores
<1> HIDE DEF t
<1>5. \A i \in DOMAIN t : i \in 1 .. Len(q) \/ i = Len(q) + 1
  BY <1>1, <1>2
<1>6. IsInjective(t)
  BY <1>2, <1>3, <1>4, <1>5 DEF IsInjective
<1>7. Len(q) + 1 \in DOMAIN t /\ \A i \in 1 .. Len(q) : i \in DOMAIN t
  BY <1>1, <1>2
<1>8. Cores(t) = Cores(q) \cup {e}
  BY <1>1, <1>2, <1>5, <1>7 DEF Cores
<1> QED
  BY <1>2, <1>6, <1>8 DEF IsLonger, t

\* What one more container asks for.
LEMMA RequestsAdd ==
  ASSUME NEW S, NEW s, s \notin S, cpus[s] \in Nat, IsFiniteSet(Requests(S))
  PROVE  /\ IsFiniteSet(Requests(S \cup {s}))
         /\ Cardinality(Requests(S \cup {s})) = Cardinality(Requests(S)) + cpus[s]
<1> DEFINE I == 1 .. cpus[s]
           N == {s} \X I
<1>1. IsFiniteSet(I) /\ Cardinality(I) = cpus[s]
  <2>1. 1 \in Int /\ cpus[s] \in Int
    OBVIOUS
  <2>2. /\ IsFiniteSet(1 .. cpus[s])
        /\ Cardinality(1 .. cpus[s]) = IF 1 > cpus[s] THEN 0 ELSE cpus[s] - 1 + 1
    BY <2>1, FS_Interval
  <2> QED
    BY <2>2
<1>2. IsFiniteSet({s}) /\ Cardinality({s}) = 1
  BY FS_Singleton
<1> HIDE DEF I
<1>3. IsFiniteSet(N) /\ Cardinality(N) = cpus[s]
  <2>1. IsFiniteSet({s} \X I) /\ Cardinality({s} \X I) = Cardinality({s}) * Cardinality(I)
    BY <1>1, <1>2, FS_Product
  <2> QED
    BY <1>1, <1>2, <2>1
<1>4. Requests(S \cup {s}) = Requests(S) \cup N
  BY DEF Requests, I
<1>5. Requests(S) \cap N = {}
  BY DEF Requests
<1> HIDE DEF N
<1>6. Cardinality(Requests(S)) \in Nat
  BY FS_CardinalityType
<1>7. /\ IsFiniteSet(Requests(S) \cup N)
      /\ Cardinality(Requests(S) \cup N) =
           Cardinality(Requests(S)) + Cardinality(N) - Cardinality(Requests(S) \cap N)
  BY <1>3, FS_Union
<1>8. Cardinality(Requests(S) \cap N) = 0
  BY <1>5, FS_EmptySet
<1>9. Cardinality(Requests(S) \cup N) = Cardinality(Requests(S)) + cpus[s]
  BY <1>3, <1>6, <1>7, <1>8
<1> QED
  BY <1>4, <1>7, <1>9, Zenon

LEMMA NoRequests == Requests({}) = {}
BY DEF Requests
-----------------------------------------------------------------------------
(* The invariant, action by action.                                          *)

LEMMA CountsNat == CpuCounts \subseteq Nat
BY RulesAssumption

\* The rules of an input are lists of records.
LEMMA RulesFacts ==
  ASSUME rules \in RuleLists
  PROVE  /\ Len(rules) \in Nat /\ DOMAIN rules = 1 .. Len(rules)
         /\ \A r \in 1 .. Len(rules) :
              /\ rules[r].match \subseteq Services
              /\ rules[r].host \in Hosts \cup {Primary}
              /\ rules[r].cpuset \in Seq(Nat)
<1> DEFINE T == [match : SUBSET Services, host : Hosts \cup {Primary}, cpuset : Seq(Nat)]
<1>1. rules \in Seq(T)
  BY RulesAssumption DEF RuleLists
<1> HIDE DEF T
<1>2. \A r \in 1 .. Len(rules) : rules[r] \in T
  BY <1>1
<1>3. Len(rules) \in Nat /\ DOMAIN rules = 1 .. Len(rules)
  BY <1>1
<1> QED
  BY <1>2, <1>3 DEF T

\* The containers that the rules are about.
LEMMA PlaceableFacts ==
  /\ Placeable \in Seq(Services \ EveryHost)
  /\ IsInjective(Placeable)
  /\ Cores(Placeable) = Cores(Order) \ EveryHost
<1> DEFINE S == Services \ EveryHost
           q == Placeable
<1>1. IsKept(q, Order, Services, S)
  BY NamesAssumption, KeptFacts DEF Placeable
<1> HIDE DEF q
<1>2. Services \cap S = S
  OBVIOUS
<1>3. q \in Seq(S)
  BY <1>1, <1>2 DEF IsKept
<1>4. /\ DOMAIN q \subseteq Nat /\ \A i \in DOMAIN q : q[i] \in S
      /\ \A i \in DOMAIN Order : Order[i] \in Services
  BY <1>3, NamesAssumption
<1>5. ASSUME NEW i \in DOMAIN q, NEW j \in DOMAIN q, i < j
      PROVE  q[i] # q[j]
  <2>1. PICK a, b \in DOMAIN Order : a < b /\ q[i] = Order[a] /\ q[j] = Order[b]
    BY <1>1, <1>5 DEF IsKept
  <2>2. \A c, d \in DOMAIN Order : Order[c] = Order[d] => c = d
    BY NamesAssumption DEF IsInjective
  <2>3. DOMAIN Order \subseteq Nat
    BY NamesAssumption
  <2> QED
    BY <2>1, <2>2, <2>3
<1>6. \A i, j \in DOMAIN q : q[i] = q[j] => i = j
  BY <1>4, <1>5
<1>7. \A i \in DOMAIN q : \E a \in DOMAIN Order : q[i] = Order[a]
  BY <1>1 DEF IsKept
<1>8. \A i \in DOMAIN Order : Order[i] \in S => \E j \in DOMAIN q : q[j] = Order[i]
  BY <1>1 DEF IsKept
<1>9. Cores(q) \subseteq Cores(Order) \ EveryHost
  BY <1>4, <1>7 DEF Cores
<1>10. Cores(Order) \ EveryHost \subseteq Cores(q)
  BY <1>4, <1>8 DEF Cores
<1>11. IsInjective(q)
  BY <1>6 DEF IsInjective
<1> QED
  BY <1>3, <1>9, <1>10, <1>11 DEF q

LEMMA TypeInit == Init => TypeInv
<1> SUFFICES ASSUME Init PROVE TypeInv
  OBVIOUS
<1>1. PICK i \in Inputs : rules = i.rules /\ matchHost = i.matchHost /\ host = i.host
  BY DEF Init
<1>2. /\ rules \in RuleLists /\ matchHost \in BOOLEAN
      /\ host \in [Services -> Hosts \cup {Primary, NoHost}]
  BY <1>1, RulesAssumption DEF RuleLists
<1>3. Len(rules) \in Nat /\ (rules = <<>> => Len(rules) = 0)
  BY <1>2, RulesFacts
<1>4. services \in Seq(Services \ EveryHost) /\ IsInjective(services)
  BY PlaceableFacts DEF Init
<1>5. next \in 1 .. Len(services) + 1 /\ rule \in 1 .. Len(rules) + 1
  BY <1>3, <1>4 DEF Init
<1>6. cpuset \in [Services -> Seq(Nat)] /\ takenBy \in [Services -> 0 .. Len(rules)]
  BY <1>3 DEF Init
<1>7. wantShared \in BOOLEAN
  BY Zenon DEF Init
<1>8. /\ cpus \in [Services -> CpuCounts] /\ pc \in {"rule", "done"} /\ group = <<>>
      /\ wantDedicated = 0 /\ avail = <<>> /\ shared = <<>> /\ warned = {}
  BY DEF Init
<1>9. TypeOK
  BY <1>2, <1>4, <1>5, <1>6, <1>7, <1>8 DEF TypeOK
<1>10. Phase
  BY <1>3 DEF Init, Phase, Rule
<1> QED
  BY <1>4, <1>9, <1>10 DEF TypeInv

LEMMA TypeNext == TypeInv /\ [Next]_vars => TypeInv'
<1> SUFFICES ASSUME TypeInv, [Next]_vars PROVE TypeInv'
  OBVIOUS
<1> USE DEF TypeInv
<1>1. /\ Len(rules) \in Nat
      /\ \A r \in 1 .. Len(rules) :
           rules[r].host \in Hosts \cup {Primary} /\ rules[r].cpuset \in Seq(Nat)
  BY RulesFacts DEF TypeOK
<1>2. Len(services) \in Nat /\ \A i \in 1 .. Len(services) : services[i] \in Services \ EveryHost
  BY DEF TypeOK
<1>3. CASE BeginRule
  <2>1. Rule.cpuset \in Seq(Nat) /\ 1 \in 1 .. Len(services) + 1
    BY <1>1, <1>2, <1>3 DEF BeginRule, TypeOK, Rule
  <2>2. wantShared' \in BOOLEAN
    BY <1>3, Zenon DEF BeginRule
  <2>3. /\ pc' = "match" /\ next' = 1 /\ group' = <<>> /\ wantDedicated' = 0
        /\ avail' = Rule.cpuset /\ shared' = <<>>
        /\ UNCHANGED <<cpus, opts, rule, services, host, cpuset, warned, takenBy>>
    BY <1>3 DEF BeginRule
  <2>4. TypeOK'
    BY <2>1, <2>2, <2>3 DEF TypeOK, opts
  <2>5. Phase'
    BY <1>3 DEF BeginRule, Phase, opts, Rule
  <2> QED
    BY <2>3, <2>4, <2>5
<1>4. CASE MatchService
  <2> DEFINE s == services[next]
  <2>1. next \in 1 .. Len(services) /\ s \in Services \ EveryHost /\ rule \in 1 .. Len(rules)
    <3>1. pc = "match" /\ next <= Len(services)
      BY <1>4 DEF MatchService
    <3> QED
      BY <1>1, <1>2, <3>1 DEF Phase, TypeOK
  <2>2. Phase'
    BY <1>4 DEF MatchService, Phase, opts, Rule
  <2>3. CASE ~ Matches(s)
    <3>1. /\ next' = next + 1
          /\ UNCHANGED <<cpus, opts, pc, rule, services, group, wants, avail, shared, host,
                         cpuset, warned, takenBy>>
      BY SMTT(20), <1>4, <2>3 DEF MatchService
    <3>2. TypeOK'
      BY <1>2, <2>1, <3>1 DEF TypeOK, opts, wants
    <3> QED
      BY <2>2, <3>1, <3>2
  <2>4. CASE Matches(s)
    <3>1. /\ services' = RemoveAt(services, next)
          /\ host' = [host EXCEPT ![s] = Rule.host]
          /\ takenBy' = [takenBy EXCEPT ![s] = rule]
          /\ group' = Append(group, s)
          /\ wantDedicated' = wantDedicated + cpus[s]
          /\ UNCHANGED <<cpus, opts, pc, rule, next, avail, shared, cpuset, warned>>
      BY <1>4, <2>4 DEF MatchService
    <3> HIDE DEF s
    <3>2. IsRemoved(RemoveAt(services, next), services, Services \ EveryHost, next)
      BY <2>1, RemoveFacts DEF TypeOK
    <3>3. /\ services' \in Seq(Services \ EveryHost) /\ IsInjective(services')
          /\ Len(services') = Len(services) - 1
      BY <3>1, <3>2 DEF IsRemoved
    <3>4. cpus[s] \in Nat
      BY <2>1, CountsNat DEF TypeOK
    <3>5. /\ next' \in 1 .. Len(services') + 1 /\ wantDedicated' \in Nat
          /\ group' \in Seq(Services \ EveryHost)
      <4>1. wantDedicated \in Nat /\ group \in Seq(Services \ EveryHost)
        BY DEF TypeOK
      <4>2. next' = next /\ group' = Append(group, s) /\ wantDedicated' = wantDedicated + cpus[s]
        BY <3>1
      <4>3. group' \in Seq(Services \ EveryHost)
        BY <2>1, <4>1, <4>2, AppendProperties
      <4>4. next' \in 1 .. Len(services') + 1
        BY <1>2, <2>1, <3>3, <4>2
      <4> QED
        BY <3>4, <4>1, <4>2, <4>3, <4>4
    <3>6. /\ host' \in [Services -> Hosts \cup {Primary, NoHost}]
          /\ takenBy' \in [Services -> 0 .. Len(rules)]
      <4>1. /\ host \in [Services -> Hosts \cup {Primary, NoHost}]
            /\ takenBy \in [Services -> 0 .. Len(rules)]
        BY DEF TypeOK
      <4>2. Rule.host \in Hosts \cup {Primary}
        BY <1>1, <2>1 DEF Rule
      <4>3. host' = [host EXCEPT ![s] = Rule.host] /\ takenBy' = [takenBy EXCEPT ![s] = rule]
        BY <3>1
      <4>4. rule \in 0 .. Len(rules)
        BY <1>1, <2>1
      <4> QED
        BY <2>1, <4>1, <4>2, <4>3, <4>4
    <3>7. wantShared' \in BOOLEAN
      <4>1. wantShared' = (wantShared \/ cpus[s] = 0)
        BY <1>4, <2>4, Zenon DEF MatchService, s
      <4> QED
        BY <4>1, Zenon
    <3>8. TypeOK'
      BY <3>1, <3>3, <3>5, <3>6, <3>7 DEF TypeOK, opts
    <3> QED
      BY <2>2, <3>3, <3>8
  <2> QED
    BY <2>3, <2>4
<1>5. CASE Update
  <2>1. UNCHANGED <<cpus, opts, services, next, group, wants, host, cpuset, warned, takenBy>>
    BY <1>5 DEF Update
  <2>2. rule \in 1 .. Len(rules)
    BY <1>1, <1>5 DEF Update, TypeOK, Phase
  <2>3. CASE Rule.cpuset = <<>>
    <3>1. pc' = "rule" /\ rule' = rule + 1 /\ UNCHANGED <<avail, shared>>
      BY <1>5, <2>3 DEF Update
    <3>2. rule' \in 1 .. Len(rules) + 1
      BY <1>1, <2>2, <3>1
    <3> QED
      BY <2>1, <3>1, <3>2 DEF TypeOK, Phase, opts, wants
  <2>4. CASE Rule.cpuset # <<>>
    <3> DEFINE n == IF NeedShared THEN Smaller(2, Len(avail)) ELSE 0
    <3>1. pc' = "assign" /\ UNCHANGED rule /\ shared' = SubSeq(avail, 1, n)
          /\ avail' = SubSeq(avail, n + 1, Len(avail))
      BY <1>5, <2>4 DEF Update
    <3>2. n \in 0 .. Len(avail)
      BY DEF TypeOK, Smaller
    <3> HIDE DEF n
    <3>3. IsSplit(SubSeq(avail, 1, n), SubSeq(avail, n + 1, Len(avail)), avail, Nat, n)
      BY <3>2, SplitFacts DEF TypeOK
    <3>4. shared' \in Seq(Nat) /\ avail' \in Seq(Nat)
      BY <3>1, <3>3 DEF IsSplit
    <3>5. TypeOK'
      BY <2>1, <3>1, <3>4 DEF TypeOK, opts, wants
    <3>6. Phase'
      BY <1>1, <2>1, <2>2, <2>4, <3>1 DEF Phase, opts, Rule
    <3> QED
      BY <2>1, <3>5, <3>6
  <2> QED
    BY <2>3, <2>4
<1>6. CASE AssignService
  <2> DEFINE s == Head(group)
             n == cpus[s]
  <2>1. /\ UNCHANGED <<cpus, opts, pc, rule, services, next, wants, shared, host, takenBy>>
        /\ group' = Tail(group)
    BY <1>6 DEF AssignService
  <2>2. s \in Services /\ group' \in Seq(Services \ EveryHost)
    BY <1>6, <2>1 DEF AssignService, TypeOK
  <2>3. n \in Nat
    BY <2>2, CountsNat DEF TypeOK
  <2>4. /\ avail' \in Seq(Nat) /\ cpuset' \in [Services -> Seq(Nat)] /\ warned' \subseteq Services
    <3>1. CASE n = 0 \/ Short(n)
      BY <1>6, <2>2, <3>1 DEF AssignService, TypeOK
    <3>2. CASE n # 0 /\ ~ Short(n)
      <4>1. /\ cpuset' = [cpuset EXCEPT ![s] = SubSeq(avail, 1, n)]
            /\ avail' = SubSeq(avail, n + 1, Len(avail)) /\ UNCHANGED warned
        BY <1>6, <3>2 DEF AssignService, Left
      <4>2. n \in 0 .. Len(avail)
        BY <2>3, <3>2 DEF Short, TypeOK
      <4> HIDE DEF n, s
      <4>3. IsSplit(SubSeq(avail, 1, n), SubSeq(avail, n + 1, Len(avail)), avail, Nat, n)
        BY <4>2, SplitFacts DEF TypeOK
      <4> QED
        BY <4>1, <4>3 DEF IsSplit, TypeOK
    <3> QED
      BY <3>1, <3>2
  <2>5. TypeOK'
    BY <2>1, <2>2, <2>4 DEF TypeOK, opts, wants
  <2>6. Phase'
    BY <2>1 DEF Phase, opts, Rule
  <2> QED
    BY <2>1, <2>5, <2>6
<1>7. CASE EndRule
  <2>1. rule' \in 1 .. Len(rules) + 1
    BY <1>1, <1>7 DEF EndRule, TypeOK, Phase
  <2>2. TypeOK'
    BY <1>7, <2>1 DEF EndRule, TypeOK, opts, wants
  <2>3. Phase'
    BY <1>7 DEF EndRule, Phase
  <2> QED
    BY <1>7, <2>2, <2>3 DEF EndRule
<1>8. CASE PlaceRest
  <2>1. host' \in [Services -> Hosts \cup {Primary, NoHost}]
    BY <1>8 DEF PlaceRest, Defaults, TypeOK
  <2>2. TypeOK'
    BY <1>8, <2>1 DEF PlaceRest, TypeOK, opts, wants
  <2>3. Phase'
    BY <1>1, <1>8 DEF PlaceRest, Phase, opts, TypeOK
  <2> QED
    BY <1>8, <2>2, <2>3 DEF PlaceRest
<1>9. CASE UNCHANGED vars
  BY <1>9 DEF vars, opts, wants, TypeOK, Phase, RuleLists, Rule
<1> QED
  BY <1>3, <1>4, <1>5, <1>6, <1>7, <1>8, <1>9 DEF Next

\* Every step of place() keeps the variables in their types.
THEOREM TypeCorrect == Spec => []TypeOK
<1>1. TypeInv => TypeOK
  BY DEF TypeInv
<1> QED
  BY <1>1, TypeInit, TypeNext, PTL DEF Spec
-----------------------------------------------------------------------------
(* The first rule that matches a container takes it.                         *)

\* A round of the loop that takes the container at hand.
Takes(s) ==
  /\ pc = "match" /\ next \in 1 .. Len(services) /\ s = services[next]
  /\ s \in Services /\ s \in Cores(services) /\ rule \in 1 .. Len(rules)
  /\ s \in Rule.match /\ (matchHost => host[s] = Rule.host)
  /\ IsRemoved(services', services, Services \ EveryHost, next)
  /\ host' = [host EXCEPT ![s] = Rule.host]
  /\ takenBy' = [takenBy EXCEPT ![s] = rule]
  /\ group' = Append(group, s)
  /\ wantDedicated' = wantDedicated + cpus[s]
  /\ UNCHANGED <<cpus, rules, matchHost, pc, rule, next, avail, shared, cpuset, warned>>

\* A round that leaves it.
Leaves(s) ==
  /\ pc = "match" /\ next \in 1 .. Len(services) /\ s = services[next]
  /\ ~ MatchedBy(rule, s)
  /\ next' = next + 1
  /\ UNCHANGED <<cpus, rules, matchHost, pc, rule, services, group, wantDedicated, avail,
                 shared, host, cpuset, warned, takenBy>>

LEMMA MatchCases ==
  ASSUME TypeInv, MatchService
  PROVE  Takes(services[next]) \/ Leaves(services[next])
<1> DEFINE s == services[next]
<1>1. /\ Len(rules) \in Nat /\ Len(services) \in Nat
      /\ DOMAIN services = 1 .. Len(services)
      /\ \A i \in 1 .. Len(services) : services[i] \in Services \ EveryHost
  BY RulesFacts DEF TypeOK, TypeInv
<1>2. pc = "match" /\ next <= Len(services)
  BY DEF MatchService
<1>3. next \in 1 .. Len(services) /\ s \in Services \ EveryHost /\ rule \in 1 .. Len(rules)
  BY <1>1, <1>2 DEF Phase, TypeOK, TypeInv
<1>4. s \in Cores(services)
  BY <1>1, <1>3 DEF Cores
<1>5. CASE Matches(s)
  <2>1. /\ services' = RemoveAt(services, next)
        /\ host' = [host EXCEPT ![s] = Rule.host]
        /\ takenBy' = [takenBy EXCEPT ![s] = rule]
        /\ group' = Append(group, s)
        /\ wantDedicated' = wantDedicated + cpus[s]
        /\ UNCHANGED <<cpus, rules, matchHost, pc, rule, next, avail, shared, cpuset, warned>>
    BY <1>5 DEF MatchService, opts
  <2>2. s \in Rule.match /\ (matchHost => host[s] = Rule.host)
    BY <1>5 DEF Matches
  <2> HIDE DEF s
  <2>3. IsRemoved(services', services, Services \ EveryHost, next)
    BY <1>3, <2>1, RemoveFacts DEF TypeInv, TypeOK
  <2>4. Takes(s)
    BY <1>2, <1>3, <1>4, <2>1, <2>2, <2>3 DEF Takes, s
  <2> QED
    BY <2>4 DEF s
<1>6. CASE ~ Matches(s)
  <2>1. /\ next' = next + 1
        /\ UNCHANGED <<cpus, rules, matchHost, pc, rule, services, group, wantDedicated, avail,
                       shared, host, cpuset, warned, takenBy>>
    BY <1>6 DEF MatchService, opts, wants
  <2>2. ~ MatchedBy(rule, s)
    BY <1>6 DEF Matches, MatchedBy, Rule
  <2> QED
    BY <1>2, <1>3, <2>1, <2>2 DEF Leaves
<1> QED
  BY <1>5, <1>6

LEMMA FirstInit == Init => Untaken /\ FirstInv
<1> SUFFICES ASSUME Init PROVE Untaken /\ FirstInv
  OBVIOUS
<1>1. Cores(services) = Cores(Order) \ EveryHost
  BY PlaceableFacts DEF Init
<1>2. takenBy = [s \in Services |-> 0] /\ rule = 1 /\ pc # "match" /\ pc # "assign"
      /\ (rules = <<>> \/ pc # "done")
  BY DEF Init
<1>3. Untaken
  BY <1>1, <1>2 DEF Untaken
<1>4. \A s \in Services : FirstOf(s)
  BY <1>2 DEF FirstOf
<1> QED
  BY <1>2, <1>3, <1>4 DEF FirstInv, Searched

LEMMA FirstNext == TypeInv /\ Untaken /\ FirstInv /\ [Next]_vars => (Untaken /\ FirstInv)'
<1> SUFFICES ASSUME TypeInv, Untaken, FirstInv, [Next]_vars
             PROVE  Untaken' /\ (\A s \in Services : FirstOf(s)') /\ Searched'
  BY DEF FirstInv
<1>1. /\ rule \in Nat /\ Len(rules) \in Nat /\ Len(services) \in Nat /\ next \in Nat
      /\ DOMAIN services = 1 .. Len(services)
      /\ takenBy \in [Services -> 0 .. Len(rules)]
      /\ host \in [Services -> Hosts \cup {Primary, NoHost}]
  BY RulesFacts DEF TypeInv, TypeOK
<1>2. \A s \in Services : FirstOf(s)
  BY DEF FirstInv
<1>3. ASSUME UNCHANGED <<services, takenBy>>
      PROVE  Untaken'
  BY <1>3 DEF Untaken, Cores
<1>4. CASE BeginRule
  <2>1. /\ pc = "rule" /\ pc' = "match" /\ next' = 1
        /\ UNCHANGED <<rules, matchHost, rule, services, host, takenBy>>
    BY <1>4 DEF BeginRule, opts
  <2>2. \A s \in Services : FirstOf(s)'
    BY <1>1, <1>2, <2>1 DEF FirstOf, MatchedBy, Cores
  <2> QED
    BY <1>3, <2>1, <2>2 DEF Searched
<1>5. CASE MatchService
  <2> DEFINE x == services[next]
  <2>1. CASE Takes(x)
    <3> HIDE DEF x
    <3> USE <2>1
    <3>1. /\ pc = "match" /\ next \in 1 .. Len(services) /\ x = services[next] /\ x \in Services
          /\ x \in Cores(services) /\ rule \in 1 .. Len(rules)
          /\ UNCHANGED <<rules, matchHost, pc, rule, next>>
      BY DEF Takes
    <3>2. /\ Cores(services') = Cores(services) \ {x} /\ services' \in Seq(Services \ EveryHost)
          /\ Len(services') = Len(services) - 1
          /\ \A i \in 1 .. next - 1 : services'[i] = services[i]
      BY <3>1 DEF Takes, IsRemoved
    <3>3. /\ takenBy'[x] = rule /\ host'[x] = Rule.host
          /\ \A s \in Services : s # x => takenBy'[s] = takenBy[s] /\ host'[s] = host[s]
          /\ matchHost => host'[x] = host[x]
      BY <1>1, <3>1 DEF Takes
    <3>4. Untaken'
      <4>1. Cores(services)' = Cores(services) \ {x}
        BY <3>2 DEF Cores
      <4>2. rule # 0
        BY <3>1
      <4> QED
        BY <3>1, <3>3, <4>1, <4>2 DEF Untaken
    <3>5. \A q, s : s \in Services => (MatchedBy(q, s)' <=> MatchedBy(q, s))
      BY <3>1, <3>3 DEF MatchedBy
    <3>6. ASSUME NEW s \in Services
          PROVE  FirstOf(s)'
      <4>1. CASE s # x
        BY <1>2, <3>1, <3>2, <3>3, <3>5, <4>1 DEF FirstOf, Cores
      <4>2. CASE s = x
        <5>1. MatchedBy(rule, x) /\ Rule = rules[rule]
          BY DEF Takes, MatchedBy, Rule
        <5>2. \A q \in 1 .. rule - 1 : ~ MatchedBy(q, x)
          BY <1>2, <3>1 DEF FirstOf
        <5>3. x \notin Cores(services)'
          BY <3>2 DEF Cores
        <5> QED
          BY <3>1, <3>3, <3>5, <4>2, <5>1, <5>2, <5>3 DEF FirstOf
      <4> QED
        BY <4>1, <4>2
    <3>7. Searched'
      <4>1. \A j \in 1 .. next - 1 : services[j] \in Services /\ ~ MatchedBy(rule, services[j])
        BY <1>1, <3>1 DEF FirstInv, Searched, TypeInv, TypeOK
      <4> QED
        BY <3>1, <3>2, <3>5, <4>1 DEF Searched
    <3> QED
      BY <3>4, <3>6, <3>7
  <2>2. CASE Leaves(x)
    <3>1. /\ UNCHANGED <<rules, matchHost, pc, rule, services, host, takenBy>>
          /\ pc = "match" /\ next' = next + 1 /\ ~ MatchedBy(rule, services[next])
      BY <2>2 DEF Leaves
    <3>2. \A s \in Services : FirstOf(s)'
      BY <1>2, <3>1 DEF FirstOf, MatchedBy, Cores
    <3>3. \A j \in 1 .. next : j \in 1 .. next - 1 \/ j = next
      BY <1>1
    <3>4. next' - 1 = next
      BY <1>1, <3>1
    <3>5. \A j \in 1 .. next : ~ MatchedBy(rule, services[j])
      BY <3>1, <3>3 DEF FirstInv, Searched
    <3>6. Searched'
      BY <3>1, <3>4, <3>5 DEF Searched, MatchedBy
    <3> QED
      BY <1>3, <3>1, <3>2, <3>6
  <2> QED
    BY <1>5, <2>1, <2>2, MatchCases
<1>6. CASE Update
  <2>1. /\ UNCHANGED <<rules, matchHost, services, next, host, takenBy>>
        /\ pc = "match" /\ next > Len(services)
        /\ \/ pc' = "rule" /\ rule' = rule + 1
           \/ pc' = "assign" /\ rule' = rule
    BY <1>6 DEF Update, opts
  <2>2. ASSUME NEW s \in Cores(services)
        PROVE  ~ MatchedBy(rule, s)
    <3>1. PICK j \in DOMAIN services : s = services[j]
      BY <2>2 DEF Cores
    <3>2. j \in 1 .. next - 1
      BY <1>1, <2>1
    <3> QED
      BY <2>1, <3>1, <3>2 DEF FirstInv, Searched
  <2>3. \A q \in 1 .. rule : q \in 1 .. rule - 1 \/ q = rule
    BY <1>1
  <2>4. \A s \in Cores(services) : s \in Services => \A q \in 1 .. rule : ~ MatchedBy(q, s)
    BY <1>2, <2>2, <2>3 DEF FirstOf
  <2>5. \A q, s : MatchedBy(q, s)' <=> MatchedBy(q, s)
    BY <2>1 DEF MatchedBy
  <2>6. Cores(services)' = Cores(services)
    BY <2>1 DEF Cores
  <2>7. ASSUME NEW s \in Services
        PROVE  FirstOf(s)'
    <3>1. FirstOf(s) /\ takenBy[s] \in Nat
      BY <1>1, <1>2
    <3>2. CASE pc' = "rule" /\ rule' = rule + 1
      BY <1>1, <2>1, <2>4, <2>5, <2>6, <3>1, <3>2 DEF FirstOf
    <3>3. CASE pc' = "assign" /\ rule' = rule
      BY <1>1, <2>1, <2>2, <2>5, <2>6, <3>1, <3>3 DEF FirstOf
    <3> QED
      BY <2>1, <3>2, <3>3
  <2> QED
    BY <1>3, <2>1, <2>7 DEF Searched
<1>7. CASE AssignService
  <2>1. UNCHANGED <<rules, matchHost, pc, rule, services, next, host, takenBy>>
        /\ pc = "assign"
    BY <1>7 DEF AssignService, opts
  <2>2. \A s \in Services : FirstOf(s)'
    BY <1>2, <2>1 DEF FirstOf, MatchedBy, Cores
  <2> QED
    BY <1>3, <2>1, <2>2 DEF Searched
<1>8. CASE EndRule
  <2>1. /\ UNCHANGED <<rules, matchHost, services, next, host, takenBy>>
        /\ pc = "assign" /\ pc' = "rule" /\ rule' = rule + 1
    BY <1>8 DEF EndRule, opts
  <2>2. \A q \in 1 .. rule : q \in 1 .. rule - 1 \/ q = rule
    BY <1>1
  <2>3. \A q, s : MatchedBy(q, s)' <=> MatchedBy(q, s)
    BY <2>1 DEF MatchedBy
  <2>4. Cores(services)' = Cores(services) /\ rule' - 1 = rule
    BY <1>1, <2>1 DEF Cores
  <2>5. ASSUME NEW s \in Services
        PROVE  FirstOf(s)'
    <3>1. FirstOf(s) /\ takenBy[s] \in Nat
      BY <1>1, <1>2
    <3>2. s \in Cores(services) => \A q \in 1 .. rule : ~ MatchedBy(q, s)
      BY <2>1, <2>2, <3>1 DEF FirstOf
    <3> QED
      BY <1>1, <2>1, <2>3, <2>4, <3>1, <3>2 DEF FirstOf
  <2> QED
    BY <1>3, <2>1, <2>5 DEF Searched
<1>9. CASE PlaceRest
  <2>1. /\ UNCHANGED <<rules, matchHost, rule, services, takenBy>>
        /\ pc = "rule" /\ pc' = "done"
        /\ host' = IF matchHost THEN host ELSE Defaults
    BY <1>9 DEF PlaceRest, opts
  <2>2. Cores(services)' = Cores(services)
    BY <2>1 DEF Cores
  <2>3. \A q, s : MatchedBy(q, s)' <=> MatchedBy(q, s)
    BY <2>1 DEF MatchedBy
  <2>4. ASSUME NEW s \in Services
        PROVE  FirstOf(s)'
    <3>1. FirstOf(s) /\ (takenBy[s] # 0 => s \notin Cores(services))
      BY <1>2 DEF Untaken
    <3>2. s \notin Cores(services) => host'[s] = host[s]
      BY <2>1 DEF Defaults
    <3>3. s \in Cores(services) /\ ~ matchHost => host'[s] = Primary
      BY <2>1 DEF Defaults
    <3> QED
      BY <2>1, <2>2, <2>3, <3>1, <3>2, <3>3 DEF FirstOf
  <2> QED
    BY <1>3, <2>1, <2>4 DEF Searched
<1>10. CASE UNCHANGED vars
  BY <1>2, <1>10 DEF vars, opts, FirstInv, FirstOf, MatchedBy, Searched, Untaken, Cores
<1> QED
  BY <1>4, <1>5, <1>6, <1>7, <1>8, <1>9, <1>10 DEF Next

\* Whatever the rules: the first one that matches a container takes it and names its host.
\* Nothing takes a container that runs on every host, and what no rule took goes to the
\* primary host unless the containers had hosts before.
THEOREM FirstWins == Spec => []FirstRuleWins
<1>1. TypeInv /\ Untaken /\ FirstInv => FirstRuleWins
  <2> SUFFICES ASSUME TypeInv, Untaken, FirstInv, pc = "done", rules # <<>>,
                      NEW s \in Cores(Order)
               PROVE  IF s \in EveryHost THEN takenBy[s] = 0
                      ELSE IF Matching(s) = {}
                      THEN takenBy[s] = 0 /\ (matchHost \/ host[s] = Primary)
                      ELSE takenBy[s] = Min(Matching(s)) /\ host[s] = rules[takenBy[s]].host
    BY DEF FirstRuleWins
  <2>1. s \in Services
    BY NamesAssumption DEF Cores
  <2>2. /\ Len(rules) \in Nat /\ rule = Len(rules) + 1
        /\ takenBy[s] \in 0 .. Len(rules)
    BY <2>1, RulesFacts DEF TypeInv, TypeOK, Phase
  <2>3. FirstOf(s)
    BY <2>1 DEF FirstInv
  <2>4. /\ s \in Cores(services) <=> s \notin EveryHost /\ takenBy[s] = 0
        /\ takenBy[s] # 0 => s \notin EveryHost
    BY <2>1 DEF Untaken
  <2>5. \A r : r \in Matching(s) <=> r \in 1 .. Len(rules) /\ MatchedBy(r, s)
    BY DEF Matching, MatchedBy
  <2>6. CASE s \in EveryHost
    BY <2>4, <2>6
  <2>7. CASE s \notin EveryHost /\ takenBy[s] = 0
    <3>1. /\ \A q \in 1 .. Len(rules) : ~ MatchedBy(q, s)
          /\ matchHost \/ host[s] = Primary
      BY <2>2, <2>3, <2>4, <2>7 DEF FirstOf
    <3> QED
      BY <2>5, <2>7, <3>1
  <2>8. CASE takenBy[s] # 0
    <3> DEFINE m == takenBy[s]
    <3>1. /\ MatchedBy(m, s) /\ host[s] = rules[m].host
          /\ \A q \in 1 .. m - 1 : ~ MatchedBy(q, s)
      BY <2>3, <2>8 DEF FirstOf
    <3>2. m \in 1 .. Len(rules)
      BY <2>2, <2>8
    <3> HIDE DEF m
    <3>3. m \in Matching(s) /\ \A r \in Matching(s) : m <= r /\ r \in Nat
      BY <2>2, <2>5, <3>1, <3>2
    <3>4. \A x \in Matching(s) : (\A y \in Matching(s) : x <= y) => x = m
      BY <2>2, <3>2, <3>3
    <3>5. Min(Matching(s)) = m
      BY <3>3, <3>4 DEF Min
    <3> QED
      BY <2>4, <2>8, <3>1, <3>3, <3>5 DEF m
  <2> QED
    BY <2>2, <2>6, <2>7, <2>8
<1> QED
  BY <1>1, TypeInit, TypeNext, FirstInit, FirstNext, PTL DEF Spec
-----------------------------------------------------------------------------
(* Cores.                                                                    *)

\* The first two cores of the rule, of which there is at least one.
LEMMA SharedFacts ==
  ASSUME TypeInv, NEW r \in 1 .. Len(rules), rules[r].cpuset # <<>>
  PROVE  /\ SharedOf(r) \in Seq(Nat) /\ SharedOf(r) # <<>>
         /\ Cores(SharedOf(r)) \subseteq Cores(rules[r].cpuset)
<1> DEFINE q == rules[r].cpuset
           n == Smaller(2, Len(q))
<1>1. q \in Seq(Nat) /\ Len(q) > 0
  BY RulesFacts DEF TypeInv, TypeOK
<1> HIDE DEF q
<1>2. n \in 0 .. Len(q) /\ n > 0
  BY <1>1 DEF Smaller
<1> HIDE DEF n
<1>3. IsSplit(SubSeq(q, 1, n), SubSeq(q, n + 1, Len(q)), q, Nat, n)
  BY <1>1, <1>2, SplitFacts
<1>4. SharedOf(r) = SubSeq(q, 1, n)
  BY DEF SharedOf, q, n
<1>5. SharedOf(r) \in Seq(Nat) /\ Len(SharedOf(r)) = n /\ Cores(SharedOf(r)) \subseteq Cores(q)
  BY <1>3, <1>4 DEF IsSplit
<1> QED
  BY <1>2, <1>5 DEF q

\* With distinct cores in the cpusets, those of any rule are distinct.
LEMMA DistinctFacts ==
  ASSUME TypeInv, DistinctCores, NEW r \in 1 .. Len(rules)
  PROVE  IsInjective(rules[r].cpuset)
<1>1. PICK i \in Inputs : rules = i.rules
  BY DEF TypeInv, TypeOK, RuleLists
<1>2. r \in DOMAIN rules
  BY RulesFacts DEF TypeInv, TypeOK
<1> QED
  BY <1>1, <1>2 DEF DistinctCores

\* What one container of several asks for is no more than what they ask for together.
LEMMA RequestsOfOne ==
  ASSUME NEW S, IsFiniteSet(Requests(S)), NEW s \in S, cpus[s] \in Nat
  PROVE  /\ IsFiniteSet(Requests(S \ {s})) /\ Cardinality(Requests(S \ {s})) \in Nat
         /\ Cardinality(Requests(S)) = Cardinality(Requests(S \ {s})) + cpus[s]
<1> DEFINE T == S \ {s}
<1>1. Requests(T) \subseteq Requests(S)
  BY DEF Requests
<1>2. IsFiniteSet(Requests(T))
  BY <1>1, FS_Subset
<1>3. Cardinality(Requests(T)) \in Nat
  BY <1>2, FS_CardinalityType
<1>4. T \cup {s} = S /\ s \notin T
  OBVIOUS
<1> HIDE DEF T
<1>5. Cardinality(Requests(T \cup {s})) = Cardinality(Requests(T)) + cpus[s]
  BY <1>2, <1>4, RequestsAdd
<1>6. Requests(T \cup {s}) = Requests(S)
  BY <1>4, Zenon
<1>7. Cardinality(Requests(S)) = Cardinality(Requests(T)) + cpus[s]
  BY <1>5, <1>6
<1> QED
  BY <1>2, <1>3, <1>7 DEF T

\* A rule that is through stays so: nobody touches its containers again.
LEMMA ThroughStays ==
  ASSUME NEW r, UNCHANGED <<cpus, rules>>, Taken(r)' = Taken(r),
         \A s \in Taken(r) : cpuset'[s] = cpuset[s] /\ (s \in warned' <=> s \in warned),
         Through(r)
  PROVE  Through(r)'
<1>1. \A s \in Taken(r) : Dedicated(s)' <=> Dedicated(s)
  BY DEF Dedicated
<1>2. \A s \in Taken(r) : HasCores(r, s)'
  <2>1. SharedOf(r)' = SharedOf(r)
    BY DEF SharedOf
  <2>2. \A s \in Taken(r) : Cores(cpuset[s])' = Cores(cpuset[s])
    BY DEF Cores
  <2>3. Cores(rules[r].cpuset)' = Cores(rules[r].cpuset)
    BY DEF Cores
  <2> QED
    BY <1>1, <2>1, <2>2, <2>3 DEF Through, HasCores
<1>3. DistinctCores => Apart(Taken(r))'
  BY <1>1 DEF Through, Apart, Cores
<1>4. Requests(Taken(r))' = Requests(Taken(r))
  BY DEF Requests
<1>5. Cardinality(Requests(Taken(r)))' = Cardinality(Requests(Taken(r)))
  BY <1>4
<1>6. (\A s \in Taken(r) : cpus[s] > 0) /\ Cardinality(Requests(Taken(r))) <= Len(rules[r].cpuset)
        => Taken(r) \cap warned = {}
  BY DEF Through
<1>7. ((\A s \in Taken(r) : cpus[s] > 0) /\ Cardinality(Requests(Taken(r))) <= Len(rules[r].cpuset)
         => Taken(r) \cap warned = {})'
  BY <1>5, <1>6
<1> QED
  BY <1>2, <1>3, <1>7 DEF Through

LEMMA CpuInit == Init => CpuInv
<1> SUFFICES ASSUME Init PROVE CpuInv
  OBVIOUS
<1>1. pc \in {"rule", "done"} /\ rule = 1 /\ warned = {}
  BY DEF Init
<1> QED
  BY <1>1 DEF CpuInv, Gathered, Sharing

LEMMA CpuBegin == TypeInv /\ Untaken /\ FirstInv /\ CpuInv /\ BeginRule => CpuInv'
<1> SUFFICES ASSUME TypeInv, Untaken, FirstInv, CpuInv, BeginRule PROVE CpuInv'
  OBVIOUS
<1>1. /\ pc = "rule" /\ pc' = "match" /\ group' = <<>> /\ wantDedicated' = 0
      /\ avail' = Rule.cpuset
      /\ UNCHANGED <<cpus, rules, matchHost, rule, services, host, cpuset, warned, takenBy>>
  BY DEF BeginRule, opts
<1>2. ~ wantShared'
  BY Zenon DEF BeginRule
<1>3. \A r : Taken(r)' = Taken(r)
  BY <1>1 DEF Taken
<1>4. Taken(rule) = {}
  <2>1. \A s \in Services : takenBy[s] < rule /\ takenBy[s] \in Nat /\ rule \in Nat
    BY <1>1, RulesFacts DEF FirstInv, FirstOf, TypeInv, TypeOK
  <2> QED
    BY <2>1 DEF Taken
<1>5. Taken(rule)' = {} /\ Cores(group)' = {} /\ IsInjective(group')
  BY <1>1, <1>4 DEF Taken, Cores, IsInjective
<1>6. /\ IsFiniteSet(Requests(Taken(rule))') /\ Cardinality(Requests(Taken(rule))') = 0
  <2>1. Requests(Taken(rule))' = {}
    BY <1>5 DEF Requests
  <2> QED
    BY <2>1, FS_EmptySet
<1>7. Gathered'
  BY <1>1, <1>2, <1>5, <1>6 DEF Gathered, CpuInv, Rule
<1>8. Sharing'
  BY <1>1 DEF Sharing
<1>9. ASSUME NEW r \in 1 .. rule - 1, rules[r].cpuset # <<>>
      PROVE  Through(r)'
  BY <1>1, <1>3, <1>9, ThroughStays DEF CpuInv
<1> QED
  BY <1>1, <1>7, <1>8, <1>9 DEF CpuInv

LEMMA CpuMatch == TypeInv /\ Untaken /\ FirstInv /\ CpuInv /\ MatchService => CpuInv'
<1> SUFFICES ASSUME TypeInv, Untaken, FirstInv, CpuInv, MatchService PROVE CpuInv'
  OBVIOUS
<1> DEFINE x == services[next]
<1>1. CASE Leaves(x)
  <2>1. UNCHANGED <<cpus, rules, pc, rule, group, wantDedicated, avail, cpuset, warned, takenBy>>
        /\ pc = "match"
    BY <1>1 DEF Leaves
  <2>2. wantShared' <=> wantShared
    <3>1. ~ Matches(x)
      BY <1>1 DEF Leaves, Matches, MatchedBy, Rule
    <3>2. UNCHANGED wants
      BY <3>1, Zenon DEF MatchService
    <3>3. wantShared' = wantShared
      BY <3>2 DEF wants
    <3> QED
      BY <3>3, Zenon
  <2>3. Taken(rule)' = Taken(rule) /\ \A r : Taken(r)' = Taken(r)
    BY <2>1 DEF Taken
  <2>4. Requests(Taken(rule))' = Requests(Taken(rule)) /\ Cores(group)' = Cores(group)
    BY <2>1, <2>3 DEF Requests, Cores
  <2>5. Gathered
    BY DEF CpuInv
  <2>6. Gathered'
    BY <2>1, <2>2, <2>3, <2>4, <2>5 DEF Gathered, Rule
  <2>7. ASSUME NEW r \in 1 .. rule - 1, rules[r].cpuset # <<>>
        PROVE  Through(r)'
    BY <2>1, <2>3, <2>7, ThroughStays DEF CpuInv
  <2> QED
    BY <2>1, <2>6, <2>7 DEF CpuInv, Sharing
<1>2. CASE Takes(x)
  <2>1. /\ x \in Services /\ x \in Cores(services) /\ rule \in 1 .. Len(rules) /\ pc = "match"
        /\ takenBy' = [takenBy EXCEPT ![x] = rule]
        /\ group' = Append(group, x) /\ wantDedicated' = wantDedicated + cpus[x]
        /\ UNCHANGED <<cpus, rules, pc, rule, avail, cpuset, warned>>
    BY <1>2 DEF Takes
  <2>2. wantShared' <=> wantShared \/ cpus[x] = 0
    <3>1. Matches(x)
      BY <1>2 DEF Takes, Matches
    <3> QED
      BY <3>1, Zenon DEF MatchService
  <2>3. x \in Services \ EveryHost
    BY RulesFacts, <1>2 DEF TypeInv, TypeOK, Takes
  <2> HIDE DEF x
  <2>4. /\ takenBy \in [Services -> 0 .. Len(rules)] /\ Len(rules) \in Nat
        /\ cpus \in [Services -> CpuCounts] /\ group \in Seq(Services \ EveryHost)
        /\ rule \in Nat /\ rule # 0
    BY <2>1, RulesFacts DEF TypeInv, TypeOK
  <2>5. takenBy[x] = 0 /\ x \notin warned
    BY <2>1 DEF Untaken, CpuInv, Gathered
  <2>6. Taken(rule)' = Taken(rule) \cup {x} /\ x \notin Taken(rule)
    BY <2>1, <2>4, <2>5 DEF Taken
  <2>7. \A r \in 1 .. rule - 1 : Taken(r)' = Taken(r)
    BY <2>1, <2>4, <2>5 DEF Taken
  <2>8. /\ IsInjective(group) /\ Cores(group) = Taken(rule)
        /\ IsFiniteSet(Requests(Taken(rule)))
        /\ wantDedicated = Cardinality(Requests(Taken(rule)))
        /\ wantShared <=> \E s \in Taken(rule) : cpus[s] = 0
        /\ Cores(group) \cap warned = {}
        /\ avail = Rule.cpuset
        /\ \A s \in warned : takenBy[s] # 0
    BY <2>1 DEF CpuInv, Gathered
  <2>9. IsInjective(group') /\ Cores(group)' = Cores(group) \cup {x}
    <3>1. IsLonger(Append(group, x), group, Services \ EveryHost, x)
      BY <2>3, <2>4, <2>6, <2>8, LongerFacts
    <3>2. Cores(group)' = Cores(Append(group, x))
      BY <2>1 DEF Cores
    <3> QED
      BY <2>1, <3>1, <3>2 DEF IsLonger
  <2>10. /\ IsFiniteSet(Requests(Taken(rule)))'
         /\ Cardinality(Requests(Taken(rule)))' = Cardinality(Requests(Taken(rule))) + cpus[x]
    <3>1. Requests(Taken(rule))' = Requests(Taken(rule) \cup {x})
      BY <2>1, <2>6 DEF Requests
    <3>2. cpus[x] \in Nat
      BY <2>1, <2>4, CountsNat
    <3> QED
      BY <2>6, <2>8, <3>1, <3>2, RequestsAdd
  <2>11. Gathered'
    <3>1. /\ wantDedicated' = Cardinality(Requests(Taken(rule)))'
          /\ IsFiniteSet(Requests(Taken(rule)))'
      BY <2>1, <2>8, <2>10
    <3>2. wantShared' <=> \E s \in Taken(rule)' : cpus'[s] = 0
      BY <2>1, <2>2, <2>6, <2>8
    <3>3. Cores(group)' \subseteq Taken(rule)' /\ Cores(group)' = Taken(rule)'
          /\ Cores(group)' \cap warned' = {}
      BY <2>1, <2>5, <2>6, <2>8, <2>9
    <3>4. \A s \in warned' : takenBy'[s] # 0
      BY <2>1, <2>4, <2>8 DEF TypeInv, TypeOK
    <3>5. (avail = Rule.cpuset)'
      BY <2>1, <2>8 DEF Rule
    <3> QED
      BY <2>9, <3>1, <3>2, <3>3, <3>4, <3>5, Zenon DEF Gathered
  <2>12. ASSUME NEW r \in 1 .. rule - 1, rules[r].cpuset # <<>>
         PROVE  Through(r)'
    BY <2>1, <2>7, <2>12, ThroughStays DEF CpuInv
  <2> QED
    BY <2>1, <2>11, <2>12 DEF CpuInv, Sharing
<1> QED
  BY <1>1, <1>2, MatchCases

LEMMA CpuUpdate == TypeInv /\ CpuInv /\ Update => CpuInv'
<1> SUFFICES ASSUME TypeInv, CpuInv, Update PROVE CpuInv'
  OBVIOUS
<1>1. /\ UNCHANGED <<cpus, rules, group, cpuset, warned, takenBy>> /\ pc = "match"
      /\ \/ /\ Rule.cpuset = <<>> /\ pc' = "rule" /\ rule' = rule + 1
         \/ /\ Rule.cpuset # <<>> /\ pc' = "assign" /\ rule' = rule
  BY DEF Update, opts
<1>2. wantDedicated' = wantDedicated /\ (wantShared' <=> wantShared)
  <2>1. UNCHANGED wants
    BY Zenon DEF Update
  <2>2. wantShared' = wantShared /\ wantDedicated' = wantDedicated
    BY <2>1 DEF wants
  <2> QED
    BY <2>2, Zenon
<1>3. rule \in 1 .. Len(rules) /\ Len(rules) \in Nat /\ avail \in Seq(Nat)
  BY <1>1, RulesFacts DEF TypeInv, TypeOK, Phase
<1>4. \A r : Taken(r)' = Taken(r)
  BY <1>1 DEF Taken
<1>5. ASSUME NEW r \in 1 .. rule - 1, rules[r].cpuset # <<>>
      PROVE  Through(r)'
  BY <1>1, <1>4, <1>5, ThroughStays DEF CpuInv
<1>6. /\ IsInjective(group) /\ Cores(group) = Taken(rule)
      /\ IsFiniteSet(Requests(Taken(rule)))
      /\ wantDedicated = Cardinality(Requests(Taken(rule)))
      /\ wantShared <=> \E s \in Taken(rule) : cpus[s] = 0
      /\ Cores(group) \cap warned = {}
      /\ avail = Rule.cpuset
      /\ \A s \in warned : takenBy[s] # 0
  BY <1>1 DEF CpuInv, Gathered
<1>7. CASE Rule.cpuset = <<>>
  <2>1. pc' = "rule" /\ rule' - 1 = rule
    BY <1>1, <1>3, <1>7
  <2>2. \A r \in 1 .. rule : r \in 1 .. rule - 1 \/ r = rule
    BY <1>3
  <2>3. \A r \in 1 .. rule : rules[r].cpuset # <<>> => Through(r)'
    BY <1>5, <1>7, <2>2 DEF Rule
  <2> QED
    BY <1>1, <1>6, <2>1, <2>3 DEF CpuInv, Gathered, Sharing
<1>8. CASE Rule.cpuset # <<>>
  <2> DEFINE n == IF NeedShared THEN Smaller(2, Len(avail)) ELSE 0
  <2>1. /\ pc' = "assign" /\ rule' = rule
        /\ shared' = SubSeq(avail, 1, n) /\ avail' = SubSeq(avail, n + 1, Len(avail))
    BY <1>8 DEF Update
  <2>2. n \in 0 .. Len(avail)
    BY <1>3 DEF Smaller
  <2>3. NeedShared => n = Smaller(2, Len(avail))
    OBVIOUS
  <2>4. ~ NeedShared => n = 0 /\ ~ wantShared /\ wantDedicated <= Len(avail)
    BY <1>3 DEF NeedShared, TypeInv, TypeOK
  <2> HIDE DEF n
  <2>5. IsSplit(shared', avail', avail, Nat, n)
    BY <1>3, <2>1, <2>2, SplitFacts
  <2>6. Taken(rule)' = Taken(rule) /\ Cores(group)' = Cores(group) /\ Given' = {}
    BY <1>1, <1>6, <2>1 DEF Taken, Cores, Given
  <2>7. Gathered'
    <3>1. Requests(Taken(rule))' = Requests(Taken(rule))
      BY <1>1, <2>6 DEF Requests
    <3> QED
      BY <1>1, <1>2, <1>6, <2>1, <2>6, <3>1 DEF Gathered
  <2>8. NeedShared => shared' = SharedOf(rule)'
    BY <1>1, <1>6, <2>1, <2>3 DEF SharedOf, Rule
  <2>9. ~ NeedShared => Plenty'
    <3> SUFFICES ASSUME ~ NeedShared PROVE Plenty'
      OBVIOUS
    <3>1. shared' = <<>> /\ Len(avail') = Len(avail)
      BY <1>3, <2>4, <2>5 DEF IsSplit
    <3>2. Requests(Cores(group))' = Requests(Taken(rule))
      BY <1>1, <1>6, <2>6 DEF Requests
    <3>3. Cardinality(Requests(Cores(group)))' <= Len(avail)'
      BY <1>6, <2>4, <3>1, <3>2
    <3>4. Taken(rule)' \cap warned' = {}
      BY <1>1, <1>6, <2>6
    <3> QED
      BY <1>2, <2>4, <3>1, <3>3, <3>4 DEF Plenty
  <2>10. (~ wantShared' /\ wantDedicated' <= Len(Rule.cpuset)') => Plenty'
    <3>1. Len(Rule.cpuset)' = Len(avail)
      BY <1>1, <1>6, <2>1 DEF Rule
    <3>2. wantDedicated \in Nat /\ Len(avail) \in Nat
      BY <1>3 DEF TypeInv, TypeOK
    <3>3. ~ wantShared /\ wantDedicated <= Len(avail) => ~ NeedShared
      BY <3>2 DEF NeedShared
    <3> QED
      BY <1>2, <2>9, <3>1, <3>3
  <2>11. (Cores(avail) \cup Cores(shared) \subseteq Cores(Rule.cpuset))'
    <3>1. Cores(Rule.cpuset)' = Cores(avail)
      BY <1>1, <1>6, <2>1 DEF Rule, Cores
    <3>2. Cores(avail)' = Cores(avail') /\ Cores(shared)' = Cores(shared')
      BY DEF Cores
    <3> QED
      BY <2>5, <3>1, <3>2 DEF IsSplit
  <2>12. ASSUME DistinctCores
         PROVE  IsInjective(avail)' /\ (Cores(avail) \cap Cores(shared) = {})'
    <3>1. IsInjective(avail)
      BY <1>3, <1>6, <2>12, DistinctFacts DEF Rule
    <3>2. Cores(avail)' = Cores(avail') /\ Cores(shared)' = Cores(shared')
      BY DEF Cores
    <3> QED
      BY <2>5, <3>1, <3>2 DEF IsSplit
  <2>13. Sharing'
    <3>1. (shared = SharedOf(rule) \/ Plenty)'
      BY <2>8, <2>9
    <3>2. Apart(Given)'
      BY <2>6 DEF Apart
    <3>3. /\ (\A s \in Given : HasCores(rule, s))'
          /\ (\A s \in Given \cap warned : cpus[s] > Len(avail))'
          /\ (\A s \in Given : Dedicated(s) =>
                Cores(cpuset[s]) \cap (Cores(avail) \cup Cores(shared)) = {})'
      BY <2>6
    <3> QED
      BY <2>10, <2>11, <2>12, <3>1, <3>2, <3>3, Zenon DEF Sharing
  <2> QED
    BY <1>1, <1>5, <2>1, <2>7, <2>13 DEF CpuInv
<1> QED
  BY <1>7, <1>8

LEMMA CpuEnd == TypeInv /\ CpuInv /\ EndRule => CpuInv'
<1> SUFFICES ASSUME TypeInv, CpuInv, EndRule PROVE CpuInv'
  OBVIOUS
<1>1. /\ pc = "assign" /\ group = <<>> /\ pc' = "rule" /\ rule' = rule + 1
      /\ UNCHANGED <<cpus, rules, cpuset, warned, takenBy>>
  BY DEF EndRule, opts
<1>2. rule \in Nat
  BY RulesFacts DEF TypeInv, TypeOK
<1>3. Given = Taken(rule)
  BY <1>1 DEF Given, Cores
<1>4. Through(rule)
  <2>1. /\ \A s \in Given : HasCores(rule, s)
        /\ DistinctCores => Apart(Given)
        /\ ~ wantShared /\ wantDedicated <= Len(Rule.cpuset) => Plenty
    BY <1>1 DEF CpuInv, Sharing
  <2>2. /\ wantDedicated = Cardinality(Requests(Taken(rule)))
        /\ wantShared <=> \E s \in Taken(rule) : cpus[s] = 0
    BY <1>1 DEF CpuInv, Gathered
  <2>3. (\A s \in Taken(rule) : cpus[s] > 0) => ~ wantShared
    BY <2>2
  <2>4. Plenty => Taken(rule) \cap warned = {}
    BY DEF Plenty
  <2> QED
    BY <1>3, <2>1, <2>2, <2>3, <2>4 DEF Through, Rule
<1>5. \A r : Taken(r)' = Taken(r)
  BY <1>1 DEF Taken
<1>6. \A r \in 1 .. rule : r \in 1 .. rule - 1 \/ r = rule
  BY <1>2
<1>7. ASSUME NEW r \in 1 .. rule, rules[r].cpuset # <<>>
      PROVE  Through(r)'
  <2>1. Through(r)
    BY <1>4, <1>6, <1>7 DEF CpuInv
  <2> QED
    BY <1>1, <1>5, <2>1, ThroughStays
<1>8. rule' - 1 = rule
  BY <1>1, <1>2
<1> QED
  BY <1>1, <1>7, <1>8 DEF CpuInv, Gathered, Sharing

LEMMA CpuRest == CpuInv /\ PlaceRest => CpuInv'
<1> SUFFICES ASSUME CpuInv, PlaceRest PROVE CpuInv'
  OBVIOUS
<1>1. /\ pc' = "done" /\ UNCHANGED <<cpus, rules, rule, cpuset, warned, takenBy>>
  BY DEF PlaceRest, opts
<1>2. \A r : Taken(r)' = Taken(r)
  BY <1>1 DEF Taken
<1>3. ASSUME NEW r \in 1 .. rule - 1, rules[r].cpuset # <<>>
      PROVE  Through(r)'
  BY <1>1, <1>2, <1>3, ThroughStays DEF CpuInv
<1> QED
  BY <1>1, <1>3 DEF CpuInv, Gathered, Sharing

LEMMA CpuStutter == CpuInv /\ UNCHANGED vars => CpuInv'
<1> SUFFICES ASSUME CpuInv, UNCHANGED vars PROVE CpuInv'
  OBVIOUS
<1>1. UNCHANGED <<cpus, rules, pc, rule, group, wantDedicated, avail, shared, cpuset, warned,
                  takenBy>>
  BY DEF vars, opts, wants
<1>2. wantShared' = wantShared
  BY DEF vars, wants
<1>3. wantShared' <=> wantShared
  BY <1>2, Zenon
<1>4. \A r : Taken(r)' = Taken(r)
  BY <1>1 DEF Taken
<1>5. \A S : Requests(S)' = Requests(S)
  BY <1>1 DEF Requests
<1>6. Gathered'
  <2>1. Gathered
    BY DEF CpuInv
  <2>2. /\ Cores(group)' = Cores(group) /\ Taken(rule)' = Taken(rule)
        /\ Requests(Taken(rule))' = Requests(Taken(rule))
        /\ Cardinality(Requests(Taken(rule)))' = Cardinality(Requests(Taken(rule)))
    BY <1>1, <1>4, <1>5 DEF Cores
  <2> QED
    BY <1>1, <1>3, <2>1, <2>2 DEF Gathered, Rule
<1>7. Sharing'
  <2>1. Sharing
    BY DEF CpuInv
  <2>2. /\ Given' = Given /\ Cores(avail)' = Cores(avail) /\ Cores(shared)' = Cores(shared)
        /\ Cores(Rule.cpuset)' = Cores(Rule.cpuset) /\ Rule' = Rule
        /\ SharedOf(rule)' = SharedOf(rule)
    BY <1>1, <1>4 DEF Given, Cores, Rule, SharedOf, Taken
  <2>3. \A s : /\ Dedicated(s)' <=> Dedicated(s)
               /\ Cores(cpuset[s])' = Cores(cpuset[s])
    BY <1>1 DEF Dedicated, Cores
  <2>4. \A s : HasCores(rule, s)' <=> HasCores(rule, s)
    BY <1>1, <2>2, <2>3 DEF HasCores, Rule
  <2>5. Plenty' <=> Plenty
    <3>1. /\ Cores(group)' = Cores(group) /\ Taken(rule)' = Taken(rule)
          /\ Requests(Cores(group))' = Requests(Cores(group))
          /\ Cardinality(Requests(Cores(group)))' = Cardinality(Requests(Cores(group)))
      BY <1>1, <1>4, <1>5 DEF Cores
    <3> QED
      BY <1>1, <1>3, <3>1 DEF Plenty
  <2>6. Apart(Given)' <=> Apart(Given)
    BY <2>2, <2>3 DEF Apart
  <2>7. IsInjective(avail)' <=> IsInjective(avail)
    BY <1>1
  <2> QED
    BY <1>1, <1>3, <2>1, <2>2, <2>3, <2>4, <2>5, <2>6, <2>7 DEF Sharing
<1>8. ASSUME NEW r \in 1 .. rule - 1, rules[r].cpuset # <<>>
      PROVE  Through(r)'
  BY <1>1, <1>4, <1>8, ThroughStays DEF CpuInv
<1> QED
  BY <1>1, <1>6, <1>7, <1>8 DEF CpuInv

\* What update() does for one container, whatever cores it gets.
Serves(s) ==
  /\ pc = "assign" /\ rule \in 1 .. Len(rules) /\ rule \in Nat
  /\ s \in Services /\ s \in Taken(rule) /\ s \in Cores(group) /\ s \notin warned
  /\ s \notin Given /\ takenBy[s] # 0 /\ cpus[s] \in Nat /\ avail \in Seq(Nat)
  /\ UNCHANGED <<cpus, rules, pc, rule, wantDedicated, shared, takenBy>>
  /\ wantShared' <=> wantShared
  /\ IsInjective(group') /\ Cores(group)' = Cores(group) \ {s}
  /\ Taken(rule)' = Taken(rule) /\ Given' = Given \cup {s}
  /\ \A t \in Services : t # s => cpuset'[t] = cpuset[t]
  /\ \A t : t # s => (t \in warned' <=> t \in warned)

\* The three ways in which it gets them.
Shares(s) == cpus[s] = 0 /\ cpuset'[s] = shared /\ s \notin warned' /\ avail' = avail

Warns(s) == cpus[s] > Len(avail) /\ cpuset'[s] = shared /\ s \in warned' /\ avail' = avail

Dedicates(s) ==
  /\ cpus[s] > 0 /\ cpus[s] <= Len(avail) /\ s \notin warned'
  /\ IsSplit(cpuset'[s], avail', avail, Nat, cpus[s])

LEMMA AssignCases ==
  ASSUME TypeInv, CpuInv, AssignService
  PROVE  LET s == Head(group) IN Serves(s) /\ (Shares(s) \/ Warns(s) \/ Dedicates(s))
<1> DEFINE s == Head(group)
           n == cpus[s]
<1>1. /\ pc = "assign" /\ group # <<>> /\ group' = Tail(group)
      /\ UNCHANGED <<cpus, rules, pc, rule, shared, takenBy>>
  BY DEF AssignService, opts
<1>2. wantDedicated' = wantDedicated /\ (wantShared' <=> wantShared)
  <2>1. UNCHANGED wants
    BY Zenon DEF AssignService
  <2>2. wantShared' = wantShared /\ wantDedicated' = wantDedicated
    BY <2>1 DEF wants
  <2> QED
    BY <2>2, Zenon
<1>3. /\ \/ /\ n = 0 /\ cpuset' = [cpuset EXCEPT ![s] = shared] /\ UNCHANGED <<avail, warned>>
         \/ /\ n # 0 /\ n > Len(avail)
            /\ cpuset' = [cpuset EXCEPT ![s] = shared]
            /\ warned' = warned \cup {s} /\ avail' = avail
         \/ /\ n # 0 /\ ~ (n > Len(avail))
            /\ cpuset' = [cpuset EXCEPT ![s] = SubSeq(avail, 1, n)]
            /\ avail' = SubSeq(avail, n + 1, Len(avail)) /\ warned' = warned
  BY DEF AssignService, Short, Left
<1> HIDE DEF s
<1>4. /\ IsInjective(group) /\ Cores(group) \subseteq Taken(rule) /\ Cores(group) \cap warned = {}
  BY <1>1 DEF CpuInv, Gathered
<1>5. IsRest(group', group, Services \ EveryHost)
  BY <1>1, <1>4, RestFacts DEF TypeInv, TypeOK
<1>6. /\ s \in Cores(group) /\ s \in Services /\ IsInjective(group')
      /\ Cores(group') = Cores(group) \ {s}
  BY <1>5 DEF IsRest, s
<1>7. Cores(group)' = Cores(group')
  BY DEF Cores
<1>8. Taken(rule)' = Taken(rule)
  BY <1>1 DEF Taken
<1>9. s \in Taken(rule) /\ s \notin Given /\ Given' = Given \cup {s}
  BY <1>4, <1>6, <1>7, <1>8 DEF Given
<1>10. /\ rule \in 1 .. Len(rules) /\ rule \in Nat /\ takenBy[s] # 0
       /\ cpus \in [Services -> CpuCounts]
       /\ avail \in Seq(Nat) /\ cpuset \in [Services -> Seq(Nat)]
  BY <1>1, <1>9, RulesFacts DEF TypeInv, TypeOK, Phase, Taken
<1>11. n \in Nat
  BY <1>6, <1>10, CountsNat
<1>12. s \notin warned
  BY <1>4, <1>6
<1>13. /\ \A t \in Services : t # s => cpuset'[t] = cpuset[t]
       /\ \A t : t # s => (t \in warned' <=> t \in warned)
  BY <1>3, <1>10
<1>14. Serves(s)
  BY <1>1, <1>2, <1>6, <1>7, <1>8, <1>9, <1>10, <1>11, <1>12, <1>13 DEF Serves
<1>15. Shares(s) \/ Warns(s) \/ Dedicates(s)
  <2>1. CASE n = 0
    BY <1>3, <1>6, <1>10, <1>12, <2>1 DEF Shares
  <2>2. CASE n # 0 /\ n > Len(avail)
    BY <1>3, <1>6, <1>10, <2>2 DEF Warns
  <2>3. CASE n # 0 /\ ~ (n > Len(avail))
    <3>1. n \in 0 .. Len(avail) /\ n > 0 /\ n <= Len(avail)
      BY <1>10, <1>11, <2>3
    <3>2. cpuset'[s] = SubSeq(avail, 1, n) /\ avail' = SubSeq(avail, n + 1, Len(avail))
          /\ warned' = warned
      BY <1>3, <1>6, <1>10, <2>3
    <3> HIDE DEF n
    <3>3. IsSplit(SubSeq(avail, 1, n), SubSeq(avail, n + 1, Len(avail)), avail, Nat, n)
      BY <1>10, <3>1, SplitFacts
    <3>4. IsSplit(cpuset'[s], avail', avail, Nat, n)
      BY <3>2, <3>3
    <3> QED
      BY <1>12, <3>1, <3>2, <3>4 DEF Dedicates, n
  <2> QED
    BY <2>1, <2>2, <2>3
<1> QED
  BY <1>14, <1>15 DEF s

LEMMA GatheredServes ==
  ASSUME CpuInv, NEW s, Serves(s)
  PROVE  Gathered'
<1>1. /\ IsInjective(group) /\ Cores(group) \subseteq Taken(rule)
      /\ IsFiniteSet(Requests(Taken(rule)))
      /\ wantDedicated = Cardinality(Requests(Taken(rule)))
      /\ wantShared <=> \E t \in Taken(rule) : cpus[t] = 0
      /\ Cores(group) \cap warned = {}
      /\ \A t \in warned : takenBy[t] # 0
  BY DEF CpuInv, Gathered, Serves
<1>2. Requests(Taken(rule))' = Requests(Taken(rule))
      /\ Cardinality(Requests(Taken(rule)))' = Cardinality(Requests(Taken(rule)))
  BY DEF Requests, Serves
<1>3. Cores(group)' \cap warned' = {} /\ Cores(group)' \subseteq Taken(rule)'
  BY <1>1 DEF Serves
<1>4. \A t \in warned' : takenBy'[t] # 0
  BY <1>1 DEF Serves
<1>5. wantShared' <=> \E t \in Taken(rule)' : cpus'[t] = 0
  BY <1>1 DEF Serves
<1> QED
  BY <1>1, <1>2, <1>3, <1>4, <1>5 DEF Gathered, Serves

LEMMA ThroughServes ==
  ASSUME CpuInv, NEW s, Serves(s), NEW r \in 1 .. rule - 1, rules[r].cpuset # <<>>
  PROVE  Through(r)'
<1>1. Taken(r)' = Taken(r) /\ s \notin Taken(r) /\ Taken(r) \subseteq Services
  BY DEF Serves, Taken
<1> QED
  BY <1>1, ThroughStays DEF CpuInv, Serves

\* The containers that were served before keep what they had.
LEMMA EarlierServes ==
  ASSUME NEW s, Serves(s), NEW t \in Given
  PROVE  /\ t # s /\ (Dedicated(t)' <=> Dedicated(t)) /\ Cores(cpuset[t])' = Cores(cpuset[t])
         /\ HasCores(rule, t)' <=> HasCores(rule, t)
<1>1. t # s /\ t \in Services
  BY DEF Serves, Given, Taken
<1>2. cpuset'[t] = cpuset[t] /\ (t \in warned' <=> t \in warned)
  BY <1>1 DEF Serves
<1>3. Dedicated(t)' <=> Dedicated(t)
  BY <1>2 DEF Serves, Dedicated
<1>4. Cores(cpuset[t])' = Cores(cpuset[t])
  BY <1>2 DEF Cores
<1>5. SharedOf(rule)' = SharedOf(rule) /\ Cores(rules[rule].cpuset)' = Cores(rules[rule].cpuset)
  BY DEF Serves, SharedOf, Cores
<1> QED
  BY <1>1, <1>2, <1>3, <1>4, <1>5 DEF HasCores, Serves

LEMMA SharingServes ==
  ASSUME TypeInv, CpuInv, NEW s, Serves(s), Shares(s) \/ Warns(s) \/ Dedicates(s)
  PROVE  Sharing'
<1>1. /\ \A t \in Given : HasCores(rule, t)
      /\ \A t \in Given \cap warned : cpus[t] > Len(avail)
      /\ Cores(avail) \cup Cores(shared) \subseteq Cores(Rule.cpuset)
      /\ shared = SharedOf(rule) \/ Plenty
      /\ ~ wantShared /\ wantDedicated <= Len(Rule.cpuset) => Plenty
      /\ DistinctCores =>
           /\ Apart(Given)
           /\ IsInjective(avail)
           /\ Cores(avail) \cap Cores(shared) = {}
           /\ \A t \in Given : Dedicated(t) =>
                Cores(cpuset[t]) \cap (Cores(avail) \cup Cores(shared)) = {}
  BY DEF CpuInv, Sharing, Serves
<1>2. /\ Rule' = Rule /\ Cores(Rule.cpuset)' = Cores(Rule.cpuset) /\ Rule = rules[rule]
      /\ SharedOf(rule)' = SharedOf(rule) /\ Cores(shared)' = Cores(shared)
      /\ Rule.cpuset # <<>>
  BY DEF Serves, Rule, SharedOf, Cores, TypeInv, Phase
<1>3. /\ SharedOf(rule) # <<>> /\ Cores(SharedOf(rule)) \subseteq Cores(Rule.cpuset)
  BY <1>2, SharedFacts DEF Serves
<1>4. wantShared <=> \E t \in Taken(rule) : cpus[t] = 0
  BY DEF CpuInv, Gathered, Serves
<1>5. /\ IsFiniteSet(Requests(Cores(group))) /\ Cardinality(Requests(Cores(group) \ {s})) \in Nat
      /\ Cardinality(Requests(Cores(group))) = Cardinality(Requests(Cores(group) \ {s})) + cpus[s]
  <2>1. Requests(Cores(group)) \subseteq Requests(Taken(rule))
    BY DEF CpuInv, Gathered, Serves, Requests
  <2>2. IsFiniteSet(Requests(Cores(group)))
    BY <2>1, FS_Subset DEF CpuInv, Gathered, Serves
  <2> QED
    BY <2>2, RequestsOfOne DEF Serves
<1>6. Requests(Cores(group))' = Requests(Cores(group) \ {s})
  BY DEF Requests, Serves
<1>7. Len(avail) \in Nat /\ cpus[s] \in Nat
  BY DEF Serves
<1>8. CASE Shares(s) \/ Warns(s)
  <2>1. /\ cpuset'[s] = shared /\ ~ Dedicated(s)' /\ avail' = avail
        /\ Cores(avail)' = Cores(avail) /\ Cores(cpuset[s])' = Cores(shared)
    BY <1>7, <1>8 DEF Shares, Warns, Dedicated, Cores, Serves
  <2>2. ~ Plenty
    <3>1. CASE Shares(s)
      BY <1>4, <3>1 DEF Plenty, Shares, Serves
    <3>2. CASE Warns(s)
      BY <1>5, <1>7, <3>2 DEF Plenty, Warns
    <3> QED
      BY <1>8, <3>1, <3>2
  <2>3. shared = SharedOf(rule) /\ ~ (~ wantShared /\ wantDedicated <= Len(Rule.cpuset))
    BY <1>1, <2>2
  <2>4. HasCores(rule, s)'
    <3>1. cpuset'[s] # <<>> /\ (cpuset[s] = SharedOf(rule))'
      BY <1>2, <1>3, <2>1, <2>3
    <3>2. (Cores(cpuset[s]) \subseteq Cores(rules[rule].cpuset))'
      BY <1>1, <1>2, <2>1 DEF Rule
    <3> QED
      BY <2>1, <3>1, <3>2 DEF HasCores, Serves
  <2>5. \A t \in Given' : HasCores(rule, t)'
    BY <1>1, <2>4, EarlierServes DEF Serves
  <2>6. \A t \in Given' \cap warned' : cpus'[t] > Len(avail')
    BY <1>1, <1>8, <2>1 DEF Serves, Shares, Warns
  <2>7. (shared = SharedOf(rule))' /\ ~ (~ wantShared /\ wantDedicated <= Len(Rule.cpuset))'
    BY <1>2, <2>3 DEF Serves
  <2>8. (Cores(avail) \cup Cores(shared) \subseteq Cores(Rule.cpuset))'
    BY <1>1, <1>2, <2>1
  <2>9. ASSUME DistinctCores
        PROVE  /\ Apart(Given)'
               /\ IsInjective(avail)'
               /\ (Cores(avail) \cap Cores(shared) = {})'
               /\ \A t \in Given' : Dedicated(t)' =>
                    (Cores(cpuset[t]) \cap (Cores(avail) \cup Cores(shared)) = {})'
    <3>1. \A t \in Given' : Dedicated(t)' =>
            /\ t \in Given /\ t # s /\ Dedicated(t)
            /\ (Cores(cpuset[t]) \cap (Cores(avail) \cup Cores(shared)) = {})'
      BY <1>1, <1>2, <2>1, <2>9, EarlierServes DEF Serves
    <3>2. ASSUME NEW t \in Given', NEW u \in Given', t # u, Dedicated(t)'
          PROVE  (Cores(cpuset[t]) \cap Cores(cpuset[u]) = {})'
      <4>1. t \in Given /\ Dedicated(t)
        BY <3>1, <3>2
      <4>2. CASE u = s
        BY <1>2, <2>1, <3>1, <3>2, <4>2
      <4>3. CASE u # s
        BY <1>1, <2>9, <3>2, <4>1, <4>3, EarlierServes DEF Serves, Apart
      <4> QED
        BY <4>2, <4>3
    <3>3. Apart(Given)'
      BY <3>2 DEF Apart
    <3> QED
      BY <1>1, <1>2, <2>1, <2>9, <3>1, <3>3
  <2> QED
    BY <2>5, <2>6, <2>7, <2>8, <2>9, Zenon DEF Sharing
<1>9. CASE Dedicates(s)
  <2>1. /\ cpus[s] > 0 /\ cpus[s] <= Len(avail) /\ s \notin warned'
        /\ IsSplit(cpuset'[s], avail', avail, Nat, cpus[s])
    BY <1>9 DEF Dedicates
  <2>2. /\ cpuset'[s] \in Seq(Nat) /\ Len(cpuset'[s]) = cpus[s]
        /\ Len(avail') = Len(avail) - cpus[s]
        /\ Cores(cpuset'[s]) \cup Cores(avail') \subseteq Cores(avail)
        /\ IsInjective(avail) => IsInjective(avail') /\ Cores(cpuset'[s]) \cap Cores(avail') = {}
    BY <2>1 DEF IsSplit
  <2>3. Cores(avail)' = Cores(avail') /\ Cores(cpuset[s])' = Cores(cpuset'[s])
    BY DEF Cores
  <2>4. HasCores(rule, s)'
    <3>1. Dedicated(s)' /\ cpuset'[s] # <<>>
      BY <1>7, <2>1, <2>2 DEF Dedicated, Serves
    <3>2. Cores(cpuset[s])' \subseteq Cores(rules[rule].cpuset)'
      BY <1>1, <1>2, <2>2, <2>3 DEF Rule
    <3> QED
      BY <2>2, <3>1, <3>2 DEF HasCores, Serves
  <2>5. \A t \in Given' : HasCores(rule, t)'
    BY <1>1, <2>4, EarlierServes DEF Serves
  <2>6. \A t \in Given' \cap warned' : cpus'[t] > Len(avail')
    <3>1. ASSUME NEW t \in Given' \cap warned'
          PROVE  cpus[t] > Len(avail')
      <4>1. t \in Given \cap warned /\ t \in Services
        BY <2>1 DEF Serves, Given, Taken
      <4>2. cpus[t] > Len(avail) /\ cpus[t] \in Nat
        BY <1>1, <4>1, CountsNat DEF TypeInv, TypeOK
      <4> QED
        BY <1>7, <2>1, <2>2, <4>2
    <3> QED
      BY <3>1 DEF Serves
  <2>7. Plenty => Plenty'
    <3> SUFFICES ASSUME Plenty PROVE Plenty'
      OBVIOUS
    <3>1. Cardinality(Requests(Cores(group)))' <= Len(avail')
      BY <1>5, <1>6, <1>7, <2>2 DEF Plenty
    <3>2. Taken(rule)' \cap warned' = {}
      BY <2>1 DEF Plenty, Serves
    <3> QED
      BY <3>1, <3>2 DEF Plenty, Serves
  <2>8. /\ (shared = SharedOf(rule) \/ Plenty)'
        /\ (~ wantShared /\ wantDedicated <= Len(Rule.cpuset) => Plenty)'
    BY <1>1, <1>2, <2>7 DEF Serves
  <2>9. (Cores(avail) \cup Cores(shared) \subseteq Cores(Rule.cpuset))'
    BY <1>1, <1>2, <2>2, <2>3
  <2>10. ASSUME DistinctCores
         PROVE  /\ Apart(Given)'
                /\ IsInjective(avail)'
                /\ (Cores(avail) \cap Cores(shared) = {})'
                /\ \A t \in Given' : Dedicated(t)' =>
                     (Cores(cpuset[t]) \cap (Cores(avail) \cup Cores(shared)) = {})'
    <3>1. /\ IsInjective(avail) /\ Cores(avail) \cap Cores(shared) = {}
          /\ IsInjective(avail') /\ Cores(cpuset'[s]) \cap Cores(avail') = {}
      BY <1>1, <2>2, <2>10
    <3>2. (Cores(cpuset[s]) \cap (Cores(avail) \cup Cores(shared)) = {})'
      BY <1>2, <2>2, <2>3, <3>1
    <3>3. ASSUME NEW t \in Given, Dedicated(t)
          PROVE  /\ (Cores(cpuset[t]) \cap (Cores(avail) \cup Cores(shared)) = {})'
                 /\ (Cores(cpuset[t]) \cap Cores(cpuset[s]) = {})'
      <4>1. Cores(cpuset[t]) \cap (Cores(avail) \cup Cores(shared)) = {}
        BY <1>1, <2>10, <3>3
      <4>2. Cores(cpuset[t])' = Cores(cpuset[t])
        BY EarlierServes
      <4> QED
        BY <1>2, <2>2, <2>3, <4>1, <4>2
    <3>4. \A t \in Given' : t # s => t \in Given /\ (Dedicated(t)' <=> Dedicated(t))
      BY EarlierServes DEF Serves
    <3>5. ASSUME NEW t \in Given', NEW u \in Given', t # u, Dedicated(t)'
          PROVE  (Cores(cpuset[t]) \cap Cores(cpuset[u]) = {})'
      <4>1. CASE t = s
        <5>1. u \in Given /\ u # s
          BY <3>4, <3>5, <4>1
        <5>2. CASE Dedicated(u)
          BY <3>3, <4>1, <5>1, <5>2
        <5>3. CASE ~ Dedicated(u)
          <6>1. cpuset[u] = SharedOf(rule)
            BY <1>1, <5>1, <5>3 DEF HasCores
          <6>2. ~ Plenty
            <7>1. u \in Taken(rule) /\ cpus[u] \in Nat
              BY <5>1, CountsNat DEF Given, Taken, TypeInv, TypeOK
            <7>2. u \in warned \/ cpus[u] = 0
              BY <5>3, <7>1 DEF Dedicated
            <7> QED
              BY <1>4, <7>1, <7>2 DEF Plenty
          <6>3. cpuset[u] = shared
            BY <1>1, <6>1, <6>2
          <6>4. Cores(cpuset[u])' = Cores(shared)
            BY <5>1, <6>3, EarlierServes
          <6> QED
            BY <2>2, <2>3, <3>1, <4>1, <6>4
        <5> QED
          BY <5>2, <5>3
      <4>2. CASE t # s /\ u = s
        BY <3>3, <3>4, <3>5, <4>2
      <4>3. CASE t # s /\ u # s
        <5>1. t \in Given /\ u \in Given /\ Dedicated(t)
          BY <3>4, <3>5, <4>3
        <5>2. Cores(cpuset[t]) \cap Cores(cpuset[u]) = {}
          BY <1>1, <2>10, <3>5, <5>1 DEF Apart
        <5> QED
          BY <5>1, <5>2, EarlierServes
      <4> QED
        BY <4>1, <4>2, <4>3
    <3>6. Apart(Given)'
      BY <3>5 DEF Apart
    <3>7. \A t \in Given' : Dedicated(t)' =>
            (Cores(cpuset[t]) \cap (Cores(avail) \cup Cores(shared)) = {})'
      BY <3>2, <3>3, <3>4
    <3> QED
      BY <1>2, <2>2, <2>3, <3>1, <3>6, <3>7
  <2> QED
    BY <2>5, <2>6, <2>8, <2>9, <2>10, Zenon DEF Sharing
<1> QED
  BY <1>8, <1>9

LEMMA CpuAssign == TypeInv /\ CpuInv /\ AssignService => CpuInv'
<1> SUFFICES ASSUME TypeInv, CpuInv, AssignService PROVE CpuInv'
  OBVIOUS
<1>1. PICK s : Serves(s) /\ (Shares(s) \/ Warns(s) \/ Dedicates(s))
  BY AssignCases
<1>2. Gathered' /\ Sharing'
  BY <1>1, GatheredServes, SharingServes
<1>3. ASSUME NEW r \in 1 .. rule - 1, rules[r].cpuset # <<>>
      PROVE  Through(r)'
  BY <1>1, <1>3, ThroughServes
<1>4. rule' = rule /\ rules' = rules
  BY <1>1 DEF Serves
<1> QED
  BY <1>2, <1>3, <1>4 DEF CpuInv

LEMMA CpuNext == TypeInv /\ Untaken /\ FirstInv /\ CpuInv /\ [Next]_vars => CpuInv'
BY CpuBegin, CpuMatch, CpuUpdate, CpuAssign, CpuEnd, CpuRest, CpuStutter DEF Next

\* Each rule with a cpuset is through, at hand, or still to come.
LEMMA CpuFacts ==
  ASSUME TypeInv, FirstInv, CpuInv
  PROVE  /\ EveryoneHasCores /\ EnoughForAll /\ WarnedForReason
         /\ DistinctCores => DedicatedApart
<1>1. rule \in Nat /\ Len(rules) \in Nat
  BY RulesFacts DEF TypeInv, TypeOK
<1>2. ASSUME NEW r \in CpuRules
      PROVE  /\ \A s \in Assigned(r) : HasCores(r, s)
             /\ DistinctCores => Apart(Assigned(r))
  <2>1. CASE r < rule
    BY <1>1, <2>1 DEF CpuRules, CpuInv, Assigned, Through
  <2>2. CASE r = rule
    <3>1. pc = "assign" /\ Assigned(r) = Given
      BY <1>1, <2>2 DEF CpuRules, Assigned, Given
    <3> QED
      BY <2>2, <3>1 DEF CpuInv, Sharing
  <2>3. CASE r > rule
    <3>1. \A s \in Services : takenBy[s] <= rule /\ takenBy[s] \in Nat
      BY <1>1 DEF FirstInv, FirstOf, TypeInv, TypeOK
    <3>2. Assigned(r) = {}
      BY <1>1, <2>3, <3>1 DEF CpuRules, Assigned, Taken
    <3> QED
      BY <3>2 DEF Apart
  <2> QED
    BY <1>1, <2>1, <2>2, <2>3 DEF CpuRules
<1>3. EveryoneHasCores
  BY <1>2 DEF EveryoneHasCores, HasCores, SharedOf
<1>4. EnoughForAll
  <2>1. \A r \in CpuRules : r < rule => Through(r)
    BY <1>1 DEF CpuRules, CpuInv
  <2> QED
    BY <2>1 DEF EnoughForAll, Through
<1>5. WarnedForReason
  <2>1. group = <<>> => Given = Taken(rule)
    BY DEF Given, Cores
  <2> QED
    BY <2>1 DEF WarnedForReason, CpuInv, Sharing
<1>6. DistinctCores => DedicatedApart
  BY <1>2 DEF DedicatedApart, Apart
<1> QED
  BY <1>3, <1>4, <1>5, <1>6

\* Whatever the cpusets: everyone that a rule took ends up with cores of its cpuset, all
\* receive dedicated cores while there are enough, and nobody is turned down that the
\* cores left over would satisfy.
THEOREM NobodyWithout == Spec => [](EveryoneHasCores /\ EnoughForAll /\ WarnedForReason)
<1>1. TypeInv /\ FirstInv /\ CpuInv => EveryoneHasCores /\ EnoughForAll /\ WarnedForReason
  BY CpuFacts
<1> QED
  BY <1>1, TypeInit, TypeNext, FirstInit, FirstNext, CpuInit, CpuNext, PTL DEF Spec

\* If no cpuset lists a core twice, dedicated cores belong to one container only.  The
\* hypothesis is what the code leaves to its user: parseCpuset() accepts "4,4".
THEOREM Isolation ==
  ASSUME DistinctCores
  PROVE  Spec => []CpuIsolation
<1>1. TypeInv /\ FirstInv /\ CpuInv => CpuIsolation
  BY CpuFacts DEF CpuIsolation
<1> QED
  BY <1>1, TypeInit, TypeNext, FirstInit, FirstNext, CpuInit, CpuNext, PTL DEF Spec
=============================================================================
