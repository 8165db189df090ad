--------------------------- MODULE IPAllocProofs ---------------------------
(***************************************************************************)
(* Proofs about the address allocator, for any sets of names, any address  *)
(* space, any --ip-fixed lists and any run length.                         *)
(***************************************************************************)
EXTENDS IPAlloc, TLAPS

\* The extra numbers of a name follow its first number without a gap.
Contiguous(m) ==
  \A k \in DOMAIN m :
    m[k] # Unset => /\ m[<<k[1], 0>>] # Unset
                    /\ m[k] = m[<<k[1], 0>>] + k[2]

\* A well-formed BiMap over the keys K: pairs whose first key is always there.
BiMapOver(K, m) ==
  /\ m \in [K -> Nat \cup {Unset}]
  /\ \A k \in K : k = <<k[1], k[2]>> /\ k[2] \in Nat /\ <<k[1], 0>> \in K
  /\ \A j, k \in K : m[j] # Unset /\ m[j] = m[k] => j = k
  /\ Contiguous(m)

\* The run at first may be set for name: a run for a new name is free, and a name
\* that has a number asks for the run that begins with it.
Fits(m, name, first, count) ==
  /\ m[<<name, 0>>] \in {Unset, first}
  /\ \A i \in 0 .. count - 1 :
       (m[<<name, 0>>] # Unset => i # 0) => first + i \notin Taken(m)

\* Map s has every entry of map m.
Keeps(K, m, s) == \A k \in K : m[k] # Unset => s[k] = m[k]

LEMMA KeyShape ==
  /\ \A k \in NetKey : k = <<k[1], k[2]>> /\ k[2] = 0 /\ <<k[1], 0>> \in NetKey
  /\ \A k \in HostKey : /\ k = <<k[1], k[2]>> /\ k[2] \in Nat
                        /\ <<k[1], 0>> \in HostKey
  /\ \A n \in Nets : <<n, 0>> \in NetKey
  /\ \A h \in Hosts, i \in 0 .. MaxCount - 1 : <<h, i>> \in HostKey
BY RangeAssumption DEF NetKey, HostKey

\* What setting a run does to a well-formed map, when the run is one that
\* allocOne() or saveFixed() accepted: all entries are kept, the run is there,
\* and the map is well-formed again.
LEMMA SetRunKeeps ==
  ASSUME NEW K, NEW m, BiMapOver(K, m),
         NEW name, <<name, 0>> \in K, NEW count \in Nat \ {0}, NEW first \in Nat,
         Fits(m, name, first, count)
  PROVE  LET s == SetRun(m, name, first, count) IN
         /\ BiMapOver(K, s)
         /\ Keeps(K, m, s)
         /\ \A i \in 0 .. count - 1 : <<name, i>> \in K => s[<<name, i>>] = first + i
<1> DEFINE s == SetRun(m, name, first, count)
           InRun(k) == k[1] = name /\ k[2] < count
<1>1. /\ m \in [K -> Nat \cup {Unset}]
      /\ DOMAIN m = K
      /\ \A k \in K : k = <<k[1], k[2]>> /\ k[2] \in Nat /\ <<k[1], 0>> \in K
      /\ \A j, k \in K : m[j] # Unset /\ m[j] = m[k] => j = k
      /\ \A k \in K : m[k] # Unset => /\ m[<<k[1], 0>>] # Unset
                                      /\ m[k] = m[<<k[1], 0>>] + k[2]
  BY DEF BiMapOver, Contiguous
<1> USE DEF Fits, Keeps
<1>2. /\ DOMAIN s = K
      /\ \A k \in K : /\ InRun(k) => s[k] = first + k[2]
                      /\ ~InRun(k) /\ m[k] \in Run(first, count) => s[k] = Unset
                      /\ ~InRun(k) /\ m[k] \notin Run(first, count) => s[k] = m[k]
  BY <1>1 DEF SetRun
<1>3. \A k \in K : m[k] # Unset /\ m[k] \in Run(first, count) => k = <<name, 0>>
  <2> SUFFICES ASSUME NEW k \in K, m[k] # Unset, m[k] \in Run(first, count)
               PROVE  k = <<name, 0>>
    OBVIOUS
  <2>1. m[k] \in Taken(m)
    BY <1>1 DEF Taken
  <2>2. PICK i \in 0 .. count - 1 : m[k] = first + i
    <3>1. m[k] - first \in 0 .. count - 1 /\ m[k] = first + (m[k] - first)
      BY <1>1 DEF Run, Unset
    <3>2. QED BY <3>1
  <2>3. m[<<name, 0>>] # Unset /\ i = 0
    BY <2>1, <2>2
  <2>4. m[k] = m[<<name, 0>>]
    BY <2>2, <2>3
  <2>5. QED
    BY <2>4, <1>1
<1>4. ASSUME NEW k \in K, m[k] # Unset PROVE s[k] = m[k]
  <2>1. CASE InRun(k)
    <3>1. m[<<name, 0>>] # Unset /\ m[k] = m[<<name, 0>>] + k[2]
      BY <1>1, <1>4, <2>1
    <3>2. m[k] = first + k[2]
      BY <3>1
    <3>3. QED BY <3>2, <2>1, <1>2
  <2>2. CASE ~InRun(k)
    <3>1. k # <<name, 0>>
      BY <2>2
    <3>2. m[k] \notin Run(first, count)
      BY <3>1, <1>3, <1>4
    <3>3. QED BY <3>2, <2>2, <1>2
  <2>3. QED BY <2>1, <2>2
<1>5. ASSUME NEW k \in K, ~InRun(k) PROVE s[k] = m[k]
  <2>1. k # <<name, 0>>
    BY <1>5
  <2>2. Unset \notin Run(first, count)
    BY DEF Run, Unset
  <2>3. m[k] \notin Run(first, count)
    BY <2>1, <2>2, <1>3
  <2>4. QED BY <2>3, <1>5, <1>2
<1>6. s \in [K -> Nat \cup {Unset}]
  <2>1. \A k \in K : s[k] \in Nat \cup {Unset}
    BY <1>1, <1>2, <1>5
  <2>2. QED BY <2>1, <1>2, <1>1 DEF SetRun
<1>7. \A j, k \in K : s[j] # Unset /\ s[j] = s[k] => j = k
  <2>1. ASSUME NEW j \in K, NEW k \in K, InRun(j), InRun(k), s[j] = s[k] PROVE j = k
    BY <2>1, <1>1, <1>2
  <2>2. ASSUME NEW j \in K, NEW k \in K, InRun(j), ~InRun(k) PROVE s[j] # s[k]
    <3>1. s[j] \in Run(first, count) /\ s[j] # Unset
      BY <2>2, <1>1, <1>2 DEF Run, Unset
    <3>2. QED BY <3>1, <2>2, <1>2
  <2>3. ASSUME NEW j \in K, NEW k \in K, ~InRun(j), ~InRun(k), s[j] # Unset, s[j] = s[k]
        PROVE j = k
    BY <2>3, <1>1, <1>5
  <2>4. QED BY <2>1, <2>2, <2>3
<1>8. Contiguous(s)
  <2> SUFFICES ASSUME NEW k \in K, s[k] # Unset
               PROVE  s[<<k[1], 0>>] # Unset /\ s[k] = s[<<k[1], 0>>] + k[2]
    BY <1>2 DEF Contiguous
  <2>1. CASE InRun(k)
    <3>1. InRun(<<k[1], 0>>) /\ <<k[1], 0>> \in K
      BY <2>1, <1>1
    <3>2. s[<<k[1], 0>>] = first /\ s[k] = first + k[2]
      BY <3>1, <2>1, <1>2
    <3>3. QED BY <3>2 DEF Unset
  <2>2. CASE ~InRun(k)
    <3>1. s[k] = m[k]
      BY <2>2, <1>5
    <3>2. m[<<k[1], 0>>] # Unset /\ m[k] = m[<<k[1], 0>>] + k[2]
      BY <3>1, <1>1
    <3>3. s[<<k[1], 0>>] = m[<<k[1], 0>>]
      BY <3>2, <1>1, <1>4
    <3>4. QED BY <3>1, <3>2, <3>3
  <2>3. QED BY <2>1, <2>2
<1>9. \A i \in 0 .. count - 1 : <<name, i>> \in K => s[<<name, i>>] = first + i
  BY <1>2
<1>10. QED
  BY <1>1, <1>4, <1>6, <1>7, <1>8, <1>9 DEF BiMapOver

\* The number allocOne() settles on satisfies the premises of SetRunKeeps.
LEMMA CandidateFits ==
  ASSUME NEW m, NEW next \in Nat, NEW max, max \in Nat, NEW name, NEW count \in Nat \ {0},
         m[<<name, 0>>] \in Nat \cup {Unset},
         NEW v \in Candidates(m, next, max, name, count)
  PROVE  /\ v \in Nat
         /\ m[<<name, 0>>] = Unset => v + count - 1 <= max
         /\ Fits(m, name, v, count)
<1> USE DEF Fits
<1>1. CASE m[<<name, 0>>] # Unset
  <2>1. v = m[<<name, 0>>] /\ (v + 1 .. v + count - 1) \cap Taken(m) = {}
    BY <1>1 DEF Candidates
  <2>2. v \in Nat
    BY <2>1, <1>1
  <2>3. \A i \in 1 .. count - 1 : v + i \in v + 1 .. v + count - 1
    BY <2>2
  <2>4. QED BY <1>1, <2>1, <2>2, <2>3
<1>2. CASE m[<<name, 0>>] = Unset
  <2>1. v \in next .. max - count + 1 /\ Run(v, count) \cap Taken(m) = {}
    BY <1>2 DEF Candidates
  <2>2. \A i \in 0 .. count - 1 : v + i \in Run(v, count)
    BY <2>1 DEF Run
  <2>3. QED BY <1>2, <2>1, <2>2
<1>3. QED BY <1>1, <1>2

\* The number saveFixed() accepts satisfies them too.
LEMMA FixedFits ==
  ASSUME NEW K, NEW m, BiMapOver(K, m), NEW name, <<name, 0>> \in K,
         NEW v \in Nat, ~Conflict(m, <<name, 0>>, v)
  PROVE  Fits(m, name, v, 1)
<1>1. m[<<name, 0>>] \in {Unset, v} /\ \A k \in K : m[k] = v => k = <<name, 0>>
  BY DEF Conflict, BiMapOver
<1>2. m[<<name, 0>>] = Unset => v \notin Taken(m)
  BY <1>1 DEF Taken, BiMapOver, Unset
<1>3. QED BY <1>1, <1>2 DEF Fits

\* Dividing an address by the size of a /24.
LEMMA DivMod ==
  ASSUME NEW ip \in Nat, NEW b \in Nat \ {0}
  PROVE  /\ ip \div b \in Nat /\ ip % b \in 0 .. b - 1
         /\ ip = (ip \div b) * b + (ip % b)
BY SMT
-----------------------------------------------------------------------------
(* The inductive invariant.  Uniqueness does not rest on the counters but on *)
(* the maps being bijections whose runs have no gaps; the returned addresses *)
(* stay true because the maps never give a number back.                      *)

Netif == [net : Nets, host : Hosts, count : 1 .. MaxCount, addr : Nat]
Entry == Nets \X Hosts \X Nat

IssuedTrue(a) ==
  /\ networks[<<a.net, 0>>] # Unset
  /\ hosts[<<a.host, 0>>] # Unset
  /\ \A i \in 0 .. a.count - 1 : hosts[<<a.host, i>>] = hosts[<<a.host, 0>>] + i
  /\ a.addr = networks[<<a.net, 0>>] * Octet + hosts[<<a.host, 0>>]

FixedTrue(e) ==
  /\ networks[<<e[1], 0>>] # Unset
  /\ hosts[<<e[2], 0>>] # Unset
  /\ e[3] = networks[<<e[1], 0>>] * Octet + hosts[<<e[2], 0>>]

IssuedInv == \A a \in issued : IssuedTrue(a)

FixedInv == \A i \in 1 .. done : FixedTrue(fixed[i])

IInv ==
  /\ TypeOK
  /\ BiMapOver(NetKey, networks)
  /\ BiMapOver(HostKey, hosts)
  /\ hosts[<<Dot0, 0>>] = 0
  /\ hosts[<<Dot1, 0>>] = 1
  /\ IssuedInv
  /\ FixedInv

\* The maps only grow.
Kept ==
  /\ Keeps(NetKey, networks, networks')
  /\ Keeps(HostKey, hosts, hosts')

LEMMA InitIInv == Init => IInv
<1> SUFFICES ASSUME Init PROVE IInv
  OBVIOUS
<1>1. TypeOK
  <2>1. fixed \in Seq(Nets \X Hosts \X Nat) /\ Len(fixed) \in Nat
    BY FixedAssumption DEF Init
  <2>2. QED BY <2>1, RangeAssumption DEF Init, TypeOK, Unset
<1>2. BiMapOver(NetKey, networks)
  BY KeyShape DEF Init, BiMapOver, Contiguous, Unset
<1>3. /\ hosts \in [HostKey -> Nat \cup {Unset}]
      /\ hosts[<<Dot0, 0>>] = 0 /\ hosts[<<Dot1, 0>>] = 1
      /\ \A k \in HostKey : hosts[k] # Unset => k \in {<<Dot0, 0>>, <<Dot1, 0>>}
  BY NamesAssumption DEF Init, HostKey, Unset
<1>4. BiMapOver(HostKey, hosts)
  <2>1. \A j, k \in HostKey : hosts[j] # Unset /\ hosts[j] = hosts[k] => j = k
    BY <1>3
  <2>2. Contiguous(hosts)
    BY <1>3 DEF Contiguous
  <2>3. \A k \in HostKey : k = <<k[1], k[2]>> /\ k[2] \in Nat /\ <<k[1], 0>> \in HostKey
    BY KeyShape
  <2>4. QED BY <1>3, <2>1, <2>2, <2>3 DEF BiMapOver
<1>5. IssuedInv /\ FixedInv
  BY DEF Init, IssuedInv, FixedInv
<1>6. QED BY <1>1, <1>2, <1>3, <1>4, <1>5 DEF IInv

\* What a step that takes a network number does to the map of networks.
LEMMA TakeNetworkKeeps ==
  ASSUME IInv, NEW net \in Nets, NEW c, TakeNetwork(net, c)
  PROVE  /\ BiMapOver(NetKey, networks')
         /\ Keeps(NetKey, networks, networks')
         /\ c \in Nat /\ networks'[<<net, 0>>] = c
         /\ nextNetwork' \in Nat
<1>1. /\ BiMapOver(NetKey, networks) /\ <<net, 0>> \in NetKey
      /\ nextNetwork \in Nat /\ LastNet \in Nat /\ 1 \in Nat \ {0}
  BY KeyShape, RangeAssumption DEF IInv, TypeOK
<1>2. networks[<<net, 0>>] \in Nat \cup {Unset}
  BY <1>1 DEF BiMapOver
<1>3. /\ c \in Candidates(networks, nextNetwork, LastNet, net, 1)
      /\ networks' = SetRun(networks, net, c, 1)
      /\ nextNetwork' = Advance(networks, nextNetwork, net, c)
  BY DEF TakeNetwork
<1>4. c \in Nat /\ Fits(networks, net, c, 1)
  BY <1>1, <1>2, <1>3, CandidateFits
<1>5. /\ BiMapOver(NetKey, networks')
      /\ Keeps(NetKey, networks, networks')
      /\ \A i \in 0 .. 1 - 1 : <<net, i>> \in NetKey => networks'[<<net, i>>] = c + i
  BY <1>1, <1>3, <1>4, SetRunKeeps
<1>6. networks'[<<net, 0>>] = c
  BY <1>1, <1>4, <1>5
<1>7. nextNetwork' \in Nat
  BY <1>1, <1>3, <1>4 DEF Advance
<1>8. QED BY <1>4, <1>5, <1>6, <1>7
\* What is true of a returned address or of a fixed entry stays true when the
\* maps only grow.
LEMMA KeptTrue ==
  ASSUME IInv, Kept
  PROVE  /\ \A a \in Netif : IssuedTrue(a) => IssuedTrue(a)'
         /\ \A e \in Entry : FixedTrue(e) => FixedTrue(e)'
<1>1. hosts \in [HostKey -> Nat \cup {Unset}]
  BY DEF IInv, TypeOK
<1>2. ASSUME NEW a \in Netif, IssuedTrue(a) PROVE IssuedTrue(a)'
  <2>1. /\ <<a.net, 0>> \in NetKey /\ <<a.host, 0>> \in HostKey
        /\ \A i \in 0 .. a.count - 1 : <<a.host, i>> \in HostKey
    BY KeyShape, RangeAssumption DEF Netif
  <2>2. /\ networks'[<<a.net, 0>>] = networks[<<a.net, 0>>]
        /\ hosts'[<<a.host, 0>>] = hosts[<<a.host, 0>>]
    BY <1>2, <2>1 DEF Kept, Keeps, IssuedTrue
  <2>3. \A i \in 0 .. a.count - 1 : hosts[<<a.host, i>>] # Unset
    BY <1>1, <1>2, <2>1 DEF IssuedTrue, Unset
  <2>4. \A i \in 0 .. a.count - 1 : hosts'[<<a.host, i>>] = hosts[<<a.host, i>>]
    BY <2>1, <2>3 DEF Kept, Keeps
  <2>5. QED BY <1>2, <2>2, <2>4 DEF IssuedTrue
<1>3. ASSUME NEW e \in Entry, FixedTrue(e) PROVE FixedTrue(e)'
  <2>1. <<e[1], 0>> \in NetKey /\ <<e[2], 0>> \in HostKey
    BY KeyShape, RangeAssumption DEF Entry
  <2>2. QED BY <1>3, <2>1 DEF FixedTrue, Kept, Keeps
<1>4. QED BY <1>2, <1>3

\* Hence a step that adds nothing to either list preserves what they say.
LEMMA KeptInv ==
  ASSUME IInv, Kept, issued' = issued, fixed' = fixed, done' = done
  PROVE  IssuedInv' /\ FixedInv'
<1>1. /\ issued \subseteq Netif
      /\ \A i \in 1 .. done : fixed[i] \in Entry
  BY FixedAssumption DEF IInv, TypeOK, Netif, Entry
<1>2. IssuedInv'
  BY <1>1, KeptTrue DEF IInv, IssuedInv
<1>3. \A i \in 1 .. done : FixedTrue(fixed[i])'
  BY <1>1, KeptTrue DEF IInv, FixedInv, FixedTrue
<1>4. QED BY <1>2, <1>3 DEF FixedInv

\* An accepted assignment of a host number, whether fixed or allocated.
LEMMA SetHostKeeps ==
  ASSUME IInv, NEW host \in Hosts, NEW count \in 1 .. MaxCount, NEW d \in Nat,
         Fits(hosts, host, d, count), hosts' = SetRun(hosts, host, d, count)
  PROVE  /\ BiMapOver(HostKey, hosts')
         /\ Keeps(HostKey, hosts, hosts')
         /\ \A i \in 0 .. count - 1 : hosts'[<<host, i>>] = d + i
         /\ hosts'[<<host, 0>>] = d
         /\ hosts'[<<Dot0, 0>>] = 0 /\ hosts'[<<Dot1, 0>>] = 1
<1>1. /\ BiMapOver(HostKey, hosts) /\ <<host, 0>> \in HostKey
      /\ count \in Nat \ {0}
      /\ \A i \in 0 .. count - 1 : <<host, i>> \in HostKey
  BY KeyShape, RangeAssumption DEF IInv
<1>2. /\ BiMapOver(HostKey, hosts')
      /\ Keeps(HostKey, hosts, hosts')
      /\ \A i \in 0 .. count - 1 : <<host, i>> \in HostKey => hosts'[<<host, i>>] = d + i
  BY <1>1, SetRunKeeps
<1>3. \A i \in 0 .. count - 1 : hosts'[<<host, i>>] = d + i
  BY <1>1, <1>2
<1>4. hosts'[<<host, 0>>] = d
  BY <1>1, <1>3
<1>5. hosts'[<<Dot0, 0>>] = 0 /\ hosts'[<<Dot1, 0>>] = 1
  BY <1>2 DEF IInv, Keeps, HostKey, Unset
<1>6. QED BY <1>2, <1>3, <1>4, <1>5

LEMMA OverrunNat ==
  ASSUME NEW m, NEW next \in Nat, NEW max \in Nat, NEW name, NEW count \in 1 .. MaxCount
  PROVE  Overrun(m, next, max, name, count) \in Nat
<1>1. CASE next > max - count + 1
  BY <1>1, RangeAssumption DEF Overrun
<1>2. CASE ~(next > max - count + 1)
  BY <1>2, RangeAssumption DEF Overrun
<1>3. QED BY <1>1, <1>2

LEMMA SaveFixedStep == IInv /\ SaveFixed => IInv' /\ Kept
<1> SUFFICES ASSUME IInv, SaveFixed PROVE IInv' /\ Kept
  OBVIOUS
<1> DEFINE net  == fixed[done + 1][1]
           host == fixed[done + 1][2]
           ip   == fixed[done + 1][3]
           c    == ip \div Octet
           d    == ip % Octet
<1>1. /\ done \in 0 .. Len(fixed) /\ done < Len(fixed)
      /\ fixed \in Seq(Entry) /\ Len(fixed) \in Nat
      /\ done + 1 \in 1 .. Len(fixed)
  <2>1. done < Len(fixed)
    BY DEF SaveFixed
  <2>2. done \in 0 .. Len(fixed) /\ fixed \in Seq(Entry)
    BY FixedAssumption DEF IInv, TypeOK, Entry
  <2>3. QED BY <2>1, <2>2
<1>2. net \in Nets /\ host \in Hosts /\ ip \in Nat
  BY <1>1 DEF Entry
<1> HIDE DEF net, host, ip
<1>3. c \in Nat /\ d \in Nat /\ ip = c * Octet + d
  <2>1. /\ ip \div Octet \in Nat /\ ip % Octet \in 0 .. Octet - 1
        /\ ip = (ip \div Octet) * Octet + (ip % Octet)
    BY <1>2, DivMod, RangeAssumption
  <2>2. QED BY <2>1
<1>4. BiMapOver(NetKey, networks) /\ BiMapOver(HostKey, hosts)
      /\ <<net, 0>> \in NetKey /\ <<host, 0>> \in HostKey
      /\ 1 \in Nat \ {0} /\ 1 \in 1 .. MaxCount
  BY <1>2, KeyShape, RangeAssumption DEF IInv
<1>5. UNCHANGED <<nextNetwork, nextHost, fixed, issued>>
  BY DEF SaveFixed
<1> HIDE DEF c, d
<1>6. CASE /\ Conflict(networks, <<net, 0>>, c)
           /\ status' = "conflicting assignment"
           /\ UNCHANGED <<networks, hosts, done>>
  <2>1. Kept
    BY <1>6 DEF Kept, Keeps
  <2>2. TypeOK'
    BY <1>5, <1>6 DEF IInv, TypeOK, Errors
  <2>3. QED BY <1>5, <1>6, <2>1, <2>2, KeptInv DEF IInv
<1>7. ASSUME ~Conflict(networks, <<net, 0>>, c), networks' = SetRun(networks, net, c, 1)
      PROVE  /\ BiMapOver(NetKey, networks') /\ Keeps(NetKey, networks, networks')
             /\ networks' \in [NetKey -> Nat \cup {Unset}]
             /\ networks'[<<net, 0>>] = c
  <2>1. Fits(networks, net, c, 1)
    BY <1>3, <1>4, <1>7, FixedFits
  <2>2. /\ BiMapOver(NetKey, networks') /\ Keeps(NetKey, networks, networks')
        /\ \A i \in 0 .. 1 - 1 : <<net, i>> \in NetKey => networks'[<<net, i>>] = c + i
    BY <1>3, <1>4, <1>7, <2>1, SetRunKeeps
  <2>3. QED BY <2>2, <1>3, <1>4 DEF BiMapOver
<1>8. CASE /\ ~Conflict(networks, <<net, 0>>, c)
           /\ networks' = SetRun(networks, net, c, 1)
           /\ Conflict(hosts, <<host, 0>>, d)
           /\ status' = "conflicting assignment"
           /\ UNCHANGED <<hosts, done>>
  <2>1. Kept
    BY <1>7, <1>8 DEF Kept, Keeps
  <2>2. TypeOK'
    BY <1>5, <1>7, <1>8 DEF IInv, TypeOK, Errors
  <2>3. QED BY <1>5, <1>7, <1>8, <2>1, <2>2, KeptInv DEF IInv
<1>9. CASE /\ ~Conflict(networks, <<net, 0>>, c)
           /\ networks' = SetRun(networks, net, c, 1)
           /\ ~Conflict(hosts, <<host, 0>>, d)
           /\ hosts' = SetRun(hosts, host, d, 1)
           /\ done' = done + 1
           /\ status' = status
  <2>1. Fits(hosts, host, d, 1)
    BY <1>3, <1>4, <1>9, FixedFits
  <2>2. /\ BiMapOver(HostKey, hosts') /\ Keeps(HostKey, hosts, hosts')
        /\ hosts'[<<host, 0>>] = d
        /\ hosts'[<<Dot0, 0>>] = 0 /\ hosts'[<<Dot1, 0>>] = 1
    BY <1>2, <1>3, <1>4, <1>9, <2>1, SetHostKeeps
  <2>3. Kept
    BY <1>7, <1>9, <2>2 DEF Kept
  <2>4. TypeOK'
    <3>1. hosts' \in [HostKey -> Nat \cup {Unset}]
      BY <2>2 DEF BiMapOver
    <3>2. QED BY <1>1, <1>5, <1>7, <1>9, <3>1 DEF IInv, TypeOK
  <2>5. IssuedInv'
    BY <1>5, <2>3, KeptTrue DEF IInv, TypeOK, Netif, IssuedInv
  <2>6. FixedInv'
    <3>1. \A i \in 1 .. done : fixed[i] \in Entry
      BY <1>1
    <3>2. \A i \in 1 .. done : FixedTrue(fixed[i])'
      BY <1>5, <2>3, <3>1, KeptTrue DEF IInv, FixedInv, FixedTrue
    <3>3. \A i \in 1 .. done + 1 : i = done + 1 => FixedTrue(fixed[i])'
      <4>1. /\ networks'[<<net, 0>>] = c /\ hosts'[<<host, 0>>] = d
            /\ ip = networks'[<<net, 0>>] * Octet + hosts'[<<host, 0>>]
            /\ c # Unset /\ d # Unset /\ fixed' = fixed
        BY <1>3, <1>5, <1>7, <1>9, <2>2 DEF Unset
      <4>2. QED BY <4>1 DEF FixedTrue, net, host, ip
    <3>4. \A i \in 1 .. done + 1 : i \in 1 .. done \/ i = done + 1
      BY <1>1
    <3>5. \A i \in 1 .. done + 1 : FixedTrue(fixed[i])'
      BY <3>2, <3>3, <3>4
    <3>6. QED BY <3>5, <1>9 DEF FixedInv
  <2>7. QED BY <1>7, <1>9, <2>2, <2>3, <2>4, <2>5, <2>6 DEF IInv
<1>10. QED
  BY <1>6, <1>8, <1>9 DEF SaveFixed, net, host, ip, c, d

\* A step that fails to find a network number leaves both maps alone.
LEMMA NoNetworkStep ==
  ASSUME IInv, NEW net \in Nets, NoNetwork(net) PROVE IInv' /\ Kept
<1>1. /\ status' = "too many networks"
      /\ nextNetwork' = Overrun(networks, nextNetwork, LastNet, net, 1)
      /\ UNCHANGED <<networks, hosts, nextHost, fixed, done, issued>>
  BY DEF NoNetwork
<1>2. nextNetwork' \in Nat
  <2>1. nextNetwork \in Nat /\ LastNet \in Nat /\ 1 \in 1 .. MaxCount
    BY RangeAssumption DEF IInv, TypeOK
  <2>2. QED BY <1>1, <2>1, OverrunNat
<1>3. TypeOK'
  BY <1>1, <1>2 DEF IInv, TypeOK, Errors
<1>4. Kept
  BY <1>1 DEF Kept, Keeps
<1>5. QED BY <1>1, <1>3, <1>4, KeptInv DEF IInv

LEMMA AllocNetworkStep ==
  ASSUME IInv, NEW net \in Nets, AllocNetwork(net) PROVE IInv' /\ Kept
<1>1. CASE NoNetwork(net)
  BY <1>1, NoNetworkStep
<1>2. ASSUME NEW c, TakeNetwork(net, c),
             UNCHANGED <<hosts, nextHost, fixed, done, status, issued>>
      PROVE  IInv' /\ Kept
  <2>1. /\ BiMapOver(NetKey, networks') /\ Keeps(NetKey, networks, networks')
        /\ nextNetwork' \in Nat
    BY <1>2, TakeNetworkKeeps
  <2>2. TypeOK'
    BY <1>2, <2>1 DEF IInv, TypeOK, BiMapOver
  <2>3. Kept
    BY <1>2, <2>1 DEF Kept, Keeps
  <2>4. QED BY <1>2, <2>1, <2>2, <2>3, KeptInv DEF IInv
<1>3. QED BY <1>1, <1>2 DEF AllocNetwork

LEMMA AllocNetifStep ==
  ASSUME IInv, NEW net \in Nets, NEW host \in Hosts, NEW count \in 1 .. MaxCount,
         AllocNetif(net, host, count)
  PROVE  IInv' /\ Kept
<1>1. CASE NoNetwork(net)
  BY <1>1, NoNetworkStep
<1>2. ASSUME NEW c, TakeNetwork(net, c), UNCHANGED <<fixed, done>>,
             Candidates(hosts, nextHost, LastHost, host, count) = {},
             nextHost' = Overrun(hosts, nextHost, LastHost, host, count),
             status' \in Errors, UNCHANGED <<hosts, issued>>
      PROVE  IInv' /\ Kept
  <2>1. /\ BiMapOver(NetKey, networks') /\ Keeps(NetKey, networks, networks')
        /\ nextNetwork' \in Nat
    BY <1>2, TakeNetworkKeeps
  <2>2. nextHost' \in Nat
    BY <1>2, OverrunNat, RangeAssumption DEF IInv, TypeOK
  <2>3. TypeOK'
    BY <1>2, <2>1, <2>2 DEF IInv, TypeOK, BiMapOver
  <2>4. Kept
    BY <1>2, <2>1 DEF Kept, Keeps
  <2>5. QED BY <1>2, <2>1, <2>3, <2>4, KeptInv DEF IInv
<1>3. ASSUME NEW c, TakeNetwork(net, c), UNCHANGED <<fixed, done, status>>,
             NEW d \in Candidates(hosts, nextHost, LastHost, host, count),
             hosts' = SetRun(hosts, host, d, count),
             nextHost' = Advance(hosts, nextHost, host, d),
             issued' = issued \cup
               {[net |-> net, host |-> host, count |-> count, addr |-> c * Octet + d]}
      PROVE  IInv' /\ Kept
  <2> DEFINE new == [net |-> net, host |-> host, count |-> count, addr |-> c * Octet + d]
  <2>1. /\ BiMapOver(NetKey, networks') /\ Keeps(NetKey, networks, networks')
        /\ c \in Nat /\ networks'[<<net, 0>>] = c
        /\ nextNetwork' \in Nat
    BY <1>3, TakeNetworkKeeps
  <2>2. /\ <<host, 0>> \in HostKey /\ nextHost \in Nat /\ LastHost \in Nat
        /\ hosts[<<host, 0>>] \in Nat \cup {Unset} /\ count \in Nat \ {0}
    BY KeyShape, RangeAssumption DEF IInv, TypeOK
  <2>3. d \in Nat /\ Fits(hosts, host, d, count)
    BY <1>3, <2>2, CandidateFits
  <2>4. /\ BiMapOver(HostKey, hosts') /\ Keeps(HostKey, hosts, hosts')
        /\ \A i \in 0 .. count - 1 : hosts'[<<host, i>>] = d + i
        /\ hosts'[<<host, 0>>] = d
        /\ hosts'[<<Dot0, 0>>] = 0 /\ hosts'[<<Dot1, 0>>] = 1
    BY <1>3, <2>3, SetHostKeeps
  <2>5. nextHost' \in Nat
    BY <1>3, <2>2, <2>3 DEF Advance
  <2>6. new \in Netif
    BY <2>1, <2>3, RangeAssumption DEF Netif
  <2>7. TypeOK'
    BY <1>3, <2>1, <2>4, <2>5, <2>6 DEF IInv, TypeOK, BiMapOver, Netif
  <2>8. Kept
    BY <2>1, <2>4 DEF Kept
  <2>9. IssuedInv'
    <3>1. IssuedTrue(new)'
      <4>1. /\ new.net = net /\ new.host = host /\ new.count = count
            /\ new.addr = networks'[<<net, 0>>] * Octet + hosts'[<<host, 0>>]
        BY <2>1, <2>4
      <4>2. /\ networks'[<<net, 0>>] # Unset /\ hosts'[<<host, 0>>] # Unset
            /\ \A i \in 0 .. count - 1 : hosts'[<<host, i>>] = hosts'[<<host, 0>>] + i
        BY <2>1, <2>3, <2>4 DEF Unset
      <4> HIDE DEF new
      <4>3. QED BY <4>1, <4>2 DEF IssuedTrue
    <3>2. \A a \in issued : IssuedTrue(a)'
      BY <2>8, KeptTrue DEF IInv, TypeOK, Netif, IssuedInv
    <3>3. QED BY <1>3, <3>1, <3>2 DEF IssuedInv
  <2>10. FixedInv'
    <3>1. \A i \in 1 .. done : fixed[i] \in Entry
      BY FixedAssumption DEF IInv, TypeOK, Entry
    <3>2. \A i \in 1 .. done : FixedTrue(fixed[i])'
      BY <1>3, <2>8, <3>1, KeptTrue DEF IInv, FixedInv, FixedTrue
    <3>3. QED BY <1>3, <3>2 DEF FixedInv
  <2>11. QED BY <2>1, <2>4, <2>7, <2>8, <2>9, <2>10 DEF IInv
<1>4. QED BY <1>1, <1>2, <1>3 DEF AllocNetif, Errors

\* Every step keeps the invariant, and keeps every entry of both maps.
LEMMA NextIInv == IInv /\ [Next]_vars => IInv' /\ Kept
<1> SUFFICES ASSUME IInv, [Next]_vars PROVE IInv' /\ Kept
  OBVIOUS
<1>1. CASE SaveFixed
  BY <1>1, SaveFixedStep
<1>2. ASSUME NEW net \in Nets, AllocNetwork(net) PROVE IInv' /\ Kept
  BY <1>2, AllocNetworkStep
<1>3. ASSUME NEW net \in Nets, NEW host \in Hosts, NEW count \in 1 .. MaxCount,
             AllocNetif(net, host, count)
      PROVE  IInv' /\ Kept
  BY <1>3, AllocNetifStep
<1>4. CASE UNCHANGED vars
  <2>1. Kept
    BY <1>4 DEF vars, Kept, Keeps
  <2>2. TypeOK'
    BY <1>4 DEF vars, IInv, TypeOK
  <2>3. QED BY <1>4, <2>1, <2>2, KeptInv DEF vars, IInv
<1>5. QED BY <1>1, <1>2, <1>3, <1>4 DEF Next

\* The conjunction of the type invariant, the bijections and what the returned
\* addresses and the fixed entries say holds in every reachable state.
THEOREM Invariance == Spec => []IInv
<1>1. IInv /\ [Next]_vars => IInv'
  BY NextIInv
<1>2. QED BY InitIInv, <1>1, PTL DEF Spec
-----------------------------------------------------------------------------
(* What the rest of the generator relies on.                                 *)

\* Every variable of the allocator stays within its type.
THEOREM TypeCorrect == Spec => []TypeOK
<1>1. IInv => TypeOK
  BY DEF IInv
<1>2. QED BY Invariance, <1>1, PTL

\* A container's host number, once given, never changes and is never given to
\* another container: the map of hosts implements the abstract numbering.
THEOREM HostNumbersStay == Spec => HostNumbersKept
<1>1. IInv => HostNumbering!Init
  BY DEF IInv, BiMapOver, HostNumbering!Init, HostNumbering!Injective
<1>2. IInv /\ IInv' /\ Kept => HostNumbering!Claim
  BY DEF IInv, BiMapOver, Kept, Keeps, HostNumbering!Claim, HostNumbering!Injective
<1>3. IInv /\ [Next]_vars => [HostNumbering!Claim]_hosts
  BY <1>2, NextIInv
<1>4. QED BY Invariance, InitIInv, <1>1, <1>3, PTL DEF Spec, HostNumbersKept, HostNumbering!Spec

\* The same for the /24 of every network.
THEOREM NetNumbersStay == Spec => NetNumbersKept
<1>1. IInv => NetNumbering!Init
  BY DEF IInv, BiMapOver, NetNumbering!Init, NetNumbering!Injective
<1>2. IInv /\ IInv' /\ Kept => NetNumbering!Claim
  BY DEF IInv, BiMapOver, Kept, Keeps, NetNumbering!Claim, NetNumbering!Injective
<1>3. IInv /\ [Next]_vars => [NetNumbering!Claim]_networks
  BY <1>2, NextIInv
<1>4. QED BY Invariance, InitIInv, <1>1, <1>3, PTL DEF Spec, NetNumbersKept, NetNumbering!Spec

\* Two containers never share a host number, extra numbers included, and every
\* address returned is still the address of that netif.
THEOREM RangesDisjoint == Spec => []HostRangesDisjoint
<1>1. ASSUME IInv PROVE HostRangesDisjoint
  <2>1. issued \subseteq Netif /\ IssuedInv /\ BiMapOver(HostKey, hosts)
    BY <1>1 DEF IInv, TypeOK, Netif
  <2>2. ASSUME NEW a \in issued, NEW b \in issued, NEW x,
               x \in Run(hosts[<<a.host, 0>>], a.count),
               x \in Run(hosts[<<b.host, 0>>], b.count)
        PROVE  a.host = b.host
    <3>1. /\ hosts[<<a.host, 0>>] \in Nat /\ hosts[<<b.host, 0>>] \in Nat
          /\ a.count \in Nat /\ b.count \in Nat
      <4>1. /\ a.host \in Hosts /\ b.host \in Hosts
            /\ a.count \in Nat /\ b.count \in Nat
        BY <2>1, RangeAssumption DEF Netif
      <4>2. <<a.host, 0>> \in HostKey /\ <<b.host, 0>> \in HostKey
        BY <4>1, KeyShape, RangeAssumption
      <4>3. hosts[<<a.host, 0>>] # Unset /\ hosts[<<b.host, 0>>] # Unset
        BY <2>1 DEF IssuedInv, IssuedTrue
      <4>4. QED BY <2>1, <4>1, <4>2, <4>3 DEF BiMapOver
    <3>2. PICK i \in 0 .. a.count - 1 : x = hosts[<<a.host, 0>>] + i
      <4>1. /\ x - hosts[<<a.host, 0>>] \in 0 .. a.count - 1
            /\ x = hosts[<<a.host, 0>>] + (x - hosts[<<a.host, 0>>])
        BY <2>2, <3>1 DEF Run
      <4>2. QED BY <4>1
    <3>3. PICK j \in 0 .. b.count - 1 : x = hosts[<<b.host, 0>>] + j
      <4>1. /\ x - hosts[<<b.host, 0>>] \in 0 .. b.count - 1
            /\ x = hosts[<<b.host, 0>>] + (x - hosts[<<b.host, 0>>])
        BY <2>2, <3>1 DEF Run
      <4>2. QED BY <4>1
    <3>4. hosts[<<a.host, i>>] = x /\ hosts[<<b.host, j>>] = x /\ x # Unset
      <4>1. hosts[<<a.host, i>>] = x
        BY <2>1, <3>2 DEF IssuedInv, IssuedTrue
      <4>2. hosts[<<b.host, j>>] = x
        BY <2>1, <3>3 DEF IssuedInv, IssuedTrue
      <4>3. QED BY <3>1, <3>2, <4>1, <4>2 DEF Unset
    <3>5. <<a.host, i>> \in HostKey /\ <<b.host, j>> \in HostKey
      BY <2>1, KeyShape, RangeAssumption DEF Netif
    <3>6. <<a.host, i>> = <<b.host, j>>
      BY <2>1, <3>4, <3>5 DEF BiMapOver
    <3>7. QED BY <3>6
  <2>3. QED BY <2>1, <2>2 DEF HostRangesDisjoint, IssuedInv, IssuedTrue
<1>2. QED BY Invariance, <1>1, PTL

\* Neither numbering ever changes what it has given.
THEOREM NumbersStay == Spec => NumbersKept
BY HostNumbersStay, NetNumbersStay DEF NumbersKept

\* Every --ip-fixed entry that was accepted keeps its address.
THEOREM FixedStay == Spec => []FixedHonoured
<1>1. IInv => FixedHonoured
  BY DEF IInv, FixedInv, FixedTrue, FixedHonoured
<1>2. QED BY Invariance, <1>1, PTL

\* No container holds the number of the subnet or of the gateway.
THEOREM GatewayFree == Spec => []GatewayReserved
<1>1. ASSUME IInv, NEW k \in HostKey, k[1] \in Hosts PROVE hosts[k] \notin {0, 1}
  <2>1. k # <<Dot0, 0>> /\ k # <<Dot1, 0>>
    BY <1>1, NamesAssumption
  <2>2. <<Dot0, 0>> \in HostKey /\ <<Dot1, 0>> \in HostKey
    BY DEF HostKey
  <2>3. QED BY <1>1, <2>1, <2>2 DEF IInv, BiMapOver, Unset
<1>2. IInv => GatewayReserved
  BY <1>1 DEF GatewayReserved
<1>3. QED BY Invariance, <1>2, PTL

\* What is assigned before the first call is there for good.
THEOREM AssignmentsStay == Spec => []AssignmentsHonoured
<1>1. FixedHonoured /\ GatewayReserved => AssignmentsHonoured
  BY DEF AssignmentsHonoured
<1>2. QED BY FixedStay, GatewayFree, <1>1, PTL
-----------------------------------------------------------------------------
(* Nothing is left behind: below a counter every number has an owner.        *)

LEMMA TakenGrows ==
  ASSUME NEW K, NEW m, NEW s, BiMapOver(K, m), BiMapOver(K, s), Keeps(K, m, s)
  PROVE  Taken(m) \subseteq Taken(s)
<1>1. DOMAIN m = K /\ DOMAIN s = K
  BY DEF BiMapOver
<1>2. QED BY <1>1 DEF Taken, Keeps

\* The counter passes a single number only when it is taken.
LEMMA StaysFull ==
  ASSUME NEW m, NEW s, NEW next \in Nat, NEW max, NEW low \in Nat, NEW name, NEW v \in Nat,
         v \in Candidates(m, next, max, name, 1),
         Taken(m) \subseteq Taken(s), <<name, 0>> \in DOMAIN s, s[<<name, 0>>] = v,
         low .. next - 1 \subseteq Taken(m)
  PROVE  low .. Advance(m, next, name, v) - 1 \subseteq Taken(s)
<1>1. v \in Taken(s)
  BY DEF Taken, Unset
<1>2. CASE m[<<name, 0>>] # Unset
  BY <1>2 DEF Advance
<1>3. CASE m[<<name, 0>>] = Unset
  <2>1. /\ Advance(m, next, name, v) = v + 1
        /\ v >= next /\ \A w \in next .. v - 1 : Run(w, 1) \cap Taken(m) # {}
    BY <1>3 DEF Advance, Candidates
  <2>2. ASSUME NEW w \in next .. v - 1
        PROVE  w \in Taken(m)
    <3>1. \A x \in Run(w, 1) : x = w
      BY DEF Run
    <3>2. QED BY <2>1, <3>1
  <2>3. \A x \in low .. v : x \in low .. next - 1 \/ x \in next .. v - 1 \/ x = v
    OBVIOUS
  <2>4. \A x \in low .. v : x \in Taken(s)
    BY <1>1, <2>2, <2>3
  <2>5. QED BY <2>1, <2>4
<1>4. QED BY <1>2, <1>3

\* A search for a run of host numbers passes free ones, each of them because of a number
\* that is taken within its run.
LEMMA PassedForRun ==
  ASSUME NEW m, NEW s, NEW next \in Nat, NEW max, NEW name, NEW count \in Nat \ {0}, NEW v \in Nat,
         v \in Candidates(m, next, max, name, count),
         Taken(m) \subseteq Taken(s), <<name, 0>> \in DOMAIN s, s[<<name, 0>>] = v,
         NEW n \in next .. Advance(m, next, name, v) - 1, n \notin Taken(s)
  PROVE  (n + 1 .. n + count - 1) \cap Taken(s) # {}
<1>1. v \in Taken(s)
  BY DEF Taken, Unset
<1>2. m[<<name, 0>>] = Unset
  BY DEF Advance
<1>3. /\ Advance(m, next, name, v) = v + 1
      /\ v >= next /\ \A w \in next .. v - 1 : Run(w, count) \cap Taken(m) # {}
  BY <1>2 DEF Advance, Candidates
<1>4. n \in next .. v - 1
  BY <1>1, <1>3
<1>5. PICK x \in Run(n, count) : x \in Taken(m)
  BY <1>3, <1>4
<1>6. x \in n + 1 .. n + count - 1
  BY <1>5 DEF Run
<1>7. QED BY <1>5, <1>6

\* Every network below the counter belongs to somebody, and every host number but those
\* where a run did not fit: the plan has room for 64 networks and 253 containers.
THEOREM NothingWasted == Spec => []NoNumberWasted
<1> DEFINE Blocked(n) == \E a \in issued : (n + 1 .. n + a.count - 1) \cap Taken(hosts) # {}
           Full == \A n \in 2 .. nextHost - 1 : n \in Taken(hosts) \/ Blocked(n)
<1>1. Init => NoNumberWasted
  BY RangeAssumption DEF Init, NoNumberWasted
<1>2. IInv /\ NoNumberWasted /\ [Next]_vars => NoNumberWasted'
  <2> SUFFICES ASSUME IInv, IInv', Kept, NoNumberWasted, [Next]_vars, status' = "ok"
               PROVE  /\ FirstNet .. nextNetwork' - 1 \subseteq Taken(networks')
                      /\ Full'
    BY NextIInv DEF NoNumberWasted, Taken
  <2>1. Taken(networks) \subseteq Taken(networks') /\ Taken(hosts) \subseteq Taken(hosts')
    BY TakenGrows DEF IInv, Kept
  <2>2. status = "ok" => FirstNet .. nextNetwork - 1 \subseteq Taken(networks) /\ Full
    BY DEF NoNumberWasted
  <2>3. ASSUME issued \subseteq issued', status = "ok"
        PROVE  \A n \in 2 .. nextHost - 1 : n \in Taken(hosts') \/ Blocked(n)'
    BY <2>1, <2>2, <2>3 DEF Taken
  <2>4. ASSUME NEW net \in Nets, NEW c, TakeNetwork(net, c), status = "ok"
        PROVE  FirstNet .. nextNetwork' - 1 \subseteq Taken(networks')
    <3>1. c \in Nat /\ networks'[<<net, 0>>] = c /\ nextNetwork \in Nat /\ FirstNet \in Nat
      BY <2>4, TakeNetworkKeeps, RangeAssumption DEF IInv, TypeOK
    <3>2. <<net, 0>> \in DOMAIN networks'
      BY KeyShape DEF IInv, TypeOK
    <3>3. QED BY <2>1, <2>2, <2>4, <3>1, <3>2, StaysFull DEF TakeNetwork
  <2>5. CASE SaveFixed
    <3>1. status = "ok" /\ UNCHANGED <<nextNetwork, nextHost, issued>>
      BY <2>5 DEF SaveFixed
    <3>2. QED BY <2>1, <2>2, <2>3, <3>1
  <2>6. ASSUME NEW net \in Nets, AllocNetwork(net)
        PROVE  FirstNet .. nextNetwork' - 1 \subseteq Taken(networks') /\ Full'
    <3>1. status = "ok" /\ ~ NoNetwork(net)
      BY <2>6 DEF AllocNetwork, Constructed, NoNetwork
    <3>2. PICK c : TakeNetwork(net, c) /\ UNCHANGED <<hosts, nextHost, issued>>
      BY <2>6, <3>1 DEF AllocNetwork
    <3>3. QED BY <2>3, <2>4, <3>1, <3>2
  <2>7. ASSUME NEW net \in Nets, NEW host \in Hosts, NEW count \in 1 .. MaxCount,
               AllocNetif(net, host, count)
        PROVE  FirstNet .. nextNetwork' - 1 \subseteq Taken(networks') /\ Full'
    <3>1. status = "ok" /\ ~ NoNetwork(net)
      BY <2>7 DEF AllocNetif, Constructed, NoNetwork
    <3>2. PICK c : TakeNetwork(net, c)
      BY <2>7, <3>1 DEF AllocNetif
    <3>3. PICK d \in Candidates(hosts, nextHost, LastHost, host, count) :
            /\ hosts' = SetRun(hosts, host, d, count)
            /\ nextHost' = Advance(hosts, nextHost, host, d)
            /\ \E a : a.count = count /\ issued' = issued \cup {a}
      BY <2>7, <3>1 DEF AllocNetif
    <3>4. /\ <<host, 0>> \in HostKey /\ nextHost \in Nat /\ LastHost \in Nat
          /\ hosts[<<host, 0>>] \in Nat \cup {Unset} /\ count \in Nat \ {0}
      BY KeyShape, RangeAssumption DEF IInv, TypeOK
    <3>5. d \in Nat
      BY <3>3, <3>4, CandidateFits
    <3>6. <<host, 0>> \in DOMAIN hosts' /\ hosts'[<<host, 0>>] = d
      BY <3>3, <3>4, <3>5 DEF SetRun, IInv, TypeOK
    <3>7. ASSUME NEW n \in nextHost .. nextHost' - 1, n \notin Taken(hosts')
          PROVE  Blocked(n)'
      <4>1. (n + 1 .. n + count - 1) \cap Taken(hosts') # {}
        BY <2>1, <3>3, <3>4, <3>5, <3>6, <3>7, PassedForRun
      <4>2. QED BY <3>3, <4>1 DEF Taken
    <3>8. nextHost' \in Nat
      BY DEF IInv, TypeOK
    <3>9. \A a, b \in Nat : \A n \in 2 .. b - 1 : n \in 2 .. a - 1 \/ n \in a .. b - 1
      OBVIOUS
    <3>10. Full'
      <4>1. \A n \in 2 .. nextHost' - 1 : n \in 2 .. nextHost - 1 \/ n \in nextHost .. nextHost' - 1
        BY <3>4, <3>8, <3>9
      <4>2. issued \subseteq issued'
        BY <3>3
      <4>3. QED BY <2>3, <3>1, <3>7, <4>1, <4>2 DEF Taken
    <3>11. QED BY <2>4, <3>1, <3>2, <3>10
  <2>8. CASE UNCHANGED vars
    BY <2>2, <2>8 DEF vars, Taken
  <2>9. QED BY <2>5, <2>6, <2>7, <2>8 DEF Next
<1>3. QED BY Invariance, <1>1, <1>2, PTL DEF Spec
=============================================================================
