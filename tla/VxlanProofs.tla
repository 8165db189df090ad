---------------------------- MODULE VxlanProofs ----------------------------
(***************************************************************************)
(* Proofs about Vxlan, for all flags and machines, wherever the scripts    *)
(* are and however often they were killed.                                 *)
(*                                                                         *)
(* The first invariant says that every link on a machine, left over or     *)
(* not, is one the script of that machine asks for; the arithmetic of the  *)
(* VNI does the rest as long as the IP sets are small enough for its       *)
(* decimal fields.  The second says what the cleanup list has: all that a  *)
(* running script has set up.  The third says what the links are: all that *)
(* an undisturbed script has gone past.                                    *)
(***************************************************************************)
EXTENDS Vxlan, ListProofs, FiniteSetTheorems

\* An IP set of the flags.
IsIpset(i, k) == i \in DOMAIN Flags /\ k \in DOMAIN Flags[i].ipsets

\* The script of machine h builds the tunnel from address s to address p.
Builds(h, i, k, s, p) ==
  /\ IsIpset(i, k)
  /\ s \in DOMAIN Ipset(i, k)
  /\ p \in DOMAIN Ipset(i, k)
  /\ IsFirst(s, Own(h, i, k))
  /\ Tunnelled(s, p)

FromScript ==
  \A h \in Machines : \A l \in links[h] :
    \E i, k, s, p \in Nat : Builds(h, i, k, s, p) /\ l = Link(i, k, s, p)

\* Where the script of a machine is, its counters point into the flags.
AtIpset(h) ==
  /\ flag[h] <= Len(Flags) => IsIpset(flag[h], set[h])
  /\ pc[h] \in {"wait", "tunnel", "add"} =>
       /\ IsIpset(flag[h], set[h])
       /\ IsFirst(self[h], Own(h, flag[h], set[h]))
  /\ pc[h] = "add" =>
       /\ peer[h] \in DOMAIN Ipset(flag[h], set[h])
       /\ Tunnelled(self[h], peer[h])

IInv == TypeOK /\ FromScript /\ \A h \in Machines : AtIpset(h)
-----------------------------------------------------------------------------
(* The flags, and the numbers made from them.                               *)

LEMMA Element ==
  ASSUME NEW T, NEW s \in Seq(T), NEW i \in DOMAIN s
  PROVE  /\ s[i] \in T
         /\ Len(s) \in Nat
         /\ i \in 1 .. Len(s)
         /\ DOMAIN s = 1 .. Len(s)
OBVIOUS

LEMMA FlagFacts ==
  ASSUME NEW i \in DOMAIN Flags
  PROVE  /\ i \in Nat \ {0} /\ i <= Len(Flags)
         /\ Flags[i].net \in Nets
         /\ Flags[i].ipsets \in Seq(Seq(Addrs))
         /\ Len(Flags[i].ipsets) \in Nat \ {0}
         /\ 1 \in DOMAIN Flags[i].ipsets
<1>1. Flags \in Seq([net : Nets, ipsets : Seq(Seq(Addrs))])
  BY FlagsAssumption
<1>2. i \in 1 .. Len(Flags) /\ Len(Flags) \in Nat
  BY <1>1, Element
<1>3. Flags[i] \in [net : Nets, ipsets : Seq(Seq(Addrs))]
  BY <1>1, Element
<1>4. Flags[i].ipsets # <<>>
  BY FlagsAssumption
<1>5. Flags[i].ipsets \in Seq(Seq(Addrs))
  BY <1>3
<1>6. Len(Flags[i].ipsets) \in Nat \ {0} /\ DOMAIN Flags[i].ipsets = 1 .. Len(Flags[i].ipsets)
  BY <1>4, <1>5
<1> QED
  BY <1>2, <1>3, <1>5, <1>6

LEMMA IpsetFacts ==
  ASSUME NEW i, NEW k, IsIpset(i, k)
  PROVE  /\ i \in Nat \ {0} /\ k \in Nat \ {0}
         /\ i <= Len(Flags) /\ k <= Len(Flags[i].ipsets)
         /\ Ipset(i, k) \in Seq(Addrs)
         /\ DOMAIN Ipset(i, k) = 1 .. Len(Ipset(i, k))
         /\ Len(Ipset(i, k)) \in Nat
<1>1. i \in DOMAIN Flags /\ k \in DOMAIN Flags[i].ipsets
  BY DEF IsIpset
<1>2. /\ i \in Nat \ {0} /\ i <= Len(Flags)
      /\ Flags[i].ipsets \in Seq(Seq(Addrs))
  BY <1>1, FlagFacts
<1>3. k \in 1 .. Len(Flags[i].ipsets) /\ Len(Flags[i].ipsets) \in Nat
  BY <1>1, <1>2
<1>4. Ipset(i, k) \in Seq(Addrs)
  BY <1>1, <1>2, Element DEF Ipset
<1> QED
  BY <1>2, <1>3, <1>4

LEMMA IsIpsetIntro ==
  ASSUME NEW i \in Nat \ {0}, NEW k \in Nat \ {0},
         i <= Len(Flags), k <= Len(Flags[i].ipsets)
  PROVE  IsIpset(i, k)
<1>1. Flags \in Seq([net : Nets, ipsets : Seq(Seq(Addrs))])
  BY FlagsAssumption
<1>2. i \in DOMAIN Flags
  BY <1>1
<1>3. Flags[i].ipsets \in Seq(Seq(Addrs))
  BY <1>2, FlagFacts
<1> QED
  BY <1>2, <1>3 DEF IsIpset

LEMMA LinkTyped ==
  ASSUME NEW h, NEW i, NEW k, NEW s, NEW p, Builds(h, i, k, s, p)
  PROVE  /\ Link(i, k, s, p) \in LinkType
         /\ Link(i, k, s, p).name = <<Flags[i].net, k, p>>
         /\ i \in Nat \ {0} /\ k \in Nat \ {0} /\ s \in Nat \ {0} /\ p \in Nat \ {0}
<1>1. IsIpset(i, k) /\ s \in DOMAIN Ipset(i, k) /\ p \in DOMAIN Ipset(i, k)
  BY DEF Builds
<1>2. /\ i \in Nat \ {0} /\ k \in Nat \ {0}
      /\ Ipset(i, k) \in Seq(Addrs)
      /\ DOMAIN Ipset(i, k) = 1 .. Len(Ipset(i, k))
      /\ Len(Ipset(i, k)) \in Nat
  BY <1>1, IpsetFacts
<1>3. s \in Nat \ {0} /\ p \in Nat \ {0}
  BY <1>1, <1>2
<1>4. Ipset(i, k)[s] \in Addrs /\ Ipset(i, k)[p] \in Addrs
  BY <1>1, <1>2
<1>5. Flags[i].net \in Nets
  BY <1>1, FlagFacts DEF IsIpset
<1>6. Vni(i, k, s, p) \in Nat
  BY <1>2, <1>3 DEF Vni, Lower, Higher
<1> QED
  BY <1>2, <1>3, <1>4, <1>5, <1>6 DEF Link, Name, LinkType

\* The decimal fields of a VNI do not run into each other.
LEMMA VniInjective ==
  ASSUME SmallSets,
         NEW g, NEW h, NEW i, NEW k, NEW s, NEW p, NEW j, NEW c, NEW t, NEW q,
         Builds(g, i, k, s, p), Builds(h, j, c, t, q),
         Vni(i, k, s, p) = Vni(j, c, t, q)
  PROVE  /\ i = j /\ k = c
         /\ \/ s = t /\ p = q
            \/ s = q /\ p = t
<1> DEFINE Small(a, b, u, v) == /\ a \in Nat \ {0} /\ b \in 1 .. 10
                               /\ u \in 1 .. 100 /\ v \in 1 .. 100
<1>1. ASSUME NEW f, NEW a, NEW b, NEW u, NEW v, Builds(f, a, b, u, v)
      PROVE  Small(a, b, u, v)
  <2>1. IsIpset(a, b) /\ u \in DOMAIN Ipset(a, b) /\ v \in DOMAIN Ipset(a, b)
    BY <1>1 DEF Builds
  <2>2. /\ a \in Nat \ {0} /\ b \in Nat \ {0}
        /\ b <= Len(Flags[a].ipsets)
        /\ DOMAIN Ipset(a, b) = 1 .. Len(Ipset(a, b))
        /\ Len(Ipset(a, b)) \in Nat
    BY <2>1, IpsetFacts
  <2>3. /\ Len(Flags[a].ipsets) <= 10 /\ Len(Ipset(a, b)) <= 100
        /\ Len(Flags[a].ipsets) \in Nat
    BY <2>1, FlagFacts DEF SmallSets, IsIpset, Ipset
  <2>4. b <= 10
    BY <2>2, <2>3
  <2>5. u \in 1 .. Len(Ipset(a, b)) /\ v \in 1 .. Len(Ipset(a, b))
    BY <2>1, <2>2
  <2>6. u \in 1 .. 100 /\ v \in 1 .. 100
    BY <2>2, <2>3, <2>5
  <2> QED
    BY <2>2, <2>4, <2>6
<1>2. Small(i, k, s, p) /\ Small(j, c, t, q)
  BY <1>1
<1>3. /\ Lower(s, p) \in 1 .. 100 /\ Higher(s, p) \in 1 .. 100
      /\ Lower(t, q) \in 1 .. 100 /\ Higher(t, q) \in 1 .. 100
  BY <1>2 DEF Lower, Higher
<1>4. /\ i = j /\ k = c
      /\ Lower(s, p) = Lower(t, q) /\ Higher(s, p) = Higher(t, q)
  <2> DEFINE x == Lower(s, p)
             y == Higher(s, p)
             z == Lower(t, q)
             w == Higher(t, q)
  <2>1. 100000 * (i - 1) + 10000 * (k - 1) + 100 * (x - 1) + (y - 1)
          = 100000 * (j - 1) + 10000 * (c - 1) + 100 * (z - 1) + (w - 1)
    BY DEF Vni
  <2>2. x \in 1 .. 100 /\ y \in 1 .. 100 /\ z \in 1 .. 100 /\ w \in 1 .. 100
    BY <1>3
  <2> HIDE DEF x, y, z, w
  <2>3. i = j
    BY <1>2, <2>1, <2>2
  <2>4. k = c
    BY <1>2, <2>1, <2>2, <2>3
  <2>5. x = z /\ y = w
    BY <1>2, <2>1, <2>2, <2>3, <2>4
  <2> QED
    BY <2>3, <2>4, <2>5 DEF x, y, z, w
<1> QED
  <2>1. /\ s \in Nat /\ p \in Nat /\ t \in Nat /\ q \in Nat
    BY <1>2
  <2> QED
    BY <2>1, <1>4 DEF Lower, Higher
-----------------------------------------------------------------------------
(* What the pieces of the actions keep.                                      *)

LEMMA FirstIpset ==
  1 <= Len(Flags) => IsIpset(1, 1)
<1> SUFFICES ASSUME 1 <= Len(Flags) PROVE IsIpset(1, 1)
  OBVIOUS
<1>1. Flags \in Seq([net : Nets, ipsets : Seq(Seq(Addrs))])
  BY FlagsAssumption
<1>2. 1 \in DOMAIN Flags
  BY <1>1
<1> QED
  BY <1>2, FlagFacts DEF IsIpset

\* The counters of the next IP set point into the flags, or past the last flag.
LEMMA NextIpsetKeeps ==
  ASSUME NEW h \in Machines, TypeOK, IsIpset(flag[h], set[h]), NextIpset(h)
  PROVE  /\ flag' \in [Machines -> 1 .. Len(Flags) + 1]
         /\ set' \in [Machines -> Nat \ {0}]
         /\ flag'[h] <= Len(Flags) => IsIpset(flag'[h], set'[h])
         /\ \A g \in Machines : g # h => flag'[g] = flag[g] /\ set'[g] = set[g]
<1>1. /\ flag \in [Machines -> 1 .. Len(Flags) + 1]
      /\ set \in [Machines -> Nat \ {0}]
  BY DEF TypeOK
<1>2. /\ flag[h] \in Nat \ {0} /\ set[h] \in Nat \ {0}
      /\ flag[h] <= Len(Flags)
      /\ flag[h] \in DOMAIN Flags
  BY IpsetFacts DEF IsIpset
<1>3. Len(Flags[flag[h]].ipsets) \in Nat /\ Len(Flags) \in Nat
  BY <1>2, FlagFacts, FlagsAssumption, Element
<1>4. CASE set[h] < Len(Flags[flag[h]].ipsets)
  <2>1. flag' = flag /\ set' = [set EXCEPT ![h] = set[h] + 1]
    BY <1>4 DEF NextIpset
  <2>2. IsIpset(flag[h], set[h] + 1)
    BY <1>2, <1>3, <1>4, IsIpsetIntro
  <2> QED
    BY <1>1, <1>2, <2>1, <2>2
<1>5. CASE ~(set[h] < Len(Flags[flag[h]].ipsets))
  <2>1. flag' = [flag EXCEPT ![h] = flag[h] + 1] /\ set' = [set EXCEPT ![h] = 1]
    BY <1>5 DEF NextIpset
  <2>2. flag[h] + 1 <= Len(Flags) => IsIpset(flag[h] + 1, 1)
    <3> SUFFICES ASSUME flag[h] + 1 <= Len(Flags) PROVE IsIpset(flag[h] + 1, 1)
      OBVIOUS
    <3>1. flag[h] + 1 \in DOMAIN Flags
      BY <1>2, <1>3, FlagsAssumption, Element
    <3> QED
      BY <3>1, FlagFacts DEF IsIpset
  <2> QED
    BY <1>1, <1>2, <1>3, <2>1, <2>2
<1> QED
  BY <1>4, <1>5

\* A machine that only loses links keeps the invariant on links.
LEMMA FewerLinks ==
  ASSUME TypeOK, FromScript, NEW h \in Machines, NEW L, L \subseteq links[h],
         links' = [links EXCEPT ![h] = L]
  PROVE  FromScript' /\ links' \in [Machines -> SUBSET LinkType]
<1>1. links \in [Machines -> SUBSET LinkType]
  BY DEF TypeOK
<1>2. \A g \in Machines : links'[g] \subseteq links[g]
  BY <1>1
<1>3. FromScript'
  BY <1>2 DEF FromScript
<1> QED
  BY <1>1, <1>3

LEMMA SameLinks ==
  ASSUME TypeOK, FromScript, links' = links
  PROVE  FromScript' /\ links' \in [Machines -> SUBSET LinkType]
BY DEF TypeOK, FromScript

LEMMA CleanupKeeps ==
  ASSUME TypeOK, FromScript, NEW h \in Machines, Cleanup(h)
  PROVE  FromScript' /\ links' \in [Machines -> SUBSET LinkType]
<1>1. CASE trapped[h]
  <2> DEFINE L == {l \in links[h] : l.name \notin cleanups[h]}
  <2>1. links' = [links EXCEPT ![h] = L]
    BY <1>1 DEF Cleanup
  <2>2. L \subseteq links[h]
    OBVIOUS
  <2> HIDE DEF L
  <2> QED
    BY <2>1, <2>2, FewerLinks
<1>2. CASE ~trapped[h]
  BY <1>2, SameLinks DEF Cleanup
<1> QED
  BY <1>1, <1>2

\* The part of the type invariant that does not concern links and counters.
Plain == /\ pc \in [Machines -> {"stopped", "failed", "ipset", "wait", "tunnel", "add", "idle"}]
         /\ self \in [Machines -> Nat \ {0}]
         /\ peer \in [Machines -> Nat \ {0}]
         /\ cleanups \in [Machines -> SUBSET (Nets \X (Nat \ {0}) \X (Nat \ {0}))]
         /\ trapped \in [Machines -> BOOLEAN]
         /\ stopping \in [Machines -> BOOLEAN]
         /\ bridges \in [Machines -> SUBSET Nets]
         /\ unclean \in [Machines -> BOOLEAN]

Counters == /\ flag \in [Machines -> 1 .. Len(Flags) + 1]
            /\ set \in [Machines -> Nat \ {0}]

LEMMA TypeParts ==
  TypeOK <=> /\ Plain
             /\ Counters
             /\ links \in [Machines -> SUBSET LinkType]
             /\ \A h \in Machines :
                  flag[h] <= Len(Flags) => set[h] <= Len(Flags[flag[h]].ipsets)
BY DEF TypeOK, Plain, Counters

LEMMA Conclude ==
  ASSUME Plain', Counters', links' \in [Machines -> SUBSET LinkType], FromScript',
         \A h \in Machines : AtIpset(h)'
  PROVE  IInv'
<1>1. ASSUME NEW h \in Machines, flag'[h] <= Len(Flags)
      PROVE  set'[h] <= Len(Flags[flag'[h]].ipsets)
  <2>1. IsIpset(flag'[h], set'[h])
    BY <1>1 DEF AtIpset, IsIpset
  <2> QED
    BY <2>1, IpsetFacts
<1>2. TypeOK'
  BY <1>1 DEF TypeOK, Plain, Counters
<1> QED
  BY <1>2 DEF IInv, AtIpset

LEMMA Unmoved ==
  ASSUME NEW g \in Machines, AtIpset(g), pc'[g] = pc[g], flag'[g] = flag[g],
         set'[g] = set[g], self'[g] = self[g], peer'[g] = peer[g]
  PROVE  AtIpset(g)'
BY DEF AtIpset, Own, Ipset, IsIpset

LEMMA EndKeeps ==
  ASSUME TypeOK, \A g \in Machines : AtIpset(g), NEW h \in Machines,
         NEW how \in {"stopped", "failed"}, End(h, how)
  PROVE  /\ Counters'
         /\ \A g \in Machines : AtIpset(g)'
         /\ pc' \in [Machines -> {"stopped", "failed", "ipset", "wait", "tunnel", "add", "idle"}]
         /\ self' \in [Machines -> Nat \ {0}]
         /\ peer' \in [Machines -> Nat \ {0}]
         /\ cleanups' \in [Machines -> SUBSET (Nets \X (Nat \ {0}) \X (Nat \ {0}))]
         /\ trapped' \in [Machines -> BOOLEAN]
         /\ stopping' \in [Machines -> BOOLEAN]
<1>1. Plain /\ Counters
  BY TypeParts
<1>2. Len(Flags) \in Nat
  BY FlagsAssumption
<1>3. Counters'
  BY <1>1, <1>2 DEF Counters, End
<1>4. /\ pc'[h] = how /\ flag'[h] = 1 /\ set'[h] = 1
      /\ \A g \in Machines : g # h =>
           /\ pc'[g] = pc[g] /\ flag'[g] = flag[g] /\ set'[g] = set[g]
           /\ self'[g] = self[g] /\ peer'[g] = peer[g]
  BY <1>1 DEF Plain, Counters, End
<1>5. \A g \in Machines : AtIpset(g)'
  <2> TAKE g \in Machines
  <2>1. CASE g = h
    BY <1>4, <2>1, FirstIpset DEF AtIpset
  <2>2. CASE g # h
    BY <1>4, <2>2, Unmoved
  <2> QED
    BY <2>1, <2>2
<1> QED
  BY <1>1, <1>3, <1>5 DEF Plain, End

\* The links that an action of the script registers or adds are of the right type.
LEMMA AtPeer ==
  ASSUME NEW h \in Machines, TypeOK, AtIpset(h), pc[h] = "add"
  PROVE  Builds(h, flag[h], set[h], self[h], peer[h])
BY DEF AtIpset, Builds, IsFirst, Own

LEMMA Inductive ==
  IInv /\ [Next]_vars => IInv'
<1> SUFFICES ASSUME IInv, [Next]_vars PROVE IInv'
  OBVIOUS
<1> USE DEF script, machine
<1>1. TypeOK /\ FromScript /\ Plain /\ Counters
  BY TypeParts DEF IInv
<1>2. \A g \in Machines : AtIpset(g)
  BY DEF IInv
<1>3. CASE UNCHANGED vars
  <2>1. Plain' /\ Counters'
    BY <1>1, <1>3 DEF Plain, Counters, vars
  <2>2. \A g \in Machines : AtIpset(g)'
    BY <1>2, <1>3, Unmoved DEF vars
  <2>3. links' = links
    BY <1>3 DEF vars
  <2> QED
    BY <1>1, <2>1, <2>2, <2>3, SameLinks, Conclude
<1>4. ASSUME NEW h \in Machines, Up(h)
      PROVE  IInv'
  <2>1. Plain' /\ Counters'
    BY <1>1, <1>4 DEF Plain, Counters, Up
  <2>2. \A g \in Machines : AtIpset(g)'
    BY <1>1, <1>2, <1>4 DEF Plain, Up, AtIpset
  <2>3. links' = links
    BY <1>4 DEF Up
  <2> QED
    BY <1>1, <2>1, <2>2, <2>3, SameLinks, Conclude
<1>5. ASSUME NEW h \in Machines, NEW n \in Nets, NetUp(h, n)
      PROVE  IInv'
  <2>1. Plain' /\ Counters'
    BY <1>1, <1>5 DEF Plain, Counters, NetUp
  <2>2. \A g \in Machines : AtIpset(g)'
    BY <1>2, <1>5, Unmoved DEF NetUp
  <2>3. links' = links
    BY <1>5 DEF NetUp
  <2> QED
    BY <1>1, <2>1, <2>2, <2>3, SameLinks, Conclude
<1>6. ASSUME NEW h \in Machines, FindSelf(h)
      PROVE  IInv'
  <2>1. links' = links
    BY <1>6 DEF FindSelf
  <2>2. IsIpset(flag[h], set[h])
    BY <1>2, <1>6 DEF FindSelf, AtIpset
  <2>3. CASE NextIpset(h) /\ UNCHANGED <<pc, self>>
    <3>1. /\ Counters'
          /\ flag'[h] <= Len(Flags) => IsIpset(flag'[h], set'[h])
          /\ \A g \in Machines : g # h => flag'[g] = flag[g] /\ set'[g] = set[g]
      BY <1>1, <2>2, <2>3, NextIpsetKeeps DEF Counters
    <3>2. Plain'
      BY <1>1, <1>6, <2>3 DEF Plain, FindSelf
    <3>3. AtIpset(h)'
      BY <1>6, <2>3, <3>1 DEF FindSelf, AtIpset
    <3>4. \A g \in Machines : AtIpset(g)'
      BY <1>2, <1>6, <2>3, <3>1, <3>3, Unmoved DEF FindSelf
    <3> QED
      BY <1>1, <2>1, <3>1, <3>2, <3>4, SameLinks, Conclude
  <2>4. ASSUME NEW s \in Own(h, flag[h], set[h]),
               IsFirst(s, Own(h, flag[h], set[h])),
               self' = [self EXCEPT ![h] = s],
               pc' = [pc EXCEPT ![h] = "wait"],
               UNCHANGED <<flag, set>>
        PROVE  IInv'
    <3>1. /\ s \in DOMAIN Ipset(flag[h], set[h])
          /\ MachineOf[Ipset(flag[h], set[h])[s]] = h
      BY <2>4 DEF Own
    <3>2. s \in Nat \ {0}
      BY <2>2, <3>1, IpsetFacts
    <3>3. Plain' /\ Counters'
      BY <1>1, <1>6, <2>4, <3>2 DEF Plain, Counters, FindSelf
    <3>4. /\ pc'[h] = "wait" /\ self'[h] = s
          /\ \A g \in Machines : g # h => pc'[g] = pc[g] /\ self'[g] = self[g]
      BY <1>1, <2>4 DEF Plain
    <3>5. AtIpset(h)'
      BY <2>2, <2>4, <3>4 DEF AtIpset, IsIpset, Own, Ipset
    <3>6. \A g \in Machines : AtIpset(g)'
      BY <1>2, <1>6, <2>4, <3>4, <3>5, Unmoved DEF FindSelf
    <3> QED
      BY <1>1, <2>1, <3>3, <3>6, SameLinks, Conclude
  <2> QED
    BY <1>6, <2>3, <2>4 DEF FindSelf
<1>7. ASSUME NEW h \in Machines, Bridged(h)
      PROVE  IInv'
  <2>0. trapped' = trapped \/ trapped' = [trapped EXCEPT ![h] = FALSE]
    BY <1>7 DEF Bridged
  <2>1. Plain' /\ Counters'
    <3>1. trapped' \in [Machines -> BOOLEAN]
      BY <1>1, <2>0 DEF Plain
    <3>2. /\ pc' = [pc EXCEPT ![h] = "tunnel"]
          /\ peer' = [peer EXCEPT ![h] = 1]
          /\ UNCHANGED <<flag, set, self, cleanups, stopping, bridges, unclean>>
      BY <1>7 DEF Bridged
    <3> QED
      BY <1>1, <3>1, <3>2 DEF Plain, Counters
  <2>2. \A g \in Machines : AtIpset(g)'
    BY <1>1, <1>2, <1>7 DEF Plain, Bridged, AtIpset
  <2>3. CASE stopping[h]
    <3>1. Cleanup(h)
      BY <1>7, <2>3 DEF Bridged
    <3> QED
      BY <1>1, <2>1, <2>2, <3>1, CleanupKeeps, Conclude
  <2>4. CASE ~stopping[h]
    <3>1. links' = links
      BY <1>7, <2>4 DEF Bridged
    <3> QED
      BY <1>1, <2>1, <2>2, <3>1, SameLinks, Conclude
  <2> QED
    BY <2>3, <2>4
<1>8. ASSUME NEW h \in Machines, TryPeer(h)
      PROVE  IInv'
  <2>1. /\ IsIpset(flag[h], set[h])
        /\ IsFirst(self[h], Own(h, flag[h], set[h]))
    BY <1>2, <1>8 DEF TryPeer, AtIpset
  <2>2. peer[h] \in Nat \ {0}
    BY <1>1 DEF Plain
  <2>3. CASE /\ NextIpset(h)
             /\ pc' = [pc EXCEPT ![h] = "ipset"]
             /\ UNCHANGED <<peer, links, cleanups>>
    <3>1. /\ Counters'
          /\ flag'[h] <= Len(Flags) => IsIpset(flag'[h], set'[h])
          /\ \A g \in Machines : g # h => flag'[g] = flag[g] /\ set'[g] = set[g]
      BY <1>1, <2>1, <2>3, NextIpsetKeeps DEF Counters
    <3>2. Plain'
      BY <1>1, <1>8, <2>3 DEF Plain, TryPeer
    <3>3. /\ pc'[h] = "ipset"
          /\ \A g \in Machines : g # h => pc'[g] = pc[g]
      BY <1>1, <2>3 DEF Plain
    <3>4. AtIpset(h)'
      BY <3>1, <3>3 DEF AtIpset
    <3>5. \A g \in Machines : AtIpset(g)'
      BY <1>2, <1>8, <2>3, <3>1, <3>3, <3>4, Unmoved DEF TryPeer
    <3> QED
      BY <1>1, <2>3, <3>1, <3>2, <3>5, SameLinks, Conclude
  <2>4. CASE /\ peer[h] <= Len(Ipset(flag[h], set[h]))
             /\ Tunnelled(self[h], peer[h])
             /\ Prepare(h)
             /\ pc' = [pc EXCEPT ![h] = "add"]
             /\ UNCHANGED <<flag, set, peer>>
    <3>1. peer[h] \in DOMAIN Ipset(flag[h], set[h]) /\ Tunnelled(self[h], peer[h])
      BY <2>1, <2>2, <2>4, IpsetFacts
    <3>2. Name(flag[h], set[h], peer[h]) \in Nets \X (Nat \ {0}) \X (Nat \ {0})
      BY <2>1, <2>2, IpsetFacts, FlagFacts DEF Name, IsIpset
    <3>3. Plain'
      BY <1>1, <1>8, <2>4, <3>2 DEF Plain, TryPeer, Prepare
    <3>4. Counters'
      BY <1>1, <2>4 DEF Counters
    <3>5. /\ pc'[h] = "add"
          /\ \A g \in Machines : g # h => pc'[g] = pc[g]
      BY <1>1, <2>4 DEF Plain
    <3>6. self' = self
      BY <1>8 DEF TryPeer
    <3>7. AtIpset(h)'
      BY <2>1, <2>4, <3>1, <3>5, <3>6 DEF AtIpset, IsIpset, Own, Ipset
    <3>8. \A g \in Machines : AtIpset(g)'
      BY <1>2, <2>4, <3>5, <3>6, <3>7, Unmoved
    <3> DEFINE L == {l \in links[h] : l.name # Name(flag[h], set[h], peer[h])}
    <3>9. links' = [links EXCEPT ![h] = L]
      BY <2>4 DEF Prepare
    <3>10. L \subseteq links[h]
      OBVIOUS
    <3> HIDE DEF L
    <3> QED
      BY <1>1, <3>3, <3>4, <3>8, <3>9, <3>10, FewerLinks, Conclude
  <2>5. CASE /\ peer' = [peer EXCEPT ![h] = peer[h] + 1]
             /\ UNCHANGED <<pc, flag, set, links, cleanups>>
    <3>1. Plain' /\ Counters'
      BY <1>1, <1>8, <2>5 DEF Plain, Counters, TryPeer
    <3>2. \A g \in Machines : AtIpset(g)'
      BY <1>1, <1>2, <1>8, <2>5 DEF Plain, TryPeer, AtIpset
    <3> QED
      BY <1>1, <2>5, <3>1, <3>2, SameLinks, Conclude
  <2> QED
    BY <1>8, <2>3, <2>4, <2>5 DEF TryPeer
<1>9. ASSUME NEW h \in Machines, AddLink(h)
      PROVE  IInv'
  <2> DEFINE new == Link(flag[h], set[h], self[h], peer[h])
  <2>1. Builds(h, flag[h], set[h], self[h], peer[h])
    BY <1>1, <1>2, <1>9, AtPeer DEF AddLink
  <2>2. /\ new \in LinkType
        /\ flag[h] \in Nat /\ set[h] \in Nat /\ self[h] \in Nat /\ peer[h] \in Nat
    BY <2>1, LinkTyped
  <2>3. CASE ~Refused(h, new)
    <3>1. /\ links' = [links EXCEPT ![h] = links[h] \cup {new}]
          /\ pc' = [pc EXCEPT ![h] = "tunnel"]
          /\ peer' = [peer EXCEPT ![h] = peer[h] + 1]
          /\ UNCHANGED <<flag, set, self, cleanups, trapped, stopping, unclean, bridges>>
      BY <1>9, <2>3 DEF AddLink
    <3>2. Plain' /\ Counters'
      BY <1>1, <2>2, <3>1 DEF Plain, Counters
    <3>3. \A g \in Machines : AtIpset(g)'
      BY <1>1, <1>2, <2>1, <3>1 DEF Plain, AtIpset, Builds
    <3>4. links' \in [Machines -> SUBSET LinkType]
      <4>1. links \in [Machines -> SUBSET LinkType]
        BY <1>1 DEF TypeOK
      <4> HIDE DEF new
      <4> QED
        BY <2>2, <3>1, <4>1
    <3>5. FromScript'
      <4>1. \A g \in Machines : \A l \in links'[g] : l \in links[g] \/ (g = h /\ l = new)
        <5>1. links \in [Machines -> SUBSET LinkType]
          BY <1>1 DEF TypeOK
        <5> HIDE DEF new
        <5> QED
          BY <3>1, <5>1
      <4>2. \E i, k, s, p \in Nat : Builds(h, i, k, s, p) /\ new = Link(i, k, s, p)
        BY <2>1, <2>2
      <4> HIDE DEF new
      <4> QED
        BY <1>1, <4>1, <4>2 DEF FromScript
    <3> QED
      BY <3>2, <3>3, <3>4, <3>5, Conclude
  <2>4. CASE Refused(h, new)
    <3>1. /\ Cleanup(h)
          /\ unclean' = [unclean EXCEPT ![h] = unclean[h] \/ ~trapped[h]]
          /\ End(h, "failed")
          /\ UNCHANGED bridges
      BY <1>9, <2>4 DEF AddLink
    <3>2. unclean' \in [Machines -> BOOLEAN]
      BY <1>1, <3>1 DEF Plain
    <3>3. Plain' /\ Counters' /\ \A g \in Machines : AtIpset(g)'
      BY <1>1, <1>2, <3>1, <3>2, EndKeeps DEF Plain
    <3> QED
      BY <1>1, <3>1, <3>3, CleanupKeeps, Conclude
  <2> QED
    BY <2>3, <2>4
<1>10. ASSUME NEW h \in Machines, SetHealthy(h)
       PROVE  IInv'
  <2>1. Plain' /\ Counters'
    BY <1>1, <1>10 DEF Plain, Counters, SetHealthy
  <2>2. \A g \in Machines : AtIpset(g)'
    BY <1>1, <1>2, <1>10 DEF Plain, SetHealthy, AtIpset
  <2>3. links' = links
    BY <1>10 DEF SetHealthy
  <2> QED
    BY <1>1, <2>1, <2>2, <2>3, SameLinks, Conclude
<1>11. ASSUME NEW h \in Machines, Stop(h)
       PROVE  IInv'
  <2>1. CASE pc[h] = "idle"
    <3>1. /\ Cleanup(h) /\ End(h, "stopped")
          /\ unclean' = [unclean EXCEPT ![h] = FALSE]
          /\ UNCHANGED bridges
      BY <1>11, <2>1 DEF Stop
    <3>2. unclean' \in [Machines -> BOOLEAN]
      BY <1>1, <3>1 DEF Plain
    <3>3. Plain' /\ Counters' /\ \A g \in Machines : AtIpset(g)'
      BY <1>1, <1>2, <3>1, <3>2, EndKeeps DEF Plain
    <3> QED
      BY <1>1, <3>1, <3>3, CleanupKeeps, Conclude
  <2>2. CASE pc[h] # "idle"
    <3>1. Plain' /\ Counters'
      BY <1>1, <1>11, <2>2 DEF Plain, Counters, Stop
    <3>2. \A g \in Machines : AtIpset(g)'
      BY <1>2, <1>11, <2>2, Unmoved DEF Stop
    <3>3. Cleanup(h) \/ links' = links
      BY <1>11, <2>2 DEF Stop
    <3> QED
      BY <1>1, <3>1, <3>2, <3>3, SameLinks, CleanupKeeps, Conclude
  <2> QED
    BY <2>1, <2>2
<1>12. ASSUME NEW h \in Machines, Kill(h)
       PROVE  IInv'
  <2>1. /\ End(h, "stopped") /\ links' = links
        /\ unclean' = [unclean EXCEPT ![h] = TRUE]
        /\ bridges' = bridges
    BY <1>12 DEF Kill
  <2>2. unclean' \in [Machines -> BOOLEAN]
    BY <1>1, <2>1 DEF Plain
  <2>3. Plain' /\ Counters' /\ \A g \in Machines : AtIpset(g)'
    BY <1>1, <1>2, <2>1, <2>2, EndKeeps DEF Plain
  <2> QED
    BY <1>1, <2>1, <2>3, SameLinks, Conclude
<1>13. ASSUME NEW h \in Machines, Down(h)
       PROVE  IInv'
  <2>1. Plain' /\ Counters'
    BY <1>1, <1>13 DEF Plain, Counters, Down
  <2>2. \A g \in Machines : AtIpset(g)'
    BY <1>2, <1>13, Unmoved DEF Down
  <2>3. links' = links
    BY <1>13 DEF Down
  <2> QED
    BY <1>1, <2>1, <2>2, <2>3, SameLinks, Conclude
<1> QED
  BY <1>3, <1>4, <1>5, <1>6, <1>7, <1>8, <1>9, <1>10, <1>11, <1>12, <1>13 DEF Next, Script

LEMMA Initially == Init => IInv
<1> SUFFICES ASSUME Init PROVE IInv
  OBVIOUS
<1>1. Len(Flags) \in Nat
  BY FlagsAssumption
<1>2. \A h \in Machines : AtIpset(h)
  BY FirstIpset DEF Init, AtIpset
<1>3. FromScript
  BY DEF Init, FromScript
<1>4. \A h \in Machines : flag[h] <= Len(Flags) => set[h] <= Len(Flags[flag[h]].ipsets)
  BY FirstIpset, IpsetFacts DEF Init
<1>5. TypeOK
  BY <1>1, <1>4 DEF Init, TypeOK
<1> QED
  BY <1>2, <1>3, <1>5 DEF IInv

\* Every link on a machine is one that its script asks for, and its counters point into the
\* flags (compose/bridge.ts, BridgeModeVxlan).
THEOREM Invariance == Spec => []IInv
<1>1. Init => IInv
  BY Initially
<1>2. IInv /\ [Next]_vars => IInv'
  BY Inductive
<1> QED
  BY <1>1, <1>2, PTL DEF Spec
-----------------------------------------------------------------------------
(* What the cleanup list has.                                                *)

\* The script has gone past an IP set, or past an address of its current one.
Past(h, i, k) == flag[h] > i \/ (flag[h] = i /\ set[h] > k)

Reached(h, i, k, p) ==
  \/ Past(h, i, k)
  \/ pc[h] \in {"tunnel", "add"} /\ flag[h] = i /\ set[h] = k /\ peer[h] > p

\* A script that does not run has no state.
Resting(h) ==
  ~ Running(h) => /\ flag[h] = 1 /\ set[h] = 1
                 /\ cleanups[h] = {}
                 /\ trapped[h] = FALSE /\ stopping[h] = FALSE

Registered(h) ==
  /\ \A i, k, s, p : Running(h) /\ Builds(h, i, k, s, p) /\ Reached(h, i, k, p)
                      => Name(i, k, p) \in cleanups[h]
  /\ pc[h] = "add" => Name(flag[h], set[h], peer[h]) \in cleanups[h]

\* The name that the script is about to use is free.
NameFree(h) ==
  pc[h] = "add" => \A l \in links[h] : l.name # Name(flag[h], set[h], peer[h])

\* Nothing is left that the script will not delete, unless a script was killed.
Tidy(h) ==
  unclean[h] = FALSE =>
    /\ ~ Running(h) => links[h] = {}
    /\ trapped[h] = TRUE => \A l \in links[h] : l.name \in cleanups[h]

\* The trap fires when the script ends, unless it has been told to stop before.
Armed(h) == Running(h) => trapped[h] = TRUE \/ stopping[h] = TRUE

AtEnd(h) == pc[h] = "idle" => flag[h] > Len(Flags)

Listed(h) ==
  Resting(h) /\ Registered(h) /\ NameFree(h) /\ Tidy(h) /\ Armed(h) /\ AtEnd(h)

JInv == IInv /\ \A h \in Machines : Listed(h)

\* An undisturbed script has the links of all that it has gone past.
Present(h) ==
  \A i, k, s, p : Running(h) /\ stopping[h] = FALSE /\ Builds(h, i, k, s, p) /\ Reached(h, i, k, p)
                   => Link(i, k, s, p) \in links[h]

LEMMA BuildsFacts ==
  ASSUME NEW h, NEW i, NEW k, NEW s, NEW p, Builds(h, i, k, s, p)
  PROVE  /\ IsIpset(i, k)
         /\ i \in Nat \ {0} /\ k \in Nat \ {0} /\ s \in Nat \ {0} /\ p \in Nat \ {0}
         /\ i <= Len(Flags) /\ p <= Len(Ipset(i, k))
         /\ Len(Flags) \in Nat /\ Len(Ipset(i, k)) \in Nat
<1>1. IsIpset(i, k) /\ p \in DOMAIN Ipset(i, k)
  BY DEF Builds
<1>2. i <= Len(Flags) /\ DOMAIN Ipset(i, k) = 1 .. Len(Ipset(i, k)) /\ Len(Ipset(i, k)) \in Nat
  BY <1>1, IpsetFacts
<1>3. Len(Flags) \in Nat
  BY FlagsAssumption
<1> QED
  BY <1>1, <1>2, <1>3, LinkTyped

\* A machine looks for itself and finds one address only.
LEMMA SelfOnly ==
  ASSUME NEW h, NEW i, NEW k, NEW s, NEW p, NEW t, Builds(h, i, k, s, p), IsFirst(t, Own(h, i, k))
  PROVE  s = t
<1>1. IsIpset(i, k) /\ IsFirst(s, Own(h, i, k))
  BY DEF Builds
<1>2. Own(h, i, k) \subseteq Nat
  BY <1>1, IpsetFacts DEF Own
<1> QED
  BY <1>1, <1>2 DEF IsFirst

\* The next IP set is past none but the current one.
LEMMA NextPast ==
  ASSUME NEW h \in Machines, TypeOK, IsIpset(flag[h], set[h]), NextIpset(h),
         NEW i, NEW k, IsIpset(i, k), Past(h, i, k)'
  PROVE  Past(h, i, k) \/ (i = flag[h] /\ k = set[h])
<1>1. /\ flag \in [Machines -> 1 .. Len(Flags) + 1]
      /\ set \in [Machines -> Nat \ {0}]
  BY DEF TypeOK
<1>2. i \in Nat \ {0} /\ k \in Nat \ {0} /\ k <= Len(Flags[i].ipsets) /\ Len(Flags[i].ipsets) \in Nat
  BY IpsetFacts, FlagFacts DEF IsIpset
<1>3. flag[h] \in Nat /\ set[h] \in Nat
  BY <1>1
<1>4. CASE set[h] < Len(Flags[flag[h]].ipsets)
  <2>1. flag'[h] = flag[h] /\ set'[h] = set[h] + 1
    BY <1>1, <1>4 DEF NextIpset
  <2> QED
    BY <1>2, <1>3, <2>1 DEF Past
<1>5. CASE ~ (set[h] < Len(Flags[flag[h]].ipsets))
  <2>1. flag'[h] = flag[h] + 1 /\ set'[h] = 1
    BY <1>1, <1>5 DEF NextIpset
  <2> QED
    BY <1>2, <1>3, <1>5, <2>1 DEF Past
<1> QED
  BY <1>4, <1>5

\* What a step does not touch.
Same(g) ==
  /\ pc'[g] = pc[g] /\ flag'[g] = flag[g] /\ set'[g] = set[g] /\ self'[g] = self[g]
  /\ peer'[g] = peer[g] /\ cleanups'[g] = cleanups[g] /\ trapped'[g] = trapped[g]
  /\ stopping'[g] = stopping[g] /\ links'[g] = links[g] /\ unclean'[g] = unclean[g]

LEMMA SameListed ==
  ASSUME NEW g \in Machines, Listed(g), Same(g)
  PROVE  Listed(g)'
<1>1. \A i, k, p : Reached(g, i, k, p)' <=> Reached(g, i, k, p)
  BY DEF Same, Reached, Past
<1>2. Registered(g)'
  BY <1>1 DEF Listed, Same, Registered, Running, Name
<1>3. (Resting(g) /\ NameFree(g) /\ Tidy(g) /\ Armed(g) /\ AtEnd(g))'
  BY DEF Listed, Same, Resting, NameFree, Tidy, Armed, AtEnd, Running, Name
<1> QED
  BY <1>2, <1>3 DEF Listed

LEMMA SamePresent ==
  ASSUME NEW g \in Machines, Present(g), Same(g)
  PROVE  Present(g)'
<1>1. \A i, k, p : Reached(g, i, k, p)' <=> Reached(g, i, k, p)
  BY DEF Same, Reached, Past
<1> QED
  BY <1>1 DEF Present, Same, Running

LEMMA TypedVariables ==
  ASSUME TypeOK
  PROVE  /\ pc \in [Machines -> {"stopped", "failed", "ipset", "wait", "tunnel", "add", "idle"}]
         /\ flag \in [Machines -> 1 .. Len(Flags) + 1] /\ set \in [Machines -> Nat \ {0}]
         /\ self \in [Machines -> Nat \ {0}] /\ peer \in [Machines -> Nat \ {0}]
         /\ cleanups \in [Machines -> SUBSET (Nets \X (Nat \ {0}) \X (Nat \ {0}))]
         /\ trapped \in [Machines -> BOOLEAN] /\ stopping \in [Machines -> BOOLEAN]
         /\ unclean \in [Machines -> BOOLEAN]
         /\ links \in [Machines -> SUBSET LinkType]
BY DEF TypeOK

\* A step of a machine does not touch another.
LEMMA Elsewhere ==
  ASSUME TypeOK, NEW h \in Machines, NEW g \in Machines, g # h,
         \/ Up(h) \/ Script(h) \/ Stop(h) \/ Kill(h) \/ Down(h)
         \/ \E n \in Nets : NetUp(h, n)
  PROVE  Same(g)
<1> USE TypedVariables DEF script, machine
<1>1. CASE Up(h)
  BY <1>1 DEF Up, Same
<1>2. CASE FindSelf(h)
  BY <1>2 DEF FindSelf, NextIpset, Same
<1>3. CASE Bridged(h)
  BY <1>3 DEF Bridged, Cleanup, Same
<1>4. CASE TryPeer(h)
  BY <1>4 DEF TryPeer, NextIpset, Prepare, Same
<1>5. CASE AddLink(h)
  BY <1>5 DEF AddLink, Cleanup, End, Same
<1>6. CASE SetHealthy(h)
  BY <1>6 DEF SetHealthy, Same
<1>7. CASE Stop(h)
  BY <1>7 DEF Stop, Cleanup, End, Same
<1>8. CASE Kill(h)
  BY <1>8 DEF Kill, End, Same
<1>9. CASE Down(h) \/ \E n \in Nets : NetUp(h, n)
  BY <1>9 DEF Down, NetUp, Same
<1> QED
  BY <1>1, <1>2, <1>3, <1>4, <1>5, <1>6, <1>7, <1>8, <1>9 DEF Script

\* The script itself, one command after another.
LEMMA UpListed ==
  ASSUME TypeOK, NEW h \in Machines, Listed(h), Up(h)
  PROVE  Listed(h)'
<1>1. /\ ~ Running(h) /\ pc'[h] = "ipset" /\ flag'[h] = flag[h] /\ set'[h] = set[h]
      /\ trapped'[h] = TRUE /\ stopping'[h] = stopping[h] /\ cleanups'[h] = cleanups[h]
      /\ links'[h] = links[h] /\ unclean'[h] = unclean[h]
  BY TypedVariables DEF Up, Running, script, machine
<1>2. flag[h] = 1 /\ set[h] = 1
  BY <1>1 DEF Listed, Resting
<1>3. Registered(h)'
  <2> SUFFICES ASSUME NEW i, NEW k, NEW s, NEW p, Builds(h, i, k, s, p), Reached(h, i, k, p)'
               PROVE  FALSE
    BY <1>1 DEF Registered
  <2> QED
    BY <1>1, <1>2, BuildsFacts DEF Reached, Past
<1>4. (Resting(h) /\ NameFree(h) /\ Tidy(h) /\ Armed(h) /\ AtEnd(h))'
  BY <1>1 DEF Listed, Resting, NameFree, Tidy, Armed, AtEnd, Running
<1> QED
  BY <1>3, <1>4 DEF Listed

LEMMA FindSelfListed ==
  ASSUME IInv, NEW h \in Machines, Listed(h), FindSelf(h)
  PROVE  Listed(h)'
<1>1. /\ pc[h] = "ipset" /\ flag[h] <= Len(Flags) /\ pc'[h] \in {"ipset", "wait"}
      /\ UNCHANGED <<peer, cleanups, trapped, stopping, links, unclean>>
      /\ TypeOK /\ IsIpset(flag[h], set[h])
  BY TypedVariables DEF FindSelf, machine, IInv, AtIpset
<1>2. Registered(h)'
  <2> SUFFICES ASSUME NEW i, NEW k, NEW s, NEW p, Builds(h, i, k, s, p), Reached(h, i, k, p)'
               PROVE  Past(h, i, k)
    BY <1>1 DEF Listed, Registered, Running, Reached
  <2>1. Past(h, i, k)' /\ IsIpset(i, k)
    BY <1>1, BuildsFacts DEF Reached
  <2>2. CASE Own(h, flag[h], set[h]) = {} /\ NextIpset(h)
    <3>1. Past(h, i, k) \/ (i = flag[h] /\ k = set[h])
      BY <1>1, <2>1, <2>2, NextPast
    <3>2. ~ (i = flag[h] /\ k = set[h])
      BY <2>2 DEF Builds, IsFirst
    <3> QED
      BY <3>1, <3>2
  <2>3. CASE UNCHANGED <<flag, set>>
    BY <2>1, <2>3 DEF Past
  <2> QED
    BY <2>2, <2>3 DEF FindSelf
<1>3. (Resting(h) /\ NameFree(h) /\ Tidy(h) /\ Armed(h) /\ AtEnd(h))'
  BY <1>1 DEF Listed, Resting, NameFree, Tidy, Armed, AtEnd, Running
<1> QED
  BY <1>2, <1>3 DEF Listed

LEMMA BridgedListed ==
  ASSUME IInv, NEW h \in Machines, Listed(h), Bridged(h)
  PROVE  Listed(h)'
<1>1. /\ pc[h] = "wait" /\ pc'[h] = "tunnel" /\ peer'[h] = 1
      /\ UNCHANGED <<flag, set, self, cleanups, stopping, unclean>>
      /\ links'[h] \subseteq links[h]
      /\ \/ stopping[h] = TRUE /\ trapped'[h] = FALSE
         \/ trapped'[h] = trapped[h]
  BY TypedVariables DEF Bridged, Cleanup, IInv
<1>2. Registered(h)'
  <2> SUFFICES ASSUME NEW i, NEW k, NEW s, NEW p, Builds(h, i, k, s, p), Reached(h, i, k, p)'
               PROVE  Past(h, i, k)
    BY <1>1 DEF Listed, Registered, Running, Reached
  <2> QED
    BY <1>1, BuildsFacts DEF Reached, Past
<1>3. (Resting(h) /\ NameFree(h) /\ Tidy(h) /\ Armed(h) /\ AtEnd(h))'
  BY <1>1 DEF Listed, Resting, NameFree, Tidy, Armed, AtEnd, Running
<1> QED
  BY <1>2, <1>3 DEF Listed

LEMMA TryPeerListed ==
  ASSUME IInv, NEW h \in Machines, Listed(h), TryPeer(h)
  PROVE  Listed(h)'
<1> DEFINE name == Name(flag[h], set[h], peer[h])
<1>0. /\ pc[h] = "tunnel" /\ UNCHANGED <<self, trapped, stopping, unclean>>
      /\ TypeOK /\ IsIpset(flag[h], set[h]) /\ IsFirst(self[h], Own(h, flag[h], set[h]))
  BY DEF TryPeer, IInv, AtIpset
<1>1. CASE /\ peer[h] > Len(Ipset(flag[h], set[h]))
           /\ NextIpset(h)
           /\ pc' = [pc EXCEPT ![h] = "ipset"]
           /\ UNCHANGED <<peer, links, cleanups>>
  <2>1. pc'[h] = "ipset"
    BY <1>0, <1>1, TypedVariables
  <2>2. Registered(h)'
    <3> SUFFICES ASSUME NEW i, NEW k, NEW s, NEW p, Builds(h, i, k, s, p), Reached(h, i, k, p)'
                 PROVE  Reached(h, i, k, p)
      BY <1>0, <1>1, <2>1 DEF Listed, Registered, Running
    <3>1. Past(h, i, k) \/ (i = flag[h] /\ k = set[h])
      BY <1>0, <1>1, <2>1, BuildsFacts, NextPast DEF Reached
    <3>2. i = flag[h] /\ k = set[h] => peer[h] > p
      BY <1>0, <1>1, BuildsFacts, TypedVariables
    <3> QED
      BY <1>0, <3>1, <3>2 DEF Reached
  <2>3. (Resting(h) /\ NameFree(h) /\ Tidy(h) /\ Armed(h) /\ AtEnd(h))'
    BY <1>0, <1>1, <2>1 DEF Listed, Resting, NameFree, Tidy, Armed, AtEnd, Running
  <2> QED
    BY <2>2, <2>3 DEF Listed
<1>2. CASE /\ Prepare(h)
           /\ pc' = [pc EXCEPT ![h] = "add"]
           /\ UNCHANGED <<flag, set, peer>>
  <2>1. /\ pc'[h] = "add" /\ cleanups'[h] = cleanups[h] \cup {name}
        /\ links'[h] = {l \in links[h] : l.name # name}
    BY <1>0, <1>2, TypedVariables DEF Prepare
  <2> HIDE DEF name
  <2>2. Registered(h)'
    <3>1. ASSUME NEW i, NEW k, NEW s, NEW p, Builds(h, i, k, s, p), Reached(h, i, k, p)'
          PROVE  Name(i, k, p) \in cleanups'[h]
      <4>1. Reached(h, i, k, p)
        BY <1>0, <1>2, <3>1 DEF Reached, Past
      <4> QED
        BY <1>0, <2>1, <3>1, <4>1 DEF Listed, Registered, Running
    <3>2. Name(flag'[h], set'[h], peer'[h]) \in cleanups'[h]
      BY <1>2, <2>1 DEF name
    <3> QED
      BY <3>1, <3>2 DEF Registered
  <2>3. NameFree(h)'
    BY <1>2, <2>1 DEF NameFree, name
  <2>4. (Resting(h) /\ Tidy(h) /\ Armed(h) /\ AtEnd(h))'
    BY <1>0, <1>2, <2>1 DEF Listed, Resting, Tidy, Armed, AtEnd, Running
  <2> QED
    BY <2>2, <2>3, <2>4 DEF Listed
<1>3. CASE /\ ~ Tunnelled(self[h], peer[h])
           /\ peer' = [peer EXCEPT ![h] = @ + 1]
           /\ UNCHANGED <<pc, flag, set, links, cleanups>>
  <2>1. peer'[h] = peer[h] + 1 /\ peer[h] \in Nat
    BY <1>0, <1>3, TypedVariables
  <2>2. Registered(h)'
    <3> SUFFICES ASSUME NEW i, NEW k, NEW s, NEW p, Builds(h, i, k, s, p), Reached(h, i, k, p)'
                 PROVE  Reached(h, i, k, p)
      BY <1>0, <1>3 DEF Listed, Registered, Running
    <3>1. Past(h, i, k) \/ (i = flag[h] /\ k = set[h] /\ (peer[h] > p \/ peer[h] = p))
      BY <1>0, <1>3, <2>1, BuildsFacts DEF Reached, Past
    <3>2. ~ (i = flag[h] /\ k = set[h] /\ p = peer[h])
      BY <1>0, <1>3, SelfOnly DEF Builds
    <3> QED
      BY <1>0, <3>1, <3>2 DEF Reached
  <2>3. (Resting(h) /\ NameFree(h) /\ Tidy(h) /\ Armed(h) /\ AtEnd(h))'
    BY <1>0, <1>3 DEF Listed, Resting, NameFree, Tidy, Armed, AtEnd, Running
  <2> QED
    BY <2>2, <2>3 DEF Listed
<1> QED
  BY <1>1, <1>2, <1>3 DEF TryPeer

\* The end of a script, which leaves nothing, or was not clean.
LEMMA EndListed ==
  ASSUME TypeOK, NEW h \in Machines, NEW how \in {"stopped", "failed"}, End(h, how),
         links'[h] = {} \/ unclean'[h] = TRUE
  PROVE  Listed(h)'
<1>1. /\ pc'[h] = how /\ flag'[h] = 1 /\ set'[h] = 1 /\ cleanups'[h] = {}
      /\ trapped'[h] = FALSE /\ stopping'[h] = FALSE
  BY TypedVariables DEF End
<1> QED
  BY <1>1 DEF Listed, Resting, Registered, NameFree, Tidy, Armed, AtEnd, Running

LEMMA AddLinkListed ==
  ASSUME IInv, NEW h \in Machines, Listed(h), AddLink(h)
  PROVE  Listed(h)'
<1> DEFINE new == Link(flag[h], set[h], self[h], peer[h])
<1>0. /\ pc[h] = "add" /\ TypeOK /\ IsFirst(self[h], Own(h, flag[h], set[h]))
  BY DEF AddLink, IInv, AtIpset
<1>1. new.name = Name(flag[h], set[h], peer[h])
  BY DEF Link
<1> HIDE DEF new
<1>2. CASE /\ links' = [links EXCEPT ![h] = @ \cup {new}]
           /\ pc' = [pc EXCEPT ![h] = "tunnel"]
           /\ peer' = [peer EXCEPT ![h] = @ + 1]
           /\ UNCHANGED <<flag, set, self, cleanups, trapped, stopping, unclean>>
  <2>1. /\ pc'[h] = "tunnel" /\ peer'[h] = peer[h] + 1 /\ peer[h] \in Nat
        /\ links'[h] = links[h] \cup {new}
    BY <1>0, <1>2, TypedVariables
  <2>2. Registered(h)'
    <3> SUFFICES ASSUME NEW i, NEW k, NEW s, NEW p, Builds(h, i, k, s, p), Reached(h, i, k, p)'
                 PROVE  Name(i, k, p) \in cleanups[h]
      BY <1>2, <2>1 DEF Registered
    <3>1. Reached(h, i, k, p) \/ (i = flag[h] /\ k = set[h] /\ p = peer[h])
      BY <1>0, <1>2, <2>1, BuildsFacts DEF Reached, Past
    <3> QED
      BY <1>0, <3>1 DEF Listed, Registered, Running
  <2>3. Tidy(h)'
    BY <1>0, <1>1, <1>2, <2>1 DEF Listed, Registered, Tidy, Running
  <2>4. (Resting(h) /\ NameFree(h) /\ Armed(h) /\ AtEnd(h))'
    BY <1>0, <1>2, <2>1 DEF Listed, Resting, NameFree, Armed, AtEnd, Running
  <2> QED
    BY <2>2, <2>3, <2>4 DEF Listed
<1>3. CASE Cleanup(h) /\ unclean' = [unclean EXCEPT ![h] = @ \/ ~trapped[h]] /\ End(h, "failed")
  <2>1. CASE unclean[h] = TRUE \/ trapped[h] = FALSE
    <3>1. unclean'[h] = TRUE
      BY <1>0, <1>3, <2>1, TypedVariables
    <3> QED
      BY <1>0, <1>3, <3>1, EndListed
  <2>2. CASE unclean[h] = FALSE /\ trapped[h] = TRUE
    <3>1. \A l \in links[h] : l.name \in cleanups[h]
      BY <2>2 DEF Listed, Tidy
    <3>2. links'[h] = {}
      BY <1>0, <1>3, <2>2, <3>1, TypedVariables DEF Cleanup
    <3> QED
      BY <1>0, <1>3, <3>2, EndListed
  <2> QED
    BY <1>0, <2>1, <2>2, TypedVariables
<1> QED
  BY <1>2, <1>3 DEF AddLink, new

LEMMA StopListed ==
  ASSUME IInv, NEW h \in Machines, Listed(h), Stop(h)
  PROVE  Listed(h)'
<1>0. TypeOK /\ FromScript /\ Running(h) /\ stopping[h] = FALSE
  BY TypedVariables DEF IInv, Stop
<1>1. CASE pc[h] = "idle"
  <2>1. Cleanup(h) /\ End(h, "stopped")
    BY <1>1 DEF Stop
  <2>2. ASSUME NEW l \in links[h]
        PROVE  l.name \in cleanups[h]
    <3>1. PICK i, k, s, p \in Nat : Builds(h, i, k, s, p) /\ l = Link(i, k, s, p)
      BY <1>0 DEF FromScript
    <3>2. flag[h] > Len(Flags) /\ flag[h] \in Nat
      BY <1>0, <1>1, TypedVariables DEF Listed, AtEnd
    <3>3. Reached(h, i, k, p)
      BY <3>1, <3>2, BuildsFacts DEF Reached, Past
    <3> QED
      BY <1>0, <3>1, <3>3 DEF Listed, Registered, Link
  <2>3. trapped[h] = TRUE
    BY <1>0 DEF Listed, Armed
  <2>4. links'[h] = {}
    BY <1>0, <2>1, <2>2, <2>3, TypedVariables DEF Cleanup
  <2> QED
    BY <1>0, <2>1, <2>4, EndListed
<1>2. CASE pc[h] # "idle"
  <2>1. /\ UNCHANGED <<pc, flag, set, self, peer, cleanups, unclean>>
        /\ links'[h] \subseteq links[h] /\ stopping'[h] = TRUE
        /\ trapped'[h] = FALSE \/ trapped'[h] = trapped[h]
    BY <1>0, <1>2, TypedVariables DEF Stop, Cleanup, script
  <2>2. Registered(h)'
    BY <1>0, <2>1 DEF Listed, Registered, Reached, Past, Running
  <2>3. (Resting(h) /\ NameFree(h) /\ Tidy(h) /\ Armed(h) /\ AtEnd(h))'
    BY <1>0, <2>1 DEF Listed, Resting, NameFree, Tidy, Armed, AtEnd, Running
  <2> QED
    BY <2>2, <2>3 DEF Listed
<1> QED
  BY <1>1, <1>2

LEMMA SetHealthyListed ==
  ASSUME IInv, NEW h \in Machines, Listed(h), SetHealthy(h)
  PROVE  Listed(h)'
<1>1. /\ pc[h] = "ipset" /\ flag[h] > Len(Flags) /\ pc'[h] = "idle"
      /\ UNCHANGED <<flag, set, self, peer, cleanups, trapped, stopping, links, unclean>>
  BY TypedVariables DEF SetHealthy, script, machine, IInv
<1>2. Registered(h)'
  BY <1>1 DEF Listed, Registered, Reached, Past, Running
<1>3. (Resting(h) /\ NameFree(h) /\ Tidy(h) /\ Armed(h) /\ AtEnd(h))'
  BY <1>1 DEF Listed, Resting, NameFree, Tidy, Armed, AtEnd, Running
<1> QED
  BY <1>2, <1>3 DEF Listed

LEMMA ListedStep ==
  JInv /\ [Next]_vars => JInv'
<1> SUFFICES ASSUME JInv, [Next]_vars PROVE JInv'
  OBVIOUS
<1>0. IInv' /\ IInv /\ TypeOK /\ \A g \in Machines : Listed(g)
  BY Inductive DEF JInv, IInv
<1>1. CASE UNCHANGED vars
  <2>1. \A g \in Machines : Same(g)
    BY <1>1 DEF vars, script, machine, Same
  <2> QED
    BY <1>0, <2>1, SameListed DEF JInv
<1>2. CASE Next
  <2>1. PICK h \in Machines :
          \/ Up(h) \/ Script(h) \/ Stop(h) \/ Kill(h) \/ Down(h)
          \/ \E n \in Nets : NetUp(h, n)
    BY <1>2 DEF Next
  <2>2. Listed(h)'
    <3>1. CASE Kill(h)
      <4>1. End(h, "stopped") /\ unclean'[h] = TRUE
        BY <1>0, <3>1, TypedVariables DEF Kill
      <4> QED
        BY <1>0, <4>1, EndListed
    <3>2. CASE Down(h) \/ \E n \in Nets : NetUp(h, n)
      <4>1. Same(h)
        BY <3>2 DEF Down, NetUp, Same, script, machine
      <4> QED
        BY <1>0, <4>1, SameListed
    <3>3. CASE Script(h)
      BY <1>0, <3>3, FindSelfListed, BridgedListed, TryPeerListed, AddLinkListed, SetHealthyListed DEF Script
    <3>4. CASE Up(h) \/ Stop(h)
      BY <1>0, <3>4, UpListed, StopListed
    <3> QED
      BY <2>1, <3>1, <3>2, <3>3, <3>4
  <2>3. ASSUME NEW g \in Machines, g # h
        PROVE  Listed(g)'
    BY <1>0, <2>1, <2>3, Elsewhere, SameListed
  <2> QED
    BY <1>0, <2>2, <2>3 DEF JInv
<1> QED
  BY <1>1, <1>2

LEMMA InitListed == Init => JInv
<1> SUFFICES ASSUME Init PROVE JInv
  OBVIOUS
<1>1. \A h \in Machines : Listed(h)
  BY DEF Init, Listed, Resting, Registered, NameFree, Tidy, Armed, AtEnd, Running
<1> QED
  BY <1>1, Initially DEF JInv

\* Whatever a running script has set up is on its cleanup list, until its handler has run it
\* (util/cmd.ts, CLEANUPS).
THEOREM ListedInvariance == Spec => []JInv
BY InitListed, ListedStep, PTL DEF Spec

-----------------------------------------------------------------------------
(* The results.                                                              *)

\* The type invariant of the bridge script, which says that its two counters
\* always point at an IP set of the flags (compose/bridge.ts, generateScript()).
THEOREM TypeCorrect == Spec => []TypeOK
<1>1. IInv => TypeOK
  BY DEF IInv
<1> QED
  BY <1>1, Invariance, PTL

LEMMA MeetingEnds ==
  ASSUME SmallSets, IInv
  PROVE  EndsMeet
<1> SUFFICES ASSUME NEW a \in Machines, NEW b \in Machines, a # b,
                    NEW l \in links[a], NEW m \in links[b], l.vni = m.vni
             PROVE  /\ l.local = m.remote
                    /\ l.remote = m.local
                    /\ l.name[1] = m.name[1]
  BY DEF EndsMeet
<1>1. FromScript
  BY DEF IInv
<1>2. PICK i, k, s, p \in Nat : Builds(a, i, k, s, p) /\ l = Link(i, k, s, p)
  BY <1>1 DEF FromScript
<1>3. PICK j, c, t, q \in Nat : Builds(b, j, c, t, q) /\ m = Link(j, c, t, q)
  BY <1>1 DEF FromScript
<1>4. Vni(i, k, s, p) = Vni(j, c, t, q)
  BY <1>2, <1>3 DEF Link
<1>5. /\ i = j /\ k = c
      /\ \/ s = t /\ p = q
         \/ s = q /\ p = t
  BY <1>2, <1>3, <1>4, VniInjective
<1>6. s # t
  BY <1>2, <1>3, <1>5 DEF Builds, IsFirst, Own
<1>7. s = q /\ p = t
  BY <1>5, <1>6
<1>8. /\ l.local = Ipset(i, k)[s] /\ l.remote = Ipset(i, k)[p]
      /\ m.local = Ipset(j, c)[t] /\ m.remote = Ipset(j, c)[q]
      /\ l.name = <<Flags[i].net, k, p>> /\ m.name = <<Flags[j].net, c, q>>
  BY <1>2, <1>3 DEF Link, Name
<1> QED
  BY <1>5, <1>7, <1>8

\* Frames of one network never come out on another: two links of two machines with
\* the same VNI are the ends of one tunnel, whatever was killed before
\* (the VNI of compose/bridge.ts, buildTunnels()).
THEOREM NoCrosstalk ==
  ASSUME SmallSets
  PROVE  Spec => []EndsMeet
<1>1. IInv => EndsMeet
  BY MeetingEnds
<1> QED
  BY <1>1, Invariance, PTL
-----------------------------------------------------------------------------
(* The cleanup, the star and the tree.                                       *)

\* A script that was stopped, after a complete run, by a signal that it could handle leaves no link on its
\* machine, not even those that earlier scripts have left when they were killed (the cleanup trap of
\* util/cmd.ts and the CLEANUPS of compose/bridge.ts).
THEOREM NothingLeft == Spec => []NoLeak
<1>1. JInv => NoLeak
  BY TypedVariables DEF JInv, IInv, Listed, Tidy, NoLeak
<1> QED
  BY <1>1, ListedInvariance, PTL

\* A name or VNI that the script of a machine uses is free: a link with the same VNI would have the same
\* two addresses, hence the same name, and that is deleted before.
LEMMA NotRefused ==
  ASSUME SmallSets, JInv, NEW h \in Machines, pc[h] = "add"
  PROVE  ~ Refused(h, Link(flag[h], set[h], self[h], peer[h]))
<1> DEFINE i == flag[h]
           k == set[h]
           s == self[h]
           p == peer[h]
<1>1. Builds(h, i, k, s, p) /\ FromScript
  BY AtPeer DEF JInv, IInv
<1>2. SUFFICES ASSUME NEW m \in links[h],
                      m.name = Link(i, k, s, p).name \/ m.vni = Link(i, k, s, p).vni
               PROVE  FALSE
  BY DEF Refused
<1>3. PICK j, c, t, q \in Nat : Builds(h, j, c, t, q) /\ m = Link(j, c, t, q)
  BY <1>1 DEF FromScript
<1>4. m.name # Name(i, k, p)
  BY DEF JInv, Listed, NameFree
<1>5. Vni(i, k, s, p) = Vni(j, c, t, q)
  BY <1>2, <1>3, <1>4 DEF Link
<1> HIDE DEF i, k, s, p
<1>6. i = j /\ k = c /\ ((s = t /\ p = q) \/ (s = q /\ p = t))
  BY <1>1, <1>3, <1>5, VniInjective
<1>7. s = t
  BY <1>1, <1>3, <1>6, SelfOnly DEF Builds
<1>8. m.name = Name(i, k, p)
  BY <1>3, <1>6, <1>7 DEF Link
<1> QED
  BY <1>4, <1>8

LEMMA NeverRefusedStep ==
  ASSUME SmallSets, JInv, NeverRefused, [Next]_vars
  PROVE  NeverRefused'
<1>0. TypeOK
  BY DEF JInv, IInv
<1>1. CASE UNCHANGED vars
  BY <1>1 DEF NeverRefused, vars
<1>2. CASE Next
  <2>1. PICK h \in Machines :
          \/ Up(h) \/ Script(h) \/ Stop(h) \/ Kill(h) \/ Down(h)
          \/ \E n \in Nets : NetUp(h, n)
    BY <1>2 DEF Next
  <2>2. pc'[h] # "failed"
    <3> USE <1>0, TypedVariables DEF NeverRefused
    <3>1. CASE AddLink(h)
      <4>1. pc' = [pc EXCEPT ![h] = "tunnel"]
        BY <3>1, NotRefused DEF AddLink
      <4> QED
        BY <4>1
    <3>2. CASE FindSelf(h)
      BY <3>2 DEF FindSelf
    <3>3. CASE Bridged(h)
      BY <3>3 DEF Bridged
    <3>4. CASE TryPeer(h)
      BY <3>4 DEF TryPeer
    <3>5. CASE SetHealthy(h) \/ Up(h) \/ Down(h) \/ \E n \in Nets : NetUp(h, n)
      BY <3>5 DEF SetHealthy, Up, Down, NetUp
    <3>6. CASE Stop(h) \/ Kill(h)
      BY <3>6 DEF Stop, Kill, End
    <3> QED
      BY <2>1, <3>1, <3>2, <3>3, <3>4, <3>5, <3>6 DEF Script
  <2>3. \A g \in Machines : g # h => pc'[g] = pc[g]
    BY <1>0, <2>1, Elsewhere DEF Same
  <2> QED
    BY <2>2, <2>3 DEF NeverRefused
<1> QED
  BY <1>1, <1>2

\* The kernel never refuses a link if the IP sets fit into the VNI, whatever a killed script has left.
THEOREM AlwaysAccepted ==
  ASSUME SmallSets
  PROVE  Spec => []NeverRefused
<1>1. Init => NeverRefused
  BY DEF Init, NeverRefused
<1>2. JInv /\ NeverRefused /\ [Next]_vars => NeverRefused'
  BY NeverRefusedStep
<1> QED
  BY <1>1, <1>2, ListedInvariance, PTL DEF Spec

\* A network has one --bridge flag.
DistinctNets == \A i, j \in DOMAIN Flags : Flags[i].net = Flags[j].net => i = j

\* A machine has one address in an IP set.
OneAddress ==
  \A i, k : IsIpset(i, k) =>
    \A s, t \in DOMAIN Ipset(i, k) : MachineOf[Ipset(i, k)[s]] = MachineOf[Ipset(i, k)[t]] => s = t

LEMMA NamesDiffer ==
  ASSUME DistinctNets, NEW h, NEW i, NEW k, NEW s, NEW p, NEW j, NEW c, NEW q,
         Builds(h, i, k, s, p), IsIpset(j, c), Name(i, k, p) = Name(j, c, q)
  PROVE  i = j /\ k = c /\ p = q
<1>1. Flags[i].net = Flags[j].net /\ k = c /\ p = q
  BY DEF Name
<1> QED
  BY <1>1 DEF DistinctNets, Builds, IsIpset

LEMMA PresentStep ==
  ASSUME DistinctNets, JInv, \A g \in Machines : Present(g), [Next]_vars
  PROVE  \A g \in Machines : Present(g)'
<1>0. TypeOK /\ IInv /\ \A g \in Machines : AtIpset(g) /\ Listed(g)
  BY DEF JInv, IInv
<1>1. CASE UNCHANGED vars
  BY <1>1, SamePresent DEF vars, script, machine, Same
<1>2. ASSUME NEW h \in Machines,
             \/ Up(h) \/ Script(h) \/ Stop(h) \/ Kill(h) \/ Down(h)
             \/ \E n \in Nets : NetUp(h, n)
      PROVE  Present(h)'
  <2> USE <1>0, TypedVariables
  <2>1. CASE Kill(h) \/ Stop(h)
    <3>1. ~ Running(h)' \/ stopping'[h] = TRUE
      BY <2>1 DEF Kill, Stop, End, Running
    <3> QED
      BY <3>1 DEF Present
  <2>2. CASE Down(h) \/ \E n \in Nets : NetUp(h, n)
    <3>1. Same(h)
      BY <2>2 DEF Down, NetUp, Same, script, machine
    <3> QED
      BY <3>1, SamePresent
  <2>3. SUFFICES ASSUME NEW i, NEW k, NEW s, NEW p, Running(h)', stopping'[h] = FALSE,
                        Builds(h, i, k, s, p), Reached(h, i, k, p)',
                        Up(h) \/ Script(h)
                 PROVE  Link(i, k, s, p) \in links'[h]
    BY <1>2, <2>1, <2>2 DEF Present
  <2>4. i \in Nat \ {0} /\ k \in Nat \ {0} /\ s \in Nat \ {0} /\ p \in Nat \ {0} /\ IsIpset(i, k)
        /\ p <= Len(Ipset(i, k)) /\ Len(Ipset(i, k)) \in Nat
    BY <2>3, BuildsFacts
  <2>5. CASE Up(h)
    <3>1. flag'[h] = 1 /\ set'[h] = 1 /\ pc'[h] = "ipset"
      BY <2>5 DEF Up, script, Running, Listed, Resting
    <3> QED
      BY <2>3, <2>4, <3>1 DEF Reached, Past
  <2>6. CASE FindSelf(h)
    <3>1. /\ pc[h] = "ipset" /\ pc'[h] \in {"ipset", "wait"} /\ links' = links /\ stopping' = stopping
          /\ IsIpset(flag[h], set[h])
      BY <2>6 DEF FindSelf, machine, AtIpset
    <3>2. Past(h, i, k)
      <4>1. CASE Own(h, flag[h], set[h]) = {} /\ NextIpset(h)
        <5>1. ~ (i = flag[h] /\ k = set[h])
          BY <2>3, <4>1 DEF Builds, IsFirst
        <5> QED
          BY <2>3, <2>4, <3>1, <4>1, <5>1, NextPast DEF Reached
      <4>2. CASE UNCHANGED <<flag, set>>
        BY <2>3, <3>1, <4>2 DEF Reached, Past
      <4> QED
        BY <2>6, <4>1, <4>2 DEF FindSelf
    <3> QED
      BY <2>3, <3>1, <3>2 DEF Present, Running, Reached
  <2>7. CASE Bridged(h)
    <3>1. /\ pc[h] = "wait" /\ pc'[h] = "tunnel" /\ peer'[h] = 1 /\ UNCHANGED <<flag, set, stopping>>
          /\ stopping[h] = FALSE => links' = links
      BY <2>7 DEF Bridged
    <3>2. Past(h, i, k)
      BY <2>3, <2>4, <3>1 DEF Reached, Past
    <3> QED
      BY <2>3, <3>1, <3>2 DEF Present, Running, Reached
  <2>8. CASE TryPeer(h)
    <3>0. /\ pc[h] = "tunnel" /\ UNCHANGED <<self, stopping>>
          /\ IsIpset(flag[h], set[h]) /\ IsFirst(self[h], Own(h, flag[h], set[h]))
      BY <2>8 DEF TryPeer, AtIpset
    <3>1. CASE /\ peer[h] > Len(Ipset(flag[h], set[h])) /\ NextIpset(h)
               /\ pc' = [pc EXCEPT ![h] = "ipset"] /\ UNCHANGED <<peer, links, cleanups>>
      <4>0. pc'[h] = "ipset"
        BY <3>1
      <4>1. Past(h, i, k) \/ (i = flag[h] /\ k = set[h])
        BY <2>3, <2>4, <3>0, <3>1, <4>0, NextPast DEF Reached
      <4>2. Reached(h, i, k, p)
        BY <2>4, <3>0, <3>1, <4>1 DEF Reached
      <4> QED
        BY <2>3, <3>0, <3>1, <4>2 DEF Present, Running
    <3>2. CASE /\ Prepare(h) /\ pc' = [pc EXCEPT ![h] = "add"] /\ UNCHANGED <<flag, set, peer>>
      <4>1. Reached(h, i, k, p) /\ ~ (i = flag[h] /\ k = set[h] /\ p = peer[h])
        BY <2>3, <2>4, <3>0, <3>2 DEF Reached, Past
      <4>2. Link(i, k, s, p) \in links[h]
        BY <2>3, <3>0, <3>2, <4>1 DEF Present, Running
      <4>3. Name(i, k, p) # Name(flag[h], set[h], peer[h])
        BY <2>3, <3>0, <4>1, NamesDiffer
      <4> QED
        BY <3>2, <4>2, <4>3 DEF Prepare, Link
    <3>3. CASE /\ ~ Tunnelled(self[h], peer[h]) /\ peer' = [peer EXCEPT ![h] = @ + 1]
               /\ UNCHANGED <<pc, flag, set, links, cleanups>>
      <4>1. Past(h, i, k) \/ (i = flag[h] /\ k = set[h] /\ (peer[h] > p \/ peer[h] = p))
        BY <2>3, <2>4, <3>3 DEF Reached, Past
      <4>2. ~ (i = flag[h] /\ k = set[h] /\ p = peer[h])
        BY <2>3, <3>0, <3>3, SelfOnly DEF Builds
      <4>3. Reached(h, i, k, p)
        BY <3>0, <4>1, <4>2 DEF Reached
      <4> QED
        BY <2>3, <3>0, <3>3, <4>3 DEF Present, Running
    <3> QED
      BY <2>8, <3>1, <3>2, <3>3 DEF TryPeer
  <2>9. CASE AddLink(h)
    <3> DEFINE new == Link(flag[h], set[h], self[h], peer[h])
    <3>1. pc[h] = "add" /\ IsFirst(self[h], Own(h, flag[h], set[h]))
      BY <2>9 DEF AddLink, AtIpset
    <3>2. /\ links'[h] = links[h] \cup {new} /\ pc'[h] = "tunnel" /\ peer'[h] = peer[h] + 1
          /\ UNCHANGED <<flag, set, stopping>>
      <4> HIDE DEF new
      <4>1. ~ End(h, "failed")
        BY <2>3 DEF End, Running
      <4> QED
        BY <2>9, <4>1 DEF AddLink, new
    <3>3. Reached(h, i, k, p) \/ (i = flag[h] /\ k = set[h] /\ p = peer[h])
      BY <2>4, <2>3, <3>1, <3>2 DEF Reached, Past
    <3>4. CASE Reached(h, i, k, p)
      BY <2>3, <3>1, <3>2, <3>4 DEF Present, Running
    <3>5. CASE i = flag[h] /\ k = set[h] /\ p = peer[h]
      <4>1. s = self[h]
        BY <2>3, <3>1, <3>5, SelfOnly
      <4> QED
        BY <3>2, <3>5, <4>1
    <3> QED
      BY <3>3, <3>4, <3>5
  <2>10. CASE SetHealthy(h)
    BY <2>3, <2>10 DEF SetHealthy, script, machine, Present, Running, Reached, Past
  <2> QED
    BY <2>3, <2>5, <2>6, <2>7, <2>8, <2>9, <2>10 DEF Script
<1>3. CASE Next
  <2>1. PICK h \in Machines :
          \/ Up(h) \/ Script(h) \/ Stop(h) \/ Kill(h) \/ Down(h)
          \/ \E n \in Nets : NetUp(h, n)
    BY <1>3 DEF Next
  <2>2. \A g \in Machines : g # h => Present(g)'
    BY <1>0, <2>1, Elsewhere, SamePresent
  <2> QED
    BY <1>2, <2>1, <2>2
<1> QED
  BY <1>1, <1>3

\* With one --bridge flag per network, the links that an undisturbed script has gone past are
\* there (compose/bridge.ts, BridgeModeVxlan).
THEOREM PresentInvariance ==
  ASSUME DistinctNets
  PROVE  Spec => []\A g \in Machines : Present(g)
<1>1. Init => \A g \in Machines : Present(g)
  BY DEF Init, Present, Running
<1>2. JInv /\ (\A g \in Machines : Present(g)) /\ [Next]_vars => (\A g \in Machines : Present(g))'
  BY PresentStep
<1> QED
  BY <1>1, <1>2, ListedInvariance, PTL DEF Spec

\* From the moment that the scripts of both machines are beyond an IP set, a hub and a leaf have links to each
\* other with the same VNI, if no network has two flags and no machine two addresses in an IP set.
THEOREM WholeStar ==
  ASSUME DistinctNets, OneAddress
  PROVE  Spec => []StarComplete
<1>1. ASSUME TypeOK, \A g \in Machines : Present(g)
      PROVE  StarComplete
  <2> SUFFICES ASSUME NEW i \in DOMAIN Flags, NEW k \in DOMAIN Flags[i].ipsets, NEW p \in 2 .. Len(Ipset(i, k)),
                      Beyond(MachineOf[Ipset(i, k)[1]], i, k), Beyond(MachineOf[Ipset(i, k)[p]], i, k)
               PROVE  \E l \in links[MachineOf[Ipset(i, k)[1]]], m \in links[MachineOf[Ipset(i, k)[p]]] :
                        /\ l.remote = Ipset(i, k)[p]
                        /\ m.remote = Ipset(i, k)[1]
                        /\ l.vni = m.vni
                        /\ l.name[1] = Flags[i].net
    BY DEF StarComplete
  <2> DEFINE hub == MachineOf[Ipset(i, k)[1]]
             leaf == MachineOf[Ipset(i, k)[p]]
             l == Link(i, k, 1, p)
             m == Link(i, k, p, 1)
  <2>1. /\ IsIpset(i, k) /\ Ipset(i, k) \in Seq(Addrs) /\ DOMAIN Ipset(i, k) = 1 .. Len(Ipset(i, k))
        /\ Len(Ipset(i, k)) \in Nat
    BY IpsetFacts DEF IsIpset
  <2>2. 1 \in DOMAIN Ipset(i, k) /\ p \in DOMAIN Ipset(i, k) /\ p \in Nat /\ p # 1
    BY <2>1
  <2>3. hub \in Machines /\ leaf \in Machines
    BY <2>1, <2>2, FlagsAssumption
  <2>4. Builds(hub, i, k, 1, p)
    BY <2>1, <2>2 DEF Builds, Own, IsFirst, Tunnelled
  <2>5. Builds(leaf, i, k, p, 1)
    <3>1. Own(leaf, i, k) = {p}
      BY <2>1, <2>2 DEF Own, OneAddress
    <3> QED
      BY <2>1, <2>2, <3>1 DEF Builds, IsFirst, Tunnelled
  <2>6. /\ Running(hub) /\ stopping[hub] = FALSE /\ Reached(hub, i, k, p)
        /\ Running(leaf) /\ stopping[leaf] = FALSE /\ Reached(leaf, i, k, 1)
    BY <1>1, <2>3, TypedVariables DEF Beyond, Reached, Past
  <2>7. l \in links[hub] /\ m \in links[leaf]
    BY <1>1, <2>3, <2>4, <2>5, <2>6 DEF Present
  <2>8. /\ l.remote = Ipset(i, k)[p] /\ m.remote = Ipset(i, k)[1]
        /\ l.vni = Vni(i, k, 1, p) /\ m.vni = Vni(i, k, p, 1)
        /\ l.name[1] = Flags[i].net
    BY DEF Link, Name
  <2>9. Vni(i, k, 1, p) = Vni(i, k, p, 1)
    BY <2>2 DEF Vni, Lower, Higher
  <2> HIDE DEF l, m
  <2> QED
    BY <2>7, <2>8, <2>9
<1> QED
  BY <1>1, TypeCorrect, PresentInvariance, PTL

\* The tunnels that the flags of a network ask for.
Tunnel(i, k, s, p) ==
  [vni |-> Vni(i, k, s, p), ends |-> {MachineOf[Ipset(i, k)[s]], MachineOf[Ipset(i, k)[p]]}]

Planned(n, t) ==
  \E h, i, k, s, p : Builds(h, i, k, s, p) /\ Flags[i].net = n /\ t = Tunnel(i, k, s, p)

\* Seen from some machines, those of each IP set but the hub are further away, and a machine is such a leaf
\* once per network: IP sets are attached to each other like the branches of a tree.
Leaf(i, k, p) == MachineOf[Ipset(i, k)[p]]

IsLeaf(i, k, p) == IsIpset(i, k) /\ p \in DOMAIN Ipset(i, k) /\ p # 1

IsDepth(depth, N) ==
  /\ depth \in [Nets \X Machines -> 0 .. N]
  /\ \A i, k, p : IsLeaf(i, k, p) =>
       depth[<<Flags[i].net, Leaf(i, k, 1)>>] < depth[<<Flags[i].net, Leaf(i, k, p)>>]

Branching ==
  /\ \E N \in Nat : \E depth : IsDepth(depth, N)
  /\ \A i, k, p, j, c, q :
       IsLeaf(i, k, p) /\ IsLeaf(j, c, q) /\ Flags[i].net = Flags[j].net /\ Leaf(i, k, p) = Leaf(j, c, q)
         => i = j /\ k = c /\ p = q

\* A planned tunnel joins the hub of an IP set and one of its leaves.
LEMMA PlannedFacts ==
  ASSUME NEW n, NEW t, Planned(n, t)
  PROVE  \E i, k, p : /\ IsLeaf(i, k, p) /\ Flags[i].net = n
                      /\ t = Tunnel(i, k, 1, p)
<1>1. PICK h, i, k, s, p : Builds(h, i, k, s, p) /\ Flags[i].net = n /\ t = Tunnel(i, k, s, p)
  BY DEF Planned
<1>2. /\ IsIpset(i, k) /\ s \in DOMAIN Ipset(i, k) /\ p \in DOMAIN Ipset(i, k) /\ s # p
      /\ s \in Nat /\ p \in Nat /\ (s = 1 \/ p = 1)
  BY <1>1, BuildsFacts DEF Builds, Tunnelled
<1>3. CASE s = 1
  BY <1>1, <1>2, <1>3 DEF IsLeaf
<1>4. CASE p = 1
  <2>1. Vni(i, k, s, p) = Vni(i, k, p, s)
    BY <1>2, <1>4 DEF Vni, Lower, Higher
  <2>2. t = Tunnel(i, k, 1, s)
    BY <1>1, <1>4, <2>1 DEF Tunnel
  <2> QED
    BY <1>1, <1>2, <1>4, <2>2 DEF IsLeaf
<1> QED
  BY <1>2, <1>3, <1>4

\* The furthest leaf of any set of tunnels is on one of them only.
LEMMA FurthestLeaf ==
  ASSUME Branching, NEW n \in Nets, NEW T, T # {}, \A t \in T : Planned(n, t)
  PROVE  \E h \in Machines : Cardinality({t \in T : h \in t.ends}) = 1
<1>0. PICK N \in Nat : \E depth : IsDepth(depth, N)
  BY DEF Branching
<1>1. PICK depth : IsDepth(depth, N)
  BY <1>0
<1>2. \A i, k, p : IsLeaf(i, k, p) => Leaf(i, k, 1) \in Machines /\ Leaf(i, k, p) \in Machines
  <2> SUFFICES ASSUME NEW i, NEW k, NEW p, IsLeaf(i, k, p)
               PROVE  Leaf(i, k, 1) \in Machines /\ Leaf(i, k, p) \in Machines
    OBVIOUS
  <2>1. /\ Ipset(i, k) \in Seq(Addrs) /\ DOMAIN Ipset(i, k) = 1 .. Len(Ipset(i, k))
        /\ Len(Ipset(i, k)) \in Nat /\ p \in DOMAIN Ipset(i, k)
    BY IpsetFacts DEF IsLeaf
  <2>2. Ipset(i, k)[1] \in Addrs /\ Ipset(i, k)[p] \in Addrs
    BY <2>1
  <2> QED
    BY <2>2, FlagsAssumption DEF Leaf
<1> DEFINE far(h) == depth[<<n, h>>]
           D == {N - far(h) : h \in {x \in Machines :
                   \E i, k, p : IsLeaf(i, k, p) /\ Flags[i].net = n /\ x = Leaf(i, k, p) /\ Tunnel(i, k, 1, p) \in T}}
<1>3. \A h \in Machines : far(h) \in 0 .. N /\ far(h) \in Nat /\ N - far(h) \in Nat
  <2>1. \A h \in Machines : far(h) \in 0 .. N
    BY <1>1 DEF IsDepth
  <2> QED
    BY <2>1
<1>4. PICK h, i, k, p :
        /\ IsLeaf(i, k, p) /\ Flags[i].net = n /\ h = Leaf(i, k, p) /\ Tunnel(i, k, 1, p) \in T
        /\ h \in Machines
        /\ \A j, c, q : IsLeaf(j, c, q) /\ Flags[j].net = n /\ Tunnel(j, c, 1, q) \in T
                        => far(Leaf(j, c, q)) <= far(h)
  <2>1. D \subseteq Nat
    <3> HIDE DEF far
    <3> QED
      BY <1>3
  <2>2. D # {}
    <3>1. PICK t \in T : TRUE
      OBVIOUS
    <3>2. PICK i, k, p : IsLeaf(i, k, p) /\ Flags[i].net = n /\ t = Tunnel(i, k, 1, p)
      BY <3>1, PlannedFacts
    <3>3. Leaf(i, k, p) \in Machines
      BY <1>2, <3>2
    <3>4. N - far(Leaf(i, k, p)) \in D
      BY <3>2, <3>3
    <3> QED
      BY <3>4
  <2> HIDE DEF D, far
  <2>3. PICK d \in D : \A e \in D : d <= e
    BY <2>1, <2>2, Least
  <2>4. PICK h \in Machines : /\ d = N - far(h)
                              /\ \E i, k, p : IsLeaf(i, k, p) /\ Flags[i].net = n /\ h = Leaf(i, k, p)
                                               /\ Tunnel(i, k, 1, p) \in T
    BY <2>3 DEF D
  <2>5. ASSUME NEW j, NEW c, NEW q, IsLeaf(j, c, q), Flags[j].net = n, Tunnel(j, c, 1, q) \in T
        PROVE  far(Leaf(j, c, q)) <= far(h)
    <3>1. Leaf(j, c, q) \in Machines
      BY <1>2, <2>5
    <3>2. N - far(Leaf(j, c, q)) \in D
      BY <2>5, <3>1 DEF D
    <3>3. N - far(h) <= N - far(Leaf(j, c, q))
      BY <2>3, <2>4, <3>2
    <3>4. far(h) \in 0 .. N /\ far(Leaf(j, c, q)) \in 0 .. N
      BY <1>3, <3>1
    <3> QED
      BY <3>3, <3>4
  <2> QED
    BY <2>4, <2>5
<1> HIDE DEF D
<1>5. {t \in T : h \in t.ends} = {Tunnel(i, k, 1, p)}
  <2>1. h \in Tunnel(i, k, 1, p).ends
    BY <1>4 DEF Tunnel, Leaf
  <2>2. ASSUME NEW t \in T, h \in t.ends
        PROVE  t = Tunnel(i, k, 1, p)
    <3>1. PICK j, c, q : IsLeaf(j, c, q) /\ Flags[j].net = n /\ t = Tunnel(j, c, 1, q)
      BY PlannedFacts
    <3>2. h = Leaf(j, c, 1) \/ h = Leaf(j, c, q)
      BY <2>2, <3>1 DEF Tunnel, Leaf
    <3>3. h # Leaf(j, c, 1)
      <4>1. far(Leaf(j, c, 1)) < far(Leaf(j, c, q)) /\ far(Leaf(j, c, q)) <= far(h)
        BY <1>1, <1>4, <3>1 DEF IsDepth
      <4>2. far(Leaf(j, c, 1)) \in Nat /\ far(Leaf(j, c, q)) \in Nat /\ far(h) \in Nat
        BY <1>2, <1>3, <1>4, <3>1
      <4> HIDE DEF far
      <4> QED
        BY <4>1, <4>2
    <3>4. Leaf(i, k, p) = Leaf(j, c, q)
      BY <1>4, <3>2, <3>3
    <3>5. i = j /\ k = c /\ p = q
      BY <1>4, <3>1, <3>4 DEF Branching
    <3> QED
      BY <3>1, <3>5
  <2> QED
    BY <1>4, <2>1, <2>2
<1>6. Cardinality({Tunnel(i, k, 1, p)}) = 1
  BY FS_Singleton
<1> QED
  BY <1>4, <1>5, <1>6

\* All tunnels that machines have, or have been left with, are planned.
LEMMA AllPlanned ==
  ASSUME IInv, NEW n \in Nets, NEW t \in Tunnels(n)
  PROVE  Planned(n, t)
<1>1. PICK h, l :
        h \in Machines /\ l \in links[h] /\ l.name[1] = n /\ t = [vni |-> l.vni, ends |-> {MachineOf[l.local], MachineOf[l.remote]}]
  BY DEF Tunnels
<1>2. PICK i, k, s, p \in Nat : Builds(h, i, k, s, p) /\ l = Link(i, k, s, p)
  BY <1>1 DEF IInv, FromScript
<1>3. /\ l.name[1] = Flags[i].net /\ l.vni = Vni(i, k, s, p)
      /\ l.local = Ipset(i, k)[s] /\ l.remote = Ipset(i, k)[p]
  BY <1>2 DEF Link, Name
<1>4. t = Tunnel(i, k, s, p) /\ Flags[i].net = n
  BY <1>1, <1>3 DEF Tunnel
<1> QED
  BY <1>2, <1>4 DEF Planned

\* The tunnels of a network never close a loop, whatever order they are set up in and whatever was left
\* behind, and none is refused: if the IP sets branch like a tree, as in the example of docs/multi-host.md
\* that continues from the hub of one IP set, and fit into the VNI.
THEOREM AlwaysTree ==
  ASSUME SmallSets, Branching
  PROVE  Spec => []StarIsTree
<1>1. IInv => LoopFree
  BY AllPlanned, FurthestLeaf DEF LoopFree
<1> QED
  BY <1>1, Invariance, AlwaysAccepted, PTL DEF StarIsTree
=============================================================================
