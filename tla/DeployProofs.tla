---------------------------- MODULE DeployProofs ----------------------------
(***************************************************************************)
(* Ports come to the containers they are for, and a network function is on *)
(* another host only beside one that depends on it, whatever the hosts, the *)
(* containers, the --bridge flags and the invocations of compose.sh.        *)
(***************************************************************************)
EXTENDS Deploy, ListProofs

ContainerState == {"none", "created", "running", "exited", "failed"}

\* The inductive invariant: compose.sh starts only what it has created.
PlacementInv ==
  /\ turn \in DOMAIN HostOrder
  /\ ct \in [Hosts -> [Containers -> ContainerState]]
  /\ act = "start" => \A c \in todo \cap Containers : ct[Host][c] # "none"
  /\ BroughtAlong
-----------------------------------------------------------------------------
\* Docker Compose wants a container that it was not given by name only because of another
\* one that it wants: without either, the containers would be closed under dependencies.
LEMMA WantedBecause ==
  ASSUME NEW h \in Hosts, NEW c \in Wanted[h], c \notin Named(h)
  PROVE  \E d \in Wanted[h] \ {c} : c \in DependsOn[d]
<1> DEFINE rest == Wanted[h] \ {c}
<1>1. Wanted[h] \subseteq Containers /\ Named(h) \subseteq Wanted[h]
  BY ContainersAssumption DEF Wanted, Named, ServicesOn
<1>2. \A t \in Wanted[h] : DependsOn[t] \subseteq Wanted[h]
  BY ContainersAssumption DEF Wanted, Closed
<1>3. SUFFICES ASSUME \A d \in rest : c \notin DependsOn[d]
               PROVE  FALSE
  OBVIOUS
<1>4. rest \in Closed /\ Named(h) \subseteq rest
  BY <1>1, <1>2, <1>3 DEF Closed
<1>5. c \in rest
  BY <1>4 DEF Wanted
<1> QED
  BY <1>5

LEMMA HostIn ==
  ASSUME turn \in DOMAIN HostOrder
  PROVE  Host \in Hosts
BY DEF Host, Hosts

\* turn stays within the hosts.
LEMMA NextHostTurn ==
  ASSUME NEW a, NextHost(a), turn \in DOMAIN HostOrder
  PROVE  turn' \in DOMAIN HostOrder /\ act' \in {a, "none"}
<1>1. HostOrder \in Seq(Hosts) /\ Len(HostOrder) > 0
  BY HostsAssumption
<1>2. QED
  BY <1>1 DEF NextHost

LEMMA PlacementInit == Init => PlacementInv
BY HostsAssumption DEF Init, PlacementInv, BroughtAlong, ContainerState, Hosts, Named, ServicesOn

\* A step that neither makes nor removes a container.
Kept_ct == \A h \in Hosts, c \in Containers : ct'[h][c] = "none" <=> ct[h][c] = "none"

LEMMA KeptBroughtAlong == BroughtAlong /\ Kept_ct => BroughtAlong'
BY ContainersAssumption DEF BroughtAlong, Kept_ct, Named, ServicesOn

LEMMA PlacementStep == PlacementInv /\ [Next]_vars => PlacementInv'
<1> SUFFICES ASSUME PlacementInv, [Next]_vars
             PROVE  PlacementInv'
  OBVIOUS
<1> USE DEF PlacementInv, ContainerState
<1>0. Host \in Hosts
  BY HostIn
<1>1. ASSUME UNCHANGED ct
      PROVE  BroughtAlong'
  BY <1>1, KeptBroughtAlong DEF Kept_ct
<1>2. CASE UNCHANGED vars
  BY <1>1, <1>2 DEF vars, script, Host
<1>3. ASSUME NEW a \in {"create", "up", "stop"}, Invoke(a)
      PROVE  PlacementInv'
  BY <1>1, <1>3, HostsAssumption DEF Invoke
<1>4. CASE Create
  <2>1. /\ ct' \in [Hosts -> [Containers -> ContainerState]]
        /\ \A c \in Wanted[Host] \cap Containers : ct'[Host][c] # "none"
        /\ \A h \in Hosts, c \in Containers : ct[h][c] # "none" => ct'[h][c] # "none"
    BY <1>0, <1>4 DEF Create
  <2>2. turn' \in DOMAIN HostOrder
    BY <1>4, NextHostTurn DEF Create
  <2>3. act' = "start" => \A c \in todo' \cap Containers : ct'[Host'][c] # "none"
    BY <1>4, <2>1, NextHostTurn DEF Create, Host
  <2>4. ASSUME NEW h \in Hosts, NEW c \in Containers \ Named(h), ct'[h][c] # "none"
        PROVE  \E d \in Containers \ {c} : c \in DependsOn[d] /\ ct'[h][d] # "none"
    <3>1. CASE ct[h][c] # "none"
      BY <2>1, <3>1 DEF BroughtAlong
    <3>2. CASE ct[h][c] = "none"
      <4>1. h = Host /\ c \in Wanted[h]
        BY <1>0, <1>4, <2>4, <3>2 DEF Create
      <4>2. PICK d \in Wanted[h] \ {c} : c \in DependsOn[d]
        BY <4>1, WantedBecause
      <4>3. d \in Containers
        BY <4>2 DEF Wanted
      <4> QED
        BY <2>1, <4>1, <4>2, <4>3
    <3> QED
      BY <3>1, <3>2
  <2>5. BroughtAlong'
    BY <2>4 DEF BroughtAlong, Named, ServicesOn
  <2> QED
    BY <2>1, <2>2, <2>3, <2>5
<1>5. ASSUME NEW c \in Containers, StartContainer(c)
      PROVE  PlacementInv'
  <2>1. /\ ct[Host][c] # "none"
        /\ ct' = [ct EXCEPT ![Host][c] = "running"]
        /\ todo' \subseteq todo /\ UNCHANGED <<act, turn>>
    BY <1>5 DEF StartContainer
  <2>2. Kept_ct
    BY <1>0, <2>1 DEF Kept_ct
  <2> QED
    BY <1>0, <2>1, <2>2, KeptBroughtAlong DEF Host
<1>6. ASSUME NEW c \in Containers, StopContainer(c)
      PROVE  PlacementInv'
  <2>1. /\ ct' = [ct EXCEPT ![Host][c] = IF @ = "running" THEN "exited" ELSE @]
        /\ act = "stop" /\ UNCHANGED <<act, turn>>
    BY <1>6 DEF StopContainer
  <2>2. Kept_ct
    BY <1>0, <2>1 DEF Kept_ct
  <2> QED
    BY <1>0, <2>1, <2>2, KeptBroughtAlong
<1>7. CASE UpDone
  BY <1>1, <1>7, NextHostTurn DEF UpDone
<1>8. CASE UpFails
  BY <1>1, <1>8, HostsAssumption DEF UpFails
<1>9. CASE RemoveAll
  <2>1. ct' = [ct EXCEPT ![Host] = [c \in Containers |-> "none"]]
    BY <1>9 DEF RemoveAll
  <2>2. BroughtAlong'
    BY <1>0, <2>1, ContainersAssumption DEF BroughtAlong, Named, ServicesOn
  <2> QED
    BY <1>0, <1>9, <2>1, <2>2, NextHostTurn DEF RemoveAll
<1>10. ASSUME NEW h \in Hosts, Inspect(h) \/ Pipework(h)
       PROVE  PlacementInv'
  <2>1. UNCHANGED <<act, turn, todo>>
    BY <1>10 DEF Inspect, Pipework
  <2>2. ct' = ct \/ (ct[h][Bridge] = "running" /\ ct' = [ct EXCEPT ![h][Bridge] = "failed"])
    BY <1>10 DEF Inspect, Pipework, BridgeRuns
  <2>3. Bridge \in Containers
    BY ContainersAssumption
  <2>4. ct' \in [Hosts -> [Containers -> ContainerState]] /\ Kept_ct
    <3>1. CASE ct' = ct
      BY <3>1 DEF Kept_ct
    <3>2. CASE ct[h][Bridge] = "running" /\ ct' = [ct EXCEPT ![h][Bridge] = "failed"]
      BY <2>3, <3>2 DEF Kept_ct
    <3> QED
      BY <2>2, <3>1, <3>2
  <2> QED
    BY <1>0, <2>1, <2>4, KeptBroughtAlong DEF Host, Kept_ct
<1>11. ASSUME NEW h \in Hosts, NEW i \in DOMAIN Ports, SetUpByHand(h, i)
       PROVE  PlacementInv'
  BY <1>1, <1>11 DEF SetUpByHand, Host
<1>12. ASSUME NEW h \in Hosts, NEW c \in Containers, Launch(h, c) \/ Complete(h, c) \/ Fail(h, c)
       PROVE  PlacementInv'
  <2>1. UNCHANGED <<act, turn, todo>>
    BY <1>12 DEF Launch, Complete, Fail
  <2>2. \/ ct' = ct
        \/ /\ ct[h][c] = "running"
           /\ \E how \in {"exited", "failed"} : ct' = [ct EXCEPT ![h][c] = how]
    BY <1>12 DEF Launch, Complete, Fail
  <2>3. ct' \in [Hosts -> [Containers -> ContainerState]] /\ Kept_ct
    BY <2>2 DEF Kept_ct
  <2> QED
    BY <1>0, <2>1, <2>3, KeptBroughtAlong DEF Host, Kept_ct
<1> QED
  BY <1>2, <1>3, <1>4, <1>5, <1>6, <1>7, <1>8, <1>9, <1>10, <1>11, <1>12 DEF Next, ComposeSh

\* For any scenario, placement, dependencies, invocations of compose.sh and failures: a
\* container is on a host that compose.sh does not start it on by name, only beside another
\* one that depends on it.  So one that no container depends on never leaves its host
\* (compose-sh.ts, classifyByHost() of place.ts).
THEOREM NobodyAstray == Spec => []BroughtAlong
<1>1. Init => PlacementInv
  BY PlacementInit
<1>2. PlacementInv /\ [Next]_vars => PlacementInv'
  BY PlacementStep
<1>3. PlacementInv => BroughtAlong
  BY DEF PlacementInv
<1>4. QED
  BY <1>1, <1>2, <1>3, PTL DEF Spec
-----------------------------------------------------------------------------
(* The ports of the bridge script: BridgeModeEth of compose/bridge.ts.       *)

Entry == [ct : Containers, net : Nets, op : {"=", "@", "~"}]

\* Containers have left their network for a port, and none has two ports on one network.
GoodScript ==
  {acc \in [on : [Nets -> SUBSET Containers], ports : Seq(Entry)] :
     /\ \A n \in Nets : acc.on[n] \subseteq Attached[n]
     /\ \A i \in DOMAIN acc.ports :
          acc.ports[i].ct \in Attached[acc.ports[i].net] \ acc.on[acc.ports[i].net]
     /\ \A i, j \in DOMAIN acc.ports :
          acc.ports[i].ct = acc.ports[j].ct /\ acc.ports[i].net = acc.ports[j].net => i = j}

\* A sequence that is filtered has nothing twice if it had nothing twice before.
LEMMA KeptInjective ==
  ASSUME NEW U, NEW s \in Seq(U), NEW S, IsInjective(s)
  PROVE  \A i, j \in DOMAIN Kept(s, S) : Kept(s, S)[i] = Kept(s, S)[j] => i = j
<1> DEFINE q == Kept(s, S)
<1>1. IsKept(q, s, U, S)
  BY KeptFacts
<1> HIDE DEF q
<1>2. /\ DOMAIN q \subseteq Nat /\ DOMAIN s \subseteq Nat
      /\ \A i, j \in DOMAIN q :
           i < j => \E a, b \in DOMAIN s : a < b /\ q[i] = s[a] /\ q[j] = s[b]
  BY <1>1 DEF IsKept
<1>3. \A a, b \in DOMAIN s : s[a] = s[b] => a = b
  BY DEF IsInjective
<1>4. ASSUME NEW i \in DOMAIN q, NEW j \in DOMAIN q, i < j
      PROVE  q[i] # q[j]
  <2>1. PICK a, b \in DOMAIN s : a < b /\ q[i] = s[a] /\ q[j] = s[b]
    BY <1>2, <1>4
  <2> QED
    BY <1>2, <1>3, <2>1
<1>5. \A i, j \in DOMAIN q : q[i] = q[j] => i = j
  BY <1>2, <1>4
<1> QED
  BY <1>5 DEF q

LEMMA AddPortsGood ==
  ASSUME NEW acc \in GoodScript, NEW net \in Nets, NEW param \in Params, IsInjective(param.match)
  PROVE  AddPorts(acc, net, param) \in GoodScript
<1> DEFINE on == acc.on
           ports == acc.ports
           matched == Kept(param.match, on[net])
           new == [i \in DOMAIN matched |-> [ct |-> matched[i], net |-> net, op |-> param.op]]
           on2 == [on EXCEPT ![net] = @ \ ToSet(matched)]
           ports2 == ports \o new
<1>1. /\ on \in [Nets -> SUBSET Containers] /\ ports \in Seq(Entry)
      /\ \A n \in Nets : on[n] \subseteq Attached[n]
      /\ \A i \in DOMAIN ports : ports[i].ct \in Attached[ports[i].net] \ on[ports[i].net]
      /\ \A i, j \in DOMAIN ports :
           ports[i].ct = ports[j].ct /\ ports[i].net = ports[j].net => i = j
  BY DEF GoodScript
<1>2. param.match \in Seq(Containers) /\ param.op \in {"=", "@", "~"}
  BY DEF Params
<1>3. AddPorts(acc, net, param) = [on |-> on2, ports |-> ports2]
  BY DEF AddPorts
<1> HIDE DEF on, ports
<1>4. matched \in Seq(Containers \cap on[net])
  BY <1>2, KeptFacts DEF IsKept
<1>5. \A i, j \in DOMAIN matched : matched[i] = matched[j] => i = j
  BY <1>2, KeptInjective
<1> HIDE DEF matched
<1>6. /\ DOMAIN matched = 1 .. Len(matched) /\ Len(matched) \in Nat
      /\ \A i \in DOMAIN matched : matched[i] \in Containers /\ matched[i] \in on[net]
      /\ ToSet(matched) = {matched[i] : i \in DOMAIN matched}
  BY <1>4 DEF ToSet
<1>7. on2 \in [Nets -> SUBSET Containers] /\ \A n \in Nets : on2[n] \subseteq on[n]
  BY <1>1
<1>8. new \in Seq(Entry) /\ Len(new) = Len(matched)
  BY <1>2, <1>6 DEF Entry
<1>9. \A i \in DOMAIN matched : new[i].ct = matched[i] /\ new[i].net = net
  OBVIOUS
<1>10. /\ on2[net] = on[net] \ ToSet(matched)
       /\ \A i \in DOMAIN matched : matched[i] \notin on2[net]
  BY <1>1, <1>6
<1> HIDE DEF on2
<1>11. /\ Len(ports) \in Nat /\ Len(matched) \in Nat
       /\ DOMAIN ports = 1 .. Len(ports)
       /\ ports2 \in Seq(Entry)
       /\ DOMAIN ports2 = 1 .. Len(ports) + Len(matched)
       /\ \A i \in 1 .. Len(ports) + Len(matched) :
            ports2[i] = IF i <= Len(ports) THEN ports[i] ELSE new[i - Len(ports)]
  <2> HIDE DEF new
  <2> QED
    BY <1>1, <1>6, <1>8
<1> HIDE DEF new, ports2
<1>12. ASSUME NEW i \in DOMAIN ports2
       PROVE  \/ i \in DOMAIN ports /\ ports2[i] = ports[i]
              \/ /\ i > Len(ports) /\ i - Len(ports) \in DOMAIN matched
                 /\ ports2[i] = new[i - Len(ports)]
  BY <1>6, <1>11
<1>13. \A i \in DOMAIN ports : ports[i].net \in Nets /\ ports[i].ct \in Containers
  <2>1. \A i \in DOMAIN ports : ports[i] \in Entry
    BY <1>1
  <2> QED
    BY <2>1 DEF Entry
<1>14. ASSUME NEW i \in DOMAIN ports2
       PROVE  ports2[i].ct \in Attached[ports2[i].net] \ on2[ports2[i].net]
  <2>1. CASE i \in DOMAIN ports /\ ports2[i] = ports[i]
    BY <1>1, <1>7, <1>13, <2>1
  <2>2. CASE i - Len(ports) \in DOMAIN matched /\ ports2[i] = new[i - Len(ports)]
    BY <1>1, <1>6, <1>9, <1>10, <2>2
  <2> QED
    BY <1>12, <2>1, <2>2
<1>15. ASSUME NEW i \in DOMAIN ports2, NEW j \in DOMAIN ports2,
              ports2[i].ct = ports2[j].ct, ports2[i].net = ports2[j].net
       PROVE  i = j
  <2>0. ASSUME NEW k \in DOMAIN ports, NEW l \in DOMAIN matched
        PROVE  ports[k].ct # new[l].ct \/ ports[k].net # new[l].net
    BY <1>1, <1>6, <1>9
  <2>1. CASE i \in DOMAIN ports /\ j \in DOMAIN ports
    BY <1>1, <1>11, <1>15, <2>1
  <2>2. CASE i \in DOMAIN ports /\ j \notin DOMAIN ports
    BY <1>11, <1>12, <1>15, <2>0, <2>2
  <2>3. CASE i \notin DOMAIN ports /\ j \in DOMAIN ports
    BY <1>11, <1>12, <1>15, <2>0, <2>3
  <2>4. CASE i \notin DOMAIN ports /\ j \notin DOMAIN ports
    <3>1. /\ i - Len(ports) \in DOMAIN matched /\ ports2[i] = new[i - Len(ports)]
          /\ j - Len(ports) \in DOMAIN matched /\ ports2[j] = new[j - Len(ports)]
      BY <1>12, <2>4
    <3>2. i - Len(ports) = j - Len(ports)
      BY <1>5, <1>9, <1>15, <3>1
    <3> QED
      BY <1>11, <3>2
  <2> QED
    BY <2>1, <2>2, <2>3, <2>4
<1>16. \A n \in Nets : on2[n] \subseteq Attached[n]
  BY <1>1, <1>7
<1>17. [on |-> on2, ports |-> ports2] \in GoodScript
  BY <1>7, <1>11, <1>14, <1>15, <1>16 DEF GoodScript
<1> QED
  BY <1>3, <1>17 DEF on2, ports2, new

LEMMA AddFlagGood ==
  ASSUME NEW acc \in GoodScript, NEW flag \in [net : Nets, params : Seq(Params)],
         \A j \in DOMAIN flag.params : IsInjective(flag.params[j].match)
  PROVE  AddFlag(acc, flag) \in GoodScript
<1> DEFINE n == Len(flag.params)
           A == GoodScript
           t == [k \in 1 .. n |-> [a \in A |-> AddPorts(a, flag.net, flag.params[k])]]
           Eq(f) == f = [k \in 0 .. n |->
                           IF k = 0 THEN acc ELSE AddPorts(f[k - 1], flag.net, flag.params[k])]
           F == CHOOSE f : Eq(f)
<1>1. /\ n \in Nat /\ flag.net \in Nets
      /\ \A k \in 1 .. n : flag.params[k] \in Params /\ IsInjective(flag.params[k].match)
  OBVIOUS
<1>2. \A k \in 1 .. n : \A a \in A : AddPorts(a, flag.net, flag.params[k]) \in A
  BY <1>1, AddPortsGood
<1>3. PICK g : Recurses(g, n, A, acc, t)
  <2>1. n \in Nat /\ acc \in A /\ IsStep(t, n, A)
    BY <1>1, <1>2 DEF IsStep
  <2> HIDE DEF n, A, t
  <2> QED
    BY <2>1, RecursionExists
<1>4. \A k \in 1 .. n : \A a \in A : t[k][a] = AddPorts(a, flag.net, flag.params[k])
  OBVIOUS
<1> HIDE DEF t
<1>5. g \in [0 .. n -> A] /\ g[0] = acc /\ \A k \in 1 .. n : g[k] = t[k][g[k - 1]]
  BY <1>3 DEF Recurses
<1>6. Eq(g)
  <2> DEFINE e(k) == IF k = 0 THEN acc ELSE AddPorts(g[k - 1], flag.net, flag.params[k])
  <2>1. ASSUME NEW k \in 0 .. n
        PROVE  g[k] = e(k)
    <3>1. CASE k = 0
      BY <1>5, <3>1
    <3>2. CASE k # 0
      <4>1. k \in 1 .. n /\ g[k - 1] \in A
        BY <1>1, <1>5, <3>2
      <4> QED
        BY <1>4, <1>5, <3>2, <4>1
    <3> QED
      BY <3>1, <3>2
  <2> HIDE DEF e
  <2>2. g = [k \in 0 .. n |-> e(k)]
    BY <1>5, <2>1
  <2> QED
    BY <2>2 DEF e
<1>7. Eq(F)
  <2> HIDE DEF Eq
  <2> QED
    BY <1>6
<1>8. AddFlag(acc, flag) = F[n]
  BY DEF AddFlag
<1> HIDE DEF F
<1>9. StaysIn(F, n, A)
  <2>1. \A k \in 0 .. n : F[k] = IF k = 0 THEN acc
                                 ELSE AddPorts(F[k - 1], flag.net, flag.params[k])
    BY <1>7, Zenon
  <2> HIDE DEF A, Eq, n
  <2>2. 0 \in 0 .. n /\ \A k \in 1 .. n : k \in 0 .. n /\ k # 0
    BY <1>1
  <2>3. F[0] = acc /\ \A k \in 1 .. n : F[k] = AddPorts(F[k - 1], flag.net, flag.params[k])
    BY <2>1, <2>2, Zenon
  <2>4. acc \in A
    BY DEF A
  <2> QED
    BY <1>2, <2>3, <2>4 DEF StaysIn
<1> HIDE DEF n, A
<1>10. F[n] \in A
  BY <1>1, <1>9, RecursionStays
<1> QED
  BY <1>8, <1>10 DEF A

LEMMA ScriptGood == Script \in GoodScript
<1> DEFINE n == Len(Flags)
           A == GoodScript
           base == [on |-> Attached, ports |-> <<>>]
           t == [k \in 1 .. n |-> [a \in A |-> AddFlag(a, Flags[k])]]
           Eq(f) == f = [k \in 0 .. n |-> IF k = 0 THEN base ELSE AddFlag(f[k - 1], Flags[k])]
           F == CHOOSE f : Eq(f)
<1>1. n \in Nat /\ \A k \in 1 .. n : /\ Flags[k] \in [net : Nets, params : Seq(Params)]
                                     /\ \A j \in DOMAIN Flags[k].params :
                                          IsInjective(Flags[k].params[j].match)
  <2> DEFINE U == [net : Nets, params : Seq(Params)]
  <2>1. Flags \in Seq(U)
    BY FlagsAssumption
  <2>2. DOMAIN Flags = 1 .. n /\ n \in Nat /\ \A k \in 1 .. n : Flags[k] \in U
    <3> HIDE DEF U
    <3> QED
      BY <2>1
  <2> QED
    BY <2>2, FlagsAssumption
<1>2. \A k \in 1 .. n : \A a \in A : AddFlag(a, Flags[k]) \in A
  BY <1>1, AddFlagGood
<1>0. base \in A
  BY ContainersAssumption DEF GoodScript
<1> HIDE DEF base
<1>3. PICK g : Recurses(g, n, A, base, t)
  <2>1. n \in Nat /\ base \in A /\ IsStep(t, n, A)
    BY <1>0, <1>1, <1>2 DEF IsStep
  <2> HIDE DEF n, A, t
  <2> QED
    BY <2>1, RecursionExists
<1>4. \A k \in 1 .. n : \A a \in A : t[k][a] = AddFlag(a, Flags[k])
  OBVIOUS
<1> HIDE DEF t
<1>5. g \in [0 .. n -> A] /\ g[0] = base /\ \A k \in 1 .. n : g[k] = t[k][g[k - 1]]
  BY <1>3 DEF Recurses
<1>6. Eq(g)
  <2> DEFINE e(k) == IF k = 0 THEN base ELSE AddFlag(g[k - 1], Flags[k])
  <2>1. ASSUME NEW k \in 0 .. n
        PROVE  g[k] = e(k)
    <3>1. CASE k = 0
      BY <1>5, <3>1
    <3>2. CASE k # 0
      <4>1. k \in 1 .. n /\ g[k - 1] \in A
        BY <1>1, <1>5, <3>2
      <4> QED
        BY <1>4, <1>5, <3>2, <4>1
    <3> QED
      BY <3>1, <3>2
  <2> HIDE DEF e
  <2>2. g = [k \in 0 .. n |-> e(k)]
    BY <1>5, <2>1
  <2> QED
    BY <2>2 DEF e
<1>7. Eq(F)
  <2> HIDE DEF Eq
  <2> QED
    BY <1>6
<1>8. Script = F[n]
  BY DEF Script, base
<1> HIDE DEF F
<1>9. StaysIn(F, n, A)
  <2>1. \A k \in 0 .. n : F[k] = IF k = 0 THEN base ELSE AddFlag(F[k - 1], Flags[k])
    BY <1>7, Zenon
  <2> HIDE DEF A, Eq, n
  <2>2. 0 \in 0 .. n /\ \A k \in 1 .. n : k \in 0 .. n /\ k # 0
    BY <1>1
  <2>3. F[0] = base /\ \A k \in 1 .. n : F[k] = AddFlag(F[k - 1], Flags[k])
    BY <2>1, <2>2, Zenon
  <2> QED
    BY <1>0, <1>2, <2>3 DEF StaysIn
<1> HIDE DEF n, A
<1>10. F[n] \in A
  BY <1>1, <1>9, RecursionStays
<1> QED
  BY <1>8, <1>10 DEF A

\* Ports are for network functions, and no container has two ports on one network.
LEMMA PortFacts ==
  /\ Ports \in Seq(Entry)
  /\ Len(Ports) \in Nat /\ DOMAIN Ports = 1 .. Len(Ports)
  /\ \A i \in DOMAIN Ports :
       /\ Ports[i].net \in Nets /\ Ports[i].ct \in Attached[Ports[i].net]
       /\ Ports[i].ct \in Containers /\ Ports[i].ct \notin EveryHost \cup OneShot
  /\ \A i, j \in DOMAIN Ports :
       Ports[i].ct = Ports[j].ct /\ Ports[i].net = Ports[j].net => i = j
<1>1. Script \in GoodScript
  BY ScriptGood
<1>2. Ports \in Seq(Entry)
  BY <1>1 DEF Ports, GoodScript
<1>3. /\ \A i \in DOMAIN Ports : Ports[i].ct \in Attached[Ports[i].net]
      /\ \A i, j \in DOMAIN Ports :
           Ports[i].ct = Ports[j].ct /\ Ports[i].net = Ports[j].net => i = j
  BY <1>1 DEF Ports, GoodScript
<1>4. \A i \in DOMAIN Ports : Ports[i].net \in Nets
  <2>1. \A i \in DOMAIN Ports : Ports[i] \in Entry
    BY <1>2
  <2> QED
    BY <2>1 DEF Entry
<1>5. \A i \in DOMAIN Ports : Ports[i].ct \in Containers \ (EveryHost \cup OneShot)
  BY <1>3, <1>4, ContainersAssumption
<1> QED
  BY <1>2, <1>3, <1>4, <1>5
-----------------------------------------------------------------------------
(* Types.  Interfaces and processes are inside running containers.           *)

Basic ==
  /\ act \in {"none", "create", "up", "start", "stop"}
  /\ turn \in DOMAIN HostOrder
  /\ todo \subseteq Containers
  /\ ct \in [Hosts -> [Containers -> ContainerState]]
  /\ port \in [Hosts -> 1 .. Len(Ports) + 1]
  /\ acts \in 0 .. MaxActs
  /\ crashes \in 0 .. MaxCrash
  /\ sound \in BOOLEAN

Looks == seen \subseteq {h \in Hosts : port[h] <= Len(Ports)}

\* Every interface is that of a port; one-shots and bridges launch nothing.
Inside ==
  /\ netif \subseteq Hosts \X Containers \X Nets
  /\ \A x \in netif :
       /\ ct[x[1]][x[2]] = "running"
       /\ \E i \in DOMAIN Ports : Ports[i].ct = x[2] /\ Ports[i].net = x[3]
  /\ ready \subseteq Hosts \X Containers
  /\ \A x \in ready : ct[x[1]][x[2]] = "running" /\ x[2] \notin OneShot \cup {Bridge}

\* `compose.sh stop` has stopped what is not in todo any more, and the hosts before the
\* one it is at are empty.
Stopping ==
  act = "stop" =>
    /\ Up(Host) \subseteq todo
    /\ \A k \in 1 .. turn - 1 : \A c \in Containers : ct[HostOrder[k]][c] = "none"

TypeInv == Basic /\ Looks /\ Inside /\ Stopping

LEMMA TypeInvOK == TypeInv => TypeOK
BY DEF TypeInv, Basic, Looks, Inside, TypeOK, ContainerState

LEMMA HostFacts ==
  /\ Len(HostOrder) \in Nat /\ Len(HostOrder) > 0
  /\ DOMAIN HostOrder = 1 .. Len(HostOrder)
  /\ \A k \in DOMAIN HostOrder : HostOrder[k] \in Hosts
  /\ \A j, k \in DOMAIN HostOrder : HostOrder[j] = HostOrder[k] => j = k
BY HostsAssumption DEF IsInjective, Hosts

\* The command goes on with the next host, or ends after the last one.
LEMMA NextHostFacts ==
  ASSUME NEW a, NextHost(a), turn \in DOMAIN HostOrder
  PROVE  /\ turn' \in DOMAIN HostOrder
         /\ \/ turn < Len(HostOrder) /\ turn' = turn + 1 /\ act' = a
            \/ turn = Len(HostOrder) /\ turn' = 1 /\ act' = "none"
         /\ act' = "stop" => todo' = Up(HostOrder[turn'])
         /\ act' # "stop" => todo' = {}
BY HostFacts DEF NextHost

\* What containers and scripts do by themselves: none comes or goes, or starts.
Background ==
  \E h \in Hosts :
    \/ Inspect(h) \/ Pipework(h)
    \/ \E i \in DOMAIN Ports : SetUpByHand(h, i)
    \/ \E c \in Containers : Launch(h, c) \/ Complete(h, c) \/ Fail(h, c)

LEMMA BridgeFacts ==
  /\ Bridge \in Containers /\ Bridge \in EveryHost
  /\ Bridge \notin OneShot
BY ContainersAssumption

LEMMA BackgroundFacts ==
  ASSUME Basic, Background
  PROVE  /\ UNCHANGED <<act, turn, todo, acts>>
         /\ ct' \in [Hosts -> [Containers -> ContainerState]]
         /\ \A h \in Hosts, c \in Containers :
              /\ ct[h][c] = "none" <=> ct'[h][c] = "none"
              /\ ct'[h][c] = "running" => ct[h][c] = "running"
<1>1. PICK h \in Hosts :
        \/ Inspect(h) \/ Pipework(h)
        \/ \E i \in DOMAIN Ports : SetUpByHand(h, i)
        \/ \E c \in Containers : Launch(h, c) \/ Complete(h, c) \/ Fail(h, c)
  BY DEF Background
<1>2. UNCHANGED <<act, turn, todo, acts>>
  BY <1>1 DEF Inspect, Pipework, SetUpByHand, Launch, Complete, Fail
<1>3. \/ ct' = ct
      \/ \E c \in Containers : /\ ct[h][c] = "running"
                               /\ \E e \in {"exited", "failed"} : ct' = [ct EXCEPT ![h][c] = e]
  <2>1. CASE Pipework(h)
    BY <2>1, BridgeFacts DEF Pipework, BridgeRuns
  <2>2. CASE ~ Pipework(h)
    BY <1>1, <2>2 DEF Inspect, SetUpByHand, Launch, Complete, Fail
  <2> QED
    BY <2>1, <2>2
<1>4. ct \in [Hosts -> [Containers -> ContainerState]]
  BY DEF Basic
<1>5. CASE ct' = ct
  BY <1>2, <1>4, <1>5
<1>6. ASSUME NEW c \in Containers, ct[h][c] = "running",
             NEW e \in {"exited", "failed"}, ct' = [ct EXCEPT ![h][c] = e]
      PROVE  /\ ct' \in [Hosts -> [Containers -> ContainerState]]
             /\ \A g \in Hosts, d \in Containers :
                  /\ ct[g][d] = "none" <=> ct'[g][d] = "none"
                  /\ ct'[g][d] = "running" => ct[g][d] = "running"
  <2>1. ct' \in [Hosts -> [Containers -> ContainerState]]
    BY <1>4, <1>6 DEF ContainerState
  <2>2. \A g \in Hosts, d \in Containers :
          ct'[g][d] = IF g = h /\ d = c THEN e ELSE ct[g][d]
    BY <1>4, <1>6
  <2> QED
    BY <1>6, <2>1, <2>2
<1> QED
  BY <1>2, <1>3, <1>5, <1>6

LEMMA TypeInit == Init => TypeInv
<1> SUFFICES ASSUME Init PROVE TypeInv
  OBVIOUS
<1>1. Basic
  BY HostFacts, PortFacts, BoundsAssumption DEF Init, Basic, ContainerState
<1>2. Looks /\ Inside /\ Stopping
  BY DEF Init, Looks, Inside, Stopping
<1> QED
  BY <1>1, <1>2 DEF TypeInv

LEMMA BasicStep ==
  ASSUME TypeInv, [Next]_vars
  PROVE  Basic'
<1>0. Basic /\ Looks /\ Host \in Hosts
  BY HostIn DEF TypeInv, Basic
<1>1. CASE UNCHANGED vars
  BY <1>0, <1>1, Zenon DEF vars, script, Basic
<1>2. ASSUME NEW a \in {"create", "up", "stop"}, Invoke(a)
      PROVE  Basic'
  <2>1. acts' \in 0 .. MaxActs
    BY <1>0, <1>2, BoundsAssumption DEF Basic, Invoke
  <2>2. UNCHANGED <<ct, port, crashes, sound>> /\ turn' \in DOMAIN HostOrder
    BY <1>2, HostFacts DEF Invoke, script
  <2>3. act' \in {"none", "create", "up", "start", "stop"} /\ todo' \subseteq Containers
    BY <1>2 DEF Invoke, Up
  <2> QED
    BY <1>0, <2>1, <2>2, <2>3, Zenon DEF Basic
<1>3. CASE ComposeSh
  <2>1. UNCHANGED <<acts, crashes>>
    BY <1>3 DEF ComposeSh, Create, StartContainer, StopContainer, UpDone, UpFails, RemoveAll
  <2>2. sound' \in BOOLEAN
    <3>1. CASE RemoveAll
      BY <3>1 DEF RemoveAll
    <3>2. CASE ~ RemoveAll
      <4>1. UNCHANGED sound
        BY <1>3, <3>2 DEF ComposeSh, Create, StartContainer, StopContainer, UpDone, UpFails
      <4> QED
        BY <1>0, <4>1, Zenon DEF Basic
    <3> QED
      BY <3>1, <3>2
  <2>3. ct' \in [Hosts -> [Containers -> ContainerState]]
    <3>0. ct \in [Hosts -> [Containers -> ContainerState]]
      BY <1>0 DEF Basic
    <3>1. CASE Create
      BY <1>0, <3>0, <3>1 DEF Create, ContainerState
    <3>2. CASE RemoveAll
      BY <1>0, <3>0, <3>2 DEF RemoveAll, ContainerState
    <3>3. ASSUME NEW c \in Containers, StartContainer(c)
          PROVE  ct' \in [Hosts -> [Containers -> ContainerState]]
      BY <1>0, <3>0, <3>3 DEF StartContainer, ContainerState
    <3>4. ASSUME NEW c \in Containers, StopContainer(c)
          PROVE  ct' \in [Hosts -> [Containers -> ContainerState]]
      BY <1>0, <3>0, <3>4 DEF StopContainer, ContainerState
    <3>5. CASE UpDone \/ UpFails
      BY <3>0, <3>5 DEF UpDone, UpFails
    <3> QED
      BY <1>3, <3>1, <3>2, <3>3, <3>4, <3>5 DEF ComposeSh
  <2>4. port' \in [Hosts -> 1 .. Len(Ports) + 1]
    <3>1. port' = port \/ port' = [port EXCEPT ![Host] = 1]
      BY <1>3 DEF script, ComposeSh, Create, StartContainer, StopContainer, UpDone, UpFails, RemoveAll
    <3>2. 1 \in 1 .. Len(Ports) + 1 /\ port \in [Hosts -> 1 .. Len(Ports) + 1]
      BY <1>0, PortFacts DEF Basic
    <3> QED
      BY <3>1, <3>2
  <2>5. /\ turn' \in DOMAIN HostOrder
        /\ act' \in {"none", "create", "up", "start", "stop"}
        /\ todo' \subseteq Containers
    <3>1. ASSUME NEW a \in {"create", "up", "stop"}, NextHost(a)
          PROVE  /\ turn' \in DOMAIN HostOrder
                 /\ act' \in {"none", "create", "up", "start", "stop"}
                 /\ todo' \subseteq Containers
      BY <1>0, <3>1, NextHostFacts DEF Basic, Up
    <3>2. CASE Create
      BY <1>0, <3>1, <3>2 DEF Create, Basic, Wanted
    <3>3. CASE \E c \in Containers : StartContainer(c) \/ StopContainer(c)
      BY <1>0, <3>3 DEF StartContainer, StopContainer, Basic
    <3>4. CASE UpDone
      BY <3>1, <3>4 DEF UpDone
    <3>5. CASE UpFails
      BY <3>5, HostFacts DEF UpFails
    <3>6. CASE RemoveAll
      BY <3>1, <3>6 DEF RemoveAll
    <3> QED
      BY <1>3, <3>2, <3>3, <3>4, <3>5, <3>6 DEF ComposeSh
  <2> QED
    BY <1>0, <2>1, <2>2, <2>3, <2>4, <2>5, Zenon DEF Basic
<1>4. CASE Background
  <2>1. UNCHANGED <<act, turn, todo, acts>> /\ ct' \in [Hosts -> [Containers -> ContainerState]]
    BY <1>0, <1>4, BackgroundFacts
  <2>2. PICK h \in Hosts :
          \/ Inspect(h) \/ Pipework(h)
          \/ \E i \in DOMAIN Ports : SetUpByHand(h, i)
          \/ \E c \in Containers : Launch(h, c) \/ Complete(h, c) \/ Fail(h, c)
    BY <1>4 DEF Background
  <2>3. crashes' \in 0 .. MaxCrash /\ sound' \in BOOLEAN
    <3>1. UNCHANGED <<crashes, sound>> \/ \E c \in Containers : Fail(h, c)
      BY <2>2 DEF Inspect, Pipework, SetUpByHand, Launch, Complete
    <3>2. CASE UNCHANGED <<crashes, sound>>
      BY <1>0, <3>2, Zenon DEF Basic
    <3>3. ASSUME NEW c \in Containers, Fail(h, c)
          PROVE  crashes' \in 0 .. MaxCrash /\ sound' \in BOOLEAN
      <4>1. crashes \in 0 .. MaxCrash
        BY <1>0 DEF Basic
      <4>2. crashes < MaxCrash /\ crashes' = crashes + 1 /\ sound' = FALSE
        BY <3>3 DEF Fail
      <4>3. crashes' \in 0 .. MaxCrash
        BY <4>1, <4>2, BoundsAssumption
      <4>4. sound' \in BOOLEAN
        BY <4>2, Zenon
      <4> QED
        BY <4>3, <4>4
    <3> QED
      BY <3>1, <3>2, <3>3
  <2>4. port' \in [Hosts -> 1 .. Len(Ports) + 1]
    <3>1. port' = port \/ (port' = [port EXCEPT ![h] = @ + 1] /\ port[h] <= Len(Ports))
      BY <1>0, <2>2 DEF script, Inspect, Pipework, SetUpByHand, Launch, Complete, Fail, Looks
    <3>2. port \in [Hosts -> 1 .. Len(Ports) + 1] /\ Len(Ports) \in Nat
      BY <1>0, PortFacts DEF Basic
    <3> QED
      BY <3>1, <3>2
  <2> QED
    BY <1>0, <2>1, <2>3, <2>4, Zenon DEF Basic
<1> QED
  BY <1>1, <1>2, <1>3, <1>4 DEF Next, Background

LEMMA LooksStep ==
  ASSUME TypeInv, [Next]_vars
  PROVE  Looks'
<1>0. Basic /\ Looks /\ Host \in Hosts
  BY HostIn DEF TypeInv, Basic
<1>1. \A h \in Hosts : port[h] \in Nat /\ port \in [Hosts -> 1 .. Len(Ports) + 1]
  BY <1>0, PortFacts DEF Basic
<1>2. CASE UNCHANGED script
  BY <1>0, <1>2 DEF script, Looks
<1>3. ASSUME NEW c \in Containers, StartContainer(c)
      PROVE  Looks'
  BY <1>0, <1>1, <1>3 DEF StartContainer, script, Looks
<1>4. ASSUME NEW h \in Hosts, Inspect(h)
      PROVE  Looks'
  BY <1>0, <1>1, <1>4 DEF Inspect, Looks
<1>5. ASSUME NEW h \in Hosts, Pipework(h)
      PROVE  Looks'
  BY <1>0, <1>1, <1>5 DEF Pipework, Looks
<1>6. ASSUME NEW h \in Hosts, NEW i \in DOMAIN Ports, SetUpByHand(h, i)
      PROVE  UNCHANGED script
  BY <1>6 DEF SetUpByHand
<1>7. ASSUME NEW h \in Hosts, NEW c \in Containers, Launch(h, c) \/ Complete(h, c) \/ Fail(h, c)
      PROVE  UNCHANGED script
  BY <1>7 DEF Launch, Complete, Fail
<1>8. ASSUME NEW a, Invoke(a)
      PROVE  UNCHANGED script
  BY <1>8 DEF Invoke
<1>9. ASSUME NEW c \in Containers, StopContainer(c)
      PROVE  UNCHANGED script
  BY <1>9 DEF StopContainer
<1>10. CASE Create \/ UpDone \/ UpFails \/ RemoveAll \/ UNCHANGED vars
  BY <1>2, <1>10 DEF Create, UpDone, UpFails, RemoveAll, vars
<1> QED
  BY <1>2, <1>3, <1>4, <1>5, <1>6, <1>7, <1>8, <1>9, <1>10 DEF Next, ComposeSh

\* Containers that hold interfaces or processes go on running.
LEMMA InsideFrame ==
  ASSUME Inside, UNCHANGED <<netif, ready>>,
         \A h \in Hosts, c \in Containers \ (OneShot \cup {Bridge}) :
           ct[h][c] = "running" => ct'[h][c] = "running"
  PROVE  Inside'
<1>1. ASSUME NEW x \in netif
      PROVE  ct'[x[1]][x[2]] = "running"
  <2>1. x[1] \in Hosts /\ x[2] \in Containers /\ x[2] \notin OneShot \cup {Bridge}
    BY <1>1, PortFacts, BridgeFacts DEF Inside
  <2> QED
    BY <1>1, <2>1 DEF Inside
<1>2. ASSUME NEW x \in ready
      PROVE  ct'[x[1]][x[2]] = "running"
  BY <1>2 DEF Inside
<1> QED
  BY <1>1, <1>2 DEF Inside

\* A container stops, and its interfaces and its process go with it.
LEMMA VacateFrame ==
  ASSUME Inside, NEW h \in Hosts, NEW c \in Containers, Vacate(h, {c}),
         \A g \in Hosts, d \in Containers :
           (g # h \/ d # c) /\ ct[g][d] = "running" => ct'[g][d] = "running"
  PROVE  Inside'
<1>1. ASSUME NEW x \in netif'
      PROVE  x \in netif /\ ct'[x[1]][x[2]] = "running"
  <2>1. x \in netif /\ (x[1] # h \/ x[2] # c)
    BY <1>1 DEF Vacate
  <2>2. x[1] \in Hosts /\ x[2] \in Containers
    BY <2>1 DEF Inside
  <2> QED
    BY <2>1, <2>2 DEF Inside
<1>2. ASSUME NEW x \in ready'
      PROVE  x \in ready /\ ct'[x[1]][x[2]] = "running"
  <2>1. x \in ready /\ (x[1] # h \/ x[2] # c)
    BY <1>2 DEF Vacate
  <2>2. x[1] \in Hosts /\ x[2] \in Containers
    BY <2>1 DEF Inside
  <2> QED
    BY <2>1, <2>2 DEF Inside
<1> QED
  BY <1>1, <1>2 DEF Inside

\* The interface of a port comes to a container that runs.
LEMMA NetifFrame ==
  ASSUME Inside, NEW h \in Hosts, NEW i \in DOMAIN Ports, ct[h][Ports[i].ct] = "running",
         netif' = netif \cup {<<h, Ports[i].ct, Ports[i].net>>}, UNCHANGED <<ct, ready>>
  PROVE  Inside'
BY PortFacts DEF Inside

LEMMA InsideStep ==
  ASSUME TypeInv, [Next]_vars
  PROVE  Inside'
<1>0. Basic /\ Inside /\ Looks /\ Host \in Hosts
  BY HostIn DEF TypeInv, Basic
<1>1. ct \in [Hosts -> [Containers -> ContainerState]]
  BY <1>0 DEF Basic
<1>2. CASE UNCHANGED <<ct, netif, ready>>
  BY <1>0, <1>2, InsideFrame
<1>3. CASE Create
  <2>1. \A h \in Hosts, c \in Containers : ct[h][c] = "running" => ct'[h][c] = "running"
    BY <1>0, <1>1, <1>3 DEF Create
  <2>2. UNCHANGED <<netif, ready>>
    BY <1>3 DEF Create
  <2> QED
    BY <1>0, <2>1, <2>2, InsideFrame
<1>4. ASSUME NEW c \in Containers, StartContainer(c)
      PROVE  Inside'
  <2>1. \A h \in Hosts, d \in Containers : ct[h][d] = "running" => ct'[h][d] = "running"
    BY <1>0, <1>1, <1>4 DEF StartContainer
  <2>2. UNCHANGED <<netif, ready>>
    BY <1>4 DEF StartContainer
  <2> QED
    BY <1>0, <2>1, <2>2, InsideFrame
<1>5. ASSUME NEW c \in Containers, StopContainer(c)
      PROVE  Inside'
  <2>1. \A g \in Hosts, d \in Containers :
          (g # Host \/ d # c) /\ ct[g][d] = "running" => ct'[g][d] = "running"
    BY <1>0, <1>1, <1>5 DEF StopContainer
  <2>2. Vacate(Host, {c})
    BY <1>5 DEF StopContainer
  <2> QED
    BY <1>0, <2>1, <2>2, VacateFrame
<1>6. CASE RemoveAll
  <2>1. \A c \in Containers : ct[Host][c] # "running"
    BY <1>6 DEF RemoveAll, TypeInv, Stopping, Up
  <2>2. \A g \in Hosts, d \in Containers : ct[g][d] = "running" => ct'[g][d] = "running"
    BY <1>0, <1>1, <1>6, <2>1 DEF RemoveAll
  <2>3. UNCHANGED <<netif, ready>>
    BY <1>6 DEF RemoveAll
  <2> QED
    BY <1>0, <2>2, <2>3, InsideFrame
<1>7. ASSUME NEW h \in Hosts, Pipework(h)
      PROVE  Inside'
  <2> DEFINE p == Ports[port[h]]
             x == <<h, p.ct, p.net>>
  <2>0. port[h] \in DOMAIN Ports
    BY <1>0, <1>7, PortFacts DEF Pipework, Looks, Basic
  <2>1. CASE UNCHANGED <<ct, netif, ready>>
    BY <1>2, <2>1
  <2>2. CASE ct[h][p.ct] = "running" /\ netif' = netif \cup {x} /\ UNCHANGED <<ct, ready>>
    BY <1>0, <2>0, <2>2, NetifFrame
  <2>3. CASE ct' = [ct EXCEPT ![h][Bridge] = "failed"] /\ UNCHANGED <<netif, ready>>
    <3>1. \A g \in Hosts, c \in Containers \ (OneShot \cup {Bridge}) :
            ct[g][c] = "running" => ct'[g][c] = "running"
      BY <1>1, <2>3
    <3> QED
      BY <1>0, <2>3, <3>1, InsideFrame
  <2> QED
    BY <1>7, <2>1, <2>2, <2>3 DEF Pipework
<1>8. ASSUME NEW h \in Hosts, NEW i \in DOMAIN Ports, SetUpByHand(h, i)
      PROVE  Inside'
  BY <1>0, <1>8, NetifFrame DEF SetUpByHand
<1>9. ASSUME NEW h \in Hosts, NEW c \in Containers, Launch(h, c)
      PROVE  Inside'
  BY <1>0, <1>9 DEF Launch, CanLaunch, Inside
<1>10. ASSUME NEW h \in Hosts, NEW c \in Containers, Complete(h, c)
       PROVE  Inside'
  <2>1. \A g \in Hosts, d \in Containers \ (OneShot \cup {Bridge}) :
          ct[g][d] = "running" => ct'[g][d] = "running"
    BY <1>1, <1>10 DEF Complete
  <2>2. UNCHANGED <<netif, ready>>
    BY <1>10 DEF Complete
  <2> QED
    BY <1>0, <2>1, <2>2, InsideFrame
<1>11. ASSUME NEW h \in Hosts, NEW c \in Containers, Fail(h, c)
       PROVE  Inside'
  <2>1. \A g \in Hosts, d \in Containers :
          (g # h \/ d # c) /\ ct[g][d] = "running" => ct'[g][d] = "running"
    BY <1>1, <1>11 DEF Fail
  <2>2. Vacate(h, {c})
    BY <1>11 DEF Fail
  <2> QED
    BY <1>0, <2>1, <2>2, VacateFrame
<1>12. ASSUME NEW h \in Hosts, Inspect(h)
       PROVE  UNCHANGED <<ct, netif, ready>>
  BY <1>12 DEF Inspect
<1>13. ASSUME NEW a, Invoke(a)
       PROVE  UNCHANGED <<ct, netif, ready>>
  BY <1>13 DEF Invoke
<1>14. CASE UpDone \/ UpFails \/ UNCHANGED vars
  BY <1>2, <1>14 DEF UpDone, UpFails, vars
<1> QED
  BY <1>2, <1>3, <1>4, <1>5, <1>6, <1>7, <1>8, <1>9, <1>10, <1>11, <1>12, <1>13, <1>14
  DEF Next, ComposeSh

LEMMA StoppingStep ==
  ASSUME TypeInv, [Next]_vars
  PROVE  Stopping'
<1>0. Basic /\ Stopping /\ Host \in Hosts
  BY HostIn DEF TypeInv, Basic
<1>1. /\ ct \in [Hosts -> [Containers -> ContainerState]]
      /\ turn \in DOMAIN HostOrder
  BY <1>0 DEF Basic
<1>2. CASE UNCHANGED <<act, turn, todo, ct>>
  BY <1>0, <1>2 DEF Stopping, Host, Up
<1>3. CASE Background
  <2>1. /\ UNCHANGED <<act, turn, todo>>
        /\ \A h \in Hosts, c \in Containers :
             /\ ct[h][c] = "none" => ct'[h][c] = "none"
             /\ ct'[h][c] = "running" => ct[h][c] = "running"
    BY <1>0, <1>3, BackgroundFacts
  <2> SUFFICES ASSUME act = "stop"
               PROVE  /\ Up(Host)' \subseteq todo
                      /\ \A k \in 1 .. turn - 1 : \A c \in Containers :
                           ct'[HostOrder[k]][c] = "none"
    BY <2>1 DEF Stopping
  <2>2. Host' = Host
    BY <2>1 DEF Host
  <2>3. Up(Host)' \subseteq Up(Host)
    BY <1>0, <2>1, <2>2 DEF Up
  <2>4. \A k \in 1 .. turn - 1 : HostOrder[k] \in Hosts
    BY <1>1, HostFacts
  <2> QED
    BY <1>0, <2>1, <2>3, <2>4 DEF Stopping
<1>4. ASSUME NEW c \in Containers, StopContainer(c)
      PROVE  Stopping'
  <2>1. /\ act = "stop" /\ UNCHANGED <<act, turn>> /\ todo' = todo \ {c} /\ Host' = Host
        /\ \A h \in Hosts, d \in Containers :
             /\ ct[h][d] = "none" => ct'[h][d] = "none"
             /\ ct'[h][d] = "running" => ct[h][d] = "running"
        /\ ct'[Host][c] # "running"
    BY <1>0, <1>1, <1>4 DEF StopContainer, Host
  <2>2. Up(Host)' \subseteq todo'
    BY <1>0, <2>1 DEF Stopping, Up
  <2>3. \A k \in 1 .. turn - 1 : HostOrder[k] \in Hosts
    BY <1>1, HostFacts
  <2> QED
    BY <1>0, <2>1, <2>2, <2>3 DEF Stopping
<1>5. CASE RemoveAll
  <2> SUFFICES ASSUME act' = "stop"
               PROVE  /\ Up(Host)' \subseteq todo'
                      /\ \A k \in 1 .. turn' - 1 : \A c \in Containers :
                           ct'[HostOrder[k]][c] = "none"
    BY DEF Stopping
  <2>1. /\ act = "stop"
        /\ ct' = [ct EXCEPT ![Host] = [c \in Containers |-> "none"]]
        /\ NextHost("stop")
    BY <1>5 DEF RemoveAll
  <2>2. turn < Len(HostOrder) /\ turn' = turn + 1 /\ todo' = Up(HostOrder[turn'])
    BY <1>1, <2>1, NextHostFacts
  <2>3. /\ turn' \in DOMAIN HostOrder /\ turn' # turn
        /\ \A k \in 1 .. turn' - 1 : k \in DOMAIN HostOrder /\ (k = turn \/ k \in 1 .. turn - 1)
    BY <1>1, <2>2, HostFacts
  <2>4. HostOrder[turn'] \in Hosts /\ HostOrder[turn'] # Host
    BY <1>1, <2>3, HostFacts DEF Host
  <2>5. Up(Host)' = Up(HostOrder[turn'])
    BY <1>0, <1>1, <2>1, <2>4 DEF Up, Host
  <2>6. ASSUME NEW k \in 1 .. turn' - 1, NEW c \in Containers
        PROVE  ct'[HostOrder[k]][c] = "none"
    <3>1. HostOrder[k] \in Hosts
      BY <2>3, HostFacts
    <3>2. CASE k = turn
      BY <1>0, <1>1, <2>1, <3>2 DEF Host
    <3>3. CASE k \in 1 .. turn - 1
      BY <1>0, <1>1, <2>1, <3>1, <3>3 DEF Stopping
    <3> QED
      BY <2>3, <3>2, <3>3
  <2> QED
    BY <2>2, <2>5, <2>6
<1>6. ASSUME NEW a \in {"create", "up", "stop"}, Invoke(a)
      PROVE  Stopping'
  <2>1. turn' = 1 /\ act' = a /\ UNCHANGED ct /\ (a = "stop" => todo' = Up(HostOrder[1]))
    BY <1>6 DEF Invoke
  <2> QED
    BY <2>1 DEF Stopping, Host, Up
<1>7. CASE Create
  <2>1. act' \in {"create", "start", "none"}
    BY <1>1, <1>7, NextHostFacts DEF Create
  <2> QED
    BY <2>1 DEF Stopping
<1>8. ASSUME NEW c \in Containers, StartContainer(c)
      PROVE  Stopping'
  BY <1>8 DEF StartContainer, Stopping
<1>9. CASE UpDone
  <2>1. act' \in {"up", "none"}
    BY <1>1, <1>9, NextHostFacts DEF UpDone
  <2> QED
    BY <2>1 DEF Stopping
<1>10. CASE UpFails
  BY <1>10 DEF UpFails, Stopping
<1>11. CASE UNCHANGED vars
  BY <1>2, <1>11 DEF vars
<1> QED
  BY <1>3, <1>4, <1>5, <1>6, <1>7, <1>8, <1>9, <1>10, <1>11 DEF Next, ComposeSh, Background

\* The state is well-typed; interfaces and processes are inside running containers only.
THEOREM TypeCorrect == Spec => []TypeOK
<1>1. Init => TypeInv
  BY TypeInit
<1>2. TypeInv /\ [Next]_vars => TypeInv'
  BY BasicStep, LooksStep, InsideStep, StoppingStep DEF TypeInv
<1>3. TypeInv => TypeOK
  BY TypeInvOK
<1>4. QED
  BY <1>1, <1>2, <1>3, PTL DEF Spec
-----------------------------------------------------------------------------
(* Ports come to those they are for.                                         *)

\* While `compose up` starts containers: all that it wants are there, and none that it
\* has still to start is running.
Starting ==
  act = "start" =>
    /\ todo \subseteq Wanted[Host]
    /\ \A c \in todo : ct[Host][c] # "running"
    /\ \A c \in Wanted[Host] : ct[Host][c] # "none"

\* Nothing has failed or stopped.
Alive(h) ==
  \A c \in Containers :
    ct[h][c] \in {"none", "created", "running"} \/ (c \in OneShot /\ ct[h][c] = "exited")

\* Once the bridge runs, no container of its host is still to be created.
AllThere(h) == BridgeRuns(h) => \A c \in Wanted[h] : ct[h][c] # "none"

\* A port that the script is past has been given to its container, unless that is not here.
Passed(h) ==
  BridgeRuns(h) =>
    \A i \in DOMAIN Ports :
      i < port[h] /\ Ports[i].op # "~" /\ ct[h][Ports[i].ct] # "none" =>
        <<h, Ports[i].ct, Ports[i].net>> \in netif

\* The container that the script saw running is still running.
Looking(h) == h \in seen /\ BridgeRuns(h) => ct[h][Ports[port[h]].ct] = "running"

\* Only ports that the script is past have been given, and ports that are set up by hand.
Given(h) ==
  \A i \in DOMAIN Ports :
    <<h, Ports[i].ct, Ports[i].net>> \in netif =>
      Ports[i].op = "~" \/ (BridgeRuns(h) /\ i < port[h])

HostGood(h) == Alive(h) /\ AllThere(h) /\ Passed(h) /\ Looking(h) /\ Given(h)

Served(x) == (\A net \in Awaited(x[2]) : HasNetif(x[1], x[2], net)) /\ Reachable(x[2])

AllGood == (\A h \in Hosts : HostGood(h)) /\ (\A x \in ready : Served(x))

\* Until something fails, and unless compose.sh is taking the scenario down.
Good == sound /\ act # "stop" => AllGood

PortsInv == TypeInv /\ Starting /\ Good

LEMMA StartingStep ==
  ASSUME TypeInv, Starting, [Next]_vars
  PROVE  Starting'
<1>0. Basic /\ Host \in Hosts
  BY HostIn DEF TypeInv, Basic
<1>1. ct \in [Hosts -> [Containers -> ContainerState]] /\ turn \in DOMAIN HostOrder
  BY <1>0 DEF Basic
<1>2. CASE UNCHANGED <<act, turn, todo, ct>>
  BY <1>2 DEF Starting, Host
<1>3. CASE Background
  <2>1. /\ UNCHANGED <<act, turn, todo>>
        /\ \A h \in Hosts, c \in Containers :
             /\ ct[h][c] = "none" <=> ct'[h][c] = "none"
             /\ ct'[h][c] = "running" => ct[h][c] = "running"
    BY <1>0, <1>3, BackgroundFacts
  <2>2. Host' = Host /\ Wanted[Host] \subseteq Containers
    BY <1>0, <2>1 DEF Host, Wanted
  <2> QED
    BY <1>0, <2>1, <2>2 DEF Starting
<1>4. CASE Create
  <2>1. act = "create" => act' # "start"
    BY <1>1, <1>4, NextHostFacts DEF Create
  <2>2. ASSUME act # "create"
        PROVE  Starting'
    <3>1. /\ todo' = Wanted[Host] \ Up(Host) /\ Host' = Host
          /\ ct' = [ct EXCEPT ![Host] =
                      [c \in Containers |->
                         IF c \in Wanted[Host] /\ @[c] = "none" THEN "created" ELSE @[c]]]
      BY <1>4, <2>2 DEF Create, Host
    <3>2. \A c \in Containers :
            ct'[Host][c] = IF c \in Wanted[Host] /\ ct[Host][c] = "none" THEN "created"
                           ELSE ct[Host][c]
      BY <1>0, <1>1, <3>1
    <3>3. Wanted[Host] \subseteq Containers
      BY <1>0 DEF Wanted
    <3> QED
      BY <3>1, <3>2, <3>3 DEF Starting, Up
  <2> QED
    BY <2>1, <2>2 DEF Starting
<1>5. ASSUME NEW c \in Containers, StartContainer(c)
      PROVE  Starting'
  <2>1. /\ act = "start" /\ Host' = Host /\ todo' = todo \ {c}
        /\ \A d \in Containers : ct'[Host][d] = IF d = c THEN "running" ELSE ct[Host][d]
    BY <1>0, <1>1, <1>5 DEF StartContainer, Host
  <2>2. Wanted[Host] \subseteq Containers
    BY <1>0 DEF Wanted
  <2> QED
    BY <2>1, <2>2 DEF Starting
<1>6. CASE UpDone \/ RemoveAll
  <2>1. act' # "start"
    BY <1>1, <1>6, NextHostFacts DEF UpDone, RemoveAll
  <2> QED
    BY <2>1 DEF Starting
<1>7. CASE UpFails
  BY <1>7 DEF UpFails, Starting
<1>8. ASSUME NEW c \in Containers, StopContainer(c)
      PROVE  Starting'
  BY <1>8 DEF StopContainer, Starting
<1>9. ASSUME NEW a \in {"create", "up", "stop"}, Invoke(a)
      PROVE  Starting'
  BY <1>9 DEF Invoke, Starting
<1>10. CASE UNCHANGED vars
  BY <1>2, <1>10 DEF vars
<1> QED
  BY <1>3, <1>4, <1>5, <1>6, <1>7, <1>8, <1>9, <1>10 DEF Next, ComposeSh, Background

\* Containers with ports are no one-shots, and neither are those that are pinged.
LEMMA ServedFacts ==
  ASSUME NEW c \in Containers
  PROVE  /\ \A net \in Awaited(c) : net \in PortNets(c) /\ c \notin OneShot \cup {Bridge}
         /\ \A y \in Reaches[c] : /\ y[1] \in Containers \ (OneShot \cup {Bridge})
                                  /\ PlacedOn[y[1]] \in Hosts
<1>1. \A net \in Awaited(c) : net \in PortNets(c) /\ c \notin OneShot \cup {Bridge}
  BY PortFacts, BridgeFacts DEF Awaited, PortNets
<1>2. ASSUME NEW y \in Reaches[c]
      PROVE  y[1] \in Containers \ (EveryHost \cup OneShot)
  BY ContainersAssumption
<1>3. \A y \in Reaches[c] : y[1] \notin {Bridge} /\ PlacedOn[y[1]] \in Hosts
  BY <1>2, BridgeFacts, ContainersAssumption
<1> QED
  BY <1>1, <1>2, <1>3

\* What a process was waiting for does not go away again.
LEMMA ServedFrame ==
  ASSUME NEW x \in Hosts \X Containers, Served(x),
         netif \subseteq netif', ready \subseteq ready',
         \A h \in Hosts, c \in Containers \ (OneShot \cup {Bridge}) :
           ct[h][c] = "running" => ct'[h][c] = "running"
  PROVE  Served(x)'
<1>1. x[1] \in Hosts /\ x[2] \in Containers
  OBVIOUS
<1>2. ASSUME NEW net \in Awaited(x[2])
      PROVE  HasNetif(x[1], x[2], net)'
  BY <1>1, <1>2, ServedFacts DEF Served, HasNetif
<1>3. ASSUME NEW y \in Reaches[x[2]]
      PROVE  HasNetif(PlacedOn[y[1]], y[1], y[2])'
  BY <1>1, <1>3, ServedFacts DEF Served, Reachable, HasNetif
<1>4. \A d \in Connects[x[2]] : <<PlacedOn[d], d>> \in ready'
  BY DEF Served, Reachable
<1> QED
  BY <1>2, <1>3, <1>4 DEF Served, Reachable

\* A step that a host takes no part in.
Same(h) ==
  /\ ct'[h] = ct[h] /\ port'[h] = port[h] /\ (h \in seen' <=> h \in seen)
  /\ \A c, net : <<h, c, net>> \in netif' <=> <<h, c, net>> \in netif

LEMMA SameHost ==
  ASSUME NEW h \in Hosts, HostGood(h), Same(h)
  PROVE  HostGood(h)'
<1> USE DEF Same
<1>1. Alive(h)' /\ AllThere(h)'
  BY DEF HostGood, Alive, AllThere, BridgeRuns
<1>2. Passed(h)' /\ Given(h)'
  BY DEF HostGood, Passed, Given, BridgeRuns
<1>3. Looking(h)'
  BY DEF HostGood, Looking, BridgeRuns
<1> QED
  BY <1>1, <1>2, <1>3 DEF HostGood

LEMMA CreateGood ==
  ASSUME Basic, Create, NEW h \in Hosts, h = Host, HostGood(h)
  PROVE  HostGood(h)'
<1>0. h \in Hosts /\ ct \in [Hosts -> [Containers -> ContainerState]]
  BY DEF Basic
<1>1. /\ ct'[h] = [c \in Containers |->
                     IF c \in Wanted[h] /\ ct[h][c] = "none" THEN "created" ELSE ct[h][c]]
      /\ UNCHANGED <<port, seen, netif>>
  BY <1>0 DEF Create, script
<1>2. CASE BridgeRuns(h)
  <2>1. \A c \in Wanted[h] : ct[h][c] # "none"
    BY <1>2 DEF HostGood, AllThere
  <2>2. ct'[h] = ct[h]
    BY <1>0, <1>1, <2>1
  <2> QED
    BY <1>0, <1>1, <2>2, SameHost DEF Same
<1>3. CASE ~ BridgeRuns(h)
  <2>1. ~ BridgeRuns(h)'
    BY <1>0, <1>1, <1>3, BridgeFacts DEF BridgeRuns
  <2>2. Alive(h)'
    BY <1>1 DEF HostGood, Alive
  <2>3. AllThere(h)' /\ Passed(h)' /\ Looking(h)'
    BY <2>1 DEF AllThere, Passed, Looking
  <2>4. Given(h)'
    BY <1>1, <1>3 DEF HostGood, Given
  <2> QED
    BY <2>2, <2>3, <2>4 DEF HostGood
<1> QED
  BY <1>2, <1>3

LEMMA StartGood ==
  ASSUME Basic, Starting, NEW c \in Containers, StartContainer(c),
         NEW h \in Hosts, h = Host, HostGood(h)
  PROVE  HostGood(h)'
<1>0. h \in Hosts /\ ct \in [Hosts -> [Containers -> ContainerState]]
      /\ port \in [Hosts -> 1 .. Len(Ports) + 1]
  BY DEF Basic
<1>1. /\ ct'[h] = [ct[h] EXCEPT ![c] = "running"]
      /\ UNCHANGED netif
      /\ c \in todo
  BY <1>0 DEF StartContainer
<1>2. /\ ct[h][c] \notin {"none", "running"}
      /\ \A d \in Wanted[h] : ct[h][d] # "none"
  BY <1>1 DEF Starting, StartContainer
<1>3. IF c = Bridge THEN port'[h] = 1 /\ h \notin seen' ELSE UNCHANGED <<port, seen>>
  BY <1>0 DEF StartContainer, script
<1>4. Wanted[h] \subseteq Containers
  BY <1>0 DEF Wanted
<1>5. Alive(h) /\ AllThere(h) /\ Passed(h) /\ Looking(h) /\ Given(h)
  BY DEF HostGood
<1>6. \A d \in Containers : ct'[h][d] = IF d = c THEN "running" ELSE ct[h][d]
  BY <1>0, <1>1
<1>7. Alive(h)' /\ AllThere(h)'
  BY <1>2, <1>4, <1>5, <1>6 DEF Alive, AllThere
<1>8. \A i \in DOMAIN Ports : Ports[i].ct \in Containers /\ Ports[i].ct # Bridge
  BY PortFacts, BridgeFacts
<1>9. CASE c = Bridge
  <2>1. ~ BridgeRuns(h)
    BY <1>2, <1>9 DEF BridgeRuns
  <2>2. \A i \in DOMAIN Ports : ~ (i < port'[h])
    BY <1>3, <1>9, PortFacts
  <2>3. Passed(h)'
    BY <2>2 DEF Passed
  <2>4. Given(h)'
    BY <1>1, <1>5, <2>1 DEF Given
  <2>5. Looking(h)'
    BY <1>3, <1>9 DEF Looking
  <2> QED
    BY <1>7, <2>3, <2>4, <2>5 DEF HostGood
<1>10. CASE c # Bridge
  <2>1. BridgeRuns(h)' <=> BridgeRuns(h)
    BY <1>6, <1>10, BridgeFacts DEF BridgeRuns
  <2>2. Passed(h)' /\ Given(h)'
    BY <1>1, <1>2, <1>3, <1>5, <1>6, <1>8, <1>10, <2>1 DEF Passed, Given
  <2>3. Looking(h)'
    <3> SUFFICES ASSUME h \in seen, BridgeRuns(h)
                 PROVE  ct'[h][Ports[port[h]].ct] = "running"
      BY <1>3, <1>10, <2>1 DEF Looking
    <3>1. ct[h][Ports[port[h]].ct] = "running"
      BY <1>5 DEF Looking
    <3> QED
      BY <1>0, <1>1, <3>1
  <2> QED
    BY <1>7, <2>2, <2>3 DEF HostGood
<1> QED
  BY <1>9, <1>10

LEMMA InspectGood ==
  ASSUME Basic, NEW h \in Hosts, Inspect(h), HostGood(h)
  PROVE  HostGood(h)'
<1>0. /\ port \in [Hosts -> 1 .. Len(Ports) + 1] /\ UNCHANGED <<ct, netif>>
      /\ port[h] \in DOMAIN Ports /\ h \notin seen
  BY PortFacts DEF Basic, Inspect
<1>1. Alive(h) /\ AllThere(h) /\ Passed(h) /\ Looking(h) /\ Given(h)
  BY DEF HostGood
<1>2. Alive(h)' /\ AllThere(h)'
  BY <1>0, <1>1 DEF Alive, AllThere, BridgeRuns
<1>3. CASE ct[h][Ports[port[h]].ct] = "none" /\ port' = [port EXCEPT ![h] = @ + 1] /\ UNCHANGED seen
  <2>1. port'[h] = port[h] + 1 /\ port[h] \in Nat
    BY <1>0, <1>3, PortFacts
  <2>2. \A i \in DOMAIN Ports : i < port'[h] => i < port[h] \/ i = port[h]
    BY <2>1, PortFacts
  <2>3. Passed(h)'
    BY <1>0, <1>1, <1>3, <2>2 DEF Passed, BridgeRuns
  <2>4. \A i \in DOMAIN Ports : i < port[h] => i < port'[h]
    BY <2>1, PortFacts
  <2>5. Given(h)'
    BY <1>0, <1>1, <2>4 DEF Given, BridgeRuns
  <2>6. Looking(h)'
    BY <1>0, <1>3 DEF Looking
  <2> QED
    BY <1>2, <2>3, <2>5, <2>6 DEF HostGood
<1>4. CASE ct[h][Ports[port[h]].ct] = "running" /\ UNCHANGED port
  <2>1. Passed(h)' /\ Given(h)'
    BY <1>0, <1>1, <1>4 DEF Passed, Given, BridgeRuns
  <2>2. Looking(h)'
    BY <1>0, <1>4 DEF Looking
  <2> QED
    BY <1>2, <2>1, <2>2 DEF HostGood
<1> QED
  BY <1>3, <1>4 DEF Inspect, Skipped

LEMMA PipeworkGood ==
  ASSUME Basic, Looks, NEW h \in Hosts, Pipework(h), HostGood(h)
  PROVE  HostGood(h)' /\ UNCHANGED ct
<1> DEFINE k == port[h]
           p == Ports[k]
           x == <<h, p.ct, p.net>>
<1>0. /\ port \in [Hosts -> 1 .. Len(Ports) + 1]
      /\ k \in DOMAIN Ports /\ BridgeRuns(h)
      /\ h \in seen /\ seen' = seen \ {h}
  BY PortFacts DEF Basic, Looks, Pipework
<1>1. Alive(h) /\ AllThere(h) /\ Passed(h) /\ Looking(h) /\ Given(h)
  BY DEF HostGood
<1>2. ct[h][p.ct] = "running"
  BY <1>0, <1>1 DEF Looking
<1>3. p.op # "~" => x \notin netif
  BY <1>0, <1>1, PortFacts DEF Given
<1>4. /\ netif' = IF p.op = "~" THEN netif ELSE netif \cup {x}
      /\ port' = [port EXCEPT ![h] = @ + 1]
      /\ UNCHANGED ct
  BY <1>2, <1>3 DEF Pipework
<1>5. port'[h] = k + 1 /\ k \in Nat
  BY <1>0, <1>4, PortFacts
<1>6. /\ \A i \in DOMAIN Ports : i < port'[h] => i < k \/ i = k
      /\ \A i \in DOMAIN Ports : i < k \/ i = k => i < port'[h]
  BY <1>5, PortFacts
<1>7. BridgeRuns(h)'
  BY <1>0, <1>4 DEF BridgeRuns
<1>8. Alive(h)' /\ AllThere(h)'
  BY <1>0, <1>1, <1>4 DEF Alive, AllThere
<1> HIDE DEF k
<1>9. Passed(h)'
  BY <1>0, <1>1, <1>4, <1>6 DEF Passed, k
<1>10. Given(h)'
  <2> SUFFICES ASSUME NEW i \in DOMAIN Ports, <<h, Ports[i].ct, Ports[i].net>> \in netif'
               PROVE  Ports[i].op = "~" \/ i < port'[h]
    BY <1>7 DEF Given
  <2>1. CASE <<h, Ports[i].ct, Ports[i].net>> \in netif
    BY <1>1, <1>6, <2>1 DEF Given, k
  <2>2. CASE <<h, Ports[i].ct, Ports[i].net>> = x
    <3>1. i = k
      BY <1>0, <2>2, PortFacts
    <3> QED
      BY <1>6, <3>1
  <2> QED
    BY <1>4, <2>1, <2>2
<1>11. Looking(h)'
  BY <1>0 DEF Looking
<1> QED
  BY <1>4, <1>8, <1>9, <1>10, <1>11 DEF HostGood

LEMMA SetUpGood ==
  ASSUME NEW h \in Hosts, NEW i \in DOMAIN Ports, SetUpByHand(h, i), HostGood(h)
  PROVE  HostGood(h)'
<1>1. /\ Ports[i].op = "~" /\ netif' = netif \cup {<<h, Ports[i].ct, Ports[i].net>>}
      /\ UNCHANGED <<ct, port, seen>>
  BY DEF SetUpByHand, script
<1>2. Alive(h)' /\ AllThere(h)' /\ Looking(h)'
  BY <1>1 DEF HostGood, Alive, AllThere, Looking, BridgeRuns
<1>3. Passed(h)'
  BY <1>1 DEF HostGood, Passed, BridgeRuns
<1>4. Given(h)'
  <2> SUFFICES ASSUME NEW j \in DOMAIN Ports, <<h, Ports[j].ct, Ports[j].net>> \in netif'
               PROVE  Ports[j].op = "~" \/ (BridgeRuns(h) /\ j < port[h])
    BY <1>1 DEF Given, BridgeRuns
  <2>1. CASE <<h, Ports[j].ct, Ports[j].net>> \in netif
    BY <2>1 DEF HostGood, Given
  <2>2. CASE <<h, Ports[j].ct, Ports[j].net>> = <<h, Ports[i].ct, Ports[i].net>>
    BY <1>1, <2>2, PortFacts
  <2> QED
    BY <1>1, <2>1, <2>2
<1> QED
  BY <1>2, <1>3, <1>4 DEF HostGood

LEMMA CompleteGood ==
  ASSUME Basic, Looks, NEW h \in Hosts, NEW c \in Containers, Complete(h, c), HostGood(h)
  PROVE  HostGood(h)'
<1>0. ct \in [Hosts -> [Containers -> ContainerState]] /\ port \in [Hosts -> 1 .. Len(Ports) + 1]
  BY DEF Basic
<1>1. /\ c \in OneShot /\ ct[h][c] = "running"
      /\ \A d \in Containers : ct'[h][d] = IF d = c THEN "exited" ELSE ct[h][d]
      /\ UNCHANGED <<port, seen, netif>>
  BY <1>0 DEF Complete, script
<1>2. BridgeRuns(h)' <=> BridgeRuns(h)
  BY <1>1, BridgeFacts DEF BridgeRuns
<1>3. \A i \in DOMAIN Ports : Ports[i].ct \in Containers /\ Ports[i].ct # c
  BY <1>1, PortFacts
<1>4. Wanted[h] \subseteq Containers
  BY DEF Wanted
<1>5. Alive(h)' /\ AllThere(h)'
  BY <1>1, <1>2, <1>4 DEF HostGood, Alive, AllThere
<1>6. Passed(h)' /\ Given(h)'
  BY <1>1, <1>2, <1>3 DEF HostGood, Passed, Given
<1>7. h \in seen => port[h] \in DOMAIN Ports
  BY <1>0, PortFacts DEF Looks
<1>8. Looking(h)'
  BY <1>1, <1>2, <1>3, <1>7 DEF HostGood, Looking
<1> QED
  BY <1>5, <1>6, <1>8 DEF HostGood

\* When all containers are gone, a new life begins.
Empty == \A h \in Hosts, c \in Containers : ct[h][c] = "none"

LEMMA EmptyGood == Inside /\ Empty => AllGood
<1> SUFFICES ASSUME Inside, Empty PROVE AllGood
  OBVIOUS
<1>1. netif = {} /\ ready = {}
  BY DEF Inside, Empty
<1>2. \A h \in Hosts : ~ BridgeRuns(h)
  BY BridgeFacts DEF BridgeRuns, Empty
<1>3. \A h \in Hosts : Alive(h) /\ AllThere(h) /\ Passed(h) /\ Looking(h) /\ Given(h)
  BY <1>1, <1>2 DEF Alive, AllThere, Passed, Looking, Given, Empty
<1> QED
  BY <1>1, <1>3 DEF HostGood, AllGood

LEMMA GoodStep ==
  ASSUME PortsInv, [Next]_vars
  PROVE  Good'
<1> USE DEF AllGood
<1>0. /\ Basic /\ Looks /\ Inside /\ Stopping /\ Starting /\ Host \in Hosts
      /\ ct \in [Hosts -> [Containers -> ContainerState]]
      /\ port \in [Hosts -> 1 .. Len(Ports) + 1]
      /\ turn \in DOMAIN HostOrder
  BY HostIn DEF PortsInv, TypeInv, Basic
<1>1. Inside'
  BY InsideStep DEF PortsInv
<1> SUFFICES ASSUME sound', act' # "stop" PROVE AllGood'
  BY DEF Good
<1>2. ASSUME sound, act # "stop" PROVE AllGood
  BY <1>2 DEF PortsInv, Good
<1>3. ASSUME AllGood, netif \subseteq netif', UNCHANGED ready,
             \A h \in Hosts, c \in Containers \ (OneShot \cup {Bridge}) :
               ct[h][c] = "running" => ct'[h][c] = "running"
      PROVE  \A x \in ready' : Served(x)'
  <2> SUFFICES ASSUME NEW x \in ready PROVE Served(x)'
    BY <1>3
  <2>1. x \in Hosts \X Containers /\ Served(x)
    BY <1>0, <1>3 DEF Inside
  <2> QED
    BY <1>3, <2>1, ServedFrame
<1>4. ASSUME sound, act # "stop", UNCHANGED <<ct, port, seen, netif, ready>>
      PROVE  AllGood'
  <2>1. \A h \in Hosts : Same(h)
    BY <1>4 DEF Same
  <2>2. \A h \in Hosts : HostGood(h)'
    BY <1>2, <1>4, <2>1, SameHost
  <2> QED
    BY <1>2, <1>3, <1>4, <2>2
<1>5. CASE UNCHANGED vars
  BY <1>4, <1>5 DEF vars, script
<1>6. ASSUME NEW a \in {"create", "up", "stop"}, Invoke(a)
      PROVE  AllGood'
  BY <1>4, <1>6 DEF Invoke, script
<1>7. CASE UpDone \/ UpFails
  BY <1>4, <1>7 DEF UpDone, UpFails, script
<1>8. CASE Create
  <2>1. /\ sound /\ act # "stop" /\ UNCHANGED <<port, seen, netif, ready>>
    BY <1>8 DEF Create, script
  <2>2. ASSUME NEW h \in Hosts
        PROVE  HostGood(h)'
    <3>1. CASE h = Host
      BY <1>0, <1>2, <1>8, <2>1, <3>1, CreateGood
    <3>2. CASE h # Host
      <4>1. Same(h)
        BY <1>0, <1>8, <2>1, <3>2 DEF Same, Create
      <4> QED
        BY <1>2, <2>1, <4>1, SameHost
    <3> QED
      BY <3>1, <3>2
  <2>3. \A h \in Hosts, c \in Containers : ct[h][c] = "running" => ct'[h][c] = "running"
    BY <1>0, <1>8 DEF Create
  <2> QED
    BY <1>2, <1>3, <2>1, <2>2, <2>3
<1>9. ASSUME NEW c \in Containers, StartContainer(c)
      PROVE  AllGood'
  <2>1. sound /\ act # "stop" /\ UNCHANGED <<netif, ready>>
    BY <1>9 DEF StartContainer
  <2>2. ASSUME NEW h \in Hosts
        PROVE  HostGood(h)'
    <3>1. CASE h = Host
      BY <1>0, <1>2, <1>9, <2>1, <3>1, StartGood
    <3>2. CASE h # Host
      <4>1. Same(h)
        BY <1>0, <1>9, <2>1, <3>2 DEF Same, StartContainer, script
      <4> QED
        BY <1>2, <2>1, <4>1, SameHost
    <3> QED
      BY <3>1, <3>2
  <2>3. \A h \in Hosts, d \in Containers : ct[h][d] = "running" => ct'[h][d] = "running"
    BY <1>0, <1>9 DEF StartContainer
  <2> QED
    BY <1>2, <1>3, <2>1, <2>2, <2>3
<1>10. CASE RemoveAll
  <2>1. act = "stop" /\ NextHost("stop") /\ ct' = [ct EXCEPT ![Host] = [c \in Containers |-> "none"]]
    BY <1>10 DEF RemoveAll
  <2>2. turn = Len(HostOrder)
    BY <1>0, <2>1, NextHostFacts
  <2>3. ASSUME NEW h \in Hosts, NEW c \in Containers
        PROVE  ct'[h][c] = "none"
    <3>1. PICK k \in DOMAIN HostOrder : h = HostOrder[k]
      BY DEF Hosts
    <3>2. CASE k = turn
      BY <1>0, <2>1, <3>1, <3>2 DEF Host
    <3>3. CASE k # turn
      <4>1. k \in 1 .. turn - 1
        BY <2>2, <3>3, HostFacts
      <4>2. ct[h][c] = "none"
        BY <1>0, <2>1, <3>1, <4>1 DEF Stopping
      <4> QED
        BY <1>0, <2>1, <4>2
    <3> QED
      BY <3>2, <3>3
  <2> QED
    <3>1. Empty'
      BY <2>3 DEF Empty
    <3>2. Inside' /\ Empty' => AllGood'
      BY EmptyGood, PTL
    <3> QED
      BY <1>1, <3>1, <3>2 DEF AllGood
<1>11. ASSUME NEW c \in Containers, StopContainer(c)
       PROVE  AllGood'
  BY <1>11 DEF StopContainer
<1>12. ASSUME NEW h \in Hosts, Inspect(h)
       PROVE  AllGood'
  <2>1. sound /\ act # "stop" /\ UNCHANGED <<ct, netif, ready>>
    BY <1>12 DEF Inspect
  <2>2. ASSUME NEW g \in Hosts, g # h
        PROVE  Same(g)
    BY <1>0, <1>12, <2>2 DEF Same, Inspect
  <2>3. \A g \in Hosts : HostGood(g)'
    BY <1>0, <1>2, <1>12, <2>1, <2>2, SameHost, InspectGood
  <2> QED
    BY <1>2, <1>3, <2>1, <2>3
<1>13. ASSUME NEW h \in Hosts, Pipework(h)
       PROVE  AllGood'
  <2>1. sound /\ act # "stop" /\ netif \subseteq netif' /\ UNCHANGED ready
    BY <1>13 DEF Pipework
  <2>2. HostGood(h)' /\ UNCHANGED ct
    BY <1>0, <1>2, <1>13, <2>1, PipeworkGood
  <2>3. ASSUME NEW g \in Hosts, g # h
        PROVE  Same(g)
    BY <1>0, <1>13, <2>2, <2>3 DEF Same, Pipework
  <2>4. \A g \in Hosts : HostGood(g)'
    BY <1>2, <2>1, <2>2, <2>3, SameHost
  <2> QED
    BY <1>2, <1>3, <2>1, <2>2, <2>4
<1>14. ASSUME NEW h \in Hosts, NEW i \in DOMAIN Ports, SetUpByHand(h, i)
       PROVE  AllGood'
  <2>1. sound /\ act # "stop" /\ netif \subseteq netif' /\ UNCHANGED <<ct, ready>>
    BY <1>14 DEF SetUpByHand
  <2>2. ASSUME NEW g \in Hosts, g # h
        PROVE  Same(g)
    BY <1>14, <2>2 DEF Same, SetUpByHand, script
  <2>3. \A g \in Hosts : HostGood(g)'
    BY <1>2, <1>14, <2>1, <2>2, SameHost, SetUpGood
  <2> QED
    BY <1>2, <1>3, <2>1, <2>3
<1>15. ASSUME NEW h \in Hosts, NEW c \in Containers, Launch(h, c)
       PROVE  AllGood'
  <2>1. /\ sound /\ act # "stop" /\ UNCHANGED <<ct, port, seen, netif>>
        /\ ready' = ready \cup {<<h, c>>}
    BY <1>15 DEF Launch, script
  <2>2. \A g \in Hosts : HostGood(g)'
    BY <1>2, <2>1, SameHost DEF Same
  <2>3. Served(<<h, c>>)
    BY <1>15 DEF Launch, CanLaunch, Served
  <2>4. ASSUME NEW x \in ready'
        PROVE  Served(x)'
    <3>1. x \in Hosts \X Containers /\ Served(x)
      <4>1. CASE x \in ready
        BY <1>0, <1>2, <2>1, <4>1 DEF Inside
      <4>2. CASE x = <<h, c>>
        BY <2>3, <4>2
      <4> QED
        BY <2>1, <4>1, <4>2
    <3> QED
      BY <2>1, <3>1, ServedFrame
  <2> QED
    BY <2>2, <2>4
<1>16. ASSUME NEW h \in Hosts, NEW c \in Containers, Complete(h, c)
       PROVE  AllGood'
  <2>1. sound /\ act # "stop" /\ c \in OneShot /\ UNCHANGED <<port, seen, netif, ready>>
    BY <1>16 DEF Complete, script
  <2>2. ASSUME NEW g \in Hosts, g # h
        PROVE  Same(g)
    BY <1>0, <1>16, <2>1, <2>2 DEF Same, Complete
  <2>3. \A g \in Hosts : HostGood(g)'
    BY <1>0, <1>2, <1>16, <2>1, <2>2, SameHost, CompleteGood
  <2>4. \A g \in Hosts, d \in Containers \ (OneShot \cup {Bridge}) :
          ct[g][d] = "running" => ct'[g][d] = "running"
    BY <1>0, <1>16, <2>1 DEF Complete
  <2> QED
    BY <1>2, <1>3, <2>1, <2>3, <2>4
<1>17. ASSUME NEW h \in Hosts, NEW c \in Containers, Fail(h, c)
       PROVE  AllGood'
  BY <1>17 DEF Fail
<1> HIDE DEF AllGood
<1> QED
  BY <1>5, <1>6, <1>7, <1>8, <1>9, <1>10, <1>11, <1>12, <1>13, <1>14, <1>15, <1>16, <1>17
  DEF Next, ComposeSh

LEMMA PortsInit == Init => PortsInv
<1> SUFFICES ASSUME Init PROVE PortsInv
  OBVIOUS
<1>1. TypeInv
  BY TypeInit
<1>2. Empty
  BY DEF Init, Empty
<1>3. Inside
  BY <1>1 DEF TypeInv
<1>4. Good
  BY <1>2, <1>3, EmptyGood DEF Good, AllGood
<1>5. Starting
  BY DEF Init, Starting
<1> QED
  BY <1>1, <1>4, <1>5 DEF PortsInv

LEMMA PortsInvEnough == PortsInv => PortsInOrder
<1> SUFFICES ASSUME PortsInv, sound, act # "stop"
             PROVE  /\ \A h \in Hosts, i \in DOMAIN Ports :
                         Healthy(h) /\ Ports[i].op # "~" /\ ct[h][Ports[i].ct] # "none" =>
                           <<h, Ports[i].ct, Ports[i].net>> \in netif
                    /\ \A h \in Hosts : ct[h][Bridge] # "failed"
                    /\ \A x \in ready : /\ \A net \in Awaited(x[2]) : HasNetif(x[1], x[2], net)
                                        /\ Reachable(x[2])
  BY DEF PortsInOrder, NobodyMissed, BridgeSurvives, ReadyInOrder
<1>1. (\A h \in Hosts : HostGood(h)) /\ (\A x \in ready : Served(x))
  BY DEF PortsInv, Good, AllGood
<1>2. \A h \in Hosts : port[h] \in Nat
  BY PortFacts DEF PortsInv, TypeInv, Basic
<1>3. ASSUME NEW h \in Hosts, NEW i \in DOMAIN Ports, Healthy(h), Ports[i].op # "~",
             ct[h][Ports[i].ct] # "none"
      PROVE  <<h, Ports[i].ct, Ports[i].net>> \in netif
  <2>1. i < port[h] /\ BridgeRuns(h)
    BY <1>2, <1>3, PortFacts DEF Healthy
  <2> QED
    BY <1>1, <1>3, <2>1 DEF HostGood, Passed
<1>4. \A h \in Hosts : ct[h][Bridge] # "failed"
  BY <1>1, BridgeFacts DEF HostGood, Alive
<1>5. \A x \in ready : /\ \A net \in Awaited(x[2]) : HasNetif(x[1], x[2], net)
                       /\ Reachable(x[2])
  BY <1>1 DEF Served
<1> QED
  BY <1>3, <1>4, <1>5

\* For any hosts, containers, --bridge flags and dependencies, and any interleaving of
\* compose.sh, the bridge scripts and the network functions: until something fails, the
\* bridge passes nobody over, gives no port twice, and no process launches without the
\* ports it waits for (buildPort() of bridge.ts, waitNetifs() of snippets.ts).
THEOREM PortsArrive == Spec => []PortsInOrder
<1>1. Init => PortsInv
  BY PortsInit
<1>2. PortsInv /\ [Next]_vars => PortsInv'
  BY BasicStep, LooksStep, InsideStep, StoppingStep, StartingStep, GoodStep
  DEF PortsInv, TypeInv
<1>3. PortsInv => PortsInOrder
  BY PortsInvEnough
<1>4. QED
  BY <1>1, <1>2, <1>3, PTL DEF Spec
=============================================================================
