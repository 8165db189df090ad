----------------------------- MODULE TrafficGen -----------------------------
(***************************************************************************)
(* Planning a traffic generator test: trafficgen/tgcs.ts and the           *)
(* gatherPduSessions() of trafficgen/common.ts.                            *)
(*                                                                         *)
(* The program asks every UE container, several at a time, for its         *)
(* addresses and (UERANSIM) for the sessions of each UE, while sessions    *)
(* come and go; it matches the sessions it finds with the flows of the     *)
(* command line, sorts the result, and gives each flow a range of ports, a *)
(* client container and, unless it is there already, a server container,   *)
(* in the network namespaces of the UE and of the Data Network.            *)
(*                                                                         *)
(* Groups ("iperf2_0"), Data Network names and SUPIs are numbers in their  *)
(* sort order.  Fewer containers are modelled than the 16 that             *)
(* flatTransform() handles at a time, so none has to wait for another.     *)
(*                                                                         *)
(* TgRun is the other half of tgcs.ts; names of the two are distinct.      *)
(***************************************************************************)
EXTENDS Naturals, Sequences, FiniteSets, SequencesExt, Lists

CONSTANTS
  UEs,           \* UE containers: the services annotated ue_supi
  Subs,          \* the SUPIs of a UE container
  Image,         \* "ueransim", "packetrusher" or "other"
  DNs,           \* Data Networks with a subnet: <<S-NSSAI, DNN>>
  SubscribedDN,  \* the Data Networks of a SUPI
  DnService,     \* the container of a Data Network
  Pool,          \* host numbers of UE addresses in a subnet
  FlowDefs,      \* the groups: [tgid, dns, ues, reversed, parallel, bindPort]
  BasePort,      \* --port
  FlowPorts,     \* values of --ports-per-flow considered, 0 if absent
  MaxChanges     \* bound on sessions that come or go

Supis == UNION {Range(Subs[ct]) : ct \in UEs}

Tgids == {"iperf2", "iperf3", "owamp", "twamp", "netperf", "sockperf", "itg", "ns3http", "ndnping"}

\* No -B :+N flag among the client flags of iperf2.
NoBind == 0

\* A UE belongs to one container, and a subnet has an address for every UE.
ASSUME NetworkAssumption ==
  /\ Subs \in [UEs -> Seq(Nat)]
  /\ \A ct \in UEs : IsInjective(Subs[ct])
  /\ \A a, b \in UEs : a # b => Range(Subs[a]) \cap Range(Subs[b]) = {}
  /\ Image \in [UEs -> {"ueransim", "packetrusher", "other"}]
  /\ DNs \subseteq Nat \X Nat
  /\ SubscribedDN \in [Supis -> Seq(DNs)]
  /\ \A s \in Supis : IsInjective(SubscribedDN[s])
  /\ Pool \subseteq Nat \ {0}
  /\ IsFiniteSet(Supis) /\ 1 .. Cardinality(Supis) \subseteq Pool
  /\ DnService \in [DNs -> Range(DnService)]
  /\ IsInjective(DnService)
  /\ Range(DnService) \cap UEs = {}

ASSUME FlowAssumption ==
  FlowDefs \in Seq([tgid : Tgids, dns : SUBSET DNs, ues : SUBSET Supis, reversed : BOOLEAN,
                    parallel : Nat \ {0}, bindPort : Nat])

ASSUME PortAssumption == BasePort \in Nat \ {0} /\ FlowPorts \subseteq Nat /\ MaxChanges \in Nat
-----------------------------------------------------------------------------
(* The traffic generators of tgcs-ip.ts, tgcs-ns3.ts and tgcs-ndn.ts.        *)

ServerPerDN(d) == d.tgid \in {"ns3http", "ndnping"}

\* What serverSetup and clientSetup make of a flow: it asks for n ports, of which the
\* server and the client bind to these, counted from the first, at their addresses
\* (other than ephemeral ones).
Asks(n, server, client) == [n |-> n, server |-> server, client |-> client]

\* Parallel connections have a port each, if the client's ports are chosen.
Iperf2(d) ==
  IF d.bindPort = NoBind
  THEN Asks(1, {0}, {})
  ELSE Asks(d.bindPort + d.parallel, {0}, d.bindPort .. d.bindPort + d.parallel - 1)

Iperf3 == Asks(1, {0}, {})

\* Control and test packets; TWAMP is the same.
Owamp == Asks(5, 0 .. 4, 1 .. 4)

\* The mutant forgets the data port.
Netperf_NoData == Asks(1, {0}, {1})

Netperf == Asks(2, {0}, {1})

Sockperf == Asks(1, {0}, {0})

\* Signalling, and a port for each of the parallel flows.
Itg(d) == Asks(1 + d.parallel, 0 .. d.parallel, 1 .. d.parallel)

\* Sockets are behind the TAP device.  Eight ports make its index unique.
Ns3http == Asks(8, {}, {})

\* Named Data Networking has no ports.
Ndnping == Asks(1, {}, {})

Asked(d) ==
  CASE d.tgid = "iperf2" -> Iperf2(d)
    [] d.tgid = "iperf3" -> Iperf3
    [] d.tgid \in {"owamp", "twamp"} -> Owamp
    [] d.tgid = "netperf" -> Netperf
    [] d.tgid = "sockperf" -> Sockperf
    [] d.tgid = "itg" -> Itg(d)
    [] d.tgid = "ns3http" -> Ns3http
    [] d.tgid = "ndnping" -> Ndnping

NPorts(d) == Asked(d).n
ServerPorts(d, port) == {port + i : i \in Asked(d).server}
ClientPorts(d, port) == {port + i : i \in Asked(d).client}

\* index of setupNs3(): it names the TAP device and numbers its subnet.
TapIndexes(d, port) == IF d.tgid = "ns3http" THEN {port \div 8} ELSE {}
-----------------------------------------------------------------------------
VARIABLES
  links,     \* addresses in the network namespace of a UE container, with the UE they belong to
  changes,   \* how many sessions have come or gone
  stage,     \* progress of a UE container through the pipeline
  ueIPs,     \* what `ip addr show` said
  psList,    \* what `nr-cli ps-list` said of a UE
  pending,   \* UEs of a container that the current stage has not finished
  found,     \* flows that have come out of the pipeline, in that order
  phase,     \* "gather", "define", "done" or "failed"
  nPortsPerFlow,
  flows,     \* tgFlows that are still to be defined
  nextPort,
  table,     \* rows of the table
  services   \* the Compose file of the test

net == <<links, changes>>
gather == <<stage, ueIPs, psList, pending, found>>
plan == <<nPortsPerFlow, flows, nextPort, table, services>>
planVars == <<net, gather, phase, plan>>

\* Host number 0 is the n6 address of the Data Network itself.
Addrs == [dn : DNs, n : Pool \cup {0}]
UeAddrs == [dn : DNs, n : Pool]
Links == [sub : Supis, addr : UeAddrs]
Flows == [group : DOMAIN FlowDefs, sub : Supis, dn : DNs, ct : UEs, addr : UeAddrs]
Rows == [group : DOMAIN FlowDefs, sub : Supis, dn : DNs, ct : UEs, addr : UeAddrs, port : Nat]

\* A container of the test is named for its group and port, or for its generator and Data Network.
NoDN == <<0, 0>>
Names == [side : {"s", "c"}, tgid : Tgids, group : DOMAIN FlowDefs \cup {0}, port : Nat, dn : DNs \cup {NoDN}]
Services == [netns : UEs \cup Range(DnService), ip : Addrs, ports : SUBSET Nat, taps : SUBSET Nat]

PlanTypeOK ==
  /\ links \in [UEs -> Seq(Links)]
  /\ changes \in 0 .. MaxChanges
  /\ stage \in [UEs -> {"addr", "sessions", "match", "end"}]
  /\ ueIPs \in [UEs -> Seq(Links)]
  /\ psList \in [Supis -> Seq(Links)]
  /\ pending \in [UEs -> SUBSET Supis]
  /\ found \in Seq(Flows)
  /\ phase \in {"gather", "define", "done", "failed"}
  /\ nPortsPerFlow \in FlowPorts
  /\ flows \in Seq(Flows)
  /\ nextPort \in Nat
  /\ table \in Seq(Rows)
  /\ \A name \in DOMAIN services : name \in Names /\ services[name] \in Services
-----------------------------------------------------------------------------
(* PDU sessions, which the core network and the UEs handle on their own.     *)

Has(ct, sub, dn) == \E i \in DOMAIN links[ct] : links[ct][i].sub = sub /\ links[ct][i].addr.dn = dn

Taken == {l.addr : l \in UNION {Range(links[ct]) : ct \in UEs}}

Establish(ct) ==
  \E sub \in Range(Subs[ct]) : \E dn \in Range(SubscribedDN[sub]) : \E n \in Pool :
    /\ ~Has(ct, sub, dn)
    /\ [dn |-> dn, n |-> n] \notin Taken
    /\ links' = [links EXCEPT ![ct] = Append(@, [sub |-> sub, addr |-> [dn |-> dn, n |-> n]])]

Release(ct) ==
  \E i \in DOMAIN links[ct] : links' = [links EXCEPT ![ct] = RemoveAt(@, i)]

Change(ct) ==
  /\ phase = "gather"
  /\ changes < MaxChanges
  /\ changes' = changes + 1
  /\ Establish(ct) \/ Release(ct)
  /\ UNCHANGED <<gather, phase, plan>>
-----------------------------------------------------------------------------
(* gatherPduSessions()                                                       *)

\* `ip addr show` in the container.
ShowAddr(ct) ==
  /\ phase = "gather"
  /\ stage[ct] = "addr"
  /\ stage' = [stage EXCEPT ![ct] = "sessions"]
  /\ ueIPs' = [ueIPs EXCEPT ![ct] = links[ct]]
  /\ pending' = [pending EXCEPT ![ct] = Range(Subs[ct])]
  /\ UNCHANGED <<net, psList, found, phase, plan>>

\* Its failure leaves the container out.
ShowAddrFails(ct) ==
  /\ phase = "gather"
  /\ stage[ct] = "addr"
  /\ stage' = [stage EXCEPT ![ct] = "end"]
  /\ UNCHANGED <<net, ueIPs, psList, pending, found, phase, plan>>

\* One of the concurrent calls under Promise.all; the next stage starts when all have finished.
ListSessions(ct, sub) ==
  /\ phase = "gather"
  /\ stage[ct] = "sessions"
  /\ sub \in pending[ct]
  /\ psList' = [psList EXCEPT ![sub] =
       IF Image[ct] = "ueransim" THEN Kept(links[ct], {l \in Links : l.sub = sub}) ELSE <<>>]
  /\ IF pending[ct] = {sub}
     THEN /\ stage' = [stage EXCEPT ![ct] = "match"]
          /\ pending' = [pending EXCEPT ![ct] = Range(Subs[ct])]
     ELSE /\ stage' = stage
          /\ pending' = [pending EXCEPT ![ct] = @ \ {sub}]
  /\ UNCHANGED <<net, ueIPs, found, phase, plan>>

\* Nobody catches its failure: it ends the program.
ListSessionsFails(ct) ==
  /\ phase = "gather"
  /\ stage[ct] = "sessions"
  /\ Image[ct] = "ueransim"
  /\ phase' = "failed"
  /\ UNCHANGED <<net, gather, plan>>

\* The mutant takes the last session of the UE, whatever its apn.
FindPduIP_AnyApn(ct, sub, dn) ==
  LET ps == psList[sub]
  IN Kept(ueIPs[ct], {l \in Links : /\ IF ps # <<>> THEN l.addr = Last(ps).addr ELSE l.addr.dn = dn
                                    /\ Image[ct] = "packetrusher" => l.sub = sub})

\* findPduIP(): the addresses that are taken for the session of sub in dn, the first of which it returns.
\* Sessions of UERANSIM are matched by their apn; without one, any address of the subnet will do.
FindPduIP(ct, sub, dn) ==
  LET ps == Kept(psList[sub], {l \in Links : l.addr.dn[2] = dn[2]})
  IN Kept(ueIPs[ct], {l \in Links : /\ IF ps # <<>> THEN l.addr = Last(ps).addr ELSE l.addr.dn = dn
                                    /\ Image[ct] = "packetrusher" => l.sub = sub})

\* The groups that select a session.
Selecting(sub, dn) ==
  Kept([g \in DOMAIN FlowDefs |-> g], {g \in DOMAIN FlowDefs : dn \in FlowDefs[g].dns /\ sub \in FlowDefs[g].ues})

\* The mutant goes on without an address.
Matching_NoSession(ct, sub, dn) ==
  LET groups == Selecting(sub, dn)
      pdu == FindPduIP(ct, sub, dn)
  IN [i \in DOMAIN groups |->
        [group |-> groups[i], sub |-> sub, dn |-> dn, ct |-> ct,
         addr |-> IF pdu = <<>> THEN [dn |-> dn, n |-> 0] ELSE Head(pdu).addr]]

\* The flows of one session.
Matching(ct, sub, dn) ==
  LET groups == Selecting(sub, dn)
      pdu == FindPduIP(ct, sub, dn)
  IN IF pdu = <<>> THEN <<>>
     ELSE [i \in DOMAIN groups |->
             [group |-> groups[i], sub |-> sub, dn |-> dn, ct |-> ct, addr |-> Head(pdu).addr]]

\* The flows of one UE come in the order of its Data Networks; UEs overtake each other.
MatchSessions(ct, sub) ==
  /\ phase = "gather"
  /\ stage[ct] = "match"
  /\ sub \in pending[ct]
  /\ found' = found \o FlattenSeq([i \in DOMAIN SubscribedDN[sub] |-> Matching(ct, sub, SubscribedDN[sub][i])])
  /\ pending' = [pending EXCEPT ![ct] = @ \ {sub}]
  /\ stage' = IF pending[ct] = {sub} THEN [stage EXCEPT ![ct] = "end"] ELSE stage
  /\ UNCHANGED <<net, ueIPs, psList, phase, plan>>
-----------------------------------------------------------------------------
(* tgcs.ts: sorting the flows and defining their containers.                 *)

\* The mutant does not sort by SUPI.
Before_NoSupi(f, g) ==
  \/ f.group < g.group
  \/ f.group = g.group /\ f.dn[2] < g.dn[2]

\* sortBy("group", "dn.dnn", "sub.supi")
Before(f, g) ==
  \/ f.group < g.group
  \/ f.group = g.group /\ f.dn[2] < g.dn[2]
  \/ f.group = g.group /\ f.dn[2] = g.dn[2] /\ f.sub < g.sub

\* Array.prototype.sort is stable.
Sorted(fs) ==
  LET Place(i) == Cardinality({j \in DOMAIN fs : Before(fs[j], fs[i]) \/ (j <= i /\ ~Before(fs[i], fs[j]))})
  IN [p \in DOMAIN fs |-> fs[CHOOSE i \in DOMAIN fs : Place(i) = p]]

Sort ==
  /\ phase = "gather"
  /\ \A ct \in UEs : stage[ct] = "end"
  /\ phase' = IF found = <<>> THEN "failed" ELSE "define"
  /\ flows' = Sorted(found)
  /\ UNCHANGED <<net, gather, nPortsPerFlow, nextPort, table, services>>

Refused(d) ==
  \/ d.reversed /\ ServerPerDN(d)
  \/ nPortsPerFlow > 0 /\ NPorts(d) > nPortsPerFlow

PortsOf(d) == IF nPortsPerFlow > 0 THEN nPortsPerFlow ELSE NPorts(d)

\* copyPlacementNetns(): the end at the UE and the end at the Data Network.  ndnping leaves the network
\* namespace again and uses the NFD of that container, through a volume.
UeEnd(f) == [netns |-> f.ct, ip |-> f.addr]
DnEnd(f) == [netns |-> DnService[f.dn], ip |-> [dn |-> f.dn, n |-> 0]]
ServerEnd(f) == IF FlowDefs[f.group].reversed THEN UeEnd(f) ELSE DnEnd(f)
ClientEnd(f) == IF FlowDefs[f.group].reversed THEN DnEnd(f) ELSE UeEnd(f)

ServerName(f, port) ==
  LET d == FlowDefs[f.group]
  IN IF ServerPerDN(d)
     THEN [side |-> "s", tgid |-> d.tgid, group |-> 0, port |-> 0, dn |-> f.dn]
     ELSE [side |-> "s", tgid |-> d.tgid, group |-> f.group, port |-> port, dn |-> NoDN]

ClientName(f, port) ==
  [side |-> "c", tgid |-> FlowDefs[f.group].tgid, group |-> f.group, port |-> port, dn |-> NoDN]

Server(f, port) ==
  LET d == FlowDefs[f.group]
  IN [netns |-> ServerEnd(f).netns, ip |-> ServerEnd(f).ip,
      ports |-> ServerPorts(d, port), taps |-> TapIndexes(d, port)]

Client(f, port) ==
  LET d == FlowDefs[f.group]
  IN [netns |-> ClientEnd(f).netns, ip |-> ClientEnd(f).ip,
      ports |-> ClientPorts(d, port), taps |-> TapIndexes(d, port)]

\* compose.defineService()
Including(s, name, service) == [x \in DOMAIN s \cup {name} |-> IF x = name THEN service ELSE s[x]]

\* A server that is there is kept; a client is set up, whatever had its name.
WithFlow(s, f, port) ==
  LET c == Including(s, ClientName(f, port), Client(f, port))
  IN IF ServerName(f, port) \in DOMAIN s THEN c ELSE Including(c, ServerName(f, port), Server(f, port))

Define ==
  /\ phase = "define"
  /\ flows # <<>>
  /\ LET f == Head(flows)
         d == FlowDefs[f.group]
     IN IF Refused(d)
        THEN /\ phase' = "failed"
             /\ UNCHANGED <<services, table, nextPort, flows>>
        ELSE /\ services' = WithFlow(services, f, nextPort)
             /\ table' = Append(table, [group |-> f.group, sub |-> f.sub, dn |-> f.dn, ct |-> f.ct,
                                        addr |-> f.addr, port |-> nextPort])
             /\ nextPort' = nextPort + PortsOf(d)
             /\ flows' = Tail(flows)
             /\ UNCHANGED phase
  /\ UNCHANGED <<net, gather, nPortsPerFlow>>

Write ==
  /\ phase = "define"
  /\ flows = <<>>
  /\ phase' = "done"
  /\ UNCHANGED <<net, gather, plan>>
-----------------------------------------------------------------------------
\* Any sessions may be up when the program starts.
InitialLinks(ct, up) ==
  FlattenSeq([i \in DOMAIN Subs[ct] |->
    LET sub == Subs[ct][i]
        dns == Kept(SubscribedDN[sub], {dn \in DNs : <<sub, dn>> \in up})
        n == Cardinality({t \in Supis : t <= sub})
    IN [j \in DOMAIN dns |-> [sub |-> sub, addr |-> [dn |-> dns[j], n |-> n]]]])

PlanInit ==
  /\ \E up \in SUBSET (Supis \X DNs) :
       /\ \A p \in up : p[2] \in Range(SubscribedDN[p[1]])
       /\ links = [ct \in UEs |-> InitialLinks(ct, up)]
  /\ changes = 0
  /\ stage = [ct \in UEs |-> "addr"]
  /\ ueIPs = [ct \in UEs |-> <<>>]
  /\ psList = [s \in Supis |-> <<>>]
  /\ pending = [ct \in UEs |-> {}]
  /\ found = <<>>
  /\ phase = "gather"
  /\ nPortsPerFlow \in FlowPorts
  /\ flows = <<>>
  /\ nextPort = BasePort
  /\ table = <<>>
  /\ services = <<>>

Gather(ct) ==
  \/ ShowAddr(ct)
  \/ ShowAddrFails(ct)
  \/ ListSessionsFails(ct)
  \/ \E sub \in Range(Subs[ct]) : ListSessions(ct, sub) \/ MatchSessions(ct, sub)

PlanNext ==
  \/ \E ct \in UEs : Change(ct) \/ Gather(ct)
  \/ Sort
  \/ Define
  \/ Write

PlanSpec == PlanInit /\ [][PlanNext]_planVars
-----------------------------------------------------------------------------
(* Properties                                                                *)

\* The Compose file and the table are written at the end; until then nobody sees them.
Written == phase = "done"

\* Two containers of the test that share a network namespace never bind to the same port of an address:
\* every flow stays within the range of ports that it asked for, in tgcs.ts, with nPorts.  And ("request 8
\* ports so that index is unique", trafficgen/tgcs-ns3.ts) two ns-3 containers in a network namespace do
\* not share the name of a TAP device, nor its subnet, wherever the ports of the test start.
FlowsApart ==
  Written =>
    \A a, b \in DOMAIN services :
      a # b /\ services[a].netns = services[b].netns
        => /\ services[a].ip = services[b].ip => services[a].ports \cap services[b].ports = {}
           /\ services[a].taps \cap services[b].taps = {}

\* Flows by group, DNN and SUPI and, if one UE uses a DNN in several slices, by the order of its subscription.
Position(sub, dn) == CHOOSE i \in DOMAIN SubscribedDN[sub] : SubscribedDN[sub][i] = dn

Precedes(q, r) ==
  \/ q.group < r.group
  \/ /\ q.group = r.group
     /\ \/ q.dn[2] < r.dn[2]
        \/ q.dn[2] = r.dn[2] /\ q.sub < r.sub
        \/ q.dn[2] = r.dn[2] /\ q.sub = r.sub /\ Position(q.sub, q.dn) < Position(r.sub, r.dn)

\* The order in which the UEs answer does not show in the result: whichever flows there are, they are in
\* that order, each with the ports that follow on those of the one before.  So running tgcs again gives the
\* same ports.
StableTable ==
  Written => \A i \in DOMAIN table :
    /\ table[i].port = IF i = 1 THEN BasePort ELSE table[i - 1].port + PortsOf(FlowDefs[table[i - 1].group])
    /\ \A j \in 1 .. i - 1 : Precedes(table[j], table[i])

\* Every flow of the table has a client container of its own in the network namespace of its end, bound to
\* the address there; and a server in the network namespace of the other end that listens on the flow's
\* port, or, if the generator has one server per Data Network, the server of that Data Network.
Served ==
  Written => \A i \in DOMAIN table :
    LET r == table[i]
        d == FlowDefs[r.group]
        c == ClientName(r, r.port)
        s == ServerName(r, r.port)
    IN /\ {c, s} \subseteq DOMAIN services
       /\ services[c].netns = ClientEnd(r).netns /\ services[c].ip = ClientEnd(r).ip
       /\ services[s].netns = ServerEnd(r).netns /\ services[s].ip = ServerEnd(r).ip
       /\ ServerPerDN(d) \/ r.port \in services[s].ports
       /\ \A j \in DOMAIN table : ClientName(table[j], table[j].port) = c => i = j

\* Every flow can be measured: both of its ends are set up, and nothing else is at their ports.
FlowsServed == FlowsApart /\ Served

\* "lists all established PDU sessions" (trafficgen/README.md:47): a session that its UE had when the
\* program asked is in the table with its own address, once for every group that selects it, whatever
\* sessions come and go in between.  Sessions of several UEs in a container can be told apart with UERANSIM
\* and PacketRusher only, and those of a UE that uses one DNN in two slices not at all.
Listed ==
  Written =>
    \A ct \in UEs : \A l \in Range(ueIPs[ct]) : \A g \in DOMAIN FlowDefs :
      /\ Image[ct] = "ueransim" => l \in Range(psList[l.sub])
      /\ Image[ct] = "other" => Len(Subs[ct]) = 1
      /\ \A dn \in Range(SubscribedDN[l.sub]) : dn[2] = l.addr.dn[2] => dn = l.addr.dn
      /\ l.addr.dn \in FlowDefs[g].dns /\ l.sub \in FlowDefs[g].ues
      => \E r \in Range(table) : r.group = g /\ r.sub = l.sub /\ r.dn = l.addr.dn /\ r.addr = l.addr
=============================================================================
