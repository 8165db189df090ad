------------------------------ MODULE Compose ------------------------------
(***************************************************************************)
(* The Compose file that a scenario is turned into, while it is built      *)
(* (compose/compose.ts, compose/context.ts).  Builders run one after the   *)
(* other on the same file; each method of a builder is a step.  What a     *)
(* step does to the file and what it writes into scripts and configuration *)
(* is its effect, a record like Nothing.  An address is the netif it       *)
(* belongs to, <<container, network>>: module IPAlloc shows that netifs    *)
(* and addresses are one to one.                                           *)
(***************************************************************************)
EXTENDS Netdef, Lists, TLC

CONSTANT Inputs   \* the network definitions and command line options considered

VARIABLES
  args,         \* network definition and options of this run
  todo,         \* the steps ahead, in order
  networks,     \* c.networks: <<network, options>>
  services,     \* c.services: containers in the order of their definition
  netifs,       \* s.networks: netifs that Docker creates
  ip,           \* netifs with an ip_ annotation
  mac,          \* netifs with a mac_ annotation
  assumed,      \* netifs with an assume_net_ annotation
  placed,       \* whether place() has assigned hosts and cpusets
  finalize,     \* ctx.finalize: deferred steps
  told,         \* <<c, peer, net>>: c is given the address of a netif
  asked,        \* c is given the addresses of all containers of a kind
  late,         \* what was read of that which is decided late, and its value then
  qos,          \* containers that run the QoS script
  metrics,      \* containers with a prometheus_target annotation
  drawn,        \* subscriberDefault: 0, or which random K and OPc it holds
  provisioned,  \* <<SUPI, K, DN>> in the database of the control plane
  simulated,    \* <<SUPI, K, DN>> that UE simulators use
  waits,        \* what the command of a container waits for
  failed,       \* the step that threw an error, <<>> if none did
  running       \* containers that have launched their network function

compose == <<networks, services, netifs, ip, mac, assumed, placed>>
files   == <<told, asked, late, qos, metrics, drawn, provisioned, simulated, waits>>
buildVars == <<args, todo, compose, finalize, files, failed>>
genVars == <<buildVars, running>>

net == args.net
-----------------------------------------------------------------------------
\* listByNf(), and getIP() of "nf*", which takes the first.
ByNf(nf) == {ct \in SeqToSet(services) : nameToNf(ct) = nf}

FirstOf(nf) == IF ByNf(nf) = {} THEN <<nf, "*">>
           ELSE Kept(services, ByNf(nf))[1]

\* The netifs of ct, and a container that is told its own addresses.
On(ct, nets)  == {<<ct, n>> : n \in nets}
Own(ct, nets) == {<<ct, ct, n>> : n \in nets}

\* c is told where each of cts is on network n.
Of(c, cts, n) == {<<c, ct, n>> : ct \in cts}

Nothing == [options  |-> {},       \* ctx.defineNetwork(): <<network, options>>
            define   |-> <<>>,     \* services: <<container, networks>>
            tell     |-> {},       \* getIP(): <<c, peer, net>>
            cite     |-> {},       \* the same for a name in a configuration: <<peer, net>>
            list     |-> {},       \* listByNf() and getIP() of each: <<c, nf, net>>
            scan     |-> {},       \* the same of those that have the netif
            look     |-> {},       \* <<what, peer, net>> of that which is decided late
            defer    |-> <<>>,     \* ctx.finalize.push()
            awaits   |-> {},       \* waitNetifs(): containers
            wait     |-> {},       \* <<c, "ping" or "port", peer, net>>
            qos      |-> {},       \* applyQoS()
            metrics  |-> {},       \* containers that are to be scraped
            ports    |-> {},       \* netifs that become Ethernet ports: <<operator, netif>>
            place    |-> FALSE,    \* place()
            store    |-> {},       \* subscribers written to the database
            simulate |-> {},       \* subscribers that UE simulators stand for
            lists    |-> FALSE,    \* listSubscribers() is called
            ok       |-> TRUE]     \* the assertions of the step hold

\* The keys that listSubscribers() uses for a subscriber without its own: drawn when it
\* is first called, and kept in the network definition.
DefaultKeys_Fresh == drawn + 1

DefaultKeys == IF drawn = 0 THEN 1 ELSE drawn

\* Those of a listing that are there.
Answer(q) == {ct \in ByNf(q[2]) : <<ct, q[3]>> \in ip}

\* The value now of what is decided late: the MAC address of a netif, whether somebody
\* else sets it up, or the host and cores of a container.
ValueOf(l) ==
  CASE l[1] = "mac"    -> <<l[2], l[3]>> \in mac
    [] l[1] = "assume" -> <<l[2], l[3]>> \in assumed
    [] l[1] = "place"  -> placed

\* A service that exists is kept; its netifs are connected again.
Names(e)     == [i \in DOMAIN e.define |-> e.define[i][1]]
Connected(e) == UNION {On(e.define[i][1], e.define[i][2]) : i \in DOMAIN e.define}

\* defineNetwork() keeps a network that exists; defineService() defines those of its
\* networks that do not, with default options.
Defined(ns) == {n[1] : n \in ns}

\* Only those that a builder defines itself.
NetworksAfter_Explicit(e) == networks \cup {o \in e.options : o[1] \notin Defined(networks)}

NetworksAfter(e) ==
  LET explicit == networks \cup {o \in e.options : o[1] \notin Defined(networks)}
  IN explicit \cup {<<c[2], "default">> : c \in {x \in Connected(e) : x[2] \notin Defined(explicit)}}

\* getIP() throws unless the netif exists by then, connectNetif() and findDN() unless
\* what they are asked about does.
Succeeds(e) ==
  /\ e.ok
  /\ \A t \in e.tell : <<t[2], t[3]>> \in ip \cup Connected(e)
  /\ e.cite \subseteq ip
  /\ \A q \in e.list : Answer(q) = ByNf(q[2])

\* Listings of the step, and what comes of them.
Listings(e) == e.list \cup e.scan

Answers(e) == {[by |-> q[1], nf |-> q[2], on |-> q[3], got |-> Answer(q)] : q \in Listings(e)}

\* waitNetifs() goes by the ip_ annotations.
Looks(e) ==
  e.look \cup {<<"assume", n[1], n[2]>> : n \in {m \in ip \cup Connected(e) : m[1] \in e.awaits}}

\* disconnectNetif() leaves the annotation; a MACVLAN port keeps the derived address.
Ports(e, ops) == {p[2] : p \in {q \in e.ports : q[1] \in ops}}

Throw(step) ==
  /\ failed' = step
  /\ todo' = <<>>
  /\ UNCHANGED <<args, compose, finalize, files, running>>

Apply(e) ==
  /\ todo' = Tail(todo)
  /\ networks' = NetworksAfter(e)
  /\ services' = services \o Kept(Names(e), SeqToSet(Names(e)) \ SeqToSet(services))
  /\ netifs' = (netifs \cup Connected(e)) \ Ports(e, {"=", "@", "~"})
  /\ ip' = ip \cup Connected(e)
  /\ finalize' = finalize \o e.defer
  /\ told' = told \cup e.tell \cup UNION {Of(a.by, a.got, a.on) : a \in Answers(e)}
  /\ asked' = asked \cup Answers(e)
  /\ late' = late \cup {[what |-> l, value |-> ValueOf(l)] : l \in Looks(e)}
  /\ waits' = waits \cup e.wait
  /\ qos' = qos \cup e.qos
  /\ metrics' = metrics \cup e.metrics
  /\ drawn' = IF e.lists THEN DefaultKeys ELSE drawn
  /\ provisioned' = provisioned \cup e.store
  /\ simulated' = simulated \cup e.simulate
  /\ mac' = mac \cup Ports(e, {"=", "~"})
  /\ assumed' = assumed \cup Ports(e, {"~"})
  /\ placed' = (placed \/ e.place)
  /\ UNCHANGED <<args, failed, running>>

\* A method of a builder runs.
Build(step, e) ==
  /\ todo # <<>>
  /\ Head(todo) = step
  /\ IF Succeeds(e) THEN Apply(e) ELSE Throw(step)
-----------------------------------------------------------------------------
(* Subscribers as builders see them (netdef/helpers.ts).  An entry stands for  *)
(* count successive SUPIs; key is 0 if the entry has no keys of its own.       *)
Key(sub) == IF sub.key = 0 THEN <<"default", DefaultKeys>> ELSE <<"own", sub.key>>

Supis(sub) == sub.supi .. sub.supi + sub.count - 1

\* subscribedDN: the Data Networks of subscribedNSSAI in order.
SubscribedDN(sub) ==
  FlattenSeq([i \in DOMAIN sub.nssai |->
    [j \in DOMAIN sub.nssai[i].dnns |-> <<"dn", sub.nssai[i].snssai, sub.nssai[i].dnns[j]>>]])

RequestedDN(sub) == IF sub.request = <<>> THEN SubscribedDN(sub) ELSE sub.request

\* listSubscribers(), optionally with one entry per SUPI.
Expanded(sub) == [i \in 1 .. sub.count |-> [sub EXCEPT !.supi = @ + i - 1, !.count = 1]]

Subscribers(expandCount) ==
  IF expandCount THEN FlattenSeq([i \in DOMAIN net.subs |-> Expanded(net.subs[i])])
  ELSE net.subs

\* listSubscribersReduceToSingleDn() of the i-th of a list.
SingleDN(sub, i) ==
  LET dns == RequestedDN(sub) IN
  IF dns = <<>> THEN {}
  ELSE {CASE args.singleDn = "first"  -> dns[1]
          [] args.singleDn = "last"   -> dns[Len(dns)]
          [] args.singleDn = "rotate" -> dns[((i - 1) % Len(dns)) + 1]}

\* What a UE simulator does for a subscriber, or a database holds of it.
Uses(sub, dns) == {<<supi, Key(sub), dn>> : supi \in Supis(sub), dn \in dns}

\* pairGnbUe(): every subscriber has one gNB, and no gNB has two.
Paired(subs) ==
  /\ \A i \in DOMAIN subs : Len(subs[i].gnbs) = 1
  /\ \A i, j \in DOMAIN subs : subs[i].gnbs = subs[j].gnbs => i = j
  /\ \A i \in DOMAIN subs : subs[i].gnbs[1] \in SeqToSet(net.gnbs)

\* suggestUENames()
UeName(sub) == <<"ue", ToString(sub.supi)>>
=============================================================================
