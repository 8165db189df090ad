------------------------------- MODULE Deploy -------------------------------
(***************************************************************************)
(* A scenario from compose.sh to running network functions.                *)
(*                                                                         *)
(* compose.sh (compose/compose-sh.ts) goes through the hosts one by one    *)
(* and asks the Docker engine of each to create, start or remove the       *)
(* containers that classifyByHost() (compose/place.ts) lists there.        *)
(* Meanwhile the bridge container of every host (BridgeModeEth of          *)
(* compose/bridge.ts) waits for the containers that are to have a physical *)
(* network interface, one after another, and gives it to them; and every   *)
(* network function waits for its interfaces and for the network functions *)
(* it talks to (compose/snippets.ts) before it launches its process.       *)
(***************************************************************************)
EXTENDS Naturals, Sequences, FiniteSets, SequencesExt, Lists

CONSTANTS
  HostOrder,     \* the hosts in the order of compose.sh
  Containers,    \* container names
  EveryHost,     \* containers annotated every_host
  OnlyIfNeeded,  \* containers annotated only_if_needed
  OneShot,       \* containers that do their work and exit (gtp5g)
  Bridge,        \* the bridge container
  PlacedOn,      \* the host of every other container
  DependsOn,     \* depends_on and network_mode "service:" of a container
  Nets,          \* Docker networks
  Attached,      \* containers of a network
  Flags,         \* --bridge flags of mode eth: [net, params], a parameter is [op, match]
  Assuming,      \* containers whose script is written after that of the bridge
  Reaches,       \* <<container, net>> whose address waitReachable() of a container pings
  Connects,      \* containers whose TCP port waitReachable() of a container connects to
  MaxActs,       \* bound on compose.sh invocations
  MaxCrash       \* bound on containers that exit with an error

Hosts == {HostOrder[i] : i \in DOMAIN HostOrder}

Params == [op : {"=", "@", "~"}, match : Seq(Containers)]

\* DefaultMap has every host once.
ASSUME HostsAssumption ==
  /\ HostOrder \in Seq(Hosts)
  /\ Len(HostOrder) > 0
  /\ IsInjective(HostOrder)

ASSUME ContainersAssumption ==
  /\ Bridge \in EveryHost
  /\ EveryHost \cup OnlyIfNeeded \cup OneShot \subseteq Containers
  /\ Bridge \notin OnlyIfNeeded \cup OneShot
  /\ PlacedOn \in [Containers \ EveryHost -> Hosts]
  /\ DependsOn \in [Containers -> SUBSET Containers]
  /\ Attached \in [Nets -> SUBSET (Containers \ (EveryHost \cup OneShot))]
  /\ Assuming \subseteq Containers
  /\ Reaches \in [Containers -> SUBSET {x \in Containers \X Nets : x[1] \in Attached[x[2]]}]
  /\ Connects \in [Containers -> SUBSET (Containers \ EveryHost)]

ASSUME FlagsAssumption ==
  /\ Flags \in Seq([net : Nets, params : Seq(Params)])
  /\ \A i \in DOMAIN Flags : \A j \in DOMAIN Flags[i].params :
       IsInjective(Flags[i].params[j].match)

ASSUME BoundsAssumption == MaxActs \in Nat /\ MaxCrash \in Nat
-----------------------------------------------------------------------------
(* The Ethernet ports of the bridge script: BridgeModeEth.                   *)

\* parsePorts() and buildPort(): the containers of the network that the pattern
\* matches, each leaving the network for the port.
\* acc.on: those still on each network; acc.ports: the ports so far.
AddPorts(acc, net, param) ==
  LET matched == Kept(param.match, acc.on[net]) IN
  [on |-> [acc.on EXCEPT ![net] = @ \ ToSet(matched)],
   ports |-> acc.ports \o
               [i \in DOMAIN matched |-> [ct |-> matched[i], net |-> net, op |-> param.op]]]

\* One --bridge flag: its containers are those that earlier flags left on the network.
AddFlag(acc, flag) ==
  LET added[j \in 0 .. Len(flag.params)] ==
        IF j = 0 THEN acc ELSE AddPorts(added[j - 1], flag.net, flag.params[j])
  IN  added[Len(flag.params)]

Script ==
  LET done[k \in 0 .. Len(Flags)] ==
        IF k = 0 THEN [on |-> Attached, ports |-> <<>>] ELSE AddFlag(done[k - 1], Flags[k])
  IN  done[Len(Flags)]

Ports == Script.ports

\* The networks on which a container has an Ethernet port.
PortNets(c) == {Ports[i].net : i \in {j \in DOMAIN Ports : Ports[j].ct = c}}

\* Those that its script waits for.  One that is written when the bridge is defined
\* already knows which ports are set up by hand, and assumes that they are.
Awaited(c) ==
  {Ports[i].net : i \in {j \in DOMAIN Ports :
                           Ports[j].ct = c /\ (c \in Assuming => Ports[j].op # "~")}}
-----------------------------------------------------------------------------
VARIABLES
  act,      \* the compose.sh command that runs ("start": second half of "up"), or "none"
  turn,     \* the host it is at, as an index of HostOrder
  todo,     \* containers of that host still to be started or stopped
  ct,       \* ct[h][c]: container c of the Docker engine of h
  port,     \* the Ethernet port that the bridge script of a host is at
  seen,     \* hosts whose bridge script saw the container of its port running
  netif,    \* <<h, c, net>>: Ethernet ports in the network namespaces of containers
  ready,    \* <<h, c>>: the process runs, past all waiting
  acts, crashes,
  sound     \* nothing has failed since the hosts were empty (history)

script == <<port, seen>>
vars == <<act, turn, todo, ct, script, netif, ready, acts, crashes, sound>>
-----------------------------------------------------------------------------
(* classifyByHost(), and what a Docker engine makes of the names it gets.    *)

\* The containers of one host, those that run on every host included.
ServicesOn(h) == EveryHost \cup {c \in Containers \ EveryHost : PlacedOn[c] = h}

\* The containers that compose.sh names.
Named(h) == ServicesOn(h) \ OnlyIfNeeded

\* Docker Compose brings dependencies along, on the same host.
Closed == {T \in SUBSET Containers : \A t \in T : DependsOn[t] \subseteq T}

Wanted ==
  [h \in Hosts |-> {c \in Containers : \A T \in Closed : Named(h) \subseteq T => c \in T}]

Host == HostOrder[turn]

\* Containers whose network namespace exists.
Up(h) == {c \in Containers : ct[h][c] = "running"}
-----------------------------------------------------------------------------
Init ==
  /\ act = "none"
  /\ turn = 1
  /\ todo = {}
  /\ ct = [h \in Hosts |-> [c \in Containers |-> "none"]]
  /\ port = [h \in Hosts |-> 1]
  /\ seen = {}
  /\ netif = {}
  /\ ready = {}
  /\ acts = 0
  /\ crashes = 0
  /\ sound = TRUE

\* The user runs compose.sh.
Invoke(a) ==
  /\ act = "none"
  /\ acts < MaxActs
  /\ acts' = acts + 1
  /\ act' = a
  /\ turn' = 1
  /\ todo' = IF a = "stop" THEN Up(HostOrder[1]) ELSE {}
  /\ UNCHANGED <<ct, script, netif, ready, crashes, sound>>

\* The mutant goes one host too far.
NextHost_Beyond(a) ==
  /\ turn' = turn + 1
  /\ act' = a
  /\ todo' = IF a = "stop" /\ turn < Len(HostOrder) THEN Up(HostOrder[turn + 1]) ELSE {}

\* The command is through with its host and comes to the next one.
NextHost(a) ==
  /\ IF turn < Len(HostOrder)
     THEN turn' = turn + 1 /\ act' = a
     ELSE turn' = 1 /\ act' = "none"
  /\ todo' = IF act' = "stop" THEN Up(HostOrder[turn']) ELSE {}

\* `compose create`, and the first half of `compose up`: a container for every
\* service that has none.
Create ==
  /\ act \in {"create", "up"}
  /\ ct' = [ct EXCEPT ![Host] =
              [c \in Containers |->
                 IF c \in Wanted[Host] /\ @[c] = "none" THEN "created" ELSE @[c]]]
  /\ IF act = "create"
     THEN NextHost("create")
     ELSE act' = "start" /\ todo' = Wanted[Host] \ Up(Host) /\ UNCHANGED turn
  /\ UNCHANGED <<script, netif, ready, acts, crashes, sound>>

\* The second half of `compose up`: containers start after those they depend on, and
\* after the completion of those that complete.
DependencyOk(h, d) ==
  ct[h][d] = IF d \in OneShot THEN "exited" ELSE "running"

StartContainer(c) ==
  /\ act = "start"
  /\ c \in todo
  /\ DependsOn[c] \cap todo = {}
  /\ \A d \in DependsOn[c] : DependencyOk(Host, d)
  /\ todo' = todo \ {c}
  /\ ct' = [ct EXCEPT ![Host][c] = "running"]
  /\ IF c = Bridge
     THEN port' = [port EXCEPT ![Host] = 1] /\ seen' = seen \ {Host}
     ELSE UNCHANGED script
  /\ UNCHANGED <<act, turn, netif, ready, acts, crashes, sound>>

UpDone ==
  /\ act = "start"
  /\ todo = {}
  /\ NextHost("up")
  /\ UNCHANGED <<ct, script, netif, ready, acts, crashes, sound>>

\* A dependency is not running, or failed: Docker Compose gives up, and with `set -e`
\* so does compose.sh, before the remaining hosts.
UpFails ==
  /\ act = "start"
  /\ \E c \in todo : \E d \in DependsOn[c] \ todo :
       ct[Host][d] \notin {"running", IF d \in OneShot THEN "exited" ELSE "running"}
  /\ act' = "none"
  /\ turn' = 1
  /\ todo' = {}
  /\ UNCHANGED <<ct, script, netif, ready, acts, crashes, sound>>

\* A network namespace goes with its container.
Vacate(h, C) ==
  /\ netif' = {x \in netif : x[1] # h \/ x[2] \notin C}
  /\ ready' = {x \in ready : x[1] # h \/ x[2] \notin C}

\* `compose rm -f -s` and `compose down`: the containers stop, ...
StopContainer(c) ==
  /\ act = "stop"
  /\ c \in todo
  /\ todo' = todo \ {c}
  /\ ct' = [ct EXCEPT ![Host][c] = IF @ = "running" THEN "exited" ELSE @]
  /\ Vacate(Host, {c})
  /\ UNCHANGED <<act, turn, script, acts, crashes, sound>>

\* ... and are removed.
RemoveAll ==
  /\ act = "stop"
  /\ todo = {}
  /\ ct' = [ct EXCEPT ![Host] = [c \in Containers |-> "none"]]
  /\ sound' = (sound \/ \A h \in Hosts, c \in Containers : ct'[h][c] = "none")
  /\ NextHost("stop")
  /\ UNCHANGED <<script, netif, ready, acts, crashes>>
-----------------------------------------------------------------------------
(* The bridge script of a host.                                              *)

BridgeRuns(h) == ct[h][Bridge] = "running"

\* The mutants take a container that has not started for one of another host, or wait
\* for the containers of other hosts too.
Skipped_NotRunning(h, c) == ct[h][c] # "running"

Skipped_Never(h, c) == FALSE

\* docker inspect finds no such container: it is on another host.
Skipped(h, c) == ct[h][c] = "none"

\* One `docker inspect`: skip the port, or go to pipework; else come back in a second.
Inspect(h) ==
  /\ BridgeRuns(h)
  /\ port[h] <= Len(Ports)
  /\ h \notin seen
  /\ LET c == Ports[port[h]].ct IN
     \/ /\ Skipped(h, c)
        /\ port' = [port EXCEPT ![h] = @ + 1]
        /\ UNCHANGED seen
     \/ /\ ct[h][c] = "running"
        /\ seen' = seen \cup {h}
        /\ UNCHANGED port
  /\ UNCHANGED <<act, turn, todo, ct, netif, ready, acts, crashes, sound>>

\* pipework puts the interface into the network namespace.  It fails, and with
\* `set -e` the script, if that is gone or has an interface of this name.
Pipework(h) ==
  /\ h \in seen
  /\ BridgeRuns(h)
  /\ seen' = seen \ {h}
  /\ LET p == Ports[port[h]]
         x == <<h, p.ct, p.net>>
     IN  \/ /\ p.op = "~" \/ (ct[h][p.ct] = "running" /\ x \notin netif)
            /\ netif' = IF p.op = "~" THEN netif ELSE netif \cup {x}
            /\ port' = [port EXCEPT ![h] = @ + 1]
            /\ UNCHANGED <<ct, sound>>
         \/ /\ p.op # "~" /\ (ct[h][p.ct] # "running" \/ x \in netif)
            /\ ct' = [ct EXCEPT ![h][Bridge] = "failed"]
            /\ UNCHANGED <<netif, port, sound>>
  /\ UNCHANGED <<act, turn, todo, ready, acts, crashes>>

\* An interface of a '~' port is set up by hand, in the namespace of a running container.
SetUpByHand(h, i) ==
  LET x == <<h, Ports[i].ct, Ports[i].net>> IN
  /\ Ports[i].op = "~"
  /\ ct[h][Ports[i].ct] = "running"
  /\ x \notin netif
  /\ netif' = netif \cup {x}
  /\ UNCHANGED <<act, turn, todo, ct, script, ready, acts, crashes, sound>>

\* The script is past all ports: the bridge is healthy.
Healthy(h) == BridgeRuns(h) /\ port[h] > Len(Ports)
-----------------------------------------------------------------------------
(* The script of a network function.                                         *)

\* Docker networks are there when a container starts, Ethernet ports come later.
HasNetif(h, c, net) == ct[h][c] = "running" /\ (net \in PortNets(c) => <<h, c, net>> \in netif)

\* waitReachable(), in both modes.
Reachable(c) ==
  /\ \A x \in Reaches[c] : HasNetif(PlacedOn[x[1]], x[1], x[2])
  /\ \A d \in Connects[c] : <<PlacedOn[d], d>> \in ready

\* waitNetifs() and waitReachable() return.
CanLaunch(h, c) ==
  /\ ct[h][c] = "running"
  /\ \A net \in Awaited(c) : HasNetif(h, c, net)
  /\ Reachable(c)

Launch(h, c) ==
  /\ c \notin OneShot \cup {Bridge}
  /\ <<h, c>> \notin ready
  /\ CanLaunch(h, c)
  /\ ready' = ready \cup {<<h, c>>}
  /\ UNCHANGED <<act, turn, todo, ct, script, netif, acts, crashes, sound>>

\* A one-shot container completes.
Complete(h, c) ==
  /\ c \in OneShot
  /\ ct[h][c] = "running"
  /\ ct' = [ct EXCEPT ![h][c] = "exited"]
  /\ UNCHANGED <<act, turn, todo, script, netif, ready, acts, crashes, sound>>

\* A container exits with an error.  Nothing restarts it but the next `compose up`.
Fail(h, c) ==
  /\ ct[h][c] = "running"
  /\ crashes < MaxCrash
  /\ crashes' = crashes + 1
  /\ ct' = [ct EXCEPT ![h][c] = "failed"]
  /\ Vacate(h, {c})
  /\ sound' = FALSE
  /\ UNCHANGED <<act, turn, todo, script, acts>>
-----------------------------------------------------------------------------
ComposeSh ==
  \/ Create
  \/ \E c \in Containers : StartContainer(c) \/ StopContainer(c)
  \/ UpDone
  \/ UpFails
  \/ RemoveAll

Next ==
  \/ \E a \in {"create", "up", "stop"} : Invoke(a)
  \/ ComposeSh
  \/ \E h \in Hosts : Inspect(h) \/ Pipework(h)
  \/ \E h \in Hosts, i \in DOMAIN Ports : SetUpByHand(h, i)
  \/ \E h \in Hosts, c \in Containers : Launch(h, c) \/ Complete(h, c) \/ Fail(h, c)

Spec == Init /\ [][Next]_vars

\* compose.sh, the bridge and the other containers of every host go on whenever they
\* can, and whoever set a '~' port up once does it again.
Fairness ==
  /\ WF_vars(ComposeSh)
  /\ \A h \in Hosts :
       /\ WF_vars(Inspect(h) \/ Pipework(h))
       /\ WF_vars(\E i \in DOMAIN Ports : SetUpByHand(h, i))
       /\ WF_vars(\E c \in ServicesOn(h) : Launch(h, c) \/ Complete(h, c))

FairSpec == Spec /\ Fairness
-----------------------------------------------------------------------------
TypeOK ==
  /\ act \in {"none", "create", "up", "start", "stop"}
  /\ turn \in DOMAIN HostOrder
  /\ todo \subseteq Containers
  /\ ct \in [Hosts -> [Containers -> {"none", "created", "running", "exited", "failed"}]]
  /\ port \in [Hosts -> 1 .. Len(Ports) + 1]
  /\ seen \subseteq {h \in Hosts : port[h] <= Len(Ports)}
  /\ netif \subseteq {x \in Hosts \X Containers \X Nets : ct[x[1]][x[2]] = "running"}
  /\ ready \subseteq {x \in Hosts \X Containers : ct[x[1]][x[2]] = "running"}
  /\ acts \in 0 .. MaxActs
  /\ crashes \in 0 .. MaxCrash
  /\ sound \in BOOLEAN

\* "Each network function container is started on exactly one host machine"
\* (docs/multi-host.md): no engine but that of its host ever has the container.
OnItsHost ==
  \A h \in Hosts, c \in Containers \ EveryHost : ct[h][c] # "none" => PlacedOn[c] = h

\* What is true instead: a container that compose.sh does not name on a host (it is placed
\* on another, or annotated only_if_needed) is there only together with another one that
\* depends on it.
BroughtAlong ==
  \A h \in Hosts : \A c \in Containers \ Named(h) :
    ct[h][c] # "none" => \E d \in Containers \ {c} : c \in DependsOn[d] /\ ct[h][d] # "none"

\* While compose.sh is not taking the scenario down and nothing has failed, a bridge is
\* never healthy with a container on its host that lacks its port: a container created
\* early and started late is waited for, however the starts are ordered.
NobodyMissed ==
  sound /\ act # "stop" =>
    \A h \in Hosts, i \in DOMAIN Ports :
      Healthy(h) /\ Ports[i].op # "~" /\ ct[h][Ports[i].ct] # "none" =>
        <<h, Ports[i].ct, Ports[i].net>> \in netif

\* While compose.sh is not taking the scenario down and nothing else has failed, the
\* bridge script does not fail: no port is given to a container twice, through
\* overlapping patterns, or once more by a script that runs again.
BridgeSurvives ==
  sound /\ act # "stop" => \A h \in Hosts : ct[h][Bridge] # "failed"

\* While compose.sh is not taking the scenario down and nothing has failed, a process
\* that runs has the Ethernet ports it waits for, the network functions it pinged have
\* theirs, and those it connected to run.
ReadyInOrder ==
  sound /\ act # "stop" =>
    \A x \in ready :
      /\ \A net \in Awaited(x[2]) : HasNetif(x[1], x[2], net)
      /\ Reachable(x[2])

\* However the starts of containers, bridges and processes interleave, ports come to those they are for.
PortsInOrder == NobodyMissed /\ BridgeSurvives /\ ReadyInOrder

\* Every bridge is healthy and every network function runs.
AllUp ==
  /\ \A h \in Hosts : Healthy(h)
  /\ \A c \in Containers \ (EveryHost \cup OneShot \cup OnlyIfNeeded) :
       <<PlacedOn[c], c>> \in ready

\* `compose.sh up` was given and no `stop` after it, and nothing fails.
Started == act = "none" /\ sound /\ \A h \in Hosts : Named(h) \ OneShot \subseteq Up(h)

\* A scenario that was started comes up, if nothing fails and nobody stops it; no
\* order of the hosts, of the starts or of the ports makes everyone wait for everyone.
ComesUp == Started ~> (AllUp \/ ~Started)
=============================================================================
