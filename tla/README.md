# A verification project for 5gdeploy

5gdeploy turns a description of a 5G network (a *netdef*) into a Docker Compose
context for one of several 5G implementations, spreads it over several hosts, and
runs traffic through it. It is a generator: TypeScript code that decides who gets
which address, core, host and port and that writes shell scripts; and it is the
scripts it writes, which run at the same time on several hosts and in dozens of
containers. Neither half has unit tests. The modules here model the decisions of
the first and the interleavings of the second.

## The system and its parts

| Part | State it keeps | Operations | What makes it correct |
| --- | --- | --- | --- |
| IP allocator (`compose/ipalloc.ts`) | two bidirectional maps, two counters | `--ip-fixed`, allocNetwork, allocNetif, findNetwork | a number once given stays; no two owners; fixed entries honoured; nothing wasted |
| Compose file builder (`compose/compose.ts`, `context.ts`) | networks, services, netifs, annotations, mounted files | defineNetwork, defineService, connectNetif, disconnectNetif, annotate, getIP | a netif, its annotation and its address agree; no conflicting mounts |
| VXLAN bridge (`compose/bridge.ts`, `util/cmd.ts`) | per host: script position, links in the kernel, cleanup list | set up, stop, kill, restart | complete star, matching ends, no loop, no leak, never refused |
| Ethernet bridge (`compose/bridge.ts`) | per host: the port the script is at; interfaces moved into containers | wait for a container, pipework, skip | every container gets its port exactly once, or the script waits |
| Placement (`compose/place.ts`) | host and cpuset of every container | `--place` rules | first rule wins; dedicated cores are dedicated; everyone has cores |
| compose.sh (`compose/compose-sh.ts`) | containers of every Docker engine | create, up, stop, down, at, ps, upload | a container runs on its host and nowhere else; partial failures can be repaired |
| Start-up waiting (`compose/snippets.ts`) | which processes run | waitNetifs, waitReachable | nobody launches too early; nobody waits forever |
| gtp5g loader (`free5gc/gtp5g.ts`) | one-shot container | depend on it | runs on the hosts that need it, before the dependants |
| QoS, database, upload, cpufreq (`compose/`) | iptables rules, images on hosts | | every host has what it runs |
| Network definition (`netdef/`) | subscribers, data paths | queries and normalisation | identities are unique; paths reach the data networks |
| Scenario generator (`netdef-compose/`) | the context that builders share | user planes, control plane, RAN, then QoS, Prometheus, bridge, placement, save | later steps see what earlier ones decided |
| Implementations (`free5gc/`, `open5gs/`, `oai/`, `phoenix/`, `eupf/`, `omec/`, `ndndpdk/`, `ueransim/`, `packetrusher/`, `srsran/`) | configuration files, start-up scripts | one builder each | network functions find each other; a simulated UE is a subscriber; nobody waits in a circle |
| Virtual machines (`virt/`) | base image, disks, Virtual Functions, guests | kern, base, prep, sriov, run | a guest starts from a finished disk, with its interfaces; its disk is kept |
| Remote control (`phoenix-rpc/`) | none of its own; the status of a UE over JSON-RPC | register, deregister | a command that succeeds has reached its goal; every command ends |
| Traffic generators: plan (`trafficgen/tgcs.ts`, `common.ts`) | sessions found, flows, ports, services | gather, match, sort, define | no two flows collide; the result is the same each time; every session is listed as its own |
| Traffic generators: script (`trafficgen/tgcs.ts`) | test containers, output files | delete, servers, clients, wait, collect, stop, stats | servers precede clients; the output is of this run and complete |
| Scenario scripts (`scenario/`, `replace-sims/`) | files on disk | generate.sh | a scenario is replaced as a whole |

They interact in one direction while a scenario is generated: builders ask the
allocator for addresses and add services to the Compose file; `defineBridge` then
takes containers off Docker networks, `place` annotates hosts and cores, and the
result is saved. From there on compose.sh, the Docker engines, the bridge
containers and the scripts of the network functions run concurrently and only see
each other's effects: containers that exist or run, interfaces that appear,
addresses that answer.

The hard behaviours are in those two places. In the generator: one mutable map
serves fixed, single and multiple allocations in an order nobody fixes; rules
consume a map while they iterate it; builders of different authors read what
others may or may not have written yet, and some of it changes after that. In the running system: the bridge looks at
containers while they are created and started; its links are in the kernel and
outlive it; compose.sh goes through the hosts one by one and stops at the first
error; everyone waits for someone else. `PROJECT.json` lists each hazard at its
line.

## Modules

### Numbering, IPAlloc: who has which address

`Numbering` is the promise: names acquire numbers, no number has two owners, and no
name loses or changes its number. `IPAlloc` is `compose/ipalloc.ts`: `networks` and
`hosts` are the two BiMaps, `nextNetwork` and `nextHost` the counters, `SaveFixed`
is one round of the constructor's loop, `AllocNetwork` and `AllocNetif` the two
calls. `Candidates` says in one set expression which number `allocOne()` settles
on, `SetRun` is `BiMap.set()` for a run of keys, with its habit of taking a number
away from whoever had it. An assertion that fails ends the generator (`status`);
the maps and counters that are left behind are part of the model. Both maps are
shown to implement `Numbering`.

Networks are counted in /24s, so that an address is `c * Octet + d`; the model has
`Octet` and `LastHost` as parameters.

* **MCIPAlloc**: two networks, three containers, runs of up to two numbers, three
  usable host numbers and one spare network: exhaustion of both, collisions of
  runs with single numbers and with fixed entries, and every conflict of fixed
  lists happen. Names are symmetric only as far as the fixed lists are.
* **MCIPAllocAtEnd** (violation): a container has the last number by `--ip-fixed`
  and asks for two. The bound that `allocOne()` asserts for new keys is not
  asserted for old ones.

### Vxlan: the VXLAN bridge

All hosts run one script. `flag`, `set`, `self` and `peer` are its counters; `pc`
says which command is next; `links` are the VXLAN links in the kernel of a host,
`cleanups` and `trapped` the trap of `util/cmd.ts`. The script is split where
another party can come in between: finding oneself, `pipework --wait`, the
deletion of an old link, and `ip link add`. `Stop` is SIGTERM, which the shell
handles between two commands, after pipework, or while it idles; the handler
cleans up and disarms itself but does not end a script that is not idle. `Kill`
is a signal that cannot be handled, after the grace period or at any other time.
Links survive; so does the `unclean` history
variable, which remembers whether a host lost a script since its last complete
stop.

* **MCVxlan**: three hosts, which form a star in the only IP set of network n3 (where a
  mesh would close a loop) and a chain of two IP sets in n4, with any number of stops,
  kills and restarts. Links of the three IP sets have the same ends of their VNI, 0 and
  1, so that only the field of the flag and that of the IP set keep the networks, and
  the IP sets of a network, apart (`EndsMeet`). No container of one host uses n4, so
  its script waits in the middle of it forever. The bound `OneDisturbed` is that
  only one host at a time is being stopped, or has lost a script and kept its links;
  scripts that are not disturbed run on all hosts at the same time.

No liveness is checked of this component: the generator unrolls the loops over flags and
IP sets, so the only wait without a limit is that of `pipework --wait`, and that
wait has no end on a host where no container uses the network. What a stop leaves behind when it
comes while tunnels are set up, and what a killed script leaves (`unclean`), stays until
the next complete run is stopped; `EndsMeet` and `StarIsTree` say that it does no harm.

Two `--bridge` flags for one network are left out of these instances: link names count
IP sets within a flag, so that the second flag deletes the links of the first, against
`docs/multi-host.md` ("The first IP address in each IP set has a tunnel to each
subsequent IP address").

### Place: hosts and cores

`place()` and `AssignCpuset` step by step: `BeginRule`, `MatchService` for a round
of the loop over services (with the deletion from the map), `Update` for the
decision to set two cores aside, `AssignService` for every container of the group.
A pattern is the set of names that it matches, a cpuset the sequence of cores
that `parseCpuset()` returns. `CpuIsolation` has one conjunct for each sentence of the section "CPU Isolation" of
`docs/multi-host.md`; `Requests` counts the cores that a set of containers asks for.

* **MCPlace**: three containers and one that runs everywhere, requests of 0 to 2
  cores, up to two overlapping rules with one to five cores, so that there are
  always lists in which cores are just enough, one short, and absent; and, with
  place-match-host, every earlier placement.

### Deploy: from compose.sh to running network functions

`act`, `turn` and `todo` are where compose.sh is: which command, which host, which
containers of the host are still to be started or stopped. `ct` is what every
Docker engine has, `port` and `seen` where the bridge script of a host is,
`netif` the Ethernet ports that were moved into containers, `ready` the processes
that run. `Ports` is computed from the `--bridge` flags as parsePorts() and
buildPort() do, each match taking the container off the network. docker inspect
and pipework are two steps, so that a container can exit between them. What
Docker Compose does with the names it gets (create, start in dependency order,
wait for one-shot containers, give up if one failed, bring dependencies along) is
modelled from the command lines that the code writes. `Awaited` is what waitNetifs()
writes into a start-up script, which polls for every Ethernet port. A script that is
written when the bridge has been defined (`Assuming`) finds the `assume_net_` annotation of
a `~` port and leaves it out.

`sound` is a history variable: nothing has failed since all hosts were empty.
Properties of a healthy start (`PortsInOrder`) are conditional on it.

* **MCDeploy**: an SMF on one host that pings its UPF over an Ethernet port and
  connects to an NRF, both on the other host; the UPF needs gtp5g. Overlapping
  patterns, two flags for one network, and a port that is set up by hand.
  compose.sh is invoked up to four times (any of create, up, stop and down, so that a
  second `up` meets what the first and a failure have left), one container fails at
  any time. Fairness: compose.sh is a process that goes on when it can; the scripts of a host
  poll in loops, so that one of them gets on when its condition stays true; the user who announced a
  `~` port sets it up. None for invocations and failures. The system may stop when
  the invocations are used up, so deadlock is not checked; `ComesUp` says that a
  scenario that is started and left alone does not get stuck before.
* **MCDeployHelpers** (violation): a container can share the network namespace of another
  (`network_mode: "service:..."`; so do upfpfcp, upfgui and upfroute of `omec/upf.ts`, and
  upfsvc of `ndndpdk/upf.ts`), and `--place` may put the two on different hosts without a
  warning: a pattern such as `+(upf1|dn_internet)` of `scenario/20231017/README.md` does.
  `docker compose create` and `up` of the helper then bring the other container along, a
  second time, on the host of the helper. "Each network function container is started on
  exactly one host machine" (`docs/multi-host.md`), the property `OnItsHost`, is false.

What holds instead is proved as `NobodyAstray`: a container that compose.sh does not name on
a host is there only beside one that depends on it (`BroughtAlong`).

### TrafficGen: planning a test

`trafficgen/tgcs.ts` up to the point where it writes its Compose file, and
`gatherPduSessions()`. `links` are the addresses in UE containers, which `Change`
adds and removes at any time while sessions are gathered. `stage` and `pending` are
where a container is in the pipeline of flatTransform(): `ip addr show`, then one
concurrent `nr-cli ps-list` per UE, then the match of sessions with flow flags
(`FindPduIP`, `Selecting`, `Matching`), which appends to `found` in the order of completion.
The names of TrafficGen differ from those of TgRun (`PlanInit`, `PlanNext`, `planVars`).
`Sort` is the stable sort, `Define` one round of the loop that checks the limit of
ports, takes a range of them and adds the server and the client. What each
generator asks for (`NPorts`) and what it binds to (`ServerPorts`, `ClientPorts`,
`TapIndexes`) are read from different places of its code and put side by side in a
definition of its own (`Iperf2` to `Ndnping`, in the form of `Asks`); that the first is
enough for the second is what `FlowsApart`, half of `FlowsServed`, is about. It compares
sockets per network namespace and address, since clients and servers of both directions
share those of a Data Network; the other half says that the server of every flow is there. `Listed` is conditional
on what can be known: the code cannot tell several UEs in a container apart except
with UERANSIM and PacketRusher, nor one UE's sessions in two slices with one DNN.

* **MCTrafficGen**: three UEs in two containers, three Data Networks of which two have
  one DNN, ten groups that cover every generator and both directions, one session
  that comes or goes; with and without `--ports-per-flow`. The first port is not a
  multiple of eight, which the index of ns-3 containers would otherwise hide.

A UERANSIM UE that has no session in a Data Network is a known exception to the
attribution of addresses, which `Listed` leaves out: findPduIP() then falls back to the
whole subnet and returns the address of another UE of the container, against
`trafficgen/README.md` (lines 53 and 54).

### TgRun: running a test

The bash script, as the sequence of steps (`Script`) that remain in `todo`; each step
is a command on a host or a container. Commands under with_retry may do any part of
their work and fail, and are then tried again (`DeleteFails`, `UpFails`); a failure of
`docker logs` ends the script; one of `docker wait` is lost in a command
substitution, which the history variable `unheard` remembers, because
the output of a run cannot be complete then. `born` tells which invocation made a container,
`file` what its output file was taken from.

* **MCTgRun**: two servers and two clients on two hosts, three invocations of any
  subcommand, two faults (a command that fails, or `compose.sh up` that removes the
  containers of the test as orphans). A container may exit at any time. Fairness:
  the shell goes on; it is not blocked by `docker wait`, because `--wait-timeout` is
  not 0. `Ends` rests on nothing else.

### Virt: virtual machines

The containers of one physical host and Docker Compose. `proc` is the step of the
command of a container; `base`, `image` and their `...Done` files are the volumes,
`vfs` the Virtual Functions in the kernel, `mark` the file in the container
virt_sriov that its health check looks for. `Start` waits for `depends_on` as Compose
does. Failures leave half-written images; reboots leave every file and no Virtual
Functions.

* **MCVirt**: two guests, one with a Virtual Function, two invocations of
  `compose.sh up`, one failure or interruption and one reboot. Fairness: each
  container's command and Compose go on; none for invocations, failures, reboots and
  shutdowns. `ComesUp` is about an `up` given after the last failure.
* **MCVirtReboot** (violation): after a reboot the healthy file is still there. The
  guest starts before its Virtual Functions are made.

### Netdef, Compose, CorePlane, UserPlane, Oai, Phoenix, Ran, Generator: from a network definition to a Compose file

The generator is a sequential program that runs two dozen builders on one shared,
mutable context. `Compose` is that context: containers in the order of their definition
(`services`), the netifs that Docker makes (`netifs`) and the annotations `ip_`, `mac_`
and `assume_net_`, which are all that builders get to see of each other. A netif stands
for its address; that the two are one to one is what IPAlloc shows.

A method of a builder is an action, and its effect is a record like `Nothing` with one
field for each thing a builder can do: define a container on some networks, look up the
address of a netif (`tell` for one that is written for a container, `cite` for one in a
configuration), list containers of a kind (`list`, or `scan` where those without the netif
are passed over), read what is decided late (`look`), defer a step to finalSave(), wait
in the start-up script, enter subscribers into a database (`store`) or simulate them. So
a module for a provider reads like a table of its builders. `Build` applies the effect,
or ends the generator if an assertion fails (`Succeeds`, `Throw`): getIP() of a netif
that is not there yet, a Data Network that does not exist, two paths to different UPFs
where a provider allows for one. `late` keeps what was read of that which is decided late,
with its value then; `asked` keeps who got which list; both are there for the properties.

`Netdef` and the last part of `Compose` are the queries of `netdef/helpers.ts`: a
subscriber is an entry for several SUPIs, with keys of its own or the defaults, which are
drawn at random when the first list is made (`drawn`), and with Data Networks in order.
`CorePlane` has Data Network containers, free5GC and Open5GS, `UserPlane` five kinds of
UPF, `Oai` the control plane and two UPFs of OAI-CN5G, `Phoenix` all of Open5GCore,
`Ran` five RAN simulators. `Generator` puts them in the order of main.ts and adds QoS, the
Prometheus stack, Ethernet bridges, CPU frequency, placement and the deferred steps;
then it starts the containers, each of which launches when its start-up script gets
through.

* **MCGenerator**: every control plane with every UPF and every RAN simulator (192
  combinations) on a network with one of each, with QoS rules both ways and ports for gNBs
  and UPFs; networks with two AMFs, SMFs, UPFs, gNBs and subscribers, a path over N9 and
  a slice with two Data Networks; entries that stand for several UEs on any gNB; and each
  special option once (no NRF, PCF, NWDAF, one PacketRusher for all gNBs, software radio,
  a port that somebody else sets up, an Ethernet Data Network, no RAN). A run of the
  generator is sequential, so a behaviour is one scenario and the 10089 states are 369
  runs. Fairness: the generator and Docker go on; `AllLaunch` says that every scenario
  comes to where all containers have launched, except for five (`Refused`) that a provider
  does not support, which must end with an error (`Throw`): N9 with OAI's UPF or with an Open5GS UPF
  under Open5GCore's SMF, gNBs with different UPFs under free5GC, two subscribers for one
  gNB of PacketRusher, and eUPF without a gNB to look up.

What these modules do not say: the text of a configuration, ports, device names and
addresses of the host, and whether the container images accept what they are given.
Met on the way: `--ran=none` with eUPF or NDN-DPDK ends with an error, since they ask
for the addresses of gNBs after all builders have run; PacketRusher with one container for
all gNBs gives every UE the Data Network of the first;
and the constructor of PhoenixScenarioBuilder asks for NAT and MTUs on networks of which
two (mgmt, n6) have been defined before it runs, so that its options have no effect there.

### PhoenixRpc: the remote control of a UE

`waitUntil()` with the lists of goals that ue-register and ue-deregister give it. Every
invocation is a process (`pc`, `at`, `limit`); the UE is another, which takes a
request up or not, completes it or gives up, and may be released by the network. A status
is a copy (`status`): it is judged after the UE may have moved on. `disturbed` remembers
whether a goal of an invocation was met and then lost, which no client can notice.

* **MCPhoenixRpc**: two invocations of either command with up to two `--dnn` (one
  that the UE does not know among them), a limit of two polls, one release. Fairness:
  each invocation goes on, as a process with a timer does; nothing is assumed of the UE,
  which is why `Ends` only says that invocations succeed or fail.

## Proofs

`Lists` has the one list operator that the proofs need and the prover does not know,
`Kept` (`Array.prototype.filter()`); `ListProofs` says what it and operators of the
community modules return. Proofs of a component are in a module of their own; TrafficGen
and TgRun are halves of one program, and share theirs, as do the generator and the virtual
machines that a Compose file may have.

| Module | Theorem | Statement |
| --- | --- | --- |
| IPAllocProofs | TypeCorrect, NumbersStay, RangesDisjoint, AssignmentsStay, NothingWasted | all safety properties of the allocator |
| VxlanProofs | TypeCorrect, NothingLeft | type correctness; a script that was stopped leaves no links behind |
| | NoCrosstalk, AlwaysAccepted | no two tunnels share a VNI and no link is refused, if IP sets fit into the VNI |
| | WholeStar | both ends of every tunnel are there once both scripts are beyond it, if a network has one flag and a machine one address in an IP set |
| | AlwaysTree | tunnels close no loop, if the IP sets do not |
| PlaceProofs | TypeCorrect, FirstWins, NobodyWithout | type correctness; the first rule wins; everyone has cores, and all have dedicated ones while there are enough |
| | Isolation | dedicated cores are dedicated, if no cpuset lists a core twice |
| DeployProofs | TypeCorrect, PortsArrive | type correctness; until something fails, every container gets its ports once and nobody launches without those it waits for |
| | NobodyAstray | a container is on a host where compose.sh does not name it only beside one that depends on it |
| TgcsProofs | PlanTypeCorrect, TableIsStable | TrafficGen: type correctness; the table has one order, in whichever order UEs answer |
| | FlowsAreServed | every flow has its containers, and no two of a network namespace share a port or a TAP device |
| | AllListed | every session that can be told apart is in the table, with its own address |
| | TypeCorrect, Sound, InOrder | TgRun: all safety properties of a test run, for any number of hosts, containers, invocations and faults |
| ComposeProofs | GeneratorTypes, AddressesExist | Generator: the Compose file is well-formed, and whoever is told where a peer is has a netif on that network, for every network definition and every combination of providers |
| | ScriptsAreUpToDate | what scripts took for granted is so in the end, if `~` is only used for UPFs whose script is written last |
| | ListsAreComplete | nobody is overlooked, if QoS rules are not about the Prometheus stack |
| | UesAreProvisioned | simulated UEs are in the database with their keys, if they request what they are subscribed to |
| | TypeCorrect, DisksAreReady, DisksAreKept, FunctionsAreThere | Virt: all safety properties of MCVirt, for any number of guests, failures and reboots |
| PhoenixRpcProofs | TypeCorrect, EstablishedHolds | polls stay within the limit; success means that the goals were met, for any number of invocations, goals and polls |

*IPAlloc.* The inductive invariant says that both maps are injective where they are
set, that the two reserved keys hold 0 and 1, that every entry of the fixed list
that was saved is in the maps, that every address returned is what the maps say,
and that its whole run belongs to its owner. Injectivity is what makes `SetRun`
harmless: the candidates of allocOne() are free or the owner's own, so nothing is
evicted. The properties follow, the action properties through the refinement of
`Numbering`. NothingWasted is inductive relative to that: a counter is moved past a
free number only in search of a place for a run, when a number within that run is taken
(`PassedForRun`), and no step frees one.

*Vxlan.* There are three invariants, each resting on the one before. The first says
that every link on a host, left over or not, is one that the script of that host asks
for (`FromScript`), and that the counters point into the flags (`AtIpset`). That two
equal VNIs mean the same flag, IP set and pair of ends is then arithmetic, and needs at
most ten IP sets per flag and a hundred addresses per set (`SmallSets`); the code does
not check that. Two links with one VNI on a host would have one name, which the script
deletes before it adds the second: so none is refused. `JInv` says what the
cleanup list has: all that the script has set up, and all links of the machine unless a
script was killed there. `Present` says what links there are: those of every tunnel
that an undisturbed script has gone past; a later flag deletes none of them because
names differ, which needs `DistinctNets`. `OneAddress` is needed since a script looks
for the first of its addresses in an IP set only. For `LoopFree`, `Branching` gives the
hosts of a network a depth, with hubs above their leaves, and every host one hub
at most: the deepest end of any set of tunnels is then an end of just one of them.
Without it, flags that describe a circle of hosts do make one.

*Place.* `Untaken` says which containers are still in the map, `FirstInv` that the rules
gone by match none of them, and where the loop over the map is within the rule at hand.
For cores, `Sharing` follows the list of available ones through a rule: what has been
given, what is left and what is shared are apart, and either two cores have been set
aside for those that ask for none or cannot be served (`shared = SharedOf(rule)`),
or there are enough for all that are still to come (`Plenty`) and nobody is
warned. So nobody ends up without cores, although the decision is made from
totals. Only that dedicated cores are dedicated has a hypothesis, `DistinctCores`, since
parseCpuset() makes of "4,4" a core that is listed twice.

*Deploy.* `PlacementInv` adds to BroughtAlong that compose.sh only starts what it has
created. Containers are made in one step for a whole host, those that it names and all
that they depend on; in that least set, whatever is not named has a dependant
(`WantedBecause`: without one it could be left out). They are removed in one step as well.
PortsArrive has an invariant of three parts:
what is inside a container (interfaces, processes) needs the container to run
(`TypeInv`); while `compose up` starts containers, all that it wants have been created and
none that it has still to start runs (`Starting`); and, as long as nothing has failed and
nothing is being taken down (`Good`), every port that a bridge is past has been given to its
container or belongs to another host, a port it is not past has not, and whoever has launched
has the ports it waits for. Two facts carry it. The bridge is itself one of the
containers that are started, so that once it looks, no container of its host is still to
be created. And no two ports are for the same container and network, because
each match takes the container off the network (`GoodScript`).

*TrafficGen.* `Gathered` has the types, and that a container or a UE tells of sessions
of its own only, at most one in a Data Network (`Sessions`). `Planned` is about what has been
defined: rows of the table have ranges of ports that follow each other, each as long as its
generator asked for, and every container is the client or the server of a row with that
name (`Holds`). Containers of two rows are then apart, because each generator binds within
what it asks for (`NPortsFacts`, by cases of the generator, also for the eight ports that
make the index of an ns-3 container unique); those of one row are apart because a Data
Network's container is never a UE's. A server that several rows share has the name of a
generator and a Data Network, and is in the place that any of these rows would have
given it, since the reverse direction is refused for such a generator. `Stable` says that flows
of one UE, group and DNN are found in the order of its subscription, however UEs overtake
each other, because they come in one step; that the sort is a stable permutation (`SortedFacts`)
makes that the only order left open, so `Precedes` is total on what is found. Sorting
is a count of predecessors: that it hits each place once is the pigeonhole principle (`DownFacts`).
`Told` says that a UE that has been matched has all its sessions among the flows, `Carried`
that the sort and the loop lose none. Under the condition of `Listed`, the last address of
the right apn is the session's own (`AddressFacts`).

*TgRun.* The phases of the script have an order (`Rank`). The remaining script is sorted
by it, and what a full run needs and no longer has ahead of it is of no later phase than what
it has (`Passed`). So the step at hand tells what has been done, and the other parts of the
invariant say what each phase has established and nothing since has undone: containers
that are there again are this run's (`Fresh`, `ServersBorn`), clients have ended unless
the script was told otherwise or could not tell (`ClientsEnded`), files are this run's and
whole (`Saved`, `SavedWhole`).

*Generator.* The constants are any set of network definitions and options, of which
`NetworkAssumption` and `OptionsAssumption` say that they have the form that types/netdef.ts
and the command line give them. `GenInv` has two sides. One says what a step may be and what
order the steps ahead have (`Planned`, by `Rank`, the order of main.ts), and that whatever is no
longer ahead has been done (`Arranged`): no step that scans all containers comes before a step
that adds one, the SUPIs of PacketRusher were checked before it is built, and once the step that
fills the database is past, everybody is in it. The other says what the files have so far (`Wired`, `Ported`, `Counted`,
`Fresh`). `Effect` says what a step of a builder has to do with the context for both to be kept:
it is given no address but of a netif that is there or that it connects itself, it lists only
kinds that nobody after it defines, it reads what is decided late
only if it is itself deferred or nobody can change it any more, what it defers finds its netifs, and it stores and simulates subscribers that
the network definition has. `KeepsInv` is then one proof for all builders; for each builder
method and stage there is a lemma that it is `Legitimate`, which is where the code of a provider
is looked at. `StepsShape` says that `Steps`, whatever the options, has the order and the
members that the invariant starts with. Keys agree since `drawn` is 0 or 1: they are drawn once,
and `KeyOf` is what every later list uses, however its entries are expanded (`Derives`).

Three theorems have a hypothesis about the options. `LatePorts` is a little weaker than what
docs/multi-host.md says of the operator `~`: it is for UPFs only, those whose script is deferred;
otherwise an interface that a start-up script waits for may be left to the operator afterwards. `QosAmongFunctions` is needed because the QoS script is written before the
Prometheus stack is there, and `Requests` because a UE that requests a Data Network that it is not
subscribed to is entered into the database without it, and because the UEs of one PacketRusher container for
all gNBs get what the first subscriber has; none of the three is checked by the code. MCGenerator
asserts that its scenarios satisfy all three.

*Virt.* ImageReady alone is not inductive: it has to be traced back along the chain
of containers. `BaseInv` says when `base.done` and the last steps of virt_base vouch for
base.qcow2, `DiskInv` what each step of a vmprep container has made of the disk and
that it reaches none of them once vm.done is there, `GuestInv` that a guest starts
after that. Each is kept because Compose starts a container only when those it
depends on have completed, in a state in which their invariant holds, and because the
volumes are never undone. `HealthInv` does the same for Virtual Functions, as long as
`reboots = 0`: the healthy file is only there while virt_sriov idles, a state it
leaves only when everything is taken down. A reboot breaks exactly that, which is the
counterexample of MCVirtReboot.

*PhoenixRpc.* Established is about an invocation that has ended. The invariant behind it,
`Held`, says of one that has not that every goal before the one it is at was met, and is
still met unless the invocation is disturbed. A step of the UE keeps it because `Becomes`
marks whoever loses by it; a step of the client because it moves on only with a status
that meets the goal, which need not be so any more when it is looked at, but then
somebody was marked as well.

*Lists.* The library's induction theorems cannot be instantiated here, so facts about
recursive functions on the positions of a list are proved from a least counterexample
(`Least`, from the well-foundedness of the natural numbers, which is stated for a set):
`RecursionExists` and `RecursionStays` say that such a function exists and that its values
stay in a set that is closed under its steps. `KeptFacts`, `FlattenFacts` (every element of
a list of lists has its place when they are joined, and keeps its order) and what Deploy needs
to know of its list of ports rest on them.

The assumptions on constants are those named in the modules (`...Assumption`); TLC
evaluates them in every run. The hypotheses of single theorems (`SmallSets`,
`DistinctNets`, `OneAddress`, `Branching`, `DistinctCores`, `LatePorts`,
`QosAmongFunctions`, `Requests`) are conditions on
the user's flags and files that the code does not check; the instances of the runs that check the
same property satisfy them. Only model-checked: liveness (the two
`ComesUp`, the two `Ends`, `AllLaunch`), which is out of the prover's reach. Every invariant and every
action property of a passing run is a theorem.

## Not modelled

Text: configuration files, YAML, help output, names. Types and schemas. The 5G
implementations and Docker images themselves. Identifiers such as PLMN, NCI and TAC,
and the path search of `netdef/up-graph.ts`. Upload of images and files,
`scenario/generate.sh` and the traffic tools that only count or print. `PROJECT.json`
lists every part with what is left out of it.

## Plan

1. (done) IPAlloc, Vxlan, Place, Deploy with their proofs; TrafficGen, TgRun, Virt.
2. (done) The Compose file and all builders of the generator; the remote control.
3. (done) Proofs of every safety property of IPAlloc, Vxlan, Place, Deploy, TrafficGen,
   TgRun, Virt, PhoenixRpc and Generator.
4. The paths of `netdef/up-graph.ts` against a reference definition; identifiers of
   subscribers and gNBs.
5. Upload and generate.sh: a scenario is replaced as a whole.
6. The launch of Generator on top of the hosts of Deploy; MACVTAP interfaces and CPU
   affinity of virtual machines.
