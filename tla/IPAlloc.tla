------------------------------ MODULE IPAlloc ------------------------------
(***************************************************************************)
(* The IPv4 address allocator of compose/ipalloc.ts.                       *)
(*                                                                         *)
(* Every Docker network owns a /24 and every container owns one host       *)
(* number that it uses on all of its networks, so that the address of a    *)
(* netif is the union of the two.  Both numbers are handed out on first    *)
(* use, in whatever order the builders ask, next to the assignments that   *)
(* --ip-fixed made beforehand.  A multi-gNB RAN simulator asks for several *)
(* consecutive host numbers under one name.                                *)
(*                                                                         *)
(* Networks are counted in units of Octet addresses: network c holds the   *)
(* addresses c*Octet .. c*Octet+Octet-1.  Octet is 256 and LastHost 254 in *)
(* the code.                                                               *)
(***************************************************************************)
EXTENDS Integers, Sequences

CONSTANTS
  Nets,        \* names of Docker networks
  Hosts,       \* names of containers
  Dot0, Dot1,  \* the keys ".0" and ".1" that reserve two host numbers
  MaxCount,    \* most consecutive host numbers a caller asks for
  FirstNet,    \* the first /24 of --ip-space
  LastNet,     \* the last /24 of --ip-space
  LastHost,    \* nextHost.max
  Octet,       \* addresses in a /24
  FixedLists   \* the --ip-fixed lists considered, of <<net, host, ip>>

ASSUME NamesAssumption ==
  /\ Dot0 # Dot1
  /\ {Dot0, Dot1} \cap Hosts = {}

ASSUME RangeAssumption ==
  /\ MaxCount \in Nat \ {0}
  /\ Octet \in Nat \ {0}
  /\ LastHost \in Nat
  /\ LastHost < Octet
  /\ FirstNet \in Nat
  /\ LastNet \in Nat

ASSUME FixedAssumption == FixedLists \subseteq Seq(Nets \X Hosts \X Nat)

Unset == -1      \* BiMap.get() of a missing key

\* The key of a container, and the keys "key+1", "key+2", ... of its extra numbers.
NetKey  == Nets \X {0}
HostKey == (Hosts \X (0 .. MaxCount - 1)) \cup {<<Dot0, 0>>, <<Dot1, 0>>}

VARIABLES
  networks,    \* BiMap of network keys to networks
  nextNetwork, \* nextNetwork.n
  hosts,       \* BiMap of host keys to host numbers
  nextHost,    \* nextHost.n
  fixed,       \* the --ip-fixed list given to the constructor
  done,        \* how many of its entries the constructor has saved
  status,      \* "ok", or the error that ended the generator
  issued       \* every netif address returned so far (history)

vars == <<networks, nextNetwork, hosts, nextHost, fixed, done, status, issued>>

Errors == {"conflicting assignment", "too many networks", "too many hosts",
           "some numbers are assigned elsewhere"}
-----------------------------------------------------------------------------
(* The BiMap of package mnemonist, and the search for numbers.             *)

Taken(m) == {m[k] : k \in DOMAIN m} \ {Unset}

Run(first, count) == first .. first + count - 1

\* BiMap.set() of name, name+1, ... to first, first+1, ...
\* A number that belonged to another key is taken away from it.
SetRun(m, name, first, count) ==
  [k \in DOMAIN m |->
     IF k[1] = name /\ k[2] < count THEN first + k[2]
     ELSE IF m[k] \in Run(first, count) THEN Unset
     ELSE m[k]]

\* allocOne() looks only at the first number of a run.
Candidates_FirstOnly(m, next, max, name, count) ==
  LET own == m[<<name, 0>>] IN
  IF own # Unset THEN {own}
  ELSE {v \in next .. max - count + 1 :
          /\ v \notin Taken(m)
          /\ \A w \in next .. v - 1 : w \in Taken(m)}

\* allocOne() hands out the counter without consulting the map.
Candidates_NoSkip(m, next, max, name, count) ==
  LET own == m[<<name, 0>>] IN
  IF own # Unset THEN {own} ELSE {v \in {next} : v <= max - count + 1}

\* allocOne() advances past numbers that are free.
Candidates_Skips(m, next, max, name, count) ==
  LET own == m[<<name, 0>>] IN
  IF own # Unset THEN {own}
  ELSE {v \in next + 1 .. max - count + 1 :
          /\ Run(v, count) \cap Taken(m) = {}
          /\ \A w \in next + 1 .. v - 1 : Run(w, count) \cap Taken(m) # {}}

\* The first number allocOne() settles on: the name's own number if the rest of
\* the run is free, else the first free run from the counter on.  Empty when
\* an assertion fails, at most a singleton otherwise.
Candidates(m, next, max, name, count) ==
  LET own == m[<<name, 0>>] IN
  IF own # Unset
  THEN {v \in {own} : (v + 1 .. v + count - 1) \cap Taken(m) = {}}
  ELSE {v \in next .. max - count + 1 :
          /\ Run(v, count) \cap Taken(m) = {}
          /\ \A w \in next .. v - 1 : Run(w, count) \cap Taken(m) # {}}

\* The counter after the search that settled on first.
Advance(m, next, name, first) ==
  IF m[<<name, 0>>] = Unset THEN first + 1 ELSE next

\* A failed search resets the counter to the value it is declared with.
Overrun_Reset(m, next, max, name, count) == -1

\* The counter after a search that ran past max: it has moved by one beyond the
\* run that failed the assertion.
Overrun(m, next, max, name, count) ==
  IF m[<<name, 0>>] # Unset THEN next
  ELSE 1 + IF next > max - count + 1 THEN next ELSE max - count + 2
-----------------------------------------------------------------------------
Init ==
  /\ networks = [k \in NetKey |-> Unset]
  /\ nextNetwork = FirstNet
  /\ hosts = [k \in HostKey |-> IF k = <<Dot0, 0>> THEN 0
                                ELSE IF k = <<Dot1, 0>> THEN 1 ELSE Unset]
  /\ nextHost = 2
  /\ fixed \in FixedLists
  /\ done = 0
  /\ status = "ok"
  /\ issued = {}

\* saveFixed() checks the number but not the key.
Conflict_ValueOnly(m, key, value) ==
  \E k \in DOMAIN m : m[k] = value /\ k # key

\* saveFixed() checks the key but not the number.
Conflict_KeyOnly(m, key, value) ==
  m[key] # Unset /\ m[key] # value

\* saveFixed() throws: the key has another number, or the number another key.
Conflict(m, key, value) ==
  \/ m[key] # Unset /\ m[key] # value
  \/ \E k \in DOMAIN m : m[k] = value /\ k # key

\* One round of the constructor's loop.  The network is saved before the host
\* number is checked.
SaveFixed ==
  /\ status = "ok"
  /\ done < Len(fixed)
  /\ LET net  == fixed[done + 1][1]
         host == fixed[done + 1][2]
         c    == fixed[done + 1][3] \div Octet
         d    == fixed[done + 1][3] % Octet
     IN \/ /\ Conflict(networks, <<net, 0>>, c)
           /\ status' = "conflicting assignment"
           /\ UNCHANGED <<networks, hosts, done>>
        \/ /\ ~Conflict(networks, <<net, 0>>, c)
           /\ networks' = SetRun(networks, net, c, 1)
           /\ \/ /\ Conflict(hosts, <<host, 0>>, d)
                 /\ status' = "conflicting assignment"
                 /\ UNCHANGED <<hosts, done>>
              \/ /\ ~Conflict(hosts, <<host, 0>>, d)
                 /\ hosts' = SetRun(hosts, host, d, 1)
                 /\ done' = done + 1
                 /\ UNCHANGED status
  /\ UNCHANGED <<nextNetwork, nextHost, fixed, issued>>

Constructed == status = "ok" /\ done = Len(fixed)

\* The number of network net, or the error that there is none left.
TakeNetwork(net, c) ==
  /\ c \in Candidates(networks, nextNetwork, LastNet, net, 1)
  /\ networks' = SetRun(networks, net, c, 1)
  /\ nextNetwork' = Advance(networks, nextNetwork, net, c)

NoNetwork(net) ==
  /\ Candidates(networks, nextNetwork, LastNet, net, 1) = {}
  /\ nextNetwork' = Overrun(networks, nextNetwork, LastNet, net, 1)
  /\ status' = "too many networks"
  /\ UNCHANGED <<networks, hosts, nextHost, fixed, done, issued>>

AllocNetwork(net) ==
  /\ Constructed
  /\ \/ /\ \E c \in Candidates(networks, nextNetwork, LastNet, net, 1) :
             TakeNetwork(net, c)
        /\ UNCHANGED <<hosts, nextHost, fixed, done, status, issued>>
     \/ NoNetwork(net)

AllocNetif(net, host, count) ==
  /\ Constructed
  /\ \/ NoNetwork(net)
     \/ /\ \E c \in Candidates(networks, nextNetwork, LastNet, net, 1) :
             /\ TakeNetwork(net, c)
             /\ \/ \E d \in Candidates(hosts, nextHost, LastHost, host, count) :
                     /\ hosts' = SetRun(hosts, host, d, count)
                     /\ nextHost' = Advance(hosts, nextHost, host, d)
                     /\ issued' = issued \cup
                          {[net |-> net, host |-> host, count |-> count,
                            addr |-> c * Octet + d]}
                     /\ UNCHANGED status
                \/ /\ Candidates(hosts, nextHost, LastHost, host, count) = {}
                   /\ nextHost' = Overrun(hosts, nextHost, LastHost, host, count)
                   /\ status' = IF hosts[<<host, 0>>] = Unset THEN "too many hosts"
                                ELSE "some numbers are assigned elsewhere"
                   /\ UNCHANGED <<hosts, issued>>
        /\ UNCHANGED <<fixed, done>>

Next ==
  \/ SaveFixed
  \/ \E net \in Nets : AllocNetwork(net)
  \/ \E net \in Nets, host \in Hosts, count \in 1 .. MaxCount :
       AllocNetif(net, host, count)

Spec == Init /\ [][Next]_vars
-----------------------------------------------------------------------------
TypeOK ==
  /\ networks \in [NetKey -> Nat \cup {Unset}]
  /\ nextNetwork \in Nat
  /\ hosts \in [HostKey -> Nat \cup {Unset}]
  /\ nextHost \in Nat
  /\ fixed \in FixedLists
  /\ done \in 0 .. Len(fixed)
  /\ status \in Errors \cup {"ok"}
  /\ issued \subseteq [net : Nets, host : Hosts, count : 1 .. MaxCount, addr : Nat]

\* The map of host numbers never takes a number back and never gives one twice,
\* although BiMap.set() would do either silently: configuration files already
\* hold the addresses.
HostNumbering == INSTANCE Numbering WITH Key <- HostKey, owner <- hosts
HostNumbersKept == HostNumbering!Spec

\* The same for the /24 of a network, which compose.yml already declares.
NetNumbering == INSTANCE Numbering WITH Key <- NetKey, owner <- networks
NetNumbersKept == NetNumbering!Spec

\* Neither map ever loses, changes or doubles a number that somebody has been given.
NumbersKept == HostNumbersKept /\ NetNumbersKept

\* Two containers never share a host number, not even with the extra numbers of
\* a multi-gNB container, and an address once returned stays the address of
\* that container on that network.
HostRangesDisjoint ==
  \A a, b \in issued :
    /\ a.addr = networks[<<a.net, 0>>] * Octet + hosts[<<a.host, 0>>]
    /\ a.host # b.host =>
         Run(hosts[<<a.host, 0>>], a.count) \cap Run(hosts[<<b.host, 0>>], b.count) = {}

\* Every --ip-fixed entry the constructor accepted keeps its address, whatever
\* entries and allocations follow.
FixedHonoured ==
  \A i \in 1 .. done :
    fixed[i][3] = networks[<<fixed[i][1], 0>>] * Octet + hosts[<<fixed[i][2], 0>>]

\* No container ever holds .0 (the subnet) or .1 (the gateway).
GatewayReserved ==
  \A k \in HostKey : k[1] \in Hosts => hosts[k] \notin {0, 1}

\* Whatever is assigned before the first call, by --ip-fixed or by the constructor
\* itself, is taken away by no later entry and no allocation.
AssignmentsHonoured == FixedHonoured /\ GatewayReserved

\* The counters only move forward, and leave no free number behind but where a run
\* that somebody asked for did not fit, because of a number closely above: this is what
\* lets the plan have 253 network functions and 64 networks (netdef-compose/README.md).
NoNumberWasted ==
  status = "ok" =>
    /\ FirstNet .. nextNetwork - 1 \subseteq Taken(networks)
    /\ \A n \in (2 .. nextHost - 1) \ Taken(hosts) :
         \E a \in issued : (n + 1 .. n + a.count - 1) \cap Taken(hosts) # {}

\* The bound that allocOne() asserts on a fresh run, "allValues.at(-1) <= next.max",
\* for every run of several numbers it returns.
RunWithinSubnet ==
  \A a \in issued :
    a.count > 1 => hosts[<<a.host, 0>>] + a.count - 1 <= LastHost
=============================================================================
