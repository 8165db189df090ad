------------------------------- MODULE Vxlan -------------------------------
(***************************************************************************)
(* The VXLAN part of the bridge container (BridgeModeVxlan of              *)
(* compose/bridge.ts).  Every machine runs the same script: for each IP    *)
(* set of each --bridge flag it looks for itself in the set, waits for the *)
(* Docker bridge of the network, and adds the tunnels of a star whose hub  *)
(* is the first address.  The script runs in the network namespace of the  *)
(* machine, so its tunnels outlive the container unless the cleanup trap   *)
(* of util/cmd.ts removes them.                                            *)
(***************************************************************************)
EXTENDS Naturals, Sequences, FiniteSets

CONSTANTS
  Machines,   \* hosts that run the bridge container
  Nets,       \* names of Docker networks
  Addrs,      \* IPv4 addresses of the machines
  MachineOf,  \* the machine that has an address
  Flags,      \* the --bridge flags, in order: [net, ipsets : Seq(Seq(Addrs))]
  Attached    \* <<machine, net>>: a container on the machine uses the network

ASSUME FlagsAssumption ==
  /\ MachineOf \in [Addrs -> Machines]
  /\ Flags \in Seq([net : Nets, ipsets : Seq(Seq(Addrs))])
  /\ \A i \in DOMAIN Flags : Flags[i].ipsets # <<>>

\* As many IP sets per flag and addresses per IP set as the VNI has room for.  The
\* code does not check it.
SmallSets ==
  \A i \in DOMAIN Flags :
    /\ Len(Flags[i].ipsets) <= 10
    /\ \A k \in DOMAIN Flags[i].ipsets : Len(Flags[i].ipsets[k]) <= 100

VARIABLES
  pc,         \* what the script is about to do
  flag, set,  \* which IP set it is at
  self, peer, \* SELF and PEER
  cleanups,   \* CLEANUPS: names of the links to delete
  trapped,    \* the cleanup trap is armed
  stopping,   \* the container was sent SIGTERM
  links,      \* VXLAN links of the machine
  bridges,    \* Docker bridges of the machine
  unclean     \* no complete run was stopped since the machine lost a script (history)

script  == <<flag, set, self, peer>>
machine == <<links, bridges>>
vars == <<pc, script, cleanups, trapped, stopping, machine, unclean>>
-----------------------------------------------------------------------------
(* The script's view of its flags.  IP sets and the addresses in them are   *)
(* counted from 1 here; the names and the VNIs count from 0 as the code.    *)

Ipset(i, k) == Flags[i].ipsets[k]

\* The indexes of the addresses of a machine in an IP set.
Own(h, i, k) == {s \in DOMAIN Ipset(i, k) : MachineOf[Ipset(i, k)[s]] = h}

IsFirst(s, S) == s \in S /\ \A t \in S : s <= t

Lower(s, p)  == IF s < p THEN s ELSE p
Higher(s, p) == IF s < p THEN p ELSE s

\* The IP sets of a flag have the same VNIs.
Vni_PerFlag(i, k, s, p) == 100000 * (i - 1) + 100 * (Lower(s, p) - 1) + (Higher(s, p) - 1)

Vni(i, k, s, p) ==
  100000 * (i - 1) + 10000 * (k - 1) + 100 * (Lower(s, p) - 1) + (Higher(s, p) - 1)

\* NETIF names the link after the network, the IP set within its flag, and the peer.
Name(i, k, p) == <<Flags[i].net, k, p>>

\* Tunnels are built between every two addresses.
Tunnelled_Mesh(s, p) == s # p

\* Only the leaves set their end up.
Tunnelled_LeafOnly(s, p) == s # p /\ p = 1

\* Tunnels are only built between the first address and every other one.
Tunnelled(s, p) == s # p /\ (s = 1 \/ p = 1)

Link(i, k, s, p) ==
  [name |-> Name(i, k, p), vni |-> Vni(i, k, s, p),
   local |-> Ipset(i, k)[s], remote |-> Ipset(i, k)[p]]

Running(h) == pc[h] \notin {"stopped", "failed"}
-----------------------------------------------------------------------------
Init ==
  /\ pc = [h \in Machines |-> "stopped"]
  /\ flag = [h \in Machines |-> 1]
  /\ set = [h \in Machines |-> 1]
  /\ self = [h \in Machines |-> 1]
  /\ peer = [h \in Machines |-> 1]
  /\ cleanups = [h \in Machines |-> {}]
  /\ trapped = [h \in Machines |-> FALSE]
  /\ stopping = [h \in Machines |-> FALSE]
  /\ links = [h \in Machines |-> {}]
  /\ bridges = [h \in Machines |-> {}]
  /\ unclean = [h \in Machines |-> FALSE]

\* `docker compose up`: the container starts, again if it had exited.
Up(h) ==
  /\ pc[h] \in {"stopped", "failed"}
  /\ pc' = [pc EXCEPT ![h] = "ipset"]
  /\ trapped' = [trapped EXCEPT ![h] = TRUE]
  /\ UNCHANGED <<script, cleanups, stopping, machine, unclean>>

\* The process of the script ends, and its shell variables with it.
End(h, how) ==
  /\ pc' = [pc EXCEPT ![h] = how]
  /\ flag' = [flag EXCEPT ![h] = 1]
  /\ set' = [set EXCEPT ![h] = 1]
  /\ self' = [self EXCEPT ![h] = 1]
  /\ peer' = [peer EXCEPT ![h] = 1]
  /\ cleanups' = [cleanups EXCEPT ![h] = {}]
  /\ trapped' = [trapped EXCEPT ![h] = FALSE]
  /\ stopping' = [stopping EXCEPT ![h] = FALSE]

\* `docker compose up` creates the Docker bridge of a network that some container
\* on the machine uses.
NetUp(h, n) ==
  /\ <<h, n>> \in Attached
  /\ n \notin bridges[h]
  /\ bridges' = [bridges EXCEPT ![h] = @ \cup {n}]
  /\ UNCHANGED <<pc, script, cleanups, trapped, stopping, links, unclean>>

\* One IP set too many.
NextIpset_Beyond(h) ==
  IF set[h] <= Len(Flags[flag[h]].ipsets)
  THEN set' = [set EXCEPT ![h] = @ + 1] /\ UNCHANGED flag
  ELSE flag' = [flag EXCEPT ![h] = @ + 1] /\ set' = [set EXCEPT ![h] = 1]

\* Go on with the IP set after the current one.
NextIpset(h) ==
  IF set[h] < Len(Flags[flag[h]].ipsets)
  THEN set' = [set EXCEPT ![h] = @ + 1] /\ UNCHANGED flag
  ELSE flag' = [flag EXCEPT ![h] = @ + 1] /\ set' = [set EXCEPT ![h] = 1]

\* The loop that looks for SELF.
FindSelf(h) ==
  /\ pc[h] = "ipset"
  /\ flag[h] <= Len(Flags)
  /\ \/ /\ Own(h, flag[h], set[h]) = {}
        /\ NextIpset(h)
        /\ UNCHANGED <<pc, self>>
     \/ /\ \E s \in Own(h, flag[h], set[h]) :
             /\ IsFirst(s, Own(h, flag[h], set[h]))
             /\ self' = [self EXCEPT ![h] = s]
        /\ pc' = [pc EXCEPT ![h] = "wait"]
        /\ UNCHANGED <<flag, set>>
  /\ UNCHANGED <<peer, cleanups, trapped, stopping, machine, unclean>>

\* cleanup(), if the trap is still armed.
Cleanup(h) ==
  links' = IF trapped[h]
           THEN [links EXCEPT ![h] = {l \in @ : l.name \notin cleanups[h]}]
           ELSE links

\* `pipework --wait` returns.  A SIGTERM that arrived meanwhile is handled now; the
\* handler does not end the script.
Bridged(h) ==
  /\ pc[h] = "wait"
  /\ Flags[flag[h]].net \in bridges[h]
  /\ IF stopping[h]
     THEN Cleanup(h) /\ trapped' = [trapped EXCEPT ![h] = FALSE]
     ELSE UNCHANGED <<links, trapped>>
  /\ pc' = [pc EXCEPT ![h] = "tunnel"]
  /\ peer' = [peer EXCEPT ![h] = 1]
  /\ UNCHANGED <<flag, set, self, cleanups, stopping, bridges, unclean>>

\* The old link of the same name goes, and the new one is registered for cleanup.
Prepare_NoCleanup(h) ==
  /\ links' = [links EXCEPT ![h] = {l \in @ : l.name # Name(flag[h], set[h], peer[h])}]
  /\ UNCHANGED cleanups

Prepare(h) ==
  /\ links' = [links EXCEPT ![h] = {l \in @ : l.name # Name(flag[h], set[h], peer[h])}]
  /\ cleanups' = [cleanups EXCEPT ![h] = @ \cup {Name(flag[h], set[h], peer[h])}]

\* One round of the loop over the peers, up to `ip link add`.
TryPeer(h) ==
  /\ pc[h] = "tunnel"
  /\ \/ /\ peer[h] > Len(Ipset(flag[h], set[h]))
        /\ NextIpset(h)
        /\ pc' = [pc EXCEPT ![h] = "ipset"]
        /\ UNCHANGED <<peer, links, cleanups>>
     \/ /\ peer[h] <= Len(Ipset(flag[h], set[h]))
        /\ Tunnelled(self[h], peer[h])
        /\ Prepare(h)
        /\ pc' = [pc EXCEPT ![h] = "add"]
        /\ UNCHANGED <<flag, set, peer>>
     \/ /\ peer[h] <= Len(Ipset(flag[h], set[h]))
        /\ ~Tunnelled(self[h], peer[h])
        /\ peer' = [peer EXCEPT ![h] = @ + 1]
        /\ UNCHANGED <<pc, flag, set, links, cleanups>>
  /\ UNCHANGED <<self, trapped, stopping, bridges, unclean>>

\* The kernel refuses a name or a VNI that a link of the machine has already.
Refused(h, l) == \E m \in links[h] : m.name = l.name \/ m.vni = l.vni

\* `ip link add` and `ip link set ... master`.  Under `set -e` a refusal ends the
\* script, and the EXIT trap cleans up.
AddLink(h) ==
  /\ pc[h] = "add"
  /\ LET l == Link(flag[h], set[h], self[h], peer[h]) IN
     \/ /\ ~Refused(h, l)
        /\ links' = [links EXCEPT ![h] = @ \cup {l}]
        /\ pc' = [pc EXCEPT ![h] = "tunnel"]
        /\ peer' = [peer EXCEPT ![h] = @ + 1]
        /\ UNCHANGED <<flag, set, self, cleanups, trapped, stopping, unclean>>
     \/ /\ Refused(h, l)
        /\ Cleanup(h)
        /\ unclean' = [unclean EXCEPT ![h] = @ \/ ~trapped[h]]
        /\ End(h, "failed")
  /\ UNCHANGED bridges

\* The end of the script: it sets the healthy state and idles.
SetHealthy(h) ==
  /\ pc[h] = "ipset"
  /\ flag[h] > Len(Flags)
  /\ pc' = [pc EXCEPT ![h] = "idle"]
  /\ UNCHANGED <<script, cleanups, trapped, stopping, machine, unclean>>

\* `docker stop`: SIGTERM.  The idle script runs the handler and ends.  Between two
\* commands the handler runs and the script goes on; while pipework runs in the
\* foreground the shell does not see the signal yet.
Stop(h) ==
  /\ Running(h)
  /\ ~stopping[h]
  /\ \/ /\ pc[h] = "idle"
        /\ Cleanup(h)
        /\ End(h, "stopped")
        /\ unclean' = [unclean EXCEPT ![h] = FALSE]
     \/ /\ pc[h] \notin {"idle", "wait"}
        /\ Cleanup(h)
        /\ trapped' = [trapped EXCEPT ![h] = FALSE]
        /\ stopping' = [stopping EXCEPT ![h] = TRUE]
        /\ UNCHANGED <<pc, script, cleanups, unclean>>
     \/ /\ pc[h] = "wait"
        /\ stopping' = [stopping EXCEPT ![h] = TRUE]
        /\ UNCHANGED <<pc, script, cleanups, trapped, links, unclean>>
  /\ UNCHANGED bridges

\* The script dies of a signal it cannot handle: SIGKILL at the end of the grace period
\* of `docker stop`, or when the machine is short of memory.
Kill(h) ==
  /\ Running(h)
  /\ End(h, "stopped")
  /\ unclean' = [unclean EXCEPT ![h] = TRUE]
  /\ UNCHANGED machine

\* `compose.sh down` removes the Docker networks of the machine once its containers
\* have ended.
Down(h) ==
  /\ ~Running(h)
  /\ bridges[h] # {}
  /\ bridges' = [bridges EXCEPT ![h] = {}]
  /\ UNCHANGED <<pc, script, cleanups, trapped, stopping, links, unclean>>

Script(h) == FindSelf(h) \/ Bridged(h) \/ TryPeer(h) \/ AddLink(h) \/ SetHealthy(h)

Next ==
  \E h \in Machines :
    \/ Up(h)
    \/ \E n \in Nets : NetUp(h, n)
    \/ Script(h)
    \/ Stop(h)
    \/ Kill(h)
    \/ Down(h)

Spec == Init /\ [][Next]_vars
-----------------------------------------------------------------------------
LinkType == [name : Nets \X (Nat \ {0}) \X (Nat \ {0}), vni : Nat,
             local : Addrs, remote : Addrs]

TypeOK ==
  /\ pc \in [Machines -> {"stopped", "failed", "ipset", "wait", "tunnel", "add", "idle"}]
  /\ flag \in [Machines -> 1 .. Len(Flags) + 1]
  /\ set \in [Machines -> Nat \ {0}]
  /\ \A h \in Machines :
       flag[h] <= Len(Flags) => set[h] <= Len(Flags[flag[h]].ipsets)
  /\ self \in [Machines -> Nat \ {0}]
  /\ peer \in [Machines -> Nat \ {0}]
  /\ cleanups \in [Machines -> SUBSET (Nets \X (Nat \ {0}) \X (Nat \ {0}))]
  /\ trapped \in [Machines -> BOOLEAN]
  /\ stopping \in [Machines -> BOOLEAN]
  /\ links \in [Machines -> SUBSET LinkType]
  /\ bridges \in [Machines -> SUBSET Nets]
  /\ unclean \in [Machines -> BOOLEAN]

\* The script of the machine has gone beyond an IP set, and nobody has told it to stop.
Beyond(h, i, k) ==
  /\ Running(h) /\ ~stopping[h]
  /\ flag[h] > i \/ (flag[h] = i /\ set[h] > k)

\* Links with the same VNI on two machines are the two ends of one tunnel: no frame
\* of one network or IP set ever comes out on another, not even out of links that a
\* killed script has left behind.
EndsMeet ==
  \A a, b \in Machines :
    a # b => \A l \in links[a], m \in links[b] :
      l.vni = m.vni => /\ l.local = m.remote
                       /\ l.remote = m.local
                       /\ l.name[1] = m.name[1]

\* "The first IP address in each IP set has a tunnel to each subsequent IP address"
\* (docs/multi-host.md): from the moment that the scripts of both machines are beyond
\* the IP set, each has a link to the other and both carry the same VNI.
StarComplete ==
  \A i \in DOMAIN Flags : \A k \in DOMAIN Flags[i].ipsets :
    \A p \in 2 .. Len(Ipset(i, k)) :
      LET hub  == MachineOf[Ipset(i, k)[1]]
          leaf == MachineOf[Ipset(i, k)[p]]
      IN hub # leaf /\ Beyond(hub, i, k) /\ Beyond(leaf, i, k) =>
           \E l \in links[hub], m \in links[leaf] :
             /\ l.remote = Ipset(i, k)[p]
             /\ m.remote = Ipset(i, k)[1]
             /\ l.vni = m.vni
             /\ l.name[1] = Flags[i].net

\* The tunnels of a network never close a loop, which would circulate broadcasts
\* forever: every set of tunnels between two machines has a machine on one of them only.
Tunnels(n) ==
  UNION {{[vni |-> l.vni, ends |-> {MachineOf[l.local], MachineOf[l.remote]}] :
            l \in {m \in links[h] : m.name[1] = n}} : h \in Machines}

LoopFree ==
  \A n \in Nets : \A T \in SUBSET Tunnels(n) :
    T # {} => \E h \in Machines : Cardinality({t \in T : h \in t.ends}) = 1

\* The kernel never refuses a link, so that the script never fails, whatever links an
\* earlier run left on the machine.
NeverRefused == \A h \in Machines : pc[h] # "failed"

\* The tunnels of a star can be set up in any order and again after a script was killed, and what comes of it is a tree.
StarIsTree == LoopFree /\ NeverRefused

\* A machine whose script was stopped by a signal it could handle, after a complete
\* run, has none of the script's links left, even those of earlier killed runs.
NoLeak == \A h \in Machines : ~Running(h) /\ ~unclean[h] => links[h] = {}
=============================================================================
