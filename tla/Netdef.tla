------------------------------- MODULE Netdef -------------------------------
(***************************************************************************)
(* The network definition and what every builder asks of it                *)
(* (netdef/helpers.ts).  A network function is named by a pair of its      *)
(* kind, which nameToNf() gets from the container name, and the rest of    *)
(* the name; a Data Network is <<"dn", S-NSSAI, DNN>>.                     *)
(***************************************************************************)
EXTENDS Integers, Sequences, SequencesExt, FiniteSets, FiniteSetsExt

SeqToSet(q) == {q[i] : i \in DOMAIN q}

nameToNf(ct) == ct[1]

IsDN(node) == Len(node) = 3
Snssai(dn) == dn[2]
DnCt(dn)   == <<"dn", dn[3]>>

\* listNssai()
Nssai(net) == {Snssai(d.id) : d \in SeqToSet(net.dns)}

\* listAmfs() and listSmfs(): one with a plain name if the network definition names none.
Listed(fns, nf, net) ==
  IF fns = <<>> THEN <<[name |-> <<nf, "">>, nssai |-> Nssai(net)]>> ELSE fns

Amfs(net) == Listed(net.amfs, "amf", net)
Smfs(net) == Listed(net.smfs, "smf", net)

\* findDN(); the assertion is in the guards of those who call it.
FindDN(net, dn) == CHOOSE d \in SeqToSet(net.dns) : d.id = dn

HasDN(net, dn) == \E d \in SeqToSet(net.dns) : d.id = dn
-----------------------------------------------------------------------------
\* listDataPathPeers(): data paths have no direction.
Peers(net, node) ==
  {p.b : p \in {q \in net.paths : q.a = node}} \cup {p.a : p \in {q \in net.paths : q.b = node}}

\* listDataPathPeers.ofGnbs(), for control planes that know of one access network only.
SameN3(net) ==
  /\ net.gnbs # <<>>
  /\ \A g, h \in SeqToSet(net.gnbs) : Peers(net, g) = Peers(net, h)

\* gatherUPFPeers(): N3 and N9 by who the peer is, N6 by the type of the Data Network.
N3Peers(net, upf)       == Peers(net, upf) \cap SeqToSet(net.gnbs)
N9Peers(net, upf)       == Peers(net, upf) \cap SeqToSet(net.upfs)
N6Peers(net, upf, type) ==
  {dn \in Peers(net, upf) : IsDN(dn) /\ HasDN(net, dn) /\ FindDN(net, dn).type = type}

\* gatherUPFPeers() finds every peer.
PeersExist(net, upf) ==
  \A p \in Peers(net, upf) :
    IF IsDN(p) THEN HasDN(net, p) ELSE p \in SeqToSet(net.gnbs) \cup SeqToSet(net.upfs)

\* listUpfs(): the networks that a UPF has peers on.
UpfNets(net, upf) ==
  {"n4"} \cup (IF \E p \in Peers(net, upf) : IsDN(p) THEN {"n6"} ELSE {})
         \cup (IF N3Peers(net, upf) # {} THEN {"n3"} ELSE {})
         \cup (IF N9Peers(net, upf) # {} THEN {"n9"} ELSE {})
=============================================================================
