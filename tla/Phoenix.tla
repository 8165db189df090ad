------------------------------ MODULE Phoenix ------------------------------
(***************************************************************************)
(* Open5GCore: control plane, user plane and RAN simulators (phoenix/).    *)
(* The templates of its network functions are outside the repository; all  *)
(* of them are taken to have a monitoring module.                          *)
(***************************************************************************)
EXTENDS Oai

\* The constructor of PhoenixScenarioBuilder asks for options of three networks.
PhBuilder ==
  Build(<<"phBuilder">>,
    [Nothing EXCEPT !.options = {<<"mgmt", "NAT">>, <<"air", "MTU 1470">>, <<"n6", "MTU 1456">>}])

\* defineService() and finish(), then makeDatabase() of those that have one.
PhService(ct, nets) ==
  [Nothing EXCEPT !.define = <<<<ct, {"mgmt"} \cup nets>>>>,
     !.tell = Own(ct, {"mgmt"}),
     !.awaits = {ct},
     !.metrics = {ct}]

PhWithDatabase(ct, nets) ==
  [PhService(ct, {"db"} \cup nets) EXCEPT !.tell = @ \cup Of(ct, {Sql}, "db"),
                                          !.wait = {<<ct, "port", Sql, "db">>}]

PhSQL == Build(<<"phSQL">>, Database(Sql))
PhNRF == Build(<<"phNRF">>, PhService(Nrf, {"cp"}))

\* buildUDM() and makeUDMDatabase()
PhUDM ==
  Build(<<"phUDM">>,
    [PhWithDatabase(Ct("udm"), {"cp"}) EXCEPT
       !.lists = TRUE, !.ok = KnownDNs, !.store = AllSubscribed])

PhAUSF == Build(<<"phAUSF">>, PhService(Ct("ausf"), {"cp"}))

\* buildNSSF(): only if AMFs differ in their slices.
AmfsDiffer == Cardinality({amf.nssai : amf \in SeqToSet(Amfs(net))}) > 1

PhNSSF ==
  Build(<<"phNSSF">>, IF AmfsDiffer THEN PhWithDatabase(Ct("nssf"), {"cp"}) ELSE Nothing)

PhAMF ==
  \E amf \in SeqToSet(Amfs(net)) : Build(<<"phAMF", amf.name>>, PhService(amf.name, {"cp", "n2"}))

\* The data paths in the topology of an SMF: not those to a Data Network that it does not
\* serve, or that has no N6.
IsServed(smf, node) == IsDN(node) => Snssai(node) \in smf.nssai /\ FindDN(net, node).type = "IPv4"

Topology(smf) == {p \in net.paths : IsServed(smf, p.a) /\ IsServed(smf, p.b)}

\* The network that a UPF has its end of a data path on.
NetToward(peer) ==
  CASE IsDN(peer) -> "n6" [] peer \in SeqToSet(net.gnbs) -> "n3" [] peer \in SeqToSet(net.upfs) -> "n9"

\* makeDataPathTopoNode(): both ends of a path, as <<node, peer>>.
Ends(smf) == UNION {{<<p.a, p.b>>, <<p.b, p.a>>} : p \in Topology(smf)}

\* buildSMF(): it does not start before it has reached every UPF.
PhSMF ==
  \E smf \in SeqToSet(Smfs(net)) :
    Build(<<"phSMF", smf.name>>,
      LET upfs  == SeqToSet(net.upfs)
          atUpf == {x \in Ends(smf) : x[1] \in upfs}
      IN [PhWithDatabase(smf.name, {"cp", "n4"}) EXCEPT
            !.ok = /\ \A x \in Ends(smf) : x[1] \notin upfs => x[2] \in upfs
                   /\ Len(Smfs(net)) <= 250,
            !.cite = UNION {{<<x[1], "n4">>, <<x[1], NetToward(x[2])>>} : x \in atUpf},
            !.list = {<<smf.name, "upf", "n4">>},
            !.wait = @ \cup {<<smf.name, "ping", upf, "n4">> : upf \in ByNf("upf")}])

PhPCF ==
  Build(<<"phPCF">>, [PhService(Ct("pcf"), {"cp"}) EXCEPT
                        !.tell = @ \cup Of(Ct("pcf"), {Smfs(net)[1].name}, "cp")])

\* build() of PhoenixCPBuilder
PhoenixSteps ==
  <<<<"phBuilder">>, <<"phSQL">>, <<"phNRF">>, <<"phUDM">>, <<"phAUSF">>, <<"phNSSF">>>>
  \o Each("phAMF", Amfs(net)) \o Each("phSMF", Smfs(net))
  \o (IF args.phoenixPcf THEN <<<<"phPCF">>>> ELSE <<>>)
-----------------------------------------------------------------------------
\* buildUPF(): XDP or not, it binds to the networks of the peers that it has.
PhUPF ==
  UPF("phUPF", LAMBDA upf :
    [PhService(upf, UpfNets(net, upf)) EXCEPT
       !.ok = /\ Cardinality(N6Peers(net, upf, "Ethernet")) <= 1
              /\ N6Peers(net, upf, "IPv6") = {},
       !.tell = @ \cup DnRoutes(upf),
       !.qos = {upf}])
-----------------------------------------------------------------------------
\* Steps that go through gNBs and UEs.
GnbSteps(step)        == [i \in DOMAIN net.gnbs |-> <<step, net.gnbs[i]>>]
UeSteps(step, expand) == [i \in DOMAIN Subscribers(expand) |-> <<step, i>>]

\* Slices of those who may use a gNB.
GnbSlices(gnb) ==
  UNION {{sub.nssai[i].snssai : i \in DOMAIN sub.nssai} :
           sub \in {s \in SeqToSet(net.subs) : gnb \in SeqToSet(s.gnbs)}}

PhGNB ==
  \E gnb \in SeqToSet(net.gnbs) :
    Build(<<"phGNB", gnb>>,
      [PhService(gnb, {"air", "n2", "n3"}) EXCEPT
         !.ok = Cardinality(GnbSlices(gnb)) <= 2,
         !.lists = TRUE,
         !.list = {<<gnb, "amf", "n2">>},
         !.qos = {gnb}])

PhUE ==
  \E i \in DOMAIN Subscribers(TRUE) :
    LET sub == Subscribers(TRUE)[i]
        ue  == UeName(sub)
        dns == SeqToSet(RequestedDN(sub))
    IN Build(<<"phUE", i>>,
         [PhService(ue, {"air"}) EXCEPT
            !.ok = /\ \A dn \in dns : HasDN(net, dn) /\ FindDN(net, dn).type # "IPv6"
                   /\ SeqToSet(sub.gnbs) \subseteq SeqToSet(net.gnbs),
            !.tell = @ \cup Of(ue, SeqToSet(sub.gnbs), "air"),
            !.lists = TRUE,
            !.simulate = Uses(sub, dns)])

Phoenix ==
  \/ PhBuilder \/ PhSQL \/ PhNRF \/ PhUDM \/ PhAUSF \/ PhNSSF \/ PhAMF \/ PhSMF \/ PhPCF
  \/ PhUPF \/ PhGNB \/ PhUE
=============================================================================
