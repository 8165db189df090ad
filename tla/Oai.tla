-------------------------------- MODULE Oai --------------------------------
(***************************************************************************)
(* The control plane of OAI-CN5G and its two user planes (oai/).           *)
(***************************************************************************)
EXTENDS UserPlane

Sql == Ct("sql")

\* CN5GBuilder.defineService(): the networks of the template and, for the control plane,
\* the database.
OaiService(ct, nets) == [Nothing EXCEPT !.define = <<<<ct, nets>>>>, !.tell = Own(ct, {"cp"})]

\* Network functions in the templates that oai-cn5g-fed comes with.
OaiTemplate == [amf |-> {"cp", "n2"}, smf |-> {"cp", "n4"}, udm |-> {"cp"}, udr |-> {"cp"},
                ausf |-> {"cp"}, nrf |-> {"cp"}, pcf |-> {"cp"}]
OaiUpfNets == {"cp", "n3", "n4", "n6"}

\* loadConfig() and build() take the NRF and the PCF out of the template.
OaiNfs == DOMAIN OaiTemplate \ ((IF args.oaiNrf THEN {} ELSE {"nrf"})
                                \cup (IF args.oaiPcf THEN {} ELSE {"pcf"}))

\* buildSQL() and populateSQL()
OaiSQL ==
  Build(<<"oaiSQL">>,
    [Database(Sql) EXCEPT !.lists = TRUE, !.ok = KnownDNs, !.store = AllSubscribed])

OaiNF ==
  \E nf \in DOMAIN OaiTemplate :
    Build(<<"oaiNF", nf>>, OaiService(Ct(nf), OaiTemplate[nf] \cup {"db"}))

\* updateConfigAMF()
OaiConfigAMF == Build(<<"oaiConfigAMF">>, [Nothing EXCEPT !.ok = Len(Amfs(net)) = 1])

\* updateConfigSMF(): without an NRF to tell it, the SMF has the N3 addresses as well.
OaiConfigSMF ==
  Build(<<"oaiConfigSMF">>,
    [Nothing EXCEPT !.ok = Len(Smfs(net)) = 1 /\ UpfsKnown, !.tell = UpfsFor(Ct("smf"))])

\* buildPCF(): a policy for every Data Network there is a path to; no gNB differs.
OaiPCF == Build(<<"oaiPCF">>, [Nothing EXCEPT !.ok = SameN3(net)])

\* NWDAFBuilder.build(), buildMicroservice() and buildCLI()
NwdafDb == <<"nwdaf", "database">>
Nwdaf   == <<"sbi", "engine", "engineads", "nbianalytics", "nbievents", "nbiml", "nbigateway">>

NwdafNets(ms) == {"nwdaf"} \cup (IF ms = "sbi" THEN {"cp"} ELSE {})
                           \cup (IF ms \in {"sbi", "engine"} THEN {"nwdafdb"} ELSE {})

OaiNWDAF ==
  LET sbi == <<"nwdaf", "sbi">>
      cli == <<"nwdaf", "cli">>
  IN Build(<<"oaiNWDAF">>,
       [Nothing EXCEPT
          !.define = <<<<NwdafDb, {"nwdafdb"}>>>>
                     \o [i \in DOMAIN Nwdaf |-> <<<<"nwdaf", Nwdaf[i]>>, NwdafNets(Nwdaf[i])>>]
                     \o <<<<cli, {"nwdaf"}>>>>,
          !.tell = {<<sbi, FirstOf(nf), "cp">> : nf \in {"amf", "smf"}}
                   \cup Of(cli, {<<"nwdaf", "nbigateway">>}, "nwdaf"),
          !.wait = {<<sbi, "port", FirstOf(nf), "cp">> : nf \in {"amf", "smf"}}])

\* UPBuilder.build(), which defers updateConfigUPF()
OaiUP ==
  UPF("oaiUP", LAMBDA upf :
    [OaiService(upf, OaiUpfNets) EXCEPT
       !.ok = N9Peers(net, upf) = {},
       !.tell = @ \cup DnRoutes(upf),
       !.awaits = {upf},
       !.defer = <<<<"oaiConfigUPF", upf>>>>])

OaiConfigUPF ==
  UPF("oaiConfigUPF", LAMBDA upf :
    [Nothing EXCEPT
       !.tell = (IF args.oaiNrf THEN Of(upf, {Nrf}, "cp") ELSE {})
                \cup (IF ByNf("smf") = {} THEN {} ELSE {<<upf, FirstOf("smf"), "cp">>})
                \cup DnRoutes(upf),
       !.list = {<<upf, "smf", "n4">>}])

\* oaiUPvpp() and VppEnv; the script is deferred for the sake of the cpuset.
OaiUPvpp ==
  UPF("oaiUPvpp", LAMBDA upf :
    [Nothing EXCEPT !.define = <<<<upf, {"cp"} \cup UpfNets(net, upf)>>>>,
       !.ok = /\ \A type \in {"Ethernet", "IPv6"} : N6Peers(net, upf, type) = {}
              /\ Cardinality(N6Peers(net, upf, "IPv4")) <= 1,
       !.tell = Own(upf, UpfNets(net, upf)),
       !.defer = <<<<"oaiVppCommands", upf>>>>])

OaiVppCommands ==
  UPF("oaiVppCommands", LAMBDA upf :
    [Nothing EXCEPT !.look = {<<"place", upf, "">>},
       !.awaits = {upf},
       !.tell = IF args.oaiNrf THEN Of(upf, {Nrf}, "cp") ELSE {}])

Oai ==
  \/ OaiSQL \/ OaiNF \/ OaiConfigAMF \/ OaiConfigSMF \/ OaiPCF \/ OaiNWDAF \/ OaiUP
  \/ OaiConfigUPF \/ OaiUPvpp \/ OaiVppCommands

\* oaiCP() and CPBuilder.build()
OaiSteps ==
  LET nfs == Kept(<<"amf", "smf", "udm", "udr", "ausf", "nrf", "pcf">>, OaiNfs)
  IN <<<<"oaiSQL">>>> \o [i \in DOMAIN nfs |-> <<"oaiNF", nfs[i]>>]
     \o <<<<"oaiConfigAMF">>, <<"oaiConfigSMF">>>>
     \o (IF args.oaiPcf THEN <<<<"oaiPCF">>>> ELSE <<>>)
     \o (IF args.oaiNwdaf THEN <<<<"oaiNWDAF">>>> ELSE <<>>)
=============================================================================
