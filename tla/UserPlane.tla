----------------------------- MODULE UserPlane -----------------------------
(***************************************************************************)
(* User plane functions, one provider after the other (free5gc/up.ts,      *)
(* open5gs/up.ts, eupf/up.ts, omec/upf.ts, ndndpdk/upf.ts).                *)
(***************************************************************************)
EXTENDS CorePlane

\* A UPF is built by its provider, after listUpfs() has found every peer of every UPF.
UPF(step, e(_)) ==
  \E upf \in SeqToSet(net.upfs) :
    Build(<<step, upf>>, [e(upf) EXCEPT !.ok = @ /\ UpfsKnown])

\* A UPF's peers on a network, as containers.
PeersOn(upf, n) ==
  CASE n = "n6" -> {DnCt(dn) : dn \in N6Peers(net, upf, "IPv4")}
    [] n = "n3" -> N3Peers(net, upf)
    [] n = "n9" -> N9Peers(net, upf)

\* Peers that the UPF is given the addresses of, and the MAC addresses among them.
AddressesOf(upf, nets) == UNION {Of(upf, PeersOn(upf, n), n) : n \in nets}
MacsOf(upf, nets)      == UNION {{<<"mac", p, n>> : p \in PeersOn(upf, n)} : n \in nets}

\* Containers that share the network namespace of a UPF and wait for it.
Helper(kind, upf) == <<kind, upf[2]>>
Helpers(kinds, upf) ==
  [Nothing EXCEPT !.define = [i \in DOMAIN kinds |-> <<Helper(kinds[i], upf), {}>>],
                  !.wait = {<<Helper(k, upf), "local", upf, "lo">> : k \in SeqToSet(kinds)}]
-----------------------------------------------------------------------------
\* f5UP(), with the loader of the kernel module that it depends on.
F5UP ==
  UPF("f5UP", LAMBDA upf :
    [Nothing EXCEPT !.define = <<<<upf, UpfNets(net, upf)>>, <<Ct("gtp5g"), {}>>>>,
       !.tell = Own(upf, {"n4"}) \cup DnRoutes(upf),
       !.awaits = {upf},
       !.qos = {upf}])

O5UP ==
  UPF("o5UP", LAMBDA upf :
    [Nothing EXCEPT !.define = <<<<upf, {"mgmt", "n4", "n6", "n3"}>>>>,
       !.tell = Own(upf, {"mgmt"}) \cup DnRoutes(upf),
       !.awaits = {upf},
       !.metrics = {upf}])

\* eUPF() writes its script at once.
EUPF_AtOnce ==
  UPF("eUPF", LAMBDA upf :
    [Nothing EXCEPT !.define = <<<<upf, {"mgmt"} \cup UpfNets(net, upf)>>>>,
       !.look = MacsOf(upf, {"n6", "n3", "n9"}),
       !.metrics = {upf}])

\* eUPF(): the script with the addresses of its peers is deferred.
EUPF ==
  UPF("eUPF", LAMBDA upf :
    [Nothing EXCEPT !.define = <<<<upf, {"mgmt"} \cup UpfNets(net, upf)>>>>,
       !.tell = Own(upf, {"mgmt"}),
       !.metrics = {upf},
       !.defer = <<<<"eUPFCommands", upf>>>>])

EUPFCommands ==
  UPF("eUPFCommands", LAMBDA upf :
    [Nothing EXCEPT
       !.tell = Own(upf, {"mgmt"} \cup (UpfNets(net, upf) \ {"n6"}))
                \cup AddressesOf(upf, {"n6", "n3", "n9"}),
       !.awaits = {upf},
       !.look = MacsOf(upf, {"n6", "n3", "n9"})])

\* bessUP(), the UPF and its three helpers.
BessUP ==
  UPF("bessUP", LAMBDA upf :
    LET h == Helpers(<<"upfpfcp", "upfgui", "upfroute">>, upf) IN
    [h EXCEPT !.define = <<<<upf, {"mgmt", "n4", "n3", "n6"}>>>> \o @,
       !.tell = Own(upf, {"mgmt"}),
       !.defer = <<<<"bessCommands", upf>>>>])

\* The UPF is told of every gNB, whether it is a peer or not.
BessCommands ==
  UPF("bessCommands", LAMBDA upf :
    [Nothing EXCEPT !.tell = DnRoutes(upf),
       !.awaits = {upf},
       !.list = {<<upf, "gnb", "n3">>},
       !.look = {<<"mac", g, "n3">> : g \in ByNf("gnb")}])

\* ndndpdkUP(): on N3 or on N9.
GtpNet(upf) == IF "n3" \in UpfNets(net, upf) THEN "n3" ELSE "n9"

\* upfsvc shares the namespace of the UPF as well and waits for nothing.
NdndpdkHelper(upf) == IF args.activate THEN Helpers(<<"upfsvc">>, upf) ELSE Nothing

NdndpdkBase(upf) ==
  [NdndpdkHelper(upf) EXCEPT
     !.wait = {},
     !.ok = /\ N6Peers(net, upf, "IPv4") # {}
            /\ ("n3" \in UpfNets(net, upf)) # ("n9" \in UpfNets(net, upf)),
     !.define = <<<<upf, {"mgmt"} \cup UpfNets(net, upf)>>>> \o @]

\* setCommands() of the UPF.
NdndpdkScript(upf) ==
  [Nothing EXCEPT
     !.tell = Own(upf, {"n4", GtpNet(upf)}) \cup {<<upf, FirstOf("smf"), "n4">>}
              \cup AddressesOf(upf, {"n6", GtpNet(upf)}),
     !.awaits = {upf},
     !.look = MacsOf(upf, {GtpNet(upf)}) \cup {<<"mac", upf, GtpNet(upf)>>}]

\* It reads the annotations of its own netifs as soon as it has them.
NdndpdkUP_AtOnce ==
  UPF("ndndpdkUP", LAMBDA upf :
    [NdndpdkBase(upf) EXCEPT !.awaits = {upf}, !.defer = <<<<"ndndpdkCommands", upf>>>>])

NdndpdkUP ==
  UPF("ndndpdkUP", LAMBDA upf :
    [NdndpdkBase(upf) EXCEPT !.defer = <<<<"ndndpdkCommands", upf>>>>])

NdndpdkCommands == UPF("ndndpdkCommands", NdndpdkScript)

OtherUP ==
  \/ F5UP \/ O5UP \/ EUPF \/ EUPFCommands \/ BessUP \/ BessCommands \/ NdndpdkUP
  \/ NdndpdkCommands
=============================================================================
