----------------------------- MODULE Generator -----------------------------
(***************************************************************************)
(* netdef-compose (netdef-compose/main.ts): the scenario generator runs    *)
(* the builders of the chosen providers and the stages that go over the    *)
(* whole Compose file, then saves it; its containers are started.          *)
(***************************************************************************)
EXTENDS Ran

CONSTANT Refused   \* those among Inputs that a provider does not support

\* types/netdef.ts after defaults have been filled in; the kind of a network function is what
\* nameToNf() makes of its name.
IsList(q)      == q \in Seq(SeqToSet(q))
OfKind(q, nf)  == IsList(q) /\ \A ct \in SeqToSet(q) : nameToNf(ct) = nf

IsSubscriber(sub) ==
  /\ sub \in [supi : Nat, count : Nat \ {0}, key : Nat,
              gnbs : {sub.gnbs}, nssai : {sub.nssai}, request : {sub.request}]
  /\ IsList(sub.gnbs) /\ IsList(sub.request) /\ IsList(sub.nssai)
  /\ \A i \in DOMAIN sub.nssai : IsList(sub.nssai[i].dnns)

ASSUME NetworkAssumption ==
  \A a \in Inputs :
    /\ OfKind(a.net.gnbs, "gnb") /\ OfKind(a.net.upfs, "upf")
    /\ IsList(a.net.amfs) /\ \A amf \in SeqToSet(a.net.amfs) : nameToNf(amf.name) = "amf"
    /\ IsList(a.net.smfs) /\ \A smf \in SeqToSet(a.net.smfs) : nameToNf(smf.name) = "smf"
    /\ IsList(a.net.dns)
    /\ IsList(a.net.subs) /\ \A sub \in SeqToSet(a.net.subs) : IsSubscriber(sub)

\* Every option has one of its choices.
ASSUME OptionsAssumption ==
  \A a \in Inputs :
    /\ a.cp \in {"free5gc", "open5gs", "phoenix", "oai"}
    /\ \A upf \in SeqToSet(a.net.upfs) :
         a.up[upf] \in {"free5gc", "open5gs", "phoenix", "oai", "oai-vpp", "eupf", "bess", "ndndpdk"}
    /\ a.ran \in {"ueransim", "packetrusher", "srsran", "gnbsim", "oai", "phoenix", "none"}
    /\ a.singleDn \in {"first", "last", "rotate"}
    /\ IsList(a.bridge)
    /\ {a.ueransimSingle, a.prushMulti, a.prushTunnel, a.oaiNrf, a.oaiPcf, a.oaiNwdaf, a.phoenixPcf,
        a.usrp, a.srsSdr, a.activate, a.prometheus, a.cpufreq} \subseteq BOOLEAN

Bridge     == Ct("bridge")
Prometheus == Ct("prometheus")
Grafana    == Ct("grafana")
Exporter   == Ct("processexporter")
-----------------------------------------------------------------------------
\* generateScript() and listRules(): the rules of every container that runs the script.
RulesOf(ct) == {rule \in args.qos : rule.src = nameToNf(ct)}

SaveQoS ==
  Build(<<"saveQoS">>,
    [Nothing EXCEPT
       !.ok = \A ct \in qos : \A rule \in RulesOf(ct) :
                /\ <<ct, rule.net>> \in ip
                /\ rule.dst = "*" => rule.net \in Defined(networks),
       !.scan = UNION {{<<ct, rule.dst, rule.net>> : rule \in {r \in RulesOf(ct) : r.dst # "*"}} :
                         ct \in qos}])

\* PromBuilder.build(): Prometheus is on the networks of the containers that it scrapes.
BuildPrometheus ==
  Build(<<"buildPrometheus">>,
    [Nothing EXCEPT
       !.options = {<<"meas", "NAT">>},
       !.define = <<<<Exporter, {"meas"}>>,
                    <<Prometheus, {"meas"} \cup (IF metrics = {} THEN {} ELSE {"mgmt"})>>,
                    <<Grafana, {"meas"}>>>>,
       !.tell = Of(Prometheus, metrics, "mgmt") \cup Of(Grafana, {Prometheus}, "meas"),
       !.defer = <<<<"promFinish">>>>])

\* PromBuilder.finish(): process exporters are on the hosts that containers are placed on.
PromFinish ==
  Build(<<"promFinish">>,
    [Nothing EXCEPT !.tell = Of(Prometheus, {Exporter}, "meas"),
                    !.look = {<<"place", Exporter, "">>}])

\* BridgeModeEth.build() of a --bridge flag: parsePorts() and buildPort().
DefineBridge ==
  \E i \in DOMAIN args.bridge :
    LET flag    == args.bridge[i]
        matched == {ct \in ByNf(flag.nf) : <<ct, flag.net>> \in netifs}
    IN Build(<<"defineBridge", i>>,
         [Nothing EXCEPT
            !.ok = /\ flag.net \in Defined(networks)
                   /\ flag.op = "~" => Cardinality(matched) = 1,
            !.define = <<<<Bridge, {}>>>>,
            !.ports = {<<flag.op, <<ct, flag.net>>>> : ct \in matched}])

MakeCpufreqService == Build(<<"cpufreq">>, [Nothing EXCEPT !.define = <<<<Ct("cpufreq"), {}>>>>])

PlaceAll == Build(<<"place">>, [Nothing EXCEPT !.place = TRUE])

\* finalSave(): what was deferred, in order; then the Compose file is as it is.
FinalSave ==
  /\ todo = <<<<"finalSave">>>>
  /\ todo' = finalize
  /\ UNCHANGED <<args, compose, finalize, files, failed, running>>
-----------------------------------------------------------------------------
\* Steps of a provider.
UpSteps(upf) ==
  CASE args.up[upf] = "free5gc" -> <<<<"f5UP", upf>>>>
    [] args.up[upf] = "open5gs" -> <<<<"o5UP", upf>>>>
    [] args.up[upf] = "phoenix" -> <<<<"phBuilder">>, <<"phUPF", upf>>>>
    [] args.up[upf] = "oai"     -> <<<<"oaiUP", upf>>>>
    [] args.up[upf] = "oai-vpp" -> <<<<"oaiUPvpp", upf>>>>
    [] args.up[upf] = "eupf"    -> <<<<"eUPF", upf>>>>
    [] args.up[upf] = "bess"    -> <<<<"bessUP", upf>>>>
    [] args.up[upf] = "ndndpdk" -> <<<<"ndndpdkUP", upf>>>>

CpSteps ==
  CASE args.cp = "free5gc" -> Free5gcSteps
    [] args.cp = "open5gs" -> Open5gsSteps
    [] args.cp = "phoenix" -> PhoenixSteps
    [] args.cp = "oai"     -> OaiSteps

RanSteps ==
  CASE args.ran = "ueransim"     -> UeransimSteps
    [] args.ran = "packetrusher" -> PrushSteps
    [] args.ran = "srsran"       -> SrsSteps
    [] args.ran = "gnbsim"       -> GnbSteps("gnbsimRAN")
    [] args.ran = "oai"          -> OaiRanSteps
    [] args.ran = "phoenix"      -> <<<<"phBuilder">>>> \o GnbSteps("phGNB") \o UeSteps("phUE", TRUE)
    [] args.ran = "none"         -> <<>>

BeforeRan ==
  <<<<"dn">>>> \o FlattenSeq([i \in DOMAIN net.upfs |-> UpSteps(net.upfs[i])]) \o <<<<"setDN">>>> \o CpSteps

AfterQoS ==
  (IF args.prometheus THEN <<<<"buildPrometheus">>>> ELSE <<>>)
  \o [i \in DOMAIN args.bridge |-> <<"defineBridge", i>>]
  \o (IF args.cpufreq THEN <<<<"cpufreq">>>> ELSE <<>>)
  \o <<<<"place">>, <<"finalSave">>>>

\* The QoS script is written before the simulators are there.
Steps_QoSFirst == BeforeRan \o <<<<"saveQoS">>>> \o RanSteps \o AfterQoS

Steps == BeforeRan \o RanSteps \o <<<<"saveQoS">>>> \o AfterQoS

GenInit ==
  /\ args \in Inputs
  /\ todo = Steps
  /\ networks = {} /\ services = <<>> /\ netifs = {} /\ ip = {} /\ mac = {}
  /\ assumed = {} /\ placed = FALSE /\ finalize = <<>> /\ told = {} /\ asked = {} /\ late = {}
  /\ qos = {} /\ metrics = {} /\ drawn = 0 /\ provisioned = {} /\ simulated = {} /\ waits = {}
  /\ failed = <<>>
  /\ running = {}
-----------------------------------------------------------------------------
\* The files are written and the containers started.
Done == todo = <<>> /\ failed = <<>>

\* A command of a start-up script succeeds.
Reached(w) ==
  CASE w[2] = "ping"  -> <<w[3], w[4]>> \in ip
    [] w[2] = "port"  -> <<w[3], w[4]>> \in ip /\ w[3] \in running
    [] w[2] = "local" -> w[3] \in running

Ready ==
  {ct \in SeqToSet(services) \ running : \A w \in waits : w[1] = ct => Reached(w)}

\* All that can launch do: none keeps another from it, so that their order is immaterial.
StartReady ==
  /\ Done
  /\ Ready # {}
  /\ running' = running \cup Ready
  /\ UNCHANGED buildVars

GenNext ==
  \/ DefineDNServices \/ OtherUP \/ SetDNCommands \/ Free5gc \/ Open5gs \/ Oai \/ Phoenix \/ RAN
  \/ SaveQoS \/ BuildPrometheus \/ PromFinish \/ DefineBridge \/ MakeCpufreqService \/ PlaceAll
  \/ FinalSave \/ StartReady

GenSpec == GenInit /\ [][GenNext]_genVars /\ WF_genVars(GenNext)
-----------------------------------------------------------------------------
(* Properties                                                                  *)

\* The type of the generator's state: what connects is defined, what is deferred exists.
GenTypeOK ==
  /\ args \in Inputs
  /\ IsInjective(services)
  /\ netifs \subseteq ip
  /\ \A n \in ip : n[1] \in SeqToSet(services) /\ n[2] \in Defined(networks)
  /\ mac \cup assumed \subseteq ip \ netifs
  /\ placed \in BOOLEAN
  /\ drawn \in Nat
  /\ qos \cup metrics \cup running \subseteq SeqToSet(services)
  /\ told \subseteq {<<c, n[1], n[2]>> : c \in SeqToSet(services), n \in ip}

\* Whoever is told the address of a peer that it talks to itself (tell) has a netif on the
\* network of that address: no builder wires a container to a network that it left out of
\* its own.  Addresses that a configuration mentions for the use of others, or as labels
\* (cite), are not among them; that those exist is asserted when they are looked up.
Wired == \A t \in told : <<t[1], t[3]>> \in ip

\* What a script took for granted is still so when everything is saved: the MAC address
\* of a peer that defineBridge may replace, the cores that place() assigns, and whether an
\* interface is to be waited for (getIPMAC(), ctx.finalize).
LateFresh == Done => \A l \in late : l.value = ValueOf(l.what)

\* Everybody is counted in the end: lists of AMFs, SMFs, UPFs and gNBs that a container got
\* earlier name all there are, every container that runs the QoS script has its rules in
\* it with all their destinations, and Prometheus knows of all that can be scraped.
NobodyOverlooked ==
  Done =>
    /\ \A a \in asked : a.got = {ct \in ByNf(a.nf) : <<ct, a.on>> \in ip}
    /\ \A ct \in qos : \A rule \in RulesOf(ct) :
         rule.dst # "*" => \E a \in asked : a.by = ct /\ a.nf = rule.dst /\ a.on = rule.net
    /\ args.prometheus => \A ct \in metrics : <<Prometheus, ct, "mgmt">> \in told

\* A simulated UE authenticates and gets its session: the control plane has its SUPI with
\* the same keys, those drawn at random included, and the Data Network subscribed.
Provisioned == Done => simulated \subseteq provisioned

\* The generator gets through, and every container launches its network function: there is
\* no circle among those that wait for each other, and none waits for what never comes.
\* Only what a provider does not support ends with an error, and always does.
AllLaunch ==
  <>(IF args \in Refused THEN failed # <<>> ELSE Done /\ SeqToSet(services) \subseteq running)
-----------------------------------------------------------------------------
(* What the options are to be for some of these properties.                    *)

\* docs/multi-host.md: the operator ~ is only usable in NDN-DPDK UPF.  What matters is that the
\* script of the UPF is written in the end.
LatePorts ==
  \A a \in Inputs : \A i \in DOMAIN a.bridge :
    a.bridge[i].op = "~" =>
      /\ a.bridge[i].nf = "upf"
      /\ \A upf \in SeqToSet(a.net.upfs) : a.up[upf] \in {"oai-vpp", "eupf", "bess", "ndndpdk"}

\* QoS rules are not about containers of the Prometheus stack.
QosAmongFunctions ==
  \A a \in Inputs : \A rule \in a.qos : rule.dst \notin {"processexporter", "prometheus", "grafana"}

\* UEs request what they are subscribed to; where one container stands for all gNBs, the UEs are
\* subscribed to the same.
Requests ==
  \A a \in Inputs :
    /\ \A sub \in SeqToSet(a.net.subs) : SeqToSet(sub.request) \subseteq SeqToSet(SubscribedDN(sub))
    /\ a.ran = "packetrusher" /\ a.prushMulti =>
         \A s, t \in SeqToSet(a.net.subs) :
           SeqToSet(SubscribedDN(s)) = SeqToSet(SubscribedDN(t))
=============================================================================
