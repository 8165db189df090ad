---------------------------- MODULE MCGenerator ----------------------------
\* Every provider with every other on a small network, and each special case once.
EXTENDS Generator

gnb0 == <<"gnb", "0">>
gnb1 == <<"gnb", "1">>
upf1 == <<"upf", "1">>
upf4 == <<"upf", "4">>
internet == <<"dn", "01", "internet">>
vcam     == <<"dn", "02", "vcam">>
vctl     == <<"dn", "02", "vctl">>

Path(a, b)    == [a |-> a, b |-> b]
DN(id, type)  == [id |-> id, type |-> type]
Fn(nf, nssai) == [name |-> nf, nssai |-> nssai]
Slices(s, t)  == <<[snssai |-> "01", dnns |-> s], [snssai |-> "02", dnns |-> t]>>
Sub(supi, count, key, gnbs, nssai) ==
  [supi |-> supi, count |-> count, key |-> key, gnbs |-> gnbs, nssai |-> nssai, request |-> <<>>]

\* One of everything.
Simple ==
  [gnbs |-> <<gnb0>>, amfs |-> <<>>, smfs |-> <<>>, upfs |-> <<upf1>>,
   dns |-> <<DN(internet, "IPv4")>>,
   paths |-> {Path(gnb0, upf1), Path(upf1, internet)},
   subs |-> <<Sub(1000, 1, 0, <<gnb0>>, <<[snssai |-> "01", dnns |-> <<"internet">>]>>)>>]

\* Two of everything: slices of their own for AMFs and SMFs, a path over N9, a slice with
\* two Data Networks, UEs that differ in what they ask for.
Slice01 == Sub(1000, 1, 0, <<gnb0>>, Slices(<<"internet">>, <<"vcam", "vctl">>))
Slice02 == [Sub(1001, 1, 0, <<gnb1>>, Slices(<<"internet">>, <<"vcam", "vctl">>)) EXCEPT
              !.request = <<vctl, vcam>>]

Double ==
  [gnbs |-> <<gnb0, gnb1>>,
   amfs |-> <<Fn(<<"amf", "0">>, {"01"}), Fn(<<"amf", "1">>, {"02"})>>,
   smfs |-> <<Fn(<<"smf", "0">>, {"01"}), Fn(<<"smf", "1">>, {"02"})>>,
   upfs |-> <<upf1, upf4>>,
   dns |-> <<DN(internet, "IPv4"), DN(vcam, "IPv4"), DN(vctl, "IPv4")>>,
   paths |-> {Path(gnb0, upf1), Path(gnb1, upf1), Path(upf1, upf4), Path(internet, upf1),
              Path(upf4, vcam), Path(upf4, vctl)},
   subs |-> <<Slice01, Slice02>>]

\* Entries that stand for several UEs, with and without keys of their own, on any gNB.
Many == [Double EXCEPT
  !.amfs = <<>>, !.smfs = <<>>,
  !.paths = {Path(g, u) : g \in {gnb0, gnb1}, u \in {upf1, upf4}}
            \cup {Path(internet, upf1), Path(upf4, vcam), Path(upf4, vctl)},
  !.subs = <<Sub(1000, 2, 0, <<gnb0, gnb1>>, Slices(<<"internet">>, <<"vcam", "vctl">>)),
             Sub(2000, 2, 7, <<gnb1>>, Slices(<<"internet">>, <<"vcam">>))>>]

\* ... and one that is an Ethernet.
Ethernet == [Simple EXCEPT !.dns = @ \o <<DN(vcam, "Ethernet")>>,
                           !.paths = @ \cup {Path(upf1, vcam)}]

\* Two UEs of one gNB.
Several == [Simple EXCEPT !.subs = <<[@[1] EXCEPT !.count = 2]>>]

With(n, cp, up, ran) ==
  [net |-> n, cp |-> cp, up |-> [upf \in SeqToSet(n.upfs) |-> up], ran |-> ran,
   singleDn |-> "first", ueransimSingle |-> FALSE, prushMulti |-> FALSE, prushTunnel |-> TRUE,
   oaiNrf |-> TRUE, oaiPcf |-> FALSE, oaiNwdaf |-> FALSE, phoenixPcf |-> FALSE, usrp |-> FALSE,
   srsSdr |-> FALSE, activate |-> FALSE, prometheus |-> TRUE, cpufreq |-> TRUE,
   bridge |-> <<>>, qos |-> {}]

CPs  == {"free5gc", "open5gs", "phoenix", "oai"}
UPs  == {"free5gc", "open5gs", "phoenix", "oai", "oai-vpp", "eupf", "bess", "ndndpdk"}
RANs == {"ueransim", "packetrusher", "srsran", "gnbsim", "oai", "phoenix"}

Rule(src, dst, n)  == [src |-> src, dst |-> dst, net |-> n]
Port(nf, op, n)    == [nf |-> nf, op |-> op, net |-> n]

\* All pairs of providers, with QoS rules and physical ports for gNBs and UPFs.
Pairs ==
  {[With(Simple, cp, up, ran) EXCEPT
      !.bridge = <<Port("gnb", "=", "n3"), Port("upf", "@", "n4")>>,
      !.qos = {Rule("gnb", "upf", "n3"), Rule("upf", "gnb", "n3"), Rule("upf", "*", "n3")}] :
     cp \in CPs, up \in UPs, ran \in RANs}

Doubles ==
  {[With(Double, cp, up, ran) EXCEPT !.singleDn = dn] :
     cp \in {"free5gc", "open5gs", "phoenix"}, up \in {"free5gc", "eupf", "phoenix"},
     ran \in {"ueransim", "srsran", "gnbsim", "phoenix"},
     dn \in {"first", "last", "rotate"}}

Manys ==
  {[With(Many, cp, up, ran) EXCEPT !.ueransimSingle = single] :
     cp \in CPs \ {"free5gc"}, up \in {"free5gc", "open5gs", "bess"}, ran \in {"ueransim", "oai", "phoenix"},
     single \in BOOLEAN}

Specials ==
  {[With(Simple, "oai", "oai", "oai") EXCEPT
      !.oaiNrf = nrf, !.oaiPcf = TRUE, !.oaiNwdaf = TRUE, !.usrp = usrp, !.prometheus = FALSE] :
     nrf \in BOOLEAN, usrp \in BOOLEAN}
  \cup {[With(Several, "free5gc", "free5gc", "packetrusher") EXCEPT !.prushTunnel = FALSE],
        [With([Double EXCEPT !.subs = <<Slice01, [Slice01 EXCEPT !.supi = 1001, !.gnbs = <<gnb1>>]>>],
              "open5gs", "free5gc", "packetrusher") EXCEPT !.prushMulti = TRUE],
        [With(Simple, "phoenix", "ndndpdk", "ueransim") EXCEPT
           !.activate = TRUE, !.bridge = <<Port("upf", "~", "n3"), Port("gnb", "=", "n3")>>],
        [With(Simple, "open5gs", "open5gs", "srsran") EXCEPT !.srsSdr = TRUE, !.cpufreq = FALSE],
        [With(Ethernet, "phoenix", "phoenix", "phoenix") EXCEPT !.phoenixPcf = TRUE],
        With(Simple, "free5gc", "free5gc", "none")}

\* What a provider does not support: N9 (OAI's UPF, an Open5GS UPF under Open5GCore's SMF),
\* gNBs that are connected to different UPFs, two subscribers for one gNB, no gNB to
\* look up.
Unsupported ==
  {With(Double, "open5gs", "oai", "ueransim"),
   With(Double, "phoenix", "open5gs", "ueransim"),
   With([Double EXCEPT !.paths = (@ \ {Path(gnb1, upf1)}) \cup {Path(gnb1, upf4)}],
        "free5gc", "free5gc", "ueransim"),
   With([Double EXCEPT !.subs = <<Slice01, [Slice02 EXCEPT !.gnbs = <<gnb0>>]>>],
        "free5gc", "free5gc", "packetrusher"),
   With(Simple, "free5gc", "eupf", "none")}

Scenarios == Pairs \cup Doubles \cup Manys \cup Specials \cup Unsupported

\* The options are as the proofs take for granted.
ASSUME HypothesesHold == LatePorts /\ QosAmongFunctions /\ Requests
=============================================================================
