---------------------------- MODULE MCTrafficGen ----------------------------
(* A UERANSIM container with two UEs and another with one UE that uses one    *)
(* DNN in two slices; a flow group of every traffic generator.                *)
EXTENDS TrafficGen

CONSTANTS ue1, ue2, dnA, dnB, dnC

MCSubs == ue1 :> <<1, 2>> @@ ue2 :> <<3>>
MCImage == ue1 :> "ueransim" @@ ue2 :> "other"
MCDNs == {<<1, 1>>, <<1, 2>>, <<2, 1>>}
MCSubscribedDN == <<  <<<<1, 1>>, <<1, 2>>>>,  <<<<1, 1>>>>,  <<<<2, 1>>, <<1, 1>>>>  >>
MCDnService == <<1, 1>> :> dnA @@ <<1, 2>> :> dnB @@ <<2, 1>> :> dnC
MCPool == 1 .. 4

Group(tgid, dns, ues, rev, par, bind) ==
  [tgid |-> tgid, dns |-> dns, ues |-> ues, reversed |-> rev, parallel |-> par, bindPort |-> bind]

\* Generators that bind client ports, in both directions, next to each other at one address.
MCFlowDefs ==
  <<Group("iperf2", MCDNs, {1, 2, 3}, TRUE, 2, 1),
    Group("netperf", MCDNs, {1, 2, 3}, FALSE, 1, NoBind),
    Group("sockperf", {<<1, 1>>}, {1, 2, 3}, TRUE, 1, NoBind),
    Group("itg", {<<1, 1>>, <<2, 1>>}, {1, 3}, FALSE, 2, NoBind),
    Group("iperf3", {<<1, 1>>}, {1, 3}, FALSE, 1, NoBind),
    Group("owamp", {<<1, 2>>, <<2, 1>>}, {1, 3}, TRUE, 1, NoBind),
    Group("sockperf", {<<1, 2>>, <<2, 1>>}, {1, 3}, TRUE, 1, NoBind),
    Group("ns3http", {<<1, 1>>}, {1, 2, 3}, FALSE, 1, NoBind),
    Group("ns3http", MCDNs, {1, 3}, FALSE, 1, NoBind),
    Group("ndnping", {<<1, 1>>}, {2, 3}, FALSE, 1, NoBind)>>
=============================================================================
