-------------------------------- MODULE Ran --------------------------------
(***************************************************************************)
(* RAN simulators: UERANSIM, PacketRusher, srsRAN, gNBSim and              *)
(* OpenAirInterface5G (ueransim/, packetrusher/, srsran/, omec/gnbsim.ts,  *)
(* oai/ran.ts).                                                            *)
(***************************************************************************)
EXTENDS Phoenix

\* A gNB that is given the address of every AMF, or that of the first.
WithAmfs(gnb)     == {<<gnb, "amf", "n2">>}
WithFirstAmf(gnb) == {<<gnb, FirstOf("amf"), "n2">>}

Gnb(gnb, nets) == [Nothing EXCEPT !.define = <<<<gnb, nets>>>>, !.awaits = {gnb}]

Ue(ue, sub, dns) ==
  [Nothing EXCEPT !.define = <<<<ue, {"mgmt", "air"}>>>>,
     !.awaits = {ue},
     !.lists = TRUE,
     !.simulate = Uses(sub, dns)]
-----------------------------------------------------------------------------
\* UeransimBuilder.buildGNB() and buildUE()
UeransimGNB ==
  \E gnb \in SeqToSet(net.gnbs) :
    Build(<<"ueransimGNB", gnb>>,
      [Gnb(gnb, {"air", "n2", "n3"}) EXCEPT !.list = WithAmfs(gnb), !.qos = {gnb}])

UeransimUE ==
  \E i \in DOMAIN Subscribers(args.ueransimSingle) :
    LET sub == Subscribers(args.ueransimSingle)[i]
    IN Build(<<"ueransimUE", i>>,
         [Ue(UeName(sub), sub, SeqToSet(RequestedDN(sub))) EXCEPT
            !.tell = Of(UeName(sub), SeqToSet(sub.gnbs), "air")])

UeransimSteps == GnbSteps("ueransimGNB") \o UeSteps("ueransimUE", args.ueransimSingle)
-----------------------------------------------------------------------------
\* PacketRusher runs a gNB and its UEs in a container, or everything in one.
PrushExpand == args.prushTunnel \/ args.prushMulti
PrushPairs  == Subscribers(PrushExpand)

\* parseOpts(): one container for all needs successive gNBs and SUPIs, and the same keys.
Successive(subs) ==
  \A i \in DOMAIN subs :
    /\ \E k \in DOMAIN net.gnbs : /\ net.gnbs[k] = subs[1].gnbs[1]
                                  /\ k + i - 1 \in DOMAIN net.gnbs
                                  /\ net.gnbs[k + i - 1] = subs[i].gnbs[1]
    /\ subs[i].supi = subs[1].supi + i - 1
    /\ Key(subs[i]) = Key(subs[1])

PrushOptions ==
  Build(<<"prushOptions">>,
    [Nothing EXCEPT !.lists = TRUE,
       !.ok = /\ PrushPairs # <<>>
              /\ Paired(PrushPairs)
              /\ args.prushMulti => Successive(PrushPairs)])

\* UEs of a container: those of its entry, or as many as there are gNBs, all alike.
PrushUes(i) ==
  LET sub == PrushPairs[i]
  IN IF args.prushMulti THEN Uses([sub EXCEPT !.count = Len(PrushPairs)], SingleDN(sub, i))
     ELSE Uses(sub, SingleDN(sub, i))

\* defineGnbUe()
Prush ==
  \E i \in DOMAIN PrushPairs :
    LET gnb == PrushPairs[i].gnbs[1]
    IN Build(<<"prush", i>>,
         [Gnb(gnb, {"mgmt", "n2", "n3"}) EXCEPT
            !.define = @ \o (IF args.prushTunnel THEN <<<<Ct("gtp5g"), {}>>>> ELSE <<>>),
            !.list = WithAmfs(gnb),
            !.qos = {gnb},
            !.simulate = PrushUes(i)])

PrushSteps ==
  <<<<"prushOptions">>>>
  \o (IF args.prushMulti THEN <<<<"prush", 1>>>> ELSE UeSteps("prush", PrushExpand))
-----------------------------------------------------------------------------
\* srsRAN, buildZmq(): a gNB and a UE that are told of each other.
SrsZmq ==
  \E i \in DOMAIN Subscribers(TRUE) :
    LET sub == Subscribers(TRUE)[i]
        gnb == sub.gnbs[1]
        ue  == <<"ue", gnb[2]>>
        amf == FirstOf("amf")
    IN Build(<<"srsZmq", i>>,
         [Ue(ue, sub, SingleDN(sub, i)) EXCEPT
            !.ok = Paired(SubSeq(Subscribers(TRUE), 1, i)),
            !.define = @ \o <<<<gnb, {"air", "n2", "n3"}>>>>,
            !.tell = Of(gnb, {ue}, "air") \cup Of(ue, {gnb}, "air") \cup WithFirstAmf(gnb),
            !.awaits = {ue, gnb},
            !.wait = {<<gnb, "ping", amf, "n2">>, <<ue, "port", gnb, "air">>}])

\* buildSdr(): no simulated UEs.
SrsSdr ==
  \E gnb \in SeqToSet(net.gnbs) :
    Build(<<"srsSdr", gnb>>,
      [Gnb(gnb, {"n2", "n3"}) EXCEPT !.tell = WithFirstAmf(gnb),
                                     !.wait = {<<gnb, "ping", FirstOf("amf"), "n2">>}])

SrsSteps == IF args.srsSdr THEN GnbSteps("srsSdr") ELSE UeSteps("srsZmq", TRUE)
-----------------------------------------------------------------------------
\* gnbsimRAN() and makeProfile(): subscribers of the gNB, in the order of the list.
SubsOf(gnb) == Kept(net.subs, {sub \in SeqToSet(net.subs) : gnb \in SeqToSet(sub.gnbs)})

GnbsimRAN ==
  \E gnb \in SeqToSet(net.gnbs) :
    LET subs == SubsOf(gnb)
        dns  == UNION {SingleDN(subs[i], i) : i \in DOMAIN subs}
    IN Build(<<"gnbsimRAN", gnb>>,
         [Gnb(gnb, {"mgmt", "n2", "n3"}) EXCEPT
            !.ok = /\ \A i \in DOMAIN subs : RequestedDN(subs[i]) # <<>>
                   /\ \A dn \in dns : HasDN(net, dn),
            !.tell = WithFirstAmf(gnb),
            !.cite = {<<DnCt(dn), "n6">> : dn \in dns},
            !.lists = TRUE,
            !.simulate = UNION {Uses(subs[i], SingleDN(subs[i], i)) : i \in DOMAIN subs}])
-----------------------------------------------------------------------------
\* OpenAirInterface5G, makeGNB() and makeUE()
OaiGNB ==
  \E gnb \in SeqToSet(net.gnbs) :
    Build(<<"oaiGNB", gnb>>,
      [Gnb(gnb, {"mgmt", "n2", "n3"} \cup (IF args.usrp THEN {} ELSE {"air"})) EXCEPT
         !.list = WithAmfs(gnb),
         !.wait = {<<gnb, "ping", amf, "n2">> : amf \in ByNf("amf")}])

OaiUE ==
  \E i \in DOMAIN Subscribers(TRUE) :
    LET sub == Subscribers(TRUE)[i]
        ue  == UeName(sub)
    IN Build(<<"oaiUE", i>>,
         IF sub.gnbs = <<>> THEN [Nothing EXCEPT !.ok = FALSE]
         ELSE [Ue(ue, sub, SingleDN(sub, i)) EXCEPT
                 !.tell = Of(ue, {sub.gnbs[1]}, "air"),
                 !.wait = {<<ue, "ping", sub.gnbs[1], "air">>}])

OaiRanSteps == GnbSteps("oaiGNB") \o (IF args.usrp THEN <<>> ELSE UeSteps("oaiUE", TRUE))
-----------------------------------------------------------------------------
RAN ==
  \/ UeransimGNB \/ UeransimUE \/ PrushOptions \/ Prush \/ SrsZmq \/ SrsSdr \/ GnbsimRAN
  \/ OaiGNB \/ OaiUE
=============================================================================
