----------------------------- MODULE CorePlane -----------------------------
(***************************************************************************)
(* Data Network containers (netdef-compose/dn.ts) and the control planes   *)
(* that free5GC and Open5GS provide (free5gc/cp.ts, open5gs/cp.ts), one    *)
(* action per method of their builders.                                    *)
(***************************************************************************)
EXTENDS Compose

Ct(nf) == <<nf, "">>

IPv4DNs == {d.id : d \in {x \in SeqToSet(net.dns) : x.type = "IPv4"}}

\* Every entry of a list names a different DNN.
DistinctDNNs == \A i, j \in DOMAIN net.dns : net.dns[i].id[3] = net.dns[j].id[3] => i = j

DefineDNServices ==
  Build(<<"dn">>,
    [Nothing EXCEPT !.ok = DistinctDNNs,
       !.define = LET dns == Kept(net.dns, {d \in SeqToSet(net.dns) : d.type = "IPv4"})
                  IN [i \in DOMAIN dns |-> <<DnCt(dns[i].id), {"mgmt", "n6"}>>]])

\* setDNCommands(): a route through every UPF that the Data Network has a path to.
SetDNCommands ==
  Build(<<"setDN">>,
    [Nothing EXCEPT !.tell = UNION {Of(DnCt(dn), Peers(net, dn), "n6") : dn \in IPv4DNs},
                    !.awaits = {DnCt(dn) : dn \in IPv4DNs}])

\* makeUPFRoutes(): the UPF's routes to Data Networks.
DnRoutes(upf) ==
  Of(upf, {DnCt(dn) : dn \in N6Peers(net, upf, "IPv4")}, "n6")

\* findDN() finds every Data Network that somebody is subscribed to.
KnownDNs == \A i \in DOMAIN net.subs : \A dn \in SeqToSet(SubscribedDN(net.subs[i])) : HasDN(net, dn)

\* Subscribers in the database with all that they are subscribed to.
AllSubscribed == UNION {Uses(net.subs[i], SeqToSet(SubscribedDN(net.subs[i]))) : i \in DOMAIN net.subs}

\* listUpfs() succeeds, and c is told where every UPF listens for PFCP.
UpfsKnown  == \A upf \in SeqToSet(net.upfs) : PeersExist(net, upf)
UpfsFor(c) == Of(c, SeqToSet(net.upfs), "n4")
-----------------------------------------------------------------------------
(* free5GC                                                                     *)

Mongo == Ct("mongo")
Nrf   == Ct("nrf")
WebUI == Ct("webui")

\* mongo.define() and mysql.define()
Database(ct) == [Nothing EXCEPT !.define = <<<<ct, {"db"}>>>>, !.tell = Own(ct, {"db"})]

\* defineService() and updateSBI(); those on the database network get its URL.
F5Service(ct, nets) ==
  [Nothing EXCEPT !.define = <<<<ct, nets>>>>,
     !.tell = Own(ct, {"cp"}) \cup Of(ct, {Nrf}, "cp")
              \cup (IF "db" \in nets THEN Of(ct, {Mongo}, "db") ELSE {})]

F5Mongo == Build(<<"f5Mongo">>, Database(Mongo))
F5NRF   == Build(<<"f5NRF">>, F5Service(Nrf, {"db", "cp"}))
F5WebUI == Build(<<"f5WebUI">>, [F5Service(WebUI, {"mgmt", "db", "cp"}) EXCEPT
                                  !.tell = @ \cup Own(WebUI, {"mgmt"})])

WebClient_OnCp == {"cp"}

\* The networks of the container that enters subscribers.
WebClientNets == {"mgmt"}

F5WebClient ==
  LET ct == Ct("webclient") IN
  Build(<<"f5WebClient">>,
    [Nothing EXCEPT !.define = <<<<ct, WebClientNets>>>>,
       !.tell = Of(ct, {WebUI}, "mgmt"),
       !.wait = {<<ct, "port", WebUI, "mgmt">>},
       !.lists = TRUE,
       !.ok = KnownDNs,
       !.store = AllSubscribed])

F5UDR  == Build(<<"f5UDR">>, F5Service(Ct("udr"), {"db", "cp"}))
F5UDM  == Build(<<"f5UDM">>, F5Service(Ct("udm"), {"cp"}))
F5AUSF == Build(<<"f5AUSF">>, F5Service(Ct("ausf"), {"cp"}))
F5NSSF == Build(<<"f5NSSF">>, F5Service(Ct("nssf"), {"cp"}))
F5PCF  == Build(<<"f5PCF">>, F5Service(Ct("pcf"), {"db", "cp"}))

F5AMF ==
  \E amf \in SeqToSet(Amfs(net)) :
    Build(<<"f5AMF", amf.name>>,
      [F5Service(amf.name, {"cp", "n2"}) EXCEPT !.tell = @ \cup Own(amf.name, {"n2"}),
                                                      !.awaits = {amf.name}])

\* buildSMF() and, for the first of them, buildSMFupi(): one access network for all gNBs.
F5SMF ==
  \E smf \in SeqToSet(Smfs(net)) :
    Build(<<"f5SMF", smf.name>>,
      [F5Service(smf.name, {"cp", "n4"}) EXCEPT
         !.ok = SameN3(net) /\ UpfsKnown,
         !.awaits = {smf.name},
         !.tell = @ \cup Own(smf.name, {"n4"}) \cup UpfsFor(smf.name)])

Free5gc ==
  \/ F5Mongo \/ F5NRF \/ F5WebUI \/ F5WebClient \/ F5UDR \/ F5UDM \/ F5AUSF \/ F5NSSF
  \/ F5PCF \/ F5AMF \/ F5SMF

Each(step, fns) == [i \in DOMAIN fns |-> <<step, fns[i].name>>]

\* build()
Free5gcSteps ==
  <<<<"f5Mongo">>, <<"f5NRF">>, <<"f5WebUI">>, <<"f5WebClient">>, <<"f5UDR">>, <<"f5UDM">>,
    <<"f5AUSF">>, <<"f5NSSF">>, <<"f5PCF">>>>
  \o Each("f5AMF", Amfs(net)) \o Each("f5SMF", Smfs(net))
-----------------------------------------------------------------------------
(* Open5GS                                                                     *)

WaitsForNrf_All(ct) == TRUE

\* netCommands(): everybody but the NRF waits for the NRF.
WaitsForNrf(ct) == ct # Nrf

\* defineService() and makeSBI()
O5Base(ct, nets) ==
  [Nothing EXCEPT !.define = <<<<ct, nets>>>>,
     !.tell = (IF "cp" \in nets THEN Own(ct, {"cp"}) \cup Of(ct, {Nrf}, "cp") ELSE {})
              \cup (IF "db" \in nets THEN Of(ct, {Mongo}, "db") ELSE {})
              \cup (IF "mgmt" \in nets THEN Own(ct, {"mgmt"}) ELSE {})]

\* ... and netCommands()
O5Service(ct, nets) ==
  [O5Base(ct, nets) EXCEPT
     !.awaits = {ct},
     !.wait = (IF "db" \in nets THEN {<<ct, "port", Mongo, "db">>} ELSE {})
              \cup (IF WaitsForNrf(ct) THEN {<<ct, "port", Nrf, "cp">>} ELSE {})]

\* makeDbctlCommands(): what open5gs-dbctl has made of one subscriber in the end.  The
\* first DNN of a slice adds the slice, the others go to the slice with the same index.
Slice(sub, i)  == sub.nssai[i].snssai

\* Every other DNN goes to the first slice.
DbctlSlot_First(i) == 1

DbctlSlot(i) == i

Dbctl(sub) ==
  UNION {{<<"dn", Slice(sub, IF j = 1 THEN i ELSE DbctlSlot(i)), sub.nssai[i].dnns[j]>> :
            j \in DOMAIN sub.nssai[i].dnns} : i \in DOMAIN sub.nssai}

O5Mongo ==
  Build(<<"o5Mongo">>,
    [Database(Mongo) EXCEPT !.lists = TRUE,
       !.store = UNION {Uses(sub, Dbctl(sub)) : sub \in SeqToSet(net.subs)}])

O5NRF  == Build(<<"o5NRF">>, O5Service(Nrf, {"cp"}))

\* defineOnlySbi()
O5OnlySbi ==
  \E nf \in {"udr", "udm", "ausf", "bsf"} :
    Build(<<"o5OnlySbi", nf>>, O5Service(Ct(nf), IF nf = "udr" THEN {"cp", "db"} ELSE {"cp"}))

O5PCF  == Build(<<"o5PCF">>, [O5Service(Ct("pcf"), {"mgmt", "db", "cp"}) EXCEPT
                                !.metrics = {Ct("pcf")}])
O5NSSF == Build(<<"o5NSSF">>, O5Service(Ct("nssf"), {"cp"}))

O5AMF ==
  \E amf \in SeqToSet(Amfs(net)) :
    Build(<<"o5AMF", amf.name>>,
      [O5Service(amf.name, {"mgmt", "cp", "n2"}) EXCEPT
         !.tell = @ \cup Own(amf.name, {"n2"}),
         !.metrics = {amf.name}])

O5SMF ==
  \E smf \in SeqToSet(Smfs(net)) :
    Build(<<"o5SMF", smf.name>>,
      [O5Service(smf.name, {"mgmt", "cp", "n4"}) EXCEPT
         !.ok = UpfsKnown,
         !.tell = @ \cup Own(smf.name, {"n4"}) \cup UpfsFor(smf.name),
         !.metrics = {smf.name}])

O5WebUI == Build(<<"o5WebUI">>, O5Base(WebUI, {"mgmt", "db"}))

Open5gs ==
  \/ O5Mongo \/ O5NRF \/ O5OnlySbi \/ O5PCF \/ O5NSSF \/ O5AMF \/ O5SMF \/ O5WebUI

\* build()
Open5gsSteps ==
  <<<<"o5Mongo">>, <<"o5NRF">>, <<"o5OnlySbi", "udr">>, <<"o5OnlySbi", "udm">>,
    <<"o5OnlySbi", "ausf">>, <<"o5OnlySbi", "bsf">>, <<"o5PCF">>, <<"o5NSSF">>>>
  \o Each("o5AMF", Amfs(net)) \o Each("o5SMF", Smfs(net)) \o <<<<"o5WebUI">>>>
=============================================================================
