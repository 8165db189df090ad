--------------------------- MODULE ComposeProofs ---------------------------
(***************************************************************************)
(* What netdef-compose writes is right, whatever the network and the       *)
(* providers: every address that it tells exists, what it took for granted *)
(* is so in the end, nobody is overlooked, and simulated UEs are those of  *)
(* the database.  Then, that guests boot from finished disks, which no     *)
(* build step writes again, and, as long as the host has not been          *)
(* rebooted, with their Virtual Functions; for any number of guests,       *)
(* invocations of compose.sh up, failures, interruptions and reboots.      *)
(***************************************************************************)
EXTENDS Virt, Generator, ListProofs, TLAPS

(* What the generator promises of the Compose file and of the files that go with it,    *)

\* The steps ahead.
Ahead      == SeqToSet(todo)
Pending(S) == \E y \in Ahead : y[1] \in S

UpEarly  == {"f5UP", "o5UP", "phUPF", "oaiUP"}
UpLate   == {"oaiUPvpp", "eUPF", "bessUP", "ndndpdkUP"}
CpFirst  == {"f5Mongo", "f5NRF", "f5WebUI", "f5WebClient", "f5UDR", "f5UDM", "f5AUSF", "f5NSSF", "f5PCF",
             "f5AMF", "f5SMF", "o5Mongo", "o5NRF", "o5OnlySbi", "o5PCF", "o5NSSF", "o5AMF", "o5SMF",
             "o5WebUI", "oaiSQL", "oaiNF", "phSQL", "phNRF", "phUDM", "phAUSF", "phNSSF", "phAMF",
             "phSMF", "phPCF"}
CpConfig == {"oaiConfigAMF", "oaiConfigSMF", "oaiPCF", "oaiNWDAF"}
RanBuild == {"ueransimGNB", "ueransimUE", "prush", "srsZmq", "srsSdr", "gnbsimRAN", "oaiGNB", "oaiUE",
             "phGNB", "phUE"}
Deferred == {"eUPFCommands", "bessCommands", "ndndpdkCommands", "oaiConfigUPF", "oaiVppCommands",
             "promFinish"}
Storing  == {"f5WebClient", "o5Mongo", "oaiSQL", "phUDM"}

\* Builders of network functions; those after which nothing is wired any more.
Builders == UpEarly \cup UpLate \cup CpFirst \cup CpConfig \cup RanBuild
Quiet    == {"phBuilder", "defineBridge", "cpufreq", "place", "finalSave"} \cup Deferred

\* The order of main.ts.
Rank(s) ==
  CASE s = "dn" -> 1
    [] s \in UpEarly \cup UpLate -> 2
    [] s = "setDN" -> 3
    [] s \in CpFirst -> 4
    [] s \in CpConfig -> 5
    [] s = "prushOptions" -> 6
    [] s \in RanBuild -> 7
    [] s = "saveQoS" -> 8
    [] s = "buildPrometheus" -> 9
    [] s = "defineBridge" -> 10
    [] s = "cpufreq" -> 11
    [] s = "place" -> 12
    [] s = "finalSave" -> 13
    [] s \in Deferred -> 14

\* phBuilder, which only asks for network options, runs up to three times.
May(x, y) == x[1] = "phBuilder" \/ y[1] = "phBuilder" \/ Rank(x[1]) <= Rank(y[1])

\* The kinds of containers that a step gives a netif.
KindsOf(s) ==
  CASE s = "dn" -> {"dn"}
    [] s \in UpEarly \cup UpLate -> {"upf"}
    [] s \in CpFirst \cup CpConfig ->
         {"mongo", "nrf", "webui", "webclient", "udr", "udm", "ausf", "bsf", "nssf", "pcf", "amf", "smf",
          "sql", "nwdaf"}
    [] s \in RanBuild -> {"gnb", "ue"}
    [] s = "buildPrometheus" -> {"processexporter", "prometheus", "grafana"}
    [] OTHER -> {}

\* What a deferred step takes for granted.
Needed(d) ==
  CASE d[1] \in {"eUPFCommands", "ndndpdkCommands"} -> On(d[2], {"mgmt"} \cup UpfNets(net, d[2]))
    [] d[1] = "bessCommands" -> On(d[2], {"n3", "n6"})
    [] d[1] = "oaiConfigUPF" -> On(d[2], OaiUpfNets)
    [] d[1] = "oaiVppCommands" -> {<<d[2], "cp">>}
    [] d[1] = "promFinish" -> {<<Prometheus, "meas">>}
    [] OTHER -> {}

\* What a step is, given the options.
Legal(y) ==
  /\ y # <<>>
  /\ y[1] \in Builders \cup Quiet \cup {"dn", "setDN", "prushOptions", "saveQoS", "buildPrometheus"}
  /\ y[1] \in UpEarly => args.up[y[2]] \in {"free5gc", "open5gs", "phoenix", "oai"}
  /\ y[1] = "prush" => args.ran = "packetrusher" /\ (args.prushMulti => y[2] = 1)

Planned ==
  /\ failed # <<>> => todo = <<>>
  /\ IsList(todo) /\ IsList(finalize) /\ IsList(services)
  /\ \A y \in Ahead : Legal(y)
  /\ \A i, j \in DOMAIN todo : i < j => May(todo[i], todo[j])
  /\ \A d \in SeqToSet(finalize) : d # <<>> /\ d[1] \in Deferred
  /\ \A d \in Ahead \cup SeqToSet(finalize) : Needed(d) \subseteq ip

\* A subscriber's keys once they have been drawn, and all that a database is to hold.
KeyOf(sub) == IF sub.key = 0 THEN <<"default", 1>> ELSE <<"own", sub.key>>
Everybody ==
  UNION {{<<supi, KeyOf(sub), dn>> : supi \in Supis(sub), dn \in SeqToSet(SubscribedDN(sub))} :
           sub \in SeqToSet(net.subs)}

\* One container of PacketRusher for all gNBs has what parseOpts() asserts.
Alike(subs) ==
  \A i \in DOMAIN subs : subs[i].supi = subs[1].supi + i - 1 /\ KeyOf(subs[i]) = KeyOf(subs[1])

Served ==
  \A ct \in qos : \A rule \in RulesOf(ct) :
    rule.dst # "*" => \E a \in asked : a.by = ct /\ a.nf = rule.dst /\ a.on = rule.net

Scraped == \A ct \in metrics : <<Prometheus, ct, "mgmt">> \in told

\* What has been done, if it is not still ahead.
Arranged ==
  failed = <<>> =>
    /\ Pending({"dn"}) \/ \A dn \in IPv4DNs : <<DnCt(dn), "n6">> \in ip
    /\ Pending({"oaiConfigSMF"}) => <<"oaiNF", "smf">> \in Ahead \/ <<Ct("smf"), "n4">> \in ip
    /\ Pending({"prush"}) =>
         \/ Pending({"prushOptions"})
         \/ PrushPairs # <<>> /\ Paired(PrushPairs) /\ (args.prushMulti => Alike(PrushPairs))
    /\ Pending(Storing) \/ Everybody \subseteq provisioned
    /\ Pending({"saveQoS"}) \/ (Served /\ ~ Pending(Builders))
    /\ Pending({"buildPrometheus"}) \/ (args.prometheus => Scraped /\ ~ Pending(Builders))
    /\ Pending({"place"}) \/ placed

\* Once a netif has become a port, it is not wired again.
Ported == mac \cup assumed # {} => \A y \in Ahead : y[1] \in Quiet

\* A list names everybody, and nobody who belongs on it comes later.
Counted ==
  \A a \in asked :
    /\ a.got = {ct \in ByNf(a.nf) : <<ct, a.on>> \in ip}
    /\ \A y \in Ahead : a.nf \notin KindsOf(y[1])

\* The operator ~ may still be used on a container.
Takeable(ct) == \E i \in DOMAIN args.bridge : args.bridge[i].op = "~" /\ args.bridge[i].nf = nameToNf(ct)

Fresh ==
  \A l \in late :
    /\ l.what[1] \in {"mac", "place", "assume"}
    /\ l.value = ValueOf(l.what)
    /\ \/ l.what[1] = "assume" /\ ~ Takeable(l.what[2])
       \/ \A y \in Ahead : y[1] \in Deferred \cup {"phBuilder"}

GenInv ==
  /\ GenTypeOK /\ Wired /\ Planned /\ Arranged /\ Ported
  /\ QosAmongFunctions => Counted
  /\ LatePorts => Fresh
  /\ drawn \in {0, 1}
  /\ Requests => simulated \subseteq Everybody
-----------------------------------------------------------------------------
(* What a step may do.                                                         *)

\* It defines containers once each, and gives netifs to those of its kinds.
Defines(x, e) ==
  /\ IsList(Names(e)) /\ IsInjective(Names(e))
  /\ \A n \in Connected(e) : nameToNf(n[1]) \in KindsOf(x[1])

\* Whoever is told has a netif.
Tells(e) == \A t \in e.tell : t = <<t[1], t[2], t[3]>> /\ <<t[1], t[3]>> \in ip \cup Connected(e)

\* It lists containers of which there will be no more.
Asks(e) ==
  \A q \in Listings(e) :
    /\ <<q[1], q[3]>> \in ip \cup Connected(e)
    /\ QosAmongFunctions => \A y \in Ahead : q[2] \notin KindsOf(y[1])

\* Only a builder of network functions has containers that are to be scraped or run the QoS script.
Marks(x, e) ==
  /\ e.qos \cup e.metrics \subseteq SeqToSet(services) \cup SeqToSet(Names(e))
  /\ e.qos \cup e.metrics # {} => x[1] \in Builders

\* Only defineBridge makes ports.
MakesPorts(x, e) ==
  \A p \in e.ports : x[1] = "defineBridge" /\ p[2] \in netifs /\ (p[1] = "~" => Takeable(p[2][1]))

\* Before the end, only those who cannot be taken over are looked at.
LooksAt(x, e) ==
  LatePorts =>
    \A l \in Looks(e) :
      /\ l[1] \in {"mac", "place", "assume"}
      /\ (l[1] = "assume" /\ ~ Takeable(l[2])) \/ x[1] \in Deferred

\* What is deferred finds the netifs that it needs.
Defers(e) ==
  /\ IsList(e.defer)
  /\ \A d \in SeqToSet(e.defer) : d # <<>> /\ d[1] \in Deferred /\ Needed(d) \subseteq ip \cup Connected(e)

\* UEs are those of the network definition.
Simulates(e) == Requests => e.simulate \subseteq Everybody

\* The step has done what others rely on.
Achieves(x, e) ==
  /\ x[1] = "dn" => \A dn \in IPv4DNs : <<DnCt(dn), "n6">> \in Connected(e)
  /\ x = <<"oaiNF", "smf">> => <<Ct("smf"), "n4">> \in Connected(e)
  /\ x[1] = "prushOptions" =>
       PrushPairs # <<>> /\ Paired(PrushPairs) /\ (args.prushMulti => Alike(PrushPairs))
  /\ x[1] \in Storing => Everybody \subseteq e.store
  /\ x[1] = "saveQoS" =>
       \A ct \in qos : \A rule \in RulesOf(ct) :
         rule.dst # "*" => <<ct, rule.dst, rule.net>> \in Listings(e)
  /\ x[1] = "buildPrometheus" => Of(Prometheus, metrics, "mgmt") \subseteq e.tell

Effect(x, e) ==
  /\ Defines(x, e) /\ Tells(e) /\ Asks(e) /\ Marks(x, e) /\ MakesPorts(x, e) /\ LooksAt(x, e)
  /\ Defers(e) /\ Simulates(e) /\ Achieves(x, e)
  /\ e.place = (x[1] = "place")
  /\ e.lists \in BOOLEAN

\* A step of the builders.
Legitimate == \E x, e : Build(x, e) /\ (Succeeds(e) => Effect(x, e))

-----------------------------------------------------------------------------
(* Lists.                                                                       *)

LEMMA ListFacts ==
  ASSUME NEW q, IsList(q)
  PROVE  Len(q) \in Nat /\ DOMAIN q = 1 .. Len(q) /\ \A i \in DOMAIN q : q[i] \in SeqToSet(q)
BY DEF IsList, SeqToSet

LEMMA TypedList ==
  ASSUME NEW S, NEW q \in Seq(S)
  PROVE  IsList(q) /\ SeqToSet(q) \subseteq S
<1>1. Len(q) \in Nat /\ DOMAIN q = 1 .. Len(q) /\ \A i \in 1 .. Len(q) : q[i] \in S /\ q[i] \in SeqToSet(q)
  BY DEF SeqToSet
<1>2. q = [i \in 1 .. Len(q) |-> q[i]]
  OBVIOUS
<1>3. q \in Seq(SeqToSet(q))
  BY <1>1, <1>2, SeqDef
<1> QED
  BY <1>1, <1>3 DEF IsList, SeqToSet

LEMMA TailFacts ==
  ASSUME NEW q, IsList(q), q # <<>>
  PROVE  /\ IsList(Tail(q))
         /\ SeqToSet(q) = {Head(q)} \cup SeqToSet(Tail(q))
         /\ \A i \in DOMAIN Tail(q) : i + 1 \in DOMAIN q /\ Tail(q)[i] = q[i + 1]
         /\ 1 \in DOMAIN q /\ q[1] = Head(q)
<1> DEFINE S == SeqToSet(q)
           t == Tail(q)
<1>1. q \in Seq(S) /\ Len(q) \in Nat /\ Len(q) > 0 /\ DOMAIN q = 1 .. Len(q)
  BY DEF IsList
<1>2. Head(q) = q[1] /\ 1 \in DOMAIN q
  BY <1>1
<1>3. t \in Seq(S) /\ Len(t) = Len(q) - 1 /\ DOMAIN t = 1 .. Len(q) - 1
  BY <1>1
<1>4. \A i \in 1 .. Len(q) - 1 : t[i] = q[i + 1] /\ i + 1 \in DOMAIN q
  BY <1>1
<1>5. ASSUME NEW i \in 1 .. Len(q) PROVE q[i] \in {q[1]} \cup SeqToSet(t)
  <2>1. CASE i = 1
    BY <2>1
  <2>2. CASE i # 1
    <3>1. i - 1 \in DOMAIN t /\ t[i - 1] = q[i]
      BY <1>1, <1>3, <1>4, <2>2
    <3> QED
      BY <3>1 DEF SeqToSet
  <2> QED
    BY <2>1, <2>2
<1>6. IsList(t) /\ SeqToSet(t) \subseteq S
  <2> HIDE DEF S, t
  <2> QED
    BY <1>3, TypedList
<1>7. S \subseteq {q[1]} \cup SeqToSet(t) /\ q[1] \in S
  BY <1>1, <1>2, <1>5 DEF SeqToSet
<1> HIDE DEF t, S
<1>8. SeqToSet(q) = {Head(q)} \cup SeqToSet(t)
  BY <1>2, <1>6, <1>7 DEF S
<1> QED
  BY <1>2, <1>3, <1>4, <1>6, <1>8 DEF t

LEMMA JoinFacts ==
  ASSUME NEW s, NEW t, IsList(s), IsList(t)
  PROVE  /\ IsList(s \o t)
         /\ SeqToSet(s \o t) = SeqToSet(s) \cup SeqToSet(t)
         /\ \A i, j \in DOMAIN (s \o t) : i < j =>
              \/ i \in DOMAIN s /\ j \in DOMAIN s /\ (s \o t)[i] = s[i] /\ (s \o t)[j] = s[j]
              \/ (s \o t)[i] \in SeqToSet(s) /\ (s \o t)[j] \in SeqToSet(t)
              \/ \E a, b \in DOMAIN t : a < b /\ (s \o t)[i] = t[a] /\ (s \o t)[j] = t[b]
<1> DEFINE U == SeqToSet(s) \cup SeqToSet(t)
           r == s \o t
<1>1. \A q : Range(q) = SeqToSet(q)
  BY DEF Range, SeqToSet
<1>2. s \in Seq(U) /\ t \in Seq(U)
  <2>1. s \in Seq(SeqToSet(s)) /\ t \in Seq(SeqToSet(t))
    BY DEF IsList
  <2> QED
    BY <2>1
<1> HIDE DEF U
<1>3. /\ r \in Seq(U)
      /\ \A e \in Range(r) : e \in Range(s) \/ e \in Range(t)
      /\ \A e \in Range(s) \cup Range(t) : e \in Range(r)
      /\ \A i, j \in DOMAIN r : i < j =>
           \/ i \in DOMAIN s /\ j \in DOMAIN s /\ r[i] = s[i] /\ r[j] = s[j]
           \/ r[i] \in Range(s) /\ r[j] \in Range(t)
           \/ \E a, b \in DOMAIN t : a < b /\ r[i] = t[a] /\ r[j] = t[b]
  BY <1>2, JoinedRange
<1> HIDE DEF r
<1>4. IsList(r)
  BY <1>3, TypedList
<1>5. SeqToSet(r) = SeqToSet(s) \cup SeqToSet(t)
  BY <1>1, <1>3
<1> QED
  BY <1>1, <1>3, <1>4, <1>5 DEF r

LEMMA KeptList ==
  ASSUME NEW s, IsList(s), NEW S
  PROVE  /\ IsList(Kept(s, S))
         /\ SeqToSet(Kept(s, S)) = SeqToSet(s) \cap S
         /\ IsInjective(s) => IsInjective(Kept(s, S))
<1> DEFINE U == SeqToSet(s)
           q == Kept(s, S)
<1>1. s \in Seq(U)
  BY DEF IsList
<1>2. IsKept(q, s, U, S)
  <2> HIDE DEF U
  <2> QED
    BY <1>1, KeptFacts
<1> HIDE DEF q
<1>3. IsList(q) /\ SeqToSet(q) \subseteq U \cap S
  BY <1>2, KeptTyped, TypedList DEF IsKept
<1>4. ASSUME NEW e \in U \cap S PROVE e \in SeqToSet(q)
  <2>1. PICK i \in DOMAIN s : s[i] = e
    BY DEF SeqToSet
  <2>2. PICK j \in DOMAIN q : q[j] = s[i]
    BY <1>2, <2>1 DEF IsKept
  <2> QED
    BY <2>1, <2>2 DEF SeqToSet
<1>5. ASSUME IsInjective(s) PROVE IsInjective(q)
  <2>1. Len(q) \in Nat /\ DOMAIN q = 1 .. Len(q) /\ Len(s) \in Nat /\ DOMAIN s = 1 .. Len(s)
    BY <1>3, ListFacts
  <2>2. ASSUME NEW i \in DOMAIN q, NEW j \in DOMAIN q, i < j PROVE q[i] # q[j]
    <3>1. PICK a, b \in DOMAIN s : a < b /\ q[i] = s[a] /\ q[j] = s[b]
      BY <1>2, <2>2 DEF IsKept
    <3>2. a # b
      BY <2>1, <3>1
    <3> QED
      BY <1>5, <3>1, <3>2 DEF IsInjective
  <2>3. \A i, j \in DOMAIN q : i < j \/ j < i \/ i = j
    BY <2>1
  <2> QED
    BY <2>2, <2>3 DEF IsInjective
<1> QED
  BY <1>3, <1>4, <1>5 DEF q
-----------------------------------------------------------------------------
(* Names of steps.                                                             *)

Stages == {"dn", "setDN", "prushOptions", "saveQoS", "buildPrometheus"}

LEMMA Ranks ==
  /\ Rank("dn") = 1 /\ Rank("setDN") = 3 /\ Rank("prushOptions") = 6 /\ Rank("saveQoS") = 8
  /\ Rank("buildPrometheus") = 9 /\ Rank("defineBridge") = 10 /\ Rank("cpufreq") = 11
  /\ Rank("place") = 12 /\ Rank("finalSave") = 13
  /\ \A s \in UpEarly \cup UpLate : Rank(s) = 2
  /\ \A s \in CpFirst : Rank(s) = 4
  /\ \A s \in CpConfig : Rank(s) = 5
  /\ \A s \in RanBuild : Rank(s) = 7
  /\ \A s \in Deferred : Rank(s) = 14
<1>1. \A s \in UpEarly \cup UpLate : Rank(s) = 2
  BY DEF Rank, UpEarly, UpLate, CpFirst, CpConfig, RanBuild, Deferred
<1>2. \A s \in CpFirst : Rank(s) = 4
  BY DEF Rank, UpEarly, UpLate, CpFirst, CpConfig, RanBuild, Deferred
<1>3. \A s \in CpConfig : Rank(s) = 5
  BY DEF Rank, UpEarly, UpLate, CpFirst, CpConfig, RanBuild, Deferred
<1>4. \A s \in RanBuild : Rank(s) = 7
  BY DEF Rank, UpEarly, UpLate, CpFirst, CpConfig, RanBuild, Deferred
<1>5. \A s \in Deferred : Rank(s) = 14
  BY DEF Rank, UpEarly, UpLate, CpFirst, CpConfig, RanBuild, Deferred
<1>6. Rank("dn") = 1
  BY DEF Rank, UpEarly, UpLate, CpFirst, CpConfig, RanBuild, Deferred
<1>7. Rank("setDN") = 3
  BY DEF Rank, UpEarly, UpLate, CpFirst, CpConfig, RanBuild, Deferred
<1>8. /\ Rank("prushOptions") = 6 /\ Rank("saveQoS") = 8
      /\ Rank("buildPrometheus") = 9 /\ Rank("defineBridge") = 10 /\ Rank("cpufreq") = 11
      /\ Rank("place") = 12 /\ Rank("finalSave") = 13
  BY DEF Rank, UpEarly, UpLate, CpFirst, CpConfig, RanBuild, Deferred
<1> QED
  BY <1>1, <1>2, <1>3, <1>4, <1>5, <1>6, <1>7, <1>8

\* No step has two names.
LEMMA Apart ==
  /\ Builders \cap Quiet = {} /\ Builders \cap Stages = {} /\ Quiet \cap Stages = {}
  /\ Storing \subseteq Builders /\ Deferred \subseteq Quiet
  /\ Deferred \cap {"phBuilder", "defineBridge", "cpufreq", "place", "finalSave", "prush"} = {}
  /\ "phBuilder" \in Quiet /\ "prush" \in RanBuild /\ "oaiNF" \in CpFirst
BY DEF Builders, Quiet, Stages, Storing, Deferred, UpEarly, UpLate, CpFirst, CpConfig, RanBuild

LEMMA Kinds ==
  /\ KindsOf("dn") = {"dn"}
  /\ \A s \in UpEarly \cup UpLate : KindsOf(s) = {"upf"}
  /\ \A s \in CpFirst \cup CpConfig :
       KindsOf(s) = {"mongo", "nrf", "webui", "webclient", "udr", "udm", "ausf", "bsf", "nssf", "pcf", "amf",
                     "smf", "sql", "nwdaf"}
  /\ \A s \in RanBuild : KindsOf(s) = {"gnb", "ue"}
  /\ KindsOf("buildPrometheus") = {"processexporter", "prometheus", "grafana"}
  /\ \A s \in Quiet \cup {"setDN", "prushOptions", "saveQoS"} : KindsOf(s) = {}
<1>1. \A s \in UpEarly \cup UpLate : KindsOf(s) = {"upf"}
  BY DEF KindsOf, UpEarly, UpLate, CpFirst, CpConfig, RanBuild
<1>2. \A s \in CpFirst \cup CpConfig :
       KindsOf(s) = {"mongo", "nrf", "webui", "webclient", "udr", "udm", "ausf", "bsf", "nssf", "pcf", "amf",
                     "smf", "sql", "nwdaf"}
  BY DEF KindsOf, UpEarly, UpLate, CpFirst, CpConfig, RanBuild
<1>3. \A s \in RanBuild : KindsOf(s) = {"gnb", "ue"}
  BY DEF KindsOf, UpEarly, UpLate, CpFirst, CpConfig, RanBuild
<1>4. KindsOf("buildPrometheus") = {"processexporter", "prometheus", "grafana"}
  BY DEF KindsOf, UpEarly, UpLate, CpFirst, CpConfig, RanBuild
<1>5. \A s \in Quiet \cup {"setDN", "prushOptions", "saveQoS"} : KindsOf(s) = {}
  <2>1. ASSUME NEW s \in Quiet \cup {"setDN", "prushOptions", "saveQoS"}
        PROVE  s \notin Builders /\ s # "dn" /\ s # "buildPrometheus"
    BY Apart DEF Stages, Quiet, Deferred
  <2> QED
    BY <2>1 DEF KindsOf, Builders
<1>6. KindsOf("dn") = {"dn"}
  BY DEF KindsOf, UpEarly, UpLate, CpFirst, CpConfig, RanBuild
<1> QED
  BY <1>1, <1>2, <1>3, <1>4, <1>5, <1>6

\* What may still be ahead of a step.
LEMMA RankOfLegal ==
  ASSUME NEW y, Legal(y)
  PROVE  /\ y[1] \in Builders \cup Quiet \cup Stages
         /\ y[1] # "phBuilder" => Rank(y[1]) \in 1 .. 14
         /\ y[1] = "dn" => Rank(y[1]) = 1
         /\ y[1] \in UpEarly \cup UpLate => Rank(y[1]) = 2
         /\ y[1] \in CpFirst => Rank(y[1]) = 4
         /\ y[1] \in CpConfig => Rank(y[1]) = 5
         /\ y[1] \in Builders => Rank(y[1]) \in {2, 4, 5, 7}
         /\ y[1] # "phBuilder" /\ Rank(y[1]) >= 10 => y[1] \in Quiet
         /\ y[1] # "phBuilder" /\ Rank(y[1]) >= 14 => y[1] \in Deferred
<1>1. y[1] \in Builders \cup Quiet \cup Stages
  BY DEF Legal, Stages
<1>2. y[1] \in Builders => y[1] \in UpEarly \cup UpLate \cup CpFirst \cup CpConfig \cup RanBuild
  BY DEF Builders
<1>3. y[1] \in Builders => Rank(y[1]) \in {2, 4, 5, 7}
  BY <1>2, Ranks
<1>4. y[1] \in Stages => y[1] # "phBuilder" /\ Rank(y[1]) \in {1, 3, 6, 8, 9}
  BY Ranks DEF Stages
<1>5. y[1] \in Quiet /\ y[1] # "phBuilder" =>
        Rank(y[1]) \in 10 .. 14 /\ (Rank(y[1]) >= 14 => y[1] \in Deferred)
  BY Ranks DEF Quiet
<1> QED
  BY <1>1, <1>3, <1>4, <1>5, Ranks
-----------------------------------------------------------------------------
(* The step at hand and those that follow it.                                  *)

LEMMA NextStep ==
  ASSUME Planned, todo # <<>>
  PROVE  /\ Head(todo) \in Ahead /\ Legal(Head(todo)) /\ Head(todo) # <<>>
         /\ \A y \in Ahead : Legal(y) /\ (May(Head(todo), y) \/ y = Head(todo))
         /\ Ahead = {Head(todo)} \cup SeqToSet(Tail(todo))
         /\ \A y \in SeqToSet(Tail(todo)) : May(Head(todo), y)
<1>1. IsList(todo)
  BY DEF Planned
<1>2. /\ IsList(Tail(todo))
      /\ SeqToSet(todo) = {Head(todo)} \cup SeqToSet(Tail(todo))
      /\ \A i \in DOMAIN Tail(todo) : i + 1 \in DOMAIN todo /\ Tail(todo)[i] = todo[i + 1]
      /\ 1 \in DOMAIN todo /\ todo[1] = Head(todo)
  BY <1>1, TailFacts
<1>3. ASSUME NEW y \in SeqToSet(Tail(todo)) PROVE May(Head(todo), y)
  <2>1. PICK i \in DOMAIN Tail(todo) : y = Tail(todo)[i]
    BY DEF SeqToSet
  <2>2. i \in Nat /\ i > 0
    BY <1>2, ListFacts
  <2>3. 1 < i + 1 /\ y = todo[i + 1] /\ i + 1 \in DOMAIN todo
    BY <1>2, <2>1, <2>2
  <2> QED
    BY <1>2, <2>3 DEF Planned
<1>4. \A y \in Ahead : Legal(y)
  BY DEF Planned
<1>5. Head(todo) # <<>>
  BY <1>2, <1>4 DEF Legal, Ahead
<1> QED
  BY <1>2, <1>3, <1>4, <1>5 DEF Ahead

\* Steps come in the order of their ranks.
LEMMA Order ==
  ASSUME Planned, todo # <<>>, Head(todo)[1] # "phBuilder"
  PROVE  \A y \in Ahead : y[1] = "phBuilder" \/ Rank(Head(todo)[1]) <= Rank(y[1])
<1>1. Rank(Head(todo)[1]) \in 1 .. 14
  BY NextStep, RankOfLegal
<1> QED
  BY <1>1, NextStep DEF May

\* A step and those that come before it.
LEMMA Past ==
  ASSUME Planned, todo # <<>>, Head(todo)[1] # "phBuilder"
  PROVE  LET r == Rank(Head(todo)[1]) IN
         /\ r \in 1 .. 14
         /\ r > 1 => ~ Pending({"dn"})
         /\ r > 2 => ~ Pending(UpEarly \cup UpLate)
         /\ r > 5 => ~ Pending(CpFirst \cup CpConfig)
         /\ r > 6 => ~ Pending({"prushOptions"})
         /\ r > 7 => ~ Pending(Builders)
         /\ r > 8 => ~ Pending({"saveQoS"})
         /\ r > 9 => \A y \in Ahead : y[1] \in Quiet
         /\ r > 13 => \A y \in Ahead : y[1] \in Deferred \cup {"phBuilder"}
<1> DEFINE r == Rank(Head(todo)[1])
<1>1. r \in 1 .. 14
  BY NextStep, RankOfLegal
<1>2. \A y \in Ahead : Legal(y) /\ (y[1] = "phBuilder" \/ r <= Rank(y[1]))
  BY Order, NextStep
<1>3. "phBuilder" \notin {"dn"} \cup UpEarly \cup UpLate \cup CpFirst \cup CpConfig \cup Builders
                         \cup {"prushOptions", "saveQoS"}
  BY Apart DEF Builders, Stages
<1>4. \A y \in Ahead : /\ y[1] = "dn" => r <= 1
                       /\ y[1] \in UpEarly \cup UpLate => r <= 2
                       /\ y[1] \in CpFirst \cup CpConfig => r <= 5
                       /\ y[1] = "prushOptions" => r <= 6
                       /\ y[1] = "saveQoS" => r <= 8
  <2> HIDE DEF r
  <2> QED
    BY <1>1, <1>2, <1>3, RankOfLegal, Ranks
<1>5. \A y \in Ahead : /\ y[1] \in Builders => r <= 7
                       /\ r > 9 => y[1] \in Quiet
                       /\ r > 13 => y[1] \in Deferred \cup {"phBuilder"}
  <2>1. ASSUME NEW y \in Ahead PROVE y[1] \in Builders => r <= 7
    <3> HIDE DEF r
    <3>1. Rank(y[1]) \in {2, 4, 5, 7} \/ y[1] \notin Builders
      BY <1>2, RankOfLegal
    <3> QED
      BY <1>1, <1>2, <1>3, <3>1
  <2>2. ASSUME NEW y \in Ahead PROVE r > 9 => y[1] \in Quiet
    <3> HIDE DEF r
    <3>1. y[1] # "phBuilder" => Rank(y[1]) \in 1 .. 14 /\ (Rank(y[1]) >= 10 => y[1] \in Quiet)
      BY <1>2, RankOfLegal
    <3> QED
      BY <1>1, <1>2, <3>1, Apart
  <2>3. ASSUME NEW y \in Ahead PROVE r > 13 => y[1] \in Deferred \cup {"phBuilder"}
    <3> HIDE DEF r
    <3>1. y[1] # "phBuilder" => Rank(y[1]) \in 1 .. 14 /\ (Rank(y[1]) >= 14 => y[1] \in Deferred)
      BY <1>2, RankOfLegal
    <3> QED
      BY <1>1, <1>2, <3>1
  <2> QED
    BY <2>1, <2>2, <2>3
<1> HIDE DEF r
<1>6. /\ r > 1 => ~ Pending({"dn"})
      /\ r > 2 => ~ Pending(UpEarly \cup UpLate)
      /\ r > 5 => ~ Pending(CpFirst \cup CpConfig)
      /\ r > 6 => ~ Pending({"prushOptions"})
      /\ r > 7 => ~ Pending(Builders)
      /\ r > 8 => ~ Pending({"saveQoS"})
  BY <1>1, <1>4, <1>5 DEF Pending
<1> QED
  BY <1>1, <1>5, <1>6 DEF r
-----------------------------------------------------------------------------
(* A step of the builders preserves the invariant.                             *)

\* The step x has the effect e, which is as it may be.
Doing(x, e) == todo # <<>> /\ Head(todo) = x /\ Succeeds(e) /\ Apply(e) /\ Effect(x, e)

LEMMA StepsAfter ==
  ASSUME Planned, NEW x, NEW e, Doing(x, e)
  PROVE  /\ Legal(x) /\ x # <<>> /\ x \in Ahead
         /\ Ahead = {x} \cup Ahead' /\ IsList(todo')
         /\ \A y \in Ahead' : May(x, y) /\ Legal(y)
         /\ \A i, j \in DOMAIN todo' : i < j => May(todo'[i], todo'[j])
<1>1. IsList(todo) /\ todo # <<>> /\ Head(todo) = x /\ todo' = Tail(todo)
  BY DEF Doing, Planned, Apply
<1>2. /\ IsList(Tail(todo))
      /\ \A i \in DOMAIN Tail(todo) : i + 1 \in DOMAIN todo /\ Tail(todo)[i] = todo[i + 1]
  BY <1>1, TailFacts
<1>3. Ahead' = SeqToSet(Tail(todo))
  BY <1>1 DEF Ahead
<1>4. /\ Legal(x) /\ x # <<>> /\ x \in Ahead
      /\ Ahead = {x} \cup Ahead'
      /\ \A y \in Ahead' : May(x, y) /\ Legal(y)
  BY <1>1, <1>3, NextStep
<1>5. ASSUME NEW i \in DOMAIN Tail(todo), NEW j \in DOMAIN Tail(todo), i < j
      PROVE  May(Tail(todo)[i], Tail(todo)[j])
  <2>1. i \in Nat /\ j \in Nat
    BY <1>2, ListFacts
  <2>2. i + 1 \in DOMAIN todo /\ j + 1 \in DOMAIN todo /\ i + 1 < j + 1
    BY <1>2, <1>5, <2>1
  <2>3. May(todo[i + 1], todo[j + 1])
    BY <2>2 DEF Planned
  <2> QED
    BY <1>2, <2>3
<1> QED
  BY <1>1, <1>2, <1>4, <1>5

LEMMA ServicesAfter ==
  ASSUME IsList(services), IsInjective(services), NEW e, Apply(e), IsList(Names(e)), IsInjective(Names(e))
  PROVE  /\ IsList(services') /\ IsInjective(services')
         /\ SeqToSet(services') = SeqToSet(services) \cup SeqToSet(Names(e))
<1> DEFINE k == Kept(Names(e), SeqToSet(Names(e)) \ SeqToSet(services))
<1>1. services' = services \o k
  BY DEF Apply
<1>2. IsList(k) /\ IsInjective(k) /\ SeqToSet(k) = SeqToSet(Names(e)) \cap (SeqToSet(Names(e)) \ SeqToSet(services))
  BY KeptList
<1> HIDE DEF k
<1>3. /\ IsList(services \o k)
      /\ SeqToSet(services \o k) = SeqToSet(services) \cup SeqToSet(k)
      /\ \A i, j \in DOMAIN (services \o k) : i < j =>
           \/ i \in DOMAIN services /\ j \in DOMAIN services
                /\ (services \o k)[i] = services[i] /\ (services \o k)[j] = services[j]
           \/ (services \o k)[i] \in SeqToSet(services) /\ (services \o k)[j] \in SeqToSet(k)
           \/ \E a, b \in DOMAIN k : a < b /\ (services \o k)[i] = k[a] /\ (services \o k)[j] = k[b]
  BY <1>2, JoinFacts
<1>4. IsInjective(services \o k)
  <2> DEFINE r == services \o k
  <2>1. /\ \A i, j \in DOMAIN services : services[i] = services[j] => i = j
        /\ \A i, j \in DOMAIN k : k[i] = k[j] => i = j
        /\ DOMAIN services \subseteq Nat /\ DOMAIN k \subseteq Nat /\ DOMAIN r \subseteq Nat
    BY <1>2, <1>3, ListFacts DEF IsInjective
  <2>2. ASSUME NEW i \in DOMAIN r, NEW j \in DOMAIN r, i < j PROVE r[i] # r[j]
    <3> HIDE DEF r
    <3>1. CASE i \in DOMAIN services /\ j \in DOMAIN services /\ r[i] = services[i] /\ r[j] = services[j]
      BY <2>1, <2>2, <3>1
    <3>2. CASE r[i] \in SeqToSet(services) /\ r[j] \in SeqToSet(k)
      BY <1>2, <3>2
    <3>3. CASE \E a, b \in DOMAIN k : a < b /\ r[i] = k[a] /\ r[j] = k[b]
      BY <2>1, <3>3
    <3> QED
      BY <1>3, <2>2, <3>1, <3>2, <3>3 DEF r
  <2> HIDE DEF r
  <2>3. \A i, j \in DOMAIN r : r[i] = r[j] => i = j
    BY <2>1, <2>2
  <2> QED
    BY <2>3 DEF r, IsInjective
<1> QED
  BY <1>1, <1>2, <1>3, <1>4

\* Netifs only become more; each belongs to a container and a network.
LEMMA NetifsAfter ==
  ASSUME GenTypeOK, Planned, NEW x, NEW e, Doing(x, e)
  PROVE  /\ \A n \in Connected(e) : n = <<n[1], n[2]>> /\ n[1] \in SeqToSet(Names(e))
         /\ \A n \in ip' : n[1] \in SeqToSet(services') /\ n[2] \in Defined(networks')
<1>1. ASSUME NEW n \in Connected(e) PROVE n = <<n[1], n[2]>> /\ n[1] \in SeqToSet(Names(e))
  <2>1. PICK i \in DOMAIN e.define : n \in On(e.define[i][1], e.define[i][2])
    BY DEF Connected
  <2>2. PICK m \in e.define[i][2] : n = <<e.define[i][1], m>>
    BY <2>1 DEF On
  <2>3. i \in DOMAIN Names(e) /\ Names(e)[i] = e.define[i][1]
    BY DEF Names
  <2> QED
    BY <2>2, <2>3 DEF SeqToSet
<1>2. SeqToSet(services') = SeqToSet(services) \cup SeqToSet(Names(e))
  BY ServicesAfter DEF Doing, Effect, Defines, GenTypeOK, Planned
<1>3. ip' = ip \cup Connected(e) /\ networks' = NetworksAfter(e)
  BY DEF Doing, Apply
<1> DEFINE explicit == networks \cup {o \in e.options : o[1] \notin Defined(networks)}
<1>4. NetworksAfter(e) =
        explicit \cup {<<c[2], "default">> : c \in {y \in Connected(e) : y[2] \notin Defined(explicit)}}
  BY DEF NetworksAfter
<1> HIDE DEF explicit
<1>5. ASSUME NEW n \in Connected(e) PROVE n[2] \in Defined(NetworksAfter(e))
  <2>1. CASE n[2] \in Defined(explicit)
    BY <1>4, <2>1 DEF Defined
  <2>2. CASE n[2] \notin Defined(explicit)
    <3>1. <<n[2], "default">> \in NetworksAfter(e)
      BY <1>4, <2>2
    <3> QED
      BY <3>1 DEF Defined
  <2> QED
    BY <2>1, <2>2
<1>6. Defined(networks) \subseteq Defined(NetworksAfter(e))
  BY <1>4 DEF Defined, explicit
<1>7. \A n \in ip' : n[2] \in Defined(NetworksAfter(e))
  BY <1>3, <1>5, <1>6 DEF GenTypeOK
<1>8. \A n \in ip' : n[1] \in SeqToSet(services')
  BY <1>1, <1>2, <1>3 DEF GenTypeOK
<1>9. Defined(networks') = Defined(NetworksAfter(e))
  BY <1>3
<1> QED
  BY <1>1, <1>7, <1>8, <1>9

LEMMA KeepsGenTypeOK ==
  ASSUME GenInv, NEW x, NEW e, Doing(x, e)
  PROVE  GenTypeOK'
<1> USE DEF GenInv
<1>1. /\ args' = args /\ running' = running /\ drawn' \in {drawn, DefaultKeys}
      /\ ip' = ip \cup Connected(e)
      /\ netifs' = (netifs \cup Connected(e)) \ Ports(e, {"=", "@", "~"})
      /\ mac' = mac \cup Ports(e, {"=", "~"})
      /\ assumed' = assumed \cup Ports(e, {"~"})
      /\ placed' = (placed \/ e.place)
      /\ qos' = qos \cup e.qos /\ metrics' = metrics \cup e.metrics
      /\ told' = told \cup e.tell \cup UNION {Of(a.by, a.got, a.on) : a \in Answers(e)}
  BY DEF Doing, Apply
<1>2. /\ IsInjective(services')
      /\ SeqToSet(services') = SeqToSet(services) \cup SeqToSet(Names(e))
  BY ServicesAfter DEF Doing, Effect, Defines, GenTypeOK, Planned
<1>3. args' \in Inputs /\ placed' \in BOOLEAN /\ drawn' \in Nat
  <2>1. e.place \in BOOLEAN
    BY DEF Doing, Effect
  <2> QED
    BY <1>1, <2>1 DEF GenTypeOK, DefaultKeys
<1>4. netifs' \subseteq ip'
  BY <1>1 DEF GenTypeOK
<1>5. \A n \in ip' : n[1] \in SeqToSet(services') /\ n[2] \in Defined(networks')
  BY NetifsAfter
<1>6. mac' \cup assumed' \subseteq ip' \ netifs'
  <2>1. Ports(e, {"=", "~"}) \cup Ports(e, {"~"}) \subseteq Ports(e, {"=", "@", "~"}) \cap netifs
    BY DEF Ports, Doing, Effect, MakesPorts
  <2>2. mac \cup assumed # {} => Connected(e) = {}
    <3>1. x \in Ahead
      BY StepsAfter
    <3>2. mac \cup assumed # {} => x[1] \in Quiet
      BY <3>1 DEF Ported
    <3>3. mac \cup assumed # {} => KindsOf(x[1]) = {}
      BY <3>2, Kinds
    <3> QED
      BY <3>3 DEF Doing, Effect, Defines
  <2>3. mac \cup assumed \subseteq ip \ netifs /\ netifs \subseteq ip
    BY DEF GenTypeOK
  <2> QED
    BY <1>1, <2>1, <2>2, <2>3
<1>7. qos' \cup metrics' \cup running' \subseteq SeqToSet(services')
  <2>1. e.qos \cup e.metrics \subseteq SeqToSet(services) \cup SeqToSet(Names(e))
    BY DEF Doing, Effect, Marks
  <2> QED
    BY <1>1, <1>2, <2>1 DEF GenTypeOK
<1>8. told' \subseteq {<<c, n[1], n[2]>> : c \in SeqToSet(services'), n \in ip'}
  <2>1. ASSUME NEW t \in told PROVE \E c \in SeqToSet(services'), n \in ip' : t = <<c, n[1], n[2]>>
    <3>1. PICK c \in SeqToSet(services), n \in ip : t = <<c, n[1], n[2]>>
      BY DEF GenTypeOK
    <3> QED
      BY <1>1, <1>2, <3>1
  <2>2. ASSUME NEW t, t = <<t[1], t[2], t[3]>>, <<t[1], t[3]>> \in ip', <<t[2], t[3]>> \in ip'
        PROVE \E c \in SeqToSet(services'), n \in ip' : t = <<c, n[1], n[2]>>
    <3> DEFINE n == <<t[2], t[3]>>
               m == <<t[1], t[3]>>
    <3>1. m[1] \in SeqToSet(services')
      BY <1>5, <2>2
    <3>2. t[1] \in SeqToSet(services') /\ t = <<t[1], n[1], n[2]>>
      BY <2>2, <3>1
    <3> QED
      BY <2>2, <3>2
  <2>3. ASSUME NEW t \in e.tell
        PROVE t = <<t[1], t[2], t[3]>> /\ <<t[1], t[3]>> \in ip' /\ <<t[2], t[3]>> \in ip'
    BY <1>1 DEF Doing, Effect, Tells, Succeeds
  <2>4. ASSUME NEW a \in Answers(e), NEW t \in Of(a.by, a.got, a.on)
        PROVE t = <<t[1], t[2], t[3]>> /\ <<t[1], t[3]>> \in ip' /\ <<t[2], t[3]>> \in ip'
    <3>1. PICK q \in Listings(e) : a.by = q[1] /\ a.on = q[3] /\ a.got = Answer(q)
      BY DEF Answers
    <3>2. PICK ct \in Answer(q) : t = <<q[1], ct, q[3]>>
      BY <3>1 DEF Of
    <3>3. <<ct, q[3]>> \in ip /\ <<q[1], q[3]>> \in ip'
      BY <1>1, <3>1, <3>2 DEF Answer, Doing, Effect, Asks
    <3> QED
      BY <1>1, <3>2, <3>3
  <2>5. ASSUME NEW t \in told' PROVE \E c \in SeqToSet(services'), n \in ip' : t = <<c, n[1], n[2]>>
    <3>1. CASE t \in told
      BY <2>1, <3>1
    <3>2. CASE t \in e.tell
      <4>1. t = <<t[1], t[2], t[3]>> /\ <<t[1], t[3]>> \in ip' /\ <<t[2], t[3]>> \in ip'
        BY <2>3, <3>2
      <4> QED
        BY <2>2, <4>1
    <3>3. CASE \E a \in Answers(e) : t \in Of(a.by, a.got, a.on)
      <4>1. t = <<t[1], t[2], t[3]>> /\ <<t[1], t[3]>> \in ip' /\ <<t[2], t[3]>> \in ip'
        BY <2>4, <3>3
      <4> QED
        BY <2>2, <4>1
    <3> QED
      BY <1>1, <3>1, <3>2, <3>3
  <2> QED
    BY <2>5
<1> QED
  BY <1>2, <1>3, <1>4, <1>5, <1>6, <1>7, <1>8 DEF GenTypeOK

LEMMA KeepsWired ==
  ASSUME GenInv, NEW x, NEW e, Doing(x, e)
  PROVE  Wired'
<1>1. /\ ip' = ip \cup Connected(e)
      /\ told' = told \cup e.tell \cup UNION {Of(a.by, a.got, a.on) : a \in Answers(e)}
  BY DEF Doing, Apply
<1>2. \A t \in told : <<t[1], t[3]>> \in ip
  BY DEF GenInv, Wired
<1>3. \A t \in e.tell : <<t[1], t[3]>> \in ip'
  BY <1>1 DEF Doing, Effect, Tells
<1>4. ASSUME NEW a \in Answers(e), NEW t \in Of(a.by, a.got, a.on) PROVE <<t[1], t[3]>> \in ip'
  <2>1. PICK q \in Listings(e) : a.by = q[1] /\ a.on = q[3]
    BY DEF Answers
  <2>2. PICK ct : t = <<q[1], ct, q[3]>>
    BY <2>1 DEF Of
  <2> QED
    BY <1>1, <2>1, <2>2 DEF Doing, Effect, Asks
<1> QED
  BY <1>1, <1>2, <1>3, <1>4 DEF Wired

LEMMA KeepsPlanned ==
  ASSUME GenInv, NEW x, NEW e, Doing(x, e)
  PROVE  Planned'
<1> USE DEF GenInv
<1>1. /\ Ahead = {x} \cup Ahead' /\ IsList(todo')
      /\ \A y \in Ahead' : Legal(y)
      /\ \A i, j \in DOMAIN todo' : i < j => May(todo'[i], todo'[j])
  BY StepsAfter
<1>2. IsList(services')
  BY ServicesAfter DEF Doing, Effect, Defines, GenTypeOK, Planned
<1>3. /\ args' = args /\ finalize' = finalize \o e.defer /\ ip' = ip \cup Connected(e)
  BY DEF Doing, Apply
<1>4. /\ IsList(e.defer) /\ IsList(finalize)
      /\ \A d \in SeqToSet(e.defer) : d # <<>> /\ d[1] \in Deferred /\ Needed(d) \subseteq ip'
  BY <1>3 DEF Doing, Effect, Defers, Planned
<1>5. IsList(finalize') /\ SeqToSet(finalize') = SeqToSet(finalize) \cup SeqToSet(e.defer)
  BY <1>3, <1>4, JoinFacts
<1>6. \A d \in SeqToSet(finalize') : d # <<>> /\ d[1] \in Deferred
  BY <1>4, <1>5 DEF Planned
<1>7. \A d \in Ahead' \cup SeqToSet(finalize') : Needed(d) \subseteq ip'
  BY <1>1, <1>3, <1>4, <1>5 DEF Planned
<1>8. \A d : (Legal(d))' <=> Legal(d)
  BY <1>3 DEF Legal
<1>9. \A d : (Needed(d))' = Needed(d)
  BY <1>3 DEF Needed, net
<1>10. (\A y \in Ahead : Legal(y))'
  BY <1>1, <1>8
<1>11. (\A d \in Ahead \cup SeqToSet(finalize) : Needed(d) \subseteq ip)'
  BY <1>7, <1>9
<1>12. failed' = <<>>
  BY DEF Doing, Apply, Planned
<1> QED
  BY <1>1, <1>2, <1>5, <1>6, <1>10, <1>11, <1>12 DEF Planned
\* A step has been taken, or it is the step at hand.
LEMMA PendingAfter ==
  ASSUME GenInv, NEW x, NEW e, Doing(x, e), NEW S
  PROVE  /\ Pending(S) <=> x[1] \in S \/ Pending(S)'
         /\ x[1] # "phBuilder" => (Pending(S) => x[1] \in S) \/ Pending(S)'
BY StepsAfter DEF GenInv, Pending

LEMMA ServedAfter ==
  ASSUME GenInv, NEW x, NEW e, Doing(x, e), failed = <<>>
  PROVE  (Pending({"saveQoS"}) \/ (Served /\ ~ Pending(Builders)))'
<1> USE DEF GenInv
<1>1. /\ args' = args /\ qos' = qos \cup e.qos /\ asked' = asked \cup Answers(e)
      /\ Ahead = {x} \cup Ahead' /\ x \in Ahead
  BY StepsAfter DEF Doing, Apply
<1>2. \A ct : (RulesOf(ct))' = RulesOf(ct)
  BY <1>1 DEF RulesOf
<1>3. CASE ~ Pending({"saveQoS"})
  <2>1. Served /\ ~ Pending(Builders)
    BY <1>3 DEF Arranged
  <2>2. x[1] \notin Builders
    BY <1>1, <2>1 DEF Pending
  <2>3. qos' = qos
    BY <1>1, <2>2 DEF Doing, Effect, Marks
  <2>4. Served'
    BY <1>1, <1>2, <2>1, <2>3 DEF Served
  <2>5. ~ Pending(Builders)'
    BY <1>1, <2>1 DEF Pending
  <2> QED
    BY <2>4, <2>5
<1>4. CASE x[1] = "saveQoS"
  <2>1. x[1] # "phBuilder" /\ Rank(x[1]) = 8 /\ x[1] \notin Builders
    BY <1>4, Ranks, Apart DEF Stages
  <2>2. ~ Pending(Builders)
    BY <2>1, Past DEF Doing
  <2>3. ~ Pending(Builders)'
    BY <1>1, <2>2 DEF Pending
  <2>4. qos' = qos
    BY <1>1, <2>1 DEF Doing, Effect, Marks
  <2>5. ASSUME NEW ct \in qos, NEW rule \in RulesOf(ct), rule.dst # "*"
        PROVE  \E a \in asked' : a.by = ct /\ a.nf = rule.dst /\ a.on = rule.net
    <3> DEFINE q == <<ct, rule.dst, rule.net>>
    <3>1. q \in Listings(e)
      BY <1>4, <2>5 DEF Doing, Effect, Achieves
    <3>2. [by |-> q[1], nf |-> q[2], on |-> q[3], got |-> Answer(q)] \in Answers(e)
      BY <3>1 DEF Answers
    <3> QED
      BY <1>1, <3>2
  <2>6. Served'
    BY <1>2, <2>4, <2>5 DEF Served
  <2> QED
    BY <2>3, <2>6
<1>5. CASE Pending({"saveQoS"}) /\ x[1] # "saveQoS"
  BY <1>1, <1>5 DEF Pending
<1> QED
  BY <1>3, <1>4, <1>5

LEMMA ScrapedAfter ==
  ASSUME GenInv, NEW x, NEW e, Doing(x, e), failed = <<>>
  PROVE  (Pending({"buildPrometheus"}) \/ (args.prometheus => Scraped /\ ~ Pending(Builders)))'
<1> USE DEF GenInv
<1>1. /\ args' = args /\ metrics' = metrics \cup e.metrics
      /\ told \subseteq told' /\ e.tell \subseteq told'
      /\ Ahead = {x} \cup Ahead' /\ x \in Ahead
  BY StepsAfter DEF Doing, Apply
<1>2. CASE ~ Pending({"buildPrometheus"})
  <2>1. args.prometheus => Scraped /\ ~ Pending(Builders)
    BY <1>2 DEF Arranged
  <2>2. args.prometheus => x[1] \notin Builders
    BY <1>1, <2>1 DEF Pending
  <2>3. args.prometheus => metrics' = metrics
    BY <1>1, <2>2 DEF Doing, Effect, Marks
  <2>4. args.prometheus => Scraped'
    BY <1>1, <2>1, <2>3 DEF Scraped
  <2>5. args.prometheus => ~ Pending(Builders)'
    BY <1>1, <2>1 DEF Pending
  <2> QED
    BY <1>1, <2>4, <2>5
<1>3. CASE x[1] = "buildPrometheus"
  <2>1. x[1] # "phBuilder" /\ Rank(x[1]) = 9 /\ x[1] \notin Builders
    BY <1>3, Ranks, Apart DEF Stages
  <2>2. ~ Pending(Builders)
    BY <2>1, Past DEF Doing
  <2>3. ~ Pending(Builders)'
    BY <1>1, <2>2 DEF Pending
  <2>4. metrics' = metrics
    BY <1>1, <2>1 DEF Doing, Effect, Marks
  <2>5. Of(Prometheus, metrics, "mgmt") \subseteq told'
    BY <1>1, <1>3 DEF Doing, Effect, Achieves
  <2>6. Scraped'
    BY <2>4, <2>5 DEF Scraped, Of
  <2> QED
    BY <2>3, <2>6
<1>4. CASE Pending({"buildPrometheus"}) /\ x[1] # "buildPrometheus"
  BY <1>1, <1>4 DEF Pending
<1> QED
  BY <1>2, <1>3, <1>4

LEMMA KeepsArranged ==
  ASSUME GenInv, NEW x, NEW e, Doing(x, e)
  PROVE  Arranged'
<1> SUFFICES ASSUME failed = <<>> PROVE Arranged'
  BY DEF Doing, Apply, Arranged
<1> USE DEF GenInv
<1>1. /\ args' = args /\ failed' = failed /\ ip' = ip \cup Connected(e)
      /\ provisioned' = provisioned \cup e.store /\ placed' = (placed \/ e.place)
      /\ Ahead = {x} \cup Ahead' /\ x \in Ahead /\ Achieves(x, e) /\ e.place = (x[1] = "place")
  BY StepsAfter DEF Doing, Apply, Effect
<1>2. IPv4DNs' = IPv4DNs /\ Everybody' = Everybody /\ PrushPairs' = PrushPairs
  BY <1>1 DEF IPv4DNs, Everybody, PrushPairs, PrushExpand, Subscribers, net
<1>3. (Pending({"dn"}) \/ \A dn \in IPv4DNs : <<DnCt(dn), "n6">> \in ip)'
  BY <1>1, <1>2 DEF Arranged, Achieves, Pending
<1>4. (Pending({"oaiConfigSMF"}) => <<"oaiNF", "smf">> \in Ahead \/ <<Ct("smf"), "n4">> \in ip)'
  BY <1>1 DEF Arranged, Achieves, Pending
<1>5. (Pending({"prush"}) =>
         \/ Pending({"prushOptions"})
         \/ PrushPairs # <<>> /\ Paired(PrushPairs) /\ (args.prushMulti => Alike(PrushPairs)))'
  <2>1. (Paired(PrushPairs))' = Paired(PrushPairs)
    BY <1>1, <1>2 DEF Paired, net
  <2>2. (Alike(PrushPairs))' = Alike(PrushPairs)
    BY <1>2 DEF Alike
  <2> QED
    BY <1>1, <1>2, <2>1, <2>2 DEF Arranged, Achieves, Pending
<1>6. (Pending(Storing) \/ Everybody \subseteq provisioned)'
  BY <1>1, <1>2 DEF Arranged, Achieves, Pending
<1>7. (Pending({"place"}) \/ placed)'
  BY <1>1 DEF Arranged, Pending
<1> QED
  BY <1>3, <1>4, <1>5, <1>6, <1>7, ServedAfter, ScrapedAfter DEF Arranged
LEMMA KeepsPorted ==
  ASSUME GenInv, NEW x, NEW e, Doing(x, e)
  PROVE  Ported'
<1> USE DEF GenInv
<1>1. /\ mac' = mac \cup Ports(e, {"=", "~"}) /\ assumed' = assumed \cup Ports(e, {"~"})
      /\ Ahead = {x} \cup Ahead'
  BY StepsAfter DEF Doing, Apply
<1>2. CASE e.ports = {}
  <2>1. mac' = mac /\ assumed' = assumed
    BY <1>1, <1>2 DEF Ports
  <2> QED
    BY <1>1, <2>1 DEF Ported
<1>3. CASE e.ports # {}
  <2>1. x[1] = "defineBridge"
    BY <1>3 DEF Doing, Effect, MakesPorts
  <2>2. \A y \in Ahead : y[1] \in Quiet
    BY <2>1, Past, Ranks DEF Doing
  <2> QED
    BY <1>1, <2>2 DEF Ported
<1> QED
  BY <1>2, <1>3

LEMMA KeepsCounted ==
  ASSUME GenInv, NEW x, NEW e, Doing(x, e), QosAmongFunctions
  PROVE  Counted'
<1> USE DEF GenInv
<1>1. /\ ip' = ip \cup Connected(e) /\ asked' = asked \cup Answers(e)
      /\ Ahead = {x} \cup Ahead' /\ x \in Ahead
  BY StepsAfter DEF Doing, Apply
<1>2. SeqToSet(services') = SeqToSet(services) \cup SeqToSet(Names(e))
  BY ServicesAfter DEF Doing, Effect, Defines, GenTypeOK, Planned
<1>3. \A nf : ByNf(nf)' = {ct \in SeqToSet(services') : nameToNf(ct) = nf}
  BY DEF ByNf
<1>4. \A n \in ip : n[1] \in SeqToSet(services)
  BY DEF GenTypeOK
<1>5. \A n \in Connected(e) : nameToNf(n[1]) \in KindsOf(x[1])
  BY DEF Doing, Effect, Defines
\* A kind of which there will be no more.
<1>6. ASSUME NEW nf, NEW on, \A y \in Ahead : nf \notin KindsOf(y[1])
      PROVE  {ct \in ByNf(nf) : <<ct, on>> \in ip} = {ct \in ByNf(nf)' : <<ct, on>> \in ip'}
  <2>1. ASSUME NEW ct, ct \in ByNf(nf)', <<ct, on>> \in ip' PROVE ct \in ByNf(nf) /\ <<ct, on>> \in ip
    <3> DEFINE n == <<ct, on>>
    <3>1. n[1] = ct /\ nameToNf(n[1]) = nf
      BY <1>3, <2>1
    <3>2. n \notin Connected(e)
      BY <1>1, <1>5, <1>6, <3>1
    <3>3. n \in ip
      BY <1>1, <2>1, <3>2
    <3>4. ct \in SeqToSet(services)
      BY <1>4, <3>1, <3>3
    <3> QED
      BY <3>1, <3>3, <3>4 DEF ByNf
  <2>2. ASSUME NEW ct, ct \in ByNf(nf), <<ct, on>> \in ip PROVE ct \in ByNf(nf)' /\ <<ct, on>> \in ip'
    BY <1>1, <1>2, <1>3, <2>2 DEF ByNf
  <2> QED
    BY <2>1, <2>2
<1>7. ASSUME NEW a \in asked
      PROVE  a.got = {ct \in ByNf(a.nf)' : <<ct, a.on>> \in ip'} /\ \A y \in Ahead' : a.nf \notin KindsOf(y[1])
  BY <1>1, <1>6 DEF Counted
<1>8. ASSUME NEW a \in Answers(e)
      PROVE  a.got = {ct \in ByNf(a.nf)' : <<ct, a.on>> \in ip'} /\ \A y \in Ahead' : a.nf \notin KindsOf(y[1])
  <2>1. PICK q \in Listings(e) : a = [by |-> q[1], nf |-> q[2], on |-> q[3], got |-> Answer(q)]
    BY DEF Answers
  <2>2. \A y \in Ahead : q[2] \notin KindsOf(y[1])
    BY DEF Doing, Effect, Asks
  <2>3. a.nf = q[2] /\ a.on = q[3] /\ a.got = {ct \in ByNf(q[2]) : <<ct, q[3]>> \in ip}
    BY <2>1 DEF Answer
  <2> QED
    BY <1>1, <1>6, <2>2, <2>3
<1> QED
  BY <1>1, <1>7, <1>8 DEF Counted

LEMMA KeepsFresh ==
  ASSUME GenInv, NEW x, NEW e, Doing(x, e), LatePorts
  PROVE  Fresh'
<1> USE DEF GenInv
<1>0. Ahead = {x} \cup Ahead' /\ x \in Ahead
  BY StepsAfter
<1>1. /\ args' = args /\ Ahead = {x} \cup Ahead' /\ x \in Ahead
      /\ mac' = mac \cup Ports(e, {"=", "~"}) /\ assumed' = assumed \cup Ports(e, {"~"})
      /\ placed' = (placed \/ e.place) /\ e.place = (x[1] = "place") /\ placed \in BOOLEAN
      /\ late' = late \cup {[what |-> l, value |-> ValueOf(l)] : l \in Looks(e)}
  BY <1>0 DEF Doing, Apply, Effect, GenTypeOK
<1>2. \A ct : (Takeable(ct))' <=> Takeable(ct)
  BY <1>1 DEF Takeable
\* Nobody who cannot be taken over is.
<1>3. ASSUME NEW l, l[1] = "assume", ~ Takeable(l[2]) PROVE (ValueOf(l))' = ValueOf(l)
  <2> DEFINE n == <<l[2], l[3]>>
  <2>1. n \notin Ports(e, {"~"})
    BY <1>3 DEF Ports, Doing, Effect, MakesPorts
  <2>2. n \in assumed' <=> n \in assumed
    BY <1>1, <2>1
  <2> QED
    BY <1>3, <2>2 DEF ValueOf
\* Nothing changes any more once only deferred steps are ahead.
<1>4. ASSUME NEW l, x[1] \in Deferred \cup {"phBuilder"}, l[1] \in {"mac", "place", "assume"}
      PROVE  (ValueOf(l))' = ValueOf(l)
  <2>1. x[1] # "place" /\ x[1] # "defineBridge"
    BY <1>4, Apart
  <2>2. Ports(e, {"=", "~"}) = {} /\ Ports(e, {"~"}) = {}
    BY <2>1 DEF Ports, Doing, Effect, MakesPorts
  <2>3. mac' = mac /\ assumed' = assumed /\ placed' = placed
    BY <1>1, <2>1, <2>2
  <2> QED
    BY <1>4, <2>3 DEF ValueOf
<1>5. ASSUME NEW l \in late
      PROVE  /\ l.what[1] \in {"mac", "place", "assume"}
             /\ l.value = (ValueOf(l.what))'
             /\ \/ l.what[1] = "assume" /\ ~ Takeable(l.what[2])
                \/ \A y \in Ahead' : y[1] \in Deferred \cup {"phBuilder"}
  <2>1. /\ l.what[1] \in {"mac", "place", "assume"}
        /\ l.value = ValueOf(l.what)
        /\ \/ l.what[1] = "assume" /\ ~ Takeable(l.what[2])
           \/ \A y \in Ahead : y[1] \in Deferred \cup {"phBuilder"}
    BY DEF Fresh
  <2>2. CASE l.what[1] = "assume" /\ ~ Takeable(l.what[2])
    BY <1>3, <2>1, <2>2
  <2>3. CASE \A y \in Ahead : y[1] \in Deferred \cup {"phBuilder"}
    BY <1>1, <1>4, <2>1, <2>3
  <2> QED
    BY <2>1, <2>2, <2>3
<1>6. ASSUME NEW k \in Looks(e)
      PROVE  /\ k[1] \in {"mac", "place", "assume"}
             /\ ValueOf(k) = (ValueOf(k))'
             /\ \/ k[1] = "assume" /\ ~ Takeable(k[2])
                \/ \A y \in Ahead' : y[1] \in Deferred \cup {"phBuilder"}
  <2>1. k[1] \in {"mac", "place", "assume"} /\ ((k[1] = "assume" /\ ~ Takeable(k[2])) \/ x[1] \in Deferred)
    BY DEF Doing, Effect, LooksAt
  <2>2. CASE k[1] = "assume" /\ ~ Takeable(k[2])
    BY <1>3, <2>1, <2>2
  <2>3. CASE x[1] \in Deferred
    <3>1. x[1] # "phBuilder" /\ Rank(x[1]) = 14
      BY <2>3, Apart, Ranks
    <3>2. \A y \in Ahead : y[1] \in Deferred \cup {"phBuilder"}
      BY <3>1, Past DEF Doing
    <3> QED
      BY <1>1, <1>4, <2>1, <2>3, <3>2
  <2> QED
    BY <2>1, <2>2, <2>3
<1>7. ASSUME NEW l \in late'
      PROVE  /\ l.what[1] \in {"mac", "place", "assume"}
             /\ l.value = (ValueOf(l.what))'
             /\ \/ l.what[1] = "assume" /\ ~ Takeable(l.what[2])
                \/ \A y \in Ahead' : y[1] \in Deferred \cup {"phBuilder"}
  <2>1. CASE l \in late
    BY <1>5, <2>1
  <2>2. CASE l \notin late
    <3>1. PICK k \in Looks(e) : l = [what |-> k, value |-> ValueOf(k)]
      BY <1>1, <2>2
    <3> QED
      BY <1>6, <3>1
  <2> QED
    BY <2>1, <2>2
<1> QED
  BY <1>2, <1>7 DEF Fresh

\* Those of the network definition stay the same.
LEMMA KeepsSubscribers ==
  ASSUME GenInv, NEW x, NEW e, Doing(x, e)
  PROVE  drawn' \in {0, 1} /\ (Requests => simulated \subseteq Everybody)'
<1>1. args' = args /\ simulated' = simulated \cup e.simulate /\ drawn' \in {drawn, DefaultKeys}
  BY DEF Doing, Apply
<1>2. Everybody' = Everybody
  BY <1>1 DEF Everybody, net
<1>3. drawn' \in {0, 1}
  BY <1>1 DEF DefaultKeys, GenInv
<1> QED
  BY <1>1, <1>2, <1>3 DEF Doing, Effect, Simulates, GenInv

LEMMA KeepsInv ==
  ASSUME GenInv, Legitimate
  PROVE  GenInv'
<1>1. PICK x, e : Build(x, e) /\ (Succeeds(e) => Effect(x, e))
  BY DEF Legitimate
<1>2. CASE Succeeds(e)
  <2>1. Doing(x, e)
    BY <1>1, <1>2 DEF Doing, Build
  <2> QED
    BY <2>1, KeepsGenTypeOK, KeepsWired, KeepsPlanned, KeepsArranged, KeepsPorted, KeepsCounted,
       KeepsFresh, KeepsSubscribers DEF GenInv
<1>3. CASE ~ Succeeds(e)
  <2>1. Throw(x) /\ x = Head(todo) /\ todo # <<>>
    BY <1>1, <1>3 DEF Build
  <2>2. x # <<>>
    BY <2>1, NextStep DEF GenInv
  <2>3. /\ todo' = <<>> /\ failed' # <<>> /\ Ahead' = {} /\ IsList(todo') /\ DOMAIN todo' = {}
        /\ args' = args /\ running' = running /\ finalize' = finalize
    BY <2>1, <2>2 DEF Throw, Ahead, SeqToSet, IsList
  <2>4. UNCHANGED <<networks, services, netifs, ip, mac, assumed, placed>>
    BY <2>1 DEF Throw, compose
  <2>5. UNCHANGED <<told, asked, late, qos, metrics, drawn, provisioned, simulated, waits>>
    BY <2>1 DEF Throw, files
  <2>6. GenTypeOK' /\ Wired'
    BY <2>3, <2>4, <2>5 DEF GenInv, GenTypeOK, Wired
  <2>7. Planned'
    <3>1. \A d : (Needed(d))' = Needed(d)
      BY <2>3 DEF Needed, net
    <3> QED
      BY <2>3, <2>4, <3>1 DEF GenInv, Planned
  <2>8. Arranged' /\ Ported'
    BY <2>3 DEF Arranged, Ported
  <2>9. (QosAmongFunctions => Counted)'
    BY <2>3, <2>4, <2>5 DEF GenInv, Counted, ByNf
  <2>10. (LatePorts => Fresh)'
    <3>1. \A l : (ValueOf(l))' = ValueOf(l)
      BY <2>4 DEF ValueOf
    <3> QED
      BY <2>3, <2>5, <3>1 DEF GenInv, Fresh
  <2>11. drawn' \in {0, 1} /\ (Requests => simulated \subseteq Everybody)'
    <3>1. Everybody' = Everybody
      BY <2>3 DEF Everybody, net
    <3> QED
      BY <2>5, <3>1 DEF GenInv
  <2> QED
    BY <2>6, <2>7, <2>8, <2>9, <2>10, <2>11 DEF GenInv
<1> QED
  BY <1>2, <1>3
-----------------------------------------------------------------------------
(* What was deferred, and the start of the containers.                         *)

LEMMA KeepsInvFinalSave ==
  ASSUME GenInv, FinalSave
  PROVE  GenInv'
<1> USE DEF GenInv
<1>1. /\ todo' = finalize /\ todo = <<<<"finalSave">>>>
      /\ args' = args /\ failed' = failed /\ running' = running /\ finalize' = finalize
  BY DEF FinalSave
<1>2. UNCHANGED <<networks, services, netifs, ip, mac, assumed, placed>>
  BY DEF FinalSave, compose
<1>3. UNCHANGED <<told, asked, late, qos, metrics, drawn, provisioned, simulated, waits>>
  BY DEF FinalSave, files
<1>4. Ahead = {<<"finalSave">>}
  <2>1. DOMAIN todo = {1} /\ todo[1] = <<"finalSave">>
    BY <1>1
  <2> QED
    BY <2>1 DEF Ahead, SeqToSet
<1>5. Ahead' = SeqToSet(finalize) /\ IsList(finalize) /\ \A d \in Ahead' : d # <<>> /\ d[1] \in Deferred
  BY <1>1 DEF Ahead, Planned
<1>6. \A S : "finalSave" \notin S => ~ Pending(S)
  BY <1>4 DEF Pending
<1>7. GenTypeOK' /\ Wired'
  BY <1>1, <1>2, <1>3 DEF GenTypeOK, Wired
<1>8. Planned'
  <2>1. \A d : (Needed(d))' = Needed(d)
    BY <1>1 DEF Needed, net
  <2>2. ASSUME NEW d \in Ahead' PROVE (Legal(d))'
    <3>1. d[1] \notin UpEarly /\ d[1] # "prush" /\ d[1] \in Quiet
      BY <1>5, Apart DEF Builders
    <3> QED
      BY <1>5, <3>1 DEF Legal
  <2>3. ASSUME NEW i \in DOMAIN finalize, NEW j \in DOMAIN finalize PROVE May(finalize[i], finalize[j])
    <3>1. finalize[i] \in Ahead' /\ finalize[j] \in Ahead'
      BY <1>5 DEF SeqToSet
    <3> QED
      BY <1>5, <3>1, Ranks DEF May
  <2>4. \A d \in SeqToSet(finalize) : d # <<>> /\ d[1] \in Deferred /\ Needed(d) \subseteq ip
    BY DEF Planned
  <2> QED
    BY <1>1, <1>2, <1>5, <2>1, <2>2, <2>3, <2>4 DEF Planned
<1>9. Arranged'
  <2> SUFFICES ASSUME failed = <<>> PROVE Arranged'
    BY <1>1 DEF Arranged
  <2>1. /\ ~ Pending({"dn"}) /\ ~ Pending(Storing) /\ ~ Pending({"saveQoS"}) /\ ~ Pending({"buildPrometheus"})
        /\ ~ Pending({"place"})
    BY <1>6, Apart DEF Quiet
  <2>2. ~ Pending({"oaiConfigSMF"})' /\ ~ Pending({"prush"})' /\ ~ Pending(Builders)'
    <3>1. Deferred \cap Builders = {} /\ "oaiConfigSMF" \in Builders /\ "prush" \in Builders
      BY Apart DEF Builders, CpConfig
    <3> QED
      BY <1>5, <3>1 DEF Pending
  <2>3. /\ IPv4DNs' = IPv4DNs /\ Everybody' = Everybody
        /\ Served' <=> Served
        /\ Scraped' <=> Scraped
    BY <1>1, <1>3 DEF IPv4DNs, Everybody, net, Served, Scraped, RulesOf
  <2>4. /\ \A dn \in IPv4DNs : <<DnCt(dn), "n6">> \in ip
        /\ Everybody \subseteq provisioned /\ Served /\ (args.prometheus => Scraped) /\ placed
    BY <2>1 DEF Arranged
  <2> QED
    BY <1>1, <1>2, <1>3, <2>2, <2>3, <2>4 DEF Arranged
<1>10. Ported'
  BY <1>5, Apart DEF Ported
<1>11. (QosAmongFunctions => Counted)'
  <2>1. \A d \in Ahead' : KindsOf(d[1]) = {}
    BY <1>5, Apart, Kinds
  <2> QED
    BY <1>2, <1>3, <2>1 DEF Counted, ByNf
<1>12. (LatePorts => Fresh)'
  <2>1. \A l : (ValueOf(l))' = ValueOf(l)
    BY <1>2 DEF ValueOf
  <2>2. \A ct : (Takeable(ct))' <=> Takeable(ct)
    BY <1>1 DEF Takeable
  <2> QED
    BY <1>3, <1>5, <2>1, <2>2 DEF Fresh
<1>13. drawn' \in {0, 1} /\ (Requests => simulated \subseteq Everybody)'
  <2>1. Everybody' = Everybody
    BY <1>1 DEF Everybody, net
  <2> QED
    BY <1>3, <2>1
<1> QED
  BY <1>7, <1>8, <1>9, <1>10, <1>11, <1>12, <1>13

\* Nothing but what runs changes.
LEMMA KeepsInvLaunch ==
  ASSUME GenInv, UNCHANGED buildVars, running' = running \/ running' = running \cup Ready
  PROVE  GenInv'
<1>1. UNCHANGED <<args, todo, networks, services, netifs, ip, mac, assumed, placed, finalize, told, asked,
                  late, qos, metrics, drawn, provisioned, simulated, waits, failed>>
  BY DEF buildVars, compose, files
<1>2. Ready \subseteq SeqToSet(services)
  BY DEF Ready
<1>3. GenTypeOK'
  BY <1>1, <1>2 DEF GenInv, GenTypeOK
<1>4. Wired' /\ Ported'
  BY <1>1 DEF GenInv, Wired, Ported, Ahead
<1>5. Planned'
  BY <1>1 DEF GenInv, Planned, Ahead, Legal, Needed, net
<1>6. Arranged'
  <2>1. /\ IPv4DNs' = IPv4DNs /\ Everybody' = Everybody /\ PrushPairs' = PrushPairs
        /\ (Served <=> Served') /\ (Scraped <=> Scraped') /\ Ahead' = Ahead
    BY <1>1 DEF IPv4DNs, Everybody, PrushPairs, PrushExpand, Subscribers, net, Served, Scraped, RulesOf, Ahead
  <2>2. (Paired(PrushPairs) <=> Paired(PrushPairs)') /\ (Alike(PrushPairs) <=> Alike(PrushPairs)')
    BY <1>1, <2>1 DEF Paired, Alike, net
  <2> QED
    BY <1>1, <2>1, <2>2 DEF GenInv, Arranged, Pending
<1>7. (QosAmongFunctions => Counted)'
  BY <1>1 DEF GenInv, Counted, ByNf, Ahead
<1>8. (LatePorts => Fresh)'
  <2>1. \A l : (ValueOf(l))' = ValueOf(l)
    BY <1>1 DEF ValueOf
  <2>2. \A ct : (Takeable(ct))' <=> Takeable(ct)
    BY <1>1 DEF Takeable
  <2> QED
    BY <1>1, <2>1, <2>2 DEF GenInv, Fresh, Ahead
<1>9. drawn' \in {0, 1} /\ (Requests => simulated \subseteq Everybody)'
  <2>1. Everybody' = Everybody
    BY <1>1 DEF Everybody, net
  <2> QED
    BY <1>1, <2>1 DEF GenInv
<1> QED
  BY <1>3, <1>4, <1>5, <1>6, <1>7, <1>8, <1>9 DEF GenInv

\* What the invariant says of the program when it is done.
LEMMA InvPromises ==
  ASSUME GenInv
  PROVE  /\ GenTypeOK /\ Wired
         /\ LatePorts => LateFresh
         /\ QosAmongFunctions => NobodyOverlooked
         /\ Requests => Provisioned
<1>1. Done => Ahead = {} /\ failed = <<>>
  BY DEF Done, Ahead, SeqToSet
<1>2. Done => \A S : ~ Pending(S)
  BY <1>1 DEF Pending
<1>3. LatePorts => LateFresh
  BY DEF GenInv, Fresh, LateFresh
<1>4. QosAmongFunctions => NobodyOverlooked
  BY <1>1, <1>2 DEF GenInv, Counted, Arranged, Served, Scraped, NobodyOverlooked
<1>5. Requests => Provisioned
  BY <1>1, <1>2 DEF GenInv, Arranged, Provisioned
<1> QED
  BY <1>3, <1>4, <1>5 DEF GenInv
-----------------------------------------------------------------------------
(* The network definition and its subscribers.                                 *)

\* A list with an element for each of another list.
LEMMA MapList ==
  ASSUME NEW q, IsList(q), NEW f, f = [i \in DOMAIN q |-> f[i]], NEW S, \A i \in DOMAIN q : f[i] \in S
  PROVE  f \in Seq(S) /\ IsList(f) /\ Len(f) = Len(q) /\ DOMAIN f = DOMAIN q /\ SeqToSet(f) \subseteq S
<1>1. Len(q) \in Nat /\ DOMAIN q = 1 .. Len(q)
  BY ListFacts
<1> DEFINE n == Len(q)
<1> HIDE DEF n
<1>2. f \in [1 .. n -> S]
  BY <1>1 DEF n
<1>3. n \in Nat
  BY <1>1 DEF n
<1>4. f \in Seq(S) /\ Len(f) = n
  BY <1>2, <1>3
<1> QED
  BY <1>1, <1>4, TypedList DEF n

LEMMA RangeList ==
  ASSUME NEW n \in Nat, NEW f, f = [i \in 1 .. n |-> f[i]], NEW S, \A i \in 1 .. n : f[i] \in S
  PROVE  f \in Seq(S) /\ IsList(f) /\ Len(f) = n /\ DOMAIN f = 1 .. n
<1>1. f \in [1 .. n -> S]
  OBVIOUS
<1>2. f \in Seq(S) /\ Len(f) = n
  BY <1>1
<1> QED
  BY <1>2, TypedList

\* The functions that the network definition names are what they are named.
LEMMA NetFacts ==
  ASSUME args \in Inputs
  PROVE  /\ IsList(net.gnbs) /\ \A gnb \in SeqToSet(net.gnbs) : nameToNf(gnb) = "gnb"
         /\ IsList(net.upfs) /\ \A upf \in SeqToSet(net.upfs) : nameToNf(upf) = "upf"
         /\ IsList(Amfs(net)) /\ \A amf \in SeqToSet(Amfs(net)) : nameToNf(amf.name) = "amf"
         /\ IsList(Smfs(net)) /\ \A smf \in SeqToSet(Smfs(net)) : nameToNf(smf.name) = "smf"
         /\ IsList(net.dns)
         /\ IsList(net.subs) /\ \A sub \in SeqToSet(net.subs) : IsSubscriber(sub)
<1>1. /\ OfKind(net.gnbs, "gnb") /\ OfKind(net.upfs, "upf")
      /\ IsList(net.amfs) /\ \A amf \in SeqToSet(net.amfs) : nameToNf(amf.name) = "amf"
      /\ IsList(net.smfs) /\ \A smf \in SeqToSet(net.smfs) : nameToNf(smf.name) = "smf"
      /\ IsList(net.dns)
      /\ IsList(net.subs) /\ \A sub \in SeqToSet(net.subs) : IsSubscriber(sub)
  BY NetworkAssumption DEF net
<1>2. ASSUME NEW fns, NEW nf, IsList(fns), \A fn \in SeqToSet(fns) : nameToNf(fn.name) = nf
      PROVE  IsList(Listed(fns, nf, net)) /\ \A fn \in SeqToSet(Listed(fns, nf, net)) : nameToNf(fn.name) = nf
  <2>1. CASE fns = <<>>
    <3> DEFINE fn == [name |-> <<nf, "">>, nssai |-> Nssai(net)]
    <3>1. nameToNf(fn.name) = nf
      BY DEF nameToNf
    <3> HIDE DEF fn
    <3>2. <<fn>> \in Seq({fn})
      OBVIOUS
    <3>3. IsList(<<fn>>) /\ SeqToSet(<<fn>>) \subseteq {fn}
      BY <3>2, TypedList
    <3>4. Listed(fns, nf, net) = <<fn>>
      BY <2>1 DEF Listed, fn
    <3> QED
      BY <3>1, <3>3, <3>4
  <2>2. CASE fns # <<>>
    BY <1>2, <2>2 DEF Listed
  <2> QED
    BY <2>1, <2>2
<1> QED
  BY <1>1, <1>2 DEF OfKind, Amfs, Smfs

LEMMA SubscribedFacts ==
  ASSUME NEW sub, IsList(sub.nssai), \A i \in DOMAIN sub.nssai : IsList(sub.nssai[i].dnns)
  PROVE  /\ IsList(SubscribedDN(sub))
         /\ \A dn \in SeqToSet(SubscribedDN(sub)) :
              \E i \in DOMAIN sub.nssai : \E j \in DOMAIN sub.nssai[i].dnns :
                dn = <<"dn", sub.nssai[i].snssai, sub.nssai[i].dnns[j]>>
<1> DEFINE D(i) == [j \in DOMAIN sub.nssai[i].dnns |-> <<"dn", sub.nssai[i].snssai, sub.nssai[i].dnns[j]>>]
           ss == [i \in DOMAIN sub.nssai |-> D(i)]
           U == UNION {SeqToSet(D(i)) : i \in DOMAIN sub.nssai}
<1>1. ASSUME NEW i \in DOMAIN sub.nssai PROVE D(i) \in Seq(U)
  <2> DEFINE f == D(i)
             q == sub.nssai[i].dnns
  <2>0. \A j \in DOMAIN q : f[j] \in SeqToSet(f)
    BY DEF SeqToSet
  <2>1. \A j \in DOMAIN q : f[j] \in U
    <3> HIDE DEF f, q
    <3>1. SeqToSet(D(i)) \subseteq U
      BY DEF U
    <3> QED
      BY <2>0, <3>1 DEF f
  <2>2. IsList(q) /\ f = [j \in DOMAIN q |-> f[j]]
    OBVIOUS
  <2> HIDE DEF U, f, q
  <2>3. f \in Seq(U)
    BY <2>1, <2>2, MapList
  <2> QED
    BY <2>3 DEF f
<1>2. ss \in Seq(Seq(U))
  <2>1. \A i \in DOMAIN sub.nssai : ss[i] \in Seq(U)
    BY <1>1
  <2>2. ss = [i \in DOMAIN sub.nssai |-> ss[i]]
    OBVIOUS
  <2> HIDE DEF ss, U
  <2> QED
    BY <2>1, <2>2, MapList
<1> HIDE DEF U
<1>3. IsJoined(FlattenSeq(ss), ss, U, DOMAIN ss)
  <2> HIDE DEF ss
  <2> QED
    BY <1>2, FlattenFacts
<1>4. SubscribedDN(sub) = FlattenSeq(ss)
  BY DEF SubscribedDN
<1>5. IsList(FlattenSeq(ss))
  <2> HIDE DEF ss
  <2> QED
    BY <1>3, TypedList DEF IsJoined
<1>6. ASSUME NEW dn \in SeqToSet(FlattenSeq(ss))
      PROVE  \E i \in DOMAIN sub.nssai : \E j \in DOMAIN sub.nssai[i].dnns :
               dn = <<"dn", sub.nssai[i].snssai, sub.nssai[i].dnns[j]>>
  <2>1. PICK k \in DOMAIN ss : \E y \in DOMAIN ss[k] : dn = ss[k][y]
    <3> HIDE DEF ss
    <3> QED
      BY <1>3 DEF IsJoined, SeqToSet
  <2> QED
    BY <2>1
<1> QED
  BY <1>4, <1>5, <1>6

\* What open5gs-dbctl makes of a subscriber is all that the subscriber is subscribed to.
LEMMA DbctlFacts ==
  ASSUME NEW sub, IsList(sub.nssai), \A i \in DOMAIN sub.nssai : IsList(sub.nssai[i].dnns)
  PROVE  SeqToSet(SubscribedDN(sub)) \subseteq Dbctl(sub)
<1> SUFFICES ASSUME NEW dn \in SeqToSet(SubscribedDN(sub)) PROVE dn \in Dbctl(sub)
  OBVIOUS
<1>1. PICK i \in DOMAIN sub.nssai : \E j \in DOMAIN sub.nssai[i].dnns :
                dn = <<"dn", sub.nssai[i].snssai, sub.nssai[i].dnns[j]>>
  BY SubscribedFacts
<1>2. PICK j \in DOMAIN sub.nssai[i].dnns : dn = <<"dn", sub.nssai[i].snssai, sub.nssai[i].dnns[j]>>
  BY <1>1
<1>3. Slice(sub, IF j = 1 THEN i ELSE DbctlSlot(i)) = sub.nssai[i].snssai
  BY DEF Slice, DbctlSlot
<1> QED
  BY <1>2, <1>3 DEF Dbctl

\* A single Data Network is among those that are requested.
LEMMA SingleFacts ==
  ASSUME args \in Inputs, NEW sub, IsList(RequestedDN(sub)), NEW i \in Nat
  PROVE  SingleDN(sub, i) \subseteq SeqToSet(RequestedDN(sub))
<1> DEFINE dns == RequestedDN(sub)
<1>1. Len(dns) \in Nat /\ DOMAIN dns = 1 .. Len(dns) /\ \A k \in DOMAIN dns : dns[k] \in SeqToSet(dns)
  BY ListFacts
<1>2. args.singleDn \in {"first", "last", "rotate"}
  BY OptionsAssumption
<1>3. CASE dns = <<>>
  BY <1>3 DEF SingleDN
<1>4. CASE dns # <<>>
  <2>1. Len(dns) > 0
    <3>1. dns \in Seq(SeqToSet(dns))
      BY DEF IsList
    <3> HIDE DEF dns
    <3> QED
      BY <1>4, <3>1
  <2> HIDE DEF dns
  <2>2. 1 \in DOMAIN dns /\ Len(dns) \in DOMAIN dns /\ ((i - 1) % Len(dns)) + 1 \in DOMAIN dns
    BY <1>1, <2>1
  <2>3. SingleDN(sub, i) = {CASE args.singleDn = "first"  -> dns[1]
                              [] args.singleDn = "last"   -> dns[Len(dns)]
                              [] args.singleDn = "rotate" -> dns[((i - 1) % Len(dns)) + 1]}
    BY <1>4 DEF SingleDN, dns
  <2>4. SingleDN(sub, i) \subseteq {dns[1], dns[Len(dns)], dns[((i - 1) % Len(dns)) + 1]}
    BY <1>2, <2>3
  <2> QED
    BY <1>1, <2>2, <2>4 DEF dns
<1> QED
  BY <1>3, <1>4

\* An entry of a list of subscribers stands for SUPIs of an entry of the network definition.
Derives(t, s) ==
  /\ {"supi", "count", "key"} \subseteq DOMAIN t
  /\ t.nssai = s.nssai /\ t.request = s.request /\ t.gnbs = s.gnbs /\ t.key = s.key
  /\ t.supi \in Supis(s) /\ Supis(t) \subseteq Supis(s)

LEMMA ExpandedFacts ==
  ASSUME NEW s, IsSubscriber(s)
  PROVE  /\ IsList(Expanded(s))
         /\ \A t \in SeqToSet(Expanded(s)) : Derives(t, s) /\ Supis(t) = {t.supi}
         /\ Derives(s, s)
<1>0. s \in [supi : Nat, count : Nat \ {0}, key : Nat,
             gnbs : {s.gnbs}, nssai : {s.nssai}, request : {s.request}]
  BY DEF IsSubscriber
<1>1. s.supi \in Nat /\ s.count \in Nat /\ s.count > 0
  BY <1>0
<1>2. DOMAIN Expanded(s) = 1 .. s.count /\ Expanded(s) = [i \in 1 .. s.count |-> Expanded(s)[i]]
  BY DEF Expanded
<1>3. ASSUME NEW i \in 1 .. s.count PROVE Derives(Expanded(s)[i], s) /\ Supis(Expanded(s)[i]) = {Expanded(s)[i].supi}
  <2> DEFINE t == [s EXCEPT !.supi = @ + i - 1, !.count = 1]
  <2>1. t.supi = s.supi + i - 1 /\ t.count = 1 /\ t.nssai = s.nssai /\ t.request = s.request
        /\ t.gnbs = s.gnbs /\ t.key = s.key /\ {"supi", "count", "key"} \subseteq DOMAIN t
    BY <1>0
  <2>2. Expanded(s)[i] = t
    BY DEF Expanded
  <2> HIDE DEF t
  <2>3. t.supi + t.count - 1 = t.supi /\ t.supi \in Nat /\ i \in Nat /\ i >= 1 /\ i <= s.count
    BY <1>1, <2>1
  <2>4. Supis(t) = {t.supi} /\ t.supi \in Supis(s)
    BY <1>1, <2>1, <2>3 DEF Supis
  <2> QED
    BY <2>1, <2>2, <2>4 DEF Derives
<1>4. IsList(Expanded(s))
  <2> DEFINE f == Expanded(s)
             n == s.count
  <2>1. \A i \in 1 .. n : f[i] \in SeqToSet(f)
    BY <1>2 DEF SeqToSet
  <2>2. n \in Nat /\ f = [i \in 1 .. n |-> f[i]]
    BY <1>1, <1>2
  <2> HIDE DEF f, n
  <2>3. IsList(f)
    BY <2>1, <2>2, RangeList
  <2> QED
    BY <2>3 DEF f
<1>5. s.supi \in Supis(s)
  BY <1>1 DEF Supis
<1>6. \A t \in SeqToSet(Expanded(s)) : \E i \in 1 .. s.count : t = Expanded(s)[i]
  BY <1>2 DEF SeqToSet
<1>7. Derives(s, s)
  <2>1. {"supi", "count", "key"} \subseteq DOMAIN s
    BY <1>0
  <2> QED
    BY <1>5, <2>1 DEF Derives
<1> QED
  BY <1>3, <1>4, <1>6, <1>7

LEMMA SubscribersFacts ==
  ASSUME args \in Inputs, NEW b \in BOOLEAN
  PROVE  /\ IsList(Subscribers(b))
         /\ \A t \in SeqToSet(Subscribers(b)) : \E s \in SeqToSet(net.subs) : Derives(t, s)
         /\ \A i \in DOMAIN Subscribers(b) : Subscribers(b)[i] \in SeqToSet(Subscribers(b)) /\ i \in Nat /\ i > 0
<1>1. IsList(net.subs) /\ \A s \in SeqToSet(net.subs) : IsSubscriber(s)
  BY NetFacts
<1>2. \A i \in DOMAIN net.subs : net.subs[i] \in SeqToSet(net.subs)
  BY DEF SeqToSet
<1>3. CASE ~ b
  <2>1. Subscribers(b) = net.subs
    BY <1>3 DEF Subscribers
  <2>2. \A t \in SeqToSet(net.subs) : Derives(t, t)
    BY <1>1, ExpandedFacts
  <2> QED
    BY <1>1, <2>1, <2>2, ListFacts
<1>4. CASE b
  <2> DEFINE ss == [i \in DOMAIN net.subs |-> Expanded(net.subs[i])]
             U == UNION {SeqToSet(Expanded(net.subs[i])) : i \in DOMAIN net.subs}
  <2>1. ASSUME NEW i \in DOMAIN net.subs PROVE Expanded(net.subs[i]) \in Seq(U)
    <3> DEFINE q == Expanded(net.subs[i])
    <3>1. q \in Seq(SeqToSet(q))
      BY <1>1, <1>2, ExpandedFacts DEF IsList
    <3>2. SeqToSet(q) \subseteq U
      OBVIOUS
    <3> HIDE DEF q, U
    <3>3. q \in Seq(U)
      BY <3>1, <3>2
    <3> QED
      BY <3>3 DEF q
  <2>2. ss \in Seq(Seq(U))
    <3>1. \A i \in DOMAIN net.subs : ss[i] \in Seq(U)
      BY <2>1
    <3>2. ss = [i \in DOMAIN net.subs |-> ss[i]]
      OBVIOUS
    <3> HIDE DEF ss, U
    <3> QED
      BY <1>1, <3>1, <3>2, MapList
  <2>3. Subscribers(b) = FlattenSeq(ss)
    BY <1>4 DEF Subscribers
  <2> HIDE DEF U
  <2>4. IsJoined(Subscribers(b), ss, U, DOMAIN ss)
    <3> HIDE DEF ss
    <3> QED
      BY <2>2, <2>3, FlattenFacts
  <2>5. IsList(Subscribers(b))
    BY <2>4, TypedList DEF IsJoined
  <2>6. ASSUME NEW t \in SeqToSet(Subscribers(b)) PROVE \E s \in SeqToSet(net.subs) : Derives(t, s)
    <3>1. PICK k \in DOMAIN ss : \E y \in DOMAIN ss[k] : t = ss[k][y]
      <4> HIDE DEF ss
      <4> QED
        BY <2>4 DEF IsJoined, SeqToSet
    <3>2. t \in SeqToSet(Expanded(net.subs[k])) /\ net.subs[k] \in SeqToSet(net.subs)
      BY <1>2, <3>1 DEF SeqToSet
    <3> QED
      BY <1>1, <3>2, ExpandedFacts
  <2> QED
    BY <2>5, <2>6, ListFacts
<1> QED
  BY <1>3, <1>4

\* Keys do not change once they have been drawn.
LEMMA KeyFacts ==
  ASSUME drawn \in {0, 1}, NEW sub
  PROVE  Key(sub) = KeyOf(sub)
BY DEF Key, KeyOf, DefaultKeys

LEMMA DerivedFacts ==
  ASSUME args \in Inputs, NEW t, NEW s \in SeqToSet(net.subs), Derives(t, s)
  PROVE  /\ SubscribedDN(t) = SubscribedDN(s) /\ RequestedDN(t) = RequestedDN(s)
         /\ IsList(SubscribedDN(s)) /\ IsList(RequestedDN(s)) /\ KeyOf(t) = KeyOf(s)
         /\ Requests => SeqToSet(RequestedDN(s)) \subseteq SeqToSet(SubscribedDN(s))
<1>1. IsSubscriber(s)
  BY NetFacts
<1>2. IsList(SubscribedDN(s)) /\ IsList(s.request)
  BY <1>1, SubscribedFacts DEF IsSubscriber
<1>3. SubscribedDN(t) = SubscribedDN(s) /\ KeyOf(t) = KeyOf(s) /\ t.request = s.request
  BY DEF Derives, SubscribedDN, KeyOf
<1>4. Requests => SeqToSet(s.request) \subseteq SeqToSet(SubscribedDN(s))
  BY DEF Requests, net
<1> QED
  BY <1>2, <1>3, <1>4 DEF RequestedDN

\* A simulated UE is one of the network definition.
LEMMA UsesFacts ==
  ASSUME args \in Inputs, drawn \in {0, 1}, NEW t, NEW s \in SeqToSet(net.subs), Derives(t, s),
         NEW dns, dns \subseteq SeqToSet(SubscribedDN(s))
  PROVE  Uses(t, dns) \subseteq Everybody
<1> SUFFICES ASSUME NEW supi \in Supis(t), NEW dn \in dns PROVE <<supi, Key(t), dn>> \in Everybody
  BY DEF Uses
<1>1. Key(t) = KeyOf(s) /\ supi \in Supis(s) /\ dn \in SeqToSet(SubscribedDN(s))
  BY KeyFacts, DerivedFacts DEF Derives
<1> QED
  BY <1>1 DEF Everybody

LEMMA SimulatedFacts ==
  ASSUME args \in Inputs, drawn \in {0, 1}, Requests, NEW t, NEW s \in SeqToSet(net.subs), Derives(t, s)
  PROVE  /\ Uses(t, SeqToSet(RequestedDN(t))) \subseteq Everybody
         /\ \A i \in Nat : Uses(t, SingleDN(t, i)) \subseteq Everybody
<1>1. IsList(RequestedDN(t)) /\ SeqToSet(RequestedDN(t)) \subseteq SeqToSet(SubscribedDN(s))
  BY DerivedFacts
<1>2. \A i \in Nat : SingleDN(t, i) \subseteq SeqToSet(SubscribedDN(s))
  BY <1>1, SingleFacts
<1> QED
  BY <1>1, <1>2, UsesFacts

\* The databases are given everybody.
LEMMA StoredFacts ==
  ASSUME args \in Inputs, drawn \in {0, 1}
  PROVE  /\ Everybody \subseteq AllSubscribed
         /\ Everybody \subseteq UNION {Uses(sub, Dbctl(sub)) : sub \in SeqToSet(net.subs)}
<1> SUFFICES ASSUME NEW sub \in SeqToSet(net.subs), NEW supi \in Supis(sub),
                    NEW dn \in SeqToSet(SubscribedDN(sub))
             PROVE  /\ <<supi, KeyOf(sub), dn>> \in AllSubscribed
                    /\ <<supi, KeyOf(sub), dn>> \in UNION {Uses(s, Dbctl(s)) : s \in SeqToSet(net.subs)}
  BY DEF Everybody
<1>1. Key(sub) = KeyOf(sub)
  BY KeyFacts
<1>2. PICK i \in DOMAIN net.subs : sub = net.subs[i]
  BY DEF SeqToSet
<1>3. <<supi, KeyOf(sub), dn>> \in AllSubscribed
  BY <1>1, <1>2 DEF AllSubscribed, Uses
<1>4. IsSubscriber(sub)
  BY NetFacts
<1>5. dn \in Dbctl(sub)
  BY <1>4, DbctlFacts DEF IsSubscriber
<1>6. <<supi, KeyOf(sub), dn>> \in Uses(sub, Dbctl(sub))
  BY <1>1, <1>5 DEF Uses
<1> QED
  BY <1>3, <1>6
-----------------------------------------------------------------------------
(* What builders have in common.                                               *)

\* Nothing but services and addresses.
Usual(e) ==
  /\ e.scan = {} /\ e.look = {} /\ e.defer = <<>> /\ e.ports = {} /\ e.place = FALSE /\ e.lists \in BOOLEAN

\* The tells of c, which is on these networks, and what containers are told of themselves.
TellsOf(e, c, nets) == \A t \in e.tell : t = <<t[1], t[2], t[3]>> /\ (t[1] = t[2] \/ (t[1] = c /\ t[3] \in nets))

\* Apart from the containers it defines, a builder of c's network function is about c.
About(x, e, c, nets) ==
  /\ c \in SeqToSet(Names(e)) /\ On(c, nets) \subseteq Connected(e)
  /\ TellsOf(e, c, nets)
  /\ e.qos \cup e.metrics \subseteq {c}
  /\ \A q \in e.list : q[1] = c /\ q[3] \in nets /\ \A y \in Ahead : q[2] \notin KindsOf(y[1])
  /\ e.awaits = {} \/ (e.awaits = {c} /\ (LatePorts => ~ Takeable(c)))
  /\ Requests => e.simulate \subseteq Everybody
  /\ x[1] \in Storing => Everybody \subseteq e.store
  /\ x = <<"oaiNF", "smf">> => c = Ct("smf") /\ "n4" \in nets

LEMMA DefinesFacts ==
  ASSUME NEW x, NEW e, IsList(e.define),
         \A i, j \in DOMAIN e.define : e.define[i][1] = e.define[j][1] => i = j,
         \A i \in DOMAIN e.define : e.define[i][2] = {} \/ nameToNf(e.define[i][1]) \in KindsOf(x[1])
  PROVE  /\ Defines(x, e)
         /\ \A i \in DOMAIN e.define : /\ On(e.define[i][1], e.define[i][2]) \subseteq Connected(e)
                              /\ e.define[i][1] \in SeqToSet(Names(e))
<1> DEFINE f == Names(e)
<1>1. f = [i \in DOMAIN e.define |-> e.define[i][1]]
  BY DEF Names
<1>2. \A i \in DOMAIN e.define : f[i] \in SeqToSet(f) /\ f[i] = e.define[i][1]
  BY <1>1 DEF SeqToSet
<1>3. f = [i \in DOMAIN e.define |-> f[i]]
  BY <1>1
<1>4. IsList(f)
  <2> HIDE DEF f
  <2> QED
    BY <1>2, <1>3, MapList
<1>5. IsInjective(f)
  BY <1>1 DEF IsInjective
<1>6. ASSUME NEW m \in Connected(e) PROVE nameToNf(m[1]) \in KindsOf(x[1])
  <2>1. PICK i \in DOMAIN e.define : m \in On(e.define[i][1], e.define[i][2])
    BY DEF Connected
  <2>2. e.define[i][2] # {} /\ m[1] = e.define[i][1]
    BY <2>1 DEF On
  <2> QED
    BY <2>2
<1>7. \A i \in DOMAIN e.define : On(e.define[i][1], e.define[i][2]) \subseteq Connected(e)
  BY DEF Connected
<1> QED
  BY <1>2, <1>4, <1>5, <1>6, <1>7 DEF Defines

LEMMA DefinesOne ==
  ASSUME NEW x, NEW e, NEW c, NEW nets, e.define = <<<<c, nets>>>>,
         nets = {} \/ nameToNf(c) \in KindsOf(x[1])
  PROVE  Defines(x, e) /\ On(c, nets) \subseteq Connected(e) /\ c \in SeqToSet(Names(e))
<1>1. e.define \in Seq({<<c, nets>>}) /\ DOMAIN e.define = {1} /\ e.define[1][1] = c /\ e.define[1][2] = nets
  OBVIOUS
<1>2. IsList(e.define)
  BY <1>1, TypedList
<1> QED
  BY <1>1, <1>2, DefinesFacts

LEMMA DefinesNone ==
  ASSUME NEW x, NEW e, e.define = <<>>
  PROVE  Defines(x, e) /\ Connected(e) = {}
<1>1. IsList(e.define) /\ DOMAIN e.define = {}
  BY DEF IsList
<1>2. Connected(e) = {}
  BY <1>1 DEF Connected
<1> QED
  BY <1>1, <1>2, DefinesFacts

LEMMA DefinesTwo ==
  ASSUME NEW x, NEW e, NEW c, NEW nets, NEW d, NEW more, e.define = <<<<c, nets>>, <<d, more>>>>, c # d,
         nets = {} \/ nameToNf(c) \in KindsOf(x[1]), more = {} \/ nameToNf(d) \in KindsOf(x[1])
  PROVE  /\ Defines(x, e)
         /\ On(c, nets) \subseteq Connected(e) /\ c \in SeqToSet(Names(e))
         /\ On(d, more) \subseteq Connected(e)
<1>0. e.define \in Seq({<<c, nets>>, <<d, more>>})
  OBVIOUS
<1>1. /\ DOMAIN e.define = {1, 2}
      /\ e.define[1][1] = c /\ e.define[1][2] = nets /\ e.define[2][1] = d /\ e.define[2][2] = more
  OBVIOUS
<1>2. IsList(e.define)
  BY <1>0, TypedList
<1>3. \A i, j \in DOMAIN e.define : e.define[i][1] = e.define[j][1] => i = j
  BY <1>1
<1>4. \A i \in DOMAIN e.define : e.define[i][2] = {} \/ nameToNf(e.define[i][1]) \in KindsOf(x[1])
  BY <1>1
<1>5. /\ Defines(x, e)
      /\ \A i \in DOMAIN e.define : /\ On(e.define[i][1], e.define[i][2]) \subseteq Connected(e)
                                    /\ e.define[i][1] \in SeqToSet(Names(e))
  BY <1>2, <1>3, <1>4, DefinesFacts
<1>6. 1 \in DOMAIN e.define /\ 2 \in DOMAIN e.define
  BY <1>1
<1> QED
  BY <1>1, <1>5, <1>6

\* Only the UPFs of some providers can be taken over.
LEMMA NotTaken ==
  ASSUME args \in Inputs, LatePorts, NEW c,
         \/ nameToNf(c) # "upf"
         \/ \E upf \in SeqToSet(net.upfs) : args.up[upf] \in {"free5gc", "open5gs", "phoenix", "oai"}
  PROVE  ~ Takeable(c)
<1> SUFFICES ASSUME NEW i \in DOMAIN args.bridge, args.bridge[i].op = "~", args.bridge[i].nf = nameToNf(c)
             PROVE  FALSE
  BY DEF Takeable
<1>1. /\ args.bridge[i].nf = "upf"
      /\ \A upf \in SeqToSet(net.upfs) : args.up[upf] \in {"oai-vpp", "eupf", "bess", "ndndpdk"}
  BY DEF LatePorts, net
<1> QED
  BY <1>1

LEMMA AboutEffect ==
  ASSUME GenInv, NEW x, NEW e, Succeeds(e), x[1] \in Builders, Defines(x, e), Usual(e),
         NEW c, NEW nets, About(x, e, c, nets)
  PROVE  Effect(x, e)
<1>1. Tells(e)
  BY DEF About, TellsOf, Tells, On, Succeeds
<1>2. Asks(e)
  BY DEF About, Asks, Listings, Usual, On
<1>3. Marks(x, e)
  BY DEF About, Marks
<1>4. MakesPorts(x, e)
  BY DEF Usual, MakesPorts
<1>5. LooksAt(x, e)
  <2> SUFFICES ASSUME LatePorts, NEW l \in Looks(e)
               PROVE  l[1] \in {"mac", "place", "assume"} /\ l[1] = "assume" /\ ~ Takeable(l[2])
    BY DEF LooksAt
  <2>1. PICK m : m[1] \in e.awaits /\ l = <<"assume", m[1], m[2]>>
    BY DEF Looks, Usual
  <2> QED
    BY <2>1 DEF About
<1>6. Defers(e)
  BY DEF Usual, Defers, IsList, SeqToSet
<1>7. Simulates(e)
  BY DEF About, Simulates
<1>8. Achieves(x, e)
  <2>1. x[1] \notin Stages
    BY Apart
  <2> QED
    BY <2>1 DEF About, Achieves, Stages, On
<1>9. e.place = (x[1] = "place") /\ e.lists \in BOOLEAN
  <2>1. "place" \in Quiet
    BY DEF Quiet
  <2> QED
    BY <2>1, Apart DEF Usual
<1> QED
  BY <1>1, <1>2, <1>3, <1>4, <1>5, <1>6, <1>7, <1>8, <1>9 DEF Effect

\* A step is the one at hand, and it is one that may be.
LEMMA StepFacts ==
  ASSUME GenInv, NEW x, NEW e, Build(x, e)
  PROVE  /\ args \in Inputs /\ drawn \in {0, 1} /\ todo # <<>> /\ Head(todo) = x
         /\ x \in Ahead /\ Legal(x) /\ Needed(x) \subseteq ip /\ failed = <<>>
BY NextStep DEF Build, GenInv, GenTypeOK, Planned
-----------------------------------------------------------------------------
(* free5GC.                                                                    *)

CpKinds == {"mongo", "nrf", "webui", "webclient", "udr", "udm", "ausf", "bsf", "nssf", "pcf", "amf", "smf",
            "sql", "nwdaf"}

\* A network function of a control plane: one container.
LEMMA CpEffect ==
  ASSUME GenInv, NEW x, NEW e, Build(x, e), x[1] \in CpFirst, Usual(e),
         NEW c, NEW nets, e.define = <<<<c, nets>>>>, nameToNf(c) \in CpKinds,
         TellsOf(e, c, nets), e.qos \cup e.metrics \subseteq {c},
         e.list = {} \/ (e.list = {<<c, "upf", "n4">>} /\ "n4" \in nets),
         e.awaits = {} \/ e.awaits = {c}, e.simulate = {}, x[1] \in Storing => Everybody \subseteq e.store,
         x = <<"oaiNF", "smf">> => c = Ct("smf") /\ "n4" \in nets
  PROVE  Legitimate
<1>1. x[1] \in Builders /\ KindsOf(x[1]) = CpKinds
  BY Kinds DEF Builders, CpKinds
<1>2. Defines(x, e) /\ On(c, nets) \subseteq Connected(e) /\ c \in SeqToSet(Names(e))
  BY <1>1, DefinesOne
<1>3. LatePorts => ~ Takeable(c)
  BY StepFacts, NotTaken DEF CpKinds
<1>4. \A y \in Ahead : "upf" \notin KindsOf(y[1])
  <2>1. x[1] # "phBuilder" /\ Rank(x[1]) = 4
    BY <1>1, Apart, Ranks
  <2>2. ~ Pending(UpEarly \cup UpLate)
    BY <2>1, StepFacts, Past DEF GenInv
  <2>3. ASSUME NEW y \in Ahead PROVE "upf" \notin KindsOf(y[1])
    <3>1. y[1] \in Builders \cup Quiet \cup Stages /\ y[1] \notin UpEarly \cup UpLate
      BY <2>2, RankOfLegal DEF Pending, GenInv, Planned
    <3>2. y[1] \in CpFirst \cup CpConfig \cup RanBuild \cup Quiet \cup Stages
      BY <3>1 DEF Builders
    <3> QED
      BY <3>2, Kinds DEF Stages
  <2> QED
    BY <2>3
<1>5. About(x, e, c, nets)
  BY <1>2, <1>3, <1>4 DEF About
<1>6. Succeeds(e) => Effect(x, e)
  BY <1>1, <1>2, <1>5, AboutEffect
<1> QED
  BY <1>6 DEF Legitimate

LEMMA DatabaseFacts ==
  ASSUME NEW c
  PROVE  LET e == Database(c) IN
         /\ e.define = <<<<c, {"db"}>>>> /\ TellsOf(e, c, {"db"}) /\ Usual(e)
         /\ e.qos = {} /\ e.metrics = {} /\ e.list = {} /\ e.awaits = {} /\ e.simulate = {}
BY DEF Database, Nothing, Usual, TellsOf, Own

LEMMA F5Facts ==
  ASSUME NEW c, NEW nets, "cp" \in nets
  PROVE  LET e == F5Service(c, nets) IN
         /\ e.define = <<<<c, nets>>>> /\ TellsOf(e, c, nets) /\ Usual(e)
         /\ e.qos = {} /\ e.metrics = {} /\ e.list = {} /\ e.awaits = {} /\ e.simulate = {}
<1> DEFINE e == F5Service(c, nets)
<1>1. /\ e.define = <<<<c, nets>>>>
      /\ e.tell = Own(c, {"cp"}) \cup Of(c, {Nrf}, "cp") \cup (IF "db" \in nets THEN Of(c, {Mongo}, "db") ELSE {})
      /\ e.qos = {} /\ e.metrics = {} /\ e.list = {} /\ e.awaits = {} /\ e.simulate = {}
      /\ Usual(e)
  BY DEF F5Service, Nothing, Usual
<1>2. TellsOf(e, c, nets)
  BY <1>1 DEF TellsOf, Own, Of
<1> QED
  BY <1>1, <1>2

LEMMA F5Plain ==
  ASSUME GenInv, NEW s \in CpFirst \ (Storing \cup {"oaiNF"}), NEW c, NEW nets, "cp" \in nets,
         nameToNf(c) \in CpKinds, Build(<<s>>, F5Service(c, nets))
  PROVE  Legitimate
<1> DEFINE x == <<s>>
           e == F5Service(c, nets)
<1>1. /\ e.define = <<<<c, nets>>>> /\ TellsOf(e, c, nets) /\ Usual(e)
      /\ e.qos = {} /\ e.metrics = {} /\ e.list = {} /\ e.awaits = {} /\ e.simulate = {}
  BY F5Facts
<1>2. x[1] \in CpFirst /\ x[1] \notin Storing /\ x # <<"oaiNF", "smf">> /\ Build(x, e)
  OBVIOUS
<1> HIDE DEF x, e
<1>3. e.qos \cup e.metrics \subseteq {c}
  BY <1>1
<1> QED
  BY <1>1, <1>2, <1>3, CpEffect

LEMMA F5MongoStep == ASSUME GenInv, F5Mongo PROVE Legitimate
<1> DEFINE x == <<"f5Mongo">>
           e == Database(Mongo)
<1>1. Build(x, e)
  BY DEF F5Mongo
<1>2. /\ e.define = <<<<Mongo, {"db"}>>>> /\ TellsOf(e, Mongo, {"db"}) /\ Usual(e)
      /\ e.qos = {} /\ e.metrics = {} /\ e.list = {} /\ e.awaits = {} /\ e.simulate = {}
  BY DatabaseFacts
<1>3. x[1] \in CpFirst /\ x[1] \notin Storing /\ x # <<"oaiNF", "smf">> /\ nameToNf(Mongo) \in CpKinds
  BY DEF CpFirst, Storing, CpKinds, nameToNf, Mongo, Ct
<1> HIDE DEF x, e
<1>4. e.qos \cup e.metrics \subseteq {Mongo}
  BY <1>2
<1> QED
  BY <1>1, <1>2, <1>3, <1>4, CpEffect

LEMMA F5PlainSteps ==
  ASSUME GenInv, F5NRF \/ F5UDR \/ F5UDM \/ F5AUSF \/ F5NSSF \/ F5PCF
  PROVE  Legitimate
<1>1. \E s \in CpFirst \ (Storing \cup {"oaiNF"}) : \E c, nets :
        "cp" \in nets /\ nameToNf(c) \in CpKinds /\ Build(<<s>>, F5Service(c, nets))
  <2>1. /\ {"f5NRF", "f5UDR", "f5UDM", "f5AUSF", "f5NSSF", "f5PCF"} \subseteq CpFirst \ (Storing \cup {"oaiNF"})
        /\ nameToNf(Nrf) \in CpKinds
        /\ \A k \in {"udr", "udm", "ausf", "nssf", "pcf"} : nameToNf(Ct(k)) \in CpKinds
    BY DEF CpFirst, Storing, CpKinds, Nrf, Ct, nameToNf
  <2> QED
    BY <2>1 DEF F5NRF, F5UDR, F5UDM, F5AUSF, F5NSSF, F5PCF
<1> QED
  BY <1>1, F5Plain

LEMMA F5WebUIStep == ASSUME GenInv, F5WebUI PROVE Legitimate
<1> DEFINE x == <<"f5WebUI">>
           nets == {"mgmt", "db", "cp"}
           f == F5Service(WebUI, nets)
           e == [f EXCEPT !.tell = @ \cup Own(WebUI, {"mgmt"})]
<1>1. Build(x, e)
  BY DEF F5WebUI
<1>2. /\ e.define = <<<<WebUI, nets>>>> /\ e.tell = f.tell \cup Own(WebUI, {"mgmt"}) /\ Usual(e)
      /\ e.qos = {} /\ e.metrics = {} /\ e.list = {} /\ e.awaits = {} /\ e.simulate = {}
  BY DEF F5Service, Nothing, Usual
<1>3. x[1] \in CpFirst /\ x[1] \notin Storing /\ x # <<"oaiNF", "smf">> /\ nameToNf(WebUI) \in CpKinds
  BY DEF CpFirst, Storing, CpKinds, nameToNf, WebUI, Ct
<1>4. TellsOf(f, WebUI, nets)
  BY F5Facts
<1> HIDE DEF x, e, f, nets
<1>5. e.qos \cup e.metrics \subseteq {WebUI} /\ TellsOf(e, WebUI, nets)
  BY <1>2, <1>4 DEF TellsOf, Own
<1> QED
  BY <1>1, <1>2, <1>3, <1>5, CpEffect

LEMMA F5WebClientStep == ASSUME GenInv, F5WebClient PROVE Legitimate
<1> DEFINE x == <<"f5WebClient">>
           c == Ct("webclient")
           e == [Nothing EXCEPT !.define = <<<<c, WebClientNets>>>>,
                   !.tell = Of(c, {WebUI}, "mgmt"),
                   !.wait = {<<c, "port", WebUI, "mgmt">>},
                   !.lists = TRUE,
                   !.ok = KnownDNs,
                   !.store = AllSubscribed]
<1>1. Build(x, e)
  BY DEF F5WebClient
<1>2. /\ e.define = <<<<c, WebClientNets>>>> /\ e.tell = Of(c, {WebUI}, "mgmt") /\ Usual(e)
      /\ e.qos = {} /\ e.metrics = {} /\ e.list = {} /\ e.awaits = {} /\ e.simulate = {}
      /\ e.store = AllSubscribed
  BY DEF Nothing, Usual
<1>3. x[1] \in CpFirst /\ x # <<"oaiNF", "smf">> /\ nameToNf(c) \in CpKinds
  BY DEF CpFirst, CpKinds, nameToNf, Ct
<1> HIDE DEF x, e, c
<1>4. e.qos \cup e.metrics \subseteq {c} /\ TellsOf(e, c, WebClientNets)
  BY <1>2 DEF TellsOf, Of, WebClientNets
<1>5. Everybody \subseteq e.store
  BY <1>1, <1>2, StepFacts, StoredFacts
<1> QED
  BY <1>1, <1>2, <1>3, <1>4, <1>5, CpEffect

LEMMA F5AMFStep == ASSUME GenInv, F5AMF PROVE Legitimate
<1>1. PICK amf \in SeqToSet(Amfs(net)) :
        Build(<<"f5AMF", amf.name>>, [F5Service(amf.name, {"cp", "n2"}) EXCEPT !.tell = @ \cup Own(amf.name, {"n2"}),
                                                                              !.awaits = {amf.name}])
  BY DEF F5AMF
<1> DEFINE c == amf.name
           x == <<"f5AMF", c>>
           nets == {"cp", "n2"}
           f == F5Service(c, nets)
           e == [f EXCEPT !.tell = @ \cup Own(c, {"n2"}), !.awaits = {c}]
<1>2. Build(x, e)
  BY <1>1
<1>3. /\ e.define = <<<<c, nets>>>> /\ e.tell = f.tell \cup Own(c, {"n2"}) /\ Usual(e)
      /\ e.qos = {} /\ e.metrics = {} /\ e.list = {} /\ e.awaits = {c} /\ e.simulate = {}
  BY DEF F5Service, Nothing, Usual
<1>4. x[1] \in CpFirst /\ x[1] \notin Storing /\ x # <<"oaiNF", "smf">>
  BY DEF CpFirst, Storing
<1>5. TellsOf(f, c, nets)
  BY F5Facts
<1>6. nameToNf(c) \in CpKinds
  BY <1>1, <1>2, StepFacts, NetFacts DEF CpKinds
<1> HIDE DEF x, e, f, c, nets
<1>7. e.qos \cup e.metrics \subseteq {c} /\ TellsOf(e, c, nets)
  BY <1>3, <1>5 DEF TellsOf, Own
<1> QED
  BY <1>2, <1>3, <1>4, <1>6, <1>7, CpEffect

LEMMA F5SMFStep == ASSUME GenInv, F5SMF PROVE Legitimate
<1>1. PICK smf \in SeqToSet(Smfs(net)) :
        Build(<<"f5SMF", smf.name>>,
          [F5Service(smf.name, {"cp", "n4"}) EXCEPT
             !.ok = SameN3(net) /\ UpfsKnown,
             !.awaits = {smf.name},
             !.tell = @ \cup Own(smf.name, {"n4"}) \cup UpfsFor(smf.name)])
  BY DEF F5SMF
<1> DEFINE c == smf.name
           x == <<"f5SMF", c>>
           nets == {"cp", "n4"}
           f == F5Service(c, nets)
           e == [f EXCEPT !.ok = SameN3(net) /\ UpfsKnown, !.awaits = {c},
                          !.tell = @ \cup Own(c, {"n4"}) \cup UpfsFor(c)]
<1>2. Build(x, e)
  BY <1>1
<1>3. /\ e.define = <<<<c, nets>>>> /\ e.tell = f.tell \cup Own(c, {"n4"}) \cup UpfsFor(c) /\ Usual(e)
      /\ e.qos = {} /\ e.metrics = {} /\ e.list = {} /\ e.awaits = {c} /\ e.simulate = {}
  BY DEF F5Service, Nothing, Usual
<1>4. x[1] \in CpFirst /\ x[1] \notin Storing /\ x # <<"oaiNF", "smf">>
  BY DEF CpFirst, Storing
<1>5. TellsOf(f, c, nets)
  BY F5Facts
<1>6. nameToNf(c) \in CpKinds
  BY <1>1, <1>2, StepFacts, NetFacts DEF CpKinds
<1>7. "n4" \in nets
  OBVIOUS
<1> HIDE DEF x, e, f, c, nets
<1>8. e.qos \cup e.metrics \subseteq {c} /\ TellsOf(e, c, nets)
  BY <1>3, <1>5, <1>7 DEF TellsOf, Own, UpfsFor, Of
<1> QED
  BY <1>2, <1>3, <1>4, <1>6, <1>8, CpEffect

LEMMA Free5gcFacts == ASSUME GenInv, Free5gc PROVE Legitimate
BY F5MongoStep, F5PlainSteps, F5WebUIStep, F5WebClientStep, F5AMFStep, F5SMFStep DEF Free5gc
-----------------------------------------------------------------------------
(* Open5GS.                                                                    *)

\* One container of a network function, its addresses, and the start of its script.
CpService(e, c, nets) ==
  /\ e.define = <<<<c, nets>>>> /\ TellsOf(e, c, nets) /\ Usual(e)
  /\ e.qos \cup e.metrics \subseteq {c} /\ e.list = {} /\ e.simulate = {}
  /\ e.awaits = {} \/ e.awaits = {c}

LEMMA CpPlain ==
  ASSUME GenInv, NEW x, NEW e, Build(x, e), x[1] \in CpFirst \ Storing, x # <<"oaiNF", "smf">>,
         NEW c, NEW nets, CpService(e, c, nets), nameToNf(c) \in CpKinds
  PROVE  Legitimate
BY CpEffect DEF CpService

LEMMA O5Facts ==
  ASSUME NEW c, NEW nets, NEW e,
         e \in {O5Base(c, nets), O5Service(c, nets)}
  PROVE  CpService(e, c, nets)
<1>1. /\ e.define = <<<<c, nets>>>>
      /\ e.tell = (IF "cp" \in nets THEN Own(c, {"cp"}) \cup Of(c, {Nrf}, "cp") ELSE {})
                  \cup (IF "db" \in nets THEN Of(c, {Mongo}, "db") ELSE {})
                  \cup (IF "mgmt" \in nets THEN Own(c, {"mgmt"}) ELSE {})
      /\ e.qos = {} /\ e.metrics = {} /\ e.list = {} /\ e.simulate = {}
      /\ e.awaits = {} \/ e.awaits = {c}
      /\ Usual(e)
  <2>1. CASE e = O5Base(c, nets)
    BY <2>1 DEF O5Base, Nothing, Usual
  <2>2. CASE e = O5Service(c, nets)
    BY <2>2 DEF O5Base, O5Service, Nothing, Usual
  <2> QED
    BY <2>1, <2>2
<1>2. TellsOf(e, c, nets)
  BY <1>1 DEF TellsOf, Own, Of
<1> QED
  BY <1>1, <1>2 DEF CpService

LEMMA O5Names ==
  /\ {"o5NRF", "o5OnlySbi", "o5PCF", "o5NSSF", "o5AMF", "o5SMF", "o5WebUI"} \subseteq CpFirst \ Storing
  /\ \A k \in CpKinds : nameToNf(Ct(k)) \in CpKinds
  /\ nameToNf(Nrf) \in CpKinds /\ nameToNf(WebUI) \in CpKinds /\ nameToNf(Mongo) \in CpKinds
  /\ nameToNf(Sql) \in CpKinds
BY DEF CpFirst, Storing, CpKinds, Nrf, WebUI, Mongo, Sql, Ct, nameToNf

LEMMA O5MongoStep == ASSUME GenInv, O5Mongo PROVE Legitimate
<1> DEFINE x == <<"o5Mongo">>
           e == [Database(Mongo) EXCEPT !.lists = TRUE,
                   !.store = UNION {Uses(sub, Dbctl(sub)) : sub \in SeqToSet(net.subs)}]
<1>1. Build(x, e)
  BY DEF O5Mongo
<1>2. /\ e.define = <<<<Mongo, {"db"}>>>> /\ e.tell = Own(Mongo, {"db"}) /\ Usual(e)
      /\ e.qos = {} /\ e.metrics = {} /\ e.list = {} /\ e.awaits = {} /\ e.simulate = {}
      /\ e.store = UNION {Uses(sub, Dbctl(sub)) : sub \in SeqToSet(net.subs)}
  BY DEF Database, Nothing, Usual
<1>3. x[1] \in CpFirst /\ x # <<"oaiNF", "smf">> /\ nameToNf(Mongo) \in CpKinds
  BY O5Names DEF CpFirst
<1> HIDE DEF x, e
<1>4. e.qos \cup e.metrics \subseteq {Mongo} /\ TellsOf(e, Mongo, {"db"})
  BY <1>2 DEF TellsOf, Own
<1>5. Everybody \subseteq e.store
  BY <1>1, <1>2, StepFacts, StoredFacts
<1> QED
  BY <1>1, <1>2, <1>3, <1>4, <1>5, CpEffect

\* Those that are nothing but a service.
LEMMA O5PlainSteps ==
  ASSUME GenInv, O5NRF \/ O5OnlySbi \/ O5NSSF \/ O5WebUI
  PROVE  Legitimate
<1>1. CASE O5NRF
  <2>1. Build(<<"o5NRF">>, O5Service(Nrf, {"cp"}))
    BY <1>1 DEF O5NRF
  <2>2. CpService(O5Service(Nrf, {"cp"}), Nrf, {"cp"})
    BY O5Facts
  <2> QED
    BY <2>1, <2>2, O5Names, CpPlain
<1>2. CASE O5OnlySbi
  <2>1. PICK nf \in {"udr", "udm", "ausf", "bsf"} :
          Build(<<"o5OnlySbi", nf>>, O5Service(Ct(nf), IF nf = "udr" THEN {"cp", "db"} ELSE {"cp"}))
    BY <1>2 DEF O5OnlySbi
  <2> DEFINE nets == IF nf = "udr" THEN {"cp", "db"} ELSE {"cp"}
             x == <<"o5OnlySbi", nf>>
  <2>2. "cp" \in nets /\ x[1] \in CpFirst \ Storing /\ x # <<"oaiNF", "smf">>
    BY O5Names
  <2>3. nameToNf(Ct(nf)) \in CpKinds
    BY O5Names DEF CpKinds
  <2>4. Build(x, O5Service(Ct(nf), nets))
    BY <2>1
  <2> HIDE DEF nets, x
  <2>5. CpService(O5Service(Ct(nf), nets), Ct(nf), nets)
    BY <2>2, O5Facts
  <2> QED
    BY <2>2, <2>3, <2>4, <2>5, CpPlain
<1>3. CASE O5NSSF
  <2>1. Build(<<"o5NSSF">>, O5Service(Ct("nssf"), {"cp"}))
    BY <1>3 DEF O5NSSF
  <2>2. CpService(O5Service(Ct("nssf"), {"cp"}), Ct("nssf"), {"cp"})
    BY O5Facts
  <2>3. nameToNf(Ct("nssf")) \in CpKinds
    BY O5Names DEF CpKinds
  <2> QED
    BY <2>1, <2>2, <2>3, O5Names, CpPlain
<1>4. CASE O5WebUI
  <2> DEFINE e == O5Base(WebUI, {"mgmt", "db"})
  <2>1. Build(<<"o5WebUI">>, e)
    BY <1>4 DEF O5WebUI
  <2>3. CpService(e, WebUI, {"mgmt", "db"})
    BY O5Facts
  <2> QED
    BY <2>1, <2>3, O5Names, CpPlain
<1> QED
  BY <1>1, <1>2, <1>3, <1>4

LEMMA O5PCFStep == ASSUME GenInv, O5PCF PROVE Legitimate
<1> DEFINE x == <<"o5PCF">>
           c == Ct("pcf")
           nets == {"mgmt", "db", "cp"}
           f == O5Service(c, nets)
           e == [f EXCEPT !.metrics = {c}]
<1>1. Build(x, e)
  BY DEF O5PCF
<1>2. /\ e.define = f.define /\ e.tell = f.tell /\ e.qos = f.qos /\ e.list = f.list /\ e.simulate = f.simulate
      /\ e.awaits = f.awaits /\ e.metrics = {c} /\ Usual(e)
  BY DEF O5Service, O5Base, Nothing, Usual
<1>3. x[1] \in CpFirst \ Storing /\ x # <<"oaiNF", "smf">> /\ nameToNf(c) \in CpKinds
  BY O5Names DEF CpKinds
<1>4. CpService(f, c, nets)
  BY O5Facts
<1> HIDE DEF x, e, f, c, nets
<1>5. CpService(e, c, nets)
  BY <1>2, <1>4 DEF CpService, TellsOf
<1> QED
  BY <1>1, <1>3, <1>5, CpPlain

LEMMA O5AMFStep == ASSUME GenInv, O5AMF PROVE Legitimate
<1>1. PICK amf \in SeqToSet(Amfs(net)) :
        Build(<<"o5AMF", amf.name>>,
          [O5Service(amf.name, {"mgmt", "cp", "n2"}) EXCEPT
             !.tell = @ \cup Own(amf.name, {"n2"}),
             !.metrics = {amf.name}])
  BY DEF O5AMF
<1> DEFINE c == amf.name
           x == <<"o5AMF", c>>
           nets == {"mgmt", "cp", "n2"}
           f == O5Service(c, nets)
           e == [f EXCEPT !.tell = @ \cup Own(c, {"n2"}), !.metrics = {c}]
<1>2. Build(x, e)
  BY <1>1
<1>3. /\ e.define = f.define /\ e.tell = f.tell \cup Own(c, {"n2"}) /\ e.qos = f.qos /\ e.list = f.list
      /\ e.simulate = f.simulate /\ e.awaits = f.awaits /\ e.metrics = {c} /\ Usual(e)
  BY DEF O5Service, O5Base, Nothing, Usual
<1>4. x[1] \in CpFirst \ Storing /\ x # <<"oaiNF", "smf">>
  BY O5Names
<1>5. CpService(f, c, nets)
  BY O5Facts
<1>6. nameToNf(c) \in CpKinds
  BY <1>1, <1>2, StepFacts, NetFacts DEF CpKinds
<1> HIDE DEF x, e, f, c, nets
<1>7. TellsOf(e, c, nets)
  BY <1>3, <1>5 DEF CpService, TellsOf, Own
<1>8. CpService(e, c, nets)
  BY <1>3, <1>5, <1>7 DEF CpService
<1> QED
  BY <1>2, <1>4, <1>6, <1>8, CpPlain

LEMMA O5SMFStep == ASSUME GenInv, O5SMF PROVE Legitimate
<1>1. PICK smf \in SeqToSet(Smfs(net)) :
        Build(<<"o5SMF", smf.name>>,
          [O5Service(smf.name, {"mgmt", "cp", "n4"}) EXCEPT
             !.ok = UpfsKnown,
             !.tell = @ \cup Own(smf.name, {"n4"}) \cup UpfsFor(smf.name),
             !.metrics = {smf.name}])
  BY DEF O5SMF
<1> DEFINE c == smf.name
           x == <<"o5SMF", c>>
           nets == {"mgmt", "cp", "n4"}
           f == O5Service(c, nets)
           e == [f EXCEPT !.ok = UpfsKnown, !.tell = @ \cup Own(c, {"n4"}) \cup UpfsFor(c), !.metrics = {c}]
<1>2. Build(x, e)
  BY <1>1
<1>3. /\ e.define = f.define /\ e.tell = f.tell \cup Own(c, {"n4"}) \cup UpfsFor(c) /\ e.qos = f.qos
      /\ e.list = f.list /\ e.simulate = f.simulate /\ e.awaits = f.awaits /\ e.metrics = {c} /\ Usual(e)
  BY DEF O5Service, O5Base, Nothing, Usual
<1>4. x[1] \in CpFirst \ Storing /\ x # <<"oaiNF", "smf">>
  BY O5Names
<1>5. CpService(f, c, nets) /\ "n4" \in nets
  BY O5Facts
<1>6. nameToNf(c) \in CpKinds
  BY <1>1, <1>2, StepFacts, NetFacts DEF CpKinds
<1> HIDE DEF x, e, f, c, nets
<1>7. TellsOf(e, c, nets)
  BY <1>3, <1>5 DEF CpService, TellsOf, Own, UpfsFor, Of
<1>8. CpService(e, c, nets)
  BY <1>3, <1>5, <1>7 DEF CpService
<1> QED
  BY <1>2, <1>4, <1>6, <1>8, CpPlain

LEMMA Open5gsFacts == ASSUME GenInv, Open5gs PROVE Legitimate
BY O5MongoStep, O5PlainSteps, O5PCFStep, O5AMFStep, O5SMFStep DEF Open5gs
-----------------------------------------------------------------------------
(* OAI-CN5G, control plane.                                                    *)

\* A step that defines nothing.
LEMMA BareEffect ==
  ASSUME GenInv, NEW x, NEW e, Build(x, e),
         e.define = <<>>, e.list = {}, e.scan = {}, e.look = {}, e.defer = <<>>, e.ports = {},
         e.qos = {}, e.metrics = {}, e.simulate = {}, e.lists \in BOOLEAN, e.place = (x[1] = "place"),
         Succeeds(e) => Tells(e),
         LatePorts => \A c \in e.awaits : ~ Takeable(c),
         x[1] \notin {"dn", "oaiNF", "saveQoS", "buildPrometheus"} \cup Storing,
         x[1] = "prushOptions" /\ Succeeds(e) =>
           PrushPairs # <<>> /\ Paired(PrushPairs) /\ (args.prushMulti => Alike(PrushPairs))
  PROVE  Legitimate
<1> SUFFICES ASSUME Succeeds(e) PROVE Effect(x, e)
  BY DEF Legitimate
<1>1. Defines(x, e)
  BY DefinesNone
<1>2. Asks(e)
  BY DEF Asks, Listings
<1>3. Marks(x, e) /\ MakesPorts(x, e) /\ Simulates(e)
  BY DEF Marks, MakesPorts, Simulates
<1>4. LooksAt(x, e)
  <2> SUFFICES ASSUME LatePorts, NEW l \in Looks(e)
               PROVE  l[1] \in {"mac", "place", "assume"} /\ l[1] = "assume" /\ ~ Takeable(l[2])
    BY DEF LooksAt
  <2>1. PICK m : m[1] \in e.awaits /\ l = <<"assume", m[1], m[2]>>
    BY DEF Looks
  <2> QED
    BY <2>1
<1>5. Defers(e)
  BY DEF Defers, IsList, SeqToSet
<1>6. Achieves(x, e)
  BY DEF Achieves
<1> QED
  BY <1>1, <1>2, <1>3, <1>4, <1>5, <1>6 DEF Effect

LEMMA OaiNames ==
  /\ {"oaiSQL", "oaiNF"} \subseteq CpFirst /\ "oaiNF" \notin Storing
  /\ CpConfig \subseteq Builders /\ CpConfig \cap Storing = {}
BY DEF CpFirst, CpConfig, Storing, Builders

LEMMA OaiSQLStep == ASSUME GenInv, OaiSQL PROVE Legitimate
<1> DEFINE x == <<"oaiSQL">>
           e == [Database(Sql) EXCEPT !.lists = TRUE, !.ok = KnownDNs, !.store = AllSubscribed]
<1>1. Build(x, e)
  BY DEF OaiSQL
<1>2. /\ e.define = <<<<Sql, {"db"}>>>> /\ e.tell = Own(Sql, {"db"}) /\ Usual(e)
      /\ e.qos = {} /\ e.metrics = {} /\ e.list = {} /\ e.awaits = {} /\ e.simulate = {}
      /\ e.store = AllSubscribed
  BY DEF Database, Nothing, Usual
<1>3. x[1] \in CpFirst /\ x # <<"oaiNF", "smf">> /\ nameToNf(Sql) \in CpKinds
  BY O5Names, OaiNames
<1> HIDE DEF x, e
<1>4. e.qos \cup e.metrics \subseteq {Sql} /\ TellsOf(e, Sql, {"db"})
  BY <1>2 DEF TellsOf, Own
<1>5. Everybody \subseteq e.store
  BY <1>1, <1>2, StepFacts, StoredFacts
<1> QED
  BY <1>1, <1>2, <1>3, <1>4, <1>5, CpEffect

LEMMA OaiNFStep == ASSUME GenInv, OaiNF PROVE Legitimate
<1>1. PICK nf \in DOMAIN OaiTemplate : Build(<<"oaiNF", nf>>, OaiService(Ct(nf), OaiTemplate[nf] \cup {"db"}))
  BY DEF OaiNF
<1> DEFINE c == Ct(nf)
           x == <<"oaiNF", nf>>
           nets == OaiTemplate[nf] \cup {"db"}
           e == OaiService(c, nets)
<1>2. Build(x, e)
  BY <1>1
<1>3. /\ e.define = <<<<c, nets>>>> /\ e.tell = Own(c, {"cp"}) /\ Usual(e)
      /\ e.qos = {} /\ e.metrics = {} /\ e.list = {} /\ e.awaits = {} /\ e.simulate = {}
  BY DEF OaiService, Nothing, Usual
<1>4. nf \in {"amf", "smf", "udm", "udr", "ausf", "nrf", "pcf"}
  BY DEF OaiTemplate
<1>5. nameToNf(c) \in CpKinds
  BY <1>4, O5Names DEF CpKinds
<1>6. x = <<"oaiNF", "smf">> => c = Ct("smf") /\ "n4" \in nets
  <2>1. "n4" \in OaiTemplate["smf"]
    BY DEF OaiTemplate
  <2>2. x = <<"oaiNF", "smf">> => nf = "smf"
    OBVIOUS
  <2> QED
    BY <2>1, <2>2
<1>7. x[1] \in CpFirst /\ x[1] \notin Storing
  BY OaiNames
<1> HIDE DEF x, e, c, nets
<1>8. e.qos \cup e.metrics \subseteq {c} /\ TellsOf(e, c, nets)
  BY <1>3 DEF TellsOf, Own
<1> QED
  BY <1>2, <1>3, <1>5, <1>6, <1>7, <1>8, CpEffect

LEMMA CheckStep ==
  ASSUME GenInv, NEW s \in {"oaiConfigAMF", "oaiPCF"}, NEW e, Build(<<s>>, e),
         e.define = <<>>, e.list = {}, e.scan = {}, e.look = {}, e.defer = <<>>, e.ports = {},
         e.qos = {}, e.metrics = {}, e.simulate = {}, e.lists = FALSE, e.place = FALSE,
         e.tell = {}, e.awaits = {}
  PROVE  Legitimate
<1> DEFINE x == <<s>>
<1>1. /\ x[1] \notin {"dn", "oaiNF", "saveQoS", "buildPrometheus"} \cup Storing
      /\ x[1] # "place" /\ x[1] # "prushOptions" /\ Build(x, e)
  BY DEF Storing
<1> HIDE DEF x
<1>2. Tells(e)
  BY DEF Tells
<1> QED
  BY <1>1, <1>2, BareEffect

LEMMA OaiCheckSteps ==
  ASSUME GenInv, OaiConfigAMF \/ OaiPCF
  PROVE  Legitimate
<1>1. CASE OaiConfigAMF
  <2> DEFINE e == [Nothing EXCEPT !.ok = Len(Amfs(net)) = 1]
  <2>1. Build(<<"oaiConfigAMF">>, e)
    BY <1>1 DEF OaiConfigAMF
  <2>2. /\ e.define = <<>> /\ e.list = {} /\ e.scan = {} /\ e.look = {} /\ e.defer = <<>> /\ e.ports = {}
        /\ e.qos = {} /\ e.metrics = {} /\ e.simulate = {} /\ e.lists = FALSE /\ e.place = FALSE
        /\ e.tell = {} /\ e.awaits = {}
    BY DEF Nothing
  <2> HIDE DEF e
  <2> QED
    BY <2>1, <2>2, CheckStep
<1>2. CASE OaiPCF
  <2> DEFINE e == [Nothing EXCEPT !.ok = SameN3(net)]
  <2>1. Build(<<"oaiPCF">>, e)
    BY <1>2 DEF OaiPCF
  <2>2. /\ e.define = <<>> /\ e.list = {} /\ e.scan = {} /\ e.look = {} /\ e.defer = <<>> /\ e.ports = {}
        /\ e.qos = {} /\ e.metrics = {} /\ e.simulate = {} /\ e.lists = FALSE /\ e.place = FALSE
        /\ e.tell = {} /\ e.awaits = {}
    BY DEF Nothing
  <2> HIDE DEF e
  <2> QED
    BY <2>1, <2>2, CheckStep
<1> QED
  BY <1>1, <1>2

\* The SMF has been defined.
LEMMA OaiConfigSMFStep == ASSUME GenInv, OaiConfigSMF PROVE Legitimate
<1> DEFINE x == <<"oaiConfigSMF">>
           e == [Nothing EXCEPT !.ok = Len(Smfs(net)) = 1 /\ UpfsKnown, !.tell = UpfsFor(Ct("smf"))]
<1>1. Build(x, e)
  BY DEF OaiConfigSMF
<1>2. /\ e.define = <<>> /\ e.list = {} /\ e.scan = {} /\ e.look = {} /\ e.defer = <<>> /\ e.ports = {}
      /\ e.qos = {} /\ e.metrics = {} /\ e.simulate = {} /\ e.lists \in BOOLEAN /\ e.place = FALSE
      /\ e.tell = UpfsFor(Ct("smf")) /\ e.awaits = {}
  BY DEF Nothing
<1>3. /\ x[1] \notin {"dn", "oaiNF", "saveQoS", "buildPrometheus"} \cup Storing
      /\ x[1] # "place" /\ x[1] # "prushOptions" /\ x[1] \in CpConfig /\ x[1] # "phBuilder"
  BY DEF Storing, CpConfig
<1>4. x[1] = "oaiConfigSMF"
  OBVIOUS
<1> HIDE DEF x, e
<1>5. <<"oaiNF", "smf">> \notin Ahead
  <2> DEFINE y == <<"oaiNF", "smf">>
  <2>1. y[1] \in CpFirst /\ y[1] # "phBuilder"
    BY OaiNames
  <2>2. Rank(y[1]) = 4 /\ Rank(x[1]) = 5
    BY <1>3, <2>1, Ranks
  <2>3. \A z \in Ahead : z[1] = "phBuilder" \/ Rank(x[1]) <= Rank(z[1])
    BY <1>1, <1>3, StepFacts, Order DEF GenInv
  <2> QED
    BY <2>1, <2>2, <2>3
<1>6. <<Ct("smf"), "n4">> \in ip
  <2>1. Pending({"oaiConfigSMF"}) /\ failed = <<>>
    BY <1>1, <1>4, StepFacts DEF Pending
  <2> QED
    BY <1>5, <2>1 DEF GenInv, Arranged
<1>7. Tells(e)
  BY <1>2, <1>6 DEF Tells, UpfsFor, Of
<1> QED
  BY <1>1, <1>2, <1>3, <1>7, BareEffect

\* One list before another.
LEMMA ConcatFacts ==
  ASSUME NEW U, NEW s \in Seq(U), NEW t \in Seq(U)
  PROVE  /\ s \o t \in Seq(U) /\ Len(s \o t) = Len(s) + Len(t) /\ DOMAIN (s \o t) = 1 .. Len(s) + Len(t)
         /\ \A i \in 1 .. Len(s) : (s \o t)[i] = s[i]
         /\ \A i \in 1 .. Len(t) : (s \o t)[Len(s) + i] = t[i]
OBVIOUS

\* A list of seven with one more before and one more after it.
IsNine(d, a, m, b) ==
  /\ IsList(d) /\ DOMAIN d = 1 .. 9 /\ d[1] = a /\ d[9] = b
  /\ \A i \in 2 .. 8 : d[i] = m[i - 1]

LEMMA NineFacts ==
  ASSUME NEW U, NEW a \in U, NEW b \in U, NEW m \in Seq(U)
  PROVE  Len(m) = 7 => IsNine(<<a>> \o m \o <<b>>, a, m, b)
<1> DEFINE f == <<a>>
           l == <<b>>
           g == f \o m
           d == g \o l
<1>1. f \in Seq(U) /\ l \in Seq(U)
  OBVIOUS
<1>2. Len(f) = 1 /\ f[1] = a /\ Len(l) = 1 /\ l[1] = b
  OBVIOUS
<1> HIDE DEF f, l
<1>3. /\ g \in Seq(U) /\ Len(g) = Len(f) + Len(m)
      /\ \A i \in 1 .. Len(f) : g[i] = f[i]
      /\ \A i \in 1 .. Len(m) : g[Len(f) + i] = m[i]
  BY <1>1, ConcatFacts
<1>4. g \in Seq(U)
  BY <1>3
<1> HIDE DEF g
<1>5. /\ d \in Seq(U) /\ DOMAIN d = 1 .. Len(g) + Len(l)
      /\ \A i \in 1 .. Len(g) : d[i] = g[i]
      /\ \A i \in 1 .. Len(l) : d[Len(g) + i] = l[i]
  BY <1>1, <1>4, ConcatFacts
<1> HIDE DEF d
<1> SUFFICES ASSUME Len(m) = 7
             PROVE  IsNine(d, a, m, b)
  BY DEF d, g, f, l
<1>6. Len(g) = 8 /\ g[1] = a /\ \A i \in 1 .. 7 : g[1 + i] = m[i]
  BY <1>2, <1>3
<1>7. d \in Seq(U) /\ DOMAIN d = 1 .. 9 /\ d[9] = b /\ \A i \in 1 .. 8 : d[i] = g[i]
  BY <1>2, <1>5, <1>6
<1>8. IsList(d)
  BY <1>7, TypedList
<1>9. d[1] = a
  BY <1>6, <1>7
<1>10. ASSUME NEW i \in 2 .. 8 PROVE d[i] = m[i - 1]
  <2>1. i - 1 \in 1 .. 7 /\ 1 + (i - 1) = i /\ i \in 1 .. 8
    OBVIOUS
  <2>2. g[1 + (i - 1)] = m[i - 1]
    BY <1>6, <2>1
  <2> QED
    BY <1>7, <2>1, <2>2
<1> QED
  BY <1>7, <1>8, <1>9, <1>10 DEF IsNine

\* NWDAF: services that are told of the AMF and the SMF.
LEMMA OaiNWDAFStep == ASSUME GenInv, OaiNWDAF PROVE Legitimate
<1> DEFINE x == <<"oaiNWDAF">>
           sbi == <<"nwdaf", "sbi">>
           cli == <<"nwdaf", "cli">>
           e == [Nothing EXCEPT
                  !.define = <<<<NwdafDb, {"nwdafdb"}>>>>
                             \o [i \in DOMAIN Nwdaf |-> <<<<"nwdaf", Nwdaf[i]>>, NwdafNets(Nwdaf[i])>>]
                             \o <<<<cli, {"nwdaf"}>>>>,
                  !.tell = {<<sbi, FirstOf(nf), "cp">> : nf \in {"amf", "smf"}}
                           \cup Of(cli, {<<"nwdaf", "nbigateway">>}, "nwdaf"),
                  !.wait = {<<sbi, "port", FirstOf(nf), "cp">> : nf \in {"amf", "smf"}}]
           mid == [i \in 1 .. 7 |-> <<<<"nwdaf", Nwdaf[i]>>, NwdafNets(Nwdaf[i])>>]
           d == <<<<NwdafDb, {"nwdafdb"}>>>> \o mid \o <<<<cli, {"nwdaf"}>>>>
<1>1. Build(x, e)
  BY DEF OaiNWDAF
<1>2. DOMAIN Nwdaf = 1 .. 7
  BY DEF Nwdaf
<1>3. /\ e.define = d
      /\ e.tell = {<<sbi, FirstOf(nf), "cp">> : nf \in {"amf", "smf"}}
                  \cup Of(cli, {<<"nwdaf", "nbigateway">>}, "nwdaf")
      /\ Usual(e)
      /\ e.qos = {} /\ e.metrics = {} /\ e.list = {} /\ e.awaits = {} /\ e.simulate = {}
  BY <1>2 DEF Nothing, Usual
<1>4. x[1] \in CpConfig /\ x[1] \in Builders /\ x[1] \notin Storing /\ x # <<"oaiNF", "smf">>
  BY OaiNames DEF CpConfig
<1>5. "nwdaf" \in KindsOf(x[1])
  BY <1>4, Kinds
<1>6. /\ DOMAIN d = 1 .. 9
      /\ d[1] = <<NwdafDb, {"nwdafdb"}>> /\ d[9] = <<cli, {"nwdaf"}>>
      /\ \A i \in 2 .. 8 : d[i] = <<<<"nwdaf", Nwdaf[i - 1]>>, NwdafNets(Nwdaf[i - 1])>>
      /\ IsList(d)
  <2> DEFINE a == <<NwdafDb, {"nwdafdb"}>>
             b == <<cli, {"nwdaf"}>>
             U == {a, b} \cup {mid[i] : i \in 1 .. 7}
  <2>1. mid \in Seq(U) /\ Len(mid) = 7
    <3>1. mid = [i \in 1 .. 7 |-> mid[i]] /\ \A i \in 1 .. 7 : mid[i] \in U
      OBVIOUS
    <3> HIDE DEF mid, U
    <3> QED
      BY <3>1, RangeList
  <2>2. \A i \in 1 .. 7 : mid[i] = <<<<"nwdaf", Nwdaf[i]>>, NwdafNets(Nwdaf[i])>>
    OBVIOUS
  <2>3. a \in U /\ b \in U /\ d = <<a>> \o mid \o <<b>>
    OBVIOUS
  <2> HIDE DEF mid, U, d
  <2>4. IsList(d) /\ DOMAIN d = 1 .. 9 /\ d[1] = a /\ d[9] = b /\ \A i \in 2 .. 8 : d[i] = mid[i - 1]
    <3> HIDE DEF a, b
    <3>1. Len(mid) = 7 => IsNine(<<a>> \o mid \o <<b>>, a, mid, b)
      BY <2>1, <2>3, NineFacts, Zenon
    <3> QED
      BY <2>1, <2>3, <3>1 DEF IsNine
  <2>5. \A i \in 2 .. 8 : i - 1 \in 1 .. 7
    OBVIOUS
  <2> QED
    BY <2>2, <2>4, <2>5
<1> HIDE DEF d
<1>7. /\ \A i, j \in 1 .. 7 : Nwdaf[i] = Nwdaf[j] => i = j
      /\ \A i \in 1 .. 7 : Nwdaf[i] \notin {"database", "cli"}
      /\ Nwdaf[1] = "sbi" /\ "cp" \in NwdafNets("sbi")
  BY DEF Nwdaf, NwdafNets
<1>8. \A i \in 1 .. 9 : i = 1 \/ i = 9 \/ (i \in 2 .. 8 /\ i - 1 \in 1 .. 7)
  OBVIOUS
<1>9. \A i \in 1 .. 9 : d[i][1][1] = "nwdaf"
  BY <1>6, <1>8 DEF NwdafDb
<1>10. /\ d[1][1][2] = "database" /\ d[9][1][2] = "cli"
       /\ \A i \in 2 .. 8 : d[i][1][2] = Nwdaf[i - 1]
  BY <1>6 DEF NwdafDb
<1>11. ASSUME NEW i \in 1 .. 9, NEW j \in 1 .. 9, d[i][1] = d[j][1] PROVE i = j
  <2>1. d[i][1][2] = d[j][1][2]
    BY <1>11
  <2>2. ASSUME NEW k \in 2 .. 8 PROVE k - 1 \in 1 .. 7 /\ d[k][1][2] = Nwdaf[k - 1]
                                     /\ d[k][1][2] \notin {"database", "cli"}
    <3>1. k - 1 \in 1 .. 7 /\ d[k][1][2] = Nwdaf[k - 1]
      BY <1>10
    <3> QED
      BY <1>7, <3>1
  <2>3. CASE i \in 2 .. 8 /\ j \in 2 .. 8
    <3>1. i - 1 = j - 1
      BY <1>7, <2>1, <2>2, <2>3
    <3> QED
      BY <2>3, <3>1
  <2>4. CASE i \in {1, 9} \/ j \in {1, 9}
    <3>1. "database" # "cli"
      OBVIOUS
    <3> QED
      BY <1>8, <1>10, <2>1, <2>2, <2>4, <3>1
  <2> QED
    BY <1>8, <2>3, <2>4
<1> HIDE DEF x, e, sbi, cli
<1>12. \A i, j \in DOMAIN e.define : e.define[i][1] = e.define[j][1] => i = j
  BY <1>3, <1>6, <1>11
<1>13. \A i \in DOMAIN e.define : nameToNf(e.define[i][1]) \in KindsOf(x[1])
  BY <1>3, <1>5, <1>6, <1>9 DEF nameToNf
<1>14. IsList(e.define)
  BY <1>3, <1>6
<1>15. /\ Defines(x, e)
       /\ \A i \in DOMAIN e.define : /\ On(e.define[i][1], e.define[i][2]) \subseteq Connected(e)
                                     /\ e.define[i][1] \in SeqToSet(Names(e))
  BY <1>12, <1>13, <1>14, DefinesFacts
<1>16. 2 \in DOMAIN d /\ d[2] = <<<<"nwdaf", "sbi">>, NwdafNets("sbi")>> /\ 9 \in DOMAIN d
  BY <1>6, <1>7
<1>17. On(sbi, {"cp"}) \cup On(cli, {"nwdaf"}) \subseteq Connected(e)
  <2>1. On(sbi, NwdafNets("sbi")) \subseteq Connected(e)
    BY <1>3, <1>15, <1>16 DEF sbi
  <2>2. On(cli, {"nwdaf"}) \subseteq Connected(e)
    <3>1. e.define[9][1] = cli /\ e.define[9][2] = {"nwdaf"} /\ 9 \in DOMAIN e.define
      BY <1>3, <1>6, <1>16
    <3> QED
      BY <1>15, <3>1
  <2> QED
    BY <1>7, <2>1, <2>2 DEF On
<1>18. Tells(e)
  BY <1>3, <1>17 DEF Tells, On, Of
<1>19. Asks(e) /\ Marks(x, e) /\ MakesPorts(x, e) /\ Simulates(e)
  BY <1>3 DEF Asks, Listings, Marks, MakesPorts, Simulates, Usual
<1>20. LooksAt(x, e) /\ Defers(e)
  BY <1>3 DEF LooksAt, Looks, Defers, Usual, IsList, SeqToSet
<1>21. Achieves(x, e) /\ e.place = (x[1] = "place") /\ e.lists \in BOOLEAN
  <2>1. x[1] \notin Stages /\ x[1] \notin Quiet /\ "place" \in Quiet
    BY <1>4, Apart DEF Quiet
  <2> QED
    BY <1>3, <1>4, <2>1 DEF Achieves, Stages, Usual
<1>22. Effect(x, e)
  BY <1>15, <1>18, <1>19, <1>20, <1>21 DEF Effect
<1> QED
  BY <1>1, <1>22 DEF Legitimate

LEMMA OaiCpFacts ==
  ASSUME GenInv, OaiSQL \/ OaiNF \/ OaiConfigAMF \/ OaiConfigSMF \/ OaiPCF \/ OaiNWDAF
  PROVE  Legitimate
BY OaiSQLStep, OaiNFStep, OaiCheckSteps, OaiConfigSMFStep, OaiNWDAFStep
-----------------------------------------------------------------------------
(* Open5GCore, control plane.                                                  *)

\* No port, nothing that is decided late.
Common(e) == e.scan = {} /\ e.look = {} /\ e.ports = {} /\ e.place = FALSE /\ e.lists \in BOOLEAN

LEMMA BuilderEffect ==
  ASSUME GenInv, NEW x, NEW e, Build(x, e), x[1] \in Builders \ (Storing \cup {"oaiNF"}), Common(e),
         Defines(x, e), e.qos \cup e.metrics \subseteq SeqToSet(Names(e)),
         \A t \in e.tell : t = <<t[1], t[2], t[3]>> /\ (t[1] = t[2] \/ <<t[1], t[3]>> \in Connected(e)),
         \A q \in e.list : <<q[1], q[3]>> \in Connected(e) /\ \A y \in Ahead : q[2] \notin KindsOf(y[1]),
         LatePorts => \A c \in e.awaits : ~ Takeable(c),
         Requests /\ Succeeds(e) => e.simulate \subseteq Everybody,
         IsList(e.defer),
         \A d \in SeqToSet(e.defer) :
           d # <<>> /\ d[1] \in Deferred /\ Needed(d) \subseteq ip \cup Connected(e)
  PROVE  Legitimate
<1> SUFFICES ASSUME Succeeds(e) PROVE Effect(x, e)
  BY DEF Legitimate
<1>1. Tells(e)
  BY DEF Tells, Succeeds
<1>2. Asks(e)
  BY DEF Asks, Listings, Common
<1>3. Marks(x, e) /\ MakesPorts(x, e) /\ Simulates(e)
  BY DEF Marks, MakesPorts, Simulates, Common
<1>4. LooksAt(x, e)
  <2> SUFFICES ASSUME LatePorts, NEW l \in Looks(e)
               PROVE  l[1] \in {"mac", "place", "assume"} /\ l[1] = "assume" /\ ~ Takeable(l[2])
    BY DEF LooksAt
  <2>1. PICK m : m[1] \in e.awaits /\ l = <<"assume", m[1], m[2]>>
    BY DEF Looks, Common
  <2> QED
    BY <2>1
<1>5. Defers(e)
  BY DEF Defers
<1>6. Achieves(x, e) /\ e.place = (x[1] = "place")
  <2>1. x[1] \notin Stages /\ x[1] # "place"
    BY Apart DEF Quiet
  <2>2. x # <<"oaiNF", "smf">> /\ x[1] \notin Storing
    OBVIOUS
  <2>3. Achieves(x, e)
    BY <2>1, <2>2 DEF Achieves, Stages
  <2> QED
    BY <2>1, <2>3 DEF Common
<1> QED
  BY <1>1, <1>2, <1>3, <1>4, <1>5, <1>6 DEF Effect, Common

\* The parts that stay the same when a builder goes on from PhService().
PhShape(e, c, nets) ==
  /\ e.define = <<<<c, nets>>>> /\ TellsOf(e, c, nets) /\ Usual(e)
  /\ e.qos = {} /\ e.metrics = {c} /\ e.list = {} /\ e.awaits = {c} /\ e.simulate = {}

LEMMA PhFacts ==
  ASSUME NEW c, NEW nets
  PROVE  /\ PhShape(PhService(c, nets), c, {"mgmt"} \cup nets)
         /\ PhShape(PhWithDatabase(c, nets), c, {"mgmt", "db"} \cup nets)
<1>1. ASSUME NEW e, e = PhService(c, nets) PROVE PhShape(e, c, {"mgmt"} \cup nets)
  <2>1. /\ e.define = <<<<c, {"mgmt"} \cup nets>>>> /\ e.tell = Own(c, {"mgmt"}) /\ Usual(e)
        /\ e.qos = {} /\ e.metrics = {c} /\ e.list = {} /\ e.awaits = {c} /\ e.simulate = {}
    BY <1>1 DEF PhService, Nothing, Usual
  <2> QED
    BY <2>1 DEF PhShape, TellsOf, Own
<1>2. ASSUME NEW e, e = PhWithDatabase(c, nets) PROVE PhShape(e, c, {"mgmt", "db"} \cup nets)
  <2>1. {"mgmt"} \cup ({"db"} \cup nets) = {"mgmt", "db"} \cup nets
    OBVIOUS
  <2>2. /\ e.define = <<<<c, {"mgmt"} \cup ({"db"} \cup nets)>>>>
        /\ e.tell = Own(c, {"mgmt"}) \cup Of(c, {Sql}, "db") /\ Usual(e)
        /\ e.qos = {} /\ e.metrics = {c} /\ e.list = {} /\ e.awaits = {c} /\ e.simulate = {}
    BY <1>2 DEF PhWithDatabase, PhService, Nothing, Usual
  <2> QED
    BY <2>1, <2>2 DEF PhShape, TellsOf, Own, Of
<1> QED
  BY <1>1, <1>2

LEMMA PhNames ==
  /\ {"phSQL", "phNRF", "phUDM", "phAUSF", "phNSSF", "phAMF", "phSMF", "phPCF"} \subseteq CpFirst
  /\ {"phSQL", "phNRF", "phAUSF", "phNSSF", "phAMF", "phSMF", "phPCF", "oaiNF"} \cap Storing = {}
BY DEF CpFirst, Storing

LEMMA PhBuilderStep == ASSUME GenInv, PhBuilder PROVE Legitimate
<1> DEFINE x == <<"phBuilder">>
           e == [Nothing EXCEPT !.options = {<<"mgmt", "NAT">>, <<"air", "MTU 1470">>, <<"n6", "MTU 1456">>}]
<1>1. Build(x, e)
  BY DEF PhBuilder
<1>2. /\ e.define = <<>> /\ e.list = {} /\ e.scan = {} /\ e.look = {} /\ e.defer = <<>> /\ e.ports = {}
      /\ e.qos = {} /\ e.metrics = {} /\ e.simulate = {} /\ e.lists \in BOOLEAN /\ e.place = FALSE
      /\ e.tell = {} /\ e.awaits = {}
  BY DEF Nothing
<1>3. x[1] \notin {"dn", "oaiNF", "saveQoS", "buildPrometheus", "place", "prushOptions"} \cup Storing
  BY DEF Storing
<1> HIDE DEF x, e
<1>4. Tells(e)
  BY <1>2 DEF Tells
<1> QED
  BY <1>1, <1>2, <1>3, <1>4, BareEffect

LEMMA PhSQLStep == ASSUME GenInv, PhSQL PROVE Legitimate
<1> DEFINE x == <<"phSQL">>
           e == Database(Sql)
<1>1. Build(x, e)
  BY DEF PhSQL
<1>2. /\ e.define = <<<<Sql, {"db"}>>>> /\ TellsOf(e, Sql, {"db"}) /\ Usual(e)
      /\ e.qos = {} /\ e.metrics = {} /\ e.list = {} /\ e.awaits = {} /\ e.simulate = {}
  BY DatabaseFacts
<1>3. x[1] \in CpFirst /\ x[1] \notin Storing /\ x # <<"oaiNF", "smf">> /\ nameToNf(Sql) \in CpKinds
  BY PhNames, O5Names
<1> HIDE DEF x, e
<1>4. e.qos \cup e.metrics \subseteq {Sql}
  BY <1>2
<1> QED
  BY <1>1, <1>2, <1>3, <1>4, CpEffect

\* Those that are nothing but a service.
LEMMA PhPlain ==
  ASSUME GenInv, NEW c, NEW nets, nameToNf(c) \in CpKinds,
         NEW x, x[1] \in {"phNRF", "phAUSF", "phAMF"}, Build(x, PhService(c, nets))
  PROVE  Legitimate
<1> DEFINE e == PhService(c, nets)
           all == {"mgmt"} \cup nets
<1>1. PhShape(e, c, all)
  BY PhFacts
<1>2. Build(x, e)
  OBVIOUS
<1>3. x[1] \in CpFirst /\ x[1] \notin Storing /\ x # <<"oaiNF", "smf">>
  BY PhNames
<1> HIDE DEF e, all
<1>4. e.qos \cup e.metrics \subseteq {c}
  BY <1>1 DEF PhShape
<1> QED
  BY <1>1, <1>2, <1>3, <1>4, CpEffect DEF PhShape

LEMMA PhPlainSteps == ASSUME GenInv, PhNRF \/ PhAUSF \/ PhAMF PROVE Legitimate
<1>1. CASE PhNRF
  <2>1. Build(<<"phNRF">>, PhService(Nrf, {"cp"})) /\ nameToNf(Nrf) \in CpKinds
    BY <1>1, O5Names DEF PhNRF
  <2> DEFINE x == <<"phNRF">>
  <2>2. x[1] \in {"phNRF", "phAUSF", "phAMF"} /\ Build(x, PhService(Nrf, {"cp"}))
    BY <2>1
  <2> HIDE DEF x
  <2> QED
    BY <2>1, <2>2, PhPlain
<1>2. CASE PhAUSF
  <2>1. Build(<<"phAUSF">>, PhService(Ct("ausf"), {"cp"})) /\ nameToNf(Ct("ausf")) \in CpKinds
    BY <1>2, O5Names DEF PhAUSF, CpKinds
  <2> DEFINE x == <<"phAUSF">>
  <2>2. x[1] \in {"phNRF", "phAUSF", "phAMF"} /\ Build(x, PhService(Ct("ausf"), {"cp"}))
    BY <2>1
  <2> HIDE DEF x
  <2> QED
    BY <2>1, <2>2, PhPlain
<1>3. CASE PhAMF
  <2>1. PICK amf \in SeqToSet(Amfs(net)) : Build(<<"phAMF", amf.name>>, PhService(amf.name, {"cp", "n2"}))
    BY <1>3 DEF PhAMF
  <2> DEFINE x == <<"phAMF", amf.name>>
  <2>2. x[1] \in {"phNRF", "phAUSF", "phAMF"} /\ Build(x, PhService(amf.name, {"cp", "n2"}))
    BY <2>1
  <2>3. nameToNf(amf.name) \in CpKinds
    BY <2>1, StepFacts, NetFacts DEF CpKinds
  <2> HIDE DEF x
  <2> QED
    BY <2>2, <2>3, PhPlain
<1> QED
  BY <1>1, <1>2, <1>3

LEMMA PhUDMStep == ASSUME GenInv, PhUDM PROVE Legitimate
<1> DEFINE x == <<"phUDM">>
           c == Ct("udm")
           all == {"mgmt", "db"} \cup {"cp"}
           f == PhWithDatabase(c, {"cp"})
           e == [f EXCEPT !.lists = TRUE, !.ok = KnownDNs, !.store = AllSubscribed]
<1>1. Build(x, e)
  BY DEF PhUDM
<1>2. PhShape(f, c, all)
  BY PhFacts
<1>3. /\ e.define = f.define /\ e.tell = f.tell /\ e.qos = f.qos /\ e.metrics = f.metrics /\ e.list = f.list
      /\ e.awaits = f.awaits /\ e.simulate = f.simulate /\ e.store = AllSubscribed /\ Usual(e)
  BY DEF PhWithDatabase, PhService, Nothing, Usual
<1>4. x[1] \in CpFirst /\ x # <<"oaiNF", "smf">> /\ nameToNf(c) \in CpKinds
  BY PhNames, O5Names DEF CpKinds
<1> HIDE DEF x, e, f, c, all
<1>5. e.qos \cup e.metrics \subseteq {c} /\ TellsOf(e, c, all)
  BY <1>2, <1>3 DEF PhShape, TellsOf
<1>6. Everybody \subseteq e.store
  BY <1>1, <1>3, StepFacts, StoredFacts
<1> QED
  BY <1>1, <1>2, <1>3, <1>4, <1>5, <1>6, CpEffect DEF PhShape

LEMMA PhNSSFStep == ASSUME GenInv, PhNSSF PROVE Legitimate
<1>1. CASE AmfsDiffer
  <2> DEFINE x == <<"phNSSF">>
             c == Ct("nssf")
             all == {"mgmt", "db"} \cup {"cp"}
             e == PhWithDatabase(c, {"cp"})
  <2>1. Build(x, e)
    BY <1>1 DEF PhNSSF
  <2>2. PhShape(e, c, all)
    BY PhFacts
  <2>3. x[1] \in CpFirst /\ x[1] \notin Storing /\ x # <<"oaiNF", "smf">> /\ nameToNf(c) \in CpKinds
    BY PhNames, O5Names DEF CpKinds
  <2> HIDE DEF x, e, c, all
  <2>4. e.qos \cup e.metrics \subseteq {c}
    BY <2>2 DEF PhShape
  <2> QED
    BY <2>1, <2>2, <2>3, <2>4, CpEffect DEF PhShape
<1>2. CASE ~ AmfsDiffer
  <2> DEFINE x == <<"phNSSF">>
             e == Nothing
  <2>1. Build(x, e)
    BY <1>2 DEF PhNSSF
  <2>2. /\ e.define = <<>> /\ e.list = {} /\ e.scan = {} /\ e.look = {} /\ e.defer = <<>> /\ e.ports = {}
        /\ e.qos = {} /\ e.metrics = {} /\ e.simulate = {} /\ e.lists \in BOOLEAN /\ e.place = FALSE
        /\ e.tell = {} /\ e.awaits = {}
    BY DEF Nothing
  <2>3. x[1] \notin {"dn", "oaiNF", "saveQoS", "buildPrometheus", "place", "prushOptions"} \cup Storing
    BY DEF Storing
  <2> HIDE DEF x, e
  <2>4. Tells(e)
    BY <2>2 DEF Tells
  <2> QED
    BY <2>1, <2>2, <2>3, <2>4, BareEffect
<1> QED
  BY <1>1, <1>2

LEMMA PhSMFStep == ASSUME GenInv, PhSMF PROVE Legitimate
<1>1. PICK smf \in SeqToSet(Smfs(net)) :
        Build(<<"phSMF", smf.name>>,
          LET upfs  == SeqToSet(net.upfs)
              atUpf == {x \in Ends(smf) : x[1] \in upfs}
          IN [PhWithDatabase(smf.name, {"cp", "n4"}) EXCEPT
                !.ok = /\ \A x \in Ends(smf) : x[1] \notin upfs => x[2] \in upfs
                       /\ Len(Smfs(net)) <= 250,
                !.cite = UNION {{<<x[1], "n4">>, <<x[1], NetToward(x[2])>>} : x \in atUpf},
                !.list = {<<smf.name, "upf", "n4">>},
                !.wait = @ \cup {<<smf.name, "ping", upf, "n4">> : upf \in ByNf("upf")}])
  BY DEF PhSMF
<1> DEFINE c == smf.name
           x == <<"phSMF", c>>
           nets == {"cp", "n4"}
           all == {"mgmt", "db"} \cup nets
           f == PhWithDatabase(c, nets)
           upfs  == SeqToSet(net.upfs)
           atUpf == {y \in Ends(smf) : y[1] \in upfs}
           e == [f EXCEPT
                !.ok = /\ \A y \in Ends(smf) : y[1] \notin upfs => y[2] \in upfs
                       /\ Len(Smfs(net)) <= 250,
                !.cite = UNION {{<<y[1], "n4">>, <<y[1], NetToward(y[2])>>} : y \in atUpf},
                !.list = {<<c, "upf", "n4">>},
                !.wait = @ \cup {<<c, "ping", upf, "n4">> : upf \in ByNf("upf")}]
<1>2. Build(x, e)
  BY <1>1
<1>3. PhShape(f, c, all)
  BY PhFacts
<1>4. /\ e.define = f.define /\ e.tell = f.tell /\ e.qos = f.qos /\ e.metrics = f.metrics
      /\ e.list = {<<c, "upf", "n4">>}
      /\ e.awaits = f.awaits /\ e.simulate = f.simulate /\ Usual(e)
  BY DEF PhWithDatabase, PhService, Nothing, Usual
<1>5. x[1] \in CpFirst /\ x[1] \notin Storing /\ x # <<"oaiNF", "smf">> /\ "n4" \in all
  BY PhNames
<1>6. nameToNf(c) \in CpKinds
  BY <1>1, <1>2, StepFacts, NetFacts DEF CpKinds
<1> HIDE DEF x, e, f, c, nets, all
<1>7. e.qos \cup e.metrics \subseteq {c} /\ TellsOf(e, c, all)
  BY <1>3, <1>4 DEF PhShape, TellsOf
<1> QED
  BY <1>2, <1>3, <1>4, <1>5, <1>6, <1>7, CpEffect DEF PhShape

LEMMA PhPCFStep == ASSUME GenInv, PhPCF PROVE Legitimate
<1> DEFINE x == <<"phPCF">>
           c == Ct("pcf")
           all == {"mgmt"} \cup {"cp"}
           f == PhService(c, {"cp"})
           e == [f EXCEPT !.tell = @ \cup Of(c, {Smfs(net)[1].name}, "cp")]
<1>1. Build(x, e)
  BY DEF PhPCF
<1>2. PhShape(f, c, all)
  BY PhFacts
<1>3. /\ e.define = f.define /\ e.tell = f.tell \cup Of(c, {Smfs(net)[1].name}, "cp")
      /\ e.qos = f.qos /\ e.metrics = f.metrics /\ e.list = f.list
      /\ e.awaits = f.awaits /\ e.simulate = f.simulate /\ Usual(e)
  BY DEF PhService, Nothing, Usual
<1>4. x[1] \in CpFirst /\ x[1] \notin Storing /\ x # <<"oaiNF", "smf">> /\ nameToNf(c) \in CpKinds
  BY PhNames, O5Names DEF CpKinds
<1>5. "cp" \in all
  OBVIOUS
<1> HIDE DEF x, e, f, c, all
<1>6. e.qos \cup e.metrics \subseteq {c} /\ TellsOf(e, c, all)
  BY <1>2, <1>3, <1>5 DEF PhShape, TellsOf, Of
<1> QED
  BY <1>1, <1>2, <1>3, <1>4, <1>6, CpEffect DEF PhShape

LEMMA PhCpFacts ==
  ASSUME GenInv, PhBuilder \/ PhSQL \/ PhNRF \/ PhUDM \/ PhAUSF \/ PhNSSF \/ PhAMF \/ PhSMF \/ PhPCF
  PROVE  Legitimate
BY PhBuilderStep, PhSQLStep, PhPlainSteps, PhUDMStep, PhNSSFStep, PhSMFStep, PhPCFStep
-----------------------------------------------------------------------------
(* User plane.                                                                 *)

\* The networks that a UPF has peers on are its own.
LEMMA PeerFacts ==
  ASSUME NEW upf
  PROVE  /\ "n4" \in UpfNets(net, upf)
         /\ N6Peers(net, upf, "IPv4") # {} => "n6" \in UpfNets(net, upf)
         /\ \A n \in {"n6", "n3", "n9"} : PeersOn(upf, n) # {} => n \in UpfNets(net, upf)
         /\ \A t \in DnRoutes(upf) :
              t = <<t[1], t[2], t[3]>> /\ t[1] = upf /\ t[3] = "n6" /\ t[3] \in UpfNets(net, upf)
         /\ UpfNets(net, upf) \subseteq {"n4", "n6", "n3", "n9"}
<1>1. N6Peers(net, upf, "IPv4") # {} => "n6" \in UpfNets(net, upf)
  BY DEF N6Peers, UpfNets
<1>2. ASSUME NEW n \in {"n6", "n3", "n9"}, PeersOn(upf, n) # {} PROVE n \in UpfNets(net, upf)
  <2>1. CASE n = "n6"
    BY <1>1, <1>2, <2>1 DEF PeersOn
  <2>2. CASE n = "n3"
    BY <1>2, <2>2 DEF PeersOn, UpfNets
  <2>3. CASE n = "n9"
    BY <1>2, <2>3 DEF PeersOn, UpfNets
  <2> QED
    BY <2>1, <2>2, <2>3
<1>3. \A t \in DnRoutes(upf) :
        t = <<t[1], t[2], t[3]>> /\ t[1] = upf /\ t[3] = "n6" /\ t[3] \in UpfNets(net, upf)
  BY <1>1 DEF DnRoutes, Of
<1>4. "n4" \in UpfNets(net, upf) /\ UpfNets(net, upf) \subseteq {"n4", "n6", "n3", "n9"}
  BY DEF UpfNets
<1> QED
  BY <1>1, <1>2, <1>3, <1>4

\* A step about a UPF that there is.
UpShape(e, upf, nets) ==
  /\ Common(e) /\ TellsOf(e, upf, nets) /\ e.qos \cup e.metrics \subseteq {upf}
  /\ e.list = {} /\ e.simulate = {}

LEMMA UpEffect ==
  ASSUME GenInv, NEW s \in UpEarly \cup UpLate, NEW upf \in SeqToSet(net.upfs), NEW e, Build(<<s, upf>>, e),
         NEW nets, UpShape(e, upf, nets), Defines(<<s, upf>>, e), On(upf, nets) \subseteq Connected(e),
         upf \in SeqToSet(Names(e)),
         e.awaits = {} \/ (e.awaits = {upf} /\ s \in UpEarly),
         IsList(e.defer),
         \A d \in SeqToSet(e.defer) : d # <<>> /\ d[1] \in Deferred /\ Needed(d) \subseteq Connected(e)
  PROVE  Legitimate
<1> DEFINE x == <<s, upf>>
<1>1. /\ x[1] = s /\ x[2] = upf /\ Build(x, e) /\ Defines(x, e)
      /\ x[1] \in Builders \ (Storing \cup {"oaiNF"})
  <2>1. s \in Builders /\ s \notin Storing /\ s # "oaiNF"
    BY DEF Builders, UpEarly, UpLate, Storing
  <2> QED
    BY <2>1
<1> HIDE DEF x
<1>2. LatePorts => \A c \in e.awaits : ~ Takeable(c)
  <2> SUFFICES ASSUME LatePorts, s \in UpEarly PROVE ~ Takeable(upf)
    OBVIOUS
  <2>1. args \in Inputs /\ args.up[upf] \in {"free5gc", "open5gs", "phoenix", "oai"}
    BY <1>1, StepFacts DEF Legal
  <2> QED
    BY <2>1, NotTaken
<1>3. \A t \in e.tell : t = <<t[1], t[2], t[3]>> /\ (t[1] = t[2] \/ <<t[1], t[3]>> \in Connected(e))
  BY DEF UpShape, TellsOf, On
<1>4. e.qos \cup e.metrics \subseteq SeqToSet(Names(e)) /\ Common(e) /\ e.list = {} /\ e.simulate = {}
  BY DEF UpShape
<1>5. \A d \in SeqToSet(e.defer) : d # <<>> /\ d[1] \in Deferred /\ Needed(d) \subseteq ip \cup Connected(e)
  OBVIOUS
<1> QED
  BY <1>1, <1>2, <1>3, <1>4, <1>5, BuilderEffect

\* Where nothing is deferred, or one command that needs the netifs of the UPF.
LEMMA DeferFacts ==
  ASSUME NEW e, NEW d, e.defer = <<d>>, d # <<>>, d[1] \in Deferred, Needed(d) \subseteq Connected(e)
  PROVE  /\ IsList(e.defer)
         /\ \A c \in SeqToSet(e.defer) : c # <<>> /\ c[1] \in Deferred /\ Needed(c) \subseteq Connected(e)
<1>1. e.defer \in Seq({d})
  OBVIOUS
<1>2. IsList(e.defer) /\ SeqToSet(e.defer) \subseteq {d}
  BY <1>1, TypedList
<1> QED
  BY <1>2

LEMMA DeferNone == ASSUME NEW e, e.defer = <<>> PROVE IsList(e.defer) /\ SeqToSet(e.defer) = {}
BY DEF IsList, SeqToSet

LEMMA UpNames ==
  /\ {"f5UP", "o5UP", "phUPF", "oaiUP", "oaiUPvpp", "eUPF", "bessUP", "ndndpdkUP"} \subseteq UpEarly \cup UpLate
  /\ \A s \in UpEarly \cup UpLate : KindsOf(s) = {"upf"}
  /\ {"f5UP", "o5UP", "phUPF", "oaiUP"} = UpEarly
BY Kinds DEF UpEarly, UpLate

LEMMA F5UPStep == ASSUME GenInv, F5UP PROVE Legitimate
<1> DEFINE E(upf) == [[Nothing EXCEPT !.define = <<<<upf, UpfNets(net, upf)>>, <<Ct("gtp5g"), {}>>>>,
                        !.tell = Own(upf, {"n4"}) \cup DnRoutes(upf),
                        !.awaits = {upf},
                        !.qos = {upf}] EXCEPT !.ok = @ /\ UpfsKnown]
<1>1. PICK upf \in SeqToSet(net.upfs) : Build(<<"f5UP", upf>>, E(upf))
  BY Zenon DEF F5UP, UPF
<1> DEFINE x == <<"f5UP", upf>>
           nets == UpfNets(net, upf)
           e == E(upf)
<1>2. /\ e.define = <<<<upf, nets>>, <<Ct("gtp5g"), {}>>>> /\ e.tell = Own(upf, {"n4"}) \cup DnRoutes(upf)
      /\ e.awaits = {upf} /\ e.qos = {upf} /\ e.metrics = {} /\ e.list = {} /\ e.simulate = {}
      /\ e.defer = <<>> /\ Common(e)
  BY DEF Nothing, Common
<1>3. Build(<<"f5UP", upf>>, e)
  BY <1>1
<1>4. x[1] = "f5UP"
  OBVIOUS
<1> HIDE DEF e
<1>5. UpShape(e, upf, nets)
  BY <1>2, PeerFacts DEF UpShape, TellsOf, Own
<1>6. nameToNf(upf) \in KindsOf(x[1]) /\ upf # Ct("gtp5g")
  <2>1. nameToNf(upf) = "upf"
    BY <1>1, <1>3, StepFacts, NetFacts
  <2>2. nameToNf(Ct("gtp5g")) = "gtp5g"
    BY DEF nameToNf, Ct
  <2>3. KindsOf(x[1]) = {"upf"}
    BY <1>4, UpNames
  <2> QED
    BY <2>1, <2>2, <2>3
<1>7. Defines(x, e) /\ On(upf, nets) \subseteq Connected(e) /\ upf \in SeqToSet(Names(e))
  <2> HIDE DEF x, nets
  <2> QED
    BY <1>2, <1>6, DefinesTwo
<1> QED
  BY <1>2, <1>3, <1>5, <1>7, UpNames, DeferNone, UpEffect

LEMMA O5UPStep == ASSUME GenInv, O5UP PROVE Legitimate
<1> DEFINE E(upf) == [[Nothing EXCEPT !.define = <<<<upf, {"mgmt", "n4", "n6", "n3"}>>>>,
                        !.tell = Own(upf, {"mgmt"}) \cup DnRoutes(upf),
                        !.awaits = {upf},
                        !.metrics = {upf}] EXCEPT !.ok = @ /\ UpfsKnown]
<1>1. PICK upf \in SeqToSet(net.upfs) : Build(<<"o5UP", upf>>, E(upf))
  BY Zenon DEF O5UP, UPF
<1> DEFINE x == <<"o5UP", upf>>
           nets == {"mgmt", "n4", "n6", "n3"}
           e == E(upf)
<1>2. /\ e.define = <<<<upf, nets>>>> /\ e.tell = Own(upf, {"mgmt"}) \cup DnRoutes(upf)
      /\ e.awaits = {upf} /\ e.qos = {} /\ e.metrics = {upf} /\ e.list = {} /\ e.simulate = {}
      /\ e.defer = <<>> /\ Common(e)
  BY DEF Nothing, Common
<1>3. Build(<<"o5UP", upf>>, e)
  BY <1>1
<1>4. x[1] = "o5UP"
  OBVIOUS
<1> HIDE DEF e
<1>5. UpShape(e, upf, nets)
  BY <1>2, PeerFacts DEF UpShape, TellsOf, Own
<1>6. nameToNf(upf) \in KindsOf(x[1])
  BY <1>1, <1>3, <1>4, StepFacts, NetFacts, UpNames
<1>7. Defines(x, e) /\ On(upf, nets) \subseteq Connected(e) /\ upf \in SeqToSet(Names(e))
  <2> HIDE DEF x, nets
  <2> QED
    BY <1>2, <1>6, DefinesOne
<1> QED
  BY <1>2, <1>3, <1>5, <1>7, UpNames, DeferNone, UpEffect

LEMMA PhUPFStep == ASSUME GenInv, PhUPF PROVE Legitimate
<1> DEFINE S(upf) == PhService(upf, UpfNets(net, upf))
           E(upf) == [[S(upf) EXCEPT
                        !.ok = /\ Cardinality(N6Peers(net, upf, "Ethernet")) <= 1
                               /\ N6Peers(net, upf, "IPv6") = {},
                        !.tell = @ \cup DnRoutes(upf),
                        !.qos = {upf}] EXCEPT !.ok = @ /\ UpfsKnown]
<1>1. PICK upf \in SeqToSet(net.upfs) : Build(<<"phUPF", upf>>, E(upf))
  BY Zenon DEF PhUPF, UPF
<1> DEFINE x == <<"phUPF", upf>>
           nets == {"mgmt"} \cup UpfNets(net, upf)
           f == S(upf)
           e == E(upf)
<1>2. /\ e.define = f.define /\ e.tell = f.tell \cup DnRoutes(upf) /\ e.awaits = f.awaits /\ e.qos = {upf}
      /\ e.metrics = f.metrics /\ e.list = f.list /\ e.simulate = f.simulate /\ e.defer = f.defer /\ Common(e)
  BY DEF PhService, Nothing, Common
<1>3. Build(<<"phUPF", upf>>, e)
  BY <1>1
<1>4. x[1] = "phUPF"
  OBVIOUS
<1>5. PhShape(f, upf, nets)
  BY PhFacts
<1> HIDE DEF e, f, S, E
<1>6. UpShape(e, upf, nets)
  BY <1>2, <1>5, PeerFacts DEF PhShape, UpShape, TellsOf
<1>7. nameToNf(upf) \in KindsOf(x[1])
  BY <1>1, <1>3, <1>4, StepFacts, NetFacts, UpNames
<1>8. e.define = <<<<upf, nets>>>> /\ e.awaits = {upf} /\ e.defer = <<>>
  BY <1>2, <1>5 DEF PhShape, Usual
<1>9. Defines(x, e) /\ On(upf, nets) \subseteq Connected(e) /\ upf \in SeqToSet(Names(e))
  <2> HIDE DEF x, nets
  <2> QED
    BY <1>7, <1>8, DefinesOne
<1> QED
  BY <1>3, <1>6, <1>8, <1>9, UpNames, DeferNone, UpEffect

LEMMA OaiUPStep == ASSUME GenInv, OaiUP PROVE Legitimate
<1> DEFINE E(upf) == [[OaiService(upf, OaiUpfNets) EXCEPT
                        !.ok = N9Peers(net, upf) = {},
                        !.tell = @ \cup DnRoutes(upf),
                        !.awaits = {upf},
                        !.defer = <<<<"oaiConfigUPF", upf>>>>] EXCEPT !.ok = @ /\ UpfsKnown]
<1>1. PICK upf \in SeqToSet(net.upfs) : Build(<<"oaiUP", upf>>, E(upf))
  BY Zenon DEF OaiUP, UPF
<1> DEFINE x == <<"oaiUP", upf>>
           nets == OaiUpfNets
           d == <<"oaiConfigUPF", upf>>
           e == E(upf)
<1>2. /\ e.define = <<<<upf, nets>>>> /\ e.tell = Own(upf, {"cp"}) \cup DnRoutes(upf)
      /\ e.awaits = {upf} /\ e.qos = {} /\ e.metrics = {} /\ e.list = {} /\ e.simulate = {}
      /\ e.defer = <<d>> /\ Common(e)
  BY DEF OaiService, Nothing, Common
<1>3. Build(<<"oaiUP", upf>>, e)
  BY <1>1
<1>4. x[1] = "oaiUP"
  OBVIOUS
<1> HIDE DEF e
<1>5. UpShape(e, upf, nets)
  <2>1. "n6" \in nets
    BY DEF OaiUpfNets
  <2> QED
    BY <1>2, <2>1, PeerFacts DEF UpShape, TellsOf, Own
<1>6. nameToNf(upf) \in KindsOf(x[1])
  BY <1>1, <1>3, <1>4, StepFacts, NetFacts, UpNames
<1>7. Defines(x, e) /\ On(upf, nets) \subseteq Connected(e) /\ upf \in SeqToSet(Names(e))
  <2> HIDE DEF x, nets
  <2> QED
    BY <1>2, <1>6, DefinesOne
<1>8. d # <<>> /\ d[1] \in Deferred /\ Needed(d) \subseteq Connected(e)
  <2>1. d[1] = "oaiConfigUPF" /\ d[2] = upf /\ d # <<>>
    OBVIOUS
  <2>2. Needed(d) = On(upf, nets)
    <3> HIDE DEF d
    <3> QED
      BY <2>1 DEF Needed
  <2> QED
    BY <1>7, <2>1, <2>2 DEF Deferred
<1> HIDE DEF d
<1> QED
  BY <1>2, <1>3, <1>5, <1>7, <1>8, UpNames, DeferFacts, UpEffect

LEMMA OaiUPvppStep == ASSUME GenInv, OaiUPvpp PROVE Legitimate
<1> DEFINE E(upf) == [[Nothing EXCEPT !.define = <<<<upf, {"cp"} \cup UpfNets(net, upf)>>>>,
                        !.ok = /\ \A type \in {"Ethernet", "IPv6"} : N6Peers(net, upf, type) = {}
                               /\ Cardinality(N6Peers(net, upf, "IPv4")) <= 1,
                        !.tell = Own(upf, UpfNets(net, upf)),
                        !.defer = <<<<"oaiVppCommands", upf>>>>] EXCEPT !.ok = @ /\ UpfsKnown]
<1>1. PICK upf \in SeqToSet(net.upfs) : Build(<<"oaiUPvpp", upf>>, E(upf))
  BY Zenon DEF OaiUPvpp, UPF
<1> DEFINE x == <<"oaiUPvpp", upf>>
           nets == {"cp"} \cup UpfNets(net, upf)
           d == <<"oaiVppCommands", upf>>
           e == E(upf)
<1>2. /\ e.define = <<<<upf, nets>>>> /\ e.tell = Own(upf, UpfNets(net, upf))
      /\ e.awaits = {} /\ e.qos = {} /\ e.metrics = {} /\ e.list = {} /\ e.simulate = {}
      /\ e.defer = <<d>> /\ Common(e)
  BY DEF Nothing, Common
<1>3. Build(<<"oaiUPvpp", upf>>, e)
  BY <1>1
<1>4. x[1] = "oaiUPvpp"
  OBVIOUS
<1> HIDE DEF e
<1>5. UpShape(e, upf, nets)
  BY <1>2 DEF UpShape, TellsOf, Own
<1>6. nameToNf(upf) \in KindsOf(x[1])
  BY <1>1, <1>3, <1>4, StepFacts, NetFacts, UpNames
<1>7. Defines(x, e) /\ On(upf, nets) \subseteq Connected(e) /\ upf \in SeqToSet(Names(e))
  <2> HIDE DEF x, nets
  <2> QED
    BY <1>2, <1>6, DefinesOne
<1>8. d # <<>> /\ d[1] \in Deferred /\ Needed(d) \subseteq Connected(e)
  <2>1. d[1] = "oaiVppCommands" /\ d[2] = upf /\ d # <<>>
    OBVIOUS
  <2>2. Needed(d) = {<<upf, "cp">>}
    <3> HIDE DEF d
    <3> QED
      BY <2>1 DEF Needed
  <2> QED
    BY <1>7, <2>1, <2>2 DEF Deferred, On
<1> HIDE DEF d
<1> QED
  BY <1>2, <1>3, <1>5, <1>7, <1>8, UpNames, DeferFacts, UpEffect

LEMMA EUPFStep == ASSUME GenInv, EUPF PROVE Legitimate
<1> DEFINE E(upf) == [[Nothing EXCEPT !.define = <<<<upf, {"mgmt"} \cup UpfNets(net, upf)>>>>,
                        !.tell = Own(upf, {"mgmt"}),
                        !.metrics = {upf},
                        !.defer = <<<<"eUPFCommands", upf>>>>] EXCEPT !.ok = @ /\ UpfsKnown]
<1>1. PICK upf \in SeqToSet(net.upfs) : Build(<<"eUPF", upf>>, E(upf))
  BY Zenon DEF EUPF, UPF
<1> DEFINE x == <<"eUPF", upf>>
           nets == {"mgmt"} \cup UpfNets(net, upf)
           d == <<"eUPFCommands", upf>>
           e == E(upf)
<1>2. /\ e.define = <<<<upf, nets>>>> /\ e.tell = Own(upf, {"mgmt"})
      /\ e.awaits = {} /\ e.qos = {} /\ e.metrics = {upf} /\ e.list = {} /\ e.simulate = {}
      /\ e.defer = <<d>> /\ Common(e)
  BY DEF Nothing, Common
<1>3. Build(<<"eUPF", upf>>, e)
  BY <1>1
<1>4. x[1] = "eUPF"
  OBVIOUS
<1> HIDE DEF e
<1>5. UpShape(e, upf, nets)
  BY <1>2 DEF UpShape, TellsOf, Own
<1>6. nameToNf(upf) \in KindsOf(x[1])
  BY <1>1, <1>3, <1>4, StepFacts, NetFacts, UpNames
<1>7. Defines(x, e) /\ On(upf, nets) \subseteq Connected(e) /\ upf \in SeqToSet(Names(e))
  <2> HIDE DEF x, nets
  <2> QED
    BY <1>2, <1>6, DefinesOne
<1>8. d # <<>> /\ d[1] \in Deferred /\ Needed(d) \subseteq Connected(e)
  <2>1. d[1] = "eUPFCommands" /\ d[2] = upf /\ d # <<>>
    OBVIOUS
  <2>2. Needed(d) = On(upf, nets)
    <3> HIDE DEF d
    <3> QED
      BY <2>1 DEF Needed
  <2> QED
    BY <1>7, <2>1, <2>2 DEF Deferred
<1> HIDE DEF d
<1> QED
  BY <1>2, <1>3, <1>5, <1>7, <1>8, UpNames, DeferFacts, UpEffect
\* What one list before another is.
IsJoin(r, p, q) ==
  /\ IsList(r) /\ SeqToSet(r) = SeqToSet(p) \cup SeqToSet(q)
  /\ \A i, j \in DOMAIN r : i < j =>
       \/ i \in DOMAIN p /\ j \in DOMAIN p /\ r[i] = p[i] /\ r[j] = p[j]
       \/ r[i] \in SeqToSet(p) /\ r[j] \in SeqToSet(q)
       \/ \E a, b \in DOMAIN q : a < b /\ r[i] = q[a] /\ r[j] = q[b]

LEMMA JoinedLists == ASSUME NEW p, NEW q, IsList(p), IsList(q) PROVE IsJoin(p \o q, p, q)
BY JoinFacts DEF IsJoin

\* A UPF and helpers that have no netifs.
HelpersOf(kinds, upf) == [i \in DOMAIN kinds |-> <<Helper(kinds[i], upf), {}>>]

LEMMA HelpersFacts ==
  ASSUME NEW x, NEW e, NEW upf, NEW nets, nameToNf(upf) \in KindsOf(x[1]),
         NEW kinds, IsList(kinds), \A i, j \in DOMAIN kinds : kinds[i] = kinds[j] => i = j,
         \A i \in DOMAIN kinds : kinds[i] # upf[1],
         e.define = <<<<upf, nets>>>> \o HelpersOf(kinds, upf)
  PROVE  Defines(x, e) /\ On(upf, nets) \subseteq Connected(e) /\ upf \in SeqToSet(Names(e))
<1> DEFINE s == <<<<upf, nets>>>>
           t == [i \in DOMAIN kinds |-> <<Helper(kinds[i], upf), {}>>]
<1>1. s \in Seq({<<upf, nets>>}) /\ DOMAIN s = {1} /\ s[1] = <<upf, nets>>
  OBVIOUS
<1>2. SeqToSet(s) = {<<upf, nets>>} /\ IsList(s)
  <2> HIDE DEF s
  <2>1. IsList(s) /\ SeqToSet(s) \subseteq {<<upf, nets>>}
    BY <1>1, TypedList
  <2> QED
    BY <1>1, <2>1 DEF SeqToSet
<1>3. /\ IsList(t) /\ DOMAIN t = DOMAIN kinds
      /\ \A i \in DOMAIN kinds : t[i] = <<Helper(kinds[i], upf), {}>>
  <2>1. t = [i \in DOMAIN kinds |-> t[i]] /\ \A i \in DOMAIN kinds : t[i] \in SeqToSet(t)
    BY DEF SeqToSet
  <2>2. DOMAIN t = DOMAIN kinds /\ \A i \in DOMAIN kinds : t[i] = <<Helper(kinds[i], upf), {}>>
    OBVIOUS
  <2> HIDE DEF t
  <2>3. IsList(t)
    BY <2>1, MapList
  <2> QED
    BY <2>2, <2>3
<1>4. e.define = s \o t
  BY DEF HelpersOf
<1> HIDE DEF s, t
<1>5. /\ IsList(s \o t) /\ SeqToSet(s \o t) = SeqToSet(s) \cup SeqToSet(t)
      /\ \A i, j \in DOMAIN (s \o t) : i < j =>
           \/ i \in DOMAIN s /\ j \in DOMAIN s /\ (s \o t)[i] = s[i] /\ (s \o t)[j] = s[j]
           \/ (s \o t)[i] \in SeqToSet(s) /\ (s \o t)[j] \in SeqToSet(t)
           \/ \E a, b \in DOMAIN t : a < b /\ (s \o t)[i] = t[a] /\ (s \o t)[j] = t[b]
  <2>1. IsList(s)
    BY <1>2
  <2>2. IsList(t)
    BY <1>3
  <2>3. IsJoin(s \o t, s, t)
    BY <2>1, <2>2, JoinedLists
  <2> QED
    BY <2>3 DEF IsJoin
<1> DEFINE d == s \o t
<1> HIDE DEF d
<1>6. \A y \in SeqToSet(t) : \E i \in DOMAIN kinds : y[1] = Helper(kinds[i], upf) /\ y[2] = {}
  BY <1>3 DEF SeqToSet
<1>7. \A i \in DOMAIN kinds : Helper(kinds[i], upf) # upf
  <2> SUFFICES ASSUME NEW i \in DOMAIN kinds, Helper(kinds[i], upf) = upf PROVE FALSE
    OBVIOUS
  <2>1. Helper(kinds[i], upf)[1] = kinds[i]
    BY DEF Helper
  <2> QED
    BY <2>1
<1>8. \A a, b \in DOMAIN kinds : Helper(kinds[a], upf) = Helper(kinds[b], upf) => a = b
  <2> SUFFICES ASSUME NEW a \in DOMAIN kinds, NEW b \in DOMAIN kinds,
                      Helper(kinds[a], upf) = Helper(kinds[b], upf)
               PROVE  a = b
    OBVIOUS
  <2>1. Helper(kinds[a], upf)[1] = kinds[a] /\ Helper(kinds[b], upf)[1] = kinds[b]
    BY DEF Helper
  <2> QED
    BY <2>1
<1>9. Len(d) \in Nat /\ DOMAIN d = 1 .. Len(d) /\ Len(kinds) \in Nat /\ DOMAIN kinds = 1 .. Len(kinds)
  BY <1>5, ListFacts DEF d
<1>10. ASSUME NEW i \in DOMAIN d, NEW j \in DOMAIN d, i < j PROVE d[i][1] # d[j][1]
  <2>1. CASE i \in DOMAIN s /\ j \in DOMAIN s
    BY <1>1, <1>10, <2>1
  <2>2. CASE d[i] \in SeqToSet(s) /\ d[j] \in SeqToSet(t)
    <3>1. d[i][1] = upf
      BY <1>2, <2>2
    <3> QED
      BY <1>6, <1>7, <2>2, <3>1
  <2>3. CASE \E a, b \in DOMAIN t : a < b /\ d[i] = t[a] /\ d[j] = t[b]
    <3>1. PICK a, b \in DOMAIN kinds : a < b /\ d[i] = t[a] /\ d[j] = t[b]
      BY <1>3, <2>3
    <3>2. d[i][1] = Helper(kinds[a], upf) /\ d[j][1] = Helper(kinds[b], upf)
      BY <1>3, <3>1
    <3>3. a # b
      BY <1>9, <3>1
    <3> QED
      BY <1>8, <3>2, <3>3
  <2> QED
    BY <1>5, <1>10, <2>1, <2>2, <2>3 DEF d
<1>11. \A i, j \in DOMAIN d : d[i][1] = d[j][1] => i = j
  <2> SUFFICES ASSUME NEW i \in DOMAIN d, NEW j \in DOMAIN d, d[i][1] = d[j][1] PROVE i = j
    OBVIOUS
  <2>1. i < j \/ j < i \/ i = j
    BY <1>9
  <2> QED
    BY <1>10, <2>1
<1>12. \A i \in DOMAIN d : d[i][2] = {} \/ nameToNf(d[i][1]) \in KindsOf(x[1])
  <2> SUFFICES ASSUME NEW i \in DOMAIN d PROVE d[i][2] = {} \/ nameToNf(d[i][1]) \in KindsOf(x[1])
    OBVIOUS
  <2>1. d[i] \in SeqToSet(s) \cup SeqToSet(t)
    BY <1>5 DEF SeqToSet, d
  <2>2. CASE d[i] \in SeqToSet(s)
    BY <1>2, <2>2
  <2>3. CASE d[i] \in SeqToSet(t)
    BY <1>6, <2>3
  <2> QED
    BY <2>1, <2>2, <2>3
<1>13. e.define = d /\ IsList(d)
  BY <1>4, <1>5 DEF d
<1>14. /\ Defines(x, e)
       /\ \A i \in DOMAIN e.define : /\ On(e.define[i][1], e.define[i][2]) \subseteq Connected(e)
                                     /\ e.define[i][1] \in SeqToSet(Names(e))
  BY <1>11, <1>12, <1>13, DefinesFacts
<1>15. PICK i \in DOMAIN d : d[i] = <<upf, nets>>
  <2>1. <<upf, nets>> \in SeqToSet(d)
    BY <1>2, <1>5 DEF d
  <2> QED
    BY <2>1 DEF SeqToSet
<1>16. d[i][1] = upf /\ d[i][2] = nets
  BY <1>15
<1> QED
  BY <1>13, <1>14, <1>16

LEMMA BessUPStep == ASSUME GenInv, BessUP PROVE Legitimate
<1> DEFINE kinds == <<"upfpfcp", "upfgui", "upfroute">>
           H(upf) == Helpers(kinds, upf)
           E(upf) == [[H(upf) EXCEPT !.define = <<<<upf, {"mgmt", "n4", "n3", "n6"}>>>> \o @,
                         !.tell = Own(upf, {"mgmt"}),
                         !.defer = <<<<"bessCommands", upf>>>>] EXCEPT !.ok = @ /\ UpfsKnown]
<1>1. PICK upf \in SeqToSet(net.upfs) : Build(<<"bessUP", upf>>, E(upf))
  BY Zenon DEF BessUP, UPF
<1> DEFINE x == <<"bessUP", upf>>
           nets == {"mgmt", "n4", "n3", "n6"}
           d == <<"bessCommands", upf>>
           e == E(upf)
<1>2. /\ e.define = <<<<upf, nets>>>> \o HelpersOf(kinds, upf)
      /\ e.tell = Own(upf, {"mgmt"})
      /\ e.awaits = {} /\ e.qos = {} /\ e.metrics = {} /\ e.list = {} /\ e.simulate = {}
      /\ e.defer = <<d>> /\ Common(e)
  <2> HIDE DEF kinds, nets, d
  <2> QED
    BY DEF Helpers, HelpersOf, Nothing, Common, nets, d
<1>3. Build(<<"bessUP", upf>>, e)
  BY <1>1
<1>4. x[1] = "bessUP"
  OBVIOUS
<1> HIDE DEF e
<1>5. UpShape(e, upf, nets)
  BY <1>2 DEF UpShape, TellsOf, Own
<1>6. nameToNf(upf) \in KindsOf(x[1]) /\ nameToNf(upf) = "upf"
  BY <1>1, <1>3, <1>4, StepFacts, NetFacts, UpNames
<1>7. Defines(x, e) /\ On(upf, nets) \subseteq Connected(e) /\ upf \in SeqToSet(Names(e))
  <2>1. IsList(kinds)
    <3>1. kinds \in Seq({"upfpfcp", "upfgui", "upfroute"})
      OBVIOUS
    <3> HIDE DEF kinds
    <3> QED
      BY <3>1, TypedList
  <2>2. /\ \A i, j \in DOMAIN kinds : kinds[i] = kinds[j] => i = j
        /\ \A i \in DOMAIN kinds : kinds[i] # "upf"
    OBVIOUS
  <2>3. upf[1] = "upf"
    BY <1>6 DEF nameToNf
  <2>4. \A i \in DOMAIN kinds : kinds[i] # upf[1]
    BY <2>2, <2>3
  <2>5. /\ e.define = <<<<upf, nets>>>> \o HelpersOf(kinds, upf)
        /\ \A i, j \in DOMAIN kinds : kinds[i] = kinds[j] => i = j
        /\ nameToNf(upf) \in KindsOf(x[1])
    BY <1>2, <1>6, <2>2
  <2> HIDE DEF x, nets, kinds
  <2> QED
    BY <2>1, <2>4, <2>5, HelpersFacts
<1>8. d # <<>> /\ d[1] \in Deferred /\ Needed(d) \subseteq Connected(e)
  <2>1. d[1] = "bessCommands" /\ d[2] = upf /\ d # <<>>
    OBVIOUS
  <2>2. Needed(d) = On(upf, {"n3", "n6"})
    <3> HIDE DEF d
    <3> QED
      BY <2>1 DEF Needed
  <2> QED
    BY <1>7, <2>1, <2>2 DEF Deferred, On
<1> HIDE DEF d
<1> QED
  BY <1>2, <1>3, <1>5, <1>7, <1>8, UpNames, DeferFacts, UpEffect

LEMMA NdndpdkUPStep == ASSUME GenInv, NdndpdkUP PROVE Legitimate
<1> DEFINE B(upf) == NdndpdkBase(upf)
           E(upf) == [[B(upf) EXCEPT !.defer = <<<<"ndndpdkCommands", upf>>>>] EXCEPT !.ok = @ /\ UpfsKnown]
<1>1. PICK upf \in SeqToSet(net.upfs) : Build(<<"ndndpdkUP", upf>>, E(upf))
  BY Zenon DEF NdndpdkUP, UPF
<1> DEFINE x == <<"ndndpdkUP", upf>>
           nets == {"mgmt"} \cup UpfNets(net, upf)
           d == <<"ndndpdkCommands", upf>>
           kinds == IF args.activate THEN <<"upfsvc">> ELSE <<>>
           e == E(upf)
<1>2. /\ e.define = <<<<upf, nets>>>> \o HelpersOf(kinds, upf)
      /\ e.tell = {}
      /\ e.awaits = {} /\ e.qos = {} /\ e.metrics = {} /\ e.list = {} /\ e.simulate = {}
      /\ e.defer = <<d>> /\ Common(e)
  <2> DEFINE h == NdndpdkHelper(upf)
  <2>1. /\ h.define = HelpersOf(kinds, upf)
        /\ h.tell = {} /\ h.awaits = {} /\ h.qos = {} /\ h.metrics = {} /\ h.list = {} /\ h.simulate = {}
        /\ Common(h)
        /\ DOMAIN h = DOMAIN Nothing
    <3>1. CASE args.activate
      <4>1. h = Helpers(kinds, upf)
        BY <3>1 DEF NdndpdkHelper
      <4> HIDE DEF kinds, h
      <4> QED
        BY <4>1 DEF Helpers, HelpersOf, Nothing, Common
    <3>2. CASE ~ args.activate
      <4>1. h = Nothing /\ kinds = <<>>
        BY <3>2 DEF NdndpdkHelper
      <4>2. HelpersOf(kinds, upf) = <<>>
        BY <4>1 DEF HelpersOf
      <4> HIDE DEF kinds, h
      <4> QED
        BY <4>1, <4>2 DEF Nothing, Common
    <3> QED
      BY <3>1, <3>2
  <2> HIDE DEF h, kinds, nets, d
  <2> QED
    BY <2>1 DEF NdndpdkBase, Common, Nothing, h, nets, d
<1>3. Build(<<"ndndpdkUP", upf>>, e)
  BY <1>1
<1>4. x[1] = "ndndpdkUP"
  OBVIOUS
<1> HIDE DEF e
<1>5. UpShape(e, upf, nets)
  BY <1>2 DEF UpShape, TellsOf
<1>6. nameToNf(upf) \in KindsOf(x[1]) /\ nameToNf(upf) = "upf"
  BY <1>1, <1>3, <1>4, StepFacts, NetFacts, UpNames
<1>7. Defines(x, e) /\ On(upf, nets) \subseteq Connected(e) /\ upf \in SeqToSet(Names(e))
  <2>1. IsList(kinds)
    <3>1. kinds \in Seq({"upfsvc"})
      <4>1. <<"upfsvc">> \in Seq({"upfsvc"}) /\ <<>> \in Seq({"upfsvc"})
        OBVIOUS
      <4> QED
        BY <4>1
    <3> HIDE DEF kinds
    <3> QED
      BY <3>1, TypedList
  <2>2. /\ \A i, j \in DOMAIN kinds : kinds[i] = kinds[j] => i = j
        /\ \A i \in DOMAIN kinds : kinds[i] # "upf"
    <3>1. CASE args.activate
      <4>1. DOMAIN kinds = {1} /\ kinds[1] = "upfsvc"
        BY <3>1
      <4> QED
        BY <4>1
    <3>2. CASE ~ args.activate
      <4>1. DOMAIN kinds = {}
        BY <3>2
      <4> QED
        BY <4>1
    <3> QED
      BY <3>1, <3>2
  <2>3. upf[1] = "upf"
    BY <1>6 DEF nameToNf
  <2>4. \A i \in DOMAIN kinds : kinds[i] # upf[1]
    BY <2>2, <2>3
  <2>5. /\ e.define = <<<<upf, nets>>>> \o HelpersOf(kinds, upf)
        /\ \A i, j \in DOMAIN kinds : kinds[i] = kinds[j] => i = j
        /\ nameToNf(upf) \in KindsOf(x[1])
    BY <1>2, <1>6, <2>2
  <2> HIDE DEF x, nets, kinds
  <2> QED
    BY <2>1, <2>4, <2>5, HelpersFacts
<1>8. d # <<>> /\ d[1] \in Deferred /\ Needed(d) \subseteq Connected(e)
  <2>1. d[1] = "ndndpdkCommands" /\ d[2] = upf /\ d # <<>>
    OBVIOUS
  <2>2. Needed(d) = On(upf, nets)
    <3> HIDE DEF d
    <3> QED
      BY <2>1 DEF Needed
  <2> QED
    BY <1>7, <2>1, <2>2 DEF Deferred
<1> HIDE DEF d
<1> QED
  BY <1>2, <1>3, <1>5, <1>7, <1>8, UpNames, DeferFacts, UpEffect

LEMMA UpFacts ==
  ASSUME GenInv, F5UP \/ O5UP \/ PhUPF \/ OaiUP \/ OaiUPvpp \/ EUPF \/ BessUP \/ NdndpdkUP
  PROVE  Legitimate
BY F5UPStep, O5UPStep, PhUPFStep, OaiUPStep, OaiUPvppStep, EUPFStep, BessUPStep, NdndpdkUPStep
-----------------------------------------------------------------------------
(* What is deferred.                                                           *)

LEMMA DeferredEffect ==
  ASSUME GenInv, NEW x, NEW e, Build(x, e), x[1] \in Deferred,
         e.define = <<>>, e.scan = {}, e.defer = <<>>, e.ports = {}, e.qos = {}, e.metrics = {},
         e.simulate = {}, e.lists = FALSE, e.place = FALSE,
         \A t \in e.tell : t = <<t[1], t[2], t[3]>> /\ (t[1] = t[2] \/ <<t[1], t[3]>> \in ip),
         \A q \in e.list : <<q[1], q[3]>> \in ip,
         \A l \in e.look : l[1] \in {"mac", "place"}
  PROVE  Legitimate
<1> SUFFICES ASSUME Succeeds(e) PROVE Effect(x, e)
  BY DEF Legitimate
<1>1. Defines(x, e) /\ Connected(e) = {}
  BY DefinesNone
<1>2. Tells(e)
  BY <1>1 DEF Tells, Succeeds
<1>3. \A y \in Ahead : KindsOf(y[1]) = {}
  <2>1. x[1] # "phBuilder" /\ Rank(x[1]) = 14
    BY Apart, Ranks
  <2>2. \A y \in Ahead : y[1] \in Deferred \cup {"phBuilder"}
    BY <2>1, StepFacts, Past DEF GenInv
  <2> QED
    BY <2>2, Apart, Kinds
<1>4. Asks(e)
  BY <1>1, <1>3 DEF Asks, Listings
<1>5. Marks(x, e) /\ MakesPorts(x, e) /\ Simulates(e)
  BY DEF Marks, MakesPorts, Simulates
<1>6. LooksAt(x, e)
  <2> SUFFICES ASSUME NEW l \in Looks(e) PROVE l[1] \in {"mac", "place", "assume"}
    BY DEF LooksAt
  <2> QED
    BY DEF Looks
<1>7. Defers(e)
  BY DEF Defers, IsList, SeqToSet
<1>8. Achieves(x, e) /\ x[1] # "place"
  <2>1. x[1] \notin Builders \cup Stages /\ x[1] # "place" /\ "oaiNF" \in Builders
    BY Apart DEF Builders
  <2>2. x # <<"oaiNF", "smf">> /\ x[1] \notin Storing
    BY <2>1, Apart
  <2> QED
    BY <2>1, <2>2 DEF Achieves, Stages
<1> QED
  BY <1>1, <1>2, <1>4, <1>5, <1>6, <1>7, <1>8 DEF Effect

\* A command of a UPF does nothing else.
LateShape(e) ==
  /\ e.define = <<>> /\ e.scan = {} /\ e.defer = <<>> /\ e.ports = {} /\ e.qos = {} /\ e.metrics = {}
  /\ e.simulate = {} /\ e.lists = FALSE /\ e.place = FALSE

LEMMA CommandsEffect ==
  ASSUME GenInv, NEW s \in Deferred, NEW upf, NEW e, Build(<<s, upf>>, e), LateShape(e),
         NEW nets, On(upf, nets) \subseteq Needed(<<s, upf>>), TellsOf(e, upf, nets),
         \A q \in e.list : q[1] = upf /\ q[3] \in nets,
         \A l \in e.look : l[1] \in {"mac", "place"}
  PROVE  Legitimate
<1> DEFINE x == <<s, upf>>
<1>1. Build(x, e) /\ x[1] \in Deferred /\ On(upf, nets) \subseteq Needed(x)
  OBVIOUS
<1> HIDE DEF x
<1>2. \A n \in nets : <<upf, n>> \in ip
  BY <1>1, StepFacts DEF On
<1>3. /\ \A t \in e.tell : t = <<t[1], t[2], t[3]>> /\ (t[1] = t[2] \/ <<t[1], t[3]>> \in ip)
      /\ \A q \in e.list : <<q[1], q[3]>> \in ip
  BY <1>2 DEF TellsOf
<1> QED
  BY <1>1, <1>3, DeferredEffect DEF LateShape

LEMMA NeededFacts ==
  ASSUME NEW upf
  PROVE  /\ Needed(<<"eUPFCommands", upf>>) = On(upf, {"mgmt"} \cup UpfNets(net, upf))
         /\ Needed(<<"ndndpdkCommands", upf>>) = On(upf, {"mgmt"} \cup UpfNets(net, upf))
         /\ Needed(<<"bessCommands", upf>>) = On(upf, {"n3", "n6"})
         /\ Needed(<<"oaiConfigUPF", upf>>) = On(upf, OaiUpfNets)
         /\ Needed(<<"oaiVppCommands", upf>>) = On(upf, {"cp"})
         /\ {"eUPFCommands", "ndndpdkCommands", "bessCommands", "oaiConfigUPF", "oaiVppCommands",
             "promFinish"} = Deferred
<1>1. \A d : d[2] = upf =>
         /\ d[1] \in {"eUPFCommands", "ndndpdkCommands"} => Needed(d) = On(upf, {"mgmt"} \cup UpfNets(net, upf))
         /\ d[1] = "bessCommands" => Needed(d) = On(upf, {"n3", "n6"})
         /\ d[1] = "oaiConfigUPF" => Needed(d) = On(upf, OaiUpfNets)
         /\ d[1] = "oaiVppCommands" => Needed(d) = On(upf, {"cp"})
  BY DEF Needed, On
<1>2. \A s : <<s, upf>>[1] = s /\ <<s, upf>>[2] = upf
  OBVIOUS
<1>3. {"eUPFCommands", "ndndpdkCommands", "bessCommands", "oaiConfigUPF", "oaiVppCommands",
       "promFinish"} = Deferred
  BY DEF Deferred
<1> QED
  BY <1>1, <1>2, <1>3

LEMMA AddressFacts ==
  ASSUME NEW upf, NEW nets, nets \subseteq {"n6", "n3", "n9"}
  PROVE  \A t \in AddressesOf(upf, nets) :
           t = <<t[1], t[2], t[3]>> /\ t[1] = upf /\ t[3] \in UpfNets(net, upf)
<1> SUFFICES ASSUME NEW n \in nets, NEW t \in Of(upf, PeersOn(upf, n), n)
             PROVE  t = <<t[1], t[2], t[3]>> /\ t[1] = upf /\ t[3] \in UpfNets(net, upf)
  BY DEF AddressesOf
<1>1. PICK p \in PeersOn(upf, n) : t = <<upf, p, n>>
  BY DEF Of
<1>2. n \in UpfNets(net, upf)
  BY <1>1, PeerFacts
<1> QED
  BY <1>1, <1>2

LEMMA EUPFCommandsStep == ASSUME GenInv, EUPFCommands PROVE Legitimate
<1> DEFINE E(upf) == [[Nothing EXCEPT
                        !.tell = Own(upf, {"mgmt"} \cup (UpfNets(net, upf) \ {"n6"}))
                                 \cup AddressesOf(upf, {"n6", "n3", "n9"}),
                        !.awaits = {upf},
                        !.look = MacsOf(upf, {"n6", "n3", "n9"})] EXCEPT !.ok = @ /\ UpfsKnown]
<1>1. PICK upf \in SeqToSet(net.upfs) : Build(<<"eUPFCommands", upf>>, E(upf))
  BY Zenon DEF EUPFCommands, UPF
<1> DEFINE nets == {"mgmt"} \cup UpfNets(net, upf)
           e == E(upf)
<1>2. /\ LateShape(e) /\ e.list = {} /\ e.look = MacsOf(upf, {"n6", "n3", "n9"})
      /\ e.tell = Own(upf, {"mgmt"} \cup (UpfNets(net, upf) \ {"n6"})) \cup AddressesOf(upf, {"n6", "n3", "n9"})
  BY DEF Nothing, LateShape
<1>3. Build(<<"eUPFCommands", upf>>, e)
  BY <1>1
<1> HIDE DEF e
<1>4. TellsOf(e, upf, nets)
  BY <1>2, AddressFacts DEF TellsOf, Own
<1>5. \A l \in e.look : l[1] \in {"mac", "place"}
  BY <1>2 DEF MacsOf
<1>6. On(upf, nets) \subseteq Needed(<<"eUPFCommands", upf>>) /\ "eUPFCommands" \in Deferred
  BY NeededFacts
<1> QED
  BY <1>2, <1>3, <1>4, <1>5, <1>6, CommandsEffect

LEMMA BessCommandsStep == ASSUME GenInv, BessCommands PROVE Legitimate
<1> DEFINE E(upf) == [[Nothing EXCEPT !.tell = DnRoutes(upf),
                        !.awaits = {upf},
                        !.list = {<<upf, "gnb", "n3">>},
                        !.look = {<<"mac", g, "n3">> : g \in ByNf("gnb")}] EXCEPT !.ok = @ /\ UpfsKnown]
<1>1. PICK upf \in SeqToSet(net.upfs) : Build(<<"bessCommands", upf>>, E(upf))
  BY Zenon DEF BessCommands, UPF
<1> DEFINE nets == {"n3", "n6"}
           e == E(upf)
<1>2. /\ LateShape(e) /\ e.list = {<<upf, "gnb", "n3">>} /\ e.look = {<<"mac", g, "n3">> : g \in ByNf("gnb")}
      /\ e.tell = DnRoutes(upf)
  BY DEF Nothing, LateShape
<1>3. Build(<<"bessCommands", upf>>, e)
  BY <1>1
<1> HIDE DEF e
<1>4. TellsOf(e, upf, nets)
  BY <1>2, PeerFacts DEF TellsOf
<1>5. /\ \A l \in e.look : l[1] \in {"mac", "place"}
      /\ \A q \in e.list : q[1] = upf /\ q[3] \in nets
  BY <1>2
<1>6. On(upf, nets) \subseteq Needed(<<"bessCommands", upf>>) /\ "bessCommands" \in Deferred
  BY NeededFacts
<1> QED
  BY <1>2, <1>3, <1>4, <1>5, <1>6, CommandsEffect

LEMMA NdndpdkCommandsStep == ASSUME GenInv, NdndpdkCommands PROVE Legitimate
<1> DEFINE E(upf) == [NdndpdkScript(upf) EXCEPT !.ok = @ /\ UpfsKnown]
<1>1. PICK upf \in SeqToSet(net.upfs) : Build(<<"ndndpdkCommands", upf>>, E(upf))
  BY Zenon DEF NdndpdkCommands, UPF
<1> DEFINE nets == {"mgmt"} \cup UpfNets(net, upf)
           e == E(upf)
<1>2. /\ LateShape(e) /\ e.list = {}
      /\ e.look = MacsOf(upf, {GtpNet(upf)}) \cup {<<"mac", upf, GtpNet(upf)>>}
      /\ e.tell = Own(upf, {"n4", GtpNet(upf)}) \cup {<<upf, FirstOf("smf"), "n4">>}
                  \cup AddressesOf(upf, {"n6", GtpNet(upf)})
  BY DEF NdndpdkScript, Nothing, LateShape
<1>3. Build(<<"ndndpdkCommands", upf>>, e)
  BY <1>1
<1> HIDE DEF e
<1>4. TellsOf(e, upf, nets)
  <2>1. {"n6", GtpNet(upf)} \subseteq {"n6", "n3", "n9"}
    BY DEF GtpNet
  <2>2. \A t \in AddressesOf(upf, {"n6", GtpNet(upf)}) :
           t = <<t[1], t[2], t[3]>> /\ t[1] = upf /\ t[3] \in UpfNets(net, upf)
    BY <2>1, AddressFacts
  <2>3. "n4" \in nets
    BY PeerFacts
  <2> QED
    BY <1>2, <2>2, <2>3 DEF TellsOf, Own
<1>5. \A l \in e.look : l[1] \in {"mac", "place"}
  BY <1>2 DEF MacsOf
<1>6. On(upf, nets) \subseteq Needed(<<"ndndpdkCommands", upf>>) /\ "ndndpdkCommands" \in Deferred
  BY NeededFacts
<1> QED
  BY <1>2, <1>3, <1>4, <1>5, <1>6, CommandsEffect

LEMMA OaiConfigUPFStep == ASSUME GenInv, OaiConfigUPF PROVE Legitimate
<1> DEFINE E(upf) == [[Nothing EXCEPT
                        !.tell = (IF args.oaiNrf THEN Of(upf, {Nrf}, "cp") ELSE {})
                                 \cup (IF ByNf("smf") = {} THEN {} ELSE {<<upf, FirstOf("smf"), "cp">>})
                                 \cup DnRoutes(upf),
                        !.list = {<<upf, "smf", "n4">>}] EXCEPT !.ok = @ /\ UpfsKnown]
<1>1. PICK upf \in SeqToSet(net.upfs) : Build(<<"oaiConfigUPF", upf>>, E(upf))
  BY Zenon DEF OaiConfigUPF, UPF
<1> DEFINE nets == OaiUpfNets
           e == E(upf)
<1>2. /\ LateShape(e) /\ e.list = {<<upf, "smf", "n4">>} /\ e.look = {}
      /\ e.tell = (IF args.oaiNrf THEN Of(upf, {Nrf}, "cp") ELSE {})
                  \cup (IF ByNf("smf") = {} THEN {} ELSE {<<upf, FirstOf("smf"), "cp">>})
                  \cup DnRoutes(upf)
  BY DEF Nothing, LateShape
<1>3. Build(<<"oaiConfigUPF", upf>>, e)
  BY <1>1
<1> HIDE DEF e
<1>4. {"cp", "n4", "n6"} \subseteq nets
  BY DEF OaiUpfNets
<1>5. TellsOf(e, upf, nets)
  BY <1>2, <1>4, PeerFacts DEF TellsOf, Of
<1>6. /\ \A l \in e.look : l[1] \in {"mac", "place"}
      /\ \A q \in e.list : q[1] = upf /\ q[3] \in nets
  BY <1>2, <1>4
<1>7. On(upf, nets) \subseteq Needed(<<"oaiConfigUPF", upf>>) /\ "oaiConfigUPF" \in Deferred
  BY NeededFacts
<1> QED
  BY <1>2, <1>3, <1>5, <1>6, <1>7, CommandsEffect

LEMMA OaiVppCommandsStep == ASSUME GenInv, OaiVppCommands PROVE Legitimate
<1> DEFINE E(upf) == [[Nothing EXCEPT !.look = {<<"place", upf, "">>},
                        !.awaits = {upf},
                        !.tell = IF args.oaiNrf THEN Of(upf, {Nrf}, "cp") ELSE {}] EXCEPT !.ok = @ /\ UpfsKnown]
<1>1. PICK upf \in SeqToSet(net.upfs) : Build(<<"oaiVppCommands", upf>>, E(upf))
  BY Zenon DEF OaiVppCommands, UPF
<1> DEFINE nets == {"cp"}
           e == E(upf)
<1>2. /\ LateShape(e) /\ e.list = {} /\ e.look = {<<"place", upf, "">>}
      /\ e.tell = IF args.oaiNrf THEN Of(upf, {Nrf}, "cp") ELSE {}
  BY DEF Nothing, LateShape
<1>3. Build(<<"oaiVppCommands", upf>>, e)
  BY <1>1
<1> HIDE DEF e
<1>4. TellsOf(e, upf, nets)
  <2> SUFFICES ASSUME NEW t \in e.tell PROVE t = <<t[1], t[2], t[3]>> /\ t[1] = upf /\ t[3] \in nets
    BY DEF TellsOf
  <2>1. t \in Of(upf, {Nrf}, "cp")
    BY <1>2
  <2>2. t = <<upf, Nrf, "cp">>
    BY <2>1 DEF Of
  <2> QED
    BY <2>2
<1>5. \A l \in e.look : l[1] \in {"mac", "place"}
  <2> SUFFICES ASSUME NEW l \in e.look PROVE l[1] = "place"
    OBVIOUS
  <2>1. l = <<"place", upf, "">>
    BY <1>2
  <2> QED
    BY <2>1
<1>6. On(upf, nets) \subseteq Needed(<<"oaiVppCommands", upf>>) /\ "oaiVppCommands" \in Deferred
  BY NeededFacts
<1> QED
  BY <1>2, <1>3, <1>4, <1>5, <1>6, CommandsEffect

LEMMA PromFinishStep == ASSUME GenInv, PromFinish PROVE Legitimate
<1> DEFINE x == <<"promFinish">>
           e == [Nothing EXCEPT !.tell = Of(Prometheus, {Exporter}, "meas"), !.look = {<<"place", Exporter, "">>}]
<1>1. Build(x, e)
  BY DEF PromFinish
<1>2. /\ LateShape(e) /\ e.list = {} /\ e.look = {<<"place", Exporter, "">>}
      /\ e.tell = Of(Prometheus, {Exporter}, "meas")
  BY DEF Nothing, LateShape
<1>3. x[1] = "promFinish" /\ x[1] \in Deferred
  BY NeededFacts
<1> HIDE DEF x, e
<1>4. Needed(x) = {<<Prometheus, "meas">>}
  BY <1>3 DEF Needed
<1>5. <<Prometheus, "meas">> \in ip
  BY <1>1, <1>4, StepFacts
<1>6. ASSUME NEW t \in e.tell PROVE t = <<t[1], t[2], t[3]>> /\ <<t[1], t[3]>> \in ip
  <2>1. t = <<Prometheus, Exporter, "meas">>
    BY <1>2 DEF Of
  <2> QED
    BY <1>5, <2>1
<1>7. ASSUME NEW l \in e.look PROVE l[1] \in {"mac", "place"}
  <2>1. l = <<"place", Exporter, "">>
    BY <1>2
  <2> QED
    BY <2>1
<1> QED
  BY <1>1, <1>2, <1>3, <1>6, <1>7, DeferredEffect DEF LateShape

LEMMA DeferredFacts ==
  ASSUME GenInv,
         EUPFCommands \/ BessCommands \/ NdndpdkCommands \/ OaiConfigUPF \/ OaiVppCommands \/ PromFinish
  PROVE  Legitimate
BY EUPFCommandsStep, BessCommandsStep, NdndpdkCommandsStep, OaiConfigUPFStep, OaiVppCommandsStep,
   PromFinishStep
-----------------------------------------------------------------------------
(* RAN simulators.                                                             *)

LEMMA RanEffect ==
  ASSUME GenInv, NEW x, NEW e, Build(x, e), x[1] \in RanBuild, Common(e), e.defer = <<>>, Defines(x, e),
         e.qos \cup e.metrics \subseteq SeqToSet(Names(e)),
         \A t \in e.tell : t = <<t[1], t[2], t[3]>> /\ (t[1] = t[2] \/ <<t[1], t[3]>> \in Connected(e)),
         \A q \in e.list : <<q[1], q[3]>> \in Connected(e) /\ q[2] = "amf",
         \A c \in e.awaits : nameToNf(c) \in {"gnb", "ue"},
         Requests /\ Succeeds(e) => e.simulate \subseteq Everybody
  PROVE  Legitimate
<1>1. /\ args \in Inputs /\ Planned /\ todo # <<>> /\ Head(todo) = x
      /\ \A y \in Ahead : Legal(y)
  BY StepFacts, NextStep DEF GenInv
<1>2. /\ x[1] \in Builders \ (Storing \cup {"oaiNF"}) /\ x[1] # "phBuilder" /\ Rank(x[1]) = 7
  BY Ranks DEF Builders, RanBuild, Storing
<1>3. ~ Pending(CpFirst \cup CpConfig)
  BY <1>1, <1>2, Past
<1>4. ASSUME NEW y \in Ahead PROVE "amf" \notin KindsOf(y[1])
  <2>1. y[1] \notin CpFirst \cup CpConfig /\ y[1] \in Builders \cup Quiet \cup Stages
    BY <1>1, <1>3, RankOfLegal DEF Pending
  <2>2. y[1] \in UpEarly \cup UpLate \cup RanBuild \cup Quiet \cup Stages
    BY <2>1 DEF Builders
  <2> QED
    BY <2>2, Kinds DEF Stages
<1>5. LatePorts => \A c \in e.awaits : ~ Takeable(c)
  BY <1>1, NotTaken
<1>6. IsList(e.defer) /\ SeqToSet(e.defer) = {}
  BY DeferNone
<1> QED
  BY <1>2, <1>4, <1>5, <1>6, BuilderEffect

\* A step that defines one simulator.
RanShape(e, c, nets) ==
  /\ e.define = <<<<c, nets>>>> /\ TellsOf(e, c, nets) /\ Usual(e)
  /\ e.qos \cup e.metrics \subseteq {c}
  /\ e.list = {} \/ (e.list = {<<c, "amf", "n2">>} /\ "n2" \in nets)
  /\ e.awaits = {c}

LEMMA SimulatorEffect ==
  ASSUME GenInv, NEW x, NEW e, Build(x, e), x[1] \in RanBuild, NEW c, NEW nets, RanShape(e, c, nets),
         nameToNf(c) \in {"gnb", "ue"}, Requests /\ Succeeds(e) => e.simulate \subseteq Everybody
  PROVE  Legitimate
<1>1. KindsOf(x[1]) = {"gnb", "ue"}
  BY Kinds
<1>2. Defines(x, e) /\ On(c, nets) \subseteq Connected(e) /\ c \in SeqToSet(Names(e))
  BY <1>1, DefinesOne DEF RanShape
<1>3. \A t \in e.tell : t = <<t[1], t[2], t[3]>> /\ (t[1] = t[2] \/ <<t[1], t[3]>> \in Connected(e))
  BY <1>2 DEF RanShape, TellsOf, On
<1>4. ASSUME NEW q \in e.list PROVE <<q[1], q[3]>> \in Connected(e) /\ q[2] = "amf"
  <2>1. q = <<c, "amf", "n2">> /\ "n2" \in nets
    BY DEF RanShape
  <2> QED
    BY <1>2, <2>1 DEF On
<1>5. /\ Common(e) /\ e.defer = <<>> /\ e.qos \cup e.metrics \subseteq SeqToSet(Names(e))
      /\ \A d \in e.awaits : nameToNf(d) \in {"gnb", "ue"}
  BY <1>2 DEF RanShape, Usual, Common
<1> QED
  BY <1>2, <1>3, <1>4, <1>5, RanEffect

LEMMA RanNames ==
  /\ {"ueransimGNB", "ueransimUE", "prush", "srsZmq", "srsSdr", "gnbsimRAN", "oaiGNB", "oaiUE",
      "phGNB", "phUE"} = RanBuild
  /\ \A sub : nameToNf(UeName(sub)) = "ue"
  /\ \A k : nameToNf(<<"ue", k>>) = "ue"
BY DEF RanBuild, UeName, nameToNf

LEMMA UeransimGNBStep == ASSUME GenInv, UeransimGNB PROVE Legitimate
<1>1. PICK gnb \in SeqToSet(net.gnbs) :
        Build(<<"ueransimGNB", gnb>>, [Gnb(gnb, {"air", "n2", "n3"}) EXCEPT !.list = WithAmfs(gnb), !.qos = {gnb}])
  BY DEF UeransimGNB
<1> DEFINE x == <<"ueransimGNB", gnb>>
           nets == {"air", "n2", "n3"}
           e == [Gnb(gnb, nets) EXCEPT !.list = WithAmfs(gnb), !.qos = {gnb}]
<1>2. Build(x, e)
  BY <1>1
<1>3. /\ e.define = <<<<gnb, nets>>>> /\ e.tell = {} /\ Usual(e) /\ e.qos = {gnb} /\ e.metrics = {}
      /\ e.list = {<<gnb, "amf", "n2">>} /\ e.awaits = {gnb} /\ e.simulate = {}
  BY DEF Gnb, Nothing, Usual, WithAmfs
<1>4. x[1] \in RanBuild /\ "n2" \in nets
  BY RanNames
<1>5. nameToNf(gnb) = "gnb"
  BY <1>2, StepFacts, NetFacts
<1> HIDE DEF x, e, nets
<1>6. RanShape(e, gnb, nets)
  BY <1>3, <1>4 DEF RanShape, TellsOf
<1> QED
  BY <1>2, <1>3, <1>4, <1>5, <1>6, SimulatorEffect

\* Simulated UEs are subscribers, wherever they are in a list of them.
LEMMA ListedFacts ==
  ASSUME GenInv, NEW x, NEW e, Build(x, e), NEW b \in BOOLEAN, NEW i \in DOMAIN Subscribers(b)
  PROVE  LET sub == Subscribers(b)[i] IN
         Requests => /\ Uses(sub, SeqToSet(RequestedDN(sub))) \subseteq Everybody
                     /\ Uses(sub, SingleDN(sub, i)) \subseteq Everybody
<1> DEFINE sub == Subscribers(b)[i]
<1>1. args \in Inputs /\ drawn \in {0, 1}
  BY StepFacts
<1>2. i \in Nat /\ \E s \in SeqToSet(net.subs) : Derives(sub, s)
  BY <1>1, SubscribersFacts
<1> HIDE DEF sub
<1>3. Requests => /\ Uses(sub, SeqToSet(RequestedDN(sub))) \subseteq Everybody
                  /\ Uses(sub, SingleDN(sub, i)) \subseteq Everybody
  BY <1>1, <1>2, SimulatedFacts
<1> QED
  BY <1>3 DEF sub

LEMMA UeransimUEStep == ASSUME GenInv, UeransimUE PROVE Legitimate
<1> DEFINE U(sub) == [Ue(UeName(sub), sub, SeqToSet(RequestedDN(sub))) EXCEPT
                        !.tell = Of(UeName(sub), SeqToSet(sub.gnbs), "air")]
<1>1. PICK i \in DOMAIN Subscribers(args.ueransimSingle) :
        Build(<<"ueransimUE", i>>, U(Subscribers(args.ueransimSingle)[i]))
  BY DEF UeransimUE
<1> DEFINE x == <<"ueransimUE", i>>
           sub == Subscribers(args.ueransimSingle)[i]
           c == UeName(sub)
           nets == {"mgmt", "air"}
           e == U(sub)
<1>2. Build(x, e)
  BY <1>1
<1>3. /\ e.define = <<<<c, nets>>>> /\ e.tell = Of(c, SeqToSet(sub.gnbs), "air") /\ Usual(e) /\ e.qos = {}
      /\ e.metrics = {} /\ e.list = {} /\ e.awaits = {c} /\ e.simulate = Uses(sub, SeqToSet(RequestedDN(sub)))
  BY DEF Ue, Nothing, Usual
<1>4. x[1] \in RanBuild /\ nameToNf(c) = "ue" /\ "air" \in nets
  BY RanNames
<1>5. Requests => e.simulate \subseteq Everybody
  <2>1. args.ueransimSingle \in BOOLEAN
    BY <1>2, StepFacts, OptionsAssumption
  <2> QED
    BY <1>2, <1>3, <2>1, ListedFacts
<1> HIDE DEF x, e, c, nets, sub
<1>6. RanShape(e, c, nets)
  BY <1>3, <1>4 DEF RanShape, TellsOf, Of
<1> QED
  BY <1>2, <1>4, <1>5, <1>6, SimulatorEffect

LEMMA SrsSdrStep == ASSUME GenInv, SrsSdr PROVE Legitimate
<1> DEFINE E(gnb) == [Gnb(gnb, {"n2", "n3"}) EXCEPT !.tell = WithFirstAmf(gnb),
                                     !.wait = {<<gnb, "ping", FirstOf("amf"), "n2">>}]
<1>1. PICK gnb \in SeqToSet(net.gnbs) : Build(<<"srsSdr", gnb>>, E(gnb))
  BY DEF SrsSdr
<1> DEFINE x == <<"srsSdr", gnb>>
           nets == {"n2", "n3"}
           e == E(gnb)
<1>2. Build(x, e)
  BY <1>1
<1>3. /\ e.define = <<<<gnb, nets>>>> /\ e.tell = {<<gnb, FirstOf("amf"), "n2">>} /\ Usual(e) /\ e.qos = {}
      /\ e.metrics = {} /\ e.list = {} /\ e.awaits = {gnb} /\ e.simulate = {}
  BY DEF Gnb, Nothing, Usual, WithFirstAmf
<1>4. x[1] \in RanBuild /\ "n2" \in nets
  BY RanNames
<1>5. nameToNf(gnb) = "gnb"
  BY <1>2, StepFacts, NetFacts
<1> HIDE DEF x, e, nets
<1>6. RanShape(e, gnb, nets)
  BY <1>3, <1>4 DEF RanShape, TellsOf
<1> QED
  BY <1>2, <1>3, <1>4, <1>5, <1>6, SimulatorEffect

LEMMA GnbsimRANStep == ASSUME GenInv, GnbsimRAN PROVE Legitimate
<1> DEFINE D(gnb) == UNION {SingleDN(SubsOf(gnb)[i], i) : i \in DOMAIN SubsOf(gnb)}
           E(gnb) == [Gnb(gnb, {"mgmt", "n2", "n3"}) EXCEPT
            !.ok = /\ \A i \in DOMAIN SubsOf(gnb) : RequestedDN(SubsOf(gnb)[i]) # <<>>
                   /\ \A dn \in D(gnb) : HasDN(net, dn),
            !.tell = WithFirstAmf(gnb),
            !.cite = {<<DnCt(dn), "n6">> : dn \in D(gnb)},
            !.lists = TRUE,
            !.simulate = UNION {Uses(SubsOf(gnb)[i], SingleDN(SubsOf(gnb)[i], i)) : i \in DOMAIN SubsOf(gnb)}]
<1>1. PICK gnb \in SeqToSet(net.gnbs) : Build(<<"gnbsimRAN", gnb>>, E(gnb))
  BY DEF GnbsimRAN
<1> DEFINE x == <<"gnbsimRAN", gnb>>
           nets == {"mgmt", "n2", "n3"}
           subs == SubsOf(gnb)
           e == E(gnb)
<1>2. Build(x, e)
  BY <1>1
<1>3. /\ e.define = <<<<gnb, nets>>>> /\ e.tell = {<<gnb, FirstOf("amf"), "n2">>} /\ Usual(e) /\ e.qos = {}
      /\ e.metrics = {} /\ e.list = {} /\ e.awaits = {gnb}
      /\ e.simulate = UNION {Uses(subs[i], SingleDN(subs[i], i)) : i \in DOMAIN subs}
  BY DEF Gnb, Nothing, Usual, WithFirstAmf
<1>4. x[1] \in RanBuild /\ "n2" \in nets
  BY RanNames
<1>5. /\ nameToNf(gnb) = "gnb" /\ args \in Inputs /\ drawn \in {0, 1} /\ IsList(net.subs)
      /\ \A sub \in SeqToSet(net.subs) : IsSubscriber(sub)
  BY <1>2, StepFacts, NetFacts
<1>6. \A i \in DOMAIN subs : subs[i] \in SeqToSet(net.subs) /\ i \in Nat
  <2>1. IsList(subs) /\ SeqToSet(subs) \subseteq SeqToSet(net.subs)
    BY <1>5, KeptList DEF SubsOf
  <2> HIDE DEF subs
  <2> QED
    BY <2>1, ListFacts
<1> HIDE DEF x, e, nets, subs
<1>7. Requests => \A i \in DOMAIN subs : Uses(subs[i], SingleDN(subs[i], i)) \subseteq Everybody
  BY <1>5, <1>6, ExpandedFacts, SimulatedFacts
<1>8. RanShape(e, gnb, nets)
  BY <1>3, <1>4 DEF RanShape, TellsOf
<1>9. Requests => e.simulate \subseteq Everybody
  BY <1>3, <1>7
<1> QED
  BY <1>2, <1>4, <1>5, <1>8, <1>9, SimulatorEffect
LEMMA PrushOptionsStep == ASSUME GenInv, PrushOptions PROVE Legitimate
<1> DEFINE x == <<"prushOptions">>
           e == [Nothing EXCEPT !.lists = TRUE,
                   !.ok = /\ PrushPairs # <<>>
                          /\ Paired(PrushPairs)
                          /\ args.prushMulti => Successive(PrushPairs)]
<1>1. Build(x, e)
  BY DEF PrushOptions
<1>2. /\ e.define = <<>> /\ e.list = {} /\ e.scan = {} /\ e.look = {} /\ e.defer = <<>> /\ e.ports = {}
      /\ e.qos = {} /\ e.metrics = {} /\ e.simulate = {} /\ e.lists \in BOOLEAN /\ e.place = FALSE
      /\ e.tell = {} /\ e.awaits = {}
      /\ e.ok = (PrushPairs # <<>> /\ Paired(PrushPairs) /\ (args.prushMulti => Successive(PrushPairs)))
  BY DEF Nothing
<1>3. x[1] \notin {"dn", "oaiNF", "saveQoS", "buildPrometheus", "place"} \cup Storing
  BY DEF Storing
<1> HIDE DEF x, e
<1>4. Tells(e)
  BY <1>2 DEF Tells
<1>5. Successive(PrushPairs) => Alike(PrushPairs)
  <2>1. drawn \in {0, 1}
    BY <1>1, StepFacts
  <2>2. \A sub : Key(sub) = KeyOf(sub)
    BY <2>1, KeyFacts
  <2> QED
    BY <2>2 DEF Successive, Alike
<1>6. Succeeds(e) => PrushPairs # <<>> /\ Paired(PrushPairs) /\ (args.prushMulti => Alike(PrushPairs))
  BY <1>2, <1>5 DEF Succeeds
<1> QED
  BY <1>1, <1>2, <1>3, <1>4, <1>6, BareEffect

\* What prushOptions has found is there when a container is defined.
LEMMA PairsFacts ==
  ASSUME GenInv, NEW x, NEW e, Build(x, e), x[1] = "prush"
  PROVE  /\ Paired(PrushPairs) /\ (args.prushMulti => Alike(PrushPairs))
         /\ args.ran = "packetrusher" /\ (args.prushMulti => x[2] = 1)
<1>1. /\ Planned /\ Arranged /\ todo # <<>> /\ Head(todo) = x /\ x \in Ahead /\ Legal(x) /\ failed = <<>>
  BY StepFacts DEF GenInv
<1>2. Pending({"prush"})
  BY <1>1 DEF Pending
<1>3. x[1] # "phBuilder" /\ Rank(x[1]) = 7
  BY Ranks, Apart
<1>4. ~ Pending({"prushOptions"})
  BY <1>1, <1>3, Past
<1> QED
  BY <1>1, <1>2, <1>4 DEF Arranged, Legal

\* The UEs of one container for all gNBs are the subscribers, in their order.
LEMMA MultiFacts ==
  ASSUME args \in Inputs, drawn \in {0, 1}, Requests, args.ran = "packetrusher", args.prushMulti,
         NEW b \in BOOLEAN, NEW subs, subs = Subscribers(b), Alike(subs), 1 \in DOMAIN subs,
         NEW dns, dns \subseteq SingleDN(subs[1], 1)
  PROVE  Uses([subs[1] EXCEPT !.count = Len(subs)], dns) \subseteq Everybody
<1> DEFINE t == subs[1]
           n == Len(subs)
           u == [t EXCEPT !.count = n]
<1>1. /\ IsList(subs) /\ \A j \in DOMAIN subs : subs[j] \in SeqToSet(subs)
      /\ \A r \in SeqToSet(subs) : \E s \in SeqToSet(net.subs) : Derives(r, s)
  BY SubscribersFacts
<1>2. n \in Nat /\ DOMAIN subs = 1 .. n
  BY <1>1, ListFacts
<1>3. PICK s \in SeqToSet(net.subs) : Derives(t, s)
  BY <1>1
<1>4. t.supi \in Nat /\ {"supi", "count", "key"} \subseteq DOMAIN t
  <2>1. IsSubscriber(s)
    BY NetFacts
  <2>2. s.supi \in Nat /\ s.count \in Nat
    BY <2>1 DEF IsSubscriber
  <2> QED
    BY <1>3, <2>2 DEF Derives, Supis
<1>5. u.supi = t.supi /\ u.count = n /\ u.key = t.key
  BY <1>4
<1> HIDE DEF u
<1>6. Key(u) = KeyOf(t)
  BY <1>5, KeyFacts DEF KeyOf
<1>7. \A dn \in dns : dn \in SeqToSet(SubscribedDN(s))
  <2>1. IsList(RequestedDN(t)) /\ SeqToSet(RequestedDN(t)) \subseteq SeqToSet(SubscribedDN(s))
    BY <1>3, DerivedFacts
  <2> QED
    BY <2>1, SingleFacts
<1>8. ASSUME NEW supi \in Supis(u), NEW dn \in dns PROVE <<supi, Key(u), dn>> \in Everybody
  <2> DEFINE j == supi - t.supi + 1
  <2>1. supi \in Int /\ t.supi <= supi /\ supi <= t.supi + n - 1
    BY <1>2, <1>4, <1>5 DEF Supis
  <2>2. j \in 1 .. n /\ supi = t.supi + j - 1
    BY <1>2, <1>4, <2>1
  <2> HIDE DEF j
  <2>3. subs[j].supi = supi /\ KeyOf(subs[j]) = KeyOf(t)
    BY <1>2, <2>2 DEF Alike
  <2>4. PICK r \in SeqToSet(net.subs) : Derives(subs[j], r)
    BY <1>1, <1>2, <2>2
  <2>5. supi \in Supis(r) /\ KeyOf(r) = KeyOf(t)
    BY <2>3, <2>4, DerivedFacts DEF Derives
  <2>6. dn \in SeqToSet(SubscribedDN(r))
    BY <1>7 DEF Requests, net
  <2> QED
    BY <1>6, <2>5, <2>6 DEF Everybody
<1>9. Uses(u, dns) \subseteq Everybody
  BY <1>8 DEF Uses
<1> QED
  BY <1>9 DEF u

LEMMA PrushUesFacts ==
  ASSUME GenInv, NEW x, NEW e, Build(x, e), NEW i \in DOMAIN PrushPairs, x[1] = "prush", x[2] = i, Requests
  PROVE  PrushUes(i) \subseteq Everybody
<1>1. /\ args \in Inputs /\ drawn \in {0, 1} /\ args.ran = "packetrusher"
      /\ args.prushMulti => i = 1 /\ Alike(PrushPairs)
  BY StepFacts, PairsFacts
<1>2. PrushExpand \in BOOLEAN /\ args.prushMulti \in BOOLEAN
  BY <1>1, OptionsAssumption DEF PrushExpand
<1>3. CASE args.prushMulti
  <2>1. PrushUes(i) = Uses([PrushPairs[1] EXCEPT !.count = Len(PrushPairs)], SingleDN(PrushPairs[1], 1))
    BY <1>1, <1>3 DEF PrushUes
  <2> QED
    BY <1>1, <1>2, <1>3, <2>1, MultiFacts DEF PrushPairs
<1>4. CASE ~ args.prushMulti
  <2>1. PrushUes(i) = Uses(PrushPairs[i], SingleDN(PrushPairs[i], i))
    BY <1>4 DEF PrushUes
  <2> QED
    BY <1>2, <2>1, ListedFacts DEF PrushPairs
<1> QED
  BY <1>3, <1>4

LEMMA PairList ==
  ASSUME NEW S, NEW a \in S, NEW b \in S
  PROVE  <<a>> \o <<b>> = <<a, b>> /\ <<a>> \o <<>> = <<a>>
<1> DEFINE p == <<a>>
           q == <<b>>
           o == <<>>
<1>0. p \in Seq(S) /\ q \in Seq(S) /\ o \in Seq(S)
  OBVIOUS
<1>1. Len(p) = 1 /\ p[1] = a /\ Len(q) = 1 /\ q[1] = b /\ Len(o) = 0
  OBVIOUS
<1>2. ASSUME NEW d \in Seq(S), NEW n, Len(d) = n, n = 2, d[1] = a, d[2] = b PROVE d = <<a, b>>
  <2>1. <<a, b>> \in Seq(S) /\ <<a, b>>[1] = a /\ <<a, b>>[2] = b /\ Len(<<a, b>>) = 2
    OBVIOUS
  <2> DEFINE t == <<a, b>>
  <2> HIDE DEF t
  <2>2. d \in [1 .. 2 -> S] /\ t \in [1 .. 2 -> S]
    BY <1>2, <2>1 DEF t
  <2>3. \A i \in 1 .. 2 : d[i] = t[i]
    BY <1>2, <2>1 DEF t
  <2>4. d = t
    BY <2>2, <2>3
  <2> QED
    BY <2>4 DEF t
<1>3. ASSUME NEW d \in Seq(S), NEW n, Len(d) = n, n = 1, d[1] = a PROVE d = <<a>>
  <2> DEFINE t == <<a>>
  <2>1. t \in [1 .. 1 -> S] /\ t[1] = a
    OBVIOUS
  <2> HIDE DEF t
  <2>2. d \in [1 .. 1 -> S]
    BY <1>3
  <2>3. \A i \in 1 .. 1 : d[i] = t[i]
    BY <1>3, <2>1
  <2>4. d = t
    BY <2>1, <2>2, <2>3
  <2> QED
    BY <2>4 DEF t
<1> HIDE DEF p, q, o
<1>4. /\ p \o q \in Seq(S) /\ Len(p \o q) = Len(p) + Len(q)
      /\ \A i \in 1 .. Len(p) : (p \o q)[i] = p[i]
      /\ \A i \in 1 .. Len(q) : (p \o q)[Len(p) + i] = q[i]
  BY <1>0, ConcatFacts
<1>5. /\ p \o o \in Seq(S) /\ Len(p \o o) = Len(p) + Len(o)
      /\ \A i \in 1 .. Len(p) : (p \o o)[i] = p[i]
  BY <1>0, ConcatFacts
<1> DEFINE d == p \o q
           c == p \o o
<1> HIDE DEF d, c
<1>6. d \in Seq(S) /\ Len(d) = 2 /\ d[1] = a /\ d[2] = b
  <2>1. d \in Seq(S) /\ Len(d) = Len(p) + Len(q) /\ d[1] = p[1] /\ d[Len(p) + 1] = q[1]
    BY <1>1, <1>4 DEF d
  <2> QED
    BY <1>1, <2>1
<1>7. c \in Seq(S) /\ Len(c) = 1 /\ c[1] = a
  <2>1. c \in Seq(S) /\ Len(c) = Len(p) + Len(o) /\ c[1] = p[1]
    BY <1>1, <1>5 DEF c
  <2> QED
    BY <1>1, <2>1
<1>8. d = <<a, b>> /\ c = <<a>>
  BY <1>2, <1>3, <1>6, <1>7
<1> QED
  BY <1>8 DEF d, c, p, q, o

LEMMA PrushStep == ASSUME GenInv, Prush PROVE Legitimate
<1> DEFINE E(gnb, i) == [Gnb(gnb, {"mgmt", "n2", "n3"}) EXCEPT
            !.define = @ \o (IF args.prushTunnel THEN <<<<Ct("gtp5g"), {}>>>> ELSE <<>>),
            !.list = WithAmfs(gnb),
            !.qos = {gnb},
            !.simulate = PrushUes(i)]
<1>1. PICK i \in DOMAIN PrushPairs : Build(<<"prush", i>>, E(PrushPairs[i].gnbs[1], i))
  BY DEF Prush
<1> DEFINE gnb == PrushPairs[i].gnbs[1]
           x == <<"prush", i>>
           nets == {"mgmt", "n2", "n3"}
           f == Gnb(gnb, nets)
           e == E(gnb, i)
<1>2. Build(x, e)
  BY <1>1
<1>3. /\ e.tell = {} /\ Usual(e) /\ e.qos = {gnb} /\ e.metrics = {}
      /\ e.list = {<<gnb, "amf", "n2">>} /\ e.awaits = {gnb} /\ e.simulate = PrushUes(i)
  BY DEF Gnb, Nothing, Usual, WithAmfs
<1>4. e.define = <<<<gnb, nets>>>> \o (IF args.prushTunnel THEN <<<<Ct("gtp5g"), {}>>>> ELSE <<>>)
  BY DEF Gnb, Nothing
<1>5. x[1] = "prush" /\ x[2] = i /\ x[1] \in RanBuild /\ "n2" \in nets
  BY RanNames
<1> HIDE DEF x, e, nets
<1>6. nameToNf(gnb) = "gnb"
  <2>1. gnb \in SeqToSet(net.gnbs)
    BY <1>2, <1>5, PairsFacts DEF Paired
  <2> QED
    BY <1>2, <2>1, StepFacts, NetFacts
<1>7. Defines(x, e) /\ On(gnb, nets) \subseteq Connected(e) /\ gnb \in SeqToSet(Names(e))
  <2>1. nameToNf(Ct("gtp5g")) = "gtp5g"
    BY DEF nameToNf, Ct
  <2>2. KindsOf(x[1]) = {"gnb", "ue"} /\ gnb # Ct("gtp5g")
    BY <1>5, <1>6, <2>1, Kinds
  <2> DEFINE v == <<gnb, nets>>
             w == <<Ct("gtp5g"), {}>>
  <2>3. <<v>> \o <<w>> = <<v, w>> /\ <<v>> \o <<>> = <<v>>
    <3>1. v \in {v, w} /\ w \in {v, w}
      OBVIOUS
    <3> HIDE DEF v, w
    <3> QED
      BY <3>1, PairList
  <2>4. e.define = <<<<gnb, nets>>, <<Ct("gtp5g"), {}>>>> \/ e.define = <<<<gnb, nets>>>>
    BY <1>4, <2>3
  <2> QED
    BY <1>6, <2>2, <2>4, DefinesOne, DefinesTwo
<1>8. Requests => e.simulate \subseteq Everybody
  BY <1>2, <1>3, <1>5, PrushUesFacts
<1>9. \A q \in e.list : <<q[1], q[3]>> \in Connected(e) /\ q[2] = "amf"
  <2> SUFFICES ASSUME NEW q \in e.list PROVE <<q[1], q[3]>> \in Connected(e) /\ q[2] = "amf"
    OBVIOUS
  <2>1. q = <<gnb, "amf", "n2">>
    BY <1>3
  <2> QED
    BY <1>5, <1>7, <2>1 DEF On
<1>10. /\ Common(e) /\ e.defer = <<>> /\ e.qos \cup e.metrics \subseteq SeqToSet(Names(e))
       /\ \A d \in e.awaits : nameToNf(d) \in {"gnb", "ue"}
       /\ e.tell = {}
  BY <1>3, <1>6, <1>7 DEF Usual, Common
<1> QED
  BY <1>2, <1>5, <1>7, <1>8, <1>9, <1>10, RanEffect
LEMMA SrsZmqStep == ASSUME GenInv, SrsZmq PROVE Legitimate
<1> DEFINE S == Subscribers(TRUE)
           E(sub, gnb, ue, i) == [Ue(ue, sub, SingleDN(sub, i)) EXCEPT
            !.ok = Paired(SubSeq(S, 1, i)),
            !.define = @ \o <<<<gnb, {"air", "n2", "n3"}>>>>,
            !.tell = Of(gnb, {ue}, "air") \cup Of(ue, {gnb}, "air") \cup WithFirstAmf(gnb),
            !.awaits = {ue, gnb},
            !.wait = {<<gnb, "ping", FirstOf("amf"), "n2">>, <<ue, "port", gnb, "air">>}]
<1>1. PICK i \in DOMAIN S : Build(<<"srsZmq", i>>, E(S[i], S[i].gnbs[1], <<"ue", S[i].gnbs[1][2]>>, i))
  BY DEF SrsZmq
<1> DEFINE x == <<"srsZmq", i>>
           sub == S[i]
           gnb == sub.gnbs[1]
           ue  == <<"ue", gnb[2]>>
           nets == {"air", "n2", "n3"}
           more == {"mgmt", "air"}
           e == E(sub, gnb, ue, i)
<1>2. Build(x, e)
  BY <1>1
<1>3. /\ e.tell = Of(gnb, {ue}, "air") \cup Of(ue, {gnb}, "air") \cup {<<gnb, FirstOf("amf"), "n2">>}
      /\ Common(e) /\ e.qos = {} /\ e.metrics = {} /\ e.defer = <<>>
      /\ e.list = {} /\ e.awaits = {ue, gnb} /\ e.simulate = Uses(sub, SingleDN(sub, i))
      /\ e.ok = Paired(SubSeq(S, 1, i))
  BY DEF Ue, Nothing, Common, WithFirstAmf
<1>4. e.define = <<<<ue, more>>>> \o <<<<gnb, nets>>>>
  BY DEF Ue, Nothing
<1>5. x[1] \in RanBuild /\ "air" \in nets /\ "n2" \in nets /\ "air" \in more
  BY RanNames
<1>6. Requests => e.simulate \subseteq Everybody
  BY <1>2, <1>3, ListedFacts
<1>7. nameToNf(ue) = "ue"
  BY RanNames
<1>8. SUFFICES ASSUME Succeeds(e) PROVE Legitimate
  BY <1>2 DEF Legitimate
<1>9. args \in Inputs
  BY <1>2, StepFacts
<1>10. nameToNf(gnb) = "gnb"
  <2>1. IsList(S) /\ i \in Nat /\ i > 0
    BY <1>9, SubscribersFacts
  <2>2. S \in Seq(SeqToSet(S)) /\ i \in 1 .. Len(S)
    BY <2>1, ListFacts DEF IsList
  <2> HIDE DEF S
  <2>3. i \in DOMAIN SubSeq(S, 1, i) /\ SubSeq(S, 1, i)[i] = S[i]
    BY <2>1, <2>2
  <2>4. Paired(SubSeq(S, 1, i))
    BY <1>3, <1>8 DEF Succeeds
  <2>5. gnb \in SeqToSet(net.gnbs)
    BY <2>3, <2>4 DEF Paired
  <2> QED
    BY <1>9, <2>5, NetFacts
<1> HIDE DEF x, e, nets, more, sub, gnb, ue
<1>11. /\ Defines(x, e)
       /\ On(ue, more) \subseteq Connected(e) /\ On(gnb, nets) \subseteq Connected(e)
  <2>1. KindsOf(x[1]) = {"gnb", "ue"} /\ gnb # ue
    BY <1>5, <1>7, <1>10, Kinds
  <2> DEFINE v == <<ue, more>>
             w == <<gnb, nets>>
  <2>2. <<v>> \o <<w>> = <<v, w>>
    <3>1. v \in {v, w} /\ w \in {v, w}
      OBVIOUS
    <3> HIDE DEF v, w
    <3> QED
      BY <3>1, PairList
  <2>3. e.define = <<<<ue, more>>, <<gnb, nets>>>>
    BY <1>4, <2>2
  <2> QED
    BY <1>7, <1>10, <2>1, <2>3, DefinesTwo
<1>12. ASSUME NEW t \in e.tell PROVE t = <<t[1], t[2], t[3]>> /\ <<t[1], t[3]>> \in Connected(e)
  <2>1. t = <<gnb, ue, "air">> \/ t = <<ue, gnb, "air">> \/ t = <<gnb, FirstOf("amf"), "n2">>
    BY <1>3 DEF Of
  <2>2. <<gnb, "air">> \in Connected(e) /\ <<ue, "air">> \in Connected(e) /\ <<gnb, "n2">> \in Connected(e)
    BY <1>5, <1>11 DEF On
  <2> QED
    BY <2>1, <2>2
<1>13. /\ e.qos \cup e.metrics \subseteq SeqToSet(Names(e)) /\ e.list = {}
       /\ \A d \in e.awaits : nameToNf(d) \in {"gnb", "ue"}
  BY <1>3, <1>7, <1>10
<1> QED
  BY <1>2, <1>3, <1>5, <1>6, <1>11, <1>12, <1>13, RanEffect

LEMMA OaiGNBStep == ASSUME GenInv, OaiGNB PROVE Legitimate
<1> DEFINE N == {"mgmt", "n2", "n3"} \cup (IF args.usrp THEN {} ELSE {"air"})
           E(gnb) == [Gnb(gnb, N) EXCEPT
                       !.list = WithAmfs(gnb),
                       !.wait = {<<gnb, "ping", amf, "n2">> : amf \in ByNf("amf")}]
<1>1. PICK gnb \in SeqToSet(net.gnbs) : Build(<<"oaiGNB", gnb>>, E(gnb))
  BY DEF OaiGNB
<1> DEFINE x == <<"oaiGNB", gnb>>
           nets == N
           e == E(gnb)
<1>2. Build(x, e)
  BY <1>1
<1>3. /\ e.define = <<<<gnb, nets>>>> /\ e.tell = {} /\ Usual(e) /\ e.qos = {} /\ e.metrics = {}
      /\ e.list = {<<gnb, "amf", "n2">>} /\ e.awaits = {gnb} /\ e.simulate = {}
  BY DEF Gnb, Nothing, Usual, WithAmfs
<1>4. x[1] \in RanBuild /\ "n2" \in nets
  BY RanNames
<1>5. nameToNf(gnb) = "gnb"
  BY <1>2, StepFacts, NetFacts
<1> HIDE DEF x, e, nets
<1>6. RanShape(e, gnb, nets)
  BY <1>3, <1>4 DEF RanShape, TellsOf
<1> QED
  BY <1>2, <1>3, <1>4, <1>5, <1>6, SimulatorEffect

LEMMA OaiUEStep == ASSUME GenInv, OaiUE PROVE Legitimate
<1> DEFINE S == Subscribers(TRUE)
           E(sub, ue, i) ==
             IF sub.gnbs = <<>> THEN [Nothing EXCEPT !.ok = FALSE]
             ELSE [Ue(ue, sub, SingleDN(sub, i)) EXCEPT
                 !.tell = Of(ue, {sub.gnbs[1]}, "air"),
                 !.wait = {<<ue, "ping", sub.gnbs[1], "air">>}]
<1>1. PICK i \in DOMAIN S : Build(<<"oaiUE", i>>, E(S[i], UeName(S[i]), i))
  BY DEF OaiUE
<1> DEFINE x == <<"oaiUE", i>>
           sub == S[i]
           c == UeName(sub)
           nets == {"mgmt", "air"}
           e == E(sub, c, i)
<1>2. Build(x, e)
  BY <1>1
<1>3. CASE sub.gnbs = <<>>
  <2>1. e.ok = FALSE
    BY <1>3 DEF Nothing
  <2> HIDE DEF x, e
  <2> QED
    BY <1>2, <2>1 DEF Succeeds, Legitimate
<1>4. CASE sub.gnbs # <<>>
  <2>1. /\ e.define = <<<<c, nets>>>> /\ e.tell = Of(c, {sub.gnbs[1]}, "air") /\ Usual(e) /\ e.qos = {}
        /\ e.metrics = {} /\ e.list = {} /\ e.awaits = {c} /\ e.simulate = Uses(sub, SingleDN(sub, i))
    BY <1>4 DEF Ue, Nothing, Usual
  <2>2. x[1] \in RanBuild /\ nameToNf(c) = "ue" /\ "air" \in nets
    BY RanNames
  <2>3. Requests => e.simulate \subseteq Everybody
    BY <1>2, <2>1, ListedFacts
  <2> HIDE DEF x, e, c, nets, sub
  <2>4. RanShape(e, c, nets)
    BY <2>1, <2>2 DEF RanShape, TellsOf, Of
  <2> QED
    BY <1>2, <2>2, <2>3, <2>4, SimulatorEffect
<1> QED
  BY <1>3, <1>4

LEMMA PhGNBStep == ASSUME GenInv, PhGNB PROVE Legitimate
<1> DEFINE E(gnb) == [PhService(gnb, {"air", "n2", "n3"}) EXCEPT
         !.ok = Cardinality(GnbSlices(gnb)) <= 2,
         !.lists = TRUE,
         !.list = {<<gnb, "amf", "n2">>},
         !.qos = {gnb}]
<1>1. PICK gnb \in SeqToSet(net.gnbs) : Build(<<"phGNB", gnb>>, E(gnb))
  BY DEF PhGNB
<1> DEFINE x == <<"phGNB", gnb>>
           nets == {"mgmt"} \cup {"air", "n2", "n3"}
           f == PhService(gnb, {"air", "n2", "n3"})
           e == E(gnb)
<1>2. Build(x, e)
  BY <1>1
<1>3. PhShape(f, gnb, nets)
  BY PhFacts
<1>4. /\ e.define = f.define /\ e.tell = f.tell /\ e.qos = {gnb} /\ e.metrics = f.metrics
      /\ e.list = {<<gnb, "amf", "n2">>}
      /\ e.awaits = f.awaits /\ e.simulate = f.simulate /\ Usual(e)
  BY DEF PhService, Nothing, Usual
<1>5. x[1] \in RanBuild /\ "n2" \in nets
  BY RanNames
<1>6. nameToNf(gnb) = "gnb"
  BY <1>2, StepFacts, NetFacts
<1> HIDE DEF x, e, nets, f
<1>7. RanShape(e, gnb, nets) /\ e.simulate = {}
  BY <1>3, <1>4, <1>5 DEF RanShape, PhShape, TellsOf
<1> QED
  BY <1>2, <1>5, <1>6, <1>7, SimulatorEffect

LEMMA PhUEStep == ASSUME GenInv, PhUE PROVE Legitimate
<1> DEFINE S == Subscribers(TRUE)
           E(sub, ue, dns) ==
         [PhService(ue, {"air"}) EXCEPT
            !.ok = /\ \A dn \in dns : HasDN(net, dn) /\ FindDN(net, dn).type # "IPv6"
                   /\ SeqToSet(sub.gnbs) \subseteq SeqToSet(net.gnbs),
            !.tell = @ \cup Of(ue, SeqToSet(sub.gnbs), "air"),
            !.lists = TRUE,
            !.simulate = Uses(sub, dns)]
<1>1. PICK i \in DOMAIN S : Build(<<"phUE", i>>, E(S[i], UeName(S[i]), SeqToSet(RequestedDN(S[i]))))
  BY DEF PhUE
<1> DEFINE x == <<"phUE", i>>
           sub == S[i]
           c == UeName(sub)
           nets == {"mgmt"} \cup {"air"}
           f == PhService(c, {"air"})
           e == E(sub, c, SeqToSet(RequestedDN(sub)))
<1>2. Build(x, e)
  BY <1>1
<1>3. PhShape(f, c, nets)
  BY PhFacts
<1>4. /\ e.define = f.define /\ e.tell = f.tell \cup Of(c, SeqToSet(sub.gnbs), "air")
      /\ e.qos = f.qos /\ e.metrics = f.metrics /\ e.list = f.list /\ e.awaits = f.awaits /\ Usual(e)
      /\ e.simulate = Uses(sub, SeqToSet(RequestedDN(sub)))
  BY DEF PhService, Nothing, Usual
<1>5. x[1] \in RanBuild /\ nameToNf(c) = "ue" /\ "air" \in nets
  BY RanNames
<1>6. Requests => e.simulate \subseteq Everybody
  BY <1>2, <1>4, ListedFacts
<1> HIDE DEF x, e, c, nets, sub, f
<1>7. RanShape(e, c, nets)
  BY <1>3, <1>4, <1>5 DEF RanShape, PhShape, TellsOf, Of
<1> QED
  BY <1>2, <1>5, <1>6, <1>7, SimulatorEffect

LEMMA RanFacts ==
  ASSUME GenInv, RAN \/ PhGNB \/ PhUE
  PROVE  Legitimate
BY UeransimGNBStep, UeransimUEStep, PrushOptionsStep, PrushStep, SrsZmqStep, SrsSdrStep, GnbsimRANStep,
   OaiGNBStep, OaiUEStep, PhGNBStep, PhUEStep DEF RAN
-----------------------------------------------------------------------------
(* The stages of main.ts.                                                      *)

LEMMA StageEffect ==
  ASSUME NEW x, NEW e, Build(x, e),
         Succeeds(e) => /\ Defines(x, e) /\ Tells(e) /\ Asks(e) /\ MakesPorts(x, e) /\ Defers(e)
                        /\ Achieves(x, e),
         e.qos = {}, e.metrics = {}, e.look = {}, e.awaits = {}, e.simulate = {},
         e.place = FALSE, x[1] # "place", e.lists = FALSE
  PROVE  Legitimate
<1> SUFFICES ASSUME Succeeds(e) PROVE Effect(x, e)
  BY DEF Legitimate
<1>1. Marks(x, e) /\ Simulates(e)
  BY DEF Marks, Simulates
<1>2. Looks(e) = {}
  BY DEF Looks
<1>3. LooksAt(x, e)
  BY <1>2 DEF LooksAt
<1> QED
  BY <1>1, <1>3 DEF Effect

LEMMA NothingElse ==
  ASSUME NEW e, e.list = {}, e.scan = {}, e.ports = {}, e.defer = <<>>, NEW x
  PROVE  Asks(e) /\ MakesPorts(x, e) /\ Defers(e)
<1>1. IsList(e.defer) /\ SeqToSet(e.defer) = {}
  BY DeferNone
<1> QED
  BY <1>1 DEF Asks, Listings, MakesPorts, Defers

LEMMA DnFacts ==
  ASSUME args \in Inputs, DistinctDNNs,
         NEW dns, dns = Kept(net.dns, {d \in SeqToSet(net.dns) : d.type = "IPv4"})
  PROVE  /\ IsList(dns)
         /\ \A i, j \in DOMAIN dns : DnCt(dns[i].id) = DnCt(dns[j].id) => i = j
         /\ \A dn \in IPv4DNs : \E i \in DOMAIN dns : dn = dns[i].id
<1>1. IsList(net.dns)
  BY NetFacts
<1>2. IsInjective(net.dns)
  BY DEF IsInjective, DistinctDNNs
<1>3. /\ IsList(dns) /\ IsInjective(dns)
      /\ SeqToSet(dns) = {d \in SeqToSet(net.dns) : d.type = "IPv4"}
  BY <1>1, <1>2, KeptList
<1>4. ASSUME NEW i \in DOMAIN dns, NEW j \in DOMAIN dns, DnCt(dns[i].id) = DnCt(dns[j].id) PROVE i = j
  <2>1. dns[i].id[3] = dns[j].id[3]
    BY <1>4 DEF DnCt
  <2>2. dns[i] \in SeqToSet(net.dns) /\ dns[j] \in SeqToSet(net.dns)
    BY <1>3 DEF SeqToSet
  <2>3. dns[i] = dns[j]
    BY <2>1, <2>2 DEF SeqToSet, DistinctDNNs
  <2> QED
    BY <1>3, <2>3 DEF IsInjective
<1>5. ASSUME NEW dn \in IPv4DNs PROVE \E i \in DOMAIN dns : dn = dns[i].id
  <2>1. PICK d \in SeqToSet(dns) : dn = d.id
    BY <1>3 DEF IPv4DNs
  <2> QED
    BY <2>1 DEF SeqToSet
<1> QED
  BY <1>3, <1>4, <1>5

LEMMA DefineDNServicesStep == ASSUME GenInv, DefineDNServices PROVE Legitimate
<1> DEFINE x == <<"dn">>
           dns == Kept(net.dns, {d \in SeqToSet(net.dns) : d.type = "IPv4"})
           nets == {"mgmt", "n6"}
           f == [i \in DOMAIN dns |-> <<DnCt(dns[i].id), nets>>]
           e == [Nothing EXCEPT !.ok = DistinctDNNs, !.define = f]
<1>1. Build(x, e)
  BY DEF DefineDNServices
<1>2. /\ e.define = f /\ e.ok = DistinctDNNs /\ e.list = {} /\ e.scan = {} /\ e.ports = {} /\ e.defer = <<>>
      /\ e.qos = {} /\ e.metrics = {} /\ e.look = {} /\ e.awaits = {} /\ e.simulate = {} /\ e.tell = {}
      /\ e.place = FALSE /\ e.lists = FALSE
  BY DEF Nothing
<1>3. x[1] = "dn"
  OBVIOUS
<1>4. args \in Inputs
  BY <1>1, StepFacts
<1>5. /\ DOMAIN f = DOMAIN dns /\ f = [i \in DOMAIN dns |-> f[i]]
      /\ \A i \in DOMAIN dns : f[i][1] = DnCt(dns[i].id) /\ f[i][2] = nets /\ f[i] \in SeqToSet(f)
  BY DEF SeqToSet
<1> HIDE DEF x, e, f, dns
<1>6. ASSUME DistinctDNNs
      PROVE  /\ Defines(x, e)
             /\ \A i \in DOMAIN dns : On(DnCt(dns[i].id), nets) \subseteq Connected(e)
             /\ \A dn \in IPv4DNs : \E i \in DOMAIN dns : dn = dns[i].id
  <2>1. /\ IsList(dns)
        /\ \A i, j \in DOMAIN dns : DnCt(dns[i].id) = DnCt(dns[j].id) => i = j
        /\ \A dn \in IPv4DNs : \E i \in DOMAIN dns : dn = dns[i].id
    BY <1>4, <1>6, DnFacts DEF dns
  <2>2. IsList(f)
    BY <1>5, <2>1, MapList
  <2>3. \A i \in DOMAIN f : nameToNf(f[i][1]) \in KindsOf(x[1])
    BY <1>3, <1>5, Kinds DEF nameToNf, DnCt
  <2>4. \A i, j \in DOMAIN f : f[i][1] = f[j][1] => i = j
    BY <1>5, <2>1
  <2>5. /\ Defines(x, e)
        /\ \A i \in DOMAIN f : On(f[i][1], f[i][2]) \subseteq Connected(e)
    BY <1>2, <2>2, <2>3, <2>4, DefinesFacts
  <2> QED
    BY <1>5, <2>1, <2>5
<1>7. DistinctDNNs => Achieves(x, e)
  <2> SUFFICES ASSUME DistinctDNNs PROVE \A dn \in IPv4DNs : <<DnCt(dn), "n6">> \in Connected(e)
    <3>1. "dn" \notin {"prushOptions", "saveQoS", "buildPrometheus"} \cup Storing /\ x # <<"oaiNF", "smf">>
      BY <1>3 DEF Storing
    <3> QED
      BY <1>3, <3>1 DEF Achieves
  <2> QED
    BY <1>6 DEF On
<1>8. Succeeds(e) => DistinctDNNs
  BY <1>2 DEF Succeeds
<1>9. Tells(e) /\ Asks(e) /\ MakesPorts(x, e) /\ Defers(e)
  BY <1>2, NothingElse DEF Tells
<1> QED
  BY <1>1, <1>2, <1>3, <1>6, <1>7, <1>8, <1>9, StageEffect

LEMMA SetDNCommandsStep == ASSUME GenInv, SetDNCommands PROVE Legitimate
<1> DEFINE x == <<"setDN">>
           e == [Nothing EXCEPT !.tell = UNION {Of(DnCt(dn), Peers(net, dn), "n6") : dn \in IPv4DNs},
                    !.awaits = {DnCt(dn) : dn \in IPv4DNs}]
<1>1. Build(x, e)
  BY DEF SetDNCommands
<1>2. /\ e.define = <<>> /\ e.list = {} /\ e.scan = {} /\ e.look = {} /\ e.defer = <<>> /\ e.ports = {}
      /\ e.qos = {} /\ e.metrics = {} /\ e.simulate = {} /\ e.lists \in BOOLEAN /\ e.place = FALSE
      /\ e.tell = UNION {Of(DnCt(dn), Peers(net, dn), "n6") : dn \in IPv4DNs}
      /\ e.awaits = {DnCt(dn) : dn \in IPv4DNs}
  BY DEF Nothing
<1>3. /\ x[1] \notin {"dn", "oaiNF", "saveQoS", "buildPrometheus", "place", "prushOptions", "phBuilder"} \cup Storing
      /\ x[1] = "setDN"
  BY DEF Storing
<1> HIDE DEF x, e
<1>4. \A dn \in IPv4DNs : <<DnCt(dn), "n6">> \in ip
  <2>1. Planned /\ Arranged /\ todo # <<>> /\ Head(todo) = x /\ failed = <<>>
    BY <1>1, StepFacts DEF GenInv
  <2>2. Rank(x[1]) = 3
    BY <1>3, Ranks
  <2>3. ~ Pending({"dn"})
    BY <1>3, <2>1, <2>2, Past
  <2> QED
    BY <2>1, <2>3 DEF Arranged
<1>5. Tells(e)
  <2> SUFFICES ASSUME NEW dn \in IPv4DNs, NEW t \in Of(DnCt(dn), Peers(net, dn), "n6")
               PROVE  t = <<t[1], t[2], t[3]>> /\ <<t[1], t[3]>> \in ip
    <3>1. \A t \in e.tell : \E dn \in IPv4DNs : t \in Of(DnCt(dn), Peers(net, dn), "n6")
      BY <1>2
    <3> QED
      BY <3>1 DEF Tells
  <2>1. PICK p : t = <<DnCt(dn), p, "n6">>
    BY DEF Of
  <2> QED
    BY <1>4, <2>1
<1>6. LatePorts => \A c \in e.awaits : ~ Takeable(c)
  <2>1. args \in Inputs
    BY <1>1, StepFacts
  <2>2. \A c \in e.awaits : nameToNf(c) # "upf"
    BY <1>2 DEF DnCt, nameToNf
  <2> QED
    BY <2>1, <2>2, NotTaken
<1> QED
  BY <1>1, <1>2, <1>3, <1>5, <1>6, BareEffect

LEMMA SaveQoSStep == ASSUME GenInv, SaveQoS PROVE Legitimate
<1> DEFINE x == <<"saveQoS">>
           R(ct) == {r \in RulesOf(ct) : r.dst # "*"}
           e == [Nothing EXCEPT
                  !.ok = \A ct \in qos : \A rule \in RulesOf(ct) :
                           /\ <<ct, rule.net>> \in ip
                           /\ rule.dst = "*" => rule.net \in Defined(networks),
                  !.scan = UNION {{<<ct, rule.dst, rule.net>> : rule \in R(ct)} : ct \in qos}]
<1>1. Build(x, e)
  BY DEF SaveQoS
<1>2. /\ e.define = <<>> /\ e.list = {} /\ e.ports = {} /\ e.defer = <<>>
      /\ e.qos = {} /\ e.metrics = {} /\ e.look = {} /\ e.awaits = {} /\ e.simulate = {} /\ e.tell = {}
      /\ e.place = FALSE /\ e.lists = FALSE
      /\ e.scan = UNION {{<<ct, rule.dst, rule.net>> : rule \in R(ct)} : ct \in qos}
      /\ e.ok = \A ct \in qos : \A rule \in RulesOf(ct) :
                  /\ <<ct, rule.net>> \in ip
                  /\ rule.dst = "*" => rule.net \in Defined(networks)
  BY DEF Nothing
<1>3. x[1] = "saveQoS"
  OBVIOUS
<1> HIDE DEF x, e
<1>4. /\ args \in Inputs /\ Planned /\ todo # <<>> /\ Head(todo) = x /\ \A y \in Ahead : Legal(y)
  BY <1>1, StepFacts, NextStep DEF GenInv
<1>5. \A y \in Ahead : KindsOf(y[1]) \subseteq {"processexporter", "prometheus", "grafana"}
  <2>1. x[1] # "phBuilder" /\ Rank(x[1]) = 8
    BY <1>3, Ranks
  <2>2. ~ Pending(Builders) /\ ~ Pending({"dn"})
    BY <1>4, <2>1, Past
  <2>3. \A y \in Ahead : y[1] \in Quiet \cup {"setDN", "prushOptions", "saveQoS", "buildPrometheus"}
    BY <1>4, <2>2, RankOfLegal DEF Pending, Stages
  <2> QED
    BY <2>3, Kinds
<1>6. ASSUME Succeeds(e) PROVE Asks(e)
  <2> SUFFICES ASSUME NEW q \in Listings(e)
               PROVE  /\ <<q[1], q[3]>> \in ip
                      /\ QosAmongFunctions => \A y \in Ahead : q[2] \notin KindsOf(y[1])
    BY DEF Asks
  <2>1. PICK ct \in qos : q \in {<<ct, rule.dst, rule.net>> : rule \in R(ct)}
    BY <1>2 DEF Listings
  <2>2. PICK rule \in RulesOf(ct) : q = <<ct, rule.dst, rule.net>>
    BY <2>1
  <2>3. <<ct, rule.net>> \in ip
    BY <1>2, <1>6 DEF Succeeds
  <2>4. QosAmongFunctions => rule.dst \notin {"processexporter", "prometheus", "grafana"}
    BY <1>4 DEF RulesOf, QosAmongFunctions
  <2> QED
    BY <1>5, <2>2, <2>3, <2>4
<1>7. Achieves(x, e)
  <2>1. x[1] \notin {"dn", "prushOptions", "buildPrometheus"} \cup Storing /\ x # <<"oaiNF", "smf">>
    BY <1>3 DEF Storing
  <2>2. ASSUME NEW ct \in qos, NEW rule \in RulesOf(ct), rule.dst # "*"
        PROVE  <<ct, rule.dst, rule.net>> \in Listings(e)
    <3>1. rule \in R(ct)
      BY <2>2
    <3> QED
      BY <1>2, <3>1 DEF Listings
  <2> QED
    BY <2>1, <2>2 DEF Achieves
<1>8. Defines(x, e) /\ Tells(e) /\ MakesPorts(x, e) /\ Defers(e)
  <2>1. Defers(e)
    BY <1>2, DeferNone DEF Defers
  <2> QED
    BY <1>2, <2>1, DefinesNone DEF Tells, MakesPorts
<1> QED
  BY <1>1, <1>2, <1>3, <1>6, <1>7, <1>8, StageEffect

LEMMA BuildPrometheusStep == ASSUME GenInv, BuildPrometheus PROVE Legitimate
<1> DEFINE x == <<"buildPrometheus">>
           nets == {"meas"} \cup (IF metrics = {} THEN {} ELSE {"mgmt"})
           d == <<<<Exporter, {"meas"}>>, <<Prometheus, nets>>, <<Grafana, {"meas"}>>>>
           e == [Nothing EXCEPT
                  !.options = {<<"meas", "NAT">>},
                  !.define = d,
                  !.tell = Of(Prometheus, metrics, "mgmt") \cup Of(Grafana, {Prometheus}, "meas"),
                  !.defer = <<<<"promFinish">>>>]
<1>1. Build(x, e)
  BY DEF BuildPrometheus
<1>2. /\ e.define = d /\ e.list = {} /\ e.scan = {} /\ e.ports = {} /\ e.defer = <<<<"promFinish">>>>
      /\ e.qos = {} /\ e.metrics = {} /\ e.look = {} /\ e.awaits = {} /\ e.simulate = {}
      /\ e.place = FALSE /\ e.lists = FALSE
      /\ e.tell = Of(Prometheus, metrics, "mgmt") \cup Of(Grafana, {Prometheus}, "meas")
  BY DEF Nothing
<1>3. x[1] = "buildPrometheus"
  OBVIOUS
<1>4. /\ d \in Seq({<<Exporter, {"meas"}>>, <<Prometheus, nets>>, <<Grafana, {"meas"}>>})
      /\ DOMAIN d = {1, 2, 3}
      /\ d[1][1] = Exporter /\ d[1][2] = {"meas"} /\ d[2][1] = Prometheus /\ d[2][2] = nets
      /\ d[3][1] = Grafana /\ d[3][2] = {"meas"}
  OBVIOUS
<1>5. "meas" \in nets /\ (metrics # {} => "mgmt" \in nets)
  OBVIOUS
<1> HIDE DEF x, e, d, nets
<1>6. /\ Defines(x, e)
      /\ On(Prometheus, nets) \subseteq Connected(e) /\ On(Grafana, {"meas"}) \subseteq Connected(e)
  <2>1. IsList(d)
    BY <1>4, TypedList
  <2>2. /\ nameToNf(Exporter) = "processexporter" /\ nameToNf(Prometheus) = "prometheus"
        /\ nameToNf(Grafana) = "grafana"
    BY DEF Exporter, Prometheus, Grafana, Ct, nameToNf
  <2>3. KindsOf(x[1]) = {"processexporter", "prometheus", "grafana"}
    BY <1>3, Kinds
  <2>4. \A i, j \in DOMAIN d : d[i][1] = d[j][1] => i = j
    BY <1>4, <2>2
  <2>5. \A i \in DOMAIN d : nameToNf(d[i][1]) \in KindsOf(x[1])
    BY <1>4, <2>2, <2>3
  <2>6. /\ Defines(x, e)
        /\ \A i \in DOMAIN d : On(d[i][1], d[i][2]) \subseteq Connected(e)
    BY <1>2, <2>1, <2>4, <2>5, DefinesFacts
  <2>7. 2 \in DOMAIN d /\ 3 \in DOMAIN d
    BY <1>4
  <2> QED
    BY <1>4, <2>6, <2>7
<1>7. Tells(e)
  <2> SUFFICES ASSUME NEW t \in e.tell PROVE t = <<t[1], t[2], t[3]>> /\ <<t[1], t[3]>> \in Connected(e)
    BY DEF Tells
  <2>1. CASE t \in Of(Prometheus, metrics, "mgmt")
    <3>1. PICK m \in metrics : t = <<Prometheus, m, "mgmt">>
      BY <2>1 DEF Of
    <3> QED
      BY <1>5, <1>6, <3>1 DEF On
  <2>2. CASE t \in Of(Grafana, {Prometheus}, "meas")
    <3>1. t = <<Grafana, Prometheus, "meas">>
      BY <2>2 DEF Of
    <3> QED
      BY <1>6, <3>1 DEF On
  <2> QED
    BY <1>2, <2>1, <2>2
<1>8. Defers(e)
  <2> DEFINE y == <<"promFinish">>
  <2>1. y[1] = "promFinish" /\ y # <<>> /\ e.defer = <<y>>
    BY <1>2
  <2> HIDE DEF y
  <2>2. y[1] \in Deferred /\ Needed(y) = {<<Prometheus, "meas">>}
    BY <2>1 DEF Deferred, Needed
  <2>3. Needed(y) \subseteq Connected(e)
    BY <1>5, <1>6, <2>2 DEF On
  <2>4. /\ IsList(e.defer)
        /\ \A c \in SeqToSet(e.defer) : c # <<>> /\ c[1] \in Deferred /\ Needed(c) \subseteq Connected(e)
    BY <2>1, <2>2, <2>3, DeferFacts
  <2> QED
    BY <2>4 DEF Defers
<1>9. Achieves(x, e)
  <2>1. x[1] \notin {"dn", "prushOptions", "saveQoS"} \cup Storing /\ x # <<"oaiNF", "smf">>
    BY <1>3 DEF Storing
  <2> QED
    BY <1>2, <2>1 DEF Achieves
<1>10. Asks(e) /\ MakesPorts(x, e)
  BY <1>2 DEF Asks, Listings, MakesPorts
<1> QED
  BY <1>1, <1>2, <1>3, <1>6, <1>7, <1>8, <1>9, <1>10, StageEffect

LEMMA DefineBridgeStep == ASSUME GenInv, DefineBridge PROVE Legitimate
<1> DEFINE M(flag) == {ct \in ByNf(flag.nf) : <<ct, flag.net>> \in netifs}
           E(flag) == [Nothing EXCEPT
            !.ok = /\ flag.net \in Defined(networks)
                   /\ flag.op = "~" => Cardinality(M(flag)) = 1,
            !.define = <<<<Bridge, {}>>>>,
            !.ports = {<<flag.op, <<ct, flag.net>>>> : ct \in M(flag)}]
<1>1. PICK i \in DOMAIN args.bridge : Build(<<"defineBridge", i>>, E(args.bridge[i]))
  BY DEF DefineBridge
<1> DEFINE flag == args.bridge[i]
           x == <<"defineBridge", i>>
           e == E(flag)
<1>2. /\ e.define = <<<<Bridge, {}>>>> /\ e.list = {} /\ e.scan = {} /\ e.defer = <<>>
      /\ e.qos = {} /\ e.metrics = {} /\ e.look = {} /\ e.awaits = {} /\ e.simulate = {} /\ e.tell = {}
      /\ e.place = FALSE /\ e.lists = FALSE
      /\ e.ports = {<<flag.op, <<ct, flag.net>>>> : ct \in M(flag)}
  BY DEF Nothing
<1>3. x[1] = "defineBridge" /\ Build(x, e)
  BY <1>1
<1> HIDE DEF x, e
<1>4. Defines(x, e)
  BY <1>2, DefinesOne
<1>5. MakesPorts(x, e)
  <2> SUFFICES ASSUME NEW p \in e.ports PROVE p[2] \in netifs /\ (p[1] = "~" => Takeable(p[2][1]))
    BY <1>3 DEF MakesPorts
  <2>1. PICK ct \in M(flag) : p = <<flag.op, <<ct, flag.net>>>>
    BY <1>2
  <2>2. p[1] = flag.op /\ p[2] = <<ct, flag.net>> /\ p[2][1] = ct
    BY <2>1
  <2>3. flag.nf = nameToNf(ct) /\ <<ct, flag.net>> \in netifs
    BY <2>1 DEF ByNf
  <2> QED
    BY <2>2, <2>3 DEF Takeable
<1>6. Achieves(x, e)
  <2>1. x[1] \notin {"dn", "prushOptions", "saveQoS", "buildPrometheus"} \cup Storing /\ x # <<"oaiNF", "smf">>
    BY <1>3 DEF Storing
  <2> QED
    BY <2>1 DEF Achieves
<1>7. Tells(e) /\ Asks(e) /\ Defers(e)
  BY <1>2, DeferNone DEF Tells, Asks, Listings, Defers
<1> QED
  BY <1>2, <1>3, <1>4, <1>5, <1>6, <1>7, StageEffect

LEMMA MakeCpufreqServiceStep == ASSUME GenInv, MakeCpufreqService PROVE Legitimate
<1> DEFINE x == <<"cpufreq">>
           e == [Nothing EXCEPT !.define = <<<<Ct("cpufreq"), {}>>>>]
<1>1. Build(x, e)
  BY DEF MakeCpufreqService
<1>2. /\ e.define = <<<<Ct("cpufreq"), {}>>>> /\ e.list = {} /\ e.scan = {} /\ e.defer = <<>> /\ e.ports = {}
      /\ e.qos = {} /\ e.metrics = {} /\ e.look = {} /\ e.awaits = {} /\ e.simulate = {} /\ e.tell = {}
      /\ e.place = FALSE /\ e.lists = FALSE
  BY DEF Nothing
<1>3. x[1] = "cpufreq"
  OBVIOUS
<1> HIDE DEF x, e
<1>4. Defines(x, e)
  BY <1>2, DefinesOne
<1>5. Achieves(x, e)
  <2>1. x[1] \notin {"dn", "prushOptions", "saveQoS", "buildPrometheus"} \cup Storing /\ x # <<"oaiNF", "smf">>
    BY <1>3 DEF Storing
  <2> QED
    BY <2>1 DEF Achieves
<1>6. Tells(e) /\ Asks(e) /\ MakesPorts(x, e) /\ Defers(e)
  BY <1>2, NothingElse DEF Tells
<1> QED
  BY <1>1, <1>2, <1>3, <1>4, <1>5, <1>6, StageEffect

LEMMA PlaceAllStep == ASSUME GenInv, PlaceAll PROVE Legitimate
<1> DEFINE x == <<"place">>
           e == [Nothing EXCEPT !.place = TRUE]
<1>1. Build(x, e)
  BY DEF PlaceAll
<1>2. /\ e.define = <<>> /\ e.list = {} /\ e.scan = {} /\ e.look = {} /\ e.defer = <<>> /\ e.ports = {}
      /\ e.qos = {} /\ e.metrics = {} /\ e.simulate = {} /\ e.lists \in BOOLEAN /\ e.place = TRUE
      /\ e.tell = {} /\ e.awaits = {}
  BY DEF Nothing
<1>3. /\ x[1] \notin {"dn", "oaiNF", "saveQoS", "buildPrometheus", "prushOptions"} \cup Storing
      /\ x[1] = "place"
  BY DEF Storing
<1> HIDE DEF x, e
<1>4. Tells(e)
  BY <1>2 DEF Tells
<1> QED
  BY <1>1, <1>2, <1>3, <1>4, BareEffect
-----------------------------------------------------------------------------
(* The steps at the start.                                                     *)

\* Steps in order, of these ranks.
Follows(q, lo, hi) ==
  /\ IsList(q)
  /\ \A y \in SeqToSet(q) : Legal(y) /\ y[1] \notin Deferred /\ (y[1] = "phBuilder" \/ Rank(y[1]) \in lo .. hi)
  /\ \A i, j \in DOMAIN q : i < j => May(q[i], q[j])

LEMMA LevelFollows ==
  ASSUME NEW r \in Int, NEW q, IsList(q),
         \A y \in SeqToSet(q) : Legal(y) /\ y[1] \notin Deferred /\ (y[1] = "phBuilder" \/ Rank(y[1]) = r)
  PROVE  Follows(q, r, r)
<1>1. \A i \in DOMAIN q : q[i][1] = "phBuilder" \/ Rank(q[i][1]) = r
  BY DEF SeqToSet
<1>2. \A i, j \in DOMAIN q : May(q[i], q[j])
  BY <1>1 DEF May
<1>3. r \in r .. r
  OBVIOUS
<1> QED
  BY <1>2, <1>3 DEF Follows

LEMMA JoinFollows ==
  ASSUME NEW a \in Int, NEW b \in Int, NEW c \in Int, NEW d \in Int, a <= b, b <= c, c <= d,
         NEW p, NEW q, Follows(p, a, b), Follows(q, c, d)
  PROVE  Follows(p \o q, a, d) /\ SeqToSet(p \o q) = SeqToSet(p) \cup SeqToSet(q)
<1> DEFINE r == p \o q
<1>1. IsJoin(r, p, q)
  BY JoinedLists DEF Follows
<1> HIDE DEF r
<1>2. ASSUME NEW y \in SeqToSet(r)
      PROVE  Legal(y) /\ y[1] \notin Deferred /\ (y[1] = "phBuilder" \/ Rank(y[1]) \in a .. d)
  <2>1. y \in SeqToSet(p) \/ y \in SeqToSet(q)
    BY <1>1 DEF IsJoin
  <2>2. \A k : (k \in a .. b => k \in a .. d) /\ (k \in c .. d => k \in a .. d)
    OBVIOUS
  <2> QED
    BY <2>1, <2>2 DEF Follows
<1>3. ASSUME NEW y \in SeqToSet(p), NEW z \in SeqToSet(q) PROVE May(y, z)
  <2>1. /\ y[1] = "phBuilder" \/ Rank(y[1]) \in a .. b
        /\ z[1] = "phBuilder" \/ Rank(z[1]) \in c .. d
    BY DEF Follows
  <2>2. \A k \in a .. b : \A l \in c .. d : k <= l
    OBVIOUS
  <2> QED
    BY <2>1, <2>2 DEF May
<1>4. ASSUME NEW i \in DOMAIN r, NEW j \in DOMAIN r, i < j PROVE May(r[i], r[j])
  BY <1>1, <1>3, <1>4 DEF IsJoin, Follows
<1> QED
  BY <1>1, <1>2, <1>4 DEF IsJoin, Follows, r

LEMMA EmptyFollows ==
  ASSUME NEW a, NEW b
  PROVE  Follows(<<>>, a, b) /\ SeqToSet(<<>>) = {} /\ IsList(<<>>)
BY DEF Follows, IsList, SeqToSet

LEMMA PlainLegal ==
  ASSUME NEW y, y # <<>>,
         \/ y[1] \in CpFirst \cup CpConfig \cup (RanBuild \ {"prush"}) \cup UpLate \cup Stages
         \/ y[1] \in Quiet \ Deferred
  PROVE  Legal(y) /\ y[1] \notin Deferred
<1>1. y[1] \notin UpEarly /\ y[1] # "prush"
  BY DEF UpEarly, UpLate, CpFirst, CpConfig, RanBuild, Stages, Quiet
<1>2. y[1] \notin Deferred
  BY Apart DEF Builders
<1> QED
  BY <1>1, <1>2 DEF Legal, Builders, Stages

\* One step.
LEMMA OneFollows ==
  ASSUME NEW y, Legal(y), y[1] \notin Deferred, NEW r \in Int, Rank(y[1]) = r
  PROVE  Follows(<<y>>, r, r) /\ SeqToSet(<<y>>) = {y}
<1> DEFINE q == <<y>>
<1>1. q \in Seq({y}) /\ DOMAIN q = {1} /\ q[1] = y
  OBVIOUS
<1> HIDE DEF q
<1>2. IsList(q) /\ SeqToSet(q) \subseteq {y}
  BY <1>1, TypedList
<1>3. SeqToSet(q) = {y}
  BY <1>1, <1>2 DEF SeqToSet
<1>4. Follows(q, r, r)
  BY <1>2, LevelFollows
<1> QED
  BY <1>3, <1>4 DEF q

\* A step for each of a list.
LEMMA EachFollows ==
  ASSUME NEW s, NEW q, IsList(q), NEW f, f = [i \in DOMAIN q |-> f[i]],
         \A i \in DOMAIN q : f[i] # <<>> /\ f[i][1] = s,
         s \in CpFirst \cup CpConfig \cup (RanBuild \ {"prush"}) \/ s = "defineBridge",
         NEW r \in Int, Rank(s) = r
  PROVE  Follows(f, r, r) /\ DOMAIN f = DOMAIN q /\ \A y \in SeqToSet(f) : y[1] = s
<1>1. \A i \in DOMAIN q : f[i] \in SeqToSet(f)
  BY DEF SeqToSet
<1>2. IsList(f) /\ DOMAIN f = DOMAIN q
  BY <1>1, MapList
<1>3. \A y \in SeqToSet(f) : y # <<>> /\ y[1] = s
  BY <1>2 DEF SeqToSet
<1>4. s \in CpFirst \cup CpConfig \cup (RanBuild \ {"prush"}) \cup (Quiet \ Deferred)
  BY Apart DEF Quiet
<1>5. \A y \in SeqToSet(f) : Legal(y) /\ y[1] \notin Deferred /\ Rank(y[1]) = r
  BY <1>3, <1>4, PlainLegal
<1> QED
  BY <1>2, <1>3, <1>5, LevelFollows
\* Steps that are written out.
LEMMA LiteralFollows ==
  ASSUME NEW T, NEW q \in Seq(T), NEW r \in Int,
         \A y \in T : /\ y # <<>>
                      /\ y[1] \in CpFirst \cup CpConfig \cup {"phBuilder"}
                      /\ y[1] = "phBuilder" \/ Rank(y[1]) = r
  PROVE  Follows(q, r, r) /\ SeqToSet(q) \subseteq T
<1>1. IsList(q) /\ SeqToSet(q) \subseteq T
  BY TypedList
<1>2. "phBuilder" \in Quiet \ Deferred
  BY Apart
<1>3. \A y \in T : Legal(y) /\ y[1] \notin Deferred
  BY <1>2, PlainLegal
<1> QED
  BY <1>1, <1>3, LevelFollows

\* What the steps of a control plane contain.
CpShape(q) ==
  /\ Follows(q, 4, 5)
  /\ \E y \in SeqToSet(q) : y[1] \in Storing
  /\ (\E y \in SeqToSet(q) : y[1] = "oaiConfigSMF") => <<"oaiNF", "smf">> \in SeqToSet(q)

\* Each AMF and each SMF has its step, after the others.
LEMMA NamedFollows ==
  ASSUME args \in Inputs, NEW amf \in CpFirst, NEW smf \in CpFirst, NEW q, Follows(q, 4, 4)
  PROVE  /\ Follows(q \o Each(amf, Amfs(net)) \o Each(smf, Smfs(net)), 4, 4)
         /\ SeqToSet(q) \subseteq SeqToSet(q \o Each(amf, Amfs(net)) \o Each(smf, Smfs(net)))
         /\ \A y \in SeqToSet(q \o Each(amf, Amfs(net)) \o Each(smf, Smfs(net))) :
              y \in SeqToSet(q) \/ y[1] \in {amf, smf}
<1> DEFINE a == Each(amf, Amfs(net))
           s == Each(smf, Smfs(net))
<1>1. IsList(Amfs(net)) /\ IsList(Smfs(net)) /\ Rank(amf) = 4 /\ Rank(smf) = 4
  BY NetFacts, Ranks
<1>2. Follows(a, 4, 4) /\ \A y \in SeqToSet(a) : y[1] = amf
  <2>1. a = [i \in DOMAIN Amfs(net) |-> a[i]] /\ \A i \in DOMAIN Amfs(net) : a[i] # <<>> /\ a[i][1] = amf
    BY DEF Each
  <2> HIDE DEF a
  <2> QED
    BY <1>1, <2>1, EachFollows
<1>3. Follows(s, 4, 4) /\ \A y \in SeqToSet(s) : y[1] = smf
  <2>1. s = [i \in DOMAIN Smfs(net) |-> s[i]] /\ \A i \in DOMAIN Smfs(net) : s[i] # <<>> /\ s[i][1] = smf
    BY DEF Each
  <2> HIDE DEF s
  <2> QED
    BY <1>1, <2>1, EachFollows
<1> HIDE DEF a, s
<1>4. Follows(q \o a, 4, 4) /\ SeqToSet(q \o a) = SeqToSet(q) \cup SeqToSet(a)
  BY <1>2, JoinFollows
<1> DEFINE p == q \o a
<1>5. Follows(p, 4, 4)
  BY <1>4
<1> HIDE DEF p
<1>6. Follows(p \o s, 4, 4) /\ SeqToSet(p \o s) = SeqToSet(p) \cup SeqToSet(s)
  BY <1>3, <1>5, JoinFollows
<1>7. /\ Follows(p \o s, 4, 4) /\ SeqToSet(q) \subseteq SeqToSet(p \o s)
      /\ \A y \in SeqToSet(p \o s) : y \in SeqToSet(q) \/ y[1] \in {amf, smf}
  BY <1>2, <1>3, <1>4, <1>6 DEF p
<1> QED
  BY <1>7 DEF p, a, s

LEMMA WiderFollows ==
  ASSUME NEW q, Follows(q, 4, 4)
  PROVE  Follows(q, 4, 5)
BY DEF Follows

LEMMA CpStepNames ==
  /\ {"f5Mongo", "f5NRF", "f5WebUI", "f5WebClient", "f5UDR", "f5UDM", "f5AUSF", "f5NSSF", "f5PCF", "f5AMF",
      "f5SMF", "o5Mongo", "o5NRF", "o5OnlySbi", "o5PCF", "o5NSSF", "o5WebUI", "o5AMF", "o5SMF", "oaiSQL",
      "oaiNF", "phSQL", "phNRF", "phUDM", "phAUSF", "phNSSF", "phAMF", "phSMF", "phPCF"} \subseteq CpFirst
  /\ {"oaiConfigAMF", "oaiConfigSMF", "oaiPCF", "oaiNWDAF"} \subseteq CpConfig
  /\ \A s \in CpFirst : Rank(s) = 4 /\ s # "oaiConfigSMF"
  /\ \A s \in CpConfig : Rank(s) = 5
  /\ {"f5WebClient", "o5Mongo", "oaiSQL", "phUDM"} \subseteq Storing
<1>1. "oaiConfigSMF" \notin CpFirst
  BY DEF CpFirst
<1> QED
  BY <1>1, Ranks DEF CpFirst, CpConfig, Storing

LEMMA Free5gcStepsFacts == ASSUME args \in Inputs PROVE CpShape(Free5gcSteps)
<1> DEFINE T == {<<"f5Mongo">>, <<"f5NRF">>, <<"f5WebUI">>, <<"f5WebClient">>, <<"f5UDR">>, <<"f5UDM">>,
                 <<"f5AUSF">>, <<"f5NSSF">>, <<"f5PCF">>}
           q == <<<<"f5Mongo">>, <<"f5NRF">>, <<"f5WebUI">>, <<"f5WebClient">>, <<"f5UDR">>, <<"f5UDM">>,
                  <<"f5AUSF">>, <<"f5NSSF">>, <<"f5PCF">>>>
           c == q \o Each("f5AMF", Amfs(net)) \o Each("f5SMF", Smfs(net))
<1>1. q \in Seq(T) /\ 4 \in DOMAIN q /\ q[4] = <<"f5WebClient">>
  OBVIOUS
<1>2. \A y \in T : y # <<>> /\ y[1] \in CpFirst
  <2> DEFINE N == {"f5Mongo", "f5NRF", "f5WebUI", "f5WebClient", "f5UDR", "f5UDM", "f5AUSF", "f5NSSF", "f5PCF"}
  <2>1. \A y \in T : y # <<>> /\ y[1] \in N
    OBVIOUS
  <2>2. N \subseteq CpFirst
    BY CpStepNames
  <2> HIDE DEF N, T
  <2> QED
    BY <2>1, <2>2
<1>3. c = Free5gcSteps
  BY DEF Free5gcSteps
<1> HIDE DEF T, q
<1>4. Follows(q, 4, 4) /\ SeqToSet(q) \subseteq T
  BY <1>1, <1>2, CpStepNames, LiteralFollows
<1>5. <<"f5WebClient">> \in SeqToSet(q)
  BY <1>1 DEF SeqToSet
<1>6. /\ Follows(c, 4, 4) /\ SeqToSet(q) \subseteq SeqToSet(c)
      /\ \A y \in SeqToSet(c) : y \in SeqToSet(q) \/ y[1] \in {"f5AMF", "f5SMF"}
  BY <1>4, CpStepNames, NamedFollows
<1> HIDE DEF c
<1>7. \A y \in SeqToSet(c) : y[1] # "oaiConfigSMF"
  BY <1>2, <1>4, <1>6, CpStepNames
<1>8. \E y \in SeqToSet(c) : y[1] \in Storing
  <2> DEFINE y == <<"f5WebClient">>
  <2>1. y \in SeqToSet(c) /\ y[1] \in Storing
    BY <1>5, <1>6, CpStepNames
  <2> QED
    BY <2>1
<1> QED
  BY <1>3, <1>6, <1>7, <1>8, WiderFollows DEF CpShape

LEMMA Open5gsStepsFacts == ASSUME args \in Inputs PROVE CpShape(Open5gsSteps)
<1> DEFINE T == {<<"o5Mongo">>, <<"o5NRF">>, <<"o5OnlySbi", "udr">>, <<"o5OnlySbi", "udm">>,
                 <<"o5OnlySbi", "ausf">>, <<"o5OnlySbi", "bsf">>, <<"o5PCF">>, <<"o5NSSF">>}
           q == <<<<"o5Mongo">>, <<"o5NRF">>, <<"o5OnlySbi", "udr">>, <<"o5OnlySbi", "udm">>,
                  <<"o5OnlySbi", "ausf">>, <<"o5OnlySbi", "bsf">>, <<"o5PCF">>, <<"o5NSSF">>>>
           c == q \o Each("o5AMF", Amfs(net)) \o Each("o5SMF", Smfs(net))
           z == <<"o5WebUI">>
<1>1. q \in Seq(T) /\ 1 \in DOMAIN q /\ q[1] = <<"o5Mongo">>
  OBVIOUS
<1>2. \A y \in T : y # <<>> /\ y[1] \in CpFirst
  <2> DEFINE N == {"o5Mongo", "o5NRF", "o5OnlySbi", "o5PCF", "o5NSSF"}
  <2>1. \A y \in T : y # <<>> /\ y[1] \in N
    OBVIOUS
  <2>2. N \subseteq CpFirst
    BY CpStepNames
  <2> HIDE DEF N, T
  <2> QED
    BY <2>1, <2>2
<1>3. c \o <<z>> = Open5gsSteps
  BY DEF Open5gsSteps
<1>4. Legal(z) /\ z[1] \notin Deferred /\ Rank(z[1]) = 4 /\ z[1] = "o5WebUI"
  BY CpStepNames, PlainLegal
<1> HIDE DEF T, q, z
<1>5. Follows(q, 4, 4) /\ SeqToSet(q) \subseteq T
  BY <1>1, <1>2, CpStepNames, LiteralFollows
<1>6. <<"o5Mongo">> \in SeqToSet(q)
  BY <1>1 DEF SeqToSet
<1>7. /\ Follows(c, 4, 4) /\ SeqToSet(q) \subseteq SeqToSet(c)
      /\ \A y \in SeqToSet(c) : y \in SeqToSet(q) \/ y[1] \in {"o5AMF", "o5SMF"}
  BY <1>5, CpStepNames, NamedFollows
<1> HIDE DEF c
<1>8. Follows(<<z>>, 4, 4) /\ SeqToSet(<<z>>) = {z}
  BY <1>4, OneFollows
<1> DEFINE w == <<z>>
<1>9. Follows(w, 4, 4) /\ SeqToSet(w) = {z}
  BY <1>8
<1> HIDE DEF w
<1>10. Follows(c \o w, 4, 4) /\ SeqToSet(c \o w) = SeqToSet(c) \cup {z}
  BY <1>7, <1>9, JoinFollows
<1>11. \A y \in SeqToSet(c \o w) : y[1] # "oaiConfigSMF"
  BY <1>2, <1>4, <1>5, <1>7, <1>10, CpStepNames
<1>12. \E y \in SeqToSet(c \o w) : y[1] \in Storing
  <2> DEFINE y == <<"o5Mongo">>
  <2>1. y \in SeqToSet(c \o w) /\ y[1] \in Storing
    BY <1>6, <1>7, <1>10, CpStepNames
  <2> QED
    BY <2>1
<1>13. CpShape(c \o w)
  BY <1>10, <1>11, <1>12, WiderFollows DEF CpShape
<1> QED
  BY <1>3, <1>13 DEF w

LEMMA PhoenixStepsFacts == ASSUME args \in Inputs PROVE CpShape(PhoenixSteps)
<1> DEFINE T == {<<"phBuilder">>, <<"phSQL">>, <<"phNRF">>, <<"phUDM">>, <<"phAUSF">>, <<"phNSSF">>}
           q == <<<<"phBuilder">>, <<"phSQL">>, <<"phNRF">>, <<"phUDM">>, <<"phAUSF">>, <<"phNSSF">>>>
           c == q \o Each("phAMF", Amfs(net)) \o Each("phSMF", Smfs(net))
           z == <<"phPCF">>
           w == IF args.phoenixPcf THEN <<z>> ELSE <<>>
<1>1. q \in Seq(T) /\ 4 \in DOMAIN q /\ q[4] = <<"phUDM">>
  OBVIOUS
<1>2. \A y \in T : y # <<>> /\ y[1] \in CpFirst \cup {"phBuilder"}
  <2>1. {"phSQL", "phNRF", "phUDM", "phAUSF", "phNSSF"} \subseteq CpFirst
    BY CpStepNames
  <2>2. \A y \in T : y # <<>> /\ y[1] \in {"phBuilder", "phSQL", "phNRF", "phUDM", "phAUSF", "phNSSF"}
    OBVIOUS
  <2> QED
    BY <2>1, <2>2
<1>3. c \o w = PhoenixSteps
  BY DEF PhoenixSteps
<1>4. Legal(z) /\ z[1] \notin Deferred /\ Rank(z[1]) = 4 /\ z[1] = "phPCF"
  BY CpStepNames, PlainLegal
<1> HIDE DEF T, q, z
<1>5. Follows(q, 4, 4) /\ SeqToSet(q) \subseteq T
  BY <1>1, <1>2, CpStepNames, LiteralFollows
<1>6. <<"phUDM">> \in SeqToSet(q)
  BY <1>1 DEF SeqToSet
<1>7. /\ Follows(c, 4, 4) /\ SeqToSet(q) \subseteq SeqToSet(c)
      /\ \A y \in SeqToSet(c) : y \in SeqToSet(q) \/ y[1] \in {"phAMF", "phSMF"}
  BY <1>5, CpStepNames, NamedFollows
<1> HIDE DEF c
<1>8. Follows(<<z>>, 4, 4) /\ SeqToSet(<<z>>) = {z}
  BY <1>4, OneFollows
<1>9. Follows(w, 4, 4) /\ SeqToSet(w) \subseteq {z}
  BY <1>8, EmptyFollows
<1> HIDE DEF w
<1>10. Follows(c \o w, 4, 4) /\ SeqToSet(c \o w) = SeqToSet(c) \cup SeqToSet(w)
  BY <1>7, <1>9, JoinFollows
<1>11. \A y \in SeqToSet(c \o w) : y[1] # "oaiConfigSMF"
  BY <1>2, <1>4, <1>5, <1>7, <1>9, <1>10, CpStepNames
<1>12. \E y \in SeqToSet(c \o w) : y[1] \in Storing
  <2> DEFINE y == <<"phUDM">>
  <2>1. y \in SeqToSet(c \o w) /\ y[1] \in Storing
    BY <1>6, <1>7, <1>10, CpStepNames
  <2> QED
    BY <2>1
<1> QED
  BY <1>3, <1>10, <1>11, <1>12, WiderFollows DEF CpShape
LEMMA OaiStepsFacts == ASSUME args \in Inputs PROVE CpShape(OaiSteps)
<1> DEFINE lit == <<"amf", "smf", "udm", "udr", "ausf", "nrf", "pcf">>
           nfs == Kept(lit, OaiNfs)
           sql == <<"oaiSQL">>
           one == <<sql>>
           each == [i \in DOMAIN nfs |-> <<"oaiNF", nfs[i]>>]
           T == {<<"oaiConfigAMF">>, <<"oaiConfigSMF">>}
           config == <<<<"oaiConfigAMF">>, <<"oaiConfigSMF">>>>
           pcf == <<"oaiPCF">>
           nwdaf == <<"oaiNWDAF">>
           mayPcf == IF args.oaiPcf THEN <<pcf>> ELSE <<>>
           mayNwdaf == IF args.oaiNwdaf THEN <<nwdaf>> ELSE <<>>
           p == one \o each
           q == p \o config
           r == q \o mayPcf
           s == r \o mayNwdaf
<1>1. OaiSteps = s
  BY DEF OaiSteps
<1>2. /\ lit \in Seq({"amf", "smf", "udm", "udr", "ausf", "nrf", "pcf"}) /\ lit[2] = "smf" /\ 2 \in DOMAIN lit
      /\ config \in Seq(T)
  OBVIOUS
<1>3. IsList(nfs) /\ "smf" \in SeqToSet(nfs)
  <2>1. "smf" \in OaiNfs
    BY DEF OaiNfs, OaiTemplate
  <2>2. "smf" \in SeqToSet(lit)
    BY <1>2 DEF SeqToSet
  <2> HIDE DEF lit
  <2>3. IsList(lit)
    BY <1>2, TypedList
  <2>4. IsList(nfs) /\ SeqToSet(nfs) = SeqToSet(lit) \cap OaiNfs
    BY <2>3, KeptList
  <2> QED
    BY <2>1, <2>2, <2>4
<1> HIDE DEF lit, nfs
<1>4. Follows(one, 4, 4) /\ SeqToSet(one) = {sql} /\ sql[1] = "oaiSQL"
  <2>1. Legal(sql) /\ sql[1] \notin Deferred /\ Rank(sql[1]) = 4 /\ sql[1] = "oaiSQL"
    BY CpStepNames, PlainLegal
  <2> HIDE DEF sql
  <2> QED
    BY <2>1, OneFollows
<1>5. Follows(each, 4, 4) /\ <<"oaiNF", "smf">> \in SeqToSet(each)
  <2>1. /\ each = [i \in DOMAIN nfs |-> each[i]] /\ DOMAIN each = DOMAIN nfs
        /\ \A i \in DOMAIN nfs : each[i] # <<>> /\ each[i][1] = "oaiNF" /\ each[i] = <<"oaiNF", nfs[i]>>
    OBVIOUS
  <2>2. PICK i \in DOMAIN nfs : nfs[i] = "smf"
    BY <1>3 DEF SeqToSet
  <2> HIDE DEF each
  <2>3. Follows(each, 4, 4)
    BY <1>3, <2>1, CpStepNames, EachFollows
  <2> QED
    BY <2>1, <2>2, <2>3 DEF SeqToSet
<1>6. Follows(config, 5, 5)
  <2>1. \A y \in T : y # <<>> /\ y[1] \in {"oaiConfigAMF", "oaiConfigSMF"}
    OBVIOUS
  <2> HIDE DEF T, config
  <2>2. config \in Seq(T)
    BY <1>2
  <2> QED
    BY <2>1, <2>2, CpStepNames, LiteralFollows
<1>7. Follows(mayPcf, 5, 5)
  <2>1. Legal(pcf) /\ pcf[1] \notin Deferred /\ Rank(pcf[1]) = 5
    BY CpStepNames, PlainLegal
  <2> HIDE DEF pcf
  <2> QED
    BY <2>1, OneFollows, EmptyFollows
<1>8. Follows(mayNwdaf, 5, 5)
  <2>1. Legal(nwdaf) /\ nwdaf[1] \notin Deferred /\ Rank(nwdaf[1]) = 5
    BY CpStepNames, PlainLegal
  <2> HIDE DEF nwdaf
  <2> QED
    BY <2>1, OneFollows, EmptyFollows
<1> HIDE DEF one, each, config, mayPcf, mayNwdaf, sql
<1>9. Follows(p, 4, 4) /\ SeqToSet(p) = SeqToSet(one) \cup SeqToSet(each)
  BY <1>4, <1>5, JoinFollows
<1> HIDE DEF p
<1>10. Follows(q, 4, 5) /\ SeqToSet(q) = SeqToSet(p) \cup SeqToSet(config)
  BY <1>6, <1>9, JoinFollows
<1> HIDE DEF q
<1>11. Follows(r, 4, 5) /\ SeqToSet(r) = SeqToSet(q) \cup SeqToSet(mayPcf)
  BY <1>7, <1>10, JoinFollows
<1> HIDE DEF r
<1>12. Follows(s, 4, 5) /\ SeqToSet(s) = SeqToSet(r) \cup SeqToSet(mayNwdaf)
  BY <1>8, <1>11, JoinFollows
<1> HIDE DEF s
<1>13. sql \in SeqToSet(s) /\ <<"oaiNF", "smf">> \in SeqToSet(s)
  BY <1>4, <1>5, <1>9, <1>10, <1>11, <1>12
<1>14. sql[1] \in Storing
  BY <1>4, CpStepNames
<1> QED
  BY <1>1, <1>12, <1>13, <1>14 DEF CpShape

LEMMA CpStepsFacts == ASSUME args \in Inputs PROVE CpShape(CpSteps)
<1>1. args.cp \in {"free5gc", "open5gs", "phoenix", "oai"}
  BY OptionsAssumption
<1>2. CpSteps \in {Free5gcSteps, Open5gsSteps, PhoenixSteps, OaiSteps}
  BY <1>1 DEF CpSteps
<1> QED
  BY <1>2, Free5gcStepsFacts, Open5gsStepsFacts, PhoenixStepsFacts, OaiStepsFacts

\* Steps for the UPFs.
LEMMA UpStepLegal ==
  ASSUME NEW upf, NEW y, y # <<>>, y[2] = upf,
         \/ y[1] \in UpLate
         \/ y[1] \in UpEarly /\ args.up[upf] \in {"free5gc", "open5gs", "phoenix", "oai"}
  PROVE  Legal(y) /\ y[1] \notin Deferred /\ Rank(y[1]) = 2
<1>1. y[1] \in Builders /\ y[1] # "prush" /\ Rank(y[1]) = 2
  BY Ranks DEF Builders, UpLate, UpEarly
<1>2. y[1] \in UpLate => y[1] \notin UpEarly
  BY DEF UpLate, UpEarly
<1>3. y[1] \notin Deferred
  BY <1>1, Apart
<1> QED
  BY <1>1, <1>2, <1>3 DEF Legal

UpStep(y) == Legal(y) /\ y[1] \notin Deferred /\ (y[1] = "phBuilder" \/ Rank(y[1]) = 2)

LEMMA UpStepsFacts ==
  ASSUME args \in Inputs, NEW upf \in SeqToSet(net.upfs)
  PROVE  IsList(UpSteps(upf)) /\ \A y \in SeqToSet(UpSteps(upf)) : UpStep(y)
<1> DEFINE early == {"free5gc", "open5gs", "phoenix", "oai"}
<1>1. args.up[upf] \in {"free5gc", "open5gs", "phoenix", "oai", "oai-vpp", "eupf", "bess", "ndndpdk"}
  BY OptionsAssumption DEF net
<1>2. ASSUME NEW s, UpSteps(upf) = <<<<s, upf>>>>, s \in UpLate \/ (s \in UpEarly /\ args.up[upf] \in early)
      PROVE  IsList(UpSteps(upf)) /\ \A y \in SeqToSet(UpSteps(upf)) : UpStep(y)
  <2> DEFINE y == <<s, upf>>
             q == <<y>>
  <2>1. y # <<>> /\ y[1] = s /\ y[2] = upf
    OBVIOUS
  <2>2. q \in Seq({y})
    OBVIOUS
  <2>3. UpSteps(upf) = q
    BY <1>2
  <2> HIDE DEF y, q
  <2>4. UpStep(y)
    BY <1>2, <2>1, UpStepLegal DEF UpStep
  <2>5. IsList(q) /\ SeqToSet(q) \subseteq {y}
    BY <2>2, TypedList
  <2> QED
    BY <2>3, <2>4, <2>5
<1>3. ASSUME UpSteps(upf) = <<<<"phBuilder">>, <<"phUPF", upf>>>>, args.up[upf] \in early
      PROVE  IsList(UpSteps(upf)) /\ \A y \in SeqToSet(UpSteps(upf)) : UpStep(y)
  <2> DEFINE b == <<"phBuilder">>
             y == <<"phUPF", upf>>
             q == <<b, y>>
  <2>1. y # <<>> /\ y[1] = "phUPF" /\ y[2] = upf /\ b # <<>> /\ b[1] = "phBuilder"
    OBVIOUS
  <2>2. q \in Seq({b, y})
    OBVIOUS
  <2>3. UpSteps(upf) = q
    BY <1>3
  <2> HIDE DEF b, y, q
  <2>4. UpStep(y)
    BY <1>3, <2>1, UpStepLegal, UpNames DEF UpStep
  <2>5. UpStep(b)
    BY <2>1, Apart, PlainLegal DEF UpStep
  <2>6. IsList(q) /\ SeqToSet(q) \subseteq {b, y}
    BY <2>2, TypedList
  <2> QED
    BY <2>3, <2>4, <2>5, <2>6
<1>4. {"f5UP", "o5UP", "oaiUP"} \subseteq UpEarly /\ {"oaiUPvpp", "eUPF", "bessUP", "ndndpdkUP"} \subseteq UpLate
  BY DEF UpEarly, UpLate
<1>5. \/ args.up[upf] \in early /\ UpSteps(upf) \in {<<<<"f5UP", upf>>>>, <<<<"o5UP", upf>>>>, <<<<"oaiUP", upf>>>>}
      \/ args.up[upf] \in early /\ UpSteps(upf) = <<<<"phBuilder">>, <<"phUPF", upf>>>>
      \/ UpSteps(upf) \in {<<<<"oaiUPvpp", upf>>>>, <<<<"eUPF", upf>>>>, <<<<"bessUP", upf>>>>,
                           <<<<"ndndpdkUP", upf>>>>}
  BY <1>1 DEF UpSteps
<1> HIDE DEF early
<1> QED
  BY <1>2, <1>3, <1>4, <1>5

LEMMA AllUpStepsFacts ==
  ASSUME args \in Inputs
  PROVE  Follows(FlattenSeq([i \in DOMAIN net.upfs |-> UpSteps(net.upfs[i])]), 2, 2)
<1> DEFINE ss == [i \in DOMAIN net.upfs |-> UpSteps(net.upfs[i])]
           U == UNION {SeqToSet(UpSteps(net.upfs[i])) : i \in DOMAIN net.upfs}
<1>1. IsList(net.upfs) /\ \A i \in DOMAIN net.upfs : net.upfs[i] \in SeqToSet(net.upfs)
  BY NetFacts, ListFacts
<1>2. ASSUME NEW i \in DOMAIN net.upfs PROVE UpSteps(net.upfs[i]) \in Seq(U)
  <2> DEFINE q == UpSteps(net.upfs[i])
  <2>1. q \in Seq(SeqToSet(q))
    BY <1>1, UpStepsFacts DEF IsList
  <2>2. SeqToSet(q) \subseteq U
    OBVIOUS
  <2> HIDE DEF q, U
  <2>3. q \in Seq(U)
    BY <2>1, <2>2
  <2> QED
    BY <2>3 DEF q
<1>3. ss \in Seq(Seq(U))
  <2>1. \A i \in DOMAIN net.upfs : ss[i] \in Seq(U)
    BY <1>2
  <2>2. ss = [i \in DOMAIN net.upfs |-> ss[i]]
    OBVIOUS
  <2> HIDE DEF ss, U
  <2> QED
    BY <1>1, <2>1, <2>2, MapList
<1> DEFINE q == FlattenSeq(ss)
<1> HIDE DEF U
<1>4. IsJoined(q, ss, U, DOMAIN ss)
  <2> HIDE DEF ss
  <2> QED
    BY <1>3, FlattenFacts
<1> HIDE DEF q
<1>5. IsList(q)
  BY <1>4, TypedList DEF IsJoined
<1>6. ASSUME NEW y \in SeqToSet(q) PROVE UpStep(y)
  <2>1. PICK k \in DOMAIN ss : \E j \in DOMAIN ss[k] : y = ss[k][j]
    <3> HIDE DEF ss
    <3> QED
      BY <1>4 DEF IsJoined, SeqToSet
  <2>2. y \in SeqToSet(UpSteps(net.upfs[k])) /\ net.upfs[k] \in SeqToSet(net.upfs)
    BY <1>1, <2>1 DEF SeqToSet
  <2> QED
    BY <2>2, UpStepsFacts
<1>7. Follows(q, 2, 2)
  BY <1>5, <1>6, LevelFollows DEF UpStep
<1> QED
  BY <1>7 DEF q
-----------------------------------------------------------------------------
\* Steps of the RAN: the options of PacketRusher are checked before it is built.
RanPlan(q) ==
  /\ Follows(q, 6, 7)
  /\ (\E y \in SeqToSet(q) : y[1] = "prush") => (\E y \in SeqToSet(q) : y[1] = "prushOptions")

LEMMA PlainRanPlan ==
  ASSUME NEW q, Follows(q, 7, 7), \A y \in SeqToSet(q) : y[1] # "prush"
  PROVE  RanPlan(q)
BY DEF RanPlan, Follows

LEMMA RanStepNames ==
  /\ {"ueransimGNB", "ueransimUE", "srsZmq", "srsSdr", "gnbsimRAN", "oaiGNB", "oaiUE", "phGNB",
      "phUE"} = RanBuild \ {"prush"}
  /\ \A s \in RanBuild : Rank(s) = 7
BY Ranks DEF RanBuild

\* Those of a list of gNBs and of a list of subscribers, in which nothing else than these is.
LEMMA GnbStepsFacts ==
  ASSUME args \in Inputs, NEW s \in RanBuild \ {"prush"}
  PROVE  Follows(GnbSteps(s), 7, 7) /\ \A y \in SeqToSet(GnbSteps(s)) : y[1] # "prush"
<1> DEFINE f == GnbSteps(s)
           q == net.gnbs
<1>1. f = [i \in DOMAIN q |-> f[i]] /\ \A i \in DOMAIN q : f[i] # <<>> /\ f[i][1] = s
  BY DEF GnbSteps
<1>2. IsList(q)
  BY NetFacts
<1> HIDE DEF f, q
<1>3. Follows(f, 7, 7) /\ \A y \in SeqToSet(f) : y[1] = s
  BY <1>1, <1>2, RanStepNames, EachFollows
<1>4. Follows(f, 7, 7) /\ \A y \in SeqToSet(f) : y[1] # "prush"
  BY <1>3
<1> QED
  BY <1>4 DEF f

LEMMA UeStepsFacts ==
  ASSUME args \in Inputs, NEW s \in RanBuild \ {"prush"}, NEW b \in BOOLEAN
  PROVE  Follows(UeSteps(s, b), 7, 7) /\ \A y \in SeqToSet(UeSteps(s, b)) : y[1] # "prush"
<1> DEFINE f == UeSteps(s, b)
           q == Subscribers(b)
<1>1. f = [i \in DOMAIN q |-> f[i]] /\ \A i \in DOMAIN q : f[i] # <<>> /\ f[i][1] = s
  BY DEF UeSteps
<1>2. IsList(q)
  BY SubscribersFacts
<1> HIDE DEF f, q
<1>3. Follows(f, 7, 7) /\ \A y \in SeqToSet(f) : y[1] = s
  BY <1>1, <1>2, RanStepNames, EachFollows
<1>4. Follows(f, 7, 7) /\ \A y \in SeqToSet(f) : y[1] # "prush"
  BY <1>3
<1> QED
  BY <1>4 DEF f

LEMMA BothRanPlan ==
  ASSUME NEW p, NEW q, Follows(p, 7, 7), Follows(q, 7, 7),
         \A y \in SeqToSet(p) : y[1] # "prush", \A y \in SeqToSet(q) : y[1] # "prush"
  PROVE  RanPlan(p \o q)
<1> DEFINE r == p \o q
<1>1. Follows(r, 7, 7) /\ SeqToSet(r) = SeqToSet(p) \cup SeqToSet(q)
  BY JoinFollows
<1> HIDE DEF r
<1>2. RanPlan(r)
  BY <1>1, PlainRanPlan
<1> QED
  BY <1>2 DEF r

LEMMA PrushStepsFacts == ASSUME args \in Inputs, args.ran = "packetrusher" PROVE RanPlan(PrushSteps)
<1> DEFINE o == <<"prushOptions">>
           p == <<o>>
           u == <<"prush", 1>>
           multi == <<u>>
           each == UeSteps("prush", PrushExpand)
           q == IF args.prushMulti THEN multi ELSE each
<1>1. PrushSteps = p \o q
  BY DEF PrushSteps
<1>2. args.prushMulti \in BOOLEAN /\ args.prushTunnel \in BOOLEAN
  BY OptionsAssumption
<1>3. /\ "prush" \in Builders /\ "prush" \notin UpEarly /\ "prush" \notin Deferred /\ Rank("prush") = 7
      /\ "prushOptions" \in Stages /\ Rank("prushOptions") = 6
  <2>1. "prush" \in RanBuild /\ "prush" \notin UpEarly /\ "prushOptions" \in Stages
    BY DEF RanBuild, UpEarly, Stages
  <2> QED
    BY <2>1, Apart, Ranks DEF Builders
<1>4. ASSUME NEW y, y # <<>>, y[1] = "prush", args.prushMulti => y[2] = 1
      PROVE  Legal(y) /\ y[1] \notin Deferred /\ Rank(y[1]) = 7
  BY <1>3, <1>4 DEF Legal
<1>5. Follows(p, 6, 6) /\ SeqToSet(p) = {o} /\ o[1] = "prushOptions"
  <2>1. Legal(o) /\ o[1] \notin Deferred /\ Rank(o[1]) = 6 /\ o[1] = "prushOptions"
    BY <1>3, PlainLegal
  <2> HIDE DEF o
  <2> QED
    BY <2>1, OneFollows
<1>6. Follows(multi, 7, 7)
  <2>1. Legal(u) /\ u[1] \notin Deferred /\ Rank(u[1]) = 7
    BY <1>4
  <2> HIDE DEF u
  <2> QED
    BY <2>1, OneFollows
<1>7. ASSUME ~ args.prushMulti PROVE Follows(each, 7, 7)
  <2> DEFINE s == Subscribers(PrushExpand)
             S == {<<"prush", i>> : i \in DOMAIN s}
  <2>1. each = [i \in DOMAIN s |-> each[i]] /\ \A i \in DOMAIN s : each[i] \in S
    BY DEF UeSteps
  <2>2. IsList(s)
    BY <1>2, SubscribersFacts DEF PrushExpand
  <2>3. \A y \in S : y # <<>> /\ y[1] = "prush"
    OBVIOUS
  <2> HIDE DEF s, S, each
  <2>4. IsList(each) /\ SeqToSet(each) \subseteq S
    BY <2>1, <2>2, MapList
  <2>5. \A y \in S : Legal(y) /\ y[1] \notin Deferred /\ Rank(y[1]) = 7
    BY <1>4, <1>7, <2>3
  <2> QED
    BY <2>4, <2>5, LevelFollows
<1> HIDE DEF p, multi, each, o
<1>8. Follows(q, 7, 7)
  BY <1>6, <1>7
<1> HIDE DEF q
<1>9. Follows(p \o q, 6, 7) /\ SeqToSet(p \o q) = SeqToSet(p) \cup SeqToSet(q)
  BY <1>5, <1>8, JoinFollows
<1>10. o \in SeqToSet(p \o q)
  BY <1>5, <1>9
<1> QED
  BY <1>1, <1>5, <1>9, <1>10 DEF RanPlan

LEMMA PhoenixRanFacts ==
  ASSUME args \in Inputs
  PROVE  RanPlan(<<<<"phBuilder">>>> \o GnbSteps("phGNB") \o UeSteps("phUE", TRUE))
<1> DEFINE b == <<"phBuilder">>
           p == <<b>>
           q == GnbSteps("phGNB")
           r == UeSteps("phUE", TRUE)
<1>1. Follows(p, 7, 7) /\ SeqToSet(p) \subseteq {b} /\ b[1] # "prush"
  <2>1. b # <<>> /\ b[1] = "phBuilder" /\ p \in Seq({b})
    OBVIOUS
  <2> HIDE DEF p, b
  <2>2. Follows(p, 7, 7) /\ SeqToSet(p) \subseteq {b}
    BY <2>1, LiteralFollows
  <2> QED
    BY <2>1, <2>2
<1>2. Follows(q, 7, 7) /\ \A y \in SeqToSet(q) : y[1] # "prush"
  <2>1. "phGNB" \in RanBuild \ {"prush"}
    BY RanStepNames
  <2> QED
    BY <2>1, GnbStepsFacts
<1>3. Follows(r, 7, 7) /\ \A y \in SeqToSet(r) : y[1] # "prush"
  <2>1. "phUE" \in RanBuild \ {"prush"}
    BY RanStepNames
  <2> QED
    BY <2>1, UeStepsFacts
<1> HIDE DEF p, q, r, b
<1>4. Follows(p \o q, 7, 7) /\ SeqToSet(p \o q) = SeqToSet(p) \cup SeqToSet(q)
  BY <1>1, <1>2, JoinFollows
<1> DEFINE s == p \o q
<1>5. Follows(s, 7, 7) /\ \A y \in SeqToSet(s) : y[1] # "prush"
  BY <1>1, <1>2, <1>4
<1> HIDE DEF s
<1>6. RanPlan(s \o r)
  BY <1>3, <1>5, BothRanPlan
<1> QED
  BY <1>6 DEF p, q, r, s, b

LEMMA RanStepsFacts == ASSUME args \in Inputs PROVE RanPlan(RanSteps)
<1>1. /\ args.ran \in {"ueransim", "packetrusher", "srsran", "gnbsim", "oai", "phoenix", "none"}
      /\ {args.ueransimSingle, args.usrp, args.srsSdr} \subseteq BOOLEAN
  BY OptionsAssumption
<1>2. RanPlan(<<>>)
  BY EmptyFollows DEF RanPlan
<1>3. RanPlan(UeransimSteps)
  <2>1. {"ueransimGNB", "ueransimUE"} \subseteq RanBuild \ {"prush"}
    BY RanStepNames
  <2> QED
    BY <1>1, <2>1, GnbStepsFacts, UeStepsFacts, BothRanPlan DEF UeransimSteps
<1>4. RanPlan(SrsSteps)
  <2>1. {"srsSdr", "srsZmq"} \subseteq RanBuild \ {"prush"}
    BY RanStepNames
  <2>2. RanPlan(GnbSteps("srsSdr")) /\ RanPlan(UeSteps("srsZmq", TRUE))
    BY <2>1, GnbStepsFacts, UeStepsFacts, PlainRanPlan
  <2> QED
    BY <2>2 DEF SrsSteps
<1>5. RanPlan(GnbSteps("gnbsimRAN"))
  BY RanStepNames, GnbStepsFacts, PlainRanPlan
<1>6. RanPlan(OaiRanSteps)
  <2> DEFINE p == GnbSteps("oaiGNB")
             q == IF args.usrp THEN <<>> ELSE UeSteps("oaiUE", TRUE)
  <2>1. {"oaiGNB", "oaiUE"} \subseteq RanBuild \ {"prush"}
    BY RanStepNames
  <2>2. Follows(p, 7, 7) /\ \A y \in SeqToSet(p) : y[1] # "prush"
    BY <2>1, GnbStepsFacts
  <2>3. Follows(q, 7, 7) /\ \A y \in SeqToSet(q) : y[1] # "prush"
    BY <2>1, UeStepsFacts, EmptyFollows
  <2>4. OaiRanSteps = p \o q
    BY DEF OaiRanSteps
  <2> HIDE DEF p, q
  <2> QED
    BY <2>2, <2>3, <2>4, BothRanPlan
<1> QED
  BY <1>1, <1>2, <1>3, <1>4, <1>5, <1>6, PhoenixRanFacts, PrushStepsFacts DEF RanSteps
-----------------------------------------------------------------------------
\* The end of main.ts.
LEMMA StageLegal ==
  ASSUME NEW y, y # <<>>, y[1] \in Stages \cup {"cpufreq", "place", "finalSave"}
  PROVE  Legal(y) /\ y[1] \notin Deferred
<1>1. {"cpufreq", "place", "finalSave"} \subseteq Quiet \ Deferred
  BY DEF Quiet, Deferred
<1> QED
  BY <1>1, PlainLegal

LEMMA AfterQoSFacts ==
  ASSUME args \in Inputs
  PROVE  /\ Follows(AfterQoS, 9, 13)
         /\ <<"place">> \in SeqToSet(AfterQoS)
         /\ args.prometheus => <<"buildPrometheus">> \in SeqToSet(AfterQoS)
<1> DEFINE prom == <<"buildPrometheus">>
           freq == <<"cpufreq">>
           place == <<"place">>
           save == <<"finalSave">>
           a == IF args.prometheus THEN <<prom>> ELSE <<>>
           b == [i \in DOMAIN args.bridge |-> <<"defineBridge", i>>]
           c == IF args.cpufreq THEN <<freq>> ELSE <<>>
           d == <<place, save>>
<1>1. AfterQoS = a \o b \o c \o d
  BY DEF AfterQoS
<1>2. args.prometheus \in BOOLEAN /\ args.cpufreq \in BOOLEAN /\ IsList(args.bridge)
  BY OptionsAssumption
<1>3. /\ Legal(prom) /\ prom[1] \notin Deferred /\ Rank(prom[1]) = 9
      /\ Legal(freq) /\ freq[1] \notin Deferred /\ Rank(freq[1]) = 11
      /\ Legal(place) /\ place[1] \notin Deferred /\ Rank(place[1]) = 12
      /\ Legal(save) /\ save[1] \notin Deferred /\ Rank(save[1]) = 13
  <2>1. "buildPrometheus" \in Stages
    BY DEF Stages
  <2> QED
    BY <2>1, StageLegal, Ranks
<1>4. Follows(b, 10, 10)
  <2> DEFINE q == args.bridge
  <2>1. b = [i \in DOMAIN q |-> b[i]] /\ \A i \in DOMAIN q : b[i] # <<>> /\ b[i][1] = "defineBridge"
    OBVIOUS
  <2>2. IsList(q) /\ Rank("defineBridge") = 10
    BY <1>2, Ranks
  <2> HIDE DEF b, q
  <2> QED
    BY <2>1, <2>2, EachFollows
<1>5. d = <<place>> \o <<save>>
  <2> DEFINE S == {place, save}
  <2>1. place \in S /\ save \in S
    OBVIOUS
  <2> HIDE DEF place, save, S
  <2> QED
    BY <2>1, PairList
<1> HIDE DEF prom, freq, place, save, b
<1>6. Follows(<<place>>, 12, 12) /\ SeqToSet(<<place>>) = {place}
  BY <1>3, OneFollows
<1>7. Follows(<<save>>, 13, 13) /\ SeqToSet(<<save>>) = {save}
  BY <1>3, OneFollows
<1>8. Follows(d, 12, 13) /\ SeqToSet(d) = {place, save}
  <2> DEFINE p == <<place>>
             q == <<save>>
  <2>1. Follows(p, 12, 12) /\ SeqToSet(p) = {place} /\ Follows(q, 13, 13) /\ SeqToSet(q) = {save} /\ d = p \o q
    BY <1>5, <1>6, <1>7
  <2> HIDE DEF p, q, d
  <2> QED
    BY <2>1, JoinFollows
<1>9. Follows(a, 9, 9) /\ (args.prometheus => prom \in SeqToSet(a))
  <2>1. Follows(<<prom>>, 9, 9) /\ SeqToSet(<<prom>>) = {prom}
    BY <1>3, OneFollows
  <2> QED
    BY <2>1, EmptyFollows
<1>10. Follows(c, 11, 11)
  BY <1>3, OneFollows, EmptyFollows
<1> HIDE DEF a, c, d
<1> DEFINE p == a \o b
           q == p \o c
           r == q \o d
<1>11. Follows(p, 9, 10) /\ SeqToSet(p) = SeqToSet(a) \cup SeqToSet(b)
  BY <1>4, <1>9, JoinFollows
<1> HIDE DEF p
<1>12. Follows(q, 9, 11) /\ SeqToSet(q) = SeqToSet(p) \cup SeqToSet(c)
  BY <1>10, <1>11, JoinFollows
<1> HIDE DEF q
<1>13. Follows(r, 9, 13) /\ SeqToSet(r) = SeqToSet(q) \cup SeqToSet(d)
  BY <1>8, <1>12, JoinFollows
<1>14. AfterQoS = r
  BY <1>1 DEF q, p
<1> HIDE DEF r
<1>15. place \in SeqToSet(r) /\ (args.prometheus => prom \in SeqToSet(r))
  BY <1>8, <1>9, <1>11, <1>12, <1>13
<1> QED
  BY <1>13, <1>14, <1>15 DEF place, prom

\* All the steps.
LEMMA BeforeRanFacts ==
  ASSUME args \in Inputs
  PROVE  /\ Follows(BeforeRan, 1, 5)
         /\ <<"dn">> \in SeqToSet(BeforeRan)
         /\ \E y \in SeqToSet(BeforeRan) : y[1] \in Storing
         /\ (\E y \in SeqToSet(BeforeRan) : y[1] = "oaiConfigSMF") =>
              <<"oaiNF", "smf">> \in SeqToSet(BeforeRan)
<1> DEFINE first == <<"dn">>
           set == <<"setDN">>
           a == <<first>>
           b == FlattenSeq([i \in DOMAIN net.upfs |-> UpSteps(net.upfs[i])])
           c == <<set>>
           d == CpSteps
           p == a \o b
           q == p \o c
           r == q \o d
<1>1. BeforeRan = r
  BY DEF BeforeRan
<1>2. /\ Legal(first) /\ first[1] \notin Deferred /\ Rank(first[1]) = 1
      /\ Legal(set) /\ set[1] \notin Deferred /\ Rank(set[1]) = 3
  <2>1. "dn" \in Stages /\ "setDN" \in Stages
    BY DEF Stages
  <2> QED
    BY <2>1, StageLegal, Ranks
<1>3. Follows(b, 2, 2)
  BY AllUpStepsFacts
<1>4. CpShape(d)
  BY CpStepsFacts
<1> HIDE DEF first, set
<1>5. Follows(a, 1, 1) /\ SeqToSet(a) = {first}
  BY <1>2, OneFollows
<1>6. Follows(c, 3, 3) /\ SeqToSet(c) = {set}
  BY <1>2, OneFollows
<1> HIDE DEF a, b, c, d
<1>7. Follows(p, 1, 2) /\ SeqToSet(p) = SeqToSet(a) \cup SeqToSet(b)
  BY <1>3, <1>5, JoinFollows
<1> HIDE DEF p
<1>8. Follows(q, 1, 3) /\ SeqToSet(q) = SeqToSet(p) \cup SeqToSet(c)
  BY <1>6, <1>7, JoinFollows
<1> HIDE DEF q
<1>9. Follows(d, 4, 5)
  BY <1>4 DEF CpShape
<1>10. Follows(r, 1, 5) /\ SeqToSet(r) = SeqToSet(q) \cup SeqToSet(d)
  BY <1>8, <1>9, JoinFollows
<1> HIDE DEF r
<1>11. first \in SeqToSet(r)
  BY <1>5, <1>7, <1>8, <1>10
<1>12. \A y \in SeqToSet(q) : y[1] # "oaiConfigSMF"
  <2>1. Rank("oaiConfigSMF") = 5
    BY CpStepNames
  <2>2. \A k \in 1 .. 3 : k # 5
    OBVIOUS
  <2> QED
    BY <1>8, <2>1, <2>2 DEF Follows
<1>13. /\ \E y \in SeqToSet(r) : y[1] \in Storing
       /\ (\E y \in SeqToSet(r) : y[1] = "oaiConfigSMF") => <<"oaiNF", "smf">> \in SeqToSet(r)
  BY <1>4, <1>10, <1>12 DEF CpShape
<1> QED
  BY <1>1, <1>10, <1>11, <1>13 DEF first

LEMMA StepsShape ==
  ASSUME args \in Inputs
  PROVE  /\ Follows(Steps, 1, 13)
         /\ {<<"dn">>, <<"saveQoS">>, <<"place">>} \subseteq SeqToSet(Steps)
         /\ args.prometheus => <<"buildPrometheus">> \in SeqToSet(Steps)
         /\ \E y \in SeqToSet(Steps) : y[1] \in Storing
         /\ (\E y \in SeqToSet(Steps) : y[1] = "oaiConfigSMF") => <<"oaiNF", "smf">> \in SeqToSet(Steps)
         /\ (\E y \in SeqToSet(Steps) : y[1] = "prush") =>
              \E y \in SeqToSet(Steps) : y[1] = "prushOptions"
<1> DEFINE rules == <<"saveQoS">>
           a == BeforeRan
           b == RanSteps
           c == <<rules>>
           d == AfterQoS
           p == a \o b
           q == p \o c
           r == q \o d
<1>1. Steps = r
  BY DEF Steps
<1>2. Follows(c, 8, 8) /\ SeqToSet(c) = {rules}
  <2>1. Legal(rules) /\ rules[1] \notin Deferred /\ Rank(rules[1]) = 8
    <3>1. "saveQoS" \in Stages
      BY DEF Stages
    <3> QED
      BY <3>1, StageLegal, Ranks
  <2> HIDE DEF rules
  <2> QED
    BY <2>1, OneFollows
<1>3. /\ Follows(a, 1, 5) /\ <<"dn">> \in SeqToSet(a) /\ \E y \in SeqToSet(a) : y[1] \in Storing
      /\ (\E y \in SeqToSet(a) : y[1] = "oaiConfigSMF") => <<"oaiNF", "smf">> \in SeqToSet(a)
  BY BeforeRanFacts
<1>4. /\ Follows(b, 6, 7)
      /\ (\E y \in SeqToSet(b) : y[1] = "prush") => (\E y \in SeqToSet(b) : y[1] = "prushOptions")
  BY RanStepsFacts DEF RanPlan
<1>5. /\ Follows(d, 9, 13) /\ <<"place">> \in SeqToSet(d)
      /\ args.prometheus => <<"buildPrometheus">> \in SeqToSet(d)
  BY AfterQoSFacts
<1> HIDE DEF a, b, c, d
<1>6. Follows(p, 1, 7) /\ SeqToSet(p) = SeqToSet(a) \cup SeqToSet(b)
  BY <1>3, <1>4, JoinFollows
<1> HIDE DEF p
<1>7. Follows(q, 1, 8) /\ SeqToSet(q) = SeqToSet(p) \cup SeqToSet(c)
  BY <1>2, <1>6, JoinFollows
<1> HIDE DEF q
<1>8. Follows(r, 1, 13) /\ SeqToSet(r) = SeqToSet(q) \cup SeqToSet(d)
  BY <1>5, <1>7, JoinFollows
<1> HIDE DEF r
<1>9. SeqToSet(r) = SeqToSet(a) \cup SeqToSet(b) \cup SeqToSet(c) \cup SeqToSet(d)
  BY <1>6, <1>7, <1>8
<1>10. \A y \in SeqToSet(b) \cup SeqToSet(c) \cup SeqToSet(d) : y[1] # "oaiConfigSMF"
  <2>1. Rank("oaiConfigSMF") = 5 /\ "oaiConfigSMF" # "phBuilder"
    BY CpStepNames
  <2>2. (\A k \in 6 .. 7 : k # 5) /\ (\A k \in 8 .. 8 : k # 5) /\ (\A k \in 9 .. 13 : k # 5)
    OBVIOUS
  <2> QED
    BY <1>2, <1>4, <1>5, <2>1, <2>2 DEF Follows
<1>11. \A y \in SeqToSet(a) \cup SeqToSet(c) \cup SeqToSet(d) : y[1] # "prush"
  <2>1. Rank("prush") = 7 /\ "prush" # "phBuilder"
    BY RanStepNames, Apart
  <2>2. (\A k \in 1 .. 5 : k # 7) /\ (\A k \in 8 .. 8 : k # 7) /\ (\A k \in 9 .. 13 : k # 7)
    OBVIOUS
  <2> QED
    BY <1>2, <1>3, <1>5, <2>1, <2>2 DEF Follows
<1>12. {<<"dn">>, rules, <<"place">>} \subseteq SeqToSet(r)
  BY <1>2, <1>3, <1>5, <1>9
<1>13. /\ args.prometheus => <<"buildPrometheus">> \in SeqToSet(r)
       /\ \E y \in SeqToSet(r) : y[1] \in Storing
  BY <1>3, <1>5, <1>9
<1>14. (\E y \in SeqToSet(r) : y[1] = "oaiConfigSMF") => <<"oaiNF", "smf">> \in SeqToSet(r)
  BY <1>3, <1>9, <1>10
<1>15. (\E y \in SeqToSet(r) : y[1] = "prush") => \E y \in SeqToSet(r) : y[1] = "prushOptions"
  BY <1>4, <1>9, <1>11
<1> QED
  BY <1>1, <1>8, <1>12, <1>13, <1>14, <1>15 DEF rules
-----------------------------------------------------------------------------
\* Every step of the specification keeps the invariant.
LEMMA StartInv == ASSUME GenInit PROVE GenInv
<1>1. /\ args \in Inputs /\ todo = Steps
      /\ services = <<>> /\ netifs = {} /\ ip = {} /\ mac = {} /\ assumed = {} /\ placed = FALSE
      /\ finalize = <<>> /\ told = {} /\ asked = {} /\ late = {} /\ qos = {} /\ metrics = {}
      /\ drawn = 0 /\ simulated = {} /\ failed = <<>> /\ running = {}
  BY DEF GenInit
<1>2. /\ Follows(Steps, 1, 13)
      /\ {<<"dn">>, <<"saveQoS">>, <<"place">>} \subseteq SeqToSet(Steps)
      /\ args.prometheus => <<"buildPrometheus">> \in SeqToSet(Steps)
      /\ \E y \in SeqToSet(Steps) : y[1] \in Storing
      /\ (\E y \in SeqToSet(Steps) : y[1] = "oaiConfigSMF") => <<"oaiNF", "smf">> \in SeqToSet(Steps)
      /\ (\E y \in SeqToSet(Steps) : y[1] = "prush") => \E y \in SeqToSet(Steps) : y[1] = "prushOptions"
  BY <1>1, StepsShape
<1>3. IsList(<<>>) /\ SeqToSet(<<>>) = {}
  BY EmptyFollows
<1>4. IsInjective(<<>>)
  BY DEF IsInjective
<1>5. GenTypeOK
  <2>1. \A n \in ip : n[1] \in SeqToSet(services) /\ n[2] \in Defined(networks)
    BY <1>1
  <2>2. IsInjective(services)
    BY <1>1, <1>4
  <2>3. netifs \subseteq ip /\ mac \cup assumed \subseteq ip \ netifs
    BY <1>1
  <2>4. /\ qos \cup metrics \cup running \subseteq SeqToSet(services)
        /\ told \subseteq {<<c, n[1], n[2]>> : c \in SeqToSet(services), n \in ip}
    BY <1>1
  <2>5. placed \in BOOLEAN /\ drawn \in Nat
    BY <1>1
  <2>6. args \in Inputs
    BY <1>1
  <2> QED
    BY <2>1, <2>2, <2>3, <2>4, <2>5, <2>6 DEF GenTypeOK
<1>6. Wired
  BY <1>1 DEF Wired
<1>7. Planned
  <2> DEFINE q == Steps
  <2>1. Follows(q, 1, 13) /\ todo = q
    BY <1>1, <1>2
  <2> HIDE DEF q
  <2>2. ASSUME NEW d \in Ahead PROVE Needed(d) = {}
    <3>1. d[1] \notin Deferred
      BY <2>1 DEF Follows, Ahead
    <3> QED
      BY <3>1 DEF Needed, Deferred
  <2>3. IsList(todo) /\ (\A y \in Ahead : Legal(y)) /\ \A i, j \in DOMAIN todo : i < j => May(todo[i], todo[j])
    BY <2>1 DEF Follows, Ahead
  <2>4. IsList(finalize) /\ IsList(services) /\ SeqToSet(finalize) = {}
    BY <1>1, <1>3
  <2>5. \A d \in Ahead \cup SeqToSet(finalize) : Needed(d) \subseteq ip
    BY <2>2, <2>4
  <2> QED
    BY <1>1, <2>3, <2>4, <2>5 DEF Planned
<1>8. Arranged
  <2> DEFINE q == Steps
  <2>1. Ahead = SeqToSet(q)
    BY <1>1 DEF Ahead
  <2>2. /\ <<"dn">> \in SeqToSet(q) /\ <<"saveQoS">> \in SeqToSet(q) /\ <<"place">> \in SeqToSet(q)
        /\ args.prometheus => <<"buildPrometheus">> \in SeqToSet(q)
    BY <1>2
  <2>3. /\ \E y \in SeqToSet(q) : y[1] \in Storing
        /\ (\E y \in SeqToSet(q) : y[1] = "oaiConfigSMF") => <<"oaiNF", "smf">> \in SeqToSet(q)
        /\ (\E y \in SeqToSet(q) : y[1] = "prush") => \E y \in SeqToSet(q) : y[1] = "prushOptions"
    BY <1>2
  <2> HIDE DEF q
  <2>4. \A s : <<s>> \in Ahead => Pending({s})
    <3>1. ASSUME NEW s, <<s>> \in Ahead PROVE Pending({s})
      <4> DEFINE y == <<s>>
      <4>1. y \in Ahead /\ y[1] \in {s}
        BY <3>1
      <4> QED
        BY <4>1 DEF Pending
    <3> QED
      BY <3>1
  <2>5. Pending({"dn"}) /\ Pending({"saveQoS"}) /\ Pending({"place"})
    BY <2>1, <2>2, <2>4
  <2>6. args.prometheus => Pending({"buildPrometheus"})
    BY <2>1, <2>2, <2>4
  <2>7. Pending(Storing)
    BY <2>1, <2>3 DEF Pending
  <2>8. Pending({"oaiConfigSMF"}) => <<"oaiNF", "smf">> \in Ahead
    BY <2>1, <2>3 DEF Pending
  <2>9. Pending({"prush"}) => Pending({"prushOptions"})
    BY <2>1, <2>3 DEF Pending
  <2> QED
    BY <2>5, <2>6, <2>7, <2>8, <2>9 DEF Arranged
<1>9. Ported /\ Counted /\ Fresh
  BY <1>1 DEF Ported, Counted, Fresh
<1>10. drawn \in {0, 1} /\ simulated \subseteq Everybody
  BY <1>1
<1> QED
  BY <1>5, <1>6, <1>7, <1>8, <1>9, <1>10 DEF GenInv

LEMMA StepInv == ASSUME GenInv, [GenNext]_genVars PROVE GenInv'
<1>1. ASSUME \/ DefineDNServices \/ SetDNCommands \/ SaveQoS \/ BuildPrometheus \/ DefineBridge
             \/ MakeCpufreqService \/ PlaceAll
      PROVE  Legitimate
  BY <1>1, DefineDNServicesStep, SetDNCommandsStep, SaveQoSStep, BuildPrometheusStep, DefineBridgeStep,
     MakeCpufreqServiceStep, PlaceAllStep
<1>2. ASSUME OtherUP PROVE Legitimate
  BY <1>2, UpFacts, DeferredFacts DEF OtherUP
<1>3. ASSUME Oai PROVE Legitimate
  BY <1>3, OaiCpFacts, UpFacts, DeferredFacts DEF Oai
<1>4. ASSUME Phoenix PROVE Legitimate
  BY <1>4, PhCpFacts, UpFacts, RanFacts DEF Phoenix
<1>5. ASSUME RAN \/ PromFinish \/ Free5gc \/ Open5gs PROVE Legitimate
  BY <1>5, RanFacts, DeferredFacts, Free5gcFacts, Open5gsFacts
<1>6. CASE FinalSave
  BY <1>6, KeepsInvFinalSave
<1>7. CASE StartReady
  BY <1>7, KeepsInvLaunch DEF StartReady
<1>8. CASE UNCHANGED genVars
  <2>1. UNCHANGED buildVars /\ running' = running
    BY <1>8 DEF genVars
  <2> QED
    BY <2>1, KeepsInvLaunch
<1>9. CASE Legitimate
  BY <1>9, KeepsInv
<1> QED
  BY <1>1, <1>2, <1>3, <1>4, <1>5, <1>6, <1>7, <1>8, <1>9 DEF GenNext

LEMMA GenAlways == GenSpec => []GenInv
<1>1. GenInit => GenInv
  BY StartInv
<1>2. GenInv /\ [GenNext]_genVars => GenInv'
  BY StepInv
<1> QED
  BY <1>1, <1>2, PTL DEF GenSpec

\* Whatever the network and the providers, the Compose file is well-formed after every step of
\* the generator: a container is defined once, netifs are those of containers and networks that
\* exist, what has become a port is no netif of Docker any more.
THEOREM GeneratorTypes == GenSpec => []GenTypeOK
<1>1. GenInv => GenTypeOK
  BY InvPromises
<1> QED
  BY <1>1, GenAlways, PTL

\* Whoever is told where a peer that it talks to is on a network has a netif there itself,
\* whichever providers are combined (getIP() of compose/compose.ts does not look).
THEOREM AddressesExist == GenSpec => []Wired
<1>1. GenInv => Wired
  BY InvPromises
<1> QED
  BY <1>1, GenAlways, PTL

\* What scripts took for granted of ports, cores and assumed netifs is so in the file that is
\* saved, provided that only UPFs whose script is written in the end are taken over by a port.
THEOREM ScriptsAreUpToDate == ASSUME LatePorts PROVE GenSpec => []LateFresh
<1>1. GenInv => LateFresh
  BY InvPromises
<1> QED
  BY <1>1, GenAlways, PTL

\* Nobody who is defined later is missing from a list, from a QoS script or from what Prometheus
\* scrapes, provided that QoS rules are not about the Prometheus stack.
THEOREM ListsAreComplete == ASSUME QosAmongFunctions PROVE GenSpec => []NobodyOverlooked
<1>1. GenInv => NobodyOverlooked
  BY InvPromises
<1> QED
  BY <1>1, GenAlways, PTL

\* Each simulated UE is in the database of the control plane, with its keys and the Data Networks
\* that it requests, provided that subscribers request what they are subscribed to.
THEOREM UesAreProvisioned == ASSUME Requests PROVE GenSpec => []Provisioned
<1>1. GenInv => Provisioned
  BY InvPromises
<1> QED
  BY <1>1, GenAlways, PTL
-----------------------------------------------------------------------------
(* Virtual machines.                                                           *)

\* A step of the command of virt_base or of its successors vouches for base.qcow2.
BaseInv ==
  /\ baseDone \/ proc[Base] = "mark" => base = "complete"
  /\ proc[Base] = "completed" => baseDone

\* What a vmprep container has made of the disk at each of its steps; once vm.done is there it comes to
\* none of them.
DiskInv ==
  \A v \in VMs :
    /\ proc[Prep(v)] \in {"install", "sysprep", "mark", "check"} => baseDone
    /\ proc[Prep(v)] = "sysprep" => image[v] = "base"
    /\ proc[Prep(v)] = "mark" => image[v] = "ready"
    /\ proc[Prep(v)] = "completed" => vmDone[v]
    /\ vmDone[v] => image[v] = "ready" /\ proc[Prep(v)] \notin {"install", "sysprep", "mark"}

\* A guest starts after its disk was marked.
GuestInv ==
  \A v \in VMs :
    /\ proc[Vm(v)] \in {"none", "setup", "qemu", "completed", "failed"}
    /\ proc[Vm(v)] \in {"setup", "qemu"} => vmDone[v]

\* Without a reboot, the healthy file is there only while virt_sriov idles, and the Virtual Functions with
\* it, since virt_sriov has made them in the step before.
HealthInv ==
  /\ Sriov \in Cts /\ proc[Sriov] = "mark" => vfs
  /\ mark => Sriov \in Cts /\ proc[Sriov] = "idle" /\ vfs
  /\ health = "healthy" => mark
  /\ \A v \in SriovVMs : proc[Vm(v)] = "setup" => mark

IInv ==
  /\ TypeOK
  /\ BaseInv
  /\ DiskInv
  /\ GuestInv
  /\ reboots = 0 => HealthInv
-----------------------------------------------------------------------------
(* The containers.                                                           *)

VmSteps == {"none", "copy", "check", "build", "install", "sysprep", "mark", "setup", "idle", "qemu",
            "completed", "failed"}

\* No two containers are the same.
LEMMA NamesApart ==
  /\ Kern \in Cts /\ Base \in Cts /\ Kern # Base /\ Kern # Sriov /\ Base # Sriov
  /\ \A v \in VMs :
       /\ Prep(v) \in Cts /\ Prep(v) \notin {Kern, Base, Sriov}
       /\ Vm(v) \in Cts /\ Vm(v) \notin {Kern, Base, Sriov}
       /\ Vm(v) \in Guests /\ Prep(v) \notin Guests
       /\ \A w \in VMs : Prep(v) # Vm(w) /\ (Prep(v) = Prep(w) => v = w) /\ (Vm(v) = Vm(w) => v = w)
BY DEF Kern, Base, Sriov, Prep, Vm, Cts, Guests

\* Where their commands start.
LEMMA Entries ==
  /\ \A c \in Cts : Entry(c) \in {"copy", "check", "setup"}
  /\ Entry(Base) = "check" /\ Entry(Sriov) = "setup"
  /\ \A v \in VMs : Entry(Prep(v)) = "check" /\ Entry(Vm(v)) = "setup"
BY NamesApart DEF Entry, Kern, Base, Sriov, Prep, Vm, Cts, Guests

\* What they wait for.
LEMMA NeedsOf ==
  \A v \in VMs :
    /\ Base \in Needs(Prep(v))
    /\ Prep(v) \in Needs(Vm(v))
    /\ v \in SriovVMs => Sriov \in Needs(Vm(v))
BY NamesApart DEF Needs, VfNeeds, Kern, Base, Sriov, Prep, Vm

\* A guest with a Virtual Function makes the host have virt_sriov.
LEMMA SriovThere == \A v \in SriovVMs : Sriov \in Cts /\ v \in VMs
BY VmAssumption DEF Cts
-----------------------------------------------------------------------------
LEMMA InitIInv == Init => IInv
<1> SUFFICES ASSUME Init PROVE IInv
  OBVIOUS
<1> USE DEF Init
<1>1. TypeOK
  <2>1. ups \in 0 .. MaxUps /\ faults \in 0 .. MaxFaults /\ reboots \in 0 .. MaxReboots
    BY BoundsAssumption
  <2>2. QED BY <2>1 DEF TypeOK
<1>2. BaseInv /\ DiskInv /\ GuestInv
  BY NamesApart DEF BaseInv, DiskInv, GuestInv
<1>3. HealthInv
  BY NamesApart, SriovThere DEF HealthInv
<1>4. QED BY <1>1, <1>2, <1>3 DEF IInv

\* Every step keeps the types.
LEMMA TypeStep == TypeOK /\ [Next]_vars => TypeOK'
<1> SUFFICES ASSUME TypeOK, [Next]_vars PROVE TypeOK'
  OBVIOUS
<1> USE DEF TypeOK
<1>1. CASE UNCHANGED vars
  BY <1>1 DEF vars, volumes, functions, command
<1>2. CASE Up \/ Down
  <2>1. CASE Up
    <3>1. ups' \in 0 .. MaxUps
      BY <2>1, BoundsAssumption DEF Up
    <3>2. QED BY <2>1, <3>1 DEF Up, volumes, functions
  <2>2. CASE Down
    <3>1. vfs' \in BOOLEAN
      BY <2>2 DEF Down
    <3>2. QED BY <2>2, <3>1 DEF Down, volumes, command
  <2>3. QED BY <1>2, <2>1, <2>2
<1>3. CASE Progress
  <2>1. CASE UpEnds \/ UpFails
    BY <2>1 DEF UpEnds, UpFails, volumes, functions
  <2>2. ASSUME NEW c \in Cts, Start(c) PROVE TypeOK'
    <3>1. Entry(c) \in VmSteps \ {"qemu"}
      BY Entries DEF VmSteps
    <3>2. QED BY <2>2, <3>1 DEF Start, Goto, VmSteps, volumes
  <2>3. QED BY <1>3, <2>1, <2>2 DEF Progress
<1>4. CASE Work
  <2>1. CASE CopyKernel \/ CheckBase \/ BuildBase \/ MarkBase
    <3>1. CASE CopyKernel
      BY <3>1, NamesApart DEF CopyKernel, Goto, functions, command
    <3>2. CASE CheckBase
      BY <3>2, NamesApart DEF CheckBase, Goto, functions, command
    <3>3. CASE BuildBase
      BY <3>3, NamesApart DEF BuildBase, Goto, functions, command
    <3>4. CASE MarkBase
      BY <3>4, NamesApart DEF MarkBase, Goto, functions, command
    <3>5. QED BY <2>1, <3>1, <3>2, <3>3, <3>4
  <2>2. CASE CreateVfs \/ MarkHealthy \/ HealthCheck
    BY <2>2, NamesApart DEF CreateVfs, MarkHealthy, HealthCheck, Goto, volumes, command
  <2>3. ASSUME NEW v \in VMs, CheckImage(v) \/ InstallImage(v) \/ PrepareImage(v) \/ MarkImage(v)
        PROVE  TypeOK'
    <3>1. Prep(v) \in Cts
      BY NamesApart
    <3>2. CASE CheckImage(v)
      BY <3>1, <3>2 DEF CheckImage, Goto, functions, command
    <3>3. CASE InstallImage(v)
      BY <3>1, <3>3 DEF InstallImage, Goto, functions, command
    <3>4. CASE PrepareImage(v)
      BY <3>1, <3>4 DEF PrepareImage, Goto, functions, command
    <3>5. CASE MarkImage(v)
      BY <3>1, <3>5 DEF MarkImage, Goto, functions, command
    <3>6. QED BY <2>3, <3>2, <3>3, <3>4, <3>5
  <2>4. ASSUME NEW v \in VMs, Launch(v) PROVE TypeOK'
    BY <2>4, NamesApart DEF Launch, Goto, volumes, functions, command
  <2>5. QED BY <1>4, <2>1, <2>2, <2>3, <2>4 DEF Work
<1>5. CASE Trouble
  <2>0. Fault => faults' \in 0 .. MaxFaults
    BY BoundsAssumption DEF Fault
  <2>1. CASE Interrupt \/ HealthCheckFails \/ Reboot
    <3>1. CASE Interrupt
      BY <2>0, <3>1 DEF Interrupt, volumes, functions
    <3>2. CASE HealthCheckFails
      BY <2>0, <3>2 DEF HealthCheckFails, volumes, command
    <3>3. CASE Reboot
      <4>1. reboots' \in 0 .. MaxReboots
        BY <3>3, BoundsAssumption DEF Reboot
      <4>2. QED BY <3>3, <4>1 DEF Reboot, volumes
    <3>4. QED BY <2>1, <3>1, <3>2, <3>3
  <2>2. ASSUME NEW c \in Cts, Fail(c) PROVE TypeOK'
    <3>1. vfs' \in BOOLEAN
      BY <2>2 DEF Fail
    <3>2. proc' = [proc EXCEPT ![c] = "failed"] /\ Fault
      BY <2>2 DEF Fail, Goto
    <3>3. UNCHANGED <<volumes, mark, health, command, reboots>>
      BY <2>2 DEF Fail
    <3>4. QED BY <2>0, <3>1, <3>2, <3>3 DEF volumes, command
  <2>3. QED BY <1>5, <2>1, <2>2 DEF Trouble
<1>6. ASSUME NEW v \in VMs, Shutdown(v) PROVE TypeOK'
  BY <1>6, NamesApart DEF Shutdown, Goto, volumes, functions, command
<1>7. QED BY <1>1, <1>2, <1>3, <1>4, <1>5, <1>6 DEF Next

\* base.qcow2 and base.done, which the container virt_base alone writes.
LEMMA BaseStep == TypeOK /\ BaseInv /\ [Next]_vars => BaseInv'
<1> SUFFICES ASSUME TypeOK, BaseInv, [Next]_vars PROVE BaseInv'
  OBVIOUS
<1> USE DEF TypeOK, BaseInv
<1>1. CASE UNCHANGED vars
  BY <1>1 DEF vars, volumes
<1>2. CASE Up \/ Down
  <2>1. Base \in Cts
    BY NamesApart
  <2>2. UNCHANGED volumes /\ proc'[Base] \in {proc[Base], "none"}
    BY <1>2, <2>1 DEF Up, Down
  <2>3. QED BY <2>2 DEF volumes
<1>3. CASE Progress
  <2>1. CASE UpEnds \/ UpFails
    BY <2>1 DEF UpEnds, UpFails, volumes
  <2>2. ASSUME NEW c \in Cts, Start(c) PROVE BaseInv'
    BY <2>2, NamesApart, Entries DEF Start, Goto, volumes
  <2>3. QED BY <1>3, <2>1, <2>2 DEF Progress
<1>4. CASE Work
  <2>1. CASE CopyKernel \/ CheckBase \/ BuildBase \/ MarkBase
    BY <2>1, NamesApart DEF CopyKernel, CheckBase, BuildBase, MarkBase, Goto
  <2>2. CASE CreateVfs \/ MarkHealthy \/ HealthCheck
    BY <2>2, NamesApart DEF CreateVfs, MarkHealthy, HealthCheck, Goto, volumes
  <2>3. ASSUME NEW v \in VMs, CheckImage(v) \/ InstallImage(v) \/ PrepareImage(v) \/ MarkImage(v)
        PROVE  BaseInv'
    BY <2>3, NamesApart DEF CheckImage, InstallImage, PrepareImage, MarkImage, Goto
  <2>4. ASSUME NEW v \in VMs, Launch(v) PROVE BaseInv'
    BY <2>4, NamesApart DEF Launch, Goto, volumes
  <2>5. QED BY <1>4, <2>1, <2>2, <2>3, <2>4 DEF Work
<1>5. CASE Trouble
  <2>1. CASE Interrupt \/ HealthCheckFails \/ Reboot
    BY <2>1, NamesApart DEF Interrupt, HealthCheckFails, Reboot, volumes
  <2>2. ASSUME NEW c \in Cts, Fail(c) PROVE BaseInv'
    BY <2>2, NamesApart DEF Fail, Goto, volumes
  <2>3. QED BY <1>5, <2>1, <2>2 DEF Trouble
<1>6. ASSUME NEW v \in VMs, Shutdown(v) PROVE BaseInv'
  BY <1>6, NamesApart DEF Shutdown, Goto, volumes
<1>7. QED BY <1>1, <1>2, <1>3, <1>4, <1>5, <1>6 DEF Next

\* vm.qcow2 and vm.done of a guest, which its own vmprep container alone writes, and only over a finished
\* base image.
LEMMA DiskStep == TypeOK /\ BaseInv /\ DiskInv /\ [Next]_vars => DiskInv'
<1> SUFFICES ASSUME TypeOK, BaseInv, DiskInv, [Next]_vars PROVE DiskInv'
  OBVIOUS
<1> USE DEF TypeOK, DiskInv
<1>1. CASE UNCHANGED vars
  BY <1>1 DEF vars, volumes
<1>2. CASE Up \/ Down
  BY <1>2, NamesApart DEF Up, Down, volumes
<1>3. CASE Progress
  <2>1. CASE UpEnds \/ UpFails
    BY <2>1 DEF UpEnds, UpFails, volumes
  <2>2. ASSUME NEW c \in Cts, Start(c) PROVE DiskInv'
    <3>1. \A v \in VMs : c = Prep(v) => baseDone
      BY <2>2, NamesApart, NeedsOf DEF Start, Met, BaseInv
    <3>2. QED BY <2>2, <3>1, NamesApart, Entries DEF Start, Goto, volumes
  <2>3. QED BY <1>3, <2>1, <2>2 DEF Progress
<1>4. CASE Work
  <2>1. CASE CopyKernel \/ CheckBase \/ BuildBase \/ MarkBase
    BY <2>1, NamesApart DEF CopyKernel, CheckBase, BuildBase, MarkBase, Goto
  <2>2. CASE CreateVfs \/ MarkHealthy \/ HealthCheck
    BY <2>2, NamesApart DEF CreateVfs, MarkHealthy, HealthCheck, Goto, volumes
  <2>3. ASSUME NEW w \in VMs, CheckImage(w) PROVE DiskInv'
    BY <2>3, NamesApart DEF CheckImage, Goto
  <2>4. ASSUME NEW w \in VMs, InstallImage(w) PROVE DiskInv'
    BY <2>4, NamesApart DEF InstallImage, Goto, BaseInv
  <2>5. ASSUME NEW w \in VMs, PrepareImage(w) PROVE DiskInv'
    BY <2>5, NamesApart DEF PrepareImage, Goto
  <2>6. ASSUME NEW w \in VMs, MarkImage(w) PROVE DiskInv'
    BY <2>6, NamesApart DEF MarkImage, Goto
  <2>7. ASSUME NEW w \in VMs, Launch(w) PROVE DiskInv'
    BY <2>7, NamesApart DEF Launch, Goto, volumes
  <2>8. QED BY <1>4, <2>1, <2>2, <2>3, <2>4, <2>5, <2>6, <2>7 DEF Work
<1>5. CASE Trouble
  <2>1. CASE Interrupt \/ HealthCheckFails \/ Reboot
    BY <2>1, NamesApart DEF Interrupt, HealthCheckFails, Reboot, volumes
  <2>2. ASSUME NEW c \in Cts, Fail(c) PROVE DiskInv'
    BY <2>2, NamesApart DEF Fail, Goto, volumes
  <2>3. QED BY <1>5, <2>1, <2>2 DEF Trouble
<1>6. ASSUME NEW w \in VMs, Shutdown(w) PROVE DiskInv'
  BY <1>6, NamesApart DEF Shutdown, Goto, volumes
<1>7. QED BY <1>1, <1>2, <1>3, <1>4, <1>5, <1>6 DEF Next

\* A guest starts only when its vmprep container has completed.
LEMMA GuestStep == TypeOK /\ DiskInv /\ GuestInv /\ [Next]_vars => GuestInv'
<1> SUFFICES ASSUME TypeOK, DiskInv, GuestInv, [Next]_vars PROVE GuestInv'
  OBVIOUS
<1> USE DEF TypeOK, GuestInv
<1>1. CASE UNCHANGED vars
  BY <1>1 DEF vars, volumes
<1>2. CASE Up \/ Down
  BY <1>2, NamesApart DEF Up, Down, volumes
<1>3. CASE Progress
  <2>1. CASE UpEnds \/ UpFails
    BY <2>1 DEF UpEnds, UpFails, volumes
  <2>2. ASSUME NEW c \in Cts, Start(c) PROVE GuestInv'
    <3>1. \A v \in VMs : c = Vm(v) => proc[Prep(v)] = "completed"
      BY <2>2, NamesApart, NeedsOf DEF Start, Met
    <3>2. \A v \in VMs : c = Vm(v) => vmDone[v]
      BY <3>1 DEF DiskInv
    <3>3. QED BY <2>2, <3>2, NamesApart, Entries DEF Start, Goto, volumes
  <2>3. QED BY <1>3, <2>1, <2>2 DEF Progress
<1>4. CASE Work
  <2>1. CASE CopyKernel \/ CheckBase \/ BuildBase \/ MarkBase
    BY <2>1, NamesApart DEF CopyKernel, CheckBase, BuildBase, MarkBase, Goto
  <2>2. CASE CreateVfs \/ MarkHealthy \/ HealthCheck
    BY <2>2, NamesApart DEF CreateVfs, MarkHealthy, HealthCheck, Goto, volumes
  <2>3. ASSUME NEW v \in VMs, CheckImage(v) \/ InstallImage(v) \/ PrepareImage(v) \/ MarkImage(v)
        PROVE  GuestInv'
    BY <2>3, NamesApart DEF CheckImage, InstallImage, PrepareImage, MarkImage, Goto
  <2>4. ASSUME NEW v \in VMs, Launch(v) PROVE GuestInv'
    BY <2>4, NamesApart DEF Launch, Goto, volumes
  <2>5. QED BY <1>4, <2>1, <2>2, <2>3, <2>4 DEF Work
<1>5. CASE Trouble
  <2>1. CASE Interrupt \/ HealthCheckFails \/ Reboot
    BY <2>1, NamesApart DEF Interrupt, HealthCheckFails, Reboot, Running, Ended, volumes
  <2>2. ASSUME NEW c \in Cts, Fail(c) PROVE GuestInv'
    BY <2>2, NamesApart DEF Fail, Goto, volumes
  <2>3. QED BY <1>5, <2>1, <2>2 DEF Trouble
<1>6. ASSUME NEW v \in VMs, Shutdown(v) PROVE GuestInv'
  BY <1>6, NamesApart DEF Shutdown, Goto, volumes
<1>7. QED BY <1>1, <1>2, <1>3, <1>4, <1>5, <1>6 DEF Next

\* Unless the host is rebooted, virt_sriov idles from the moment it makes the healthy file until it is
\* removed together with the guests.
LEMMA HealthStep == TypeOK /\ GuestInv /\ (reboots = 0 => HealthInv) /\ [Next]_vars => (reboots = 0 => HealthInv)'
<1> SUFFICES ASSUME TypeOK, GuestInv, HealthInv, reboots = 0, [Next]_vars, reboots' = 0 PROVE HealthInv'
  <2>1. ASSUME [Next]_vars PROVE UNCHANGED reboots \/ Reboot
    BY <2>1 DEF Next, vars, Up, Down, Progress, UpEnds, UpFails, Start, Work, CopyKernel,
       CheckBase, BuildBase, MarkBase, CreateVfs, MarkHealthy, HealthCheck, CheckImage, InstallImage,
       PrepareImage, MarkImage, Launch, Trouble, Interrupt, HealthCheckFails, Fail, Shutdown
  <2>2. ASSUME TypeOK, Reboot PROVE reboots' # 0
    BY <2>2, BoundsAssumption DEF TypeOK, Reboot
  <2>3. QED BY <2>1, <2>2
<1> USE DEF TypeOK, HealthInv
<1>1. CASE UNCHANGED vars
  BY <1>1 DEF vars, functions
<1>2. CASE Up \/ Down
  <2>1. CASE Up
    BY <2>1 DEF Up, functions
  <2>2. CASE Down
    <3>1. \A v \in SriovVMs : proc'[Vm(v)] = "none"
      BY <2>2, NamesApart, SriovThere DEF Down
    <3>2. ~mark' /\ health' # "healthy" /\ (Sriov \in Cts => proc'[Sriov] = "none")
      BY <2>2 DEF Down
    <3>3. QED BY <3>1, <3>2
  <2>3. QED BY <1>2, <2>1, <2>2
<1>3. CASE Progress
  <2>1. CASE UpEnds \/ UpFails
    BY <2>1 DEF UpEnds, UpFails, functions
  <2>2. ASSUME NEW c \in Cts, Start(c) PROVE HealthInv'
    <3>1. \A v \in SriovVMs : c = Vm(v) => mark
      BY <2>2, NeedsOf, SriovThere DEF Start, Met
    <3>2. c = Sriov => ~mark \/ Running(c)
      BY DEF Running, Ended
    <3>3. QED BY <2>2, <3>1, <3>2, NamesApart, Entries, SriovThere DEF Start, Goto
  <2>3. QED BY <1>3, <2>1, <2>2 DEF Progress
<1>4. CASE Work
  <2>1. CASE CopyKernel \/ CheckBase \/ BuildBase \/ MarkBase
    BY <2>1, NamesApart, SriovThere DEF CopyKernel, CheckBase, BuildBase, MarkBase, Goto, functions
  <2>2. CASE CreateVfs \/ MarkHealthy \/ HealthCheck
    <3>1. CASE CreateVfs
      BY <3>1, NamesApart, SriovThere DEF CreateVfs, Goto
    <3>2. CASE MarkHealthy
      <4>1. Sriov \in Cts /\ proc' = [proc EXCEPT ![Sriov] = "idle"] /\ mark'
        BY <3>2 DEF MarkHealthy, Goto
      <4>2. vfs'
        BY <3>2 DEF MarkHealthy
      <4>3. QED BY <4>1, <4>2
    <3>3. CASE HealthCheck
      BY <3>3 DEF HealthCheck
    <3>4. QED BY <2>2, <3>1, <3>2, <3>3
  <2>3. ASSUME NEW v \in VMs, CheckImage(v) \/ InstallImage(v) \/ PrepareImage(v) \/ MarkImage(v)
        PROVE  HealthInv'
    BY <2>3, NamesApart, SriovThere DEF CheckImage, InstallImage, PrepareImage, MarkImage, Goto, functions
  <2>4. ASSUME NEW v \in VMs, Launch(v) PROVE HealthInv'
    BY <2>4, NamesApart, SriovThere DEF Launch, Goto, functions
  <2>5. QED BY <1>4, <2>1, <2>2, <2>3, <2>4 DEF Work
<1>5. CASE Trouble
  <2>1. CASE Interrupt \/ HealthCheckFails
    BY <2>1 DEF Interrupt, HealthCheckFails, functions
  <2>2. ASSUME NEW c \in Cts, Fail(c) PROVE HealthInv'
    BY <2>2, NamesApart, SriovThere DEF Fail, Goto
  <2>3. CASE Reboot
    BY <2>3 DEF Reboot
  <2>4. QED BY <1>5, <2>1, <2>2, <2>3 DEF Trouble
<1>6. ASSUME NEW v \in VMs, Shutdown(v) PROVE HealthInv'
  BY <1>6, NamesApart, SriovThere DEF Shutdown, Goto, functions
<1>7. QED BY <1>1, <1>2, <1>3, <1>4, <1>5, <1>6 DEF Next

LEMMA Invariance == Spec => []IInv
<1>1. IInv /\ [Next]_vars => IInv'
  BY TypeStep, BaseStep, DiskStep, GuestStep, HealthStep DEF IInv
<1>2. QED BY InitIInv, <1>1, PTL DEF Spec
-----------------------------------------------------------------------------
\* Every container is at a step of its command, and the files are what the steps make.
THEOREM TypeCorrect == Spec => []TypeOK
<1>1. IInv => TypeOK
  BY DEF IInv
<1>2. QED BY Invariance, <1>1, PTL

\* No guest boots from a disk that is missing or half-built.
THEOREM DisksAreReady == Spec => []ImageReady
<1>1. IInv => ImageReady
  BY DEF IInv, DiskInv, GuestInv, ImageReady
<1>2. QED BY Invariance, <1>1, PTL

\* No build step writes the disk of a guest that has started.
THEOREM DisksAreKept == Spec => ImageKept
<1>1. ASSUME IInv, [Next]_vars, NEW v \in VMs, Running(Vm(v))
      PROVE  vmDone[v] /\ image'[v] = image[v]
  <2>1. vmDone[v]
    BY <1>1 DEF IInv, GuestInv, Running, Ended
  <2>2. \A w \in VMs : CheckImage(w) \/ InstallImage(w) \/ PrepareImage(w) => image'[v] = image[v]
    BY <1>1, <2>1 DEF IInv, TypeOK, DiskInv, CheckImage, InstallImage, PrepareImage
  <2>3. UNCHANGED image \/ \E w \in VMs : CheckImage(w) \/ InstallImage(w) \/ PrepareImage(w)
    BY <1>1 DEF Next, vars, Up, Down, Progress, UpEnds, UpFails, Start, Work, CopyKernel,
       CheckBase, BuildBase, MarkBase, CreateVfs, MarkHealthy, HealthCheck,
       MarkImage, Launch, Trouble, Interrupt, HealthCheckFails, Reboot, Fail, Shutdown, volumes
  <2>4. QED BY <2>1, <2>2, <2>3
<1>2. IInv /\ [Next]_vars => [\A v \in VMs : Running(Vm(v)) => vmDone[v] /\ image'[v] = image[v]]_vars
  BY <1>1
<1>3. QED BY Invariance, <1>2, PTL DEF Spec, ImageKept

\* Until the host is rebooted, a guest starts with its Virtual Functions.
THEOREM FunctionsAreThere == Spec => []VfsUntilReboot
<1>1. IInv => VfsUntilReboot
  BY DEF IInv, HealthInv, VfsUntilReboot, VfsReady
<1>2. QED BY Invariance, <1>1, PTL
=============================================================================
