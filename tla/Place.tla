------------------------------- MODULE Place -------------------------------
(***************************************************************************)
(* Placement of containers onto hosts and of CPU cores onto containers     *)
(* (compose/place.ts).  place() goes through the --place rules in order;   *)
(* a rule takes the containers that its pattern matches and no earlier     *)
(* rule took, and shares its cpuset out among them (AssignCpuset).         *)
(***************************************************************************)
EXTENDS Integers, Sequences, SequencesExt, FiniteSets, FiniteSetsExt, Lists

CONSTANTS
  Services,   \* container names
  Order,      \* the containers in the order of the Compose file
  EveryHost,  \* containers annotated every_host
  Hosts,      \* hosts named in the rules
  Primary,    \* "", the primary host
  NoHost,     \* no host annotation
  CpuCounts,  \* values of the cpus annotation considered, 0 for none
  Inputs      \* calls of place() considered: the rules [match, host, cpuset], whether
              \* place-match-host is on, and the host annotations from before

ASSUME NamesAssumption ==
  /\ Primary # NoHost
  /\ EveryHost \subseteq Services
  /\ Order \in Seq(Services)
  /\ IsInjective(Order)

ASSUME RulesAssumption ==
  /\ CpuCounts \subseteq Nat
  /\ Inputs \subseteq
       [rules : Seq([match : SUBSET Services, host : Hosts \cup {Primary}, cpuset : Seq(Nat)]),
        matchHost : BOOLEAN,
        host : [Services -> Hosts \cup {Primary, NoHost}]]

VARIABLES
  cpus,          \* the cpus annotation of each container
  rules,         \* opts.place; an empty cpuset is a rule without one
  matchHost,     \* opts["place-match-host"]
  pc,            \* where place() is
  rule,          \* the rule it is at
  services,      \* containers that no rule has taken yet
  next,          \* the position in services of the loop over them
  group,         \* AssignCpuset.services: those the rule has taken
  wantShared, wantDedicated,
  avail,         \* cores the rule has left
  shared,        \* the shared cores of the rule, <<>> if not designated
  host,          \* host annotation
  cpuset,        \* s.cpuset
  warned,        \* containers annotated cpuset_warning
  takenBy        \* which rule took a container, 0 if none did (history)

wants == <<wantShared, wantDedicated>>
opts == <<rules, matchHost>>
vars == <<cpus, opts, pc, rule, services, next, group, wants, avail, shared,
          host, cpuset, warned, takenBy>>

RuleLists == {i.rules : i \in Inputs}

Cores(q) == {q[j] : j \in DOMAIN q}
Smaller(a, b) == IF a < b THEN a ELSE b

\* The rule at hand.
Rule == rules[rule]
-----------------------------------------------------------------------------
\* Containers that run on every host are not told apart.
Placeable_All == Order

\* The containers that the rules are about, in order.
Placeable == Kept(Order, Services \ EveryHost)

Init ==
  /\ cpus \in [Services -> CpuCounts]
  /\ \E i \in Inputs :
       /\ rules = i.rules
       /\ matchHost = i.matchHost
       /\ host = i.host
  /\ pc = IF rules = <<>> THEN "done" ELSE "rule"
  /\ rule = 1
  /\ services = Placeable
  /\ next = 1
  /\ group = <<>>
  /\ wantShared = FALSE
  /\ wantDedicated = 0
  /\ avail = <<>>
  /\ shared = <<>>
  /\ cpuset = [s \in Services |-> <<>>]
  /\ warned = {}
  /\ takenBy = [s \in Services |-> 0]

\* A rule begins: a new AssignCpuset.
BeginRule ==
  /\ pc = "rule"
  /\ rule <= Len(rules)
  /\ pc' = "match"
  /\ next' = 1
  /\ group' = <<>>
  /\ wantShared' = FALSE
  /\ wantDedicated' = 0
  /\ avail' = Rule.cpuset
  /\ shared' = <<>>
  /\ UNCHANGED <<cpus, opts, rule, services, host, cpuset, warned, takenBy>>

Matches(s) == s \in Rule.match /\ (matchHost => host[s] = Rule.host)

\* One round of the loop over the services.  The container that matches leaves the
\* map, and is prepared if the rule has a cpuset.
MatchService ==
  /\ pc = "match"
  /\ next <= Len(services)
  /\ LET s == services[next] IN
     \/ /\ ~Matches(s)
        /\ next' = next + 1
        /\ UNCHANGED <<services, group, wants, host, takenBy>>
     \/ /\ Matches(s)
        /\ services' = RemoveAt(services, next)
        /\ host' = [host EXCEPT ![s] = Rule.host]
        /\ takenBy' = [takenBy EXCEPT ![s] = rule]
        /\ group' = Append(group, s)
        /\ wantShared' = (wantShared \/ cpus[s] = 0)
        /\ wantDedicated' = wantDedicated + cpus[s]
        /\ UNCHANGED next
  /\ UNCHANGED <<cpus, opts, pc, rule, avail, shared, cpuset, warned>>

\* update() designates shared cores only for those that ask for none.
NeedShared_NotShort == wantShared

NeedShared == wantShared \/ wantDedicated > Len(avail)

\* The first half of update(): designate the shared cores.
Update ==
  /\ pc = "match"
  /\ next > Len(services)
  /\ \/ /\ Rule.cpuset = <<>>
        /\ pc' = "rule"
        /\ rule' = rule + 1
        /\ UNCHANGED <<avail, shared>>
     \/ /\ Rule.cpuset # <<>>
        /\ LET n == IF NeedShared THEN Smaller(2, Len(avail)) ELSE 0 IN
           /\ shared' = SubSeq(avail, 1, n)
           /\ avail' = SubSeq(avail, n + 1, Len(avail))
        /\ pc' = "assign"
        /\ UNCHANGED rule
  /\ UNCHANGED <<cpus, opts, services, next, group, wants, host, cpuset, warned, takenBy>>

\* The cores that alloc(n) leaves.
Left(n) == SubSeq(avail, n + 1, Len(avail))

Short(n) == n > Len(avail)

\* The second half of update(), for one container of the group.
AssignService ==
  /\ pc = "assign"
  /\ group # <<>>
  /\ LET s == Head(group)
         n == cpus[s]
     IN \/ /\ n = 0
           /\ cpuset' = [cpuset EXCEPT ![s] = shared]
           /\ UNCHANGED <<avail, warned>>
        \/ /\ n # 0
           /\ Short(n)
           /\ cpuset' = [cpuset EXCEPT ![s] = shared]
           /\ warned' = warned \cup {s}
           /\ UNCHANGED avail
        \/ /\ n # 0
           /\ ~Short(n)
           /\ cpuset' = [cpuset EXCEPT ![s] = SubSeq(avail, 1, n)]
           /\ avail' = Left(n)
           /\ UNCHANGED warned
  /\ group' = Tail(group)
  /\ UNCHANGED <<cpus, opts, pc, rule, services, next, wants, shared, host, takenBy>>

EndRule ==
  /\ pc = "assign"
  /\ group = <<>>
  /\ pc' = "rule"
  /\ rule' = rule + 1
  /\ UNCHANGED <<cpus, opts, services, next, group, wants, avail, shared, host,
                 cpuset, warned, takenBy>>

\* Containers that no rule took are not annotated.
Defaults_None == host

Defaults == [s \in Services |-> IF s \in Cores(services) THEN Primary ELSE host[s]]

\* After the last rule, the containers that are left go to the primary host.
PlaceRest ==
  /\ pc = "rule"
  /\ rule > Len(rules)
  /\ pc' = "done"
  /\ host' = IF matchHost THEN host ELSE Defaults
  /\ UNCHANGED <<cpus, opts, rule, services, next, group, wants, avail, shared,
                 cpuset, warned, takenBy>>

Next == \/ BeginRule \/ MatchService \/ Update \/ AssignService \/ EndRule \/ PlaceRest

Spec == Init /\ [][Next]_vars
-----------------------------------------------------------------------------
TypeOK ==
  /\ cpus \in [Services -> CpuCounts]
  /\ rules \in RuleLists
  /\ matchHost \in BOOLEAN
  /\ pc \in {"rule", "match", "assign", "done"}
  /\ rule \in 1 .. Len(rules) + 1
  /\ services \in Seq(Services \ EveryHost)
  /\ next \in 1 .. Len(services) + 1
  /\ group \in Seq(Services \ EveryHost)
  /\ wantShared \in BOOLEAN
  /\ wantDedicated \in Nat
  /\ avail \in Seq(Nat)
  /\ shared \in Seq(Nat)
  /\ host \in [Services -> Hosts \cup {Primary, NoHost}]
  /\ cpuset \in [Services -> Seq(Nat)]
  /\ warned \subseteq Services
  /\ takenBy \in [Services -> 0 .. Len(rules)]

\* The containers that rule r took, and those among them that update() is through with.
Taken(r)    == {s \in Services : takenBy[s] = r}
Assigned(r) == IF r = rule THEN Taken(r) \ Cores(group) ELSE Taken(r)

\* A container has dedicated cores: it asked for some and was not warned.
Dedicated(s) == cpus[s] > 0 /\ s \notin warned

\* What is left of the promises in docs/multi-host.md, "CPU Isolation", is about rules
\* with a cpuset once update() has dealt with them.
CpuRules == {r \in 1 .. Len(rules) : rules[r].cpuset # <<>> /\ (r < rule \/ pc = "assign")}

\* Dedicated cores belong to one container only: nobody else in the group runs on
\* them, neither on dedicated nor on shared cores.
DedicatedApart ==
  \A r \in CpuRules : \A s, t \in Assigned(r) :
    s # t /\ Dedicated(s) => Cores(cpuset[s]) \cap Cores(cpuset[t]) = {}

\* Every container the rule took ends up with cores of the rule's cpuset, with as many
\* as it asked for unless it was warned: no path leaves the cpuset undefined.  "The first
\* two cores in the cpuset are designated as shared": they go to those that ask for no
\* cores and to those that were warned, and nothing else is shared.
EveryoneHasCores ==
  \A r \in CpuRules : \A s \in Assigned(r) :
    /\ cpuset[s] # <<>>
    /\ Cores(cpuset[s]) \subseteq Cores(rules[r].cpuset)
    /\ IF Dedicated(s)
       THEN Len(cpuset[s]) = cpus[s]
       ELSE cpuset[s] = SubSeq(rules[r].cpuset, 1, Smaller(2, Len(rules[r].cpuset)))

\* The cores that containers ask for, one by one.
Requests(S) == UNION {{s} \X (1 .. cpus[s]) : s \in S}

\* "When every network function matched in a --place flag is requesting dedicated
\* cores and there are sufficient number of cores [...] they will all receive
\* dedicated cores."
EnoughForAll ==
  \A r \in CpuRules :
    /\ r < rule
    /\ \A s \in Taken(r) : cpus[s] > 0
    /\ Cardinality(Requests(Taken(r))) <= Len(rules[r].cpuset)
    => Taken(r) \cap warned = {}

\* "Requests for dedicated cores are satisfied as much as possible": when a rule is
\* through, the cores it has left over satisfy nobody it warned.
WarnedForReason ==
  pc = "assign" /\ group = <<>> =>
    \A s \in Taken(rule) \cap warned : cpus[s] > Len(avail)

\* docs/multi-host.md, "CPU Isolation", of every rule: dedicated cores are dedicated, nobody is without cores,
\* and nobody is turned down while there is enough.
CpuIsolation == DedicatedApart /\ EveryoneHasCores /\ EnoughForAll /\ WarnedForReason

\* "They are matched in the order they are specified.  If a container name does not
\* match any pattern, it stays on the primary host."  A container that runs on every
\* host is left alone; with place-match-host only the rules of its host count.
Matching(s) ==
  {r \in 1 .. Len(rules) : s \in rules[r].match /\ (matchHost => host[s] = rules[r].host)}

FirstRuleWins ==
  pc = "done" /\ rules # <<>> =>
    \A s \in Cores(Order) :
      IF s \in EveryHost THEN takenBy[s] = 0
      ELSE IF Matching(s) = {} THEN takenBy[s] = 0 /\ (matchHost \/ host[s] = Primary)
      ELSE /\ takenBy[s] = Min(Matching(s))
           /\ host[s] = rules[takenBy[s]].host
=============================================================================
