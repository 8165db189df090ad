------------------------------ MODULE MCPlace ------------------------------
(* Three containers that ask for up to two cores, and one on every host.     *)
(* Two rules: any patterns, cpusets of one to five cores or none.            *)
EXTENDS Place

CONSTANTS a, b, d, bridge, h1

MCOrder == <<a, bridge, b, d>>

MCCpusets == {<<>>, <<4>>, <<4, 8, 9>>, <<0, 1, 2, 3, 5>>}

MCRules == [match : SUBSET {a, b, d} \cup {Services}, host : {h1}, cpuset : MCCpusets]

MCRuleLists == {<<>>} \cup {<<q>> : q \in MCRules}
               \cup {<<q, r>> : q \in {x \in MCRules : b \in x.match},
                                r \in {x \in MCRules : x.match = Services}}

\* The traffic generators: every container has a host already.
MCMatchLists ==
  {<<q, r>> : q \in [match : {{a, b}}, host : {h1, Primary}, cpuset : {<<>>, <<4, 8, 9>>}],
              r \in [match : {Services}, host : {h1, Primary}, cpuset : {<<4>>}]}

MCInputs ==
  [rules : MCRuleLists, matchHost : {FALSE}, host : {[s \in Services |-> NoHost]}]
  \cup [rules : MCMatchLists, matchHost : {TRUE}, host : {p \in [Services -> {h1, Primary}] : p[bridge] = h1}]
=============================================================================
