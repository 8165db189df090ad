--------------------------- MODULE MCDeployHelpers ---------------------------
(* Two hosts and a UPF of omec/upf.ts: the container upf1, and upfpfcp1 in its  *)
(* network namespace, which depends on it (network_mode "service:upf1").  The  *)
(* placement +(upf1)@h2 *@h1, in the form of scenario/20231017/README.md, has  *)
(* only the first of them in its first pattern.                               *)
EXTENDS Deploy

CONSTANTS h1, h2, bridge, upf1, upfpfcp1, smf, n4

MCContainers == {bridge, upf1, upfpfcp1, smf}
MCHostOrder == <<h1, h2>>
MCPlacedOn == [c \in {upf1, upfpfcp1, smf} |-> IF c = upf1 THEN h2 ELSE h1]
MCDependsOn == [c \in Containers |-> IF c = upfpfcp1 THEN {upf1} ELSE {}]
MCAttached == [n \in {n4} |-> {smf, upf1}]
MCReaches == [c \in Containers |-> IF c = smf THEN {<<upf1, n4>>} ELSE {}]
MCConnects == [c \in Containers |-> {}]
MCFlags == <<[net |-> n4, params |-> <<[op |-> "=", match |-> <<smf, upf1>>]>>]>>
=============================================================================
