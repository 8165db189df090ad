------------------------------ MODULE MCDeploy ------------------------------
(* Two hosts; an SMF that pings its UPF and connects to an NRF before it      *)
(* launches.  The UPF, on the second host, needs the gtp5g kernel module, and *)
(* the N4 network is made of Ethernet ports.                                 *)
EXTENDS Deploy

CONSTANTS h1, h2, bridge, gtp5g, upf, smf, nrf, n4, cp

MCContainers == {bridge, gtp5g, upf, smf, nrf}
MCHostOrder == <<h1, h2>>
MCEveryHost == {bridge, gtp5g}
MCPlacedOn == [c \in {upf, smf, nrf} |-> IF c = smf THEN h1 ELSE h2]
MCDependsOn == [c \in Containers |-> IF c = upf THEN {gtp5g} ELSE {}]
MCAttached == [n \in {n4, cp} |-> IF n = n4 THEN {smf, upf} ELSE {smf, nrf}]
MCReaches == [c \in Containers |-> IF c = smf THEN {<<upf, n4>>} ELSE {}]
MCConnects == [c \in Containers |-> IF c = smf THEN {nrf} ELSE {}]

\* A port that is set up by hand, patterns that overlap, and one network in two flags.
MCFlags ==
  <<[net |-> n4, params |-> <<[op |-> "~", match |-> <<upf>>],
                              [op |-> "=", match |-> <<smf, upf>>]>>],
    [net |-> n4, params |-> <<[op |-> "@", match |-> <<smf>>]>>]>>
=============================================================================
