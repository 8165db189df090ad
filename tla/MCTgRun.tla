------------------------------ MODULE MCTgRun ------------------------------
(* Two flows: a server and a client on either host, next to each other and    *)
(* across.                                                                    *)
EXTENDS TgRun

CONSTANTS h1, h2, s1, s2, c1, c2

MCHostOrder == <<h1, h2>>
MCCtOrder == <<s1, c1, s2, c2>>
MCHostOf == [ct \in {s1, s2, c1, c2} |-> IF ct \in {s1, c2} THEN h1 ELSE h2]
=============================================================================
