----------------------------- MODULE MCIPAlloc -----------------------------
(* A /24 of six addresses, .2 to .4 for containers, two networks, and an     *)
(* address space that holds one /24 only: both kinds of number run out.     *)
EXTENDS IPAlloc, TLC

MCIps   == {0 * Octet + 1, 1 * Octet + 3, 2 * Octet + 3, 5 * Octet + 4}
MCEntry == Nets \X Hosts \X MCIps

\* No fixed address, one, or two that may agree or conflict in either half.
MCFixedLists == {<<>>} \cup {<<e>> : e \in MCEntry} \cup {<<e, f>> : e, f \in MCEntry}

\* One fixed address at the end of the subnet, .5 or .6 (.254 and .255 in the code).
MCFixedAtEnd == {<<e>> : e \in Nets \X Hosts \X {Octet + LastHost, Octet + LastHost + 1}}

Symmetry == Permutations(Nets) \cup Permutations(Hosts)
=============================================================================
