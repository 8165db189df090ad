------------------------------ MODULE MCVxlan ------------------------------
(* Three machines in a star of network n3 and a chain of two IP sets of n4.  *)
(* VNIs of the two networks, and of the two IP sets, only differ in the term *)
(* for the flag and in that for the IP set.  No container of m1 is on n4, so *)
(* its script waits forever when it comes to the second IP set of n4.        *)
EXTENDS Vxlan, TLC

CONSTANTS m1, m2, m3, a1, a2, a3, n3, n4

MCMachineOf == a1 :> m1 @@ a2 :> m2 @@ a3 :> m3

MCFlags == << [net |-> n3, ipsets |-> << <<a1, a2, a3>> >>],
              [net |-> n4, ipsets |-> << <<a3, a2>>, <<a1, a3>> >>] >>

MCAttached == (Machines \X Nets) \ {<<m1, n4>>}

\* Bound: on one machine at a time the script is being stopped, or was killed and
\* may have left something.  (No temporal property is checked under it.)
OneDisturbed == Cardinality({h \in Machines : stopping[h] \/ unclean[h]}) <= 1
=============================================================================
