------------------------------- MODULE Lists -------------------------------
(* Sequences that are filtered.  SelectSeq is built into the prover, which   *)
(* knows nothing about it; this one comes with lemmas, in ListProofs.        *)
EXTENDS Integers, Sequences

\* Array.prototype.filter(): the elements of a sequence that are in a set, in their order.
Kept(s, S) ==
  LET kept[k \in 0 .. Len(s)] ==
        IF k = 0 THEN <<>>
        ELSE IF s[k] \in S THEN Append(kept[k - 1], s[k]) ELSE kept[k - 1]
  IN  kept[Len(s)]
=============================================================================
