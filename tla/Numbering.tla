----------------------------- MODULE Numbering -----------------------------
(***************************************************************************)
(* What an address allocator promises to the rest of the generator, with   *)
(* no mention of how it finds a number: names acquire numbers, no number   *)
(* belongs to two names, and a name never loses or changes its number.     *)
(* Configuration files are written while allocation is still going on, so  *)
(* a number that moved would leave a stale address in a file on disk.      *)
(***************************************************************************)
EXTENDS Integers

CONSTANTS Key,     \* the names
          Unset    \* the number of a name that has none yet

VARIABLE owner     \* [Key -> number or Unset]

Injective(f) ==
  \A j, k \in Key : f[j] # Unset /\ f[j] = f[k] => j = k

Init == Injective(owner)

\* Some names acquire numbers; those that have one keep it.
Claim ==
  /\ \A k \in Key : owner[k] # Unset => owner'[k] = owner[k]
  /\ Injective(owner')

Spec == Init /\ [][Claim]_owner
=============================================================================
