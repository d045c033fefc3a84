----------------------------- MODULE MCCallMoney -----------------------------
(***************************************************************************)
(* CallMoney on small instances: handlers p1 and p2, minted ids m1 and m2. *)
(* Handlers are alike, so their permutations are a symmetry; the liveness  *)
(* runs do without it.                                                     *)
(***************************************************************************)
EXTENDS CallMoney, TLC

CONSTANTS p1, p2, m1, m2

Sym == Permutations({p1, p2})
=============================================================================
