---------------------------- MODULE MCCallBooking ----------------------------
(***************************************************************************)
(* CallBooking with two handlers, which are alike, and two times to meet.  *)
(***************************************************************************)
EXTENDS CallBooking, TLC

CONSTANTS p1, p2

Sym == Permutations({p1, p2})
=============================================================================
