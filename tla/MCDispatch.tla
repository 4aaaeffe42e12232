----------------------------- MODULE MCDispatch -----------------------------
(* Small instances of Dispatch. *)
EXTENDS Dispatch, TLC

CONSTANTS d1, d2, d3, s1, s2

Sym3 == Permutations({d1, d2, d3})

=============================================================================
