----------------------------- MODULE MCGrantFlow -----------------------------
(* Calls and their actions for the runs over GrantFlow. *)
EXTENDS GrantFlow, TLC

CONSTANTS k1, k2, k3, a1

MCCalls == {k1, k2, k3}
MCActionOf == [k \in MCCalls |-> a1]

\* The calls are alike.
Alike == Permutations(MCCalls)
=============================================================================
