----------------------------- MODULE AtomicSwitch -----------------------------
(***************************************************************************)
(* What installing a generation promises: one switch is open at a time, and *)
(* when it closes every resource serves the generation it served before, or *)
(* every resource serves the one the switch was opened for.                 *)
(***************************************************************************)
CONSTANTS Gen, NoGen, Resource

VARIABLES serving, \* what each resource serves while no switch is open
          open     \* the target of the open switch, or NoGen

All(g) == [res \in Resource |-> g]

Init == serving \in {All(g) : g \in Gen} /\ open = NoGen

Open == /\ open = NoGen
        /\ open' \in Gen
        /\ UNCHANGED serving

Close == /\ open # NoGen
         /\ serving' \in {serving, All(open)}
         /\ open' = NoGen

Next == Open \/ Close

Spec == Init /\ [][Next]_<<serving, open>>
==============================================================================
