-------------------------- MODULE MCGenerationSwitch --------------------------
(* Small instance of GenerationSwitch for TLC. *)
EXTENDS GenerationSwitch, TLC
CONSTANTS r1, r2, g1, g2

MCRun == {r1, r2}
MCFenced == {r1}
MCGen == {g1, g2}
MCFirst == g1
==============================================================================
