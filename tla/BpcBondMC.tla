----------------------------- MODULE BpcBondMC -----------------------------
(* All the lists of up to MaxVariables variables, for the three rules. *)
EXTENDS BpcBond

MCBondRules == {NoBond, PyBond, CppBond}
=============================================================================
