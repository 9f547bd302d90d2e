---------------------------- MODULE BpcBondRules ----------------------------
(***************************************************************************)
(* How the back ends see the variables of a struct or msg (bpc_code_gen.c):*)
(* each has one of twelve types, and runs of consecutive variables whose   *)
(* types a language can copy together are bonded into one group.           *)
(***************************************************************************)
EXTENDS Integers, Sequences

\* BPCGEN_VARTYPE: how many elements, and what one element is.
Arities  == {"single", "static", "dynamic"}
Elements == {"primitive", "string", "narrow", "natural"}
VarTypes == Arities \X Elements

\* The bond rules of the languages.
NoBond  == {}
PyBond  == {<<"single", "primitive">>}
CppBond == {"single", "static"} \X {"primitive", "natural"}

\* A group is the variables first..first+len-1.
Group(bonded, first, len) == [is_bonded |-> bonded, first |-> first, len |-> len]

\* How many variables from position i on match the rules without a gap.
RunLength(types, rules, i) ==
  CHOOSE n \in 0..Len(types) - i + 1 :
    /\ \A j \in i..i + n - 1 : types[j] \in rules
    /\ i + n > Len(types) \/ types[i + n] \notin rules

\* Mutant: a run is cut after two variables.
PairsOnly(types, rules, i) ==
  LET n == RunLength(types, rules, i)
  IN  IF n = 0 THEN Group(FALSE, i, 1) ELSE Group(TRUE, i, IF n > 2 THEN 2 ELSE n)

\* building_bond_vars from position i: the whole run that starts there, or
\* the one variable that matches nothing.
GroupAt(types, rules, i) ==
  LET n == RunLength(types, rules, i)
  IN  IF n = 0 THEN Group(FALSE, i, 1) ELSE Group(TRUE, i, n)

\* bpcgen_constructor_bond_vars.
BondVars(types, rules) ==
  LET from[i \in 1..Len(types) + 1] ==
        IF i > Len(types) THEN <<>>
        ELSE LET g == GroupAt(types, rules, i) IN <<g>> \o from[i + g.len]
  IN  from[1]
=============================================================================
