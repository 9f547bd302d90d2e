------------------------------ MODULE BpcBond ------------------------------
(***************************************************************************)
(* bpcgen_constructor_bond_vars and its building_bond_vars as the loops    *)
(* they are: the inner one counts the variables that match, the outer one  *)
(* appends a group and goes on behind it.                                  *)
(***************************************************************************)
EXTENDS BpcBondRules

CONSTANTS
  MaxVariables,    \* bound: variables of the struct or msg
  BondRules        \* the rules the back ends pass

ASSUME BondAssumption ==
  MaxVariables \in Nat /\ BondRules \subseteq SUBSET VarTypes

VARIABLES
  types,     \* the types of the variables
  rules,     \* in_bond_rules
  first,     \* position of in_variables
  counter,   \* variables matched so far
  groups,    \* the list built so far
  returned   \* whether the constructor has returned

bondVars == <<types, rules, first, counter, groups, returned>>

BondInit ==
  /\ types \in UNION {[1..n -> VarTypes] : n \in 0..MaxVariables}
  /\ rules \in BondRules
  /\ first = 1 /\ counter = 0 /\ groups = <<>> /\ returned = FALSE
-----------------------------------------------------------------------------
Cursor == first + counter

Matches == Cursor <= Len(types) /\ types[Cursor] \in rules

\* One more variable matches the rules.
Match ==
  /\ Matches
  /\ counter' = counter + 1
  /\ UNCHANGED <<types, rules, first, groups, returned>>

\* Nothing matched: the variable makes a group of its own.
TakeSingle ==
  /\ first <= Len(types) /\ ~Matches /\ counter = 0
  /\ groups' = Append(groups, Group(FALSE, first, 1))
  /\ first' = first + 1
  /\ UNCHANGED <<types, rules, counter, returned>>

\* Mutant: a run is taken before it has ended.
TakeRunEarly ==
  /\ counter > 0
  /\ groups' = Append(groups, Group(TRUE, first, counter))
  /\ first' = Cursor /\ counter' = 0
  /\ UNCHANGED <<types, rules, returned>>

\* The matched run makes a bonded group.
TakeRun ==
  /\ ~Matches /\ counter > 0
  /\ groups' = Append(groups, Group(TRUE, first, counter))
  /\ first' = Cursor /\ counter' = 0
  /\ UNCHANGED <<types, rules, returned>>

\* Mutant: the constructor stops at the last variable.
ReturnEarly ==
  /\ first >= Len(types) /\ counter = 0 /\ ~returned
  /\ returned' = TRUE
  /\ UNCHANGED <<types, rules, first, counter, groups>>

\* No variable is left.
Return ==
  /\ first > Len(types) /\ counter = 0 /\ ~returned
  /\ returned' = TRUE
  /\ UNCHANGED <<types, rules, first, counter, groups>>

BondNext == Match \/ TakeSingle \/ TakeRun \/ Return

\* The loops run until they return.
BondSpec == BondInit /\ [][BondNext]_bondVars /\ WF_bondVars(BondNext)
-----------------------------------------------------------------------------
(* Properties. *)

GroupType == [is_bonded : BOOLEAN, first : Nat \ {0}, len : Nat \ {0}]

\* Every variable has the values the code can give it.
BondTypeOK ==
  /\ types \in Seq(VarTypes) /\ rules \in SUBSET VarTypes
  /\ first \in 1..Len(types) + 1 /\ counter \in 0..Len(types)
  /\ groups \in Seq(GroupType) /\ returned \in BOOLEAN

\* Where group k must start: behind the one before it.
StartOf(k) == IF k = 1 THEN 1 ELSE groups[k - 1].first + groups[k - 1].len

\* The groups, read in order, are the variables in order: none is skipped,
\* none is written twice, and at the return none is left
\* (bpc_code_gen.c:128 and 151 return the next variable).
CoversInOrder ==
  /\ \A k \in DOMAIN groups : groups[k].first = StartOf(k)
  /\ first = StartOf(Len(groups) + 1)
  /\ returned => first = Len(types) + 1

\* A bonded group has variables the language can copy together and nothing
\* else; a variable it can copy is never left outside of one.
BondedIsMatched ==
  \A k \in DOMAIN groups :
    LET g == groups[k]
    IN  \A i \in g.first..g.first + g.len - 1 : g.is_bonded <=> types[i] \in rules

\* Two bonded groups never follow each other: a run is one packer in Python
\* and one block in C++, however long.
RunsAreMaximal ==
  \A k \in 2..Len(groups) : ~(groups[k - 1].is_bonded /\ groups[k].is_bonded)

\* A bonded group is a whole run of variables the language can copy together,
\* neither more nor less (bpc_code_gen.c:97-127).
GroupsAreRuns ==
  /\ BondedIsMatched
  /\ RunsAreMaximal

\* The constructor returns, for every list and every rules, and the list it
\* returns is the one the models of the back ends work with.
BondAgreesWithRules == <>(returned /\ groups = BondVars(types, rules))
=============================================================================
