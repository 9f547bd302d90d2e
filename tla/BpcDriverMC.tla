---------------------------- MODULE BpcDriverMC ----------------------------
(* Command lines over a few files: at most one of them an input, which may   *)
(* be an output too, and at most MaxOutputs outputs.                         *)
EXTENDS BpcDriver

CONSTANTS
  Input,        \* the file that may be the input; the others are alike
  MaxOutputs,   \* bound: outputs of a command
  Kinds         \* kinds of commands

MCOption ==
  {o \in [Slots -> Paths \cup {NoPath}] :
     /\ o[0] \in {Input, NoPath}
     /\ Cardinality({s \in Outputs : o[s] # NoPath}) <= MaxOutputs}

MCCommands == [kind : Kinds, option : MCOption]

\* What is in a file that is not read makes no difference.
MCDisks ==
  {[p \in Paths |-> IF p = Input THEN c ELSE d] :
     c \in Sources \cup {"absent", "other"}, d \in {"absent", "other"}}
=============================================================================
