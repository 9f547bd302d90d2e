-------------------------- MODULE BpcOwnershipMC --------------------------
(* A small instance of BpcOwnership. *)
EXTENDS BpcOwnership, TLC

MCMinOf == [t \in IntegerTypes |-> IF t \in UnsignedTypes THEN 0 ELSE -2]
MCMaxOf == [t \in IntegerTypes |->
              IF t \in {"uint32", "uint64", "int64"} THEN 1023 ELSE 1]

NameSymmetry == Permutations(Names)
=============================================================================
