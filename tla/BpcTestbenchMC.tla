--------------------------- MODULE BpcTestbenchMC ---------------------------
(* The testbenches over the messages of BpcSamples. *)
EXTENDS BpcTestbench, BpcSamples

MCMinOf == [t \in IntegerTypes |-> IF t \in UnsignedTypes THEN 0 ELSE -2]
MCMaxOf == [t \in IntegerTypes |-> IF t \in {"uint32", "uint64"} THEN 1023 ELSE 1]

MCDocument == Sample
=============================================================================
