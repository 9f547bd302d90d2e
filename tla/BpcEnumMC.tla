------------------------------ MODULE BpcEnumMC ------------------------------
(* Small instances of BpcEnum: int8 holds -2..1, uint8 holds 0..3, the 64-bit *)
(* types -4..3 and 0..7, and an enum has up to four members.                  *)
EXTENDS BpcEnum

MCMinOf == [t \in IntegerTypes |->
              IF t \in UnsignedTypes THEN 0 ELSE IF t = "int8" THEN -2 ELSE -4]
MCMaxOf == [t \in IntegerTypes |->
              CASE t = "int8" -> 1 [] t \in {"int16", "int32", "int64"} -> 3
                [] t = "uint8" -> 3 [] OTHER -> 7]

Unspecified == [has_specified_value |-> FALSE, specified_value |-> 0]
Specified(v) == [has_specified_value |-> TRUE, specified_value |-> v]

MCMembers == {Unspecified} \cup
             {Specified(v) : v \in MinOf["int64"]..MaxOf["uint64"]}

MCCalls == (UNION {[1..n -> MCMembers] : n \in 1..4})
             \X {"int8", "uint8", "int64", "uint64"}
=============================================================================
