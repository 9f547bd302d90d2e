------------------------------ MODULE BpcTypes ------------------------------
(***************************************************************************)
(* The basic types of a bp file, their size and alignment tables, and the  *)
(* numbers the lexer hands to the parser (bpc_semantic_values.c).          *)
(*                                                                         *)
(* The limits of the integer types are constants so that TLC can shrink    *)
(* them: only their order and the divisibility of 2^32 by the alignments   *)
(* matter to the code.                                                     *)
(***************************************************************************)
EXTENDS Integers

CONSTANTS MinOf,   \* [IntegerTypes -> Int] int_min_limit, 0 when unsigned
          MaxOf    \* [IntegerTypes -> Int] int_max_limit and uint_max_limit

SignedTypes   == {"int8", "int16", "int32", "int64"}
UnsignedTypes == {"uint8", "uint16", "uint32", "uint64"}

\* bpcsmtv_is_basic_type_suit_for_enum
IntegerTypes == SignedTypes \cup UnsignedTypes

BasicTypes == IntegerTypes \cup {"float", "double", "string"}

ASSUME LimitsAssumption ==
  /\ MinOf \in [IntegerTypes -> Int]
  /\ MaxOf \in [IntegerTypes -> Int]
  /\ \A t \in UnsignedTypes : MinOf[t] = 0 /\ MaxOf[t] > 0
  /\ \A t \in SignedTypes : MinOf[t] < 0 /\ MaxOf[t] > 0
  /\ \A t \in UnsignedTypes : MaxOf[t] <= MaxOf["uint64"]
  /\ \A t \in SignedTypes : MinOf["int64"] <= MinOf[t] /\ MaxOf[t] <= MaxOf["int64"]
  /\ (MaxOf["uint32"] + 1) % 4 = 0

SizeOf(t) ==
  CASE t \in {"int8", "uint8", "string"}           -> 1
    [] t \in {"int16", "uint16"}                   -> 2
    [] t \in {"int32", "uint32", "float"}          -> 4
    [] t \in {"int64", "uint64", "double"}         -> 8

\* x86 alignment on every platform: an 8-byte type is aligned at 4.
AlignOf(t) == IF SizeOf(t) = 8 THEN 4 ELSE SizeOf(t)

\* The alignments of the table, hence of every natural struct.
Alignments == {1, 2, 4}

\* A number token carries its value as a 64-bit unsigned and as a 64-bit
\* signed integer, each with a flag saying whether it fits.
SuccessUint(v) == 0 <= v /\ v <= MaxOf["uint64"]
SuccessInt(v)  == MinOf["int64"] <= v /\ v <= MaxOf["int64"]

\* A text that fits neither makes no token at all: the lexer reports an
\* error and goes on with the next one.
ParseNumber(v) == SuccessInt(v) \/ SuccessUint(v)

\* Mutant: zero is let through.
OffsetNumberWithZero(v) == SuccessUint(v) /\ v <= MaxOf["uint32"]

\* bpcsmtv_get_offset_number: an array length, a padding size, the version.
IsOffsetNumber(v) == SuccessUint(v) /\ v # 0 /\ v <= MaxOf["uint32"]

\* Arithmetic of uint32_t.
U32(x) == x % (MaxOf["uint32"] + 1)
=============================================================================
