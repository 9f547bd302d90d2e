----------------------------- MODULE BpcLayoutMC -----------------------------
(* Small instances of BpcLayout: a 5-bit uint32_t and up to three fields. *)
EXTENDS BpcLayout

MCMinOf == [t \in IntegerTypes |->
              CASE t = "int8" -> -2 [] t = "int16" -> -4 [] t = "int32" -> -16
                [] t = "int64" -> -32 [] OTHER -> 0]
MCMaxOf == [t \in IntegerTypes |->
              CASE t = "int8" -> 1 [] t = "int16" -> 3 [] t = "int32" -> 15
                [] t = "int64" -> 31 [] t = "uint8" -> 3 [] t = "uint16" -> 7
                [] t = "uint32" -> 31 [] t = "uint64" -> 63]

NoArray == [is_array |-> FALSE, static_array_len |-> 0]
Tuple(n) == [is_array |-> TRUE, static_array_len |-> n]
NoPad == [use_align |-> FALSE, padding_size |-> 0]
UserPad == [use_align |-> TRUE, padding_size |-> 3]

BasicField(t, a, p) ==
  [fixed |-> t # "string", size |-> SizeOf(t), align |-> AlignOf(t),
   array |-> a, pad |-> p]

\* Fields whose type is a natural struct, of 6 bytes and of a size that was
\* corrected to 1, and a list of int8.
StructField == [fixed |-> TRUE, size |-> 6, align |-> 2,
                array |-> Tuple(3), pad |-> NoPad]
CorrectedField == [fixed |-> TRUE, size |-> 1, align |-> 4,
                   array |-> NoArray, pad |-> NoPad]
ListField == [fixed |-> FALSE, size |-> 1, align |-> 1,
              array |-> [is_array |-> TRUE, static_array_len |-> 0],
              pad |-> UserPad]

FieldSet ==
  {BasicField(t, a, NoPad) : t \in {"int8", "int16", "int32", "double"},
                             a \in {NoArray, Tuple(3), Tuple(4)}}
  \cup {BasicField("int16", NoArray, UserPad), BasicField("string", NoArray, NoPad),
        StructField, CorrectedField, ListField}

MCInputs == UNION {[1..n -> FieldSet] : n \in 0..3}

MCModifiers == {m \in [has_set_field_layout : BOOLEAN, is_narrow : BOOLEAN,
                       struct_size : {1}, struct_unit_size : {1}] :
                  m.has_set_field_layout \/ m.is_narrow}
=============================================================================
