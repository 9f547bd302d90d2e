--------------------------- MODULE BpcLayoutRules ---------------------------
(***************************************************************************)
(* What bpcsmtv_setup_field_layout computes, as operators over the fields  *)
(* of one struct or msg.  BpcLayout is the loop that computes it; the      *)
(* parser uses the operators.                                              *)
(*                                                                         *)
(* A field is seen here as a record of what the function looks up:         *)
(*   fixed  neither a list, nor a string, nor a narrow struct              *)
(*   size   size of one element        align  its alignment requirement    *)
(*   array  is_array and static_array_len                                  *)
(*   pad    variable_align: use_align and padding_size                     *)
(***************************************************************************)
EXTENDS BpcTypes, Sequences

CanBeNatural(fields) == \A k \in DOMAIN fields : fields[k].fixed

\* Mutant: a layout asked for is kept in every case.
AsAsked(fields, modifier) ==
  IF modifier.has_set_field_layout THEN modifier.is_narrow
                                   ELSE ~CanBeNatural(fields)

\* The layout asked for is kept, except that natural needs fixed-size fields;
\* without one the compiler chooses natural whenever it can.
IsNarrow(fields, modifier) ==
  IF modifier.has_set_field_layout
    THEN modifier.is_narrow \/ ~CanBeNatural(fields)
    ELSE ~CanBeNatural(fields)

UnitSize(fields) ==
  LET aligns == {1} \cup {fields[k].align : k \in DOMAIN fields}
  IN  CHOOSE a \in aligns : \A b \in aligns : b <= a

RealSize(f) == IF f.array.is_array THEN U32(f.size * f.array.static_array_len)
                                   ELSE f.size

\* Mutant: the tail of the struct is not padded to its unit size.
NoTailBoundary(fields, unit, k) ==
  IF k = Len(fields) THEN 1 ELSE fields[k + 1].align

\* What the end of field k must be a multiple of: the next field's alignment,
\* and for the last field the struct's.
Boundary(fields, unit, k) ==
  IF k = Len(fields) THEN unit ELSE fields[k + 1].align

\* Mutant: without the outer modulus an aligned field gets a whole boundary.
OverPadding(boundary, end) == boundary - (U32(end) % boundary)

Padding(boundary, end) == (boundary - (U32(end) % boundary)) % boundary

\* struct_size after the first k fields and their paddings.
SizeAfter(fields) ==
  LET after[k \in 0..Len(fields)] ==
        IF k = 0 THEN 0
        ELSE LET end == after[k - 1] + RealSize(fields[k])
             IN  U32(end + Padding(Boundary(fields, UnitSize(fields), k), end))
  IN  after

PaddingAfter(fields, k) ==
  Padding(Boundary(fields, UnitSize(fields), k),
          SizeAfter(fields)[k - 1] + RealSize(fields[k]))

\* variable_align of a field placed with this padding: use_align is cleared
\* when none is needed, padding_size then keeps what the file said.
Aligned(pad, padding) ==
  IF padding = 0 THEN [pad EXCEPT !.use_align = FALSE]
                 ELSE [use_align |-> TRUE, padding_size |-> padding]

StructSize(fields) ==
  LET size == SizeAfter(fields)[Len(fields)]
  IN  IF size = 0 THEN 1 ELSE size

\* The modifier and the variable_align of each field when the call returns.
SetupModifier(fields, modifier) ==
  LET narrow == IsNarrow(fields, modifier)
  IN  [modifier EXCEPT !.has_set_field_layout = TRUE,
                       !.is_narrow = narrow,
                       !.struct_size = IF narrow THEN 1 ELSE StructSize(fields),
                       !.struct_unit_size = IF narrow THEN 1 ELSE UnitSize(fields)]

SetupPad(fields, modifier, k) ==
  IF IsNarrow(fields, modifier)
    THEN fields[k].pad
    ELSE Aligned(fields[k].pad, PaddingAfter(fields, k))
=============================================================================
