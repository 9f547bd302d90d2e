------------------------------ MODULE BpcLayout ------------------------------
(***************************************************************************)
(* bpcsmtv_setup_field_layout, loop by loop: the check for a natural       *)
(* layout with its early exit, the choice of the layout, the unit size,    *)
(* the placement of the fields and the correction of the size.             *)
(***************************************************************************)
EXTENDS BpcLayoutRules

CONSTANTS Inputs     \* sequences of fields the function is called with
CONSTANTS Modifiers  \* struct modifiers it is called with

VARIABLES loop,      \* which part of the function is running
          position,  \* cursor into the list of variables
          fields,    \* the list; the loop writes only the pad of each field
          modifier,  \* BPCSMTV_STRUCT_MODIFIER, written in place
          natural,   \* can_be_natural
          given      \* history: the arguments of the call

layoutVars == <<loop, position, fields, modifier, natural, given>>

\* What a caller may pass: any size and any alignment of the tables.  A size
\* need not be a multiple of the alignment: the corrected 1 is not.
FieldType ==
  [fixed : BOOLEAN, size : 1..MaxOf["uint32"], align : Alignments,
   array : [is_array : BOOLEAN, static_array_len : 0..MaxOf["uint32"]],
   pad : [use_align : BOOLEAN, padding_size : 0..MaxOf["uint32"]]]

ModifierType == [has_set_field_layout : BOOLEAN, is_narrow : BOOLEAN,
                 struct_size : 0..MaxOf["uint32"],
                 struct_unit_size : Alignments]

ASSUME InputsAssumption == Inputs \subseteq Seq(FieldType) /\ Modifiers \subseteq ModifierType

LayoutInit ==
  /\ loop = "check" /\ position = 1 /\ natural = TRUE
  /\ fields \in Inputs
  /\ modifier \in Modifiers
  /\ given = [fields |-> fields, modifier |-> modifier]

More == position <= Len(fields)

\* One field of the first loop, which breaks at the first unsuitable one.
CheckField ==
  /\ loop = "check" /\ More
  /\ IF fields[position].fixed
       THEN position' = position + 1 /\ UNCHANGED <<loop, natural>>
       ELSE natural' = FALSE /\ loop' = "decide" /\ UNCHANGED position
  /\ UNCHANGED <<fields, modifier, given>>

CheckDone ==
  /\ loop = "check" /\ ~More
  /\ loop' = "decide"
  /\ UNCHANGED <<position, fields, modifier, natural, given>>

ChosenNarrow == IF modifier.has_set_field_layout
                  THEN modifier.is_narrow \/ ~natural
                  ELSE ~natural

\* The modifier is settled; a narrow struct is finished at once.
Decide ==
  /\ loop = "decide"
  /\ modifier' = [modifier EXCEPT !.has_set_field_layout = TRUE,
                                  !.is_narrow = ChosenNarrow,
                                  !.struct_size = IF ChosenNarrow THEN 1 ELSE @,
                                  !.struct_unit_size = 1]
  /\ loop' = IF ChosenNarrow THEN "done" ELSE "unit"
  /\ position' = 1
  /\ UNCHANGED <<fields, natural, given>>

Larger(unit, align) == IF unit >= align THEN unit ELSE align

\* One field of the second loop.
GrowUnit ==
  /\ loop = "unit" /\ More
  /\ modifier' = [modifier EXCEPT !.struct_unit_size =
                                     Larger(@, fields[position].align)]
  /\ position' = position + 1
  /\ UNCHANGED <<loop, fields, natural, given>>

UnitDone ==
  /\ loop = "unit" /\ ~More
  /\ loop' = "place" /\ position' = 1
  /\ modifier' = [modifier EXCEPT !.struct_size = 0]
  /\ UNCHANGED <<fields, natural, given>>

\* One field of the third loop: struct_size is the offset of the field at position.
PlaceField ==
  /\ loop = "place" /\ More
  /\ LET end     == modifier.struct_size + RealSize(fields[position])
         padding == Padding(Boundary(fields, modifier.struct_unit_size, position), end)
     IN  /\ fields' = [fields EXCEPT ![position].pad = Aligned(@, padding)]
         /\ modifier' = [modifier EXCEPT !.struct_size = U32(end + padding)]
  /\ position' = position + 1
  /\ UNCHANGED <<loop, natural, given>>

Corrected(size) == IF size = 0 THEN 1 ELSE size

CorrectSize ==
  /\ loop = "place" /\ ~More
  /\ loop' = "done"
  /\ modifier' = [modifier EXCEPT !.struct_size = Corrected(@)]
  /\ UNCHANGED <<position, fields, natural, given>>

LayoutNext ==
  \/ CheckField \/ CheckDone \/ Decide
  \/ GrowUnit \/ UnitDone \/ PlaceField \/ CorrectSize

LayoutSpec == LayoutInit /\ [][LayoutNext]_layoutVars
-----------------------------------------------------------------------------
(* Properties *)

Natural == ~modifier.is_narrow

\* The state is well formed: the list keeps its length, every size is a
\* uint32_t, and a finished layout never has the size 0.
LayoutTypeOK ==
  /\ loop \in {"check", "decide", "unit", "place", "done"}
  /\ natural \in BOOLEAN
  /\ given \in [fields : Seq(FieldType), modifier : ModifierType]
  /\ fields \in Seq(FieldType) /\ Len(fields) = Len(given.fields)
  /\ position \in 1..(Len(fields) + 1)
  /\ modifier \in ModifierType
  /\ loop = "done" => modifier.struct_size > 0

\* Every field of a natural struct starts at a multiple of its alignment, and
\* the struct's size is a multiple of its unit size, so the elements of an
\* array of it are aligned too; uint32_t wrap-around does not disturb this.
\* The one exception is the byte of a struct whose size came out as 0.
FieldsAligned ==
  /\ loop = "place" /\ More => modifier.struct_size % fields[position].align = 0
  /\ loop = "place" /\ ~More => modifier.struct_size % modifier.struct_unit_size = 0
  /\ loop = "done" /\ Natural /\ modifier.struct_size # 1
       => modifier.struct_size % modifier.struct_unit_size = 0

\* The unit size bounds, and is a multiple of, every field's alignment: an
\* aligned struct has aligned fields.
UnitCoversFields ==
  loop \in {"place", "done"} /\ Natural =>
    \A k \in 1..Len(fields) : modifier.struct_unit_size % fields[k].align = 0

\* A natural struct holds no string, no list and no narrow struct, even when
\* the file asks for natural: its generated code may use the fixed sizes.
NaturalIsFixed ==
  loop \notin {"check", "decide"} /\ Natural => CanBeNatural(fields)

\* A natural struct can be copied as a block of memory: everything in it has
\* a fixed size and every place, those of an array's later elements too, is a
\* multiple of the alignment of what is put there
\* (bpc_semantic_values.c:525-583).
LayoutSound ==
  /\ FieldsAligned
  /\ UnitCoversFields
  /\ NaturalIsFixed

\* The C rule for the same fields: each one goes to the next multiple of its
\* alignment, and the struct is padded to its own.
AlignUp(x, a) == ((x + a - 1) \div a) * a

CSize(f) == f.size * (IF f.array.is_array THEN f.array.static_array_len ELSE 1)

COffset(fs) ==
  LET off[k \in 1..(Len(fs) + 1)] ==
        IF k = 1 THEN 0
        ELSE AlignUp(off[k - 1] + CSize(fs[k - 1]),
                     IF k > Len(fs) THEN UnitSize(fs) ELSE fs[k].align)
  IN  off

CEnd(fs) == COffset(fs)[Len(fs) + 1]

FitsU32(fs) == \A k \in 1..(Len(fs) + 1) : COffset(fs)[k] <= MaxOf["uint32"]

\* BpFile.md: with natural "bp compiler will do the same things as C compiler".
\* As long as no size exceeds 32 bits the offset of every field is C's, and so
\* is the size of the struct; one that takes no room has a byte, as in C++.
SameAsC ==
  FitsU32(given.fields) =>
    /\ loop = "place" => modifier.struct_size = COffset(given.fields)[position]
    /\ loop = "done" /\ Natural =>
         modifier.struct_size = IF CEnd(given.fields) = 0 THEN 1 ELSE CEnd(given.fields)

\* The loops compute what the operators of BpcLayoutRules say.
LayoutAgreesWithRules ==
  loop = "done" =>
    /\ modifier = SetupModifier(given.fields, given.modifier)
    /\ \A k \in 1..Len(fields) :
         fields[k] = [given.fields[k] EXCEPT
                        !.pad = SetupPad(given.fields, given.modifier, k)]
=============================================================================
