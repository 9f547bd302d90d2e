------------------------------- MODULE BpcGen -------------------------------
(***************************************************************************)
(* What the code generators share (bpc_code_gen.c), over the protocol body *)
(* the parser built: a sequence of nodes with their laid out fields.       *)
(*                                                                         *)
(* A generated Serialize or Deserialize is a sequence of instructions, one *)
(* for each call the generated text makes on the stream:                   *)
(*   number  one number                 text    a length and its bytes     *)
(*   nested  the function of a struct   list    a count and the elements   *)
(*   gap     padding bytes              packed  one Python packer          *)
(*   tuple   a number of a C# buffer    block   raw C++ memory             *)
(* at says which element of which field it is about, <<field, index>>.     *)
(***************************************************************************)
EXTENDS BpcTypes, BpcBondRules, SequencesExt

\* The node a custom type names (bpcsmtv_registery_identifier_get).
NodeOf(doc, name) == doc[CHOOSE k \in DOMAIN doc : doc[k].name = name]

IsStructLike(node) == node.kind \in {"struct", "msg"}

ElementSize(doc, f) ==
  IF f.type.full \in BasicTypes THEN SizeOf(f.type.full)
  ELSE NodeOf(doc, f.type.type).modifier.struct_size

\* get_vartype.
VarType(doc, f) ==
  << IF ~f.array.is_array THEN "single"
     ELSE IF f.array.is_static_array THEN "static" ELSE "dynamic",
     IF f.type.full = "string" THEN "string"
     ELSE IF f.type.full \in BasicTypes THEN "primitive"
     ELSE IF NodeOf(doc, f.type.type).modifier.is_narrow THEN "narrow"
     ELSE "natural" >>

FieldTypes(doc, node) ==
  [k \in DOMAIN node.fields |-> VarType(doc, node.fields[k])]

GroupsOf(doc, node, rules) == BondVars(FieldTypes(doc, node), rules)

\* The loop of the generators over the nodes of some kinds.
Kept(doc, kinds) ==
  LET upto[k \in 0..Len(doc)] ==
        IF k = 0 THEN <<>>
        ELSE IF doc[k].kind \in kinds THEN Append(upto[k - 1], doc[k])
        ELSE upto[k - 1]
  IN  upto[Len(doc)]

\* A table of the structs by name with one more.
Bind(table, name, value) ==
  [n \in DOMAIN table \cup {name} |-> IF n = name THEN value ELSE table[n]]

\* bpcgen_constructor_msg_list.
MessagesOf(doc) == Kept(doc, {"msg"})
-----------------------------------------------------------------------------
(* Instructions. *)

Instr(op, at, arg) == [op |-> op, at |-> at, arg |-> arg]

Gap(n) == Instr("gap", <<>>, n)

\* The element instruction elem at another place.
At(elem, at) == [elem EXCEPT !.at = at]

\* Mutant: the loop over a static array is left out.
SpreadFirst(f, k, elem) ==
  IF f.array.is_array /\ ~f.array.is_static_array
    THEN << Instr("list", <<k, 0>>, elem) >>
    ELSE << At(elem, <<k, IF f.array.is_array THEN 1 ELSE 0>>) >>

\* One element, the elements of a static array one by one, or a counted list.
Spread(f, k, elem) ==
  IF ~f.array.is_array THEN << At(elem, <<k, 0>>) >>
  ELSE IF f.array.is_static_array
    THEN [i \in 1..f.array.static_array_len |-> At(elem, <<k, i>>)]
    ELSE << Instr("list", <<k, 0>>, elem) >>

\* The element of a string, narrow or natural field: the same call in every
\* language.
TextOrNested(f) ==
  IF f.type.full = "string" THEN Instr("text", <<>>, "string")
                            ELSE Instr("nested", <<>>, f.type.type)

NumberOf(f, op) == Instr(op, <<>>, f.type.full)

\* Padding behind a field that is not bonded.
PadInstr(f) ==
  IF f.align.use_align THEN << Gap(f.align.padding_size) >> ELSE <<>>

\* The instructions of the groups in order; a struct without variables is
\* one byte, like sizeof of an empty struct.
Body(pieces) == IF pieces = <<>> THEN << Gap(1) >> ELSE FlattenSeq(pieces)
=============================================================================
