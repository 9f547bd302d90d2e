------------------------------- MODULE BpcCpp -------------------------------
(***************************************************************************)
(* The C++ generator (codehpp.c, codecpp.c).  Primitives and natural       *)
(* structs, single or in static arrays, are bonded and copied as raw       *)
(* memory of the packed struct Payload_t, whose padding is members of the  *)
(* struct; the number of bytes is computed by the generator.               *)
(*                                                                         *)
(* A byte of memory is a cell [at, byte, width]: byte 1..width of the      *)
(* number at the path at, least significant first; <<>> is padding.        *)
(***************************************************************************)
EXTENDS BpcGen

Cell(at, byte, width) == [at |-> at, byte |-> byte, width |-> width]

Placeholder(n) == [i \in 1..n |-> Cell(<<>>, 0, 0)]

\* The elements of a field that lie in the struct itself.
Places(f, k) ==
  IF ~f.array.is_array THEN << <<k, 0>> >>
  ELSE [i \in 1..f.array.static_array_len |-> <<k, i>>]

Inside(p, cell) == IF cell.at = <<>> THEN cell ELSE [cell EXCEPT !.at = <<p>> \o @]

\* The type of what is at a path of a class: of a number, a string, or the
\* length of a list.
TypeAt(doc, class, path) ==
  LET classes[n \in DOMAIN path] ==
        IF n = 1 THEN class
        ELSE NodeOf(doc, classes[n - 1]).fields[path[n - 1][1]].type.type
      f == NodeOf(doc, classes[Len(path)]).fields[Last(path)[1]]
  IN  IF f.array.is_array /\ Last(path)[2] = 0 THEN "list" ELSE f.type.full

\* Member k of Payload_t; payload has the structs.  A string, a vector or a
\* narrow struct is seen as one opaque cell.
Member(doc, node, payload, k) ==
  LET f == node.fields[k]
      Element(p) ==
        IF f.type.full \in BasicTypes
          THEN [b \in 1..SizeOf(f.type.full) |-> Cell(<<p>>, b, SizeOf(f.type.full))]
          ELSE [c \in DOMAIN payload[f.type.type] |-> Inside(p, payload[f.type.type][c])]
  IN  IF VarType(doc, f) \notin CppBond THEN << Cell(<< <<k, 0>> >>, 0, 0) >>
      ELSE FlattenSeq([i \in DOMAIN Places(f, k) |-> Element(Places(f, k)[i])])

\* Member k and the placeholder behind it.
PaddedMember(doc, node, payload, k) ==
  Member(doc, node, payload, k) \o
  (IF node.fields[k].align.use_align
     THEN Placeholder(node.fields[k].align.padding_size) ELSE <<>>)

\* The memory of Payload_t from member first on.
PayloadFrom(doc, node, payload, first) ==
  IF node.fields = <<>> THEN Placeholder(1)
  ELSE FlattenSeq([j \in 1..Len(node.fields) - first + 1 |->
                     PaddedMember(doc, node, payload, first + j - 1)])

\* The memory of the natural structs, by name.
Payloads(doc) ==
  LET upto[k \in 0..Len(doc)] ==
        IF k = 0 THEN <<>>
        ELSE LET before == upto[k - 1]
             IN  IF ~IsStructLike(doc[k]) \/ doc[k].modifier.is_narrow THEN before
                 ELSE Bind(before, doc[k].name, PayloadFrom(doc, doc[k], before, 1))
  IN  upto[Len(doc)]

\* Mutant: the padding inside and behind the run is not counted.
BondVarsSizeNoPad(doc, node, g) ==
  LET sum[j \in 0..g.len] ==
        IF j = 0 THEN 0
        ELSE LET f == node.fields[g.first + j - 1]
                 n == IF f.array.is_array THEN f.array.static_array_len ELSE 1
             IN  U32(sum[j - 1] + ElementSize(doc, f) * n)
  IN  IF sum[g.len] = 0 THEN 1 ELSE sum[g.len]

\* calc_bond_vars_size: the bytes of a bonded run, in uint32_t.
BondVarsSize(doc, node, g) ==
  LET sum[j \in 0..g.len] ==
        IF j = 0 THEN 0
        ELSE LET f == node.fields[g.first + j - 1]
                 n == IF f.array.is_array THEN f.array.static_array_len ELSE 1
                 pad == IF f.align.use_align THEN f.align.padding_size ELSE 0
             IN  U32(sum[j - 1] + ElementSize(doc, f) * n + pad)
  IN  IF sum[g.len] = 0 THEN 1 ELSE sum[g.len]

\* The raw copy of a bonded run, from the address of its first member.
Block(doc, node, g) ==
  Instr("block", <<>>,
        [mem |-> PayloadFrom(doc, node, Payloads(doc), g.first),
         size |-> BondVarsSize(doc, node, g)])

\* The raw copy of one element of a list of natural structs.
ElementBlock(doc, f) ==
  LET mem == Payloads(doc)[f.type.type]
  IN  Instr("block", <<>>, [mem |-> mem, size |-> Len(mem)])

CppUnbonded(doc, f, k) ==
  Spread(f, k, CASE VarType(doc, f)[2] = "primitive" -> NumberOf(f, "raw")
                 [] VarType(doc, f)[2] = "natural"   -> ElementBlock(doc, f)
                 [] OTHER                            -> TextOrNested(f))

CppGroupInstr(doc, node, g) ==
  LET f == node.fields[g.first]
  IN  IF g.is_bonded THEN << Block(doc, node, g) >>
                     ELSE CppUnbonded(doc, f, g.first) \o PadInstr(f)

\* Payload_t::Deserialize.
CppDeserialize(doc, node) ==
  LET groups == GroupsOf(doc, node, CppBond)
      GroupInstr(i) == CppGroupInstr(doc, node, groups[i])
  IN  Body([g \in DOMAIN groups |-> GroupInstr(g)])

\* Payload_t::Serialize.
CppSerialize(doc, node) ==
  LET groups == GroupsOf(doc, node, CppBond)
      GroupInstr(i) == CppGroupInstr(doc, node, groups[i])
  IN  Body([g \in DOMAIN groups |-> GroupInstr(g)])

\* Mutant: a list is not swapped.
ByteSwapOfArrays(f, j, inner) ==
  IF f.type.full = "string" \/ (f.array.is_array /\ ~f.array.is_static_array) THEN {}
  ELSE IF f.type.full \in BasicTypes THEN {<<j>>}
  ELSE {<<j>> \o p : p \in inner[f.type.type]}

\* What ByteSwap swaps for variable j: numbers, and the numbers of a struct;
\* inner has those of the structs, as paths of field positions.
ByteSwapOf(f, j, inner) ==
  IF f.type.full = "string" THEN {}
  ELSE IF f.type.full \in BasicTypes THEN {<<j>>}
  ELSE {<<j>> \o p : p \in inner[f.type.type]}

\* Payload_t::ByteSwap of every struct and msg, by name.
ByteSwap(doc) ==
  LET upto[k \in 0..Len(doc)] ==
        IF k = 0 THEN <<>>
        ELSE LET before == upto[k - 1]
             IN  IF ~IsStructLike(doc[k]) THEN before
                 ELSE before @@ (doc[k].name :>
                        UNION {ByteSwapOf(doc[k].fields[j], j, before) :
                                 j \in DOMAIN doc[k].fields})
  IN  upto[Len(doc)]

\* Payload_t::Payload_t(): every member is value-initialised, so strings and
\* vectors are empty; the placeholders are not initialised.
CppInit(t) ==
  IF t = "string" THEN "empty"
  ELSE IF t \in BasicTypes THEN "zero" ELSE "object"

\* MessageFactory: a switch over the names of OpCode.
CppFactory(doc, opcode) ==
  {doc[k].name : k \in {j \in DOMAIN doc : doc[j].kind = "msg" /\ doc[j].index = opcode}}
=============================================================================
