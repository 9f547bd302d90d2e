----------------------------- MODULE BpcPython -----------------------------
(***************************************************************************)
(* The Python generator (codepy.c): single primitives are bonded and go    *)
(* through one struct.Struct of the class's table _struct_packer; so does  *)
(* each static primitive array.  The table and the two functions number    *)
(* the packers in three loops of their own.                                *)
(***************************************************************************)
EXTENDS BpcGen

PyGroups(doc, node) == GroupsOf(doc, node, PyBond)

StaticPrimitive == <<"static", "primitive">>

\* Mutant: the padding of bonded variables is left out.
PackFmtNoPad(node, g) == [j \in 1..g.len |-> node.fields[g.first + j - 1].type.full]

\* generate_pack_fmt: the format characters, "x" for a padding byte.
PackFmt(node, g) ==
  FlattenSeq([j \in 1..g.len |->
    LET f == node.fields[g.first + j - 1]
    IN  <<f.type.full>> \o
        (IF f.align.use_align THEN [i \in 1..f.align.padding_size |-> "x"] ELSE <<>>)])

UsesPacker(doc, node, g) ==
  g.is_bonded \/ VarType(doc, node.fields[g.first]) = StaticPrimitive

\* The format of a group's packer.
PackerFmt(node, g) ==
  IF g.is_bonded THEN PackFmt(node, g)
  ELSE [i \in 1..node.fields[g.first].array.static_array_len |->
          node.fields[g.first].type.full]

\* _struct_packer: the format of each packer.
StructPacker(doc, node) ==
  LET groups == PyGroups(doc, node)
      upto[g \in 0..Len(groups)] ==
        IF g = 0 THEN <<>>
        ELSE IF UsesPacker(doc, node, groups[g])
          THEN Append(upto[g - 1], PackerFmt(node, groups[g]))
        ELSE upto[g - 1]
  IN  upto[Len(groups)]

\* The places a packer's values come from or go to.
PackedPlaces(node, g) ==
  IF g.is_bonded THEN [j \in 1..g.len |-> <<g.first + j - 1, 0>>]
  ELSE [i \in 1..node.fields[g.first].array.static_array_len |-> <<g.first, i>>]

\* preset_struct_index when the loop reaches group g.
PresetStructIndex(doc, node, groups, g) ==
  Cardinality({h \in 1..g - 1 : UsesPacker(doc, node, groups[h])})

Packed(node, g, index) ==
  Instr("packed", PackedPlaces(node, g), [class |-> node.name, index |-> index])

\* The statements of group i in either function.
PyGroupInstr(doc, node, groups, i, index) ==
  LET g == groups[i]
      f == node.fields[g.first]
      call == IF UsesPacker(doc, node, g) THEN << Packed(node, g, index) >>
              ELSE Spread(f, g.first, IF f.type.full \in BasicTypes \ {"string"}
                                        THEN NumberOf(f, "number") ELSE TextOrNested(f))
  IN  IF g.is_bonded THEN call ELSE call \o PadInstr(f)

\* Mutant: preset_struct_index is not advanced by a static primitive array.
PyDeserializeMisnumbered(doc, node) ==
  LET groups == PyGroups(doc, node)
      Index(i) == Cardinality({h \in 1..i - 1 : groups[h].is_bonded})
      GroupInstr(i) == PyGroupInstr(doc, node, groups, i, Index(i))
  IN  Body([g \in DOMAIN groups |-> GroupInstr(g)])

\* Deserialize of the class.
PyDeserialize(doc, node) ==
  LET groups == PyGroups(doc, node)
      GroupInstr(i) ==
        PyGroupInstr(doc, node, groups, i, PresetStructIndex(doc, node, groups, i))
  IN  Body([g \in DOMAIN groups |-> GroupInstr(g)])

\* Serialize of the class: a loop of its own over the same groups, with its
\* own preset_struct_index.
PySerialize(doc, node) ==
  LET groups == PyGroups(doc, node)
      GroupInstr(i) ==
        PyGroupInstr(doc, node, groups, i, PresetStructIndex(doc, node, groups, i))
  IN  Body([g \in DOMAIN groups |-> GroupInstr(g)])

\* __init__: what a new object holds at each place; lists are empty.
PyInit(t) ==
  IF t = "string" THEN "empty"
  ELSE IF t \in BasicTypes THEN "zero" ELSE "object"

\* Mutant: too large an opcode is taken for the last one.
PyFactoryLast(doc, opcode) ==
  LET all == MessagesOf(doc)
  IN  IF opcode < 0 \/ all = <<>> THEN {}
      ELSE {IF opcode >= Len(all) THEN Last(all).name ELSE all[opcode + 1].name}

\* _all_msgs and MessageFactory: the class an opcode makes, none outside of
\* the tuple.
PyFactory(doc, opcode) ==
  LET all == MessagesOf(doc)
  IN  IF opcode < 0 \/ opcode >= Len(all) THEN {} ELSE {all[opcode + 1].name}
=============================================================================
