----------------------------- MODULE BpcCSharp -----------------------------
(***************************************************************************)
(* The C# generator (codecs.c): nothing is bonded, each variable is read   *)
(* and written by a helper of the snippet functions.cs.                    *)
(***************************************************************************)
EXTENDS BpcGen

\* A single primitive has a call of its own, an array or list of primitives
\* is one buffer, read or written whole.
CsGroupInstr(node, g) ==
  LET f == node.fields[g.first]
  IN  Spread(f, g.first,
        IF f.type.full \notin BasicTypes \ {"string"} THEN TextOrNested(f)
        ELSE IF f.array.is_array THEN NumberOf(f, "tuple") ELSE NumberOf(f, "number"))
      \o PadInstr(f)

\* Deserialize of the class.
CsDeserialize(doc, node) ==
  LET groups == GroupsOf(doc, node, NoBond)
      GroupInstr(i) == CsGroupInstr(node, groups[i])
  IN  Body([g \in DOMAIN groups |-> GroupInstr(g)])

\* Serialize of the class.
CsSerialize(doc, node) ==
  LET groups == GroupsOf(doc, node, NoBond)
      GroupInstr(i) == CsGroupInstr(node, groups[i])
  IN  Body([g \in DOMAIN groups |-> GroupInstr(g)])

\* The constructor: default(string) is null, and so are the strings of a new
\* array; the structs of one are made by a loop.
CsInit(t) ==
  IF t = "string" THEN "null"
  ELSE IF t \in BasicTypes THEN "zero" ELSE "object"

\* MessageFactory: a switch over the names of OpCode.
CsFactory(doc, opcode) ==
  {doc[k].name : k \in {j \in DOMAIN doc : doc[j].kind = "msg" /\ doc[j].index = opcode}}

\* csharp_formal_basic_type: the suffix of the helper for one number.
CsFormal(bt) ==
  CASE bt = "float" -> "Single" [] bt = "double" -> "Double"
    [] bt = "int8" -> "SByte"   [] bt = "uint8" -> "Byte"
    [] bt = "int16" -> "Int16"  [] bt = "uint16" -> "UInt16"
    [] bt = "int32" -> "Int32"  [] bt = "uint32" -> "UInt32"
    [] bt = "int64" -> "Int64"  [] bt = "uint64" -> "UInt64"

\* The _BpRead and _BpWrite helpers of functions.cs.
CsHelpers == {"Byte", "SByte", "UInt16", "Int16", "UInt32", "Int32", "UInt64", "Int64"}
=============================================================================
