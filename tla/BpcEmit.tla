------------------------------ MODULE BpcEmit ------------------------------
(***************************************************************************)
(* The documents of the five generators over the protocol body: which      *)
(* declarations each writes, by what names these refer to each other, and  *)
(* the bytes the classes of one struct write.                              *)
(***************************************************************************)
EXTENDS BpcPython, BpcCSharp, BpcCpp

Outputs == {"py", "cs", "hpp", "cpp", "fbs"}

\* The cases of the loops of *_write_document.
Writes(out) ==
  CASE out = "hpp" -> {"alias", "enum", "struct", "msg"}
    [] out = "cpp" -> {"struct", "msg"}
    [] OTHER       -> {"enum", "struct", "msg"}

\* Python: an alias or enum is shown as the number it is.
PyTypeName(f) == IF f.type.full \in BasicTypes THEN f.type.full ELSE f.type.type

\* Mutant: the name of the field's type is written as it stands in the file.
RawTypeName(f) == f.type.type

\* C# and Flatbuffers: semi_uncover, an alias is shown as its basic type.
SemiTypeName(f) == IF f.type.semi = "none" THEN f.type.full ELSE f.type.semi

\* C++: the type as in the file.
CppTypeName(f) == f.type.type

TypeName(out, f) ==
  CASE out = "py"          -> PyTypeName(f)
    [] out \in {"cs", "fbs"} -> SemiTypeName(f)
    [] OTHER               -> CppTypeName(f)

\* The declaration a generator writes for a node: write_alias, write_enum,
\* write_struct_or_msg.
Declaration(out, node) ==
  [kind |-> node.kind, name |-> node.name,
   uses |-> {TypeName(out, node.fields[k]) : k \in DOMAIN node.fields} \ BasicTypes]

Emitted(out, doc) ==
  LET nodes == Kept(doc, Writes(out))
  IN  [k \in DOMAIN nodes |-> Declaration(out, nodes[k])]

\* The enum OpCode of each language, and GetOpCode of each class.
OpCode(doc) ==
  LET msgs == MessagesOf(doc)
  IN  [name \in {msgs[k].name : k \in DOMAIN msgs} |-> NodeOf(doc, name).index]
-----------------------------------------------------------------------------
(* The bytes a Serialize writes, with a cell before and after the elements  *)
(* of a list, whose number varies, and one for a string.                    *)

NumberBytes(at, bt) == [b \in 1..SizeOf(bt) |-> Cell(at, b, SizeOf(bt))]

Mark(at, what) == <<Cell(at, what, 0)>>

\* inner has the bytes of the structs by name.
ElementBytes(packers, inner, in, at) ==
  CASE in.op = "gap"    -> Placeholder(in.arg)
    [] in.op = "text"   -> Mark(at, "text")
    [] in.op = "nested" -> [c \in DOMAIN inner[in.arg] |->
                              IF inner[in.arg][c].at = <<>> THEN inner[in.arg][c]
                              ELSE [inner[in.arg][c] EXCEPT !.at = at \o @]]
    [] in.op = "block"  -> [c \in 1..in.arg.size |->
                              IF in.arg.mem[c].at = <<>> THEN in.arg.mem[c]
                              ELSE [in.arg.mem[c] EXCEPT !.at = at \o @]]
    [] in.op = "packed" ->
         LET fmt == packers[in.arg.index + 1]
             Nth(i) == Cardinality({j \in 1..i : fmt[j] # "x"})
         IN  FlattenSeq([i \in DOMAIN fmt |->
               IF fmt[i] = "x" THEN Placeholder(1)
               ELSE NumberBytes(<<in.at[Nth(i)]>>, fmt[i])])
    [] in.op \in {"number", "tuple", "raw"} -> NumberBytes(at, in.arg)

InstrBytes(packers, inner, in) ==
  IF in.op # "list"
    THEN ElementBytes(packers, inner, in,
                      IF in.op = "block" /\ in.at = <<>> THEN <<>> ELSE <<in.at>>)
  ELSE LET at == << in.at >>
       IN  Mark(at, "count")
           \o ElementBytes(packers, inner, in.arg, << <<in.at[1], 1>> >>)
           \o Mark(at, "end")

\* The bytes of one struct.
StructBytes(packers, inner, instrs) ==
  FlattenSeq([i \in DOMAIN instrs |-> InstrBytes(packers, inner, instrs[i])])

Langs == {"python", "csharp", "cpp"}

Instrs(lang, fn, doc, node) ==
  CASE lang = "python" /\ fn = "ser"   -> PySerialize(doc, node)
    [] lang = "python" /\ fn = "deser" -> PyDeserialize(doc, node)
    [] lang = "csharp" /\ fn = "ser"   -> CsSerialize(doc, node)
    [] lang = "csharp" /\ fn = "deser" -> CsDeserialize(doc, node)
    [] lang = "cpp" /\ fn = "ser"      -> CppSerialize(doc, node)
    [] lang = "cpp" /\ fn = "deser"    -> CppDeserialize(doc, node)

\* The bytes of every struct and msg, by name.
WireBytes(lang, fn, doc) ==
  LET upto[k \in 0..Len(doc)] ==
        IF k = 0 THEN <<>>
        ELSE LET before == upto[k - 1]
                 packers == StructPacker(doc, doc[k])
                 instrs == Instrs(lang, fn, doc, doc[k])
             IN  IF ~IsStructLike(doc[k]) THEN before
                 ELSE Bind(before, doc[k].name, StructBytes(packers, before, instrs))
  IN  upto[Len(doc)]
=============================================================================
