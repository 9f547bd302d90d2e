---------------------------- MODULE BpcCompiler ----------------------------
(***************************************************************************)
(* The front end and the code generators together: what the generators     *)
(* make of every protocol body the parser accepts.  The generators run     *)
(* once, over the body as it then stands (compiler.y:666-676), so the      *)
(* properties are about the parser's final states.                         *)
(***************************************************************************)
EXTENDS BpcParser, FiniteSets

Gen == INSTANCE BpcEmit

\* The files without errors.  What a file with errors leaves in the body is
\* the body of the file without the rejected declarations.
CleanSpec == Init /\ [][Next /\ ~thrown']_vars

Generated == pc = "accepted"

StructNodes == {k \in DOMAIN body : body[k].kind \in {"struct", "msg"}}

\* Every generated document is closed and in order: whatever a declaration
\* refers to is written above it under the same name in the same document
\* (or, for the C++ source, in its header), and is no msg.  Each language
\* leaves out other declarations and shows types at another level of aliases.
NamesResolve ==
  Generated => \A out \in Gen!Outputs \ {"cpp"} :
    LET text == Gen!Emitted(out, body)
    IN  \A k \in DOMAIN text : \A name \in text[k].uses :
          \E j \in 1..k - 1 : text[j].name = name /\ text[j].kind # "msg"

\* The C++ source defines the functions of the header's classes, in order.
SourceMatchesHeader ==
  Generated =>
    Gen!Emitted("cpp", body) = Gen!Kept(Gen!Emitted("hpp", body), {"struct", "msg"})

\* No generated document refers to anything it does not define, or defines
\* out of order, the header and the source of C++ taken together.
DocumentsClosed ==
  /\ NamesResolve
  /\ SourceMatchesHeader

\* The factory of every language makes, for an opcode, the class whose
\* GetOpCode it is, and nothing for a number that is no opcode: a tuple
\* indexed by the opcode in Python, switches over names in C# and C++.
FactoriesAgree ==
  Generated => \A code \in -1..Len(body) :
    LET class == {name \in DOMAIN Gen!OpCode(body) : Gen!OpCode(body)[name] = code}
    IN  /\ Gen!PyFactory(body, code) = class
        /\ Gen!CsFactory(body, code) = class
        /\ Gen!CppFactory(body, code) = class

\* The bytes of the first j members of a bonded run, added up without a bound.
RunSize(doc, node, g) ==
  LET sum[j \in 0..g.len] ==
        IF j = 0 THEN 0
        ELSE LET f == node.fields[g.first + j - 1]
             IN  sum[j - 1]
                 + Gen!ElementSize(doc, f) * (IF f.array.is_array THEN f.array.static_array_len ELSE 1)
                 + (IF f.align.use_align THEN f.align.padding_size ELSE 0)
  IN  sum

\* No raw copy, so no natural struct either, has a size that uint32_t wraps.
\* Of a document that has one C++ copies only the remainder.
SizesFit ==
  \A k \in StructNodes :
    LET groups == Gen!GroupsOf(body, body[k], Gen!CppBond)
    IN  \A g \in DOMAIN groups : groups[g].is_bonded =>
          RunSize(body, body[k], groups[g])[groups[g].len] <= MaxOf["uint32"]

\* The six functions generated for a struct or msg agree on every byte: the
\* same data at the same offset, padding included, in all languages, as long
\* as no raw copy is larger than uint32_t can say.
LanguagesAgree ==
  Generated /\ SizesFit =>
    LET ref == Gen!WireBytes("python", "ser", body)
    IN  \A lang \in Gen!Langs, fn \in {"ser", "deser"} :
          Gen!WireBytes(lang, fn, body) = ref

\* A natural struct takes as many bytes on the wire as the layout computed
\* for it, which is what the C++ code and the structs around it rely on.
NaturalSizes ==
  Generated /\ SizesFit => \A k \in StructNodes :
    IsNaturalNode(k) =>
      Len(Gen!WireBytes("csharp", "ser", body)[body[k].name]) = body[k].modifier.struct_size

\* The byte count of a raw C++ copy, added up by the generator, is the size
\* of the members the copy is for, with the placeholders between them.
BlocksAreTheirMembers ==
  Generated /\ SizesFit => \A k \in StructNodes :
    LET node == body[k]
        payload == Gen!Payloads(body)
        groups == Gen!GroupsOf(body, node, Gen!CppBond)
        Bytes(g) ==
          LET upto[n \in 0..g.len] ==
                IF n = 0 THEN 0
                ELSE upto[n - 1] + Len(Gen!PaddedMember(body, node, payload, g.first + n - 1))
          IN  upto[g.len]
    IN  \A g \in DOMAIN groups : groups[g].is_bonded =>
          Gen!BondVarsSize(body, node, groups[g]) = Bytes(groups[g])

\* The sizes the generator adds up in uint32_t are the bytes that are written:
\* those of a natural struct, and those of every raw copy.
SizesAreBytes ==
  /\ NaturalSizes
  /\ BlocksAreTheirMembers

\* The three Python loops number the packers alike: the calls of either
\* function take every packer of the class once, in order, with as many
\* values as its format has.
PackersInOrder ==
  Generated => \A k \in StructNodes :
    LET node == body[k]
        packers == Gen!StructPacker(body, node)
        Values(fmt) == {c \in DOMAIN fmt : fmt[c] # "x"}
        InOrder(instrs) ==
          LET calls == {i \in DOMAIN instrs : instrs[i].op = "packed"}
              Index(i) == Cardinality({j \in calls : j < i})
          IN  /\ Cardinality(calls) = Len(packers)
              /\ \A i \in calls :
                   /\ instrs[i].arg.index = Index(i)
                   /\ Len(instrs[i].at) = Cardinality(Values(packers[Index(i) + 1]))
    IN  InOrder(Gen!PySerialize(body, node)) /\ InOrder(Gen!PyDeserialize(body, node))

\* docs/GenCode.md:21-22: float and double are types of generated C#.  The
\* helper each number is read with is one of functions.cs.
CSharpHelpersExist ==
  Generated => \A k \in StructNodes : \A f \in DOMAIN body[k].fields :
    LET field == body[k].fields[f]
    IN  field.type.full \in BasicTypes \ {"string"} /\ ~field.array.is_array =>
          Gen!CsFormal(field.type.full) \in Gen!CsHelpers
=============================================================================
