------------------------- MODULE BpcDocumentProofs -------------------------
(***************************************************************************)
(* Theorems about the document the parser builds: what a natural struct or *)
(* msg contains and where it lies, the refinement of BpcDocument, and what *)
(* the generators make of it, for every vocabulary, every width of the     *)
(* integers and files of any length.                                       *)
(***************************************************************************)
EXTENDS BpcCompiler, BpcParserProofs, FiniteSetTheorems

\* A field that a natural declaration may have, as the registry knows it now.
Allowed(field) ==
  /\ field.array.is_array => field.array.static_array_len > 0
  /\ field.type.full # "string"
  /\ field.type.full = None => ~IdentifierGet(field.type.type).modifier.is_narrow

NaturalKind(node) == node.kind \in {"struct", "msg"} /\ ~node.modifier.is_narrow

NodeClosed(node) ==
  NaturalKind(node) => \A f \in 1..Len(node.fields) : Allowed(node.fields[f])

\* Behind a type without a basic type is a declaration that is registered.
LEMMA BehindStruct ==
  ASSUME IInv, Open, NEW type, Resolved(type), type.full = None
  PROVE  type.type \notin BasicTypes /\ IdentifierTest(type.type)
<1>1. type.type \notin BasicTypes
  BY NoneFacts DEF Resolved, Analyse
<1> QED
  BY <1>1 DEF Resolved, VariableTypeOK

\* The fields of the document are records of fields with resolved types.
LEMMA BodyFields ==
  ASSUME IInv, Open, NEW k \in 1..Len(body), NEW f \in 1..Len(body[k].fields)
  PROVE  body[k].fields[f] \in FieldRecord /\ Resolved(body[k].fields[f].type)
<1>0. body[k] \in NodeType
  BY DEF IInv, TypeOK
<1>1. body[k].fields \in FieldsType
  BY <1>0 DEF NodeType
<1>2. body[k].fields[f] \in FieldRecord
  BY <1>1, FieldsAreRecords
<1>3. body[k].fields[f].type \in VariableType
  BY <1>2 DEF FieldRecord
<1> QED
  BY <1>2, <1>3 DEF IInv, BodyInv, BodyResolved, BodyTypes

\* A struct or msg that comes out natural has only fields that may be in it.
LEMMA SetupClosed ==
  ASSUME IInv, Open, NEW kind \in {"struct", "msg"},
         \A f \in 1..Len(decl.fields) : Resolved(decl.fields[f].type),
         ~SetupModifier(LayoutView(decl.fields), decl.modifier).is_narrow
  PROVE  \A f \in 1..Len(decl.fields) : Allowed(decl.fields[f])
<1> DEFINE view == LayoutView(decl.fields)
<1>1. decl.fields \in FieldsType /\ decl.modifier \in ModifierType
  BY DEF IInv, TypeOK, DeclarationType
<1>2. DOMAIN view = 1..Len(decl.fields)
  BY <1>1, LayoutViewFacts DEF IInv
<1>3. \A f \in 1..Len(decl.fields) : view[f].fixed = IsFixed(decl.fields[f])
  BY DEF LayoutView
<1> HIDE DEF view
<1>4. ~IsNarrow(view, decl.modifier)
  BY <1>1 DEF SetupModifier, ModifierType, view
<1>5. CanBeNatural(view)
  BY <1>4 DEF IsNarrow
<1> SUFFICES ASSUME NEW f \in 1..Len(decl.fields) PROVE Allowed(decl.fields[f])
  OBVIOUS
<1> DEFINE field == decl.fields[f]
<1>6. IsFixed(field)
  BY <1>2, <1>3, <1>5 DEF CanBeNatural
<1>7. field.array \in ArrayType
  BY <1>1, FieldsAreRecords DEF FieldRecord
<1> HIDE DEF field
<1>8. field.array.is_array => field.array.static_array_len > 0
  <2>1. field.array.is_array => field.array.is_static_array
    BY <1>6 DEF IsFixed
  <2>2. ~NoArray.is_array /\ ~ListArray.is_static_array
    BY DEF NoArray, ListArray
  <2>3. \A n \in U32Values \ {0} : TupleArray(n).static_array_len > 0
    BY U32Facts DEF TupleArray
  <2> QED
    BY <1>7, <2>1, <2>2, <2>3 DEF ArrayType
<1>9. /\ field.type.full # "string"
      /\ field.type.full = None => ~IdentifierGet(field.type.type).modifier.is_narrow
  BY <1>6 DEF IsFixed, None
<1> QED
  BY <1>8, <1>9 DEF Allowed, field

\* A declaration added to the document changes no other: what was looked up
\* through the registry still comes out the same.
LEMMA AddNodeKeeps ==
  ASSUME IInv, Open, NEW node \in NodeType, ~IdentifierTest(node.name), AddNode(node)
  PROVE  /\ Len(body') = Len(body) + 1 /\ body'[Len(body) + 1] = node
         /\ \A k \in 1..Len(body) : body'[k] = body[k]
         /\ \A n : IdentifierTest(n) => IdentifierGet(n)' = IdentifierGet(n)
<1>1. /\ body \in Seq(NodeType) /\ Len(body) \in Nat
      /\ body' = Append(body, node)
      /\ idents' = [m \in DOMAIN idents \cup {node.name} |->
                     IF m = node.name THEN Len(body) + 1 ELSE idents[m]]
      /\ \A m \in DOMAIN idents : idents[m] \in 1..Len(body)
  BY DEF IInv, TypeOK, AddNode, Open
<1>2. /\ Len(body') = Len(body) + 1 /\ body'[Len(body) + 1] = node
      /\ \A k \in 1..Len(body) : body'[k] = body[k]
  BY <1>1
<1>3. \A m \in DOMAIN idents : idents'[m] = idents[m]
  BY <1>1 DEF IdentifierTest
<1> QED
  BY <1>1, <1>2, <1>3 DEF IdentifierTest, IdentifierGet

\* What an accepted declaration must satisfy for the document to stay closed.
LEMMA AddNodeClosed ==
  ASSUME IInv, Open, NaturalClosed,
         NEW node \in NodeType, ~IdentifierTest(node.name), AddNode(node),
         \A f \in 1..Len(node.fields) : Resolved(node.fields[f].type),
         NodeClosed(node)
  PROVE  NaturalClosed'
<1> DEFINE n == Len(body)
<1>1. /\ n \in Nat /\ Len(body') = n + 1 /\ body'[n + 1] = node
      /\ \A k \in 1..n : body'[k] = body[k]
      /\ \A m : IdentifierTest(m) => IdentifierGet(m)' = IdentifierGet(m)
  BY AddNodeKeeps DEF IInv, TypeOK
<1>2. \A k \in 1..n : NodeClosed(body[k])
  BY DEF NaturalClosed, NodeClosed, NaturalKind, Allowed, IsNaturalNode
<1>3. SUFFICES ASSUME NEW k \in 1..(n + 1), NaturalKind(body'[k]),
                      NEW f \in 1..Len(body'[k].fields),
                      NEW field, field = body'[k].fields[f]
               PROVE  Allowed(field)'
  <2>1. ASSUME \A k \in 1..(n + 1) : NaturalKind(body'[k]) =>
                 \A f \in 1..Len(body'[k].fields) :
                   \A field : field = body'[k].fields[f] => Allowed(field)'
        PROVE  NaturalClosed'
    BY <1>1, <2>1 DEF NaturalClosed, NaturalKind, Allowed, IsNaturalNode
  <2> QED
    BY <2>1
<1>4. Allowed(field) /\ Resolved(field.type)
  <2>1. CASE k = n + 1
    BY <1>1, <1>3, <2>1 DEF NodeClosed
  <2>2. CASE k \in 1..n
    BY <1>1, <1>2, <1>3, <2>2, BodyFields DEF NodeClosed
  <2> QED
    BY <1>1, <2>1, <2>2
<1>5. field.type.full = None => IdentifierGet(field.type.type)' = IdentifierGet(field.type.type)
  BY <1>1, <1>4, BehindStruct
<1> QED
  BY <1>4, <1>5 DEF Allowed
-----------------------------------------------------------------------------
(* What a step does to the document *)

\* The node is that of the struct or msg whose braces were just closed.
LaidOut(node) ==
  LET m == SetupModifier(LayoutView(decl.fields), decl.modifier)
  IN  /\ node.fields = SetupFields(decl.fields, decl.modifier)
      /\ node.modifier.is_narrow = m.is_narrow
      /\ node.modifier.struct_size = m.struct_size
      /\ node.modifier.struct_unit_size = m.struct_unit_size

\* A declaration is accepted.
Accepts(node) ==
  /\ ~IdentifierTest(node.name) /\ AddNode(node)
  /\ \A f \in 1..Len(node.fields) : Resolved(node.fields[f].type)
  /\ node.index = IF node.kind = "msg" THEN msgIndex ELSE 0
  /\ node.kind \in {"alias", "enum"} => node.fields = <<>>
  /\ node.kind \in {"struct", "msg"} =>
       /\ pc = "fields" /\ LaidOut(node)
       /\ \A f \in 1..Len(decl.fields) : Resolved(decl.fields[f].type)

\* An alias or enum is accepted as a node without fields.
LEMMA AliasOrEnumAccepted ==
  ASSUME IInv, AliasEnd \/ EnumEnd
  PROVE  UNCHANGED <<body, idents>> \/ \E node \in NodeType : Accepts(node)
<1>1. /\ Open /\ TypeOK /\ decl.name \in Names
      /\ pc \in {"memberNext", "memberSep"} => decl.member \in Names
  BY DEF AliasEnd, EnumEnd, Open, IInv, StageInv, Final, NamedStates, MemberStates, EnumBraces
<1>2. CASE AliasEnd
  <2>1. CASE IdentifierTest(decl.name)
    BY <1>2, <2>1 DEF AliasEnd, UnwindToBody, registries
  <2>2. CASE ~IdentifierTest(decl.name)
    <3> DEFINE node == Node("alias")
    <3>1. AddNode(node)
      BY <1>2, <2>2 DEF AliasEnd
    <3>2. node \in NodeType
      BY <1>1, NodeIsNode DEF Kinds
    <3>3. /\ node.name = decl.name /\ node.kind = "alias" /\ node.fields = <<>>
          /\ node.index = 0
      BY DEF Node
    <3> HIDE DEF node
    <3>4. Accepts(node)
      BY <2>2, <3>1, <3>3 DEF Accepts
    <3> QED
      BY <3>2, <3>4
  <2> QED
    BY <2>1, <2>2
<1>3. CASE EnumEnd
  <2>1. pc \in {"memberNext", "memberSep"}
    BY <1>3 DEF EnumEnd
  <2>2. CASE /\ ~DuplicateMember /\ decl.bt \in IntegerTypes
             /\ ~IdentifierTest(decl.name) /\ EnumAccepted(Members, decl.bt)
    <3>1. AddNode(EnumNode)
      BY <1>3, <2>2 DEF EnumEnd
    <3>2. /\ EnumNode \in NodeType /\ EnumNode.name = decl.name
          /\ EnumNode.kind = "enum" /\ EnumNode.fields = <<>>
      BY <1>1, <2>1, <2>2, EnumNodeIsNode
    <3>3. EnumNode.index = 0
      BY DEF EnumNode, Node
    <3>4. Accepts(EnumNode)
      BY <2>2, <3>1, <3>2, <3>3 DEF Accepts
    <3> QED
      BY <3>2, <3>4
  <2>3. CASE \E t : UnwindToBody(t)
    BY <2>3 DEF UnwindToBody, registries
  <2> QED
    BY <1>3, <2>2, <2>3 DEF EnumEnd
<1> QED
  BY <1>2, <1>3

\* A struct or msg is accepted as it was laid out.
LEMMA StructOrMsgAccepted ==
  ASSUME IInv, StructEnd \/ MsgEnd
  PROVE  UNCHANGED <<body, idents>> \/ \E node \in NodeType : Accepts(node)
<1>1. pc = "fields" /\ Open /\ TypeOK
  BY DEF StructEnd, MsgEnd, Open, Final, IInv
<1>2. /\ decl.name \in Names
      /\ \A f \in 1..Len(decl.fields) : Resolved(decl.fields[f].type)
  BY <1>1 DEF IInv, StageInv, NamedStates, StructBraces, FieldStates
<1>3. CASE \E t : UnwindToBody(t)
  BY <1>3 DEF UnwindToBody, registries
<1>4. decl.fields \in FieldsType /\ decl.modifier \in ModifierType
  BY <1>1 DEF TypeOK, DeclarationType
<1> DEFINE m == SetupModifier(LayoutView(decl.fields), decl.modifier)
           node == StructNode("struct")
           msg  == StructNode("msg")
<1>5. m \in ModifierType
  BY <1>1, <1>2, <1>4, SetupType
<1>6. /\ node \in NodeType /\ node.name = decl.name
      /\ node.fields = SetupFields(decl.fields, decl.modifier)
      /\ msg \in NodeType
  BY <1>1, <1>2, StructNodeIsNode DEF Kinds
<1>7. node.modifier = m /\ msg.modifier = m /\ node.kind = "struct" /\ node.index = 0
  BY DEF StructNode, Node
<1>8. /\ MsgNode \in NodeType /\ MsgNode.name = decl.name
      /\ MsgNode.fields = SetupFields(decl.fields, decl.modifier)
      /\ MsgNode.kind = "msg" /\ MsgNode.index = msgIndex
  BY <1>1, <1>2, MsgNodeIsNode
<1> HIDE DEF m
<1>9. /\ MsgNode.modifier.is_narrow = m.is_narrow
      /\ MsgNode.modifier.struct_size = m.struct_size
      /\ MsgNode.modifier.struct_unit_size = m.struct_unit_size
  <2> HIDE DEF msg
  <2>1. MsgNode.modifier = [m EXCEPT !.has_set_reliability = TRUE,
                                     !.is_reliable = m.has_set_reliability => m.is_reliable]
    BY <1>6, <1>7 DEF MsgNode, NodeType, msg
  <2> QED
    BY <1>5, <2>1 DEF ModifierType
<1>10. \A f \in 1..Len(SetupFields(decl.fields, decl.modifier)) :
         Resolved(SetupFields(decl.fields, decl.modifier)[f].type)
  BY <1>1, <1>2, <1>4, SetupType
<1> HIDE DEF node, msg
<1>11. CASE StructEnd /\ AddNode(node) /\ ~IdentifierTest(decl.name)
  <2>1. Accepts(node)
    BY <1>1, <1>2, <1>6, <1>7, <1>10, <1>11 DEF Accepts, LaidOut, m
  <2> QED
    BY <1>6, <2>1
<1>12. CASE MsgEnd /\ AddNode(MsgNode) /\ ~IdentifierTest(decl.name)
  <2>1. Accepts(MsgNode)
    BY <1>1, <1>2, <1>8, <1>9, <1>10, <1>12 DEF Accepts, LaidOut, m
  <2> QED
    BY <1>8, <2>1
<1> QED
  BY <1>3, <1>11, <1>12 DEF StructEnd, MsgEnd, node

\* While the parser runs, a step leaves document and registry alone or accepts
\* one declaration.
LEMMA StepShape ==
  ASSUME IInv, [Next]_vars, Open'
  PROVE  Open /\ (UNCHANGED <<body, idents>> \/ \E node \in NodeType : Accepts(node))
<1> USE DEF HeadStates, DeclStates, FieldStates, ErrorStates, Final
<1> DEFINE Quiet == Open /\ UNCHANGED <<body, idents>>
<1>1. CASE HeadToken \/ VersionNumber \/ HeadEnd
  BY <1>1 DEF HeadToken, VersionNumber, HeadEnd, HeadMoves, Open, registries
<1>2. CASE HeadError \/ EndOfFile
  BY <1>2 DEF HeadError, EndOfFile, Abort, Accept, Open
<1>3. CASE SyntaxErrorInDecl \/ SyntaxErrorInFields
  BY <1>3 DEF SyntaxErrorInDecl, SyntaxErrorInFields, UnwindToBody, UnwindToFields, Open, registries
<1>4. ASSUME NEW kind \in {"alias", "enum", "struct", "msg"}, Keyword(kind) PROVE Quiet
  BY <1>4 DEF Keyword, Stay, Open, registries
<1>5. ASSUME NEW n \in Names, DeclName(n) \/ MemberName(n) \/ FieldName(n) PROVE Quiet
  BY <1>5 DEF DeclName, MemberName, FieldName, UnwindToFields, Stay, Open, registries
<1>6. ASSUME NEW t \in Types, DeclType(t) PROVE Quiet
  BY <1>6 DEF DeclType, Stay, Open, registries
<1>7. CASE LeftBrace \/ MemberEqual \/ MemberComma
  BY <1>7 DEF LeftBrace, MemberEqual, MemberComma, UnwindToBody, Stay, Open, registries
<1>8. ASSUME NEW v \in EnumNumbers, MemberNumber(v) PROVE Quiet
  BY <1>8 DEF MemberNumber, UnwindToBody, Stay, Open, registries
<1>9. ASSUME NEW r \in BOOLEAN, Reliability(r) \/ FieldLayout(r) PROVE Quiet
  BY <1>9 DEF Reliability, FieldLayout, SetModifier, UnwindToBody, Stay, Open, registries
<1>10. ASSUME NEW t \in Types \cup Names, FieldType(t) PROVE Quiet
  BY <1>10 DEF FieldType, UnwindToFields, Stay, Open, registries
<1>11. CASE FieldList \/ (\E n \in TupleNumbers : FieldTuple(n)) \/ (\E n \in AlignNumbers : FieldAlign(n))
  BY <1>11 DEF FieldList, FieldTuple, FieldAlign, SetArray, UnwindToFields, Stay, Open, registries
<1>12. CASE FieldComma \/ FieldEnd
  BY <1>12 DEF FieldComma, FieldEnd, Stay, Open, registries
<1>13. CASE BodyRecovery \/ FieldsRecovery \/ LexError
  BY <1>13 DEF BodyRecovery, FieldsRecovery, LexError, Resume, Open, registries
<1>14. CASE UNCHANGED vars
  BY <1>14 DEF vars, registries, Open
<1>15. CASE AliasEnd \/ EnumEnd \/ StructEnd \/ MsgEnd
  <2>1. Open
    BY <1>15 DEF AliasEnd, EnumEnd, StructEnd, MsgEnd, Open
  <2> QED
    BY <1>15, <2>1, AliasOrEnumAccepted, StructOrMsgAccepted
<1> HIDE DEF Quiet
<1>16. Reliabilities \subseteq BOOLEAN /\ Layouts \subseteq BOOLEAN
  BY NamesAssumption
<1>17. Quiet \/ (Open /\ (UNCHANGED <<body, idents>> \/ \E node \in NodeType : Accepts(node)))
  BY <1>1, <1>2, <1>3, <1>4, <1>5, <1>6, <1>7, <1>8, <1>9, <1>10, <1>11, <1>12,
     <1>13, <1>14, <1>15, <1>16 DEF Next
<1> QED
  BY <1>17 DEF Quiet
-----------------------------------------------------------------------------
(* What a natural declaration contains *)

\* A declaration that is accepted natural contains only what it may.
LEMMA AcceptedClosed ==
  ASSUME IInv, Open, NEW node \in NodeType, Accepts(node)
  PROVE  NodeClosed(node)
<1> SUFFICES ASSUME NaturalKind(node), NEW f \in 1..Len(node.fields)
             PROVE  Allowed(node.fields[f])
  BY DEF NodeClosed
<1>1. /\ node.fields = SetupFields(decl.fields, decl.modifier)
      /\ ~SetupModifier(LayoutView(decl.fields), decl.modifier).is_narrow
      /\ \A g \in 1..Len(decl.fields) : Resolved(decl.fields[g].type)
      /\ node.kind \in {"struct", "msg"}
  BY DEF Accepts, LaidOut, NaturalKind
<1>2. decl.fields \in FieldsType /\ decl.modifier \in ModifierType
  BY DEF IInv, TypeOK, DeclarationType
<1>3. /\ f \in 1..Len(decl.fields)
      /\ node.fields[f].type = decl.fields[f].type
      /\ node.fields[f].array = decl.fields[f].array
  BY <1>1, <1>2, SetupType DEF IInv
<1>4. Allowed(decl.fields[f])
  BY <1>1, <1>3, SetupClosed
<1> QED
  BY <1>3, <1>4 DEF Allowed

\* A natural struct or msg has no list, no string and no narrow struct in it,
\* as the registry knows them at any later time: what bpcsmtv_setup_field_layout
\* found when the braces were closed stays true.
THEOREM NaturalClosedHolds == Spec => []NaturalClosed
<1>1. Init => NaturalClosed
  BY DEF Init, NaturalClosed
<1>2. ASSUME IInv, NaturalClosed, [Next]_vars PROVE NaturalClosed'
  <2>1. CASE ~Open'
    BY <2>1 DEF NaturalClosed
  <2>2. CASE Open' /\ UNCHANGED <<body, idents>>
    <3>1. Open
      BY <1>2, <2>2, StepShape
    <3> QED
      BY <1>2, <2>2, <3>1 DEF NaturalClosed, IsNaturalNode, IdentifierGet
  <2>3. CASE Open' /\ \E node \in NodeType : Accepts(node)
    <3>1. PICK node \in NodeType : Accepts(node)
      BY <2>3
    <3>2. Open
      BY <1>2, <2>3, StepShape
    <3>3. NodeClosed(node)
      BY <1>2, <3>1, <3>2, AcceptedClosed
    <3> QED
      BY <1>2, <3>1, <3>2, <3>3, AddNodeClosed DEF Accepts
  <2> QED
    BY <1>2, <2>1, <2>2, <2>3, StepShape
<1> QED
  BY <1>1, <1>2, Invariance, PTL DEF Spec
-----------------------------------------------------------------------------
(* Where the fields of a natural declaration lie *)

PaddingOf(field) == IF field.align.use_align THEN field.align.padding_size ELSE 0

\* Adding up sizes and paddings has only one result.
LEMMA OffsetsFacts ==
  ASSUME NEW fields, NEW view, NEW run, Len(fields) \in Nat, run[0] = 0,
         \A k \in 1..Len(fields) :
           run[k] = U32(run[k - 1] + RealSize(view[k]) + PaddingOf(fields[k]))
  PROVE  \A f \in 1..(Len(fields) + 1) : Offsets(fields, view)[f] = run[f - 1]
<1> DEFINE n == Len(fields)
           Add(f, offset) == U32(offset + RealSize(view[f - 1]) + PaddingOf(fields[f - 1]))
           Rec(g) == [f \in 1..(n + 1) |-> IF f = 1 THEN 0 ELSE Add(f, g[f - 1])]
<1>1. Offsets(fields, view) = CHOOSE g : g = Rec(g)
  BY DEF Offsets, PaddingOf
<1>2. \A k \in 1..n : run[k] = Add(k + 1, run[k - 1])
  BY Z3
<1> HIDE DEF Add
<1> DEFINE h == [f \in 1..(n + 1) |-> run[f - 1]]
<1>3. h = Rec(h)
  <2> SUFFICES ASSUME NEW f \in 1..(n + 1)
               PROVE  h[f] = IF f = 1 THEN 0 ELSE Add(f, h[f - 1])
    OBVIOUS
  <2>1. CASE f = 1
    BY <2>1
  <2>2. CASE f # 1
    <3>1. /\ f - 1 \in 1..n /\ (f - 1) + 1 = f /\ f - 1 \in 1..(n + 1)
      BY <2>2
    <3>2. run[f - 1] = Add(f, run[(f - 1) - 1])
      BY <1>2, <3>1
    <3>3. h[f] = run[f - 1] /\ h[f - 1] = run[(f - 1) - 1]
      BY <3>1
    <3> QED
      BY <2>2, <3>2, <3>3
  <2> QED
    BY <2>1, <2>2
<1> HIDE DEF Rec, h
<1> DEFINE o == Offsets(fields, view)
<1>4. o = Rec(o)
  BY <1>1, <1>3
<1> HIDE DEF o
<1>5. \A f \in 1..(n + 1) : o[f] = IF f = 1 THEN 0 ELSE Add(f, o[f - 1])
  BY <1>4 DEF Rec
<1> DEFINE Same == {k \in 0..n : o[k + 1] = run[k]}
<1>6. 0 \in Same
  BY <1>5
<1>7. \A k \in 1..n : k - 1 \in Same => k \in Same
  <2> SUFFICES ASSUME NEW k \in 1..n, o[k] = run[k - 1] PROVE k \in Same
    OBVIOUS
  <2>1. k + 1 \in 1..(n + 1) /\ k + 1 # 1 /\ (k + 1) - 1 = k
    OBVIOUS
  <2>2. o[k + 1] = Add(k + 1, o[k])
    BY <1>5, <2>1
  <2> QED
    BY <1>2, <2>2
<1> HIDE DEF Same
<1>8. 0..n \subseteq Same
  BY <1>6, <1>7, SegmentInduction
<1>9. ASSUME NEW f \in 1..(n + 1) PROVE o[f] = run[f - 1]
  <2>1. f - 1 \in 0..n /\ (f - 1) + 1 = f
    OBVIOUS
  <2>2. f - 1 \in Same
    BY <1>8, <2>1
  <2> QED
    BY <2>1, <2>2 DEF Same
<1> QED
  BY <1>9 DEF o

\* The padding of a field that was laid out is what the rules say.
LEMMA AlignedPadding ==
  ASSUME NEW pad, NEW p \in Nat, NEW field, field.align = Aligned(pad, p),
         pad \in AlignType
  PROVE  PaddingOf(field) = p
BY DEF PaddingOf, Aligned, AlignType

\* What the rules say of a field's end holds where the next one starts.
LEMMA RunAligned ==
  ASSUME NEW view, DOMAIN view = 1..Len(view), WellFormed(view)
  PROVE  /\ \A f \in 1..Len(view) : SizeAfter(view)[f - 1] % view[f].align = 0
         /\ SizeAfter(view)[Len(view)] % UnitSize(view) = 0
<1> DEFINE n == Len(view)
           unit == UnitSize(view)
           s == SizeAfter(view)
<1>1. n \in Nat /\ unit \in Alignments /\ s \in [0..n -> U32Limit] /\ s[0] = 0
      /\ U32Limit \subseteq Nat /\ \A f \in 1..n : view[f].align \in Alignments
  BY UnitSizeFacts, SizeAfterFacts, WidthFacts DEF WellFormed, U32Limit
<1>0. \A k \in 1..n :
        LET end == s[k - 1] + RealSize(view[k])
        IN  s[k] = U32(end + Padding(Boundary(view, unit, k), end))
  BY SizeAfterFacts
<1> HIDE DEF s, unit, n
<1>2. ASSUME NEW k \in 1..n PROVE s[k] % Boundary(view, unit, k) = 0
  <2>0. n \in Nat /\ k - 1 \in 0..n
    BY <1>1
  <2>1. s[k - 1] \in Nat
    BY <1>1, <2>0
  <2> DEFINE end == s[k - 1] + RealSize(view[k])
             padding == Padding(Boundary(view, unit, k), end)
  <2>2. ASSUME NEW size \in Nat
        PROVE  U32((size + RealSize(view[k])) +
                     Padding(Boundary(view, unit, k), size + RealSize(view[k])))
                 % Boundary(view, unit, k) = 0
    BY <1>1, PlaceFacts DEF n
  <2>3. U32(end + padding) % Boundary(view, unit, k) = 0
    BY <2>1, <2>2
  <2> QED
    BY <1>0, <2>3
<1>3. \A a \in Alignments : 0 % a = 0
  BY DEF Alignments
<1>4. ASSUME NEW f \in 1..n PROVE s[f - 1] % view[f].align = 0
  <2>1. CASE f = 1
    BY <1>1, <1>3, <2>1
  <2>2. CASE f # 1
    <3>1. f - 1 \in 1..n /\ f - 1 # n /\ (f - 1) + 1 = f
      BY <1>1, <2>2
    <3> QED
      BY <1>2, <3>1 DEF Boundary, n
  <2> QED
    BY <2>1, <2>2
<1>5. s[n] % unit = 0
  <2>1. CASE n = 0
    BY <1>1, <1>3, <2>1
  <2>2. CASE n # 0
    <3>1. n \in 1..n
      BY <1>1, <2>2
    <3> QED
      BY <1>2, <3>1 DEF Boundary, n
  <2> QED
    BY <2>1, <2>2
<1> QED
  BY <1>4, <1>5 DEF s, unit, n

\* Adding up sizes and paddings leads to a multiple of every field's alignment
\* and, at the end, to struct_size.
Aligns(node, view) ==
  LET offset == Offsets(node.fields, view)
      end    == offset[Len(node.fields) + 1]
  IN  /\ \A f \in 1..Len(node.fields) : offset[f] % view[f].align = 0
      /\ end % node.modifier.struct_unit_size = 0
      /\ node.modifier.struct_size = IF end = 0 THEN 1 ELSE end

NodeAligned(node) == NaturalKind(node) => Aligns(node, LayoutView(node.fields))

\* The view of fields that were laid out differs from the one they were laid
\* out by only in their paddings.
LEMMA SetupView ==
  ASSUME IInv, Open, \A f \in 1..Len(decl.fields) : Resolved(decl.fields[f].type)
  PROVE  LET fields == SetupFields(decl.fields, decl.modifier)
         IN  \A f \in 1..Len(decl.fields) :
               /\ LayoutView(fields)[f].align = LayoutView(decl.fields)[f].align
               /\ RealSize(LayoutView(fields)[f]) = RealSize(LayoutView(decl.fields)[f])
<1> DEFINE fields == SetupFields(decl.fields, decl.modifier)
<1>1. decl.fields \in FieldsType /\ decl.modifier \in ModifierType
  BY DEF IInv, TypeOK, DeclarationType
<1>2. /\ Len(fields) = Len(decl.fields)
      /\ \A f \in 1..Len(decl.fields) : /\ fields[f].type = decl.fields[f].type
                                        /\ fields[f].array = decl.fields[f].array
  BY <1>1, SetupType DEF IInv
<1> HIDE DEF fields
<1>3. ASSUME NEW f \in 1..Len(decl.fields)
      PROVE  /\ LayoutView(fields)[f].align = LayoutView(decl.fields)[f].align
             /\ LayoutView(fields)[f].size = LayoutView(decl.fields)[f].size
             /\ LayoutView(fields)[f].array = LayoutView(decl.fields)[f].array
  BY <1>2 DEF LayoutView, TypeSize, TypeAlign
<1> QED
  BY <1>3 DEF RealSize, fields

\* A natural declaration is accepted with the paddings that align its fields.
LEMMA AcceptedAligned ==
  ASSUME IInv, Open, NEW node \in NodeType, Accepts(node)
  PROVE  NodeAligned(node)
<1> SUFFICES ASSUME NaturalKind(node) PROVE Aligns(node, LayoutView(node.fields))
  BY DEF NodeAligned
<1> DEFINE fs    == decl.fields
           m     == decl.modifier
           view  == LayoutView(fs)
           after == LayoutView(node.fields)
           s     == SizeAfter(view)
           n     == Len(fs)
<1>1. /\ node.fields = SetupFields(fs, m)
      /\ node.modifier.is_narrow = SetupModifier(view, m).is_narrow
      /\ node.modifier.struct_size = SetupModifier(view, m).struct_size
      /\ node.modifier.struct_unit_size = SetupModifier(view, m).struct_unit_size
      /\ \A f \in 1..Len(fs) : Resolved(fs[f].type)
  BY DEF Accepts, LaidOut, NaturalKind
<1>2. fs \in FieldsType /\ m \in ModifierType /\ n \in Nat
      /\ \A f \in 1..n : fs[f] \in FieldRecord
  BY FieldsAreRecords DEF IInv, TypeOK, DeclarationType
<1>3. DOMAIN view = 1..Len(view) /\ Len(view) = n /\ WellFormed(view)
  BY <1>1, <1>2, LayoutViewFacts DEF IInv
<1>4. \A f \in 1..n : /\ after[f].align = view[f].align
                      /\ RealSize(after[f]) = RealSize(view[f])
  BY <1>1, SetupView
<1>5. ~IsNarrow(view, m)
  BY <1>1, <1>2 DEF NaturalKind, SetupModifier, ModifierType
<1>6. /\ node.modifier.struct_size = StructSize(view)
      /\ node.modifier.struct_unit_size = UnitSize(view)
  BY <1>1, <1>2, <1>5 DEF SetupModifier, ModifierType
<1>7. \A f \in 1..n : view[f].pad = fs[f].align
  BY <1>3 DEF LayoutView
<1>8. Len(node.fields) = n
  BY <1>1, <1>2, SetupType DEF IInv
<1>9. \A f \in 1..n : node.fields[f].align = SetupPad(view, m, f)
  BY <1>1, <1>2 DEF SetupFields, FieldRecord
<1> HIDE DEF view, after
<1>10. /\ s \in [0..n -> U32Limit] /\ s[0] = 0
       /\ \A k \in 1..n :
            LET end == s[k - 1] + RealSize(view[k])
            IN  s[k] = U32(end + Padding(Boundary(view, UnitSize(view), k), end))
  BY <1>3, SizeAfterFacts
<1>11. UnitSize(view) \in Alignments /\ U32Limit \subseteq Nat
  BY <1>3, UnitSizeFacts, WidthFacts DEF U32Limit
<1>12. ASSUME NEW k \in 1..n
       PROVE  /\ PaddingOf(node.fields[k]) = PaddingAfter(view, k)
              /\ s[k] = U32(s[k - 1] + RealSize(after[k]) + PaddingAfter(view, k))
  <2>1. k - 1 \in 0..n
    BY <1>2
  <2>2. s[k - 1] \in Nat
    BY <1>10, <1>11, <2>1
  <2>3. PaddingAfter(view, k) \in Nat
    <3>1. \A size \in Nat : Padding(Boundary(view, UnitSize(view), k),
                                    size + RealSize(view[k])) \in 0..3
      BY <1>3, <1>11, PlaceFacts
    <3>2. PaddingAfter(view, k) \in 0..3
      BY <2>2, <3>1 DEF PaddingAfter
    <3> QED
      BY <3>2
  <2>4. node.fields[k].align = Aligned(fs[k].align, PaddingAfter(view, k))
    BY <1>5, <1>7, <1>9 DEF SetupPad
  <2>5. fs[k].align \in AlignType
    BY <1>2 DEF FieldRecord
  <2>6. PaddingOf(node.fields[k]) = PaddingAfter(view, k)
    BY <2>3, <2>4, <2>5, AlignedPadding
  <2> QED
    BY <1>4, <1>10, <2>6 DEF PaddingAfter
<1> HIDE DEF s
<1>13. \A f \in 1..(n + 1) : Offsets(node.fields, after)[f] = s[f - 1]
  BY <1>2, <1>8, <1>10, <1>12, OffsetsFacts, SMTT(60)
<1>14. /\ \A f \in 1..n : s[f - 1] % view[f].align = 0
       /\ s[n] % UnitSize(view) = 0
  BY <1>3, RunAligned DEF s
<1>15. StructSize(view) = IF s[n] = 0 THEN 1 ELSE s[n]
  BY <1>3 DEF StructSize, s
<1> DEFINE offset == Offsets(node.fields, after)
<1>16. /\ offset[n + 1] = s[n]
       /\ \A f \in 1..n : offset[f] % after[f].align = 0
  <2> HIDE DEF offset
  <2>1. n + 1 \in 1..(n + 1) /\ (n + 1) - 1 = n
    BY <1>2
  <2>2. \A f \in 1..n : f \in 1..(n + 1)
    BY <1>2
  <2> QED
    BY <1>4, <1>13, <1>14, <2>1, <2>2 DEF offset
<1> QED
  BY <1>6, <1>8, <1>14, <1>15, <1>16 DEF Aligns, after

\* Accepting a declaration does not change the view of fields that are
\* resolved.
LEMMA ViewKept ==
  ASSUME IInv, Open, NEW node \in NodeType, Accepts(node), NEW fields,
         \A f \in 1..Len(fields) : Resolved(fields[f].type)
  PROVE  LayoutView(fields)' = LayoutView(fields)
<1>1. \A n : IdentifierTest(n) => IdentifierGet(n)' = IdentifierGet(n)
  BY AddNodeKeeps DEF Accepts
<1>2. ASSUME NEW f \in 1..Len(fields), fields[f].type.full = None
      PROVE  IdentifierGet(fields[f].type.type)' = IdentifierGet(fields[f].type.type)
  BY <1>1, <1>2, BehindStruct
<1> QED
  BY <1>2 DEF LayoutView, IsFixed, TypeSize, TypeAlign

\* The paddings written into a natural struct or msg stay right for the structs
\* it contains, as the registry knows them at any later time.
THEOREM NaturalAlignedHolds == Spec => []NaturalAligned
<1>0. NaturalAligned <=> (Open => \A k \in 1..Len(body) : NodeAligned(body[k]))
  BY DEF NaturalAligned, NodeAligned, Aligns, IsNaturalNode, NaturalKind
<1>1. Init => NaturalAligned
  BY DEF Init, NaturalAligned
<1>2. ASSUME IInv, NaturalAligned, [Next]_vars PROVE NaturalAligned'
  <2>1. CASE ~Open'
    BY <2>1 DEF NaturalAligned
  <2>2. CASE Open' /\ UNCHANGED <<body, idents>>
    <3>1. Open
      BY <1>2, <2>2, StepShape
    <3>2. ASSUME NEW fields PROVE LayoutView(fields)' = LayoutView(fields)
      BY <2>2 DEF LayoutView, IsFixed, TypeSize, TypeAlign, IdentifierGet
    <3> QED
      BY <1>2, <2>2, <3>1, <3>2 DEF NaturalAligned, IsNaturalNode
  <2>3. CASE Open' /\ \E node \in NodeType : Accepts(node)
    <3>1. PICK node \in NodeType : Accepts(node)
      BY <2>3
    <3>2. Open
      BY <1>2, <2>3, StepShape
    <3> DEFINE n == Len(body)
    <3>3. /\ n \in Nat /\ Len(body') = n + 1 /\ body'[n + 1] = node
          /\ \A k \in 1..n : body'[k] = body[k]
      BY <1>2, <3>1, <3>2, AddNodeKeeps DEF Accepts, IInv, TypeOK
    <3>4. ASSUME NEW d, NodeAligned(d), \A f \in 1..Len(d.fields) : Resolved(d.fields[f].type)
          PROVE  NodeAligned(d)'
      <4>1. LayoutView(d.fields)' = LayoutView(d.fields)
        BY <1>2, <3>1, <3>2, <3>4, ViewKept
      <4> QED
        BY <3>4, <4>1 DEF NodeAligned
    <3>5. NodeAligned(node)'
      BY <1>2, <3>1, <3>2, <3>4, AcceptedAligned DEF Accepts
    <3>6. \A k \in 1..n : NodeAligned(body[k])
      BY <1>0, <1>2, <3>2
    <3>7. ASSUME NEW k \in 1..(n + 1), NEW d, d = body'[k] PROVE NodeAligned(d)'
      <4>1. CASE k = n + 1
        BY <3>3, <3>5, <3>7, <4>1
      <4>2. CASE k \in 1..n
        BY <1>2, <3>2, <3>3, <3>4, <3>6, <3>7, <4>2, BodyFields
      <4> QED
        BY <3>3, <4>1, <4>2
    <3>8. ASSUME NEW k \in 1..Len(body'), IsNaturalNode(k)'
          PROVE  (LET fields == body[k].fields
                      view   == LayoutView(fields)
                      offset == Offsets(fields, view)
                      end    == offset[Len(fields) + 1]
                  IN  /\ \A f \in 1..Len(fields) : offset[f] % view[f].align = 0
                      /\ end % body[k].modifier.struct_unit_size = 0
                      /\ body[k].modifier.struct_size = IF end = 0 THEN 1 ELSE end)'
      <4>1. PICK d : d = body'[k]
        OBVIOUS
      <4>2. NodeAligned(d)' /\ NaturalKind(d)
        BY <3>3, <3>7, <3>8, <4>1 DEF IsNaturalNode, NaturalKind
      <4>3. Aligns(d, LayoutView(d.fields))'
        BY <4>2 DEF NodeAligned, NaturalKind
      <4> QED
        BY <4>1, <4>3 DEF Aligns
    <3> QED
      BY <3>8 DEF NaturalAligned
  <2> QED
    BY <1>2, <2>1, <2>2, <2>3, StepShape
<1> QED
  BY <1>1, <1>2, Invariance, PTL DEF Spec

\* A natural struct may be read and written as one block of memory.
THEOREM NaturalSoundHolds == Spec => []NaturalSound
<1>1. NaturalClosed /\ NaturalAligned => NaturalSound
  BY DEF NaturalSound
<1> QED
  BY <1>1, NaturalClosedHolds, NaturalAlignedHolds, PTL
-----------------------------------------------------------------------------
(* The refinement of BpcDocument *)

\* What BpcDocument keeps of a node.
Definition(node) ==
  [kind |-> node.kind, name |-> node.name, uses |-> Uses(node.fields),
   natural |-> NaturalKind(node), index |-> node.index]

Definitions == [k \in 1..Len(body) |-> Definition(body[k])]

Phase == CASE pc = "accepted" -> "published"
           [] pc = "aborted"  -> "abandoned"
           [] OTHER           -> "open"

\* The opcodes are dense, so the next one is the number of msgs so far: the
\* parser counts what BpcDocument counts anew.
LEMMA NextIndexCounts ==
  ASSUME IInv, Open
  PROVE  Cardinality({k \in 1..Len(body) : IsMsg(k)}) = msgIndex
<1> DEFINE msgs == {k \in 1..Len(body) : IsMsg(k)}
           opcode == [k \in msgs |-> body[k].index + 1]
<1>1. Len(body) \in Nat /\ msgIndex \in Nat /\ \A k \in msgs : body[k].index \in Nat
  <2>1. \A k \in 1..Len(body) : body[k] \in NodeType
    BY DEF IInv, TypeOK
  <2> QED
    BY <2>1 DEF IInv, TypeOK, NodeType
<1>2. /\ \A j, k \in msgs : j < k => body[j].index < body[k].index
      /\ \A k \in msgs : body[k].index < msgIndex
      /\ \A v \in 0..(msgIndex - 1) : \E j \in msgs : body[j].index = v
  BY DEF IInv, BodyInv, MsgIndexDense
<1>3. IsFiniteSet(msgs)
  <2>1. IsFiniteSet(1..Len(body))
    BY <1>1, FS_Interval
  <2> QED
    BY <2>1, FS_Subset
<1>4. opcode \in [msgs -> 1..msgIndex]
  BY <1>1, <1>2
<1>5. \A j, k \in msgs : opcode[j] = opcode[k] => j = k
  BY <1>1, <1>2, SMTT(60)
<1>6. \A v \in 1..msgIndex : \E k \in msgs : opcode[k] = v
  <2> SUFFICES ASSUME NEW v \in 1..msgIndex PROVE \E k \in msgs : opcode[k] = v
    OBVIOUS
  <2>1. v - 1 \in 0..(msgIndex - 1)
    BY <1>1
  <2>2. PICK k \in msgs : body[k].index = v - 1
    BY <1>2, <2>1
  <2> QED
    BY <1>1, <2>2
<1> HIDE DEF msgs, opcode
<1>7. opcode \in Bijection(msgs, 1..msgIndex)
  BY <1>4, <1>5, <1>6 DEF Bijection, Injection, Surjection, IsInjective
<1>8. Cardinality(1..msgIndex) = Cardinality(msgs)
  BY <1>3, <1>7, FS_Bijection DEF ExistsBijection
<1>9. Cardinality(1..msgIndex) = msgIndex
  BY <1>1, FS_Interval
<1> QED
  BY <1>8, <1>9 DEF msgs

\* BpcDocument counts as this module does.
LEMMA SameCount == \A S : Promise!Cardinality(S) = Cardinality(S)
BY DEF Promise!Cardinality, Cardinality, Promise!IsFiniteSet, IsFiniteSet

\* A sequence is another with one more element.
LEMMA AppendIs ==
  ASSUME NEW S, NEW s \in Seq(S), NEW e \in S, NEW t \in Seq(S), Len(t) = Len(s) + 1,
         \A k \in 1..Len(s) : t[k] = s[k], t[Len(s) + 1] = e
  PROVE  t = Append(s, e)
OBVIOUS

\* The parser shows BpcDocument its definitions and how far it is, now and
\* after a step.
Shows ==
  /\ Definitions = [k \in 1..Len(body) |->
                      [kind |-> body[k].kind, name |-> body[k].name,
                       uses |-> Uses(body[k].fields),
                       natural |-> IsNaturalNode(k),
                       index |-> body[k].index]]
  /\ Phase = CASE pc = "accepted" -> "published"
               [] pc = "aborted"  -> "abandoned"
               [] OTHER           -> "open"
  /\ Open <=> Phase = "open"

\* The mapping of BpcParser is the one of this module.
LEMMA Shown == Shows /\ Shows'
<1>1. Shows
  BY DEF Shows, Definitions, Definition, IsNaturalNode, NaturalKind, Phase, Open, Final
<1>2. Shows'
  BY DEF Shows, Definitions, Definition, IsNaturalNode, NaturalKind, Phase, Open, Final
<1> QED
  BY <1>1, <1>2

\* What a declaration uses is declared above it, is no msg, and is natural in a
\* natural struct or msg if it is a struct.
LEMMA UsesDeclared ==
  ASSUME IInv, Open, NEW node, NodeClosed(node),
         \A f \in 1..Len(node.fields) : Resolved(node.fields[f].type),
         NEW u \in Uses(node.fields)
  PROVE  \E k \in 1..Len(body) :
           /\ body[k].name = u /\ body[k].kind # "msg"
           /\ NaturalKind(node) /\ body[k].kind = "struct" => NaturalKind(body[k])
<1>1. PICK f \in 1..Len(node.fields) : node.fields[f].type.type = u /\ u \in Names
  BY DEF Uses
<1> DEFINE type == node.fields[f].type
<1>2. u \notin BasicTypes
  BY <1>1, NoneFacts
<1>3. VariableTypeOK(u) /\ type = Analyse(u)
  BY <1>1 DEF Resolved
<1>4. /\ IdentifierTest(u) /\ IdentifierGet(u).kind # "msg"
      /\ IdentifierGet(u).kind = "struct" => type.full = None
  BY <1>2, <1>3 DEF VariableTypeOK, Analyse
<1>5. idents[u] \in 1..Len(body) /\ body[idents[u]].name = u
  <2>1. /\ DOMAIN idents = {body[k].name : k \in 1..Len(body)}
        /\ \A k \in 1..Len(body) : idents[body[k].name] = k
    BY DEF IInv, BodyInv, RegistryMatchesBody
  <2>2. PICK k \in 1..Len(body) : body[k].name = u
    BY <1>4, <2>1 DEF IdentifierTest
  <2> QED
    BY <2>1, <2>2
<1>6. ASSUME NaturalKind(node), body[idents[u]].kind = "struct"
      PROVE  NaturalKind(body[idents[u]])
  <2>1. Allowed(node.fields[f])
    BY <1>6 DEF NodeClosed
  <2>2. ~IdentifierGet(u).modifier.is_narrow
    BY <1>1, <1>4, <1>6, <2>1 DEF Allowed, IdentifierGet
  <2> QED
    BY <1>6, <2>2 DEF NaturalKind, IdentifierGet
<1> QED
  BY <1>4, <1>5, <1>6 DEF IdentifierGet

\* Accepting a declaration is declaring it.
LEMMA DeclareStep ==
  ASSUME IInv, Open, NEW node \in NodeType, Accepts(node)
  PROVE  Promise!Next
<1> DEFINE n == Len(body)
           uses == Uses(node.fields)
<1>1. /\ n \in Nat /\ Len(body') = n + 1 /\ body'[n + 1] = node
      /\ \A k \in 1..n : body'[k] = body[k]
  BY AddNodeKeeps DEF Accepts, IInv, TypeOK
<1>2. Definitions' = Append(Definitions, Definition(node))
  <2>1. Definitions' = [k \in 1..(n + 1) |-> Definition(body'[k])]
    BY <1>1 DEF Definitions, Definition, NaturalKind, Uses
  <2> DEFINE all == {Definition(body[k]) : k \in 1..n} \cup {Definition(node)}
  <2>2. /\ Definitions \in Seq(all) /\ Len(Definitions) = n
        /\ \A k \in 1..n : Definitions[k] = Definition(body[k])
    BY <1>1 DEF Definitions
  <2>3. ASSUME NEW k \in 1..(n + 1)
        PROVE  /\ Definition(body'[k]) \in all
               /\ Definition(body'[k]) = IF k = n + 1 THEN Definition(node) ELSE Definitions[k]
    BY <1>1, <2>2
  <2> HIDE DEF n, all
  <2>4. Definitions' \in Seq(all) /\ Len(Definitions') = n + 1
    BY <1>1, <2>1, <2>3
  <2>5. Definitions'[n + 1] = Definition(node) /\ \A k \in 1..n : Definitions'[k] = Definitions[k]
    BY <1>1, <2>1, <2>3
  <2>6. Definition(node) \in all
    BY DEF all
  <2> QED
    BY <2>2, <2>4, <2>5, <2>6, AppendIs
<1>3. NodeClosed(node)
  BY AcceptedClosed
<1>4. /\ node.kind \in Kinds /\ node.name \in Names /\ uses \in SUBSET Names
      /\ NaturalKind(node) \in BOOLEAN
  BY DEF NodeType, NaturalKind, Uses
<1>5. \A k \in 1..n : body[k].name # node.name
  BY DEF IInv, BodyInv, RegistryMatchesBody, Accepts, IdentifierTest
<1>6. \A u \in uses : \E k \in 1..n :
        /\ body[k].name = u /\ body[k].kind # "msg"
        /\ NaturalKind(node) /\ body[k].kind = "struct" => NaturalKind(body[k])
  BY <1>3, UsesDeclared DEF Accepts
<1>7. node.kind \in {"alias", "enum"} => uses = {} /\ ~NaturalKind(node)
  <2>1. node.kind \in {"alias", "enum"} => node.fields = <<>>
    BY DEF Accepts
  <2> QED
    BY <2>1 DEF Uses, NaturalKind
<1>8. node.index = IF node.kind = "msg" THEN Cardinality({k \in 1..n : body[k].kind = "msg"}) ELSE 0
  BY NextIndexCounts DEF Accepts, IsMsg
<1>9. Phase = "open" /\ Phase' = "open"
  BY Shown DEF Shows, Accepts, AddNode, Phase
<1>10. DOMAIN Definitions = 1..n /\ \A k \in 1..n : Definitions[k] = Definition(body[k])
  BY DEF Definitions
<1>11. Promise!MsgCount(Definitions) = Cardinality({k \in 1..n : body[k].kind = "msg"})
  <2>1. {k \in DOMAIN Definitions : Definitions[k].kind = "msg"} = {k \in 1..n : body[k].kind = "msg"}
    BY <1>10 DEF Definition
  <2> QED
    BY <2>1, SameCount DEF Promise!MsgCount
<1>12. Definition(node) =
         [kind |-> node.kind, name |-> node.name, uses |-> uses,
          natural |-> NaturalKind(node),
          index |-> IF node.kind = "msg" THEN Promise!MsgCount(Definitions) ELSE 0]
  BY <1>8, <1>11 DEF Definition
<1>13. \A k \in DOMAIN Definitions : Definitions[k].name # node.name
  BY <1>5, <1>10 DEF Definition
<1>14. \A u \in uses : \E k \in DOMAIN Definitions :
         /\ Definitions[k].name = u /\ Definitions[k].kind # "msg"
         /\ NaturalKind(node) /\ Definitions[k].kind = "struct" => Definitions[k].natural
  BY <1>6, <1>10 DEF Definition
<1> HIDE DEF n, uses
<1>15. Definitions' =
         Append(Definitions,
                [kind |-> node.kind, name |-> node.name, uses |-> uses,
                 natural |-> NaturalKind(node),
                 index |-> IF node.kind = "msg" THEN Promise!MsgCount(Definitions) ELSE 0])
  BY <1>2, <1>12
<1>16. Promise!Declare(node.kind, node.name, uses, NaturalKind(node))
  <2> DEFINE defs == [k \in 1..Len(body) |->
                        [kind |-> body[k].kind, name |-> body[k].name,
                         uses |-> Uses(body[k].fields),
                         natural |-> IsNaturalNode(k),
                         index |-> body[k].index]]
             phase == CASE pc = "accepted" -> "published"
                        [] pc = "aborted"  -> "abandoned"
                        [] OTHER           -> "open"
  <2>1. defs = Definitions /\ defs' = Definitions' /\ phase = "open" /\ phase' = "open"
    BY <1>9, Shown DEF Shows
  <2> HIDE DEF defs, phase
  <2>2. \A k \in DOMAIN defs : defs[k].name # node.name
    BY <1>13, <2>1
  <2>3. \A u \in uses : \E k \in DOMAIN defs :
          /\ defs[k].name = u
          /\ defs[k].kind # "msg"
          /\ NaturalKind(node) /\ defs[k].kind = "struct" => defs[k].natural
    BY <1>14, <2>1
  <2>4. defs' = Append(defs, [kind |-> node.kind, name |-> node.name, uses |-> uses,
                              natural |-> NaturalKind(node),
                              index |-> IF node.kind = "msg" THEN Promise!MsgCount(defs) ELSE 0])
    BY <1>15, <2>1
  <2>5. phase = "open" /\ UNCHANGED phase
    BY <2>1
  <2> QED
    BY ONLY <1>7, <2>2, <2>3, <2>4, <2>5 DEF Promise!Declare, defs, phase
<1> QED
  BY <1>4, <1>16 DEF Promise!Next, Promise!Kinds, Kinds

\* A parser that has ended does nothing more; one that ends publishes the
\* document as it is or abandons it.
LEMMA EndStep ==
  ASSUME IInv, [Next]_vars, ~Open'
  PROVE  \/ UNCHANGED <<pc, body>>
         \/ Open /\ pc' = "accepted" /\ UNCHANGED body
         \/ Open /\ pc' = "aborted" /\ body' = <<>>
<1> USE DEF HeadStates, DeclStates, FieldStates, ErrorStates, Final, Open
<1>1. CASE HeadError \/ EndOfFile
  BY <1>1 DEF HeadError, EndOfFile, Abort, Accept
<1>2. CASE UNCHANGED vars
  BY <1>2 DEF vars
<1>3. CASE HeadToken \/ VersionNumber \/ HeadEnd
  BY <1>3 DEF HeadToken, VersionNumber, HeadEnd, HeadMoves
<1>4. CASE SyntaxErrorInDecl \/ SyntaxErrorInFields
  BY <1>4 DEF SyntaxErrorInDecl, SyntaxErrorInFields, UnwindToBody, UnwindToFields, Resume
<1>5. ASSUME NEW kind \in {"alias", "enum", "struct", "msg"}, Keyword(kind) PROVE FALSE
  BY <1>5 DEF Keyword
<1>6. ASSUME NEW n \in Names, DeclName(n) \/ MemberName(n) \/ FieldName(n) PROVE FALSE
  BY <1>6 DEF DeclName, MemberName, FieldName, UnwindToFields
<1>7. ASSUME NEW t \in Types, DeclType(t) PROVE FALSE
  BY <1>7 DEF DeclType
<1>8. CASE LeftBrace \/ MemberEqual \/ MemberComma
  BY <1>8 DEF LeftBrace, MemberEqual, MemberComma, UnwindToBody, Resume
<1>9. ASSUME NEW v \in EnumNumbers, MemberNumber(v) PROVE FALSE
  BY <1>9 DEF MemberNumber, UnwindToBody, Resume
<1>10. ASSUME NEW r \in BOOLEAN, Reliability(r) \/ FieldLayout(r) PROVE FALSE
  BY <1>10 DEF Reliability, FieldLayout, SetModifier, UnwindToBody, Resume
<1>11. ASSUME NEW t \in Types \cup Names, FieldType(t) PROVE FALSE
  BY <1>11 DEF FieldType, UnwindToFields
<1>12. CASE FieldList \/ (\E n \in TupleNumbers : FieldTuple(n)) \/ (\E n \in AlignNumbers : FieldAlign(n))
  BY <1>12 DEF FieldList, FieldTuple, FieldAlign, SetArray, UnwindToFields
<1>13. CASE FieldComma \/ FieldEnd
  BY <1>13 DEF FieldComma, FieldEnd
<1>14. CASE BodyRecovery \/ FieldsRecovery \/ LexError
  BY <1>14 DEF BodyRecovery, FieldsRecovery, LexError, Resume
<1>15. CASE AliasEnd \/ EnumEnd \/ StructEnd \/ MsgEnd
  BY <1>15 DEF AliasEnd, EnumEnd, StructEnd, MsgEnd, AddNode, UnwindToBody, Resume
<1>16. Reliabilities \subseteq BOOLEAN /\ Layouts \subseteq BOOLEAN
  BY NamesAssumption
<1> QED
  BY <1>1, <1>2, <1>3, <1>4, <1>5, <1>6, <1>7, <1>8, <1>9, <1>10, <1>11, <1>12,
     <1>13, <1>14, <1>15, <1>16 DEF Next

\* Every step of the parser is a step of BpcDocument or changes nothing that
\* BpcDocument sees.
LEMMA DocumentStep ==
  ASSUME IInv, [Next]_vars
  PROVE  [Promise!Next]_(Promise!vars)
<1>1. CASE Open' /\ UNCHANGED <<body, idents>>
  <2>1. Definitions' = Definitions
    BY <1>1 DEF Definitions, Definition, Uses, NaturalKind
  <2>2. Phase' = Phase
    BY <1>1, StepShape DEF Phase, Open, Final
  <2> QED
    BY <2>1, <2>2, Shown DEF Shows, Promise!vars
<1>2. CASE Open' /\ \E node \in NodeType : Accepts(node)
  <2>1. PICK node \in NodeType : Accepts(node)
    BY <1>2
  <2>2. Open
    BY <1>2, StepShape
  <2> QED
    BY <2>1, <2>2, DeclareStep
<1>3. CASE ~Open' /\ UNCHANGED <<pc, body>>
  <2>1. Definitions' = Definitions /\ Phase' = Phase
    BY <1>3 DEF Definitions, Definition, Uses, NaturalKind, Phase
  <2> QED
    BY <2>1, Shown DEF Shows, Promise!vars
<1>4. CASE Open /\ pc' = "accepted" /\ UNCHANGED body
  <2>1. Definitions' = Definitions
    BY <1>4 DEF Definitions, Definition, Uses, NaturalKind
  <2>2. Phase = "open" /\ Phase' = "published"
    BY <1>4, Shown DEF Shows, Phase
  <2>3. Promise!Publish
    BY <2>1, <2>2, Shown DEF Shows, Promise!Publish
  <2> QED
    BY <2>3 DEF Promise!Next
<1>5. CASE Open /\ pc' = "aborted" /\ body' = <<>>
  <2>1. Definitions' = <<>>
    BY <1>5 DEF Definitions
  <2>2. Phase = "open" /\ Phase' = "abandoned"
    BY <1>5, Shown DEF Shows, Phase
  <2>3. Promise!Abandon
    BY <2>1, <2>2, Shown DEF Shows, Promise!Abandon
  <2> QED
    BY <2>3 DEF Promise!Next
<1> QED
  BY <1>1, <1>2, <1>3, <1>4, <1>5, StepShape, EndStep

\* The parser keeps the safety part of its promise to the code generators:
\* declarations are only ever appended, each with a new name, above what uses
\* it and with the next opcode, and the document that is published is what was
\* accepted, whatever was refused and skipped in between.
THEOREM KeepsPromiseSafely == Spec => Promise!Init /\ [][Promise!Next]_(Promise!vars)
<1>1. Init => Promise!Init
  BY DEF Init, Promise!Init
<1> QED
  BY <1>1, Invariance, DocumentStep, PTL DEF Spec
-----------------------------------------------------------------------------
(* The loop of the generators over the nodes of some kinds *)

\* The loop over the nodes of some kinds, prefix by prefix.
KeptUpTo(doc, kinds, u) ==
  /\ u[0] = <<>>
  /\ \A k \in 1..Len(doc) :
       u[k] = IF doc[k].kind \in kinds THEN Append(u[k - 1], doc[k]) ELSE u[k - 1]
  /\ Gen!Kept(doc, kinds) = u[Len(doc)]

\* The loop is what such a run of prefixes ends in.
LEMMA KeptRecursion ==
  ASSUME NEW S, NEW doc \in Seq(S), NEW kinds
  PROVE  \E u \in [0..Len(doc) -> Seq(S)] : KeptUpTo(doc, kinds, u)
<1> DEFINE n == Len(doc)
           Add(k, s) == IF doc[k].kind \in kinds THEN Append(s, doc[k]) ELSE s
           step == [k \in 1..n |-> [s \in Seq(S) |-> Add(k, s)]]
           Rec(f) == [k \in 0..n |-> IF k = 0 THEN <<>>
                                     ELSE IF doc[k].kind \in kinds THEN Append(f[k - 1], doc[k])
                                     ELSE f[k - 1]]
           upto == CHOOSE f : f = Rec(f)
<1>1. Gen!Kept(doc, kinds) = upto[n]
  BY DEF Gen!Kept
<1>2. n \in Nat
  OBVIOUS
<1>3. ASSUME NEW k \in 1..n, NEW s \in Seq(S) PROVE Add(k, s) \in Seq(S)
  OBVIOUS
<1> HIDE DEF Add
<1>4. step \in [1..n -> [Seq(S) -> Seq(S)]]
  BY <1>3
<1>5. PICK f \in [0..n -> Seq(S)] : Follows(f, n, <<>>, step)
  <2> DEFINE T == Seq(S)
  <2>1. <<>> \in T /\ step \in [1..n -> [T -> T]]
    BY <1>4
  <2> HIDE DEF step, T, n
  <2>2. \E f \in [0..n -> T] : Follows(f, n, <<>>, step)
    BY <1>2, <2>1, SegmentRecursion
  <2> QED
    BY <2>2 DEF T
<1>6. f[0] = <<>> /\ \A k \in 1..n : f[k] = Add(k, f[k - 1])
  <2>1. f[0] = <<>>
    BY <1>5 DEF Follows
  <2>2. ASSUME NEW k \in 1..n PROVE f[k] = Add(k, f[k - 1])
    <3>1. k - 1 \in 0..n /\ f[k - 1] \in Seq(S)
      BY <1>2, <1>5
    <3> HIDE DEF n
    <3>2. f[k] = step[k][f[k - 1]]
      BY <1>5 DEF Follows
    <3> QED
      BY <3>1, <3>2
  <2> QED
    BY <2>1, <2>2
<1>7. f = Rec(f)
  <2>1. \A k \in 0..n : k # 0 => k \in 1..n
    BY <1>2
  <2>2. ASSUME NEW k \in 0..n PROVE f[k] = Rec(f)[k]
    BY <1>6, <2>1 DEF Add
  <2> HIDE DEF n
  <2> QED
    BY <2>2
<1> HIDE DEF Rec
<1>8. upto = Rec(upto)
  BY <1>7
<1> HIDE DEF upto
<1> DEFINE u == [k \in 0..n |-> upto[k]]
<1>9. upto[0] = <<>> /\ \A k \in 1..n : upto[k] = Add(k, upto[k - 1])
  <2>1. upto = [k \in 0..n |-> IF k = 0 THEN <<>>
                              ELSE IF doc[k].kind \in kinds THEN Append(upto[k - 1], doc[k])
                              ELSE upto[k - 1]]
    BY <1>8 DEF Rec
  <2>2. 0 \in 0..n /\ \A k \in 1..n : k \in 0..n /\ k # 0
    BY <1>2
  <2> HIDE DEF n
  <2> QED
    BY <2>1, <2>2 DEF Add
<1> DEFINE Typed == {k \in 0..n : upto[k] \in Seq(S)}
<1>10. 0 \in Typed /\ \A k \in 1..n : k - 1 \in Typed => k \in Typed
  <2>1. 0 \in Typed
    BY <1>2, <1>9
  <2>2. ASSUME NEW k \in 1..n, k - 1 \in Typed PROVE k \in Typed
    <3>1. k \in 0..n /\ upto[k] = Add(k, upto[k - 1])
      BY <1>2, <1>9
    <3> QED
      BY <1>3, <2>2, <3>1
  <2> QED
    BY <2>1, <2>2
<1> HIDE DEF Typed, n
<1>11. 0..n \subseteq Typed
  BY <1>2, <1>10, SegmentInduction
<1>12. u \in [0..n -> Seq(S)] /\ n \in 0..n
  BY <1>2, <1>11 DEF Typed
<1>13. /\ u[0] = <<>> /\ u[n] = upto[n]
       /\ \A k \in 1..n : u[k] = Add(k, u[k - 1])
  <2>1. ASSUME NEW k \in 1..n PROVE k \in 0..n /\ k - 1 \in 0..n
    BY <1>2
  <2> QED
    BY <1>2, <1>9, <2>1
<1>14. KeptUpTo(doc, kinds, u)
  BY <1>1, <1>13 DEF KeptUpTo, Add, n
<1> QED
  BY <1>12, <1>14 DEF n

\* What the loop keeps: the nodes of these kinds, all of them, in their order.
Picks(doc, kinds, s, n, at) ==
  /\ at \in [1..Len(s) -> 1..n]
  /\ \A j \in 1..Len(s) : s[j] = doc[at[j]] /\ doc[at[j]].kind \in kinds
  /\ \A i, j \in 1..Len(s) : i < j => at[i] < at[j]
  /\ \A k \in 1..n : doc[k].kind \in kinds => \E j \in 1..Len(s) : at[j] = k

\* The loop keeps a subsequence and leaves out nothing of these kinds.
LEMMA KeptFacts ==
  ASSUME NEW S, NEW doc \in Seq(S), NEW kinds
  PROVE  /\ Gen!Kept(doc, kinds) \in Seq(S)
         /\ \E at : Picks(doc, kinds, Gen!Kept(doc, kinds), Len(doc), at)
<1> DEFINE n == Len(doc)
<1>1. PICK u \in [0..n -> Seq(S)] : KeptUpTo(doc, kinds, u)
  BY KeptRecursion
<1>2. n \in Nat /\ \A k \in 1..n : doc[k] \in S
  OBVIOUS
<1>3. /\ u[0] = <<>> /\ Gen!Kept(doc, kinds) = u[n]
      /\ \A k \in 1..n : u[k] = IF doc[k].kind \in kinds THEN Append(u[k - 1], doc[k])
                                                       ELSE u[k - 1]
  BY <1>1 DEF KeptUpTo
<1> HIDE DEF n
<1> DEFINE Good == {k \in 0..n : \E at : Picks(doc, kinds, u[k], k, at)}
<1>4. 0 \in Good
  <2>1. Picks(doc, kinds, u[0], 0, <<>>)
    BY <1>3 DEF Picks
  <2> QED
    BY <1>2, <2>1
<1>5. ASSUME NEW k \in 1..n, NEW at, Picks(doc, kinds, u[k - 1], k - 1, at)
      PROVE  \E new : Picks(doc, kinds, u[k], k, new)
  <2> DEFINE s == u[k - 1]
             l == Len(s)
  <2>1. s \in Seq(S) /\ l \in Nat /\ k - 1 \in 0..n /\ k \in Nat /\ doc[k] \in S
    BY <1>2
  <2> HIDE DEF s, l
  <2>2. /\ at \in [1..l -> 1..(k - 1)]
        /\ \A j \in 1..l : s[j] = doc[at[j]] /\ doc[at[j]].kind \in kinds
        /\ \A i, j \in 1..l : i < j => at[i] < at[j]
        /\ \A m \in 1..(k - 1) : doc[m].kind \in kinds => \E j \in 1..l : at[j] = m
    BY <1>5 DEF Picks, s, l
  <2>3. CASE doc[k].kind \in kinds
    <3> DEFINE t == Append(s, doc[k])
               new == [j \in 1..(l + 1) |-> IF j = l + 1 THEN k ELSE at[j]]
    <3>1. u[k] = t
      BY <1>3, <2>3 DEF s
    <3>2. Len(t) = l + 1 /\ t[l + 1] = doc[k] /\ \A j \in 1..l : t[j] = s[j]
      BY <2>1 DEF l
    <3> HIDE DEF t
    <3>3. new \in [1..(l + 1) -> 1..k]
      BY <2>1, <2>2
    <3>4. new[l + 1] = k /\ \A j \in 1..l : new[j] = at[j] /\ at[j] \in 1..(k - 1)
      BY <2>1, <2>2
    <3>5. \A j \in 1..(l + 1) : j = l + 1 \/ j \in 1..l
      BY <2>1
    <3> HIDE DEF new
    <3>6. \A j \in 1..(l + 1) : t[j] = doc[new[j]] /\ doc[new[j]].kind \in kinds
      BY <2>2, <2>3, <3>2, <3>4, <3>5
    <3>7. \A i, j \in 1..(l + 1) : i < j => new[i] < new[j]
      BY <2>1, <2>2, <3>4, <3>5, SMTT(60)
    <3>8. \A m \in 1..k : doc[m].kind \in kinds => \E j \in 1..(l + 1) : new[j] = m
      <4> SUFFICES ASSUME NEW m \in 1..k, doc[m].kind \in kinds
                   PROVE  \E j \in 1..(l + 1) : new[j] = m
        OBVIOUS
      <4>1. CASE m = k
        BY <2>1, <3>4, <4>1
      <4>2. CASE m # k
        <5>1. m \in 1..(k - 1)
          BY <2>1, <4>2
        <5>2. PICK j \in 1..l : at[j] = m
          BY <2>2, <5>1
        <5>3. j \in 1..(l + 1)
          BY <2>1
        <5> QED
          BY <3>4, <5>2, <5>3
      <4> QED
        BY <4>1, <4>2
    <3>9. Picks(doc, kinds, t, k, new)
      BY <3>2, <3>3, <3>6, <3>7, <3>8 DEF Picks
    <3> QED
      BY <3>1, <3>9
  <2>4. CASE doc[k].kind \notin kinds
    <3>1. u[k] = s
      BY <1>3, <2>4 DEF s
    <3>2. at \in [1..l -> 1..k]
      BY <2>1, <2>2
    <3>3. \A m \in 1..k : m = k \/ m \in 1..(k - 1)
      BY <2>1
    <3>4. \A m \in 1..k : doc[m].kind \in kinds => \E j \in 1..l : at[j] = m
      BY <2>2, <2>4, <3>3
    <3>5. Picks(doc, kinds, s, k, at)
      BY <2>2, <3>2, <3>4 DEF Picks, l
    <3> QED
      BY <3>1, <3>5
  <2> QED
    BY <2>3, <2>4
<1>6. ASSUME NEW k \in 1..n, k - 1 \in Good PROVE k \in Good
  <2>1. k \in 0..n
    BY <1>2
  <2> QED
    BY <1>5, <1>6, <2>1
<1> HIDE DEF Good
<1>7. 0..n \subseteq Good
  BY <1>2, <1>4, <1>6, SegmentInduction
<1>8. n \in 0..n /\ n \in Good /\ u[n] \in Seq(S)
  BY <1>2, <1>7
<1> QED
  BY <1>3, <1>8 DEF Good, n
-----------------------------------------------------------------------------
(* The document that is published *)

\* A field's type was resolved as the declaration entry gives it.
DeclaredAs(type, entry) ==
  /\ entry.name = type.type /\ entry.kind # "msg"
  /\ type.full = IF entry.kind = "struct" THEN None ELSE entry.bt
  /\ type.semi = IF entry.kind = "alias" THEN None ELSE type.type

TypeSettled(type, k) ==
  IF type.type \in BasicTypes THEN type.full = type.type /\ type.semi = None
  ELSE \E j \in 1..(k - 1) : DeclaredAs(type, body[j])

\* The document by itself, without the registry, which Accept empties: names
\* are distinct, and every type is what the declaration above it makes it.
Settled ==
  /\ \A j, k \in 1..Len(body) : body[j].name = body[k].name => j = k
  /\ BasesTyped
  /\ \A k \in 1..Len(body) : \A f \in 1..Len(body[k].fields) :
       TypeSettled(body[k].fields[f].type, k)

\* While the registry is there it says so.
LEMMA OpenSettled ==
  ASSUME IInv, Open
  PROVE  Settled
<1>1. /\ body \in Seq(NodeType) /\ BasesTyped /\ DefinedBeforeUse
      /\ \A k \in 1..Len(body) : idents[body[k].name] = k
      /\ DOMAIN idents = {body[k].name : k \in 1..Len(body)}
  BY DEF IInv, TypeOK, BodyInv, RegistryMatchesBody
<1>2. \A j, k \in 1..Len(body) : body[j].name = body[k].name => j = k
  BY <1>1
<1>3. ASSUME NEW k \in 1..Len(body), NEW f \in 1..Len(body[k].fields)
      PROVE  TypeSettled(body[k].fields[f].type, k)
  <2> DEFINE type == body[k].fields[f].type
  <2>1. type \in VariableType /\ Resolved(type)
    BY <1>3, BodyFields DEF FieldRecord
  <2>2. type.type \in Names =>
          \E j \in 1..(k - 1) : body[j].name = type.type /\ body[j].kind # "msg"
    BY <1>1 DEF DefinedBeforeUse
  <2> HIDE DEF type
  <2>3. CASE type.type \in BasicTypes
    <3>1. type = [type |-> type.type, full |-> type.type, semi |-> None]
      BY <2>1, <2>3 DEF Resolved, Analyse
    <3>2. type.full = type.type /\ type.semi = None
      BY <3>1
    <3> QED
      BY <2>3, <3>2 DEF TypeSettled, type
  <2>4. CASE type.type \notin BasicTypes
    <3>1. type.type \in Names
      BY <2>1, <2>4 DEF VariableType
    <3>2. PICK j \in 1..(k - 1) : body[j].name = type.type /\ body[j].kind # "msg"
      BY <2>2, <3>1
    <3>3. j \in 1..Len(body)
      BY <1>1
    <3>4. IdentifierGet(type.type) = body[j]
      BY <1>1, <3>2, <3>3 DEF IdentifierGet
    <3> DEFINE entry == body[j]
    <3> HIDE DEF entry
    <3>5. type = [type |-> type.type,
                  full |-> IF entry.kind = "struct" THEN None ELSE entry.bt,
                  semi |-> IF entry.kind = "alias" THEN None ELSE type.type]
      BY <2>1, <2>4, <3>4 DEF Resolved, Analyse, entry
    <3>6. /\ type.full = IF entry.kind = "struct" THEN None ELSE entry.bt
          /\ type.semi = IF entry.kind = "alias" THEN None ELSE type.type
      BY <3>5
    <3>7. DeclaredAs(type, body[j])
      BY <3>2, <3>6 DEF DeclaredAs, entry
    <3> QED
      BY <2>4, <3>7 DEF TypeSettled, type
  <2> QED
    BY <2>3, <2>4
<1> QED
  BY <1>1, <1>2, <1>3 DEF Settled

\* The document is published as it stands, or gone.
LEMMA SettledStep ==
  ASSUME IInv, Settled, [Next]_vars, ~Open'
  PROVE  Settled'
<1>1. UNCHANGED body \/ body' = <<>>
  BY EndStep
<1>2. CASE UNCHANGED body
  BY <1>2 DEF Settled, TypeSettled, DeclaredAs, BasesTyped
<1>3. CASE body' = <<>>
  <2>1. Len(body') = 0
    BY <1>3
  <2> QED
    BY <2>1 DEF Settled, BasesTyped
<1> QED
  BY <1>1, <1>2, <1>3

\* Every document ever published is settled.
LEMMA SettledAlways == Spec => [](IInv /\ Settled)
<1>1. IInv /\ Open => Settled
  BY OpenSettled
<1>2. Init => Open
  BY DEF Init, Open, Final
<1>3. IInv /\ Settled /\ [Next]_vars /\ ~Open' => Settled'
  BY SettledStep
<1> QED
  BY <1>1, <1>2, <1>3, Invariance, PTL DEF Spec
-----------------------------------------------------------------------------
(* The documents of the generators *)

\* The generators know the same basic types.
LEMMA SameTypes == Gen!BasicTypes = BasicTypes
BY DEF Gen!BasicTypes, BasicTypes, Gen!IntegerTypes, IntegerTypes,
       Gen!SignedTypes, SignedTypes, Gen!UnsignedTypes, UnsignedTypes

\* Which declarations a generator writes, and the name it shows a type by.
LEMMA WritesAre ==
  /\ Gen!Writes("hpp") = {"alias", "enum", "struct", "msg"}
  /\ Gen!Writes("cpp") = {"struct", "msg"}
  /\ \A out \in {"py", "cs", "fbs"} : Gen!Writes(out) = {"enum", "struct", "msg"}
BY Zenon DEF Gen!Writes

\* How each generator shows a type.
LEMMA TypeNameIs ==
  ASSUME NEW f
  PROVE  /\ Gen!TypeName("py", f) = Gen!PyTypeName(f)
         /\ \A out \in {"cs", "fbs"} : Gen!TypeName(out, f) = Gen!SemiTypeName(f)
         /\ \A out \in {"hpp", "cpp"} : Gen!TypeName(out, f) = f.type.type
BY Zenon DEF Gen!TypeName, Gen!CppTypeName

\* A name that a generator shows is that of a declaration above, which the
\* same generator writes.
LEMMA ShownIsWritten ==
  ASSUME TypeOK, Settled, NEW out \in {"py", "cs", "fbs", "hpp"},
         NEW k \in 1..Len(body), NEW f \in 1..Len(body[k].fields),
         Gen!TypeName(out, body[k].fields[f]) \notin BasicTypes
  PROVE  \E j \in 1..(k - 1) :
           /\ body[j].name = Gen!TypeName(out, body[k].fields[f])
           /\ body[j].kind \in Gen!Writes(out) \ {"msg"}
<1> DEFINE field == body[k].fields[f]
           type == field.type
<1>1. TypeSettled(type, k)
  BY DEF Settled
<1>2. body \in Seq(NodeType)
  BY DEF TypeOK
<1>3. \A j \in 1..(k - 1) : body[j] \in NodeType /\ (body[j].kind = "alias" => body[j].bt \in BasicTypes)
  BY <1>2 DEF Settled, BasesTyped
<1>4. Gen!PyTypeName(field) = IF type.full \in BasicTypes THEN type.full ELSE type.type
  BY SameTypes DEF Gen!PyTypeName
<1>5. Gen!SemiTypeName(field) = IF type.semi = None THEN type.full ELSE type.semi
  BY DEF Gen!SemiTypeName, None
<1> DEFINE name == Gen!TypeName(out, field)
<1>6. /\ out = "py" => name = IF type.full \in BasicTypes THEN type.full ELSE type.type
      /\ out \in {"cs", "fbs"} => name = IF type.semi = None THEN type.full ELSE type.semi
      /\ out = "hpp" => name = type.type
  BY <1>4, <1>5, TypeNameIs
<1>7. name \notin BasicTypes
  OBVIOUS
<1> HIDE DEF name, type
<1>8. type.type \notin BasicTypes
  BY <1>1, <1>6, <1>7 DEF TypeSettled
<1>9. PICK j \in 1..(k - 1) : DeclaredAs(type, body[j])
  BY <1>1, <1>8 DEF TypeSettled
<1> DEFINE entry == body[j]
<1>10. /\ entry.kind \in {"alias", "enum", "struct"}
       /\ entry.kind = "alias" => entry.bt \in BasicTypes
       /\ entry.bt \in BasicTypes \cup {None}
       /\ type.type # None
  <2>1. entry \in NodeType /\ entry.name = type.type /\ entry.kind # "msg"
    BY <1>3, <1>9 DEF DeclaredAs
  <2> QED
    BY <1>3, <2>1, NoneFacts DEF NodeType, Kinds
<1>11. /\ entry.name = type.type
       /\ type.full = IF entry.kind = "struct" THEN None ELSE entry.bt
       /\ type.semi = IF entry.kind = "alias" THEN None ELSE type.type
  BY <1>9 DEF DeclaredAs
<1> HIDE DEF entry
<1>12. /\ name = type.type
       /\ entry.kind = "alias" => out = "hpp"
  BY <1>6, <1>7, <1>10, <1>11, NoneFacts
<1>13. entry.kind \in Gen!Writes(out) \ {"msg"}
  BY <1>10, <1>12, WritesAre
<1> QED
  BY <1>11, <1>12, <1>13 DEF entry, name

\* What is written, from the nodes that are kept.
LEMMA EmittedIs ==
  ASSUME NEW S, NEW doc \in Seq(S), NEW out
  PROVE  LET nodes == Gen!Kept(doc, Gen!Writes(out))
         IN  /\ Gen!Emitted(out, doc) = [k \in 1..Len(nodes) |-> Gen!Declaration(out, nodes[k])]
             /\ Gen!Kept(doc, Gen!Writes(out)) \in Seq(S)
<1> DEFINE nodes == Gen!Kept(doc, Gen!Writes(out))
<1>1. nodes \in Seq(S)
  BY KeptFacts
<1>2. Gen!Emitted(out, doc) = [k \in DOMAIN nodes |-> Gen!Declaration(out, nodes[k])]
  BY DEF Gen!Emitted
<1> HIDE DEF nodes
<1>3. DOMAIN nodes = 1..Len(nodes)
  BY <1>1
<1> QED
  BY <1>1, <1>2, <1>3 DEF nodes

\* Whatever a written declaration refers to is written above it.
LEMMA ResolvesInDocument ==
  ASSUME TypeOK, Settled
  PROVE  NamesResolve
<1>1. body \in Seq(NodeType) /\ Len(body) \in Nat
  BY DEF TypeOK
<1> SUFFICES ASSUME NEW out \in Gen!Outputs \ {"cpp"},
                    NEW k \in DOMAIN Gen!Emitted(out, body),
                    NEW name \in Gen!Emitted(out, body)[k].uses
             PROVE  \E j \in 1..k - 1 :
                      /\ Gen!Emitted(out, body)[j].name = name
                      /\ Gen!Emitted(out, body)[j].kind # "msg"
  BY DEF NamesResolve
<1>2. out \in {"py", "cs", "fbs", "hpp"}
  BY DEF Gen!Outputs
<1> DEFINE text == Gen!Emitted(out, body)
           kinds == Gen!Writes(out)
           nodes == Gen!Kept(body, kinds)
<1>3. PICK at : Picks(body, kinds, nodes, Len(body), at)
  BY <1>1, KeptFacts
<1>4. /\ text = [m \in 1..Len(nodes) |-> Gen!Declaration(out, nodes[m])]
      /\ nodes \in Seq(NodeType)
  BY <1>1, EmittedIs
<1> HIDE DEF text, nodes, kinds
<1>5. k \in 1..Len(nodes) /\ Len(nodes) \in Nat
  BY <1>4 DEF text
<1>6. /\ at[k] \in 1..Len(body) /\ nodes[k] = body[at[k]]
      /\ \A m \in 1..Len(body) : body[m].kind \in kinds =>
           \E j \in 1..Len(nodes) : at[j] = m
      /\ \A j \in 1..Len(nodes) : nodes[j] = body[at[j]]
      /\ \A i, j \in 1..Len(nodes) : i < j => at[i] < at[j]
  BY <1>3, <1>5 DEF Picks
<1>7. /\ name \in {Gen!TypeName(out, nodes[k].fields[f]) : f \in DOMAIN nodes[k].fields}
      /\ name \notin BasicTypes
  <2>1. name \in text[k].uses
    BY DEF text
  <2>2. text[k].uses = {Gen!TypeName(out, nodes[k].fields[f]) : f \in DOMAIN nodes[k].fields}
                         \ BasicTypes
    BY <1>4, <1>5, SameTypes DEF Gen!Declaration
  <2> QED
    BY <2>1, <2>2
<1>8. PICK f \in DOMAIN nodes[k].fields : name = Gen!TypeName(out, nodes[k].fields[f])
  BY <1>7
<1>9. f \in 1..Len(body[at[k]].fields)
  <2>1. body[at[k]] \in NodeType
    BY <1>1, <1>6
  <2>2. body[at[k]].fields \in FieldsType
    BY <2>1 DEF NodeType
  <2>3. body[at[k]].fields \in Seq(FieldRecord)
    BY <2>2, FieldsAreRecords
  <2> QED
    BY <1>6, <1>8, <2>3
<1>10. PICK m \in 1..(at[k] - 1) : body[m].name = name /\ body[m].kind \in kinds \ {"msg"}
  <2> DEFINE p == at[k]
  <2>1. /\ p \in 1..Len(body) /\ f \in 1..Len(body[p].fields)
        /\ name = Gen!TypeName(out, body[p].fields[f])
    BY <1>6, <1>8, <1>9
  <2> HIDE DEF p
  <2>2. \E m \in 1..(p - 1) : /\ body[m].name = Gen!TypeName(out, body[p].fields[f])
                             /\ body[m].kind \in Gen!Writes(out) \ {"msg"}
    BY <1>2, <1>7, <2>1, ShownIsWritten
  <2> QED
    BY <2>1, <2>2 DEF kinds, p
<1>11. m \in 1..Len(body) /\ m < at[k]
  BY <1>1, <1>6
<1>12. PICK j \in 1..Len(nodes) : at[j] = m
  BY <1>6, <1>10, <1>11
<1>13. j < k
  BY <1>5, <1>6, <1>11, <1>12
<1>14. text[j] = Gen!Declaration(out, nodes[j]) /\ nodes[j] = body[m]
  BY <1>4, <1>6, <1>12
<1>15. text[j].name = name /\ text[j].kind # "msg"
  BY <1>10, <1>14 DEF Gen!Declaration
<1>16. j \in 1..k - 1
  BY <1>5, <1>13
<1> QED
  BY <1>15, <1>16 DEF text

\* The C++ source is what the header keeps of structs and msgs.
LEMMA SourceMatches ==
  ASSUME TypeOK
  PROVE  SourceMatchesHeader
<1>1. body \in Seq(NodeType) /\ Len(body) \in Nat
  BY DEF TypeOK
<1> DEFINE n == Len(body)
           all == Gen!Writes("hpp")
           some == {"struct", "msg"}
           D(node) == Gen!Declaration("hpp", node)
           text == Gen!Emitted("hpp", body)
<1>2. PICK h \in [0..n -> Seq(NodeType)] : KeptUpTo(body, all, h)
  BY <1>1, KeptRecursion
<1>3. PICK c \in [0..n -> Seq(NodeType)] : KeptUpTo(body, some, c)
  BY <1>1, KeptRecursion
<1>4. \A k \in 1..n : body[k].kind \in all
  <2>1. \A k \in 1..n : body[k] \in NodeType
    BY <1>1
  <2> QED
    BY <2>1, WritesAre DEF NodeType, Kinds
<1>5. /\ h[0] = <<>> /\ \A k \in 1..n : h[k] = Append(h[k - 1], body[k])
      /\ Gen!Kept(body, all) = h[n]
  BY <1>2, <1>4 DEF KeptUpTo
<1>6. /\ c[0] = <<>> /\ Gen!Kept(body, some) = c[n]
      /\ \A k \in 1..n : c[k] = IF body[k].kind \in some THEN Append(c[k - 1], body[k])
                                ELSE c[k - 1]
  BY <1>3 DEF KeptUpTo
<1>7. n \in Nat
  BY <1>1
<1> HIDE DEF n, all, some
<1>8. h[n] = body
  <2> DEFINE Whole == {k \in 0..n : Len(h[k]) = k /\ \A i \in 1..k : h[k][i] = body[i]}
  <2>1. 0 \in Whole
    BY <1>5, <1>7
  <2>2. ASSUME NEW k \in 1..n, k - 1 \in Whole PROVE k \in Whole
    <3>1. k - 1 \in 0..n /\ k \in 0..n /\ h[k - 1] \in Seq(NodeType)
      BY <1>2, <1>7
    <3>2. h[k] = Append(h[k - 1], body[k]) /\ Len(h[k - 1]) = k - 1
      BY <1>5, <2>2
    <3>3. Len(h[k]) = k /\ h[k][k] = body[k] /\ \A i \in 1..(k - 1) : h[k][i] = h[k - 1][i]
      BY <3>1, <3>2
    <3>4. \A i \in 1..k : i = k \/ i \in 1..(k - 1)
      BY <3>1
    <3> QED
      BY <2>2, <3>1, <3>3, <3>4
  <2> HIDE DEF Whole
  <2>3. 0..n \subseteq Whole
    BY <1>7, <2>1, <2>2, SegmentInduction
  <2>4. h[n] \in Seq(NodeType) /\ Len(h[n]) = n /\ \A i \in 1..n : h[n][i] = body[i]
    BY <1>2, <1>7, <2>3 DEF Whole
  <2> QED
    BY <1>1, <2>4 DEF n
<1>9. text = [k \in 1..n |-> D(body[k])]
  <2>1. Gen!Kept(body, Gen!Writes("hpp")) = body
    BY <1>5, <1>8 DEF all
  <2> QED
    BY <1>1, <2>1, EmittedIs DEF n
<1> DEFINE S == {D(body[k]) : k \in 1..n}
<1>10. text \in Seq(S) /\ Len(text) = n /\ \A k \in 1..n : text[k].kind = body[k].kind
  <2>1. \A k \in 1..n : D(body[k]).kind = body[k].kind
    BY DEF Gen!Declaration
  <2> HIDE DEF D
  <2>2. text \in [1..n -> S]
    BY <1>9
  <2>3. \A k \in 1..n : text[k] = D(body[k])
    BY <1>9
  <2> HIDE DEF text, S
  <2>4. text \in Seq(S) /\ Len(text) = n
    BY <1>7, <2>2
  <2>5. \A k \in 1..n : text[k].kind = body[k].kind
    BY <2>1, <2>3
  <2> QED
    BY <2>4, <2>5
<1> HIDE DEF text, S
<1>11. PICK t \in [0..n -> Seq(S)] : KeptUpTo(text, some, t)
  BY <1>10, KeptRecursion
<1>12. /\ t[0] = <<>> /\ Gen!Kept(text, some) = t[n]
       /\ \A k \in 1..n : t[k] = IF body[k].kind \in some THEN Append(t[k - 1], D(body[k]))
                                 ELSE t[k - 1]
  <2>1. \A k \in 1..n : text[k] = D(body[k])
    BY <1>9
  <2> HIDE DEF D
  <2> QED
    BY <1>10, <1>11, <2>1 DEF KeptUpTo
<1> HIDE DEF D
<1> DEFINE Same == {k \in 0..n : /\ Len(t[k]) = Len(c[k])
                                 /\ \A i \in 1..Len(c[k]) : t[k][i] = D(c[k][i])}
<1>13. 0 \in Same
  BY <1>6, <1>12, <1>7
<1>14. ASSUME NEW k \in 1..n, k - 1 \in Same PROVE k \in Same
  <2>1. /\ k - 1 \in 0..n /\ k \in 0..n /\ c[k - 1] \in Seq(NodeType) /\ t[k - 1] \in Seq(S)
    BY <1>3, <1>11, <1>7
  <2>2. CASE body[k].kind \notin some
    <3>1. t[k] = t[k - 1] /\ c[k] = c[k - 1]
      BY <1>6, <1>12, <2>2
    <3> QED
      BY <1>14, <2>1, <3>1
  <2>3. CASE body[k].kind \in some
    <3> DEFINE l == Len(c[k - 1])
    <3>1. t[k] = Append(t[k - 1], D(body[k])) /\ c[k] = Append(c[k - 1], body[k])
      BY <1>6, <1>12, <2>3
    <3>2. l \in Nat /\ Len(t[k - 1]) = l /\ \A i \in 1..l : t[k - 1][i] = D(c[k - 1][i])
      BY <1>14, <2>1
    <3>3. /\ Len(t[k]) = l + 1 /\ t[k][l + 1] = D(body[k])
          /\ \A i \in 1..l : t[k][i] = t[k - 1][i]
      BY <2>1, <3>1, <3>2
    <3>4. /\ Len(c[k]) = l + 1 /\ c[k][l + 1] = body[k]
          /\ \A i \in 1..l : c[k][i] = c[k - 1][i]
      BY <2>1, <3>1, <3>2
    <3> HIDE DEF l
    <3>5. \A i \in 1..(l + 1) : i = l + 1 \/ i \in 1..l
      BY <3>2
    <3> QED
      BY <2>1, <3>2, <3>3, <3>4, <3>5
  <2> QED
    BY <2>2, <2>3
<1> HIDE DEF Same
<1>15. 0..n \subseteq Same
  BY <1>13, <1>14, <1>7, SegmentInduction
<1>16. /\ Len(t[n]) = Len(c[n]) /\ t[n] \in Seq(S) /\ c[n] \in Seq(NodeType)
       /\ \A i \in 1..Len(c[n]) : t[n][i] = D(c[n][i])
  BY <1>3, <1>7, <1>11, <1>15 DEF Same
<1>17. Gen!Emitted("cpp", body) = [i \in 1..Len(c[n]) |-> Gen!Declaration("cpp", c[n][i])]
  <2>1. Gen!Kept(body, Gen!Writes("cpp")) = c[n]
    BY <1>6, WritesAre DEF some
  <2> QED
    BY <1>1, <2>1, EmittedIs
<1>18. ASSUME NEW node PROVE Gen!Declaration("cpp", node) = D(node)
  BY TypeNameIs DEF Gen!Declaration, D
<1>19. Gen!Emitted("cpp", body) = t[n]
  <2> DEFINE tn == t[n]
             cn == c[n]
             l  == Len(cn)
  <2>1. tn \in Seq(S) /\ Len(tn) = l /\ \A i \in 1..l : tn[i] = D(cn[i])
    BY <1>16
  <2>2. Gen!Emitted("cpp", body) = [i \in 1..l |-> D(cn[i])]
    BY <1>17, <1>18
  <2> HIDE DEF tn, cn, l
  <2>3. tn \in [1..l -> S]
    BY <2>1
  <2>4. tn = [i \in 1..l |-> tn[i]]
    BY <2>3
  <2> QED
    BY <2>1, <2>2, <2>4 DEF tn
<1> QED
  BY <1>12, <1>19 DEF SourceMatchesHeader, text, some

\* Every generated document is closed and in order, whatever errors the file
\* had: each language shows a type under a name its own document has above.
THEOREM DocumentsClosedHolds == Spec => []DocumentsClosed
<1>1. IInv /\ Settled => DocumentsClosed
  BY ResolvesInDocument, SourceMatches DEF IInv, DocumentsClosed
<1> QED
  BY <1>1, SettledAlways, PTL
-----------------------------------------------------------------------------
(* The factories *)

\* The i-th message of the list is that with index i - 1.
LEMMA MessagesNumbered ==
  ASSUME TypeOK, MsgIndexDense
  PROVE  LET msgs == Gen!MessagesOf(body)
         IN  /\ msgs \in Seq(NodeType)
             /\ \A i \in 1..Len(msgs) :
                  /\ msgs[i].index = i - 1
                  /\ \E k \in 1..Len(body) : body[k] = msgs[i] /\ body[k].kind = "msg"
             /\ \A k \in 1..Len(body) : body[k].kind = "msg" =>
                  \E i \in 1..Len(msgs) : body[k] = msgs[i]
<1> DEFINE msgs == Gen!MessagesOf(body)
           n == Len(body)
           l == Len(msgs)
<1>1. body \in Seq(NodeType) /\ Len(body) \in Nat
  BY DEF TypeOK
<1>2. msgs = Gen!Kept(body, {"msg"})
  BY DEF Gen!MessagesOf
<1>3. msgs \in Seq(NodeType) /\ \E at : Picks(body, {"msg"}, msgs, n, at)
  BY <1>1, <1>2, KeptFacts
<1> HIDE DEF msgs
<1>4. PICK at : Picks(body, {"msg"}, msgs, n, at)
  BY <1>3
<1>5. l \in Nat
  BY <1>3
<1>6. /\ at \in [1..l -> 1..n]
      /\ \A i \in 1..l : msgs[i] = body[at[i]] /\ body[at[i]].kind = "msg"
      /\ \A i, j \in 1..l : i < j => at[i] < at[j]
      /\ \A k \in 1..n : body[k].kind = "msg" => \E i \in 1..l : at[i] = k
  BY <1>4 DEF Picks
<1>7. \A k \in 1..n : body[k].index \in Nat
  <2>1. \A k \in 1..n : body[k] \in NodeType
    BY <1>1
  <2> QED
    BY <2>1 DEF NodeType
<1>8. /\ \A j, k \in 1..n : body[j].kind = "msg" /\ body[k].kind = "msg" /\ j < k =>
           body[j].index < body[k].index
      /\ \A k \in 1..n : body[k].kind = "msg" =>
           \A v \in 0..body[k].index : \E j \in 1..n : body[j].kind = "msg" /\ body[j].index = v
  BY DEF MsgIndexDense, IsMsg
<1> HIDE DEF n, l
<1>9. /\ \A i \in 1..l : msgs[i].index \in Nat
      /\ \A i, j \in 1..l : i < j => msgs[i].index < msgs[j].index
  <2>1. \A i \in 1..l : at[i] \in 1..n
    BY <1>6
  <2> QED
    BY <1>6, <1>7, <1>8, <2>1, SMTT(60)
<1>10. \A i \in 1..l : \A v \in 0..msgs[i].index : \E j \in 1..l : msgs[j].index = v
  <2> SUFFICES ASSUME NEW i \in 1..l, NEW v \in 0..msgs[i].index
               PROVE  \E j \in 1..l : msgs[j].index = v
    OBVIOUS
  <2>1. at[i] \in 1..n /\ body[at[i]].kind = "msg" /\ v \in 0..body[at[i]].index
    BY <1>6
  <2>2. PICK k \in 1..n : body[k].kind = "msg" /\ body[k].index = v
    BY <1>8, <2>1
  <2>3. PICK j \in 1..l : at[j] = k
    BY <1>6, <2>2
  <2> QED
    BY <1>6, <2>2, <2>3
<1> DEFINE Numbered == {i \in 0..l : \A j \in 1..i : msgs[j].index = j - 1}
<1>11. 0 \in Numbered
  BY <1>5
<1>12. ASSUME NEW i \in 1..l, i - 1 \in Numbered PROVE i \in Numbered
  <2>1. /\ i \in 0..l /\ \A j \in 1..(i - 1) : j \in 1..l /\ msgs[j].index = j - 1
        /\ \A j \in 1..i : j = i \/ j \in 1..(i - 1)
    BY <1>5, <1>12
  <2>2. msgs[i].index >= i - 1
    <3>1. CASE i = 1
      BY <1>9, <3>1
    <3>2. CASE i # 1
      <4>1. i - 1 \in 1..(i - 1)
        BY <1>5, <3>2
      <4>2. msgs[i - 1].index = (i - 1) - 1 /\ msgs[i - 1].index < msgs[i].index
        BY <1>5, <1>9, <2>1, <4>1
      <4> QED
        BY <1>5, <1>9, <4>2
    <3> QED
      BY <3>1, <3>2
  <2>3. ASSUME msgs[i].index > i - 1 PROVE FALSE
    <3>1. i - 1 \in 0..msgs[i].index
      BY <1>5, <1>9, <2>3
    <3>2. PICK j \in 1..l : msgs[j].index = i - 1
      BY <1>10, <3>1
    <3>3. CASE j < i
      <4>1. j \in 1..(i - 1)
        BY <1>5, <3>3
      <4> QED
        BY <1>5, <2>1, <3>2, <4>1
    <3>4. CASE j = i
      BY <2>3, <3>2, <3>4
    <3>5. CASE i < j
      BY <1>5, <1>9, <2>3, <3>2, <3>5
    <3> QED
      BY <1>5, <3>3, <3>4, <3>5
  <2>4. msgs[i].index = i - 1
    BY <1>5, <1>9, <2>2, <2>3
  <2> QED
    BY <2>1, <2>4
<1> HIDE DEF Numbered
<1>13. 0..l \subseteq Numbered
  BY <1>5, <1>11, <1>12, SegmentInduction
<1>14. ASSUME NEW i \in 1..l PROVE msgs[i].index = i - 1
  BY <1>5, <1>13 DEF Numbered
<1>15. ASSUME NEW i \in 1..l
       PROVE  \E k \in 1..n : body[k] = msgs[i] /\ body[k].kind = "msg"
  BY <1>6
<1>16. ASSUME NEW k \in 1..n, body[k].kind = "msg" PROVE \E i \in 1..l : body[k] = msgs[i]
  BY <1>6, <1>16
<1> QED
  BY <1>3, <1>14, <1>15, <1>16 DEF msgs, n, l

\* The three factories of a settled document make the same class.
LEMMA FactoriesInDocument ==
  ASSUME TypeOK, Settled, MsgIndexDense
  PROVE  FactoriesAgree
<1> DEFINE msgs == Gen!MessagesOf(body)
           n == Len(body)
           l == Len(msgs)
<1>1. body \in Seq(NodeType) /\ n \in Nat /\ DOMAIN body = 1..n
  BY DEF TypeOK
<1>2. /\ msgs \in Seq(NodeType)
      /\ \A i \in 1..l : /\ msgs[i].index = i - 1
                         /\ \E k \in 1..n : body[k] = msgs[i] /\ body[k].kind = "msg"
      /\ \A k \in 1..n : body[k].kind = "msg" => \E i \in 1..l : body[k] = msgs[i]
  BY MessagesNumbered
<1>3. \A j, k \in 1..n : body[j].name = body[k].name => j = k
  BY DEF Settled
<1> HIDE DEF msgs, n
<1>4. DOMAIN msgs = 1..l /\ l \in Nat
  BY <1>2
<1> HIDE DEF l
<1>5. ASSUME NEW i \in 1..l PROVE Gen!NodeOf(body, msgs[i].name).index = i - 1
  <2>1. PICK k \in 1..n : body[k] = msgs[i]
    BY <1>2
  <2> DEFINE name == msgs[i].name
             Chosen == CHOOSE j \in DOMAIN body : body[j].name = name
  <2>2. Chosen \in 1..n /\ body[Chosen].name = name
    BY <1>1, <2>1
  <2>3. Gen!NodeOf(body, name) = body[Chosen]
    BY DEF Gen!NodeOf
  <2> HIDE DEF Chosen
  <2>4. Chosen = k
    BY <1>3, <2>1, <2>2
  <2> QED
    BY <1>2, <2>1, <2>3, <2>4
<1> DEFINE op == Gen!OpCode(body)
<1>6. op = [name \in {msgs[i].name : i \in DOMAIN msgs} |-> Gen!NodeOf(body, name).index]
  BY DEF Gen!OpCode, msgs
<1> HIDE DEF op
<1> SUFFICES ASSUME NEW code \in -1..n
             PROVE  LET class == {name \in DOMAIN op : op[name] = code}
                    IN  /\ Gen!PyFactory(body, code) = class
                        /\ Gen!CsFactory(body, code) = class
                        /\ Gen!CppFactory(body, code) = class
  BY DEF FactoriesAgree, op, n
<1> DEFINE class == {name \in DOMAIN op : op[name] = code}
           one == {msgs[i].name : i \in {j \in 1..l : j - 1 = code}}
           byIndex == {body[k].name : k \in {j \in DOMAIN body :
                                 body[j].kind = "msg" /\ body[j].index = code}}
<1>7. class = one
  <2>1. DOMAIN op = {msgs[i].name : i \in 1..l}
    BY <1>4, <1>6
  <2>2. \A i \in 1..l : op[msgs[i].name] = i - 1
    BY <1>4, <1>5, <1>6
  <2> QED
    BY <2>1, <2>2
<1>8. byIndex = one
  <2>1. ASSUME NEW k \in 1..n, body[k].kind = "msg", body[k].index = code
        PROVE  body[k].name \in one
    <3>1. PICK i \in 1..l : body[k] = msgs[i]
      BY <1>2, <2>1
    <3>2. i - 1 = code
      BY <1>2, <2>1, <3>1
    <3> QED
      BY <3>1, <3>2
  <2>2. ASSUME NEW i \in 1..l, i - 1 = code
        PROVE  \E k \in 1..n : body[k].kind = "msg" /\ body[k].index = code
                                 /\ body[k].name = msgs[i].name
    BY <1>2, <2>2
  <2> QED
    BY <1>1, <2>1, <2>2
<1>9. Gen!PyFactory(body, code) = one
  <2>1. Gen!PyFactory(body, code) =
          IF code < 0 \/ code >= l THEN {} ELSE {msgs[code + 1].name}
    BY DEF Gen!PyFactory, msgs, l
  <2>2. \A i \in 1..l : i - 1 = code <=> i = code + 1
    BY <1>1, <1>4
  <2>3. (code < 0 \/ code >= l) <=> code + 1 \notin 1..l
    BY <1>1, <1>4
  <2> QED
    BY <2>1, <2>2, <2>3
<1>10. Gen!CsFactory(body, code) = byIndex /\ Gen!CppFactory(body, code) = byIndex
  BY DEF Gen!CsFactory, Gen!CppFactory
<1> HIDE DEF class, one, byIndex
<1> QED
  BY <1>7, <1>8, <1>9, <1>10 DEF class

\* In every document the parser publishes, the factories of the languages make
\* the same class of an opcode, the one whose GetOpCode it is, although Python
\* counts along a list and the others go by the index the parser gave out.
THEOREM FactoriesAgreeHolds == Spec => []FactoriesAgree
<1>1. IInv /\ Settled => FactoriesAgree
  BY FactoriesInDocument DEF IInv, BodyInv
<1> QED
  BY <1>1, SettledAlways, PTL
-----------------------------------------------------------------------------
(* Counting *)

\* How many positions of a set come before k.
Before(U, k) == Cardinality({h \in U : h < k})

\* Counting along a list: one more behind each position of the set.
LEMMA CountFacts ==
  ASSUME NEW m \in Nat, NEW U \in SUBSET (1..m)
  PROVE  /\ IsFiniteSet(U)
         /\ \A k \in Int : Before(U, k) \in Nat
         /\ Before(U, 1) = 0 /\ Before(U, m + 1) = Cardinality(U)
         /\ \A k \in 1..m : Before(U, k + 1) = Before(U, k) + (IF k \in U THEN 1 ELSE 0)
         /\ \A j, k \in Int : j <= k => Before(U, j) <= Before(U, k)
<1>0. \A h \in U : h \in 1..m /\ h \in Int
  OBVIOUS
<1>1. IsFiniteSet(U)
  <2>1. IsFiniteSet(1..m)
    BY FS_Interval
  <2> QED
    BY <2>1, FS_Subset
<1>2. ASSUME NEW k \in Int PROVE IsFiniteSet({h \in U : h < k})
  <2>1. {h \in U : h < k} \in SUBSET U
    OBVIOUS
  <2> QED
    BY <1>1, <2>1, FS_Subset
<1>3. \A k \in Int : Before(U, k) \in Nat
  BY <1>2, FS_CardinalityType DEF Before
<1>4. Before(U, 1) = 0
  <2>0. \A h \in U : ~(h < 1)
    BY <1>0
  <2>1. {h \in U : h < 1} = {}
    BY <2>0
  <2> QED
    BY <2>1, FS_EmptySet DEF Before
<1>5. Before(U, m + 1) = Cardinality(U)
  <2>0. \A h \in U : h < m + 1
    BY <1>0
  <2>1. {h \in U : h < m + 1} = U
    BY <2>0
  <2> QED
    BY <2>1 DEF Before
<1>6. ASSUME NEW k \in 1..m
      PROVE  Before(U, k + 1) = Before(U, k) + (IF k \in U THEN 1 ELSE 0)
  <2> DEFINE old == {h \in U : h < k}
             new == {h \in U : h < k + 1}
  <2>0. \A h \in U : h < k + 1 <=> h < k \/ h = k
    BY <1>0
  <2>1. k \notin old /\ IsFiniteSet(old) /\ Cardinality(old) \in Nat
    BY <1>2, FS_CardinalityType
  <2>2. CASE k \in U
    <3>1. new = old \cup {k}
      BY <2>0, <2>2
    <3> HIDE DEF old, new
    <3>2. Cardinality(new) = Cardinality(old) + 1
      BY <2>1, <3>1, FS_AddElement
    <3> QED
      BY <2>2, <3>2 DEF Before, old, new
  <2>3. CASE k \notin U
    <3>1. new = old
      BY <2>0, <2>3
    <3> HIDE DEF old, new
    <3>2. Cardinality(new) = Cardinality(old) + 0
      BY <2>1, <3>1
    <3> QED
      BY <2>3, <3>2 DEF Before, old, new
  <2> QED
    BY <2>2, <2>3
<1>7. ASSUME NEW j \in Int, NEW k \in Int, j <= k
      PROVE  Before(U, j) <= Before(U, k)
  <2>1. \A h \in U : h < j => h < k
    BY <1>0, <1>7
  <2>2. {h \in U : h < j} \in SUBSET {h \in U : h < k}
    BY <2>1
  <2> QED
    BY <1>2, <2>2, FS_Subset DEF Before
<1> QED
  BY <1>1, <1>3, <1>4, <1>5, <1>6, <1>7
-----------------------------------------------------------------------------
(* The text of a list of pieces *)

\* FlattenSeq as a loop from the empty sequence on.
LEMMA FlattenRecursion ==
  ASSUME NEW S, NEW pieces \in Seq(Seq(S))
  PROVE  \E u \in [0..Len(pieces) -> Seq(S)] :
           /\ u[0] = <<>> /\ Gen!FlattenSeq(pieces) = u[Len(pieces)]
           /\ \A k \in 1..Len(pieces) : u[k] = u[k - 1] \o pieces[k]
<1> DEFINE n == Len(pieces)
           T == Seq(S)
           step == [k \in 1..n |-> [s \in T |-> s \o pieces[k]]]
           Rec(f) == [i \in 1..n |-> IF i = 1 THEN pieces[i] ELSE f[i - 1] \o pieces[i]]
           flatten == CHOOSE f : f = Rec(f)
<1>1. Gen!FlattenSeq(pieces) = IF n = 0 THEN pieces ELSE flatten[n]
  BY DEF Gen!FlattenSeq
<1>2. n \in Nat /\ \A k \in 1..n : pieces[k] \in T
  OBVIOUS
<1>3. <<>> \in T /\ \A s, t \in T : s \o t \in T
  OBVIOUS
<1>4. \A s \in T : <<>> \o s = s
  OBVIOUS
<1>5. n = 0 => pieces = <<>>
  OBVIOUS
<1> HIDE DEF n, T
<1>6. step \in [1..n -> [T -> T]]
  BY <1>2, <1>3
<1>7. PICK u \in [0..n -> T] : Follows(u, n, <<>>, step)
  <2> HIDE DEF step
  <2> QED
    BY <1>2, <1>3, <1>6, SegmentRecursion
<1>8. u[0] = <<>> /\ \A k \in 1..n : u[k] = u[k - 1] \o pieces[k]
  <2>1. ASSUME NEW k \in 1..n PROVE u[k] = u[k - 1] \o pieces[k]
    <3>1. k - 1 \in 0..n /\ u[k - 1] \in T
      BY <1>2, <1>7
    <3>2. u[k] = step[k][u[k - 1]]
      BY <1>7 DEF Follows
    <3> QED
      BY <3>1, <3>2
  <2> QED
    BY <1>7, <2>1 DEF Follows
<1> DEFINE w == [k \in 1..n |-> u[k]]
<1>9. w = Rec(w)
  <2>1. ASSUME NEW k \in 1..n PROVE w[k] = Rec(w)[k]
    <3>1. CASE k = 1
      <4>1. u[k] = <<>> \o pieces[k] /\ pieces[k] \in T
        <5>1. k - 1 = 0
          BY <3>1
        <5> QED
          BY <1>2, <1>8, <5>1
      <4> QED
        BY <1>4, <3>1, <4>1
    <3>2. CASE k # 1
      <4>1. k - 1 \in 1..n
        BY <1>2, <3>2
      <4> QED
        BY <1>8, <3>2, <4>1
    <3> QED
      BY <3>1, <3>2
  <2> QED
    BY <2>1
<1> HIDE DEF Rec, w
<1>10. flatten = Rec(flatten)
  BY <1>9
<1> HIDE DEF flatten
<1>11. \A k \in 1..n : flatten[k] = IF k = 1 THEN pieces[k] ELSE flatten[k - 1] \o pieces[k]
  BY <1>10 DEF Rec
<1> DEFINE Same == {k \in 0..n : k = 0 \/ flatten[k] = u[k]}
<1>12. 0 \in Same /\ \A k \in 1..n : k - 1 \in Same => k \in Same
  <2>1. 0 \in Same
    BY <1>2
  <2>2. ASSUME NEW k \in 1..n, k - 1 \in Same PROVE k \in Same
    <3>1. CASE k = 1
      <4>1. u[k] = <<>> \o pieces[k] /\ pieces[k] \in T /\ flatten[k] = pieces[k]
        <5>1. k - 1 = 0
          BY <3>1
        <5> QED
          BY <1>2, <1>8, <1>11, <3>1, <5>1
      <4> QED
        BY <1>2, <1>4, <3>1, <4>1
    <3>2. CASE k # 1
      <4>1. flatten[k - 1] = u[k - 1] /\ k \in 0..n
        BY <1>2, <2>2, <3>2
      <4> QED
        BY <1>8, <1>11, <3>2, <4>1
    <3> QED
      BY <3>1, <3>2
  <2> QED
    BY <2>1, <2>2
<1> HIDE DEF Same
<1>13. 0..n \subseteq Same
  BY <1>2, <1>12, SegmentInduction
<1>14. Gen!FlattenSeq(pieces) = u[n]
  <2>1. n \in Same
    BY <1>2, <1>13
  <2> QED
    BY <1>1, <1>5, <1>8, <2>1 DEF Same
<1> QED
  BY <1>7, <1>8, <1>14 DEF n, T

\* Where the elements of a set are.
Firsts(flat, C) == {i \in 1..Len(flat) : flat[i] \in C}

\* The pieces of U have one element of C each, the first, and others none.
LedBy(pieces, C, U) ==
  /\ U \in SUBSET (1..Len(pieces))
  /\ \A g \in 1..Len(pieces) : \A i \in 1..Len(pieces[g]) :
       pieces[g][i] \in C <=> g \in U /\ i = 1
  /\ \A g \in U : Len(pieces[g]) > 0

\* In the text of such pieces those elements come in the order of the pieces.
LEMMA FirstsInOrder ==
  ASSUME NEW S, NEW pieces \in Seq(Seq(S)), NEW C, NEW U, LedBy(pieces, C, U)
  PROVE  /\ Gen!FlattenSeq(pieces) \in Seq(S)
         /\ IsFiniteSet(Firsts(Gen!FlattenSeq(pieces), C))
         /\ Cardinality(Firsts(Gen!FlattenSeq(pieces), C)) = Cardinality(U)
         /\ \A i \in Firsts(Gen!FlattenSeq(pieces), C) : \E g \in U :
              /\ Gen!FlattenSeq(pieces)[i] = pieces[g][1]
              /\ Before(Firsts(Gen!FlattenSeq(pieces), C), i) = Before(U, g)
<1> DEFINE n == Len(pieces)
           T == Seq(S)
<1>1. n \in Nat /\ U \in SUBSET (1..n) /\ \A k \in 1..n : pieces[k] \in T
  BY DEF LedBy
<1>2. PICK u \in [0..n -> T] : /\ u[0] = <<>> /\ Gen!FlattenSeq(pieces) = u[n]
                               /\ \A k \in 1..n : u[k] = u[k - 1] \o pieces[k]
  BY FlattenRecursion
<1>3. /\ \A k \in 1..n : \A i \in 1..Len(pieces[k]) : pieces[k][i] \in C <=> k \in U /\ i = 1
      /\ \A k \in U : Len(pieces[k]) > 0
  BY DEF LedBy
<1> HIDE DEF n
<1>4. /\ \A k \in Int : Before(U, k) \in Nat
      /\ Before(U, 1) = 0 /\ Before(U, n + 1) = Cardinality(U)
      /\ \A k \in 1..n : Before(U, k + 1) = Before(U, k) + (IF k \in U THEN 1 ELSE 0)
  BY <1>1, CountFacts, ZenonT(60)
<1> DEFINE firsts(k) == {i \in 1..Len(u[k]) : u[k][i] \in C}
           Matched(k) == \A i \in firsts(k) : \E g \in U :
                           u[k][i] = pieces[g][1] /\ Before(firsts(k), i) = Before(U, g)
           Good == {k \in 0..n : Cardinality(firsts(k)) = Before(U, k + 1) /\ Matched(k)}
<1>5. 0 \in Good
  <2>1. firsts(0) = {}
    BY <1>2
  <2> HIDE DEF firsts
  <2>2. Cardinality(firsts(0)) = 0 /\ Matched(0)
    BY <2>1, FS_EmptySet
  <2> HIDE DEF Matched
  <2> QED
    BY <1>1, <1>4, <2>2
<1>6. ASSUME NEW k \in 1..n, k - 1 \in Good PROVE k \in Good
  <2> DEFINE s == u[k - 1]
             p == pieces[k]
             l == Len(s)
             old == firsts(k - 1)
             new == firsts(k)
  <2>1. /\ k - 1 \in 0..n /\ k \in 0..n /\ k \in Int /\ s \in T /\ p \in T
        /\ u[k] = s \o p /\ l \in Nat /\ Len(p) \in Nat
    <3>1. k - 1 \in 0..n /\ k \in 0..n /\ k \in Int
      BY <1>1
    <3>2. s \in T /\ p \in T /\ u[k] = s \o p
      BY <1>1, <1>2, <3>1
    <3>3. l \in Nat /\ Len(p) \in Nat
      BY <3>2
    <3> QED
      BY <3>1, <3>2, <3>3
  <2>2. /\ Len(u[k]) = l + Len(p)
        /\ \A i \in 1..l : u[k][i] = s[i]
        /\ \A i \in 1..Len(p) : u[k][l + i] = p[i]
    BY <2>1
  <2>3. Cardinality(old) = Before(U, k) /\ Matched(k - 1)
    <3>1. k - 1 + 1 = k
      BY <2>1
    <3> HIDE DEF firsts, Matched
    <3> QED
      BY <1>6, <3>1
  <2>4. old \in SUBSET (1..l) /\ IsFiniteSet(old)
    <3>1. old \in SUBSET (1..l)
      OBVIOUS
    <3> HIDE DEF old, l
    <3> QED
      BY <2>1, <3>1, CountFacts
  <2>5. \A i \in 1..(l + Len(p)) : i \in new <=> i \in old \/ (k \in U /\ i = l + 1)
    <3> SUFFICES ASSUME NEW i \in 1..(l + Len(p))
                 PROVE  i \in new <=> i \in old \/ (k \in U /\ i = l + 1)
      OBVIOUS
    <3>1. CASE i \in 1..l
      <4>1. i # l + 1
        BY <2>1, <3>1
      <4> QED
        BY <2>2, <3>1, <4>1
    <3>2. CASE i \notin 1..l
      <4>1. i - l \in 1..Len(p) /\ i = l + (i - l) /\ (i - l = 1 <=> i = l + 1)
        <5> HIDE DEF l, p
        <5> QED
          BY <2>1, <3>2
      <4>2. u[k][i] = p[i - l]
        BY <2>2, <4>1
      <4>3. p[i - l] \in C <=> k \in U /\ i - l = 1
        BY <1>3, <4>1
      <4>4. i \in new <=> u[k][i] \in C
        BY <2>2
      <4>5. i \notin old
        BY <3>2
      <4> QED
        BY <4>1, <4>2, <4>3, <4>4, <4>5
    <3> QED
      BY <3>1, <3>2
  <2>6. new \in SUBSET (1..(l + Len(p)))
    BY <2>2
  <2>7. k \in U => l + 1 \in 1..(l + Len(p)) /\ u[k][l + 1] = p[1]
    <3>1. k \in U => Len(p) > 0
      BY <1>3
    <3>2. Len(p) > 0 => 1 \in 1..Len(p) /\ l + 1 \in 1..(l + Len(p))
      BY <2>1
    <3> QED
      BY <2>2, <3>1, <3>2
  <2>8. new = old \cup (IF k \in U THEN {l + 1} ELSE {})
    <3> HIDE DEF new, old, l, p
    <3>1. \A i \in old : i \in 1..(l + Len(p))
      <4>1. l \in Nat /\ Len(p) \in Nat
        BY <2>1
      <4>2. \A i \in 1..l : i \in 1..(l + Len(p))
        BY <4>1
      <4> QED
        BY <2>4, <4>2
    <3> QED
      BY <2>5, <2>6, <2>7, <3>1
  <2>9. /\ \A i \in old : u[k][i] = s[i] /\ \E g \in U :
             s[i] = pieces[g][1] /\ Before(old, i) = Before(U, g)
    <3>1. \A i \in old : u[k][i] = s[i]
      BY <2>2, <2>4
    <3>2. \A i \in old : \E g \in U : s[i] = pieces[g][1] /\ Before(old, i) = Before(U, g)
      <4> HIDE DEF firsts
      <4> QED
        BY <2>3
    <3> QED
      BY <3>1, <3>2
  <2> HIDE DEF firsts, s, p, l, old, new
  <2>10. l + 1 \notin old /\ \A i \in old : i < l + 1 /\ ~(l + 1 < i) /\ i \in Int
    BY <2>1, <2>4
  <2>11. Cardinality(new) = Before(U, k + 1)
    <3>1. CASE k \in U
      <4>1. new = old \cup {l + 1}
        BY <2>8, <3>1
      <4>2. Cardinality(new) = Cardinality(old) + 1
        BY <2>4, <2>10, <4>1, FS_AddElement
      <4> QED
        BY <1>4, <2>3, <3>1, <4>2
    <3>2. CASE k \notin U
      <4>1. new = old
        BY <2>8, <3>2
      <4> QED
        BY <1>4, <2>1, <2>3, <3>2, <4>1
    <3> QED
      BY <3>1, <3>2
  <2>12. \A i \in old : Before(new, i) = Before(old, i)
    <3> SUFFICES ASSUME NEW i \in old PROVE Before(new, i) = Before(old, i)
      OBVIOUS
    <3>1. {h \in new : h < i} = {h \in old : h < i}
      BY <2>8, <2>10
    <3> QED
      BY <3>1 DEF Before
  <2>13. k \in U => Before(new, l + 1) = Cardinality(old)
    <3>1. ~(l + 1 < l + 1)
      BY <2>1
    <3>2. {h \in new : h < l + 1} = old
      BY <2>8, <2>10, <3>1
    <3> QED
      BY <3>2 DEF Before
  <2>14. ASSUME NEW i \in new
         PROVE  \E g \in U : u[k][i] = pieces[g][1] /\ Before(new, i) = Before(U, g)
    <3>1. CASE i \in old
      BY <2>9, <2>12, <3>1
    <3>2. CASE i \notin old
      <4>1. k \in U /\ i = l + 1
        BY <2>8, <3>2
      <4> QED
        BY <2>3, <2>7, <2>13, <4>1 DEF p
    <3> QED
      BY <3>1, <3>2
  <2>15. Matched(k)
    BY <2>14 DEF new
  <2> HIDE DEF Matched
  <2> QED
    BY <2>1, <2>11, <2>15 DEF new
<1> HIDE DEF Good
<1>7. 0..n \subseteq Good
  BY <1>1, <1>5, <1>6, SegmentInduction
<1>8. n \in 0..n /\ n \in Good /\ u[n] \in T
  BY <1>1, <1>2, <1>7
<1>9. IsFiniteSet(firsts(n))
  <2>1. Len(u[n]) \in Nat /\ firsts(n) \in SUBSET (1..Len(u[n]))
    BY <1>8
  <2> HIDE DEF firsts
  <2> QED
    BY <2>1, CountFacts
<1>10. Cardinality(firsts(n)) = Cardinality(U) /\ Matched(n)
  <2> HIDE DEF firsts, Matched
  <2> QED
    BY <1>4, <1>8 DEF Good
<1>11. Gen!FlattenSeq(pieces) = u[n] /\ firsts(n) = Firsts(u[n], C)
  BY <1>2 DEF Firsts
<1> HIDE DEF firsts
<1> QED
  BY <1>8, <1>9, <1>10, <1>11
-----------------------------------------------------------------------------
(* The packers of a Python class *)

\* The groups that go through a packer.
PackerGroups(doc, node) ==
  {g \in 1..Len(Gen!PyGroups(doc, node)) : Gen!UsesPacker(doc, node, Gen!PyGroups(doc, node)[g])}

\* The loop over the groups as a recursion along them.
LEMMA StructPackerRecursion ==
  ASSUME NEW doc, NEW node, NEW G, Gen!PyGroups(doc, node) \in Seq(G)
  PROVE  LET groups == Gen!PyGroups(doc, node)
             S == {Gen!PackerFmt(node, groups[g]) : g \in 1..Len(groups)}
         IN  \E u \in [0..Len(groups) -> Seq(S)] :
               /\ u[0] = <<>> /\ Gen!StructPacker(doc, node) = u[Len(groups)]
               /\ \A k \in 1..Len(groups) :
                    u[k] = IF k \in PackerGroups(doc, node)
                             THEN Append(u[k - 1], Gen!PackerFmt(node, groups[k]))
                             ELSE u[k - 1]
<1> DEFINE groups == Gen!PyGroups(doc, node)
           n == Len(groups)
           U == PackerGroups(doc, node)
           fmt(k) == Gen!PackerFmt(node, groups[k])
           S == {fmt(g) : g \in 1..n}
           Add(k, s) == IF k \in U THEN Append(s, fmt(k)) ELSE s
           step == [k \in 1..n |-> [s \in Seq(S) |-> Add(k, s)]]
           Rec(f) == [g \in 0..n |->
                        IF g = 0 THEN <<>>
                        ELSE IF Gen!UsesPacker(doc, node, groups[g])
                          THEN Append(f[g - 1], Gen!PackerFmt(node, groups[g]))
                        ELSE f[g - 1]]
           upto == CHOOSE f : f = Rec(f)
<1>1. Gen!StructPacker(doc, node) = upto[n]
  BY DEF Gen!StructPacker
<1>2. n \in Nat /\ \A k \in 1..n : k \in U <=> Gen!UsesPacker(doc, node, groups[k])
  BY DEF PackerGroups
<1> HIDE DEF groups, n, U
<1>3. ASSUME NEW k \in 1..n, NEW s \in Seq(S) PROVE Add(k, s) \in Seq(S)
  <2>1. fmt(k) \in S
    OBVIOUS
  <2> HIDE DEF S, fmt
  <2> QED
    BY <2>1
<1> HIDE DEF Add
<1>4. step \in [1..n -> [Seq(S) -> Seq(S)]]
  BY <1>3
<1>5. PICK f \in [0..n -> Seq(S)] : Follows(f, n, <<>>, step)
  <2> DEFINE T == Seq(S)
  <2>1. <<>> \in T /\ step \in [1..n -> [T -> T]]
    BY <1>4
  <2> HIDE DEF step, T
  <2>2. \E f \in [0..n -> T] : Follows(f, n, <<>>, step)
    BY <1>2, <2>1, SegmentRecursion
  <2> QED
    BY <2>2 DEF T
<1>6. f[0] = <<>> /\ \A k \in 1..n : f[k] = Add(k, f[k - 1])
  <2>1. f[0] = <<>>
    BY <1>5 DEF Follows
  <2>2. ASSUME NEW k \in 1..n PROVE f[k] = Add(k, f[k - 1])
    <3>1. k - 1 \in 0..n /\ f[k - 1] \in Seq(S)
      BY <1>2, <1>5
    <3>2. f[k] = step[k][f[k - 1]]
      BY <1>5 DEF Follows
    <3> QED
      BY <3>1, <3>2
  <2> QED
    BY <2>1, <2>2
<1>7. f = Rec(f)
  <2>1. \A k \in 0..n : k # 0 => k \in 1..n
    BY <1>2
  <2>2. ASSUME NEW k \in 0..n PROVE f[k] = Rec(f)[k]
    BY <1>2, <1>6, <2>1 DEF Add
  <2> QED
    BY <2>2
<1> HIDE DEF Rec
<1>8. upto = Rec(upto)
  BY <1>7
<1> HIDE DEF upto
<1> DEFINE u == [k \in 0..n |-> upto[k]]
<1>9. upto[0] = <<>> /\ \A k \in 1..n : upto[k] = Add(k, upto[k - 1])
  <2>1. upto = [g \in 0..n |->
                  IF g = 0 THEN <<>>
                  ELSE IF Gen!UsesPacker(doc, node, groups[g])
                    THEN Append(upto[g - 1], Gen!PackerFmt(node, groups[g]))
                  ELSE upto[g - 1]]
    BY <1>8 DEF Rec
  <2>2. 0 \in 0..n /\ \A k \in 1..n : k \in 0..n /\ k # 0
    BY <1>2
  <2> QED
    BY <1>2, <2>1, <2>2 DEF Add
<1> DEFINE Typed == {k \in 0..n : upto[k] \in Seq(S)}
<1>10. 0 \in Typed /\ \A k \in 1..n : k - 1 \in Typed => k \in Typed
  <2>1. 0 \in Typed
    <3>1. 0 \in 0..n /\ upto[0] \in Seq(S)
      BY <1>2, <1>9
    <3> HIDE DEF S
    <3> QED
      BY <3>1
  <2>2. ASSUME NEW k \in 1..n, k - 1 \in Typed PROVE k \in Typed
    <3>1. k \in 0..n /\ upto[k] = Add(k, upto[k - 1])
      BY <1>2, <1>9
    <3> QED
      BY <1>3, <2>2, <3>1
  <2> QED
    BY <2>1, <2>2
<1> HIDE DEF Typed
<1>11. 0..n \subseteq Typed
  BY <1>2, <1>10, SegmentInduction
<1>12. u \in [0..n -> Seq(S)] /\ n \in 0..n
  BY <1>2, <1>11, SMTT(60) DEF Typed
<1>13. /\ u[0] = <<>> /\ u[n] = upto[n]
       /\ \A k \in 1..n : u[k] = Add(k, u[k - 1])
  <2>1. ASSUME NEW k \in 1..n PROVE k \in 0..n /\ k - 1 \in 0..n
    BY <1>2
  <2> QED
    BY <1>2, <1>9, <2>1
<1>14. \A k \in 1..n : u[k] = IF k \in U THEN Append(u[k - 1], Gen!PackerFmt(node, groups[k]))
                                         ELSE u[k - 1]
  BY <1>13 DEF Add
<1>15. u[0] = <<>> /\ Gen!StructPacker(doc, node) = u[n]
  BY <1>1, <1>13
<1> HIDE DEF u
<1> QED
  BY <1>12, <1>14, <1>15 DEF groups, n, U

\* The table has the format of each such group, in the order of the groups.
LEMMA StructPackerFacts ==
  ASSUME NEW doc, NEW node, NEW G, Gen!PyGroups(doc, node) \in Seq(G)
  PROVE  LET packers == Gen!StructPacker(doc, node)
             U == PackerGroups(doc, node)
         IN  /\ Len(packers) = Cardinality(U)
             /\ \A g \in U : packers[Before(U, g) + 1] =
                               Gen!PackerFmt(node, Gen!PyGroups(doc, node)[g])
<1> DEFINE groups == Gen!PyGroups(doc, node)
           n == Len(groups)
           U == PackerGroups(doc, node)
           fmt(k) == Gen!PackerFmt(node, groups[k])
           S == {fmt(g) : g \in 1..n}
<1>1. n \in Nat /\ U \in SUBSET (1..n)
  BY DEF PackerGroups
<1>2. PICK u \in [0..n -> Seq(S)] :
               /\ u[0] = <<>> /\ Gen!StructPacker(doc, node) = u[n]
               /\ \A k \in 1..n : u[k] = IF k \in U THEN Append(u[k - 1], fmt(k)) ELSE u[k - 1]
  BY StructPackerRecursion
<1>3. \A k \in 1..n : fmt(k) \in S
  OBVIOUS
<1> HIDE DEF groups, n, U, fmt, S
<1>4. /\ \A k \in Int : Before(U, k) \in Nat
      /\ Before(U, 1) = 0 /\ Before(U, n + 1) = Cardinality(U)
      /\ \A k \in 1..n : Before(U, k + 1) = Before(U, k) + (IF k \in U THEN 1 ELSE 0)
      /\ \A j, k \in Int : j <= k => Before(U, j) <= Before(U, k)
  BY <1>1, CountFacts, ZenonT(60)
<1> DEFINE Placed(k) == \A g \in U : g <= k => u[k][Before(U, g) + 1] = fmt(g)
           Good == {k \in 0..n : Len(u[k]) = Before(U, k + 1) /\ Placed(k)}
<1>5. 0 \in Good
  <2>1. \A g \in U : ~(g <= 0)
    BY <1>1
  <2>2. Len(u[0]) = Before(U, 0 + 1)
    BY <1>2, <1>4
  <2> QED
    BY <1>1, <2>1, <2>2
<1>6. ASSUME NEW k \in 1..n, k - 1 \in Good PROVE k \in Good
  <2> DEFINE s == u[k - 1]
             l == Len(s)
  <2>1. /\ k - 1 \in 0..n /\ k \in 0..n /\ k \in Int /\ k - 1 + 1 = k
        /\ s \in Seq(S) /\ l \in Nat
    <3>1. k - 1 \in 0..n /\ k \in 0..n /\ k \in Int /\ k - 1 + 1 = k
      BY <1>1
    <3>2. s \in Seq(S)
      BY <1>2, <3>1
    <3> QED
      BY <3>1, <3>2
  <2>2. l = Before(U, k) /\ Placed(k - 1)
    <3> HIDE DEF Placed
    <3> QED
      BY <1>6, <2>1
  <2>3. \A g \in U : g \in Int /\ g \in 1..n
    BY <1>1
  <2>4. \A g \in U : g <= k - 1 => Before(U, g) + 1 \in 1..l /\ s[Before(U, g) + 1] = fmt(g)
    <3> SUFFICES ASSUME NEW g \in U, g <= k - 1
                 PROVE  Before(U, g) + 1 \in 1..l /\ s[Before(U, g) + 1] = fmt(g)
      OBVIOUS
    <3>1. Before(U, g + 1) = Before(U, g) + 1 /\ Before(U, g) \in Nat
      BY <1>4, <2>3
    <3>2. Before(U, g + 1) <= Before(U, k)
      <4>1. g + 1 \in Int /\ g + 1 <= k
        BY <2>1, <2>3
      <4> QED
        BY <1>4, <2>1, <4>1
    <3> HIDE DEF l
    <3>3. Before(U, g) + 1 \in 1..l
      BY <2>1, <2>2, <3>1, <3>2
    <3> QED
      BY <2>2, <3>3
  <2>5. CASE k \in U
    <3> DEFINE t == Append(s, fmt(k))
    <3>1. u[k] = t
      BY <1>2, <2>5
    <3>2. fmt(k) \in S
      BY <1>3
    <3>3. Len(t) = l + 1 /\ t[l + 1] = fmt(k) /\ \A i \in 1..l : t[i] = s[i]
      BY <2>1, <3>2
    <3> HIDE DEF t, l, s
    <3>4. Len(u[k]) = Before(U, k + 1)
      BY <1>4, <2>2, <2>5, <3>1, <3>3
    <3>5. ASSUME NEW g \in U, g <= k PROVE u[k][Before(U, g) + 1] = fmt(g)
      <4>1. CASE g = k
        BY <2>2, <3>1, <3>3, <4>1
      <4>2. CASE g # k
        <5>1. g <= k - 1
          BY <2>1, <2>3, <3>5, <4>2
        <5> QED
          BY <2>4, <3>1, <3>3, <5>1
      <4> QED
        BY <4>1, <4>2
    <3> QED
      BY <2>1, <3>4, <3>5
  <2>6. CASE k \notin U
    <3>1. u[k] = s
      BY <1>2, <2>6
    <3>2. Len(u[k]) = Before(U, k + 1)
      <4>1. Before(U, k + 1) = Before(U, k) + 0 /\ Before(U, k) \in Nat
        BY <1>4, <2>1, <2>6
      <4> QED
        BY <2>2, <3>1, <4>1
    <3> HIDE DEF s, l
    <3>3. ASSUME NEW g \in U, g <= k PROVE u[k][Before(U, g) + 1] = fmt(g)
      <4>1. g <= k - 1
        BY <2>1, <2>3, <2>6, <3>3
      <4> QED
        BY <2>4, <3>1, <4>1
    <3> QED
      BY <2>1, <3>2, <3>3
  <2> QED
    BY <2>5, <2>6
<1> HIDE DEF Good
<1>7. 0..n \subseteq Good
  BY <1>1, <1>5, <1>6, SegmentInduction
<1>8. n \in Good /\ \A g \in U : g <= n
  BY <1>1, <1>7
<1>9. Len(u[n]) = Cardinality(U) /\ \A g \in U : u[n][Before(U, g) + 1] = fmt(g)
  BY <1>4, <1>8 DEF Good
<1> QED
  BY <1>2, <1>9 DEF U, fmt, groups
-----------------------------------------------------------------------------
(* The calls of the packers *)

\* The generators count as this module does.
LEMMA GenCount == \A S : Gen!Cardinality(S) = Cardinality(S)
BY DEF Gen!Cardinality, Cardinality, Gen!IsFiniteSet, IsFiniteSet

\* The generators bond as this module does.
LEMMA SameBonds == \A types, rules : Gen!BondVars(types, rules) = BondVars(types, rules)
<1>1. \A types, rules, i : Gen!RunLength(types, rules, i) = RunLength(types, rules, i)
  BY DEF Gen!RunLength, RunLength
<1>2. \A types, rules, i : Gen!GroupAt(types, rules, i) = GroupAt(types, rules, i)
  BY <1>1 DEF Gen!GroupAt, GroupAt, Gen!Group, Group
<1> QED
  BY <1>2 DEF Gen!BondVars, BondVars

\* The groups of a class lie among its fields, and what is bonded is numbers.
LEMMA PyGroupsFacts ==
  ASSUME NEW doc, NEW node, NEW G, node.fields \in Seq(G)
  PROVE  LET groups == Gen!PyGroups(doc, node)
             n == Len(node.fields)
         IN  \E S : /\ groups \in Seq(S)
                    /\ \A g \in S :
                         /\ g.is_bonded \in BOOLEAN /\ g.first \in 1..n /\ g.len \in 1..n
                         /\ g.is_bonded => \A j \in 1..g.len :
                              /\ g.first + j - 1 \in 1..n
                              /\ Gen!VarType(doc, node.fields[g.first + j - 1]) \in Gen!PyBond
<1> DEFINE types == Gen!FieldTypes(doc, node)
           n == Len(node.fields)
           T == {types[k] : k \in 1..n}
           S == SoundGroups(types, Gen!PyBond)
<1>1. n \in Nat /\ types = [k \in 1..n |-> Gen!VarType(doc, node.fields[k])]
  BY DEF Gen!FieldTypes
<1> HIDE DEF types, n
<1>2. types \in Seq(T) /\ Len(types) = n
  BY <1>1
<1> HIDE DEF T
<1>3. Gen!PyGroups(doc, node) \in Seq(S)
  <2>1. Gen!PyGroups(doc, node) = Gen!BondVars(types, Gen!PyBond)
    BY DEF Gen!PyGroups, Gen!GroupsOf, types
  <2> QED
    <3>1. PICK from : BondsFrom(types, Gen!PyBond, from) /\ BondVars(types, Gen!PyBond) = from[1]
      BY <1>2, BondVarsRecursion
    <3>2. 1 \in 1..Len(types) + 1
      BY <1>1, <1>2
    <3>3. from[1] \in Seq(S)
      BY <3>1, <3>2 DEF BondsFrom
    <3> QED
      BY <2>1, <3>1, <3>3, SameBonds
<1>4. ASSUME NEW g \in S
      PROVE  /\ g.is_bonded \in BOOLEAN /\ g.first \in 1..n /\ g.len \in 1..n
             /\ g.is_bonded => \A j \in 1..g.len :
                  /\ g.first + j - 1 \in 1..n
                  /\ Gen!VarType(doc, node.fields[g.first + j - 1]) \in Gen!PyBond
  <2>1. /\ g.is_bonded \in BOOLEAN /\ g.first \in 1..n /\ g.len \in 1..n
        /\ g.first + g.len <= n + 1
        /\ g.is_bonded => \A j \in g.first..(g.first + g.len - 1) : types[j] \in Gen!PyBond
    BY <1>2 DEF SoundGroups
  <2>2. ASSUME g.is_bonded, NEW j \in 1..g.len
        PROVE  /\ g.first + j - 1 \in 1..n
               /\ Gen!VarType(doc, node.fields[g.first + j - 1]) \in Gen!PyBond
    <3> DEFINE i == g.first + j - 1
    <3>1. i \in g.first..(g.first + g.len - 1) /\ i \in 1..n
      BY <1>1, <2>1
    <3> HIDE DEF i
    <3>2. types[i] \in Gen!PyBond
      BY <2>1, <2>2, <3>1
    <3>3. Gen!VarType(doc, node.fields[i]) \in Gen!PyBond
      BY <1>1, <3>1, <3>2
    <3> QED
      BY <3>1, <3>3 DEF i
  <2> QED
    BY <2>1, <2>2
<1> HIDE DEF S
<1> QED
  BY <1>3, <1>4 DEF n

\* A variable of a primitive type is a number.
LEMMA PrimitiveIsNumber ==
  ASSUME NEW doc, NEW f, NEW a, Gen!VarType(doc, f) = <<a, "primitive">>
  PROVE  f.type.full \in BasicTypes /\ f.type.full # "x"
<1>1. Gen!VarType(doc, f)[2] = "primitive"
  OBVIOUS
<1>2. Gen!VarType(doc, f)[2] =
        IF f.type.full = "string" THEN "string"
        ELSE IF f.type.full \in BasicTypes THEN "primitive"
        ELSE IF Gen!NodeOf(doc, f.type.type).modifier.is_narrow THEN "narrow"
        ELSE "natural"
  BY SameTypes DEF Gen!VarType
<1>3. f.type.full \in BasicTypes
  BY <1>1, <1>2
<1>4. "x" \notin BasicTypes
  BY DEF BasicTypes, IntegerTypes, SignedTypes, UnsignedTypes
<1> QED
  BY <1>3, <1>4

\* The numbers and flags of an array.
LEMMA ArrayNumbers ==
  ASSUME NEW a \in ArrayType
  PROVE  a.is_array \in BOOLEAN /\ a.is_static_array \in BOOLEAN /\ a.static_array_len \in Nat
<1>1. CASE a = NoArray
  BY <1>1 DEF NoArray
<1>3. CASE a = ListArray
  BY <1>3 DEF ListArray
<1>2. CASE a # NoArray /\ a # ListArray
  <2>1. PICK n \in U32Values \ {0} : a = TupleArray(n)
    BY <1>2 DEF ArrayType
  <2>2. n \in Nat
    BY U32Facts
  <2>3. a = [is_array |-> TRUE, is_static_array |-> TRUE, static_array_len |-> n]
    BY <2>1 DEF TupleArray
  <2> QED
    BY <2>2, <2>3
<1> QED
  BY <1>1, <1>2, <1>3

\* The numbers and flags of a field of the document.
LEMMA FieldNumbers ==
  ASSUME NEW f \in FieldRecord
  PROVE  /\ f.array.is_array \in BOOLEAN /\ f.array.is_static_array \in BOOLEAN
         /\ f.array.static_array_len \in Nat
         /\ f.align.use_align \in BOOLEAN /\ f.align.padding_size \in Nat
<1>1. f.array \in ArrayType /\ f.align \in AlignType
  BY DEF FieldRecord
<1>2. U32Values \subseteq Nat
  BY U32Facts
<1>3. f.align.use_align \in BOOLEAN /\ f.align.padding_size \in Nat
  BY <1>1, <1>2 DEF AlignType
<1> QED
  BY <1>1, <1>3, ArrayNumbers

Values(fmt) == {c \in DOMAIN fmt : fmt[c] # "x"}

\* A format has a character for each place of its packer, and padding.
LEMMA FormatFacts ==
  ASSUME NEW doc, NEW node, node.fields \in Seq(FieldRecord),
         NEW g, g.is_bonded \in BOOLEAN, g.first \in 1..Len(node.fields), g.len \in Nat,
         g.is_bonded => \A j \in 1..g.len :
                          /\ g.first + j - 1 \in 1..Len(node.fields)
                          /\ Gen!VarType(doc, node.fields[g.first + j - 1]) \in Gen!PyBond,
         Gen!UsesPacker(doc, node, g)
  PROVE  Len(Gen!PackedPlaces(node, g)) = Cardinality(Values(Gen!PackerFmt(node, g)))
<1> DEFINE l == Len(node.fields)
           fields == node.fields
<1>1. l \in Nat /\ \A k \in 1..l : fields[k] \in FieldRecord
  OBVIOUS
<1>2. CASE g.is_bonded
  <2> DEFINE S == BasicTypes \cup {"x"}
             at(j) == fields[g.first + j - 1]
             piece(j) == <<at(j).type.full>> \o
                           (IF at(j).align.use_align
                              THEN [i \in 1..at(j).align.padding_size |-> "x"] ELSE <<>>)
             pieces == [j \in 1..g.len |-> piece(j)]
             flat == Gen!FlattenSeq(pieces)
             firsts == {i \in 1..Len(flat) : flat[i] \in BasicTypes}
  <2>1. ASSUME NEW j \in 1..g.len
        PROVE  /\ piece(j) \in Seq(S) /\ Len(piece(j)) > 0
               /\ \A i \in 1..Len(piece(j)) : piece(j)[i] \in BasicTypes <=> i = 1
    <3> DEFINE full == at(j).type.full
               pad == IF at(j).align.use_align
                        THEN [i \in 1..at(j).align.padding_size |-> "x"] ELSE <<>>
    <3>1. at(j) \in FieldRecord /\ Gen!VarType(doc, at(j)) \in Gen!PyBond
      BY <1>1, <1>2
    <3>2. Gen!VarType(doc, at(j)) = <<"single", "primitive">>
      BY <3>1 DEF Gen!PyBond
    <3>3. full \in BasicTypes /\ "x" \notin BasicTypes
      BY <3>2, PrimitiveIsNumber DEF BasicTypes, IntegerTypes, SignedTypes, UnsignedTypes
    <3>4. at(j).align.padding_size \in Nat
      BY <3>1, FieldNumbers
    <3>5. pad \in Seq({"x"}) /\ \A i \in 1..Len(pad) : pad[i] = "x"
      <4> DEFINE k == at(j).align.padding_size
      <4> HIDE DEF at
      <4>1. k \in Nat
        BY <3>4
      <4> HIDE DEF k
      <4> DEFINE xs == [i \in 1..k |-> "x"]
      <4>2. xs \in Seq({"x"}) /\ \A i \in 1..Len(xs) : xs[i] = "x"
        BY <4>1
      <4>3. <<>> \in Seq({"x"}) /\ Len(<<>>) = 0
        OBVIOUS
      <4>4. pad = xs \/ pad = <<>>
        BY DEF k
      <4> HIDE DEF xs, pad
      <4>5. CASE pad = xs
        BY <4>2, <4>5
      <4>6. CASE pad = <<>>
        BY <4>3, <4>6
      <4> QED
        BY <4>4, <4>5, <4>6
    <3>6. piece(j) = <<full>> \o pad
      OBVIOUS
    <3> HIDE DEF full, pad, piece
    <3>7. /\ <<full>> \o pad \in Seq(S) /\ Len(<<full>> \o pad) = 1 + Len(pad)
          /\ (<<full>> \o pad)[1] = full
          /\ \A i \in 1..Len(<<full>> \o pad) : i # 1 => (<<full>> \o pad)[i] = "x"
      BY <3>3, <3>5
    <3>8. Len(pad) \in Nat
      BY <3>5
    <3> QED
      BY <3>3, <3>6, <3>7, <3>8
  <2> HIDE DEF piece, S
  <2>2. pieces \in Seq(Seq(S)) /\ Len(pieces) = g.len
    BY <2>1
  <2>3. \A j \in 1..g.len : pieces[j] = piece(j)
    OBVIOUS
  <2> HIDE DEF pieces
  <2>4. flat \in Seq(S) /\ Cardinality(firsts) = Cardinality(1..g.len)
    <3> DEFINE U == 1..g.len
    <3>1. LedBy(pieces, BasicTypes, U)
      BY <2>1, <2>2, <2>3 DEF LedBy
    <3> HIDE DEF U
    <3>2. /\ Gen!FlattenSeq(pieces) \in Seq(S)
          /\ Cardinality(Firsts(Gen!FlattenSeq(pieces), BasicTypes)) = Cardinality(U)
      <4> HIDE DEF flat, firsts
      <4> QED
        BY <2>2, <3>1, FirstsInOrder
    <3> QED
      BY <3>2 DEF U, Firsts
  <2>5. Cardinality(1..g.len) = g.len
    BY FS_Interval
  <2>6. Gen!PackerFmt(node, g) = flat
    BY <1>2 DEF Gen!PackerFmt, Gen!PackFmt, pieces, piece
  <2>7. Values(flat) = firsts
    <3> HIDE DEF flat
    <3>1. "x" \notin BasicTypes
      BY DEF BasicTypes, IntegerTypes, SignedTypes, UnsignedTypes
    <3>2. DOMAIN flat = 1..Len(flat) /\ \A i \in 1..Len(flat) : flat[i] \in S
      BY <2>4
    <3> QED
      BY <3>1, <3>2 DEF Values, S
  <2>8. Len(Gen!PackedPlaces(node, g)) = g.len
    <3>1. Gen!PackedPlaces(node, g) = [j \in 1..g.len |-> <<g.first + j - 1, 0>>]
      BY <1>2 DEF Gen!PackedPlaces
    <3> QED
      BY <3>1
  <2> HIDE DEF flat, firsts
  <2> QED
    BY <2>4, <2>5, <2>6, <2>7, <2>8
<1>3. CASE ~g.is_bonded
  <2> DEFINE f == fields[g.first]
             n == f.array.static_array_len
             full == f.type.full
             fmt == [i \in 1..n |-> full]
  <2>1. f \in FieldRecord /\ Gen!VarType(doc, f) = <<"static", "primitive">>
    BY <1>1, <1>3 DEF Gen!UsesPacker, Gen!StaticPrimitive
  <2>2. n \in Nat /\ full # "x"
    BY <2>1, FieldNumbers, PrimitiveIsNumber
  <2>3. /\ Gen!PackerFmt(node, g) = fmt
        /\ Gen!PackedPlaces(node, g) = [i \in 1..n |-> <<g.first, i>>]
    BY <1>3 DEF Gen!PackerFmt, Gen!PackedPlaces
  <2> HIDE DEF n, full
  <2>4. Values(fmt) = 1..n
    BY <2>2 DEF Values
  <2>5. Cardinality(1..n) = n
    BY <2>2, FS_Interval
  <2>6. Len([i \in 1..n |-> <<g.first, i>>]) = n
    BY <2>2
  <2> HIDE DEF fmt
  <2> QED
    BY <2>3, <2>4, <2>5, <2>6
<1> QED
  BY <1>2, <1>3

\* A sequence of instructions none of which is a packer.
NoPacker(s) == (\E A : s \in Seq(A)) /\ \A i \in 1..Len(s) : s[i].op # "packed"

\* One instruction.
LEMMA OneNoPacker ==
  ASSUME NEW e, e.op # "packed"
  PROVE  NoPacker(<< e >>)
<1>1. <<e>> \in Seq({e}) /\ \A i \in 1..Len(<<e>>) : <<e>>[i] = e
  OBVIOUS
<1> DEFINE s == <<e>>
<1> HIDE DEF s
<1>2. s \in Seq({e}) /\ \A i \in 1..Len(s) : s[i] = e
  BY <1>1 DEF s
<1>3. \E A : s \in Seq(A)
  BY <1>2
<1>4. NoPacker(s)
  BY <1>2, <1>3 DEF NoPacker
<1> QED
  BY <1>4 DEF s

\* The elements of a field, by a call that is no packer.
LEMMA SpreadNoPacker ==
  ASSUME NEW f, f.array.static_array_len \in Nat, NEW k, NEW o, NEW r, o # "packed"
  PROVE  NoPacker(Gen!Spread(f, k, [op |-> o, at |-> <<>>, arg |-> r]))
<1> DEFINE elem == [op |-> o, at |-> <<>>, arg |-> r]
           n == f.array.static_array_len
           s == Gen!Spread(f, k, elem)
           list == [op |-> "list", at |-> <<k, 0>>, arg |-> elem]
           at(p) == [op |-> o, at |-> p, arg |-> r]
<1>1. \A p : Gen!At(elem, p) = at(p)
  BY DEF Gen!At
<1>2. s = IF ~f.array.is_array THEN << at(<<k, 0>>) >>
          ELSE IF f.array.is_static_array THEN [i \in 1..n |-> at(<<k, i>>)]
          ELSE << list >>
  BY <1>1, SMTT(60) DEF Gen!Spread, Gen!Instr
<1>3. list.op # "packed" /\ \A p : at(p).op # "packed"
  OBVIOUS
<1>4. n \in Nat
  OBVIOUS
<1> HIDE DEF n, at, list, s
<1>6. NoPacker([i \in 1..n |-> at(<<k, i>>)])
  <2> DEFINE A == {at(<<k, i>>) : i \in 1..n}
             t == [i \in 1..n |-> at(<<k, i>>)]
  <2>1. t \in Seq(A) /\ Len(t) = n /\ \A i \in 1..n : t[i] = at(<<k, i>>)
    <3>1. t \in [1..n -> A] /\ DOMAIN t = 1..n /\ \A i \in 1..n : t[i] = at(<<k, i>>)
      OBVIOUS
    <3> HIDE DEF t, A
    <3>2. t \in Seq(A)
      BY <1>4, <3>1
    <3>3. Len(t) = n
      BY <1>4, <3>1, <3>2
    <3> QED
      BY <3>1, <3>2, <3>3
  <2> HIDE DEF A, t
  <2>2. NoPacker(t)
    BY <1>3, <2>1 DEF NoPacker
  <2> QED
    BY <2>2 DEF t
<1>7. NoPacker(<< at(<<k, 0>>) >>) /\ NoPacker(<< list >>)
  BY <1>3, OneNoPacker
<1> QED
  BY <1>2, <1>6, <1>7 DEF s

\* Padding is no packer.
LEMMA PadNoPacker ==
  ASSUME NEW f
  PROVE  NoPacker(Gen!PadInstr(f))
<1> DEFINE gap == [op |-> "gap", at |-> <<>>, arg |-> f.align.padding_size]
<1>1. Gen!PadInstr(f) = IF f.align.use_align THEN << gap >> ELSE <<>>
  BY DEF Gen!PadInstr, Gen!Gap, Gen!Instr
<1>2. gap.op # "packed"
  OBVIOUS
<1> HIDE DEF gap
<1>3. NoPacker(<< gap >>)
  BY <1>2, OneNoPacker
<1>4. NoPacker(<<>>)
  <2>1. <<>> \in Seq({}) /\ Len(<<>>) = 0
    OBVIOUS
  <2> QED
    BY <2>1 DEF NoPacker
<1> QED
  BY <1>1, <1>3, <1>4

\* One after the other.
LEMMA JoinNoPacker ==
  ASSUME NEW s, NEW t, NoPacker(s), NoPacker(t)
  PROVE  NoPacker(s \o t)
<1>1. PICK A : s \in Seq(A)
  BY DEF NoPacker
<1>2. PICK B : t \in Seq(B)
  BY DEF NoPacker
<1> DEFINE S == A \cup B
<1>3. s \in Seq(S) /\ t \in Seq(S)
  BY <1>1, <1>2
<1> HIDE DEF S
<1>4. s \o t \in Seq(S) /\ Len(s \o t) = Len(s) + Len(t) /\ Len(s) \in Nat /\ Len(t) \in Nat
  BY <1>3
<1>5. ASSUME NEW i \in 1..Len(s \o t) PROVE (s \o t)[i].op # "packed"
  <2>1. CASE i \in 1..Len(s)
    <3>1. (s \o t)[i] = s[i]
      BY <1>3, <2>1
    <3> QED
      BY <2>1, <3>1 DEF NoPacker
  <2>2. CASE i \notin 1..Len(s)
    <3>1. i - Len(s) \in 1..Len(t)
      BY <1>4, <2>2
    <3>2. (s \o t)[i] = t[i - Len(s)]
      BY <1>3, <1>4, <2>2
    <3> QED
      BY <3>1, <3>2 DEF NoPacker
  <2> QED
    BY <2>1, <2>2
<1> QED
  BY <1>4, <1>5 DEF NoPacker

\* The statements of a group: one that goes through a packer calls it first
\* and once.
LEMMA GroupCalls ==
  ASSUME NEW doc, NEW node, NEW groups, NEW g, NEW index,
         groups[g].is_bonded \in BOOLEAN, node.fields[groups[g].first] \in FieldRecord
  PROVE  LET piece == Gen!PyGroupInstr(doc, node, groups, g, index)
             uses == Gen!UsesPacker(doc, node, groups[g])
         IN  /\ \E A : piece \in Seq(A)
             /\ \A i \in 1..Len(piece) : piece[i].op = "packed" <=> uses /\ i = 1
             /\ uses => Len(piece) > 0 /\ piece[1] = Gen!Packed(node, groups[g], index)
<1> DEFINE piece == Gen!PyGroupInstr(doc, node, groups, g, index)
           uses == Gen!UsesPacker(doc, node, groups[g])
           gr == groups[g]
           f == node.fields[gr.first]
           p == Gen!Packed(node, gr, index)
           elem == IF f.type.full \in Gen!BasicTypes \ {"string"}
                     THEN Gen!NumberOf(f, "number") ELSE Gen!TextOrNested(f)
           call == IF uses THEN << p >> ELSE Gen!Spread(f, gr.first, elem)
           pad == IF gr.is_bonded THEN <<>> ELSE Gen!PadInstr(f)
<1>1. piece = IF gr.is_bonded THEN call ELSE call \o Gen!PadInstr(f)
  BY DEF Gen!PyGroupInstr
<1>2. p.op = "packed"
  BY DEF Gen!Packed, Gen!Instr
<1>3. NoPacker(Gen!PadInstr(f)) /\ NoPacker(<<>>)
  <2>1. <<>> \in Seq({}) /\ Len(<<>>) = 0
    OBVIOUS
  <2> QED
    BY <2>1, PadNoPacker DEF NoPacker
<1>4. gr.is_bonded => uses
  BY DEF Gen!UsesPacker
<1>5. NoPacker(Gen!Spread(f, gr.first, elem))
  <2>1. f.array.static_array_len \in Nat
    BY FieldNumbers
  <2>2. \E o, r : o # "packed" /\ elem = [op |-> o, at |-> <<>>, arg |-> r]
    <3>1. CASE f.type.full \in Gen!BasicTypes \ {"string"}
      BY <3>1 DEF Gen!NumberOf, Gen!Instr
    <3>2. CASE f.type.full \notin Gen!BasicTypes \ {"string"}
      <4>1. elem = Gen!TextOrNested(f)
        BY <3>2
      <4>2. elem = IF f.type.full = "string"
                     THEN [op |-> "text", at |-> <<>>, arg |-> "string"]
                     ELSE [op |-> "nested", at |-> <<>>, arg |-> f.type.type]
        BY <4>1 DEF Gen!TextOrNested, Gen!Instr
      <4> HIDE DEF elem
      <4>3. "text" # "packed" /\ "nested" # "packed"
        OBVIOUS
      <4>4. CASE f.type.full = "string"
        BY <4>2, <4>3, <4>4
      <4>5. CASE f.type.full # "string"
        BY <4>2, <4>3, <4>5
      <4> QED
        BY <4>4, <4>5
    <3> QED
      BY <3>1, <3>2
  <2> HIDE DEF elem
  <2>3. PICK o, r : o # "packed" /\ elem = [op |-> o, at |-> <<>>, arg |-> r]
    BY <2>2
  <2> HIDE DEF f, gr
  <2> QED
    BY <2>1, <2>3, SpreadNoPacker
<1> HIDE DEF elem, uses, p, pad, f
<1>6. CASE uses
  <2> DEFINE tail == IF gr.is_bonded THEN <<>> ELSE Gen!PadInstr(f)
  <2>1. NoPacker(tail)
    BY <1>3
  <2>2. piece = << p >> \o tail
    <3>1. CASE gr.is_bonded
      <4>1. << p >> \o <<>> = << p >>
        OBVIOUS
      <4> QED
        BY <1>1, <1>6, <3>1, <4>1
    <3>2. CASE ~gr.is_bonded
      BY <1>1, <1>6, <3>2
    <3> QED
      BY <3>1, <3>2
  <2> HIDE DEF piece, tail
  <2>3. PICK A : tail \in Seq(A)
    BY <2>1 DEF NoPacker
  <2> DEFINE S == A \cup {p}
  <2>4. tail \in Seq(S) /\ << p >> \in Seq(S)
    BY <2>3
  <2> HIDE DEF S
  <2>5. /\ piece \in Seq(S) /\ Len(piece) = 1 + Len(tail) /\ Len(tail) \in Nat
        /\ piece[1] = p
    BY <2>2, <2>4
  <2>6. ASSUME NEW i \in 1..Len(piece), i # 1 PROVE piece[i].op # "packed"
    <3>1. i - 1 \in 1..Len(tail)
      BY <2>5, <2>6
    <3>2. piece[i] = tail[i - 1]
      BY <2>2, <2>4, <2>5, <2>6
    <3> QED
      BY <2>1, <3>1, <3>2 DEF NoPacker
  <2>7. /\ \E B : piece \in Seq(B)
        /\ \A i \in 1..Len(piece) : piece[i].op = "packed" <=> uses /\ i = 1
        /\ uses => Len(piece) > 0 /\ piece[1] = p
    BY <1>2, <1>6, <2>5, <2>6
  <2> QED
    BY <2>7 DEF piece, uses, p
<1>7. CASE ~uses
  <2>1. piece = Gen!Spread(f, gr.first, elem) \o Gen!PadInstr(f)
    BY <1>1, <1>4, <1>7
  <2>2. NoPacker(piece)
    <3> HIDE DEF piece
    <3> QED
      BY <1>3, <1>5, <2>1, JoinNoPacker
  <2> HIDE DEF piece
  <2>3. /\ \E B : piece \in Seq(B)
        /\ \A i \in 1..Len(piece) : piece[i].op = "packed" <=> uses /\ i = 1
        /\ uses => Len(piece) > 0 /\ piece[1] = p
    BY <1>7, <2>2 DEF NoPacker
  <2> QED
    BY <2>3 DEF piece, uses, p
<1> QED
  BY <1>6, <1>7

\* What PackersInOrder says of one function of a class.
InOrder(instrs, packers) ==
  LET calls == {i \in DOMAIN instrs : instrs[i].op = "packed"}
      Index(i) == Cardinality({j \in calls : j < i})
  IN  /\ Cardinality(calls) = Len(packers)
      /\ \A i \in calls :
           /\ instrs[i].arg.index = Index(i)
           /\ Len(instrs[i].at) = Cardinality(Values(packers[Index(i) + 1]))

\* The functions of a class of the document call its packers in order.
LEMMA CallsInOrder ==
  ASSUME NEW doc, NEW node, node.fields \in Seq(FieldRecord)
  PROVE  InOrder(Gen!PyDeserialize(doc, node), Gen!StructPacker(doc, node))
<1> DEFINE groups == Gen!PyGroups(doc, node)
           m == Len(groups)
           l == Len(node.fields)
           U == PackerGroups(doc, node)
           Piece(g) == Gen!PyGroupInstr(doc, node, groups, g,
                                        Gen!PresetStructIndex(doc, node, groups, g))
           pieces == [g \in DOMAIN groups |-> Piece(g)]
           instrs == Gen!PyDeserialize(doc, node)
           packers == Gen!StructPacker(doc, node)
           call(g) == Gen!Packed(node, groups[g], Before(U, g))
<1>1. PICK G : /\ groups \in Seq(G)
               /\ \A g \in G :
                    /\ g.is_bonded \in BOOLEAN /\ g.first \in 1..l /\ g.len \in 1..l
                    /\ g.is_bonded => \A j \in 1..g.len :
                         /\ g.first + j - 1 \in 1..l
                         /\ Gen!VarType(doc, node.fields[g.first + j - 1]) \in Gen!PyBond
  BY PyGroupsFacts
<1>2. /\ m \in Nat /\ DOMAIN groups = 1..m /\ \A g \in 1..m : groups[g] \in G
      /\ U \in SUBSET (1..m)
      /\ \A g \in 1..m : g \in U <=> Gen!UsesPacker(doc, node, groups[g])
  BY <1>1 DEF PackerGroups
<1>3. instrs = Gen!Body(pieces)
  BY DEF Gen!PyDeserialize
<1>4. /\ Len(packers) = Cardinality(U)
      /\ \A g \in U : packers[Before(U, g) + 1] = Gen!PackerFmt(node, groups[g])
  <2> HIDE DEF packers, U
  <2> QED
    BY <1>1, StructPackerFacts DEF packers, U
<1>5. \A k \in 1..l : node.fields[k] \in FieldRecord
  OBVIOUS
<1> HIDE DEF groups, m, l, U, packers, instrs
<1>6. ASSUME NEW g \in 1..m PROVE Gen!PresetStructIndex(doc, node, groups, g) = Before(U, g)
  <2>1. {h \in 1..(g - 1) : Gen!UsesPacker(doc, node, groups[h])} = {h \in U : h < g}
    <3>1. \A h : h \in 1..(g - 1) <=> h \in 1..m /\ h < g
      BY <1>2
    <3> QED
      BY <1>2, <3>1
  <2> QED
    BY <2>1, GenCount DEF Gen!PresetStructIndex, Before
<1>7. ASSUME NEW g \in 1..m
      PROVE  /\ \E A : Piece(g) \in Seq(A)
             /\ \A i \in 1..Len(Piece(g)) : Piece(g)[i].op = "packed" <=> g \in U /\ i = 1
             /\ g \in U => Len(Piece(g)) > 0 /\ Piece(g)[1] = call(g)
  <2>1. groups[g].is_bonded \in BOOLEAN /\ node.fields[groups[g].first] \in FieldRecord
    BY <1>1, <1>2, <1>5
  <2>2. Piece(g) = Gen!PyGroupInstr(doc, node, groups, g, Before(U, g))
    BY <1>6
  <2> HIDE DEF Piece
  <2> QED
    BY <1>2, <2>1, <2>2, GroupCalls
<1>8. \A g \in U : /\ call(g).arg.index = Before(U, g)
                   /\ Len(call(g).at) = Cardinality(Values(packers[Before(U, g) + 1]))
  <2> SUFFICES ASSUME NEW g \in U
               PROVE  /\ call(g).arg.index = Before(U, g)
                      /\ Len(call(g).at) = Cardinality(Values(packers[Before(U, g) + 1]))
    OBVIOUS
  <2>1. call(g).arg.index = Before(U, g) /\ call(g).at = Gen!PackedPlaces(node, groups[g])
    BY DEF Gen!Packed, Gen!Instr
  <2> DEFINE gr == groups[g]
  <2>2. /\ gr.is_bonded \in BOOLEAN /\ gr.first \in 1..l /\ gr.len \in Nat
        /\ gr.is_bonded => \A j \in 1..gr.len :
             /\ gr.first + j - 1 \in 1..l
             /\ Gen!VarType(doc, node.fields[gr.first + j - 1]) \in Gen!PyBond
        /\ Gen!UsesPacker(doc, node, gr)
    BY <1>1, <1>2
  <2> HIDE DEF gr
  <2>3. Len(Gen!PackedPlaces(node, gr)) = Cardinality(Values(Gen!PackerFmt(node, gr)))
    BY <2>2, FormatFacts DEF l
  <2> QED
    BY <1>4, <2>1, <2>3 DEF gr
<1> HIDE DEF Piece, call
<1>9. CASE m = 0
  <2>1. pieces = <<>>
    <3>1. DOMAIN groups = {}
      BY <1>2, <1>9
    <3> QED
      BY <3>1
  <2>2. instrs = << [op |-> "gap", at |-> <<>>, arg |-> 1] >>
    BY <1>3, <2>1 DEF Gen!Body, Gen!Gap, Gen!Instr
  <2>3. {i \in DOMAIN instrs : instrs[i].op = "packed"} = {}
    BY <2>2
  <2>4. U = {}
    BY <1>2, <1>9
  <2>5. InOrder(instrs, packers)
    BY <1>4, <2>3, <2>4, FS_EmptySet DEF InOrder
  <2> QED
    BY <2>5 DEF instrs, packers
<1>10. CASE m # 0
  <2> DEFINE S == UNION {{Piece(g)[i] : i \in 1..Len(Piece(g))} : g \in 1..m}
             C == {e \in S : e.op = "packed"}
  <2>1. ASSUME NEW g \in 1..m PROVE Piece(g) \in Seq(S) /\ \A i \in 1..Len(Piece(g)) : Piece(g)[i] \in S
    <3>1. PICK A : Piece(g) \in Seq(A)
      BY <1>7
    <3>2. \A i \in 1..Len(Piece(g)) : Piece(g)[i] \in S
      OBVIOUS
    <3> HIDE DEF S
    <3>3. Piece(g) \in Seq(S)
      BY <3>1, <3>2
    <3> QED
      BY <3>2, <3>3
  <2> HIDE DEF S
  <2>2. /\ pieces \in Seq(Seq(S)) /\ Len(pieces) = m /\ pieces # <<>>
        /\ \A g \in 1..m : pieces[g] = Piece(g)
    <3>1. pieces = [g \in 1..m |-> Piece(g)]
      BY <1>2
    <3> DEFINE list == [g \in 1..m |-> Piece(g)]
    <3>2. list \in [1..m -> Seq(S)] /\ \A g \in 1..m : list[g] = Piece(g)
      BY <2>1
    <3>3. DOMAIN list = 1..m
      OBVIOUS
    <3> HIDE DEF list
    <3>4. list \in Seq(Seq(S)) /\ Len(list) = m
      BY <1>2, <3>2, <3>3
    <3>5. list # <<>>
      BY <1>10, <3>4
    <3> QED
      BY <3>1, <3>2, <3>4, <3>5 DEF list
  <2> HIDE DEF pieces
  <2>3. \A e \in S : e \in C <=> e.op = "packed"
    OBVIOUS
  <2> HIDE DEF C
  <2>4. LedBy(pieces, C, U)
    <3>1. \A g \in 1..m : \A i \in 1..Len(Piece(g)) : Piece(g)[i] \in C <=> g \in U /\ i = 1
      BY <1>7, <2>1, <2>3
    <3>2. \A g \in U : Len(Piece(g)) > 0
      BY <1>2, <1>7
    <3> QED
      BY <1>2, <2>2, <3>1, <3>2 DEF LedBy
  <2>5. instrs = Gen!FlattenSeq(pieces)
    BY <1>3, <2>2 DEF Gen!Body
  <2> DEFINE calls == {i \in DOMAIN instrs : instrs[i].op = "packed"}
  <2>6. /\ instrs \in Seq(S)
        /\ Cardinality(Firsts(instrs, C)) = Cardinality(U)
        /\ \A i \in Firsts(instrs, C) : \E g \in U :
             instrs[i] = pieces[g][1] /\ Before(Firsts(instrs, C), i) = Before(U, g)
    BY <2>2, <2>4, <2>5, FirstsInOrder
  <2>7. Firsts(instrs, C) = calls
    <3>1. DOMAIN instrs = 1..Len(instrs) /\ \A i \in 1..Len(instrs) : instrs[i] \in S
      BY <2>6
    <3> QED
      BY <2>3, <3>1 DEF Firsts
  <2> HIDE DEF calls
  <2>8. ASSUME NEW i \in calls
        PROVE  /\ instrs[i].arg.index = Before(calls, i)
               /\ Len(instrs[i].at) = Cardinality(Values(packers[Before(calls, i) + 1]))
    <3>1. PICK g \in U : instrs[i] = pieces[g][1] /\ Before(calls, i) = Before(U, g)
      BY <2>6, <2>7
    <3>2. instrs[i] = call(g)
      BY <1>2, <1>7, <2>2, <3>1
    <3> QED
      BY <1>8, <3>1, <3>2
  <2>9. InOrder(instrs, packers)
    BY <1>4, <2>6, <2>7, <2>8 DEF InOrder, Before, calls
  <2> QED
    BY <2>9 DEF instrs, packers
<1> QED
  BY <1>9, <1>10

\* For every document the parser publishes, either Python function of a class
\* calls the packers of the class in order, each once, and each with as many
\* values as its format has.
THEOREM PackersInOrderHolds == Spec => []PackersInOrder
<1>1. IInv => PackersInOrder
  <2> SUFFICES ASSUME IInv, NEW k \in StructNodes
               PROVE  LET node == body[k]
                          packers == Gen!StructPacker(body, node)
                      IN  /\ InOrder(Gen!PySerialize(body, node), packers)
                          /\ InOrder(Gen!PyDeserialize(body, node), packers)
    BY DEF PackersInOrder, InOrder, Values
  <2>1. body[k] \in NodeType
    BY DEF StructNodes, IInv, TypeOK
  <2>2. body[k].fields \in Seq(FieldRecord)
    BY <2>1, FieldsAreRecords DEF NodeType
  <2>3. Gen!PySerialize(body, body[k]) = Gen!PyDeserialize(body, body[k])
    BY DEF Gen!PySerialize, Gen!PyDeserialize
  <2> QED
    BY <2>2, <2>3, CallsInOrder
<1> QED
  BY <1>1, Invariance, PTL
=============================================================================
