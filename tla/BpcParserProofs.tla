--------------------------- MODULE BpcParserProofs ---------------------------
(***************************************************************************)
(* Theorems about the parser, for every vocabulary, every width of the     *)
(* integer types and files of any length.                                  *)
(***************************************************************************)
EXTENDS BpcParser, BpcRulesProofs
-----------------------------------------------------------------------------
(* The inductive invariant *)

States == HeadStates \cup DeclStates \cup FieldStates \cup ErrorStates \cup Final

MemberStates == {"memberNext", "memberNumber", "memberSep"}

LineStates == {"array", "declarator", "declNext", "fieldSemi"}

\* Between the braces of an enum, and of a struct or msg.
EnumBraces   == {"member"} \cup MemberStates
StructBraces == FieldStates \cup {"fieldsError"}

OutsideBraces == HeadStates \cup (DeclStates \ EnumBraces)

\* The states in which the declaration has its name.
NamedStates == {"aliasType", "aliasSemi", "enumBrace", "structBrace"}
                 \cup EnumBraces \cup StructBraces

\* A type as it was resolved when its field was read.
Resolved(type) == VariableTypeOK(type.type) /\ type = Analyse(type.type)

\* What the parser stack holds in a state.
StageInv ==
  /\ pc \in NamedStates  => decl.name \in Names
  /\ pc \in MemberStates => decl.member \in Names
  /\ pc = "aliasSemi"    => decl.bt \in BasicTypes
  /\ pc \in LineStates   => line.type \in VariableType /\ Resolved(line.type)
  /\ pc \notin LineStates \cup Final => line = NoLine
  /\ pc \in StructBraces =>
       \A f \in 1..Len(decl.fields) : Resolved(decl.fields[f].type)
  /\ pc \in OutsideBraces => variables = {}
  /\ pc \in OutsideBraces \cup {"bodyError"} =>
       decl.members = <<>> /\ decl.fields = <<>>

\* The table of the open scope knows every name used in it so far.
ScopeInv ==
  /\ pc \in EnumBraces =>
       /\ NamesDistinct(decl.members)
       /\ \A k \in 1..Len(decl.members) : decl.members[k].name \in variables
  /\ pc \in StructBraces =>
       /\ NamesDistinct(decl.fields)
       /\ \A k \in 1..Len(decl.fields) : decl.fields[k].name \in variables
       /\ \A k \in 1..Len(line.names) : line.names[k] \in variables
       /\ \A j, k \in 1..Len(line.names) : j # k => line.names[j] # line.names[k]
       /\ \A j \in 1..Len(decl.fields), k \in 1..Len(line.names) :
            decl.fields[j].name # line.names[k]

\* Every field of the document still means what it meant when it was read.
BodyTypes == {type \in VariableType :
                \E k \in 1..Len(body) : \E f \in 1..Len(body[k].fields) :
                  type = body[k].fields[f].type}

BodyResolved == Open => \A type \in BodyTypes : Resolved(type)

\* Behind an alias or enum is a basic type.
BasesTyped ==
  \A k \in 1..Len(body) : body[k].kind \in {"alias", "enum"} => body[k].bt \in BasicTypes

BodyInv ==
  /\ BasesTyped
  /\ RegistryMatchesBody
  /\ MsgIndexDense
  /\ DefinedBeforeUse
  /\ BodyResolved
  /\ EntriesDistinct
  /\ EnumValuesSound

IInv == TypeOK /\ StageInv /\ ScopeInv /\ BodyInv
-----------------------------------------------------------------------------
(* What the operators of the parser return *)

\* An unset value is neither a name nor a type, and no name is a type.
LEMMA NoneFacts ==
  /\ None \notin Names /\ None \notin BasicTypes
  /\ \A n \in Names : n \notin BasicTypes
  /\ Types \subseteq BasicTypes
BY NamesAssumption
DEF None, BasicTypes, IntegerTypes, SignedTypes, UnsignedTypes

\* The tables give every basic type a size, and one of the three alignments.
LEMMA TableFacts ==
  ASSUME NEW t \in BasicTypes
  PROVE  SizeOf(t) \in {1, 2, 4, 8} /\ AlignOf(t) \in Alignments
BY DEF SizeOf, AlignOf, Alignments, BasicTypes, IntegerTypes, SignedTypes,
       UnsignedTypes

\* The values of a uint32_t, at any width.
LEMMA U32Facts ==
  /\ U32Values \subseteq Nat /\ 0 \in U32Values /\ 1 \in U32Values
  /\ 0..3 \subseteq U32Values
BY WidthFacts DEF U32Values

\* A number that passes as an array length or a padding is a uint32_t, not 0.
LEMMA OffsetNumberType ==
  ASSUME NEW n \in Int, IsOffsetNumber(n)
  PROVE  n \in U32Values \ {0}
BY WidthFacts DEF IsOffsetNumber, SuccessUint, U32Values

\* The values a declaration and a line start from are well formed.
LEMMA DefaultsType ==
  /\ DefaultModifier \in ModifierType
  /\ NoArray \in ArrayType
  /\ NoAlign \in AlignType
  /\ NoLine \in LineType
  /\ NoDecl \in DeclarationType
<1>1. DefaultModifier \in ModifierType
  BY U32Facts DEF DefaultModifier, ModifierType, Alignments
<1>2. NoArray \in ArrayType
  BY DEF ArrayType
<1>3. NoAlign \in AlignType
  BY U32Facts DEF NoAlign, AlignType
<1>4. NoLine \in LineType
  BY <1>2, <1>3 DEF NoLine, LineType
<1>5. NoDecl \in DeclarationType
  BY <1>1 DEF NoDecl, DeclarationType, MembersType, FieldsType
<1> QED
  BY <1>1, <1>2, <1>3, <1>4, <1>5

\* A registered name leads to a declaration of the document.
LEMMA GetType ==
  ASSUME TypeOK, Open, NEW n, IdentifierTest(n)
  PROVE  /\ idents[n] \in 1..Len(body)
         /\ IdentifierGet(n) \in NodeType
         /\ n \in Names
<1>1. n \in DOMAIN idents /\ n \in Names
  BY DEF IdentifierTest, TypeOK
<1>2. idents[n] \in 1..Len(body) /\ body \in Seq(NodeType)
  BY <1>1 DEF TypeOK, Open
<1> QED
  BY <1>1, <1>2 DEF IdentifierGet

\* What the code generator looks up about a type is well formed.
LEMMA AnalyseType ==
  ASSUME TypeOK, Open, NEW t, VariableTypeOK(t)
  PROVE  Analyse(t) \in VariableType
<1>1. CASE t \in BasicTypes
  BY <1>1 DEF Analyse, VariableType
<1>2. CASE t \notin BasicTypes
  <2>1. IdentifierTest(t)
    BY <1>2 DEF VariableTypeOK
  <2>2. t \in Names /\ IdentifierGet(t).bt \in BasicTypes \cup {None}
    BY <2>1, GetType DEF NodeType
  <2> QED
    BY <1>2, <2>2 DEF Analyse, VariableType
<1> QED
  BY <1>1, <1>2

\* One field of a struct or msg.
FieldRecord == [name : Names, type : VariableType,
                array : ArrayType, align : AlignType]

\* The fields of a line or of a declaration are records of fields.
LEMMA FieldsAreRecords ==
  ASSUME NEW fields \in FieldsType
  PROVE  /\ fields \in Seq(FieldRecord) /\ Len(fields) \in Nat
         /\ \A k \in 1..Len(fields) : fields[k] \in FieldRecord
<1>1. FieldsType = Seq(FieldRecord)
  BY DEF FieldsType, FieldRecord
<1> QED
  BY <1>1

\* The layout of fields whose types are resolved rests on uint32_t sizes and
\* alignments of the tables.
LEMMA LayoutViewFacts ==
  ASSUME TypeOK, Open, NEW fields \in FieldsType,
         \A f \in 1..Len(fields) : Resolved(fields[f].type)
  PROVE  /\ DOMAIN LayoutView(fields) = 1..Len(LayoutView(fields))
         /\ Len(LayoutView(fields)) = Len(fields)
         /\ WellFormed(LayoutView(fields))
<1> DEFINE view == LayoutView(fields)
<1>1. Len(fields) \in Nat
  BY DEF FieldsType
<1>2. DOMAIN view = 1..Len(view) /\ Len(view) = Len(fields)
  BY <1>1 DEF LayoutView
<1>3. ASSUME NEW k \in 1..Len(fields)
      PROVE  /\ TypeSize(fields[k]) \in Nat
             /\ TypeAlign(fields[k]) \in Alignments
             /\ fields[k].array.static_array_len \in Nat
  <2> DEFINE type == fields[k].type
             array == fields[k].array
  <2>1. fields[k] \in FieldRecord
    BY FieldsAreRecords
  <2>2. type \in VariableType /\ array \in ArrayType /\ Resolved(type)
    BY <2>1 DEF FieldRecord
  <2>3. array.static_array_len \in Nat
    BY <2>2, U32Facts DEF ArrayType, NoArray, ListArray, TupleArray
  <2>4. CASE type.full # None
    <3>1. type.full \in BasicTypes
      BY <2>2, <2>4 DEF VariableType
    <3>2. /\ TypeSize(fields[k]) = SizeOf(type.full)
          /\ TypeAlign(fields[k]) = AlignOf(type.full)
      BY <2>4 DEF TypeSize, TypeAlign
    <3> HIDE DEF type, array
    <3>3. SizeOf(type.full) \in Nat
      BY <3>1, TableFacts
    <3> QED
      BY <2>3, <3>1, <3>2, <3>3, TableFacts DEF array
  <2>5. CASE type.full = None
    <3> DEFINE m == IdentifierGet(type.type).modifier
    <3>1. type.type \notin BasicTypes
      BY <2>2, <2>5, NoneFacts DEF Resolved, Analyse
    <3>2. m \in ModifierType
      BY <2>2, <3>1, GetType DEF Resolved, VariableTypeOK, NodeType
    <3>3. /\ TypeSize(fields[k]) = m.struct_size
          /\ TypeAlign(fields[k]) = m.struct_unit_size
      BY <2>5 DEF TypeSize, TypeAlign
    <3> HIDE DEF m, type, array
    <3>4. m.struct_size \in Nat /\ m.struct_unit_size \in Alignments
      BY <3>2, U32Facts DEF ModifierType
    <3> QED
      BY <2>3, <3>3, <3>4 DEF array
  <2> QED
    BY <2>4, <2>5
<1>4. ASSUME NEW k \in 1..Len(view)
      PROVE  /\ view[k].size = TypeSize(fields[k])
             /\ view[k].align = TypeAlign(fields[k])
             /\ view[k].array = fields[k].array
  BY <1>2 DEF LayoutView
<1> QED
  BY <1>1, <1>2, <1>3, <1>4 DEF WellFormed

\* Laying out resolved fields gives a modifier and paddings that are well
\* formed, and touches nothing else of the fields.
LEMMA SetupType ==
  ASSUME TypeOK, Open, NEW fields \in FieldsType, NEW modifier \in ModifierType,
         \A f \in 1..Len(fields) : Resolved(fields[f].type)
  PROVE  /\ SetupModifier(LayoutView(fields), modifier) \in ModifierType
         /\ SetupFields(fields, modifier) \in FieldsType
         /\ Len(SetupFields(fields, modifier)) = Len(fields)
         /\ \A k \in 1..Len(fields) :
              /\ SetupFields(fields, modifier)[k].name = fields[k].name
              /\ SetupFields(fields, modifier)[k].type = fields[k].type
              /\ SetupFields(fields, modifier)[k].array = fields[k].array
<1> DEFINE view == LayoutView(fields)
<1>1. /\ DOMAIN view = 1..Len(view) /\ Len(view) = Len(fields)
      /\ WellFormed(view) /\ Len(view) \in Nat
  BY LayoutViewFacts DEF WellFormed
<1>2. \A k \in 1..Len(fields) : view[k].pad = fields[k].align
  BY <1>1 DEF LayoutView
<1> HIDE DEF view
<1>3. /\ SizeAfter(view) \in [0..Len(view) -> U32Values]
      /\ UnitSize(view) \in Alignments
  BY <1>1, SizeAfterFacts, UnitSizeFacts DEF U32Limit, U32Values
<1>4. StructSize(view) \in U32Values \ {0}
  <2>1. SizeAfter(view)[Len(view)] \in U32Values
    BY <1>1, <1>3
  <2> QED
    BY <2>1, U32Facts DEF StructSize
<1>5. SetupModifier(view, modifier) \in ModifierType
  <2>1. IsNarrow(view, modifier) \in BOOLEAN
    BY DEF IsNarrow, CanBeNatural, ModifierType
  <2>2. 1 \in U32Values \ {0} /\ 1 \in Alignments
    BY U32Facts DEF Alignments
  <2>3. CASE IsNarrow(view, modifier)
    BY <2>1, <2>2, <2>3 DEF SetupModifier, ModifierType
  <2>4. CASE ~IsNarrow(view, modifier)
    BY <1>3, <1>4, <2>1, <2>4 DEF SetupModifier, ModifierType
  <2> QED
    BY <2>3, <2>4
<1>6. ASSUME NEW k \in 1..Len(fields)
      PROVE  SetupPad(view, modifier, k) \in AlignType
  <2>1. fields[k].align \in AlignType
    BY FieldsAreRecords DEF FieldRecord
  <2>2. PaddingAfter(view, k) \in U32Values
    <3>1. k \in 1..Len(view) /\ k - 1 \in 0..Len(view)
      BY <1>1
    <3>2. SizeAfter(view)[k - 1] \in Nat
      BY <1>3, <3>1, U32Facts
    <3>3. PaddingAfter(view, k) \in 0..3
      BY <1>1, <1>3, <3>1, <3>2, PlaceFacts DEF PaddingAfter
    <3> QED
      BY <3>3, U32Facts
  <2> QED
    BY <1>2, <2>1, <2>2 DEF SetupPad, Aligned, AlignType
<1> DEFINE set == SetupFields(fields, modifier)
<1>7. set = [k \in 1..Len(fields) |->
               [fields[k] EXCEPT !.align = SetupPad(view, modifier, k)]]
  BY DEF SetupFields, view
<1> HIDE DEF set
<1>8. ASSUME NEW k \in 1..Len(fields)
      PROVE  /\ set[k] \in FieldRecord
             /\ set[k].name = fields[k].name /\ set[k].type = fields[k].type
             /\ set[k].array = fields[k].array
  <2>1. set[k] = [fields[k] EXCEPT !.align = SetupPad(view, modifier, k)]
    BY <1>7
  <2>2. fields[k] \in FieldRecord
    BY FieldsAreRecords
  <2> QED
    BY <1>6, <2>1, <2>2 DEF FieldRecord
<1>9. set \in Seq(FieldRecord) /\ Len(set) = Len(fields)
  <2>1. Len(fields) \in Nat
    BY FieldsAreRecords
  <2>2. set \in [1..Len(fields) -> FieldRecord]
    BY <1>7, <1>8
  <2> QED
    BY <2>1, <2>2
<1>10. set \in FieldsType
  BY <1>9 DEF FieldsType, FieldRecord
<1> QED
  BY <1>5, <1>8, <1>9, <1>10 DEF set, view

\* The nodes the semantic actions build are well formed.
LEMMA NodeIsNode ==
  ASSUME TypeOK, decl.name \in Names, NEW kind \in Kinds
  PROVE  Node(kind) \in NodeType
<1>1. decl \in DeclarationType
  BY DEF TypeOK
<1>2. /\ decl.bt \in BasicTypes \cup {None} /\ decl.modifier \in ModifierType
  BY <1>1 DEF DeclarationType
<1>3. <<>> \in Seq([name : Names, value : Int]) /\ <<>> \in FieldsType
  BY DEF FieldsType
<1> QED
  BY <1>2, <1>3 DEF Node, NodeType

\* A finished struct is a well-formed node.
LEMMA StructNodeIsNode ==
  ASSUME TypeOK, Open, decl.name \in Names, NEW kind \in Kinds,
         \A f \in 1..Len(decl.fields) : Resolved(decl.fields[f].type)
  PROVE  /\ StructNode(kind) \in NodeType
         /\ StructNode(kind).name = decl.name /\ StructNode(kind).kind = kind
         /\ StructNode(kind).members = <<>>
         /\ StructNode(kind).fields = SetupFields(decl.fields, decl.modifier)
<1>1. decl.fields \in FieldsType /\ decl.modifier \in ModifierType
  BY DEF TypeOK, DeclarationType
<1> DEFINE m == SetupModifier(LayoutView(decl.fields), decl.modifier)
           s == SetupFields(decl.fields, decl.modifier)
<1>2. m \in ModifierType /\ s \in FieldsType
  BY <1>1, SetupType
<1>3. StructNode(kind) = [Node(kind) EXCEPT !.modifier = m, !.fields = s]
  BY DEF StructNode
<1>4. Node(kind) \in NodeType
  BY NodeIsNode
<1>5. /\ Node(kind).name = decl.name /\ Node(kind).kind = kind
      /\ Node(kind).members = <<>>
  BY DEF Node
<1> HIDE DEF m, s
<1> QED
  BY <1>2, <1>3, <1>4, <1>5 DEF NodeType, s

\* A finished msg is a well-formed node.
LEMMA MsgNodeIsNode ==
  ASSUME TypeOK, Open, decl.name \in Names,
         \A f \in 1..Len(decl.fields) : Resolved(decl.fields[f].type)
  PROVE  /\ MsgNode \in NodeType
         /\ MsgNode.name = decl.name /\ MsgNode.kind = "msg"
         /\ MsgNode.index = msgIndex /\ MsgNode.members = <<>>
         /\ MsgNode.fields = SetupFields(decl.fields, decl.modifier)
<1> DEFINE node == StructNode("msg")
<1>1. /\ node \in NodeType /\ node.name = decl.name /\ node.kind = "msg"
      /\ node.members = <<>>
      /\ node.fields = SetupFields(decl.fields, decl.modifier)
  BY StructNodeIsNode DEF Kinds
<1>2. msgIndex \in Nat /\ node.modifier \in ModifierType
  BY <1>1 DEF TypeOK, NodeType
<1> DEFINE m == [node.modifier EXCEPT
                   !.has_set_reliability = TRUE,
                   !.is_reliable = node.modifier.has_set_reliability =>
                                     node.modifier.is_reliable]
<1> HIDE DEF node
<1>3. m \in ModifierType
  BY <1>2 DEF ModifierType
<1>4. MsgNode = [node EXCEPT !.modifier = m, !.index = msgIndex]
  BY <1>1, <1>2 DEF MsgNode, node, NodeType, ModifierType
<1> HIDE DEF m
<1> QED
  BY <1>1, <1>2, <1>3, <1>4 DEF NodeType

\* The members of an enum, the pending one included.
MemberRecord == [name : Names, has_specified_value : BOOLEAN, specified_value : Int]

\* The members of an enum are records of members.
LEMMA MembersAreRecords ==
  ASSUME TypeOK, pc = "memberNext" => decl.member \in Names
  PROVE  /\ Members \in MembersType /\ Len(Members) \in Nat
         /\ \A k \in 1..Len(Members) : Members[k] \in MemberRecord
<1>1. decl.members \in Seq(MemberRecord)
  BY DEF TypeOK, DeclarationType, MembersType, MemberRecord
<1>2. Members \in Seq(MemberRecord)
  <2> DEFINE last == Member(decl.member, FALSE, 0)
             ms   == decl.members
  <2>1. pc = "memberNext" => last \in MemberRecord
    BY DEF Member, MemberRecord
  <2>2. Members = IF pc = "memberNext" THEN Append(ms, last) ELSE ms
    BY DEF Members
  <2> HIDE DEF last, ms
  <2>3. ms \in Seq(MemberRecord)
    BY <1>1 DEF ms
  <2>4. pc = "memberNext" => Append(ms, last) \in Seq(MemberRecord)
    BY <2>1, <2>3
  <2> QED
    BY <2>2, <2>3, <2>4
<1>3. MembersType = Seq(MemberRecord)
  BY DEF MembersType, MemberRecord
<1> QED
  BY <1>2, <1>3

\* The node of an enum: its members in their order, with the values of the
\* rules, which are distinct and fit the basic type once they are accepted.
LEMMA EnumNodeIsNode ==
  ASSUME TypeOK, decl.name \in Names, pc = "memberNext" => decl.member \in Names,
         decl.bt \in IntegerTypes
  PROVE  /\ EnumNode \in NodeType
         /\ EnumNode.name = decl.name /\ EnumNode.kind = "enum"
         /\ EnumNode.bt = decl.bt /\ EnumNode.fields = <<>>
         /\ Len(EnumNode.members) = Len(Members)
         /\ \A k \in 1..Len(Members) :
              /\ EnumNode.members[k].name = Members[k].name
              /\ EnumNode.members[k].value = EnumValues(Members, decl.bt)[k]
<1> DEFINE n == Len(Members)
           values == EnumValues(Members, decl.bt)
           ms == [k \in 1..n |-> [name |-> Members[k].name, value |-> values[k]]]
<1>1. n \in Nat /\ \A k \in 1..n : Members[k] \in MemberRecord
  BY MembersAreRecords
<1>2. \A k \in 1..n : Members[k].name \in Names /\ Members[k].specified_value \in Int
  BY <1>1 DEF MemberRecord
<1>3. values \in [1..n -> Int]
  BY <1>1, <1>2, EnumValuesFacts
<1>4. EnumNode = [Node("enum") EXCEPT !.members = ms]
  BY DEF EnumNode
<1> HIDE DEF values, n
<1>5. \A k \in 1..n : [name |-> Members[k].name, value |-> values[k]]
                        \in [name : Names, value : Int]
  BY <1>2, <1>3
<1>6. ms \in Seq([name : Names, value : Int]) /\ Len(ms) = n
      /\ \A k \in 1..n : ms[k].name = Members[k].name /\ ms[k].value = values[k]
  BY <1>1, <1>5
<1>7. Node("enum") \in NodeType
  BY NodeIsNode DEF Kinds
<1>8. /\ Node("enum").name = decl.name /\ Node("enum").kind = "enum"
      /\ Node("enum").bt = decl.bt /\ Node("enum").fields = <<>>
  BY DEF Node
<1> HIDE DEF ms
<1>9. EnumNode \in NodeType /\ EnumNode.members = ms
      /\ EnumNode.name = decl.name /\ EnumNode.kind = "enum"
      /\ EnumNode.bt = decl.bt /\ EnumNode.fields = <<>>
  BY <1>4, <1>6, <1>7, <1>8 DEF NodeType
<1> QED
  BY <1>6, <1>9 DEF n, values

\* The members of an accepted enum have distinct values that fit its type.
LEMMA EnumNodeSound ==
  ASSUME TypeOK, decl.name \in Names, pc = "memberNext" => decl.member \in Names,
         decl.bt \in IntegerTypes, EnumAccepted(Members, decl.bt)
  PROVE  LET m == EnumNode.members
         IN  /\ \A i \in 1..Len(m) : m[i].value \in MinOf[decl.bt]..MaxOf[decl.bt]
             /\ \A i, j \in 1..Len(m) : i # j => m[i].value # m[j].value
<1>1. /\ Len(Members) \in Nat /\ Len(EnumNode.members) = Len(Members)
      /\ \A k \in 1..Len(Members) :
           EnumNode.members[k].value = EnumValues(Members, decl.bt)[k]
  BY EnumNodeIsNode, MembersAreRecords
<1>2. \A k \in 1..Len(Members) : Members[k].specified_value \in Int
  BY MembersAreRecords DEF MemberRecord
<1>3. \A k \in 1..Len(Members) :
        EnumValues(Members, decl.bt)[k] \in MinOf[decl.bt]..MaxOf[decl.bt]
  BY <1>1, <1>2, AcceptedInRange
<1> QED
  BY <1>1, <1>3 DEF EnumAccepted
-----------------------------------------------------------------------------
(* Steps by what they do to the document *)

\* A type that is resolved stays so while the document does not change.
LEMMA ResolvedQuiet ==
  ASSUME UNCHANGED <<body, registries>>, NEW type
  PROVE  Resolved(type)' <=> Resolved(type)
BY DEF registries, Resolved, VariableTypeOK, Analyse, IdentifierTest, IdentifierGet

\* What holds of the document holds while it does not change.
LEMMA BodyInvQuiet ==
  ASSUME BodyInv, Open, UNCHANGED <<body, registries>>
  PROVE  BodyInv'
<1>1. body' = body /\ idents' = idents /\ msgIndex' = msgIndex
  BY DEF registries
<1>2. RegistryMatchesBody'
  BY <1>1 DEF BodyInv, RegistryMatchesBody
<1>3. MsgIndexDense'
  BY <1>1 DEF BodyInv, MsgIndexDense, IsMsg
<1>4. DefinedBeforeUse' /\ EntriesDistinct'
  <2>1. DefinedBeforeUse'
    BY <1>1 DEF BodyInv, DefinedBeforeUse
  <2>2. EntriesDistinct'
    BY <1>1 DEF BodyInv, EntriesDistinct, NamesDistinct
  <2> QED
    BY <2>1, <2>2
<1>5. BodyResolved'
  BY <1>1, ResolvedQuiet DEF BodyInv, BodyResolved, BodyTypes
<1>6. EnumValuesSound'
  BY <1>1 DEF BodyInv, EnumValuesSound, EnumNodes
<1>7. BasesTyped'
  BY <1>1 DEF BodyInv, BasesTyped
<1> QED
  BY <1>2, <1>3, <1>4, <1>5, <1>6, <1>7 DEF BodyInv

\* A step on the parser stack only.
LEMMA QuietStep ==
  ASSUME IInv, Open, UNCHANGED <<body, registries>>,
         pc' \in States \ Final, thrown' \in BOOLEAN, variables' \subseteq Names,
         decl' \in DeclarationType, line' \in LineType, StageInv', ScopeInv'
  PROVE  IInv'
<1>1. TypeOK'
  BY DEF IInv, TypeOK, registries, States, Open
<1>2. BodyInv'
  BY BodyInvQuiet DEF IInv
<1> QED
  BY <1>1, <1>2 DEF IInv

\* The parser gives up: nothing is left of the document.
LEMMA AbortStep ==
  ASSUME IInv, Abort
  PROVE  IInv'
<1>1. /\ pc' = "aborted" /\ thrown' = TRUE /\ body' = <<>>
      /\ decl' = NoDecl /\ line' = NoLine
      /\ idents' = idents /\ variables' = variables /\ msgIndex' = msgIndex
  BY DEF Abort
<1>2. TypeOK'
  BY <1>1, DefaultsType DEF IInv, TypeOK, Final
<1>3. StageInv'
  BY <1>1 DEF StageInv, Final, NamedStates, MemberStates, LineStates, StructBraces,
     OutsideBraces, EnumBraces, HeadStates, DeclStates, FieldStates
<1>4. ScopeInv'
  BY <1>1 DEF ScopeInv, MemberStates, StructBraces, EnumBraces, FieldStates
<1>5. BodyInv'
  BY <1>1 DEF BodyInv, BasesTyped, Open, Final, RegistryMatchesBody, MsgIndexDense, IsMsg,
     DefinedBeforeUse, BodyResolved, EntriesDistinct, EnumValuesSound,
     EnumNodes
<1> QED
  BY <1>2, <1>3, <1>4, <1>5 DEF IInv

\* The document is finished: it stays, the registries are emptied.
LEMMA AcceptStep ==
  ASSUME IInv, Accept
  PROVE  IInv'
<1>1. /\ pc' = "accepted" /\ idents' = <<>> /\ variables' = {} /\ msgIndex' = 0
      /\ body' = body /\ decl' = decl /\ line' = line /\ thrown' = thrown
  BY DEF Accept
<1>2. TypeOK'
  BY <1>1 DEF IInv, TypeOK, Final
<1>3. StageInv'
  BY <1>1 DEF StageInv, Final, NamedStates, MemberStates, LineStates, StructBraces,
     OutsideBraces, EnumBraces, HeadStates, DeclStates, FieldStates
<1>4. ScopeInv'
  BY <1>1 DEF ScopeInv, MemberStates, StructBraces, EnumBraces, FieldStates
<1>5. ~Open'
  BY <1>1 DEF Open, Final
<1>6. BodyInv'
  <2>1. BodyInv /\ body' = body
    BY <1>1 DEF IInv
  <2>2. RegistryMatchesBody' /\ BodyResolved'
    BY <1>5 DEF RegistryMatchesBody, BodyResolved
  <2>3. MsgIndexDense'
    BY <1>5, <2>1 DEF BodyInv, MsgIndexDense, IsMsg
  <2>4. BasesTyped'
    BY <2>1 DEF BodyInv, BasesTyped
  <2>5. DefinedBeforeUse'
    BY <2>1 DEF BodyInv, DefinedBeforeUse
  <2>6. EntriesDistinct'
    BY <2>1 DEF BodyInv, EntriesDistinct, NamesDistinct
  <2>7. EnumValuesSound'
    BY <2>1 DEF BodyInv, EnumValuesSound, EnumNodes
  <2> QED
    BY <2>2, <2>3, <2>4, <2>5, <2>6, <2>7 DEF BodyInv
<1> QED
  BY <1>2, <1>3, <1>4, <1>6 DEF IInv

\* Recovery throws away the declaration being parsed.
LEMMA UnwindToBodyStep ==
  ASSUME IInv, Open, NEW t, UnwindToBody(t)
  PROVE  IInv'
<1>1. /\ thrown' = TRUE /\ decl' = NoDecl /\ line' = NoLine
      /\ UNCHANGED <<body, registries>>
      /\ \/ pc' = "body" /\ variables' = {}
         \/ pc' = "bodyError" /\ variables' = variables
  BY DEF UnwindToBody, Resume
<1>2. NoDecl.members = <<>> /\ NoDecl.fields = <<>>
  BY DEF NoDecl
<1>3. StageInv'
  BY <1>1, <1>2 DEF StageInv, Final, NamedStates, MemberStates, LineStates,
     StructBraces, OutsideBraces, EnumBraces, HeadStates, DeclStates, FieldStates
<1>4. ScopeInv'
  BY <1>1 DEF ScopeInv, MemberStates, StructBraces, EnumBraces, FieldStates
<1>5. pc' \in States \ Final /\ variables' \subseteq Names
  BY <1>1 DEF IInv, TypeOK, States, Final, DeclStates, ErrorStates
<1> QED
  BY <1>1, <1>3, <1>4, <1>5, DefaultsType, QuietStep

\* Recovery throws away the line being parsed.
LEMMA UnwindToFieldsStep ==
  ASSUME IInv, pc \in FieldStates, NEW t, UnwindToFields(t)
  PROVE  IInv'
<1>1. /\ thrown' = TRUE /\ decl' = decl /\ line' = NoLine
      /\ variables' = variables /\ UNCHANGED <<body, registries>>
      /\ pc' \in {"fields", "fieldsError"}
  BY DEF UnwindToFields
<1>2. NoLine.names = <<>>
  BY DEF NoLine
<1>3. pc \in StructBraces /\ pc \in NamedStates /\ Open
  BY DEF StructBraces, NamedStates, FieldStates, Open, Final
<1>4. StageInv'
  <2>1. /\ decl.name \in Names
        /\ \A f \in 1..Len(decl.fields) : Resolved(decl.fields[f].type)'
    BY <1>1, <1>3, ResolvedQuiet DEF IInv, StageInv
  <2> QED
    BY <1>1, <2>1 DEF StageInv, Final, NamedStates, MemberStates, LineStates,
       StructBraces, OutsideBraces, EnumBraces, HeadStates, DeclStates, FieldStates
<1>5. ScopeInv'
  BY <1>1, <1>2, <1>3 DEF IInv, ScopeInv, NamesDistinct, MemberStates, StructBraces,
     EnumBraces, FieldStates
<1>6. pc' \in States \ Final /\ variables' \subseteq Names /\ decl' \in DeclarationType
  BY <1>1 DEF IInv, TypeOK, States, Final, FieldStates, ErrorStates
<1> QED
  BY <1>1, <1>3, <1>4, <1>5, <1>6, DefaultsType, QuietStep

\* A declaration is accepted.
LEMMA AddNodeStep ==
  ASSUME IInv, Open, NEW node \in NodeType, ~IdentifierTest(node.name),
         AddNode(node),
         \A f \in 1..Len(node.fields) : Resolved(node.fields[f].type),
         NamesDistinct(node.members), NamesDistinct(node.fields),
         node.kind = "enum" =>
           LET m == node.members
           IN  /\ \A i \in 1..Len(m) : m[i].value \in MinOf[node.bt]..MaxOf[node.bt]
               /\ \A i, j \in 1..Len(m) : i # j => m[i].value # m[j].value,
         node.kind \in {"alias", "enum"} => node.bt \in BasicTypes,
         node.kind = "msg" => node.index = msgIndex /\ msgIndex' = msgIndex + 1,
         node.kind # "msg" => msgIndex' = msgIndex
  PROVE  IInv'
<1> DEFINE n == Len(body)
<1>1. /\ TypeOK /\ BodyInv /\ RegistryMatchesBody
      /\ body \in Seq(NodeType) /\ n \in Nat /\ msgIndex \in Nat
      /\ node.name \in Names
  BY DEF IInv, BodyInv, TypeOK, NodeType
<1>2. /\ body' = Append(body, node)
      /\ idents' = [m \in DOMAIN idents \cup {node.name} |->
                     IF m = node.name THEN n + 1 ELSE idents[m]]
      /\ variables' = {} /\ pc' = "body" /\ decl' = NoDecl /\ line' = NoLine
      /\ thrown' = thrown
  BY DEF AddNode
<1>3. /\ body' \in Seq(NodeType) /\ Len(body') = n + 1 /\ body'[n + 1] = node
      /\ \A k \in 1..n : body'[k] = body[k]
  BY <1>1, <1>2
<1>4. /\ node.name \notin DOMAIN idents
      /\ DOMAIN idents' = DOMAIN idents \cup {node.name}
      /\ idents'[node.name] = n + 1
      /\ \A m \in DOMAIN idents : idents'[m] = idents[m] /\ idents[m] \in 1..n
  BY <1>1, <1>2 DEF IdentifierTest, TypeOK, Open
<1>5. Open' /\ msgIndex' \in Nat
  BY <1>1, <1>2 DEF Open, Final
<1>6. TypeOK'
  <2>1. \A m \in DOMAIN idents' : idents'[m] \in 1..Len(body')
    BY <1>1, <1>3, <1>4
  <2> QED
    BY <1>1, <1>2, <1>3, <1>4, <1>5, <2>1, DefaultsType DEF TypeOK, DeclStates
<1>7. StageInv'
  <2>1. NoDecl.members = <<>> /\ NoDecl.fields = <<>>
    BY DEF NoDecl
  <2> QED
    BY <1>2, <2>1 DEF StageInv, Final, NamedStates, MemberStates, LineStates,
       StructBraces, OutsideBraces, EnumBraces, HeadStates, DeclStates, FieldStates
<1>8. ScopeInv'
  BY <1>2 DEF ScopeInv, MemberStates, StructBraces, EnumBraces, FieldStates
<1>9. ASSUME NEW m, IdentifierTest(m)
      PROVE  IdentifierTest(m)' /\ IdentifierGet(m)' = IdentifierGet(m)
  BY <1>3, <1>4, <1>9 DEF IdentifierTest, IdentifierGet
<1>10. ASSUME NEW type, Resolved(type)
       PROVE  Resolved(type)'
  <2>1. CASE type.type \in BasicTypes
    BY <1>10, <2>1 DEF Resolved, VariableTypeOK, Analyse
  <2>2. CASE type.type \notin BasicTypes
    <3>1. IdentifierTest(type.type)
      BY <1>10, <2>2 DEF Resolved, VariableTypeOK
    <3>2. IdentifierTest(type.type)' /\ IdentifierGet(type.type)' = IdentifierGet(type.type)
      BY <1>9, <3>1
    <3> QED
      BY <1>10, <2>2, <3>2 DEF Resolved, VariableTypeOK, Analyse
  <2> QED
    BY <2>1, <2>2
<1>11. RegistryMatchesBody'
  <2>1. /\ DOMAIN idents = {body[k].name : k \in 1..n}
        /\ \A k \in 1..n : idents[body[k].name] = k
    BY <1>1 DEF RegistryMatchesBody
  <2>2. DOMAIN idents' = {body'[k].name : k \in 1..(n + 1)}
    <3> DEFINE named == {body'[k].name : k \in 1..(n + 1)}
    <3>1. ASSUME NEW m \in DOMAIN idents' PROVE m \in named
      <4>1. CASE m = node.name
        <5>1. n + 1 \in 1..(n + 1) /\ body'[n + 1].name = m
          BY <1>1, <1>3, <4>1
        <5> QED
          BY <5>1
      <4>2. CASE m \in DOMAIN idents
        <5>1. PICK k \in 1..n : m = body[k].name
          BY <2>1, <4>2
        <5>2. k \in 1..(n + 1) /\ body'[k].name = m
          BY <1>1, <1>3, <5>1
        <5> QED
          BY <5>2
      <4> QED
        BY <1>4, <3>1, <4>1, <4>2
    <3>2. ASSUME NEW k \in 1..(n + 1) PROVE body'[k].name \in DOMAIN idents'
      <4>1. CASE k = n + 1
        BY <1>3, <1>4, <4>1
      <4>2. CASE k \in 1..n
        BY <1>3, <1>4, <2>1, <4>2
      <4> QED
        BY <1>1, <4>1, <4>2
    <3> QED
      BY <3>1, <3>2
  <2>3. ASSUME NEW k \in 1..(n + 1) PROVE idents'[body'[k].name] = k
    <3>1. CASE k = n + 1
      BY <1>3, <1>4, <3>1
    <3>2. CASE k \in 1..n
      <4>1. body'[k].name \in DOMAIN idents /\ body'[k].name = body[k].name
        BY <1>3, <2>1, <3>2
      <4> QED
        BY <1>4, <2>1, <3>2, <4>1
    <3> QED
      BY <1>1, <3>1, <3>2
  <2> QED
    BY <1>3, <2>2, <2>3 DEF RegistryMatchesBody
<1>12. MsgIndexDense'
  <2> DEFINE msgs == {k \in 1..n : body[k].kind = "msg"}
             next == {k \in 1..(n + 1) : body'[k].kind = "msg"}
  <2>1. /\ \A j, k \in msgs : j < k => body[j].index < body[k].index
        /\ \A k \in msgs : \A v \in 0..body[k].index :
             \E j \in msgs : body[j].index = v
        /\ \A k \in msgs : body[k].index < msgIndex
        /\ \A v \in 0..(msgIndex - 1) : \E j \in msgs : body[j].index = v
    BY <1>1 DEF BodyInv, MsgIndexDense, IsMsg
  <2>2. \A k \in msgs : body[k].index \in Nat /\ k \in 1..n /\ body'[k] = body[k]
    <3> SUFFICES ASSUME NEW k \in msgs
                 PROVE  body[k].index \in Nat /\ k \in 1..n /\ body'[k] = body[k]
      OBVIOUS
    <3>1. k \in 1..n /\ body[k] \in NodeType
      BY <1>1
    <3> QED
      BY <1>3, <3>1 DEF NodeType
  <2>3. SUFFICES
          /\ \A j, k \in next : j < k => body'[j].index < body'[k].index
          /\ \A k \in next : \A v \in 0..body'[k].index :
               \E j \in next : body'[j].index = v
          /\ \A k \in next : body'[k].index < msgIndex'
          /\ \A v \in 0..(msgIndex' - 1) : \E j \in next : body'[j].index = v
    BY <1>3 DEF MsgIndexDense, IsMsg
  <2>4. CASE node.kind = "msg"
    <3>1. next = msgs \cup {n + 1}
      BY <1>1, <1>3, <2>4
    <3>2. body'[n + 1].index = msgIndex /\ msgIndex' = msgIndex + 1
      BY <1>3, <2>4
    <3> HIDE DEF msgs, next
    <3>3. \A k \in next : body'[k].index < msgIndex' /\ body'[k].index \in Nat
      BY <1>1, <2>1, <2>2, <3>1, <3>2
    <3>4. \A j, k \in next : j < k => body'[j].index < body'[k].index
      <4> SUFFICES ASSUME NEW j \in next, NEW k \in next, j < k
                   PROVE  body'[j].index < body'[k].index
        OBVIOUS
      <4>1. j \in msgs
        BY <1>1, <2>2, <3>1
      <4>2. CASE k \in msgs
        BY <2>1, <2>2, <4>1, <4>2
      <4>3. CASE k = n + 1
        BY <2>1, <2>2, <3>2, <4>1, <4>3
      <4> QED
        BY <3>1, <4>2, <4>3
    <3>5. \A v \in 0..(msgIndex' - 1) : \E j \in next : body'[j].index = v
      <4> SUFFICES ASSUME NEW v \in 0..(msgIndex' - 1)
                   PROVE  \E j \in next : body'[j].index = v
        OBVIOUS
      <4>1. CASE v = msgIndex
        BY <3>1, <3>2, <4>1
      <4>2. CASE v # msgIndex
        <5>1. v \in 0..(msgIndex - 1)
          BY <1>1, <3>2, <4>2
        <5>2. PICK j \in msgs : body[j].index = v
          BY <2>1, <5>1
        <5> QED
          BY <2>2, <3>1, <5>2
      <4> QED
        BY <4>1, <4>2
    <3>6. \A k \in next : \A v \in 0..body'[k].index :
            \E j \in next : body'[j].index = v
      <4> SUFFICES ASSUME NEW k \in next, NEW v \in 0..body'[k].index
                   PROVE  \E j \in next : body'[j].index = v
        OBVIOUS
      <4>1. v \in 0..(msgIndex' - 1)
        BY <1>5, <3>3
      <4> QED
        BY <3>5, <4>1
    <3> QED
      BY <3>3, <3>4, <3>5, <3>6
  <2>5. CASE node.kind # "msg"
    <3>1. next = msgs
      BY <1>1, <1>3, <2>5
    <3>2. msgIndex' = msgIndex
      BY <2>5
    <3> HIDE DEF msgs, next
    <3> QED
      BY <2>1, <2>2, <3>1, <3>2
  <2> QED
    BY <2>4, <2>5
<1>13. DefinedBeforeUse'
  <2> SUFFICES ASSUME NEW k \in 1..(n + 1), NEW f \in 1..Len(body'[k].fields),
                      body'[k].fields[f].type.type \in Names
               PROVE  \E j \in 1..(k - 1) :
                        /\ body'[j].name = body'[k].fields[f].type.type
                        /\ body'[j].kind # "msg"
    BY <1>3 DEF DefinedBeforeUse
  <2>1. CASE k \in 1..n
    <3>1. body'[k] = body[k]
      BY <1>3, <2>1
    <3>2. PICK j \in 1..(k - 1) : /\ body[j].name = body[k].fields[f].type.type
                                  /\ body[j].kind # "msg"
      BY <1>1, <2>1, <3>1 DEF BodyInv, DefinedBeforeUse
    <3>3. body'[j] = body[j]
      BY <1>1, <1>3, <2>1
    <3> QED
      BY <3>1, <3>2, <3>3
  <2>2. CASE k = n + 1
    <3> DEFINE type == node.fields[f].type.type
    <3>1. body'[k] = node /\ type \in Names /\ Resolved(node.fields[f].type)
      BY <1>3, <2>2
    <3>2. IdentifierTest(type) /\ IdentifierGet(type).kind # "msg"
      BY <3>1, NoneFacts DEF Resolved, VariableTypeOK
    <3> HIDE DEF type
    <3>3. idents[type] \in 1..n /\ body[idents[type]].kind # "msg"
      BY <1>4, <3>2 DEF IdentifierTest, IdentifierGet
    <3>4. body[idents[type]].name = type
      <4>1. PICK j \in 1..n : type = body[j].name
        BY <1>1, <3>2 DEF RegistryMatchesBody, IdentifierTest
      <4>2. idents[type] = j
        BY <1>1, <4>1 DEF RegistryMatchesBody
      <4> QED
        BY <4>1, <4>2
    <3>5. body'[idents[type]] = body[idents[type]] /\ idents[type] \in 1..(k - 1)
      BY <1>1, <1>3, <2>2, <3>3
    <3> QED
      BY <3>1, <3>3, <3>4, <3>5 DEF type
  <2> QED
    BY <1>1, <2>1, <2>2
<1>14. BodyResolved'
  <2> SUFFICES ASSUME NEW type \in BodyTypes'
               PROVE  Resolved(type)'
    BY DEF BodyResolved
  <2>0. PICK k \in 1..(n + 1) : \E f \in 1..Len(body'[k].fields) :
          type \in VariableType /\ type = body'[k].fields[f].type
    BY <1>3 DEF BodyTypes
  <2>1. Resolved(type)
    <3>1. CASE k \in 1..n
      BY <1>1, <1>3, <2>0, <3>1 DEF BodyInv, BodyResolved, BodyTypes
    <3>2. CASE k = n + 1
      BY <1>3, <2>0, <3>2
    <3> QED
      BY <1>1, <3>1, <3>2
  <2> QED
    BY <1>10, <2>1
<1>15. EntriesDistinct'
  <2> SUFFICES ASSUME NEW k \in 1..(n + 1)
               PROVE  NamesDistinct(body'[k].members) /\ NamesDistinct(body'[k].fields)
    BY <1>3 DEF EntriesDistinct, NamesDistinct
  <2>1. CASE k \in 1..n
    BY <1>1, <1>3, <2>1 DEF BodyInv, EntriesDistinct
  <2>2. CASE k = n + 1
    BY <1>3, <2>2
  <2> QED
    BY <1>1, <2>1, <2>2
<1>16. EnumValuesSound'
  <2> DEFINE Sound(d) ==
        LET m == d.members
        IN  /\ \A i \in 1..Len(m) : m[i].value \in MinOf[d.bt]..MaxOf[d.bt]
            /\ \A i, j \in 1..Len(m) : i # j => m[i].value # m[j].value
  <2>1. \A k \in 1..n : body[k].kind = "enum" => Sound(body[k])
    BY <1>1 DEF BodyInv, EnumValuesSound, EnumNodes
  <2>2. node.kind = "enum" => Sound(node)
    OBVIOUS
  <2>3. SUFFICES \A k \in 1..(n + 1) : body'[k].kind = "enum" => Sound(body'[k])
    BY <1>3 DEF EnumValuesSound, EnumNodes
  <2> HIDE DEF Sound
  <2> SUFFICES ASSUME NEW k \in 1..(n + 1), body'[k].kind = "enum"
               PROVE  Sound(body'[k])
    OBVIOUS
  <2>4. CASE k \in 1..n
    BY <1>3, <2>1, <2>4
  <2>5. CASE k = n + 1
    BY <1>3, <2>2, <2>5
  <2> QED
    BY <1>1, <2>4, <2>5
<1>17. BasesTyped'
  <2> SUFFICES ASSUME NEW k \in 1..(n + 1), body'[k].kind \in {"alias", "enum"}
               PROVE  body'[k].bt \in BasicTypes
    BY <1>3 DEF BasesTyped
  <2>1. CASE k \in 1..n
    BY <1>1, <1>3, <2>1 DEF BodyInv, BasesTyped
  <2>2. CASE k = n + 1
    BY <1>3, <2>2
  <2> QED
    BY <1>1, <2>1, <2>2
<1> QED
  BY <1>6, <1>7, <1>8, <1>11, <1>12, <1>13, <1>14, <1>15, <1>16, <1>17
  DEF IInv, BodyInv
-----------------------------------------------------------------------------
(* The steps of the head, and the errors *)

USE DEF States, HeadStates, DeclStates, FieldStates, ErrorStates, Final,
        MemberStates, LineStates, EnumBraces, StructBraces, OutsideBraces,
        NamedStates

\* The parser starts on an empty document.
LEMMA InitIInv == Init => IInv
<1> SUFFICES ASSUME Init PROVE IInv
  OBVIOUS
<1>1. /\ pc = "version" /\ body = <<>> /\ idents = <<>> /\ variables = {}
      /\ msgIndex = 0 /\ decl = NoDecl /\ line = NoLine /\ thrown = FALSE
  BY DEF Init
<1>2. NoDecl.members = <<>> /\ NoDecl.fields = <<>>
  BY DEF NoDecl
<1>3. TypeOK
  <2>1. body \in Seq(NodeType)
    BY <1>1
  <2>2. DOMAIN idents = {}
    BY <1>1
  <2> QED
    BY <1>1, <2>1, <2>2, DefaultsType DEF TypeOK
<1>4. StageInv
  BY <1>1, <1>2 DEF StageInv
<1>5. ScopeInv
  BY <1>1 DEF ScopeInv
<1>6. BodyInv
  BY <1>1 DEF BodyInv, BasesTyped, RegistryMatchesBody, MsgIndexDense, IsMsg,
     DefinedBeforeUse, BodyResolved, BodyTypes, EntriesDistinct, EnumValuesSound,
     EnumNodes
<1> QED
  BY <1>3, <1>4, <1>5, <1>6 DEF IInv

\* The version and namespace lines at the head of the file.
LEMMA HeadStep ==
  ASSUME IInv, HeadToken \/ VersionNumber \/ HeadEnd
  PROVE  IInv'
<1>1. /\ UNCHANGED <<body, registries>>
      /\ decl' = decl /\ line' = line /\ thrown' = thrown
  BY DEF HeadToken, VersionNumber, HeadEnd
<1>2. pc \in HeadStates /\ pc' \in HeadStates \cup {"body"}
  BY DEF HeadToken, HeadMoves, VersionNumber, HeadEnd
<1>3. variables' = {} /\ variables = {}
  BY <1>2 DEF IInv, StageInv, HeadToken, VersionNumber, HeadEnd
<1>4. StageInv'
  BY <1>1, <1>2, <1>3 DEF IInv, StageInv
<1>5. ScopeInv'
  BY <1>2 DEF ScopeInv
<1> QED
  BY <1>1, <1>2, <1>3, <1>4, <1>5, QuietStep DEF IInv, TypeOK, Open

\* A token the grammar does not accept.
LEMMA ErrorStep ==
  ASSUME IInv, HeadError \/ SyntaxErrorInDecl \/ SyntaxErrorInFields
  PROVE  IInv'
<1>1. CASE HeadError
  BY <1>1, AbortStep DEF HeadError
<1>2. CASE SyntaxErrorInDecl
  <2>1. PICK t \in Unexpected(pc) : UnwindToBody(t)
    BY <1>2 DEF SyntaxErrorInDecl
  <2>2. Open
    BY <1>2 DEF SyntaxErrorInDecl, Open
  <2> QED
    BY <2>1, <2>2, UnwindToBodyStep
<1>3. CASE SyntaxErrorInFields
  <2>1. PICK t \in Unexpected(pc) : UnwindToFields(t)
    BY <1>3 DEF SyntaxErrorInFields
  <2>2. pc \in FieldStates
    BY <1>3 DEF SyntaxErrorInFields
  <2> QED
    BY <2>1, <2>2, UnwindToFieldsStep
<1> QED
  BY <1>1, <1>2, <1>3

\* Recovery within the body of the document.
LEMMA BodyRecoveryStep ==
  ASSUME IInv, BodyRecovery
  PROVE  IInv'
<1>1. /\ pc = "bodyError" /\ pc' = "body" /\ variables' = {}
      /\ UNCHANGED <<body, registries>>
      /\ decl' = decl /\ line' = line /\ thrown' = thrown
  BY DEF BodyRecovery, Resume
<1>2. StageInv'
  BY <1>1 DEF IInv, StageInv
<1>3. ScopeInv'
  BY <1>1 DEF ScopeInv
<1> QED
  BY <1>1, <1>2, <1>3, QuietStep DEF IInv, TypeOK, Open

\* Recovery within the fields of a struct or msg.
LEMMA FieldsRecoveryStep ==
  ASSUME IInv, FieldsRecovery
  PROVE  IInv'
<1>1. /\ pc = "fieldsError" /\ pc' = "fields"
      /\ UNCHANGED <<body, registries>> /\ variables' = variables
      /\ decl' = decl /\ line' = line /\ thrown' = thrown
  BY DEF FieldsRecovery
<1>2. StageInv'
  BY <1>1, ResolvedQuiet DEF IInv, StageInv
<1>3. ScopeInv'
  BY <1>1 DEF IInv, ScopeInv, NamesDistinct
<1> QED
  BY <1>1, <1>2, <1>3, QuietStep DEF IInv, TypeOK, Open

\* The lexer gives up on the file.
LEMMA LexErrorStep ==
  ASSUME IInv, LexError
  PROVE  IInv'
<1>1. /\ pc \notin Final /\ pc' = pc /\ thrown' = TRUE
      /\ UNCHANGED <<body, registries>> /\ variables' = variables
      /\ decl' = decl /\ line' = line
  BY DEF LexError
<1>2. StageInv'
  BY <1>1, ResolvedQuiet DEF IInv, StageInv
<1>3. ScopeInv'
  BY <1>1 DEF IInv, ScopeInv, NamesDistinct
<1> QED
  BY <1>1, <1>2, <1>3, QuietStep DEF IInv, TypeOK, Open

\* The end of the file, wherever it comes.
LEMMA EndOfFileStep ==
  ASSUME IInv, EndOfFile
  PROVE  IInv'
BY AcceptStep, AbortStep DEF EndOfFile
-----------------------------------------------------------------------------
(* The steps of declarations *)

\* A token that only moves on within a declaration, and may set its kind,
\* name, type or modifier.
LEMMA KeywordStep ==
  ASSUME IInv, NEW kind \in Kinds, Keyword(kind)
  PROVE  IInv'
<1>1. /\ pc \in {"body", "modifier"}
      /\ pc' \in {"aliasName", "enumType", "structName"}
      /\ decl' = [decl EXCEPT !.kind = kind]
      /\ UNCHANGED <<body, registries>>
      /\ variables' = variables /\ line' = line /\ thrown' = thrown
  BY DEF Keyword, Stay
<1>2. decl \in DeclarationType
  BY DEF IInv, TypeOK
<1>3. /\ decl' \in DeclarationType
      /\ decl'.members = decl.members /\ decl'.fields = decl.fields
  BY <1>1, <1>2 DEF DeclarationType
<1>4. StageInv'
  BY <1>1, <1>3 DEF IInv, StageInv
<1>5. ScopeInv'
  BY <1>1 DEF ScopeInv
<1> QED
  BY <1>1, <1>3, <1>4, <1>5, QuietStep DEF IInv, TypeOK, Open

\* The name of a declaration, registered or refused.
LEMMA DeclNameStep ==
  ASSUME IInv, NEW n \in Names, DeclName(n)
  PROVE  IInv'
<1>1. /\ pc \in {"aliasName", "enumName", "structName"}
      /\ pc' \in {"aliasType", "enumBrace", "structBrace"}
      /\ decl' = [decl EXCEPT !.name = n]
      /\ UNCHANGED <<body, registries>>
      /\ variables' = variables /\ line' = line /\ thrown' = thrown
  BY DEF DeclName, Stay
<1>2. decl \in DeclarationType
  BY DEF IInv, TypeOK
<1>3. /\ decl' \in DeclarationType /\ decl'.name = n
      /\ decl'.members = decl.members /\ decl'.fields = decl.fields
  BY <1>1, <1>2 DEF DeclarationType
<1>4. StageInv'
  BY <1>1, <1>3 DEF IInv, StageInv
<1>5. ScopeInv'
  BY <1>1 DEF ScopeInv
<1> QED
  BY <1>1, <1>3, <1>4, <1>5, QuietStep DEF IInv, TypeOK, Open

\* The basic type of an alias or an enum.
LEMMA DeclTypeStep ==
  ASSUME IInv, NEW t \in Types, DeclType(t)
  PROVE  IInv'
<1>1. /\ \/ pc = "aliasType" /\ pc' = "aliasSemi"
         \/ pc = "enumType" /\ pc' = "enumName"
      /\ decl' = [decl EXCEPT !.bt = t]
      /\ UNCHANGED <<body, registries>>
      /\ variables' = variables /\ line' = line /\ thrown' = thrown
  BY DEF DeclType, Stay
<1>2. decl \in DeclarationType /\ t \in BasicTypes
  BY NoneFacts DEF IInv, TypeOK
<1>3. /\ decl' \in DeclarationType /\ decl'.name = decl.name /\ decl'.bt = t
      /\ decl'.members = decl.members /\ decl'.fields = decl.fields
  BY <1>1, <1>2 DEF DeclarationType
<1>4. StageInv'
  BY <1>1, <1>2, <1>3 DEF IInv, StageInv
<1>5. ScopeInv'
  BY <1>1 DEF ScopeInv
<1> QED
  BY <1>1, <1>3, <1>4, <1>5, QuietStep DEF IInv, TypeOK, Open

\* The brace that opens a body and resets its scope.
LEMMA LeftBraceStep ==
  ASSUME IInv, LeftBrace
  PROVE  IInv'
<1>1. /\ \/ pc = "enumBrace" /\ pc' = "member"
         \/ pc = "structBrace" /\ pc' = "fields"
      /\ decl' = decl
      /\ UNCHANGED <<body, registries>>
      /\ variables' = variables /\ line' = line /\ thrown' = thrown
  BY DEF LeftBrace, Stay
<1>2. /\ decl.members = <<>> /\ decl.fields = <<>> /\ line = NoLine
      /\ decl.name \in Names
  BY <1>1 DEF IInv, StageInv
<1>3. NoLine.names = <<>>
  BY DEF NoLine
<1>4. StageInv'
  BY <1>1, <1>2 DEF StageInv
<1>5. ScopeInv'
  BY <1>1, <1>2, <1>3 DEF ScopeInv, NamesDistinct
<1> QED
  BY <1>1, <1>4, <1>5, QuietStep DEF IInv, TypeOK, Open

\* A modifier, accepted or refused.
LEMMA SetModifierStep ==
  ASSUME IInv, NEW already, NEW modifier \in ModifierType,
         SetModifier(already, modifier)
  PROVE  IInv'
<1>1. pc \in {"body", "modifier"} /\ Open
  BY DEF SetModifier, Open
<1>2. CASE already
  BY <1>1, <1>2, UnwindToBodyStep DEF SetModifier
<1>3. CASE ~already
  <2>1. /\ pc' = "modifier"
        /\ decl' = [decl EXCEPT !.modifier = modifier]
        /\ UNCHANGED <<body, registries>>
        /\ variables' = variables /\ line' = line /\ thrown' = thrown
    BY <1>3 DEF SetModifier, Stay
  <2>2. decl \in DeclarationType
    BY DEF IInv, TypeOK
  <2>3. /\ decl' \in DeclarationType
        /\ decl'.members = decl.members /\ decl'.fields = decl.fields
    BY <2>1, <2>2 DEF DeclarationType
  <2>4. StageInv'
    BY <1>1, <2>1, <2>3 DEF IInv, StageInv
  <2>5. ScopeInv'
    BY <2>1 DEF ScopeInv
  <2> QED
    BY <1>1, <2>1, <2>3, <2>4, <2>5, QuietStep DEF IInv, TypeOK
<1> QED
  BY <1>2, <1>3

\* A modifier before a struct or a msg.
LEMMA ModifierStep ==
  ASSUME IInv, NEW b \in BOOLEAN, Reliability(b) \/ FieldLayout(b)
  PROVE  IInv'
<1>1. decl.modifier \in ModifierType
  BY DEF IInv, TypeOK, DeclarationType
<1>2. [decl.modifier EXCEPT !.has_set_reliability = TRUE, !.is_reliable = b]
        \in ModifierType
  BY <1>1 DEF ModifierType
<1>3. [decl.modifier EXCEPT !.has_set_field_layout = TRUE, !.is_narrow = b]
        \in ModifierType
  BY <1>1 DEF ModifierType
<1> QED
  BY <1>2, <1>3, SetModifierStep DEF Reliability, FieldLayout

\* An alias is complete.
LEMMA AliasEndStep ==
  ASSUME IInv, AliasEnd
  PROVE  IInv'
<1>1. pc = "aliasSemi" /\ Open /\ TypeOK
  BY DEF AliasEnd, Open, IInv
<1>2. decl.name \in Names /\ decl.bt \in BasicTypes
  BY <1>1 DEF IInv, StageInv
<1>3. CASE IdentifierTest(decl.name)
  BY <1>1, <1>3, UnwindToBodyStep DEF AliasEnd
<1>4. CASE ~IdentifierTest(decl.name)
  <2> DEFINE node == Node("alias")
  <2>1. AddNode(node) /\ msgIndex' = msgIndex
    BY <1>4 DEF AliasEnd
  <2>2. /\ node \in NodeType /\ node.name = decl.name /\ node.kind = "alias"
        /\ node.bt = decl.bt /\ node.members = <<>> /\ node.fields = <<>>
    <3>1. node \in NodeType
      BY <1>1, <1>2, NodeIsNode DEF Kinds
    <3> QED
      BY <3>1 DEF Node
  <2> HIDE DEF node
  <2>3. /\ NamesDistinct(node.members) /\ NamesDistinct(node.fields)
        /\ \A f \in 1..Len(node.fields) : Resolved(node.fields[f].type)
    BY <2>2 DEF NamesDistinct
  <2> QED
    BY <1>1, <1>2, <1>4, <2>1, <2>2, <2>3, AddNodeStep
<1> QED
  BY <1>3, <1>4
-----------------------------------------------------------------------------
(* The steps of an enum *)

\* The name of a member, registered or refused.
LEMMA MemberNameStep ==
  ASSUME IInv, NEW n \in Names, MemberName(n)
  PROVE  IInv'
<1>1. /\ pc = "member" /\ pc' = "memberNext"
      /\ decl' = [decl EXCEPT !.member = n]
      /\ UNCHANGED <<body, registries>>
      /\ variables' = variables /\ line' = line /\ thrown' = thrown
  BY DEF MemberName, Stay
<1>2. decl \in DeclarationType
  BY DEF IInv, TypeOK
<1>3. /\ decl' \in DeclarationType /\ decl'.name = decl.name /\ decl'.member = n
      /\ decl'.members = decl.members
  BY <1>1, <1>2 DEF DeclarationType
<1>4. StageInv'
  BY <1>1, <1>3 DEF IInv, StageInv
<1>5. ScopeInv'
  BY <1>1, <1>3 DEF IInv, ScopeInv, NamesDistinct
<1> QED
  BY <1>1, <1>3, <1>4, <1>5, QuietStep DEF IInv, TypeOK, Open

\* The equals sign of a member.
LEMMA MemberEqualStep ==
  ASSUME IInv, MemberEqual
  PROVE  IInv'
<1>1. /\ pc = "memberNext" /\ pc' = "memberNumber" /\ decl' = decl
      /\ UNCHANGED <<body, registries>>
      /\ variables' = variables /\ line' = line /\ thrown' = thrown
  BY DEF MemberEqual, Stay
<1>2. StageInv'
  BY <1>1 DEF IInv, StageInv
<1>3. ScopeInv'
  BY <1>1 DEF IInv, ScopeInv, NamesDistinct
<1> QED
  BY <1>1, <1>2, <1>3, QuietStep DEF IInv, TypeOK, Open

\* A member that is new in its scope is added to the enum.
LEMMA AddMemberStep ==
  ASSUME IInv, pc \in MemberStates, NEW m \in MemberRecord,
         m.name = decl.member, ~VariablesTest(decl.member),
         pc' \in {"member", "memberSep"},
         decl' = [decl EXCEPT !.members = Append(decl.members, m)],
         variables' = variables \cup {decl.member},
         line' = line, UNCHANGED <<body, registries>>, thrown' = thrown
  PROVE  IInv'
<1> DEFINE ms == decl.members
<1>1. /\ decl \in DeclarationType /\ decl.name \in Names /\ decl.member \in Names
      /\ line = NoLine /\ variables \subseteq Names
  BY DEF IInv, TypeOK, StageInv
<1>2. MembersType = Seq(MemberRecord)
  BY DEF MembersType, MemberRecord
<1>3. ms \in Seq(MemberRecord) /\ Len(ms) \in Nat
  BY <1>1, <1>2 DEF DeclarationType
<1>4. /\ Append(ms, m) \in Seq(MemberRecord) /\ Len(Append(ms, m)) = Len(ms) + 1
      /\ Append(ms, m)[Len(ms) + 1] = m
      /\ \A k \in 1..Len(ms) : Append(ms, m)[k] = ms[k]
  BY <1>3
<1> DEFINE next == Append(ms, m)
<1>5. decl' = [decl EXCEPT !.members = next]
  OBVIOUS
<1>6. NamesDistinct(ms) /\ \A k \in 1..Len(ms) : ms[k].name \in variables
  BY DEF IInv, ScopeInv
<1> HIDE DEF ms, next
<1>7. /\ decl' \in DeclarationType /\ decl'.name = decl.name
      /\ decl'.member = decl.member /\ decl'.members = next
  BY <1>1, <1>2, <1>4, <1>5 DEF DeclarationType, next
<1>8. StageInv'
  BY <1>1, <1>7 DEF StageInv
<1>9. ScopeInv'
  <2>1. \A k \in 1..Len(next) : next[k].name \in variables'
    BY <1>3, <1>4, <1>6 DEF next
  <2>2. NamesDistinct(next)
    BY <1>3, <1>4, <1>6 DEF next, NamesDistinct, VariablesTest
  <2> QED
    BY <1>7, <2>1, <2>2 DEF ScopeInv, NamesDistinct
<1>10. variables' \subseteq Names
  BY <1>1
<1> QED
  BY <1>7, <1>8, <1>9, <1>10, QuietStep DEF IInv, TypeOK, Open

\* The number of a member, accepted or refused.
LEMMA MemberNumberStep ==
  ASSUME IInv, NEW v \in EnumNumbers, MemberNumber(v)
  PROVE  IInv'
<1>1. pc = "memberNumber" /\ Open /\ decl.member \in Names
  BY DEF MemberNumber, Open, IInv, StageInv
<1>2. CASE VariablesTest(decl.member)
  BY <1>1, <1>2, UnwindToBodyStep DEF MemberNumber
<1>3. CASE ~VariablesTest(decl.member)
  <2> DEFINE m == Member(decl.member, TRUE, v)
  <2>1. v \in Int
    BY NamesAssumption
  <2>2. m \in MemberRecord /\ m.name = decl.member
    BY <1>1, <2>1 DEF Member, MemberRecord
  <2>3. /\ pc' = "memberSep"
        /\ decl' = [decl EXCEPT !.members = Append(decl.members, m)]
        /\ variables' = variables \cup {decl.member}
        /\ line' = line /\ UNCHANGED <<body, registries>> /\ thrown' = thrown
    BY <1>3 DEF MemberNumber, Stay
  <2> HIDE DEF m
  <2> QED
    BY <1>1, <1>3, <2>2, <2>3, AddMemberStep
<1> QED
  BY <1>2, <1>3

\* The comma after a member.
LEMMA MemberCommaStep ==
  ASSUME IInv, MemberComma
  PROVE  IInv'
<1>1. pc \in {"memberNext", "memberSep"} /\ Open /\ decl.member \in Names
  BY DEF MemberComma, Open, IInv, StageInv
<1>2. CASE DuplicateMember
  BY <1>1, <1>2, UnwindToBodyStep DEF MemberComma
<1>3. CASE ~DuplicateMember
  <2>1. /\ pc' = "member" /\ decl' = [decl EXCEPT !.members = Members]
        /\ variables' = variables \cup {decl.member}
        /\ line' = line /\ UNCHANGED <<body, registries>> /\ thrown' = thrown
    BY <1>3 DEF MemberComma, Stay
  <2>2. CASE pc = "memberNext"
    <3> DEFINE m == Member(decl.member, FALSE, 0)
    <3>1. m \in MemberRecord /\ m.name = decl.member
      BY <1>1 DEF Member, MemberRecord
    <3>2. decl' = [decl EXCEPT !.members = Append(decl.members, m)]
      BY <2>1, <2>2 DEF Members
    <3>3. ~VariablesTest(decl.member)
      BY <1>3, <2>2 DEF DuplicateMember
    <3> HIDE DEF m
    <3> QED
      BY <1>1, <2>1, <3>1, <3>2, <3>3, AddMemberStep
  <2>3. CASE pc = "memberSep"
    <3>1. decl \in DeclarationType /\ variables' \subseteq Names
      BY <1>1, <2>1 DEF IInv, TypeOK
    <3>2. decl' = decl
      BY <2>1, <2>3, <3>1 DEF Members, DeclarationType
    <3>3. StageInv'
      BY <2>1, <2>3, <3>2 DEF IInv, StageInv
    <3>4. ScopeInv'
      BY <2>1, <2>3, <3>2 DEF IInv, ScopeInv, NamesDistinct
    <3> QED
      BY <1>1, <2>1, <3>1, <3>2, <3>3, <3>4, QuietStep DEF IInv, TypeOK
  <2> QED
    BY <1>1, <2>2, <2>3
<1> QED
  BY <1>2, <1>3

\* The brace that closes an enum: its values are arranged.
LEMMA EnumEndStep ==
  ASSUME IInv, EnumEnd
  PROVE  IInv'
<1>1. /\ pc \in {"memberNext", "memberSep"} /\ Open /\ TypeOK
      /\ decl.member \in Names /\ decl.name \in Names
  BY DEF EnumEnd, Open, IInv, StageInv
<1>2. ASSUME NEW t, UnwindToBody(t) PROVE IInv'
  BY <1>1, <1>2, UnwindToBodyStep
<1>3. CASE /\ ~DuplicateMember /\ decl.bt \in IntegerTypes
           /\ ~IdentifierTest(decl.name) /\ EnumAccepted(Members, decl.bt)
  <2>1. AddNode(EnumNode) /\ msgIndex' = msgIndex
    BY <1>3 DEF EnumEnd
  <2> DEFINE n == Len(Members)
  <2>2. /\ EnumNode \in NodeType /\ EnumNode.name = decl.name
        /\ EnumNode.kind = "enum" /\ EnumNode.fields = <<>>
        /\ EnumNode.bt = decl.bt /\ Len(EnumNode.members) = n
        /\ \A k \in 1..n : EnumNode.members[k].name = Members[k].name
    BY <1>1, <1>3, EnumNodeIsNode
  <2>3. NamesDistinct(Members)
    <3> DEFINE ms == decl.members
               m == Member(decl.member, FALSE, 0)
    <3>1. NamesDistinct(ms) /\ \A k \in 1..Len(ms) : ms[k].name \in variables
      BY <1>1 DEF IInv, ScopeInv
    <3>2. CASE pc = "memberSep"
      BY <3>1, <3>2 DEF Members
    <3>3. CASE pc = "memberNext"
      <4>1. Members = Append(ms, m) /\ m.name = decl.member
        BY <3>3 DEF Members, Member
      <4>2. decl.member \notin variables
        BY <1>3, <3>3 DEF DuplicateMember, VariablesTest
      <4>3. ms \in Seq(MemberRecord) /\ Len(ms) \in Nat
        BY <1>1 DEF TypeOK, DeclarationType, MembersType, MemberRecord
      <4> HIDE DEF ms, m
      <4>4. /\ Len(Append(ms, m)) = Len(ms) + 1
            /\ Append(ms, m)[Len(ms) + 1] = m
            /\ \A k \in 1..Len(ms) : Append(ms, m)[k] = ms[k]
        BY <4>3
      <4> QED
        BY <3>1, <4>1, <4>2, <4>3, <4>4 DEF NamesDistinct
    <3> QED
      BY <1>1, <3>2, <3>3
  <2>4. NamesDistinct(EnumNode.members)
    BY <2>2, <2>3 DEF NamesDistinct
  <2>5. /\ NamesDistinct(EnumNode.fields)
        /\ \A f \in 1..Len(EnumNode.fields) : Resolved(EnumNode.fields[f].type)
    BY <2>2 DEF NamesDistinct
  <2>6. LET m == EnumNode.members
        IN  /\ \A i \in 1..Len(m) : m[i].value \in MinOf[decl.bt]..MaxOf[decl.bt]
            /\ \A i, j \in 1..Len(m) : i # j => m[i].value # m[j].value
    BY <1>1, <1>3, EnumNodeSound
  <2>7. EnumNode.bt \in BasicTypes
    BY <1>3, <2>2 DEF BasicTypes
  <2> QED
    BY <1>1, <1>3, <2>1, <2>2, <2>4, <2>5, <2>6, <2>7, AddNodeStep
<1> QED
  BY <1>2, <1>3 DEF EnumEnd
-----------------------------------------------------------------------------
(* The steps of field lines *)

\* Within a line only the array, the names and the padding change.
LEMMA FieldTypeStep ==
  ASSUME IInv, NEW t, FieldType(t)
  PROVE  IInv'
<1>1. pc = "fields" /\ Open /\ TypeOK
  BY DEF FieldType, Open, IInv
<1>2. CASE ~VariableTypeOK(t)
  <2>1. UnwindToFields(None) /\ pc \in FieldStates
    BY <1>1, <1>2 DEF FieldType
  <2> QED
    BY <2>1, UnwindToFieldsStep
<1>3. CASE VariableTypeOK(t)
  <2>1. /\ pc' = "array" /\ line' = [NoLine EXCEPT !.type = Analyse(t)]
        /\ UNCHANGED <<body, registries>>
        /\ variables' = variables /\ decl' = decl /\ thrown' = thrown
    BY <1>3 DEF FieldType, Stay
  <2>2. Analyse(t) \in VariableType /\ Analyse(t).type = t
    BY <1>1, <1>3, AnalyseType DEF Analyse
  <2>3. Resolved(Analyse(t))
    BY <1>3, <2>2 DEF Resolved
  <2> DEFINE type == Analyse(t)
  <2> HIDE DEF type
  <2>4. /\ line' \in LineType /\ line'.type = type /\ line'.names = <<>>
        /\ type \in VariableType /\ Resolved(type)
    BY <2>1, <2>2, <2>3, DefaultsType DEF NoLine, LineType, type
  <2>5. Resolved(line.type)'
    <3>1. VariableTypeOK(t)' /\ Analyse(t)' = Analyse(t)
      BY <1>3, <2>1 DEF VariableTypeOK, Analyse, IdentifierTest, IdentifierGet,
                        registries
    <3>2. line'.type = Analyse(t) /\ line'.type.type = t
      BY <2>2, <2>4 DEF type
    <3> QED
      BY <3>1, <3>2 DEF Resolved
  <2>6. \A f \in 1..Len(decl.fields) : Resolved(decl.fields[f].type)'
    BY <1>1, <2>1, ResolvedQuiet DEF IInv, StageInv
  <2>7. StageInv'
    BY <1>1, <2>1, <2>4, <2>5, <2>6 DEF IInv, StageInv
  <2>8. ScopeInv'
    BY <1>1, <2>1, <2>4 DEF IInv, ScopeInv, NamesDistinct
  <2> QED
    BY <1>1, <2>1, <2>4, <2>7, <2>8, QuietStep DEF TypeOK
<1> QED
  BY <1>2, <1>3

\* A line goes on: its type stays, its names are known to the scope.
LEMMA LineStep ==
  ASSUME IInv, pc \in LineStates, pc' \in LineStates,
         line' \in LineType, line'.type = line.type, decl' = decl,
         UNCHANGED <<body, registries>>, thrown' = thrown,
         variables' \subseteq Names, ScopeInv'
  PROVE  IInv'
<1>1. /\ line.type \in VariableType /\ Resolved(line.type)
      /\ \A f \in 1..Len(decl.fields) : Resolved(decl.fields[f].type)
      /\ decl.name \in Names
  BY DEF IInv, StageInv
<1>2. Resolved(line.type)'
  BY <1>1 DEF Resolved, VariableTypeOK, Analyse, IdentifierTest, IdentifierGet,
              registries
<1>3. \A f \in 1..Len(decl.fields) : Resolved(decl.fields[f].type)'
  BY <1>1, ResolvedQuiet
<1>4. StageInv'
  BY <1>1, <1>2, <1>3 DEF StageInv
<1> QED
  BY <1>4, QuietStep DEF IInv, TypeOK, Open

\* A line is given its array size.
LEMMA SetArrayStep ==
  ASSUME IInv, NEW ok, NEW array, ok => array \in ArrayType, SetArray(ok, array)
  PROVE  IInv'
<1>1. pc = "array" /\ line \in LineType
  BY DEF SetArray, IInv, TypeOK
<1>2. CASE ~(ok /\ ~line.array.is_array)
  <2>1. UnwindToFields(None) /\ pc \in FieldStates
    BY <1>1, <1>2 DEF SetArray
  <2> QED
    BY <2>1, UnwindToFieldsStep
<1>3. CASE ok /\ ~line.array.is_array
  <2>1. /\ pc' = pc /\ line' = [line EXCEPT !.array = array]
        /\ UNCHANGED <<body, registries>>
        /\ variables' = variables /\ decl' = decl /\ thrown' = thrown
    BY <1>3 DEF SetArray, Stay
  <2>2. line' \in LineType /\ line'.type = line.type /\ line'.names = line.names
    BY <1>1, <1>3, <2>1 DEF LineType
  <2>3. ScopeInv'
    BY <1>1, <2>1, <2>2 DEF IInv, ScopeInv, NamesDistinct
  <2>4. variables' \subseteq Names
    BY <2>1 DEF IInv, TypeOK
  <2> QED
    BY <1>1, <2>1, <2>2, <2>3, <2>4, LineStep
<1> QED
  BY <1>2, <1>3

\* An array size after the type of a line.
LEMMA ArrayStep ==
  ASSUME IInv, FieldList \/ \E n \in TupleNumbers : FieldTuple(n)
  PROVE  IInv'
<1>1. CASE FieldList
  <2>1. ListArray \in ArrayType
    BY DEF ArrayType
  <2> QED
    BY <1>1, <2>1, SetArrayStep DEF FieldList
<1>2. ASSUME NEW n \in TupleNumbers, FieldTuple(n) PROVE IInv'
  <2>1. n \in Int
    BY NamesAssumption
  <2>2. IsOffsetNumber(n) => TupleArray(n) \in ArrayType
    BY <2>1, OffsetNumberType DEF ArrayType
  <2> QED
    BY <1>2, <2>2, SetArrayStep DEF FieldTuple
<1> QED
  BY <1>1, <1>2

\* The name of a field, registered or refused.
LEMMA FieldNameStep ==
  ASSUME IInv, NEW n \in Names, FieldName(n)
  PROVE  IInv'
<1>1. pc \in {"array", "declarator"} /\ line \in LineType /\ variables \subseteq Names
  BY DEF FieldName, IInv, TypeOK
<1>2. CASE VariablesTest(n)
  <2>1. UnwindToFields(None) /\ pc \in FieldStates
    BY <1>1, <1>2 DEF FieldName
  <2> QED
    BY <2>1, UnwindToFieldsStep
<1>3. CASE ~VariablesTest(n)
  <2> DEFINE ns == line.names
             next == Append(line.names, n)
  <2>1. /\ pc' = "declNext" /\ line' = [line EXCEPT !.names = next]
        /\ variables' = variables \cup {n}
        /\ UNCHANGED <<body, registries>> /\ decl' = decl /\ thrown' = thrown
    BY <1>3 DEF FieldName, Stay
  <2>2. ns \in Seq(Names) /\ Len(ns) \in Nat
    BY <1>1 DEF LineType
  <2>3. /\ next \in Seq(Names) /\ Len(next) = Len(ns) + 1 /\ next[Len(ns) + 1] = n
        /\ \A k \in 1..Len(ns) : next[k] = ns[k]
    BY <2>2
  <2>4. /\ NamesDistinct(decl.fields)
        /\ \A k \in 1..Len(decl.fields) : decl.fields[k].name \in variables
        /\ \A k \in 1..Len(ns) : ns[k] \in variables
        /\ \A j, k \in 1..Len(ns) : j # k => ns[j] # ns[k]
        /\ \A j \in 1..Len(decl.fields), k \in 1..Len(ns) :
             decl.fields[j].name # ns[k]
    BY <1>1 DEF IInv, ScopeInv
  <2>5. n \notin variables
    BY <1>3 DEF VariablesTest
  <2> HIDE DEF ns, next
  <2>6. line' \in LineType /\ line'.type = line.type /\ line'.names = next
    BY <1>1, <2>1, <2>3 DEF LineType
  <2>7. \A k \in 1..Len(next) : next[k] \in variables'
    BY <2>1, <2>2, <2>3, <2>4
  <2>8. \A j, k \in 1..Len(next) : j # k => next[j] # next[k]
    BY <2>2, <2>3, <2>4, <2>5
  <2>9. \A j \in 1..Len(decl.fields), k \in 1..Len(next) :
          decl.fields[j].name # next[k]
    BY <2>2, <2>3, <2>4, <2>5
  <2>10. ScopeInv'
    BY <2>1, <2>4, <2>6, <2>7, <2>8, <2>9 DEF ScopeInv, NamesDistinct
  <2>11. variables' \subseteq Names
    BY <1>1, <2>1
  <2> QED
    BY <1>1, <2>1, <2>6, <2>10, <2>11, LineStep
<1> QED
  BY <1>2, <1>3

\* The comma between two names of a line.
LEMMA FieldCommaStep ==
  ASSUME IInv, FieldComma
  PROVE  IInv'
<1>1. /\ pc = "declNext" /\ pc' = "declarator" /\ line' = line /\ decl' = decl
      /\ variables' = variables /\ UNCHANGED <<body, registries>>
      /\ thrown' = thrown
  BY DEF FieldComma, Stay
<1>2. ScopeInv'
  BY <1>1 DEF IInv, ScopeInv, NamesDistinct
<1> QED
  BY <1>1, <1>2, LineStep DEF IInv, TypeOK

\* The alignment clause of a line.
LEMMA FieldAlignStep ==
  ASSUME IInv, NEW n \in AlignNumbers, FieldAlign(n)
  PROVE  IInv'
<1>1. pc = "declNext" /\ line \in LineType /\ n \in Int
  BY NamesAssumption DEF FieldAlign, IInv, TypeOK
<1>2. CASE ~IsOffsetNumber(n)
  <2>1. UnwindToFields(None) /\ pc \in FieldStates
    BY <1>1, <1>2 DEF FieldAlign
  <2> QED
    BY <2>1, UnwindToFieldsStep
<1>3. CASE IsOffsetNumber(n)
  <2>1. /\ pc' = "fieldSemi"
        /\ line' = [line EXCEPT !.align = [use_align |-> TRUE, padding_size |-> n]]
        /\ UNCHANGED <<body, registries>>
        /\ variables' = variables /\ decl' = decl /\ thrown' = thrown
    BY <1>3 DEF FieldAlign, Stay
  <2>2. [use_align |-> TRUE, padding_size |-> n] \in AlignType
    BY <1>1, <1>3, OffsetNumberType DEF AlignType
  <2>3. line' \in LineType /\ line'.type = line.type /\ line'.names = line.names
    BY <1>1, <2>1, <2>2 DEF LineType
  <2>4. ScopeInv'
    BY <1>1, <2>1, <2>3 DEF IInv, ScopeInv, NamesDistinct
  <2>5. variables' \subseteq Names
    BY <2>1 DEF IInv, TypeOK
  <2> QED
    BY <1>1, <2>1, <2>3, <2>4, <2>5, LineStep
<1> QED
  BY <1>2, <1>3

\* Two lists one after the other: the first keeps its places.
LEMMA Concatenation ==
  ASSUME NEW S, NEW s \in Seq(S), NEW t \in Seq(S)
  PROVE  /\ s \o t \in Seq(S) /\ Len(s \o t) = Len(s) + Len(t)
         /\ \A k \in 1..Len(s) : (s \o t)[k] = s[k]
         /\ \A k \in 1..Len(t) : (s \o t)[Len(s) + k] = t[k]
<1>1. s \o t \in Seq(S) /\ Len(s \o t) = Len(s) + Len(t)
  OBVIOUS
<1>2. \A k \in 1..Len(s) : (s \o t)[k] = s[k]
  OBVIOUS
<1>3. \A k \in 1..Len(t) : (s \o t)[Len(s) + k] = t[k]
  OBVIOUS
<1> QED
  BY <1>1, <1>2, <1>3

\* The fields of a line are added to the struct or msg.
LEMMA FieldEndStep ==
  ASSUME IInv, FieldEnd
  PROVE  IInv'
<1>1. /\ pc \in {"declNext", "fieldSemi"} /\ pc' = "fields" /\ line' = NoLine
      /\ decl' = [decl EXCEPT !.fields = decl.fields \o LineFields]
      /\ UNCHANGED <<body, registries>>
      /\ variables' = variables /\ thrown' = thrown
  BY DEF FieldEnd, Stay
<1>2. /\ decl \in DeclarationType /\ line \in LineType /\ decl.name \in Names
      /\ line.type \in VariableType /\ Resolved(line.type)
      /\ \A f \in 1..Len(decl.fields) : Resolved(decl.fields[f].type)
      /\ variables \subseteq Names
  BY <1>1 DEF IInv, TypeOK, StageInv
<1> DEFINE old == decl.fields
           new == LineFields
           all == old \o new
           p   == Len(old)
           q   == Len(line.names)
<1>3. old \in Seq(FieldRecord) /\ Len(old) = p /\ p \in Nat /\ \A k \in 1..p : old[k] \in FieldRecord
  BY <1>2, FieldsAreRecords DEF DeclarationType
<1>4. /\ q \in Nat /\ line.array \in ArrayType /\ line.align \in AlignType
      /\ \A k \in 1..q : line.names[k] \in Names
  BY <1>2 DEF LineType
<1>5. \A k \in 1..q : [name |-> line.names[k], type |-> line.type,
                       array |-> line.array, align |-> line.align] \in FieldRecord
  BY <1>2, <1>4 DEF FieldRecord
<1>6. /\ new \in Seq(FieldRecord) /\ Len(new) = q
      /\ \A k \in 1..q : /\ new[k].name = line.names[k] /\ new[k].type = line.type
  BY <1>4, <1>5 DEF LineFields
<1> HIDE DEF new
<1>7. /\ all \in Seq(FieldRecord) /\ Len(all) = p + q
      /\ \A k \in 1..p : all[k] = old[k]
      /\ \A k \in 1..q : all[p + k] = new[k]
  <2>1. Len(old) = p /\ Len(new) = q
    BY <1>3, <1>6
  <2>3. old \in Seq(FieldRecord) /\ new \in Seq(FieldRecord)
    BY <1>3, <1>6
  <2> HIDE DEF old, p, q, all, FieldRecord
  <2>2. /\ old \o new \in Seq(FieldRecord) /\ Len(old \o new) = Len(old) + Len(new)
        /\ \A k \in 1..Len(old) : (old \o new)[k] = old[k]
        /\ \A k \in 1..Len(new) : (old \o new)[Len(old) + k] = new[k]
    BY <2>3, Concatenation
  <2> QED
    BY <2>1, <2>2 DEF all
<1>8. decl' = [decl EXCEPT !.fields = all]
  BY <1>1 DEF new
<1>9. /\ NamesDistinct(old) /\ \A k \in 1..p : old[k].name \in variables
      /\ \A k \in 1..q : line.names[k] \in variables
      /\ \A j, k \in 1..q : j # k => line.names[j] # line.names[k]
      /\ \A j \in 1..p, k \in 1..q : old[j].name # line.names[k]
  BY <1>1 DEF IInv, ScopeInv
<1>10. FieldsType = Seq(FieldRecord)
  BY DEF FieldsType, FieldRecord
<1>11. \A k \in 1..p : Resolved(old[k].type)
  BY <1>2
<1> HIDE DEF old, all, p, q
<1>12. /\ decl' \in DeclarationType /\ decl'.name = decl.name /\ decl'.fields = all
  BY <1>2, <1>7, <1>8, <1>10 DEF DeclarationType
<1>13. ASSUME NEW k \in 1..(p + q)
       PROVE  \/ k \in 1..p /\ all[k] = old[k]
              \/ \E m \in 1..q : k = p + m /\ all[k].name = line.names[m]
                                 /\ all[k].type = line.type
  <2>1. CASE k <= p
    BY <1>3, <1>7, <2>1
  <2>2. CASE k > p
    <3>1. k - p \in 1..q /\ k = p + (k - p)
      BY <1>3, <1>4, <2>2
    <3>2. all[k] = new[k - p]
      BY <1>7, <3>1
    <3> QED
      BY <1>6, <3>1, <3>2
  <2> QED
    BY <1>3, <1>4, <2>1, <2>2
<1>14. \A k \in 1..Len(all) : all[k].name \in variables /\ Resolved(all[k].type)
  BY <1>2, <1>7, <1>9, <1>11, <1>13
<1>15. NamesDistinct(all)
  <2> SUFFICES ASSUME NEW j \in 1..(p + q), NEW k \in 1..(p + q), j # k
               PROVE  all[j].name # all[k].name
    BY <1>7 DEF NamesDistinct
  <2>1. CASE j \in 1..p /\ k \in 1..p
    BY <1>7, <1>9, <2>1 DEF NamesDistinct, p
  <2>2. CASE j \in 1..p /\ k \notin 1..p
    BY <1>7, <1>9, <1>13, <2>2
  <2>3. CASE j \notin 1..p /\ k \in 1..p
    BY <1>7, <1>9, <1>13, <2>3
  <2>4. CASE j \notin 1..p /\ k \notin 1..p
    BY <1>9, <1>13, <2>4
  <2> QED
    BY <2>1, <2>2, <2>3, <2>4
<1>16. NoLine.names = <<>>
  BY DEF NoLine
<1>17. ASSUME NEW k \in 1..Len(all)
       PROVE  Resolved(decl.fields[k].type)'
  <2>1. Resolved(all[k].type) /\ decl'.fields[k].type = all[k].type
    BY <1>12, <1>14
  <2> QED
    BY <1>1, <2>1 DEF Resolved, VariableTypeOK, Analyse, IdentifierTest,
                      IdentifierGet, registries
<1>18. StageInv'
  BY <1>1, <1>2, <1>12, <1>17 DEF StageInv
<1>19. ScopeInv'
  <2>1. \A k \in 1..Len(all) : all[k].name \in variables'
    BY <1>1, <1>14
  <2>2. Len(line'.names) = 0 /\ pc' = "fields" /\ decl'.fields = all
    BY <1>1, <1>12, <1>16
  <2>3. /\ NamesDistinct(decl.fields)'
        /\ \A k \in 1..Len(decl'.fields) : decl'.fields[k].name \in variables'
    BY <1>15, <2>1, <2>2 DEF NamesDistinct
  <2> QED
    BY <2>2, <2>3 DEF ScopeInv
<1> QED
  BY <1>1, <1>2, <1>12, <1>18, <1>19, DefaultsType, QuietStep DEF IInv, TypeOK, Open

\* A struct or a msg is complete.
LEMMA SetupDistinct ==
  ASSUME IInv, Open, pc \in StructBraces
  PROVE  /\ NamesDistinct(SetupFields(decl.fields, decl.modifier))
         /\ \A f \in 1..Len(SetupFields(decl.fields, decl.modifier)) :
              Resolved(SetupFields(decl.fields, decl.modifier)[f].type)
<1>1. /\ decl.fields \in FieldsType /\ decl.modifier \in ModifierType /\ TypeOK
      /\ \A f \in 1..Len(decl.fields) : Resolved(decl.fields[f].type)
      /\ NamesDistinct(decl.fields)
  BY DEF IInv, TypeOK, DeclarationType, StageInv, ScopeInv
<1> DEFINE s == SetupFields(decl.fields, decl.modifier)
<1>2. /\ Len(s) = Len(decl.fields)
      /\ \A k \in 1..Len(decl.fields) :
           s[k].name = decl.fields[k].name /\ s[k].type = decl.fields[k].type
  BY <1>1, SetupType
<1> HIDE DEF s
<1>3. NamesDistinct(s) /\ \A f \in 1..Len(s) : Resolved(s[f].type)
  BY <1>1, <1>2 DEF NamesDistinct
<1> QED
  BY <1>3 DEF s

\* The brace that closes a struct: its fields are laid out.
LEMMA StructEndStep ==
  ASSUME IInv, StructEnd
  PROVE  IInv'
<1>1. pc = "fields" /\ Open /\ TypeOK
  BY DEF StructEnd, Open, IInv
<1>2. /\ decl.name \in Names
      /\ \A f \in 1..Len(decl.fields) : Resolved(decl.fields[f].type)
  BY <1>1 DEF IInv, StageInv
<1>3. CASE decl.modifier.has_set_reliability \/ IdentifierTest(decl.name)
  BY <1>1, <1>3, UnwindToBodyStep DEF StructEnd
<1>4. CASE ~(decl.modifier.has_set_reliability \/ IdentifierTest(decl.name))
  <2> DEFINE node == StructNode("struct")
  <2>1. AddNode(node) /\ msgIndex' = msgIndex
    BY <1>4 DEF StructEnd
  <2>2. /\ node \in NodeType /\ node.name = decl.name /\ node.kind = "struct"
        /\ node.members = <<>>
        /\ node.fields = SetupFields(decl.fields, decl.modifier)
    BY <1>1, <1>2, StructNodeIsNode DEF Kinds
  <2> HIDE DEF node
  <2>3. /\ NamesDistinct(node.members) /\ NamesDistinct(node.fields)
        /\ \A f \in 1..Len(node.fields) : Resolved(node.fields[f].type)
    BY <1>1, <2>2, SetupDistinct DEF NamesDistinct
  <2> QED
    BY <1>1, <1>4, <2>1, <2>2, <2>3, AddNodeStep
<1> QED
  BY <1>3, <1>4

\* The brace that closes a msg: its fields are laid out.
LEMMA MsgEndStep ==
  ASSUME IInv, MsgEnd
  PROVE  IInv'
<1>1. pc = "fields" /\ Open /\ TypeOK
  BY DEF MsgEnd, Open, IInv
<1>2. /\ decl.name \in Names
      /\ \A f \in 1..Len(decl.fields) : Resolved(decl.fields[f].type)
  BY <1>1 DEF IInv, StageInv
<1>3. CASE IdentifierTest(decl.name)
  BY <1>1, <1>3, UnwindToBodyStep DEF MsgEnd
<1>4. CASE ~IdentifierTest(decl.name)
  <2> DEFINE node == MsgNode
  <2>1. AddNode(node) /\ msgIndex' = msgIndex + 1
    BY <1>4 DEF MsgEnd
  <2>2. /\ node \in NodeType /\ node.name = decl.name /\ node.kind = "msg"
        /\ node.members = <<>> /\ node.index = msgIndex
        /\ node.fields = SetupFields(decl.fields, decl.modifier)
    BY <1>1, <1>2, MsgNodeIsNode
  <2> HIDE DEF node
  <2>3. /\ NamesDistinct(node.members) /\ NamesDistinct(node.fields)
        /\ \A f \in 1..Len(node.fields) : Resolved(node.fields[f].type)
    BY <1>1, <2>2, SetupDistinct DEF NamesDistinct
  <2> QED
    BY <1>1, <1>4, <2>1, <2>2, <2>3, AddNodeStep
<1> QED
  BY <1>3, <1>4
-----------------------------------------------------------------------------
(* The theorems *)

\* Every step of the parser keeps the invariant.
LEMMA NextIInv == IInv /\ [Next]_vars => IInv'
<1> SUFFICES ASSUME IInv, [Next]_vars PROVE IInv'
  OBVIOUS
<1>1. CASE HeadToken \/ VersionNumber \/ HeadEnd
  BY <1>1, HeadStep
<1>2. CASE HeadError \/ SyntaxErrorInDecl \/ SyntaxErrorInFields
  BY <1>2, ErrorStep
<1>3. ASSUME NEW kind \in {"alias", "enum", "struct", "msg"}, Keyword(kind)
      PROVE  IInv'
  BY <1>3, KeywordStep DEF Kinds
<1>4. ASSUME NEW n \in Names, DeclName(n) \/ MemberName(n) \/ FieldName(n)
      PROVE  IInv'
  BY <1>4, DeclNameStep, MemberNameStep, FieldNameStep
<1>5. ASSUME NEW t \in Types, DeclType(t) PROVE IInv'
  BY <1>5, DeclTypeStep
<1>6. CASE LeftBrace \/ AliasEnd \/ MemberEqual \/ MemberComma \/ EnumEnd
  BY <1>6, LeftBraceStep, AliasEndStep, MemberEqualStep, MemberCommaStep,
     EnumEndStep
<1>7. ASSUME NEW v \in EnumNumbers, MemberNumber(v) PROVE IInv'
  BY <1>7, MemberNumberStep
<1>8. ASSUME NEW r \in Reliabilities, Reliability(r) PROVE IInv'
  BY <1>8, ModifierStep, NamesAssumption
<1>9. ASSUME NEW l \in Layouts, FieldLayout(l) PROVE IInv'
  BY <1>9, ModifierStep, NamesAssumption
<1>10. CASE StructEnd \/ MsgEnd
  BY <1>10, StructEndStep, MsgEndStep
<1>11. ASSUME NEW t \in Types \cup Names, FieldType(t) PROVE IInv'
  BY <1>11, FieldTypeStep
<1>12. CASE FieldList \/ \E n \in TupleNumbers : FieldTuple(n)
  BY <1>12, ArrayStep
<1>13. CASE FieldComma \/ FieldEnd
  BY <1>13, FieldCommaStep, FieldEndStep
<1>14. ASSUME NEW n \in AlignNumbers, FieldAlign(n) PROVE IInv'
  BY <1>14, FieldAlignStep
<1>15. CASE BodyRecovery \/ FieldsRecovery \/ LexError \/ EndOfFile
  BY <1>15, BodyRecoveryStep, FieldsRecoveryStep, LexErrorStep, EndOfFileStep
<1>16. CASE UNCHANGED vars
  <2>1. /\ pc' = pc /\ decl' = decl /\ line' = line /\ variables' = variables
        /\ thrown' = thrown /\ UNCHANGED <<body, registries>>
    BY <1>16 DEF vars, registries
  <2>2. StageInv'
    BY <2>1, ResolvedQuiet DEF IInv, StageInv
  <2>3. ScopeInv'
    BY <2>1 DEF IInv, ScopeInv, NamesDistinct
  <2>4. TypeOK'
    BY <2>1 DEF IInv, TypeOK, registries
  <2>5. BodyInv'
    <3>1. CASE Open
      BY <2>1, <3>1, BodyInvQuiet DEF IInv
    <3>2. CASE ~Open
      <4>1. ~Open' /\ body' = body
        BY <2>1, <3>2 DEF Open
      <4> QED
        BY <4>1 DEF IInv, BodyInv, BasesTyped, RegistryMatchesBody, MsgIndexDense, IsMsg,
           DefinedBeforeUse, BodyResolved, EntriesDistinct, NamesDistinct,
           EnumValuesSound, EnumNodes
    <3> QED
      BY <3>1, <3>2
  <2> QED
    BY <2>2, <2>3, <2>4, <2>5 DEF IInv
<1> QED
  BY <1>1, <1>2, <1>3, <1>4, <1>5, <1>6, <1>7, <1>8, <1>9, <1>10, <1>11, <1>12,
     <1>13, <1>14, <1>15, <1>16 DEF Next

\* Whatever the file holds and wherever it goes wrong, the registries, the
\* stack and the document of the parser fit together after every token.
THEOREM Invariance == Spec => []IInv
<1>1. Init => IInv
  BY InitIInv
<1>2. IInv /\ [Next]_vars => IInv'
  BY NextIInv
<1> QED
  BY <1>1, <1>2, PTL DEF Spec

\* Every semantic value the parser builds is well formed, whatever the file
\* says and wherever it breaks off, the sizes of all layouts included.
THEOREM TypeCorrect == Spec => []TypeOK
BY Invariance, PTL DEF IInv

\* hashtable_identifier and the document agree on every declaration accepted
\* so far, through every error and its recovery.
THEOREM RegistryMatchesBodyHolds == Spec => []RegistryMatchesBody
BY Invariance, PTL DEF IInv, BodyInv

\* The indices bpcsmtv_registery_identifier_distribute_index hands out are
\* dense, and increase from top to bottom.
THEOREM MsgIndexDenseHolds == Spec => []MsgIndexDense
BY Invariance, PTL DEF IInv, BodyInv

\* Every custom type a field refers to is declared above it and is no msg.
THEOREM DefinedBeforeUseHolds == Spec => []DefinedBeforeUse
BY Invariance, PTL DEF IInv, BodyInv

\* No two entries of one declaration have the same name.
THEOREM EntriesDistinctHolds == Spec => []EntriesDistinct
BY Invariance, PTL DEF IInv, BodyInv

\* The members of every enum in the document have distinct values that fit.
THEOREM EnumValuesSoundHolds == Spec => []EnumValuesSound
BY Invariance, PTL DEF IInv, BodyInv

\* hashtable_variables is empty whenever a declaration begins.
THEOREM ScopeStartsEmptyHolds == Spec => []ScopeStartsEmpty
<1>1. IInv => ScopeStartsEmpty
  BY DEF IInv, StageInv, ScopeStartsEmpty
<1> QED
  BY <1>1, Invariance, PTL

\* What bpcsmtv_analyse_underlaying_type said of a field's type when the field
\* was read is what it would say when the code is generated.
THEOREM ResolvedTypesFreshHolds == Spec => []ResolvedTypesFresh
<1>1. IInv => ResolvedTypesFresh
  <2> SUFFICES ASSUME IInv, Open, NEW k \in 1..Len(body),
                      NEW f \in 1..Len(body[k].fields)
               PROVE  LET type  == body[k].fields[f].type
                          entry == IdentifierGet(type.type)
                      IN  /\ type.full = IF type.type \in BasicTypes THEN type.type
                                         ELSE IF entry.kind = "struct" THEN None
                                         ELSE entry.bt
                          /\ type.semi # None <=> /\ type.type \notin BasicTypes
                                                  /\ entry.kind \in {"enum", "struct"}
                          /\ type.semi = None => type.full # None
    BY DEF ResolvedTypesFresh
  <2> DEFINE type  == body[k].fields[f].type
             entry == IdentifierGet(type.type)
  <2>1. type \in VariableType
    <3>1. body[k] \in NodeType
      BY DEF IInv, TypeOK
    <3>2. body[k].fields \in FieldsType
      BY <3>1 DEF NodeType
    <3>3. body[k].fields[f] \in FieldRecord
      BY <3>2, FieldsAreRecords
    <3> QED
      BY <3>3 DEF FieldRecord
  <2>2. Resolved(type)
    BY <2>1 DEF IInv, BodyInv, BodyResolved, BodyTypes
  <2>3. CASE type.type \in BasicTypes
    BY <2>2, <2>3, NoneFacts DEF Resolved, Analyse
  <2>4. CASE type.type \notin BasicTypes
    <3>1. IdentifierTest(type.type) /\ entry.kind # "msg" /\ TypeOK
      BY <2>2, <2>4 DEF Resolved, VariableTypeOK, IInv
    <3>2. type.type \in Names /\ entry \in NodeType
      BY <3>1, GetType
    <3>3. entry.kind = "alias" => entry.bt \in BasicTypes
      BY <3>1, GetType DEF IInv, BodyInv, BasesTyped, IdentifierGet
    <3>4. entry.kind \in Kinds
      BY <3>2 DEF NodeType
    <3>5. /\ type.full = IF entry.kind = "struct" THEN None ELSE entry.bt
          /\ type.semi = IF entry.kind = "alias" THEN None ELSE type.type
      BY <2>2, <2>4 DEF Resolved, Analyse
    <3> HIDE DEF type, entry
    <3>6. /\ type.semi # None <=> entry.kind \in {"enum", "struct"}
          /\ type.semi = None => type.full # None
      BY <3>1, <3>2, <3>3, <3>4, <3>5, NoneFacts DEF Kinds
    <3> QED
      BY <2>4, <3>5, <3>6 DEF type, entry
  <2> QED
    BY <2>3, <2>4
<1> QED
  BY <1>1, Invariance, PTL

\* What the code generators rely on without looking
\* (bpcgen_write_document, bpc_code_gen.c:26-80).
THEOREM DocumentSoundHolds == Spec => []DocumentSound
<1>1. MsgIndexDense /\ DefinedBeforeUse /\ ResolvedTypesFresh /\ EnumValuesSound
        => DocumentSound
  BY DEF DocumentSound
<1> QED
  BY <1>1, MsgIndexDenseHolds, DefinedBeforeUseHolds, ResolvedTypesFreshHolds,
     EnumValuesSoundHolds, PTL
=============================================================================
