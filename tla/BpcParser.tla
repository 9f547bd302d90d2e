------------------------------ MODULE BpcParser ------------------------------
(***************************************************************************)
(* The Bison parser of a bp file with its semantic actions and registries  *)
(* (compiler.y, bpc_semantic_values.c).                                    *)
(*                                                                         *)
(* One action is the parser's work on one token: the shift and the         *)
(* reductions it allows, with every check and every registry call of their *)
(* semantic actions.  pc names the state of the LALR automaton by what it  *)
(* waits for; decl and line are the semantic values on the parser stack.   *)
(* Tokens come from an arbitrary file: any token may come in any state.    *)
(***************************************************************************)
EXTENDS BpcEnumRules, BpcLayoutRules

CONSTANTS
  Names,           \* texts of name tokens
  Types,           \* basic types the file uses
  CompilerVersion, \* BPCVER_COMPILER_VERSION
  Versions,        \* numbers after "bpc"
  EnumNumbers,     \* numbers after "=" in an enum
  TupleNumbers,    \* numbers in "[n]"
  AlignNumbers,    \* numbers after "#"
  Reliabilities,   \* TRUE for the token "reliable", FALSE for "unreliable"
  Layouts,         \* TRUE for the token "narrow", FALSE for "natural"
  MaxDecls,        \* bound: declarations in the body
  MaxMembers,      \* bound: members of an enum
  MaxFields        \* bound: fields in the body and the open declaration

None == "none"     \* a NULL or unset semantic value

ASSUME NamesAssumption ==
  /\ Names \cap (BasicTypes \cup {None}) = {}
  /\ Types \subseteq BasicTypes
  /\ Reliabilities \subseteq BOOLEAN /\ Layouts \subseteq BOOLEAN
  /\ \A n \in Versions \cup EnumNumbers \cup TupleNumbers \cup AlignNumbers :
       n \in Int /\ ParseNumber(n)
  /\ MaxDecls \in Nat /\ MaxMembers \in Nat /\ MaxFields \in Nat

VARIABLES
  pc,         \* the parser's state
  body,       \* bpc_protocol_body: the declarations accepted so far
  idents,     \* hashtable_identifier: name -> position of its node in body
  variables,  \* hashtable_variables: the entry names of the open scope
  msgIndex,   \* msg_index_distributor
  decl,       \* the declaration being parsed
  line,       \* the field line being parsed
  thrown      \* history: the lexer or the parser has reported an error

vars == <<pc, body, idents, variables, msgIndex, decl, line, thrown>>
registries == <<idents, msgIndex>>
-----------------------------------------------------------------------------
(* States of the automaton, by where an error in them is caught. *)

HeadStates == {"version", "versionNumber", "versionSemi", "versionBad",
               "namespace", "namespaceName", "namespaceNext"}

DeclStates == {"body", "aliasName", "aliasType", "aliasSemi",
               "enumType", "enumName", "enumBrace",
               "member", "memberNext", "memberNumber", "memberSep",
               "modifier", "structName", "structBrace"}

FieldStates == {"fields", "array", "declarator", "declNext", "fieldSemi"}

ErrorStates == {"bodyError", "fieldsError"}

Final == {"accepted", "aborted"}

\* Tokens a state has no use for; "bpc" stands for all but ";" and "}".
Unexpected(s) ==
  {"bpc"} \cup (IF s \in {"aliasSemi", "declNext", "fieldSemi"} THEN {} ELSE {";"})
          \cup (IF s \in {"memberNext", "memberSep", "fields"} THEN {} ELSE {"}"})
-----------------------------------------------------------------------------
(* Semantic values. *)

DefaultModifier == [has_set_reliability |-> FALSE, is_reliable |-> TRUE,
                    has_set_field_layout |-> FALSE, is_narrow |-> TRUE,
                    struct_size |-> 1, struct_unit_size |-> 1]

NoArray == [is_array |-> FALSE, is_static_array |-> FALSE, static_array_len |-> 0]
ListArray == [is_array |-> TRUE, is_static_array |-> FALSE, static_array_len |-> 0]
TupleArray(n) == [is_array |-> TRUE, is_static_array |-> TRUE, static_array_len |-> n]

NoAlign == [use_align |-> FALSE, padding_size |-> 0]

NoDecl == [kind |-> None, name |-> None, bt |-> None, member |-> None,
           members |-> <<>>, modifier |-> DefaultModifier, fields |-> <<>>]

NoType == [type |-> None, full |-> None, semi |-> None]

NoLine == [type |-> NoType, array |-> NoArray, names |-> <<>>, align |-> NoAlign]

Member(name, has, v) == [name |-> name, has_specified_value |-> has,
                         specified_value |-> v]

\* Mutant: a declaration may take a name that is already registered.
NeverRegistered(n) == FALSE

\* bpcsmtv_registery_identifier_test, _get and bpcsmtv_registery_variables_test
IdentifierTest(n) == n \in DOMAIN idents
IdentifierGet(n)  == body[idents[n]]

\* Mutant: the scope's table is never asked.
NeverSeen(n) == FALSE

VariablesTest(n)  == n \in variables

\* Mutant: any registered name will do as the type of a field.
AnyRegistered(t) == t \in BasicTypes \/ IdentifierTest(t)

\* A field's type is a basic type or an alias, enum or struct declared above.
VariableTypeOK(t) ==
  t \in BasicTypes \/ (IdentifierTest(t) /\ IdentifierGet(t).kind # "msg")

\* bpcsmtv_analyse_underlaying_type, kept in the field from here on: the
\* basic type behind an alias or enum (None behind a struct), and the custom
\* type once aliases are resolved (None for a basic type).
Analyse(t) ==
  IF t \in BasicTypes THEN [type |-> t, full |-> t, semi |-> None]
  ELSE LET entry == IdentifierGet(t)
       IN  [type |-> t,
            full |-> IF entry.kind = "struct" THEN None ELSE entry.bt,
            semi |-> IF entry.kind = "alias" THEN None ELSE t]
-----------------------------------------------------------------------------
(* Field layout: what bpcsmtv_setup_field_layout looks up for a field.  A  *)
(* struct is looked up in the registry, a basic type in the tables.        *)

\* Mutant: a struct field does not make its owner narrow.
StructAlwaysFixed(f) ==
  /\ f.array.is_array => f.array.is_static_array
  /\ f.type.full # "string"

IsFixed(f) ==
  /\ f.array.is_array => f.array.is_static_array
  /\ IF f.type.full # None THEN f.type.full # "string"
                           ELSE ~IdentifierGet(f.type.type).modifier.is_narrow

TypeSize(f) ==
  IF f.type.full # None THEN SizeOf(f.type.full)
                        ELSE IdentifierGet(f.type.type).modifier.struct_size

TypeAlign(f) ==
  IF f.type.full # None THEN AlignOf(f.type.full)
                        ELSE IdentifierGet(f.type.type).modifier.struct_unit_size

LayoutView(fields) ==
  [k \in 1..Len(fields) |->
     [fixed |-> IsFixed(fields[k]), size |-> TypeSize(fields[k]),
      align |-> TypeAlign(fields[k]), array |-> fields[k].array,
      pad |-> fields[k].align]]

SetupFields(fields, modifier) ==
  [k \in 1..Len(fields) |->
     [fields[k] EXCEPT !.align = SetupPad(LayoutView(fields), modifier, k)]]
-----------------------------------------------------------------------------
(* Errors and recovery. *)

\* YYABORT, and a syntax error nothing on the stack catches: the values on
\* the stack are destroyed, the registries are left as they are.
Abort ==
  /\ pc' = "aborted" /\ thrown' = TRUE
  /\ body' = <<>> /\ decl' = NoDecl /\ line' = NoLine
  /\ UNCHANGED <<idents, variables, msgIndex>>

\* Mutant: the entries of the lost declaration stay in the scope.
ResumeInOldScope == pc' = "body" /\ UNCHANGED variables

\* The production "body error ;" or "body error }".
Resume == pc' = "body" /\ variables' = {}

\* A syntax error or YYERROR inside a declaration: the declaration is popped.
\* The lookahead, if one was read, is tried at once and discarded unless it
\* is ";" or "}".  (A member reduced just before a syntax error is not added
\* to variables here: nothing reads the table before Resume empties it.)
UnwindToBody(lookahead) ==
  /\ thrown' = TRUE
  /\ decl' = NoDecl /\ line' = NoLine
  /\ IF lookahead \in {";", "}"} THEN Resume
                                 ELSE pc' = "bodyError" /\ UNCHANGED variables
  /\ UNCHANGED <<body, registries>>

\* The same inside the braces of a struct or msg: only the line is popped,
\* and only ";" ends the recovery.  The names of the line stay in variables.
UnwindToFields(lookahead) ==
  /\ thrown' = TRUE
  /\ line' = NoLine
  /\ pc' = IF lookahead = ";" THEN "fields" ELSE "fieldsError"
  /\ UNCHANGED <<body, registries, variables, decl>>

HeadError == pc \in HeadStates /\ Abort

SyntaxErrorInDecl ==
  pc \in DeclStates /\ \E t \in Unexpected(pc) : UnwindToBody(t)

SyntaxErrorInFields ==
  pc \in FieldStates /\ \E t \in Unexpected(pc) : UnwindToFields(t)

\* A token that is neither ";" nor "}" is discarded and changes nothing.
BodyRecovery ==
  /\ pc = "bodyError"
  /\ Resume
  /\ UNCHANGED <<body, registries, decl, line, thrown>>

FieldsRecovery ==
  /\ pc = "fieldsError"
  /\ pc' = "fields"
  /\ UNCHANGED <<body, registries, variables, decl, line, thrown>>

\* A character no rule matches, or a number too long for 64 bits: reported
\* and dropped, and the parser never learns of it.
LexError ==
  /\ pc \notin Final
  /\ thrown' = TRUE
  /\ UNCHANGED <<pc, body, registries, variables, decl, line>>
-----------------------------------------------------------------------------
(* The head: bpc NUM ; namespace NAME (. NAME)* ; *)

HeadMoves == {<<"version", "versionNumber">>, <<"versionSemi", "namespace">>,
              <<"namespace", "namespaceName">>,
              <<"namespaceName", "namespaceNext">>,
              <<"namespaceNext", "namespaceName">>}

HeadToken ==
  /\ \E move \in HeadMoves : pc = move[1] /\ pc' = move[2]
  /\ UNCHANGED <<body, registries, variables, decl, line, thrown>>

\* The version is checked when its ";" is read, which in "versionBad" aborts.
VersionNumber ==
  /\ pc = "versionNumber"
  /\ \E v \in Versions :
       pc' = IF IsOffsetNumber(v) /\ v = CompilerVersion THEN "versionSemi"
                                                        ELSE "versionBad"
  /\ UNCHANGED <<body, registries, variables, decl, line, thrown>>

\* The namespace's ";": the body starts empty.
HeadEnd ==
  /\ pc = "namespaceNext"
  /\ pc' = "body" /\ variables' = {}
  /\ UNCHANGED <<body, registries, decl, line, thrown>>
-----------------------------------------------------------------------------
(* Declarations. *)

Stay == UNCHANGED <<body, registries, thrown>>

\* The production of bpc_protocol_body for a finished declaration.
AddNode(node) ==
  /\ body' = Append(body, node)
  /\ idents' = [n \in DOMAIN idents \cup {node.name} |->
                 IF n = node.name THEN Len(body) + 1 ELSE idents[n]]
  /\ variables' = {}
  /\ pc' = "body" /\ decl' = NoDecl /\ line' = NoLine
  /\ UNCHANGED thrown

Node(kind) == [kind |-> kind, name |-> decl.name, bt |-> decl.bt,
               members |-> <<>>, modifier |-> decl.modifier,
               fields |-> <<>>, index |-> 0]

MoreDecls == Len(body) < MaxDecls

Keyword(kind) ==
  /\ IF kind \in {"alias", "enum"} THEN pc = "body" ELSE pc \in {"body", "modifier"}
  /\ pc = "body" => MoreDecls
  /\ pc' = CASE kind = "alias" -> "aliasName"
              [] kind = "enum"  -> "enumType"
              [] OTHER          -> "structName"
  /\ decl' = [decl EXCEPT !.kind = kind]
  /\ UNCHANGED <<variables, line>> /\ Stay

DeclName(n) ==
  /\ pc \in {"aliasName", "enumName", "structName"}
  /\ pc' = CASE pc = "aliasName" -> "aliasType"
              [] pc = "enumName"  -> "enumBrace"
              [] OTHER            -> "structBrace"
  /\ decl' = [decl EXCEPT !.name = n]
  /\ UNCHANGED <<variables, line>> /\ Stay

DeclType(t) ==
  /\ pc \in {"aliasType", "enumType"}
  /\ pc' = IF pc = "aliasType" THEN "aliasSemi" ELSE "enumName"
  /\ decl' = [decl EXCEPT !.bt = t]
  /\ UNCHANGED <<variables, line>> /\ Stay

LeftBrace ==
  /\ pc \in {"enumBrace", "structBrace"}
  /\ pc' = IF pc = "enumBrace" THEN "member" ELSE "fields"
  /\ UNCHANGED <<variables, decl, line>> /\ Stay

\* The ";" is gone when a duplicate is noticed: what is skipped is the next
\* declaration, up to its first ";" or "}".
AliasEnd ==
  /\ pc = "aliasSemi"
  /\ IF IdentifierTest(decl.name)
       THEN UnwindToBody(None)
       ELSE AddNode(Node("alias")) /\ UNCHANGED msgIndex

MemberName(n) ==
  /\ pc = "member" /\ Len(decl.members) < MaxMembers
  /\ pc' = "memberNext"
  /\ decl' = [decl EXCEPT !.member = n]
  /\ UNCHANGED <<variables, line>> /\ Stay

MemberEqual ==
  /\ pc = "memberNext"
  /\ pc' = "memberNumber"
  /\ UNCHANGED <<variables, decl, line>> /\ Stay

\* A specified value completes its member; the number is judged only when the
\* enum is complete.
MemberNumber(v) ==
  /\ pc = "memberNumber"
  /\ IF VariablesTest(decl.member)
       THEN UnwindToBody(None)
       ELSE /\ pc' = "memberSep"
            /\ decl' = [decl EXCEPT !.members = Append(@, Member(decl.member, TRUE, v))]
            /\ variables' = variables \cup {decl.member}
            /\ UNCHANGED line /\ Stay

\* A member without a value is reduced when the token after it was read.
DuplicateMember == pc = "memberNext" /\ VariablesTest(decl.member)

Members ==
  IF pc = "memberNext" THEN Append(decl.members, Member(decl.member, FALSE, 0))
                       ELSE decl.members

MemberComma ==
  /\ pc \in {"memberNext", "memberSep"}
  /\ IF DuplicateMember
       THEN UnwindToBody(",")
       ELSE /\ pc' = "member"
            /\ decl' = [decl EXCEPT !.members = Members]
            /\ variables' = variables \cup {decl.member}
            /\ UNCHANGED line /\ Stay

EnumNode ==
  [Node("enum") EXCEPT
     !.members = [k \in 1..Len(Members) |->
                    [name |-> Members[k].name,
                     value |-> EnumValues(Members, decl.bt)[k]]]]

EnumEnd ==
  /\ pc \in {"memberNext", "memberSep"}
  /\ IF DuplicateMember
       THEN UnwindToBody("}")
       ELSE IF decl.bt \notin IntegerTypes \/ IdentifierTest(decl.name)
       THEN UnwindToBody(None)
       ELSE IF ~EnumAccepted(Members, decl.bt)
       THEN UnwindToBody(None)
       ELSE AddNode(EnumNode) /\ UNCHANGED msgIndex

\* A modifier token; a second one of the same sort is an error.
SetModifier(already, modifier) ==
  /\ pc \in {"body", "modifier"}
  /\ pc = "body" => MoreDecls
  /\ IF already
       THEN UnwindToBody(None)
       ELSE /\ pc' = "modifier"
            /\ decl' = [decl EXCEPT !.modifier = modifier]
            /\ UNCHANGED <<variables, line>> /\ Stay

Reliability(reliable) ==
  SetModifier(decl.modifier.has_set_reliability,
              [decl.modifier EXCEPT !.has_set_reliability = TRUE,
                                    !.is_reliable = reliable])

FieldLayout(narrow) ==
  SetModifier(decl.modifier.has_set_field_layout,
              [decl.modifier EXCEPT !.has_set_field_layout = TRUE,
                                    !.is_narrow = narrow])

\* A struct or msg whose fields are complete, laid out.
StructNode(kind) ==
  [Node(kind) EXCEPT
     !.modifier = SetupModifier(LayoutView(decl.fields), decl.modifier),
     !.fields = SetupFields(decl.fields, decl.modifier)]

StructEnd ==
  /\ pc = "fields" /\ decl.kind = "struct"
  /\ IF decl.modifier.has_set_reliability \/ IdentifierTest(decl.name)
       THEN UnwindToBody(None)
       ELSE AddNode(StructNode("struct")) /\ UNCHANGED msgIndex

\* A msg with its reliability settled and the next index.
MsgNode ==
  LET node == StructNode("msg")
  IN  [node EXCEPT !.modifier.has_set_reliability = TRUE,
                   !.modifier.is_reliable =
                      node.modifier.has_set_reliability => @,
                   !.index = msgIndex]

\* Mutant: the index is taken before the name is checked.
EagerMsgEnd ==
  /\ pc = "fields" /\ decl.kind = "msg"
  /\ msgIndex' = msgIndex + 1
  /\ IF IdentifierTest(decl.name)
       THEN /\ thrown' = TRUE /\ pc' = "bodyError"
            /\ decl' = NoDecl /\ line' = NoLine
            /\ UNCHANGED <<body, idents, variables>>
       ELSE AddNode(MsgNode)

MsgEnd ==
  /\ pc = "fields" /\ decl.kind = "msg"
  /\ IF IdentifierTest(decl.name)
       THEN UnwindToBody(None)
       ELSE AddNode(MsgNode) /\ msgIndex' = msgIndex + 1
-----------------------------------------------------------------------------
(* Field lines: type, array modifiers, names, padding, ";". *)

FieldsBefore[k \in Nat] ==
  IF k = 0 THEN 0 ELSE FieldsBefore[k - 1] + Len(body[k].fields)

MoreFields ==
  FieldsBefore[Len(body)] + Len(decl.fields) + Len(line.names) < MaxFields

FieldType(t) ==
  /\ pc = "fields" /\ MoreFields
  /\ IF VariableTypeOK(t)
       THEN /\ pc' = "array"
            /\ line' = [NoLine EXCEPT !.type = Analyse(t)]
            /\ UNCHANGED <<variables, decl>> /\ Stay
       ELSE UnwindToFields(None)

SetArray(ok, array) ==
  /\ pc = "array"
  /\ IF ok /\ ~line.array.is_array
       THEN /\ line' = [line EXCEPT !.array = array]
            /\ UNCHANGED <<pc, variables, decl>> /\ Stay
       ELSE UnwindToFields(None)

FieldList     == SetArray(TRUE, ListArray)
FieldTuple(n) == SetArray(IsOffsetNumber(n), TupleArray(n))

\* The name is taken for the rest of the braces, whatever becomes of the line.
FieldName(n) ==
  /\ pc \in {"array", "declarator"}
  /\ IF VariablesTest(n)
       THEN UnwindToFields(None)
       ELSE /\ pc' = "declNext"
            /\ line' = [line EXCEPT !.names = Append(@, n)]
            /\ variables' = variables \cup {n}
            /\ UNCHANGED decl /\ Stay

FieldComma ==
  /\ pc = "declNext" /\ MoreFields
  /\ pc' = "declarator"
  /\ UNCHANGED <<variables, decl, line>> /\ Stay

FieldAlign(n) ==
  /\ pc = "declNext"
  /\ IF IsOffsetNumber(n)
       THEN /\ pc' = "fieldSemi"
            /\ line' = [line EXCEPT !.align = [use_align |-> TRUE, padding_size |-> n]]
            /\ UNCHANGED <<variables, decl>> /\ Stay
       ELSE UnwindToFields(None)

\* One field for each name of the line.
LineFields ==
  [k \in 1..Len(line.names) |->
     [name |-> line.names[k], type |-> line.type,
      array |-> line.array, align |-> line.align]]

FieldEnd ==
  /\ pc \in {"declNext", "fieldSemi"}
  /\ pc' = "fields"
  /\ decl' = [decl EXCEPT !.fields = @ \o LineFields]
  /\ line' = NoLine
  /\ UNCHANGED variables /\ Stay
-----------------------------------------------------------------------------
(* The end of the file. *)

\* bpc_document is complete: the document is written, whatever errors were
\* recovered from on the way, and both registries are emptied.
Accept ==
  /\ pc' = "accepted"
  /\ idents' = <<>> /\ variables' = {} /\ msgIndex' = 0
  /\ UNCHANGED <<body, decl, line, thrown>>

\* Mutant: recovery waits for its token even when there are no more.
EndOfFileOutsideRecovery ==
  /\ pc \notin Final \cup ErrorStates
  /\ IF pc = "body" THEN Accept ELSE Abort

\* The end is a syntax error everywhere but between declarations, and error
\* recovery gives up at it.
EndOfFile ==
  /\ pc \notin Final
  /\ IF pc = "body" THEN Accept ELSE Abort

Init ==
  /\ pc = "version" /\ body = <<>> /\ idents = <<>> /\ variables = {}
  /\ msgIndex = 0 /\ decl = NoDecl /\ line = NoLine /\ thrown = FALSE

Next ==
  \/ HeadToken \/ VersionNumber \/ HeadEnd \/ HeadError
  \/ \E kind \in {"alias", "enum", "struct", "msg"} : Keyword(kind)
  \/ \E n \in Names : DeclName(n) \/ MemberName(n) \/ FieldName(n)
  \/ \E t \in Types : DeclType(t)
  \/ LeftBrace \/ AliasEnd
  \/ MemberEqual \/ MemberComma \/ EnumEnd
  \/ \E v \in EnumNumbers : MemberNumber(v)
  \/ \E r \in Reliabilities : Reliability(r)
  \/ \E l \in Layouts : FieldLayout(l)
  \/ StructEnd \/ MsgEnd
  \/ \E t \in Types \cup Names : FieldType(t)
  \/ FieldList \/ FieldComma \/ FieldEnd
  \/ \E n \in TupleNumbers : FieldTuple(n)
  \/ \E n \in AlignNumbers : FieldAlign(n)
  \/ SyntaxErrorInDecl \/ SyntaxErrorInFields
  \/ BodyRecovery \/ FieldsRecovery \/ LexError
  \/ EndOfFile

\* A file is finite: its end is read at last.
Spec == Init /\ [][Next]_vars /\ WF_vars(EndOfFile)
-----------------------------------------------------------------------------
(* Types *)

Kinds == {"alias", "enum", "struct", "msg"}

U32Values == 0..MaxOf["uint32"]

ModifierType ==
  [has_set_reliability : BOOLEAN, is_reliable : BOOLEAN,
   has_set_field_layout : BOOLEAN, is_narrow : BOOLEAN,
   struct_size : U32Values \ {0}, struct_unit_size : Alignments]

VariableType == [type : BasicTypes \cup Names, full : BasicTypes \cup {None},
                 semi : Names \cup {None}]

ArrayType == {NoArray, ListArray} \cup {TupleArray(n) : n \in U32Values \ {0}}

AlignType == [use_align : BOOLEAN, padding_size : U32Values]

FieldsType == Seq([name : Names, type : VariableType,
                   array : ArrayType, align : AlignType])

MembersType == Seq([name : Names, has_specified_value : BOOLEAN,
                    specified_value : Int])

NodeType == [kind : Kinds, name : Names, bt : BasicTypes \cup {None},
             members : Seq([name : Names, value : Int]),
             modifier : ModifierType, fields : FieldsType, index : Nat]

DeclarationType == [kind : Kinds \cup {None}, name : Names \cup {None},
             bt : BasicTypes \cup {None}, member : Names \cup {None},
             members : MembersType, modifier : ModifierType,
             fields : FieldsType]

LineType == [type : VariableType \cup {NoType}, array : ArrayType,
             names : Seq(Names), align : AlignType]

\* Every semantic value is well formed: a static array has a length, a layout
\* a size and an alignment of the tables, and a registered name its node.
TypeOK ==
  /\ pc \in HeadStates \cup DeclStates \cup FieldStates \cup ErrorStates \cup Final
  /\ body \in Seq(NodeType)
  /\ DOMAIN idents \subseteq Names
  /\ pc \notin Final => \A n \in DOMAIN idents : idents[n] \in 1..Len(body)
  /\ variables \subseteq Names
  /\ msgIndex \in Nat
  /\ decl \in DeclarationType
  /\ line \in LineType
  /\ thrown \in BOOLEAN
-----------------------------------------------------------------------------
(* Safety *)

Open == pc \notin Final

\* The registry and the document agree: every declaration accepted so far has
\* a name of its own, and looking that name up gives that declaration.  All
\* later checks and layouts go through the registry, all generated code
\* through the document.
RegistryMatchesBody ==
  Open => /\ DOMAIN idents = {body[k].name : k \in 1..Len(body)}
          /\ \A k \in 1..Len(body) : idents[body[k].name] = k

IsMsg(k) == body[k].kind = "msg"

\* BpFile.md: the compiler distributes "an unique index for each Msg
\* declarations from top to bottom".  The generated factories index an array
\* with it, so the indices leave no gap either, however many msgs were
\* rejected on the way.
MsgIndexDense ==
  LET msgs == {k \in 1..Len(body) : IsMsg(k)}
  IN  /\ \A j, k \in msgs : j < k => body[j].index < body[k].index
      /\ \A k \in msgs : \A v \in 0..body[k].index :
           \E j \in msgs : body[j].index = v
      /\ Open => /\ \A k \in msgs : body[k].index < msgIndex
                 /\ \A v \in 0..(msgIndex - 1) : \E j \in msgs : body[j].index = v

\* BpFile.md: a custom type is declared before it is used.  The declaration is
\* in the document, above its use, and is not a msg, even when errors threw
\* away declarations in between: generated code declares what it refers to.
DefinedBeforeUse ==
  \A k \in 1..Len(body) : \A f \in 1..Len(body[k].fields) :
    body[k].fields[f].type.type \in Names =>
      \E j \in 1..(k - 1) : /\ body[j].name = body[k].fields[f].type.type
                            /\ body[j].kind # "msg"

\* What was resolved when a field was read is still what its type means: the
\* basic type behind it and the name it shows in generated code.  ("if this
\* flag is true, full_uncover_is_basic_type must be true" is part of it.)
ResolvedTypesFresh ==
  Open =>
    /\ \A k \in 1..Len(body) : \A f \in 1..Len(body[k].fields) :
         LET type == body[k].fields[f].type
             entry == IdentifierGet(type.type)
         IN  /\ type.full = IF type.type \in BasicTypes THEN type.type
                            ELSE IF entry.kind = "struct" THEN None ELSE entry.bt
             /\ type.semi # None <=> /\ type.type \notin BasicTypes
                                     /\ entry.kind \in {"enum", "struct"}
             /\ type.semi = None => type.full # None

NamesDistinct(s) == \A j, k \in 1..Len(s) : j # k => s[j].name # s[k].name

\* BpFile.md: "In the same scope, the name shouldn't be duplicated": neither
\* the members of an enum nor the fields of a struct or msg share a name.
EntriesDistinct ==
  \A k \in 1..Len(body) :
    NamesDistinct(body[k].members) /\ NamesDistinct(body[k].fields)

\* A scope starts empty: outside braces no entry name is left over from the
\* last declaration, accepted or thrown away, so no name is refused for it.
ScopeStartsEmpty ==
  pc \in DeclStates \ {"member", "memberNext", "memberNumber", "memberSep"} =>
    variables = {}

EnumNodes == {k \in 1..Len(body) : body[k].kind = "enum"}

\* The members of every enum have distinct values that fit its basic type.
EnumValuesSound ==
  \A k \in EnumNodes :
    LET m == body[k].members IN
      /\ \A i \in 1..Len(m) : m[i].value \in MinOf[body[k].bt]..MaxOf[body[k].bt]
      /\ \A i, j \in 1..Len(m) : i # j => m[i].value # m[j].value

IsNaturalNode(k) == body[k].kind \in {"struct", "msg"} /\ ~body[k].modifier.is_narrow

\* The conditions of BpFile.md on natural: no list, no string, and every
\* struct inside is natural itself, as the registry knows it now.
NaturalClosed ==
  Open => \A k \in 1..Len(body) : IsNaturalNode(k) =>
    \A f \in 1..Len(body[k].fields) :
      LET field == body[k].fields[f]
      IN  /\ field.array.is_array => field.array.static_array_len > 0
          /\ field.type.full # "string"
          /\ field.type.full = None =>
               ~IdentifierGet(field.type.type).modifier.is_narrow

\* Where the code generators put the fields and the end of a natural struct:
\* they add up sizes and paddings.
Offsets(fields, view) ==
  LET offset[f \in 1..(Len(fields) + 1)] ==
        IF f = 1 THEN 0
        ELSE LET padding == IF fields[f - 1].align.use_align
                              THEN fields[f - 1].align.padding_size ELSE 0
             IN  U32(offset[f - 1] + RealSize(view[f - 1]) + padding)
  IN  offset

\* The paddings written into a natural struct are right for the structs it
\* contains: every field starts at a multiple of its alignment and the end is
\* struct_size.
NaturalAligned ==
  Open => \A k \in 1..Len(body) : IsNaturalNode(k) =>
    LET fields == body[k].fields
        view   == LayoutView(fields)
        offset == Offsets(fields, view)
        end    == offset[Len(fields) + 1]
    IN  /\ \A f \in 1..Len(fields) : offset[f] % view[f].align = 0
        /\ end % body[k].modifier.struct_unit_size = 0
        /\ body[k].modifier.struct_size = IF end = 0 THEN 1 ELSE end

\* A natural struct may be read and written as one block of memory: it holds
\* nothing of a variable size, at any depth, and its members are where a C
\* compiler puts them.
NaturalSound ==
  /\ NaturalClosed
  /\ NaturalAligned

\* What the code generators rely on without looking: the opcodes are 0, 1, ...
\* in order, a type is declared before it is used and resolved to what it
\* still means, and the values of an enum are distinct and in range -
\* whatever was rejected in between.
DocumentSound ==
  /\ MsgIndexDense
  /\ DefinedBeforeUse
  /\ ResolvedTypesFresh
  /\ EnumValuesSound

\* compiler.y, where the document is written: "only generate code when no
\* thrown error".
GenerateOnlyWhenClean == pc = "accepted" => ~thrown
-----------------------------------------------------------------------------
(* The promise to the code generators *)

Uses(fields) == {fields[f].type.type : f \in 1..Len(fields)} \cap Names

Promise ==
  INSTANCE BpcDocument WITH
    Names <- Names,
    defs  <- [k \in 1..Len(body) |->
                [kind |-> body[k].kind, name |-> body[k].name,
                 uses |-> Uses(body[k].fields),
                 natural |-> IsNaturalNode(k),
                 index |-> body[k].index]],
    phase <- CASE pc = "accepted" -> "published"
               [] pc = "aborted"  -> "abandoned"
               [] OTHER           -> "open"

\* The parser keeps the promise of BpcDocument: declarations are only ever
\* appended, a published document is what was accepted and does not change,
\* and every file ends in one of the two outcomes, recovery or not.
KeepsPromise == Promise!Spec
=============================================================================
