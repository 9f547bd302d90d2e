---------------------------- MODULE BpcOwnership ----------------------------
(***************************************************************************)
(* The memory behind BpcParser: every string the lexer copies, every node  *)
(* the semantic actions build, the keys of the two registries, and who     *)
(* owns each of them until a destructor frees it.                          *)
(*                                                                         *)
(* Each action is one of BpcParser with what it does to the parser's stack *)
(* of semantic values.  A value without memory (a number, a keyword) has   *)
(* no entry; a list is the set of what its cells point to.  A name read    *)
(* only to be skipped in a recovery is freed in the same step              *)
(* (compiler.y:110).                                                       *)
(***************************************************************************)
EXTENDS BpcParser, FiniteSets, FiniteSetsExt

CONSTANT MaxChain    \* bound: names of the namespace

ASSUME ChainAssumption == MaxChain \in Nat \ {0}

VARIABLE mem
  \* heap    the live objects: their kind and the objects they point to
  \* stack   yyvs from bottom to top: symbol and the objects the value owns
  \* keys    the keys of hashtable_identifier and hashtable_variables
  \* lost    the objects the last step left with nothing that points to them
  \* dropped the objects YYERROR popped in the last step

allVars == <<pc, body, idents, variables, msgIndex, decl, line, thrown, mem>>

Init1 ==
  /\ Init
  /\ mem = [heap |-> <<>>, stack |-> <<>>,
            keys |-> [idents |-> {}, variables |-> {}],
            lost |-> {}, dropped |-> {}]
-----------------------------------------------------------------------------
(* Objects and the stack. *)

\* The memory as a step finds it.
Now == [mem EXCEPT !.lost = {}, !.dropped = {}]

\* The address the next allocation gets.
Fresh(m) == Min({n \in 1..Cardinality(DOMAIN m.heap) + 1 : n \notin DOMAIN m.heap})

\* g_strdup and the constructors.
Alloc(m, kind, parts) ==
  LET new == Fresh(m)
  IN  [m EXCEPT !.heap =
         [i \in DOMAIN @ \cup {new} |->
            IF i = new THEN [kind |-> kind, parts |-> parts] ELSE @[i]]]

\* What the values of the top k entries own.
Owned(m, k) == UNION {m.stack[i].owns : i \in Len(m.stack) - k + 1..Len(m.stack)}

Popped(m, k) == [m EXCEPT !.stack = SubSeq(@, 1, Len(@) - k)]

Push(m, sym, owns) == [m EXCEPT !.stack = Append(@, [sym |-> sym, owns |-> owns])]

\* A name token is shifted.
PushName(m) == Push(Alloc(m, "name", {}), "name", {Fresh(m)})

\* A reduction that builds an object out of the top k values.
Make(m, k, kind) ==
  Push(Popped(Alloc(m, kind, Owned(m, k)), k), kind, {Fresh(m)})

\* A reduction that strings the top k values together.
Gather(m, k, sym) == Push(Popped(m, k), sym, Owned(m, k))

HeapKinds ==
  {"name", "key", "array", "align", "modifier", "member", "vartype", "alias",
   "enum", "variable", "struct", "msg", "node", "document"}

\* The kinds of parts the destructor of a kind frees with it.
Frees ==
  [kind \in HeapKinds |->
     CASE kind \in {"alias", "member", "vartype"} -> {"name"}
       [] kind = "enum"            -> {"name", "member"}
       [] kind \in {"struct", "msg"} -> {"name", "modifier", "variable"}
       [] kind = "variable"        -> {"name", "vartype", "array", "align"}
       [] kind = "node"            -> {"alias", "enum", "struct", "msg"}
       [] kind = "document"        -> {"name", "node"}
       [] OTHER                    -> {}]

AllParts == [kind \in HeapKinds |-> HeapKinds]

Height == 7    \* of the tree below a document

\* Everything that is reached from objects through some of the kinds.
Reached(heap, ids, through) ==
  LET tree[n \in 0..Height] ==
        IF n = 0 THEN ids
        ELSE LET above == tree[n - 1]
             IN  above \cup UNION {{p \in heap[i].parts :
                                      heap[p].kind \in through[heap[i].kind]} : i \in above}
  IN  tree[Height]

Without(m, ids) == [m EXCEPT !.heap = [i \in DOMAIN @ \ ids |-> @[i]]]

\* The destructor of a value or a list of values.
Free(m, ids) == Without(m, Reached(m.heap, ids, Frees))

\* The top k values are popped and destroyed.
Destroy(m, k) == Free(Popped(m, k), Owned(m, k))

\* YYERROR pops the right-hand side without destroying it.
Drop(m, k) ==
  [Popped(m, k) EXCEPT !.dropped = @ \cup Reached(m.heap, Owned(m, k), Frees)]

\* Entries above the topmost one of a symbol.
Above(m, sym) ==
  Len(m.stack) - Max({i \in DOMAIN m.stack : m.stack[i].sym = sym})

\* Mutant: values are popped, not destroyed, in a recovery.
UnwindWithout(m, sym) == Popped(m, Above(m, sym))

\* Error recovery: down to the list whose production catches the error.
Unwind(m, sym) == Destroy(m, Above(m, sym))
-----------------------------------------------------------------------------
(* The registries own copies of the names. *)

\* bpcsmtv_registery_identifier_add and bpcsmtv_registery_variables_add.
AddKey(m, table) == [Alloc(m, "key", {}) EXCEPT !.keys[table] = @ \cup {Fresh(m)}]

\* bpcsmtv_registery_identifier_reset and bpcsmtv_registery_variables_reset.
ResetTable(m, table) == [Free(m, m.keys[table]) EXCEPT !.keys[table] = {}]

\* What the stack, an object or a table points to.
Pointed(m) ==
  Owned(m, Len(m.stack)) \cup m.keys.idents \cup m.keys.variables
  \cup UNION {m.heap[i].parts : i \in DOMAIN m.heap}

\* What nothing points to any more can never be freed.
Settled(m) ==
  LET tops == DOMAIN m.heap \ Pointed(m)
      gone == IF tops = {} THEN {} ELSE Reached(m.heap, tops, AllParts)
  IN  [Without(m, gone) EXCEPT !.lost = gone]

\* A step of the parser with what it does to the memory.  A scope it leaves
\* empty has no keys; after a member BpcParser does not enter (see its
\* UnwindToBody) they go a step early.
Does(step, m) ==
  /\ step
  /\ \E n \in {IF variables' = {} THEN ResetTable(m, "variables") ELSE m} :
       mem' = Settled(n)
-----------------------------------------------------------------------------
(* The head and the end. *)

HeadToken1 ==
  /\ pc = "namespaceNext" => Cardinality(Owned(Now, 1)) < MaxChain
  /\ Does(HeadToken, IF pc # "namespaceName" THEN Now
                     ELSE Gather(PushName(Now), Len(Now.stack) + 1, "chain"))

VersionNumber1 == Does(VersionNumber, Now)

HeadEnd1 == Does(HeadEnd, Gather(Now, 0, "body"))

HeadError1 == Does(HeadError, Destroy(Now, Len(Now.stack)))

\* An enum member without a value is reduced when the token behind it has
\* been seen, whichever it is.
MemberReduced(m) ==
  AddKey(Gather(Make(m, 1, "member"), IF decl.members = <<>> THEN 1 ELSE 2, "enumBody"),
         "variables")

Pending(m) ==
  IF pc # "memberNext" THEN m
  ELSE IF DuplicateMember THEN Drop(m, 1) ELSE MemberReduced(m)

\* yyreturn destroys what is on the stack, after YYACCEPT too.
EndOfFile1 ==
  Does(EndOfFile,
       IF pc = "body"
         THEN Destroy(ResetTable(Make(Now, 2, "document"), "idents"), 1)
         ELSE Destroy(Pending(Now), Len(Pending(Now).stack)))
-----------------------------------------------------------------------------
(* Declarations. *)

\* The production of bpc_protocol_body for the declaration on top.
Declared(m) == AddKey(Gather(Make(m, 1, "node"), 2, "body"), "idents")

\* The production of a declaration with k values: it is built, or refused
\* and left where it is.
Declares(k, m, kind) ==
  IF body' # body THEN Declared(Make(m, k, kind)) ELSE Unwind(Drop(m, k), "body")

Keyword1(kind) ==
  Does(Keyword(kind),
       IF pc = "body" /\ kind \in {"struct", "msg"} THEN Make(Now, 0, "modifier") ELSE Now)

DeclName1(n) == Does(DeclName(n), PushName(Now))

DeclType1(t) == Does(DeclType(t), Now)

LeftBrace1 ==
  Does(LeftBrace, IF pc = "structBrace" THEN Gather(Now, 0, "variables") ELSE Now)

AliasEnd1 == Does(AliasEnd, Declares(1, Now, "alias"))

MemberName1(n) == Does(MemberName(n), PushName(Now))

MemberEqual1 == Does(MemberEqual, Now)

MemberNumber1(v) ==
  Does(MemberNumber(v),
       IF pc' = "memberSep" THEN MemberReduced(Now) ELSE Unwind(Drop(Now, 1), "body"))

MemberComma1 ==
  Does(MemberComma,
       IF pc' = "member" THEN Pending(Now) ELSE Unwind(Pending(Now), "body"))

EnumEnd1 ==
  Does(EnumEnd,
       IF DuplicateMember THEN Unwind(Pending(Now), "body")
       ELSE Declares(2, Pending(Now), "enum"))

\* The first modifier token finds the empty modifier built.
Modifier1 ==
  LET built == IF pc = "body" THEN Make(Now, 0, "modifier") ELSE Now
  IN  Does(\/ \E r \in Reliabilities : Reliability(r)
           \/ \E l \in Layouts : FieldLayout(l),
           IF pc' = "modifier" THEN built ELSE Unwind(Drop(built, 1), "body"))

StructEnd1 == Does(StructEnd, Declares(3, Now, "struct"))

MsgEnd1 == Does(MsgEnd, Declares(3, Now, "msg"))
-----------------------------------------------------------------------------
(* Field lines. *)

\* A refusal inside the braces: k values are dropped, the line is destroyed.
LineRefused(m, k) == Unwind(Drop(m, k), "variables")

\* A BPCSMTV_VARIABLE_TYPE, new or duplicated: the name of a custom type, and
\* another copy of it behind which an enum or struct is shown.
NewType(m, type) ==
  IF type.type \in BasicTypes THEN Make(m, 0, "vartype")
  ELSE IF type.semi = None THEN Make(PushName(m), 1, "vartype")
  ELSE Make(PushName(PushName(m)), 2, "vartype")

FieldType1(t) ==
  Does(FieldType(t),
       IF pc' = "array" THEN Make(NewType(Now, line'.type), 0, "array")
       ELSE LineRefused(PushName(Now), 1))

FieldArray1 ==
  Does(FieldList \/ \E n \in TupleNumbers : FieldTuple(n),
       IF pc' = "array" THEN Now ELSE LineRefused(Now, 1))

FieldName1(n) ==
  LET k == IF pc = "array" THEN 1 ELSE 2
  IN  Does(FieldName(n),
           IF pc' = "declNext"
             THEN AddKey(Gather(PushName(Now), k, "declarators"), "variables")
             ELSE LineRefused(PushName(Now), k))

FieldComma1 == Does(FieldComma, Now)

FieldAlign1(n) ==
  Does(FieldAlign(n),
       IF pc' = "fieldSemi" THEN Make(Now, 0, "align") ELSE LineRefused(Now, 0))

\* One BPCSMTV_VARIABLE with copies of its own.
NewVariable(m) ==
  Make(PushName(Make(Make(NewType(m, line.type), 0, "array"), 0, "align")), 4, "variable")

\* Mutant: the last variable takes the values of the line over.
LineReducedShared(m) ==
  LET more[n \in 0..Len(line.names)] ==
        IF n = 0 THEN Popped(m, 4) ELSE Gather(NewVariable(more[n - 1]), 2, "variables")
      shared == Push(Alloc(more[Len(line.names) - 1], "variable", Owned(m, 4)),
                     "variable", {Fresh(more[Len(line.names) - 1])})
  IN  Free(Gather(shared, 2, "variables"), Owned(m, 4))

\* One variable for each declarator; then type, array, declarators and align
\* of the line are freed.
LineReduced(m) ==
  LET more[n \in 0..Len(line.names)] ==
        IF n = 0 THEN Popped(m, 4) ELSE Gather(NewVariable(more[n - 1]), 2, "variables")
  IN  Free(more[Len(line.names)], Owned(m, 4))

FieldEnd1 ==
  Does(FieldEnd,
       LineReduced(IF pc = "declNext" THEN Make(Now, 0, "align") ELSE Now))
-----------------------------------------------------------------------------
(* Errors that no semantic action raises. *)

SyntaxErrorInDecl1 == Does(SyntaxErrorInDecl, Unwind(Pending(Now), "body"))

SyntaxErrorInFields1 == Does(SyntaxErrorInFields, Unwind(Now, "variables"))

Recovery1 == Does(BodyRecovery \/ FieldsRecovery, Now)

LexError1 == Does(LexError, Now)

Next1 ==
  \/ HeadToken1 \/ VersionNumber1 \/ HeadEnd1 \/ HeadError1
  \/ \E kind \in {"alias", "enum", "struct", "msg"} : Keyword1(kind)
  \/ \E n \in Names : DeclName1(n) \/ MemberName1(n) \/ FieldName1(n)
  \/ \E t \in Types : DeclType1(t)
  \/ LeftBrace1 \/ AliasEnd1
  \/ MemberEqual1 \/ MemberComma1 \/ EnumEnd1
  \/ \E v \in EnumNumbers : MemberNumber1(v)
  \/ Modifier1
  \/ StructEnd1 \/ MsgEnd1
  \/ \E t \in Types \cup Names : FieldType1(t)
  \/ FieldArray1 \/ FieldComma1 \/ FieldEnd1
  \/ \E n \in AlignNumbers : FieldAlign1(n)
  \/ SyntaxErrorInDecl1 \/ SyntaxErrorInFields1
  \/ Recovery1 \/ LexError1
  \/ EndOfFile1

MemSpec == Init1 /\ [][Next1]_allVars
-----------------------------------------------------------------------------
(* Properties. *)

\* Where a pointer is and where it leads to.
Pointers ==
  (UNION {{<<"stack", k, i>> : i \in mem.stack[k].owns} : k \in DOMAIN mem.stack})
  \cup (UNION {{<<"object", k, i>> : i \in mem.heap[k].parts} : k \in DOMAIN mem.heap})
  \cup (UNION {{<<"table", t, i>> : i \in mem.keys[t]} : t \in DOMAIN mem.keys})

\* Nothing is freed twice or used after it was freed: the pointers lead to
\* the live objects, one to each.
OneOwner ==
  /\ Pointed(mem) = DOMAIN mem.heap
  /\ Cardinality(Pointers) = Cardinality(DOMAIN mem.heap)

\* Nothing leaks but the right-hand side of a production that refused its
\* values, and all of that does (the NOTE of compiler.y:36 means to prevent
\* it): syntax errors, aborts, the end of the file in a recovery and the
\* accepted document free everything but the keys of the tables.
OnlyRefusedIsLost ==
  /\ mem.lost = mem.dropped
  /\ pc \in Final => DOMAIN mem.heap = mem.keys.idents \cup mem.keys.variables
=============================================================================
