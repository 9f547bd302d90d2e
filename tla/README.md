# A verified model of the BP compiler

This directory models `bmmo-protocol-compiler`: a Flex/Bison compiler that reads
a bp file (aliases, enums, structs and msgs) and writes serializers for it in
Python, C#, C++ and Flatbuffers. The modules are TLA+; TLC checks them on small
instances and TLAPS proves their main invariants for every value of the
constants. The reference is the code under `src/src`; `PROJECT.json` maps every
definition to the lines it models.

## 1. The system

| Component | State | Operations | What makes it correct | Modelled in |
|---|---|---|---|---|
| Basic types, number tokens (`bpc_semantic_values.c`) | tables of sizes, alignments, limits | `bpcsmtv_parse_number`, `bpcsmtv_get_offset_number` | a length or padding is in 1..UINT32_MAX | `BpcTypes` |
| Field layout (`bpcsmtv_setup_field_layout`) | modifier and `variable_align` of one struct, written in place by three loops | choose natural or narrow; unit size; offsets and paddings; corrected size | natural means fixed size; every field aligned; sizes are C's while 32 bits suffice | `BpcLayoutRules`, `BpcLayout` |
| Enum values (`bpcsmtv_arrange_enum_body_value`) | pending value, hash table of used values | check a specified value, distribute the next one | values distinct and in range, wrapping included | `BpcEnumRules`, `BpcEnum` |
| Parser and semantic actions (`compiler.y`) | LALR state and stack, `bpc_protocol_body` | one production per construct, error recovery at `;` and `}` | the document is sound whatever was rejected on the way | `BpcParser`, `BpcDocument` |
| Registries (`bpc_semantic_values.c`) | `hashtable_identifier`, `hashtable_variables`, `msg_index_distributor` | test, add, get, reset, distribute | always in step with the document; scopes start empty; indices dense | `BpcParser` |
| Lexer (`compiler.l`) | location, buffers | tokens; reports and drops what it cannot match | a dropped token is not silently harmless | `LexError` in `BpcParser` |
| Heap of the parser (`compiler.y`, `bpc_semantic_values.c`) | `yyvs`, strings, nodes, keys | constructors, destructors, `%destructor`, hand-written frees | one owner for each object, nothing freed twice | `BpcOwnership` |
| Code generation back end (`bpc_code_gen.c`) | open output streams | twelve variable types, bonding of runs, message lists | groups cover the variables in order, runs are whole | `BpcBondRules`, `BpcBond`, `BpcGen` |
| Generators (`codegen/*.c`) | none while writing | declarations, (de)serializers, factories, byte swaps | all five documents are closed and agree; all serializers of a class have one format | `BpcPython`, `BpcCSharp`, `BpcCpp`, `BpcEmit`, `BpcCompiler` |
| Snippets (`snippets/*`) and generated code at run time | stream, object | read and write numbers, strings, lists, structs; refuse a message | what is received is what was sent, or is refused | `BpcWire` |
| Driver (`bmmo_protocol_compiler.c`, `bpc_cmd.c`) | options, streams, files | open and truncate outputs, run the parser, write, close | what exit code and files each outcome leaves | `BpcDriver`, `BpcCommand` |
| Paths (`bpc_fs.c`, `bpc_cmd.c`) | none | split, join, extension, relative path | the include path reaches the header | `BpcPathRules`, `BpcPath` |
| Testbenches (`testbenches/*`) | files in both byte orders | fill, write, read, compare | they find the bugs they are there to find | `BpcTestbench` |
| Error reporting, encodings | none | format, print, convert | not modelled: no state, wording only | - |

How they interact: the driver opens the outputs and calls `bpcyy_run_compiler`;
the parser pulls tokens from the lexer; each reduction runs a semantic action
that queries and updates the two registries and the message counter; when a
struct or msg is reduced the layout function runs, looking structs up **by
name** in the registry; when an enum is reduced the value loop runs; accepted
declarations are appended to the document; at the end of the file the document
goes to the code generators, which only read it. Programs built from the
generated code then exchange messages; the testbenches are such programs.

There is one thread. What is hard is sequences: an error may strike anywhere,
recovery pops part of the stack and skips tokens, and what was registered,
counted or entered in a scope before the error must not disturb what follows.
The second hard part is 32-bit arithmetic in the layout and wrap-around in enum
values. The third is agreement: one layout, computed once, is written into three
languages by three programs that share little, as calls, as `struct` formats and
as raw memory, and every pair must understand each other. The fourth is partial
failure: outputs are emptied before the input is read, a stream may be missing, a
message cut off. `PROJECT.json` lists the hazards at their lines, with the properties
that would catch each going wrong.

## 2. The modules

| Module | Contents |
|---|---|
| `BpcTypes` | types, tables, limits as constants `MinOf`/`MaxOf`, number tokens, `U32` |
| `BpcLayoutRules` | the layout as operators over a list of fields |
| `BpcLayout` | the layout function as it runs, one action per loop iteration |
| `BpcEnumRules` | enum values as a recursive function, and acceptance |
| `BpcEnum` | the value loop as it runs |
| `BpcParser` | parser, semantic actions, registries, recovery |
| `BpcDocument` | abstract: what the front end promises the code generators |
| `BpcOwnership` | `BpcParser` with the memory behind its stack and its tables |
| `BpcBondRules`, `BpcBond` | variable types and bonding, as operators and as the loops |
| `BpcGen` | what the generators share: groups, the instructions of a generated function |
| `BpcPython`, `BpcCSharp`, `BpcCpp` | the functions each generator writes |
| `BpcEmit` | the declarations of all five outputs, the names they refer to, the bytes they write |
| `BpcCompiler` | `BpcParser` with the generators behind it: properties of what is generated |
| `BpcSamples` | the messages the run-time models exchange |
| `BpcWire` | two programs with generated code and one message between them |
| `BpcTestbench` | the three testbenches and the files between them |
| `BpcDriver` | one run of the command |
| `BpcCommand` | abstract: what the command promises about the disk |
| `BpcPathRules`, `BpcPath` | path functions; the include looked up in a file system |
| `Bpc*MC` | instances for TLC |
| `BpcRulesProofs` | lemmas about `BpcTypes` and the rules of layout, enum values and bonding |
| `BpcLoopsProofs` | theorems about the three loops: `BpcLayout`, `BpcEnum`, `BpcBond` |
| `BpcParserProofs`, `BpcOwnershipProofs`, `BpcDriverProofs` | theorems about the parser, its memory, the command |
| `BpcDocumentProofs`, `BpcBytesProofs` | theorems about what is generated: declarations, factories, packers; bytes |
| `BpcPathProofs` | theorems about the include of the C++ source |

Which extends which: `BpcTypes` < the `Rules` modules < `BpcParser` <
`BpcOwnership`, and `BpcParser` with `BpcEmit` < `BpcCompiler`; `BpcGen` < the
three languages < `BpcEmit`, `BpcWire`, `BpcTestbench`; `BpcPathRules` <
`BpcPath`. `BpcParser` and `BpcDriver` are refined against `BpcDocument` and
`BpcCommand`.

**`BpcLayout`.** `loop` names the loop (`check`, `decide`, `unit`, `place`,
`done`), `position` is its cursor, `fields` the list (only each `pad`, the code's
`variable_align`, is written), `modifier` the record written in place. A field
is a record of what the function looks up for it: whether it has a fixed size,
element size and alignment, array, padding. `given` is a history variable: the
arguments of the call.

**`BpcEnum`.** `pending` merges `pending_uint` and `pending_int` (the code uses
one or the other throughout a call); `seen` is the hash table.

**`BpcParser`.** One action is the work on one token: the shift and the
reductions it permits, with all their checks and registry calls. `pc` names the
LALR state by what it waits for, `decl` and `line` are the semantic values on
the stack, `body` the document, `idents`, `variables` and `msgIndex` the
registries. `thrown` is a history variable. Three details of the generated
parser matter and are kept:

- a check made by a reduction that needs no lookahead (`;` or `}` just
  shifted) fails *after* its terminator is consumed, so recovery goes on to the
  next one (`UnwindToBody(None)`). An enum member without a value is reduced
  only once the next token has been read, so there that token is the lookahead
  and may end the recovery at once (`UnwindToBody("}")`);
- an error inside braces of a struct or msg is caught by `bpc_variables error ;`
  and drops one line, one outside by `bpc_protocol_body error ;` or
  `... error }` and drops the declaration; an error in the head is caught by
  nothing and ends the parse;
- the end of the file during recovery ends the parse.

A field's type keeps the three things `bpcsmtv_analyse_underlaying_type` stores:
the name, the basic type behind it (`full`), the custom type shown in generated
code (`semi`). A struct node keeps its modifier with size and unit size. Layout
and enum values enter through the operators of the `Rules` modules;
`LayoutAgreesWithRules` and `EnumAgreesWithRules`, both proved, say that the C loops
compute them. (The three loops prefix what they would otherwise name alike, so that
one module can extend them and hold the theorems about all three.)

**`BpcDocument`.** States the promise without parser or registries: definitions
are appended one at a time with fresh names, refer only to data types above
them, a natural declaration holds no narrow struct, each msg gets the number of
msgs before it, and the whole is published once or abandoned.

**`BpcOwnership`.** Each action is one of `BpcParser` together with what it does
to the heap: `stack` is `yyvs`, one entry for each value that owns memory, a list
being the set of what its cells point to; objects have a kind and parts, and
`Frees` says which parts the destructor of a kind frees. `Drop` is what `YYERROR`
does (pop without destroying), `Unwind` what recovery does (pop and destroy), and
`lost` is computed: what no pointer reaches any more.

**`BpcBond`.** `first` and `counter` are the cursors of the two loops of
`building_bond_vars`, `groups` the list it appends to. `BpcBondRules` gives the
list at once, and the models of the generators use that.

**Generators.** A generated `Serialize` or `Deserialize` is a sequence of
instructions, one for each call its text makes, built group by group as the
generator prints it. Python numbers its packers in three loops (`PackFmt`, the
two functions), C# bonds nothing, C++ copies bonded runs as memory of a packed
struct, with the byte count the generator computes. Indentation, comments and
annotations are left out.

**`BpcCompiler`.** The parser with these definitions over its `body`, so that
one run explores every file and judges the five outputs of each accepted one.
`CleanSpec` is the parser without errors: it allows more fields in the runs whose
question is about layouts and not about recovery.

**`BpcWire`.** A step is one call on the stream. Data is not given values: a byte
is known by its place (which field, which element, which byte of it), so that a
swapped order, a missed element or a wrong width is visible whatever was sent.
Only counts have values, since the receiver acts on them. `phase` goes from
`writing` over `sent` and `reading` to an outcome: done, refused, an exception.
`OnShort` says what each call does when the stream has too little; it differs by
language, by call and, where C++ skips padding with `seekg`, by the kind of stream
(`link.file`: a file may be passed at its end, a `std::stringstream` not). A stream
that has bytes is assumed to hand them over: a stream that returns fewer than
it could, as a socket may, is not modelled.

**`BpcTestbench`.** Runs of the programs in any order, over files that stay;
`fault` is a bug of the generated code the testbenches ought to see. What an object
holds is known by its places, and where the default values of the programs differ
(`114.514` as a double or as a float), by how they come through a field (`Sent`). The loops
that measure speed are left out.

**`BpcDriver`.** `pc` follows `main`: options, opening each stream (and emptying
outputs), the header reference, `bpcyy_run_compiler`, the parse (one step with
the outcomes `BpcParser` has), writing slot by slot, letting go, closing. A file
may be locked, two options may name one file, a disk may be full.

**`BpcPath`.** Paths are sequences of separators and names split at dots.
`LexicallyRelative` and the others translate `bpc_fs.c` branch by branch; the
reference is `Resolve`, which walks a path as a file system does (`Walk` is the way
along its steps, from any place).

## 3. Runs

| Run | Instance | States | Question |
|---|---|---|---|
| `layout` | every list of up to 3 fields of the tables' sizes, all modifiers, 5-bit `uint32_t` | 139,894 | is natural layout sound, C-compatible when it fits, and what the rules say |
| `enum` | every list of up to 4 members, narrow and wide, signed and unsigned | 369,080 | distinct, in range, as in C where C accepts, what the rules say |
| `bond` | every list of up to 3 variables of the 12 types, rules of Python and C++ | 29,622 | do the groups cover the list, are runs whole, do the loops return the rules' list |
| `compiler_files` | 2 names, 2 declarations of up to 2 entries, any errors | 274,310 | registries and document in step; the parser implements `BpcDocument`; outputs closed, factories agree |
| `compiler_bytes` | 2 declarations of 3 fields, 2 sizes and strings, arrays, padding, nesting, no errors | 2,061,222 | natural structs sound; one format in all languages; blocks, sizes and packers right |
| `ownership` | 2 names, 2 declarations of up to 2 entries, any errors | 584,302 | one owner each; what is lost is exactly what `YYERROR` drops |
| `wire` | every pair of languages and byte orders, six messages, cuts, files, fewer known messages, new objects | 366,890 | what arrives is what was sent, or is refused; what a cut may cost |
| `testbench` | every order of up to 3 runs, every single fault of a reader | 169,898 | which faults the testbenches see, and which alarms are false |
| `driver` | 3 files, up to 2 outputs, equal names included, locks, full disk | 228,848 | what each command does to files, streams, strings; `BpcCommand` |
| `path` | every pair of paths of up to 5 tokens over 4 names, from 4 current directories | 97,680 | does the include reach the header, and directly; the repository's test data |
| `compiler_clean` | smallest | - | violated: see findings |
| `compiler_helpers` | one field of an integer or floating type | - | violated: see findings |

The invariants of `BpcParser` (`TypeOK`, `RegistryMatchesBody`, `EntriesDistinct`,
`ScopeStartsEmpty`, `DocumentSound`, `NaturalSound`, `KeepsPromise`) are checked
in the `compiler_*` runs: `BpcCompiler` extends `BpcParser` and has its actions,
and what is generated is judged on the same states.

**Bounds.** `MaxDecls`, `MaxMembers`, `MaxFields` limit what is accepted, never
the number of tokens or errors: recovery may run any number of times. Two
declarations are enough for one to be rejected against, or to refer to, another,
and for an accepted, a rejected and a later one to interact. Three fields give a
first, a middle and a last field, the three cases of the boundary choice, and
three variables give a run before, between and behind others. The integer limits
are constants, a few bits wide in the runs, so that wrap-around happens in
`layout` and `enum`; the code uses only their order and that `2^32` is a multiple
of the alignments, which `LimitsAssumption` states. In the `compiler_*` runs they
are too wide to wrap: their questions are about layouts that fit. The vocabulary
constants (`EnumNumbers`, `TupleNumbers`, ...) include 0 and values out of range
where the code tests for them. `wire` sends lists of 0 and 2 elements (`Counts`),
so an empty list and a first and a last element occur; `BpcSamples` has one
message for each way of transfer (natural memory, no field, packers, strings,
nested structs), and they end in what a cut may take: a static array, a list with
padding behind it, a number, a string, an array behind a string. `MaxChain` in `ownership` only ends the namespace. Three runs of
the testbenches are enough for each program to run once in any order, or one of
them again after another. The directories of `path` are the root, a folder, one with
a `.` on its way, and one with a root name (`//b`). `Names` is symmetric in the safety runs (names are only
compared); the runs with liveness use no symmetry.

**Deadlock.** Everything here ends: the parser when it has accepted or aborted,
a loop when it returns, a message when it is judged, the command when it exits.
So every run says `CHECK_DEADLOCK FALSE`. That the end is reached is checked
where it can be missed: `KeepsPromise` for parser and command, `BondAgreesWithRules`
for the bonding loop, which moves its cursor by what another loop returns.

**Fairness.** `WF_vars(EndOfFile)` in the parser and nothing else: a file is
finite, so its end is read at last. No fairness is assumed of any particular
token, nor that recovery finds its terminator. The whole next-state action
is weakly fair in `BpcBond` and `BpcDriver`: a single thread that runs goes on running, and no step of theirs
waits for anybody. The other machines claim no liveness and have none.

### Findings

- `compiler_clean`: a comment in `bpc_document` (`compiler.y:138`) says code is
  generated only when no error was thrown; the action generates it whenever the
  parser reaches the end of the file, whatever it recovered from.
- `compiler_helpers`: for a `float` or `double` field the C# generator calls
  helpers (`_BpReadSingle`, ...) that `functions.cs` does not have.

Other disagreements were met and are stated exactly by properties that pass:

- `struct_size` is computed modulo `2^32` (`bpc_semantic_values.c:576`), and a
  size that wraps to 0 becomes 1: `SameAsC` claims C's size only while the sizes
  fit, `LayoutSound` holds nevertheless. The size of a raw copy in C++ wraps alike
  (`codecpp.c:26`); `LanguagesAgree` and `SizesAreBytes` claim nothing of such a
  document (`SizesFit`).
- `docs/BpFile.md:130` says specified enum values behave as in C; C lets two
  members share a value, the compiler refuses the enum (`AsInC`).
- `docs/GenCode.md:158,189` say that the C# functions throw nothing; a null string
  makes `UniformSerialize` throw, and a stream that ends early makes
  `UniformDeserialize` throw (`DeliveredIntact`, `UnknownIsRefused`).
- Python and C# may take a message whose last string was cut for a whole one,
  although `docs/GenCode.md:97` has Python's `Deserialize` throw; C# also one whose last
  array or list of numbers was, with wrong numbers, since `_BpReadNumberTuple` ignores the
  result of `br.Read` (`functions.cs:218`). `OnlyATailIsLost` says that this is all.
- A C++ receiver refuses every message that was cut, except one from a file that lacks
  only padding at its end: `_ReadBlank` (`functions.cpp:120`) does not notice. The docs use a
  `std::stringstream` (`docs/GenCode.md:228`), the testbench a `std::ifstream`. The object is
  whole in either case (`CppObjectIsWhole`).
- The command succeeds when an output could not be opened (`README.md:54`);
  `SuccessWritesAll` is about the outputs that could.
- A source path with `..` gets an include that may miss the header
  (`docs/GenCpp_ZH.md:189`); `IncludeReachesHeader` excludes those paths only.
- `testbench.py:132` drops the result of comparing a nested struct, and
  `testbench.cs:286` compares only what the second file left:
  `OnlyTheseAreMissed` says precisely what passes unseen.
- The testbenches fill numbers with `114.514`, in Python as a double (`testbench.py:18`),
  in C# and C++ as a float (`testbench.cs:17`, `testbench.cpp:19`), and compare exactly. So
  Python reports every message with a `float`, its own included, and each side the other's
  `double`s; `NoFalseAlarm` says that there are no other false alarms.
- The NOTE at `compiler.y:36` wants to prevent leaks when a check fails. Bison
  does not destroy the right-hand side of a production that calls `YYERROR`, so
  its strings and lists are lost; `OnlyRefusedIsLost` says that these are all, and
  nothing else.

## 4. Proofs

All constants are arbitrary, subject to `LimitsAssumption` (limits lie
around 0, no integer type is wider than the 64-bit ones, `2^32` is divisible by 4), `NamesAssumption` (names are not type names; number
tokens fit 64 bits), `PathsAssumption` (the current directory is absolute and without
`..`, as `g_get_current_dir` gives it; a source is named by a file and not by `/`, `.`
or `..`), and the named assumptions that the arguments of a machine are
typed (`InputsAssumption`, `CallsAssumption` and those of `BpcBond` and
`BpcDriver`). So the theorems hold for the real widths and for files of any length.

**Recursion.** The rules are recursive functions, and `BpcRulesProofs` needs to
know what they return for lists of any length. Induction is done on sets:
`LeastNat` (a non-empty set of naturals has a least element) gives
`SegmentInduction`, induction for a property given as the *set* of positions
that have it, and that gives `SegmentRecursion`, which produces the function a
first value and a step define. `SizeAfterFacts`, `EnumValuesFacts`, `RunFacts`
and `BondVarsRecursion` are its uses; the last one gives the groups of the bonding
rules as `BondsFrom`, what the rules make of the variables from each position on. The arithmetic core is `U32KeepsAlignment` (wrapping preserves
multiples of an alignment, since `2^32` is one) and `PaddingFacts`.

**`BpcLoopsProofs`, layout.** `LayoutInv` adds to alignment and fixedness what each loop has
established so far: the fields before the cursor are covered by the unit size,
and a natural layout has looked at every field. Needed because `UnitCoversFields`
alone says nothing while the second loop runs. `LayoutAgrees` relates each loop to
the rules on `given`: what is placed is `SetupPad`, the size so far is
`SizeAfter(...)[position - 1]`.

**`BpcLoopsProofs`, enum values.** `EnumInv` adds that the pending value is in range and the hash
table holds exactly the values given out; without the latter a value missing in
the table could be repeated. `EnumAgrees` relates `values` to `EnumValues`. For `AsInC`,
`RulesAsInC` shows that the rules give C's values as long as those stay in the type,
and a value C may have passes `parse_number` and the range test.

**`BpcParserProofs`.** `IInv == TypeOK /\ StageInv /\ ScopeInv /\ BodyInv`.

- `StageInv`: what the stack holds in each state (a named declaration has its
  name, a line has a resolved type, ...); without it a reduction might build a
  malformed node.
- `ScopeInv`: every entry read since the brace, the current line included, is in
  `hashtable_variables`; this is what makes the duplicate test sufficient, in
  spite of names that stay in the table after their line is gone.
- `BodyInv`: the document properties, strengthened by `BodyResolved`: a type
  resolved when a field was read resolves the same way now. It is inductive
  because names are never re-registered: looking up an old name is unaffected by
  adding a declaration (`AddNodeStep`).

The steps fall into few shapes, each a lemma: `QuietStep` (only the stack
changes), `UnwindToBodyStep`, `UnwindToFieldsStep`, `AbortStep`, `AcceptStep`,
`AddNodeStep`; one lemma per action reduces it to one of them.

**`BpcDocumentProofs`.** `NaturalSound`: the invariant of the parser with what the
layout of a natural struct rests on, namely that the structs it contains are
natural *now*, because they were when it was laid out and a registered name keeps
its node. Alignment of the stored paddings follows from the rules by induction
over the fields. `KeepsPromiseSafely` is the safety part of the refinement of
`BpcDocument`: a step that accepts a declaration adds one that is fresh, refers
upwards and has the next index, the last step publishes or abandons, and every
other step, errors and recovery included, is a stutter.

What the generators make of the document is proved of the published one, when
`Accept` has emptied the registry the other proofs argue with. `Settled` says of
the document alone that names are distinct and that each type is what the
declaration above it makes of it; it follows from `IInv` while the parser runs and
is carried over its last step. The loops over the nodes of some kinds (`Kept`) are
characterised once, by `KeptFacts`: a subsequence that leaves out nothing.
`DocumentsClosed` then goes by cases on what each language shows (`ShownIsWritten`),
`FactoriesAgree` by numbering the message list (`MessagesNumbered`).

`PackersInOrder` compares two walks over the same groups: `StructPacker` adds an
entry to the table for each group that needs one, and the functions, group by
group, write instructions that refer to entries by a running number.
`StructPackerFacts` says that the entry of a group stands behind as many others as
there are such groups before it (`Before`, counted by `CountFacts`).
`FirstsInOrder` says that when each piece of a flattened list has at most one
call, its first element (`LedBy`), the calls come in the order of their pieces;
`FormatFacts` and `ArrayNumbers` count the values of a format. `SameBonds` takes the
groups from `BondVarsRecursion`.

**`BpcBytesProofs`.** `LanguagesAgree` and `SizesAreBytes` rest on one definition of what everyone
writes. `NodeBytes(inner, node)` is the bytes of a class field by field
(`FieldBytes`: a list's length, each element, the padding), given those of the
structs above it, and `TableOf` builds the table of a whole document from it, name
by name, in the order of the declarations. So a struct in a struct in a struct needs
no induction over depth: its bytes are in the table before it is reached, and stay
(`TableKeeps`), because names are distinct and types refer upwards (`Orderly`).
Then each generator is compared with the table and not with the others:

- an instruction for one element `Copies` what everyone writes for it, and `Spread`
  over a list copies the list (`NumberCopies` and its companions);
- Python's packers write a group's values with the paddings between them, C# one
  variable after the other;
- C++ copies a run of members at once, as many bytes as `BondVarsSize` says, from the
  address of the first one. `RunSizes` says that this is the length of what everyone
  writes for the run, so the copy takes exactly these bytes of the object's memory
  (`Payloads`), which are the same ones in the same places;
- the groups of `BondVars` are consecutive and leave nothing out, so joining the
  groups gives the fields (`SpanJoin`).

`Sized` ties the stored modifiers to the bytes: `struct_size` is `SizeAfter` of the
fields with the paddings stored, which the parser keeps for the natural structs
(`BodySized`) and `EndStep` carries over `Accept`. Two strengthenings were needed:
`BasesTyped` (the basic type behind an enum, as behind an alias, is one; formerly
only the alias was said) and `SizesFit`.

**`SizesFit`.** Both properties say: *if no raw copy has a size that `uint32_t`
wraps*. `RunSize` adds up the members of a bonded run without a bound and `SizesFit`
compares it with `UINT32_MAX`. Beyond it the code has no agreement to keep:
`BondVarsSize` would copy the remainder modulo `2^32` (`codecpp.c:26`) while Python and
C# transfer every element. A document that violates it has a struct, or a run of
members, of 4 GiB and more; none of the run's documents does.

**`BpcOwnershipProofs`.** `MemInv` gives the stack of semantic values the shape
(which symbols, from bottom to top) that each `pc` stands for, and says that the
memory is `Sound`: a *forest*, whose roots are what the stack, the two tables and,
within a step, the hand hold. The proof has three layers.

- *Heaps.* `Rank` bounds how deep an object of a kind can be, so `Height` rounds of
  `Reached` suffice (`ReachedFacts`), however long the lists are. `Forest(h, R, D)`:
  objects have parts their destructor frees, no part twice, the roots `R` are parts
  of nothing, and the rest, `D`, is closed up and down. `FreeForest`, `DropForest`,
  `AllocForest` and `SettleForest` say what freeing, `YYERROR`, an allocation and the
  end of a step do to one.
- *Memories.* One lemma for each of the operations a production is made of (`Pop`,
  `Push`, `Alloc`, `Free`, `Drop`, `AddKey`, `ResetTable`, `Settled`), then one for
  each of their combinations, with the symbols on the stack (`MakeMem`,
  `GatherMem`, `UnwindMem`, ...). Symbols matter: an object may only become part of
  one whose destructor frees its kind, and recovery must stop at the right list.
- *Steps.* One lemma per shape of action; `LineReducedMem` goes by induction over
  the names of a field line, of which there may be any number.

`OneOwner` counts the pointers by a bijection with the live objects, and
`OnlyRefusedIsLost` applies `SettleForest` to two views of the memory of a parser
that has returned. `MemoryIsTransparent` says that `MemSpec` is the parser, so all
theorems about the parser hold of it.

**`BpcLoopsProofs`, bonding.** `BondInv` says that the variables between
`first` and the inner cursor all match and that a bonded group is followed by a
variable that does not; without the latter two runs could follow each other.
`ReturnsTheRules` is the safety part of `BondAgreesWithRules`: `OnTheWay` says that the
groups so far, followed by what the rules make of the variables from `first` on,
are the list of the rules. A step that takes a group moves it from the second to
the first (`MoveGroup`), since what the inner loop has counted when it stops is the
rules' run (`CountedIsRun`).

**`BpcDriverProofs`.** The inductive invariant ties each stage of `main` to what
is open, held and allocated in it, and to which files have been emptied or
filled. `KeepsPromiseSafely` is the safety part of the refinement: initial states
map to initial states of `BpcCommand`, every step to a step of it or a stutter.

**`BpcPathProofs`.** The machine takes one step, so its invariant `OfCommand` is
short: the options are among those given, the include is `RelativeHeader` of them,
and the header is not a folder on the way to the source. The work is in the path
functions, recursive functions again, each characterised by `SegmentRecursion`
(`WalkRecursion`, `WithoutRecursion`, `StepsUpRecursion`, `JoinRecursion`).

- `IncludeReachesHeader`: every text operation is related to walking. Splitting a
  path leaves the walk along it alone (`SplitFacts`), and so does joining the names
  again (`JoinPathFacts`); an absolute path leads where `Resolve` says
  (`AbsoluteLeads`). `BackUp` is the heart: as many steps `..` as `StepsUp` counts in
  the folder's names behind the common ones lead from the folder back to where these
  part. It needs a folder that goes up nowhere, hence the condition on the source; the
  header's names may contain `..`, and are only walked.
  `MismatchFacts`, `RestFacts` and `Compared`
  give the common names, and `RelativeLeads` puts the walks together.
  When `LexicallyRelative` finds none, the include is the absolute path itself.
- `IncludeIsDirect`: without `..` a walk only appends the names that are steps
  (`WalkPlain`), so the two places are the common names followed by what is `Kept`
  of each rest; the rests differ in their first names (`RelativeDirect`). A `.` can
  only come last, from the folder of a source without one (`DotIsLast`,
  `PlainFolder`), and is no first name to compare. `CommonFacts` says that these
  common names are the ones `Common` counts. The property needs `IsPlain(wd)`
  like the other two: a `.` in the current directory is part of the comparison.

**What is proved**: for the parser `TypeOK`, `RegistryMatchesBody`,
`DocumentSound` (its four parts have theorems of their own), `EntriesDistinct`,
`ScopeStartsEmpty`, `NaturalSound`; for the layout `LayoutSound`, `SameAsC`,
`LayoutAgreesWithRules`; for the enums `DistinctValues`, `ValuesInRange`,
`EnumAgreesWithRules`, `AsInC`; for the generated documents `DocumentsClosed`,
`FactoriesAgree`, `PackersInOrder`, `LanguagesAgree` and `SizesAreBytes`; for bonding `CoversInOrder`, `GroupsAreRuns`
and the safety part of `BondAgreesWithRules`; for the command
`OnlyOutputsChange`, `FailureLeavesNoCode`, `SuccessWritesAll`,
`NoDanglingStream`, `NothingLeaks`; for the memory `OneOwner` and
`OnlyRefusedIsLost`; for the paths `IncludeReachesHeader` and `IncludeIsDirect`; for the command and the parser the safety part of their
`KeepsPromise`; and type correctness of each of these machines.

**What is only model-checked**: all liveness (`KeepsPromise`, the return in
`BondAgreesWithRules`), which is out of the prover's reach; messages on the
wire, the testbenches, and `AgreesWithTests`. A message's values and the places of its bytes are
recursive operators; `AgreesWithTests` compares the path functions with the
repository's own data, a fixed list with nothing to generalise.

## 5. Not modelled

Text: characters, locations, wording and formatting. A token is a member of a
small set; a number token is its value, with the two 64-bit success flags as
predicates of it; `parse_number`'s margins are left out. The regular expressions
of the lexer, its comments and locations. In a syntax error that follows an enum
member directly, the code may already have entered the member in the scope table;
the model leaves the table alone, since nothing reads it before the recovery
empties it.

Error reporting (`bpc_error.c`) and encodings (`bpc_encoding.c`) keep no state;
the Win32 branches of the path and stream code need another platform's rules. Of
the testbenches the speed measurements are left out; of generated code the
indentation, annotations and the `ToString`-like conveniences. On the wire
floating-point values are bytes like any other, and so is text: where a cut splits a
character of several bytes, Python drops what is left of it and C# puts a replacement
for it. Of the repository's tests, the data sets of the
path tests are checked (`AgreesWithTests`); the others were read as documentation.

## 6. What could follow

1. `parse_number` with its margins, and the lexer's rules as a machine on classes
   of characters.
2. Theorems about a message on the wire. `UnknownIsRefused` first: the opcode stays at
   the head of the stream and the factory has no class for it, but that the rest of
   the stream is a sequence of bytes rests on the instructions of all three languages
   (packer indices in range, sizes of raw copies), as in `BpcDocumentProofs` and
   `BpcBytesProofs`. `CppObjectIsWhole` needs in addition that the receiver's instructions
   ask for as many bytes as the sender's wrote, and `NothingLeftOut` that `PlacesOf`
   becomes a function along the document, as `TableOf` is.
