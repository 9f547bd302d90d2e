---------------------------- MODULE BpcTestbench ----------------------------
(***************************************************************************)
(* The testbenches: three programs with generated code fill one message    *)
(* with default values, write it to files in both byte orders, and read    *)
(* and judge each other's files.  They are run by hand in any order.       *)
(*                                                                         *)
(* fault is a bug the testbenches are to find: a reader whose generated    *)
(* code leaves another value than the writer's at one place of the object. *)
(* Places are paths as in BpcCpp; the place <<k, 0>> of a list is its      *)
(* length.                                                                 *)
(***************************************************************************)
EXTENDS BpcCpp

CONSTANTS
  Document,    \* the protocol body all three were generated from
  Messages,    \* names of messages of it
  ListLength,  \* DEFAULT_LIST_LEN
  Readers,     \* the programs that may have a fault
  MaxRuns      \* bound: programs run

VARIABLES
  msg,       \* the message
  fault,     \* [writer, reader, big, at], at <<>> for none
  files,     \* the files there are, <<lang, big>>
  runs,      \* the programs run so far
  todo,      \* what the running program still has to do
  instance,  \* of the object read last: hr, and the places that differ from
             \* the program's standard object
  read,      \* history: the files read, <<writer, reader, big>>
  reports    \* history: the checks failed, <<writer, reader, why>>

vars == <<msg, fault, files, runs, todo, instance, read, reports>>

Programs == {"python", "csharp", "cpp"}

Indices(f) ==
  IF ~f.array.is_array THEN {0}
  ELSE IF f.array.is_static_array THEN 1..f.array.static_array_len ELSE 1..ListLength

IsList(f) == f.array.is_array /\ ~f.array.is_static_array
-----------------------------------------------------------------------------
(* Python: AssignVariablesValue and CompareInstance visit the attributes.   *)

\* descend says whether what is found in a single struct counts.
RECURSIVE PyPlaces(_, _, _, _)
PyPlaces(doc, class, prefix, descend) ==
  UNION {
    LET f == NodeOf(doc, class).fields[k]
    IN  (IF IsList(f) THEN {Append(prefix, <<k, 0>>)} ELSE {})
        \cup UNION {LET place == Append(prefix, <<k, i>>)
                    IN  IF f.type.full \in BasicTypes THEN {place}
                        ELSE IF ~f.array.is_array /\ ~descend THEN {}
                        ELSE PyPlaces(doc, f.type.type, place, descend) : i \in Indices(f)} :
    k \in DOMAIN NodeOf(doc, class).fields}

PyAssigned(doc, name) == PyPlaces(doc, name, <<>>, TRUE)

\* The result of the comparison of a single struct is not used.
PyCompared(doc, name) == PyPlaces(doc, name, <<>>, FALSE)
-----------------------------------------------------------------------------
(* C#: the fields found by reflection. *)

RECURSIVE CsPlaces(_, _, _)
CsPlaces(doc, class, prefix) ==
  UNION {
    LET f == NodeOf(doc, class).fields[k]
        elements == CASE ~f.array.is_array -> {0}
                      [] IsList(f)         -> 1..ListLength
                      [] OTHER             -> 1..f.array.static_array_len
    IN  (IF IsList(f) THEN {Append(prefix, <<k, 0>>)} ELSE {})
        \cup UNION {LET place == Append(prefix, <<k, i>>)
                    IN  IF f.type.full \in BasicTypes THEN {place}
                        ELSE CsPlaces(doc, f.type.type, place) : i \in elements} :
    k \in DOMAIN NodeOf(doc, class).fields}

\* AssignVariablesValue with GenerateDefaultValue.
CsAssigned(doc, name) == CsPlaces(doc, name, <<>>)

\* CompareInstance with CompareInstanceMember.
CsCompared(doc, name) == CsPlaces(doc, name, <<>>)
-----------------------------------------------------------------------------
(* C++ has no reflection: the functions walk the memory of the Payload by   *)
(* the table _BPTestbench_StructLayouts of the generated header.            *)

\* A string or vector is one unit of memory.
UnitOf(t) == IF t \in BasicTypes \ {"string"} THEN SizeOf(t) ELSE 1

Number(at, t) == [b \in 1..UnitOf(t) |-> Cell(at, b, UnitOf(t))]

\* The cells of a Payload_t; an object is never empty.
Object(memory, name) ==
  LET members == memory[name]
  IN  IF DOMAIN members = {0} THEN Placeholder(1) ELSE members[Max(DOMAIN members)]

\* One value of a variable's type at a path; memory has the structs.
Value(f, at, memory) ==
  IF f.type.full \in BasicTypes THEN Number(at, f.type.full)
  ELSE LET object == Object(memory, f.type.type)
       IN  [c \in DOMAIN object |->
              [object[c] EXCEPT !.at = IF @ = <<>> THEN @ ELSE at \o @]]

\* Member k of Payload_t with the placeholder behind it.
MemberMemory(node, k, memory) ==
  LET f == node.fields[k]
  IN  (IF IsList(f) THEN Number(<< <<k, 0>> >>, "list")
       ELSE FlattenSeq([i \in DOMAIN Places(f, k) |-> Value(f, <<Places(f, k)[i]>>, memory)]))
      \o (IF f.align.use_align THEN Placeholder(f.align.padding_size) ELSE <<>>)

\* The memory of the first members of every Payload_t, for any number of them.
Memory(doc) ==
  LET upto[n \in 0..Len(doc)] ==
        IF n = 0 THEN <<>>
        ELSE LET before == upto[n - 1]
                 node == doc[n]
                 members[k \in 0..Len(node.fields)] ==
                   IF k = 0 THEN <<>> ELSE members[k - 1] \o MemberMemory(node, k, before)
             IN  IF IsStructLike(node) THEN before @@ (node.name :> members) ELSE before
  IN  upto[Len(doc)]

\* Mutant: an array's length is taken for a single value's.
TestbenchDataNoTuple(memory, node, k) ==
  LET f == node.fields[k]
  IN  [field |-> k,
       container |-> IF IsList(f) THEN "List" ELSE "Single",
       basic |-> IF f.type.full \in BasicTypes THEN f.type.full ELSE "bpstruct",
       complex |-> IF f.type.full \in BasicTypes THEN "" ELSE f.type.type,
       offset |-> Len(memory[node.name][k - 1]),
       unit |-> IF f.type.full \in BasicTypes THEN UnitOf(f.type.full)
                ELSE Len(Object(memory, f.type.type)),
       tuple |-> 0]

\* write_testbench_data: the table's entry for a variable.
TestbenchData(memory, node, k) ==
  LET f == node.fields[k]
  IN  [field |-> k,
       container |-> IF ~f.array.is_array THEN "Single"
                     ELSE IF f.array.is_static_array THEN "Tuple" ELSE "List",
       basic |-> IF f.type.full \in BasicTypes THEN f.type.full ELSE "bpstruct",
       complex |-> IF f.type.full \in BasicTypes THEN "" ELSE f.type.type,
       offset |-> Len(memory[node.name][k - 1]),
       unit |-> IF f.type.full \in BasicTypes THEN UnitOf(f.type.full)
                ELSE Len(Object(memory, f.type.type)),
       tuple |-> IF f.array.is_static_array THEN f.array.static_array_len ELSE 0]

\* _BPTestbench_StructLayouts.
StructLayouts(doc, name) ==
  LET node == NodeOf(doc, name)
  IN  {TestbenchData(Memory(doc), node, k) : k \in DOMAIN node.fields}

From(memory, offset) == SubSeq(memory, offset + 1, Len(memory))

\* The place a typed access to the front of memory is about.
Access(memory, t) ==
  IF memory # <<>> /\ Head(memory).byte = 1 /\ Head(memory).width = UnitOf(t)
    THEN {Head(memory).at}
  ELSE {<<"astray">>}

\* The data of the vector of field k: mListDataFuncPtr.
ListData(doc, node, k, vector) ==
  FlattenSeq([i \in 1..ListLength |->
                Value(node.fields[k], Append(Front(Head(vector).at), <<k, i>>), Memory(doc))])

\* The loops of AssignVariablesValue and CompareInstance over the variables
\* of a struct at the front of memory.
RECURSIVE CppPlaces(_, _, _)
CppPlaces(doc, class, memory) ==
  UNION {
    LET isList == p.container = "List"
        count == CASE isList -> ListLength
                   [] p.container = "Tuple" -> p.tuple
                   [] OTHER -> 1
    IN  (IF isList THEN Access(variable, "list") ELSE {})
        \cup UNION {IF p.basic = "bpstruct" THEN CppPlaces(doc, p.complex, From(data, i * p.unit))
                    ELSE Access(From(data, i * p.unit), p.basic) :
                      i \in 0..count - 1,
                      data \in {IF isList THEN ListData(doc, NodeOf(doc, class), p.field, variable)
                                ELSE variable}} :
    <<p, variable>> \in {<<q, From(memory, q.offset)>> : q \in StructLayouts(doc, class)}}

\* GetPayloadPtr: the walk starts at the object's Payload.
CppAssigned(doc, name) == CppPlaces(doc, name, Object(Memory(doc), name))
CppCompared(doc, name) == CppPlaces(doc, name, Object(Memory(doc), name))
-----------------------------------------------------------------------------
Assigned(doc, lang, name) ==
  CASE lang = "python" -> PyAssigned(doc, name)
    [] lang = "csharp" -> CsAssigned(doc, name)
    [] lang = "cpp"    -> CppAssigned(doc, name)

Compared(doc, lang, name) ==
  CASE lang = "python" -> PyCompared(doc, name)
    [] lang = "csharp" -> CsCompared(doc, name)
    [] lang = "cpp"    -> CppCompared(doc, name)

AssignedBy == [lang \in Programs |-> [name \in Messages |-> Assigned(Document, lang, name)]]
ComparedBy == [lang \in Programs |-> [name \in Messages |-> Compared(Document, lang, name)]]

\* The places of the fields, whatever a testbench does with them.
Everything(name) == PyPlaces(Document, name, <<>>, TRUE)

\* What a program fills a number with a fraction with, and compares it with:
\* DEFAULT_FLOAT is 114.514 in Python, the nearest float of that elsewhere.
Default(lang) == IF lang = "python" THEN "exact" ELSE "rounded"

\* What a field of type t has after it was sent; a double keeps any value.
Sent(t, value) == IF t = "float" THEN "rounded" ELSE value

\* The places where the writer's default value arrives as another one than the
\* reader's.  The integer and the string are the same everywhere.
Rounded(writer, reader, name) ==
  {p \in Everything(name) :
    LET t == TypeAt(Document, name, p)
    IN  t \in {"float", "double"} /\ Sent(t, Default(writer)) # Default(reader)}

RoundedBy ==
  [writer \in Programs |-> [reader \in Programs |-> [name \in Messages |->
    Rounded(writer, reader, name)]]]

NoFault == [writer |-> "python", reader |-> "python", big |-> FALSE, at |-> <<>>]

Faults(name) ==
  [writer : {"python"}, reader : Readers, big : BOOLEAN, at : Everything(name)]
  \cup [writer : Programs, reader : {"python"} \cap Readers, big : BOOLEAN,
        at : Everything(name)]

Read1(from, big) == [op |-> "read", from |-> from, big |-> big]
Write1(big)      == [op |-> "write", from |-> "", big |-> big]
Compare1(from)   == [op |-> "compare", from |-> from, big |-> FALSE]

\* Python: each file is read into a new object, which is compared.
PyScript ==
  <<Write1(FALSE), Write1(TRUE)>> \o
  FlattenSeq([l \in 1..3 |->
    LET lang == <<"python", "csharp", "cpp">>[l]
    IN  <<Read1(lang, FALSE), Compare1(lang), Read1(lang, TRUE), Compare1(lang)>>])

\* C#: one object is read from both files, then compared.
CsScript ==
  <<Write1(FALSE), Write1(TRUE), Read1("python", FALSE), Read1("python", TRUE),
    Compare1("python")>>

\* Mutant: the object is compared once, as in C#.
CppScriptOnce ==
  <<Write1(TRUE), Write1(FALSE), Read1("python", TRUE), Read1("python", FALSE),
    Compare1("python")>>

\* C++: each file is read into a new object, which is compared.
CppScript ==
  <<Write1(TRUE), Write1(FALSE), Read1("python", TRUE), Compare1("python"),
    Read1("python", FALSE), Compare1("python")>>

Script(lang) ==
  CASE lang = "python" -> PyScript [] lang = "csharp" -> CsScript
    [] lang = "cpp" -> CppScript
-----------------------------------------------------------------------------
Init ==
  /\ msg \in Messages
  /\ fault \in Faults(msg) \cup {NoFault}
  /\ files = {} /\ runs = <<>> /\ todo = <<>>
  /\ instance = [hr |-> TRUE, wrong |-> {}]
  /\ read = {} /\ reports = {}

Program == Last(runs)

\* Somebody runs a program.
Run(lang) ==
  /\ todo = <<>> /\ Len(runs) < MaxRuns
  /\ runs' = Append(runs, lang) /\ todo' = Script(lang)
  /\ UNCHANGED <<msg, fault, files, instance, read, reports>>

Does(op) == todo # <<>> /\ Head(todo).op = op

\* The standard object is written, byte order forced.
WriteFile ==
  /\ Does("write")
  /\ files' = files \cup {<<Program, Head(todo).big>>}
  /\ todo' = Tail(todo)
  /\ UNCHANGED <<msg, fault, runs, instance, read, reports>>

IsFault(writer, reader, big) ==
  /\ fault # NoFault /\ fault.writer = writer
  /\ fault.reader = reader /\ fault.big = big

SymmetricDifference(S, T) == (S \ T) \cup (T \ S)

\* Where the object read differs from the standard object: what one program
\* fills and the other not, the default values, the fault.
Wrong(writer, big) ==
  SymmetricDifference(AssignedBy[writer][msg], AssignedBy[Program][msg])
  \cup RoundedBy[writer][Program][msg]
  \cup (IF IsFault(writer, Program, big) THEN {fault.at} ELSE {})

ReadFile ==
  /\ Does("read")
  /\ <<Head(todo).from, Head(todo).big>> \in files
  /\ instance' = [hr |-> TRUE, wrong |-> Wrong(Head(todo).from, Head(todo).big)]
  /\ read' = read \cup {<<Head(todo).from, Program, Head(todo).big>>}
  /\ todo' = Tail(todo)
  /\ UNCHANGED <<msg, fault, files, runs, reports>>

\* Without the file: Python skips the check, C# ends with an exception, in
\* C++ nothing is read and Deserialize fails.
ReadNoFile ==
  /\ Does("read")
  /\ <<Head(todo).from, Head(todo).big>> \notin files
  /\ CASE Program = "python" -> todo' = Tail(Tail(todo)) /\ UNCHANGED instance
       [] Program = "csharp" -> todo' = <<>> /\ UNCHANGED instance
       [] Program = "cpp"    -> todo' = Tail(todo) /\ instance' = [hr |-> FALSE, wrong |-> {}]
  /\ UNCHANGED <<msg, fault, files, runs, read, reports>>

CompareInstance ==
  /\ Does("compare")
  /\ LET from == Head(todo).from
     IN  reports' =
           IF ~instance.hr THEN reports \cup {<<from, Program, "unread">>}
           ELSE IF instance.wrong \cap ComparedBy[Program][msg] # {}
             THEN reports \cup {<<from, Program, "differs">>}
           ELSE reports
  /\ todo' = Tail(todo)
  /\ UNCHANGED <<msg, fault, files, runs, instance, read>>

Next ==
  \/ \E lang \in Programs : Run(lang)
  \/ WriteFile \/ ReadFile \/ ReadNoFile \/ CompareInstance

Spec == Init /\ [][Next]_vars
-----------------------------------------------------------------------------
(* Properties. *)

Idle == todo = <<>>

Has(t) == \E p \in Everything(msg) : TypeAt(Document, msg, p) = t

\* A check fails only for a fault of its pair of programs; or because Python's
\* default value has more digits than the others' (testbench.py:18), which it
\* misses in every float it reads and which Python and the others miss in each
\* other's doubles; or because the C++ testbench was run before the one whose
\* files it reads.
NoFalseAlarm ==
  \A w, r \in Programs :
    /\ <<w, r, "differs">> \in reports =>
         \/ fault # NoFault /\ fault.writer = w /\ fault.reader = r
         \/ Has("float") /\ r = "python"
         \/ Has("double") /\ (w = "python") # (r = "python")
    /\ <<w, r, "unread">> \in reports =>
         r = "cpp" /\ \E j \in DOMAIN runs : runs[j] = "cpp" /\ \A i \in 1..j : runs[i] # "python"

Missed ==
  /\ Idle /\ <<fault.writer, fault.reader, fault.big>> \in read
  /\ fault # NoFault /\ <<fault.writer, fault.reader, "differs">> \notin reports

InSingleStruct == \E j \in 1..Len(fault.at) - 1 : fault.at[j][2] = 0

\* What gets past the testbenches: a fault inside a struct that is a field of
\* its own, in Python, and one with little endian files in C#; in C++ none.
OnlyTheseAreMissed ==
  Missed => \/ fault.reader = "python" /\ InSingleStruct
            \/ fault.reader = "csharp" /\ ~fault.big
=============================================================================
