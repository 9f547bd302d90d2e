------------------------------ MODULE BpcWire ------------------------------
(***************************************************************************)
(* Two programs with generated code exchange one message: the sender calls *)
(* UniformSerialize, the stream reaches the receiver whole or cut off, the *)
(* receiver calls UniformDeserialize.  Each may be Python, C# or C++ (with *)
(* the snippets functions.py, .cs, .cpp), on a machine of either byte      *)
(* order; the receiver may know fewer messages.                            *)
(*                                                                         *)
(* A step is one call on the stream.  Data is identified by its place: the *)
(* byte [at, byte, val] on the wire is byte 1.. of what is at the path at, *)
(* least significant first; val is 0 for data and n + 1 in a count of n.   *)
(* What an object holds is a function from paths to such bytes.            *)
(***************************************************************************)
EXTENDS BpcPython, BpcCSharp, BpcCpp

CONSTANTS
  Document,  \* the protocol body both ends were generated from
  Links,     \* [msg, from, to, fresh, known, cut, file]
  Counts     \* lengths of strings and lists

VARIABLES
  link,      \* the message, the two ends, whether the object is a new one,
             \* how many messages the receiver knows, whether a cut may come,
             \* whether the receiver reads a file
  phase,     \* where the exchange stands
  todo,      \* what the running function still has to do
  wire,      \* the bytes of the stream
  whole,     \* their number before a cut
  pos,       \* the receiver's position
  sent, got  \* what the two objects hold

vars == <<link, phase, todo, wire, whole, pos, sent, got>>

\* How an exchange ends: with an object, with None or null, with an exception
\* of the receiver or the sender, or in what the code must never do.
Ended == {"done", "null", "threw", "failed", "broken"}

Langs == {"python", "csharp", "cpp"}

Root == NodeOf(Document, link.msg)

\* The protocol body of a receiver that knows the first n messages.
Known(n) ==
  SelectSeq(Document, LAMBDA node : node.kind = "msg" => node.index < n)

Byte(at, byte, val) == [at |-> at, byte |-> byte, val |-> val]

Task(prefix, in) == [prefix |-> prefix, in |-> in]

Tasks(prefix, instrs) == [i \in DOMAIN instrs |-> Task(prefix, instrs[i])]

PathOf(task) == Append(task.prefix, task.in.at)

\* The generated classes: their functions, packers and factories.
StructLikes == {Document[k].name : k \in {j \in DOMAIN Document : IsStructLike(Document[j])}}

SerializeOf ==
  [lang \in Langs |-> [name \in StructLikes |->
    LET node == NodeOf(Document, name)
    IN  CASE lang = "python" -> PySerialize(Document, node)
          [] lang = "csharp" -> CsSerialize(Document, node)
          [] lang = "cpp"    -> CppSerialize(Document, node)]]

DeserializeOf ==
  [lang \in Langs |-> [name \in StructLikes |->
    LET node == NodeOf(Document, name)
    IN  CASE lang = "python" -> PyDeserialize(Document, node)
          [] lang = "csharp" -> CsDeserialize(Document, node)
          [] lang = "cpp"    -> CppDeserialize(Document, node)]]

PackersOf == [name \in StructLikes |-> StructPacker(Document, NodeOf(Document, name))]

SwapsOf == ByteSwap(Document)

Factory(lang, doc, opcode) ==
  CASE lang = "python" -> PyFactory(doc, opcode)
    [] lang = "csharp" -> CsFactory(doc, opcode)
    [] lang = "cpp"    -> CppFactory(doc, opcode)

InitOf(end, t) ==
  CASE end.lang = "python" -> PyInit(t)
    [] end.lang = "csharp" -> CsInit(t)
    [] end.lang = "cpp"    -> CppInit(t)
-----------------------------------------------------------------------------
(* Byte order: the significance of each byte of a number on the stream. *)

HostOrder(end, w) == [j \in 1..w |-> IF end.big THEN w + 1 - j ELSE j]

\* Memory that is swapped on a big endian machine: _BpByteSwapArray,
\* _SwapSingle and _SwapArray.
SwappedOrder(end, w) ==
  IF end.big THEN Reverse(HostOrder(end, w)) ELSE HostOrder(end, w)

FieldPath(path) == [i \in DOMAIN path |-> path[i][1]]

\* What ByteSwap, called by the wrapper, swaps in the object's Payload.
Swapped(end) == IF end.big THEN SwapsOf[link.msg] ELSE {}

PayloadOrder(end, swapped, path, w) ==
  IF FieldPath(path) \in swapped THEN SwappedOrder(end, w) ELSE HostOrder(end, w)

\* The bytes of one number as places of the stream.  Python's formats start
\* with "<" and BinaryReader and BinaryWriter are little endian.
NumberCells(end, op, path, bt) ==
  LET w == SizeOf(bt)
      order == CASE op \in {"number", "packed"} -> [j \in 1..w |-> j]
                 [] op = "tuple" -> SwappedOrder(end, w)
                 [] op = "raw"   -> PayloadOrder(end, Swapped(end), path, w)
  IN  [j \in 1..w |-> Cell(path, order[j], w)]

\* The packer the instruction names: class._struct_packer[index].
Fmt(task) == PackersOf[task.in.arg.class][task.in.arg.index + 1]

\* What one pack or unpack transfers.
PackedCells(end, task) ==
  LET fmt == Fmt(task)
      Nth(i) == Cardinality({j \in 1..i : fmt[j] # "x"})
  IN  FlattenSeq([i \in DOMAIN fmt |->
        IF fmt[i] = "x" THEN Placeholder(1)
        ELSE NumberCells(end, "packed", Append(task.prefix, task.in.at[Nth(i)]), fmt[i])])

\* What a raw copy transfers.
BlockCells(end, task) ==
  LET mem == task.in.arg.mem
      base == IF task.in.at = <<>> THEN task.prefix ELSE PathOf(task)
      swapped == Swapped(end)
  IN  [i \in 1..task.in.arg.size |->
        IF mem[i].at = <<>> THEN mem[i]
        ELSE LET path == base \o mem[i].at
             IN  Cell(path, PayloadOrder(end, swapped, path, mem[i].width)[mem[i].byte],
                      mem[i].width)]

Transfers == {"number", "tuple", "raw", "packed", "block", "gap"}

Cells(end, task) ==
  CASE task.in.op = "gap"    -> Placeholder(task.in.arg)
    [] task.in.op = "packed" -> PackedCells(end, task)
    [] task.in.op = "block"  -> BlockCells(end, task)
    [] OTHER -> NumberCells(end, task.in.op, PathOf(task), task.in.arg)

\* A packer for another number of values raises struct.error; a raw copy
\* past the bonded members, or over one that is no plain memory, is
\* undefined behaviour.
Breaks(task) ==
  CASE task.in.op = "packed" ->
         Len(SelectSeq(Fmt(task), LAMBDA c : c # "x")) # Len(task.in.at)
    [] task.in.op = "block" ->
         \/ task.in.arg.size > Len(task.in.arg.mem)
         \/ \E i \in 1..task.in.arg.size :
              task.in.arg.mem[i].at # <<>> /\ task.in.arg.mem[i].byte = 0
    [] OTHER -> FALSE

\* A count of n elements or bytes at a path: uint32, little endian.
CountAt(at, n) == [j \in 1..4 |-> Byte(at, j, n + 1)]

TextAt(at, n) == [j \in 1..n |-> Byte(at, j, 0)]

ElementTasks(task, n) ==
  [i \in 1..n |-> Task(task.prefix, At(task.in.arg, <<task.in.at[1], i>>))]

\* The values at the places of these cells when the stream has bytes.
ValuesOf(cells, bytes) ==
  LET At1(p, b) == {i \in DOMAIN bytes : cells[i].at = p /\ cells[i].byte = b}
  IN  [p \in {cells[i].at : i \in DOMAIN cells} \ {<<>>} |->
        [b \in 1..(CHOOSE w \in 1..8 : \E i \in DOMAIN cells :
                      cells[i].at = p /\ cells[i].width = w) |->
          IF At1(p, b) = {} THEN Byte(<<>>, 0, 0)
                            ELSE bytes[CHOOSE i \in At1(p, b) : TRUE]]]
-----------------------------------------------------------------------------
Init ==
  /\ link \in Links
  /\ phase = "start" /\ todo = <<>>
  /\ wire = <<>> /\ whole = 0 /\ pos = 0 /\ sent = <<>> /\ got = <<>>

(* UniformSerialize. *)

WriteOpCode ==
  /\ phase = "start" /\ phase' = "writing"
  /\ wire' = CountAt(<<>>, Root.index)
  /\ todo' = Tasks(<<>>, SerializeOf[link.from.lang][link.msg])
  /\ UNCHANGED <<link, whole, pos, sent, got>>

Writes(ops) == phase = "writing" /\ todo # <<>> /\ Head(todo).in.op \in ops

\* Numbers, packers, raw memory and padding.
WriteCells ==
  /\ Writes(Transfers)
  /\ IF Breaks(Head(todo))
       THEN phase' = "broken" /\ UNCHANGED <<wire, sent>>
       ELSE \E cells \in {Cells(link.from, Head(todo))} :
              LET bytes == [i \in DOMAIN cells |-> Byte(cells[i].at, cells[i].byte, 0)]
              IN  /\ wire' = wire \o bytes
                  /\ sent' = sent @@ ValuesOf(cells, bytes)
                  /\ UNCHANGED phase
  /\ todo' = Tail(todo)
  /\ UNCHANGED <<link, whole, pos, got>>

\* Lengths the object may have: none but 0 in a new one.
LengthsOf == IF link.fresh THEN {0} ELSE Counts

\* _WriteBpString, _BpWriteString, _WriteString; null has no bytes to get.
WriteText ==
  /\ Writes({"text"})
  /\ LET path == PathOf(Head(todo))
     IN  IF link.fresh /\ InitOf(link.from, "string") = "null"
           THEN phase' = "failed" /\ UNCHANGED <<wire, sent>>
           ELSE \E n \in LengthsOf :
                  /\ wire' = wire \o CountAt(path, n) \o TextAt(path, n)
                  /\ sent' = sent @@ (path :> TextAt(path, n))
                  /\ UNCHANGED phase
  /\ todo' = Tail(todo)
  /\ UNCHANGED <<link, whole, pos, got>>

\* The count of a list; its elements follow.
WriteList ==
  /\ Writes({"list"})
  /\ \E n \in LengthsOf :
       /\ wire' = wire \o CountAt(PathOf(Head(todo)), n)
       /\ sent' = sent @@ (PathOf(Head(todo)) :> CountAt(PathOf(Head(todo)), n))
       /\ todo' = ElementTasks(Head(todo), n) \o Tail(todo)
  /\ UNCHANGED <<link, phase, whole, pos, got>>

\* The Serialize of a struct.
WriteNested ==
  /\ Writes({"nested"})
  /\ LET task == Head(todo)
     IN  todo' = Tasks(PathOf(task), SerializeOf[link.from.lang][task.in.arg]) \o Tail(todo)
  /\ UNCHANGED <<link, phase, wire, whole, pos, sent, got>>

\* The sender is done; the stream arrives, whole or cut off.
Transmit ==
  /\ phase = "writing" /\ todo = <<>>
  /\ phase' = "sent" /\ whole' = Len(wire)
  /\ \E n \in IF link.cut THEN 0..Len(wire) ELSE {Len(wire)} : wire' = SubSeq(wire, 1, n)
  /\ UNCHANGED <<link, todo, pos, sent, got>>
-----------------------------------------------------------------------------
(* UniformDeserialize. *)

Left == Len(wire) - pos

\* Mutant: C++ looks at the stream before a raw read, not behind it.
OnShortGood(lang, op) ==
  CASE lang = "cpp" /\ (op = "block" \/ (op = "gap" /\ link.file)) -> "accept"
    [] lang = "cpp" -> "null"
    [] op \in {"text", "gap", "tuple"} -> "accept"
    [] OTHER -> "threw"

\* Mutant: a C# or Python read that is cut off leaves what there is.
OnShortAccept(lang, op) ==
  IF lang = "cpp" /\ ~(op = "gap" /\ link.file) THEN "null" ELSE "accept"

\* What the languages do when the stream has fewer bytes than they ask for.
\* Python: struct.unpack raises, a plain read returns what there is.  C#:
\* BinaryReader throws, ReadBytes, Read and Seek take what there is.  C++:
\* the macros return false and UniformDeserialize nullptr, but padding is
\* skipped by seekg, which a file lets pass its end and a stringstream not.
OnShort(lang, op) ==
  CASE lang = "cpp" /\ op = "gap" /\ link.file -> "accept"
    [] lang = "cpp" -> "null"
    [] op \in {"text", "gap", "tuple"} -> "accept"
    [] OTHER -> "threw"

Lang == link.to.lang

\* A call that got n bytes of the stream and leaves these values.
Take(n, values, tasks) ==
  /\ pos' = pos + n /\ got' = got @@ values /\ todo' = tasks
  /\ UNCHANGED phase

GiveUp(p) == phase' = p /\ UNCHANGED <<pos, got, todo>>

\* The uint32 at the receiver's position, if it is one.
IsCount == \A j \in 1..4 : wire[pos + j].byte = j /\ wire[pos + j].val > 0
Count == wire[pos + 1].val - 1

\* ReadOpCode and MessageFactory.
ReadOpCode ==
  /\ phase = "sent"
  /\ IF Left < 4 THEN phase' = OnShort(Lang, "number") /\ UNCHANGED <<pos, todo>>
     ELSE LET class == Factory(Lang, Known(link.known), Count)
          IN  /\ pos' = 4
              /\ IF class = {} THEN phase' = "null" /\ UNCHANGED todo
                 ELSE /\ phase' = "reading"
                      /\ \E c \in class : todo' = Tasks(<<>>, DeserializeOf[Lang][c])
  /\ UNCHANGED <<link, wire, whole, sent, got>>

Reads(ops) == phase = "reading" /\ todo # <<>> /\ Head(todo).in.op \in ops

ReadCells ==
  /\ Reads(Transfers)
  /\ IF Breaks(Head(todo)) THEN GiveUp("broken")
     ELSE \E cells \in {Cells(link.to, Head(todo))} :
            LET n == IF Left < Len(cells) THEN Left ELSE Len(cells)
                short == OnShort(Lang, Head(todo).in.op)
            IN  IF n < Len(cells) /\ short # "accept" THEN GiveUp(short)
                ELSE Take(n, ValuesOf(cells, SubSeq(wire, pos + 1, pos + n)), Tail(todo))
  /\ UNCHANGED <<link, wire, whole, sent>>

\* _ReadBpString, _BpReadString, _ReadString.
ReadText ==
  /\ Reads({"text"})
  /\ IF Left < 4 THEN GiveUp(OnShort(Lang, "number"))
     ELSE IF ~IsCount THEN GiveUp("broken")
     ELSE LET n == IF Left - 4 < Count THEN Left - 4 ELSE Count
          IN  IF n < Count /\ OnShort(Lang, "text") # "accept"
                THEN GiveUp(OnShort(Lang, "text"))
                ELSE Take(4 + n, PathOf(Head(todo)) :> SubSeq(wire, pos + 5, pos + 4 + n),
                          Tail(todo))
  /\ UNCHANGED <<link, wire, whole, sent>>

ReadList ==
  /\ Reads({"list"})
  /\ IF Left < 4 THEN GiveUp(OnShort(Lang, "number"))
     ELSE IF ~IsCount THEN GiveUp("broken")
     ELSE Take(4, PathOf(Head(todo)) :> SubSeq(wire, pos + 1, pos + 4),
               ElementTasks(Head(todo), Count) \o Tail(todo))
  /\ UNCHANGED <<link, wire, whole, sent>>

ReadNested ==
  /\ Reads({"nested"})
  /\ LET task == Head(todo)
     IN  todo' = Tasks(PathOf(task), DeserializeOf[Lang][task.in.arg]) \o Tail(todo)
  /\ UNCHANGED <<link, phase, wire, whole, pos, sent, got>>

\* UniformDeserialize returns the object.
Finish ==
  /\ phase = "reading" /\ todo = <<>> /\ phase' = "done"
  /\ UNCHANGED <<link, todo, wire, whole, pos, sent, got>>

Next ==
  \/ WriteOpCode \/ WriteCells \/ WriteText \/ WriteList \/ WriteNested
  \/ Transmit
  \/ ReadOpCode \/ ReadCells \/ ReadText \/ ReadList \/ ReadNested \/ Finish

Spec == Init /\ [][Next]_vars
-----------------------------------------------------------------------------
(* Properties. *)

IsCut == Len(wire) < whole
IsKnown == Root.index < link.known

\* What a whole stream of a known message brings: the object that was sent,
\* field by field and element by element, with nothing left on the stream,
\* whatever the languages and byte orders of the two ends.  Only a new object
\* of C#, whose strings are null, cannot be sent.
DeliveredIntact ==
  phase \in Ended /\ ~IsCut /\ IsKnown =>
    IF phase = "failed" THEN link.fresh /\ link.from.lang = "csharp"
    ELSE phase = "done" /\ got = sent /\ pos = Len(wire)

\* The places of all the numbers, strings and lists of a struct, for an
\* object with these lengths.
RECURSIVE PlacesOf(_, _, _)
PlacesOf(node, prefix, object) ==
  UNION {
    LET f == node.fields[k]
        indices == IF ~f.array.is_array THEN {0}
                   ELSE IF f.array.is_static_array THEN 1..f.array.static_array_len
                   ELSE 1..(object[Append(prefix, <<k, 0>>)][1].val - 1)
    IN  (IF f.array.is_array /\ ~f.array.is_static_array
           THEN {Append(prefix, <<k, 0>>)} ELSE {})
        \cup UNION {IF f.type.full \in BasicTypes THEN {Append(prefix, <<k, i>>)}
                    ELSE PlacesOf(NodeOf(Document, f.type.type),
                                  Append(prefix, <<k, i>>), object) : i \in indices}
    : k \in DOMAIN node.fields}

\* Serialize writes every field of the message and of its structs, each once:
\* what the stream carries is what the bp file declares.
NothingLeftOut ==
  phase = "sent" => DOMAIN sent = PlacesOf(Root, <<>>, sent)

\* An object that C++ returns is the one that was sent, although its reads
\* check the stream in four different ways (functions.cpp:5-25).  A stream
\* that was cut off is taken only from a file, if all that is missing is padding.
CppObjectIsWhole ==
  phase = "done" /\ Lang = "cpp" => got = sent /\ (IsCut => link.file)

IsText(path) == TypeAt(Document, link.msg, path) = "string"

\* What Python and C# return of a stream that was cut off.  Everything that
\* arrived is in its place.  What did not is the end of one text, and in C#,
\* which ignores how much Read could fill (functions.cs:218), numbers of arrays
\* and lists, whose bytes are then wrong; never a single number or a length.
OnlyATailIsLost ==
  phase = "done" /\ Lang # "cpp" =>
    LET harmed == {p \in DOMAIN sent : got[p] # sent[p]}
    IN  /\ DOMAIN got = DOMAIN sent
        /\ \A p \in DOMAIN sent : \A b \in DOMAIN sent[p] :
             sent[p][b] \in ToSet(wire) => b \in DOMAIN got[p] /\ got[p][b] = sent[p][b]
        /\ \A p \in harmed : IF IsText(p) THEN IsPrefix(got[p], sent[p])
                             ELSE Lang = "csharp" /\ Last(p)[2] > 0
        /\ \A p, q \in harmed : IsText(p) /\ IsText(q) => p = q

\* A message the receiver does not know is refused: None, null or nullptr,
\* never an object of another class and never an exception.
UnknownIsRefused ==
  ~IsKnown => /\ phase \notin {"reading", "done"}
              /\ phase = "threw" => IsCut
=============================================================================
