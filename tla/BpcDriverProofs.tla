--------------------------- MODULE BpcDriverProofs ---------------------------
(***************************************************************************)
(* Theorems about one run of the command, for any files, any command line  *)
(* and any contents of the disk: what happens to files, streams and        *)
(* strings, and that each step is one BpcCommand allows.                   *)
(***************************************************************************)
EXTENDS BpcDriver, TLAPS

Valid == command.kind = "compile" /\ Option(0) # NoPath

IsOpened(s) == stream[s] # "null"

IsGood == parsed \in {"clean", "recovered"}

\* The streams: opened one after the other, closed one after the other.
StreamsInv ==
  /\ \A s \in Slots : IsOpened(s) => Option(s) \in Paths
  /\ \A s \in Outputs : IsOpened(s) => Option(s) \notin locked
  /\ pc \in {"options", "reference", "compile", "parse"} => slot = 0
  /\ pc = "write" => slot \in Outputs
  /\ pc = "options" => \A s \in Slots : stream[s] = "null"
  /\ pc = "open" => \A s \in Slots : s >= slot => stream[s] = "null"
  /\ pc \in {"open", "reference", "compile", "parse", "write", "release"} =>
       \A s \in Slots : stream[s] # "closed"
  /\ pc = "close" => \A s \in Slots : s < slot => stream[s] # "open"
  /\ pc = "exited" => \A s \in Slots : stream[s] # "open"

\* The generators hold the open outputs from bpcgen_init_code_file to
\* bpcgen_free_code_file.
HeldInv ==
  /\ pc \in {"parse", "write", "release"} => held = {s \in Outputs : IsOpened(s)}
  /\ pc \notin {"parse", "write", "release"} => held = {}

\* The outcome of the parse and the result of the command.
ResultInv ==
  /\ pc \in {"options", "open", "reference", "compile", "parse"} =>
       parsed = "none" /\ result = 0
  /\ pc = "write" => IsGood
  /\ pc = "release" => parsed # "none"
  /\ pc = "close" => parsed # "none" \/ result = 1
  /\ IsGood => result = 0
  /\ parsed = "failing" => result = 1
  /\ pc = "exited" /\ parsed = "none" /\ result = 0 => \A s \in Slots : stream[s] = "null"

\* A complete command is what got this far, and the strings are freed.
CommandInv ==
  /\ pc \notin {"options", "exited"} => Valid
  /\ pc \in {"options", "exited"} => strings = {}

\* An output that was opened is empty until it is written.
EmptyInv ==
  ~IsGood => \A s \in Outputs : IsOpened(s) => disk[Option(s)] = "empty"

\* The outputs are filled in order; one that is not empty before its turn has
\* the name of one that was filled.
WriteInv ==
  pc = "write" => \A s \in Outputs : IsOpened(s) =>
    /\ disk[Option(s)] \in {"empty", "code", "partial"}
    /\ s < slot => disk[Option(s)] # "empty"
    /\ disk[Option(s)] # "empty" =>
         \E t \in Outputs : t < slot /\ Option(t) = Option(s)

\* Behind the generators all of them have code.
FilledInv ==
  IsGood /\ pc # "write" => \A s \in Outputs : IsOpened(s) =>
    disk[Option(s)] \in {"code", "partial"}

\* Why an output may be cut short.
MayBePartial(s) == DiskMayFill \/ \E t \in Outputs \ {s} : Option(t) = Option(s)

PartialInv ==
  \A s \in Outputs : IsOpened(s) /\ disk[Option(s)] = "partial" => MayBePartial(s)

\* What one run of the command maintains.
IInv ==
  /\ TypeOK
  /\ StreamsInv
  /\ HeldInv
  /\ ResultInv
  /\ CommandInv
  /\ OnlyOutputsChange
  /\ EmptyInv
  /\ WriteInv
  /\ FilledInv
  /\ PartialInv

\* The names an option may have.
LEMMA OptionFacts ==
  ASSUME TypeOK, NEW s \in Slots
  PROVE  Option(s) \in Paths \cup {NoPath}
BY DriverAssumption DEF TypeOK, Option

\* The slots as numbers.
LEMMA SlotFacts ==
  /\ Slots = 0..5 /\ Outputs \subseteq Slots /\ 0 \notin Outputs
  /\ \A s \in Slots : s # 0 => s \in Outputs
BY DEF Slots, Outputs

\* Before the first step nothing is open and nothing has changed.
LEMMA InitIInv == Init => IInv
<1> SUFFICES ASSUME Init PROVE IInv
  OBVIOUS
<1> USE DEF Init
<1>1. TypeOK
  BY DriverAssumption, SlotFacts DEF TypeOK, Contents, Sources
<1>2. StreamsInv
  BY SlotFacts DEF StreamsInv, IsOpened
<1>3. HeldInv /\ ResultInv /\ CommandInv
  BY DEF HeldInv, ResultInv, CommandInv, IsGood
<1>4. OnlyOutputsChange /\ EmptyInv /\ WriteInv /\ FilledInv /\ PartialInv
  BY SlotFacts DEF OnlyOutputsChange, EmptyInv, WriteInv, FilledInv, PartialInv, IsOpened, IsGood
<1> QED
  BY <1>1, <1>2, <1>3, <1>4 DEF IInv

\* A step that leaves the disk and which streams were opened alone, and does
\* not enter or leave the generators, keeps what is known of the disk.
LEMMA DiskQuiet ==
  ASSUME IInv,
         UNCHANGED <<command, locked, before, disk>>,
         \A s \in Slots : IsOpened(s)' <=> IsOpened(s),
         IsGood' <=> IsGood, pc # "write", pc' # "write"
  PROVE  /\ OnlyOutputsChange' /\ EmptyInv' /\ WriteInv'
         /\ FilledInv' /\ PartialInv'
<1> USE SlotFacts
<1>0. \A s \in Slots : Option(s)' = Option(s)
  BY DEF Option
<1>1. OnlyOutputsChange'
  <2>1. Named' = Named
    BY <1>0 DEF Named
  <2> QED
    BY <1>0, <2>1 DEF IInv, OnlyOutputsChange
<1>2. EmptyInv' /\ FilledInv' /\ WriteInv'
  BY <1>0 DEF IInv, EmptyInv, FilledInv, WriteInv
<1>3. PartialInv'
  BY <1>0 DEF IInv, PartialInv, MayBePartial
<1> QED
  BY <1>1, <1>2, <1>3

\* bpccmd_get_parsed_args, and the return of main without arguments.
LEMMA OptionsStep == IInv /\ Options => IInv'
<1> SUFFICES ASSUME IInv, Options PROVE IInv'
  OBVIOUS
<1> USE SlotFacts
<1>1. /\ pc = "options" /\ pc' \in {"open", "exited"}
      /\ pc' = "open" => Valid /\ strings' = {"options"}
      /\ pc' = "exited" => strings' = strings
      /\ UNCHANGED <<command, locked, before, slot, disk, stream, held, parsed, result>>
  BY DEF Options, Valid
<1>2. TypeOK'
  BY <1>1 DEF IInv, TypeOK
<1>3. StreamsInv'
  BY <1>1 DEF IInv, StreamsInv, IsOpened, Option
<1>4. HeldInv' /\ ResultInv' /\ CommandInv'
  BY <1>1 DEF IInv, HeldInv, ResultInv, CommandInv, StreamsInv, IsOpened, IsGood, Valid, Option
<1> QED
  BY <1>1, <1>2, <1>3, <1>4, DiskQuiet DEF IInv, IsOpened, IsGood

\* One fopen.
LEMMA OpenStep == IInv /\ Open => IInv'
<1> SUFFICES ASSUME IInv, Open PROVE IInv'
  OBVIOUS
<1> USE SlotFacts
<1>1. /\ pc = "open" /\ slot \in Slots /\ Valid
      /\ pc' \in {"open", "reference"}
      /\ pc' = "open" => slot' = slot + 1 /\ slot # 5
      /\ pc' = "reference" => slot' = 0 /\ slot = 5
      /\ UNCHANGED <<command, locked, before, held, strings, parsed, result>>
      /\ parsed = "none" /\ result = 0 /\ held = {}
  BY DEF IInv, TypeOK, Open, CommandInv, ResultInv, HeldInv
<1>2. \A s \in Slots : Option(s)' = Option(s)
  BY <1>1 DEF Option
<1>3. stream \in [Slots -> {"null", "open", "closed"}] /\ disk \in [Paths -> Contents]
  BY DEF IInv, TypeOK
<1>4. CASE ~Opens(slot)
  <2>1. UNCHANGED <<stream, disk>>
    BY <1>4 DEF Open
  <2>2. TypeOK'
    BY <1>1, <2>1 DEF IInv, TypeOK
  <2>3. StreamsInv'
    BY <1>1, <2>1 DEF IInv, StreamsInv, IsOpened, Option
  <2>4. HeldInv' /\ ResultInv' /\ CommandInv'
    BY <1>1, <2>1 DEF IInv, HeldInv, ResultInv, CommandInv, IsOpened, IsGood, Valid, Option
  <2> QED
    BY <1>1, <2>1, <2>2, <2>3, <2>4, DiskQuiet DEF IInv, IsOpened, IsGood
<1>5. CASE Opens(slot)
  <2>1. /\ stream' = [stream EXCEPT ![slot] = "open"]
        /\ disk' = IF slot = 0 THEN disk ELSE [disk EXCEPT ![Option(slot)] = "empty"]
    BY <1>5 DEF Open
  <2>2. Option(slot) \in Paths /\ (slot # 0 => Option(slot) \notin locked)
    BY <1>1, <1>5, OptionFacts DEF Opens, IInv
  <2>3. /\ \A s \in Slots : s # slot => stream'[s] = stream[s]
        /\ stream'[slot] = "open"
        /\ stream' \in [Slots -> {"null", "open", "closed"}]
    BY <1>1, <1>3, <2>1
  <2>4. /\ disk' \in [Paths -> Contents]
        /\ \A p \in Paths : disk'[p] = disk[p] \/ (slot # 0 /\ p = Option(slot))
        /\ \A p \in Paths : disk'[p] = disk[p] \/ disk'[p] = "empty"
        /\ slot # 0 => disk'[Option(slot)] = "empty"
    <3>1. "empty" \in Contents
      BY DEF Contents
    <3> QED
      BY <1>3, <2>1, <2>2, <3>1
  <2>5. TypeOK'
    BY <1>1, <2>3, <2>4 DEF IInv, TypeOK
  <2>6. StreamsInv'
    BY <1>1, <1>2, <2>2, <2>3 DEF IInv, StreamsInv, IsOpened
  <2>7. HeldInv' /\ ResultInv' /\ CommandInv'
    BY <1>1, <1>2 DEF IInv, HeldInv, ResultInv, CommandInv, IsOpened, IsGood, Valid
  <2>8. OnlyOutputsChange'
    <3>1. Named' = Named
      BY <1>2 DEF Named
    <3>2. slot # 0 => Option(slot) \in Named
      BY <1>1, <2>2, DriverAssumption DEF Named
    <3> QED
      BY <1>1, <1>2, <2>2, <2>4, <3>1, <3>2 DEF IInv, OnlyOutputsChange, Valid
  <2>9. EmptyInv'
    <3> SUFFICES ASSUME NEW s \in Outputs, IsOpened(s)'
                 PROVE  disk'[Option(s)] = "empty"
      BY <1>2 DEF EmptyInv
    <3>1. CASE s = slot
      BY <3>1, <2>4
    <3>2. CASE s # slot
      <4>1. IsOpened(s) /\ Option(s) \in Paths /\ disk[Option(s)] = "empty"
        BY <3>2, <1>1, <2>3 DEF IInv, IsOpened, StreamsInv, EmptyInv, IsGood
      <4> QED
        BY <4>1, <2>4
    <3> QED
      BY <3>1, <3>2
  <2>10. WriteInv' /\ FilledInv'
    BY <1>1 DEF WriteInv, FilledInv, IsGood
  <2>11. PartialInv'
    BY <2>9, <1>1 DEF PartialInv, EmptyInv, IsGood
  <2> QED
    BY <2>5, <2>6, <2>7, <2>8, <2>9, <2>10, <2>11 DEF IInv
<1> QED
  BY <1>4, <1>5

\* The reference of the header, and the options are freed.
LEMMA ReferenceStep == IInv /\ Reference => IInv'
<1> SUFFICES ASSUME IInv, Reference PROVE IInv'
  OBVIOUS
<1> USE SlotFacts
<1>1. /\ pc = "reference" /\ pc' = "compile"
      /\ strings' \in SUBSET {"options", "ref_cpp_relative_hdr", "hpp_reference"}
      /\ UNCHANGED <<command, locked, before, slot, disk, stream, held, parsed, result>>
  BY DEF Reference
<1>2. TypeOK'
  BY <1>1 DEF IInv, TypeOK
<1>3. StreamsInv'
  BY <1>1 DEF IInv, StreamsInv, IsOpened, Option
<1>4. HeldInv' /\ ResultInv' /\ CommandInv'
  BY <1>1 DEF IInv, HeldInv, ResultInv, CommandInv, IsOpened, IsGood, Valid, Option
<1> QED
  BY <1>1, <1>2, <1>3, <1>4, DiskQuiet DEF IInv, IsOpened, IsGood

\* bpcyy_run_compiler without an input.
LEMMA NoInputStep == IInv /\ NoInput => IInv'
<1> SUFFICES ASSUME IInv, NoInput PROVE IInv'
  OBVIOUS
<1> USE SlotFacts
<1>1. /\ pc = "compile" /\ pc' = "close" /\ result' = 1
      /\ UNCHANGED <<command, locked, before, slot, disk, stream, held, strings, parsed>>
  BY DEF NoInput
<1>2. TypeOK'
  BY <1>1 DEF IInv, TypeOK
<1>3. StreamsInv'
  BY <1>1 DEF IInv, StreamsInv, IsOpened, Option
<1>4. HeldInv' /\ ResultInv' /\ CommandInv'
  BY <1>1 DEF IInv, HeldInv, ResultInv, CommandInv, IsOpened, IsGood, Valid, Option
<1> QED
  BY <1>1, <1>2, <1>3, <1>4, DiskQuiet DEF IInv, IsOpened, IsGood

\* bpcgen_init_code_file.
LEMMA InitCodeFileStep == IInv /\ InitCodeFile => IInv'
<1> SUFFICES ASSUME IInv, InitCodeFile PROVE IInv'
  OBVIOUS
<1> USE SlotFacts
<1>1. /\ pc = "compile" /\ pc' = "parse"
      /\ held' = {s \in Outputs : stream[s] # "null"}
      /\ strings' \in SUBSET {"options", "ref_cpp_relative_hdr", "hpp_reference"}
      /\ UNCHANGED <<command, locked, before, slot, disk, stream, parsed, result>>
  BY DEF InitCodeFile, IInv, TypeOK
<1>2. TypeOK'
  BY <1>1 DEF IInv, TypeOK
<1>3. StreamsInv'
  BY <1>1 DEF IInv, StreamsInv, IsOpened, Option
<1>4. HeldInv' /\ ResultInv' /\ CommandInv'
  BY <1>1 DEF IInv, HeldInv, ResultInv, CommandInv, IsOpened, IsGood, Valid, Option
<1> QED
  BY <1>1, <1>2, <1>3, <1>4, DiskQuiet DEF IInv, IsOpened, IsGood

\* yyparse.
LEMMA ParseStep == IInv /\ Parse => IInv'
<1> SUFFICES ASSUME IInv, Parse PROVE IInv'
  OBVIOUS
<1> USE SlotFacts
<1>1. /\ pc = "parse" /\ slot = 0 /\ parsed = "none" /\ result = 0
      /\ parsed' \in Sources
      /\ UNCHANGED <<command, locked, before, disk, stream, held, strings>>
  BY DEF Parse, IInv, StreamsInv, ResultInv, Sources
<1>2. CASE parsed' = "failing"
  <2>1. pc' = "release" /\ result' = 1 /\ slot' = slot
    BY <1>2 DEF Parse
  <2>2. TypeOK'
    BY <1>1, <2>1 DEF IInv, TypeOK
  <2>3. StreamsInv'
    BY <1>1, <2>1 DEF IInv, StreamsInv, IsOpened, Option
  <2>4. HeldInv' /\ ResultInv' /\ CommandInv'
    BY <1>1, <1>2, <2>1
       DEF IInv, HeldInv, ResultInv, CommandInv, IsOpened, IsGood, Valid, Option
  <2> QED
    BY <1>1, <1>2, <2>1, <2>2, <2>3, <2>4, DiskQuiet DEF IInv, IsOpened, IsGood
<1>3. CASE parsed' # "failing"
  <2>1. pc' = "write" /\ result' = 0 /\ slot' = 1 /\ IsGood' /\ ~IsGood
    BY <1>1, <1>3 DEF Parse, Sources, IsGood
  <2>2. TypeOK'
    BY <1>1, <2>1 DEF IInv, TypeOK
  <2>3. StreamsInv'
    BY <1>1, <2>1 DEF IInv, StreamsInv, IsOpened, Option, Outputs
  <2>4. HeldInv' /\ ResultInv' /\ CommandInv'
    BY <1>1, <1>3, <2>1
       DEF IInv, HeldInv, ResultInv, CommandInv, IsOpened, IsGood, Valid, Option
  <2>5. OnlyOutputsChange'
    BY <1>1 DEF IInv, OnlyOutputsChange, Named, Option
  <2>6. \A s \in Outputs : IsOpened(s)' => disk'[Option(s)'] = "empty"
    BY <1>1, <2>1 DEF IInv, EmptyInv, IsOpened, Option
  <2>7. EmptyInv' /\ FilledInv' /\ PartialInv'
    BY <2>1, <2>6 DEF EmptyInv, FilledInv, PartialInv
  <2>8. WriteInv'
    BY <2>1, <2>6 DEF WriteInv, Outputs
  <2> QED
    BY <2>2, <2>3, <2>4, <2>5, <2>7, <2>8 DEF IInv
<1> QED
  BY <1>2, <1>3

\* One language is written.
LEMMA WriteStep == IInv /\ Write => IInv'
<1> SUFFICES ASSUME IInv, Write PROVE IInv'
  OBVIOUS
<1> USE SlotFacts
<1>1. /\ pc = "write" /\ slot \in Outputs /\ slot \in Slots /\ IsGood /\ Valid
      /\ pc' \in {"write", "release"}
      /\ pc' = "write" => slot' = slot + 1 /\ slot # 5
      /\ pc' = "release" => slot' = 0 /\ slot = 5
      /\ held = {s \in Outputs : IsOpened(s)}
      /\ UNCHANGED <<command, locked, before, stream, held, strings, parsed, result>>
  BY DEF Write, IInv, StreamsInv, ResultInv, CommandInv, HeldInv
<1>2. \A s \in Slots : Option(s)' = Option(s) /\ (IsOpened(s)' <=> IsOpened(s))
  BY <1>1 DEF Option, IsOpened
<1>3. disk \in [Paths -> Contents] /\ \A s \in Outputs : IsOpened(s) => Option(s) \in Paths
  BY DEF IInv, TypeOK, StreamsInv
<1>4. /\ disk' \in [Paths -> Contents]
      /\ ~IsOpened(slot) => disk' = disk
      /\ IsOpened(slot) =>
           /\ \A p \in Paths : p # Option(slot) => disk'[p] = disk[p]
           /\ disk'[Option(slot)] \in {"code", "partial"}
           /\ disk'[Option(slot)] = "partial" =>
                DiskMayFill \/ disk[Option(slot)] # "empty"
  <2>1. CASE ~IsOpened(slot)
    BY <2>1, <1>1, <1>3 DEF Write
  <2>2. CASE IsOpened(slot)
    <3>1. slot \in held /\ Option(slot) \in Paths
      BY <2>2, <1>1, <1>3
    <3>2. PICK c \in IF DiskMayFill \/ disk[Option(slot)] # "empty"
                       THEN {"code", "partial"} ELSE {"code"} :
            disk' = [disk EXCEPT ![Option(slot)] = c]
      BY <3>1 DEF Write
    <3>3. c \in {"code", "partial"} /\ c \in Contents
      BY <3>2 DEF Contents
    <3>4. c = "partial" => DiskMayFill \/ disk[Option(slot)] # "empty"
      BY <3>2
    <3>5. /\ disk' \in [Paths -> Contents] /\ disk'[Option(slot)] = c
          /\ \A p \in Paths : p # Option(slot) => disk'[p] = disk[p]
      BY <1>3, <3>1, <3>2, <3>3
    <3> QED
      BY <2>2, <3>3, <3>4, <3>5
  <2> QED
    BY <2>1, <2>2
<1>5. TypeOK'
  <2>1. slot' \in Slots
    BY <1>1
  <2> QED
    BY <1>1, <1>4, <2>1 DEF IInv, TypeOK
<1>6. StreamsInv'
  <2>1. pc' = "write" => slot' \in Outputs
    BY <1>1 DEF Outputs
  <2> QED
    BY <1>1, <1>2, <2>1 DEF IInv, StreamsInv, IsOpened
<1>7. HeldInv' /\ ResultInv' /\ CommandInv'
  BY <1>1, <1>2 DEF IInv, HeldInv, ResultInv, CommandInv, IsOpened, IsGood, Valid, Option
<1>8. OnlyOutputsChange'
  <2>1. Named' = Named
    BY <1>2 DEF Named
  <2>2. IsOpened(slot) => Option(slot) \in Named \ locked
    BY <1>1, <1>3, DriverAssumption DEF Named, IInv, StreamsInv
  <2>3. \A p \in Paths : disk'[p] # disk[p] => IsOpened(slot) /\ p = Option(slot)
    BY <1>4
  <2> QED
    BY <1>1, <1>2, <2>1, <2>2, <2>3 DEF IInv, OnlyOutputsChange, Valid
<1>9. EmptyInv'
  BY <1>1 DEF EmptyInv, IsGood
<1>10. \A s \in Outputs : IsOpened(s) =>
         /\ disk'[Option(s)] \in {"empty", "code", "partial"}
         /\ s < slot + 1 => disk'[Option(s)] # "empty"
         /\ disk'[Option(s)] # "empty" =>
              \E t \in Outputs : t < slot + 1 /\ Option(t) = Option(s)
  <2> SUFFICES ASSUME NEW s \in Outputs, IsOpened(s)
               PROVE  /\ disk'[Option(s)] \in {"empty", "code", "partial"}
                      /\ s < slot + 1 => disk'[Option(s)] # "empty"
                      /\ disk'[Option(s)] # "empty" =>
                           \E t \in Outputs : t < slot + 1 /\ Option(t) = Option(s)
    OBVIOUS
  <2>0. /\ disk[Option(s)] \in {"empty", "code", "partial"}
        /\ s < slot => disk[Option(s)] # "empty"
        /\ disk[Option(s)] # "empty" => \E t \in Outputs : t < slot /\ Option(t) = Option(s)
    BY <1>1 DEF IInv, WriteInv
  <2>1. CASE IsOpened(slot) /\ Option(s) = Option(slot)
    BY <2>1, <1>1, <1>4
  <2>2. CASE ~(IsOpened(slot) /\ Option(s) = Option(slot))
    <3>1. disk'[Option(s)] = disk[Option(s)] /\ s # slot
      BY <2>2, <1>3, <1>4
    <3>2. s \in Int /\ slot \in Int /\ (s < slot + 1 => s < slot)
      BY <1>1, <3>1
    <3>3. \A t \in Outputs : t < slot => t < slot + 1
      BY <1>1
    <3> QED
      BY <2>0, <3>1, <3>2, <3>3
  <2> QED
    BY <2>1, <2>2
<1>11. WriteInv'
  BY <1>1, <1>2, <1>10 DEF WriteInv
<1>12. FilledInv'
  <2> SUFFICES ASSUME pc' = "release", NEW s \in Outputs, IsOpened(s)
               PROVE  disk'[Option(s)] \in {"code", "partial"}
    BY <1>1, <1>2 DEF FilledInv
  <2>1. s < slot + 1
    BY <1>1
  <2> QED
    BY <2>1, <1>10
<1>13. PartialInv'
  <2> SUFFICES ASSUME NEW s \in Outputs, IsOpened(s), disk'[Option(s)] = "partial"
               PROVE  MayBePartial(s)
    BY <1>2 DEF PartialInv, MayBePartial
  <2>1. CASE ~(IsOpened(slot) /\ Option(s) = Option(slot))
    <3>1. disk[Option(s)] = "partial"
      BY <2>1, <1>3, <1>4
    <3> QED
      BY <3>1 DEF IInv, PartialInv
  <2>2. CASE IsOpened(slot) /\ Option(s) = Option(slot) /\ s # slot
    BY <2>2, <1>1 DEF MayBePartial
  <2>3. CASE IsOpened(slot) /\ s = slot
    <3>1. DiskMayFill \/ disk[Option(slot)] # "empty"
      BY <2>3, <1>4
    <3>2. disk[Option(slot)] # "empty" =>
            \E t \in Outputs : t < slot /\ Option(t) = Option(slot)
      BY <2>3, <1>1 DEF IInv, WriteInv
    <3>3. \A t \in Outputs : t < slot => t # slot
      BY <1>1
    <3> QED
      BY <2>3, <3>1, <3>2, <3>3 DEF MayBePartial
  <2> QED
    BY <2>1, <2>2, <2>3
<1> QED
  BY <1>5, <1>6, <1>7, <1>8, <1>9, <1>11, <1>12, <1>13 DEF IInv

\* bpcgen_free_code_file.
LEMMA ReleaseStep == IInv /\ Release => IInv'
<1> SUFFICES ASSUME IInv, Release PROVE IInv'
  OBVIOUS
<1> USE SlotFacts
<1>1. /\ pc = "release" /\ pc' = "close" /\ slot' = 0 /\ held' = {}
      /\ strings' \in SUBSET {"options", "ref_cpp_relative_hdr", "hpp_reference"}
      /\ UNCHANGED <<command, locked, before, disk, stream, parsed, result>>
  BY DEF Release, IInv, TypeOK
<1>2. TypeOK'
  BY <1>1 DEF IInv, TypeOK
<1>3. StreamsInv'
  BY <1>1 DEF IInv, StreamsInv, IsOpened, Option
<1>4. HeldInv' /\ ResultInv' /\ CommandInv'
  BY <1>1 DEF IInv, HeldInv, ResultInv, CommandInv, IsOpened, IsGood, Valid, Option
<1> QED
  BY <1>1, <1>2, <1>3, <1>4, DiskQuiet DEF IInv, IsOpened, IsGood

\* One fclose, and behind the last the return of main.
LEMMA CloseStep == IInv /\ Close => IInv'
<1> SUFFICES ASSUME IInv, Close PROVE IInv'
  OBVIOUS
<1> USE SlotFacts
<1>1. /\ pc = "close" /\ slot \in Slots
      /\ pc' \in {"close", "exited"}
      /\ pc' = "close" => slot' = slot + 1 /\ slot # 5 /\ strings' = strings
      /\ pc' = "exited" => slot' = slot /\ slot = 5 /\ strings' = {}
      /\ UNCHANGED <<command, locked, before, disk, held, parsed, result>>
  BY DEF Close, IInv, TypeOK
<1>2. stream \in [Slots -> {"null", "open", "closed"}]
  BY DEF IInv, TypeOK
<1>3. /\ stream' \in [Slots -> {"null", "open", "closed"}]
      /\ \A s \in Slots : s # slot => stream'[s] = stream[s]
      /\ stream'[slot] # "open"
      /\ \A s \in Slots : stream'[s] = "null" <=> stream[s] = "null"
  BY <1>1, <1>2 DEF Close
<1>4. \A s \in Slots : Option(s)' = Option(s) /\ (IsOpened(s)' <=> IsOpened(s))
  BY <1>1, <1>3 DEF Option, IsOpened
<1>5. TypeOK'
  <2>1. slot' \in Slots
    BY <1>1
  <2>2. strings' \in SUBSET {"options", "ref_cpp_relative_hdr", "hpp_reference"}
    BY <1>1 DEF IInv, TypeOK
  <2>3. pc' \in {"options", "open", "reference", "compile", "parse", "write",
                 "release", "close", "exited"}
    BY <1>1
  <2> QED
    BY <1>1, <1>3, <2>1, <2>2, <2>3 DEF IInv, TypeOK
<1>6. StreamsInv'
  <2>1. \A s \in Slots : s < slot + 1 => stream'[s] # "open"
    BY <1>1, <1>3 DEF IInv, StreamsInv
  <2> QED
    BY <1>1, <1>4, <2>1 DEF IInv, StreamsInv
<1>7. HeldInv' /\ ResultInv' /\ CommandInv'
  BY <1>1, <1>4 DEF IInv, HeldInv, ResultInv, CommandInv, IsGood, Valid
<1> QED
  BY <1>1, <1>4, <1>5, <1>6, <1>7, DiskQuiet DEF IInv, IsGood

\* Every step of the command keeps it.
LEMMA NextIInv == IInv /\ [Next]_vars => IInv'
<1> SUFFICES ASSUME IInv, [Next]_vars PROVE IInv'
  OBVIOUS
<1>1. CASE UNCHANGED vars
  BY <1>1 DEF vars, IInv, TypeOK, StreamsInv, HeldInv, ResultInv, CommandInv,
              OnlyOutputsChange, EmptyInv, WriteInv, FilledInv, PartialInv,
              MayBePartial, Valid, IsOpened, IsGood, Option, Named
<1> QED
  BY <1>1, OptionsStep, OpenStep, ReferenceStep, NoInputStep, InitCodeFileStep,
     ParseStep, WriteStep, ReleaseStep, CloseStep DEF Next

\* The strengthened invariant holds in every state of a run.
THEOREM DriverInvariant == Spec => []IInv
BY InitIInv, NextIInv, PTL DEF Spec

\* Every variable of the driver has the values the code can give it.
THEOREM TypeCorrect == Spec => []TypeOK
<1>1. IInv => TypeOK
  BY DEF IInv
<1> QED
  BY <1>1, DriverInvariant, PTL

\* No file but an output of a complete command ever changes.
THEOREM OutputsOnly == Spec => []OnlyOutputsChange
<1>1. IInv => OnlyOutputsChange
  BY DEF IInv
<1> QED
  BY <1>1, DriverInvariant, PTL

\* A failed compilation leaves no code in any output.
THEOREM NoCodeOnFailure == Spec => []FailureLeavesNoCode
<1>1. IInv => FailureLeavesNoCode
  BY SlotFacts DEF IInv, FailureLeavesNoCode, EmptyInv, IsGood, IsOpened, ResultInv, TypeOK
<1> QED
  BY <1>1, DriverInvariant, PTL

\* A successful one has filled every output that was opened.
THEOREM AllCodeOnSuccess == Spec => []SuccessWritesAll
<1>1. IInv => SuccessWritesAll
  <2> SUFFICES ASSUME IInv, Exited, result = 0, NEW s \in Outputs, stream[s] = "closed"
               PROVE  /\ disk[Option(s)] \in {"code", "partial"}
                      /\ disk[Option(s)] = "partial" =>
                           DiskMayFill \/ \E t \in Outputs \ {s} : Option(t) = Option(s)
    BY DEF SuccessWritesAll
  <2>1. IsOpened(s) /\ pc = "exited"
    BY DEF IsOpened, Exited
  <2>2. IsGood
    BY <2>1, SlotFacts DEF IInv, TypeOK, ResultInv, IsGood, IsOpened, Sources
  <2> QED
    BY <2>1, <2>2 DEF IInv, FilledInv, PartialInv, MayBePartial
<1> QED
  BY <1>1, DriverInvariant, PTL

\* The generators never hold a stream that its owner has closed.
THEOREM NoDangling == Spec => []NoDanglingStream
<1>1. IInv => NoDanglingStream
  BY SlotFacts DEF IInv, NoDanglingStream, HeldInv, StreamsInv, IsOpened, TypeOK
<1> QED
  BY <1>1, DriverInvariant, PTL

\* When main returns everything was closed and freed.
THEOREM NoLeak == Spec => []NothingLeaks
<1>1. IInv => NothingLeaks
  BY DEF IInv, NothingLeaks, Exited, HeldInv, StreamsInv, CommandInv
<1> QED
  BY <1>1, DriverInvariant, PTL
-----------------------------------------------------------------------------
(* The promise of BpcCommand. *)

\* What Promise calls emptied.
Emptied == {Option(s) : s \in {t \in Outputs : stream[t] # "null"}}

\* The verdict the user has, function by function.
LEMMA VerdictFacts ==
  ASSUME IInv
  PROVE  /\ pc \in {"options", "open", "reference", "compile", "parse"} => Verdict = "none"
         /\ pc = "write" => Verdict = "good"
         /\ pc \in {"release", "close"} => Verdict = IF result = 1 THEN "bad" ELSE "good"
         /\ pc = "exited" =>
              Verdict = IF result = 1 THEN "bad"
                        ELSE IF parsed # "none" THEN "done" ELSE "refused"
<1>1. result \in {0, 1}
  BY DEF IInv, TypeOK
<1>2. CASE pc \in {"options", "open", "reference", "compile", "parse"}
  BY <1>2 DEF IInv, ResultInv, Verdict, Exited
<1>3. CASE pc = "write"
  <2>1. parsed # "none" /\ result = 0
    BY <1>3 DEF IInv, ResultInv, IsGood
  <2> QED
    BY <1>3, <2>1 DEF Verdict, Exited
<1>4. CASE pc \in {"release", "close"}
  <2>1. result = 0 => parsed # "none"
    BY <1>4 DEF IInv, ResultInv
  <2> QED
    BY <1>1, <1>4, <2>1 DEF Verdict, Exited
<1>5. CASE pc = "exited"
  BY <1>1, <1>5 DEF Verdict, Exited
<1> QED
  BY <1>2, <1>3, <1>4, <1>5

\* A step that leaves the disk and which streams were opened alone is seen
\* only by its verdict.
LEMMA QuietStep ==
  ASSUME IInv, UNCHANGED <<command, disk>>,
         \A s \in Slots : (stream'[s] # "null") <=> (stream[s] # "null"),
         Verdict' = Verdict
  PROVE  UNCHANGED Promise!vars
<1>1. \A s \in Outputs : (stream'[s] # "null") <=> (stream[s] # "null")
  BY SlotFacts
<1>2. \A s \in Outputs : Option(s)' = Option(s)
  BY DEF Option
<1>3. Emptied' = Emptied
  BY <1>1, <1>2 DEF Emptied
<1> QED
  BY <1>3 DEF Promise!vars, Emptied

\* Each step of the command is one BpcCommand allows, or one the disk does not
\* show.
LEMMA PromiseStep ==
  ASSUME IInv, IInv', [Next]_vars
  PROVE  [Promise!Next]_(Promise!vars)
<1> USE SlotFacts
<1>1. CASE UNCHANGED vars
  BY <1>1 DEF vars, Promise!vars, Verdict, Option, Exited
<1>2. CASE Options
  <2>1. /\ UNCHANGED <<command, disk, stream, parsed, result>> /\ pc = "options"
        /\ parsed = "none" /\ result = 0 /\ Verdict = "none"
        /\ \A s \in Slots : stream[s] = "null"
        /\ pc' \in {"open", "exited"}
    BY <1>2, VerdictFacts DEF Options, IInv, ResultInv, StreamsInv
  <2>2. CASE pc' = "open"
    <3>1. Verdict' = "none"
      BY <2>1, <2>2 DEF Verdict, Exited
    <3> QED
      BY <2>1, <3>1, QuietStep
  <2>3. CASE pc' = "exited"
    <3>1. Verdict' = "refused"
      BY <2>1, <2>3 DEF Verdict, Exited
    <3>2. Emptied = {} /\ Emptied' = {}
      BY <2>1 DEF Emptied
    <3> QED
      BY <2>1, <3>1, <3>2 DEF Promise!Next, Promise!Refuse, Emptied
  <2> QED
    BY <2>1, <2>2, <2>3
<1>3. CASE Open
  <2>1. /\ pc = "open" /\ slot \in Slots /\ pc' \in {"open", "reference"}
        /\ UNCHANGED <<command, parsed, result>>
        /\ parsed = "none" /\ result = 0 /\ Verdict = "none"
    BY <1>3, VerdictFacts DEF Open, IInv, TypeOK, ResultInv
  <2>2. Verdict' = "none"
    BY <2>1 DEF Verdict, Exited
  <2>3. stream \in [Slots -> {"null", "open", "closed"}] /\ stream[slot] = "null"
    BY <2>1 DEF IInv, TypeOK, StreamsInv
  <2>4. CASE Opens(slot) /\ slot # 0
    <3>1. /\ stream' = [stream EXCEPT ![slot] = "open"]
          /\ disk' = [disk EXCEPT ![Option(slot)] = "empty"]
          /\ slot \in Outputs /\ Option(slot) \in Paths
      BY <1>3, <2>1, <2>4, OptionFacts DEF Open, Opens, IInv
    <3>2. \A s \in Outputs : Option(s)' = Option(s)
      BY <2>1 DEF Option
    <3>3. \A s \in Outputs : stream'[s] # "null" <=> (stream[s] # "null" \/ s = slot)
      BY <2>3, <3>1
    <3>4. Emptied' = Emptied \cup {Option(slot)}
      BY <3>1, <3>2, <3>3 DEF Emptied
    <3>5. PICK p \in Paths : p = Option(slot)
      BY <3>1
    <3>6. Promise!Empty(p)
      BY <2>1, <2>2, <3>1, <3>4, <3>5 DEF Promise!Empty, Emptied
    <3> QED
      BY <3>6 DEF Promise!Next
  <2>5. CASE ~(Opens(slot) /\ slot # 0)
    <3>1. disk' = disk
      BY <1>3, <2>5 DEF Open
    <3>2. \A s \in Outputs : stream'[s] = stream[s]
      BY <1>3, <2>3, <2>5 DEF Open
    <3>3. \A s \in Outputs : Option(s)' = Option(s)
      BY <2>1 DEF Option
    <3>4. Emptied' = Emptied
      BY <3>2, <3>3 DEF Emptied
    <3> QED
      BY <2>1, <2>2, <3>1, <3>4 DEF Promise!vars, Emptied
  <2> QED
    BY <2>4, <2>5
<1>4. CASE Reference \/ InitCodeFile
  <2>1. UNCHANGED <<command, disk, stream>> /\ Verdict = "none" /\ Verdict' = "none"
    BY <1>4, VerdictFacts DEF Reference, InitCodeFile, Verdict, Exited, IInv, ResultInv
  <2> QED
    BY <2>1, QuietStep
<1>5. CASE NoInput \/ Parse
  <2>1. /\ UNCHANGED <<command, disk, stream>> /\ Verdict = "none" /\ result \in {0, 1}
        /\ result = 0 /\ parsed = "none"
    BY <1>5, VerdictFacts DEF NoInput, Parse, IInv, ResultInv, TypeOK
  <2>2. Verdict' \in {"bad", "good"}
    <3>1. CASE NoInput
      BY <3>1 DEF NoInput, Verdict
    <3>2. CASE Parse
      <4>1. CASE parsed' = "failing"
        BY <3>2, <4>1 DEF Parse, Verdict
      <4>2. CASE parsed' # "failing"
        <5>1. parsed' # "none" /\ result' = 0 /\ pc' = "write"
          BY <2>1, <3>2, <4>2 DEF Parse, Sources
        <5> QED
          BY <5>1 DEF Verdict, Exited
      <4> QED
        BY <4>1, <4>2
    <3> QED
      BY <1>5, <3>1, <3>2
  <2>3. \A s \in Outputs : Option(s)' = Option(s)
    BY <2>1 DEF Option
  <2>4. Emptied' = Emptied
    BY <2>1, <2>3 DEF Emptied
  <2> QED
    BY <2>1, <2>2, <2>4 DEF Promise!Next, Promise!Judge, Emptied
<1>6. CASE Write
  <2>1. /\ pc = "write" /\ pc' \in {"write", "release"} /\ slot \in Outputs
        /\ UNCHANGED <<command, stream, parsed, result>> /\ held = {s \in Outputs : IsOpened(s)}
        /\ parsed # "none" /\ result = 0 /\ Verdict = "good"
    BY <1>6, VerdictFacts DEF Write, IInv, StreamsInv, HeldInv, ResultInv, IsGood
  <2>2. Verdict' = "good"
    BY <2>1 DEF Verdict, Exited
  <2>3. \A s \in Outputs : Option(s)' = Option(s)
    BY <2>1 DEF Option
  <2>4. Emptied' = Emptied
    BY <2>1, <2>3 DEF Emptied
  <2>5. CASE slot \in held
    <3>1. \E c \in {"code", "partial"} : disk' = [disk EXCEPT ![Option(slot)] = c]
      BY <1>6, <2>5 DEF Write
    <3>2. Option(slot) \in Emptied /\ Option(slot) \in Paths
      BY <2>1, <2>5 DEF Emptied, IsOpened, IInv, StreamsInv
    <3>3. Promise!Fill(Option(slot))
      BY <2>1, <2>2, <2>4, <3>1, <3>2 DEF Promise!Fill, Emptied
    <3> QED
      BY <3>2, <3>3 DEF Promise!Next
  <2>6. CASE slot \notin held
    BY <1>6, <2>1, <2>2, <2>4, <2>6 DEF Write, Promise!vars, Emptied
  <2> QED
    BY <2>5, <2>6
<1>7. CASE Release
  <2>1. pc = "release" /\ pc' = "close" /\ UNCHANGED <<command, disk, stream, parsed, result>>
    BY <1>7 DEF Release
  <2>2. Verdict' = Verdict
    BY <2>1 DEF Verdict, Exited
  <2> QED
    BY <2>1, <2>2, QuietStep
<1>8. CASE Close
  <2>1. /\ pc = "close" /\ pc' \in {"close", "exited"}
        /\ UNCHANGED <<command, disk, parsed, result>> /\ result \in {0, 1}
        /\ stream \in [Slots -> {"null", "open", "closed"}] /\ slot \in Slots
        /\ result = 0 => parsed # "none"
    BY <1>8 DEF Close, IInv, TypeOK, ResultInv
  <2>2. \A s \in Slots : (stream'[s] # "null") <=> (stream[s] # "null")
    BY <1>8, <2>1 DEF Close
  <2>3. CASE pc' = "close" \/ result = 1
    <3>1. Verdict' = Verdict
      BY <2>1, <2>3 DEF Verdict, Exited
    <3> QED
      BY <2>1, <2>2, <3>1, QuietStep
  <2>4. CASE pc' = "exited" /\ result = 0
    <3>1. Verdict = "good" /\ Verdict' = "done"
      BY <2>1, <2>4 DEF Verdict, Exited
    <3>2. \A s \in Outputs : Option(s)' = Option(s)
      BY <2>1 DEF Option
    <3>3. Emptied' = Emptied
      BY <2>2, <3>2 DEF Emptied
    <3>4. IsGood
      BY <2>1, <2>4 DEF IInv, TypeOK, ResultInv, IsGood, Sources
    <3>5. \A p \in Emptied : disk[p] # "empty"
      BY <2>1, <3>4 DEF IInv, FilledInv, IsOpened, Emptied
    <3> QED
      BY <2>1, <3>1, <3>3, <3>5 DEF Promise!Next, Promise!Finish, Emptied
  <2> QED
    BY <2>1, <2>3, <2>4
<1> QED
  BY <1>1, <1>2, <1>3, <1>4, <1>5, <1>6, <1>7, <1>8 DEF Next

\* The command keeps the safety part of its promise, whatever the files and
\* the command line are: outputs are emptied before the input is judged, none
\* is filled without a good verdict, and all of them are with one.
THEOREM KeepsPromiseSafely == Spec => Promise!Init /\ [][Promise!Next]_(Promise!vars)
<1>1. Init => Promise!Init
  <2> SUFFICES ASSUME Init PROVE Promise!Init
    OBVIOUS
  <2>1. IInv
    BY InitIInv
  <2>2. Verdict = "none"
    BY <2>1, VerdictFacts DEF Init
  <2>3. Emptied = {}
    BY SlotFacts DEF Init, Emptied
  <2> QED
    BY <2>1, <2>2, <2>3 DEF Promise!Init, Emptied, IInv, TypeOK
<1> QED
  BY <1>1, DriverInvariant, PromiseStep, PTL DEF Spec
=============================================================================
