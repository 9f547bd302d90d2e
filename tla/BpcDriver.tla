----------------------------- MODULE BpcDriver -----------------------------
(***************************************************************************)
(* One run of the command: main, the options and streams of bpc_cmd.c,     *)
(* bpcyy_run_compiler around the parse, and the streams bpc_code_gen.c     *)
(* keeps for the generators.  The parse is one step with the outcomes      *)
(* BpcParser can have; the contents of a file are what they mean to the    *)
(* command.                                                                *)
(*                                                                         *)
(* Slot 0 is the input, the others are the outputs in the order of the     *)
(* code: Python, C#, C++ header, C++ source, Flatbuffers.                  *)
(***************************************************************************)
EXTENDS Integers, FiniteSets

CONSTANTS
  Paths,         \* names of files
  NoPath,        \* an option that is not given
  Commands,      \* [kind, option]: what the user may type
  Disks,         \* the contents the files may have before the run
  DiskMayFill    \* whether a file may be cut short when it is written

Outputs == 1..5
Slots == {0} \cup Outputs
CppSource == 4

\* bp files that compile, compile after errors that were recovered from, or
\* do not compile; no file, or one that cannot be read; anything else; what
\* the run makes of a file.
Sources  == {"clean", "recovered", "failing"}
Contents == Sources \cup {"absent", "other", "empty", "code", "partial"}

ASSUME DriverAssumption ==
  /\ NoPath \notin Paths
  /\ Commands \subseteq [kind : {"bad", "help", "version", "compile"},
                         option : [Slots -> Paths \cup {NoPath}]]
  /\ Disks \subseteq [Paths -> Contents]
  /\ DiskMayFill \in BOOLEAN

VARIABLES
  command,   \* the command line
  locked,    \* the files that cannot be opened for writing
  before,    \* the disk before the run
  pc,        \* the function that runs
  slot,      \* the stream its sequence of statements has reached
  disk,      \* the disk
  stream,    \* the FILE* of BPCCMD_PARSED_ARGS: "null", "open", "closed"
  held,      \* the FILE* of bpc_code_gen.c that are not NULL
  strings,   \* the heap strings that are not freed
  parsed,    \* outcome of yyparse, "none" before it
  result     \* what main returns

vars == <<command, locked, before, pc, slot, disk, stream, held, strings, parsed, result>>

Option(s) == command.option[s]

Init ==
  /\ command \in Commands /\ locked \in SUBSET Paths
  /\ before \in Disks /\ disk = before
  /\ pc = "options" /\ slot = 0
  /\ stream = [s \in Slots |-> "null"] /\ held = {} /\ strings = {}
  /\ parsed = "none" /\ result = 0
-----------------------------------------------------------------------------
(* bpccmd_get_parsed_args *)

\* Only a command that names an input goes on; main returns 0 otherwise.
Options ==
  /\ pc = "options"
  /\ IF command.kind = "compile" /\ Option(0) # NoPath
       THEN pc' = "open" /\ strings' = {"options"}
       ELSE pc' = "exited" /\ UNCHANGED strings
  /\ UNCHANGED <<command, locked, before, slot, disk, stream, held, parsed, result>>

\* bpcfs_fopen_glibfs succeeds.
Opens(s) ==
  /\ Option(s) # NoPath
  /\ IF s = 0 THEN disk[Option(s)] # "absent" ELSE Option(s) \notin locked

\* Mutant: the input is opened for writing too.
OpenAllForWriting ==
  /\ pc = "open"
  /\ IF Opens(slot)
       THEN /\ stream' = [stream EXCEPT ![slot] = "open"]
            /\ disk' = [disk EXCEPT ![Option(slot)] = "empty"]
       ELSE UNCHANGED <<stream, disk>>
  /\ IF slot = 5 THEN pc' = "reference" /\ slot' = 0 ELSE slot' = slot + 1 /\ UNCHANGED pc
  /\ UNCHANGED <<command, locked, before, held, strings, parsed, result>>

\* _bpccmd_alloc_parsed_args: the streams in order; to open an output is to
\* truncate it.
Open ==
  /\ pc = "open"
  /\ IF Opens(slot)
       THEN /\ stream' = [stream EXCEPT ![slot] = "open"]
            /\ disk' = IF slot = 0 THEN disk ELSE [disk EXCEPT ![Option(slot)] = "empty"]
       ELSE UNCHANGED <<stream, disk>>
  /\ IF slot = 5 THEN pc' = "reference" /\ slot' = 0 ELSE slot' = slot + 1 /\ UNCHANGED pc
  /\ UNCHANGED <<command, locked, before, held, strings, parsed, result>>

\* ref_cpp_relative_hdr, and _bpccmd_clean_static_value.
Reference ==
  /\ pc = "reference" /\ pc' = "compile"
  /\ strings' = IF Option(CppSource) # NoPath THEN {"ref_cpp_relative_hdr"} ELSE {}
  /\ UNCHANGED <<command, locked, before, slot, disk, stream, held, parsed, result>>
-----------------------------------------------------------------------------
(* bpcyy_run_compiler *)

\* Without an input it returns at once.
NoInput ==
  /\ pc = "compile" /\ stream[0] = "null"
  /\ pc' = "close" /\ result' = 1
  /\ UNCHANGED <<command, locked, before, slot, disk, stream, held, strings, parsed>>

\* bpcgen_init_code_file.
InitCodeFile ==
  /\ pc = "compile" /\ stream[0] # "null" /\ pc' = "parse"
  /\ held' = {s \in Outputs : stream[s] # "null"}
  /\ strings' = strings \cup (IF "ref_cpp_relative_hdr" \in strings
                                THEN {"hpp_reference"} ELSE {})
  /\ UNCHANGED <<command, locked, before, slot, disk, stream, parsed, result>>

\* Mutant: the document is written whatever the parser says.
ParseAndWrite ==
  /\ pc = "parse" /\ pc' = "write" /\ slot' = 1
  /\ parsed' = IF disk[Option(0)] \in Sources THEN disk[Option(0)] ELSE "failing"
  /\ result' = IF parsed' = "failing" THEN 1 ELSE 0
  /\ UNCHANGED <<command, locked, before, disk, stream, held, strings>>

\* yyparse reads what is in the file by now; it writes the document just
\* before it returns 0.
Parse ==
  /\ pc = "parse"
  /\ parsed' = IF disk[Option(0)] \in Sources THEN disk[Option(0)] ELSE "failing"
  /\ IF parsed' = "failing" THEN pc' = "release" /\ result' = 1 /\ UNCHANGED slot
     ELSE pc' = "write" /\ slot' = 1 /\ UNCHANGED result
  /\ UNCHANGED <<command, locked, before, disk, stream, held, strings>>

\* Mutant: the languages are alternatives.
WriteFirstOnly ==
  /\ pc = "write"
  /\ IF slot \in held /\ \A s \in held : slot <= s
       THEN \E c \in IF DiskMayFill THEN {"code", "partial"} ELSE {"code"} :
              disk' = [disk EXCEPT ![Option(slot)] = c]
       ELSE UNCHANGED disk
  /\ IF slot = 5 THEN pc' = "release" /\ slot' = 0 ELSE slot' = slot + 1 /\ UNCHANGED pc
  /\ UNCHANGED <<command, locked, before, stream, held, strings, parsed, result>>

\* bpcgen_write_document, one language; nothing looks at what fprintf returns.
\* Two outputs of one name overwrite each other.
Write ==
  /\ pc = "write"
  /\ IF slot \in held
       THEN \E c \in IF DiskMayFill \/ disk[Option(slot)] # "empty"
                       THEN {"code", "partial"} ELSE {"code"} :
              disk' = [disk EXCEPT ![Option(slot)] = c]
       ELSE UNCHANGED disk
  /\ IF slot = 5 THEN pc' = "release" /\ slot' = 0 ELSE slot' = slot + 1 /\ UNCHANGED pc
  /\ UNCHANGED <<command, locked, before, stream, held, strings, parsed, result>>

\* Mutant: the generators keep their streams.
ReleaseNothing ==
  /\ pc = "release" /\ pc' = "close" /\ slot' = 0
  /\ strings' = strings \ {"hpp_reference"}
  /\ UNCHANGED <<command, locked, before, disk, stream, held, parsed, result>>

\* bpcgen_free_code_file.
Release ==
  /\ pc = "release" /\ pc' = "close" /\ slot' = 0
  /\ held' = {} /\ strings' = strings \ {"hpp_reference"}
  /\ UNCHANGED <<command, locked, before, disk, stream, parsed, result>>
-----------------------------------------------------------------------------
(* bpccmd_free_parsed_args *)

\* Mutant: the input is not closed.
CloseOutputs ==
  /\ pc = "close"
  /\ stream' = IF stream[slot] # "null" /\ slot # 0 THEN [stream EXCEPT ![slot] = "closed"]
               ELSE stream
  /\ IF slot = 5 THEN pc' = "exited" /\ strings' = {} /\ UNCHANGED slot
     ELSE slot' = slot + 1 /\ UNCHANGED <<pc, strings>>
  /\ UNCHANGED <<command, locked, before, disk, held, parsed, result>>

\* Each stream is closed, then the reference is freed and main returns.
Close ==
  /\ pc = "close"
  /\ stream' = IF stream[slot] # "null" THEN [stream EXCEPT ![slot] = "closed"] ELSE stream
  /\ IF slot = 5 THEN pc' = "exited" /\ strings' = {} /\ UNCHANGED slot
     ELSE slot' = slot + 1 /\ UNCHANGED <<pc, strings>>
  /\ UNCHANGED <<command, locked, before, disk, held, parsed, result>>

Next ==
  \/ Options \/ Open \/ Reference
  \/ NoInput \/ InitCodeFile \/ Parse \/ Write \/ Release
  \/ Close

\* main runs until it returns.
Spec == Init /\ [][Next]_vars /\ WF_vars(Next)
-----------------------------------------------------------------------------
(* Properties. *)

\* Every variable has the values the code can give it.
TypeOK ==
  /\ command \in Commands /\ locked \in SUBSET Paths
  /\ before \in [Paths -> Contents] /\ disk \in [Paths -> Contents]
  /\ pc \in {"options", "open", "reference", "compile", "parse", "write",
             "release", "close", "exited"}
  /\ slot \in Slots /\ stream \in [Slots -> {"null", "open", "closed"}]
  /\ held \in SUBSET Outputs
  /\ strings \in SUBSET {"options", "ref_cpp_relative_hdr", "hpp_reference"}
  /\ parsed \in Sources \cup {"none"} /\ result \in {0, 1}

Exited == pc = "exited"

\* The files the command line names as outputs.
Named == {Option(s) : s \in Outputs} \ {NoPath}

\* A file changes only if the command names it as an output, and only once
\* the command is a complete one: no input is lost unless it is an output too.
OnlyOutputsChange ==
  \A p \in Paths : disk[p] # before[p] =>
    p \in Named \ locked /\ command.kind = "compile" /\ Option(0) # NoPath

\* A compilation that failed leaves no code behind: each output that could be
\* opened is empty, whether it existed before or not (bpc_cmd.c:144 opens them
\* before the input is looked at).
FailureLeavesNoCode ==
  Exited /\ result # 0 =>
    \A s \in Outputs : stream[s] = "closed" => disk[Option(s)] = "empty"

\* After a compilation that did not fail every output that could be opened
\* has code in it, that of the whole document unless the disk was full or two
\* outputs have one name.
SuccessWritesAll ==
  Exited /\ result = 0 =>
    \A s \in Outputs : stream[s] = "closed" =>
      /\ disk[Option(s)] \in {"code", "partial"}
      /\ disk[Option(s)] = "partial" =>
           DiskMayFill \/ \E t \in Outputs \ {s} : Option(t) = Option(s)

\* The streams the generators hold are open: they are let go of before the
\* command line's owner closes them.
NoDanglingStream == \A s \in held : stream[s] = "open"

\* When main returns, every stream that was opened is closed, the generators
\* hold none and no string is left.
NothingLeaks ==
  Exited => /\ \A s \in Slots : stream[s] # "open"
            /\ held = {} /\ strings = {}

-----------------------------------------------------------------------------
(* The promise to the user *)

Verdict ==
  CASE result = 1 -> "bad"
    [] result = 0 /\ parsed # "none" -> IF Exited THEN "done" ELSE "good"
    [] OTHER -> IF Exited THEN "refused" ELSE "none"

Promise ==
  INSTANCE BpcCommand WITH
    emptied <- {Option(s) : s \in {t \in Outputs : stream[t] # "null"}},
    verdict <- Verdict

\* The command keeps the promise of BpcCommand: all the outputs are emptied
\* before the input is judged, none is filled before or after a bad verdict,
\* and a good one is followed by all of them.
KeepsPromise == Promise!Spec
=============================================================================
