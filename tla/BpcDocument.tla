---------------------------- MODULE BpcDocument ----------------------------
(***************************************************************************)
(* What the front end promises the code generators: a document is grown    *)
(* one declaration at a time, each with a name of its own, referring only  *)
(* to data types declared above it; every msg gets the next index; and the *)
(* document is either published once, as it then stands, or abandoned.     *)
(***************************************************************************)
EXTENDS Naturals, Sequences, FiniteSets

CONSTANT Names

VARIABLES defs,   \* the declarations, top to bottom
          phase   \* "open", "published" or "abandoned"

vars == <<defs, phase>>

Kinds == {"alias", "enum", "struct", "msg"}

MsgCount(d) == Cardinality({k \in DOMAIN d : d[k].kind = "msg"})

Init == defs = <<>> /\ phase = "open"

Declare(kind, name, uses, natural) ==
  /\ phase = "open"
  /\ \A k \in DOMAIN defs : defs[k].name # name
  /\ \A u \in uses : \E k \in DOMAIN defs :
        /\ defs[k].name = u
        /\ defs[k].kind # "msg"
        /\ natural /\ defs[k].kind = "struct" => defs[k].natural
  /\ kind \in {"alias", "enum"} => uses = {} /\ ~natural
  /\ defs' = Append(defs, [kind |-> kind, name |-> name, uses |-> uses,
                           natural |-> natural,
                           index |-> IF kind = "msg" THEN MsgCount(defs) ELSE 0])
  /\ UNCHANGED phase

Publish == phase = "open" /\ phase' = "published" /\ UNCHANGED defs

Abandon == phase = "open" /\ phase' = "abandoned" /\ defs' = <<>>

Next == \/ \E kind \in Kinds, name \in Names, uses \in SUBSET Names,
              natural \in BOOLEAN : Declare(kind, name, uses, natural)
        \/ Publish
        \/ Abandon

\* The file ends: whoever reads the document gets an answer.
Spec == Init /\ [][Next]_vars /\ WF_vars(Publish \/ Abandon)
=============================================================================
