----------------------------- MODULE BpcWireMC -----------------------------
(* The exchanges of the messages of a protocol body of BpcSamples.          *)
EXTENDS BpcWire, BpcSamples

MCMinOf == [t \in IntegerTypes |-> IF t \in UnsignedTypes THEN 0 ELSE -2]
MCMaxOf == [t \in IntegerTypes |-> IF t \in {"uint32", "uint64"} THEN 1023 ELSE 1]

MCDocument == Sample

MCEnds == [python |-> [lang |-> "python", big |-> FALSE],
           csharp |-> [lang |-> "csharp", big |-> FALSE],
           csharpBig |-> [lang |-> "csharp", big |-> TRUE],
           cpp |-> [lang |-> "cpp", big |-> FALSE],
           cppBig |-> [lang |-> "cpp", big |-> TRUE]]

\* Only a receiver in C++ tells a file from other streams.
Link(messages, from, to, fresh, knows, cut) ==
  {l \in [msg : messages, from : {MCEnds[e] : e \in from}, to : {MCEnds[e] : e \in to},
          fresh : {fresh}, known : knows, cut : {cut}, file : {FALSE, cut}] :
    l.file => l.to.lang = "cpp"}

AllMessages == {Declarations[k].name : k \in {j \in DOMAIN Declarations :
                                                Declarations[j].kind = "msg"}}

\* Filled objects between any two ends.
WholeLinks == Link(AllMessages, DOMAIN MCEnds, DOMAIN MCEnds, FALSE, {6}, FALSE)

\* Streams cut off at any byte, of messages that end in a number, an array, a
\* list, a string and padding.
CutLinks == Link(AllMessages \ {"empty"}, {"python", "cpp"},
                 DOMAIN MCEnds, FALSE, {6}, TRUE)

\* New objects, to receivers that know fewer messages.
UnknownLinks == Link({"empty", "packers", "strings"}, {"python", "csharp", "cpp"},
                     {"python", "csharp", "cpp"}, TRUE, 0..6, TRUE)

MCLinks == WholeLinks \cup CutLinks \cup UnknownLinks
=============================================================================
