----------------------------- MODULE BpcSamples -----------------------------
(* Protocol bodies with the hard cases of the generators, laid out by the   *)
(* compiler's rules, for the runs over generated code.                      *)
EXTENDS BpcGen, BpcLayoutRules

Single   == [is_array |-> FALSE, is_static_array |-> FALSE, static_array_len |-> 0]
Listed   == [Single EXCEPT !.is_array = TRUE]
Tuple(n) == [is_array |-> TRUE, is_static_array |-> TRUE, static_array_len |-> n]

Field(name, type, array, pad) ==
  [name |-> name, array |-> array,
   type |-> [type |-> type, full |-> IF type \in BasicTypes THEN type ELSE "none",
             semi |-> "none"],
   align |-> [use_align |-> pad > 0, padding_size |-> pad]]

View(doc, f) ==
  [fixed |-> VarType(doc, f) \in CppBond, size |-> ElementSize(doc, f),
   align |-> IF f.type.full \in BasicTypes THEN AlignOf(f.type.full)
             ELSE NodeOf(doc, f.type.type).modifier.struct_unit_size,
   array |-> f.array, pad |-> f.align]

\* doc with one more struct or msg, laid out.
With(doc, decl) ==
  LET views == [k \in DOMAIN decl.fields |-> View(doc, decl.fields[k])]
      modifier == [has_set_field_layout |-> decl.narrow, is_narrow |-> TRUE,
                   struct_size |-> 0, struct_unit_size |-> 0]
  IN  Append(doc,
        [kind |-> decl.kind, name |-> decl.name, index |-> decl.index,
         modifier |-> SetupModifier(views, modifier),
         fields |-> [k \in DOMAIN decl.fields |->
                       [decl.fields[k] EXCEPT !.align = SetupPad(views, modifier, k)]]])

Struct(name, narrow, fields) ==
  [kind |-> "struct", name |-> name, index |-> -1, narrow |-> narrow, fields |-> fields]

Msg(name, index, narrow, fields) ==
  [kind |-> "msg", name |-> name, index |-> index, narrow |-> narrow, fields |-> fields]

Declarations == <<
  Struct("pair", FALSE,
    <<Field("a", "int8", Single, 0), Field("b", "int16", Single, 0)>>),
  Struct("deep", FALSE,
    <<Field("p", "pair", Tuple(2), 0), Field("c", "int8", Single, 0)>>),
  Struct("text", TRUE,
    <<Field("k", "uint16", Single, 1), Field("s", "string", Single, 0)>>),
  \* Natural: padding inside and behind, structs in structs, static arrays,
  \* one of them last.
  Msg("natural", 0, FALSE,
    <<Field("x", "int8", Single, 0), Field("d", "deep", Single, 0),
      Field("y", "int8", Tuple(2), 0), Field("z", "float", Tuple(2), 0)>>),
  Msg("empty", 1, FALSE, <<>>),
  \* Packers of three sorts, and bonded runs before and behind them; a list
  \* and its padding last.
  Msg("packers", 2, TRUE,
    <<Field("a", "int8", Single, 1), Field("b", "int16", Single, 0),
      Field("c", "int16", Tuple(2), 1), Field("d", "int8", Single, 0),
      Field("e", "int16", Listed, 1), Field("f", "int16", Single, 1),
      Field("g", "int8", Listed, 1)>>),
  \* Lists, arrays and single values of strings and of narrow structs.
  Msg("strings", 3, FALSE,
    <<Field("t", "text", Single, 0), Field("u", "text", Listed, 0),
      Field("v", "string", Tuple(2), 1), Field("w", "int16", Single, 0)>>),
  \* Lists and arrays of natural structs, bonded and not.
  Msg("structs", 4, FALSE,
    <<Field("p", "pair", Tuple(2), 1), Field("q", "pair", Listed, 2),
      Field("r", "deep", Single, 0), Field("s", "string", Listed, 0)>>),
  \* What may be cut off behind what may be cut off.
  Msg("tails", 5, FALSE,
    <<Field("s", "string", Single, 0), Field("z", "double", Tuple(2), 0)>>) >>

\* All of them in one file.
Sample ==
  LET upto[n \in 0..Len(Declarations)] ==
        IF n = 0 THEN <<>> ELSE With(upto[n - 1], Declarations[n])
  IN  upto[Len(Declarations)]
=============================================================================
