----------------------------- MODULE BpcPathMC -----------------------------
(* Short paths over two names, and the data sets of the repository's tests. *)
EXTENDS BpcPath

CONSTANTS MaxTokens,   \* bound: names and separators before the file name
          Names        \* the names of folders

\* Folders, with the separator behind them.
Folders ==
  {f \in UNION {[1..n -> Names \cup {Slash}] : n \in 0..MaxTokens} :
     /\ \A k \in 1..Len(f) - 1 : f[k] = Slash \/ f[k + 1] = Slash
     /\ f # <<>> => Last(f) = Slash}

MCNames    == {<<"a">>, <<"b">>, Dot, DotDot}
MCWorkDirs ==
  {<<Slash>>, <<Slash, <<"a">> >>, <<Slash, Dot, Slash, <<"a">> >>,
   <<Slash, Slash, <<"b">>, Slash, <<"a">> >>}
MCCppPaths == {Append(f, file) : f \in Folders, file \in {<<"t", "cpp">>}}
MCHppPaths == {EmptyPath} \cup {Append(f, <<"t", "hpp">>) : f \in Folders}

\* The data sets of tests/tests_fs.c:55-113 and 10-34, tests/tests_cmd.c:10-28.
TestedRelative ==
  \A t \in {
    << <<>>, <<>>, <<>> >>,
    << <<>>, <<Slash, <<"foo">> >>, <<>> >>,
    << <<Slash, <<"foo">> >>, <<>>, <<>> >>,
    << <<Slash, <<"foo">> >>, <<Slash, <<"foo">> >>, <<Dot>> >>,
    << <<>>, << <<"foo">> >>, <<>> >>,
    << <<<<"foo">> >>, <<>>, <<>> >>,
    << <<<<"foo">> >>, << <<"foo">> >>, <<Dot>> >>,
    << <<<<"a">>, Slash, <<"b">>, Slash, <<"c">> >>, << <<"a">> >>, << <<"b">>, Slash, <<"c">> >> >>,
    << <<<<"a">>, Slash, Slash, <<"b">>, Slash, Slash, <<"c">> >>, << <<"a">> >>, << <<"b">>, Slash, <<"c">> >> >>,
    << <<<<"a">>, Slash, <<"b">>, Slash, <<"c">> >>, << <<"a">>, Slash, <<"b">> >>, << <<"c">> >> >>,
    << <<<<"a">>, Slash, Slash, Slash, <<"b">>, Slash, Slash, <<"c">> >>, << <<"a">>, Slash, Slash, <<"b">> >>, << <<"c">> >> >>,
    << <<<<"a">>, Slash, <<"b">>, Slash, <<"c">> >>, << <<"a">>, Slash, <<"b">>, Slash, <<"c">> >>, <<Dot>> >>,
    << <<<<"a">>, Slash, <<"b">>, Slash, <<"c">> >>, << <<"a">>, Slash, <<"b">>, Slash, <<"c">>, Slash, <<"x">> >>, <<DotDot>> >>,
    << <<<<"a">>, Slash, <<"b">>, Slash, <<"c">> >>, << <<"a">>, Slash, <<"b">>, Slash, <<"c">>, Slash, <<"x">>, Slash, <<"y">> >>, <<DotDot, Slash, DotDot>> >>,
    << <<<<"a">>, Slash, <<"b">>, Slash, <<"c">> >>, << <<"a">>, Slash, <<"x">> >>, <<DotDot, Slash, <<"b">>, Slash, <<"c">> >> >>,
    << <<<<"a">>, Slash, <<"b">>, Slash, <<"c">> >>, << <<"a">>, Slash, <<"x">>, Slash, <<"y">> >>, <<DotDot, Slash, DotDot, Slash, <<"b">>, Slash, <<"c">> >> >>,
    << <<<<"a">>, Slash, <<"b">>, Slash, <<"c">> >>, << <<"a">>, Slash>>, << <<"b">>, Slash, <<"c">> >> >>,
    << <<<<"a">>, Slash, <<"b">>, Slash, <<"c">> >>, << <<"a">>, Slash, Dot, Slash>>, << <<"b">>, Slash, <<"c">> >> >>,
    << <<<<"a">>, Slash, <<"b">>, Slash, <<"c">> >>, << <<"a">>, Slash, <<"b">>, Slash, DotDot>>, <<>> >>,
    << <<<<"a">>, Slash, <<"b">>, Slash, <<"c">> >>, << <<"a">>, Slash, <<"b">>, Slash, DotDot, Slash>>, <<>> >>,
    << <<<<"a">>, Slash, <<"b">>, Slash, <<"c">> >>, << <<"a">>, Slash, <<"b">>, Slash, <<"d">>, Slash, DotDot>>, << <<"c">> >> >>,
    << <<Slash, <<"a">>, Slash, <<"b">>, Slash, <<"c">> >>, <<Slash, <<"x">>, Slash, <<"y">> >>, <<DotDot, Slash, DotDot, Slash, <<"a">>, Slash, <<"b">>, Slash, <<"c">> >> >>,
    << <<<<"a">>, Slash, <<"b">>, Slash, <<"c">> >>, << <<"x">> >>, <<>> >>,
    << <<<<"a">>, Slash, <<"b">>, Slash, <<"c">> >>, <<Slash, <<"x">> >>, <<>> >>,
    << <<Slash, <<"a">>, Slash, <<"d">> >>, <<Slash, <<"a">>, Slash, <<"b">>, Slash, <<"c">> >>, <<DotDot, Slash, DotDot, Slash, <<"d">> >> >>,
    << <<Slash, <<"foo">>, Slash, <<"new">> >>, <<Slash, <<"foo">>, Slash, <<"bar">> >>, <<DotDot, Slash, <<"new">> >> >>} :
    LexicallyRelative(t[1], t[2]) = t[3]

TestedExtension ==
  \A t \in {
    << <<>>, <<"a">>, << <<"", "a">> >> >>,
    << <<<<"a", "txt">> >>, <<>>, << <<"a">> >> >>,
    << <<<<"a", "txt">> >>, <<"">>, << <<"a", "">> >> >>,
    << <<<<"a", "txt">> >>, <<"tex">>, << <<"a", "tex">> >> >>,
    << <<<<"a", "">> >>, <<"tex">>, << <<"a", "tex">> >> >>,
    << <<<<"a">> >>, <<"txt">>, << <<"a", "txt">> >> >>,
    << <<<<"a", "b", "txt">> >>, <<"tex">>, << <<"a", "b", "tex">> >> >>,
    << <<<<"a">>, Slash, <<"b">> >>, <<"c">>, << <<"a">>, Slash, <<"b", "c">> >> >>,
    << <<<<"a", "txt">>, Slash, <<"b">> >>, <<"c">>, << <<"a", "txt">>, Slash, <<"b", "c">> >> >>,
    << <<<<"foo", "txt">> >>, <<"tar", "bz2">>, << <<"foo", "tar", "bz2">> >> >>} :
    ReplaceExtension(t[1], t[2]) = t[3]

TestedHeader ==
  \A t \in {
    << <<<<"test", "cpp">> >>, <<>>, << <<"test", "hpp">> >> >>,
    << <<<<"test", "cpp">> >>, << <<"test", "hpp">> >>, << <<"test", "hpp">> >> >>,
    << <<<<"a">>, Slash, <<"test", "cpp">> >>, << <<"a">>, Slash, <<"test", "hpp">> >>, << <<"test", "hpp">> >> >>,
    << <<Slash, <<"a">>, Slash, <<"b">>, Slash, <<"test", "cpp">> >>, <<Slash, <<"a">>, Slash, <<"test", "hpp">> >>, <<DotDot, Slash, <<"test", "hpp">> >> >>,
    << <<Slash, <<"a">>, Slash, <<"test", "cpp">> >>, <<Slash, <<"a">>, Slash, <<"b">>, Slash, <<"test", "hpp">> >>, << <<"b">>, Slash, <<"test", "hpp">> >> >>,
    << <<<<"a">>, Slash, <<"test", "cpp">> >>, <<Slash, Slash, <<"ftp", "bkt", "moe">>, Slash, <<"a">>, Slash, <<"b">>, Slash, <<"test", "hpp">> >>, <<Slash, Slash, <<"ftp", "bkt", "moe">>, Slash, <<"a">>, Slash, <<"b">>, Slash, <<"test", "hpp">> >> >>} :
    RelativeHeader(<<Slash, <<"wd">> >>, t[1], t[2]) = t[3]
-----------------------------------------------------------------------------
\* The repository's tests of the three path functions hold of the model: its
\* rules are those of the code on every input somebody thought of.
AgreesWithTests ==
  include # Unknown => TestedRelative /\ TestedExtension /\ TestedHeader
=============================================================================
