---------------------------- MODULE BpcPathRules ----------------------------
(***************************************************************************)
(* The paths of bpc_fs.c and bpc_cmd.c on POSIX.  A path is a sequence of  *)
(* separators and names, no two names in a row; a name is the sequence of  *)
(* the pieces between its dots, so "t.cpp" is <<"t", "cpp">>, "." is       *)
(* <<"", "">> and the separator, which has no piece, is <<>>.              *)
(***************************************************************************)
EXTENDS Integers, Sequences, SequencesExt

Slash  == <<>>
Dot    == <<"", "">>
DotDot == <<"", "", "">>
NoName == <<"">>

EmptyPath == <<>>

\* _bpcfs_find_separator: where the first separator behind position i is; the
\* empty set when there is none and the function returns false.
FindSeparator(path, i) ==
  {j \in i + 1..Len(path) : path[j] = Slash /\ \A k \in i + 1..j - 1 : path[k] # Slash}

\* _bpcfs_find_root_directory_start: the length of the root name.  Two
\* separators make one, with the name behind them if a separator follows it;
\* three are one separator.
RootNameLength(path) ==
  IF Len(path) < 2 \/ path[1] # Slash \/ path[2] # Slash THEN 0
  ELSE IF Len(path) > 2 /\ path[3] = Slash THEN 0
  ELSE IF FindSeparator(path, 2) = {} THEN 2
  ELSE (CHOOSE j \in FindSeparator(path, 2) : TRUE) - 1

\* A path without some of its tokens.
Without(path, tokens) ==
  LET kept[k \in 0..Len(path)] ==
        IF k = 0 THEN <<>>
        ELSE IF path[k] \in tokens THEN kept[k - 1] ELSE Append(kept[k - 1], path[k])
  IN  kept[Len(path)]

\* The file names behind position i: no name between two separators, but an
\* empty one behind a separator at the end.
FileNames(path, i) ==
  LET names == Without(SubSeq(path, i + 1, Len(path)), {Slash})
  IN  IF i >= Len(path) THEN <<>>
      ELSE IF Last(path) = Slash THEN Append(names, NoName) ELSE names

\* _bpcfs_split_path.
SplitPath(path) ==
  LET root == RootNameLength(path)
      dir == root < Len(path) /\ path[root + 1] = Slash
  IN  [root_name |-> SubSeq(path, 1, root), root_directory |-> dir,
       filenames |-> FileNames(path, IF dir THEN root + 1 ELSE root)]

\* _bpcfs_join_path; an empty name is no text.
JoinPath(p) ==
  LET Text(name) == IF name = NoName THEN <<>> ELSE <<name>>
      url[k \in 0..Len(p.filenames)] ==
        IF k = 0 THEN p.root_name \o (IF p.root_directory THEN <<Slash>> ELSE <<>>)
        ELSE url[k - 1] \o (IF k = 1 THEN <<>> ELSE <<Slash>>) \o Text(p.filenames[k])
  IN  url[Len(p.filenames)]

\* bpcfs_replace_extension of the last name.
ReplaceExtension(path, ext) ==
  LET p == SplitPath(path)
      n == Len(p.filenames)
      old == IF n = 0 THEN NoName ELSE p.filenames[n]
      stem == IF old \in {Dot, DotDot} \/ Len(old) = 1 THEN old ELSE Front(old)
  IN  JoinPath([p EXCEPT !.filenames =
        Append(SubSeq(@, 1, n - 1), IF ext = <<>> THEN stem ELSE stem \o ext)])

\* Mutant: std::mismatch one too far when the base is used up.
MismatchAtEnd(this, base) ==
  CHOOSE i \in 1..Len(this) + 1 :
    /\ \A k \in 1..i - 1 : k <= Len(base) /\ this[k] = base[k]
    /\ i > Len(this) \/ i > Len(base) - 1 \/ this[i] # base[i]

\* Where two sequences of names differ first.
Mismatch(this, base) ==
  CHOOSE i \in 1..Len(this) + 1 :
    /\ \A k \in 1..i - 1 : k <= Len(base) /\ this[k] = base[k]
    /\ i > Len(this) \/ i > Len(base) \/ this[i] # base[i]

\* Mutant: ".." counts as a step down.
AscentEach(name) == IF name \in {Dot, NoName} THEN 0 ELSE 1

\* What a name of the base adds to the steps up.
Ascent(name) ==
  IF name = DotDot THEN -1 ELSE IF name \in {Dot, NoName} THEN 0 ELSE 1

\* How many steps up lead from base to its part before position i.
StepsUp(base, i) ==
  LET n[k \in 0..Len(base)] == IF k < i THEN 0 ELSE n[k - 1] + Ascent(base[k])
  IN  n[Len(base)]

\* bpcfs_lexically_relative; the empty path says that there is none.
LexicallyRelative(path, folder) ==
  LET this == SplitPath(path)
      base == SplitPath(folder)
      i == Mismatch(this.filenames, base.filenames)
      n == StepsUp(base.filenames, i)
      rest == SubSeq(this.filenames, i, Len(this.filenames))
  IN  IF \/ this.root_name # base.root_name
         \/ this.root_directory # base.root_directory
         \/ i = 1 /\ ~this.root_directory
        THEN EmptyPath
      ELSE IF rest = <<>> /\ i > Len(base.filenames) THEN <<Dot>>
      ELSE IF n < 0 THEN EmptyPath
      ELSE IF n = 0 /\ (rest = <<>> \/ Head(rest) = NoName) THEN <<Dot>>
      ELSE JoinPath([root_name |-> EmptyPath, root_directory |-> FALSE,
                     filenames |-> [k \in 1..n |-> DotDot] \o rest])
-----------------------------------------------------------------------------
(* GLib: g_path_is_absolute, g_path_get_dirname, g_path_get_basename and    *)
(* g_build_filename, for a path that ends in a name.                        *)

IsAbsolute(path) == path # EmptyPath /\ path[1] = Slash

DirName(path) ==
  LET names == {k \in 1..Len(path) - 1 : path[k] # Slash}
  IN  IF Len(path) = 1 THEN <<Dot>>
      ELSE IF names = {} THEN <<Slash>>
      ELSE SubSeq(path, 1, CHOOSE k \in names : \A j \in names : j <= k)

BaseName(path) == <<Last(path)>>

BuildFilename(wd, path) ==
  (IF Last(wd) = Slash THEN wd ELSE wd \o <<Slash>>) \o path

Absolute(wd, path) == IF IsAbsolute(path) THEN path ELSE BuildFilename(wd, path)
-----------------------------------------------------------------------------
\* Mutant: the header is named as on the command line.
HeaderAsGiven(wd, cpp, hpp) ==
  IF hpp = EmptyPath THEN ReplaceExtension(BaseName(cpp), <<"hpp">>) ELSE hpp

\* _bpccmd_get_cpp_relative_header: what the C++ source includes; an hpp of
\* EmptyPath is none.
RelativeHeader(wd, cpp, hpp) ==
  LET relative == LexicallyRelative(Absolute(wd, hpp), Absolute(wd, DirName(cpp)))
  IN  IF hpp = EmptyPath THEN ReplaceExtension(BaseName(cpp), <<"hpp">>)
      ELSE IF relative = EmptyPath THEN Absolute(wd, hpp) ELSE relative
=============================================================================
