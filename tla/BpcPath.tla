------------------------------ MODULE BpcPath ------------------------------
(***************************************************************************)
(* The include of the C++ source, against a file system that resolves it:  *)
(* the command names a source and perhaps a header, the compiler computes  *)
(* the include, and the C++ compiler looks it up from the source's folder. *)
(* There are no links between folders, so ".." undoes a step.              *)
(***************************************************************************)
EXTENDS BpcPathRules

CONSTANTS
  WorkDirs,     \* absolute paths of the current directory
  CppPaths,     \* what may follow --cpp-source
  HppPaths      \* what may follow --cpp-header, EmptyPath when it is absent

VARIABLES
  wd, cpp, hpp, \* the directory and the two options
  include       \* what the source includes, <<"none">> before it is known

vars == <<wd, cpp, hpp, include>>

\* A sequence of separators and names; a name has some text.
IsPath(path) ==
  path \in Seq(Seq(STRING)) /\ \A k \in DOMAIN path : path[k] # NoName

GoesUp(path) == \E k \in DOMAIN path : path[k] = DotDot

\* The current directory is absolute and goes up nowhere; a source is a file.
ASSUME PathsAssumption ==
  /\ \A w \in WorkDirs : IsPath(w) /\ IsAbsolute(w) /\ ~GoesUp(w)
  /\ \A c \in CppPaths : /\ IsPath(c) /\ c # EmptyPath
                         /\ Last(c) \notin {Slash, Dot, DotDot}
  /\ \A h \in HppPaths : IsPath(h)

Unknown == << <<"none">> >>
-----------------------------------------------------------------------------
(* The reference: names from the root down, one step at a time. *)

Step(at, name) ==
  IF name \in {Dot, NoName, Slash} THEN at
  ELSE IF name # DotDot THEN Append(at, name)
  ELSE IF at = <<>> THEN at ELSE Front(at)

\* Where the steps of path lead.
Walk(at, path) ==
  LET to[k \in 0..Len(path)] == IF k = 0 THEN at ELSE Step(to[k - 1], path[k])
  IN  to[Len(path)]

\* Where path leads from the folder from; an absolute path starts at the root.
Resolve(from, path) == Walk(IF IsAbsolute(path) THEN <<>> ELSE from, path)

CppFolder == Resolve(Resolve(<<>>, wd), DirName(cpp))

\* The header of the command, or the one that belongs next to the source.
Header ==
  IF hpp # EmptyPath THEN Resolve(Resolve(<<>>, wd), hpp)
  ELSE LET name == Last(cpp)
       IN  Append(CppFolder, (IF Len(name) = 1 THEN name ELSE Front(name)) \o <<"hpp">>)

Init ==
  /\ wd \in WorkDirs /\ cpp \in CppPaths /\ hpp \in HppPaths
  /\ include = Unknown
  /\ ~IsPrefix(Header, CppFolder)     \* a file is no folder

\* The options are read and the include is computed.
GetHeader ==
  /\ include = Unknown
  /\ include' = RelativeHeader(wd, cpp, hpp)
  /\ UNCHANGED <<wd, cpp, hpp>>

Next == GetHeader

Spec == Init /\ [][Next]_vars
-----------------------------------------------------------------------------
(* Properties. *)

Reaches == Resolve(CppFolder, include) = Header

\* If the name of the source goes up nowhere the include leads to the header,
\* whatever the name of the header looks like.
IncludeReachesHeader == include # Unknown /\ ~GoesUp(cpp) => Reaches

IsPlain(path) == \A k \in DOMAIN path : path[k] \notin {Dot, DotDot}

Common ==
  CHOOSE n \in 0..Len(CppFolder) :
    /\ n <= Len(Header)
    /\ \A k \in 1..n : CppFolder[k] = Header[k]
    /\ n < Len(CppFolder) /\ n < Len(Header) => CppFolder[n + 1] # Header[n + 1]

\* For plain names the include makes no detour: it goes up to the folder both
\* files are in and down to the header, or is absolute when the command gave
\* the header another root.
IncludeIsDirect ==
  include # Unknown /\ IsPlain(wd) /\ IsPlain(cpp) /\ IsPlain(hpp) =>
    \/ IsAbsolute(include)
    \/ Without(include, {Slash}) =
         [k \in 1..Len(CppFolder) - Common |-> DotDot] \o
         SubSeq(Header, Common + 1, Len(Header))
=============================================================================
