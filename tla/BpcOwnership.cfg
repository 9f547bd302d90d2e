SPECIFICATION MemSpec
CONSTANTS
  a = a
  b = b
  MinOf <- MCMinOf
  MaxOf <- MCMaxOf
  CompilerVersion = 1
  Versions = {1}
  Names = {a, b}
  Types = {"int8"}
  EnumNumbers = {1}
  TupleNumbers = {}
  AlignNumbers = {0, 1}
  Reliabilities = {FALSE}
  Layouts = {}
  MaxDecls = 2
  MaxMembers = 2
  MaxFields = 2
  MaxChain = 2
SYMMETRY NameSymmetry
INVARIANTS
  OneOwner
  OnlyRefusedIsLost
CHECK_DEADLOCK FALSE
