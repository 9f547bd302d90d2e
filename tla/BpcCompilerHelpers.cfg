SPECIFICATION CleanSpec
CONSTANTS
  a = a
  b = b
  MinOf <- MCMinOf
  MaxOf <- MCMaxOf
  CompilerVersion = 1
  Versions = {1}
  Names = {a, b}
  Types = {"int8", "float"}
  EnumNumbers = {}
  TupleNumbers = {}
  AlignNumbers = {}
  Reliabilities = {}
  Layouts = {}
  MaxDecls = 1
  MaxMembers = 0
  MaxFields = 1
SYMMETRY NameSymmetry
INVARIANTS
  CSharpHelpersExist
CHECK_DEADLOCK FALSE
