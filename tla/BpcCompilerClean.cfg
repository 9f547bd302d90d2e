SPECIFICATION Spec
CONSTANTS
  a = a
  b = b
  MinOf <- MCMinOf
  MaxOf <- MCMaxOf
  CompilerVersion = 1
  Versions = {1}
  Names = {a, b}
  Types = {"int8"}
  EnumNumbers = {}
  TupleNumbers = {}
  AlignNumbers = {}
  Reliabilities = {}
  Layouts = {}
  MaxDecls = 1
  MaxMembers = 1
  MaxFields = 1
INVARIANTS
  GenerateOnlyWhenClean
CHECK_DEADLOCK FALSE
