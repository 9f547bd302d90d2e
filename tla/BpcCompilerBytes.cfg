SPECIFICATION CleanSpec
CONSTANTS
  a = a
  b = b
  MinOf <- MCMinOf
  MaxOf <- MCMaxOf
  CompilerVersion = 1
  Versions = {1}
  Names = {a, b}
  Types = {"int8", "int16", "string"}
  EnumNumbers = {}
  TupleNumbers = {0, 2}
  AlignNumbers = {1}
  Reliabilities = {}
  Layouts = {}
  MaxDecls = 2
  MaxMembers = 0
  MaxFields = 3
SYMMETRY NameSymmetry
INVARIANTS
  TypeOK
  NaturalSound
  LanguagesAgree
  SizesAreBytes
  PackersInOrder
CHECK_DEADLOCK FALSE
