SPECIFICATION Spec
CONSTANTS
  a = a
  b = b
  MinOf <- MCMinOf
  MaxOf <- MCMaxOf
  CompilerVersion = 1
  Versions = {0, 1, 2}
  Names = {a, b}
  Types = {"int8"}
  EnumNumbers = {1, 2}
  TupleNumbers = {0}
  AlignNumbers = {0}
  Reliabilities = {FALSE}
  Layouts = {TRUE}
  MaxDecls = 2
  MaxMembers = 2
  MaxFields = 2
INVARIANTS
  RegistryMatchesBody
  EntriesDistinct
  ScopeStartsEmpty
  DocumentSound
  DocumentsClosed
  FactoriesAgree
PROPERTIES
  KeepsPromise
CHECK_DEADLOCK FALSE
