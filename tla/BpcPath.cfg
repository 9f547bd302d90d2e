SPECIFICATION Spec
CONSTANTS
  WorkDirs <- MCWorkDirs
  CppPaths <- MCCppPaths
  HppPaths <- MCHppPaths
  Names <- MCNames
  MaxTokens = 5
INVARIANTS
  IncludeReachesHeader
  IncludeIsDirect
  AgreesWithTests
CHECK_DEADLOCK FALSE
