\* Every short command line, for each way to build the wrapper.
SPECIFICATION Spec
CONSTANTS
  MaxPieces = 3
  Args <- MCArgs
  Chars <- MCChars
  Text <- MCText
  Options <- MCOptions
  Valued <- MCValued
  Libraries = {"-lz"}
  Native <- MCNative
  Generated <- MCGenerated
  Piped = {"-"}
  Response <- MCResponse
  Commands <- MCCommands
  Builds <- MCBuilds
  Ll <- MCLl
  DeclarationC = "declaration.c"
  DeclarationLl = "declaration.ll"
  RuntimeC = "runtime.c"
  RuntimeO = "runtime.o"
CHECK_DEADLOCK FALSE
INVARIANTS
  TypeOK
  Asked
  OptionsKept
  BuildsTheSame
  LinksInOrder
