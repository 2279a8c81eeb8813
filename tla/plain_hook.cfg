\* The wrapped build implements the plain one, and every wrapper that has started ends.
SPECIFICATION FairSpec
CONSTANTS
  Jobs <- EndJobs
  Cmd <- EndCmd
  Earlier = Earlier
  Files <- AllFiles
  Sources <- AllSources
  Piped <- AllPiped
  Ll <- LlOf
  DeclarationLl = "declaration.ll"
  RuntimeO = "runtime.o"
  Tool = "call-hook"
  Hookable = {"a.c", "b.c", "m.ll"}
  Crashing = {}
  Leftovers = {"absent", "torn", "earlier"}
  Fates = {"succeeds", "fails", "noexec", "nofork"}
  FaultBound = 9
CHECK_DEADLOCK FALSE
PROPERTIES
  EveryJobEnds
  ImplementsPlainBuild
