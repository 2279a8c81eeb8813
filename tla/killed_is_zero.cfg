\* A compiler killed by a signal is logged and passed on as exit code 0.
SPECIFICATION Spec
CONSTANTS
  Jobs <- ProgJobs
  Cmd <- ProgCmd
  Earlier = Earlier
  Files <- AllFiles
  Sources <- AllSources
  Piped <- AllPiped
  Ll <- LlOf
  DeclarationLl = "declaration.ll"
  RuntimeO = "runtime.o"
  Tool = "base"
  Hookable = {}
  Crashing = {}
  Leftovers = {"absent", "earlier"}
  Fates = {"succeeds", "killed"}
  FaultBound = 0
CONSTRAINT FewFaults
CHECK_DEADLOCK FALSE
INVARIANTS
  ZeroMeansExitedZero
