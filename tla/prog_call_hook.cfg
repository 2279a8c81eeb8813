\* One command with two inputs and a link, beside a compile; every fate.
SPECIFICATION Spec
CONSTANTS
  Jobs <- ProgJobs
  Cmd <- ProgCmd
  Earlier = Earlier
  Files <- AllFiles
  Sources <- AllSources
  Piped <- AllPiped
  Ll <- LlOf
  DeclarationLl = "declaration.ll"
  RuntimeO = "runtime.o"
  Tool = "call-hook"
  Hookable = {"a.c", "m.ll"}
  Crashing = {}
  Leftovers = {"torn", "earlier"}
  Fates = {"succeeds", "fails", "killed", "noexec", "nofork", "unwaited"}
  FaultBound = 2
CONSTRAINT FewFaults
CHECK_DEADLOCK FALSE
INVARIANTS
  TypeOK
  FaithfulOutput
  NoSpuriousFailure
  Instrumented
