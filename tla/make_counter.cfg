\* Two inputs that share a .ll file, one that crashes the pass, and a link after a compile.
SPECIFICATION Spec
CONSTANTS
  Jobs <- MakeJobs
  Cmd <- MakeCmd
  Earlier = Earlier
  Files <- AllFiles
  Sources <- AllSources
  Piped <- AllPiped
  Ll <- LlOf
  DeclarationLl = "declaration.ll"
  RuntimeO = "runtime.o"
  Tool = "jni-interface-counter"
  Hookable = {"a.c", "a.cc", "m.ll"}
  Crashing = {"b.c"}
  Leftovers = {"absent", "torn", "earlier"}
  Fates = {"succeeds", "fails", "killed"}
  FaultBound = 1
CONSTRAINT FewFaults
CHECK_DEADLOCK FALSE
INVARIANTS
  FaithfulOutput
  NoSpuriousFailure
