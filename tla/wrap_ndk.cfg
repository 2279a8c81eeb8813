\* Runs of the script that overlap, fail and are interrupted.
SPECIFICATION Spec
CONSTANTS
  Runs = {r1, r2}
  CC = "clang"
  CXX = "clang++"
  Tools <- MCTools
SYMMETRY MCSymmetry
INVARIANTS
  OriginalsKept
  WrongOnlyIfCut
