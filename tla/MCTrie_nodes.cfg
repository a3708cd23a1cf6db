SPECIFICATION Spec
CONSTANTS
  PrefixMax = 2
  SparseMax = 2
  Nil = Nil
  Junk = Junk
  s1 = s1
  s2 = s2
  Sockids = {s1, s2}
  Topics <- Branching
  Words <- MCWords
SYMMETRY SockSymmetry
INVARIANTS
  Delivers
  NoWaste
  OnlyConversionFaults
PROPERTY
  ImplementsMap
