SPECIFICATION Spec
CONSTANTS
  PrefixMax = 2
  SparseMax = 2
  Nil = Nil
  Junk = Junk
  s1 = s1
  s2 = s2
  Sockids = {s1, s2}
  Topics <- Converted
  Words <- MCWords
INVARIANTS
  Delivers
