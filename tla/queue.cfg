CONSTANTS
  itA = itA
  itB = itB
  itC = itC
  itD = itD
  Nil = Nil
  Item <- MCItem
  Rank <- MCRank
  TailInPlace = TRUE
SPECIFICATION Spec
INVARIANT TypeOK
INVARIANT Linked
PROPERTY Implements
