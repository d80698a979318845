\* Two commands of a kind on the name of one second, a file that may be there
\* before, and two tables.
CONSTANTS
  Writers = {w1, w2}
  Kinds <- MCKinds
  Old = Old
  NoFile = NoFile
  Tables = 2
  MaxSeq = 1
SYMMETRY Symmetry
SPECIFICATION Spec
INVARIANT NoLeftovers
PROPERTY ImplementsPublication
\* every command ends
CHECK_DEADLOCK FALSE
