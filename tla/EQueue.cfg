SPECIFICATION Spec
CONSTANTS
  NULL = NULL
  Queue = {q1, q2}
  Data = {a, b, c}
  Node = {n1, n2, n3, n4, n5}
INVARIANTS
  TypeOK
  ListShape
  NodesOwned
  DataOwned
PROPERTIES
  IsFifo
SYMMETRY Symmetry
VIEW View
