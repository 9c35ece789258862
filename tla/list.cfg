\* Four elements: a middle one with a neighbour on either side, and one to insert.
SPECIFICATION Spec
CONSTANTS
  Elements = {e1, e2, e3, e4}
  NULL = NULL
INVARIANTS ForwardLinked BackwardLinked SizeExact
