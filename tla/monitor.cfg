\* Two producers and two consumers race for one slot and two items.
SPECIFICATION Spec
CONSTANTS
  Producers = {p1, p2}
  Consumers = {c1, c2}
  BufferLen = 1
  Items = 2
INVARIANTS MutualExclusion BufferIsStack
PROPERTIES KeepsItems
CHECK_DEADLOCK FALSE
