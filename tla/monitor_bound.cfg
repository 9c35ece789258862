\* empty.suspend starts with tokens of its own: two inserts fit in one slot.
SPECIFICATION Spec
CONSTANTS
  Producers = {p1}
  Consumers = {c1}
  BufferLen = 1
  Items = 2
INVARIANTS SlotInBounds
