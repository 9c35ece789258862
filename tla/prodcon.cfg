\* Two producers, three consumers, three slots, four items: the buffer fills,
\* empties, and the last phantom tokens overtake the last items.
SPECIFICATION FairSpec
CONSTANTS
  Producers = {p1, p2}
  Consumers = {c1, c2, c3}
  BufferLen = 3
  Items = 4
INVARIANTS MutualExclusion SlotTokens FullMatchesItems SlotInBounds
  BufferIsStack ExitOnlyWhenDone
PROPERTIES Termination ImplementsBoundedBuffer
