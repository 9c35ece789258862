\* The cancelled worker gives its token back before it is out of the list.
SPECIFICATION Spec
CONSTANTS
  ThreadCount = 2
  QueueSize = 1
  Quanta = {1}
  HeapContents = {0}
  Prompt = TRUE
  MaxTicks = 4
INVARIANTS QueueBound
