\* No timing assumption: handlers overlap, signals coalesce, threads starve.  One
\* quantum ends in a cancellation, three last for a rotation by two handlers.
SPECIFICATION Spec
CONSTANTS
  ThreadCount = 2
  QueueSize = 1
  Quanta = {1, 3}
  HeapContents = {0}
  Prompt = FALSE
  MaxTicks = 3
INVARIANTS TokenConservation OverrunBound ListExact
CHECK_DEADLOCK FALSE
