\* Three workers compete for two places; every worker asks for up to two quanta.
SPECIFICATION FairSpec
CONSTANTS
  ThreadCount = 3
  QueueSize = 2
  Quanta = {0, 1, 2}
  HeapContents = {5, 9}
  Prompt = TRUE
  MaxTicks = 8
INVARIANTS TypeOK NoUndefined OneRunner AccountingExact WaitBounded QuitMeansDone
PROPERTIES Termination RefinesRoundRobin
