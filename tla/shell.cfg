\* Two lines of up to six tokens, so up to three commands each, and descriptors
\* for four; a program may just fill a pipe.
SPECIFICATION FairSpec
CONSTANTS
  MaxTokens = 6
  MaxLines = 2
  PipeCapacity = 2
  MaxOutput = 2
  FdLimit = 11
INVARIANTS ParsesGrammar ReaderSeesEnd SelectedByPredecessor
PROPERTIES LineEnds
