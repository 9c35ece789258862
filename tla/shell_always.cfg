\* Long enough for "a && b ; c".
SPECIFICATION Spec
CONSTANTS
  MaxTokens = 5
  MaxLines = 1
  PipeCapacity = 1
  MaxOutput = 0
  FdLimit = 9
INVARIANTS AlwaysRuns
