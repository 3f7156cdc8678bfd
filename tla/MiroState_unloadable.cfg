SPECIFICATION Spec
CONSTANTS
  MaxCommits = 1
  MaxTokens = 2
  MaxTries = 1
  Tampering = FALSE
  None = None
  Broken = Broken
  Blank = Blank
INVARIANT AbruptEndIsLoadable
CHECK_DEADLOCK FALSE
