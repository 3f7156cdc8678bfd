SPECIFICATION AnySpec
CONSTANTS
  MaxCommits = 2
  MaxTokens = 2
  MaxTries = 2
  Tampering = TRUE
  None = None
  Broken = Broken
  Blank = Blank
  Manual = Manual
  j1 = j1
  j2 = j2
  words = words
  style = style
  a = a
  b = b
  f = f
  ab = ab
  af = af
  note = note
  Gone = Gone
INVARIANTS
  AllTypesOK
  LoadIsSound
  ReadIsCurrent
  LostRepliesHarmless
  BoardIsKnown
PROPERTIES
  EditsAreSafe
  ReportsAreTrue
  PublishingEnds
CHECK_DEADLOCK FALSE
