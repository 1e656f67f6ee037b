SPECIFICATION Spec
CONSTANTS
  MaxTools = 3
  MaxChunks = 6
  MaxBlocks = 13
INVARIANTS MessageComplete
PROPERTIES SpeaksClaude
CHECK_DEADLOCK FALSE
