SPECIFICATION Spec
CONSTANTS
  Inputs <- AllInputs
  Histories <- OneHistory
  Names <- TwoNames
  BufSize = 8
  PasteLength = 5
  KeysPressed = 2
INVARIANTS TypeOK PasteLikeBatch CompletionInRange GhostSingleLine
PROPERTIES KeepsLines TabKeepsText
