SPECIFICATION Spec
CONSTANTS
  P = P
  E = E
  U = U
  a = a
  A = A
  b = b
  nl = nl
  Separator = nl
  White = {nl}
  Types = {P, E}
  Unlisted = U
  Lower <- MCLower
  Documents <- MCDocuments
  MaxFound = 2
  MaxEdits = 2
INVARIANTS HighlightsAligned DocumentIsRecoverable RestoresTheLetters OneValuePerPlaceholder
PROPERTIES NoClearCopyLeft
CONSTRAINT Undamaged
CHECK_DEADLOCK FALSE
