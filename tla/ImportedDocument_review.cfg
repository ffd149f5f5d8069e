SPECIFICATION Spec
CONSTANTS
  P = P
  E = E
  a = a
  A = A
  b = b
  sp = sp
  odd = odd
  r1 = r1
  r2 = r2
  Requests = {r1, r2}
  Types = {P, E}
  DigitTypes = {E}
  NameTypes = {P}
  MailTypes = {}
  Odd = {odd}
  Lower <- MCLower
  Plain <- MCPlain
  White = {sp}
  Uploads <- MCUploads
  Unreadable = unreadable
  OtherValues <- MCOtherValues
  NoText = notext
  MaxMarkers = 2
  MaxEdits = 2
INVARIANTS TypeOK CleanImportRestores SummaryTellsTheText FilesFollowTheRow
SYMMETRY Alike
CHECK_DEADLOCK FALSE
