SPECIFICATION Spec
CONSTANTS
  Decode <- MCDecode
  Size <- MCSize
  NoText = NoText
  Params <- MCParams
  Words <- MCWords
  Cookies <- MCCookies
  MaxParts = 3
  MaxHeaders = 2
INVARIANTS
  SessionByPrecedence
PROPERTIES
  FirstStateSettles
CHECK_DEADLOCK FALSE
