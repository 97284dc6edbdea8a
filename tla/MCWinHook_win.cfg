CONSTANTS
  Blank = " "
  Quote = "q"
  Backslash = "s"
  IdKey = "CATTER_RPC_ID"
  None = None
  MaxId = 3
  MaxLine = 4
  Chars <- MCChars
  Program <- MCProgram
  Lines <- MCLines
  Blocks <- MCBlocks
SPECIFICATION Spec
CHECK_DEADLOCK FALSE
INVARIANTS TypeOK ArgumentsArrive CallerIsNamed
