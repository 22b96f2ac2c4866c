\* Two terminal heights, one character of search text.
CONSTANTS
  None = None
  Findings <- MCFindings
  Bytes <- MCBytes
  Lower <- MCLower
  Rows = {10, 11}
  MaxQuery = 1
\* The application ends.
CHECK_DEADLOCK FALSE
SPECIFICATION Spec
INVARIANTS
  SelectionIsShown
  EscapeEnterQuit
