\* Escape and q, as the help overlay has it; violated on Unix.
CONSTANTS
  None = None
  Findings <- MCFindings
  Bytes <- MCBytes
  Lower <- MCLower
  Rows = {10, 11}
  MaxQuery = 1
\* The application ends.
CHECK_DEADLOCK FALSE
SPECIFICATION Spec
INVARIANT
  EscapeAloneSuffices
