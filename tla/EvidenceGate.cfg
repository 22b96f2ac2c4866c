\* Four days, up to two exceptions at a time, one command after the other.
CONSTANTS
  None = None
  Reports <- MCReports
  Policies <- MCPolicies
  ExceptionOptions <- MCExceptionOptions
  MaxDay = 3
  MaxExceptions = 2
SPECIFICATION Spec
INVARIANTS
  PassIsEarned
  OneExceptionOneViolation
  SetupOutranksExceptions
  AuditFailsClosed
  OrderDoesNotMatter
  WaitingNeverHelps
  OnlyVerifiedBlocks
