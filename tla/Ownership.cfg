\* Every tuple of up to four claims.
CONSTANTS
  Options <- MCOptions
  MaxClaims = 4
CHECK_DEADLOCK FALSE
SPECIFICATION Spec
INVARIANTS
  OneOwner
  SelectionIsEarned
  OrderDoesNotMatter
PROPERTIES
  OwnerNeverChanges
