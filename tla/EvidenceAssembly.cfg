\* All graphs of at most two extra facts and two relations over the skeleton.
CONSTANTS
  None = None
  FactOptions <- MCFactOptions
  RelationOptions <- MCRelationOptions
  ScopeIds <- MCScopeIds
  MaxFacts = 2
  MaxRelations = 2
SPECIFICATION AssemblySpec
\* A graph with every kind of record is complete.
CHECK_DEADLOCK FALSE
INVARIANTS
  GuardedMeetsContract
  GuardRestsOnNoAdvisory
  AmbiguityIsNeverOutvoted
PROPERTIES
  WeakSignalsAreInert
