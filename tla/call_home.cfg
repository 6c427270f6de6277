CONSTANTS
  r1 = r1
  Resources = {r1}
  Absent <- NoResource
SPECIFICATION FairSpec
INVARIANTS
  TypeOK
  CompleteMeansCreated
PROPERTIES
  ImplementsOutcome
  CallsHome
CHECK_DEADLOCK FALSE
