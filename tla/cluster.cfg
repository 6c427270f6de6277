CONSTANTS
  c1 = c1
  p1 = p1
  NoProfiles = NoProfiles
  NilMap = NilMap
  Clusters = {c1}
  Profiles = {}
SPECIFICATION FairSpec
INVARIANTS
  TypeOK
  NoOrphanApps
  FinalizerFirst
  OverrideRecordTrue
  CreatedMeansProvisioned
  Inductive
  Progress
PROPERTIES
  ImplementsLifecycle
  Converges
  TeardownCompletes
CHECK_DEADLOCK FALSE
