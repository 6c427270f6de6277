SPECIFICATION Spec
CONSTANTS
  Users = {u1, u2}
  Clusters = {c1, c2}
  Profiles = {p1, p2}
  Overridden = {c2}
  Bare = {c2}
  ClusterApp = ClusterApp
  KarlonApp = KarlonApp
  None = None
  MaxCommands = 3
INVARIANTS TypeOK LabelMatches StillFound
PROPERTY OverlayFirst
CHECK_DEADLOCK FALSE
