CONSTANTS
  c1 = c1
  p1 = p1
  p2 = p2
  a1 = a1
  s1 = s1
  s2 = s2
  Nothing = Nothing
  Clusters = {c1}
  Profiles = {p1}
  Apps = {a1}
  Servers = {s1}
  MaxTroubles = 2
SPECIFICATION FairSpec
INVARIANT QuietIsConsistent
PROPERTY ComesToRest
CHECK_DEADLOCK FALSE
