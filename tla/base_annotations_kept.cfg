CONSTANTS
  c1 = c1
  p1 = p1
  NoProfiles = NoProfiles
  NilMap = NilMap
  Clusters = {c1}
  Profiles = {}
SPECIFICATION Spec
PROPERTY BaseAnnotationsKept
CHECK_DEADLOCK FALSE
