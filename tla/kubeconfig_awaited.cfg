CONSTANTS
  r1 = r1
  n1 = n1
  Unnamed = Unnamed
  Resources = {r1}
  Names = {r1, n1}
  Absent <- NoResource
SPECIFICATION FairSpec
PROPERTY KubeconfigAwaited
CHECK_DEADLOCK FALSE
