SPECIFICATION MCSpec
CONSTANTS
  Users = {u1}
  b1 = b1
  n1 = n1
  n2 = n2
  c1 = c1
  d1 = d1
  d2 = d2
  v1 = v1
  t1 = t1
  t2 = t2
  k1 = k1
  k2 = k2
  None = None
  Bundles = {b1}
  Names <- MCNames
  Clusters <- MCClusters
  Directories <- MCDirectories
  Data = {d1, d2}
  Values = {v1}
  Texts = {t1, t2}
  Charts = {k1, k2}
  Sizes = {1, 2}
  DefaultMax = 2
  MaxCommands = 2
PROPERTY SpecChangeApplied
CHECK_DEADLOCK FALSE
