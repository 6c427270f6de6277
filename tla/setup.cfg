\* karlon init, the repository contexts and the cluster templates.
CONSTANTS
  Users = {u1, u2}
  r1 = r1
  r2 = r2
  d1 = d1
  m1 = m1
  m2 = m2
  Repos = {r1, r2}
  Default = default
  Aliases = {default, alias}
  Garbage = Garbage
  None = None
  MaxCommands = 2
  Dirs = {d1}
  Contents <- MCContents
  AllBounds <- MCBounds
  Manifest <- MCTemplate
  Generated = m2
  Examples <- MCExamples
  Template <- MCTemplate
  TemplateFile = m1
  DefaultBounds <- MCDefaultBounds

SPECIFICATION MCSpec
INVARIANTS TypeOK ContextsAgree ContextsBacked ContextsKept PreparedIsValid SuccessMeansInstalled ControllersLast
PROPERTIES NothingUndone BoundsKept
CHECK_DEADLOCK FALSE
