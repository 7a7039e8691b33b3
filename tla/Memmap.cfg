SPECIFICATION Spec
CONSTANTS
  p1 = p1
  p2 = p2
  c1 = c1
  c2 = c2
  Procs = {p1, p2}
  Configs <- AllConfigs
INVARIANTS FramesSound SpacesSound RangesSound
PROPERTIES MapsTake
VIEW NoResults
CHECK_DEADLOCK FALSE
