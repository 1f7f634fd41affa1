SPECIFICATION Spec
CONSTANTS
  d1 = d1  d2 = d2  f = f  g = g  l1 = l1  l2 = l2  l3 = l3  k1 = k1  k2 = k2
  None = None
  Dirs = {d1, d2}
  Files = {f, g}
  Large = {f}
  Loops = {l1, l2}
  Jobs = {k1}
  Happens = {"crash", "halfMove"}
  OpsMax = 1
  HappensMax = 1
SYMMETRY Alike
CHECK_DEADLOCK FALSE
PROPERTY ServerKept
