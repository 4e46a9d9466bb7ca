SPECIFICATION Spec
SYMMETRY Symmetry
CONSTANTS
  Keys = {k1, k2, k3}
  NoKey = NoKey
  Tokens = {t1}
  Slots = {s1, s2}
  NoSlot = NoSlot
  Ops <- AllOps
INVARIANTS TypeOK RevokedStaysOut ListMirrorsSessions TokenWorksOnce
CHECK_DEADLOCK FALSE
