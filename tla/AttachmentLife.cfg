SPECIFICATION Spec
SYMMETRY Symmetry
CONSTANTS
  Files = {f1, f2, f3}
  Messages = {m1, m2}
  NoMessage = NoMessage
  Slots = {s1, s2}
  Ops <- AllOps
  Failing <- AnyStage
INVARIANTS TypeOK SingleBinding StoreMatchesRows
PROPERTY OnlyARaceTakesAttachments
CHECK_DEADLOCK FALSE
