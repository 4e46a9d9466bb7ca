SPECIFICATION Spec
SYMMETRY Symmetry
CONSTANTS
  MaxMessages = 3
  Limit = 1
  Slots = {s1, s2}
INVARIANTS TypeOK UnreadIsWhatCame PagesDriftWithWrites
PROPERTY ListHidesNothing
