CONSTANTS
  NPcs = 3
  BtbSize = 1
  MaxTaken = 1
  Delays = {2}
SPECIFICATION MCSpec
INVARIANTS
  RedirectIsFollowed
