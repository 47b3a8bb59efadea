SPECIFICATION Spec
CONSTANTS
  Owners = {a, b}
  Seeds = {}
  Workers = {w1, w2}
  Lookback = 2
  Dormant = 2
  Cooldown = 2
  MaxWait = 1
  MaxTime = 3
  Wiped = TRUE
  Restless = {a}
  Never = Never
  Nobody = Nobody
SYMMETRY Symmetries
INVARIANT NothingFallsThrough
INVARIANT NudgesApart
PROPERTY MessagesAreWanted
