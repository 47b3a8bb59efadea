SPECIFICATION Spec
CONSTANTS
  ann = ann
  bob = bob
  anyGender = any
  unrated = unrated
  Owners = {ann, bob}
  Sessions = {r1, r2}
  Gender <- GenderOf
  Distance <- DistanceOf
  Averages = {0, 3, 5}
  Quota = 1
  TTL = 1
  MaxTime = 1
  MaxUpdates = 3
  MaxChanges = 2
  AnyGender = any
  Unrated = unrated
  Histories <- HistoriesOf
  Habits <- HabitsOf
  Never = Never
  Nobody = Nobody
SYMMETRY Symmetries
INVARIANT SkipsRunOut
PROPERTY ShownWasWanted
PROPERTY NearestFirst
