\* Three sessions at once, two users who rate a third, repeated taps and
\* withdrawals.
SPECIFICATION HistorySpec
CONSTANTS
  Users = {u1, u2, u3}
  Shown = {u1}
  Rows = {r1, r2}
  Sessions = {s1, s2, s3}
  Scores = {0, 10}
  Unit = 2
  Withdrawals = TRUE
  Aborts = TRUE
  NoRow = NoRow
  NoUser = NoUser
SYMMETRY Symmetries
INVARIANT OneRatingPerPair
INVARIANT RatedHaveSummary
INVARIANT OverlapsSpoilOnlyTheirs
PROPERTY RatedMeansStored
PROPERTY ImplementsScoreboard
