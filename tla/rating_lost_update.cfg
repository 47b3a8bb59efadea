\* Two ratings of one user at once.
SPECIFICATION HistorySpec
CONSTANTS
  Users = {u1, u2, u3}
  Shown = {u1}
  Rows = {r1, r2}
  Sessions = {s1, s2}
  Scores = {0, 10}
  Unit = 2
  Withdrawals = FALSE
  Aborts = FALSE
  NoRow = NoRow
  NoUser = NoUser
SYMMETRY Symmetries
INVARIANT SummaryExact
