\* Two sessions of one user, who buys up to three times; every answer of the
\* provider comes once.
SPECIFICATION HistorySpec
CONSTANTS
  Users = {u1}
  Txns = {x1, x2}
  Grants = {g1, g2, g3}
  Charges = {c1, c2}
  Sessions = {s1, s2}
  SoldTiers = {"silver"}
  Duration <- MCDuration
  BonusDays = 1
  MaxTime = 1
  SideFlows = {"activate", "kill"}
  Redelivery = FALSE
  Drops = FALSE
  Aborts = TRUE
  NoTxn = NoTxn
  NoGrant = NoGrant
  NoCharge = NoCharge
  NoUser = NoUser
SYMMETRY IdsAndSessions
INVARIANT OverlapsSpoilOnlyTheirs
