\* Two sessions at once that do not fail, under fairness.  No symmetry.
SPECIFICATION FairSpec
CONSTANTS
  Users = {u1}
  Txns = {x1, x2}
  Grants = {g1, g2}
  Charges = {c1, c2}
  Sessions = {s1, s2}
  SoldTiers = {"bronze"}
  Duration <- MCDuration
  BonusDays = 1
  MaxTime = 0
  SideFlows = {}
  Redelivery = TRUE
  Drops = FALSE
  Aborts = FALSE
  NoTxn = NoTxn
  NoGrant = NoGrant
  NoCharge = NoCharge
  NoUser = NoUser
PROPERTY PaymentLands
PROPERTY RefundRecorded
