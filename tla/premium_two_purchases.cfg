\* Two payments of one user confirmed at once.
SPECIFICATION Spec
CONSTANTS
  Users = {u1}
  Txns = {x1, x2}
  Grants = {g1, g2}
  Charges = {c1, c2}
  Sessions = {s1, s2}
  SoldTiers = {"bronze"}
  Duration <- MCDuration
  BonusDays = 1
  MaxTime = 0
  SideFlows = {}
  Redelivery = FALSE
  Drops = FALSE
  Aborts = FALSE
  NoTxn = NoTxn
  NoGrant = NoGrant
  NoCharge = NoCharge
  NoUser = NoUser
SYMMETRY IdsAndSessions
INVARIANT OneActivePurchase
