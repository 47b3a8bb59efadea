\* Two sessions at once on one user's two purchases, with the administrator and
\* the bonus days as other writers of the ledger: repeated payments of one
\* invoice, updates delivered twice, refunds, failures, expiry.
SPECIFICATION Spec
CONSTANTS
  Users = {u1}
  Txns = {x1, x2}
  Grants = {g1, g2}
  Charges = {c1, c2}
  Sessions = {s1, s2}
  SoldTiers = {"bronze"}
  Duration <- MCDuration
  BonusDays = 1
  MaxTime = 1
  SideFlows = {"activate", "kill", "bonus"}
  Redelivery = TRUE
  Drops = TRUE
  Aborts = TRUE
  NoTxn = NoTxn
  NoGrant = NoGrant
  NoCharge = NoCharge
  NoUser = NoUser
SYMMETRY IdsAndSessions
INVARIANT TypeOK
INVARIANT PaidIffGranted
INVARIANT RefundedIsOver
INVARIANT PaidTierBacked
PROPERTY LifecycleForward
PROPERTY ImplementsEntitlement
PROPERTY GrantsChangedByRight
