\* Two requests at once of three people, any of whom may invite the others.
SPECIFICATION HistorySpec
CONSTANTS
  People = {ann, ben, cid}
  Tags = {habr}
  Ids = {u1, u2, u3}
  Sessions = {s1, s2}
  Interval = 2
  Admin = TRUE
  Aborts = TRUE
  NoCode = NoCode
  NoUser = NoUser
SYMMETRY Symmetries
INVARIANT RegisteredOnce
INVARIANT SourcesAreWho
INVARIANT ProfileMeansRewarded
INVARIANT PaidOnce
INVARIANT OverlapsSpoilOnlyTheirs
INVARIANT NobodyInvitesInCircles
PROPERTY NobodyTurnedAway
PROPERTY ImplementsReferrals
