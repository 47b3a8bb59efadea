\* Two sessions at once on one row.
SPECIFICATION FocusSpec
CONSTANTS
  Sessions = {s1, s2}
  Values = {"unset", "other"}
  Unset = "unset"
  Albums <- MCAlbums
  Batches = {b1, b2, b3}
  Aborts = TRUE
  NoRow = NoRow
  NoBatch = NoBatch
SYMMETRY Symmetries
INVARIANT TypeOK
INVARIANT AlbumIsWhole
INVARIANT FirstEditWins
PROPERTY OwnFieldOnly
