------------------------------- MODULE MCRating -------------------------------
EXTENDS RatingHistory, TLC

\* Ids that nothing distinguishes.
Symmetries ==
  Permutations(Rows) \cup Permutations(Sessions)
    \cup Permutations(Shown) \cup Permutations(Users \ Shown)

=============================================================================
