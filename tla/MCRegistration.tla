---------------------------- MODULE MCRegistration ----------------------------
EXTENDS RegistrationHistory, TLC

\* Ids that nothing distinguishes.
Symmetries ==
  Permutations(Ids) \cup Permutations(Sessions)
    \cup Permutations(People) \cup Permutations(Tags)

=============================================================================
