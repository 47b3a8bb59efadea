------------------------------ MODULE MCSettings ------------------------------
EXTENDS Settings, TLC

\* The three rows do not meet in any statement: a behaviour has requests for one.
VARIABLE focus

MCAlbums == {<<"a">>, <<"b", "a">>}

FocusInit == Init /\ focus \in Tables

FocusNext ==
  /\ Next
  /\ UNCHANGED focus
  /\ \A s \in Sessions : job'[s].table \in {focus, "none"}

FocusSpec == FocusInit /\ [][FocusNext]_<<vars, focus>>

Symmetries == Permutations(Sessions) \cup Permutations(Batches)

=============================================================================
