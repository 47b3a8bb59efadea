-------------------------------- MODULE MCFeed --------------------------------
EXTENDS Feed, TLC

CONSTANTS ann, bob, anyGender, unrated

GenderOf == ann :> "female" @@ bob :> "male"
DistanceOf == ann :> 1 @@ bob :> 2

HistoriesOf == {ann :> unrated @@ bob :> 3}

HabitsOf ==
  {[gender |-> anyGender, min |-> 3, located |-> TRUE],
   [gender |-> anyGender, min |-> 0, located |-> FALSE]}

Symmetries == Permutations(Sessions)

=============================================================================
