------------------------------ MODULE MCPremium ------------------------------
EXTENDS Premium, TLC

\* A bronze purchase lasts a day of the model, the others two.
MCDuration == [bronze |-> 1, silver |-> 2, gold |-> 2]

\* Ids that nothing distinguishes; only for runs without liveness.
Ids == Permutations(Txns) \cup Permutations(Grants) \cup Permutations(Charges)

IdsAndSessions == Ids \cup Permutations(Sessions)

=============================================================================
