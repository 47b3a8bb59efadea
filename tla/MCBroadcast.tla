------------------------------ MODULE MCBroadcast ------------------------------
EXTENDS Broadcast, TLC

Symmetries == Permutations(Workers)

=============================================================================
