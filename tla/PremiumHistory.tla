---------------------------- MODULE PremiumHistory ----------------------------
(***************************************************************************)
(* Premium with a record of which purchases overlapped: what that spoils,  *)
(* and for how long.  The record constrains no step of Premium.            *)
(***************************************************************************)
EXTENDS Premium

VARIABLES
  met,   \* open sessions that met another one buying for the same user
  torn   \* users whose last committed purchase was by such a session

history == <<met, torn>>

\* From the list of what a purchase revokes to its commit.
Buying(s) == job[s].op \in {"confirm", "activate"}

HasListed(s) == Buying(s) /\ job[s].pc \in {"revoke", "commit"}

Meets(s) ==
  /\ HasListed(s)
  /\ \E r \in Sessions \ {s} : HasListed(r) /\ job[r].owner = job[s].owner

HistoryInit == Init /\ met = {} /\ torn = {}

Record ==
  LET done == {s \in Sessions : ConfirmCommit(s) \/ ActivateCommit(s)}
      of(sessions) == {job[s].owner : s \in sessions}
  IN  /\ met' = {s \in Sessions : Meets(s)' \/ (s \in met /\ HasListed(s)')}
      /\ torn' = (torn \ of(done)) \cup of(done \cap met)

HistoryNext == Next /\ Record

HistorySpec == HistoryInit /\ [][HistoryNext]_<<vars, history>>

\* SubscriptionActivationService: a new purchase revokes all of the owner's
\* active purchases.  Only purchases that overlap leave two active, for their
\* owner alone, and only until the next one that meets nobody.
OverlapsSpoilOnlyTheirs ==
  \A u \in Users \ torn : Cardinality(ActivePurchases(u, clock)) <= 1

=============================================================================
