------------------------------- MODULE Ledger -------------------------------
(***************************************************************************)
(* The value objects of the Subscription context: tiers, grants and the    *)
(* projection of a user's grants to the premium status the bot shows.      *)
(*                                                                         *)
(* A grant is a record [owner, tier, txn, expires, revoked].  The column   *)
(* source is not kept: create_purchase is only ever called with a tier of  *)
(* TIER_CATALOG and create_bonus always with BONUS, so the tier tells      *)
(* purchases and bonuses apart.  starts_at and created_at decide nothing.  *)
(***************************************************************************)
EXTENDS Integers

CatalogTiers == {"bronze", "silver", "gold"}

Tiers == CatalogTiers \cup {"bonus"}

\* BONUS is the lowest, so that paid tiers shadow gifted days.
Priority == [bonus |-> 0, bronze |-> 1, silver |-> 2, gold |-> 3]

IsPurchase(grant) == grant.tier \in CatalogTiers

IsActiveAt(grant, when) == ~grant.revoked /\ grant.expires > when

\* Subscription.revoke: the row is kept, flagged, and ends now.
RevokedRow(grant, now) == [grant EXCEPT !.revoked = TRUE, !.expires = now]

Inactive == [active |-> FALSE, tier |-> "none", expires |-> 0]

\* SubscriptionStatus.from_grants: the tier of a grant of highest priority
\* among the active ones and the latest expiry of any active one, which need
\* not be the same grant's.
FromGrants(grants, now) ==
  LET active == {g \in grants : IsActiveAt(g, now)}
      first  == CHOOSE g \in active :
                  \A h \in active : Priority[h.tier] <= Priority[g.tier]
      last   == CHOOSE g \in active :
                  \A h \in active : h.expires <= g.expires
  IN  IF active = {} THEN Inactive
      ELSE [active |-> TRUE, tier |-> first.tier, expires |-> last.expires]

=============================================================================
