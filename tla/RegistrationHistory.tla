------------------------- MODULE RegistrationHistory -------------------------
(***************************************************************************)
(* Registration with a record of which rewards of one referrer overlapped, *)
(* and so of whose milestones they spoil, for good.  The record constrains *)
(* no step of Registration.                                                *)
(***************************************************************************)
EXTENDS Registration

VARIABLES
  met,   \* open sessions that met another one rewarding the same referrer
  torn   \* referrers that such a session has rewarded

history == <<met, torn>>

\* It has counted, or did not need to, as the referrer is banned: either way
\* its reward is among those that a later count takes.
Settling(s) == job[s].pc = "commit" /\ "rewarded" \in job[s].wrote

Meets(s) ==
  /\ Settling(s)
  /\ \E r \in Sessions \ {s} : Settling(r) /\ job[r].referrer = job[s].referrer

HistoryInit == Init /\ met = {} /\ torn = {}

Record ==
  /\ met' = {s \in Sessions : Meets(s)' \/ (s \in met /\ Settling(s)')}
  /\ torn' = torn \cup {job[s].referrer : s \in {r \in met : Commit(r)}}

HistoryNext == Next /\ Record

HistorySpec == HistoryInit /\ [][HistoryNext]_<<vars, history>>

\* "Every Nth completed referral gives the referrer an additional bonus":
\* exactly as long as they have not been banned while one was completed, never
\* more, for all whose rewards did not overlap.
OverlapsSpoilOnlyTheirs ==
  \A id \in DOMAIN user \ torn :
    LET earned == Cardinality(RewardedBy(id)) \div Interval
    IN  /\ bonus[id]["milestone"] <= earned
        /\ bonus[id]["referrer"] = Cardinality(RewardedBy(id)) =>
             bonus[id]["milestone"] = earned

=============================================================================
