------------------------------ MODULE Referrals ------------------------------
(***************************************************************************)
(* What inviting others promises, without rows, sessions or messages.      *)
(* People join, once and for good, by themselves, from a campaign or on    *)
(* the invitation of a member.  A member's first profile completes their   *)
(* invitation, and both sides are rewarded in that very step, which never  *)
(* comes again, also when profiles are deleted and made anew.              *)
(***************************************************************************)
EXTENDS Integers

CONSTANTS
  People,
  Tags,        \* campaigns
  Nobody

VARIABLES
  members,     \* the people who have joined
  origin,      \* origin[p]: the member or the campaign p came from, if any
  profiled,    \* the members who have a profile
  completed,   \* the members whose invitation is completed
  given        \* given[p][b]: how many bonuses b the person p was given

vars == <<members, origin, profiled, completed, given>>

Bonuses == {"welcome", "referee", "referrer", "milestone"}

Init ==
  /\ members = {} /\ profiled = {} /\ completed = {}
  /\ origin = [p \in People |-> Nobody]
  /\ given = [p \in People |-> [b \in Bonuses |-> 0]]

\* One bonus each, for the pairs of person and bonus in B.
Give(B) ==
  given' = [p \in People |-> [b \in Bonuses |->
              given[p][b] + (IF <<p, b>> \in B THEN 1 ELSE 0)]]

Join(p, from) ==
  /\ p \notin members
  /\ members' = members \cup {p}
  /\ origin' = [origin EXCEPT ![p] = from]
  /\ Give({<<p, "welcome">>})
  /\ UNCHANGED <<profiled, completed>>

IsPending(p) == origin[p] \in People /\ p \notin completed

\* The first profile of an invited member.  The inviter is given none if they
\* are banned, and now and then a second one.
Complete(p, thanks) ==
  /\ p \in members \ profiled
  /\ IsPending(p)
  /\ profiled' = profiled \cup {p}
  /\ completed' = completed \cup {p}
  /\ Give({<<p, "referee">>} \cup ({origin[p]} \X thanks))
  /\ UNCHANGED <<members, origin>>

\* Any other profile.
MakeProfile(p) ==
  /\ p \in members \ profiled
  /\ ~IsPending(p)
  /\ profiled' = profiled \cup {p}
  /\ UNCHANGED <<members, origin, completed, given>>

DropProfile(p) ==
  /\ profiled' = profiled \ {p}
  /\ UNCHANGED <<members, origin, completed, given>>

Next ==
  \E p \in People :
    \/ \E from \in members \cup Tags \cup {Nobody} : Join(p, from)
    \/ \E thanks \in {{}, {"referrer"}, {"referrer", "milestone"}} : Complete(p, thanks)
    \/ MakeProfile(p)
    \/ DropProfile(p)

Spec == Init /\ [][Next]_vars

=============================================================================
