---------------------------- MODULE RatingHistory ----------------------------
(***************************************************************************)
(* Rating with a record of which refreshes overlapped: what a lost update  *)
(* spoils, and for how long.  The record constrains no step of Rating.     *)
(***************************************************************************)
EXTENDS Rating

VARIABLES
  met,   \* open sessions that met another one refreshing the same summary
  torn   \* users whose last committed refresh was by such a session

history == <<met, torn>>

\* From the statistics to the commit.
Refreshing(s) == job[s].pc \in {"load", "upsert", "commit"}

Meets(s) ==
  /\ Refreshing(s)
  /\ \E r \in Sessions \ {s} : Refreshing(r) /\ job[r].rated = job[s].rated

HistoryInit == Init /\ met = {} /\ torn = {}

Record ==
  LET done == {s \in Sessions : Commit(s)}
      of(sessions) == {job[s].rated : s \in sessions}
  IN  /\ met' = {s \in Sessions : Meets(s)' \/ (s \in met /\ Refreshing(s)')}
      /\ torn' = (torn \ of(done)) \cup of(done \cap met)

HistoryNext == Next /\ Record

HistorySpec == HistoryInit /\ [][HistoryNext]_<<vars, history>>

\* ProfileScoreSummary is "derived from all Rating rows" of a user and
\* "upserted whenever any rating for this user changes": only refreshes of one
\* summary that overlap make it wrong, for that user alone, and only until the
\* next one that meets nobody.
OverlapsSpoilOnlyTheirs ==
  \A v \in DOMAIN summary \ torn : summary[v] = Stats(rating, v)

=============================================================================
