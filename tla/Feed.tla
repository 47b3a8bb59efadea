--------------------------------- MODULE Feed ---------------------------------
(***************************************************************************)
(* The feed of one viewer: /feed, rating and skipping from the keyboards   *)
(* that are in the chat, and the search for the next profile to show.      *)
(*                                                                         *)
(* Each handler ends by searching the next profile with half a dozen       *)
(* reads of PostgreSQL and Redis, between which other handlers of the      *)
(* same viewer, other users and the administrator change what was read.    *)
(* Keyboards stay in the chat and can be used at any later time.           *)
(***************************************************************************)
EXTENDS Integers, FiniteSets

CONSTANTS
  Owners,      \* the other people who have a profile
  Sessions,    \* handlers of the viewer's updates that run at a time
  Gender,      \* of each owner
  Distance,    \* of each owner from the viewer's search location
  Averages,    \* scores, and settings of the filter of minimum ratings
  Quota,       \* FREE_RATINGS_WITHOUT_PROFILE
  TTL,         \* ttl_seconds of the skip registry
  MaxTime,     \* bound on the clock
  Histories,   \* bound: the averages and preferences to start from
  Habits,
  MaxUpdates,  \* bound on the updates of the viewer
  MaxChanges,  \* bound on what happens outside the feed
  AnyGender,   \* GenderPreference.ANY
  Unrated,     \* no row in profile_score_summaries
  Never, Nobody

ASSUME FunctionsOfOwners ==
  /\ DOMAIN Gender = Owners
  /\ Distance \in [Owners -> Nat]
  /\ AnyGender \notin {Gender[o] : o \in Owners}
  /\ Nobody \notin Owners

ASSUME NumbersAreNaturals ==
  /\ {Quota, TTL, MaxTime, MaxUpdates, MaxChanges} \subseteq Nat
  /\ Averages \subseteq Nat /\ 0 \in Averages
  /\ Unrated \notin Averages /\ Never \notin Int

VARIABLES
  visible,   \* owners whose profile is visible
  average,   \* of each owner's ratings
  prefs,     \* the viewer's search preferences
  premium,   \* is the viewer premium now?
  mine,      \* has the viewer a profile?
  rated,     \* owners the viewer has rated
  skips,     \* the viewer's key of the skip registry
  chat,      \* owners with a keyboard in the chat
  job,       \* what each session is doing
  clock,
  updates,   \* how many updates the viewer has sent
  changes,   \* how much has happened outside the feed
  away,      \* until when an owner was promised not to surface
  orphaned,  \* has a session died between SADD and EXPIRE?
  good,      \* owners fit to be shown at every moment of the search
  barred     \* objections that held at every moment of the search

settings == <<visible, average, prefs, premium, mine>>

vars == <<settings, rated, skips, chat, job, clock, updates, changes, away, orphaned, good, barred>>

-----------------------------------------------------------------------------

Genders == {Gender[o] : o \in Owners}

Preferences == [gender: Genders \cup {AnyGender}, min: Averages, located: BOOLEAN]

Registry == [members: SUBSET Owners, expires: Nat \cup {Never}]

Reads == {"prefs", "profile", "count", "grants", "skips", "find", "show"}

\* moved is not in the code: the filters changed so often during the search.
Job ==
  [pc: {"idle", "expire", "strip"} \cup Reads, to: Owners \cup {Nobody},
   prefs: Preferences, filter: BOOLEAN, skipped: SUBSET Owners, moved: Nat]

NewPreferences == [gender |-> AnyGender, min |-> 0, located |-> FALSE]

Idle ==
  [pc |-> "idle", to |-> Nobody, prefs |-> NewPreferences, filter |-> FALSE,
   skipped |-> {}, moved |-> 0]

At(r, pc) == job[r].pc = pc

Searching(r) == job[r].pc \in Reads

\* A key that has run out is as good as deleted.
Skipped == IF skips.expires # Never /\ skips.expires <= clock THEN {} ELSE skips.members

ASSUME StartsAreTyped ==
  /\ Histories \subseteq [Owners -> Averages \cup {Unrated}]
  /\ Habits \subseteq Preferences

-----------------------------------------------------------------------------
(* DiscoverySpecApplier: the rows that the specification selects.          *)

\* "Profiles with no ratings are excluded": the JOIN is INNER.
AverageAtLeast(o, threshold) == average[o] # Unrated /\ average[o] >= threshold

HasGender(o, gender) == gender = AnyGender \/ Gender[o] = gender

\* default_feed_spec; the viewer is none of the Owners.
DefaultFeed == visible \ rated

Matches(job_) ==
  {o \in DefaultFeed :
     /\ HasGender(o, job_.prefs.gender)
     /\ job_.filter => AverageAtLeast(o, job_.prefs.min)
     /\ o \notin job_.skipped}

Nearest(S) == {o \in S : \A p \in S : Distance[o] <= Distance[p]}

-----------------------------------------------------------------------------
(* What a search owes its viewer.                                          *)

Below(o) == premium /\ prefs.min > 0 /\ ~AverageAtLeast(o, prefs.min)

Reasons == {"rated", "hidden", "skipped", "gender", "average", "quota"}

\* To each owner, told apart by reason: to be below one minimum is not the same
\* as to be below another.
Objections ==
  ({<<"rated", 0>>} \X rated)
    \cup ({<<"hidden", 0>>} \X (Owners \ visible))
    \cup ({<<"skipped", 0>>} \X {o \in Owners : clock < away[o]})
    \cup ({<<"gender", 0>>} \X {o \in Owners : ~HasGender(o, prefs.gender)})
    \cup ({<<"average", prefs.min>>} \X {o \in Owners : Below(o)})
    \cup ({<<"quota", 0>>} \X {o \in Owners : ~mine /\ Cardinality(rated) >= Quota})

Fit == {o \in DefaultFeed \ Skipped : HasGender(o, prefs.gender) /\ ~Below(o)}

\* Kept by every action, for the searches that go on.
Watch ==
  /\ good' = [r \in Sessions |->
       IF ~Searching(r)' THEN {} ELSE IF Searching(r) THEN good[r] \cap Fit' ELSE Fit']
  /\ barred' = [r \in Sessions |->
       IF ~Searching(r)' THEN {}
       ELSE IF Searching(r) THEN barred[r] \cap Objections' ELSE Objections']

-----------------------------------------------------------------------------
(* The handlers.                                                           *)

outside == <<settings, clock, changes>>

Goto(r, pc) == job' = [job EXCEPT ![r].pc = pc]

Receives(r) == At(r, "idle") /\ updates < MaxUpdates /\ updates' = updates + 1

\* cmd_feed
Ask(r) ==
  /\ Receives(r)
  /\ Goto(r, "prefs")
  /\ UNCHANGED <<outside, rated, skips, chat, away, orphaned>>

\* on_rate; see Rating for what happens inside rate_user.
Rate(r, o) ==
  /\ Receives(r)
  /\ o \in chat
  /\ rated' = rated \cup {o}
  /\ job' = [job EXCEPT ![r].pc = "strip", ![r].to = o]
  /\ UNCHANGED <<outside, skips, chat, away, orphaned>>

\* on_skip: SADD makes the key, without a time to live, if there is none.
Skip(r, o) ==
  /\ Receives(r)
  /\ o \in chat
  /\ skips' = [members |-> Skipped \cup {o},
               expires |-> IF Skipped = {} THEN Never ELSE skips.expires]
  /\ job' = [job EXCEPT ![r].pc = "expire", ![r].to = o]
  /\ UNCHANGED <<outside, rated, chat, away, orphaned>>

\* Mutated: the commands are swapped, and EXPIRE found no key.
ExpireFirst(r) ==
  /\ At(r, "expire")
  /\ Goto(r, "strip")
  /\ UNCHANGED <<outside, updates, rated, skips, chat, away, orphaned>>

\* EXPIRE does nothing to a key that ran out since the SADD: the skip is lost.
Expire(r) ==
  /\ At(r, "expire")
  /\ IF Skipped = {}
     THEN UNCHANGED <<skips, away>>
     ELSE /\ skips' = [skips EXCEPT !.expires = clock + TTL]
          /\ away' = IF job[r].to \in Skipped THEN [away EXCEPT ![job[r].to] = clock + TTL] ELSE away
  /\ Goto(r, "strip")
  /\ UNCHANGED <<outside, updates, rated, chat, orphaned>>

\* One keyboard goes, if Telegram lets it; the same profile may have others.
Strip(r) ==
  /\ At(r, "strip")
  /\ chat' \in {chat, chat \ {job[r].to}}
  /\ job' = [job EXCEPT ![r].pc = "prefs", ![r].to = Nobody]
  /\ UNCHANGED <<outside, updates, rated, skips, away, orphaned>>

Die(r) ==
  /\ ~At(r, "idle")
  /\ job' = [job EXCEPT ![r] = Idle]
  /\ orphaned' = (orphaned \/ At(r, "expire"))
  /\ UNCHANGED <<outside, updates, rated, skips, chat, away>>

-----------------------------------------------------------------------------
(* GetNextProfileForRatingUseCase and show_next_or_done.                   *)

reading == <<outside, updates, rated, skips, away, orphaned>>

End(r) == job' = [job EXCEPT ![r] = Idle]

ReadPreferences(r) ==
  /\ At(r, "prefs")
  /\ IF prefs.located
     THEN job' = [job EXCEPT ![r].pc = "profile", ![r].prefs = prefs]
     ELSE End(r)
  /\ UNCHANGED <<reading, chat>>

ProfileExists(r) ==
  /\ At(r, "profile")
  /\ Goto(r, IF mine THEN "grants" ELSE "count")
  /\ UNCHANGED <<reading, chat>>

\* Mutated: one more than the limit.
CountOneMore(r) ==
  /\ At(r, "count")
  /\ IF Cardinality(rated) > Quota THEN End(r) ELSE Goto(r, "grants")
  /\ UNCHANGED <<reading, chat>>

CountByRater(r) ==
  /\ At(r, "count")
  /\ IF Cardinality(rated) >= Quota THEN End(r) ELSE Goto(r, "grants")
  /\ UNCHANGED <<reading, chat>>

\* Mutated: the stored minimum is honoured whether or not premium has ended.
IsPremiumEver(r) ==
  /\ At(r, "grants")
  /\ job' = [job EXCEPT ![r].pc = "skips", ![r].filter = job[r].prefs.min > 0]
  /\ UNCHANGED <<reading, chat>>

IsPremium(r) ==
  /\ At(r, "grants")
  /\ job' = [job EXCEPT ![r].pc = "skips", ![r].filter = job[r].prefs.min > 0 /\ premium]
  /\ UNCHANGED <<reading, chat>>

GetSkipped(r) ==
  /\ At(r, "skips")
  /\ job' = [job EXCEPT ![r].pc = "find", ![r].skipped = Skipped]
  /\ UNCHANGED <<reading, chat>>

Found(r, o) ==
  job' = [job EXCEPT ![r] = [Idle EXCEPT !.pc = "show", !.to = o, !.moved = job[r].moved]]

FindNext(r) ==
  /\ At(r, "find")
  /\ \/ /\ Matches(job[r]) = {}
        /\ Found(r, Nobody)
     \/ \E o \in Nearest(Matches(job[r])) :
          Found(r, o)
  /\ UNCHANGED <<reading, chat>>

\* The profile with its keyboard, or "No more profiles to rate".
Show(r) ==
  /\ At(r, "show")
  /\ chat' = (chat \cup {job[r].to}) \ {Nobody}
  /\ End(r)
  /\ UNCHANGED reading

-----------------------------------------------------------------------------
(* Outside the feed.                                                       *)

feed == <<rated, skips, chat, clock, updates, away, orphaned>>

Happens == changes < MaxChanges /\ changes' = changes + 1

Moved ==
  job' = [r \in Sessions |-> IF Searching(r) THEN [job[r] EXCEPT !.moved = @ + 1] ELSE job[r]]

SetPreferences ==
  /\ Happens
  /\ \/ \E g \in Genders \cup {AnyGender} : prefs' = [prefs EXCEPT !.gender = g]
     \/ premium /\ \E a \in Averages : prefs' = [prefs EXCEPT !.min = a]
     \/ prefs' = [prefs EXCEPT !.located = TRUE]
  /\ Moved
  /\ UNCHANGED <<feed, visible, average, premium, mine>>

ChangePremium ==
  /\ Happens
  /\ premium' = ~premium
  /\ Moved
  /\ UNCHANGED <<feed, visible, average, prefs, mine>>

Regrade(o) ==
  /\ Happens
  /\ \E a \in Averages \cup {Unrated} : average' = [average EXCEPT ![o] = a]
  /\ Moved
  /\ UNCHANGED <<feed, visible, prefs, premium, mine>>

ChangeVisibility(o) ==
  /\ Happens
  /\ visible' = IF o \in visible THEN visible \ {o} ELSE visible \cup {o}
  /\ UNCHANGED <<feed, job, average, prefs, premium, mine>>

\* /create, or an administrator deletes the viewer's profile.
ChangeProfile ==
  /\ Happens
  /\ mine' = ~mine
  /\ UNCHANGED <<feed, job, visible, average, prefs, premium>>

Tick ==
  /\ clock < MaxTime
  /\ clock' = clock + 1
  /\ UNCHANGED <<settings, rated, skips, chat, job, updates, changes, away, orphaned>>

-----------------------------------------------------------------------------

Init ==
  /\ visible = Owners
  /\ average \in Histories
  /\ prefs \in Habits
  /\ premium \in BOOLEAN
  /\ mine = FALSE
  /\ rated = {}
  /\ skips = [members |-> {}, expires |-> Never]
  /\ chat = {}
  /\ job = [r \in Sessions |-> Idle]
  /\ clock = 0
  /\ updates = 0
  /\ changes = 0
  /\ away = [o \in Owners |-> 0]
  /\ orphaned = FALSE
  /\ good = [r \in Sessions |-> {}]
  /\ barred = [r \in Sessions |-> {}]

Search(r) ==
  \/ ReadPreferences(r)
  \/ ProfileExists(r)
  \/ CountByRater(r)
  \/ IsPremium(r)
  \/ GetSkipped(r)
  \/ FindNext(r)
  \/ Show(r)

Handle(r) ==
  \/ Ask(r)
  \/ \E o \in Owners : Rate(r, o) \/ Skip(r, o)
  \/ Expire(r)
  \/ Strip(r)
  \/ Search(r)
  \/ Die(r)

Outside ==
  \/ SetPreferences
  \/ ChangePremium
  \/ ChangeProfile
  \/ \E o \in Owners : Regrade(o) \/ ChangeVisibility(o)
  \/ Tick
  \/ (\A r \in Sessions : At(r, "idle")) /\ UNCHANGED vars

Next == (Outside \/ \E r \in Sessions : Handle(r)) /\ Watch

Spec == Init /\ [][Next]_vars

-----------------------------------------------------------------------------
(* Properties.                                                             *)

\* Tables, the key of skips and the sessions have their types.
TypeOK ==
  /\ visible \subseteq Owners
  /\ average \in [Owners -> Averages \cup {Unrated}]
  /\ prefs \in Preferences
  /\ {premium, mine, orphaned} \subseteq BOOLEAN
  /\ rated \subseteq Owners
  /\ skips \in Registry
  /\ chat \subseteq Owners
  /\ job \in [Sessions -> Job]
  /\ {clock, updates, changes} \subseteq Nat
  /\ away \in [Owners -> Nat]
  /\ good \in [Sessions -> SUBSET Owners]
  /\ barred \in [Sessions -> SUBSET ((Reasons \X Averages) \X Owners)]

\* Whatever changes while a search reads, it never shows a profile against
\* which the same objection held from its first read to the message: rated
\* already, hidden, skipped within the hour, of a gender that is not wanted,
\* below the same minimum of a premium viewer, or beyond the free ratings of a
\* viewer without a profile.
ShowsTheWanted ==
  \A r \in Sessions : At(r, "show") /\ Show(r) => \A b \in barred[r] : b[2] # job[r].to

ShownWasWanted == [][ShowsTheWanted]_vars

\* No profile that was fit all along is passed over for one further away, or
\* for "No more profiles": unless the filters, that are read one after the
\* other, changed twice in between.
ShowsTheNearest ==
  \A r \in Sessions : At(r, "show") /\ Show(r) /\ job[r].moved <= 1 =>
    \A o \in good[r] : job[r].to # Nobody /\ Distance[job[r].to] <= Distance[o]

NearestFirst == [][ShowsTheNearest]_vars

\* The key of skipped owners has a time to live, but while a skip is being
\* recorded: only a session that dies between the two commands leaves one
\* that hides its owners for good.
SkipsRunOut ==
  skips.members # {} /\ skips.expires = Never =>
    orphaned \/ \E r \in Sessions : At(r, "expire")

=============================================================================
