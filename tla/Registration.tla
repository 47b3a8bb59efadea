----------------------------- MODULE Registration -----------------------------
(***************************************************************************)
(* Identity, Referral and the creation of a profile: how a person gets an  *)
(* account, where the bot believes they came from, and what they and the   *)
(* person who invited them are given for it.                               *)
(*                                                                         *)
(* Requests are served by concurrent database sessions under READ          *)
(* COMMITTED: see Premium.  A first /start pressed twice, /start beside    *)
(* another command, and invited people who arrive at the same time make    *)
(* two registrations of one person or of one source possible.              *)
(*                                                                         *)
(* A person is a Telegram account; the code of a source is a person (the   *)
(* numeric payload of an invitation) or a campaign tag.                    *)
(***************************************************************************)
EXTENDS Integers, FiniteSets

CONSTANTS
  People,
  Tags,
  Ids,        \* ids of users rows
  Sessions,
  Interval,   \* MILESTONE_INTERVAL
  Admin,      \* does an administrator ban users and delete profiles?
  Aborts,     \* may a session fail or the process crash?
  NoCode, NoUser

ASSUME NullsAreNotValues == NoCode \notin People \cup Tags /\ NoUser \notin Ids

ASSUME ShapesDiffer == People \cap Tags = {}

ASSUME IntervalIsPositive == Interval \in Nat \ {0}

ASSUME SwitchesAreBoolean == Admin \in BOOLEAN /\ Aborts \in BOOLEAN

VARIABLES
  user,         \* committed users, by id
  source,       \* committed acquisition_sources: the referrer, by code
  acquisition,  \* committed acquisitions, by user
  profile,      \* users with a committed profile
  bonus,        \* how many bonus grants a user has, by reason
  job           \* what each session is doing

vars == <<user, source, acquisition, profile, bonus, job>>

tables == <<user, source, acquisition, profile, bonus>>

-----------------------------------------------------------------------------

Codes == People \cup Tags

Reasons == {"welcome", "referee", "referrer", "milestone"}

UserRow == [person: People, banned: BOOLEAN]

AcquisitionRow == [code: Codes, rewarded: BOOLEAN]

Job ==
  [op: {"idle", "start", "create"},
   pc: {"idle", "resolve", "user", "source", "register",
        "exists", "profile", "reward", "mark", "referrer", "count", "commit"},
   person: People \cup {NoCode},
   code: Codes \cup {NoCode},         \* where the person comes from
   id: Ids \cup {NoUser},             \* the user it found or made
   referrer: Ids \cup {NoUser},
   wrote: SUBSET {"source", "rewarded", "referrer", "milestone"}]

Request(op, pc, p, code, id) ==
  [op |-> op, pc |-> pc, person |-> p, code |-> code, id |-> id,
   referrer |-> NoUser, wrote |-> {}]

Idle == Request("idle", "idle", NoCode, NoCode, NoUser)

Begin(s, request) == job[s] = Idle /\ job' = [job EXCEPT ![s] = request]

End(s) == job' = [job EXCEPT ![s] = Idle]

At(s, pc) == job[s].pc = pc

Goto(s, pc) == job' = [job EXCEPT ![s].pc = pc]

\* get_by_telegram_id
AccountsOf(p) == {id \in DOMAIN user : user[id].person = p}

Fresh(id) == id \notin DOMAIN user /\ \A s \in Sessions : job[s].id # id

\* The acquisitions whose source is a person: _referral_stmt.
IsReferral(id) ==
  id \in DOMAIN acquisition /\ source[acquisition[id].code] # NoUser

\* count_rewarded_for_referrer
RewardedBy(r) ==
  {id \in DOMAIN acquisition :
     acquisition[id].rewarded /\ source[acquisition[id].code] = r}

\* A unique key makes an INSERT wait for an uncommitted INSERT of the same key.
PersonBusy(s) ==
  \E r \in Sessions \ {s} :
    job[r].person = job[s].person /\ job[r].pc \in {"source", "register"}

CodeBusy(s) ==
  \E r \in Sessions \ {s} : job[r].code = job[s].code /\ "source" \in job[r].wrote

OwnerBusy(s) ==
  \E r \in Sessions \ {s} :
    /\ job[r].id = job[s].id
    /\ job[r].pc \in {"reward", "mark", "referrer", "count", "commit"}

-----------------------------------------------------------------------------
(* RegisterUserUseCase.  A returning user is registered already: nothing   *)
(* but the username is written, which no property here is about.           *)

\* /start: one's own invitation is dropped, and so is a malformed tag.
Start(s, p, payload) ==
  LET code == IF payload = p THEN NoCode ELSE payload
  IN  /\ AccountsOf(p) = {}
      /\ Begin(s, Request("start", IF code \in People THEN "resolve" ELSE "user",
                          p, code, NoUser))
      /\ UNCHANGED tables

\* BanCheckMiddleware, in front of every handler; a stranger passes.
BanCheck(id) == ~user[id].banned

\* The last message of the form: registers its sender, if need be, and then
\* creates the profile.
Create(s, p) ==
  /\ \/ /\ AccountsOf(p) = {}
        /\ Begin(s, Request("create", "user", p, NoCode, NoUser))
     \/ \E id \in AccountsOf(p) :
          /\ BanCheck(id)
          /\ Begin(s, Request("create", "exists", p, NoCode, id))
  /\ UNCHANGED tables

\* Mutated: an invitation by somebody who has no account is recorded too.
ResolveAnybody(s) ==
  /\ At(s, "resolve")
  /\ \/ \E r \in AccountsOf(job[s].code) :
          job' = [job EXCEPT ![s].pc = "user", ![s].referrer = r]
     \/ AccountsOf(job[s].code) = {} /\ Goto(s, "user")
  /\ UNCHANGED tables

\* _resolve_referrer: who is not registered does not count as a referrer.
Resolve(s) ==
  /\ At(s, "resolve")
  /\ \/ \E r \in AccountsOf(job[s].code) :
          job' = [job EXCEPT ![s].pc = "user", ![s].referrer = r]
     \/ /\ AccountsOf(job[s].code) = {}
        /\ job' = [job EXCEPT ![s].pc = "user", ![s].code = NoCode]
  /\ UNCHANGED tables

\* Mutated: users.telegram_id is not unique.
NoAccount(p) == TRUE

\* users.telegram_id is unique.
PersonIsFree(p) == AccountsOf(p) = {}

\* The welcome bonus is flushed with the user: nobody else can see either.
InsertUser(s, id) ==
  /\ At(s, "user")
  /\ ~PersonBusy(s)
  /\ PersonIsFree(job[s].person)
  /\ Fresh(id)
  /\ job' = [job EXCEPT ![s].id = id,
                        ![s].pc = IF job[s].code = NoCode THEN "register"
                                  ELSE "source"]
  /\ UNCHANGED tables

\* IntegrityError, which nobody catches.
InsertUserConflict(s) ==
  /\ At(s, "user")
  /\ ~PersonBusy(s)
  /\ ~PersonIsFree(job[s].person)
  /\ End(s)
  /\ UNCHANGED tables

\* Mutated: without ON CONFLICT DO NOTHING, the loser of a race is turned away.
AddSourceOrFail(s) ==
  /\ At(s, "source")
  /\ ~CodeBusy(s)
  /\ IF job[s].code \in DOMAIN source THEN End(s)
     ELSE job' = [job EXCEPT ![s].pc = "register", ![s].wrote = {"source"}]
  /\ UNCHANGED tables

\* get_or_create_source_id, then the acquisition of the new user.
AddSource(s) ==
  /\ At(s, "source")
  /\ ~CodeBusy(s)
  /\ job' = [job EXCEPT ![s].pc = "register",
                        ![s].wrote = IF job[s].code \in DOMAIN source THEN {}
                                     ELSE {"source"}]
  /\ UNCHANGED tables

Sources(s) ==
  IF "source" \in job[s].wrote
  THEN [c \in DOMAIN source \cup {job[s].code} |->
          IF c = job[s].code THEN job[s].referrer ELSE source[c]]
  ELSE source

Acquisitions(s) ==
  IF job[s].code = NoCode THEN acquisition
  ELSE [id \in DOMAIN acquisition \cup {job[s].id} |->
          IF id = job[s].id THEN [code |-> job[s].code, rewarded |-> FALSE]
          ELSE acquisition[id]]

WithUser(s) ==
  [id \in DOMAIN user \cup {job[s].id} |->
     IF id = job[s].id THEN [person |-> job[s].person, banned |-> FALSE]
     ELSE user[id]]

\* The commit of RegisterUserUseCase; /create goes on in the same session.
Register(s) ==
  /\ At(s, "register")
  /\ user' = WithUser(s)
  /\ source' = Sources(s)
  /\ acquisition' = Acquisitions(s)
  /\ bonus' = [id \in DOMAIN bonus \cup {job[s].id} |->
                 IF id = job[s].id
                 THEN [why \in Reasons |-> IF why = "welcome" THEN 1 ELSE 0]
                 ELSE bonus[id]]
  /\ IF job[s].op = "create" THEN Goto(s, "exists") ELSE End(s)
  /\ UNCHANGED profile

-----------------------------------------------------------------------------
(* CreateProfileUseCase and ReferralRewardService.                         *)

\* exists_for_owner
CheckExists(s) ==
  /\ At(s, "exists")
  /\ IF job[s].id \in profile THEN End(s) ELSE Goto(s, "profile")
  /\ UNCHANGED tables

\* profiles.owner_id is unique.
OwnerIsFree(s) == job[s].id \notin profile

InsertProfile(s) ==
  /\ At(s, "profile")
  /\ ~OwnerBusy(s)
  /\ OwnerIsFree(s)
  /\ Goto(s, "reward")
  /\ UNCHANGED tables

\* IntegrityError, which nobody catches.
InsertProfileConflict(s) ==
  /\ At(s, "profile")
  /\ ~OwnerBusy(s)
  /\ ~OwnerIsFree(s)
  /\ End(s)
  /\ UNCHANGED tables

\* Mutated: whether the referral is rewarded already is not looked at.
IsReferralAtAll(id) == IsReferral(id)

IsPending(id) == IsReferral(id) /\ ~acquisition[id].rewarded

\* mark_profile_created: nothing to do without a pending referral.
FindReferral(s) ==
  /\ At(s, "reward")
  /\ IF IsPending(job[s].id)
     THEN job' = [job EXCEPT ![s].pc = "mark",
                             ![s].referrer = source[acquisition[job[s].id].code]]
     ELSE Goto(s, "commit")
  /\ UNCHANGED tables

\* Mutated: the referral of a banned referrer stays pending.
MarkUnlessBanned(s) ==
  /\ At(s, "mark")
  /\ IF user[job[s].referrer].banned THEN Goto(s, "commit")
     ELSE job' = [job EXCEPT ![s].pc = "referrer",
                             ![s].wrote = job[s].wrote \cup {"rewarded"}]
  /\ UNCHANGED tables

\* rewarded_at is flushed, and the referee's bonus with it.
Mark(s) ==
  /\ At(s, "mark")
  /\ job' = [job EXCEPT ![s].pc = "referrer",
                        ![s].wrote = job[s].wrote \cup {"rewarded"}]
  /\ UNCHANGED tables

\* A banned referrer is skipped.
PayReferrer(s) ==
  /\ At(s, "referrer")
  /\ IF user[job[s].referrer].banned THEN Goto(s, "commit")
     ELSE job' = [job EXCEPT ![s].pc = "count",
                             ![s].wrote = job[s].wrote \cup {"referrer"}]
  /\ UNCHANGED tables

\* Mutated: the reward that is being paid is not counted.
CountOthers(s) ==
  LET count == Cardinality(RewardedBy(job[s].referrer))
  IN  /\ At(s, "count")
      /\ job' = [job EXCEPT ![s].pc = "commit",
                            ![s].wrote = IF count > 0 /\ count % Interval = 0
                                         THEN job[s].wrote \cup {"milestone"}
                                         ELSE job[s].wrote]
      /\ UNCHANGED tables

\* The session counts the committed rewards and its own.
Count(s) ==
  LET count == Cardinality(RewardedBy(job[s].referrer) \cup {job[s].id})
  IN  /\ At(s, "count")
      /\ job' = [job EXCEPT ![s].pc = "commit",
                            ![s].wrote = IF count % Interval = 0
                                         THEN job[s].wrote \cup {"milestone"}
                                         ELSE job[s].wrote]
      /\ UNCHANGED tables

Given(s, id, why) ==
  \/ id = job[s].id /\ why = "referee" /\ "rewarded" \in job[s].wrote
  \/ id = job[s].referrer /\ why \in job[s].wrote \cap {"referrer", "milestone"}

\* Mutated: rewarded_at is written from what this session did alone.
CommitOverwriting(s) ==
  /\ At(s, "commit")
  /\ profile' = profile \cup {job[s].id}
  /\ acquisition' = [id \in DOMAIN acquisition |->
                       IF id = job[s].id
                       THEN [acquisition[id] EXCEPT
                               !.rewarded = "rewarded" \in job[s].wrote]
                       ELSE acquisition[id]]
  /\ bonus' = [id \in DOMAIN bonus |-> [why \in Reasons |->
                 bonus[id][why] + (IF Given(s, id, why) THEN 1 ELSE 0)]]
  /\ End(s)
  /\ UNCHANGED <<user, source>>

\* The commit of CreateProfileUseCase.
Commit(s) ==
  /\ At(s, "commit")
  /\ profile' = profile \cup {job[s].id}
  /\ acquisition' = [id \in DOMAIN acquisition |->
                       IF id = job[s].id /\ "rewarded" \in job[s].wrote
                       THEN [acquisition[id] EXCEPT !.rewarded = TRUE]
                       ELSE acquisition[id]]
  /\ bonus' = [id \in DOMAIN bonus |-> [why \in Reasons |->
                 bonus[id][why] + (IF Given(s, id, why) THEN 1 ELSE 0)]]
  /\ End(s)
  /\ UNCHANGED <<user, source>>

-----------------------------------------------------------------------------
(* Around the use cases.                                                   *)

\* The administrator bans a user, or lifts the ban.
SetBan(id) ==
  /\ Admin
  /\ user' = [user EXCEPT ![id].banned = ~user[id].banned]
  /\ UNCHANGED <<source, acquisition, profile, bonus, job>>

\* The administrator deletes a profile; its owner may make another.
DeleteProfile(id) ==
  /\ Admin
  /\ profile' = profile \ {id}
  /\ UNCHANGED <<user, source, acquisition, bonus, job>>

\* A handler raises, the database fails, or the process dies.
Abort(s) ==
  /\ Aborts
  /\ job[s] # Idle
  /\ End(s)
  /\ UNCHANGED tables

Rest == (\A s \in Sessions : job[s] = Idle) /\ UNCHANGED vars

-----------------------------------------------------------------------------

Init ==
  /\ user = [id \in {} |-> id]
  /\ source = [c \in {} |-> c]
  /\ acquisition = [id \in {} |-> id]
  /\ profile = {}
  /\ bonus = [id \in {} |-> id]
  /\ job = [s \in Sessions |-> Idle]

\* A statement of an open session.
Statement(s) ==
  \/ Resolve(s)
  \/ \E id \in Ids : InsertUser(s, id)
  \/ InsertUserConflict(s)
  \/ AddSource(s)
  \/ Register(s)
  \/ CheckExists(s)
  \/ InsertProfile(s)
  \/ InsertProfileConflict(s)
  \/ FindReferral(s)
  \/ Mark(s)
  \/ PayReferrer(s)
  \/ Count(s)
  \/ Commit(s)

Next ==
  \/ \E s \in Sessions :
       \/ \E p \in People, payload \in Codes \cup {NoCode} : Start(s, p, payload)
       \/ \E p \in People : Create(s, p)
       \/ Statement(s)
       \/ Abort(s)
  \/ \E id \in DOMAIN user : SetBan(id)
  \/ \E id \in profile : DeleteProfile(id)
  \/ Rest

Spec == Init /\ [][Next]_vars

-----------------------------------------------------------------------------
(* Properties.                                                             *)

\* Tables and jobs have their types, and a user is committed with the record
\* of their bonuses: "nobody ends up registered without their bonus".
TypeOK ==
  /\ DOMAIN user \subseteq Ids /\ user \in [DOMAIN user -> UserRow]
  /\ DOMAIN source \subseteq Codes
  /\ source \in [DOMAIN source -> Ids \cup {NoUser}]
  /\ DOMAIN acquisition \subseteq DOMAIN user
  /\ acquisition \in [DOMAIN acquisition -> AcquisitionRow]
  /\ profile \subseteq DOMAIN user
  /\ bonus \in [DOMAIN user -> [Reasons -> Nat]]
  /\ job \in [Sessions -> Job]

\* One person has one account, and has been welcomed once, however many of
\* their first updates are handled at the same time: every one of them looks
\* for the account before any has made it.
RegisteredOnce ==
  /\ \A i, j \in DOMAIN user : user[i].person = user[j].person => i = j
  /\ \A id \in DOMAIN user : bonus[id]["welcome"] = 1

\* "The shapes can't collide on code": a numeric code is the source of that
\* person's account, a tag is nobody's, and every acquisition has its source.
\* Otherwise the invitations of a person would never be rewarded.
SourcesAreWho ==
  /\ \A c \in DOMAIN source :
       IF c \in Tags THEN source[c] = NoUser
       ELSE source[c] \in DOMAIN user /\ user[source[c]].person = c
  /\ \A id \in DOMAIN acquisition : acquisition[id].code \in DOMAIN source

\* Whoever has a profile and was invited by somebody has been rewarded: the
\* profile and the reward commit together, whatever the referrer's ban.
ProfileMeansRewarded ==
  \A id \in profile : IsReferral(id) => acquisition[id].rewarded

\* "A profile re-creation flow couldn't double-pay": a referee is paid once,
\* exactly when their referral is rewarded, and a referrer at most once for
\* each of them.
PaidOnce ==
  \A id \in DOMAIN user :
    /\ bonus[id]["referee"] =
         IF id \in DOMAIN acquisition /\ acquisition[id].rewarded THEN 1 ELSE 0
    /\ bonus[id]["referrer"] <= Cardinality(RewardedBy(id))
    /\ ~Admin => bonus[id]["referrer"] = Cardinality(RewardedBy(id))

\* "A user is acquired exactly once, and the row is never rewritten", and
\* rewarded_at is "monotonic: once set, never cleared".
AttributionForGood ==
  [][\A id \in DOMAIN acquisition :
       /\ id \in DOMAIN acquisition'
       /\ acquisition'[id].code = acquisition[id].code
       /\ acquisition[id].rewarded => acquisition'[id].rewarded]_vars

\* "Every Nth completed referral gives the referrer an additional bonus."
MilestonesAddUp ==
  \A id \in DOMAIN user :
    bonus[id]["milestone"] = Cardinality(RewardedBy(id)) \div Interval

\* Where somebody came from "must never cost someone their account": unless
\* it fails, a /start ends with its sender registered, also when they are the
\* second to arrive from a new source, or press /start twice.
NobodyTurnedAway ==
  [][\A s \in Sessions :
       Statement(s) /\ job[s].op = "start" /\ job'[s] = Idle =>
         \E id \in DOMAIN user' : user'[id].person = job[s].person]_vars

PeopleOf(ids) == {user[id].person : id \in ids}

\* "referrer_id != referee_id", and more: nobody has invited, through others,
\* somebody they were invited by.  Of strangers who invite each other at the
\* same moment one at most counts as invited, so every group of users has a
\* member whom nobody of the group has invited.
NobodyInvitesInCircles ==
  \A S \in (SUBSET DOMAIN user) \ {{}} :
    \E id \in S : id \in DOMAIN acquisition => acquisition[id].code \notin PeopleOf(S)

\* What the tables say of a person.
AccountOf(p) == CHOOSE id \in DOMAIN user : user[id].person = p

OriginOf(p) ==
  IF AccountsOf(p) # {} /\ AccountOf(p) \in DOMAIN acquisition
  THEN acquisition[AccountOf(p)].code ELSE NoCode

BonusOf(p) ==
  IF AccountsOf(p) # {} THEN bonus[AccountOf(p)] ELSE [why \in Reasons |-> 0]

Promise ==
  INSTANCE Referrals
    WITH Nobody    <- NoCode,
         members   <- PeopleOf(DOMAIN user),
         origin    <- [p \in People |-> OriginOf(p)],
         profiled  <- PeopleOf(profile),
         completed <- PeopleOf({id \in DOMAIN acquisition : acquisition[id].rewarded}),
         given     <- [p \in People |-> BonusOf(p)]

\* However many sessions register, create profiles and fail at once, people
\* join once, are attributed for good, and an invitation is completed and
\* rewarded in one step, once: Referrals.
ImplementsReferrals == Promise!Spec

=============================================================================
