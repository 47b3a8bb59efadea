------------------------------- MODULE Broadcast -------------------------------
(***************************************************************************)
(* The daily task that tells people who have gone quiet that new profiles  *)
(* have appeared.                                                          *)
(*                                                                         *)
(* A run asks the database who is new since the last run and whom to tell, *)
(* sends the messages one by one, and at the end moves the watermark in    *)
(* Redis.  Runs may overlap, on two workers or when one takes a day, and   *)
(* die at any step; the queue does not deliver a task again.  Meanwhile    *)
(* profiles are created, whose created_at is stamped before their commit,  *)
(* and users opt out, rate and hide.                                       *)
(***************************************************************************)
EXTENDS Integers, FiniteSets

CONSTANTS
  Owners,
  Seeds,      \* owners with the role SEED
  Workers,    \* runs in progress at a time
  Lookback,   \* _FIRST_RUN_LOOKBACK
  Dormant,    \* _DORMANT_AFTER
  Cooldown,   \* _NUDGE_COOLDOWN_SECONDS
  MaxWait,    \* the longest retry_after
  MaxTime,    \* bound on the clock
  Wiped,      \* may the watermark be lost, or become unreadable?
  Restless,   \* bound: the owners who hide, opt out and rate
  Never, Nobody

ASSUME SeedsAreOwners ==
  Seeds \subseteq Owners /\ Restless \subseteq Owners /\ Nobody \notin Owners

ASSUME TimesAreNaturals ==
  /\ {Lookback, Dormant, Cooldown, MaxWait, MaxTime} \subseteq Nat
  /\ Never \notin Int

\* Flood control never asks for a week.
ASSUME WaitsAreShort == MaxWait < Cooldown

ASSUME WipedIsBoolean == Wiped \in BOOLEAN

VARIABLES
  profile,    \* when the owner's profile was stamped and committed
  hidden,     \* owners whose profile is not visible
  muted,      \* since when a user is banned or has opted out
  rated,      \* when a user rated last
  watermark,  \* _WATERMARK_KEY
  cooldown,   \* when the user's _NUDGE_COOLDOWN_KEY expires
  job,        \* what each worker is doing
  nudged,     \* when a user was last sent the message
  crowded,    \* users who were sent two of them too close together
  announced,  \* owners whose profile a completed run knew of
  horizon,    \* where the windows that follow each other begin
  clock

world == <<profile, hidden, muted, rated>>

vars == <<world, watermark, cooldown, job, nudged, crowded, announced, horizon, clock>>

-----------------------------------------------------------------------------

Moment == 0 .. MaxTime

\* spans is not in the code: a run started between the stamp and the commit.
ProfileRow ==
  [created: Moment \cup {Never}, committed: Moment \cup {Never}, spans: BOOLEAN]

Job ==
  [pc: {"idle", "query", "audience", "claim", "send", "retry", "finish"},
   started: Moment, since: (-Lookback) .. MaxTime, new: SUBSET Owners,
   fallback: BOOLEAN, todo: SUBSET Owners, to: Owners \cup {Nobody}, claimed: Moment]

Idle ==
  [pc |-> "idle", started |-> 0, since |-> 0, new |-> {},
   fallback |-> FALSE, todo |-> {}, to |-> Nobody, claimed |-> 0]

At(w, pc) == job[w].pc = pc

Exists(o) == profile[o].committed # Never

Visible(o) == Exists(o) /\ o \notin hidden

\* Clocks have microseconds: no profile is stamped when a run is.
Unstamped ==
  /\ \A o \in Owners : profile[o].created # clock
  /\ \A w \in Workers : At(w, "idle") \/ job[w].started # clock
  /\ watermark # clock

-----------------------------------------------------------------------------
(* A run: broadcast_new_profiles.                                          *)

Conclude(w) ==
  /\ announced' = announced \cup job[w].new
  /\ horizon' = IF job[w].fallback /\ job[w].since > horizon THEN job[w].since ELSE horizon
  /\ job' = [job EXCEPT ![w] = Idle]
  /\ UNCHANGED <<world, cooldown, nudged, crowded, clock>>

\* Mutated: the run is stamped when it is over.
StampLate(w) ==
  /\ At(w, "finish")
  /\ watermark' = clock
  /\ Conclude(w)

\* The stamp of started_at and this GET are one step of the run.
ReadWatermark == IF watermark = Never THEN clock - Lookback ELSE watermark

Begin(w) ==
  /\ At(w, "idle")
  /\ Unstamped
  /\ job' = [job EXCEPT ![w] = [Idle EXCEPT !.pc = "query", !.started = clock,
                                            !.since = ReadWatermark,
                                            !.fallback = watermark = Never]]
  /\ profile' = [o \in Owners |->
       [profile[o] EXCEPT !.spans = @ \/ (profile[o].created # Never /\ ~Exists(o))]]
  /\ UNCHANGED <<hidden, muted, rated, watermark, cooldown, nudged, crowded, announced, horizon, clock>>

\* list_owner_ids_created_after
QueryNew(w) ==
  /\ At(w, "query")
  /\ LET new == {o \in Owners : Visible(o) /\ profile[o].created > job[w].since}
     IN  job' = [job EXCEPT ![w].new = new,
                            ![w].pc = IF new = {} THEN "finish" ELSE "audience"]
  /\ UNCHANGED <<world, watermark, cooldown, nudged, crowded, announced, horizon, clock>>

StillActive(o, w) == rated[o] # Never /\ rated[o] > job[w].started - Dormant

\* Mutated: one's own profile is news.
AnythingNew(o, new) == TRUE

\* "Their own freshly created profile isn't news to them."
NewsFor(o, new) == new \ {o} # {}

QueryAudience(w) ==
  /\ At(w, "audience")
  /\ job' = [job EXCEPT ![w].pc = "claim",
       ![w].todo = {o \in Owners : /\ Visible(o) /\ o \notin Seeds
                                   /\ muted[o] = Never
                                   /\ ~StillActive(o, w)
                                   /\ NewsFor(o, job[w].new)}]
  /\ UNCHANGED <<world, watermark, cooldown, nudged, crowded, announced, horizon, clock>>

\* Mutated: the slot is reserved after the message was sent.
ClaimLate(w, o) ==
  /\ At(w, "claim")
  /\ o \in job[w].todo
  /\ job' = [job EXCEPT ![w].todo = @ \ {o},
                        ![w].pc = IF cooldown[o] > clock THEN @ ELSE "send",
                        ![w].to = o, ![w].claimed = clock]
  /\ UNCHANGED <<world, watermark, cooldown, nudged, crowded, announced, horizon, clock>>

\* SET NX EX; a user whose key is alive is skipped.
Claim(w, o) ==
  /\ At(w, "claim")
  /\ o \in job[w].todo
  /\ IF cooldown[o] > clock
     THEN /\ job' = [job EXCEPT ![w].todo = @ \ {o}]
          /\ UNCHANGED cooldown
     ELSE /\ job' = [job EXCEPT ![w].todo = @ \ {o}, ![w].pc = "send",
                                ![w].to = o, ![w].claimed = clock]
          /\ cooldown' = [cooldown EXCEPT ![o] = clock + Cooldown]
  /\ UNCHANGED <<world, watermark, nudged, crowded, announced, horizon, clock>>

TooSoon(o) == nudged[o] # Never /\ clock < nudged[o] + Cooldown - MaxWait

\* The message arrives, or it does not, whatever Telegram answers.
Send(w) ==
  /\ job[w].pc \in {"send", "retry"}
  /\ \/ /\ nudged' = [nudged EXCEPT ![job[w].to] = clock]
        /\ crowded' = IF TooSoon(job[w].to) THEN crowded \cup {job[w].to} ELSE crowded
     \/ UNCHANGED <<nudged, crowded>>
  /\ job' = [job EXCEPT ![w].pc = "claim", ![w].to = Nobody, ![w].claimed = 0]
  /\ UNCHANGED <<world, watermark, cooldown, announced, horizon, clock>>

\* TelegramRetryAfter: not sent, and tried again once, after the wait.
FloodControl(w) ==
  /\ At(w, "send")
  /\ job' = [job EXCEPT ![w].pc = "retry"]
  /\ UNCHANGED <<world, watermark, cooldown, nudged, crowded, announced, horizon, clock>>

AllSent(w) ==
  /\ At(w, "claim")
  /\ job[w].todo = {}
  /\ job' = [job EXCEPT ![w].pc = "finish"]
  /\ UNCHANGED <<world, watermark, cooldown, nudged, crowded, announced, horizon, clock>>

WriteWatermark(w) ==
  /\ At(w, "finish")
  /\ watermark' = job[w].started
  /\ Conclude(w)

\* ListQueueBroker has taken the task from the queue: it is gone.
Crash(w) ==
  /\ ~At(w, "idle")
  /\ job' = [job EXCEPT ![w] = Idle]
  /\ UNCHANGED <<world, watermark, cooldown, nudged, crowded, announced, horizon, clock>>

-----------------------------------------------------------------------------
(* Meanwhile.                                                              *)

bookkeeping == <<watermark, cooldown, job, nudged, crowded, announced, horizon>>

Stamp(o) ==
  /\ profile[o].created = Never
  /\ Unstamped
  /\ profile' = [profile EXCEPT ![o].created = clock]
  /\ UNCHANGED <<hidden, muted, rated, bookkeeping, clock>>

CommitProfile(o) ==
  /\ profile[o].created # Never /\ ~Exists(o)
  /\ profile' = [profile EXCEPT ![o].committed = clock]
  /\ UNCHANGED <<hidden, muted, rated, bookkeeping, clock>>

\* Bound: an owner hides, opts out or rates, once.
Settled(o) == o \notin hidden /\ muted[o] = Never /\ rated[o] = Never

Hide(o) ==
  /\ Exists(o) /\ Settled(o)
  /\ hidden' = hidden \cup {o}
  /\ UNCHANGED <<profile, muted, rated, bookkeeping, clock>>

Mute(o) ==
  /\ Settled(o)
  /\ muted' = [muted EXCEPT ![o] = clock]
  /\ UNCHANGED <<profile, hidden, rated, bookkeeping, clock>>

Rate(o) ==
  /\ Settled(o)
  /\ rated' = [rated EXCEPT ![o] = clock]
  /\ UNCHANGED <<profile, hidden, muted, bookkeeping, clock>>

\* That one key is evicted, or holds what _read_watermark cannot parse.  The
\* cooldown keys stay: when all of Redis is wiped, nothing remembers a nudge.
LoseWatermark ==
  /\ Wiped
  /\ watermark # Never
  /\ watermark' = Never
  /\ UNCHANGED <<world, cooldown, job, nudged, crowded, announced, horizon, clock>>

Tick ==
  /\ clock < MaxTime
  /\ \A w \in Workers : job[w].pc \in {"send", "retry"} => clock < job[w].claimed + MaxWait
  /\ clock' = clock + 1
  /\ UNCHANGED <<world, bookkeeping>>

Rest == (\A w \in Workers : At(w, "idle")) /\ UNCHANGED vars

-----------------------------------------------------------------------------

NoProfile == [created |-> Never, committed |-> Never, spans |-> FALSE]

Init ==
  /\ profile = [o \in Owners |-> NoProfile]
  /\ hidden = {}
  /\ muted = [o \in Owners |-> Never]
  /\ rated = [o \in Owners |-> Never]
  /\ watermark = Never
  /\ cooldown = [o \in Owners |-> 0]
  /\ job = [w \in Workers |-> Idle]
  /\ nudged = [o \in Owners |-> Never]
  /\ crowded = {}
  /\ announced = {}
  /\ horizon = -Lookback
  /\ clock = 0

Run(w) ==
  \/ Begin(w)
  \/ QueryNew(w)
  \/ QueryAudience(w)
  \/ \E o \in Owners : Claim(w, o)
  \/ Send(w)
  \/ FloodControl(w)
  \/ AllSent(w)
  \/ WriteWatermark(w)
  \/ Crash(w)

Next ==
  \/ \E w \in Workers : Run(w)
  \/ \E o \in Owners : Stamp(o) \/ CommitProfile(o)
  \/ \E o \in Restless : Hide(o) \/ Mute(o) \/ Rate(o)
  \/ LoseWatermark
  \/ Tick
  \/ Rest

Spec == Init /\ [][Next]_vars

-----------------------------------------------------------------------------
(* Properties.                                                             *)

\* Tables, keys and runs have their types.
TypeOK ==
  /\ profile \in [Owners -> ProfileRow]
  /\ hidden \subseteq Owners
  /\ muted \in [Owners -> Moment \cup {Never}]
  /\ rated \in [Owners -> Moment \cup {Never}]
  /\ watermark \in Moment \cup {Never}
  /\ cooldown \in [Owners -> Nat]
  /\ job \in [Workers -> Job]
  /\ nudged \in [Owners -> Moment \cup {Never}]
  /\ crowded \subseteq Owners
  /\ announced \subseteq Owners
  /\ horizon \in (-Lookback) .. MaxTime
  /\ clock \in Moment

\* "Hard ceiling per person": whatever runs overlap, die and start again, two
\* messages to one user are a cooldown apart, but for the time that flood
\* control kept the first one waiting.
NudgesApart == crowded = {}

SentToWanted ==
  \A w \in Workers : Send(w) =>
    LET o == job[w].to
        started == job[w].started
    IN  /\ o \notin Seeds
        /\ muted[o] = Never \/ muted[o] >= started
        /\ rated[o] = Never \/ rated[o] <= started - Dormant \/ rated[o] >= started
        /\ \E p \in Owners \ {o} : Exists(p) /\ profile[p].created > job[w].since

\* A message only goes to people who had not opted out, been banned or rated
\* shortly before the run began, and to whom somebody else's profile, made
\* after the last run, is news.
MessagesAreWanted == [][SentToWanted]_vars

\* Profiles "must belong to the next window, not fall through the crack": one
\* that was committed before the last completed run began is known to some
\* completed run, unless a run began between its stamp and its commit, or it is
\* from before the day that a run without a watermark looked back.
NothingFallsThrough ==
  \A o \in Owners :
    /\ Visible(o)
    /\ ~profile[o].spans
    /\ profile[o].created > horizon
    /\ watermark # Never /\ profile[o].committed < watermark
    => o \in announced

=============================================================================
