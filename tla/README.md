# A verification of RateYOU in TLA+

RateYOU is a Telegram bot: users rate each other's profiles, browse a feed
sorted by distance, invite friends and buy premium tiers with Telegram Stars.
It is a domain-driven Python program on asyncio: aiogram dispatches updates,
SQLAlchemy sessions talk to PostgreSQL, Redis keeps throttling keys, skipped
profiles, caches and conversation state, taskiq runs a scheduled broadcast.

This directory holds TLA+ models of its core, the TLC runs that check them on
small instances, and TLAPS proofs that hold for every instance. File paths
below are relative to the repository.

## 1. The system

### How it executes

These facts of the code shape every model.

- **Updates run concurrently.** aiogram starts a task per update
  (`src/presentation/bot/main.py`, `start_polling`), with no isolation per user
  or chat. A task gives up control at every `await`, that is at every statement
  sent to the database. A webhook's update can be delivered again; an update whose handler raises is
  logged (`main.py:48-52`) and not repeated; the middlewares may drop one.
- **One database session per update.** `DbProvider.session`
  (`src/presentation/di/db.py:30-36`) is request-scoped: every repository and
  every event handler of a request shares it, an exception rolls it back.
- **READ COMMITTED, no locks on reads.** The engine uses PostgreSQL's default
  isolation, and no query says `FOR UPDATE`. A row is locked when it is
  written; unique keys make concurrent inserts wait. `update()` of a repository loads
  the row by id and writes the columns that differ, whatever has happened since
  the caller read it.
- **Events are dispatched before the commit.** Use cases call
  `bus.publish(entity.pull_events())` and then `uow.commit()`; the in-memory
  bus awaits each handler in the same session
  (`src/infrastructure/events/in_memory_bus.py:28-34`).

### Components

| Component | State | Operations | Hard behaviour | What makes it correct |
| --- | --- | --- | --- | --- |
| Payment (`domain/payment`, `application/payment`) | `transactions` | create an invoice, confirm a payment, refund | invoice sent before its row is committed; updates repeated, dropped; refund at the provider before the database | a transaction only moves PENDING, PAID, REFUNDED; paid once |
| Subscription (`domain/subscription`, `application/subscription`) | `subscriptions`, an append-only ledger of grants with revocations | activate, revoke, bonus; handlers of `PaymentConfirmed` and `PaymentRefunded` | read-then-write without locks, loops of updates, deadlocks | payment and grant appear together; a refund ends its grant; a purchase forfeits only purchases |
| Rating (`domain/rating`, `application/rating`) | `ratings`, `profile_score_summaries` | rate, change a score, withdraw; handlers that recompute the summary | two sessions on one pair or on one rated user | one rating per pair; the summary agrees with the ratings |
| Identity (`domain/identity`, `application/identity`) | `users`, `acquisitions`, `acquisition_sources` | register, refresh the username, language, notifications; bans in the admin panel | first updates of a user at once; whole-row updates from stale reads | one user per Telegram id, one welcome bonus, attribution written once |
| Referral (`domain/referral`) | `acquisitions.rewarded_at`, bonus grants | reward when a referee creates a profile | counts under READ COMMITTED | one reward per referee, a milestone per three |
| Profile (`domain/profile`, `application/profile`) | `profiles`, `profile_photos` | create, edit, hide, show | all photos replaced on every edit | one profile per user |
| Discovery (`domain/discovery`, `application/discovery`) | `search_preferences`, the Redis set of skipped owners | next profile, preferences, skip | half a dozen reads of two stores per search; a quota checked when a profile is shown and not when it is rated; get-or-create | nobody is shown what they have rated or skipped or do not want; the nearest comes first |
| Broadcast (`presentation/tasks`, `notify_new_profiles.py`) | watermark and cooldown keys in Redis | announce new profiles | runs that overlap, or crash between sending and writing the watermark | nobody is told twice within the cooldown; no profile falls between two windows |
| Bot conversations (`presentation/bot/handlers`) | FSM state in Redis, photo buffers | create and edit a profile, onboarding, settings | album photos as concurrent messages, a debounce that sleeps | a form ends with what its user sent |
| Middlewares (`presentation/bot/middlewares`) | throttle keys | throttle, ban check | both drop payments like any message | at most one action a second |
| Geocoding (`infrastructure/geocoding`) | Redis cache | look a city up | negative results, concurrent misses | a hit is what upstream said |
| Event bus, unit of work, DI | none | dispatch, commit | order of dispatch and commit | a handler's failure undoes the request |
| Admin panel (`presentation/admin`) | the same tables | generic CRUD | | |

Identity, Payment and Rating publish events or call services of other contexts
in one session: `OnPaymentConfirmed` and `OnPaymentRefunded` write the ledger,
`OnRatingGiven` and `OnRatingWithdrawn` write the summary,
`CreateProfileUseCase` calls `ReferralRewardService`, which writes the ledger,
`RegisterUserUseCase` writes users, the ledger and acquisitions. Discovery
reads profiles, ratings, summaries and the ledger.

`PROJECT.json` lists each place where the code is exposed to one of these
behaviours, at its line, with the properties that watch it.

## 2. Modules

| Module | What it is |
| --- | --- |
| `Ledger` | The pure part of Subscription: tiers, when a grant is active, what status a set of grants adds up to. |
| `Premium` | Payment and Subscription composed: sessions that run the use cases statement by statement, the gateway, the chat, the updates. |
| `Entitlement` | The abstract contract of selling premium: a purchase's lifecycle and the period it buys, with no sessions, messages or rows. |
| `Rating` | Rating: sessions that write one rating and recompute a summary. |
| `Scoreboard` | The abstract contract of rating: a request changes the score of its own pair of users in one step, or nothing. |
| `Referrals` | The abstract contract of inviting: who has joined, on whose invitation, and when it is completed and rewarded. |
| `Registration` | Identity, Referral and the creation of a profile: sessions that register people, record where they come from, and reward who invited them. |
| `Settings` | What a user changes afterwards: their row in `users`, their search preferences, their profile with its photos. |
| `Feed` | Discovery: one viewer's search, ratings and skips, read by read. |
| `Broadcast` | The scheduled task that announces new profiles. |
| `Conversation` | The forms of the bot, their FSM state in Redis, and the photo buffers in memory. |
| `GeoCache` | The Redis cache in front of the geocoder. |
| `PremiumHistory`, `RatingHistory`, `RegistrationHistory` | The module of that name with a record of which of its sessions overlapped, and of whom that may have cost the right result. |
| `MC...` | Symmetries and definitions of constants for TLC. `MCPurchases` is `MCPremium` with the record of `PremiumHistory`. |
| `PremiumProofs`, `RatingProofs`, `RegistrationProofs`, `SettingsProofs`, `FeedProofs`, `BroadcastProofs`, `ConversationProofs`, `GeoCacheProofs` | Theorems about the module of that name. |

### How a session is modelled

`job[s]` is what session `s` is doing: its use case (`op`), the statement it is
at (`pc`), what it has read, and what it has written and not committed. A table
variable holds committed rows only. Reading copies committed values, and in
`Rating` the session's own write (`View`), into the job; a write that
needs a lock has the guard that no other session holds it; `Commit` actions put
all of the session's writes into the tables at once; `Abort` forgets them
(an error, a rollback or the death of the process look the same to the
database). A handler's error paths are actions of their own
(`InsertConflict`, `UpdateGone`, `ConfirmReject`).

One database statement is one action, unless two of them cannot be told apart
by another session. Python between two statements is part of the action before it.

### The records of overlaps

Three of the domain's promises can be broken by two sessions that do not see each
other's writes: one active purchase per user, an exact summary, a milestone for every
third reward. What is promised in spite of that takes a memory of what overlapped, which
the tables do not have. `HistorySpec` adds two variables that constrain no step: `met`
has the open sessions that were, at some moment, inside the
critical section (`HasListed`, `Refreshing`, `Settling`: from a listing, a computation
or a count to its commit) at the same time as another one of the same user; `torn` has
the users for whom such a session has committed. In `PremiumHistory` and
`RatingHistory` a user leaves `torn` when a session that met no other commits for them:
it revokes, or recomputes, everything. In `RegistrationHistory` nobody leaves: a
milestone that was missed is not made up for. `OverlapsSpoilOnlyTheirs` says of each that whoever
is not in `torn` has what the domain promises.

### `Premium` and the code

- `InvoiceAdd`, `InvoiceSend`, `InvoiceCommit` are
  `CreatePremiumInvoiceUseCase`: the row is flushed, the invoice is sent to the
  chat, and only then is the row committed. A session that dies in between
  leaves an invoice in the chat that can be paid and has no transaction.
- `Pay` is the user and Telegram. Every pre-checkout is approved, so an invoice
  can be paid as often as it is in the chat: `charge` is Telegram's record of
  that, `inbox` the `successful_payment` updates. `Dropped` is a middleware
  that does not call the handler; `Redelivery` lets an update be served again.
- `ConfirmRead`, `ConfirmFlush`, `ListPurchases`, `RevokeOne`, `Insert`,
  `ConfirmCommit` are `ConfirmPaymentUseCase` with `OnPaymentConfirmed` and
  `SubscriptionActivationService.activate_purchase`. The handler's writes sit
  between the update of the transaction and the commit. The partial unique index
  on `subscriptions.transaction_id` is `Duplicate` and
  `InsertConflict`.
- `RefundRead`, `RefundGateway`, `RefundGatewayError`, `RefundFlush`,
  `RefundFind`, `RevokeOne`, `RefundCommit` are `RefundPaymentUseCase` with
  `OnPaymentRefunded`. A refund that the provider had already made counts as made.
- `ActivateBegin` and `KillCheck`, with the shared list, revoke and insert
  steps, are `ActivatePremiumUseCase` and `RevokePremiumUseCase`; `GrantBonus`
  is a bonus grant of registration or of a referral.
- `DeadlockVictim` is PostgreSQL: of sessions that wait for each other's row
  locks in a circle, one is aborted.

`RefundPaymentUseCase`, `ActivatePremiumUseCase`, `RevokePremiumUseCase` and
`WithdrawRatingUseCase` are provided by the DI container and tested, but no
handler of the repository calls them yet; the models include them because they
are what the container offers. `Transaction.mark_failed` is called by nothing,
so FAILED does not occur.

### `Rating` and the code

`RateRead` to `Delete` are `RatingFulfillmentService` and the repository:
look for the pair's row, then insert or update or delete by id. `ComputeStats`,
`LoadSummary`, `InsertSummary`, `UpdateSummary` are the event handler's
`_refresh_summary` and `ProfileScoreSummaryRepository.upsert`, which reads the
summary and then inserts or updates it. `Changed` is SQLAlchemy's rule that
an UPDATE sets the columns that differ from the row that was loaded. It holds for the
summary (`Upserted`) and for the rating itself (`View`): `job.old` is the score that
`update()` loaded, and where it is the score that was asked for, the row keeps whatever
score was committed while the UPDATE waited for its lock. A mean is
kept in `Unit`'ths so that it stays an integer. Timestamps, comments on ratings
and notifications are left out: no property depends on them. `Promise` maps the
rows to the board of `Scoreboard`, as a set, so that two rows of one pair would
show, and a session that is not idle to a request that is not answered.

### `Registration` and the code

`Start` is `/start` with its payload: a person's number, a tag, or nothing.
`Resolve`, `InsertUser`, `AddSource` and `Register` are
`RegisterUserUseCase.execute`, its last statement the commit of user, welcome
bonus, source and acquisition. `AddSource` is `get_or_create_source_id`, whose
`ON CONFLICT DO NOTHING` waits for an uncommitted insert of the same code and
then finds it. `Create` is the last message of the form (`_finalize_create`),
which registers its sender in the same session if need be; `CheckExists` to
`Commit` are `CreateProfileUseCase` with
`ReferralRewardService.mark_profile_created`. `SetBan` and `DeleteProfile` are
what an administrator does in the admin panel that matters here. A referral has no
table: it is an acquisition whose source has a referrer (`IsReferral`), as in
`ReferralRepository`. Bonus grants are counted by reason; what they do for
the status is in `Premium`. `Promise` maps the tables to `Referrals` by person: ids,
sources and sessions have no counterpart there. Left out: the refresh of the username of a returning
user, names, photos and everything else that a profile contains (see `Settings`).

### `Settings` and the code

Each use case reads a row, changes one field of the domain object, and has
`update()` load the row again and write the columns that differ from the object.
`Update` is the first read, `Load` the second, `Write` the UPDATE with its row
lock, `Commit` the rest. `job.set` is therefore the whole row as it was first
read until `Load` reduces it to what differs. `ToWrite` has a case the code does
not show: a location that is not NULL is always written, because the element it
is read as never equals the one it is written as. `ReadPhotos`, `LoadPhotos` and
`WriteProfile` are `_reconcile_photos`: all photo rows that were loaded are
deleted and new ones inserted, which fails if somebody else replaced them in
between (`uq_profile_photos_position`). `GetPreferences` is a view of /settings,
which inserts the row when it is missing. A column has two values, a photo album
one or two file ids: what a field contains is not what is at stake.

### `Feed` and the code

`Ask`, `Rate` and `Skip` are the handlers `cmd_feed`, `on_rate` and `on_skip`; each goes on
with the reads of `GetNextProfileForRatingUseCase` in the order of the code:
preferences, the viewer's profile, the count of ratings, the grants, the skip
registry, and the query (`FindNext`), whose filters are `Matches` and whose order is
`Nearest`. `Skip` and `Expire` are SADD and EXPIRE, two commands. `Show`
puts a keyboard in the chat, where it stays usable (`chat`). The other users and
the administrator act between any two reads (`Outside`). The module adds what no
test can see: `good` and `barred` keep, for each search, the owners that were fit
and the objections that held at *every* moment since its first read, which is the
strongest thing that reads at different moments can promise.

### `Broadcast` and the code

`Begin` to `WriteWatermark` are `broadcast_new_profiles` with
`NotifyAboutNewProfilesUseCase`: the watermark is read, then who is new, then whom to
tell; `Claim` is the SET NX EX that reserves a user's cooldown, `Send` the
message, `FloodControl` its one retry. `Crash` loses a run at any step: the
queue's broker hands a task out once. `LoseWatermark` loses that one key, evicted or
unreadable. A wipe of all of Redis would lose the cooldown keys as well, and `NudgesApart`
does not hold across one: nothing else in the program remembers whom it wrote to. A profile is stamped (`created_at`) before
it is committed, in two actions. Ghosts: `announced` collects what completed
runs knew of, `horizon` is where the windows that are chained to each other
begin (a run without a watermark looks back a day only), `spans` marks a row
whose transaction was open when a run began, `nudged` and `crowded` tell when a
user was last written to and whether that was too early.

### `Conversation` and the code

`state` and `data` are the two keys in which aiogram keeps a conversation,
written by separate commands. A typed answer or a tap is one action: the throttle
lets a chat one update a second, which is longer than a handler takes. Two kinds of
handler take longer, and are modelled step by step:

- the photos of an album, which pass the throttle, and the leader that sleeps for 1.2
  seconds and then reads, writes and clears (`Wake`, `GetData`, `SetData`, ...
  `ClearData`);
- the lookup of a typed city, in /create, /edit and the search area. The geocoder may
  take seconds (`ProcessLocationTyped`, `lookups`), and any number of others may be
  typed meanwhile. When it answers, `update_data` is a GET (`FindPlaces`) and a SET
  (`ParkCandidates`), and any update that the throttle let through may be handled
  between them. `ParkNothing` is a SET that the `update_data` of such a handler writes over.
  The candidates themselves are not modelled: the pick of one is an answer.

`Throttled` counts updates while a leader sleeps
(`WhileAsleep`, 2: what fits in 1.2 seconds), while it works, and while a lookup is
between its GET and its SET (`WhileBusy`, 1: either takes less than a second). This is the one
assumption about time, and `FormsTakeLonger` all that the proofs use of it; the mutant
of `OneForm` removes it. `RunOut` is the expiry of
either key, `Restart` the loss of the buffers with the process. An answer is
known by the form it was given in, so that a profile that mixes two forms can be
told. `ReadForm` stops where `_finalize_create` does before the profile is made: without a
user, or with a `KeyError` where an answer of the profile is missing. The preference
is asked for after the profile's commit (`SavePreferences`).

Two ghosts name the windows the code has. `raced` is set when a leader is
alive as a form begins or ends, when one clears the state beside another, fails or is cut short
by a restart, when a lookup writes over data that are newer than
what it read, and when a key runs out. `revived` is set when `update_data`, of a leader or
of a lookup, puts back a form that was closed since it read: for a leader, that any form was
closed (`closed # dead`); for a lookup, that both keys were written anew (`stale`). A
form that begins or ends with no leader alive resets both (`Anew`): both keys are written
anew, and a lookup that is still to write sets them again only if it does. The
properties say that these windows are the only ones, and that what they spoil is over with the
next form.

### `GeoCache` and the code

`Hit`, `Miss`, `Read`, `Arrive` and `Fail` are `CachedGeocoder.geocode` with
`NominatimGeocoder.geocode` inside: two requests for one place both ask upstream, and
the last answer to arrive is what stays cached. `Key` is the digest of text and
language, `Candidates` the parser that drops malformed items one by one. Upstream only
learns (`Learn`). `Tick` respects the timeout of a request. A body that is not
JSON raises a `ValueError` that the code does not turn into
`GeocodingUnavailable`; for the cache it is `Fail` all the same. An entry that another
version of the program has left may be unreadable, which is a `Miss`, or hold coordinates off
the globe, which ends the request with `InvalidLocation` (`HitInvalid`).

## 3. Runs

| Run | Question | Bounds | Distinct states |
| --- | --- | --- | --- |
| `premium_concurrent` | Do payments and refunds take effect whole and once, is every shown paid tier backed, does each writer touch only what it may, and do the tables implement `Entitlement`? | 2 sessions, 2 transactions, 2 charges, 2 grants, 1 user, 1 tick; all writers and failures | 1 386 312 |
| `premium_liveness` | Is a payment recorded in the end, and a refund? | the same, no failures, no other writers | 45 000 |
| `premium_two_purchases` | Is there at most one active purchase with 2 sessions? Violated. | | |
| `premium_overlaps` | Has a user one active purchase at most unless two of theirs overlapped, and again after the next one that is alone? | 2 sessions, 2 transactions, 2 charges, 3 grants, 1 user, 1 tick; gifts, an administrator, rollbacks | 2 117 088 |
| `rating_concurrent` | Does a pair keep one rating, is an accepted rating stored, or the one that it had to wait for, has a rated user a summary, and an exact one unless refreshes of it overlapped; do the table and its sessions implement `Scoreboard`? | 3 sessions, 2 raters of 1 user, 2 scores, withdrawals, failures | 1 783 983 |
| `rating_lost_update` | Is the summary exact with 2 sessions? Violated. | | |
| `registration_concurrent` | Do accounts, sources and rewards stay single, whatever runs at once, do the milestones of whose rewards did not overlap add up, does nobody invite in circles, does a /start that ends let its sender in, and do the tables implement `Referrals`? | 2 sessions, 3 people, 1 tag, bans, deleted profiles, failures | 630 186 |
| `settings_concurrent` | Is an album replaced whole, does the first of two edits win, does a request change its own field only? | 2 sessions, 2 values per column, 2 albums, 3 batches of photo rows | 1 587 165 |
| `feed` | Is nothing shown against which one objection held throughout, nothing passed over that was fit throughout, and does the skip set expire? | 2 sessions, 2 owners, 3 averages, quota 1, 3 updates, 2 changes outside, 1 tick | 4 177 358 |
| `broadcast` | Does no profile fall between two windows, is nobody written to twice in a cooldown or against their settings? | 2 workers, 2 owners, look back, dormancy and cooldown of 2, waits of 1, 3 ticks | 3 989 526 |
| `conversation` | Are photos never stuck nor taken twice, and is a profile made of one form that was not cancelled? | 2 leaders, 2 forms, albums of 2, 2 photos, a lookup that waits beside 2 that write, 1 deleted profile | 1 376 764 |
| `geocache` | Is an answer upstream's, to that query, and is a place found soon after upstream knows it? | 2 requests, 1 text in 2 languages, 1 place, 1 malformed item, foreign entries, 5 ticks | 3 986 107 |

Why the bounds are enough to meet the interesting cases:

- Every conflict in the code is between two sessions, on one row or one key, and
  two of each of transaction, charge and session give every pair of operations
  in every order, including a session that starts while another one waits. A
  third session in `rating_concurrent` lets a row be withdrawn and given again
  while a stale request for it is open. Three people are the least that give one
  of them two referees; the milestone interval, 3 in the code, is 2 in the runs.
- Time in `Premium` counts days: one tick is enough for a purchase to run out.
  Users do not share rows of the ledger, so one user suffices.
- A third grant in `premium_overlaps` is the purchase that comes after two that
  overlapped; what `Redelivery` and `Drops` add to it is about transactions, and in
  `premium_concurrent`.
- The three tables of `Settings` meet in no statement, so
  `MCSettings` picks one of them per behaviour (`focus`). Three batches let two edits and the rows
  they replace have ids of their own.
- `feed`: of two owners one is nearer, one is unrated, and they differ in gender,
  so every filter separates them; with three averages
  a minimum and an average can rise past each other; two changes outside the feed are enough to take
  a condition away and give it back during a search; three updates let one viewer
  rate, skip and search in two sessions.
- `broadcast`: two overlapping runs and a third after them fit in three ticks; a
  cooldown of 2 with waits of 1 leaves the one tick in which it could go wrong. One
  of the owners hides, opts out or rates, once (`Restless`). `Seeds` is empty: a seed
  is left out by the same filter as who has opted out.
- `conversation`: two forms, one cancelled or replaced and one that is not; two photos
  fill a buffer, or open two, of one form or of two. A lookup that waits while two
  others are between GET and SET gives every order of their commands and of the
  handlers' in between; a fourth would do again what the third did.
- `geocache`: a short entry (1), a long one (2) and a request (1) fit in five
  ticks with one to spare.

Runs without a liveness property use symmetry over ids and sessions, which no
definition distinguishes. No configuration switches the deadlock check off: `Rest`, a
stutter, is enabled only when no session is open.

### Fairness

`premium_liveness` assumes (`Premium!Fairness`) that

- a statement that is enabled again and again is executed (strong fairness of
  `Statement(s)`): asyncio runs its ready tasks in turn, and PostgreSQL queues
  those who wait for a row lock;
- an update that a handler could serve again and again is served (strong
  fairness of `ConfirmRead` for each charge): tasks wait for a connection of
  the pool in a queue;
- an update that can only be refused is refused (weak fairness).

It assumes no failures, no deadlock and no drop by a middleware. With any of
these the code does lose a payment, because an update that has been consumed is
never fetched again; no text of the repository promises otherwise.
`ThrottlingMiddleware` sits in front of `on_successful_payment` as of every
message: a payer who presses a button in the second before the payment
arrives loses its record. The safety properties hold in all of these cases.

`conversation` assumes weak fairness of `Wake` and of `Work` for each leader: the
event loop wakes a task whose sleep is over and resumes one whose await is done.
That is all `PhotosAreTaken` needs; failures and restarts are allowed.

### What the violated runs show

- `premium_two_purchases`: two confirmations of one user that overlap both list
  the active purchases before either inserts its grant, and both grants stay
  active, against the forfeiting rule of `SubscriptionActivationService`.
- `rating_lost_update`: two ratings of one user that overlap leave a summary that
  counts one of them, until that user is rated again.

`MilestonesAddUp` breaks with two sessions in the same way: two referees of one person
who create their profiles at once are each counted without the other, and the
milestone is then paid never, or twice.

How far the damage goes is `OverlapsSpoilOnlyTheirs`, checked in `premium_overlaps`,
`rating_concurrent` and `registration_concurrent` and proved for any number of sessions:
an overlap is the only cause, it spoils the result of its own user and of nobody
else, and it is made good by the next purchase, or the next rating, that is alone.
Milestones are the exception: they are counted when a reward is given and never again,
so that one that was missed stays missed. A banned referrer misses theirs too,
and has never more than were earned. Nothing in the code
prevents the overlap; a lock on the user's row, taken before the listing, the
computation or the count, would.

### What was met while modelling

- `docs/context-map.md:90` says events are dispatched after `uow.commit()`
  succeeds. The code dispatches them before, and that order is what makes a
  payment and its grant atomic.
- Requests on one row that overlap undo each other: a /start that has read the row
  before a ban is committed, and loads it again afterwards, writes the ban away.
  `OwnFieldOnly` is about requests that nobody overtook.
- The quota of free ratings bounds what is *shown*: keyboards that are in the chat
  can still be used.
- The watermark of the broadcast can go back when runs overlap; `NothingFallsThrough`
  holds all the same, and is proved. A profile whose transaction was open when a run
  began is announced by none.
- An accepted rating need not be stored. With a row of 10 and another session's change
  to 0 not committed yet, a rating of 10 loads 10, sends an UPDATE of `updated_at` only, waits,
  and leaves the 0 that was committed meanwhile; `RateUser` returns 10
  (`src/infrastructure/db/repositories/rating.py:70-76`). `RatedMeansStored` allows that and
  nothing else, and for `Scoreboard` it is a request that was dropped.
- A city that is typed and then shared instead: the geocoder's answer may be written
  around the shared location, which is then lost, and the form ends in a `KeyError` at
  `src/presentation/bot/handlers/create_profile.py:316`. Around /cancel it puts the cancelled form back,
  which a leader that still sleeps makes a profile of; around /create, it mixes two
  forms. The same two windows are in `update_data` of the leader (line 373).
- A form whose preference is missing has made its profile when it fails
  (`create_profile.py:327` comes after the commit in `create_profile.execute`).
- `src/infrastructure/geocoding/cached.py:63` says of `_decode` that it returns None on anything
  unreadable, so that upstream is asked. Coordinates off the globe raise
  `InvalidLocation`, which line 73 does not catch: every request for that place fails until the entry expires.
- The debounce of an album counts from its first photo, where the comment at
  `src/presentation/bot/handlers/create_profile.py:39` says the last; photos
  that arrive later start a second leader. The buffers are keyed by chat.
- The pick of a city is an index into the candidates of the search that came last;
  an older keyboard picks another place.
- `notify_new_profiles.py` promises something new to rate; the preferences of the
  recipient are not looked at.

## 4. Proofs

The proof modules hold theorems for any numbers of users, rows, charges,
sessions, runs and requests, any times, and with all failures switched on or off:

| Module | Theorem | Property |
| --- | --- | --- |
| `PremiumProofs` | `TypeCorrect` | `TypeOK`, with the charge id that `refund_payment.py:41` asserts |
| | `PaymentAtomic` | `PaidIffGranted` |
| | `RefundComplete` | `RefundedIsOver` |
| | `ShownTierIsPaidFor` | `PaidTierBacked` |
| | `Lifecycle` | `LifecycleForward` |
| | `ByRight` | `GrantsChangedByRight` |
| | `Implements` | `ImplementsEntitlement`, the refinement of `Entitlement` |
| | `HistoryIsPremium` | what holds of `Spec` holds of `HistorySpec`: the record restrains nothing |
| | `OverlapsOnlySpoil` | `OverlapsSpoilOnlyTheirs` |
| | `OnePurchaseWhenApart`, `OnePurchaseWhenSerial` | `OneActivePurchase`, if purchases of one user do not overlap; with one session |
| `RatingProofs` | `TypeCorrect` | `TypeOK`, with the bounds of a mean |
| | `PairIsUnique` | `OneRatingPerPair` |
| | `RatedAreSummarized` | `RatedHaveSummary` |
| | `AcceptedIsStored` | `RatedMeansStored` |
| | `Implements` | `ImplementsScoreboard`, the refinement of `Scoreboard` |
| | `HistoryIsRating` | as above |
| | `OverlapsOnlySpoil` | `OverlapsSpoilOnlyTheirs` |
| | `ExactWhenApart`, `ExactWhenSerial` | `SummaryExact`, if refreshes of one summary do not overlap; with one session |
| `RegistrationProofs` | `TypeCorrect` | `TypeOK` |
| | `AccountIsUnique` | `RegisteredOnce` |
| | `AttributionIsRight` | `SourcesAreWho` |
| | `ProfileIsRewarded` | `ProfileMeansRewarded` |
| | `ReferralPaidOnce` | `PaidOnce` |
| | `NoCircles` | `NobodyInvitesInCircles` |
| | `Implements` | `ImplementsReferrals`, the refinement of `Referrals` |
| | `AttributionStays` | `AttributionForGood` |
| | `EverybodyGetsIn` | `NobodyTurnedAway` |
| | `HistoryIsRegistration` | as above |
| | `OverlapsOnlySpoil` | `OverlapsSpoilOnlyTheirs` |
| | `MilestonesWhenApart`, `MilestonesWhenSerial` | `MilestonesAddUp`, without bans, if rewards of one referrer do not overlap; with one session |
| `SettingsProofs` | `TypeCorrect` | `TypeOK` |
| | `PhotosAreOneAlbum` | `AlbumIsWhole` |
| | `LaterEditFails` | `FirstEditWins` |
| | `OthersFieldsStay` | `OwnFieldOnly` |
| `FeedProofs` | `TypeCorrect` | `TypeOK` |
| | `SkipsExpire` | `SkipsRunOut` |
| | `ShownHadNoObjection` | `ShownWasWanted` |
| | `NearestComesFirst` | `NearestFirst` |
| `BroadcastProofs` | `TypeCorrect` | `TypeOK` |
| | `OneNudgePerCooldown` | `NudgesApart` |
| | `OnlyTheWanted` | `MessagesAreWanted` |
| | `NoCracks` | `NothingFallsThrough` |
| `ConversationProofs` | `TypeCorrect` | `TypeOK` |
| | `PhotosHaveOneLeader` | `BufferHasLeader` |
| | `FormsAreWhole` | `FormIsWhole` |
| | `ProfilesAreOfOneForm` | `OneForm` |
| | `CancelledFormsStayOut` | `CancelledStaysOut` |
| `GeoCacheProofs` | `TypeCorrect` | `TypeOK` |
| | `AnswersTrue` | `AnswersAreUpstreams` |
| | `MissesAreBrief` | `KnownPlacesAreFound` |

They assume only what the modules state as ASSUME: that the values standing for
NULL are not ids, that scores are between 0 and 10, that there are finitely many ids of ratings, that durations are natural numbers, that the tiers on sale are in the
catalogue, that flood control never asks for more than a cooldown, that a leader has photos for less
time than seven throttled updates take (`FormsTakeLonger`), that a request has a timeout, that the switches are Boolean.

**`Premium`.** The properties speak of committed tables, and are not inductive:
what keeps them true is what the sessions that are about to commit have read
and locked. `IInv` adds, for each session, that its job agrees with the tables
(`JobMatchesTables`, `JobMatchesLedger`); that a confirmation that got past the
unique index and holds its transaction's lock will be the first grant of the
transaction (`ConfirmWillBeFirst`); that a refund at its commit has every grant of the
transaction revoked or on its list (`RefundWillRevoke`); and between sessions
that unfinished ids are distinct (`IdsAreFresh`) and row locks exclude each
other (`LocksExclude`). Most steps only change one job, and one lemma
(`OthersUndisturbed`) shows that the others do not notice; each commit has a lemma of its
own. The action properties and the refinement follow from `IInv` step by step:
the three commits of a purchase map to `Invoice`, `Settle` and `Refund`, the
administrator's commit to `End`, and everything else to a stutter.

`OverlapsOnlySpoil` is about `HistorySpec`. `PurchaseInv(met, torn)` says of every session that
met no other that what it listed is all that is
active for its owner (`EveryPurchaseListed`), of every session that whatever it has passed on
its list it has revoked (`ListIsWorkedOff`), and of every user who is not in `torn` that
they have one active purchase at most. A session that met nobody then leaves its own
grant alone at its commit, whatever earlier overlaps left, which is why its owner may
leave `torn`; one that met another puts its owner there. What others
commit in the meantime, refunds, bonuses and the administrator's revocations, only
takes purchases away. The invariant is a predicate of two sets rather than of the two variables,
so that the same lemmas also serve where there is no record: `OnePurchaseWhenApart` is
the case in which both are empty, `[]PurchasesApart` being the hypothesis that nobody ever meets.

**`Rating`.** `IInv` says that a session's row is of its pair
(`JobMatchesTable`), that an uncommitted insert is of a pair with no committed
row, and that of two sessions on one pair at most one has written
(`OneWriter`), which is what the unique key and the row locks come to.
`ViewIsOneRow` says what a commit changes. The refinement of `Scoreboard` follows:
the first read of a session is `Ask`, its commit `Grant` (or `Drop`, if there was
nothing left to withdraw, or the score was left to another session's), any other end `Drop`, the rest a stutter.

`OverlapsOnlySpoil` goes the same way: `RefreshInv(met, torn)` says of a session that
met no other (`NotStale`) that what it computed
and loaded is still what is there, and of a user who is not in `torn` that their summary is exact. The
step that could spoil it is the commit of another session, which is then about another user:
it changes neither this summary nor this user's scores, whatever rows it has written (`OthersView`).
`rating_lost_update` shows two that meet. The sessions need
not be apart before: two may look for rows and write them at once.

`TypeCorrect` has to bound a mean, and so a fold over the rows. The library's
induction theorems take an operator; `NaturalNumbers` states induction for a set of
numbers instead, and follows from the theorem that numbers are well-founded.
With it, the recursion of `SumFunction` has a solution (`SumsExist`), and a sum of n
scores is at most 10n (`SumOfScores`).

**`Registration`.** `IInv` is the properties (`TablesOK`) with what each open
session knows (`JobOK`): while it registers, that the person it inserts has no account
and the referrer it found is the person of the code; while it
creates a profile, that the referral it marks is pending. Both survive the other
sessions because the unique keys keep two sessions from inserting one person or one
owner (`Apart`). `PaidOnce` rests on an order that the code does not comment on:
the profile is inserted before the referral is read, so the unique owner decides
which session may look at it. What a registration adds to the tables is one
lemma (`RegisterGains`), that it changes nothing for anybody else another
(`OthersLearnNothing`); the counts of rewards need the set of
acquisitions to be finite, which is part of the invariant.

No circles (`NoCircles`): a session finds its referrer among the committed users, and
its own user is not one of them. So whoever registers is, at that moment, nobody's inviter
(`CirclesRegister`), and a group that contains them has a member that
nobody of the group invited: themselves if they are alone, or else the one that the group had without
them. An invitation is resolved in the request that inserts the user and never
again, and one by somebody who has no account counts for nothing; if it were recorded, as the mutant of
the property does, two strangers could invite each other.

The refinement of `Referrals` needs `RegisteredOnce` before anything else, as the mapping is by person
(`OfMember`, `OfStranger`). `Register` is `Join`; `Commit` is `Complete` if its
session has marked a referral and `MakeProfile` if there was none to mark; `DeleteProfile` is `DropProfile`; all else stutters. That a session that marked
nothing had nothing to mark is in the invariant (`Creates`): the referral was looked up after the
profile was inserted, and the unique owner keeps everybody else from completing it.

`OverlapsOnlySpoil` says of a session that met no other (`CountIsRight`) that it
grants a milestone if and only if it pays the referrer and its own reward makes their
number a multiple of `Interval`, which only another commit for the same referrer could
change; `NextMultiple` is the arithmetic. A banned referrer's reward counts and pays
nothing, and a milestone that falls on it is lost; hence the two halves of
`Earned`: never more milestones than the rewards are worth, and exactly as many as long as every
reward was paid. Without an administrator every one is (`MilestonesWhenApart`).

**`Settings`.** What keeps an album whole is a unique key that was declared for
something else. `PhotosAreKnown` says that the photos an edit has loaded are those of
the profile or none of them is (`Unrelated`: ids are never given twice), because every
commit replaces them all. Each album has a photo at position 1, and so
has what is there: an edit that has loaded other photos fails at
`PositionsFree`, and of those that pass, the row's lock lets one at a time
commit (`Apart`). Then the commit deletes all there is and inserts one album. If edits
replaced only the photos that differ, the argument would break at its first
step. `RestIsAsRead` gives `OwnFieldOnly`: what is written
back beside the field was read, and is still there because nobody committed in between.
Every step before a commit is `Quiet`, which one lemma (`QuietKeeps`) shows to leave
the other sessions alone.

**`Feed`.** A search reads half a dozen things that go on changing, so nothing it has
read need be true any more. What is true is that each read rules out whoever was barred
by it since the search began (`BarredAreRuledOut`) and nobody who was fit
(`GoodAreLetThrough`): when a read happens, an objection that held all along still
holds, and later the set of such objections only shrinks. So no invariant relates
what was read to what is, with two exceptions. The minimum that was read is
the one that is set, or the filters changed since (`FilterIsFair`), because preferences and
premium are two reads of one filter: one change is seen by one of them or by none,
two can be seen half and half, and so `NearestFirst` allows one. And the set of
skips covers every promise (`PromisesKept`). The first attempt at the proof
failed on an average that rises past one minimum while the preferences move to
another: objections are told apart by the minimum they are about.

**`Broadcast`.** Three invariants, each inductive on top of the typing. For the
cooldown: a run that is sending holds the key it set, which expires a cooldown
after the claim, so no other run can claim it while flood control keeps the first one
waiting (`HoldsKey`). For the audience: what a run found stays meant for whom it was meant,
because rows are never stamped again and later ratings and opt-outs are
later than the run (`Wanted`). For the windows: `Mark(x)` says that x is a moment
at which a run began, so that no row is stamped at x and one that was stamped before
and not committed is known to span it; `Covered(x)` that completed runs know of
every other row until x. Both hold of the watermark and of where a run in progress
begins, and stay true as the world moves (`MarkLasts`, `CoveredLasts`); a run
that completes joins its window to what was covered (`WindowCompletes`). The
argument never compares two runs, which is why overlapping ones and a
watermark that goes back do no harm.

**`Conversation`.** The handlers and steps come down to a few kinds of event
(`Classified`): a form begins, ends, gets an answer, is moved about, gets a photo, and
what leaders, lookups, failures and administrators do. `FormIsWhole` needs to know of each
leader that the form is still the one it was sent for (`LeaderIsOfForm`), and that
leaders of different flows do not meet (`Alike`), both while nothing has raced. It
needs nothing of the lookups: one that writes back what is there changes nothing, any other has
raced.

For `OneForm` and `CancelledStaysOut` there are two dangers. One is a leader whose photos are of an earlier
form than the answers it will read (`Foreign`). /create takes seven updates to the
photos; each of them counts towards what the leader has spent, so the step of the new
form never gets ahead of the leader's time (`StepIsFar`), and there are no foreign photos
left when it asks for its own. The last answer before them is therefore missing from
every form such a leader can read or put back, or a lookup can (`BioIsFar`), and `_finalize_create` stops
at it. This is where the code depends on its timing: nothing in it
compares the form of the photos with the form of the answers. The other is a copy that
`update_data` puts back. A leader's is of the open form (`CopyIsOpen`), because every
end of a form closes it (`ClosingIsNotCurrent`); so is a lookup's (`ParkedIsOpen`), because every
end of a form makes it stale (`LookupsStale`), with the photos that it holds (`IsOpen`). Data that nobody
will use, since no one is at a form and no leader is alive (`Live`), may be of any form:
a lookup for the search area can park what it likes there, and the next form writes it anew.

**`GeoCache`.** What was read upstream stays true of upstream, wherever it is
kept (`WasRead`): upstream only learns, so nothing that was read is lost, and
what was empty was empty at that time. The invariant says it of each entry, each
request and the result, with how long each may be kept.

Model-checked only: liveness (`PaymentLands`, `RefundRecorded`, `PhotosAreTaken`),
because fairness and ENABLED are outside of the prover's reach. Every other property
of a passing run is a theorem. `Registration!TypeOK` and `AttributionForGood` are theorems
that no run repeats: `ImplementsReferrals` says more.

## 5. Not modelled

- The admin panel, but for bans and the deletion of profiles:
  generic forms over single tables, no logic of the repository's own. An
  administrator who deletes users or edits sources and acquisitions by hand is
  outside of the models.
- Reads that only show something: tier lists, one's own ratings and score,
  referral statistics, the views of /settings (but for the row they create).
- Middlewares on their own: the ban check and the locale only read; the throttle
  is part of `Conversation` and of `Premium`.
- Configuration, logging, start-up, migrations, scripts: no state that
  outlives start-up, or run once and offline.
- Texts, keyboards, translations: no property is about them.

## 6. What could follow

- `DispatchAfterCommit`: a variant of `Premium` with the order that the document
  describes, to show what it would lose.
- Locks on the user's row before the listing, the computation and the count, with
  `OneActivePurchase`, `SummaryExact` and `MilestonesAddUp` as what they are to restore.
