------------------------------- MODULE GeoCache -------------------------------
(***************************************************************************)
(* Looking up the coordinates of a place that a user typed: a Redis cache  *)
(* in front of Nominatim.                                                  *)
(*                                                                         *)
(* Nothing keeps two requests for one place from both missing the cache;   *)
(* each then asks upstream, whose answers may overtake each other, and the *)
(* one that arrives last is cached.  What upstream knows only grows.       *)
(***************************************************************************)
EXTENDS Integers

CONSTANTS
  Texts,       \* place names as typed, folded in case and space
  Languages,
  Places,      \* what upstream may know
  Malformed,   \* what else its answers may contain
  Requests,    \* requests in progress at a time
  TTL,         \* how long candidates are cached
  MissTTL,     \* how long it is cached that there are none
  Timeout,     \* of a request to upstream
  MaxTime,     \* bound on the clock
  NoEntry, Never

ASSUME MalformedAreNotPlaces == Places \cap Malformed = {}

ASSUME SomethingIsAsked == Texts # {} /\ Languages # {}

ASSUME TimesAreNaturals ==
  /\ {TTL, MissTTL, Timeout, MaxTime} \subseteq Nat
  /\ Timeout > 0
  /\ MissTTL <= TTL
  /\ Never \notin Int

Queries == [text: Texts, language: Languages]

\* Mutated: the language is not part of the key.
TextKey(q) == [q EXCEPT !.language = CHOOSE l \in Languages : TRUE]

Key(q) == q

VARIABLES
  upstream,  \* what Nominatim knows, by query
  known,     \* when a query first had a usable answer there, or Never
  cache,     \* entries of Redis, by key
  job,       \* what each request is doing
  result,    \* what the last request that ended returned, if anything
  clock

vars == <<upstream, known, cache, job, result, clock>>

Time == 0 .. MaxTime

\* at is when upstream was read; it is not in the code.  An entry of another
\* version of the program may be unreadable, or read as a point off the globe.
Entry ==
  [candidates: SUBSET Places, kind: {"ours", "unreadable", "off the globe"}, at: Time,
   expires: Nat]

Job ==
  [pc: {"idle", "asked", "read"}, query: Queries, began: Time, at: Time,
   candidates: SUBSET Places]

Result ==
  [query: Queries, began: Time, ended: Time, at: Time, candidates: SUBSET Places]

\* _to_candidate: what is malformed is dropped, alone.
Candidates(payload) == payload \ Malformed

\* What GET returns.
Live(k) == cache[k] # NoEntry /\ clock < cache[k].expires

Finds(q, kind) == Live(Key(q)) /\ cache[Key(q)].kind = kind

Return(q, began, at, candidates) ==
  result' = {[query |-> q, began |-> began, ended |-> clock, at |-> at,
              candidates |-> candidates]}

Idle == [pc |-> "idle", query |-> CHOOSE q \in Queries : TRUE, began |-> 0,
         at |-> 0, candidates |-> {}]

End(r) == job' = [job EXCEPT ![r] = Idle]

-----------------------------------------------------------------------------
(* CachedGeocoder.geocode.                                                 *)

Hit(r, q) ==
  /\ job[r].pc = "idle"
  /\ Finds(q, "ours")
  /\ Return(q, clock, cache[Key(q)].at, cache[Key(q)].candidates)
  /\ UNCHANGED <<upstream, known, cache, job, clock>>

\* _decode does not catch InvalidLocation: the caller is told, upstream is not
\* asked.
HitInvalid(r, q) ==
  /\ job[r].pc = "idle"
  /\ Finds(q, "off the globe")
  /\ result' = {}
  /\ UNCHANGED <<upstream, known, cache, job, clock>>

\* What is unreadable is as if it was not there.
Miss(r, q) ==
  /\ job[r].pc = "idle"
  /\ Live(Key(q)) => Finds(q, "unreadable")
  /\ job' = [job EXCEPT ![r] = [Idle EXCEPT !.pc = "asked", !.query = q, !.began = clock]]
  /\ UNCHANGED <<upstream, known, cache, result, clock>>

\* Upstream reads its data some time before its answer arrives.
Read(r) ==
  /\ job[r].pc = "asked"
  /\ \E junk \in SUBSET Malformed :
       job' = [job EXCEPT ![r].pc = "read", ![r].at = clock,
                          ![r].candidates = Candidates(upstream[job[r].query] \cup junk)]
  /\ UNCHANGED <<upstream, known, cache, result, clock>>

\* Mutated: every answer is kept for the same time.
OneTTL(candidates) == TTL

TTLOf(candidates) == IF candidates = {} THEN MissTTL ELSE TTL

\* The answer is cached and returned.
Arrive(r) ==
  /\ job[r].pc = "read"
  /\ LET j == job[r]
     IN  /\ cache' = [cache EXCEPT ![Key(j.query)] =
                        [candidates |-> j.candidates, kind |-> "ours", at |-> j.at,
                         expires |-> clock + TTLOf(j.candidates)]]
         /\ Return(j.query, j.began, j.at, j.candidates)
  /\ End(r)
  /\ UNCHANGED <<upstream, known, clock>>

\* An error, a timeout, or a body that is no list: the caller is told, and
\* nothing is cached.
Fail(r) ==
  /\ job[r].pc # "idle"
  /\ End(r)
  /\ result' = {}
  /\ UNCHANGED <<upstream, known, cache, clock>>

-----------------------------------------------------------------------------
(* Outside.                                                                *)

\* Coverage improves.
Learn(q, i) ==
  /\ i \notin upstream[q]
  /\ upstream' = [upstream EXCEPT ![q] = @ \cup {i}]
  /\ known' = IF known[q] = Never
              THEN [known EXCEPT ![q] = clock] ELSE known
  /\ UNCHANGED <<cache, job, result, clock>>

\* aiohttp gives up when the timeout is over; Redis answers within a tick.
Tick ==
  /\ clock < MaxTime
  /\ \A r \in Requests : job[r].pc # "idle" => clock < job[r].began + Timeout
  /\ clock' = clock + 1
  /\ UNCHANGED <<upstream, known, cache, job, result>>

Init ==
  /\ upstream = [q \in Queries |-> {}]
  /\ known = [q \in Queries |-> Never]
  /\ cache \in [Queries -> {NoEntry} \cup
                  [candidates: {{}}, kind: {"unreadable", "off the globe"}, at: {0},
                   expires: {TTL}]]
  /\ clock = 0
  /\ job = [r \in Requests |-> Idle]
  /\ result = {}

Next ==
  \/ \E r \in Requests :
       \/ \E q \in Queries : Hit(r, q) \/ HitInvalid(r, q) \/ Miss(r, q)
       \/ Read(r)
       \/ Arrive(r)
       \/ Fail(r)
  \/ \E q \in Queries, i \in Places : Learn(q, i)
  \/ Tick

Spec == Init /\ [][Next]_vars

-----------------------------------------------------------------------------
(* Properties.                                                             *)

\* Entries, requests and results have their types.
TypeOK ==
  /\ upstream \in [Queries -> SUBSET Places]
  /\ known \in [Queries -> Time \cup {Never}]
  /\ cache \in [Queries -> Entry \cup {NoEntry}]
  /\ job \in [Requests -> Job]
  /\ result \subseteq Result
  /\ clock \in Time

\* Whatever a request returns was upstream's answer to that text in that
\* language, not longer ago than the cache's and the request's time together.
AnswersAreUpstreams ==
  \A x \in result :
    /\ x.candidates \subseteq upstream[x.query]
    /\ x.ended <= x.at + Timeout + TTL

\* That nothing was found is cached "only briefly, since coverage improves over
\* time": a place that upstream has known for as long as one request and one
\* short entry last is found, although the answers of requests that were made
\* at once may be cached in any order and upstream may fail.
KnownPlacesAreFound ==
  \A x \in result :
    /\ known[x.query] # Never
    /\ x.began >= known[x.query] + Timeout + MissTTL
    => x.candidates # {}

=============================================================================
