---------------------------- MODULE GeoCacheProofs ----------------------------
(***************************************************************************)
(* Proofs about GeoCache, for any texts, languages and places, any number  *)
(* of requests at once, and any times.                                     *)
(***************************************************************************)
EXTENDS GeoCache, TLAPS

(***************************************************************************)
(* The inductive invariant.  What a request read upstream stays true of    *)
(* upstream, however long it is kept: upstream only learns, so nothing     *)
(* that was read is lost, and what was read to be empty was empty then.    *)
(***************************************************************************)

\* c is what upstream answered to q at the time at.
WasRead(q, at, c) ==
  /\ at <= clock
  /\ c \subseteq upstream[q]
  /\ c = {} /\ known[q] # Never => at <= known[q]

KnownIsUpstream == \A q \in Queries : known[q] # Never => upstream[q] # {}

EntryWasRead(q, e) ==
  e # NoEntry /\ e.kind = "ours" =>
    /\ WasRead(q, e.at, e.candidates)
    /\ e.expires <= e.at + Timeout + TTLOf(e.candidates)

JobWasRead(j) ==
  /\ j.pc # "idle" => j.began <= clock /\ clock <= j.began + Timeout
  /\ j.pc = "read" => j.began <= j.at /\ WasRead(j.query, j.at, j.candidates)

ResultWasRead(x) ==
  /\ WasRead(x.query, x.at, x.candidates)
  /\ x.ended <= x.at + Timeout + TTL
  /\ x.candidates = {} => x.began < x.at + Timeout + MissTTL

IInv ==
  /\ TypeOK
  /\ KnownIsUpstream
  /\ \A q \in Queries : EntryWasRead(q, cache[q])
  /\ \A r \in Requests : JobWasRead(job[r])
  /\ \A x \in result : ResultWasRead(x)

-----------------------------------------------------------------------------
(* Lemmas.                                                                 *)

LEMMA IdleIsJob == Idle \in Job /\ Idle.pc = "idle"
  <1>1. Queries # {}
    <2> PICK t \in Texts, l \in Languages : TRUE
      BY SomethingIsAsked
    <2> [text |-> t, language |-> l] \in Queries
      BY DEF Queries
    <2> QED
      OBVIOUS
  <1>2. (CHOOSE q \in Queries : TRUE) \in Queries
    BY <1>1
  <1>3. 0 \in Time
    BY TimesAreNaturals DEF Time
  <1> QED
    BY <1>2, <1>3 DEF Idle, Job

\* What is malformed is dropped and nothing else is.
LEMMA CandidatesDropJunk ==
  ASSUME NEW s \in SUBSET Places, NEW junk \in SUBSET Malformed
  PROVE  Candidates(s \cup junk) = s
  BY MalformedAreNotPlaces DEF Candidates

LEMMA TTLOfBounds ==
  ASSUME NEW c
  PROVE  /\ TTLOf(c) \in Nat
         /\ TTLOf(c) <= TTL
         /\ c = {} => TTLOf(c) = MissTTL
  BY TimesAreNaturals DEF TTLOf

\* Time passes and upstream learns: what was read stays read.
WorldMoves ==
  /\ clock' \in Time /\ clock <= clock'
  /\ \A q \in Queries :
       /\ upstream[q] \subseteq upstream'[q]
       /\ known[q] # Never => known'[q] = known[q]
       /\ known[q] = Never /\ known'[q] # Never => known'[q] = clock

LEMMA ReadingsLast ==
  ASSUME WorldMoves, TypeOK, NEW q \in Queries, NEW at \in Time, NEW c,
         WasRead(q, at, c)
  PROVE  WasRead(q, at, c)'
  <1>1. at <= clock'
    BY TimesAreNaturals DEF WorldMoves, WasRead, TypeOK, Time
  <1>2. c \subseteq upstream'[q]
    BY DEF WorldMoves, WasRead
  <1>3. ASSUME c = {}, known'[q] # Never PROVE at <= known'[q]
    BY <1>3 DEF WorldMoves, WasRead
  <1> QED
    BY <1>1, <1>2, <1>3 DEF WasRead

LEMMA EntriesLast ==
  ASSUME WorldMoves, TypeOK, NEW q \in Queries,
         NEW e \in Entry \cup {NoEntry}, EntryWasRead(q, e)
  PROVE  EntryWasRead(q, e)'
  <1> SUFFICES ASSUME e # NoEntry, e.kind = "ours"
               PROVE  /\ WasRead(q, e.at, e.candidates)'
                      /\ e.expires <= e.at + Timeout + TTLOf(e.candidates)
    BY DEF EntryWasRead, TTLOf
  <1>1. e.at \in Time
    BY DEF Entry
  <1> QED
    BY <1>1, ReadingsLast DEF EntryWasRead

LEMMA ResultsLast ==
  ASSUME WorldMoves, TypeOK, NEW x \in Result, ResultWasRead(x)
  PROVE  ResultWasRead(x)'
  <1>1. x.query \in Queries /\ x.at \in Time
    BY DEF Result
  <1> QED
    BY <1>1, ReadingsLast DEF ResultWasRead

\* A job keeps what it knows while the clock leaves it the time to answer.
LEMMA JobsLast ==
  ASSUME WorldMoves, TypeOK, NEW j \in Job, JobWasRead(j),
         j.pc # "idle" => clock' <= j.began + Timeout
  PROVE  JobWasRead(j)'
  <1>1. j.query \in Queries /\ j.at \in Time /\ j.began \in Time
    BY DEF Job
  <1>2. j.pc = "read" => WasRead(j.query, j.at, j.candidates)'
    BY <1>1, ReadingsLast DEF JobWasRead
  <1>3. j.pc # "idle" => j.began <= clock'
    BY <1>1, TimesAreNaturals DEF JobWasRead, WorldMoves, TypeOK, Time
  <1> QED
    BY <1>2, <1>3 DEF JobWasRead

-----------------------------------------------------------------------------
(* The invariant holds at first, and every action preserves it.            *)

LEMMA Starts == Init => IInv
  <1> SUFFICES ASSUME Init PROVE IInv
    OBVIOUS
  <1>1. 0 \in Time /\ TTL \in Nat
    BY TimesAreNaturals DEF Time
  <1>2. TypeOK
    <2>1. upstream \in [Queries -> SUBSET Places]
      BY DEF Init
    <2>2. known \in [Queries -> Time \cup {Never}]
      BY DEF Init
    <2>3. cache \in [Queries -> Entry \cup {NoEntry}]
      <3>1. [candidates: {{}}, kind: {"unreadable", "off the globe"}, at: {0}, expires: {TTL}]
              \subseteq Entry
        BY <1>1 DEF Entry
      <3> QED
        BY <3>1 DEF Init
    <2>4. job \in [Requests -> Job]
      BY IdleIsJob DEF Init
    <2> QED
      BY <1>1, <2>1, <2>2, <2>3, <2>4 DEF Init, TypeOK
  <1>3. KnownIsUpstream
    BY DEF Init, KnownIsUpstream
  <1>4. \A q \in Queries : EntryWasRead(q, cache[q])
    <2> SUFFICES ASSUME NEW q \in Queries, cache[q] # NoEntry
                 PROVE  cache[q].kind # "ours"
      BY DEF EntryWasRead
    <2> QED
      BY DEF Init
  <1>5. \A r \in Requests : JobWasRead(job[r])
    BY IdleIsJob DEF Init, JobWasRead
  <1>6. \A x \in result : ResultWasRead(x)
    BY DEF Init
  <1> QED
    BY <1>2, <1>3, <1>4, <1>5, <1>6 DEF IInv

\* What a step that is neither Learn nor Tick does to the world: nothing.
LEMMA StillWorld ==
  ASSUME TypeOK, UNCHANGED <<upstream, known, clock>>
  PROVE  WorldMoves
  BY TimesAreNaturals DEF TypeOK, WorldMoves, Time

\* The parts of the invariant that a step leaves alone but for the world.
LEMMA CacheLasts ==
  ASSUME IInv, WorldMoves, UNCHANGED cache
  PROVE  \A q \in Queries : EntryWasRead(q, cache[q])'
  <1> SUFFICES ASSUME NEW q \in Queries PROVE EntryWasRead(q, cache[q])'
    OBVIOUS
  <1> PICK e \in Entry \cup {NoEntry} : e = cache[q]
    BY DEF IInv, TypeOK
  <1>1. EntryWasRead(q, e)'
    BY EntriesLast DEF IInv
  <1> QED
    BY <1>1

LEMMA ResultLasts ==
  ASSUME IInv, WorldMoves, NEW x \in result
  PROVE  ResultWasRead(x)'
  BY ResultsLast DEF IInv, TypeOK

LEMMA OtherJobsLast ==
  ASSUME IInv, WorldMoves, clock' = clock, NEW r \in Requests, job'[r] = job[r]
  PROVE  JobWasRead(job[r])'
  <1> PICK j \in Job : j = job[r]
    BY DEF IInv, TypeOK
  <1>1. JobWasRead(j)'
    BY JobsLast DEF IInv, JobWasRead
  <1> QED
    BY <1>1

LEMMA HitPreserves ==
  ASSUME IInv, NEW r \in Requests, NEW q \in Queries, Hit(r, q)
  PROVE  IInv'
  <1> PICK e \in Entry : e = cache[q]
    BY DEF Hit, Finds, Live, Key, IInv, TypeOK
  <1>1. e.at \in Time /\ e.expires \in Nat /\ e.candidates \in SUBSET Places /\ clock \in Time
    BY DEF Entry, IInv, TypeOK
  <1> PICK x \in Result :
        x = [query |-> q, began |-> clock, ended |-> clock, at |-> e.at,
             candidates |-> e.candidates]
    BY <1>1 DEF Result
  <1>2. /\ e # NoEntry /\ e.kind = "ours" /\ clock < e.expires
        /\ result' = {x}
        /\ UNCHANGED <<upstream, known, cache, job, clock>>
    BY DEF Hit, Finds, Live, Key, Return
  <1>3. TypeOK'
    BY <1>2 DEF IInv, TypeOK
  <1>4. WorldMoves
    BY <1>2, StillWorld DEF IInv
  <1>5. ResultWasRead(x)
    <2>1. WasRead(q, e.at, e.candidates) /\ e.expires <= e.at + Timeout + TTLOf(e.candidates)
      BY <1>2 DEF EntryWasRead, IInv
    <2>2. clock < e.at + Timeout + TTLOf(e.candidates)
      BY <1>1, <1>2, <2>1, TTLOfBounds, TimesAreNaturals DEF Time
    <2> QED
      BY <1>1, <2>1, <2>2, TTLOfBounds, TimesAreNaturals DEF ResultWasRead, Time
  <1>6. ResultWasRead(x)'
    BY <1>4, <1>5, ResultsLast DEF IInv
  <1> QED
    BY <1>2, <1>3, <1>4, <1>6, CacheLasts, OtherJobsLast DEF IInv, KnownIsUpstream

LEMMA HitInvalidPreserves ==
  ASSUME IInv, NEW r \in Requests, NEW q \in Queries, HitInvalid(r, q)
  PROVE  IInv'
  <1>1. result' = {} /\ UNCHANGED <<upstream, known, cache, job, clock>>
    BY DEF HitInvalid
  <1>2. WorldMoves
    BY <1>1, StillWorld DEF IInv
  <1> QED
    BY <1>1, <1>2, CacheLasts, OtherJobsLast DEF IInv, TypeOK, KnownIsUpstream

\* One request's job becomes j and the rest of the state stays.
LEMMA OneJobMoves ==
  ASSUME IInv, WorldMoves, NEW r \in Requests, NEW j \in Job,
         job' = [job EXCEPT ![r] = j], clock' = clock, JobWasRead(j)'
  PROVE  /\ job' \in [Requests -> Job]
         /\ \A s \in Requests : JobWasRead(job[s])'
  <1>1. job \in [Requests -> Job]
    BY DEF IInv, TypeOK
  <1>2. ASSUME NEW s \in Requests PROVE JobWasRead(job[s])'
    <2>1. CASE s = r
      <3> job'[s] = j
        BY <1>1, <2>1
      <3> QED
        OBVIOUS
    <2>2. CASE s # r
      BY <1>1, <2>2, OtherJobsLast
    <2> QED
      BY <2>1, <2>2
  <1> QED
    BY <1>1, <1>2

LEMMA MissPreserves ==
  ASSUME IInv, NEW r \in Requests, NEW q \in Queries, Miss(r, q)
  PROVE  IInv'
  <1>1. clock \in Time
    BY DEF IInv, TypeOK
  <1> PICK j \in Job : j = [Idle EXCEPT !.pc = "asked", !.query = q, !.began = clock]
    BY <1>1, IdleIsJob DEF Job
  <1>2. /\ job' = [job EXCEPT ![r] = j]
        /\ UNCHANGED <<upstream, known, cache, result, clock>>
        /\ j.pc = "asked" /\ j.began = clock
    BY IdleIsJob DEF Miss, Job
  <1>3. WorldMoves
    BY <1>2, StillWorld DEF IInv
  <1>4. JobWasRead(j)'
    BY <1>1, <1>2, TimesAreNaturals DEF JobWasRead, Time
  <1>5. job' \in [Requests -> Job] /\ \A s \in Requests : JobWasRead(job[s])'
    BY <1>2, <1>3, <1>4, OneJobMoves
  <1> QED
    BY <1>2, <1>3, <1>5, CacheLasts, ResultLasts DEF IInv, TypeOK, KnownIsUpstream

LEMMA ReadPreserves ==
  ASSUME IInv, NEW r \in Requests, Read(r)
  PROVE  IInv'
  <1> PICK k \in Job : k = job[r]
    BY DEF IInv, TypeOK
  <1>1. clock \in Time /\ k.query \in Queries /\ upstream[k.query] \in SUBSET Places
    BY DEF IInv, TypeOK, Job
  <1> PICK j \in Job : j = [k EXCEPT !.pc = "read", !.at = clock,
                                   !.candidates = upstream[k.query]]
    BY <1>1 DEF Job
  <1>2. /\ job' = [job EXCEPT ![r] = j]
        /\ UNCHANGED <<upstream, known, cache, result, clock>>
        /\ k.pc = "asked"
    <2> PICK junk \in SUBSET Malformed :
          job' = [job EXCEPT ![r].pc = "read", ![r].at = clock,
                  ![r].candidates = Candidates(upstream[k.query] \cup junk)]
      BY DEF Read
    <2>1. Candidates(upstream[k.query] \cup junk) = upstream[k.query]
      BY <1>1, CandidatesDropJunk
    <2> QED
      BY <2>1 DEF Read, IInv, TypeOK
  <1>3. /\ j.pc = "read" /\ j.began = k.began /\ j.at = clock /\ j.query = k.query
        /\ j.candidates = upstream[k.query]
    BY DEF Job
  <1>4. WorldMoves
    BY <1>2, StillWorld DEF IInv
  <1>5. k.began <= clock /\ clock <= k.began + Timeout
    BY <1>2 DEF IInv, JobWasRead
  <1>6. WasRead(j.query, j.at, j.candidates)'
    BY <1>1, <1>2, <1>3, TimesAreNaturals DEF WasRead, IInv, KnownIsUpstream, Time
  <1>7. JobWasRead(j)'
    BY <1>2, <1>3, <1>5, <1>6 DEF JobWasRead
  <1>8. job' \in [Requests -> Job] /\ \A s \in Requests : JobWasRead(job[s])'
    BY <1>2, <1>4, <1>7, OneJobMoves
  <1> QED
    BY <1>2, <1>4, <1>8, CacheLasts, ResultLasts DEF IInv, TypeOK, KnownIsUpstream

LEMMA ArrivePreserves ==
  ASSUME IInv, NEW r \in Requests, Arrive(r)
  PROVE  IInv'
  <1> PICK k \in Job : k = job[r]
    BY DEF IInv, TypeOK
  <1> PICK i \in Job : i = Idle /\ i.pc = "idle"
    BY IdleIsJob
  <1>1. /\ clock \in Time /\ k.query \in Queries /\ k.at \in Time /\ k.began \in Time
        /\ k.candidates \in SUBSET Places
        /\ clock + TTLOf(k.candidates) \in Nat
    BY TTLOfBounds, TimesAreNaturals DEF IInv, TypeOK, Job, Time
  <1> PICK e \in Entry :
        e = [candidates |-> k.candidates, kind |-> "ours", at |-> k.at,
             expires |-> clock + TTLOf(k.candidates)]
    BY <1>1 DEF Entry
  <1> PICK x \in Result :
        x = [query |-> k.query, began |-> k.began, ended |-> clock, at |-> k.at,
             candidates |-> k.candidates]
    BY <1>1 DEF Result
  <1>2. /\ k.pc = "read"
        /\ cache' = [cache EXCEPT ![k.query] = e]
        /\ result' = {x}
        /\ job' = [job EXCEPT ![r] = i]
        /\ UNCHANGED <<upstream, known, clock>>
    BY DEF Arrive, Return, End, Key
  <1>3. WorldMoves
    BY <1>2, StillWorld DEF IInv
  <1>4. /\ k.began <= clock /\ clock <= k.began + Timeout /\ k.began <= k.at
        /\ WasRead(k.query, k.at, k.candidates)
    BY <1>2 DEF IInv, JobWasRead
  <1>5. k.at <= clock
    BY <1>4 DEF WasRead
  <1>6. EntryWasRead(k.query, e)'
    <2>2. WasRead(k.query, e.at, e.candidates)
      BY <1>4
    <2>3. clock + TTLOf(k.candidates) <= k.at + Timeout + TTLOf(k.candidates)
      BY <1>1, <1>4, TTLOfBounds, TimesAreNaturals DEF Time
    <2>4. EntryWasRead(k.query, e)
      BY <2>2, <2>3 DEF EntryWasRead
    <2> QED
      BY <1>1, <1>3, <2>4, EntriesLast DEF IInv
  <1>7. ResultWasRead(x)'
    <2>1. k.began < k.at + Timeout + MissTTL /\ clock <= k.at + Timeout + TTL
      BY <1>1, <1>4, TimesAreNaturals DEF Time
    <2>2. ResultWasRead(x)
      BY <1>4, <2>1 DEF ResultWasRead
    <2> QED
      BY <1>3, <2>2, ResultsLast DEF IInv
  <1>8. \A q \in Queries : EntryWasRead(q, cache[q])'
    <2> SUFFICES ASSUME NEW q \in Queries PROVE EntryWasRead(q, cache[q])'
      OBVIOUS
    <2> PICK f \in Entry \cup {NoEntry} : f = cache[q]
      BY DEF IInv, TypeOK
    <2>1. CASE q = k.query
      <3> cache'[q] = e
        BY <1>2, <2>1 DEF IInv, TypeOK
      <3> QED
        BY <1>6, <2>1
    <2>2. CASE q # k.query
      <3>1. EntryWasRead(q, f)'
        BY <1>3, EntriesLast DEF IInv
      <3> cache'[q] = f
        BY <1>2, <2>2 DEF IInv, TypeOK
      <3> QED
        BY <3>1
    <2> QED
      BY <2>1, <2>2
  <1>9. job' \in [Requests -> Job] /\ \A s \in Requests : JobWasRead(job[s])'
    BY <1>2, <1>3, OneJobMoves DEF JobWasRead
  <1>10. cache' \in [Queries -> Entry \cup {NoEntry}] /\ result' \subseteq Result
    BY <1>2 DEF IInv, TypeOK
  <1> QED
    BY <1>2, <1>7, <1>8, <1>9, <1>10 DEF IInv, TypeOK, KnownIsUpstream

LEMMA FailPreserves ==
  ASSUME IInv, NEW r \in Requests, Fail(r)
  PROVE  IInv'
  <1> PICK i \in Job : i = Idle /\ i.pc = "idle"
    BY IdleIsJob
  <1>1. /\ job' = [job EXCEPT ![r] = i]
        /\ result' = {}
        /\ UNCHANGED <<upstream, known, cache, clock>>
    BY DEF Fail, End
  <1>2. WorldMoves
    BY <1>1, StillWorld DEF IInv
  <1>3. job' \in [Requests -> Job] /\ \A s \in Requests : JobWasRead(job[s])'
    BY <1>1, <1>2, OneJobMoves DEF JobWasRead
  <1> QED
    BY <1>1, <1>2, <1>3, CacheLasts DEF IInv, TypeOK, KnownIsUpstream

LEMMA LearnPreserves ==
  ASSUME IInv, NEW q \in Queries, NEW i \in Places, Learn(q, i)
  PROVE  IInv'
  <1>1. UNCHANGED <<cache, job, result, clock>>
    BY DEF Learn
  <1>2. upstream' \in [Queries -> SUBSET Places] /\ known' \in [Queries -> Time \cup {Never}]
    BY DEF Learn, IInv, TypeOK
  <1>3. WorldMoves
    BY <1>1, TimesAreNaturals DEF Learn, IInv, TypeOK, WorldMoves, Time
  <1>4. KnownIsUpstream'
    BY DEF Learn, IInv, TypeOK, KnownIsUpstream
  <1> QED
    BY <1>1, <1>2, <1>3, <1>4, CacheLasts, ResultLasts, OtherJobsLast DEF IInv, TypeOK

LEMMA TickPreserves ==
  ASSUME IInv, Tick
  PROVE  IInv'
  <1>1. /\ UNCHANGED <<upstream, known, cache, job, result>>
        /\ clock' = clock + 1 /\ clock' \in Time
    BY TimesAreNaturals DEF Tick, IInv, TypeOK, Time
  <1>2. WorldMoves
    BY <1>1, TimesAreNaturals DEF IInv, TypeOK, WorldMoves, Time
  <1>3. ASSUME NEW r \in Requests PROVE JobWasRead(job[r])'
    <2> PICK j \in Job : j = job[r]
      BY DEF IInv, TypeOK
    <2>1. j.pc # "idle" => clock' <= j.began + Timeout
      BY <1>1, TimesAreNaturals DEF Tick, Job, IInv, TypeOK, Time
    <2>2. JobWasRead(j)'
      BY <1>2, <2>1, JobsLast DEF IInv
    <2> QED
      BY <1>1, <2>2
  <1> QED
    BY <1>1, <1>2, <1>3, CacheLasts, ResultLasts DEF IInv, TypeOK, KnownIsUpstream

LEMMA StutterPreserves ==
  ASSUME IInv, UNCHANGED vars
  PROVE  IInv'
  <1> WorldMoves
    BY StillWorld DEF IInv, vars
  <1> QED
    BY CacheLasts, ResultLasts, OtherJobsLast DEF IInv, TypeOK, KnownIsUpstream, vars

LEMMA Steps == IInv /\ [Next]_vars => IInv'
  <1> SUFFICES ASSUME IInv, [Next]_vars PROVE IInv'
    OBVIOUS
  <1>1. ASSUME NEW r \in Requests, NEW q \in Queries, Hit(r, q) \/ HitInvalid(r, q) \/ Miss(r, q)
        PROVE  IInv'
    BY <1>1, HitPreserves, HitInvalidPreserves, MissPreserves
  <1>2. ASSUME NEW r \in Requests, Read(r) \/ Arrive(r) \/ Fail(r) PROVE IInv'
    BY <1>2, ReadPreserves, ArrivePreserves, FailPreserves
  <1>3. ASSUME NEW q \in Queries, NEW i \in Places, Learn(q, i) PROVE IInv'
    BY <1>3, LearnPreserves
  <1>4. ASSUME Tick PROVE IInv'
    BY <1>4, TickPreserves
  <1>5. ASSUME UNCHANGED vars PROVE IInv'
    BY <1>5, StutterPreserves
  <1> QED
    BY <1>1, <1>2, <1>3, <1>4, <1>5 DEF Next

THEOREM Inductive == Spec => []IInv
  BY Starts, Steps, PTL DEF Spec

-----------------------------------------------------------------------------
(* Theorems.                                                               *)

\* What is cached, asked and returned has its type: nothing malformed that
\* upstream sends is passed on (NominatimGeocoder._to_candidate).
THEOREM TypeCorrect == Spec => []TypeOK
  <1>1. IInv => TypeOK
    BY DEF IInv
  <1> QED
    BY <1>1, Inductive, PTL

\* CachedGeocoder.geocode answers a query with what upstream answered to that
\* query, not longer ago than TTL and one request.
THEOREM AnswersTrue == Spec => []AnswersAreUpstreams
  <1>1. IInv => AnswersAreUpstreams
    BY DEF IInv, ResultWasRead, WasRead, AnswersAreUpstreams
  <1> QED
    BY <1>1, Inductive, PTL

\* However the answers of concurrent requests overtake each other on their way
\* to the cache, that nothing was found is not believed longer than MissTTL
\* and one request.
THEOREM MissesAreBrief == Spec => []KnownPlacesAreFound
  <1>1. ASSUME IInv, NEW x \in result, known[x.query] # Never,
               x.began >= known[x.query] + Timeout + MissTTL, x.candidates = {}
        PROVE  FALSE
    <2>1. x.query \in Queries /\ x.began \in Time /\ x.at \in Time
      BY <1>1 DEF IInv, TypeOK, Result
    <2>2. known[x.query] \in Time
      BY <1>1, <2>1 DEF IInv, TypeOK
    <2>3. x.at <= known[x.query] /\ x.began < x.at + Timeout + MissTTL
      BY <1>1 DEF IInv, ResultWasRead, WasRead
    <2> QED
      BY <1>1, <2>1, <2>2, <2>3, TimesAreNaturals DEF Time
  <1>2. IInv => KnownPlacesAreFound
    BY <1>1 DEF KnownPlacesAreFound
  <1> QED
    BY <1>2, Inductive, PTL

=============================================================================
