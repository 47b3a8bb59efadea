-------------------------------- MODULE Rating --------------------------------
(***************************************************************************)
(* The Rating context: who gave whom which score, and the summary of a     *)
(* user's scores that the feed filters by and the bot shows.               *)
(*                                                                         *)
(* Requests are served by concurrent database sessions under READ          *)
(* COMMITTED: see Premium.  A session changes one ratings row, recomputes  *)
(* the rated user's summary in the handler of the rating's event, and      *)
(* commits both.  Taps on keyboards that are still in the chat, repeated   *)
(* taps and updates delivered twice make two requests on one row possible. *)
(***************************************************************************)
EXTENDS Integers, FiniteSets, Functions

CONSTANTS
  Users,
  Shown,      \* users whose profile is in the feed, who can be rated
  Rows,       \* ids of ratings rows
  Sessions,
  Scores,     \* the scores that are given
  Unit,       \* a mean is kept in Unit'ths: a multiple of any number of ratings
  Withdrawals,  \* is WithdrawRatingUseCase in use?
  Aborts,     \* may a session fail or the process crash?
  NoRow, NoUser

ASSUME NullsAreNotIds == NoRow \notin Rows /\ NoUser \notin Users

ASSUME RowsAreFinite == IsFiniteSet(Rows)

ASSUME ShownAreUsers == Shown \subseteq Users

ASSUME ScoresAreScores == Scores \subseteq 0 .. 10

ASSUME UnitIsPositive == Unit \in Nat \ {0}

ASSUME SwitchesAreBoolean == Withdrawals \in BOOLEAN /\ Aborts \in BOOLEAN

VARIABLES
  rating,     \* committed ratings, by id
  summary,    \* committed profile_score_summaries, by rated user
  job         \* what each session is doing

vars == <<rating, summary, job>>

-----------------------------------------------------------------------------

RatingRow == [rater: Users, rated: Users, score: Scores]

SummaryRow == [avg: 0 .. 10 * Unit, count: 0 .. Cardinality(Rows)]

Job ==
  [op: {"idle", "rate", "withdraw"},
   pc: {"idle", "write", "stats", "load", "upsert", "commit"},
   rater: Users \cup {NoUser}, rated: Users \cup {NoUser},
   score: Scores \cup {0},
   row: Rows \cup {NoRow},                        \* the row it found or made
   old: Scores \cup {0},                          \* the score of the row it found
   write: {"none", "insert", "update", "delete"},  \* what it did to that row
   stats: SummaryRow,                             \* what it computed
   seen: {{}} \cup {{old} : old \in SummaryRow}]   \* the summary it loaded, if any

Nothing == [avg |-> 0, count |-> 0]

Request(op, pc, u, v, sc, id, old) ==
  [op |-> op, pc |-> pc, rater |-> u, rated |-> v, score |-> sc, row |-> id,
   old |-> old, write |-> "none", stats |-> Nothing, seen |-> {}]

Idle == Request("idle", "idle", NoUser, NoUser, 0, NoRow, 0)

Begin(s, request) == job[s] = Idle /\ job' = [job EXCEPT ![s] = request]

End(s) == job' = [job EXCEPT ![s] = Idle]

At(s, pc) == job[s].pc = pc

Fresh(id) == id \notin DOMAIN rating /\ \A s \in Sessions : job[s].row # id

\* Mutated: the query forgets who is rating.
RowsOfRated(u, v) == {id \in DOMAIN rating : rating[id].rated = v}

\* get_by_rater_and_rated
RowsOf(u, v) == {id \in DOMAIN rating : rating[id].rater = u /\ rating[id].rated = v}

SamePair(s, r) == job[r].rater = job[s].rater /\ job[r].rated = job[s].rated

\* The unique index makes an INSERT wait for an uncommitted INSERT or DELETE
\* of the same pair, and a row that is written stays locked to the end.
PairBusy(s) ==
  \E r \in Sessions \ {s} : SamePair(s, r) /\ job[r].write \in {"insert", "delete"}

RowLocked(s) ==
  \E r \in Sessions \ {s} : job[r].row = job[s].row /\ job[r].write # "none"

\* The primary key and the row lock of the summary do the same.
SummaryLocked(s) ==
  \E r \in Sessions \ {s} : At(r, "commit") /\ job[r].rated = job[s].rated

\* An UPDATE sets the columns that differ from the row as it was loaded, and
\* leaves the others as they are now.
Changed(old, new, now) == IF new = old THEN now ELSE new

\* What the session sees of the ratings: the committed ones and its own write.
\* A rating that is the score it was loaded with changes updated_at only: if
\* the UPDATE waited for another one, that one's score stays.
View(s) ==
  LET row(sc) == [rater |-> job[s].rater, rated |-> job[s].rated, score |-> sc]
  IN  CASE job[s].write = "insert" ->
             [id \in DOMAIN rating \cup {job[s].row} |->
                IF id = job[s].row THEN row(job[s].score) ELSE rating[id]]
        [] job[s].write = "update" ->
             [id \in DOMAIN rating |->
                IF id = job[s].row
                THEN row(Changed(job[s].old, job[s].score, rating[id].score))
                ELSE rating[id]]
        [] job[s].write = "delete" ->
             [id \in DOMAIN rating \ {job[s].row} |-> rating[id]]
        [] OTHER -> rating

ScoresOf(table, v) ==
  [id \in {i \in DOMAIN table : table[i].rated = v} |-> table[id].score]

Mean(scores) ==
  IF DOMAIN scores = {} THEN 0
  ELSE (Unit * SumFunction(scores)) \div Cardinality(DOMAIN scores)

\* compute_stats_for
Stats(table, v) ==
  [avg |-> Mean(ScoresOf(table, v)), count |-> Cardinality(DOMAIN ScoresOf(table, v))]

-----------------------------------------------------------------------------
(* RatingFulfillmentService: the row.                                      *)

\* CannotRateSelf changes nothing and is left out.  update() loads the row again
\* by its id: as the id is all that the first read is used for, both are one
\* step, at the time of the second; a row that is gone by then ends the request
\* with a ValueError and nothing done.
RateRead(s, u, v, sc) ==
  /\ u # v
  /\ \/ /\ RowsOf(u, v) = {}
        /\ Begin(s, Request("rate", "write", u, v, sc, NoRow, 0))
     \/ \E id \in RowsOf(u, v) :
          Begin(s, Request("rate", "write", u, v, sc, id, rating[id].score))
  /\ UNCHANGED <<rating, summary>>

\* RatingNotFound changes nothing.
WithdrawRead(s, u, v) ==
  /\ Withdrawals
  /\ \E id \in RowsOf(u, v) : Begin(s, Request("withdraw", "write", u, v, 0, id, 0))
  /\ UNCHANGED <<rating, summary>>

AtInsert(s) == At(s, "write") /\ job[s].op = "rate" /\ job[s].row = NoRow

\* Mutated: uq_ratings_rater_rated is missing.
NoRival(s) == TRUE

\* uq_ratings_rater_rated: only a pair that has no row is inserted.
PairIsFree(s) == RowsOf(job[s].rater, job[s].rated) = {}

Insert(s, id) ==
  /\ AtInsert(s)
  /\ ~PairBusy(s)
  /\ PairIsFree(s)
  /\ Fresh(id)
  /\ job' = [job EXCEPT ![s].pc = "stats", ![s].row = id, ![s].write = "insert"]
  /\ UNCHANGED <<rating, summary>>

\* IntegrityError, which nobody catches.
InsertConflict(s) ==
  /\ AtInsert(s)
  /\ ~PairBusy(s)
  /\ ~PairIsFree(s)
  /\ End(s)
  /\ UNCHANGED <<rating, summary>>

AtRow(s, op) ==
  /\ At(s, "write")
  /\ job[s].op = op
  /\ job[s].row # NoRow
  /\ ~RowLocked(s)

\* What update() sends: it locks the row, for updated_at always differs.  Which
\* score the row has then says View.
Update(s) ==
  /\ AtRow(s, "rate")
  /\ job[s].row \in DOMAIN rating
  /\ job' = [job EXCEPT ![s].pc = "stats", ![s].write = "update"]
  /\ UNCHANGED <<rating, summary>>

\* Mutated: update() ignores a row that is gone.
UpdateGoneIgnored(s) ==
  /\ AtRow(s, "rate")
  /\ job[s].row \notin DOMAIN rating
  /\ job' = [job EXCEPT ![s].pc = "stats"]
  /\ UNCHANGED <<rating, summary>>

\* The row was withdrawn since it was loaded: StaleDataError.
UpdateGone(s) ==
  /\ AtRow(s, "rate")
  /\ job[s].row \notin DOMAIN rating
  /\ End(s)
  /\ UNCHANGED <<rating, summary>>

\* delete() goes on if the row is gone.
Delete(s) ==
  /\ AtRow(s, "withdraw")
  /\ job' = [job EXCEPT ![s].pc = "stats",
                        ![s].write = IF job[s].row \in DOMAIN rating
                                     THEN "delete" ELSE "none"]
  /\ UNCHANGED <<rating, summary>>

-----------------------------------------------------------------------------
(* OnRatingGiven and OnRatingWithdrawn: _refresh_summary.                  *)

\* Mutated: the statistics do not contain the session's own write.
ComputeStatsBefore(s) ==
  /\ At(s, "stats")
  /\ job' = [job EXCEPT ![s].pc = "load",
                        ![s].stats = Stats(rating, job[s].rated)]
  /\ UNCHANGED <<rating, summary>>

ComputeStats(s) ==
  /\ At(s, "stats")
  /\ job' = [job EXCEPT ![s].pc = "load",
                        ![s].stats = Stats(View(s), job[s].rated)]
  /\ UNCHANGED <<rating, summary>>

\* The read of ProfileScoreSummaryRepository.upsert.
LoadSummary(s) ==
  /\ At(s, "load")
  /\ job' = [job EXCEPT ![s].pc = "upsert",
                        ![s].seen = IF job[s].rated \in DOMAIN summary
                                    THEN {summary[job[s].rated]} ELSE {}]
  /\ UNCHANGED <<rating, summary>>

\* Mutated: a session that finds no summary leaves it to the next one.
SkipSummary(s) ==
  /\ At(s, "upsert")
  /\ ~SummaryLocked(s)
  /\ job[s].seen = {}
  /\ rating' = View(s)
  /\ End(s)
  /\ UNCHANGED summary

InsertSummary(s) ==
  /\ At(s, "upsert")
  /\ ~SummaryLocked(s)
  /\ job[s].seen = {}
  /\ job[s].rated \notin DOMAIN summary
  /\ job' = [job EXCEPT ![s].pc = "commit"]
  /\ UNCHANGED <<rating, summary>>

\* Another session inserted the user's first summary: the rating is lost too.
InsertSummaryConflict(s) ==
  /\ At(s, "upsert")
  /\ ~SummaryLocked(s)
  /\ job[s].seen = {}
  /\ job[s].rated \in DOMAIN summary
  /\ End(s)
  /\ UNCHANGED <<rating, summary>>

UpdateSummary(s) ==
  /\ At(s, "upsert")
  /\ ~SummaryLocked(s)
  /\ job[s].seen # {}
  /\ job' = [job EXCEPT ![s].pc = "commit"]
  /\ UNCHANGED <<rating, summary>>

Upserted(s) ==
  IF job[s].seen = {} THEN job[s].stats
  ELSE LET old == CHOOSE row \in job[s].seen : TRUE
           new == job[s].stats
           now == summary[job[s].rated]
       IN  [avg   |-> Changed(old.avg, new.avg, now.avg),
            count |-> Changed(old.count, new.count, now.count)]

Commit(s) ==
  /\ At(s, "commit")
  /\ rating' = View(s)
  /\ summary' = [v \in DOMAIN summary \cup {job[s].rated} |->
                   IF v = job[s].rated THEN Upserted(s) ELSE summary[v]]
  /\ End(s)

\* A handler raises, the database fails, or the process dies.
Abort(s) ==
  /\ Aborts
  /\ job[s] # Idle
  /\ End(s)
  /\ UNCHANGED <<rating, summary>>

Rest == (\A s \in Sessions : job[s] = Idle) /\ UNCHANGED vars

-----------------------------------------------------------------------------

Init ==
  /\ rating = [id \in {} |-> id]
  /\ summary = [v \in {} |-> v]
  /\ job = [s \in Sessions |-> Idle]

Next ==
  \/ \E s \in Sessions :
       \/ \E u \in Users, v \in Shown, sc \in Scores : RateRead(s, u, v, sc)
       \/ \E u \in Users, v \in Shown : WithdrawRead(s, u, v)
       \/ \E id \in Rows : Insert(s, id)
       \/ InsertConflict(s)
       \/ Update(s)
       \/ UpdateGone(s)
       \/ Delete(s)
       \/ ComputeStats(s)
       \/ LoadSummary(s)
       \/ InsertSummary(s)
       \/ InsertSummaryConflict(s)
       \/ UpdateSummary(s)
       \/ Commit(s)
       \/ Abort(s)
  \/ Rest

Spec == Init /\ [][Next]_vars

-----------------------------------------------------------------------------
(* Properties.                                                             *)

\* Every table and every job has its type: a summary is a mean and a number
\* of rows, also when there are none.
TypeOK ==
  /\ DOMAIN rating \subseteq Rows /\ rating \in [DOMAIN rating -> RatingRow]
  /\ DOMAIN summary \subseteq Users /\ summary \in [DOMAIN summary -> SummaryRow]
  /\ job \in [Sessions -> Job]

\* "One (rater_id, rated_id) pair has at most one Rating", although nothing
\* is locked between looking for the row and inserting it.
OneRatingPerPair ==
  \A i, j \in DOMAIN rating :
    rating[i].rater = rating[j].rater /\ rating[i].rated = rating[j].rated => i = j

\* Whoever has a rating has a summary, without which GetProfileScoreUseCase
\* says that nobody has rated them: the handler of the event and the rating
\* commit together.
RatedHaveSummary ==
  \A id \in DOMAIN rating : rating[id].rated \in DOMAIN summary

\* RateUserUseCase is "idempotent on (rater, rated)": when it returns, the pair
\* has a rating, whatever others did to the row that was read, and it is the
\* given score.  Only a score that the pair already had when the row was loaded
\* can have been replaced, by the request that held the lock then.
RatedMeansStored ==
  [][\A s \in Sessions :
       Commit(s) /\ job[s].op = "rate" =>
         \E id \in DOMAIN rating' :
           /\ rating'[id].rater = job[s].rater
           /\ rating'[id].rated = job[s].rated
           /\ \/ rating'[id].score = job[s].score
              \/ job[s].row = id /\ job[s].write = "update" /\ job[s].old = job[s].score]_vars

\* What a session was asked for.
Asked(s) ==
  IF job[s] = Idle THEN {}
  ELSE {[rater |-> job[s].rater, rated |-> job[s].rated,
         score |-> IF job[s].op = "rate" THEN {job[s].score} ELSE {}]}

Promise ==
  INSTANCE Scoreboard WITH Clients <- Sessions,
                           board   <- {rating[id] : id \in DOMAIN rating},
                           asked   <- [s \in Sessions |-> Asked(s)]

\* However many sessions find, insert, update and delete rows by id, each
\* request changes the score of its own pair, to the score it asked for, in
\* one step, or nothing: Scoreboard.  Nothing is also what an accepted rating
\* does that was already the pair's when its row was loaded.
ImplementsScoreboard == Promise!Spec

\* ProfileScoreSummary is "derived from all Rating rows" of a user and
\* "upserted whenever any rating for this user changes".
SummaryExact ==
  \A v \in DOMAIN summary : summary[v] = Stats(rating, v)

=============================================================================
