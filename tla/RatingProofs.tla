----------------------------- MODULE RatingProofs -----------------------------
(***************************************************************************)
(* Proofs about Rating, for any number of users, ratings and sessions, any *)
(* scores, with and without withdrawals and failures.                      *)
(***************************************************************************)
EXTENDS RatingHistory, FiniteSetTheorems, TLAPS

(***************************************************************************)
(* The inductive invariant.  What the tables hold depends on what the      *)
(* sessions that have written, and not yet committed, know of them.        *)
(***************************************************************************)

Writes == {"none", "insert", "update", "delete"}

\* Where a session is when its row is written.
After == {"stats", "load", "upsert", "commit"}

\* A job is a record; nothing is said of what it computed.
IsJob(j) ==
  j = [op |-> j.op, pc |-> j.pc, rater |-> j.rater, rated |-> j.rated,
       score |-> j.score, row |-> j.row, old |-> j.old, write |-> j.write,
       stats |-> j.stats, seen |-> j.seen]

JobShape(s) ==
  /\ IsJob(job[s])
  /\ job[s].op \in {"idle", "rate", "withdraw"}
  /\ job[s].pc \in {"idle", "write"} \cup After
  /\ job[s].write \in Writes
  /\ job[s].row \in Rows \cup {NoRow}
  /\ job[s].op = "idle" <=> job[s].pc = "idle"
  /\ job[s].pc = "idle" => job[s] = Idle
  /\ job[s].write # "none" => job[s].pc \in After
  /\ job[s].pc \in After => job[s].row \in Rows
  /\ job[s].pc \in After /\ job[s].op = "rate" => job[s].write \in {"insert", "update"}

\* A session's row is of its pair, and what it wrote is still possible.
JobMatchesTable(s) ==
  /\ job[s].row \in DOMAIN rating =>
       /\ rating[job[s].row].rater = job[s].rater
       /\ rating[job[s].row].rated = job[s].rated
  /\ job[s].write = "insert" =>
       /\ job[s].row \notin DOMAIN rating
       /\ RowsOf(job[s].rater, job[s].rated) = {}
  /\ job[s].write \in {"update", "delete"} => job[s].row \in DOMAIN rating

\* The unique index and the row locks let one session at a time write a pair.
OneWriter(r, s) ==
  /\ SamePair(s, r) /\ job[s].write # "none" => job[r].write = "none"
  /\ job[s].write = "insert" => job[r].row # job[s].row

IInv ==
  /\ job = [s \in Sessions |-> job[s]]
  /\ rating = [id \in DOMAIN rating |-> rating[id]]
  /\ DOMAIN rating \subseteq Rows
  /\ \A s \in Sessions : JobShape(s) /\ JobMatchesTable(s)
  /\ \A r, s \in Sessions : r # s => OneWriter(r, s)
  /\ OneRatingPerPair
  /\ RatedHaveSummary

-----------------------------------------------------------------------------
(* Steps that leave the tables alone.                                      *)

LEMMA IdleShape ==
  /\ IsJob(Idle) /\ Idle.op = "idle" /\ Idle.pc = "idle"
  /\ Idle.row = NoRow /\ Idle.write = "none"
  BY DEF Idle, Request, IsJob

LEMMA InitKeeps == Init => IInv
<1>. SUFFICES ASSUME Init PROVE IInv
  OBVIOUS
<1>1. DOMAIN rating = {} /\ \A s \in Sessions : job[s] = Idle
  BY DEF Init
<1>2. \A s \in Sessions : JobShape(s) /\ JobMatchesTable(s)
  BY <1>1, IdleShape DEF JobShape, JobMatchesTable, After, Writes
<1>3. \A r, s \in Sessions : OneWriter(r, s)
  BY <1>1, IdleShape DEF OneWriter
<1>. QED
  BY <1>1, <1>2, <1>3 DEF Init, IInv, OneRatingPerPair, RatedHaveSummary

\* A session that ends without a commit releases what it held.
LEMMA EndKeeps ==
  ASSUME IInv, NEW s \in Sessions, End(s), UNCHANGED <<rating, summary>>
  PROVE  IInv'
<1>1. job' = [r \in Sessions |-> IF r = s THEN Idle ELSE job[r]]
  BY DEF IInv, End
<1>3. \A r \in Sessions : (JobShape(r) /\ JobMatchesTable(r))'
  BY <1>1, IdleShape, NullsAreNotIds DEF IInv, JobShape, JobMatchesTable, RowsOf, After, Writes
<1>4. \A q, r \in Sessions : q # r => OneWriter(q, r)'
  BY <1>1, IdleShape, NullsAreNotIds DEF IInv, OneWriter, SamePair, JobShape, Writes, After
<1>. QED
  BY <1>1, <1>3, <1>4 DEF IInv, OneRatingPerPair, RatedHaveSummary

\* A session that reads on keeps its row, its pair and its write.
GoesOn(s) ==
  /\ job' = [r \in Sessions |-> IF r = s THEN job'[s] ELSE job[r]]
  /\ IsJob(job'[s])
  /\ job[s].pc \in After /\ job'[s].pc \in After
  /\ job'[s].op = job[s].op /\ job'[s].score = job[s].score
  /\ job'[s].rater = job[s].rater /\ job'[s].rated = job[s].rated
  /\ job'[s].row = job[s].row /\ job'[s].old = job[s].old
  /\ job'[s].write = job[s].write

LEMMA ReadsOn ==
  ASSUME IInv, NEW s \in Sessions,
         ComputeStats(s) \/ LoadSummary(s) \/ InsertSummary(s) \/ UpdateSummary(s)
  PROVE  GoesOn(s)
<1>1. job = [r \in Sessions |-> job[r]] /\ IsJob(job[s])
  BY DEF IInv, JobShape
<1>2. DOMAIN job[s] =
        {"op", "pc", "rater", "rated", "score", "row", "old", "write", "stats", "seen"}
  BY <1>1 DEF IsJob
<1>3. ASSUME NEW pc \in After, job[s].pc \in After,
             job' = [job EXCEPT ![s] = [@ EXCEPT !.pc = pc]]
      PROVE  GoesOn(s)
  BY <1>1, <1>2, <1>3 DEF GoesOn, IsJob
<1>4. CASE ComputeStats(s)
  BY <1>1, <1>2, <1>4 DEF ComputeStats, At, GoesOn, IsJob, After
<1>5. CASE LoadSummary(s)
  BY <1>1, <1>2, <1>5 DEF LoadSummary, At, GoesOn, IsJob, After
<1>6. CASE InsertSummary(s) \/ UpdateSummary(s)
  BY <1>1, <1>3, <1>6 DEF InsertSummary, UpdateSummary, At, After
<1>. QED
  BY <1>4, <1>5, <1>6

LEMMA GoOnKeeps ==
  ASSUME IInv, NEW s \in Sessions, GoesOn(s), UNCHANGED <<rating, summary>>
  PROVE  IInv'
<1>1. \A r \in Sessions : (JobShape(r) /\ JobMatchesTable(r))'
  BY DEF IInv, GoesOn, JobShape, JobMatchesTable, RowsOf, After, Writes
<1>2. \A q, r \in Sessions : q # r => OneWriter(q, r)'
  BY DEF IInv, GoesOn, OneWriter, SamePair
<1>. QED
  BY <1>1, <1>2 DEF IInv, GoesOn, OneRatingPerPair, RatedHaveSummary

\* A request that found a committed row of its pair, or no row.
LEMMA BeginKeeps ==
  ASSUME IInv, NEW s \in Sessions, NEW op \in {"rate", "withdraw"},
         NEW u, NEW v, NEW sc, NEW old, NEW id \in RowsOf(u, v) \cup {NoRow},
         id \in Rows \cup {NoRow},
         Begin(s, Request(op, "write", u, v, sc, id, old)), UNCHANGED <<rating, summary>>
  PROVE  IInv'
<1>. DEFINE j == Request(op, "write", u, v, sc, id, old)
<1>1. job' = [r \in Sessions |-> IF r = s THEN j ELSE job[r]]
  BY DEF IInv, Begin
<1>2. /\ IsJob(j) /\ j.op = op /\ j.pc = "write" /\ j.rater = u /\ j.rated = v
      /\ j.row = id /\ j.write = "none"
  BY DEF Request, IsJob
<1>. HIDE DEF j
<1>3. \A r \in Sessions : (JobShape(r) /\ JobMatchesTable(r))'
  BY <1>1, <1>2, NullsAreNotIds DEF IInv, JobShape, JobMatchesTable, RowsOf, After, Writes
<1>4. \A q, r \in Sessions : q # r => OneWriter(q, r)'
  <2>1. \A r \in Sessions : job[r].write = "insert" => job[r].row # id
    BY NullsAreNotIds
       DEF IInv, JobShape, JobMatchesTable, RowsOf, Writes, After
  <2>. QED
    BY <1>1, <1>2, <2>1 DEF IInv, OneWriter, SamePair, JobShape, Writes
<1>. QED
  BY <1>1, <1>3, <1>4 DEF IInv, OneRatingPerPair, RatedHaveSummary

-----------------------------------------------------------------------------
(* Steps that write a row, uncommitted.                                    *)

\* What a step makes of its session's job when it writes.
Wrote(s, id, write) ==
  /\ job' = [r \in Sessions |-> IF r = s THEN job'[s] ELSE job[r]]
  /\ IsJob(job'[s])
  /\ job'[s].op = job[s].op /\ job'[s].pc = "stats"
  /\ job'[s].rater = job[s].rater /\ job'[s].rated = job[s].rated
  /\ job'[s].row = id /\ job'[s].write = write
  /\ UNCHANGED <<rating, summary>>

LEMMA ThreeFields ==
  ASSUME job = [s \in Sessions |-> job[s]], NEW s \in Sessions, NEW id, NEW write,
         job' = [job EXCEPT ![s].pc = "stats", ![s].row = id, ![s].write = write]
  PROVE  LET full == [job[s] EXCEPT !.pc = "stats", !.row = id, !.write = write]
         IN  /\ job' = [r \in Sessions |-> IF r = s THEN full ELSE job[r]]
             /\ job'[s] = full
  OBVIOUS

LEMMA WroteStep ==
  ASSUME IInv, NEW s \in Sessions, NEW id, NEW write,
         \/ job' = [job EXCEPT ![s].pc = "stats", ![s].row = id, ![s].write = write]
         \/ /\ job' = [job EXCEPT ![s].pc = "stats", ![s].write = write]
            /\ id = job[s].row,
         UNCHANGED <<rating, summary>>
  PROVE  Wrote(s, id, write)
<1>. DEFINE old == job[s]
            full == [old EXCEPT !.pc = "stats", !.row = id, !.write = write]
            part == [old EXCEPT !.pc = "stats", !.write = write]
            new == job'[s]
<1>1. /\ job' = [r \in Sessions |-> IF r = s THEN new ELSE job[r]]
      /\ \/ new = full
         \/ new = part /\ id = old.row
  <2>1. CASE job' = [job EXCEPT ![s].pc = "stats", ![s].row = id, ![s].write = write]
    BY <2>1, ThreeFields DEF IInv
  <2>2. CASE /\ job' = [job EXCEPT ![s].pc = "stats", ![s].write = write]
             /\ id = job[s].row
    BY <2>2 DEF IInv
  <2>. QED
    BY <2>1, <2>2
<1>2. IsJob(old)
  BY DEF IInv, JobShape
<1>. HIDE DEF old
<1>3. new = [op |-> old.op, pc |-> "stats", rater |-> old.rater, rated |-> old.rated,
             score |-> old.score, row |-> id, old |-> old.old, write |-> write,
             stats |-> old.stats, seen |-> old.seen]
  <2>1. DOMAIN old = {"op", "pc", "rater", "rated", "score", "row", "old", "write", "stats", "seen"}
    BY <1>2 DEF IsJob
  <2>. QED
    BY <1>1, <2>1
<1>. HIDE DEF new
<1>4. /\ IsJob(new) /\ new.op = old.op /\ new.pc = "stats"
      /\ new.rater = old.rater /\ new.rated = old.rated
      /\ new.row = id /\ new.write = write
  BY <1>3 DEF IsJob
<1>. QED
  BY <1>1, <1>4 DEF old, Wrote

\* Two sessions that have rows of one pair in the table have the same row.
LEMMA SameRow ==
  ASSUME IInv, NEW r \in Sessions, NEW s \in Sessions, SamePair(s, r),
         job[r].row \in DOMAIN rating, job[s].row \in DOMAIN rating
  PROVE  job[r].row = job[s].row
  BY DEF IInv, JobMatchesTable, SamePair, OneRatingPerPair

LEMMA InsertKeeps ==
  ASSUME IInv, NEW s \in Sessions, NEW id \in Rows, Insert(s, id)
  PROVE  IInv'
<1>1. Wrote(s, id, "insert")
  <2>1. job[s].row = NoRow /\ job[s].op = "rate"
    BY DEF Insert, AtInsert
  <2>. QED
    BY WroteStep DEF Insert
<1>2. \A r \in Sessions \ {s} : SamePair(s, r) => job[r].write = "none"
  <2>. SUFFICES ASSUME NEW r \in Sessions \ {s}, SamePair(s, r), job[r].write # "none"
                PROVE  FALSE
    OBVIOUS
  <2>1. job[r].write = "update"
    BY DEF Insert, PairBusy, IInv, JobShape, Writes
  <2>2. job[r].row \in RowsOf(job[s].rater, job[s].rated)
    BY <2>1 DEF IInv, JobMatchesTable, RowsOf, SamePair
  <2>. QED
    BY <2>2 DEF Insert, PairIsFree
<1>3. /\ id \notin DOMAIN rating
      /\ \A r \in Sessions : job[r].row # id
      /\ RowsOf(job[s].rater, job[s].rated) = {}
      /\ job[s].op = "rate"
  BY DEF Insert, Fresh, PairIsFree, AtInsert
<1>4. \A r \in Sessions : (JobShape(r) /\ JobMatchesTable(r))'
  BY <1>1, <1>3, NullsAreNotIds
     DEF IInv, Wrote, JobShape, JobMatchesTable, RowsOf, After, Writes
<1>5. \A q, r \in Sessions : q # r => OneWriter(q, r)'
  BY <1>1, <1>2, <1>3 DEF IInv, Wrote, OneWriter, SamePair
<1>. QED
  BY <1>1, <1>4, <1>5 DEF IInv, Wrote, OneRatingPerPair, RatedHaveSummary

\* A row in the table that nobody else has locked is written by nobody else.
LEMMA RowKeeps ==
  ASSUME IInv, NEW s \in Sessions, NEW write \in {"none", "update", "delete"},
         At(s, "write"), job[s].row \in Rows, ~RowLocked(s),
         job[s].op = "rate" => write = "update",
         write # "none" => job[s].row \in DOMAIN rating,
         Wrote(s, job[s].row, write)
  PROVE  IInv'
<1>1. \A r \in Sessions \ {s} :
        SamePair(s, r) /\ write # "none" => job[r].write = "none"
  <2>. SUFFICES ASSUME NEW r \in Sessions \ {s}, SamePair(s, r), write # "none",
                       job[r].write # "none"
                PROVE  FALSE
    OBVIOUS
  <2>1. job[s].row \in RowsOf(job[r].rater, job[r].rated)
    BY DEF IInv, JobMatchesTable, RowsOf, SamePair
  <2>2. job[r].row \in DOMAIN rating
    BY <2>1 DEF IInv, JobShape, JobMatchesTable, Writes
  <2>. QED
    BY <2>2, SameRow DEF RowLocked
<1>2. \A r \in Sessions : (JobShape(r) /\ JobMatchesTable(r))'
  BY DEF IInv, Wrote, At, JobShape, JobMatchesTable, RowsOf, After, Writes
<1>3. \A q, r \in Sessions : q # r => OneWriter(q, r)'
  BY <1>1 DEF IInv, Wrote, At, OneWriter, SamePair, JobShape
<1>. QED
  BY <1>2, <1>3 DEF IInv, Wrote, OneRatingPerPair, RatedHaveSummary

LEMMA UpdateKeeps ==
  ASSUME IInv, NEW s \in Sessions, Update(s)
  PROVE  IInv'
<1>1. job[s].row \in Rows
  BY DEF Update, AtRow, IInv, JobShape
<1>2. Wrote(s, job[s].row, "update")
  BY WroteStep DEF Update
<1>. QED
  BY <1>1, <1>2, RowKeeps DEF Update, AtRow

LEMMA DeleteKeeps ==
  ASSUME IInv, NEW s \in Sessions, Delete(s)
  PROVE  IInv'
<1>. DEFINE write == IF job[s].row \in DOMAIN rating THEN "delete" ELSE "none"
<1>1. job[s].row \in Rows
  BY DEF Delete, AtRow, IInv, JobShape
<1>2. Wrote(s, job[s].row, write)
  BY WroteStep DEF Delete
<1>. QED
  BY <1>1, <1>2, RowKeeps DEF Delete, AtRow

-----------------------------------------------------------------------------
(* The commit.                                                             *)

\* What a session is about to commit: the table, but for its own row.
LEMMA ViewIsOneRow ==
  ASSUME IInv, NEW s \in Sessions, job[s].pc \in After
  PROVE  LET view == View(s)  row == job[s].row
         IN  /\ view = [id \in DOMAIN view |-> view[id]]
             /\ DOMAIN view \ {row} = DOMAIN rating \ {row}
             /\ \A id \in DOMAIN rating \ {row} : view[id] = rating[id]
             /\ row \in DOMAIN view =>
                  view[row].rater = job[s].rater /\ view[row].rated = job[s].rated
             /\ row \in DOMAIN view \ DOMAIN rating => job[s].write = "insert"
             /\ row \in DOMAIN rating \ DOMAIN view => job[s].write = "delete"
             /\ job[s].op = "rate" =>
                  /\ row \in DOMAIN view
                  /\ \/ view[row].score = job[s].score
                     \/ /\ job[s].write = "update" /\ job[s].old = job[s].score
                        /\ row \in DOMAIN rating /\ view[row].score = rating[row].score
<1>1. job[s].write \in Writes /\ JobMatchesTable(s) /\ JobShape(s)
  BY DEF IInv, JobShape
<1>2. CASE job[s].write = "none"
  BY <1>1, <1>2 DEF View, IInv, JobShape, JobMatchesTable
<1>3. CASE job[s].write = "insert"
  BY <1>1, <1>3 DEF View, IInv, JobShape, JobMatchesTable
<1>4. CASE job[s].write = "update"
  BY <1>1, <1>4 DEF View, Changed, IInv, JobShape, JobMatchesTable
<1>5. CASE job[s].write = "delete"
  BY <1>1, <1>5 DEF View, IInv, JobShape, JobMatchesTable
<1>. QED
  BY <1>1, <1>2, <1>3, <1>4, <1>5 DEF Writes

LEMMA CommitKeeps ==
  ASSUME IInv, NEW s \in Sessions, Commit(s)
  PROVE  IInv'
<1>. DEFINE row == job[s].row
<1>1. /\ job' = [r \in Sessions |-> IF r = s THEN Idle ELSE job[r]]
      /\ rating' = View(s)
      /\ DOMAIN summary' = DOMAIN summary \cup {job[s].rated}
  BY DEF IInv, Commit, End
<1>2. /\ job[s].pc \in After /\ row \in Rows /\ JobMatchesTable(s)
  BY DEF IInv, Commit, At, JobShape, After
<1>3. /\ rating' = [id \in DOMAIN rating' |-> rating'[id]]
      /\ DOMAIN rating' \ {row} = DOMAIN rating \ {row}
      /\ \A id \in DOMAIN rating \ {row} : rating'[id] = rating[id]
      /\ row \in DOMAIN rating' =>
           rating'[row].rater = job[s].rater /\ rating'[row].rated = job[s].rated
      /\ row \in DOMAIN rating' \ DOMAIN rating => job[s].write = "insert"
      /\ row \in DOMAIN rating \ DOMAIN rating' => job[s].write = "delete"
  BY <1>1, <1>2, ViewIsOneRow
<1>. HIDE DEF row
<1>4. \A id \in DOMAIN rating :
        id # row => ~ /\ row \in DOMAIN rating'
                      /\ rating[id].rater = job[s].rater
                      /\ rating[id].rated = job[s].rated
  BY <1>2, <1>3 DEF row, IInv, OneRatingPerPair, JobMatchesTable, RowsOf
<1>5. OneRatingPerPair'
  <2>. SUFFICES ASSUME NEW i \in DOMAIN rating', NEW k \in DOMAIN rating',
                       rating'[i].rater = rating'[k].rater,
                       rating'[i].rated = rating'[k].rated
                PROVE  i = k
    BY DEF OneRatingPerPair
  <2>1. CASE i # row /\ k # row
    BY <1>3, <2>1 DEF IInv, OneRatingPerPair
  <2>2. CASE i = row \/ k = row
    BY <1>3, <1>4, <2>2
  <2>. QED
    BY <2>1, <2>2
<1>6. RatedHaveSummary'
  BY <1>1, <1>3 DEF IInv, RatedHaveSummary
<1>7. ASSUME NEW r \in Sessions PROVE (JobShape(r) /\ JobMatchesTable(r))'
  <2>1. CASE r = s
    BY <1>1, <1>2, <1>3, <2>1, IdleShape, NullsAreNotIds
       DEF row, IInv, JobShape, JobMatchesTable, After, Writes
  <2>2. CASE r # s
    <3>1. job'[r] = job[r] /\ JobShape(r) /\ JobMatchesTable(r)
          /\ OneWriter(r, s) /\ OneWriter(s, r)
      BY <1>1, <2>2 DEF IInv
    <3>2. job[s].write = "insert" => job[r].row # row
      BY <3>1 DEF row, OneWriter
    <3>3. JobShape(r)'
      BY <3>1 DEF JobShape
    <3>4. job[r].row \in DOMAIN rating' =>
            /\ job[r].row \in DOMAIN rating
            /\ rating'[job[r].row].rater = rating[job[r].row].rater
            /\ rating'[job[r].row].rated = rating[job[r].row].rated
      BY <1>2, <1>3, <3>2 DEF row, JobMatchesTable
    <3>5. job[r].write = "insert" =>
            /\ job[r].row \notin DOMAIN rating'
            /\ RowsOf(job[r].rater, job[r].rated)' = {}
      <4>. SUFFICES ASSUME job[r].write = "insert"
                    PROVE  /\ job[r].row \notin DOMAIN rating'
                           /\ RowsOf(job[r].rater, job[r].rated)' = {}
        OBVIOUS
      <4>1. job[r].row \notin DOMAIN rating'
        BY <3>1, <3>4 DEF JobMatchesTable
      <4>2. ~SamePair(r, s) \/ job[s].write = "none"
        BY <3>1 DEF OneWriter
      <4>3. ASSUME NEW id \in RowsOf(job[r].rater, job[r].rated)' PROVE FALSE
        <5>1. id \in DOMAIN rating' /\ rating'[id].rater = job[r].rater
              /\ rating'[id].rated = job[r].rated
          BY <3>1, <4>3 DEF RowsOf
        <5>2. CASE id # row
          BY <1>3, <3>1, <5>1, <5>2 DEF JobMatchesTable, RowsOf
        <5>3. CASE id = row
          <6>1. SamePair(r, s)
            BY <1>3, <5>1, <5>3 DEF SamePair
          <6>2. row \in DOMAIN rating
            BY <1>3, <4>2, <5>1, <5>3, <6>1
          <6>. QED
            BY <1>2, <3>1, <6>1, <6>2 DEF row, JobMatchesTable, SamePair, RowsOf
        <5>. QED
          BY <5>2, <5>3
      <4>. QED
        BY <3>1, <4>1, <4>3
    <3>6. job[r].write \in {"update", "delete"} => job[r].row \in DOMAIN rating'
      <4>. SUFFICES ASSUME job[r].write \in {"update", "delete"},
                           job[r].row \notin DOMAIN rating'
                    PROVE  FALSE
        OBVIOUS
      <4>1. job[r].row \in DOMAIN rating
        BY <3>1 DEF JobMatchesTable
      <4>2. job[r].row = row /\ job[s].write = "delete"
        BY <1>3, <4>1
      <4>3. SamePair(r, s)
        BY <1>2, <3>1, <4>1, <4>2 DEF row, JobMatchesTable, SamePair
      <4>. QED
        BY <3>1, <4>2, <4>3 DEF OneWriter
    <3>. QED
      BY <3>1, <3>3, <3>4, <3>5, <3>6 DEF JobMatchesTable
  <2>. QED
    BY <2>1, <2>2
<1>8. \A q, r \in Sessions : q # r => OneWriter(q, r)'
  BY <1>1, IdleShape, NullsAreNotIds DEF IInv, OneWriter, SamePair, JobShape, Writes, After
<1>9. DOMAIN rating' \subseteq Rows
  BY <1>2, <1>3 DEF row, IInv
<1>. QED
  BY <1>1, <1>3, <1>5, <1>6, <1>7, <1>8, <1>9 DEF IInv

-----------------------------------------------------------------------------
(* Every step.                                                             *)

LEMMA RowsAreRows ==
  ASSUME IInv, NEW u, NEW v, NEW id \in RowsOf(u, v)
  PROVE  id \in Rows
  BY DEF IInv, RowsOf

LEMMA NextKeeps == IInv /\ [Next]_vars => IInv'
<1>. SUFFICES ASSUME IInv, [Next]_vars PROVE IInv'
  OBVIOUS
<1>1. CASE UNCHANGED vars
  BY <1>1 DEF vars, IInv, JobShape, JobMatchesTable, OneWriter, SamePair, RowsOf,
              OneRatingPerPair, RatedHaveSummary
<1>2. ASSUME NEW s \in Sessions, NEW u \in Users, NEW v \in Shown, NEW sc \in Scores,
             RateRead(s, u, v, sc)
      PROVE  IInv'
  <2>1. CASE Begin(s, Request("rate", "write", u, v, sc, NoRow, 0))
    BY <1>2, <2>1, BeginKeeps DEF RateRead
  <2>2. CASE \E id \in RowsOf(u, v) :
              Begin(s, Request("rate", "write", u, v, sc, id, rating[id].score))
    BY <1>2, <2>2, BeginKeeps, RowsAreRows DEF RateRead
  <2>. QED
    BY <1>2, <2>1, <2>2 DEF RateRead
<1>3. ASSUME NEW s \in Sessions, NEW u \in Users, NEW v \in Shown, WithdrawRead(s, u, v)
      PROVE  IInv'
  BY <1>3, BeginKeeps, RowsAreRows DEF WithdrawRead
<1>4. ASSUME NEW s \in Sessions, NEW id \in Rows, Insert(s, id) PROVE IInv'
  BY <1>4, InsertKeeps
<1>5. ASSUME NEW s \in Sessions, InsertConflict(s) PROVE IInv'
  BY <1>5, EndKeeps DEF InsertConflict
<1>6. ASSUME NEW s \in Sessions, Update(s) PROVE IInv'
  BY <1>6, UpdateKeeps
<1>7. ASSUME NEW s \in Sessions, UpdateGone(s) PROVE IInv'
  BY <1>7, EndKeeps DEF UpdateGone
<1>8. ASSUME NEW s \in Sessions, Delete(s) PROVE IInv'
  BY <1>8, DeleteKeeps
<1>9. ASSUME NEW s \in Sessions, ComputeStats(s) PROVE IInv'
  BY <1>9, ReadsOn, GoOnKeeps DEF ComputeStats
<1>10. ASSUME NEW s \in Sessions, LoadSummary(s) PROVE IInv'
  BY <1>10, ReadsOn, GoOnKeeps DEF LoadSummary
<1>11. ASSUME NEW s \in Sessions, InsertSummary(s) PROVE IInv'
  BY <1>11, ReadsOn, GoOnKeeps DEF InsertSummary
<1>12. ASSUME NEW s \in Sessions, InsertSummaryConflict(s) PROVE IInv'
  BY <1>12, EndKeeps DEF InsertSummaryConflict
<1>13. ASSUME NEW s \in Sessions, UpdateSummary(s) PROVE IInv'
  BY <1>13, ReadsOn, GoOnKeeps DEF UpdateSummary
<1>14. ASSUME NEW s \in Sessions, Commit(s) PROVE IInv'
  BY <1>14, CommitKeeps
<1>15. ASSUME NEW s \in Sessions, Abort(s) PROVE IInv'
  BY <1>15, EndKeeps DEF Abort
<1>16. CASE Rest
  BY <1>1, <1>16 DEF Rest
<1>. QED
  BY <1>1, <1>2, <1>3, <1>4, <1>5, <1>6, <1>7, <1>8, <1>9, <1>10, <1>11, <1>12,
     <1>13, <1>14, <1>15, <1>16 DEF Next

\* The inductive invariant holds in every reachable state.
THEOREM Inductive == Spec => []IInv
  BY InitKeeps, NextKeeps, PTL DEF Spec

\* No interleaving of taps, withdrawals and failures leaves a pair with two
\* ratings.
THEOREM PairIsUnique == Spec => []OneRatingPerPair
<1>1. IInv => OneRatingPerPair
  BY DEF IInv
<1>. QED
  BY Inductive, <1>1, PTL

\* Nobody is rated and has no summary: a rating and the summary its event's
\* handler makes are committed together.
THEOREM RatedAreSummarized == Spec => []RatedHaveSummary
<1>1. IInv => RatedHaveSummary
  BY DEF IInv
<1>. QED
  BY Inductive, <1>1, PTL

\* Whoever rates has a rating when their request returns, whatever others did
\* to the row that was read, and it has the score they gave, unless the pair had
\* that score when the row was loaded: then another's may have been committed.
THEOREM AcceptedIsStored == Spec => RatedMeansStored
<1>1. ASSUME IInv, NEW s \in Sessions, Commit(s), job[s].op = "rate"
      PROVE  \E id \in DOMAIN rating' :
               /\ rating'[id].rater = job[s].rater
               /\ rating'[id].rated = job[s].rated
               /\ \/ rating'[id].score = job[s].score
                  \/ /\ job[s].row = id /\ job[s].write = "update"
                     /\ job[s].old = job[s].score
  <2>1. job[s].pc \in After /\ rating' = View(s)
    BY <1>1 DEF Commit, At, After
  <2>2. /\ job[s].row \in DOMAIN rating'
        /\ rating'[job[s].row].rater = job[s].rater
        /\ rating'[job[s].row].rated = job[s].rated
        /\ \/ rating'[job[s].row].score = job[s].score
           \/ job[s].write = "update" /\ job[s].old = job[s].score
    BY <1>1, <2>1, ViewIsOneRow
  <2>. QED
    BY <2>2
<1>2. IInv =>
        [\A s \in Sessions :
           Commit(s) /\ job[s].op = "rate" =>
             \E id \in DOMAIN rating' :
               /\ rating'[id].rater = job[s].rater
               /\ rating'[id].rated = job[s].rated
               /\ \/ rating'[id].score = job[s].score
                  \/ job[s].row = id /\ job[s].write = "update" /\ job[s].old = job[s].score]_vars
  BY <1>1
<1>. QED
  BY Inductive, <1>2, PTL DEF RatedMeansStored

-----------------------------------------------------------------------------
(***************************************************************************)
(* Refreshes of one summary.  If nobody else refreshes it meanwhile, what  *)
(* a session computed is still true, and what it loaded is still there,    *)
(* when it writes: the summary is exact after its commit, also if it was   *)
(* not before.  If two refresh it at once either can be stale.             *)
(***************************************************************************)

\* What the session computed and loaded is what is there.
NotStale(s) ==
  /\ Refreshing(s) => job[s].stats = Stats(View(s), job[s].rated)
  /\ job[s].pc \in {"upsert", "commit"} =>
       job[s].seen = IF job[s].rated \in DOMAIN summary
                     THEN {summary[job[s].rated]} ELSE {}

\* With m and t for met and torn: a summary that is not torn is exact, a
\* session that met nobody is not stale, and whoever meets somebody is in m.
RefreshInv(m, t) ==
  /\ \A v \in DOMAIN summary \ t : summary[v] = Stats(rating, v)
  /\ \A s \in Sessions \ m : NotStale(s)
  /\ \A s \in Sessions : Meets(s) => s \in m

\* What of a record from m and t to n and u the argument needs.
Noted(m, n) ==
  \A s \in Sessions : Meets(s)' \/ (s \in m /\ Refreshing(s)') => s \in n

Torn(m, t, u) ==
  /\ \A s \in Sessions \cap m : Commit(s) => job[s].rated \in u
  /\ \A v \in t \ u : \E s \in Sessions : Commit(s) /\ job[s].rated = v

\* A commit changes the scores of the user it is about, and of nobody else.
LEMMA OthersScores ==
  ASSUME IInv, NEW s \in Sessions, job[s].pc \in After, NEW v, v # job[s].rated
  PROVE  Stats(View(s), v) = Stats(rating, v)
<1>. DEFINE row == job[s].row  view == View(s)
            Of(table) == {id \in DOMAIN table : table[id].rated = v}
<1>1. /\ DOMAIN view \ {row} = DOMAIN rating \ {row}
      /\ \A id \in DOMAIN rating \ {row} : view[id] = rating[id]
      /\ row \in DOMAIN view => view[row].rated # v
  BY ViewIsOneRow
<1>2. row \in DOMAIN rating => rating[row].rated # v
  BY DEF IInv, JobMatchesTable
<1>. HIDE DEF row, view
<1>3. Of(view) = Of(rating) /\ \A id \in Of(rating) : view[id] = rating[id]
  BY <1>1, <1>2
<1>4. ScoresOf(view, v) = ScoresOf(rating, v)
  BY <1>3 DEF ScoresOf
<1>. QED
  BY <1>4 DEF Stats, view

\* The columns that the UPDATE writes make the row what was computed.
LEMMA UpsertsStats ==
  ASSUME NEW s \in Sessions, job[s].pc = "commit", NotStale(s)
  PROVE  Upserted(s) = Stats(View(s), job[s].rated)
<1>. DEFINE new == Stats(View(s), job[s].rated)
<1>1. job[s].stats = new /\ new = [avg |-> new.avg, count |-> new.count]
  BY DEF NotStale, Refreshing, Stats
<1>2. CASE job[s].rated \notin DOMAIN summary
  BY <1>1, <1>2 DEF NotStale, Upserted
<1>3. CASE job[s].rated \in DOMAIN summary
  <2>. DEFINE old == summary[job[s].rated]
  <2>1. job[s].seen = {old}
    BY <1>3 DEF NotStale
  <2>2. (CHOOSE r \in {old} : TRUE) = old
    OBVIOUS
  <2>3. Upserted(s) = [avg   |-> Changed(old.avg, new.avg, old.avg),
                       count |-> Changed(old.count, new.count, old.count)]
    BY <1>1, <2>1, <2>2 DEF Upserted
  <2>. QED
    BY <1>1, <2>3 DEF Changed
<1>. QED
  BY <1>2, <1>3

\* Nor does it change what another session, refreshing another user's summary,
\* sees of that user's scores.
LEMMA OthersView ==
  ASSUME IInv, NEW s \in Sessions, NEW r \in Sessions, r # s,
         job[s].pc \in After, job[r].pc \in After, job[r].rated # job[s].rated,
         rating' = View(s), job'[r] = job[r]
  PROVE  Stats(View(r), job[r].rated)' = Stats(View(r), job[r].rated)
<1>. DEFINE v == job[r].rated  mine == job[r].row  row == job[s].row
            old == View(r)  new == View(r)'
            Of(table) == {id \in DOMAIN table : table[id].rated = v}
<1>1. /\ DOMAIN rating' \ {row} = DOMAIN rating \ {row}
      /\ \A id \in DOMAIN rating \ {row} : rating'[id] = rating[id]
      /\ row \in DOMAIN rating' => rating'[row].rated # v
      /\ row \in DOMAIN rating' \ DOMAIN rating => job[s].write = "insert"
  BY ViewIsOneRow
<1>2. /\ JobMatchesTable(r) /\ JobMatchesTable(s) /\ job[r].write \in Writes
      /\ job[s].write = "insert" => mine # row
      /\ rating = [id \in DOMAIN rating |-> rating[id]]
      /\ rating' = [id \in DOMAIN rating' |-> rating'[id]]
  BY ViewIsOneRow DEF IInv, JobShape, OneWriter
<1>3. row \in DOMAIN rating => rating[row].rated # v
  BY <1>2 DEF JobMatchesTable
<1>4. mine = row => mine \notin DOMAIN rating /\ mine \notin DOMAIN rating'
  BY <1>1, <1>2, <1>3 DEF JobMatchesTable
<1>5. Of(new) = Of(old) /\ \A id \in Of(old) : new[id].score = old[id].score
  <2>1. CASE job[r].write = "none"
    <3>1. old = rating /\ new = rating' BY <2>1 DEF View
    <3>. QED BY <1>1, <1>3, <3>1
  <2>2. CASE job[r].write = "insert"
    <3>. DEFINE own == [rater |-> job[r].rater, rated |-> v, score |-> job[r].score]
    <3>1. /\ old = [id \in DOMAIN rating \cup {mine} |-> IF id = mine THEN own ELSE rating[id]]
          /\ new = [id \in DOMAIN rating' \cup {mine} |-> IF id = mine THEN own ELSE rating'[id]]
      BY <2>2 DEF View
    <3>. HIDE DEF old, new, own, mine, row, v
    <3>. QED BY <1>1, <1>3, <1>4, <3>1
  <2>3. CASE job[r].write = "update"
    <3>. DEFINE own(now) == [rater |-> job[r].rater, rated |-> v,
                             score |-> Changed(job[r].old, job[r].score, now)]
    <3>1. /\ old = [id \in DOMAIN rating |->
                      IF id = mine THEN own(rating[id].score) ELSE rating[id]]
          /\ new = [id \in DOMAIN rating' |->
                      IF id = mine THEN own(rating'[id].score) ELSE rating'[id]]
      BY <2>3 DEF View
    <3>2. mine \in DOMAIN rating /\ mine # row
      BY <1>2, <1>4, <2>3 DEF JobMatchesTable
    <3>. HIDE DEF old, new, own, mine, row, v
    <3>. QED BY <1>1, <1>3, <3>1, <3>2
  <2>4. CASE job[r].write = "delete"
    <3>1. /\ old = [id \in DOMAIN rating \ {mine} |-> rating[id]]
          /\ new = [id \in DOMAIN rating' \ {mine} |-> rating'[id]]
      BY <2>4 DEF View
    <3>. HIDE DEF old, new, mine, row, v
    <3>. QED BY <1>1, <1>3, <3>1
  <2>. QED BY <1>2, <2>1, <2>2, <2>3, <2>4 DEF Writes
<1>6. ScoresOf(new, v) = ScoresOf(old, v)
  <2>. HIDE DEF old, new, v
  <2>. QED BY <1>5 DEF ScoresOf
<1>. QED BY <1>6 DEF Stats

LEMMA RefreshCommit ==
  ASSUME NEW m, NEW t, NEW n, NEW u, Noted(m, n), Torn(m, t, u),
         IInv, RefreshInv(m, t), NEW s \in Sessions, Commit(s)
  PROVE  RefreshInv(n, u)'
<1>1. /\ job[s].pc = "commit" /\ rating' = View(s) /\ job'[s] = Idle
      /\ summary' = [v \in DOMAIN summary \cup {job[s].rated} |->
                       IF v = job[s].rated THEN Upserted(s) ELSE summary[v]]
      /\ \A r \in Sessions \ {s} : job'[r] = job[r]
  BY DEF IInv, Commit, At, End
<1>2. ASSUME NEW v \in DOMAIN summary' \ u PROVE summary'[v] = Stats(rating', v)
  <2>1. CASE v = job[s].rated
    <3>1. NotStale(s)
      BY <2>1, <1>2 DEF Torn, RefreshInv
    <3>. QED
      BY <1>1, <2>1, <3>1, UpsertsStats
  <2>2. CASE v # job[s].rated
    <3>1. v \notin t
      <4>1. \A r \in Sessions : Commit(r) => r = s
        BY <1>1, IdleShape DEF Commit, At, End
      <4>. QED
        BY <1>2, <2>2, <4>1 DEF Torn
    <3>. QED
      BY <1>1, <1>2, <2>2, <3>1, OthersScores DEF RefreshInv, After
  <2>. QED
    BY <2>1, <2>2
<1>3. NotStale(s)'
  BY <1>1, IdleShape DEF NotStale, Refreshing
<1>4. ASSUME NEW r \in Sessions \ n, r # s PROVE NotStale(r)'
  <2>1. CASE ~Refreshing(r)
    BY <1>1, <1>4, <2>1 DEF NotStale, Refreshing
  <2>2. CASE Refreshing(r)
    <3>1. r \notin m
      BY <1>1, <1>4, <2>2 DEF Noted, Refreshing
    <3>2. job[r].rated # job[s].rated
      BY <1>1, <1>4, <2>2, <3>1 DEF RefreshInv, Meets, Refreshing
    <3>3. Stats(View(r), job[r].rated)' = Stats(View(r), job[r].rated)
      BY <1>1, <1>4, <2>2, <3>2, OthersView DEF After, Refreshing
    <3>4. /\ job[r].rated \in DOMAIN summary' <=> job[r].rated \in DOMAIN summary
          /\ job[r].rated \in DOMAIN summary => summary'[job[r].rated] = summary[job[r].rated]
      BY <1>1, <3>2
    <3>5. NotStale(r) /\ job'[r] = job[r]
      BY <1>1, <1>4, <3>1 DEF RefreshInv
    <3>6. (Refreshing(r) => job[r].stats = Stats(View(r), job[r].rated))'
      BY <2>2, <3>3, <3>5 DEF NotStale
    <3>7. (job[r].pc \in {"upsert", "commit"} =>
             job[r].seen = IF job[r].rated \in DOMAIN summary
                           THEN {summary[job[r].rated]} ELSE {})'
      BY <3>4, <3>5 DEF NotStale
    <3>. QED
      BY <3>6, <3>7 DEF NotStale
  <2>. QED
    BY <2>1, <2>2
<1>5. (\A v \in DOMAIN summary \ u : summary[v] = Stats(rating, v))'
  BY <1>2 DEF Stats
<1>6. \A r \in Sessions \ n : NotStale(r)'
  BY <1>3, <1>4
<1>7. (\A r \in Sessions : Meets(r) => r \in n)'
  BY DEF Noted
<1>. QED
  BY <1>5, <1>6, <1>7 DEF RefreshInv

\* A step that touches no table leaves the other sessions' refreshes alone.
LEMMA OthersRefresh ==
  ASSUME NEW m, NEW t, NEW n, NEW u, Noted(m, n), t \subseteq u,
         RefreshInv(m, t), NEW s \in Sessions, UNCHANGED <<rating, summary>>,
         \A r \in Sessions \ {s} : job'[r] = job[r], s \notin n => NotStale(s)'
  PROVE  RefreshInv(n, u)'
<1>1. (\A v \in DOMAIN summary \ u : summary[v] = Stats(rating, v))'
  BY DEF RefreshInv
<1>2. ASSUME NEW r \in Sessions \ n, r # s PROVE NotStale(r)'
  <2>1. View(r)' = View(r) /\ job'[r] = job[r]
    BY <1>2 DEF View
  <2>2. Refreshing(r) => NotStale(r)
    BY <1>2, <2>1 DEF Noted, Refreshing, RefreshInv
  <2>. QED
    BY <2>1, <2>2 DEF NotStale, Refreshing
<1>3. (\A r \in Sessions : Meets(r) => r \in n)'
  BY DEF Noted
<1>. QED
  BY <1>1, <1>2, <1>3 DEF RefreshInv

\* A step before the statistics are computed, or one that gives up.
LEMMA RefreshQuiet ==
  ASSUME NEW m, NEW t, NEW n, NEW u, Noted(m, n), t \subseteq u,
         RefreshInv(m, t), NEW s \in Sessions, UNCHANGED <<rating, summary>>,
         \A r \in Sessions \ {s} : job'[r] = job[r],
         job'[s].pc \notin {"load", "upsert", "commit"}
  PROVE  RefreshInv(n, u)'
<1>1. NotStale(s)'
  BY DEF NotStale, Refreshing
<1>. QED
  BY <1>1, OthersRefresh

\* A handler's read leaves what the session is about to commit.
LEMMA RefreshRead ==
  ASSUME NEW m, NEW t, NEW n, NEW u, Noted(m, n), t \subseteq u,
         IInv, RefreshInv(m, t), NEW s \in Sessions,
         ComputeStats(s) \/ LoadSummary(s) \/ InsertSummary(s) \/ UpdateSummary(s)
  PROVE  RefreshInv(n, u)'
<1>1. GoesOn(s)
  BY ReadsOn
<1>2. UNCHANGED <<rating, summary>>
  BY DEF ComputeStats, LoadSummary, InsertSummary, UpdateSummary
<1>3. View(s)' = View(s) /\ job'[s].rated = job[s].rated
  BY <1>1, <1>2 DEF GoesOn, View
<1>4. /\ job = [r \in Sessions |-> job[r]]
      /\ DOMAIN job[s] =
           {"op", "pc", "rater", "rated", "score", "row", "old", "write", "stats", "seen"}
  BY DEF IInv, JobShape, IsJob
<1>5. ASSUME s \notin n PROVE NotStale(s)'
  <2>1. CASE ComputeStats(s)
    <3>1. job'[s].pc = "load" /\ job'[s].stats = Stats(View(s), job[s].rated)
      BY <1>4, <2>1 DEF ComputeStats
    <3>. QED
      BY <1>3, <3>1 DEF NotStale, Refreshing
  <2>2. CASE LoadSummary(s)
    <3>1. /\ job[s].pc = "load" /\ job'[s].stats = job[s].stats
          /\ job'[s].pc = "upsert"
          /\ job'[s].seen = IF job[s].rated \in DOMAIN summary
                            THEN {summary[job[s].rated]} ELSE {}
      BY <1>4, <2>2 DEF LoadSummary, At
    <3>2. NotStale(s)
      BY <1>5, <3>1 DEF RefreshInv, Noted, Refreshing
    <3>. QED
      BY <1>2, <1>3, <3>1, <3>2 DEF NotStale, Refreshing
  <2>3. CASE InsertSummary(s) \/ UpdateSummary(s)
    <3>1. /\ job[s].pc = "upsert" /\ job'[s].stats = job[s].stats
          /\ job'[s].pc = "commit"
          /\ job'[s].seen = job[s].seen
      BY <1>4, <2>3 DEF InsertSummary, UpdateSummary, At
    <3>2. NotStale(s)
      BY <1>5, <3>1 DEF RefreshInv, Noted, Refreshing
    <3>. QED
      BY <1>2, <1>3, <3>1, <3>2 DEF NotStale, Refreshing
  <2>. QED
    BY <2>1, <2>2, <2>3
<1>6. \A r \in Sessions \ {s} : job'[r] = job[r]
  BY <1>1 DEF GoesOn
<1>. QED
  BY <1>2, <1>5, <1>6, OthersRefresh

LEMMA RefreshKeeps ==
  ASSUME NEW m, NEW t, NEW n, NEW u, Noted(m, n), Torn(m, t, u),
         IInv, RefreshInv(m, t), [Next]_vars
  PROVE  RefreshInv(n, u)'
<1>1. CASE \E s \in Sessions : Commit(s)
  BY <1>1, RefreshCommit
<1>. SUFFICES ASSUME ~\E s \in Sessions : Commit(s)
              PROVE  RefreshInv(n, u)'
  BY <1>1
<1>t. t \subseteq u
  BY DEF Torn
<1>2. CASE UNCHANGED vars
  <2>1. \A s \in Sessions : View(s)' = View(s)
    BY <1>2 DEF vars, View
  <2>. QED
    BY <1>2, <1>t, <2>1 DEF vars, RefreshInv, NotStale, Refreshing, Noted, Meets
<1>3. ASSUME NEW s \in Sessions, End(s), UNCHANGED <<rating, summary>>
      PROVE  RefreshInv(n, u)'
  <2>1. job'[s].pc = "idle" /\ \A r \in Sessions \ {s} : job'[r] = job[r]
    BY <1>3, IdleShape DEF IInv, End
  <2>. QED
    BY <1>3, <1>t, <2>1, RefreshQuiet
<1>4. ASSUME NEW s \in Sessions, NEW op, NEW v, NEW w, NEW sc, NEW id, NEW old,
             Begin(s, Request(op, "write", v, w, sc, id, old)), UNCHANGED <<rating, summary>>
      PROVE  RefreshInv(n, u)'
  <2>1. job'[s].pc = "write" /\ \A r \in Sessions \ {s} : job'[r] = job[r]
    BY <1>4 DEF IInv, Begin, Request
  <2>. QED
    BY <1>4, <1>t, <2>1, RefreshQuiet
<1>5. ASSUME NEW s \in Sessions, NEW id, NEW write, Wrote(s, id, write)
      PROVE  RefreshInv(n, u)'
  <2>1. /\ job'[s].pc = "stats" /\ UNCHANGED <<rating, summary>>
        /\ \A r \in Sessions \ {s} : job'[r] = job[r]
    BY <1>5 DEF Wrote
  <2>. QED
    BY <1>t, <2>1, RefreshQuiet
<1>6. ASSUME NEW s \in Sessions, NEW v \in Users, NEW w \in Shown, NEW sc \in Scores,
             RateRead(s, v, w, sc)
      PROVE  RefreshInv(n, u)'
  BY <1>4, <1>6 DEF RateRead
<1>7. ASSUME NEW s \in Sessions, NEW v \in Users, NEW w \in Shown, WithdrawRead(s, v, w)
      PROVE  RefreshInv(n, u)'
  BY <1>4, <1>7 DEF WithdrawRead
<1>8. ASSUME NEW s \in Sessions, NEW id \in Rows, Insert(s, id)
      PROVE  RefreshInv(n, u)'
  BY <1>5, <1>8, WroteStep DEF Insert
<1>9. ASSUME NEW s \in Sessions, Update(s) \/ Delete(s) PROVE RefreshInv(n, u)'
  BY <1>5, <1>9, WroteStep DEF Update, Delete
<1>10. ASSUME NEW s \in Sessions,
              \/ InsertConflict(s) \/ UpdateGone(s)
              \/ InsertSummaryConflict(s) \/ Abort(s)
       PROVE  RefreshInv(n, u)'
  BY <1>3, <1>10 DEF InsertConflict, UpdateGone, InsertSummaryConflict, Abort
<1>11. ASSUME NEW s \in Sessions,
              ComputeStats(s) \/ LoadSummary(s) \/ InsertSummary(s) \/ UpdateSummary(s)
       PROVE  RefreshInv(n, u)'
  BY <1>11, <1>t, RefreshRead
<1>12. CASE Rest
  BY <1>2, <1>12 DEF Rest
<1>. QED
  BY <1>2, <1>6, <1>7, <1>8, <1>9, <1>10, <1>11, <1>12 DEF Next

LEMMA RefreshInit == Init => RefreshInv({}, {})
BY IdleShape DEF Init, RefreshInv, NotStale, Refreshing, Meets

\* A record of the past restrains nothing: what holds of Spec holds of it.
THEOREM HistoryIsRating == HistorySpec => Spec
<1>1. HistoryInit => Init
  BY DEF HistoryInit
<1>2. [HistoryNext]_<<vars, history>> => [Next]_vars
  BY DEF HistoryNext, vars
<1>. QED
  BY <1>1, <1>2, PTL DEF HistorySpec, Spec

\* A summary is the mean and the number of its user's ratings unless the last
\* committed refresh of that summary had met another one: whatever else
\* interleaves or fails, a lost update is made good by the next refresh that
\* is alone, and the summaries of other users never suffer.
THEOREM OverlapsOnlySpoil == HistorySpec => []OverlapsSpoilOnlyTheirs
<1>1. HistoryInit => RefreshInv(met, torn)
  BY RefreshInit DEF HistoryInit
<1>2. IInv /\ RefreshInv(met, torn) /\ [HistoryNext]_<<vars, history>>
        => RefreshInv(met, torn)'
  <2>. SUFFICES ASSUME IInv, RefreshInv(met, torn), [HistoryNext]_<<vars, history>>
                PROVE  RefreshInv(met, torn)'
    OBVIOUS
  <2>1. PICK m, t, n, u : m = met /\ t = torn /\ n = met' /\ u = torn'
    OBVIOUS
  <2>2. RefreshInv(m, t)
    BY <2>1 DEF RefreshInv
  <2>3. [Next]_vars
    BY DEF HistoryNext, vars
  <2>4. Noted(m, n) /\ Torn(m, t, u)
    <3>1. CASE HistoryNext
      BY <2>1, <3>1 DEF HistoryNext, Record, Noted, Torn
    <3>2. CASE UNCHANGED <<vars, history>>
      <4>1. Noted(m, n)
        BY <2>1, <2>2, <3>2 DEF vars, history, Noted, RefreshInv, Meets, Refreshing
      <4>2. \A s \in Sessions : ~Commit(s)
        BY <3>2, IdleShape DEF vars, Commit, End, At, IInv
      <4>. QED
        BY <2>1, <3>2, <4>1, <4>2 DEF history, Torn
    <3>. QED
      BY <3>1, <3>2
  <2>5. RefreshInv(n, u)'
    BY <2>2, <2>3, <2>4, RefreshKeeps
  <2>. QED
    BY <2>1, <2>5 DEF RefreshInv
<1>3. RefreshInv(met, torn) => OverlapsSpoilOnlyTheirs
  BY DEF RefreshInv, OverlapsSpoilOnlyTheirs
<1>. QED
  BY HistoryIsRating, Inductive, <1>1, <1>2, <1>3, PTL DEF HistorySpec

\* No two sessions are between the statistics of one user and their commit at
\* once.  They may look for their rows and write them at once, and refresh
\* different summaries.
RefreshesApart == \A s \in Sessions : ~Meets(s)

\* In particular, while no two refreshes of one user's summary overlap, every
\* summary is always exact: the refresh is all that would have to be made
\* exclusive, and nothing in the code makes it so.
THEOREM ExactWhenApart == Spec /\ []RefreshesApart => []SummaryExact
<1>1. IInv /\ RefreshesApart' /\ RefreshInv({}, {}) /\ [Next]_vars => RefreshInv({}, {})'
  <2>. SUFFICES ASSUME IInv, RefreshesApart', RefreshInv({}, {}), [Next]_vars
                PROVE  RefreshInv({}, {})'
    OBVIOUS
  <2>1. Noted({}, {}) /\ Torn({}, {}, {})
    BY DEF Noted, Torn, RefreshesApart
  <2>. QED
    BY <2>1, RefreshKeeps
<1>2. RefreshInv({}, {}) => SummaryExact
  BY DEF RefreshInv, SummaryExact
<1>. QED
  BY Inductive, RefreshInit, <1>1, <1>2, PTL DEF Spec

\* And so when requests are served one at a time.
THEOREM ExactWhenSerial ==
  ASSUME \A r, s \in Sessions : r = s
  PROVE  Spec => []SummaryExact
<1>1. RefreshesApart
  BY DEF RefreshesApart, Meets
<1>. QED
  BY <1>1, ExactWhenApart, PTL

-----------------------------------------------------------------------------
(***************************************************************************)
(* The type of the tables and jobs.  That a mean is a mean of scores rests *)
(* on what SumFunction computes: a fold over the rated user's rows, about  *)
(* which the induction is made on a set of numbers, because an operator    *)
(* cannot be given to the library's induction theorems.                    *)
(***************************************************************************)

\* Induction on the natural numbers, for a set instead of a predicate.
LEMMA NaturalNumbers ==
  ASSUME NEW T, 0 \in T, \A n \in Nat : n \in T => n + 1 \in T
  PROVE  Nat \subseteq T
<1>. SUFFICES ASSUME Nat \ T # {} PROVE FALSE
  OBVIOUS
<1>. DEFINE below == OpToRel(<, Nat)
<1>1. \A m, n \in Nat : m < n => <<m, n>> \in below
  BY DEF OpToRel
<1>2. IsWellFoundedOn(below, Nat)
  BY NatLessThanWellFounded
<1>. HIDE DEF below
<1>3. PICK n \in Nat \ T : \A m \in Nat \ T : <<m, n>> \notin below
  BY <1>2, WFMin
<1>4. n # 0 /\ n - 1 \in Nat /\ n - 1 < n
  BY <1>3
<1>5. n - 1 \in T
  BY <1>1, <1>3, <1>4
<1>6. (n - 1) + 1 \in T
  BY <1>4, <1>5
<1>. QED
  BY <1>3, <1>6

Any(s) == CHOOSE x \in s : TRUE

\* The equation that SumFunction solves, on some sets of arguments.
SumsUp(g, f, sets) ==
  g = [t \in sets |-> IF t = {} THEN 0 ELSE f[Any(t)] + g[t \ {Any(t)}]]

UpTo(f, n) == {t \in SUBSET DOMAIN f : Cardinality(t) <= n}

\* A subset of the arguments, and the subset that is left of it.
LEMMA SubsetCounts ==
  ASSUME NEW f, IsFiniteSet(DOMAIN f), NEW t \in SUBSET DOMAIN f
  PROVE  /\ IsFiniteSet(t) /\ Cardinality(t) \in Nat
         /\ Cardinality(t) = 0 <=> t = {}
         /\ t # {} => /\ Any(t) \in t
                      /\ t \ {Any(t)} \in SUBSET DOMAIN f
                      /\ Cardinality(t \ {Any(t)}) = Cardinality(t) - 1
<1>1. IsFiniteSet(t)
  BY FS_Subset
<1>2. t # {} => Any(t) \in t
  BY DEF Any
<1>. QED
  BY <1>1, <1>2, FS_CardinalityType, FS_EmptySet, FS_RemoveElement

\* It has a solution: one for the larger sets comes from one for the smaller.
LEMMA SumsExist ==
  ASSUME NEW f, IsFiniteSet(DOMAIN f), NEW n \in Nat
  PROVE  \E g : SumsUp(g, f, UpTo(f, n))
<1>. DEFINE good == {m \in Nat : \E g : SumsUp(g, f, UpTo(f, m))}
<1>2. 0 \in good
  <2>. DEFINE g == [t \in UpTo(f, 0) |-> 0]
  <2>1. ASSUME NEW t \in UpTo(f, 0) PROVE t = {}
    <3>1. t \in SUBSET DOMAIN f /\ Cardinality(t) <= 0
      BY DEF UpTo
    <3>2. Cardinality(t) \in Nat /\ (Cardinality(t) = 0 <=> t = {})
      BY <3>1, SubsetCounts
    <3>. QED
      BY <3>1, <3>2
  <2>2. SumsUp(g, f, UpTo(f, 0))
    BY <2>1 DEF SumsUp
  <2>. QED
    BY <2>2
<1>3. ASSUME NEW m \in good PROVE m + 1 \in good
  <2>1. PICK g : SumsUp(g, f, UpTo(f, m))
    OBVIOUS
  <2>. DEFINE h == [t \in UpTo(f, m + 1) |->
                      IF t = {} THEN 0 ELSE f[Any(t)] + g[t \ {Any(t)}]]
  <2>2. \A t \in UpTo(f, m) : h[t] = g[t]
    <3>1. ASSUME NEW t \in UpTo(f, m) PROVE t \in UpTo(f, m + 1)
      <4>1. t \in SUBSET DOMAIN f /\ Cardinality(t) <= m
        BY DEF UpTo
      <4>2. Cardinality(t) \in Nat
        BY <4>1, SubsetCounts
      <4>. QED
        BY <4>1, <4>2 DEF UpTo
    <3>. QED
      BY <2>1, <3>1 DEF SumsUp
  <2>3. ASSUME NEW t \in UpTo(f, m + 1), t # {} PROVE t \ {Any(t)} \in UpTo(f, m)
    <3>1. t \in SUBSET DOMAIN f /\ Cardinality(t) <= m + 1
      BY DEF UpTo
    <3>2. /\ t \ {Any(t)} \in SUBSET DOMAIN f
          /\ Cardinality(t \ {Any(t)}) <= m
      BY <2>3, <3>1, SubsetCounts
    <3>. QED
      BY <3>2 DEF UpTo
  <2>4. SumsUp(h, f, UpTo(f, m + 1))
    BY <2>2, <2>3 DEF SumsUp
  <2>. QED
    BY <2>4
<1>. QED
  BY <1>2, <1>3, NaturalNumbers

LEMMA SumFunctionSumsUp ==
  ASSUME NEW f, IsFiniteSet(DOMAIN f)
  PROVE  \E g : SumsUp(g, f, SUBSET DOMAIN f) /\ SumFunction(f) = g[DOMAIN f]
<1>. DEFINE g == CHOOSE g : SumsUp(g, f, SUBSET DOMAIN f)
<1>1. PICK n \in Nat : UpTo(f, n) = SUBSET DOMAIN f
  <2>1. \A t \in SUBSET DOMAIN f : Cardinality(t) <= Cardinality(DOMAIN f)
    BY FS_Subset
  <2>2. Cardinality(DOMAIN f) \in Nat
    BY FS_CardinalityType
  <2>3. UpTo(f, Cardinality(DOMAIN f)) = SUBSET DOMAIN f
    BY <2>1 DEF UpTo
  <2>. QED
    BY <2>2, <2>3
<1>2. SumsUp(g, f, SUBSET DOMAIN f)
  <2>1. \E h : SumsUp(h, f, UpTo(f, n))
    BY SumsExist
  <2>. QED
    BY <1>1, <2>1
<1>3. SumFunction(f) = g[DOMAIN f]
  BY DEF SumFunction, SumFunctionOnSet, FoldFunctionOnSet, MapThenFoldSet, SumsUp, Any
<1>. QED
  BY <1>2, <1>3

\* A sum of scores lies between 0 and 10 for each of them.
LEMMA SumOfScores ==
  ASSUME NEW f, IsFiniteSet(DOMAIN f), \A i \in DOMAIN f : f[i] \in 0 .. 10
  PROVE  SumFunction(f) \in 0 .. 10 * Cardinality(DOMAIN f)
<1>1. PICK g : SumsUp(g, f, SUBSET DOMAIN f) /\ SumFunction(f) = g[DOMAIN f]
  BY SumFunctionSumsUp
<1>. DEFINE good == {n \in Nat : \A t \in SUBSET DOMAIN f :
                       Cardinality(t) = n => g[t] \in 0 .. 10 * n}
<1>2. 0 \in good
  <2>. SUFFICES ASSUME NEW t \in SUBSET DOMAIN f, Cardinality(t) = 0 PROVE g[t] = 0
    OBVIOUS
  <2>1. t = {}
    BY SubsetCounts
  <2>. QED
    BY <1>1, <2>1 DEF SumsUp
<1>3. ASSUME NEW n \in good PROVE n + 1 \in good
  <2>. SUFFICES ASSUME NEW t \in SUBSET DOMAIN f, Cardinality(t) = n + 1
                PROVE  g[t] \in 0 .. 10 * (n + 1)
    OBVIOUS
  <2>1. t # {} /\ Any(t) \in DOMAIN f
        /\ t \ {Any(t)} \in SUBSET DOMAIN f /\ Cardinality(t \ {Any(t)}) = n
    BY SubsetCounts
  <2>2. g[t] = f[Any(t)] + g[t \ {Any(t)}]
    BY <1>1, <2>1 DEF SumsUp
  <2>3. g[t \ {Any(t)}] \in 0 .. 10 * n
    BY <2>1
  <2>. QED
    BY <2>1, <2>2, <2>3
<1>4. Cardinality(DOMAIN f) \in good
  BY <1>2, <1>3, NaturalNumbers, FS_CardinalityType
<1>. QED
  BY <1>1, <1>4

LEMMA Quotient ==
  ASSUME NEW total \in Nat, NEW n \in Nat \ {0}, NEW top \in Nat, total <= top * n
  PROVE  total \div n \in 0 .. top
<1>. DEFINE q == total \div n  rest == total % n
<1>1. q \in Int /\ rest \in 0 .. (n - 1) /\ total = n * q + rest
  OBVIOUS
<1>. HIDE DEF q, rest
<1>2. n * q <= top * n /\ n * q > -n
  BY <1>1
<1>3. ASSUME q >= top + 1 PROVE FALSE
  <2>1. n * q >= n * (top + 1) /\ n * (top + 1) = top * n + n
    BY <1>1, <1>3
  <2>. QED
    BY <1>1, <1>2, <2>1
<1>4. ASSUME q <= -1 PROVE FALSE
  <2>1. n * q <= n * (-1)
    BY <1>1, <1>4
  <2>. QED
    BY <1>1, <1>2, <2>1
<1>5. q \in 0 .. top
  BY <1>1, <1>3, <1>4
<1>. QED
  BY <1>5 DEF q

\* The mean of scores is between 0 and 10.
LEMMA MeanOfScores ==
  ASSUME NEW f, IsFiniteSet(DOMAIN f), \A i \in DOMAIN f : f[i] \in 0 .. 10
  PROVE  Mean(f) \in 0 .. 10 * Unit
<1>. DEFINE n == Cardinality(DOMAIN f)
            sum == SumFunction(f)
            mean == (Unit * sum) \div n
<1>1. n \in Nat /\ (n = 0 <=> DOMAIN f = {})
  BY FS_CardinalityType, FS_EmptySet
<1>2. sum \in 0 .. 10 * n
  BY SumOfScores
<1>3. Unit \in Nat \ {0}
  BY UnitIsPositive
<1>4. Mean(f) = IF n = 0 THEN 0 ELSE mean
  BY <1>1 DEF Mean
<1>. HIDE DEF n, sum
<1>5. CASE n = 0
  BY <1>3, <1>4, <1>5
<1>6. CASE n # 0
  <2>1. PICK total \in Nat : total = Unit * sum
    BY <1>1, <1>2, <1>3
  <2>2. total <= (10 * Unit) * n
    <3>1. Unit * sum <= Unit * (10 * n)
      BY <1>1, <1>2, <1>3
    <3>. QED
      BY <1>1, <1>3, <2>1, <3>1
  <2>3. PICK top \in Nat : top = 10 * Unit
    BY <1>3
  <2>4. total \div n \in 0 .. top
    <3>1. n \in Nat \ {0} /\ total <= top * n
      BY <1>1, <1>6, <2>2, <2>3
    <3>. QED
      BY <3>1, Quotient
  <2>. QED
    BY <1>4, <1>6, <2>1, <2>3, <2>4
<1>. QED
  BY <1>5, <1>6

\* The statistics of a table of ratings are a summary.
LEMMA StatsAreSummary ==
  ASSUME NEW table, DOMAIN table \subseteq Rows,
         \A id \in DOMAIN table : table[id].score \in Scores, NEW v
  PROVE  Stats(table, v) \in SummaryRow
<1>. DEFINE f == ScoresOf(table, v)
<1>1. /\ DOMAIN f \subseteq Rows
      /\ \A id \in DOMAIN f : f[id] \in 0 .. 10
  BY ScoresAreScores DEF ScoresOf
<1>2. IsFiniteSet(DOMAIN f) /\ Cardinality(DOMAIN f) <= Cardinality(Rows)
  BY <1>1, RowsAreFinite, FS_Subset
<1>3. Cardinality(DOMAIN f) \in Nat /\ Cardinality(Rows) \in Nat
  BY <1>2, RowsAreFinite, FS_CardinalityType
<1>4. Mean(f) \in 0 .. 10 * Unit
  BY <1>1, <1>2, MeanOfScores
<1>. QED
  BY <1>2, <1>3, <1>4 DEF Stats, SummaryRow

\* What a session was asked for, and what it knows of its summary.
JobFilled(s) ==
  /\ job[s].op # "idle" => job[s].rater \in Users /\ job[s].rated \in Users
  /\ job[s].op = "rate" => job[s].score \in Scores
  /\ job[s].write \in {"insert", "update"} => job[s].op = "rate"
  /\ job[s].seen # {} => job[s].rated \in DOMAIN summary

TypeInv == TypeOK /\ \A s \in Sessions : JobFilled(s)

\* What a session sees is a table of ratings.
LEMMA ViewIsTable ==
  ASSUME IInv, TypeInv, NEW s \in Sessions
  PROVE  /\ DOMAIN View(s) \subseteq Rows
         /\ View(s) \in [DOMAIN View(s) -> RatingRow]
<1>. DEFINE row(sc) == [rater |-> job[s].rater, rated |-> job[s].rated, score |-> sc]
<1>1. /\ JobFilled(s) /\ JobShape(s) /\ DOMAIN rating \subseteq Rows
      /\ rating \in [DOMAIN rating -> RatingRow]
  BY DEF TypeInv, TypeOK, IInv
<1>2. CASE job[s].write \in {"insert", "update"}
  <2>1. job[s].score \in Scores /\ job[s].row \in Rows
    BY <1>1, <1>2 DEF JobFilled, JobShape
  <2>2. \A sc \in Scores : row(sc) \in RatingRow
    BY <1>1, <1>2 DEF JobFilled, JobShape, RatingRow
  <2>. HIDE DEF row
  <2>3. PICK now \in [DOMAIN rating -> Scores] :
          \/ View(s) = [id \in DOMAIN rating \cup {job[s].row} |->
                          IF id = job[s].row THEN row(job[s].score) ELSE rating[id]]
          \/ View(s) = [id \in DOMAIN rating |->
                          IF id = job[s].row THEN row(now[id]) ELSE rating[id]]
    <3>. DEFINE now == [id \in DOMAIN rating |->
                          Changed(job[s].old, job[s].score, rating[id].score)]
    <3>1. now \in [DOMAIN rating -> Scores]
      BY <1>1, <2>1 DEF Changed, RatingRow
    <3>. QED
      BY <1>2, <3>1 DEF View, row
  <2>. QED
    BY <1>1, <2>1, <2>2, <2>3
<1>3. CASE job[s].write = "delete"
  BY <1>1, <1>3 DEF View
<1>4. CASE job[s].write = "none"
  BY <1>1, <1>4 DEF View
<1>. QED
  BY <1>1, <1>2, <1>3, <1>4 DEF JobShape, Writes

LEMMA IdleIsJob == Idle \in Job
<1>1. Cardinality(Rows) \in Nat /\ 10 * Unit \in Nat
  BY RowsAreFinite, FS_CardinalityType, UnitIsPositive
<1>. QED
  BY <1>1 DEF Idle, Request, Nothing, Job, SummaryRow

LEMMA TypeInit == Init => TypeInv
<1>. SUFFICES ASSUME Init PROVE TypeInv
  OBVIOUS
<1>1. TypeOK
  BY IdleIsJob DEF Init, TypeOK
<1>2. \A s \in Sessions : JobFilled(s)
  BY DEF Init, JobFilled, Idle, Request
<1>. QED
  BY <1>1, <1>2 DEF TypeInv

\* A session takes a step, and the tables stay.
LEMMA TypeStep ==
  ASSUME TypeInv, NEW s \in Sessions, UNCHANGED <<rating, summary>>,
         job' = [job EXCEPT ![s] = job'[s]], job'[s] \in Job, JobFilled(s)'
  PROVE  TypeInv'
<1>1. TypeOK'
  BY DEF TypeInv, TypeOK
<1>2. \A r \in Sessions : JobFilled(r)'
  BY DEF TypeInv, TypeOK, JobFilled
<1>. QED
  BY <1>1, <1>2 DEF TypeInv

LEMMA TypeEnd ==
  ASSUME TypeInv, NEW s \in Sessions, End(s), UNCHANGED <<rating, summary>>
  PROVE  TypeInv'
<1>1. job'[s] = Idle /\ job' = [job EXCEPT ![s] = job'[s]]
  BY DEF TypeInv, TypeOK, End
<1>2. JobFilled(s)'
  BY <1>1 DEF JobFilled, Idle, Request
<1>. QED
  BY <1>1, <1>2, IdleIsJob, TypeStep

LEMMA TypeBegin ==
  ASSUME TypeInv, NEW s \in Sessions, UNCHANGED <<rating, summary>>,
         NEW op \in {"rate", "withdraw"}, NEW u \in Users, NEW v \in Users,
         NEW sc \in Scores \cup {0}, NEW id \in Rows \cup {NoRow},
         NEW old \in Scores \cup {0},
         op = "rate" => sc \in Scores,
         Begin(s, Request(op, "write", u, v, sc, id, old))
  PROVE  TypeInv'
<1>. DEFINE new == Request(op, "write", u, v, sc, id, old)
<1>1. job'[s] = new /\ job' = [job EXCEPT ![s] = job'[s]]
  BY DEF TypeInv, TypeOK, Begin
<1>2. Nothing \in SummaryRow
  BY IdleIsJob DEF Idle, Request, Job
<1>3. new \in Job
  BY <1>2 DEF Request, Job
<1>4. JobFilled(s)'
  BY <1>1 DEF JobFilled, Request
<1>. QED
  BY <1>1, <1>3, <1>4, TypeStep

\* The statements between the first read and the commit.
LEMMA TypeGoesOn ==
  ASSUME IInv, TypeInv, NEW s \in Sessions, UNCHANGED <<rating, summary>>,
         \/ \E id \in Rows : Insert(s, id)
         \/ Update(s) \/ Delete(s) \/ ComputeStats(s) \/ LoadSummary(s)
         \/ InsertSummary(s) \/ UpdateSummary(s)
  PROVE  TypeInv'
<1>1. job[s] \in Job /\ JobFilled(s) /\ JobShape(s) /\ job \in [Sessions -> Job]
  BY DEF TypeInv, TypeOK, IInv
<1>2. CASE \E id \in Rows : Insert(s, id)
  <2>1. PICK id \in Rows :
          /\ job[s].op = "rate"
          /\ job' = [job EXCEPT ![s].pc = "stats", ![s].row = id, ![s].write = "insert"]
    BY <1>2 DEF Insert, AtInsert
  <2>2. job' = [job EXCEPT ![s] = job'[s]] /\ job'[s] \in Job
    BY <1>1, <2>1 DEF Job
  <2>3. JobFilled(s)'
    BY <1>1, <2>1 DEF JobFilled, Job
  <2>. QED
    BY <2>2, <2>3, TypeStep
<1>3. CASE Update(s) \/ Delete(s)
  <2>1. PICK write \in {"update", "delete", "none"} :
          /\ write = "update" => job[s].op = "rate"
          /\ job' = [job EXCEPT ![s].pc = "stats", ![s].write = write]
    BY <1>3 DEF Update, Delete, AtRow
  <2>2. job' = [job EXCEPT ![s] = job'[s]] /\ job'[s] \in Job
    BY <1>1, <2>1 DEF Job
  <2>3. JobFilled(s)'
    BY <1>1, <2>1 DEF JobFilled, Job
  <2>. QED
    BY <2>2, <2>3, TypeStep
<1>4. CASE ComputeStats(s)
  <2>1. PICK stats \in SummaryRow :
          job' = [job EXCEPT ![s].pc = "load", ![s].stats = stats]
    <3>1. /\ DOMAIN View(s) \subseteq Rows
          /\ \A id \in DOMAIN View(s) : View(s)[id] \in RatingRow
      BY ViewIsTable
    <3>2. Stats(View(s), job[s].rated) \in SummaryRow
      BY <3>1, StatsAreSummary DEF RatingRow
    <3>. QED
      BY <1>4, <3>2 DEF ComputeStats
  <2>2. job' = [job EXCEPT ![s] = job'[s]] /\ job'[s] \in Job
    BY <1>1, <2>1 DEF Job
  <2>3. JobFilled(s)'
    BY <1>1, <2>1 DEF JobFilled, Job
  <2>. QED
    BY <2>2, <2>3, TypeStep
<1>5. CASE LoadSummary(s)
  <2>1. PICK seen \in {{}} \cup {{old} : old \in SummaryRow} :
          /\ seen # {} => job[s].rated \in DOMAIN summary
          /\ job' = [job EXCEPT ![s].pc = "upsert", ![s].seen = seen]
    BY <1>5 DEF LoadSummary, TypeInv, TypeOK
  <2>2. job' = [job EXCEPT ![s] = job'[s]] /\ job'[s] \in Job
    BY <1>1, <2>1 DEF Job
  <2>3. JobFilled(s)'
    BY <1>1, <2>1 DEF JobFilled, Job
  <2>. QED
    BY <2>2, <2>3, TypeStep
<1>6. CASE InsertSummary(s) \/ UpdateSummary(s)
  <2>1. job' = [job EXCEPT ![s].pc = "commit"]
    BY <1>6 DEF InsertSummary, UpdateSummary
  <2>2. job' = [job EXCEPT ![s] = job'[s]] /\ job'[s] \in Job
    BY <1>1, <2>1 DEF Job
  <2>3. JobFilled(s)'
    BY <1>1, <2>1 DEF JobFilled, Job
  <2>. QED
    BY <2>2, <2>3, TypeStep
<1>. QED
  BY <1>2, <1>3, <1>4, <1>5, <1>6

LEMMA TypeCommit ==
  ASSUME IInv, TypeInv, NEW s \in Sessions, Commit(s)
  PROVE  TypeInv'
<1>1. /\ job[s] \in Job /\ JobFilled(s) /\ JobShape(s)
      /\ job[s].op # "idle" /\ job[s].rated \in Users
      /\ rating' = View(s) /\ End(s)
  BY DEF TypeInv, TypeOK, IInv, JobFilled, JobShape, Commit, At
<1>2. Upserted(s) \in SummaryRow
  <2>1. job[s].stats \in SummaryRow
    BY <1>1 DEF Job
  <2>2. CASE job[s].seen = {}
    BY <2>1, <2>2 DEF Upserted
  <2>3. CASE job[s].seen # {}
    <3>1. PICK old \in SummaryRow : job[s].seen = {old}
      BY <1>1, <2>3 DEF Job
    <3>2. summary[job[s].rated] \in SummaryRow
      BY <1>1, <2>3 DEF JobFilled, TypeInv, TypeOK
    <3>. QED
      BY <2>1, <2>3, <3>1, <3>2 DEF Upserted, Changed, SummaryRow
  <2>. QED
    BY <2>2, <2>3
<1>3. /\ DOMAIN rating' \subseteq Rows
      /\ rating' \in [DOMAIN rating' -> RatingRow]
  BY <1>1, ViewIsTable
<1>4. /\ DOMAIN summary' = DOMAIN summary \cup {job[s].rated}
      /\ summary' \in [DOMAIN summary' -> SummaryRow]
  BY <1>2 DEF Commit, TypeInv, TypeOK
<1>5. job' \in [Sessions -> Job] /\ \A r \in Sessions : job'[r] \in {Idle, job[r]}
  BY <1>1, IdleIsJob DEF End, TypeInv, TypeOK
<1>6. \A r \in Sessions : JobFilled(r)'
  BY <1>4, <1>5 DEF TypeInv, JobFilled, Idle, Request
<1>. QED
  BY <1>1, <1>3, <1>4, <1>5, <1>6 DEF TypeInv, TypeOK

LEMMA TypeKeeps == IInv /\ TypeInv /\ [Next]_vars => TypeInv'
<1>. SUFFICES ASSUME IInv, TypeInv, [Next]_vars PROVE TypeInv'
  OBVIOUS
<1>1. ASSUME NEW s \in Sessions, NEW u \in Users, NEW v \in Shown, NEW sc \in Scores,
             RateRead(s, u, v, sc)
      PROVE  TypeInv'
  <2>1. PICK id \in Rows \cup {NoRow}, old \in Scores \cup {0} :
          /\ Begin(s, Request("rate", "write", u, v, sc, id, old))
          /\ UNCHANGED <<rating, summary>>
    BY <1>1 DEF RateRead, RowsOf, TypeInv, TypeOK, RatingRow
  <2>. QED
    BY <2>1, ShownAreUsers, TypeBegin
<1>2. ASSUME NEW s \in Sessions, NEW u \in Users, NEW v \in Shown, WithdrawRead(s, u, v)
      PROVE  TypeInv'
  <2>1. PICK id \in Rows \cup {NoRow} :
          Begin(s, Request("withdraw", "write", u, v, 0, id, 0))
            /\ UNCHANGED <<rating, summary>>
    BY <1>2 DEF WithdrawRead, RowsOf, TypeInv, TypeOK
  <2>. QED
    BY <2>1, ShownAreUsers, TypeBegin
<1>3. ASSUME NEW s \in Sessions,
             \/ \E id \in Rows : Insert(s, id)
             \/ Update(s) \/ Delete(s) \/ ComputeStats(s) \/ LoadSummary(s)
             \/ InsertSummary(s) \/ UpdateSummary(s)
      PROVE  TypeInv'
  <2>1. UNCHANGED <<rating, summary>>
    BY <1>3 DEF Insert, Update, Delete, ComputeStats, LoadSummary, InsertSummary,
                UpdateSummary
  <2>. QED
    BY <1>3, <2>1, TypeGoesOn
<1>4. ASSUME NEW s \in Sessions,
             InsertConflict(s) \/ UpdateGone(s) \/ InsertSummaryConflict(s) \/ Abort(s)
      PROVE  TypeInv'
  BY <1>4, TypeEnd DEF InsertConflict, UpdateGone, InsertSummaryConflict, Abort
<1>5. ASSUME NEW s \in Sessions, Commit(s) PROVE TypeInv'
  BY <1>5, TypeCommit
<1>6. CASE Rest \/ UNCHANGED vars
  BY <1>6 DEF Rest, vars, TypeInv, TypeOK, JobFilled
<1>. QED
  BY <1>1, <1>2, <1>3, <1>4, <1>5, <1>6 DEF Next

\* Every table and every job has its type: a summary is a mean between 0 and
\* 10 and a number of rows, however many there are.
THEOREM TypeCorrect == Spec => []TypeOK
<1>1. TypeInv => TypeOK
  BY DEF TypeInv
<1>. QED
  BY Inductive, TypeInit, TypeKeeps, <1>1, PTL DEF Spec

-----------------------------------------------------------------------------
(***************************************************************************)
(* Rating implements Scoreboard.  The first read of a session asks, its    *)
(* commit grants, an end without a commit drops the request, and what is   *)
(* between them changes nothing on the board.                              *)
(***************************************************************************)

Board == {rating[id] : id \in DOMAIN rating}

\* The request of a job.
Wanted(j) ==
  [rater |-> j.rater, rated |-> j.rated,
   score |-> IF j.op = "rate" THEN {j.score} ELSE {}]

\* A job is somebody's request or it is idle.
LEMMA AskedByJob ==
  IInv => \A s \in Sessions :
            Asked(s) = IF job[s].op = "idle" THEN {} ELSE {Wanted(job[s])}
<1>1. IInv => \A s \in Sessions : job[s] = Idle <=> job[s].op = "idle"
  BY IdleShape DEF IInv, JobShape
<1>. QED
  BY <1>1 DEF Asked, Wanted

\* Statements between the first read and the end.
LEMMA StepAsks ==
  ASSUME IInv, NEW s \in Sessions, UNCHANGED <<rating, summary>>, IInv',
         \A r \in Sessions \ {s} : job'[r] = job[r],
         job'[s].op = job[s].op, Wanted(job'[s]) = Wanted(job[s])
  PROVE  UNCHANGED Promise!vars
<1>1. Asked(s)' = Asked(s)
  <2>1. job'[s] = Idle <=> job'[s].op = "idle"
    BY IdleShape DEF IInv, JobShape
  <2>2. Asked(s)' = IF job'[s].op = "idle" THEN {} ELSE {Wanted(job'[s])}
    BY <2>1 DEF Asked, Wanted
  <2>. QED
    BY <2>2, AskedByJob
<1>2. \A r \in Sessions \ {s} : Asked(r)' = Asked(r)
  BY DEF Asked
<1>. QED
  BY <1>1, <1>2 DEF Promise!vars

LEMMA EndDrops ==
  ASSUME IInv, NEW s \in Sessions, UNCHANGED <<rating, summary>>, End(s), job[s] # Idle
  PROVE  Promise!Drop(s)
<1>1. job' = [r \in Sessions |-> IF r = s THEN Idle ELSE job[r]]
  BY DEF IInv, End
<1>2. \A r \in Sessions : Asked(r)' = IF r = s THEN {} ELSE Asked(r)
  BY <1>1 DEF Asked
<1>3. Asked(s) # {}
  BY DEF Asked
<1>. QED
  BY <1>2, <1>3 DEF Promise!Drop

LEMMA BeginAsks ==
  ASSUME IInv, NEW s \in Sessions, UNCHANGED <<rating, summary>>,
         NEW op \in {"rate", "withdraw"}, NEW u \in Users, NEW v \in Shown,
         NEW sc \in Scores \cup {0}, NEW id \in Rows \cup {NoRow},
         NEW old \in Scores \cup {0},
         op = "rate" => sc \in Scores /\ u # v,
         Begin(s, Request(op, "write", u, v, sc, id, old))
  PROVE  \E q \in Promise!Request : Promise!Ask(s, q)
<1>. DEFINE new == Request(op, "write", u, v, sc, id, old)
<1>1. PICK q : q = [rater |-> u, rated |-> v, score |-> IF op = "rate" THEN {sc} ELSE {}]
  OBVIOUS
<1>2. q \in Promise!Request
  BY <1>1 DEF Promise!Request
<1>3. /\ job[s] = Idle
      /\ job' = [r \in Sessions |-> IF r = s THEN new ELSE job[r]]
  BY DEF IInv, Begin
<1>4. new # Idle
  BY DEF Request, Idle
<1>5. \A r \in Sessions : Asked(r)' = IF r = s THEN {q} ELSE Asked(r)
  BY <1>1, <1>3, <1>4 DEF Asked, Request
<1>6. Asked(s) = {}
  BY <1>3 DEF Asked
<1>7. q.score # {} => q.rater # q.rated
  BY <1>1
<1>. QED
  BY <1>2, <1>5, <1>6, <1>7 DEF Promise!Ask

\* A commit puts the session's score in the place of its pair's.
LEMMA CommitGrants ==
  ASSUME IInv, TypeInv, NEW s \in Sessions, Commit(s)
  PROVE  Promise!Grant(s) \/ Promise!Drop(s)
<1>. DEFINE row == job[s].row
            Mine(x) == x.rater = job[s].rater /\ x.rated = job[s].rated
<1>1. /\ JobShape(s) /\ JobMatchesTable(s) /\ JobFilled(s)
      /\ job[s].pc \in After /\ job[s].op \in {"rate", "withdraw"} /\ job[s] # Idle
      /\ rating' = View(s)
  BY IdleShape DEF IInv, TypeInv, JobShape, Commit, At, After
<1>2. job' = [r \in Sessions |-> IF r = s THEN Idle ELSE job[r]]
  BY DEF IInv, Commit, End
<1>3. \A r \in Sessions : Asked(r)' = IF r = s THEN {} ELSE Asked(r)
  BY <1>2 DEF Asked
<1>4. PICK q : q = Wanted(job[s])
  OBVIOUS
<1>5. Asked(s) = {q}
  BY <1>1, <1>4 DEF Asked, Wanted
<1>6. /\ DOMAIN rating' \ {row} = DOMAIN rating \ {row}
      /\ \A id \in DOMAIN rating \ {row} : rating'[id] = rating[id]
  BY <1>1, ViewIsOneRow
<1>7. CASE job[s].write = "none"
  <2>1. rating' = rating
    BY <1>1, <1>7 DEF View
  <2>. QED
    BY <1>3, <1>5, <2>1 DEF Promise!Drop
<1>8. CASE job[s].op = "rate" /\ rating'[row].score # job[s].score
  <2>1. /\ row \in DOMAIN rating /\ row \in DOMAIN rating'
        /\ rating'[row] \in RatingRow /\ rating[row] \in RatingRow
        /\ rating'[row].rater = job[s].rater /\ rating'[row].rated = job[s].rated
        /\ rating'[row].score = rating[row].score
    BY <1>1, <1>8, ViewIsOneRow, ViewIsTable DEF TypeInv, TypeOK
  <2>2. rating'[row] = rating[row]
    BY <1>1, <2>1 DEF RatingRow, JobMatchesTable
  <2>3. /\ rating = [id \in DOMAIN rating |-> rating[id]]
        /\ rating' = [id \in DOMAIN rating' |-> rating'[id]]
    BY <1>1, ViewIsOneRow DEF IInv
  <2>4. rating' = rating
    BY <1>6, <2>1, <2>2, <2>3
  <2>. QED
    BY <1>3, <1>5, <2>4 DEF Promise!Drop
<1>9. CASE job[s].write # "none" /\ ~(job[s].op = "rate" /\ rating'[row].score # job[s].score)
  <2>1. ASSUME NEW id \in DOMAIN rating PROVE Mine(rating[id]) <=> id = row
    <3>1. CASE row \in DOMAIN rating
      BY <1>1, <3>1 DEF JobMatchesTable, IInv, OneRatingPerPair
    <3>2. CASE row \notin DOMAIN rating
      <4>1. RowsOf(job[s].rater, job[s].rated) = {}
        BY <1>1, <1>9, <3>2 DEF JobMatchesTable, JobShape, Writes
      <4>. QED
        BY <3>2, <4>1 DEF RowsOf
    <3>. QED
      BY <3>1, <3>2
  <2>2. {rating'[id] : id \in DOMAIN rating'} =
          {x \in Board : ~Mine(x)} \cup {rating'[id] : id \in DOMAIN rating' \cap {row}}
    BY <1>6, <2>1 DEF Board
  <2>3. {rating'[id] : id \in DOMAIN rating' \cap {row}} =
          {[rater |-> q.rater, rated |-> q.rated, score |-> sc] : sc \in q.score}
    <3>1. CASE job[s].op = "rate"
      <4>1. /\ row \in DOMAIN rating' /\ rating'[row] \in RatingRow
            /\ rating'[row].rater = job[s].rater /\ rating'[row].rated = job[s].rated
            /\ rating'[row].score = job[s].score
        BY <1>1, <1>9, <3>1, ViewIsOneRow, ViewIsTable
      <4>2. rating'[row] = [rater |-> q.rater, rated |-> q.rated, score |-> job[s].score]
        BY <1>4, <4>1 DEF RatingRow, Wanted
      <4>3. q.score = {job[s].score}
        BY <1>4, <3>1 DEF Wanted
      <4>. QED
        BY <4>1, <4>2, <4>3
    <3>2. CASE job[s].op = "withdraw"
      <4>1. job[s].write = "delete"
        BY <1>1, <1>9, <3>2 DEF JobFilled, JobShape, Writes
      <4>2. row \notin DOMAIN rating'
        BY <1>1, <4>1 DEF View
      <4>3. q.score = {}
        BY <1>4, <3>2 DEF Wanted
      <4>. QED
        BY <4>2, <4>3
    <3>. QED
      BY <1>1, <3>1, <3>2
  <2>4. \A x : Mine(x) <=> Promise!SamePair(x, q)
    BY <1>4 DEF Promise!SamePair, Wanted
  <2>5. {rating'[id] : id \in DOMAIN rating'} =
          {x \in Board : ~Promise!SamePair(x, q)}
            \cup {[rater |-> q.rater, rated |-> q.rated, score |-> sc] : sc \in q.score}
    BY <2>2, <2>3, <2>4
  <2>6. [r \in Sessions |-> Asked(r)'] =
          [[r \in Sessions |-> Asked(r)] EXCEPT ![s] = {}]
    BY <1>3
  <2>. QED
    BY <1>5, <2>5, <2>6 DEF Promise!Grant, Board
<1>. QED
  BY <1>7, <1>8, <1>9

LEMMA NextIsPromised == IInv /\ IInv' /\ TypeInv /\ [Next]_vars => [Promise!Next]_(Promise!vars)
<1>. SUFFICES ASSUME IInv, IInv', TypeInv, [Next]_vars
              PROVE  Promise!Next \/ UNCHANGED Promise!vars
  OBVIOUS
<1>1. ASSUME NEW s \in Sessions, NEW u \in Users, NEW v \in Shown, NEW sc \in Scores,
             RateRead(s, u, v, sc)
      PROVE  Promise!Next
  <2>1. PICK id \in Rows \cup {NoRow}, old \in Scores \cup {0} :
          /\ Begin(s, Request("rate", "write", u, v, sc, id, old))
          /\ UNCHANGED <<rating, summary>> /\ u # v
    BY <1>1 DEF RateRead, RowsOf, TypeInv, TypeOK, RatingRow
  <2>2. \E q \in Promise!Request : Promise!Ask(s, q)
    BY <2>1, BeginAsks
  <2>. QED
    BY <2>2 DEF Promise!Next
<1>2. ASSUME NEW s \in Sessions, NEW u \in Users, NEW v \in Shown, WithdrawRead(s, u, v)
      PROVE  Promise!Next
  <2>1. PICK id \in Rows \cup {NoRow} :
          /\ Begin(s, Request("withdraw", "write", u, v, 0, id, 0))
          /\ UNCHANGED <<rating, summary>>
    BY <1>2 DEF WithdrawRead, RowsOf, TypeInv, TypeOK
  <2>2. \E q \in Promise!Request : Promise!Ask(s, q)
    BY <2>1, BeginAsks
  <2>. QED
    BY <2>2 DEF Promise!Next
<1>3. ASSUME NEW s \in Sessions,
             \/ \E id \in Rows : Insert(s, id)
             \/ Update(s) \/ Delete(s) \/ ComputeStats(s) \/ LoadSummary(s)
             \/ InsertSummary(s) \/ UpdateSummary(s)
      PROVE  UNCHANGED Promise!vars
  <2>1. /\ UNCHANGED <<rating, summary>>
        /\ \A r \in Sessions \ {s} : job'[r] = job[r]
    BY <1>3 DEF IInv, Insert, Update, Delete, ComputeStats, LoadSummary, InsertSummary,
                UpdateSummary
  <2>2. /\ job'[s].op = job[s].op /\ job'[s].score = job[s].score
        /\ job'[s].rater = job[s].rater /\ job'[s].rated = job[s].rated
    <3>1. CASE ComputeStats(s) \/ LoadSummary(s) \/ InsertSummary(s) \/ UpdateSummary(s)
      BY <3>1, ReadsOn DEF GoesOn
    <3>2. CASE (\E id \in Rows : Insert(s, id)) \/ Update(s) \/ Delete(s)
      <4>1. job[s] \in Job /\ job \in [Sessions -> Job]
        BY DEF TypeInv, TypeOK
      <4>2. CASE \E id \in Rows : Insert(s, id)
        <5>1. PICK id \in Rows :
                job' = [job EXCEPT ![s].pc = "stats", ![s].row = id, ![s].write = "insert"]
          BY <4>2 DEF Insert
        <5>. QED
          BY <4>1, <5>1 DEF Job
      <4>3. CASE Update(s) \/ Delete(s)
        <5>1. PICK write : job' = [job EXCEPT ![s].pc = "stats", ![s].write = write]
          BY <4>3 DEF Update, Delete
        <5>. QED
          BY <4>1, <5>1 DEF Job
      <4>. QED
        BY <3>2, <4>2, <4>3
    <3>. QED
      BY <1>3, <3>1, <3>2
  <2>3. Wanted(job'[s]) = Wanted(job[s])
    BY <2>2 DEF Wanted
  <2>. QED
    BY <2>1, <2>2, <2>3, StepAsks
<1>4. ASSUME NEW s \in Sessions,
             InsertConflict(s) \/ UpdateGone(s) \/ InsertSummaryConflict(s) \/ Abort(s)
      PROVE  Promise!Next
  <2>1. /\ UNCHANGED <<rating, summary>> /\ End(s) /\ job[s] # Idle
    BY <1>4, IdleShape
       DEF InsertConflict, UpdateGone, InsertSummaryConflict, Abort, AtInsert, AtRow, At
  <2>. QED
    BY <2>1, EndDrops DEF Promise!Next
<1>5. ASSUME NEW s \in Sessions, Commit(s) PROVE Promise!Next
  BY <1>5, CommitGrants DEF Promise!Next
<1>6. CASE Rest \/ UNCHANGED vars
  BY <1>6 DEF Rest, vars, Promise!vars, Asked
<1>. QED
  BY <1>1, <1>2, <1>3, <1>4, <1>5, <1>6 DEF Next

\* Every behaviour of the sessions and the table is one of Scoreboard: a
\* request changes one pair's score to what it asked for, at once, or nothing.
THEOREM Implements == Spec => ImplementsScoreboard
<1>1. Init => Promise!Init
  <2>. SUFFICES ASSUME Init PROVE Promise!Init
    OBVIOUS
  <2>1. DOMAIN rating = {} /\ \A s \in Sessions : Asked(s) = {}
    BY DEF Init, Asked
  <2>. QED
    BY <2>1 DEF Promise!Init
<1>. QED
  BY <1>1, Inductive, TypeInit, TypeKeeps, NextIsPromised, PTL
     DEF Spec, ImplementsScoreboard, Promise!Spec

=============================================================================
