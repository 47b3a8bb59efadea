---------------------------- MODULE SettingsProofs ----------------------------
(***************************************************************************)
(* Proofs about Settings, for any number of sessions on one user's rows,   *)
(* any values and albums, with and without failures.                       *)
(***************************************************************************)
EXTENDS Settings, TLAPS

USE UnsetIsAValue, NullsAreNotIds, AlbumsHavePhotos

-----------------------------------------------------------------------------
(* Rows, and the parts of rows that sessions write.                        *)

LEMMA TablesAre ==
  /\ Tables = {"users", "search_preferences", "profiles"}
  /\ Columns["users"] = {"username", "notifications", "language", "banned"}
  /\ Columns["search_preferences"] = {"gender", "rating", "location"}
  /\ Columns["profiles"] = {"basics", "location", "visible"}
  BY DEF Tables, Columns

LEMMA ColumnsAreColumns ==
  ASSUME NEW t \in Tables
  PROVE  Columns[t] \subseteq AllColumns
  BY DEF AllColumns

LEMMA PartialTyped ==
  ASSUME NEW C \in SUBSET AllColumns, NEW f \in [C -> Values]
  PROVE  f \in Partial
  BY DEF Partial

LEMMA PartialIs ==
  ASSUME NEW f \in Partial
  PROVE  /\ DOMAIN f \subseteq AllColumns
         /\ f = [c \in DOMAIN f |-> f[c]]
         /\ \A c \in DOMAIN f : f[c] \in Values
  BY DEF Partial

LEMMA RowIsPartial ==
  ASSUME NEW t \in Tables, NEW f \in RowsOf(t)
  PROVE  f \in Partial /\ DOMAIN f = Columns[t]
  BY ColumnsAreColumns, PartialTyped DEF RowsOf

LEMMA OverlayTyped ==
  ASSUME NEW t \in Tables, NEW old \in RowsOf(t), NEW set \in Partial
  PROVE  /\ Overlay(old, set) \in RowsOf(t)
         /\ \A c \in Columns[t] :
              Overlay(old, set)[c] = IF c \in DOMAIN set THEN set[c] ELSE old[c]
  BY PartialIs DEF Overlay, RowsOf

\* Every table has its own rows, which is more than that it has some.
LEMMA RowsTyped ==
  ASSUME NEW f, f = [t \in Tables |-> f[t]], \A t \in Tables : f[t] \in RowsOf(t) \cup {NoRow}
  PROVE  f \in [Tables -> (UNION {RowsOf(t) : t \in Tables}) \cup {NoRow}]
  <1> DEFINE all == UNION {RowsOf(t) : t \in Tables}
  <1>1. \A t \in Tables : RowsOf(t) \subseteq all
    OBVIOUS
  <1> HIDE DEF all
  <1>2. f \in [Tables -> all \cup {NoRow}]
    BY <1>1
  <1> QED
    BY <1>2 DEF all

-----------------------------------------------------------------------------
(* What steps do to the jobs.                                              *)

Pcs == {"idle", "flip", "photos", "load", "load photos", "write", "insert", "commit"}

OthersKeep(s) == \A r \in Sessions \ {s} : job'[r] = job[r]

LEMMA RequestTyped ==
  ASSUME NEW t \in Tables \cup {"none"}, NEW c \in AllColumns \cup {"photos", "none"},
         NEW pc \in Pcs, NEW set \in Partial, NEW album \in Albums \cup {<<>>}
  PROVE  /\ Request(t, c, pc, set, album) \in Job
         /\ Request(t, c, pc, set, album).table = t
         /\ Request(t, c, pc, set, album).column = c
         /\ Request(t, c, pc, set, album).pc = pc
         /\ Request(t, c, pc, set, album).set = set
         /\ Request(t, c, pc, set, album).album = album
         /\ Request(t, c, pc, set, album).loaded = {}
         /\ Request(t, c, pc, set, album).raced = "no"
  BY DEF Request, Job, Pcs

LEMMA IdleTyped ==
  /\ Idle \in Job /\ Idle.table = "none" /\ Idle.column = "none" /\ Idle.pc = "idle"
  /\ DOMAIN Idle.set = {} /\ Idle.loaded = {} /\ Idle.raced = "no"
  <1>1. DOMAIN NoColumns = {} /\ NoColumns \in [{} -> Values]
    BY DEF NoColumns
  <1>2. NoColumns \in Partial
    <2>1. {} \in SUBSET AllColumns
      OBVIOUS
    <2> QED
      BY <1>1, <2>1, PartialTyped
  <1> QED
    BY <1>1, <1>2 DEF Idle, Request, Job

LEMMA EndMoves ==
  ASSUME job \in [Sessions -> Job], NEW s \in Sessions, End(s)
  PROVE  job' \in [Sessions -> Job] /\ OthersKeep(s) /\ job'[s] = Idle
  BY IdleTyped DEF End, OthersKeep

LEMMA Replaced ==
  ASSUME job \in [Sessions -> Job], NEW s \in Sessions, NEW j \in Job, job' = [job EXCEPT ![s] = j]
  PROVE  job' \in [Sessions -> Job] /\ OthersKeep(s) /\ job'[s] = j
  BY DEF OthersKeep

\* What a step of a session leaves of its job.
Same(j, k) ==
  /\ j.table = k.table /\ j.column = k.column /\ j.raced = k.raced

LEMMA PhotosMove ==
  ASSUME job \in [Sessions -> Job], NEW s \in Sessions, NEW a \in Albums,
         job' = [job EXCEPT ![s].pc = "load", ![s].album = a]
  PROVE  /\ job' \in [Sessions -> Job] /\ OthersKeep(s) /\ Same(job'[s], job[s])
         /\ job'[s].pc = "load" /\ job'[s].set = job[s].set /\ job'[s].album = a
         /\ job'[s].loaded = job[s].loaded
  <1> PICK k \in Job : k = job[s]
    OBVIOUS
  <1> PICK j \in Job : j = [k EXCEPT !.pc = "load", !.album = a]
    BY DEF Job
  <1>1. job' = [job EXCEPT ![s] = j]
    OBVIOUS
  <1>2. /\ Same(j, k) /\ j.pc = "load" /\ j.set = k.set /\ j.album = a
        /\ j.loaded = k.loaded
    BY DEF Job, Same
  <1> QED
    BY <1>1, <1>2, Replaced

LEMMA LoadMoves ==
  ASSUME job \in [Sessions -> Job], NEW s \in Sessions, NEW pc \in {"load photos", "write"},
         NEW set \in Partial, job' = [job EXCEPT ![s].pc = pc, ![s].set = set]
  PROVE  /\ job' \in [Sessions -> Job] /\ OthersKeep(s) /\ Same(job'[s], job[s])
         /\ job'[s].pc = pc /\ job'[s].set = set /\ job'[s].album = job[s].album
         /\ job'[s].loaded = job[s].loaded
  <1> PICK k \in Job : k = job[s]
    OBVIOUS
  <1> PICK j \in Job : j = [k EXCEPT !.pc = pc, !.set = set]
    BY DEF Job
  <1>1. job' = [job EXCEPT ![s] = j]
    OBVIOUS
  <1>2. /\ Same(j, k) /\ j.pc = pc /\ j.set = set /\ j.album = k.album
        /\ j.loaded = k.loaded
    BY DEF Job, Same
  <1> QED
    BY <1>1, <1>2, Replaced

LEMMA LoadPhotosMoves ==
  ASSUME job \in [Sessions -> Job], photos \subseteq PhotoRow, NEW s \in Sessions, LoadPhotos(s)
  PROVE  /\ job' \in [Sessions -> Job] /\ OthersKeep(s) /\ Same(job'[s], job[s])
         /\ job'[s].pc = "write" /\ job'[s].set = job[s].set /\ job'[s].album = job[s].album
         /\ job'[s].loaded = photos
  <1> PICK k \in Job : k = job[s]
    OBVIOUS
  <1> PICK j \in Job : j = [k EXCEPT !.pc = "write", !.loaded = photos]
    BY DEF Job
  <1>1. job' = [job EXCEPT ![s] = j]
    BY DEF LoadPhotos
  <1>2. /\ Same(j, k) /\ j.pc = "write" /\ j.set = k.set /\ j.album = k.album
        /\ j.loaded = photos
    BY DEF Job, Same
  <1> QED
    BY <1>1, <1>2, Replaced

LEMMA WriteMoves ==
  ASSUME job \in [Sessions -> Job], NEW s \in Sessions, job' = [job EXCEPT ![s].pc = "commit"]
  PROVE  /\ job' \in [Sessions -> Job] /\ OthersKeep(s) /\ Same(job'[s], job[s])
         /\ job'[s].pc = "commit" /\ job'[s].set = job[s].set /\ job'[s].album = job[s].album
         /\ job'[s].loaded = job[s].loaded /\ job'[s].batch = job[s].batch
  <1> PICK k \in Job : k = job[s]
    OBVIOUS
  <1> PICK j \in Job : j = [k EXCEPT !.pc = "commit"]
    BY DEF Job
  <1>1. job' = [job EXCEPT ![s] = j]
    OBVIOUS
  <1>2. /\ Same(j, k) /\ j.pc = "commit" /\ j.set = k.set /\ j.album = k.album
        /\ j.loaded = k.loaded /\ j.batch = k.batch
    BY DEF Job, Same
  <1> QED
    BY <1>1, <1>2, Replaced

LEMMA WriteProfileMoves ==
  ASSUME job \in [Sessions -> Job], NEW s \in Sessions, NEW b \in Batches, WriteProfile(s, b)
  PROVE  /\ job' \in [Sessions -> Job] /\ OthersKeep(s) /\ Same(job'[s], job[s])
         /\ job'[s].pc = "commit" /\ job'[s].set = job[s].set /\ job'[s].album = job[s].album
         /\ job'[s].loaded = job[s].loaded /\ job'[s].batch = b
  <1> PICK k \in Job : k = job[s]
    OBVIOUS
  <1> PICK j \in Job : j = [k EXCEPT !.pc = "commit", !.batch = b]
    BY DEF Job
  <1>1. job' = [job EXCEPT ![s] = j]
    BY DEF WriteProfile
  <1>2. /\ Same(j, k) /\ j.pc = "commit" /\ j.set = k.set /\ j.album = k.album
        /\ j.loaded = k.loaded /\ j.batch = b
    BY DEF Job, Same
  <1> QED
    BY <1>1, <1>2, Replaced

\* The others keep their jobs, but for knowing that they have been overtaken.
LEMMA CommitMoves ==
  ASSUME job \in [Sessions -> Job], NEW s \in Sessions, EndAndOvertake(s), NEW r \in Sessions \ {s}
  PROVE  /\ job' \in [Sessions -> Job] /\ job'[s] = Idle
         /\ job'[r].table = job[r].table /\ job'[r].column = job[r].column
         /\ job'[r].pc = job[r].pc /\ job'[r].set = job[r].set
         /\ job'[r].album = job[r].album /\ job'[r].loaded = job[r].loaded
         /\ job'[r].batch = job[r].batch
         /\ job[r].table # job[s].table => job'[r] = job[r]
         /\ job[r].table = job[s].table => job'[r].raced # "no"
         /\ job'[r].raced = "loaded" /\ job[r].raced # "loaded" => job[r].pc \in {"write", "commit"}
  <1> DEFINE Raced(q) ==
        IF job[q].pc \in {"write", "commit"} THEN "loaded"
        ELSE IF job[q].raced = "no" THEN "read" ELSE job[q].raced
  <1>1. ASSUME NEW q \in Sessions \ {s}
        PROVE  /\ [job[q] EXCEPT !.raced = Raced(q)] \in Job
               /\ job'[q] = IF job[q].table = job[s].table THEN [job[q] EXCEPT !.raced = Raced(q)]
                            ELSE job[q]
    <2> PICK k \in Job : k = job[q]
      OBVIOUS
    <2>1. Raced(q) \in {"no", "read", "loaded"}
      BY DEF Job
    <2>2. [k EXCEPT !.raced = Raced(q)] \in Job
      BY <2>1 DEF Job
    <2> QED
      BY <2>2 DEF EndAndOvertake, Others
  <1>2. job'[s] = Idle /\ Idle \in Job
    <2>1. Idle \in Job
      BY IdleTyped
    <2>2. job'[s] = Idle
      BY DEF EndAndOvertake, Others
    <2> QED
      BY <2>1, <2>2
  <1>3. job' \in [Sessions -> Job]
    <2>1. job' = [q \in Sessions |-> job'[q]]
      BY DEF EndAndOvertake
    <2>2. \A q \in Sessions : job'[q] \in Job
      BY <1>1, <1>2
    <2> QED
      BY <2>1, <2>2
  <1>4. Raced(r) # "no" /\ (Raced(r) = "loaded" /\ job[r].raced # "loaded" => job[r].pc \in {"write", "commit"})
    OBVIOUS
  <1> PICK k \in Job : k = job[r]
    OBVIOUS
  <1> HIDE DEF Raced
  <1>5. LET j == [k EXCEPT !.raced = Raced(r)]
        IN  /\ j.table = k.table /\ j.column = k.column /\ j.pc = k.pc /\ j.set = k.set
            /\ j.album = k.album /\ j.loaded = k.loaded /\ j.batch = k.batch /\ j.raced = Raced(r)
    BY DEF Job
  <1> QED
    BY <1>1, <1>2, <1>3, <1>4, <1>5

-----------------------------------------------------------------------------
(* The invariant.                                                          *)

\* What a request is about.
AboutItsTable(s) ==
  LET j == job[s]
  IN  /\ j.pc = "idle" => j.table = "none"
      /\ j.pc # "idle" => j.table \in Tables
      /\ j.pc \in {"photos", "load photos"} => j.table = "profiles"
      /\ j.pc = "flip" => j.table = "users" /\ DOMAIN j.set = {"notifications"}
      /\ j.pc = "insert" => j.table = "search_preferences" /\ j.set \in RowsOf("search_preferences")
      /\ j.column = "photos" => j.table = "profiles"
      /\ j.raced = "loaded" => j.pc \in {"write", "commit"}

\* What was loaded is there, and a row that is not there is inserted whole.
RowIsThere(s) ==
  LET j == job[s]
  IN  /\ j.pc = "write" /\ j.table # "profiles" => row[j.table] # NoRow
      /\ j.pc = "commit" /\ row[j.table] = NoRow =>
           j.table = "search_preferences" /\ j.set \in RowsOf("search_preferences")

Unrelated(rows) == \A p \in rows, q \in photos : p.batch # q.batch

\* The photos that an edit has loaded are those of the profile, or all of them
\* have been replaced since; an edit that may commit has seen the former.
PhotosAreKnown(s) ==
  LET j == job[s]
  IN  j.table = "profiles" =>
        /\ j.pc \in {"load", "load photos", "write", "commit"} \/ j.column = "photos" =>
             j.album \in Albums
        /\ j.pc = "write" /\ row["profiles"] # NoRow =>
             /\ j.loaded = photos \/ Unrelated(j.loaded)
             /\ j.raced = "loaded" => Unrelated(j.loaded)
        /\ j.pc = "commit" =>
             /\ row["profiles"] # NoRow /\ j.loaded = photos /\ j.raced # "loaded"
             /\ j.batch \in Batches /\ \A p \in photos : p.batch # j.batch

\* A session that nobody overtook writes back what is there.
RestIsAsRead(s) ==
  LET j == job[s]
  IN  j.raced = "no" /\ j.table \in Tables /\ row[j.table] # NoRow =>
        /\ \A c \in DOMAIN j.set \ {j.column} : j.set[c] = row[j.table][c]
        /\ /\ j.table = "profiles" /\ j.column # "photos"
           /\ j.pc \in {"load", "load photos", "write", "commit"}
           => j.album = AlbumOf(photos)

JobInv(s) == AboutItsTable(s) /\ RowIsThere(s) /\ PhotosAreKnown(s) /\ RestIsAsRead(s)

\* The lock of a row, and the ids of new photos, are one session's.
Apart(s, r) ==
  /\ job[s].pc = "commit" /\ job[r].pc = "commit" => job[s].table # job[r].table
  /\ At(s, "profiles", "commit") => \A p \in job[r].loaded : p.batch # job[s].batch

IInv ==
  /\ TypeOK
  /\ AlbumIsWhole
  /\ \A s \in Sessions : JobInv(s)
  /\ \A s, r \in Sessions : s # r => Apart(s, r)

SetOK(s) == job[s].table # "none" => DOMAIN job[s].set \subseteq Columns[job[s].table]

\* A step of a session before its commit.
Quiet(s) ==
  /\ UNCHANGED <<row, photos>>
  /\ job' \in [Sessions -> Job] /\ OthersKeep(s)
  /\ SetOK(s)' /\ JobInv(s)'
  /\ job'[s].loaded \in {{}, job[s].loaded, photos}
  /\ job'[s].pc = "commit" =>
       /\ \A r \in Sessions \ {s} : ~(job[r].pc = "commit" /\ job[r].table = job'[s].table)
       /\ job'[s].table = "profiles" =>
            \A r \in Sessions \ {s} : \A p \in job[r].loaded : p.batch # job'[s].batch

LEMMA QuietKeeps ==
  ASSUME IInv, NEW s \in Sessions, Quiet(s)
  PROVE  IInv'
  <1> USE DEF IInv, Quiet
  <1>1. ASSUME NEW r \in Sessions
        PROVE  JobInv(r)' /\ SetOK(r)'
    <2>1. CASE r = s
      BY <2>1
    <2>2. CASE r # s
      <3>1. job'[r] = job[r] /\ JobInv(r) /\ SetOK(r)
        BY <2>2 DEF OthersKeep, TypeOK, SetOK
      <3>2. SetOK(r)' /\ AboutItsTable(r)'
        BY <3>1 DEF SetOK, JobInv, AboutItsTable
      <3>3. RowIsThere(r)'
        BY <3>1 DEF JobInv, RowIsThere
      <3>4. PhotosAreKnown(r)'
        BY <3>1 DEF JobInv, PhotosAreKnown, Unrelated
      <3>5. RestIsAsRead(r)'
        BY <3>1 DEF JobInv, RestIsAsRead
      <3> QED
        BY <3>2, <3>3, <3>4, <3>5 DEF JobInv
    <2> QED
      BY <2>1, <2>2
  <1>2. TypeOK'
    BY <1>1 DEF TypeOK, SetOK
  <1>3. AlbumIsWhole'
    BY DEF AlbumIsWhole
  <1>4. ASSUME NEW q \in Sessions, NEW r \in Sessions, q # r
        PROVE  Apart(q, r)'
    <2>1. CASE q # s /\ r # s
      BY <1>4, <2>1 DEF OthersKeep, Apart, At
    <2>2. CASE q = s
      BY <1>4, <2>2 DEF OthersKeep, Apart, At
    <2>3. CASE r = s
      <3>1. job'[q] = job[q] /\ Apart(q, s) /\ JobInv(q)
        BY <1>4, <2>3 DEF OthersKeep
      <3>2. At(q, "profiles", "commit") => \A p \in photos : p.batch # job[q].batch
        BY <3>1 DEF JobInv, PhotosAreKnown, At
      <3> QED
        BY <1>4, <2>3, <3>1, <3>2 DEF Apart, At
    <2> QED
      BY <2>1, <2>2, <2>3
  <1> QED
    BY <1>1, <1>2, <1>3, <1>4

LEMMA EndIsQuiet ==
  ASSUME IInv, NEW s \in Sessions, End(s), UNCHANGED <<row, photos>>
  PROVE  Quiet(s)
  <1>1. job' \in [Sessions -> Job] /\ OthersKeep(s) /\ job'[s] = Idle
    BY EndMoves DEF IInv, TypeOK
  <1>2. "none" \notin Tables
    BY TablesAre
  <1> QED
    BY <1>1, <1>2, IdleTyped
    DEF Quiet, SetOK, JobInv, AboutItsTable, RowIsThere, PhotosAreKnown, RestIsAsRead

-----------------------------------------------------------------------------
(* Requests.                                                               *)

Asked(t, c, pc, set, album) ==
  /\ t \in Tables /\ c \in AllColumns \cup {"photos", "none"}
  /\ set \in Partial /\ DOMAIN set \subseteq Columns[t]
  /\ album \in Albums \cup {<<>>}
  /\ pc \in {"flip", "photos", "load", "insert"}
  /\ pc = "flip" => t = "users" /\ DOMAIN set = {"notifications"}
  /\ pc = "photos" <=> t = "profiles"
  /\ pc = "insert" => t = "search_preferences" /\ set \in RowsOf(t)
  /\ c = "photos" => t = "profiles" /\ album \in Albums
  /\ row[t] # NoRow => \A d \in DOMAIN set \ {c} : set[d] = row[t][d]

LEMMA AskedIsQuiet ==
  ASSUME IInv, NEW s \in Sessions, NEW t, NEW c, NEW pc, NEW set, NEW album,
         Asked(t, c, pc, set, album), job' = [job EXCEPT ![s] = Request(t, c, pc, set, album)],
         UNCHANGED <<row, photos>>
  PROVE  Quiet(s)
  <1> DEFINE j == Request(t, c, pc, set, album)
  <1>1. /\ j \in Job /\ j.table = t /\ j.column = c /\ j.pc = pc /\ j.set = set
        /\ j.album = album /\ j.loaded = {} /\ j.raced = "no"
    <2>1. /\ t \in Tables \cup {"none"} /\ c \in AllColumns \cup {"photos", "none"}
          /\ pc \in Pcs /\ set \in Partial /\ album \in Albums \cup {<<>>}
      BY DEF Asked, Pcs
    <2> QED
      BY <2>1, RequestTyped
  <1> HIDE DEF j
  <1>2. job' \in [Sessions -> Job] /\ OthersKeep(s) /\ job'[s] = j
    BY <1>1, Replaced DEF j, IInv, TypeOK
  <1>3. t # "none" /\ "profiles" # "search_preferences"
    BY TablesAre DEF Asked
  <1>4. AboutItsTable(s)'
    BY <1>1, <1>2 DEF AboutItsTable, Asked, RowsOf
  <1>5. RowIsThere(s)' /\ PhotosAreKnown(s)'
    BY <1>1, <1>2, <1>3 DEF RowIsThere, PhotosAreKnown, Asked
  <1>6. RestIsAsRead(s)'
    <2>1. row[t] # NoRow => \A d \in DOMAIN set \ {c} : set[d] = row[t][d]
      BY DEF Asked
    <2>2. t = "profiles" => pc = "photos"
      BY DEF Asked
    <2>3. /\ job'[s].table = t /\ job'[s].column = c /\ job'[s].set = set /\ job'[s].pc = pc
          /\ row' = row
      BY <1>1, <1>2
    <2> QED
      BY <2>1, <2>2, <2>3 DEF RestIsAsRead
  <1> QED
    BY <1>1, <1>2, <1>3, <1>4, <1>5, <1>6 DEF Quiet, SetOK, JobInv, Asked

LEMMA ChangeTyped ==
  ASSUME TypeOK, NEW t \in Tables, row[t] # NoRow, NEW c \in Columns[t], NEW v \in Values
  PROVE  /\ row[t] \in RowsOf(t) /\ Change(t, c, v) \in RowsOf(t)
         /\ \A d \in Columns[t] \ {c} : Change(t, c, v)[d] = row[t][d]
  BY DEF TypeOK, Change, RowsOf

LEMMA UpdateIsQuiet ==
  ASSUME IInv, NEW s \in Sessions, NEW t \in Tables, NEW c \in Columns[t], NEW v \in Values,
         Update(s, t, c, v)
  PROVE  Quiet(s)
  <1> DEFINE pc == IF t = "profiles" THEN "photos" ELSE "load"
  <1>1. /\ row[t] # NoRow /\ UNCHANGED <<row, photos>>
        /\ job' = [job EXCEPT ![s] = Request(t, c, pc, Change(t, c, v), <<>>)]
    BY DEF Update, Begin
  <1>2. /\ Change(t, c, v) \in RowsOf(t)
        /\ \A d \in Columns[t] \ {c} : Change(t, c, v)[d] = row[t][d]
    BY <1>1, ChangeTyped DEF IInv
  <1>3. Change(t, c, v) \in Partial /\ DOMAIN Change(t, c, v) = Columns[t]
    BY <1>2, RowIsPartial
  <1>4. c \in AllColumns /\ c # "photos"
    BY ColumnsAreColumns, TablesAre
  <1>5. Asked(t, c, pc, Change(t, c, v), <<>>)
    BY <1>1, <1>2, <1>3, <1>4 DEF Asked
  <1> QED
    BY <1>1, <1>5, AskedIsQuiet

LEMMA InsertIsQuiet ==
  ASSUME IInv, NEW s \in Sessions, NEW c \in Columns["search_preferences"] \cup {"none"},
         NEW new \in RowsOf("search_preferences"), InsertPreferences(s, c, new)
  PROVE  Quiet(s)
  <1> DEFINE t == "search_preferences"
  <1>1. /\ row[t] = NoRow /\ UNCHANGED <<row, photos>>
        /\ job' = [job EXCEPT ![s] = Request(t, c, "insert", new, <<>>)]
    BY DEF InsertPreferences, Begin
  <1>2. t \in Tables /\ t # "profiles" /\ c \in AllColumns \cup {"none"} /\ c # "photos"
    BY ColumnsAreColumns, TablesAre
  <1>3. new \in Partial /\ DOMAIN new = Columns[t]
    BY <1>2, RowIsPartial
  <1>4. Asked(t, c, "insert", new, <<>>)
    BY <1>1, <1>2, <1>3 DEF Asked
  <1> QED
    BY <1>1, <1>4, AskedIsQuiet

LEMMA DefaultsTyped ==
  /\ Defaults \in RowsOf("search_preferences")
  /\ \A c \in Columns["search_preferences"], v \in Values :
       [Defaults EXCEPT ![c] = v] \in RowsOf("search_preferences")
  BY DEF Defaults, RowsOf

LEMMA PreferIsQuiet ==
  ASSUME IInv, NEW s \in Sessions, NEW c \in Columns["search_preferences"], NEW v \in Values,
         Prefer(s, c, v)
  PROVE  Quiet(s)
  <1>1. "search_preferences" \in Tables
    BY TablesAre
  <1> QED
    BY <1>1, UpdateIsQuiet, InsertIsQuiet, DefaultsTyped DEF Prefer

LEMMA EditPhotosIsQuiet ==
  ASSUME IInv, NEW s \in Sessions, NEW a \in Albums, EditPhotos(s, a)
  PROVE  Quiet(s)
  <1>1. /\ row["profiles"] # NoRow /\ UNCHANGED <<row, photos>>
        /\ job' = [job EXCEPT ![s] = Request("profiles", "photos", "photos", row["profiles"], a)]
    BY DEF EditPhotos, Begin
  <1>2. "profiles" \in Tables
    BY TablesAre
  <1>3. row["profiles"] \in RowsOf("profiles")
    BY <1>1, <1>2 DEF IInv, TypeOK
  <1>4. row["profiles"] \in Partial /\ DOMAIN row["profiles"] = Columns["profiles"]
    BY <1>2, <1>3, RowIsPartial
  <1>5. Asked("profiles", "photos", "photos", row["profiles"], a)
    BY <1>2, <1>3, <1>4 DEF Asked
  <1> QED
    BY <1>1, <1>5, AskedIsQuiet

LEMMA ToggleIsQuiet ==
  ASSUME IInv, NEW s \in Sessions, NEW v \in Values, ToggleNotifications(s, v)
  PROVE  Quiet(s)
  <1> DEFINE set == [c \in {"notifications"} |-> v]
  <1>1. /\ UNCHANGED <<row, photos>>
        /\ job' = [job EXCEPT ![s] = Request("users", "notifications", "flip", set, <<>>)]
    BY DEF ToggleNotifications, Begin
  <1>2. "users" \in Tables /\ "users" # "profiles" /\ "notifications" \in Columns["users"]
    BY TablesAre
  <1>3. "notifications" \in AllColumns
    BY <1>2, ColumnsAreColumns
  <1>4. set \in Partial /\ DOMAIN set = {"notifications"}
    BY <1>3, PartialTyped
  <1>5. Asked("users", "notifications", "flip", set, <<>>)
    BY <1>2, <1>3, <1>4 DEF Asked
  <1> QED
    BY <1>1, <1>5, AskedIsQuiet

LEMMA AskIsQuiet ==
  ASSUME IInv, NEW s \in Sessions, Ask(s)
  PROVE  Quiet(s)
  <1>1. /\ Tables = {"users", "search_preferences", "profiles"}
        /\ Columns["users"] = {"username", "notifications", "language", "banned"}
        /\ Columns["search_preferences"] = {"gender", "rating", "location"}
        /\ Columns["profiles"] = {"basics", "location", "visible"}
    BY TablesAre
  <1>2. ASSUME NEW v \in Values, NEW c \in Columns["users"], UpdateUser(s, c, v)
        PROVE  Quiet(s)
    BY <1>1, <1>2, UpdateIsQuiet DEF UpdateUser
  <1>3. GetPreferences(s) => Quiet(s)
    BY InsertIsQuiet, DefaultsTyped DEF GetPreferences
  <1>4. ASSUME NEW v \in Values, NEW c \in Columns["profiles"], Update(s, "profiles", c, v)
        PROVE  Quiet(s)
    BY <1>1, <1>4, UpdateIsQuiet
  <1>5. ASSUME NEW v \in Values, NEW premium \in BOOLEAN, SetMinRating(s, v, premium)
        PROVE  Quiet(s)
    BY <1>1, <1>3, <1>5, PreferIsQuiet DEF SetMinRating
  <1>6. ASSUME NEW v \in Values,
               \/ Start(s, v) \/ SetLanguage(s, v) \/ SetBan(s, v)
               \/ SetGender(s, v) \/ SetLocation(s, v)
               \/ SetVisible(s, v) \/ \E c \in {"basics", "location"} : Edit(s, c, v)
        PROVE  Quiet(s)
    BY <1>1, <1>2, <1>4, <1>6, PreferIsQuiet
    DEF Start, SetLanguage, SetBan, SetGender, SetLocation, SetVisible, Edit
  <1> QED
    BY <1>3, <1>5, <1>6, ToggleIsQuiet, EditPhotosIsQuiet DEF Ask

-----------------------------------------------------------------------------
(* Albums.                                                                 *)

RowsOfAlbum(b, a) == {[batch |-> b, position |-> i, file |-> a[i]] : i \in DOMAIN a}

LEMMA AlbumRows ==
  ASSUME NEW b \in Batches, NEW a \in Albums
  PROVE  /\ AlbumOf(RowsOfAlbum(b, a)) = a
         /\ RowsOfAlbum(b, a) \subseteq PhotoRow
         /\ \A p \in RowsOfAlbum(b, a) : p.batch = b
         /\ 1 \in DOMAIN a /\ \E p \in RowsOfAlbum(b, a) : p.position = 1
  <1> DEFINE rows == RowsOfAlbum(b, a)
  <1>1. a \in Seq(STRING) /\ Len(a) \in 1 .. 6 /\ DOMAIN a = 1 .. Len(a)
    OBVIOUS
  <1>2. /\ DOMAIN a \subseteq 1 .. 6 /\ 1 \in DOMAIN a
        /\ \A i \in DOMAIN a : a[i] \in STRING
        /\ a = [i \in DOMAIN a |-> a[i]]
    BY <1>1
  <1>3. ASSUME NEW i \in DOMAIN a
        PROVE  /\ [batch |-> b, position |-> i, file |-> a[i]] \in rows
               /\ [batch |-> b, position |-> i, file |-> a[i]] \in PhotoRow
    BY <1>2 DEF RowsOfAlbum, PhotoRow
  <1>4. ASSUME NEW p \in rows
        PROVE  p.batch = b /\ p.position \in DOMAIN a /\ p.file = a[p.position]
    BY DEF RowsOfAlbum
  <1>5. \A i \in DOMAIN a : \E p \in rows : p.position = i
    BY <1>3
  <1>6. {p.position : p \in rows} = DOMAIN a
    BY <1>4, <1>5
  <1>7. ASSUME NEW i \in DOMAIN a
        PROVE  (CHOOSE p \in rows : p.position = i).file = a[i]
    BY <1>4, <1>5
  <1>8. AlbumOf(rows) = a
    <2>1. AlbumOf(rows) = [i \in DOMAIN a |-> (CHOOSE p \in rows : p.position = i).file]
      BY <1>6 DEF AlbumOf
    <2> QED
      BY <1>2, <1>7, <2>1
  <1>9. rows \subseteq PhotoRow
    BY <1>2 DEF RowsOfAlbum, PhotoRow
  <1> QED
    BY <1>2, <1>4, <1>5, <1>8, <1>9

LEMMA PhotosAre ==
  ASSUME AlbumIsWhole, row["profiles"] # NoRow
  PROVE  /\ AlbumOf(photos) \in Albums
         /\ \E p \in photos : p.position = 1
         /\ \A p, q \in photos : p.batch = q.batch
  <1> PICK b \in Batches, a \in Albums : photos = RowsOfAlbum(b, a)
    BY DEF AlbumIsWhole, RowsOfAlbum
  <1> QED
    BY AlbumRows

-----------------------------------------------------------------------------
(* The statements of a session before its commit.                          *)

LEMMA FlipIsQuiet ==
  ASSUME IInv, NEW s \in Sessions, SetNotifications(s)
  PROVE  Quiet(s)
  <1> DEFINE v == job[s].set["notifications"]
  <1>1. job[s].pc = "flip" /\ UNCHANGED <<row, photos>>
    BY DEF SetNotifications, At
  <1>2. DOMAIN job[s].set = {"notifications"} /\ job[s].set \in Partial
    BY <1>1 DEF IInv, JobInv, AboutItsTable, TypeOK, Job
  <1>3. v \in Values
    BY <1>2, PartialIs
  <1>4. CASE v = row["users"]["notifications"]
    BY <1>1, <1>4, EndIsQuiet DEF SetNotifications
  <1>5. CASE v # row["users"]["notifications"]
    <2>1. job' = [job EXCEPT ![s] = Request("users", "notifications", "load",
                                            Change("users", "notifications", v), <<>>)]
      BY <1>5 DEF SetNotifications
    <2>2. /\ "users" \in Tables /\ "users" # "profiles" /\ row["users"] # NoRow
          /\ "notifications" \in Columns["users"]
      BY TablesAre DEF IInv, TypeOK
    <2>3. /\ Change("users", "notifications", v) \in RowsOf("users")
          /\ \A d \in Columns["users"] \ {"notifications"} :
               Change("users", "notifications", v)[d] = row["users"][d]
      BY <1>3, <2>2, ChangeTyped DEF IInv
    <2>4. /\ Change("users", "notifications", v) \in Partial
          /\ DOMAIN Change("users", "notifications", v) = Columns["users"]
      BY <2>2, <2>3, RowIsPartial
    <2>5. "notifications" \in AllColumns
      BY <2>2, ColumnsAreColumns
    <2>6. Asked("users", "notifications", "load", Change("users", "notifications", v), <<>>)
      BY <2>2, <2>3, <2>4, <2>5 DEF Asked
    <2> QED
      BY <1>1, <2>1, <2>6, AskedIsQuiet
  <1> QED
    BY <1>4, <1>5

LEMMA ReadPhotosIsQuiet ==
  ASSUME IInv, NEW s \in Sessions, ReadPhotos(s)
  PROVE  Quiet(s)
  <1>1. /\ job[s].table = "profiles" /\ job[s].pc = "photos" /\ UNCHANGED <<row, photos>>
        /\ "profiles" \in Tables /\ "profiles" # "none"
    BY TablesAre DEF ReadPhotos, At
  <1>2. CASE photos = {}
    BY <1>1, <1>2, EndIsQuiet DEF ReadPhotos
  <1>3. CASE photos # {}
    <2>1. row["profiles"] # NoRow
      BY <1>3 DEF IInv, AlbumIsWhole
    <2> DEFINE a == IF job[s].column = "photos" THEN job[s].album ELSE AlbumOf(photos)
    <2>2. a \in Albums
      BY <1>1, <2>1, PhotosAre DEF IInv, JobInv, PhotosAreKnown
    <2>3. job' = [job EXCEPT ![s].pc = "load", ![s].album = a]
      BY <1>3 DEF ReadPhotos, IInv, TypeOK
    <2>4. job \in [Sessions -> Job] /\ SetOK(s) /\ JobInv(s)
      BY DEF IInv, TypeOK, SetOK
    <2>5. /\ job' \in [Sessions -> Job] /\ OthersKeep(s)
          /\ job'[s].table = "profiles" /\ job'[s].column = job[s].column
          /\ job'[s].raced = job[s].raced
          /\ job'[s].pc = "load" /\ job'[s].set = job[s].set /\ job'[s].album = a
          /\ job'[s].loaded = job[s].loaded
      <3> HIDE DEF a
      <3> QED
        BY <1>1, <2>2, <2>3, <2>4, PhotosMove DEF Same
    <2>6. AboutItsTable(s)' /\ RowIsThere(s)' /\ PhotosAreKnown(s)'
      BY <1>1, <2>2, <2>4, <2>5 DEF JobInv, AboutItsTable, RowIsThere, PhotosAreKnown
    <2>7. RestIsAsRead(s)'
      BY <1>1, <2>4, <2>5 DEF JobInv, RestIsAsRead
    <2> QED
      BY <1>1, <2>4, <2>5, <2>6, <2>7 DEF Quiet, SetOK, JobInv
  <1> QED
    BY <1>2, <1>3

LEMMA LoadIsQuiet ==
  ASSUME IInv, NEW s \in Sessions, NEW t \in Tables, Load(s, t)
  PROVE  Quiet(s)
  <1>1. job[s].table = t /\ job[s].pc = "load" /\ UNCHANGED <<row, photos>> /\ t # "none"
    BY TablesAre DEF Load, At
  <1>2. CASE row[t] = NoRow
    BY <1>1, <1>2, EndIsQuiet DEF Load
  <1>3. CASE row[t] # NoRow
    <2> DEFINE want == job[s].set
               writes == ToWrite(want, row[t])
               set == [c \in writes |-> want[c]]
               pc == IF t = "profiles" THEN "load photos" ELSE "write"
    <2>1. job \in [Sessions -> Job] /\ SetOK(s) /\ JobInv(s) /\ want \in Partial
      BY DEF IInv, TypeOK, SetOK, Job
    <2>2. writes \subseteq DOMAIN want
      BY DEF ToWrite
    <2>3. set \in Partial /\ DOMAIN set \subseteq DOMAIN want /\ \A c \in DOMAIN set : set[c] = want[c]
      <3> HIDE DEF writes
      <3> QED
        BY <2>1, <2>2, PartialIs, PartialTyped
    <2>4. job' = [job EXCEPT ![s].pc = pc, ![s].set = set]
      BY <1>3 DEF Load
    <2> HIDE DEF set, writes
    <2>5. pc \in {"load photos", "write"}
      OBVIOUS
    <2> HIDE DEF pc
    <2>6. /\ job' \in [Sessions -> Job] /\ OthersKeep(s)
          /\ job'[s].table = t /\ job'[s].column = job[s].column /\ job'[s].raced = job[s].raced
          /\ job'[s].pc = pc /\ job'[s].set = set /\ job'[s].album = job[s].album
          /\ job'[s].loaded = job[s].loaded
      BY <1>1, <2>1, <2>3, <2>4, <2>5, LoadMoves DEF Same
    <2>7. AboutItsTable(s)' /\ RowIsThere(s)' /\ PhotosAreKnown(s)'
      BY <1>1, <1>3, <2>1, <2>6 DEF pc, JobInv, AboutItsTable, RowIsThere, PhotosAreKnown
    <2>8. RestIsAsRead(s)'
      BY <1>1, <2>1, <2>3, <2>6 DEF pc, JobInv, RestIsAsRead
    <2>9. SetOK(s)'
      BY <1>1, <2>1, <2>3, <2>6 DEF SetOK
    <2> QED
      BY <1>1, <2>5, <2>6, <2>7, <2>8, <2>9 DEF Quiet, JobInv
  <1> QED
    BY <1>2, <1>3

LEMMA LoadPhotosIsQuiet ==
  ASSUME IInv, NEW s \in Sessions, LoadPhotos(s)
  PROVE  Quiet(s)
  <1>1. /\ job[s].table = "profiles" /\ job[s].pc = "load photos" /\ UNCHANGED <<row, photos>>
        /\ "profiles" \in Tables /\ "profiles" # "none"
    BY TablesAre DEF LoadPhotos, At
  <1>2. job \in [Sessions -> Job] /\ SetOK(s) /\ JobInv(s) /\ photos \subseteq PhotoRow
    BY DEF IInv, TypeOK, SetOK
  <1>3. /\ job' \in [Sessions -> Job] /\ OthersKeep(s)
        /\ job'[s].table = "profiles" /\ job'[s].column = job[s].column
        /\ job'[s].raced = job[s].raced /\ job[s].raced # "loaded"
        /\ job'[s].pc = "write" /\ job'[s].set = job[s].set /\ job'[s].album = job[s].album
        /\ job'[s].loaded = photos
    BY <1>1, <1>2, LoadPhotosMoves DEF Same, JobInv, AboutItsTable
  <1>4. AboutItsTable(s)' /\ RowIsThere(s)' /\ PhotosAreKnown(s)'
    BY <1>1, <1>2, <1>3 DEF JobInv, AboutItsTable, RowIsThere, PhotosAreKnown
  <1>5. RestIsAsRead(s)'
    BY <1>1, <1>2, <1>3 DEF JobInv, RestIsAsRead
  <1> QED
    BY <1>1, <1>2, <1>3, <1>4, <1>5 DEF Quiet, SetOK, JobInv

LEMMA WriteIsQuiet ==
  ASSUME IInv, NEW s \in Sessions, NEW t \in Tables, Write(s, t)
  PROVE  Quiet(s)
  <1>1. /\ job[s].table = t /\ job[s].pc = "write" /\ UNCHANGED <<row, photos>>
        /\ t # "none" /\ t # "profiles"
    BY TablesAre DEF Write, At
  <1>2. CASE t = "users" /\ DOMAIN job[s].set = {}
    BY <1>1, <1>2, EndIsQuiet DEF Write
  <1>3. CASE ~(t = "users" /\ DOMAIN job[s].set = {})
    <2>1. job \in [Sessions -> Job] /\ SetOK(s) /\ JobInv(s)
      BY DEF IInv, TypeOK, SetOK
    <2>2. ~Locked(s, t) /\ job' = [job EXCEPT ![s].pc = "commit"]
      BY <1>3 DEF Write
    <2>3. /\ job' \in [Sessions -> Job] /\ OthersKeep(s)
          /\ job'[s].table = t /\ job'[s].column = job[s].column /\ job'[s].raced = job[s].raced
          /\ job'[s].pc = "commit" /\ job'[s].set = job[s].set
          /\ job'[s].loaded = job[s].loaded
      BY <1>1, <2>1, <2>2, WriteMoves DEF Same
    <2>4. AboutItsTable(s)' /\ RowIsThere(s)' /\ PhotosAreKnown(s)'
      BY <1>1, <2>1, <2>3 DEF JobInv, AboutItsTable, RowIsThere, PhotosAreKnown
    <2>5. RestIsAsRead(s)'
      BY <1>1, <2>1, <2>3 DEF JobInv, RestIsAsRead
    <2>6. \A r \in Sessions \ {s} : ~(job[r].pc = "commit" /\ job[r].table = t)
      BY <2>2 DEF Locked, At
    <2> QED
      BY <1>1, <2>1, <2>3, <2>4, <2>5, <2>6 DEF Quiet, SetOK, JobInv
  <1> QED
    BY <1>2, <1>3

LEMMA InsertStatementIsQuiet ==
  ASSUME IInv, NEW s \in Sessions, Insert(s)
  PROVE  Quiet(s)
  <1> DEFINE t == "search_preferences"
  <1>1. /\ job[s].table = t /\ job[s].pc = "insert" /\ UNCHANGED <<row, photos>>
        /\ t \in Tables /\ t # "none" /\ t # "profiles"
    BY TablesAre DEF Insert, At
  <1>2. CASE row[t] # NoRow
    BY <1>1, <1>2, EndIsQuiet DEF Insert
  <1>3. CASE row[t] = NoRow
    <2>1. job \in [Sessions -> Job] /\ SetOK(s) /\ JobInv(s)
      BY DEF IInv, TypeOK, SetOK
    <2>2. ~Locked(s, t) /\ job' = [job EXCEPT ![s].pc = "commit"]
      BY <1>3 DEF Insert
    <2>3. /\ job' \in [Sessions -> Job] /\ OthersKeep(s)
          /\ job'[s].table = t /\ job'[s].column = job[s].column /\ job'[s].raced = job[s].raced
          /\ job'[s].pc = "commit" /\ job'[s].set = job[s].set
          /\ job'[s].loaded = job[s].loaded
      BY <1>1, <2>1, <2>2, WriteMoves DEF Same
    <2>4. AboutItsTable(s)' /\ RowIsThere(s)' /\ PhotosAreKnown(s)'
      BY <1>1, <2>1, <2>3 DEF JobInv, AboutItsTable, RowIsThere, PhotosAreKnown
    <2>5. RestIsAsRead(s)'
      BY <1>1, <2>1, <2>3 DEF JobInv, RestIsAsRead
    <2>6. \A r \in Sessions \ {s} : ~(job[r].pc = "commit" /\ job[r].table = t)
      BY <2>2 DEF Locked, At
    <2> QED
      BY <1>1, <2>1, <2>3, <2>4, <2>5, <2>6 DEF Quiet, SetOK, JobInv
  <1> QED
    BY <1>2, <1>3

\* The unique key of the photos lets only an edit pass whose photos are still there.
LEMMA WriteProfileIsQuiet ==
  ASSUME IInv, NEW s \in Sessions, NEW b \in Batches, WriteProfile(s, b)
  PROVE  Quiet(s)
  <1>1. /\ job[s].table = "profiles" /\ job[s].pc = "write" /\ UNCHANGED <<row, photos>>
        /\ row["profiles"] # NoRow /\ PositionsFree(s) /\ Fresh(b) /\ ~Locked(s, "profiles")
        /\ "profiles" \in Tables /\ "profiles" # "none"
    BY TablesAre DEF WriteProfile, At
  <1>2. job \in [Sessions -> Job] /\ SetOK(s) /\ JobInv(s)
    BY DEF IInv, TypeOK, SetOK
  <1>3. job[s].album \in Albums
    BY <1>1, <1>2 DEF JobInv, PhotosAreKnown
  <1>4. 1 \in DOMAIN job[s].album
    BY <1>1, <1>3, AlbumRows DEF IInv, AlbumIsWhole
  <1>5. PICK p \in photos : p.position = 1
    BY <1>1, PhotosAre DEF IInv
  <1>6. p \in job[s].loaded
    BY <1>1, <1>4, <1>5 DEF PositionsFree
  <1>7. job[s].loaded = photos /\ job[s].raced # "loaded"
    BY <1>1, <1>2, <1>6 DEF JobInv, PhotosAreKnown, Unrelated
  <1>8. /\ job' \in [Sessions -> Job] /\ OthersKeep(s)
        /\ job'[s].table = "profiles" /\ job'[s].column = job[s].column
        /\ job'[s].raced = job[s].raced
        /\ job'[s].pc = "commit" /\ job'[s].set = job[s].set /\ job'[s].album = job[s].album
        /\ job'[s].loaded = job[s].loaded /\ job'[s].batch = b
    BY <1>1, <1>2, WriteProfileMoves DEF Same
  <1>9. \A q \in photos : q.batch # b
    BY <1>1 DEF Fresh
  <1>10. AboutItsTable(s)' /\ RowIsThere(s)'
    BY <1>1, <1>2, <1>8 DEF JobInv, AboutItsTable, RowIsThere
  <1>11. PhotosAreKnown(s)'
    BY <1>1, <1>3, <1>7, <1>8, <1>9 DEF PhotosAreKnown
  <1>12. RestIsAsRead(s)'
    BY <1>1, <1>2, <1>8 DEF JobInv, RestIsAsRead
  <1>13. \A r \in Sessions \ {s} :
           /\ ~(job[r].pc = "commit" /\ job[r].table = "profiles")
           /\ \A q \in job[r].loaded : q.batch # b
    BY <1>1 DEF Locked, At, Fresh
  <1> QED
    BY <1>1, <1>2, <1>8, <1>10, <1>11, <1>12, <1>13 DEF Quiet, SetOK, JobInv

-----------------------------------------------------------------------------
(* The commit, and the administrator's delete.                             *)

\* What a commit leaves in its table, and of the photos.
LEMMA CommitWrites ==
  ASSUME IInv, NEW s \in Sessions, Commit(s)
  PROVE  /\ job[s].table \in Tables
         /\ row'[job[s].table] \in RowsOf(job[s].table)
         /\ row[job[s].table] # NoRow =>
              \A c \in Columns[job[s].table] :
                row'[job[s].table][c] =
                  IF c \in DOMAIN job[s].set THEN job[s].set[c] ELSE row[job[s].table][c]
         /\ \A t \in Tables \ {job[s].table} : row'[t] = row[t]
         /\ DOMAIN row' = Tables
         /\ job[s].table = "profiles" =>
              /\ job[s].batch \in Batches /\ job[s].album \in Albums
              /\ photos' = RowsOfAlbum(job[s].batch, job[s].album)
         /\ job[s].table # "profiles" => photos' = photos
         /\ EndAndOvertake(s)
  <1> DEFINE t == job[s].table
  <1>1. job[s].pc = "commit" /\ EndAndOvertake(s)
    BY DEF Commit
  <1>2. /\ job \in [Sessions -> Job] /\ JobInv(s) /\ job[s].set \in Partial
        /\ DOMAIN row = Tables
    BY DEF IInv, TypeOK, Job
  <1>3. t \in Tables
    BY <1>1, <1>2 DEF JobInv, AboutItsTable
  <1>4. row[t] \in RowsOf(t) \cup {NoRow}
    BY <1>3 DEF IInv, TypeOK
  <1>5. row' = [row EXCEPT ![t] = IF row[t] = NoRow THEN job[s].set ELSE Overlay(row[t], job[s].set)]
    BY DEF Commit
  <1>6. /\ row'[t] = IF row[t] = NoRow THEN job[s].set ELSE Overlay(row[t], job[s].set)
        /\ \A u \in Tables \ {t} : row'[u] = row[u]
        /\ DOMAIN row' = Tables
    BY <1>2, <1>3, <1>5
  <1>7. row'[t] \in RowsOf(t)
    <2>1. CASE row[t] = NoRow
      BY <1>1, <1>2, <1>6, <2>1 DEF JobInv, RowIsThere
    <2>2. CASE row[t] # NoRow
      BY <1>2, <1>3, <1>4, <1>6, <2>2, OverlayTyped
    <2> QED
      BY <2>1, <2>2
  <1>8. ASSUME row[t] # NoRow, NEW c \in Columns[t]
        PROVE  row'[t][c] = IF c \in DOMAIN job[s].set THEN job[s].set[c] ELSE row[t][c]
    BY <1>2, <1>3, <1>4, <1>6, <1>8, OverlayTyped
  <1>9. ASSUME t = "profiles"
        PROVE  /\ job[s].batch \in Batches /\ job[s].album \in Albums
               /\ photos' = RowsOfAlbum(job[s].batch, job[s].album)
    <2>1. job[s].batch \in Batches /\ job[s].album \in Albums /\ job[s].loaded = photos
      BY <1>1, <1>2, <1>9 DEF JobInv, PhotosAreKnown
    <2>2. photos' = NewPhotos(s)
      BY <1>9, <2>1 DEF Commit
    <2> QED
      BY <2>1, <2>2 DEF NewPhotos, RowsOfAlbum
  <1>10. t # "profiles" => photos' = photos
    BY DEF Commit
  <1> QED
    BY <1>1, <1>3, <1>6, <1>7, <1>8, <1>9, <1>10

LEMMA CommitKeeps ==
  ASSUME IInv, NEW s \in Sessions, Commit(s)
  PROVE  IInv'
  <1> DEFINE t == job[s].table
  <1>1. job[s].pc = "commit" /\ job \in [Sessions -> Job] /\ "none" \notin Tables /\ JobInv(s)
    BY TablesAre DEF Commit, IInv, TypeOK
  <1>2. /\ t \in Tables /\ row'[t] \in RowsOf(t) /\ row'[t] # NoRow
        /\ \A u \in Tables \ {t} : row'[u] = row[u]
        /\ DOMAIN row' = Tables /\ EndAndOvertake(s)
    BY CommitWrites
  <1>3. job'[s] = Idle /\ job' \in [Sessions -> Job]
    BY <1>1, <1>2, CommitMoves, IdleTyped DEF EndAndOvertake, Others
  <1>4. row' = [u \in Tables |-> row'[u]]
    BY <1>2 DEF Commit, IInv, TypeOK
  <1>5. AlbumIsWhole' /\ photos' \subseteq PhotoRow
    <2>1. CASE t = "profiles"
      <3>1. /\ job[s].batch \in Batches /\ job[s].album \in Albums
            /\ photos' = RowsOfAlbum(job[s].batch, job[s].album) /\ row'["profiles"] # NoRow
        BY <1>2, <2>1, CommitWrites
      <3>2. AlbumIsWhole'
        BY <3>1 DEF AlbumIsWhole, RowsOfAlbum
      <3> QED
        BY <3>1, <3>2, AlbumRows
    <2>2. CASE t # "profiles"
      <3>1. photos' = photos /\ row'["profiles"] = row["profiles"]
        BY <1>2, <2>2, CommitWrites, TablesAre
      <3> QED
        BY <3>1 DEF IInv, TypeOK, AlbumIsWhole
    <2> QED
      BY <2>1, <2>2
  <1>6. ASSUME NEW r \in Sessions
        PROVE  SetOK(r)'
    BY <1>1, <1>2, <1>3, CommitMoves, IdleTyped DEF IInv, TypeOK, SetOK
  <1>7. TypeOK'
    <2>1. \A u \in Tables : row'[u] \in RowsOf(u) \cup {NoRow}
      BY <1>2 DEF IInv, TypeOK
    <2>2. row'["users"] # NoRow
      BY <1>2, TablesAre DEF IInv, TypeOK
    <2>3. row' \in [Tables -> (UNION {RowsOf(u) : u \in Tables}) \cup {NoRow}]
      BY <1>4, <2>1, RowsTyped
    <2> QED
      BY <1>3, <1>5, <1>6, <2>1, <2>2, <2>3 DEF TypeOK, SetOK
  <1>8. ASSUME NEW r \in Sessions
        PROVE  JobInv(r)'
    <2>1. CASE r = s
      BY <1>1, <1>3, <2>1, IdleTyped
      DEF JobInv, AboutItsTable, RowIsThere, PhotosAreKnown, RestIsAsRead
    <2>2. CASE r # s
      <3>1. /\ job'[r].table = job[r].table /\ job'[r].column = job[r].column
            /\ job'[r].pc = job[r].pc /\ job'[r].set = job[r].set
            /\ job'[r].album = job[r].album /\ job'[r].loaded = job[r].loaded
            /\ job'[r].batch = job[r].batch
            /\ job[r].table # t => job'[r] = job[r]
            /\ job[r].table = t => job'[r].raced # "no"
            /\ job'[r].raced = "loaded" /\ job[r].raced # "loaded" => job[r].pc \in {"write", "commit"}
        BY <1>1, <1>2, <2>2, CommitMoves
      <3>2. JobInv(r) /\ Apart(s, r)
        BY <2>2 DEF IInv
      <3>3. AboutItsTable(r)'
        BY <3>1, <3>2 DEF JobInv, AboutItsTable
      <3>4. CASE job[r].table # t
        <4>1. job'[r] = job[r]
          BY <3>1, <3>4
        <4>2. job[r].pc # "idle" => row'[job[r].table] = row[job[r].table]
          BY <1>2, <3>2, <3>4 DEF JobInv, AboutItsTable
        <4>3. job[r].table = "profiles" => photos' = photos
          BY <3>4, CommitWrites
        <4>4. RowIsThere(r)'
          BY <3>2, <4>1, <4>2 DEF JobInv, RowIsThere
        <4>5. job[r].table \in Tables => row'[job[r].table] = row[job[r].table]
          BY <1>2, <3>4
        <4>6. PhotosAreKnown(r)'
          BY <3>2, <4>1, <4>3, <4>5, TablesAre DEF JobInv, PhotosAreKnown, Unrelated
        <4>7. RestIsAsRead(r)'
          BY <3>2, <4>1, <4>3, <4>5 DEF JobInv, RestIsAsRead
        <4> QED
          BY <3>3, <4>4, <4>6, <4>7 DEF JobInv
      <3>5. CASE job[r].table = t
        <4>1. job'[r].table = t /\ job'[r].pc # "commit" /\ job'[r].raced # "no"
          BY <1>1, <3>1, <3>2, <3>5 DEF Apart
        <4>2. RowIsThere(r)' /\ RestIsAsRead(r)'
          BY <1>2, <4>1 DEF RowIsThere, RestIsAsRead
        <4>3. ASSUME t = "profiles"
              PROVE  Unrelated(job[r].loaded)'
          <5>1. At(s, "profiles", "commit")
            BY <1>1, <4>3 DEF At
          <5>2. \A p \in job[r].loaded : p.batch # job[s].batch
            BY <3>2, <5>1 DEF Apart
          <5>3. \A q \in photos' : q.batch = job[s].batch
            BY <4>3, CommitWrites, AlbumRows
          <5> QED
            BY <3>1, <5>2, <5>3 DEF Unrelated
        <4>4. PhotosAreKnown(r)'
          BY <3>1, <3>2, <4>1, <4>3 DEF JobInv, PhotosAreKnown
        <4> QED
          BY <3>3, <4>2, <4>4 DEF JobInv
      <3> QED
        BY <3>4, <3>5
    <2> QED
      BY <2>1, <2>2
  <1>9. ASSUME NEW q \in Sessions, NEW r \in Sessions, q # r
        PROVE  Apart(q, r)'
    <2>1. CASE q = s
      BY <1>3, <2>1, IdleTyped DEF Apart, At
    <2>2. CASE r = s
      BY <1>3, <2>2, IdleTyped DEF Apart, At
    <2>3. CASE q # s /\ r # s
      <3>1. Apart(q, r)
        BY <1>9 DEF IInv
      <3>2. /\ job'[q].table = job[q].table /\ job'[q].pc = job[q].pc /\ job'[q].batch = job[q].batch
            /\ job'[r].table = job[r].table /\ job'[r].pc = job[r].pc /\ job'[r].loaded = job[r].loaded
        BY <1>1, <1>2, <2>3, CommitMoves
      <3> QED
        BY <3>1, <3>2 DEF Apart, At
    <2> QED
      BY <2>1, <2>2, <2>3
  <1> QED
    BY <1>5, <1>7, <1>8, <1>9 DEF IInv

LEMMA DeleteKeeps ==
  ASSUME IInv, DeleteProfile
  PROVE  IInv'
  <1>1. /\ row' = [row EXCEPT !["profiles"] = NoRow] /\ photos' = {} /\ job' = job
        /\ \A s \in Sessions : ~At(s, "profiles", "commit")
    BY DEF DeleteProfile
  <1>2. /\ "profiles" \in Tables /\ "users" \in Tables /\ "users" # "profiles"
        /\ "search_preferences" # "profiles"
    BY TablesAre
  <1>3. /\ row'["profiles"] = NoRow /\ \A t \in Tables \ {"profiles"} : row'[t] = row[t]
        /\ row' = [t \in Tables |-> row'[t]]
    BY <1>1, <1>2 DEF IInv, TypeOK
  <1>4. TypeOK'
    <2>1. \A t \in Tables : row'[t] \in RowsOf(t) \cup {NoRow}
      BY <1>3 DEF IInv, TypeOK
    <2>2. row' \in [Tables -> (UNION {RowsOf(t) : t \in Tables}) \cup {NoRow}]
      BY <1>3, <2>1, RowsTyped
    <2> QED
      BY <1>1, <1>2, <1>3, <2>1, <2>2 DEF IInv, TypeOK
  <1>5. AlbumIsWhole'
    BY <1>1, <1>3 DEF AlbumIsWhole
  <1>6. ASSUME NEW s \in Sessions
        PROVE  JobInv(s)'
    <2>1. JobInv(s) /\ job'[s] = job[s] /\ ~(job[s].table = "profiles" /\ job[s].pc = "commit")
      BY <1>1 DEF IInv, At
    <2>2. AboutItsTable(s)'
      BY <2>1 DEF JobInv, AboutItsTable
    <2>3. RowIsThere(s)'
      BY <1>2, <1>3, <2>1 DEF JobInv, AboutItsTable, RowIsThere
    <2>4. PhotosAreKnown(s)'
      BY <1>3, <2>1 DEF JobInv, PhotosAreKnown
    <2>5. RestIsAsRead(s)'
      BY <1>2, <1>3, <2>1 DEF JobInv, RestIsAsRead
    <2> QED
      BY <2>2, <2>3, <2>4, <2>5 DEF JobInv
  <1>7. \A s, r \in Sessions : s # r => Apart(s, r)'
    BY <1>1 DEF IInv, Apart, At
  <1> QED
    BY <1>4, <1>5, <1>6, <1>7 DEF IInv

LEMMA Starts == Init => IInv
  <1> SUFFICES ASSUME Init PROVE IInv
    OBVIOUS
  <1>1. /\ Tables = {"users", "search_preferences", "profiles"} /\ "none" \notin Tables
        /\ \A t \in Tables : NoRow \notin RowsOf(t)
    BY TablesAre
  <1>2. \A t \in Tables : [c \in Columns[t] |-> Unset] \in RowsOf(t)
    BY DEF RowsOf
  <1>3. /\ \A t \in Tables : row[t] \in RowsOf(t) \cup {NoRow}
        /\ row["users"] # NoRow /\ row["profiles"] # NoRow
        /\ row = [t \in Tables |-> row[t]]
    BY <1>1, <1>2 DEF Init
  <1>4. row \in [Tables -> (UNION {RowsOf(t) : t \in Tables}) \cup {NoRow}]
    BY <1>3, RowsTyped
  <1>5. job \in [Sessions -> Job] /\ \A s \in Sessions : job[s] = Idle
    BY IdleTyped DEF Init
  <1>6. AlbumIsWhole /\ photos \subseteq PhotoRow
    <2> PICK b \in Batches, a \in Albums : photos = RowsOfAlbum(b, a)
      BY DEF Init, RowsOfAlbum
    <2>1. AlbumIsWhole
      BY <1>3 DEF AlbumIsWhole, RowsOfAlbum
    <2> QED
      BY <2>1, AlbumRows
  <1>7. TypeOK
    BY <1>3, <1>4, <1>5, <1>6, IdleTyped DEF TypeOK
  <1>8. \A s \in Sessions : JobInv(s)
    BY <1>1, <1>5, IdleTyped DEF JobInv, AboutItsTable, RowIsThere, PhotosAreKnown, RestIsAsRead
  <1>9. \A s, r \in Sessions : Apart(s, r)
    BY <1>5, IdleTyped DEF Apart, At
  <1> QED
    BY <1>6, <1>7, <1>8, <1>9 DEF IInv

LEMMA StutterKeeps ==
  ASSUME IInv, UNCHANGED vars
  PROVE  IInv'
  <1>1. UNCHANGED <<row, photos, job>>
    BY DEF vars
  <1>2. TypeOK' /\ AlbumIsWhole'
    BY <1>1 DEF IInv, TypeOK, AlbumIsWhole
  <1>3. ASSUME NEW s \in Sessions
        PROVE  JobInv(s)'
    <2>1. JobInv(s)
      BY DEF IInv
    <2>2. AboutItsTable(s)' /\ RowIsThere(s)' /\ PhotosAreKnown(s)'
      BY <1>1, <2>1 DEF JobInv, AboutItsTable, RowIsThere, PhotosAreKnown, Unrelated
    <2>3. RestIsAsRead(s)'
      BY <1>1, <2>1 DEF JobInv, RestIsAsRead
    <2> QED
      BY <2>2, <2>3 DEF JobInv
  <1>4. \A s, r \in Sessions : s # r => Apart(s, r)'
    BY <1>1 DEF IInv, Apart, At
  <1> QED
    BY <1>2, <1>3, <1>4 DEF IInv

LEMMA Kept == IInv /\ [Next]_vars => IInv'
  <1> SUFFICES ASSUME IInv, [Next]_vars PROVE IInv'
    OBVIOUS
  <1>1. ASSUME NEW s \in Sessions, Serve(s) PROVE IInv'
    <2>1. CASE Commit(s)
      BY <2>1, CommitKeeps
    <2>2. ASSUME ~Commit(s) PROVE Quiet(s)
      <3>1. ASSUME NEW t \in Tables, Load(s, t) \/ Write(s, t) PROVE Quiet(s)
        BY <3>1, LoadIsQuiet, WriteIsQuiet
      <3>2. WriteProfileFails(s) => Quiet(s)
        BY EndIsQuiet DEF WriteProfileFails
      <3> QED
        BY <1>1, <2>2, <3>1, <3>2, FlipIsQuiet, ReadPhotosIsQuiet, LoadPhotosIsQuiet,
          WriteProfileIsQuiet, InsertStatementIsQuiet DEF Serve
    <2> QED
      BY <2>1, <2>2, QuietKeeps
  <1>2. ASSUME NEW s \in Sessions, Ask(s) PROVE IInv'
    BY <1>2, AskIsQuiet, QuietKeeps
  <1>3. ASSUME NEW s \in Sessions, Abort(s) PROVE IInv'
    <2>1. End(s) /\ UNCHANGED <<row, photos>>
      BY <1>3 DEF Abort
    <2> QED
      BY <2>1, EndIsQuiet, QuietKeeps
  <1> QED
    BY <1>1, <1>2, <1>3, DeleteKeeps, StutterKeeps DEF Next, Rest

LEMMA Invariant == Spec => []IInv
  BY Starts, Kept, PTL DEF Spec

-----------------------------------------------------------------------------
(* The theorems.                                                           *)

\* Rows have their columns, and sessions write columns of their table, whatever
\* requests overlap, fail or are lost.
THEOREM TypeCorrect == Spec => []TypeOK
  <1>1. IInv => TypeOK
    BY DEF IInv
  <1> QED
    BY <1>1, Invariant, PTL

\* ProfileRepository.update: a profile's photos are one album, whole and in order,
\* and so it can be read, however many edits replace them at a time.
THEOREM PhotosAreOneAlbum == Spec => []AlbumIsWhole
  <1>1. IInv => AlbumIsWhole
    BY DEF IInv
  <1> QED
    BY <1>1, Invariant, PTL

\* uq_profile_photos_position: an edit whose photos were replaced since it loaded
\* them never reaches its commit.
THEOREM LaterEditFails == Spec => []FirstEditWins
  <1>1. IInv => FirstEditWins
    BY DEF IInv, FirstEditWins, JobInv, PhotosAreKnown, At
  <1> QED
    BY <1>1, Invariant, PTL

\* update() writes all columns of what was read; a request that nobody overtook
\* changes its own field only, because it writes the others back as they are.
THEOREM OthersFieldsStay == Spec => OwnFieldOnly
  <1>1. ASSUME IInv, [Next]_vars PROVE [OwnField]_vars
    <2> SUFFICES ASSUME NEW s \in Sessions, Commit(s), job[s].raced = "no",
                        row[job[s].table] # NoRow
                 PROVE  /\ \A c \in Columns[job[s].table] \ {job[s].column} :
                             row'[job[s].table][c] = row[job[s].table][c]
                        /\ job[s].column # "photos" => AlbumOf(photos') = AlbumOf(photos)
      BY DEF OwnField
    <2>1. JobInv(s) /\ job[s].pc = "commit" /\ job[s].table \in Tables
      BY <1>1, CommitWrites DEF IInv, Commit
    <2>2. \A c \in DOMAIN job[s].set \ {job[s].column} : job[s].set[c] = row[job[s].table][c]
      BY <2>1 DEF JobInv, RestIsAsRead
    <2>3. ASSUME NEW c \in Columns[job[s].table] \ {job[s].column}
          PROVE  row'[job[s].table][c] = row[job[s].table][c]
      BY <1>1, <2>2, CommitWrites
    <2>4. ASSUME job[s].column # "photos"
          PROVE  AlbumOf(photos') = AlbumOf(photos)
      <3>1. CASE job[s].table = "profiles"
        <4>1. job[s].album = AlbumOf(photos)
          BY <2>1, <2>4, <3>1 DEF JobInv, RestIsAsRead
        <4> QED
          BY <1>1, <3>1, <4>1, CommitWrites, AlbumRows
      <3>2. CASE job[s].table # "profiles"
        BY <1>1, <3>2, CommitWrites
      <3> QED
        BY <3>1, <3>2
    <2> QED
      BY <2>3, <2>4
  <1>2. IInv /\ [Next]_vars => [OwnField]_vars
    BY <1>1
  <1> QED
    BY <1>2, Invariant, PTL DEF Spec, OwnFieldOnly

=============================================================================
