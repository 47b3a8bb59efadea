------------------------------- MODULE Settings -------------------------------
(***************************************************************************)
(* What a user can change afterwards: their row in users, their search     *)
(* preferences, their profile with its photos.                             *)
(*                                                                         *)
(* Every use case does the same: it reads the row, changes one field of    *)
(* what it read, and has update() load the row again and set each column   *)
(* to the value of what was read first.  SQLAlchemy then writes the        *)
(* columns that differ from the row as loaded.  Two taps, a tap beside     *)
(* /start, or an administrator's form that was opened minutes ago make     *)
(* several requests on one row run at once: see Premium for sessions.      *)
(* No statement touches two users' rows, so the module is about one user.  *)
(***************************************************************************)
EXTENDS Integers, Sequences

CONSTANTS
  Sessions,
  Values,     \* the values of a column
  Unset,      \* one of them: the default, for a location NULL
  Albums,     \* the photos of one message: sequences of file ids
  Batches,    \* ids of photo rows that are inserted together
  Aborts,     \* may a session fail or the process crash?
  NoRow, NoBatch

Columns ==
  [users              |-> {"username", "notifications", "language", "banned"},
   search_preferences |-> {"gender", "rating", "location"},
   profiles           |-> {"basics", "location", "visible"}]  \* basics: name, age, gender, bio

Tables == DOMAIN Columns

AllColumns == UNION {Columns[t] : t \in Tables}

RowsOf(t) == [Columns[t] -> Values]

ASSUME UnsetIsAValue == Unset \in Values

ASSUME NullsAreNotIds ==
  NoBatch \notin Batches /\ \A t \in Tables : NoRow \notin RowsOf(t)

ASSUME AlbumsHavePhotos == \A a \in Albums : a \in Seq(STRING) /\ Len(a) \in 1 .. 6

ASSUME AbortsIsBoolean == Aborts \in BOOLEAN

VARIABLES
  row,     \* the committed row of each table, or NoRow
  photos,  \* the committed rows of profile_photos
  job      \* what each session is doing

vars == <<row, photos, job>>

-----------------------------------------------------------------------------

Partial == UNION {[C -> Values] : C \in SUBSET AllColumns}

PhotoRow == [batch: Batches, position: 1 .. 6, file: STRING]

\* raced is not in the code: it tells whether another session has committed
\* to the row since this one read it, or since it loaded it.
Job ==
  [table: Tables \cup {"none"}, column: AllColumns \cup {"photos", "none"},
   pc: {"idle", "flip", "photos", "load", "load photos", "write", "insert", "commit"},
   set: Partial,                     \* what is to be written
   album: Albums \cup {<<>>},
   loaded: SUBSET PhotoRow,          \* the photo rows update() deletes
   batch: Batches \cup {NoBatch},
   raced: {"no", "read", "loaded"}]

NoColumns == [c \in {} |-> Unset]

Request(t, c, pc, set, album) ==
  [table |-> t, column |-> c, pc |-> pc, set |-> set, album |-> album,
   loaded |-> {}, batch |-> NoBatch, raced |-> "no"]

Idle == Request("none", "none", "idle", NoColumns, <<>>)

Begin(s, request) == job[s] = Idle /\ job' = [job EXCEPT ![s] = request]

End(s) == job' = [job EXCEPT ![s] = Idle]

At(s, t, pc) == job[s].table = t /\ job[s].pc = pc

\* A session that has written to a row holds its lock, or that of its key.
Locked(s, t) == \E r \in Sessions \ {s} : At(r, t, "commit")

Overlay(old, set) ==
  [c \in DOMAIN old |-> IF c \in DOMAIN set THEN set[c] ELSE old[c]]

\* The UPDATE sets what differs, and a location that is not NULL: the element
\* it was read as never equals the one it is written as.
ToWrite(want, old) ==
  {c \in DOMAIN want : want[c] # old[c] \/ (c = "location" /\ want[c] # Unset)}

Others(s, t) == {r \in Sessions \ {s} : job[r].table = t}

\* The session is done, and others that are at this row have been overtaken.
EndAndOvertake(s) ==
  job' = [r \in Sessions |->
            CASE r = s -> Idle
              [] r \in Others(s, job[s].table) ->
                   [job[r] EXCEPT !.raced =
                      IF job[r].pc \in {"write", "commit"} THEN "loaded"
                      ELSE IF job[r].raced = "no" THEN "read" ELSE job[r].raced]
              [] OTHER -> job[r]]

-----------------------------------------------------------------------------
(* Requests and what they read.                                            *)

Change(t, c, v) == [row[t] EXCEPT ![c] = v]

\* What the request wants the row to be: what it has read, with its field changed.
Update(s, t, c, v) ==
  /\ row[t] # NoRow
  /\ Begin(s, Request(t, c, IF t = "profiles" THEN "photos" ELSE "load",
                      Change(t, c, v), <<>>))
  /\ UNCHANGED <<row, photos>>

\* The use cases on users write only a change.
UpdateUser(s, c, v) == v # row["users"][c] /\ Update(s, "users", c, v)

\* Mutated: a /start takes the language of the Telegram client over as well.
StartWithLanguage(s, v) ==
  /\ v # row["users"]["username"]
  /\ Begin(s, Request("users", "username", "load",
                      [Change("users", "username", v) EXCEPT !["language"] = Unset], <<>>))
  /\ UNCHANGED <<row, photos>>

\* RegisterUserUseCase for a returning user: the username is refreshed.
Start(s, v) == UpdateUser(s, "username", v)

SetLanguage(s, v) == UpdateUser(s, "language", v)

\* The new value is the opposite of what registration read; the use case reads
\* the row again.
ToggleNotifications(s, v) ==
  /\ v # row["users"]["notifications"]
  /\ Begin(s, Request("users", "notifications", "flip", [c \in {"notifications"} |-> v], <<>>))
  /\ UNCHANGED <<row, photos>>

SetNotifications(s) ==
  /\ At(s, "users", "flip")
  /\ LET v == job[s].set["notifications"]
     IN  IF v = row["users"]["notifications"] THEN End(s)
         ELSE job' = [job EXCEPT ![s] = Request("users", "notifications", "load",
                                                Change("users", "notifications", v), <<>>)]
  /\ UNCHANGED <<row, photos>>

\* The administrator's form was rendered with all columns, and sends them all.
SetBan(s, v) == UpdateUser(s, "banned", v)

Defaults == [c \in Columns["search_preferences"] |-> Unset]

InsertPreferences(s, c, new) ==
  /\ row["search_preferences"] = NoRow
  /\ Begin(s, Request("search_preferences", c, "insert", new, <<>>))
  /\ UNCHANGED <<row, photos>>

\* Mutated: the new row has no defaults.
PreferBarely(s, c, v) ==
  \/ Update(s, "search_preferences", c, v)
  \/ InsertPreferences(s, c, [d \in {c} |-> v])

\* The use cases that change a preference create the row if it is missing.
Prefer(s, c, v) ==
  \/ Update(s, "search_preferences", c, v)
  \/ InsertPreferences(s, c, [Defaults EXCEPT ![c] = v])

\* GetSearchPreferencesUseCase creates it when it is first asked for: so does
\* every view of /settings, in a transaction of its own.
GetPreferences(s) == InsertPreferences(s, "none", Defaults)

SetGender(s, v) == Prefer(s, "gender", v)

\* Only with premium; without it the view is shown again.
SetMinRating(s, v, premium) ==
  IF premium THEN Prefer(s, "rating", v) ELSE GetPreferences(s)

\* The end of either conversation that asks for a place.
SetLocation(s, v) == v # Unset /\ Prefer(s, "location", v)

\* EditProfileUseCase; a profile that is missing is not edited.
Edit(s, c, v) == Update(s, "profiles", c, v)

EditPhotos(s, album) ==
  /\ row["profiles"] # NoRow
  /\ Begin(s, Request("profiles", "photos", "photos", row["profiles"], album))
  /\ UNCHANGED <<row, photos>>

\* HideProfileUseCase and ShowProfileUseCase.
SetVisible(s, v) == Update(s, "profiles", "visible", v)

\* selectinload reads the photos in a statement of its own.
AlbumOf(rows) ==
  [i \in {p.position : p \in rows} |-> (CHOOSE p \in rows : p.position = i).file]

ReadPhotos(s) ==
  /\ At(s, "profiles", "photos")
  /\ IF photos = {}               \* deleted in between: InvalidPhotos
     THEN End(s)
     ELSE job' = [job EXCEPT ![s].pc = "load",
                             ![s].album = IF job[s].column = "photos" THEN @
                                          ELSE AlbumOf(photos)]
  /\ UNCHANGED <<row, photos>>

-----------------------------------------------------------------------------
(* update(), in all three repositories.                                    *)

\* The row is loaded again and compared with what is to be written.
Load(s, t) ==
  /\ At(s, t, "load")
  /\ IF row[t] = NoRow            \* ValueError
     THEN End(s)
     ELSE LET want == job[s].set
              writes == ToWrite(want, row[t])
          IN  job' = [job EXCEPT
                        ![s].pc = IF t = "profiles" THEN "load photos" ELSE "write",
                        ![s].set = [c \in writes |-> want[c]]]
  /\ UNCHANGED <<row, photos>>

\* Mutated: the photos are replaced only if they were edited.
LoadPhotosIfEdited(s) ==
  /\ At(s, "profiles", "load photos")
  /\ job' = [job EXCEPT ![s].pc = "write",
                        ![s].album = IF job[s].column = "photos" THEN @ ELSE <<>>,
                        ![s].loaded = IF job[s].column = "photos" THEN photos ELSE {}]
  /\ UNCHANGED <<row, photos>>

LoadPhotos(s) ==
  /\ At(s, "profiles", "load photos")
  /\ job' = [job EXCEPT ![s].pc = "write", ![s].loaded = photos]
  /\ UNCHANGED <<row, photos>>

\* The UPDATE of a users row that has no columns to set is not sent; the other
\* tables' updated_at always changes.
Write(s, t) ==
  /\ t # "profiles"
  /\ At(s, t, "write")
  /\ IF t = "users" /\ DOMAIN job[s].set = {}
     THEN End(s)
     ELSE /\ ~Locked(s, t)
          /\ job' = [job EXCEPT ![s].pc = "commit"]
  /\ UNCHANGED <<row, photos>>

Fresh(b) ==
  /\ \A p \in photos : p.batch # b
  /\ \A s \in Sessions : job[s].batch # b /\ \A p \in job[s].loaded : p.batch # b

NewPhotos(s) ==
  {[batch |-> job[s].batch, position |-> i, file |-> job[s].album[i]] :
     i \in DOMAIN job[s].album}

\* Mutated: (profile_id, position) is not unique.
AnyPosition(s) == TRUE

\* uq_profile_photos_position, after the loaded rows were deleted.
PositionsFree(s) ==
  \A p \in photos \ job[s].loaded : p.position \notin DOMAIN job[s].album

\* _reconcile_photos: the UPDATE, the DELETEs and the INSERTs, under the lock of
\* the profile's row.  A DELETE that finds nothing is only logged.
WriteProfile(s, b) ==
  /\ At(s, "profiles", "write")
  /\ ~Locked(s, "profiles")
  /\ row["profiles"] # NoRow
  /\ PositionsFree(s)
  /\ Fresh(b)
  /\ job' = [job EXCEPT ![s].pc = "commit", ![s].batch = b]
  /\ UNCHANGED <<row, photos>>

\* StaleDataError if the profile was deleted, IntegrityError if the photos are
\* no longer those that were loaded.
WriteProfileFails(s) ==
  /\ At(s, "profiles", "write")
  /\ ~Locked(s, "profiles")
  /\ row["profiles"] = NoRow \/ ~PositionsFree(s)
  /\ End(s)
  /\ UNCHANGED <<row, photos>>

\* SearchPreferencesRepository.add; the key is the user's id.
Insert(s) ==
  /\ At(s, "search_preferences", "insert")
  /\ ~Locked(s, "search_preferences")
  /\ IF row["search_preferences"] = NoRow
     THEN job' = [job EXCEPT ![s].pc = "commit"]
     ELSE End(s)                  \* IntegrityError
  /\ UNCHANGED <<row, photos>>

Commit(s) ==
  /\ job[s].pc = "commit"
  /\ LET t == job[s].table
     IN  row' = [row EXCEPT ![t] = IF @ = NoRow THEN job[s].set
                                   ELSE Overlay(@, job[s].set)]
  /\ photos' = IF job[s].table = "profiles"
               THEN (photos \ job[s].loaded) \cup NewPhotos(s) ELSE photos
  /\ EndAndOvertake(s)

-----------------------------------------------------------------------------
(* Others.                                                                 *)

\* The administrator deletes the profile; its photos go with it.
DeleteProfile ==
  /\ row["profiles"] # NoRow
  /\ \A s \in Sessions : ~At(s, "profiles", "commit")
  /\ row' = [row EXCEPT !["profiles"] = NoRow]
  /\ photos' = {}
  /\ UNCHANGED job

Abort(s) ==
  /\ Aborts
  /\ job[s] # Idle
  /\ End(s)
  /\ UNCHANGED <<row, photos>>

Rest == (\A s \in Sessions : job[s] = Idle) /\ UNCHANGED vars

-----------------------------------------------------------------------------

\* A registered user with a profile, who has not asked for a search yet.
Init ==
  /\ row = [t \in Tables |-> IF t = "search_preferences" THEN NoRow
                             ELSE [c \in Columns[t] |-> Unset]]
  /\ \E b \in Batches, a \in Albums :
       photos = {[batch |-> b, position |-> i, file |-> a[i]] : i \in DOMAIN a}
  /\ job = [s \in Sessions |-> Idle]

Ask(s) ==
  \/ \E v \in Values :
       \/ Start(s, v)
       \/ SetLanguage(s, v)
       \/ ToggleNotifications(s, v)
       \/ SetBan(s, v)
       \/ SetGender(s, v)
       \/ \E premium \in BOOLEAN : SetMinRating(s, v, premium)
       \/ SetLocation(s, v)
       \/ \E c \in {"basics", "location"} : Edit(s, c, v)
       \/ SetVisible(s, v)
  \/ \E a \in Albums : EditPhotos(s, a)
  \/ GetPreferences(s)

Serve(s) ==
  \/ SetNotifications(s)
  \/ ReadPhotos(s)
  \/ \E t \in Tables : Load(s, t) \/ Write(s, t)
  \/ LoadPhotos(s)
  \/ \E b \in Batches : WriteProfile(s, b)
  \/ WriteProfileFails(s)
  \/ Insert(s)
  \/ Commit(s)

Next ==
  \/ \E s \in Sessions : Ask(s) \/ Serve(s) \/ Abort(s)
  \/ DeleteProfile
  \/ Rest

Spec == Init /\ [][Next]_vars

-----------------------------------------------------------------------------
(* Properties.                                                             *)

\* Rows have their columns, and what a session writes are columns of its table.
TypeOK ==
  /\ row \in [Tables -> (UNION {RowsOf(t) : t \in Tables}) \cup {NoRow}]
  /\ \A t \in Tables : row[t] \in RowsOf(t) \cup {NoRow}
  /\ row["users"] # NoRow
  /\ photos \subseteq PhotoRow
  /\ job \in [Sessions -> Job]
  /\ \A s \in Sessions :
       job[s].table # "none" => DOMAIN job[s].set \subseteq Columns[job[s].table]

\* A profile has photos, they are one album that some message contained, in its
\* order, and nothing of another album is left between them; without this the
\* profile cannot be read any more (Photos has at least one).
AlbumIsWhole ==
  IF row["profiles"] = NoRow THEN photos = {}
  ELSE \E b \in Batches, a \in Albums :
         photos = {[batch |-> b, position |-> i, file |-> a[i]] : i \in DOMAIN a}

\* Of two edits of a profile that have both loaded it, the second fails: no edit
\* is committed over one that it has not seen the photos of.
FirstEditWins ==
  \A s \in Sessions : At(s, "profiles", "commit") => job[s].raced # "loaded"

\* "Missing fields stay unchanged", a /start keeps the language and a tap on
\* /settings a ban: a request that nobody overtook changes its own field only.
OwnField ==
  \A s \in Sessions :
    Commit(s) /\ job[s].raced = "no" /\ row[job[s].table] # NoRow =>
      LET t == job[s].table
      IN  /\ \A c \in Columns[t] \ {job[s].column} : row'[t][c] = row[t][c]
          /\ job[s].column # "photos" => AlbumOf(photos') = AlbumOf(photos)

OwnFieldOnly == [][OwnField]_vars

=============================================================================
