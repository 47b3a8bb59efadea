-------------------------- MODULE ConversationProofs --------------------------
(***************************************************************************)
(* Proofs about Conversation, for any number of leaders, lookups, forms   *)
(* and photos, and any throttle that leaves no room for a second form.     *)
(***************************************************************************)
EXTENDS Conversation, TLAPS, FiniteSetTheorems

USE BoundsArePositive

-----------------------------------------------------------------------------
(* The invariant, in three parts that do not need each other.              *)

Leading(t) == ~At(t, "idle")

Sleepers(flow) == {t \in Asleep : task[t].flow = flow}

LeadersOK ==
  \A flow \in Flows :
    IF buffer[flow] = <<>> THEN Sleepers(flow) = {} ELSE \E t \in Tasks : Sleepers(flow) = {t}

FlowsOK ==
  \A t \in Tasks :
    /\ task[t].pc \in {"get", "set", "finalize", "create", "preferences"} => task[t].flow = "create"
    /\ task[t].pc \in {"menu", "apply", "show"} => task[t].flow = "edit"

Within(t) ==
  /\ \A f \in Fields : task[t].copy.answers[f] <= form
  /\ \A i \in DOMAIN task[t].photos : task[t].photos[i] <= form
  /\ task[t].dead \subseteq closed
  /\ At(t, "asleep") => task[t].seen <= WhileAsleep
  /\ t \in Busy => task[t].seen <= WhileBusy

\* Nothing is of a form that was not begun yet.
NotAhead ==
  /\ form \in Forms /\ deleted <= MaxDeleted /\ closed \subseteq 0 .. form
  /\ profile # NoProfile => profile.id # 0
  /\ \A f \in Fields : data.answers[f] <= form
  /\ \A flow \in Flows : \A i \in DOMAIN buffer[flow] : buffer[flow][i] <= form
  /\ \A t \in Tasks : Within(t)
  /\ \A s \in Parking : \A f \in Fields : finder[s].copy.answers[f] <= form

Answers(d) == d.user /\ \A f \in Fields : d.answers[f] = form

\* While nothing has raced, a leader's form is the one it was sent for.
LeaderIsOfForm(t) ==
  /\ Leading(t) /\ ~At(t, "cleared") =>
       IF task[t].flow = "create"
       THEN state \in {"photo"} \cup BrowseSteps /\ Answers(data)
       ELSE state \in EditSteps \cup BrowseSteps /\ data.menu # 0
  /\ At(t, "set") => Answers(task[t].copy)
  /\ At(t, "cleared") => state \in {"none"} \cup BrowseSteps

Alike(t, u) ==
  Leading(t) /\ Leading(u) =>
    /\ task[t].flow = task[u].flow
    /\ ~At(t, "cleared")

StepIsWhole ==
  /\ state \in CreateSteps => data.user /\ \A f \in Before[state] : data.answers[f] = form
  /\ state \in EditSteps => data.menu # 0

Whole ==
  raced \/
    /\ StepIsWhole
    /\ \A t \in Tasks : LeaderIsOfForm(t)
    /\ \A t, u \in Tasks : t # u => Alike(t, u)

\* An update each, from /create to here.
Rank ==
  [name |-> 1, age |-> 2, gender |-> 3, preference |-> 4, location |-> 5, bio |-> 6, photo |-> 7]

Spent(t) == IF At(t, "asleep") THEN task[t].seen ELSE WhileAsleep + task[t].seen

PhotosOf(t) == IF At(t, "asleep") THEN buffer["create"] ELSE task[t].photos

\* The leader has photos of an earlier form.
Foreign(t) ==
  /\ Leading(t) /\ task[t].flow = "create"
  /\ \E i \in DOMAIN PhotosOf(t) : PhotosOf(t)[i] # form

\* The answers are of the form that is open.
OfOpenForm(d) == form \notin closed /\ \A f \in Fields : d.answers[f] \in {0, form}

IsOpen(d) ==
  /\ OfOpenForm(d)
  /\ d.answers["bio"] # 0 => \A i \in DOMAIN d.photos : d.photos[i] = form

\* Somebody is at a form.
Live == state \in CreateSteps \cup EditSteps \/ \E t \in Tasks : Leading(t)

InUse == data.user /\ Live

\* A copy that may be put back, by a leader or by a lookup.
Current(t) == At(t, "set") /\ task[t].copy.user /\ closed = task[t].dead

Parked(s) == s \in Parking /\ ~finder[s].stale /\ finder[s].copy.user

DataIsOpen == InUse => IsOpen(data)

ParkedIsOpen(s) == Parked(s) /\ Live => IsOpen(finder[s].copy)

CopyIsOpen(t) ==
  /\ Current(t) => OfOpenForm(task[t].copy)
  /\ At(t, "create") =>
       \E k \in Forms \ task[t].dead :
         /\ \A f \in ProfileFields : task[t].copy.answers[f] = k
         /\ \A i \in DOMAIN task[t].copy.photos : task[t].copy.photos[i] = k

\* A new form does not get as far as its photos while a leader has others.
StepIsFar(t) == Foreign(t) /\ state \in CreateSteps => Rank[state] <= Spent(t)

BioIsFar ==
  \A t \in Tasks : Foreign(t) =>
    /\ data.user => data.answers["bio"] = 0
    /\ \A u \in Tasks : Current(u) => task[u].copy.answers["bio"] = 0
    /\ \A s \in Finders : Parked(s) => finder[s].copy.answers["bio"] = 0

PhotosAlike(t) ==
  Leading(t) /\ task[t].flow = "create" =>
    \A i, j \in DOMAIN PhotosOf(t) : PhotosOf(t)[i] = PhotosOf(t)[j]

OpenNow ==
  /\ DataIsOpen
  /\ BioIsFar
  /\ \A t \in Tasks : CopyIsOpen(t) /\ StepIsFar(t) /\ PhotosAlike(t)
  /\ \A s \in Finders : ParkedIsOpen(s)

Open == ~revived => OpenNow

-----------------------------------------------------------------------------
(* What steps do to the leaders.                                           *)

Pcs ==
  {"idle", "asleep", "get", "set", "finalize", "create", "preferences", "clear", "cleared",
   "menu", "apply", "show"}

OthersKeep(t) == \A u \in Tasks \ {t} : task'[u] = task[u]

LEMMA NoDataTyped ==
  /\ NoData \in Data /\ NoData.user = FALSE /\ NoData.menu = 0 /\ NoData.photos = <<>>
  /\ \A f \in Fields : NoData.answers[f] = 0
  BY DEF NoData, Data, Fields, ProfileFields, Forms, Ids

LEMMA NoTaskTyped ==
  /\ NoTask \in Task /\ NoTask.pc = "idle" /\ NoTask.dead = {} /\ NoTask.photos = <<>>
  /\ NoTask.copy = NoData /\ NoTask.seen = 0
  BY NoDataTyped DEF NoTask, Task, Flows

LEMMA Replaced ==
  ASSUME task \in [Tasks -> Task], NEW t \in Tasks, NEW k \in Task, task' = [task EXCEPT ![t] = k]
  PROVE  task' \in [Tasks -> Task] /\ OthersKeep(t) /\ task'[t] = k
  BY DEF OthersKeep

LEMMA ThrottledMoves ==
  ASSUME task \in [Tasks -> Task], Throttled
  PROVE  /\ task' \in [Tasks -> Task]
         /\ \A t \in Tasks :
              /\ task'[t].pc = task[t].pc /\ task'[t].flow = task[t].flow
              /\ task'[t].photos = task[t].photos /\ task'[t].copy = task[t].copy
              /\ task'[t].dead = task[t].dead
              /\ At(t, "idle") => task'[t] = task[t]
              /\ ~At(t, "idle") => task'[t].seen = task[t].seen + 1
              /\ At(t, "asleep") => task[t].seen < WhileAsleep
              /\ t \in Busy => task[t].seen < WhileBusy
  <1>1. ASSUME NEW t \in Tasks
        PROVE  /\ task'[t] \in Task
               /\ task'[t].pc = task[t].pc /\ task'[t].flow = task[t].flow
               /\ task'[t].photos = task[t].photos /\ task'[t].copy = task[t].copy
               /\ task'[t].dead = task[t].dead
               /\ At(t, "idle") => task'[t] = task[t]
               /\ ~At(t, "idle") => task'[t].seen = task[t].seen + 1
               /\ At(t, "asleep") => task[t].seen < WhileAsleep
               /\ t \in Busy => task[t].seen < WhileBusy
    <2> PICK k \in Task : k = task[t]
      OBVIOUS
    <2>1. k.seen + 1 \in Nat
      BY DEF Task
    <2> PICK j \in Task : j = [k EXCEPT !.seen = k.seen + 1]
      BY <2>1 DEF Task
    <2>2. /\ j.pc = k.pc /\ j.flow = k.flow /\ j.photos = k.photos /\ j.copy = k.copy
          /\ j.dead = k.dead /\ j.seen = k.seen + 1
      BY DEF Task
    <2>3. task'[t] = IF At(t, "idle") THEN k ELSE j
      BY DEF Throttled, Passed, Leaders, Asleep, Busy, At
    <2> QED
      BY <2>2, <2>3 DEF Throttled, Room, Asleep
  <1>2. task' = [t \in Tasks |-> task'[t]]
    BY DEF Throttled, Passed
  <1> QED
    BY <1>1, <1>2

LEMMA GotoMoves ==
  ASSUME task \in [Tasks -> Task], NEW t \in Tasks, NEW pc \in Pcs, Goto(t, pc)
  PROVE  /\ task' \in [Tasks -> Task] /\ OthersKeep(t)
         /\ task'[t].pc = pc /\ task'[t].flow = task[t].flow /\ task'[t].photos = task[t].photos
         /\ task'[t].copy = task[t].copy /\ task'[t].seen = task[t].seen
         /\ task'[t].dead = task[t].dead
  <1> PICK k \in Task : k = task[t]
    OBVIOUS
  <1> PICK j \in Task : j = [k EXCEPT !.pc = pc]
    BY DEF Task, Pcs
  <1>1. task' = [task EXCEPT ![t] = j]
    BY DEF Goto
  <1>2. /\ j.pc = pc /\ j.flow = k.flow /\ j.photos = k.photos /\ j.copy = k.copy
        /\ j.dead = k.dead /\ j.seen = k.seen
    BY DEF Task
  <1> QED
    BY <1>1, <1>2, Replaced

LEMMA EndMoves ==
  ASSUME task \in [Tasks -> Task], NEW t \in Tasks, End(t)
  PROVE  task' \in [Tasks -> Task] /\ OthersKeep(t) /\ task'[t] = NoTask
  BY NoTaskTyped, Replaced DEF End

LEMMA LeadMoves ==
  ASSUME task \in [Tasks -> Task], NEW t \in Tasks, NEW flow \in Flows, Lead(flow, t)
  PROVE  /\ task' \in [Tasks -> Task] /\ OthersKeep(t)
         /\ task'[t].pc = "asleep" /\ task'[t].flow = flow /\ task'[t].photos = <<>>
         /\ task'[t].copy = NoData /\ task'[t].seen = 0 /\ task'[t].dead = {}
  <1> PICK k \in Task : k = NoTask
    BY NoTaskTyped
  <1> PICK j \in Task : j = [k EXCEPT !.pc = "asleep", !.flow = flow]
    BY DEF Task
  <1>1. task' = [task EXCEPT ![t] = j]
    BY DEF Lead
  <1>2. /\ j.pc = "asleep" /\ j.flow = flow /\ j.photos = k.photos /\ j.copy = k.copy
        /\ j.dead = k.dead /\ j.seen = k.seen
    BY DEF Task
  <1> QED
    BY <1>1, <1>2, Replaced, NoTaskTyped

LEMMA WakeMoves ==
  ASSUME TypeOK, NEW t \in Tasks, Wake(t)
  PROVE  /\ task' \in [Tasks -> Task] /\ OthersKeep(t)
         /\ task'[t].pc = (IF task[t].flow = "create" THEN "get" ELSE "menu")
         /\ task'[t].flow = task[t].flow /\ task'[t].photos = buffer[task[t].flow]
         /\ task'[t].copy = task[t].copy /\ task'[t].seen = 0 /\ task'[t].dead = task[t].dead
  <1> DEFINE flow == task[t].flow
             pc == IF flow = "create" THEN "get" ELSE "menu"
  <1> PICK k \in Task : k = task[t]
    BY DEF TypeOK
  <1>1. flow \in Flows /\ buffer[flow] \in Seq(Forms)
    BY DEF Task, TypeOK
  <1> PICK j \in Task : j = [k EXCEPT !.pc = pc, !.photos = buffer[flow], !.seen = 0]
    BY <1>1 DEF Task
  <1>2. task' = [task EXCEPT ![t] = j]
    BY DEF Wake, TypeOK
  <1>3. /\ j.pc = pc /\ j.flow = k.flow /\ j.photos = buffer[flow] /\ j.copy = k.copy
        /\ j.dead = k.dead /\ j.seen = 0
    BY <1>1 DEF Task
  <1> QED
    BY <1>2, <1>3, Replaced DEF TypeOK

\* The steps that take a copy of the data.
LEMMA CopyMoves ==
  ASSUME TypeOK, NEW t \in Tasks, NEW pc \in Pcs, task' = [task EXCEPT ![t].pc = pc, ![t].copy = data]
  PROVE  /\ task' \in [Tasks -> Task] /\ OthersKeep(t)
         /\ task'[t].pc = pc /\ task'[t].flow = task[t].flow /\ task'[t].photos = task[t].photos
         /\ task'[t].copy = data /\ task'[t].seen = task[t].seen /\ task'[t].dead = task[t].dead
  <1> PICK k \in Task : k = task[t]
    BY DEF TypeOK
  <1>1. data \in Data
    BY DEF TypeOK
  <1> PICK j \in Task : j = [k EXCEPT !.pc = pc, !.copy = data]
    BY <1>1 DEF Task, Pcs
  <1>2. task' = [task EXCEPT ![t] = j]
    BY DEF TypeOK
  <1>3. /\ j.pc = pc /\ j.flow = k.flow /\ j.photos = k.photos /\ j.copy = data
        /\ j.dead = k.dead /\ j.seen = k.seen
    BY <1>1 DEF Task
  <1> QED
    BY <1>2, <1>3, Replaced DEF TypeOK

LEMMA GetDataMoves ==
  ASSUME TypeOK, NEW t \in Tasks, GetData(t)
  PROVE  /\ task' \in [Tasks -> Task] /\ OthersKeep(t)
         /\ task'[t].pc = "set" /\ task'[t].flow = task[t].flow /\ task'[t].photos = task[t].photos
         /\ task'[t].copy = data /\ task'[t].seen = task[t].seen /\ task'[t].dead = closed
  <1> PICK k \in Task : k = task[t]
    BY DEF TypeOK
  <1>1. data \in Data /\ closed \in SUBSET Forms
    BY DEF TypeOK
  <1> PICK j \in Task : j = [k EXCEPT !.pc = "set", !.copy = data, !.dead = closed]
    BY <1>1 DEF Task
  <1>2. task' = [task EXCEPT ![t] = j]
    BY DEF GetData, TypeOK
  <1>3. /\ j.pc = "set" /\ j.flow = k.flow /\ j.photos = k.photos /\ j.copy = data
        /\ j.dead = closed /\ j.seen = k.seen
    BY <1>1 DEF Task
  <1> QED
    BY <1>2, <1>3, Replaced DEF TypeOK

-----------------------------------------------------------------------------
(* What handlers do, apart from which handler does it.                     *)

\* A lookup that has read the data keeps what it read until it writes.
Lasts(s) ==
  s \in Parking' =>
    /\ s \in Parking
    /\ finder'[s].copy = finder[s].copy
    /\ finder[s].stale => finder'[s].stale

LookupsLast == finder' \in [Finders -> Finder] /\ \A s \in Finders : Lasts(s)

LookupsStale == LookupsLast /\ \A s \in Finders : s \in Parking' => finder'[s].stale

LEMMA LookupsPass ==
  ASSUME finder \in [Finders -> Finder]
  PROVE  /\ UNCHANGED finder => LookupsLast
         /\ finder' = Passed(finder, Parking) => LookupsLast
         /\ finder' = Outdated(finder) => LookupsStale
         /\ finder' = Outdated(Passed(finder, Parking)) => LookupsStale
  <1> DEFINE P == Passed(finder, Parking)
  <1>1. UNCHANGED finder => LookupsLast
    BY DEF LookupsLast, Lasts, Parking
  <1>2. P \in [Finders -> Finder] /\ \A s \in Finders :
          /\ P[s].pc = finder[s].pc /\ P[s].copy = finder[s].copy
          /\ P[s].stale = finder[s].stale
    <2>1. ASSUME NEW s \in Finders
          PROVE  /\ P[s] \in Finder
                 /\ P[s].pc = finder[s].pc /\ P[s].copy = finder[s].copy
                 /\ P[s].stale = finder[s].stale
      <3> PICK k \in Finder : k = finder[s]
        OBVIOUS
      <3>1. k.seen + 1 \in Nat
        BY DEF Finder
      <3> PICK j \in Finder : j = [k EXCEPT !.seen = k.seen + 1]
        BY <3>1 DEF Finder
      <3>2. j.pc = k.pc /\ j.copy = k.copy /\ j.stale = k.stale
        BY DEF Finder
      <3>3. P[s] = IF s \in Parking THEN j ELSE k
        BY DEF Passed
      <3> QED
        BY <3>2, <3>3
    <2>2. P = [s \in Finders |-> P[s]]
      BY DEF Passed
    <2> HIDE DEF P
    <2> QED
      BY <2>1, <2>2
  <1>3. ASSUME NEW c \in [Finders -> Finder], finder' = Outdated(c),
               \A s \in Finders : c[s].pc = finder[s].pc /\ c[s].copy = finder[s].copy
        PROVE  LookupsStale
    <2>1. ASSUME NEW s \in Finders
          PROVE  /\ finder'[s] \in Finder
                 /\ finder'[s].pc = finder[s].pc /\ finder'[s].copy = finder[s].copy
                 /\ s \in Parking => finder'[s].stale
      <3> PICK k \in Finder : k = c[s]
        OBVIOUS
      <3> PICK j \in Finder : j = [k EXCEPT !.stale = TRUE]
        BY DEF Finder
      <3>1. j.pc = k.pc /\ j.copy = k.copy /\ j.stale = TRUE
        BY DEF Finder
      <3>2. finder'[s] = IF s \in Parking THEN j ELSE k
        BY <1>3 DEF Outdated
      <3> QED
        BY <1>3, <3>1, <3>2
    <2>2. finder' = [s \in Finders |-> finder'[s]]
      BY <1>3 DEF Outdated
    <2> QED
      BY <2>1, <2>2 DEF LookupsStale, LookupsLast, Lasts, Parking
  <1>4. finder' = P => LookupsLast
    <2> HIDE DEF P
    <2> QED
      BY <1>2 DEF LookupsLast, Lasts, Parking
  <1>5. finder' = Outdated(finder) => LookupsStale
    BY <1>3
  <1>6. finder' = Outdated(P) => LookupsStale
    <2> HIDE DEF P
    <2> QED
      BY <1>2, <1>3
  <1> QED
    BY <1>1, <1>4, <1>5, <1>6

\* A form is cancelled or finished.
Ended ==
  /\ Throttled
  /\ state' = "none" /\ data' = NoData
  /\ Anew
  /\ located' \in BOOLEAN
  /\ UNCHANGED <<form, chat>>

\* /create or /edit.
Begun ==
  /\ Throttled
  /\ form < MaxForms /\ form' = form + 1
  /\ data' \in Data /\ data'.photos = <<>> /\ \A f \in Fields : data'.answers[f] = 0
  /\ \/ state' = "name" /\ data'.user = TRUE
     \/ state' = "choosing" /\ data'.user = FALSE /\ data'.menu # 0
  /\ Anew
  /\ UNCHANGED <<chat, located>>

Steps ==
  {<<"name", "age">>, <<"age", "gender">>, <<"gender", "preference">>,
   <<"preference", "location">>, <<"location", "bio">>, <<"bio", "photo">>}

\* An answer of /create.
Given(field, next) ==
  /\ Throttled
  /\ state = field /\ state' = next
  /\ data' \in Data /\ data'.user = data.user /\ data'.menu = data.menu
  /\ data'.answers = [data.answers EXCEPT ![field] = form]
  /\ data'.photos = IF field = "bio" THEN <<>> ELSE data.photos
  /\ Same
  /\ UNCHANGED <<chat, located>>

\* Everything else that a handler does: answers of /edit, the search area, typed
\* cities until their places are found.
Moved ==
  /\ Throttled \/ UNCHANGED task
  /\ LookupsLast
  /\ UNCHANGED <<data, form, closed, raced, revived>>
  /\ \/ state' = state
     \/ state' \in BrowseSteps
     \/ state \in EditSteps /\ state' \in EditSteps
  /\ \/ profile' = profile
     \/ profile # NoProfile /\ profile' \in ProfileRow /\ profile'.id = profile.id
  /\ lookups' \in Nat
  /\ UNCHANGED <<buffer, sent, deleted, located>>

Event ==
  \/ Ended
  \/ Begun
  \/ \E step \in Steps : Given(step[1], step[2])
  \/ Moved
  \/ state = "photo" /\ Collect("create")
  \/ state = "edit photo" /\ Collect("edit")
  \/ \E s \in Finders : FindPlaces(s) \/ ParkCandidates(s)
  \/ \E t \in Tasks : Wake(t) \/ Work(t) \/ Fail(t)
  \/ Restart
  \/ RunOut
  \/ DeleteProfile

LEMMA AnswerIsGiven ==
  ASSUME TypeOK, form \in Forms, NEW field \in Fields, NEW next, Answer(field, next), field # "bio"
  PROVE  Given(field, next)
  <1> PICK d \in Data : d = data
    BY DEF TypeOK
  <1>1. [d.answers EXCEPT ![field] = form] \in [Fields -> Forms]
    BY DEF Data
  <1> PICK e \in Data : e = [d EXCEPT !.answers = [d.answers EXCEPT ![field] = form]]
    BY <1>1 DEF Data
  <1>2. data' = e
    BY DEF Answer, Data
  <1>3. /\ e.user = d.user /\ e.menu = d.menu /\ e.photos = d.photos
        /\ e.answers = [d.answers EXCEPT ![field] = form]
    BY <1>1 DEF Data
  <1> QED
    BY <1>2, <1>3 DEF Answer, Handled, Given

LEMMA BioIsGiven ==
  ASSUME TypeOK, form \in Forms, ProcessBio
  PROVE  Given("bio", "photo")
  <1> PICK d \in Data : d = data
    BY DEF TypeOK
  <1>1. [d.answers EXCEPT !["bio"] = form] \in [Fields -> Forms] /\ <<>> \in Seq(Forms)
    BY DEF Data, Fields, ProfileFields
  <1> PICK e \in Data : e = [d EXCEPT !.answers = [d.answers EXCEPT !["bio"] = form],
                                      !.photos = <<>>]
    BY <1>1 DEF Data
  <1>2. data' = e
    BY DEF ProcessBio, Data
  <1>3. /\ e.user = d.user /\ e.menu = d.menu /\ e.photos = <<>>
        /\ e.answers = [d.answers EXCEPT !["bio"] = form]
    BY <1>1 DEF Data
  <1> QED
    BY <1>2, <1>3 DEF ProcessBio, Handled, Given

LEMMA EditIsMoveOrEnd ==
  ASSUME TypeOK, form \in Forms, NEW field \in ProfileFields, ApplyEdit(field),
         state \in EditSteps
  PROVE  Moved \/ Ended
  <1>1. CASE ~Editable
    BY <1>1 DEF ApplyEdit, Ended, chat, TypeOK
  <1>2. CASE Editable
    <2> PICK p \in ProfileRow : p = profile
      BY <1>2 DEF Editable, TypeOK
    <2>1. [p.answers EXCEPT ![field] = form] \in [ProfileFields -> Forms]
      BY DEF ProfileRow
    <2> PICK q \in ProfileRow : q = [p EXCEPT !.answers = [p.answers EXCEPT ![field] = form]]
      BY <2>1 DEF ProfileRow
    <2>2. profile' = q /\ q.id = p.id
      BY <1>2 DEF ApplyEdit, ProfileRow
    <2>3. LookupsLast
      BY <1>2, LookupsPass DEF ApplyEdit, Same, TypeOK
    <2>4. profile # NoProfile /\ state' = "choosing" /\ "choosing" \in EditSteps
      BY <1>2 DEF ApplyEdit, Editable, EditSteps
    <2> QED
      BY <1>2, <2>2, <2>3, <2>4 DEF ApplyEdit, Same, Moved, TypeOK
  <1> QED
    BY <1>1, <1>2

LEMMA Classified ==
  ASSUME TypeOK, NotAhead, Next
  PROVE  Event
  <1>1. /\ form \in Forms /\ data \in Data /\ lookups \in Nat /\ located \in BOOLEAN
        /\ finder \in [Finders -> Finder]
    BY DEF NotAhead, TypeOK
  <1>0. Same => LookupsLast /\ UNCHANGED <<form, closed, raced, revived>>
    BY <1>1, LookupsPass DEF Same
  <1>2. CmdCancel => Ended
    BY <1>1 DEF CmdCancel, Handled, Ended
  <1>3. CmdCreate => Begun
    <2> SUFFICES ASSUME CmdCreate PROVE Begun
      OBVIOUS
    <2> PICK n \in Data : n = NoData
      BY NoDataTyped
    <2> PICK e \in Data : e = [n EXCEPT !.user = TRUE]
      BY DEF Data
    <2>1. e.user = TRUE /\ e.photos = n.photos /\ e.answers = n.answers
      BY DEF Data
    <2> QED
      BY <2>1, NoDataTyped DEF CmdCreate, Handled, Begun
  <1>4. Create => Event
    <2>1. /\ ProcessName => Given("name", "age")
          /\ ProcessAge => Given("age", "gender")
          /\ ProcessGender => Given("gender", "preference")
          /\ ProcessGenderPreference => Given("preference", "location")
          /\ ProcessLocation => Given("location", "bio")
          /\ ProcessLocationPicked => Given("location", "bio")
      BY <1>1, AnswerIsGiven
      DEF ProcessName, ProcessAge, ProcessGender, ProcessGenderPreference, ProcessLocation,
        ProcessLocationPicked, Fields, ProfileFields
    <2>2. ASSUME NEW field, NEW next, <<field, next>> \in Steps, Given(field, next)
          PROVE  Event
      <3>1. Given(<<field, next>>[1], <<field, next>>[2])
        BY <2>2
      <3> QED
        BY <2>2, <3>1 DEF Event
    <2>3. /\ <<"name", "age">> \in Steps /\ <<"age", "gender">> \in Steps
          /\ <<"gender", "preference">> \in Steps /\ <<"preference", "location">> \in Steps
          /\ <<"location", "bio">> \in Steps /\ <<"bio", "photo">> \in Steps
      BY DEF Steps
    <2>4. /\ ProcessName => Event
          /\ ProcessAge => Event
          /\ ProcessGender => Event
      BY <2>1, <2>2, <2>3
    <2>5. /\ ProcessGenderPreference => Event
          /\ ProcessLocation => Event
          /\ ProcessLocationPicked => Event
          /\ ProcessBio => Event
      BY <1>1, <2>1, <2>2, <2>3, BioIsGiven
    <2>6. CollectPhoto => Event
      BY DEF CollectPhoto, Event
    <2>7. CmdCreate => Event
      BY <1>3 DEF Event
    <2> QED
      BY <2>4, <2>5, <2>6, <2>7 DEF Create
  <1>5. CmdEdit => Begun
    <2> SUFFICES ASSUME CmdEdit PROVE Begun
      OBVIOUS
    <2> PICK n \in Data : n = NoData
      BY NoDataTyped
    <2>1. profile.id \in Ids /\ profile.id # 0
      BY DEF CmdEdit, TypeOK, ProfileRow, NotAhead
    <2> PICK e \in Data : e = [n EXCEPT !.menu = profile.id]
      BY <2>1 DEF Data
    <2>2. e.user = n.user /\ e.photos = n.photos /\ e.answers = n.answers /\ e.menu = profile.id
      BY <2>1 DEF Data
    <2> QED
      BY <2>1, <2>2, NoDataTyped DEF CmdEdit, Handled, Begun
  <1>6. OnChooseField => Moved
    BY <1>0, <1>1 DEF OnChooseField, Handled, Moved, EditSteps, chat
  <1>7. OnDone => Ended
    BY <1>1 DEF OnDone, Handled, Ended
  <1>8. ASSUME \/ ProcessEditName \/ ProcessEditAge \/ ProcessEditGender \/ ProcessEditBio
               \/ ProcessEditLocation \/ ProcessEditLocationPicked
        PROVE  Moved \/ Ended
    <2>1. state \in EditSteps
      BY <1>8 DEF ProcessEditName, ProcessEditAge, ProcessEditGender, ProcessEditBio,
        ProcessEditLocation, ProcessEditLocationPicked, EditSteps
    <2>2. PICK field \in ProfileFields : ApplyEdit(field)
      BY <1>8 DEF ProcessEditName, ProcessEditAge, ProcessEditGender, ProcessEditBio,
        ProcessEditLocation, ProcessEditLocationPicked, ProfileFields
    <2> QED
      BY <1>1, <2>1, <2>2, EditIsMoveOrEnd
  <1>9. Edit => Event
    BY <1>5, <1>6, <1>7, <1>8 DEF Edit, CollectEditPhoto, Event
  <1>10. ASSUME StartBrowseOnboarding \/ CmdSetCity \/ BrowsePreference
         PROVE  Moved
    BY <1>0, <1>1, <1>10
    DEF StartBrowseOnboarding, CmdSetCity, BrowsePreference, Handled, Moved, BrowseSteps, chat
  <1>11. BrowseLocation => Ended
    BY <1>1 DEF BrowseLocation, Handled, Ended
  <1>12. ASSUME ProcessLocationTyped
         PROVE  Moved
    <2>1. lookups' = lookups + 1
      BY <1>12 DEF ProcessLocationTyped
    <2>2. lookups' \in Nat
      BY <1>1, <2>1
    <2> QED
      BY <1>0, <1>12, <2>2 DEF ProcessLocationTyped, Moved
  <1>13. FindNothing => Moved
    BY <1>1, LookupsPass DEF FindNothing, Moved
  <1>14. ASSUME NEW s \in Finders, ParkNothing(s)
         PROVE  Moved
    <2>1. NoFinder \in Finder /\ NoFinder.pc = "idle"
      BY NoDataTyped DEF NoFinder, Finder
    <2>2. LookupsLast
      BY <1>1, <1>14, <2>1 DEF ParkNothing, LookupsLast, Lasts, Parking
    <2> QED
      BY <1>1, <1>14, <2>2 DEF ParkNothing, Moved
  <1> QED
    BY <1>2, <1>4, <1>9, <1>10, <1>11, <1>12, <1>13, <1>14 DEF Next, Browse, Event


-----------------------------------------------------------------------------
(* Types, and nothing ahead of the form.                                   *)

LEMMA FieldsOf ==
  ASSUME NEW d \in Data
  PROVE  /\ d.user \in BOOLEAN /\ d.menu \in Ids /\ d.photos \in Seq(Forms)
         /\ d.answers \in [Fields -> Forms] /\ Of(d) \subseteq Forms
         /\ \A f \in Fields : d.answers[f] \in Of(d)
  BY DEF Data, Of

LEMMA FieldsOfTask ==
  ASSUME NEW k \in Task
  PROVE  /\ k.pc \in Pcs /\ k.flow \in Flows /\ k.photos \in Seq(Forms) /\ k.copy \in Data
         /\ k.seen \in Nat /\ k.dead \subseteq Forms
  BY DEF Task, Pcs

LEMMA ClosesWhatIs ==
  ASSUME TypeOK, NotAhead, Closes
  PROVE  /\ closed' \subseteq 0 .. form /\ closed' \subseteq Forms
         /\ closed \subseteq closed' /\ form \in closed'
         /\ \A f \in Fields : data.answers[f] \in closed'
  <1>1. data \in Data /\ form \in Forms /\ form \in Nat
    BY DEF TypeOK, NotAhead
  <1>2. Of(data) \subseteq 0 .. form
    BY <1>1, FieldsOf DEF Of, NotAhead, Forms
  <1>3. \A f \in Fields : data.answers[f] \in Of(data)
    BY <1>1, FieldsOf
  <1>4. closed' = closed \cup Of(data) \cup {form}
    BY DEF Closes
  <1>5. closed \subseteq 0 .. form /\ 0 .. form \subseteq Forms /\ form \in 0 .. form
    BY <1>1 DEF NotAhead, Forms
  <1> QED
    BY <1>2, <1>3, <1>4, <1>5

LEMMA Added ==
  ASSUME TypeOK, form \in Forms, NEW flow \in Flows, Collect(flow)
  PROVE  /\ buffer' \in [Flows -> Seq(Forms)]
         /\ \A other \in Flows : other # flow => buffer'[other] = buffer[other]
         /\ \A other \in Flows : Len(buffer'[other]) <= MaxPhotos
         /\ buffer'[flow] # <<>>
         /\ \A i \in DOMAIN buffer'[flow] :
              \/ buffer'[flow][i] = form
              \/ i \in DOMAIN buffer[flow] /\ buffer'[flow][i] = buffer[flow][i]
  <1> DEFINE s == buffer[flow]
             r == Add(flow)
  <1>1. s \in Seq(Forms) /\ Len(s) <= MaxPhotos
    BY DEF TypeOK
  <1>2. /\ r \in Seq(Forms) /\ Len(r) <= MaxPhotos /\ r # <<>>
        /\ \A i \in DOMAIN r : r[i] = form \/ (i \in DOMAIN s /\ r[i] = s[i])
    <2>1. CASE Len(s) < MaxPhotos
      <3>1. r = Append(s, form)
        BY <2>1 DEF Add
      <3>2. /\ Append(s, form) \in Seq(Forms) /\ Len(Append(s, form)) = Len(s) + 1
            /\ DOMAIN Append(s, form) = 1 .. Len(s) + 1
            /\ \A i \in 1 .. Len(s) : Append(s, form)[i] = s[i]
            /\ Append(s, form)[Len(s) + 1] = form
        BY <1>1
      <3>3. Len(s) \in Nat /\ DOMAIN s = 1 .. Len(s)
        BY <1>1
      <3>4. r # <<>>
        BY <3>1, <3>2, <3>3
      <3> QED
        BY <2>1, <3>1, <3>2, <3>3, <3>4
    <2>2. CASE ~(Len(s) < MaxPhotos)
      BY <1>1, <2>2 DEF Add
    <2> QED
      BY <2>1, <2>2
  <1>3. buffer' = [buffer EXCEPT ![flow] = r]
    BY DEF Collect
  <1> HIDE DEF r
  <1> QED
    BY <1>2, <1>3 DEF TypeOK

LEMMA NoFinderTyped == NoFinder \in Finder /\ NoFinder.pc = "idle"
  BY NoDataTyped DEF NoFinder, Finder

\* The lookups through every step but the one that reads the data.
LEMMA LookupsGoOn ==
  ASSUME TypeOK, Event
  PROVE  LookupsLast \/ \E s \in Finders : FindPlaces(s)
  <1>1. finder \in [Finders -> Finder]
    BY DEF TypeOK
  <1>2. CASE Ended \/ Begun
    BY <1>1, <1>2, LookupsPass DEF Ended, Begun, Anew, LookupsStale
  <1>3. CASE Moved \/ (\E step \in Steps : Given(step[1], step[2]))
    BY <1>1, <1>3, LookupsPass DEF Moved, Given, Same
  <1>4. ASSUME NEW s \in Finders, ParkCandidates(s)
        PROVE  LookupsLast
    BY <1>1, <1>4, NoFinderTyped DEF ParkCandidates, LookupsLast, Lasts, Parking
  <1>5. CASE Restart
    BY <1>5, NoFinderTyped DEF Restart, LookupsLast, Lasts, Parking
  <1>6. ASSUME NEW t \in Tasks, Wake(t) \/ Work(t) \/ Fail(t)
        PROVE  LookupsLast
    <2>1. UNCHANGED finder \/ finder' = Outdated(finder)
      BY <1>6 DEF Wake, Work, Fail, GetData, SetData, ReadForm, CreateProfile, SavePreferences,
        ClearState, ClearData, ReadMenu, ApplyPhotos, ShowMenu, work, still
    <2> QED
      BY <1>1, <2>1, LookupsPass DEF LookupsStale
  <1>7. CASE Collect("create") \/ Collect("edit") \/ RunOut \/ DeleteProfile
    BY <1>1, <1>7, LookupsPass DEF Collect, RunOut, DeleteProfile
  <1> QED
    BY <1>2, <1>3, <1>4, <1>5, <1>6, <1>7 DEF Event

LEMMA FinderTyped ==
  ASSUME TypeOK, Event
  PROVE  finder' \in [Finders -> Finder]
  <1>1. CASE LookupsLast
    BY <1>1 DEF LookupsLast
  <1>2. ASSUME NEW s \in Finders, FindPlaces(s)
        PROVE  finder' \in [Finders -> Finder]
    <2> PICK k \in Finder : k = finder[s]
      BY DEF TypeOK
    <2>1. data \in Data
      BY DEF TypeOK
    <2> PICK j \in Finder : j = [k EXCEPT !.pc = "set", !.copy = data]
      BY <2>1 DEF Finder
    <2>2. finder' = [finder EXCEPT ![s] = j]
      BY <1>2 DEF FindPlaces, TypeOK
    <2> QED
      BY <2>2 DEF TypeOK
  <1> QED
    BY <1>1, <1>2, LookupsGoOn

LEMMA TaskTyped ==
  ASSUME TypeOK, NEW t \in Tasks, Work(t) \/ Fail(t) \/ Wake(t)
  PROVE  task' \in [Tasks -> Task]
  <1>1. task \in [Tasks -> Task]
    BY DEF TypeOK
  <1>2. ASSUME NEW pc \in Pcs, Goto(t, pc)
        PROVE  task' \in [Tasks -> Task]
    BY <1>1, <1>2, GotoMoves
  <1>3. End(t) => task' \in [Tasks -> Task]
    BY <1>1, EndMoves
  <1>4. CASE SetData(t) \/ CreateProfile(t) \/ SavePreferences(t) \/ ClearState(t)
    BY <1>2, <1>3, <1>4 DEF SetData, CreateProfile, SavePreferences, ClearState, Pcs
  <1>5. CASE ReadForm(t)
    BY <1>3, <1>5, CopyMoves DEF ReadForm, Pcs
  <1>6. CASE ReadMenu(t)
    BY <1>2, <1>6, CopyMoves DEF ReadMenu, Pcs
  <1>7. CASE ApplyPhotos(t)
    BY <1>2, <1>7 DEF ApplyPhotos, Pcs
  <1>8. CASE ClearData(t) \/ ShowMenu(t) \/ Fail(t)
    BY <1>3, <1>8 DEF ClearData, ShowMenu, Fail
  <1> QED
    BY <1>4, <1>5, <1>6, <1>7, <1>8, GetDataMoves, WakeMoves DEF Work

LEMMA TypeOKStep ==
  ASSUME TypeOK, NotAhead, Next
  PROVE  TypeOK'
  <1>1. /\ form \in Forms /\ data \in Data /\ task \in [Tasks -> Task] /\ closed \subseteq Forms
        /\ buffer \in [Flows -> Seq(Forms)] /\ profile \in ProfileRow \cup {NoProfile}
        /\ lookups \in Nat /\ sent \in Nat /\ deleted \in Nat
        /\ raced \in BOOLEAN /\ revived \in BOOLEAN /\ located \in BOOLEAN
        /\ form \in Nat /\ deleted <= MaxDeleted
    BY DEF TypeOK, NotAhead, Forms
  <1>0. Event /\ finder' \in [Finders -> Finder]
    BY Classified, FinderTyped
  <1>2. Anew => raced' \in BOOLEAN /\ revived' \in BOOLEAN /\ Closes
    BY <1>1 DEF Anew
  <1>3. Closes => closed' \subseteq Forms
    BY ClosesWhatIs
  <1>4. CASE Ended
    BY <1>0, <1>1, <1>2, <1>3, <1>4, ThrottledMoves, NoDataTyped DEF Ended, TypeOK, chat
  <1>5. CASE Begun
    <2>1. state' \in CreateSteps \cup EditSteps
      BY <1>5 DEF Begun, CreateSteps, Fields, ProfileFields, EditSteps
    <2>2. form' \in Nat
      BY <1>1, <1>5 DEF Begun
    <2> QED
      BY <1>0, <1>1, <1>2, <1>3, <1>5, <2>1, <2>2, ThrottledMoves DEF Begun, TypeOK, chat
  <1>6. ASSUME NEW step \in Steps, Given(step[1], step[2])
        PROVE  TypeOK'
    <2>1. step[2] \in CreateSteps
      BY DEF Steps, CreateSteps, Fields, ProfileFields
    <2> QED
      BY <1>0, <1>1, <1>6, <2>1, ThrottledMoves DEF Given, Same, TypeOK, chat
  <1>7. CASE Moved
    <2>1. state' \in {"none"} \cup CreateSteps \cup EditSteps \cup BrowseSteps
      BY <1>7 DEF Moved, TypeOK
    <2>2. profile' \in ProfileRow \cup {NoProfile}
      BY <1>1, <1>7 DEF Moved
    <2>3. task' \in [Tasks -> Task]
      BY <1>1, <1>7, ThrottledMoves DEF Moved
    <2> QED
      BY <1>0, <1>1, <1>7, <2>1, <2>2, <2>3 DEF Moved, TypeOK
  <1>8. ASSUME NEW flow \in Flows, Collect(flow)
        PROVE  TypeOK'
    <2>1. task' \in [Tasks -> Task]
      BY <1>1, <1>8, LeadMoves DEF Collect, LeadOrFollow
    <2>2. sent' \in Nat
      BY <1>1, <1>8 DEF Collect
    <2> QED
      BY <1>0, <1>1, <1>8, <2>1, <2>2, Added DEF Collect, TypeOK
  <1>9. ASSUME NEW t \in Tasks, Wake(t)
        PROVE  TypeOK'
    <2>1. task[t].flow \in Flows /\ <<>> \in Seq(Forms) /\ Len(<<>>) = 0
      BY <1>1 DEF Task
    <2>2. buffer' \in [Flows -> Seq(Forms)] /\ \A flow \in Flows : Len(buffer'[flow]) <= MaxPhotos
      BY <1>1, <1>9, <2>1 DEF Wake, TypeOK
    <2> QED
      BY <1>0, <1>1, <1>9, <2>2, TaskTyped DEF Wake, still, TypeOK
  <1>10. ASSUME NEW t \in Tasks, Work(t) \/ Fail(t)
         PROVE  TypeOK'
    <2>1. task' \in [Tasks -> Task]
      BY <1>10, TaskTyped
    <2>2. task[t].copy \in Data /\ task[t].photos \in Seq(Forms)
      BY <1>1, FieldsOfTask
    <2>3. CASE SetData(t)
      <3> PICK d \in Data : d = task[t].copy
        BY <2>2
      <3> PICK e \in Data : e = [d EXCEPT !.photos = task[t].photos]
        BY <2>2 DEF Data
      <3>1. data' \in Data
        BY <2>3 DEF SetData
      <3>2. revived' \in BOOLEAN
        BY <1>1, <2>3 DEF SetData
      <3> QED
        BY <1>0, <1>1, <2>1, <2>3, <3>1, <3>2 DEF SetData, TypeOK
    <2>4. CASE CreateProfile(t)
      <3>1. profile' \in ProfileRow \cup {NoProfile}
        <4>1. CASE profile = NoProfile
          <5>1. deleted + 1 \in Ids
            BY <1>1 DEF Ids
          <5>2. task[t].copy.answers \in [Fields -> Forms] /\ task[t].copy.photos \in Seq(Forms)
            BY <2>2, FieldsOf
          <5>3. \A f \in ProfileFields : f \in Fields
            BY DEF Fields, ProfileFields
          <5> QED
            BY <2>4, <4>1, <5>1, <5>2, <5>3 DEF CreateProfile, ProfileRow
        <4> QED
          BY <1>1, <2>4, <4>1 DEF CreateProfile
      <3> QED
        BY <1>0, <1>1, <2>1, <2>4, <3>1 DEF CreateProfile, work, still, TypeOK
    <2>5. CASE ApplyPhotos(t)
      <3>1. profile' \in ProfileRow \cup {NoProfile}
        <4>1. CASE profile # NoProfile /\ profile.id = task[t].copy.menu
          <5> PICK p \in ProfileRow : p = profile
            BY <1>1, <4>1
          <5> PICK q \in ProfileRow : q = [p EXCEPT !.photos = task[t].photos]
            BY <2>2 DEF ProfileRow
          <5> QED
            BY <2>5, <4>1 DEF ApplyPhotos
        <4> QED
          BY <1>1, <2>5, <4>1 DEF ApplyPhotos
      <3> QED
        BY <1>0, <1>1, <2>1, <2>5, <3>1 DEF ApplyPhotos, work, still, TypeOK
    <2>6. CASE GetData(t) \/ ReadForm(t) \/ ReadMenu(t) \/ ShowMenu(t) \/ SavePreferences(t)
      <3>1. state' \in {"none"} \cup CreateSteps \cup EditSteps \cup BrowseSteps
        BY <2>6 DEF GetData, ReadForm, ReadMenu, ShowMenu, SavePreferences, EditSteps, TypeOK
      <3>2. located' \in BOOLEAN
        BY <1>1, <2>6 DEF GetData, ReadForm, ReadMenu, ShowMenu, SavePreferences
      <3> QED
        BY <1>0, <1>1, <2>1, <2>6, <3>1, <3>2
        DEF GetData, ReadForm, ReadMenu, ShowMenu, SavePreferences, work, still, TypeOK
    <2>7. CASE ClearState(t) \/ ClearData(t) \/ Fail(t)
      <3>1. raced' \in BOOLEAN
        BY <1>1, <2>7 DEF ClearState, ClearData, Fail
      <3> QED
        BY <1>0, <1>1, <1>3, <2>1, <2>7, <3>1, NoDataTyped DEF ClearState, ClearData, Fail, TypeOK
    <2> QED
      BY <1>10, <2>3, <2>4, <2>5, <2>6, <2>7 DEF Work
  <1>11. CASE Restart
    <2>1. <<>> \in Seq(Forms) /\ Len(<<>>) = 0
      OBVIOUS
    <2>2. buffer' \in [Flows -> Seq(Forms)] /\ \A flow \in Flows : Len(buffer'[flow]) <= MaxPhotos
      BY <1>11, <2>1 DEF Restart
    <2>3. raced' \in BOOLEAN
      BY <1>1, <1>11 DEF Restart
    <2> QED
      BY <1>0, <1>1, <1>11, <2>2, <2>3, NoTaskTyped DEF Restart, TypeOK
  <1>12. CASE RunOut
    BY <1>0, <1>1, <1>3, <1>12, NoDataTyped DEF RunOut, TypeOK
  <1>13. CASE DeleteProfile
    BY <1>0, <1>1, <1>13 DEF DeleteProfile, TypeOK
  <1>14. "create" \in Flows /\ "edit" \in Flows
    BY DEF Flows
  <1>15. ASSUME NEW s \in Finders, FindPlaces(s) \/ ParkCandidates(s)
         PROVE  TypeOK'
    <2>1. finder[s].copy \in Data /\ lookups' \in Nat /\ data' \in Data
      BY <1>1, <1>15 DEF TypeOK, Finder, FindPlaces, ParkCandidates
    <2>2. raced' \in BOOLEAN /\ revived' \in BOOLEAN
      BY <1>1, <1>15 DEF FindPlaces, ParkCandidates
    <2> QED
      BY <1>0, <1>1, <1>15, <2>1, <2>2 DEF FindPlaces, ParkCandidates, TypeOK
  <1> QED
    BY <1>0, <1>4, <1>5, <1>6, <1>7, <1>8, <1>9, <1>10, <1>11, <1>12, <1>13, <1>14, <1>15 DEF Event

\* form and closed only grow.
Grows == form' \in Nat /\ form <= form' /\ closed \subseteq closed'

LEMMA WithinKept ==
  ASSUME TypeOK, NotAhead, Grows, NEW t \in Tasks,
         /\ task'[t].copy = task[t].copy
         /\ task'[t].photos = task[t].photos
         /\ task'[t].dead = task[t].dead,
         /\ task'[t].pc = "asleep" => task'[t].seen <= WhileAsleep
         /\ task'[t].pc \notin {"idle", "asleep"} => task'[t].seen <= WhileBusy
  PROVE  Within(t)'
  <1> PICK k \in Task : k = task[t]
    BY DEF TypeOK
  <1>1. k.copy \in Data /\ k.photos \in Seq(Forms)
    BY FieldsOfTask
  <1>2. Within(t) /\ form \in Nat
    BY DEF NotAhead, Forms
  <1>3. ASSUME NEW f \in Fields
        PROVE  task'[t].copy.answers[f] <= form'
    BY <1>1, <1>2, FieldsOf DEF Within, Grows, Forms
  <1>4. ASSUME NEW i \in DOMAIN task'[t].photos
        PROVE  task'[t].photos[i] <= form'
    <2>1. k.photos[i] \in Nat /\ k.photos[i] <= form
      BY <1>1, <1>2 DEF Within, Forms
    <2> QED
      BY <1>2, <2>1 DEF Grows
  <1>5. task'[t].dead \subseteq closed'
    BY <1>2 DEF Within, Grows
  <1> QED
    BY <1>3, <1>4, <1>5 DEF Within, At, Busy

LEMMA WithinSame ==
  ASSUME TypeOK, NotAhead, Grows, NEW t \in Tasks, task'[t] = task[t]
  PROVE  Within(t)'
  BY WithinKept DEF NotAhead, Within, At, Busy

LEMMA WithinThrottled ==
  ASSUME TypeOK, NotAhead, Grows, Throttled
  PROVE  \A t \in Tasks : Within(t)'
  <1> SUFFICES ASSUME NEW t \in Tasks
               PROVE  Within(t)'
    OBVIOUS
  <1>1. task[t] \in Task /\ task[t].seen \in Nat
    BY FieldsOfTask DEF TypeOK
  <1>2. /\ task'[t].copy = task[t].copy /\ task'[t].photos = task[t].photos
        /\ task'[t].dead = task[t].dead /\ task'[t].pc = task[t].pc
    BY ThrottledMoves DEF TypeOK
  <1>3. task'[t].pc = "asleep" => task'[t].seen <= WhileAsleep
    BY <1>1, <1>2, ThrottledMoves DEF TypeOK, At
  <1>4. task'[t].pc \notin {"idle", "asleep"} => task'[t].seen <= WhileBusy
    BY <1>1, <1>2, ThrottledMoves DEF TypeOK, At, Busy
  <1> QED
    BY <1>2, <1>3, <1>4, WithinKept

LEMMA WithinIdle ==
  ASSUME TypeOK, NotAhead, Grows, NEW t \in Tasks, task'[t] = NoTask
  PROVE  Within(t)'
  BY NoDataTyped, NoTaskTyped DEF Within, At, Busy, Grows

LEMMA WithinMoved ==
  ASSUME TypeOK, NotAhead, Grows, NEW t \in Tasks, t \in Busy,
         /\ task'[t].copy = task[t].copy
         /\ task'[t].photos = task[t].photos
         /\ task'[t].dead = task[t].dead
         /\ task'[t].seen = task[t].seen
         /\ task'[t].pc # "asleep"
  PROVE  Within(t)'
  BY WithinKept DEF NotAhead, Within

\* A step that takes a copy.
LEMMA WithinCopied ==
  ASSUME TypeOK, NotAhead, Grows, NEW t \in Tasks, t \in Busy,
         /\ task'[t].copy = data
         /\ task'[t].photos = task[t].photos
         /\ task'[t].dead \in {task[t].dead, closed}
         /\ task'[t].seen = task[t].seen
         /\ task'[t].pc # "asleep"
  PROVE  Within(t)'
  <1> PICK k \in Task : k = task[t]
    BY DEF TypeOK
  <1>1. k.photos \in Seq(Forms)
    BY FieldsOfTask
  <1>2. Within(t) /\ form \in Nat /\ data \in Data
    BY DEF NotAhead, Forms, TypeOK
  <1>3. ASSUME NEW f \in Fields
        PROVE  task'[t].copy.answers[f] <= form'
    BY <1>2, FieldsOf DEF NotAhead, Grows, Forms
  <1>4. ASSUME NEW i \in DOMAIN task'[t].photos
        PROVE  task'[t].photos[i] <= form'
    <2>1. k.photos[i] \in Nat /\ k.photos[i] <= form
      BY <1>1, <1>2 DEF Within, Forms
    <2> QED
      BY <1>2, <2>1 DEF Grows
  <1>5. task'[t].dead \subseteq closed'
    BY <1>2 DEF Within, Grows
  <1> QED
    BY <1>2, <1>3, <1>4, <1>5 DEF Within, At, Busy

LEMMA WithinWorked ==
  ASSUME TypeOK, NotAhead, Grows, NEW t \in Tasks, Work(t) \/ Fail(t)
  PROVE  \A u \in Tasks : Within(u)'
  <1>1. task \in [Tasks -> Task]
    BY DEF TypeOK
  <1>2. t \in Busy
    BY DEF Work, Fail, GetData, SetData, ReadForm, CreateProfile, SavePreferences, ClearState,
      ClearData, ReadMenu, ApplyPhotos, ShowMenu, At, Busy
  <1>3. SUFFICES OthersKeep(t) /\ Within(t)'
    BY <1>1, WithinSame DEF OthersKeep
  <1>4. ASSUME NEW pc \in Pcs, Goto(t, pc), pc # "asleep"
        PROVE  OthersKeep(t) /\ Within(t)'
    BY <1>1, <1>2, <1>4, GotoMoves, WithinMoved
  <1>5. ASSUME End(t)
        PROVE  OthersKeep(t) /\ Within(t)'
    BY <1>1, <1>5, EndMoves, WithinIdle
  <1>6. CASE SetData(t) \/ CreateProfile(t) \/ SavePreferences(t) \/ ClearState(t) \/ ApplyPhotos(t)
    BY <1>4, <1>5, <1>6 DEF SetData, CreateProfile, SavePreferences, ClearState, ApplyPhotos, Pcs
  <1>7. CASE ReadForm(t)
    BY <1>2, <1>5, <1>7, CopyMoves, WithinCopied DEF ReadForm, Pcs
  <1>8. CASE ReadMenu(t)
    BY <1>2, <1>4, <1>8, CopyMoves, WithinCopied DEF ReadMenu, Pcs
  <1>9. CASE ClearData(t) \/ ShowMenu(t) \/ Fail(t)
    BY <1>5, <1>9 DEF ClearData, ShowMenu, Fail
  <1>10. CASE GetData(t)
    BY <1>2, <1>10, GetDataMoves, WithinCopied
  <1> QED
    BY <1>6, <1>7, <1>8, <1>9, <1>10 DEF Work

LEMMA ParkedWithin ==
  ASSUME TypeOK, NotAhead, Event, Grows
  PROVE  \A s \in Parking' : \A f \in Fields : finder'[s].copy.answers[f] <= form'
  <1> SUFFICES ASSUME NEW s \in Finders, s \in Parking', NEW f \in Fields
               PROVE  finder'[s].copy.answers[f] <= form'
    BY DEF Parking
  <1>1. form \in Nat /\ form' \in Nat /\ form <= form'
    BY DEF NotAhead, Forms, Grows
  <1>2. CASE s \in Parking /\ finder'[s].copy = finder[s].copy
    <2>1. finder[s].copy \in Data
      BY DEF TypeOK, Finder
    <2>2. finder[s].copy.answers[f] \in Nat /\ finder[s].copy.answers[f] <= form
      BY <1>2, <2>1, FieldsOf DEF NotAhead, Forms
    <2> QED
      BY <1>1, <1>2, <2>2
  <1>3. CASE finder'[s].copy = data
    <2>1. data.answers[f] \in Nat /\ data.answers[f] <= form
      BY FieldsOf DEF TypeOK, NotAhead, Forms
    <2> QED
      BY <1>1, <1>3, <2>1
  <1>4. ASSUME NEW r \in Finders, FindPlaces(r)
        PROVE  finder'[s].copy = data \/ (s \in Parking /\ finder'[s].copy = finder[s].copy)
    <2>1. finder \in [Finders -> Finder]
      BY DEF TypeOK
    <2>2. r # s => finder'[s] = finder[s]
      BY <1>4, <2>1 DEF FindPlaces
    <2>3. finder[r] \in Finder /\ finder'[r] = [finder[r] EXCEPT !.pc = "set", !.copy = data]
      BY <1>4, <2>1 DEF FindPlaces
    <2>4. finder'[r].copy = data
      BY <2>3 DEF Finder
    <2> QED
      BY <2>2, <2>4 DEF Parking
  <1>5. CASE LookupsLast
    BY <1>2, <1>5 DEF LookupsLast, Lasts
  <1> QED
    BY <1>2, <1>3, <1>4, <1>5, LookupsGoOn

\* The rest of NotAhead.
Past ==
  /\ form \in Forms /\ deleted <= MaxDeleted /\ closed \subseteq 0 .. form
  /\ profile # NoProfile => profile.id # 0
  /\ \A f \in Fields : data.answers[f] <= form
  /\ \A flow \in Flows : \A i \in DOMAIN buffer[flow] : buffer[flow][i] <= form

LEMMA NotAheadStep ==
  ASSUME TypeOK, NotAhead, Next
  PROVE  NotAhead' /\ Grows
  <1>1. /\ form \in Forms /\ form \in Nat /\ form <= MaxForms /\ MaxForms \in Nat
        /\ data \in Data /\ task \in [Tasks -> Task]
        /\ buffer \in [Flows -> Seq(Forms)] /\ deleted \in Nat /\ deleted <= MaxDeleted
        /\ closed \subseteq 0 .. form
        /\ \A f \in Fields : data.answers[f] \in Nat /\ data.answers[f] <= form
        /\ profile # NoProfile => profile.id # 0
    BY FieldsOf DEF TypeOK, NotAhead, Forms
  <1>2. \A flow \in Flows : \A i \in DOMAIN buffer[flow] :
          buffer[flow][i] \in Nat /\ buffer[flow][i] <= form
    BY <1>1 DEF NotAhead, Forms
  <1>3. Closes => closed' \subseteq 0 .. form /\ closed \subseteq closed'
    BY ClosesWhatIs
  <1>4. \A f \in Fields : NoData.answers[f] <= form
    BY <1>1, NoDataTyped
  <1>0. Event
    BY Classified
  <1>5. SUFFICES Past' /\ Grows /\ \A t \in Tasks : Within(t)'
    BY <1>0, ParkedWithin DEF NotAhead, Past
  <1>6. CASE Ended
    <2>1. Past' /\ Grows
      BY <1>1, <1>2, <1>3, <1>4, <1>6 DEF Ended, Anew, Past, Grows, chat
    <2> QED
      BY <1>6, <2>1, WithinThrottled DEF Ended
  <1>7. CASE Begun
    <2>1. form' \in Forms /\ form' \in Nat /\ form < form'
      BY <1>1, <1>7 DEF Begun, Forms
    <2>2. closed' \subseteq 0 .. form' /\ closed \subseteq closed'
      BY <1>1, <1>3, <1>7, <2>1 DEF Begun, Anew
    <2>3. \A f \in Fields : data'.answers[f] <= form'
      BY <1>7, <2>1 DEF Begun
    <2>4. \A flow \in Flows : \A i \in DOMAIN buffer[flow] : buffer[flow][i] <= form'
      BY <1>1, <1>2, <2>1
    <2>5. Past' /\ Grows
      BY <1>1, <1>7, <2>1, <2>2, <2>3, <2>4 DEF Begun, Past, Grows, chat
    <2> QED
      BY <1>7, <2>5, WithinThrottled DEF Begun
  <1>8. ASSUME NEW step \in Steps, Given(step[1], step[2])
        PROVE  Past' /\ Grows /\ \A t \in Tasks : Within(t)'
    <2>1. \A f \in Fields : data'.answers[f] <= form
      <3>1. data.answers \in [Fields -> Forms]
        BY <1>1, FieldsOf
      <3> QED
        BY <1>1, <1>8, <3>1 DEF Given
    <2>2. Past' /\ Grows
      BY <1>1, <1>2, <1>8, <2>1 DEF Given, Same, Past, Grows, chat
    <2> QED
      BY <1>8, <2>2, WithinThrottled DEF Given
  <1>9. CASE Moved
    <2>1. Past' /\ Grows
      BY <1>1, <1>2, <1>9 DEF Moved, Past, Grows
    <2> QED
      BY <1>9, <2>1, WithinThrottled, WithinSame DEF Moved
  <1>10. ASSUME NEW flow \in Flows, Collect(flow)
         PROVE  Past' /\ Grows /\ \A t \in Tasks : Within(t)'
    <2>1. \A other \in Flows : \A i \in DOMAIN buffer'[other] : buffer'[other][i] <= form
      <3> SUFFICES ASSUME NEW other \in Flows, NEW i \in DOMAIN buffer'[other]
                   PROVE  buffer'[other][i] <= form
        OBVIOUS
      <3>0. /\ other # flow => buffer'[other] = buffer[other]
            /\ other = flow =>
                 \/ buffer'[other][i] = form
                 \/ i \in DOMAIN buffer[other] /\ buffer'[other][i] = buffer[other][i]
        BY <1>1, <1>10, Added
      <3>1. i \in DOMAIN buffer[other] => buffer[other][i] <= form
        BY <1>2
      <3>2. form <= form
        BY <1>1
      <3> QED
        BY <3>0, <3>1, <3>2
    <2>2. Past' /\ Grows
      BY <1>1, <1>10, <2>1 DEF Collect, Past, Grows
    <2>3. ASSUME NEW t \in Tasks, Lead(flow, t)
          PROVE  \A u \in Tasks : Within(u)'
      <3>1. OthersKeep(t) /\ task'[t].pc = "asleep" /\ task'[t].photos = <<>>
            /\ task'[t].copy = NoData /\ task'[t].seen = 0 /\ task'[t].dead = {}
        BY <1>1, <2>3, LeadMoves
      <3>2. form' = form /\ 0 <= WhileAsleep
        BY <1>10 DEF Collect
      <3>3. \A i \in DOMAIN task'[t].photos : task'[t].photos[i] <= form'
        BY <3>1
      <3>4. \A f \in Fields : task'[t].copy.answers[f] <= form'
        BY <1>4, <3>1, <3>2
      <3>5. Within(t)'
        BY <3>1, <3>2, <3>3, <3>4 DEF Within, At, Busy
      <3> QED
        BY <2>2, <3>1, <3>5, WithinSame DEF OthersKeep
    <2> QED
      BY <1>10, <2>2, <2>3, WithinSame DEF Collect, LeadOrFollow
  <1>11. ASSUME NEW t \in Tasks, Wake(t)
         PROVE  Past' /\ Grows /\ \A u \in Tasks : Within(u)'
    <2>1. task[t].flow \in Flows /\ task[t].copy \in Data
      BY <1>1, FieldsOfTask
    <2>2. buffer' = [buffer EXCEPT ![task[t].flow] = <<>>] /\ DOMAIN <<>> = {}
      BY <1>11 DEF Wake
    <2>3. Past' /\ Grows
      BY <1>1, <1>2, <1>11, <2>1, <2>2 DEF Wake, still, Past, Grows
    <2>4. Within(t)'
      <3>1. /\ task'[t].pc \in {"get", "menu"} /\ task'[t].photos = buffer[task[t].flow]
            /\ task'[t].copy = task[t].copy /\ task'[t].seen = 0 /\ task'[t].dead = task[t].dead
        BY <1>11, WakeMoves
      <3>2. Within(t) /\ form' = form /\ closed' = closed
        BY <1>11 DEF NotAhead, Wake, still
      <3> QED
        BY <1>2, <2>1, <3>1, <3>2 DEF Within, At, Busy
    <2> QED
      BY <1>11, <2>3, <2>4, WakeMoves, WithinSame DEF OthersKeep
  <1>12. ASSUME NEW t \in Tasks, Work(t) \/ Fail(t)
         PROVE  Past' /\ Grows /\ \A u \in Tasks : Within(u)'
    <2>1. CASE SetData(t)
      <3>1. task[t].copy \in Data /\ task[t].photos \in Seq(Forms) /\ Within(t)
        BY <1>1, FieldsOfTask DEF NotAhead
      <3> PICK d \in Data : d = task[t].copy
        BY <3>1
      <3> PICK e \in Data : e = [d EXCEPT !.photos = task[t].photos]
        BY <3>1 DEF Data
      <3>2. data' = e /\ e.answers = d.answers
        BY <2>1 DEF SetData, Data
      <3>3. Past' /\ Grows
        BY <1>1, <1>2, <2>1, <3>1, <3>2 DEF SetData, Past, Grows, Within
      <3> QED
        BY <1>12, <3>3, WithinWorked
    <2>2. CASE CreateProfile(t)
      <3>1. profile' # NoProfile => profile'.id # 0
        BY <1>1, <2>2 DEF CreateProfile
      <3>2. Past' /\ Grows
        BY <1>1, <1>2, <2>2, <3>1 DEF CreateProfile, work, still, Past, Grows
      <3> QED
        BY <1>12, <3>2, WithinWorked
    <2>3. CASE ApplyPhotos(t)
      <3>1. profile' # NoProfile => profile'.id # 0
        <4>1. CASE profile' = profile
          BY <1>1, <4>1
        <4>2. CASE profile # NoProfile /\ profile' = [profile EXCEPT !.photos = task[t].photos]
          <5>1. profile \in ProfileRow
            BY <4>2 DEF TypeOK
          <5> QED
            BY <1>1, <4>2, <5>1 DEF ProfileRow
        <4> QED
          BY <2>3, <4>1, <4>2 DEF ApplyPhotos
      <3>2. Past' /\ Grows
        BY <1>1, <1>2, <2>3, <3>1 DEF ApplyPhotos, work, still, Past, Grows
      <3> QED
        BY <1>12, <3>2, WithinWorked
    <2>4. CASE \/ GetData(t) \/ ReadForm(t) \/ ReadMenu(t) \/ ShowMenu(t) \/ SavePreferences(t)
               \/ ClearState(t) \/ Fail(t)
      <3>1. Past' /\ Grows
        BY <1>1, <1>2, <2>4
        DEF GetData, ReadForm, ReadMenu, ShowMenu, SavePreferences, ClearState, Fail, work, still,
          Past, Grows
      <3> QED
        BY <1>12, <3>1, WithinWorked
    <2>5. CASE ClearData(t)
      <3>1. Past' /\ Grows
        BY <1>1, <1>2, <1>3, <1>4, <2>5 DEF ClearData, Past, Grows
      <3> QED
        BY <1>12, <3>1, WithinWorked
    <2> QED
      BY <1>12, <2>1, <2>2, <2>3, <2>4, <2>5 DEF Work
  <1>13. CASE Restart
    <2>1. buffer' = [flow \in Flows |-> <<>>] /\ DOMAIN <<>> = {}
      BY <1>13 DEF Restart
    <2>2. Past' /\ Grows
      BY <1>1, <1>13, <2>1 DEF Restart, Past, Grows
    <2>3. \A t \in Tasks : task'[t] = NoTask
      BY <1>13 DEF Restart
    <2> QED
      BY <2>2, <2>3, WithinIdle
  <1>14. CASE RunOut
    <2>1. Past' /\ Grows
      BY <1>1, <1>2, <1>3, <1>4, <1>14 DEF RunOut, Past, Grows
    <2> QED
      BY <1>14, <2>1, WithinSame DEF RunOut
  <1>15. CASE DeleteProfile
    <2>1. Past' /\ Grows
      BY <1>1, <1>2, <1>15 DEF DeleteProfile, Past, Grows
    <2> QED
      BY <1>15, <2>1, WithinSame DEF DeleteProfile
  <1>16. "create" \in Flows /\ "edit" \in Flows
    BY DEF Flows
  <1>17. ASSUME NEW s \in Finders, FindPlaces(s) \/ ParkCandidates(s)
         PROVE  Past' /\ Grows /\ \A t \in Tasks : Within(t)'
    <2>1. \A f \in Fields : data'.answers[f] <= form
      BY <1>1, <1>17 DEF FindPlaces, ParkCandidates, NotAhead
    <2>2. Past' /\ Grows
      BY <1>1, <1>2, <1>17, <2>1 DEF FindPlaces, ParkCandidates, Past, Grows
    <2> QED
      BY <1>17, <2>2, WithinSame DEF FindPlaces, ParkCandidates
  <1> QED
    BY <1>0, <1>6, <1>7, <1>8, <1>9, <1>10, <1>11, <1>12, <1>13, <1>14, <1>15, <1>16, <1>17 DEF Event

-----------------------------------------------------------------------------
(* Leaders and flows.                                                      *)

\* A leader's process goes on.
Works(t) ==
  /\ OthersKeep(t)
  /\ task'[t].pc \notin {"idle", "asleep"} => task'[t].flow = task[t].flow
  /\ task'[t].pc # "asleep"

\* Where a task's flow is known from where it is.
FlowOK(t) ==
  /\ task[t].pc \in {"get", "set", "finalize", "create", "preferences"} => task[t].flow = "create"
  /\ task[t].pc \in {"menu", "apply", "show"} => task[t].flow = "edit"

LEMMA WorkGoesOn ==
  ASSUME TypeOK, FlowsOK, NEW t \in Tasks, Work(t) \/ Fail(t)
  PROVE  t \in Busy /\ Works(t) /\ FlowOK(t)' /\ buffer' = buffer
  <1>1. task \in [Tasks -> Task] /\ FlowOK(t)
    BY DEF TypeOK, FlowsOK, FlowOK
  <1>2. t \in Busy /\ buffer' = buffer
    BY DEF Work, Fail, GetData, SetData, ReadForm, CreateProfile, SavePreferences, ClearState,
      ClearData, ReadMenu, ApplyPhotos, ShowMenu, At, Busy, work
  <1>3. ASSUME NEW pc \in Pcs, Goto(t, pc), pc # "asleep"
        PROVE  Works(t) /\ task'[t].pc = pc /\ task'[t].flow = task[t].flow
    BY <1>1, <1>3, GotoMoves DEF Works
  <1>4. ASSUME End(t)
        PROVE  Works(t) /\ FlowOK(t)'
    BY <1>1, <1>4, EndMoves, NoTaskTyped DEF Works, FlowOK
  <1>5. CASE SetData(t) \/ CreateProfile(t) \/ SavePreferences(t) \/ ClearState(t) \/ ApplyPhotos(t)
    BY <1>1, <1>2, <1>3, <1>4, <1>5
    DEF SetData, CreateProfile, SavePreferences, ClearState, ApplyPhotos, Pcs, FlowOK, At
  <1>6. CASE ReadForm(t)
    BY <1>1, <1>2, <1>4, <1>6, CopyMoves DEF ReadForm, Pcs, FlowOK, At, Works
  <1>7. CASE ReadMenu(t)
    BY <1>1, <1>2, <1>3, <1>7, CopyMoves DEF ReadMenu, Pcs, FlowOK, At, Works
  <1>8. CASE ClearData(t) \/ ShowMenu(t) \/ Fail(t)
    BY <1>2, <1>4, <1>8 DEF ClearData, ShowMenu, Fail
  <1>9. CASE GetData(t)
    BY <1>1, <1>2, <1>9, GetDataMoves DEF GetData, FlowOK, At, Works
  <1> QED
    BY <1>5, <1>6, <1>7, <1>8, <1>9 DEF Work

LEMMA LeadersFrom ==
  ASSUME NEW flow \in Flows, buffer'[flow] = buffer[flow],
         \A t \in Tasks : (t \in Sleepers(flow)') <=> (t \in Sleepers(flow)),
         IF buffer[flow] = <<>> THEN Sleepers(flow) = {} ELSE \E t \in Tasks : Sleepers(flow) = {t}
  PROVE  (IF buffer[flow] = <<>> THEN Sleepers(flow) = {} ELSE \E t \in Tasks : Sleepers(flow) = {t})'
  <1>1. Sleepers(flow) \subseteq Tasks /\ Sleepers(flow)' \subseteq Tasks
    BY DEF Sleepers, Asleep
  <1>2. Sleepers(flow)' = Sleepers(flow)
    BY <1>1
  <1> QED
    BY <1>2

LEMMA LeadersAndFlowsStep ==
  ASSUME TypeOK, NotAhead, LeadersOK, FlowsOK, Next
  PROVE  LeadersOK' /\ FlowsOK'
  <1> DEFINE Led(flow) ==
        IF buffer[flow] = <<>> THEN Sleepers(flow) = {} ELSE \E t \in Tasks : Sleepers(flow) = {t}
  <1>1. /\ task \in [Tasks -> Task] /\ buffer \in [Flows -> Seq(Forms)] /\ form \in Forms
        /\ \A t \in Tasks : task[t].flow \in Flows
        /\ \A flow \in Flows : Led(flow)
        /\ \A t \in Tasks : FlowOK(t)
    BY FieldsOfTask DEF TypeOK, NotAhead, LeadersOK, FlowsOK, FlowOK
  <1>2. SUFFICES (\A flow \in Flows : Led(flow)') /\ \A t \in Tasks : FlowOK(t)'
    BY DEF LeadersOK, FlowsOK, FlowOK
  <1>3. ASSUME buffer' = buffer, Throttled \/ UNCHANGED task
        PROVE  (\A flow \in Flows : Led(flow)') /\ \A t \in Tasks : FlowOK(t)'
    <2>1. \A t \in Tasks : task'[t].pc = task[t].pc /\ task'[t].flow = task[t].flow
      BY <1>1, <1>3, ThrottledMoves
    <2>2. \A flow \in Flows : \A t \in Tasks : (t \in Sleepers(flow)') <=> (t \in Sleepers(flow))
      BY <2>1 DEF Sleepers, Asleep, At
    <2> QED
      BY <1>1, <1>3, <2>1, <2>2, LeadersFrom DEF FlowOK
  <1>4. CASE Ended \/ Begun \/ Moved \/ (\E step \in Steps : Given(step[1], step[2])) \/ RunOut
             \/ DeleteProfile \/ (\E s \in Finders : FindPlaces(s) \/ ParkCandidates(s))
    BY <1>3, <1>4
    DEF Ended, Begun, Moved, Given, RunOut, DeleteProfile, FindPlaces, ParkCandidates, chat
  <1>5. ASSUME NEW flow \in Flows, Collect(flow)
        PROVE  (\A other \in Flows : Led(other)') /\ \A t \in Tasks : FlowOK(t)'
    <2>1. \A other \in Flows : other # flow => buffer'[other] = buffer[other]
      BY <1>1, <1>5, Added
    <2>2. buffer'[flow] # <<>>
      BY <1>1, <1>5, Added
    <2>3. CASE buffer[flow] # <<>>
      <3>1. task' = task
        BY <1>5, <2>3 DEF Collect, LeadOrFollow
      <3>2. \A other \in Flows : Sleepers(other)' = Sleepers(other)
        BY <3>1 DEF Sleepers, Asleep, At
      <3> QED
        BY <1>1, <2>1, <2>2, <2>3, <3>1, <3>2 DEF FlowOK
    <2>4. CASE buffer[flow] = <<>>
      <3>1. PICK t \in Tasks : Lead(flow, t)
        BY <1>5, <2>4 DEF Collect, LeadOrFollow
      <3>2. OthersKeep(t) /\ task'[t].pc = "asleep" /\ task'[t].flow = flow
        BY <1>1, <3>1, LeadMoves
      <3>3. Sleepers(flow) = {} /\ t \notin Asleep
        BY <1>1, <2>4, <3>1 DEF Lead, Asleep, At
      <3>4. Sleepers(flow)' = {t}
        BY <3>2, <3>3 DEF Sleepers, Asleep, At, OthersKeep
      <3>5. ASSUME NEW other \in Flows, other # flow
            PROVE  Led(other)'
        <4>1. \A u \in Tasks : (u \in Sleepers(other)') <=> (u \in Sleepers(other))
          BY <3>2, <3>3, <3>5 DEF Sleepers, Asleep, At, OthersKeep
        <4> QED
          BY <1>1, <2>1, <3>5, <4>1, LeadersFrom
      <3>6. \A u \in Tasks : FlowOK(u)'
        BY <1>1, <3>2 DEF FlowOK, OthersKeep
      <3> QED
        BY <2>2, <3>4, <3>5, <3>6
    <2> QED
      BY <2>3, <2>4
  <1>6. ASSUME NEW t \in Tasks, Wake(t)
        PROVE  (\A other \in Flows : Led(other)') /\ \A u \in Tasks : FlowOK(u)'
    <2> PICK flow \in Flows : flow = task[t].flow
      BY <1>1
    <2>1. /\ OthersKeep(t) /\ task'[t].pc = (IF flow = "create" THEN "get" ELSE "menu")
          /\ task'[t].flow = flow
      BY <1>6, WakeMoves
    <2>2. flow \in Flows /\ t \in Sleepers(flow)
      BY <1>1, <1>6 DEF Wake, Sleepers, Asleep
    <2>3. Sleepers(flow) = {t}
      BY <1>1, <2>2
    <2>4. buffer'[flow] = <<>> /\ \A other \in Flows : other # flow => buffer'[other] = buffer[other]
      BY <1>1, <1>6, <2>2 DEF Wake
    <2>5. Sleepers(flow)' = {}
      BY <2>1, <2>3 DEF Sleepers, Asleep, At, OthersKeep
    <2>6. ASSUME NEW other \in Flows, other # flow
          PROVE  Led(other)'
      <3>1. \A u \in Tasks : (u \in Sleepers(other)') <=> (u \in Sleepers(other))
        BY <2>1, <2>6 DEF Sleepers, Asleep, At, OthersKeep
      <3> QED
        BY <1>1, <2>4, <2>6, <3>1, LeadersFrom
    <2>7. \A u \in Tasks : FlowOK(u)'
      BY <1>1, <2>1, <2>2 DEF FlowOK, OthersKeep, Flows
    <2>8. Led(flow)'
      BY <2>4, <2>5
    <2> HIDE DEF Led
    <2>9. \A other \in Flows : Led(other)'
      BY <2>6, <2>8
    <2> QED
      BY <2>7, <2>9
  <1>7. ASSUME NEW t \in Tasks, Work(t) \/ Fail(t)
        PROVE  (\A other \in Flows : Led(other)') /\ \A u \in Tasks : FlowOK(u)'
    <2>1. t \in Busy /\ Works(t) /\ FlowOK(t)' /\ buffer' = buffer
      BY <1>7, WorkGoesOn
    <2>2. \A other \in Flows : \A u \in Tasks : (u \in Sleepers(other)') <=> (u \in Sleepers(other))
      BY <2>1 DEF Works, Busy, Sleepers, Asleep, At, OthersKeep
    <2> QED
      BY <1>1, <2>1, <2>2, LeadersFrom DEF Works, OthersKeep, FlowOK
  <1>8. CASE Restart
    <2>1. \A flow \in Flows : buffer'[flow] = <<>>
      BY <1>8 DEF Restart
    <2>2. \A t \in Tasks : task'[t] = NoTask
      BY <1>8 DEF Restart
    <2>3. \A flow \in Flows : Sleepers(flow)' = {}
      BY <2>2, NoTaskTyped DEF Sleepers, Asleep, At
    <2> QED
      BY <2>1, <2>2, <2>3, NoTaskTyped DEF FlowOK
  <1>9. "create" \in Flows /\ "edit" \in Flows
    BY DEF Flows
  <1> QED
    BY <1>4, <1>5, <1>6, <1>7, <1>8, <1>9, Classified DEF Event

-----------------------------------------------------------------------------
(* What holds of every conversation.                                       *)

Shape == TypeOK /\ NotAhead /\ LeadersOK /\ FlowsOK

LEMMA ShapeInit ==
  ASSUME Init
  PROVE  Shape
  <1>1. /\ state = "none" /\ data = NoData /\ buffer = [flow \in Flows |-> <<>>]
        /\ task = [t \in Tasks |-> NoTask] /\ profile = NoProfile /\ form = 0 /\ closed = {}
        /\ lookups = 0 /\ sent = 0 /\ deleted = 0 /\ finder = [f \in Finders |-> NoFinder]
        /\ located = FALSE /\ revived = FALSE /\ raced = FALSE
    BY DEF Init
  <1>2. <<>> \in Seq(Forms) /\ Len(<<>>) = 0 /\ DOMAIN <<>> = {}
    OBVIOUS
  <1>3. TypeOK
    <2>1. buffer \in [Flows -> Seq(Forms)] /\ task \in [Tasks -> Task]
      BY <1>1, <1>2, NoTaskTyped
    <2>2. \A flow \in Flows : Len(buffer[flow]) <= MaxPhotos
      BY <1>1, <1>2
    <2>3. data \in Data
      BY <1>1, NoDataTyped
    <2>4. {lookups, form, sent, deleted} \subseteq Nat
      BY <1>1
    <2>5. {located, revived, raced} \subseteq BOOLEAN
      BY <1>1
    <2>6. state \in {"none"} \cup CreateSteps \cup EditSteps \cup BrowseSteps
      BY <1>1
    <2>7. profile \in ProfileRow \cup {NoProfile} /\ closed \subseteq Forms
      BY <1>1
    <2>8. finder \in [Finders -> Finder]
      BY <1>1, NoFinderTyped
    <2> QED
      BY <2>1, <2>2, <2>3, <2>4, <2>5, <2>6, <2>7, <2>8 DEF TypeOK
  <1>4. \A t \in Tasks : task[t] = NoTask
    BY <1>1
  <1>5. 0 <= MaxForms /\ MaxForms \in Nat /\ MaxDeleted \in Nat
    OBVIOUS
  <1>6. \A t \in Tasks : Within(t)
    BY <1>1, <1>2, <1>4, <1>5, NoDataTyped, NoTaskTyped DEF Within, At, Busy
  <1>7. NotAhead
    <2>1. Parking = {}
      BY <1>1, NoFinderTyped DEF Parking
    <2> QED
      BY <1>1, <1>2, <1>5, <1>6, <2>1, NoDataTyped DEF NotAhead, Forms
  <1>8. LeadersOK
    BY <1>1, <1>4, NoTaskTyped DEF LeadersOK, Sleepers, Asleep, At
  <1>9. FlowsOK
    BY <1>4, NoTaskTyped DEF FlowsOK
  <1> QED
    BY <1>3, <1>7, <1>8, <1>9 DEF Shape

LEMMA ShapeStep ==
  ASSUME Shape, [Next]_vars
  PROVE  Shape'
  <1>1. CASE Next
    BY <1>1, TypeOKStep, NotAheadStep, LeadersAndFlowsStep DEF Shape
  <1>2. CASE UNCHANGED vars
    BY <1>2 DEF vars, Shape, TypeOK, NotAhead, Within, Parking, LeadersOK, FlowsOK, Sleepers, Asleep, Busy, At
  <1> QED
    BY <1>1, <1>2

\* Keys, buffers, leaders and the profile keep their types, and a buffer is
\* never longer than a profile may have photos.
THEOREM TypeCorrect == Spec => []TypeOK
  <1>1. Init => Shape
    BY ShapeInit
  <1>2. Shape /\ [Next]_vars => Shape'
    BY ShapeStep
  <1>3. Shape => TypeOK
    BY DEF Shape
  <1> QED
    BY <1>1, <1>2, <1>3, PTL DEF Spec

\* However albums, other handlers, failures and restarts interleave, photos
\* that wait in a buffer have exactly one sleeping leader that will take them.
THEOREM PhotosHaveOneLeader == Spec => []BufferHasLeader
  <1>1. Init => Shape
    BY ShapeInit
  <1>2. Shape /\ [Next]_vars => Shape'
    BY ShapeStep
  <1>3. ASSUME Shape
        PROVE  BufferHasLeader
    <2> SUFFICES ASSUME NEW flow \in Flows
                 PROVE  Cardinality(Sleepers(flow)) = IF buffer[flow] = <<>> THEN 0 ELSE 1
      BY DEF BufferHasLeader, Sleepers
    <2>1. IF buffer[flow] = <<>> THEN Sleepers(flow) = {} ELSE \E t \in Tasks : Sleepers(flow) = {t}
      BY <1>3 DEF Shape, LeadersOK
    <2> QED
      BY <2>1, FS_EmptySet, FS_Singleton
  <1> QED
    BY <1>1, <1>2, <1>3, PTL DEF Spec

-----------------------------------------------------------------------------
(* The steps of a conversation and its data.                               *)

WholeNow ==
  /\ StepIsWhole
  /\ \A t \in Tasks : LeaderIsOfForm(t)
  /\ \A t, u \in Tasks : t # u => Alike(t, u)

LEMMA WholeOfIdle ==
  ASSUME StepIsWhole', \A t \in Tasks : task'[t].pc = "idle"
  PROVE  WholeNow'
  BY DEF WholeNow, LeaderIsOfForm, Alike, Leading, At

\* Only the step moved, to where the leaders may be.
LEMMA WholeKept ==
  ASSUME WholeNow, StepIsWhole',
         /\ data'.user = data.user /\ data'.menu = data.menu /\ data'.answers = data.answers
         /\ form' = form,
         \/ state' = state
         \/ state' \in BrowseSteps
         \/ state \in EditSteps /\ state' \in EditSteps,
         \A t \in Tasks :
           task'[t].pc = task[t].pc /\ task'[t].flow = task[t].flow /\ task'[t].copy = task[t].copy
  PROVE  WholeNow'
  <1>1. ASSUME NEW t \in Tasks
        PROVE  LeaderIsOfForm(t)'
    <2>1. LeaderIsOfForm(t)
      BY DEF WholeNow
    <2>2. /\ Leading(t)' <=> Leading(t)
          /\ At(t, "cleared")' <=> At(t, "cleared")
          /\ At(t, "set")' <=> At(t, "set")
          /\ task'[t].flow = task[t].flow /\ task'[t].copy = task[t].copy
      BY DEF Leading, At
    <2>3. (Answers(data) => Answers(data)') /\ (Answers(task[t].copy) => Answers(task[t].copy)')
      BY <2>2 DEF Answers
    <2>4. state \in EditSteps => state \notin {"photo", "none"} \cup BrowseSteps
      BY DEF EditSteps, BrowseSteps
    <2> QED
      BY <2>1, <2>2, <2>3, <2>4 DEF LeaderIsOfForm
  <1>2. ASSUME NEW t \in Tasks, NEW u \in Tasks, t # u
        PROVE  Alike(t, u)'
    BY <1>2 DEF WholeNow, Alike, Leading, At
  <1> QED
    BY <1>1, <1>2 DEF WholeNow

\* A leader went on, the others did not.
LEMMA WholeMoved ==
  ASSUME WholeNow, StepIsWhole', NEW t \in Tasks, OthersKeep(t), Leading(t),
         LeaderIsOfForm(t)',
         Leading(t)' => task'[t].flow = task[t].flow /\ task'[t].pc # "cleared",
         state' = state /\ form' = form,
         data'.menu = data.menu,
         Answers(data) => Answers(data)'
  PROVE  WholeNow'
  <1>1. ASSUME NEW u \in Tasks, u # t
        PROVE  LeaderIsOfForm(u)' /\ Alike(t, u)' /\ Alike(u, t)'
    <2>1. LeaderIsOfForm(u) /\ Alike(t, u) /\ task'[u] = task[u]
      BY <1>1 DEF WholeNow, OthersKeep
    <2>2. LeaderIsOfForm(u)'
      <3>1. Answers(task[u].copy) => Answers(task[u].copy)'
        BY <2>1 DEF Answers
      <3> QED
        BY <2>1, <3>1 DEF LeaderIsOfForm, Leading, At
    <2>3. Leading(u) => ~At(u, "cleared")
      BY <1>1 DEF WholeNow, Alike
    <2> QED
      BY <2>1, <2>2, <2>3 DEF Alike, Leading, At
  <1>2. ASSUME NEW u \in Tasks, NEW v \in Tasks, u # v, u # t, v # t
        PROVE  Alike(u, v)'
    <2>1. Alike(u, v) /\ task'[u] = task[u] /\ task'[v] = task[v]
      BY <1>2 DEF WholeNow, OthersKeep
    <2> QED
      BY <2>1 DEF Alike, Leading, At
  <1> QED
    BY <1>1, <1>2 DEF WholeNow

LEMMA MeetsNobody ==
  ASSUME Anew, Leaders = {} \/ ~raced'
  PROVE  \A t \in Tasks : task[t].pc = "idle"
  BY DEF Anew, Leaders, Asleep, Busy, At

\* Apart from the end of a task, a leader's steps leave the step and the data alone.
LEMMA WholeWorked ==
  ASSUME TypeOK, FlowsOK, WholeNow, NEW t \in Tasks, Work(t), ~raced'
  PROVE  WholeNow'
  <1>1. /\ task \in [Tasks -> Task] /\ data \in Data /\ LeaderIsOfForm(t) /\ StepIsWhole
        /\ FlowOK(t)
    BY DEF TypeOK, FlowsOK, FlowOK, WholeNow
  <1>2. t \in Busy /\ Works(t) /\ FlowOK(t)'
    BY WorkGoesOn
  <1>3. OthersKeep(t) /\ Leading(t) /\ (Leading(t)' => task'[t].flow = task[t].flow)
    BY <1>2 DEF Works, Busy, Leading, At
  <1>4. CASE /\ UNCHANGED <<state, data, form>> /\ ~At(t, "cleared") /\ task'[t].pc # "cleared"
             /\ task'[t].pc = "set" => task'[t].copy = data
    <2>1. StepIsWhole'
      BY <1>1, <1>4 DEF StepIsWhole
    <2>2. Answers(data) => Answers(data)'
      BY <1>4 DEF Answers
    <2>3. task'[t].pc = "set" => task[t].flow = "create" /\ Answers(task[t].copy)'
      <3> SUFFICES ASSUME task'[t].pc = "set"
                   PROVE  task[t].flow = "create" /\ Answers(task[t].copy)'
        OBVIOUS
      <3>1. task'[t].flow = "create" /\ task[t].flow = "create"
        BY <1>2, <1>3 DEF FlowOK, Leading, At
      <3>2. Answers(data)
        BY <1>1, <1>3, <1>4, <3>1 DEF LeaderIsOfForm
      <3> QED
        BY <1>4, <3>1, <3>2 DEF Answers
    <2>4. LeaderIsOfForm(t)'
      BY <1>1, <1>3, <1>4, <2>2, <2>3 DEF LeaderIsOfForm, Leading, At
    <2> QED
      BY <1>3, <1>4, <2>1, <2>2, <2>4, WholeMoved
  <1>5. CASE GetData(t)
    <2>1. task'[t].pc = "set" /\ task'[t].copy = data
      BY <1>5, GetDataMoves
    <2> QED
      BY <1>4, <1>5, <2>1 DEF GetData, work, still, At
  <1>6. CASE SetData(t)
    <2>1. Goto(t, "finalize") /\ At(t, "set") /\ "finalize" \in Pcs
      BY <1>6 DEF SetData, Pcs
    <2>2. task'[t].pc = "finalize"
      BY <1>1, <2>1, GotoMoves
    <2>3. task[t].flow = "create" /\ Answers(task[t].copy) /\ state \in {"photo"} \cup BrowseSteps
      BY <1>1, <1>3, <2>1 DEF LeaderIsOfForm, FlowOK, At
    <2>4. task[t].copy \in Data /\ task[t].photos \in Seq(Forms)
      BY <1>1, FieldsOfTask
    <2> PICK d \in Data : d = task[t].copy
      BY <2>4
    <2> PICK e \in Data : e = [d EXCEPT !.photos = task[t].photos]
      BY <2>4 DEF Data
    <2>5. e.user = d.user /\ e.menu = d.menu /\ e.answers = d.answers
      BY <2>4 DEF Data
    <2>6. data' = e /\ state' = state /\ form' = form
      BY <1>6 DEF SetData
    <2>7. Answers(data)'
      BY <2>3, <2>5, <2>6 DEF Answers
    <2>8. StepIsWhole'
      <3>1. state' \notin EditSteps /\ (state' \in CreateSteps => state' = "photo")
        BY <2>3, <2>6 DEF EditSteps, CreateSteps, BrowseSteps, Fields, ProfileFields
      <3>2. Before["photo"] = Fields
        BY DEF Before
      <3> QED
        BY <2>6, <2>7, <3>1, <3>2 DEF StepIsWhole, Answers
    <2>9. LeaderIsOfForm(t)'
      BY <1>3, <2>2, <2>3, <2>6, <2>7 DEF LeaderIsOfForm, At
    <2>10. ASSUME NEW u \in Tasks, u # t
           PROVE  LeaderIsOfForm(u)' /\ Alike(u, t)' /\ Alike(t, u)'
      <3>1. LeaderIsOfForm(u) /\ Alike(t, u) /\ task'[u] = task[u]
        BY <1>3, <2>10 DEF WholeNow, OthersKeep
      <3>2. Leading(u) => task[u].flow = "create" /\ ~At(u, "cleared")
        BY <1>3, <2>3, <2>10 DEF WholeNow, Alike
      <3>3. Answers(task[u].copy) => Answers(task[u].copy)'
        BY <2>6, <3>1 DEF Answers
      <3>4. LeaderIsOfForm(u)'
        BY <2>3, <2>6, <2>7, <3>1, <3>2, <3>3 DEF LeaderIsOfForm, Leading, At
      <3> QED
        BY <1>3, <2>2, <2>3, <3>1, <3>2, <3>4 DEF Alike, Leading, At
    <2>11. ASSUME NEW u \in Tasks, NEW v \in Tasks, u # v, u # t, v # t
           PROVE  Alike(u, v)'
      <3>1. Alike(u, v) /\ task'[u] = task[u] /\ task'[v] = task[v]
        BY <1>3, <2>11 DEF WholeNow, OthersKeep
      <3> QED
        BY <3>1 DEF Alike, Leading, At
    <2> QED
      BY <2>8, <2>9, <2>10, <2>11 DEF WholeNow
  <1>7. CASE ReadForm(t)
    <2>1. task'[t].pc \in {"create", "idle"}
      BY <1>1, <1>7, CopyMoves, EndMoves, NoTaskTyped DEF ReadForm, Pcs
    <2> QED
      BY <1>4, <1>7, <2>1 DEF ReadForm, work, still, At
  <1>8. CASE CreateProfile(t) \/ SavePreferences(t)
    <2>1. End(t) \/ \E pc \in {"preferences", "clear"} : Goto(t, pc)
      BY <1>8 DEF CreateProfile, SavePreferences
    <2>2. task'[t].pc \in {"idle", "preferences", "clear"}
      BY <1>1, <2>1, GotoMoves, EndMoves, NoTaskTyped DEF Pcs
    <2> QED
      BY <1>4, <1>8, <2>2 DEF CreateProfile, SavePreferences, work, still, At
  <1>9. CASE ReadMenu(t)
    <2>1. task'[t].pc \in {"apply", "clear"}
      BY <1>1, <1>9, CopyMoves, GotoMoves DEF ReadMenu, Pcs
    <2> QED
      BY <1>4, <1>9, <2>1 DEF ReadMenu, work, still, At
  <1>10. CASE ApplyPhotos(t)
    <2>1. PICK pc \in {"show", "clear"} : Goto(t, pc)
      BY <1>10 DEF ApplyPhotos
    <2>2. task'[t].pc = pc
      BY <1>1, <2>1, GotoMoves DEF Pcs
    <2> QED
      BY <1>4, <1>10, <2>2 DEF ApplyPhotos, work, still, At
  <1>11. CASE ClearState(t)
    <2>1. Goto(t, "cleared") /\ "cleared" \in Pcs /\ state' = "none"
      BY <1>11 DEF ClearState, Pcs
    <2>2. task'[t].pc = "cleared"
      BY <1>1, <2>1, GotoMoves
    <2>3. \A u \in Tasks : u # t => task'[u].pc = "idle"
      <3>1. \A u \in Tasks : u # t => task[u].pc = "idle"
        BY <1>11 DEF ClearState, Leaders, Asleep, Busy, At
      <3> QED
        BY <1>3, <3>1 DEF OthersKeep
    <2>4. StepIsWhole'
      BY <2>1 DEF StepIsWhole, CreateSteps, EditSteps, Fields, ProfileFields
    <2> QED
      BY <2>1, <2>2, <2>3, <2>4 DEF WholeNow, LeaderIsOfForm, Alike, Leading, At
  <1>12. CASE ClearData(t)
    <2>1. End(t) /\ At(t, "cleared") /\ state' = state
      BY <1>12 DEF ClearData
    <2>2. task'[t].pc = "idle"
      BY <1>1, <2>1, EndMoves, NoTaskTyped
    <2>3. \A u \in Tasks : u # t => task[u].pc = "idle"
      BY <1>3, <2>1 DEF WholeNow, Alike, Leading, At
    <2>4. \A u \in Tasks : task'[u].pc = "idle"
      BY <1>3, <2>2, <2>3 DEF OthersKeep
    <2>5. state \in {"none"} \cup BrowseSteps
      BY <1>1, <2>1 DEF LeaderIsOfForm
    <2>6. StepIsWhole'
      BY <2>1, <2>5 DEF StepIsWhole, CreateSteps, EditSteps, BrowseSteps, Fields, ProfileFields
    <2> QED
      BY <2>4, <2>6, WholeOfIdle
  <1>13. CASE ShowMenu(t)
    <2>1. End(t) /\ At(t, "show") /\ state' = "choosing" /\ data' = data /\ form' = form
      BY <1>13 DEF ShowMenu, work, still
    <2>2. task'[t].pc = "idle"
      BY <1>1, <2>1, EndMoves, NoTaskTyped
    <2>3. task[t].flow = "edit" /\ data.menu # 0
      BY <1>1, <1>3, <2>1 DEF LeaderIsOfForm, FlowOK, At
    <2>4. StepIsWhole'
      BY <2>1, <2>3 DEF StepIsWhole, CreateSteps, Fields, ProfileFields
    <2>5. ASSUME NEW u \in Tasks, u # t, Leading(u)
          PROVE  task[u].flow = "edit" /\ ~At(u, "cleared") /\ LeaderIsOfForm(u)
      BY <1>3, <2>3, <2>5 DEF WholeNow, Alike
    <2>6. ASSUME NEW u \in Tasks
          PROVE  LeaderIsOfForm(u)'
      <3>1. CASE u = t \/ ~Leading(u)
        BY <1>3, <2>2, <3>1 DEF LeaderIsOfForm, Leading, At, OthersKeep
      <3>2. CASE u # t /\ Leading(u)
        <4>1. task'[u] = task[u] /\ "choosing" \in EditSteps
          BY <1>3, <3>2 DEF OthersKeep, EditSteps
        <4>2. ~At(u, "set")
          BY <2>5, <3>2 DEF FlowsOK, At
        <4> QED
          BY <2>1, <2>3, <2>5, <3>2, <4>1, <4>2 DEF LeaderIsOfForm, Leading, At
      <3> QED
        BY <3>1, <3>2
    <2>7. ASSUME NEW u \in Tasks, NEW v \in Tasks, u # v
          PROVE  Alike(u, v)'
      BY <1>3, <2>2, <2>7 DEF WholeNow, Alike, Leading, At, OthersKeep
    <2> QED
      BY <2>4, <2>6, <2>7 DEF WholeNow
  <1> QED
    BY <1>5, <1>6, <1>7, <1>8, <1>9, <1>10, <1>11, <1>12, <1>13 DEF Work

LEMMA WholeStep ==
  ASSUME TypeOK, NotAhead, FlowsOK, Whole, Next
  PROVE  Whole'
  <1> SUFFICES ASSUME ~raced'
               PROVE  WholeNow'
    BY DEF Whole, WholeNow
  <1>1. task \in [Tasks -> Task] /\ form \in Forms /\ data \in Data
    BY DEF TypeOK, NotAhead
  <1>2. ~raced => WholeNow
    BY DEF Whole, WholeNow
  <1>3. CASE Ended
    <2>1. \A t \in Tasks : task'[t].pc = "idle"
      BY <1>1, <1>3, MeetsNobody, ThrottledMoves DEF Ended
    <2>2. StepIsWhole'
      BY <1>3 DEF Ended, StepIsWhole, CreateSteps, EditSteps, Fields, ProfileFields
    <2> QED
      BY <2>1, <2>2, WholeOfIdle
  <1>4. CASE Begun
    <2>1. \A t \in Tasks : task'[t].pc = "idle"
      BY <1>1, <1>4, MeetsNobody, ThrottledMoves DEF Begun
    <2>2. CASE state' = "name" /\ data'.user = TRUE
      BY <2>1, <2>2, WholeOfIdle DEF StepIsWhole, EditSteps, Before
    <2>3. CASE state' = "choosing" /\ data'.menu # 0
      BY <2>1, <2>3, WholeOfIdle DEF StepIsWhole, CreateSteps, Fields, ProfileFields
    <2> QED
      BY <1>4, <2>2, <2>3 DEF Begun
  <1>5. ASSUME NEW step \in Steps, Given(step[1], step[2])
        PROVE  WholeNow'
    <2>1. WholeNow /\ state = step[1] /\ state' = step[2] /\ form' = form
      BY <1>2, <1>5 DEF Given, Same
    <2>2. /\ state \in Fields /\ state \notin {"photo", "none"} \cup BrowseSteps \cup EditSteps
          /\ state' \in CreateSteps \ EditSteps
          /\ Before[state'] = Before[state] \cup {state}
      <3>1. /\ Before["age"] = Before["name"] \cup {"name"}
            /\ Before["gender"] = Before["age"] \cup {"age"}
            /\ Before["preference"] = Before["gender"] \cup {"gender"}
            /\ Before["location"] = Before["preference"] \cup {"preference"}
            /\ Before["bio"] = Before["location"] \cup {"location"}
            /\ Before["photo"] = Before["bio"] \cup {"bio"}
        BY DEF Before, Fields, ProfileFields
      <3>2. Before[state'] = Before[state] \cup {state}
        BY <2>1, <3>1 DEF Steps
      <3>3. state \in Fields /\ state' \in Fields \cup {"photo"}
        BY <2>1 DEF Steps, Fields, ProfileFields
      <3>4. /\ \A f \in Fields : f \notin {"photo", "none"} \cup BrowseSteps \cup EditSteps
            /\ \A f \in Fields \cup {"photo"} : f \in CreateSteps \ EditSteps
        BY DEF Fields, ProfileFields, CreateSteps, EditSteps, BrowseSteps
      <3> QED
        BY <3>2, <3>3, <3>4
    <2>3. \A t \in Tasks : task[t].pc = "idle"
      BY <2>1, <2>2 DEF WholeNow, LeaderIsOfForm, Leading, At
    <2>4. \A t \in Tasks : task'[t].pc = "idle"
      BY <1>1, <1>5, <2>3, ThrottledMoves DEF Given
    <2>5. data.answers \in [Fields -> Forms] /\ Before[state] \subseteq Fields
      BY <1>1, <2>2, FieldsOf DEF Before, Fields, ProfileFields
    <2>6. data.user /\ \A f \in Before[state] : data.answers[f] = form
      BY <2>1, <2>2 DEF WholeNow, StepIsWhole, CreateSteps
    <2>7. data'.user /\ \A f \in Before[state'] : data'.answers[f] = form
      BY <1>5, <2>1, <2>2, <2>5, <2>6 DEF Given
    <2>8. StepIsWhole'
      BY <2>1, <2>2, <2>7 DEF StepIsWhole
    <2> QED
      BY <2>4, <2>8, WholeOfIdle
  <1>6. CASE Moved
    <2>1. WholeNow /\ form' = form
      BY <1>2, <1>6 DEF Moved
    <2>2. \A t \in Tasks :
            task'[t].pc = task[t].pc /\ task'[t].flow = task[t].flow /\ task'[t].copy = task[t].copy
      BY <1>1, <1>6, ThrottledMoves DEF Moved
    <2>3. /\ data'.user = data.user /\ data'.menu = data.menu /\ data'.answers = data.answers
      BY <1>6 DEF Moved
    <2>4. \/ state' = state
          \/ state' \in BrowseSteps
          \/ state \in EditSteps /\ state' \in EditSteps
      BY <1>6 DEF Moved
    <2>5. StepIsWhole'
      BY <2>1, <2>3, <2>4
      DEF WholeNow, StepIsWhole, CreateSteps, EditSteps, BrowseSteps, Fields, ProfileFields
    <2> QED
      BY <2>1, <2>2, <2>3, <2>4, <2>5, WholeKept
  <1>7. ASSUME NEW flow \in Flows, Collect(flow),
               state = IF flow = "create" THEN "photo" ELSE "edit photo"
        PROVE  WholeNow'
    <2>1. WholeNow /\ UNCHANGED <<state, data, form>>
      BY <1>2, <1>7 DEF Collect
    <2>2. StepIsWhole'
      BY <2>1 DEF WholeNow, StepIsWhole
    <2>3. CASE task' = task
      BY <2>1, <2>2, <2>3, WholeKept
    <2>4. ASSUME NEW t \in Tasks, Lead(flow, t)
          PROVE  WholeNow'
      <3>1. OthersKeep(t) /\ task'[t].pc = "asleep" /\ task'[t].flow = flow
        BY <1>1, <2>4, LeadMoves
      <3>2. IF flow = "create" THEN Answers(data)' ELSE data'.menu # 0
        BY <1>7, <2>1, <2>2
        DEF StepIsWhole, Answers, Before, CreateSteps, EditSteps, Fields, ProfileFields, Flows
      <3>3. LeaderIsOfForm(t)'
        BY <1>7, <2>1, <3>1, <3>2 DEF LeaderIsOfForm, At, EditSteps
      <3>4. ASSUME NEW u \in Tasks, u # t
            PROVE  LeaderIsOfForm(u)' /\ Alike(t, u)' /\ Alike(u, t)'
        <4>1. LeaderIsOfForm(u) /\ task'[u] = task[u]
          BY <2>1, <3>1, <3>4 DEF WholeNow, OthersKeep
        <4>2. /\ Answers(data) => Answers(data)'
              /\ Answers(task[u].copy) => Answers(task[u].copy)'
          BY <2>1, <4>1 DEF Answers
        <4>3. LeaderIsOfForm(u)'
          BY <2>1, <4>1, <4>2 DEF LeaderIsOfForm, Leading, At
        <4>4. Leading(u) => task[u].flow = flow /\ ~At(u, "cleared")
          BY <1>1, <1>7, <4>1, FieldsOfTask
          DEF LeaderIsOfForm, EditSteps, BrowseSteps, Flows
        <4> QED
          BY <3>1, <4>1, <4>3, <4>4 DEF Alike, Leading, At
      <3>5. ASSUME NEW u \in Tasks, NEW v \in Tasks, u # v, u # t, v # t
            PROVE  Alike(u, v)'
        <4>1. Alike(u, v) /\ task'[u] = task[u] /\ task'[v] = task[v]
          BY <2>1, <3>1, <3>5 DEF WholeNow, OthersKeep
        <4> QED
          BY <4>1 DEF Alike, Leading, At
      <3> QED
        BY <2>2, <3>3, <3>4, <3>5 DEF WholeNow
    <2> QED
      BY <1>7, <2>3, <2>4 DEF Collect, LeadOrFollow
  <1>8. ASSUME NEW t \in Tasks, Wake(t)
        PROVE  WholeNow'
    <2>1. WholeNow /\ UNCHANGED <<state, data, form>> /\ At(t, "asleep")
      BY <1>2, <1>8 DEF Wake, still
    <2>2. OthersKeep(t) /\ task'[t].pc \in {"get", "menu"} /\ task'[t].flow = task[t].flow
      BY <1>8, WakeMoves
    <2>3. StepIsWhole'
      BY <2>1 DEF WholeNow, StepIsWhole
    <2>4. Answers(data) => Answers(data)'
      BY <2>1 DEF Answers
    <2>5. Leading(t) /\ LeaderIsOfForm(t)'
      BY <2>1, <2>2, <2>4 DEF WholeNow, LeaderIsOfForm, Leading, At
    <2> QED
      BY <2>1, <2>2, <2>3, <2>4, <2>5, WholeMoved DEF Leading, At
  <1>9. ASSUME NEW t \in Tasks, Work(t) \/ Fail(t)
        PROVE  WholeNow'
    <2>1. Work(t)
      BY <1>9 DEF Fail
    <2>2. ~raced
      BY <2>1 DEF Work, GetData, SetData, ReadForm, CreateProfile, SavePreferences, ClearState,
        ClearData, ReadMenu, ApplyPhotos, ShowMenu, work, still
    <2> QED
      BY <1>2, <2>1, <2>2, WholeWorked
  <1>10. CASE Restart
    <2>1. WholeNow /\ UNCHANGED <<state, data, form>> /\ \A t \in Tasks : task'[t].pc = "idle"
      BY <1>2, <1>10, NoTaskTyped DEF Restart
    <2>2. StepIsWhole'
      BY <2>1 DEF WholeNow, StepIsWhole
    <2> QED
      BY <2>1, <2>2, WholeOfIdle
  <1>11. CASE RunOut
    BY <1>11 DEF RunOut
  <1>12. CASE DeleteProfile
    <2>1. WholeNow /\ UNCHANGED <<state, data, form, task>>
      BY <1>2, <1>12 DEF DeleteProfile
    <2>2. StepIsWhole'
      BY <2>1 DEF WholeNow, StepIsWhole
    <2> QED
      BY <2>1, <2>2, WholeKept
  <1>13. "create" \in Flows /\ "edit" \in Flows
    BY DEF Flows
  <1>14. ASSUME NEW s \in Finders, FindPlaces(s) \/ ParkCandidates(s)
         PROVE  WholeNow'
    <2>1. WholeNow /\ UNCHANGED <<state, data, form, task>>
      BY <1>2, <1>14 DEF FindPlaces, ParkCandidates
    <2>2. StepIsWhole'
      BY <2>1 DEF WholeNow, StepIsWhole
    <2> QED
      BY <2>1, <2>2, WholeKept
  <1> QED
    BY <1>3, <1>4, <1>5, <1>6, <1>7, <1>8, <1>9, <1>10, <1>11, <1>12, <1>13, <1>14, Classified
    DEF Event

\* A conversation is never at a step that its data cannot be finished from;
\* unless, since the last form that began or ended with no leader alive, a
\* leader failed or had another beside it, a lookup wrote over newer data, or one
\* of the keys ran out.
THEOREM FormsAreWhole == Spec => []FormIsWhole
  <1>1. ASSUME Init
        PROVE  Shape /\ Whole
    <2>1. state = "none" /\ \A t \in Tasks : task[t].pc = "idle"
      BY <1>1, NoTaskTyped DEF Init
    <2>2. Whole
      BY <2>1 DEF Whole, StepIsWhole, LeaderIsOfForm, Alike, Leading, At, CreateSteps, EditSteps, Fields, ProfileFields
    <2> QED
      BY <1>1, <2>2, ShapeInit
  <1>2. ASSUME Shape /\ Whole, [Next]_vars
        PROVE  (Shape /\ Whole)'
    <2>1. CASE Next
      BY <1>2, <2>1, ShapeStep, WholeStep DEF Shape
    <2>2. CASE UNCHANGED vars
      BY <1>2, <2>2, ShapeStep
      DEF vars, Whole, StepIsWhole, LeaderIsOfForm, Alike, Leading, Answers, At
    <2> QED
      BY <1>2, <2>1, <2>2
  <1>3. Shape /\ Whole => FormIsWhole
    BY DEF Whole, StepIsWhole, FormIsWhole
  <1> QED
    BY <1>1, <1>2, <1>3, PTL DEF Spec

-----------------------------------------------------------------------------
(* Forms and the leaders that finish them.                                 *)

\* A task that goes on, and brings nothing of another form.
Tame(t) ==
  \/ task'[t].pc = "idle"
  \/ /\ task'[t].flow = "create" =>
          /\ Leading(t) /\ task[t].flow = "create"
          /\ PhotosOf(t)' \in {PhotosOf(t), <<>>}
          /\ Spent(t) <= Spent(t)'
     /\ \/ task'[t].pc \notin {"set", "create"}
        \/ /\ task'[t].pc = task[t].pc
           /\ task'[t].copy = task[t].copy /\ task'[t].dead = task[t].dead

LEMMA SpentTyped ==
  ASSUME TypeOK, NotAhead, NEW t \in Tasks
  PROVE  /\ Spent(t) \in Nat /\ PhotosOf(t) \in Seq(Forms)
         /\ Leading(t) => Spent(t) <= WhileAsleep + WhileBusy
  <1>1. task[t].seen \in Nat /\ task[t].photos \in Seq(Forms) /\ Within(t)
    BY FieldsOfTask DEF TypeOK, NotAhead
  <1>2. buffer["create"] \in Seq(Forms)
    BY DEF TypeOK, Flows
  <1>3. WhileAsleep \in Nat /\ WhileBusy \in Nat
    OBVIOUS
  <1> QED
    BY <1>1, <1>2, <1>3 DEF Spent, PhotosOf, Leading, At, Within, Busy

LEMMA TameIsForeign ==
  ASSUME NEW t \in Tasks, Tame(t), form' = form
  PROVE  Foreign(t)' => Foreign(t) /\ Spent(t) <= Spent(t)'
  <1>1. DOMAIN <<>> = {}
    OBVIOUS
  <1> QED
    BY <1>1 DEF Tame, Foreign, Leading, At

LEMMA TameIsAlike ==
  ASSUME NEW t \in Tasks, Tame(t), PhotosAlike(t)
  PROVE  PhotosAlike(t)'
  <1>1. DOMAIN <<>> = {}
    OBVIOUS
  <1> QED
    BY <1>1 DEF Tame, PhotosAlike, Leading, At

LEMMA TameIsCreated ==
  ASSUME NEW t \in Tasks, Tame(t), CopyIsOpen(t), At(t, "create")'
  PROVE  (\E k \in Forms \ task[t].dead :
            /\ \A f \in ProfileFields : task[t].copy.answers[f] = k
            /\ \A i \in DOMAIN task[t].copy.photos : task[t].copy.photos[i] = k)'
  BY DEF Tame, CopyIsOpen, At

LEMMA TameIsCurrent ==
  ASSUME NEW t \in Tasks, Tame(t), closed' = closed, Current(t)'
  PROVE  Current(t) /\ task'[t].copy = task[t].copy
  BY DEF Tame, Current, At

LEMMA ClosingIsNotCurrent ==
  ASSUME TypeOK, NotAhead, NEW t \in Tasks, Tame(t), CopyIsOpen(t), Closes
  PROVE  ~Current(t)'
  <1> SUFFICES ASSUME Current(t)'
               PROVE  FALSE
    OBVIOUS
  <1>1. /\ closed \subseteq closed' /\ form \in closed' /\ task[t].dead \subseteq closed
        /\ task'[t].dead = task[t].dead /\ task'[t].copy = task[t].copy /\ At(t, "set")
    BY ClosesWhatIs DEF NotAhead, Within, Tame, Current, At
  <1>2. closed' = task[t].dead /\ task[t].copy.user
    BY <1>1 DEF Current
  <1>3. closed = task[t].dead /\ form \in closed
    BY <1>1, <1>2
  <1>4. Current(t)
    BY <1>1, <1>2, <1>3 DEF Current
  <1> QED
    BY <1>3, <1>4 DEF CopyIsOpen, OfOpenForm

LEMMA TameIsFar ==
  ASSUME TypeOK, TypeOK', NotAhead, NEW t \in Tasks, Tame(t), StepIsFar(t), form' = form,
         state' \in CreateSteps => state' = state
  PROVE  StepIsFar(t)'
  <1> SUFFICES ASSUME Foreign(t)', state' \in CreateSteps
               PROVE  Rank[state'] <= Spent(t)'
    BY DEF StepIsFar
  <1>1. Foreign(t) /\ Spent(t) <= Spent(t)'
    BY TameIsForeign
  <1>2. Rank[state] <= Spent(t) /\ state' = state
    BY <1>1 DEF StepIsFar
  <1>3. task'[t].seen \in Nat /\ WhileAsleep \in Nat
    BY FieldsOfTask DEF TypeOK
  <1>4. Spent(t) \in Nat /\ Spent(t)' \in Nat
    BY <1>3, SpentTyped DEF Spent
  <1>5. Rank[state] \in Nat
    BY <1>2 DEF Rank, CreateSteps, Fields, ProfileFields
  <1> QED
    BY <1>1, <1>2, <1>4, <1>5

\* A lookup keeps its copy, or has just made it.
Found(s) == Lasts(s) \/ finder'[s].copy = data

LEMMA LastingIsParked ==
  ASSUME NEW s \in Finders, Lasts(s), Parked(s)'
  PROVE  Parked(s) /\ finder'[s].copy = finder[s].copy
  BY DEF Lasts, Parked

LEMMA ParkedKept ==
  ASSUME OpenNow, form' = form, closed' = closed, Live' => Live,
         NEW s \in Finders, Found(s)
  PROVE  ParkedIsOpen(s)'
  <1> SUFFICES ASSUME Parked(s)', Live
               PROVE  IsOpen(finder[s].copy)'
    BY DEF ParkedIsOpen
  <1>1. CASE Lasts(s)
    <2>1. Parked(s) /\ finder'[s].copy = finder[s].copy
      BY <1>1, LastingIsParked
    <2> QED
      BY <2>1 DEF OpenNow, ParkedIsOpen, IsOpen, OfOpenForm
  <1>2. CASE finder'[s].copy = data
    BY <1>2 DEF OpenNow, DataIsOpen, InUse, Parked, IsOpen, OfOpenForm
  <1> QED
    BY <1>1, <1>2 DEF Found

LEMMA ParkedIsFar ==
  ASSUME OpenNow, NEW t \in Tasks, Foreign(t), NEW s \in Finders, Found(s), Parked(s)'
  PROVE  finder'[s].copy.answers["bio"] = 0
  <1>1. CASE Lasts(s)
    BY <1>1, LastingIsParked DEF OpenNow, BioIsFar
  <1>2. CASE finder'[s].copy = data
    BY <1>2 DEF OpenNow, BioIsFar, Parked
  <1> QED
    BY <1>1, <1>2 DEF Found

\* Nothing happened to the form.
LEMMA OpenKept ==
  ASSUME TypeOK, NotAhead, TypeOK', OpenNow,
         form' = form /\ closed' = closed /\ data' = data,
         Live' => Live,
         state' \in CreateSteps => state' = state,
         \A t \in Tasks : Tame(t),
         \A s \in Finders : Found(s)
  PROVE  OpenNow'
  <1>1. DataIsOpen'
    BY DEF OpenNow, DataIsOpen, InUse, IsOpen, OfOpenForm
  <1>2. BioIsFar'
    <2> SUFFICES ASSUME NEW u \in Tasks, Foreign(u)'
                 PROVE  /\ data'.user => data'.answers["bio"] = 0
                        /\ \A v \in Tasks : Current(v)' => task'[v].copy.answers["bio"] = 0
                        /\ \A s \in Finders : Parked(s)' => finder'[s].copy.answers["bio"] = 0
      BY DEF BioIsFar
    <2>1. Foreign(u)
      BY TameIsForeign
    <2> QED
      BY <2>1, TameIsCurrent, ParkedIsFar DEF OpenNow, BioIsFar
  <1>3. ASSUME NEW t \in Tasks
        PROVE  CopyIsOpen(t)' /\ StepIsFar(t)' /\ PhotosAlike(t)'
    <2>1. CopyIsOpen(t)'
      <3>1. CopyIsOpen(t) /\ Tame(t)
        BY DEF OpenNow
      <3>2. Current(t)' => OfOpenForm(task[t].copy)'
        <4> SUFFICES ASSUME Current(t)'
                     PROVE  OfOpenForm(task[t].copy)'
          OBVIOUS
        <4>1. Current(t) /\ task'[t].copy = task[t].copy
          BY <3>1, TameIsCurrent
        <4> QED
          BY <3>1, <4>1 DEF CopyIsOpen, OfOpenForm
      <3> QED
        BY <3>1, <3>2, TameIsCreated DEF CopyIsOpen
    <2>2. StepIsFar(t)'
      BY TameIsFar DEF OpenNow
    <2> QED
      BY <2>1, <2>2, TameIsAlike DEF OpenNow
  <1> QED
    BY <1>1, <1>2, <1>3, ParkedKept DEF OpenNow

\* What a lookup has read before both keys are written anew is out of date.
LEMMA StaleIsNotParked ==
  ASSUME LookupsStale
  PROVE  \A s \in Finders : ~Parked(s)'
  BY DEF LookupsStale, Parked

\* The form was closed and its answers are gone.
LEMMA OpenClosed ==
  ASSUME TypeOK, NotAhead, TypeOK', OpenNow, Closes, form' = form,
         data' = NoData, state' \in CreateSteps => state' = state,
         \A t \in Tasks : Tame(t), LookupsStale
  PROVE  OpenNow'
  <1>1. DataIsOpen'
    BY NoDataTyped DEF DataIsOpen, InUse
  <1>0. \A s \in Finders : ~Parked(s)'
    BY StaleIsNotParked
  <1>2. \A t \in Tasks : CopyIsOpen(t) /\ ~Current(t)'
    BY ClosingIsNotCurrent DEF OpenNow
  <1>3. BioIsFar'
    BY <1>0, <1>2, NoDataTyped DEF BioIsFar
  <1>4. ASSUME NEW t \in Tasks
        PROVE  CopyIsOpen(t)' /\ StepIsFar(t)' /\ PhotosAlike(t)'
    <2>1. CopyIsOpen(t)'
      BY <1>2, TameIsCreated DEF CopyIsOpen
    <2>2. StepIsFar(t)'
      BY TameIsFar DEF OpenNow
    <2> QED
      BY <2>1, <2>2, TameIsAlike DEF OpenNow
  <1> QED
    BY <1>0, <1>1, <1>3, <1>4 DEF OpenNow, ParkedIsOpen

LEMMA ThrottledTame ==
  ASSUME TypeOK, Throttled \/ UNCHANGED task, buffer'["create"] = buffer["create"]
  PROVE  \A t \in Tasks : Tame(t)
  <1> SUFFICES ASSUME NEW t \in Tasks
               PROVE  Tame(t)
    OBVIOUS
  <1>1. task[t].seen \in Nat /\ task \in [Tasks -> Task]
    BY FieldsOfTask DEF TypeOK
  <1>2. /\ task'[t].pc = task[t].pc /\ task'[t].flow = task[t].flow
        /\ task'[t].photos = task[t].photos /\ task'[t].copy = task[t].copy
        /\ task'[t].dead = task[t].dead
        /\ task'[t].seen \in {task[t].seen, task[t].seen + 1}
    BY <1>1, ThrottledMoves
  <1>3. Spent(t) <= Spent(t)'
    BY <1>1, <1>2 DEF Spent, At
  <1>4. PhotosOf(t)' = PhotosOf(t)
    BY <1>2 DEF PhotosOf, At
  <1> QED
    BY <1>2, <1>3, <1>4 DEF Tame, Leading, At

LEMMA KeptTame ==
  ASSUME TypeOK, NEW t \in Tasks, task'[t] = task[t],
         buffer'["create"] \in {buffer["create"], <<>>}
  PROVE  Tame(t)
  <1>1. task[t].seen \in Nat
    BY FieldsOfTask DEF TypeOK
  <1>2. Spent(t) <= Spent(t)'
    BY <1>1 DEF Spent, At
  <1>3. PhotosOf(t)' \in {PhotosOf(t), <<>>}
    BY DEF PhotosOf, At
  <1> QED
    BY <1>2, <1>3 DEF Tame, Leading, At

\* A leader at work goes on to where it holds no copy that matters.
LEMMA BusyTame ==
  ASSUME TypeOK, NEW t \in Tasks, t \in Busy,
         /\ task'[t].pc \notin {"asleep", "set", "create"}
         /\ task'[t].flow = task[t].flow
         /\ task'[t].photos = task[t].photos
         /\ task'[t].seen = task[t].seen
  PROVE  Tame(t)
  <1>1. task[t].seen \in Nat
    BY FieldsOfTask DEF TypeOK
  <1>2. Spent(t) <= Spent(t)' /\ PhotosOf(t)' = PhotosOf(t)
    BY <1>1 DEF Spent, PhotosOf, At, Busy
  <1> QED
    BY <1>2 DEF Tame, Leading, At, Busy

LEMMA OthersTame ==
  ASSUME TypeOK, NEW t \in Tasks, OthersKeep(t), Tame(t),
         buffer'["create"] \in {buffer["create"], <<>>}
  PROVE  \A u \in Tasks : Tame(u)
  BY KeptTame DEF OthersKeep

LEMMA WakeTame ==
  ASSUME TypeOK, NotAhead, NEW t \in Tasks, Wake(t)
  PROVE  \A u \in Tasks : Tame(u)
  <1>1. /\ At(t, "asleep") /\ task[t].flow \in Flows /\ Within(t) /\ task[t].seen \in Nat
        /\ buffer \in [Flows -> Seq(Forms)]
    BY FieldsOfTask DEF Wake, TypeOK, NotAhead
  <1>2. /\ OthersKeep(t) /\ task'[t].pc = (IF task[t].flow = "create" THEN "get" ELSE "menu")
        /\ task'[t].flow = task[t].flow /\ task'[t].photos = buffer[task[t].flow]
        /\ task'[t].seen = 0
    BY WakeMoves
  <1>3. buffer'["create"] \in {buffer["create"], <<>>}
    BY <1>1 DEF Wake, Flows
  <1>4. Spent(t) <= Spent(t)'
    BY <1>1, <1>2 DEF Within, Spent, At
  <1>5. task'[t].flow = "create" => PhotosOf(t)' = PhotosOf(t)
    BY <1>1, <1>2 DEF PhotosOf, At
  <1>6. Tame(t)
    BY <1>1, <1>2, <1>4, <1>5 DEF Tame, Leading, At
  <1> QED
    BY <1>2, <1>3, <1>6, OthersTame

LEMMA SameIsFound ==
  ASSUME UNCHANGED finder
  PROVE  \A s \in Finders : Found(s)
  BY DEF Found, Lasts, Parking

\* The steps of a leader that leave the form alone.
LEMMA OpenWorked ==
  ASSUME TypeOK, NotAhead, TypeOK', FlowsOK, OpenNow, NEW t \in Tasks,
         \/ ReadForm(t) /\ ~(data.user /\ Complete(data))
         \/ CreateProfile(t) \/ SavePreferences(t) \/ ClearState(t) \/ ReadMenu(t) \/ ApplyPhotos(t)
         \/ ShowMenu(t) \/ Fail(t)
  PROVE  OpenNow'
  <1>1. task \in [Tasks -> Task] /\ t \in Busy /\ Leading(t)
    BY DEF TypeOK, ReadForm, CreateProfile, SavePreferences, ClearState, ReadMenu, ApplyPhotos,
      ShowMenu, Fail, At, Busy, Leading
  <1>2. /\ UNCHANGED <<form, closed, data, buffer, finder>>
        /\ state' \in {state, "none", "choosing"}
    BY DEF ReadForm, CreateProfile, SavePreferences, ClearState, ReadMenu, ApplyPhotos, ShowMenu,
      Fail, work, still
  <1>3. OthersKeep(t) /\ Tame(t)
    <2>1. ASSUME NEW pc \in Pcs \ {"asleep", "set", "create"}, Goto(t, pc)
          PROVE  OthersKeep(t) /\ Tame(t)
      BY <1>1, <2>1, GotoMoves, BusyTame
    <2>2. ASSUME End(t)
          PROVE  OthersKeep(t) /\ Tame(t)
      BY <1>1, <2>2, EndMoves, NoTaskTyped DEF Tame
    <2>3. CASE CreateProfile(t) \/ SavePreferences(t) \/ ClearState(t) \/ ApplyPhotos(t)
      BY <2>1, <2>2, <2>3 DEF CreateProfile, SavePreferences, ClearState, ApplyPhotos, Pcs
    <2>4. CASE ReadForm(t) /\ ~(data.user /\ Complete(data))
      BY <2>2, <2>4 DEF ReadForm
    <2>5. CASE ShowMenu(t) \/ Fail(t)
      BY <2>2, <2>5 DEF ShowMenu, Fail
    <2>6. CASE ReadMenu(t)
      <3>1. CASE Goto(t, "clear")
        BY <2>1, <3>1 DEF Pcs
      <3>2. CASE task' = [task EXCEPT ![t].pc = "apply", ![t].copy = data]
        BY <1>1, <3>2, CopyMoves, BusyTame DEF Pcs
      <3> QED
        BY <2>6, <3>1, <3>2 DEF ReadMenu
    <2> QED
      BY <2>3, <2>4, <2>5, <2>6
  <1>4. \A u \in Tasks : Tame(u)
    BY <1>2, <1>3, OthersTame
  <1>5. Live' => Live
    BY <1>1 DEF Live
  <1>6. state' \in CreateSteps => state' = state
    BY <1>2 DEF CreateSteps, Fields, ProfileFields
  <1> QED
    BY <1>2, <1>4, <1>5, <1>6, SameIsFound, OpenKept

LEMMA OpenBegun ==
  ASSUME TypeOK, NotAhead, TypeOK', OpenNow, Begun
  PROVE  OpenNow'
  <1>1. /\ task \in [Tasks -> Task] /\ form \in Nat /\ form' = form + 1 /\ Closes /\ Throttled
        /\ buffer' = buffer
        /\ state' \in CreateSteps => state' = "name"
        /\ \A f \in Fields : data'.answers[f] = 0
    BY DEF TypeOK, NotAhead, Begun, Anew, chat, CreateSteps, Fields, ProfileFields, Forms
  <1>0. \A s \in Finders : ~Parked(s)'
    BY LookupsPass, StaleIsNotParked DEF TypeOK, Begun, Anew
  <1>2. form' \notin closed'
    BY <1>1, ClosesWhatIs
  <1>3. "bio" \in Fields
    BY DEF Fields, ProfileFields
  <1>4. DataIsOpen'
    BY <1>1, <1>2, <1>3 DEF DataIsOpen, IsOpen, OfOpenForm
  <1>5. \A t \in Tasks : Tame(t)
    BY <1>1, ThrottledTame
  <1>6. \A t \in Tasks : CopyIsOpen(t) /\ ~Current(t)'
    BY <1>1, <1>5, ClosingIsNotCurrent DEF OpenNow
  <1>7. BioIsFar'
    BY <1>0, <1>1, <1>3, <1>6 DEF BioIsFar
  <1>8. ASSUME NEW t \in Tasks
        PROVE  CopyIsOpen(t)' /\ StepIsFar(t)' /\ PhotosAlike(t)'
    <2>1. CopyIsOpen(t)'
      BY <1>5, <1>6, TameIsCreated DEF CopyIsOpen
    <2>2. StepIsFar(t)'
      <3> SUFFICES ASSUME Leading(t)', state' = "name"
                   PROVE  Rank["name"] <= Spent(t)'
        BY <1>1 DEF StepIsFar, Foreign
      <3>1. task[t].seen \in Nat /\ WhileAsleep \in Nat
        BY FieldsOfTask DEF TypeOK
      <3>2. task'[t].seen = task[t].seen + 1
        BY <1>1, ThrottledMoves DEF Leading, At
      <3>3. 1 <= Spent(t)'
        BY <3>1, <3>2 DEF Spent
      <3> QED
        BY <3>3 DEF Rank
    <2> QED
      BY <1>5, <2>1, <2>2, TameIsAlike DEF OpenNow
  <1> QED
    BY <1>0, <1>4, <1>7, <1>8 DEF OpenNow, ParkedIsOpen

\* Both keys are written anew with no leader alive: whatever was put back before
\* is gone.
LEMMA OpenAnew ==
  ASSUME TypeOK, NotAhead, Ended \/ Begun, Leaders = {}
  PROVE  OpenNow'
  <1>1. \A t \in Tasks : task'[t].pc = "idle"
    BY MeetsNobody, ThrottledMoves DEF TypeOK, Ended, Begun
  <1>2. \A s \in Finders : ~Parked(s)'
    BY LookupsPass, StaleIsNotParked DEF TypeOK, Ended, Begun, Anew
  <1>3. DataIsOpen'
    <2>1. CASE Ended
      BY <2>1, NoDataTyped DEF Ended, DataIsOpen, InUse
    <2>2. CASE Begun
      <3>1. form \in Nat /\ form' = form + 1 /\ closed' \subseteq 0 .. form /\ "bio" \in Fields
        BY <2>2, ClosesWhatIs DEF NotAhead, Begun, Anew, Forms, Fields, ProfileFields
      <3>2. form' \notin closed'
        BY <3>1
      <3> QED
        BY <2>2, <3>1, <3>2 DEF Begun, DataIsOpen, IsOpen, OfOpenForm
    <2> QED
      BY <2>1, <2>2
  <1> QED
    BY <1>1, <1>2, <1>3
    DEF OpenNow, BioIsFar, CopyIsOpen, StepIsFar, PhotosAlike, ParkedIsOpen, Foreign, Current,
      Leading, At

LEMMA OpenGiven ==
  ASSUME TypeOK, NotAhead, TypeOK', OpenNow, NEW step \in Steps, Given(step[1], step[2])
  PROVE  OpenNow'
  <1>1. /\ task \in [Tasks -> Task] /\ Throttled /\ state = step[1] /\ state' = step[2]
        /\ form' = form /\ closed' = closed /\ buffer' = buffer /\ data'.user = data.user
        /\ data'.answers = [data.answers EXCEPT ![state] = form]
        /\ data'.photos = IF state = "bio" THEN <<>> ELSE data.photos
        /\ \A s \in Finders : Lasts(s) /\ Found(s)
    BY LookupsPass DEF TypeOK, Given, Same, chat, LookupsLast, Found
  <1>2. /\ state \in Fields /\ state \in CreateSteps /\ state' \in CreateSteps
        /\ Rank[state] \in Nat /\ Rank[state'] = Rank[state] + 1
        /\ Rank["bio"] = 6 /\ "bio" \in Fields
    <2>1. state \in Fields /\ state' \in CreateSteps /\ "bio" \in Fields
      BY <1>1 DEF Steps, Fields, ProfileFields, CreateSteps
    <2>2. Rank[state] \in Nat /\ Rank[state'] = Rank[state] + 1 /\ Rank["bio"] = 6
      BY <1>1 DEF Steps, Rank
    <2> QED
      BY <2>1, <2>2 DEF CreateSteps
  <1>3. data.answers \in [Fields -> Forms] /\ DOMAIN <<>> = {}
    BY FieldsOf DEF TypeOK
  <1>4. Live
    BY <1>2 DEF Live
  <1>5. DataIsOpen'
    <2> SUFFICES ASSUME data'.user
                 PROVE  /\ OfOpenForm(data)'
                        /\ data'.answers["bio"] # 0 =>
                             \A i \in DOMAIN data'.photos : data'.photos[i] = form'
      BY DEF DataIsOpen, InUse, IsOpen
    <2>1. /\ OfOpenForm(data)
          /\ data.answers["bio"] # 0 => \A i \in DOMAIN data.photos : data.photos[i] = form
      BY <1>1, <1>4 DEF OpenNow, DataIsOpen, InUse, IsOpen
    <2>2. OfOpenForm(data)'
      BY <1>1, <1>2, <1>3, <2>1 DEF OfOpenForm
    <2>3. CASE state = "bio"
      BY <1>1, <1>3, <2>2, <2>3
    <2>4. CASE state # "bio"
      BY <1>1, <1>2, <1>3, <2>1, <2>2, <2>4
    <2> QED
      BY <2>3, <2>4
  <1>6. \A t \in Tasks : Tame(t)
    BY <1>1, ThrottledTame
  <1>7. ASSUME NEW t \in Tasks, Foreign(t)'
        PROVE  /\ Foreign(t) /\ Rank[state'] <= Spent(t)'
               /\ state # "bio"
    <2>1. Foreign(t) /\ Leading(t)
      BY <1>1, <1>6, <1>7, TameIsForeign DEF Foreign
    <2>2. Rank[state] <= Spent(t)
      BY <1>2, <2>1 DEF OpenNow, StepIsFar
    <2>3. /\ task[t].seen \in Nat /\ WhileAsleep \in Nat /\ WhileBusy \in Nat
          /\ WhileAsleep + WhileBusy < 7
      BY FieldsOfTask, FormsTakeLonger DEF TypeOK
    <2>4. /\ task'[t].seen = task[t].seen + 1 /\ task'[t].pc = task[t].pc
          /\ At(t, "asleep") => task[t].seen < WhileAsleep
          /\ ~At(t, "asleep") => task[t].seen < WhileBusy
      BY <1>1, <2>1, ThrottledMoves DEF Leading, At, Busy
    <2>5. Spent(t)' = Spent(t) + 1 /\ Spent(t) < 6
      BY <2>3, <2>4 DEF Spent, At
    <2>6. Spent(t) \in Nat
      BY <2>3 DEF Spent
    <2> QED
      BY <1>2, <2>1, <2>2, <2>5, <2>6
  <1>8. BioIsFar'
    <2> SUFFICES ASSUME NEW t \in Tasks, Foreign(t)'
                 PROVE  /\ data'.user => data'.answers["bio"] = 0
                        /\ \A u \in Tasks : Current(u)' => task'[u].copy.answers["bio"] = 0
                        /\ \A s \in Finders : Parked(s)' => finder'[s].copy.answers["bio"] = 0
      BY DEF BioIsFar
    <2>1. Foreign(t) /\ state # "bio"
      BY <1>7
    <2>2. data'.answers["bio"] = data.answers["bio"]
      BY <1>1, <1>2, <1>3, <2>1
    <2> QED
      BY <1>1, <1>6, <2>1, <2>2, TameIsCurrent, ParkedIsFar DEF OpenNow, BioIsFar
  <1>9. ASSUME NEW t \in Tasks
        PROVE  CopyIsOpen(t)' /\ StepIsFar(t)' /\ PhotosAlike(t)'
    <2>1. CopyIsOpen(t) /\ Tame(t)
      BY <1>6 DEF OpenNow
    <2>2. Current(t)' => OfOpenForm(task[t].copy)'
      <3> SUFFICES ASSUME Current(t)'
                   PROVE  OfOpenForm(task[t].copy)'
        OBVIOUS
      <3>1. Current(t) /\ task'[t].copy = task[t].copy
        BY <1>1, <2>1, TameIsCurrent
      <3> QED
        BY <1>1, <2>1, <3>1 DEF CopyIsOpen, OfOpenForm
    <2>3. CopyIsOpen(t)'
      BY <2>1, <2>2, TameIsCreated DEF CopyIsOpen
    <2>4. StepIsFar(t)'
      BY <1>7 DEF StepIsFar
    <2> QED
      BY <2>1, <2>3, <2>4, TameIsAlike DEF OpenNow
  <1>10. \A s \in Finders : ParkedIsOpen(s)'
    BY <1>1, <1>4, ParkedKept
  <1> QED
    BY <1>5, <1>8, <1>9, <1>10 DEF OpenNow

\* No leader has photos of an earlier form when the form gets to its own.
LEMMA OpenCollected ==
  ASSUME TypeOK, NotAhead, TypeOK', OpenNow, state = "photo", Collect("create")
  PROVE  OpenNow'
  <1>1. /\ task \in [Tasks -> Task] /\ form \in Forms /\ "create" \in Flows
        /\ UNCHANGED <<state, data, form, closed, finder>>
        /\ buffer \in [Flows -> Seq(Forms)] /\ DOMAIN <<>> = {}
    BY DEF TypeOK, NotAhead, Flows, Collect
  <1>2. \A t \in Tasks : ~Foreign(t)
    <2> SUFFICES ASSUME NEW t \in Tasks, Foreign(t)
                 PROVE  FALSE
      OBVIOUS
    <2>1. Rank["photo"] <= Spent(t)
      BY DEF OpenNow, StepIsFar, CreateSteps
    <2>2. Spent(t) \in Nat /\ Spent(t) <= WhileAsleep + WhileBusy
      BY SpentTyped DEF Foreign
    <2> QED
      BY <2>1, <2>2, FormsTakeLonger DEF Rank
  <1>3. PICK led \in SUBSET Tasks :
          \A t \in Tasks :
            /\ t \in led => /\ buffer["create"] = <<>>
                            /\ task'[t].pc = "asleep" /\ task'[t].flow = "create"
            /\ t \notin led => task'[t] = task[t]
    <2>1. CASE UNCHANGED task
      <3>1. {} \in SUBSET Tasks /\ \A t \in Tasks : task'[t] = task[t]
        BY <2>1
      <3> QED
        BY <3>1
    <2>2. ASSUME NEW t \in Tasks, Lead("create", t), buffer["create"] = <<>>
          PROVE  \A u \in Tasks :
                   /\ u \in {t} => /\ buffer["create"] = <<>>
                                   /\ task'[u].pc = "asleep" /\ task'[u].flow = "create"
                   /\ u \notin {t} => task'[u] = task[u]
      BY <1>1, <2>2, LeadMoves DEF OthersKeep
    <2> QED
      BY <2>1, <2>2 DEF Collect, LeadOrFollow
  <1>4. \A i \in DOMAIN buffer'["create"] :
          \/ buffer'["create"][i] = form
          \/ i \in DOMAIN buffer["create"] /\ buffer'["create"][i] = buffer["create"][i]
    BY <1>1, Added
  <1>5. ASSUME NEW t \in Tasks, Leading(t)', task'[t].flow = "create",
               NEW i \in DOMAIN PhotosOf(t)'
        PROVE  PhotosOf(t)'[i] = form
    <2>1. CASE t \in led
      BY <1>1, <1>3, <1>4, <1>5, <2>1 DEF PhotosOf, At
    <2>2. CASE t \notin led
      <3>1. task'[t] = task[t]
        BY <1>3, <2>2
      <3>2. \A j \in DOMAIN PhotosOf(t) : PhotosOf(t)[j] = form
        BY <1>2, <1>5, <3>1 DEF Foreign, Leading, At
      <3>3. CASE At(t, "asleep")
        BY <1>4, <1>5, <3>1, <3>2, <3>3 DEF PhotosOf, At
      <3>4. CASE ~At(t, "asleep")
        BY <1>5, <3>1, <3>2, <3>4 DEF PhotosOf, At
      <3> QED
        BY <3>3, <3>4
    <2> QED
      BY <2>1, <2>2
  <1>6. \A t \in Tasks : ~Foreign(t)' /\ PhotosAlike(t)'
    BY <1>1, <1>5 DEF Foreign, PhotosAlike
  <1>7. Live
    BY DEF Live, CreateSteps
  <1>8. DataIsOpen'
    BY <1>1, <1>7 DEF OpenNow, DataIsOpen, InUse, IsOpen, OfOpenForm
  <1>9. ASSUME NEW t \in Tasks
        PROVE  CopyIsOpen(t)'
    <2>1. CASE t \in led
      BY <1>3, <2>1 DEF CopyIsOpen, Current, At
    <2>2. CASE t \notin led
      <3>1. task'[t] = task[t] /\ CopyIsOpen(t)
        BY <1>3, <2>2 DEF OpenNow
      <3> QED
        BY <1>1, <3>1 DEF CopyIsOpen, Current, At, OfOpenForm
    <2> QED
      BY <2>1, <2>2
  <1>10. \A s \in Finders : ParkedIsOpen(s)'
    BY <1>1, <1>7, SameIsFound, ParkedKept
  <1> QED
    BY <1>6, <1>8, <1>9, <1>10 DEF OpenNow, BioIsFar, StepIsFar

LEMMA OpenCopied ==
  ASSUME TypeOK, NotAhead, TypeOK', FlowsOK, OpenNow, NEW t \in Tasks,
         GetData(t) \/ (ReadForm(t) /\ data.user /\ Complete(data))
  PROVE  OpenNow'
  <1>1. /\ UNCHANGED <<state, data, form, closed, buffer, finder>> /\ Leading(t) /\ t \in Busy
        /\ task[t].flow = "create" /\ form \in Forms /\ task[t].dead \subseteq closed
    BY DEF NotAhead, Within, GetData, ReadForm, work, still, Leading, Busy, At, FlowsOK
  <1>2. /\ OthersKeep(t) /\ task'[t].flow = task[t].flow /\ task'[t].photos = task[t].photos
        /\ task'[t].copy = data /\ task'[t].seen = task[t].seen
        /\ \/ task'[t].pc = "set" /\ task'[t].dead = closed
           \/ /\ task'[t].pc = "create" /\ task'[t].dead = task[t].dead
              /\ data.user /\ Complete(data)
    BY GetDataMoves, CopyMoves DEF ReadForm, Pcs
  <1>3. task[t].seen \in Nat
    BY FieldsOfTask DEF TypeOK
  <1>4. Spent(t)' = Spent(t) /\ PhotosOf(t)' = PhotosOf(t) /\ (Leading(t)' <=> Leading(t))
    BY <1>1, <1>2 DEF Spent, PhotosOf, Leading, At, Busy
  <1>5. (Foreign(t)' <=> Foreign(t)) /\ (PhotosAlike(t) => PhotosAlike(t)')
    BY <1>1, <1>2, <1>4 DEF Foreign, PhotosAlike
  <1>6. \A u \in Tasks : u # t => Tame(u) /\ task'[u] = task[u]
    BY <1>1, <1>2, KeptTame DEF OthersKeep
  <1>7. \A u \in Tasks : Foreign(u)' => Foreign(u) /\ Spent(u)' = Spent(u)
    <2> SUFFICES ASSUME NEW u \in Tasks, u # t
                 PROVE  Foreign(u)' => Foreign(u) /\ Spent(u)' = Spent(u)
      BY <1>4, <1>5
    <2>1. Spent(u)' = Spent(u)
      BY <1>6 DEF Spent, At
    <2> QED
      BY <1>1, <1>6, <2>1, TameIsForeign
  <1>8. Live
    BY <1>1 DEF Live
  <1>9. DataIsOpen'
    BY <1>1, <1>8 DEF OpenNow, DataIsOpen, InUse, IsOpen, OfOpenForm
  <1>10. BioIsFar'
    <2> SUFFICES ASSUME NEW u \in Tasks, Foreign(u)'
                 PROVE  /\ data'.user => data'.answers["bio"] = 0
                        /\ \A v \in Tasks : Current(v)' => task'[v].copy.answers["bio"] = 0
                        /\ \A s \in Finders : Parked(s)' => finder'[s].copy.answers["bio"] = 0
      BY DEF BioIsFar
    <2>1. /\ data.user => data.answers["bio"] = 0
          /\ \A v \in Tasks : Current(v) => task[v].copy.answers["bio"] = 0
      BY <1>7 DEF OpenNow, BioIsFar
    <2>2. Current(t)' => data.user
      BY <1>2 DEF Current
    <2>3. \A v \in Tasks : v # t /\ Current(v)' => Current(v) /\ task'[v].copy = task[v].copy
      BY <1>1, <1>6, TameIsCurrent
    <2> QED
      BY <1>1, <1>2, <1>7, <2>1, <2>2, <2>3, SameIsFound, ParkedIsFar
  <1>11. ASSUME data.user
         PROVE  /\ OfOpenForm(data)
                /\ data.answers["bio"] # 0 => \A i \in DOMAIN data.photos : data.photos[i] = form
    BY <1>8, <1>11 DEF OpenNow, DataIsOpen, InUse, IsOpen
  <1>12. CopyIsOpen(t)'
    <2>1. CASE task'[t].pc = "set" /\ task'[t].dead = closed
      BY <1>1, <1>2, <1>11, <2>1 DEF CopyIsOpen, Current, At, OfOpenForm
    <2>2. CASE /\ task'[t].pc = "create" /\ task'[t].dead = task[t].dead
               /\ data.user /\ Complete(data)
      <3>1. form \in Forms \ task'[t].dead
        BY <1>1, <1>11, <2>2 DEF OfOpenForm
      <3>2. \A f \in ProfileFields : data.answers[f] = form
        BY <1>11, <2>2 DEF OfOpenForm, Complete, Fields
      <3>3. \A i \in DOMAIN data.photos : data.photos[i] = form
        BY <1>11, <2>2 DEF Complete, ProfileFields
      <3>4. ~Current(t)'
        BY <2>2 DEF Current, At
      <3> QED
        BY <1>2, <3>1, <3>2, <3>3, <3>4 DEF CopyIsOpen
    <2> QED
      BY <1>2, <2>1, <2>2
  <1>13. ASSUME NEW u \in Tasks
         PROVE  CopyIsOpen(u)' /\ StepIsFar(u)' /\ PhotosAlike(u)'
    <2>1. CopyIsOpen(u)'
      <3>1. CASE u = t
        BY <1>12, <3>1
      <3>2. CASE u # t
        BY <1>1, <1>6, <3>2 DEF OpenNow, CopyIsOpen, Current, At, OfOpenForm
      <3> QED
        BY <3>1, <3>2
    <2>2. StepIsFar(u)'
      BY <1>1, <1>7 DEF OpenNow, StepIsFar
    <2>3. PhotosAlike(u)'
      BY <1>5, <1>6, TameIsAlike DEF OpenNow
    <2> QED
      BY <2>1, <2>2, <2>3
  <1>14. \A s \in Finders : ParkedIsOpen(s)'
    BY <1>1, <1>8, SameIsFound, ParkedKept
  <1> QED
    BY <1>9, <1>10, <1>13, <1>14 DEF OpenNow

\* A leader writes its copy back, and no form was closed since it was made.
LEMMA OpenWritten ==
  ASSUME TypeOK, NotAhead, TypeOK', FlowsOK, OpenNow, NEW t \in Tasks, SetData(t), ~revived'
  PROVE  OpenNow'
  <1>1. /\ UNCHANGED <<state, form, closed, buffer, finder>> /\ Leading(t) /\ t \in Busy
        /\ task[t].flow = "create" /\ At(t, "set") /\ Goto(t, "finalize") /\ "finalize" \in Pcs
        /\ task[t].copy = NoData \/ closed = task[t].dead
        /\ task \in [Tasks -> Task]
    BY DEF TypeOK, SetData, Leading, Busy, At, FlowsOK, Pcs
  <1>2. /\ OthersKeep(t) /\ task'[t].pc = "finalize" /\ task'[t].flow = task[t].flow
        /\ task'[t].photos = task[t].photos /\ task'[t].seen = task[t].seen
    BY <1>1, GotoMoves
  <1>3. Tame(t)
    BY <1>1, <1>2, BusyTame
  <1>4. \A u \in Tasks : Tame(u)
    BY <1>1, <1>2, <1>3, OthersTame
  <1>5. task[t].copy \in Data /\ task[t].photos \in Seq(Forms)
    BY <1>1, FieldsOfTask
  <1> PICK d \in Data : d = task[t].copy
    BY <1>5
  <1> PICK e \in Data : e = [d EXCEPT !.photos = task[t].photos]
    BY <1>5 DEF Data
  <1>6. /\ e.user = d.user /\ e.answers = d.answers /\ e.photos = task[t].photos
        /\ data' = e
    BY <1>5 DEF SetData, Data
  <1>7. data'.user => Current(t)
    BY <1>1, <1>6, NoDataTyped DEF Current
  <1>8. DataIsOpen'
    <2> SUFFICES ASSUME data'.user
                 PROVE  /\ OfOpenForm(data)'
                        /\ data'.answers["bio"] # 0 =>
                             \A i \in DOMAIN data'.photos : data'.photos[i] = form
      BY <1>1 DEF DataIsOpen, InUse, IsOpen
    <2>1. Current(t) /\ OfOpenForm(task[t].copy)
      BY <1>7 DEF OpenNow, CopyIsOpen
    <2>2. OfOpenForm(data)'
      BY <1>1, <1>6, <2>1 DEF OfOpenForm
    <2>3. ASSUME data'.answers["bio"] # 0
          PROVE  \A i \in DOMAIN data'.photos : data'.photos[i] = form
      <3>1. ~Foreign(t)
        BY <1>6, <2>1, <2>3 DEF OpenNow, BioIsFar
      <3>2. PhotosOf(t) = task[t].photos
        BY <1>1 DEF PhotosOf, At
      <3> QED
        BY <1>1, <1>6, <3>1, <3>2 DEF Foreign
    <2> QED
      BY <2>2, <2>3
  <1>9. BioIsFar'
    <2> SUFFICES ASSUME NEW u \in Tasks, Foreign(u)'
                 PROVE  /\ data'.user => data'.answers["bio"] = 0
                        /\ \A v \in Tasks : Current(v)' => task'[v].copy.answers["bio"] = 0
                        /\ \A s \in Finders : Parked(s)' => finder'[s].copy.answers["bio"] = 0
      BY DEF BioIsFar
    <2>1. Foreign(u)
      BY <1>1, <1>4, TameIsForeign
    <2>2. \A v \in Tasks : Current(v) => task[v].copy.answers["bio"] = 0
      BY <2>1 DEF OpenNow, BioIsFar
    <2> QED
      BY <1>1, <1>4, <1>6, <1>7, <2>1, <2>2, TameIsCurrent, SameIsFound, ParkedIsFar
  <1>10. ASSUME NEW u \in Tasks
         PROVE  CopyIsOpen(u)' /\ StepIsFar(u)' /\ PhotosAlike(u)'
    <2>1. CopyIsOpen(u)'
      <3>1. CASE u = t
        BY <1>2, <3>1 DEF CopyIsOpen, Current, At
      <3>2. CASE u # t
        <4>1. task'[u] = task[u]
          BY <1>2, <3>2 DEF OthersKeep
        <4> QED
          BY <1>1, <4>1 DEF OpenNow, CopyIsOpen, Current, At, OfOpenForm
      <3> QED
        BY <3>1, <3>2
    <2>2. StepIsFar(u)'
      BY <1>1, <1>4, TameIsFar DEF OpenNow
    <2> QED
      BY <1>4, <2>1, <2>2, TameIsAlike DEF OpenNow
  <1>11. \A s \in Finders : ParkedIsOpen(s)'
    BY <1>1, SameIsFound, ParkedKept DEF Live
  <1> QED
    BY <1>8, <1>9, <1>10, <1>11 DEF OpenNow

\* A lookup writes its copy back, and no form was closed since it was made.
LEMMA OpenParked ==
  ASSUME TypeOK, NotAhead, TypeOK', OpenNow, NEW s \in Finders, ParkCandidates(s), ~revived'
  PROVE  OpenNow'
  <1>1. /\ UNCHANGED <<state, form, closed, task, buffer>> /\ data' = finder[s].copy
        /\ s \in Parking
        /\ finder[s].copy = NoData \/ ~finder[s].stale
    BY DEF ParkCandidates
  <1>2. data'.user => Parked(s)
    BY <1>1, NoDataTyped DEF Parked
  <1>3. \A r \in Finders : Found(r)
    <2>1. finder \in [Finders -> Finder] /\ finder' = [finder EXCEPT ![s] = NoFinder]
      BY DEF TypeOK, ParkCandidates
    <2> QED
      BY <2>1, NoFinderTyped DEF Found, Lasts, Parking
  <1>4. \A t \in Tasks : Tame(t)
    BY <1>1, ThrottledTame
  <1>5. Live' => Live
    BY <1>1 DEF Live, Leading, At
  <1>6. DataIsOpen'
    BY <1>1, <1>2, <1>5 DEF OpenNow, ParkedIsOpen, DataIsOpen, InUse, IsOpen, OfOpenForm
  <1>7. BioIsFar'
    <2> SUFFICES ASSUME NEW u \in Tasks, Foreign(u)'
                 PROVE  /\ data'.user => data'.answers["bio"] = 0
                        /\ \A v \in Tasks : Current(v)' => task'[v].copy.answers["bio"] = 0
                        /\ \A r \in Finders : Parked(r)' => finder'[r].copy.answers["bio"] = 0
      BY DEF BioIsFar
    <2>1. Foreign(u)
      BY <1>1, <1>4, TameIsForeign
    <2>2. data'.user => data'.answers["bio"] = 0
      BY <1>1, <1>2, <2>1 DEF OpenNow, BioIsFar
    <2>3. \A v \in Tasks : Current(v)' => task'[v].copy.answers["bio"] = 0
      BY <1>1, <1>4, <2>1, TameIsCurrent DEF OpenNow, BioIsFar
    <2> QED
      BY <1>3, <2>1, <2>2, <2>3, ParkedIsFar
  <1>8. ASSUME NEW t \in Tasks
        PROVE  CopyIsOpen(t)' /\ StepIsFar(t)' /\ PhotosAlike(t)'
    <2>1. CopyIsOpen(t)'
      BY <1>1 DEF OpenNow, CopyIsOpen, Current, At, OfOpenForm
    <2>2. StepIsFar(t)'
      BY <1>1, <1>4, TameIsFar DEF OpenNow
    <2> QED
      BY <1>4, <2>1, <2>2, TameIsAlike DEF OpenNow
  <1>9. \A r \in Finders : ParkedIsOpen(r)'
    BY <1>1, <1>3, <1>5, ParkedKept
  <1> QED
    BY <1>6, <1>7, <1>8, <1>9 DEF OpenNow

LEMMA OpenStep ==
  ASSUME TypeOK, NotAhead, FlowsOK, Open, Next
  PROVE  Open'
  <1> SUFFICES ASSUME ~revived'
               PROVE  OpenNow'
    BY DEF Open
  <1>1. Event /\ TypeOK' /\ task \in [Tasks -> Task]
    BY Classified, TypeOKStep DEF TypeOK
  <1>2. CASE (Ended \/ Begun) /\ Leaders = {}
    BY <1>2, OpenAnew
  <1>3. ASSUME ~((Ended \/ Begun) /\ Leaders = {})
        PROVE  OpenNow
    <2>1. revived => revived'
      <3>1. CASE Ended \/ Begun \/ Moved \/ (\E step \in Steps : Given(step[1], step[2]))
        BY <1>3, <3>1 DEF Ended, Begun, Anew, Moved, Given, Same
      <3>2. ASSUME NEW t \in Tasks, Wake(t) \/ Work(t) \/ Fail(t)
            PROVE  revived => revived'
        BY <3>2 DEF Wake, Work, Fail, GetData, SetData, ReadForm, CreateProfile, SavePreferences,
          ClearState, ClearData, ReadMenu, ApplyPhotos, ShowMenu, work, still
      <3>3. ASSUME NEW s \in Finders, FindPlaces(s) \/ ParkCandidates(s)
            PROVE  revived => revived'
        BY <3>3 DEF FindPlaces, ParkCandidates
      <3>4. CASE Collect("create") \/ Collect("edit") \/ Restart \/ RunOut \/ DeleteProfile
        BY <3>4 DEF Collect, Restart, RunOut, DeleteProfile
      <3> QED
        BY <1>1, <3>1, <3>2, <3>3, <3>4 DEF Event
    <2> QED
      BY <2>1 DEF Open
  <1>4. CASE Ended /\ Leaders # {}
    <2>1. \A t \in Tasks : Tame(t)
      BY <1>4, ThrottledTame DEF Ended, chat
    <2>2. LookupsStale
      BY <1>4, LookupsPass DEF TypeOK, Ended, Anew
    <2> QED
      BY <1>1, <1>3, <1>4, <2>1, <2>2, OpenClosed
      DEF Ended, Anew, CreateSteps, Fields, ProfileFields
  <1>14. CASE Moved
    <2>0. OpenNow
      BY <1>3, <1>14 DEF Open, Moved
    <2>1. \A t \in Tasks : Tame(t)
      BY <1>14, ThrottledTame DEF Moved
    <2>2. \A t \in Tasks : Leading(t)' <=> Leading(t)
      BY <1>1, <1>14, ThrottledMoves DEF Moved, Leading, At
    <2>3. state' \in CreateSteps \cup EditSteps => state' = state \/ state \in EditSteps
      BY <1>14 DEF Moved, BrowseSteps, CreateSteps, EditSteps, Fields, ProfileFields
    <2>4. state' \in CreateSteps => state' = state
      BY <1>14 DEF Moved, BrowseSteps, CreateSteps, EditSteps, Fields, ProfileFields
    <2>5. Live' => Live
      BY <2>2, <2>3 DEF Live
    <2> QED
      BY <1>1, <1>14, <2>0, <2>1, <2>4, <2>5, OpenKept DEF Moved, LookupsLast, Found
  <1>5. CASE state = "edit photo" /\ Collect("edit")
    <2>0. OpenNow /\ UNCHANGED finder
      BY <1>5 DEF Open, Collect
    <2>1. buffer'["create"] = buffer["create"]
      BY <1>5, Added DEF Flows, NotAhead
    <2>2. \A t \in Tasks : Tame(t)
      <3>1. CASE UNCHANGED task
        BY <2>1, <3>1, ThrottledTame
      <3>2. ASSUME NEW t \in Tasks, Lead("edit", t)
            PROVE  \A u \in Tasks : Tame(u)
        <4>1. OthersKeep(t) /\ task'[t].pc = "asleep" /\ task'[t].flow = "edit"
          BY <1>1, <3>2, LeadMoves DEF Flows
        <4>2. Tame(t)
          BY <4>1 DEF Tame
        <4> QED
          BY <2>1, <4>1, <4>2, OthersTame
      <3> QED
        BY <1>5, <3>1, <3>2 DEF Collect, LeadOrFollow
    <2>3. Live
      BY <1>5 DEF Live, EditSteps
    <2> QED
      BY <1>1, <1>5, <2>0, <2>2, <2>3, SameIsFound, OpenKept DEF Collect
  <1>6. ASSUME NEW t \in Tasks, Wake(t)
        PROVE  OpenNow'
    <2>0. OpenNow /\ UNCHANGED finder
      BY <1>6 DEF Open, Wake, still
    <2>1. Live
      BY <1>6 DEF Wake, Live, Leading, At
    <2> QED
      BY <1>1, <1>6, <2>0, <2>1, WakeTame, SameIsFound, OpenKept DEF Wake, still
  <1>7. ASSUME NEW t \in Tasks, Work(t) \/ Fail(t)
        PROVE  OpenNow'
    <2>0. OpenNow
      BY <1>7 DEF Open, Work, Fail, GetData, SetData, ReadForm, CreateProfile, SavePreferences,
        ClearState, ClearData, ReadMenu, ApplyPhotos, ShowMenu, work, still
    <2>1. CASE ClearData(t)
      <3>1. End(t) /\ buffer' = buffer /\ data' = NoData /\ Closes /\ form' = form
            /\ At(t, "cleared") /\ state' = state
        BY <2>1 DEF ClearData
      <3>2. OthersKeep(t) /\ Tame(t)
        BY <1>1, <3>1, EndMoves, NoTaskTyped DEF Tame
      <3>3. \A u \in Tasks : Tame(u)
        BY <3>1, <3>2, OthersTame
      <3>4. LookupsStale
        BY <2>1, LookupsPass DEF TypeOK, ClearData
      <3> QED
        BY <1>1, <2>0, <3>1, <3>3, <3>4, OpenClosed
    <2>2. CASE SetData(t)
      BY <1>1, <2>0, <2>2, OpenWritten
    <2>3. CASE GetData(t) \/ (ReadForm(t) /\ data.user /\ Complete(data))
      BY <1>1, <2>0, <2>3, OpenCopied
    <2>4. CASE \/ ReadForm(t) /\ ~(data.user /\ Complete(data))
               \/ CreateProfile(t) \/ SavePreferences(t) \/ ClearState(t) \/ ReadMenu(t)
               \/ ApplyPhotos(t) \/ ShowMenu(t) \/ Fail(t)
      BY <1>1, <2>0, <2>4, OpenWorked
    <2> QED
      BY <1>7, <2>1, <2>2, <2>3, <2>4 DEF Work
  <1>8. CASE Restart
    <2>1. /\ OpenNow /\ UNCHANGED <<state, data, form, closed>>
          /\ \A t \in Tasks : task'[t].pc = "idle"
      BY <1>8, NoTaskTyped DEF Open, Restart
    <2>0. \A s \in Finders : Found(s)
      BY <1>8, NoFinderTyped DEF Restart, Found, Lasts, Parking
    <2>2. \A t \in Tasks : Tame(t)
      BY <2>1 DEF Tame
    <2>3. Live' => Live
      BY <2>1 DEF Live, Leading, At
    <2> QED
      BY <1>1, <2>0, <2>1, <2>2, <2>3, OpenKept
  <1>9. CASE RunOut
    <2>1. \A t \in Tasks : task'[t].pc = "idle"
      BY <1>9 DEF RunOut, Leaders, Asleep, Busy, At
    <2>3. \A s \in Finders : ~Parked(s)'
      BY <1>9 DEF RunOut, Parked, Parking
    <2>2. ~InUse'
      BY <1>9, <2>1, NoDataTyped DEF RunOut, InUse, Live, Leading, At, CreateSteps, EditSteps, Fields, ProfileFields
    <2> QED
      BY <2>1, <2>2, <2>3
      DEF OpenNow, DataIsOpen, BioIsFar, CopyIsOpen, StepIsFar, PhotosAlike, ParkedIsOpen, Foreign,
        Current, Leading, At
  <1>10. CASE DeleteProfile
    <2>1. OpenNow /\ UNCHANGED <<state, data, form, closed, task, buffer, finder>>
      BY <1>10 DEF Open, DeleteProfile
    <2>2. \A t \in Tasks : Tame(t)
      BY <2>1, ThrottledTame
    <2>3. Live' => Live
      BY <2>1 DEF Live, Leading, At
    <2> QED
      BY <1>1, <2>1, <2>2, <2>3, SameIsFound, OpenKept
  <1>11. CASE Begun /\ Leaders # {}
    BY <1>1, <1>3, <1>11, OpenBegun
  <1>12. ASSUME NEW step \in Steps, Given(step[1], step[2])
         PROVE  OpenNow'
    BY <1>1, <1>12, OpenGiven DEF Open, Given, Same
  <1>13. CASE state = "photo" /\ Collect("create")
    BY <1>1, <1>13, OpenCollected DEF Open, Collect
  <1>15. ASSUME NEW s \in Finders, FindPlaces(s)
         PROVE  OpenNow'
    <2>1. OpenNow /\ UNCHANGED <<state, data, form, closed, task, buffer>>
      BY <1>15 DEF Open, FindPlaces
    <2>2. \A r \in Finders : Found(r)
      <3>1. finder \in [Finders -> Finder]
        BY DEF TypeOK
      <3>2. \A r \in Finders : r # s => finder'[r] = finder[r]
        BY <1>15, <3>1 DEF FindPlaces
      <3>3. finder[s] \in Finder /\ finder'[s] = [finder[s] EXCEPT !.pc = "set", !.copy = data]
        BY <1>15, <3>1 DEF FindPlaces
      <3>4. finder'[s].copy = data
        BY <3>3 DEF Finder
      <3> QED
        BY <3>2, <3>4 DEF Found, Lasts, Parking
    <2>3. Live' => Live
      BY <2>1 DEF Live, Leading, At
    <2>4. \A t \in Tasks : Tame(t)
      BY <2>1, ThrottledTame
    <2> QED
      BY <1>1, <2>1, <2>2, <2>3, <2>4, OpenKept
  <1>16. ASSUME NEW s \in Finders, ParkCandidates(s)
         PROVE  OpenNow'
    BY <1>1, <1>16, OpenParked DEF Open, ParkCandidates
  <1> QED
    BY <1>1, <1>2, <1>4, <1>5, <1>6, <1>7, <1>8, <1>9, <1>10, <1>11, <1>12, <1>13, <1>14, <1>15, <1>16
    DEF Event

-----------------------------------------------------------------------------
(* What becomes a profile.                                                 *)

FormsOpen == Shape /\ Open

LEMMA FormsOpenInit ==
  ASSUME Init
  PROVE  FormsOpen
  <1>1. data = NoData /\ (\A t \in Tasks : task[t].pc = "idle") /\ Parking = {}
    BY NoTaskTyped, NoFinderTyped DEF Init, Parking
  <1>2. Open
    BY <1>1, NoDataTyped
    DEF Open, OpenNow, DataIsOpen, InUse, BioIsFar, CopyIsOpen, StepIsFar, PhotosAlike,
      ParkedIsOpen, Parked, Foreign, Current, Leading, At
  <1> QED
    BY <1>2, ShapeInit DEF FormsOpen

LEMMA FormsOpenStep ==
  ASSUME FormsOpen, [Next]_vars
  PROVE  FormsOpen'
  <1>1. CASE Next
    BY <1>1, ShapeStep, OpenStep DEF FormsOpen, Shape
  <1>2. CASE UNCHANGED vars
    BY <1>2, ShapeStep
    DEF vars, FormsOpen, Open, OpenNow, DataIsOpen, InUse, Live, BioIsFar, CopyIsOpen, StepIsFar,
      PhotosAlike, PhotosOf, ParkedIsOpen, Parked, Parking, Foreign, Current, IsOpen, OfOpenForm,
      Spent, Leading, At
  <1> QED
    BY <1>1, <1>2

\* A profile that a leader creates is of one form, which was open when the
\* leader read the data.
LEMMA CreatedOfOneForm ==
  ASSUME FormsOpen, ~revived, NEW t \in Tasks, CreateProfile(t), profile' # profile
  PROVE  \E k \in Forms \ task[t].dead :
           Of(profile') = {k} /\ \A i \in DOMAIN profile'.photos : profile'.photos[i] = k
  <1>1. /\ At(t, "create")
        /\ profile' = [id |-> deleted + 1,
                       answers |-> [f \in ProfileFields |-> task[t].copy.answers[f]],
                       photos |-> task[t].copy.photos]
    BY DEF CreateProfile
  <1>2. PICK k \in Forms \ task[t].dead :
          /\ \A f \in ProfileFields : task[t].copy.answers[f] = k
          /\ \A i \in DOMAIN task[t].copy.photos : task[t].copy.photos[i] = k
    BY <1>1 DEF FormsOpen, Open, OpenNow, CopyIsOpen
  <1>3. /\ profile'.answers = [f \in ProfileFields |-> task[t].copy.answers[f]]
        /\ profile'.photos = task[t].copy.photos
    BY <1>1
  <1>4. Of(profile') = {k}
    BY <1>2, <1>3 DEF Of, ProfileFields
  <1> QED
    BY <1>2, <1>3, <1>4

\* However a form is cancelled or begun again while a leader has its photos or a
\* lookup waits for its places: a profile has the answers and the photos of one
\* form, if no copy that update_data made of an older one was put back since the
\* last form that began or ended with no leader alive.
THEOREM ProfilesAreOfOneForm == Spec => OneForm
  <1>1. ASSUME FormsOpen, [Next]_vars
        PROVE  MadeOfOneForm
    <2> SUFFICES ASSUME ~revived, profile = NoProfile, profile' # NoProfile
                 PROVE  Cardinality(Of(profile') \cup
                          {profile'.photos[i] : i \in DOMAIN profile'.photos}) = 1
      BY DEF MadeOfOneForm
    <2>1. Next
      BY <1>1 DEF vars
    <2>2. Event
      BY <1>1, <2>1, Classified DEF FormsOpen, Shape
    <2>3. PICK t \in Tasks : CreateProfile(t)
      <3>1. ~(Ended \/ Begun \/ Moved \/ (\E step \in Steps : Given(step[1], step[2])))
        BY DEF Ended, Begun, Moved, Given, chat
      <3>2. ~(Collect("create") \/ Collect("edit") \/ Restart \/ RunOut \/ DeleteProfile)
        BY DEF Collect, Restart, RunOut, DeleteProfile
      <3>5. ~\E s \in Finders : FindPlaces(s) \/ ParkCandidates(s)
        BY DEF FindPlaces, ParkCandidates
      <3>3. PICK t \in Tasks : Wake(t) \/ Work(t) \/ Fail(t)
        BY <2>2, <3>1, <3>2, <3>5 DEF Event
      <3>4. CreateProfile(t)
        BY <3>3 DEF Wake, Work, Fail, GetData, SetData, ReadForm, SavePreferences, ClearState,
          ClearData, ReadMenu, ApplyPhotos, ShowMenu, work
      <3> QED
        BY <3>4
    <2>4. PICK k \in Forms :
            Of(profile') = {k} /\ \A i \in DOMAIN profile'.photos : profile'.photos[i] = k
      BY <1>1, <2>3, CreatedOfOneForm
    <2>5. Of(profile') \cup {profile'.photos[i] : i \in DOMAIN profile'.photos} = {k}
      BY <2>4
    <2> QED
      BY <2>5, FS_Singleton
  <1>2. Init => FormsOpen
    BY FormsOpenInit
  <1>3. FormsOpen /\ [Next]_vars => FormsOpen'
    BY FormsOpenStep
  <1>4. FormsOpen /\ [Next]_vars => [MadeOfOneForm]_vars
    BY <1>1
  <1> QED
    BY <1>2, <1>3, <1>4, PTL DEF Spec, OneForm

\* A form that was cancelled or replaced before a leader read the data does not
\* become a profile, if no copy of an older form was put back.
THEOREM CancelledFormsStayOut == Spec => CancelledStaysOut
  <1>1. ASSUME FormsOpen
        PROVE  MadeOfOpenForm
    BY <1>1, CreatedOfOneForm DEF MadeOfOpenForm
  <1>2. Init => FormsOpen
    BY FormsOpenInit
  <1>3. FormsOpen /\ [Next]_vars => FormsOpen'
    BY FormsOpenStep
  <1>4. FormsOpen => [MadeOfOpenForm]_vars
    BY <1>1
  <1> QED
    BY <1>2, <1>3, <1>4, PTL DEF Spec, CancelledStaysOut

=============================================================================
