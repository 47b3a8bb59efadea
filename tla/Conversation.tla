----------------------------- MODULE Conversation -----------------------------
(***************************************************************************)
(* The forms of the bot, for one user in a private chat: /create, /edit    *)
(* and the choice of a search area.                                        *)
(*                                                                         *)
(* aiogram keeps the step and the answers of a conversation in two keys of *)
(* Redis, and runs each update as a task.  The throttle lets one update a  *)
(* second through, so the handlers of typed answers and taps are one step  *)
(* each, but for two.  The handler of a typed city waits for the geocoder, *)
(* and then reads the data and writes it back, with other handlers running *)
(* between.  And the photos of an album are exempt from the throttle: they *)
(* are collected in the memory of the process by the task of the first     *)
(* one, the leader, which sleeps and then reads and writes in steps.       *)
(* Input that a handler refuses changes nothing and is left out.           *)
(***************************************************************************)
EXTENDS Integers, Sequences, FiniteSets

CONSTANTS
  Tasks,      \* leaders alive at a time
  Finders,    \* typed cities whose places are being stored at a time
  MaxLookups, \* bound on typed cities that wait for the geocoder at a time
  MaxPhotos,  \* Photos.MAX_COUNT
  WhileAsleep,\* throttled updates that _MEDIA_GROUP_DEBOUNCE_SECONDS has room for
  WhileBusy,  \* and that the rest of a leader's work, or a lookup's write, has room for
  MaxForms,   \* bound on /create and /edit
  MaxSent,    \* bound on photos
  MaxDeleted, \* bound on profiles an administrator deletes
  NoProfile

ASSUME BoundsArePositive ==
  /\ {WhileAsleep, WhileBusy, MaxLookups, MaxForms, MaxSent, MaxDeleted} \subseteq Nat
  /\ MaxPhotos \in Nat \ {0}

\* /create takes seven updates to get to the photos again.
ASSUME FormsTakeLonger == WhileAsleep + WhileBusy < 7

VARIABLES
  state,      \* the step of the conversation
  data,       \* its answers
  buffer,     \* _media_buffers and _edit_media_buffers
  task,       \* the leaders
  lookups,    \* typed cities the geocoder has not answered for
  finder,     \* those whose places are being stored
  profile,    \* the user's row in profiles
  located,    \* has the user a search location?
  form,       \* how many forms were begun
  closed,     \* forms that were cancelled, replaced or wiped
  sent, deleted,
  revived,    \* has update_data put back a form that was closed?
  raced       \* may the two keys not belong together, or lack an answer?

vars == <<state, data, buffer, task, lookups, finder, profile, located, form, closed,
          sent, deleted, revived, raced>>

-----------------------------------------------------------------------------

Flows == {"create", "edit"}

ProfileFields == {"name", "age", "gender", "location", "bio"}

Fields == ProfileFields \cup {"preference"}

CreateSteps == Fields \cup {"photo"}

EditSteps ==
  {"choosing", "edit name", "edit age", "edit gender", "edit location", "edit bio", "edit photo"}

BrowseSteps == {"browse preference", "browse location"}

Forms == 0 .. MaxForms

Ids == 0 .. MaxDeleted + 1

\* An answer is known by the form it was given in, 0 when there is none.  The
\* places that were found for a typed city are left out.
Data == [user: BOOLEAN, menu: Ids, answers: [Fields -> Forms], photos: Seq(Forms)]

NoData == [user |-> FALSE, menu |-> 0, answers |-> [f \in Fields |-> 0], photos |-> <<>>]

ProfileRow == [id: Ids, answers: [ProfileFields -> Forms], photos: Seq(Forms)]

\* dead is not in the code: the forms that were closed when copy was made.
Task ==
  [pc: {"idle", "asleep", "get", "set", "finalize", "create", "preferences", "clear", "cleared",
        "menu", "apply", "show"},
   flow: Flows, photos: Seq(Forms), copy: Data, seen: Nat, dead: SUBSET Forms]

NoTask ==
  [pc |-> "idle", flow |-> "create", photos |-> <<>>, copy |-> NoData, seen |-> 0, dead |-> {}]

\* Nor is stale: were both keys written anew since copy was made?
Finder == [pc: {"idle", "set"}, copy: Data, seen: Nat, stale: BOOLEAN]

NoFinder == [pc |-> "idle", copy |-> NoData, seen |-> 0, stale |-> FALSE]

At(t, pc) == task[t].pc = pc

Asleep == {t \in Tasks : At(t, "asleep")}

Busy == {t \in Tasks : task[t].pc \notin {"idle", "asleep"}}

Leaders == Asleep \cup Busy

\* The lookups that have read the data and not yet written it back.
Parking == {f \in Finders : finder[f].pc = "set"}

-----------------------------------------------------------------------------
(* ThrottlingMiddleware, in front of every handler.                        *)

\* Mutated: nothing is throttled.
Unthrottled == UNCHANGED task

\* One update a second: so many while a leader sleeps, so many while it works
\* or a lookup is about to write.
Room ==
  /\ \A t \in Asleep : task[t].seen < WhileAsleep
  /\ \A t \in Busy : task[t].seen < WhileBusy
  /\ \A f \in Parking : finder[f].seen < WhileBusy

Passed(job, at) ==
  [x \in DOMAIN job |-> IF x \in at THEN [job[x] EXCEPT !.seen = @ + 1] ELSE job[x]]

Throttled == Room /\ task' = Passed(task, Leaders)

chat == <<buffer, lookups, profile, sent, deleted>>

\* The handler of an update that leaves leaders, buffers and profile alone.
Handled == Throttled /\ UNCHANGED chat

Of(d) == {d.answers[f] : f \in DOMAIN d.answers}

\* clear() and set_data() end the form whose answers were there.
Closes == closed' = closed \cup Of(data) \cup {form}

Outdated(copies) ==
  [f \in Finders |-> IF f \in Parking THEN [copies[f] EXCEPT !.stale = TRUE] ELSE copies[f]]

\* Both keys are written anew.  What was wrong with them is over, unless a
\* leader is still to write; a lookup spoils them again only when it writes.
Anew ==
  /\ Closes
  /\ finder' = Outdated(Passed(finder, Parking))
  /\ raced' = (Leaders # {})
  /\ revived' = (revived /\ Leaders # {})

Same == finder' = Passed(finder, Parking) /\ UNCHANGED <<form, closed, raced, revived>>

-----------------------------------------------------------------------------
(* /create, /cancel and the answers.                                       *)

\* Messages of these steps reach no router but the form's own.
Catching == {"name", "age", "location", "bio", "photo"}

\* Mutated: the step is forgotten, the answers are not.
CancelStepOnly ==
  /\ state # "none"
  /\ state' = "none"
  /\ Anew
  /\ Handled
  /\ UNCHANGED <<data, located, form>>

CmdCancel ==
  /\ state # "none"
  /\ state' = "none" /\ data' = NoData
  /\ Anew
  /\ Handled
  /\ UNCHANGED <<located, form>>

CmdCreate ==
  /\ profile = NoProfile
  /\ form < MaxForms
  /\ form' = form + 1
  /\ data' = [NoData EXCEPT !.user = TRUE]
  /\ state' = "name"
  /\ Anew
  /\ Handled
  /\ UNCHANGED located

\* Mutated: an answer moves on without being stored.
AnswerUnstored(field, next) ==
  /\ state = field
  /\ state' = next
  /\ Handled /\ Same
  /\ UNCHANGED <<data, located>>

Answer(field, next) ==
  /\ state = field
  /\ data' = [data EXCEPT !.answers[field] = form]
  /\ state' = next
  /\ Handled /\ Same
  /\ UNCHANGED located

ProcessName == Answer("name", "age")

ProcessAge == Answer("age", "gender")

ProcessGender == Answer("gender", "preference")

ProcessGenderPreference == Answer("preference", "location")

ProcessLocation == Answer("location", "bio")

\* The pick of a place that was found is an answer like a shared location.
ProcessLocationPicked == Answer("location", "bio")

ProcessBio ==
  /\ state = "bio"
  /\ data' = [data EXCEPT !.answers["bio"] = form, !.photos = <<>>]
  /\ state' = "photo"
  /\ Handled /\ Same
  /\ UNCHANGED located

-----------------------------------------------------------------------------
(* A typed city: the handler waits for the geocoder as long as it takes.   *)

\* The throttle lets another city be typed a second later.
ProcessLocationTyped ==
  /\ state \in {"location", "edit location", "browse location"}
  /\ lookups < MaxLookups
  /\ lookups' = lookups + 1
  /\ Throttled /\ Same
  /\ UNCHANGED <<state, data, located, buffer, profile, sent, deleted>>

\* The geocoder knows no such place or cannot be reached.
FindNothing ==
  /\ lookups > 0
  /\ lookups' = lookups - 1
  /\ UNCHANGED <<state, data, task, finder, buffer, profile, located, form, closed, sent,
                 deleted, revived, raced>>

\* It answers.  The step may be another by now; update_data reads the data that
\* there is.
FindPlaces(f) ==
  /\ lookups > 0
  /\ f \notin Parking
  /\ lookups' = lookups - 1
  /\ finder' = [finder EXCEPT ![f].pc = "set", ![f].copy = data]
  /\ UNCHANGED <<state, data, task, buffer, profile, located, form, closed, sent, deleted,
                 revived, raced>>

\* And it writes what it read with the places.  What was written since is gone;
\* if a form was closed since, it is there again.
ParkCandidates(f) ==
  /\ f \in Parking
  /\ finder' = [finder EXCEPT ![f] = NoFinder]
  /\ data' = finder[f].copy
  /\ raced' = (raced \/ data' # data)
  /\ revived' = (revived \/ (finder[f].copy # NoData /\ finder[f].stale))
  /\ UNCHANGED <<state, task, lookups, buffer, profile, located, form, closed, sent, deleted>>

\* A handler whose own update_data is around that write undoes it.
ParkNothing(f) ==
  /\ f \in Parking
  /\ finder' = [finder EXCEPT ![f] = NoFinder]
  /\ UNCHANGED <<state, data, task, lookups, buffer, profile, located, form, closed, sent,
                 deleted, revived, raced>>

-----------------------------------------------------------------------------
(* Photos.  Those of an album pass the throttle; that a single photo takes *)
(* its turn only leaves less room for others.                              *)

Add(flow) ==
  IF Len(buffer[flow]) < MaxPhotos THEN Append(buffer[flow], form) ELSE buffer[flow]

Lead(flow, t) ==
  /\ At(t, "idle")
  /\ task' = [task EXCEPT ![t] = [NoTask EXCEPT !.pc = "asleep", !.flow = flow]]

\* Mutated: every photo leads.
AlwaysLead(flow) == \E t \in Tasks : Lead(flow, t)

\* Mutated: it is asked who is first when the buffer is there.
NeverLead(flow) == UNCHANGED task

\* The first photo leads; those that find a buffer are added to it.
LeadOrFollow(flow) ==
  IF buffer[flow] = <<>> THEN \E t \in Tasks : Lead(flow, t) ELSE UNCHANGED task

Collect(flow) ==
  /\ sent < MaxSent
  /\ sent' = sent + 1
  /\ buffer' = [buffer EXCEPT ![flow] = Add(flow)]
  /\ LeadOrFollow(flow)
  /\ UNCHANGED <<state, data, lookups, finder, profile, located, form, closed, deleted,
                 revived, raced>>

CollectPhoto == state = "photo" /\ Collect("create")

CollectEditPhoto == state = "edit photo" /\ Collect("edit")

still == <<lookups, finder, form, closed, sent, deleted, revived, raced>>

Goto(t, pc) == task' = [task EXCEPT ![t].pc = pc]

End(t) == task' = [task EXCEPT ![t] = NoTask]

Wake(t) ==
  /\ At(t, "asleep")
  /\ LET flow == task[t].flow
     IN  /\ task' = [task EXCEPT ![t].pc = IF flow = "create" THEN "get" ELSE "menu",
                                 ![t].photos = buffer[flow], ![t].seen = 0]
         /\ buffer' = [buffer EXCEPT ![flow] = <<>>]
  /\ UNCHANGED <<still, state, data, profile, located>>

work == <<still, buffer>>

-----------------------------------------------------------------------------
(* The leader of /create: update_data, then _finalize_create.              *)

GetData(t) ==
  /\ At(t, "get")
  /\ task' = [task EXCEPT ![t].pc = "set", ![t].copy = data, ![t].dead = closed]
  /\ UNCHANGED <<work, state, data, profile, located>>

\* If a form was closed since the copy was made, it is there again.
SetData(t) ==
  /\ At(t, "set")
  /\ data' = [task[t].copy EXCEPT !.photos = task[t].photos]
  /\ revived' = (revived \/ (task[t].copy # NoData /\ closed # task[t].dead))
  /\ Goto(t, "finalize")
  /\ UNCHANGED <<lookups, finder, form, closed, sent, deleted, raced, buffer, state, profile,
                 located>>

\* What the profile is made of; the preference is asked for when it is there.
Complete(d) == \A f \in ProfileFields : d.answers[f] # 0

\* Without a user the form is gone; an answer that is missing is a KeyError.
ReadForm(t) ==
  /\ At(t, "finalize")
  /\ IF data.user /\ Complete(data)
     THEN task' = [task EXCEPT ![t].pc = "create", ![t].copy = data]
     ELSE End(t)
  /\ UNCHANGED <<work, state, data, profile, located>>

CreateProfile(t) ==
  /\ At(t, "create")
  /\ IF profile = NoProfile
     THEN /\ profile' = [id |-> deleted + 1,
                         answers |-> [f \in ProfileFields |-> task[t].copy.answers[f]],
                         photos |-> task[t].copy.photos]
          /\ Goto(t, "preferences")
     ELSE /\ Goto(t, "clear")
          /\ UNCHANGED profile
  /\ UNCHANGED <<work, state, data, located>>

\* A preference that is missing is a KeyError, after the profile's commit.
SavePreferences(t) ==
  /\ At(t, "preferences")
  /\ IF task[t].copy.answers["preference"] # 0
     THEN located' = TRUE /\ Goto(t, "clear")
     ELSE UNCHANGED located /\ End(t)
  /\ UNCHANGED <<work, state, data, profile>>

\* state.clear() is two writes.
ClearState(t) ==
  /\ At(t, "clear")
  /\ state' = "none"
  /\ raced' = (raced \/ Leaders \ {t} # {})
  /\ Goto(t, "cleared")
  /\ UNCHANGED <<lookups, finder, form, closed, sent, deleted, revived, buffer, data, profile,
                 located>>

ClearData(t) ==
  /\ At(t, "cleared")
  /\ data' = NoData
  /\ Closes
  /\ finder' = Outdated(finder)
  /\ End(t)
  /\ UNCHANGED <<lookups, form, sent, deleted, revived, raced, buffer, state, profile, located>>

-----------------------------------------------------------------------------
(* /edit.                                                                  *)

CmdEdit ==
  /\ state \notin Catching
  /\ profile # NoProfile
  /\ form < MaxForms
  /\ form' = form + 1
  /\ data' = [NoData EXCEPT !.menu = profile.id]
  /\ state' = "choosing"
  /\ Anew
  /\ Handled
  /\ UNCHANGED located

OnChooseField ==
  /\ state = "choosing"
  /\ state' \in EditSteps \ {"choosing"}
  /\ Handled /\ Same
  /\ UNCHANGED <<data, located>>

OnDone ==
  /\ state = "choosing"
  /\ state' = "none" /\ data' = NoData
  /\ Anew
  /\ Handled
  /\ UNCHANGED <<located, form>>

\* The menu is of a profile that still exists.
Editable == data.menu # 0 /\ profile # NoProfile /\ profile.id = data.menu

\* _apply_edit for one answer.
ApplyEdit(field) ==
  /\ Throttled
  /\ IF Editable
     THEN /\ profile' = [profile EXCEPT !.answers[field] = form]
          /\ state' = "choosing"
          /\ Same
          /\ UNCHANGED data
     ELSE /\ state' = "none" /\ data' = NoData
          /\ Anew
          /\ UNCHANGED <<profile, form>>
  /\ UNCHANGED <<buffer, lookups, sent, deleted, located>>

ProcessEditName == state = "edit name" /\ ApplyEdit("name")

ProcessEditAge == state = "edit age" /\ ApplyEdit("age")

ProcessEditGender == state = "edit gender" /\ ApplyEdit("gender")

ProcessEditBio == state = "edit bio" /\ ApplyEdit("bio")

ProcessEditLocation == state = "edit location" /\ ApplyEdit("location")

ProcessEditLocationPicked == state = "edit location" /\ ApplyEdit("location")

\* _apply_edit for the photos of a leader.
ReadMenu(t) ==
  /\ At(t, "menu")
  /\ IF data.menu = 0
     THEN Goto(t, "clear")
     ELSE task' = [task EXCEPT ![t].pc = "apply", ![t].copy = data]
  /\ UNCHANGED <<work, state, data, profile, located>>

ApplyPhotos(t) ==
  /\ At(t, "apply")
  /\ IF profile # NoProfile /\ profile.id = task[t].copy.menu
     THEN /\ profile' = [profile EXCEPT !.photos = task[t].photos]
          /\ Goto(t, "show")
     ELSE /\ Goto(t, "clear")
          /\ UNCHANGED profile
  /\ UNCHANGED <<work, state, data, located>>

ShowMenu(t) ==
  /\ At(t, "show")
  /\ state' = "choosing"
  /\ End(t)
  /\ UNCHANGED <<work, data, profile, located>>

-----------------------------------------------------------------------------
(* The search area, from /start, /feed and /setcity.                       *)

StartBrowseOnboarding ==
  /\ ~located
  /\ state' = "browse preference"
  /\ Handled /\ Same
  /\ UNCHANGED <<data, located>>

CmdSetCity ==
  /\ state \notin Catching
  /\ state \notin {"edit name", "edit age", "edit location", "edit bio", "edit photo"}
  /\ state' = "browse location"
  /\ Handled /\ Same
  /\ UNCHANGED <<data, located>>

BrowsePreference ==
  /\ state = "browse preference"
  /\ state' = "browse location"
  /\ Handled /\ Same
  /\ UNCHANGED <<data, located>>

\* A shared location, or the pick of a candidate.
BrowseLocation ==
  /\ state = "browse location"
  /\ located' = TRUE
  /\ state' = "none" /\ data' = NoData
  /\ Anew
  /\ Handled
  /\ UNCHANGED form

-----------------------------------------------------------------------------
(* Failures.                                                               *)

\* The database or Redis fails under a leader: its error is logged.
Fail(t) ==
  /\ t \in Busy
  /\ End(t)
  /\ raced' = TRUE
  /\ UNCHANGED <<lookups, finder, form, closed, sent, deleted, revived, buffer, state, data,
                 profile, located>>

\* The process restarts: Redis keeps the form, the photos are gone.
Restart ==
  /\ Leaders \cup Parking # {} \/ lookups > 0
  /\ task' = [t \in Tasks |-> NoTask]
  /\ buffer' = [flow \in Flows |-> <<>>]
  /\ lookups' = 0 /\ finder' = [f \in Finders |-> NoFinder]
  /\ raced' = (raced \/ Busy # {})
  /\ UNCHANGED <<form, closed, sent, deleted, revived, state, data, profile, located>>

\* After fsm_state_ttl_seconds or fsm_data_ttl_seconds without a write.
RunOut ==
  /\ Leaders \cup Parking = {} /\ lookups = 0
  /\ \/ state' = "none" /\ UNCHANGED data
     \/ data' = NoData /\ UNCHANGED state
  /\ Closes
  /\ raced' = TRUE
  /\ UNCHANGED <<form, sent, deleted, revived, task, buffer, lookups, finder, profile, located>>

DeleteProfile ==
  /\ profile # NoProfile
  /\ deleted < MaxDeleted
  /\ deleted' = deleted + 1
  /\ profile' = NoProfile
  /\ UNCHANGED <<state, data, buffer, task, lookups, finder, located, form, closed, sent,
                 revived, raced>>

-----------------------------------------------------------------------------

Init ==
  /\ state = "none"
  /\ data = NoData
  /\ buffer = [flow \in Flows |-> <<>>]
  /\ task = [t \in Tasks |-> NoTask]
  /\ lookups = 0 /\ finder = [f \in Finders |-> NoFinder]
  /\ profile = NoProfile
  /\ located = FALSE
  /\ form = 0
  /\ closed = {}
  /\ sent = 0 /\ deleted = 0
  /\ revived = FALSE /\ raced = FALSE

Create ==
  \/ CmdCreate
  \/ ProcessName
  \/ ProcessAge
  \/ ProcessGender
  \/ ProcessGenderPreference
  \/ ProcessLocation
  \/ ProcessLocationPicked
  \/ ProcessBio
  \/ CollectPhoto

Edit ==
  \/ CmdEdit
  \/ OnChooseField
  \/ OnDone
  \/ ProcessEditName
  \/ ProcessEditAge
  \/ ProcessEditGender
  \/ ProcessEditBio
  \/ ProcessEditLocation
  \/ ProcessEditLocationPicked
  \/ CollectEditPhoto

Browse ==
  \/ StartBrowseOnboarding
  \/ CmdSetCity
  \/ BrowsePreference
  \/ BrowseLocation

Work(t) ==
  \/ GetData(t)
  \/ SetData(t)
  \/ ReadForm(t)
  \/ CreateProfile(t)
  \/ SavePreferences(t)
  \/ ClearState(t)
  \/ ClearData(t)
  \/ ReadMenu(t)
  \/ ApplyPhotos(t)
  \/ ShowMenu(t)

Next ==
  \/ CmdCancel
  \/ Create
  \/ Edit
  \/ Browse
  \/ ProcessLocationTyped
  \/ FindNothing
  \/ \E f \in Finders : FindPlaces(f) \/ ParkCandidates(f) \/ ParkNothing(f)
  \/ \E t \in Tasks : Wake(t) \/ Work(t) \/ Fail(t)
  \/ Restart
  \/ RunOut
  \/ DeleteProfile

Spec == Init /\ [][Next]_vars

\* The event loop wakes a sleeper and resumes a task whose await is done.
Fairness == \A t \in Tasks : WF_vars(Wake(t)) /\ WF_vars(Work(t))

FairSpec == Spec /\ Fairness

-----------------------------------------------------------------------------
(* Properties.                                                             *)

\* Keys, buffers and leaders have their types.
TypeOK ==
  /\ state \in {"none"} \cup CreateSteps \cup EditSteps \cup BrowseSteps
  /\ data \in Data
  /\ buffer \in [Flows -> Seq(Forms)]
  /\ task \in [Tasks -> Task]
  /\ finder \in [Finders -> Finder]
  /\ {lookups, form, sent, deleted} \subseteq Nat
  /\ profile \in ProfileRow \cup {NoProfile}
  /\ {located, revived, raced} \subseteq BOOLEAN
  /\ closed \subseteq Forms
  /\ \A flow \in Flows : Len(buffer[flow]) <= MaxPhotos

\* Photos are waiting in the buffer of a flow if and only if exactly one
\* sleeping leader will take them: none is stuck, and no two leaders take the
\* photos of one album apart.
BufferHasLeader ==
  \A flow \in Flows :
    Cardinality({t \in Asleep : task[t].flow = flow}) = IF buffer[flow] = <<>> THEN 0 ELSE 1

\* However /cancel, a new /create, a restart and the photos interleave, a
\* profile is made of the answers and the photos of one form.  Except where
\* update_data, of a leader or of a late lookup, has written an older form back
\* that was closed between its two commands, until a form begins or ends with
\* no leader alive.
MadeOfOneForm ==
  ~revived /\ profile = NoProfile /\ profile' # NoProfile =>
    Cardinality(Of(profile') \cup {profile'.photos[i] : i \in DOMAIN profile'.photos}) = 1

OneForm == [][MadeOfOneForm]_vars

\* "State was cleared between buffering and flushing": a form that was
\* cancelled or replaced before the leader read its answers does not become a
\* profile.  Except where update_data has written it back, as for OneForm.
MadeOfOpenForm ==
  \A t \in Tasks : ~revived /\ CreateProfile(t) /\ profile' # profile =>
    Of(profile') \cap task[t].dead = {}

CancelledStaysOut == [][MadeOfOpenForm]_vars

\* The answers that a step of /create comes after.
Before ==
  [name |-> {}, age |-> {"name"}, gender |-> {"name", "age"},
   preference |-> {"name", "age", "gender"},
   location |-> {"name", "age", "gender", "preference"},
   bio |-> Fields \ {"bio"}, photo |-> Fields]

\* A conversation is never at a step that its data cannot be finished from:
\* the steps of a form come with its user and all earlier answers, those of
\* the menu with a profile's id.  Except where a leader was alive when a
\* form began or ended, where a leader failed or a restart cut it short, where
\* a late lookup has written over newer data, or where one of the two keys ran
\* out; and then only until the next form begins or ends with no leader alive.
FormIsWhole ==
  raced \/
    /\ state \in CreateSteps =>
         data.user /\ \A f \in Before[state] : data.answers[f] = form
    /\ state \in EditSteps => data.menu # 0

\* A photo that was accepted is taken out of the buffer in the end.
PhotosAreTaken == \A flow \in Flows : buffer[flow] # <<>> ~> buffer[flow] = <<>>

=============================================================================
