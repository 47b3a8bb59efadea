------------------------------ MODULE FeedProofs ------------------------------
(***************************************************************************)
(* Proofs about Feed, for any owners, any number of sessions, any averages *)
(* and minimums, and any number of changes during a search.                *)
(***************************************************************************)
EXTENDS Feed, TLAPS

USE FunctionsOfOwners, NumbersAreNaturals

-----------------------------------------------------------------------------
(* What steps do to the jobs and to what is watched.                       *)

Pcs == {"idle", "expire", "strip"} \cup Reads

OthersKeep(r) == \A v \in Sessions \ {r} : job'[v] = job[v]

LEMMA IdleIsJob ==
  ASSUME NewPreferences \in Preferences
  PROVE  Idle \in Job /\ Idle.pc = "idle"
  BY DEF Idle, Job

LEMMA NewPreferencesTyped == NewPreferences \in Preferences
  BY DEF NewPreferences, Preferences

LEMMA GotoMoves ==
  ASSUME TypeOK, NEW r \in Sessions, NEW pc \in Pcs, Goto(r, pc)
  PROVE  /\ job' \in [Sessions -> Job] /\ OthersKeep(r)
         /\ job'[r].pc = pc /\ job'[r].to = job[r].to /\ job'[r].prefs = job[r].prefs
         /\ job'[r].filter = job[r].filter /\ job'[r].skipped = job[r].skipped
         /\ job'[r].moved = job[r].moved
  <1> PICK k \in Job : k = job[r]
    BY DEF TypeOK
  <1> PICK j \in Job : j = [k EXCEPT !.pc = pc]
    BY DEF Job, Pcs
  <1>1. job' = [job EXCEPT ![r] = j]
    BY DEF Goto, TypeOK
  <1>2. /\ j.pc = pc /\ j.to = k.to /\ j.prefs = k.prefs /\ j.filter = k.filter
        /\ j.skipped = k.skipped /\ j.moved = k.moved
    BY DEF Job
  <1> QED
    BY <1>1, <1>2 DEF TypeOK, OthersKeep

LEMMA ToStripMoves ==
  ASSUME TypeOK, NEW r \in Sessions, NEW o \in Owners, NEW pc \in {"strip", "expire"},
         job' = [job EXCEPT ![r].pc = pc, ![r].to = o]
  PROVE  /\ job' \in [Sessions -> Job] /\ OthersKeep(r)
         /\ job'[r].pc = pc /\ job'[r].to = o
  <1> PICK k \in Job : k = job[r]
    BY DEF TypeOK
  <1> PICK j \in Job : j = [k EXCEPT !.pc = pc, !.to = o]
    BY DEF Job
  <1>1. job' = [job EXCEPT ![r] = j]
    BY DEF TypeOK
  <1>2. j.pc = pc /\ j.to = o
    BY DEF Job
  <1> QED
    BY <1>1, <1>2 DEF TypeOK, OthersKeep

LEMMA StripMoves ==
  ASSUME TypeOK, NEW r \in Sessions, Strip(r)
  PROVE  /\ job' \in [Sessions -> Job] /\ OthersKeep(r)
         /\ job'[r].pc = "prefs"
  <1> PICK k \in Job : k = job[r]
    BY DEF TypeOK
  <1> PICK j \in Job : j = [k EXCEPT !.pc = "prefs", !.to = Nobody]
    BY DEF Job, Reads
  <1>1. job' = [job EXCEPT ![r] = j]
    BY DEF Strip, TypeOK
  <1>2. j.pc = "prefs"
    BY DEF Job
  <1> QED
    BY <1>1, <1>2 DEF TypeOK, OthersKeep

LEMMA EndMoves ==
  ASSUME TypeOK, NEW r \in Sessions, job' = [job EXCEPT ![r] = Idle]
  PROVE  /\ job' \in [Sessions -> Job] /\ OthersKeep(r)
         /\ job'[r].pc = "idle"
  <1> PICK j \in Job : j = Idle /\ j.pc = "idle"
    BY IdleIsJob, NewPreferencesTyped
  <1> QED
    BY DEF TypeOK, OthersKeep

LEMMA ReadPreferencesMoves ==
  ASSUME TypeOK, NEW r \in Sessions, job' = [job EXCEPT ![r].pc = "profile", ![r].prefs = prefs]
  PROVE  /\ job' \in [Sessions -> Job] /\ OthersKeep(r)
         /\ job'[r].pc = "profile" /\ job'[r].prefs = prefs /\ job'[r].moved = job[r].moved
  <1> PICK k \in Job : k = job[r]
    BY DEF TypeOK
  <1>1. prefs \in Preferences
    BY DEF TypeOK
  <1> PICK j \in Job : j = [k EXCEPT !.pc = "profile", !.prefs = prefs]
    BY <1>1 DEF Job, Reads
  <1>2. job' = [job EXCEPT ![r] = j]
    BY DEF TypeOK
  <1>3. j.pc = "profile" /\ j.prefs = prefs /\ j.moved = k.moved
    BY DEF Job
  <1> QED
    BY <1>2, <1>3 DEF TypeOK, OthersKeep

LEMMA IsPremiumMoves ==
  ASSUME TypeOK, NEW r \in Sessions, IsPremium(r)
  PROVE  /\ job' \in [Sessions -> Job] /\ OthersKeep(r)
         /\ job'[r].pc = "skips" /\ job'[r].prefs = job[r].prefs
         /\ job'[r].filter = (job[r].prefs.min > 0 /\ premium)
         /\ job'[r].moved = job[r].moved
  <1> PICK k \in Job : k = job[r]
    BY DEF TypeOK
  <1>1. (k.prefs.min > 0 /\ premium) \in BOOLEAN
    BY DEF TypeOK
  <1> PICK j \in Job : j = [k EXCEPT !.pc = "skips", !.filter = k.prefs.min > 0 /\ premium]
    BY <1>1 DEF Job, Reads
  <1>2. job' = [job EXCEPT ![r] = j]
    BY DEF IsPremium, TypeOK
  <1>3. /\ j.pc = "skips" /\ j.prefs = k.prefs /\ j.moved = k.moved
        /\ j.filter = (k.prefs.min > 0 /\ premium)
    BY DEF Job
  <1> QED
    BY <1>2, <1>3 DEF TypeOK, OthersKeep

LEMMA SkippedTyped == TypeOK => Skipped \in SUBSET Owners
  BY DEF TypeOK, Skipped, Registry

LEMMA GetSkippedMoves ==
  ASSUME TypeOK, NEW r \in Sessions, GetSkipped(r)
  PROVE  /\ job' \in [Sessions -> Job] /\ OthersKeep(r)
         /\ job'[r].pc = "find" /\ job'[r].prefs = job[r].prefs
         /\ job'[r].filter = job[r].filter /\ job'[r].skipped = Skipped
         /\ job'[r].moved = job[r].moved
  <1> PICK k \in Job : k = job[r]
    BY DEF TypeOK
  <1> PICK j \in Job : j = [k EXCEPT !.pc = "find", !.skipped = Skipped]
    BY SkippedTyped DEF Job, Reads
  <1>1. job' = [job EXCEPT ![r] = j]
    BY DEF GetSkipped, TypeOK
  <1>2. /\ j.pc = "find" /\ j.prefs = k.prefs /\ j.moved = k.moved
        /\ j.filter = k.filter /\ j.skipped = Skipped
    BY DEF Job
  <1> QED
    BY <1>1, <1>2 DEF TypeOK, OthersKeep

LEMMA FoundMoves ==
  ASSUME TypeOK, NEW r \in Sessions, NEW o \in Owners \cup {Nobody}, Found(r, o)
  PROVE  /\ job' \in [Sessions -> Job] /\ OthersKeep(r)
         /\ job'[r].pc = "show" /\ job'[r].to = o /\ job'[r].moved = job[r].moved
  <1> PICK k \in Job : k = job[r]
    BY DEF TypeOK
  <1>1. k.moved \in Nat /\ Idle \in Job
    BY IdleIsJob, NewPreferencesTyped DEF Job
  <1> PICK j \in Job : j = [Idle EXCEPT !.pc = "show", !.to = o, !.moved = k.moved]
    BY <1>1 DEF Job, Reads
  <1>2. job' = [job EXCEPT ![r] = j]
    BY DEF Found
  <1>3. j.pc = "show" /\ j.to = o /\ j.moved = k.moved
    BY <1>1 DEF Job
  <1> QED
    BY <1>2, <1>3 DEF TypeOK, OthersKeep

LEMMA MovedMoves ==
  ASSUME TypeOK, Moved
  PROVE  /\ job' \in [Sessions -> Job]
         /\ \A r \in Sessions :
              /\ job'[r].pc = job[r].pc /\ job'[r].to = job[r].to
              /\ job'[r].prefs = job[r].prefs /\ job'[r].filter = job[r].filter
              /\ job'[r].skipped = job[r].skipped
              /\ Searching(r) => job'[r].moved = job[r].moved + 1
  <1> SUFFICES ASSUME NEW r \in Sessions
               PROVE  /\ job'[r] \in Job
                      /\ job'[r].pc = job[r].pc /\ job'[r].to = job[r].to
                      /\ job'[r].prefs = job[r].prefs /\ job'[r].filter = job[r].filter
                      /\ job'[r].skipped = job[r].skipped
                      /\ Searching(r) => job'[r].moved = job[r].moved + 1
    <2> job' = [r \in Sessions |-> job'[r]]
      BY DEF Moved
    <2> QED
      OBVIOUS
  <1> PICK k \in Job : k = job[r]
    BY DEF TypeOK
  <1>0. k.moved + 1 \in Nat
    BY DEF Job
  <1> PICK j \in Job : j = [k EXCEPT !.moved = k.moved + 1]
    BY <1>0 DEF Job
  <1>1. /\ j.pc = k.pc /\ j.to = k.to /\ j.prefs = k.prefs /\ j.filter = k.filter
        /\ j.skipped = k.skipped /\ j.moved = k.moved + 1
    BY DEF Job
  <1>2. job'[r] = IF Searching(r) THEN j ELSE k
    BY DEF Moved
  <1> QED
    BY <1>1, <1>2

\* A search is known to be fit only what is, and knows only objections that hold;
\* both only lose what no longer holds.
LEMMA Watched ==
  ASSUME Watch, NEW r \in Sessions
  PROVE  /\ ~Searching(r)' => good'[r] = {} /\ barred'[r] = {}
         /\ good'[r] \subseteq Fit' /\ barred'[r] \subseteq Objections'
         /\ Searching(r) => good'[r] \subseteq good[r] /\ barred'[r] \subseteq barred[r]
  BY DEF Watch

\* An objection says what it says, also after a step.
LEMMA ObjectionsHold ==
  ASSUME NEW b \in Objections'
  PROVE  /\ b[1][1] = "rated" => b[2] \in rated'
         /\ b[1][1] = "hidden" => b[2] \notin visible'
         /\ b[1][1] = "skipped" => clock' < away'[b[2]]
         /\ b[1][1] = "gender" => ~HasGender(b[2], prefs'.gender)
         /\ b[1][1] = "average" => b[1][2] = prefs'.min /\ Below(b[2])'
         /\ b[1][1] = "quota" => ~mine' /\ Cardinality(rated') >= Quota
         /\ b[1][1] \in Reasons
  BY DEF Objections, Reasons, HasGender, Below

LEMMA WatchTyped ==
  ASSUME Watch, rated' \subseteq Owners, prefs' \in Preferences, visible' \subseteq Owners
  PROVE  /\ good' \in [Sessions -> SUBSET Owners]
         /\ barred' \in [Sessions -> SUBSET ((Reasons \X Averages) \X Owners)]
  <1>1. Fit' \subseteq Owners
    BY DEF Fit, DefaultFeed
  <1>2. Objections' \subseteq (Reasons \X Averages) \X Owners
    BY DEF Objections, Reasons, Preferences
  <1>3. ASSUME NEW r \in Sessions
        PROVE  good'[r] \subseteq Owners /\ barred'[r] \subseteq (Reasons \X Averages) \X Owners
    BY <1>1, <1>2, Watched
  <1>4. good' = [r \in Sessions |-> good'[r]] /\ barred' = [r \in Sessions |-> barred'[r]]
    BY DEF Watch
  <1> QED
    BY <1>3, <1>4

-----------------------------------------------------------------------------
(* Types.                                                                  *)

LEMMA TypeStarts == Init => TypeOK
  <1> SUFFICES ASSUME Init PROVE TypeOK
    OBVIOUS
  <1>1. Idle \in Job
    BY IdleIsJob, NewPreferencesTyped
  <1>2. skips \in Registry
    BY DEF Init, Registry
  <1>3. prefs \in Preferences /\ average \in [Owners -> Averages \cup {Unrated}]
    BY StartsAreTyped DEF Init
  <1> QED
    BY <1>1, <1>2, <1>3 DEF Init, TypeOK

LEMMA HandleTyped ==
  ASSUME TypeOK, NEW r \in Sessions, Handle(r), Watch
  PROVE  TypeOK'
  <1> USE DEF outside, settings, reading
  <1>1. SUFFICES /\ UNCHANGED outside
                 /\ rated' \subseteq Owners /\ skips' \in Registry /\ chat' \subseteq Owners
                 /\ updates' \in Nat /\ away' \in [Owners -> Nat] /\ orphaned' \in BOOLEAN
                 /\ job' \in [Sessions -> Job]
    BY WatchTyped DEF TypeOK
  <1>2. CASE Ask(r)
    BY <1>2, GotoMoves DEF Ask, Receives, TypeOK, Pcs, Reads
  <1>3. ASSUME NEW o \in Owners, Rate(r, o)
        PROVE  /\ UNCHANGED outside
               /\ rated' \subseteq Owners /\ skips' \in Registry /\ chat' \subseteq Owners
               /\ updates' \in Nat /\ away' \in [Owners -> Nat] /\ orphaned' \in BOOLEAN
               /\ job' \in [Sessions -> Job]
    <2>1. job' = [job EXCEPT ![r].pc = "strip", ![r].to = o]
      BY <1>3 DEF Rate
    <2>2. job' \in [Sessions -> Job]
      BY <2>1, ToStripMoves
    <2> QED
      BY <1>3, <2>2 DEF Rate, Receives, TypeOK
  <1>4. ASSUME NEW o \in Owners, Skip(r, o)
        PROVE  /\ UNCHANGED outside
               /\ rated' \subseteq Owners /\ skips' \in Registry /\ chat' \subseteq Owners
               /\ updates' \in Nat /\ away' \in [Owners -> Nat] /\ orphaned' \in BOOLEAN
               /\ job' \in [Sessions -> Job]
    <2>1. skips' \in Registry
      BY <1>4, SkippedTyped DEF Skip, TypeOK, Registry
    <2>2. job' = [job EXCEPT ![r].pc = "expire", ![r].to = o]
      BY <1>4 DEF Skip
    <2>3. job' \in [Sessions -> Job]
      BY <2>2, ToStripMoves
    <2> QED
      BY <1>4, <2>1, <2>3 DEF Skip, Receives, TypeOK
  <1>5. CASE Expire(r)
    <2>1. clock + TTL \in Nat
      BY DEF TypeOK
    <2>2. skips' \in Registry
      BY <1>5, <2>1 DEF Expire, TypeOK, Registry
    <2>3. away' \in [Owners -> Nat]
      BY <1>5, <2>1 DEF Expire, TypeOK
    <2> QED
      BY <1>5, <2>2, <2>3, GotoMoves DEF Expire, TypeOK, Pcs
  <1>6. CASE Strip(r)
    BY <1>6, StripMoves DEF Strip, TypeOK
  <1>7. CASE Die(r)
    BY <1>7, EndMoves DEF Die, TypeOK
  <1>8. CASE ReadPreferences(r)
    BY <1>8, ReadPreferencesMoves, EndMoves DEF ReadPreferences, End, TypeOK
  <1>9. CASE ProfileExists(r)
    <2>1. (IF mine THEN "grants" ELSE "count") \in Pcs
      BY DEF Pcs, Reads
    <2> QED
      BY <1>9, <2>1, GotoMoves DEF ProfileExists, TypeOK
  <1>10. CASE CountByRater(r)
    BY <1>10, GotoMoves, EndMoves DEF CountByRater, End, TypeOK, Pcs, Reads
  <1>11. CASE IsPremium(r)
    BY <1>11, IsPremiumMoves DEF IsPremium, TypeOK
  <1>12. CASE GetSkipped(r)
    BY <1>12, GetSkippedMoves DEF GetSkipped, TypeOK
  <1>13. CASE FindNext(r)
    <2>1. PICK o \in Owners \cup {Nobody} : Found(r, o)
      BY <1>13 DEF FindNext, Nearest, Matches, DefaultFeed, TypeOK
    <2> QED
      BY <1>13, <2>1, FoundMoves DEF FindNext, TypeOK
  <1>14. CASE Show(r)
    <2>1. job[r].to \in Owners \cup {Nobody}
      BY DEF TypeOK, Job
    <2> QED
      BY <1>14, <2>1, EndMoves DEF Show, End, TypeOK
  <1> QED
    BY <1>2, <1>3, <1>4, <1>5, <1>6, <1>7, <1>8, <1>9, <1>10, <1>11, <1>12, <1>13, <1>14
    DEF Handle, Search

LEMMA OutsideTyped ==
  ASSUME TypeOK, Outside, Watch
  PROVE  TypeOK'
  <1> USE DEF feed, settings, Happens
  <1>1. SUFFICES /\ UNCHANGED <<rated, skips, chat, updates, away, orphaned>>
                 /\ visible' \subseteq Owners
                 /\ average' \in [Owners -> Averages \cup {Unrated}]
                 /\ prefs' \in Preferences
                 /\ {premium', mine'} \subseteq BOOLEAN
                 /\ {clock', changes'} \subseteq Nat
                 /\ job' \in [Sessions -> Job]
    BY WatchTyped DEF TypeOK
  <1>2. CASE SetPreferences
    <2>1. prefs' \in Preferences
      <3> PICK q \in Preferences : q = prefs
        BY DEF TypeOK
      <3> QED
        BY <1>2 DEF SetPreferences, Preferences
    <2> QED
      BY <1>2, <2>1, MovedMoves DEF SetPreferences, TypeOK
  <1>3. CASE ChangePremium
    BY <1>3, MovedMoves DEF ChangePremium, TypeOK
  <1>4. CASE ChangeProfile
    BY <1>4 DEF ChangeProfile, TypeOK
  <1>5. ASSUME NEW o \in Owners, Regrade(o) \/ ChangeVisibility(o)
        PROVE  /\ UNCHANGED <<rated, skips, chat, updates, away, orphaned>>
               /\ visible' \subseteq Owners
               /\ average' \in [Owners -> Averages \cup {Unrated}]
               /\ prefs' \in Preferences
               /\ {premium', mine'} \subseteq BOOLEAN
               /\ {clock', changes'} \subseteq Nat
               /\ job' \in [Sessions -> Job]
    <2>1. CASE Regrade(o)
      BY <2>1, MovedMoves DEF Regrade, TypeOK
    <2>2. CASE ChangeVisibility(o)
      BY <2>2 DEF ChangeVisibility, TypeOK
    <2> QED
      BY <1>5, <2>1, <2>2
  <1>6. CASE Tick
    BY <1>6 DEF Tick, TypeOK
  <1>7. CASE UNCHANGED vars
    BY <1>7 DEF vars, TypeOK
  <1> QED
    BY <1>2, <1>3, <1>4, <1>5, <1>6, <1>7 DEF Outside

LEMMA TypeKept == TypeOK /\ [Next]_vars => TypeOK'
  <1>1. CASE TypeOK /\ UNCHANGED vars
    BY <1>1 DEF vars, settings, TypeOK
  <1> QED
    BY <1>1, HandleTyped, OutsideTyped DEF Next

-----------------------------------------------------------------------------
(* The registry of skips.                                                  *)

\* Until when an owner was promised not to surface is covered by the key.
PromisesKept ==
  \A o \in Owners :
    /\ away[o] <= clock + TTL
    /\ clock < away[o] =>
         o \in skips.members /\ (skips.expires = Never \/ away[o] <= skips.expires)

LEMMA PromisedIsSkipped ==
  ASSUME TypeOK, PromisesKept, NEW o \in Owners, clock < away[o]
  PROVE  o \in Skipped
  BY DEF TypeOK, PromisesKept, Skipped, Registry

LEMMA SkipsKept ==
  ASSUME TypeOK, PromisesKept, SkipsRunOut, [Next]_vars
  PROVE  PromisesKept' /\ SkipsRunOut'
  <1> USE DEF outside, settings, reading, feed
  <1>1. CASE /\ UNCHANGED <<skips, clock, away, orphaned>>
             /\ \A v \in Sessions : At(v, "expire") => At(v, "expire")'
    BY <1>1 DEF PromisesKept, SkipsRunOut
  <1>2. ASSUME NEW r \in Sessions, NEW o \in Owners, Skip(r, o)
        PROVE  PromisesKept' /\ SkipsRunOut'
    <2>1. job' = [job EXCEPT ![r].pc = "expire", ![r].to = o] /\ UNCHANGED <<clock, away>>
      BY <1>2 DEF Skip
    <2>2. At(r, "expire")'
      BY <2>1, ToStripMoves DEF At
    <2>3. /\ skips'.members = Skipped \cup {o}
          /\ skips'.expires = IF Skipped = {} THEN Never ELSE skips.expires
      BY <1>2 DEF Skip
    <2>4. ASSUME NEW p \in Owners, clock < away[p]
          PROVE  p \in skips'.members /\ (skips'.expires = Never \/ away[p] <= skips'.expires)
      BY <2>3, <2>4, PromisedIsSkipped DEF PromisesKept
    <2> QED
      BY <2>1, <2>2, <2>4 DEF PromisesKept, SkipsRunOut
  <1>3. ASSUME NEW r \in Sessions, Expire(r)
        PROVE  PromisesKept' /\ SkipsRunOut'
    <2>1. UNCHANGED <<clock, orphaned>> /\ clock \in Nat /\ clock + TTL \in Nat
      BY <1>3 DEF Expire, TypeOK
    <2>2. CASE Skipped = {}
      <3>1. UNCHANGED <<skips, away>>
        BY <1>3, <2>2 DEF Expire
      <3>2. skips.expires = Never => skips.members = {}
        BY <2>2 DEF Skipped
      <3> QED
        BY <2>1, <3>1, <3>2 DEF PromisesKept, SkipsRunOut
    <2>3. CASE Skipped # {}
      <3>1. skips' = [skips EXCEPT !.expires = clock + TTL]
        BY <1>3, <2>3 DEF Expire
      <3>2. skips'.expires = clock + TTL /\ skips'.members = skips.members
        BY <3>1 DEF TypeOK, Registry
      <3>3. skips'.expires # Never
        BY <2>1, <3>2
      <3>4. ASSUME NEW p \in Owners
            PROVE  /\ away'[p] <= clock + TTL
                   /\ clock < away'[p] => p \in skips'.members
        <4>1. Skipped \subseteq skips.members
          BY DEF Skipped
        <4>2. away'[p] = away[p] \/ (p \in Skipped /\ away'[p] = clock + TTL)
          BY <1>3, <2>3 DEF Expire, TypeOK
        <4> QED
          BY <2>1, <3>2, <4>1, <4>2 DEF PromisesKept
      <3> QED
        BY <2>1, <3>2, <3>3, <3>4 DEF PromisesKept, SkipsRunOut
    <2> QED
      BY <2>2, <2>3
  <1>4. ASSUME NEW r \in Sessions, Die(r)
        PROVE  PromisesKept' /\ SkipsRunOut'
    <2>1. /\ OthersKeep(r) /\ UNCHANGED <<skips, clock, away>>
          /\ orphaned' = (orphaned \/ At(r, "expire"))
      BY <1>4, EndMoves DEF Die
    <2> QED
      BY <2>1 DEF OthersKeep, At, PromisesKept, SkipsRunOut
  <1>5. ASSUME NEW r \in Sessions, Handle(r)
        PROVE  PromisesKept' /\ SkipsRunOut'
    <2>1. CASE ~At(r, "expire") /\ OthersKeep(r) /\ UNCHANGED <<skips, clock, away, orphaned>>
      BY <1>1, <2>1 DEF OthersKeep, At
    <2>2. CASE Ask(r)
      BY <2>1, <2>2, GotoMoves DEF Ask, Receives, At, Pcs, Reads
    <2>3. ASSUME NEW o \in Owners, Rate(r, o)
          PROVE  PromisesKept' /\ SkipsRunOut'
      <3>1. job' = [job EXCEPT ![r].pc = "strip", ![r].to = o]
        BY <2>3 DEF Rate
      <3>2. OthersKeep(r)
        BY <3>1, ToStripMoves
      <3> QED
        BY <2>1, <2>3, <3>2 DEF Rate, Receives, At
    <2>4. CASE Strip(r)
      BY <2>1, <2>4, StripMoves DEF Strip, At
    <2>5. CASE ReadPreferences(r)
      BY <2>1, <2>5, ReadPreferencesMoves, EndMoves DEF ReadPreferences, End, At
    <2>6. CASE ProfileExists(r)
      <3>1. (IF mine THEN "grants" ELSE "count") \in Pcs
        BY DEF Pcs, Reads
      <3> QED
        BY <2>1, <2>6, <3>1, GotoMoves DEF ProfileExists, At
    <2>7. CASE CountByRater(r)
      BY <2>1, <2>7, GotoMoves, EndMoves DEF CountByRater, End, At, Pcs, Reads
    <2>8. CASE IsPremium(r)
      BY <2>1, <2>8, IsPremiumMoves DEF IsPremium, At
    <2>9. CASE GetSkipped(r)
      BY <2>1, <2>9, GetSkippedMoves DEF GetSkipped, At
    <2>10. CASE FindNext(r)
      <3>1. PICK o \in Owners \cup {Nobody} : Found(r, o)
        BY <2>10 DEF FindNext, Nearest, Matches, DefaultFeed, TypeOK
      <3> QED
        BY <2>1, <2>10, <3>1, FoundMoves DEF FindNext, At
    <2>11. CASE Show(r)
      BY <2>1, <2>11, EndMoves DEF Show, End, At
    <2> QED
      BY <1>2, <1>3, <1>4, <1>5, <2>2, <2>3, <2>4, <2>5, <2>6, <2>7, <2>8, <2>9, <2>10, <2>11
      DEF Handle, Search
  <1>6. CASE Tick
    BY <1>6 DEF Tick, At, TypeOK, PromisesKept, SkipsRunOut
  <1>7. CASE Moved /\ UNCHANGED feed
    BY <1>1, <1>7, MovedMoves DEF At
  <1>8. CASE Outside
    BY <1>1, <1>6, <1>7, <1>8
    DEF Outside, SetPreferences, ChangePremium, ChangeProfile, Regrade, ChangeVisibility, vars, At
  <1> QED
    BY <1>1, <1>5, <1>8 DEF Next, vars, At

-----------------------------------------------------------------------------
(* What a search knows of what is fit and of what is barred.               *)

\* The search has read the preferences.
Knows(r) == job[r].pc \in {"profile", "count", "grants", "skips", "find"}

\* Each read rules out the owners that its reason bars since the search began.
BarredAreRuledOut(r) ==
  \A b \in barred[r] :
    /\ b[1][1] \in Reasons
    /\ Knows(r) /\ b[1][1] = "gender" => ~HasGender(b[2], job[r].prefs.gender)
    /\ Knows(r) /\ b[1][1] = "average" => b[1][2] = job[r].prefs.min
    /\ job[r].pc \in {"skips", "find"} /\ b[1][1] = "average" => job[r].filter
    /\ job[r].pc \in {"grants", "skips", "find"} => b[1][1] # "quota"
    /\ job[r].pc = "find" /\ b[1][1] = "skipped" => b[2] \in job[r].skipped
    /\ job[r].pc = "show" => b[2] # job[r].to

\* The filters in force: what was read is what is, but for one change at most.
FilterIsFair(r) ==
  /\ Knows(r) /\ job[r].moved = 0 => prefs.min = job[r].prefs.min
  /\ job[r].pc \in {"skips", "find"} /\ job[r].filter =>
       job[r].prefs.min > 0 /\ (job[r].moved = 0 => premium)

\* No read rules out an owner that is fit since the search began.
GoodAreLetThrough(r) ==
  \A o \in good[r] :
    /\ Knows(r) => HasGender(o, job[r].prefs.gender)
    /\ /\ job[r].pc \in {"profile", "count", "grants"}
       /\ job[r].moved <= 1 /\ job[r].prefs.min > 0 /\ premium
       => AverageAtLeast(o, job[r].prefs.min)
    /\ job[r].pc \in {"skips", "find"} /\ job[r].moved <= 1 /\ job[r].filter =>
         AverageAtLeast(o, job[r].prefs.min)
    /\ job[r].pc = "find" => o \notin job[r].skipped
    /\ job[r].pc = "show" /\ job[r].moved <= 1 =>
         job[r].to # Nobody /\ Distance[job[r].to] <= Distance[o]

SearchInv(r) == BarredAreRuledOut(r) /\ FilterIsFair(r) /\ GoodAreLetThrough(r)

LEMMA NotSearching ==
  ASSUME Watch, NEW r \in Sessions, job'[r].pc \notin Reads
  PROVE  SearchInv(r)'
  <1>1. good'[r] = {} /\ barred'[r] = {}
    BY Watched DEF Searching, At
  <1> QED
    BY <1>1 DEF SearchInv, BarredAreRuledOut, FilterIsFair, GoodAreLetThrough, Knows, Reads

LEMMA OthersSearchOn ==
  ASSUME TypeOK, Watch, NEW r \in Sessions, SearchInv(r), job'[r] = job[r],
         UNCHANGED <<prefs, premium, average>>
  PROVE  SearchInv(r)'
  <1>1. CASE ~Searching(r)
    BY <1>1, NotSearching DEF Searching, At
  <1>2. CASE Searching(r)
    <2>1. good'[r] \subseteq good[r] /\ barred'[r] \subseteq barred[r]
      BY <1>2, Watched
    <2>2. BarredAreRuledOut(r)'
      BY <2>1 DEF SearchInv, BarredAreRuledOut, Knows, HasGender
    <2>3. FilterIsFair(r)'
      BY DEF SearchInv, FilterIsFair, Knows
    <2>4. GoodAreLetThrough(r)'
      BY <2>1 DEF SearchInv, GoodAreLetThrough, Knows, HasGender, AverageAtLeast
    <2> QED
      BY <2>2, <2>3, <2>4 DEF SearchInv
  <1> QED
    BY <1>1, <1>2

\* One change of what the filters are made of is one change of one of them.
LEMMA SearchMovesOn ==
  ASSUME TypeOK, Watch, Moved, NEW r \in Sessions, SearchInv(r),
         \/ UNCHANGED <<premium, average>>
         \/ UNCHANGED <<prefs, average>>
         \/ UNCHANGED <<prefs, premium>>
  PROVE  SearchInv(r)'
  <1>1. CASE ~Searching(r)
    BY <1>1, NotSearching, MovedMoves DEF Searching, At
  <1>2. CASE Searching(r)
    <2>1. /\ good'[r] \subseteq good[r] /\ barred'[r] \subseteq barred[r]
          /\ good'[r] \subseteq Fit'
      BY <1>2, Watched
    <2>2. /\ job'[r].pc = job[r].pc /\ job'[r].to = job[r].to
          /\ job'[r].prefs = job[r].prefs /\ job'[r].filter = job[r].filter
          /\ job'[r].skipped = job[r].skipped
          /\ job'[r].moved = job[r].moved + 1 /\ job[r].moved \in Nat
      BY <1>2, MovedMoves DEF TypeOK, Job
    <2>3. BarredAreRuledOut(r)'
      BY <2>1, <2>2 DEF SearchInv, BarredAreRuledOut, Knows, HasGender
    <2>4. FilterIsFair(r)'
      BY <2>2 DEF SearchInv, FilterIsFair, Knows
    <2>5. ASSUME NEW o \in good'[r], Knows(r), job'[r].moved <= 1, job[r].prefs.min > 0,
                 \/ job[r].pc \in {"profile", "count", "grants"} /\ premium'
                 \/ job[r].pc \in {"skips", "find"} /\ job[r].filter
          PROVE  AverageAtLeast(o, job[r].prefs.min)'
      <3>1. job[r].moved = 0
        BY <2>2, <2>5
      <3>2. prefs.min = job[r].prefs.min
        BY <2>5, <3>1 DEF SearchInv, FilterIsFair
      <3>3. ~Below(o)'
        BY <2>1 DEF Fit
      <3>4. o \in good[r] /\ job[r].moved <= 1
        BY <2>1, <2>5, <3>1
      <3>5. job[r].pc \in {"profile", "count", "grants"} /\ premium => AverageAtLeast(o, job[r].prefs.min)
        BY <2>5, <3>4 DEF SearchInv, GoodAreLetThrough
      <3>6. job[r].pc \in {"skips", "find"} /\ job[r].filter => AverageAtLeast(o, job[r].prefs.min)
        BY <2>5, <3>4 DEF SearchInv, GoodAreLetThrough
      <3>7. UNCHANGED average => AverageAtLeast(o, job[r].prefs.min)' = AverageAtLeast(o, job[r].prefs.min)
        BY <2>2 DEF AverageAtLeast
      <3>8. CASE UNCHANGED <<premium, average>>
        BY <2>5, <3>5, <3>6, <3>7, <3>8
      <3>9. CASE UNCHANGED <<prefs, average>>
        <4>1. CASE premium'
          BY <2>5, <3>2, <3>3, <3>9, <4>1, <2>2 DEF Below, AverageAtLeast
        <4>2. CASE ~premium'
          BY <2>5, <3>6, <3>7, <3>9, <4>2
        <4> QED
          BY <4>1, <4>2
      <3>10. CASE UNCHANGED <<prefs, premium>>
        <4>1. premium
          BY <2>5, <3>1, <3>10 DEF SearchInv, FilterIsFair
        <4> QED
          BY <2>5, <3>2, <3>3, <3>10, <4>1, <2>2 DEF Below, AverageAtLeast
      <3> QED
        BY <3>8, <3>9, <3>10
    <2>6. GoodAreLetThrough(r)'
      <3> SUFFICES ASSUME NEW o \in good'[r]
                   PROVE  /\ Knows(r)' => HasGender(o, job'[r].prefs.gender)
                          /\ /\ job'[r].pc \in {"profile", "count", "grants"}
                             /\ job'[r].moved <= 1 /\ job'[r].prefs.min > 0 /\ premium'
                             => AverageAtLeast(o, job[r].prefs.min)'
                          /\ /\ job'[r].pc \in {"skips", "find"}
                             /\ job'[r].moved <= 1 /\ job'[r].filter
                             => AverageAtLeast(o, job[r].prefs.min)'
                          /\ job'[r].pc = "find" => o \notin job'[r].skipped
                          /\ job'[r].pc = "show" /\ job'[r].moved <= 1 =>
                               job'[r].to # Nobody /\ Distance[job'[r].to] <= Distance[o]
        BY <2>2 DEF GoodAreLetThrough
      <3>1. o \in good[r]
        BY <2>1
      <3>2. Knows(r)' = Knows(r)
        BY <2>2 DEF Knows
      <3>3. job[r].pc \in {"skips", "find"} /\ job[r].filter => job[r].prefs.min > 0
        BY DEF SearchInv, FilterIsFair
      <3> QED
        BY <2>2, <2>5, <3>1, <3>2, <3>3 DEF SearchInv, GoodAreLetThrough, Knows, HasGender
    <2> QED
      BY <2>3, <2>4, <2>6 DEF SearchInv
  <1> QED
    BY <1>1, <1>2

-----------------------------------------------------------------------------
(* Each read of a search.                                                  *)

\* A search that goes on, and what it knows to be fit and barred after a step.
LEMMA SearchGoesOn ==
  ASSUME Watch, NEW r \in Sessions, Searching(r)
  PROVE  /\ good'[r] \subseteq good[r] /\ good'[r] \subseteq Fit'
         /\ barred'[r] \subseteq barred[r] /\ barred'[r] \subseteq Objections'
  BY Watched

LEMMA PreferencesRead ==
  ASSUME TypeOK, Watch, NEW r \in Sessions, SearchInv(r), ReadPreferences(r)
  PROVE  OthersKeep(r) /\ SearchInv(r)'
  <1>1. CASE prefs.located
    <2>1. /\ job'[r].pc = "profile" /\ job'[r].prefs = prefs /\ OthersKeep(r)
          /\ UNCHANGED <<prefs, premium, average>>
      BY <1>1, ReadPreferencesMoves DEF ReadPreferences, reading, outside, settings
    <2>2. Searching(r)
      BY DEF ReadPreferences, Searching, At, Reads
    <2>3. BarredAreRuledOut(r)'
      BY <2>1, <2>2, SearchGoesOn, ObjectionsHold DEF BarredAreRuledOut, Knows
    <2>4. FilterIsFair(r)'
      BY <2>1 DEF FilterIsFair
    <2>5. GoodAreLetThrough(r)'
      BY <2>1, <2>2, SearchGoesOn
      DEF GoodAreLetThrough, Fit, Below, HasGender, AverageAtLeast
    <2> QED
      BY <2>1, <2>3, <2>4, <2>5 DEF SearchInv
  <1>2. CASE ~prefs.located
    BY <1>2, EndMoves, NotSearching DEF ReadPreferences, End, Reads
  <1> QED
    BY <1>1, <1>2

\* The reads that leave what the search has read as it is.
LEMMA ReadOn ==
  ASSUME TypeOK, Watch, NEW r \in Sessions, SearchInv(r), NEW pc \in {"count", "grants"}, Goto(r, pc),
         job[r].pc \in {"profile", "count"},
         UNCHANGED <<prefs, premium, average>>,
         pc = "grants" => mine' \/ ~(Cardinality(rated') >= Quota)
  PROVE  OthersKeep(r) /\ SearchInv(r)'
  <1>1. /\ job'[r].pc = pc /\ job'[r].prefs = job[r].prefs /\ job'[r].moved = job[r].moved
        /\ OthersKeep(r)
    BY GotoMoves DEF Pcs, Reads
  <1>2. Searching(r) /\ Knows(r)
    BY DEF Searching, At, Knows, Reads
  <1>3. BarredAreRuledOut(r)'
    <2> SUFFICES ASSUME NEW b \in barred'[r]
                 PROVE  /\ b[1][1] \in Reasons
                        /\ b[1][1] = "gender" => ~HasGender(b[2], job[r].prefs.gender)
                        /\ b[1][1] = "average" => b[1][2] = job[r].prefs.min
                        /\ pc = "grants" => b[1][1] # "quota"
      BY <1>1 DEF BarredAreRuledOut, HasGender
    <2>1. b \in barred[r] /\ b \in Objections'
      BY <1>2, SearchGoesOn
    <2>2. b[1][1] = "quota" => ~mine' /\ Cardinality(rated') >= Quota
      BY <2>1, ObjectionsHold
    <2>3. pc = "grants" => b[1][1] # "quota"
      BY <2>2
    <2> QED
      BY <1>2, <2>1, <2>3 DEF SearchInv, BarredAreRuledOut
  <1>4. FilterIsFair(r)'
    BY <1>1, <1>2 DEF SearchInv, FilterIsFair
  <1>5. GoodAreLetThrough(r)'
    BY <1>1, <1>2, SearchGoesOn DEF SearchInv, GoodAreLetThrough, Knows, HasGender, AverageAtLeast
  <1> QED
    BY <1>1, <1>3, <1>4, <1>5 DEF SearchInv

LEMMA PremiumRead ==
  ASSUME TypeOK, Watch, NEW r \in Sessions, SearchInv(r), IsPremium(r)
  PROVE  OthersKeep(r) /\ SearchInv(r)'
  <1>1. /\ job'[r].pc = "skips" /\ job'[r].prefs = job[r].prefs
        /\ job'[r].filter = (job[r].prefs.min > 0 /\ premium)
        /\ job'[r].moved = job[r].moved /\ OthersKeep(r)
    BY IsPremiumMoves
  <1>2. job[r].pc = "grants" /\ UNCHANGED <<prefs, premium, average>>
    BY DEF IsPremium, At, reading, outside, settings
  <1>3. Searching(r) /\ Knows(r)
    BY <1>2 DEF Searching, At, Knows, Reads
  <1>4. BarredAreRuledOut(r)'
    <2> SUFFICES ASSUME NEW b \in barred'[r]
                 PROVE  /\ b[1][1] \in Reasons
                        /\ b[1][1] = "gender" => ~HasGender(b[2], job[r].prefs.gender)
                        /\ b[1][1] = "average" => b[1][2] = job[r].prefs.min /\ job'[r].filter
                        /\ b[1][1] # "quota"
      BY <1>1 DEF BarredAreRuledOut, HasGender
    <2>1. b \in barred[r] /\ b \in Objections'
      BY <1>3, SearchGoesOn
    <2>2. /\ b[1][1] \in Reasons /\ b[1][1] # "quota"
          /\ b[1][1] = "gender" => ~HasGender(b[2], job[r].prefs.gender)
          /\ b[1][1] = "average" => b[1][2] = job[r].prefs.min
      BY <1>2, <1>3, <2>1 DEF SearchInv, BarredAreRuledOut
    <2>3. b[1][1] = "average" => b[1][2] = prefs'.min /\ premium' /\ prefs'.min > 0
      BY <2>1, ObjectionsHold DEF Below
    <2> QED
      BY <1>1, <1>2, <2>2, <2>3
  <1>5. FilterIsFair(r)'
    BY <1>1, <1>2, <1>3 DEF SearchInv, FilterIsFair
  <1>6. GoodAreLetThrough(r)'
    BY <1>1, <1>2, <1>3, SearchGoesOn DEF SearchInv, GoodAreLetThrough, Knows, HasGender, AverageAtLeast
  <1> QED
    BY <1>1, <1>4, <1>5, <1>6 DEF SearchInv

LEMMA SkippedRead ==
  ASSUME TypeOK, PromisesKept, Watch, NEW r \in Sessions, SearchInv(r), GetSkipped(r)
  PROVE  OthersKeep(r) /\ SearchInv(r)'
  <1>1. /\ job'[r].pc = "find" /\ job'[r].prefs = job[r].prefs
        /\ job'[r].filter = job[r].filter /\ job'[r].skipped = Skipped
        /\ job'[r].moved = job[r].moved /\ OthersKeep(r)
    BY GetSkippedMoves
  <1>2. job[r].pc = "skips" /\ UNCHANGED <<prefs, premium, average, skips, clock, away>>
    BY DEF GetSkipped, At, reading, outside, settings
  <1>3. Searching(r) /\ Knows(r)
    BY <1>2 DEF Searching, At, Knows, Reads
  <1>4. BarredAreRuledOut(r)'
    <2> SUFFICES ASSUME NEW b \in barred'[r]
                 PROVE  /\ b[1][1] \in Reasons
                        /\ b[1][1] = "gender" => ~HasGender(b[2], job[r].prefs.gender)
                        /\ b[1][1] = "average" => b[1][2] = job[r].prefs.min /\ job[r].filter
                        /\ b[1][1] # "quota"
                        /\ b[1][1] = "skipped" => b[2] \in Skipped
      BY <1>1 DEF BarredAreRuledOut, HasGender
    <2>1. b \in barred[r] /\ b \in Objections'
      BY <1>3, SearchGoesOn
    <2>2. b[2] \in Owners
      BY <2>1 DEF TypeOK
    <2>3. b[1][1] = "skipped" => clock < away[b[2]]
      BY <1>2, <2>1, ObjectionsHold
    <2>4. b[1][1] = "skipped" => b[2] \in Skipped
      BY <2>2, <2>3, PromisedIsSkipped
    <2> QED
      BY <1>2, <1>3, <2>1, <2>4 DEF SearchInv, BarredAreRuledOut
  <1>5. FilterIsFair(r)'
    BY <1>1, <1>2, <1>3 DEF SearchInv, FilterIsFair
  <1>6. Skipped' = Skipped
    BY <1>2 DEF Skipped
  <1>7. GoodAreLetThrough(r)'
    BY <1>1, <1>2, <1>3, <1>6, SearchGoesOn
    DEF SearchInv, GoodAreLetThrough, Knows, HasGender, AverageAtLeast, Fit
  <1> QED
    BY <1>1, <1>4, <1>5, <1>7 DEF SearchInv

LEMMA ProfileFound ==
  ASSUME TypeOK, Watch, NEW r \in Sessions, SearchInv(r), FindNext(r)
  PROVE  OthersKeep(r) /\ SearchInv(r)'
  <1>1. job[r].pc = "find" /\ UNCHANGED <<visible, prefs, premium, average, rated, mine, clock, away>>
    BY DEF FindNext, At, reading, outside, settings
  <1>2. Searching(r) /\ Knows(r)
    BY <1>1 DEF Searching, At, Knows, Reads
  <1>3. PICK to \in Owners \cup {Nobody} :
          /\ Found(r, to)
          /\ to = Nobody => Matches(job[r]) = {}
          /\ to # Nobody => to \in Nearest(Matches(job[r]))
    BY DEF FindNext, Nearest, Matches, DefaultFeed, TypeOK
  <1>4. job'[r].pc = "show" /\ job'[r].to = to /\ job'[r].moved = job[r].moved /\ OthersKeep(r)
    BY <1>3, FoundMoves
  <1>5. ASSUME NEW b \in barred'[r]
        PROVE  b[1][1] \in Reasons /\ b[2] # to
    <2>1. b \in barred[r] /\ b \in Objections'
      BY <1>2, SearchGoesOn
    <2>2. b[2] \in Owners
      BY <2>1 DEF TypeOK
    <2>3. /\ b[1][1] \in Reasons /\ b[1][1] # "quota"
          /\ b[1][1] = "gender" => ~HasGender(b[2], job[r].prefs.gender)
          /\ b[1][1] = "average" => b[1][2] = job[r].prefs.min /\ job[r].filter
          /\ b[1][1] = "skipped" => b[2] \in job[r].skipped
      BY <1>1, <1>2, <2>1 DEF SearchInv, BarredAreRuledOut
    <2>4. /\ b[1][1] = "rated" => b[2] \in rated
          /\ b[1][1] = "hidden" => b[2] \notin visible
      BY <1>1, <2>1, ObjectionsHold
    <2>5. b[1][1] = "average" => ~AverageAtLeast(b[2], job[r].prefs.min)
      <3> SUFFICES ASSUME b[1][1] = "average"
                   PROVE  ~AverageAtLeast(b[2], job[r].prefs.min)
        OBVIOUS
      <3>1. b[1][2] = prefs'.min /\ Below(b[2])'
        BY <2>1, ObjectionsHold
      <3> QED
        BY <1>1, <2>3, <3>1 DEF Below, AverageAtLeast
    <2>6. b[2] \notin Matches(job[r])
      BY <2>3, <2>4, <2>5 DEF Matches, DefaultFeed, Reasons
    <2> QED
      BY <1>3, <2>2, <2>3, <2>6 DEF Nearest
  <1>6. BarredAreRuledOut(r)'
    BY <1>4, <1>5 DEF BarredAreRuledOut, Knows
  <1>7. FilterIsFair(r)'
    BY <1>4 DEF FilterIsFair, Knows
  <1>8. ASSUME NEW o \in good'[r], job[r].moved <= 1
        PROVE  to # Nobody /\ Distance[to] <= Distance[o]
    <2>1. o \in good[r] /\ o \in Fit'
      BY <1>2, SearchGoesOn
    <2>2. o \in DefaultFeed
      BY <1>1, <2>1 DEF Fit, DefaultFeed
    <2>3. o \in Matches(job[r])
      BY <1>1, <1>2, <1>8, <2>1, <2>2 DEF SearchInv, GoodAreLetThrough, Matches
    <2> QED
      BY <1>3, <2>3 DEF Nearest
  <1>9. GoodAreLetThrough(r)'
    BY <1>4, <1>8 DEF GoodAreLetThrough, Knows
  <1> QED
    BY <1>4, <1>6, <1>7, <1>9 DEF SearchInv

\* A handler that starts or ends, or whose search begins.
LEMMA HandleSearches ==
  ASSUME TypeOK, PromisesKept, Watch, NEW r \in Sessions, SearchInv(r), Handle(r)
  PROVE  OthersKeep(r) /\ SearchInv(r)' /\ UNCHANGED <<prefs, premium, average>>
  <1> USE DEF outside, settings, reading
  <1>1. ASSUME job'[r].pc = "prefs", ~Searching(r) PROVE SearchInv(r)'
    <2>1. barred'[r] \subseteq Objections'
      BY Watched
    <2>2. \A b \in barred'[r] : b[1][1] \in Reasons
      BY <2>1, ObjectionsHold
    <2> QED
      BY <1>1, <2>2 DEF SearchInv, BarredAreRuledOut, FilterIsFair, GoodAreLetThrough, Knows
  <1>2. CASE Ask(r)
    <2>1. ~Searching(r)
      BY <1>2 DEF Ask, Receives, Searching, At, Reads
    <2> QED
      BY <1>1, <1>2, <2>1, GotoMoves DEF Ask, Receives, Pcs, Reads
  <1>3. ASSUME NEW o \in Owners, Rate(r, o)
        PROVE  OthersKeep(r) /\ SearchInv(r)' /\ UNCHANGED <<prefs, premium, average>>
    <2>1. job' = [job EXCEPT ![r].pc = "strip", ![r].to = o] /\ UNCHANGED <<prefs, premium, average>>
      BY <1>3 DEF Rate
    <2>2. OthersKeep(r) /\ job'[r].pc \notin Reads
      BY <2>1, ToStripMoves DEF Reads
    <2> QED
      BY <2>1, <2>2, NotSearching
  <1>4. ASSUME NEW o \in Owners, Skip(r, o)
        PROVE  OthersKeep(r) /\ SearchInv(r)' /\ UNCHANGED <<prefs, premium, average>>
    <2>1. job' = [job EXCEPT ![r].pc = "expire", ![r].to = o] /\ UNCHANGED <<prefs, premium, average>>
      BY <1>4 DEF Skip
    <2>2. OthersKeep(r) /\ job'[r].pc \notin Reads
      BY <2>1, ToStripMoves DEF Reads
    <2> QED
      BY <2>1, <2>2, NotSearching
  <1>5. CASE Expire(r)
    <2>1. OthersKeep(r) /\ job'[r].pc \notin Reads
      BY <1>5, GotoMoves DEF Expire, Pcs, Reads
    <2> QED
      BY <1>5, <2>1, NotSearching DEF Expire
  <1>6. CASE Strip(r)
    <2>1. ~Searching(r)
      BY <1>6 DEF Strip, Searching, At, Reads
    <2> QED
      BY <1>1, <1>6, <2>1, StripMoves DEF Strip
  <1>7. CASE Die(r)
    <2>1. OthersKeep(r) /\ job'[r].pc \notin Reads
      BY <1>7, EndMoves DEF Die, Reads
    <2> QED
      BY <1>7, <2>1, NotSearching DEF Die
  <1>8. CASE ReadPreferences(r)
    BY <1>8, PreferencesRead DEF ReadPreferences
  <1>9. CASE ProfileExists(r)
    <2>1. /\ job[r].pc \in {"profile", "count"} /\ mine' = mine
          /\ UNCHANGED <<prefs, premium, average>>
      BY <1>9 DEF ProfileExists, At
    <2>2. CASE mine
      BY <1>9, <2>1, <2>2, ReadOn DEF ProfileExists
    <2>3. CASE ~mine
      BY <1>9, <2>1, <2>3, ReadOn DEF ProfileExists
    <2> QED
      BY <2>2, <2>3
  <1>10. CASE CountByRater(r)
    <2>1. /\ job[r].pc \in {"profile", "count"} /\ rated' = rated
          /\ UNCHANGED <<prefs, premium, average>>
      BY <1>10 DEF CountByRater, At
    <2>2. CASE Cardinality(rated) >= Quota
      <3>1. OthersKeep(r) /\ job'[r].pc \notin Reads
        BY <1>10, <2>2, EndMoves DEF CountByRater, End, Reads
      <3> QED
        BY <2>1, <3>1, NotSearching
    <2>3. CASE ~(Cardinality(rated) >= Quota)
      BY <1>10, <2>1, <2>3, ReadOn DEF CountByRater
    <2> QED
      BY <2>2, <2>3
  <1>11. CASE IsPremium(r)
    BY <1>11, PremiumRead DEF IsPremium
  <1>12. CASE GetSkipped(r)
    BY <1>12, SkippedRead DEF GetSkipped
  <1>13. CASE FindNext(r)
    BY <1>13, ProfileFound DEF FindNext
  <1>14. CASE Show(r)
    <2>1. OthersKeep(r) /\ job'[r].pc \notin Reads
      BY <1>14, EndMoves DEF Show, End, Reads
    <2> QED
      BY <1>14, <2>1, NotSearching DEF Show
  <1> QED
    BY <1>2, <1>3, <1>4, <1>5, <1>6, <1>7, <1>8, <1>9, <1>10, <1>11, <1>12, <1>13, <1>14
    DEF Handle, Search

-----------------------------------------------------------------------------
(* The invariant and the theorems.                                         *)

IInv ==
  /\ TypeOK
  /\ PromisesKept
  /\ SkipsRunOut
  /\ \A r \in Sessions : SearchInv(r)

LEMMA Starts == Init => IInv
  <1> SUFFICES ASSUME Init PROVE IInv
    OBVIOUS
  <1>1. PromisesKept /\ SkipsRunOut
    BY DEF Init, PromisesKept, SkipsRunOut
  <1>2. ASSUME NEW r \in Sessions PROVE SearchInv(r)
    <2>1. job[r].pc = "idle" /\ good[r] = {} /\ barred[r] = {}
      BY IdleIsJob, NewPreferencesTyped DEF Init
    <2> QED
      BY <2>1 DEF SearchInv, BarredAreRuledOut, FilterIsFair, GoodAreLetThrough, Knows
  <1> QED
    BY <1>1, <1>2, TypeStarts DEF IInv

LEMMA SearchesGoOn ==
  ASSUME IInv, Next, NEW v \in Sessions
  PROVE  SearchInv(v)'
  <1> USE DEF IInv
  <1>1. Watch
    BY DEF Next
  <1>2. CASE \E r \in Sessions : Handle(r)
    <2> PICK r \in Sessions : Handle(r)
      BY <1>2
    <2>1. OthersKeep(r) /\ SearchInv(r)' /\ UNCHANGED <<prefs, premium, average>>
      BY <1>1, HandleSearches
    <2> QED
      BY <1>1, <2>1, OthersSearchOn DEF OthersKeep
  <1>3. CASE Outside
    <2>1. CASE job' = job /\ UNCHANGED <<prefs, premium, average>>
      BY <1>1, <2>1, OthersSearchOn
    <2>2. CASE SetPreferences
      BY <1>1, <2>2, SearchMovesOn DEF SetPreferences
    <2>3. CASE ChangePremium
      BY <1>1, <2>3, SearchMovesOn DEF ChangePremium
    <2>4. ASSUME NEW o \in Owners, Regrade(o) PROVE SearchInv(v)'
      BY <1>1, <2>4, SearchMovesOn DEF Regrade
    <2> QED
      BY <1>3, <2>1, <2>2, <2>3, <2>4
      DEF Outside, ChangeProfile, ChangeVisibility, Tick, vars, settings, feed
  <1> QED
    BY <1>2, <1>3 DEF Next

LEMMA Kept == IInv /\ [Next]_vars => IInv'
  <1> SUFFICES ASSUME IInv, [Next]_vars PROVE IInv'
    OBVIOUS
  <1>1. TypeOK' /\ PromisesKept' /\ SkipsRunOut'
    BY TypeKept, SkipsKept DEF IInv
  <1>2. ASSUME NEW r \in Sessions PROVE SearchInv(r)'
    <2>1. CASE Next
      BY <2>1, SearchesGoOn
    <2>2. CASE UNCHANGED vars
      BY <2>2 DEF IInv, vars, settings, SearchInv, BarredAreRuledOut, FilterIsFair,
        GoodAreLetThrough, Knows, HasGender, AverageAtLeast
    <2> QED
      BY <2>1, <2>2
  <1> QED
    BY <1>1, <1>2 DEF IInv

LEMMA Invariant == Spec => []IInv
  BY Starts, Kept, PTL DEF Spec

\* Tables, the registry of skips, the sessions and what is watched keep their
\* types, whatever the handlers, the administrator and time do in between.
THEOREM TypeCorrect == Spec => []TypeOK
  <1>1. IInv => TypeOK
    BY DEF IInv
  <1> QED
    BY <1>1, Invariant, PTL

\* RedisSkipRegistry.skip: a key without a time to live is being given one, or
\* its session has died between SADD and EXPIRE.
THEOREM SkipsExpire == Spec => []SkipsRunOut
  <1>1. IInv => SkipsRunOut
    BY DEF IInv
  <1> QED
    BY <1>1, Invariant, PTL

\* GetNextProfileForRatingUseCase: no owner is shown against whom one objection
\* held from the first read to the message.
THEOREM ShownHadNoObjection == Spec => ShownWasWanted
  <1>1. IInv /\ [Next]_vars => [ShowsTheWanted]_vars
    BY DEF IInv, ShowsTheWanted, SearchInv, BarredAreRuledOut, At
  <1> QED
    BY <1>1, Invariant, PTL DEF Spec, ShownWasWanted

\* GetNextProfileForRatingUseCase: an owner that was fit all along is passed over
\* for nobody further away, if the filters changed once at most.
THEOREM NearestComesFirst == Spec => NearestFirst
  <1>1. IInv /\ [Next]_vars => [ShowsTheNearest]_vars
    BY DEF IInv, ShowsTheNearest, SearchInv, GoodAreLetThrough, At
  <1> QED
    BY <1>1, Invariant, PTL DEF Spec, NearestFirst

=============================================================================
