-------------------------- MODULE RegistrationProofs --------------------------
(***************************************************************************)
(* Proofs about Registration, and about it with the record of the rewards  *)
(* that overlapped, for any number of people, tags and sessions, any       *)
(* milestone interval, with and without an administrator and failures.     *)
(***************************************************************************)
EXTENDS RegistrationHistory, FiniteSetTheorems, TLAPS

(***************************************************************************)
(* The inductive invariant: the properties, with what the open sessions    *)
(* know of the tables.                                                     *)
(***************************************************************************)

\* Where a session has inserted its user, and where its profile.
New == {"source", "register"}

Owner == {"reward", "mark", "referrer", "count", "commit"}

\* The referrer a session has found is the person of the code.
KnowsReferrer(j) ==
  IF j.code \in People
  THEN j.referrer \in DOMAIN user /\ user[j.referrer].person = j.code
  ELSE j.referrer = NoUser

\* The session holds a pending referral and knows who made it.
IsPaying(j) == IsPending(j.id) /\ j.referrer = source[acquisition[j.id].code]

Registers(j) ==
  /\ j.pc = "resolve" => j.op = "start" /\ j.code \in People /\ j.referrer = NoUser
  /\ j.pc \in {"resolve", "user"} => j.id = NoUser
  /\ j.pc \in {"resolve", "user", "source"} => j.wrote = {}
  /\ j.pc \in {"user"} \cup New =>
       KnowsReferrer(j) /\ (j.op = "create" => j.code = NoCode)
  /\ j.pc \in New => j.id \in Ids \ DOMAIN user /\ AccountsOf(j.person) = {}
  /\ j.pc = "source" => j.code \in Codes
  /\ j.pc = "register" =>
       IF j.code = NoCode THEN j.wrote = {}
       ELSE j.wrote = {"source"} \/ (j.wrote = {} /\ j.code \in DOMAIN source)

Creates(j) ==
  /\ j.pc \in {"exists", "profile"} \cup Owner =>
       j.op = "create" /\ j.id \in DOMAIN user /\ j.code = NoCode
  /\ j.pc \in {"exists", "profile", "reward", "mark"} => j.wrote = {}
  /\ j.pc \in {"mark", "referrer", "count"} => IsPaying(j)
  /\ j.pc = "referrer" => j.wrote = {"rewarded"}
  /\ j.pc = "count" => j.wrote = {"rewarded", "referrer"}
  /\ j.pc = "commit" =>
       \/ j.wrote = {} /\ ~IsPending(j.id)
       \/ /\ IsPaying(j)
          /\ "rewarded" \in j.wrote
          /\ ~Admin => "referrer" \in j.wrote
          /\ "milestone" \in j.wrote => "referrer" \in j.wrote

JobOK(j) ==
  /\ j.pc = "idle" => j = Idle
  /\ j.pc # "idle" => j.op # "idle" /\ j.person \in People
  /\ Registers(j)
  /\ Creates(j)

\* The unique keys keep two sessions from inserting the same.
Apart(j, k) ==
  /\ j.pc \in New /\ k.pc \in New => j.person # k.person /\ j.id # k.id
  /\ j.pc \in Owner /\ k.pc \in Owner => j.id # k.id

JobsOK ==
  /\ \A s \in Sessions : JobOK(job[s])
  /\ \A r, s \in Sessions : r # s => Apart(job[r], job[s])

TablesOK ==
  /\ RegisteredOnce
  /\ SourcesAreWho
  /\ ProfileMeansRewarded
  /\ PaidOnce
  /\ IsFiniteSet(DOMAIN acquisition)
  /\ ~Admin => \A id \in DOMAIN user : ~user[id].banned

IInv == TypeOK /\ JobsOK /\ TablesOK

-----------------------------------------------------------------------------
(* Steps that leave the tables alone.                                      *)

LEMMA IdleShape ==
  /\ Idle \in Job
  /\ Idle.pc = "idle" /\ Idle.op = "idle" /\ Idle.id = NoUser /\ Idle.wrote = {}
  BY DEF Idle, Request, Job

LEMMA InitKeeps == Init => IInv
<1>. SUFFICES ASSUME Init PROVE IInv
  OBVIOUS
<1>1. /\ DOMAIN user = {} /\ DOMAIN source = {} /\ DOMAIN acquisition = {}
      /\ DOMAIN bonus = {} /\ profile = {}
  BY DEF Init
<1>2. TypeOK
  BY <1>1, IdleShape DEF Init, TypeOK
<1>3. JobsOK
  BY IdleShape DEF Init, JobsOK, JobOK, Registers, Creates, Apart, New, Owner
<1>4. TablesOK
  BY <1>1, FS_EmptySet
     DEF TablesOK, RegisteredOnce, SourcesAreWho, ProfileMeansRewarded, PaidOnce
<1>. QED
  BY <1>2, <1>3, <1>4 DEF IInv

LEMMA ApartIsMutual ==
  ASSUME NEW j, NEW k, Apart(j, k)
  PROVE  Apart(k, j)
  BY DEF Apart

\* What a session knows of the tables, and the properties of the tables, do
\* not change with the job of another.
LEMMA JobStep ==
  ASSUME IInv, NEW s \in Sessions, NEW j \in Job,
         job' = [job EXCEPT ![s] = j], UNCHANGED tables,
         JobOK(j), \A r \in Sessions \ {s} : Apart(job[r], j)
  PROVE  IInv'
<1>1. TypeOK'
  BY DEF IInv, TypeOK, tables
<1>2. TablesOK'
  BY DEF IInv, TablesOK, tables, RegisteredOnce, SourcesAreWho,
         ProfileMeansRewarded, PaidOnce, RewardedBy, IsReferral
<1>3. \A r \in Sessions : job'[r] = IF r = s THEN j ELSE job[r]
  BY DEF IInv, TypeOK
<1>4. ASSUME NEW r \in Sessions
      PROVE  JobOK(job[r])'
  <2>. DEFINE k == IF r = s THEN j ELSE job[r]
  <2>1. JobOK(k) /\ k = job'[r]
    BY <1>3 DEF IInv, JobsOK
  <2>. HIDE DEF k
  <2>. QED
    BY <2>1 DEF tables, JobOK, Registers, Creates, KnowsReferrer, IsPaying,
                IsPending, IsReferral, AccountsOf
<1>5. \A q, r \in Sessions : q # r => Apart(job'[q], job'[r])
  BY <1>3, ApartIsMutual DEF IInv, JobsOK
<1>6. \A q, r \in Sessions : q # r => Apart(job[q], job[r])'
  BY <1>5 DEF Apart
<1>7. JobsOK'
  BY <1>4, <1>6 DEF JobsOK
<1>. QED
  BY <1>1, <1>2, <1>7 DEF IInv

LEMMA EndKeeps ==
  ASSUME IInv, NEW s \in Sessions, End(s), UNCHANGED tables
  PROVE  IInv'
<1>1. JobOK(Idle) /\ \A r \in Sessions : Apart(job[r], Idle)
  BY IdleShape DEF JobOK, Registers, Creates, Apart, New, Owner
<1>. QED
  BY <1>1, JobStep, IdleShape DEF End

LEMMA StartKeeps ==
  ASSUME IInv, NEW s \in Sessions, NEW p \in People,
         NEW payload \in Codes \cup {NoCode}, Start(s, p, payload)
  PROVE  IInv'
<1>. DEFINE code == IF payload = p THEN NoCode ELSE payload
            j == Request("start", IF code \in People THEN "resolve" ELSE "user",
                         p, code, NoUser)
<1>1. job' = [job EXCEPT ![s] = j] /\ UNCHANGED tables
  BY DEF Start, Begin
<1>2. /\ j \in Job /\ j.op = "start" /\ j.person = p /\ j.id = NoUser /\ j.wrote = {}
      /\ j.code \in Codes \cup {NoCode} /\ j.referrer = NoUser
      /\ j.pc = IF j.code \in People THEN "resolve" ELSE "user"
  BY DEF Request, Job
<1>. HIDE DEF j
<1>3. JobOK(j) /\ \A r \in Sessions : Apart(job[r], j)
  BY <1>2 DEF JobOK, Registers, Creates, Apart, New, Owner, KnowsReferrer
<1>. QED
  BY <1>1, <1>2, <1>3, JobStep

LEMMA CreateKeeps ==
  ASSUME IInv, NEW s \in Sessions, NEW p \in People, Create(s, p)
  PROVE  IInv'
<1>1. PICK pc \in {"user", "exists"}, id \in Ids \cup {NoUser} :
        /\ job' = [job EXCEPT ![s] = Request("create", pc, p, NoCode, id)]
        /\ pc = "user" => id = NoUser
        /\ pc = "exists" => id \in DOMAIN user
  BY DEF Create, Begin, AccountsOf, IInv, TypeOK
<1>. DEFINE j == Request("create", pc, p, NoCode, id)
<1>2. /\ j \in Job /\ j.op = "create" /\ j.person = p /\ j.id = id /\ j.wrote = {}
      /\ j.code = NoCode /\ j.referrer = NoUser /\ j.pc = pc
  BY DEF Request, Job
<1>. HIDE DEF j
<1>3. JobOK(j) /\ \A r \in Sessions : Apart(job[r], j)
  BY <1>1, <1>2, NullsAreNotValues
     DEF JobOK, Registers, Creates, Apart, New, Owner, KnowsReferrer
<1>4. UNCHANGED tables
  BY DEF Create
<1>. QED
  BY <1>1, <1>2, <1>3, <1>4, JobStep DEF j

\* What a step makes of its session's job when it goes on.
GoesOn(s, j, pc, id, code, referrer, wrote) ==
  /\ j \in Job
  /\ job' = [job EXCEPT ![s] = j]
  /\ j.op = job[s].op /\ j.person = job[s].person
  /\ j.pc = pc /\ j.id = id /\ j.code = code /\ j.referrer = referrer
  /\ j.wrote = wrote

Pcs == {"idle", "resolve", "user", "source", "register",
        "exists", "profile", "reward", "mark", "referrer", "count", "commit"}

Writes == {"source", "rewarded", "referrer", "milestone"}

\* The fields of a job, one by one.
Fields(j, pc, id, code, referrer, wrote) ==
  [op |-> j.op, pc |-> pc, person |-> j.person, code |-> code, id |-> id,
   referrer |-> referrer, wrote |-> wrote]

LEMMA FullUpdate ==
  ASSUME TypeOK, NEW s \in Sessions, NEW pc \in Pcs,
         NEW id \in Ids \cup {NoUser}, NEW code \in Codes \cup {NoCode},
         NEW referrer \in Ids \cup {NoUser}, NEW wrote \in SUBSET Writes,
         job' = [job EXCEPT ![s] = Fields(job[s], pc, id, code, referrer, wrote)]
  PROVE  \E j : GoesOn(s, j, pc, id, code, referrer, wrote)
<1>. DEFINE j == Fields(job[s], pc, id, code, referrer, wrote)
<1>1. job[s] \in Job
  BY DEF TypeOK
<1>2. GoesOn(s, j, pc, id, code, referrer, wrote)
  BY <1>1 DEF Fields, Job, Pcs, Writes, GoesOn
<1>. QED
  BY <1>2

LEMMA GotoGoesOn ==
  ASSUME TypeOK, NEW s \in Sessions, NEW pc \in Pcs, Goto(s, pc)
  PROVE  \E j : GoesOn(s, j, pc, job[s].id, job[s].code, job[s].referrer,
                       job[s].wrote)
<1>1. job[s] \in Job
  BY DEF TypeOK
<1>2. [job[s] EXCEPT !.pc = pc] =
        Fields(job[s], pc, job[s].id, job[s].code, job[s].referrer, job[s].wrote)
  BY <1>1 DEF Job, Fields
<1>3. job' = [job EXCEPT ![s] = [job[s] EXCEPT !.pc = pc]]
  BY DEF Goto
<1>. QED
  BY <1>1, <1>2, <1>3, FullUpdate DEF Job, Writes

\* An update of two fields gives the job that has all the fields of the old
\* one but these.
LEMMA SetsReferrer ==
  ASSUME TypeOK, NEW s \in Sessions, NEW pc, NEW x,
         job' = [job EXCEPT ![s].pc = pc, ![s].referrer = x]
  PROVE  job' = [job EXCEPT ![s] = Fields(job[s], pc, job[s].id, job[s].code, x, job[s].wrote)]
<1>. DEFINE j == job[s]
            new == job'[s]
<1>1. job = [r \in Sessions |-> job[r]]
  BY DEF TypeOK
<1>2. job' = [job EXCEPT ![s] = new] /\ new = [j EXCEPT !.pc = pc, !.referrer = x]
  BY <1>1
<1>3. DOMAIN j = {"op", "pc", "person", "code", "id", "referrer", "wrote"}
  BY DEF TypeOK, Job
<1>. HIDE DEF j, new
<1>4. new = Fields(j, pc, j.id, j.code, x, j.wrote)
  BY <1>2, <1>3 DEF Fields
<1>. QED
  BY <1>2, <1>4 DEF j

LEMMA SetsCode ==
  ASSUME TypeOK, NEW s \in Sessions, NEW pc, NEW x,
         job' = [job EXCEPT ![s].pc = pc, ![s].code = x]
  PROVE  job' = [job EXCEPT ![s] = Fields(job[s], pc, job[s].id, x, job[s].referrer, job[s].wrote)]
<1>. DEFINE j == job[s]
            new == job'[s]
<1>1. job = [r \in Sessions |-> job[r]]
  BY DEF TypeOK
<1>2. job' = [job EXCEPT ![s] = new] /\ new = [j EXCEPT !.pc = pc, !.code = x]
  BY <1>1
<1>3. DOMAIN j = {"op", "pc", "person", "code", "id", "referrer", "wrote"}
  BY DEF TypeOK, Job
<1>. HIDE DEF j, new
<1>4. new = Fields(j, pc, j.id, x, j.referrer, j.wrote)
  BY <1>2, <1>3 DEF Fields
<1>. QED
  BY <1>2, <1>4 DEF j

LEMMA SetsWrote ==
  ASSUME TypeOK, NEW s \in Sessions, NEW pc, NEW x \in SUBSET Writes,
         job' = [job EXCEPT ![s].pc = pc, ![s].wrote = x]
  PROVE  job' = [job EXCEPT ![s] = Fields(job[s], pc, job[s].id, job[s].code, job[s].referrer, x)]
<1>. DEFINE j == job[s]
            new == job'[s]
<1>1. job = [r \in Sessions |-> job[r]]
  BY DEF TypeOK
<1>2. job' = [job EXCEPT ![s] = new] /\ new = [j EXCEPT !.pc = pc, !.wrote = x]
  BY <1>1
<1>3. DOMAIN j = {"op", "pc", "person", "code", "id", "referrer", "wrote"}
  BY DEF TypeOK, Job
<1>. HIDE DEF j, new
<1>4. new = Fields(j, pc, j.id, j.code, j.referrer, x)
  BY <1>2, <1>3 DEF Fields
<1>. QED
  BY <1>2, <1>4 DEF j

LEMMA SetsId ==
  ASSUME TypeOK, NEW s \in Sessions, NEW pc, NEW x,
         job' = [job EXCEPT ![s].id = x, ![s].pc = pc]
  PROVE  job' = [job EXCEPT ![s] = Fields(job[s], pc, x, job[s].code, job[s].referrer, job[s].wrote)]
<1>. DEFINE j == job[s]
            new == job'[s]
<1>1. job = [r \in Sessions |-> job[r]]
  BY DEF TypeOK
<1>2. job' = [job EXCEPT ![s] = new] /\ new = [j EXCEPT !.id = x, !.pc = pc]
  BY <1>1
<1>3. DOMAIN j = {"op", "pc", "person", "code", "id", "referrer", "wrote"}
  BY DEF TypeOK, Job
<1>. HIDE DEF j, new
<1>4. new = Fields(j, pc, x, j.code, j.referrer, j.wrote)
  BY <1>2, <1>3 DEF Fields
<1>. QED
  BY <1>2, <1>4 DEF j

LEMMA Writing ==
  ASSUME TypeOK, NEW s \in Sessions, NEW pc \in Pcs, NEW wrote \in SUBSET Writes,
         job' = [job EXCEPT ![s].pc = pc, ![s].wrote = wrote]
  PROVE  \E j : GoesOn(s, j, pc, job[s].id, job[s].code, job[s].referrer, wrote)
<1>1. /\ job[s].id \in Ids \cup {NoUser} /\ job[s].code \in Codes \cup {NoCode}
      /\ job[s].referrer \in Ids \cup {NoUser}
  BY DEF TypeOK, Job
<1>2. job' = [job EXCEPT ![s] = Fields(job[s], pc, job[s].id, job[s].code,
                                       job[s].referrer, wrote)]
  BY SetsWrote
<1>. QED
  BY <1>1, <1>2, FullUpdate

LEMMA ResolveKeeps ==
  ASSUME IInv, NEW s \in Sessions, Resolve(s)
  PROVE  IInv'
<1>1. job[s] \in Job /\ JobOK(job[s]) /\ job[s].pc = "resolve"
  BY DEF IInv, TypeOK, JobsOK, Resolve, At
<1>2. PICK j, code, referrer :
        /\ GoesOn(s, j, "user", job[s].id, code, referrer, job[s].wrote)
        /\ \/ code = job[s].code /\ referrer \in AccountsOf(job[s].code)
           \/ code = NoCode /\ referrer = job[s].referrer
  <2>1. CASE \E r \in AccountsOf(job[s].code) :
               job' = [job EXCEPT ![s].pc = "user", ![s].referrer = r]
    <3>1. PICK r \in AccountsOf(job[s].code) :
            job' = [job EXCEPT ![s].pc = "user", ![s].referrer = r]
      BY <2>1
    <3>2. job' = [job EXCEPT ![s] = Fields(job[s], "user", job[s].id, job[s].code,
                                           r, job[s].wrote)]
      BY <3>1, SetsReferrer DEF IInv
    <3>3. r \in Ids
      BY DEF IInv, TypeOK, AccountsOf
    <3>. QED
      BY <1>1, <3>2, <3>3, FullUpdate DEF Pcs, Writes, Job, IInv
  <2>2. CASE job' = [job EXCEPT ![s].pc = "user", ![s].code = NoCode]
    <3>1. job' = [job EXCEPT ![s] = Fields(job[s], "user", job[s].id, NoCode,
                                           job[s].referrer, job[s].wrote)]
      BY <2>2, SetsCode DEF IInv
    <3>. QED
      BY <1>1, <3>1, FullUpdate DEF Pcs, Writes, Job, IInv
  <2>. QED
    BY <2>1, <2>2 DEF Resolve
<1>3. JobOK(j) /\ \A r \in Sessions : Apart(job[r], j)
  BY <1>1, <1>2, NullsAreNotValues
     DEF GoesOn, JobOK, Registers, Creates, KnowsReferrer, AccountsOf, Apart, New, Owner
<1>. QED
  BY <1>2, <1>3, JobStep DEF GoesOn, Resolve

LEMMA InsertUserKeeps ==
  ASSUME IInv, NEW s \in Sessions, NEW id \in Ids, InsertUser(s, id)
  PROVE  IInv'
<1>1. job[s] \in Job /\ JobOK(job[s]) /\ job[s].pc = "user"
  BY DEF IInv, TypeOK, JobsOK, InsertUser, At
<1>. DEFINE pc == IF job[s].code = NoCode THEN "register" ELSE "source"
<1>2. PICK j : GoesOn(s, j, pc, id, job[s].code, job[s].referrer, job[s].wrote)
  <2>1. job' = [job EXCEPT ![s] = Fields(job[s], pc, id, job[s].code,
                                         job[s].referrer, job[s].wrote)]
    BY SetsId DEF InsertUser, IInv
  <2>. QED
    BY <1>1, <2>1, FullUpdate DEF Pcs, Writes, Job, IInv
<1>3. JobOK(j)
  BY <1>1, <1>2, NullsAreNotValues
     DEF InsertUser, PersonIsFree, Fresh, GoesOn, JobOK, Registers, Creates,
         KnowsReferrer, New, Owner, Job
<1>4. \A r \in Sessions \ {s} : Apart(job[r], j)
  BY <1>1, <1>2 DEF InsertUser, PersonBusy, Fresh, GoesOn, Apart, New, Owner
<1>. QED
  BY <1>2, <1>3, <1>4, JobStep DEF GoesOn, InsertUser

LEMMA AddSourceKeeps ==
  ASSUME IInv, NEW s \in Sessions, AddSource(s)
  PROVE  IInv'
<1>1. job[s] \in Job /\ JobOK(job[s]) /\ job[s].pc = "source"
  BY DEF IInv, TypeOK, JobsOK, AddSource, At
<1>. DEFINE wrote == IF job[s].code \in DOMAIN source THEN {} ELSE {"source"}
<1>2. PICK j : GoesOn(s, j, "register", job[s].id, job[s].code, job[s].referrer, wrote)
  <2>1. wrote \in SUBSET Writes /\ "register" \in Pcs
    BY DEF Writes, Pcs
  <2>2. job' = [job EXCEPT ![s].pc = "register", ![s].wrote = wrote]
    BY DEF AddSource
  <2>. HIDE DEF wrote
  <2>. QED
    BY <2>1, <2>2, Writing DEF IInv
<1>3. JobOK(j)
  BY <1>1, <1>2, NullsAreNotValues
     DEF GoesOn, JobOK, Registers, Creates, KnowsReferrer, New, Owner, Codes
<1>4. \A r \in Sessions \ {s} : Apart(job[r], j)
  BY <1>1, <1>2 DEF IInv, JobsOK, GoesOn, Apart, New, Owner
<1>. QED
  BY <1>2, <1>3, <1>4, JobStep DEF GoesOn, AddSource

LEMMA CheckExistsKeeps ==
  ASSUME IInv, NEW s \in Sessions, CheckExists(s)
  PROVE  IInv'
<1>1. JobOK(job[s]) /\ job[s].pc = "exists" /\ UNCHANGED tables
  BY DEF IInv, JobsOK, CheckExists, At
<1>2. CASE End(s)
  BY <1>1, <1>2, EndKeeps
<1>3. CASE Goto(s, "profile")
  <2>1. PICK j : GoesOn(s, j, "profile", job[s].id, job[s].code, job[s].referrer,
                        job[s].wrote)
    BY <1>3, GotoGoesOn DEF Pcs, IInv
  <2>2. JobOK(j) /\ \A r \in Sessions : Apart(job[r], j)
    BY <1>1, <2>1 DEF GoesOn, JobOK, Registers, Creates, Apart, New, Owner
  <2>. QED
    BY <1>1, <2>1, <2>2, JobStep DEF GoesOn
<1>. QED
  BY <1>2, <1>3 DEF CheckExists

LEMMA InsertProfileKeeps ==
  ASSUME IInv, NEW s \in Sessions, InsertProfile(s)
  PROVE  IInv'
<1>1. JobOK(job[s]) /\ job[s].pc = "profile" /\ UNCHANGED tables
  BY DEF IInv, JobsOK, InsertProfile, At
<1>2. PICK j : GoesOn(s, j, "reward", job[s].id, job[s].code, job[s].referrer,
                      job[s].wrote)
  BY GotoGoesOn DEF InsertProfile, Pcs, IInv
<1>3. JobOK(j)
  BY <1>1, <1>2 DEF GoesOn, JobOK, Registers, Creates, New, Owner
<1>4. \A r \in Sessions \ {s} : Apart(job[r], j)
  BY <1>1, <1>2 DEF InsertProfile, OwnerBusy, GoesOn, Apart, New, Owner
<1>. QED
  BY <1>1, <1>2, <1>3, <1>4, JobStep DEF GoesOn

\* The owner of the profile is held from its insertion to the commit.
LEMMA OwnerStays ==
  ASSUME IInv, NEW s \in Sessions, job[s].pc \in Owner, NEW j, NEW pc \in Owner,
         NEW referrer, NEW wrote,
         GoesOn(s, j, pc, job[s].id, job[s].code, referrer, wrote),
         JobOK(j), UNCHANGED tables
  PROVE  IInv'
<1>1. \A r \in Sessions \ {s} : Apart(job[r], j)
  BY DEF IInv, JobsOK, GoesOn, Apart, New, Owner
<1>. QED
  BY <1>1, JobStep DEF GoesOn

LEMMA FindReferralKeeps ==
  ASSUME IInv, NEW s \in Sessions, FindReferral(s)
  PROVE  IInv'
<1>1. /\ job[s] \in Job /\ JobOK(job[s]) /\ job[s].pc = "reward"
      /\ UNCHANGED tables
  BY DEF IInv, TypeOK, JobsOK, FindReferral, At
<1>2. CASE IsPending(job[s].id)
  <2>. DEFINE referrer == source[acquisition[job[s].id].code]
  <2>1. referrer \in Ids
    BY <1>2 DEF IInv, TypeOK, TablesOK, SourcesAreWho, IsPending, IsReferral
  <2>2. job' = [job EXCEPT ![s] = Fields(job[s], "mark", job[s].id, job[s].code,
                                         referrer, job[s].wrote)]
    BY <1>2, SetsReferrer DEF FindReferral, IInv
  <2>3. PICK j : GoesOn(s, j, "mark", job[s].id, job[s].code, referrer, job[s].wrote)
    BY <1>1, <2>1, <2>2, FullUpdate DEF Pcs, Writes, Job, IInv
  <2>4. JobOK(j)
    BY <1>1, <1>2, <2>3 DEF GoesOn, JobOK, Registers, Creates, IsPaying, New, Owner
  <2>. QED
    BY <1>1, <2>3, <2>4, OwnerStays DEF Owner
<1>3. CASE ~IsPending(job[s].id)
  <2>1. PICK j : GoesOn(s, j, "commit", job[s].id, job[s].code, job[s].referrer,
                        job[s].wrote)
    BY <1>3, GotoGoesOn DEF FindReferral, Pcs, IInv
  <2>2. JobOK(j)
    BY <1>1, <1>3, <2>1 DEF GoesOn, JobOK, Registers, Creates, New, Owner
  <2>. QED
    BY <1>1, <2>1, <2>2, OwnerStays DEF Owner
<1>. QED
  BY <1>2, <1>3

\* Writes on the way to the commit.
LEMMA Pays ==
  ASSUME IInv, NEW s \in Sessions, job[s].pc \in {"mark", "referrer", "count"},
         NEW pc, pc \in {"referrer", "count", "commit"}, NEW wrote \in SUBSET Writes,
         pc = "referrer" => wrote = {"rewarded"},
         pc = "count" => wrote = {"rewarded", "referrer"},
         pc = "commit" => /\ "rewarded" \in wrote
                          /\ ~Admin => "referrer" \in wrote
                          /\ "milestone" \in wrote => "referrer" \in wrote,
         NEW j,
         GoesOn(s, j, pc, job[s].id, job[s].code, job[s].referrer, wrote),
         UNCHANGED tables
  PROVE  IInv'
<1>1. JobOK(job[s])
  BY DEF IInv, JobsOK
<1>2. JobOK(j)
  BY <1>1 DEF GoesOn, JobOK, Registers, Creates, IsPaying, New, Owner
<1>. QED
  BY <1>2, OwnerStays DEF Owner

LEMMA MarkKeeps ==
  ASSUME IInv, NEW s \in Sessions, Mark(s)
  PROVE  IInv'
<1>. DEFINE wrote == {"rewarded"}
<1>1. job[s].pc = "mark" /\ job[s].wrote = {} /\ wrote \in SUBSET Writes
  BY DEF IInv, JobsOK, JobOK, Creates, Mark, At, Writes
<1>2. job[s].wrote \cup {"rewarded"} = wrote
  BY <1>1
<1>. HIDE DEF wrote
<1>3. job' = [job EXCEPT ![s].pc = "referrer", ![s].wrote = wrote]
  BY <1>2 DEF Mark
<1>4. PICK j : GoesOn(s, j, "referrer", job[s].id, job[s].code, job[s].referrer, wrote)
  BY <1>1, <1>3, Writing DEF Pcs, IInv
<1>. QED
  BY <1>1, <1>4, Pays DEF Mark, wrote

LEMMA PayReferrerKeeps ==
  ASSUME IInv, NEW s \in Sessions, PayReferrer(s)
  PROVE  IInv'
<1>1. /\ job[s].pc = "referrer" /\ job[s].wrote = {"rewarded"}
      /\ JobOK(job[s]) /\ UNCHANGED tables
  BY DEF IInv, JobsOK, JobOK, Creates, PayReferrer, At
<1>2. CASE user[job[s].referrer].banned
  <2>1. Admin
    BY <1>1, <1>2 DEF IInv, TablesOK, TypeOK, SourcesAreWho, JobOK, Creates, IsPaying,
                      IsPending, IsReferral
  <2>2. PICK j : GoesOn(s, j, "commit", job[s].id, job[s].code, job[s].referrer,
                        job[s].wrote)
    BY <1>2, GotoGoesOn DEF PayReferrer, Pcs, IInv
  <2>3. JobOK(j)
    BY <1>1, <2>1, <2>2 DEF GoesOn, JobOK, Registers, Creates, IsPaying, New, Owner
  <2>. QED
    BY <1>1, <2>2, <2>3, OwnerStays DEF Owner
<1>3. CASE ~user[job[s].referrer].banned
  <2>. DEFINE wrote == {"rewarded", "referrer"}
  <2>1. job[s].wrote \cup {"referrer"} = wrote /\ wrote \in SUBSET Writes
    BY <1>1 DEF Writes
  <2>. HIDE DEF wrote
  <2>2. job' = [job EXCEPT ![s].pc = "count", ![s].wrote = wrote]
    BY <1>3, <2>1 DEF PayReferrer
  <2>3. PICK j : GoesOn(s, j, "count", job[s].id, job[s].code, job[s].referrer, wrote)
    BY <2>1, <2>2, Writing DEF Pcs, IInv
  <2>. QED
    BY <1>1, <2>1, <2>3, Pays DEF wrote
<1>. QED
  BY <1>2, <1>3

LEMMA CountKeeps ==
  ASSUME IInv, NEW s \in Sessions, Count(s)
  PROVE  IInv'
<1>1. job[s].pc = "count" /\ job[s].wrote = {"rewarded", "referrer"}
  BY DEF IInv, JobsOK, JobOK, Creates, Count, At
<1>2. PICK wrote \in {job[s].wrote, job[s].wrote \cup {"milestone"}} :
        job' = [job EXCEPT ![s].pc = "commit", ![s].wrote = wrote]
  BY DEF Count
<1>3. wrote \in SUBSET Writes /\ "rewarded" \in wrote /\ "referrer" \in wrote
  BY <1>1, <1>2 DEF Writes
<1>4. PICK j : GoesOn(s, j, "commit", job[s].id, job[s].code, job[s].referrer, wrote)
  BY <1>2, <1>3, Writing DEF Pcs, IInv
<1>. QED
  BY <1>1, <1>3, <1>4, Pays DEF Count

-----------------------------------------------------------------------------
(* The commit of a registration.                                           *)

\* The tables keep what they hold and get a user, who is in no table yet.
Gains(id, p) ==
  /\ DOMAIN user' = DOMAIN user \cup {id}
  /\ user'[id] = [person |-> p, banned |-> FALSE]
  /\ \A u \in DOMAIN user : user'[u] = user[u]
  /\ \A c \in DOMAIN source : c \in DOMAIN source' /\ source'[c] = source[c]
  /\ DOMAIN acquisition' \in {DOMAIN acquisition, DOMAIN acquisition \cup {id}}
  /\ \A u \in DOMAIN acquisition : acquisition'[u] = acquisition[u]
  /\ id \in DOMAIN acquisition' =>
       acquisition'[id].code \in DOMAIN source' /\ ~acquisition'[id].rewarded
  /\ profile' = profile

LEMMA RegisterGains ==
  ASSUME IInv, NEW s \in Sessions, Register(s)
  PROVE  Gains(job[s].id, job[s].person)
<1>. DEFINE id == job[s].id
            code == job[s].code
<1>1. /\ JobOK(job[s]) /\ job[s].pc = "register" /\ job[s] \in Job
      /\ id \in Ids \ DOMAIN user /\ AccountsOf(job[s].person) = {}
      /\ KnowsReferrer(job[s])
  BY DEF IInv, TypeOK, JobsOK, JobOK, Registers, Register, At, New
<1>2. id \notin DOMAIN acquisition
  BY <1>1 DEF IInv, TypeOK
<1>3. /\ DOMAIN user' = DOMAIN user \cup {id}
      /\ user'[id] = [person |-> job[s].person, banned |-> FALSE]
      /\ \A u \in DOMAIN user : user'[u] = user[u]
  BY <1>1 DEF Register, WithUser
<1>4. \A c \in DOMAIN source : c \in DOMAIN source' /\ source'[c] = source[c]
  <2>1. code \in DOMAIN source => source[code] = job[s].referrer
    BY <1>1, ShapesDiffer
       DEF IInv, TypeOK, TablesOK, SourcesAreWho, RegisteredOnce, KnowsReferrer, Codes
  <2>. QED
    BY <2>1 DEF Register, Sources
<1>5. code # NoCode => code \in DOMAIN source'
  BY <1>1 DEF JobOK, Registers, Register, Sources
<1>6. CASE code = NoCode
  BY <1>2, <1>3, <1>4, <1>6 DEF Gains, Register, Acquisitions
<1>7. CASE code # NoCode
  <2>1. acquisition' = [u \in DOMAIN acquisition \cup {id} |->
                          IF u = id THEN [code |-> code, rewarded |-> FALSE]
                          ELSE acquisition[u]]
    BY <1>7 DEF Register, Acquisitions
  <2>. QED
    BY <1>2, <1>3, <1>4, <1>5, <1>7, <2>1 DEF Gains, Register
<1>. QED
  BY <1>6, <1>7

LEMMA RegisterTypes ==
  ASSUME IInv, NEW s \in Sessions, Register(s)
  PROVE  TypeOK'
<1>1. /\ job[s] \in Job /\ JobOK(job[s]) /\ job[s].pc = "register"
      /\ job[s].person \in People /\ job[s].id \in Ids \ DOMAIN user
  BY DEF IInv, TypeOK, JobsOK, JobOK, Registers, Register, At, New
<1>2. DOMAIN user' \subseteq Ids /\ user' \in [DOMAIN user' -> UserRow]
  BY <1>1 DEF IInv, TypeOK, Register, WithUser, UserRow
<1>3. DOMAIN source' \subseteq Codes /\ source' \in [DOMAIN source' -> Ids \cup {NoUser}]
  <2>1. "source" \in job[s].wrote => job[s].code \in Codes
    BY <1>1 DEF JobOK, Registers, Job
  <2>2. job[s].referrer \in Ids \cup {NoUser}
    BY <1>1 DEF Job
  <2>. QED
    BY <2>1, <2>2 DEF IInv, TypeOK, Register, Sources
<1>4. DOMAIN acquisition' \subseteq DOMAIN user'
  BY RegisterGains DEF IInv, TypeOK, Gains
<1>5. acquisition' \in [DOMAIN acquisition' -> AcquisitionRow]
  <2>1. job[s].code # NoCode => job[s].code \in Codes
    BY <1>1 DEF Job
  <2>. QED
    BY <2>1 DEF IInv, TypeOK, Register, Acquisitions, AcquisitionRow
<1>6. profile' \subseteq DOMAIN user'
  BY RegisterGains DEF IInv, TypeOK, Gains
<1>7. bonus' \in [DOMAIN user' -> [Reasons -> Nat]]
  <2>1. DOMAIN user' = DOMAIN user \cup {job[s].id}
    BY RegisterGains DEF Gains
  <2>. QED
    BY <2>1 DEF IInv, TypeOK, Register
<1>8. job' \in [Sessions -> Job]
  <2>1. CASE End(s)
    BY <2>1, IdleShape DEF IInv, TypeOK, End
  <2>2. CASE Goto(s, "exists")
    BY <2>2, GotoGoesOn DEF IInv, TypeOK, GoesOn, Pcs
  <2>. QED
    BY <2>1, <2>2 DEF Register
<1>. QED
  BY <1>2, <1>3, <1>4, <1>5, <1>6, <1>7, <1>8 DEF TypeOK

\* What the other sessions know stays true.
LEMMA OthersLearnNothing ==
  ASSUME IInv, NEW id \in Ids \ DOMAIN user, NEW p, Gains(id, p),
         NEW k \in Job, JobOK(k),
         k.pc \in New => k.id # id /\ k.person # p
  PROVE  JobOK(k)'
<1>1. Registers(k)'
  <2>1. KnowsReferrer(k) => KnowsReferrer(k)'
    BY DEF Gains, KnowsReferrer
  <2>2. k.pc \in New => k.id \in Ids \ DOMAIN user' /\ AccountsOf(k.person)' = {}
    BY DEF Gains, JobOK, Registers, AccountsOf
  <2>. QED
    BY <2>1, <2>2 DEF Gains, JobOK, Registers
<1>2. Creates(k)'
  <2>1. ASSUME k.id \in DOMAIN user
        PROVE  (IsPending(k.id) <=> IsPending(k.id)') /\ (IsPaying(k) => IsPaying(k)')
    <3>1. k.id \in DOMAIN acquisition <=> k.id \in DOMAIN acquisition'
      BY <2>1 DEF Gains
    <3>2. k.id \in DOMAIN acquisition =>
            /\ acquisition'[k.id] = acquisition[k.id]
            /\ source'[acquisition[k.id].code] = source[acquisition[k.id].code]
      BY DEF Gains, IInv, TablesOK, SourcesAreWho
    <3>. QED
      BY <3>1, <3>2 DEF IsPending, IsReferral, IsPaying
  <2>2. k.id \in DOMAIN user => k.id \in DOMAIN user'
    BY DEF Gains
  <2>. QED
    BY <2>1, <2>2 DEF JobOK, Creates, Owner
<1>. QED
  BY <1>1, <1>2 DEF JobOK

LEMMA RegisterJobs ==
  ASSUME IInv, NEW s \in Sessions, Register(s)
  PROVE  JobsOK'
<1>1. /\ job[s] \in Job /\ JobOK(job[s]) /\ job[s].pc = "register"
      /\ job[s].id \in Ids \ DOMAIN user
      /\ job = [r \in Sessions |-> job[r]]
  BY DEF IInv, TypeOK, JobsOK, JobOK, Registers, Register, At, New
<1>2. Gains(job[s].id, job[s].person)
  BY RegisterGains
<1>3. PICK j \in Job :
        /\ job' = [job EXCEPT ![s] = j]
        /\ j.pc \notin New \cup Owner
        /\ JobOK(j)'
  <2>1. CASE End(s)
    <3>1. JobOK(Idle)' /\ Idle.pc \notin New \cup Owner
      BY IdleShape DEF JobOK, Registers, Creates, New, Owner
    <3>. QED
      BY <2>1, <3>1, IdleShape DEF End
  <2>2. CASE job[s].op = "create" /\ Goto(s, "exists")
    <3>1. PICK j : GoesOn(s, j, "exists", job[s].id, job[s].code, job[s].referrer,
                          job[s].wrote)
      BY <2>2, GotoGoesOn DEF Pcs, IInv
    <3>2. job[s].code = NoCode /\ job[s].wrote = {}
      BY <1>1, <2>2 DEF JobOK, Registers, New
    <3>3. j.pc \notin New \cup Owner /\ JobOK(j)'
      BY <1>1, <1>2, <2>2, <3>1, <3>2
         DEF GoesOn, Gains, JobOK, Registers, Creates, New, Owner
    <3>. QED
      BY <3>1, <3>3 DEF GoesOn
  <2>. QED
    BY <2>1, <2>2 DEF Register
<1>4. \A r \in Sessions : job'[r] = IF r = s THEN j ELSE job[r]
  BY <1>1, <1>3
<1>5. ASSUME NEW r \in Sessions
      PROVE  JobOK(job[r])'
  <2>1. CASE r = s
    <3>1. job'[r] = j
      BY <1>4, <2>1
    <3>. QED
      BY <1>3, <3>1 DEF JobOK, Registers, Creates, KnowsReferrer, IsPaying, IsPending,
                        IsReferral, AccountsOf
  <2>2. CASE r # s
    <3>. PICK k : k = job[r]
      OBVIOUS
    <3>1. k \in Job /\ JobOK(k) /\ (k.pc \in New => k.id # job[s].id /\ k.person # job[s].person)
      BY <1>1, <2>2 DEF IInv, TypeOK, JobsOK, Apart, New
    <3>2. job'[r] = k
      BY <1>4, <2>2
    <3>3. JobOK(k)'
      BY <1>1, <1>2, <3>1, OthersLearnNothing
    <3>. QED
      BY <3>2, <3>3 DEF JobOK, Registers, Creates, KnowsReferrer, IsPaying, IsPending,
                        IsReferral, AccountsOf
  <2>. QED
    BY <2>1, <2>2
<1>6. \A q, r \in Sessions : q # r => Apart(job[q], job[r])'
  BY <1>3, <1>4 DEF IInv, JobsOK, Apart
<1>. QED
  BY <1>5, <1>6 DEF JobsOK

LEMMA RegisterTables ==
  ASSUME IInv, NEW s \in Sessions, Register(s)
  PROVE  TablesOK'
<1>. DEFINE id == job[s].id
            p == job[s].person
<1>1. /\ job[s] \in Job /\ JobOK(job[s]) /\ job[s].pc = "register"
      /\ id \in Ids \ DOMAIN user /\ AccountsOf(p) = {}
  BY DEF IInv, TypeOK, JobsOK, JobOK, Registers, Register, At, New
<1>2. Gains(id, p)
  BY RegisterGains
<1>3. /\ \A u \in DOMAIN bonus : bonus'[u] = bonus[u]
      /\ bonus'[id] = [why \in Reasons |-> IF why = "welcome" THEN 1 ELSE 0]
  BY <1>1 DEF IInv, TypeOK, Register
<1>4. RegisteredOnce'
  <2>1. bonus'[id]["welcome"] = 1
    BY <1>3 DEF Reasons
  <2>2. \A u \in DOMAIN user' : bonus'[u]["welcome"] = 1
    BY <1>2, <1>3, <2>1 DEF IInv, TypeOK, TablesOK, RegisteredOnce, Gains
  <2>3. \A i, j \in DOMAIN user' : user'[i].person = user'[j].person => i = j
    BY <1>1, <1>2 DEF IInv, TablesOK, RegisteredOnce, Gains, AccountsOf
  <2>. QED
    BY <2>2, <2>3 DEF RegisteredOnce
<1>5. SourcesAreWho'
  <2>1. ASSUME NEW c \in DOMAIN source'
        PROVE  IF c \in Tags THEN source'[c] = NoUser
               ELSE source'[c] \in DOMAIN user' /\ user'[source'[c]].person = c
    <3>1. CASE c \in DOMAIN source
      BY <1>2, <3>1 DEF IInv, TablesOK, SourcesAreWho, Gains
    <3>2. CASE c \notin DOMAIN source
      <4>1. /\ c = job[s].code /\ source'[c] = job[s].referrer
            /\ KnowsReferrer(job[s]) /\ c \in Codes
        BY <1>1, <2>1, <3>2 DEF Register, Sources, JobOK, Registers, New, Job
      <4>. QED
        BY <1>2, <4>1, ShapesDiffer DEF KnowsReferrer, Codes, Gains
    <3>. QED
      BY <3>1, <3>2
  <2>2. \A u \in DOMAIN acquisition' : acquisition'[u].code \in DOMAIN source'
    BY <1>2 DEF IInv, TablesOK, SourcesAreWho, Gains
  <2>. QED
    BY <2>1, <2>2 DEF SourcesAreWho
<1>6. ASSUME NEW u \in DOMAIN acquisition
      PROVE  /\ acquisition'[u] = acquisition[u]
             /\ source'[acquisition[u].code] = source[acquisition[u].code]
             /\ u \in DOMAIN acquisition' /\ u \in DOMAIN user
  BY <1>2, <1>6 DEF IInv, TypeOK, TablesOK, SourcesAreWho, Gains
<1>7. ProfileMeansRewarded'
  <2>1. \A u \in profile' : u \in profile /\ u # id
    BY <1>1, <1>2 DEF IInv, TypeOK, Gains
  <2>2. \A u \in DOMAIN acquisition' : u # id => u \in DOMAIN acquisition
    BY <1>2 DEF Gains
  <2>. QED
    BY <1>6, <2>1, <2>2 DEF IInv, TablesOK, ProfileMeansRewarded, IsReferral
<1>8. \A r : RewardedBy(r)' = RewardedBy(r)
  <2>1. \A u \in DOMAIN acquisition' :
          u \in DOMAIN acquisition \/ (u = id /\ ~acquisition'[u].rewarded)
    BY <1>2 DEF Gains
  <2>. QED
    BY <1>6, <2>1 DEF RewardedBy
<1>9. PaidOnce'
  <2>1. ASSUME NEW u \in DOMAIN user'
        PROVE  /\ bonus'[u]["referee"] =
                    IF u \in DOMAIN acquisition' /\ acquisition'[u].rewarded THEN 1 ELSE 0
               /\ bonus'[u]["referrer"] <= Cardinality(RewardedBy(u))
               /\ ~Admin => bonus'[u]["referrer"] = Cardinality(RewardedBy(u))
    <3>1. CASE u \in DOMAIN user
      <4>1. bonus'[u] = bonus[u]
        BY <1>3, <3>1 DEF IInv, TypeOK
      <4>2. u \in DOMAIN acquisition' /\ acquisition'[u].rewarded <=>
              u \in DOMAIN acquisition /\ acquisition[u].rewarded
        BY <1>1, <1>2, <1>6, <3>1 DEF Gains
      <4>. QED
        BY <3>1, <4>1, <4>2 DEF IInv, TablesOK, PaidOnce
    <3>2. CASE u = id
      <4>1. RewardedBy(id) = {}
        <5>1. ASSUME NEW v \in DOMAIN acquisition
              PROVE  source[acquisition[v].code] # id
          BY <1>1, NullsAreNotValues DEF IInv, TypeOK, TablesOK, SourcesAreWho
        <5>. QED
          BY <5>1 DEF RewardedBy
      <4>2. Cardinality(RewardedBy(id)) = 0
        BY <4>1, FS_EmptySet
      <4>3. bonus'[id]["referee"] = 0 /\ bonus'[id]["referrer"] = 0
        BY <1>3 DEF Reasons
      <4>4. ~(id \in DOMAIN acquisition' /\ acquisition'[id].rewarded)
        BY <1>2 DEF Gains
      <4>. QED
        BY <3>2, <4>2, <4>3, <4>4
    <3>. QED
      BY <1>2, <3>1, <3>2 DEF Gains
  <2>. QED
    BY <1>8, <2>1 DEF PaidOnce
<1>10. IsFiniteSet(DOMAIN acquisition')
  BY <1>2, FS_AddElement DEF IInv, TablesOK, Gains
<1>11. ~Admin => \A u \in DOMAIN user' : ~user'[u].banned
  BY <1>2 DEF IInv, TablesOK, Gains
<1>. QED
  BY <1>4, <1>5, <1>7, <1>9, <1>10, <1>11 DEF TablesOK

-----------------------------------------------------------------------------
(* The commit of a profile.                                                *)

LEMMA CommitTypes ==
  ASSUME IInv, NEW s \in Sessions, Commit(s)
  PROVE  TypeOK'
<1>1. job[s].id \in DOMAIN user
  BY DEF IInv, JobsOK, JobOK, Creates, Commit, At, Owner
<1>2. DOMAIN acquisition' = DOMAIN acquisition
  BY DEF Commit
<1>3. acquisition' \in [DOMAIN acquisition -> AcquisitionRow]
  <2>1. \A u \in DOMAIN acquisition : acquisition'[u] \in AcquisitionRow
    BY DEF IInv, TypeOK, Commit, AcquisitionRow
  <2>. QED
    BY <2>1 DEF Commit
<1>4. bonus' \in [DOMAIN user -> [Reasons -> Nat]]
  BY DEF IInv, TypeOK, Commit
<1>5. job' \in [Sessions -> Job]
  BY IdleShape DEF IInv, TypeOK, Commit, End
<1>6. user' = user /\ source' = source /\ profile' = profile \cup {job[s].id}
  BY DEF Commit
<1>. QED
  BY <1>1, <1>2, <1>3, <1>4, <1>5, <1>6 DEF IInv, TypeOK

LEMMA CommitJobs ==
  ASSUME IInv, NEW s \in Sessions, Commit(s)
  PROVE  JobsOK'
<1>1. \A r \in Sessions : job'[r] = IF r = s THEN Idle ELSE job[r]
  BY DEF IInv, TypeOK, Commit, End
<1>2. user' = user /\ source' = source /\ DOMAIN acquisition' = DOMAIN acquisition
  BY DEF Commit
<1>3. \A u \in DOMAIN acquisition :
        acquisition'[u].code = acquisition[u].code
        /\ (u # job[s].id => acquisition'[u] = acquisition[u])
  BY DEF IInv, TypeOK, AcquisitionRow, Commit
<1>4. ASSUME NEW r \in Sessions
      PROVE  JobOK(job[r])'
  <2>1. CASE r = s
    <3>1. job'[r] = Idle
      BY <1>1, <2>1
    <3>. QED
      BY <3>1, IdleShape DEF JobOK, Registers, Creates, New, Owner
  <2>2. CASE r # s
    <3>. PICK k : k = job[r]
      OBVIOUS
    <3>1. JobOK(k) /\ job'[r] = k /\ (k.pc \in Owner => k.id # job[s].id)
      BY <1>1, <2>2 DEF IInv, JobsOK, Apart, Commit, At, Owner
    <3>2. Registers(k)'
      BY <1>2, <3>1 DEF JobOK, Registers, KnowsReferrer, AccountsOf
    <3>3. k.id # job[s].id =>
            (IsPending(k.id) <=> IsPending(k.id)') /\ (IsPaying(k) <=> IsPaying(k)')
      BY <1>2, <1>3 DEF IsPending, IsReferral, IsPaying
    <3>4. Creates(k)'
      BY <1>2, <3>1, <3>3 DEF JobOK, Creates, Owner
    <3>. QED
      BY <3>1, <3>2, <3>4 DEF JobOK, Registers, Creates, KnowsReferrer, IsPaying,
                              IsPending, IsReferral, AccountsOf
  <2>. QED
    BY <2>1, <2>2
<1>5. \A q, r \in Sessions : q # r => Apart(job[q], job[r])'
  BY <1>1, IdleShape DEF IInv, JobsOK, Apart, New, Owner
<1>. QED
  BY <1>4, <1>5 DEF JobsOK

LEMMA CommitTables ==
  ASSUME IInv, NEW s \in Sessions, Commit(s)
  PROVE  TablesOK'
<1>. DEFINE id == job[s].id
            r == job[s].referrer
            pays == "rewarded" \in job[s].wrote
<1>1. /\ JobOK(job[s]) /\ job[s].pc = "commit" /\ id \in DOMAIN user
      /\ \/ job[s].wrote = {} /\ ~IsPending(id)
         \/ pays /\ IsPaying(job[s]) /\ (~Admin => "referrer" \in job[s].wrote)
  BY DEF IInv, JobsOK, JobOK, Creates, Commit, At, Owner
<1>2. /\ user' = user /\ source' = source /\ DOMAIN acquisition' = DOMAIN acquisition
      /\ profile' = profile \cup {id}
  BY DEF Commit
<1>3. \A u \in DOMAIN acquisition :
        /\ acquisition'[u].code = acquisition[u].code
        /\ acquisition'[u].rewarded <=> acquisition[u].rewarded \/ (u = id /\ pays)
  BY DEF IInv, TypeOK, AcquisitionRow, Commit
<1>4. \A u \in DOMAIN user : \A why \in Reasons :
        /\ bonus[u][why] \in Nat
        /\ bonus'[u][why] = bonus[u][why] + (IF Given(s, u, why) THEN 1 ELSE 0)
  BY DEF IInv, TypeOK, Commit
<1>5. RegisteredOnce'
  <2>1. \A u \in DOMAIN user : bonus'[u]["welcome"] = bonus[u]["welcome"]
    BY <1>4 DEF Given, Reasons
  <2>. QED
    BY <1>2, <2>1 DEF IInv, TablesOK, RegisteredOnce
<1>6. SourcesAreWho'
  BY <1>2, <1>3 DEF IInv, TablesOK, SourcesAreWho
<1>7. ProfileMeansRewarded'
  BY <1>1, <1>2, <1>3
     DEF IInv, TablesOK, ProfileMeansRewarded, IsReferral, IsPending
<1>8. PaidOnce'
  <2>1. ASSUME NEW u \in DOMAIN user
        PROVE  bonus'[u]["referee"] =
                 IF u \in DOMAIN acquisition' /\ acquisition'[u].rewarded THEN 1 ELSE 0
    <3>1. bonus'[u]["referee"] = bonus[u]["referee"] + (IF u = id /\ pays THEN 1 ELSE 0)
      BY <1>4 DEF Given, Reasons
    <3>2. u = id /\ pays => u \in DOMAIN acquisition /\ ~acquisition[u].rewarded
      BY <1>1 DEF IsPaying, IsPending, IsReferral
    <3>. QED
      BY <1>2, <1>3, <3>1, <3>2 DEF IInv, TablesOK, PaidOnce
  <2>2. ASSUME NEW u \in DOMAIN user
        PROVE  /\ bonus'[u]["referrer"] <= Cardinality(RewardedBy(u)')
               /\ ~Admin => bonus'[u]["referrer"] = Cardinality(RewardedBy(u)')
    <3>1. /\ bonus[u]["referrer"] \in Nat
          /\ bonus'[u]["referrer"] =
               bonus[u]["referrer"] + (IF u = r /\ "referrer" \in job[s].wrote THEN 1 ELSE 0)
      BY <1>4 DEF Given, Reasons
    <3>2. /\ bonus[u]["referrer"] <= Cardinality(RewardedBy(u))
          /\ ~Admin => bonus[u]["referrer"] = Cardinality(RewardedBy(u))
      BY DEF IInv, TablesOK, PaidOnce
    <3>3. CASE pays /\ u = r
      <4>1. IsPaying(job[s]) /\ (~Admin => "referrer" \in job[s].wrote)
        BY <1>1, <3>3
      <4>2. /\ id \in DOMAIN acquisition /\ ~acquisition[id].rewarded
            /\ source[acquisition[id].code] = u
        BY <3>3, <4>1 DEF IsPaying, IsPending, IsReferral
      <4>3. RewardedBy(u)' = RewardedBy(u) \cup {id} /\ id \notin RewardedBy(u)
        BY <1>2, <1>3, <3>3, <4>2 DEF RewardedBy
      <4>4. IsFiniteSet(RewardedBy(u))
        BY FS_Subset DEF IInv, TablesOK, RewardedBy
      <4>5. /\ Cardinality(RewardedBy(u)) \in Nat
            /\ Cardinality(RewardedBy(u)') = Cardinality(RewardedBy(u)) + 1
        BY <4>3, <4>4, FS_AddElement, FS_CardinalityType
      <4>. QED
        BY <3>1, <3>2, <3>3, <4>1, <4>5
    <3>4. CASE ~(pays /\ u = r)
      <4>1. RewardedBy(u)' = RewardedBy(u)
        <5>1. pays => source[acquisition[id].code] # u
          BY <1>1, <3>4 DEF IsPaying
        <5>. QED
          BY <1>2, <1>3, <5>1 DEF RewardedBy
      <4>2. bonus'[u]["referrer"] = bonus[u]["referrer"]
        BY <1>1, <3>1, <3>4
      <4>. QED
        BY <3>2, <4>1, <4>2
    <3>. QED
      BY <3>3, <3>4
  <2>. QED
    BY <1>2, <2>1, <2>2 DEF PaidOnce
<1>. QED
  BY <1>2, <1>5, <1>6, <1>7, <1>8 DEF IInv, TablesOK

-----------------------------------------------------------------------------
(* The administrator.                                                      *)

LEMMA SetBanKeeps ==
  ASSUME IInv, NEW u \in DOMAIN user, SetBan(u)
  PROVE  IInv'
<1>1. /\ DOMAIN user' = DOMAIN user
      /\ \A v \in DOMAIN user : user'[v].person = user[v].person
      /\ user' \in [DOMAIN user -> UserRow]
  BY DEF IInv, TypeOK, UserRow, SetBan
<1>2. Admin /\ UNCHANGED <<source, acquisition, profile, bonus, job>>
  BY DEF SetBan
<1>3. TypeOK'
  BY <1>1, <1>2 DEF IInv, TypeOK
<1>4. ASSUME NEW r \in Sessions
      PROVE  JobOK(job[r])'
  BY <1>1, <1>2 DEF IInv, JobsOK, JobOK, Registers, Creates, KnowsReferrer, IsPaying,
                    IsPending, IsReferral, AccountsOf
<1>5. JobsOK'
  BY <1>2, <1>4 DEF IInv, JobsOK, Apart
<1>6. TablesOK'
  BY <1>1, <1>2 DEF IInv, TablesOK, RegisteredOnce, SourcesAreWho,
                    ProfileMeansRewarded, PaidOnce, RewardedBy, IsReferral
<1>. QED
  BY <1>3, <1>5, <1>6 DEF IInv

LEMMA DeleteProfileKeeps ==
  ASSUME IInv, NEW u \in profile, DeleteProfile(u)
  PROVE  IInv'
<1>1. profile' \subseteq profile /\ UNCHANGED <<user, source, acquisition, bonus, job>>
  BY DEF DeleteProfile
<1>2. TypeOK'
  BY <1>1 DEF IInv, TypeOK
<1>3. JobsOK'
  BY <1>1 DEF IInv, JobsOK, JobOK, Registers, Creates, KnowsReferrer, IsPaying,
              IsPending, IsReferral, AccountsOf, Apart
<1>4. TablesOK'
  BY <1>1 DEF IInv, TablesOK, RegisteredOnce, SourcesAreWho, ProfileMeansRewarded,
              PaidOnce, RewardedBy, IsReferral
<1>. QED
  BY <1>2, <1>3, <1>4 DEF IInv

-----------------------------------------------------------------------------
(* The theorems.                                                           *)

LEMMA StatementKeeps ==
  ASSUME IInv, NEW s \in Sessions, Statement(s)
  PROVE  IInv'
<1>1. CASE Resolve(s)
  BY <1>1, ResolveKeeps
<1>2. CASE \E id \in Ids : InsertUser(s, id)
  BY <1>2, InsertUserKeeps
<1>3. CASE InsertUserConflict(s)
  BY <1>3, EndKeeps DEF InsertUserConflict
<1>4. CASE AddSource(s)
  BY <1>4, AddSourceKeeps
<1>5. CASE Register(s)
  BY <1>5, RegisterTypes, RegisterJobs, RegisterTables DEF IInv
<1>6. CASE CheckExists(s)
  BY <1>6, CheckExistsKeeps
<1>7. CASE InsertProfile(s)
  BY <1>7, InsertProfileKeeps
<1>8. CASE InsertProfileConflict(s)
  BY <1>8, EndKeeps DEF InsertProfileConflict
<1>9. CASE FindReferral(s)
  BY <1>9, FindReferralKeeps
<1>10. CASE Mark(s)
  BY <1>10, MarkKeeps
<1>11. CASE PayReferrer(s)
  BY <1>11, PayReferrerKeeps
<1>12. CASE Count(s)
  BY <1>12, CountKeeps
<1>13. CASE Commit(s)
  BY <1>13, CommitTypes, CommitJobs, CommitTables DEF IInv
<1>. QED
  BY <1>1, <1>2, <1>3, <1>4, <1>5, <1>6, <1>7, <1>8, <1>9, <1>10, <1>11, <1>12, <1>13
     DEF Statement

LEMMA StutterKeeps ==
  ASSUME IInv, UNCHANGED vars
  PROVE  IInv'
<1>1. UNCHANGED <<user, source, acquisition, profile, bonus, job>>
  BY DEF vars
<1>2. TypeOK'
  BY <1>1 DEF IInv, TypeOK
<1>3. JobsOK'
  BY <1>1 DEF IInv, JobsOK, JobOK, Registers, Creates, KnowsReferrer, IsPaying,
              IsPending, IsReferral, AccountsOf, Apart
<1>4. TablesOK'
  BY <1>1 DEF IInv, TablesOK, RegisteredOnce, SourcesAreWho, ProfileMeansRewarded,
              PaidOnce, RewardedBy, IsReferral
<1>. QED
  BY <1>2, <1>3, <1>4 DEF IInv

LEMMA StepKeeps == IInv /\ [Next]_vars => IInv'
<1>. SUFFICES ASSUME IInv, [Next]_vars PROVE IInv'
  OBVIOUS
<1>1. ASSUME NEW s \in Sessions, NEW p \in People, NEW payload \in Codes \cup {NoCode},
             Start(s, p, payload)
      PROVE  IInv'
  BY <1>1, StartKeeps
<1>2. ASSUME NEW s \in Sessions, NEW p \in People, Create(s, p)
      PROVE  IInv'
  BY <1>2, CreateKeeps
<1>3. ASSUME NEW s \in Sessions, Statement(s)
      PROVE  IInv'
  BY <1>3, StatementKeeps
<1>4. ASSUME NEW s \in Sessions, Abort(s)
      PROVE  IInv'
  BY <1>4, EndKeeps DEF Abort
<1>5. ASSUME NEW id \in DOMAIN user, SetBan(id)
      PROVE  IInv'
  BY <1>5, SetBanKeeps
<1>6. ASSUME NEW id \in profile, DeleteProfile(id)
      PROVE  IInv'
  BY <1>6, DeleteProfileKeeps
<1>7. CASE Rest \/ UNCHANGED vars
  BY <1>7, StutterKeeps DEF Rest
<1>. QED
  BY <1>1, <1>2, <1>3, <1>4, <1>5, <1>6, <1>7 DEF Next

LEMMA Invariance == Spec => []IInv
  BY InitKeeps, StepKeeps, PTL DEF Spec

\* Types, for any number of people who start the bot in any order: every user
\* is committed with their bonuses (RegisterUserUseCase's one transaction).
THEOREM TypeCorrect == Spec => []TypeOK
<1>1. IInv => TypeOK
  BY DEF IInv
<1>. QED
  BY <1>1, Invariance, PTL

\* However many first updates of a person are served at once, there is one
\* account and one welcome bonus: the unique telegram_id decides.
THEOREM AccountIsUnique == Spec => []RegisteredOnce
<1>1. IInv => RegisteredOnce
  BY DEF IInv, TablesOK
<1>. QED
  BY <1>1, Invariance, PTL

\* get_or_create_source_id never attributes an invitation to nobody, or to
\* somebody else than the person whose number it carries.
THEOREM AttributionIsRight == Spec => []SourcesAreWho
<1>1. IInv => SourcesAreWho
  BY DEF IInv, TablesOK
<1>. QED
  BY <1>1, Invariance, PTL

\* CreateProfileUseCase commits a profile and the reward for it together,
\* whatever the referrer's ban and however many sessions try.
THEOREM ProfileIsRewarded == Spec => []ProfileMeansRewarded
<1>1. IInv => ProfileMeansRewarded
  BY DEF IInv, TablesOK
<1>. QED
  BY <1>1, Invariance, PTL

\* No interleaving of profile creations, deletions, bans and failures pays a
\* referee or a referrer twice for one referral.
THEOREM ReferralPaidOnce == Spec => []PaidOnce
<1>1. IInv => PaidOnce
  BY DEF IInv, TablesOK
<1>. QED
  BY <1>1, Invariance, PTL

LEMMA StepKeepsAttribution ==
  ASSUME IInv, [Next]_vars, NEW u \in DOMAIN acquisition
  PROVE  /\ u \in DOMAIN acquisition'
         /\ acquisition'[u].code = acquisition[u].code
         /\ acquisition[u].rewarded => acquisition'[u].rewarded
<1>1. CASE acquisition' = acquisition
  BY <1>1
<1>2. ASSUME NEW s \in Sessions, Register(s)
      PROVE  u \in DOMAIN acquisition' /\ acquisition'[u] = acquisition[u]
  BY <1>2, RegisterGains DEF Gains
<1>3. ASSUME NEW s \in Sessions, Commit(s)
      PROVE  /\ u \in DOMAIN acquisition'
             /\ acquisition'[u].code = acquisition[u].code
             /\ acquisition[u].rewarded => acquisition'[u].rewarded
  BY <1>3 DEF IInv, TypeOK, AcquisitionRow, Commit
<1>4. \/ acquisition' = acquisition
      \/ \E s \in Sessions : Register(s) \/ Commit(s)
  BY DEF Next, Statement, Start, Create, Resolve, InsertUser, InsertUserConflict,
         AddSource, CheckExists, InsertProfile, InsertProfileConflict, FindReferral,
         Mark, PayReferrer, Count, Abort, SetBan, DeleteProfile, Rest, tables, vars
<1>. QED
  BY <1>1, <1>2, <1>3, <1>4

\* Nothing rewrites where a user came from, or takes a reward back: not a later
\* click on an invitation, and not a profile that is made again.
THEOREM AttributionStays == Spec => AttributionForGood
<1>1. IInv /\ [Next]_vars =>
        [\A id \in DOMAIN acquisition :
           /\ id \in DOMAIN acquisition'
           /\ acquisition'[id].code = acquisition[id].code
           /\ acquisition[id].rewarded => acquisition'[id].rewarded]_vars
  BY StepKeepsAttribution
<1>. QED
  BY <1>1, Invariance, PTL DEF Spec, AttributionForGood

LEMMA StepLetsIn ==
  ASSUME IInv, NEW s \in Sessions, Statement(s), job[s].op = "start", job'[s] = Idle
  PROVE  \E id \in DOMAIN user' : user'[id].person = job[s].person
<1>1. JobOK(job[s]) /\ job[s].pc # "idle" /\ job[s] \in Job /\ TypeOK
  BY IdleShape DEF IInv, TypeOK, JobsOK, JobOK
<1>2. CASE InsertUserConflict(s)
  BY <1>2 DEF InsertUserConflict, PersonIsFree, AccountsOf, tables
<1>3. CASE Register(s)
  <2>1. Gains(job[s].id, job[s].person)
    BY <1>3, RegisterGains
  <2>2. job[s].id \in DOMAIN user' /\ user'[job[s].id].person = job[s].person
    BY <2>1 DEF Gains
  <2>. QED
    BY <2>2
<1>4. CASE Resolve(s) \/ (\E id \in Ids : InsertUser(s, id)) \/ AddSource(s)
  <2>1. \A pc : pc # "idle" /\ job'[s].pc = pc => job'[s] # Idle
    BY IdleShape
  <2>2. CASE Resolve(s)
    <3>1. job'[s].pc = "user"
      BY <1>1, <2>2 DEF Resolve, Goto, Job, TypeOK
    <3>. QED
      BY <2>1, <3>1
  <2>3. CASE \E id \in Ids : InsertUser(s, id)
    <3>. DEFINE pc == IF job[s].code = NoCode THEN "register" ELSE "source"
    <3>1. PICK id \in Ids : job' = [job EXCEPT ![s].id = id, ![s].pc = pc]
      BY <2>3 DEF InsertUser
    <3>2. pc # "idle"
      OBVIOUS
    <3>. HIDE DEF pc
    <3>3. job' = [job EXCEPT ![s] = Fields(job[s], pc, id, job[s].code,
                                           job[s].referrer, job[s].wrote)]
      BY <1>1, <3>1, SetsId
    <3>4. job'[s].pc = pc
      BY <1>1, <3>3 DEF Fields, TypeOK
    <3>. QED
      BY <2>1, <3>2, <3>4
  <2>4. CASE AddSource(s)
    <3>1. job'[s].pc = "register"
      BY <1>1, <2>4 DEF AddSource, Job, TypeOK
    <3>. QED
      BY <2>1, <3>1
  <2>. QED
    BY <1>4, <2>2, <2>3, <2>4
<1>5. job[s].pc \notin {"exists", "profile"} \cup Owner
  BY <1>1 DEF JobOK, Creates
<1>. QED
  BY <1>2, <1>3, <1>4, <1>5
     DEF Statement, CheckExists, InsertProfile, InsertProfileConflict, FindReferral,
         Mark, PayReferrer, Count, Commit, At, Owner

\* RegisterUserUseCase lets everybody in whose transaction does not fail: an
\* insert that loses a race loses it to an account of the same person.
THEOREM EverybodyGetsIn == Spec => NobodyTurnedAway
<1>1. IInv /\ [Next]_vars =>
        [\A s \in Sessions :
           Statement(s) /\ job[s].op = "start" /\ job'[s] = Idle =>
             \E id \in DOMAIN user' : user'[id].person = job[s].person]_vars
  BY StepLetsIn
<1>. QED
  BY <1>1, Invariance, PTL DEF Spec, NobodyTurnedAway

-----------------------------------------------------------------------------
(* Nobody invites in circles: a session finds its referrer among those who *)
(* are registered before its own user is.                                  *)

LEMMA CirclesRegister ==
  ASSUME IInv, NobodyInvitesInCircles, NEW s \in Sessions, Register(s)
  PROVE  NobodyInvitesInCircles'
<1>1. PICK me, p : me = job[s].id /\ p = job[s].person
  OBVIOUS
<1>2. /\ me \in Ids \ DOMAIN user /\ KnowsReferrer(job[s]) /\ job[s] \in Job
      /\ p \in People /\ AccountsOf(p) = {}
  BY <1>1 DEF IInv, TypeOK, JobsOK, JobOK, Registers, Register, At, New
<1>3. Gains(me, p)
  BY <1>1, RegisterGains
<1>4. ASSUME NEW id \in DOMAIN acquisition' PROVE acquisition'[id].code # p
  <2>1. CASE id = me
    <3>1. me \notin DOMAIN acquisition
      BY <1>2 DEF IInv, TypeOK
    <3>2. acquisition'[id].code = job[s].code
      BY <1>1, <2>1, <3>1 DEF Register, Acquisitions
    <3>. QED
      BY <1>2, <3>2 DEF KnowsReferrer, AccountsOf
  <2>2. CASE id # me
    <3>1. id \in DOMAIN acquisition /\ acquisition'[id] = acquisition[id]
      BY <1>3, <2>2 DEF Gains
    <3>. QED
      BY <1>2, <3>1, ShapesDiffer DEF IInv, TablesOK, SourcesAreWho, AccountsOf
  <2>. QED
    BY <2>1, <2>2
<1>5. /\ DOMAIN user' = DOMAIN user \cup {me} /\ user'[me].person = p
      /\ \A id \in DOMAIN user : user'[id] = user[id]
      /\ \A id \in DOMAIN user :
           /\ id \in DOMAIN acquisition' <=> id \in DOMAIN acquisition
           /\ id \in DOMAIN acquisition => acquisition'[id] = acquisition[id]
  BY <1>2, <1>3 DEF Gains
<1>6. ASSUME NEW S \in (SUBSET DOMAIN user') \ {{}}
      PROVE  \E id \in S :
               id \in DOMAIN acquisition' =>
                 acquisition'[id].code \notin {user'[i].person : i \in S}
  <2>1. CASE S \ {me} = {}
    BY <1>4, <1>5, <2>1
  <2>2. CASE S \ {me} # {}
    <3>1. S \ {me} \in (SUBSET DOMAIN user) \ {{}}
      BY <1>5, <2>2
    <3>2. PICK id \in S \ {me} :
            id \in DOMAIN acquisition => acquisition[id].code \notin PeopleOf(S \ {me})
      BY <3>1 DEF NobodyInvitesInCircles
    <3>. QED
      BY <1>4, <1>5, <3>1, <3>2 DEF PeopleOf
  <2>. QED
    BY <2>1, <2>2
<1>. QED
  BY <1>6 DEF NobodyInvitesInCircles, PeopleOf

\* The rest leaves the tables alone.
LEMMA WritersAreFew ==
  ASSUME [Next]_vars
  PROVE  \/ UNCHANGED tables
         \/ \E s \in Sessions : Register(s) \/ Commit(s)
         \/ \E id \in DOMAIN user : SetBan(id)
         \/ \E id \in profile : DeleteProfile(id)
BY DEF Next, Statement, Start, Create, Resolve, InsertUser, InsertUserConflict,
       AddSource, CheckExists, InsertProfile, InsertProfileConflict, FindReferral,
       Mark, PayReferrer, Count, Abort, Rest, tables, vars

LEMMA CirclesKeep ==
  IInv /\ NobodyInvitesInCircles /\ [Next]_vars => NobodyInvitesInCircles'
<1>. SUFFICES ASSUME IInv, NobodyInvitesInCircles, [Next]_vars
              PROVE  NobodyInvitesInCircles'
  OBVIOUS
<1>1. ASSUME DOMAIN user' = DOMAIN user,
             \A id \in DOMAIN user : user'[id].person = user[id].person,
             DOMAIN acquisition' = DOMAIN acquisition,
             \A id \in DOMAIN acquisition : acquisition'[id].code = acquisition[id].code
      PROVE  NobodyInvitesInCircles'
  <2>1. \A S \in SUBSET DOMAIN user : PeopleOf(S)' = PeopleOf(S)
    BY <1>1 DEF PeopleOf
  <2>. QED
    BY <1>1, <2>1 DEF NobodyInvitesInCircles
<1>2. CASE UNCHANGED tables
  BY <1>1, <1>2 DEF tables
<1>3. CASE \E s \in Sessions : Register(s)
  BY <1>3, CirclesRegister
<1>4. CASE \E s \in Sessions : Commit(s)
  BY <1>1, <1>4 DEF Commit, IInv, TypeOK, AcquisitionRow
<1>5. CASE \/ \E id \in DOMAIN user : SetBan(id)
           \/ \E id \in profile : DeleteProfile(id)
  BY <1>1, <1>5 DEF SetBan, DeleteProfile, IInv, TypeOK, UserRow
<1>. QED
  BY <1>2, <1>3, <1>4, <1>5, WritersAreFew

\* However the registrations of people who invite each other interleave, no
\* group of users has been invited by its own members alone.
THEOREM NoCircles == Spec => []NobodyInvitesInCircles
<1>1. Init => NobodyInvitesInCircles
  <2>. SUFFICES ASSUME Init PROVE NobodyInvitesInCircles
    OBVIOUS
  <2>1. DOMAIN user = {}
    BY DEF Init
  <2>. QED
    BY <2>1 DEF NobodyInvitesInCircles
<1>. QED
  BY <1>1, CirclesKeep, Invariance, PTL DEF Spec

-----------------------------------------------------------------------------
(* The tables implement Referrals.                                         *)

LEMMA OneAccount ==
  ASSUME NEW u, \A i, j \in DOMAIN u : u[i].person = u[j].person => i = j,
         NEW id \in DOMAIN u, NEW p, p = u[id].person
  PROVE  (CHOOSE i \in DOMAIN u : u[i].person = p) = id
OBVIOUS

\* What the mapping says of a person, by their account.
LEMMA OfMember ==
  ASSUME RegisteredOnce, NEW id \in DOMAIN user, NEW p, p = user[id].person
  PROVE  /\ OriginOf(p) = IF id \in DOMAIN acquisition THEN acquisition[id].code ELSE NoCode
         /\ BonusOf(p) = bonus[id]
<1>1. AccountOf(p) = id
  BY OneAccount DEF AccountOf, RegisteredOnce
<1>2. AccountsOf(p) # {}
  BY DEF AccountsOf
<1>. QED
  BY <1>1, <1>2 DEF OriginOf, BonusOf

LEMMA OfMemberNext ==
  ASSUME RegisteredOnce', NEW id \in DOMAIN user', NEW p, p = user'[id].person
  PROVE  /\ OriginOf(p)' = IF id \in DOMAIN acquisition' THEN acquisition'[id].code ELSE NoCode
         /\ BonusOf(p)' = bonus'[id]
<1>1. AccountOf(p)' = id
  BY OneAccount DEF AccountOf, RegisteredOnce
<1>2. AccountsOf(p)' # {}
  BY DEF AccountsOf
<1>. QED
  BY <1>1, <1>2 DEF OriginOf, BonusOf

LEMMA OfStranger ==
  ASSUME NEW p
  PROVE  /\ AccountsOf(p) = {} =>
              OriginOf(p) = NoCode /\ BonusOf(p) = [why \in Reasons |-> 0]
         /\ AccountsOf(p)' = {} =>
              OriginOf(p)' = NoCode /\ BonusOf(p)' = [why \in Reasons |-> 0]
BY DEF OriginOf, BonusOf

\* A step that keeps who the users are shows nothing of a person but what it
\* does to their rows.
LEMMA SamePeople ==
  ASSUME IInv, IInv', DOMAIN user' = DOMAIN user,
         \A id \in DOMAIN user : user'[id].person = user[id].person,
         DOMAIN acquisition' = DOMAIN acquisition,
         \A id \in DOMAIN acquisition : acquisition'[id].code = acquisition[id].code
  PROVE  /\ PeopleOf(DOMAIN user)' = PeopleOf(DOMAIN user)
         /\ \A ids \in SUBSET DOMAIN user : PeopleOf(ids)' = PeopleOf(ids)
         /\ \A p : AccountsOf(p)' = AccountsOf(p)
         /\ \A p : OriginOf(p)' = OriginOf(p)
<1>1. \A p : AccountsOf(p)' = AccountsOf(p)
  BY DEF AccountsOf
<1>2. ASSUME NEW p PROVE OriginOf(p)' = OriginOf(p)
  <2>1. CASE AccountsOf(p) = {}
    BY <1>1, <2>1, OfStranger
  <2>2. CASE AccountsOf(p) # {}
    <3>1. PICK id \in DOMAIN user : p = user[id].person
      BY <2>2 DEF AccountsOf
    <3>. QED
      BY <3>1, OfMember, OfMemberNext DEF IInv, TablesOK
  <2>. QED
    BY <2>1, <2>2
<1>. QED
  BY <1>1, <1>2 DEF PeopleOf

LEMMA InitImplements == Init => Promise!Init
<1>. SUFFICES ASSUME Init PROVE Promise!Init
  OBVIOUS
<1>1. DOMAIN user = {} /\ profile = {} /\ DOMAIN acquisition = {}
  BY DEF Init
<1>2. PeopleOf(DOMAIN user) = {} /\ PeopleOf(profile) = {}
      /\ PeopleOf({id \in DOMAIN acquisition : acquisition[id].rewarded}) = {}
  BY <1>1 DEF PeopleOf
<1>3. \A p : AccountsOf(p) = {}
  BY <1>1 DEF AccountsOf
<1>4. \A p : OriginOf(p) = NoCode /\ BonusOf(p) = [why \in Reasons |-> 0]
  BY <1>3, OfStranger
<1>. QED
  BY <1>2, <1>4 DEF Promise!Init, Promise!Bonuses, Reasons

LEMMA RegisterImplements ==
  ASSUME IInv, IInv', NEW s \in Sessions, Register(s)
  PROVE  Promise!Next
<1>1. PICK me, p, from : me = job[s].id /\ p = job[s].person /\ from = job[s].code
  OBVIOUS
<1>2. /\ me \in Ids \ DOMAIN user /\ p \in People /\ AccountsOf(p) = {}
      /\ job[s] \in Job /\ KnowsReferrer(job[s])
  BY <1>1 DEF IInv, TypeOK, JobsOK, JobOK, Registers, Register, At, New
<1>3. Gains(me, p)
  BY <1>1, RegisterGains
<1>4. /\ PeopleOf(DOMAIN user)' = PeopleOf(DOMAIN user) \cup {p}
      /\ p \notin PeopleOf(DOMAIN user)
  BY <1>2, <1>3 DEF Gains, PeopleOf, AccountsOf
<1>5. PeopleOf(profile)' = PeopleOf(profile)
  BY <1>3 DEF Gains, PeopleOf, IInv, TypeOK
<1>6. PeopleOf({id \in DOMAIN acquisition : acquisition[id].rewarded})'
        = PeopleOf({id \in DOMAIN acquisition : acquisition[id].rewarded})
  BY <1>3 DEF Gains, PeopleOf, IInv, TypeOK
<1>7. me \in DOMAIN user' /\ user'[me].person = p
  BY <1>3 DEF Gains
<1>8. OriginOf(p)' = from
  <2>1. me \notin DOMAIN acquisition
    BY <1>2 DEF IInv, TypeOK
  <2>2. IF from = NoCode THEN me \notin DOMAIN acquisition'
        ELSE me \in DOMAIN acquisition' /\ acquisition'[me].code = from
    BY <1>1, <2>1 DEF Register, Acquisitions
  <2>. QED
    BY <1>7, <2>2, OfMemberNext DEF IInv, TablesOK
<1>9. BonusOf(p)' = [why \in Reasons |-> IF why = "welcome" THEN 1 ELSE 0]
  <2>1. bonus'[me] = [why \in Reasons |-> IF why = "welcome" THEN 1 ELSE 0]
    BY <1>1 DEF Register
  <2>. QED
    BY <1>7, <2>1, OfMemberNext DEF IInv, TablesOK
<1>10. ASSUME NEW q, q # p
       PROVE  OriginOf(q)' = OriginOf(q) /\ BonusOf(q)' = BonusOf(q)
  <2>1. CASE AccountsOf(q) = {}
    <3>1. AccountsOf(q)' = {}
      BY <1>3, <1>10, <2>1 DEF Gains, AccountsOf
    <3>. QED
      BY <2>1, <3>1, OfStranger
  <2>2. CASE AccountsOf(q) # {}
    <3>1. PICK id \in DOMAIN user : q = user[id].person
      BY <2>2 DEF AccountsOf
    <3>2. id \in DOMAIN user' /\ q = user'[id].person
      BY <1>3, <3>1 DEF Gains
    <3>3. /\ id \in DOMAIN acquisition' <=> id \in DOMAIN acquisition
          /\ id \in DOMAIN acquisition => acquisition'[id] = acquisition[id]
      BY <1>2, <1>3 DEF Gains
    <3>4. bonus'[id] = bonus[id]
      BY <1>1, <1>2 DEF Register, IInv, TypeOK
    <3>. QED
      BY <3>1, <3>2, <3>3, <3>4, OfMember, OfMemberNext DEF IInv, TablesOK
  <2>. QED
    BY <2>1, <2>2
<1>11. OriginOf(p) = NoCode /\ BonusOf(p) = [why \in Reasons |-> 0]
  BY <1>2, OfStranger
<1>12. from \in PeopleOf(DOMAIN user) \cup Tags \cup {NoCode}
  BY <1>1, <1>2 DEF KnowsReferrer, PeopleOf, Job, Codes
<1>13. [q \in People |-> OriginOf(q)]' = [[q \in People |-> OriginOf(q)] EXCEPT ![p] = from]
  BY <1>2, <1>8, <1>10
<1>14. ASSUME NEW q \in People
       PROVE  BonusOf(q)' = [b \in Reasons |->
                BonusOf(q)[b] + (IF <<q, b>> \in {<<p, "welcome">>} THEN 1 ELSE 0)]
  <2>1. CASE q = p
    BY <1>9, <1>11, <2>1
  <2>2. CASE q # p
    <3>1. BonusOf(q) \in [Reasons -> Nat]
      <4>1. CASE AccountsOf(q) = {}
        BY <4>1, OfStranger
      <4>2. CASE AccountsOf(q) # {}
        <5>1. PICK id \in DOMAIN user : q = user[id].person
          BY <4>2 DEF AccountsOf
        <5>. QED
          BY <5>1, OfMember DEF IInv, TypeOK, TablesOK
      <4>. QED
        BY <4>1, <4>2
    <3>2. BonusOf(q)' = BonusOf(q)
      BY <1>10, <2>2
    <3>. QED
      BY <2>2, <3>1, <3>2
  <2>. QED
    BY <2>1, <2>2
<1>15. Promise!Give({<<p, "welcome">>})
  BY <1>14 DEF Promise!Give, Promise!Bonuses, Reasons
<1>16. Promise!Join(p, from)
  BY <1>4, <1>5, <1>6, <1>13, <1>15 DEF Promise!Join
<1>. QED
  BY <1>2, <1>12, <1>16 DEF Promise!Next

LEMMA CommitImplements ==
  ASSUME IInv, IInv', NEW s \in Sessions, Commit(s)
  PROVE  [Promise!Next]_Promise!vars
<1>1. PICK me, p, thanks :
        /\ me = job[s].id /\ p = user[me].person
        /\ thanks = job[s].wrote \cap {"referrer", "milestone"}
  OBVIOUS
<1>2. /\ me \in DOMAIN user /\ p \in People
      /\ \/ job[s].wrote = {} /\ ~IsPending(me)
         \/ /\ "rewarded" \in job[s].wrote /\ IsPaying(job[s])
            /\ "milestone" \in thanks => "referrer" \in thanks
  BY <1>1 DEF IInv, TypeOK, UserRow, JobsOK, JobOK, Creates, Commit, At, Owner
<1>3. /\ user' = user /\ source' = source /\ profile' = profile \cup {me}
      /\ DOMAIN acquisition' = DOMAIN acquisition
      /\ \A id \in DOMAIN acquisition :
           /\ acquisition'[id].code = acquisition[id].code
           /\ acquisition'[id].rewarded <=>
                acquisition[id].rewarded \/ (id = me /\ "rewarded" \in job[s].wrote)
  BY <1>1 DEF Commit, IInv, TypeOK, AcquisitionRow
<1>4. /\ PeopleOf(DOMAIN user)' = PeopleOf(DOMAIN user)
      /\ \A q : AccountsOf(q)' = AccountsOf(q) /\ OriginOf(q)' = OriginOf(q)
  BY <1>3, SamePeople
<1>5. PeopleOf(profile)' = PeopleOf(profile) \cup {p}
  BY <1>1, <1>3 DEF PeopleOf
<1>6. OriginOf(p) = IF me \in DOMAIN acquisition THEN acquisition[me].code ELSE NoCode
  BY <1>1, <1>2, OfMember DEF IInv, TablesOK
<1>7. \A ids \in SUBSET DOMAIN user : p \in PeopleOf(ids) <=> me \in ids
  <2>1. \A id \in DOMAIN user : user[id].person = p => id = me
    BY <1>1, <1>2 DEF IInv, TablesOK, RegisteredOnce
  <2>. QED
    BY <1>1, <2>1 DEF PeopleOf
<1>8. /\ p \in PeopleOf({id \in DOMAIN acquisition : acquisition[id].rewarded})
           <=> me \in DOMAIN acquisition /\ acquisition[me].rewarded
      /\ p \in PeopleOf(profile) <=> me \in profile
  <2>1. profile \in SUBSET DOMAIN user
    BY DEF IInv, TypeOK
  <2>2. {id \in DOMAIN acquisition : acquisition[id].rewarded} \in SUBSET DOMAIN user
    BY DEF IInv, TypeOK
  <2>. QED
    BY <1>7, <2>1, <2>2
<1>9. /\ OriginOf(p) \in People <=> IsReferral(me)
      /\ IsReferral(me) => user[source[acquisition[me].code]].person = OriginOf(p)
                           /\ source[acquisition[me].code] \in DOMAIN user
  BY <1>6, NullsAreNotValues, ShapesDiffer
     DEF IsReferral, IInv, TypeOK, TablesOK, SourcesAreWho, AcquisitionRow, Codes
<1>10. \A id \in DOMAIN user : \A why \in Reasons :
         bonus'[id][why] = bonus[id][why] + (IF Given(s, id, why) THEN 1 ELSE 0)
  BY DEF IInv, TypeOK, Commit
<1>11. CASE job[s].wrote = {} /\ ~IsPending(me)
  <2>1. \A id \in DOMAIN user : bonus'[id] = bonus[id]
    <3>1. \A id, why : ~Given(s, id, why)
      BY <1>11 DEF Given
    <3>2. \A id \in DOMAIN user : \A why \in Reasons : bonus[id][why] \in Nat
      BY DEF IInv, TypeOK
    <3>3. \A id \in DOMAIN user : \A why \in Reasons : bonus'[id][why] = bonus[id][why]
      BY <1>10, <3>1, <3>2
    <3>. QED
      BY <1>3, <3>3 DEF IInv, TypeOK
  <2>2. ASSUME NEW q PROVE BonusOf(q)' = BonusOf(q)
    <3>1. CASE AccountsOf(q) = {}
      BY <1>4, <3>1, OfStranger
    <3>2. CASE AccountsOf(q) # {}
      <4>1. PICK id \in DOMAIN user : q = user[id].person
        BY <3>2 DEF AccountsOf
      <4>. QED
        BY <1>3, <2>1, <4>1, OfMember, OfMemberNext DEF IInv, TablesOK
    <3>. QED
      BY <3>1, <3>2
  <2>3. PeopleOf({id \in DOMAIN acquisition : acquisition[id].rewarded})'
          = PeopleOf({id \in DOMAIN acquisition : acquisition[id].rewarded})
    BY <1>3, <1>11 DEF PeopleOf
  <2>4. ~(OriginOf(p) \in People
            /\ p \notin PeopleOf({id \in DOMAIN acquisition : acquisition[id].rewarded}))
    BY <1>8, <1>9, <1>11 DEF IsPending, IsReferral
  <2>5. p \in PeopleOf(DOMAIN user)
    BY <1>1, <1>2 DEF PeopleOf
  <2>6. [q \in People |-> OriginOf(q)]' = [q \in People |-> OriginOf(q)]
    BY <1>4
  <2>7. [q \in People |-> BonusOf(q)]' = [q \in People |-> BonusOf(q)]
    BY <2>2
  <2>8. CASE p \in PeopleOf(profile)
    BY <1>4, <1>5, <2>3, <2>6, <2>7, <2>8 DEF Promise!vars
  <2>9. CASE p \notin PeopleOf(profile)
    <3>1. Promise!MakeProfile(p)
      BY <1>2, <1>4, <1>5, <2>3, <2>4, <2>5, <2>6, <2>7, <2>9
         DEF Promise!MakeProfile, Promise!IsPending
    <3>. QED
      BY <1>2, <3>1 DEF Promise!Next
  <2>. QED
    BY <2>8, <2>9
<1>12. CASE /\ "rewarded" \in job[s].wrote /\ IsPaying(job[s])
            /\ "milestone" \in thanks => "referrer" \in thanks
  <2>1. IsPending(me) /\ job[s].referrer = source[acquisition[me].code]
    BY <1>1, <1>12 DEF IsPaying
  <2>2. /\ me \in DOMAIN acquisition /\ ~acquisition[me].rewarded /\ IsReferral(me)
        /\ job[s].referrer \in DOMAIN user
        /\ user[job[s].referrer].person = OriginOf(p)
    BY <1>9, <2>1 DEF IsPending, IsReferral
  <2>3. me \notin profile
    BY <2>2 DEF IInv, TablesOK, ProfileMeansRewarded
  <2>4. PeopleOf({id \in DOMAIN acquisition : acquisition[id].rewarded})'
          = PeopleOf({id \in DOMAIN acquisition : acquisition[id].rewarded}) \cup {p}
    BY <1>1, <1>3, <1>12, <2>2 DEF PeopleOf
  <2>5. p \in PeopleOf(DOMAIN user)
    BY <1>1, <1>2 DEF PeopleOf
  <2>6. ASSUME NEW q \in People
        PROVE  BonusOf(q)' =
                 [b \in Reasons |->
                    BonusOf(q)[b]
                      + (IF <<q, b>> \in {<<p, "referee">>} \cup ({OriginOf(p)} \X thanks)
                         THEN 1 ELSE 0)]
    <3>1. CASE AccountsOf(q) = {}
      <4>1. BonusOf(q)' = BonusOf(q) /\ BonusOf(q) = [b \in Reasons |-> 0]
        BY <1>4, <3>1, OfStranger
      <4>2. q # p /\ q # OriginOf(p)
        BY <1>1, <1>2, <2>2, <3>1 DEF AccountsOf
      <4>. QED
        BY <4>1, <4>2
    <3>2. CASE AccountsOf(q) # {}
      <4>1. PICK id \in DOMAIN user : q = user[id].person
        BY <3>2 DEF AccountsOf
      <4>2. BonusOf(q) = bonus[id] /\ BonusOf(q)' = bonus'[id]
        BY <1>3, <4>1, OfMember, OfMemberNext DEF IInv, TablesOK
      <4>3. /\ id = me <=> q = p
            /\ id = job[s].referrer <=> q = OriginOf(p)
        BY <1>1, <1>2, <2>2, <4>1 DEF IInv, TablesOK, RegisteredOnce
      <4>4. \A b \in Reasons :
              Given(s, id, b) <=>
                <<q, b>> \in {<<p, "referee">>} \cup ({OriginOf(p)} \X thanks)
        BY <1>1, <1>12, <4>3 DEF Given
      <4>5. bonus'[id] = [b \in Reasons |->
                            bonus[id][b] + (IF Given(s, id, b) THEN 1 ELSE 0)]
        BY DEF Commit, IInv, TypeOK
      <4>. QED
        BY <4>2, <4>4, <4>5
    <3>. QED
      BY <3>1, <3>2
  <2>7. Promise!Give({<<p, "referee">>} \cup ({OriginOf(p)} \X thanks))
    BY <2>6 DEF Promise!Give, Promise!Bonuses, Reasons
  <2>8. [q \in People |-> OriginOf(q)]' = [q \in People |-> OriginOf(q)]
    BY <1>4
  <2>9. Promise!Complete(p, thanks)
    BY <1>2, <1>4, <1>5, <1>8, <1>9, <2>2, <2>3, <2>4, <2>5, <2>7, <2>8
       DEF Promise!Complete, Promise!IsPending
  <2>10. thanks \in {{}, {"referrer"}, {"referrer", "milestone"}}
    <3>1. thanks \subseteq {"referrer", "milestone"}
      BY <1>1
    <3>. QED
      BY <1>12, <3>1
  <2>. QED
    BY <1>2, <2>9, <2>10 DEF Promise!Next
<1>. QED
  BY <1>2, <1>11, <1>12

LEMMA AdminImplements ==
  ASSUME IInv, IInv',
         \/ \E id \in DOMAIN user : SetBan(id)
         \/ \E id \in profile : DeleteProfile(id)
  PROVE  [Promise!Next]_Promise!vars
<1>1. /\ DOMAIN user' = DOMAIN user
      /\ \A id \in DOMAIN user : user'[id].person = user[id].person
      /\ UNCHANGED <<source, acquisition, bonus>>
  BY DEF SetBan, DeleteProfile, IInv, TypeOK, UserRow
<1>2. /\ PeopleOf(DOMAIN user)' = PeopleOf(DOMAIN user)
      /\ \A ids \in SUBSET DOMAIN user : PeopleOf(ids)' = PeopleOf(ids)
      /\ \A q : AccountsOf(q)' = AccountsOf(q)
      /\ \A q : OriginOf(q)' = OriginOf(q)
  BY <1>1, SamePeople
<1>3. PeopleOf({id \in DOMAIN acquisition : acquisition[id].rewarded})'
        = PeopleOf({id \in DOMAIN acquisition : acquisition[id].rewarded})
  BY <1>1 DEF PeopleOf, IInv, TypeOK
<1>4. ASSUME NEW q PROVE BonusOf(q)' = BonusOf(q)
  <2>1. CASE AccountsOf(q) = {}
    BY <1>2, <2>1, OfStranger
  <2>2. CASE AccountsOf(q) # {}
    <3>1. PICK id \in DOMAIN user : q = user[id].person
      BY <2>2 DEF AccountsOf
    <3>. QED
      BY <1>1, <3>1, OfMember, OfMemberNext DEF IInv, TablesOK
  <2>. QED
    BY <2>1, <2>2
<1>5. /\ [q \in People |-> OriginOf(q)]' = [q \in People |-> OriginOf(q)]
      /\ [q \in People |-> BonusOf(q)]' = [q \in People |-> BonusOf(q)]
  BY <1>2, <1>4
<1>6. CASE \E id \in DOMAIN user : SetBan(id)
  <2>1. PeopleOf(profile)' = PeopleOf(profile)
    BY <1>1, <1>6 DEF SetBan, PeopleOf, IInv, TypeOK
  <2>. QED
    BY <1>2, <1>3, <1>5, <2>1 DEF Promise!vars
<1>7. ASSUME NEW id \in profile, DeleteProfile(id)
      PROVE  Promise!Next
  <2>1. PICK p \in People : p = user[id].person
    BY DEF IInv, TypeOK, UserRow
  <2>2. PeopleOf(profile)' = PeopleOf(profile) \ {p}
    BY <1>7, <2>1 DEF DeleteProfile, PeopleOf, IInv, TypeOK, TablesOK, RegisteredOnce
  <2>3. Promise!DropProfile(p)
    BY <1>2, <1>3, <1>5, <2>2 DEF Promise!DropProfile
  <2>. QED
    BY <2>1, <2>3 DEF Promise!Next
<1>. QED
  BY <1>6, <1>7

LEMMA NextImplements ==
  IInv /\ IInv' /\ [Next]_vars => [Promise!Next]_Promise!vars
<1>. SUFFICES ASSUME IInv, IInv', [Next]_vars PROVE [Promise!Next]_Promise!vars
  OBVIOUS
<1>1. CASE UNCHANGED tables
  <2>1. UNCHANGED <<user, source, acquisition, profile, bonus>>
    BY <1>1 DEF tables
  <2>. QED
    BY <2>1 DEF Promise!vars, PeopleOf, OriginOf, BonusOf, AccountOf, AccountsOf
<1>2. CASE \E s \in Sessions : Register(s) \/ Commit(s)
  BY <1>2, RegisterImplements, CommitImplements
<1>. QED
  BY <1>1, <1>2, AdminImplements, WritersAreFew

\* Every behaviour of the sessions and tables is one of Referrals: people join
\* once and are attributed for good, and the invitation of a member is completed
\* and rewarded in one step, once, with the first profile they make.
THEOREM Implements == Spec => ImplementsReferrals
BY InitImplements, NextImplements, Invariance, PTL
DEF Spec, ImplementsReferrals, Promise!Spec

-----------------------------------------------------------------------------
(* Milestones.  ReferralRewardService counts the rewards of a referrer and *)
(* locks nothing, so two creations that reward one referrer may both count *)
(* what neither has committed.  The milestones of those whose rewards were *)
(* never between the count and the commit at once add up.                  *)

\* What a session has counted is still what it will make of the rewards.
CountIsRight(s) ==
  Settling(s) =>
    ("milestone" \in job[s].wrote <=>
       /\ "referrer" \in job[s].wrote
       /\ Cardinality(RewardedBy(job[s].referrer) \cup {job[s].id}) % Interval = 0)

\* Never more milestones than the rewards are worth, and not fewer unless one
\* of the rewards found the referrer banned.
Earned(id) ==
  LET count == Cardinality(RewardedBy(id))
  IN  /\ bonus[id]["milestone"] <= count \div Interval
      /\ bonus[id]["referrer"] = count => bonus[id]["milestone"] = count \div Interval

\* With m and t for met and torn: a session that met no other has counted
\* right, and the milestones of who is not torn are those earned.
MilestoneInv(m, t) ==
  /\ \A s \in Sessions \ m : CountIsRight(s)
  /\ \A id \in DOMAIN user \ t : Earned(id)

AllNoted(m) == \A s \in Sessions : Meets(s) => s \in m

\* What of a record from m and t to n and u the argument needs.
Noted(m, n) ==
  \A s \in Sessions : Meets(s)' \/ (s \in m /\ Settling(s)') => s \in n

Torn(m, t, u) ==
  /\ t \subseteq u
  /\ \A s \in Sessions \cap m : Commit(s) => job[s].referrer \in u

LEMMA NextMultiple ==
  ASSUME NEW n \in Nat, NEW k \in Nat \ {0}
  PROVE  /\ n \div k \in Nat
         /\ (n + 1) \div k = n \div k + (IF (n + 1) % k = 0 THEN 1 ELSE 0)
<1>. DEFINE q == n \div k  r == n % k  p == (n + 1) \div k  t == (n + 1) % k
<1>1. /\ q \in Nat /\ r \in 0 .. (k - 1) /\ n = k * q + r
      /\ p \in Nat /\ t \in 0 .. (k - 1) /\ n + 1 = k * p + t
  OBVIOUS
<1>. HIDE DEF q, r, p, t
<1>2. k * (p - q) = r + 1 - t
  BY <1>1
<1>3. CASE t = 0
  <2>1. k * (p - q) \in 1 .. k
    BY <1>1, <1>2, <1>3
  <2>2. p - q = 1
    BY <1>1, <2>1
  <2>. QED
    BY <1>1, <1>3, <2>2 DEF q, p, t
<1>4. CASE t # 0
  <2>1. k * (p - q) < k /\ k * (p - q) > -k
    BY <1>1, <1>2, <1>4
  <2>2. p - q = 0
    BY <1>1, <2>1
  <2>. QED
    BY <1>1, <1>4, <2>2 DEF q, p, t
<1>. QED
  BY <1>3, <1>4

LEMMA RewardsAreCounted ==
  ASSUME IInv, NEW u
  PROVE  IsFiniteSet(RewardedBy(u)) /\ Cardinality(RewardedBy(u)) \in Nat
<1>1. IsFiniteSet(RewardedBy(u))
  BY FS_Subset DEF IInv, TablesOK, RewardedBy
<1>. QED
  BY <1>1, FS_CardinalityType

\* A step that leaves the tables alone disturbs at most what its own session
\* has counted.
LEMMA MilestoneRead ==
  ASSUME NEW m, NEW t, IInv, MilestoneInv(m, t), NEW s \in Sessions, UNCHANGED tables,
         \A r \in Sessions \ {s} : job'[r] = job[r], CountIsRight(s)'
  PROVE  MilestoneInv(m, t)'
<1>1. \A u : RewardedBy(u)' = RewardedBy(u)
  BY DEF RewardedBy, tables
<1>2. \A r \in Sessions \ m : CountIsRight(r)'
  BY <1>1 DEF MilestoneInv, CountIsRight, Settling
<1>3. \A id \in DOMAIN user' \ t : Earned(id)'
  BY <1>1 DEF MilestoneInv, Earned, tables
<1>. QED
  BY <1>2, <1>3 DEF MilestoneInv

LEMMA MilestoneEnd ==
  ASSUME NEW m, NEW t, IInv, MilestoneInv(m, t), NEW s \in Sessions, End(s), UNCHANGED tables
  PROVE  MilestoneInv(m, t)'
<1>1. job'[s] = Idle /\ \A r \in Sessions \ {s} : job'[r] = job[r]
  BY DEF IInv, TypeOK, End
<1>2. CountIsRight(s)'
  BY <1>1, IdleShape DEF CountIsRight, Settling
<1>. QED
  BY <1>1, <1>2, MilestoneRead

LEMMA MilestoneCount ==
  ASSUME NEW m, NEW t, IInv, MilestoneInv(m, t), NEW s \in Sessions, Count(s)
  PROVE  MilestoneInv(m, t)'
<1>. DEFINE mine == RewardedBy(job[s].referrer) \cup {job[s].id}
<1>1. /\ job[s] \in Job /\ job[s].wrote = {"rewarded", "referrer"}
      /\ UNCHANGED tables /\ \A r \in Sessions \ {s} : job'[r] = job[r]
  BY DEF IInv, TypeOK, JobsOK, JobOK, Creates, Count, At
<1>2. /\ job'[s].referrer = job[s].referrer /\ job'[s].id = job[s].id
      /\ job'[s].wrote = IF Cardinality(mine) % Interval = 0
                         THEN job[s].wrote \cup {"milestone"} ELSE job[s].wrote
  BY <1>1 DEF IInv, TypeOK, Job, Count
<1>3. CountIsRight(s)'
  <2>1. mine' = mine
    BY <1>1, <1>2 DEF RewardedBy, tables
  <2>2. /\ "referrer" \in job'[s].wrote
        /\ "milestone" \in job'[s].wrote <=> Cardinality(mine) % Interval = 0
    BY <1>1, <1>2
  <2>. QED
    BY <2>1, <2>2 DEF CountIsRight
<1>. QED
  BY <1>1, <1>3, MilestoneRead

\* Statements on the way to the count.
LEMMA MilestoneStatement ==
  ASSUME NEW m, NEW t, IInv, MilestoneInv(m, t), NEW s \in Sessions,
         \/ Resolve(s) \/ (\E id \in Ids : InsertUser(s, id)) \/ AddSource(s)
         \/ CheckExists(s) \/ InsertProfile(s) \/ FindReferral(s)
         \/ Mark(s) \/ PayReferrer(s)
  PROVE  MilestoneInv(m, t)'
<1>1. /\ job[s] \in Job /\ JobOK(job[s]) /\ UNCHANGED tables
      /\ \A r \in Sessions \ {s} : job'[r] = job[r]
  BY DEF IInv, TypeOK, JobsOK, Resolve, InsertUser, AddSource, CheckExists,
         InsertProfile, FindReferral, Mark, PayReferrer, Goto, End
<1>2. \/ job'[s].pc # "commit"
      \/ job'[s].wrote \subseteq {"rewarded"}
  <2>1. CASE InsertProfile(s) \/ Mark(s) \/ AddSource(s)
    BY <1>1, <2>1 DEF AddSource, InsertProfile, Mark, Goto, IInv, TypeOK, Job
  <2>2. CASE Resolve(s)
    BY <1>1, <2>2 DEF Resolve, Goto, IInv, TypeOK, Job
  <2>3. CASE \E id \in Ids : InsertUser(s, id)
    <3>1. PICK id \in Ids, pc \in {"register", "source"} :
            job' = [job EXCEPT ![s].id = id, ![s].pc = pc]
      BY <2>3 DEF InsertUser
    <3>. QED
      BY <1>1, <3>1 DEF IInv, TypeOK, Job
  <2>4. CASE CheckExists(s)
    BY <1>1, <2>4 DEF CheckExists, Goto, End, Idle, Request, IInv, TypeOK, Job
  <2>5. CASE FindReferral(s)
    <3>1. job[s].wrote = {}
      BY <1>1, <2>5 DEF FindReferral, At, JobOK, Creates
    <3>. QED
      BY <1>1, <2>5, <3>1 DEF FindReferral, Goto, IInv, TypeOK, Job
  <2>6. CASE PayReferrer(s)
    <3>1. job[s].wrote = {"rewarded"}
      BY <1>1, <2>6 DEF PayReferrer, At, JobOK, Creates
    <3>. QED
      BY <1>1, <2>6, <3>1 DEF PayReferrer, Goto, IInv, TypeOK, Job
  <2>. QED
    BY <2>1, <2>2, <2>3, <2>4, <2>5, <2>6
<1>3. CountIsRight(s)'
  BY <1>2 DEF CountIsRight, Settling
<1>. QED
  BY <1>1, <1>3, MilestoneRead

\* A new user has been rewarded for nobody, and changes nobody's rewards.
LEMMA MilestoneRegister ==
  ASSUME NEW m, NEW t, IInv, MilestoneInv(m, t), NEW s \in Sessions, Register(s)
  PROVE  MilestoneInv(m, t)'
<1>. DEFINE id == job[s].id
<1>1. /\ id \in Ids \ DOMAIN user /\ job[s] \in Job /\ job[s].wrote \subseteq {"source"}
      /\ \A r \in Sessions \ {s} : job'[r] = job[r]
  BY DEF IInv, TypeOK, JobsOK, JobOK, Registers, Register, At, New, Goto, End
<1>2. Gains(id, job[s].person)
  BY RegisterGains
<1>3. /\ DOMAIN user' = DOMAIN user \cup {id}
      /\ \A u \in DOMAIN user : bonus'[u] = bonus[u]
      /\ bonus'[id]["milestone"] = 0
  BY <1>1, <1>2 DEF IInv, TypeOK, Gains, Register, Reasons
<1>4. \A u : RewardedBy(u)' = RewardedBy(u)
  <2>1. \A v \in DOMAIN acquisition' :
          v \in DOMAIN acquisition \/ ~acquisition'[v].rewarded
    BY <1>2 DEF Gains
  <2>2. \A v \in DOMAIN acquisition :
          /\ v \in DOMAIN acquisition' /\ acquisition'[v] = acquisition[v]
          /\ source'[acquisition[v].code] = source[acquisition[v].code]
    BY <1>2 DEF Gains, IInv, TablesOK, SourcesAreWho
  <2>. QED
    BY <2>1, <2>2 DEF RewardedBy
<1>5. Cardinality(RewardedBy(id)) = 0
  <2>1. \A v \in DOMAIN acquisition : source[acquisition[v].code] # id
    BY <1>1, NullsAreNotValues DEF IInv, TypeOK, TablesOK, SourcesAreWho
  <2>2. RewardedBy(id) = {}
    BY <2>1 DEF RewardedBy
  <2>. QED
    BY <2>2, FS_EmptySet
<1>6. 0 \div Interval = 0
  BY IntervalIsPositive
<1>7. \A u \in DOMAIN user' \ t : Earned(u)'
  BY <1>3, <1>4, <1>5, <1>6 DEF MilestoneInv, Earned
<1>8. ~Settling(s)'
  BY <1>1, IdleShape DEF Register, Goto, End, Settling, IInv, TypeOK, Job
<1>9. \A r \in Sessions \ m : CountIsRight(r)'
  BY <1>1, <1>4, <1>8 DEF MilestoneInv, CountIsRight, Settling
<1>. QED
  BY <1>7, <1>9 DEF MilestoneInv

\* What a creation's commit does to the rewards: one more for its referrer if
\* it rewards somebody, and nothing else.
LEMMA CommitRewards ==
  ASSUME IInv, NEW s \in Sessions, Commit(s)
  PROVE  /\ \A u : u # job[s].referrer \/ ~Settling(s) => RewardedBy(u)' = RewardedBy(u)
         /\ Settling(s) =>
              /\ job[s].id \notin RewardedBy(job[s].referrer)
              /\ \A u : u = job[s].referrer =>
                          RewardedBy(u)' = RewardedBy(u) \cup {job[s].id}
              /\ ~Admin => "referrer" \in job[s].wrote
         /\ ~Settling(s) => job[s].wrote = {}
<1>. DEFINE id == job[s].id
            pays == "rewarded" \in job[s].wrote
<1>1. /\ Settling(s) <=> pays
      /\ \/ job[s].wrote = {}
         \/ pays /\ IsPaying(job[s]) /\ (~Admin => "referrer" \in job[s].wrote)
  BY DEF IInv, JobsOK, JobOK, Creates, Commit, At, Owner, Settling
<1>2. source' = source /\ DOMAIN acquisition' = DOMAIN acquisition
  BY DEF Commit
<1>3. \A u \in DOMAIN acquisition :
        /\ acquisition'[u].code = acquisition[u].code
        /\ acquisition'[u].rewarded <=> acquisition[u].rewarded \/ (u = id /\ pays)
  BY DEF IInv, TypeOK, AcquisitionRow, Commit
<1>4. CASE ~pays
  <2>1. \A u : RewardedBy(u)' = RewardedBy(u)
    BY <1>2, <1>3, <1>4 DEF RewardedBy
  <2>. QED
    BY <1>1, <1>4, <2>1
<1>5. CASE pays
  <2>1. /\ id \in DOMAIN acquisition /\ ~acquisition[id].rewarded
        /\ source[acquisition[id].code] = job[s].referrer
    BY <1>1, <1>5 DEF IsPaying, IsPending, IsReferral
  <2>2. \A u : u # job[s].referrer => RewardedBy(u)' = RewardedBy(u)
    BY <1>2, <1>3, <2>1 DEF RewardedBy
  <2>3. /\ id \notin RewardedBy(job[s].referrer)
        /\ \A u : u = job[s].referrer => RewardedBy(u)' = RewardedBy(u) \cup {job[s].id}
    <3>1. id \notin RewardedBy(job[s].referrer)
      BY <2>1 DEF RewardedBy
    <3>2. PICK me : me = id
      OBVIOUS
    <3>3. ASSUME NEW u, u = job[s].referrer
          PROVE  RewardedBy(u)' = RewardedBy(u) \cup {me}
      BY <1>2, <1>3, <1>5, <2>1, <3>2, <3>3 DEF RewardedBy
    <3>. QED
      BY <3>1, <3>2, <3>3
  <2>. QED
    BY <1>1, <1>5, <2>2, <2>3
<1>. QED
  BY <1>4, <1>5

LEMMA MilestoneCommit ==
  ASSUME NEW m, NEW t, NEW n, NEW u, AllNoted(m), Noted(m, n), Torn(m, t, u),
         IInv, MilestoneInv(m, t), NEW s \in Sessions, Commit(s)
  PROVE  MilestoneInv(n, u)'
<1>. DEFINE referrer == job[s].referrer
<1>1. /\ At(s, "commit") /\ user' = user
      /\ job'[s] = Idle /\ \A r \in Sessions \ {s} : job'[r] = job[r]
  BY DEF IInv, TypeOK, Commit, End
<1>2. ASSUME NEW r \in Sessions \ n PROVE CountIsRight(r)'
  <2>1. CASE r = s
    BY <1>1, <2>1, IdleShape DEF CountIsRight, Settling
  <2>2. CASE r # s /\ ~Settling(r)
    BY <1>1, <2>2 DEF CountIsRight, Settling
  <2>3. CASE r # s /\ Settling(r)
    <3>1. r \notin m
      BY <1>1, <1>2, <2>3 DEF Noted, Settling
    <3>2. ~Settling(s) \/ job[r].referrer # referrer
      BY <2>3, <3>1 DEF AllNoted, Meets
    <3>3. RewardedBy(job[r].referrer)' = RewardedBy(job[r].referrer)
      BY <1>1, <2>3, <3>2, CommitRewards DEF RewardedBy
    <3>. QED
      BY <1>1, <2>3, <3>1, <3>3 DEF MilestoneInv, CountIsRight, Settling
  <2>. QED
    BY <2>1, <2>2, <2>3
<1>3. \A id \in DOMAIN user : \A why \in {"referrer", "milestone"} :
        /\ bonus[id][why] \in Nat
        /\ bonus'[id][why] =
             bonus[id][why] + (IF id = referrer /\ why \in job[s].wrote THEN 1 ELSE 0)
  BY DEF IInv, TypeOK, Commit, Given, Reasons
<1>4. ASSUME NEW id \in DOMAIN user \ u PROVE Earned(id)'
  <2>1. Earned(id) /\ bonus[id]["referrer"] <= Cardinality(RewardedBy(id))
    BY <1>4 DEF MilestoneInv, Torn, IInv, TablesOK, PaidOnce
  <2>2. CASE id # referrer \/ ~Settling(s)
    <3>1. RewardedBy(id)' = RewardedBy(id)
      BY <2>2, CommitRewards
    <3>2. \A why \in {"referrer", "milestone"} : bonus'[id][why] = bonus[id][why]
      BY <1>3, <2>2, CommitRewards
    <3>. QED
      BY <2>1, <3>1, <3>2 DEF Earned
  <2>3. CASE id = referrer /\ Settling(s)
    <3>. DEFINE k == Cardinality(RewardedBy(id))
    <3>1. /\ job[s].id \notin RewardedBy(id)
          /\ RewardedBy(id)' = RewardedBy(id) \cup {job[s].id}
      BY <2>3, CommitRewards
    <3>2. k \in Nat /\ Cardinality(RewardedBy(id) \cup {job[s].id}) = k + 1
      BY <3>1, RewardsAreCounted, FS_AddElement
    <3>3. "milestone" \in job[s].wrote <=>
            "referrer" \in job[s].wrote /\ (k + 1) % Interval = 0
      <4>1. s \notin m
        BY <1>4, <2>3 DEF Torn
      <4>. QED
        BY <2>3, <3>2, <4>1 DEF MilestoneInv, CountIsRight
    <3>4. Cardinality(RewardedBy(id)') = k + 1
      BY <3>1, <3>2
    <3>5. /\ k \div Interval \in Nat
          /\ (k + 1) \div Interval =
               k \div Interval + (IF (k + 1) % Interval = 0 THEN 1 ELSE 0)
      BY <3>2, IntervalIsPositive, NextMultiple
    <3>6. /\ bonus'[id]["milestone"] =
               bonus[id]["milestone"] + (IF "milestone" \in job[s].wrote THEN 1 ELSE 0)
          /\ bonus'[id]["referrer"] =
               bonus[id]["referrer"] + (IF "referrer" \in job[s].wrote THEN 1 ELSE 0)
          /\ bonus[id]["milestone"] \in Nat /\ bonus[id]["referrer"] \in Nat
      BY <1>3, <2>3
    <3>7. /\ bonus'[id]["milestone"] <= (k + 1) \div Interval
          /\ bonus'[id]["referrer"] = k + 1 =>
               bonus'[id]["milestone"] = (k + 1) \div Interval
      <4>1. PICK q \in Nat, p \in Nat, b \in Nat, c \in Nat, x \in Nat, y \in Nat :
              /\ q = k \div Interval /\ p = (k + 1) \div Interval
              /\ b = bonus[id]["milestone"] /\ c = bonus'[id]["milestone"]
              /\ x = bonus[id]["referrer"] /\ y = bonus'[id]["referrer"]
        <5>1. k \div Interval \in Nat /\ (k + 1) \div Interval \in Nat
          BY <3>5
        <5>2. bonus'[id]["milestone"] \in Nat /\ bonus'[id]["referrer"] \in Nat
          BY <3>6
        <5>. QED
          BY <3>6, <5>1, <5>2
      <4>2. x <= k /\ b <= q /\ (x = k => b = q)
        BY <2>1, <4>1 DEF Earned
      <4>3. CASE "milestone" \in job[s].wrote
        <5>1. c = b + 1 /\ p = q + 1 /\ y = x + 1
          BY <3>3, <3>5, <3>6, <4>1, <4>3
        <5>. QED
          BY <3>2, <4>1, <4>2, <5>1
      <4>4. CASE "milestone" \notin job[s].wrote /\ "referrer" \in job[s].wrote
        <5>1. c = b /\ p = q /\ y = x + 1
          BY <3>3, <3>5, <3>6, <4>1, <4>4
        <5>. QED
          BY <3>2, <4>1, <4>2, <5>1
      <4>5. CASE "milestone" \notin job[s].wrote /\ "referrer" \notin job[s].wrote
        <5>1. c = b /\ p >= q /\ y = x
          BY <3>5, <3>6, <4>1, <4>5
        <5>. QED
          BY <3>2, <4>1, <4>2, <5>1
      <4>. QED
        BY <4>3, <4>4, <4>5
    <3>. QED
      BY <3>4, <3>7 DEF Earned
  <2>. QED
    BY <2>2, <2>3
<1>. QED
  BY <1>1, <1>2, <1>4 DEF MilestoneInv

LEMMA MilestoneQuietly ==
  ASSUME NEW m, NEW t, IInv, MilestoneInv(m, t), [Next]_vars,
         ~\E s \in Sessions : Commit(s)
  PROVE  MilestoneInv(m, t)'
<1>1. ASSUME NEW s \in Sessions, NEW request, Begin(s, request), UNCHANGED tables,
             request.pc # "commit"
      PROVE  MilestoneInv(m, t)'
  <2>1. job'[s] = request /\ \A r \in Sessions \ {s} : job'[r] = job[r]
    BY <1>1 DEF Begin, IInv, TypeOK
  <2>2. CountIsRight(s)'
    BY <1>1, <2>1 DEF CountIsRight, Settling
  <2>. QED
    BY <1>1, <2>1, <2>2, MilestoneRead
<1>2. ASSUME NEW s \in Sessions, NEW p \in People, NEW payload \in Codes \cup {NoCode},
             Start(s, p, payload)
      PROVE  MilestoneInv(m, t)'
  <2>1. PICK pc \in {"resolve", "user"}, code \in Codes \cup {NoCode} :
          Begin(s, Request("start", pc, p, code, NoUser)) /\ UNCHANGED tables
    BY <1>2 DEF Start
  <2>2. Request("start", pc, p, code, NoUser).pc # "commit"
    BY DEF Request
  <2>. QED
    BY <1>1, <2>1, <2>2
<1>3. ASSUME NEW s \in Sessions, NEW p \in People, Create(s, p)
      PROVE  MilestoneInv(m, t)'
  <2>1. PICK pc \in {"user", "exists"}, id \in Ids \cup {NoUser} :
          Begin(s, Request("create", pc, p, NoCode, id)) /\ UNCHANGED tables
    BY <1>3 DEF Create, AccountsOf, IInv, TypeOK
  <2>2. Request("create", pc, p, NoCode, id).pc # "commit"
    BY DEF Request
  <2>. QED
    BY <1>1, <2>1, <2>2
<1>4. ASSUME NEW s \in Sessions, Statement(s) PROVE MilestoneInv(m, t)'
  BY <1>4, MilestoneStatement, MilestoneEnd, MilestoneRegister, MilestoneCount
     DEF Statement, InsertUserConflict, InsertProfileConflict
<1>5. ASSUME NEW s \in Sessions, Abort(s) PROVE MilestoneInv(m, t)'
  BY <1>5, MilestoneEnd DEF Abort
<1>6. CASE \/ (\E id \in DOMAIN user : SetBan(id)) \/ (\E id \in profile : DeleteProfile(id))
           \/ Rest \/ UNCHANGED vars
  <2>1. /\ DOMAIN user' = DOMAIN user
        /\ UNCHANGED <<source, acquisition, bonus, job>>
    BY <1>6 DEF SetBan, DeleteProfile, Rest, vars
  <2>2. \A u : RewardedBy(u)' = RewardedBy(u)
    BY <2>1 DEF RewardedBy
  <2>. QED
    BY <2>1, <2>2
       DEF MilestoneInv, Earned, CountIsRight, Settling
<1>. QED
  BY <1>2, <1>3, <1>4, <1>5, <1>6 DEF Next

LEMMA MilestoneNext ==
  ASSUME NEW m, NEW t, NEW n, NEW u, AllNoted(m), Noted(m, n), Torn(m, t, u),
         IInv, MilestoneInv(m, t), [Next]_vars
  PROVE  MilestoneInv(n, u)' /\ AllNoted(n)'
<1>1. AllNoted(n)'
  BY DEF AllNoted, Noted
<1>2. CASE \E s \in Sessions : Commit(s)
  BY <1>1, <1>2, MilestoneCommit
<1>3. CASE ~\E s \in Sessions : Commit(s)
  <2>1. MilestoneInv(m, t)'
    BY <1>3, MilestoneQuietly
  <2>2. \A s \in Sessions \ n : CountIsRight(s)'
    BY <2>1 DEF MilestoneInv, Noted, CountIsRight
  <2>. QED
    BY <1>1, <2>1, <2>2 DEF MilestoneInv, Torn
<1>. QED
  BY <1>2, <1>3

LEMMA MilestoneInit == Init => MilestoneInv({}, {}) /\ AllNoted({})
<1>. SUFFICES ASSUME Init PROVE MilestoneInv({}, {}) /\ AllNoted({})
  OBVIOUS
<1>1. \A s \in Sessions : ~Settling(s)
  BY IdleShape DEF Init, Settling
<1>2. DOMAIN user = {}
  BY DEF Init
<1>. QED
  BY <1>1, <1>2 DEF MilestoneInv, CountIsRight, AllNoted, Meets

\* A record of the past restrains nothing: what holds of Spec holds of it.
THEOREM HistoryIsRegistration == HistorySpec => Spec
<1>1. HistoryInit => Init
  BY DEF HistoryInit
<1>2. [HistoryNext]_<<vars, history>> => [Next]_vars
  BY DEF HistoryNext, vars
<1>. QED
  BY <1>1, <1>2, PTL DEF HistorySpec, Spec

\* Every Nth reward of a referrer pays a milestone, and no other does, unless
\* two of their rewards met between the count and the commit, or one found
\* them banned: then it may be fewer, and after a ban never more.  Rewards that
\* overlap never touch the milestones of anybody else.
THEOREM OverlapsOnlySpoil == HistorySpec => []OverlapsSpoilOnlyTheirs
<1>. DEFINE Inv == MilestoneInv(met, torn) /\ AllNoted(met)
<1>1. HistoryInit => Inv
  BY MilestoneInit DEF HistoryInit
<1>2. IInv /\ Inv /\ [HistoryNext]_<<vars, history>> => Inv'
  <2>. SUFFICES ASSUME IInv, Inv, [HistoryNext]_<<vars, history>>
                PROVE  Inv'
    OBVIOUS
  <2>1. PICK m, t, n, u : m = met /\ t = torn /\ n = met' /\ u = torn'
    OBVIOUS
  <2>2. MilestoneInv(m, t) /\ AllNoted(m)
    BY <2>1 DEF MilestoneInv, AllNoted
  <2>3. [Next]_vars
    BY DEF HistoryNext, vars
  <2>4. Noted(m, n) /\ Torn(m, t, u)
    <3>1. CASE HistoryNext
      BY <2>1, <3>1 DEF HistoryNext, Record, Noted, Torn
    <3>2. CASE UNCHANGED <<vars, history>>
      <4>1. Noted(m, n)
        BY <2>1, <2>2, <3>2 DEF vars, history, Noted, AllNoted, Meets, Settling
      <4>2. \A s \in Sessions : ~Commit(s)
        BY <3>2, IdleShape DEF vars, Commit, End, At, IInv, TypeOK
      <4>. QED
        BY <2>1, <3>2, <4>1, <4>2 DEF history, Torn
    <3>. QED
      BY <3>1, <3>2
  <2>5. MilestoneInv(n, u)' /\ AllNoted(n)'
    BY <2>2, <2>3, <2>4, MilestoneNext
  <2>. QED
    BY <2>1, <2>5 DEF MilestoneInv, AllNoted
<1>3. Inv => OverlapsSpoilOnlyTheirs
  BY DEF MilestoneInv, Earned, OverlapsSpoilOnlyTheirs
<1>. QED
  BY HistoryIsRegistration, Invariance, <1>1, <1>2, <1>3, PTL DEF HistorySpec

\* No two creations that reward one referrer are between their count and their
\* commit at once.
RewardsApart == \A s \in Sessions : ~Meets(s)

LEMMA MilestonesApart ==
  Spec /\ []RewardsApart => [](IInv /\ MilestoneInv({}, {}))
<1>1. IInv /\ RewardsApart' /\ MilestoneInv({}, {}) /\ AllNoted({}) /\ [Next]_vars
        => MilestoneInv({}, {})' /\ AllNoted({})'
  <2>. SUFFICES ASSUME IInv, RewardsApart', MilestoneInv({}, {}), AllNoted({}), [Next]_vars
                PROVE  MilestoneInv({}, {})' /\ AllNoted({})'
    OBVIOUS
  <2>1. Noted({}, {}) /\ Torn({}, {}, {})
    BY DEF Noted, Torn, RewardsApart
  <2>. QED
    BY <2>1, MilestoneNext
<1>. QED
  BY Invariance, MilestoneInit, <1>1, PTL DEF Spec

\* While that holds, and without an administrator, who may ban a referrer,
\* every Nth reward pays a milestone and no other does.
THEOREM MilestonesWhenApart ==
  ASSUME ~Admin
  PROVE  Spec /\ []RewardsApart => []MilestonesAddUp
<1>1. IInv /\ MilestoneInv({}, {}) => MilestonesAddUp
  BY DEF IInv, TablesOK, PaidOnce, MilestoneInv, Earned, MilestonesAddUp
<1>. QED
  BY <1>1, MilestonesApart, PTL

\* In particular, when requests are served one at a time.
THEOREM MilestonesWhenSerial ==
  ASSUME ~Admin, \A r, s \in Sessions : r = s
  PROVE  Spec => []MilestonesAddUp
<1>1. RewardsApart
  BY DEF RewardsApart, Meets
<1>. QED
  BY <1>1, MilestonesWhenApart, PTL

=============================================================================
