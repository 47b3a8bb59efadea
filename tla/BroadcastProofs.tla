---------------------------- MODULE BroadcastProofs ----------------------------
(***************************************************************************)
(* Proofs about Broadcast, for any owners, any number of overlapping runs, *)
(* any times, with and without a lost watermark.                           *)
(*                                                                         *)
(* Three invariants, each inductive on top of the typing: one for the      *)
(* cooldown, one for the choice of the audience, one for the windows.      *)
(***************************************************************************)
EXTENDS Broadcast, TLAPS

USE TimesAreNaturals, SeedsAreOwners, WaitsAreShort, WipedIsBoolean

Sending(w) == job[w].pc \in {"send", "retry"}

TypeInv ==
  /\ TypeOK
  /\ \A w \in Workers : Sending(w) => job[w].to \in Owners

-----------------------------------------------------------------------------
(* What each step of a run does to the jobs.                               *)

OthersKeep(w) == \A v \in Workers \ {w} : job'[v] = job[v]

\* The run goes on, with the window and the audience it had.
SameWindow(w) ==
  /\ job'[w].started = job[w].started /\ job'[w].since = job[w].since
  /\ job'[w].fallback = job[w].fallback

LEMMA IdleIsJob == Idle \in Job
  BY DEF Idle, Job, Moment

LEMMA BeginMoves ==
  ASSUME TypeOK, NEW w \in Workers, Begin(w)
  PROVE  /\ job' \in [Workers -> Job] /\ OthersKeep(w)
         /\ job'[w].pc = "query" /\ job'[w].started = clock
         /\ job'[w].since = ReadWatermark /\ job'[w].fallback = (watermark = Never)
         /\ job'[w].new = {} /\ job'[w].todo = {}
  <1>1. ReadWatermark \in (-Lookback) .. MaxTime /\ clock \in Moment
    BY DEF TypeOK, ReadWatermark, Moment
  <1> PICK j \in Job : j = [Idle EXCEPT !.pc = "query", !.started = clock,
                              !.since = ReadWatermark, !.fallback = watermark = Never]
    BY <1>1, IdleIsJob DEF Job
  <1>2. j.pc = "query" /\ j.started = clock /\ j.since = ReadWatermark
        /\ j.fallback = (watermark = Never) /\ j.new = {} /\ j.todo = {}
    BY DEF Idle
  <1>3. job' = [job EXCEPT ![w] = j]
    BY DEF Begin
  <1> QED
    BY <1>2, <1>3 DEF TypeOK, OthersKeep

LEMMA QueryNewMoves ==
  ASSUME TypeOK, NEW w \in Workers, QueryNew(w)
  PROVE  /\ job' \in [Workers -> Job] /\ OthersKeep(w) /\ SameWindow(w)
         /\ job'[w].new = {o \in Owners : Visible(o) /\ profile[o].created > job[w].since}
         /\ job'[w].pc \in {"finish", "audience"} /\ job'[w].todo = job[w].todo
  <1> DEFINE new == {o \in Owners : Visible(o) /\ profile[o].created > job[w].since}
  <1> PICK k \in Job : k = job[w]
    BY DEF TypeOK
  <1> PICK j \in Job : j = [k EXCEPT !.new = new,
                                     !.pc = IF new = {} THEN "finish" ELSE "audience"]
    BY DEF Job
  <1>1. /\ j.pc \in {"finish", "audience"} /\ j.new = new /\ j.todo = k.todo
        /\ j.started = k.started /\ j.since = k.since /\ j.fallback = k.fallback
    BY DEF Job
  <1>2. job' = [job EXCEPT ![w] = j]
    BY DEF QueryNew, TypeOK
  <1> QED
    BY <1>1, <1>2 DEF TypeOK, OthersKeep, SameWindow

LEMMA QueryAudienceMoves ==
  ASSUME TypeOK, NEW w \in Workers, QueryAudience(w)
  PROVE  /\ job' \in [Workers -> Job] /\ OthersKeep(w) /\ SameWindow(w)
         /\ job'[w].new = job[w].new /\ job'[w].pc = "claim"
         /\ job'[w].todo = {o \in Owners : /\ Visible(o) /\ o \notin Seeds
                                           /\ muted[o] = Never
                                           /\ ~StillActive(o, w)
                                           /\ NewsFor(o, job[w].new)}
  <1> DEFINE todo == {o \in Owners : /\ Visible(o) /\ o \notin Seeds
                                     /\ muted[o] = Never
                                     /\ ~StillActive(o, w)
                                     /\ NewsFor(o, job[w].new)}
  <1> PICK k \in Job : k = job[w]
    BY DEF TypeOK
  <1> PICK j \in Job : j = [k EXCEPT !.pc = "claim", !.todo = todo]
    BY DEF Job
  <1>1. /\ j.pc = "claim" /\ j.new = k.new /\ j.todo = todo
        /\ j.started = k.started /\ j.since = k.since /\ j.fallback = k.fallback
    BY DEF Job
  <1>2. job' = [job EXCEPT ![w] = j]
    BY DEF QueryAudience, TypeOK
  <1> QED
    BY <1>1, <1>2 DEF TypeOK, OthersKeep, SameWindow

LEMMA ClaimMoves ==
  ASSUME TypeOK, NEW w \in Workers, NEW o \in Owners, Claim(w, o)
  PROVE  /\ job' \in [Workers -> Job] /\ OthersKeep(w) /\ SameWindow(w)
         /\ job'[w].new = job[w].new /\ job'[w].todo = job[w].todo \ {o}
         /\ \/ /\ job'[w].pc = "claim" /\ cooldown' = cooldown
            \/ /\ job'[w].pc = "send" /\ job'[w].to = o /\ job'[w].claimed = clock
               /\ cooldown[o] <= clock
               /\ cooldown' = [cooldown EXCEPT ![o] = clock + Cooldown]
  <1> PICK k \in Job : k = job[w]
    BY DEF TypeOK
  <1>1. clock \in Moment /\ k.pc = "claim" /\ cooldown \in [Owners -> Nat]
    BY DEF TypeOK, Claim, At
  <1>2. CASE cooldown[o] > clock
    <2> PICK j \in Job : j = [k EXCEPT !.todo = @ \ {o}]
      BY DEF Job
    <2>1. /\ j.pc = "claim" /\ j.new = k.new /\ j.todo = k.todo \ {o}
          /\ j.started = k.started /\ j.since = k.since /\ j.fallback = k.fallback
      BY <1>1 DEF Job
    <2>2. job' = [job EXCEPT ![w] = j] /\ cooldown' = cooldown
      BY <1>2 DEF Claim, TypeOK
    <2> QED
      BY <2>1, <2>2 DEF TypeOK, OthersKeep, SameWindow
  <1>3. CASE ~(cooldown[o] > clock)
    <2> PICK j \in Job : j = [k EXCEPT !.todo = @ \ {o}, !.pc = "send", !.to = o,
                                       !.claimed = clock]
      BY <1>1 DEF Job
    <2>1. /\ j.pc = "send" /\ j.to = o /\ j.claimed = clock
          /\ j.new = k.new /\ j.todo = k.todo \ {o}
          /\ j.started = k.started /\ j.since = k.since /\ j.fallback = k.fallback
      BY <1>1 DEF Job
    <2>2. job' = [job EXCEPT ![w] = j] /\ cooldown' = [cooldown EXCEPT ![o] = clock + Cooldown]
      BY <1>3 DEF Claim, TypeOK
    <2>3. cooldown[o] <= clock
      BY <1>1, <1>3 DEF Moment
    <2> QED
      BY <2>1, <2>2, <2>3 DEF TypeOK, OthersKeep, SameWindow
  <1> QED
    BY <1>2, <1>3

LEMMA SendMoves ==
  ASSUME TypeOK, NEW w \in Workers, Send(w)
  PROVE  /\ job' \in [Workers -> Job] /\ OthersKeep(w) /\ SameWindow(w)
         /\ job'[w].new = job[w].new /\ job'[w].todo = job[w].todo
         /\ job'[w].pc = "claim"
  <1> PICK k \in Job : k = job[w]
    BY DEF TypeOK
  <1> PICK j \in Job : j = [k EXCEPT !.pc = "claim", !.to = Nobody, !.claimed = 0]
    <2> 0 \in Moment
      BY DEF Moment
    <2> QED
      BY DEF Job
  <1>1. /\ j.pc = "claim" /\ j.new = k.new /\ j.todo = k.todo
        /\ j.started = k.started /\ j.since = k.since /\ j.fallback = k.fallback
    BY DEF Job
  <1>2. job' = [job EXCEPT ![w] = j]
    BY DEF Send, TypeOK
  <1> QED
    BY <1>1, <1>2 DEF TypeOK, OthersKeep, SameWindow

LEMMA FloodControlMoves ==
  ASSUME TypeOK, NEW w \in Workers, FloodControl(w)
  PROVE  /\ job' \in [Workers -> Job] /\ OthersKeep(w) /\ SameWindow(w)
         /\ job'[w].new = job[w].new /\ job'[w].todo = job[w].todo
         /\ job'[w].pc = "retry" /\ Sending(w)
         /\ job'[w].to = job[w].to /\ job'[w].claimed = job[w].claimed
  <1> PICK k \in Job : k = job[w]
    BY DEF TypeOK
  <1> PICK j \in Job : j = [k EXCEPT !.pc = "retry"]
    BY DEF Job
  <1>1. /\ j.pc = "retry" /\ j.new = k.new /\ j.todo = k.todo
        /\ j.to = k.to /\ j.claimed = k.claimed
        /\ j.started = k.started /\ j.since = k.since /\ j.fallback = k.fallback
    BY DEF Job
  <1>2. job' = [job EXCEPT ![w] = j]
    BY DEF FloodControl, TypeOK
  <1> QED
    BY <1>1, <1>2 DEF TypeOK, OthersKeep, SameWindow, FloodControl, Sending, At

LEMMA AllSentMoves ==
  ASSUME TypeOK, NEW w \in Workers, AllSent(w)
  PROVE  /\ job' \in [Workers -> Job] /\ OthersKeep(w) /\ SameWindow(w)
         /\ job'[w].new = job[w].new /\ job'[w].todo = job[w].todo
         /\ job'[w].pc = "finish"
  <1> PICK k \in Job : k = job[w]
    BY DEF TypeOK
  <1> PICK j \in Job : j = [k EXCEPT !.pc = "finish"]
    BY DEF Job
  <1>1. /\ j.pc = "finish" /\ j.new = k.new /\ j.todo = k.todo
        /\ j.started = k.started /\ j.since = k.since /\ j.fallback = k.fallback
    BY DEF Job
  <1>2. job' = [job EXCEPT ![w] = j]
    BY DEF AllSent, TypeOK
  <1> QED
    BY <1>1, <1>2 DEF TypeOK, OthersKeep, SameWindow

LEMMA EndMoves ==
  ASSUME TypeOK, NEW w \in Workers, WriteWatermark(w) \/ Crash(w)
  PROVE  /\ job' \in [Workers -> Job] /\ OthersKeep(w)
         /\ job'[w].pc = "idle"
  <1> PICK j \in Job : j = Idle
    BY IdleIsJob
  <1>1. j.pc = "idle"
    BY DEF Idle
  <1>2. job' = [job EXCEPT ![w] = j]
    BY DEF WriteWatermark, Conclude, Crash
  <1> QED
    BY <1>1, <1>2 DEF TypeOK, OthersKeep

-----------------------------------------------------------------------------
(* Types.                                                                  *)

LEMMA TypeStarts == Init => TypeInv
  <1> SUFFICES ASSUME Init PROVE TypeInv
    OBVIOUS
  <1>1. job \in [Workers -> Job] /\ \A w \in Workers : ~Sending(w)
    <2> PICK j \in Job : j = Idle
      BY IdleIsJob
    <2>1. j.pc = "idle" /\ job = [w \in Workers |-> j]
      BY DEF Idle, Init
    <2> QED
      BY <2>1 DEF Sending
  <1>2. profile \in [Owners -> ProfileRow]
    BY DEF Init, NoProfile, ProfileRow
  <1> QED
    BY <1>1, <1>2 DEF Init, TypeInv, TypeOK, Moment

LEMMA RunTypes ==
  ASSUME TypeInv, NEW w \in Workers, Run(w)
  PROVE  TypeInv'
  <1> USE DEF TypeInv
  <1>1. CASE Begin(w)
    <2>1. profile' \in [Owners -> ProfileRow]
      <3> SUFFICES ASSUME NEW o \in Owners
                   PROVE  [profile[o] EXCEPT !.spans = @ \/ (profile[o].created # Never /\ ~Exists(o))]
                            \in ProfileRow
        BY <1>1 DEF Begin
      <3> PICK p \in ProfileRow : p = profile[o]
        BY DEF TypeOK
      <3> QED
        BY DEF ProfileRow
    <2> QED
      BY <1>1, <2>1, BeginMoves DEF TypeOK, Begin, OthersKeep, Sending
  <1>2. CASE QueryNew(w)
    BY <1>2, QueryNewMoves DEF TypeOK, QueryNew, OthersKeep, Sending, world
  <1>3. CASE QueryAudience(w)
    BY <1>3, QueryAudienceMoves DEF TypeOK, QueryAudience, OthersKeep, Sending, world
  <1>4. ASSUME NEW o \in Owners, Claim(w, o) PROVE TypeInv'
    <2>1. cooldown' \in [Owners -> Nat]
      BY <1>4 DEF Claim, TypeOK, Moment
    <2>2. UNCHANGED <<world, watermark, nudged, crowded, announced, horizon, clock>>
      BY <1>4 DEF Claim
    <2>3. /\ job' \in [Workers -> Job] /\ OthersKeep(w)
          /\ Sending(w)' => job'[w].to = o
      BY <1>4, ClaimMoves DEF Sending
    <2> QED
      BY <2>1, <2>2, <2>3 DEF TypeOK, OthersKeep, Sending, world
  <1>5. CASE Send(w)
    <2>1. job[w].to \in Owners
      BY <1>5 DEF Send, Sending
    <2>2. nudged' \in [Owners -> Moment \cup {Never}] /\ crowded' \subseteq Owners
      BY <1>5, <2>1 DEF Send, TypeOK
    <2> QED
      BY <1>5, <2>2, SendMoves DEF TypeOK, Send, OthersKeep, Sending, world
  <1>6. CASE FloodControl(w)
    BY <1>6, FloodControlMoves DEF TypeOK, FloodControl, OthersKeep, Sending, world
  <1>7. CASE AllSent(w)
    BY <1>7, AllSentMoves DEF TypeOK, AllSent, OthersKeep, Sending, world
  <1>8. CASE WriteWatermark(w)
    <2>1. job[w] \in Job
      BY DEF TypeOK
    <2>2. watermark' \in Moment /\ horizon' \in (-Lookback) .. MaxTime /\ announced' \subseteq Owners
      BY <1>8, <2>1 DEF WriteWatermark, Conclude, TypeOK, Job
    <2> QED
      BY <1>8, <2>2, EndMoves DEF TypeOK, WriteWatermark, Conclude, OthersKeep, Sending, world
  <1>9. CASE Crash(w)
    BY <1>9, EndMoves DEF TypeOK, Crash, OthersKeep, Sending, world
  <1> QED
    BY <1>1, <1>2, <1>3, <1>4, <1>5, <1>6, <1>7, <1>8, <1>9 DEF Run

LEMMA WorldTypes ==
  ASSUME TypeInv, NEW o \in Owners,
         Stamp(o) \/ CommitProfile(o) \/ Hide(o) \/ Mute(o) \/ Rate(o)
  PROVE  TypeInv'
  <1>1. profile' \in [Owners -> ProfileRow]
    BY DEF Stamp, CommitProfile, Hide, Mute, Rate, TypeInv, TypeOK, ProfileRow
  <1>2. /\ hidden' \subseteq Owners
        /\ muted' \in [Owners -> Moment \cup {Never}]
        /\ rated' \in [Owners -> Moment \cup {Never}]
    BY DEF Stamp, CommitProfile, Hide, Mute, Rate, TypeInv, TypeOK
  <1>3. UNCHANGED <<bookkeeping, clock>>
    BY DEF Stamp, CommitProfile, Hide, Mute, Rate
  <1> QED
    BY <1>1, <1>2, <1>3 DEF TypeInv, TypeOK, bookkeeping, Sending

LEMMA OtherTypes ==
  ASSUME TypeInv, LoseWatermark \/ Tick \/ UNCHANGED vars
  PROVE  TypeInv'
  BY DEF LoseWatermark, Tick, vars, world, bookkeeping, TypeInv, TypeOK, Sending, Moment

LEMMA TypeSteps == TypeInv /\ [Next]_vars => TypeInv'
  BY RunTypes, WorldTypes, OtherTypes DEF Next, Rest

\* Tables, keys and runs have their types, whichever runs overlap and die.
THEOREM TypeCorrect == Spec => []TypeOK
  <1>1. TypeInv => TypeOK
    BY DEF TypeInv
  <1> QED
    BY <1>1, TypeStarts, TypeSteps, PTL DEF Spec

-----------------------------------------------------------------------------
(* The cooldown.                                                           *)

\* The key outlives the cooldown that the last message asks for.
KeyCovers(o) == nudged[o] # Never => nudged[o] + Cooldown - MaxWait <= cooldown[o]

\* A run that is sending holds the key it set, which was free before.
HoldsKey(w) ==
  LET o == job[w].to
      claimed == job[w].claimed
  IN  /\ cooldown[o] = claimed + Cooldown
      /\ claimed <= clock /\ clock <= claimed + MaxWait
      /\ nudged[o] # Never => nudged[o] + Cooldown - MaxWait <= claimed

NudgeInv ==
  /\ \A o \in Owners : KeyCovers(o)
  /\ \A w \in Workers : Sending(w) => HoldsKey(w)
  /\ \A v, w \in Workers : v # w /\ Sending(v) /\ Sending(w) => job[v].to # job[w].to
  /\ crowded = {}

LEMMA NudgeStarts == Init => NudgeInv
  <1> SUFFICES ASSUME Init PROVE NudgeInv
    OBVIOUS
  <1>1. \A w \in Workers : ~Sending(w)
    BY DEF Init, Idle, Sending
  <1> QED
    BY <1>1 DEF Init, NudgeInv, KeyCovers

\* Steps that leave keys and messages alone and start no sending.
LEMMA NudgeQuiet ==
  ASSUME TypeInv, NudgeInv, NEW w \in Workers, OthersKeep(w),
         UNCHANGED <<cooldown, nudged, crowded, clock>>,
         \/ job'[w].pc \notin {"send", "retry"}
         \/ Sending(w) /\ job'[w].to = job[w].to /\ job'[w].claimed = job[w].claimed
  PROVE  NudgeInv'
  <1>1. \A o \in Owners : KeyCovers(o)'
    BY DEF NudgeInv, KeyCovers
  <1>2. ASSUME NEW v \in Workers, Sending(v)'
        PROVE  Sending(v) /\ job'[v].to = job[v].to /\ job'[v].claimed = job[v].claimed
    BY <1>2 DEF OthersKeep, Sending
  <1>3. ASSUME NEW v \in Workers, Sending(v)' PROVE HoldsKey(v)'
    BY <1>2, <1>3 DEF NudgeInv, HoldsKey
  <1>4. ASSUME NEW u \in Workers, NEW v \in Workers, u # v, Sending(u)', Sending(v)'
        PROVE  job'[u].to # job'[v].to
    BY <1>2, <1>4 DEF NudgeInv
  <1> QED
    BY <1>1, <1>3, <1>4 DEF NudgeInv

\* A key that is free is not held by a run that is sending.
LEMMA ClaimIsAlone ==
  ASSUME TypeInv, NudgeInv, NEW v \in Workers, Sending(v)
  PROVE  clock < cooldown[job[v].to]
  <1> PICK k \in Job : k = job[v]
    BY DEF TypeInv, TypeOK
  <1> QED
    BY DEF NudgeInv, HoldsKey, TypeInv, TypeOK, Job, Moment

LEMMA NudgeClaim ==
  ASSUME TypeInv, NudgeInv, NEW w \in Workers, NEW o \in Owners, Claim(w, o)
  PROVE  NudgeInv'
  <1>1. TypeOK /\ UNCHANGED <<nudged, crowded, clock>> /\ ~Sending(w)
    BY DEF TypeInv, Claim, At, Sending
  <1>2. CASE job'[w].pc = "claim" /\ cooldown' = cooldown
    BY <1>1, <1>2, ClaimMoves, NudgeQuiet
  <1>3. CASE /\ job'[w].pc = "send" /\ job'[w].to = o /\ job'[w].claimed = clock
             /\ cooldown[o] <= clock
             /\ cooldown' = [cooldown EXCEPT ![o] = clock + Cooldown]
    <2>1. /\ cooldown \in [Owners -> Nat] /\ clock \in Nat
          /\ \A p \in Owners : nudged[p] # Never => nudged[p] \in Nat
      BY DEF TypeInv, TypeOK, Moment
    <2>2. cooldown'[o] = clock + Cooldown /\ \A p \in Owners \ {o} : cooldown'[p] = cooldown[p]
      BY <1>3, <2>1
    <2>3. nudged[o] # Never => nudged[o] + Cooldown - MaxWait <= clock
      BY <1>3, <2>1 DEF NudgeInv, KeyCovers
    <2>4. ASSUME NEW p \in Owners PROVE KeyCovers(p)'
      BY <1>1, <2>1, <2>2, <2>3 DEF NudgeInv, KeyCovers
    <2>5. ASSUME NEW v \in Workers \ {w}, Sending(v)'
          PROVE  /\ Sending(v) /\ job'[v] = job[v]
                 /\ job[v].to \in Owners \ {o}
      <3>1. job'[v] = job[v] /\ Sending(v)
        BY <1>1, <2>5, ClaimMoves DEF OthersKeep, Sending
      <3>2. job[v].to # o
        BY <1>3, <2>1, <3>1, ClaimIsAlone
      <3> QED
        BY <3>1, <3>2 DEF TypeInv
    <2>6. ASSUME NEW v \in Workers \ {w}, Sending(v)' PROVE HoldsKey(v)'
      BY <1>1, <2>2, <2>5, <2>6 DEF NudgeInv, HoldsKey
    <2>7. HoldsKey(w)'
      BY <1>1, <1>3, <2>1, <2>2, <2>3 DEF HoldsKey
    <2>8. ASSUME NEW u \in Workers, NEW v \in Workers, u # v, Sending(u)', Sending(v)'
          PROVE  job'[u].to # job'[v].to
      BY <1>3, <2>5, <2>8 DEF NudgeInv
    <2> QED
      BY <1>1, <2>4, <2>6, <2>7, <2>8 DEF NudgeInv
  <1> QED
    BY <1>1, <1>2, <1>3, ClaimMoves

LEMMA NudgeSend ==
  ASSUME TypeInv, NudgeInv, NEW w \in Workers, Send(w)
  PROVE  NudgeInv'
  <1> PICK k \in Job : k = job[w]
    BY DEF TypeInv, TypeOK
  <1>1. /\ Sending(w) /\ HoldsKey(w) /\ k.to \in Owners /\ k.claimed \in Nat
        /\ UNCHANGED <<cooldown, clock>>
    BY DEF Send, Sending, TypeInv, NudgeInv, Job, Moment
  <1>2. /\ cooldown \in [Owners -> Nat] /\ clock \in Nat
        /\ nudged \in [Owners -> Moment \cup {Never}]
        /\ \A p \in Owners : nudged[p] # Never => nudged[p] \in Nat
    BY DEF TypeInv, TypeOK, Moment
  <1>3. ~TooSoon(k.to)
    BY <1>1, <1>2 DEF HoldsKey, TooSoon
  <1>4. crowded' = {}
    BY <1>3 DEF Send, NudgeInv
  <1>5. \A p \in Owners \ {k.to} : nudged'[p] = nudged[p]
    BY <1>2 DEF Send
  <1>6. nudged'[k.to] \in {clock, nudged[k.to]}
    BY <1>1, <1>2 DEF Send
  <1>7. ASSUME NEW p \in Owners PROVE KeyCovers(p)'
    <2>1. CASE p = k.to
      BY <1>1, <1>2, <1>6, <2>1 DEF NudgeInv, KeyCovers, HoldsKey
    <2>2. CASE p # k.to
      BY <1>1, <1>5, <2>2 DEF NudgeInv, KeyCovers
    <2> QED
      BY <2>1, <2>2
  <1>8. ASSUME NEW v \in Workers, Sending(v)'
        PROVE  /\ v # w /\ Sending(v) /\ job'[v] = job[v]
               /\ job[v].to \in Owners \ {k.to}
    <2>1. v # w /\ job'[v] = job[v] /\ Sending(v)
      BY <1>8, SendMoves DEF TypeInv, OthersKeep, Sending
    <2> QED
      BY <1>1, <2>1 DEF TypeInv, NudgeInv
  <1>9. ASSUME NEW v \in Workers, Sending(v)' PROVE HoldsKey(v)'
    BY <1>1, <1>5, <1>8, <1>9 DEF NudgeInv, HoldsKey
  <1>10. ASSUME NEW u \in Workers, NEW v \in Workers, u # v, Sending(u)', Sending(v)'
         PROVE  job'[u].to # job'[v].to
    BY <1>8, <1>10 DEF NudgeInv
  <1> QED
    BY <1>4, <1>7, <1>9, <1>10 DEF NudgeInv

LEMMA NudgeRun ==
  ASSUME TypeInv, NudgeInv, NEW w \in Workers, Run(w)
  PROVE  NudgeInv'
  <1> TypeOK
    BY DEF TypeInv
  <1>1. CASE Begin(w)
    BY <1>1, BeginMoves, NudgeQuiet DEF Begin
  <1>2. CASE QueryNew(w)
    BY <1>2, QueryNewMoves, NudgeQuiet DEF QueryNew
  <1>3. CASE QueryAudience(w)
    BY <1>3, QueryAudienceMoves, NudgeQuiet DEF QueryAudience
  <1>4. CASE FloodControl(w)
    BY <1>4, FloodControlMoves, NudgeQuiet DEF FloodControl
  <1>5. CASE AllSent(w)
    BY <1>5, AllSentMoves, NudgeQuiet DEF AllSent
  <1>6. CASE WriteWatermark(w)
    BY <1>6, EndMoves, NudgeQuiet DEF WriteWatermark, Conclude
  <1>7. CASE Crash(w)
    BY <1>7, EndMoves, NudgeQuiet DEF Crash
  <1> QED
    BY <1>1, <1>2, <1>3, <1>4, <1>5, <1>6, <1>7, NudgeClaim, NudgeSend DEF Run

LEMMA NudgeTick ==
  ASSUME TypeInv, NudgeInv, Tick
  PROVE  NudgeInv'
  <1>1. /\ clock' = clock + 1 /\ clock \in Nat
        /\ UNCHANGED <<cooldown, nudged, crowded, job>>
    BY DEF Tick, bookkeeping, TypeInv, TypeOK, Moment
  <1>2. ASSUME NEW w \in Workers, Sending(w) PROVE HoldsKey(w)'
    <2> PICK k \in Job : k = job[w]
      BY DEF TypeInv, TypeOK
    <2>1. k.claimed \in Nat /\ clock < k.claimed + MaxWait
      BY <1>2 DEF Tick, Sending, Job, Moment
    <2> QED
      BY <1>1, <1>2, <2>1 DEF NudgeInv, HoldsKey
  <1> QED
    BY <1>1, <1>2 DEF NudgeInv, KeyCovers, Sending

LEMMA NudgeSteps == TypeInv /\ NudgeInv /\ [Next]_vars => NudgeInv'
  <1> SUFFICES ASSUME TypeInv, NudgeInv, [Next]_vars PROVE NudgeInv'
    OBVIOUS
  <1>1. ASSUME UNCHANGED <<cooldown, nudged, crowded, clock, job>> PROVE NudgeInv'
    BY <1>1 DEF NudgeInv, KeyCovers, HoldsKey, Sending
  <1>2. CASE \E o \in Owners : Stamp(o) \/ CommitProfile(o) \/ Hide(o) \/ Mute(o) \/ Rate(o)
    BY <1>1, <1>2 DEF Stamp, CommitProfile, Hide, Mute, Rate, bookkeeping
  <1>3. CASE LoseWatermark \/ UNCHANGED vars
    BY <1>1, <1>3 DEF LoseWatermark, vars
  <1> QED
    BY <1>2, <1>3, NudgeRun, NudgeTick DEF Next, Rest

THEOREM NudgeInductive == Spec => [](TypeInv /\ NudgeInv)
  BY TypeStarts, NudgeStarts, TypeSteps, NudgeSteps, PTL DEF Spec

\* Whichever runs overlap, die and start again, however long flood control
\* keeps a message waiting: two messages to a user are Cooldown - MaxWait apart.
THEOREM OneNudgePerCooldown == Spec => []NudgesApart
  <1>1. NudgeInv => NudgesApart
    BY DEF NudgeInv, NudgesApart
  <1> QED
    BY <1>1, NudgeInductive, PTL

-----------------------------------------------------------------------------
(* The audience.                                                           *)

\* A row that is committed was stamped before.
RowInv ==
  \A o \in Owners :
    /\ Exists(o) => profile[o].created # Never /\ profile[o].created <= profile[o].committed
    /\ profile[o].created # Never => profile[o].created <= clock

\* The world moves on: rows, once stamped and committed, stay so.
WorldMoves ==
  /\ clock <= clock'
  /\ \A o \in Owners :
       /\ profile[o].created # Never => profile'[o].created = profile[o].created
       /\ profile[o].created = Never /\ profile'[o].created # Never => profile'[o].created = clock
       /\ Exists(o) => profile'[o].committed = profile[o].committed
       /\ ~Exists(o) /\ Exists(o)' => profile[o].created # Never /\ profile'[o].committed = clock
       /\ profile[o].spans => profile'[o].spans
       /\ muted'[o] # muted[o] => muted'[o] = clock
       /\ rated'[o] # rated[o] => rated'[o] = clock
  /\ hidden \subseteq hidden'

LEMMA WorldStep == TypeInv /\ [Next]_vars => WorldMoves
  <1> SUFFICES ASSUME TypeInv, [Next]_vars PROVE WorldMoves
    OBVIOUS
  <1>1. /\ clock \in Nat /\ profile \in [Owners -> ProfileRow]
        /\ muted \in [Owners -> Moment \cup {Never}] /\ rated \in [Owners -> Moment \cup {Never}]
    BY DEF TypeInv, TypeOK, Moment
  <1>2. ASSUME UNCHANGED <<world, clock>> PROVE WorldMoves
    BY <1>1, <1>2 DEF WorldMoves, world, Exists
  <1>3. ASSUME NEW w \in Workers, Begin(w) PROVE WorldMoves
    <2>1. /\ UNCHANGED <<hidden, muted, rated, clock>>
          /\ \A o \in Owners : profile'[o] =
               [profile[o] EXCEPT !.spans = @ \/ (profile[o].created # Never /\ ~Exists(o))]
      BY <1>3 DEF Begin
    <2>2. ASSUME NEW o \in Owners
          PROVE  /\ profile'[o].created = profile[o].created
                 /\ profile'[o].committed = profile[o].committed
                 /\ profile[o].spans => profile'[o].spans
      <3> PICK p \in ProfileRow : p = profile[o]
        BY <1>1
      <3>1. profile'[o] = [p EXCEPT !.spans = @ \/ (p.created # Never /\ ~Exists(o))]
        BY <2>1
      <3> QED
        BY <3>1 DEF ProfileRow
    <2> QED
      BY <1>1, <2>1, <2>2 DEF WorldMoves, Exists
  <1>4. ASSUME NEW w \in Workers, Run(w) PROVE WorldMoves
    BY <1>2, <1>3, <1>4
    DEF Run, QueryNew, QueryAudience, Claim, Send, FloodControl, AllSent, WriteWatermark,
        Conclude, Crash
  <1>5. ASSUME NEW o \in Owners, Stamp(o) PROVE WorldMoves
    BY <1>1, <1>5 DEF Stamp, WorldMoves, Exists, ProfileRow
  <1>6. ASSUME NEW o \in Owners, CommitProfile(o) PROVE WorldMoves
    BY <1>1, <1>6 DEF CommitProfile, WorldMoves, Exists, ProfileRow
  <1>7. ASSUME NEW o \in Owners, Hide(o) \/ Mute(o) \/ Rate(o) PROVE WorldMoves
    BY <1>1, <1>7 DEF Hide, Mute, Rate, WorldMoves, Exists
  <1>8. CASE LoseWatermark \/ UNCHANGED vars
    BY <1>2, <1>8 DEF LoseWatermark, vars, world
  <1>9. CASE Tick
    BY <1>1, <1>9 DEF Tick, WorldMoves, world, Exists
  <1> QED
    BY <1>4, <1>5, <1>6, <1>7, <1>8, <1>9 DEF Next, Rest

LEMMA RowStarts == Init => RowInv
  BY DEF Init, RowInv, Exists, NoProfile

LEMMA RowSteps == TypeInv /\ RowInv /\ WorldMoves /\ TypeInv' => RowInv'
  <1> SUFFICES ASSUME TypeInv, RowInv, WorldMoves, TypeInv', NEW o \in Owners
               PROVE  /\ Exists(o)' => /\ profile'[o].created # Never
                                       /\ profile'[o].created <= profile'[o].committed
                      /\ profile'[o].created # Never => profile'[o].created <= clock'
    BY DEF RowInv
  <1> PICK p \in ProfileRow, q \in ProfileRow : p = profile[o] /\ q = profile'[o]
    BY DEF TypeInv, TypeOK
  <1>1. clock \in Nat /\ clock' \in Nat
    BY DEF TypeInv, TypeOK, Moment
  <1>2. /\ p.committed # Never => p.created # Never /\ p.created <= p.committed
        /\ p.created # Never => p.created <= clock /\ p.created \in Nat
    BY DEF RowInv, Exists, ProfileRow, Moment
  <1>3. /\ clock <= clock'
        /\ p.created # Never => q.created = p.created
        /\ p.created = Never /\ q.created # Never => q.created = clock
        /\ p.committed # Never => q.committed = p.committed
        /\ p.committed = Never /\ q.committed # Never => p.created # Never /\ q.committed = clock
    BY DEF WorldMoves, Exists
  <1> QED
    BY <1>1, <1>2, <1>3 DEF Exists

\* Whom the run found is somebody whom the message is for.
Wanted(w, o) ==
  LET started == job[w].started
  IN  /\ o \in Owners \ Seeds
      /\ muted[o] = Never \/ muted[o] >= started
      /\ rated[o] = Never \/ rated[o] <= started - Dormant \/ rated[o] >= started
      /\ job[w].new \ {o} # {}

\* What the run takes for new is.
NewIsNew(w) ==
  \A p \in job[w].new : p \in Owners /\ Exists(p) /\ profile[p].created > job[w].since

WantInv ==
  /\ \A w \in Workers : job[w].pc # "idle" => job[w].started <= clock /\ NewIsNew(w)
  /\ \A w \in Workers : job[w].pc \in {"claim", "send", "retry"} =>
       \A o \in job[w].todo : Wanted(w, o)
  /\ \A w \in Workers : Sending(w) => Wanted(w, job[w].to)

LEMMA WantStarts == Init => WantInv
  BY DEF Init, Idle, WantInv, Sending

\* A run that keeps its window and what it found new keeps its audience.
LEMMA WantedLasts ==
  ASSUME TypeInv, WorldMoves, NEW w \in Workers, NEW o, Wanted(w, o),
         job[w].started <= clock,
         job'[w].started = job[w].started, job'[w].new = job[w].new
  PROVE  Wanted(w, o)'
  <1> PICK k \in Job : k = job[w]
    BY DEF TypeInv, TypeOK
  <1>1. /\ o \in Owners /\ k.started \in Nat /\ clock \in Nat
        /\ muted[o] # Never => muted[o] \in Nat
        /\ rated[o] # Never => rated[o] \in Nat
    BY DEF Wanted, TypeInv, TypeOK, Job, Moment
  <1>2. /\ muted'[o] # muted[o] => muted'[o] = clock
        /\ rated'[o] # rated[o] => rated'[o] = clock
    BY <1>1 DEF WorldMoves
  <1> QED
    BY <1>1, <1>2 DEF Wanted

LEMMA NewLasts ==
  ASSUME TypeInv, RowInv, WorldMoves, NEW w \in Workers, NewIsNew(w),
         job'[w].since = job[w].since, job'[w].new = job[w].new
  PROVE  NewIsNew(w)'
  BY DEF NewIsNew, RowInv, WorldMoves, Exists

\* Nothing happens to the audience of a run that keeps its window.
LEMMA WantKeeps ==
  ASSUME TypeInv, RowInv, WantInv, WorldMoves, TypeInv', NEW w \in Workers,
         job[w].pc # "idle", SameWindow(w), job'[w].new = job[w].new
  PROVE  /\ job'[w].started <= clock' /\ NewIsNew(w)'
         /\ \A o : Wanted(w, o) => Wanted(w, o)'
  <1> PICK k \in Job : k = job[w]
    BY DEF TypeInv, TypeOK
  <1>1. k.started \in Nat /\ clock \in Nat /\ clock' \in Nat /\ k.started <= clock
    BY DEF TypeInv, TypeOK, Job, Moment, WantInv
  <1>2. job'[w].started <= clock'
    BY <1>1 DEF WorldMoves, SameWindow
  <1> QED
    BY <1>1, <1>2, WantedLasts, NewLasts DEF WantInv, SameWindow

\* The conjuncts of WantInv for one run.
RunWanted(w) ==
  /\ job[w].pc # "idle" => job[w].started <= clock /\ NewIsNew(w)
  /\ job[w].pc \in {"claim", "send", "retry"} => \A o \in job[w].todo : Wanted(w, o)
  /\ Sending(w) => Wanted(w, job[w].to)

LEMMA OthersStayWanted ==
  ASSUME TypeInv, RowInv, WantInv, WorldMoves, TypeInv', NEW w \in Workers,
         OthersKeep(w), RunWanted(w)'
  PROVE  WantInv'
  <1> SUFFICES ASSUME NEW v \in Workers PROVE RunWanted(v)'
    BY DEF WantInv, RunWanted
  <1>1. CASE v # w /\ job[v].pc # "idle"
    <2>1. job'[v] = job[v] /\ SameWindow(v) /\ job'[v].new = job[v].new
      BY <1>1 DEF OthersKeep, SameWindow
    <2>2. /\ job'[v].started <= clock' /\ NewIsNew(v)'
          /\ \A o : Wanted(v, o) => Wanted(v, o)'
      BY <1>1, <2>1, WantKeeps
    <2> QED
      BY <2>1, <2>2 DEF WantInv, RunWanted, Sending
  <1>2. CASE v # w /\ job[v].pc = "idle"
    <2>1. job'[v] = job[v]
      BY <1>2 DEF OthersKeep
    <2> QED
      BY <1>2, <2>1 DEF RunWanted, Sending
  <1> QED
    BY <1>1, <1>2

LEMMA WantRun ==
  ASSUME TypeInv, RowInv, WantInv, WorldMoves, TypeInv', NEW w \in Workers, Run(w)
  PROVE  WantInv'
  <1> SUFFICES RunWanted(w)' /\ OthersKeep(w)
    BY OthersStayWanted
  <1>1. TypeOK /\ clock \in Nat
    BY DEF TypeInv, TypeOK, Moment
  <1>2. CASE Begin(w)
    <2>1. /\ OthersKeep(w) /\ clock' = clock
          /\ job'[w].pc = "query" /\ job'[w].started = clock /\ job'[w].new = {}
      BY <1>1, <1>2, BeginMoves DEF Begin
    <2>2. NewIsNew(w)'
      BY <2>1 DEF NewIsNew
    <2> QED
      BY <1>1, <2>1, <2>2 DEF RunWanted, Sending
  <1>3. CASE QueryNew(w)
    <2>1. /\ OthersKeep(w) /\ SameWindow(w)
          /\ job'[w].new = {o \in Owners : Visible(o) /\ profile[o].created > job[w].since}
          /\ job'[w].pc \in {"finish", "audience"} /\ job[w].pc = "query"
          /\ UNCHANGED <<profile, clock>>
      BY <1>1, <1>3, QueryNewMoves DEF QueryNew, At, world
    <2>2. NewIsNew(w)'
      BY <2>1 DEF NewIsNew, SameWindow, Visible, Exists
    <2> QED
      BY <2>1, <2>2 DEF RunWanted, Sending, WantInv, SameWindow
  <1>4. CASE QueryAudience(w)
    <2>1. /\ OthersKeep(w) /\ SameWindow(w) /\ job'[w].new = job[w].new
          /\ job'[w].pc = "claim" /\ job[w].pc = "audience"
          /\ UNCHANGED <<muted, rated>>
          /\ job'[w].todo = {o \in Owners : /\ Visible(o) /\ o \notin Seeds
                                            /\ muted[o] = Never
                                            /\ ~StillActive(o, w)
                                            /\ NewsFor(o, job[w].new)}
      BY <1>1, <1>4, QueryAudienceMoves DEF QueryAudience, At, world
    <2> PICK k \in Job : k = job[w]
      BY DEF TypeInv, TypeOK
    <2>2. ASSUME NEW o \in job'[w].todo PROVE Wanted(w, o)'
      <3>1. /\ o \in Owners \ Seeds /\ muted[o] = Never /\ job[w].new \ {o} # {}
            /\ rated[o] = Never \/ ~(rated[o] > job[w].started - Dormant)
        BY <2>1, <2>2 DEF StillActive, NewsFor
      <3>2. k.started \in Nat /\ (rated[o] = Never \/ rated[o] \in Nat)
        BY <3>1 DEF Job, Moment, TypeInv, TypeOK
      <3> QED
        BY <2>1, <3>1, <3>2 DEF Wanted, SameWindow
    <2>3. job'[w].started <= clock' /\ NewIsNew(w)'
      BY <2>1, WantKeeps
    <2> QED
      BY <2>1, <2>2, <2>3 DEF RunWanted, Sending
  <1>5. ASSUME NEW o \in Owners, Claim(w, o) PROVE RunWanted(w)' /\ OthersKeep(w)
    <2>1. /\ OthersKeep(w) /\ SameWindow(w) /\ job'[w].new = job[w].new
          /\ job'[w].todo = job[w].todo \ {o} /\ o \in job[w].todo
          /\ job'[w].pc = "claim" \/ (job'[w].pc = "send" /\ job'[w].to = o)
          /\ job[w].pc = "claim"
      BY <1>1, <1>5, ClaimMoves DEF Claim, At
    <2> QED
      BY <2>1, WantKeeps DEF RunWanted, Sending, WantInv
  <1>6. CASE Send(w)
    BY <1>1, <1>6, SendMoves, WantKeeps DEF Send, RunWanted, Sending, WantInv
  <1>7. CASE FloodControl(w)
    BY <1>1, <1>7, FloodControlMoves, WantKeeps DEF RunWanted, Sending, WantInv
  <1>8. CASE AllSent(w)
    BY <1>1, <1>8, AllSentMoves, WantKeeps DEF AllSent, At, RunWanted, Sending, WantInv
  <1>9. CASE WriteWatermark(w) \/ Crash(w)
    BY <1>1, <1>9, EndMoves DEF RunWanted, Sending
  <1> QED
    BY <1>2, <1>3, <1>4, <1>5, <1>6, <1>7, <1>8, <1>9 DEF Run

LEMMA WantSteps == TypeInv /\ RowInv /\ WantInv /\ [Next]_vars /\ TypeInv' => WantInv'
  <1> SUFFICES ASSUME TypeInv, RowInv, WantInv, [Next]_vars, TypeInv' PROVE WantInv'
    OBVIOUS
  <1>1. WorldMoves
    BY WorldStep
  <1>2. ASSUME job' = job PROVE WantInv'
    <2> SUFFICES ASSUME NEW v \in Workers PROVE RunWanted(v)'
      BY DEF WantInv, RunWanted
    <2>1. job'[v] = job[v] /\ SameWindow(v) /\ job'[v].new = job[v].new
      BY <1>2 DEF SameWindow
    <2> QED
      BY <1>1, <2>1, WantKeeps DEF WantInv, RunWanted, Sending
  <1>3. CASE ~\E w \in Workers : Run(w)
    BY <1>2, <1>3
    DEF Next, Rest, Stamp, CommitProfile, Hide, Mute, Rate, LoseWatermark, Tick, bookkeeping, vars
  <1> QED
    BY <1>1, <1>3, WantRun

THEOREM WantInductive == Spec => [](TypeInv /\ RowInv /\ WantInv)
  BY TypeStarts, RowStarts, WantStarts, TypeSteps, WorldStep, RowSteps, WantSteps, PTL DEF Spec

\* However the world changes while a run sends its messages one by one, each
\* goes to somebody for whom it was meant when the run began.
THEOREM OnlyTheWanted == Spec => MessagesAreWanted
  <1>1. ASSUME TypeInv, WantInv PROVE SentToWanted
    <2> SUFFICES ASSUME NEW w \in Workers, Send(w)
                 PROVE  /\ Wanted(w, job[w].to) /\ NewIsNew(w)
      BY DEF SentToWanted, Wanted, NewIsNew
    <2>1. Sending(w) /\ job[w].pc # "idle"
      BY DEF Send, Sending
    <2> QED
      BY <1>1, <2>1 DEF WantInv
  <1>2. TypeInv /\ RowInv /\ WantInv => [SentToWanted]_vars
    BY <1>1
  <1> QED
    BY <1>2, WantInductive, PTL DEF MessagesAreWanted

-----------------------------------------------------------------------------
(* The windows.                                                            *)

\* x is when some run began: no row is stamped then, and one that was stamped
\* before and is still not committed is known to span the beginning of a run.
Mark(x) ==
  /\ x <= clock
  /\ \A o \in Owners : profile[o].created # Never =>
       /\ profile[o].created # x
       /\ profile[o].created < x /\ ~Exists(o) => profile[o].spans

\* Completed runs know of every row that was stamped until x.
Covered(x) ==
  \A o \in Owners :
    /\ Visible(o) /\ ~profile[o].spans
    /\ profile[o].created > horizon /\ profile[o].created < x
    => o \in announced

\* A run begins where the runs before it are known to have ended, and finds
\* everything in its window.
RunWindow(w) ==
  job[w].pc # "idle" =>
    /\ Mark(job[w].started)
    /\ ~job[w].fallback =>
         /\ Mark(job[w].since) /\ Covered(job[w].since)
         /\ job[w].since < job[w].started
    /\ job[w].pc # "query" =>
         \A o \in Owners :
           /\ Visible(o) /\ ~profile[o].spans
           /\ profile[o].created > job[w].since /\ profile[o].created < job[w].started
           => o \in job[w].new

WindowInv ==
  /\ watermark # Never => Mark(watermark) /\ Covered(watermark)
  /\ \A w \in Workers : RunWindow(w)

LEMMA WindowStarts == Init => WindowInv
  BY DEF Init, Idle, WindowInv, RunWindow

\* No step stamps a row when a run began, forgets an announcement or goes back.
WindowMoves ==
  /\ Unstamped \/ \A o \in Owners : profile'[o].created = profile[o].created
  /\ horizon <= horizon'
  /\ announced \subseteq announced'

LEMMA WindowStep == TypeInv /\ [Next]_vars => WindowMoves
  <1> SUFFICES ASSUME TypeInv, [Next]_vars PROVE WindowMoves
    OBVIOUS
  <1>1. horizon \in Int /\ profile \in [Owners -> ProfileRow]
    BY DEF TypeInv, TypeOK
  <1>2. ASSUME NEW w \in Workers, WriteWatermark(w) PROVE WindowMoves
    <2> PICK k \in Job : k = job[w]
      BY DEF TypeInv, TypeOK
    <2>1. k.since \in Int
      BY DEF Job
    <2> QED
      BY <1>1, <1>2, <2>1 DEF WriteWatermark, Conclude, WindowMoves, world
  <1>3. ASSUME NEW w \in Workers, Run(w) PROVE WindowMoves
    <2>1. CASE Begin(w)
      BY <1>1, <2>1 DEF Begin, WindowMoves
    <2>2. ASSUME UNCHANGED <<profile, horizon, announced>> PROVE WindowMoves
      BY <1>1, <2>2 DEF WindowMoves
    <2> QED
      BY <1>2, <1>3, <2>1, <2>2
      DEF Run, QueryNew, QueryAudience, Claim, Send, FloodControl, AllSent, Crash, world
  <1>4. ASSUME NEW o \in Owners, Stamp(o) PROVE WindowMoves
    BY <1>1, <1>4 DEF Stamp, WindowMoves, bookkeeping
  <1>5. ASSUME NEW o \in Owners, CommitProfile(o) PROVE WindowMoves
    BY <1>1, <1>5 DEF CommitProfile, WindowMoves, bookkeeping, ProfileRow
  <1>6. ASSUME NEW o \in Owners, Hide(o) \/ Mute(o) \/ Rate(o) PROVE WindowMoves
    BY <1>1, <1>6 DEF Hide, Mute, Rate, WindowMoves, bookkeeping
  <1>7. CASE LoseWatermark \/ Tick \/ UNCHANGED vars
    BY <1>1, <1>7 DEF LoseWatermark, Tick, WindowMoves, world, bookkeeping, vars
  <1> QED
    BY <1>3, <1>4, <1>5, <1>6, <1>7 DEF Next, Rest

\* What is known of a row that is committed, or was stamped before x.
LEMMA RowLasts ==
  ASSUME TypeInv, RowInv, WorldMoves, NEW x, Mark(x), NEW o \in Owners,
         Visible(o)', ~profile'[o].spans, profile'[o].created < x, x \in Int
  PROVE  /\ Visible(o) /\ ~profile[o].spans
         /\ profile'[o].created = profile[o].created
  <1>1. profile[o].spans => profile'[o].spans
    BY DEF WorldMoves
  <1>2. Exists(o)
    <2> SUFFICES ASSUME ~Exists(o) PROVE FALSE
      OBVIOUS
    <2>1. profile[o].created # Never /\ profile'[o].created = profile[o].created
      BY DEF WorldMoves, Visible
    <2> QED
      BY <1>1, <2>1 DEF Mark
  <1>3. profile'[o].created = profile[o].created
    BY <1>2 DEF RowInv, WorldMoves
  <1>4. o \notin hidden
    BY DEF WorldMoves, Visible
  <1> QED
    BY <1>1, <1>2, <1>3, <1>4 DEF Visible

LEMMA MarkLasts ==
  ASSUME TypeInv, RowInv, WorldMoves, WindowMoves, TypeInv', NEW x \in Int, Mark(x),
         Unstamped => clock # x
  PROVE  Mark(x)'
  <1>1. clock \in Nat /\ clock' \in Nat /\ clock <= clock'
    BY DEF TypeInv, TypeOK, Moment, WorldMoves
  <1>2. ASSUME NEW o \in Owners, profile'[o].created # Never
        PROVE  /\ profile'[o].created # x
               /\ profile'[o].created < x /\ ~Exists(o)' => profile'[o].spans
    <2>1. CASE profile[o].created # Never
      <3>1. profile'[o].created = profile[o].created /\ (Exists(o) => Exists(o)')
        BY <2>1 DEF WorldMoves, Exists
      <3> QED
        BY <2>1, <3>1 DEF Mark, WorldMoves
    <2>2. CASE profile[o].created = Never
      <3>1. profile'[o].created = clock /\ clock # x
        BY <1>2, <2>2 DEF WorldMoves, WindowMoves
      <3> QED
        BY <1>1, <3>1 DEF Mark
    <2> QED
      BY <2>1, <2>2
  <1>3. x <= clock'
    BY <1>1 DEF Mark
  <1> QED
    BY <1>2, <1>3 DEF Mark

LEMMA CoveredLasts ==
  ASSUME TypeInv, RowInv, WorldMoves, WindowMoves, TypeInv', NEW x \in Int, Mark(x), Covered(x)
  PROVE  Covered(x)'
  <1> SUFFICES ASSUME NEW o \in Owners, Visible(o)', ~profile'[o].spans,
                      profile'[o].created > horizon', profile'[o].created < x
               PROVE  o \in announced'
    BY DEF Covered
  <1>1. /\ Visible(o) /\ ~profile[o].spans
        /\ profile'[o].created = profile[o].created
    BY RowLasts
  <1>2. profile[o].created \in Nat
    BY <1>1 DEF Visible, RowInv, TypeInv, TypeOK, ProfileRow, Moment
  <1>3. horizon \in Int /\ horizon' \in Int /\ horizon <= horizon'
    BY DEF TypeInv, TypeOK, WindowMoves
  <1> QED
    BY <1>1, <1>2, <1>3 DEF Covered, WindowMoves

LEMMA RunWindowLasts ==
  ASSUME TypeInv, RowInv, WindowInv, WorldMoves, WindowMoves, TypeInv',
         NEW w \in Workers, job[w].pc # "idle", SameWindow(w)
  PROVE  /\ Mark(job[w].started)'
         /\ ~job'[w].fallback =>
              /\ Mark(job[w].since)' /\ Covered(job[w].since)'
              /\ job'[w].since < job'[w].started
         /\ job[w].pc # "query" /\ job'[w].new = job[w].new /\ job'[w].pc # "query" =>
              RunWindow(w)'
  <1> PICK k \in Job : k = job[w]
    BY DEF TypeInv, TypeOK
  <1>1. k.started \in Int /\ k.since \in Int /\ clock \in Int
    BY DEF Job, Moment, TypeInv, TypeOK
  <1>2. RunWindow(w) /\ job'[w].started = k.started /\ job'[w].since = k.since
        /\ job'[w].fallback = k.fallback
    BY DEF WindowInv, SameWindow
  <1>3. Mark(k.started)
    BY <1>2 DEF RunWindow
  <1>4. Unstamped => clock # k.started
    BY DEF Unstamped, At
  <1>5. Mark(k.started)'
    BY <1>1, <1>3, <1>4, MarkLasts
  <1>6. ASSUME ~k.fallback PROVE Mark(k.since)' /\ Covered(k.since)' /\ k.since < k.started
    <2>1. Mark(k.since) /\ Covered(k.since) /\ k.since < k.started /\ k.started <= clock
      BY <1>2, <1>3, <1>6 DEF RunWindow, Mark
    <2>2. clock # k.since
      BY <1>1, <2>1
    <2> QED
      BY <1>1, <2>1, <2>2, MarkLasts, CoveredLasts
  <1>7. ASSUME NEW o \in Owners, Visible(o)', ~profile'[o].spans,
               profile'[o].created > k.since, profile'[o].created < k.started,
               k.pc # "query", job'[w].new = k.new
        PROVE  o \in job'[w].new
    <2>1. /\ Visible(o) /\ ~profile[o].spans
          /\ profile'[o].created = profile[o].created
      BY <1>1, <1>3, <1>7, RowLasts
    <2> QED
      BY <1>2, <1>7, <2>1 DEF RunWindow
  <1> QED
    BY <1>2, <1>5, <1>6, <1>7 DEF RunWindow

LEMMA OthersKeepWindows ==
  ASSUME TypeInv, RowInv, WindowInv, WorldMoves, WindowMoves, TypeInv',
         NEW w \in Workers, job'[w] = job[w]
  PROVE  RunWindow(w)'
  <1>1. CASE job[w].pc = "idle"
    BY <1>1 DEF RunWindow
  <1>2. CASE job[w].pc # "idle"
    <2>1. SameWindow(w) /\ job'[w].new = job[w].new /\ job'[w].pc = job[w].pc
      BY DEF SameWindow
    <2>2. CASE job[w].pc = "query"
      BY <1>2, <2>1, <2>2, RunWindowLasts DEF RunWindow
    <2>3. CASE job[w].pc # "query"
      BY <1>2, <2>1, <2>3, RunWindowLasts
    <2> QED
      BY <2>2, <2>3
  <1> QED
    BY <1>1, <1>2

LEMMA WatermarkLasts ==
  ASSUME TypeInv, RowInv, WindowInv, WorldMoves, WindowMoves, TypeInv',
         watermark' \in {watermark, Never}, watermark' # Never
  PROVE  Mark(watermark)' /\ Covered(watermark)'
  <1>1. watermark' = watermark /\ watermark \in Int /\ Mark(watermark) /\ Covered(watermark)
    BY DEF TypeInv, TypeOK, Moment, WindowInv
  <1> PICK x \in Int : x = watermark
    BY <1>1
  <1>2. Unstamped => clock # x
    BY DEF Unstamped
  <1>3. Mark(x)' /\ Covered(x)'
    BY <1>1, <1>2, MarkLasts, CoveredLasts
  <1> QED
    BY <1>1, <1>3

LEMMA WindowBegin ==
  ASSUME TypeInv, RowInv, WindowInv, WorldMoves, WindowMoves, TypeInv',
         NEW w \in Workers, Begin(w)
  PROVE  RunWindow(w)'
  <1>1. /\ job'[w].pc = "query" /\ job'[w].started = clock
        /\ job'[w].since = ReadWatermark /\ job'[w].fallback = (watermark = Never)
        /\ Unstamped /\ UNCHANGED <<watermark, clock>>
    BY BeginMoves DEF TypeInv, Begin
  <1>2. clock \in Int /\ profile \in [Owners -> ProfileRow]
    BY DEF TypeInv, TypeOK, Moment
  <1>3. ASSUME NEW o \in Owners, profile'[o].created # Never
        PROVE  /\ profile'[o].created # clock
               /\ ~Exists(o)' => profile'[o].spans
    <2> PICK p \in ProfileRow : p = profile[o]
      BY <1>2
    <2>1. profile'[o] = [p EXCEPT !.spans = @ \/ (p.created # Never /\ ~Exists(o))]
      BY DEF Begin
    <2>2. /\ profile'[o].created = p.created /\ profile'[o].committed = p.committed
          /\ profile'[o].spans = (p.spans \/ (p.created # Never /\ ~Exists(o)))
      BY <2>1 DEF ProfileRow
    <2> QED
      BY <1>1, <1>3, <2>2 DEF Unstamped, Exists
  <1>4. Mark(job[w].started)'
    BY <1>1, <1>2, <1>3 DEF Mark
  <1>5. ASSUME watermark # Never
        PROVE  Mark(job[w].since)' /\ Covered(job[w].since)' /\ job'[w].since < job'[w].started
    <2>1. job'[w].since = watermark' /\ watermark' = watermark /\ watermark \in Int
      BY <1>1, <1>5 DEF ReadWatermark, TypeInv, TypeOK, Moment
    <2>2. Mark(watermark)' /\ Covered(watermark)'
      BY <1>5, <2>1, WatermarkLasts
    <2>3. watermark <= clock /\ watermark # clock
      BY <1>1, <1>5 DEF WindowInv, Mark, Unstamped
    <2> QED
      BY <1>1, <1>2, <2>1, <2>2, <2>3
  <1> QED
    BY <1>1, <1>4, <1>5 DEF RunWindow

LEMMA WindowQuery ==
  ASSUME TypeInv, RowInv, WindowInv, WorldMoves, WindowMoves, TypeInv',
         NEW w \in Workers, QueryNew(w)
  PROVE  RunWindow(w)'
  <1>1. /\ SameWindow(w) /\ job[w].pc = "query"
        /\ job'[w].new = {o \in Owners : Visible(o) /\ profile[o].created > job[w].since}
        /\ UNCHANGED world
    BY QueryNewMoves DEF TypeInv, QueryNew, At
  <1>2. /\ Mark(job[w].started)'
        /\ ~job'[w].fallback =>
             /\ Mark(job[w].since)' /\ Covered(job[w].since)'
             /\ job'[w].since < job'[w].started
    BY <1>1, RunWindowLasts
  <1>3. \A o \in Owners :
          Visible(o)' /\ profile'[o].created > job'[w].since => o \in job'[w].new
    BY <1>1 DEF world, Visible, Exists, SameWindow
  <1> QED
    BY <1>2, <1>3 DEF RunWindow

\* A run that completes covers its window, and the runs before it what is before.
LEMMA WindowCompletes ==
  ASSUME TypeInv, RowInv, WindowInv, WorldMoves, WindowMoves, TypeInv',
         NEW w \in Workers, WriteWatermark(w)
  PROVE  Mark(watermark)' /\ Covered(watermark)'
  <1> PICK k \in Job : k = job[w]
    BY DEF TypeInv, TypeOK
  <1>1. /\ k.started \in Int /\ k.since \in Int /\ k.pc = "finish" /\ clock \in Int
        /\ horizon \in Int
    BY DEF WriteWatermark, At, Job, Moment, TypeInv, TypeOK
  <1>2. /\ watermark' = k.started /\ announced' = announced \cup k.new
        /\ horizon' = IF k.fallback /\ k.since > horizon THEN k.since ELSE horizon
        /\ UNCHANGED <<profile, hidden>>
    BY DEF WriteWatermark, Conclude, world
  <1>3. RunWindow(w) /\ Mark(k.started)
    BY <1>1 DEF WindowInv, RunWindow
  <1>4. Unstamped => clock # k.started
    BY <1>1 DEF Unstamped, At
  <1>5. Mark(k.started)'
    BY <1>1, <1>3, <1>4, MarkLasts
  <1>6. ASSUME NEW o \in Owners, Visible(o), ~profile[o].spans,
               profile[o].created > horizon', profile[o].created < k.started
        PROVE  o \in announced'
    <2>1. profile[o].created \in Int /\ profile[o].created # Never
      BY <1>6 DEF Visible, RowInv, TypeInv, TypeOK, ProfileRow, Moment
    <2>2. CASE profile[o].created > k.since
      <3> o \in k.new
        BY <1>1, <1>3, <1>6, <2>2 DEF RunWindow
      <3> QED
        BY <1>2
    <2>3. CASE ~(profile[o].created > k.since)
      <3>1. ~k.fallback
        BY <1>1, <1>2, <1>6, <2>1, <2>3
      <3>2. Mark(k.since) /\ Covered(k.since)
        BY <1>1, <1>3, <3>1 DEF RunWindow
      <3>3. profile[o].created < k.since
        BY <1>1, <2>1, <2>3, <3>2 DEF Mark
      <3> QED
        BY <1>2, <1>6, <3>1, <3>2, <3>3 DEF Covered
    <2> QED
      BY <2>2, <2>3
  <1>7. Covered(k.started)'
    BY <1>2, <1>6 DEF Covered, Visible, Exists
  <1> QED
    BY <1>2, <1>5, <1>7

LEMMA WindowRun ==
  ASSUME TypeInv, RowInv, WindowInv, WorldMoves, WindowMoves, TypeInv',
         NEW w \in Workers, Run(w)
  PROVE  WindowInv'
  <1> TypeOK
    BY DEF TypeInv
  <1>1. RunWindow(w)' /\ OthersKeep(w)
    <2>1. CASE Begin(w)
      BY <2>1, WindowBegin, BeginMoves
    <2>2. CASE QueryNew(w)
      BY <2>2, WindowQuery, QueryNewMoves
    <2>3. CASE QueryAudience(w)
      BY <2>3, QueryAudienceMoves, RunWindowLasts DEF QueryAudience, At
    <2>4. ASSUME NEW o \in Owners, Claim(w, o) PROVE RunWindow(w)' /\ OthersKeep(w)
      <3>1. /\ OthersKeep(w) /\ SameWindow(w) /\ job'[w].new = job[w].new
            /\ job'[w].pc # "query" /\ job[w].pc = "claim"
        BY <2>4, ClaimMoves DEF Claim, At
      <3> QED
        BY <3>1, RunWindowLasts
    <2>5. CASE Send(w)
      BY <2>5, SendMoves, RunWindowLasts DEF Send
    <2>6. CASE FloodControl(w)
      BY <2>6, FloodControlMoves, RunWindowLasts DEF FloodControl, At
    <2>7. CASE AllSent(w)
      BY <2>7, AllSentMoves, RunWindowLasts DEF AllSent, At
    <2>8. CASE WriteWatermark(w) \/ Crash(w)
      BY <2>8, EndMoves DEF RunWindow
    <2> QED
      BY <2>1, <2>2, <2>3, <2>4, <2>5, <2>6, <2>7, <2>8 DEF Run
  <1>2. ASSUME NEW v \in Workers PROVE RunWindow(v)'
    BY <1>1, OthersKeepWindows DEF OthersKeep
  <1>3. ASSUME watermark' # Never PROVE Mark(watermark)' /\ Covered(watermark)'
    <2>1. CASE WriteWatermark(w)
      BY <2>1, WindowCompletes
    <2>2. CASE ~WriteWatermark(w)
      <3> watermark' = watermark
        BY <2>2 DEF Run, Begin, QueryNew, QueryAudience, Claim, Send, FloodControl, AllSent, Crash
      <3> QED
        BY <1>3, WatermarkLasts
    <2> QED
      BY <2>1, <2>2
  <1> QED
    BY <1>2, <1>3 DEF WindowInv

LEMMA WindowSteps == TypeInv /\ RowInv /\ WindowInv /\ [Next]_vars /\ TypeInv' => WindowInv'
  <1> SUFFICES ASSUME TypeInv, RowInv, WindowInv, [Next]_vars, TypeInv' PROVE WindowInv'
    OBVIOUS
  <1>1. WorldMoves /\ WindowMoves
    BY WorldStep, WindowStep
  <1>2. CASE ~\E w \in Workers : Run(w)
    <2>1. job' = job /\ watermark' \in {watermark, Never}
      BY <1>2
      DEF Next, Rest, Stamp, CommitProfile, Hide, Mute, Rate, LoseWatermark, Tick, bookkeeping, vars
    <2> QED
      BY <1>1, <2>1, OthersKeepWindows, WatermarkLasts DEF WindowInv
  <1> QED
    BY <1>1, <1>2, WindowRun

THEOREM WindowInductive == Spec => [](TypeInv /\ RowInv /\ WindowInv)
  BY TypeStarts, RowStarts, WindowStarts, TypeSteps, WorldStep, RowSteps, WindowSteps, PTL
  DEF Spec

\* Whichever runs overlap, die, or complete out of order, and although the
\* watermark may go back: no profile falls between two windows, but one whose
\* transaction was open when a run began.
THEOREM NoCracks == Spec => []NothingFallsThrough
  <1>1. ASSUME TypeInv, RowInv, WindowInv, NEW o \in Owners,
               Visible(o), ~profile[o].spans, profile[o].created > horizon,
               watermark # Never, profile[o].committed < watermark
        PROVE  o \in announced
    <2>1. /\ profile[o].created \in Nat /\ profile[o].committed \in Nat /\ watermark \in Nat
          /\ profile[o].created <= profile[o].committed
      BY <1>1 DEF Visible, Exists, RowInv, TypeInv, TypeOK, ProfileRow, Moment
    <2>2. profile[o].created < watermark
      BY <1>1, <2>1
    <2> QED
      BY <1>1, <2>2 DEF WindowInv, Covered
  <1>2. TypeInv /\ RowInv /\ WindowInv => NothingFallsThrough
    BY <1>1 DEF NothingFallsThrough
  <1> QED
    BY <1>2, WindowInductive, PTL

=============================================================================
