---------------------------- MODULE PremiumProofs ----------------------------
(***************************************************************************)
(* Proofs about Premium, for any number of users, sessions, transactions,  *)
(* grants and charges, any tiers and durations, with and without failures  *)
(* and repeated deliveries.                                                *)
(***************************************************************************)
EXTENDS PremiumHistory, FiniteSetTheorems, TLAPS

(***************************************************************************)
(* The inductive invariant.  PaidIffGranted and RefundedIsOver are about   *)
(* the committed tables only; what keeps them true is what the sessions    *)
(* that are about to commit have read and locked.                          *)
(***************************************************************************)

\* What a session carries agrees with the tables it was read from.
JobMatchesTables(s) ==
  /\ job[s].op = "idle" => job[s] = Idle
  /\ job[s].op = "invoice" =>
       /\ job[s].txn \in Txns \ DOMAIN txn
       /\ job[s].owner \in Users /\ job[s].tier \in SoldTiers
       /\ job[s].pc \in {"send", "commit"}
  /\ job[s].op = "confirm" =>
       /\ job[s].txn \in DOMAIN txn
       /\ job[s].charge \in DOMAIN charge
       /\ charge[job[s].charge].txn = job[s].txn
       /\ job[s].owner = txn[job[s].txn].payer
       /\ job[s].tier = txn[job[s].txn].tier
       /\ job[s].pc \in {"flush", "list", "revoke", "commit"}
  /\ job[s].op = "activate" =>
       /\ job[s].txn = NoTxn
       /\ job[s].owner \in Users /\ job[s].tier \in SoldTiers
       /\ job[s].pc \in {"list", "revoke", "commit"}
  /\ job[s].op = "refund" =>
       /\ job[s].txn \in DOMAIN txn
       /\ txn[job[s].txn].status # "pending"
       /\ job[s].charge = txn[job[s].txn].external
       /\ job[s].pc \in {"gateway", "flush", "find", "revoke"}
       /\ job[s].pc # "gateway" => charge[job[s].charge].refunded
  /\ job[s].op = "kill" =>
       /\ job[s].txn = NoTxn
       /\ job[s].pc \in {"list", "revoke"}

\* Only a purchase at its commit has an uncommitted new row, in the ledger
\* of nobody yet; loops run over committed rows that the use case may change.
JobMatchesLedger(s) ==
  /\ job[s].new # NoGrant <=>
       job[s].op \in {"confirm", "activate"} /\ job[s].pc = "commit"
  /\ job[s].new \notin DOMAIN ledger
  /\ job[s].todo \cup job[s].done \subseteq DOMAIN ledger
  /\ \A g \in job[s].todo \cup job[s].done :
       \/ /\ job[s].op \in {"confirm", "activate"}
          /\ ledger[g].owner = job[s].owner
          /\ IsPurchase(ledger[g])
       \/ job[s].op = "kill" /\ ledger[g].owner = job[s].owner
       \/ job[s].op = "refund" /\ ledger[g].txn = job[s].txn

\* Ids are new: two sessions never hold the same unfinished row.
IdsAreFresh ==
  \A r, s \in Sessions :
    /\ job[r].new = job[s].new /\ job[r].new # NoGrant => r = s
    /\ job[r].op = "invoice" /\ job[r].txn = job[s].txn => r = s

LocksExclude ==
  \A r, s \in Sessions : \A x \in Txns :
    HoldsTxn(r, x) /\ HoldsTxn(s, x) => r = s

\* The unique index let a confirmation through, and the lock on its
\* transaction keeps the ledger free of other grants for it.
ConfirmWillBeFirst(s) ==
  At(s, "confirm", "commit") => GrantsFor(job[s].txn) = {}

\* Every grant a refund has to end is ended, or is on the session's list.
RefundWillRevoke(s) ==
  At(s, "refund", "revoke") =>
    \A g \in GrantsFor(job[s].txn) :
      ledger[g].revoked \/ g \in job[s].todo \cup job[s].done

PaidHasCharge ==
  \A x \in DOMAIN txn :
    txn[x].status # "pending" =>
      /\ txn[x].external \in DOMAIN charge
      /\ charge[txn[x].external].txn = x

SessionInv(s) ==
  /\ JobMatchesTables(s)
  /\ JobMatchesLedger(s)
  /\ ConfirmWillBeFirst(s)
  /\ RefundWillRevoke(s)

TablesInv == PaidHasCharge /\ PaidIffGranted /\ RefundedIsOver

IInv ==
  /\ TypeOK
  /\ \A s \in Sessions : SessionInv(s)
  /\ IdsAreFresh
  /\ LocksExclude
  /\ TablesInv

-----------------------------------------------------------------------------
(* What every step of a session does to the tables: rows stay, the columns *)
(* that identify them stay, a payment and a revocation are for good, and a *)
(* new row has an id that only this session holds.                         *)

TxnGrows(s) ==
  /\ DOMAIN txn \subseteq DOMAIN txn'
  /\ \A x \in DOMAIN txn' \ DOMAIN txn : At(s, "invoice", "commit") /\ x = job[s].txn
  /\ \A x \in DOMAIN txn :
       /\ txn'[x].payer = txn[x].payer /\ txn'[x].tier = txn[x].tier
       /\ txn[x].status # "pending" =>
            txn'[x].status # "pending" /\ txn'[x].external = txn[x].external

LedgerGrows(s) ==
  /\ DOMAIN ledger \subseteq DOMAIN ledger'
  /\ \A g \in DOMAIN ledger' \ DOMAIN ledger :
       /\ g = job[s].new /\ g # NoGrant
       /\ ledger'[g].txn # NoTxn => HoldsTxn(s, ledger'[g].txn)
  /\ \A g \in DOMAIN ledger :
       /\ ledger'[g].owner = ledger[g].owner /\ ledger'[g].tier = ledger[g].tier
       /\ ledger'[g].txn = ledger[g].txn
       /\ ledger[g].revoked => ledger'[g].revoked

ChargeGrows ==
  /\ DOMAIN charge \subseteq DOMAIN charge'
  /\ \A c \in DOMAIN charge :
       /\ charge'[c].txn = charge[c].txn
       /\ charge[c].refunded => charge'[c].refunded

\* A session that takes no part in such a step keeps its invariant.
LEMMA OthersUndisturbed ==
  ASSUME IInv, NEW s \in Sessions, NEW r \in Sessions, r # s,
         job'[r] = job[r], TxnGrows(s), LedgerGrows(s), ChargeGrows
  PROVE  SessionInv(r)'
<1> USE DEF IInv, SessionInv
<1>1. JobMatchesTables(r)'
  BY DEF JobMatchesTables, TxnGrows, ChargeGrows, IdsAreFresh, TypeOK, Job,
         TablesInv, PaidHasCharge, At
<1>2. JobMatchesLedger(r)'
  BY NullsAreNotIds DEF JobMatchesLedger, LedgerGrows, IdsAreFresh, TypeOK, Job, IsPurchase
<1>3. ASSUME NEW g \in DOMAIN ledger' \ DOMAIN ledger,
             HoldsTxn(r, job[r].txn), job[r].txn \in Txns
      PROVE  ledger'[g].txn # job[r].txn
  BY <1>3, NullsAreNotIds DEF LedgerGrows, LocksExclude
<1>4. ConfirmWillBeFirst(r)'
  BY <1>3 DEF ConfirmWillBeFirst, GrantsFor, LedgerGrows, At, HoldsTxn, JobMatchesTables, TypeOK
<1>5. RefundWillRevoke(r)'
  BY <1>3 DEF RefundWillRevoke, GrantsFor, LedgerGrows, At, HoldsTxn, JobMatchesTables, TypeOK
<1> QED BY <1>1, <1>2, <1>4, <1>5


\* Nor do the tables or the other sessions mind a step of one session that
\* writes nothing but its job.
LEMMA JobStep ==
  ASSUME IInv, NEW s \in Sessions, NEW j \in Job,
         job' = [job EXCEPT ![s] = j],
         UNCHANGED <<txn, ledger>>,
         chat' \subseteq Txns,
         DOMAIN charge' \subseteq Charges,
         charge' \in [DOMAIN charge' -> ChargeRow],
         inbox' \subseteq DOMAIN charge',
         ChargeGrows,
         clock' \in Time,
         SessionInv(s)',
         j.new \in {job[s].new, NoGrant} \/ Fresh(j.new),
         \A r \in Sessions \ {s} :
           j.op = "invoice" \/ job[r].op = "invoice" => job[r].txn # j.txn,
         \A x \in Txns : HoldsTxn(s, x)' => HoldsTxn(s, x) \/ ~TxnLocked(s, x)
  PROVE  IInv'
<1> USE DEF IInv
<1>1. TypeOK'
  BY DEF TypeOK
<1>2. ASSUME NEW r \in Sessions PROVE SessionInv(r)'
  <2>1. CASE r = s BY <2>1
  <2>2. CASE r # s
    <3>1. job'[r] = job[r] BY <2>2 DEF TypeOK
    <3>2. TxnGrows(s) /\ LedgerGrows(s) BY DEF TxnGrows, LedgerGrows
    <3> QED BY <2>2, <3>1, <3>2, OthersUndisturbed
  <2> QED BY <2>1, <2>2
<1>3. IdsAreFresh'
  BY DEF IdsAreFresh, TypeOK, Fresh
<1>4. LocksExclude'
  <2>1. \A r \in Sessions \ {s} : \A x \in Txns : HoldsTxn(r, x)' <=> HoldsTxn(r, x)
    BY DEF HoldsTxn, TypeOK
  <2> QED BY <2>1 DEF LocksExclude, TxnLocked
<1>5. TablesInv'
  <2>1. PaidHasCharge' BY DEF TablesInv, PaidHasCharge, ChargeGrows
  <2>2. PaidIffGranted' BY DEF TablesInv, PaidIffGranted, GrantsFor
  <2>3. RefundedIsOver' BY DEF TablesInv, RefundedIsOver, GrantsFor, ChargeGrows
  <2> QED BY <2>1, <2>2, <2>3 DEF TablesInv
<1> QED BY <1>1, <1>2, <1>3, <1>4, <1>5

\* A session that ends without a commit.
LEMMA EndStep ==
  ASSUME IInv, NEW s \in Sessions, End(s), UNCHANGED <<tables, telegram, clock>>
  PROVE  IInv'
<1>1. Idle \in Job
  BY TimesAreNaturals DEF Idle, Request, Job, Ops, Pcs, Time
<1>2. TypeOK /\ job' = [job EXCEPT ![s] = Idle] /\ job'[s] = Idle
  BY DEF End, IInv, TypeOK
<1>3. SessionInv(s)'
  BY <1>2, NullsAreNotIds
  DEF SessionInv, JobMatchesTables, JobMatchesLedger, ConfirmWillBeFirst,
      RefundWillRevoke, Idle, Request, At, TypeOK, tables
<1>4. \A r \in Sessions \ {s} : job[r].op = "invoice" => job[r].txn # NoTxn
  BY NullsAreNotIds DEF IInv, SessionInv, JobMatchesTables
<1>5. \A x \in Txns : ~HoldsTxn(s, x)'
  BY <1>2 DEF HoldsTxn, Idle, Request
<1>6. Idle.new = NoGrant /\ Idle.op # "invoice" /\ Idle.txn = NoTxn
  BY DEF Idle, Request
<1> QED
  BY <1>1, <1>2, <1>3, <1>4, <1>5, <1>6, JobStep
  DEF tables, telegram, TypeOK, ChargeGrows

-----------------------------------------------------------------------------
(* Sessions that begin a request.                                          *)

LEMMA InvoiceAddStep ==
  ASSUME IInv, NEW s \in Sessions, NEW u \in Users, NEW t \in SoldTiers,
         NEW x \in Txns, InvoiceAdd(s, u, t, x)
  PROVE  IInv'
<1> DEFINE j == Request("invoice", "send", x, NoCharge, u, t, 0)
<1>1. job' = [job EXCEPT ![s] = j] /\ job'[s] = j
  BY DEF InvoiceAdd, Begin, IInv, TypeOK
<1>2. j \in Job
  BY TimesAreNaturals DEF Request, Job, Ops, Pcs, Time
<1>3. j.new = NoGrant /\ j.op = "invoice" /\ j.txn = x
  BY DEF Request
<1>4. SessionInv(s)'
  BY <1>1, NullsAreNotIds
  DEF InvoiceAdd, SessionInv, JobMatchesTables, JobMatchesLedger, IInv, TypeOK,
      ConfirmWillBeFirst, RefundWillRevoke, Request, At, tables
<1>5. \A y \in Txns : ~HoldsTxn(s, y)'
  BY <1>1 DEF HoldsTxn, Request
<1> HIDE DEF j
<1> QED
  BY <1>1, <1>2, <1>3, <1>4, <1>5, JobStep
  DEF InvoiceAdd, tables, telegram, IInv, TypeOK, ChargeGrows

LEMMA ConfirmReadStep ==
  ASSUME IInv, NEW s \in Sessions, NEW c \in Charges, ConfirmRead(s, c)
  PROVE  IInv'
<1> DEFINE x == charge[c].txn
           j == Request("confirm", "flush", x, c, txn[x].payer, txn[x].tier, clock)
<1>1. job' = [job EXCEPT ![s] = j] /\ job'[s] = j
  BY DEF ConfirmRead, Begin, IInv, TypeOK
<1>2. x \in DOMAIN txn /\ c \in DOMAIN charge
  BY DEF ConfirmRead, IsPending, IInv, TypeOK
<1>3. j \in Job
  BY <1>2 DEF Request, Job, Ops, Pcs, IInv, TypeOK, TxnRow
<1>4. j.new = NoGrant /\ j.op = "confirm" /\ j.txn = x
  BY DEF Request
<1>5. SessionInv(s)'
  BY <1>1, <1>2, NullsAreNotIds
  DEF ConfirmRead, SessionInv, JobMatchesTables, JobMatchesLedger, IInv, TypeOK,
      ConfirmWillBeFirst, RefundWillRevoke, Request, At, tables
<1>6. \A y \in Txns : ~HoldsTxn(s, y)'
  BY <1>1 DEF HoldsTxn, Request
<1>7. \A r \in Sessions : job[r].op = "invoice" => job[r].txn # x
  BY <1>2 DEF IInv, SessionInv, JobMatchesTables
<1> HIDE DEF j, x
<1> QED
  BY <1>1, <1>3, <1>4, <1>5, <1>6, <1>7, JobStep
  DEF ConfirmRead, tables, IInv, TypeOK, ChargeGrows

LEMMA ActivateBeginStep ==
  ASSUME IInv, NEW s \in Sessions, NEW u \in Users, NEW t \in SoldTiers,
         ActivateBegin(s, u, t)
  PROVE  IInv'
<1> DEFINE j == Request("activate", "list", NoTxn, NoCharge, u, t, clock)
<1>1. job' = [job EXCEPT ![s] = j] /\ job'[s] = j
  BY DEF ActivateBegin, Begin, IInv, TypeOK
<1>2. j \in Job
  BY DEF Request, Job, Ops, Pcs, IInv, TypeOK
<1>3. j.new = NoGrant /\ j.op = "activate" /\ j.txn = NoTxn
  BY DEF Request
<1>4. SessionInv(s)'
  BY <1>1, NullsAreNotIds
  DEF ActivateBegin, SessionInv, JobMatchesTables, JobMatchesLedger, IInv, TypeOK,
      ConfirmWillBeFirst, RefundWillRevoke, Request, At, tables
<1>5. \A y \in Txns : ~HoldsTxn(s, y)'
  BY <1>1 DEF HoldsTxn, Request
<1>6. \A r \in Sessions : job[r].op = "invoice" => job[r].txn # NoTxn
  BY NullsAreNotIds DEF IInv, SessionInv, JobMatchesTables
<1> HIDE DEF j
<1> QED
  BY <1>1, <1>2, <1>3, <1>4, <1>5, <1>6, JobStep
  DEF ActivateBegin, tables, telegram, IInv, TypeOK, ChargeGrows

LEMMA RefundReadStep ==
  ASSUME IInv, NEW s \in Sessions, NEW x \in Txns, RefundRead(s, x)
  PROVE  IInv'
<1> DEFINE j == Request("refund", "gateway", x, txn[x].external, NoUser, "none", 0)
<1>1. job' = [job EXCEPT ![s] = j] /\ job'[s] = j
  BY DEF RefundRead, Begin, IInv, TypeOK
<1>2. x \in DOMAIN txn /\ txn[x].status = "paid"
  BY DEF RefundRead, CanRefund
<1>3. j \in Job
  BY <1>2, TimesAreNaturals DEF Request, Job, Ops, Pcs, IInv, TypeOK, TxnRow, Time
<1>4. j.new = NoGrant /\ j.op = "refund" /\ j.txn = x
  BY DEF Request
<1>5. SessionInv(s)'
  BY <1>1, <1>2, NullsAreNotIds
  DEF RefundRead, SessionInv, JobMatchesTables, JobMatchesLedger, IInv, TypeOK,
      ConfirmWillBeFirst, RefundWillRevoke, Request, At, tables
<1>6. \A y \in Txns : ~HoldsTxn(s, y)'
  BY <1>1 DEF HoldsTxn, Request
<1>7. \A r \in Sessions : job[r].op = "invoice" => job[r].txn # x
  BY <1>2 DEF IInv, SessionInv, JobMatchesTables
<1> HIDE DEF j
<1> QED
  BY <1>1, <1>3, <1>4, <1>5, <1>6, <1>7, JobStep
  DEF RefundRead, tables, telegram, IInv, TypeOK, ChargeGrows

LEMMA KillCheckStep ==
  ASSUME IInv, NEW s \in Sessions, NEW u \in Users, KillCheck(s, u)
  PROVE  IInv'
<1> DEFINE j == Request("kill", "list", NoTxn, NoCharge, u, "none", clock)
<1>1. job' = [job EXCEPT ![s] = j] /\ job'[s] = j
  BY DEF KillCheck, Begin, IInv, TypeOK
<1>2. j \in Job
  BY DEF Request, Job, Ops, Pcs, IInv, TypeOK
<1>3. j.new = NoGrant /\ j.op = "kill" /\ j.txn = NoTxn
  BY DEF Request
<1>4. SessionInv(s)'
  BY <1>1, NullsAreNotIds
  DEF KillCheck, SessionInv, JobMatchesTables, JobMatchesLedger, IInv, TypeOK,
      ConfirmWillBeFirst, RefundWillRevoke, Request, At, tables
<1>5. \A y \in Txns : ~HoldsTxn(s, y)'
  BY <1>1 DEF HoldsTxn, Request
<1>6. \A r \in Sessions : job[r].op = "invoice" => job[r].txn # NoTxn
  BY NullsAreNotIds DEF IInv, SessionInv, JobMatchesTables
<1> HIDE DEF j
<1> QED
  BY <1>1, <1>2, <1>3, <1>4, <1>5, <1>6, JobStep
  DEF KillCheck, tables, telegram, IInv, TypeOK, ChargeGrows

-----------------------------------------------------------------------------
(* Statements of a session that leave the committed tables alone.          *)

\* A request keeps the id of its transaction to itself.
LEMMA SameIds ==
  ASSUME IInv, NEW s \in Sessions
  PROVE  \A r \in Sessions \ {s} :
           job[s].op = "invoice" \/ job[r].op = "invoice" =>
             job[r].txn # job[s].txn
BY DEF IInv, IdsAreFresh

LEMMA InvoiceSendStep ==
  ASSUME IInv, NEW s \in Sessions, InvoiceSend(s)
  PROVE  IInv'
<1> DEFINE j == [job[s] EXCEPT !.pc = "commit"]
<1>1. job' = [job EXCEPT ![s] = j] /\ job'[s] = j /\ j \in Job
  BY DEF InvoiceSend, IInv, TypeOK, Job, Pcs
<1>2. j.new = job[s].new /\ j.op = job[s].op /\ j.txn = job[s].txn
  BY DEF IInv, TypeOK, Job
<1>3. SessionInv(s)'
  BY <1>1
  DEF InvoiceSend, SessionInv, JobMatchesTables, JobMatchesLedger, IInv, TypeOK,
      Job, ConfirmWillBeFirst, RefundWillRevoke, At, tables
<1>4. job[s].op = "invoice" /\ job[s].txn \in Txns
  BY DEF InvoiceSend, At, IInv, SessionInv, JobMatchesTables
<1>5. \A y \in Txns : ~HoldsTxn(s, y)'
  BY <1>1, <1>2, <1>4 DEF HoldsTxn
<1>6. \A r \in Sessions \ {s} :
        j.op = "invoice" \/ job[r].op = "invoice" => job[r].txn # j.txn
  BY <1>2, SameIds
<1>7. /\ UNCHANGED <<txn, ledger>> /\ chat' \subseteq Txns
      /\ DOMAIN charge' \subseteq Charges
      /\ charge' \in [DOMAIN charge' -> ChargeRow]
      /\ inbox' \subseteq DOMAIN charge' /\ clock' \in Time /\ ChargeGrows
  BY <1>4 DEF InvoiceSend, tables, IInv, TypeOK, ChargeGrows
<1> HIDE DEF j
<1> QED BY <1>1, <1>2, <1>3, <1>4, <1>5, <1>6, <1>7, JobStep

LEMMA ConfirmFlushStep ==
  ASSUME IInv, NEW s \in Sessions, ConfirmFlush(s)
  PROVE  IInv'
<1> DEFINE j == [job[s] EXCEPT !.pc = "list"]
<1>1. job' = [job EXCEPT ![s] = j] /\ job'[s] = j /\ j \in Job
  BY DEF ConfirmFlush, IInv, TypeOK, Job, Pcs
<1>2. j.new = job[s].new /\ j.op = job[s].op /\ j.txn = job[s].txn
  BY DEF IInv, TypeOK, Job
<1>3. SessionInv(s)'
  BY <1>1
  DEF ConfirmFlush, SessionInv, JobMatchesTables, JobMatchesLedger, IInv, TypeOK,
      Job, ConfirmWillBeFirst, RefundWillRevoke, At, tables, telegram
<1>4. ~TxnLocked(s, job[s].txn)
  BY DEF ConfirmFlush
<1>5. \A y \in Txns : HoldsTxn(s, y)' => y = job[s].txn
  BY <1>1, <1>2 DEF HoldsTxn
<1>6. \A r \in Sessions \ {s} :
        j.op = "invoice" \/ job[r].op = "invoice" => job[r].txn # j.txn
  BY <1>2, SameIds
<1>7. /\ UNCHANGED <<txn, ledger>> /\ chat' \subseteq Txns
      /\ DOMAIN charge' \subseteq Charges
      /\ charge' \in [DOMAIN charge' -> ChargeRow]
      /\ inbox' \subseteq DOMAIN charge' /\ clock' \in Time /\ ChargeGrows
  BY DEF ConfirmFlush, tables, telegram, IInv, TypeOK, ChargeGrows
<1> HIDE DEF j
<1> QED BY <1>1, <1>2, <1>3, <1>4, <1>5, <1>6, <1>7, JobStep

LEMMA ListPurchasesStep ==
  ASSUME IInv, NEW s \in Sessions, ListPurchases(s)
  PROVE  IInv'
<1> DEFINE j == [job[s] EXCEPT !.pc = "revoke",
                               !.todo = ActivePurchases(job[s].owner, job[s].now)]
<1>1. job' = [job EXCEPT ![s] = j] /\ job'[s] = j /\ j \in Job
  BY DEF ListPurchases, IInv, TypeOK, Job, Pcs, ActivePurchases, GrantsOf
<1>2. j.new = job[s].new /\ j.op = job[s].op /\ j.txn = job[s].txn
  BY DEF IInv, TypeOK, Job
<1>3. SessionInv(s)'
  <2>1. /\ job'[s].todo = ActivePurchases(job[s].owner, job[s].now)
        /\ job'[s].done = job[s].done /\ job'[s].new = job[s].new
        /\ job'[s].op = job[s].op /\ job'[s].pc = "revoke"
        /\ job'[s].txn = job[s].txn /\ job'[s].charge = job[s].charge
        /\ job'[s].owner = job[s].owner /\ job'[s].tier = job[s].tier
    BY <1>1 DEF IInv, TypeOK, Job
  <2>2. job[s].op \in {"confirm", "activate"} /\ job[s].pc = "list"
    BY DEF ListPurchases, At
  <2>3. \A g \in job'[s].todo :
          g \in DOMAIN ledger /\ ledger[g].owner = job[s].owner /\ IsPurchase(ledger[g])
    BY <2>1 DEF ActivePurchases, GrantsOf
  <2>4. JobMatchesTables(s)' /\ JobMatchesLedger(s)'
    BY <2>1, <2>2, <2>3
    DEF ListPurchases, IInv, SessionInv, JobMatchesTables, JobMatchesLedger, tables, telegram
  <2>5. ConfirmWillBeFirst(s)' /\ RefundWillRevoke(s)'
    BY <2>1, <2>2
    DEF ListPurchases, ConfirmWillBeFirst, RefundWillRevoke, At, GrantsFor, tables
  <2> QED BY <2>4, <2>5 DEF SessionInv
<1>4. \A y \in Txns : HoldsTxn(s, y)' => HoldsTxn(s, y)
  BY <1>1, <1>2 DEF HoldsTxn, ListPurchases
<1>5. \A r \in Sessions \ {s} :
        j.op = "invoice" \/ job[r].op = "invoice" => job[r].txn # j.txn
  BY <1>2, SameIds
<1>6. /\ UNCHANGED <<txn, ledger>> /\ chat' \subseteq Txns
      /\ DOMAIN charge' \subseteq Charges
      /\ charge' \in [DOMAIN charge' -> ChargeRow]
      /\ inbox' \subseteq DOMAIN charge' /\ clock' \in Time /\ ChargeGrows
  BY DEF ListPurchases, tables, telegram, IInv, TypeOK, ChargeGrows
<1> HIDE DEF j
<1> QED BY <1>1, <1>2, <1>3, <1>4, <1>5, <1>6, JobStep

LEMMA RevokeOneStep ==
  ASSUME IInv, NEW s \in Sessions, NEW g \in Grants, RevokeOne(s, g)
  PROVE  IInv'
<1> DEFINE j == [job[s] EXCEPT !.todo = @ \ {g}, !.done = @ \cup {g}]
<1>1. job' = [job EXCEPT ![s] = j] /\ job'[s] = j /\ j \in Job
  BY DEF RevokeOne, IInv, TypeOK, Job
<1>2. /\ j.new = job[s].new /\ j.op = job[s].op /\ j.txn = job[s].txn
      /\ j.pc = job[s].pc /\ j.todo \cup j.done = job[s].todo \cup job[s].done
  BY DEF IInv, TypeOK, Job, RevokeOne
<1>3. SessionInv(s)'
  BY <1>1, <1>2
  DEF RevokeOne, SessionInv, JobMatchesTables, JobMatchesLedger, IInv, TypeOK,
      Job, Idle, Request, ConfirmWillBeFirst, RefundWillRevoke, At, tables,
      telegram, GrantsFor
<1>4. \A y \in Txns : HoldsTxn(s, y)' => HoldsTxn(s, y)
  BY <1>1, <1>2 DEF HoldsTxn
<1>5. \A r \in Sessions \ {s} :
        j.op = "invoice" \/ job[r].op = "invoice" => job[r].txn # j.txn
  BY <1>2, SameIds
<1>6. /\ UNCHANGED <<txn, ledger>> /\ chat' \subseteq Txns
      /\ DOMAIN charge' \subseteq Charges
      /\ charge' \in [DOMAIN charge' -> ChargeRow]
      /\ inbox' \subseteq DOMAIN charge' /\ clock' \in Time /\ ChargeGrows
  BY DEF RevokeOne, tables, telegram, IInv, TypeOK, ChargeGrows
<1> HIDE DEF j
<1> QED BY <1>1, <1>2, <1>3, <1>4, <1>5, <1>6, JobStep

LEMMA InsertStep ==
  ASSUME IInv, NEW s \in Sessions, NEW g \in Grants, Insert(s, g)
  PROVE  IInv'
<1> DEFINE j == [job[s] EXCEPT !.pc = "commit", !.new = g]
<1>1. job' = [job EXCEPT ![s] = j] /\ job'[s] = j /\ j \in Job
  BY DEF Insert, IInv, TypeOK, Job, Pcs
<1>2. j.new = g /\ j.op = job[s].op /\ j.txn = job[s].txn
  BY DEF IInv, TypeOK, Job
<1>3. /\ job[s].op \in {"confirm", "activate"} /\ job[s].pc = "revoke"
      /\ Fresh(g) /\ ~Duplicate(job[s].txn)
  BY DEF Insert, AtInsert
<1>4. SessionInv(s)'
  BY <1>1, <1>3, NullsAreNotIds
  DEF Insert, SessionInv, JobMatchesTables, JobMatchesLedger, IInv, TypeOK,
      Job, ConfirmWillBeFirst, RefundWillRevoke, At, tables, telegram, GrantsFor,
      Fresh, Duplicate
<1>5. \A y \in Txns : HoldsTxn(s, y)' => HoldsTxn(s, y)
  BY <1>1, <1>2, <1>3 DEF HoldsTxn
<1>6. \A r \in Sessions \ {s} :
        j.op = "invoice" \/ job[r].op = "invoice" => job[r].txn # j.txn
  BY <1>2, SameIds
<1>7. /\ UNCHANGED <<txn, ledger>> /\ chat' \subseteq Txns
      /\ DOMAIN charge' \subseteq Charges
      /\ charge' \in [DOMAIN charge' -> ChargeRow]
      /\ inbox' \subseteq DOMAIN charge' /\ clock' \in Time /\ ChargeGrows
  BY DEF Insert, tables, telegram, IInv, TypeOK, ChargeGrows
<1> HIDE DEF j
<1> QED BY <1>1, <1>2, <1>3, <1>4, <1>5, <1>6, <1>7, JobStep

LEMMA RefundGatewayStep ==
  ASSUME IInv, NEW s \in Sessions, RefundGateway(s)
  PROVE  IInv'
<1> DEFINE j == [job[s] EXCEPT !.pc = "flush", !.now = clock]
<1>1. job' = [job EXCEPT ![s] = j] /\ job'[s] = j /\ j \in Job
  BY DEF RefundGateway, IInv, TypeOK, Job, Pcs
<1>2. j.new = job[s].new /\ j.op = job[s].op /\ j.txn = job[s].txn
  BY DEF IInv, TypeOK, Job
<1>3. /\ job[s].op = "refund" /\ job[s].txn \in DOMAIN txn
      /\ job[s].charge = txn[job[s].txn].external /\ job[s].charge \in DOMAIN charge
  BY DEF RefundGateway, At, IInv, SessionInv, JobMatchesTables, TablesInv, PaidHasCharge
<1>4. /\ charge' \in [DOMAIN charge' -> ChargeRow]
      /\ DOMAIN charge' = DOMAIN charge
      /\ charge'[job[s].charge].refunded
      /\ ChargeGrows
  BY <1>3 DEF RefundGateway, IInv, TypeOK, ChargeRow, ChargeGrows
<1>5. SessionInv(s)'
  BY <1>1, <1>3, <1>4
  DEF RefundGateway, SessionInv, JobMatchesTables, JobMatchesLedger, IInv, TypeOK,
      Job, ConfirmWillBeFirst, RefundWillRevoke, At, tables
<1>6. \A y \in Txns : ~HoldsTxn(s, y)'
  BY <1>1 DEF HoldsTxn, IInv, TypeOK, Job
<1>7. \A r \in Sessions \ {s} :
        j.op = "invoice" \/ job[r].op = "invoice" => job[r].txn # j.txn
  BY <1>2, SameIds
<1>8. /\ UNCHANGED <<txn, ledger>> /\ chat' \subseteq Txns
      /\ DOMAIN charge' \subseteq Charges
      /\ charge' \in [DOMAIN charge' -> ChargeRow]
      /\ inbox' \subseteq DOMAIN charge' /\ clock' \in Time /\ ChargeGrows
  BY <1>4 DEF RefundGateway, tables, IInv, TypeOK
<1> HIDE DEF j
<1> QED BY <1>1, <1>2, <1>4, <1>5, <1>6, <1>7, <1>8, JobStep

LEMMA RefundFlushStep ==
  ASSUME IInv, NEW s \in Sessions, RefundFlush(s)
  PROVE  IInv'
<1> DEFINE j == [job[s] EXCEPT !.pc = "find"]
<1>1. job' = [job EXCEPT ![s] = j] /\ job'[s] = j /\ j \in Job
  BY DEF RefundFlush, IInv, TypeOK, Job, Pcs
<1>2. j.new = job[s].new /\ j.op = job[s].op /\ j.txn = job[s].txn
  BY DEF IInv, TypeOK, Job
<1>3. SessionInv(s)'
  BY <1>1
  DEF RefundFlush, SessionInv, JobMatchesTables, JobMatchesLedger, IInv, TypeOK,
      Job, ConfirmWillBeFirst, RefundWillRevoke, At, tables, telegram
<1>4. ~TxnLocked(s, job[s].txn)
  BY DEF RefundFlush
<1>5. \A y \in Txns : HoldsTxn(s, y)' => y = job[s].txn
  BY <1>1, <1>2 DEF HoldsTxn
<1>6. \A r \in Sessions \ {s} :
        j.op = "invoice" \/ job[r].op = "invoice" => job[r].txn # j.txn
  BY <1>2, SameIds
<1>7. /\ UNCHANGED <<txn, ledger>> /\ chat' \subseteq Txns
      /\ DOMAIN charge' \subseteq Charges
      /\ charge' \in [DOMAIN charge' -> ChargeRow]
      /\ inbox' \subseteq DOMAIN charge' /\ clock' \in Time /\ ChargeGrows
  BY DEF RefundFlush, tables, telegram, IInv, TypeOK, ChargeGrows
<1> HIDE DEF j
<1> QED BY <1>1, <1>2, <1>3, <1>4, <1>5, <1>6, <1>7, JobStep

LEMMA RefundFindStep ==
  ASSUME IInv, NEW s \in Sessions, RefundFind(s)
  PROVE  IInv'
<1> DEFINE j == [job[s] EXCEPT !.pc = "revoke",
                               !.todo = {g \in GrantsFor(job[s].txn) :
                                           ~ledger[g].revoked}]
<1>1. job' = [job EXCEPT ![s] = j] /\ job'[s] = j /\ j \in Job
  BY DEF RefundFind, IInv, TypeOK, Job, Pcs, GrantsFor
<1>2. j.new = job[s].new /\ j.op = job[s].op /\ j.txn = job[s].txn
  BY DEF IInv, TypeOK, Job
<1>3. SessionInv(s)'
  <2>1. /\ job'[s].todo = {g \in GrantsFor(job[s].txn) : ~ledger[g].revoked}
        /\ job'[s].done = job[s].done /\ job'[s].new = job[s].new
        /\ job'[s].op = job[s].op /\ job'[s].pc = "revoke"
        /\ job'[s].txn = job[s].txn /\ job'[s].charge = job[s].charge
        /\ job'[s].owner = job[s].owner /\ job'[s].tier = job[s].tier
    BY <1>1 DEF IInv, TypeOK, Job
  <2>2. job[s].op = "refund" /\ job[s].pc = "find"
    BY DEF RefundFind, At
  <2>3. \A g \in job'[s].todo :
          g \in DOMAIN ledger /\ ledger[g].txn = job[s].txn
    BY <2>1 DEF GrantsFor
  <2>4. JobMatchesTables(s)' /\ JobMatchesLedger(s)'
    BY <2>1, <2>2, <2>3
    DEF RefundFind, IInv, SessionInv, JobMatchesTables, JobMatchesLedger, tables, telegram
  <2>5. ConfirmWillBeFirst(s)' /\ RefundWillRevoke(s)'
    BY <2>1, <2>2
    DEF RefundFind, ConfirmWillBeFirst, RefundWillRevoke, At, GrantsFor, tables
  <2> QED BY <2>4, <2>5 DEF SessionInv
<1>4. \A y \in Txns : HoldsTxn(s, y)' => HoldsTxn(s, y)
  BY <1>1, <1>2 DEF HoldsTxn, RefundFind, At
<1>5. \A r \in Sessions \ {s} :
        j.op = "invoice" \/ job[r].op = "invoice" => job[r].txn # j.txn
  BY <1>2, SameIds
<1>6. /\ UNCHANGED <<txn, ledger>> /\ chat' \subseteq Txns
      /\ DOMAIN charge' \subseteq Charges
      /\ charge' \in [DOMAIN charge' -> ChargeRow]
      /\ inbox' \subseteq DOMAIN charge' /\ clock' \in Time /\ ChargeGrows
  BY DEF RefundFind, tables, telegram, IInv, TypeOK, ChargeGrows
<1> HIDE DEF j
<1> QED BY <1>1, <1>2, <1>3, <1>4, <1>5, <1>6, JobStep

LEMMA KillListStep ==
  ASSUME IInv, NEW s \in Sessions, KillList(s)
  PROVE  IInv'
<1> DEFINE j == [job[s] EXCEPT !.pc = "revoke",
                               !.todo = ActiveGrants(job[s].owner, job[s].now)]
<1>1. job' = [job EXCEPT ![s] = j] /\ job'[s] = j /\ j \in Job
  BY DEF KillList, IInv, TypeOK, Job, Pcs, ActiveGrants, GrantsOf
<1>2. j.new = job[s].new /\ j.op = job[s].op /\ j.txn = job[s].txn
  BY DEF IInv, TypeOK, Job
<1>3. SessionInv(s)'
  <2>1. /\ job'[s].todo = ActiveGrants(job[s].owner, job[s].now)
        /\ job'[s].done = job[s].done /\ job'[s].new = job[s].new
        /\ job'[s].op = job[s].op /\ job'[s].pc = "revoke"
        /\ job'[s].txn = job[s].txn /\ job'[s].charge = job[s].charge
        /\ job'[s].owner = job[s].owner /\ job'[s].tier = job[s].tier
    BY <1>1 DEF IInv, TypeOK, Job
  <2>2. job[s].op = "kill" /\ job[s].pc = "list"
    BY DEF KillList, At
  <2>3. \A g \in job'[s].todo :
          g \in DOMAIN ledger /\ ledger[g].owner = job[s].owner
    BY <2>1 DEF ActiveGrants, GrantsOf
  <2>4. JobMatchesTables(s)' /\ JobMatchesLedger(s)'
    BY <2>1, <2>2, <2>3
    DEF KillList, IInv, SessionInv, JobMatchesTables, JobMatchesLedger, tables, telegram
  <2>5. ConfirmWillBeFirst(s)' /\ RefundWillRevoke(s)'
    BY <2>1, <2>2
    DEF KillList, ConfirmWillBeFirst, RefundWillRevoke, At, GrantsFor, tables
  <2> QED BY <2>4, <2>5 DEF SessionInv
<1>4. \A y \in Txns : ~HoldsTxn(s, y)'
  BY <1>1, <1>2 DEF HoldsTxn, KillList, At
<1>5. \A r \in Sessions \ {s} :
        j.op = "invoice" \/ job[r].op = "invoice" => job[r].txn # j.txn
  BY <1>2, SameIds
<1>6. /\ UNCHANGED <<txn, ledger>> /\ chat' \subseteq Txns
      /\ DOMAIN charge' \subseteq Charges
      /\ charge' \in [DOMAIN charge' -> ChargeRow]
      /\ inbox' \subseteq DOMAIN charge' /\ clock' \in Time /\ ChargeGrows
  BY DEF KillList, tables, telegram, IInv, TypeOK, ChargeGrows
<1> HIDE DEF j
<1> QED BY <1>1, <1>2, <1>3, <1>4, <1>5, <1>6, JobStep

-----------------------------------------------------------------------------
(* Commits, and the other steps that change the tables.                    *)

\* What the uncommitted writes of a session do to the ledger.
LEMMA WrittenRows ==
  ASSUME IInv, NEW s \in Sessions
  PROVE  /\ DOMAIN Written(s) = DOMAIN ledger \cup ({job[s].new} \ {NoGrant})
         /\ DOMAIN Written(s) \subseteq Grants
         /\ Written(s) \in [DOMAIN Written(s) -> GrantRow]
         /\ \A g \in DOMAIN ledger :
              /\ Written(s)[g].owner = ledger[g].owner
              /\ Written(s)[g].tier = ledger[g].tier
              /\ Written(s)[g].txn = ledger[g].txn
              /\ Written(s)[g].revoked <=> (ledger[g].revoked \/ g \in job[s].done)
              /\ g \notin job[s].done => Written(s)[g] = ledger[g]
         /\ job[s].new # NoGrant => Written(s)[job[s].new] = PurchaseRow(s)
<1> USE DEF IInv
<1>1. JobMatchesTables(s) /\ JobMatchesLedger(s) /\ job[s] \in Job
  BY DEF SessionInv, TypeOK
<1>2. /\ DOMAIN ledger \subseteq Grants
      /\ \A g \in DOMAIN ledger : ledger[g] \in GrantRow
  BY DEF TypeOK
<1>3. DOMAIN Written(s) = DOMAIN ledger \cup ({job[s].new} \ {NoGrant})
  BY DEF Written
<1>4. ASSUME job[s].new # NoGrant
      PROVE  Written(s)[job[s].new] = PurchaseRow(s) /\ PurchaseRow(s) \in GrantRow
  <2>1. Written(s)[job[s].new] = PurchaseRow(s) BY <1>4 DEF Written
  <2>2. job[s].op \in {"confirm", "activate"} BY <1>1, <1>4 DEF JobMatchesLedger
  <2>3. /\ job[s].owner \in Users /\ job[s].tier \in SoldTiers
        /\ job[s].txn \in Txns \cup {NoTxn} /\ job[s].now \in Nat
    BY <1>1, <2>2, TimesAreNaturals DEF JobMatchesTables, TypeOK, TxnRow, Job, Time
  <2>4. job[s].tier \in Tiers /\ Duration[job[s].tier] \in Nat
    BY <2>3, SoldTiersAreInTheCatalog, TimesAreNaturals DEF Tiers
  <2> QED BY <2>1, <2>3, <2>4 DEF PurchaseRow, GrantRow
<1>5. ASSUME NEW g \in DOMAIN ledger
      PROVE  /\ Written(s)[g] \in GrantRow
             /\ Written(s)[g].owner = ledger[g].owner
             /\ Written(s)[g].tier = ledger[g].tier
             /\ Written(s)[g].txn = ledger[g].txn
             /\ Written(s)[g].revoked <=> (ledger[g].revoked \/ g \in job[s].done)
             /\ g \notin job[s].done => Written(s)[g] = ledger[g]
  <2>1. g # job[s].new BY <1>1 DEF JobMatchesLedger
  <2>2. CASE g \in job[s].done
    <3>1. Written(s)[g] = RevokedRow(ledger[g], job[s].now) BY <2>1, <2>2 DEF Written
    <3>2. job[s].now \in Nat BY <1>1, TimesAreNaturals DEF Job, Time
    <3> QED BY <1>2, <2>2, <3>1, <3>2 DEF RevokedRow, GrantRow
  <2>3. CASE g \notin job[s].done
    <3>1. Written(s)[g] = ledger[g] BY <2>1, <2>3 DEF Written
    <3> QED BY <1>2, <2>3, <3>1
  <2> QED BY <2>2, <2>3
<1>6. DOMAIN Written(s) \subseteq Grants
  BY <1>1, <1>2, <1>3 DEF Job
<1>7. Written(s) \in [DOMAIN Written(s) -> GrantRow]
  <2>1. \A g \in DOMAIN Written(s) : Written(s)[g] \in GrantRow
    BY <1>3, <1>4, <1>5
  <2>2. Written(s) = [g \in DOMAIN Written(s) |-> Written(s)[g]]
    BY DEF Written
  <2> QED BY <2>1, <2>2
<1> QED BY <1>3, <1>4, <1>5, <1>6, <1>7

LEMMA WrittenGrows ==
  ASSUME IInv, NEW s \in Sessions, ledger' = Written(s)
  PROVE  LedgerGrows(s)
<1>1. \A g \in DOMAIN ledger' \ DOMAIN ledger : g = job[s].new /\ g # NoGrant
  BY WrittenRows
<1>2. ASSUME job[s].new # NoGrant, job[s].txn # NoTxn
      PROVE  HoldsTxn(s, job[s].txn)
  BY <1>2 DEF HoldsTxn, IInv, SessionInv, JobMatchesTables, JobMatchesLedger
<1>3. \A g \in DOMAIN ledger' \ DOMAIN ledger : ledger'[g].txn = job[s].txn
  <2>1. PurchaseRow(s).txn = job[s].txn
    BY DEF PurchaseRow
  <2>2. job[s].new # NoGrant => ledger'[job[s].new] = PurchaseRow(s)
    BY WrittenRows
  <2> QED BY <1>1, <2>1, <2>2
<1> QED BY <1>1, <1>2, <1>3, WrittenRows DEF LedgerGrows

\* A commit keeps the invariant if it keeps what the tables say.
LEMMA CommitStep ==
  ASSUME IInv, NEW s \in Sessions, End(s),
         UNCHANGED <<telegram, clock>>,
         TxnGrows(s), LedgerGrows(s),
         DOMAIN txn' \subseteq Txns, txn' \in [DOMAIN txn' -> TxnRow],
         \A x \in DOMAIN txn' :
           txn'[x].status = "pending" <=> txn'[x].external = NoCharge,
         DOMAIN ledger' \subseteq Grants, ledger' \in [DOMAIN ledger' -> GrantRow],
         TablesInv'
  PROVE  IInv'
<1>1. Idle \in Job
  BY TimesAreNaturals DEF Idle, Request, Job, Ops, Pcs, Time
<1>2. job' = [job EXCEPT ![s] = Idle] /\ job'[s] = Idle
  BY DEF End, IInv, TypeOK
<1>3. TypeOK'
  BY <1>1, <1>2 DEF TypeOK, IInv, telegram
<1>4. SessionInv(s)'
  BY <1>2, <1>3, NullsAreNotIds
  DEF SessionInv, JobMatchesTables, JobMatchesLedger, ConfirmWillBeFirst,
      RefundWillRevoke, Idle, Request, At, TypeOK
<1>5. \A r \in Sessions \ {s} : job'[r] = job[r]
  BY <1>2 DEF IInv, TypeOK
<1>6. ChargeGrows
  BY DEF ChargeGrows, telegram
<1>7. \A r \in Sessions : SessionInv(r)'
  BY <1>4, <1>5, <1>6, OthersUndisturbed
<1>8. IdsAreFresh'
  <2>1. Idle.new = NoGrant /\ Idle.op # "invoice" /\ Idle.txn = NoTxn
    BY DEF Idle, Request
  <2>2. \A r \in Sessions : job[r].op = "invoice" => job[r].txn # NoTxn
    BY NullsAreNotIds DEF IInv, SessionInv, JobMatchesTables
  <2> QED BY <1>2, <1>5, <2>1, <2>2 DEF IInv, IdsAreFresh
<1>9. LocksExclude'
  <2>1. \A r \in Sessions \ {s} : \A x \in Txns : HoldsTxn(r, x)' <=> HoldsTxn(r, x)
    BY <1>5 DEF HoldsTxn
  <2>2. \A x \in Txns : ~HoldsTxn(s, x)'
    BY <1>2 DEF HoldsTxn, Idle, Request
  <2> QED BY <2>1, <2>2 DEF IInv, LocksExclude
<1> QED BY <1>3, <1>7, <1>8, <1>9 DEF IInv


LEMMA InvoiceCommitStep ==
  ASSUME IInv, NEW s \in Sessions, InvoiceCommit(s)
  PROVE  IInv'
<1> DEFINE x == job[s].txn
<1>1. /\ x \in Txns \ DOMAIN txn
      /\ job[s].owner \in Users /\ job[s].tier \in SoldTiers
  BY DEF InvoiceCommit, At, IInv, SessionInv, JobMatchesTables
<1>2. /\ DOMAIN txn' = DOMAIN txn \cup {x}
      /\ \A y \in DOMAIN txn : txn'[y] = txn[y]
      /\ txn'[x] = [payer |-> job[s].owner, tier |-> job[s].tier,
                    status |-> "pending", external |-> NoCharge]
      /\ txn' = [y \in DOMAIN txn' |-> txn'[y]]
  BY <1>1 DEF InvoiceCommit
<1>3. txn'[x] \in TxnRow /\ txn'[x].status = "pending" /\ txn'[x].external = NoCharge
  BY <1>1, <1>2 DEF TxnRow
<1>4. TxnGrows(s)
  BY <1>2 DEF TxnGrows, InvoiceCommit
<1>5. /\ DOMAIN txn' \subseteq Txns
      /\ txn' \in [DOMAIN txn' -> TxnRow]
      /\ \A y \in DOMAIN txn' :
           txn'[y].status = "pending" <=> txn'[y].external = NoCharge
  BY <1>1, <1>2, <1>3 DEF IInv, TypeOK
<1>6. UNCHANGED <<ledger, charge>> /\ LedgerGrows(s)
  BY DEF InvoiceCommit, telegram, LedgerGrows
<1>7. \A g \in DOMAIN ledger : ledger[g].txn \in DOMAIN txn \cup {NoTxn}
  BY DEF IInv, TablesInv, PaidIffGranted
<1>8. GrantsFor(x) = {}
  BY <1>1, <1>7, NullsAreNotIds DEF GrantsFor
<1>9. TablesInv'
  <2>1. PaidHasCharge'
    BY <1>2, <1>3, <1>6 DEF IInv, TablesInv, PaidHasCharge
  <2>2. PaidIffGranted'
    BY <1>2, <1>3, <1>6, <1>7, <1>8 DEF IInv, TablesInv, PaidIffGranted, GrantsFor
  <2>3. RefundedIsOver'
    BY <1>2, <1>3, <1>6 DEF IInv, TablesInv, RefundedIsOver, GrantsFor
  <2> QED BY <2>1, <2>2, <2>3 DEF TablesInv
<1> QED
  BY <1>4, <1>5, <1>6, <1>9, CommitStep DEF InvoiceCommit, IInv, TypeOK

\* The transaction was still PENDING and had no grant: the index says so, and
\* the lock on its row keeps it so.
LEMMA ConfirmCommitStep ==
  ASSUME IInv, NEW s \in Sessions, ConfirmCommit(s)
  PROVE  IInv'
<1> SUFFICES ASSUME NEW x, x = job[s].txn, NEW n, n = job[s].new
             PROVE  IInv'
  OBVIOUS
<1>1. /\ x \in DOMAIN txn /\ x \in Txns /\ x # NoTxn
      /\ job[s].charge \in DOMAIN charge /\ job[s].charge \in Charges
      /\ charge[job[s].charge].txn = x
      /\ job[s].owner = txn[x].payer /\ job[s].tier = txn[x].tier
      /\ n # NoGrant /\ n \notin DOMAIN ledger
  BY NullsAreNotIds
  DEF ConfirmCommit, At, IInv, SessionInv, JobMatchesTables, JobMatchesLedger, TypeOK
<1>2. GrantsFor(x) = {} /\ txn[x].status = "pending"
  <2>1. GrantsFor(x) = {}
    BY DEF ConfirmCommit, IInv, SessionInv, ConfirmWillBeFirst
  <2> QED BY <1>1, <2>1 DEF IInv, TablesInv, PaidIffGranted
<1>3. /\ DOMAIN txn' = DOMAIN txn
      /\ \A y \in DOMAIN txn \ {x} : txn'[y] = txn[y]
      /\ txn'[x].payer = txn[x].payer /\ txn'[x].tier = txn[x].tier
      /\ txn'[x].status = "paid" /\ txn'[x].external = job[s].charge
      /\ txn' \in [DOMAIN txn' -> TxnRow]
  BY <1>1 DEF ConfirmCommit, IInv, TypeOK, TxnRow
<1>4. TxnGrows(s)
  BY <1>2, <1>3 DEF TxnGrows
<1>5. /\ DOMAIN txn' \subseteq Txns
      /\ \A y \in DOMAIN txn' :
           txn'[y].status = "pending" <=> txn'[y].external = NoCharge
  BY <1>1, <1>3, NullsAreNotIds DEF IInv, TypeOK
<1>6. ledger' = Written(s) /\ UNCHANGED charge
  BY DEF ConfirmCommit, telegram
<1>7. /\ DOMAIN ledger' = DOMAIN ledger \cup {n}
      /\ ledger'[n].txn = x /\ ledger'[n].owner = txn[x].payer
      /\ ledger'[n].tier = txn[x].tier
      /\ \A g \in DOMAIN ledger :
           /\ ledger'[g].txn = ledger[g].txn /\ ledger'[g].owner = ledger[g].owner
           /\ ledger'[g].tier = ledger[g].tier
           /\ ledger[g].revoked => ledger'[g].revoked
  <2>1. /\ PurchaseRow(s).txn = x /\ PurchaseRow(s).owner = txn[x].payer
        /\ PurchaseRow(s).tier = txn[x].tier
    BY <1>1 DEF PurchaseRow
  <2>2. ledger'[n] = PurchaseRow(s)
    BY <1>1, <1>6, WrittenRows
  <2> QED BY <1>1, <1>6, <2>1, <2>2, WrittenRows
<1>8. GrantsFor(x)' = {n} /\ \A y \in Txns \ {x} : GrantsFor(y)' = GrantsFor(y)
  BY <1>1, <1>2, <1>7 DEF GrantsFor
<1>9. TablesInv'
  <2>1. PaidHasCharge'
    BY <1>1, <1>3, <1>6 DEF IInv, TablesInv, PaidHasCharge
  <2>2. PaidIffGranted'
    <3>1. \A g \in DOMAIN ledger' : ledger'[g].txn \in DOMAIN txn' \cup {NoTxn}
      BY <1>1, <1>3, <1>7 DEF IInv, TablesInv, PaidIffGranted
    <3>2. ASSUME NEW y \in DOMAIN txn, y # x, txn[y].status = "pending"
          PROVE  GrantsFor(y)' = {}
      BY <1>8, <3>2 DEF IInv, TypeOK, TablesInv, PaidIffGranted
    <3>3. ASSUME NEW y \in DOMAIN txn, y # x, txn[y].status # "pending"
          PROVE  \E g \in DOMAIN ledger' :
                   /\ GrantsFor(y)' = {g}
                   /\ ledger'[g].owner = txn[y].payer
                   /\ ledger'[g].tier = txn[y].tier
      <4>1. PICK g \in DOMAIN ledger :
              /\ GrantsFor(y) = {g}
              /\ ledger[g].owner = txn[y].payer /\ ledger[g].tier = txn[y].tier
        BY <3>3 DEF IInv, TablesInv, PaidIffGranted
      <4>2. GrantsFor(y)' = {g}
        BY <1>8, <3>3, <4>1 DEF IInv, TypeOK
      <4> QED BY <1>7, <4>1, <4>2
    <3>4. GrantsFor(x)' = {n} /\ n \in DOMAIN ledger'
      BY <1>7, <1>8
    <3> QED BY <1>3, <1>7, <3>1, <3>2, <3>3, <3>4 DEF PaidIffGranted
  <2>3. RefundedIsOver'
    <3>1. ASSUME NEW y \in DOMAIN txn', txn'[y].status = "refunded"
          PROVE  /\ y \in DOMAIN txn /\ y # x /\ txn'[y] = txn[y]
                 /\ GrantsFor(y)' = GrantsFor(y)
      BY <1>3, <1>8, <3>1 DEF IInv, TypeOK
    <3>2. \A y \in DOMAIN txn : GrantsFor(y) \subseteq DOMAIN ledger
      BY DEF GrantsFor
    <3> QED BY <1>6, <1>7, <3>1, <3>2 DEF IInv, TablesInv, RefundedIsOver
  <2> QED BY <2>1, <2>2, <2>3 DEF TablesInv
<1>10. /\ LedgerGrows(s) /\ DOMAIN ledger' \subseteq Grants
       /\ ledger' \in [DOMAIN ledger' -> GrantRow]
  BY <1>6, WrittenRows, WrittenGrows
<1> QED
  BY <1>3, <1>4, <1>5, <1>9, <1>10, CommitStep DEF ConfirmCommit


\* Revoking grants, adding grants that nobody paid for, and recording the
\* refund of a transaction whose grants are revoked, keep what the tables say.
LEMMA TablesKept ==
  ASSUME IInv, UNCHANGED charge,
         DOMAIN txn' = DOMAIN txn,
         \A x \in DOMAIN txn :
           /\ txn'[x].payer = txn[x].payer /\ txn'[x].tier = txn[x].tier
           /\ txn'[x].external = txn[x].external
           /\ txn'[x].status = "pending" <=> txn[x].status = "pending"
           /\ txn'[x].status = "refunded" =>
                \/ txn[x].status = "refunded"
                \/ /\ charge[txn[x].external].refunded
                   /\ \A g \in GrantsFor(x) : ledger'[g].revoked,
         DOMAIN ledger \subseteq DOMAIN ledger',
         \A g \in DOMAIN ledger' \ DOMAIN ledger : ledger'[g].txn = NoTxn,
         \A g \in DOMAIN ledger :
           /\ ledger'[g].owner = ledger[g].owner /\ ledger'[g].tier = ledger[g].tier
           /\ ledger'[g].txn = ledger[g].txn
           /\ ledger[g].revoked => ledger'[g].revoked
  PROVE  TablesInv'
<1>1. \A x \in DOMAIN txn : GrantsFor(x)' = GrantsFor(x)
  BY NullsAreNotIds DEF GrantsFor, IInv, TypeOK
<1>2. PaidHasCharge'
  BY DEF IInv, TablesInv, PaidHasCharge
<1>3. PaidIffGranted'
  <2>1. \A g \in DOMAIN ledger' : ledger'[g].txn \in DOMAIN txn' \cup {NoTxn}
    BY DEF IInv, TablesInv, PaidIffGranted
  <2>2. ASSUME NEW x \in DOMAIN txn, txn[x].status # "pending"
        PROVE  \E g \in DOMAIN ledger' :
                 /\ GrantsFor(x)' = {g}
                 /\ ledger'[g].owner = txn[x].payer
                 /\ ledger'[g].tier = txn[x].tier
    <3>1. PICK g \in DOMAIN ledger :
            /\ GrantsFor(x) = {g}
            /\ ledger[g].owner = txn[x].payer /\ ledger[g].tier = txn[x].tier
      BY <2>2 DEF IInv, TablesInv, PaidIffGranted
    <3> QED BY <1>1, <3>1
  <2>3. \A x \in DOMAIN txn : txn[x].status = "pending" => GrantsFor(x)' = {}
    BY <1>1 DEF IInv, TablesInv, PaidIffGranted
  <2> QED BY <2>1, <2>2, <2>3 DEF PaidIffGranted
<1>4. RefundedIsOver'
  <2>1. ASSUME NEW x \in DOMAIN txn, txn'[x].status = "refunded"
        PROVE  /\ txn[x].external \in DOMAIN charge
               /\ charge[txn[x].external].txn = x
               /\ charge[txn[x].external].refunded
               /\ \A g \in GrantsFor(x) : ledger'[g].revoked
    <3>1. txn[x].status # "pending" BY <2>1
    <3>2. GrantsFor(x) \subseteq DOMAIN ledger BY DEF GrantsFor
    <3> QED BY <2>1, <3>1, <3>2 DEF IInv, TablesInv, RefundedIsOver, PaidHasCharge
  <2> QED BY <1>1, <2>1 DEF RefundedIsOver
<1> QED BY <1>2, <1>3, <1>4 DEF TablesInv

LEMMA ActivateCommitStep ==
  ASSUME IInv, NEW s \in Sessions, ActivateCommit(s)
  PROVE  IInv'
<1>1. job[s].txn = NoTxn /\ job[s].new # NoGrant
  BY DEF ActivateCommit, At, IInv, SessionInv, JobMatchesTables, JobMatchesLedger
<1>2. PurchaseRow(s).txn = NoTxn
  BY <1>1 DEF PurchaseRow
<1>3. ledger' = Written(s) /\ UNCHANGED <<txn, charge>>
  BY DEF ActivateCommit, telegram
<1>4. /\ LedgerGrows(s) /\ DOMAIN ledger' \subseteq Grants
      /\ ledger' \in [DOMAIN ledger' -> GrantRow]
  BY <1>3, WrittenRows, WrittenGrows
<1>5. \A g \in DOMAIN ledger' \ DOMAIN ledger : ledger'[g].txn = NoTxn
  BY <1>1, <1>2, <1>3, WrittenRows
<1>6. TablesInv'
  BY <1>3, <1>4, <1>5, TablesKept DEF LedgerGrows
<1>7. TxnGrows(s)
  BY <1>3 DEF TxnGrows
<1> QED
  BY <1>3, <1>4, <1>6, <1>7, CommitStep DEF ActivateCommit, IInv, TypeOK

LEMMA KillCommitStep ==
  ASSUME IInv, NEW s \in Sessions, KillCommit(s)
  PROVE  IInv'
<1>1. job[s].new = NoGrant
  BY DEF KillCommit, At, IInv, SessionInv, JobMatchesLedger
<1>2. ledger' = Written(s) /\ UNCHANGED <<txn, charge>>
  BY DEF KillCommit, telegram
<1>3. /\ LedgerGrows(s) /\ DOMAIN ledger' = DOMAIN ledger
      /\ DOMAIN ledger' \subseteq Grants /\ ledger' \in [DOMAIN ledger' -> GrantRow]
  BY <1>1, <1>2, WrittenRows, WrittenGrows
<1>4. TablesInv'
  BY <1>2, <1>3, TablesKept DEF LedgerGrows
<1>5. TxnGrows(s)
  BY <1>2 DEF TxnGrows
<1> QED
  BY <1>2, <1>3, <1>4, <1>5, CommitStep DEF KillCommit, IInv, TypeOK

LEMMA RefundCommitStep ==
  ASSUME IInv, NEW s \in Sessions, RefundCommit(s)
  PROVE  IInv'
<1> SUFFICES ASSUME NEW x, x = job[s].txn
             PROVE  IInv'
  OBVIOUS
<1>1. /\ x \in DOMAIN txn /\ txn[x].status # "pending"
      /\ charge[txn[x].external].refunded
      /\ job[s].new = NoGrant /\ job[s].todo = {}
      /\ \A g \in GrantsFor(x) : ledger[g].revoked \/ g \in job[s].done
  BY DEF RefundCommit, At, IInv, SessionInv, JobMatchesTables, JobMatchesLedger,
         RefundWillRevoke
<1>2. /\ DOMAIN txn' = DOMAIN txn
      /\ \A y \in DOMAIN txn \ {x} : txn'[y] = txn[y]
      /\ txn'[x].payer = txn[x].payer /\ txn'[x].tier = txn[x].tier
      /\ txn'[x].status = "refunded" /\ txn'[x].external = txn[x].external
      /\ txn' \in [DOMAIN txn' -> TxnRow]
  BY <1>1 DEF RefundCommit, IInv, TypeOK, TxnRow
<1>3. TxnGrows(s)
  BY <1>1, <1>2 DEF TxnGrows
<1>4. /\ DOMAIN txn' \subseteq Txns
      /\ \A y \in DOMAIN txn' :
           txn'[y].status = "pending" <=> txn'[y].external = NoCharge
  BY <1>1, <1>2 DEF IInv, TypeOK
<1>5. ledger' = Written(s) /\ UNCHANGED charge
  BY DEF RefundCommit, telegram
<1>6. /\ LedgerGrows(s) /\ DOMAIN ledger' = DOMAIN ledger
      /\ DOMAIN ledger' \subseteq Grants /\ ledger' \in [DOMAIN ledger' -> GrantRow]
  BY <1>1, <1>5, WrittenRows, WrittenGrows
<1>7. \A g \in GrantsFor(x) : ledger'[g].revoked
  BY <1>1, <1>5, WrittenRows DEF GrantsFor
<1>8. TablesInv'
  BY <1>1, <1>2, <1>5, <1>6, <1>7, TablesKept DEF LedgerGrows
<1> QED
  BY <1>2, <1>3, <1>4, <1>6, <1>8, CommitStep DEF RefundCommit

\* Not a step of any session: the others see a new grant that nobody paid for.
LEMMA GrantBonusStep ==
  ASSUME IInv, NEW u \in Users, NEW g \in Grants, GrantBonus(u, g)
  PROVE  IInv'
<1>1. /\ DOMAIN ledger' = DOMAIN ledger \cup {g} /\ g \notin DOMAIN ledger
      /\ ledger'[g] = BonusRow(u)
      /\ \A h \in DOMAIN ledger : ledger'[h] = ledger[h]
      /\ ledger' = [h \in DOMAIN ledger' |-> ledger'[h]]
      /\ UNCHANGED <<txn, charge, chat, inbox, job, clock>>
      /\ \A s \in Sessions : job[s].new # g
  BY DEF GrantBonus, Fresh, telegram
<1>2. BonusRow(u) \in GrantRow /\ BonusRow(u).txn = NoTxn
  BY TimesAreNaturals DEF BonusRow, GrantRow, Tiers, IInv, TypeOK, Time
<1>3. TypeOK'
  BY <1>1, <1>2 DEF IInv, TypeOK
<1>4. TablesInv'
  BY <1>1, <1>2, TablesKept
<1>5. ASSUME NEW s \in Sessions PROVE SessionInv(s)'
  <2>1. JobMatchesTables(s)'
    BY <1>1 DEF IInv, SessionInv, JobMatchesTables
  <2>2. JobMatchesLedger(s)'
    BY <1>1 DEF IInv, SessionInv, JobMatchesLedger
  <2>3. ASSUME NEW x \in Txns PROVE {h \in DOMAIN ledger' : ledger'[h].txn = x} = GrantsFor(x)
    BY <1>1, <1>2, NullsAreNotIds DEF GrantsFor
  <2>4. ConfirmWillBeFirst(s)' /\ RefundWillRevoke(s)'
    BY <1>1, <2>3
    DEF IInv, TypeOK, SessionInv, JobMatchesTables, ConfirmWillBeFirst,
        RefundWillRevoke, GrantsFor, At
  <2> QED BY <2>1, <2>2, <2>4 DEF SessionInv
<1>6. IdsAreFresh' /\ LocksExclude'
  BY <1>1 DEF IInv, IdsAreFresh, LocksExclude, HoldsTxn
<1> QED BY <1>3, <1>4, <1>5, <1>6 DEF IInv

\* A charge appears, or an update leaves the inbox, or time passes.
LEMMA WorldStep ==
  ASSUME IInv, UNCHANGED <<txn, ledger, job, chat>>, ChargeGrows,
         DOMAIN charge' \subseteq Charges,
         charge' \in [DOMAIN charge' -> ChargeRow],
         inbox' \subseteq DOMAIN charge', clock' \in Time
  PROVE  IInv'
<1>1. TypeOK'
  BY DEF IInv, TypeOK
<1>2. ASSUME NEW s \in Sessions PROVE SessionInv(s)'
  <2>1. JobMatchesTables(s)'
    BY DEF IInv, SessionInv, JobMatchesTables, ChargeGrows, TablesInv, PaidHasCharge
  <2> QED
    BY <2>1 DEF IInv, SessionInv, JobMatchesLedger, ConfirmWillBeFirst,
                RefundWillRevoke, GrantsFor, At
<1>3. IdsAreFresh' /\ LocksExclude'
  BY DEF IInv, IdsAreFresh, LocksExclude, HoldsTxn
<1>4. TablesInv'
  BY DEF IInv, TablesInv, PaidHasCharge, PaidIffGranted, RefundedIsOver,
         GrantsFor, ChargeGrows
<1> QED BY <1>1, <1>2, <1>3, <1>4 DEF IInv

LEMMA PayStep ==
  ASSUME IInv, NEW x \in Txns, NEW c \in Charges, Pay(x, c)
  PROVE  IInv'
<1>1. /\ DOMAIN charge' \subseteq Charges
      /\ charge' \in [DOMAIN charge' -> ChargeRow]
      /\ inbox' \subseteq DOMAIN charge'
      /\ ChargeGrows
  BY DEF Pay, IInv, TypeOK, ChargeRow, ChargeGrows
<1> QED BY <1>1, WorldStep DEF Pay, tables, IInv, TypeOK

-----------------------------------------------------------------------------
(* The invariant is inductive.                                             *)

LEMMA InitIInv ==
  Init => IInv
<1> SUFFICES ASSUME Init PROVE IInv
  OBVIOUS
<1>1. Idle \in Job
  BY TimesAreNaturals DEF Idle, Request, Job, Ops, Pcs, Time
<1>2. TypeOK
  BY <1>1, TimesAreNaturals DEF Init, TypeOK, Time
<1>3. ASSUME NEW s \in Sessions PROVE SessionInv(s)
  BY NullsAreNotIds
  DEF Init, SessionInv, JobMatchesTables, JobMatchesLedger, ConfirmWillBeFirst,
      RefundWillRevoke, Idle, Request, At
<1>4. IdsAreFresh /\ LocksExclude
  BY DEF Init, IdsAreFresh, LocksExclude, HoldsTxn, Idle, Request
<1>5. TablesInv
  BY DEF Init, TablesInv, PaidHasCharge, PaidIffGranted, RefundedIsOver
<1> QED BY <1>2, <1>3, <1>4, <1>5 DEF IInv

LEMMA StartStep ==
  ASSUME IInv, NEW s \in Sessions, Start(s)
  PROVE  IInv'
<1>1. CASE \E u \in Users, t \in SoldTiers, x \in Txns : InvoiceAdd(s, u, t, x)
  BY <1>1, InvoiceAddStep
<1>2. CASE \E c \in Charges : ConfirmRead(s, c)
  BY <1>2, ConfirmReadStep
<1>3. CASE \E u \in Users, t \in SoldTiers : ActivateBegin(s, u, t)
  BY <1>3, ActivateBeginStep
<1>4. CASE \E x \in Txns : RefundRead(s, x)
  BY <1>4, RefundReadStep
<1>5. CASE \E u \in Users : KillCheck(s, u)
  BY <1>5, KillCheckStep
<1> QED BY <1>1, <1>2, <1>3, <1>4, <1>5 DEF Start

LEMMA StatementStep ==
  ASSUME IInv, NEW s \in Sessions, Statement(s)
  PROVE  IInv'
<1>1. CASE InvoiceSend(s) BY <1>1, InvoiceSendStep
<1>2. CASE InvoiceCommit(s) BY <1>2, InvoiceCommitStep
<1>3. CASE ConfirmFlush(s) BY <1>3, ConfirmFlushStep
<1>4. CASE ConfirmCommit(s) BY <1>4, ConfirmCommitStep
<1>5. CASE ListPurchases(s) BY <1>5, ListPurchasesStep
<1>6. CASE \E g \in Grants : RevokeOne(s, g) BY <1>6, RevokeOneStep
<1>7. CASE \E g \in Grants : Insert(s, g) BY <1>7, InsertStep
<1>8. CASE InsertConflict(s) BY <1>8, EndStep DEF InsertConflict
<1>9. CASE ActivateCommit(s) BY <1>9, ActivateCommitStep
<1>10. CASE RefundGateway(s) BY <1>10, RefundGatewayStep
<1>11. CASE RefundGatewayError(s) BY <1>11, EndStep DEF RefundGatewayError
<1>12. CASE RefundFlush(s) BY <1>12, RefundFlushStep
<1>13. CASE RefundFind(s) BY <1>13, RefundFindStep
<1>14. CASE RefundCommit(s) BY <1>14, RefundCommitStep
<1>15. CASE KillList(s) BY <1>15, KillListStep
<1>16. CASE KillCommit(s) BY <1>16, KillCommitStep
<1> QED
  BY <1>1, <1>2, <1>3, <1>4, <1>5, <1>6, <1>7, <1>8, <1>9, <1>10, <1>11, <1>12,
     <1>13, <1>14, <1>15, <1>16 DEF Statement

LEMMA NextIInv ==
  IInv /\ [Next]_vars => IInv'
<1> SUFFICES ASSUME IInv, [Next]_vars PROVE IInv'
  OBVIOUS
<1>1. ASSUME UNCHANGED <<txn, ledger, job, chat, charge>>, inbox' \subseteq inbox,
             clock' \in Time
      PROVE  IInv'
  BY <1>1, WorldStep DEF IInv, TypeOK, ChargeGrows
<1>2. CASE \E s \in Sessions : Start(s) \/ Statement(s)
  BY <1>2, StartStep, StatementStep
<1>3. CASE \E s \in Sessions : Abort(s) \/ DeadlockVictim(s)
  BY <1>3, EndStep DEF Abort, DeadlockVictim
<1>4. CASE \E x \in Txns, c \in Charges : Pay(x, c)
  BY <1>4, PayStep
<1>5. CASE \E c \in Charges : ConfirmReject(c) \/ Dropped(c)
  BY <1>1, <1>5 DEF ConfirmReject, Dropped, tables, IInv, TypeOK
<1>6. CASE \E u \in Users, g \in Grants : GrantBonus(u, g)
  BY <1>6, GrantBonusStep
<1>7. CASE Tick
  BY <1>1, <1>7, TimesAreNaturals DEF Tick, tables, telegram, Time, IInv, TypeOK
<1>8. CASE Rest \/ UNCHANGED vars
  BY <1>1, <1>8 DEF Rest, vars, IInv, TypeOK
<1> QED BY <1>2, <1>3, <1>4, <1>5, <1>6, <1>7, <1>8 DEF Next

THEOREM Inductive == Spec => []IInv
BY InitIInv, NextIInv, PTL DEF Spec

-----------------------------------------------------------------------------
(* Invariants of the specification.                                        *)

\* Tables and jobs always have their types, and the external_id that a refund
\* asserts is there is there.
THEOREM TypeCorrect == Spec => []TypeOK
BY Inductive, PTL DEF IInv

\* A payment and its grant are committed together, once, for the right payer
\* and tier, whatever interleaves, fails or is delivered again.
THEOREM PaymentAtomic == Spec => []PaidIffGranted
<1>1. IInv => PaidIffGranted BY DEF IInv, TablesInv
<1> QED BY <1>1, Inductive, PTL

\* A REFUNDED transaction's money is back and its grant is revoked.
THEOREM RefundComplete == Spec => []RefundedIsOver
<1>1. IInv => RefundedIsOver BY DEF IInv, TablesInv
<1> QED BY <1>1, Inductive, PTL

\* Among active grants there is one whose tier no other shadows.
LEMMA HighestTier ==
  ASSUME NEW A, A # {}, \A g \in A : g.tier \in Tiers
  PROVE  \E g \in A : \A h \in A : Priority[h.tier] <= Priority[g.tier]
<1> DEFINE Has(t) == \E g \in A : g.tier = t
<1>1. \A g \in A : g.tier \in {"bonus", "bronze", "silver", "gold"}
  BY DEF Tiers, CatalogTiers
<1>2. /\ Priority["bonus"] = 0 /\ Priority["bronze"] = 1
      /\ Priority["silver"] = 2 /\ Priority["gold"] = 3
  BY DEF Priority
<1>3. CASE Has("gold") BY <1>1, <1>2, <1>3
<1>4. CASE ~Has("gold") /\ Has("silver") BY <1>1, <1>2, <1>4
<1>5. CASE ~Has("gold") /\ ~Has("silver") /\ Has("bronze") BY <1>1, <1>2, <1>5
<1>6. CASE ~Has("gold") /\ ~Has("silver") /\ ~Has("bronze") BY <1>1, <1>2, <1>6
<1> QED BY <1>3, <1>4, <1>5, <1>6

\* The tier that is shown is the tier of an active grant.
LEMMA TierIsActive ==
  ASSUME NEW rows, NEW now, \A g \in rows : g.tier \in Tiers,
         FromGrants(rows, now).tier \in CatalogTiers
  PROVE  \E g \in rows : IsActiveAt(g, now) /\ g.tier \in CatalogTiers
<1> DEFINE A == {g \in rows : IsActiveAt(g, now)}
           Highest(g) == \A h \in A : Priority[h.tier] <= Priority[g.tier]
           first == CHOOSE g \in A : Highest(g)
<1>1. A # {}
  BY DEF FromGrants, Inactive, CatalogTiers
<1>2. FromGrants(rows, now).tier = first.tier
  BY <1>1 DEF FromGrants
<1>3. \E g \in A : Highest(g)
  BY <1>1, HighestTier
<1>4. first \in A
  BY <1>3
<1> QED BY <1>2, <1>4

\* A user is shown a paid tier only while an administrator's gift or a PAID
\* transaction backs it: a refund can never leave its tier behind.
THEOREM ShownTierIsPaidFor == Spec => []PaidTierBacked
<1>1. IInv => PaidTierBacked
  <2> SUFFICES ASSUME IInv, NEW u \in Users,
                      StatusOf(u, clock).tier \in CatalogTiers
               PROVE  \E g \in ActivePurchases(u, clock) :
                        \/ ledger[g].txn = NoTxn
                        \/ /\ ledger[g].txn \in DOMAIN txn
                           /\ txn[ledger[g].txn].status = "paid"
    BY DEF PaidTierBacked
  <2> DEFINE rows == {ledger[g] : g \in GrantsOf(u)}
  <2>1. \A row \in rows : row.tier \in Tiers
    BY DEF GrantsOf, IInv, TypeOK, GrantRow
  <2>2. \E row \in rows : IsActiveAt(row, clock) /\ row.tier \in CatalogTiers
    <3> HIDE DEF rows
    <3>1. FromGrants(rows, clock).tier \in CatalogTiers BY DEF StatusOf, rows
    <3> QED BY <2>1, <3>1, TierIsActive
  <2>3. PICK g \in ActivePurchases(u, clock) : TRUE
    BY <2>2 DEF ActivePurchases, GrantsOf, IsPurchase
  <2>4. g \in DOMAIN ledger /\ ~ledger[g].revoked
    BY <2>3 DEF ActivePurchases, GrantsOf, IsActiveAt
  <2>5. CASE ledger[g].txn = NoTxn
    BY <2>3, <2>5
  <2>6. CASE ledger[g].txn # NoTxn
    <3>1. ledger[g].txn \in DOMAIN txn /\ g \in GrantsFor(ledger[g].txn)
      BY <2>4, <2>6 DEF GrantsFor, IInv, TablesInv, PaidIffGranted
    <3>2. txn[ledger[g].txn].status \notin {"pending", "refunded"}
      BY <2>4, <3>1 DEF IInv, TablesInv, PaidIffGranted, RefundedIsOver
    <3>3. txn[ledger[g].txn].status = "paid"
      BY <3>1, <3>2 DEF IInv, TypeOK, TxnRow
    <3> QED BY <2>3, <3>1, <3>3
  <2> QED BY <2>5, <2>6
<1> QED BY <1>1, Inductive, PTL

-----------------------------------------------------------------------------
(* Action properties.                                                      *)

LEMMA TableWriters ==
  ASSUME IInv, [Next]_vars
  PROVE  \/ UNCHANGED <<txn, ledger>>
         \/ \E u \in Users, g \in Grants : GrantBonus(u, g)
         \/ \E s \in Sessions :
              \/ InvoiceCommit(s) \/ ConfirmCommit(s) \/ ActivateCommit(s)
              \/ RefundCommit(s) \/ KillCommit(s)
<1>1. ASSUME NEW s \in Sessions, Start(s) PROVE UNCHANGED <<txn, ledger>>
  BY <1>1 DEF Start, InvoiceAdd, ConfirmRead, ActivateBegin, RefundRead, KillCheck, tables
<1>2. ASSUME NEW s \in Sessions, Statement(s)
      PROVE  \/ UNCHANGED <<txn, ledger>>
             \/ InvoiceCommit(s) \/ ConfirmCommit(s) \/ ActivateCommit(s)
             \/ RefundCommit(s) \/ KillCommit(s)
  BY <1>2
  DEF Statement, InvoiceSend, ConfirmFlush, ListPurchases, RevokeOne, Insert,
      InsertConflict, RefundGateway, RefundGatewayError, RefundFlush, RefundFind,
      KillList, tables
<1>3. ASSUME NEW s \in Sessions, Abort(s) \/ DeadlockVictim(s)
      PROVE  UNCHANGED <<txn, ledger>>
  BY <1>3 DEF Abort, DeadlockVictim, tables
<1>4. CASE \/ \E x \in Txns, c \in Charges : Pay(x, c)
           \/ \E c \in Charges : ConfirmReject(c) \/ Dropped(c)
           \/ Tick \/ Rest \/ UNCHANGED vars
  BY <1>4 DEF Pay, ConfirmReject, Dropped, Tick, Rest, vars, tables
<1> QED BY <1>1, <1>2, <1>3, <1>4 DEF Next

LEMMA StepForward ==
  ASSUME IInv, [Next]_vars PROVE StatusForward
<1>1. \A x \in DOMAIN txn : txn[x].status \in {"pending", "paid", "refunded"}
  BY DEF IInv, TypeOK, TxnRow
<1>2. ASSUME UNCHANGED txn PROVE StatusForward
  BY <1>1, <1>2 DEF StatusForward
<1>3. ASSUME NEW s \in Sessions, InvoiceCommit(s) PROVE StatusForward
  <2>1. \A x \in DOMAIN txn : x \in DOMAIN txn' /\ txn'[x] = txn[x]
    BY <1>3 DEF InvoiceCommit, At, IInv, SessionInv, JobMatchesTables
  <2> QED BY <1>1, <2>1 DEF StatusForward
<1>4. ASSUME NEW s \in Sessions, ConfirmCommit(s) PROVE StatusForward
  <2>1. job[s].txn \in DOMAIN txn /\ GrantsFor(job[s].txn) = {}
    BY <1>4 DEF ConfirmCommit, At, IInv, SessionInv, JobMatchesTables, ConfirmWillBeFirst
  <2>2. txn[job[s].txn].status = "pending" /\ txn[job[s].txn].external = NoCharge
    BY <2>1 DEF IInv, TypeOK, TablesInv, PaidIffGranted
  <2>3. /\ DOMAIN txn' = DOMAIN txn
        /\ txn'[job[s].txn].status = "paid"
        /\ \A x \in DOMAIN txn \ {job[s].txn} : txn'[x] = txn[x]
    BY <1>4, <2>1 DEF ConfirmCommit, IInv, TypeOK, TxnRow
  <2> QED BY <1>1, <2>1, <2>2, <2>3 DEF StatusForward
<1>5. ASSUME NEW s \in Sessions, RefundCommit(s) PROVE StatusForward
  <2>1. job[s].txn \in DOMAIN txn /\ txn[job[s].txn].status # "pending"
    BY <1>5 DEF RefundCommit, At, IInv, SessionInv, JobMatchesTables
  <2>2. /\ DOMAIN txn' = DOMAIN txn
        /\ txn'[job[s].txn].status = "refunded"
        /\ txn'[job[s].txn].external = txn[job[s].txn].external
        /\ \A x \in DOMAIN txn \ {job[s].txn} : txn'[x] = txn[x]
    BY <1>5, <2>1 DEF RefundCommit, IInv, TypeOK, TxnRow
  <2> QED BY <1>1, <2>1, <2>2 DEF StatusForward
<1> QED
  BY <1>2, <1>3, <1>4, <1>5, TableWriters
  DEF GrantBonus, ActivateCommit, KillCommit

\* No interleaving takes a transaction back, or changes the charge a refund
\* will name.
THEOREM Lifecycle == Spec => LifecycleForward
<1>1. IInv /\ [Next]_vars => [StatusForward]_txn
  BY StepForward
<1> QED BY <1>1, Inductive, PTL DEF Spec, LifecycleForward

LEMMA StepByRight ==
  ASSUME IInv, [Next]_vars PROVE ChangedByRight
<1>1. ASSUME NEW s \in Sessions, ledger' = Written(s) PROVE ChangedByRight
  <2> SUFFICES ASSUME NEW g \in DOMAIN ledger, ledger'[g] # ledger[g]
               PROVE  \/ job[s].op = "kill" /\ job[s].owner = ledger[g].owner
                      \/ /\ job[s].op \in {"confirm", "activate"}
                         /\ job[s].owner = ledger[g].owner
                         /\ IsPurchase(ledger[g])
                      \/ /\ job[s].op = "refund"
                         /\ job[s].txn = ledger[g].txn
    BY DEF ChangedByRight
  <2>1. g \in job[s].done BY <1>1, WrittenRows
  <2> QED BY <2>1 DEF IInv, SessionInv, JobMatchesLedger
<1>2. ASSUME \A g \in DOMAIN ledger : ledger'[g] = ledger[g] PROVE ChangedByRight
  BY <1>2 DEF ChangedByRight
<1>3. ASSUME NEW u \in Users, NEW g \in Grants, GrantBonus(u, g) PROVE ChangedByRight
  BY <1>2, <1>3 DEF GrantBonus, Fresh
<1> QED
  BY <1>1, <1>2, <1>3, TableWriters
  DEF InvoiceCommit, ConfirmCommit, ActivateCommit, RefundCommit, KillCommit

\* A new purchase forfeits purchases of its owner only, never bonus days, and
\* a refund ends its own grant only.
THEOREM ByRight == Spec => GrantsChangedByRight
<1>1. IInv /\ [Next]_vars => [ChangedByRight]_ledger
  BY StepByRight
<1> QED BY <1>1, Inductive, PTL DEF Spec, GrantsChangedByRight

-----------------------------------------------------------------------------
(* Premium implements Entitlement.                                         *)

LEMMA AccessValues ==
  \A x : AccessOf(x) \in {"none", "open", "ended"}
BY DEF AccessOf

\* Ending periods: what the ledger's growth means for the abstract periods.
LEMMA AccessEnds ==
  ASSUME IInv, NEW x \in Txns,
         DOMAIN ledger \subseteq DOMAIN ledger',
         \A g \in DOMAIN ledger' \ DOMAIN ledger : ledger'[g].txn # x,
         \A g \in DOMAIN ledger :
           ledger'[g].txn = ledger[g].txn /\ (ledger[g].revoked => ledger'[g].revoked)
  PROVE  \/ AccessOf(x)' = AccessOf(x)
         \/ AccessOf(x) = "open" /\ AccessOf(x)' = "ended"
<1>1. GrantsFor(x)' = GrantsFor(x)
  BY DEF GrantsFor
<1> QED BY <1>1 DEF AccessOf, GrantsFor

\* The rows of x are the same before and after.
LEMMA AccessKept ==
  ASSUME NEW x, UNCHANGED ledger PROVE AccessOf(x)' = AccessOf(x)
BY DEF AccessOf, GrantsFor

\* Some periods are ended, or nothing happens that Entitlement tells apart.
LEMMA ContractEnd ==
  ASSUME \A x \in Txns : StageOf(x)' = StageOf(x),
         \A x \in Txns : \/ AccessOf(x)' = AccessOf(x)
                         \/ AccessOf(x) = "open" /\ AccessOf(x)' = "ended"
  PROVE  Contract!Next
<1> DEFINE S == {x \in Txns : AccessOf(x) # AccessOf(x)'}
<1>1. Contract!Ended(S) = [x \in Txns |-> AccessOf(x)']
  BY DEF Contract!Ended
<1>2. Contract!End(S)
  BY <1>1 DEF Contract!End
<1> QED BY <1>2 DEF Contract!Next

LEMMA ContractInvoice ==
  ASSUME NEW x \in Txns, StageOf(x) = "none", StageOf(x)' = "pending",
         \A y \in Txns \ {x} : StageOf(y)' = StageOf(y),
         \A y \in Txns : AccessOf(y)' = AccessOf(y)
  PROVE  Contract!Next
<1>1. Contract!Invoice(x) BY DEF Contract!Invoice
<1> QED BY <1>1 DEF Contract!Next

LEMMA ContractSettle ==
  ASSUME NEW x \in Txns, StageOf(x) = "pending", StageOf(x)' = "paid",
         \A y \in Txns \ {x} : StageOf(y)' = StageOf(y),
         AccessOf(x) = "none", AccessOf(x)' = "open",
         \A y \in Txns \ {x} : \/ AccessOf(y)' = AccessOf(y)
                               \/ AccessOf(y) = "open" /\ AccessOf(y)' = "ended"
  PROVE  Contract!Next
<1> DEFINE S == {y \in Txns \ {x} : AccessOf(y) # AccessOf(y)'}
<1>1. [Contract!Ended(S) EXCEPT ![x] = "open"] = [y \in Txns |-> AccessOf(y)']
  BY DEF Contract!Ended
<1>2. Contract!Settle(x, S)
  BY <1>1 DEF Contract!Settle
<1> QED BY <1>2 DEF Contract!Next

LEMMA ContractRefund ==
  ASSUME NEW x \in Txns, StageOf(x) = "paid", StageOf(x)' = "refunded",
         \A y \in Txns \ {x} : StageOf(y)' = StageOf(y),
         AccessOf(x) # "none", AccessOf(x)' = "ended",
         \A y \in Txns \ {x} : AccessOf(y)' = AccessOf(y)
  PROVE  Contract!Next
<1>1. Contract!Refund(x) BY DEF Contract!Refund
<1> QED BY <1>1 DEF Contract!Next

LEMMA InvoiceCommitImplements ==
  ASSUME IInv, NEW s \in Sessions, InvoiceCommit(s) PROVE Contract!Next
<1> SUFFICES ASSUME NEW x, x = job[s].txn PROVE Contract!Next
  OBVIOUS
<1>1. x \in Txns \ DOMAIN txn
  BY DEF InvoiceCommit, At, IInv, SessionInv, JobMatchesTables
<1>2. /\ DOMAIN txn' = DOMAIN txn \cup {x}
      /\ txn'[x].status = "pending"
      /\ \A y \in DOMAIN txn : txn'[y] = txn[y]
      /\ UNCHANGED ledger
  BY <1>1 DEF InvoiceCommit
<1>3. /\ StageOf(x) = "none" /\ StageOf(x)' = "pending"
      /\ \A y \in Txns \ {x} : StageOf(y)' = StageOf(y)
  BY <1>1, <1>2 DEF StageOf
<1> QED BY <1>1, <1>2, <1>3, AccessKept, ContractInvoice

LEMMA ConfirmCommitImplements ==
  ASSUME IInv, NEW s \in Sessions, ConfirmCommit(s) PROVE Contract!Next
<1> SUFFICES ASSUME NEW x, x = job[s].txn, NEW n, n = job[s].new
             PROVE  Contract!Next
  OBVIOUS
<1>1. /\ x \in DOMAIN txn /\ x \in Txns /\ x # NoTxn
      /\ n # NoGrant /\ n \notin DOMAIN ledger
  BY NullsAreNotIds
  DEF ConfirmCommit, At, IInv, SessionInv, JobMatchesTables, JobMatchesLedger, TypeOK
<1>2. GrantsFor(x) = {} /\ txn[x].status = "pending"
  <2>1. GrantsFor(x) = {}
    BY DEF ConfirmCommit, IInv, SessionInv, ConfirmWillBeFirst
  <2> QED BY <1>1, <2>1 DEF IInv, TablesInv, PaidIffGranted
<1>3. /\ DOMAIN txn' = DOMAIN txn
      /\ \A y \in DOMAIN txn \ {x} : txn'[y] = txn[y]
      /\ txn'[x].status = "paid"
  BY <1>1 DEF ConfirmCommit, IInv, TypeOK, TxnRow
<1>4. ledger' = Written(s)
  BY DEF ConfirmCommit
<1>5. /\ DOMAIN ledger' = DOMAIN ledger \cup {n}
      /\ ledger'[n].txn = x /\ ~ledger'[n].revoked
      /\ \A g \in DOMAIN ledger :
           /\ ledger'[g].txn = ledger[g].txn
           /\ ledger[g].revoked => ledger'[g].revoked
  <2>1. PurchaseRow(s).txn = x /\ ~PurchaseRow(s).revoked
    BY DEF PurchaseRow
  <2> QED BY <1>1, <1>4, <2>1, WrittenRows
<1>6. GrantsFor(x)' = {n}
  BY <1>1, <1>2, <1>5 DEF GrantsFor
<1>7. AccessOf(x) = "none" /\ AccessOf(x)' = "open"
  BY <1>2, <1>5, <1>6 DEF AccessOf
<1>8. \A y \in Txns \ {x} : \/ AccessOf(y)' = AccessOf(y)
                            \/ AccessOf(y) = "open" /\ AccessOf(y)' = "ended"
  <2> SUFFICES ASSUME NEW y \in Txns \ {x}
               PROVE  \/ AccessOf(y)' = AccessOf(y)
                      \/ AccessOf(y) = "open" /\ AccessOf(y)' = "ended"
    OBVIOUS
  <2>1. \A g \in DOMAIN ledger' \ DOMAIN ledger : ledger'[g].txn # y
    BY <1>5
  <2> QED BY <1>5, <2>1, AccessEnds
<1>9. /\ StageOf(x) = "pending" /\ StageOf(x)' = "paid"
      /\ \A y \in Txns \ {x} : StageOf(y)' = StageOf(y)
  BY <1>1, <1>2, <1>3 DEF StageOf
<1> QED BY <1>1, <1>7, <1>8, <1>9, ContractSettle

\* A transaction that was refunded already is refunded once more to no effect.
LEMMA RefundCommitImplements ==
  ASSUME IInv, NEW s \in Sessions, RefundCommit(s) PROVE Contract!Next
<1> SUFFICES ASSUME NEW x, x = job[s].txn PROVE Contract!Next
  OBVIOUS
<1>1. /\ x \in DOMAIN txn /\ x \in Txns /\ txn[x].status \in {"paid", "refunded"}
      /\ job[s].new = NoGrant
      /\ \A g \in GrantsFor(x) : ledger[g].revoked \/ g \in job[s].done
      /\ \A g \in job[s].done : g \in DOMAIN ledger /\ ledger[g].txn = x
      /\ GrantsFor(x) # {}
  <2>1. /\ x \in DOMAIN txn /\ x \in Txns /\ txn[x].status \in {"paid", "refunded"}
    BY DEF RefundCommit, At, IInv, SessionInv, JobMatchesTables, TypeOK, TxnRow
  <2>2. GrantsFor(x) # {}
    BY <2>1 DEF IInv, TablesInv, PaidIffGranted
  <2>3. /\ job[s].new = NoGrant
        /\ \A g \in GrantsFor(x) : ledger[g].revoked \/ g \in job[s].done
        /\ \A g \in job[s].done : g \in DOMAIN ledger /\ ledger[g].txn = x
    BY DEF RefundCommit, At, IInv, SessionInv, JobMatchesLedger, RefundWillRevoke
  <2> QED BY <2>1, <2>2, <2>3
<1>2. /\ DOMAIN txn' = DOMAIN txn
      /\ \A y \in DOMAIN txn \ {x} : txn'[y] = txn[y]
      /\ txn'[x].status = "refunded"
  BY <1>1 DEF RefundCommit, IInv, TypeOK, TxnRow
<1>3. ledger' = Written(s)
  BY DEF RefundCommit
<1>4. /\ DOMAIN ledger' = DOMAIN ledger
      /\ \A g \in DOMAIN ledger :
           /\ ledger'[g].txn = ledger[g].txn
           /\ ledger'[g].revoked <=> (ledger[g].revoked \/ g \in job[s].done)
  BY <1>1, <1>3, WrittenRows
<1>5. GrantsFor(x)' = GrantsFor(x) /\ \A g \in GrantsFor(x) : ledger'[g].revoked
  BY <1>1, <1>4 DEF GrantsFor
<1>6. AccessOf(x) # "none" /\ AccessOf(x)' = "ended"
  BY <1>1, <1>5 DEF AccessOf
<1>7. \A y \in Txns \ {x} : AccessOf(y)' = AccessOf(y)
  <2> SUFFICES ASSUME NEW y \in Txns \ {x} PROVE AccessOf(y)' = AccessOf(y)
    OBVIOUS
  <2>1. GrantsFor(y)' = GrantsFor(y)
    BY <1>4 DEF GrantsFor
  <2>2. \A g \in GrantsFor(y) : ledger'[g].revoked <=> ledger[g].revoked
    BY <1>1, <1>4 DEF GrantsFor
  <2> QED BY <2>1, <2>2 DEF AccessOf
<1>8. CASE txn[x].status = "paid"
  <2>1. /\ StageOf(x) = "paid" /\ StageOf(x)' = "refunded"
        /\ \A y \in Txns \ {x} : StageOf(y)' = StageOf(y)
    BY <1>1, <1>2, <1>8 DEF StageOf
  <2> QED BY <1>1, <1>6, <1>7, <2>1, ContractRefund
<1>9. CASE txn[x].status = "refunded"
  <2>1. \A y \in Txns : StageOf(y)' = StageOf(y)
    BY <1>1, <1>2, <1>9 DEF StageOf
  <2>2. \A g \in GrantsFor(x) : ledger[g].revoked
    BY <1>1, <1>9 DEF IInv, TablesInv, RefundedIsOver
  <2>3. AccessOf(x) = "ended"
    BY <1>1, <2>2 DEF AccessOf
  <2> QED BY <1>6, <1>7, <2>1, <2>3, ContractEnd
<1> QED BY <1>1, <1>8, <1>9

\* Grants that no transaction bought open no period.
LEMMA OtherWriterImplements ==
  ASSUME IInv,
         \/ \E s \in Sessions : ActivateCommit(s) \/ KillCommit(s)
         \/ \E u \in Users, g \in Grants : GrantBonus(u, g)
  PROVE  Contract!Next
<1>1. /\ UNCHANGED txn
      /\ DOMAIN ledger \subseteq DOMAIN ledger'
      /\ \A g \in DOMAIN ledger' \ DOMAIN ledger : ledger'[g].txn = NoTxn
      /\ \A g \in DOMAIN ledger :
           ledger'[g].txn = ledger[g].txn /\ (ledger[g].revoked => ledger'[g].revoked)
  <2>1. ASSUME NEW s \in Sessions, ActivateCommit(s) \/ KillCommit(s)
        PROVE  <1>1!:
    <3>1. ledger' = Written(s) /\ UNCHANGED txn
      BY <2>1 DEF ActivateCommit, KillCommit
    <3>2. job[s].txn = NoTxn
      BY <2>1 DEF ActivateCommit, KillCommit, At, IInv, SessionInv, JobMatchesTables
    <3>3. PurchaseRow(s).txn = NoTxn
      BY <3>2 DEF PurchaseRow
    <3> QED BY <3>1, <3>3, WrittenRows
  <2>2. ASSUME NEW u \in Users, NEW g \in Grants, GrantBonus(u, g)
        PROVE  <1>1!:
    BY <2>2 DEF GrantBonus, Fresh, BonusRow
  <2> QED BY <2>1, <2>2
<1>2. \A x \in Txns : StageOf(x)' = StageOf(x)
  BY <1>1 DEF StageOf
<1>3. \A x \in Txns : \/ AccessOf(x)' = AccessOf(x)
                      \/ AccessOf(x) = "open" /\ AccessOf(x)' = "ended"
  <2> SUFFICES ASSUME NEW x \in Txns
               PROVE  \/ AccessOf(x)' = AccessOf(x)
                      \/ AccessOf(x) = "open" /\ AccessOf(x)' = "ended"
    OBVIOUS
  <2>1. \A g \in DOMAIN ledger' \ DOMAIN ledger : ledger'[g].txn # x
    BY <1>1, NullsAreNotIds
  <2> QED BY <1>1, <2>1, AccessEnds
<1> QED BY <1>2, <1>3, ContractEnd

LEMMA InitImplements == Init => Contract!Init
<1> SUFFICES ASSUME Init PROVE Contract!Init
  OBVIOUS
<1>1. \A x \in Txns : StageOf(x) = "none" /\ AccessOf(x) = "none"
  BY DEF Init, StageOf, AccessOf, GrantsFor
<1> QED BY <1>1 DEF Contract!Init

LEMMA NextImplements ==
  IInv /\ [Next]_vars => [Contract!Next]_Contract!vars
<1> SUFFICES ASSUME IInv, [Next]_vars PROVE [Contract!Next]_Contract!vars
  OBVIOUS
<1>1. CASE UNCHANGED <<txn, ledger>>
  BY <1>1 DEF Contract!vars, StageOf, AccessOf, GrantsFor
<1>2. CASE \E s \in Sessions : InvoiceCommit(s) \/ ConfirmCommit(s) \/ RefundCommit(s)
  BY <1>2, InvoiceCommitImplements, ConfirmCommitImplements, RefundCommitImplements
<1>3. CASE \/ \E s \in Sessions : ActivateCommit(s) \/ KillCommit(s)
           \/ \E u \in Users, g \in Grants : GrantBonus(u, g)
  BY <1>3, OtherWriterImplements
<1> QED BY <1>1, <1>2, <1>3, TableWriters

\* Every behaviour of the sessions and tables is one of Entitlement: however
\* requests interleave, fail and repeat, the paid period opens with its
\* payment, ends with its refund, and never reopens.
THEOREM Implements == Spec => ImplementsEntitlement
BY InitImplements, NextImplements, Inductive, PTL
DEF Spec, ImplementsEntitlement, Contract!Spec

-----------------------------------------------------------------------------
(* One active purchase.  SubscriptionActivationService reads the purchases *)
(* it will revoke and locks nothing, so two purchases of one user that are *)
(* under way together miss each other.  One that is alone revokes all that *)
(* is active, also what such a pair has left.                              *)

\* What a purchase has listed is still everything that is active for its
\* owner, until it commits.
EveryPurchaseListed(s) ==
  HasListed(s) =>
    ActivePurchases(job[s].owner, job[s].now) \subseteq job[s].todo \cup job[s].done

ListIsWorkedOff(s) == Buying(s) /\ job[s].pc = "commit" => job[s].todo = {}

AtMostOne(u) == \A g, h \in ActivePurchases(u, clock) : g = h

\* With m and t for met and torn: a purchase that met no other has listed
\* everything, and who is not torn has one active purchase at most.
PurchaseInv(m, t) ==
  /\ \A s \in Sessions : job[s].now <= clock /\ ListIsWorkedOff(s)
  /\ \A s \in Sessions \ m : EveryPurchaseListed(s)
  /\ \A u \in Users \ t : AtMostOne(u)

AllNoted(m) == \A s \in Sessions : Meets(s) => s \in m

Buys(s) == ConfirmCommit(s) \/ ActivateCommit(s)

\* What of a record from m and t to n and u the argument needs.
Noted(m, n) ==
  \A s \in Sessions : Meets(s)' \/ (s \in m /\ HasListed(s)') => s \in n

Torn(m, t, u) ==
  /\ \A s \in Sessions \cap m : Buys(s) => job[s].owner \in u
  /\ \A v \in t \ u : \E s \in Sessions : Buys(s) /\ job[s].owner = v

\* Time only ends periods.
LEMMA ActiveEarlier ==
  ASSUME IInv, NEW u, NEW now \in Nat, NEW later \in Nat, now <= later
  PROVE  ActivePurchases(u, later) \subseteq ActivePurchases(u, now)
BY DEF ActivePurchases, IsActiveAt, GrantsOf, IInv, TypeOK, GrantRow

\* A commit activates the row it inserts and nothing else.
LEMMA ActiveAfter ==
  ASSUME IInv, NEW s \in Sessions, ledger' = Written(s), NEW u, NEW now,
         NEW g \in DOMAIN ledger', ledger'[g].owner = u, IsPurchase(ledger'[g]),
         IsActiveAt(ledger'[g], now)
  PROVE  \/ g = job[s].new /\ Buying(s) /\ job[s].pc = "commit" /\ job[s].owner = u
         \/ g \in ActivePurchases(u, now) \ job[s].done
<1>1. JobMatchesLedger(s) BY DEF IInv, SessionInv
<1>2. CASE g \in DOMAIN ledger
  <2>1. ~ledger'[g].revoked BY DEF IsActiveAt
  <2>2. g \notin job[s].done BY <1>2, <2>1, WrittenRows
  <2>3. ledger'[g] = ledger[g] BY <1>2, <2>2, WrittenRows
  <2> QED BY <1>2, <2>2, <2>3 DEF ActivePurchases, GrantsOf
<1>3. CASE g \notin DOMAIN ledger
  <2>1. g = job[s].new /\ job[s].new # NoGrant
    BY <1>3, WrittenRows
  <2>2. ledger'[g].owner = job[s].owner
    <3>1. ledger'[g] = PurchaseRow(s) BY <2>1, WrittenRows
    <3>2. PurchaseRow(s).owner = job[s].owner BY DEF PurchaseRow
    <3> QED BY <3>1, <3>2
  <2> QED BY <1>1, <2>1, <2>2 DEF JobMatchesLedger, Buying
<1> QED BY <1>2, <1>3

LEMMA PurchaseCommit ==
  ASSUME NEW m, NEW t, NEW n, NEW u, AllNoted(m), Noted(m, n), Torn(m, t, u),
         IInv, PurchaseInv(m, t), NEW s \in Sessions,
         Buys(s) \/ RefundCommit(s) \/ KillCommit(s)
  PROVE  PurchaseInv(n, u)'
<1>1. /\ ledger' = Written(s) /\ End(s) /\ UNCHANGED clock
      /\ Buying(s) => job[s].pc = "commit"
  BY DEF Buys, ConfirmCommit, ActivateCommit, RefundCommit, KillCommit, At, Buying
<1>2. job'[s] = Idle /\ (\A r \in Sessions \ {s} : job'[r] = job[r]) /\ job[s] # Idle
  BY <1>1 DEF End, IInv, TypeOK, Idle, Request, Buys, ConfirmCommit, ActivateCommit,
              RefundCommit, KillCommit, At
<1>3. clock \in Nat /\ job[s].now \in Nat /\ job[s].now <= clock
  BY TimesAreNaturals DEF IInv, TypeOK, Time, Job, PurchaseInv
<1>4. Buying(s) => Buys(s)
  BY DEF Buying, Buys, RefundCommit, KillCommit, At
<1>5. ASSUME NEW r \in Sessions
      PROVE  /\ (job[r].now <= clock /\ ListIsWorkedOff(r))'
             /\ r \notin n => EveryPurchaseListed(r)'
  <2>1. CASE r = s
    BY <1>1, <1>2, <1>3, <2>1
    DEF Idle, Request, EveryPurchaseListed, HasListed, ListIsWorkedOff, Buying
  <2>2. CASE r # s
    <3>1. job'[r] = job[r] BY <1>2, <2>2
    <3>2. ASSUME HasListed(r), r \notin n,
                 NEW g \in DOMAIN ledger', ledger'[g].owner = job[r].owner,
                 IsPurchase(ledger'[g]), IsActiveAt(ledger'[g], job[r].now)
          PROVE  g \in job[r].todo \cup job[r].done
      <4>1. r \notin m
        BY <3>1, <3>2 DEF Noted, HasListed, Buying
      <4>2. ~(Buying(s) /\ job[s].pc = "commit" /\ job[s].owner = job[r].owner)
        BY <2>2, <3>2, <4>1 DEF AllNoted, Meets, HasListed
      <4>3. g \in ActivePurchases(job[r].owner, job[r].now)
        BY <1>1, <3>2, <4>2, ActiveAfter
      <4> QED BY <3>2, <4>1, <4>3 DEF PurchaseInv, EveryPurchaseListed, HasListed
    <3>3. r \notin n => EveryPurchaseListed(r)'
      BY <3>1, <3>2 DEF EveryPurchaseListed, HasListed, ActivePurchases, GrantsOf, Buying
    <3>4. (job[r].now <= clock)' /\ ListIsWorkedOff(r)'
      BY <1>1, <3>1 DEF PurchaseInv, ListIsWorkedOff, Buying
    <3> QED BY <3>3, <3>4
  <2> QED BY <2>1, <2>2
<1>6. ASSUME NEW v \in Users \ u PROVE AtMostOne(v)'
  <2> DEFINE Open(g) == /\ g \in DOMAIN ledger' /\ ledger'[g].owner = v
                        /\ IsPurchase(ledger'[g]) /\ IsActiveAt(ledger'[g], clock)
             Mine == Buying(s) /\ job[s].owner = v
  <2>1. ASSUME NEW g, Open(g)
        PROVE  (g = job[s].new /\ Mine) \/ g \in ActivePurchases(v, clock) \ job[s].done
    BY <1>1, <2>1, ActiveAfter
  <2>2. ASSUME Mine PROVE ActivePurchases(v, clock) \subseteq job[s].done
    <3>1. ActivePurchases(v, clock) \subseteq ActivePurchases(v, job[s].now)
      BY <1>3, ActiveEarlier
    <3>2. s \notin m
      BY <1>4, <1>6, <2>2 DEF Torn
    <3> QED
      BY <1>1, <2>2, <3>1, <3>2
      DEF PurchaseInv, EveryPurchaseListed, HasListed, ListIsWorkedOff
  <2>3. ASSUME ~Mine PROVE AtMostOne(v)
    <3>1. \A r \in Sessions : Buys(r) => r = s /\ Buying(s)
      BY <1>2 DEF Buys, Buying, ConfirmCommit, ActivateCommit, At, End, IInv, TypeOK,
                  Idle, Request
    <3>2. v \notin t BY <1>6, <2>3, <3>1 DEF Torn
    <3> QED BY <3>2, <1>6 DEF PurchaseInv
  <2>4. ASSUME NEW g, NEW h, Open(g), Open(h) PROVE g = h
    <3> HIDE DEF Open, Mine
    <3> QED BY <2>1, <2>2, <2>3, <2>4 DEF AtMostOne
  <2> QED BY <1>1, <2>4 DEF AtMostOne, ActivePurchases, GrantsOf
<1> QED BY <1>5, <1>6 DEF PurchaseInv

\* A step that commits nothing, and changes one job at most.
LEMMA PurchaseQuiet ==
  ASSUME NEW m, NEW t, IInv, PurchaseInv(m, t), UNCHANGED ledger, NEW s \in Sessions,
         \A r \in Sessions \ {s} : job'[r] = job[r],
         clock' \in Nat, clock <= clock',
         job'[s].now <= clock', s \notin m => EveryPurchaseListed(s)',
         ListIsWorkedOff(s)'
  PROVE  PurchaseInv(m, t)'
<1>1. clock \in Nat /\ \A r \in Sessions : job[r].now \in Nat
  BY TimesAreNaturals DEF IInv, TypeOK, Time, Job
<1>2. ASSUME NEW r \in Sessions
      PROVE  /\ (job[r].now <= clock /\ ListIsWorkedOff(r))'
             /\ r \notin m => EveryPurchaseListed(r)'
  <2>1. CASE r = s BY <2>1
  <2>2. CASE r # s
    BY <1>1, <2>2
    DEF PurchaseInv, EveryPurchaseListed, HasListed, ListIsWorkedOff,
        ActivePurchases, GrantsOf, Buying
  <2> QED BY <2>1, <2>2
<1>3. \A u \in Users \ t : AtMostOne(u)'
  <2>1. \A u : ActivePurchases(u, clock') \subseteq ActivePurchases(u, clock)
    BY <1>1, ActiveEarlier
  <2>2. \A u : ActivePurchases(u, clock)' = ActivePurchases(u, clock')
    BY DEF ActivePurchases, GrantsOf
  <2> QED BY <2>1, <2>2 DEF PurchaseInv, AtMostOne
<1> QED BY <1>2, <1>3 DEF PurchaseInv

LEMMA PurchaseStart ==
  ASSUME NEW m, NEW t, IInv, PurchaseInv(m, t), NEW s \in Sessions, Start(s)
  PROVE  PurchaseInv(m, t)'
<1>1. clock \in Nat
  BY TimesAreNaturals DEF IInv, TypeOK, Time
<1>2. UNCHANGED <<ledger, clock>> /\ \A r \in Sessions \ {s} : job'[r] = job[r]
  BY DEF Start, InvoiceAdd, ConfirmRead, ActivateBegin, RefundRead, KillCheck, Begin,
         tables, IInv, TypeOK
<1>3. job'[s].now \in {0, clock} /\ job'[s].pc \notin {"revoke", "commit"}
  BY DEF Start, InvoiceAdd, ConfirmRead, ActivateBegin, RefundRead, KillCheck, Begin,
         Request, IInv, TypeOK
<1>4. EveryPurchaseListed(s)' /\ ListIsWorkedOff(s)'
  BY <1>3 DEF EveryPurchaseListed, HasListed, ListIsWorkedOff
<1> QED BY <1>1, <1>2, <1>3, <1>4, PurchaseQuiet

LEMMA PurchaseEnd ==
  ASSUME NEW m, NEW t, IInv, PurchaseInv(m, t), NEW s \in Sessions, End(s), UNCHANGED <<ledger, clock>>
  PROVE  PurchaseInv(m, t)'
<1>1. clock \in Nat
  BY TimesAreNaturals DEF IInv, TypeOK, Time
<1>2. job'[s] = Idle /\ \A r \in Sessions \ {s} : job'[r] = job[r]
  BY DEF End, IInv, TypeOK
<1>3. job'[s].now = 0 /\ EveryPurchaseListed(s)' /\ ListIsWorkedOff(s)'
  BY <1>2 DEF Idle, Request, EveryPurchaseListed, HasListed, ListIsWorkedOff, Buying
<1> QED BY <1>1, <1>2, <1>3, PurchaseQuiet

LEMMA PurchaseStatement ==
  ASSUME NEW m, NEW t, IInv, PurchaseInv(m, t), NEW s \in Sessions, Statement(s),
         ~Buys(s), ~RefundCommit(s), ~KillCommit(s)
  PROVE  PurchaseInv(m, t)'
<1>1. clock \in Nat /\ job[s] \in Job /\ job[s].now <= clock /\ job[s].now \in Nat
  BY TimesAreNaturals DEF IInv, TypeOK, Time, Job, PurchaseInv
<1>2. CASE \/ InvoiceSend(s) \/ ConfirmFlush(s) \/ RefundGateway(s) \/ RefundFlush(s)
           \/ RefundFind(s) \/ KillList(s)
  <2>1. UNCHANGED <<ledger, clock>> /\ \A r \in Sessions \ {s} : job'[r] = job[r]
    BY <1>2
    DEF InvoiceSend, ConfirmFlush, RefundGateway, RefundFlush, RefundFind, KillList,
        tables, IInv, TypeOK
  <2>2. /\ job'[s].op = job[s].op
        /\ ~Buying(s) \/ job'[s].pc = "list"
        /\ job'[s].now \in {job[s].now, clock}
    BY <1>1, <1>2
    DEF InvoiceSend, ConfirmFlush, RefundGateway, RefundFlush, RefundFind, KillList,
        IInv, TypeOK, At, Job, Buying
  <2>3. EveryPurchaseListed(s)' /\ ListIsWorkedOff(s)'
    BY <2>2 DEF EveryPurchaseListed, HasListed, ListIsWorkedOff, Buying
  <2> QED BY <1>1, <2>1, <2>2, <2>3, PurchaseQuiet
<1>3. CASE ListPurchases(s)
  <2>1. UNCHANGED <<ledger, clock>> /\ \A r \in Sessions \ {s} : job'[r] = job[r]
    BY <1>3 DEF ListPurchases, tables, IInv, TypeOK
  <2>2. /\ job'[s].now = job[s].now /\ job'[s].owner = job[s].owner
        /\ job'[s].pc = "revoke"
        /\ job'[s].todo = ActivePurchases(job[s].owner, job[s].now)
    BY <1>1, <1>3 DEF ListPurchases, IInv, TypeOK, Job
  <2>3. EveryPurchaseListed(s)' /\ ListIsWorkedOff(s)'
    BY <2>1, <2>2 DEF EveryPurchaseListed, HasListed, ListIsWorkedOff,
        ActivePurchases, GrantsOf
  <2> QED BY <1>1, <2>1, <2>2, <2>3, PurchaseQuiet
<1>4. CASE \E g \in Grants : RevokeOne(s, g)
  <2>1. UNCHANGED <<ledger, clock>> /\ \A r \in Sessions \ {s} : job'[r] = job[r]
    BY <1>4 DEF RevokeOne, tables, IInv, TypeOK
  <2>2. /\ job[s].todo # {}
        /\ job'[s].now = job[s].now /\ job'[s].owner = job[s].owner
        /\ job'[s].op = job[s].op /\ job'[s].pc = job[s].pc
        /\ job'[s].todo \cup job'[s].done = job[s].todo \cup job[s].done
    BY <1>1, <1>4 DEF RevokeOne, IInv, TypeOK, Job
  <2>3. (s \notin m => EveryPurchaseListed(s)') /\ ListIsWorkedOff(s)'
    BY <2>1, <2>2
    DEF PurchaseInv, EveryPurchaseListed, HasListed, ListIsWorkedOff,
        ActivePurchases, GrantsOf, Buying
  <2> QED BY <1>1, <2>1, <2>2, <2>3, PurchaseQuiet
<1>5. CASE \E g \in Grants : Insert(s, g)
  <2>1. UNCHANGED <<ledger, clock>> /\ \A r \in Sessions \ {s} : job'[r] = job[r]
    BY <1>5 DEF Insert, tables, IInv, TypeOK
  <2>2. /\ Buying(s) /\ job[s].pc = "revoke" /\ job[s].todo = {}
        /\ job'[s].now = job[s].now /\ job'[s].owner = job[s].owner
        /\ job'[s].todo = {} /\ job'[s].done = job[s].done
    BY <1>1, <1>5 DEF Insert, AtInsert, Buying, IInv, TypeOK, Job
  <2>3. (s \notin m => EveryPurchaseListed(s)') /\ ListIsWorkedOff(s)'
    BY <2>1, <2>2
    DEF PurchaseInv, EveryPurchaseListed, HasListed, ListIsWorkedOff,
        ActivePurchases, GrantsOf
  <2> QED BY <1>1, <2>1, <2>2, <2>3, PurchaseQuiet
<1>6. CASE InvoiceCommit(s) \/ InsertConflict(s) \/ RefundGatewayError(s)
  BY <1>6, PurchaseEnd DEF InvoiceCommit, InsertConflict, RefundGatewayError, tables
<1> QED BY <1>2, <1>3, <1>4, <1>5, <1>6 DEF Statement, Buys

LEMMA PurchaseBonus ==
  ASSUME NEW m, NEW t, IInv, PurchaseInv(m, t), NEW u \in Users, NEW g \in Grants, GrantBonus(u, g)
  PROVE  PurchaseInv(m, t)'
<1>1. UNCHANGED <<job, clock>> BY DEF GrantBonus
<1>2. /\ \A h \in DOMAIN ledger : ledger'[h] = ledger[h]
      /\ \A h \in DOMAIN ledger' \ DOMAIN ledger : ~IsPurchase(ledger'[h])
  BY DEF GrantBonus, Fresh, BonusRow, IsPurchase, CatalogTiers
<1>3. \A v, now : \A h \in DOMAIN ledger' :
        ledger'[h].owner = v /\ IsPurchase(ledger'[h]) /\ IsActiveAt(ledger'[h], now)
          => h \in ActivePurchases(v, now)
  BY <1>2 DEF ActivePurchases, GrantsOf
<1>4. \A s \in Sessions :
        (s \notin m => EveryPurchaseListed(s)') /\ ListIsWorkedOff(s)'
  BY <1>1, <1>3
  DEF PurchaseInv, EveryPurchaseListed, HasListed, ListIsWorkedOff,
      ActivePurchases, GrantsOf, Buying
<1>5. \A v \in Users \ t : AtMostOne(v)'
  BY <1>1, <1>3 DEF PurchaseInv, AtMostOne, ActivePurchases, GrantsOf
<1> QED BY <1>1, <1>4, <1>5 DEF PurchaseInv

LEMMA PurchaseQuietly ==
  ASSUME NEW m, NEW t, IInv, PurchaseInv(m, t), [Next]_vars,
         ~\E s \in Sessions : Buys(s) \/ RefundCommit(s) \/ KillCommit(s)
  PROVE  PurchaseInv(m, t)'
<1>1. CASE \E s \in Sessions : Start(s) \/ Statement(s)
  BY <1>1, PurchaseStart, PurchaseStatement
<1>2. CASE \E s \in Sessions : Abort(s) \/ DeadlockVictim(s)
  BY <1>2, PurchaseEnd DEF Abort, DeadlockVictim, tables
<1>3. CASE \E u \in Users, g \in Grants : GrantBonus(u, g)
  BY <1>3, PurchaseBonus
<1>4. ASSUME UNCHANGED <<ledger, job>>, clock' \in Nat, clock <= clock'
      PROVE  PurchaseInv(m, t)'
  <2>1. clock \in Nat /\ \A s \in Sessions : job[s].now \in Nat
    BY TimesAreNaturals DEF IInv, TypeOK, Time, Job
  <2>2. \A s \in Sessions :
          (s \notin m => EveryPurchaseListed(s)') /\ ListIsWorkedOff(s)'
    BY <1>4
    DEF PurchaseInv, EveryPurchaseListed, HasListed, ListIsWorkedOff,
        ActivePurchases, GrantsOf, Buying
  <2>3. \A s \in Sessions : (job[s].now <= clock)'
    BY <1>4, <2>1 DEF PurchaseInv
  <2>4. \A u \in Users \ t : AtMostOne(u)'
    <3>1. \A u : ActivePurchases(u, clock') \subseteq ActivePurchases(u, clock)
      BY <1>4, <2>1, ActiveEarlier
    <3>2. \A u : ActivePurchases(u, clock)' = ActivePurchases(u, clock')
      BY <1>4 DEF ActivePurchases, GrantsOf
    <3> QED BY <3>1, <3>2 DEF PurchaseInv, AtMostOne
  <2> QED BY <2>2, <2>3, <2>4 DEF PurchaseInv
<1>5. clock \in Nat
  BY TimesAreNaturals DEF IInv, TypeOK, Time
<1>6. CASE \/ \E x \in Txns, c \in Charges : Pay(x, c)
           \/ \E c \in Charges : ConfirmReject(c) \/ Dropped(c)
           \/ Rest \/ UNCHANGED vars
  <2>1. UNCHANGED <<ledger, job, clock>>
    BY <1>6 DEF Pay, ConfirmReject, Dropped, Rest, vars, tables
  <2> QED BY <1>4, <1>5, <2>1
<1>7. CASE Tick
  <2>1. UNCHANGED <<ledger, job>> /\ clock' = clock + 1
    BY <1>7 DEF Tick, tables
  <2> QED BY <1>4, <1>5, <2>1
<1> QED BY <1>1, <1>2, <1>3, <1>6, <1>7 DEF Next

LEMMA PurchaseNext ==
  ASSUME NEW m, NEW t, NEW n, NEW u, AllNoted(m), Noted(m, n), Torn(m, t, u),
         IInv, PurchaseInv(m, t), [Next]_vars
  PROVE  PurchaseInv(n, u)' /\ AllNoted(n)'
<1>1. AllNoted(n)'
  BY DEF AllNoted, Noted
<1>2. CASE \E s \in Sessions : Buys(s) \/ RefundCommit(s) \/ KillCommit(s)
  BY <1>1, <1>2, PurchaseCommit
<1>3. CASE ~\E s \in Sessions : Buys(s) \/ RefundCommit(s) \/ KillCommit(s)
  <2>1. PurchaseInv(m, t)'
    BY <1>3, PurchaseQuietly
  <2>2. t \subseteq u
    BY <1>3 DEF Torn
  <2>3. \A s \in Sessions \ n : EveryPurchaseListed(s)'
    BY <2>1 DEF PurchaseInv, Noted, EveryPurchaseListed
  <2> QED BY <1>1, <2>1, <2>2, <2>3 DEF PurchaseInv
<1> QED BY <1>2, <1>3

LEMMA PurchaseInit == Init => PurchaseInv({}, {}) /\ AllNoted({})
<1> SUFFICES ASSUME Init PROVE PurchaseInv({}, {}) /\ AllNoted({})
  OBVIOUS
<1>1. \A s \in Sessions : job[s].now = 0 /\ job[s].op = "idle"
  BY DEF Init, Idle, Request
<1>2. \A u, now : ActivePurchases(u, now) = {}
  BY DEF Init, ActivePurchases, GrantsOf
<1> QED
  BY <1>1, <1>2
  DEF Init, PurchaseInv, EveryPurchaseListed, HasListed, ListIsWorkedOff, AtMostOne,
      Buying, AllNoted, Meets

LEMMA AtMostOneCounts ==
  ASSUME NEW u, AtMostOne(u)
  PROVE  Cardinality(ActivePurchases(u, clock)) <= 1
<1>1. CASE ActivePurchases(u, clock) = {}
  BY <1>1, FS_EmptySet
<1>2. CASE ActivePurchases(u, clock) # {}
  <2>1. PICK g : g \in ActivePurchases(u, clock) BY <1>2
  <2>2. ActivePurchases(u, clock) = {g} BY <2>1 DEF AtMostOne
  <2> QED BY <2>2, FS_Singleton
<1> QED BY <1>1, <1>2

\* A record of the past restrains nothing: what holds of Spec holds of it.
THEOREM HistoryIsPremium == HistorySpec => Spec
<1>1. HistoryInit => Init
  BY DEF HistoryInit
<1>2. [HistoryNext]_<<vars, history>> => [Next]_vars
  BY DEF HistoryNext, vars
<1> QED
  BY <1>1, <1>2, PTL DEF HistorySpec, Spec

\* A user has one active purchase at most unless the last purchase committed
\* for them had met another one: whatever refunds, ends, bonus days and
\* failures come in between, the next purchase that is alone revokes both, and
\* nobody else's purchases ever suffer.
THEOREM OverlapsOnlySpoil == HistorySpec => []OverlapsSpoilOnlyTheirs
<1> DEFINE Inv == PurchaseInv(met, torn) /\ AllNoted(met)
<1>1. HistoryInit => Inv
  BY PurchaseInit DEF HistoryInit
<1>2. IInv /\ Inv /\ [HistoryNext]_<<vars, history>> => Inv'
  <2> SUFFICES ASSUME IInv, Inv, [HistoryNext]_<<vars, history>>
               PROVE  Inv'
    OBVIOUS
  <2>1. PICK m, t, n, u : m = met /\ t = torn /\ n = met' /\ u = torn'
    OBVIOUS
  <2>2. PurchaseInv(m, t) /\ AllNoted(m)
    BY <2>1 DEF PurchaseInv, AllNoted
  <2>3. [Next]_vars
    BY DEF HistoryNext, vars
  <2>4. Noted(m, n) /\ Torn(m, t, u)
    <3>1. CASE HistoryNext
      BY <2>1, <3>1 DEF HistoryNext, Record, Noted, Torn, Buys
    <3>2. CASE UNCHANGED <<vars, history>>
      <4>1. Noted(m, n)
        BY <2>1, <2>2, <3>2 DEF vars, history, Noted, AllNoted, Meets, HasListed, Buying
      <4>2. \A s \in Sessions : ~Buys(s)
        BY <3>2 DEF vars, Buys, ConfirmCommit, ActivateCommit, End, At, IInv, TypeOK,
                    Idle, Request
      <4> QED
        BY <2>1, <3>2, <4>1, <4>2 DEF history, Torn
    <3> QED BY <3>1, <3>2
  <2>5. PurchaseInv(n, u)' /\ AllNoted(n)'
    BY <2>2, <2>3, <2>4, PurchaseNext
  <2> QED BY <2>1, <2>5 DEF PurchaseInv, AllNoted
<1>3. Inv => OverlapsSpoilOnlyTheirs
  BY AtMostOneCounts DEF PurchaseInv, OverlapsSpoilOnlyTheirs
<1> QED
  BY HistoryIsPremium, Inductive, <1>1, <1>2, <1>3, PTL DEF HistorySpec

\* No two purchases of one user are between their list and their commit at
\* once.  Before the list they may overlap; purchases of others, refunds, an
\* administrator's end and bonus days may overlap with anything.
PurchasesApart == \A s \in Sessions : ~Meets(s)

\* In particular, while no two purchases of one user overlap, a user always
\* has one active purchase at most.  SubscriptionActivationService relies on
\* this hypothesis, and nothing in the code provides it.
THEOREM OnePurchaseWhenApart == Spec /\ []PurchasesApart => []OneActivePurchase
<1>1. IInv /\ PurchasesApart' /\ PurchaseInv({}, {}) /\ AllNoted({}) /\ [Next]_vars
        => PurchaseInv({}, {})' /\ AllNoted({})'
  <2> SUFFICES ASSUME IInv, PurchasesApart', PurchaseInv({}, {}), AllNoted({}), [Next]_vars
               PROVE  PurchaseInv({}, {})' /\ AllNoted({})'
    OBVIOUS
  <2>1. Noted({}, {}) /\ Torn({}, {}, {})
    BY DEF Noted, Torn, PurchasesApart
  <2> QED BY <2>1, PurchaseNext
<1>2. PurchaseInv({}, {}) => OneActivePurchase
  BY AtMostOneCounts DEF PurchaseInv, OneActivePurchase
<1> QED BY Inductive, PurchaseInit, <1>1, <1>2, PTL DEF Spec

\* And so with one session.
THEOREM OnePurchaseWhenSerial ==
  ASSUME \A r, s \in Sessions : r = s
  PROVE  Spec => []OneActivePurchase
<1>1. PurchasesApart
  BY DEF PurchasesApart, Meets
<1> QED BY <1>1, OnePurchaseWhenApart, PTL

=============================================================================
