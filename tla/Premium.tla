------------------------------- MODULE Premium -------------------------------
(***************************************************************************)
(* Selling premium: the Payment and the Subscription contexts on one       *)
(* PostgreSQL database, the Telegram Stars gateway, and the bot updates    *)
(* that carry payments.                                                    *)
(*                                                                         *)
(* An update or an administrator's request is served by one database       *)
(* session, and sessions run concurrently.  A session is a job: its use    *)
(* case (op), the statement it is at (pc), what it has read, and its       *)
(* uncommitted writes.  Isolation is READ COMMITTED: a statement sees the  *)
(* committed tables, an UPDATE waits for the row's lock, and the writes of *)
(* a session reach the tables together, at its commit.  Nothing in the     *)
(* code takes a lock when it reads.                                        *)
(***************************************************************************)
EXTENDS Ledger, FiniteSets

CONSTANTS
  Users,        \* payers and owners of grants
  Txns,         \* ids of transactions
  Grants,       \* ids of subscriptions rows
  Charges,      \* Telegram's payment charge ids
  Sessions,     \* database sessions in use at a time
  SoldTiers,    \* the tiers offered
  Duration,     \* TIER_CATALOG: tier -> duration_days
  BonusDays,    \* length of a bonus grant
  MaxTime,      \* bound on the clock
  SideFlows,    \* other writers of the ledger: "activate", "kill", "bonus"
  Redelivery,   \* may an update be delivered again?
  Drops,        \* may a middleware drop an update?
  Aborts,       \* may a session fail or the process crash?
  NoTxn, NoGrant, NoCharge, NoUser

ASSUME NullsAreNotIds ==
  /\ NoTxn \notin Txns
  /\ NoGrant \notin Grants
  /\ NoCharge \notin Charges
  /\ NoUser \notin Users

ASSUME TimesAreNaturals ==
  /\ MaxTime \in Nat
  /\ BonusDays \in Nat
  /\ Duration \in [CatalogTiers -> Nat]

ASSUME SoldTiersAreInTheCatalog == SoldTiers \subseteq CatalogTiers

ASSUME SwitchesAreBoolean ==
  Redelivery \in BOOLEAN /\ Drops \in BOOLEAN /\ Aborts \in BOOLEAN

VARIABLES
  txn,      \* committed transactions, by id
  ledger,   \* committed subscriptions, by id
  charge,   \* Telegram's record of charges, by id
  chat,     \* transactions whose invoice message was sent
  inbox,    \* charges whose successful_payment update is to be handled
  job,      \* what each session is doing
  clock     \* time, in days

vars == <<txn, ledger, charge, chat, inbox, job, clock>>

tables == <<txn, ledger>>

telegram == <<charge, chat, inbox>>

-----------------------------------------------------------------------------
(* Rows and jobs.                                                          *)

Ops == {"idle", "invoice", "confirm", "refund", "activate", "kill"}

Pcs == {"idle", "send", "gateway", "flush", "find", "list", "revoke", "commit"}

Time == 0 .. MaxTime

TxnRow ==
  [payer: Users, tier: SoldTiers, status: {"pending", "paid", "refunded"},
   external: Charges \cup {NoCharge}]

GrantRow ==
  [owner: Users, tier: Tiers, txn: Txns \cup {NoTxn}, expires: Nat,
   revoked: BOOLEAN]

ChargeRow == [txn: Txns, refunded: BOOLEAN]

Job ==
  [op: Ops, pc: Pcs, txn: Txns \cup {NoTxn}, charge: Charges \cup {NoCharge},
   owner: Users \cup {NoUser}, tier: SoldTiers \cup {"none"}, now: Time,
   todo: SUBSET Grants, done: SUBSET Grants, new: Grants \cup {NoGrant}]

\* A job at its first statement: nothing listed, nothing written.
Request(op, pc, x, c, u, t, now) ==
  [op |-> op, pc |-> pc, txn |-> x, charge |-> c, owner |-> u, tier |-> t,
   now |-> now, todo |-> {}, done |-> {}, new |-> NoGrant]

Idle == Request("idle", "idle", NoTxn, NoCharge, NoUser, "none", 0)

At(s, op, pc) == job[s].op = op /\ job[s].pc = pc

Begin(s, request) == job[s] = Idle /\ job' = [job EXCEPT ![s] = request]

End(s) == job' = [job EXCEPT ![s] = Idle]

\* A payment use case that has flushed its UPDATE of the transactions row
\* holds the row's lock until it ends.
HoldsTxn(s, x) ==
  /\ job[s].op \in {"confirm", "refund"}
  /\ job[s].txn = x
  /\ job[s].pc \in {"find", "list", "revoke", "commit"}

TxnLocked(s, x) == \E r \in Sessions \ {s} : HoldsTxn(r, x)

\* So does a session that has flushed the UPDATE of a subscriptions row.
GrantLocked(s, g) == \E r \in Sessions \ {s} : g \in job[r].done

\* uuid4: no row and no session has this id.
Fresh(g) == g \notin DOMAIN ledger /\ \A s \in Sessions : job[s].new # g

PurchaseRow(s) ==
  [owner |-> job[s].owner, tier |-> job[s].tier, txn |-> job[s].txn,
   expires |-> job[s].now + Duration[job[s].tier], revoked |-> FALSE]

BonusRow(u) ==
  [owner |-> u, tier |-> "bonus", txn |-> NoTxn, expires |-> clock + BonusDays,
   revoked |-> FALSE]

\* The ledger once the session's writes are committed.
Written(s) ==
  [g \in DOMAIN ledger \cup ({job[s].new} \ {NoGrant}) |->
     IF g = job[s].new THEN PurchaseRow(s)
     ELSE IF g \in job[s].done THEN RevokedRow(ledger[g], job[s].now)
     ELSE ledger[g]]

GrantsOf(u) == {g \in DOMAIN ledger : ledger[g].owner = u}

GrantsFor(x) == {g \in DOMAIN ledger : ledger[g].txn = x}

\* list_active_purchases_for
ActivePurchases(u, now) ==
  {g \in GrantsOf(u) : IsPurchase(ledger[g]) /\ IsActiveAt(ledger[g], now)}

ActiveGrants(u, now) == {g \in GrantsOf(u) : IsActiveAt(ledger[g], now)}

StatusOf(u, now) == FromGrants({ledger[g] : g \in GrantsOf(u)}, now)

-----------------------------------------------------------------------------
(* Invoices: CreatePremiumInvoiceUseCase.                                  *)

\* The row is added and flushed, not committed.
InvoiceAdd(s, u, t, x) ==
  /\ x \notin DOMAIN txn \cup chat
  /\ \A r \in Sessions : job[r].txn # x
  /\ Begin(s, Request("invoice", "send", x, NoCharge, u, t, 0))
  /\ UNCHANGED <<tables, telegram, clock>>

\* The invoice is in the chat, and can be paid, before the row is committed.
InvoiceSend(s) ==
  /\ At(s, "invoice", "send")
  /\ chat' = chat \cup {job[s].txn}
  /\ job' = [job EXCEPT ![s].pc = "commit"]
  /\ UNCHANGED <<tables, charge, inbox, clock>>

InvoiceCommit(s) ==
  /\ At(s, "invoice", "commit")
  /\ txn' = [x \in DOMAIN txn \cup {job[s].txn} |->
               IF x = job[s].txn
               THEN [payer |-> job[s].owner, tier |-> job[s].tier,
                     status |-> "pending", external |-> NoCharge]
               ELSE txn[x]]
  /\ End(s)
  /\ UNCHANGED <<ledger, telegram, clock>>

\* External: somebody pays an invoice.  on_pre_checkout approves every
\* query, and an invoice without start_parameter can be paid more than once.
Pay(x, c) ==
  /\ x \in chat
  /\ c \notin DOMAIN charge
  /\ charge' = [d \in DOMAIN charge \cup {c} |->
                  IF d = c THEN [txn |-> x, refunded |-> FALSE] ELSE charge[d]]
  /\ inbox' = inbox \cup {c}
  /\ UNCHANGED <<tables, chat, job, clock>>

-----------------------------------------------------------------------------
(* Payments: on_successful_payment and ConfirmPaymentUseCase.              *)

IsPending(x) == x \in DOMAIN txn /\ txn[x].status = "pending"

\* The transaction is read and found PENDING; an update may come again.
ConfirmRead(s, c) ==
  /\ c \in inbox
  /\ IsPending(charge[c].txn)
  /\ LET x == charge[c].txn IN
       Begin(s, Request("confirm", "flush", x, c, txn[x].payer, txn[x].tier, clock))
  /\ \/ inbox' = inbox \ {c}
     \/ Redelivery /\ UNCHANGED inbox
  /\ UNCHANGED <<tables, charge, chat, clock>>

\* Mutated: an update that fails to be handled is dropped whatever the status.
RejectAny(c) ==
  /\ c \in inbox
  /\ inbox' = inbox \ {c}
  /\ UNCHANGED <<tables, charge, chat, job, clock>>

\* TransactionNotFound and InvalidStatusTransition are swallowed.
ConfirmReject(c) ==
  /\ c \in inbox
  /\ ~IsPending(charge[c].txn)
  /\ inbox' = inbox \ {c}
  /\ UNCHANGED <<tables, charge, chat, job, clock>>

\* ThrottlingMiddleware or BanCheckMiddleware does not call the handler: a
\* payment is a message like any other.
Dropped(c) ==
  /\ Drops
  /\ c \in inbox
  /\ inbox' = inbox \ {c}
  /\ UNCHANGED <<tables, charge, chat, job, clock>>

\* Mutated: the payment is committed before its event is dispatched.
ConfirmFlushAndCommit(s) ==
  /\ At(s, "confirm", "flush")
  /\ ~TxnLocked(s, job[s].txn)
  /\ txn' = [txn EXCEPT ![job[s].txn].status = "paid",
                        ![job[s].txn].external = job[s].charge]
  /\ job' = [job EXCEPT ![s].pc = "list"]
  /\ UNCHANGED <<ledger, telegram, clock>>

\* The UPDATE takes the row's lock; it does not look at the status again.
ConfirmFlush(s) ==
  /\ At(s, "confirm", "flush")
  /\ ~TxnLocked(s, job[s].txn)
  /\ job' = [job EXCEPT ![s].pc = "list"]
  /\ UNCHANGED <<tables, telegram, clock>>

\* Mutated: update() forgets external_id.
ConfirmCommitNoExternal(s) ==
  /\ At(s, "confirm", "commit")
  /\ txn' = [txn EXCEPT ![job[s].txn].status = "paid"]
  /\ ledger' = Written(s)
  /\ End(s)
  /\ UNCHANGED <<telegram, clock>>

ConfirmCommit(s) ==
  /\ At(s, "confirm", "commit")
  /\ txn' = [txn EXCEPT ![job[s].txn].status = "paid",
                        ![job[s].txn].external = job[s].charge]
  /\ ledger' = Written(s)
  /\ End(s)
  /\ UNCHANGED <<telegram, clock>>

-----------------------------------------------------------------------------
(* Grants: SubscriptionActivationService, for OnPaymentConfirmed and for   *)
(* ActivatePremiumUseCase.                                                 *)

ActivateBegin(s, u, t) ==
  /\ "activate" \in SideFlows
  /\ Begin(s, Request("activate", "list", NoTxn, NoCharge, u, t, clock))
  /\ UNCHANGED <<tables, telegram, clock>>

\* Mutated: the query does not filter by source.
ListAnySource(s) ==
  /\ job[s].op \in {"confirm", "activate"}
  /\ job[s].pc = "list"
  /\ job' = [job EXCEPT ![s].pc = "revoke",
                        ![s].todo = ActiveGrants(job[s].owner, job[s].now)]
  /\ UNCHANGED <<tables, telegram, clock>>

\* Mutated: the query misses the grants that have no transaction.
ListBoughtOnly(s) ==
  /\ job[s].op \in {"confirm", "activate"}
  /\ job[s].pc = "list"
  /\ job' = [job EXCEPT ![s].pc = "revoke",
                        ![s].todo = {g \in ActivePurchases(job[s].owner, job[s].now) :
                                       ledger[g].txn # NoTxn}]
  /\ UNCHANGED <<tables, telegram, clock>>

ListPurchases(s) ==
  /\ job[s].op \in {"confirm", "activate"}
  /\ job[s].pc = "list"
  /\ job' = [job EXCEPT ![s].pc = "revoke",
                        ![s].todo = ActivePurchases(job[s].owner, job[s].now)]
  /\ UNCHANGED <<tables, telegram, clock>>

\* One iteration of any of the revoking loops; their order is the database's.
RevokeOne(s, g) ==
  /\ g \in job[s].todo
  /\ ~GrantLocked(s, g)
  /\ job' = [job EXCEPT ![s].todo = @ \ {g}, ![s].done = @ \cup {g}]
  /\ UNCHANGED <<tables, telegram, clock>>

AtInsert(s) ==
  /\ job[s].op \in {"confirm", "activate"}
  /\ job[s].pc = "revoke"
  /\ job[s].todo = {}

\* Mutated: the index on transaction_id is not unique.
NeverDuplicate(x) == FALSE

\* The partial unique index on transaction_id.
Duplicate(x) == x # NoTxn /\ GrantsFor(x) # {}

\* An INSERT waits for an uncommitted one with the same key.
InsertWaits(s) ==
  \E r \in Sessions \ {s} :
    job[r].new # NoGrant /\ job[r].txn = job[s].txn /\ job[s].txn # NoTxn

Insert(s, g) ==
  /\ AtInsert(s)
  /\ ~InsertWaits(s)
  /\ ~Duplicate(job[s].txn)
  /\ Fresh(g)
  /\ job' = [job EXCEPT ![s].pc = "commit", ![s].new = g]
  /\ UNCHANGED <<tables, telegram, clock>>

\* IntegrityError: nobody catches it, and the session rolls back.
InsertConflict(s) ==
  /\ AtInsert(s)
  /\ ~InsertWaits(s)
  /\ Duplicate(job[s].txn)
  /\ End(s)
  /\ UNCHANGED <<tables, telegram, clock>>

ActivateCommit(s) ==
  /\ At(s, "activate", "commit")
  /\ ledger' = Written(s)
  /\ End(s)
  /\ UNCHANGED <<txn, telegram, clock>>

-----------------------------------------------------------------------------
(* Refunds: RefundPaymentUseCase and OnPaymentRefunded.                    *)

CanRefund(x) == txn[x].status = "paid"

RefundRead(s, x) ==
  /\ x \in DOMAIN txn
  /\ CanRefund(x)
  /\ Begin(s, Request("refund", "gateway", x, txn[x].external, NoUser, "none", 0))
  /\ UNCHANGED <<tables, telegram, clock>>

\* Mutated: the use case returns once the provider has refunded.
RefundGatewayOnly(s) ==
  /\ At(s, "refund", "gateway")
  /\ ~charge[job[s].charge].refunded
  /\ charge' = [charge EXCEPT ![job[s].charge].refunded = TRUE]
  /\ End(s)
  /\ UNCHANGED <<tables, chat, inbox, clock>>

\* The provider refunds the charge once, before the database knows.
RefundGateway(s) ==
  /\ At(s, "refund", "gateway")
  /\ ~charge[job[s].charge].refunded
  /\ charge' = [charge EXCEPT ![job[s].charge].refunded = TRUE]
  /\ job' = [job EXCEPT ![s].pc = "flush", ![s].now = clock]
  /\ UNCHANGED <<tables, chat, inbox, clock>>

\* A charge that was refunded before is an error of the provider's.
RefundGatewayError(s) ==
  /\ At(s, "refund", "gateway")
  /\ charge[job[s].charge].refunded
  /\ End(s)
  /\ UNCHANGED <<tables, telegram, clock>>

RefundFlush(s) ==
  /\ At(s, "refund", "flush")
  /\ ~TxnLocked(s, job[s].txn)
  /\ job' = [job EXCEPT ![s].pc = "find"]
  /\ UNCHANGED <<tables, telegram, clock>>

\* Mutated: revoke_for_transaction skips a grant that has run out.
RefundFindActive(s) ==
  /\ At(s, "refund", "find")
  /\ job' = [job EXCEPT ![s].pc = "revoke",
                        ![s].todo = {g \in GrantsFor(job[s].txn) :
                                       IsActiveAt(ledger[g], job[s].now)}]
  /\ UNCHANGED <<tables, telegram, clock>>

\* revoke_for_transaction does nothing for a grant revoked before.
RefundFind(s) ==
  /\ At(s, "refund", "find")
  /\ job' = [job EXCEPT ![s].pc = "revoke",
                        ![s].todo = {g \in GrantsFor(job[s].txn) :
                                       ~ledger[g].revoked}]
  /\ UNCHANGED <<tables, telegram, clock>>

\* Mutated: the event of the refund is not published.
RefundCommitSilently(s) ==
  /\ At(s, "refund", "revoke")
  /\ txn' = [txn EXCEPT ![job[s].txn].status = "refunded"]
  /\ End(s)
  /\ UNCHANGED <<ledger, telegram, clock>>

\* Only changed columns are written: external_id is not among them.
RefundCommit(s) ==
  /\ At(s, "refund", "revoke")
  /\ job[s].todo = {}
  /\ txn' = [txn EXCEPT ![job[s].txn].status = "refunded"]
  /\ ledger' = Written(s)
  /\ End(s)
  /\ UNCHANGED <<telegram, clock>>

-----------------------------------------------------------------------------
(* Administrator's end of premium: RevokePremiumUseCase.                   *)

\* The first list_for: no active grant, no request.
KillCheck(s, u) ==
  /\ "kill" \in SideFlows
  /\ StatusOf(u, clock).active
  /\ Begin(s, Request("kill", "list", NoTxn, NoCharge, u, "none", clock))
  /\ UNCHANGED <<tables, telegram, clock>>

\* The second one, in revoke_all_active.
KillList(s) ==
  /\ At(s, "kill", "list")
  /\ job' = [job EXCEPT ![s].pc = "revoke",
                        ![s].todo = ActiveGrants(job[s].owner, job[s].now)]
  /\ UNCHANGED <<tables, telegram, clock>>

KillCommit(s) ==
  /\ At(s, "kill", "revoke")
  /\ job[s].todo = {}
  /\ ledger' = Written(s)
  /\ End(s)
  /\ UNCHANGED <<txn, telegram, clock>>

-----------------------------------------------------------------------------
(* The rest of the world.                                                  *)

\* Registration and referrals insert bonus grants in sessions of their own.
GrantBonus(u, g) ==
  /\ "bonus" \in SideFlows
  /\ Fresh(g)
  /\ ledger' = [h \in DOMAIN ledger \cup {g} |->
                  IF h = g THEN BonusRow(u) ELSE ledger[h]]
  /\ UNCHANGED <<txn, telegram, job, clock>>

Tick ==
  /\ clock < MaxTime
  /\ clock' = clock + 1
  /\ UNCHANGED <<tables, telegram, job>>

\* A handler raises, the provider or the database fails, or the process
\* dies: the session is closed without a commit.
Abort(s) ==
  /\ Aborts
  /\ job[s] # Idle
  /\ End(s)
  /\ UNCHANGED <<tables, telegram, clock>>

\* s waits for a lock that r holds.
WaitsFor(s, r) ==
  \/ /\ job[s].op \in {"confirm", "refund"}
     /\ job[s].pc = "flush"
     /\ HoldsTxn(r, job[s].txn)
  \/ /\ job[s].todo \cap job[r].done # {}
     /\ \A g \in job[s].todo : GrantLocked(s, g)

\* PostgreSQL aborts a session that is part of a cycle of waiting.
DeadlockVictim(s) ==
  /\ \E R \in SUBSET Sessions :
       /\ s \in R
       /\ \A p \in R : \E q \in R \ {p} : WaitsFor(p, q)
  /\ End(s)
  /\ UNCHANGED <<tables, telegram, clock>>

\* Nothing is under way: the system may stay as it is for ever.
Rest == (\A s \in Sessions : job[s] = Idle) /\ UNCHANGED vars

-----------------------------------------------------------------------------

Init ==
  /\ txn = [x \in {} |-> x]
  /\ ledger = [g \in {} |-> g]
  /\ charge = [c \in {} |-> c]
  /\ chat = {}
  /\ inbox = {}
  /\ job = [s \in Sessions |-> Idle]
  /\ clock = 0

\* A session begins to serve a request.
Start(s) ==
  \/ \E u \in Users, t \in SoldTiers, x \in Txns : InvoiceAdd(s, u, t, x)
  \/ \E c \in Charges : ConfirmRead(s, c)
  \/ \E u \in Users, t \in SoldTiers : ActivateBegin(s, u, t)
  \/ \E x \in Txns : RefundRead(s, x)
  \/ \E u \in Users : KillCheck(s, u)

\* The next statement of the request a session serves.
Statement(s) ==
  \/ InvoiceSend(s)
  \/ InvoiceCommit(s)
  \/ ConfirmFlush(s)
  \/ ConfirmCommit(s)
  \/ ListPurchases(s)
  \/ \E g \in Grants : RevokeOne(s, g)
  \/ \E g \in Grants : Insert(s, g)
  \/ InsertConflict(s)
  \/ ActivateCommit(s)
  \/ RefundGateway(s)
  \/ RefundGatewayError(s)
  \/ RefundFlush(s)
  \/ RefundFind(s)
  \/ RefundCommit(s)
  \/ KillList(s)
  \/ KillCommit(s)

Next ==
  \/ \E s \in Sessions : Start(s) \/ Statement(s)
  \/ \E s \in Sessions : Abort(s) \/ DeadlockVictim(s)
  \/ \E x \in Txns, c \in Charges : Pay(x, c)
  \/ \E c \in Charges : ConfirmReject(c) \/ Dropped(c)
  \/ \E u \in Users, g \in Grants : GrantBonus(u, g)
  \/ Tick
  \/ Rest

Spec == Init /\ [][Next]_vars

-----------------------------------------------------------------------------
(* Properties.                                                             *)

\* Every table and every job has its type; a row has a charge id once it
\* was paid, as RefundPaymentUseCase asserts (refund_payment.py:41).
TypeOK ==
  /\ DOMAIN txn \subseteq Txns /\ txn \in [DOMAIN txn -> TxnRow]
  /\ \A x \in DOMAIN txn :
       txn[x].status = "pending" <=> txn[x].external = NoCharge
  /\ DOMAIN ledger \subseteq Grants /\ ledger \in [DOMAIN ledger -> GrantRow]
  /\ DOMAIN charge \subseteq Charges /\ charge \in [DOMAIN charge -> ChargeRow]
  /\ chat \subseteq Txns
  /\ inbox \subseteq DOMAIN charge
  /\ job \in [Sessions -> Job]
  /\ clock \in Time

\* ConfirmPaymentUseCase marks the transaction and activates premium in the
\* same unit of work, "so both writes commit atomically": a transaction that
\* was ever paid has exactly one grant, for its payer and its tier, and one
\* that was not has none, however often its payment is delivered.
PaidIffGranted ==
  /\ \A g \in DOMAIN ledger : ledger[g].txn \in DOMAIN txn \cup {NoTxn}
  /\ \A x \in DOMAIN txn :
       IF txn[x].status = "pending" THEN GrantsFor(x) = {}
       ELSE \E g \in DOMAIN ledger :
              /\ GrantsFor(x) = {g}
              /\ ledger[g].owner = txn[x].payer
              /\ ledger[g].tier = txn[x].tier

\* RefundPaymentUseCase asks the provider first and OnPaymentRefunded revokes
\* the grant in the same unit of work: a transaction that is REFUNDED has had
\* its money returned, and its paid days are over.
RefundedIsOver ==
  \A x \in DOMAIN txn :
    txn[x].status = "refunded" =>
      /\ txn[x].external \in DOMAIN charge
      /\ charge[txn[x].external].txn = x
      /\ charge[txn[x].external].refunded
      /\ \A g \in GrantsFor(x) : ledger[g].revoked

\* Transaction's state machine is PENDING, PAID, REFUNDED in that order, and
\* the charge a payment was recorded with is the one a refund will name,
\* although update() overwrites a row whose status it does not look at.
StatusForward ==
  LET Follows == [pending |-> {"pending", "paid"},
                  paid |-> {"paid", "refunded"}, refunded |-> {"refunded"}]
  IN  \A x \in DOMAIN txn :
        /\ x \in DOMAIN txn'
        /\ txn'[x].status \in Follows[txn[x].status]
        /\ txn[x].external # NoCharge => txn'[x].external = txn[x].external

LifecycleForward == [][StatusForward]_txn

\* What GetMyPremiumUseCase shows: a paid tier is backed by an active grant
\* that an administrator gave or that a PAID transaction bought.
PaidTierBacked ==
  \A u \in Users :
    StatusOf(u, clock).tier \in CatalogTiers =>
      \E g \in ActivePurchases(u, clock) :
        \/ ledger[g].txn = NoTxn
        \/ /\ ledger[g].txn \in DOMAIN txn
           /\ txn[ledger[g].txn].status = "paid"

\* SubscriptionActivationService: a new purchase revokes all of the owner's
\* active purchases, so that at most one is active.
OneActivePurchase ==
  \A u \in Users : Cardinality(ActivePurchases(u, clock)) <= 1

\* The policies of the same service: a grant is only ever changed by an
\* administrator's end of its owner's premium, by a newer purchase of its
\* owner if it is a purchase itself, or by the refund of its own transaction.
ChangedByRight ==
  \A g \in DOMAIN ledger :
    ledger'[g] # ledger[g] =>
      \E s \in Sessions :
        \/ job[s].op = "kill" /\ job[s].owner = ledger[g].owner
        \/ /\ job[s].op \in {"confirm", "activate"}
           /\ job[s].owner = ledger[g].owner
           /\ IsPurchase(ledger[g])
        \/ /\ job[s].op = "refund"
           /\ job[s].txn = ledger[g].txn

GrantsChangedByRight == [][ChangedByRight]_ledger

\* How far a purchase has come, and what became of the period it bought: the
\* purchase lifecycle of Entitlement.
StageOf(x) == IF x \in DOMAIN txn THEN txn[x].status ELSE "none"

AccessOf(x) ==
  IF GrantsFor(x) = {} THEN "none"
  ELSE IF \A g \in GrantsFor(x) : ledger[g].revoked THEN "ended"
  ELSE "open"

Contract ==
  INSTANCE Entitlement WITH stage <- [x \in Txns |-> StageOf(x)],
                            access <- [x \in Txns |-> AccessOf(x)]

\* However sessions interleave, fail and repeat, the tables go through a
\* purchase's lifecycle as Entitlement promises it.
ImplementsEntitlement == Contract!Spec

-----------------------------------------------------------------------------
(* Liveness, while no session fails.  A session goes on when it can:       *)
(* asyncio runs every task, and PostgreSQL grants row locks in the order   *)
(* they were asked for, so a statement that is enabled again and again is  *)
(* executed.  An update gets a session in its turn: the tasks and the      *)
(* connection pool are queues.                                             *)

Fairness ==
  /\ \A s \in Sessions : SF_vars(Statement(s))
  /\ \A c \in Charges : SF_vars(\E s \in Sessions : ConfirmRead(s, c))
  /\ \A c \in Charges : WF_vars(ConfirmReject(c))

FairSpec == Spec /\ Fairness

\* A payment whose transaction is in the database, and whose update reaches
\* its handler, is recorded in the end, even if the update is delivered to
\* several sessions at once.
PaymentLands ==
  \A c \in Charges :
    c \in {d \in inbox : charge[d].txn \in DOMAIN txn}
      ~> c \in {d \in DOMAIN charge : \E x \in DOMAIN txn :
                  x = charge[d].txn /\ txn[x].status # "pending"}

\* Money that was returned is recorded as REFUNDED in the end.
RefundRecorded ==
  \A c \in Charges :
    c \in {d \in DOMAIN charge : charge[d].refunded}
      ~> c \in {d \in DOMAIN charge : \E x \in DOMAIN txn :
                  x = charge[d].txn /\ txn[x].status = "refunded"}

=============================================================================
