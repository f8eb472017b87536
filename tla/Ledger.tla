------------------------------- MODULE Ledger -------------------------------
(***************************************************************************)
(* The double-entry ledger of internal/ledger: the five write operations   *)
(* of ledger.Service running concurrently against one PostgreSQL database  *)
(* at READ COMMITTED.                                                      *)
(*                                                                         *)
(* A behaviour interleaves a finite set of requests.  Each request runs    *)
(* one service method, statement by statement.  What a database            *)
(* transaction writes is staged with the request and becomes visible to    *)
(* the others at Commit only; row locks are held until Commit or rollback. *)
(***************************************************************************)
EXTENDS LedgerTypes

CONSTANTS
    Menu,          \* the calls a client may make
    MaxFaults      \* bound on injected failures

Creating == {"ExecuteTransfer", "CreatePendingTransaction"}
Settling == {"PostPendingTransaction", "FailPendingTransaction"}
Operations == Creating \cup Settling \cup {"CreateAccount"}
Body == [op : Operations, tenant : Tenant, lines : Seq(EntryInput),
         txn : TxnId \cup {None}]

Steps == {"idle", "load", "lock", "insert", "account", "update", "emit", "commit", "done"}

Errors == {"ErrEmptyEntries", "ErrZeroAmountEntry", "ErrUnbalancedEntries",
           "ErrAccountNotFound", "ErrInsufficientFunds", "ErrTransactionNotFound",
           "ErrTransactionNotPending", "ErrStatusConflict"}
\* "internal" is every error without a sentinel: a failed statement, a lost
\* connection, a cancelled context, a panic, a crash of the process.
Outcomes == Errors \cup {"none", "ok", "internal"}

\* The rows that a request's entries become, each with its place in the list.
EntriesOf(t, tenant, lines) ==
    { [txn |-> t, line |-> i, tenant |-> tenant,
       account |-> lines[i].account, amount |-> lines[i].amount] : i \in DOMAIN lines }

\* A post or a fail names a transaction; an amount is an int64.
ASSUME MenuAssumption ==
    /\ Menu \subseteq Body
    /\ \A b \in Menu : b.op \in Settling => b.txn \in TxnId
    /\ \A b \in Menu : \A i \in DOMAIN b.lines : InMoney(b.lines[i].amount)
    /\ MaxFaults \in Nat

VARIABLES
    \* The committed tables.
    owner,         \* accounts: account id -> tenant, None when there is no row
    transactions,  \* transaction id -> [tenant, status], status absent when no row
    entries,       \* the set of entry rows
    outbox,        \* webhook_events rows written by emitEvent
    auditLog,      \* audit_log rows written by recordAudit
    \* Row locks.
    forUpdate,     \* account -> the request holding it FOR UPDATE, or None
    keyShare,      \* account -> the requests holding it FOR KEY SHARE
    rowLock,       \* transaction -> the request whose UPDATE is uncommitted, or None
    \* Requests.
    pc,            \* request -> its next step
    body,          \* request -> the call it makes
    work,          \* request -> the entry rows its call is about
    scan,          \* request -> accounts its lock query has still to lock
    staged,        \* request -> its uncommitted writes
    outcome,       \* request -> what the method returned
    faults         \* failures injected so far

tables == <<owner, transactions, entries, outbox, auditLog>>
locks == <<forUpdate, keyShare, rowLock>>
vars == <<tables, locks, pc, body, work, scan, staged, outcome, faults>>

\* Uncommitted writes: the status of the transaction row (absent: not
\* written), new entry rows, a new account, events and audit rows.
Written(status, E, account, events, audits) ==
    [status |-> status, entries |-> E, account |-> account, events |-> events, audits |-> audits]
NoWrites == Written("absent", {}, None, {}, {})
NoBody == [op |-> "CreateAccount", tenant |-> None, lines |-> <<>>, txn |-> None]

(***************************************************************************)
(* The status-'posted' join that both GetAccount and the balance query of  *)
(* LockAccountsForUpdate compute, and the balance GetAccount returns.      *)
(***************************************************************************)
PostedEntries == { e \in entries : transactions[e.txn].status = StatusPosted }
AccountBalance(a) == Total(On(a, PostedEntries))

\* The transaction row that a request writes.
TxnOf(p) == IF body[p].op \in Settling THEN body[p].txn ELSE p

\* The balance a request projects for one of its accounts: the posted sum
\* plus its own entries, in Money arithmetic.  When a racing post of the same
\* transaction has committed since this request loaded it, the posted sum
\* already holds these entries and the projection counts them twice.
Projected(p, a) ==
    LET posted == On(a, PostedEntries)
        own == On(a, work[p])
    IN  IF transactions[TxnOf(p)].status = StatusPosted
        THEN Money(Total(posted) + Total(own))
        ELSE Money(Total(posted \cup own))

InTransaction(p) == pc[p] \notin {"idle", "done"}

-----------------------------------------------------------------------------
Init ==
    /\ owner = SeedOwner
    /\ transactions = [t \in TxnId |->
          IF t \in SeedTxn
          THEN [tenant |-> SeedTenant[t],
                status |-> IF t \in SeedPending THEN StatusPending ELSE StatusPosted]
          ELSE NoRow]
    /\ entries = SeedEntries
    /\ outbox = { Event(t, EventTransactionPending, t) : t \in SeedPending }
    /\ auditLog = { Audit(t, "transaction.pending_created", t) : t \in SeedPending }
    /\ forUpdate = [a \in Account |-> None]
    /\ keyShare = [a \in Account |-> {}]
    /\ rowLock = [t \in TxnId |-> None]
    /\ pc = [p \in Request |-> "idle"]
    /\ body = [p \in Request |-> NoBody]
    /\ work = [p \in Request |-> {}]
    /\ scan = [p \in Request |-> {}]
    /\ staged = [p \in Request |-> NoWrites]
    /\ outcome = [p \in Request |-> "none"]
    /\ faults = 0

-----------------------------------------------------------------------------
\* The method returns with an outcome; the deferred Rollback drops what is
\* staged and releases every row lock.
Release(p) ==
    /\ forUpdate' = [a \in Account |-> IF forUpdate[a] = p THEN None ELSE forUpdate[a]]
    /\ keyShare' = [a \in Account |-> keyShare[a] \ {p}]
    /\ rowLock' = [t \in TxnId |-> IF rowLock[t] = p THEN None ELSE rowLock[t]]

Finish(p, result) ==
    /\ pc' = [pc EXCEPT ![p] = "done"]
    /\ outcome' = [outcome EXCEPT ![p] = result]
    /\ staged' = [staged EXCEPT ![p] = NoWrites]
    /\ scan' = [scan EXCEPT ![p] = {}]
    /\ Release(p)

Rollback(p, result) ==
    /\ Finish(p, result)
    /\ UNCHANGED <<tables, body, work, faults>>

Sum(lines) == Money(MapThenSumSet(LAMBDA i : lines[i].amount, DOMAIN lines))

\* Mutant: the sum is never tested.
ValidateEntriesUnbalanced(lines) ==
    IF Len(lines) < 2 THEN "ErrEmptyEntries"
    ELSE IF \E i \in DOMAIN lines : lines[i].amount = 0 THEN "ErrZeroAmountEntry"
    ELSE "ok"

\* validateEntries: the errors in the order the code tests for them.
ValidateEntries(lines) ==
    IF Len(lines) < 2 THEN "ErrEmptyEntries"
    ELSE IF \E i \in DOMAIN lines : lines[i].amount = 0 THEN "ErrZeroAmountEntry"
    ELSE IF Sum(lines) # 0 THEN "ErrUnbalancedEntries"
    ELSE "ok"

\* Mutant: the lock query without its tenant filter.
LockableAnyTenant(tenant, E) == { a \in Accounts(E) : owner[a] # None }

\* The rows the lock query's snapshot matches: WHERE id = ANY($1) AND tenant_id = $2.
Lockable(tenant, E) == { a \in Accounts(E) : owner[a] = tenant }

\* The first step of each method once its entries are validated.
FirstStep(op) ==
    IF op = "ExecuteTransfer" THEN "lock"
    ELSE IF op = "CreatePendingTransaction" THEN "insert"
    ELSE IF op = "CreateAccount" THEN "account"
    ELSE "load"

\* A call arrives; ExecuteTransfer and CreatePendingTransaction validate
\* before they begin a database transaction.
Receive(p, b) ==
    LET E == EntriesOf(p, b.tenant, b.lines)
        verdict == IF b.op \in Creating THEN ValidateEntries(b.lines) ELSE "ok"
    IN  /\ pc[p] = "idle"
        /\ body' = [body EXCEPT ![p] = b]
        /\ work' = [work EXCEPT ![p] = E]
        /\ pc' = [pc EXCEPT ![p] = IF verdict = "ok" THEN FirstStep(b.op) ELSE "done"]
        /\ outcome' = [outcome EXCEPT ![p] = IF verdict = "ok" THEN "none" ELSE verdict]
        /\ scan' = [scan EXCEPT ![p] =
              IF verdict = "ok" /\ b.op = "ExecuteTransfer" THEN Lockable(b.tenant, E) ELSE {}]
        /\ UNCHANGED <<tables, locks, staged, faults>>

\* GetTransaction inside post and fail: the row, unlocked, and its entries.
LoadTransaction(p) ==
    LET t == body[p].txn
        row == transactions[t]
        E == { e \in entries : e.txn = t /\ e.tenant = body[p].tenant }
    IN  /\ pc[p] = "load"
        /\ \/ /\ row.tenant # body[p].tenant
              /\ Rollback(p, "ErrTransactionNotFound")
           \/ /\ row.tenant = body[p].tenant
              /\ row.status # StatusPending
              /\ Rollback(p, "ErrTransactionNotPending")
           \/ /\ row.tenant = body[p].tenant
              /\ row.status = StatusPending
              /\ work' = [work EXCEPT ![p] = E]
              /\ IF body[p].op = "PostPendingTransaction"
                 THEN /\ pc' = [pc EXCEPT ![p] = "lock"]
                      /\ scan' = [scan EXCEPT ![p] = Lockable(body[p].tenant, E)]
                 ELSE /\ pc' = [pc EXCEPT ![p] = "update"]
                      /\ UNCHANGED scan
              /\ UNCHANGED <<tables, locks, body, staged, outcome, faults>>

\* Mutant: a plain SELECT, which waits for nobody.
CanLockWithoutWaiting(p, a) == TRUE

\* A row lock FOR UPDATE conflicts with every lock of another request.
CanLockForUpdate(p, a) == forUpdate[a] \in {None, p} /\ keyShare[a] \subseteq {p}

\* Mutant: without ORDER BY the rows come in the caller's entry order.
IsNextLockInEntryOrder(p, a) ==
    \E e \in work[p] : /\ e.account = a
                       /\ \A f \in work[p] : f.account \in scan[p] => e.line <= f.line

\* The next row the lock query returns; ORDER BY id makes it the smallest id.
IsNextLock(p, a) == \A b \in scan[p] : a <= b

\* The lock query locks the row it is about to return.
LockAccount(p) ==
    \E a \in scan[p] :
        /\ pc[p] = "lock"
        /\ IsNextLock(p, a)
        /\ CanLockForUpdate(p, a)
        /\ forUpdate' = [forUpdate EXCEPT ![a] = p]
        /\ scan' = [scan EXCEPT ![p] = scan[p] \ {a}]
        /\ UNCHANGED <<tables, keyShare, rowLock, pc, body, work, staged, outcome, faults>>

\* The lock query has returned.  An id without a locked row is an error;
\* then the balance query sums what is posted (scanning a sum that is no int64
\* fails) and the projection is checked, all before anything is written.
ReadBalances(p) ==
    LET named == Accounts(work[p])
        next == IF body[p].op = "PostPendingTransaction" THEN "update" ELSE "insert"
    IN  /\ pc[p] = "lock"
        /\ scan[p] = {}
        /\ \/ /\ \E a \in named : forUpdate[a] # p
              /\ Rollback(p, "ErrAccountNotFound")
           \/ /\ \A a \in named : forUpdate[a] = p
              /\ \E a \in named : ~InMoney(AccountBalance(a))
              /\ Rollback(p, "internal")
           \/ /\ \A a \in named : forUpdate[a] = p /\ InMoney(AccountBalance(a))
              /\ \E a \in named : Projected(p, a) < 0
              /\ Rollback(p, "ErrInsufficientFunds")
           \/ /\ \A a \in named : forUpdate[a] = p /\ InMoney(AccountBalance(a))
              /\ \A a \in named : Projected(p, a) >= 0
              /\ pc' = [pc EXCEPT ![p] = next]
              /\ UNCHANGED <<tables, locks, body, work, scan, staged, outcome, faults>>

\* The entry whose INSERT comes next, in the caller's order.
IsNextEntry(p, e) == e \in work[p] /\ e.line = Cardinality(staged[p].entries) + 1

\* InsertTransactionWithEntries: the transaction row with the first entry,
\* then one entry per statement in the caller's order.  The foreign key
\* entries.account_id takes the account row FOR KEY SHARE, whatever its
\* tenant, and fails when there is no such row.
InsertEntry(p) ==
    LET done == staged[p].entries
        status == IF body[p].op = "ExecuteTransfer" THEN StatusPosted ELSE StatusPending
    IN  \E e \in work[p] :
          /\ pc[p] = "insert"
          /\ IsNextEntry(p, e)
          /\ \/ /\ owner[e.account] = None
                /\ Rollback(p, "internal")
             \/ /\ owner[e.account] # None
                /\ forUpdate[e.account] \in {None, p}
                /\ keyShare' = [keyShare EXCEPT ![e.account] = @ \cup {p}]
                /\ staged' = [staged EXCEPT ![p] = Written(status, done \cup {e}, None, {}, {})]
                /\ pc' = [pc EXCEPT ![p] = IF work[p] = done \cup {e} THEN "emit" ELSE "insert"]
                /\ UNCHANGED <<tables, forUpdate, rowLock, body, work, scan, outcome, faults>>

\* Mutant: a status the schema does not know.
NewStatusUnknown(op) == IF op = "PostPendingTransaction" THEN "settled" ELSE StatusFailed

\* The status each settling method asks for.
NewStatus(op) == IF op = "PostPendingTransaction" THEN StatusPosted ELSE StatusFailed

\* The UPDATE matched the row and holds it.
StageStatus(p) ==
    /\ rowLock' = [rowLock EXCEPT ![body[p].txn] = p]
    /\ staged' = [staged EXCEPT ![p] = Written(NewStatus(body[p].op), {}, None, {}, {})]
    /\ pc' = [pc EXCEPT ![p] = "emit"]
    /\ UNCHANGED <<tables, forUpdate, keyShare, body, work, scan, outcome, faults>>

\* Mutant: UPDATE ... WHERE id = $2, without the status guard.
UpdateStatusUnguarded(p) ==
    /\ pc[p] = "update"
    /\ rowLock[body[p].txn] \in {None, p}
    /\ StageStatus(p)

\* Mutant: a lost race is tried again instead of being reported.
UpdateStatusRetrying(p) ==
    /\ pc[p] = "update"
    /\ rowLock[body[p].txn] \in {None, p}
    /\ IF transactions[body[p].txn].status = StatusPending THEN StageStatus(p) ELSE UNCHANGED vars

\* UpdateTransactionStatusGuarded: the UPDATE waits for a concurrent writer
\* of the row, then tests status = 'pending' again.  No row matched and an
\* expected status of pending make the error ErrTransactionNotPending.
UpdateStatus(p) ==
    LET status == transactions[body[p].txn].status
    IN  /\ pc[p] = "update"
        /\ rowLock[body[p].txn] \in {None, p}
        /\ \/ /\ status # StatusPending
              /\ Rollback(p, "ErrTransactionNotPending")
           \/ /\ status = StatusPending
              /\ StageStatus(p)

\* repo.CreateAccount: a fresh account id for the caller's tenant.
InsertAccount(p) ==
    /\ pc[p] = "account"
    /\ \E a \in Account :
          /\ owner[a] = None
          /\ \A q \in Request : staged[q].account # a
          /\ staged' = [staged EXCEPT ![p] = Written("absent", {}, a, {}, {})]
    /\ pc' = [pc EXCEPT ![p] = "emit"]
    /\ UNCHANGED <<tables, locks, body, work, scan, outcome, faults>>

\* The event type and the audit action each method reports.
EventType(op) ==
    IF op \in {"ExecuteTransfer", "PostPendingTransaction"} THEN EventTransactionPosted
    ELSE IF op = "CreatePendingTransaction" THEN EventTransactionPending
    ELSE EventTransactionFailed
AuditAction(op) ==
    IF op = "ExecuteTransfer" THEN "transaction.transferred"
    ELSE IF op = "CreatePendingTransaction" THEN "transaction.pending_created"
    ELSE IF op = "PostPendingTransaction" THEN "transaction.posted"
    ELSE IF op = "FailPendingTransaction" THEN "transaction.failed"
    ELSE "account.created"

\* Mutant: the event is enqueued on a connection of its own.
EmitOutsideTransaction(p) ==
    LET op == body[p].op
        w == staged[p]
    IN  /\ pc[p] = "emit"
        /\ outbox' = IF op = "CreateAccount" THEN outbox
                     ELSE outbox \cup { Event(TxnOf(p), EventType(op), p) }
        /\ staged' = [staged EXCEPT ![p] = Written(w.status, w.entries, w.account, {},
                                                   { Audit(TxnOf(p), AuditAction(op), p) })]
        /\ pc' = [pc EXCEPT ![p] = "commit"]
        /\ UNCHANGED <<owner, transactions, entries, auditLog, locks, body, work, scan, outcome, faults>>

\* emitEvent, then recordAudit, inside the same database transaction.
EmitAndAudit(p) ==
    LET op == body[p].op
        w == staged[p]
        events == IF op = "CreateAccount" THEN {} ELSE { Event(TxnOf(p), EventType(op), p) }
    IN  /\ pc[p] = "emit"
        /\ staged' = [staged EXCEPT ![p] = Written(w.status, w.entries, w.account, events,
                                                   { Audit(TxnOf(p), AuditAction(op), p) })]
        /\ pc' = [pc EXCEPT ![p] = "commit"]
        /\ UNCHANGED <<tables, locks, body, work, scan, outcome, faults>>

\* Every staged write becomes visible at once.
Publish(p) ==
    LET w == staged[p]
    IN  /\ owner' = [a \in Account |-> IF a = w.account THEN body[p].tenant ELSE owner[a]]
        /\ transactions' = IF w.status = "absent" THEN transactions
                           ELSE [transactions EXCEPT ![TxnOf(p)] =
                                   [tenant |-> body[p].tenant, status |-> w.status]]
        /\ entries' = entries \cup w.entries
        /\ outbox' = outbox \cup w.events
        /\ auditLog' = auditLog \cup w.audits

Commit(p) ==
    /\ pc[p] = "commit"
    /\ Publish(p)
    /\ Finish(p, "ok")
    /\ UNCHANGED <<body, work, faults>>

\* The commit took effect but its acknowledgement was lost: tx.Commit returns
\* an error, or the process dies before it answers.
CommitUnacknowledged(p) ==
    /\ faults < MaxFaults
    /\ pc[p] = "commit"
    /\ Publish(p)
    /\ Finish(p, "internal")
    /\ faults' = faults + 1
    /\ UNCHANGED <<body, work>>

\* A statement fails, the request's context is cancelled, the handler panics
\* or the process dies, at any statement: the transaction rolls back.
Fault(p) ==
    /\ faults < MaxFaults
    /\ InTransaction(p)
    /\ Finish(p, "internal")
    /\ faults' = faults + 1
    /\ UNCHANGED <<tables, body, work>>

-----------------------------------------------------------------------------
(***************************************************************************)
(* Lock waits.  PostgreSQL breaks a cycle of waiters by failing one of     *)
(* them.                                                                   *)
(***************************************************************************)
WaitsFor(p, q) ==
    /\ p # q
    /\ \/ pc[p] = "lock" /\ \E a \in scan[p] : IsNextLock(p, a) /\ q \in {forUpdate[a]} \cup keyShare[a]
       \/ pc[p] = "insert" /\ \E e \in work[p] : IsNextEntry(p, e) /\ q = forUpdate[e.account]
       \/ pc[p] = "update" /\ q = rowLock[body[p].txn]

Waiting(D) == \A p \in D : \E q \in D : WaitsFor(p, q)

\* D is a cycle of waiters: no smaller set of them is stuck on its own.
WaitCycle(D) ==
    /\ D # {}
    /\ Waiting(D)
    /\ \A S \in SUBSET D : S # {} /\ Waiting(S) => S = D

DeadlockDetected(p) ==
    /\ \E D \in SUBSET Request : p \in D /\ WaitCycle(D)
    /\ Rollback(p, "internal")

-----------------------------------------------------------------------------
\* One statement of the request's method.
Step(p) ==
    \/ LoadTransaction(p)
    \/ LockAccount(p)
    \/ ReadBalances(p)
    \/ InsertEntry(p)
    \/ UpdateStatus(p)
    \/ InsertAccount(p)
    \/ EmitAndAudit(p)
    \/ Commit(p)

\* All calls have been answered (or never arrived).
Idle ==
    /\ \A p \in Request : ~InTransaction(p)
    /\ UNCHANGED vars

Next ==
    \/ \E p \in Request :
          \/ \E b \in Menu : Receive(p, b)
          \/ Step(p)
          \/ CommitUnacknowledged(p)
          \/ Fault(p)
          \/ DeadlockDetected(p)
    \/ Idle

Spec == Init /\ [][Next]_vars

\* The scheduler runs every request that can run, and the database's deadlock
\* detector fires on a cycle that stays.
Fairness == \A p \in Request : WF_vars(Step(p)) /\ WF_vars(DeadlockDetected(p))
FairSpec == Spec /\ Fairness

-----------------------------------------------------------------------------
(***************************************************************************)
(* Properties.                                                             *)
(***************************************************************************)
Writes == [status : Statuses, entries : SUBSET Entry, account : Account \cup {None},
           events : SUBSET [txn : TxnId, type : EventTypes, by : TxnId],
           audits : SUBSET [txn : TxnId, action : AuditActions, by : TxnId]]

\* Every variable keeps its shape: the tables hold rows of their schema, a
\* lock is held by a request or by nobody.
TypeOK ==
    /\ owner \in [Account -> Tenant \cup {None}]
    /\ transactions \in [TxnId -> [tenant : Tenant \cup {None}, status : Statuses]]
    /\ entries \subseteq Entry
    /\ outbox \subseteq [txn : TxnId, type : EventTypes, by : TxnId]
    /\ auditLog \subseteq [txn : TxnId, action : AuditActions, by : TxnId]
    /\ forUpdate \in [Account -> Request \cup {None}]
    /\ keyShare \in [Account -> SUBSET Request]
    /\ rowLock \in [TxnId -> Request \cup {None}]
    /\ pc \in [Request -> Steps]
    /\ body \in [Request -> Body \cup {NoBody}]
    /\ work \in [Request -> SUBSET Entry]
    /\ scan \in [Request -> SUBSET Account]
    /\ staged \in [Request -> Writes]
    /\ outcome \in [Request -> Outcomes]
    /\ faults \in 0 .. MaxFaults

\* No account's derived balance is ever negative, whatever transfers and
\* posts run at the same time: the row locks of LockAccountsForUpdate keep
\* the checked projection valid until the commit that applies it (API.md:
\* "every account must end with a non-negative" balance).  PostgreSQL sums in
\* numeric, so this is the sum over the integers and never wraps.
NonNegativeBalances == \A a \in Account : AccountBalance(a) >= 0

\* A posted transaction moves money between accounts of its own tenant only:
\* LockAccountsForUpdate looks accounts up by tenant before anything posts,
\* also for a pending transaction that was created without such a lookup.
PostedWithinTenant ==
    \A e \in PostedEntries : owner[e.account] = transactions[e.txn].tenant

\* A pending transaction is settled at most once: of the posts and fails
\* racing on it only one commits, with its event and its audit row.
SettledOnce ==
    \A t \in TxnId :
        \A x, y \in auditLog :
            /\ x.txn = t /\ x.action \in {"transaction.posted", "transaction.failed"}
            /\ y.txn = t /\ y.action \in {"transaction.posted", "transaction.failed"}
            => x = y

\* The transactional outbox: a transaction is posted, failed or created
\* pending exactly when the one event that says so exists, and each event
\* shares its database transaction with one audit row.  Genesis rows bypass the service.
OutboxMatchesLedger ==
    /\ \A t \in TxnId \ (SeedTxn \ SeedPending) :
          LET reported(type) == Cardinality({ e \in outbox : e.txn = t /\ e.type = type })
              status == transactions[t].status
          IN  /\ reported(EventTransactionPosted) = (IF status = StatusPosted THEN 1 ELSE 0)
              /\ reported(EventTransactionFailed) = (IF status = StatusFailed THEN 1 ELSE 0)
              /\ status \in {StatusPending, StatusFailed} => reported(EventTransactionPending) = 1
              /\ status = "absent" => reported(EventTransactionPending) = 0
    /\ { e.by : e \in outbox } = { x.by : x \in { y \in auditLog : y.action # "account.created" } }

\* What a caller is told is what happened: success means the change is
\* committed, a ledger error means that nothing was; only an internal error
\* leaves the caller in doubt.
OutcomeHonest ==
    \A p \in Request :
        LET wrote == \E x \in auditLog : x.by = p
            status == transactions[TxnOf(p)].status
        IN  /\ outcome[p] = "ok" =>
                 /\ wrote
                 /\ body[p].op \in {"ExecuteTransfer", "PostPendingTransaction"} => status = StatusPosted
                 /\ body[p].op = "FailPendingTransaction" => status = StatusFailed
            /\ outcome[p] \in Errors \cup {"none"} => ~wrote

\* Locking in id order keeps transfers and posts from waiting on each other
\* in a circle: every cycle of lock waits has a CreatePendingTransaction in
\* it, whose foreign-key locks follow the caller's entry order.
DeadlockNeedsPending ==
    \A D \in SUBSET Request :
        WaitCycle(D) => \E p \in D : body[p].op = "CreatePendingTransaction"

\* Money is neither created nor destroyed: the balances of all accounts
\* together stay what the genesis rows made them.
MoneyConserved ==
    Total(PostedEntries) = Total({ e \in SeedEntries : e.txn \notin SeedPending })

\* Rows only ever move forward: a status goes from absent to pending or
\* posted and from pending to posted or failed, tenants stay, and entries,
\* events and audit rows are never changed or removed.
HistoryIsAppendOnly ==
    [][/\ \A t \in TxnId :
            LET old == transactions[t]
                new == transactions'[t]
            IN  \/ new = old
                \/ old.status = "absent" /\ new.status \in {StatusPending, StatusPosted}
                \/ /\ old.status = StatusPending
                   /\ new.status \in {StatusPosted, StatusFailed}
                   /\ new.tenant = old.tenant
       /\ \A e \in entries' \ entries : transactions[e.txn].status = "absent"
       /\ entries \subseteq entries'
       /\ outbox \subseteq outbox'
       /\ auditLog \subseteq auditLog'
       /\ \A a \in Account : owner[a] # None => owner'[a] = owner[a]]_tables

\* Taken together the committed tables change only as the atomic ledger of
\* Book allows: each method, with its locks, waits and failures, looks to the
\* others like one indivisible operation or like none.
Atomic == INSTANCE Book WITH
    owner <- owner, transactions <- transactions, entries <- entries,
    outbox <- outbox, auditLog <- auditLog
ImplementsBook == Atomic!Spec

\* Claimed for every transaction (API.md: "must sum to zero"): the entries of
\* each transaction the service wrote add up to exactly zero.
EntriesSumToZero ==
    \A t \in TxnId \ (SeedTxn \ SeedPending) : Total({ e \in entries : e.txn = t }) = 0

\* Claimed in ADR-0004: no transaction's entries reference an account of
\* another tenant.
NoCrossTenantEntries ==
    \A e \in entries : owner[e.account] = transactions[e.txn].tenant

\* Every call that arrives is answered, in spite of lock waits and deadlocks.
EveryRequestAnswered == \A p \in Request : InTransaction(p) ~> pc[p] = "done"

=============================================================================
