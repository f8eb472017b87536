-------------------------------- MODULE Book --------------------------------
(***************************************************************************)
(* What the ledger promises: an atomic double-entry book.  Each operation  *)
(* is one indivisible step on the committed tables, with its event and its *)
(* audit row; there are no locks, no requests in flight and no failures.   *)
(***************************************************************************)
EXTENDS LedgerTypes

VARIABLES owner, transactions, entries, outbox, auditLog

book == <<owner, transactions, entries, outbox, auditLog>>

Rows(t, E) == { e \in E : e.txn = t }
Posted(T, E) == { e \in E : T[e.txn].status = StatusPosted }

\* Every account of E belongs to the tenant and ends non-negative once E is posted.
Covered(tenant, E) ==
    \A a \in Accounts(E) :
        /\ owner[a] = tenant
        /\ Money(Total(On(a, Posted(transactions, entries) \cup E))) >= 0

Report(t, type, action, p) ==
    /\ outbox' = outbox \cup { Event(t, type, p) }
    /\ auditLog' = auditLog \cup { Audit(t, action, p) }

Init ==
    /\ owner = SeedOwner
    /\ transactions = [t \in TxnId |->
          IF t \in SeedTxn
          THEN [tenant |-> SeedTenant[t],
                status |-> IF t \in SeedPending THEN StatusPending ELSE StatusPosted]
          ELSE NoRow]
    /\ entries = SeedEntries
    /\ outbox = { Event(t, EventTransactionPending, t) : t \in SeedPending }
    /\ auditLog = { Audit(t, "transaction.pending_created", t) : t \in SeedPending }

\* A new transaction with its entries: at least two rows, no zero amounts,
\* a balanced sum.
Record(t, tenant, status) ==
    LET E == entries' \ entries
    IN  /\ transactions[t].status = "absent"
        /\ transactions' = [transactions EXCEPT ![t] = [tenant |-> tenant, status |-> status]]
        /\ entries \subseteq entries'
        /\ \A e \in E : e.txn = t /\ e.tenant = tenant /\ e.amount # 0
        /\ E # {}
        /\ Money(Total(E)) = 0

Transfer(t, tenant) ==
    /\ Record(t, tenant, StatusPosted)
    /\ Covered(tenant, entries' \ entries)
    /\ Report(t, EventTransactionPosted, "transaction.transferred", t)
    /\ UNCHANGED owner

CreatePending(t, tenant) ==
    /\ Record(t, tenant, StatusPending)
    /\ \A a \in Accounts(entries' \ entries) : owner[a] # None
    /\ Report(t, EventTransactionPending, "transaction.pending_created", t)
    /\ UNCHANGED owner

Settle(t, status) ==
    /\ transactions[t].status = StatusPending
    /\ transactions' = [transactions EXCEPT ![t] =
                          [tenant |-> transactions[t].tenant, status |-> status]]
    /\ UNCHANGED <<owner, entries>>

Post(t, p) ==
    /\ Settle(t, StatusPosted)
    /\ Covered(transactions[t].tenant, Rows(t, entries))
    /\ Report(t, EventTransactionPosted, "transaction.posted", p)

Fail(t, p) ==
    /\ Settle(t, StatusFailed)
    /\ Report(t, EventTransactionFailed, "transaction.failed", p)

CreateAccount(a, tenant, p) ==
    /\ owner[a] = None
    /\ owner' = [owner EXCEPT ![a] = tenant]
    /\ auditLog' = auditLog \cup { Audit(p, "account.created", p) }
    /\ UNCHANGED <<transactions, entries, outbox>>

Next ==
    \/ \E t \in Request, tenant \in Tenant : Transfer(t, tenant) \/ CreatePending(t, tenant)
    \/ \E t \in TxnId, p \in Request : Post(t, p) \/ Fail(t, p)
    \/ \E a \in Account, tenant \in Tenant, p \in Request : CreateAccount(a, tenant, p)

Spec == Init /\ [][Next]_book
=============================================================================
