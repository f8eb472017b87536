---------------------------- MODULE LedgerTypes ----------------------------
(***************************************************************************)
(* The vocabulary of the ledger: money, entry rows and their sums, the     *)
(* statuses, event types and audit actions.  Shared by the detailed        *)
(* specification (Ledger) and by what it promises (Book).                  *)
(***************************************************************************)
EXTENDS Integers, Sequences, FiniteSets, FiniteSetsExt

CONSTANTS
    Tenant,        \* tenant ids
    Account,       \* account ids; ordered, since the code locks in id order
    Request,       \* the API calls of a behaviour
    SeedTxn,       \* transactions that exist before the behaviour starts
    SeedPending,   \* those of them still pending; the others are genesis rows
    SeedTenant,    \* the tenant of each seed transaction
    SeedEntries,   \* their rows in the entries table
    SeedOwner,     \* the accounts table at the start
    MoneyModulus,  \* 2^w for the w-bit two's complement integer Money
    None

(***************************************************************************)
(* Money is int64 (models.go): Go's addition wraps, so folding a sum and   *)
(* wrapping once gives what the code's running total gives.                *)
(***************************************************************************)
Half == MoneyModulus \div 2
Money(x) == ((x + Half) % MoneyModulus) - Half
InMoney(x) == -Half <= x /\ x < Half

\* A request creates at most one transaction: its id stands for the new
\* row's gen_random_uuid().
TxnId == Request \cup SeedTxn
StatusPending == "pending"
StatusPosted == "posted"
StatusFailed == "failed"
Statuses == {"absent", StatusPending, StatusPosted, StatusFailed}

EntryInput == [account : Account, amount : Int]
Entry == [txn : TxnId, line : Nat, tenant : Tenant, account : Account, amount : Int]

EventTransactionPending == "transaction.pending"
EventTransactionPosted == "transaction.posted"
EventTransactionFailed == "transaction.failed"
EventTypes == {EventTransactionPending, EventTransactionPosted, EventTransactionFailed}

AuditActions == {"account.created", "transaction.transferred", "transaction.pending_created",
                 "transaction.posted", "transaction.failed"}

\* The sum of a set of entry rows, over the integers.
Total(E) == MapThenSumSet(LAMBDA e : e.amount, E)

Accounts(E) == { e.account : e \in E }
On(a, E) == { e \in E : e.account = a }

NoRow == [tenant |-> None, status |-> "absent"]
Event(t, type, p) == [txn |-> t, type |-> type, by |-> p]
Audit(t, action, p) == [txn |-> t, action |-> action, by |-> p]

ASSUME ConstantsAssumption ==
    /\ Account \subseteq Nat
    /\ None \notin Tenant \cup TxnId \cup Account
    /\ Request \cap SeedTxn = {}
    /\ SeedPending \subseteq SeedTxn
    /\ SeedTenant \in [SeedTxn -> Tenant]
    /\ SeedOwner \in [Account -> Tenant \cup {None}]
    /\ SeedEntries \subseteq Entry
    /\ MoneyModulus \in Nat \ {0}

\* What the genesis rows of seedBalance and earlier pending calls leave behind.
ASSUME SeedAssumption ==
    /\ \A e \in SeedEntries : /\ e.txn \in SeedTxn
                              /\ e.tenant = SeedTenant[e.txn]
                              /\ SeedOwner[e.account] # None
    /\ \A e \in SeedEntries : e.txn \notin SeedPending => SeedOwner[e.account] = e.tenant
    /\ \A a \in Account :
          Total({ e \in SeedEntries : e.txn \notin SeedPending /\ e.account = a }) >= 0

=============================================================================
