---------------------------- MODULE LedgerProofs ----------------------------
(***************************************************************************)
(* Proofs about Ledger, for every number of accounts, tenants and requests *)
(* and every menu of calls: the tables keep their types, a request posts   *)
(* on the balances it checked, and nothing posts across tenants.           *)
(***************************************************************************)
EXTENDS Ledger, TLAPS

\* A request that runs was called with an element of the menu and is at a
\* step of its own method.
CallOK ==
    \A p \in Request : InTransaction(p) =>
        /\ body[p] \in Menu
        /\ pc[p] = "load" => body[p].op \in Settling
        /\ pc[p] = "lock" => body[p].op \in {"ExecuteTransfer", "PostPendingTransaction"}
        /\ pc[p] = "insert" => body[p].op \in Creating
        /\ pc[p] = "update" => body[p].op \in Settling
        /\ pc[p] = "account" => body[p].op = "CreateAccount"

\* A request's id names no row until the request itself commits.
FreshOK == \A p \in Request : pc[p] # "done" => transactions[p].status = "absent"

\* Rows of the entries table belong to a row of transactions and to its tenant.
EntriesOK ==
    /\ \A e \in entries : /\ transactions[e.txn].status # "absent"
                          /\ e.tenant = transactions[e.txn].tenant
    /\ \A t \in TxnId : transactions[t].status # "absent" => transactions[t].tenant \in Tenant

\* What a request works on: its own entries, or all those of the row it settles.
WorkOK ==
    \A p \in Request : InTransaction(p) =>
        /\ body[p].op \in Creating =>
              \A e \in work[p] : e.txn = p /\ e.tenant = body[p].tenant
        /\ body[p].op \in Settling /\ pc[p] # "load" =>
              /\ work[p] = { e \in entries : e.txn = body[p].txn }
              /\ transactions[body[p].txn].status # "absent"
              /\ transactions[body[p].txn].tenant = body[p].tenant

\* Accounts are locked FOR UPDATE by running requests of the account's tenant.
HeldOK ==
    /\ \A a \in Account : forUpdate[a] # None =>
          InTransaction(forUpdate[a]) /\ owner[a] = body[forUpdate[a]].tenant
    /\ \A p \in Request : \A a \in scan[p] :
          pc[p] = "lock" /\ owner[a] = body[p].tenant

\* Past the balance check: the request may post without another look.
Checked(p) ==
    /\ pc[p] \in {"insert", "update", "emit", "commit"}
    /\ body[p].op \in {"ExecuteTransfer", "PostPendingTransaction"}

\* A checked request holds the lock of each of its accounts, and as long as
\* its transaction is not posted the projection it checked still stands.
ReservedOK ==
    \A p \in Request : Checked(p) =>
        \A a \in Accounts(work[p]) :
            /\ forUpdate[a] = p
            /\ transactions[TxnOf(p)].status # StatusPosted
               => Money(Total(On(a, PostedEntries) \cup On(a, work[p]))) >= 0

\* What a request has staged at each step.
StagedAt(p) ==
    /\ pc[p] \in {"idle", "load", "lock", "account", "update", "done"} => staged[p] = NoWrites
    /\ pc[p] = "insert" => staged[p].entries \subseteq work[p] /\ staged[p].account = None
    /\ pc[p] \in {"emit", "commit"} =>
        /\ body[p].op = "ExecuteTransfer" =>
              staged[p].status = StatusPosted /\ staged[p].entries = work[p]
        /\ body[p].op = "CreatePendingTransaction" =>
              staged[p].status = StatusPending /\ staged[p].entries = work[p]
        /\ body[p].op \in Settling =>
              /\ staged[p].status = NewStatus(body[p].op)
              /\ staged[p].entries = {}
              /\ rowLock[body[p].txn] = p
              /\ transactions[body[p].txn].status = StatusPending
        /\ body[p].op # "CreateAccount" => staged[p].account = None
        /\ body[p].op = "CreateAccount" =>
              staged[p].status = "absent" /\ staged[p].entries = {}
StagedOK == \A p \in Request : StagedAt(p)

\* An account being created is new, and nobody else's.
NewAccountOK ==
    \A p \in Request : staged[p].account # None =>
        /\ owner[staged[p].account] = None
        /\ \A q \in Request : staged[q].account = staged[p].account => q = p

\* The inductive invariant.
IInv ==
    /\ TypeOK
    /\ CallOK
    /\ FreshOK
    /\ EntriesOK
    /\ WorkOK
    /\ HeldOK
    /\ ReservedOK
    /\ StagedOK
    /\ NewAccountOK
    /\ PostedWithinTenant

-----------------------------------------------------------------------------
USE DEF StatusPending, StatusPosted, StatusFailed, Written

\* None is no request, no transaction, no tenant and no account.
LEMMA NoneIsNobody ==
    /\ None \notin Request /\ None \notin TxnId /\ None \notin Tenant /\ None \notin Account
    /\ Request \subseteq TxnId
  BY ConstantsAssumption DEF TxnId

\* What the menu's bodies look like.
LEMMA MenuBodies ==
    ASSUME NEW b \in Menu
    PROVE  /\ b \in Body
           /\ b.op \in Operations /\ b.tenant \in Tenant /\ b.lines \in Seq(EntryInput)
           /\ b.op \in Settling => b.txn \in TxnId
  BY MenuAssumption DEF Body

\* The initial tables satisfy the inductive invariant.
LEMMA InitInv == Init => IInv
  <1> SUFFICES ASSUME Init PROVE IInv
    OBVIOUS
  <1> USE ConstantsAssumption, SeedAssumption, NoneIsNobody
  <1>1. TypeOK
    <2>1. transactions \in [TxnId -> [tenant : Tenant \cup {None}, status : Statuses]]
      BY DEF Init, TxnId, NoRow, Statuses
    <2>2. outbox \subseteq [txn : TxnId, type : EventTypes, by : TxnId]
      BY DEF Init, TxnId, Event, EventTypes
    <2>3. auditLog \subseteq [txn : TxnId, action : AuditActions, by : TxnId]
      BY DEF Init, TxnId, Audit, AuditActions
    <2>4. staged \in [Request -> Writes]
      BY DEF Init, NoWrites, Writes, Statuses
    <2>5. body \in [Request -> Body \cup {NoBody}] /\ faults \in 0 .. MaxFaults
      BY MenuAssumption DEF Init
    <2>6. /\ owner \in [Account -> Tenant \cup {None}]
          /\ entries \subseteq Entry
          /\ forUpdate \in [Account -> Request \cup {None}]
          /\ keyShare \in [Account -> SUBSET Request]
          /\ rowLock \in [TxnId -> Request \cup {None}]
      BY DEF Init
    <2>7. /\ pc \in [Request -> Steps]
          /\ work \in [Request -> SUBSET Entry]
          /\ scan \in [Request -> SUBSET Account]
          /\ outcome \in [Request -> Outcomes]
      BY DEF Init, Steps, Outcomes
    <2> QED
      BY <2>1, <2>2, <2>3, <2>4, <2>5, <2>6, <2>7 DEF TypeOK
  <1>2. CallOK /\ WorkOK /\ ReservedOK
    BY DEF Init, CallOK, WorkOK, ReservedOK, InTransaction, Checked
  <1>3. FreshOK
    BY DEF Init, FreshOK, TxnId, NoRow
  <1>4. EntriesOK
    BY DEF Init, EntriesOK, TxnId, NoRow
  <1>5. HeldOK /\ StagedOK /\ NewAccountOK
    BY DEF Init, HeldOK, StagedOK, StagedAt, NewAccountOK, NoWrites
  <1>6. PostedEntries = { e \in SeedEntries : e.txn \notin SeedPending }
    BY DEF Init, PostedEntries, TxnId, NoRow, Entry
  <1>7. PostedWithinTenant
    BY <1>6 DEF Init, PostedWithinTenant, TxnId
  <1> QED
    BY <1>1, <1>2, <1>3, <1>4, <1>5, <1>7 DEF IInv

-----------------------------------------------------------------------------
\* A step that leaves the tables alone changes no balance and no posted row.
LEMMA TablesKept ==
    ASSUME UNCHANGED tables
    PROVE  /\ PostedEntries' = PostedEntries
           /\ PostedWithinTenant => PostedWithinTenant'
           /\ EntriesOK => EntriesOK'
  <1>1. PostedEntries' = PostedEntries
    BY DEF tables, PostedEntries
  <1>2. PostedWithinTenant => PostedWithinTenant'
    BY <1>1 DEF PostedWithinTenant, tables
  <1>3. EntriesOK => EntriesOK'
    BY DEF EntriesOK, tables
  <1> QED
    BY <1>1, <1>2, <1>3

\* A request that ends without a commit: its writes are dropped, its locks
\* released, and nobody else's are.
LEMMA RollbackInv ==
    ASSUME IInv, NEW p \in Request, NEW r \in Outcomes, Finish(p, r),
           UNCHANGED <<tables, body, work>>, faults' \in 0 .. MaxFaults
    PROVE  IInv'
  <1> USE NoneIsNobody
  <1>0. /\ TypeOK /\ CallOK /\ FreshOK /\ EntriesOK /\ WorkOK /\ HeldOK /\ ReservedOK
        /\ StagedOK /\ NewAccountOK /\ PostedWithinTenant
    BY DEF IInv
  <1>1. TypeOK'
    BY <1>0 DEF TypeOK, Finish, Release, tables, NoWrites, Writes, Statuses, Steps
  <1>2. \A q \in Request : q # p => pc'[q] = pc[q] /\ staged'[q] = staged[q] /\ scan'[q] = scan[q]
    BY <1>0 DEF TypeOK, Finish
  <1>3. pc'[p] = "done" /\ staged'[p] = NoWrites /\ scan'[p] = {}
    BY <1>0 DEF TypeOK, Finish
  <1>4. CallOK'
    BY <1>0, <1>2, <1>3 DEF CallOK, InTransaction
  <1>5. FreshOK'
    BY <1>0, <1>2, <1>3 DEF FreshOK, tables
  <1>6. WorkOK'
    BY <1>0, <1>2, <1>3 DEF WorkOK, InTransaction, tables
  <1>7. HeldOK'
    BY <1>0, <1>2, <1>3 DEF HeldOK, InTransaction, Finish, Release, tables, TypeOK
  <1>8. ReservedOK'
    <2> SUFFICES ASSUME NEW q \in Request, Checked(q)', NEW a \in Accounts(work'[q])
                 PROVE  /\ forUpdate'[a] = q
                        /\ transactions'[TxnOf(q)'].status # StatusPosted
                           => Money(Total(On(a, PostedEntries') \cup On(a, work'[q]))) >= 0
      BY DEF ReservedOK
    <2>1. q # p /\ Checked(q)
      BY <1>2, <1>3 DEF Checked
    <2>2. a \in Accounts(work[q]) /\ a \in Account
      BY <1>0 DEF Accounts, TypeOK, Entry
    <2>3. PostedEntries' = PostedEntries /\ TxnOf(q)' = TxnOf(q)
      BY TablesKept DEF TxnOf
    <2> QED
      BY <1>0, <2>1, <2>2, <2>3 DEF ReservedOK, Finish, Release, tables
  <1>9. StagedOK'
    <2>1. \A q \in Request : q # p => \A t \in TxnId : rowLock[t] = q => rowLock'[t] = q
      BY DEF Finish, Release
    <2>2. \A q \in Request : pc[q] \in {"emit", "commit"} /\ body[q].op \in Settling => body[q].txn \in TxnId
      BY <1>0, MenuBodies DEF CallOK, InTransaction
    <2> QED
      BY <1>0, <1>2, <1>3, <2>1, <2>2 DEF StagedOK, StagedAt, tables
  <1>10. NewAccountOK'
    BY <1>0, <1>2, <1>3 DEF NewAccountOK, tables, NoWrites
  <1> QED
    BY <1>0, <1>1, <1>4, <1>5, <1>6, <1>7, <1>8, <1>9, <1>10, TablesKept DEF IInv

\* The entries of a call become rows of the entries table.
LEMMA EntriesOfType ==
    ASSUME NEW p \in Request, NEW b \in Menu
    PROVE  /\ EntriesOf(p, b.tenant, b.lines) \subseteq Entry
           /\ \A e \in EntriesOf(p, b.tenant, b.lines) : e.txn = p /\ e.tenant = b.tenant
  <1>1. \A i \in DOMAIN b.lines : i \in Nat /\ b.lines[i] \in EntryInput
    BY MenuBodies
  <1>2. \A i \in DOMAIN b.lines : b.lines[i].account \in Account /\ b.lines[i].amount \in Int
    BY <1>1 DEF EntryInput
  <1> QED
    BY <1>1, <1>2, MenuBodies, NoneIsNobody DEF EntriesOf, Entry

LEMMA ReceiveInv ==
    ASSUME IInv, NEW p \in Request, NEW b \in Menu, Receive(p, b)
    PROVE  IInv'
  <1> USE NoneIsNobody
  <1> DEFINE E == EntriesOf(p, b.tenant, b.lines)
  <1>0. /\ TypeOK /\ CallOK /\ FreshOK /\ EntriesOK /\ WorkOK /\ HeldOK /\ ReservedOK
        /\ StagedOK /\ NewAccountOK /\ PostedWithinTenant
    BY DEF IInv
  <1>1. PICK v \in Outcomes :
          /\ v # "none"
          /\ pc[p] = "idle"
          /\ body' = [body EXCEPT ![p] = b]
          /\ work' = [work EXCEPT ![p] = E]
          /\ pc' = [pc EXCEPT ![p] = IF v = "ok" THEN FirstStep(b.op) ELSE "done"]
          /\ outcome' = [outcome EXCEPT ![p] = IF v = "ok" THEN "none" ELSE v]
          /\ scan' = [scan EXCEPT ![p] =
                IF v = "ok" /\ b.op = "ExecuteTransfer" THEN Lockable(b.tenant, E) ELSE {}]
          /\ UNCHANGED <<tables, locks, staged, faults>>
    <2>1. ValidateEntries(b.lines) \in Outcomes \ {"none"}
      BY DEF ValidateEntries, Outcomes, Errors
    <2>2. (IF b.op \in Creating THEN ValidateEntries(b.lines) ELSE "ok") \in Outcomes \ {"none"}
      BY <2>1 DEF Outcomes
    <2> HIDE DEF E
    <2> QED
      BY <2>2 DEF Receive, E
  <1>2. /\ E \subseteq Entry
        /\ \A e \in E : e.txn = p /\ e.tenant = b.tenant
    BY EntriesOfType
  <1> HIDE DEF E
  <1>3. Lockable(b.tenant, E) \subseteq Account /\ \A a \in Lockable(b.tenant, E) : owner[a] = b.tenant
    BY <1>2 DEF Lockable, Accounts, Entry
  <1>4. /\ b.op = "ExecuteTransfer" => FirstStep(b.op) = "lock"
        /\ b.op = "CreatePendingTransaction" => FirstStep(b.op) = "insert"
        /\ b.op = "CreateAccount" => FirstStep(b.op) = "account"
        /\ b.op \in Settling => FirstStep(b.op) = "load"
        /\ b.op \in {"ExecuteTransfer", "CreatePendingTransaction", "CreateAccount"} \cup Settling
    BY MenuBodies DEF FirstStep, Settling, Creating, Operations
  <1>5. FirstStep(b.op) \in {"lock", "insert", "account", "load"}
    BY <1>4
  <1>6. TypeOK'
    <2>1. pc' \in [Request -> Steps]
      BY <1>0, <1>1, <1>5 DEF TypeOK, Steps
    <2>2. body' \in [Request -> Body \cup {NoBody}] /\ outcome' \in [Request -> Outcomes]
      BY <1>0, <1>1, MenuBodies DEF TypeOK, Outcomes
    <2>3. work' \in [Request -> SUBSET Entry] /\ scan' \in [Request -> SUBSET Account]
      BY <1>0, <1>1, <1>2, <1>3 DEF TypeOK
    <2> QED
      BY <1>0, <1>1, <2>1, <2>2, <2>3 DEF TypeOK, tables, locks
  <1>7. \A q \in Request : q # p => /\ pc'[q] = pc[q] /\ body'[q] = body[q] /\ work'[q] = work[q]
                                    /\ scan'[q] = scan[q]
    BY <1>0, <1>1 DEF TypeOK
  <1>8. /\ body'[p] = b /\ work'[p] = E
        /\ pc'[p] \in {FirstStep(b.op), "done"}
        /\ scan'[p] # {} => scan'[p] = Lockable(b.tenant, E) /\ pc'[p] = "lock"
    BY <1>0, <1>1, <1>4 DEF TypeOK
  <1>9. CallOK'
    BY <1>0, <1>4, <1>7, <1>8 DEF CallOK, InTransaction, Creating, Settling
  <1>10. FreshOK'
    BY <1>0, <1>1, <1>7 DEF FreshOK, tables
  <1>11. WorkOK'
    BY <1>0, <1>1, <1>2, <1>4, <1>7, <1>8 DEF WorkOK, InTransaction, tables
  <1>12. HeldOK'
    <2>1. \A a \in Account : forUpdate[a] # p
      BY <1>0, <1>1 DEF HeldOK, InTransaction
    <2> QED
      BY <1>0, <1>1, <1>3, <1>7, <1>8, <2>1 DEF HeldOK, InTransaction, tables, locks, TypeOK
  <1>13. ReservedOK'
    <2> SUFFICES ASSUME NEW q \in Request, Checked(q)', NEW a \in Accounts(work'[q])
                 PROVE  /\ forUpdate'[a] = q
                        /\ transactions'[TxnOf(q)'].status # StatusPosted
                           => Money(Total(On(a, PostedEntries') \cup On(a, work'[q]))) >= 0
      BY DEF ReservedOK
    <2>1. q # p
      BY <1>4, <1>5, <1>8 DEF Checked, Settling
    <2>2. Checked(q) /\ a \in Accounts(work[q])
      BY <1>7, <2>1 DEF Checked
    <2>3. PostedEntries' = PostedEntries /\ TxnOf(q)' = TxnOf(q)
      BY <1>1, <1>7, <2>1, TablesKept DEF TxnOf
    <2> QED
      BY <1>0, <1>1, <1>7, <2>1, <2>2, <2>3 DEF ReservedOK, tables, locks
  <1>14. StagedOK'
    <2>1. staged[p] = NoWrites
      BY <1>0, <1>1 DEF StagedOK, StagedAt
    <2> QED
      BY <1>0, <1>1, <1>5, <1>7, <1>8, <2>1 DEF StagedOK, StagedAt, tables, locks, NoWrites
  <1>15. NewAccountOK'
    BY <1>0, <1>1 DEF NewAccountOK, tables
  <1> QED
    BY <1>0, <1>1, <1>6, <1>9, <1>10, <1>11, <1>12, <1>13, <1>14, <1>15, TablesKept DEF IInv

LEMMA LoadTransactionInv ==
    ASSUME IInv, NEW p \in Request, LoadTransaction(p)
    PROVE  IInv'
  <1> USE NoneIsNobody
  <1> DEFINE t == body[p].txn
             E == { e \in entries : e.txn = t /\ e.tenant = body[p].tenant }
  <1>0. /\ TypeOK /\ CallOK /\ FreshOK /\ EntriesOK /\ WorkOK /\ HeldOK /\ ReservedOK
        /\ StagedOK /\ NewAccountOK /\ PostedWithinTenant
    BY DEF IInv
  <1>1. CASE \E r \in Outcomes : Rollback(p, r)
    BY <1>0, <1>1, RollbackInv DEF Rollback, TypeOK
  <1>2. CASE /\ transactions[t].tenant = body[p].tenant
             /\ transactions[t].status = StatusPending
             /\ work' = [work EXCEPT ![p] = E]
             /\ IF body[p].op = "PostPendingTransaction"
                THEN /\ pc' = [pc EXCEPT ![p] = "lock"]
                     /\ scan' = [scan EXCEPT ![p] = Lockable(body[p].tenant, E)]
                ELSE /\ pc' = [pc EXCEPT ![p] = "update"]
                     /\ UNCHANGED scan
             /\ UNCHANGED <<tables, locks, body, staged, outcome, faults>>
    <2>0. pc[p] = "load" /\ body[p].op \in Settling /\ body[p] \in Menu /\ t \in TxnId
      BY <1>0, MenuBodies DEF LoadTransaction, CallOK, InTransaction
    <2>1. E \subseteq Entry /\ E = { e \in entries : e.txn = t }
      BY <1>0, <1>2, <2>0 DEF TypeOK, EntriesOK
    <2> HIDE DEF E, t
    <2>2. Lockable(body[p].tenant, E) \subseteq Account
          /\ \A a \in Lockable(body[p].tenant, E) : owner[a] = body[p].tenant
      BY <2>1 DEF Lockable, Accounts, Entry
    <2>3. scan[p] = {}
      BY <1>0, <2>0 DEF HeldOK
    <2>4. TypeOK'
      <3>1. pc' \in [Request -> Steps]
        BY <1>0, <1>2 DEF TypeOK, Steps
      <3>2. E \in SUBSET Entry /\ work' = [work EXCEPT ![p] = E] /\ work \in [Request -> SUBSET Entry]
        BY <1>0, <1>2, <2>1 DEF TypeOK
      <3>3. work' \in [Request -> SUBSET Entry]
        BY <3>2
      <3>4. scan' \in [Request -> SUBSET Account]
        BY <1>0, <1>2, <2>2 DEF TypeOK
      <3> QED
        BY <1>0, <1>2, <3>1, <3>3, <3>4 DEF TypeOK, tables, locks
    <2>5. \A q \in Request : q # p => pc'[q] = pc[q] /\ work'[q] = work[q] /\ scan'[q] = scan[q]
      BY <1>0, <1>2 DEF TypeOK
    <2>6. /\ work'[p] = E
          /\ \/ /\ pc'[p] = "lock" /\ body[p].op = "PostPendingTransaction"
                /\ scan'[p] = Lockable(body[p].tenant, E)
             \/ pc'[p] = "update" /\ body[p].op # "PostPendingTransaction" /\ scan'[p] = {}
      BY <1>0, <1>2, <2>3 DEF TypeOK
    <2>7. CallOK'
      BY <1>0, <1>2, <2>0, <2>5, <2>6 DEF CallOK, InTransaction, Settling
    <2>8. FreshOK'
      BY <1>0, <1>2, <2>0, <2>5 DEF FreshOK, tables
    <2>9. WorkOK'
      BY <1>0, <1>2, <2>0, <2>1, <2>5, <2>6 DEF WorkOK, InTransaction, tables, Creating, Settling, t
    <2>10. HeldOK'
      BY <1>0, <1>2, <2>0, <2>2, <2>5, <2>6 DEF HeldOK, InTransaction, tables, locks, TypeOK
    <2>11. ReservedOK'
      <3> SUFFICES ASSUME NEW q \in Request, Checked(q)', NEW a \in Accounts(work'[q])
                   PROVE  /\ forUpdate'[a] = q
                          /\ transactions'[TxnOf(q)'].status # StatusPosted
                             => Money(Total(On(a, PostedEntries') \cup On(a, work'[q]))) >= 0
        BY DEF ReservedOK
      <3>1. q # p
        BY <1>2, <2>0, <2>6 DEF Checked, Settling
      <3>2. Checked(q) /\ a \in Accounts(work[q])
        BY <1>2, <2>5, <3>1 DEF Checked
      <3>3. PostedEntries' = PostedEntries /\ TxnOf(q)' = TxnOf(q)
        BY <1>2, TablesKept DEF TxnOf
      <3> QED
        BY <1>0, <1>2, <2>5, <3>1, <3>2, <3>3 DEF ReservedOK, tables, locks
    <2>12. StagedOK'
      BY <1>0, <1>2, <2>0, <2>5, <2>6 DEF StagedOK, StagedAt, tables, locks
    <2>13. NewAccountOK'
      BY <1>0, <1>2 DEF NewAccountOK, tables
    <2> QED
      BY <1>0, <1>2, <2>4, <2>7, <2>8, <2>9, <2>10, <2>11, <2>12, <2>13, TablesKept DEF IInv
  <1> QED
    BY <1>1, <1>2 DEF LoadTransaction, Outcomes, Errors

\* A request checked before and after a step that keeps the tables, its call,
\* its entries and its locks stays covered.
LEMMA ReservedKept ==
    ASSUME ReservedOK, NEW q \in Request, Checked(q), UNCHANGED <<tables, body, work>>,
           \A a \in Account : forUpdate[a] = q => forUpdate'[a] = q,
           work[q] \subseteq Entry
    PROVE  \A a \in Accounts(work'[q]) :
              /\ forUpdate'[a] = q
              /\ transactions'[TxnOf(q)'].status # StatusPosted
                 => Money(Total(On(a, PostedEntries') \cup On(a, work'[q]))) >= 0
  <1>1. PostedEntries' = PostedEntries /\ TxnOf(q)' = TxnOf(q) /\ work' = work /\ transactions' = transactions
    BY TablesKept DEF TxnOf, tables
  <1>2. Accounts(work[q]) \subseteq Account
    BY DEF Accounts, Entry
  <1> QED
    BY <1>1, <1>2 DEF ReservedOK

LEMMA LockAccountInv ==
    ASSUME IInv, NEW p \in Request, LockAccount(p)
    PROVE  IInv'
  <1> USE NoneIsNobody
  <1>0. /\ TypeOK /\ CallOK /\ FreshOK /\ EntriesOK /\ WorkOK /\ HeldOK /\ ReservedOK
        /\ StagedOK /\ NewAccountOK /\ PostedWithinTenant
    BY DEF IInv
  <1>1. PICK a \in scan[p] :
          /\ pc[p] = "lock"
          /\ CanLockForUpdate(p, a)
          /\ forUpdate' = [forUpdate EXCEPT ![a] = p]
          /\ scan' = [scan EXCEPT ![p] = scan[p] \ {a}]
          /\ UNCHANGED <<tables, keyShare, rowLock, pc, body, work, staged, outcome, faults>>
    BY DEF LockAccount
  <1>2. a \in Account /\ owner[a] = body[p].tenant /\ forUpdate[a] \in {None, p}
    BY <1>0, <1>1 DEF TypeOK, HeldOK, CanLockForUpdate
  <1>3. TypeOK'
    BY <1>0, <1>1, <1>2 DEF TypeOK, tables
  <1>4. CallOK' /\ FreshOK' /\ WorkOK' /\ StagedOK' /\ NewAccountOK'
    BY <1>0, <1>1 DEF CallOK, FreshOK, WorkOK, StagedOK, StagedAt, NewAccountOK, InTransaction, tables
  <1>5. HeldOK'
    BY <1>0, <1>1, <1>2 DEF HeldOK, InTransaction, tables, TypeOK
  <1>6. ReservedOK'
    <2> SUFFICES ASSUME NEW q \in Request, Checked(q)'
                 PROVE  \A c \in Accounts(work'[q]) :
                          /\ forUpdate'[c] = q
                          /\ transactions'[TxnOf(q)'].status # StatusPosted
                             => Money(Total(On(c, PostedEntries') \cup On(c, work'[q]))) >= 0
      BY DEF ReservedOK
    <2>1. Checked(q) /\ q # p
      BY <1>1 DEF Checked
    <2>2. \A c \in Account : forUpdate[c] = q => forUpdate'[c] = q
      BY <1>0, <1>1, <1>2, <2>1 DEF TypeOK
    <2>3. work[q] \subseteq Entry /\ UNCHANGED <<tables, body, work>>
      BY <1>0, <1>1 DEF TypeOK
    <2> QED
      BY <1>0, <2>1, <2>2, <2>3, ReservedKept
  <1> QED
    BY <1>0, <1>1, <1>3, <1>4, <1>5, <1>6, TablesKept DEF IInv

LEMMA ReadBalancesInv ==
    ASSUME IInv, NEW p \in Request, ReadBalances(p)
    PROVE  IInv'
  <1> USE NoneIsNobody
  <1>0. /\ TypeOK /\ CallOK /\ FreshOK /\ EntriesOK /\ WorkOK /\ HeldOK /\ ReservedOK
        /\ StagedOK /\ NewAccountOK /\ PostedWithinTenant
    BY DEF IInv
  <1> DEFINE next == IF body[p].op = "PostPendingTransaction" THEN "update" ELSE "insert"
  <1>1. CASE \E r \in Outcomes : Rollback(p, r)
    BY <1>0, <1>1, RollbackInv DEF Rollback, TypeOK
  <1>2. CASE /\ pc[p] = "lock" /\ scan[p] = {}
             /\ \A a \in Accounts(work[p]) : forUpdate[a] = p
             /\ \A a \in Accounts(work[p]) : Projected(p, a) >= 0
             /\ pc' = [pc EXCEPT ![p] = next]
             /\ UNCHANGED <<tables, locks, body, work, scan, staged, outcome, faults>>
    <2>1. body[p].op \in {"ExecuteTransfer", "PostPendingTransaction"}
      BY <1>0, <1>2 DEF CallOK, InTransaction
    <2>2. /\ pc'[p] = next
          /\ \A q \in Request : q # p => pc'[q] = pc[q]
      BY <1>0, <1>2 DEF TypeOK
    <2>3. TypeOK'
      BY <1>0, <1>2 DEF TypeOK, tables, locks, Steps
    <2>4. CallOK'
      BY <1>0, <1>2, <2>1, <2>2 DEF CallOK, InTransaction, Settling, Creating
    <2>5. FreshOK' /\ NewAccountOK'
      BY <1>0, <1>2, <2>2 DEF FreshOK, NewAccountOK, tables
    <2>6. WorkOK'
      BY <1>0, <1>2, <2>2 DEF WorkOK, InTransaction, tables
    <2>7. HeldOK'
      BY <1>0, <1>2, <2>2 DEF HeldOK, InTransaction, tables, locks, TypeOK
    <2>8. StagedOK'
      <3>1. staged[p] = NoWrites
        BY <1>0, <1>2 DEF StagedOK, StagedAt
      <3>2. staged[p].entries = {} /\ staged[p].account = None
        BY <3>1 DEF NoWrites
      <3>3. UNCHANGED <<staged, work, body, transactions, rowLock>>
        BY <1>2 DEF tables, locks
      <3>4. pc'[p] \in {"update", "insert"}
        BY <2>2
      <3> QED
        BY <1>0, <2>2, <3>1, <3>2, <3>3, <3>4 DEF StagedOK, StagedAt
    <2>9. ReservedOK'
      <3> SUFFICES ASSUME NEW q \in Request, Checked(q)'
                   PROVE  \A c \in Accounts(work'[q]) :
                            /\ forUpdate'[c] = q
                            /\ transactions'[TxnOf(q)'].status # StatusPosted
                               => Money(Total(On(c, PostedEntries') \cup On(c, work'[q]))) >= 0
        BY DEF ReservedOK
      <3>1. CASE q # p
        <4>1. Checked(q)
          BY <1>2, <2>2, <3>1 DEF Checked
        <4>2. work[q] \subseteq Entry /\ UNCHANGED <<tables, body, work, forUpdate>>
          BY <1>0, <1>2 DEF TypeOK, locks
        <4> QED
          BY <1>0, <4>1, <4>2, ReservedKept
      <3>2. CASE q = p
        <4>1. PostedEntries' = PostedEntries /\ TxnOf(p)' = TxnOf(p)
          BY <1>2, TablesKept DEF TxnOf
        <4>2. \A c \in Accounts(work[p]) :
                transactions[TxnOf(p)].status # StatusPosted
                => Money(Total(On(c, PostedEntries) \cup On(c, work[p]))) >= 0
          BY <1>2 DEF Projected
        <4> QED
          BY <1>2, <3>2, <4>1, <4>2 DEF tables, locks
      <3> QED
        BY <3>1, <3>2
    <2> QED
      BY <1>0, <1>2, <2>3, <2>4, <2>5, <2>6, <2>7, <2>8, <2>9, TablesKept DEF IInv
  <1> QED
    BY <1>1, <1>2 DEF ReadBalances, Outcomes, Errors

LEMMA InsertEntryInv ==
    ASSUME IInv, NEW p \in Request, InsertEntry(p)
    PROVE  IInv'
  <1> USE NoneIsNobody
  <1>0. /\ TypeOK /\ CallOK /\ FreshOK /\ EntriesOK /\ WorkOK /\ HeldOK /\ ReservedOK
        /\ StagedOK /\ NewAccountOK /\ PostedWithinTenant
    BY DEF IInv
  <1> DEFINE done == staged[p].entries
             status == IF body[p].op = "ExecuteTransfer" THEN StatusPosted ELSE StatusPending
  <1>1. CASE \E r \in Outcomes : Rollback(p, r)
    BY <1>0, <1>1, RollbackInv DEF Rollback, TypeOK
  <1>2. ASSUME NEW e \in work[p],
               pc[p] = "insert",
               keyShare' = [keyShare EXCEPT ![e.account] = @ \cup {p}],
               staged' = [staged EXCEPT ![p] = Written(status, done \cup {e}, None, {}, {})],
               pc' = [pc EXCEPT ![p] = IF work[p] = done \cup {e} THEN "emit" ELSE "insert"],
               UNCHANGED <<tables, forUpdate, rowLock, body, work, scan, outcome, faults>>
        PROVE  IInv'
    <2>1. /\ body[p].op \in Creating
          /\ e \in Entry /\ e.account \in Account
          /\ done \subseteq work[p] /\ staged[p].account = None
          /\ staged[p] \in Writes
      <3>1. body[p].op \in Creating
        BY <1>0, <1>2 DEF CallOK, InTransaction
      <3>2. e \in Entry /\ staged[p] \in Writes
        BY <1>0, <1>2 DEF TypeOK
      <3>3. done \subseteq work[p] /\ staged[p].account = None
        BY <1>0, <1>2 DEF StagedOK, StagedAt
      <3> QED
        BY <3>1, <3>2, <3>3 DEF Entry
    <2>2. /\ staged'[p].status = status
          /\ staged'[p].entries = done \cup {e}
          /\ staged'[p].account = None
          /\ staged'[p] \in Writes
      BY <1>0, <1>2, <2>1 DEF TypeOK, Writes, Statuses
    <2>3. /\ \A q \in Request : q # p => pc'[q] = pc[q] /\ staged'[q] = staged[q]
          /\ pc'[p] = IF work[p] = done \cup {e} THEN "emit" ELSE "insert"
      BY <1>0, <1>2 DEF TypeOK
    <2>4. TypeOK'
      <3>1. staged' \in [Request -> Writes]
        BY <1>0, <1>2, <2>2 DEF TypeOK
      <3>2. pc' \in [Request -> Steps] /\ keyShare' \in [Account -> SUBSET Request]
        BY <1>0, <1>2, <2>1 DEF TypeOK, Steps
      <3> QED
        BY <1>0, <1>2, <3>1, <3>2 DEF TypeOK, tables
    <2>5. CallOK'
      BY <1>0, <1>2, <2>3 DEF CallOK, InTransaction
    <2>6. FreshOK'
      BY <1>0, <1>2, <2>3 DEF FreshOK, tables
    <2>7. WorkOK'
      BY <1>0, <1>2, <2>3 DEF WorkOK, InTransaction, tables
    <2>8. HeldOK'
      BY <1>0, <1>2, <2>3 DEF HeldOK, InTransaction, tables, TypeOK
    <2>9. StagedOK'
      <3>1. UNCHANGED <<work, body, transactions, rowLock>>
        BY <1>2 DEF tables
      <3>2. staged'[p].entries \subseteq work[p]
        BY <2>1, <2>2
      <3>3. pc'[p] = "emit" => staged'[p].entries = work[p]
        BY <2>2, <2>3
      <3>4. pc'[p] \in {"emit", "insert"}
        BY <2>3
      <3>5. /\ body[p].op = "ExecuteTransfer" => staged'[p].status = StatusPosted
            /\ body[p].op = "CreatePendingTransaction" => staged'[p].status = StatusPending
            /\ body[p].op \notin Settling /\ body[p].op # "CreateAccount"
        BY <2>1, <2>2 DEF Creating, Settling
      <3>6. staged'[p].account = None
        BY <2>2
      <3> HIDE DEF done, status
      <3>7. StagedAt(p)'
        BY <3>1, <3>2, <3>3, <3>4, <3>5, <3>6 DEF StagedAt
      <3>8. ASSUME NEW q \in Request, q # p PROVE StagedAt(q)'
        <4>1. StagedAt(q) /\ pc'[q] = pc[q] /\ staged'[q] = staged[q]
          BY <1>0, <2>3, <3>8 DEF StagedOK
        <4> QED
          BY <3>1, <4>1 DEF StagedAt
      <3> QED
        BY <3>7, <3>8 DEF StagedOK
    <2>10. NewAccountOK'
      BY <1>0, <1>2, <2>2, <2>3 DEF NewAccountOK, tables
    <2>11. ReservedOK'
      <3> SUFFICES ASSUME NEW q \in Request, Checked(q)'
                   PROVE  \A c \in Accounts(work'[q]) :
                            /\ forUpdate'[c] = q
                            /\ transactions'[TxnOf(q)'].status # StatusPosted
                               => Money(Total(On(c, PostedEntries') \cup On(c, work'[q]))) >= 0
        BY DEF ReservedOK
      <3>1. Checked(q)
        BY <1>2, <2>3 DEF Checked
      <3>2. work[q] \subseteq Entry /\ UNCHANGED <<tables, body, work, forUpdate>>
        BY <1>0, <1>2 DEF TypeOK
      <3> QED
        BY <1>0, <3>1, <3>2, ReservedKept
    <2> QED
      BY <1>0, <1>2, <2>4, <2>5, <2>6, <2>7, <2>8, <2>9, <2>10, <2>11, TablesKept DEF IInv
  <1> QED
    BY <1>1, <1>2 DEF InsertEntry, Outcomes

LEMMA UpdateStatusInv ==
    ASSUME IInv, NEW p \in Request, UpdateStatus(p)
    PROVE  IInv'
  <1> USE NoneIsNobody
  <1>0. /\ TypeOK /\ CallOK /\ FreshOK /\ EntriesOK /\ WorkOK /\ HeldOK /\ ReservedOK
        /\ StagedOK /\ NewAccountOK /\ PostedWithinTenant
    BY DEF IInv
  <1>1. CASE \E r \in Outcomes : Rollback(p, r)
    BY <1>0, <1>1, RollbackInv DEF Rollback, TypeOK
  <1>2. CASE /\ pc[p] = "update"
             /\ rowLock[body[p].txn] \in {None, p}
             /\ transactions[body[p].txn].status = StatusPending
             /\ StageStatus(p)
    <2>1. /\ body[p].op \in Settling /\ body[p].txn \in TxnId
          /\ staged[p] = NoWrites
      BY <1>0, <1>2, MenuBodies DEF CallOK, InTransaction, StagedOK, StagedAt
    <2>2. /\ rowLock' = [rowLock EXCEPT ![body[p].txn] = p]
          /\ staged' = [staged EXCEPT ![p] = Written(NewStatus(body[p].op), {}, None, {}, {})]
          /\ pc' = [pc EXCEPT ![p] = "emit"]
          /\ UNCHANGED <<tables, forUpdate, keyShare, body, work, scan, outcome, faults>>
      BY <1>2 DEF StageStatus
    <2>3. /\ staged'[p] = Written(NewStatus(body[p].op), {}, None, {}, {})
          /\ pc'[p] = "emit" /\ rowLock'[body[p].txn] = p
          /\ \A q \in Request : q # p => pc'[q] = pc[q] /\ staged'[q] = staged[q]
      BY <1>0, <2>1, <2>2 DEF TypeOK
    <2>4. TypeOK'
      <3>1. NewStatus(body[p].op) \in Statuses
        BY DEF NewStatus, Statuses
      <3>2. staged' \in [Request -> Writes]
        BY <1>0, <2>2, <3>1 DEF TypeOK, Writes
      <3> QED
        BY <1>0, <2>1, <2>2, <3>2 DEF TypeOK, tables, Steps
    <2>5. CallOK'
      BY <1>0, <1>2, <2>2, <2>3 DEF CallOK, InTransaction
    <2>6. FreshOK'
      BY <1>0, <1>2, <2>2, <2>3 DEF FreshOK, tables
    <2>7. WorkOK'
      BY <1>0, <1>2, <2>2, <2>3 DEF WorkOK, InTransaction, tables
    <2>8. HeldOK'
      BY <1>0, <1>2, <2>2, <2>3 DEF HeldOK, InTransaction, tables, TypeOK
    <2>9. StagedOK'
      <3>1. \A q \in Request : q # p => \A t \in TxnId : rowLock[t] = q => rowLock'[t] = q
        BY <1>0, <1>2, <2>1, <2>2 DEF TypeOK
      <3>2. \A q \in Request : pc[q] \in {"emit", "commit"} /\ body[q].op \in Settling => body[q].txn \in TxnId
        BY <1>0, MenuBodies DEF CallOK, InTransaction
      <3>3. /\ staged'[p].status = NewStatus(body[p].op) /\ staged'[p].entries = {}
            /\ staged'[p].account = None
        BY <2>3 DEF NoWrites
      <3> QED
        BY <1>0, <1>2, <2>1, <2>2, <2>3, <3>1, <3>2, <3>3 DEF StagedOK, StagedAt, tables, Settling
    <2>10. NewAccountOK'
      BY <1>0, <2>2, <2>3 DEF NewAccountOK, tables, NoWrites
    <2>11. ReservedOK'
      <3> SUFFICES ASSUME NEW q \in Request, Checked(q)'
                   PROVE  \A c \in Accounts(work'[q]) :
                            /\ forUpdate'[c] = q
                            /\ transactions'[TxnOf(q)'].status # StatusPosted
                               => Money(Total(On(c, PostedEntries') \cup On(c, work'[q]))) >= 0
        BY DEF ReservedOK
      <3>1. Checked(q)
        BY <1>2, <2>2, <2>3 DEF Checked
      <3>2. work[q] \subseteq Entry /\ UNCHANGED <<tables, body, work, forUpdate>>
        BY <1>0, <2>2 DEF TypeOK
      <3> QED
        BY <1>0, <3>1, <3>2, ReservedKept
    <2> QED
      BY <1>0, <2>2, <2>4, <2>5, <2>6, <2>7, <2>8, <2>9, <2>10, <2>11, TablesKept DEF IInv
  <1> QED
    BY <1>1, <1>2 DEF UpdateStatus, Outcomes, Errors

\* The steps that only stage more of the request's own writes and move it
\* from one step past the check to the next.
LEMMA StagingInv ==
    ASSUME IInv, NEW p \in Request, NEW step \in {"emit", "commit"}, NEW w \in Writes,
           pc[p] \in {"account", "emit"},
           staged' = [staged EXCEPT ![p] = w],
           pc' = [pc EXCEPT ![p] = step],
           UNCHANGED <<tables, locks, body, work, scan, outcome, faults>>,
           \/ /\ pc[p] = "emit"
              /\ w.status = staged[p].status
              /\ w.entries = staged[p].entries
              /\ w.account = staged[p].account
           \/ /\ pc[p] = "account"
              /\ w.status = "absent"
              /\ w.entries = {}
              /\ owner[w.account] = None
              /\ \A q \in Request : staged[q].account # w.account
    PROVE  IInv'
  <1> USE NoneIsNobody
  <1>0. /\ TypeOK /\ CallOK /\ FreshOK /\ EntriesOK /\ WorkOK /\ HeldOK /\ ReservedOK
        /\ StagedOK /\ NewAccountOK /\ PostedWithinTenant
    BY DEF IInv
  <1>1. /\ pc'[p] = step /\ staged'[p] = w
        /\ \A q \in Request : q # p => pc'[q] = pc[q] /\ staged'[q] = staged[q]
    BY <1>0 DEF TypeOK
  <1>2. TypeOK'
    <2>1. staged' \in [Request -> Writes] /\ pc' \in [Request -> Steps]
      BY <1>0 DEF TypeOK, Steps
    <2> QED
      BY <1>0, <2>1 DEF TypeOK, tables, locks
  <1>3. CallOK'
    BY <1>0, <1>1 DEF CallOK, InTransaction
  <1>4. FreshOK'
    BY <1>0, <1>1 DEF FreshOK, tables
  <1>5. WorkOK'
    BY <1>0, <1>1 DEF WorkOK, InTransaction, tables
  <1>6. HeldOK'
    BY <1>0, <1>1 DEF HeldOK, InTransaction, tables, locks, TypeOK
  <1>7. StagedOK'
    <2>1. UNCHANGED <<work, body, transactions, rowLock>>
      BY DEF tables, locks
    <2>2. ASSUME pc[p] = "emit" PROVE StagedAt(p)'
      <3>1. w.status = staged[p].status /\ w.entries = staged[p].entries /\ w.account = staged[p].account
        BY <2>2
      <3>2. StagedAt(p)
        BY <1>0 DEF StagedOK
      <3> QED
        BY <1>1, <2>1, <2>2, <3>1, <3>2 DEF StagedAt
    <2>3. ASSUME pc[p] = "account" PROVE StagedAt(p)'
      <3>1. w.status = "absent" /\ w.entries = {} /\ body[p].op = "CreateAccount"
        BY <1>0, <2>3 DEF CallOK, InTransaction
      <3> QED
        BY <1>1, <2>1, <3>1 DEF StagedAt, Settling
    <2>4. StagedAt(p)'
      BY <2>2, <2>3
    <2>5. ASSUME NEW q \in Request, q # p PROVE StagedAt(q)'
      <3>1. StagedAt(q) /\ pc'[q] = pc[q] /\ staged'[q] = staged[q]
        BY <1>0, <1>1, <2>5 DEF StagedOK
      <3> QED
        BY <2>1, <3>1 DEF StagedAt
    <2> QED
      BY <2>4, <2>5 DEF StagedOK
  <1>8. NewAccountOK'
    <2>1. CASE pc[p] = "emit"
      BY <1>0, <1>1, <2>1 DEF NewAccountOK, tables
    <2>2. CASE pc[p] = "account"
      <3>1. /\ owner[w.account] = None
            /\ \A q \in Request : staged[q].account # w.account
        BY <2>2
      <3> QED
        BY <1>0, <1>1, <3>1 DEF NewAccountOK, tables
    <2> QED
      BY <2>1, <2>2
  <1>9. ReservedOK'
    <2> SUFFICES ASSUME NEW q \in Request, Checked(q)'
                 PROVE  \A c \in Accounts(work'[q]) :
                          /\ forUpdate'[c] = q
                          /\ transactions'[TxnOf(q)'].status # StatusPosted
                             => Money(Total(On(c, PostedEntries') \cup On(c, work'[q]))) >= 0
      BY DEF ReservedOK
    <2>1. pc[p] = "account" => body[p].op = "CreateAccount"
      BY <1>0 DEF CallOK, InTransaction
    <2>2. Checked(q)
      BY <1>1, <2>1 DEF Checked
    <2>3. work[q] \subseteq Entry /\ UNCHANGED <<tables, body, work, forUpdate>>
      BY <1>0 DEF TypeOK, locks
    <2> QED
      BY <1>0, <2>2, <2>3, ReservedKept
  <1> QED
    BY <1>0, <1>2, <1>3, <1>4, <1>5, <1>6, <1>7, <1>8, <1>9, TablesKept DEF IInv

LEMMA InsertAccountInv ==
    ASSUME IInv, NEW p \in Request, InsertAccount(p)
    PROVE  IInv'
  <1>1. PICK a \in Account :
          /\ owner[a] = None
          /\ \A q \in Request : staged[q].account # a
          /\ staged' = [staged EXCEPT ![p] = Written("absent", {}, a, {}, {})]
    BY DEF InsertAccount
  <1>2. Written("absent", {}, a, {}, {}) \in Writes
    BY DEF Writes, Statuses
  <1>3. /\ pc[p] = "account"
        /\ pc' = [pc EXCEPT ![p] = "emit"]
        /\ UNCHANGED <<tables, locks, body, work, scan, outcome, faults>>
    BY DEF InsertAccount
  <1> DEFINE w == Written("absent", {}, a, {}, {})
  <1>4. w.status = "absent" /\ w.entries = {} /\ w.account = a
    OBVIOUS
  <1> HIDE DEF w
  <1> QED
    BY <1>1, <1>2, <1>3, <1>4, StagingInv DEF w

\* The row a request writes is a transaction.
LEMMA TxnOfType ==
    ASSUME CallOK, NEW p \in Request, InTransaction(p)
    PROVE  TxnOf(p) \in TxnId
  BY MenuBodies, NoneIsNobody DEF CallOK, TxnOf

LEMMA EmitAndAuditInv ==
    ASSUME IInv, NEW p \in Request, EmitAndAudit(p)
    PROVE  IInv'
  <1> DEFINE op == body[p].op
             events == IF op = "CreateAccount" THEN {} ELSE { Event(TxnOf(p), EventType(op), p) }
             audits == { Audit(TxnOf(p), AuditAction(op), p) }
             w == Written(staged[p].status, staged[p].entries, staged[p].account, events, audits)
  <1>1. /\ pc[p] = "emit"
        /\ staged' = [staged EXCEPT ![p] = w]
        /\ pc' = [pc EXCEPT ![p] = "commit"]
        /\ UNCHANGED <<tables, locks, body, work, scan, outcome, faults>>
    BY DEF EmitAndAudit
  <1>2. TxnOf(p) \in TxnId /\ p \in TxnId
    BY <1>1, TxnOfType, NoneIsNobody DEF IInv, InTransaction
  <1>3. EventType(op) \in EventTypes /\ AuditAction(op) \in AuditActions
    BY DEF EventType, EventTypes, AuditAction, AuditActions
  <1>4. events \subseteq [txn : TxnId, type : EventTypes, by : TxnId]
    BY <1>2, <1>3 DEF Event
  <1>5. audits \subseteq [txn : TxnId, action : AuditActions, by : TxnId]
    BY <1>2, <1>3 DEF Audit
  <1>6. staged[p] \in Writes
    BY DEF IInv, TypeOK
  <1> HIDE DEF events, audits
  <1>7. w \in Writes
    BY <1>4, <1>5, <1>6 DEF Writes
  <1>8. w.status = staged[p].status /\ w.entries = staged[p].entries /\ w.account = staged[p].account
    OBVIOUS
  <1> HIDE DEF w
  <1> QED
    BY <1>1, <1>7, <1>8, StagingInv

\* What a commit does to the tables, by the kind of call: a new transaction
\* with its entries, a new status of an old one, or a new account.
CommitsNew(p) ==
    /\ body[p].op \in Creating
    /\ transactions[p].status = "absent"
    /\ transactions' = [transactions EXCEPT ![p] =
          [tenant |-> body[p].tenant, status |-> staged[p].status]]
    /\ entries' = entries \cup work[p]
    /\ \A e \in work[p] : e.txn = p /\ e.tenant = body[p].tenant
    /\ staged[p].status = IF body[p].op = "ExecuteTransfer" THEN StatusPosted ELSE StatusPending
    /\ owner' = owner

CommitsStatus(p) ==
    /\ body[p].op \in Settling
    /\ body[p].txn \in TxnId
    /\ rowLock[body[p].txn] = p
    /\ transactions[body[p].txn].status = StatusPending
    /\ transactions[body[p].txn].tenant = body[p].tenant
    /\ transactions' = [transactions EXCEPT ![body[p].txn] =
          [tenant |-> body[p].tenant, status |-> staged[p].status]]
    /\ entries' = entries
    /\ work[p] = { e \in entries : e.txn = body[p].txn }
    /\ staged[p].status = NewStatus(body[p].op)
    /\ owner' = owner

CommitsAccount(p) ==
    /\ body[p].op = "CreateAccount"
    /\ transactions' = transactions
    /\ entries' = entries
    /\ owner' = [a \in Account |-> IF a = staged[p].account THEN body[p].tenant ELSE owner[a]]

LEMMA PublishEffect ==
    ASSUME IInv, NEW p \in Request, pc[p] = "commit", Publish(p)
    PROVE  /\ body[p].tenant \in Tenant
           /\ CommitsNew(p) \/ CommitsStatus(p) \/ CommitsAccount(p)
  <1> USE NoneIsNobody
  <1>0. /\ TypeOK /\ CallOK /\ FreshOK /\ EntriesOK /\ WorkOK /\ HeldOK /\ ReservedOK
        /\ StagedOK /\ NewAccountOK /\ PostedWithinTenant
    BY DEF IInv
  <1>1. /\ body[p] \in Menu /\ body[p].tenant \in Tenant /\ body[p].op \in Operations
        /\ body[p].op \in Settling => body[p].txn \in TxnId
    BY <1>0, MenuBodies DEF CallOK, InTransaction
  <1>2. StagedAt(p) /\ transactions[p].status = "absent"
    BY <1>0 DEF StagedOK, FreshOK
  <1>3. staged[p].account = None => owner' = owner
    BY <1>0 DEF Publish, TypeOK
  <1>4. CASE body[p].op \in Creating
    <2>1. /\ staged[p].entries = work[p] /\ staged[p].account = None
          /\ staged[p].status = IF body[p].op = "ExecuteTransfer" THEN StatusPosted ELSE StatusPending
      BY <1>2, <1>4 DEF StagedAt, Creating
    <2>2. TxnOf(p) = p /\ staged[p].status # "absent"
      BY <1>4, <2>1 DEF TxnOf, Creating, Settling
    <2>3. /\ entries' = entries \cup work[p]
          /\ transactions' = [transactions EXCEPT ![p] =
                [tenant |-> body[p].tenant, status |-> staged[p].status]]
      BY <2>1, <2>2 DEF Publish
    <2>4. \A e \in work[p] : e.txn = p /\ e.tenant = body[p].tenant
      BY <1>0, <1>4 DEF WorkOK, InTransaction
    <2> QED
      BY <1>1, <1>2, <1>3, <1>4, <2>1, <2>3, <2>4 DEF CommitsNew
  <1>5. CASE body[p].op \in Settling
    <2>1. /\ staged[p].entries = {} /\ staged[p].account = None
          /\ staged[p].status = NewStatus(body[p].op)
          /\ rowLock[body[p].txn] = p
          /\ transactions[body[p].txn].status = StatusPending
      BY <1>2, <1>5 DEF StagedAt, Settling
    <2>2. TxnOf(p) = body[p].txn /\ staged[p].status # "absent"
      BY <1>5, <2>1 DEF TxnOf, NewStatus
    <2>3. /\ entries' = entries
          /\ transactions' = [transactions EXCEPT ![body[p].txn] =
                [tenant |-> body[p].tenant, status |-> staged[p].status]]
      BY <2>1, <2>2 DEF Publish
    <2>4. /\ work[p] = { e \in entries : e.txn = body[p].txn }
          /\ transactions[body[p].txn].tenant = body[p].tenant
      BY <1>0, <1>5 DEF WorkOK, InTransaction
    <2> QED
      BY <1>1, <1>3, <1>5, <2>1, <2>3, <2>4 DEF CommitsStatus
  <1>6. CASE body[p].op = "CreateAccount"
    <2>1. staged[p].status = "absent" /\ staged[p].entries = {}
      BY <1>2, <1>6 DEF StagedAt
    <2> QED
      BY <1>1, <1>6, <2>1 DEF Publish, CommitsAccount
  <1> QED
    BY <1>1, <1>4, <1>5, <1>6 DEF Operations

\* A commit posts the request's own entries or none.
LEMMA PublishPosts ==
    ASSUME IInv, NEW p \in Request, pc[p] = "commit", Publish(p)
    PROVE  \/ PostedEntries' = PostedEntries
           \/ /\ Checked(p)
              /\ PostedEntries' = PostedEntries \cup work[p]
              /\ transactions[TxnOf(p)].status # StatusPosted
              /\ \A e \in work[p] : transactions'[e.txn].tenant = body[p].tenant
  <1> USE NoneIsNobody
  <1>0. /\ TypeOK /\ CallOK /\ FreshOK /\ EntriesOK /\ WorkOK /\ HeldOK /\ ReservedOK
        /\ StagedOK /\ NewAccountOK /\ PostedWithinTenant
    BY DEF IInv
  <1>1. /\ \A e \in entries : e.txn \in TxnId /\ transactions[e.txn].status # "absent"
        /\ \A e \in work[p] : e.txn \in TxnId
        /\ transactions \in [TxnId -> [tenant : Tenant \cup {None}, status : Statuses]]
        /\ p \in TxnId
    BY <1>0 DEF TypeOK, Entry, EntriesOK
  <1>2. CASE body[p].op = "ExecuteTransfer"
    <2>1. /\ transactions[p].status = "absent"
          /\ transactions' = [transactions EXCEPT ![p] =
                [tenant |-> body[p].tenant, status |-> StatusPosted]]
          /\ entries' = entries \cup work[p]
          /\ \A e \in work[p] : e.txn = p
      BY <1>2, PublishEffect DEF Creating, Settling, CommitsNew, CommitsStatus, CommitsAccount
    <2>2. PostedEntries' = PostedEntries \cup work[p]
      BY <1>1, <2>1 DEF PostedEntries
    <2> QED
      BY <1>1, <1>2, <2>1, <2>2 DEF Checked, TxnOf, Settling
  <1>3. CASE body[p].op = "CreatePendingTransaction"
    <2>1. /\ transactions[p].status = "absent"
          /\ transactions' = [transactions EXCEPT ![p] =
                [tenant |-> body[p].tenant, status |-> StatusPending]]
          /\ entries' = entries \cup work[p]
          /\ \A e \in work[p] : e.txn = p
      BY <1>3, PublishEffect DEF Creating, Settling, CommitsNew, CommitsStatus, CommitsAccount
    <2> QED
      BY <1>1, <2>1 DEF PostedEntries
  <1>4. CASE body[p].op = "PostPendingTransaction"
    <2>1. /\ body[p].txn \in TxnId
          /\ transactions[body[p].txn].status = StatusPending
          /\ transactions' = [transactions EXCEPT ![body[p].txn] =
                [tenant |-> body[p].tenant, status |-> StatusPosted]]
          /\ entries' = entries
          /\ work[p] = { e \in entries : e.txn = body[p].txn }
      BY <1>4, PublishEffect DEF Creating, Settling, CommitsNew, CommitsStatus, CommitsAccount, NewStatus
    <2>2. PostedEntries' = PostedEntries \cup work[p]
      BY <1>1, <2>1 DEF PostedEntries
    <2> QED
      BY <1>1, <1>4, <2>1, <2>2 DEF Checked, TxnOf, Settling
  <1>5. CASE body[p].op = "FailPendingTransaction"
    <2>1. /\ body[p].txn \in TxnId
          /\ transactions[body[p].txn].status = StatusPending
          /\ transactions' = [transactions EXCEPT ![body[p].txn] =
                [tenant |-> body[p].tenant, status |-> StatusFailed]]
          /\ entries' = entries
      BY <1>5, PublishEffect DEF Creating, Settling, CommitsNew, CommitsStatus, CommitsAccount, NewStatus
    <2> QED
      BY <1>1, <2>1 DEF PostedEntries
  <1>6. CASE body[p].op = "CreateAccount"
    <2>1. transactions' = transactions /\ entries' = entries
      BY <1>6, PublishEffect DEF Creating, Settling, CommitsNew, CommitsStatus, CommitsAccount
    <2> QED
      BY <2>1 DEF PostedEntries
  <1>7. body[p].op \in Operations
    BY <1>0, MenuBodies DEF CallOK, InTransaction
  <1> QED
    BY <1>2, <1>3, <1>4, <1>5, <1>6, <1>7 DEF Operations, Creating, Settling

LEMMA CommitInv ==
    ASSUME IInv, NEW p \in Request, NEW r \in Outcomes, pc[p] = "commit",
           Publish(p), Finish(p, r), UNCHANGED <<body, work>>, faults' \in 0 .. MaxFaults
    PROVE  IInv'
  <1> USE NoneIsNobody
  <1>0. /\ TypeOK /\ CallOK /\ FreshOK /\ EntriesOK /\ WorkOK /\ HeldOK /\ ReservedOK
        /\ StagedOK /\ NewAccountOK /\ PostedWithinTenant
    BY DEF IInv
  <1>1. \A q \in Request : q # p => pc'[q] = pc[q] /\ staged'[q] = staged[q] /\ scan'[q] = scan[q]
    BY <1>0 DEF TypeOK, Finish
  <1>2. pc'[p] = "done" /\ staged'[p] = NoWrites /\ scan'[p] = {}
    BY <1>0 DEF TypeOK, Finish
  <1>3. /\ \A a \in Account : forUpdate'[a] = IF forUpdate[a] = p THEN None ELSE forUpdate[a]
        /\ \A t \in TxnId : rowLock'[t] = IF rowLock[t] = p THEN None ELSE rowLock[t]
    BY DEF Finish, Release
  <1>e. /\ body[p].tenant \in Tenant
        /\ CommitsNew(p) \/ CommitsStatus(p) \/ CommitsAccount(p)
    BY PublishEffect
  <1>t. /\ transactions \in [TxnId -> [tenant : Tenant \cup {None}, status : Statuses]]
        /\ owner \in [Account -> Tenant \cup {None}]
        /\ staged[p] \in Writes /\ p \in TxnId
        /\ entries \subseteq Entry /\ work[p] \subseteq Entry
    BY <1>0 DEF TypeOK
  <1>4. /\ \A a \in Account : owner[a] # None => owner'[a] = owner[a]
        /\ \A a \in Account : owner'[a] # owner[a] => a = staged[p].account
    <2>1. CASE CommitsNew(p) \/ CommitsStatus(p)
      BY <2>1 DEF CommitsNew, CommitsStatus
    <2>2. CASE CommitsAccount(p)
      <3>1. staged[p].account # None => owner[staged[p].account] = None
        BY <1>0 DEF NewAccountOK
      <3> QED
        BY <1>t, <2>2, <3>1 DEF CommitsAccount
    <2> QED
      BY <1>e, <2>1, <2>2
  \* How each row of transactions may change.
  <1>5. \A t \in TxnId :
          \/ transactions'[t] = transactions[t]
          \/ /\ t = p
             /\ transactions[t].status = "absent"
             /\ transactions'[t].tenant = body[p].tenant
             /\ transactions'[t].status \in {StatusPending, StatusPosted}
          \/ /\ rowLock[t] = p
             /\ transactions[t].status = StatusPending
             /\ transactions'[t].tenant = transactions[t].tenant
             /\ transactions'[t].status \in {StatusPosted, StatusFailed}
    <2>1. CASE CommitsNew(p)
      BY <1>t, <2>1 DEF CommitsNew
    <2>2. CASE CommitsStatus(p)
      BY <1>t, <2>2 DEF CommitsStatus, NewStatus
    <2>3. CASE CommitsAccount(p)
      BY <2>3 DEF CommitsAccount
    <2> QED
      BY <1>e, <2>1, <2>2, <2>3
  <1>6. /\ entries \subseteq entries'
        /\ \A e \in entries' : e \in entries \/ (CommitsNew(p) /\ e \in work[p])
        /\ \A e \in entries' : e \in entries \/ (e.txn = p /\ transactions[p].status = "absent")
    <2>1. CASE CommitsNew(p)
      BY <2>1 DEF CommitsNew
    <2>2. CASE CommitsStatus(p) \/ CommitsAccount(p)
      BY <2>2 DEF CommitsStatus, CommitsAccount
    <2> QED
      BY <1>e, <2>1, <2>2
  <1>7. TypeOK'
    <2>1. transactions' \in [TxnId -> [tenant : Tenant \cup {None}, status : Statuses]]
      <3>1. [tenant |-> body[p].tenant, status |-> staged[p].status]
            \in [tenant : Tenant \cup {None}, status : Statuses]
        BY <1>e, <1>t DEF Writes
      <3> QED
        BY <1>e, <1>t, <3>1 DEF CommitsNew, CommitsStatus, CommitsAccount
    <2>2. owner' \in [Account -> Tenant \cup {None}] /\ entries' \subseteq Entry
      BY <1>e, <1>t, <1>6 DEF CommitsNew, CommitsStatus, CommitsAccount
    <2>3. /\ outbox' \subseteq [txn : TxnId, type : EventTypes, by : TxnId]
          /\ auditLog' \subseteq [txn : TxnId, action : AuditActions, by : TxnId]
      BY <1>0 DEF TypeOK, Writes, Publish
    <2>4. /\ forUpdate' \in [Account -> Request \cup {None}]
          /\ keyShare' \in [Account -> SUBSET Request]
          /\ rowLock' \in [TxnId -> Request \cup {None}]
      BY <1>0 DEF TypeOK, Finish, Release
    <2>5. NoWrites \in Writes
      BY DEF NoWrites, Writes, Statuses
    <2>6. /\ pc' \in [Request -> Steps] /\ staged' \in [Request -> Writes]
          /\ scan' \in [Request -> SUBSET Account] /\ outcome' \in [Request -> Outcomes]
      BY <1>0, <2>5 DEF TypeOK, Finish, Steps
    <2> QED
      BY <1>0, <2>1, <2>2, <2>3, <2>4, <2>6 DEF TypeOK
  <1>8. CallOK'
    BY <1>0, <1>1, <1>2 DEF CallOK, InTransaction
  <1>9. FreshOK'
    BY <1>0, <1>1, <1>2, <1>5 DEF FreshOK
  <1>10. EntriesOK'
    <2>1. \A e \in entries' : /\ transactions'[e.txn].status # "absent"
                              /\ e.tenant = transactions'[e.txn].tenant
      <3> SUFFICES ASSUME NEW e \in entries'
                   PROVE  /\ transactions'[e.txn].status # "absent"
                          /\ e.tenant = transactions'[e.txn].tenant
        OBVIOUS
      <3>1. CASE e \in entries
        <4>1. /\ e.txn \in TxnId /\ transactions[e.txn].status # "absent"
              /\ e.tenant = transactions[e.txn].tenant
          BY <1>0, <3>1 DEF TypeOK, Entry, EntriesOK
        <4> QED
          BY <1>5, <4>1
      <3>2. CASE e \notin entries
        <4>1. CommitsNew(p) /\ e \in work[p]
          BY <1>6, <3>2
        <4> QED
          BY <1>t, <4>1 DEF CommitsNew
      <3> QED
        BY <3>1, <3>2
    <2>2. \A t \in TxnId : transactions'[t].status # "absent" => transactions'[t].tenant \in Tenant
      BY <1>0, <1>5, <1>e DEF EntriesOK
    <2> QED
      BY <2>1, <2>2 DEF EntriesOK
  <1>11. WorkOK'
    <2> SUFFICES ASSUME NEW q \in Request, q # p, InTransaction(q)
                 PROVE  /\ body[q].op \in Creating =>
                             \A e \in work[q] : e.txn = q /\ e.tenant = body[q].tenant
                        /\ body[q].op \in Settling /\ pc[q] # "load" =>
                             /\ work[q] = { e \in entries' : e.txn = body[q].txn }
                             /\ transactions'[body[q].txn].status # "absent"
                             /\ transactions'[body[q].txn].tenant = body[q].tenant
      BY <1>1, <1>2 DEF WorkOK, InTransaction
    <2>1. body[q].op \in Creating => \A e \in work[q] : e.txn = q /\ e.tenant = body[q].tenant
      BY <1>0 DEF WorkOK
    <2>2. ASSUME body[q].op \in Settling, pc[q] # "load"
          PROVE  /\ work[q] = { e \in entries' : e.txn = body[q].txn }
                 /\ transactions'[body[q].txn].status # "absent"
                 /\ transactions'[body[q].txn].tenant = body[q].tenant
      <3>1. /\ work[q] = { e \in entries : e.txn = body[q].txn }
            /\ transactions[body[q].txn].status # "absent"
            /\ transactions[body[q].txn].tenant = body[q].tenant
            /\ body[q].txn \in TxnId
        BY <1>0, <2>2, MenuBodies DEF WorkOK, CallOK
      <3> QED
        BY <1>5, <1>6, <3>1
    <2> QED
      BY <2>1, <2>2
  <1>12. HeldOK'
    <2>1. \A q \in Request : InTransaction(q) => body[q].tenant \in Tenant
      BY <1>0, MenuBodies DEF CallOK
    <2>2. ASSUME NEW a \in Account, forUpdate'[a] # None
          PROVE  pc'[forUpdate'[a]] \notin {"idle", "done"} /\ owner'[a] = body[forUpdate'[a]].tenant
      <3>1. forUpdate'[a] = forUpdate[a] /\ forUpdate[a] # p /\ forUpdate[a] \in Request
        BY <1>0, <1>3, <2>2 DEF TypeOK
      <3>2. InTransaction(forUpdate[a]) /\ owner[a] = body[forUpdate[a]].tenant
        BY <1>0, <2>2, <3>1 DEF HeldOK
      <3>3. owner'[a] = body[forUpdate[a]].tenant
        BY <1>4, <2>1, <3>1, <3>2
      <3>4. pc'[forUpdate[a]] \notin {"idle", "done"}
        BY <1>1, <3>1, <3>2 DEF InTransaction
      <3> QED
        BY <3>1, <3>3, <3>4
    <2>3. ASSUME NEW q \in Request, NEW a \in scan'[q]
          PROVE  pc'[q] = "lock" /\ owner'[a] = body[q].tenant
      <3>1. q # p /\ a \in scan[q] /\ a \in Account
        BY <1>0, <1>1, <1>2, <2>3 DEF TypeOK
      <3>2. pc[q] = "lock" /\ owner[a] = body[q].tenant
        BY <1>0, <3>1 DEF HeldOK
      <3> QED
        BY <1>1, <1>4, <2>1, <3>1, <3>2 DEF InTransaction
    <2> QED
      BY <2>2, <2>3 DEF HeldOK, InTransaction
  <1>13. ReservedOK'
    <2> SUFFICES ASSUME NEW q \in Request, Checked(q)', NEW a \in Accounts(work'[q])
                 PROVE  /\ forUpdate'[a] = q
                        /\ transactions'[TxnOf(q)'].status # StatusPosted
                           => Money(Total(On(a, PostedEntries') \cup On(a, work'[q]))) >= 0
      BY DEF ReservedOK
    <2>1. Checked(q) /\ q # p /\ a \in Accounts(work[q]) /\ a \in Account /\ TxnOf(q)' = TxnOf(q)
      BY <1>0, <1>1, <1>2 DEF Checked, Accounts, TypeOK, Entry, TxnOf
    <2>2. forUpdate[a] = q /\ forUpdate'[a] = q
      BY <1>0, <1>3, <2>1 DEF ReservedOK
    <2>3. On(a, PostedEntries') = On(a, PostedEntries)
      <3>1. CASE PostedEntries' = PostedEntries
        BY <3>1
      <3>2. CASE Checked(p) /\ PostedEntries' = PostedEntries \cup work[p]
        <4>1. \A e \in work[p] : forUpdate[e.account] = p
          BY <1>0, <3>2 DEF ReservedOK, Accounts
        <4> QED
          BY <2>1, <2>2, <3>2, <4>1 DEF On
      <3> QED
        BY <3>1, <3>2, PublishPosts
    <2>4. TxnOf(q) \in TxnId
      BY <1>0, <2>1, TxnOfType DEF Checked, InTransaction
    <2>5. transactions'[TxnOf(q)].status # StatusPosted => transactions[TxnOf(q)].status # StatusPosted
      BY <1>5, <2>4
    <2> QED
      BY <1>0, <2>1, <2>2, <2>3, <2>5 DEF ReservedOK
  <1>14. StagedOK'
    <2>1. StagedAt(p)'
      BY <1>2 DEF StagedAt
    <2>2. ASSUME NEW q \in Request, q # p PROVE StagedAt(q)'
      <3>1. StagedAt(q) /\ pc'[q] = pc[q] /\ staged'[q] = staged[q]
        BY <1>0, <1>1, <2>2 DEF StagedOK
      <3>2. ASSUME pc[q] \in {"emit", "commit"}, body[q].op \in Settling
            PROVE  rowLock'[body[q].txn] = q /\ transactions'[body[q].txn].status = StatusPending
        <4>1. rowLock[body[q].txn] = q /\ transactions[body[q].txn].status = StatusPending
          BY <3>1, <3>2 DEF StagedAt
        <4>2. body[q].txn \in TxnId
          BY <1>0, <3>2, MenuBodies DEF CallOK, InTransaction
        <4> QED
          BY <1>3, <1>5, <2>2, <4>1, <4>2
      <3> QED
        BY <3>1, <3>2 DEF StagedAt
    <2> QED
      BY <2>1, <2>2 DEF StagedOK
  <1>15. NewAccountOK'
    <2> SUFFICES ASSUME NEW q \in Request, staged'[q].account # None
                 PROVE  /\ owner'[staged'[q].account] = None
                        /\ \A o \in Request : staged'[o].account = staged'[q].account => o = q
      BY DEF NewAccountOK
    <2>1. NoWrites.account = None
      BY DEF NoWrites
    <2>2. q # p /\ staged'[q] = staged[q] /\ staged[q].account \in Account
      BY <1>0, <1>1, <1>2, <2>1 DEF TypeOK, Writes
    <2>3. /\ owner[staged[q].account] = None
          /\ \A o \in Request : staged[o].account = staged[q].account => o = q
      BY <1>0, <2>2 DEF NewAccountOK
    <2>4. owner'[staged[q].account] = None
      BY <1>4, <2>2, <2>3
    <2> QED
      BY <1>1, <1>2, <2>1, <2>2, <2>3, <2>4
  <1>16. PostedWithinTenant'
    <2> SUFFICES ASSUME NEW e \in PostedEntries' PROVE owner'[e.account] = transactions'[e.txn].tenant
      BY DEF PostedWithinTenant
    <2>1. ASSUME e \in PostedEntries PROVE owner'[e.account] = transactions'[e.txn].tenant
      <3>1. /\ e \in entries /\ e.txn \in TxnId /\ e.account \in Account
            /\ transactions[e.txn].status = StatusPosted
        BY <1>0, <2>1 DEF PostedEntries, TypeOK, Entry
      <3>2. owner[e.account] = transactions[e.txn].tenant /\ transactions[e.txn].tenant \in Tenant
        BY <1>0, <2>1, <3>1 DEF PostedWithinTenant, EntriesOK
      <3> QED
        BY <1>4, <1>5, <3>1, <3>2
    <2>2. ASSUME e \notin PostedEntries PROVE owner'[e.account] = transactions'[e.txn].tenant
      <3>1. Checked(p) /\ e \in work[p] /\ transactions'[e.txn].tenant = body[p].tenant
        BY <2>2, PublishPosts
      <3>2. e.account \in Accounts(work[p]) /\ e.account \in Account
        BY <1>t, <3>1 DEF Accounts, Entry
      <3>4. forUpdate[e.account] = p
        BY <1>0, <3>1, <3>2 DEF ReservedOK
      <3>3. owner[e.account] = body[p].tenant /\ body[p].tenant \in Tenant
        BY <1>0, <1>e, <3>2, <3>4 DEF HeldOK
      <3> QED
        BY <1>4, <3>1, <3>2, <3>3
    <2> QED
      BY <2>1, <2>2
  <1> QED
    BY <1>7, <1>8, <1>9, <1>10, <1>11, <1>12, <1>13, <1>14, <1>15, <1>16 DEF IInv

-----------------------------------------------------------------------------
\* Stuttering changes nothing.
LEMMA StutterInv == IInv /\ UNCHANGED vars => IInv'
  <1> SUFFICES ASSUME IInv, UNCHANGED vars PROVE IInv'
    OBVIOUS
  <1>1. UNCHANGED tables /\ PostedEntries' = PostedEntries
    BY TablesKept DEF vars
  <1>2. TypeOK' /\ CallOK' /\ FreshOK' /\ WorkOK' /\ HeldOK'
    BY DEF IInv, vars, tables, locks, TypeOK, CallOK, FreshOK, WorkOK, HeldOK, InTransaction
  <1>3. StagedOK' /\ NewAccountOK'
    BY DEF IInv, vars, tables, locks, StagedOK, StagedAt, NewAccountOK
  <1>4. ReservedOK'
    BY <1>1 DEF IInv, vars, tables, locks, ReservedOK, Checked, TxnOf
  <1> QED
    BY <1>1, <1>2, <1>3, <1>4, TablesKept DEF IInv

\* Every step of the specification preserves the inductive invariant.
LEMMA NextInv == IInv /\ [Next]_vars => IInv'
  <1> SUFFICES ASSUME IInv, Next PROVE IInv'
    BY StutterInv
  <1>0. TypeOK
    BY DEF IInv
  <1>1. ASSUME NEW p \in Request, NEW b \in Menu, Receive(p, b) PROVE IInv'
    BY <1>1, ReceiveInv
  <1>2. ASSUME NEW p \in Request, Step(p) PROVE IInv'
    <2>1. CASE Commit(p)
      BY <1>0, <2>1, CommitInv DEF Commit, TypeOK, Outcomes
    <2> QED
      BY <1>2, <2>1, LoadTransactionInv, LockAccountInv, ReadBalancesInv, InsertEntryInv,
         UpdateStatusInv, InsertAccountInv, EmitAndAuditInv DEF Step
  <1>3. ASSUME NEW p \in Request, CommitUnacknowledged(p) PROVE IInv'
    <2>1. faults' \in 0 .. MaxFaults
      BY <1>0, <1>3, MenuAssumption DEF CommitUnacknowledged, TypeOK
    <2> QED
      BY <1>3, <2>1, CommitInv DEF CommitUnacknowledged, Outcomes
  <1>4. ASSUME NEW p \in Request, Fault(p) PROVE IInv'
    <2>1. faults' \in 0 .. MaxFaults
      BY <1>0, <1>4, MenuAssumption DEF Fault, TypeOK
    <2> QED
      BY <1>4, <2>1, RollbackInv DEF Fault, Outcomes
  <1>5. ASSUME NEW p \in Request, DeadlockDetected(p) PROVE IInv'
    BY <1>0, <1>5, RollbackInv DEF DeadlockDetected, Rollback, TypeOK, Outcomes
  <1>6. CASE Idle
    BY <1>6, StutterInv DEF Idle
  <1> QED
    BY <1>1, <1>2, <1>3, <1>4, <1>5, <1>6 DEF Next

\* The inductive invariant holds in every reachable state.
THEOREM InductiveInvariant == Spec => []IInv
  BY InitInv, NextInv, PTL DEF Spec

\* Every variable of the ledger keeps its type, whatever calls run together
\* and wherever they fail.
THEOREM TypeCorrect == Spec => []TypeOK
  <1>1. IInv => TypeOK
    BY DEF IInv
  <1> QED
    BY <1>1, InductiveInvariant, PTL

\* What is posted stays within one tenant, although a pending transaction may
\* name accounts of another.
THEOREM PostingStaysWithinTenant == Spec => []PostedWithinTenant
  <1>1. IInv => PostedWithinTenant
    BY DEF IInv
  <1> QED
    BY <1>1, InductiveInvariant, PTL

=============================================================================
