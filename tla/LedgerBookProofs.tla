-------------------------- MODULE LedgerBookProofs --------------------------
(***************************************************************************)
(* More about Ledger for every value of its constants: the outbox and the  *)
(* audit log agree with the tables, answers are honest, a transaction      *)
(* settles once, lock waits need a pending call to form a cycle, and the   *)
(* whole implements the atomic ledger of Book.  Money is conserved and no  *)
(* balance goes negative as long as no sum leaves the range of int64.      *)
(***************************************************************************)
EXTENDS LedgerProofs, LedgerSums

\* What a request is about to report: nothing before its last statements,
\* then one event and one audit row, or an audit row alone.
ReportsAt(p) ==
    /\ pc[p] # "commit" => staged[p].events = {} /\ staged[p].audits = {}
    /\ pc[p] = "commit" =>
          /\ staged[p].events = IF body[p].op = "CreateAccount" THEN {}
                                ELSE { Event(TxnOf(p), EventType(body[p].op), p) }
          /\ staged[p].audits = { Audit(TxnOf(p), AuditAction(body[p].op), p) }
    /\ pc[p] \in {"emit", "commit"} /\ body[p].op = "CreateAccount" => staged[p].account # None
    /\ \A e \in staged[p].entries : owner[e.account] # None
ReportsOK == \A p \in Request : ReportsAt(p)

\* A request that creates a transaction works on the validated lines of its call.
NewWorkOK ==
    \A p \in Request : InTransaction(p) /\ body[p].op \in Creating =>
        /\ work[p] = EntriesOf(p, body[p].tenant, body[p].lines)
        /\ ValidateEntries(body[p].lines) = "ok"

\* A request has an outcome once it is over; what it reported is committed
\* by then, and a success was reported.
AnswersOK ==
    \A p \in Request :
        /\ pc[p] = "done" <=> outcome[p] # "none"
        /\ \A x \in auditLog : x.by = p => outcome[p] \in {"ok", "internal"}
        /\ outcome[p] = "ok" =>
              /\ \E x \in auditLog : x.by = p
              /\ body[p] \in Menu
              /\ body[p].op \in {"ExecuteTransfer", "PostPendingTransaction"} =>
                    transactions[TxnOf(p)].status = StatusPosted
              /\ body[p].op = "FailPendingTransaction" =>
                    transactions[TxnOf(p)].status = StatusFailed

\* The events of one type about one transaction.
Reported(t, type) == { e \in outbox : e.txn = t /\ e.type = type }

\* Each status was reached through one event, and no event is ahead of it.
EventsAt(t) ==
    /\ transactions[t].status = StatusPosted =>
          \E e \in outbox : Reported(t, EventTransactionPosted) = {e}
    /\ transactions[t].status # StatusPosted => Reported(t, EventTransactionPosted) = {}
    /\ transactions[t].status = StatusFailed =>
          \E e \in outbox : Reported(t, EventTransactionFailed) = {e}
    /\ transactions[t].status # StatusFailed => Reported(t, EventTransactionFailed) = {}
    /\ transactions[t].status \in {StatusPending, StatusFailed} =>
          \E e \in outbox : Reported(t, EventTransactionPending) = {e}
    /\ transactions[t].status = "absent" => Reported(t, EventTransactionPending) = {}
EventsOK == \A t \in TxnId \ (SeedTxn \ SeedPending) : EventsAt(t)

\* Events and audit rows come from the same requests.
SameAuthors ==
    { e.by : e \in outbox } = { x.by : x \in { y \in auditLog : y.action # "account.created" } }

\* The audit row of a settlement is there only once the row is settled.
SettlementsOK ==
    \A x \in auditLog : x.action \in {"transaction.posted", "transaction.failed"} =>
        transactions[x.txn].status \in {StatusPosted, StatusFailed}

\* Accounts are locked in the order of their ids, none before the transaction
\* is loaded; foreign-key locks are taken after them, and the lock of a
\* transaction row last of all.
LocksOK ==
    /\ \A p \in Request, a \in Account : forUpdate[a] = p => pc[p] # "load"
    /\ \A p \in Request, a \in Account : \A b \in scan[p] : forUpdate[a] = p => a < b
    /\ \A a \in Account : \A p \in keyShare[a] : pc[p] \in {"insert", "emit", "commit"}
    /\ \A t \in TxnId : rowLock[t] # None => pc[rowLock[t]] \in {"emit", "commit"}

\* The inductive invariant, on top of that of LedgerProofs.
BookInv ==
    /\ ReportsOK
    /\ NewWorkOK
    /\ AnswersOK
    /\ EventsOK
    /\ SameAuthors
    /\ SettlementsOK
    /\ SettledOnce
    /\ LocksOK

-----------------------------------------------------------------------------
USE DEF StatusPending, StatusPosted, StatusFailed, Written

\* Nothing staged is nothing to report.
LEMMA NoReports ==
    /\ NoWrites.events = {} /\ NoWrites.audits = {} /\ NoWrites.entries = {}
    /\ \A p \in Request : staged[p] = NoWrites /\ pc[p] \notin {"emit", "commit"} => ReportsAt(p)
  <1>1. NoWrites.events = {} /\ NoWrites.audits = {} /\ NoWrites.entries = {}
    BY DEF NoWrites
  <1> QED
    BY <1>1 DEF ReportsAt

\* The reports of a request that goes on, or has nothing staged any more.
LEMMA ReportsKept ==
    ASSUME NEW p \in Request, ReportsAt(p), UNCHANGED owner,
           body'[p] = body[p], pc'[p] = pc[p], staged'[p] = staged[p]
    PROVE  ReportsAt(p)'
  BY DEF ReportsAt, TxnOf

LEMMA NoReportsAfter ==
    ASSUME NEW p \in Request, staged'[p] = NoWrites, pc'[p] \notin {"emit", "commit"}
    PROVE  ReportsAt(p)'
  BY NoReports DEF ReportsAt

\* The initial tables satisfy it.
LEMMA InitBookInv == Init => BookInv
  <1> SUFFICES ASSUME Init PROVE BookInv
    OBVIOUS
  <1> USE ConstantsAssumption, NoneIsNobody
  <1>1. ReportsOK
    BY NoReports DEF Init, ReportsOK
  <1>2. NewWorkOK
    BY DEF Init, NewWorkOK, InTransaction
  <1>3. AnswersOK
    <2>1. \A x \in auditLog : x.by \in SeedTxn
      BY DEF Init, Audit
    <2> QED
      BY <2>1 DEF Init, AnswersOK
  <1>4. EventsOK
    <2> SUFFICES ASSUME NEW t \in TxnId \ (SeedTxn \ SeedPending)
                 PROVE  EventsAt(t)
      BY DEF EventsOK
    <2>1. outbox = { Event(s, EventTransactionPending, s) : s \in SeedPending }
      BY DEF Init
    <2>2. \A e \in outbox : e.txn \in SeedPending /\ e.type = EventTransactionPending
      BY <2>1 DEF Event
    <2>3. /\ Reported(t, EventTransactionPosted) = {}
          /\ Reported(t, EventTransactionFailed) = {}
          /\ t \notin SeedPending => Reported(t, EventTransactionPending) = {}
      BY <2>2 DEF Reported, EventTransactionPending, EventTransactionPosted, EventTransactionFailed
    <2>4. ASSUME t \in SeedPending
          PROVE  \E e \in outbox : Reported(t, EventTransactionPending) = {e}
      <3>1. Event(t, EventTransactionPending, t) \in outbox
        BY <2>1, <2>4
      <3>2. Reported(t, EventTransactionPending) = { Event(t, EventTransactionPending, t) }
        BY <2>1, <2>4 DEF Reported, Event
      <3> QED
        BY <3>1, <3>2
    <2>5. /\ t \in SeedPending => transactions[t].status = StatusPending
          /\ t \notin SeedPending => transactions[t].status = "absent"
      BY DEF Init, TxnId, NoRow
    <2> QED
      BY <2>3, <2>4, <2>5 DEF EventsAt
  <1>5. SameAuthors
    <2>1. outbox = { Event(t, EventTransactionPending, t) : t \in SeedPending }
      BY DEF Init
    <2>2. auditLog = { Audit(t, "transaction.pending_created", t) : t \in SeedPending }
      BY DEF Init
    <2>3. { e.by : e \in outbox } = SeedPending
      <3>1. \A t \in SeedPending : Event(t, EventTransactionPending, t).by = t
        BY DEF Event
      <3> QED
        BY <2>1, <3>1
    <2>4. { y \in auditLog : y.action # "account.created" } = auditLog
      BY <2>2 DEF Audit
    <2>5. { x.by : x \in auditLog } = SeedPending
      <3>1. \A t \in SeedPending : Audit(t, "transaction.pending_created", t).by = t
        BY DEF Audit
      <3> QED
        BY <2>2, <3>1
    <2> QED
      BY <2>3, <2>4, <2>5 DEF SameAuthors
  <1>6. SettlementsOK /\ SettledOnce
    <2>1. \A x \in auditLog : x.action = "transaction.pending_created"
      BY DEF Init, Audit
    <2> QED
      BY <2>1 DEF SettlementsOK, SettledOnce
  <1>7. LocksOK
    BY DEF Init, LocksOK
  <1> QED
    BY <1>1, <1>2, <1>3, <1>4, <1>5, <1>6, <1>7 DEF BookInv

-----------------------------------------------------------------------------
\* As long as the tables stay, so does what the answers say of them.
LEMMA TablesReported ==
    ASSUME BookInv, UNCHANGED tables
    PROVE  EventsOK' /\ SameAuthors' /\ SettlementsOK' /\ SettledOnce'
  BY DEF BookInv, tables, EventsOK, EventsAt, Reported, SameAuthors, SettlementsOK, SettledOnce

\* A statement that keeps its transaction open changes nothing but the
\* request's own state and its locks.
Works(p) ==
    /\ pc[p] \notin {"idle", "done"} /\ pc'[p] \notin {"idle", "done"}
    /\ \A q \in Request : q # p => /\ pc'[q] = pc[q] /\ work'[q] = work[q]
                                    /\ scan'[q] = scan[q] /\ staged'[q] = staged[q]
    /\ UNCHANGED <<tables, body, outcome>>
    /\ body[p].op \in Creating => work'[p] = work[p]

LEMMA WorksInv ==
    ASSUME BookInv, NEW p \in Request, Works(p), ReportsAt(p)', LocksOK'
    PROVE  BookInv'
  <1>1. EventsOK' /\ SameAuthors' /\ SettlementsOK' /\ SettledOnce'
    BY TablesReported DEF Works
  <1>2. ReportsOK'
    BY ReportsKept DEF BookInv, Works, tables, ReportsOK
  <1>3. NewWorkOK'
    BY DEF BookInv, Works, NewWorkOK, InTransaction
  <1>4. AnswersOK'
    BY DEF BookInv, Works, AnswersOK, tables, TxnOf
  <1> QED
    BY <1>1, <1>2, <1>3, <1>4 DEF BookInv

\* A request that ends without a commit has reported nothing.
LEMMA EndsInv ==
    ASSUME IInv, BookInv, NEW p \in Request, NEW r \in Errors \cup {"internal"},
           InTransaction(p), Finish(p, r), UNCHANGED <<tables, body, work>>
    PROVE  BookInv'
  <1> USE NoneIsNobody
  <1>0. TypeOK
    BY DEF IInv
  <1>1. EventsOK' /\ SameAuthors' /\ SettlementsOK' /\ SettledOnce'
    BY TablesReported
  <1>2. /\ \A q \in Request : q # p => /\ pc'[q] = pc[q] /\ staged'[q] = staged[q]
                                        /\ scan'[q] = scan[q] /\ outcome'[q] = outcome[q]
        /\ pc'[p] = "done" /\ staged'[p] = NoWrites /\ scan'[p] = {} /\ outcome'[p] = r
    BY <1>0 DEF TypeOK, Finish
  <1>3. ReportsOK'
    BY <1>2, ReportsKept, NoReportsAfter DEF BookInv, tables, ReportsOK
  <1>4. NewWorkOK'
    BY <1>2 DEF BookInv, NewWorkOK, InTransaction
  <1>5. AnswersOK'
    <2>1. r \notin {"none", "ok"}
      BY DEF Errors
    <2>2. \A x \in auditLog : x.by # p
      <3>1. outcome[p] = "none"
        BY DEF BookInv, AnswersOK, InTransaction
      <3> QED
        BY <3>1 DEF BookInv, AnswersOK
    <2> QED
      BY <1>2, <2>1, <2>2 DEF BookInv, AnswersOK, tables, TxnOf
  <1>6. LocksOK'
    BY <1>0, <1>2 DEF BookInv, LocksOK, TypeOK, Finish, Release
  <1> QED
    BY <1>1, <1>3, <1>4, <1>5, <1>6 DEF BookInv

LEMMA ReceiveBook ==
    ASSUME IInv, BookInv, NEW p \in Request, NEW b \in Menu, Receive(p, b)
    PROVE  BookInv'
  <1> USE NoneIsNobody
  <1> DEFINE E == EntriesOf(p, b.tenant, b.lines)
             v == IF b.op \in Creating THEN ValidateEntries(b.lines) ELSE "ok"
  <1>0. TypeOK /\ StagedOK /\ HeldOK
    BY DEF IInv
  <1>1. v \in Errors \cup {"ok"}
    BY DEF ValidateEntries, Errors
  <1>2. /\ pc[p] = "idle" /\ UNCHANGED <<tables, locks, staged>>
        /\ \A q \in Request : q # p => /\ pc'[q] = pc[q] /\ work'[q] = work[q]
                                        /\ scan'[q] = scan[q] /\ outcome'[q] = outcome[q]
                                        /\ body'[q] = body[q]
        /\ body'[p] = b /\ work'[p] = E
        /\ pc'[p] = IF v = "ok" THEN FirstStep(b.op) ELSE "done"
        /\ outcome'[p] = IF v = "ok" THEN "none" ELSE v
    <2> HIDE DEF E
    <2> QED
      BY <1>0 DEF Receive, TypeOK, E
  <1> HIDE DEF E, v
  <1>3. FirstStep(b.op) \in {"lock", "insert", "account", "load"}
    BY DEF FirstStep
  <1>4. EventsOK' /\ SameAuthors' /\ SettlementsOK' /\ SettledOnce'
    BY <1>2, TablesReported
  <1>5. ReportsOK'
    <2>1. staged[p] = NoWrites
      BY <1>0, <1>2 DEF StagedOK, StagedAt
    <2> QED
      BY <1>2, <1>3, <2>1, ReportsKept, NoReportsAfter DEF BookInv, tables, ReportsOK
  <1>6. NewWorkOK'
    <2>1. b.op \in Creating /\ v = "ok" => ValidateEntries(b.lines) = "ok"
      BY DEF v
    <2> QED
      BY <1>2, <1>3, <2>1 DEF BookInv, NewWorkOK, InTransaction, E
  <1>7. AnswersOK'
    <2>1. v = "ok" \/ v \notin {"none", "ok", "internal"}
      BY <1>1 DEF Errors
    <2>2. \A x \in auditLog : x.by # p
      <3>1. outcome[p] = "none"
        BY <1>2 DEF BookInv, AnswersOK
      <3> QED
        BY <3>1 DEF BookInv, AnswersOK
    <2>3. FirstStep(b.op) # "done"
      BY <1>3
    <2> QED
      BY <1>2, <2>1, <2>2, <2>3 DEF BookInv, AnswersOK, tables, TxnOf
  <1>8. LocksOK'
    <2>1. \A a \in Account : forUpdate[a] # p /\ p \notin keyShare[a]
      BY <1>0, <1>2 DEF HeldOK, InTransaction, BookInv, LocksOK
    <2>2. \A t \in TxnId : rowLock[t] # p
      BY <1>0, <1>2 DEF BookInv, LocksOK, TypeOK
    <2> QED
      BY <1>0, <1>2, <2>1, <2>2 DEF BookInv, LocksOK, locks, TypeOK
  <1> QED
    BY <1>4, <1>5, <1>6, <1>7, <1>8 DEF BookInv

LEMMA LoadBook ==
    ASSUME IInv, BookInv, NEW p \in Request, LoadTransaction(p)
    PROVE  BookInv'
  <1> USE NoneIsNobody
  <1>0. TypeOK /\ CallOK /\ StagedOK /\ pc[p] = "load"
    BY DEF IInv, LoadTransaction
  <1>1. ASSUME NEW r \in Errors, Rollback(p, r) PROVE BookInv'
    BY <1>0, <1>1, EndsInv DEF Rollback, InTransaction
  <1>2. CASE \E r \in {"ErrTransactionNotFound", "ErrTransactionNotPending"} : Rollback(p, r)
    BY <1>1, <1>2 DEF Errors
  <1>3. CASE /\ work' = [work EXCEPT ![p] =
                  { e \in entries : e.txn = body[p].txn /\ e.tenant = body[p].tenant }]
             /\ \/ /\ pc' = [pc EXCEPT ![p] = "lock"]
                   /\ \E S : scan' = [scan EXCEPT ![p] = S]
                \/ pc' = [pc EXCEPT ![p] = "update"] /\ UNCHANGED scan
             /\ UNCHANGED <<tables, locks, body, staged, outcome, faults>>
    <2>1. Works(p)
      BY <1>0, <1>3 DEF Works, TypeOK, CallOK, InTransaction, Settling, Creating
    <2>2. ReportsAt(p)'
      <3>1. staged'[p] = NoWrites
        BY <1>0, <1>3 DEF StagedOK, StagedAt
      <3>2. pc'[p] \in {"lock", "update"}
        BY <1>0, <1>3 DEF TypeOK
      <3> QED
        BY <3>1, <3>2, NoReportsAfter
    <2>3. LocksOK'
      BY <1>0, <1>3 DEF BookInv, LocksOK, TypeOK, locks
    <2> QED
      BY <2>1, <2>2, <2>3, WorksInv
  <1> QED
    BY <1>2, <1>3 DEF LoadTransaction

LEMMA LockBook ==
    ASSUME IInv, BookInv, NEW p \in Request, LockAccount(p)
    PROVE  BookInv'
  <1> USE NoneIsNobody
  <1>0. TypeOK /\ StagedOK
    BY DEF IInv
  <1>1. PICK a \in scan[p] :
          /\ pc[p] = "lock" /\ IsNextLock(p, a)
          /\ forUpdate' = [forUpdate EXCEPT ![a] = p]
          /\ scan' = [scan EXCEPT ![p] = scan[p] \ {a}]
          /\ UNCHANGED <<tables, keyShare, rowLock, pc, body, work, staged, outcome, faults>>
    BY DEF LockAccount
  <1>2. Works(p)
    BY <1>0, <1>1 DEF Works, TypeOK
  <1>3. ReportsAt(p)'
    BY <1>0, <1>1, NoReportsAfter DEF StagedOK, StagedAt
  <1>4. a \in Account /\ a \in Nat /\ scan[p] \subseteq Nat /\ scan'[p] = scan[p] \ {a}
    BY <1>0, <1>1, ConstantsAssumption DEF TypeOK
  <1>5. \A b \in scan'[p] : a < b
    <2> TAKE b \in scan'[p]
    <2>1. b \in scan[p] /\ b # a /\ b \in Nat /\ a <= b
      BY <1>1, <1>4 DEF IsNextLock
    <2> QED
      BY <1>4, <2>1
  <1>6. LocksOK'
    BY <1>0, <1>1, <1>4, <1>5 DEF BookInv, LocksOK, TypeOK
  <1> QED
    BY <1>2, <1>3, <1>6, WorksInv

LEMMA ReadBook ==
    ASSUME IInv, BookInv, NEW p \in Request, ReadBalances(p)
    PROVE  BookInv'
  <1> USE NoneIsNobody
  <1>0. TypeOK /\ StagedOK /\ pc[p] = "lock"
    BY DEF IInv, ReadBalances
  <1>1. ASSUME NEW r \in Errors \cup {"internal"}, Rollback(p, r) PROVE BookInv'
    BY <1>0, <1>1, EndsInv DEF Rollback, InTransaction
  <1>2. CASE \E r \in {"ErrAccountNotFound", "ErrInsufficientFunds", "internal"} : Rollback(p, r)
    BY <1>1, <1>2 DEF Errors
  <1>3. CASE /\ \E s \in {"update", "insert"} : pc' = [pc EXCEPT ![p] = s]
             /\ UNCHANGED <<tables, locks, body, work, scan, staged, outcome, faults>>
    <2>1. Works(p)
      BY <1>0, <1>3 DEF Works, TypeOK
    <2>2. ReportsAt(p)'
      BY <1>0, <1>3, NoReportsAfter DEF TypeOK, StagedOK, StagedAt
    <2>3. LocksOK'
      BY <1>0, <1>3 DEF BookInv, LocksOK, TypeOK, locks
    <2> QED
      BY <2>1, <2>2, <2>3, WorksInv
  <1> QED
    BY <1>2, <1>3 DEF ReadBalances

LEMMA InsertBook ==
    ASSUME IInv, BookInv, NEW p \in Request, InsertEntry(p)
    PROVE  BookInv'
  <1> USE NoneIsNobody
  <1>0. TypeOK /\ CallOK /\ pc[p] = "insert"
    BY DEF IInv, InsertEntry
  <1>1. CASE Rollback(p, "internal")
    BY <1>0, <1>1, EndsInv DEF Rollback, InTransaction
  <1>2. CASE \E e \in work[p], status \in {StatusPosted, StatusPending}, s \in {"emit", "insert"} :
               /\ owner[e.account] # None
               /\ keyShare' = [keyShare EXCEPT ![e.account] = @ \cup {p}]
               /\ staged' = [staged EXCEPT ![p] =
                     Written(status, staged[p].entries \cup {e}, None, {}, {})]
               /\ pc' = [pc EXCEPT ![p] = s]
               /\ UNCHANGED <<tables, forUpdate, rowLock, body, work, scan, outcome, faults>>
    <2>1. PICK e \in work[p], status \in {StatusPosted, StatusPending}, s \in {"emit", "insert"} :
               /\ owner[e.account] # None
               /\ keyShare' = [keyShare EXCEPT ![e.account] = @ \cup {p}]
               /\ staged' = [staged EXCEPT ![p] =
                     Written(status, staged[p].entries \cup {e}, None, {}, {})]
               /\ pc' = [pc EXCEPT ![p] = s]
               /\ UNCHANGED <<tables, forUpdate, rowLock, body, work, scan, outcome, faults>>
      BY <1>2
    <2>2. Works(p)
      BY <1>0, <2>1 DEF Works, TypeOK
    <2>3. e.account \in Account
      BY <1>0 DEF TypeOK, Entry
    <2>4. ReportsAt(p)'
      <3>1. body[p].op # "CreateAccount"
        BY <1>0 DEF CallOK, InTransaction, Creating
      <3>2. /\ staged'[p].events = {} /\ staged'[p].audits = {}
            /\ staged'[p].entries = staged[p].entries \cup {e}
            /\ pc'[p] \in {"emit", "insert"} /\ body' = body /\ owner' = owner
        BY <1>0, <2>1 DEF TypeOK, tables
      <3>3. \A f \in staged[p].entries : owner[f.account] # None
        BY DEF BookInv, ReportsOK, ReportsAt
      <3> QED
        BY <2>1, <3>1, <3>2, <3>3 DEF ReportsAt
    <2>5. LocksOK'
      BY <1>0, <2>1, <2>3 DEF BookInv, LocksOK, TypeOK
    <2> QED
      BY <2>2, <2>4, <2>5, WorksInv
  <1> QED
    BY <1>1, <1>2 DEF InsertEntry

LEMMA UpdateBook ==
    ASSUME IInv, BookInv, NEW p \in Request, UpdateStatus(p)
    PROVE  BookInv'
  <1> USE NoneIsNobody
  <1>0. TypeOK /\ CallOK /\ StagedOK /\ pc[p] = "update"
    BY DEF IInv, UpdateStatus
  <1>1. CASE Rollback(p, "ErrTransactionNotPending")
    BY <1>0, <1>1, EndsInv DEF Rollback, InTransaction, Errors
  <1>2. CASE StageStatus(p)
    <2>1. Works(p)
      BY <1>0, <1>2 DEF Works, TypeOK, StageStatus
    <2>2. body[p].op # "CreateAccount" /\ body[p].txn \in TxnId
      BY <1>0, MenuBodies DEF CallOK, InTransaction, Settling
    <2>3. ReportsAt(p)'
      <3>1. /\ staged'[p].events = {} /\ staged'[p].audits = {} /\ staged'[p].entries = {}
            /\ pc'[p] = "emit" /\ body' = body
        BY <1>0, <1>2 DEF TypeOK, StageStatus
      <3> QED
        BY <2>2, <3>1 DEF ReportsAt
    <2>4. LocksOK'
      BY <1>0, <1>2, <2>2 DEF BookInv, LocksOK, TypeOK, StageStatus
    <2> QED
      BY <2>1, <2>3, <2>4, WorksInv
  <1> QED
    BY <1>1, <1>2 DEF UpdateStatus

LEMMA AccountBook ==
    ASSUME IInv, BookInv, NEW p \in Request, InsertAccount(p)
    PROVE  BookInv'
  <1> USE NoneIsNobody
  <1>0. TypeOK /\ pc[p] = "account"
    BY DEF IInv, InsertAccount
  <1>1. PICK a \in Account :
          /\ staged' = [staged EXCEPT ![p] = Written("absent", {}, a, {}, {})]
          /\ pc' = [pc EXCEPT ![p] = "emit"]
          /\ UNCHANGED <<tables, locks, body, work, scan, outcome, faults>>
    BY DEF InsertAccount
  <1>2. Works(p)
    BY <1>0, <1>1 DEF Works, TypeOK
  <1>3. ReportsAt(p)'
    <2>1. /\ staged'[p].events = {} /\ staged'[p].audits = {} /\ staged'[p].entries = {}
          /\ staged'[p].account = a /\ pc'[p] = "emit"
      BY <1>0, <1>1 DEF TypeOK
    <2> QED
      BY <2>1 DEF ReportsAt
  <1>4. LocksOK'
    BY <1>0, <1>1 DEF BookInv, LocksOK, TypeOK, locks
  <1> QED
    BY <1>2, <1>3, <1>4, WorksInv

LEMMA EmitBook ==
    ASSUME IInv, BookInv, NEW p \in Request, EmitAndAudit(p)
    PROVE  BookInv'
  <1> USE NoneIsNobody
  <1> DEFINE events == IF body[p].op = "CreateAccount" THEN {}
                       ELSE { Event(TxnOf(p), EventType(body[p].op), p) }
             audits == { Audit(TxnOf(p), AuditAction(body[p].op), p) }
  <1> HIDE DEF events, audits
  <1>0. TypeOK /\ pc[p] = "emit"
    BY DEF IInv, EmitAndAudit
  <1>1. /\ staged' = [staged EXCEPT ![p] =
              Written(staged[p].status, staged[p].entries, staged[p].account, events, audits)]
        /\ pc' = [pc EXCEPT ![p] = "commit"]
        /\ UNCHANGED <<tables, locks, body, work, scan, outcome, faults>>
    BY DEF EmitAndAudit, events, audits
  <1>2. Works(p)
    BY <1>0, <1>1 DEF Works, TypeOK
  <1>3. ReportsAt(p)'
    <2>1. /\ staged'[p].events = events /\ staged'[p].audits = audits
          /\ staged'[p].entries = staged[p].entries /\ staged'[p].account = staged[p].account
          /\ pc'[p] = "commit" /\ owner' = owner /\ body' = body /\ TxnOf(p)' = TxnOf(p)
      BY <1>0, <1>1 DEF TypeOK, tables, TxnOf
    <2>2. ReportsAt(p)
      BY DEF BookInv, ReportsOK
    <2> QED
      BY <1>0, <2>1, <2>2 DEF ReportsAt, events, audits
  <1>4. LocksOK'
    BY <1>0, <1>1 DEF BookInv, LocksOK, TypeOK, locks
  <1> QED
    BY <1>2, <1>3, <1>4, WorksInv

-----------------------------------------------------------------------------
\* How a commit may change the tables: one row of transactions moves forward,
\* accounts and entries are only added.
LEMMA PublishHistory ==
    ASSUME IInv, NEW p \in Request, pc[p] = "commit", Publish(p)
    PROVE  /\ \A t \in TxnId \ {TxnOf(p)} : transactions'[t] = transactions[t]
           /\ \/ transactions'[TxnOf(p)] = transactions[TxnOf(p)]
              \/ /\ transactions[TxnOf(p)].status = "absent"
                 /\ transactions'[TxnOf(p)].status \in {StatusPending, StatusPosted}
              \/ /\ transactions[TxnOf(p)].status = StatusPending
                 /\ transactions'[TxnOf(p)].status \in {StatusPosted, StatusFailed}
                 /\ transactions'[TxnOf(p)].tenant = transactions[TxnOf(p)].tenant
           /\ entries \subseteq entries'
           /\ \A e \in entries' \ entries : transactions[e.txn].status = "absent"
           /\ \A a \in Account : owner[a] # None => owner'[a] = owner[a]
  <1> USE NoneIsNobody
  <1>0. TypeOK /\ NewAccountOK
    BY DEF IInv
  <1>1. CommitsNew(p) \/ CommitsStatus(p) \/ CommitsAccount(p)
    BY PublishEffect
  <1>2. CASE CommitsNew(p)
    <2>1. TxnOf(p) = p
      BY <1>2 DEF CommitsNew, TxnOf, Creating, Settling
    <2> QED
      BY <1>0, <1>2, <2>1 DEF CommitsNew, TypeOK
  <1>3. CASE CommitsStatus(p)
    <2>1. TxnOf(p) = body[p].txn
      BY <1>3 DEF CommitsStatus, TxnOf
    <2> QED
      BY <1>0, <1>3, <2>1 DEF CommitsStatus, TypeOK, NewStatus
  <1>4. CASE CommitsAccount(p)
    <2>1. \A a \in Account : owner[a] # None => owner'[a] = owner[a]
      BY <1>0, <1>4 DEF CommitsAccount, NewAccountOK
    <2> QED
      BY <1>4, <2>1 DEF CommitsAccount
  <1> QED
    BY <1>1, <1>2, <1>3, <1>4

\* What a commit adds to the outbox and to the audit log.
LEMMA PublishReports ==
    ASSUME BookInv, NEW p \in Request, pc[p] = "commit", Publish(p)
    PROVE  /\ outbox' = IF body[p].op = "CreateAccount" THEN outbox
                        ELSE outbox \cup { Event(TxnOf(p), EventType(body[p].op), p) }
           /\ auditLog' = auditLog \cup { Audit(TxnOf(p), AuditAction(body[p].op), p) }
  BY DEF BookInv, ReportsOK, ReportsAt, Publish

\* One more event shows up in the reports of its own kind only.
LEMMA ReportedGrows ==
    ASSUME NEW s, NEW type, NEW p, outbox' = outbox \cup { Event(s, type, p) }
    PROVE  /\ Reported(s, type)' = Reported(s, type) \cup { Event(s, type, p) }
           /\ \A t, k : t # s \/ k # type => Reported(t, k)' = Reported(t, k)
  BY DEF Reported, Event

LEMMA CommitEvents ==
    ASSUME IInv, BookInv, NEW p \in Request, pc[p] = "commit", Publish(p)
    PROVE  EventsOK'
  <1> USE NoneIsNobody DEF EventTransactionPending, EventTransactionPosted, EventTransactionFailed
  <1>0. TypeOK /\ CallOK /\ FreshOK /\ EventsOK
    BY DEF IInv, BookInv
  <1>s. PICK s \in TxnId, type \in EventTypes : s = TxnOf(p) /\ type = EventType(body[p].op)
    BY <1>0, TxnOfType DEF InTransaction, EventType, EventTypes
  <1> DEFINE ev == Event(s, type, p)
  <1>1. CASE body[p].op = "CreateAccount"
    <2>1. outbox' = outbox
      BY <1>1, PublishReports
    <2>2. transactions' = transactions
      BY <1>1, PublishEffect DEF CommitsNew, CommitsStatus, CommitsAccount, Creating, Settling
    <2> QED
      BY <1>0, <2>1, <2>2 DEF EventsOK, EventsAt, Reported
  <1>2. CASE body[p].op # "CreateAccount"
    <2>1. outbox' = outbox \cup {ev}
      BY <1>s, <1>2, PublishReports
    <2>2. /\ Reported(s, type)' = Reported(s, type) \cup {ev}
          /\ \A t, k : t # s \/ k # type => Reported(t, k)' = Reported(t, k)
          /\ ev \in outbox' /\ outbox \subseteq outbox'
      BY <1>s, <2>1, ReportedGrows
    <2>3. ASSUME NEW t \in TxnId \ (SeedTxn \ SeedPending), t # s PROVE EventsAt(t)'
      <3>1. EventsAt(t) /\ transactions'[t] = transactions[t]
        BY <1>0, <1>s, <2>3, PublishHistory DEF EventsOK
      <3>2. \A k : Reported(t, k)' = Reported(t, k)
        BY <2>2, <2>3
      <3> QED
        BY <2>2, <3>1, <3>2 DEF EventsAt
    <2>4. ASSUME s \in TxnId \ (SeedTxn \ SeedPending) PROVE EventsAt(s)'
      <3>0. EventsAt(s) /\ s \in TxnId
        BY <1>0, <2>4 DEF EventsOK
      <3>1. CASE CommitsNew(p)
        <4>1. s = p /\ transactions[s].status = "absent" /\ body[p].op \in Creating
          BY <1>s, <3>1 DEF CommitsNew, TxnOf, Creating, Settling
        <4>2. transactions'[s].status = IF body[p].op = "ExecuteTransfer" THEN StatusPosted ELSE StatusPending
          BY <1>0, <3>0, <3>1, <4>1 DEF CommitsNew, TypeOK
        <4>3. /\ body[p].op = "ExecuteTransfer" => type = EventTransactionPosted
              /\ body[p].op # "ExecuteTransfer" => type = EventTransactionPending
          BY <1>s, <4>1 DEF EventType, Creating
        <4>4. Reported(s, type) = {}
          BY <3>0, <4>1, <4>3 DEF EventsAt
        <4> QED
          BY <2>2, <3>0, <4>1, <4>2, <4>3, <4>4 DEF EventsAt
      <3>2. CASE CommitsStatus(p)
        <4>1. s = body[p].txn /\ transactions[s].status = StatusPending /\ body[p].op \in Settling
          BY <1>s, <3>2 DEF CommitsStatus, TxnOf
        <4>2. transactions'[s].status =
                IF body[p].op = "PostPendingTransaction" THEN StatusPosted ELSE StatusFailed
          BY <1>0, <3>0, <3>2, <4>1 DEF CommitsStatus, TypeOK, NewStatus
        <4>3. type = IF body[p].op = "PostPendingTransaction" THEN EventTransactionPosted
                     ELSE EventTransactionFailed
          BY <1>s, <4>1 DEF EventType, Settling
        <4>4. Reported(s, type) = {}
          BY <3>0, <4>1, <4>3 DEF EventsAt
        <4> QED
          BY <2>2, <3>0, <4>1, <4>2, <4>3, <4>4 DEF EventsAt
      <3> QED
        BY <1>2, <3>1, <3>2, PublishEffect DEF CommitsAccount
    <2> QED
      BY <2>3, <2>4 DEF EventsOK
  <1> QED
    BY <1>1, <1>2

LEMMA CommitBook ==
    ASSUME IInv, BookInv, NEW p \in Request, NEW r \in {"ok", "internal"}, pc[p] = "commit",
           Publish(p), Finish(p, r), UNCHANGED <<body, work>>
    PROVE  BookInv'
  <1> USE NoneIsNobody
  <1> DEFINE s == TxnOf(p)
             row == Audit(s, AuditAction(body[p].op), p)
  <1>0. TypeOK /\ CallOK
    BY DEF IInv
  <1>1. /\ \A q \in Request : q # p => /\ pc'[q] = pc[q] /\ staged'[q] = staged[q]
                                        /\ scan'[q] = scan[q] /\ outcome'[q] = outcome[q]
        /\ pc'[p] = "done" /\ staged'[p] = NoWrites /\ scan'[p] = {} /\ outcome'[p] = r
    BY <1>0 DEF TypeOK, Finish
  <1>2. EventsOK'
    BY CommitEvents
  <1>3. auditLog' = auditLog \cup {row}
    BY PublishReports
  <1>4. row.txn = s /\ row.action = AuditAction(body[p].op) /\ row.by = p
    BY DEF Audit
  <1> HIDE DEF row
  <1>5. body[p] \in Menu /\ body[p].op \in Operations /\ s \in TxnId
    BY <1>0, MenuBodies, TxnOfType DEF CallOK, InTransaction
  <1>6. ReportsOK'
    <2>1. \A a \in Account : owner[a] # None => owner'[a] = owner[a]
      BY PublishHistory
    <2>2. ASSUME NEW q \in Request, q # p PROVE ReportsAt(q)'
      <3>1. \A e \in staged[q].entries : e.account \in Account /\ owner[e.account] # None
        <4>1. staged[q].entries \subseteq Entry
          BY <1>0 DEF TypeOK, Writes
        <4> QED
          BY <4>1 DEF Entry, BookInv, ReportsOK, ReportsAt
      <3>2. ReportsAt(q) /\ TxnOf(q)' = TxnOf(q) /\ pc'[q] = pc[q] /\ staged'[q] = staged[q]
        BY <1>1, <2>2 DEF BookInv, ReportsOK, TxnOf
      <3> QED
        BY <2>1, <3>1, <3>2 DEF ReportsAt
    <2> QED
      BY <1>1, <2>2, NoReportsAfter DEF ReportsOK
  <1>7. NewWorkOK'
    BY <1>1 DEF BookInv, NewWorkOK, InTransaction
  <1>8. AnswersOK'
    <2>1. ASSUME NEW q \in Request, q # p
          PROVE  /\ pc'[q] = "done" <=> outcome'[q] # "none"
                 /\ \A x \in auditLog' : x.by = q => outcome'[q] \in {"ok", "internal"}
                 /\ outcome'[q] = "ok" =>
                       /\ \E x \in auditLog' : x.by = q
                       /\ body[q] \in Menu
                       /\ body[q].op \in {"ExecuteTransfer", "PostPendingTransaction"} =>
                             transactions'[TxnOf(q)].status = StatusPosted
                       /\ body[q].op = "FailPendingTransaction" =>
                             transactions'[TxnOf(q)].status = StatusFailed
      <3>1. body[q] \in Menu => TxnOf(q) \in TxnId
        BY MenuBodies DEF TxnOf
      <3>2. \A t \in TxnId : transactions[t].status \in {StatusPosted, StatusFailed} =>
                              transactions'[t].status = transactions[t].status
        BY PublishHistory
      <3> QED
        BY <1>1, <1>3, <1>4, <2>1, <3>1, <3>2 DEF BookInv, AnswersOK
    <2>2. /\ body[p].op \in {"ExecuteTransfer", "PostPendingTransaction"} =>
                transactions'[s].status = StatusPosted
          /\ body[p].op = "FailPendingTransaction" => transactions'[s].status = StatusFailed
      <3>1. CASE CommitsNew(p)
        BY <1>0, <1>5, <3>1 DEF CommitsNew, TxnOf, Creating, Settling, TypeOK
      <3>2. CASE CommitsStatus(p)
        BY <1>0, <1>5, <3>2 DEF CommitsStatus, TxnOf, Settling, TypeOK, NewStatus
      <3> QED
        BY <3>1, <3>2, PublishEffect DEF CommitsAccount
    <2> QED
      BY <1>1, <1>3, <1>4, <1>5, <2>1, <2>2 DEF AnswersOK, TxnOf
  <1>9. SameAuthors'
    <2>1. CASE body[p].op = "CreateAccount"
      <3>1. outbox' = outbox /\ row.action = "account.created"
        BY <1>4, <2>1, PublishReports DEF AuditAction
      <3>2. { y \in auditLog' : y.action # "account.created" } =
            { y \in auditLog : y.action # "account.created" }
        BY <1>3, <3>1
      <3> QED
        BY <3>1, <3>2 DEF BookInv, SameAuthors
    <2>2. CASE body[p].op # "CreateAccount"
      <3> DEFINE ev == Event(s, EventType(body[p].op), p)
      <3>1. outbox' = outbox \cup {ev} /\ ev.by = p
        BY <2>2, PublishReports DEF Event
      <3>2. row.action # "account.created"
        BY <1>4, <1>5, <2>2 DEF AuditAction, Operations, Creating, Settling
      <3> HIDE DEF ev
      <3>3. { e.by : e \in outbox' } = { e.by : e \in outbox } \cup {p}
        BY <3>1
      <3>4. { y \in auditLog' : y.action # "account.created" } =
            { y \in auditLog : y.action # "account.created" } \cup {row}
        BY <1>3, <3>2
      <3>5. { x.by : x \in { y \in auditLog' : y.action # "account.created" } } =
            { x.by : x \in { y \in auditLog : y.action # "account.created" } } \cup {p}
        BY <1>4, <3>4
      <3> QED
        BY <3>3, <3>5 DEF BookInv, SameAuthors
    <2> QED
      BY <2>1, <2>2
  <1>10. SettlementsOK' /\ SettledOnce'
    <2> DEFINE Settles(x) == x.action \in {"transaction.posted", "transaction.failed"}
    <2>0. \A x \in auditLog : x.txn \in TxnId
      BY <1>0 DEF TypeOK
    <2>1. \A x \in auditLog : Settles(x) =>
            /\ transactions[x.txn].status \in {StatusPosted, StatusFailed}
            /\ transactions'[x.txn].status = transactions[x.txn].status
      BY <2>0, PublishHistory DEF BookInv, SettlementsOK
    <2>2. Settles(row) => /\ transactions[s].status = StatusPending
                          /\ transactions'[s].status \in {StatusPosted, StatusFailed}
      <3>1. Settles(row) => body[p].op \in Settling
        BY <1>4, <1>5 DEF AuditAction, Operations, Creating, Settling
      <3>2. body[p].op \in Settling => CommitsStatus(p) /\ s = body[p].txn
        BY PublishEffect DEF CommitsNew, CommitsAccount, Creating, Settling, TxnOf
      <3> QED
        BY <1>0, <3>1, <3>2 DEF CommitsStatus, TypeOK, NewStatus
    <2>3. SettlementsOK'
      BY <1>3, <1>4, <2>1, <2>2 DEF SettlementsOK
    <2>4. SettledOnce'
      <3>1. \A x \in auditLog : Settles(x) /\ Settles(row) => x.txn # row.txn
        BY <1>4, <2>1, <2>2
      <3> QED
        BY <1>3, <3>1 DEF BookInv, SettledOnce
    <2> QED
      BY <2>3, <2>4
  <1>11. LocksOK'
    BY <1>0, <1>1 DEF BookInv, LocksOK, TypeOK, Finish, Release
  <1> QED
    BY <1>2, <1>6, <1>7, <1>8, <1>9, <1>10, <1>11 DEF BookInv

-----------------------------------------------------------------------------
LEMMA StutterBook == BookInv /\ UNCHANGED vars => BookInv'
  <1> SUFFICES ASSUME BookInv, UNCHANGED vars PROVE BookInv'
    OBVIOUS
  <1>1. /\ UNCHANGED <<tables, body, pc, staged, outcome, work, scan>>
        /\ UNCHANGED <<owner, forUpdate, keyShare, rowLock>>
    BY DEF vars, locks, tables
  <1>2. EventsOK' /\ SameAuthors' /\ SettlementsOK' /\ SettledOnce'
    BY <1>1, TablesReported
  <1>3. ReportsOK'
    BY <1>1, ReportsKept DEF BookInv, ReportsOK
  <1>4. NewWorkOK' /\ LocksOK'
    BY <1>1 DEF BookInv, NewWorkOK, InTransaction, LocksOK
  <1>5. AnswersOK'
    BY <1>1 DEF BookInv, AnswersOK, tables, TxnOf
  <1> QED
    BY <1>2, <1>3, <1>4, <1>5 DEF BookInv

\* A request that a deadlock ends is in its transaction.
LEMMA VictimRuns ==
    ASSUME NEW p \in Request, DeadlockDetected(p)
    PROVE  InTransaction(p)
  <1>1. PICK D \in SUBSET Request : p \in D /\ WaitCycle(D)
    BY DEF DeadlockDetected
  <1>2. PICK q \in D : WaitsFor(p, q)
    BY <1>1 DEF WaitCycle, Waiting
  <1> QED
    BY <1>2 DEF WaitsFor, InTransaction

\* Every step preserves the second invariant, given the first.
LEMMA NextBookInv == IInv /\ BookInv /\ [Next]_vars => BookInv'
  <1> SUFFICES ASSUME IInv, BookInv, Next PROVE BookInv'
    BY StutterBook
  <1>1. ASSUME NEW p \in Request, NEW b \in Menu, Receive(p, b) PROVE BookInv'
    BY <1>1, ReceiveBook
  <1>2. ASSUME NEW p \in Request, Step(p) PROVE BookInv'
    <2>1. CASE Commit(p)
      BY <2>1, CommitBook DEF Commit
    <2> QED
      BY <1>2, <2>1, LoadBook, LockBook, ReadBook, InsertBook, UpdateBook, AccountBook,
         EmitBook DEF Step
  <1>3. ASSUME NEW p \in Request, CommitUnacknowledged(p) PROVE BookInv'
    BY <1>3, CommitBook DEF CommitUnacknowledged
  <1>4. ASSUME NEW p \in Request, Fault(p) PROVE BookInv'
    BY <1>4, EndsInv DEF Fault
  <1>5. ASSUME NEW p \in Request, DeadlockDetected(p) PROVE BookInv'
    BY <1>5, EndsInv, VictimRuns DEF DeadlockDetected, Rollback
  <1>6. CASE Idle
    BY <1>6, StutterBook DEF Idle
  <1> QED
    BY <1>1, <1>2, <1>3, <1>4, <1>5, <1>6 DEF Next

\* Both invariants hold in every state of every behaviour of the ledger.
THEOREM BookInvariant == Spec => [](IInv /\ BookInv)
  BY InitInv, InitBookInv, NextInv, NextBookInv, PTL DEF Spec

\* Of the posts and fails racing on a pending transaction one commits at
\* most, wherever the others wait or fail.
THEOREM SettlesOnce == Spec => []SettledOnce
  <1>1. BookInv => SettledOnce
    BY DEF BookInv
  <1> QED
    BY <1>1, BookInvariant, PTL

\* Success means committed and a ledger error means that nothing was, also
\* when a commit's acknowledgement is lost.
THEOREM AnswersAreHonest == Spec => []OutcomeHonest
  <1>1. BookInv => OutcomeHonest
    BY DEF BookInv, AnswersOK, OutcomeHonest, Errors
  <1> QED
    BY <1>1, BookInvariant, PTL

\* The transactional outbox: status changes and events come in pairs, and
\* every event has its audit row.
THEOREM OutboxIsExact == Spec => []OutboxMatchesLedger
  <1>1. \A e : Cardinality({e}) = 1
    BY FS_Singleton
  <1>2. Cardinality({}) = 0
    BY FS_EmptySet
  <1>3. BookInv => OutboxMatchesLedger
    <2> SUFFICES ASSUME BookInv PROVE OutboxMatchesLedger
      OBVIOUS
    <2>1. SameAuthors /\ EventsOK
      BY DEF BookInv
    <2>2. ASSUME NEW t \in TxnId \ (SeedTxn \ SeedPending)
          PROVE  /\ Cardinality(Reported(t, EventTransactionPosted)) =
                       (IF transactions[t].status = StatusPosted THEN 1 ELSE 0)
                 /\ Cardinality(Reported(t, EventTransactionFailed)) =
                       (IF transactions[t].status = StatusFailed THEN 1 ELSE 0)
                 /\ transactions[t].status \in {StatusPending, StatusFailed} =>
                       Cardinality(Reported(t, EventTransactionPending)) = 1
                 /\ transactions[t].status = "absent" =>
                       Cardinality(Reported(t, EventTransactionPending)) = 0
      <3>1. EventsAt(t)
        BY <2>1 DEF EventsOK
      <3>2. \A k : (\E e \in outbox : Reported(t, k) = {e}) => Cardinality(Reported(t, k)) = 1
        BY <1>1
      <3>3. \A k : Reported(t, k) = {} => Cardinality(Reported(t, k)) = 0
        BY <1>2
      <3> QED
        BY <3>1, <3>2, <3>3 DEF EventsAt
    <2> QED
      BY <2>1, <2>2 DEF OutboxMatchesLedger, SameAuthors, Reported
  <1> QED
    BY <1>3, BookInvariant, PTL

-----------------------------------------------------------------------------
\* Only a commit touches the tables.
LEMMA TablesStepOrCommit ==
    ASSUME Next
    PROVE  \/ UNCHANGED tables
           \/ \E p \in Request : pc[p] = "commit" /\ Publish(p)
  BY DEF Next, Receive, Step, LoadTransaction, LockAccount, ReadBalances, InsertEntry,
         UpdateStatus, StageStatus, InsertAccount, EmitAndAudit, Commit, CommitUnacknowledged,
         Fault, DeadlockDetected, Rollback, Idle, vars

\* Statuses only move forward, tenants of accounts and transactions stay, and
\* entries, events and audit rows are never changed or removed.
THEOREM HistoryOnlyGrows == Spec => HistoryIsAppendOnly
  <1> DEFINE Forward ==
        /\ \A t \in TxnId :
            LET old == transactions[t]
                new == transactions'[t]
            IN  \/ new = old
                \/ old.status = "absent" /\ new.status \in {StatusPending, StatusPosted}
                \/ /\ old.status = StatusPending
                   /\ new.status \in {StatusPosted, StatusFailed}
                   /\ new.tenant = old.tenant
        /\ \A e \in entries' \ entries : transactions[e.txn].status = "absent"
        /\ entries \subseteq entries'
        /\ outbox \subseteq outbox'
        /\ auditLog \subseteq auditLog'
        /\ \A a \in Account : owner[a] # None => owner'[a] = owner[a]
  <1>1. IInv /\ [Next]_vars => [Forward]_tables
    <2> SUFFICES ASSUME IInv, Next PROVE [Forward]_tables
      BY DEF vars
    <2>1. ASSUME NEW p \in Request, pc[p] = "commit", Publish(p) PROVE Forward
      <3>1. outbox \subseteq outbox' /\ auditLog \subseteq auditLog'
        BY <2>1 DEF Publish
      <3> QED
        BY <2>1, <3>1, PublishHistory
    <2> QED
      BY <2>1, TablesStepOrCommit
  <1> QED
    BY <1>1, InductiveInvariant, PTL DEF Spec, HistoryIsAppendOnly

-----------------------------------------------------------------------------
\* The rows of validated lines: not empty, without zero amounts, and with the
\* balanced sum that validateEntries computed from the lines.
LEMMA ValidRows ==
    ASSUME NEW p \in Request, NEW b \in Menu, ValidateEntries(b.lines) = "ok"
    PROVE  LET E == EntriesOf(p, b.tenant, b.lines)
           IN  /\ Amounts(E)
               /\ E # {}
               /\ \A e \in E : e.amount # 0
               /\ Total(E) = LineTotal(b.lines, DOMAIN b.lines)
               /\ Money(Total(E)) = 0
  <1> DEFINE lines == b.lines
             D == DOMAIN lines
             row == [i \in D |-> [txn |-> p, line |-> i, tenant |-> b.tenant,
                                  account |-> lines[i].account, amount |-> lines[i].amount]]
             E == EntriesOf(p, b.tenant, lines)
  <1>1. lines \in Seq(EntryInput) /\ D = 1 .. Len(lines) /\ Len(lines) \in Nat
    BY MenuBodies
  <1>2. IsFiniteSet(D)
    BY <1>1, FS_Interval
  <1>3. Len(lines) >= 2 /\ (\A i \in D : lines[i].amount # 0) /\ Sum(lines) = 0
    BY DEF ValidateEntries
  <1>4. \A i \in D : lines[i].amount \in Int
    <2>1. \A i \in DOMAIN b.lines : b.lines[i] \in EntryInput
      BY MenuBodies
    <2> QED
      BY <2>1 DEF EntryInput
  <1>5. E = { row[i] : i \in D }
    BY DEF EntriesOf
  <1>6. /\ \A i \in D : row[i].amount = lines[i].amount /\ row[i].line = i
        /\ \A i, j \in D : row[i] = row[j] => i = j
    OBVIOUS
  <1>7. E # {} /\ \A e \in E : e.amount \in Int /\ e.amount # 0
    <2>1. 1 \in D
      BY <1>1, <1>3
    <2> HIDE DEF E, row, D, lines
    <2> QED
      BY <2>1, <1>3, <1>4, <1>5, <1>6
  <1>8. Sum(lines) = Money(LineTotal(lines, D))
    BY DEF Sum, LineTotal
  <1> HIDE DEF row, E, D, lines
  <1>9. IsFiniteSet(E)
    <2>1. row \in Surjection(D, E)
      <3>1. row = [i \in D |-> row[i]]
        BY DEF row
      <3> QED
        BY <1>5, <3>1 DEF Surjection
    <2> QED
      BY <1>2, <2>1, FS_Surjection
  <1>10. Total(E) = LineTotal(lines, D)
    BY <1>2, <1>4, <1>5, <1>6, TotalOfRows
  <1>11. Amounts(E)
    BY <1>7, <1>9 DEF Amounts
  <1> QED
    BY <1>3, <1>7, <1>8, <1>10, <1>11 DEF E, D, lines

\* Book's copies of the vocabulary are Ledger's own.
LEMMA SameVocabulary ==
    /\ \A E : Atomic!Total(E) = Total(E)
    /\ \A x : Atomic!Money(x) = Money(x)
    /\ \A a, E : Atomic!On(a, E) = On(a, E)
    /\ \A E : Atomic!Accounts(E) = Accounts(E)
    /\ \A t, k, q : Atomic!Event(t, k, q) = Event(t, k, q) /\ Atomic!Audit(t, k, q) = Audit(t, k, q)
    /\ Atomic!TxnId = TxnId
    /\ Atomic!StatusPending = StatusPending /\ Atomic!StatusPosted = StatusPosted
    /\ Atomic!StatusFailed = StatusFailed
    /\ Atomic!EventTransactionPending = EventTransactionPending
    /\ Atomic!EventTransactionPosted = EventTransactionPosted
    /\ Atomic!EventTransactionFailed = EventTransactionFailed
  BY DEF Atomic!Total, Total, Atomic!MapThenSumSet, MapThenSumSet, Atomic!MapThenFoldSet,
         MapThenFoldSet, Atomic!Money, Money, Atomic!Half, Half, Atomic!On, On, Atomic!Accounts,
         Accounts, Atomic!Event, Event, Atomic!Audit, Audit, Atomic!TxnId, TxnId,
         Atomic!StatusPending, Atomic!StatusPosted, Atomic!StatusFailed,
         Atomic!EventTransactionPending, Atomic!EventTransactionPosted,
         Atomic!EventTransactionFailed, EventTransactionPending, EventTransactionPosted,
         EventTransactionFailed

\* A checked request that commits may post: its accounts are its tenant's and
\* end non-negative.
LEMMA CheckedIsCovered ==
    ASSUME IInv, NEW p \in Request, Checked(p), transactions[TxnOf(p)].status # StatusPosted
    PROVE  Atomic!Covered(body[p].tenant, work[p])
  <1> USE NoneIsNobody
  <1> SUFFICES ASSUME NEW a \in Accounts(work[p])
               PROVE  /\ owner[a] = body[p].tenant
                      /\ Money(Total(On(a, PostedEntries \cup work[p]))) >= 0
    <2>1. Atomic!Posted(transactions, entries) = PostedEntries
      BY SameVocabulary DEF Atomic!Posted, PostedEntries
    <2> QED
      BY <2>1, SameVocabulary DEF Atomic!Covered
  <1>1. a \in Account
    BY DEF IInv, TypeOK, Accounts, Entry
  <1>2. /\ forUpdate[a] = p
        /\ Money(Total(On(a, PostedEntries) \cup On(a, work[p]))) >= 0
    BY DEF IInv, ReservedOK
  <1>3. owner[a] = body[p].tenant
    BY <1>1, <1>2 DEF IInv, HeldOK
  <1>4. On(a, PostedEntries \cup work[p]) = On(a, PostedEntries) \cup On(a, work[p])
    BY DEF On
  <1> QED
    BY <1>2, <1>3, <1>4

\* Each commit is one operation of the atomic ledger.
LEMMA CommitIsAtomic ==
    ASSUME IInv, BookInv, NEW p \in Request, pc[p] = "commit", Publish(p)
    PROVE  Atomic!Next
  <1> USE NoneIsNobody
  <1> DEFINE op == body[p].op
             tenant == body[p].tenant
             t == TxnOf(p)
  <1>0. /\ TypeOK /\ CallOK /\ EntriesOK /\ WorkOK /\ StagedOK /\ NewAccountOK
        /\ body[p] \in Menu /\ tenant \in Tenant /\ t \in TxnId
    BY TxnOfType, MenuBodies DEF IInv, CallOK, InTransaction
  <1>1. CASE CommitsNew(p)
    <2>1. /\ t = p /\ op \in Creating
          /\ staged[p].status = IF op = "ExecuteTransfer" THEN StatusPosted ELSE StatusPending
      BY <1>1 DEF CommitsNew, TxnOf, Creating, Settling
    <2>2. work[p] = EntriesOf(p, tenant, body[p].lines) /\ ValidateEntries(body[p].lines) = "ok"
      BY <2>1 DEF BookInv, NewWorkOK, InTransaction
    <2>3. work[p] # {} /\ (\A e \in work[p] : e.amount # 0) /\ Money(Total(work[p])) = 0
      BY <1>0, <2>2, ValidRows
    <2>4. entries' \ entries = work[p]
      <3>1. \A e \in work[p] : e \notin entries
        BY <1>0, <1>1 DEF CommitsNew, EntriesOK
      <3> QED
        BY <1>1, <3>1 DEF CommitsNew
    <2>5. Atomic!Record(p, tenant, staged[p].status)
      BY <1>1, <2>3, <2>4, SameVocabulary DEF CommitsNew, Atomic!Record
    <2>6. UNCHANGED owner
      BY <1>1 DEF CommitsNew
    <2>7. CASE op = "ExecuteTransfer"
      <3>1. Atomic!Covered(tenant, entries' \ entries)
        <4>1. Checked(p) /\ transactions[t].status # StatusPosted
          BY <1>1, <2>1, <2>7 DEF Checked, CommitsNew
        <4> QED
          BY <2>4, <4>1, CheckedIsCovered
      <3>2. Atomic!Report(p, EventTransactionPosted, "transaction.transferred", p)
        BY <2>1, <2>7, PublishReports, SameVocabulary
           DEF Atomic!Report, EventType, AuditAction
      <3>3. Atomic!Transfer(p, tenant)
        BY <2>1, <2>5, <2>6, <2>7, <3>1, <3>2, SameVocabulary DEF Atomic!Transfer
      <3> QED
        BY <1>0, <3>3 DEF Atomic!Next
    <2>8. CASE op = "CreatePendingTransaction"
      <3>1. \A a \in Accounts(entries' \ entries) : owner[a] # None
        <4>1. staged[p].entries = work[p]
          BY <1>0, <2>8 DEF StagedOK, StagedAt
        <4>2. \A e \in work[p] : owner[e.account] # None
          BY <4>1 DEF BookInv, ReportsOK, ReportsAt
        <4> QED
          BY <2>4, <4>2 DEF Accounts
      <3>2. Atomic!Report(p, EventTransactionPending, "transaction.pending_created", p)
        BY <2>1, <2>8, PublishReports, SameVocabulary
           DEF Atomic!Report, EventType, AuditAction
      <3>3. Atomic!CreatePending(p, tenant)
        BY <2>1, <2>5, <2>6, <2>8, <3>1, <3>2, SameVocabulary DEF Atomic!CreatePending
      <3> QED
        BY <1>0, <3>3 DEF Atomic!Next
    <2> QED
      BY <2>1, <2>7, <2>8 DEF Creating
  <1>2. CASE CommitsStatus(p)
    <2>1. t = body[p].txn /\ op \in Settling
      BY <1>2 DEF CommitsStatus, TxnOf
    <2>2. Atomic!Settle(t, NewStatus(op))
      BY <1>2, <2>1, SameVocabulary DEF CommitsStatus, Atomic!Settle
    <2>3. CASE op = "PostPendingTransaction"
      <3>1. Atomic!Covered(transactions[t].tenant, Atomic!Rows(t, entries))
        <4>1. Checked(p) /\ transactions[t].status # StatusPosted
          BY <1>2, <2>1, <2>3 DEF Checked, CommitsStatus
        <4>2. work[p] = Atomic!Rows(t, entries) /\ transactions[t].tenant = tenant
          BY <1>2, <2>1 DEF CommitsStatus, Atomic!Rows
        <4> QED
          BY <4>1, <4>2, CheckedIsCovered
      <3>2. Atomic!Report(t, EventTransactionPosted, "transaction.posted", p)
        BY <2>3, PublishReports, SameVocabulary DEF Atomic!Report, EventType, AuditAction
      <3>3. Atomic!Post(t, p)
        BY <2>2, <2>3, <3>1, <3>2, SameVocabulary DEF Atomic!Post, NewStatus
      <3> QED
        BY <1>0, <3>3, SameVocabulary DEF Atomic!Next
    <2>4. CASE op = "FailPendingTransaction"
      <3>1. Atomic!Report(t, EventTransactionFailed, "transaction.failed", p)
        BY <2>4, PublishReports, SameVocabulary DEF Atomic!Report, EventType, AuditAction
      <3>2. Atomic!Fail(t, p)
        BY <2>2, <2>4, <3>1, SameVocabulary DEF Atomic!Fail, NewStatus
      <3> QED
        BY <1>0, <3>2, SameVocabulary DEF Atomic!Next
    <2> QED
      BY <2>1, <2>3, <2>4 DEF Settling
  <1>3. CASE CommitsAccount(p)
    <2> DEFINE a == staged[p].account
    <2>1. op = "CreateAccount" /\ t = p
      BY <1>3 DEF CommitsAccount, TxnOf, Settling
    <2>2. a \in Account /\ owner[a] = None
      <3>1. a # None
        BY <2>1 DEF BookInv, ReportsOK, ReportsAt
      <3> QED
        BY <1>0, <3>1 DEF TypeOK, Writes, NewAccountOK
    <2>3. owner' = [owner EXCEPT ![a] = tenant]
      BY <1>0, <1>3, <2>2 DEF CommitsAccount, TypeOK
    <2>4. /\ outbox' = outbox
          /\ auditLog' = auditLog \cup { Audit(p, "account.created", p) }
      BY <2>1, PublishReports DEF AuditAction
    <2>5. Atomic!CreateAccount(a, tenant, p)
      BY <1>3, <2>2, <2>3, <2>4, SameVocabulary DEF CommitsAccount, Atomic!CreateAccount
    <2> QED
      BY <1>0, <2>2, <2>5 DEF Atomic!Next
  <1> QED
    BY <1>1, <1>2, <1>3, PublishEffect

\* Seen from the tables the concurrent ledger is the atomic one: each method
\* takes effect as one operation of Book or not at all.
THEOREM LedgerIsAtomic == Spec => ImplementsBook
  <1>1. Init => Atomic!Init
    BY SameVocabulary DEF Init, Atomic!Init, Atomic!NoRow, NoRow
  <1>2. IInv /\ BookInv /\ [Next]_vars => [Atomic!Next]_(Atomic!book)
    <2> SUFFICES ASSUME IInv, BookInv, Next PROVE Atomic!Next \/ UNCHANGED tables
      BY DEF vars, tables, Atomic!book
    <2> QED
      BY CommitIsAtomic, TablesStepOrCommit
  <1> QED
    BY <1>1, <1>2, BookInvariant, PTL DEF Spec, ImplementsBook, Atomic!Spec

-----------------------------------------------------------------------------
\* Whoever waits is at one of three statements.
LEMMA WaitersWait ==
    ASSUME NEW p, NEW q, WaitsFor(p, q)
    PROVE  pc[p] \in {"lock", "insert", "update"}
  BY DEF WaitsFor

\* Without a CreatePendingTransaction all waiters of a cycle are in their lock
\* queries, each for an account that another of them holds.
LEMMA CycleOfLockers ==
    ASSUME IInv, BookInv, NEW D \in SUBSET Request, Waiting(D),
           \A p \in D : body[p].op # "CreatePendingTransaction"
    PROVE  \A p \in D : \E q \in D : /\ WaitsFor(p, q)
                                     /\ \E a \in scan[p] : IsNextLock(p, a) /\ forUpdate[a] = q
  <1> USE NoneIsNobody
  <1>0. TypeOK /\ CallOK /\ ReservedOK /\ LocksOK
    BY DEF IInv, BookInv
  <1>1. ASSUME NEW p \in D, NEW q \in D, WaitsFor(p, q) PROVE pc[p] = "lock"
    <2>0. p \in Request /\ q \in Request /\ p # q
      BY <1>1 DEF WaitsFor
    <2>1. ASSUME pc[p] = "insert" PROVE FALSE
      <3>1. body[p].op = "ExecuteTransfer"
        BY <1>0, <2>0, <2>1 DEF CallOK, InTransaction, Creating
      <3>2. PICK e \in work[p] : q = forUpdate[e.account]
        BY <1>1, <2>1 DEF WaitsFor
      <3>3. forUpdate[e.account] = p
        BY <1>0, <2>0, <2>1, <3>1 DEF ReservedOK, Checked, Accounts
      <3> QED
        BY <2>0, <3>2, <3>3
    <2>2. ASSUME pc[p] = "update" PROVE FALSE
      <3>1. body[p].txn \in TxnId
        BY <1>0, <2>0, <2>2, MenuBodies DEF CallOK, InTransaction
      <3>2. q = rowLock[body[p].txn]
        BY <1>1, <2>2 DEF WaitsFor
      <3>3. pc[q] \in {"emit", "commit"}
        BY <1>0, <2>0, <3>1, <3>2 DEF LocksOK
      <3>4. PICK r \in D : WaitsFor(q, r)
        BY DEF Waiting
      <3> QED
        BY <3>3, <3>4, WaitersWait
    <2> QED
      BY <1>1, <2>1, <2>2, WaitersWait
  <1>2. \A p \in D : pc[p] = "lock"
    BY <1>1 DEF Waiting
  <1> TAKE p \in D
  <1>3. PICK q \in D : WaitsFor(p, q)
    BY DEF Waiting
  <1>4. PICK a \in scan[p] : IsNextLock(p, a) /\ q \in {forUpdate[a]} \cup keyShare[a]
    BY <1>2, <1>3 DEF WaitsFor
  <1>5. a \in Account /\ pc[q] = "lock"
    BY <1>0, <1>2 DEF TypeOK
  <1>6. q \notin keyShare[a]
    BY <1>0, <1>5 DEF LocksOK
  <1> QED
    BY <1>3, <1>4, <1>6

\* Whatever is locked, waits for locks form no cycle among transfers, posts
\* and fails: the accounts they wait for would grow along it.
THEOREM DeadlocksNeedPending == Spec => []DeadlockNeedsPending
  <1>1. ASSUME IInv, BookInv PROVE DeadlockNeedsPending
    <2> SUFFICES ASSUME NEW D \in SUBSET Request, WaitCycle(D),
                        \A p \in D : body[p].op # "CreatePendingTransaction"
                 PROVE  FALSE
      BY DEF DeadlockNeedsPending
    <2>0. /\ D # {} /\ Waiting(D) /\ \A S \in SUBSET D : S # {} /\ Waiting(S) => S = D
          /\ TypeOK /\ LocksOK
      BY <1>1 DEF WaitCycle, IInv, BookInv
    <2>1. \A p \in D : \E q \in D : /\ WaitsFor(p, q)
                                    /\ \E a \in scan[p] : IsNextLock(p, a) /\ forUpdate[a] = q
      BY <1>1, <2>0, CycleOfLockers
    <2>2. \A p \in D : scan[p] \subseteq Account /\ Account \subseteq Nat
      BY <2>0, ConstantsAssumption DEF TypeOK
    <2>p. PICK p \in D : TRUE
      BY <2>0
    <2>3. PICK q \in D, a \in scan[p] : forUpdate[a] = q
      BY <2>1
    <2> DEFINE S == { r \in D : \A b \in scan[r] : a < b }
    <2>4. q \in S /\ p \notin S
      BY <2>0, <2>2, <2>3 DEF LocksOK
    <2>5. Waiting(S)
      <3> SUFFICES ASSUME NEW r \in S PROVE \E o \in S : WaitsFor(r, o)
        BY DEF Waiting
      <3>1. PICK o \in D, c \in scan[r] : WaitsFor(r, o) /\ forUpdate[c] = o
        BY <2>1
      <3>2. \A b \in scan[o] : c < b
        BY <2>0, <2>2, <3>1 DEF LocksOK
      <3>3. a < c /\ a \in Nat /\ c \in Nat /\ scan[o] \subseteq Nat
        BY <2>2
      <3>4. o \in S
        BY <3>2, <3>3
      <3> QED
        BY <3>1, <3>4
    <2> QED
      BY <2>0, <2>4, <2>5
  <1> QED
    BY <1>1, BookInvariant, PTL

-----------------------------------------------------------------------------
\* Wrap-around is the one way to break conservation: the sums of the menu's
\* calls and of the seed stay clear of it.
NoWrapAround ==
    /\ IsFiniteSet(SeedEntries)
    /\ \A t \in SeedPending : Total({ e \in SeedEntries : e.txn = t }) = 0
    /\ \A b \in Menu : InMoney(LineTotal(b.lines, DOMAIN b.lines))

RowsOf(t) == { e \in entries : e.txn = t }

\* What is pending adds up to zero, so posting it changes no sum.
ConservedInv ==
    /\ IsFiniteSet(entries)
    /\ \A t \in TxnId : transactions[t].status = StatusPending => Total(RowsOf(t)) = 0
    /\ MoneyConserved

\* What fits an int64 does not wrap.
LEMMA MoneyFits ==
    ASSUME NEW x \in Int, InMoney(x)
    PROVE  Money(x) = x
  <1>1. MoneyModulus \in Nat /\ MoneyModulus > 0
    BY ConstantsAssumption
  <1> DEFINE H == MoneyModulus \div 2
  <1>2. H \in Nat /\ 2 * H <= MoneyModulus
    BY <1>1
  <1>3. x + H \in Nat /\ x + H < MoneyModulus
    BY <1>2, <1>1 DEF InMoney, Half
  <1>4. (x + H) % MoneyModulus = x + H
    <2> DEFINE y == x + H
    <2> HIDE DEF y
    <2>1. y % MoneyModulus = y
      BY <1>1, <1>3 DEF y
    <2> QED
      BY <2>1 DEF y
  <1> HIDE DEF H
  <1> QED
    BY <1>2, <1>4 DEF Money, Half, H

\* Every new transaction balances exactly.
LEMMA WorkBalances ==
    ASSUME NoWrapAround, IInv, BookInv, NEW p \in Request, InTransaction(p), body[p].op \in Creating
    PROVE  Amounts(work[p]) /\ Total(work[p]) = 0
  <1>1. body[p] \in Menu
    BY DEF IInv, CallOK
  <1>2. /\ work[p] = EntriesOf(p, body[p].tenant, body[p].lines)
        /\ ValidateEntries(body[p].lines) = "ok"
    BY DEF BookInv, NewWorkOK
  <1>3. /\ Amounts(work[p]) /\ Money(Total(work[p])) = 0
        /\ Total(work[p]) = LineTotal(body[p].lines, DOMAIN body[p].lines)
    BY <1>1, <1>2, ValidRows
  <1>4. Total(work[p]) \in Int /\ InMoney(Total(work[p]))
    BY <1>1, <1>3, TotalType DEF NoWrapAround
  <1> QED
    BY <1>3, <1>4, MoneyFits

LEMMA CommitConserves ==
    ASSUME NoWrapAround, IInv, BookInv, ConservedInv,
           NEW p \in Request, pc[p] = "commit", Publish(p)
    PROVE  ConservedInv'
  <1> USE NoneIsNobody
  <1>0. TypeOK /\ EntriesOK
    BY DEF IInv
  <1>1. Amounts(entries) /\ \A E \in SUBSET entries : Amounts(E)
    <2>1. \A e \in entries : e.amount \in Int
      BY <1>0 DEF TypeOK, Entry
    <2> QED
      BY <2>1, FS_Subset DEF ConservedInv, Amounts
  <1>2. PostedEntries \in SUBSET entries
    BY DEF PostedEntries
  <1>3. CASE CommitsNew(p)
    <2>1. Amounts(work[p]) /\ Total(work[p]) = 0
      BY <1>3, WorkBalances DEF CommitsNew, InTransaction
    <2>2. /\ \A e \in entries : e.txn # p
          /\ \A e \in work[p] : e.txn = p
          /\ entries' = entries \cup work[p]
          /\ \A t \in TxnId \ {p} : transactions'[t] = transactions[t]
      BY <1>0, <1>3 DEF CommitsNew, EntriesOK, TypeOK
    <2>3. IsFiniteSet(entries')
      BY <1>1, <2>1, <2>2, FS_Union DEF Amounts
    <2>4. ASSUME NEW t \in TxnId, transactions'[t].status = StatusPending
          PROVE  Total(RowsOf(t)') = 0
      <3>1. CASE t = p
        <4>1. RowsOf(t)' = work[p]
          BY <2>2, <3>1 DEF RowsOf
        <4> QED
          BY <2>1, <4>1
      <3>2. CASE t # p
        <4>1. RowsOf(t)' = RowsOf(t)
          BY <2>2, <3>2 DEF RowsOf
        <4> QED
          BY <2>2, <2>4, <3>2, <4>1 DEF ConservedInv
      <3> QED
        BY <3>1, <3>2
    <2>5. Total(PostedEntries') = Total(PostedEntries)
      <3>1. CASE PostedEntries' = PostedEntries
        BY <3>1
      <3>2. CASE PostedEntries' = PostedEntries \cup work[p]
        <4>1. PostedEntries \cap work[p] = {}
          BY <1>2, <2>2
        <4>2. Amounts(PostedEntries) /\ Total(PostedEntries) \in Int
          BY <1>1, <1>2, TotalType
        <4> QED
          BY <2>1, <3>2, <4>1, <4>2, TotalUnion
      <3> QED
        BY <3>1, <3>2, PublishPosts
    <2> QED
      BY <2>3, <2>4, <2>5 DEF ConservedInv, MoneyConserved
  <1>4. CASE CommitsStatus(p)
    <2>1. /\ entries' = entries /\ body[p].txn \in TxnId
          /\ transactions[body[p].txn].status = StatusPending
          /\ work[p] = RowsOf(body[p].txn)
          /\ \A t \in TxnId : transactions'[t].status = StatusPending =>
                              transactions[t].status = StatusPending
      BY <1>0, <1>4 DEF CommitsStatus, RowsOf, TypeOK, NewStatus
    <2>2. \A t : RowsOf(t)' = RowsOf(t)
      BY <2>1 DEF RowsOf
    <2>3. Total(PostedEntries') = Total(PostedEntries)
      <3>1. CASE PostedEntries' = PostedEntries
        BY <3>1
      <3>2. CASE PostedEntries' = PostedEntries \cup work[p]
        <4>1. PostedEntries \cap work[p] = {}
          BY <2>1 DEF PostedEntries, RowsOf
        <4>2. work[p] \in SUBSET entries /\ Total(work[p]) = 0
          BY <2>1 DEF RowsOf, ConservedInv
        <4>3. Amounts(PostedEntries) /\ Amounts(work[p]) /\ Total(PostedEntries) \in Int
          BY <1>1, <1>2, <4>2, TotalType
        <4> QED
          BY <3>2, <4>1, <4>2, <4>3, TotalUnion
      <3> QED
        BY <3>1, <3>2, PublishPosts
    <2> QED
      BY <2>1, <2>2, <2>3 DEF ConservedInv, MoneyConserved
  <1>5. CASE CommitsAccount(p)
    BY <1>5 DEF CommitsAccount, ConservedInv, MoneyConserved, PostedEntries, RowsOf
  <1> QED
    BY <1>3, <1>4, <1>5, PublishEffect

\* Whatever runs together, fails or is retried, the balances of all accounts
\* add up to what the genesis rows made them, as long as no sum of a call's
\* amounts wraps around (the code does not test for that).
THEOREM MoneyIsConserved == NoWrapAround => (Spec => []MoneyConserved)
  <1> SUFFICES ASSUME NoWrapAround PROVE Spec => []MoneyConserved
    OBVIOUS
  <1>1. Init => ConservedInv
    <2> SUFFICES ASSUME Init PROVE ConservedInv
      OBVIOUS
    <2> USE ConstantsAssumption
    <2>1. entries = SeedEntries
      BY DEF Init
    <2>2. PostedEntries = { e \in SeedEntries : e.txn \notin SeedPending }
      BY SeedAssumption DEF Init, PostedEntries, TxnId, NoRow, Entry
    <2>3. \A t \in TxnId : transactions[t].status = StatusPending => t \in SeedPending
      BY DEF Init, TxnId, NoRow
    <2> QED
      BY <2>1, <2>2, <2>3 DEF ConservedInv, MoneyConserved, NoWrapAround, RowsOf
  <1>2. IInv /\ BookInv /\ ConservedInv /\ [Next]_vars => ConservedInv'
    <2> SUFFICES ASSUME IInv, BookInv, ConservedInv, [Next]_vars PROVE ConservedInv'
      OBVIOUS
    <2>1. CASE UNCHANGED tables
      BY <2>1 DEF tables, ConservedInv, MoneyConserved, PostedEntries, RowsOf
    <2>2. CASE \E p \in Request : pc[p] = "commit" /\ Publish(p)
      BY <2>2, CommitConserves
    <2> QED
      BY <2>1, <2>2, TablesStepOrCommit DEF vars
  <1>3. ConservedInv => MoneyConserved
    BY DEF ConservedInv
  <1> QED
    BY <1>1, <1>2, <1>3, BookInvariant, PTL DEF Spec

-----------------------------------------------------------------------------
\* The net amount of one call, or of one transaction pending at the start, on
\* one account is no debit beyond int64.  Nothing in the code tests it.
DebitsFit ==
    /\ IsFiniteSet(SeedEntries)
    /\ \A t \in SeedPending, a \in Account : Total(On(a, { e \in SeedEntries : e.txn = t })) >= -Half
    /\ \A b \in Menu, a \in Account :
          LineTotal(b.lines, { i \in DOMAIN b.lines : b.lines[i].account = a }) >= -Half

\* Nor does any pending transaction debit an account by more.
FundsInv ==
    /\ IsFiniteSet(entries)
    /\ \A t \in TxnId, a \in Account :
          transactions[t].status = StatusPending => Total(On(a, RowsOf(t))) >= -Half
    /\ NonNegativeBalances

\* A sum not below the range of int64 that reads as non-negative is so.
LEMMA ReadsNonNegative ==
    ASSUME NEW x \in Int, x >= -Half, Money(x) >= 0
    PROVE  x >= 0
  <1>1. Half \in Nat
    BY ConstantsAssumption DEF Half
  <1>2. CASE x < 0
    <2>1. InMoney(x)
      BY <1>1, <1>2 DEF InMoney
    <2> QED
      BY <2>1, MoneyFits
  <1> QED
    BY <1>2

\* What a new transaction does to one account is what its lines say.
LEMMA DebitOfNew ==
    ASSUME DebitsFit, IInv, BookInv, NEW p \in Request, InTransaction(p), body[p].op \in Creating,
           NEW a \in Account
    PROVE  Total(On(a, work[p])) >= -Half
  <1>1. body[p] \in Menu
    BY DEF IInv, CallOK
  <1>2. /\ work[p] = EntriesOf(p, body[p].tenant, body[p].lines)
        /\ ValidateEntries(body[p].lines) = "ok"
    BY DEF BookInv, NewWorkOK
  <1>3. PICK b \in Menu : b = body[p]
    BY <1>1
  <1> DEFINE lines == b.lines
             D == { i \in DOMAIN lines : lines[i].account = a }
             row == [i \in DOMAIN lines |-> [txn |-> p, line |-> i, tenant |-> b.tenant,
                                  account |-> lines[i].account, amount |-> lines[i].amount]]
  <1>4. IsFiniteSet(D) /\ \A i \in DOMAIN lines : lines[i].amount \in Int
    <2>1. lines \in Seq(EntryInput) /\ DOMAIN lines = 1 .. Len(lines) /\ Len(lines) \in Nat
      BY MenuBodies
    <2>2. IsFiniteSet(DOMAIN lines)
      BY <2>1, FS_Interval
    <2>3. \A i \in DOMAIN lines : lines[i] \in EntryInput
      BY <2>1
    <2> QED
      BY <2>2, <2>3, FS_Subset DEF EntryInput
  <1>5. On(a, work[p]) = { row[i] : i \in D }
    <2>1. work[p] = { row[i] : i \in DOMAIN lines }
      BY <1>2, <1>3 DEF EntriesOf
    <2>2. \A i \in DOMAIN lines : row[i].account = lines[i].account
      OBVIOUS
    <2> HIDE DEF row, lines
    <2> QED
      BY <2>1, <2>2 DEF On
  <1>6. /\ \A i \in D : row[i].amount = lines[i].amount /\ row[i].line = i
        /\ \A i, j \in D : row[i] = row[j] => i = j
    OBVIOUS
  <1>7. LineTotal(lines, D) >= -Half
    BY DEF DebitsFit
  <1> HIDE DEF row, D, lines
  <1>8. \A i \in D : lines[i].amount \in Int
    BY <1>4 DEF D
  <1>9. Total({ row[i] : i \in D }) = LineTotal(lines, D)
    BY <1>4, <1>6, <1>8, TotalOfRows
  <1> QED
    BY <1>5, <1>7, <1>9

\* Entries that post land on a balance that covers them: their account is still
\* locked by the request that checked it (ReservedOK), and the check cannot
\* have been deceived by a sum that wrapped.
LEMMA PostCovers ==
    ASSUME IInv, NonNegativeBalances, NEW p \in Request, Checked(p),
           transactions[TxnOf(p)].status # StatusPosted, Amounts(PostedEntries), Amounts(work[p]),
           PostedEntries \cap work[p] = {}, NEW a \in Account, Total(On(a, work[p])) >= -Half
    PROVE  Total(On(a, PostedEntries \cup work[p])) >= 0
  <1> DEFINE E == On(a, PostedEntries)
             F == On(a, work[p])
  <1>1. On(a, PostedEntries \cup work[p]) = E \cup F
    BY DEF On
  <1>2. Amounts(E) /\ Amounts(F) /\ E \cap F = {}
    <2>1. E \subseteq PostedEntries /\ F \subseteq work[p]
      BY DEF On
    <2> HIDE DEF E, F
    <2> QED
      BY <2>1, FS_Subset DEF Amounts
  <1>3. Total(E) >= 0 /\ Total(F) >= -Half
    BY DEF NonNegativeBalances, AccountBalance
  <1>4. a \in Accounts(work[p]) => Money(Total(E \cup F)) >= 0
    BY DEF IInv, ReservedOK
  <1>5. a \notin Accounts(work[p]) => F = {}
    BY DEF On, Accounts
  <1> HIDE DEF E, F
  <1>6. Total(E) \in Int /\ Total(F) \in Int /\ Total(E \cup F) = Total(E) + Total(F)
    BY <1>2, TotalType, TotalUnion
  <1>7. Half \in Nat
    BY ConstantsAssumption DEF Half
  <1>8. CASE a \in Accounts(work[p])
    <2>1. Total(E \cup F) \in Int /\ Total(E \cup F) >= -Half
      BY <1>3, <1>6, <1>7
    <2> QED
      BY <1>1, <1>4, <1>8, <2>1, ReadsNonNegative
  <1>9. CASE a \notin Accounts(work[p])
    <2>1. E \cup F = E
      BY <1>5, <1>9
    <2> QED
      BY <1>1, <1>3, <2>1
  <1> QED
    BY <1>8, <1>9

LEMMA CommitFunds ==
    ASSUME DebitsFit, IInv, BookInv, FundsInv, NEW p \in Request, pc[p] = "commit", Publish(p)
    PROVE  FundsInv'
  <1> USE NoneIsNobody
  <1>0. TypeOK /\ EntriesOK
    BY DEF IInv
  <1>1. Amounts(entries) /\ \A E \in SUBSET entries : Amounts(E)
    <2>1. \A e \in entries : e.amount \in Int
      BY <1>0 DEF TypeOK, Entry
    <2> QED
      BY <2>1, FS_Subset DEF FundsInv, Amounts
  <1>2. PostedEntries \in SUBSET entries
    BY DEF PostedEntries
  <1>3. ASSUME Amounts(work[p]), PostedEntries \cap work[p] = {},
               \A a \in Account : Total(On(a, work[p])) >= -Half
        PROVE  NonNegativeBalances'
    <2> SUFFICES ASSUME NEW a \in Account PROVE Total(On(a, PostedEntries')) >= 0
      BY DEF NonNegativeBalances, AccountBalance
    <2>1. CASE PostedEntries' = PostedEntries
      BY <2>1 DEF FundsInv, NonNegativeBalances, AccountBalance
    <2>2. CASE /\ Checked(p) /\ PostedEntries' = PostedEntries \cup work[p]
               /\ transactions[TxnOf(p)].status # StatusPosted
      <3>1. Total(On(a, PostedEntries \cup work[p])) >= 0
        BY <1>1, <1>2, <1>3, <2>2, PostCovers DEF FundsInv
      <3> QED
        BY <2>2, <3>1
    <2> QED
      BY <2>1, <2>2, PublishPosts
  <1>4. CASE CommitsNew(p)
    <2>1. Amounts(work[p]) /\ \A a \in Account : Total(On(a, work[p])) >= -Half
      <3>1. body[p].op \in Creating /\ InTransaction(p)
        BY <1>4 DEF CommitsNew, InTransaction
      <3>2. Amounts(work[p])
        <4>1. body[p] \in Menu
          BY <3>1 DEF IInv, CallOK
        <4>2. /\ work[p] = EntriesOf(p, body[p].tenant, body[p].lines)
              /\ ValidateEntries(body[p].lines) = "ok"
          BY <3>1 DEF BookInv, NewWorkOK
        <4> QED
          BY <4>1, <4>2, ValidRows
      <3> QED
        BY <3>1, <3>2, DebitOfNew
    <2>2. /\ \A e \in entries : e.txn # p
          /\ \A e \in work[p] : e.txn = p
          /\ entries' = entries \cup work[p]
          /\ \A t \in TxnId \ {p} : transactions'[t] = transactions[t]
      BY <1>0, <1>4 DEF CommitsNew, EntriesOK, TypeOK
    <2>3. IsFiniteSet(entries')
      BY <1>1, <2>1, <2>2, FS_Union DEF Amounts
    <2>4. ASSUME NEW t \in TxnId, NEW a \in Account, transactions'[t].status = StatusPending
          PROVE  Total(On(a, RowsOf(t)')) >= -Half
      <3>1. CASE t = p
        <4>1. RowsOf(t)' = work[p]
          BY <2>2, <3>1 DEF RowsOf
        <4> QED
          BY <2>1, <4>1
      <3>2. CASE t # p
        <4>1. RowsOf(t)' = RowsOf(t)
          BY <2>2, <3>2 DEF RowsOf
        <4> QED
          BY <2>2, <2>4, <3>2, <4>1 DEF FundsInv
      <3> QED
        BY <3>1, <3>2
    <2>5. NonNegativeBalances'
      <3>1. PostedEntries \cap work[p] = {}
        BY <1>2, <2>2
      <3> QED
        BY <1>3, <2>1, <3>1
    <2>6. \A t \in TxnId, a \in Account :
             transactions'[t].status = StatusPending => Total(On(a, RowsOf(t)))' >= -Half
      BY <2>4 DEF On
    <2> QED
      BY <2>3, <2>5, <2>6 DEF FundsInv
  <1>5. CASE CommitsStatus(p)
    <2>1. /\ entries' = entries /\ body[p].txn \in TxnId
          /\ transactions[body[p].txn].status = StatusPending
          /\ work[p] = RowsOf(body[p].txn)
          /\ \A t \in TxnId : transactions'[t].status = StatusPending =>
                              transactions[t].status = StatusPending
      BY <1>0, <1>5 DEF CommitsStatus, RowsOf, TypeOK, NewStatus
    <2>2. \A t : RowsOf(t)' = RowsOf(t)
      BY <2>1 DEF RowsOf
    <2>3. NonNegativeBalances'
      <3>1. PostedEntries \cap work[p] = {} /\ work[p] \in SUBSET entries
        BY <2>1 DEF PostedEntries, RowsOf
      <3>2. \A a \in Account : Total(On(a, work[p])) >= -Half
        BY <2>1 DEF FundsInv
      <3> QED
        BY <1>1, <1>3, <3>1, <3>2
    <2>4. ASSUME NEW t \in TxnId, NEW a \in Account, transactions'[t].status = StatusPending
          PROVE  Total(On(a, RowsOf(t)')) >= -Half
      BY <2>1, <2>2, <2>4 DEF FundsInv
    <2>5. \A t \in TxnId, a \in Account :
             transactions'[t].status = StatusPending => Total(On(a, RowsOf(t)))' >= -Half
      BY <2>4 DEF On
    <2> QED
      BY <2>1, <2>3, <2>5 DEF FundsInv
  <1>6. CASE CommitsAccount(p)
    BY <1>6 DEF CommitsAccount, FundsInv, NonNegativeBalances, AccountBalance, PostedEntries, RowsOf
  <1> QED
    BY <1>4, <1>5, <1>6, PublishEffect

\* No interleaving of transfers, posts, fails, failures and deadlocks takes the
\* sum of an account's posted entries below zero, as long as no call debits one
\* account by more than int64 holds.  Without that the projection of
\* ExecuteTransfer and PostPendingTransaction wraps and the check is passed.
THEOREM BalancesStayNonNegative == DebitsFit => (Spec => []NonNegativeBalances)
  <1> SUFFICES ASSUME DebitsFit PROVE Spec => []NonNegativeBalances
    OBVIOUS
  <1>1. Init => FundsInv
    <2> SUFFICES ASSUME Init PROVE FundsInv
      OBVIOUS
    <2> USE ConstantsAssumption
    <2>1. entries = SeedEntries
      BY DEF Init
    <2>2. PostedEntries = { e \in SeedEntries : e.txn \notin SeedPending }
      BY SeedAssumption DEF Init, PostedEntries, TxnId, NoRow, Entry
    <2>3. \A t \in TxnId : transactions[t].status = StatusPending => t \in SeedPending
      BY DEF Init, TxnId, NoRow
    <2>4. NonNegativeBalances
      <3> SUFFICES ASSUME NEW a \in Account PROVE AccountBalance(a) >= 0
        BY DEF NonNegativeBalances
      <3>1. On(a, PostedEntries) = { e \in SeedEntries : e.txn \notin SeedPending /\ e.account = a }
        BY <2>2 DEF On
      <3> QED
        BY <3>1, SeedAssumption DEF AccountBalance
    <2>5. ASSUME NEW t \in TxnId, NEW a \in Account, transactions[t].status = StatusPending
          PROVE  Total(On(a, RowsOf(t))) >= -Half
      BY <2>1, <2>3, <2>5 DEF DebitsFit, RowsOf
    <2> QED
      BY <2>1, <2>4, <2>5 DEF FundsInv, DebitsFit
  <1>2. IInv /\ BookInv /\ FundsInv /\ [Next]_vars => FundsInv'
    <2> SUFFICES ASSUME IInv, BookInv, FundsInv, [Next]_vars PROVE FundsInv'
      OBVIOUS
    <2>1. CASE UNCHANGED tables
      BY <2>1 DEF tables, FundsInv, NonNegativeBalances, AccountBalance, PostedEntries, RowsOf
    <2>2. CASE \E p \in Request : pc[p] = "commit" /\ Publish(p)
      BY <2>2, CommitFunds
    <2> QED
      BY <2>1, <2>2, TablesStepOrCommit DEF vars
  <1>3. FundsInv => NonNegativeBalances
    BY DEF FundsInv
  <1> QED
    BY <1>1, <1>2, <1>3, BookInvariant, PTL DEF Spec

=============================================================================
