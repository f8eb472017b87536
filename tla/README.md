# Transacta: a TLA+ verification project

Transacta (`src/`) is a multi-tenant double-entry ledger behind an HTTP API, in Go
over PostgreSQL. It moves money between accounts, deduplicates requests by an
`Idempotency-Key`, reports every state change through a transactional outbox to
webhook receivers, and keeps user sessions with rotating refresh tokens. All of its
state is in one PostgreSQL database that any number of API processes share, each
with its own webhook worker. Nothing in a process survives a request, so all that
is hard about the system lies in how statements of concurrent requests, workers and
crashes interleave.

## Inventory

| Part | State it keeps | Operations | Hard behaviour | Correct when |
|---|---|---|---|---|
| Ledger engine, `internal/ledger` | `accounts`, `transactions`, `entries` | CreateAccount, ExecuteTransfer, CreatePendingTransaction, PostPendingTransaction, FailPendingTransaction | READ COMMITTED transactions, `FOR UPDATE` in id order, foreign-key locks, compare-and-swap on status, int64 sums, lost commits | balances never negative; money conserved; a transaction settles once; rows, events and audit rows appear together or not at all |
| Idempotency, `internal/middleware/idempotency` | `idempotency_keys` | ClaimOrGet, Complete, replay | leases, reclaim, clocks of several servers, late completion, crash between commit and Complete | fencing keeps a late writer out; a replay is a genuine answer |
| Job queue and webhook delivery, `internal/queue`, `internal/webhook` | `webhook_events`, `dead_letter_events` | Enqueue, ClaimPending, deliver, MarkDelivered, ScheduleRetry, MoveToDeadLetter | several workers, `SKIP LOCKED`, claim committed before the POST, retries, shutdown that waits for nobody | one worker per row; bounded POSTs; one dead letter; settled for good; nobody starves |
| Sessions, `internal/auth` | `users`, `refresh_tokens` | Register, Login, Refresh, Logout | rows read outside the transaction that uses them, rotation races, mass revocation on reuse | a session never forks; a spent token stays spent; audit rows match |
| Audit trail, `internal/audit` | `audit_log` | RecordAudit, List | written in the caller's transaction | as above, inside Ledger and Auth |
| HTTP edge: `cmd/api`, `internal/middleware/auth`, `internal/tenants`, `internal/middleware/recovery` | none of its own; reads `users`, `role_permissions`, `tenants` | one handler per route, JWT and RBAC checks, the API-key gate | the role in a token ages, users are disabled while they act, two tenants use one key, unknown errors are 422, recovery sits outside idempotency so a panic skips Complete | an answer stays true; tenants stay apart; permissions are those of the database |
| Configuration, logging, metrics, signing | none that is read back | | | see "Not modelled" |

The parts meet in four places. The ledger's transaction calls
`webhook.Repository.EnqueueEvent` and `audit.Repository.RecordAudit` with its own
`*sql.Tx`: in `Ledger` these rows are staged and committed with the rest, and in
`Webhook` the same commit is the action `Enqueue`. The idempotency middleware wraps
the ledger's handlers: in `Idempotency` the handler's commit is `TakeEffect`.
`cmd/api/main.go` starts and cancels the worker: `Restart` and `Stop`. It also mounts
the chain each request travels through, with users, ledger, audit log and keys of all
tenants: `Api` composes the parts there.
`PROJECT.json` lists every hazard at its line with the properties that watch it.

## Modules

| Module | Stands for |
|---|---|
| `LedgerTypes` | money as a w-bit integer, entry rows, statuses, events; the constants and their assumptions |
| `Ledger` | the five write operations, statement by statement |
| `Book` | the abstract specification: an atomic double-entry book over the committed tables |
| `LedgerProofs` | TLAPS theorems about `Ledger`: the inductive invariant, types, tenants |
| `LedgerBookProofs` | more of them: the refinement of `Book`, settlement, answers, outbox, history, deadlocks, conservation, balances |
| `LedgerSums` | lemmas about sums of entry rows |
| `Idempotency`, `IdempotencyProofs` | one `(tenant, key)` pair of the middleware and its table; theorems about it |
| `Webhook`, `WebhookProofs` | the queue tables, the workers, delivery; theorems about them |
| `Auth`, `AuthProofs` | users, refresh tokens and the four session operations; theorems about them |
| `Api`, `ApiProofs` | the request chain of `cmd/api` over the other parts, for several tenants; theorems about it |
| `PairProofs` | the refinement proof: each (tenant, key) pair of `Api` is an `Idempotency` |
| `MCLedger`, `MCIdempotency`, `MCWebhook`, `MCAuth`, `MCApi` | instances for TLC |

### Ledger

A request runs one service method. `pc[p]` is the next statement: `load`
(GetTransaction), `lock` (LockAccountsForUpdate, one row per step), `insert`
(InsertTransactionWithEntries, one entry per step), `account`, `update`
(UpdateTransactionStatusGuarded), `emit` (emitEvent, then recordAudit), `commit`.
What a transaction writes is `staged[p]` until `Publish` makes all of it visible;
`Rollback` is the deferred `tx.Rollback`. Row locks are explicit: `forUpdate`
(the lock query), `keyShare` (what `entries.account_id REFERENCES accounts` takes,
in the caller's entry order), `rowLock` (an uncommitted UPDATE of a transaction
row). `DeadlockDetected` fails a member of a cycle of waiters, as PostgreSQL does.
`Fault` is any failed statement, cancelled context, panic or crash;
`CommitUnacknowledged` is a commit whose answer is lost. `Money(x)` wraps at
`MoneyModulus`, so `Sum` and the projected balances behave like int64; `AccountBalance`
is PostgreSQL's SUM, which is numeric and does not wrap, and a balance out of range fails
the query that reads it.

A post reads the transaction before it waits for the account locks. When it wakes
up after the winner of a race committed, it projects the same entries twice; the
model keeps that (`Projected`): such a loser may be
told ErrInsufficientFunds, where the comment of integration_test.go:217 expects a
status conflict.

The balance query runs after the lock query, in the same action (`ReadBalances`):
nobody can post to a locked account in between. Accounts of the model are numbers
because the code locks in id order. Reading a transaction and its entries is one
action since entries of a committed transaction never change.

### Book and the refinement

`Book` has no requests, locks or failures: Transfer, CreatePending, Post, Fail and
CreateAccount are single steps on the committed tables with their event and audit
row. `ImplementsBook` instantiates it on the tables of `Ledger`
(`INSTANCE Book WITH`, each table mapped to itself: what differs is the grain of the steps); every commit must
be a `Book` step whose preconditions hold at that moment (`Covered`: each account
belongs to the tenant and stays non-negative), and every other step must leave the
tables alone. That is what the row locks are for.

### Idempotency

All queries name tenant and key, so one pair is the whole system. `stamp[p]` is the
clock `ClaimOrGet` reads before its query is sent; it may differ from real time by
`MaxSkew` and the query may run any time later. After a claim it is the fencing
token. `TakeEffect` is the handler's commit, `Respond` its answer through the
recorder (the client has it before anything is stored), `Panic`, `Crash`,
`ClaimUnacknowledged` and `CompleteFails` are the ways out. A completion reads its
clock after the claim did, on the same server: `CompleteWrite` assumes that clock
does not run backwards within a request.

`ClaimsAreSpaced` and `ExecutionsAreSpaced` are about tokens, readings of the servers'
clocks. They make `created_at` a fencing token; they do not keep two handlers apart in real
time: with lease 1 and skew 1 a server whose clock reads -1 and one whose clock reads +1 both
claim at time 0, and the run contains that behaviour.

### Webhook

Time is relative: `wait[e]` counts down to `next_retry_at` and `queue` keeps the due
rows in that order; a new row may enter before others, as its `next_retry_at` is the start
of the ledger's transaction. `ClaimPending` locks rows (`SKIP LOCKED`), `CommitClaim` makes
them 'processing' and starts one goroutine each; `Deliver` is one POST, whose failure
may hide an accepted request; the outcome is recorded by `MarkDelivered`,
`SkipUnconfigured`, `RetryLater` or `MoveToDeadLetter`. `RecordingFails`, `Stop` and
`CommitClaimUnacknowledged` leave the row 'processing', and no action of the code
looks at such rows again.

### Auth

`Refresh` and `Logout` read the token outside a transaction (`Lookup`), so the row
may have changed when `Rotate` or `Revoke` reaches it; both wait for an uncommitted
writer and test their WHERE clause again. `now()` in the rotation is the start of the
transaction, so a token that expired since the lookup may or may not be rotated. `RevokeAll` takes a statement snapshot of
the user's active tokens, and `RevokeNext` visits those rows in table order. That
two mass revocations of one user visit rows in the same order is an assumption about
the database. `session` and `condemned` are history variables.

### Api

A request is a call of `Menu` and takes the steps of the chain `main.go` mounts for its
route: `Admit` (authmw.Middleware, RequirePermission, the missing-key test; only the
permission query reads shared state, so they are one step), `Claim` and `GetExisting`
(idempotency), one action per handler, `Respond`, `Complete`. Reads go from `Admit` to
their handler; `RequireTenantAPIKey` and `RegisterHandler`, and `CheckUser` and
`IssueToken` or `RotationRefused` (Login and Refresh, which read the user before their
transaction) and `LogoutHandler` are the public routes. Which refresh tokens a user has is
`Auth`'s; here whoever was sent an access token holds one. An access token is good while
`now < exp`. Status codes are those of writeTransferError and writeAuthError. The
ledger service is one step, `Commit` or `Reject`: that it looks like one is what
`ImplementsBook` shows. A handler may answer 422 after a commit, because an unknown error
of `tx.Commit` is one. The refusals are nondeterministic where they depend on what `Api`
does not keep (balances, the input's form) and determined where they depend on the row
(404, 409). `SetRole` and `SetStatus` are an operator's updates in the database, external
to the code; `Edit` also keeps `held`, a history variable: the requests whose user had the
permission of the route at some moment since they arrived.

`Pair(t, k)` instantiates `Idempotency` for one tenant and key, with the refinement mapping
a request's place in the chain to its place in the middleware, and its audit row to
`executed`. `EachPairIsIdempotent` says that every step of the whole system is a step of
`Idempotency` or a stutter for each pair, so the claim "one pair is the whole system" on
which that module rests is checked, and its theorems carry over to every pair.

What the properties of this run turn on: that RequirePermission asks the database and not
the token (`NeedsPermission`); that it does not look at the user's status, so a disabled
user acts until the token expires, and what is true instead is `LockedOutStaysOut`: no new
token and no effect but the audit row of a Logout, which does not look at the status either; that
the idempotency key is scoped by tenant; that 400, 404 and 409 follow only from a rollback
while 422 and 500 leave the client in doubt (`AnswersHoldTrue`).

## Runs

Deadlock checking is on everywhere except in the Idempotency and Api runs, where all requests
may be over and time has reached its bound.

| Run | Bounds | Shows |
|---|---|---|
| `ledger_race` | 3 requests, 6 calls over accounts 1 and 2 and one pending transaction, 1 fault, `FairSpec` | non-negative balances, one settlement, lock cycles only with a pending call in them, `ImplementsBook`, every call answered |
| `ledger_lifecycle` | 3 requests, 17 calls: each operation, each refusal, foreign and missing accounts, 1 fault | types, tenant boundary of posted entries, outbox and audit agree with the tables, honest outcomes, conservation, append-only history, `ImplementsBook` |
| `idempotency_claims` | 3 requests, 2 bodies, lease 1, retention 2, skew 1, time 2, 2 completion tries | spacing of the tokens of claims and of effects, fencing, genuine replays, completed rows last |
| `webhook_claims` | 2 workers, 2 events, batches of 1, 3 attempts, 1 fault | one worker per row, one dead letter, bounded POSTs, delivered means accepted, final states |
| `webhook_live` | 1 worker, 2 tenants, batches of 1, 2 attempts, `FairSpec` | events settle although another tenant has no endpoint |
| `auth_sessions` | 3 requests, 2 users, 7 calls, 1 fault, `FairSpec` | no forked session, linked rotation chain, final logout, revocation for a cause only, audit rows match, every call answered |
| `api_requests` | 2 requests of 16 calls over every route, 2 tenants with one key, 2 users (an admin and a service user) and those who register, lease 0, retention 0, access tokens good for 2, time 1, one fault or operator's edit | true answers, separate tenants, current permissions, lock-out of disabled users, each pair an instance of `Idempotency` |

Three requests are the least with which a winner, a loser and a bystander meet, and
with which a key is claimed, reclaimed and completed late. One fault is enough for
each single point of failure; the proofs below have no such bound. `MoneyModulus`
is 64 where overflow is not the question (sums stay far below 32), and 16 in the
overflow run. In `api_requests` a lease of 0 ends with the next tick, so that one
tick is enough for a reclaim, an expired row and an expired token (one user's token outlives
it, the other's does not). Two requests race for a key or an object; what takes three, a replay
after a third request settled the object, is left to the theorem `AnswersStayTrue`, and races of
three on one key are those of `idempotency_claims`. Batches of one row make two workers, or two tenants, contend for each
claim. `BaseBackoff` 5 is the least for which the 20% jitter is not empty.

Five runs are expected to be violated; each states what a doc, comment or test says.

| Run | The claim | What TLC finds |
|---|---|---|
| `ledger_overflow` | entries "must sum to zero" (docs/API.md) | two debits of half the int64 range from one account sum to 0 in int64, leave the projected balance as it was, and are posted: the account ends below zero |
| `ledger_cross_tenant` | "no code path constructs a transaction whose entries reference accounts from more than one tenant" (ADR-0004) | CreatePendingTransaction does: it makes no account lookup. Posting such a transaction fails (`PostedWithinTenant`, proved) |
| `idempotency_rerun` | "The handler does not run again" (docs/API.md) | crash between commit and Complete, lease over, retry: it runs again. The same trace with another body runs that body instead of answering 422, as the reclaim overwrites the hash |
| `webhook_stranded` | a crash before MarkDelivered "would cause that event to be retried" (ADR-0002) | the row stays 'processing' for ever |
| `auth_reuse` | reuse is to "kill every active session for this user" (auth/service.go) | the successor a concurrent refresh has not committed yet survives |

## Fairness

`Ledger` and `Auth`: weak fairness of each request's own next statement (Go schedules
the goroutine, the database executes statements and grants free locks), and in
`Ledger` of the deadlock detector. `Webhook`: of the poll ticker, of each delivery
goroutine (the HTTP client has a 10s timeout), of time, and of restarting a stopped
process. Calls, faults, operator actions and enqueues are never fair: nothing makes
them happen.

## Proofs

TLAPS checks eight modules: `LedgerProofs`, `LedgerSums`, `LedgerBookProofs`,
`IdempotencyProofs`, `WebhookProofs`, `AuthProofs`, `ApiProofs` and `PairProofs`. The theorems hold for
every value of the constants that satisfies the named assumptions (`ConstantsAssumption`,
`SeedAssumption`, `MenuAssumption`, `ParametersAssumption`, `QueueAssumption`,
`AuthAssumption`, `ApiAssumption`), which TLC evaluates in the runs: any number of requests,
accounts, workers, tenants and users, any menu of calls, any number of faults, any time.

*Ledger.* `IInv` is inductive. For balances one must know at a commit that the checked
projection still stands. `ReservedOK` says so: from the
balance check on, a request holds `forUpdate` on each of its accounts, and the projection of
its entries on top of what is posted now is non-negative in int64. A commit of
another request that posts holds the locks of its own accounts, which are therefore
disjoint, so it does not touch the sums of this one. `StagedOK` and `WorkOK` say that
what a commit publishes is what was checked; `FreshOK` and `EntriesOK` that new rows
are not counted before they exist; `HeldOK` that a locked account is of the request's
tenant, which gives `PostedWithinTenant`. Theorems: `InductiveInvariant`,
`TypeCorrect`, `PostingStaysWithinTenant`.

*Ledger and Book.* `BookInv` adds what a request has staged and what was already reported:
a request on its way has no event, no audit row and no answer yet (`ReportsOK`, `AnswersOK`),
its entries are those of its body and passed ValidateEntries (`NewWorkOK`), events and
audit rows have the same authors and one settlement each (`EventsOK`, `SameAuthors`,
`SettlementsOK`), and an uncommitted status change locks its row (`LocksOK`). From
both invariants every commit is a `Book` operation whose preconditions hold at that very
moment, and every other step leaves the tables alone: `LedgerIsAtomic`, the refinement theorem,
initial states and steps. From them also follow `SettlesOnce`, `AnswersAreHonest`,
`OutboxIsExact`, and the action property `HistoryOnlyGrows`. `DeadlocksNeedPending`: a
transfer, post or fail waits for an account larger than all it holds, so along a cycle of
waiters the accounts would grow without end.

`MoneyIsConserved` rests on `ConservedInv` (what is pending adds up to zero) and on
`LedgerSums`: the sum of a finite set of rows does not depend on how it is split. Those lemmas
need induction over sets, which is replaced by a smallest counterexample
(the library's well-foundedness of strict subsets). The theorem has the hypothesis
`NoWrapAround`: genesis rows are finitely many, those pending add up to zero, and no menu entry's
amounts add up beyond the int64 range. Without the last one conservation is false, as
`ledger_overflow` shows; both instances of the passing runs satisfy all three.

`BalancesStayNonNegative` is about the exact sum of the posted entries, which PostgreSQL
computes, while the code tests a projection in int64. It has the hypothesis `DebitsFit`: no call
of the menu, and no transaction pending at the start, debits one account by more than half the
range net. `FundsInv` carries that to every pending transaction; with a balance of at least zero the
exact projection is then at least `-Half`, and such a number that is non-negative in Money really
is (`ReadsNonNegative`). Without the hypothesis the balance does go negative: the counterexample of `ledger_overflow` ends
with account 1 at 2 - 16; the instances of the passing runs satisfy it.

*Idempotency.* A claim succeeds only when the row has expired by its own clock reading, and
a live row expires a lease or more after its `created_at` (`RowOK`), so tokens only grow.
A request under a claim therefore holds the row's token or one more than a lease older,
and with the row's token the row is about its own request (`HolderOK`): that is why
`created_at` is a sound fencing token even with skewed clocks. `AttemptOK` and
`ResponseOK` carry what a request knows at each step to the stored and replayed answer.
Theorems: `InductiveInvariant`, `TypeCorrect`,
`ClaimsStaySpaced`, `FencingHolds`, `ReplaysAreGenuine`, and the action property
`CompletedRowsLast`, for any number of requests, any skew, any lease and retention
with `Lease <= Retention`. `ExecutionsStaySpaced` extends the spacing to requests that ended:
whoever took effect held a claim, and the row never goes back behind it (`EffectsOK`).

*Webhook.* Open claims lock disjoint sets of pending rows (`ClaimsOK`), and only a committed
claim makes a row 'processing'; so a row in delivery has one worker, whose attempt count is
still the row's. An attempt is counted after its POST, hence the POSTs of a row are at most
one ahead of the stored count (`PostsOK`), which stops below MaxAttempts. Theorems:
`TypeCorrect`, `OneWorkerPerEvent`, `OneDeadLetterPerFailure`, `PostsStayBounded`,
`DeliveredMeansAccepted`, `SettledStaysSettled`. That the due rows stay distinct when a
claim takes a batch out of them is again shown by a smallest counterexample (`Without`).

*Auth.* `LocksOK`: a row that a transaction has locked is active until it commits, and its
writer is the refresh or logout that names it or a mass revocation of its user. So a refresh
that commits takes the active token of its session and leaves one, its successor
(`SessionsNeverFork`, `RotationsFormChains`, from `ChainOK`: rotation is one-to-one). `CallOK`,
`NewOK` and `DoneOK` follow a call from its first read to what it leaves behind:
`AuditIsExact`, `LogoutIsFinal`, and the action properties `SupersededForGood` and
`RevocationsHaveCauses`.

*Api.* Claims, objects, audit rows and idempotency rows only grow (`Grows`), so what a reply says
when it is written (`GoodReply`) stays true. A completed row holds a good reply of a
request with its hash and tenant (`RecOK`), because a row whose `created_at` is a request's
own stamp still is that request's claim (`ClaimOK`): a reclaim is strictly later. Past
RequirePermission the request is in `held`, and an admitted one is as soon as its user's role
allows it (`HeldOK`). Theorems: `TypeCorrect`, `AnswersStayTrue`, `TenantsStaySeparate`,
`EffectsNeedPermission`, and the action property `LockoutIsFinal`. `ApiAssumption` says of the
menu what the router does: a path has an id on the routes that have one, the public routes read
no access token, a login names a user.

*Api and Idempotency.* `PairsAreIdempotent` is the second refinement theorem, the composition of
`Api` with `Idempotency`: initial states and steps, for every pair at once. The variables that
`Pair(t, k)` maps are written out as `MRec`, `MPc` and so on. A step of a request leaves all
others as they were (`Bystander`), so it changes the mapped variables of one pair and at one
request only (`Frame`, `Elsewhere`); there it is the step of that name (`ToClaim`,
`ToComplete` and so on). `PairInv` adds to the invariant of `ApiProofs` that a request has a clock
reading only between its claim and its end, and that what Complete stores is what its
client was sent; that a success follows a commit comes from `GoodReply`.

Only model-checked: liveness (`EveryRequestAnswered`, `EveryEventSettles`,
`EveryCallReturns`), which is beyond this prover. The refinements are proved of `Init` and the
steps, without fairness.

## Not modelled

- Signing (`webhook/signer.go`), bcrypt, API-key and token hashing, the JWT encoding: pure
  functions over opaque data, with no state to interleave. A credential is right or wrong.
- JSON decoding and encoding: a body is well-formed or answered 400; logging, metrics
  (`internal/metrics`, `internal/middleware/metrics`, `/metrics`), `/healthz`, configuration:
  no state that the program reads back.
- `queue.Get` and `webhook.GetEvent`: read-only, and called by tests only. The page size of
  the audit list: no instance reaches 50 rows.
- The panic of `jitter` for a backoff below five nanoseconds: the backoff is configuration,
  30 s by default, and `Webhook` assumes at least the bound.
- chi's Timeout: it cancels the context, which the models have as a failed statement.

## Plan

1. Done: `Ledger` with `Book`, `Idempotency`, `Webhook`, `Auth`, the composition `Api`; a theorem
   for every safety invariant and action property of the passing runs, and for both refinements.
2. To come: the theorems of `IdempotencyProofs`, stated of each pair of `Api` under their
   assumption `Lease <= Retention`, as corollaries of `PairsAreIdempotent`.
