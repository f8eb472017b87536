------------------------------ MODULE Webhook ------------------------------
(***************************************************************************)
(* Outbox delivery: the job queue of internal/queue over the tables        *)
(* webhook_events and dead_letter_events, and the worker and service of    *)
(* internal/webhook that claim its rows and POST them.  Each API process   *)
(* runs one worker; the processes share the tables.                        *)
(*                                                                         *)
(* Time is relative: wait[e] is how long the row of e is still in the      *)
(* future, and queue lists the rows that are due in next_retry_at order.   *)
(***************************************************************************)
EXTENDS Integers, Sequences, FiniteSets

CONSTANTS
    Event,         \* the events the ledger may enqueue
    Tenant,
    TenantOf,      \* event -> tenant
    Worker,        \* one webhook worker per process
    BatchSize,     \* batchSize, DefaultBatchSize = 20
    MaxAttempts,   \* maxAttempts, DefaultMaxAttempts = 5
    BaseBackoff,   \* baseBackoff, DefaultBaseBackoff = 30s
    MaxBackoff,    \* maxBackoff, DefaultMaxBackoff = 1h
    MaxFaults      \* bound on crashes and failed statements

\* Below five units the spread of jitter is 0, and rand.Int panics on it.
ASSUME QueueAssumption ==
    /\ TenantOf \in [Event -> Tenant]
    /\ BatchSize \in Nat \ {0}
    /\ MaxAttempts \in Nat \ {0}
    /\ BaseBackoff \in Nat /\ BaseBackoff >= 5
    /\ MaxBackoff \in Nat /\ MaxBackoff >= BaseBackoff
    /\ MaxFaults \in Nat

VARIABLES
    status,        \* event -> webhook_events.status, absent when there is no row
    attempts,      \* event -> webhook_events.attempt_count
    wait,          \* event -> time until webhook_events.next_retry_at, 0 when due
    queue,         \* the due pending rows, earliest next_retry_at first
    deadLetters,   \* event -> its rows in dead_letter_events
    configured,    \* the tenants that have a webhook_url
    alive,         \* worker -> whether its process runs
    claim,         \* worker -> rows its open claim transaction has locked
    task,          \* worker -> event -> where its ProcessEvent goroutine is
    seen,          \* worker -> event -> ev.AttemptCount as claimed
    posts,         \* event -> POSTs made for it
    accepted,      \* the events whose receiver took them with a 2xx
    faults         \* crashes and failed statements so far

rows == <<status, attempts, wait, queue>>
vars == <<rows, deadLetters, configured, alive, claim, task, seen, posts, accepted, faults>>

Statuses == {"absent", "pending", "processing", "delivered", "failed"}
Stages == {"none", "deliver", "delivered", "unconfigured", "failed"}

Init ==
    /\ status = [e \in Event |-> "absent"]
    /\ attempts = [e \in Event |-> 0]
    /\ wait = [e \in Event |-> 0]
    /\ queue = <<>>
    /\ deadLetters = [e \in Event |-> 0]
    /\ configured \in SUBSET Tenant
    /\ alive = [w \in Worker |-> TRUE]
    /\ claim = [w \in Worker |-> {}]
    /\ task = [w \in Worker |-> [e \in Event |-> "none"]]
    /\ seen = [w \in Worker |-> [e \in Event |-> 0]]
    /\ posts = [e \in Event |-> 0]
    /\ accepted = {}
    /\ faults = 0

-----------------------------------------------------------------------------
\* The ledger's transaction commits with its outbox row: pending, due now.
\* next_retry_at is the start of that transaction, so the row may come before
\* rows that are due already.
Enqueue(e) ==
    /\ status[e] = "absent"
    /\ status' = [status EXCEPT ![e] = "pending"]
    /\ \E i \in 0 .. Len(queue) :
          queue' = SubSeq(queue, 1, i) \o <<e>> \o SubSeq(queue, i + 1, Len(queue))
    /\ UNCHANGED <<attempts, wait, deadLetters, configured, alive, claim, task, seen,
                   posts, accepted, faults>>

\* An operator sets or clears a tenant's webhook_url in the database.
Configure(t) ==
    /\ configured' = (configured \ {t}) \cup ({t} \ configured)
    /\ UNCHANGED <<rows, deadLetters, alive, claim, task, seen, posts, accepted, faults>>

\* Time passes; the rows that become due join the queue in some order.
Tick ==
    /\ \E e \in Event : wait[e] > 0
    /\ wait' = [e \in Event |-> IF wait[e] > 0 THEN wait[e] - 1 ELSE 0]
    /\ LET due == { e \in Event : wait[e] = 1 }
       IN  \E s \in [1..Cardinality(due) -> due] :
              /\ \A e \in due : \E i \in DOMAIN s : s[i] = e
              /\ queue' = queue \o s
    /\ UNCHANGED <<status, attempts, deadLetters, configured, alive, claim, task, seen,
                   posts, accepted, faults>>

-----------------------------------------------------------------------------
\* The first BatchSize rows of the queue outside a set of locked rows.
FirstDue(locked) ==
    LET open == { i \in DOMAIN queue : status[queue[i]] = "pending" /\ queue[i] \notin locked }
    IN  { queue[i] : i \in { i \in open : Cardinality({ j \in open : j <= i }) <= BatchSize } }

\* Mutant: the subquery has no FOR UPDATE SKIP LOCKED.
NextBatchUnlocked == FirstDue({})
\* ORDER BY next_retry_at LIMIT $1 FOR UPDATE SKIP LOCKED.
NextBatch == FirstDue(UNION { claim[w] : w \in Worker })

\* processBatch returns before the next tick of the poll ticker is served.
Idle(w) == alive[w] /\ claim[w] = {} /\ \A e \in Event : task[w][e] = "none"

\* ClaimPending: the claim transaction locks its rows.
ClaimPending(w) ==
    /\ Idle(w)
    /\ NextBatch # {}
    /\ claim' = [claim EXCEPT ![w] = NextBatch]
    /\ UNCHANGED <<rows, deadLetters, configured, alive, task, seen, posts, accepted, faults>>

\* The rows of a queue outside a set, in their order.
Without(q, S) ==
    LET kept[i \in 0..Len(q)] ==
          IF i = 0 THEN <<>>
          ELSE IF q[i] \in S THEN kept[i - 1] ELSE Append(kept[i - 1], q[i])
    IN  kept[Len(q)]

\* The claim becomes visible and its locks are released.
MarkProcessing(w) ==
    /\ claim[w] # {}
    /\ status' = [e \in Event |-> IF e \in claim[w] THEN "processing" ELSE status[e]]
    /\ queue' = Without(queue, claim[w])
    /\ claim' = [claim EXCEPT ![w] = {}]
    /\ UNCHANGED <<attempts, wait, deadLetters, configured, alive, posts, accepted>>

\* The claim commits and one goroutine per row starts.
CommitClaim(w) ==
    /\ MarkProcessing(w)
    /\ task' = [task EXCEPT ![w] = [e \in Event |-> IF e \in claim[w] THEN "deliver" ELSE "none"]]
    /\ seen' = [seen EXCEPT ![w] = [e \in Event |-> IF e \in claim[w] THEN attempts[e] ELSE @[e]]]
    /\ UNCHANGED faults

\* The claim commits but tx.Commit returns an error: processBatch drops the
\* rows it has claimed.
CommitClaimUnacknowledged(w) ==
    /\ faults < MaxFaults
    /\ MarkProcessing(w)
    /\ faults' = faults + 1
    /\ UNCHANGED <<task, seen>>

\* The claim query or its commit fails and is rolled back.
ClaimFails(w) ==
    /\ faults < MaxFaults
    /\ claim[w] # {}
    /\ claim' = [claim EXCEPT ![w] = {}]
    /\ faults' = faults + 1
    /\ UNCHANGED <<rows, deadLetters, configured, alive, task, seen, posts, accepted>>

-----------------------------------------------------------------------------
SetTask(w, e, stage) == task' = [task EXCEPT ![w][e] = stage]

\* deliver: no endpoint, or one POST, or a URL no request can be built from.
\* A POST without a 2xx answer may or may not have been taken by the receiver.
Deliver(w, e) ==
    /\ task[w][e] = "deliver"
    /\ \/ /\ TenantOf[e] \notin configured
          /\ SetTask(w, e, "unconfigured")
          /\ UNCHANGED <<posts, accepted>>
       \/ /\ TenantOf[e] \in configured
          /\ posts' = [posts EXCEPT ![e] = @ + 1]
          /\ \/ SetTask(w, e, "delivered") /\ accepted' = accepted \cup {e}
             \/ SetTask(w, e, "failed") /\ accepted' \in {accepted, accepted \cup {e}}
       \/ /\ TenantOf[e] \in configured
          /\ SetTask(w, e, "failed")
          /\ UNCHANGED <<posts, accepted>>
    /\ UNCHANGED <<rows, deadLetters, configured, alive, claim, seen, faults>>

\* The endpoint lookup fails: not ErrNoEndpointConfigured, so it counts as a
\* failed attempt although nothing was sent.
LookupFails(w, e) ==
    /\ faults < MaxFaults
    /\ task[w][e] = "deliver"
    /\ SetTask(w, e, "failed")
    /\ faults' = faults + 1
    /\ UNCHANGED <<rows, deadLetters, configured, alive, claim, seen, posts, accepted>>

\* jitter: d - d/5 plus a random number below 2 * (d/5).
Jitter(d) == (d - d \div 5)..(d + d \div 5 - 1)

\* backoffForAttempt: doubled with every attempt, capped, then spread.  A
\* float64 product that no longer fits a Duration converts to a negative one.
BackoffForAttempt(n) ==
    LET raw == BaseBackoff * 2^(n - 1)
    IN  Jitter(IF raw > MaxBackoff \/ raw <= 0 THEN MaxBackoff ELSE raw)

\* ScheduleRetry.
ScheduleRetry(e, n, delay) ==
    /\ status' = [status EXCEPT ![e] = "pending"]
    /\ attempts' = [attempts EXCEPT ![e] = n]
    /\ wait' = [wait EXCEPT ![e] = delay]
    /\ UNCHANGED <<queue, deadLetters>>

MarkDelivered(w, e) ==
    /\ task[w][e] = "delivered"
    /\ status' = [status EXCEPT ![e] = "delivered"]
    /\ SetTask(w, e, "none")
    /\ UNCHANGED <<attempts, wait, queue, deadLetters, configured, alive, claim, seen,
                   posts, accepted, faults>>

\* Mutant: the branch logs and returns without ScheduleRetry.
SkipUnconfiguredAndForget(w, e) ==
    /\ task[w][e] = "unconfigured"
    /\ SetTask(w, e, "none")
    /\ UNCHANGED <<rows, deadLetters, configured, alive, claim, seen, posts, accepted, faults>>
\* Mutant: ErrNoEndpointConfigured is taken for success.
SkipUnconfiguredAsDelivered(w, e) ==
    /\ task[w][e] = "unconfigured"
    /\ status' = [status EXCEPT ![e] = "delivered"]
    /\ SetTask(w, e, "none")
    /\ UNCHANGED <<attempts, wait, queue, deadLetters, configured, alive, claim, seen,
                   posts, accepted, faults>>
\* ErrNoEndpointConfigured: back to pending, attempt_count unchanged.
SkipUnconfigured(w, e) ==
    /\ task[w][e] = "unconfigured"
    /\ ScheduleRetry(e, seen[w][e], BaseBackoff)
    /\ SetTask(w, e, "none")
    /\ UNCHANGED <<configured, alive, claim, seen, posts, accepted, faults>>

\* Mutant: attempt > maxAttempts.
ExhaustedLate(w, e) == seen[w][e] + 1 > MaxAttempts
\* attempt >= maxAttempts.
Exhausted(w, e) == seen[w][e] + 1 >= MaxAttempts

\* Mutant: the dead letter and the row are written in two transactions.
DeadLetterRowOnly(w, e) == UNCHANGED status
\* The second statement of MoveToDeadLetter.
MarkFailed(w, e) == status' = [status EXCEPT ![e] = "failed"]

\* MoveToDeadLetter and its commit: both rows or none.
MoveToDeadLetter(w, e) ==
    /\ task[w][e] = "failed"
    /\ Exhausted(w, e)
    /\ deadLetters' = [deadLetters EXCEPT ![e] = @ + 1]
    /\ MarkFailed(w, e)
    /\ SetTask(w, e, "none")
    /\ UNCHANGED <<attempts, wait, queue, configured, alive, claim, seen, posts, accepted, faults>>

\* Mutant: the retry is stored with the attempt count it was claimed with.
NextAttemptUncounted(w, e) == seen[w][e]
\* attempt := ev.AttemptCount + 1.
NextAttempt(w, e) == seen[w][e] + 1

RetryLater(w, e) ==
    /\ task[w][e] = "failed"
    /\ ~Exhausted(w, e)
    /\ \E delay \in BackoffForAttempt(seen[w][e] + 1) :
          ScheduleRetry(e, NextAttempt(w, e), delay)
    /\ SetTask(w, e, "none")
    /\ UNCHANGED <<configured, alive, claim, seen, posts, accepted, faults>>

\* The statement that would record the outcome fails: it is logged, and the
\* row stays 'processing'.
RecordingFails(w, e) ==
    /\ faults < MaxFaults
    /\ task[w][e] \in {"delivered", "unconfigured", "failed"}
    /\ SetTask(w, e, "none")
    /\ faults' = faults + 1
    /\ UNCHANGED <<rows, deadLetters, configured, alive, claim, seen, posts, accepted>>

\* workerCancel at shutdown, which nobody waits for, a panic in a goroutine,
\* or a crash: the open claim is rolled back and the goroutines are gone.
Stop(w) ==
    /\ faults < MaxFaults
    /\ alive[w]
    /\ alive' = [alive EXCEPT ![w] = FALSE]
    /\ claim' = [claim EXCEPT ![w] = {}]
    /\ task' = [task EXCEPT ![w] = [e \in Event |-> "none"]]
    /\ faults' = faults + 1
    /\ UNCHANGED <<rows, deadLetters, configured, seen, posts, accepted>>

\* The process is started again; nothing looks at 'processing' rows.
Restart(w) ==
    /\ ~alive[w]
    /\ alive' = [alive EXCEPT ![w] = TRUE]
    /\ UNCHANGED <<rows, deadLetters, configured, claim, task, seen, posts, accepted, faults>>

-----------------------------------------------------------------------------
ProcessEvent(w, e) ==
    \/ Deliver(w, e)
    \/ MarkDelivered(w, e) \/ SkipUnconfigured(w, e)
    \/ MoveToDeadLetter(w, e) \/ RetryLater(w, e)

Poll(w) == ClaimPending(w) \/ CommitClaim(w)

Next ==
    \/ \E e \in Event : Enqueue(e)
    \/ \E t \in Tenant : Configure(t)
    \/ Tick
    \/ \E w \in Worker :
          \/ Poll(w) \/ ClaimFails(w) \/ CommitClaimUnacknowledged(w)
          \/ \E e \in Event : ProcessEvent(w, e) \/ LookupFails(w, e) \/ RecordingFails(w, e)
          \/ Stop(w) \/ Restart(w)

Spec == Init /\ [][Next]_vars

\* The ticker of a running worker fires, goroutines are scheduled, HTTP calls
\* end (10s client timeout), time passes, and a stopped process is restarted.
Fairness ==
    /\ WF_vars(Tick)
    /\ \A w \in Worker : WF_vars(Poll(w)) /\ WF_vars(Restart(w))
    /\ \A w \in Worker, e \in Event : WF_vars(ProcessEvent(w, e))
FairSpec == Spec /\ Fairness

-----------------------------------------------------------------------------
\* The type invariant; a stored attempt count always leaves one attempt.
TypeOK ==
    /\ status \in [Event -> Statuses]
    /\ attempts \in [Event -> 0..(MaxAttempts - 1)]
    /\ wait \in [Event -> Nat]
    /\ queue \in Seq(Event)
    /\ deadLetters \in [Event -> Nat]
    /\ configured \subseteq Tenant
    /\ alive \in [Worker -> BOOLEAN]
    /\ claim \in [Worker -> SUBSET Event]
    /\ task \in [Worker -> [Event -> Stages]]
    /\ seen \in [Worker -> [Event -> 0..(MaxAttempts - 1)]]
    /\ posts \in [Event -> Nat]
    /\ accepted \subseteq Event
    /\ faults \in 0..MaxFaults

\* An event being processed belongs to one worker, its row is 'processing',
\* and the attempt count the worker works from is the row's: the updates of
\* MarkDelivered, ScheduleRetry and MoveToDeadLetter, which name the row by
\* id alone, never meet another worker's.
HeldByOneWorker ==
    \A w \in Worker, e \in Event :
       task[w][e] # "none" =>
          /\ status[e] = "processing"
          /\ seen[w][e] = attempts[e]
          /\ \A v \in Worker \ {w} : task[v][e] = "none" /\ e \notin claim[v]

\* A row is failed exactly when it has its one dead letter.
DeadLetteredOnce ==
    \A e \in Event : deadLetters[e] = IF status[e] = "failed" THEN 1 ELSE 0

\* An event is POSTed at most MaxAttempts times, whatever fails.
PostsAreBounded == \A e \in Event : posts[e] <= MaxAttempts

\* An event marked delivered was taken by its receiver.
DeliveredWasAccepted == \A e \in Event : status[e] = "delivered" => e \in accepted

\* Delivered and failed are final.
SettledForGood ==
    [][\A e \in Event : status[e] \in {"delivered", "failed"} => status'[e] = status[e]]_vars

\* Without crashes and failed statements, an event of a tenant that keeps an
\* endpoint is delivered or dead-lettered, even when the events of another
\* tenant wait forever for theirs and fill the batches.
EveryEventSettles ==
    \A e \in Event :
       <>[](TenantOf[e] \in configured) =>
          (status[e] = "pending" ~> status[e] \in {"delivered", "failed"})

\* docs/adr/0002: "a worker crash after a successful HTTP call but before
\* MarkDelivered commits would cause that event to be retried".
CrashedDeliveryIsRetried ==
    \A e \in Event :
       ( /\ status[e] = "processing" /\ e \in accepted
         /\ \A w \in Worker : task[w][e] = "none"
         /\ \E w \in Worker : ~alive[w] )
       ~> status[e] # "processing"

=============================================================================
