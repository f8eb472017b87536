---------------------------- MODULE Idempotency ----------------------------
(***************************************************************************)
(* The idempotency middleware and its table, internal/middleware/          *)
(* idempotency, seen from one (tenant, key) pair: every query names both,  *)
(* so distinct pairs do not interact.  The attempts are the requests that  *)
(* carry the key, served by any number of processes that share the table.  *)
(* A claim of the row is fenced by the created_at that ClaimOrGet wrote.   *)
(***************************************************************************)
EXTENDS Integers, FiniteSets

CONSTANTS
    Attempt,               \* the requests that carry the key
    Hash,                  \* the values of requestHash(method, path, body)
    Lease,                 \* processingLease, DefaultProcessingLease = 30s
    Retention,             \* retentionTTL, DefaultTTL = 24h
    CompleteRetryAttempts, \* completeRetryAttempts = 3
    MaxSkew,               \* how far a server's clock may be from real time
    MaxTime,               \* bound on real time
    None

ASSUME ParametersAssumption ==
    /\ Lease \in Nat
    /\ Retention \in Nat
    /\ Lease <= Retention
    /\ CompleteRetryAttempts \in Nat \ {0}
    /\ MaxSkew \in Nat
    /\ MaxTime \in Nat
    /\ None \notin Attempt
    /\ None \notin Hash

VARIABLES
    now,        \* real time
    rec,        \* the row of the key, or NoRecord
    pc,         \* attempt -> where the middleware is
    hash,       \* attempt -> the hash of its request
    stamp,      \* attempt -> the clock its ClaimOrGet read; its token once it holds a claim
    code,       \* attempt -> what its handler answered, as the recorder kept it
    tries,      \* attempt -> calls of Complete that have failed
    answer,     \* attempt -> what its client was sent
    executed    \* the attempts whose handler took effect (a committed call)

vars == <<now, rec, pc, hash, stamp, code, tries, answer, executed>>

Steps == {"idle", "claim", "get", "handler", "complete", "done"}
Codes == {"none", "success", "error"}
Kinds == {"none", "ran", "replayed", "refused", "ErrKeyReused", "ErrInFlight", "internal"}

\* A row; by is the attempt whose handler produced the stored response.
Row(h, status, by, c, created, expires) ==
    [hash |-> h, status |-> status, by |-> by, code |-> c,
     created |-> created, expires |-> expires]
NoRecord == Row(None, "absent", None, "none", 0, 0)
Answer(kind, by, c) == [kind |-> kind, by |-> by, code |-> c]

\* An attempt that is working under a claim.
Claimed(p) == pc[p] \in {"handler", "complete"}

Init ==
    /\ now = 0
    /\ rec = NoRecord
    /\ pc = [p \in Attempt |-> "idle"]
    /\ hash = [p \in Attempt |-> None]
    /\ stamp = [p \in Attempt |-> 0]
    /\ code = [p \in Attempt |-> "none"]
    /\ tries = [p \in Attempt |-> 0]
    /\ answer = [p \in Attempt |-> Answer("none", None, "none")]
    /\ executed = {}

-----------------------------------------------------------------------------
\* The client is answered and the middleware returns.
Return(p, ans) ==
    /\ pc' = [pc EXCEPT ![p] = "done"]
    /\ answer' = [answer EXCEPT ![p] = ans]

\* The early returns: no Idempotency-Key, no tenant, an unreadable body.
Refuse(p) ==
    /\ pc[p] = "idle"
    /\ Return(p, Answer("refused", None, "none"))
    /\ UNCHANGED <<now, rec, hash, stamp, code, tries, executed>>

\* The body is hashed, and ClaimOrGet reads its server's clock before the
\* query leaves: the query may run, and be judged, arbitrarily later.
Receive(p) ==
    /\ pc[p] = "idle"
    /\ \E h \in Hash : hash' = [hash EXCEPT ![p] = h]
    /\ \E c \in (now - MaxSkew)..(now + MaxSkew) : stamp' = [stamp EXCEPT ![p] = c]
    /\ pc' = [pc EXCEPT ![p] = "claim"]
    /\ UNCHANGED <<now, rec, code, tries, answer, executed>>

\* Mutant: a completed row is taken over as soon as its lease would be over.
ClaimableAfterLease(p) ==
    rec.status = "absent" \/ rec.expires < stamp[p] \/ rec.created + Lease < stamp[p]
\* Mutant: a claim in progress gives way to another body.
ClaimableByOtherBody(p) ==
    rec.status = "absent" \/ rec.expires < stamp[p] \/ rec.hash # hash[p]
\* The INSERT succeeds, or ON CONFLICT ... WHERE expires_at < $4 holds.
Claimable(p) == rec.status = "absent" \/ rec.expires < stamp[p]

\* Mutant: the reclaim leaves created_at as the first claim wrote it.
ClaimRowKeepingToken(p) ==
    Row(hash[p], "processing", None, "none",
        IF rec.status = "absent" THEN stamp[p] ELSE rec.created, stamp[p] + Lease)
\* Mutant: the reclaim does not set response_code and response_body to NULL.
ClaimRowKeepingResponse(p) ==
    Row(hash[p], "processing", rec.by, rec.code, stamp[p], stamp[p] + Lease)
\* What the claim query writes.
ClaimRow(p) == Row(hash[p], "processing", None, "none", stamp[p], stamp[p] + Lease)

\* The claim query of ClaimOrGet: one statement, decided on the row as it is.
Claim(p) ==
    /\ pc[p] = "claim"
    /\ \/ /\ Claimable(p)
          /\ rec' = ClaimRow(p)
          /\ stamp' = [stamp EXCEPT ![p] = rec'.created]
          /\ pc' = [pc EXCEPT ![p] = "handler"]
       \/ /\ ~Claimable(p)
          /\ pc' = [pc EXCEPT ![p] = "get"]
          /\ UNCHANGED <<rec, stamp>>
    /\ UNCHANGED <<now, hash, code, tries, answer, executed>>

\* The claim was written but its answer was lost: the client is told 500 and
\* the row stays 'processing' with no one to complete it.
ClaimUnacknowledged(p) ==
    /\ pc[p] = "claim"
    /\ Claimable(p)
    /\ rec' = ClaimRow(p)
    /\ Return(p, Answer("internal", None, "none"))
    /\ UNCHANGED <<now, hash, stamp, code, tries, executed>>

\* Either query of ClaimOrGet fails: "idempotency check failed".
ClaimOrGetFails(p) ==
    /\ pc[p] \in {"claim", "get"}
    /\ Return(p, Answer("internal", None, "none"))
    /\ UNCHANGED <<now, rec, hash, stamp, code, tries, executed>>

\* Mutant: the stored hash is not compared.
HandleExistingAnyHash(p) ==
    IF rec.status = "processing" THEN Answer("ErrInFlight", None, "none")
    ELSE Answer("replayed", rec.by, rec.code)
\* handleExisting, in the order of its tests.
HandleExisting(p) ==
    IF rec.hash # hash[p] THEN Answer("ErrKeyReused", None, "none")
    ELSE IF rec.status = "processing" THEN Answer("ErrInFlight", None, "none")
    ELSE Answer("replayed", rec.by, rec.code)

\* The second query of ClaimOrGet reads whatever the row is by then.
GetExisting(p) ==
    /\ pc[p] = "get"
    /\ Return(p, HandleExisting(p))
    /\ UNCHANGED <<now, rec, hash, stamp, code, tries, executed>>

-----------------------------------------------------------------------------
\* The handler commits its database transaction.
TakeEffect(p) ==
    /\ pc[p] = "handler"
    /\ p \notin executed
    /\ executed' = executed \cup {p}
    /\ UNCHANGED <<now, rec, pc, hash, stamp, code, tries, answer>>

\* The handler writes its response through the recorder: the client has it
\* before anything is stored.  An error may follow a commit whose
\* acknowledgement was lost; a success always follows a commit.
Respond(p) ==
    /\ pc[p] = "handler"
    /\ \E c \in IF p \in executed THEN {"success", "error"} ELSE {"error"} :
          /\ code' = [code EXCEPT ![p] = c]
          /\ answer' = [answer EXCEPT ![p] = Answer("ran", p, c)]
    /\ pc' = [pc EXCEPT ![p] = "complete"]
    /\ UNCHANGED <<now, rec, hash, stamp, tries, executed>>

\* The handler panics: recovery is outside this middleware, so the stack
\* unwinds past Complete and the row stays 'processing'.
Panic(p) ==
    /\ pc[p] = "handler"
    /\ Return(p, Answer("internal", None, "none"))
    /\ UNCHANGED <<now, rec, hash, stamp, code, tries, executed>>

\* Mutant: the UPDATE is not fenced by created_at.
FencedByKeyOnly(p) == rec.status # "absent"
\* The UPDATE's WHERE created_at = $6.
Fenced(p) == rec.created = stamp[p]

\* The completed row; expires_at comes from a clock read after the claim's.
CompletedRow(p, c) == Row(rec.hash, "completed", p, code[p], rec.created, c + Retention)
CompleteWrite(p) ==
    \E c \in stamp[p]..(now + MaxSkew) : rec' = CompletedRow(p, c)

\* Complete succeeds, or matches no row: ErrClaimSuperseded, and the result
\* is dropped.
Complete(p) ==
    /\ pc[p] = "complete"
    /\ IF Fenced(p) THEN CompleteWrite(p) ELSE UNCHANGED rec
    /\ pc' = [pc EXCEPT ![p] = "done"]
    /\ UNCHANGED <<now, hash, stamp, code, tries, answer, executed>>

\* The loop of completeWithRetry: another try until they are used up.
AfterFailure(p) ==
    /\ tries' = [tries EXCEPT ![p] = @ + 1]
    /\ pc' = [pc EXCEPT ![p] = IF tries[p] + 1 = CompleteRetryAttempts THEN "done" ELSE "complete"]

\* Complete returns another error, with or without having written the row.
CompleteFails(p) ==
    /\ pc[p] = "complete"
    /\ \/ UNCHANGED rec
       \/ Fenced(p) /\ CompleteWrite(p)
    /\ AfterFailure(p)
    /\ UNCHANGED <<now, hash, stamp, code, answer, executed>>

\* The process dies.  The client may already have its answer.
Crash(p) ==
    /\ pc[p] \notin {"idle", "done"}
    /\ pc' = [pc EXCEPT ![p] = "done"]
    /\ UNCHANGED <<now, rec, hash, stamp, code, tries, answer, executed>>

Tick ==
    /\ now < MaxTime
    /\ now' = now + 1
    /\ UNCHANGED <<rec, pc, hash, stamp, code, tries, answer, executed>>

Step(p) ==
    \/ Refuse(p) \/ Receive(p)
    \/ Claim(p) \/ ClaimUnacknowledged(p) \/ ClaimOrGetFails(p) \/ GetExisting(p)
    \/ TakeEffect(p) \/ Respond(p) \/ Panic(p)
    \/ Complete(p) \/ CompleteFails(p)
    \/ Crash(p)

Next == (\E p \in Attempt : Step(p)) \/ Tick

Spec == Init /\ [][Next]_vars

-----------------------------------------------------------------------------
RecordType ==
    [hash : Hash \cup {None}, status : {"absent", "processing", "completed"},
     by : Attempt \cup {None}, code : Codes, created : Int, expires : Int]

\* The type invariant; a row is 'completed' exactly when it holds a response.
TypeOK ==
    /\ now \in Nat
    /\ rec \in RecordType
    /\ pc \in [Attempt -> Steps]
    /\ hash \in [Attempt -> Hash \cup {None}]
    /\ stamp \in [Attempt -> Int]
    /\ code \in [Attempt -> Codes]
    /\ tries \in [Attempt -> 0..CompleteRetryAttempts]
    /\ answer \in [Attempt -> [kind : Kinds, by : Attempt \cup {None}, code : Codes]]
    /\ executed \subseteq Attempt
    /\ (rec.status = "completed") <=> (rec.by # None)

\* Two requests that hold a claim at the same time hold it with created_at
\* tokens more than a lease apart, so no two share a token and the later one
\* fences off the earlier.  The tokens are readings of the servers' own
\* clocks: with skewed clocks both claims may be made at one real moment.
ClaimsAreSpaced ==
    \A p, q \in Attempt :
       (p # q /\ Claimed(p) /\ Claimed(q)) =>
          (stamp[p] + Lease < stamp[q] \/ stamp[q] + Lease < stamp[p])

\* What a key promises about effects, reclaims with another body included: two
\* requests that both took effect claimed the key with tokens more than a lease
\* apart, by the clocks of their servers, however the first holder ended.
ExecutionsAreSpaced ==
    \A p, q \in executed :
       p # q => (stamp[p] + Lease < stamp[q] \/ stamp[q] + Lease < stamp[p])

\* The stored response is that of the claim the row now names: Complete of a
\* superseded claim never writes, and a reclaim always clears.
StoredResponseIsOwn ==
    rec.status = "completed" =>
       /\ stamp[rec.by] = rec.created
       /\ hash[rec.by] = rec.hash
       /\ code[rec.by] = rec.code

\* A replayed answer is the answer an earlier request with the same method,
\* path and body was really given, and a success was really executed.
ReplayIsGenuine ==
    \A p \in Attempt :
       answer[p].kind = "replayed" =>
          /\ answer[p].by \in Attempt
          /\ hash[answer[p].by] = hash[p]
          /\ answer[answer[p].by] = Answer("ran", answer[p].by, answer[p].code)
          /\ answer[p].code = "success" => answer[p].by \in executed

\* A completed row keeps its response and its hash until it has expired by
\* some server's clock; only a claim that finds it expired replaces it.
CompletedUntilExpired ==
    [][ rec.status = "completed" =>
          \/ rec'.status = "completed" /\ rec'.by = rec.by /\ rec'.code = rec.code /\ rec'.hash = rec.hash
          \/ rec'.status = "processing" /\ rec'.created > rec.expires ]_vars

\* docs/API.md: a retried request with the same key and an identical hash
\* returns the cached response: "The handler does not run again."  Before
\* Retention has passed nothing cached can have expired.
HandlerRunsOnce ==
    now < Retention =>
       \A p, q \in executed : hash[p] = hash[q] => p = q

=============================================================================
