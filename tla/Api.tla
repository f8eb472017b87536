-------------------------------- MODULE Api --------------------------------
(***************************************************************************)
(* The HTTP edge of cmd/api: how a request travels through the chain that  *)
(* main.go mounts (JWT authentication, RBAC, idempotency, handler) and how *)
(* the components meet there.  Several tenants share the tables.  A ledger *)
(* operation is one step on the tables, which is what module Ledger is     *)
(* shown to look like.  "login" is Login and Refresh alike, one check and  *)
(* one issue, and "logout" leaves its audit row: what they do to the table *)
(* of refresh tokens, on which no access token depends, is in Auth.  Each  *)
(* (tenant, key) pair behaves as Idempotency.                              *)
(***************************************************************************)
EXTENDS Integers, FiniteSets

CONSTANTS
    Tenant,
    Key,           \* values of the Idempotency-Key header
    Request,       \* the calls of a behaviour
    SeedUser,      \* users that exist, each with an access token from a login
    SeedTxn,       \* pending transactions that exist
    SeedTenant,    \* the tenant of each of both
    SeedRole,      \* user -> role
    SeedExp,       \* user -> when the token expires
    Menu,          \* the calls a client may make
    AccessTTL,     \* how long an access token is valid
    Lease,         \* processingLease
    Retention,     \* retentionTTL
    MaxTime,       \* bound on time
    MaxEvents,     \* bound on faults and on the operator's edits, taken together
    None

\* A request creates at most one row of each table: its id stands for the uuid.
User == SeedUser \cup Request
Token == SeedUser \cup Request
Object == SeedTxn \cup Request

Creating == {"createAccount", "transfer", "createPending"}
Settling == {"post", "fail"}
Mutating == Creating \cup Settling
Reading == {"getAccount", "getTransaction", "auditLog"}
Public == {"register", "login", "logout"}     \* mounted without authmw
Routes == Mutating \cup Reading \cup Public

\* What main.go passes to RequirePermission.
Required(route) ==
    IF route = "createAccount" THEN "accounts:write"
    ELSE IF route = "getAccount" THEN "accounts:read"
    ELSE IF route = "getTransaction" THEN "transactions:read"
    ELSE IF route = "auditLog" THEN "audit:read"
    ELSE "transactions:write"

\* The seeded roles and role_permissions.
ReadPermissions == {"transactions:read", "accounts:read"}
WritePermissions == {"transactions:write", "accounts:write"}
RolePermissions ==
    [admin |-> ReadPermissions \cup WritePermissions \cup {"users:manage", "audit:read"},
     service |-> ReadPermissions \cup WritePermissions,
     viewer |-> ReadPermissions]
Roles == DOMAIN RolePermissions

\* A call: its route, its one credential (an access token, an API key, or the
\* user whose password or refresh token it sends), its Idempotency-Key, the id
\* in its path, the role it asks for.
Call == [route : Routes, token : Token \cup {None}, apiKey : Tenant \cup {None},
         user : User \cup {None}, key : Key \cup {None}, arg : Object \cup {None},
         role : Roles \cup {None}]

ASSUME ApiAssumption ==
    /\ Request \subseteq Nat
    /\ Request \cap (SeedUser \cup SeedTxn) = {}
    /\ SeedTenant \in [SeedUser \cup SeedTxn -> Tenant]
    /\ SeedRole \in [SeedUser -> Roles]
    /\ SeedExp \in [SeedUser -> Nat]
    /\ None \notin Tenant \cup Key \cup SeedUser \cup SeedTxn
    /\ None \notin Request /\ None \notin Roles /\ None \notin Nat
    /\ Menu \subseteq Call
    /\ \A b \in Menu :
          /\ IF b.route \in Settling \cup {"getAccount", "getTransaction"}
             THEN b.arg \in Object ELSE b.arg = None
          /\ b.route \in {"login", "logout"} => b.user \in User
          /\ b.route \in Public => b.token = None
    /\ {AccessTTL, Lease, Retention, MaxTime, MaxEvents} \subseteq Nat

VARIABLES
    user,      \* users: [tenant, role, status]
    access,    \* token -> the claims it was signed with, exp included, or NoClaims
    object,    \* accounts and transactions: [tenant, kind, status]
    audit,     \* audit_log: [by, tenant, actor, object]; an API key's actor is None
    rec,       \* idempotency_keys: (tenant, key) -> row
    pc, call,  \* request -> its next step, the call
    stamp,     \* request -> the clock its ClaimOrGet read, None before
    draft,     \* request -> what its handler is about to answer
    answer,    \* request -> what its client was sent
    held,      \* history: the requests whose user had the permission since they arrived
    now, events

people == <<user, access>>
ledger == <<object, audit>>
bounds == <<now, events>>
vars == <<people, ledger, rec, pc, call, stamp, draft, answer, held, bounds>>

\* A response: its status, the object it names and the status it gives of it,
\* the audit rows it lists.
Reply(status, about, says, rows) ==
    [status |-> status, about |-> about, says |-> says, rows |-> rows]
Bare(status) == Reply(status, None, "none", {})
Answer(kind, by, reply) == [kind |-> kind, by |-> by, reply |-> reply]
NoReply == Bare(0)
NoAnswer == Answer("none", None, NoReply)

Thing(t, kind, status) == [tenant |-> t, kind |-> kind, status |-> status]
NoThing == Thing(None, "none", "absent")
Person(t, role, status) == [tenant |-> t, role |-> role, status |-> status]
Claims(u, t, role, exp) == [user |-> u, tenant |-> t, role |-> role, exp |-> exp]
NoClaims == Claims(None, None, None, 0)
Row(h, status, by, reply, created, expires) ==
    [hash |-> h, status |-> status, by |-> by, reply |-> reply,
     created |-> created, expires |-> expires]
NoRecord == Row(None, "absent", None, NoReply, 0, 0)
NoCall == [route |-> "login", token |-> None, apiKey |-> None, user |-> None,
           key |-> None, arg |-> None, role |-> None]

\* RecordAudit, in the caller's transaction.
RecordAudit(p, t, actor, o) ==
    audit' = audit \cup { [by |-> p, tenant |-> t, actor |-> actor, object |-> o] }

\* The claims in the request's context, and the tenant read from there.
Caller(p) == IF call[p].token = None THEN NoClaims ELSE access[call[p].token]
TenantOf(p) == Caller(p).tenant

\* requestHash(method, path, body).
HashOf(p) == <<call[p].route, call[p].arg>>

\* ValidateAccessToken: signed by this service and not expired.
Valid(token) == token # None /\ access[token] # NoClaims /\ now < access[token].exp

\* role_permissions has the route's permission for the role.
Allows(role, route) == Required(route) \in RolePermissions[role]

\* Mutant: the permissions of the role the token was signed with.
PermittedByClaims(c, route) ==
    c.user # None /\ Allows(c.role, route)
\* GetUserPermissions: the role the users row has now, WHERE id and tenant_id.
\* The user's status is not looked at.
Permitted(c, route) ==
    /\ c.user # None
    /\ user[c.user].tenant = c.tenant
    /\ Allows(user[c.user].role, route)

Init ==
    /\ user = [u \in User |-> IF u \in SeedUser THEN Person(SeedTenant[u], SeedRole[u], "active")
                              ELSE Person(None, None, "absent")]
    /\ access = [t \in Token |-> IF t \in SeedUser THEN Claims(t, SeedTenant[t], SeedRole[t], SeedExp[t])
                                 ELSE NoClaims]
    /\ object = [o \in Object |-> IF o \in SeedTxn THEN Thing(SeedTenant[o], "transaction", "pending")
                                  ELSE NoThing]
    /\ audit = {}
    /\ rec = [k \in Tenant \X Key |-> NoRecord]
    /\ pc = [p \in Request |-> "idle"]
    /\ call = [p \in Request |-> NoCall]
    /\ stamp = [p \in Request |-> None]
    /\ draft = [p \in Request |-> NoReply]
    /\ answer = [p \in Request |-> NoAnswer]
    /\ held = {}
    /\ now = 0 /\ events = 0

-----------------------------------------------------------------------------
Goto(p, step) == pc' = [pc EXCEPT ![p] = step]

\* The client is answered and the chain returns.
Return(p, ans) ==
    /\ Goto(p, "done")
    /\ answer' = [answer EXCEPT ![p] = ans]

\* A middleware or handler answers with a status alone and returns.
Refuse(p, status) ==
    /\ Return(p, Answer("plain", None, Bare(status)))
    /\ UNCHANGED <<people, ledger, rec, call, stamp, draft, held, bounds>>

\* The call is routed.  Requests are numbered in the order of their arrival;
\* a client can only send a token it was given.
Receive(p, b) ==
    /\ pc[p] = "idle"
    /\ \A q \in Request : q < p => pc[q] # "idle"
    /\ b.token # None => access[b.token] # NoClaims
    /\ call' = [call EXCEPT ![p] = b]
    /\ held' = IF b.token # None /\ Allows(user[access[b.token].user].role, b.route)
               THEN held \cup {p} ELSE held
    /\ Goto(p, IF b.route \in {"register", "logout"} THEN b.route
               ELSE IF b.route = "login" THEN "credentials" ELSE "admit")
    /\ UNCHANGED <<people, ledger, rec, stamp, draft, answer, bounds>>

\* authmw.Middleware: a Bearer token that validates.
Authenticated(p) == Valid(call[p].token)

\* authmw.Middleware and RequirePermission: a token that does not validate, a
\* permission the user lacks, a missing Idempotency-Key.  A mutating call goes
\* on to ClaimOrGet, which reads its clock; a read goes to its handler.  Only
\* the permission query is shared with others, so this is one step.
Admit(p) ==
    /\ pc[p] = "admit"
    /\ \/ ~Authenticated(p) /\ Refuse(p, 401)
       \/ Authenticated(p) /\ ~Permitted(Caller(p), call[p].route) /\ Refuse(p, 403)
       \/ /\ Authenticated(p) /\ Permitted(Caller(p), call[p].route)
          /\ call[p].route \in Mutating /\ call[p].key = None
          /\ Refuse(p, 400)
       \/ /\ Authenticated(p) /\ Permitted(Caller(p), call[p].route)
          /\ \/ call[p].route \in Reading /\ Goto(p, "read") /\ UNCHANGED stamp
             \/ /\ call[p].route \in Mutating /\ call[p].key # None
                /\ stamp' = [stamp EXCEPT ![p] = now]
                /\ Goto(p, "claim")
          /\ UNCHANGED <<people, ledger, rec, call, draft, answer, held, bounds>>

-----------------------------------------------------------------------------
\* Mutant: a unique index on the key alone.
PairOfKey(p) == <<CHOOSE t \in Tenant : TRUE, call[p].key>>
\* ON CONFLICT (tenant_id, key); WHERE tenant_id = $1 AND key = $2.
PairOf(p) == <<TenantOf(p), call[p].key>>

\* There is no row of the pair, or it has expired.
Claimable(p) == LET row == rec[PairOf(p)] IN row.status = "absent" \/ row.expires < stamp[p]
ClaimRow(p) ==
    rec' = [rec EXCEPT ![PairOf(p)] =
              Row(HashOf(p), "processing", None, NoReply, stamp[p], stamp[p] + Lease)]

\* The claim query, decided on the row of the pair as it is.
Claim(p) ==
    /\ pc[p] = "claim"
    /\ IF Claimable(p)
       THEN ClaimRow(p) /\ Goto(p, "handler")
       ELSE Goto(p, "get") /\ UNCHANGED rec
    /\ UNCHANGED <<people, ledger, call, stamp, draft, answer, held, bounds>>

\* Get and handleExisting: key reused, in flight, or the stored response.
GetExisting(p) ==
    LET row == rec[PairOf(p)]
    IN  /\ pc[p] = "get"
        /\ Return(p, IF row.hash # HashOf(p) THEN Answer("ErrKeyReused", None, Bare(422))
                     ELSE IF row.status = "processing" THEN Answer("ErrInFlight", None, Bare(409))
                     ELSE Answer("replayed", row.by, row.reply))
        /\ UNCHANGED <<people, ledger, rec, call, stamp, draft, held, bounds>>

\* Complete, fenced by created_at; a superseded result is dropped.
Complete(p) ==
    LET row == rec[PairOf(p)]
    IN  /\ pc[p] = "complete"
        /\ IF row.created = stamp[p]
           THEN rec' = [rec EXCEPT ![PairOf(p)] =
                   Row(row.hash, "completed", p, draft[p], row.created, now + Retention)]
           ELSE UNCHANGED rec
        /\ Goto(p, "done")
        /\ UNCHANGED <<people, ledger, call, stamp, draft, answer, held, bounds>>

-----------------------------------------------------------------------------
\* Mutant: looked up by id alone.
FoundAnywhere(p, kind) == object[call[p].arg].kind = kind
\* A row of the caller's tenant: WHERE id = $1 AND tenant_id = $2.
Found(p, kind) ==
    /\ object[call[p].arg].kind = kind
    /\ object[call[p].arg].tenant = TenantOf(p)

\* Mutant: the error of tx.Commit is dropped.
UncommittedAnswersSuccess(reply, refusals) == { Bare(status) : status \in refusals } \cup {reply}
\* The answers of a handler whose service changed nothing.
Uncommitted(reply, refusals) == { Bare(status) : status \in refusals }

\* The service commits the object and its audit row.  When the acknowledgement
\* of the commit is lost the handler answers 422 all the same.
Commit(p, o, new, reply) ==
    /\ object' = [object EXCEPT ![o] = new]
    /\ RecordAudit(p, TenantOf(p), Caller(p).user, o)
    /\ \E r \in {reply, Bare(422)} : draft' = [draft EXCEPT ![p] = r]

\* The service returns an error, or the handler rejects its input.
Reject(p, replies) ==
    /\ \E r \in replies : draft' = [draft EXCEPT ![p] = r]
    /\ UNCHANGED ledger

\* The call of the service, whose details are in Ledger.
Serve(p, o, new, success, refusals) ==
    LET reply == Reply(success, o, new.status, {})
    IN  Commit(p, o, new, reply) \/ Reject(p, Uncommitted(reply, refusals))

Handler(p, route) ==
    /\ pc[p] = "handler"
    /\ call[p].route = route
    /\ Goto(p, "respond")
    /\ UNCHANGED <<people, rec, call, stamp, answer, held, bounds>>

\* Invalid input is 400; then the sentinels of writeTransferError, and 422 for
\* any other error, a failed statement included.
TransferHandler(p) ==
    /\ Handler(p, "transfer")
    /\ Serve(p, p, Thing(TenantOf(p), "transaction", "posted"), 201, {400, 404, 409, 422})

CreateAccountHandler(p) ==
    /\ Handler(p, "createAccount")
    /\ Serve(p, p, Thing(TenantOf(p), "account", "open"), 201, {400, 422})

CreatePendingTransactionHandler(p) ==
    /\ Handler(p, "createPending")
    /\ Serve(p, p, Thing(TenantOf(p), "transaction", "pending"), 201, {400, 422})

\* A transaction is settled when it is the tenant's and pending.
Settle(p, status, refusals) ==
    LET o == call[p].arg
    IN  IF Found(p, "transaction") /\ object[o].status = "pending"
        THEN Serve(p, o, Thing(TenantOf(p), "transaction", status), 200, refusals)
        ELSE Reject(p, {Bare(IF Found(p, "transaction") THEN 409 ELSE 404), Bare(422)})

\* An account of the entries may be missing or short of funds.
PostPendingTransactionHandler(p) == Handler(p, "post") /\ Settle(p, "posted", {404, 409, 422})
FailPendingTransactionHandler(p) == Handler(p, "fail") /\ Settle(p, "failed", {409, 422})

\* The handler writes its response; nothing is stored yet.
Respond(p) ==
    /\ pc[p] = "respond"
    /\ answer' = [answer EXCEPT ![p] = Answer("ran", p, draft[p])]
    /\ Goto(p, "complete")
    /\ UNCHANGED <<people, ledger, rec, call, stamp, draft, held, bounds>>

\* Mutant: the query has no WHERE tenant_id = $1.
ListEverything(t) == audit
\* audit.Repository.List: one page, which holds all rows of a small instance.
List(t) == { a \in audit : a.tenant = t }

ReadHandler(p, route, reply) ==
    /\ pc[p] = "read"
    /\ call[p].route = route
    /\ Return(p, Answer("ran", p, reply))
    /\ UNCHANGED <<people, ledger, rec, call, stamp, draft, held, bounds>>

\* The object of the path, if it is the tenant's.
Show(p, kind) ==
    IF Found(p, kind) THEN Reply(200, call[p].arg, object[call[p].arg].status, {}) ELSE Bare(404)

GetAccountHandler(p) == ReadHandler(p, "getAccount", Show(p, "account"))
GetTransactionHandler(p) == ReadHandler(p, "getTransaction", Show(p, "transaction"))
AuditLogHandler(p) == ReadHandler(p, "auditLog", Reply(200, None, "none", List(TenantOf(p))))

-----------------------------------------------------------------------------
\* Mutant: an omitted role is passed on.
RoleAsGiven(b) == b.role
\* An omitted role is "viewer".
RoleOf(b) == IF b.role = None THEN "viewer" ELSE b.role

\* VerifyAPIKey: the hash of the key is that of a tenant.
VerifyAPIKey(b) == b.apiKey \in Tenant

RequireTenantAPIKey(p) ==
    /\ pc[p] = "register"
    /\ ~VerifyAPIKey(call[p])
    /\ Refuse(p, 401)

\* Invalid input or an unknown role, a taken email, another error, or a new
\* user of the API key's tenant.  The acknowledgement of the commit may be lost.
RegisterHandler(p) ==
    /\ pc[p] = "register"
    /\ VerifyAPIKey(call[p])
    /\ \/ \E status \in {400, 409, 422} : Refuse(p, status)
       \/ /\ user' = [user EXCEPT ![p] = Person(call[p].apiKey, RoleOf(call[p]), "active")]
          /\ RecordAudit(p, call[p].apiKey, None, None)
          /\ \E status \in {201, 422} : Return(p, Answer("plain", None, Bare(status)))
          /\ UNCHANGED <<access, object, rec, call, stamp, draft, held, bounds>>

\* Mutant: the status is not tested.
MayLogInAnyway(u) == user[u].status # "absent"
\* user.Status == UserStatusDisabled is refused, in Login as in Refresh.
MayLogIn(u) == user[u].status = "active"

\* Malformed input, or credentials that do not hold; else Login and Refresh
\* read the user before their transaction begins: the token will be signed
\* with what they read.
CheckUser(p) ==
    LET u == call[p].user
    IN  /\ pc[p] = "credentials"
        /\ \/ \E status \in {400, 401} : Refuse(p, status)
           \/ user[u].status = "disabled" /\ ~MayLogIn(u) /\ Refuse(p, 403)
           \/ /\ MayLogIn(u)
              /\ draft' = [draft EXCEPT ![p] = Reply(200, None, user[u].role, {})]
              /\ Goto(p, "issue")
              /\ UNCHANGED <<people, ledger, rec, call, stamp, answer, held, bounds>>

\* The session and its audit row are committed, and the access token is sent
\* unless the acknowledgement of the commit is lost.
IssueToken(p) ==
    LET u == call[p].user
    IN  /\ pc[p] = "issue"
        /\ RecordAudit(p, user[u].tenant, u, None)
        /\ \/ /\ access' = [access EXCEPT ![p] =
                    Claims(u, user[u].tenant, draft[p].says, now + AccessTTL)]
              /\ Return(p, Answer("plain", None, Bare(200)))
           \/ UNCHANGED access /\ Return(p, Answer("plain", None, Bare(422)))
        /\ UNCHANGED <<user, object, rec, call, stamp, draft, held, bounds>>

\* RotateRefreshToken no longer finds the token active: another request rotated
\* or revoked it since this one read it, or it expired.
RotationRefused(p) == pc[p] = "issue" /\ Refuse(p, 401)

\* A refresh token comes with an access token: whoever was sent one has both.
HasRefreshToken(u) == \E t \in Token : access[t].user = u

\* Logout: malformed input or an unknown token, or else the revocation and the
\* audit row, whoever the user is: the status is not tested.  Revoking what is
\* no longer active is no error.  The acknowledgement of the commit may be lost.
LogoutHandler(p) ==
    LET u == call[p].user
    IN  /\ pc[p] = "logout"
        /\ \/ \E status \in {400, 401} : Refuse(p, status)
           \/ /\ HasRefreshToken(u)
              /\ RecordAudit(p, user[u].tenant, u, None)
              /\ \E status \in {204, 422} : Return(p, Answer("plain", None, Bare(status)))
              /\ UNCHANGED <<people, object, rec, call, stamp, draft, held, bounds>>

-----------------------------------------------------------------------------
InFlight(p) == pc[p] \notin {"idle", "done"}
Event == events < MaxEvents /\ events' = events + 1

\* What the client is told when a query of the chain fails: the API key gate
\* calls it an invalid key, writeAuthError and writeTransferError have no 500.
StatusOfFailure(p) ==
    IF pc[p] = "register" THEN 401
    ELSE IF pc[p] \in {"credentials", "issue", "logout"} THEN 422
    ELSE IF pc[p] = "read" /\ call[p].route # "auditLog" THEN 422
    ELSE 500

QueryFails(p) ==
    /\ Event
    /\ pc[p] \in {"register", "credentials", "issue", "logout", "admit", "claim", "get", "read"}
    /\ Return(p, Answer("internal", None, Bare(StatusOfFailure(p))))
    /\ UNCHANGED <<people, ledger, rec, call, stamp, draft, held, now>>

\* The claim was written but its answer was lost: nobody will complete it.
ClaimUnacknowledged(p) ==
    /\ Event
    /\ pc[p] = "claim"
    /\ Claimable(p)
    /\ ClaimRow(p)
    /\ Return(p, Answer("internal", None, Bare(500)))
    /\ UNCHANGED <<people, ledger, call, stamp, draft, held, now>>

\* A handler panics: recovery answers 500, and Complete is skipped.
Panic(p) ==
    /\ Event
    /\ pc[p] \in {"handler", "respond"}
    /\ Return(p, Answer("internal", None, Bare(500)))
    /\ UNCHANGED <<people, ledger, rec, call, stamp, draft, held, now>>

\* The process dies, or completeWithRetry gives up.
Crash(p) ==
    /\ Event
    /\ InFlight(p)
    /\ Goto(p, "done")
    /\ UNCHANGED <<people, ledger, rec, call, stamp, draft, answer, held, now>>

\* An operator changes a user's row in the database.
Edit(u, row) ==
    /\ Event
    /\ user[u].status # "absent"
    /\ user' = [user EXCEPT ![u] = row]
    /\ held' = held \cup { p \in Request : /\ InFlight(p)
                                           /\ Caller(p).user = u
                                           /\ Allows(row.role, call[p].route) }
    /\ UNCHANGED <<access, ledger, rec, pc, call, stamp, draft, answer, now>>

SetRole(u, role) == role # user[u].role /\ Edit(u, [user[u] EXCEPT !.role = role])
SetStatus(u) ==
    Edit(u, [user[u] EXCEPT !.status = IF @ = "active" THEN "disabled" ELSE "active"])

Tick ==
    /\ now < MaxTime
    /\ now' = now + 1
    /\ UNCHANGED <<people, ledger, rec, pc, call, stamp, draft, answer, held, events>>

Step(p) ==
    \/ Admit(p)
    \/ Claim(p) \/ GetExisting(p) \/ Complete(p)
    \/ TransferHandler(p) \/ CreateAccountHandler(p) \/ CreatePendingTransactionHandler(p)
    \/ PostPendingTransactionHandler(p) \/ FailPendingTransactionHandler(p) \/ Respond(p)
    \/ GetAccountHandler(p) \/ GetTransactionHandler(p) \/ AuditLogHandler(p)
    \/ RequireTenantAPIKey(p) \/ RegisterHandler(p) \/ CheckUser(p) \/ IssueToken(p)
    \/ RotationRefused(p) \/ LogoutHandler(p)
    \/ QueryFails(p) \/ ClaimUnacknowledged(p) \/ Panic(p) \/ Crash(p)

Next ==
    \/ \E p \in Request : Step(p) \/ \E b \in Menu : Receive(p, b)
    \/ \E u \in User : SetStatus(u) \/ \E role \in Roles : SetRole(u, role)
    \/ Tick

Spec == Init /\ [][Next]_vars

-----------------------------------------------------------------------------
Steps == {"idle", "register", "credentials", "issue", "logout", "admit", "claim", "get", "handler",
          "respond", "complete", "read", "done"}
AuditRow == [by : Request, tenant : Tenant, actor : User \cup {None}, object : Object \cup {None}]

\* The type invariant; a user has a role as soon as there is a row.
TypeOK ==
    /\ \A u \in User : \/ user[u] = Person(None, None, "absent")
                       \/ user[u] \in [tenant : Tenant, role : Roles, status : {"active", "disabled"}]
    /\ \A t \in Token : \/ access[t] = NoClaims
                        \/ access[t] \in [user : User, tenant : Tenant, role : Roles, exp : Nat]
    /\ audit \subseteq AuditRow
    /\ \A k \in Tenant \X Key : rec[k].status \in {"absent", "processing", "completed"}
    /\ pc \in [Request -> Steps]
    /\ call \in [Request -> Call]
    /\ held \subseteq Request

\* Answers that a handler produced, now or earlier.
Served(p) == answer[p].kind \in {"ran", "replayed"}
Wrote(p) == { a \in audit : a.by = p }

\* The statuses an object may have by now when an answer gave it this one.
SinceThen(status) == IF status = "pending" THEN {"pending", "posted", "failed"} ELSE {status}

\* What a client is told stays true, at first hand or replayed: a success
\* names an object that the handler really wrote (or a read really found),
\* which has at most moved on since; 400, 404 and 409 mean that the handler
\* changed nothing.  Only 422 and 500 leave the client in doubt.
AnswersHoldTrue ==
    \A p \in Request : Served(p) =>
       LET by == answer[p].by
           reply == answer[p].reply
       IN  /\ HashOf(by) = HashOf(p)
           /\ reply.about # None => object[reply.about].status \in SinceThen(reply.says)
           /\ (reply.status < 300 /\ call[p].route \in Mutating) =>
                 \E a \in Wrote(by) : a.object = reply.about
           /\ reply.status \in {400, 404, 409} => Wrote(by) = {}

\* Nobody reads or writes outside the tenant of their token, also by a key
\* that another tenant uses too: docs/adr/0004.  A transaction of another
\* tenant gets the answers of one that does not exist.
TenantsAreSeparate ==
    /\ \A a \in audit : /\ a.actor # None => user[a.actor].tenant = a.tenant
                        /\ a.object # None => object[a.object].tenant = a.tenant
    /\ \A p \in Request : Served(p) =>
          LET reply == answer[p].reply
          IN  /\ reply.about # None => object[reply.about].tenant = TenantOf(p)
              /\ \A a \in reply.rows : a.tenant = TenantOf(p)
              /\ (call[p].arg # None /\ object[call[p].arg].tenant # TenantOf(p)) =>
                    reply.status \notin {200, 409}

\* An effect or a successful answer, replays included, is given only to a user
\* whose role had the permission at some moment since the request arrived: a
\* demotion counts for the next request, however long the token is valid.
NeedsPermission ==
    \A p \in Request :
       ((\E a \in Wrote(p) : a.object # None) \/ (Served(p) /\ answer[p].reply.status < 300))
          => p \in held

\* A disabled user without a valid token, an unfinished login or a request
\* that is past authentication.
LockedOut(u) ==
    /\ user[u].status = "disabled"
    /\ \A t \in Token : Valid(t) => access[t].user # u
    /\ \A p \in Request : InFlight(p) =>
          /\ pc[p] = "issue" => call[p].user # u
          /\ Caller(p).user = u => pc[p] = "admit"

\* What the user did, logging out apart.
Acts(u) == { a \in audit : a.actor = u /\ call[a.by].route # "logout" }

\* Disabling works in the end: RequirePermission does not look at the status,
\* but once the tokens have expired and what was in flight has ended, the user
\* gets no token and no request of the user's has an effect until enabled
\* again, with one exception: Logout does not look at the status either, so
\* that a refresh token can still be revoked, with its audit row.
LockedOutStaysOut ==
    [][\A u \in User : (LockedOut(u) /\ user'[u].status = "disabled") =>
          LockedOut(u)' /\ Acts(u)' = Acts(u)]_vars

-----------------------------------------------------------------------------
(***************************************************************************)
(* The row of one (tenant, key) pair and the requests that use it, as the  *)
(* module Idempotency sees them.  A request belongs to the pair from the   *)
(* moment ClaimOrGet reads its clock.                                      *)
(***************************************************************************)
InPair(p, t, k) == stamp[p] # None /\ TenantOf(p) = t /\ call[p].key = k
Code(status) == IF status = 0 THEN "none" ELSE IF status < 300 THEN "success" ELSE "error"

Pair(t, k) == INSTANCE Idempotency WITH
    Attempt <- Request,
    Hash <- { <<b.route, b.arg>> : b \in Menu },
    CompleteRetryAttempts <- 3,
    MaxSkew <- 0,
    rec <- LET row == rec[<<t, k>>]
           IN  [hash |-> row.hash, status |-> row.status, by |-> row.by,
                code |-> Code(row.reply.status), created |-> row.created, expires |-> row.expires],
    pc <- [p \in Request |-> IF ~InPair(p, t, k) THEN "idle"
                             ELSE IF pc[p] = "respond" THEN "handler" ELSE pc[p]],
    hash <- [p \in Request |-> IF InPair(p, t, k) THEN HashOf(p) ELSE None],
    stamp <- [p \in Request |-> IF InPair(p, t, k) THEN stamp[p] ELSE 0],
    code <- [p \in Request |-> IF InPair(p, t, k) /\ answer[p].kind = "ran"
                               THEN Code(answer[p].reply.status) ELSE "none"],
    tries <- [p \in Request |-> 0],
    answer <- [p \in Request |->
                 IF ~InPair(p, t, k) THEN [kind |-> "none", by |-> None, code |-> "none"]
                 ELSE [kind |-> answer[p].kind, by |-> answer[p].by,
                       code |-> IF Served(p) THEN Code(answer[p].reply.status) ELSE "none"]],
    executed <- { p \in Request : InPair(p, t, k) /\ Wrote(p) # {} }

\* Each pair is a system of its own: whatever the other tenants and keys do,
\* its row and its requests only ever take steps of module Idempotency, so
\* what is proved there of one pair holds for all of them.
EachPairIsIdempotent ==
    /\ \A t \in Tenant, k \in Key : Pair(t, k)!Init
    /\ [][\A t \in Tenant, k \in Key :
             UNCHANGED Pair(t, k)!vars \/ Pair(t, k)!Next]_vars

=============================================================================
