-------------------------------- MODULE Auth --------------------------------
(***************************************************************************)
(* The session half of internal/auth: Register, Login, Refresh and Logout  *)
(* of auth.Service, statement by statement, against one PostgreSQL         *)
(* database at READ COMMITTED.  A refresh token is 'active', 'rotated' or  *)
(* 'revoked'; the tokens that descend from one login are its session.      *)
(***************************************************************************)
EXTENDS Integers, FiniteSets

CONSTANTS
    User,          \* the (tenant_id, LOWER(email)) pairs: what identifies a user
    Request,       \* the calls of a behaviour
    SeedToken,     \* refresh tokens issued by earlier logins, one session each
    SeedUser,      \* their users
    Menu,          \* the calls a client may make
    MaxFaults,     \* bound on injected failures
    None

\* A request issues at most one token: its id stands for the new row's uuid
\* and for the raw token the client is given.
Token == Request \cup SeedToken
Operations == {"Register", "Login", "Refresh", "Logout"}
Body == [op : Operations, user : User \cup {None}, token : Token \cup {None}]

ASSUME AuthAssumption ==
    /\ Token \subseteq Nat
    /\ Request \cap SeedToken = {}
    /\ SeedUser \in [SeedToken -> User]
    /\ None \notin Token \cup User
    /\ Menu \subseteq Body
    /\ \A b \in Menu : IF b.op \in {"Register", "Login"} THEN b.user \in User ELSE b.token \in Token
    /\ MaxFaults \in Nat

VARIABLES
    account,       \* users: user -> status, absent when there is no row
    token,         \* refresh_tokens: token -> [user, status, replacedBy]
    expired,       \* the tokens whose expires_at has passed
    audits,        \* audit_log rows: [action, by]
    tokenLock,     \* token -> the request whose update of the row is uncommitted
    userLock,      \* user -> the request whose insert of the row is uncommitted
    pc, body,      \* request -> its next step, the call it makes
    scan,          \* request -> rows its RevokeAll statement has still to visit
    new,           \* request -> the user its uncommitted new token is for, or None
    outcome,       \* request -> what the method returned
    session,       \* history: token -> the login it descends from
    condemned,     \* history: sessions open when a mass revocation began
    faults

tables == <<account, token, expired, audits>>
locks == <<tokenLock, userLock>>
vars == <<tables, locks, pc, body, scan, new, outcome, session, condemned, faults>>

Row(u, status, next) == [user |-> u, status |-> status, replacedBy |-> next]
NoRow == Row(None, "absent", None)
Active(u) == { t \in Token : token[t].user = u /\ token[t].status = "active" }

Init ==
    /\ account = [u \in User |-> IF \E t \in SeedToken : SeedUser[t] = u THEN "active" ELSE "absent"]
    /\ token = [t \in Token |-> IF t \in SeedToken THEN Row(SeedUser[t], "active", None) ELSE NoRow]
    /\ expired = {}
    /\ audits = {}
    /\ tokenLock = [t \in Token |-> None]
    /\ userLock = [u \in User |-> None]
    /\ pc = [p \in Request |-> "idle"]
    /\ body = [p \in Request |-> [op |-> "Login", user |-> None, token |-> None]]
    /\ scan = [p \in Request |-> {}]
    /\ new = [p \in Request |-> None]
    /\ outcome = [p \in Request |-> "none"]
    /\ session = [t \in Token |-> t]
    /\ condemned = {}
    /\ faults = 0

-----------------------------------------------------------------------------
Goto(p, step) == pc' = [pc EXCEPT ![p] = step]

\* Mutant: no deferred Rollback, the transaction stays open.
FinishHoldingLocks(p, result) ==
    /\ Goto(p, "done")
    /\ outcome' = [outcome EXCEPT ![p] = result]
    /\ new' = [new EXCEPT ![p] = None]
    /\ scan' = [scan EXCEPT ![p] = {}]
    /\ UNCHANGED <<tokenLock, userLock>>
\* The method returns; the deferred Rollback releases what it holds.
Finish(p, result) ==
    /\ Goto(p, "done")
    /\ outcome' = [outcome EXCEPT ![p] = result]
    /\ tokenLock' = [t \in Token |-> IF tokenLock[t] = p THEN None ELSE tokenLock[t]]
    /\ userLock' = [u \in User |-> IF userLock[u] = p THEN None ELSE userLock[u]]
    /\ new' = [new EXCEPT ![p] = None]
    /\ scan' = [scan EXCEPT ![p] = {}]

Rollback(p, result) ==
    /\ Finish(p, result)
    /\ UNCHANGED <<tables, body, session, condemned, faults>>

\* A call arrives.
Receive(p, b) ==
    /\ pc[p] = "idle"
    /\ body' = [body EXCEPT ![p] = b]
    /\ Goto(p, IF b.op = "Register" THEN "insert user"
               ELSE IF b.op = "Login" THEN "credentials" ELSE "lookup")
    /\ UNCHANGED <<tables, locks, scan, new, outcome, session, condemned, faults>>

\* CreateUser: the unique index on (tenant_id, LOWER(email)) makes an insert
\* wait for an uncommitted one of the same user.
InsertUser(p) ==
    LET u == body[p].user
    IN  /\ pc[p] = "insert user"
        /\ userLock[u] = None
        /\ IF account[u] # "absent"
           THEN Rollback(p, "ErrEmailAlreadyExists")
           ELSE /\ userLock' = [userLock EXCEPT ![u] = p]
                /\ Goto(p, "commit")
                /\ UNCHANGED <<tables, tokenLock, body, scan, new, outcome, session, condemned, faults>>

\* Login's checks: the user, the password, the user's status.
CheckCredentials(p) ==
    LET status == account[body[p].user]
    IN  /\ pc[p] = "credentials"
        /\ \/ Rollback(p, "ErrInvalidCredentials")
           \/ status = "disabled" /\ Rollback(p, "ErrUserDisabled")
           \/ /\ status = "active"
              /\ Goto(p, "create token")
              /\ UNCHANGED <<tables, locks, body, scan, new, outcome, session, condemned, faults>>

\* Mutant: an expired token is taken for a reused one.
SupersededOrExpired(t) == token[t].status \in {"rotated", "revoked"} \/ t \in expired
\* Refresh's test for reuse.
Superseded(t) == token[t].status \in {"rotated", "revoked"}

\* GetRefreshTokenByHash and what Refresh and Logout make of the row they
\* read outside any transaction.
Lookup(p) ==
    LET t == body[p].token
        status == token[t].status
    IN  /\ pc[p] = "lookup"
        /\ \/ status = "absent" /\ Rollback(p, "ErrRefreshTokenNotFound")
           \/ /\ body[p].op = "Refresh" /\ status # "absent" /\ ~Superseded(t) /\ t \in expired
              /\ Rollback(p, "ErrRefreshTokenInvalid")
           \/ /\ status # "absent"
              /\ body[p].op = "Logout" \/ Superseded(t) \/ t \notin expired
              /\ Goto(p, IF body[p].op = "Logout" THEN "revoke"
                         ELSE IF Superseded(t) THEN "reuse" ELSE "user")
              /\ UNCHANGED <<tables, locks, body, scan, new, outcome, session, condemned, faults>>

\* GetUserByID in Refresh.
CheckUser(p) ==
    LET status == account[token[body[p].token].user]
    IN  /\ pc[p] = "user"
        /\ \/ status = "disabled" /\ Rollback(p, "ErrUserDisabled")
           \/ /\ status = "active"
              /\ Goto(p, "create token")
              /\ UNCHANGED <<tables, locks, body, scan, new, outcome, session, condemned, faults>>

\* CreateRefreshToken, seen by nobody else before the commit.
CreateToken(p) ==
    /\ pc[p] = "create token"
    /\ new' = [new EXCEPT ![p] = IF body[p].op = "Login" THEN body[p].user
                                 ELSE token[body[p].token].user]
    /\ Goto(p, IF body[p].op = "Login" THEN "commit" ELSE "rotate")
    /\ UNCHANGED <<tables, locks, body, scan, outcome, session, condemned, faults>>

\* Mutant: WHERE id = $1 without the status.
RotatableAlways(t) == TRUE
\* WHERE id = $1 AND status = 'active', as the row is when it is reached.
Rotatable(t) == token[t].status = "active"

\* RotateRefreshToken: waits for another writer of the row, then tests again.
\* AND expires_at > now() is about the start of the transaction, which lies
\* after the lookup: a token that expired since may or may not pass.
Rotate(p) ==
    LET t == body[p].token
    IN  /\ pc[p] = "rotate"
        /\ tokenLock[t] = None
        /\ \/ /\ Rotatable(t)
              /\ tokenLock' = [tokenLock EXCEPT ![t] = p]
              /\ Goto(p, "commit")
              /\ UNCHANGED <<tables, userLock, body, scan, new, outcome, session, condemned, faults>>
           \/ /\ ~Rotatable(t) \/ t \in expired
              /\ Rollback(p, "ErrRefreshTokenInvalid")

\* Mutant: the revocation forgets its AND status = 'active'.
RevokableAlways(t) == TRUE
\* Mutant: the guard of the rotation, copied.
RevokableUnexpired(t) == token[t].status = "active" /\ t \notin expired
\* WHERE id = $1 AND status = 'active'.
Revokable(t) == token[t].status = "active"

\* RevokeRefreshToken in Logout: no row matched is no error.
Revoke(p) ==
    LET t == body[p].token
    IN  /\ pc[p] = "revoke"
        /\ tokenLock[t] = None
        /\ tokenLock' = [tokenLock EXCEPT ![t] = IF Revokable(t) THEN p ELSE None]
        /\ Goto(p, "commit")
        /\ UNCHANGED <<tables, userLock, body, scan, new, outcome, session, condemned, faults>>

\* Reuse: RevokeAllUserRefreshTokens, a transaction of its own, takes its
\* snapshot of the user's active tokens.
RevokeAll(p) ==
    LET u == token[body[p].token].user
    IN  /\ pc[p] = "reuse"
        /\ scan' = [scan EXCEPT ![p] = Active(u)]
        /\ condemned' = condemned \cup { session[t] : t \in Active(u) }
        /\ Goto(p, "revoke all")
        /\ UNCHANGED <<tables, locks, body, new, outcome, session, faults>>

\* It visits those rows in table order, waiting for their writers and testing
\* each again.
RevokeNext(p) ==
    \E t \in scan[p] :
       /\ pc[p] = "revoke all"
       /\ \A s \in scan[p] : t <= s
       /\ tokenLock[t] = None
       /\ tokenLock' = [tokenLock EXCEPT ![t] = IF Revokable(t) THEN p ELSE None]
       /\ scan' = [scan EXCEPT ![p] = scan[p] \ {t}]
       /\ UNCHANGED <<tables, userLock, pc, body, new, outcome, session, condemned, faults>>

\* Mutant: a status the schema's CHECK does not know.
WrittenLoggedOut(p) ==
    [t \in Token |->
       IF t = p /\ new[p] # None THEN Row(new[p], "active", None)
       ELSE IF tokenLock[t] # p THEN token[t]
       ELSE Row(token[t].user, "logged_out", p)]
\* The rows of token once the statements of p are committed.
Written(p) ==
    [t \in Token |->
       IF t = p /\ new[p] # None THEN Row(new[p], "active", None)
       ELSE IF tokenLock[t] # p THEN token[t]
       ELSE IF body[p].op = "Refresh" /\ pc[p] = "commit" THEN Row(token[t].user, "rotated", p)
       ELSE Row(token[t].user, "revoked", token[t].replacedBy)]

\* The statement ends and commits; no audit row is written.
RevokeAllCommits(p, result) ==
    /\ pc[p] = "revoke all"
    /\ scan[p] = {}
    /\ token' = Written(p)
    /\ Finish(p, result)
    /\ UNCHANGED <<account, expired, audits, body, session, condemned>>

\* Refresh answers ErrRefreshTokenInvalid.
RevokeAllEnds(p) == RevokeAllCommits(p, "ErrRefreshTokenInvalid") /\ UNCHANGED faults

\* The revocation took effect but its answer was lost.
RevokeAllUnacknowledged(p) ==
    /\ faults < MaxFaults
    /\ RevokeAllCommits(p, "internal")
    /\ faults' = faults + 1

AuditAction(op) ==
    IF op = "Register" THEN "user.registered"
    ELSE IF op = "Login" THEN "user.login"
    ELSE IF op = "Refresh" THEN "user.token_refreshed"
    ELSE "user.logout"

\* Mutant: the audit row is written after the commit, on its own.
AuditRowLater(p) == UNCHANGED audits
\* recordAudit, the last statement of each transaction.
AuditRow(p) == audits' = audits \cup { [action |-> AuditAction(body[p].op), by |-> p] }

\* recordAudit and tx.Commit.
Publish(p) ==
    /\ pc[p] = "commit"
    /\ token' = Written(p)
    /\ account' = [u \in User |-> IF userLock[u] = p THEN "active" ELSE account[u]]
    /\ AuditRow(p)
    /\ session' = [session EXCEPT ![p] =
          IF body[p].op = "Refresh" THEN session[body[p].token] ELSE @]
    /\ UNCHANGED <<expired, body, condemned>>

Commit(p) == Publish(p) /\ Finish(p, "ok") /\ UNCHANGED faults

\* The commit took effect but the caller sees an error, or nothing at all.
CommitUnacknowledged(p) ==
    /\ faults < MaxFaults
    /\ Publish(p)
    /\ Finish(p, "internal")
    /\ faults' = faults + 1

\* A statement fails, the context is cancelled or the process dies.
Fault(p) ==
    /\ faults < MaxFaults
    /\ pc[p] \notin {"idle", "done"}
    /\ Finish(p, "internal")
    /\ faults' = faults + 1
    /\ UNCHANGED <<tables, body, session, condemned>>

\* Seven days pass.
Expire(t) ==
    /\ token[t].status # "absent"
    /\ t \notin expired
    /\ expired' = expired \cup {t}
    /\ UNCHANGED <<account, token, audits, locks, pc, body, scan, new, outcome, session,
                   condemned, faults>>

\* An operator disables or enables a user in the database.
SetUserStatus(u) ==
    /\ account[u] # "absent"
    /\ account' = [account EXCEPT ![u] = IF @ = "active" THEN "disabled" ELSE "active"]
    /\ UNCHANGED <<token, expired, audits, locks, pc, body, scan, new, outcome, session,
                   condemned, faults>>

Step(p) ==
    \/ InsertUser(p) \/ CheckCredentials(p) \/ Lookup(p) \/ CheckUser(p)
    \/ CreateToken(p) \/ Rotate(p) \/ Revoke(p)
    \/ RevokeAll(p) \/ RevokeNext(p) \/ RevokeAllEnds(p)
    \/ Commit(p)

Next ==
    \/ \E p \in Request :
          \/ \E b \in Menu : Receive(p, b)
          \/ Step(p) \/ CommitUnacknowledged(p) \/ RevokeAllUnacknowledged(p) \/ Fault(p)
    \/ \E t \in Token : Expire(t)
    \/ \E u \in User : SetUserStatus(u)

Spec == Init /\ [][Next]_vars

\* Requests are scheduled and statements return.
Fairness == \A p \in Request : WF_vars(Step(p))
FairSpec == Spec /\ Fairness

-----------------------------------------------------------------------------
Steps == {"idle", "insert user", "credentials", "lookup", "user", "create token", "rotate",
          "revoke", "reuse", "revoke all", "commit", "done"}
Outcomes == {"none", "ok", "internal", "ErrEmailAlreadyExists", "ErrInvalidCredentials",
             "ErrUserDisabled", "ErrRefreshTokenNotFound", "ErrRefreshTokenInvalid"}

\* The type invariant.
TypeOK ==
    /\ account \in [User -> {"absent", "active", "disabled"}]
    /\ token \in [Token -> [user : User \cup {None},
                            status : {"absent", "active", "rotated", "revoked"},
                            replacedBy : Token \cup {None}]]
    /\ expired \subseteq Token
    /\ tokenLock \in [Token -> Request \cup {None}]
    /\ userLock \in [User -> Request \cup {None}]
    /\ pc \in [Request -> Steps]
    /\ body \in [Request -> [op : Operations, user : User \cup {None}, token : Token \cup {None}]]
    /\ scan \in [Request -> SUBSET Token]
    /\ new \in [Request -> User \cup {None}]
    /\ outcome \in [Request -> Outcomes]
    /\ session \in [Token -> Token]
    /\ faults \in 0..MaxFaults

\* A session never forks: of the tokens that descend from one login at most
\* one is active, however many refreshes of the same token race.
OneActiveTokenPerSession ==
    \A s, t \in Token :
       (token[s].status = "active" /\ token[t].status = "active" /\ session[s] = session[t]) => s = t

\* A rotated token has a successor, of the same user and session, and a token
\* that is not the first of its session is the successor of exactly one: no
\* two rotations share a successor and none is orphaned.
RotationChain ==
    /\ \A t \in Token :
          token[t].status = "rotated" =>
             LET n == token[t].replacedBy
             IN  /\ n \in Token
                 /\ token[n].user = token[t].user
                 /\ session[n] = session[t]
    /\ \A t \in Token :
          (token[t].status # "absent" /\ session[t] # t) =>
             \E s \in Token : /\ token[s].replacedBy = t
                              /\ \A r \in Token : token[r].replacedBy = t => r = s

\* A request issued a token exactly when there is an audit row of its login or
\* refresh, every call that was answered with success has its audit row, and
\* no call that was refused has one: tables and audit log commit together.
AuditMatchesTables ==
    \A p \in Request :
       /\ (token[p].status # "absent") <=>
             \E a \in audits : a.by = p /\ a.action \in {"user.login", "user.token_refreshed"}
       /\ (outcome[p] = "ok") => \E a \in audits : a.by = p /\ a.action = AuditAction(body[p].op)
       /\ (\E a \in audits : a.by = p) => outcome[p] \in {"ok", "internal"}

\* A token that stopped being active never changes again: a late logout or
\* a mass revocation does not rewrite how the token ended.
SpentForGood ==
    [][\A t \in Token : token[t].status \in {"rotated", "revoked"} => token'[t] = token[t]]_vars

\* Once Logout has answered 204 the token it named cannot be refreshed.
LogoutSticks ==
    \A p \in Request :
       (outcome[p] = "ok" /\ body[p].op = "Logout") => token[body[p].token].status # "active"

\* A token is revoked for a cause only: a logout that names it, or a refresh
\* that presents a superseded token of the same user.  Losing a race, an
\* expired token or another user's reuse never costs a session; a lost answer
\* does, once the client retries with the token it still has.
RevokedForCause ==
    [][\A t \in Token :
          (token[t].status = "active" /\ token'[t].status = "revoked") =>
             \E p \in Request :
                \/ body[p].op = "Logout" /\ pc[p] = "commit" /\ body[p].token = t
                \/ /\ body[p].op = "Refresh" /\ pc[p] = "revoke all"
                   /\ token[body[p].token].status \in {"rotated", "revoked"}
                   /\ token[body[p].token].user = token[t].user]_vars

\* Every call is answered: no request waits forever for a row.
EveryCallReturns == \A p \in Request : (pc[p] # "idle") ~> (pc[p] = "done")

\* internal/auth/service.go: reuse of a superseded token is to "kill every
\* active session for this user".
ReuseKillsEverySession ==
    (\A p \in Request : pc[p] # "revoke all") =>
       \A t \in Token : token[t].status = "active" => session[t] \notin condemned

=============================================================================
