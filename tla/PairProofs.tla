----------------------------- MODULE PairProofs -----------------------------
(***************************************************************************)
(* Each (tenant, key) pair of Api is an Idempotency of its own: the proof  *)
(* of EachPairIsIdempotent, for any number of tenants and keys.            *)
(*                                                                         *)
(* The argument: a step of a request changes the mapped variables of its   *)
(* own pair only, and there it is the step of the middleware of that name; *)
(* before ClaimOrGet reads its clock a request belongs to no pair.         *)
(***************************************************************************)
EXTENDS ApiProofs

\* What a request has been answered, and with what it will complete its claim.
PairOK(p) ==
    /\ stamp[p] # None => pc[p] \in Keyed \cup {"done"} /\ call[p].token # None
    /\ answer[p].kind = "none" => answer[p] = NoAnswer
    /\ pc[p] = "respond" => draft[p].status # 0
    /\ pc[p] = "complete" => answer[p] = Answer("ran", p, draft[p])
PairInv == \A p \in Request : PairOK(p)

\* The variables of Pair(t, k).
MRec(t, k) ==
    LET row == rec[<<t, k>>]
    IN  [hash |-> row.hash, status |-> row.status, by |-> row.by,
         code |-> Code(row.reply.status), created |-> row.created, expires |-> row.expires]
MPc(t, k) == [p \in Request |-> IF ~InPair(p, t, k) THEN "idle"
                                ELSE IF pc[p] = "respond" THEN "handler" ELSE pc[p]]
MHash(t, k) == [p \in Request |-> IF InPair(p, t, k) THEN HashOf(p) ELSE None]
MStamp(t, k) == [p \in Request |-> IF InPair(p, t, k) THEN stamp[p] ELSE 0]
MCode(t, k) == [p \in Request |-> IF InPair(p, t, k) /\ answer[p].kind = "ran"
                                  THEN Code(answer[p].reply.status) ELSE "none"]
MAnswer(t, k) ==
    [p \in Request |->
       IF ~InPair(p, t, k) THEN [kind |-> "none", by |-> None, code |-> "none"]
       ELSE [kind |-> answer[p].kind, by |-> answer[p].by,
             code |-> IF Served(p) THEN Code(answer[p].reply.status) ELSE "none"]]
MExecuted(t, k) == { p \in Request : InPair(p, t, k) /\ Wrote(p) # {} }

-----------------------------------------------------------------------------
\* A request that a step is not about.
Bystander(q) ==
    /\ pc'[q] = pc[q] /\ stamp'[q] = stamp[q] /\ draft'[q] = draft[q] /\ answer'[q] = answer[q]
    /\ call'[q] = call[q] /\ Wrote(q)' = Wrote(q)
    /\ stamp[q] # None => TenantOf(q)' = TenantOf(q)

\* The caller of a request in a pair keeps its tenant.
LEMMA TenantKept ==
    ASSUME IInv, PairInv, NEW q \in Request, call'[q] = call[q], stamp[q] # None,
           \A x \in Token : access[x] # NoClaims => access'[x] = access[x]
    PROVE  TenantOf(q)' = TenantOf(q)
  <1>1. call[q].token \in Token /\ access[call[q].token] # NoClaims
    BY DEF PairInv, PairOK, IInv, CallOK, TypeOK, Call, Keyed
  <1> QED
    BY <1>1 DEF TenantOf, Caller

\* A step writes audit rows of its own request only.
LEMMA OthersAudit ==
    ASSUME NEW p \in Request, Step(p), NEW q \in Request, q # p
    PROVE  Wrote(q)' = Wrote(q)
  <1>1. ASSUME NEW x, NEW y, NEW z, RecordAudit(p, x, y, z) PROVE Wrote(q)' = Wrote(q)
    BY <1>1 DEF RecordAudit, Wrote
  <1>2. CASE audit' = audit
    BY <1>2 DEF Wrote
  <1>3. ASSUME NEW o, NEW new, NEW success, NEW refusals, Serve(p, o, new, success, refusals)
        PROVE  Wrote(q)' = Wrote(q)
    BY <1>1, <1>2, <1>3 DEF Serve, Commit, Reject, ledger
  <1>4. ASSUME NEW status, NEW refusals, Settle(p, status, refusals) PROVE Wrote(q)' = Wrote(q)
    BY <1>2, <1>3, <1>4 DEF Settle, Reject, ledger
  <1>5. CASE TransferHandler(p) \/ CreateAccountHandler(p) \/ CreatePendingTransactionHandler(p)
    BY <1>3, <1>5 DEF TransferHandler, CreateAccountHandler, CreatePendingTransactionHandler
  <1>6. CASE PostPendingTransactionHandler(p) \/ FailPendingTransactionHandler(p)
    BY <1>4, <1>6 DEF PostPendingTransactionHandler, FailPendingTransactionHandler
  <1>7. CASE IssueToken(p) \/ RegisterHandler(p) \/ LogoutHandler(p)
    BY <1>1, <1>2, <1>7 DEF IssueToken, RegisterHandler, LogoutHandler, Refuse, ledger
  <1>8. CASE \/ Admit(p) \/ Claim(p) \/ GetExisting(p) \/ Complete(p) \/ Respond(p)
             \/ RequireTenantAPIKey(p) \/ CheckUser(p) \/ RotationRefused(p)
    BY <1>2, <1>8 DEF Admit, Claim, GetExisting, Complete, Respond, RequireTenantAPIKey, CheckUser,
                      RotationRefused, Refuse, ledger
  <1>9. CASE \/ GetAccountHandler(p) \/ GetTransactionHandler(p) \/ AuditLogHandler(p)
             \/ QueryFails(p) \/ ClaimUnacknowledged(p) \/ Panic(p) \/ Crash(p)
    BY <1>2, <1>9 DEF GetAccountHandler, GetTransactionHandler, AuditLogHandler, ReadHandler,
                      QueryFails, ClaimUnacknowledged, Panic, Crash, ledger
  <1> QED
    BY <1>5, <1>6, <1>7, <1>8, <1>9 DEF Step

\* A step changes the variables of its own request only.
LEMMA OthersVars ==
    ASSUME IInv, NEW p \in Request, Step(p), NEW q \in Request, q # p
    PROVE  /\ stamp'[q] = stamp[q] /\ draft'[q] = draft[q] /\ answer'[q] = answer[q]
  <1>0. /\ stamp \in [Request -> Nat \cup {None}] /\ draft \in [Request -> Replies]
        /\ answer \in [Request -> [kind : Kinds, by : Request \cup {None}, reply : Replies]]
    BY DEF IInv, Shapes
  <1>1. stamp'[q] = stamp[q]
    <2>1. CASE Admit(p)
      BY <1>0, <2>1 DEF Admit, Refuse
    <2>2. CASE stamp' = stamp
      BY <2>2
    <2> QED
      BY <2>1, <2>2 DEF Step, Claim, GetExisting, Complete, TransferHandler, CreateAccountHandler,
         CreatePendingTransactionHandler, PostPendingTransactionHandler, FailPendingTransactionHandler,
         Handler, Respond, GetAccountHandler, GetTransactionHandler, AuditLogHandler, ReadHandler,
         RequireTenantAPIKey, RegisterHandler, CheckUser, IssueToken, QueryFails, ClaimUnacknowledged,
         RotationRefused, LogoutHandler, Panic, Crash, Refuse
  <1>2. answer'[q] = answer[q]
    <2>1. ASSUME NEW a, answer' = [answer EXCEPT ![p] = a] PROVE answer'[q] = answer[q]
      BY <1>0, <2>1
    <2>2. CASE answer' = answer
      BY <2>2
    <2>3. CASE \/ Admit(p) \/ RequireTenantAPIKey(p) \/ CheckUser(p) \/ RegisterHandler(p)
               \/ RotationRefused(p) \/ LogoutHandler(p)
      BY <2>1, <2>2, <2>3 DEF Admit, RequireTenantAPIKey, CheckUser, RegisterHandler, RotationRefused,
         LogoutHandler, Refuse, Return
    <2>4. CASE \/ GetExisting(p) \/ Respond(p) \/ IssueToken(p) \/ QueryFails(p)
               \/ ClaimUnacknowledged(p) \/ Panic(p)
               \/ GetAccountHandler(p) \/ GetTransactionHandler(p) \/ AuditLogHandler(p)
      BY <2>1, <2>4 DEF GetExisting, Respond, IssueToken, QueryFails, ClaimUnacknowledged, Panic, Return,
         GetAccountHandler, GetTransactionHandler, AuditLogHandler, ReadHandler
    <2>5. CASE \/ Claim(p) \/ Complete(p) \/ Crash(p)
               \/ TransferHandler(p) \/ CreateAccountHandler(p) \/ CreatePendingTransactionHandler(p)
               \/ PostPendingTransactionHandler(p) \/ FailPendingTransactionHandler(p)
      BY <2>2, <2>5 DEF Claim, Complete, Crash, TransferHandler, CreateAccountHandler,
         CreatePendingTransactionHandler, PostPendingTransactionHandler, FailPendingTransactionHandler,
         Handler
    <2> QED
      BY <2>3, <2>4, <2>5 DEF Step
  <1>3. draft'[q] = draft[q]
    <2>1. ASSUME NEW r, draft' = [draft EXCEPT ![p] = r] PROVE draft'[q] = draft[q]
      BY <1>0, <2>1
    <2>2. CASE draft' = draft
      BY <2>2
    <2>3. ASSUME NEW o, NEW new, NEW success, NEW refusals, Serve(p, o, new, success, refusals)
          PROVE  draft'[q] = draft[q]
      BY <2>1, <2>3 DEF Serve, Commit, Reject
    <2>4. ASSUME NEW status, NEW refusals, Settle(p, status, refusals) PROVE draft'[q] = draft[q]
      BY <2>1, <2>3, <2>4 DEF Settle, Reject
    <2>5. CASE TransferHandler(p) \/ CreateAccountHandler(p) \/ CreatePendingTransactionHandler(p)
      BY <2>3, <2>5 DEF TransferHandler, CreateAccountHandler, CreatePendingTransactionHandler
    <2>6. CASE PostPendingTransactionHandler(p) \/ FailPendingTransactionHandler(p)
      BY <2>4, <2>6 DEF PostPendingTransactionHandler, FailPendingTransactionHandler
    <2>7. CASE CheckUser(p)
      BY <2>1, <2>2, <2>7 DEF CheckUser, Refuse
    <2>8. CASE \/ Admit(p) \/ Claim(p) \/ GetExisting(p) \/ Complete(p) \/ Respond(p)
               \/ RequireTenantAPIKey(p) \/ RegisterHandler(p) \/ IssueToken(p)
               \/ RotationRefused(p) \/ LogoutHandler(p)
      BY <2>2, <2>8 DEF Admit, Claim, GetExisting, Complete, Respond, RequireTenantAPIKey,
         RegisterHandler, IssueToken, RotationRefused, LogoutHandler, Refuse
    <2>9. CASE \/ GetAccountHandler(p) \/ GetTransactionHandler(p) \/ AuditLogHandler(p)
               \/ QueryFails(p) \/ ClaimUnacknowledged(p) \/ Panic(p) \/ Crash(p)
      BY <2>2, <2>9 DEF GetAccountHandler, GetTransactionHandler, AuditLogHandler, ReadHandler,
         QueryFails, ClaimUnacknowledged, Panic, Crash
    <2> QED
      BY <2>5, <2>6, <2>7, <2>8, <2>9 DEF Step
  <1> QED
    BY <1>1, <1>2, <1>3

\* A step of p is not about any other request.
LEMMA StepBystanders ==
    ASSUME IInv, PairInv, NEW p \in Request, Step(p), NEW q \in Request, q # p
    PROVE  Bystander(q)
  <1>1. /\ Wrote(q)' = Wrote(q)
        /\ stamp'[q] = stamp[q] /\ draft'[q] = draft[q] /\ answer'[q] = answer[q]
    BY OthersAudit, OthersVars
  <1>2. CASE IssueToken(p)
    <2>1. pc' = [pc EXCEPT ![p] = "done"] /\ call' = call
      BY <1>2 DEF IssueToken, Return, Goto
    <2>2. pc'[q] = pc[q]
      BY <2>1 DEF IInv, TypeOK
    <2>3. access[p] = NoClaims
      BY <1>2 DEF IInv, CallOK, IssueToken
    <2>4. \A x \in Token : access[x] # NoClaims => access'[x] = access[x]
      BY <1>2, <2>3 DEF IssueToken, IInv, Shapes
    <2> QED
      BY <1>1, <2>1, <2>2, <2>4, TenantKept DEF Bystander
  <1>3. CASE ~IssueToken(p)
    <2>1. Onward(p)
      BY <1>3, StepsOnward
    <2>2. access' = access /\ call' = call /\ pc'[q] = pc[q]
      BY <2>1 DEF Onward, IInv, TypeOK
    <2> QED
      BY <1>1, <2>2, TenantKept DEF Bystander
  <1> QED
    BY <1>2, <1>3

\* Nor is the arrival of a request about another.
LEMMA ReceiveBystanders ==
    ASSUME IInv, PairInv, NEW p \in Request, NEW b \in Menu, Receive(p, b), NEW q \in Request, q # p
    PROVE  Bystander(q)
  <1>1. /\ UNCHANGED <<access, audit, stamp, draft, answer>> /\ pc'[q] = pc[q] /\ call'[q] = call[q]
    BY DEF Receive, Goto, people, ledger, IInv, TypeOK
  <1> QED
    BY <1>1, TenantKept DEF Bystander, Wrote

-----------------------------------------------------------------------------
\* The handler of p has run: it has a status to answer with, and either left
\* the audit trail alone or wrote a row of its own.
HandlerRan(p) ==
    /\ pc[p] = "handler" /\ Goto(p, "respond")
    /\ UNCHANGED <<access, rec, call, stamp, answer, now>>
    /\ \E r : r.status # 0 /\ draft' = [draft EXCEPT ![p] = r]
    /\ Wrote(p)' = Wrote(p) \/ Wrote(p)' # {}

\* Every handler behind the middleware runs this way.
LEMMA HandlersRun ==
    ASSUME NEW p \in Request,
           \/ TransferHandler(p) \/ CreateAccountHandler(p) \/ CreatePendingTransactionHandler(p)
           \/ PostPendingTransactionHandler(p) \/ FailPendingTransactionHandler(p)
    PROVE  HandlerRan(p)
  <1> DEFINE Outcome == /\ \E r : r.status # 0 /\ draft' = [draft EXCEPT ![p] = r]
                        /\ Wrote(p)' = Wrote(p) \/ Wrote(p)' # {}
  <1>1. ASSUME NEW o, NEW new, NEW reply, reply.status # 0, Commit(p, o, new, reply)
        PROVE  Outcome
    <2>1. \E r : r.status # 0 /\ draft' = [draft EXCEPT ![p] = r]
      <3>1. Bare(422).status # 0
        BY DEF Bare, Reply
      <3>2. PICK r \in {reply, Bare(422)} : draft' = [draft EXCEPT ![p] = r]
        BY <1>1 DEF Commit
      <3> QED
        BY <1>1, <3>1, <3>2
    <2>2. Wrote(p)' # {}
      <3>1. PICK a : a.by = p /\ audit' = audit \cup {a}
        BY <1>1 DEF Commit, RecordAudit
      <3> QED
        BY <3>1 DEF Wrote
    <2> QED
      BY <2>1, <2>2
  <1>2. ASSUME NEW replies, \A r \in replies : r.status # 0, Reject(p, replies)
        PROVE  Outcome
    BY <1>2 DEF Reject, ledger, Wrote
  <1>3. ASSUME NEW o, NEW new, NEW success \in {200, 201}, NEW refusals \in SUBSET {400, 404, 409, 422},
               Serve(p, o, new, success, refusals)
        PROVE  Outcome
    <2>1. CASE Commit(p, o, new, Reply(success, o, new.status, {}))
      <3>1. Reply(success, o, new.status, {}).status # 0
        BY DEF Reply
      <3> QED
        BY <1>1, <2>1, <3>1
    <2>2. CASE Reject(p, Uncommitted(Reply(success, o, new.status, {}), refusals))
      <3>1. \A r \in Uncommitted(Reply(success, o, new.status, {}), refusals) : r.status # 0
        BY DEF Uncommitted, Bare, Reply
      <3> QED
        BY <1>2, <2>2, <3>1
    <2> QED
      BY <1>3, <2>1, <2>2 DEF Serve
  <1>4. ASSUME NEW status, NEW refusals \in SUBSET {400, 404, 409, 422}, Settle(p, status, refusals)
        PROVE  Outcome
    <2>1. CASE Serve(p, call[p].arg, Thing(TenantOf(p), "transaction", status), 200, refusals)
      BY <1>3, <2>1
    <2>2. CASE Reject(p, {Bare(IF Found(p, "transaction") THEN 409 ELSE 404), Bare(422)})
      <3>1. \A r \in {Bare(IF Found(p, "transaction") THEN 409 ELSE 404), Bare(422)} : r.status # 0
        BY DEF Bare, Reply
      <3> QED
        BY <1>2, <2>2, <3>1
    <2> QED
      BY <1>4, <2>1, <2>2 DEF Settle
  <1>5. Outcome
    <2>1. CASE TransferHandler(p) \/ CreateAccountHandler(p) \/ CreatePendingTransactionHandler(p)
      BY <1>3, <2>1 DEF TransferHandler, CreateAccountHandler, CreatePendingTransactionHandler
    <2>2. CASE PostPendingTransactionHandler(p) \/ FailPendingTransactionHandler(p)
      BY <1>4, <2>2 DEF PostPendingTransactionHandler, FailPendingTransactionHandler
    <2> QED
      BY <2>1, <2>2
  <1>6. /\ pc[p] = "handler" /\ Goto(p, "respond")
        /\ UNCHANGED <<access, rec, call, stamp, answer, now>>
    BY DEF TransferHandler, CreateAccountHandler, CreatePendingTransactionHandler,
       PostPendingTransactionHandler, FailPendingTransactionHandler, Handler, people, bounds
  <1> QED
    BY <1>5, <1>6 DEF HandlerRan

\* A step by which the chain answers, or dies without an answer.
Finishes(p) ==
    /\ pc[p] \notin {"idle", "done"} /\ Goto(p, "done")
    /\ UNCHANGED <<call, stamp, draft>>
    /\ \/ answer' = answer
       \/ \E a : a.kind # "none" /\ answer' = [answer EXCEPT ![p] = a]

\* The steps that finish a request.
LEMMA StepsFinish ==
    ASSUME NEW p \in Request,
           \/ \E status : pc[p] \in {"admit", "register", "credentials", "issue"} /\ Refuse(p, status)
           \/ GetExisting(p) \/ Complete(p)
           \/ GetAccountHandler(p) \/ GetTransactionHandler(p) \/ AuditLogHandler(p)
           \/ RegisterHandler(p) \/ IssueToken(p) \/ LogoutHandler(p)
           \/ QueryFails(p) \/ ClaimUnacknowledged(p) \/ Panic(p) \/ Crash(p)
    PROVE  Finishes(p)
  <1>0. ASSUME NEW kind, NEW by, NEW r, kind # "none", Return(p, Answer(kind, by, r))
        PROVE  Goto(p, "done") /\ \E a : a.kind # "none" /\ answer' = [answer EXCEPT ![p] = a]
    <2>1. Answer(kind, by, r).kind # "none"
      BY <1>0 DEF Answer
    <2> QED
      BY <1>0, <2>1 DEF Return
  <1>1. ASSUME NEW status, pc[p] \in {"admit", "register", "credentials", "issue", "logout"}, Refuse(p, status)
        PROVE  Finishes(p)
    BY <1>0, <1>1 DEF Refuse, Finishes
  <1>2. CASE GetExisting(p)
    BY <1>0, <1>2 DEF GetExisting, Finishes
  <1>3. CASE Complete(p) \/ Crash(p)
    BY <1>3 DEF Complete, Crash, InFlight, Finishes
  <1>4. CASE GetAccountHandler(p) \/ GetTransactionHandler(p) \/ AuditLogHandler(p)
    BY <1>0, <1>4 DEF GetAccountHandler, GetTransactionHandler, AuditLogHandler, ReadHandler, Finishes
  <1>5. CASE RegisterHandler(p) \/ LogoutHandler(p)
    BY <1>0, <1>1, <1>5 DEF RegisterHandler, LogoutHandler, Finishes
  <1>6. CASE IssueToken(p)
    BY <1>0, <1>6 DEF IssueToken, Finishes
  <1>7. CASE QueryFails(p) \/ ClaimUnacknowledged(p) \/ Panic(p)
    BY <1>0, <1>7 DEF QueryFails, ClaimUnacknowledged, Panic, Finishes
  <1> QED
    BY <1>1, <1>2, <1>3, <1>4, <1>5, <1>6, <1>7

\* What a request's own step makes of PairOK.
LEMMA StepPair ==
    ASSUME IInv, PairInv, NEW p \in Request, Step(p)
    PROVE  PairOK(p)'
  <1>0. PairOK(p) /\ CallOK(p)
    BY DEF PairInv, IInv
  <1>type. /\ pc \in [Request -> Steps] /\ stamp \in [Request -> Nat \cup {None}]
        /\ draft \in [Request -> Replies] /\ answer \in [Request -> Answers]
    BY DEF IInv, TypeOK, Shapes, Answers
  <1>1. ASSUME Finishes(p) PROVE PairOK(p)'
    <2>1. pc'[p] = "done" /\ call'[p] = call[p] /\ stamp'[p] = stamp[p] /\ draft'[p] = draft[p]
      BY <1>1, <1>type DEF Finishes, Goto
    <2>2. answer'[p] = answer[p] \/ answer'[p].kind # "none"
      BY <1>1, <1>type DEF Finishes
    <2> QED
      BY <1>0, <2>1, <2>2 DEF PairOK
  <1>2. CASE Admit(p)
    <2>1. CASE \E status : Refuse(p, status)
      BY <1>1, <1>2, <2>1, StepsFinish DEF Admit
    <2>2. CASE ~\E status : Refuse(p, status)
      <3>1. /\ Valid(call[p].token) /\ UNCHANGED <<call, draft, answer>> /\ pc[p] = "admit"
            /\ \/ Goto(p, "read") /\ stamp' = stamp
               \/ Goto(p, "claim")
        BY <1>2, <2>2 DEF Admit, Authenticated
      <3>2. stamp[p] = None
        BY <1>0, <3>1 DEF PairOK, Keyed
      <3>3. call'[p].token # None
        BY <3>1 DEF Valid
      <3>4. pc'[p] = "claim" \/ (pc'[p] = "read" /\ stamp'[p] = None)
        BY <1>type, <3>1, <3>2 DEF Goto
      <3> QED
        BY <1>0, <3>1, <3>3, <3>4 DEF PairOK, Keyed
    <2> QED
      BY <2>1, <2>2
  <1>3. CASE Claim(p)
    <2>1. pc'[p] \in {"handler", "get"} /\ UNCHANGED <<call, stamp, draft, answer>>
      BY <1>3, <1>type DEF Claim, Goto
    <2> QED
      BY <1>0, <2>1 DEF PairOK, Keyed
  <1>4. CASE \/ TransferHandler(p) \/ CreateAccountHandler(p) \/ CreatePendingTransactionHandler(p)
             \/ PostPendingTransactionHandler(p) \/ FailPendingTransactionHandler(p)
    <2>1. HandlerRan(p)
      BY <1>4, HandlersRun
    <2>2. pc'[p] = "respond" /\ draft'[p].status # 0 /\ UNCHANGED <<call, stamp, answer>>
      BY <2>1, <1>type DEF HandlerRan, Goto
    <2> QED
      BY <1>0, <2>2 DEF PairOK, Keyed
  <1>5. CASE Respond(p)
    <2>1. /\ pc'[p] = "complete" /\ UNCHANGED <<call, stamp, draft>>
          /\ answer'[p] = Answer("ran", p, draft[p])
      BY <1>5, <1>type DEF Respond, Goto
    <2>2. answer'[p].kind # "none"
      BY <2>1 DEF Answer
    <2>3. answer'[p] = Answer("ran", p, draft'[p])
      BY <2>1
    <2> QED
      BY <1>0, <2>1, <2>2, <2>3 DEF PairOK, Keyed
  <1>6. CASE CheckUser(p)
    <2>1. CASE \E status : Refuse(p, status)
      BY <1>1, <1>6, <2>1, StepsFinish DEF CheckUser
    <2>2. CASE ~\E status : Refuse(p, status)
      <3>1. pc[p] = "credentials" /\ pc'[p] = "issue" /\ UNCHANGED <<call, stamp, answer>>
        BY <1>6, <1>type, <2>2 DEF CheckUser, Goto
      <3> QED
        BY <1>0, <3>1 DEF PairOK, Keyed
    <2> QED
      BY <2>1, <2>2
  <1>7. CASE RequireTenantAPIKey(p) \/ RotationRefused(p)
    BY <1>1, <1>7, StepsFinish DEF RequireTenantAPIKey, RotationRefused
  <1> QED
    BY <1>1, <1>2, <1>3, <1>4, <1>5, <1>6, <1>7, StepsFinish DEF Step

\* PairOK of a bystander.
LEMMA BystanderPair ==
    ASSUME PairInv, NEW q \in Request, Bystander(q)
    PROVE  PairOK(q)'
  <1>1. PairOK(q)
    BY DEF PairInv
  <1> QED
    BY <1>1 DEF PairOK, Bystander

-----------------------------------------------------------------------------
\* A bystander is the same to every pair.
LEMMA BystanderMaps ==
    ASSUME NEW t, NEW k, NEW q \in Request, Bystander(q)
    PROVE  /\ InPair(q, t, k)' <=> InPair(q, t, k)
           /\ MPc(t, k)'[q] = MPc(t, k)[q] /\ MHash(t, k)'[q] = MHash(t, k)[q]
           /\ MStamp(t, k)'[q] = MStamp(t, k)[q] /\ MCode(t, k)'[q] = MCode(t, k)[q]
           /\ MAnswer(t, k)'[q] = MAnswer(t, k)[q]
           /\ q \in MExecuted(t, k)' <=> q \in MExecuted(t, k)
  <1>1. InPair(q, t, k)' <=> InPair(q, t, k)
    BY DEF Bystander, InPair
  <1>2. HashOf(q)' = HashOf(q) /\ (Served(q)' <=> Served(q))
    BY DEF Bystander, HashOf, Served
  <1>3. MPc(t, k)'[q] = MPc(t, k)[q]
    BY <1>1 DEF Bystander, MPc
  <1>4. MHash(t, k)'[q] = MHash(t, k)[q]
    BY <1>1, <1>2 DEF MHash
  <1>5. MStamp(t, k)'[q] = MStamp(t, k)[q]
    BY <1>1 DEF Bystander, MStamp
  <1>6. MCode(t, k)'[q] = MCode(t, k)[q]
    BY <1>1 DEF Bystander, MCode
  <1>7. MAnswer(t, k)'[q] = MAnswer(t, k)[q]
    BY <1>1, <1>2 DEF Bystander, MAnswer
  <1>8. q \in MExecuted(t, k)' <=> q \in MExecuted(t, k)
    BY <1>1 DEF Bystander, MExecuted
  <1> QED
    BY <1>1, <1>3, <1>4, <1>5, <1>6, <1>7, <1>8

\* A step of p changes the mapped variables at p only.
LEMMA Frame ==
    ASSUME NEW t, NEW k, NEW p \in Request, \A q \in Request : q # p => Bystander(q)
    PROVE  /\ MPc(t, k)' = [MPc(t, k) EXCEPT ![p] = MPc(t, k)'[p]]
           /\ MHash(t, k)' = [MHash(t, k) EXCEPT ![p] = MHash(t, k)'[p]]
           /\ MStamp(t, k)' = [MStamp(t, k) EXCEPT ![p] = MStamp(t, k)'[p]]
           /\ MCode(t, k)' = [MCode(t, k) EXCEPT ![p] = MCode(t, k)'[p]]
           /\ MAnswer(t, k)' = [MAnswer(t, k) EXCEPT ![p] = MAnswer(t, k)'[p]]
           /\ MPc(t, k)'[p] = MPc(t, k)[p] => MPc(t, k)' = MPc(t, k)
           /\ MHash(t, k)'[p] = MHash(t, k)[p] => MHash(t, k)' = MHash(t, k)
           /\ MStamp(t, k)'[p] = MStamp(t, k)[p] => MStamp(t, k)' = MStamp(t, k)
           /\ MCode(t, k)'[p] = MCode(t, k)[p] => MCode(t, k)' = MCode(t, k)
           /\ MAnswer(t, k)'[p] = MAnswer(t, k)[p] => MAnswer(t, k)' = MAnswer(t, k)
           /\ (p \in MExecuted(t, k)' <=> p \in MExecuted(t, k)) => MExecuted(t, k)' = MExecuted(t, k)
           /\ p \in MExecuted(t, k)' => MExecuted(t, k)' = MExecuted(t, k) \cup {p}
  <1>1. ASSUME NEW q \in Request, q # p
        PROVE  /\ MPc(t, k)'[q] = MPc(t, k)[q] /\ MHash(t, k)'[q] = MHash(t, k)[q]
               /\ MStamp(t, k)'[q] = MStamp(t, k)[q] /\ MCode(t, k)'[q] = MCode(t, k)[q]
               /\ MAnswer(t, k)'[q] = MAnswer(t, k)[q]
               /\ q \in MExecuted(t, k)' <=> q \in MExecuted(t, k)
    BY <1>1, BystanderMaps
  <1>2. ASSUME NEW f, NEW g, f = [q \in Request |-> f[q]], g = [q \in Request |-> g[q]],
               \A q \in Request : q # p => g[q] = f[q]
        PROVE  g = [f EXCEPT ![p] = g[p]]
    <2>1. DOMAIN f = Request
      BY <1>2
    <2>2. [f EXCEPT ![p] = g[p]] = [q \in Request |-> IF q = p THEN g[p] ELSE f[q]]
      BY <2>1
    <2>3. [q \in Request |-> IF q = p THEN g[p] ELSE f[q]] = [q \in Request |-> g[q]]
      BY <1>2
    <2> QED
      BY <1>2, <2>2, <2>3
  <1>3. MPc(t, k)' = [MPc(t, k) EXCEPT ![p] = MPc(t, k)'[p]]
    <2>1. /\ MPc(t, k) = [q \in Request |-> MPc(t, k)[q]]
          /\ MPc(t, k)' = [q \in Request |-> MPc(t, k)'[q]]
      BY DEF MPc
    <2> QED
      BY <1>1, <1>2, <2>1
  <1>4. MHash(t, k)' = [MHash(t, k) EXCEPT ![p] = MHash(t, k)'[p]]
    <2>1. /\ MHash(t, k) = [q \in Request |-> MHash(t, k)[q]]
          /\ MHash(t, k)' = [q \in Request |-> MHash(t, k)'[q]]
      BY DEF MHash
    <2> QED
      BY <1>1, <1>2, <2>1
  <1>5. MStamp(t, k)' = [MStamp(t, k) EXCEPT ![p] = MStamp(t, k)'[p]]
    <2>1. /\ MStamp(t, k) = [q \in Request |-> MStamp(t, k)[q]]
          /\ MStamp(t, k)' = [q \in Request |-> MStamp(t, k)'[q]]
      BY DEF MStamp
    <2> QED
      BY <1>1, <1>2, <2>1
  <1>6. MCode(t, k)' = [MCode(t, k) EXCEPT ![p] = MCode(t, k)'[p]]
    <2>1. /\ MCode(t, k) = [q \in Request |-> MCode(t, k)[q]]
          /\ MCode(t, k)' = [q \in Request |-> MCode(t, k)'[q]]
      BY DEF MCode
    <2> QED
      BY <1>1, <1>2, <2>1
  <1>7. MAnswer(t, k)' = [MAnswer(t, k) EXCEPT ![p] = MAnswer(t, k)'[p]]
    <2>1. /\ MAnswer(t, k) = [q \in Request |-> MAnswer(t, k)[q]]
          /\ MAnswer(t, k)' = [q \in Request |-> MAnswer(t, k)'[q]]
      BY DEF MAnswer
    <2> QED
      BY <1>1, <1>2, <2>1
  <1>8. MExecuted(t, k) \subseteq Request /\ MExecuted(t, k)' \subseteq Request
    BY DEF MExecuted
  <1>9. /\ [MPc(t, k) EXCEPT ![p] = MPc(t, k)[p]] = MPc(t, k)
        /\ [MHash(t, k) EXCEPT ![p] = MHash(t, k)[p]] = MHash(t, k)
        /\ [MStamp(t, k) EXCEPT ![p] = MStamp(t, k)[p]] = MStamp(t, k)
        /\ [MCode(t, k) EXCEPT ![p] = MCode(t, k)[p]] = MCode(t, k)
        /\ [MAnswer(t, k) EXCEPT ![p] = MAnswer(t, k)[p]] = MAnswer(t, k)
    BY DEF MPc, MHash, MStamp, MCode, MAnswer
  <1> QED
    BY <1>1, <1>3, <1>4, <1>5, <1>6, <1>7, <1>8, <1>9

\* The variables of the instance are the mapped ones.
LEMMA SameVars ==
    ASSUME NEW t, NEW k, MRec(t, k)' = MRec(t, k), MPc(t, k)' = MPc(t, k), MHash(t, k)' = MHash(t, k),
           MStamp(t, k)' = MStamp(t, k), MCode(t, k)' = MCode(t, k), MAnswer(t, k)' = MAnswer(t, k),
           MExecuted(t, k)' = MExecuted(t, k), now' = now
    PROVE  UNCHANGED Pair(t, k)!vars
  BY DEF Pair!vars, MRec, MPc, MHash, MStamp, MCode, MAnswer, MExecuted

\* A request outside the pair does nothing to it.
LEMMA Elsewhere ==
    ASSUME NEW t, NEW k, NEW p \in Request, \A q \in Request : q # p => Bystander(q),
           ~InPair(p, t, k), ~InPair(p, t, k)', rec'[<<t, k>>] = rec[<<t, k>>], now' = now
    PROVE  UNCHANGED Pair(t, k)!vars
  <1>1. /\ MPc(t, k)'[p] = MPc(t, k)[p] /\ MHash(t, k)'[p] = MHash(t, k)[p]
        /\ MStamp(t, k)'[p] = MStamp(t, k)[p] /\ MCode(t, k)'[p] = MCode(t, k)[p]
        /\ MAnswer(t, k)'[p] = MAnswer(t, k)[p]
        /\ p \in MExecuted(t, k)' <=> p \in MExecuted(t, k)
    BY DEF MPc, MHash, MStamp, MCode, MAnswer, MExecuted
  <1>2. MRec(t, k)' = MRec(t, k)
    BY DEF MRec
  <1> QED
    BY <1>1, <1>2, Frame, SameVars

-----------------------------------------------------------------------------
\* The steps of Pair(t, k), stated of the mapped variables.

MReturn(t, k, p, a) ==
    /\ MPc(t, k)' = [MPc(t, k) EXCEPT ![p] = "done"]
    /\ MAnswer(t, k)' = [MAnswer(t, k) EXCEPT ![p] = a]
MStill(t, k) ==
    /\ MHash(t, k)' = MHash(t, k) /\ MStamp(t, k)' = MStamp(t, k)
    /\ MExecuted(t, k)' = MExecuted(t, k) /\ now' = now
MAns(kind, by, c) == [kind |-> kind, by |-> by, code |-> c]
MRow(h, status, by, c, created, expires) ==
    [hash |-> h, status |-> status, by |-> by, code |-> c, created |-> created, expires |-> expires]
MClaimable(t, k, p) == MRec(t, k).status = "absent" \/ MRec(t, k).expires < MStamp(t, k)[p]
MClaimRow(t, k, p) ==
    MRec(t, k)' = MRow(MHash(t, k)[p], "processing", None, "none", MStamp(t, k)[p], MStamp(t, k)[p] + Lease)

\* A mapped step that reads the clock is Receive.
LEMMA ToReceive ==
    ASSUME NEW t, NEW k, NEW p \in Request, MPc(t, k)[p] = "idle",
           NEW h \in { <<b.route, b.arg>> : b \in Menu },
           MHash(t, k)' = [MHash(t, k) EXCEPT ![p] = h],
           MStamp(t, k)' = [MStamp(t, k) EXCEPT ![p] = now], now \in Nat,
           MPc(t, k)' = [MPc(t, k) EXCEPT ![p] = "claim"],
           MRec(t, k)' = MRec(t, k), MCode(t, k)' = MCode(t, k), MAnswer(t, k)' = MAnswer(t, k),
           MExecuted(t, k)' = MExecuted(t, k), now' = now
    PROVE  Pair(t, k)!Next
  <1>1. now \in (now - 0)..(now + 0)
    OBVIOUS
  <1>2. Pair(t, k)!Receive(p)
    BY <1>1 DEF Pair!Receive, MRec, MPc, MHash, MStamp, MCode, MAnswer, MExecuted
  <1> QED
    BY <1>2 DEF Pair!Next, Pair!Step

\* The claim query, whether it takes the row or finds it taken.
LEMMA ToClaim ==
    ASSUME NEW t, NEW k, NEW p \in Request, MPc(t, k)[p] = "claim",
           \/ /\ MClaimable(t, k, p) /\ MClaimRow(t, k, p)
              /\ MPc(t, k)' = [MPc(t, k) EXCEPT ![p] = "handler"]
           \/ /\ ~MClaimable(t, k, p) /\ MRec(t, k)' = MRec(t, k)
              /\ MPc(t, k)' = [MPc(t, k) EXCEPT ![p] = "get"],
           MStill(t, k), MCode(t, k)' = MCode(t, k), MAnswer(t, k)' = MAnswer(t, k)
    PROVE  Pair(t, k)!Next
  <1>1. MStamp(t, k)' = [MStamp(t, k) EXCEPT ![p] = MStamp(t, k)[p]]
    BY DEF MStill, MStamp
  <1>2. MClaimRow(t, k, p) => MRec(t, k)'.created = MStamp(t, k)[p]
    BY DEF MClaimRow, MRow
  <1>3. Pair(t, k)!Claim(p)
    BY <1>1, <1>2 DEF Pair!Claim, Pair!Claimable, Pair!ClaimRow, Pair!Row, MClaimable, MClaimRow, MRow,
       MStill, MRec, MPc, MHash, MStamp, MCode, MAnswer, MExecuted
  <1> QED
    BY <1>3 DEF Pair!Next, Pair!Step

\* A claim whose answer is lost.
LEMMA ToClaimUnacknowledged ==
    ASSUME NEW t, NEW k, NEW p \in Request, MPc(t, k)[p] = "claim",
           MClaimable(t, k, p), MClaimRow(t, k, p), MReturn(t, k, p, MAns("internal", None, "none")),
           MStill(t, k), MCode(t, k)' = MCode(t, k)
    PROVE  Pair(t, k)!Next
  <1>1. Pair(t, k)!ClaimUnacknowledged(p)
    BY DEF Pair!ClaimUnacknowledged, Pair!Claimable, Pair!ClaimRow, Pair!Row, Pair!Return, Pair!Answer,
       MClaimable, MClaimRow, MRow, MStill, MReturn, MAns,
       MRec, MPc, MHash, MStamp, MCode, MAnswer, MExecuted
  <1> QED
    BY <1>1 DEF Pair!Next, Pair!Step

\* A failed query of ClaimOrGet, or a panic in the handler.
LEMMA ToFailure ==
    ASSUME NEW t, NEW k, NEW p \in Request, MPc(t, k)[p] \in {"claim", "get", "handler"},
           MReturn(t, k, p, MAns("internal", None, "none")),
           MStill(t, k), MRec(t, k)' = MRec(t, k), MCode(t, k)' = MCode(t, k)
    PROVE  Pair(t, k)!Next
  <1>1. Pair(t, k)!ClaimOrGetFails(p) \/ Pair(t, k)!Panic(p)
    BY DEF Pair!ClaimOrGetFails, Pair!Panic, Pair!Return, Pair!Answer, MStill, MReturn, MAns,
       MRec, MPc, MHash, MStamp, MCode, MAnswer, MExecuted
  <1> QED
    BY <1>1 DEF Pair!Next, Pair!Step

\* The answer of handleExisting.
LEMMA ToGetExisting ==
    ASSUME NEW t, NEW k, NEW p \in Request, MPc(t, k)[p] = "get",
           MReturn(t, k, p, IF MRec(t, k).hash # MHash(t, k)[p] THEN MAns("ErrKeyReused", None, "none")
                            ELSE IF MRec(t, k).status = "processing" THEN MAns("ErrInFlight", None, "none")
                            ELSE MAns("replayed", MRec(t, k).by, MRec(t, k).code)),
           MStill(t, k), MRec(t, k)' = MRec(t, k), MCode(t, k)' = MCode(t, k)
    PROVE  Pair(t, k)!Next
  <1>1. Pair(t, k)!GetExisting(p)
    BY DEF Pair!GetExisting, Pair!HandleExisting, Pair!Return, Pair!Answer, MStill, MReturn, MAns,
       MRec, MPc, MHash, MStamp, MCode, MAnswer, MExecuted
  <1> QED
    BY <1>1 DEF Pair!Next, Pair!Step

\* The handler's commit.
LEMMA ToTakeEffect ==
    ASSUME NEW t, NEW k, NEW p \in Request, MPc(t, k)[p] = "handler", p \notin MExecuted(t, k),
           MExecuted(t, k)' = MExecuted(t, k) \cup {p},
           MRec(t, k)' = MRec(t, k), MPc(t, k)' = MPc(t, k), MHash(t, k)' = MHash(t, k),
           MStamp(t, k)' = MStamp(t, k), MCode(t, k)' = MCode(t, k), MAnswer(t, k)' = MAnswer(t, k),
           now' = now
    PROVE  Pair(t, k)!Next
  <1>1. Pair(t, k)!TakeEffect(p)
    BY DEF Pair!TakeEffect, MRec, MPc, MHash, MStamp, MCode, MAnswer, MExecuted
  <1> QED
    BY <1>1 DEF Pair!Next, Pair!Step

\* The handler's response; a success has a commit behind it.
LEMMA ToRespond ==
    ASSUME NEW t, NEW k, NEW p \in Request, MPc(t, k)[p] = "handler",
           NEW c \in {"success", "error"}, c = "success" => p \in MExecuted(t, k),
           MCode(t, k)' = [MCode(t, k) EXCEPT ![p] = c],
           MAnswer(t, k)' = [MAnswer(t, k) EXCEPT ![p] = MAns("ran", p, c)],
           MPc(t, k)' = [MPc(t, k) EXCEPT ![p] = "complete"],
           MStill(t, k), MRec(t, k)' = MRec(t, k)
    PROVE  Pair(t, k)!Next
  <1>1. c \in IF p \in MExecuted(t, k) THEN {"success", "error"} ELSE {"error"}
    OBVIOUS
  <1>2. Pair(t, k)!Respond(p)
    BY <1>1 DEF Pair!Respond, Pair!Answer, MStill, MAns,
       MRec, MPc, MHash, MStamp, MCode, MAnswer, MExecuted
  <1> QED
    BY <1>2 DEF Pair!Next, Pair!Step

\* Complete, whether its fence holds or not.
LEMMA ToComplete ==
    ASSUME NEW t, NEW k, NEW p \in Request, MPc(t, k)[p] = "complete",
           MStamp(t, k)[p] \in Nat, now \in Nat, MStamp(t, k)[p] <= now,
           IF MRec(t, k).created = MStamp(t, k)[p]
           THEN MRec(t, k)' = MRow(MRec(t, k).hash, "completed", p, MCode(t, k)[p],
                                   MRec(t, k).created, now + Retention)
           ELSE MRec(t, k)' = MRec(t, k),
           MPc(t, k)' = [MPc(t, k) EXCEPT ![p] = "done"],
           MStill(t, k), MCode(t, k)' = MCode(t, k), MAnswer(t, k)' = MAnswer(t, k)
    PROVE  Pair(t, k)!Next
  <1>1. now \in MStamp(t, k)[p]..(now + 0)
    OBVIOUS
  <1>2. Pair(t, k)!Complete(p)
    BY <1>1 DEF Pair!Complete, Pair!Fenced, Pair!CompleteWrite, Pair!CompletedRow, Pair!Row, MStill, MRow,
       MRec, MPc, MHash, MStamp, MCode, MAnswer, MExecuted
  <1> QED
    BY <1>2 DEF Pair!Next, Pair!Step

\* The end of a process.
LEMMA ToCrash ==
    ASSUME NEW t, NEW k, NEW p \in Request, MPc(t, k)[p] \notin {"idle", "done"},
           MPc(t, k)' = [MPc(t, k) EXCEPT ![p] = "done"],
           MStill(t, k), MRec(t, k)' = MRec(t, k), MCode(t, k)' = MCode(t, k), MAnswer(t, k)' = MAnswer(t, k)
    PROVE  Pair(t, k)!Next
  <1>1. Pair(t, k)!Crash(p)
    BY DEF Pair!Crash, MStill, MRec, MPc, MHash, MStamp, MCode, MAnswer, MExecuted
  <1> QED
    BY <1>1 DEF Pair!Next, Pair!Step

-----------------------------------------------------------------------------
\* A step of p that keeps p in its pair, or out of all pairs.
Stays(p) ==
    /\ UNCHANGED <<call, stamp, access, now>>
    /\ \A q \in Request : q # p => Bystander(q)

\* A request belongs to the pair whose row its queries name, from its claim on.
LEMMA PairOfRequest ==
    ASSUME IInv, PairInv, NEW p \in Request, NEW t, NEW k
    PROVE  /\ pc[p] \in Keyed => (InPair(p, t, k) <=> PairOf(p) = <<t, k>>)
           /\ pc[p] \notin Keyed \cup {"done"} => stamp[p] = None /\ ~InPair(p, t, k)
  <1>1. pc[p] \in Keyed => stamp[p] # None
    BY ApiAssumption DEF IInv, CallOK
  <1>2. pc[p] \notin Keyed \cup {"done"} => stamp[p] = None
    BY DEF PairInv, PairOK
  <1> QED
    BY <1>1, <1>2 DEF InPair, PairOf

\* The mapped variables at a request of the pair, before and after its step.
LEMMA AtHome ==
    ASSUME NEW p \in Request, Stays(p), NEW t, NEW k, InPair(p, t, k)
    PROVE  /\ MPc(t, k)[p] = IF pc[p] = "respond" THEN "handler" ELSE pc[p]
           /\ MPc(t, k)' = [MPc(t, k) EXCEPT ![p] = IF pc'[p] = "respond" THEN "handler" ELSE pc'[p]]
           /\ MHash(t, k)[p] = HashOf(p) /\ MHash(t, k)' = MHash(t, k)
           /\ MStamp(t, k)[p] = stamp[p] /\ MStamp(t, k)' = MStamp(t, k)
           /\ MCode(t, k)[p] = IF answer[p].kind = "ran" THEN Code(answer[p].reply.status) ELSE "none"
           /\ MCode(t, k)' = [MCode(t, k) EXCEPT ![p] =
                 IF answer'[p].kind = "ran" THEN Code(answer'[p].reply.status) ELSE "none"]
           /\ MAnswer(t, k)' = [MAnswer(t, k) EXCEPT ![p] =
                 MAns(answer'[p].kind, answer'[p].by,
                      IF answer'[p].kind \in {"ran", "replayed"} THEN Code(answer'[p].reply.status)
                      ELSE "none")]
           /\ answer'[p] = answer[p] => MAnswer(t, k)' = MAnswer(t, k) /\ MCode(t, k)' = MCode(t, k)
           /\ (answer[p].kind # "ran" /\ answer'[p].kind # "ran") => MCode(t, k)' = MCode(t, k)
           /\ p \in MExecuted(t, k) <=> Wrote(p) # {}
           /\ Wrote(p)' = Wrote(p) => MExecuted(t, k)' = MExecuted(t, k)
           /\ Wrote(p)' # {} => MExecuted(t, k)' = MExecuted(t, k) \cup {p}
           /\ now' = now
  <1>1. /\ InPair(p, t, k)' /\ HashOf(p)' = HashOf(p) /\ now' = now
        /\ \A q \in Request : q # p => Bystander(q)
    BY DEF Stays, InPair, TenantOf, Caller, HashOf
  <1>2. /\ MPc(t, k)[p] = IF pc[p] = "respond" THEN "handler" ELSE pc[p]
        /\ MPc(t, k)'[p] = IF pc'[p] = "respond" THEN "handler" ELSE pc'[p]
    BY <1>1 DEF MPc
  <1>3. MHash(t, k)[p] = HashOf(p) /\ MHash(t, k)'[p] = MHash(t, k)[p]
    BY <1>1 DEF MHash
  <1>4. MStamp(t, k)[p] = stamp[p] /\ MStamp(t, k)'[p] = MStamp(t, k)[p]
    BY <1>1 DEF MStamp, Stays
  <1>5. /\ MCode(t, k)[p] = IF answer[p].kind = "ran" THEN Code(answer[p].reply.status) ELSE "none"
        /\ MCode(t, k)'[p] = IF answer'[p].kind = "ran" THEN Code(answer'[p].reply.status) ELSE "none"
    BY <1>1 DEF MCode
  <1>6. /\ MAnswer(t, k)[p] =
              MAns(answer[p].kind, answer[p].by,
                   IF answer[p].kind \in {"ran", "replayed"} THEN Code(answer[p].reply.status) ELSE "none")
        /\ MAnswer(t, k)'[p] =
              MAns(answer'[p].kind, answer'[p].by,
                   IF answer'[p].kind \in {"ran", "replayed"} THEN Code(answer'[p].reply.status)
                   ELSE "none")
    BY <1>1 DEF MAnswer, MAns, Served
  <1>7. (p \in MExecuted(t, k) <=> Wrote(p) # {}) /\ (p \in MExecuted(t, k)' <=> Wrote(p)' # {})
    BY <1>1 DEF MExecuted
  <1> QED
    BY <1>1, <1>2, <1>3, <1>4, <1>5, <1>6, <1>7, Frame

\* The row that a request's queries name, as its pair sees it.
LEMMA RowAtHome ==
    ASSUME NEW p \in Request, NEW t, NEW k, PairOf(p) = <<t, k>>
    PROVE  /\ MRec(t, k).status = rec[PairOf(p)].status /\ MRec(t, k).hash = rec[PairOf(p)].hash
           /\ MRec(t, k).created = rec[PairOf(p)].created /\ MRec(t, k).expires = rec[PairOf(p)].expires
           /\ MRec(t, k).by = rec[PairOf(p)].by
           /\ MRec(t, k).code = Code(rec[PairOf(p)].reply.status)
  BY DEF MRec

\* A row written whole.
LEMMA RowWritten ==
    ASSUME NEW t, NEW k, NEW h, NEW status, NEW by, NEW reply, NEW c, NEW e,
           rec'[<<t, k>>] = Row(h, status, by, reply, c, e)
    PROVE  MRec(t, k)' = MRow(h, status, by, Code(reply.status), c, e)
  BY DEF MRec, MRow, Row

\* Whatever a request does in its own pair, the others do not see it.
LEMMA NotAtHome ==
    ASSUME IInv, PairInv, NEW p \in Request, Stays(p), NEW t \in Tenant, NEW k \in Key, ~InPair(p, t, k),
           \/ rec' = rec
           \/ pc[p] \in Keyed /\ \E row : rec' = [rec EXCEPT ![PairOf(p)] = row]
    PROVE  UNCHANGED Pair(t, k)!vars
  <1>1. ~InPair(p, t, k)'
    BY DEF Stays, InPair, TenantOf, Caller
  <1>2. rec'[<<t, k>>] = rec[<<t, k>>]
    <2>1. CASE pc[p] \in Keyed
      <3>1. PairOf(p) # <<t, k>>
        BY <2>1, PairOfRequest
      <3> QED
        BY <3>1 DEF IInv, Shapes
    <2> QED
      BY <2>1
  <1> QED
    BY <1>1, <1>2, Elsewhere DEF Stays

-----------------------------------------------------------------------------
\* What the refinement asks of a step.
Follows(t, k) == UNCHANGED Pair(t, k)!vars \/ Pair(t, k)!Next

\* ClaimOrGet reads its clock: the request joins its pair.
LEMMA AdmitFollows ==
    ASSUME IInv, PairInv, NEW p \in Request, Admit(p), \A q \in Request : q # p => Bystander(q),
           NEW t \in Tenant, NEW k \in Key
    PROVE  Follows(t, k)
  <1>0. /\ pc[p] = "admit" /\ rec' = rec /\ now' = now /\ call' = call /\ access' = access
        /\ audit' = audit
    BY DEF Admit, Refuse, people, ledger, bounds
  <1>1. stamp[p] = None /\ ~InPair(p, t, k)
    BY <1>0, PairOfRequest DEF Keyed
  <1>2. CASE ~InPair(p, t, k)'
    BY <1>0, <1>1, <1>2, Elsewhere DEF Follows
  <1>3. CASE InPair(p, t, k)'
    <2>1. stamp'[p] # None
      BY <1>3 DEF InPair
    <2>2. stamp' # stamp
      BY <1>1, <2>1
    <2>3. /\ stamp' = [stamp EXCEPT ![p] = now] /\ Goto(p, "claim") /\ UNCHANGED <<draft, answer>>
      BY <2>2 DEF Admit, Refuse
    <2>4. stamp'[p] = now /\ pc'[p] = "claim" /\ answer'[p] = answer[p] /\ now \in Nat
      BY <2>3 DEF IInv, TypeOK, Shapes, Goto
    <2>5. answer[p].kind = "none" /\ answer[p] = NoAnswer /\ Wrote(p) = {} /\ Wrote(p)' = {}
          /\ call[p] \in Menu
      BY <1>0 DEF IInv, CallOK, PairInv, PairOK, Wrote
    <2>6. MPc(t, k)[p] = "idle" /\ MPc(t, k)'[p] = "claim"
      BY <1>1, <1>3, <2>4 DEF MPc
    <2>7. MHash(t, k)'[p] = <<call[p].route, call[p].arg>>
      BY <1>0, <1>3 DEF MHash, HashOf
    <2>8. MStamp(t, k)'[p] = now
      BY <1>3, <2>4 DEF MStamp
    <2>9. MCode(t, k)'[p] = MCode(t, k)[p]
      BY <1>1, <1>3, <2>4, <2>5 DEF MCode
    <2>10. MAnswer(t, k)'[p] = MAnswer(t, k)[p]
      <3>1. answer'[p].kind = "none" /\ answer'[p].by = None
        BY <2>4, <2>5 DEF NoAnswer, Answer
      <3>2. ~Served(p)'
        BY <3>1 DEF Served
      <3> QED
        BY <1>1, <1>3, <3>1, <3>2 DEF MAnswer
    <2>11. p \notin MExecuted(t, k) /\ p \notin MExecuted(t, k)'
      BY <1>1, <2>5 DEF MExecuted
    <2>12. MRec(t, k)' = MRec(t, k)
      BY <1>0 DEF MRec
    <2>13. PICK h \in { <<b.route, b.arg>> : b \in Menu } : h = <<call[p].route, call[p].arg>>
      BY <2>5
    <2>14. Pair(t, k)!Next
      BY <1>0, <2>4, <2>6, <2>7, <2>8, <2>9, <2>10, <2>11, <2>12, <2>13, Frame, ToReceive
    <2> QED
      BY <2>14 DEF Follows
  <1> QED
    BY <1>2, <1>3

\* The claim query decides on the row of the request's own pair.
LEMMA ClaimFollows ==
    ASSUME IInv, PairInv, NEW p \in Request, Claim(p) \/ ClaimUnacknowledged(p), Stays(p),
           NEW t \in Tenant, NEW k \in Key
    PROVE  Follows(t, k)
  <1>0. pc[p] = "claim" /\ pc[p] \in Keyed /\ audit' = audit
    BY DEF Claim, ClaimUnacknowledged, Keyed, ledger
  <1>1. rec' = rec \/ ClaimRow(p)
    BY DEF Claim, ClaimUnacknowledged
  <1>2. CASE ~InPair(p, t, k)
    <2>1. rec' = rec \/ \E row : rec' = [rec EXCEPT ![PairOf(p)] = row]
      BY <1>1 DEF ClaimRow
    <2> QED
      BY <1>0, <1>2, <2>1, NotAtHome DEF Follows
  <1>3. CASE InPair(p, t, k)
    <2>1. PairOf(p) = <<t, k>>
      BY <1>0, <1>3, PairOfRequest
    <2>2. ClaimRow(p) => MClaimRow(t, k, p)
      <3> SUFFICES ASSUME ClaimRow(p) PROVE MClaimRow(t, k, p)
        OBVIOUS
      <3>0. PICK h, c : h = HashOf(p) /\ c = stamp[p]
        OBVIOUS
      <3>1. rec'[<<t, k>>] = Row(h, "processing", None, NoReply, c, c + Lease)
        BY <2>1, <3>0 DEF ClaimRow, IInv, Shapes
      <3>2. MRec(t, k)' = MRow(h, "processing", None, Code(NoReply.status), c, c + Lease)
        BY <3>1, RowWritten
      <3>3. Code(NoReply.status) = "none"
        BY Empty DEF Code
      <3> QED
        BY <1>3, <3>0, <3>2, <3>3, AtHome DEF MClaimRow
    <2>3. Claimable(p) <=> MClaimable(t, k, p)
      BY <1>3, <2>1, AtHome, RowAtHome DEF Claimable, MClaimable
    <2>4. MPc(t, k)[p] = "claim" /\ MStill(t, k) /\ answer[p].kind = "none"
      <3>1. Wrote(p)' = Wrote(p) /\ answer[p].kind = "none"
        BY <1>0 DEF Wrote, IInv, CallOK
      <3> QED
        BY <1>0, <1>3, <3>1, AtHome DEF MStill
    <2>5. CASE Claim(p)
      <3>1. answer' = answer
        BY <2>5 DEF Claim
      <3>2. \/ Claimable(p) /\ ClaimRow(p) /\ pc'[p] = "handler"
            \/ ~Claimable(p) /\ rec' = rec /\ pc'[p] = "get"
        BY <2>5 DEF Claim, Goto, IInv, TypeOK
      <3>3. rec' = rec => MRec(t, k)' = MRec(t, k)
        BY DEF MRec
      <3>4. /\ MPc(t, k)' = [MPc(t, k) EXCEPT ![p] = IF pc'[p] = "respond" THEN "handler" ELSE pc'[p]]
            /\ MCode(t, k)' = MCode(t, k) /\ MAnswer(t, k)' = MAnswer(t, k)
        BY <1>3, <3>1, AtHome
      <3>5. Pair(t, k)!Next
        BY <2>2, <2>3, <2>4, <3>2, <3>3, <3>4, ToClaim
      <3> QED
        BY <3>5 DEF Follows
    <2>6. CASE ClaimUnacknowledged(p)
      <3>1. /\ Claimable(p) /\ ClaimRow(p) /\ pc'[p] = "done"
            /\ answer'[p] = Answer("internal", None, Bare(500))
        BY <2>6 DEF ClaimUnacknowledged, Return, Goto, IInv, TypeOK, Shapes
      <3>2. answer'[p].kind = "internal" /\ answer'[p].by = None
        BY <3>1 DEF Answer
      <3>3. MReturn(t, k, p, MAns("internal", None, "none")) /\ MCode(t, k)' = MCode(t, k)
        BY <1>3, <2>4, <3>1, <3>2, AtHome DEF MReturn
      <3>4. Pair(t, k)!Next
        BY <2>2, <2>3, <2>4, <3>1, <3>3, ToClaimUnacknowledged
      <3> QED
        BY <3>4 DEF Follows
    <2> QED
      BY <2>5, <2>6
  <1> QED
    BY <1>2, <1>3

\* A failed query or a panic: the row stays as it is.
LEMMA FailureFollows ==
    ASSUME IInv, PairInv, NEW p \in Request, QueryFails(p) \/ Panic(p), Stays(p),
           NEW t \in Tenant, NEW k \in Key
    PROVE  Follows(t, k)
  <1>0. rec' = rec /\ audit' = audit /\ pc[p] # "done" /\ pc[p] # "complete"
    BY DEF QueryFails, Panic, ledger
  <1>1. CASE ~InPair(p, t, k)
    BY <1>0, <1>1, NotAtHome DEF Follows
  <1>2. CASE InPair(p, t, k)
    <2>1. pc[p] \in {"claim", "get", "handler", "respond"}
      BY <1>0, <1>2, PairOfRequest DEF Keyed
    <2>2. PICK n : answer' = [answer EXCEPT ![p] = Answer("internal", None, Bare(n))] /\ Goto(p, "done")
      BY DEF QueryFails, Panic, Return
    <2>3. answer'[p].kind = "internal" /\ answer'[p].by = None /\ pc'[p] = "done"
      BY <2>2 DEF IInv, TypeOK, Shapes, Goto, Answer
    <2>4. Wrote(p)' = Wrote(p) /\ answer[p].kind = "none"
      BY <1>0 DEF Wrote, IInv, CallOK
    <2>5. MRec(t, k)' = MRec(t, k)
      BY <1>0 DEF MRec
    <2>6. /\ MPc(t, k)[p] \in {"claim", "get", "handler"} /\ MStill(t, k) /\ MCode(t, k)' = MCode(t, k)
          /\ MReturn(t, k, p, MAns("internal", None, "none"))
      BY <1>2, <2>1, <2>3, <2>4, AtHome DEF MStill, MReturn
    <2>7. Pair(t, k)!Next
      BY <2>5, <2>6, ToFailure
    <2> QED
      BY <2>7 DEF Follows
  <1> QED
    BY <1>1, <1>2

\* The row a request reads is that of its own pair.
LEMMA GetExistingFollows ==
    ASSUME IInv, PairInv, NEW p \in Request, GetExisting(p), Stays(p), NEW t \in Tenant, NEW k \in Key
    PROVE  Follows(t, k)
  <1>0. rec' = rec /\ audit' = audit /\ pc[p] = "get" /\ pc[p] \in Keyed
    BY DEF GetExisting, ledger, Keyed
  <1>1. CASE ~InPair(p, t, k)
    BY <1>0, <1>1, NotAtHome DEF Follows
  <1>2. CASE InPair(p, t, k)
    <2>1. PairOf(p) = <<t, k>>
      BY <1>0, <1>2, PairOfRequest
    <2>2. PICK row : row = rec[PairOf(p)]
      OBVIOUS
    <2>3. /\ pc'[p] = "done"
          /\ answer'[p] = IF row.hash # HashOf(p) THEN Answer("ErrKeyReused", None, Bare(422))
                          ELSE IF row.status = "processing" THEN Answer("ErrInFlight", None, Bare(409))
                          ELSE Answer("replayed", row.by, row.reply)
      BY <2>2 DEF GetExisting, Return, Goto, IInv, TypeOK, Shapes
    <2>4. /\ MRec(t, k).hash = row.hash /\ MRec(t, k).status = row.status /\ MRec(t, k).by = row.by
          /\ MRec(t, k).code = Code(row.reply.status) /\ MHash(t, k)[p] = HashOf(p)
      BY <1>2, <2>1, <2>2, RowAtHome, AtHome
    <2>5. Wrote(p)' = Wrote(p) /\ answer[p].kind = "none"
      BY <1>0 DEF Wrote, IInv, CallOK
    <2>6. MRec(t, k)' = MRec(t, k)
      BY <1>0 DEF MRec
    <2>7. MAns(answer'[p].kind, answer'[p].by,
               IF answer'[p].kind \in {"ran", "replayed"} THEN Code(answer'[p].reply.status) ELSE "none")
          = IF MRec(t, k).hash # MHash(t, k)[p] THEN MAns("ErrKeyReused", None, "none")
            ELSE IF MRec(t, k).status = "processing" THEN MAns("ErrInFlight", None, "none")
            ELSE MAns("replayed", MRec(t, k).by, MRec(t, k).code)
      <3>1. CASE row.hash # HashOf(p)
        BY <2>3, <2>4, <3>1 DEF Answer
      <3>2. CASE row.hash = HashOf(p) /\ row.status = "processing"
        BY <2>3, <2>4, <3>2 DEF Answer
      <3>3. CASE row.hash = HashOf(p) /\ row.status # "processing"
        BY <2>3, <2>4, <3>3 DEF Answer
      <3> QED
        BY <3>1, <3>2, <3>3
    <2>8. answer'[p].kind # "ran"
      BY <2>3 DEF Answer
    <2>9. MPc(t, k)[p] = "get" /\ MStill(t, k) /\ MCode(t, k)' = MCode(t, k)
      BY <1>0, <1>2, <2>5, <2>8, AtHome DEF MStill
    <2>10. MReturn(t, k, p, IF MRec(t, k).hash # MHash(t, k)[p] THEN MAns("ErrKeyReused", None, "none")
                            ELSE IF MRec(t, k).status = "processing" THEN MAns("ErrInFlight", None, "none")
                            ELSE MAns("replayed", MRec(t, k).by, MRec(t, k).code))
      BY <1>2, <2>3, <2>7, AtHome DEF MReturn
    <2>11. Pair(t, k)!Next
      BY <2>6, <2>9, <2>10, ToGetExisting
    <2> QED
      BY <2>11 DEF Follows
  <1> QED
    BY <1>1, <1>2

\* A handler commits, or leaves no trace: to its pair, TakeEffect or nothing.
LEMMA HandlerFollows ==
    ASSUME IInv, PairInv, NEW p \in Request, HandlerRan(p), Stays(p), NEW t \in Tenant, NEW k \in Key
    PROVE  Follows(t, k)
  <1>0. /\ rec' = rec /\ pc[p] = "handler" /\ answer' = answer /\ pc'[p] = "respond"
        /\ Wrote(p) = {} /\ (Wrote(p)' = Wrote(p) \/ Wrote(p)' # {})
    BY DEF HandlerRan, Goto, IInv, TypeOK, CallOK
  <1>1. CASE ~InPair(p, t, k)
    BY <1>0, <1>1, NotAtHome DEF Follows
  <1>2. CASE InPair(p, t, k)
    <2>1. /\ MPc(t, k)[p] = "handler" /\ MHash(t, k)' = MHash(t, k) /\ MStamp(t, k)' = MStamp(t, k)
          /\ MCode(t, k)' = MCode(t, k) /\ MAnswer(t, k)' = MAnswer(t, k)
          /\ p \notin MExecuted(t, k) /\ now' = now
          /\ \/ MExecuted(t, k)' = MExecuted(t, k)
             \/ MExecuted(t, k)' = MExecuted(t, k) \cup {p}
      <3>1. /\ MPc(t, k)[p] = IF pc[p] = "respond" THEN "handler" ELSE pc[p]
            /\ MHash(t, k)' = MHash(t, k) /\ MStamp(t, k)' = MStamp(t, k) /\ now' = now
        BY <1>2, AtHome
      <3>2. answer'[p] = answer[p] => MAnswer(t, k)' = MAnswer(t, k) /\ MCode(t, k)' = MCode(t, k)
        BY <1>2, AtHome
      <3>3. /\ p \in MExecuted(t, k) <=> Wrote(p) # {}
            /\ Wrote(p)' = Wrote(p) => MExecuted(t, k)' = MExecuted(t, k)
            /\ Wrote(p)' # {} => MExecuted(t, k)' = MExecuted(t, k) \cup {p}
        BY <1>2, AtHome
      <3>4. answer'[p] = answer[p]
        BY <1>0
      <3>5. MPc(t, k)[p] = "handler"
        BY <1>0, <3>1
      <3>6. \/ MExecuted(t, k)' = MExecuted(t, k)
            \/ MExecuted(t, k)' = MExecuted(t, k) \cup {p}
        BY <1>0, <3>3, Zenon
      <3> QED
        BY <1>0, <3>1, <3>2, <3>3, <3>4, <3>5, <3>6
    <2>2. MPc(t, k)' = MPc(t, k)
      <3>1. MPc(t, k)'[p] = MPc(t, k)[p]
        <4>1. InPair(p, t, k)'
          BY <1>2 DEF Stays, InPair, TenantOf, Caller
        <4> QED
          BY <1>0, <1>2, <4>1 DEF MPc
      <3> QED
        BY <3>1, Frame DEF Stays
    <2>3. MRec(t, k)' = MRec(t, k)
      BY <1>0 DEF MRec
    <2>4. UNCHANGED Pair(t, k)!vars \/ Pair(t, k)!Next
      BY <2>1, <2>2, <2>3, SameVars, ToTakeEffect
    <2> QED
      BY <2>4 DEF Follows
  <1> QED
    BY <1>1, <1>2

\* The response is written; GoodReply says that a success has an audit row.
LEMMA RespondFollows ==
    ASSUME IInv, PairInv, NEW p \in Request, Respond(p), Stays(p), NEW t \in Tenant, NEW k \in Key
    PROVE  Follows(t, k)
  <1>0. rec' = rec /\ audit' = audit /\ pc[p] = "respond"
    BY DEF Respond, ledger
  <1>1. CASE ~InPair(p, t, k)
    BY <1>0, <1>1, NotAtHome DEF Follows
  <1>2. CASE InPair(p, t, k)
    <2>1. pc'[p] = "complete" /\ answer'[p] = Answer("ran", p, draft[p])
      BY DEF Respond, Goto, IInv, TypeOK, Shapes
    <2>2. answer'[p].kind = "ran" /\ answer'[p].by = p /\ answer'[p].reply = draft[p]
      BY <2>1 DEF Answer
    <2>3. PICK c : c = Code(draft[p].status)
      OBVIOUS
    <2>4. draft[p].status # 0 /\ draft[p].status \in Nat
      BY <1>0 DEF PairInv, PairOK, IInv, Shapes, Replies
    <2>5. c \in {"success", "error"} /\ (c = "success" => draft[p].status < 300)
      BY <2>3, <2>4 DEF Code
    <2>6. draft[p].status < 300 => Wrote(p) # {}
      BY <1>0 DEF IInv, ClaimOK, CallOK, Keyed, GoodReply
    <2>7. Wrote(p)' = Wrote(p)
      BY <1>0 DEF Wrote
    <2>8. MRec(t, k)' = MRec(t, k)
      BY <1>0 DEF MRec
    <2>9. /\ MPc(t, k)[p] = "handler" /\ MPc(t, k)' = [MPc(t, k) EXCEPT ![p] = "complete"]
          /\ MCode(t, k)' = [MCode(t, k) EXCEPT ![p] = c]
          /\ MAnswer(t, k)' = [MAnswer(t, k) EXCEPT ![p] = MAns("ran", p, c)]
          /\ p \in MExecuted(t, k) <=> Wrote(p) # {}
          /\ MStill(t, k)
      BY <1>0, <1>2, <2>1, <2>2, <2>3, <2>7, AtHome DEF MStill
    <2>10. Pair(t, k)!Next
      BY <2>5, <2>6, <2>8, <2>9, ToRespond
    <2> QED
      BY <2>10 DEF Follows
  <1> QED
    BY <1>1, <1>2

\* Complete stores the response its own client was sent.
LEMMA CompleteFollows ==
    ASSUME IInv, PairInv, NEW p \in Request, Complete(p), Stays(p), NEW t \in Tenant, NEW k \in Key
    PROVE  Follows(t, k)
  <1>0. /\ pc[p] = "complete" /\ pc[p] \in Keyed /\ audit' = audit /\ answer' = answer /\ pc'[p] = "done"
    BY DEF Complete, ledger, Keyed, Goto, IInv, TypeOK
  <1>1. CASE ~InPair(p, t, k)
    <2>1. rec' = rec \/ \E row : rec' = [rec EXCEPT ![PairOf(p)] = row]
      BY DEF Complete
    <2> QED
      BY <1>0, <1>1, <2>1, NotAtHome DEF Follows
  <1>2. CASE InPair(p, t, k)
    <2>1. PairOf(p) = <<t, k>>
      BY <1>0, <1>2, PairOfRequest
    <2>2. PICK row, d, n : row = rec[PairOf(p)] /\ d = draft[p] /\ n = now
      OBVIOUS
    <2>3. MCode(t, k)[p] = Code(d.status)
      <3>1. answer[p] = Answer("ran", p, draft[p])
        BY <1>0 DEF PairInv, PairOK
      <3>2. answer[p].kind = "ran" /\ answer[p].reply = d
        BY <2>2, <3>1 DEF Answer
      <3> QED
        BY <1>2, <3>2, AtHome
    <2>4. MRec(t, k).hash = row.hash /\ MRec(t, k).created = row.created
      BY <2>1, <2>2, RowAtHome
    <2>5. IF row.created = stamp[p]
          THEN MRec(t, k)' = MRow(row.hash, "completed", p, Code(d.status), row.created, n + Retention)
          ELSE MRec(t, k)' = MRec(t, k)
      <3>1. CASE row.created = stamp[p]
        <4>1. rec'[<<t, k>>] = Row(row.hash, "completed", p, d, row.created, n + Retention)
          BY <2>1, <2>2, <3>1 DEF Complete, IInv, Shapes
        <4> QED
          BY <3>1, <4>1, RowWritten
      <3>2. CASE row.created # stamp[p]
        <4>1. rec' = rec
          BY <2>2, <3>2 DEF Complete
        <4> QED
          BY <3>2, <4>1 DEF MRec
      <3> QED
        BY <3>1, <3>2
    <2>6. Wrote(p)' = Wrote(p) /\ stamp[p] \in Nat /\ now \in Nat /\ stamp[p] <= now
      BY <1>0 DEF Wrote, IInv, CallOK, Shapes
    <2>7. /\ MPc(t, k)[p] = "complete" /\ MPc(t, k)' = [MPc(t, k) EXCEPT ![p] = "done"]
          /\ MStamp(t, k)[p] = stamp[p] /\ MStill(t, k)
          /\ MCode(t, k)' = MCode(t, k) /\ MAnswer(t, k)' = MAnswer(t, k)
      BY <1>0, <1>2, <2>6, AtHome DEF MStill
    <2>8. Pair(t, k)!Next
      BY <2>2, <2>3, <2>4, <2>5, <2>6, <2>7, ToComplete
    <2> QED
      BY <2>8 DEF Follows
  <1> QED
    BY <1>1, <1>2

\* A crash ends the request wherever it is.
LEMMA CrashFollows ==
    ASSUME IInv, PairInv, NEW p \in Request, Crash(p), Stays(p), NEW t \in Tenant, NEW k \in Key
    PROVE  Follows(t, k)
  <1>0. rec' = rec /\ audit' = audit /\ answer' = answer /\ pc'[p] = "done" /\ pc[p] \notin {"idle", "done"}
    BY DEF Crash, InFlight, ledger, Goto, IInv, TypeOK
  <1>1. CASE ~InPair(p, t, k)
    BY <1>0, <1>1, NotAtHome DEF Follows
  <1>2. CASE InPair(p, t, k)
    <2>1. Wrote(p)' = Wrote(p) /\ MRec(t, k)' = MRec(t, k)
      BY <1>0 DEF Wrote, MRec
    <2>2. /\ MPc(t, k)[p] \notin {"idle", "done"} /\ MPc(t, k)' = [MPc(t, k) EXCEPT ![p] = "done"]
          /\ MStill(t, k) /\ MCode(t, k)' = MCode(t, k) /\ MAnswer(t, k)' = MAnswer(t, k)
      BY <1>0, <1>2, <2>1, AtHome DEF MStill
    <2>3. Pair(t, k)!Next
      BY <2>1, <2>2, ToCrash
    <2> QED
      BY <2>3 DEF Follows
  <1> QED
    BY <1>1, <1>2

\* The steps outside the middleware: no pair sees them.
LEMMA OutsideFollows ==
    ASSUME IInv, PairInv, NEW p \in Request, pc[p] \notin Keyed \cup {"done"},
           \A q \in Request : q # p => Bystander(q),
           stamp' = stamp, rec' = rec, now' = now, NEW t \in Tenant, NEW k \in Key
    PROVE  Follows(t, k)
  <1>1. stamp[p] = None /\ stamp'[p] = None
    BY PairOfRequest
  <1>2. ~InPair(p, t, k) /\ ~InPair(p, t, k)'
    BY <1>1 DEF InPair
  <1> QED
    BY <1>2, Elsewhere DEF Follows

-----------------------------------------------------------------------------
\* Each step of a request is, to each pair, a step of the middleware or none.
LEMMA StepFollows ==
    ASSUME IInv, PairInv, NEW p \in Request, Step(p), NEW t \in Tenant, NEW k \in Key
    PROVE  Follows(t, k)
  <1>0. \A q \in Request : q # p => Bystander(q)
    BY StepBystanders
  <1>1. CASE Admit(p)
    BY <1>0, <1>1, AdmitFollows
  <1>2. CASE Claim(p) \/ ClaimUnacknowledged(p)
    <2>1. Stays(p)
      BY <1>0, <1>2 DEF Claim, ClaimUnacknowledged, Stays, people, bounds
    <2> QED
      BY <1>2, <2>1, ClaimFollows
  <1>3. CASE QueryFails(p) \/ Panic(p)
    <2>1. Stays(p)
      BY <1>0, <1>3 DEF QueryFails, Panic, Stays, people
    <2> QED
      BY <1>3, <2>1, FailureFollows
  <1>4. CASE GetExisting(p)
    <2>1. Stays(p)
      BY <1>0, <1>4 DEF GetExisting, Stays, people, bounds
    <2> QED
      BY <1>4, <2>1, GetExistingFollows
  <1>5. CASE \/ TransferHandler(p) \/ CreateAccountHandler(p) \/ CreatePendingTransactionHandler(p)
             \/ PostPendingTransactionHandler(p) \/ FailPendingTransactionHandler(p)
    <2>1. HandlerRan(p)
      BY <1>5, HandlersRun
    <2>2. Stays(p)
      BY <1>0, <2>1 DEF HandlerRan, Stays
    <2> QED
      BY <2>1, <2>2, HandlerFollows
  <1>6. CASE Respond(p)
    <2>1. Stays(p)
      BY <1>0, <1>6 DEF Respond, Stays, people, bounds
    <2> QED
      BY <1>6, <2>1, RespondFollows
  <1>7. CASE Complete(p)
    <2>1. Stays(p)
      BY <1>0, <1>7 DEF Complete, Stays, people, bounds
    <2> QED
      BY <1>7, <2>1, CompleteFollows
  <1>8. CASE Crash(p)
    <2>1. Stays(p)
      BY <1>0, <1>8 DEF Crash, Stays, people
    <2> QED
      BY <1>8, <2>1, CrashFollows
  <1>9. CASE GetAccountHandler(p) \/ GetTransactionHandler(p) \/ AuditLogHandler(p)
    <2>1. pc[p] \notin Keyed \cup {"done"} /\ stamp' = stamp /\ rec' = rec /\ now' = now
      BY <1>9 DEF GetAccountHandler, GetTransactionHandler, AuditLogHandler, ReadHandler, Keyed, bounds
    <2> QED
      BY <1>0, <2>1, OutsideFollows
  <1>10. CASE \/ RequireTenantAPIKey(p) \/ RegisterHandler(p) \/ CheckUser(p) \/ IssueToken(p)
              \/ RotationRefused(p) \/ LogoutHandler(p)
    <2>1. pc[p] \notin Keyed \cup {"done"} /\ stamp' = stamp /\ rec' = rec /\ now' = now
      BY <1>10 DEF RequireTenantAPIKey, RegisterHandler, CheckUser, IssueToken, RotationRefused,
         LogoutHandler, Refuse, Keyed, bounds
    <2> QED
      BY <1>0, <2>1, OutsideFollows
  <1> QED
    BY <1>1, <1>2, <1>3, <1>4, <1>5, <1>6, <1>7, <1>8, <1>9, <1>10 DEF Step

\* A step of the operator or of the clock leaves every request alone.
LEMMA Unmoved ==
    ASSUME UNCHANGED <<access, audit, pc, call, stamp, draft, answer>>, NEW q \in Request
    PROVE  Bystander(q)
  BY DEF Bystander, Wrote, TenantOf, Caller

\* A step of the operator is no step of a pair, and Tick is a step of all.
LEMMA ClockFollows ==
    ASSUME UNCHANGED <<access, audit, rec, pc, call, stamp, draft, answer>>,
           now' = now \/ (now < MaxTime /\ now' = now + 1), NEW t \in Tenant, NEW k \in Key
    PROVE  Follows(t, k)
  <1>1. /\ MRec(t, k)' = MRec(t, k) /\ MPc(t, k)' = MPc(t, k) /\ MHash(t, k)' = MHash(t, k)
        /\ MStamp(t, k)' = MStamp(t, k) /\ MCode(t, k)' = MCode(t, k) /\ MAnswer(t, k)' = MAnswer(t, k)
        /\ MExecuted(t, k)' = MExecuted(t, k)
    BY DEF MRec, MPc, MHash, MStamp, MCode, MAnswer, MExecuted, InPair, TenantOf, Caller, HashOf,
       Served, Wrote
  <1>2. CASE now' = now
    BY <1>1, <1>2, SameVars DEF Follows
  <1>3. CASE now < MaxTime /\ now' = now + 1
    <2>1. Pair(t, k)!Tick
      BY <1>1, <1>3 DEF Pair!Tick, MRec, MPc, MHash, MStamp, MCode, MAnswer, MExecuted
    <2>2. Pair(t, k)!Next
      BY <2>1 DEF Pair!Next
    <2> QED
      BY <2>2 DEF Follows
  <1> QED
    BY <1>2, <1>3

\* PairInv is kept, and the pairs follow.
LEMMA NextFollows ==
    ASSUME IInv, PairInv, [Next]_vars
    PROVE  PairInv' /\ \A t \in Tenant, k \in Key : Follows(t, k)
  <1>1. ASSUME NEW p \in Request, Step(p)
        PROVE  PairInv' /\ \A t \in Tenant, k \in Key : Follows(t, k)
    <2>1. \A q \in Request : PairOK(q)'
      BY <1>1, StepPair, StepBystanders, BystanderPair
    <2> QED
      BY <1>1, <2>1, StepFollows DEF PairInv
  <1>2. ASSUME NEW p \in Request, NEW b \in Menu, Receive(p, b)
        PROVE  PairInv' /\ \A t \in Tenant, k \in Key : Follows(t, k)
    <2>1. \A q \in Request : q # p => Bystander(q)
      BY <1>2, ReceiveBystanders
    <2>2. /\ pc[p] = "idle" /\ pc'[p] \in {"register", "logout", "credentials", "admit"}
          /\ UNCHANGED <<stamp, draft, answer, rec, now>>
      BY <1>2 DEF Receive, Goto, bounds, IInv, TypeOK
    <2>3. stamp[p] = None
      BY <2>2, PairOfRequest DEF Keyed
    <2>4. PairOK(p)'
      <3>1. PairOK(p)
        BY DEF PairInv
      <3> QED
        BY <2>2, <2>3, <3>1 DEF PairOK
    <2>5. \A q \in Request : PairOK(q)'
      BY <2>1, <2>4, BystanderPair
    <2>6. \A t \in Tenant, k \in Key : Follows(t, k)
      BY <2>1, <2>2, OutsideFollows DEF Keyed
    <2> QED
      BY <2>5, <2>6 DEF PairInv
  <1>3. ASSUME UNCHANGED <<access, audit, rec, pc, call, stamp, draft, answer>>,
               now' = now \/ (now < MaxTime /\ now' = now + 1)
        PROVE  PairInv' /\ \A t \in Tenant, k \in Key : Follows(t, k)
    <2>1. \A q \in Request : PairOK(q)'
      BY <1>3, Unmoved, BystanderPair
    <2> QED
      BY <1>3, <2>1, ClockFollows DEF PairInv
  <1>4. CASE \E u \in User : SetStatus(u) \/ \E role \in Roles : SetRole(u, role)
    BY <1>3, <1>4 DEF SetStatus, SetRole, Edit, ledger
  <1>5. CASE Tick
    BY <1>3, <1>5 DEF Tick, people, ledger
  <1>6. CASE UNCHANGED vars
    BY <1>3, <1>6 DEF vars, people, ledger, bounds
  <1> QED
    BY <1>1, <1>2, <1>4, <1>5, <1>6 DEF Next

\* Initially no request is in a pair and no pair has a row.
LEMMA InitFollows ==
    ASSUME Init
    PROVE  PairInv /\ \A t \in Tenant, k \in Key : Pair(t, k)!Init
  <1>1. PairInv
    <2> SUFFICES ASSUME NEW p \in Request PROVE PairOK(p)
      BY DEF PairInv
    <2> QED
      BY DEF Init, PairOK
  <1>2. ASSUME NEW t \in Tenant, NEW k \in Key PROVE Pair(t, k)!Init
    <2>1. ASSUME NEW p \in Request PROVE ~InPair(p, t, k)
      BY <2>1 DEF Init, InPair
    <2>2. rec[<<t, k>>] = NoRecord
      BY DEF Init
    <2>3. MRec(t, k) = MRow(None, "absent", None, "none", 0, 0)
      BY <2>2 DEF MRec, MRow, NoRecord, Row, NoReply, Bare, Reply, Code
    <2>4. /\ MPc(t, k) = [p \in Request |-> "idle"] /\ MHash(t, k) = [p \in Request |-> None]
          /\ MStamp(t, k) = [p \in Request |-> 0] /\ MCode(t, k) = [p \in Request |-> "none"]
          /\ MAnswer(t, k) = [p \in Request |-> MAns("none", None, "none")]
          /\ MExecuted(t, k) = {}
      BY <2>1 DEF MPc, MHash, MStamp, MCode, MAnswer, MAns, MExecuted
    <2>5. now = 0
      BY DEF Init
    <2> QED
      BY <2>3, <2>4, <2>5 DEF Pair!Init, Pair!NoRecord, Pair!Row, Pair!Answer, MRow, MAns,
         MRec, MPc, MHash, MStamp, MCode, MAnswer, MExecuted
  <1> QED
    BY <1>1, <1>2

\* Whatever the other tenants and keys do, and however many requests are under
\* way, each (tenant, key) pair of the API only takes steps of the idempotency
\* middleware on its own row: ON CONFLICT (tenant_id, key) and the WHERE clauses
\* of Get and Complete keep the pairs apart, so what is proved of module
\* Idempotency holds of each of them.
THEOREM PairsAreIdempotent == Spec => EachPairIsIdempotent
  <1>1. Init => PairInv /\ \A t \in Tenant, k \in Key : Pair(t, k)!Init
    BY InitFollows
  <1>2. IInv /\ PairInv /\ [Next]_vars =>
           PairInv' /\ [\A t \in Tenant, k \in Key : UNCHANGED Pair(t, k)!vars \/ Pair(t, k)!Next]_vars
    <2> SUFFICES ASSUME IInv, PairInv, [Next]_vars
                 PROVE  PairInv' /\ \A t \in Tenant, k \in Key : UNCHANGED Pair(t, k)!vars \/ Pair(t, k)!Next
      OBVIOUS
    <2>1. PairInv' /\ \A t \in Tenant, k \in Key : Follows(t, k)
      BY NextFollows
    <2> QED
      BY <2>1 DEF Follows
  <1> QED
    BY <1>1, <1>2, InductiveInvariant, PTL DEF Spec, EachPairIsIdempotent
=============================================================================
