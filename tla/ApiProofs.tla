----------------------------- MODULE ApiProofs -----------------------------
(***************************************************************************)
(* Proofs about Api, for any number of tenants, users, keys and concurrent *)
(* requests, any lifetimes, and any number of faults and edits.            *)
(*                                                                         *)
(* The argument: claims, objects, audit rows and rows of idempotency_keys  *)
(* only grow (Grows), so what a reply says when it is written (GoodReply)  *)
(* stays true; a completed row holds the reply of a request with its own   *)
(* hash and tenant because Complete is fenced by created_at (ClaimOK); and *)
(* a request gets past RequirePermission only while its user's role has    *)
(* the permission (HeldOK).                                                *)
(***************************************************************************)
EXTENDS Api, TLAPS

ObjectStatuses == {"absent", "open", "pending", "posted", "failed"}
Replies == [status : Nat, about : Object \cup {None},
            says : ObjectStatuses \cup Roles \cup {"none"}, rows : SUBSET AuditRow]
Kinds == {"none", "plain", "ran", "replayed", "ErrKeyReused", "ErrInFlight", "internal"}

\* The shapes TypeOK leaves open.
Shapes ==
    /\ user \in [User -> [tenant : Tenant \cup {None}, role : Roles \cup {None},
                          status : {"absent", "active", "disabled"}]]
    /\ access \in [Token -> [user : User \cup {None}, tenant : Tenant \cup {None},
                             role : Roles \cup {None}, exp : Nat]]
    /\ object \in [Object -> [tenant : Tenant \cup {None}, kind : {"none", "account", "transaction"},
                              status : ObjectStatuses]]
    /\ \A o \in Object : object[o].status = "absent" => object[o] = NoThing
    /\ rec \in [Tenant \X Key ->
          [hash : (Routes \X (Object \cup {None})) \cup {None},
           status : {"absent", "processing", "completed"}, by : Request \cup {None},
           reply : Replies, created : Nat, expires : Nat]]
    /\ stamp \in [Request -> Nat \cup {None}]
    /\ draft \in [Request -> Replies]
    /\ answer \in [Request -> [kind : Kinds, by : Request \cup {None}, reply : Replies]]
    /\ now \in Nat

\* The claims of a token are those of a user row, which keeps its tenant.
PeopleOK ==
    \A t \in Token : access[t] # NoClaims =>
       user[access[t].user].status # "absent" /\ user[access[t].user].tenant = access[t].tenant

\* An audit row is about a user and an object of its tenant.
AuditOK ==
    \A a \in audit :
       /\ a.actor # None => user[a.actor].status # "absent" /\ user[a.actor].tenant = a.tenant
       /\ a.object # None => object[a.object].status # "absent" /\ object[a.object].tenant = a.tenant

\* The steps with an Idempotency-Key in hand, and those past RequirePermission.
Keyed == {"claim", "get", "handler", "respond", "complete"}
PastAdmit == Keyed \cup {"read"}

\* A request on its way has changed nothing before its handler has run.
CallOK(p) ==
    /\ pc[p] # "idle" => call[p] \in Menu /\ (call[p].token # None => access[call[p].token] # NoClaims)
    /\ pc[p] \notin {"respond", "complete", "done"} => Wrote(p) = {} /\ object[p] = NoThing
    /\ pc[p] \notin {"complete", "done"} => answer[p].kind = "none"
    /\ pc[p] # "done" => user[p].status = "absent" /\ access[p] = NoClaims
    /\ pc[p] \in {"credentials", "issue"} => call[p].route = "login"
    /\ pc[p] = "logout" => call[p].route = "logout"
    /\ pc[p] = "issue" => user[call[p].user].status # "absent" /\ draft[p].says \in Roles
    /\ pc[p] = "admit" => call[p].route \in Mutating \cup Reading
    /\ pc[p] \in PastAdmit => call[p].token # None
    /\ pc[p] = "read" => call[p].route \in Reading
    /\ pc[p] \in Keyed => /\ call[p].route \in Mutating /\ call[p].key \in Key
                          /\ stamp[p] \in Nat /\ stamp[p] <= now

\* held is exact where it matters.
HeldOK(p) ==
    /\ pc[p] \in PastAdmit => p \in held
    /\ (pc[p] = "admit" /\ call[p].token # None) =>
          (Allows(user[access[call[p].token].user].role, call[p].route) => p \in held)
    /\ (\E a \in Wrote(p) : a.object # None) => p \in held
    /\ (Served(p) /\ answer[p].reply.status < 300) => p \in held

\* A reply of q tells what q did or saw.
GoodReply(q, r) ==
    /\ r.about # None => /\ object[r.about].status # "absent"
                         /\ object[r.about].status \in SinceThen(r.says)
                         /\ object[r.about].tenant = TenantOf(q)
    /\ (r.status < 300 /\ call[q].route \in Mutating) => \E a \in Wrote(q) : a.object = r.about
    /\ r.status \in {400, 404, 409} => Wrote(q) = {}
    /\ \A a \in r.rows : a.tenant = TenantOf(q)
    /\ (call[q].arg # None /\ r.status \in {200, 409}) =>
          object[call[q].arg].status # "absent" /\ object[call[q].arg].tenant = TenantOf(q)

\* A completed row holds the reply of a request of its tenant with its hash.
RecOK ==
    \A k \in Tenant \X Key :
       /\ rec[k].status # "absent" => rec[k].created <= rec[k].expires
       /\ rec[k].status = "completed" =>
             /\ rec[k].by \in Request /\ pc[rec[k].by] = "done"
             /\ HashOf(rec[k].by) = rec[k].hash /\ TenantOf(rec[k].by) = k[1]
             /\ GoodReply(rec[k].by, rec[k].reply)

\* A row whose created_at is the request's token is the request's own claim.
ClaimOK(p) ==
    /\ pc[p] = "get" => rec[PairOf(p)].status # "absent"
    /\ pc[p] \in {"handler", "respond", "complete"} =>
          /\ rec[PairOf(p)].status # "absent" /\ stamp[p] <= rec[PairOf(p)].created
          /\ rec[PairOf(p)].created = stamp[p] => rec[PairOf(p)].hash = HashOf(p)
    /\ pc[p] \in {"respond", "complete"} => GoodReply(p, draft[p])

\* An answer is a good reply of an identical request of the same tenant.
AnswerOK(p) ==
    Served(p) =>
       /\ answer[p].by \in Request /\ pc[answer[p].by] \in {"complete", "done"}
       /\ HashOf(answer[p].by) = HashOf(p) /\ TenantOf(answer[p].by) = TenantOf(p)
       /\ GoodReply(answer[p].by, answer[p].reply)

\* The inductive invariant.
IInv ==
    /\ TypeOK /\ Shapes
    /\ PeopleOK /\ AuditOK /\ RecOK
    /\ \A p \in Request : CallOK(p) /\ HeldOK(p) /\ ClaimOK(p) /\ AnswerOK(p)

-----------------------------------------------------------------------------
\* The ids of requests are ids of all tables, and None is none of them.
LEMMA Names ==
    /\ Request \subseteq User /\ Request \subseteq Token /\ Request \subseteq Object
    /\ User = Token
    /\ None \notin Tenant /\ None \notin Key /\ None \notin User /\ None \notin Object
    /\ None \notin Request /\ None \notin Roles
  BY ApiAssumption DEF User, Token, Object

\* The empty rows.
LEMMA Empty ==
    /\ NoReply \in Replies /\ NoReply.status = 0
    /\ NoAnswer \in [kind : Kinds, by : Request \cup {None}, reply : Replies] /\ NoAnswer.kind = "none"
    /\ NoThing.status = "absent" /\ NoThing.tenant = None
    /\ NoClaims.user = None /\ NoClaims.tenant = None
  BY DEF NoReply, NoAnswer, NoThing, NoClaims, Bare, Reply, Answer, Thing, Claims, Replies, Kinds

\* The invariant holds initially.
LEMMA InitEstablishes == Init => IInv
  <1> SUFFICES ASSUME Init PROVE IInv
    OBVIOUS
  <1> USE ApiAssumption
  <1>1. Shapes
    <2>1. user \in [User -> [tenant : Tenant \cup {None}, role : Roles \cup {None},
                             status : {"absent", "active", "disabled"}]]
      BY DEF Init, Person
    <2>2. access \in [Token -> [user : User \cup {None}, tenant : Tenant \cup {None},
                                role : Roles \cup {None}, exp : Nat]]
      BY DEF Init, Claims, NoClaims, User
    <2>3. object \in [Object -> [tenant : Tenant \cup {None},
                                 kind : {"none", "account", "transaction"}, status : ObjectStatuses]]
      BY DEF Init, Thing, NoThing, ObjectStatuses
    <2>4. rec \in [Tenant \X Key ->
             [hash : (Routes \X (Object \cup {None})) \cup {None},
              status : {"absent", "processing", "completed"}, by : Request \cup {None},
              reply : Replies, created : Nat, expires : Nat]]
      BY Empty DEF Init, Row, NoRecord
    <2>5. \A o \in Object : object[o].status = "absent" => object[o] = NoThing
      BY DEF Init, Thing, NoThing
    <2> QED
      BY <2>1, <2>2, <2>3, <2>4, <2>5, Empty DEF Init, Shapes
  <1>2. TypeOK
    <2>1. \A u \in User : \/ user[u] = Person(None, None, "absent")
                          \/ user[u] \in [tenant : Tenant, role : Roles, status : {"active", "disabled"}]
      BY DEF Init, Person
    <2>2. \A t \in Token : \/ access[t] = NoClaims
                           \/ access[t] \in [user : User, tenant : Tenant, role : Roles, exp : Nat]
      BY DEF Init, Claims, User
    <2>3. \A k \in Tenant \X Key : rec[k].status \in {"absent", "processing", "completed"}
      BY DEF Init, NoRecord, Row
    <2>4. call \in [Request -> Call]
      BY DEF Init, NoCall, Call, Routes, Public
    <2> QED
      BY <2>1, <2>2, <2>3, <2>4 DEF Init, TypeOK, Steps
  <1>3. PeopleOK
    BY DEF Init, PeopleOK, Claims, NoClaims, Person, User, Token
  <1>4. AuditOK
    BY DEF Init, AuditOK
  <1>5. RecOK
    BY DEF Init, RecOK, NoRecord, Row
  <1>6. ASSUME NEW p \in Request PROVE CallOK(p) /\ HeldOK(p) /\ ClaimOK(p) /\ AnswerOK(p)
    <2>1. pc[p] = "idle" /\ Wrote(p) = {} /\ answer[p].kind = "none" /\ object[p] = NoThing
      BY Empty DEF Init, Wrote, Object
    <2>2. user[p].status = "absent" /\ access[p] = NoClaims
      BY DEF Init, User, Token, Person
    <2> QED
      BY <2>1, <2>2 DEF CallOK, HeldOK, ClaimOK, AnswerOK, Served, Keyed, PastAdmit
  <1> QED
    BY <1>1, <1>2, <1>3, <1>4, <1>5, <1>6 DEF IInv

-----------------------------------------------------------------------------
\* A claim is replaced only by a later one; until then it keeps its hash.
RecGrows ==
    \A k \in Tenant \X Key :
       /\ rec'[k].created \in Nat
       /\ rec[k].status # "absent" =>
             /\ rec'[k].status # "absent" /\ rec[k].created <= rec'[k].created
             /\ rec'[k].created = rec[k].created => rec'[k].hash = rec[k].hash

\* What no step undoes.
Grows ==
    /\ \A u \in User : user[u].status # "absent" =>
          user'[u].status # "absent" /\ user'[u].tenant = user[u].tenant
    /\ \A t \in Token : access[t] # NoClaims => access'[t] = access[t]
    /\ \A o \in Object : object[o].status # "absent" =>
          /\ object'[o].tenant = object[o].tenant
          /\ \/ object'[o].status = object[o].status
             \/ object[o].status = "pending" /\ object'[o].status \in {"posted", "failed"}
    /\ RecGrows
    /\ audit \subseteq audit'
    /\ held \subseteq held'
    /\ now <= now' /\ now' \in Nat
    /\ \A q \in Request : pc[q] \in {"respond", "complete", "done"} =>
          call'[q] = call[q] /\ \A a \in audit' : a.by = q => a \in audit
    /\ \A q \in Request : /\ pc[q] = "done" => pc'[q] = "done"
                          /\ pc[q] = "complete" => pc'[q] \in {"complete", "done"}

\* What a step of another request leaves alone.
Apart(q) ==
    /\ pc'[q] = pc[q] /\ call'[q] = call[q] /\ stamp'[q] = stamp[q]
    /\ draft'[q] = draft[q] /\ answer'[q] = answer[q]
    /\ \A a \in audit' : a.by = q => a \in audit
    /\ object[q] = NoThing => object'[q] = NoThing
    /\ user[q].status = "absent" => user'[q].status = "absent"
    /\ access[q] = NoClaims => access'[q] = NoClaims

\* The caller of a request that has arrived does not change.
LEMMA CallerKept ==
    ASSUME IInv, Grows, NEW q \in Request, pc[q] # "idle", call'[q] = call[q]
    PROVE  /\ Caller(q)' = Caller(q) /\ TenantOf(q)' = TenantOf(q) /\ HashOf(q)' = HashOf(q)
           /\ PairOf(q)' = PairOf(q)
  <1>1. call[q].token # None => call[q].token \in Token /\ access[call[q].token] # NoClaims
    BY DEF IInv, CallOK, TypeOK, Call
  <1>2. call[q].token # None => access'[call[q].token] = access[call[q].token]
    BY <1>1 DEF Grows
  <1>3. Caller(q)' = Caller(q)
    BY <1>2 DEF Caller
  <1>4. TenantOf(q)' = TenantOf(q)
    BY <1>3 DEF TenantOf
  <1> QED
    BY <1>3, <1>4 DEF HashOf, PairOf

\* The tenant of a request with a token is a tenant.
LEMMA CallerTenant ==
    ASSUME IInv, NEW q \in Request, pc[q] # "idle", call[q].token # None
    PROVE  /\ Caller(q) = access[call[q].token] /\ TenantOf(q) \in Tenant /\ TenantOf(q) = Caller(q).tenant
           /\ Caller(q).user \in User
           /\ user[Caller(q).user].status # "absent" /\ user[Caller(q).user].tenant = TenantOf(q)
  <1>1. call[q].token \in Token /\ access[call[q].token] # NoClaims
    BY DEF IInv, CallOK, TypeOK, Call
  <1>2. access[call[q].token] \in [user : User, tenant : Tenant, role : Roles, exp : Nat]
    BY <1>1 DEF IInv, TypeOK
  <1>3. Caller(q) = access[call[q].token] /\ TenantOf(q) = Caller(q).tenant
    BY DEF Caller, TenantOf
  <1>4. /\ user[access[call[q].token].user].status # "absent"
        /\ user[access[call[q].token].user].tenant = access[call[q].token].tenant
    BY <1>1 DEF IInv, PeopleOK
  <1> QED
    BY <1>2, <1>3, <1>4

\* What a reply says stays true.
LEMMA GoodKeeps ==
    ASSUME IInv, Grows, NEW q \in Request, pc[q] \in {"respond", "complete", "done"},
           NEW r \in Replies, GoodReply(q, r)
    PROVE  GoodReply(q, r)'
  <1>1. call'[q] = call[q] /\ Wrote(q)' = Wrote(q)
    BY DEF Grows, Wrote
  <1>2. TenantOf(q)' = TenantOf(q)
    BY <1>1, CallerKept
  <1>3. r.about # None => r.about \in Object
    BY DEF Replies
  <1>4. call[q].arg # None => call[q].arg \in Object
    BY DEF IInv, TypeOK, Call
  <1>5. ASSUME NEW o \in Object, object[o].status # "absent"
        PROVE  /\ object'[o].status # "absent" /\ object'[o].tenant = object[o].tenant
               /\ object[o].status \in SinceThen(r.says) => object'[o].status \in SinceThen(r.says)
    BY <1>5 DEF Grows, SinceThen
  <1>6. PICK t : t = TenantOf(q)
    OBVIOUS
  <1>7. PICK w : w = Wrote(q)
    OBVIOUS
  <1>8. /\ r.about # None => /\ object'[r.about].status # "absent"
                             /\ object'[r.about].status \in SinceThen(r.says)
                             /\ object'[r.about].tenant = t
        /\ (call[q].arg # None /\ r.status \in {200, 409}) =>
              object'[call[q].arg].status # "absent" /\ object'[call[q].arg].tenant = t
    BY <1>3, <1>4, <1>5, <1>6 DEF GoodReply
  <1>9. /\ (r.status < 300 /\ call[q].route \in Mutating) => \E a \in w : a.object = r.about
        /\ r.status \in {400, 404, 409} => w = {}
        /\ \A a \in r.rows : a.tenant = t
    BY <1>6, <1>7 DEF GoodReply
  <1> QED
    BY <1>1, <1>2, <1>6, <1>7, <1>8, <1>9 DEF GoodReply

\* A good answer stays one, also when the request that gave it goes on.
LEMMA AnswerKeeps ==
    ASSUME IInv, Grows, NEW q \in Request, pc[q] # "idle", call'[q] = call[q], answer'[q] = answer[q]
    PROVE  AnswerOK(q)'
  <1> SUFFICES ASSUME Served(q)' PROVE AnswerOK(q)'
    BY DEF AnswerOK
  <1>1. Served(q)
    BY DEF Served
  <1>2. PICK b : b = answer[q].by
    OBVIOUS
  <1>3. PICK r : r = answer[q].reply
    OBVIOUS
  <1>4. /\ b \in Request /\ pc[b] \in {"complete", "done"}
        /\ HashOf(b) = HashOf(q) /\ TenantOf(b) = TenantOf(q) /\ GoodReply(b, r)
    BY <1>1, <1>2, <1>3 DEF IInv, AnswerOK
  <1>5. r \in Replies
    BY <1>3 DEF IInv, Shapes
  <1>6. call'[b] = call[b] /\ pc'[b] \in {"complete", "done"}
    BY <1>4 DEF Grows
  <1>7. HashOf(b)' = HashOf(b) /\ TenantOf(b)' = TenantOf(b)
    BY <1>4, <1>6, CallerKept
  <1>8. HashOf(q)' = HashOf(q) /\ TenantOf(q)' = TenantOf(q)
    BY CallerKept
  <1>9. GoodReply(b, r)'
    BY <1>4, <1>5, GoodKeeps
  <1>10. answer'[q].by = b /\ answer'[q].reply = r
    BY <1>2, <1>3
  <1> QED
    BY <1>4, <1>6, <1>7, <1>8, <1>9, <1>10 DEF AnswerOK

\* What holds of a request is not disturbed by a step that grows the tables.
LEMMA OthersKeep ==
    ASSUME IInv, Grows, NEW q \in Request, Apart(q)
    PROVE  CallOK(q)' /\ ClaimOK(q)' /\ AnswerOK(q)'
  <1>0. CallOK(q) /\ ClaimOK(q) /\ AnswerOK(q)
    BY DEF IInv
  <1>1. /\ pc'[q] = pc[q] /\ call'[q] = call[q] /\ stamp'[q] = stamp[q]
        /\ draft'[q] = draft[q] /\ answer'[q] = answer[q] /\ Wrote(q)' = Wrote(q)
    BY DEF Apart, Grows, Wrote
  <1>2. CallOK(q)'
    <2>1. call[q].token # None => call[q].token \in Token
      BY DEF IInv, TypeOK, Call
    <2>2. (pc[q] # "idle" /\ call[q].token # None) => access'[call[q].token] # NoClaims
      BY <1>0, <2>1 DEF CallOK, Grows
    <2>3. pc[q] = "issue" => user'[call[q].user].status # "absent"
      <3>1. pc[q] = "issue" => call[q].user \in User
        BY <1>0, ApiAssumption DEF CallOK
      <3> QED
        BY <1>0, <3>1 DEF CallOK, Grows
    <2>4. pc[q] \in Keyed => stamp[q] \in Nat /\ stamp[q] <= now'
      <3>1. now \in Nat /\ now <= now' /\ now' \in Nat
        BY DEF IInv, Shapes, Grows
      <3> QED
        BY <1>0, <3>1 DEF CallOK
    <2> QED
      BY <1>0, <1>1, <2>2, <2>3, <2>4 DEF CallOK, Apart
  <1>3. ClaimOK(q)'
    <2>1. CASE pc[q] \in {"get", "handler", "respond", "complete"}
      <3>1. PICK k : k = PairOf(q)
        OBVIOUS
      <3>2. k \in Tenant \X Key
        BY <1>0, <2>1, <3>1, CallerTenant DEF CallOK, Keyed, PastAdmit, PairOf
      <3>3. PairOf(q)' = k /\ HashOf(q)' = HashOf(q)
        BY <1>1, <2>1, <3>1, CallerKept
      <3>4. rec[k].status # "absent"
        BY <1>0, <2>1, <3>1 DEF ClaimOK
      <3>5. /\ rec'[k].status # "absent" /\ rec[k].created <= rec'[k].created
            /\ rec'[k].created = rec[k].created => rec'[k].hash = rec[k].hash
        BY <3>2, <3>4 DEF Grows, RecGrows
      <3>6. ASSUME pc[q] \in {"handler", "respond", "complete"}
            PROVE  stamp[q] <= rec'[k].created
                   /\ (rec'[k].created = stamp[q] => rec'[k].hash = HashOf(q))
        <4>1. stamp[q] <= rec[k].created /\ (rec[k].created = stamp[q] => rec[k].hash = HashOf(q))
          BY <1>0, <3>1, <3>6 DEF ClaimOK
        <4>2. stamp[q] \in Nat /\ rec[k].created \in Nat /\ rec'[k].created \in Nat
          BY <1>0, <3>2, <3>6 DEF CallOK, Keyed, IInv, Shapes, Grows, RecGrows
        <4> QED
          BY <3>5, <4>1, <4>2
      <3>7. pc[q] \in {"respond", "complete"} => GoodReply(q, draft[q])'
        <4> SUFFICES ASSUME pc[q] \in {"respond", "complete"} PROVE GoodReply(q, draft[q])'
          OBVIOUS
        <4>1. PICK r \in Replies : r = draft[q]
          BY DEF IInv, Shapes
        <4>2. GoodReply(q, r)
          BY <1>0, <4>1 DEF ClaimOK
        <4>3. GoodReply(q, r)'
          BY <4>2, GoodKeeps
        <4>4. r = draft'[q]
          BY <1>1, <4>1
        <4> QED
          BY <4>3, <4>4
      <3> QED
        BY <1>1, <2>1, <3>3, <3>5, <3>6, <3>7 DEF ClaimOK
    <2>2. CASE pc[q] \notin {"get", "handler", "respond", "complete"}
      BY <1>1, <2>2 DEF ClaimOK
    <2> QED
      BY <2>1, <2>2
  <1>4. AnswerOK(q)'
    <2>1. CASE pc[q] = "idle"
      BY <1>0, <1>1, <2>1 DEF CallOK, AnswerOK, Served
    <2> QED
      BY <1>1, <2>1, AnswerKeeps
  <1> QED
    BY <1>2, <1>3, <1>4

\* The users that exist keep their rows.
Still == \A u \in User : user[u].status # "absent" => user'[u] = user[u]

\* A request keeps its permission while its user's row stays as it is.
LEMMA HeldKeeps ==
    ASSUME IInv, Grows, Still, NEW q \in Request, Apart(q)
    PROVE  HeldOK(q)'
  <1>0. HeldOK(q) /\ CallOK(q)
    BY DEF IInv
  <1>1. /\ pc'[q] = pc[q] /\ call'[q] = call[q] /\ answer'[q] = answer[q] /\ Wrote(q)' = Wrote(q)
        /\ held \subseteq held'
    BY DEF Apart, Grows, Wrote
  <1>2. ASSUME pc[q] = "admit", call[q].token # None
        PROVE  user'[access'[call[q].token].user].role = user[access[call[q].token].user].role
    <2>1. call[q].token \in Token /\ access[call[q].token] # NoClaims
      BY <1>0, <1>2 DEF IInv, CallOK, TypeOK, Call
    <2>2. access'[call[q].token] = access[call[q].token]
      BY <2>1 DEF Grows
    <2>3. access[call[q].token].user \in User /\ user[access[call[q].token].user].status # "absent"
      BY <2>1 DEF IInv, TypeOK, PeopleOK
    <2> QED
      BY <2>2, <2>3 DEF Still
  <1>3. Served(q)' <=> Served(q)
    BY <1>1 DEF Served
  <1>4. (pc'[q] = "admit" /\ call'[q].token # None) =>
           (Allows(user'[access'[call'[q].token].user].role, call'[q].route) => q \in held')
    BY <1>0, <1>1, <1>2 DEF HeldOK
  <1>5. /\ pc'[q] \in PastAdmit => q \in held'
        /\ (\E a \in Wrote(q)' : a.object # None) => q \in held'
        /\ (Served(q)' /\ answer'[q].reply.status < 300) => q \in held'
    BY <1>0, <1>1, <1>3 DEF HeldOK
  <1> QED
    BY <1>4, <1>5 DEF HeldOK

\* The rows that a step leaves alone stay good.
LEMMA RowKeeps ==
    ASSUME IInv, Grows, NEW k \in Tenant \X Key, rec'[k] = rec[k]
    PROVE  /\ rec'[k].status # "absent" => rec'[k].created <= rec'[k].expires
           /\ rec'[k].status = "completed" =>
                 /\ rec'[k].by \in Request /\ pc'[rec'[k].by] = "done"
                 /\ HashOf(rec[k].by)' = rec'[k].hash /\ TenantOf(rec[k].by)' = k[1]
                 /\ GoodReply(rec[k].by, rec[k].reply)'
  <1>1. rec[k].status # "absent" => rec[k].created <= rec[k].expires
    BY DEF IInv, RecOK
  <1>2. ASSUME rec[k].status = "completed"
        PROVE  /\ rec'[k].by \in Request /\ pc'[rec'[k].by] = "done"
               /\ HashOf(rec[k].by)' = rec'[k].hash /\ TenantOf(rec[k].by)' = k[1]
               /\ GoodReply(rec[k].by, rec[k].reply)'
    <2>1. PICK b : b = rec[k].by
      OBVIOUS
    <2>2. PICK r : r = rec[k].reply
      OBVIOUS
    <2>3. /\ b \in Request /\ pc[b] = "done" /\ HashOf(b) = rec[k].hash /\ TenantOf(b) = k[1]
          /\ GoodReply(b, r)
      BY <1>2, <2>1, <2>2 DEF IInv, RecOK
    <2>4. r \in Replies
      BY <2>2 DEF IInv, Shapes
    <2>5. call'[b] = call[b] /\ pc'[b] = "done"
      BY <2>3 DEF Grows
    <2>6. HashOf(b)' = HashOf(b) /\ TenantOf(b)' = TenantOf(b)
      BY <2>3, <2>5, CallerKept
    <2>7. GoodReply(b, r)'
      BY <2>3, <2>4, GoodKeeps
    <2>8. rec'[k].by = b /\ rec'[k].reply = r
      BY <2>1, <2>2
    <2> QED
      BY <2>3, <2>5, <2>6, <2>7, <2>8
  <1> QED
    BY <1>1, <1>2

\* The idempotency rows stay good when none is written.
LEMMA RecKeeps ==
    ASSUME IInv, Grows, rec' = rec
    PROVE  RecOK'
  <1> SUFFICES ASSUME NEW k \in Tenant \X Key
               PROVE  /\ rec'[k].status # "absent" => rec'[k].created <= rec'[k].expires
                      /\ rec'[k].status = "completed" =>
                            /\ rec'[k].by \in Request /\ pc'[rec'[k].by] = "done"
                            /\ HashOf(rec[k].by)' = rec'[k].hash /\ TenantOf(rec[k].by)' = k[1]
                            /\ GoodReply(rec[k].by, rec[k].reply)'
    BY DEF RecOK
  <1> QED
    BY RowKeeps

\* A step of p that leaves the other requests alone.
Mine(p) == \A q \in Request \ {p} : Apart(q)

\* The invariant after a step of p, from what the step does to p and to the tables.
LEMMA Assemble ==
    ASSUME IInv, Grows, Still, NEW p \in Request, Mine(p),
           TypeOK', Shapes', PeopleOK', AuditOK', RecOK',
           CallOK(p)', HeldOK(p)', ClaimOK(p)', AnswerOK(p)'
    PROVE  IInv'
  <1>1. ASSUME NEW q \in Request PROVE CallOK(q)' /\ HeldOK(q)' /\ ClaimOK(q)' /\ AnswerOK(q)'
    <2>1. CASE q = p
      BY <2>1
    <2>2. CASE q # p
      <3>1. Apart(q)
        BY <2>2 DEF Mine
      <3> QED
        BY <3>1, OthersKeep, HeldKeeps
    <2> QED
      BY <2>1, <2>2
  <1> QED
    BY <1>1 DEF IInv

\* A step of p on its own variables, on rec perhaps, and on no other table.
Solo(p) ==
    /\ pc[p] # "done"
    /\ UNCHANGED <<user, access, object, audit, now>>
    /\ held \subseteq held'
    /\ pc[p] # "idle" => call'[p] = call[p]
    /\ pc[p] = "complete" => pc'[p] = "done"
    /\ \A q \in Request \ {p} :
          /\ pc'[q] = pc[q] /\ call'[q] = call[q] /\ stamp'[q] = stamp[q]
          /\ draft'[q] = draft[q] /\ answer'[q] = answer[q]

\* Such a step undoes nothing.
LEMMA SoloGrows ==
    ASSUME IInv, NEW p \in Request, Solo(p), RecGrows
    PROVE  Grows /\ Still /\ Mine(p) /\ PeopleOK' /\ AuditOK'
  <1>1. Grows
    <2>1. \A q \in Request : pc[q] \in {"respond", "complete", "done"} =>
             call'[q] = call[q] /\ \A a \in audit' : a.by = q => a \in audit
      BY DEF Solo
    <2>2. \A q \in Request : /\ pc[q] = "done" => pc'[q] = "done"
                             /\ pc[q] = "complete" => pc'[q] \in {"complete", "done"}
      BY DEF Solo
    <2>3. now \in Nat
      BY DEF IInv, Shapes
    <2> QED
      BY <2>1, <2>2, <2>3 DEF Grows, Solo
  <1>2. Still /\ Mine(p)
    BY DEF Still, Mine, Apart, Solo
  <1>3. PeopleOK' /\ AuditOK'
    BY DEF IInv, PeopleOK, AuditOK, Solo
  <1> QED
    BY <1>1, <1>2, <1>3

\* No row of idempotency_keys changes.
LEMMA SameRec ==
    ASSUME IInv, rec' = rec
    PROVE  RecGrows
  BY DEF RecGrows, IInv, Shapes

Answers == [kind : Kinds, by : Request \cup {None}, reply : Replies]

\* The shapes after a step on the variables of one request.
LEMMA SoloTypes ==
    ASSUME IInv, NEW p \in Request, Solo(p), NEW step \in Steps, pc' = [pc EXCEPT ![p] = step],
           call' \in [Request -> Call], stamp' \in [Request -> Nat \cup {None}],
           draft' \in [Request -> Replies], answer' \in [Request -> Answers], held' \subseteq Request,
           rec' \in [Tenant \X Key ->
              [hash : (Routes \X (Object \cup {None})) \cup {None},
               status : {"absent", "processing", "completed"}, by : Request \cup {None},
               reply : Replies, created : Nat, expires : Nat]]
    PROVE  TypeOK' /\ Shapes'
  <1>1. pc' \in [Request -> Steps]
    BY DEF IInv, TypeOK
  <1>2. \A k \in Tenant \X Key : rec'[k].status \in {"absent", "processing", "completed"}
    OBVIOUS
  <1>3. TypeOK'
    BY <1>1, <1>2 DEF IInv, TypeOK, Solo
  <1>4. Shapes'
    BY DEF IInv, Shapes, Solo, Answers
  <1> QED
    BY <1>3, <1>4

\* A request that has ended owes nothing but its answer.
LEMMA Ended ==
    ASSUME IInv, NEW p \in Request, pc[p] # "idle", Solo(p), Grows, pc'[p] = "done"
    PROVE  CallOK(p)' /\ ClaimOK(p)' /\ (answer'[p] = answer[p] => HeldOK(p)' /\ AnswerOK(p)')
  <1>1. CallOK(p) /\ HeldOK(p) /\ AnswerOK(p)
    BY DEF IInv
  <1>2. call'[p] = call[p] /\ access' = access /\ Wrote(p)' = Wrote(p) /\ held \subseteq held'
    BY DEF Solo, Wrote
  <1>3. CallOK(p)'
    BY <1>1, <1>2 DEF CallOK, Keyed, PastAdmit
  <1>4. ClaimOK(p)'
    BY DEF ClaimOK
  <1>5. ASSUME answer'[p] = answer[p] PROVE HeldOK(p)' /\ AnswerOK(p)'
    <2>1. AnswerOK(p)'
      BY <1>2, <1>5, AnswerKeeps
    <2>2. HeldOK(p)'
      BY <1>1, <1>2, <1>5 DEF HeldOK, Served, Keyed, PastAdmit
    <2> QED
      BY <2>1, <2>2
  <1> QED
    BY <1>3, <1>4, <1>5

\* Refusals, failures and crashes end a request and touch no table.
LEMMA Ends ==
    ASSUME IInv, NEW p \in Request, pc[p] \notin {"idle", "done"}, Goto(p, "done"),
           UNCHANGED <<user, access, object, audit, rec, call, stamp, draft, held, now>>,
           NEW a \in Answers, a = answer[p] \/ a.kind \notin {"ran", "replayed"},
           answer' = [answer EXCEPT ![p] = a]
    PROVE  IInv'
  <1>1. /\ pc' = [pc EXCEPT ![p] = "done"] /\ pc \in [Request -> Steps]
        /\ answer \in [Request -> Answers]
    BY DEF Goto, IInv, TypeOK, Shapes, Answers
  <1>2. pc'[p] = "done" /\ answer'[p] = a
    BY <1>1
  <1>3. Solo(p)
    BY <1>1, <1>2 DEF Solo
  <1>4. Grows /\ Still /\ Mine(p) /\ PeopleOK' /\ AuditOK'
    BY <1>3, SameRec, SoloGrows
  <1>5. RecOK'
    BY <1>4, RecKeeps
  <1>6. TypeOK' /\ Shapes'
    <2>1. answer' \in [Request -> Answers] /\ "done" \in Steps
      BY <1>1 DEF Steps
    <2> QED
      BY <1>1, <1>3, <2>1, SoloTypes DEF IInv, TypeOK, Shapes
  <1>7. CallOK(p)' /\ ClaimOK(p)' /\ (answer'[p] = answer[p] => HeldOK(p)' /\ AnswerOK(p)')
    BY <1>2, <1>3, <1>4, Ended
  <1>8. HeldOK(p)' /\ AnswerOK(p)'
    <2>1. CASE a.kind \notin {"ran", "replayed"}
      <3>1. ~Served(p)'
        BY <1>2, <2>1 DEF Served
      <3>2. HeldOK(p) /\ Wrote(p)' = Wrote(p)
        BY DEF IInv, Wrote
      <3> QED
        BY <1>2, <3>1, <3>2 DEF HeldOK, AnswerOK, Keyed, PastAdmit
    <2> QED
      BY <1>2, <1>7, <2>1
  <1> QED
    BY <1>4, <1>5, <1>6, <1>7, <1>8, Assemble

-----------------------------------------------------------------------------
\* The actions that end a request and touch no table.
LEMMA RefuseKeeps ==
    ASSUME IInv, NEW p \in Request, pc[p] \notin {"idle", "done"}, NEW status \in Nat, Refuse(p, status)
    PROVE  IInv'
  <1>1. PICK a : a = Answer("plain", None, Bare(status))
    OBVIOUS
  <1>2. a \in Answers /\ a.kind \notin {"ran", "replayed"}
    BY <1>1 DEF Answers, Answer, Bare, Reply, Replies, Kinds
  <1>3. /\ Goto(p, "done") /\ answer' = [answer EXCEPT ![p] = a]
        /\ UNCHANGED <<user, access, object, audit, rec, call, stamp, draft, held, now>>
    BY <1>1 DEF Refuse, Return, people, ledger, bounds
  <1> QED
    BY <1>2, <1>3, Ends

\* A failed query, a panic and a crash.
LEMMA FaultKeeps ==
    ASSUME IInv, NEW p \in Request, QueryFails(p) \/ Panic(p) \/ Crash(p)
    PROVE  IInv'
  <1>1. /\ pc[p] \notin {"idle", "done"} /\ Goto(p, "done")
        /\ UNCHANGED <<user, access, object, audit, rec, call, stamp, draft, held, now>>
    BY DEF QueryFails, Panic, Crash, InFlight, Return, people, ledger
  <1>2. CASE QueryFails(p) \/ Panic(p)
    <2>1. PICK status \in Nat : answer' = [answer EXCEPT ![p] = Answer("internal", None, Bare(status))]
      <3>1. StatusOfFailure(p) \in Nat
        BY DEF StatusOfFailure
      <3> QED
        BY <1>2, <3>1 DEF QueryFails, Panic, Return
    <2>2. PICK a : a = Answer("internal", None, Bare(status))
      OBVIOUS
    <2>3. a \in Answers /\ a.kind \notin {"ran", "replayed"}
      BY <2>2 DEF Answers, Answer, Bare, Reply, Replies, Kinds
    <2> QED
      BY <1>1, <2>1, <2>2, <2>3, Ends
  <1>3. CASE Crash(p)
    <2>1. answer \in [Request -> Answers]
      BY DEF IInv, Shapes, Answers
    <2>2. PICK a \in Answers : a = answer[p]
      BY <2>1
    <2>3. answer' = [answer EXCEPT ![p] = a]
      BY <1>3, <2>1, <2>2 DEF Crash
    <2> QED
      BY <1>1, <2>2, <2>3, Ends
  <1> QED
    BY <1>2, <1>3

\* The call of the menu reaches the first step of its route.
LEMMA ReceiveKeeps ==
    ASSUME IInv, NEW p \in Request, NEW b \in Menu, Receive(p, b)
    PROVE  IInv'
  <1>0. CallOK(p) /\ HeldOK(p) /\ pc[p] = "idle" /\ b \in Call
    BY ApiAssumption DEF IInv, Receive
  <1>1. PICK step \in {"register", "logout", "credentials", "admit"} :
           /\ pc' = [pc EXCEPT ![p] = step]
           /\ step = "credentials" => b.route = "login"
           /\ step = "logout" => b.route = "logout"
           /\ step = "admit" => b.route \in Mutating \cup Reading
    BY <1>0 DEF Receive, Goto, Call, Routes, Public
  <1>2. /\ pc'[p] = step /\ call'[p] = b /\ call' \in [Request -> Call]
        /\ call' = [call EXCEPT ![p] = b] /\ step \in Steps
    BY <1>0, <1>1 DEF IInv, TypeOK, Receive, Steps
  <1>3. UNCHANGED <<user, access, object, audit, rec, stamp, draft, answer, now>>
    BY DEF Receive, people, ledger, bounds
  <1>4. /\ held \subseteq held' /\ held' \subseteq Request
        /\ (b.token # None /\ Allows(user[access[b.token].user].role, b.route)) => p \in held'
    BY DEF IInv, TypeOK, Receive
  <1>5. Solo(p)
    <2>1. \A q \in Request \ {p} : pc'[q] = pc[q] /\ call'[q] = call[q]
      BY <1>1, <1>2 DEF IInv, TypeOK
    <2> QED
      BY <1>0, <1>3, <1>4, <2>1 DEF Solo
  <1>6. Grows /\ Still /\ Mine(p) /\ PeopleOK' /\ AuditOK'
    BY <1>3, <1>5, SameRec, SoloGrows
  <1>7. RecOK'
    BY <1>3, <1>6, RecKeeps
  <1>8. TypeOK' /\ Shapes'
    BY <1>1, <1>2, <1>3, <1>4, <1>5, SoloTypes DEF IInv, TypeOK, Shapes, Answers
  <1>9. Wrote(p)' = {} /\ ~Served(p)'
    BY <1>0, <1>3 DEF CallOK, Wrote, Served
  <1>10. CallOK(p)'
    <2>1. b.token # None => access'[b.token] # NoClaims
      BY <1>3 DEF Receive
    <2>2. object'[p] = NoThing /\ answer'[p].kind = "none" /\ user'[p].status = "absent" /\ access'[p] = NoClaims
      BY <1>0, <1>3 DEF CallOK
    <2> QED
      BY <1>1, <1>2, <1>9, <2>1, <2>2 DEF CallOK, Keyed, PastAdmit
  <1>11. HeldOK(p)'
    BY <1>1, <1>2, <1>3, <1>4, <1>9 DEF HeldOK, Keyed, PastAdmit
  <1>12. ClaimOK(p)' /\ AnswerOK(p)'
    BY <1>1, <1>2, <1>9 DEF ClaimOK, AnswerOK
  <1> QED
    BY <1>6, <1>7, <1>8, <1>10, <1>11, <1>12, Assemble

\* Whoever is admitted holds the permission now.
LEMMA AdmitKeeps ==
    ASSUME IInv, NEW p \in Request, Admit(p)
    PROVE  IInv'
  <1>0. CallOK(p) /\ HeldOK(p) /\ pc[p] = "admit"
    BY DEF IInv, Admit
  <1>1. CASE \E status \in {400, 401, 403} : Refuse(p, status)
    BY <1>0, <1>1, RefuseKeeps
  <1>2. CASE /\ Authenticated(p) /\ Permitted(Caller(p), call[p].route)
             /\ \/ call[p].route \in Reading /\ Goto(p, "read") /\ UNCHANGED stamp
                \/ /\ call[p].route \in Mutating /\ call[p].key # None
                   /\ stamp' = [stamp EXCEPT ![p] = now]
                   /\ Goto(p, "claim")
             /\ UNCHANGED <<people, ledger, rec, call, draft, answer, held, bounds>>
    <2>0. UNCHANGED <<user, access, object, audit, rec, call, draft, answer, held, now>>
      BY <1>2 DEF people, ledger, bounds
    <2>1. PICK step \in {"read", "claim"} :
             /\ pc' = [pc EXCEPT ![p] = step]
             /\ step = "read" => call[p].route \in Reading /\ stamp' = stamp
             /\ step = "claim" => /\ call[p].route \in Mutating /\ call[p].key # None
                                  /\ stamp' = [stamp EXCEPT ![p] = now]
      BY <1>2 DEF Goto
    <2>2. /\ pc'[p] = step /\ step \in Steps /\ stamp' \in [Request -> Nat \cup {None}]
          /\ step = "claim" => stamp'[p] = now
      BY <2>1 DEF IInv, TypeOK, Shapes, Steps
    <2>3. call[p].token # None /\ p \in held
      <3>1. call[p].token # None
        BY <1>2 DEF Authenticated, Valid
      <3>2. Caller(p) = access[call[p].token]
        BY <3>1 DEF Caller
      <3>3. Allows(user[access[call[p].token].user].role, call[p].route)
        BY <1>2, <3>2 DEF Permitted
      <3> QED
        BY <1>0, <3>1, <3>3 DEF HeldOK
    <2>4. Solo(p)
      <3>1. \A q \in Request \ {p} : pc'[q] = pc[q] /\ stamp'[q] = stamp[q]
        BY <2>1 DEF IInv, TypeOK, Shapes
      <3> QED
        BY <1>0, <2>0, <3>1 DEF Solo
    <2>5. Grows /\ Still /\ Mine(p) /\ PeopleOK' /\ AuditOK'
      BY <2>0, <2>4, SameRec, SoloGrows
    <2>6. RecOK'
      BY <2>0, <2>5, RecKeeps
    <2>7. TypeOK' /\ Shapes'
      BY <2>0, <2>1, <2>2, <2>4, SoloTypes DEF IInv, TypeOK, Shapes, Answers
    <2>8. Wrote(p)' = {} /\ ~Served(p)'
      BY <1>0, <2>0 DEF CallOK, Wrote, Served
    <2>9. CallOK(p)'
      <3>1. step = "claim" => call[p].key \in Key /\ stamp'[p] \in Nat /\ stamp'[p] <= now
        BY <2>1, <2>2 DEF IInv, TypeOK, Shapes, Call
      <3> QED
        BY <1>0, <2>0, <2>1, <2>2, <2>3, <2>8, <3>1 DEF CallOK, Keyed, PastAdmit
    <2>10. HeldOK(p)'
      BY <2>0, <2>2, <2>3 DEF HeldOK
    <2>11. ClaimOK(p)' /\ AnswerOK(p)'
      BY <2>1, <2>2, <2>8 DEF ClaimOK, AnswerOK
    <2> QED
      BY <2>5, <2>6, <2>7, <2>9, <2>10, <2>11, Assemble
  <1> QED
    BY <1>1, <1>2 DEF Admit

RecRows == [hash : (Routes \X (Object \cup {None})) \cup {None},
            status : {"absent", "processing", "completed"}, by : Request \cup {None},
            reply : Replies, created : Nat, expires : Nat]

\* The pair and the hash of a request with an Idempotency-Key.
LEMMA PairType ==
    ASSUME IInv, NEW p \in Request, pc[p] \in Keyed
    PROVE  /\ PairOf(p) \in Tenant \X Key /\ PairOf(p)[1] = TenantOf(p)
           /\ HashOf(p) \in Routes \X (Object \cup {None})
           /\ call[p].token # None /\ stamp[p] \in Nat /\ stamp[p] <= now
  <1>1. /\ call[p].token # None /\ call[p].key \in Key /\ pc[p] # "idle"
        /\ stamp[p] \in Nat /\ stamp[p] <= now
    BY DEF IInv, CallOK, Keyed, PastAdmit
  <1>2. TenantOf(p) \in Tenant
    BY <1>1, CallerTenant
  <1>3. HashOf(p) \in Routes \X (Object \cup {None})
    BY DEF IInv, TypeOK, Call, HashOf
  <1> QED
    BY <1>1, <1>2, <1>3 DEF PairOf

\* A claim replaces a row only after it expired, so the new one is later.
LEMMA ClaimRowGrows ==
    ASSUME IInv, NEW p \in Request, pc[p] = "claim", Claimable(p), ClaimRow(p),
           NEW k, k = PairOf(p)
    PROVE  /\ RecGrows /\ rec' \in [Tenant \X Key -> RecRows]
           /\ \A m \in Tenant \X Key : m # k => rec'[m] = rec[m]
           /\ rec'[k].status = "processing" /\ rec'[k].created = stamp[p]
           /\ rec'[k].hash = HashOf(p) /\ rec'[k].created <= rec'[k].expires
  <1>1. /\ k \in Tenant \X Key /\ stamp[p] \in Nat
        /\ HashOf(p) \in Routes \X (Object \cup {None})
    BY PairType DEF Keyed
  <1>2. PICK row : row = Row(HashOf(p), "processing", None, NoReply, stamp[p], stamp[p] + Lease)
    OBVIOUS
  <1>3. /\ row \in RecRows /\ row.status = "processing" /\ row.hash = HashOf(p)
        /\ row.created = stamp[p] /\ row.expires = stamp[p] + Lease
    BY <1>1, <1>2, Empty, ApiAssumption DEF Row, RecRows
  <1>4. rec \in [Tenant \X Key -> RecRows] /\ rec' = [rec EXCEPT ![k] = row]
    BY <1>2 DEF IInv, Shapes, RecRows, ClaimRow
  <1>5. /\ rec' \in [Tenant \X Key -> RecRows] /\ rec'[k] = row
        /\ \A m \in Tenant \X Key : m # k => rec'[m] = rec[m]
    BY <1>1, <1>3, <1>4
  <1>6. stamp[p] <= stamp[p] + Lease
    BY <1>1, ApiAssumption
  <1>7. rec[k].status # "absent" => rec[k].created < stamp[p]
    <2>1. rec[k].created \in Nat /\ rec[k].expires \in Nat
      BY <1>1, <1>4 DEF RecRows
    <2>2. rec[k].status # "absent" => rec[k].created <= rec[k].expires /\ rec[k].expires < stamp[p]
      BY <1>1 DEF IInv, RecOK, Claimable
    <2> QED
      BY <1>1, <2>1, <2>2
  <1>8. RecGrows
    <2> SUFFICES ASSUME NEW m \in Tenant \X Key
                 PROVE  /\ rec'[m].created \in Nat
                        /\ rec[m].status # "absent" =>
                              /\ rec'[m].status # "absent" /\ rec[m].created <= rec'[m].created
                              /\ rec'[m].created = rec[m].created => rec'[m].hash = rec[m].hash
      BY DEF RecGrows
    <2>1. rec[m].created \in Nat
      BY <1>4 DEF RecRows
    <2>2. CASE m = k
      BY <1>1, <1>3, <1>5, <1>7, <2>1, <2>2
    <2>3. CASE m # k
      BY <1>5, <2>1, <2>3
    <2> QED
      BY <2>2, <2>3
  <1>9. rec'[k].created = stamp[p] /\ rec'[k].created <= rec'[k].expires
    BY <1>3, <1>5, <1>6
  <1>10. rec'[k].status = "processing" /\ rec'[k].hash = HashOf(p)
    BY <1>3, <1>5
  <1> QED
    BY <1>5, <1>8, <1>9, <1>10

\* A row that was replaced by one that is not completed.
LEMMA RecReplaced ==
    ASSUME IInv, Grows, NEW k \in Tenant \X Key, \A m \in Tenant \X Key : m # k => rec'[m] = rec[m],
           rec'[k].status = "processing", rec'[k].created <= rec'[k].expires
    PROVE  RecOK'
  <1> SUFFICES ASSUME NEW m \in Tenant \X Key
               PROVE  /\ rec'[m].status # "absent" => rec'[m].created <= rec'[m].expires
                      /\ rec'[m].status = "completed" =>
                            /\ rec'[m].by \in Request /\ pc'[rec'[m].by] = "done"
                            /\ HashOf(rec[m].by)' = rec'[m].hash /\ TenantOf(rec[m].by)' = m[1]
                            /\ GoodReply(rec[m].by, rec[m].reply)'
    BY DEF RecOK
  <1>1. CASE m = k
    BY <1>1
  <1>2. CASE m # k
    BY <1>2, RowKeeps
  <1> QED
    BY <1>1, <1>2

\* The claim query: the row is the request's own, or somebody else's.
LEMMA ClaimKeeps ==
    ASSUME IInv, NEW p \in Request, Claim(p)
    PROVE  IInv'
  <1>0. /\ CallOK(p) /\ HeldOK(p) /\ pc[p] = "claim"
        /\ UNCHANGED <<user, access, object, audit, call, stamp, draft, answer, held, now>>
    BY DEF IInv, Claim, people, ledger, bounds
  <1>1. PICK k : k = PairOf(p)
    OBVIOUS
  <1>2. k \in Tenant \X Key /\ stamp[p] \in Nat
    BY <1>0, <1>1, PairType DEF Keyed
  <1>3. PICK step \in {"handler", "get"} :
           /\ pc' = [pc EXCEPT ![p] = step]
           /\ step = "handler" => Claimable(p) /\ ClaimRow(p)
           /\ step = "get" => ~Claimable(p) /\ rec' = rec
    BY DEF Claim, Goto
  <1>4. pc'[p] = step /\ step \in Steps
    BY <1>3 DEF IInv, TypeOK, Steps
  <1>5. /\ RecGrows /\ rec' \in [Tenant \X Key -> RecRows] /\ rec'[k].status # "absent"
        /\ step = "handler" => rec'[k].created = stamp[p] /\ rec'[k].hash = HashOf(p)
    <2>1. CASE step = "handler"
      BY <1>0, <1>1, <1>3, <2>1, ClaimRowGrows
    <2>2. CASE step = "get"
      <3>1. rec[k].status # "absent"
        BY <1>1, <1>3, <2>2 DEF Claimable
      <3>2. RecGrows
        BY <1>3, <2>2, SameRec
      <3> QED
        BY <1>3, <2>2, <3>1, <3>2 DEF IInv, Shapes, RecRows
    <2> QED
      BY <2>1, <2>2
  <1>6. Solo(p)
    <2>1. \A q \in Request \ {p} : pc'[q] = pc[q]
      BY <1>3 DEF IInv, TypeOK
    <2> QED
      BY <1>0, <2>1 DEF Solo
  <1>7. Grows /\ Still /\ Mine(p) /\ PeopleOK' /\ AuditOK'
    BY <1>5, <1>6, SoloGrows
  <1>8. RecOK'
    <2>1. CASE step = "handler"
      <3>1. /\ \A m \in Tenant \X Key : m # k => rec'[m] = rec[m]
            /\ rec'[k].status = "processing" /\ rec'[k].created <= rec'[k].expires
        BY <1>0, <1>1, <1>3, <2>1, ClaimRowGrows
      <3> QED
        BY <1>2, <1>7, <3>1, RecReplaced
    <2>2. CASE step = "get"
      BY <1>3, <1>7, <2>2, RecKeeps
    <2> QED
      BY <2>1, <2>2
  <1>9. TypeOK' /\ Shapes'
    BY <1>0, <1>3, <1>4, <1>5, <1>6, SoloTypes DEF IInv, TypeOK, Shapes, Answers, RecRows
  <1>10. Wrote(p)' = {} /\ ~Served(p)' /\ PairOf(p)' = k /\ HashOf(p)' = HashOf(p)
    BY <1>0, <1>1, <1>7, CallerKept DEF CallOK, Wrote, Served
  <1>11. CallOK(p)'
    BY <1>0, <1>4, <1>10 DEF CallOK, Keyed, PastAdmit
  <1>12. HeldOK(p)'
    BY <1>0, <1>4, <1>10 DEF HeldOK, Keyed, PastAdmit
  <1>13. ClaimOK(p)'
    BY <1>0, <1>2, <1>4, <1>5, <1>10 DEF ClaimOK
  <1>14. AnswerOK(p)'
    BY <1>10 DEF AnswerOK
  <1> QED
    BY <1>7, <1>8, <1>9, <1>11, <1>12, <1>13, <1>14, Assemble

\* The claim that nobody will complete.
LEMMA ClaimUnacknowledgedKeeps ==
    ASSUME IInv, NEW p \in Request, ClaimUnacknowledged(p)
    PROVE  IInv'
  <1>1. PICK a : a = Answer("internal", None, Bare(500))
    OBVIOUS
  <1>2. a \in Answers /\ a.kind = "internal"
    BY <1>1 DEF Answers, Answer, Bare, Reply, Replies, Kinds
  <1>3. /\ CallOK(p) /\ HeldOK(p) /\ pc[p] = "claim" /\ Claimable(p) /\ ClaimRow(p)
        /\ pc' = [pc EXCEPT ![p] = "done"] /\ answer' = [answer EXCEPT ![p] = a]
        /\ UNCHANGED <<user, access, object, audit, call, stamp, draft, held, now>>
    BY <1>1 DEF IInv, ClaimUnacknowledged, Return, Goto, people, ledger
  <1>4. PICK k : k = PairOf(p)
    OBVIOUS
  <1>5. k \in Tenant \X Key
    BY <1>3, <1>4, PairType DEF Keyed
  <1>6. /\ RecGrows /\ rec' \in [Tenant \X Key -> RecRows]
        /\ \A m \in Tenant \X Key : m # k => rec'[m] = rec[m]
        /\ rec'[k].status = "processing" /\ rec'[k].created <= rec'[k].expires
    <2>1. pc[p] = "claim" /\ Claimable(p) /\ ClaimRow(p)
      BY <1>3
    <2>2. RecGrows /\ rec' \in [Tenant \X Key -> RecRows]
      BY <1>4, <2>1, ClaimRowGrows
    <2>3. /\ \A m \in Tenant \X Key : m # k => rec'[m] = rec[m]
          /\ rec'[k].status = "processing" /\ rec'[k].created <= rec'[k].expires
      BY <1>4, <2>1, ClaimRowGrows
    <2> QED
      BY <2>2, <2>3
  <1>7. pc'[p] = "done" /\ answer'[p] = a /\ answer' \in [Request -> Answers] /\ "done" \in Steps
    BY <1>2, <1>3 DEF IInv, TypeOK, Shapes, Answers, Steps
  <1>8. Solo(p)
    <2>1. \A q \in Request \ {p} : pc'[q] = pc[q] /\ answer'[q] = answer[q]
      BY <1>3 DEF IInv, TypeOK, Shapes
    <2> QED
      BY <1>3, <2>1 DEF Solo
  <1>9. Grows /\ Still /\ Mine(p) /\ PeopleOK' /\ AuditOK'
    BY <1>6, <1>8, SoloGrows
  <1>10. RecOK'
    BY <1>5, <1>6, <1>9, RecReplaced
  <1>11. TypeOK' /\ Shapes'
    BY <1>3, <1>6, <1>7, <1>8, SoloTypes DEF IInv, TypeOK, Shapes, RecRows
  <1>12. CallOK(p)' /\ ClaimOK(p)'
    BY <1>3, <1>7, <1>8, <1>9, Ended
  <1>13. HeldOK(p)' /\ AnswerOK(p)'
    <2>1. ~Served(p)' /\ Wrote(p)' = Wrote(p)
      BY <1>2, <1>3, <1>7 DEF Served, Wrote
    <2> QED
      BY <1>3, <1>7, <2>1 DEF HeldOK, AnswerOK, Keyed, PastAdmit
  <1> QED
    BY <1>9, <1>10, <1>11, <1>12, <1>13, Assemble

\* The stored reply is that of the request whose claim the row still is.
LEMMA CompleteKeeps ==
    ASSUME IInv, NEW p \in Request, Complete(p)
    PROVE  IInv'
  <1>0. /\ CallOK(p) /\ HeldOK(p) /\ ClaimOK(p) /\ pc[p] = "complete" /\ pc' = [pc EXCEPT ![p] = "done"]
        /\ UNCHANGED <<user, access, object, audit, call, stamp, draft, answer, held, now>>
    BY DEF IInv, Complete, Goto, people, ledger, bounds
  <1>1. PICK k : k = PairOf(p)
    OBVIOUS
  <1>2. k \in Tenant \X Key /\ stamp[p] \in Nat /\ stamp[p] <= now /\ k[1] = TenantOf(p)
    BY <1>0, <1>1, PairType DEF Keyed
  <1>3. PICK d : d = draft[p]
    OBVIOUS
  <1>4. d \in Replies /\ GoodReply(p, d)
    BY <1>0, <1>3 DEF IInv, Shapes, ClaimOK
  <1>5. rec \in [Tenant \X Key -> RecRows] /\ rec[k].status # "absent" /\ now \in Nat
    BY <1>0, <1>1 DEF IInv, Shapes, RecRows, ClaimOK
  <1>6. CASE rec[k].created = stamp[p] /\
             rec' = [rec EXCEPT ![k] = Row(rec[k].hash, "completed", p, d, rec[k].created, now + Retention)]
    <2>1. PICK row : row = Row(rec[k].hash, "completed", p, d, rec[k].created, now + Retention)
      OBVIOUS
    <2>2. /\ row \in RecRows /\ row.status = "completed" /\ row.by = p /\ row.reply = d
          /\ row.hash = rec[k].hash /\ row.created = rec[k].created /\ row.created <= row.expires
      BY <1>2, <1>4, <1>5, <1>6, <2>1, ApiAssumption DEF Row, RecRows
    <2>3. /\ rec' \in [Tenant \X Key -> RecRows] /\ rec'[k] = row
          /\ \A m \in Tenant \X Key : m # k => rec'[m] = rec[m]
      BY <1>2, <1>5, <1>6, <2>1, <2>2
    <2>4. rec[k].hash = HashOf(p)
      BY <1>0, <1>1, <1>6 DEF ClaimOK
    <2>5. RecGrows
      <3>1. \A m \in Tenant \X Key : rec[m].created \in Nat
        BY <1>5 DEF RecRows
      <3>2. \A m \in Tenant \X Key : rec'[m].created = rec[m].created /\ rec'[m].hash = rec[m].hash
        BY <2>2, <2>3
      <3>3. \A m \in Tenant \X Key : rec[m].status # "absent" => rec'[m].status # "absent"
        BY <2>2, <2>3
      <3> QED
        BY <3>1, <3>2, <3>3 DEF RecGrows
    <2>6. pc'[p] = "done" /\ "done" \in Steps
      BY <1>0 DEF IInv, TypeOK, Steps
    <2>7. Solo(p)
      <3>1. \A q \in Request \ {p} : pc'[q] = pc[q]
        BY <1>0 DEF IInv, TypeOK
      <3> QED
        BY <1>0, <2>6, <3>1 DEF Solo
    <2>8. Grows /\ Still /\ Mine(p) /\ PeopleOK' /\ AuditOK'
      BY <2>5, <2>7, SoloGrows
    <2>9. GoodReply(p, d)' /\ HashOf(p)' = HashOf(p) /\ TenantOf(p)' = TenantOf(p)
      BY <1>0, <1>4, <2>8, GoodKeeps, CallerKept
    <2>10. RecOK'
      <3> SUFFICES ASSUME NEW m \in Tenant \X Key
                   PROVE  /\ rec'[m].status # "absent" => rec'[m].created <= rec'[m].expires
                          /\ rec'[m].status = "completed" =>
                                /\ rec'[m].by \in Request /\ pc'[rec'[m].by] = "done"
                                /\ HashOf(rec[m].by)' = rec'[m].hash /\ TenantOf(rec[m].by)' = m[1]
                                /\ GoodReply(rec[m].by, rec[m].reply)'
        BY DEF RecOK
      <3>1. CASE m = k
        <4>1. rec'[m].by = p /\ rec'[m].reply = d /\ rec'[m].hash = HashOf(p)
              /\ rec'[m].created <= rec'[m].expires
          BY <2>2, <2>3, <2>4, <3>1
        <4> QED
          BY <1>2, <2>6, <2>9, <3>1, <4>1
      <3>2. CASE m # k
        BY <2>3, <2>8, <3>2, RowKeeps
      <3> QED
        BY <3>1, <3>2
    <2>11. TypeOK' /\ Shapes'
      BY <1>0, <2>3, <2>6, <2>7, SoloTypes DEF IInv, TypeOK, Shapes, Answers, RecRows
    <2>12. CallOK(p)' /\ ClaimOK(p)' /\ HeldOK(p)' /\ AnswerOK(p)'
      BY <1>0, <2>6, <2>7, <2>8, Ended
    <2> QED
      BY <2>8, <2>10, <2>11, <2>12, Assemble
  <1>7. CASE rec' = rec
    <2>1. answer \in [Request -> Answers]
      BY DEF IInv, Shapes, Answers
    <2>2. PICK a \in Answers : a = answer[p]
      BY <2>1
    <2>3. answer' = [answer EXCEPT ![p] = a]
      BY <1>0, <2>1, <2>2
    <2> QED
      BY <1>0, <1>7, <2>2, <2>3, Ends DEF Goto
  <1> QED
    BY <1>1, <1>3, <1>6, <1>7 DEF Complete

\* A request ends with an answer that a handler produced.
LEMMA EndsServed ==
    ASSUME IInv, NEW p \in Request, pc[p] \in PastAdmit, Goto(p, "done"),
           UNCHANGED <<user, access, object, audit, rec, call, stamp, draft, held, now>>,
           NEW kind \in {"ran", "replayed"}, NEW by \in Request, NEW r \in Replies,
           answer' = [answer EXCEPT ![p] = Answer(kind, by, r)],
           by = p \/ pc[by] = "done",
           HashOf(by) = HashOf(p), TenantOf(by) = TenantOf(p), GoodReply(by, r)
    PROVE  IInv'
  <1>1. PICK a : a = Answer(kind, by, r)
    OBVIOUS
  <1>2. a \in Answers /\ a.by = by /\ a.reply = r
    BY <1>1 DEF Answers, Answer, Kinds
  <1>3. /\ pc' = [pc EXCEPT ![p] = "done"] /\ pc \in [Request -> Steps]
        /\ answer \in [Request -> Answers] /\ answer' = [answer EXCEPT ![p] = a]
        /\ pc[p] \notin {"idle", "done"}
    BY <1>1 DEF Goto, IInv, TypeOK, Shapes, Answers, Keyed, PastAdmit
  <1>4. pc'[p] = "done" /\ answer'[p] = a
    BY <1>3
  <1>5. Solo(p)
    BY <1>3, <1>4 DEF Solo
  <1>6. Grows /\ Still /\ Mine(p) /\ PeopleOK' /\ AuditOK'
    BY <1>5, SameRec, SoloGrows
  <1>7. RecOK'
    BY <1>6, RecKeeps
  <1>8. TypeOK' /\ Shapes'
    <2>1. answer' \in [Request -> Answers] /\ "done" \in Steps
      BY <1>2, <1>3 DEF Steps
    <2> QED
      BY <1>3, <1>5, <2>1, SoloTypes DEF IInv, TypeOK, Shapes
  <1>9. CallOK(p)' /\ ClaimOK(p)'
    BY <1>3, <1>4, <1>5, <1>6, Ended
  <1>10. HeldOK(p)'
    <2>1. p \in held
      BY DEF IInv, HeldOK
    <2> QED
      BY <1>4, <2>1 DEF HeldOK
  <1>11. AnswerOK(p)'
    <2>1. pc'[by] = "done" /\ pc[by] # "idle"
      BY <1>3, <1>4
    <2>2. /\ HashOf(by)' = HashOf(by) /\ TenantOf(by)' = TenantOf(by)
          /\ HashOf(p)' = HashOf(p) /\ TenantOf(p)' = TenantOf(p)
      BY <1>3, <1>6, <2>1, CallerKept
    <2>3. GoodReply(by, r)'
      <3>1. TenantOf(by)' = TenantOf(by) /\ Wrote(by)' = Wrote(by)
        BY <2>2 DEF Wrote
      <3> QED
        BY <3>1 DEF GoodReply
    <2> QED
      BY <1>2, <1>4, <2>1, <2>2, <2>3 DEF AnswerOK
  <1> QED
    BY <1>6, <1>7, <1>8, <1>9, <1>10, <1>11, Assemble

\* What is replayed is the stored reply, to an identical request of its tenant.
LEMMA GetExistingKeeps ==
    ASSUME IInv, NEW p \in Request, GetExisting(p)
    PROVE  IInv'
  <1>0. /\ CallOK(p) /\ ClaimOK(p) /\ pc[p] = "get" /\ Goto(p, "done")
        /\ UNCHANGED <<user, access, object, audit, rec, call, stamp, draft, held, now>>
    BY DEF IInv, GetExisting, Return, people, ledger, bounds
  <1>1. PICK k : k = PairOf(p)
    OBVIOUS
  <1>2. k \in Tenant \X Key /\ k[1] = TenantOf(p)
    BY <1>0, <1>1, PairType DEF Keyed
  <1>3. CASE \E kind \in {"ErrKeyReused", "ErrInFlight"}, status \in {422, 409} :
                answer' = [answer EXCEPT ![p] = Answer(kind, None, Bare(status))]
    <2>1. PICK kind \in {"ErrKeyReused", "ErrInFlight"}, status \in {422, 409} :
             answer' = [answer EXCEPT ![p] = Answer(kind, None, Bare(status))]
      BY <1>3
    <2>2. PICK a : a = Answer(kind, None, Bare(status))
      OBVIOUS
    <2>3. a \in Answers /\ a.kind \notin {"ran", "replayed"}
      BY <2>2 DEF Answers, Answer, Bare, Reply, Replies, Kinds
    <2> QED
      BY <1>0, <2>1, <2>2, <2>3, Ends
  <1>4. CASE /\ rec[k].hash = HashOf(p) /\ rec[k].status # "processing"
             /\ answer' = [answer EXCEPT ![p] = Answer("replayed", rec[k].by, rec[k].reply)]
    <2>1. PICK b : b = rec[k].by
      OBVIOUS
    <2>2. PICK r : r = rec[k].reply
      OBVIOUS
    <2>3. rec[k].status = "completed"
      BY <1>0, <1>1, <1>2, <1>4 DEF ClaimOK, IInv, TypeOK
    <2>4. /\ b \in Request /\ pc[b] = "done" /\ HashOf(b) = HashOf(p) /\ TenantOf(b) = TenantOf(p)
          /\ GoodReply(b, r)
      BY <1>2, <1>4, <2>1, <2>2, <2>3 DEF IInv, RecOK
    <2>5. r \in Replies
      BY <1>2, <2>2 DEF IInv, Shapes
    <2>6. answer' = [answer EXCEPT ![p] = Answer("replayed", b, r)] /\ pc[p] \in PastAdmit
      BY <1>0, <1>4, <2>1, <2>2 DEF Keyed, PastAdmit
    <2> QED
      BY <1>0, <2>4, <2>5, <2>6, EndsServed
  <1>5. answer' = [answer EXCEPT ![p] =
                      IF rec[k].hash # HashOf(p) THEN Answer("ErrKeyReused", None, Bare(422))
                      ELSE IF rec[k].status = "processing" THEN Answer("ErrInFlight", None, Bare(409))
                      ELSE Answer("replayed", rec[k].by, rec[k].reply)]
    BY <1>1 DEF GetExisting, Return
  <1>6. CASE rec[k].hash # HashOf(p)
    <2>1. answer' = [answer EXCEPT ![p] = Answer("ErrKeyReused", None, Bare(422))]
      BY <1>5, <1>6
    <2> QED
      BY <1>3, <2>1
  <1>7. CASE rec[k].hash = HashOf(p) /\ rec[k].status = "processing"
    <2>1. answer' = [answer EXCEPT ![p] = Answer("ErrInFlight", None, Bare(409))]
      BY <1>5, <1>7
    <2> QED
      BY <1>3, <2>1
  <1>8. CASE rec[k].hash = HashOf(p) /\ rec[k].status # "processing"
    BY <1>4, <1>5, <1>8
  <1> QED
    BY <1>6, <1>7, <1>8

\* A read tells the tenant what is there.
LEMMA ReadReply ==
    ASSUME IInv, NEW p \in Request, NEW r \in Replies,
           NEW route \in Reading, ReadHandler(p, route, r), GoodReply(p, r)
    PROVE  IInv'
  <1>1. /\ pc[p] = "read" /\ Goto(p, "done") /\ answer' = [answer EXCEPT ![p] = Answer("ran", p, r)]
        /\ UNCHANGED <<user, access, object, audit, rec, call, stamp, draft, held, now>>
    BY DEF ReadHandler, Return, people, ledger, bounds
  <1>2. pc[p] \in PastAdmit
    BY <1>1 DEF PastAdmit
  <1> QED
    BY <1>1, <1>2, EndsServed

\* What a read says of the object in its path.
LEMMA ShowGood ==
    ASSUME IInv, NEW p \in Request, pc[p] = "read", NEW kind \in {"account", "transaction"},
           call[p].route \in {"getAccount", "getTransaction"}
    PROVE  Show(p, kind) \in Replies /\ GoodReply(p, Show(p, kind))
  <1>1. /\ call[p] \in Menu /\ call[p].token # None /\ Wrote(p) = {}
        /\ call[p].route \notin Mutating
    BY DEF IInv, CallOK, PastAdmit, Mutating, Creating, Settling
  <1>2. call[p].arg \in Object /\ call[p].arg # None
    BY <1>1, ApiAssumption, Names
  <1>3. CASE Found(p, kind)
    <2>1. PICK o : o = call[p].arg
      OBVIOUS
    <2>2. /\ o \in Object /\ object[o].kind = kind /\ object[o].tenant = TenantOf(p)
          /\ object[o].status \in ObjectStatuses
      BY <1>2, <1>3, <2>1 DEF Found, IInv, Shapes
    <2>3. object[o].status # "absent"
      BY <2>2 DEF IInv, Shapes, NoThing, Thing
    <2>4. PICK st : st = object[o].status
      OBVIOUS
    <2>5. PICK r : r = Reply(200, o, st, {})
      OBVIOUS
    <2>6. Show(p, kind) = r
      BY <1>3, <2>1, <2>4, <2>5 DEF Show
    <2>7. r.status = 200 /\ r.about = o /\ r.says = st /\ r.rows = {} /\ r \in Replies
      BY <2>2, <2>4, <2>5 DEF Reply, Replies
    <2>8. GoodReply(p, r)
      BY <1>1, <2>1, <2>2, <2>3, <2>4, <2>7 DEF GoodReply, SinceThen
    <2> QED
      BY <2>6, <2>7, <2>8
  <1>4. CASE ~Found(p, kind)
    <2>1. PICK r : r = Bare(404)
      OBVIOUS
    <2>2. Show(p, kind) = r
      BY <1>4, <2>1 DEF Show
    <2>3. r.status = 404 /\ r.about = None /\ r.rows = {} /\ r \in Replies
      BY <2>1 DEF Bare, Reply, Replies
    <2>4. GoodReply(p, r)
      BY <1>1, <2>3 DEF GoodReply
    <2> QED
      BY <2>2, <2>3, <2>4
  <1> QED
    BY <1>3, <1>4

\* The handlers that read.
LEMMA ReadKeeps ==
    ASSUME IInv, NEW p \in Request,
           GetAccountHandler(p) \/ GetTransactionHandler(p) \/ AuditLogHandler(p)
    PROVE  IInv'
  <1>1. CASE GetAccountHandler(p)
    <2>1. PICK r : r = Show(p, "account")
      OBVIOUS
    <2>2. r \in Replies /\ GoodReply(p, r)
      BY <1>1, <2>1, ShowGood DEF GetAccountHandler, ReadHandler
    <2>3. ReadHandler(p, "getAccount", r) /\ "getAccount" \in Reading
      BY <1>1, <2>1 DEF GetAccountHandler, Reading
    <2> QED
      BY <2>2, <2>3, ReadReply
  <1>2. CASE GetTransactionHandler(p)
    <2>1. PICK r : r = Show(p, "transaction")
      OBVIOUS
    <2>2. r \in Replies /\ GoodReply(p, r)
      BY <1>2, <2>1, ShowGood DEF GetTransactionHandler, ReadHandler
    <2>3. ReadHandler(p, "getTransaction", r) /\ "getTransaction" \in Reading
      BY <1>2, <2>1 DEF GetTransactionHandler, Reading
    <2> QED
      BY <2>2, <2>3, ReadReply
  <1>3. CASE AuditLogHandler(p)
    <2>1. PICK r : r = Reply(200, None, "none", List(TenantOf(p)))
      OBVIOUS
    <2>2. r.status = 200 /\ r.about = None /\ r.rows = List(TenantOf(p)) /\ r \in Replies
      BY <2>1 DEF Reply, Replies, List, IInv, TypeOK
    <2>3. call[p] \in Menu /\ call[p].route = "auditLog" /\ pc[p] = "read"
      BY <1>3 DEF AuditLogHandler, ReadHandler, IInv, CallOK
    <2>4. call[p].arg = None /\ call[p].route \notin Mutating
      BY <2>3, ApiAssumption DEF Settling, Mutating, Creating
    <2>5. GoodReply(p, r)
      BY <2>2, <2>4 DEF GoodReply, List
    <2>6. ReadHandler(p, "auditLog", r) /\ "auditLog" \in Reading
      BY <1>3, <2>1 DEF AuditLogHandler, Reading
    <2> QED
      BY <2>2, <2>5, <2>6, ReadReply
  <1> QED
    BY <1>1, <1>2, <1>3

\* The response is that of the handler.
LEMMA RespondKeeps ==
    ASSUME IInv, NEW p \in Request, Respond(p)
    PROVE  IInv'
  <1>0. /\ CallOK(p) /\ HeldOK(p) /\ ClaimOK(p) /\ pc[p] = "respond"
        /\ UNCHANGED <<user, access, object, audit, rec, call, stamp, draft, held, now>>
    BY DEF IInv, Respond, people, ledger, bounds
  <1>1. PICK d : d = draft[p]
    OBVIOUS
  <1>2. d \in Replies /\ GoodReply(p, d)
    BY <1>0, <1>1 DEF IInv, Shapes, ClaimOK
  <1>3. PICK a : a = Answer("ran", p, d)
    OBVIOUS
  <1>4. a \in Answers /\ a.by = p /\ a.reply = d
    BY <1>2, <1>3 DEF Answers, Answer, Kinds
  <1>5. pc' = [pc EXCEPT ![p] = "complete"] /\ answer' = [answer EXCEPT ![p] = a]
    BY <1>1, <1>3 DEF Respond, Goto
  <1>6. /\ pc'[p] = "complete" /\ answer'[p] = a /\ answer' \in [Request -> Answers]
        /\ "complete" \in Steps
    BY <1>4, <1>5 DEF IInv, TypeOK, Shapes, Answers, Steps
  <1>7. Solo(p)
    <2>1. \A q \in Request \ {p} : pc'[q] = pc[q] /\ answer'[q] = answer[q]
      BY <1>5 DEF IInv, TypeOK, Shapes
    <2> QED
      BY <1>0, <2>1 DEF Solo
  <1>8. Grows /\ Still /\ Mine(p) /\ PeopleOK' /\ AuditOK'
    BY <1>0, <1>7, SameRec, SoloGrows
  <1>9. RecOK'
    BY <1>0, <1>8, RecKeeps
  <1>10. TypeOK' /\ Shapes'
    BY <1>0, <1>5, <1>6, <1>7, SoloTypes DEF IInv, TypeOK, Shapes
  <1>11. /\ GoodReply(p, d)' /\ HashOf(p)' = HashOf(p) /\ TenantOf(p)' = TenantOf(p)
         /\ PairOf(p)' = PairOf(p)
    BY <1>0, <1>2, <1>8, GoodKeeps, CallerKept
  <1>12. CallOK(p)'
    BY <1>0, <1>6 DEF CallOK, Keyed, PastAdmit
  <1>13. HeldOK(p)'
    <2>1. p \in held'
      BY <1>0 DEF HeldOK, Keyed, PastAdmit
    <2> QED
      BY <1>6, <2>1 DEF HeldOK
  <1>14. ClaimOK(p)'
    <2>1. draft'[p] = d
      BY <1>0, <1>1
    <2> QED
      BY <1>0, <1>6, <1>11, <2>1 DEF ClaimOK
  <1>15. AnswerOK(p)'
    BY <1>4, <1>6, <1>11 DEF AnswerOK
  <1> QED
    BY <1>8, <1>9, <1>10, <1>12, <1>13, <1>14, <1>15, Assemble

Things == [tenant : Tenant \cup {None}, kind : {"none", "account", "transaction"},
           status : ObjectStatuses]

\* The handler of p has run: what it may have done to the tables of the ledger.
Ran(p) ==
    /\ pc[p] = "handler" /\ Goto(p, "respond")
    /\ UNCHANGED <<user, access, rec, call, stamp, answer, held, now>>
    /\ object' \in [Object -> Things]
    /\ \A o \in Object : object'[o].status = "absent" => object'[o] = NoThing
    /\ \A o \in Object : object[o].status # "absent" =>
          /\ object'[o].tenant = object[o].tenant
          /\ \/ object'[o].status = object[o].status
             \/ object[o].status = "pending" /\ object'[o].status \in {"posted", "failed"}
    /\ \A q \in Request \ {p} : object[q] = NoThing => object'[q] = NoThing
    /\ audit' \subseteq AuditRow /\ audit \subseteq audit'
    /\ \A a \in audit' : a.by = p \/ a \in audit

\* The invariant after a handler whose reply is good.
LEMMA HandlerKeeps ==
    ASSUME IInv, NEW p \in Request, Ran(p), AuditOK',
           NEW r \in Replies, draft' = [draft EXCEPT ![p] = r], GoodReply(p, r)'
    PROVE  IInv'
  <1>0. CallOK(p) /\ HeldOK(p) /\ ClaimOK(p)
    BY DEF IInv
  <1>1. /\ pc[p] = "handler" /\ pc' = [pc EXCEPT ![p] = "respond"] /\ pc'[p] = "respond"
        /\ UNCHANGED <<user, access, rec, call, stamp, answer, held, now>>
    BY DEF Ran, Goto, IInv, TypeOK
  <1>2. draft'[p] = r /\ draft' \in [Request -> Replies]
    BY DEF IInv, Shapes
  <1>3. Grows
    <2>1. \A q \in Request : pc[q] \in {"respond", "complete", "done"} =>
             call'[q] = call[q] /\ \A a \in audit' : a.by = q => a \in audit
      BY <1>1 DEF Ran
    <2>2. \A q \in Request : /\ pc[q] = "done" => pc'[q] = "done"
                             /\ pc[q] = "complete" => pc'[q] \in {"complete", "done"}
      BY <1>1 DEF IInv, TypeOK
    <2>3. now \in Nat
      BY DEF IInv, Shapes
    <2>4. RecGrows
      BY <1>1, SameRec
    <2>5. /\ \A o \in Object : object[o].status # "absent" =>
                /\ object'[o].tenant = object[o].tenant
                /\ \/ object'[o].status = object[o].status
                   \/ object[o].status = "pending" /\ object'[o].status \in {"posted", "failed"}
          /\ audit \subseteq audit'
      BY DEF Ran
    <2> QED
      BY <1>1, <2>1, <2>2, <2>3, <2>4, <2>5 DEF Grows
  <1>4. Still
    BY <1>1 DEF Still
  <1>5. Mine(p)
    <2> SUFFICES ASSUME NEW q \in Request \ {p} PROVE Apart(q)
      BY DEF Mine
    <2>1. pc'[q] = pc[q] /\ draft'[q] = draft[q]
      BY <1>1 DEF IInv, TypeOK, Shapes
    <2>2. object[q] = NoThing => object'[q] = NoThing
      BY DEF Ran
    <2>3. \A a \in audit' : a.by = q => a \in audit
      BY DEF Ran
    <2> QED
      BY <1>1, <2>1, <2>2, <2>3 DEF Apart
  <1>6. PeopleOK'
    BY <1>1 DEF IInv, PeopleOK
  <1>7. RecOK'
    BY <1>1, <1>3, RecKeeps
  <1>8. TypeOK'
    <2>1. audit' \subseteq AuditRow /\ pc' \in [Request -> Steps]
      BY <1>1 DEF Ran, IInv, TypeOK, Steps
    <2> QED
      BY <1>1, <2>1 DEF IInv, TypeOK
  <1>9. Shapes'
    <2>1. object' \in [Object -> Things] /\ \A o \in Object : object'[o].status = "absent" => object'[o] = NoThing
      BY DEF Ran
    <2> QED
      BY <1>1, <1>2, <2>1 DEF IInv, Shapes, Things
  <1>10. CallOK(p)'
    BY <1>0, <1>1 DEF CallOK, Keyed, PastAdmit
  <1>11. HeldOK(p)'
    <2>1. p \in held'
      BY <1>0, <1>1 DEF HeldOK, Keyed, PastAdmit
    <2> QED
      BY <1>1, <2>1 DEF HeldOK
  <1>12. ClaimOK(p)'
    <2>1. PairOf(p)' = PairOf(p) /\ HashOf(p)' = HashOf(p)
      BY <1>1, <1>3, CallerKept
    <2> QED
      BY <1>0, <1>1, <1>2, <2>1 DEF ClaimOK
  <1>13. AnswerOK(p)'
    <2>1. ~Served(p)'
      BY <1>0, <1>1 DEF CallOK, Served
    <2> QED
      BY <2>1 DEF AnswerOK
  <1> QED
    BY <1>3, <1>4, <1>5, <1>6, <1>7, <1>8, <1>9, <1>10, <1>11, <1>12, <1>13, Assemble

\* A handler that changed nothing says so, or leaves the client in doubt.
Refusal(p, r) ==
    \E status \in {400, 404, 409, 422} :
       /\ r = Bare(status)
       /\ (call[p].arg # None /\ status = 409) =>
             object[call[p].arg].status # "absent" /\ object[call[p].arg].tenant = TenantOf(p)

\* The handler of p wrote nothing.
Unwritten(p) ==
    /\ pc[p] = "handler" /\ Goto(p, "respond")
    /\ UNCHANGED <<user, access, rec, call, stamp, answer, held, now, object, audit>>

\* The invariant after a handler that wrote nothing.
LEMMA RejectKeeps ==
    ASSUME IInv, NEW p \in Request, Unwritten(p), NEW r, Refusal(p, r), draft' = [draft EXCEPT ![p] = r]
    PROVE  IInv'
  <1>1. PICK status \in {400, 404, 409, 422} :
           /\ r = Bare(status)
           /\ (call[p].arg # None /\ status = 409) =>
                 object[call[p].arg].status # "absent" /\ object[call[p].arg].tenant = TenantOf(p)
    BY DEF Refusal
  <1>2. r \in Replies /\ r.status = status /\ r.about = None /\ r.rows = {}
    BY <1>1 DEF Bare, Reply, Replies
  <1>3. /\ pc[p] = "handler" /\ Goto(p, "respond")
        /\ UNCHANGED <<user, access, rec, call, stamp, answer, held, now, object, audit>>
    BY DEF Unwritten
  <1>4. Wrote(p)' = {} /\ Wrote(p)' = Wrote(p) /\ TenantOf(p)' = TenantOf(p)
    BY <1>3 DEF IInv, CallOK, Wrote, TenantOf, Caller
  <1>5. GoodReply(p, r)'
    BY <1>3, <1>1, <1>2, <1>4 DEF GoodReply
  <1>6. Ran(p)
    <2>1. object \in [Object -> Things] /\ audit \subseteq AuditRow
          /\ \A o \in Object : object[o].status = "absent" => object[o] = NoThing
      BY DEF IInv, TypeOK, Shapes, Things
    <2> QED
      BY <1>3, <2>1 DEF Ran
  <1>7. AuditOK'
    BY <1>3 DEF IInv, AuditOK
  <1> QED
    BY <1>2, <1>5, <1>6, <1>7, HandlerKeeps

\* A handler that committed left the object and the audit row it tells of.
LEMMA CommitKeeps ==
    ASSUME IInv, NEW p \in Request, pc[p] = "handler", Goto(p, "respond"),
           UNCHANGED <<user, access, rec, call, stamp, answer, held, now>>,
           NEW o \in Object, NEW new \in Things, new.tenant = TenantOf(p), new.status # "absent",
           NEW success \in {200, 201},
           \/ o = p /\ call[p].arg = None
           \/ /\ o = call[p].arg /\ object[o].status = "pending" /\ object[o].tenant = TenantOf(p)
              /\ new.status \in {"posted", "failed"},
           Commit(p, o, new, Reply(success, o, new.status, {}))
    PROVE  IInv'
  <1>0. call[p].token # None /\ Wrote(p) = {} /\ object[p] = NoThing /\ pc[p] # "idle"
    BY DEF IInv, CallOK, Keyed, PastAdmit
  <1>1. PICK t : t = TenantOf(p)
    OBVIOUS
  <1>2. PICK u : u = Caller(p).user
    OBVIOUS
  <1>3. t \in Tenant /\ u \in User /\ user[u].status # "absent" /\ user[u].tenant = t
    BY <1>0, <1>1, <1>2, CallerTenant
  <1>4. PICK row : row = [by |-> p, tenant |-> t, actor |-> u, object |-> o]
    OBVIOUS
  <1>5. /\ row \in AuditRow /\ row.by = p /\ row.tenant = t /\ row.actor = u /\ row.object = o
    BY <1>3, <1>4 DEF AuditRow
  <1>6. audit' = audit \cup {row} /\ object' = [object EXCEPT ![o] = new]
    BY <1>1, <1>2, <1>4 DEF Commit, RecordAudit
  <1>7. object \in [Object -> Things] /\ object'[o] = new /\ object' \in [Object -> Things]
    BY <1>6 DEF IInv, Shapes, Things
  <1>8. object[o].status # "absent" =>
           /\ object[o].status = "pending" /\ object[o].tenant = t /\ new.status \in {"posted", "failed"}
    BY <1>0, <1>1, Empty
  <1>9. Ran(p)
    <2>1. \A x \in Object : object'[x].status = "absent" => object'[x] = NoThing
      BY <1>6, <1>7 DEF IInv, Shapes
    <2>2. \A x \in Object : object[x].status # "absent" =>
             /\ object'[x].tenant = object[x].tenant
             /\ \/ object'[x].status = object[x].status
                \/ object[x].status = "pending" /\ object'[x].status \in {"posted", "failed"}
      BY <1>1, <1>6, <1>7, <1>8
    <2>3. \A q \in Request \ {p} : object[q] = NoThing => object'[q] = NoThing
      BY <1>6, <1>7, <1>8, Empty, Names
    <2>4. /\ audit' \subseteq AuditRow /\ audit \subseteq audit'
          /\ \A a \in audit' : a.by = p \/ a \in audit
      BY <1>5, <1>6 DEF IInv, TypeOK
    <2> QED
      BY <1>7, <2>1, <2>2, <2>3, <2>4 DEF Ran
  <1>10. AuditOK'
    <2> SUFFICES ASSUME NEW a \in audit'
                 PROVE  /\ a.actor # None => user'[a.actor].status # "absent" /\ user'[a.actor].tenant = a.tenant
                        /\ a.object # None =>
                              object'[a.object].status # "absent" /\ object'[a.object].tenant = a.tenant
      BY DEF AuditOK
    <2>1. CASE a = row
      BY <1>1, <1>3, <1>5, <1>7, <2>1
    <2>2. CASE a \in audit
      <3>1. /\ a.actor # None => user[a.actor].status # "absent" /\ user[a.actor].tenant = a.tenant
            /\ a.object # None => object[a.object].status # "absent" /\ object[a.object].tenant = a.tenant
        BY <2>2 DEF IInv, AuditOK
      <3>2. a.object # None => a.object \in Object
        BY <2>2 DEF IInv, TypeOK, AuditRow
      <3>3. \A x \in Object : object[x].status # "absent" =>
               object'[x].status # "absent" /\ object'[x].tenant = object[x].tenant
        BY <1>9 DEF Ran
      <3> QED
        BY <3>1, <3>2, <3>3
    <2> QED
      BY <1>6, <2>1, <2>2
  <1>11. Wrote(p)' = {row} /\ TenantOf(p)' = t
    BY <1>0, <1>1, <1>5, <1>6 DEF Wrote, TenantOf, Caller
  <1>12. PICK r : r \in {Reply(success, o, new.status, {}), Bare(422)} /\ draft' = [draft EXCEPT ![p] = r]
    BY DEF Commit
  <1>13. CASE r = Reply(success, o, new.status, {})
    <2>1. /\ r \in Replies /\ r.status = success /\ r.about = o /\ r.says = new.status /\ r.rows = {}
      BY <1>13 DEF Reply, Replies, Things
    <2>2. object'[o].status \in SinceThen(new.status)
      BY <1>7 DEF SinceThen
    <2>3. (call[p].arg # None /\ r.status \in {200, 409}) => call[p].arg = o
      OBVIOUS
    <2>4. GoodReply(p, r)'
      BY <1>1, <1>5, <1>7, <1>11, <2>1, <2>2, <2>3 DEF GoodReply
    <2> QED
      BY <1>9, <1>10, <1>12, <2>1, <2>4, HandlerKeeps
  <1>14. CASE r = Bare(422)
    <2>1. r \in Replies /\ r.status = 422 /\ r.about = None /\ r.rows = {}
      BY <1>14 DEF Bare, Reply, Replies
    <2>2. GoodReply(p, r)'
      BY <2>1 DEF GoodReply
    <2> QED
      BY <1>9, <1>10, <1>12, <2>1, <2>2, HandlerKeeps
  <1> QED
    BY <1>12, <1>13, <1>14

\* Serve, for the object of the request or a pending one of its tenant.
LEMMA ServeKeeps ==
    ASSUME IInv, NEW p \in Request, pc[p] = "handler", Goto(p, "respond"),
           UNCHANGED <<user, access, rec, call, stamp, answer, held, now>>,
           NEW o \in Object, NEW new \in Things, new.tenant = TenantOf(p), new.status # "absent",
           NEW success \in {200, 201},
           \/ o = p /\ call[p].arg = None
           \/ /\ o = call[p].arg /\ object[o].status = "pending" /\ object[o].tenant = TenantOf(p)
              /\ new.status \in {"posted", "failed"},
           NEW refusals \in SUBSET {400, 404, 409, 422}, Serve(p, o, new, success, refusals)
    PROVE  IInv'
  <1>1. CASE Commit(p, o, new, Reply(success, o, new.status, {}))
    BY <1>1, CommitKeeps
  <1>2. CASE Reject(p, Uncommitted(Reply(success, o, new.status, {}), refusals))
    <2>1. PICK r \in Uncommitted(Reply(success, o, new.status, {}), refusals) :
             draft' = [draft EXCEPT ![p] = r]
      BY <1>2 DEF Reject
    <2>2. PICK status \in {400, 404, 409, 422} : r = Bare(status)
      BY <2>1 DEF Uncommitted
    <2>3. UNCHANGED <<object, audit>>
      BY <1>2 DEF Reject, ledger
    <2>4. (call[p].arg # None /\ status = 409) =>
             object[call[p].arg].status # "absent" /\ object[call[p].arg].tenant = TenantOf(p)
      OBVIOUS
    <2>5. Unwritten(p)
      BY <2>3 DEF Unwritten
    <2>6. Refusal(p, r)
      BY <2>4, <2>2 DEF Refusal
    <2> QED
      BY <2>1, <2>5, <2>6, RejectKeeps
  <1> QED
    BY <1>1, <1>2 DEF Serve

\* The handlers that create an object.
LEMMA CreateKeeps ==
    ASSUME IInv, NEW p \in Request,
           TransferHandler(p) \/ CreateAccountHandler(p) \/ CreatePendingTransactionHandler(p)
    PROVE  IInv'
  <1>1. PICK kind \in {"account", "transaction"}, status \in {"open", "pending", "posted"},
             refusals \in SUBSET {400, 404, 409, 422} :
             Serve(p, p, Thing(TenantOf(p), kind, status), 201, refusals)
    <2>1. CASE TransferHandler(p)
      BY <2>1 DEF TransferHandler
    <2>2. CASE CreateAccountHandler(p)
      BY <2>2 DEF CreateAccountHandler
    <2>3. CASE CreatePendingTransactionHandler(p)
      BY <2>3 DEF CreatePendingTransactionHandler
    <2> QED
      BY <2>1, <2>2, <2>3
  <1>2. /\ pc[p] = "handler" /\ Goto(p, "respond") /\ call[p].route \in Creating
        /\ UNCHANGED <<user, access, rec, call, stamp, answer, held, now>>
    BY DEF TransferHandler, CreateAccountHandler, CreatePendingTransactionHandler, Handler,
           Creating, people, bounds
  <1>3. call[p].token # None /\ call[p] \in Menu /\ pc[p] # "idle"
    BY <1>2 DEF IInv, CallOK, Keyed, PastAdmit
  <1>4. call[p].arg = None
    BY <1>2, <1>3, ApiAssumption DEF Creating, Settling
  <1>5. PICK t : t = TenantOf(p)
    OBVIOUS
  <1>6. t \in Tenant
    BY <1>3, <1>5, CallerTenant
  <1>7. PICK new : new = Thing(t, kind, status)
    OBVIOUS
  <1>8. new \in Things /\ new.tenant = TenantOf(p) /\ new.status # "absent"
    BY <1>5, <1>6, <1>7 DEF Thing, Things, ObjectStatuses
  <1>9. Serve(p, p, new, 201, refusals)
    BY <1>1, <1>5, <1>7
  <1>10. p \in Object /\ 201 \in {200, 201}
    BY Names
  <1> QED
    BY <1>2, <1>4, <1>8, <1>9, <1>10, ServeKeeps

\* The handlers that settle a pending transaction.
LEMMA SettleKeeps ==
    ASSUME IInv, NEW p \in Request, PostPendingTransactionHandler(p) \/ FailPendingTransactionHandler(p)
    PROVE  IInv'
  <1>1. PICK status \in {"posted", "failed"}, refusals \in SUBSET {400, 404, 409, 422} :
             Settle(p, status, refusals)
    <2>1. CASE PostPendingTransactionHandler(p)
      BY <2>1 DEF PostPendingTransactionHandler
    <2>2. CASE FailPendingTransactionHandler(p)
      BY <2>2 DEF FailPendingTransactionHandler
    <2> QED
      BY <2>1, <2>2
  <1>2. /\ pc[p] = "handler" /\ Goto(p, "respond") /\ call[p].route \in Settling
        /\ UNCHANGED <<user, access, rec, call, stamp, answer, held, now>>
    BY DEF PostPendingTransactionHandler, FailPendingTransactionHandler, Handler, Settling, people, bounds
  <1>3. call[p].token # None /\ call[p] \in Menu /\ pc[p] # "idle"
    BY <1>2 DEF IInv, CallOK, Keyed, PastAdmit
  <1>4. PICK o : o = call[p].arg
    OBVIOUS
  <1>5. o \in Object /\ o # None
    BY <1>2, <1>3, <1>4, ApiAssumption, Names
  <1>6. PICK t : t = TenantOf(p)
    OBVIOUS
  <1>7. t \in Tenant
    BY <1>3, <1>6, CallerTenant
  <1>8. CASE Found(p, "transaction") /\ object[o].status = "pending"
    <2>1. object[o].tenant = t
      BY <1>4, <1>6, <1>8 DEF Found
    <2>2. PICK new : new = Thing(t, "transaction", status)
      OBVIOUS
    <2>3. /\ new \in Things /\ new.tenant = t /\ new.status # "absent" /\ new.status \in {"posted", "failed"}
      BY <1>7, <2>2 DEF Thing, Things, ObjectStatuses
    <2>4. Serve(p, o, new, 200, refusals)
      BY <1>1, <1>4, <1>6, <1>8, <2>2 DEF Settle
    <2>5. 200 \in {200, 201}
      OBVIOUS
    <2> QED
      BY <1>2, <1>4, <1>5, <1>6, <1>8, <2>1, <2>3, <2>4, <2>5, ServeKeeps
  <1>9. CASE ~(Found(p, "transaction") /\ object[o].status = "pending")
    <2>1. Reject(p, {Bare(IF Found(p, "transaction") THEN 409 ELSE 404), Bare(422)})
      BY <1>1, <1>4, <1>9 DEF Settle
    <2>2. PICK r \in {Bare(IF Found(p, "transaction") THEN 409 ELSE 404), Bare(422)} :
             draft' = [draft EXCEPT ![p] = r]
      BY <2>1, Zenon DEF Reject
    <2>3. PICK s \in {400, 404, 409, 422} : r = Bare(s) /\ (s = 409 => Found(p, "transaction"))
      <3>1. CASE Found(p, "transaction")
        BY <2>2, <3>1
      <3>2. CASE ~Found(p, "transaction")
        BY <2>2, <3>2
      <3> QED
        BY <3>1, <3>2, Zenon
    <2>4. UNCHANGED <<object, audit>>
      BY <2>1 DEF Reject, ledger
    <2>5. s = 409 => object[o].status # "absent" /\ object[o].tenant = TenantOf(p)
      BY <1>4, <1>5, <2>3 DEF Found, IInv, Shapes, NoThing, Thing
    <2>6. Unwritten(p)
      BY <1>2, <2>4 DEF Unwritten
    <2>7. (call[p].arg # None /\ s = 409) =>
             object[call[p].arg].status # "absent" /\ object[call[p].arg].tenant = TenantOf(p)
      BY <1>4, <2>5
    <2>8. Refusal(p, r)
      BY <2>3, <2>7 DEF Refusal
    <2>9. draft' = [draft EXCEPT ![p] = r]
      BY <2>2
    <2> QED
      BY <2>6, <2>8, <2>9, RejectKeeps, Zenon
  <1> QED
    BY <1>8, <1>9

-----------------------------------------------------------------------------
\* Users and tokens.
LEMMA RoleOfType ==
    ASSUME NEW b \in Call
    PROVE  RoleOf(b) \in Roles
  BY DEF RoleOf, Roles, RolePermissions, Call

\* A request that ends after changing users, tokens or the audit trail.
LEMMA EndsPlain ==
    ASSUME IInv, NEW p \in Request, pc[p] \in {"register", "issue", "logout"}, Goto(p, "done"),
           NEW status \in Nat, answer' = [answer EXCEPT ![p] = Answer("plain", None, Bare(status))],
           UNCHANGED <<object, rec, call, stamp, draft, held, now>>,
           NEW row \in AuditRow, audit' = audit \cup {row}, row.by = p, row.object = None,
           Still, TypeOK', Shapes', PeopleOK', AuditOK',
           \A u \in User : u # p => user'[u] = user[u], \A t \in Token : t # p => access'[t] = access[t]
    PROVE  IInv'
  <1>0. CallOK(p) /\ HeldOK(p)
    BY DEF IInv
  <1>1. pc' = [pc EXCEPT ![p] = "done"] /\ pc'[p] = "done" /\ \A q \in Request \ {p} : pc'[q] = pc[q]
    BY DEF Goto, IInv, TypeOK
  <1>2. answer'[p].kind = "plain" /\ \A q \in Request \ {p} : answer'[q] = answer[q]
    BY DEF IInv, Shapes, Answer
  <1>3. access[p] = NoClaims /\ user[p].status = "absent" /\ Wrote(p) = {}
    BY <1>0 DEF CallOK
  <1>4. Grows
    <2>1. \A u \in User : user[u].status # "absent" =>
             user'[u].status # "absent" /\ user'[u].tenant = user[u].tenant
      BY DEF Still
    <2>2. \A t \in Token : access[t] # NoClaims => access'[t] = access[t]
      BY <1>3
    <2>3. \A q \in Request : pc[q] \in {"respond", "complete", "done"} =>
             call'[q] = call[q] /\ \A a \in audit' : a.by = q => a \in audit
      OBVIOUS
    <2>4. \A q \in Request : /\ pc[q] = "done" => pc'[q] = "done"
                             /\ pc[q] = "complete" => pc'[q] \in {"complete", "done"}
      BY <1>1
    <2>5. RecGrows /\ now \in Nat
      BY SameRec DEF IInv, Shapes
    <2> QED
      BY <2>1, <2>2, <2>3, <2>4, <2>5 DEF Grows
  <1>5. Mine(p)
    <2> SUFFICES ASSUME NEW q \in Request \ {p} PROVE Apart(q)
      BY DEF Mine
    <2>1. user'[q] = user[q] /\ access'[q] = access[q]
      BY Names
    <2> QED
      BY <1>1, <1>2, <2>1 DEF Apart
  <1>6. RecOK'
    BY <1>4, RecKeeps
  <1>7. ~Served(p)' /\ Wrote(p)' = {row}
    BY <1>2, <1>3 DEF Served, Wrote
  <1>8. CallOK(p)'
    <2>1. call[p].token # None => call[p].token \in Token /\ access'[call[p].token] # NoClaims
      BY <1>0, <1>3 DEF CallOK, IInv, TypeOK, Call
    <2> QED
      BY <1>0, <1>1, <2>1 DEF CallOK, Keyed, PastAdmit
  <1>9. HeldOK(p)' /\ ClaimOK(p)' /\ AnswerOK(p)'
    BY <1>1, <1>7 DEF HeldOK, ClaimOK, AnswerOK, Keyed, PastAdmit
  <1> QED
    BY <1>4, <1>5, <1>6, <1>8, <1>9, Assemble

\* A new user belongs to the tenant of the API key.
LEMMA RegisterKeeps ==
    ASSUME IInv, NEW p \in Request, RequireTenantAPIKey(p) \/ RegisterHandler(p)
    PROVE  IInv'
  <1>0. CallOK(p) /\ pc[p] = "register"
    BY DEF IInv, RequireTenantAPIKey, RegisterHandler
  <1>1. CASE \E status \in {400, 401, 409, 422} : Refuse(p, status)
    BY <1>0, <1>1, RefuseKeeps
  <1>2. CASE /\ VerifyAPIKey(call[p])
             /\ user' = [user EXCEPT ![p] = Person(call[p].apiKey, RoleOf(call[p]), "active")]
             /\ RecordAudit(p, call[p].apiKey, None, None)
             /\ \E status \in {201, 422} : Return(p, Answer("plain", None, Bare(status)))
             /\ UNCHANGED <<access, object, rec, call, stamp, draft, held, bounds>>
    <2>1. PICK t : t = call[p].apiKey
      OBVIOUS
    <2>2. t \in Tenant /\ RoleOf(call[p]) \in Roles /\ p \in User
      BY <1>2, <2>1, RoleOfType, Names DEF VerifyAPIKey, IInv, TypeOK
    <2>3. PICK new : new = Person(t, RoleOf(call[p]), "active")
      OBVIOUS
    <2>4. new \in [tenant : Tenant, role : Roles, status : {"active", "disabled"}]
      BY <2>2, <2>3 DEF Person
    <2>5. /\ user' = [user EXCEPT ![p] = new] /\ user'[p] = new /\ user[p].status = "absent"
          /\ \A u \in User : u # p => user'[u] = user[u]
      BY <1>0, <1>2, <2>1, <2>2, <2>3 DEF CallOK, IInv, Shapes
    <2>6. PICK row : row = [by |-> p, tenant |-> t, actor |-> None, object |-> None]
      OBVIOUS
    <2>7. /\ row \in AuditRow /\ audit' = audit \cup {row}
          /\ row.by = p /\ row.actor = None /\ row.object = None
      BY <1>2, <2>1, <2>2, <2>6 DEF AuditRow, RecordAudit
    <2>8. PICK status \in Nat : Return(p, Answer("plain", None, Bare(status)))
      BY <1>2
    <2>9. /\ Goto(p, "done") /\ answer' = [answer EXCEPT ![p] = Answer("plain", None, Bare(status))]
          /\ UNCHANGED <<access, object, rec, call, stamp, draft, held, now>>
      BY <1>2, <2>8 DEF Return, bounds
    <2>10. Still
      BY <2>5 DEF Still
    <2>11. TypeOK'
      <3>1. \A u \in User : \/ user'[u] = Person(None, None, "absent")
                            \/ user'[u] \in [tenant : Tenant, role : Roles, status : {"active", "disabled"}]
        BY <2>4, <2>5 DEF IInv, TypeOK
      <3>2. audit' \subseteq AuditRow /\ pc' \in [Request -> Steps]
        BY <2>7, <2>9 DEF IInv, TypeOK, Goto, Steps
      <3> QED
        BY <2>9, <3>1, <3>2 DEF IInv, TypeOK
    <2>12. Shapes'
      <3>1. user' \in [User -> [tenant : Tenant \cup {None}, role : Roles \cup {None},
                                status : {"absent", "active", "disabled"}]]
        BY <2>4, <2>5 DEF IInv, Shapes
      <3>2. answer' \in [Request -> [kind : Kinds, by : Request \cup {None}, reply : Replies]]
        BY <2>8, <2>9 DEF IInv, Shapes, Answer, Bare, Reply, Replies, Kinds
      <3> QED
        BY <2>9, <3>1, <3>2 DEF IInv, Shapes
    <2>13. PeopleOK'
      <3>1. \A x \in Token : access[x] # NoClaims => access[x].user \in User
        BY DEF IInv, TypeOK
      <3> QED
        BY <2>9, <2>10, <3>1 DEF IInv, PeopleOK, Still
    <2>14. AuditOK'
      <3>1. \A a \in audit : a.actor # None => a.actor \in User
        BY DEF IInv, TypeOK, AuditRow
      <3> QED
        BY <2>7, <2>9, <2>10, <3>1 DEF IInv, AuditOK, Still
    <2>15. pc[p] \in {"register", "issue", "logout"} /\ \A x \in Token : x # p => access'[x] = access[x]
      BY <1>0, <2>9
    <2> QED
      BY <2>5, <2>7, <2>9, <2>10, <2>11, <2>12, <2>13, <2>14, <2>15, EndsPlain
  <1> QED
    BY <1>1, <1>2 DEF RequireTenantAPIKey, RegisterHandler

\* The user who logs in is active, with a role.
LEMMA CheckUserKeeps ==
    ASSUME IInv, NEW p \in Request, CheckUser(p)
    PROVE  IInv'
  <1>0. CallOK(p) /\ HeldOK(p) /\ pc[p] = "credentials"
    BY DEF IInv, CheckUser
  <1>1. CASE \E status \in {400, 401, 403} : Refuse(p, status)
    BY <1>0, <1>1, RefuseKeeps
  <1>2. CASE /\ MayLogIn(call[p].user)
             /\ draft' = [draft EXCEPT ![p] = Reply(200, None, user[call[p].user].role, {})]
             /\ Goto(p, "issue")
             /\ UNCHANGED <<people, ledger, rec, call, stamp, answer, held, bounds>>
    <2>1. /\ UNCHANGED <<user, access, object, audit, rec, call, stamp, answer, held, now>>
          /\ pc' = [pc EXCEPT ![p] = "issue"] /\ pc'[p] = "issue" /\ "issue" \in Steps
      BY <1>2 DEF people, ledger, bounds, Goto, IInv, TypeOK, Steps
    <2>2. PICK u : u = call[p].user
      OBVIOUS
    <2>3. u \in User /\ user[u].status = "active"
      BY <1>0, <1>2, <2>2, ApiAssumption DEF CallOK, MayLogIn
    <2>4. user[u].role \in Roles
      BY <2>3 DEF IInv, TypeOK, Person
    <2>5. PICK r : r = Reply(200, None, user[u].role, {})
      OBVIOUS
    <2>6. r \in Replies /\ r.says \in Roles
      BY <2>4, <2>5 DEF Reply, Replies
    <2>7. draft' = [draft EXCEPT ![p] = r] /\ draft'[p] = r /\ draft' \in [Request -> Replies]
      BY <1>2, <2>2, <2>5, <2>6 DEF IInv, Shapes
    <2>8. Solo(p)
      <3>1. \A q \in Request \ {p} : pc'[q] = pc[q] /\ draft'[q] = draft[q]
        BY <2>1, <2>7 DEF IInv, TypeOK, Shapes
      <3> QED
        BY <1>0, <2>1, <3>1 DEF Solo
    <2>9. Grows /\ Still /\ Mine(p) /\ PeopleOK' /\ AuditOK'
      BY <2>1, <2>8, SameRec, SoloGrows
    <2>10. RecOK'
      BY <2>1, <2>9, RecKeeps
    <2>11. TypeOK' /\ Shapes'
      BY <2>1, <2>7, <2>8, SoloTypes DEF IInv, TypeOK, Shapes, Answers
    <2>12. Wrote(p)' = {} /\ ~Served(p)'
      BY <1>0, <2>1 DEF CallOK, Wrote, Served
    <2>13. CallOK(p)'
      BY <1>0, <2>1, <2>2, <2>3, <2>6, <2>7, <2>12 DEF CallOK, Keyed, PastAdmit
    <2>14. HeldOK(p)' /\ ClaimOK(p)' /\ AnswerOK(p)'
      BY <2>1, <2>12 DEF HeldOK, ClaimOK, AnswerOK, Keyed, PastAdmit
    <2> QED
      BY <2>9, <2>10, <2>11, <2>13, <2>14, Assemble
  <1> QED
    BY <1>1, <1>2 DEF CheckUser

\* The claims of a new token are those of the user's row.
LEMMA IssueTokenKeeps ==
    ASSUME IInv, NEW p \in Request, IssueToken(p)
    PROVE  IInv'
  <1>0. /\ CallOK(p) /\ pc[p] = "issue"
        /\ UNCHANGED <<user, object, rec, call, stamp, draft, held, now>>
    BY DEF IInv, IssueToken, bounds
  <1>1. PICK u : u = call[p].user
    OBVIOUS
  <1>2. u \in User /\ user[u].status # "absent" /\ draft[p].says \in Roles
    BY <1>0, <1>1, ApiAssumption DEF CallOK
  <1>3. PICK t : t = user[u].tenant
    OBVIOUS
  <1>4. t \in Tenant
    BY <1>2, <1>3 DEF IInv, TypeOK, Person
  <1>5. PICK row : row = [by |-> p, tenant |-> t, actor |-> u, object |-> None]
    OBVIOUS
  <1>6. /\ row \in AuditRow /\ audit' = audit \cup {row}
        /\ row.by = p /\ row.actor = u /\ row.tenant = t /\ row.object = None
    BY <1>1, <1>2, <1>3, <1>4, <1>5 DEF AuditRow, RecordAudit, IssueToken
  <1>7. PICK status \in Nat : Return(p, Answer("plain", None, Bare(status)))
    BY DEF IssueToken
  <1>8. Goto(p, "done") /\ answer' = [answer EXCEPT ![p] = Answer("plain", None, Bare(status))]
    BY <1>7 DEF Return
  <1>9. PICK c : c = Claims(u, t, draft[p].says, now + AccessTTL)
    OBVIOUS
  <1>10. /\ c \in [user : User, tenant : Tenant, role : Roles, exp : Nat] /\ c.user = u /\ c.tenant = t
    <2>1. now + AccessTTL \in Nat
      BY ApiAssumption DEF IInv, Shapes
    <2> QED
      BY <1>2, <1>4, <1>9, <2>1 DEF Claims
  <1>11. \/ access' = [access EXCEPT ![p] = c]
         \/ access' = access
    BY <1>1, <1>3, <1>9 DEF IssueToken
  <1>12. /\ p \in Token /\ \A x \in Token : x # p => access'[x] = access[x]
         /\ access'[p] = c \/ access'[p] = NoClaims
         /\ access' \in [Token -> [user : User \cup {None}, tenant : Tenant \cup {None},
                                   role : Roles \cup {None}, exp : Nat]]
    <2>1. access \in [Token -> [user : User \cup {None}, tenant : Tenant \cup {None},
                                role : Roles \cup {None}, exp : Nat]]
      BY DEF IInv, Shapes
    <2>2. p \in Token /\ access[p] = NoClaims
      BY <1>0, Names DEF CallOK
    <2>3. c \in [user : User \cup {None}, tenant : Tenant \cup {None}, role : Roles \cup {None}, exp : Nat]
      BY <1>10
    <2> QED
      BY <1>11, <2>1, <2>2, <2>3
  <1>13. Still
    BY <1>0 DEF Still
  <1>14. TypeOK'
    <2>1. \A x \in Token : \/ access'[x] = NoClaims
                           \/ access'[x] \in [user : User, tenant : Tenant, role : Roles, exp : Nat]
      BY <1>10, <1>12 DEF IInv, TypeOK
    <2>2. audit' \subseteq AuditRow /\ pc' \in [Request -> Steps]
      BY <1>6, <1>8 DEF IInv, TypeOK, Goto, Steps
    <2> QED
      BY <1>0, <2>1, <2>2 DEF IInv, TypeOK
  <1>15. Shapes'
    <2>1. answer' \in [Request -> [kind : Kinds, by : Request \cup {None}, reply : Replies]]
      BY <1>7, <1>8 DEF IInv, Shapes, Answer, Bare, Reply, Replies, Kinds
    <2> QED
      BY <1>0, <1>12, <2>1 DEF IInv, Shapes
  <1>16. PeopleOK'
    BY <1>0, <1>2, <1>3, <1>10, <1>12 DEF IInv, PeopleOK
  <1>17. AuditOK'
    BY <1>0, <1>2, <1>3, <1>6 DEF IInv, AuditOK
  <1>18. pc[p] \in {"register", "issue", "logout"} /\ \A x \in User : x # p => user'[x] = user[x]
    BY <1>0
  <1> QED
    BY <1>0, <1>6, <1>8, <1>12, <1>13, <1>14, <1>15, <1>16, <1>17, <1>18, EndsPlain

\* A rotation that came too late ends the request.
LEMMA RotationRefusedKeeps ==
    ASSUME IInv, NEW p \in Request, RotationRefused(p)
    PROVE  IInv'
  BY RefuseKeeps DEF RotationRefused

\* A logout leaves the audit row of a user who has been sent a token.
LEMMA LogoutKeeps ==
    ASSUME IInv, NEW p \in Request, LogoutHandler(p)
    PROVE  IInv'
  <1>0. CallOK(p) /\ pc[p] = "logout"
    BY DEF IInv, LogoutHandler
  <1>1. CASE \E status \in {400, 401} : Refuse(p, status)
    BY <1>0, <1>1, RefuseKeeps
  <1>2. CASE /\ HasRefreshToken(call[p].user)
             /\ RecordAudit(p, user[call[p].user].tenant, call[p].user, None)
             /\ \E status \in {204, 422} : Return(p, Answer("plain", None, Bare(status)))
             /\ UNCHANGED <<people, object, rec, call, stamp, draft, held, bounds>>
    <2>1. PICK u : u = call[p].user
      OBVIOUS
    <2>2. u \in User
      BY <1>0, <2>1, ApiAssumption DEF CallOK
    <2>3. PICK t : t = user[u].tenant
      OBVIOUS
    <2>4. user[u].status # "absent" /\ t \in Tenant
      <3>1. PICK x \in Token : access[x].user = u
        BY <1>2, <2>1 DEF HasRefreshToken
      <3>2. access[x] # NoClaims
        BY <2>2, <3>1, Names, Empty
      <3> QED
        BY <2>2, <2>3, <3>1, <3>2 DEF IInv, PeopleOK, TypeOK, Person
    <2>5. PICK row : row = [by |-> p, tenant |-> t, actor |-> u, object |-> None]
      OBVIOUS
    <2>6. /\ row \in AuditRow /\ audit' = audit \cup {row}
          /\ row.by = p /\ row.actor = u /\ row.tenant = t /\ row.object = None
      BY <1>2, <2>1, <2>2, <2>3, <2>4, <2>5 DEF AuditRow, RecordAudit
    <2>7. PICK status \in Nat : Return(p, Answer("plain", None, Bare(status)))
      BY <1>2
    <2>8. /\ Goto(p, "done") /\ answer' = [answer EXCEPT ![p] = Answer("plain", None, Bare(status))]
          /\ UNCHANGED <<user, access, object, rec, call, stamp, draft, held, now>>
      BY <1>2, <2>7 DEF Return, people, bounds
    <2>9. Still
      BY <2>8 DEF Still
    <2>10. TypeOK'
      <3>1. audit' \subseteq AuditRow /\ pc' \in [Request -> Steps]
        BY <2>6, <2>8 DEF IInv, TypeOK, Goto, Steps
      <3> QED
        BY <2>8, <3>1 DEF IInv, TypeOK
    <2>11. Shapes'
      <3>1. answer' \in [Request -> [kind : Kinds, by : Request \cup {None}, reply : Replies]]
        BY <2>7, <2>8 DEF IInv, Shapes, Answer, Bare, Reply, Replies, Kinds
      <3> QED
        BY <2>8, <3>1 DEF IInv, Shapes
    <2>12. PeopleOK'
      BY <2>8 DEF IInv, PeopleOK
    <2>13. AuditOK'
      BY <2>3, <2>4, <2>6, <2>8 DEF IInv, AuditOK
    <2>14. /\ pc[p] \in {"register", "issue", "logout"}
           /\ \A x \in User : x # p => user'[x] = user[x]
           /\ \A x \in Token : x # p => access'[x] = access[x]
      BY <1>0, <2>8
    <2> QED
      BY <2>6, <2>8, <2>9, <2>10, <2>11, <2>12, <2>13, <2>14, EndsPlain
  <1> QED
    BY <1>1, <1>2 DEF LogoutHandler

-----------------------------------------------------------------------------
\* An edit of a user's row: held takes in whoever may act from now on.
LEMMA EditKeeps ==
    ASSUME IInv, NEW u \in User, NEW row \in [tenant : Tenant, role : Roles, status : {"active", "disabled"}],
           row.tenant = user[u].tenant, Edit(u, row)
    PROVE  IInv'
  <1>0. /\ user[u].status # "absent" /\ user' = [user EXCEPT ![u] = row]
        /\ UNCHANGED <<access, object, audit, rec, pc, call, stamp, draft, answer, now>>
        /\ held' = held \cup { p \in Request : /\ InFlight(p) /\ Caller(p).user = u
                                               /\ Allows(row.role, call[p].route) }
    BY DEF Edit, ledger
  <1>1. user'[u] = row /\ \A x \in User : x # u => user'[x] = user[x]
    BY <1>0 DEF IInv, Shapes
  <1>2. Grows
    <2>1. \A x \in User : user[x].status # "absent" =>
             user'[x].status # "absent" /\ user'[x].tenant = user[x].tenant
      BY <1>1
    <2>2. RecGrows /\ now \in Nat
      BY <1>0, SameRec DEF IInv, Shapes
    <2> QED
      BY <1>0, <2>1, <2>2 DEF Grows
  <1>3. ASSUME NEW q \in Request PROVE Apart(q)
    <2>1. user[q].status = "absent" => user'[q].status = "absent"
      BY <1>0, <1>1, Names
    <2> QED
      BY <1>0, <2>1 DEF Apart
  <1>4. ASSUME NEW q \in Request PROVE HeldOK(q)'
    <2>0. HeldOK(q) /\ CallOK(q) /\ held \subseteq held'
      BY <1>0 DEF IInv
    <2>1. ASSUME pc[q] = "admit", call[q].token # None,
                 Allows(user'[access[call[q].token].user].role, call[q].route)
          PROVE  q \in held'
      <3>1. PICK x : x = access[call[q].token].user
        OBVIOUS
      <3>2. Caller(q) = access[call[q].token]
        BY <2>1 DEF Caller
      <3>3. x \in User
        BY <2>0, <2>1, <3>1 DEF CallOK, IInv, TypeOK, Call
      <3>4. CASE x = u
        BY <1>0, <1>1, <2>1, <3>1, <3>2, <3>4 DEF InFlight
      <3>5. CASE x # u
        BY <1>1, <2>0, <2>1, <3>1, <3>3, <3>5 DEF HeldOK
      <3> QED
        BY <3>4, <3>5
    <2>2. Wrote(q)' = Wrote(q) /\ Served(q)' = Served(q)
      BY <1>0 DEF Wrote, Served
    <2>3. /\ pc'[q] \in PastAdmit => q \in held'
          /\ (\E a \in Wrote(q)' : a.object # None) => q \in held'
          /\ (Served(q)' /\ answer'[q].reply.status < 300) => q \in held'
      BY <1>0, <2>0, <2>2 DEF HeldOK
    <2>4. (pc'[q] = "admit" /\ call'[q].token # None) =>
             (Allows(user'[access'[call'[q].token].user].role, call'[q].route) => q \in held')
      BY <1>0, <2>1
    <2> QED
      BY <2>3, <2>4 DEF HeldOK
  <1>5. TypeOK'
    <2>1. held' \subseteq Request
      BY <1>0 DEF IInv, TypeOK
    <2>2. \A x \in User : \/ user'[x] = Person(None, None, "absent")
                          \/ user'[x] \in [tenant : Tenant, role : Roles, status : {"active", "disabled"}]
      BY <1>1 DEF IInv, TypeOK
    <2> QED
      BY <1>0, <2>1, <2>2 DEF IInv, TypeOK
  <1>6. Shapes'
    <2>1. user' \in [User -> [tenant : Tenant \cup {None}, role : Roles \cup {None},
                              status : {"absent", "active", "disabled"}]]
      BY <1>0 DEF IInv, Shapes
    <2> QED
      BY <1>0, <2>1 DEF IInv, Shapes
  <1>7. PeopleOK'
    <2>1. \A x \in Token : access[x] # NoClaims => access[x].user \in User
      BY DEF IInv, TypeOK
    <2> QED
      BY <1>0, <1>2, <2>1 DEF IInv, PeopleOK, Grows
  <1>8. AuditOK'
    <2>1. \A a \in audit : a.actor # None => a.actor \in User
      BY DEF IInv, TypeOK, AuditRow
    <2> QED
      BY <1>0, <1>2, <2>1 DEF IInv, AuditOK, Grows
  <1>9. RecOK'
    BY <1>0, <1>2, RecKeeps
  <1>10. ASSUME NEW q \in Request PROVE CallOK(q)' /\ ClaimOK(q)' /\ AnswerOK(q)'
    BY <1>2, <1>3, OthersKeep
  <1> QED
    BY <1>4, <1>5, <1>6, <1>7, <1>8, <1>9, <1>10 DEF IInv

\* Time passes, or nothing happens.
LEMMA TickKeeps ==
    ASSUME IInv, Tick \/ UNCHANGED vars
    PROVE  IInv'
  <1>0. /\ UNCHANGED <<user, access, object, audit, rec, pc, call, stamp, draft, answer, held>>
        /\ now' \in Nat /\ now <= now'
    BY DEF Tick, vars, people, ledger, bounds, IInv, Shapes
  <1>1. Grows
    <2>1. RecGrows
      BY <1>0, SameRec
    <2> QED
      BY <1>0, <2>1 DEF Grows
  <1>2. Still /\ \A q \in Request : Apart(q)
    BY <1>0 DEF Still, Apart
  <1>3. TypeOK' /\ Shapes'
    BY <1>0 DEF IInv, TypeOK, Shapes
  <1>4. PeopleOK' /\ AuditOK'
    BY <1>0 DEF IInv, PeopleOK, AuditOK
  <1>5. RecOK'
    BY <1>0, <1>1, RecKeeps
  <1>6. ASSUME NEW q \in Request PROVE CallOK(q)' /\ HeldOK(q)' /\ ClaimOK(q)' /\ AnswerOK(q)'
    BY <1>1, <1>2, OthersKeep, HeldKeeps
  <1> QED
    BY <1>3, <1>4, <1>5, <1>6 DEF IInv

\* The edits of an operator.
LEMMA OperatorKeeps ==
    ASSUME IInv, NEW u \in User, SetStatus(u) \/ \E role \in Roles : SetRole(u, role)
    PROVE  IInv'
  <1>1. user[u].status # "absent"
    BY DEF SetStatus, SetRole, Edit
  <1>2. user[u] \in [tenant : Tenant, role : Roles, status : {"active", "disabled"}]
    BY <1>1 DEF IInv, TypeOK, Person
  <1>3. CASE SetStatus(u)
    <2>1. PICK row : row = [user[u] EXCEPT !.status = IF @ = "active" THEN "disabled" ELSE "active"]
      OBVIOUS
    <2>2. /\ row \in [tenant : Tenant, role : Roles, status : {"active", "disabled"}]
          /\ row.tenant = user[u].tenant
      BY <1>2, <2>1
    <2>3. Edit(u, row)
      BY <1>3, <2>1 DEF SetStatus
    <2> QED
      BY <2>2, <2>3, EditKeeps
  <1>4. ASSUME NEW role \in Roles, SetRole(u, role) PROVE IInv'
    <2>1. PICK row : row = [user[u] EXCEPT !.role = role]
      OBVIOUS
    <2>2. /\ row \in [tenant : Tenant, role : Roles, status : {"active", "disabled"}]
          /\ row.tenant = user[u].tenant
      BY <1>2, <2>1
    <2>3. Edit(u, row)
      BY <1>4, <2>1 DEF SetRole
    <2> QED
      BY <2>2, <2>3, EditKeeps
  <1> QED
    BY <1>3, <1>4

\* Every action preserves the invariant.
LEMMA NextPreserves == IInv /\ [Next]_vars => IInv'
  <1> SUFFICES ASSUME IInv, [Next]_vars PROVE IInv'
    OBVIOUS
  <1>1. ASSUME NEW p \in Request, Step(p) PROVE IInv'
    BY <1>1, AdmitKeeps, ClaimKeeps, GetExistingKeeps, CompleteKeeps, CreateKeeps, SettleKeeps,
       RespondKeeps, ReadKeeps, RegisterKeeps, CheckUserKeeps, IssueTokenKeeps, FaultKeeps,
       RotationRefusedKeeps, LogoutKeeps, ClaimUnacknowledgedKeeps DEF Step
  <1>2. ASSUME NEW p \in Request, NEW b \in Menu, Receive(p, b) PROVE IInv'
    BY <1>2, ReceiveKeeps
  <1>3. ASSUME NEW u \in User, SetStatus(u) \/ \E role \in Roles : SetRole(u, role) PROVE IInv'
    BY <1>3, OperatorKeeps
  <1>4. CASE Tick \/ UNCHANGED vars
    BY <1>4, TickKeeps
  <1> QED
    BY <1>1, <1>2, <1>3, <1>4 DEF Next

\* The invariant holds in every state of every behaviour of the edge.
THEOREM InductiveInvariant == Spec => []IInv
  BY InitEstablishes, NextPreserves, PTL DEF Spec

\* Users, claims, audit rows, idempotency rows and requests keep their types.
THEOREM TypeCorrect == Spec => []TypeOK
  <1>1. IInv => TypeOK
    BY DEF IInv
  <1> QED
    BY <1>1, InductiveInvariant, PTL

\* Whoever wrote an object or got a success, replayed or not, had a role with
\* the permission at some moment since the request arrived.
THEOREM EffectsNeedPermission == Spec => []NeedsPermission
  <1>1. IInv => NeedsPermission
    BY DEF IInv, HeldOK, NeedsPermission
  <1> QED
    BY <1>1, InductiveInvariant, PTL

\* Neither a token, an id in a path nor a shared key reaches another tenant.
THEOREM TenantsStaySeparate == Spec => []TenantsAreSeparate
  <1>1. IInv => TenantsAreSeparate
    <2> SUFFICES ASSUME IInv PROVE TenantsAreSeparate
      OBVIOUS
    <2>1. \A a \in audit : /\ a.actor # None => user[a.actor].tenant = a.tenant
                           /\ a.object # None => object[a.object].tenant = a.tenant
      BY DEF IInv, AuditOK
    <2>2. ASSUME NEW p \in Request, Served(p)
          PROVE  /\ answer[p].reply.about # None => object[answer[p].reply.about].tenant = TenantOf(p)
                 /\ \A a \in answer[p].reply.rows : a.tenant = TenantOf(p)
                 /\ (call[p].arg # None /\ object[call[p].arg].tenant # TenantOf(p)) =>
                       answer[p].reply.status \notin {200, 409}
      <3>1. PICK b : b = answer[p].by
        OBVIOUS
      <3>2. /\ HashOf(b) = HashOf(p) /\ TenantOf(b) = TenantOf(p) /\ GoodReply(b, answer[p].reply)
        BY <2>2, <3>1 DEF IInv, AnswerOK
      <3>3. call[b].arg = call[p].arg
        BY <3>2 DEF HashOf
      <3> QED
        BY <3>2, <3>3 DEF GoodReply
    <2> QED
      BY <2>1, <2>2 DEF TenantsAreSeparate
  <1> QED
    BY <1>1, InductiveInvariant, PTL

\* What a client is told, at first hand or replayed, stays true.
THEOREM AnswersStayTrue == Spec => []AnswersHoldTrue
  <1>1. IInv => AnswersHoldTrue
    <2> SUFFICES ASSUME IInv, NEW p \in Request, Served(p), NEW b, b = answer[p].by,
                        NEW r, r = answer[p].reply
                 PROVE  /\ HashOf(b) = HashOf(p)
                        /\ r.about # None => object[r.about].status \in SinceThen(r.says)
                        /\ (r.status < 300 /\ call[p].route \in Mutating) =>
                              \E a \in Wrote(b) : a.object = r.about
                        /\ r.status \in {400, 404, 409} => Wrote(b) = {}
      BY DEF AnswersHoldTrue
    <2>1. HashOf(b) = HashOf(p) /\ GoodReply(b, r)
      BY DEF IInv, AnswerOK
    <2>2. call[b].route = call[p].route
      BY <2>1 DEF HashOf
    <2> QED
      BY <2>1, <2>2 DEF GoodReply
  <1> QED
    BY <1>1, InductiveInvariant, PTL

-----------------------------------------------------------------------------
\* Where a step of p that issues no token may take it.
Onward(p) ==
    /\ UNCHANGED <<access, call, now>>
    /\ \E step : /\ pc' = [pc EXCEPT ![p] = step]
                 /\ \/ step = "done"
                    \/ /\ InFlight(p) /\ (pc[p] = "admit" => Authenticated(p))
                       /\ step = "issue" => user[call[p].user].status = "active"
    /\ audit \subseteq audit'
    /\ \A a \in audit' : \/ a \in audit \/ a.actor = None
                         \/ pc[p] = "handler" /\ a.actor = Caller(p).user
                         \/ call[a.by].route = "logout"

\* Every step of a request but IssueToken is of that kind.
LEMMA StepsOnward ==
    ASSUME IInv, NEW p \in Request, Step(p), ~IssueToken(p)
    PROVE  Onward(p)
  <1>1. ASSUME NEW status, Refuse(p, status) PROVE Onward(p)
    BY <1>1 DEF Refuse, Return, Goto, Onward, people, ledger, bounds
  <1>2. CASE Admit(p)
    <2>1. ASSUME Authenticated(p), NEW step \in {"read", "claim"}, Goto(p, step),
                 UNCHANGED <<people, ledger, call, bounds>>
          PROVE  Onward(p)
      <3>1. InFlight(p) /\ step # "issue" /\ pc' = [pc EXCEPT ![p] = step]
        BY <1>2, <2>1 DEF Admit, Goto, InFlight
      <3>2. UNCHANGED <<access, call, now, audit>>
        BY <2>1 DEF people, ledger, bounds
      <3> QED
        BY <2>1, <3>1, <3>2 DEF Onward
    <2> QED
      BY <1>1, <1>2, <2>1 DEF Admit
  <1>3. CASE Claim(p) \/ Respond(p)
    BY <1>3 DEF Claim, Respond, Goto, Onward, InFlight, people, ledger, bounds
  <1>4. CASE GetExisting(p) \/ Complete(p) \/ GetAccountHandler(p) \/ GetTransactionHandler(p) \/ AuditLogHandler(p)
    BY <1>4 DEF GetExisting, Complete, GetAccountHandler, GetTransactionHandler, AuditLogHandler,
                ReadHandler, Return, Goto, Onward, people, ledger, bounds
  <1>5. CASE QueryFails(p) \/ ClaimUnacknowledged(p) \/ Panic(p) \/ Crash(p)
    BY <1>5 DEF QueryFails, ClaimUnacknowledged, Panic, Crash, Return, Goto, Onward, people, ledger
  <1>6. CASE RequireTenantAPIKey(p) \/ RegisterHandler(p)
    <2>1. CASE /\ RecordAudit(p, call[p].apiKey, None, None) /\ Goto(p, "done")
               /\ UNCHANGED <<access, call, bounds>>
      <3>1. audit \subseteq audit' /\ \A a \in audit' : a \in audit \/ a.actor = None
        BY <2>1 DEF RecordAudit
      <3>2. UNCHANGED <<access, call, now>> /\ pc' = [pc EXCEPT ![p] = "done"]
        BY <2>1 DEF Goto, bounds
      <3> QED
        BY <3>1, <3>2, Zenon DEF Onward
    <2> QED
      BY <1>1, <1>6, <2>1 DEF RequireTenantAPIKey, RegisterHandler, Return
  <1>7. CASE CheckUser(p)
    <2>1. CASE /\ MayLogIn(call[p].user) /\ Goto(p, "issue") /\ UNCHANGED <<people, ledger, call, bounds>>
      BY <1>7, <2>1 DEF CheckUser, MayLogIn, Goto, Onward, InFlight, people, ledger, bounds
    <2> QED
      BY <1>1, <1>7, <2>1 DEF CheckUser
  <1>8. CASE \/ TransferHandler(p) \/ CreateAccountHandler(p) \/ CreatePendingTransactionHandler(p)
             \/ PostPendingTransactionHandler(p) \/ FailPendingTransactionHandler(p)
    <2>1. pc[p] = "handler" /\ Goto(p, "respond") /\ UNCHANGED <<access, call, now>>
      BY <1>8 DEF TransferHandler, CreateAccountHandler, CreatePendingTransactionHandler,
                  PostPendingTransactionHandler, FailPendingTransactionHandler, Handler, people, bounds
    <2>2. \/ audit' = audit
          \/ \E o : RecordAudit(p, TenantOf(p), Caller(p).user, o)
      <3>1. ASSUME NEW o, NEW new, NEW success, NEW refusals, Serve(p, o, new, success, refusals)
            PROVE  audit' = audit \/ RecordAudit(p, TenantOf(p), Caller(p).user, o)
        BY <3>1 DEF Serve, Commit, Reject, ledger
      <3>2. ASSUME NEW status, NEW refusals, Settle(p, status, refusals)
            PROVE  audit' = audit \/ \E o : RecordAudit(p, TenantOf(p), Caller(p).user, o)
        BY <3>1, <3>2 DEF Settle, Reject, ledger
      <3>3. CASE TransferHandler(p)
        BY <3>1, <3>3 DEF TransferHandler
      <3>4. CASE CreateAccountHandler(p)
        BY <3>1, <3>4 DEF CreateAccountHandler
      <3>5. CASE CreatePendingTransactionHandler(p)
        BY <3>1, <3>5 DEF CreatePendingTransactionHandler
      <3>6. CASE PostPendingTransactionHandler(p)
        BY <3>2, <3>6 DEF PostPendingTransactionHandler
      <3>7. CASE FailPendingTransactionHandler(p)
        BY <3>2, <3>7 DEF FailPendingTransactionHandler
      <3> QED
        BY <1>8, <3>3, <3>4, <3>5, <3>6, <3>7
    <2>3. audit \subseteq audit' /\ \A a \in audit' : a \in audit \/ a.actor = Caller(p).user
      BY <2>2 DEF RecordAudit
    <2>4. InFlight(p) /\ pc[p] = "handler" /\ pc' = [pc EXCEPT ![p] = "respond"]
      BY <2>1 DEF Goto, InFlight
    <2>5. UNCHANGED <<access, call, now>>
      BY <2>1
    <2>6. \E step : /\ pc' = [pc EXCEPT ![p] = step]
                    /\ \/ step = "done"
                       \/ /\ InFlight(p) /\ (pc[p] = "admit" => Authenticated(p))
                          /\ step = "issue" => user[call[p].user].status = "active"
      <3>1. pc[p] # "admit" /\ "respond" # "issue"
        BY <2>4
      <3> QED
        BY <2>4, <3>1, Zenon
    <2> QED
      BY <2>3, <2>4, <2>5, <2>6, Zenon DEF Onward
  <1>9. CASE RotationRefused(p) \/ LogoutHandler(p)
    <2>1. CASE /\ RecordAudit(p, user[call[p].user].tenant, call[p].user, None) /\ Goto(p, "done")
               /\ pc[p] = "logout" /\ UNCHANGED <<people, call, bounds>>
      <3>1. call[p].route = "logout"
        BY <2>1 DEF IInv, CallOK
      <3>2. audit \subseteq audit' /\ \A a \in audit' : a \in audit \/ call[a.by].route = "logout"
        BY <2>1, <3>1 DEF RecordAudit
      <3>3. UNCHANGED <<access, call, now>> /\ pc' = [pc EXCEPT ![p] = "done"]
        BY <2>1 DEF Goto, people, bounds
      <3> QED
        BY <3>2, <3>3, Zenon DEF Onward
    <2> QED
      BY <1>1, <1>9, <2>1 DEF RotationRefused, LogoutHandler, Return
  <1> QED
    BY <1>2, <1>3, <1>4, <1>5, <1>6, <1>7, <1>8, <1>9 DEF Step

\* What a step leaves to show of a user that is locked out.
StaysOut(u) == LockedOut(u)' /\ Acts(u)' = Acts(u)

\* Such a step does nothing for a user who is locked out.
LEMMA OnwardStaysOut ==
    ASSUME IInv, NEW p \in Request, Onward(p), NEW u \in User, LockedOut(u), user'[u].status = "disabled"
    PROVE  StaysOut(u)
  <1>0. UNCHANGED <<access, call, now>> /\ u # None /\ pc \in [Request -> Steps]
    BY Names DEF Onward, IInv, TypeOK
  <1>1. PICK step : /\ pc' = [pc EXCEPT ![p] = step]
                    /\ \/ step = "done"
                       \/ /\ InFlight(p) /\ (pc[p] = "admit" => Authenticated(p))
                          /\ step = "issue" => user[call[p].user].status = "active"
    BY DEF Onward
  <1>2. \A q \in Request : Caller(q)' = Caller(q)
    BY <1>0 DEF Caller
  <1>3. \A t \in Token : Valid(t)' => access'[t].user # u
    BY <1>0 DEF Valid, LockedOut
  <1>4. ASSUME NEW q \in Request, InFlight(q)'
        PROVE  /\ pc'[q] = "issue" => call'[q].user # u
               /\ Caller(q)'.user = u => pc'[q] = "admit"
    <2>1. CASE q # p
      BY <1>0, <1>1, <1>2, <1>4, <2>1 DEF LockedOut, InFlight
    <2>2. CASE q = p
      <3>1. pc'[p] = step /\ step # "done"
        BY <1>0, <1>1, <1>4, <2>2 DEF InFlight
      <3>2. Caller(p).user # u
        <4>1. CASE pc[p] = "admit"
          <5>1. call[p].token # None /\ call[p].token \in Token /\ Valid(call[p].token)
            BY <1>1, <3>1, <4>1 DEF Authenticated, Valid, IInv, TypeOK, Call
          <5>2. access[call[p].token].user # u
            BY <5>1 DEF LockedOut
          <5> QED
            BY <5>1, <5>2 DEF Caller
        <4>2. CASE pc[p] # "admit"
          BY <1>1, <3>1, <4>2 DEF LockedOut
        <4> QED
          BY <4>1, <4>2
      <3>3. step = "issue" => call[p].user # u
        BY <1>1, <3>1 DEF LockedOut
      <3> QED
        BY <1>0, <1>2, <2>2, <3>1, <3>2, <3>3
    <2> QED
      BY <2>1, <2>2
  <1>5. LockedOut(u)'
    BY <1>3, <1>4 DEF LockedOut
  <1>6. pc[p] = "handler" => Caller(p).user # u
    BY DEF LockedOut, InFlight
  <1>7. Acts(u)' = Acts(u)
    BY <1>0, <1>6 DEF Onward, Acts
  <1> QED
    BY <1>5, <1>7 DEF StaysOut

\* A token that is issued is another user's.
LEMMA IssueStaysOut ==
    ASSUME IInv, NEW p \in Request, IssueToken(p), NEW u \in User, LockedOut(u), user'[u].status = "disabled"
    PROVE  StaysOut(u)
  <1>1. /\ pc[p] = "issue" /\ pc' = [pc EXCEPT ![p] = "done"] /\ UNCHANGED <<user, call, now>>
        /\ pc \in [Request -> Steps]
    BY DEF IssueToken, Return, Goto, bounds, IInv, TypeOK
  <1>2. call[p].user # u
    BY <1>1 DEF LockedOut, InFlight
  <1>3. audit' = audit \cup {[by |-> p, tenant |-> user[call[p].user].tenant, actor |-> call[p].user, object |-> None]}
    BY DEF IssueToken, RecordAudit
  <1>4. Acts(u)' = Acts(u)
    BY <1>1, <1>2, <1>3 DEF Acts
  <1>5. PICK c : c = Claims(call[p].user, user[call[p].user].tenant, draft[p].says, now + AccessTTL)
    OBVIOUS
  <1>6. c.user # u
    BY <1>2, <1>5 DEF Claims
  <1>7. access' = [access EXCEPT ![p] = c] \/ access' = access
    BY <1>5 DEF IssueToken
  <1>8. access[p] = NoClaims /\ access \in [Token -> [user : User \cup {None}, tenant : Tenant \cup {None},
                                                      role : Roles \cup {None}, exp : Nat]]
    BY <1>1 DEF IInv, CallOK, Shapes
  <1>9. \A t \in Token : access'[t] = access[t] \/ access'[t] = c
    BY <1>7, <1>8
  <1>10. \A t \in Token : access[t] # NoClaims => access'[t] = access[t]
    BY <1>7, <1>8
  <1>11. \A t \in Token : Valid(t)' => access'[t].user # u
    BY <1>1, <1>6, <1>9 DEF Valid, LockedOut
  <1>12. ASSUME NEW q \in Request, InFlight(q)'
         PROVE  /\ pc'[q] = "issue" => call'[q].user # u
                /\ Caller(q)'.user = u => pc'[q] = "admit"
    <2>1. q # p /\ pc'[q] = pc[q] /\ InFlight(q)
      BY <1>1, <1>12 DEF InFlight
    <2>2. call[q].token # None => call[q].token \in Token /\ access[call[q].token] # NoClaims
      BY <2>1 DEF IInv, CallOK, TypeOK, Call, InFlight
    <2>3. Caller(q)' = Caller(q)
      BY <1>1, <1>10, <2>2 DEF Caller
    <2> QED
      BY <1>1, <2>1, <2>3 DEF LockedOut
  <1>13. LockedOut(u)'
    BY <1>11, <1>12 DEF LockedOut
  <1> QED
    BY <1>4, <1>13 DEF StaysOut

\* A request of a locked-out user waits to be admitted.
LEMMA ReceiveStaysOut ==
    ASSUME IInv, NEW p \in Request, NEW b \in Menu, Receive(p, b),
           NEW u \in User, LockedOut(u), user'[u].status = "disabled"
    PROVE  StaysOut(u)
  <1>1. /\ UNCHANGED <<access, audit, now>> /\ call' = [call EXCEPT ![p] = b]
        /\ call \in [Request -> Call] /\ pc \in [Request -> Steps]
    BY DEF Receive, people, ledger, bounds, IInv, TypeOK
  <1>2. PICK step : /\ pc' = [pc EXCEPT ![p] = step] /\ step \in {"register", "logout", "credentials", "admit"}
                    /\ step # "admit" => b.route \in Public
    BY DEF Receive, Goto, Public
  <1>3. call'[p] = b /\ pc'[p] = step /\ NoClaims.user # u
    BY <1>1, <1>2, Names, Empty
  <1>4. step # "admit" => Caller(p)' = NoClaims
    BY <1>2, <1>3, ApiAssumption DEF Caller
  <1>5. ASSUME NEW q \in Request, InFlight(q)'
        PROVE  /\ pc'[q] = "issue" => call'[q].user # u
               /\ Caller(q)'.user = u => pc'[q] = "admit"
    <2>1. CASE q = p
      BY <1>2, <1>3, <1>4, <2>1
    <2>2. CASE q # p
      <3>1. pc'[q] = pc[q] /\ call'[q] = call[q] /\ Caller(q)' = Caller(q)
        BY <1>1, <1>2, <2>2 DEF Caller
      <3> QED
        BY <1>5, <3>1 DEF LockedOut, InFlight
    <2> QED
      BY <2>1, <2>2
  <1>6. \A t \in Token : Valid(t)' => access'[t].user # u
    BY <1>1 DEF Valid, LockedOut
  <1>7. Acts(u)' = Acts(u)
    <2>1. Wrote(p) = {}
      BY DEF Receive, IInv, CallOK
    <2>2. \A a \in audit : a.by \in Request /\ a.by # p
      BY <2>1 DEF Wrote, IInv, TypeOK, AuditRow
    <2>3. \A a \in audit : call'[a.by] = call[a.by]
      BY <1>1, <2>2
    <2> QED
      BY <1>1, <2>3 DEF Acts
  <1> QED
    BY <1>5, <1>6, <1>7 DEF StaysOut, LockedOut

\* Once a disabled user's tokens have expired and what was in flight has ended,
\* no step of anyone gives the user a token or an effect; what is left to the
\* user is Logout, whose audit row Acts leaves out.
THEOREM LockoutIsFinal == Spec => LockedOutStaysOut
  <1> DEFINE Out == \A u \in User : (LockedOut(u) /\ user'[u].status = "disabled") =>
                       LockedOut(u)' /\ Acts(u)' = Acts(u)
  <1>1. IInv /\ [Next]_vars => [Out]_vars
    <2> SUFFICES ASSUME IInv, Next, NEW u \in User, LockedOut(u), user'[u].status = "disabled"
                 PROVE  StaysOut(u)
      BY DEF StaysOut
    <2>1. ASSUME NEW p \in Request, Step(p) PROVE StaysOut(u)
      BY <2>1, StepsOnward, OnwardStaysOut, IssueStaysOut
    <2>2. ASSUME NEW p \in Request, NEW b \in Menu, Receive(p, b) PROVE StaysOut(u)
      BY <2>2, ReceiveStaysOut
    <2>3. CASE \/ Tick
               \/ \E x \in User : SetStatus(x) \/ \E role \in Roles : SetRole(x, role)
      <3>1. UNCHANGED <<access, audit, pc, call>> /\ now' >= now /\ now' \in Nat /\ now \in Nat
        BY <2>3 DEF Tick, SetStatus, SetRole, Edit, people, ledger, bounds, IInv, Shapes
      <3>2. \A t \in Token : Valid(t)' => Valid(t)
        <4>1. \A t \in Token : access[t].exp \in Nat
          BY DEF IInv, Shapes
        <4> QED
          BY <3>1, <4>1 DEF Valid
      <3>3. \A q \in Request : Caller(q)' = Caller(q) /\ InFlight(q)' = InFlight(q)
        BY <3>1 DEF Caller, InFlight
      <3>4. Acts(u)' = Acts(u)
        BY <3>1 DEF Acts
      <3> QED
        BY <3>1, <3>2, <3>3, <3>4 DEF StaysOut, LockedOut
    <2> QED
      BY <2>1, <2>2, <2>3 DEF Next
  <1> QED
    BY <1>1, InductiveInvariant, PTL DEF Spec, LockedOutStaysOut

=============================================================================
