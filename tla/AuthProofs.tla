----------------------------- MODULE AuthProofs -----------------------------
(***************************************************************************)
(* Proofs about Auth, for any number of users, sessions and concurrent     *)
(* requests, any menu of calls and any number of faults.                   *)
(*                                                                         *)
(* The argument: the row lock makes test and update of a token one step,   *)
(* so the row a transaction has locked is still active when it commits     *)
(* (LocksOK).  A refresh that commits therefore takes the one active token *)
(* of its session and leaves one, its successor; and a token that was      *)
(* superseded once stays what it is.                                       *)
(***************************************************************************)
EXTENDS Auth, TLAPS

AuditRows == [action : {"user.registered", "user.login", "user.token_refreshed", "user.logout"},
              by : Request]

\* A token not issued yet is the root of its own session; an issued one has a
\* user and an issued root; only a rotated one names a successor.
RowsOK ==
    \A t \in Token :
       /\ token[t].status = "absent" => token[t] = NoRow /\ session[t] = t
       /\ token[t].status # "absent" =>
             token[t].user \in User /\ token[session[t]].status # "absent"
       /\ token[t].status # "rotated" => token[t].replacedBy = None

\* Rotation is one-to-one from the rotated tokens to the tokens that are not
\* the first of their session, and keeps user and session.
ChainOK ==
    /\ \A t \in Token : token[t].status = "rotated" =>
          /\ token[t].replacedBy \in Token
          /\ token[token[t].replacedBy].status # "absent"
          /\ token[token[t].replacedBy].user = token[t].user
          /\ session[token[t].replacedBy] = session[t]
    /\ \A s, t \in Token :
          /\ token[s].status = "rotated" /\ token[t].status = "rotated"
          /\ token[s].replacedBy = token[t].replacedBy
          => s = t
    /\ \A t \in Token : (token[t].status # "absent" /\ session[t] # t) =>
          \E s \in Token : token[s].status = "rotated" /\ token[s].replacedBy = t

\* A locked row is active, and its writer is the refresh or logout that names
\* it or a mass revocation of its user's tokens.
LockOK(t) ==
    tokenLock[t] # None =>
       /\ token[t].status = "active"
       /\ \/ /\ pc[tokenLock[t]] = "commit" /\ body[tokenLock[t]].op \in {"Refresh", "Logout"}
             /\ body[tokenLock[t]].token = t
          \/ /\ pc[tokenLock[t]] = "revoke all"
             /\ token[t].user = token[body[tokenLock[t]].token].user
LocksOK == \A t \in Token : LockOK(t)

\* The steps of each method.
StepsOf(op) ==
    IF op = "Register" THEN {"insert user", "commit", "done"}
    ELSE IF op = "Login" THEN {"credentials", "create token", "commit", "done"}
    ELSE IF op = "Refresh" THEN {"lookup", "user", "create token", "rotate", "reuse", "revoke all",
                                 "commit", "done"}
    ELSE {"lookup", "revoke", "commit", "done"}

Audited(p) == \E a \in audits : a.by = p

\* A call on its way has published nothing, and past its lookup it works on
\* an issued token; a mass revocation was caused by a superseded one.
CallOK(p) ==
    /\ pc[p] # "idle" => body[p] \in Menu /\ pc[p] \in StepsOf(body[p].op)
    /\ pc[p] # "done" => outcome[p] = "none" /\ token[p].status = "absent" /\ ~Audited(p)
    /\ (pc[p] \notin {"idle", "lookup", "done"} /\ body[p].op \in {"Refresh", "Logout"}) =>
          token[body[p].token].status # "absent"
    /\ pc[p] \in {"reuse", "revoke all"} => Superseded(body[p].token)
    /\ scan[p] # {} => pc[p] = "revoke all"
    /\ \A t \in scan[p] : token[t].user = token[body[p].token].user

\* What a call is about to commit: the user of its new token, the row it holds.
NewOK(p) ==
    /\ (pc[p] = "commit" /\ body[p].op = "Login") => new[p] = body[p].user
    /\ (pc[p] \in {"rotate", "commit"} /\ body[p].op = "Refresh") =>
          new[p] = token[body[p].token].user
    /\ (pc[p] \notin {"rotate", "commit"} \/ body[p].op \in {"Register", "Logout"}) => new[p] = None
    /\ (pc[p] = "commit" /\ body[p].op = "Refresh") => tokenLock[body[p].token] = p
    /\ (pc[p] = "commit" /\ body[p].op = "Logout") =>
          tokenLock[body[p].token] = p \/ Superseded(body[p].token)

\* What a call that ended has left behind.
DoneOK(p) ==
    /\ (token[p].status # "absent") <=>
          \E a \in audits : a.by = p /\ a.action \in {"user.login", "user.token_refreshed"}
    /\ (outcome[p] = "ok") => \E a \in audits : a.by = p /\ a.action = AuditAction(body[p].op)
    /\ Audited(p) => outcome[p] \in {"ok", "internal"}
    /\ (outcome[p] = "ok" /\ body[p].op = "Logout") => Superseded(body[p].token)

\* The inductive invariant.
IInv ==
    /\ TypeOK /\ audits \subseteq AuditRows
    /\ RowsOK /\ ChainOK /\ OneActiveTokenPerSession
    /\ LocksOK
    /\ \A p \in Request : CallOK(p) /\ NewOK(p) /\ DoneOK(p)

-----------------------------------------------------------------------------
\* Requests stand for tokens, and None for nothing.
LEMMA Names == Request \subseteq Token /\ None \notin Token /\ None \notin User /\ None \notin Request
  BY AuthAssumption DEF Token

LEMMA RowFields ==
    \A u, status, next : /\ Row(u, status, next).user = u
                         /\ Row(u, status, next).status = status
                         /\ Row(u, status, next).replacedBy = next
  BY DEF Row

LEMMA InitEstablishes == Init => IInv
  <1> SUFFICES ASSUME Init PROVE IInv
    OBVIOUS
  <1>0. \A t \in SeedToken : SeedUser[t] \in User /\ t \in Token
    BY AuthAssumption DEF Token
  <1>1. TypeOK
    <2>1. token \in [Token -> [user : User \cup {None},
                               status : {"absent", "active", "rotated", "revoked"},
                               replacedBy : Token \cup {None}]]
      BY <1>0 DEF Init, Row, NoRow
    <2>2. account \in [User -> {"absent", "active", "disabled"}]
      BY DEF Init
    <2> QED
      BY <2>1, <2>2, AuthAssumption DEF Init, TypeOK, Steps, Outcomes, Operations
  <1>2. audits \subseteq AuditRows
    BY DEF Init
  <1>3. \A t \in Token : /\ token[t].status \in {"absent", "active"}
                         /\ token[t].status = "absent" => token[t] = NoRow
                         /\ token[t].status = "active" => token[t].user \in User
                         /\ token[t].replacedBy = None /\ session[t] = t
    BY <1>0 DEF Init, Row, NoRow
  <1>4. RowsOK /\ ChainOK /\ OneActiveTokenPerSession
    BY <1>3 DEF RowsOK, ChainOK, OneActiveTokenPerSession
  <1>5. LocksOK
    BY DEF Init, LocksOK, LockOK
  <1>6. ASSUME NEW p \in Request PROVE CallOK(p) /\ NewOK(p) /\ DoneOK(p)
    <2>1. token[p].status = "absent"
      BY Names, AuthAssumption DEF Init, Row, NoRow
    <2>2. /\ pc[p] = "idle" /\ outcome[p] = "none" /\ scan[p] = {} /\ new[p] = None
          /\ audits = {}
      BY DEF Init
    <2> QED
      BY <2>1, <2>2 DEF CallOK, NewOK, DoneOK, Audited
  <1> QED
    BY <1>1, <1>2, <1>4, <1>5, <1>6 DEF IInv

-----------------------------------------------------------------------------
\* A step of p: what the other calls keep, and what no step undoes in the
\* table of tokens.
Only(p) ==
    /\ \A q \in Request \ {p} : /\ pc'[q] = pc[q] /\ body'[q] = body[q] /\ scan'[q] = scan[q]
                                /\ new'[q] = new[q] /\ outcome'[q] = outcome[q]
    /\ audits \subseteq audits'
    /\ \A a \in audits' \ audits : a.by = p
    /\ \A t \in Token : \/ tokenLock'[t] = tokenLock[t]
                        \/ tokenLock[t] \in {None, p} /\ tokenLock'[t] \in {None, p}
    /\ \A t \in Token : tokenLock[t] \notin {None, p} => token'[t] = token[t]
    /\ \A t \in Token \ {p} : token[t].status = "absent" => token'[t].status = "absent"
    /\ \A t \in Token : token[t].status # "absent" =>
          token'[t].status # "absent" /\ token'[t].user = token[t].user
    /\ \A t \in Token : Superseded(t) => token'[t].status = token[t].status

\* What holds of a call is not disturbed by another's step.
LEMMA OthersKeep ==
    ASSUME IInv, NEW p \in Request, Only(p), NEW q \in Request, q # p
    PROVE  CallOK(q)' /\ NewOK(q)' /\ DoneOK(q)'
  <1>0. CallOK(q) /\ NewOK(q) /\ DoneOK(q) /\ q \in Token
    BY Names DEF IInv
  <1>1. /\ pc'[q] = pc[q] /\ body'[q] = body[q] /\ scan'[q] = scan[q]
        /\ new'[q] = new[q] /\ outcome'[q] = outcome[q]
    BY DEF Only
  <1>2. \A a : a.by = q => (a \in audits <=> a \in audits')
    BY DEF Only
  <1>3. Audited(q)' <=> Audited(q)
    BY <1>2 DEF Audited
  <1>4. token'[q].status = "absent" <=> token[q].status = "absent"
    BY <1>0 DEF Only
  <1>5. ASSUME pc[q] \notin {"idle", "done"}, body[q].op \in {"Refresh", "Logout"}
        PROVE  body[q].token \in Token
    BY <1>0, <1>5, AuthAssumption DEF CallOK
  <1>6. CallOK(q)'
    <2>1. ASSUME pc[q] \notin {"idle", "lookup", "done"}, body[q].op \in {"Refresh", "Logout"}
          PROVE  /\ token'[body[q].token].status # "absent"
                 /\ token'[body[q].token].user = token[body[q].token].user
                 /\ token[body[q].token].user \in User
      BY <1>0, <1>5, <2>1 DEF CallOK, Only, IInv, RowsOK
    <2>2. pc[q] \in {"reuse", "revoke all"} => body[q].op = "Refresh"
      BY <1>0 DEF CallOK, StepsOf
    <2>3. ASSUME pc[q] \in {"reuse", "revoke all"} PROVE Superseded(body[q].token)'
      <3>1. Superseded(body[q].token) /\ body[q].token \in Token
        BY <1>0, <1>5, <2>2, <2>3 DEF CallOK
      <3> QED
        BY <1>1, <3>1 DEF Only, Superseded
    <2>4. ASSUME NEW t \in scan[q] PROVE token'[t].user = token'[body[q].token].user
      <3>1. pc[q] = "revoke all" /\ token[t].user = token[body[q].token].user /\ t \in Token
        BY <1>0 DEF CallOK, IInv, TypeOK
      <3>2. token[t].user \in User
        BY <2>1, <2>2, <3>1
      <3>3. token[t].status # "absent"
        <4>1. token[t].status = "absent" => token[t] = NoRow
          BY <3>1 DEF IInv, RowsOK
        <4>2. NoRow.user = None
          BY DEF NoRow, Row
        <4> QED
          BY <3>2, <4>1, <4>2, Names
      <3> QED
        BY <2>1, <2>2, <3>1, <3>3 DEF Only
    <2> QED
      BY <1>0, <1>1, <1>3, <1>4, <2>1, <2>3, <2>4 DEF CallOK
  <1>7. NewOK(q)'
    <2>1. ASSUME pc[q] \in {"rotate", "commit"}, body[q].op \in {"Refresh", "Logout"}
          PROVE  /\ body[q].token \in Token
                 /\ token'[body[q].token].user = token[body[q].token].user
                 /\ tokenLock[body[q].token] = q => tokenLock'[body[q].token] = q
                 /\ Superseded(body[q].token) => token'[body[q].token].status = token[body[q].token].status
      BY <1>0, <1>5, <2>1, Names DEF CallOK, Only
    <2>2. Superseded(body[q].token)' <=> token'[body[q].token].status \in {"rotated", "revoked"}
      BY <1>1 DEF Superseded
    <2> QED
      BY <1>0, <1>1, <2>1, <2>2 DEF NewOK, Superseded
  <1>8. DoneOK(q)'
    <2>1. (\E a \in audits : a.by = q /\ a.action \in {"user.login", "user.token_refreshed"})
             <=> (\E a \in audits' : a.by = q /\ a.action \in {"user.login", "user.token_refreshed"})
      BY <1>2
    <2>2. (\E a \in audits : a.by = q /\ a.action = AuditAction(body[q].op))
             <=> (\E a \in audits' : a.by = q /\ a.action = AuditAction(body[q].op))
      BY <1>2
    <2>3. AuditAction(body[q].op)' = AuditAction(body[q].op)
      BY <1>1 DEF AuditAction
    <2>4. (outcome[q] = "ok" /\ body[q].op = "Logout") => Superseded(body[q].token)'
      <3> SUFFICES ASSUME outcome[q] = "ok", body[q].op = "Logout" PROVE Superseded(body[q].token)'
        OBVIOUS
      <3>1. pc[q] = "done"
        BY <1>0 DEF CallOK
      <3>2. body[q].token \in Token /\ Superseded(body[q].token)
        BY <1>0, <3>1, AuthAssumption DEF CallOK, DoneOK
      <3> QED
        BY <1>1, <3>2 DEF Only, Superseded
    <2> QED
      BY <1>0, <1>1, <1>3, <1>4, <2>1, <2>2, <2>3, <2>4 DEF DoneOK
  <1> QED
    BY <1>6, <1>7, <1>8

\* Locks held by others stay what they were.
LEMMA LocksKeep ==
    ASSUME IInv, NEW p \in Request, Only(p),
           \A t \in Token : tokenLock'[t] = p => LockOK(t)'
    PROVE  LocksOK'
  <1> SUFFICES ASSUME NEW t \in Token, tokenLock'[t] # None, tokenLock'[t] # p PROVE LockOK(t)'
    BY DEF LocksOK, LockOK
  <1>1. tokenLock'[t] = tokenLock[t] /\ tokenLock[t] \notin {None, p} /\ token'[t] = token[t]
    BY DEF Only
  <1>2. tokenLock[t] \in Request
    BY <1>1 DEF IInv, TypeOK
  <1>3. PICK q \in Request : q = tokenLock[t]
    BY <1>2
  <1>4. pc'[q] = pc[q] /\ body'[q] = body[q] /\ q # p
    BY <1>1, <1>3 DEF Only
  <1>5. /\ token[t].status = "active"
        /\ \/ pc[q] = "commit" /\ body[q].op \in {"Refresh", "Logout"} /\ body[q].token = t
           \/ pc[q] = "revoke all" /\ token[t].user = token[body[q].token].user
    BY <1>1, <1>3 DEF IInv, LocksOK, LockOK
  <1>6. ASSUME pc[q] = "revoke all" PROVE token'[body[q].token].user = token[body[q].token].user
    <2>1. CallOK(q)
      BY DEF IInv
    <2>2. body[q].op = "Refresh" /\ body[q] \in Menu
      BY <1>6, <2>1 DEF CallOK, StepsOf
    <2>3. body[q].token \in Token /\ token[body[q].token].status # "absent"
      BY <1>6, <2>1, <2>2, AuthAssumption DEF CallOK
    <2> QED
      BY <2>3 DEF Only
  <1> QED
    BY <1>1, <1>3, <1>4, <1>5, <1>6 DEF LockOK

\* A step of p that writes no token: only p itself and its locks are in question.
LEMMA QuietPreserves ==
    ASSUME IInv, NEW p \in Request, Only(p), TypeOK',
           UNCHANGED <<token, session, audits>>,
           \A t \in Token : tokenLock'[t] = p => LockOK(t)',
           CallOK(p)', NewOK(p)', DoneOK(p)'
    PROVE  IInv'
  <1>1. LocksOK'
    BY LocksKeep
  <1>2. \A q \in Request : CallOK(q)' /\ NewOK(q)' /\ DoneOK(q)'
    BY OthersKeep
  <1>3. RowsOK' /\ ChainOK' /\ OneActiveTokenPerSession'
    BY DEF IInv, RowsOK, ChainOK, OneActiveTokenPerSession
  <1>4. audits' \subseteq AuditRows
    BY DEF IInv
  <1> QED
    BY <1>1, <1>2, <1>3, <1>4 DEF IInv

-----------------------------------------------------------------------------
\* A call whose transaction is rolled back, or that never opened one.
LEMMA RollbackPreserves ==
    ASSUME IInv, NEW p \in Request, pc[p] \notin {"idle", "done"},
           NEW result \in Outcomes \ {"none", "ok"}, Finish(p, result),
           UNCHANGED <<tables, body, session>>, faults' \in 0..MaxFaults
    PROVE  IInv'
  <1>0. TypeOK /\ CallOK(p) /\ DoneOK(p) /\ UNCHANGED <<account, token, expired, audits, body, session>>
    BY DEF IInv, tables
  <1>1. Only(p)
    BY <1>0 DEF Only, Finish, Goto, TypeOK
  <1>2. TypeOK'
    <2>1. /\ pc' \in [Request -> Steps] /\ outcome' \in [Request -> Outcomes]
          /\ new' \in [Request -> User \cup {None}] /\ scan' \in [Request -> SUBSET Token]
      BY <1>0 DEF Finish, Goto, TypeOK, Steps
    <2>2. /\ tokenLock' \in [Token -> Request \cup {None}]
          /\ userLock' \in [User -> Request \cup {None}]
      BY <1>0 DEF Finish, TypeOK
    <2> QED
      BY <1>0, <2>1, <2>2 DEF TypeOK
  <1>3. \A t \in Token : tokenLock'[t] # p
    BY Names DEF Finish
  <1>4. /\ pc'[p] = "done" /\ outcome'[p] = result /\ new'[p] = None /\ scan'[p] = {}
        /\ body'[p] = body[p]
    BY <1>0 DEF Finish, Goto, TypeOK
  <1>5. CallOK(p)'
    BY <1>0, <1>4 DEF CallOK, StepsOf
  <1>6. NewOK(p)'
    BY <1>4 DEF NewOK
  <1>7. DoneOK(p)'
    <2>1. token[p].status = "absent" /\ ~Audited(p) /\ ~Audited(p)'
      BY <1>0 DEF CallOK, Audited
    <2> QED
      BY <1>0, <1>4, <2>1 DEF DoneOK, Audited
  <1> QED
    BY <1>0, <1>1, <1>2, <1>3, <1>5, <1>6, <1>7, QuietPreserves

\* A call goes to its next step and may lock the row it names.
Move(p, step, b, S, u) ==
    /\ pc[p] \in Steps \ {"done", "commit", "revoke all"}
    /\ step \in Steps \ {"idle", "done"}
    /\ Goto(p, step)
    /\ UNCHANGED <<token, session, audits, outcome>>
    /\ account' \in [User -> {"absent", "active", "disabled"}] /\ expired' \subseteq Token
    /\ userLock' \in [User -> Request \cup {None}] /\ faults' \in 0..MaxFaults
    /\ body' = [body EXCEPT ![p] = b] /\ step \in StepsOf(b.op)
    /\ scan' = [scan EXCEPT ![p] = S] /\ new' = [new EXCEPT ![p] = u]
    /\ \/ UNCHANGED tokenLock
       \/ /\ step = "commit" /\ b.op \in {"Refresh", "Logout"} /\ tokenLock[b.token] = None
          /\ token[b.token].status = "active" /\ tokenLock' = [tokenLock EXCEPT ![b.token] = p]
    /\ (step # "lookup" /\ b.op \in {"Refresh", "Logout"}) => token[b.token].status # "absent"
    /\ step \in {"reuse", "revoke all"} => Superseded(b.token)
    /\ S # {} => step = "revoke all"
    /\ \A t \in S : token[t].user = token[b.token].user
    /\ (step = "commit" /\ b.op = "Login") => u = b.user
    /\ (step \in {"rotate", "commit"} /\ b.op = "Refresh") => u = token[b.token].user
    /\ (step \notin {"rotate", "commit"} \/ b.op \in {"Register", "Logout"}) => u = None
    /\ (step = "commit" /\ b.op = "Refresh") => tokenLock'[b.token] = p
    /\ (step = "commit" /\ b.op = "Logout") => tokenLock'[b.token] = p \/ Superseded(b.token)

\* Such a step keeps the invariant.
LEMMA MovePreserves ==
    ASSUME IInv, NEW p \in Request, NEW step, NEW b \in Menu, NEW S \in SUBSET Token,
           NEW u \in User \cup {None}, Move(p, step, b, S, u)
    PROVE  IInv'
  <1> USE DEF Move
  <1>0. TypeOK /\ CallOK(p) /\ DoneOK(p) /\ LocksOK
    BY DEF IInv
  <1>1. /\ pc'[p] = step /\ body'[p] = b /\ scan'[p] = S /\ new'[p] = u /\ outcome'[p] = "none"
        /\ token[p].status = "absent" /\ ~Audited(p)
    BY <1>0 DEF Goto, TypeOK, CallOK
  <1>2. \A t \in Token : tokenLock[t] # p
    <2> SUFFICES ASSUME NEW t \in Token, tokenLock[t] = p PROVE FALSE
      OBVIOUS
    <2>1. LockOK(t) /\ tokenLock[t] # None
      BY <1>0, Names DEF LocksOK
    <2> QED
      BY <2>1 DEF LockOK
  <1>3. b.op \in {"Refresh", "Logout"} => b.token \in Token
    BY AuthAssumption
  <1>4. Only(p)
    <2>1. \A q \in Request \ {p} : /\ pc'[q] = pc[q] /\ body'[q] = body[q] /\ scan'[q] = scan[q]
                                    /\ new'[q] = new[q] /\ outcome'[q] = outcome[q]
      BY <1>0 DEF Goto, TypeOK
    <2>2. \A t \in Token : \/ tokenLock'[t] = tokenLock[t]
                           \/ tokenLock[t] \in {None, p} /\ tokenLock'[t] \in {None, p}
      BY <1>0 DEF TypeOK
    <2> QED
      BY <2>1, <2>2 DEF Only
  <1>5. TypeOK'
    <2>1. pc' \in [Request -> Steps] /\ body' \in [Request -> Body]
      BY <1>0, AuthAssumption DEF Goto, TypeOK, Body
    <2>2. scan' \in [Request -> SUBSET Token] /\ new' \in [Request -> User \cup {None}]
      BY <1>0 DEF TypeOK
    <2>3. tokenLock' \in [Token -> Request \cup {None}]
      BY <1>0, <1>3 DEF TypeOK
    <2> QED
      BY <1>0, <2>1, <2>2, <2>3 DEF TypeOK, Body
  <1>6. \A t \in Token : tokenLock'[t] = p => LockOK(t)'
    <2> SUFFICES ASSUME NEW t \in Token, tokenLock'[t] = p PROVE LockOK(t)'
      OBVIOUS
    <2>1. /\ step = "commit" /\ b.op \in {"Refresh", "Logout"} /\ t = b.token
          /\ token[b.token].status = "active"
      BY <1>0, <1>2 DEF TypeOK
    <2> QED
      BY <1>1, <2>1 DEF LockOK
  <1>7. CallOK(p)'
    BY <1>1 DEF CallOK, Audited, Superseded
  <1>8. NewOK(p)'
    BY <1>1 DEF NewOK, Superseded
  <1>9. DoneOK(p)'
    <2>1. ~Audited(p)'
      BY <1>1 DEF Audited
    <2> QED
      BY <1>1, <2>1 DEF DoneOK, Audited
  <1> QED
    BY <1>4, <1>5, <1>6, <1>7, <1>8, <1>9, QuietPreserves

LEMMA ReceivePreserves ==
    ASSUME IInv, NEW p \in Request, NEW b \in Menu, Receive(p, b)
    PROVE  IInv'
  <1>0. TypeOK /\ CallOK(p) /\ NewOK(p) /\ b \in Body
    BY AuthAssumption DEF IInv
  <1>1. PICK step : step = IF b.op = "Register" THEN "insert user"
                           ELSE IF b.op = "Login" THEN "credentials" ELSE "lookup"
    OBVIOUS
  <1>2. /\ step \in Steps \ {"idle", "done"} /\ step \in StepsOf(b.op)
        /\ step \notin {"reuse", "revoke all", "rotate", "commit"}
        /\ b.op \in {"Refresh", "Logout"} => step = "lookup"
    BY <1>0, <1>1 DEF Steps, StepsOf, Body, Operations
  <1>3. pc[p] = "idle" /\ scan[p] = {} /\ new[p] = None
    BY <1>0 DEF Receive, CallOK, NewOK
  <1>4. /\ Goto(p, step) /\ body' = [body EXCEPT ![p] = b]
        /\ UNCHANGED <<tables, locks, scan, new, outcome, session, condemned, faults>>
    BY <1>1 DEF Receive
  <1>5. /\ scan' = [scan EXCEPT ![p] = {}] /\ new' = [new EXCEPT ![p] = None]
        /\ UNCHANGED <<token, session, audits, outcome, tokenLock>>
        /\ account' \in [User -> {"absent", "active", "disabled"}] /\ expired' \subseteq Token
        /\ userLock' \in [User -> Request \cup {None}] /\ faults' \in 0..MaxFaults
    BY <1>0, <1>3, <1>4 DEF TypeOK, tables, locks
  <1>6. pc[p] \in Steps \ {"done", "commit", "revoke all"}
    BY <1>3 DEF Steps
  <1>7. Move(p, step, b, {}, None)
    BY <1>2, <1>4, <1>5, <1>6 DEF Move
  <1> QED
    BY <1>7, MovePreserves

\* What is known of a call on its way that holds no row.
LEMMA OnItsWay ==
    ASSUME IInv, NEW p \in Request, pc[p] \notin {"idle", "commit", "revoke all", "done"}
    PROVE  /\ body[p] \in Menu /\ pc[p] \in StepsOf(body[p].op)
           /\ body[p].op \in {"Refresh", "Logout"} => body[p].token \in Token
           /\ body[p].op \in {"Register", "Login"} => body[p].user \in User
           /\ body[p].op \in Operations
           /\ pc[p] \in Steps \ {"done", "commit", "revoke all"}
           /\ body = [body EXCEPT ![p] = body[p]]
           /\ scan = [scan EXCEPT ![p] = {}]
           /\ new = [new EXCEPT ![p] = new[p]] /\ new[p] \in User \cup {None}
           /\ pc[p] # "rotate" => new[p] = None
           /\ account \in [User -> {"absent", "active", "disabled"}] /\ expired \subseteq Token
           /\ userLock \in [User -> Request \cup {None}] /\ faults \in 0..MaxFaults
  <1>1. TypeOK /\ CallOK(p) /\ NewOK(p)
    BY DEF IInv
  <1>2. body[p] \in Menu /\ pc[p] \in StepsOf(body[p].op) /\ scan[p] = {}
    BY <1>1 DEF CallOK
  <1>3. pc[p] # "rotate" => new[p] = None
    BY <1>1 DEF NewOK
  <1>4. /\ body[p].op \in {"Refresh", "Logout"} => body[p].token \in Token
        /\ body[p].op \in {"Register", "Login"} => body[p].user \in User
    BY <1>2, AuthAssumption
  <1> QED
    BY <1>1, <1>2, <1>3, <1>4 DEF TypeOK

\* The steps that write and lock nothing.
LEMMA ChecksPreserve ==
    ASSUME IInv, NEW p \in Request, pc[p] \notin {"idle", "commit", "revoke all", "rotate", "done"},
           NEW step \in Steps \ {"idle", "done", "commit", "rotate", "revoke all"}, Goto(p, step),
           step \in StepsOf(body[p].op),
           step # "lookup" /\ body[p].op \in {"Refresh", "Logout"} =>
              token[body[p].token].status # "absent",
           step = "reuse" => Superseded(body[p].token),
           UNCHANGED <<tables, locks, body, scan, new, outcome, session, condemned, faults>>
    PROVE  IInv'
  <1>1. PICK b \in Menu : b = body[p]
    BY OnItsWay
  <1>2. /\ body' = [body EXCEPT ![p] = b] /\ scan' = [scan EXCEPT ![p] = {}]
        /\ new' = [new EXCEPT ![p] = None]
        /\ UNCHANGED <<token, session, audits, outcome, tokenLock>>
        /\ account' \in [User -> {"absent", "active", "disabled"}] /\ expired' \subseteq Token
        /\ userLock' \in [User -> Request \cup {None}] /\ faults' \in 0..MaxFaults
        /\ pc[p] \in Steps \ {"done", "commit", "revoke all"}
    BY <1>1, OnItsWay DEF tables, locks
  <1>3. step \in Steps \ {"idle", "done"} /\ step \in StepsOf(b.op)
    BY <1>1
  <1>4. /\ step # "lookup" /\ b.op \in {"Refresh", "Logout"} => token[b.token].status # "absent"
        /\ step \in {"reuse", "revoke all"} => Superseded(b.token)
    BY <1>1
  <1>5. Move(p, step, b, {}, None)
    BY <1>2, <1>3, <1>4 DEF Move
  <1> QED
    BY <1>5, MovePreserves

\* A method that returns before it has written anything.
LEMMA RefusedPreserves ==
    ASSUME IInv, NEW p \in Request, pc[p] \notin {"idle", "done"},
           NEW result \in Outcomes \ {"none", "ok"}, Rollback(p, result)
    PROVE  IInv'
  <1>1. Finish(p, result) /\ UNCHANGED <<tables, body, session>> /\ faults' \in 0..MaxFaults
    BY DEF Rollback, IInv, TypeOK
  <1> QED
    BY <1>1, RollbackPreserves

\* The tests of Login, Refresh and Logout before their transactions.
LEMMA TestsPreserve ==
    ASSUME IInv, NEW p \in Request, CheckCredentials(p) \/ Lookup(p) \/ CheckUser(p)
    PROVE  IInv'
  <1>1. ASSUME NEW result, Rollback(p, result), pc[p] \in {"credentials", "lookup", "user"},
               result \in {"ErrInvalidCredentials", "ErrUserDisabled", "ErrRefreshTokenNotFound",
                           "ErrRefreshTokenInvalid"}
        PROVE  IInv'
    BY <1>1, RefusedPreserves DEF Outcomes
  <1>2. CASE CheckCredentials(p)
    <2>1. CASE Goto(p, "create token") /\ UNCHANGED <<tables, locks, body, scan, new, outcome,
                                                     session, condemned, faults>>
      <3>1. pc[p] = "credentials" /\ body[p].op = "Login"
        BY <1>2, OnItsWay DEF CheckCredentials, StepsOf, Operations
      <3>2. "create token" \in Steps /\ "create token" \in StepsOf(body[p].op)
        BY <3>1 DEF Steps, StepsOf
      <3>3. /\ pc[p] \notin {"idle", "commit", "revoke all", "rotate", "done"}
            /\ "create token" \notin {"idle", "done", "commit", "rotate", "revoke all", "reuse"}
            /\ body[p].op \in {"Refresh", "Logout"} => token[body[p].token].status # "absent"
        BY <3>1
      <3> QED
        BY <2>1, <3>2, <3>3, ChecksPreserve
    <2> QED
      BY <1>1, <1>2, <2>1 DEF CheckCredentials
  <1>3. CASE Lookup(p)
    <2>1. pc[p] = "lookup" /\ body[p].op \in {"Refresh", "Logout"}
      BY <1>3, OnItsWay DEF Lookup, StepsOf, Operations
    <2>2. ASSUME token[body[p].token].status # "absent",
                 Goto(p, IF body[p].op = "Logout" THEN "revoke"
                         ELSE IF Superseded(body[p].token) THEN "reuse" ELSE "user"),
                 UNCHANGED <<tables, locks, body, scan, new, outcome, session, condemned, faults>>
          PROVE  IInv'
      <3>1. PICK step : step = IF body[p].op = "Logout" THEN "revoke"
                               ELSE IF Superseded(body[p].token) THEN "reuse" ELSE "user"
        OBVIOUS
      <3>2. /\ step \in Steps \ {"idle", "done", "commit", "rotate", "revoke all"}
            /\ step \in StepsOf(body[p].op)
            /\ step = "reuse" => Superseded(body[p].token)
        BY <2>1, <3>1 DEF Steps, StepsOf
      <3>3. Goto(p, step)
        BY <2>2, <3>1
      <3> QED
        BY <2>1, <2>2, <3>2, <3>3, ChecksPreserve
    <2> QED
      BY <1>1, <1>3, <2>1, <2>2 DEF Lookup
  <1>4. CASE CheckUser(p)
    <2>1. CASE Goto(p, "create token") /\ UNCHANGED <<tables, locks, body, scan, new, outcome,
                                                     session, condemned, faults>>
      <3>1. pc[p] = "user" /\ body[p].op = "Refresh"
        BY <1>4, OnItsWay DEF CheckUser, StepsOf, Operations
      <3>2. "create token" \in Steps /\ "create token" \in StepsOf(body[p].op)
        BY <3>1 DEF Steps, StepsOf
      <3>3. token[body[p].token].status # "absent"
        BY <3>1 DEF IInv, CallOK
      <3> QED
        BY <2>1, <3>1, <3>2, <3>3, ChecksPreserve
    <2> QED
      BY <1>1, <1>4, <2>1 DEF CheckUser
  <1> QED
    BY <1>2, <1>3, <1>4

\* CreateUser holds the name, not a token.
LEMMA InsertUserPreserves ==
    ASSUME IInv, NEW p \in Request, InsertUser(p)
    PROVE  IInv'
  <1>0. pc[p] = "insert user" /\ body[p].op = "Register"
    BY OnItsWay DEF InsertUser, StepsOf, Operations
  <1>1. CASE Rollback(p, "ErrEmailAlreadyExists")
    BY <1>0, <1>1, RefusedPreserves DEF Outcomes
  <1>2. CASE /\ userLock' = [userLock EXCEPT ![body[p].user] = p]
             /\ Goto(p, "commit")
             /\ UNCHANGED <<tables, tokenLock, body, scan, new, outcome, session, condemned, faults>>
    <2>1. PICK b \in Menu : b = body[p]
      BY <1>0, OnItsWay
    <2>2. /\ body' = [body EXCEPT ![p] = b] /\ scan' = [scan EXCEPT ![p] = {}]
          /\ new' = [new EXCEPT ![p] = None]
          /\ UNCHANGED <<token, session, audits, outcome, tokenLock>>
          /\ account' \in [User -> {"absent", "active", "disabled"}] /\ expired' \subseteq Token
          /\ faults' \in 0..MaxFaults
      BY <1>0, <1>2, <2>1, OnItsWay DEF tables
    <2>3. userLock' \in [User -> Request \cup {None}]
      BY <1>0, <1>2, OnItsWay
    <2>4. "commit" \in Steps \ {"idle", "done"} /\ "commit" \in StepsOf(b.op)
      BY <1>0, <2>1 DEF Steps, StepsOf
    <2>5. pc[p] \in Steps \ {"done", "commit", "revoke all"} /\ b.op = "Register"
      BY <1>0, <2>1 DEF Steps
    <2>6. Move(p, "commit", b, {}, None)
      BY <1>2, <2>2, <2>3, <2>4, <2>5 DEF Move
    <2> QED
      BY <2>6, MovePreserves
  <1> QED
    BY <1>1, <1>2 DEF InsertUser

\* The new token is for the user of the login or of the token presented.
LEMMA CreateTokenPreserves ==
    ASSUME IInv, NEW p \in Request, CreateToken(p)
    PROVE  IInv'
  <1>0. pc[p] = "create token" /\ body[p].op \in {"Login", "Refresh"}
    BY OnItsWay DEF CreateToken, StepsOf, Operations
  <1>1. PICK b \in Menu : b = body[p]
    BY <1>0, OnItsWay
  <1>2. PICK u : u = IF b.op = "Login" THEN b.user ELSE token[b.token].user
    OBVIOUS
  <1>3. PICK step : step = IF b.op = "Login" THEN "commit" ELSE "rotate"
    OBVIOUS
  <1>4. b.op = "Refresh" => b.token \in Token /\ token[b.token].status # "absent"
    <2>1. CallOK(p)
      BY DEF IInv
    <2> QED
      BY <1>0, <1>1, <2>1, OnItsWay DEF CallOK
  <1>5. u \in User
    <2>1. b.op = "Login" => b.user \in User
      BY <1>0, <1>1, OnItsWay
    <2>2. b.op = "Refresh" => token[b.token].user \in User
      BY <1>4 DEF IInv, RowsOK
    <2> QED
      BY <1>0, <1>1, <1>2, <2>1, <2>2
  <1>6. /\ body' = [body EXCEPT ![p] = b] /\ scan' = [scan EXCEPT ![p] = {}]
        /\ new' = [new EXCEPT ![p] = u] /\ Goto(p, step)
        /\ UNCHANGED <<token, session, audits, outcome, tokenLock>>
        /\ account' \in [User -> {"absent", "active", "disabled"}] /\ expired' \subseteq Token
        /\ userLock' \in [User -> Request \cup {None}] /\ faults' \in 0..MaxFaults
    BY <1>0, <1>1, <1>2, <1>3, OnItsWay DEF CreateToken, tables, locks
  <1>7. step \in Steps \ {"idle", "done"} /\ step \in StepsOf(b.op)
    BY <1>0, <1>1, <1>3 DEF Steps, StepsOf
  <1>8. /\ pc[p] \in Steps \ {"done", "commit", "revoke all"}
        /\ b.op \in {"Login", "Refresh"}
        /\ step \notin {"reuse", "revoke all"}
    BY <1>0, <1>1, <1>3 DEF Steps
  <1>9. Move(p, step, b, {}, u)
    BY <1>2, <1>3, <1>4, <1>6, <1>7, <1>8 DEF Move
  <1> QED
    BY <1>5, <1>9, MovePreserves

\* RotateRefreshToken tests the row it locks.
LEMMA RotatePreserves ==
    ASSUME IInv, NEW p \in Request, Rotate(p)
    PROVE  IInv'
  <1>0. pc[p] = "rotate" /\ body[p].op = "Refresh"
    BY OnItsWay DEF Rotate, StepsOf, Operations
  <1>1. CASE Rollback(p, "ErrRefreshTokenInvalid")
    BY <1>0, <1>1, RefusedPreserves DEF Outcomes
  <1>2. CASE /\ Rotatable(body[p].token)
             /\ tokenLock' = [tokenLock EXCEPT ![body[p].token] = p]
             /\ Goto(p, "commit")
             /\ UNCHANGED <<tables, userLock, body, scan, new, outcome, session, condemned, faults>>
    <2>1. PICK b \in Menu : b = body[p]
      BY <1>0, OnItsWay
    <2>2. PICK u \in User \cup {None} : u = new[p]
      BY <1>0, OnItsWay
    <2>3. /\ body' = [body EXCEPT ![p] = b] /\ scan' = [scan EXCEPT ![p] = {}]
          /\ new' = [new EXCEPT ![p] = u] /\ Goto(p, "commit")
          /\ UNCHANGED <<token, session, audits, outcome>>
          /\ account' \in [User -> {"absent", "active", "disabled"}] /\ expired' \subseteq Token
          /\ userLock' \in [User -> Request \cup {None}] /\ faults' \in 0..MaxFaults
      BY <1>0, <1>2, <2>1, <2>2, OnItsWay DEF tables
    <2>4. u = token[b.token].user
      BY <1>0, <2>1, <2>2 DEF IInv, NewOK
    <2>5. /\ tokenLock[b.token] = None /\ token[b.token].status = "active" /\ b.token \in Token
          /\ tokenLock' = [tokenLock EXCEPT ![b.token] = p]
      BY <1>0, <1>2, <2>1, OnItsWay DEF Rotate, Rotatable
    <2>6. tokenLock'[b.token] = p
      BY <2>5 DEF IInv, TypeOK
    <2>7. "commit" \in Steps \ {"idle", "done"} /\ "commit" \in StepsOf(b.op)
      BY <1>0, <2>1 DEF Steps, StepsOf
    <2>8. pc[p] \in Steps \ {"done", "commit", "revoke all"} /\ b.op = "Refresh"
      BY <1>0, <2>1 DEF Steps
    <2>9. Move(p, "commit", b, {}, u)
      BY <2>3, <2>4, <2>5, <2>6, <2>7, <2>8 DEF Move
    <2> QED
      BY <2>9, MovePreserves
  <1> QED
    BY <1>1, <1>2 DEF Rotate

\* RevokeRefreshToken in Logout does the same, or finds the token superseded.
LEMMA RevokePreserves ==
    ASSUME IInv, NEW p \in Request, Revoke(p)
    PROVE  IInv'
  <1>0. pc[p] = "revoke" /\ body[p].op = "Logout"
    BY OnItsWay DEF Revoke, StepsOf, Operations
  <1>1. PICK b \in Menu : b = body[p]
    BY <1>0, OnItsWay
  <1>2. b.token \in Token /\ token[b.token].status # "absent"
    <2>1. CallOK(p)
      BY DEF IInv
    <2> QED
      BY <1>0, <1>1, <2>1, OnItsWay DEF CallOK
  <1>3. tokenLock \in [Token -> Request \cup {None}] /\ tokenLock[b.token] = None
    BY <1>1 DEF IInv, TypeOK, Revoke
  <1>4. \/ /\ token[b.token].status = "active"
           /\ tokenLock' = [tokenLock EXCEPT ![b.token] = p] /\ tokenLock'[b.token] = p
        \/ UNCHANGED tokenLock /\ Superseded(b.token)
    <2>1. CASE token[b.token].status = "active"
      BY <1>1, <1>2, <1>3, <2>1 DEF Revoke, Revokable
    <2>2. CASE token[b.token].status # "active"
      <3>1. tokenLock' = [tokenLock EXCEPT ![b.token] = None]
        BY <1>1, <2>2 DEF Revoke, Revokable
      <3>2. UNCHANGED tokenLock
        BY <1>2, <1>3, <3>1
      <3>3. Superseded(b.token)
        BY <1>2, <2>2 DEF IInv, TypeOK, Superseded
      <3> QED
        BY <3>2, <3>3
    <2> QED
      BY <2>1, <2>2
  <1>5. /\ body' = [body EXCEPT ![p] = b] /\ scan' = [scan EXCEPT ![p] = {}]
        /\ new' = [new EXCEPT ![p] = None] /\ Goto(p, "commit")
        /\ UNCHANGED <<token, session, audits, outcome>>
        /\ account' \in [User -> {"absent", "active", "disabled"}] /\ expired' \subseteq Token
        /\ userLock' \in [User -> Request \cup {None}] /\ faults' \in 0..MaxFaults
    BY <1>0, <1>1, OnItsWay DEF Revoke, tables
  <1>6. "commit" \in Steps \ {"idle", "done"} /\ "commit" \in StepsOf(b.op)
    BY <1>0, <1>1 DEF Steps, StepsOf
  <1>7. pc[p] \in Steps \ {"done", "commit", "revoke all"} /\ b.op = "Logout"
    BY <1>0, <1>1 DEF Steps
  <1>8. Move(p, "commit", b, {}, None)
    BY <1>2, <1>3, <1>4, <1>5, <1>6, <1>7 DEF Move
  <1> QED
    BY <1>8, MovePreserves

\* The snapshot of RevokeAllUserRefreshTokens is made of the user's tokens.
LEMMA RevokeAllPreserves ==
    ASSUME IInv, NEW p \in Request, RevokeAll(p)
    PROVE  IInv'
  <1>0. pc[p] = "reuse" /\ body[p].op = "Refresh"
    BY OnItsWay DEF RevokeAll, StepsOf, Operations
  <1>1. PICK b \in Menu : b = body[p]
    BY <1>0, OnItsWay
  <1>2. PICK S : S = Active(token[b.token].user)
    OBVIOUS
  <1>3. S \in SUBSET Token /\ \A t \in S : token[t].user = token[b.token].user
    BY <1>2 DEF Active
  <1>4. /\ b.token \in Token /\ token[b.token].status # "absent" /\ Superseded(b.token)
    <2>1. CallOK(p)
      BY DEF IInv
    <2> QED
      BY <1>0, <1>1, <2>1, OnItsWay DEF CallOK
  <1>5. /\ body' = [body EXCEPT ![p] = b] /\ scan' = [scan EXCEPT ![p] = S]
        /\ new' = [new EXCEPT ![p] = None] /\ Goto(p, "revoke all")
        /\ UNCHANGED <<token, session, audits, outcome, tokenLock>>
        /\ account' \in [User -> {"absent", "active", "disabled"}] /\ expired' \subseteq Token
        /\ userLock' \in [User -> Request \cup {None}] /\ faults' \in 0..MaxFaults
    BY <1>0, <1>1, <1>2, OnItsWay DEF RevokeAll, tables, locks
  <1>6. "revoke all" \in Steps \ {"idle", "done"} /\ "revoke all" \in StepsOf(b.op)
    BY <1>0, <1>1 DEF Steps, StepsOf
  <1>7. pc[p] \in Steps \ {"done", "commit", "revoke all"} /\ b.op = "Refresh"
    BY <1>0, <1>1 DEF Steps
  <1>8. Move(p, "revoke all", b, S, None)
    BY <1>3, <1>4, <1>5, <1>6, <1>7 DEF Move
  <1> QED
    BY <1>3, <1>8, MovePreserves

\* Each row it visits is tested again and locked.
LEMMA RevokeNextPreserves ==
    ASSUME IInv, NEW p \in Request, RevokeNext(p)
    PROVE  IInv'
  <1>0. TypeOK /\ CallOK(p) /\ NewOK(p) /\ DoneOK(p) /\ LocksOK
    BY DEF IInv
  <1>1. PICK t \in scan[p] :
           /\ pc[p] = "revoke all" /\ tokenLock[t] = None
           /\ tokenLock' = [tokenLock EXCEPT ![t] = IF Revokable(t) THEN p ELSE None]
           /\ scan' = [scan EXCEPT ![p] = scan[p] \ {t}]
           /\ UNCHANGED <<tables, userLock, pc, body, new, outcome, session, condemned, faults>>
    BY DEF RevokeNext
  <1>2. t \in Token /\ token[t].user = token[body[p].token].user
    BY <1>0 DEF TypeOK, CallOK
  <1>3. /\ UNCHANGED <<account, token, expired, audits, userLock, pc, body, new, outcome, session, faults>>
        /\ scan'[p] = scan[p] \ {t} /\ \A q \in Request \ {p} : scan'[q] = scan[q]
        /\ \A s \in Token \ {t} : tokenLock'[s] = tokenLock[s]
        /\ tokenLock'[t] \in {None, p}
        /\ tokenLock'[t] = p => token[t].status = "active"
    BY <1>0, <1>1, <1>2, Names DEF tables, TypeOK, Revokable
  <1>4. Only(p)
    BY <1>1, <1>3 DEF Only
  <1>5. TypeOK'
    <2>1. /\ scan' \in [Request -> SUBSET Token]
          /\ tokenLock' \in [Token -> Request \cup {None}]
      BY <1>0, <1>1 DEF TypeOK
    <2> QED
      BY <1>0, <1>3, <2>1 DEF TypeOK
  <1>6. \A s \in Token : tokenLock'[s] = p => LockOK(s)'
    <2> SUFFICES ASSUME NEW s \in Token, tokenLock'[s] = p PROVE LockOK(s)'
      OBVIOUS
    <2>1. CASE s = t
      BY <1>1, <1>2, <1>3, <2>1 DEF LockOK
    <2>2. CASE s # t
      <3>1. tokenLock[s] = p /\ LockOK(s)
        BY <1>0, <1>3, <2>2 DEF LocksOK
      <3> QED
        BY <1>3, <3>1 DEF LockOK
    <2> QED
      BY <2>1, <2>2
  <1>7. CallOK(p)'
    BY <1>0, <1>1, <1>3 DEF CallOK, Audited, Superseded
  <1>8. NewOK(p)'
    BY <1>0, <1>1, <1>3 DEF NewOK
  <1>9. DoneOK(p)'
    BY <1>0, <1>3 DEF DoneOK, Audited, Superseded, AuditAction
  <1> QED
    BY <1>3, <1>4, <1>5, <1>6, <1>7, <1>8, <1>9, QuietPreserves

-----------------------------------------------------------------------------
\* What a commit makes of the table: the rows it has locked were active and
\* are superseded, and its own new row appears.
Writes(p) ==
    /\ p \in Token /\ token[p].status = "absent" /\ token[p] = NoRow /\ session[p] = p
    /\ \A t \in Token : tokenLock[t] = p => t # p /\ token[t].status = "active"
    /\ \A t \in Token : tokenLock[t] = p =>
          token'[t] = IF body[p].op = "Refresh" /\ pc[p] = "commit"
                      THEN Row(token[t].user, "rotated", p)
                      ELSE Row(token[t].user, "revoked", token[t].replacedBy)
    /\ \A t \in Token : (t # p /\ tokenLock[t] # p) => token'[t] = token[t]
    /\ token'[p] = IF new[p] # None THEN Row(new[p], "active", None) ELSE NoRow

Rows == [Token -> [user : User \cup {None}, status : {"absent", "active", "rotated", "revoked"},
                   replacedBy : Token \cup {None}]]

LEMMA WrittenRows ==
    ASSUME IInv, NEW p \in Request, pc[p] \in {"commit", "revoke all"}, token' = Written(p)
    PROVE  Writes(p) /\ token' \in Rows
  <1>0. p \in Token /\ token[p].status = "absent"
    BY Names DEF IInv, CallOK
  <1>1. token[p] = NoRow /\ session[p] = p
    BY <1>0 DEF IInv, RowsOK
  <1>2. \A t \in Token : tokenLock[t] = p => t # p /\ token[t].status = "active"
    BY <1>0, Names DEF IInv, LocksOK, LockOK
  <1>3. \A t \in Token : token'[t] =
           IF t = p /\ new[p] # None THEN Row(new[p], "active", None)
           ELSE IF tokenLock[t] # p THEN token[t]
           ELSE IF body[p].op = "Refresh" /\ pc[p] = "commit" THEN Row(token[t].user, "rotated", p)
           ELSE Row(token[t].user, "revoked", token[t].replacedBy)
    BY DEF Written
  <1>4. token'[p] = IF new[p] # None THEN Row(new[p], "active", None) ELSE NoRow
    BY <1>0, <1>1, <1>2, <1>3
  <1>5. \A t \in Token : (t # p /\ tokenLock[t] # p) => token'[t] = token[t]
    BY <1>3
  <1>6. \A t \in Token : tokenLock[t] = p =>
           token'[t] = IF body[p].op = "Refresh" /\ pc[p] = "commit"
                       THEN Row(token[t].user, "rotated", p)
                       ELSE Row(token[t].user, "revoked", token[t].replacedBy)
    BY <1>2, <1>3
  <1>7. token' \in Rows
    <2>1. new[p] \in User \cup {None} /\ token \in Rows
      BY DEF IInv, TypeOK, Rows
    <2> QED
      BY <1>0, <2>1 DEF Written, Row, Rows
  <1> QED
    BY <1>0, <1>1, <1>2, <1>4, <1>5, <1>6, <1>7 DEF Writes

\* The fields of a row that a commit supersedes.
LEMMA WrittenFields ==
    ASSUME NEW p, Writes(p), NEW t \in Token, tokenLock[t] = p
    PROVE  /\ token'[t].user = token[t].user
           /\ token'[t].status # "absent" /\ token'[t].status # "active"
           /\ (body[p].op = "Refresh" /\ pc[p] = "commit") =>
                 token'[t].status = "rotated" /\ token'[t].replacedBy = p
           /\ ~(body[p].op = "Refresh" /\ pc[p] = "commit") =>
                 token'[t].status = "revoked" /\ token'[t].replacedBy = token[t].replacedBy
  <1>1. PICK u : u = token[t].user
    OBVIOUS
  <1>2. PICK n : n = token[t].replacedBy
    OBVIOUS
  <1>3. PICK row : row = token'[t]
    OBVIOUS
  <1>4. row = IF body[p].op = "Refresh" /\ pc[p] = "commit" THEN Row(u, "rotated", p)
              ELSE Row(u, "revoked", n)
    BY <1>1, <1>2, <1>3 DEF Writes
  <1>5. CASE body[p].op = "Refresh" /\ pc[p] = "commit"
    <2>1. row.user = u /\ row.status = "rotated" /\ row.replacedBy = p
      BY <1>4, <1>5, RowFields
    <2> QED
      BY <1>1, <1>3, <1>5, <2>1
  <1>6. CASE ~(body[p].op = "Refresh" /\ pc[p] = "commit")
    <2>1. row.user = u /\ row.status = "revoked" /\ row.replacedBy = n
      BY <1>4, <1>6, RowFields
    <2> QED
      BY <1>1, <1>2, <1>3, <1>6, <2>1
  <1> QED
    BY <1>5, <1>6

\* A commit keeps the invariant if the rows it leaves are as they should be.
LEMMA WritingPreserves ==
    ASSUME IInv, NEW p \in Request, pc[p] \in {"commit", "revoke all"}, Writes(p),
           NEW result \in Outcomes \ {"none"}, Finish(p, result),
           token' \in Rows, account' \in [User -> {"absent", "active", "disabled"}], UNCHANGED <<expired, body>>,
           audits \subseteq audits', audits' \subseteq AuditRows, \A a \in audits' \ audits : a.by = p,
           session' \in [Token -> Token], faults' \in 0..MaxFaults,
           RowsOK', ChainOK', OneActiveTokenPerSession', DoneOK(p)'
    PROVE  IInv'
  <1>0. TypeOK /\ CallOK(p)
    BY DEF IInv
  <1>w. /\ token[p].status = "absent"
        /\ \A t \in Token : (t # p /\ tokenLock[t] # p) => token'[t] = token[t]
        /\ \A t \in Token : tokenLock[t] = p =>
              /\ token[t].status = "active" /\ token'[t].status # "absent"
              /\ token'[t].user = token[t].user
    BY WrittenFields DEF Writes
  <1>1. /\ pc'[p] = "done" /\ outcome'[p] = result /\ new'[p] = None /\ scan'[p] = {}
        /\ body'[p] = body[p]
    BY <1>0 DEF Finish, Goto, TypeOK
  <1>2. \A t \in Token : tokenLock'[t] # p
    BY Names DEF Finish
  <1>3. Only(p)
    <2>1. \A q \in Request \ {p} : /\ pc'[q] = pc[q] /\ body'[q] = body[q] /\ scan'[q] = scan[q]
                                    /\ new'[q] = new[q] /\ outcome'[q] = outcome[q]
      BY <1>0 DEF Finish, Goto, TypeOK
    <2>2. \A t \in Token : \/ tokenLock'[t] = tokenLock[t]
                           \/ tokenLock[t] \in {None, p} /\ tokenLock'[t] \in {None, p}
      BY DEF Finish
    <2>3. \A t \in Token : tokenLock[t] \notin {None, p} => token'[t] = token[t]
      <3> SUFFICES ASSUME NEW t \in Token, tokenLock[t] \notin {None, p} PROVE token'[t] = token[t]
        OBVIOUS
      <3>1. token[t].status = "active"
        BY DEF IInv, LocksOK, LockOK
      <3> QED
        BY <1>w, <3>1
    <2>4. \A t \in Token \ {p} : token[t].status = "absent" => token'[t] = token[t]
      BY <1>w
    <2>5. \A t \in Token : token[t].status # "absent" =>
             token'[t].status # "absent" /\ token'[t].user = token[t].user
      <3> SUFFICES ASSUME NEW t \in Token, token[t].status # "absent"
                   PROVE  token'[t].status # "absent" /\ token'[t].user = token[t].user
        OBVIOUS
      <3>1. CASE tokenLock[t] = p
        BY <1>w, <3>1
      <3>2. CASE tokenLock[t] # p
        BY <1>w, <3>2
      <3> QED
        BY <3>1, <3>2
    <2>6. \A t \in Token : Superseded(t) => token'[t] = token[t]
      BY <1>w DEF Superseded
    <2> QED
      BY <2>1, <2>2, <2>3, <2>4, <2>5, <2>6 DEF Only
  <1>4. TypeOK'
    <2>1. /\ pc' \in [Request -> Steps] /\ outcome' \in [Request -> Outcomes]
          /\ new' \in [Request -> User \cup {None}] /\ scan' \in [Request -> SUBSET Token]
      BY <1>0 DEF Finish, Goto, TypeOK, Steps
    <2>2. /\ tokenLock' \in [Token -> Request \cup {None}]
          /\ userLock' \in [User -> Request \cup {None}]
      BY <1>0 DEF Finish, TypeOK
    <2> QED
      BY <1>0, <2>1, <2>2 DEF TypeOK, Rows
  <1>5. CallOK(p)'
    BY <1>0, <1>1 DEF CallOK, StepsOf
  <1>6. NewOK(p)'
    BY <1>1 DEF NewOK
  <1>7. LocksOK'
    BY <1>2, <1>3, LocksKeep
  <1>8. \A q \in Request : CallOK(q)' /\ NewOK(q)' /\ DoneOK(q)'
    BY <1>3, <1>5, <1>6, OthersKeep
  <1> QED
    BY <1>4, <1>7, <1>8 DEF IInv

\* A logout, a mass revocation or a registration: rows are revoked or kept.
LEMMA RevokingRows ==
    ASSUME IInv, NEW p \in Request, Writes(p), new[p] = None,
           ~(body[p].op = "Refresh" /\ pc[p] = "commit"), UNCHANGED session
    PROVE  RowsOK' /\ ChainOK' /\ OneActiveTokenPerSession' /\ token'[p].status = "absent"
  <1>0. RowsOK /\ ChainOK /\ OneActiveTokenPerSession /\ session \in [Token -> Token]
    BY DEF IInv, TypeOK
  <1>1. ASSUME NEW t \in Token
        PROVE  /\ token'[t].user = token[t].user /\ token'[t].replacedBy = token[t].replacedBy
               /\ \/ token'[t] = token[t]
                  \/ token[t].status = "active" /\ token'[t].status = "revoked"
    <2>1. CASE tokenLock[t] = p
      <3>1. token[t].status = "active"
        BY <2>1 DEF Writes
      <3> QED
        BY <2>1, <3>1, WrittenFields
    <2>2. CASE tokenLock[t] # p
      <3>1. token'[t] = token[t]
        BY <2>2 DEF Writes
      <3> QED
        BY <3>1
    <2> QED
      BY <2>1, <2>2
  <1>2. \A t \in Token : /\ token'[t].status = "absent" <=> token[t].status = "absent"
                         /\ token'[t].status = "rotated" <=> token[t].status = "rotated"
                         /\ token'[t].status = "active" => token[t].status = "active"
                         /\ token'[t].status = "absent" => token'[t] = token[t]
    BY <1>1
  <1>3. RowsOK'
    <2> SUFFICES ASSUME NEW t \in Token
                 PROVE  /\ token'[t].status = "absent" => token'[t] = NoRow /\ session[t] = t
                        /\ token'[t].status # "absent" =>
                              token'[t].user \in User /\ token'[session[t]].status # "absent"
                        /\ token'[t].status # "rotated" => token'[t].replacedBy = None
      BY DEF RowsOK
    <2>1. session[t] \in Token
      BY <1>0
    <2> QED
      BY <1>0, <1>1, <1>2, <2>1 DEF RowsOK
  <1>4. ChainOK'
    BY <1>0, <1>1, <1>2 DEF ChainOK
  <1>5. OneActiveTokenPerSession'
    BY <1>0, <1>2 DEF OneActiveTokenPerSession
  <1>6. token'[p].status = "absent"
    BY <1>2 DEF Writes
  <1> QED
    BY <1>3, <1>4, <1>5, <1>6

\* A login: its new row is the only change, and nobody descends from it yet.
LEMMA LoginRows ==
    ASSUME IInv, NEW p \in Request, Writes(p), new[p] \in User,
           pc[p] = "commit", body[p].op = "Login", UNCHANGED session
    PROVE  RowsOK' /\ ChainOK' /\ OneActiveTokenPerSession' /\ token'[p].status = "active"
  <1>0. RowsOK /\ ChainOK /\ OneActiveTokenPerSession /\ session \in [Token -> Token]
    BY DEF IInv, TypeOK
  <1>1. p \in Token /\ token[p].status = "absent" /\ session[p] = p
    BY DEF Writes
  <1>2. \A t \in Token : tokenLock[t] # p
    BY Names DEF IInv, LocksOK, LockOK
  <1>3. \A t \in Token \ {p} : token'[t] = token[t]
    BY <1>2 DEF Writes
  <1>4. token'[p].user \in User /\ token'[p].status = "active" /\ token'[p].replacedBy = None
    <2>1. PICK u \in User : u = new[p]
      OBVIOUS
    <2>2. token'[p] = Row(u, "active", None)
      BY <2>1, Names DEF Writes
    <2> QED
      BY <2>2, RowFields
  <1>5. \A t \in Token \ {p} : token[t].status # "absent" => session[t] # p
    BY <1>0, <1>1 DEF RowsOK
  <1>6. RowsOK'
    <2> SUFFICES ASSUME NEW t \in Token
                 PROVE  /\ token'[t].status = "absent" => token'[t] = NoRow /\ session[t] = t
                        /\ token'[t].status # "absent" =>
                              token'[t].user \in User /\ token'[session[t]].status # "absent"
                        /\ token'[t].status # "rotated" => token'[t].replacedBy = None
      BY DEF RowsOK
    <2>1. CASE t = p
      BY <1>1, <1>4, <2>1
    <2>2. CASE t # p
      <3>1. session[t] \in Token /\ token'[t] = token[t]
        BY <1>0, <1>3, <2>2
      <3>2. token[t].status # "absent" => token'[session[t]] = token[session[t]]
        BY <1>3, <1>5, <2>2, <3>1
      <3> QED
        BY <1>0, <3>1, <3>2 DEF RowsOK
    <2> QED
      BY <2>1, <2>2
  <1>7. ChainOK'
    <2>1. \A t \in Token : token'[t].status = "rotated" <=> token[t].status = "rotated"
      BY <1>1, <1>3, <1>4
    <2>2. \A t \in Token : token[t].status = "rotated" =>
             /\ token'[t] = token[t] /\ token[t].replacedBy \in Token \ {p}
             /\ token'[token[t].replacedBy] = token[token[t].replacedBy]
      BY <1>0, <1>1, <1>3 DEF ChainOK
    <2>3. \A t \in Token : (token'[t].status # "absent" /\ session[t] # t) => token[t].status # "absent"
      BY <1>1, <1>3
    <2> QED
      BY <1>0, <2>1, <2>2, <2>3 DEF ChainOK
  <1>8. OneActiveTokenPerSession'
    BY <1>0, <1>1, <1>3, <1>5 DEF OneActiveTokenPerSession
  <1> QED
    BY <1>4, <1>6, <1>7, <1>8

\* A refresh: the active token it locked is rotated into its own, in the same
\* session.
LEMMA RefreshRows ==
    ASSUME IInv, NEW p \in Request, Writes(p), pc[p] = "commit", body[p].op = "Refresh",
           session' = [session EXCEPT ![p] = session[body[p].token]]
    PROVE  RowsOK' /\ ChainOK' /\ OneActiveTokenPerSession' /\ token'[p].status = "active"
  <1>0. RowsOK /\ ChainOK /\ OneActiveTokenPerSession /\ session \in [Token -> Token]
    BY DEF IInv, TypeOK
  <1>1. p \in Token /\ token[p].status = "absent" /\ session[p] = p
    BY DEF Writes
  <1>2. PICK b : b = body[p].token
    OBVIOUS
  <1>3. b \in Token /\ tokenLock[b] = p /\ new[p] = token[b].user
    <2>1. CallOK(p) /\ NewOK(p)
      BY DEF IInv
    <2>2. body[p] \in Menu
      BY <2>1 DEF CallOK
    <2> QED
      BY <1>2, <2>1, <2>2, AuthAssumption DEF NewOK
  <1>4. b # p /\ token[b].status = "active" /\ token[b].user \in User
    BY <1>0, <1>3 DEF Writes, RowsOK
  <1>5. \A t \in Token : tokenLock[t] = p => t = b
    <2> SUFFICES ASSUME NEW t \in Token, tokenLock[t] = p PROVE t = b
      OBVIOUS
    <2>1. LockOK(t) /\ tokenLock[t] # None
      BY Names DEF IInv, LocksOK
    <2> QED
      BY <1>2, <2>1 DEF LockOK
  <1>6. \A t \in Token \ {p, b} : token'[t] = token[t]
    BY <1>5 DEF Writes
  <1>7. token'[b].user = token[b].user /\ token'[b].status = "rotated" /\ token'[b].replacedBy = p
    BY <1>3, WrittenFields
  <1>8. /\ token'[p].user = token[b].user /\ token'[p].status = "active"
        /\ token'[p].replacedBy = None
    <2>1. PICK u \in User : u = new[p]
      BY <1>3, <1>4
    <2>2. token'[p] = Row(u, "active", None)
      BY <2>1, Names DEF Writes
    <2> QED
      BY <1>3, <2>1, <2>2, RowFields
  <1>9. /\ session'[p] = session[b] /\ \A t \in Token \ {p} : session'[t] = session[t]
        /\ \A t \in Token : session'[t] \in Token
    BY <1>0, <1>1, <1>2, <1>3
  <1>10. \A t \in Token : token[t].status # "absent" => token'[t].status # "absent" /\ t # p
    BY <1>1, <1>4, <1>6, <1>7
  <1>11. RowsOK'
    <2> SUFFICES ASSUME NEW t \in Token
                 PROVE  /\ token'[t].status = "absent" => token'[t] = NoRow /\ session'[t] = t
                        /\ token'[t].status # "absent" =>
                              token'[t].user \in User /\ token'[session'[t]].status # "absent"
                        /\ token'[t].status # "rotated" => token'[t].replacedBy = None
      BY DEF RowsOK
    <2>1. token[session[b]].status # "absent" /\ session[b] \in Token
      BY <1>0, <1>3, <1>4 DEF RowsOK
    <2>2. CASE t = p
      BY <1>4, <1>8, <1>9, <1>10, <2>1, <2>2
    <2>3. CASE t = b
      BY <1>3, <1>4, <1>7, <1>9, <1>10, <2>1, <2>3
    <2>4. CASE t \notin {p, b}
      <3>1. token'[t] = token[t] /\ session'[t] = session[t] /\ session[t] \in Token
        BY <1>0, <1>6, <1>9, <2>4
      <3> QED
        BY <1>0, <1>10, <3>1 DEF RowsOK
    <2> QED
      BY <2>2, <2>3, <2>4
  <1>12. ChainOK'
    <2>1. ASSUME NEW t \in Token
          PROVE  token'[t].status = "rotated" =>
                    t = b \/ (token[t].status = "rotated" /\ token'[t] = token[t])
      BY <1>6, <1>8
    <2>2. \A t \in Token : token[t].status = "rotated" =>
             /\ token'[t] = token[t] /\ t \notin {p, b} /\ token[t].replacedBy \in Token \ {p}
      BY <1>0, <1>1, <1>4, <1>6 DEF ChainOK
    <2>3. ASSUME NEW t \in Token, token'[t].status = "rotated"
          PROVE  /\ token'[t].replacedBy \in Token
                 /\ token'[token'[t].replacedBy].status # "absent"
                 /\ token'[token'[t].replacedBy].user = token'[t].user
                 /\ session'[token'[t].replacedBy] = session'[t]
      <3>1. CASE t = b
        BY <1>1, <1>3, <1>4, <1>7, <1>8, <1>9, <3>1
      <3>2. CASE t # b
        <4>1. token[t].status = "rotated" /\ token'[t] = token[t] /\ t # p
          BY <1>8, <2>1, <2>3, <3>2
        <4>2. PICK n \in Token : n = token[t].replacedBy
          BY <2>2, <4>1
        <4>3. n # p /\ token[n].status # "absent" /\ token[n].user = token[t].user /\ session[n] = session[t]
          BY <1>0, <2>2, <4>1, <4>2 DEF ChainOK
        <4>4. token'[n].user = token[n].user
          BY <1>6, <1>7, <4>2, <4>3
        <4> QED
          BY <1>9, <1>10, <4>1, <4>2, <4>3, <4>4
      <3> QED
        BY <3>1, <3>2
    <2>4. ASSUME NEW r \in Token, NEW t \in Token, token'[r].status = "rotated",
                 token'[t].status = "rotated", token'[r].replacedBy = token'[t].replacedBy
          PROVE  r = t
      <3>1. \A x \in Token : (token'[x].status = "rotated" /\ x # b) =>
               /\ token[x].status = "rotated" /\ token'[x] = token[x] /\ token'[x].replacedBy # p
        BY <2>1, <2>2
      <3>2. CASE r = b \/ t = b
        BY <1>7, <2>4, <3>1, <3>2
      <3>3. CASE r # b /\ t # b
        BY <1>0, <2>4, <3>1, <3>3 DEF ChainOK
      <3> QED
        BY <3>2, <3>3
    <2>5. ASSUME NEW t \in Token, token'[t].status # "absent", session'[t] # t
          PROVE  \E r \in Token : token'[r].status = "rotated" /\ token'[r].replacedBy = t
      <3>1. CASE t = p
        BY <1>3, <1>7, <3>1
      <3>2. CASE t # p
        <4>1. token[t].status # "absent" /\ session[t] # t
          BY <1>4, <1>6, <1>9, <2>5, <3>2
        <4>2. PICK r \in Token : token[r].status = "rotated" /\ token[r].replacedBy = t
          BY <1>0, <4>1 DEF ChainOK
        <4> QED
          BY <2>2, <4>2
      <3> QED
        BY <3>1, <3>2
    <2> QED
      BY <2>3, <2>4, <2>5 DEF ChainOK
  <1>13. OneActiveTokenPerSession'
    <2>1. ASSUME NEW t \in Token, token'[t].status = "active"
          PROVE  \/ t = p
                 \/ t \notin {p, b} /\ token[t].status = "active" /\ session'[t] = session[t]
                    /\ session[t] # session[b]
      <3>1. t # b
        BY <1>7, <2>1
      <3>2. t # p => token'[t] = token[t] /\ session'[t] = session[t]
        BY <1>6, <1>9, <3>1
      <3> QED
        BY <1>0, <1>3, <1>4, <2>1, <3>1, <3>2 DEF OneActiveTokenPerSession
    <2> QED
      BY <1>0, <1>9, <2>1 DEF OneActiveTokenPerSession
  <1> QED
    BY <1>8, <1>11, <1>12, <1>13

\* The mass revocation commits; no audit row is written.
LEMMA RevokeAllCommitsPreserves ==
    ASSUME IInv, NEW p \in Request, NEW result \in {"ErrRefreshTokenInvalid", "internal"},
           RevokeAllCommits(p, result), faults' \in 0..MaxFaults
    PROVE  IInv'
  <1>0. TypeOK /\ CallOK(p) /\ NewOK(p) /\ pc[p] = "revoke all" /\ audits \subseteq AuditRows
    BY DEF IInv, RevokeAllCommits
  <1>1. Writes(p) /\ token' \in Rows
    BY <1>0, WrittenRows DEF RevokeAllCommits
  <1>2. /\ Finish(p, result) /\ UNCHANGED <<account, expired, audits, body, session>>
        /\ result \in Outcomes \ {"none"}
    BY DEF RevokeAllCommits, Outcomes
  <1>3. new[p] = None
    BY <1>0 DEF NewOK
  <1>4. RowsOK' /\ ChainOK' /\ OneActiveTokenPerSession' /\ token'[p].status = "absent"
    BY <1>0, <1>1, <1>2, <1>3, RevokingRows
  <1>5. DoneOK(p)'
    <2>1. ~Audited(p)' /\ outcome'[p] = result
      BY <1>0, <1>2 DEF CallOK, Audited, Finish, TypeOK
    <2> QED
      BY <1>4, <2>1 DEF DoneOK, Audited
  <1>6. /\ account' \in [User -> {"absent", "active", "disabled"}] /\ audits' \subseteq AuditRows
        /\ session' \in [Token -> Token] /\ audits' = audits
    BY <1>0, <1>2 DEF TypeOK
  <1> QED
    BY <1>0, <1>1, <1>2, <1>4, <1>5, <1>6, WritingPreserves

\* The commit of a transaction, acknowledged or not.
LEMMA PublishPreserves ==
    ASSUME IInv, NEW p \in Request, NEW result \in {"ok", "internal"},
           Publish(p), Finish(p, result), faults' \in 0..MaxFaults
    PROVE  IInv'
  <1>0. TypeOK /\ CallOK(p) /\ NewOK(p) /\ pc[p] = "commit" /\ audits \subseteq AuditRows
    BY DEF IInv, Publish
  <1>1. Writes(p) /\ token' \in Rows
    BY <1>0, WrittenRows DEF Publish
  <1>2. /\ body[p] \in Menu /\ body[p].op \in Operations
        /\ body[p].op \in {"Refresh", "Logout"} => body[p].token \in Token
        /\ body[p].op \in {"Register", "Login"} => body[p].user \in User
        /\ token[p].status = "absent" /\ ~Audited(p)
    <2>1. body[p] \in Menu /\ token[p].status = "absent" /\ ~Audited(p)
      BY <1>0 DEF CallOK
    <2>2. body[p].op \in Operations
      BY <1>0 DEF TypeOK
    <2> QED
      BY <2>1, <2>2, AuthAssumption
  <1>3. PICK act : act = AuditAction(body[p].op)
    OBVIOUS
  <1>4. /\ audits' = audits \cup {[action |-> act, by |-> p]}
        /\ act \in {"user.registered", "user.login", "user.token_refreshed", "user.logout"}
        /\ act \in {"user.login", "user.token_refreshed"} <=> body[p].op \in {"Login", "Refresh"}
    BY <1>2, <1>3 DEF Publish, AuditRow, AuditAction, Operations
  <1>5. /\ audits \subseteq audits' /\ audits' \subseteq AuditRows
        /\ \A a \in audits' \ audits : a.by = p
    BY <1>0, <1>4 DEF AuditRows
  <1>6. /\ UNCHANGED <<expired, body>>
        /\ account' \in [User -> {"absent", "active", "disabled"}]
    BY <1>0 DEF Publish, TypeOK
  <1>7. /\ session' \in [Token -> Token]
        /\ body[p].op # "Refresh" => UNCHANGED session
        /\ body[p].op = "Refresh" => session' = [session EXCEPT ![p] = session[body[p].token]]
    <2>1. p \in Token /\ session \in [Token -> Token]
      BY <1>0, Names DEF TypeOK
    <2>2. CASE body[p].op = "Refresh"
      BY <1>2, <2>1, <2>2 DEF Publish
    <2>3. CASE body[p].op # "Refresh"
      BY <2>1, <2>3 DEF Publish
    <2> QED
      BY <2>2, <2>3
  <1>8. /\ RowsOK' /\ ChainOK' /\ OneActiveTokenPerSession'
        /\ token'[p].status # "absent" <=> body[p].op \in {"Login", "Refresh"}
    <2>1. CASE body[p].op \in {"Register", "Logout"}
      <3>1. new[p] = None
        BY <1>0, <2>1 DEF NewOK
      <3>2. RowsOK' /\ ChainOK' /\ OneActiveTokenPerSession' /\ token'[p].status = "absent"
        BY <1>1, <1>7, <2>1, <3>1, RevokingRows
      <3> QED
        BY <2>1, <3>2
    <2>2. CASE body[p].op = "Login"
      <3>1. new[p] \in User
        BY <1>0, <1>2, <2>2 DEF NewOK
      <3>2. RowsOK' /\ ChainOK' /\ OneActiveTokenPerSession' /\ token'[p].status = "active"
        BY <1>0, <1>1, <1>7, <2>2, <3>1, LoginRows
      <3> QED
        BY <2>2, <3>2
    <2>3. CASE body[p].op = "Refresh"
      <3>1. RowsOK' /\ ChainOK' /\ OneActiveTokenPerSession' /\ token'[p].status = "active"
        BY <1>0, <1>1, <1>7, <2>3, RefreshRows
      <3> QED
        BY <2>3, <3>1
    <2> QED
      BY <1>2, <2>1, <2>2, <2>3 DEF Operations
  <1>9. DoneOK(p)'
    <2>1. outcome'[p] = result
      BY <1>0 DEF Finish, TypeOK
    <2>2. \A a \in audits' : a.by = p => a = [action |-> act, by |-> p]
      BY <1>2, <1>4 DEF Audited
    <2>3. [action |-> act, by |-> p] \in audits'
      BY <1>4
    <2>4. (token'[p].status # "absent") <=>
             \E a \in audits' : a.by = p /\ a.action \in {"user.login", "user.token_refreshed"}
      <3>1. CASE body[p].op \in {"Login", "Refresh"}
        BY <1>4, <1>8, <2>3, <3>1
      <3>2. CASE body[p].op \notin {"Login", "Refresh"}
        BY <1>4, <1>8, <2>2, <3>2
      <3> QED
        BY <3>1, <3>2
    <2>5. \E a \in audits' : a.by = p /\ a.action = AuditAction(body'[p].op)
      <3>1. AuditAction(body'[p].op) = act
        BY <1>3, <1>6
      <3> QED
        BY <2>3, <3>1
    <2>6. body[p].op = "Logout" => Superseded(body[p].token)'
      <3> SUFFICES ASSUME body[p].op = "Logout" PROVE Superseded(body[p].token)'
        OBVIOUS
      <3>1. PICK t \in Token : t = body[p].token
        BY <1>2
      <3>2. tokenLock[t] = p \/ (tokenLock[t] # p /\ token[t].status \in {"rotated", "revoked"})
        BY <1>0, <3>1 DEF NewOK, Superseded
      <3>3. CASE tokenLock[t] = p
        <4>1. token'[t].status = "revoked"
          BY <1>1, <3>3, WrittenFields
        <4> QED
          BY <1>6, <3>1, <4>1 DEF Superseded
      <3>4. CASE tokenLock[t] # p /\ token[t].status \in {"rotated", "revoked"}
        <4>1. token'[t] = token[t]
          BY <1>1, <1>2, <3>4 DEF Writes
        <4> QED
          BY <1>6, <3>1, <3>4, <4>1 DEF Superseded
      <3> QED
        BY <3>2, <3>3, <3>4
    <2>7. body'[p].op = body[p].op
      BY <1>6
    <2> QED
      BY <2>1, <2>4, <2>5, <2>6, <2>7 DEF DoneOK, Audited
  <1>10. result \in Outcomes \ {"none"}
    BY DEF Outcomes
  <1> QED
    BY <1>0, <1>1, <1>5, <1>6, <1>7, <1>8, <1>9, <1>10, WritingPreserves

-----------------------------------------------------------------------------
\* Time and the operator touch neither tokens nor calls.
LEMMA OutsidePreserves ==
    ASSUME IInv, \/ \E t \in Token : Expire(t)
                 \/ \E u \in User : SetUserStatus(u)
                 \/ UNCHANGED vars
    PROVE  IInv'
  <1>1. /\ UNCHANGED <<token, audits, tokenLock, userLock, pc, body, scan, new, outcome, session, faults>>
        /\ account' \in [User -> {"absent", "active", "disabled"}] /\ expired' \subseteq Token
    BY DEF IInv, TypeOK, Expire, SetUserStatus, vars, tables, locks
  <1>2. TypeOK' /\ audits' \subseteq AuditRows
    BY <1>1 DEF IInv, TypeOK
  <1>0. RowsOK /\ ChainOK /\ OneActiveTokenPerSession /\ LocksOK
    BY DEF IInv
  <1>3. RowsOK' /\ OneActiveTokenPerSession'
    BY <1>0, <1>1 DEF RowsOK, OneActiveTokenPerSession
  <1>4. ChainOK'
    BY <1>0, <1>1 DEF ChainOK
  <1>5. LocksOK'
    BY <1>0, <1>1 DEF LocksOK, LockOK
  <1>6. ASSUME NEW p \in Request PROVE CallOK(p)' /\ NewOK(p)' /\ DoneOK(p)'
    <2>0. CallOK(p) /\ NewOK(p) /\ DoneOK(p)
      BY DEF IInv
    <2>1. CallOK(p)'
      BY <1>1, <2>0 DEF CallOK, Audited, Superseded
    <2>2. NewOK(p)'
      BY <1>1, <2>0 DEF NewOK, Superseded
    <2>3. DoneOK(p)'
      BY <1>1, <2>0 DEF DoneOK, Audited, Superseded, AuditAction
    <2> QED
      BY <2>1, <2>2, <2>3
  <1> QED
    BY <1>2, <1>3, <1>4, <1>5, <1>6 DEF IInv

LEMMA NextPreserves == IInv /\ [Next]_vars => IInv'
  <1> SUFFICES ASSUME IInv, [Next]_vars PROVE IInv'
    OBVIOUS
  <1>0. faults \in 0..MaxFaults /\ MaxFaults \in Nat
    BY AuthAssumption DEF IInv, TypeOK
  <1>1. ASSUME NEW p \in Request, Step(p) PROVE IInv'
    <2>1. CASE RevokeAllEnds(p)
      BY <1>0, <2>1, RevokeAllCommitsPreserves DEF RevokeAllEnds
    <2>2. CASE Commit(p)
      BY <1>0, <2>2, PublishPreserves DEF Commit
    <2> QED
      BY <1>1, <2>1, <2>2, InsertUserPreserves, TestsPreserve, CreateTokenPreserves,
         RotatePreserves, RevokePreserves, RevokeAllPreserves, RevokeNextPreserves DEF Step
  <1>2. ASSUME NEW p \in Request, CommitUnacknowledged(p) PROVE IInv'
    <2>1. faults' \in 0..MaxFaults
      BY <1>0, <1>2 DEF CommitUnacknowledged
    <2> QED
      BY <1>2, <2>1, PublishPreserves DEF CommitUnacknowledged
  <1>3. ASSUME NEW p \in Request, RevokeAllUnacknowledged(p) PROVE IInv'
    <2>1. faults' \in 0..MaxFaults
      BY <1>0, <1>3 DEF RevokeAllUnacknowledged
    <2> QED
      BY <1>3, <2>1, RevokeAllCommitsPreserves DEF RevokeAllUnacknowledged
  <1>4. ASSUME NEW p \in Request, Fault(p) PROVE IInv'
    <2>1. faults' \in 0..MaxFaults /\ "internal" \in Outcomes \ {"none", "ok"}
      BY <1>0, <1>4 DEF Fault, Outcomes
    <2> QED
      BY <1>4, <2>1, RollbackPreserves DEF Fault
  <1> QED
    BY <1>1, <1>2, <1>3, <1>4, ReceivePreserves, OutsidePreserves DEF Next

\* The invariant is inductive.
THEOREM InductiveInvariant == Spec => []IInv
  BY InitEstablishes, NextPreserves, PTL DEF Spec

\* The tables, the locks and the calls keep their types.
THEOREM TypeCorrect == Spec => []TypeOK
  <1>1. IInv => TypeOK
    BY DEF IInv
  <1> QED
    BY <1>1, InductiveInvariant, PTL

\* However many refreshes of one token race, a session has at most one active
\* token: the guard of RotateRefreshToken is enough at READ COMMITTED.
THEOREM SessionsNeverFork == Spec => []OneActiveTokenPerSession
  <1>1. IInv => OneActiveTokenPerSession
    BY DEF IInv
  <1> QED
    BY <1>1, InductiveInvariant, PTL

\* Rotations form chains: a rotated token has a successor of its user and
\* session, no two share one, and no issued successor is orphaned.
THEOREM RotationsFormChains == Spec => []RotationChain
  <1>1. IInv => RotationChain
    <2> SUFFICES ASSUME IInv PROVE RotationChain
      OBVIOUS
    <2>0. RowsOK /\ ChainOK
      BY DEF IInv
    <2>1. ASSUME NEW t \in Token, token[t].status = "rotated"
          PROVE  /\ token[t].replacedBy \in Token
                 /\ token[token[t].replacedBy].user = token[t].user
                 /\ session[token[t].replacedBy] = session[t]
      BY <2>0, <2>1 DEF ChainOK
    <2>2. ASSUME NEW t \in Token, token[t].status # "absent", session[t] # t
          PROVE  \E s \in Token : /\ token[s].replacedBy = t
                                   /\ \A r \in Token : token[r].replacedBy = t => r = s
      <3>1. PICK s \in Token : token[s].status = "rotated" /\ token[s].replacedBy = t
        BY <2>0, <2>2 DEF ChainOK
      <3>2. ASSUME NEW r \in Token, token[r].replacedBy = t PROVE r = s
        <4>1. token[r].status = "rotated"
          BY <2>0, <3>2, Names DEF RowsOK
        <4> QED
          BY <2>0, <3>1, <3>2, <4>1 DEF ChainOK
      <3> QED
        BY <3>1, <3>2
    <2> QED
      BY <2>1, <2>2 DEF RotationChain
  <1> QED
    BY <1>1, InductiveInvariant, PTL

\* The audit log agrees with the tables, whatever races, fails or is lost.
THEOREM AuditIsExact == Spec => []AuditMatchesTables
  <1>1. IInv => AuditMatchesTables
    BY DEF IInv, DoneOK, Audited, AuditMatchesTables
  <1> QED
    BY <1>1, InductiveInvariant, PTL

\* A logout that answered 204 is final for the token it named.
THEOREM LogoutIsFinal == Spec => []LogoutSticks
  <1>1. IInv => LogoutSticks
    BY DEF IInv, DoneOK, Superseded, LogoutSticks
  <1> QED
    BY <1>1, InductiveInvariant, PTL

\* The steps that write tokens.
LEMMA WhoWrites ==
    ASSUME IInv, [Next]_vars
    PROVE  \/ UNCHANGED token
           \/ \E p \in Request : pc[p] \in {"commit", "revoke all"} /\ Writes(p)
  <1>1. ASSUME NEW p \in Request, Publish(p)
        PROVE  pc[p] \in {"commit", "revoke all"} /\ Writes(p)
    BY <1>1, WrittenRows DEF Publish
  <1>2. ASSUME NEW p \in Request, NEW result, RevokeAllCommits(p, result)
        PROVE  pc[p] \in {"commit", "revoke all"} /\ Writes(p)
    BY <1>2, WrittenRows DEF RevokeAllCommits
  <1>3. ASSUME NEW p \in Request, Step(p)
        PROVE  UNCHANGED token \/ (pc[p] \in {"commit", "revoke all"} /\ Writes(p))
    BY <1>1, <1>2, <1>3 DEF Step, InsertUser, CheckCredentials, Lookup, CheckUser, CreateToken,
       Rotate, Revoke, RevokeAll, RevokeNext, RevokeAllEnds, Commit, Rollback, tables
  <1>4. ASSUME NEW p \in Request,
               \/ \E b \in Menu : Receive(p, b)
               \/ CommitUnacknowledged(p) \/ RevokeAllUnacknowledged(p) \/ Fault(p)
        PROVE  UNCHANGED token \/ (pc[p] \in {"commit", "revoke all"} /\ Writes(p))
    BY <1>1, <1>2, <1>4 DEF Receive, CommitUnacknowledged, RevokeAllUnacknowledged, Fault, tables
  <1>5. CASE \/ \E t \in Token : Expire(t)
             \/ \E u \in User : SetUserStatus(u)
             \/ UNCHANGED vars
    BY <1>5 DEF Expire, SetUserStatus, vars, tables
  <1> QED
    BY <1>3, <1>4, <1>5 DEF Next

\* A superseded token never changes again.
THEOREM SupersededForGood == Spec => SpentForGood
  <1> DEFINE Kept == \A t \in Token : token[t].status \in {"rotated", "revoked"} => token'[t] = token[t]
  <1>1. IInv /\ [Next]_vars => [Kept]_vars
    <2> SUFFICES ASSUME IInv, [Next]_vars PROVE Kept
      OBVIOUS
    <2>1. CASE UNCHANGED token
      BY <2>1
    <2>2. ASSUME NEW p \in Request, Writes(p) PROVE Kept
      BY <2>2 DEF Writes
    <2> QED
      BY <2>1, <2>2, WhoWrites
  <1> QED
    BY <1>1, InductiveInvariant, PTL DEF Spec, SpentForGood

\* No token is revoked but by a logout that names it or by the reuse of a
\* superseded token of its user.
THEOREM RevocationsHaveCauses == Spec => RevokedForCause
  <1> DEFINE Cause(t) ==
         \E p \in Request :
            \/ body[p].op = "Logout" /\ pc[p] = "commit" /\ body[p].token = t
            \/ /\ body[p].op = "Refresh" /\ pc[p] = "revoke all"
               /\ token[body[p].token].status \in {"rotated", "revoked"}
               /\ token[body[p].token].user = token[t].user
      Caused == \A t \in Token :
         (token[t].status = "active" /\ token'[t].status = "revoked") => Cause(t)
  <1>1. IInv /\ [Next]_vars => [Caused]_vars
    <2> SUFFICES ASSUME IInv, [Next]_vars, NEW t \in Token,
                        token[t].status = "active", token'[t].status = "revoked"
                 PROVE  Cause(t)
      OBVIOUS
    <2>1. PICK p \in Request : pc[p] \in {"commit", "revoke all"} /\ Writes(p)
      BY WhoWrites
    <2>2. tokenLock[t] = p
      BY <2>1 DEF Writes
    <2>3. LockOK(t) /\ tokenLock[t] # None
      BY <2>2, Names DEF IInv, LocksOK
    <2>4. ~(body[p].op = "Refresh" /\ pc[p] = "commit")
      BY <2>1, <2>2, WrittenFields
    <2>5. CASE pc[p] = "commit"
      BY <2>2, <2>3, <2>4, <2>5 DEF LockOK
    <2>6. CASE pc[p] = "revoke all"
      <3>1. CallOK(p)
        BY DEF IInv
      <3>2. body[p].op = "Refresh" /\ Superseded(body[p].token)
        BY <2>6, <3>1 DEF CallOK, StepsOf
      <3>3. token[t].user = token[body[p].token].user
        BY <2>2, <2>3, <2>6 DEF LockOK
      <3> QED
        BY <2>6, <3>2, <3>3 DEF Superseded
    <2> QED
      BY <2>1, <2>5, <2>6
  <1> QED
    BY <1>1, InductiveInvariant, PTL DEF Spec, RevokedForCause

=============================================================================
