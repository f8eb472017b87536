------------------------- MODULE IdempotencyProofs -------------------------
(***************************************************************************)
(* Proofs about Idempotency, for any number of requests, any leases and    *)
(* any clock skew.                                                         *)
(*                                                                         *)
(* The argument: a claim is granted only when its stamp is beyond the      *)
(* row's expiry, and the expiry is at least a lease beyond the row's       *)
(* created_at (RowOK).  So tokens only grow, a superseded holder's token   *)
(* is more than a lease behind the row (HolderOK), and created_at names    *)
(* one holder only.  Everything stored under a token is then its holder's. *)
(***************************************************************************)
EXTENDS Idempotency, TLAPS

\* A row without a claim has no hash; any other expires a lease after its
\* created_at or later.
RowOK ==
    /\ rec.status = "absent" => rec.hash = None
    /\ rec.status # "absent" => rec.created + Lease <= rec.expires

\* A request under a claim holds the row's token or an older one; with the
\* row's token, the row is about its request and stores nobody else's answer.
HolderOK ==
    \A p \in Attempt :
       Claimed(p) =>
          /\ rec.status # "absent"
          /\ stamp[p] = rec.created \/ stamp[p] + Lease < rec.created
          /\ stamp[p] = rec.created => rec.hash = hash[p]
          /\ (stamp[p] = rec.created /\ rec.status = "completed") => rec.by = p

\* What a request's progress says of its hash, its answer and its tries.
AttemptOK ==
    \A p \in Attempt :
       /\ pc[p] \in {"claim", "get", "handler", "complete"} => hash[p] \in Hash
       /\ pc[p] \notin {"complete", "done"} => tries[p] = 0
       /\ pc[p] = "complete" => /\ answer[p] = Answer("ran", p, code[p])
                                /\ tries[p] < CompleteRetryAttempts
                                /\ code[p] = "success" => p \in executed
       /\ answer[p].kind # "none" => pc[p] \in {"complete", "done"}

\* The stored response was sent to the client of the request it came from.
ResponseOK ==
    rec.status = "completed" =>
       /\ rec.by \in Attempt
       /\ answer[rec.by] = Answer("ran", rec.by, rec.code)
       /\ rec.code = "success" => rec.by \in executed

\* The inductive invariant.
IInv ==
    /\ TypeOK
    /\ RowOK
    /\ HolderOK
    /\ AttemptOK
    /\ ResponseOK
    /\ ClaimsAreSpaced
    /\ StoredResponseIsOwn
    /\ ReplayIsGenuine

-----------------------------------------------------------------------------
\* The invariant holds before the first request.
LEMMA InitEstablishes == Init => IInv
  BY ParametersAssumption
  DEF Init, IInv, TypeOK, RowOK, HolderOK, AttemptOK, ResponseOK, ClaimsAreSpaced,
      StoredResponseIsOwn, ReplayIsGenuine, NoRecord, Row, Answer, RecordType, Codes, Kinds,
      Steps, Claimed

\* An early return answers the client and touches nothing else.
LEMMA RefusePreserves ==
  ASSUME IInv, NEW p \in Attempt, Refuse(p)
  PROVE  IInv'
<1>1. TypeOK'
  BY ParametersAssumption DEF IInv, TypeOK, RecordType, Codes, Kinds,
      Steps, Row, Answer, AttemptOK, RowOK, ResponseOK, Refuse, Return
<1>2. RowOK'
  BY ParametersAssumption DEF IInv, RowOK, TypeOK, RecordType, Row,
      HolderOK, Claimed, Refuse, Return
<1>3. HolderOK'
  BY ParametersAssumption DEF IInv, HolderOK, RowOK, TypeOK, RecordType,
      Row, Claimed, ClaimsAreSpaced, Refuse, Return
<1>4. AttemptOK'
  BY ParametersAssumption DEF IInv, AttemptOK, TypeOK, Answer, Refuse,
      Return
<1>5. ResponseOK'
  BY ParametersAssumption DEF IInv, ResponseOK, AttemptOK, TypeOK,
      RecordType, Row, Answer, Refuse, Return
<1>6. ClaimsAreSpaced'
  BY ParametersAssumption DEF IInv, ClaimsAreSpaced, HolderOK, RowOK,
      TypeOK, RecordType, Row, Claimed, Refuse, Return
<1>7. StoredResponseIsOwn'
  BY ParametersAssumption DEF IInv, StoredResponseIsOwn, ResponseOK,
      AttemptOK, HolderOK, TypeOK, RecordType, Row, Answer, Claimed,
      Refuse, Return
<1>8. ReplayIsGenuine'
  BY ParametersAssumption DEF IInv, ReplayIsGenuine, StoredResponseIsOwn,
      ResponseOK, AttemptOK, RowOK, TypeOK, RecordType, Answer, Codes,
      Refuse, Return
<1>. QED  BY <1>1, <1>2, <1>3, <1>4, <1>5, <1>6, <1>7, <1>8 DEF IInv

\* A received request reads its clock; it holds no claim yet.
LEMMA ReceivePreserves ==
  ASSUME IInv, NEW p \in Attempt, Receive(p)
  PROVE  IInv'
<1>1. TypeOK'
  BY ParametersAssumption DEF IInv, TypeOK, RecordType, Codes, Kinds,
      Steps, Row, Answer, AttemptOK, RowOK, ResponseOK, Receive
<1>2. RowOK'
  BY ParametersAssumption DEF IInv, RowOK, TypeOK, RecordType, Row,
      HolderOK, Claimed, Receive
<1>3. HolderOK'
  BY ParametersAssumption DEF IInv, HolderOK, RowOK, TypeOK, RecordType,
      Row, Claimed, ClaimsAreSpaced, Receive
<1>4. AttemptOK'
  BY ParametersAssumption DEF IInv, AttemptOK, TypeOK, Answer, Receive
<1>5. ResponseOK'
  BY ParametersAssumption DEF IInv, ResponseOK, AttemptOK, TypeOK,
      RecordType, Row, Answer, Receive
<1>6. ClaimsAreSpaced'
  BY ParametersAssumption DEF IInv, ClaimsAreSpaced, HolderOK, RowOK,
      TypeOK, RecordType, Row, Claimed, Receive
<1>7. StoredResponseIsOwn'
  BY ParametersAssumption DEF IInv, StoredResponseIsOwn, ResponseOK,
      AttemptOK, HolderOK, TypeOK, RecordType, Row, Answer, Claimed,
      Receive
<1>8. ReplayIsGenuine'
  BY ParametersAssumption DEF IInv, ReplayIsGenuine, StoredResponseIsOwn,
      ResponseOK, AttemptOK, RowOK, TypeOK, RecordType, Answer, Codes,
      Receive
<1>. QED  BY <1>1, <1>2, <1>3, <1>4, <1>5, <1>6, <1>7, <1>8 DEF IInv

\* A granted claim has a stamp beyond the row's expiry, hence more than a
\* lease beyond every token handed out before.
LEMMA ClaimPreserves ==
  ASSUME IInv, NEW p \in Attempt, Claim(p)
  PROVE  IInv'
<1>1. TypeOK'
  BY ParametersAssumption DEF IInv, TypeOK, RecordType, Codes, Kinds,
      Steps, Row, Answer, AttemptOK, RowOK, ResponseOK, Claim, ClaimRow,
      Claimable
<1>2. RowOK'
  BY ParametersAssumption DEF IInv, RowOK, TypeOK, RecordType, Row,
      HolderOK, Claimed, Claim, ClaimRow, Claimable
<1>3. HolderOK'
  BY ParametersAssumption DEF IInv, HolderOK, RowOK, TypeOK, RecordType,
      Row, Claimed, ClaimsAreSpaced, Claim, ClaimRow, Claimable
<1>4. AttemptOK'
  BY ParametersAssumption DEF IInv, AttemptOK, TypeOK, Answer, Claim,
      ClaimRow, Claimable
<1>5. ResponseOK'
  BY ParametersAssumption DEF IInv, ResponseOK, AttemptOK, TypeOK,
      RecordType, Row, Answer, Claim, ClaimRow, Claimable
<1>6. ClaimsAreSpaced'
  BY ParametersAssumption DEF IInv, ClaimsAreSpaced, HolderOK, RowOK,
      TypeOK, RecordType, Row, Claimed, Claim, ClaimRow, Claimable
<1>7. StoredResponseIsOwn'
  BY ParametersAssumption DEF IInv, StoredResponseIsOwn, ResponseOK,
      AttemptOK, HolderOK, TypeOK, RecordType, Row, Answer, Claimed,
      Claim, ClaimRow, Claimable
<1>8. ReplayIsGenuine'
  BY ParametersAssumption DEF IInv, ReplayIsGenuine, StoredResponseIsOwn,
      ResponseOK, AttemptOK, RowOK, TypeOK, RecordType, Answer, Codes,
      Claim, ClaimRow, Claimable
<1>. QED  BY <1>1, <1>2, <1>3, <1>4, <1>5, <1>6, <1>7, <1>8 DEF IInv

\* A claim whose answer is lost supersedes the older ones as a granted one
\* does.
LEMMA ClaimUnacknowledgedPreserves ==
  ASSUME IInv, NEW p \in Attempt, ClaimUnacknowledged(p)
  PROVE  IInv'
<1>1. TypeOK'
  BY ParametersAssumption DEF IInv, TypeOK, RecordType, Codes, Kinds,
      Steps, Row, Answer, AttemptOK, RowOK, ResponseOK,
      ClaimUnacknowledged, ClaimRow, Claimable, Return
<1>2. RowOK'
  BY ParametersAssumption DEF IInv, RowOK, TypeOK, RecordType, Row,
      HolderOK, Claimed, ClaimUnacknowledged, ClaimRow, Claimable, Return
<1>3. HolderOK'
  BY ParametersAssumption DEF IInv, HolderOK, RowOK, TypeOK, RecordType,
      Row, Claimed, ClaimsAreSpaced, ClaimUnacknowledged, ClaimRow,
      Claimable, Return
<1>4. AttemptOK'
  BY ParametersAssumption DEF IInv, AttemptOK, TypeOK, Answer,
      ClaimUnacknowledged, ClaimRow, Claimable, Return
<1>5. ResponseOK'
  BY ParametersAssumption DEF IInv, ResponseOK, AttemptOK, TypeOK,
      RecordType, Row, Answer, ClaimUnacknowledged, ClaimRow, Claimable,
      Return
<1>6. ClaimsAreSpaced'
  BY ParametersAssumption DEF IInv, ClaimsAreSpaced, HolderOK, RowOK,
      TypeOK, RecordType, Row, Claimed, ClaimUnacknowledged, ClaimRow,
      Claimable, Return
<1>7. StoredResponseIsOwn'
  BY ParametersAssumption DEF IInv, StoredResponseIsOwn, ResponseOK,
      AttemptOK, HolderOK, TypeOK, RecordType, Row, Answer, Claimed,
      ClaimUnacknowledged, ClaimRow, Claimable, Return
<1>8. ReplayIsGenuine'
  BY ParametersAssumption DEF IInv, ReplayIsGenuine, StoredResponseIsOwn,
      ResponseOK, AttemptOK, RowOK, TypeOK, RecordType, Answer, Codes,
      ClaimUnacknowledged, ClaimRow, Claimable, Return
<1>. QED  BY <1>1, <1>2, <1>3, <1>4, <1>5, <1>6, <1>7, <1>8 DEF IInv

\* A failed query answers the client and touches nothing else.
LEMMA ClaimOrGetFailsPreserves ==
  ASSUME IInv, NEW p \in Attempt, ClaimOrGetFails(p)
  PROVE  IInv'
<1>1. TypeOK'
  BY ParametersAssumption DEF IInv, TypeOK, RecordType, Codes, Kinds,
      Steps, Row, Answer, AttemptOK, RowOK, ResponseOK, ClaimOrGetFails,
      Return
<1>2. RowOK'
  BY ParametersAssumption DEF IInv, RowOK, TypeOK, RecordType, Row,
      HolderOK, Claimed, ClaimOrGetFails, Return
<1>3. HolderOK'
  BY ParametersAssumption DEF IInv, HolderOK, RowOK, TypeOK, RecordType,
      Row, Claimed, ClaimsAreSpaced, ClaimOrGetFails, Return
<1>4. AttemptOK'
  BY ParametersAssumption DEF IInv, AttemptOK, TypeOK, Answer,
      ClaimOrGetFails, Return
<1>5. ResponseOK'
  BY ParametersAssumption DEF IInv, ResponseOK, AttemptOK, TypeOK,
      RecordType, Row, Answer, ClaimOrGetFails, Return
<1>6. ClaimsAreSpaced'
  BY ParametersAssumption DEF IInv, ClaimsAreSpaced, HolderOK, RowOK,
      TypeOK, RecordType, Row, Claimed, ClaimOrGetFails, Return
<1>7. StoredResponseIsOwn'
  BY ParametersAssumption DEF IInv, StoredResponseIsOwn, ResponseOK,
      AttemptOK, HolderOK, TypeOK, RecordType, Row, Answer, Claimed,
      ClaimOrGetFails, Return
<1>8. ReplayIsGenuine'
  BY ParametersAssumption DEF IInv, ReplayIsGenuine, StoredResponseIsOwn,
      ResponseOK, AttemptOK, RowOK, TypeOK, RecordType, Answer, Codes,
      ClaimOrGetFails, Return
<1>. QED  BY <1>1, <1>2, <1>3, <1>4, <1>5, <1>6, <1>7, <1>8 DEF IInv

\* What is replayed is the stored response, which is its holder's own.
LEMMA GetExistingPreserves ==
  ASSUME IInv, NEW p \in Attempt, GetExisting(p)
  PROVE  IInv'
<1>1. TypeOK'
  BY ParametersAssumption DEF IInv, TypeOK, RecordType, Codes, Kinds,
      Steps, Row, Answer, AttemptOK, RowOK, ResponseOK, GetExisting,
      HandleExisting, Return
<1>2. RowOK'
  BY ParametersAssumption DEF IInv, RowOK, TypeOK, RecordType, Row,
      HolderOK, Claimed, GetExisting, HandleExisting, Return
<1>3. HolderOK'
  BY ParametersAssumption DEF IInv, HolderOK, RowOK, TypeOK, RecordType,
      Row, Claimed, ClaimsAreSpaced, GetExisting, HandleExisting, Return
<1>4. AttemptOK'
  BY ParametersAssumption DEF IInv, AttemptOK, TypeOK, Answer,
      GetExisting, HandleExisting, Return
<1>5. ResponseOK'
  BY ParametersAssumption DEF IInv, ResponseOK, AttemptOK, TypeOK,
      RecordType, Row, Answer, GetExisting, HandleExisting, Return
<1>6. ClaimsAreSpaced'
  BY ParametersAssumption DEF IInv, ClaimsAreSpaced, HolderOK, RowOK,
      TypeOK, RecordType, Row, Claimed, GetExisting, HandleExisting,
      Return
<1>7. StoredResponseIsOwn'
  BY ParametersAssumption DEF IInv, StoredResponseIsOwn, ResponseOK,
      AttemptOK, HolderOK, TypeOK, RecordType, Row, Answer, Claimed,
      GetExisting, HandleExisting, Return
<1>8. ReplayIsGenuine'
  BY ParametersAssumption DEF IInv, ReplayIsGenuine, StoredResponseIsOwn,
      ResponseOK, AttemptOK, RowOK, TypeOK, RecordType, Answer, Codes,
      GetExisting, HandleExisting, Return
<1>. QED  BY <1>1, <1>2, <1>3, <1>4, <1>5, <1>6, <1>7, <1>8 DEF IInv

\* An effect only adds to executed.
LEMMA TakeEffectPreserves ==
  ASSUME IInv, NEW p \in Attempt, TakeEffect(p)
  PROVE  IInv'
<1>1. TypeOK'
  BY ParametersAssumption DEF IInv, TypeOK, RecordType, Codes, Kinds,
      Steps, Row, Answer, AttemptOK, RowOK, ResponseOK, TakeEffect
<1>2. RowOK'
  BY ParametersAssumption DEF IInv, RowOK, TypeOK, RecordType, Row,
      HolderOK, Claimed, TakeEffect
<1>3. HolderOK'
  BY ParametersAssumption DEF IInv, HolderOK, RowOK, TypeOK, RecordType,
      Row, Claimed, ClaimsAreSpaced, TakeEffect
<1>4. AttemptOK'
  BY ParametersAssumption DEF IInv, AttemptOK, TypeOK, Answer, TakeEffect
<1>5. ResponseOK'
  BY ParametersAssumption DEF IInv, ResponseOK, AttemptOK, TypeOK,
      RecordType, Row, Answer, TakeEffect
<1>6. ClaimsAreSpaced'
  BY ParametersAssumption DEF IInv, ClaimsAreSpaced, HolderOK, RowOK,
      TypeOK, RecordType, Row, Claimed, TakeEffect
<1>7. StoredResponseIsOwn'
  BY ParametersAssumption DEF IInv, StoredResponseIsOwn, ResponseOK,
      AttemptOK, HolderOK, TypeOK, RecordType, Row, Answer, Claimed,
      TakeEffect
<1>8. ReplayIsGenuine'
  BY ParametersAssumption DEF IInv, ReplayIsGenuine, StoredResponseIsOwn,
      ResponseOK, AttemptOK, RowOK, TypeOK, RecordType, Answer, Codes,
      TakeEffect
<1>. QED  BY <1>1, <1>2, <1>3, <1>4, <1>5, <1>6, <1>7, <1>8 DEF IInv

\* The response is recorded and sent before anything is stored.
LEMMA RespondPreserves ==
  ASSUME IInv, NEW p \in Attempt, Respond(p)
  PROVE  IInv'
<1>1. TypeOK'
  BY ParametersAssumption DEF IInv, TypeOK, RecordType, Codes, Kinds,
      Steps, Row, Answer, AttemptOK, RowOK, ResponseOK, Respond
<1>2. RowOK'
  BY ParametersAssumption DEF IInv, RowOK, TypeOK, RecordType, Row,
      HolderOK, Claimed, Respond
<1>3. HolderOK'
  BY ParametersAssumption DEF IInv, HolderOK, RowOK, TypeOK, RecordType,
      Row, Claimed, ClaimsAreSpaced, Respond
<1>4. AttemptOK'
  BY ParametersAssumption DEF IInv, AttemptOK, TypeOK, Answer, Respond
<1>5. ResponseOK'
  BY ParametersAssumption DEF IInv, ResponseOK, AttemptOK, TypeOK,
      RecordType, Row, Answer, Respond
<1>6. ClaimsAreSpaced'
  BY ParametersAssumption DEF IInv, ClaimsAreSpaced, HolderOK, RowOK,
      TypeOK, RecordType, Row, Claimed, Respond
<1>7. StoredResponseIsOwn'
  BY ParametersAssumption DEF IInv, StoredResponseIsOwn, ResponseOK,
      AttemptOK, HolderOK, TypeOK, RecordType, Row, Answer, Claimed,
      Respond
<1>8. ReplayIsGenuine'
  BY ParametersAssumption DEF IInv, ReplayIsGenuine, StoredResponseIsOwn,
      ResponseOK, AttemptOK, RowOK, TypeOK, RecordType, Answer, Codes,
      Respond
<1>. QED  BY <1>1, <1>2, <1>3, <1>4, <1>5, <1>6, <1>7, <1>8 DEF IInv

\* A panic leaves the row to its lease.
LEMMA PanicPreserves ==
  ASSUME IInv, NEW p \in Attempt, Panic(p)
  PROVE  IInv'
<1>1. TypeOK'
  BY ParametersAssumption DEF IInv, TypeOK, RecordType, Codes, Kinds,
      Steps, Row, Answer, AttemptOK, RowOK, ResponseOK, Panic, Return
<1>2. RowOK'
  BY ParametersAssumption DEF IInv, RowOK, TypeOK, RecordType, Row,
      HolderOK, Claimed, Panic, Return
<1>3. HolderOK'
  BY ParametersAssumption DEF IInv, HolderOK, RowOK, TypeOK, RecordType,
      Row, Claimed, ClaimsAreSpaced, Panic, Return
<1>4. AttemptOK'
  BY ParametersAssumption DEF IInv, AttemptOK, TypeOK, Answer, Panic,
      Return
<1>5. ResponseOK'
  BY ParametersAssumption DEF IInv, ResponseOK, AttemptOK, TypeOK,
      RecordType, Row, Answer, Panic, Return
<1>6. ClaimsAreSpaced'
  BY ParametersAssumption DEF IInv, ClaimsAreSpaced, HolderOK, RowOK,
      TypeOK, RecordType, Row, Claimed, Panic, Return
<1>7. StoredResponseIsOwn'
  BY ParametersAssumption DEF IInv, StoredResponseIsOwn, ResponseOK,
      AttemptOK, HolderOK, TypeOK, RecordType, Row, Answer, Claimed,
      Panic, Return
<1>8. ReplayIsGenuine'
  BY ParametersAssumption DEF IInv, ReplayIsGenuine, StoredResponseIsOwn,
      ResponseOK, AttemptOK, RowOK, TypeOK, RecordType, Answer, Codes,
      Panic, Return
<1>. QED  BY <1>1, <1>2, <1>3, <1>4, <1>5, <1>6, <1>7, <1>8 DEF IInv

\* Only the holder of the row's token writes it, and writes its own response.
LEMMA CompletePreserves ==
  ASSUME IInv, NEW p \in Attempt, Complete(p)
  PROVE  IInv'
<1>1. TypeOK'
  BY ParametersAssumption DEF IInv, TypeOK, RecordType, Codes, Kinds,
      Steps, Row, Answer, AttemptOK, RowOK, ResponseOK, Complete, Fenced,
      CompleteWrite, CompletedRow
<1>2. RowOK'
  BY ParametersAssumption DEF IInv, RowOK, TypeOK, RecordType, Row,
      HolderOK, Claimed, Complete, Fenced, CompleteWrite, CompletedRow
<1>3. HolderOK'
  BY ParametersAssumption DEF IInv, HolderOK, RowOK, TypeOK, RecordType,
      Row, Claimed, ClaimsAreSpaced, Complete, Fenced, CompleteWrite,
      CompletedRow
<1>4. AttemptOK'
  BY ParametersAssumption DEF IInv, AttemptOK, TypeOK, Answer, Complete,
      Fenced, CompleteWrite, CompletedRow
<1>5. ResponseOK'
  BY ParametersAssumption DEF IInv, ResponseOK, AttemptOK, TypeOK,
      RecordType, Row, Answer, Complete, Fenced, CompleteWrite,
      CompletedRow
<1>6. ClaimsAreSpaced'
  BY ParametersAssumption DEF IInv, ClaimsAreSpaced, HolderOK, RowOK,
      TypeOK, RecordType, Row, Claimed, Complete, Fenced, CompleteWrite,
      CompletedRow
<1>7. StoredResponseIsOwn'
  BY ParametersAssumption DEF IInv, StoredResponseIsOwn, ResponseOK,
      AttemptOK, HolderOK, TypeOK, RecordType, Row, Answer, Claimed,
      Complete, Fenced, CompleteWrite, CompletedRow
<1>8. ReplayIsGenuine'
  BY ParametersAssumption DEF IInv, ReplayIsGenuine, StoredResponseIsOwn,
      ResponseOK, AttemptOK, RowOK, TypeOK, RecordType, Answer, Codes,
      Complete, Fenced, CompleteWrite, CompletedRow
<1>. QED  BY <1>1, <1>2, <1>3, <1>4, <1>5, <1>6, <1>7, <1>8 DEF IInv

\* A failed Complete writes what Complete writes, or nothing, and is counted.
LEMMA CompleteFailsPreserves ==
  ASSUME IInv, NEW p \in Attempt, CompleteFails(p)
  PROVE  IInv'
<1>1. TypeOK'
  BY ParametersAssumption DEF IInv, TypeOK, RecordType, Codes, Kinds,
      Steps, Row, Answer, AttemptOK, RowOK, ResponseOK, CompleteFails,
      Fenced, CompleteWrite, CompletedRow, AfterFailure
<1>2. RowOK'
  BY ParametersAssumption DEF IInv, RowOK, TypeOK, RecordType, Row,
      HolderOK, Claimed, CompleteFails, Fenced, CompleteWrite,
      CompletedRow, AfterFailure
<1>3. HolderOK'
  BY ParametersAssumption DEF IInv, HolderOK, RowOK, TypeOK, RecordType,
      Row, Claimed, ClaimsAreSpaced, CompleteFails, Fenced, CompleteWrite,
      CompletedRow, AfterFailure
<1>4. AttemptOK'
  BY ParametersAssumption DEF IInv, AttemptOK, TypeOK, Answer,
      CompleteFails, Fenced, CompleteWrite, CompletedRow, AfterFailure
<1>5. ResponseOK'
  BY ParametersAssumption DEF IInv, ResponseOK, AttemptOK, TypeOK,
      RecordType, Row, Answer, CompleteFails, Fenced, CompleteWrite,
      CompletedRow, AfterFailure
<1>6. ClaimsAreSpaced'
  BY ParametersAssumption DEF IInv, ClaimsAreSpaced, HolderOK, RowOK,
      TypeOK, RecordType, Row, Claimed, CompleteFails, Fenced,
      CompleteWrite, CompletedRow, AfterFailure
<1>7. StoredResponseIsOwn'
  BY ParametersAssumption DEF IInv, StoredResponseIsOwn, ResponseOK,
      AttemptOK, HolderOK, TypeOK, RecordType, Row, Answer, Claimed,
      CompleteFails, Fenced, CompleteWrite, CompletedRow, AfterFailure
<1>8. ReplayIsGenuine'
  BY ParametersAssumption DEF IInv, ReplayIsGenuine, StoredResponseIsOwn,
      ResponseOK, AttemptOK, RowOK, TypeOK, RecordType, Answer, Codes,
      CompleteFails, Fenced, CompleteWrite, CompletedRow, AfterFailure
<1>. QED  BY <1>1, <1>2, <1>3, <1>4, <1>5, <1>6, <1>7, <1>8 DEF IInv

\* A crash leaves the row to its lease.
LEMMA CrashPreserves ==
  ASSUME IInv, NEW p \in Attempt, Crash(p)
  PROVE  IInv'
<1>1. TypeOK'
  BY ParametersAssumption DEF IInv, TypeOK, RecordType, Codes, Kinds,
      Steps, Row, Answer, AttemptOK, RowOK, ResponseOK, Crash
<1>2. RowOK'
  BY ParametersAssumption DEF IInv, RowOK, TypeOK, RecordType, Row,
      HolderOK, Claimed, Crash
<1>3. HolderOK'
  BY ParametersAssumption DEF IInv, HolderOK, RowOK, TypeOK, RecordType,
      Row, Claimed, ClaimsAreSpaced, Crash
<1>4. AttemptOK'
  BY ParametersAssumption DEF IInv, AttemptOK, TypeOK, Answer, Crash
<1>5. ResponseOK'
  BY ParametersAssumption DEF IInv, ResponseOK, AttemptOK, TypeOK,
      RecordType, Row, Answer, Crash
<1>6. ClaimsAreSpaced'
  BY ParametersAssumption DEF IInv, ClaimsAreSpaced, HolderOK, RowOK,
      TypeOK, RecordType, Row, Claimed, Crash
<1>7. StoredResponseIsOwn'
  BY ParametersAssumption DEF IInv, StoredResponseIsOwn, ResponseOK,
      AttemptOK, HolderOK, TypeOK, RecordType, Row, Answer, Claimed, Crash
<1>8. ReplayIsGenuine'
  BY ParametersAssumption DEF IInv, ReplayIsGenuine, StoredResponseIsOwn,
      ResponseOK, AttemptOK, RowOK, TypeOK, RecordType, Answer, Codes,
      Crash
<1>. QED  BY <1>1, <1>2, <1>3, <1>4, <1>5, <1>6, <1>7, <1>8 DEF IInv

\* Nothing the invariant speaks of depends on time.
LEMMA TickPreserves ==
  ASSUME IInv, Tick
  PROVE  IInv'
  BY DEF IInv, Tick, TypeOK, RowOK, HolderOK, AttemptOK, ResponseOK, ClaimsAreSpaced,
         StoredResponseIsOwn, ReplayIsGenuine, Claimed

\* Every step preserves the invariant.
LEMMA NextPreserves == IInv /\ [Next]_vars => IInv'
<1>. SUFFICES ASSUME IInv, [Next]_vars PROVE IInv'
  OBVIOUS
<1>1. CASE UNCHANGED vars
  BY <1>1 DEF vars, IInv, TypeOK, RowOK, HolderOK, AttemptOK, ResponseOK, ClaimsAreSpaced,
     StoredResponseIsOwn, ReplayIsGenuine, Claimed
<1>2. CASE Tick
  BY <1>2, TickPreserves
<1>3. ASSUME NEW p \in Attempt, Step(p) PROVE IInv'
  BY <1>3, RefusePreserves, ReceivePreserves, ClaimPreserves, ClaimUnacknowledgedPreserves, ClaimOrGetFailsPreserves, GetExistingPreserves,
     TakeEffectPreserves, RespondPreserves, PanicPreserves, CompletePreserves, CompleteFailsPreserves, CrashPreserves DEF Step
<1>. QED  BY <1>1, <1>2, <1>3 DEF Next

\* The invariant is inductive.
THEOREM InductiveInvariant == Spec => []IInv
<1>. QED  BY InitEstablishes, NextPreserves, PTL DEF Spec

\* Type correctness.
THEOREM TypeCorrect == Spec => []TypeOK
<1>1. IInv => TypeOK
  BY DEF IInv
<1>. QED  BY <1>1, InductiveInvariant, PTL

\* ClaimOrGet never lets two requests work under claims whose tokens, each a
\* reading of its server's clock, are less than a lease apart, whatever the
\* skew, the delays and the failures.  It says nothing of real time.
THEOREM ClaimsStaySpaced == Spec => []ClaimsAreSpaced
<1>1. IInv => ClaimsAreSpaced
  BY DEF IInv
<1>. QED  BY <1>1, InductiveInvariant, PTL

\* The fencing token of ADR-0003 works: what Complete stores is always the
\* response of the claim the row names.
THEOREM FencingHolds == Spec => []StoredResponseIsOwn
<1>1. IInv => StoredResponseIsOwn
  BY DEF IInv
<1>. QED  BY <1>1, InductiveInvariant, PTL

\* A completed row is replaced only by a claim that found it expired.
THEOREM CompletedRowsLast == Spec => CompletedUntilExpired
<1>. DEFINE Kept ==
       rec.status = "completed" =>
          \/ /\ rec'.status = "completed" /\ rec'.by = rec.by
             /\ rec'.code = rec.code /\ rec'.hash = rec.hash
          \/ rec'.status = "processing" /\ rec'.created > rec.expires
<1>1. ASSUME IInv, [Next]_vars PROVE Kept
  <2>1. CASE UNCHANGED rec
    BY <2>1
  <2>2. ASSUME NEW p \in Attempt, Claim(p) PROVE Kept
    BY <1>1, <2>2 DEF IInv, TypeOK, RecordType, Claim, Claimable, ClaimRow, Row
  <2>3. ASSUME NEW p \in Attempt, ClaimUnacknowledged(p) PROVE Kept
    BY <1>1, <2>3 DEF IInv, TypeOK, RecordType, ClaimUnacknowledged, Claimable, ClaimRow, Row
  <2>4. ASSUME NEW p \in Attempt, pc[p] = "complete", Fenced(p), CompleteWrite(p) PROVE Kept
    BY <1>1, <2>4 DEF IInv, HolderOK, StoredResponseIsOwn, Claimed, Fenced, CompleteWrite,
       CompletedRow, Row
  <2>5. ASSUME NEW p \in Attempt, Complete(p) PROVE Kept
    BY <2>1, <2>4, <2>5 DEF Complete
  <2>6. ASSUME NEW p \in Attempt, CompleteFails(p) PROVE Kept
    BY <2>1, <2>4, <2>6 DEF CompleteFails
  <2>. QED
    BY <1>1, <2>1, <2>2, <2>3, <2>5, <2>6 DEF Next, Step, vars, Refuse, Receive,
       ClaimOrGetFails, GetExisting, TakeEffect, Respond, Panic, Crash, Tick
<1>2. (IInv /\ [Next]_vars) => [Kept]_vars
  BY <1>1
<1>. QED  BY <1>2, InductiveInvariant, PTL DEF Spec, CompletedUntilExpired

\* A replay is the answer that the same request was given by its handler.
THEOREM ReplaysAreGenuine == Spec => []ReplayIsGenuine
<1>1. IInv => ReplayIsGenuine
  BY DEF IInv
<1>. QED  BY <1>1, InductiveInvariant, PTL

-----------------------------------------------------------------------------
\* An attempt that ever worked under a claim, and may have left an effect.
Effective(p) == Claimed(p) \/ p \in executed

\* Its stamp is the row's token or more than a lease behind it, and is final.
EffectsOK ==
    \A p \in Attempt :
       Effective(p) =>
          /\ pc[p] \in {"handler", "complete", "done"}
          /\ rec.status # "absent"
          /\ stamp[p] = rec.created \/ stamp[p] + Lease < rec.created

\* Effects and claims together are spaced, however their holders ended.
EffectsSpaced ==
    \A p, q \in Attempt :
       (p # q /\ Effective(p) /\ Effective(q)) =>
          (stamp[p] + Lease < stamp[q] \/ stamp[q] + Lease < stamp[p])

\* A step keeps the row's token and its holders, or one attempt takes the row
\* with a stamp beyond its expiry.
KeepsToken ==
    /\ rec'.created = rec.created
    /\ rec.status # "absent" => rec'.status # "absent"
    /\ \A p \in Attempt : Effective(p)' => /\ Effective(p) /\ stamp'[p] = stamp[p]
                                           /\ pc'[p] \in {"handler", "complete", "done"}
TakesRow(p) ==
    /\ pc[p] = "claim" /\ Claimable(p)
    /\ rec'.created = stamp[p] /\ rec'.status # "absent" /\ stamp'[p] = stamp[p]
    /\ pc'[p] \in {"handler", "done"} /\ executed' = executed
    /\ \A q \in Attempt \ {p} : stamp'[q] = stamp[q] /\ pc'[q] = pc[q]

LEMMA TokenSteps ==
  ASSUME IInv, EffectsOK, Next
  PROVE  KeepsToken \/ \E p \in Attempt : TakesRow(p)
<1>. USE DEF IInv, TypeOK, EffectsOK, Effective, Claimed
<1>1. ASSUME NEW p \in Attempt, Refuse(p) \/ Receive(p) PROVE KeepsToken
  BY <1>1 DEF KeepsToken, Refuse, Receive, Return
<1>2. ASSUME NEW p \in Attempt, Claim(p) PROVE KeepsToken \/ TakesRow(p)
  BY <1>2 DEF KeepsToken, TakesRow, Claim, ClaimRow, Row
<1>3. ASSUME NEW p \in Attempt, ClaimUnacknowledged(p) PROVE TakesRow(p)
  BY <1>3 DEF TakesRow, ClaimUnacknowledged, ClaimRow, Row, Return
<1>4. ASSUME NEW p \in Attempt,
             ClaimOrGetFails(p) \/ GetExisting(p) \/ TakeEffect(p) \/ Respond(p) \/ Panic(p) \/ Crash(p)
      PROVE  KeepsToken
  BY <1>4 DEF KeepsToken, ClaimOrGetFails, GetExisting, TakeEffect, Respond, Panic, Crash, Return
<1>5. ASSUME NEW p \in Attempt, Complete(p) PROVE KeepsToken
  BY <1>5 DEF KeepsToken, Complete, CompleteWrite, CompletedRow, Row
<1>6. ASSUME NEW p \in Attempt, CompleteFails(p) PROVE KeepsToken
  BY <1>6 DEF KeepsToken, CompleteFails, AfterFailure, CompleteWrite, CompletedRow, Row
<1>7. CASE Tick
  BY <1>7 DEF KeepsToken, Tick
<1>. QED  BY <1>1, <1>2, <1>3, <1>4, <1>5, <1>6, <1>7 DEF Next, Step

\* Requests that took effect claimed the key with tokens more than a lease
\* apart, also when the first panicked, crashed or was superseded, and
\* whatever body the later one carried.
THEOREM ExecutionsStaySpaced == Spec => []ExecutionsAreSpaced
<1>1. Init => EffectsOK /\ EffectsSpaced
  BY DEF Init, EffectsOK, EffectsSpaced, Effective, Claimed
<1>2. IInv /\ EffectsOK /\ EffectsSpaced /\ [Next]_vars => EffectsOK' /\ EffectsSpaced'
  <2>. SUFFICES ASSUME IInv, EffectsOK, EffectsSpaced, [Next]_vars
                PROVE  EffectsOK' /\ EffectsSpaced'
    OBVIOUS
  <2>0. /\ stamp \in [Attempt -> Int] /\ rec.created \in Int /\ rec.expires \in Int /\ Lease \in Nat
        /\ rec.status # "absent" => rec.created + Lease <= rec.expires
    BY ParametersAssumption DEF IInv, TypeOK, RecordType, RowOK
  <2>1. CASE KeepsToken
    BY <2>1 DEF KeepsToken, EffectsOK, EffectsSpaced
  <2>2. ASSUME NEW p \in Attempt, TakesRow(p) PROVE EffectsOK' /\ EffectsSpaced'
    <3>1. \A q \in Attempt : Effective(q)' => q = p \/ (q # p /\ Effective(q))
      BY <2>2 DEF TakesRow, Effective, Claimed
    <3>2. \A q \in Attempt : Effective(q) => q # p
      BY <2>2 DEF TakesRow, EffectsOK
    <3>3. \A q \in Attempt : Effective(q) => stamp[q] + Lease < stamp[p]
      <4>. SUFFICES ASSUME NEW q \in Attempt, Effective(q) PROVE stamp[q] + Lease < stamp[p]
        OBVIOUS
      <4>1. /\ rec.status # "absent" /\ stamp[q] \in Int /\ stamp[p] \in Int
            /\ stamp[q] = rec.created \/ stamp[q] + Lease < rec.created
        BY <2>0 DEF EffectsOK
      <4>2. rec.created + Lease <= rec.expires /\ rec.expires < stamp[p]
        BY <2>0, <2>2, <4>1 DEF TakesRow, Claimable
      <4>. QED  BY <2>0, <4>1, <4>2
    <3>4. EffectsOK'
      BY <2>2, <3>1, <3>3 DEF EffectsOK, TakesRow
    <3>5. EffectsSpaced'
      BY <2>2, <3>1, <3>3 DEF EffectsSpaced, TakesRow
    <3>. QED  BY <3>4, <3>5
  <2>3. CASE UNCHANGED vars
    BY <2>3 DEF vars, EffectsOK, EffectsSpaced, Effective, Claimed
  <2>. QED  BY <2>1, <2>2, <2>3, TokenSteps
<1>3. IInv /\ EffectsSpaced => ExecutionsAreSpaced
  BY DEF IInv, TypeOK, EffectsSpaced, ExecutionsAreSpaced, Effective
<1>. QED  BY <1>1, <1>2, <1>3, InductiveInvariant, PTL DEF Spec

=============================================================================
