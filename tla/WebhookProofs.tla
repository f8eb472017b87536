--------------------------- MODULE WebhookProofs ---------------------------
(***************************************************************************)
(* Proofs about Webhook, for any number of events and workers, any batch   *)
(* size and any number of crashes and failed statements.                   *)
(*                                                                         *)
(* The argument: claims lock disjoint sets of pending rows (ClaimsOK), and *)
(* only a claim makes a row 'processing', so a row being processed has one *)
(* worker, whose attempt count is the row's.  Attempts are counted after   *)
(* their POST, so the POSTs of a row are at most one ahead of the count    *)
(* (PostsOK), and the count stops below MaxAttempts.                       *)
(***************************************************************************)
EXTENDS Webhook, FiniteSetTheorems, NaturalsInduction, TLAPS

\* Only rows that exist wait, and there are finitely many of them.
RowsOK ==
    /\ IsFiniteSet({ e \in Event : status[e] # "absent" })
    /\ \A e \in Event : wait[e] > 0 => status[e] # "absent"

\* Open claims lock pending rows, each row for one worker.
ClaimsOK ==
    \A w \in Worker : \A e \in claim[w] :
       status[e] = "pending" /\ \A v \in Worker \ {w} : e \notin claim[v]

\* The POSTs of an event are at most one ahead of its stored attempts, and
\* not ahead at all when its next POST may come.
PostsOK ==
    \A e \in Event :
       /\ posts[e] <= attempts[e] + 1
       /\ status[e] \in {"absent", "pending"} => posts[e] <= attempts[e]
       /\ \A w \in Worker : task[w][e] \in {"deliver", "unconfigured"} => posts[e] <= attempts[e]

\* A goroutine that reports success saw a 2xx.
AcceptedOK == \A w \in Worker, e \in Event : task[w][e] = "delivered" => e \in accepted

\* The inductive invariant.
IInv ==
    /\ TypeOK
    /\ RowsOK
    /\ ClaimsOK
    /\ PostsOK
    /\ AcceptedOK
    /\ HeldByOneWorker
    /\ DeadLetteredOnce
    /\ DeliveredWasAccepted

-----------------------------------------------------------------------------
\* A non-empty set of naturals has a least element.
LEMMA LeastNatural ==
    ASSUME NEW B \in SUBSET Nat, B # {}
    PROVE  \E m \in B : \A k \in B : m <= k
  <1>1. IsWellFoundedOn(OpToRel(<, Nat), Nat)
    BY NatLessThanWellFounded
  <1>2. PICK m \in B : \A k \in B : ~(<<k, m>> \in OpToRel(<, Nat))
    BY <1>1, WFMin
  <1>3. \A k \in B : ~(k < m)
    BY <1>2 DEF OpToRel
  <1> QED
    BY <1>3

\* What is left of a queue is a queue of the same rows.
LEMMA WithoutType ==
    ASSUME NEW E, NEW q \in Seq(E), NEW S
    PROVE  Without(q, S) \in Seq(E)
  <1> DEFINE n == Len(q)
             Next1(f, i) == IF i = 0 THEN <<>>
                            ELSE IF q[i] \in S THEN f[i - 1] ELSE Append(f[i - 1], q[i])
             Keeps(f, m) == f = [i \in 0..m |-> Next1(f, i)]
  <1>0. n \in Nat /\ \A i \in 1..n : q[i] \in E
    OBVIOUS
  <1>1. \E f : Keeps(f, n)
    <2> DEFINE Bad == { m \in 0..n : ~\E f : Keeps(f, m) }
    <2> SUFFICES ASSUME Bad # {} PROVE FALSE
      <3> HIDE DEF Keeps
      <3> QED
        BY <1>0
    <2>1. Bad \in SUBSET Nat
      BY <1>0
    <2>2. PICK m \in Bad : \A k \in Bad : m <= k
      <3> HIDE DEF Bad
      <3> QED
        BY <2>1, LeastNatural
    <2>3. CASE m = 0
      <3> DEFINE f == [i \in 0..0 |-> <<>>]
      <3>1. Keeps(f, 0)
        OBVIOUS
      <3> QED
        BY <2>2, <2>3, <3>1
    <2>4. CASE m # 0
      <3>1. m \in Nat /\ m - 1 \in 0..n /\ m - 1 \notin Bad
        <4>1. m \in 0..n
          BY <2>2
        <4>2. m - 1 \in 0..n /\ ~(m <= m - 1)
          BY <1>0, <2>4, <4>1
        <4> HIDE DEF Bad
        <4> QED
          BY <2>2, <4>1, <4>2
      <3>2. PICK g : Keeps(g, m - 1)
        BY <3>1
      <3> DEFINE h == [i \in 0..m |-> IF i < m THEN g[i] ELSE Next1(g, m)]
      <3>3. \A i \in 0..m : h[i] = Next1(h, i)
        <4> TAKE i \in 0..m
        <4>1. CASE i < m
          <5>1. i \in 0..(m - 1) /\ h[i] = g[i]
            BY <3>1, <4>1
          <5>3. g[i] = Next1(g, i)
            BY <3>2, <5>1
          <5>2. i # 0 => i - 1 \in 0..m /\ i - 1 < m /\ h[i - 1] = g[i - 1]
            BY <3>1, <4>1
          <5> QED
            BY <5>1, <5>2, <5>3
        <4>2. CASE i = m
          <5>1. h[m - 1] = g[m - 1] /\ h[m] = Next1(g, m)
            BY <2>4, <3>1
          <5> QED
            BY <2>4, <4>2, <5>1
        <4> QED
          BY <3>1, <4>1, <4>2
      <3>4. Keeps(h, m)
        <4>1. h = [i \in 0..m |-> h[i]]
          OBVIOUS
        <4> HIDE DEF h
        <4> QED
          BY <3>3, <4>1
      <3> QED
        BY <2>2, <3>4
    <2> QED
      BY <2>3, <2>4
  <1>2. ASSUME NEW f, Keeps(f, n) PROVE f[n] \in Seq(E)
    <2> DEFINE Bad == { m \in 0..n : f[m] \notin Seq(E) }
    <2> SUFFICES ASSUME Bad # {} PROVE FALSE
      BY <1>0
    <2>1. Bad \in SUBSET Nat
      BY <1>0
    <2>2. PICK m \in Bad : \A k \in Bad : m <= k
      <3> HIDE DEF Bad
      <3> QED
        BY <2>1, LeastNatural
    <2>3. m \in 0..n /\ f[m] \notin Seq(E) /\ f[m] = Next1(f, m)
      BY <1>2, <2>2
    <2>4. m # 0
      BY <2>3
    <2>5. m - 1 \in 0..n /\ m - 1 \notin Bad /\ q[m] \in E
      BY <1>0, <2>2, <2>3, <2>4
    <2>6. f[m - 1] \in Seq(E)
      BY <2>5
    <2> QED
      BY <2>3, <2>4, <2>5, <2>6
  <1>3. Without(q, S) = (CHOOSE f : Keeps(f, n))[n]
    BY DEF Without
  <1> HIDE DEF Keeps, n
  <1>4. Keeps(CHOOSE f : Keeps(f, n), n)
    BY <1>1
  <1> QED
    BY <1>2, <1>3, <1>4

-----------------------------------------------------------------------------
LEMMA InitEstablishes == Init => IInv
  <1> SUFFICES ASSUME Init PROVE IInv
    OBVIOUS
  <1>1. TypeOK
    BY QueueAssumption DEF Init, TypeOK, Statuses, Stages
  <1>2. RowsOK
    <2>1. { e \in Event : status[e] # "absent" } = {}
      BY DEF Init
    <2>2. \A e \in Event : ~(wait[e] > 0)
      BY DEF Init
    <2>3. IsFiniteSet({ e \in Event : status[e] # "absent" })
      BY <2>1, FS_EmptySet
    <2> QED
      BY <2>2, <2>3 DEF RowsOK
  <1>3. ClaimsOK /\ AcceptedOK /\ HeldByOneWorker /\ DeadLetteredOnce /\ DeliveredWasAccepted
    BY DEF Init, ClaimsOK, AcceptedOK, HeldByOneWorker, DeadLetteredOnce, DeliveredWasAccepted
  <1>4. PostsOK
    BY DEF Init, PostsOK
  <1> QED
    BY <1>1, <1>2, <1>3, <1>4 DEF IInv

\* A statement on one goroutine's state changes no other's.
LEMMA SetTaskEffect ==
    ASSUME TypeOK, NEW w \in Worker, NEW e \in Event, NEW stage \in Stages, SetTask(w, e, stage)
    PROVE  /\ task' \in [Worker -> [Event -> Stages]]
           /\ task'[w][e] = stage
           /\ \A v \in Worker, f \in Event : v # w \/ f # e => task'[v][f] = task[v][f]
  BY DEF TypeOK, SetTask

\* A row that gets a status keeps the table finite.
LEMMA RowsStayFinite ==
    ASSUME RowsOK, NEW e \in Event,
           \A f \in Event : status'[f] # "absent" => f = e \/ status[f] # "absent"
    PROVE  IsFiniteSet({ f \in Event : status'[f] # "absent" })
  <1> DEFINE R == { f \in Event : status[f] # "absent" }
             T == { f \in Event : status'[f] # "absent" }
  <1>1. IsFiniteSet(R \cup {e})
    BY FS_AddElement DEF RowsOK
  <1>2. T \subseteq R \cup {e}
    OBVIOUS
  <1> HIDE DEF R, T
  <1>3. IsFiniteSet(T)
    BY <1>1, <1>2, FS_Subset
  <1> QED
    BY <1>3 DEF T

LEMMA EnqueuePreserves ==
    ASSUME IInv, NEW e \in Event, Enqueue(e)
    PROVE  IInv'
  <1> USE DEF IInv
  <1>1. TypeOK'
    <2>1. queue' \in Seq(Event)
      <3>1. PICK i \in 0 .. Len(queue) :
              queue' = SubSeq(queue, 1, i) \o <<e>> \o SubSeq(queue, i + 1, Len(queue))
        BY DEF Enqueue
      <3>2. /\ SubSeq(queue, 1, i) \in Seq(Event)
            /\ SubSeq(queue, i + 1, Len(queue)) \in Seq(Event)
        BY <3>1 DEF TypeOK
      <3> QED
        BY <3>1, <3>2
    <2>2. status' \in [Event -> Statuses]
      BY DEF TypeOK, Enqueue, Statuses
    <2> QED
      BY <2>1, <2>2 DEF TypeOK, Enqueue
  <1>2. RowsOK'
    <2>1. \A f \in Event : status'[f] # "absent" => f = e \/ status[f] # "absent"
      BY DEF TypeOK, Enqueue
    <2>2. \A f \in Event : status[f] # "absent" => status'[f] # "absent"
      BY DEF TypeOK, Enqueue
    <2>3. UNCHANGED wait
      BY DEF Enqueue
    <2> QED
      BY <2>1, <2>2, <2>3, RowsStayFinite DEF RowsOK
  <1>3. ClaimsOK' /\ AcceptedOK'
    BY DEF TypeOK, ClaimsOK, AcceptedOK, Enqueue
  <1>4. PostsOK'
    BY DEF TypeOK, PostsOK, Enqueue
  <1>5. HeldByOneWorker' /\ DeadLetteredOnce' /\ DeliveredWasAccepted'
    BY DEF TypeOK, HeldByOneWorker, DeadLetteredOnce, DeliveredWasAccepted, Enqueue
  <1> QED
    BY <1>1, <1>2, <1>3, <1>4, <1>5

\* Rows that become due join the queue; there are finitely many.
LEMMA TickPreserves ==
    ASSUME IInv, Tick
    PROVE  IInv'
  <1> USE DEF IInv
  <1> DEFINE due == { e \in Event : wait[e] = 1 }
             R == { e \in Event : status[e] # "absent" }
  <1>1. Cardinality(due) \in Nat
    <2>1. due \subseteq R
      BY DEF RowsOK
    <2>2. IsFiniteSet(R)
      BY DEF RowsOK
    <2> HIDE DEF due, R
    <2> QED
      BY <2>1, <2>2, FS_Subset, FS_CardinalityType
  <1>2. TypeOK'
    <2>1. queue' \in Seq(Event)
      <3>1. PICK s \in [1..Cardinality(due) -> due] : queue' = queue \o s
        BY DEF Tick
      <3>2. PICK n \in Nat : n = Cardinality(due)
        BY <1>1
      <3>3. due \subseteq Event
        OBVIOUS
      <3>4. s \in Seq(Event)
        <4> HIDE DEF due
        <4>1. s \in [1..n -> Event]
          BY <3>1, <3>2, <3>3
        <4> QED
          BY <3>2, <4>1
      <3> QED
        BY <3>1, <3>4 DEF TypeOK
    <2>2. wait' \in [Event -> Nat]
      BY DEF TypeOK, Tick
    <2> QED
      BY <2>1, <2>2 DEF TypeOK, Tick
  <1>3. RowsOK'
    BY DEF TypeOK, RowsOK, Tick
  <1>4. ClaimsOK' /\ AcceptedOK' /\ PostsOK'
    BY DEF ClaimsOK, AcceptedOK, PostsOK, Tick
  <1>5. HeldByOneWorker' /\ DeadLetteredOnce' /\ DeliveredWasAccepted'
    BY DEF HeldByOneWorker, DeadLetteredOnce, DeliveredWasAccepted, Tick
  <1> QED
    BY <1>2, <1>3, <1>4, <1>5

\* A batch is made of pending rows that nobody else has locked.
LEMMA ClaimPendingPreserves ==
    ASSUME IInv, NEW w \in Worker, ClaimPending(w)
    PROVE  IInv'
  <1> USE DEF IInv
  <1>1. NextBatch \subseteq Event /\ \A e \in NextBatch : status[e] = "pending" /\ \A v \in Worker : e \notin claim[v]
    <2> DEFINE locked == UNION { claim[v] : v \in Worker }
    <2>1. \A i \in DOMAIN queue : queue[i] \in Event
      BY DEF TypeOK
    <2>2. \A e \in FirstDue(locked) :
             \E i \in DOMAIN queue : e = queue[i] /\ status[e] = "pending" /\ e \notin locked
      <3> HIDE DEF locked
      <3> QED
        BY Zenon DEF FirstDue
    <2>3. NextBatch = FirstDue(locked)
      BY DEF NextBatch
    <2>4. \A e : e \notin locked => \A v \in Worker : e \notin claim[v]
      BY Zenon
    <2> HIDE DEF locked
    <2> QED
      BY <2>1, <2>2, <2>3, <2>4
  <1>2. claim' = [claim EXCEPT ![w] = NextBatch]
    BY DEF ClaimPending
  <1>3. UNCHANGED <<rows, deadLetters, configured, alive, task, seen, posts, accepted, faults>>
    BY DEF ClaimPending
  <1>4. TypeOK'
    BY <1>1, <1>2, <1>3 DEF TypeOK, rows
  <1>5. ClaimsOK'
    BY <1>1, <1>2, <1>3 DEF TypeOK, ClaimsOK, rows
  <1>6. RowsOK' /\ AcceptedOK' /\ PostsOK' /\ DeadLetteredOnce' /\ DeliveredWasAccepted'
    BY <1>3 DEF RowsOK, AcceptedOK, PostsOK, DeadLetteredOnce, DeliveredWasAccepted, rows
  <1>7. HeldByOneWorker'
    BY <1>1, <1>2, <1>3 DEF TypeOK, HeldByOneWorker, rows
  <1> QED
    BY <1>4, <1>5, <1>6, <1>7

\* What both commits of a claim do to the tables.
LEMMA MarkProcessingEffect ==
    ASSUME IInv, NEW w \in Worker, MarkProcessing(w)
    PROVE  /\ queue' \in Seq(Event) /\ status' \in [Event -> Statuses]
           /\ claim' \in [Worker -> SUBSET Event] /\ claim[w] \subseteq Event
           /\ RowsOK' /\ ClaimsOK' /\ DeadLetteredOnce' /\ DeliveredWasAccepted'
           /\ \A e \in Event \ claim[w] : status'[e] = status[e]
           /\ \A e \in claim[w] : /\ status'[e] = "processing"
                                  /\ \A v \in Worker : e \notin claim'[v]
           /\ \A v \in Worker \ {w} : claim'[v] = claim[v]
           /\ claim'[w] = {}
           /\ UNCHANGED <<attempts, posts, accepted>>
  <1> USE DEF IInv
  <1>1. queue' \in Seq(Event)
    BY WithoutType DEF TypeOK, MarkProcessing
  <1>2. /\ status' \in [Event -> Statuses]
        /\ claim' \in [Worker -> SUBSET Event] /\ claim[w] \subseteq Event
    BY DEF TypeOK, MarkProcessing, Statuses
  <1>3. /\ \A e \in Event \ claim[w] : status'[e] = status[e]
        /\ \A e \in claim[w] : e \in Event /\ status'[e] = "processing" /\ status[e] = "pending"
        /\ \A v \in Worker \ {w} : claim'[v] = claim[v]
        /\ claim'[w] = {}
    BY <1>2 DEF TypeOK, ClaimsOK, MarkProcessing
  <1>4. ClaimsOK' /\ \A e \in claim[w] : \A v \in Worker : e \notin claim'[v]
    BY <1>2, <1>3 DEF TypeOK, ClaimsOK
  <1>5. RowsOK'
    <2>1. \A e \in Event : status'[e] = "absent" <=> status[e] = "absent"
      BY <1>3
    <2>2. { e \in Event : status'[e] # "absent" } = { e \in Event : status[e] # "absent" }
      BY <2>1
    <2> QED
      BY <2>1, <2>2 DEF RowsOK, MarkProcessing
  <1>6. DeadLetteredOnce' /\ DeliveredWasAccepted'
    BY <1>3 DEF DeadLetteredOnce, DeliveredWasAccepted, MarkProcessing
  <1> QED
    BY <1>1, <1>2, <1>3, <1>4, <1>5, <1>6 DEF MarkProcessing

LEMMA CommitClaimPreserves ==
    ASSUME IInv, NEW w \in Worker, CommitClaim(w)
    PROVE  IInv'
  <1> USE DEF IInv
  <1>0. MarkProcessing(w)
    BY DEF CommitClaim
  <1>1. /\ \A e \in Event : task'[w][e] = IF e \in claim[w] THEN "deliver" ELSE "none"
        /\ \A e \in claim[w] : e \in Event => seen'[w][e] = attempts[e]
        /\ \A v \in Worker \ {w} : task'[v] = task[v] /\ seen'[v] = seen[v]
        /\ task' \in [Worker -> [Event -> Stages]]
        /\ seen' \in [Worker -> [Event -> 0..(MaxAttempts - 1)]]
    BY DEF TypeOK, CommitClaim, Stages
  <1>2. TypeOK'
    BY <1>0, <1>1, MarkProcessingEffect DEF TypeOK, CommitClaim, MarkProcessing
  <1>3. RowsOK' /\ ClaimsOK' /\ DeadLetteredOnce' /\ DeliveredWasAccepted'
    BY <1>0, MarkProcessingEffect
  <1>4. AcceptedOK'
    <2>1. UNCHANGED accepted
      BY <1>0 DEF MarkProcessing
    <2>2. \A v \in Worker, e \in Event : task'[v][e] = "delivered" => task[v][e] = "delivered"
      BY <1>1
    <2> QED
      BY <2>1, <2>2 DEF AcceptedOK
  <1>5. PostsOK'
    <2>1. \A e \in claim[w] : e \in Event /\ status[e] = "pending" /\ posts[e] <= attempts[e]
      BY DEF TypeOK, ClaimsOK, PostsOK
    <2> QED
      BY <1>0, <1>1, <2>1, MarkProcessingEffect DEF PostsOK
  <1>6. HeldByOneWorker'
    <2>1. \A e \in claim[w] : e \in Event /\ \A v \in Worker : task[v][e] = "none"
      BY DEF TypeOK, ClaimsOK, HeldByOneWorker
    <2>2. ASSUME NEW v \in Worker, NEW e \in Event, task'[v][e] # "none"
          PROVE  /\ status'[e] = "processing"
                 /\ seen'[v][e] = attempts'[e]
                 /\ \A u \in Worker \ {v} : task'[u][e] = "none" /\ e \notin claim'[u]
      <3>1. CASE e \in claim[w]
        <4>1. v = w
          BY <1>1, <2>1, <2>2, <3>1
        <4> QED
          BY <1>0, <1>1, <2>1, <3>1, <4>1, MarkProcessingEffect
      <3>2. CASE e \notin claim[w]
        <4>1. v # w /\ task[v][e] # "none"
          BY <1>1, <2>2, <3>2
        <4>2. /\ status[e] = "processing" /\ seen[v][e] = attempts[e]
              /\ \A u \in Worker \ {v} : task[u][e] = "none" /\ e \notin claim[u]
          BY <4>1 DEF HeldByOneWorker
        <4>3. /\ status'[e] = status[e] /\ attempts' = attempts
              /\ \A u \in Worker \ {w} : claim'[u] = claim[u]
              /\ claim'[w] = {}
          BY <1>0, <3>2, MarkProcessingEffect
        <4> QED
          BY <1>1, <3>2, <4>1, <4>2, <4>3
      <3> QED
        BY <3>1, <3>2
    <2> QED
      BY <2>2 DEF HeldByOneWorker
  <1> QED
    BY <1>2, <1>3, <1>4, <1>5, <1>6

LEMMA CommitClaimUnacknowledgedPreserves ==
    ASSUME IInv, NEW w \in Worker, CommitClaimUnacknowledged(w)
    PROVE  IInv'
  <1> USE DEF IInv
  <1>0. MarkProcessing(w) /\ UNCHANGED <<task, seen>> /\ faults' = faults + 1 /\ faults < MaxFaults
    BY DEF CommitClaimUnacknowledged
  <1>1. TypeOK'
    <2>1. /\ queue' \in Seq(Event) /\ status' \in [Event -> Statuses]
          /\ claim' \in [Worker -> SUBSET Event]
      BY <1>0, MarkProcessingEffect
    <2>2. UNCHANGED <<attempts, wait, deadLetters, configured, alive, posts, accepted>>
      BY <1>0 DEF MarkProcessing
    <2>3. faults' \in 0..MaxFaults
      BY <1>0, QueueAssumption DEF TypeOK
    <2> QED
      BY <1>0, <2>1, <2>2, <2>3 DEF TypeOK
  <1>2. RowsOK' /\ ClaimsOK' /\ DeadLetteredOnce' /\ DeliveredWasAccepted'
    BY <1>0, MarkProcessingEffect
  <1>3. AcceptedOK'
    BY <1>0, MarkProcessingEffect DEF AcceptedOK
  <1>4. PostsOK'
    BY <1>0, MarkProcessingEffect DEF PostsOK
  <1>5. HeldByOneWorker'
    <2>1. \A e \in claim[w] : e \in Event /\ \A v \in Worker : task[v][e] = "none"
      BY DEF TypeOK, ClaimsOK, HeldByOneWorker
    <2> QED
      BY <1>0, <2>1, MarkProcessingEffect DEF HeldByOneWorker
  <1> QED
    BY <1>1, <1>2, <1>3, <1>4, <1>5

\* A claim rolled back gives its rows up unchanged.
LEMMA ClaimFailsPreserves ==
    ASSUME IInv, NEW w \in Worker, ClaimFails(w)
    PROVE  IInv'
  <1> USE DEF IInv
  <1>1. TypeOK'
    BY QueueAssumption DEF TypeOK, ClaimFails, rows
  <1>2. RowsOK' /\ AcceptedOK' /\ PostsOK' /\ DeadLetteredOnce' /\ DeliveredWasAccepted'
    BY DEF RowsOK, AcceptedOK, PostsOK, DeadLetteredOnce, DeliveredWasAccepted, rows, ClaimFails
  <1>3. ClaimsOK' /\ HeldByOneWorker'
    <2>1. \A v \in Worker : claim'[v] \subseteq claim[v]
      BY DEF TypeOK, ClaimFails
    <2>2. UNCHANGED <<status, attempts, task, seen>>
      BY DEF ClaimFails, rows
    <2>3. ClaimsOK'
      BY <2>1, <2>2 DEF ClaimsOK
    <2> QED
      BY <2>1, <2>2, <2>3 DEF HeldByOneWorker
  <1> QED
    BY <1>1, <1>2, <1>3

-----------------------------------------------------------------------------
\* A goroutine that goes on to another stage, or ends, without touching its
\* row: what it may have posted is at most one POST, made at "deliver".
LEMMA TaskPreserves ==
    ASSUME IInv, NEW w \in Worker, NEW e \in Event, NEW stage \in Stages,
           task[w][e] # "none", SetTask(w, e, stage),
           UNCHANGED <<rows, deadLetters, configured, alive, claim, seen>>,
           faults' \in 0..MaxFaults,
           accepted \subseteq accepted', accepted' \subseteq Event,
           stage = "delivered" => e \in accepted',
           \/ UNCHANGED posts /\ (stage \in {"deliver", "unconfigured"} => task[w][e] = "deliver")
           \/ /\ posts' = [posts EXCEPT ![e] = @ + 1]
              /\ task[w][e] = "deliver" /\ stage \notin {"deliver", "unconfigured"}
    PROVE  IInv'
  <1> USE DEF IInv
  <1>0. /\ task' \in [Worker -> [Event -> Stages]]
        /\ task'[w][e] = stage
        /\ \A v \in Worker, f \in Event : v # w \/ f # e => task'[v][f] = task[v][f]
    BY SetTaskEffect
  <1>h. /\ status[e] = "processing"
        /\ \A v \in Worker \ {w} : task[v][e] = "none"
    BY DEF HeldByOneWorker
  <1>1. TypeOK'
    BY <1>0 DEF TypeOK, rows
  <1>2. RowsOK' /\ ClaimsOK' /\ DeadLetteredOnce' /\ DeliveredWasAccepted'
    BY DEF RowsOK, ClaimsOK, DeadLetteredOnce, DeliveredWasAccepted, rows
  <1>3. AcceptedOK'
    BY <1>0 DEF AcceptedOK
  <1>4. PostsOK'
    <2>1. UNCHANGED <<status, attempts>> /\ posts' \in [Event -> Nat] /\ attempts \in [Event -> Nat]
      BY <1>1 DEF rows, TypeOK
    <2>2. ASSUME NEW f \in Event, f # e
          PROVE  /\ posts'[f] <= attempts[f] + 1
                 /\ status[f] \in {"absent", "pending"} => posts'[f] <= attempts[f]
                 /\ \A v \in Worker : task'[v][f] \in {"deliver", "unconfigured"} => posts'[f] <= attempts[f]
      BY <1>0, <2>2 DEF PostsOK, TypeOK
    <2>3. /\ posts'[e] <= attempts[e] + 1
          /\ \A v \in Worker : task'[v][e] \in {"deliver", "unconfigured"} => posts'[e] <= attempts[e]
      <3>1. posts[e] <= attempts[e] + 1 /\ posts[e] \in Nat /\ attempts[e] \in Nat
        BY <2>1 DEF PostsOK, TypeOK
      <3>2. task[w][e] = "deliver" => posts[e] <= attempts[e]
        BY DEF PostsOK
      <3>3. \A v \in Worker : v # w => task'[v][e] = "none"
        BY <1>0, <1>h
      <3>4. CASE UNCHANGED posts /\ (stage \in {"deliver", "unconfigured"} => task[w][e] = "deliver")
        BY <1>0, <3>1, <3>2, <3>3, <3>4
      <3>5. CASE /\ posts' = [posts EXCEPT ![e] = @ + 1]
                 /\ task[w][e] = "deliver" /\ stage \notin {"deliver", "unconfigured"}
        <4>1. posts'[e] = posts[e] + 1
          BY <3>5 DEF TypeOK
        <4>2. posts'[e] <= attempts[e] + 1
          BY <3>1, <3>2, <3>5, <4>1
        <4>3. \A v \in Worker : task'[v][e] \notin {"deliver", "unconfigured"}
          BY <1>0, <3>3, <3>5
        <4> QED
          BY <4>2, <4>3
      <3> QED
        BY <3>4, <3>5
    <2> QED
      BY <1>h, <2>1, <2>2, <2>3 DEF PostsOK
  <1>5. HeldByOneWorker'
    BY <1>0, <1>h DEF HeldByOneWorker, rows
  <1> QED
    BY <1>1, <1>2, <1>3, <1>4, <1>5

LEMMA DeliverPreserves ==
    ASSUME IInv, NEW w \in Worker, NEW e \in Event,
           Deliver(w, e) \/ LookupFails(w, e) \/ RecordingFails(w, e)
    PROVE  IInv'
  <1>0. faults \in 0..MaxFaults /\ accepted \subseteq Event /\ MaxFaults \in Nat
    BY QueueAssumption DEF IInv, TypeOK
  <1>1. CASE Deliver(w, e)
    <2>1. UNCHANGED <<rows, deadLetters, configured, alive, claim, seen>> /\ UNCHANGED faults
      BY <1>1 DEF Deliver
    <2>2. CASE SetTask(w, e, "unconfigured") /\ UNCHANGED <<posts, accepted>>
      BY <1>0, <1>1, <2>1, <2>2, TaskPreserves DEF Deliver, Stages
    <2>3. CASE /\ posts' = [posts EXCEPT ![e] = @ + 1]
               /\ SetTask(w, e, "delivered") /\ accepted' = accepted \cup {e}
      BY <1>0, <1>1, <2>1, <2>3, TaskPreserves DEF Deliver, Stages
    <2>4. CASE /\ posts' = [posts EXCEPT ![e] = @ + 1]
               /\ SetTask(w, e, "failed") /\ accepted' \in {accepted, accepted \cup {e}}
      BY <1>0, <1>1, <2>1, <2>4, TaskPreserves DEF Deliver, Stages
    <2>5. CASE SetTask(w, e, "failed") /\ UNCHANGED <<posts, accepted>>
      BY <1>0, <1>1, <2>1, <2>5, TaskPreserves DEF Deliver, Stages
    <2> QED
      BY <1>1, <2>2, <2>3, <2>4, <2>5 DEF Deliver
  <1>2. CASE LookupFails(w, e)
    BY <1>0, <1>2, TaskPreserves DEF LookupFails, Stages
  <1>3. CASE RecordingFails(w, e)
    BY <1>0, <1>3, TaskPreserves DEF RecordingFails, Stages
  <1> QED
    BY <1>1, <1>2, <1>3

\* A goroutine that records its outcome: the row gets its next status, the
\* POSTs made so far are counted, and nobody else has the row.
LEMMA RecordPreserves ==
    ASSUME IInv, NEW w \in Worker, NEW e \in Event, task[w][e] # "none", SetTask(w, e, "none"),
           NEW s \in {"pending", "delivered", "failed"}, status' = [status EXCEPT ![e] = s],
           NEW n \in 0..(MaxAttempts - 1), attempts' = [attempts EXCEPT ![e] = n],
           attempts[e] <= n, s = "pending" => posts[e] <= n,
           wait' \in [Event -> Nat], \A f \in Event \ {e} : wait'[f] = wait[f],
           deadLetters' = IF s = "failed" THEN [deadLetters EXCEPT ![e] = @ + 1] ELSE deadLetters,
           s = "delivered" => e \in accepted,
           UNCHANGED <<queue, configured, alive, claim, seen, posts, accepted, faults>>
    PROVE  IInv'
  <1> USE DEF IInv
  <1>0. /\ task' \in [Worker -> [Event -> Stages]]
        /\ task'[w][e] = "none"
        /\ \A v \in Worker, f \in Event : v # w \/ f # e => task'[v][f] = task[v][f]
    BY SetTaskEffect DEF Stages
  <1>h. /\ status[e] = "processing"
        /\ \A v \in Worker \ {w} : task[v][e] = "none" /\ e \notin claim[v]
        /\ e \notin claim[w]
    BY DEF HeldByOneWorker, ClaimsOK
  <1>s. /\ status'[e] = s /\ \A f \in Event \ {e} : status'[f] = status[f]
        /\ attempts'[e] = n /\ \A f \in Event \ {e} : attempts'[f] = attempts[f]
    BY DEF TypeOK
  <1>1. TypeOK'
    <2>1. deadLetters' \in [Event -> Nat]
      BY DEF TypeOK
    <2>2. status' \in [Event -> Statuses] /\ attempts' \in [Event -> 0..(MaxAttempts - 1)]
      BY DEF TypeOK, Statuses
    <2> QED
      BY <1>0, <2>1, <2>2 DEF TypeOK
  <1>2. RowsOK'
    <2>1. \A f \in Event : status'[f] = "absent" <=> status[f] = "absent"
      BY <1>h, <1>s
    <2>2. { f \in Event : status'[f] # "absent" } = { f \in Event : status[f] # "absent" }
      BY <2>1
    <2> QED
      BY <1>s, <2>1, <2>2 DEF RowsOK
  <1>3. ClaimsOK'
    BY <1>h, <1>s DEF TypeOK, ClaimsOK
  <1>4. AcceptedOK' /\ DeliveredWasAccepted'
    BY <1>0, <1>s DEF AcceptedOK, DeliveredWasAccepted
  <1>5. PostsOK'
    <2>1. ASSUME NEW f \in Event, f # e
          PROVE  /\ posts[f] <= attempts'[f] + 1
                 /\ status'[f] \in {"absent", "pending"} => posts[f] <= attempts'[f]
                 /\ \A v \in Worker : task'[v][f] \in {"deliver", "unconfigured"} => posts[f] <= attempts'[f]
      BY <1>0, <1>s, <2>1 DEF PostsOK
    <2>2. \A v \in Worker : task'[v][e] = "none"
      BY <1>0, <1>h
    <2>3. posts[e] <= n + 1
      BY DEF PostsOK, TypeOK
    <2> QED
      BY <1>s, <2>1, <2>2, <2>3 DEF PostsOK
  <1>6. HeldByOneWorker'
    <2>1. \A v \in Worker : task'[v][e] = "none"
      BY <1>0, <1>h
    <2> QED
      BY <1>0, <1>s, <2>1 DEF HeldByOneWorker
  <1>7. DeadLetteredOnce'
    <2>1. deadLetters[e] = 0
      BY <1>h DEF DeadLetteredOnce
    <2> QED
      BY <1>s, <2>1 DEF DeadLetteredOnce, TypeOK
  <1> QED
    BY <1>1, <1>2, <1>3, <1>4, <1>5, <1>6, <1>7

LEMMA OutcomePreserves ==
    ASSUME IInv, NEW w \in Worker, NEW e \in Event,
           MarkDelivered(w, e) \/ SkipUnconfigured(w, e) \/ MoveToDeadLetter(w, e) \/ RetryLater(w, e)
    PROVE  IInv'
  <1> USE QueueAssumption
  <1> DEFINE n == attempts[e]
  <1>0. /\ status \in [Event -> Statuses] /\ attempts \in [Event -> 0..(MaxAttempts - 1)]
        /\ wait \in [Event -> Nat] /\ n \in 0..(MaxAttempts - 1) /\ posts[e] \in Nat
        /\ task[w][e] # "none" => seen[w][e] = n
        /\ posts[e] <= n + 1
        /\ attempts = [attempts EXCEPT ![e] = n]
    BY DEF IInv, TypeOK, HeldByOneWorker, PostsOK
  <1>1. CASE MarkDelivered(w, e)
    <2>1. e \in accepted
      BY <1>1 DEF IInv, AcceptedOK, MarkDelivered
    <2>2. /\ task[w][e] # "none" /\ SetTask(w, e, "none")
          /\ status' = [status EXCEPT ![e] = "delivered"]
          /\ UNCHANGED <<attempts, wait, queue, deadLetters, configured, alive, claim, seen,
                         posts, accepted, faults>>
      BY <1>1 DEF MarkDelivered
    <2>3. n \in 0..(MaxAttempts - 1) /\ attempts[e] <= n /\ attempts' = [attempts EXCEPT ![e] = n]
      BY <1>0, <2>2
    <2>4. wait' \in [Event -> Nat] /\ \A f \in Event \ {e} : wait'[f] = wait[f]
      BY <1>0, <2>2
    <2> HIDE DEF n
    <2> QED
      BY <2>1, <2>2, <2>3, <2>4, RecordPreserves
  <1>2. CASE SkipUnconfigured(w, e)
    <2>1. posts[e] <= n
      BY <1>2 DEF IInv, PostsOK, SkipUnconfigured
    <2>2. wait' \in [Event -> Nat] /\ \A f \in Event \ {e} : wait'[f] = wait[f]
      BY <1>0, <1>2 DEF SkipUnconfigured, ScheduleRetry
    <2>3. /\ task[w][e] # "none" /\ SetTask(w, e, "none")
          /\ status' = [status EXCEPT ![e] = "pending"]
          /\ attempts' = [attempts EXCEPT ![e] = n]
          /\ UNCHANGED <<queue, deadLetters, configured, alive, claim, seen, posts, accepted, faults>>
      BY <1>0, <1>2 DEF SkipUnconfigured, ScheduleRetry
    <2>4. n \in 0..(MaxAttempts - 1) /\ attempts[e] <= n
      BY <1>0
    <2> HIDE DEF n
    <2> QED
      BY <2>1, <2>2, <2>3, <2>4, RecordPreserves
  <1>3. CASE MoveToDeadLetter(w, e)
    <2>1. /\ task[w][e] # "none" /\ SetTask(w, e, "none")
          /\ status' = [status EXCEPT ![e] = "failed"]
          /\ deadLetters' = [deadLetters EXCEPT ![e] = @ + 1]
          /\ UNCHANGED <<attempts, wait, queue, configured, alive, claim, seen, posts, accepted, faults>>
      BY <1>3 DEF MoveToDeadLetter, MarkFailed
    <2>2. n \in 0..(MaxAttempts - 1) /\ attempts[e] <= n /\ attempts' = [attempts EXCEPT ![e] = n]
      BY <1>0, <2>1
    <2>3. wait' \in [Event -> Nat] /\ \A f \in Event \ {e} : wait'[f] = wait[f]
      BY <1>0, <2>1
    <2> HIDE DEF n
    <2> QED
      BY <2>1, <2>2, <2>3, RecordPreserves
  <1>4. CASE RetryLater(w, e)
    <2>1. task[w][e] = "failed" /\ seen[w][e] = n /\ n + 1 \in 0..(MaxAttempts - 1)
      BY <1>0, <1>4 DEF RetryLater, Exhausted
    <2>2. PICK delay \in BackoffForAttempt(n + 1) : ScheduleRetry(e, n + 1, delay)
      BY <1>4, <2>1 DEF RetryLater, NextAttempt
    <2>3. delay \in Nat
      <3> DEFINE raw == BaseBackoff * 2^n
                 d == IF raw > MaxBackoff \/ raw <= 0 THEN MaxBackoff ELSE raw
      <3>1. 2^n \in Int
        BY <1>0
      <3>2. raw \in Int
        BY <3>1
      <3>3. d \in Nat
        <4> HIDE DEF raw
        <4> QED
          BY <3>2
      <3>4. (n + 1) - 1 = n
        BY <1>0
      <3>5. delay \in Jitter(d)
        BY <3>4 DEF BackoffForAttempt
      <3> HIDE DEF d
      <3> QED
        BY <3>3, <3>5 DEF Jitter
    <2>4. wait' \in [Event -> Nat] /\ \A f \in Event \ {e} : wait'[f] = wait[f]
      BY <1>0, <2>2, <2>3 DEF ScheduleRetry
    <2>5. /\ status' = [status EXCEPT ![e] = "pending"] /\ attempts' = [attempts EXCEPT ![e] = n + 1]
          /\ UNCHANGED <<queue, deadLetters>> /\ SetTask(w, e, "none")
          /\ UNCHANGED <<configured, alive, claim, seen, posts, accepted, faults>>
      BY <1>4, <2>2 DEF ScheduleRetry, RetryLater
    <2>6. attempts[e] <= n + 1 /\ posts[e] <= n + 1
      BY <1>0
    <2> HIDE DEF n
    <2> QED
      BY <2>1, <2>4, <2>5, <2>6, RecordPreserves
  <1> QED
    BY <1>1, <1>2, <1>3, <1>4

\* A process that stops drops its claim and its goroutines; its rows stay.
LEMMA ProcessPreserves ==
    ASSUME IInv, NEW w \in Worker, Stop(w) \/ Restart(w)
    PROVE  IInv'
  <1> USE DEF IInv
  <1>1. CASE Stop(w)
    <2>1. TypeOK'
      BY <1>1, QueueAssumption DEF TypeOK, Stop, rows, Stages
    <2>2. RowsOK' /\ DeadLetteredOnce' /\ DeliveredWasAccepted'
      BY <1>1 DEF RowsOK, DeadLetteredOnce, DeliveredWasAccepted, rows, Stop
    <2>3. \A v \in Worker, e \in Event : task'[v][e] # "none" => v # w /\ task'[v][e] = task[v][e]
      BY <1>1 DEF TypeOK, Stop
    <2>4. \A v \in Worker : claim'[v] \subseteq claim[v]
      BY <1>1 DEF TypeOK, Stop
    <2>5. ClaimsOK' /\ AcceptedOK' /\ PostsOK'
      BY <1>1, <2>3, <2>4 DEF ClaimsOK, AcceptedOK, PostsOK, Stop, rows
    <2>6. HeldByOneWorker'
      BY <1>1, <2>3, <2>4 DEF HeldByOneWorker, Stop, rows
    <2> QED
      BY <2>1, <2>2, <2>5, <2>6
  <1>2. CASE Restart(w)
    BY <1>2 DEF TypeOK, RowsOK, ClaimsOK, AcceptedOK, PostsOK, HeldByOneWorker,
                DeadLetteredOnce, DeliveredWasAccepted, Restart, rows
  <1> QED
    BY <1>1, <1>2

LEMMA NextPreserves == IInv /\ [Next]_vars => IInv'
  <1> SUFFICES ASSUME IInv, [Next]_vars PROVE IInv'
    OBVIOUS
  <1>1. CASE UNCHANGED vars
    BY <1>1 DEF vars, rows, IInv, TypeOK, RowsOK, ClaimsOK, AcceptedOK, PostsOK, HeldByOneWorker,
                DeadLetteredOnce, DeliveredWasAccepted
  <1>2. ASSUME NEW t \in Tenant, Configure(t) PROVE IInv'
    BY <1>2 DEF Configure, rows, IInv, TypeOK, RowsOK, ClaimsOK, AcceptedOK, PostsOK,
                HeldByOneWorker, DeadLetteredOnce, DeliveredWasAccepted
  <1>3. ASSUME NEW w \in Worker, NEW e \in Event, ProcessEvent(w, e) PROVE IInv'
    BY <1>3, DeliverPreserves, OutcomePreserves DEF ProcessEvent
  <1> QED
    BY <1>1, <1>2, <1>3, EnqueuePreserves, TickPreserves, ClaimPendingPreserves,
       CommitClaimPreserves, ClaimFailsPreserves, CommitClaimUnacknowledgedPreserves,
       DeliverPreserves, ProcessPreserves DEF Next, Poll

-----------------------------------------------------------------------------
\* The invariant is inductive.
THEOREM InductiveInvariant == Spec => []IInv
  BY InitEstablishes, NextPreserves, PTL DEF Spec

\* The tables, the workers and their goroutines keep their types, and a stored
\* attempt count always leaves one attempt.
THEOREM TypeCorrect == Spec => []TypeOK
  <1>1. IInv => TypeOK
    BY DEF IInv
  <1> QED
    BY <1>1, InductiveInvariant, PTL

\* SKIP LOCKED is enough: no two workers ever process one event, whatever
\* fails or restarts.
THEOREM OneWorkerPerEvent == Spec => []HeldByOneWorker
  <1>1. IInv => HeldByOneWorker
    BY DEF IInv
  <1> QED
    BY <1>1, InductiveInvariant, PTL

\* A row is failed exactly when it has one dead letter.
THEOREM OneDeadLetterPerFailure == Spec => []DeadLetteredOnce
  <1>1. IInv => DeadLetteredOnce
    BY DEF IInv
  <1> QED
    BY <1>1, InductiveInvariant, PTL

\* No interleaving of workers, crashes and retries POSTs an event more than
\* MaxAttempts times.
THEOREM PostsStayBounded == Spec => []PostsAreBounded
  <1>1. IInv => PostsAreBounded
    <2> SUFFICES ASSUME IInv, NEW e \in Event PROVE posts[e] <= MaxAttempts
      BY DEF PostsAreBounded
    <2>1. /\ posts[e] <= attempts[e] + 1 /\ posts[e] \in Nat
          /\ attempts[e] \in 0..(MaxAttempts - 1)
      BY DEF IInv, PostsOK, TypeOK
    <2> QED
      BY <2>1, QueueAssumption
  <1> QED
    BY <1>1, InductiveInvariant, PTL

\* An event is marked delivered only after its receiver took it.
THEOREM DeliveredMeansAccepted == Spec => []DeliveredWasAccepted
  <1>1. IInv => DeliveredWasAccepted
    BY DEF IInv
  <1> QED
    BY <1>1, InductiveInvariant, PTL

\* Delivered and dead-lettered rows never change again: only the worker that
\* processes a row writes it, and only a pending row is claimed.
THEOREM SettledStaysSettled == Spec => SettledForGood
  <1> DEFINE Settled == \A e \in Event : status[e] \in {"delivered", "failed"} => status'[e] = status[e]
  <1>1. IInv /\ [Next]_vars => [Settled]_vars
    <2> SUFFICES ASSUME IInv, Next PROVE Settled
      OBVIOUS
    <2>0. status \in [Event -> Statuses]
      BY DEF IInv, TypeOK
    <2>1. CASE UNCHANGED status
      BY <2>1
    <2>2. ASSUME NEW e \in Event, Enqueue(e) PROVE Settled
      BY <2>0, <2>2 DEF Enqueue
    <2>3. ASSUME NEW w \in Worker, MarkProcessing(w) PROVE Settled
      BY <2>0, <2>3 DEF MarkProcessing, IInv, ClaimsOK
    <2>4. ASSUME NEW w \in Worker, NEW e \in Event, task[w][e] # "none", NEW s,
                 status' = [status EXCEPT ![e] = s]
          PROVE  Settled
      <3>1. status[e] = "processing"
        BY <2>4 DEF IInv, HeldByOneWorker
      <3> QED
        BY <2>0, <2>4, <3>1
    <2>5. ASSUME NEW w \in Worker, NEW e \in Event, ProcessEvent(w, e) PROVE Settled
      BY <2>1, <2>4, <2>5 DEF ProcessEvent, Deliver, MarkDelivered, SkipUnconfigured,
         MoveToDeadLetter, RetryLater, ScheduleRetry, MarkFailed, rows
    <2> QED
      BY <2>1, <2>2, <2>3, <2>5 DEF Next, Configure, Tick, Poll, ClaimPending, CommitClaim,
         CommitClaimUnacknowledged, ClaimFails, LookupFails, RecordingFails, Stop, Restart, rows
  <1> QED
    BY <1>1, InductiveInvariant, PTL DEF Spec, SettledForGood

=============================================================================
