-------------------------- MODULE Ingestion_proofs --------------------------
(***************************************************************************)
(* What holds of Ingestion for every set of requests, workers and API      *)
(* processes.  The composition is a job queue, so what is proved of        *)
(* JobQueue holds of it; the rest relates the runs to the jobs, to the     *)
(* episodes stored and to the requests the API processes have in hand.     *)
(***************************************************************************)
EXTENDS Ingestion, JobQueue_proofs, FiniteSetTheorems

Held(a) == ~At(a, "idle")

\* What an API process has in hand follows from where it stands.
ApiInv ==
  /\ api \in [Api -> [at: ApiStep, req: Requests \union {NoRequest}]]
  /\ \A a \in Api : Held(a) =>
       /\ api[a].req \in posted
       /\ At(a, "enqueue") => api[a].req \in Jobs
       /\ api[a].req \in Jobs => At(a, "insert") \/ At(a, "enqueue")
  /\ posted \subseteq Requests

LEMMA ApiInvInit == IngestInit => ApiInv
BY DEF IngestInit, ApiInv, ApiStep, Held, At

LEMMA ApiInvKept ==
  ASSUME ApiInv, [IngestNext]_allVars
  PROVE  ApiInv'
<1> USE IngestionConstants DEF ApiInv, ApiStep, Held, At, Goto, Answer
<1>1. ASSUME NEW a \in Api, ApiNext(a)
      PROVE  ApiInv'
  <2>1. ASSUME NEW r \in Requests, Post(a, r)
        PROVE  ApiInv'
    BY <2>1 DEF Post
  <2>2. CASE InsertRun(a)
    BY <2>2 DEF InsertRun
  <2>3. CASE EnqueueJob(a) \/ CloseRun(a) \/ FailRun(a)
    BY <2>3 DEF EnqueueJob, CloseRun, FailRun
  <2>4. CASE MarkRunning(a) \/ Store(a) \/ StoreRefused(a)
    BY <2>4 DEF MarkRunning, Store, StoreRefused
  <2>5. CASE StatementThrows(a)
    BY <2>5 DEF StatementThrows
  <2>6. CASE ApiCrash(a)
    BY <2>6 DEF ApiCrash
  <2> QED
    BY <1>1, <2>1, <2>2, <2>3, <2>4, <2>5, <2>6 DEF ApiNext
<1>2. CASE UNCHANGED <<api, posted>>
  BY <1>2
<1> QED
  BY <1>1, <1>2
  DEF IngestNext, UrlNext, LoopStep, ClaimUrl, UrlMarkRunning, UrlMarkThrows,
      UrlStore, UrlRefused, UrlCloseRun, UrlCloseThrows, UrlFailRun,
      UrlFailThrows, allVars, ingestVars

\* What a step does to the queue is a step of the queue.
LEMMA QueueStep ==
  ASSUME ApiInv, [IngestNext]_allVars
  PROVE  [QueueNext]_queueVars
<1>1. ASSUME NEW a \in Api, ApiNext(a)
      PROVE  [QueueNext]_queueVars
  <2>1. CASE EnqueueJob(a)
    <3>1. api[a].req \in Jobs
      BY <2>1 DEF ApiInv, EnqueueJob, Held, At
    <3> QED
      BY <2>1, <3>1 DEF EnqueueJob, QueueNext
  <2>2. CASE UNCHANGED queueVars
    BY <2>2
  <2> QED
    BY <1>1, <2>1, <2>2
    DEF ApiNext, Post, InsertRun, MarkRunning, Store, StoreRefused, CloseRun,
        FailRun, StatementThrows, ApiCrash
<1>2. ASSUME NEW w \in Workers, UrlNext(w) \/ LoopStep(w)
      PROVE  [QueueNext]_queueVars
  <2>1. Loop(w) \/ UNCHANGED queueVars
    BY <1>2
    DEF UrlNext, LoopStep, Loop, ClaimUrl, UrlMarkRunning, UrlMarkThrows,
        UrlStore, UrlRefused, UrlCloseRun, UrlCloseThrows, UrlFailRun,
        UrlFailThrows
  <2> QED
    BY <2>1 DEF QueueNext
<1> QED
  BY <1>1, <1>2 DEF IngestNext, allVars, QueueNext

\* The runs and the API processes only ever take the steps of the queue that
\* JobQueue has: the ingestion service is a job queue.
THEOREM IngestionIsQueue == IngestSpec => QueueSpec
<1>1. IngestInit => QueueInit
  BY DEF IngestInit
<1> QED
  BY <1>1, ApiInvInit, ApiInvKept, QueueStep, PTL DEF IngestSpec, QueueSpec

-----------------------------------------------------------------------------
\* The rest of the shape of the tables and of the two handlers.
Shape ==
  /\ run \in [Requests -> RunStatus]
  /\ stored \in [Requests -> Nat]
  /\ accepted \subseteq Requests
  /\ step \in [Workers -> UrlStep]
  /\ errors \in 0..MaxErrors

LEMMA ShapeInit == IngestInit => Shape
BY IngestionConstants DEF IngestInit, Shape, RunStatus, UrlStep

\* A handler has its job in hand, which is a request.
LEMMA HandlerHasJob ==
  ASSUME QueueTypeOK, NEW w \in Workers, worker[w].phase = "handling"
  PROVE  worker[w].job \in Jobs /\ worker[w].job \in Requests
BY IngestionConstants DEF QueueTypeOK, InHand, Busy

LEMMA ShapeKept ==
  ASSUME QueueTypeOK, ApiInv, Shape, [IngestNext]_allVars
  PROVE  Shape'
<1> USE IngestionConstants DEF Shape, RunStatus, UrlStep, updateStatus, Error
<1>1. ASSUME NEW a \in Api, ApiNext(a)
      PROVE  Shape'
  <2>1. api[a].req \in Requests \/ At(a, "idle")
    BY DEF ApiInv, Held
  <2>2. ASSUME NEW r \in Requests, Post(a, r)
        PROVE  Shape'
    BY <2>2 DEF Post, Accept, findByIdempotencyKey
  <2>3. CASE Store(a)
    BY <2>1, <2>3 DEF Store, At, ingestMarkdown
  <2>4. CASE InsertRun(a) \/ MarkRunning(a) \/ FailRun(a)
    BY <2>1, <2>4 DEF InsertRun, MarkRunning, FailRun, At
  <2>5. CASE EnqueueJob(a) \/ CloseRun(a)
    BY <2>1, <2>5 DEF EnqueueJob, CloseRun, At, Accept
  <2>6. CASE StoreRefused(a) \/ StatementThrows(a) \/ ApiCrash(a)
    BY <2>6 DEF StoreRefused, StatementThrows, ApiCrash
  <2> QED
    BY <1>1, <2>2, <2>3, <2>4, <2>5, <2>6 DEF ApiNext
<1>2. ASSUME NEW w \in Workers, UrlNext(w)
      PROVE  Shape'
  <2>1. worker[w].phase = "handling" => worker[w].job \in Requests
    BY HandlerHasJob
  <2>2. ASSUME NEW j \in Jobs, ClaimUrl(w, j)
        PROVE  Shape'
    BY <2>2 DEF ClaimUrl
  <2>3. CASE UrlStore(w)
    BY <2>1, <2>3 DEF UrlStore, Handles, ingestMarkdown
  <2>4. CASE UrlMarkRunning(w) \/ UrlCloseRun(w) \/ UrlFailRun(w)
    BY <2>4 DEF UrlMarkRunning, UrlCloseRun, UrlFailRun
  <2>5. CASE UrlMarkThrows(w) \/ UrlRefused(w) \/ UrlCloseThrows(w) \/ UrlFailThrows(w)
    BY <2>5 DEF UrlMarkThrows, UrlRefused, UrlCloseThrows, UrlFailThrows
  <2> QED
    BY <1>2, <2>2, <2>3, <2>4, <2>5 DEF UrlNext
<1>3. CASE UNCHANGED ingestVars
  BY <1>3 DEF ingestVars
<1> QED
  BY <1>1, <1>2, <1>3 DEF IngestNext, LoopStep, allVars

\* The tables, the API processes and the workers have the shape the code
\* gives them.
THEOREM IngestTypeCorrect == IngestSpec => []IngestTypeOK
<1>1. QueueTypeOK /\ ApiInv /\ Shape => IngestTypeOK
  BY DEF IngestTypeOK, ApiInv, Shape
<1> QED
  BY <1>1, IngestionIsQueue, QueueTypeCorrect, ApiInvInit, ApiInvKept,
     ShapeInit, ShapeKept, PTL DEF IngestSpec

-----------------------------------------------------------------------------
\* Nothing is reported before it is stored: a handler that is about to set a
\* run to succeeded has inserted the run's episodes.
StoredInv ==
  /\ SucceededIsStored
  /\ \A a \in Api : At(a, "close") => stored[api[a].req] > 0
  /\ \A w \in Workers : Handles(w, "close") => stored[worker[w].job] > 0

\* A step that is no claim and not the handler's own leaves a handler where
\* it is, with its job.
LEMMA HandlerStays ==
  ASSUME QueueTypeOK, NEW w \in Workers, LoopStep(w)
  PROVE  \A v \in Workers :
           worker'[v].phase = "handling" => worker'[v] = worker[v]
<1> USE DEF QueueTypeOK, Worker
<1>1. ASSUME NEW phase \in {"polling", "dead", "down"}, NEW t, NEW n,
             worker' = [worker EXCEPT ![w] = Idle(phase, t, n)]
      PROVE  \A v \in Workers :
               worker'[v].phase = "handling" => worker'[v] = worker[v]
  BY <1>1 DEF Idle
<1>2. CASE EndBatch(w)
  BY <1>1, <1>2 DEF EndBatch
<1>3. CASE SucceedThrows(w)
  BY <1>3 DEF SucceedThrows
<1> QED
  BY <1>1, <1>2, <1>3
  DEF LoopStep, Start, ClaimThrows, Succeed, Fail, Settle, FailThrows, Crash,
      LoopDies

LEMMA StoredInvInit == IngestInit => StoredInv
BY DEF IngestInit, QueueInit, Idle, StoredInv, SucceededIsStored, Handles, At

LEMMA StoredInvKept ==
  ASSUME QueueTypeOK, ApiInv, Shape, StoredInv, [IngestNext]_allVars
  PROVE  StoredInv'
<1> USE IngestionConstants
    DEF Shape, StoredInv, SucceededIsStored, At, Handles, updateStatus, ingestMarkdown
<1>1. \A a \in Api : api[a].req \in Requests \/ At(a, "idle")
  BY DEF ApiInv, Held
<1>2. \A w \in Workers :
        worker[w].phase = "handling" => worker[w].job \in Requests
  BY HandlerHasJob
<1>3. ASSUME NEW a \in Api, ApiNext(a)
      PROVE  StoredInv'
  <2> USE DEF ApiInv, Goto, Answer
  <2>1. UNCHANGED <<worker, step>>
    BY <1>3 DEF ApiNext, Post, InsertRun, EnqueueJob, Enqueue, MarkRunning, Store,
                StoreRefused, CloseRun, FailRun, StatementThrows, ApiCrash, queueVars
  <2>2. CASE EnqueueJob(a)
    BY <2>1, <2>2 DEF EnqueueJob
  <2>3. CASE Store(a)
    BY <1>1, <1>2, <2>1, <2>3 DEF Store
  <2>4. CASE InsertRun(a)
    BY <1>1, <1>2, <2>1, <2>4 DEF InsertRun
  <2>5. CASE MarkRunning(a)
    BY <1>1, <1>2, <2>1, <2>5 DEF MarkRunning
  <2>6. CASE CloseRun(a) \/ FailRun(a)
    BY <1>1, <1>2, <2>1, <2>6 DEF CloseRun, FailRun
  <2>7. ASSUME NEW r \in Requests, Post(a, r)
        PROVE  StoredInv'
    BY <2>1, <2>7 DEF Post
  <2>8. CASE StoreRefused(a) \/ StatementThrows(a) \/ ApiCrash(a)
    BY <2>1, <2>8 DEF StoreRefused, StatementThrows, ApiCrash
  <2> QED
    BY <1>3, <2>2, <2>3, <2>4, <2>5, <2>6, <2>7, <2>8 DEF ApiNext
<1>4. ASSUME NEW w \in Workers, UrlNext(w)
      PROVE  StoredInv'
  <2> USE DEF QueueTypeOK, Worker
  <2>1. UNCHANGED api
    BY <1>4 DEF UrlNext, ClaimUrl, UrlMarkRunning, UrlMarkThrows, UrlStore,
                UrlRefused, UrlCloseRun, UrlCloseThrows, UrlFailRun, UrlFailThrows
  <2>2. ASSUME NEW j \in Jobs, ClaimUrl(w, j)
        PROVE  StoredInv'
    BY <2>1, <2>2 DEF ClaimUrl, Claim
  <2>3. CASE UrlStore(w)
    BY <1>1, <1>2, <2>1, <2>3 DEF UrlStore, queueVars
  <2>4. CASE UrlMarkRunning(w) \/ UrlRefused(w) \/ UrlCloseThrows(w)
    BY <1>2, <2>1, <2>4 DEF UrlMarkRunning, UrlRefused, UrlCloseThrows, queueVars
  <2>5. CASE UrlCloseRun(w) \/ UrlFailRun(w)
    BY <1>2, <2>1, <2>5 DEF UrlCloseRun, UrlFailRun, HandlerReturns, HandlerThrows
  <2>6. CASE UrlMarkThrows(w) \/ UrlFailThrows(w)
    BY <2>1, <2>6 DEF UrlMarkThrows, UrlFailThrows, HandlerThrows
  <2> QED
    BY <1>4, <2>2, <2>3, <2>4, <2>5, <2>6 DEF UrlNext
<1>5. ASSUME NEW w \in Workers, LoopStep(w)
      PROVE  StoredInv'
  <2>1. UNCHANGED ingestVars
    BY <1>5 DEF LoopStep
  <2> QED
    BY <1>5, <2>1, HandlerStays DEF ingestVars
<1>6. CASE Tick /\ UNCHANGED ingestVars
  BY <1>6 DEF Tick, ingestVars
<1>7. CASE UNCHANGED allVars
  BY <1>7 DEF allVars, queueVars, ingestVars
<1> QED
  BY <1>3, <1>4, <1>5, <1>6, <1>7 DEF IngestNext

\* Whatever fails and however often a job is executed, a run that is reported
\* as succeeded has its episodes in the store.
THEOREM SucceededIsStoredCorrect == IngestSpec => []SucceededIsStored
<1>1. StoredInv => SucceededIsStored
  BY DEF StoredInv
<1> QED
  BY <1>1, IngestionIsQueue, QueueTypeCorrect, ApiInvInit, ApiInvKept,
     ShapeInit, ShapeKept, StoredInvInit, StoredInvKept, PTL DEF IngestSpec

-----------------------------------------------------------------------------
\* The workers that may still store the episodes of r on their claim.
Pending(r) ==
  {w \in Workers : /\ Handles(w, "mark") \/ Handles(w, "store")
                   /\ worker[w].job = r}

\* The inductive invariant of the jobs' half of StoredOncePerAttempt: each
\* attempt has stored the episodes, may still store them, or has given up.
PendingInv ==
  \A r \in Jobs : stored[r] + Cardinality(Pending(r)) <= jobs[r].attempts

LEMMA PendingIsFinite ==
  ASSUME IsFiniteSet(Workers)
  PROVE  \A r : IsFiniteSet(Pending(r)) /\ Cardinality(Pending(r)) \in Nat
BY FS_Subset, FS_CardinalityType DEF Pending

LEMMA PendingInvInit == IngestInit => PendingInv
<1> SUFFICES ASSUME IngestInit, NEW r \in Jobs
             PROVE  stored[r] + Cardinality(Pending(r)) <= jobs[r].attempts
  BY DEF PendingInv
<1>1. Pending(r) = {}
  BY DEF IngestInit, QueueInit, Idle, Pending, Handles
<1> QED
  BY <1>1, FS_EmptySet, IngestionConstants DEF IngestInit, QueueInit

LEMMA AttemptsGrow ==
  ASSUME QueueTypeOK, [QueueNext]_queueVars, NEW j \in Jobs
  PROVE  /\ {jobs[j].attempts, jobs'[j].attempts} \subseteq Nat
         /\ jobs[j].attempts <= jobs'[j].attempts
         /\ \A w \in Workers :
              Claim(w, j) => jobs'[j].attempts = jobs[j].attempts + 1
<1>1. /\ jobs[j] \in Row
      /\ DOMAIN jobs = Jobs
  BY DEF QueueTypeOK
<1>2. /\ jobs[j].attempts \in Nat
      /\ jobs[j] = [status |-> jobs[j].status, attempts |-> jobs[j].attempts,
                    createdAt |-> jobs[j].createdAt, claimedAt |-> jobs[j].claimedAt]
  BY <1>1 DEF Row
<1>3. ASSUME NEW w \in Workers, Claim(w, j)
      PROVE  jobs'[j].attempts = jobs[j].attempts + 1
  <2>1. jobs'[j] = Claimed(j)
    BY <1>1, <1>3 DEF Claim
  <2> QED
    BY <1>2, <2>1 DEF Claimed
<1>4. (\A w \in Workers : ~Claim(w, j)) => jobs'[j].attempts = jobs[j].attempts
  <2>1. RowStep(j)
    BY RowSteps
  <2>2. ASSUME NEW status, jobs'[j] = [jobs[j] EXCEPT !.status = status]
        PROVE  jobs'[j].attempts = jobs[j].attempts
    BY <1>2, <2>2
  <2> QED
    BY <2>1, <2>2 DEF RowStep
<1> QED
  BY <1>2, <1>3, <1>4

\* A step that gives no worker a claim and stores nothing for a job.
LEMMA NoNewPending ==
  ASSUME IsFiniteSet(Workers), QueueTypeOK, Shape, PendingInv, [QueueNext]_queueVars,
         \A r \in Jobs : stored'[r] = stored[r] /\ Pending(r)' \subseteq Pending(r)
  PROVE  PendingInv'
<1> SUFFICES ASSUME NEW r \in Jobs
             PROVE  stored'[r] + Cardinality(Pending(r)') <= jobs'[r].attempts
  BY DEF PendingInv
<1>1. /\ Cardinality(Pending(r)') <= Cardinality(Pending(r))
      /\ Cardinality(Pending(r)) \in Nat
      /\ Cardinality(Pending(r)') \in Nat
  BY PendingIsFinite, FS_Subset, FS_CardinalityType
<1>2. /\ {jobs[r].attempts, jobs'[r].attempts} \subseteq Nat
      /\ jobs[r].attempts <= jobs'[r].attempts
  BY AttemptsGrow
<1>3. stored[r] \in Nat /\ stored'[r] = stored[r]
  BY IngestionConstants DEF Shape
<1>4. stored[r] + Cardinality(Pending(r)) <= jobs[r].attempts
  BY DEF PendingInv
<1> QED
  BY <1>1, <1>2, <1>3, <1>4

\* A claim adds the worker to those who may store, and an attempt to pay for it.
LEMMA ClaimKeepsPending ==
  ASSUME IsFiniteSet(Workers), QueueTypeOK, Shape, PendingInv, [QueueNext]_queueVars,
         NEW w \in Workers, NEW j \in Jobs, ClaimUrl(w, j)
  PROVE  PendingInv'
<1> SUFFICES ASSUME NEW r \in Jobs
             PROVE  stored'[r] + Cardinality(Pending(r)') <= jobs'[r].attempts
  BY DEF PendingInv
<1>1. /\ stored[r] + Cardinality(Pending(r)) <= jobs[r].attempts
      /\ stored[r] \in Nat /\ stored' = stored
  BY IngestionConstants DEF PendingInv, Shape, ClaimUrl
<1>2. /\ {jobs[r].attempts, jobs'[r].attempts} \subseteq Nat
      /\ jobs[r].attempts <= jobs'[r].attempts
      /\ r = j => jobs'[r].attempts = jobs[r].attempts + 1
  BY AttemptsGrow DEF ClaimUrl
<1>3. IsFiniteSet(Pending(r)) /\ Cardinality(Pending(r)) \in Nat
  BY PendingIsFinite
<1>4. Pending(r)' = IF r = j THEN Pending(r) \union {w} ELSE Pending(r)
  <2>1. /\ worker[w].phase # "handling"
        /\ worker'[w].phase = "handling" /\ worker'[w].job = j
        /\ step'[w] = "mark"
    BY IngestionConstants DEF ClaimUrl, Claim, QueueTypeOK, Shape
  <2>2. \A v \in Workers \ {w} : worker'[v] = worker[v] /\ step'[v] = step[v]
    BY DEF ClaimUrl, Claim, QueueTypeOK, Shape
  <2>3. ASSUME NEW v \in Workers
        PROVE  v \in Pending(r)' <=> v \in Pending(r) \/ (r = j /\ v = w)
    BY <2>1, <2>2 DEF Pending, Handles
  <2>4. Pending(r) \subseteq Workers /\ Pending(r)' \subseteq Workers
    BY DEF Pending
  <2> QED
    BY <2>3, <2>4
<1>5. Cardinality(Pending(r) \union {w}) =
        IF w \in Pending(r) THEN Cardinality(Pending(r))
                            ELSE Cardinality(Pending(r)) + 1
  BY <1>3, FS_AddElement
<1> QED
  BY <1>1, <1>2, <1>3, <1>4, <1>5

\* Storing takes the worker from those who may.
LEMMA StoreKeepsPending ==
  ASSUME IsFiniteSet(Workers), QueueTypeOK, Shape, PendingInv,
         NEW w \in Workers, UrlStore(w)
  PROVE  PendingInv'
<1> SUFFICES ASSUME NEW r \in Jobs
             PROVE  stored'[r] + Cardinality(Pending(r)') <= jobs'[r].attempts
  BY DEF PendingInv
<1>1. /\ stored[r] + Cardinality(Pending(r)) <= jobs[r].attempts
      /\ stored[r] \in Nat
      /\ stored'[r] = IF r = worker[w].job THEN stored[r] + 1 ELSE stored[r]
      /\ jobs' = jobs
  BY IngestionConstants DEF PendingInv, Shape, UrlStore, ingestMarkdown, queueVars
<1>2. IsFiniteSet(Pending(r)) /\ Cardinality(Pending(r)) \in Nat
  BY PendingIsFinite
<1>3. r = worker[w].job <=> w \in Pending(r)
  BY DEF UrlStore, Pending, Handles
<1>4. Pending(r)' = Pending(r) \ {w}
  BY <1>3 DEF UrlStore, Pending, Handles, queueVars, Shape
<1>5. Cardinality(Pending(r) \ {w}) =
        IF w \in Pending(r) THEN Cardinality(Pending(r)) - 1
                            ELSE Cardinality(Pending(r))
  BY <1>2, FS_RemoveElement
<1>6. jobs[r].attempts \in Nat
  BY DEF QueueTypeOK, Row
<1> QED
  BY <1>1, <1>2, <1>3, <1>4, <1>5, <1>6

LEMMA PendingInvKept ==
  ASSUME IsFiniteSet(Workers), QueueTypeOK, ApiInv, Shape, PendingInv, [IngestNext]_allVars
  PROVE  PendingInv'
<1>1. [QueueNext]_queueVars
  BY QueueStep
<1>2. ASSUME NEW a \in Api, ApiNext(a)
      PROVE  \A r \in Jobs : stored'[r] = stored[r] /\ Pending(r)' \subseteq Pending(r)
  <2>1. UNCHANGED <<worker, step>>
    BY <1>2 DEF ApiNext, Post, InsertRun, EnqueueJob, Enqueue, MarkRunning, Store,
                StoreRefused, CloseRun, FailRun, StatementThrows, ApiCrash, queueVars
  <2>2. UNCHANGED stored \/ Store(a)
    BY <1>2 DEF ApiNext, Post, InsertRun, EnqueueJob, MarkRunning, StoreRefused,
                CloseRun, FailRun, StatementThrows, ApiCrash
  <2>3. Store(a) => \A r \in Jobs : stored'[r] = stored[r]
    BY IngestionConstants DEF Store, ingestMarkdown, ApiInv, Held, At, Shape
  <2> QED
    BY <2>1, <2>2, <2>3 DEF Pending, Handles
<1>3. ASSUME NEW w \in Workers,
             \/ UrlMarkRunning(w) \/ UrlMarkThrows(w) \/ UrlRefused(w)
             \/ UrlCloseRun(w) \/ UrlCloseThrows(w) \/ UrlFailRun(w) \/ UrlFailThrows(w)
      PROVE  \A r \in Jobs : stored'[r] = stored[r] /\ Pending(r)' \subseteq Pending(r)
  <2> USE DEF Shape, Pending, Handles
  <2>1. CASE UrlMarkRunning(w)
    BY <2>1 DEF UrlMarkRunning, queueVars
  <2>2. CASE UrlRefused(w) \/ UrlCloseThrows(w)
    BY <2>2 DEF UrlRefused, UrlCloseThrows, queueVars
  <2>3. CASE UrlMarkThrows(w) \/ UrlCloseRun(w) \/ UrlFailRun(w) \/ UrlFailThrows(w)
    BY <2>3 DEF UrlMarkThrows, UrlCloseRun, UrlFailRun, UrlFailThrows,
                HandlerReturns, HandlerThrows, QueueTypeOK, Worker
  <2> QED
    BY <1>3, <2>1, <2>2, <2>3
<1>4. ASSUME NEW w \in Workers, LoopStep(w)
      PROVE  \A r \in Jobs : stored'[r] = stored[r] /\ Pending(r)' \subseteq Pending(r)
  <2>1. UNCHANGED ingestVars
    BY <1>4 DEF LoopStep
  <2> QED
    BY <1>4, <2>1, HandlerStays DEF ingestVars, Pending, Handles
<1>5. CASE (Tick /\ UNCHANGED ingestVars) \/ UNCHANGED allVars
  <2>1. UNCHANGED <<stored, worker, step>>
    BY <1>5 DEF Tick, ingestVars, allVars, queueVars
  <2>2. \A r \in Jobs : stored'[r] = stored[r] /\ Pending(r)' \subseteq Pending(r)
    BY <2>1 DEF Pending, Handles
  <2> QED
    BY <2>2, <1>1, NoNewPending
<1> QED
  BY <1>1, <1>2, <1>3, <1>4, <1>5, ClaimKeepsPending, StoreKeepsPending, NoNewPending
  DEF IngestNext, UrlNext

\* The other half: a request without a job is stored by the one API process
\* that has it in hand, and only once.
OnceInv ==
  /\ \A a, b \in Api : (a # b /\ Held(a) /\ Held(b)) => api[a].req # api[b].req
  /\ \A r \in Requests \ Jobs : stored[r] <= 1
  /\ \A r \in Requests \ (Jobs \union posted) : stored[r] = 0
  /\ \A a \in Api :
       (api[a].at \in {"insert", "mark", "store"} /\ api[a].req \notin Jobs)
         => stored[api[a].req] = 0

LEMMA OnceInvInit == IngestInit => OnceInv
BY DEF IngestInit, OnceInv, Held, At

LEMMA OnceInvKept ==
  ASSUME QueueTypeOK, ApiInv, Shape, OnceInv, [IngestNext]_allVars
  PROVE  OnceInv'
<1> USE DEF OnceInv, Held, At, ApiInv, Shape
<1>1. ASSUME NEW a \in Api, ApiNext(a)
      PROVE  OnceInv'
  <2> USE DEF Goto, Answer
  <2>1. ASSUME NEW r \in Requests, Post(a, r)
        PROVE  OnceInv'
    BY <2>1 DEF Post
  <2>2. CASE Store(a)
    BY <2>2 DEF Store, ingestMarkdown
  <2>3. CASE InsertRun(a) \/ MarkRunning(a) \/ StoreRefused(a)
    BY <2>3, SMTT(30) DEF InsertRun, MarkRunning, StoreRefused
  <2>4. CASE EnqueueJob(a) \/ CloseRun(a) \/ FailRun(a) \/ ApiCrash(a)
    BY <2>4 DEF EnqueueJob, CloseRun, FailRun, ApiCrash
  <2>5. CASE StatementThrows(a)
    BY <2>5, SMTT(30) DEF StatementThrows
  <2> QED
    BY <1>1, <2>1, <2>2, <2>3, <2>4, <2>5 DEF ApiNext
<1>2. ASSUME NEW w \in Workers, UrlStore(w)
      PROVE  OnceInv'
  <2>1. worker[w].job \in Jobs
    BY <1>2, HandlerHasJob DEF UrlStore, Handles
  <2> QED
    BY <1>2, <2>1 DEF UrlStore, ingestMarkdown
<1>3. CASE UNCHANGED <<api, posted, stored>>
  BY <1>3
<1> QED
  BY <1>1, <1>2, <1>3
  DEF IngestNext, UrlNext, LoopStep, ClaimUrl, UrlMarkRunning, UrlMarkThrows,
      UrlRefused, UrlCloseRun, UrlCloseThrows, UrlFailRun, UrlFailThrows,
      allVars, ingestVars

\* A document is stored at most once for each attempt of its job, and at most
\* once without a job.
THEOREM StoredOnceCorrect ==
  ASSUME IsFiniteSet(Workers)
  PROVE  IngestSpec => []StoredOncePerAttempt
<1>1. QueueTypeOK /\ Shape /\ PendingInv /\ OnceInv => StoredOncePerAttempt
  <2> SUFFICES ASSUME QueueTypeOK, Shape, PendingInv, OnceInv, NEW r \in Jobs
               PROVE  stored[r] <= jobs[r].attempts
    BY DEF StoredOncePerAttempt, OnceInv
  <2>1. stored[r] \in Nat /\ jobs[r].attempts \in Nat /\ Cardinality(Pending(r)) \in Nat
    BY PendingIsFinite, IngestionConstants DEF Shape, QueueTypeOK, Row
  <2> QED
    BY <2>1 DEF PendingInv
<1> QED
  BY <1>1, IngestionIsQueue, QueueTypeCorrect, ApiInvInit, ApiInvKept, ShapeInit,
     ShapeKept, PendingInvInit, PendingInvKept, OnceInvInit, OnceInvKept, PTL
  DEF IngestSpec

-----------------------------------------------------------------------------
\* The order in which a request is posted, its run inserted and its job
\* enqueued: who may still write the status of a run.
RunInv ==
  /\ \A a, b \in Api : (a # b /\ Held(a) /\ Held(b)) => api[a].req # api[b].req
  /\ \A r \in Requests \ posted : run[r] = "absent"
  /\ \A j \in Jobs : jobs[j].status # "absent" => run[j] # "absent"
  /\ \A a \in Api :
       /\ At(a, "insert") => run[api[a].req] = "absent"
       /\ At(a, "enqueue") => run[api[a].req] # "absent"
       /\ api[a].at \in {"mark", "store", "close", "fail"}
            => run[api[a].req] \in {"queued", "running"}

LEMMA RunInvInit == IngestInit => RunInv
BY IngestionConstants DEF IngestInit, QueueInit, RunInv, Held, At

\* A handler writes the status of the run of a job that was enqueued, which
\* no API process has still to insert or to close.
LEMMA HandlerWritesItsRun ==
  ASSUME QueueTypeOK, LeaseInv, ApiInv, Shape, RunInv, UNCHANGED api,
         NEW w \in Workers, worker[w].phase = "handling",
         NEW status \in RunStatus \ {"absent"}, updateStatus(worker[w].job, status),
         posted' = posted,
         \A j \in Jobs : jobs'[j].status # "absent" => jobs[j].status # "absent"
  PROVE  RunInv'
<1>1. worker[w].job \in Jobs /\ jobs[worker[w].job].status # "absent"
  BY HandlerHasJob DEF LeaseInv, ClaimOf, InHand, Busy
<1> QED
  BY <1>1, IngestionConstants
  DEF RunInv, ApiInv, Held, At, Shape, updateStatus

LEMMA RunInvKept ==
  ASSUME QueueTypeOK, LeaseInv, ApiInv, Shape, RunInv, [IngestNext]_allVars
  PROVE  RunInv'
<1> USE DEF Held, At
<1>1. [QueueNext]_queueVars
  BY QueueStep
<1>2. ASSUME NEW a \in Api, ApiNext(a)
      PROVE  RunInv'
  <2> USE IngestionConstants DEF Goto, Answer, ApiInv, Shape, RunInv, updateStatus
  <2>1. CASE EnqueueJob(a)
    <3>1. api[a].req \in Jobs
      BY <2>1 DEF EnqueueJob
    <3>2. \A j \in Jobs :
            jobs'[j].status # "absent" => jobs[j].status # "absent" \/ j = api[a].req
      BY <2>1, <3>1 DEF EnqueueJob, Enqueue, enqueue, QueueTypeOK
    <3> QED
      BY <2>1, <3>1, <3>2 DEF EnqueueJob
  <2>2. ASSUME NEW r \in Requests, Post(a, r)
        PROVE  RunInv'
    BY <2>2 DEF Post, queueVars
  <2>3. CASE InsertRun(a)
    BY <2>3 DEF InsertRun, queueVars
  <2>4. CASE MarkRunning(a)
    BY <2>4 DEF MarkRunning, queueVars
  <2>5. CASE Store(a) \/ StoreRefused(a)
    BY <2>5 DEF Store, StoreRefused, queueVars
  <2>6. CASE CloseRun(a) \/ FailRun(a)
    <3>1. PICK status \in {"succeeded", "failed"} :
            run' = [run EXCEPT ![api[a].req] = status]
      BY <2>6 DEF CloseRun, FailRun
    <3>2. /\ api' = [api EXCEPT ![a] = [at |-> "idle", req |-> NoRequest]]
          /\ UNCHANGED <<posted, jobs>>
          /\ Held(a) /\ ~At(a, "insert") /\ ~At(a, "enqueue")
      BY <2>6 DEF CloseRun, FailRun, queueVars
    <3>3. api[a].req \in posted /\ api[a].req \notin Jobs
      BY <3>2
    <3>4. \A r \in Requests : r # api[a].req => run'[r] = run[r]
      BY <3>1
    <3>5. \A b \in Api : Held(b)' =>
            b # a /\ api'[b] = api[b] /\ run'[api[b].req] = run[api[b].req]
      BY <3>2, <3>4
    <3> QED
      BY <3>2, <3>3, <3>4, <3>5
  <2>7. CASE StatementThrows(a)
    <3>1. UNCHANGED <<run, posted, jobs>>
      BY <2>7 DEF StatementThrows, queueVars
    <3>2. CASE At(a, "close") /\ Goto(a, "fail")
      BY <3>1, <3>2
    <3>3. CASE Answer(a)
      BY <3>1, <3>3
    <3> QED
      BY <2>7, <3>2, <3>3 DEF StatementThrows
  <2>8. CASE ApiCrash(a)
    BY <2>8 DEF ApiCrash, queueVars
  <2> QED
    BY <1>2, <2>1, <2>2, <2>3, <2>4, <2>5, <2>6, <2>7, <2>8 DEF ApiNext
<1>3. ASSUME NEW w \in Workers, Loop(w)
      PROVE  \A j \in Jobs : jobs'[j].status # "absent" => jobs[j].status # "absent"
  <2> USE DEF QueueTypeOK
  <2>1. ASSUME NEW j \in Jobs, Claim(w, j)
        PROVE  \A i \in Jobs : jobs'[i].status # "absent" => jobs[i].status # "absent"
    BY <2>1 DEF Claim, Oldest
  <2>2. CASE Start(w)
    BY <2>2 DEF Start, requeueStaleRunning, Stale
  <2>3. CASE Succeed(w) \/ Fail(w)
    <3>1. InHand(w)
      BY <2>3 DEF Succeed, Fail, Settle, InHand, Busy
    <3> QED
      BY <2>3, <3>1 DEF Succeed, Fail, Settle, settle, LeaseInv, ClaimOf
  <2>4. CASE UNCHANGED jobs
    BY <2>4
  <2> QED
    BY <1>3, <2>1, <2>2, <2>3, <2>4
    DEF Loop, ClaimThrows, EndBatch, HandlerReturns, HandlerThrows, SucceedThrows,
        FailThrows, Crash
<1>4. ASSUME NEW w \in Workers, UrlMarkRunning(w) \/ UrlCloseRun(w) \/ UrlFailRun(w)
      PROVE  RunInv'
  <2>1. PICK status \in RunStatus \ {"absent"} : updateStatus(worker[w].job, status)
    BY <1>4 DEF UrlMarkRunning, UrlCloseRun, UrlFailRun, RunStatus
  <2>2. /\ worker[w].phase = "handling"
        /\ UNCHANGED <<api, posted, jobs>>
    BY <1>4 DEF UrlMarkRunning, UrlCloseRun, UrlFailRun, Handles, queueVars,
                HandlerReturns, HandlerThrows
  <2> QED
    BY <2>1, <2>2, HandlerWritesItsRun
<1>5. ASSUME UNCHANGED <<run, posted, api>>,
             \A j \in Jobs : jobs'[j].status # "absent" => jobs[j].status # "absent"
      PROVE  RunInv'
  BY <1>5 DEF RunInv
<1>6. ASSUME NEW w \in Workers,
             \/ \E j \in Jobs : ClaimUrl(w, j)
             \/ LoopStep(w)
      PROVE  RunInv'
  <2>1. Loop(w) /\ UNCHANGED <<run, posted, api>>
    BY <1>6 DEF ClaimUrl, LoopStep, Loop, ingestVars
  <2> QED
    BY <2>1, <1>3, <1>5
<1>7. ASSUME NEW w \in Workers,
             \/ UrlMarkThrows(w) \/ UrlStore(w) \/ UrlRefused(w)
             \/ UrlCloseThrows(w) \/ UrlFailThrows(w)
      PROVE  RunInv'
  <2>1. UNCHANGED <<run, posted, api, jobs>>
    BY <1>7 DEF UrlMarkThrows, UrlStore, UrlRefused, UrlCloseThrows, UrlFailThrows,
                HandlerThrows, queueVars
  <2> QED
    BY <2>1, <1>5
<1>8. CASE Tick /\ UNCHANGED ingestVars
  BY <1>8, <1>5 DEF Tick, ingestVars
<1>9. CASE UNCHANGED allVars
  BY <1>9, <1>5 DEF allVars, queueVars, ingestVars
<1> QED
  BY <1>2, <1>4, <1>6, <1>7, <1>8, <1>9 DEF IngestNext, UrlNext

-----------------------------------------------------------------------------
\* Who writes run: an API process inserts it, an API process updates a run it
\* has in hand, or a handler updates the run of its job.
RunWriter ==
  \/ UNCHANGED run
  \/ \E a \in Api :
       /\ At(a, "insert")
       /\ run' = [run EXCEPT ![api[a].req] = "queued"]
       /\ \A b \in Api : At(b, "insert")' => b # a /\ api'[b] = api[b]
       /\ UNCHANGED queueVars
  \/ \E a \in Api : \E status \in RunStatus \ {"absent"} :
       /\ api[a].at \in {"mark", "close", "fail"}
       /\ updateStatus(api[a].req, status)
       /\ UNCHANGED queueVars
  \/ \E w \in Workers : \E status \in RunStatus \ {"absent"} :
       /\ worker[w].phase = "handling"
       /\ updateStatus(worker[w].job, status)
       /\ worker'[w].job = worker[w].job
       /\ worker'[w].phase = "succeeding" => status = "succeeded"
       /\ \A v \in Workers \ {w} : worker'[v] = worker[v]
       /\ UNCHANGED <<jobs, api>>

LEMMA RunWriters ==
  ASSUME QueueTypeOK, ApiInv, [IngestNext]_allVars
  PROVE  RunWriter
<1>1. ASSUME NEW a \in Api, ApiNext(a)
      PROVE  RunWriter
  <2>1. CASE InsertRun(a)
    <3>1. \A b \in Api : At(b, "insert")' => b # a /\ api'[b] = api[b]
      BY <2>1 DEF InsertRun, Goto, At, ApiInv
    <3> QED
      BY <2>1, <3>1 DEF InsertRun, RunWriter
  <2>2. CASE MarkRunning(a) \/ CloseRun(a) \/ FailRun(a)
    BY <2>2 DEF MarkRunning, CloseRun, FailRun, RunWriter, RunStatus, At
  <2>3. CASE UNCHANGED run
    BY <2>3 DEF RunWriter
  <2> QED
    BY <1>1, <2>1, <2>2, <2>3
    DEF ApiNext, Post, EnqueueJob, Store, StoreRefused, StatementThrows, ApiCrash
<1>2. ASSUME NEW w \in Workers, UrlMarkRunning(w)
      PROVE  RunWriter
  <2>1. /\ updateStatus(worker[w].job, "running")
        /\ worker[w].phase = "handling"
        /\ UNCHANGED <<jobs, worker, api>>
    BY <1>2 DEF UrlMarkRunning, Handles, queueVars
  <2> QED
    BY <2>1 DEF RunWriter, RunStatus
<1>3. ASSUME NEW w \in Workers, NEW status \in {"succeeded", "failed"},
             NEW phase \in {"succeeding", "failing"},
             phase = "succeeding" => status = "succeeded",
             worker[w].phase = "handling", updateStatus(worker[w].job, status),
             worker' = [worker EXCEPT ![w].phase = phase],
             UNCHANGED <<jobs, api>>
      PROVE  RunWriter
  <2>1. /\ worker'[w].job = worker[w].job
        /\ worker'[w].phase = phase
        /\ \A v \in Workers \ {w} : worker'[v] = worker[v]
    BY <1>3 DEF QueueTypeOK, Worker
  <2> QED
    BY <1>3, <2>1 DEF RunWriter, RunStatus
<1>4. ASSUME NEW w \in Workers, UrlCloseRun(w) \/ UrlFailRun(w)
      PROVE  RunWriter
  BY <1>4, <1>3 DEF UrlCloseRun, UrlFailRun, Handles, HandlerReturns, HandlerThrows
<1>5. CASE UNCHANGED run
  BY <1>5 DEF RunWriter
<1> QED
  BY <1>1, <1>2, <1>4, <1>5
  DEF IngestNext, UrlNext, LoopStep, ClaimUrl, UrlMarkThrows, UrlStore, UrlRefused,
      UrlCloseThrows, UrlFailThrows, allVars, ingestVars

-----------------------------------------------------------------------------
\* The inductive invariant of OneRunPerKey: a request on its way to the insert
\* still has its key to itself.
KeyInv ==
  /\ OneRunPerKey
  /\ \A a \in Api : At(a, "insert") => findByIdempotencyKey(api[a].req) = {}

LEMMA KeyInvKept ==
  ASSUME \A a, b \in Api : a = b, QueueTypeOK, LeaseInv, ApiInv, Shape, RunInv,
         KeyInv, [IngestNext]_allVars
  PROVE  KeyInv'
<1>1. CASE \A r \in Requests : run'[r] = "absent" <=> run[r] = "absent"
  <2>1. OneRunPerKey'
    BY <1>1 DEF KeyInv, OneRunPerKey
  <2>2. \A r \in Requests : findByIdempotencyKey(r)' = findByIdempotencyKey(r)
    BY <1>1 DEF findByIdempotencyKey
  <2>3. ASSUME NEW a \in Api, At(a, "insert")', ~At(a, "insert")
        PROVE  findByIdempotencyKey(api'[a].req) = {} /\ api'[a].req \in Requests
    <3> USE DEF At, ApiInv, Goto, Answer
    <3>1. ASSUME NEW b \in Api, ApiNext(b)
          PROVE  findByIdempotencyKey(api'[a].req) = {} /\ api'[a].req \in Requests
      <4>1. b = a
        OBVIOUS
      <4>2. ASSUME NEW r \in Requests, Post(a, r)
            PROVE  findByIdempotencyKey(api'[a].req) = {} /\ api'[a].req \in Requests
        BY <4>2, <2>3 DEF Post
      <4> QED
        BY <2>3, <3>1, <4>1, <4>2
        DEF ApiNext, InsertRun, EnqueueJob, MarkRunning, Store, StoreRefused, CloseRun,
            FailRun, StatementThrows, ApiCrash
    <3>2. CASE UNCHANGED api
      BY <2>3, <3>2
    <3> QED
      BY <3>1, <3>2
      DEF IngestNext, UrlNext, LoopStep, ClaimUrl, UrlMarkRunning, UrlMarkThrows,
          UrlStore, UrlRefused, UrlCloseRun, UrlCloseThrows, UrlFailRun,
          UrlFailThrows, allVars, ingestVars
  <2>4. ASSUME NEW a \in Api, At(a, "insert")', At(a, "insert")
        PROVE  api'[a].req = api[a].req /\ api[a].req \in Requests
    <3> USE DEF At, ApiInv, Goto, Answer, Held
    <3>1. ASSUME NEW b \in Api, ApiNext(b)
          PROVE  api'[a].req = api[a].req
      <4>1. b = a
        OBVIOUS
      <4> QED
        BY <2>4, <3>1, <4>1
        DEF ApiNext, Post, InsertRun, EnqueueJob, MarkRunning, Store, StoreRefused,
            CloseRun, FailRun, StatementThrows, ApiCrash
    <3>2. CASE UNCHANGED api
      BY <2>4, <3>2
    <3>3. api[a].req \in Requests
      BY <2>4
    <3> QED
      BY <3>1, <3>2, <3>3
      DEF IngestNext, UrlNext, LoopStep, ClaimUrl, UrlMarkRunning, UrlMarkThrows,
          UrlStore, UrlRefused, UrlCloseRun, UrlCloseThrows, UrlFailRun,
          UrlFailThrows, allVars, ingestVars
  <2>5. ASSUME NEW a \in Api, At(a, "insert")'
        PROVE  findByIdempotencyKey(api[a].req)' = {}
    <3>1. \A r \in Requests : api'[a].req = r =>
            findByIdempotencyKey(api[a].req)' = findByIdempotencyKey(r)'
      BY DEF findByIdempotencyKey
    <3>2. CASE At(a, "insert")
      <4>1. findByIdempotencyKey(api[a].req) = {}
        BY <3>2 DEF KeyInv
      <4> QED
        BY <3>1, <3>2, <4>1, <2>2, <2>4, <2>5
    <3>3. CASE ~At(a, "insert")
      BY <3>1, <3>3, <2>2, <2>3, <2>5
    <3> QED
      BY <3>2, <3>3
  <2> QED
    BY <2>1, <2>5 DEF KeyInv
<1>2. ASSUME NEW a \in Api, At(a, "insert"),
             run' = [run EXCEPT ![api[a].req] = "queued"],
             \A b \in Api : At(b, "insert")' => b # a
      PROVE  KeyInv'
  <2>1. api[a].req \in Requests /\ findByIdempotencyKey(api[a].req) = {}
    BY <1>2 DEF ApiInv, Held, At, KeyInv
  <2>2. OneRunPerKey'
    BY <1>2, <2>1 DEF KeyInv, OneRunPerKey, findByIdempotencyKey, Shape
  <2>3. \A b \in Api : ~At(b, "insert")'
    BY <1>2
  <2> QED
    BY <2>2, <2>3 DEF KeyInv
<1>3. ASSUME NEW r \in Requests, run[r] # "absent",
             NEW status \in RunStatus \ {"absent"}, updateStatus(r, status)
      PROVE  KeyInv'
  BY <1>1, <1>3 DEF updateStatus, Shape
<1>4. ASSUME NEW a \in Api, api[a].at \in {"mark", "close", "fail"}
      PROVE  api[a].req \in Requests /\ run[api[a].req] # "absent"
  BY <1>4 DEF ApiInv, Held, At, RunInv
<1>5. ASSUME NEW w \in Workers, worker[w].phase = "handling"
      PROVE  worker[w].job \in Requests /\ run[worker[w].job] # "absent"
  BY <1>5, HandlerHasJob DEF LeaseInv, ClaimOf, InHand, Busy, RunInv
<1>6. CASE UNCHANGED run
  BY <1>1, <1>6
<1>7. CASE \E a \in Api : \E status \in RunStatus \ {"absent"} :
             /\ api[a].at \in {"mark", "close", "fail"}
             /\ updateStatus(api[a].req, status)
  BY <1>3, <1>4, <1>7
<1>8. CASE \E w \in Workers : \E status \in RunStatus \ {"absent"} :
             /\ worker[w].phase = "handling"
             /\ updateStatus(worker[w].job, status)
  BY <1>3, <1>5, <1>8
<1> QED
  BY <1>2, <1>6, <1>7, <1>8, RunWriters DEF RunWriter

\* With one API process, requests that carry the same idempotency key create
\* one run between them: the lookup and the insert are not separated by
\* another request.  (Nothing in the table forbids a second row.)
THEOREM OneRunPerKeyCorrect ==
  ASSUME \A a, b \in Api : a = b
  PROVE  IngestSpec => []OneRunPerKey
<1>1. IngestInit => KeyInv
  BY DEF IngestInit, KeyInv, OneRunPerKey, At
<1>2. KeyInv => OneRunPerKey
  BY DEF KeyInv
<1> QED
  BY <1>1, <1>2, KeyInvKept, IngestionIsQueue, LeaseInvCorrect, ApiInvInit,
     ApiInvKept, ShapeInit, ShapeKept, RunInvInit, RunInvKept, PTL DEF IngestSpec

-----------------------------------------------------------------------------
\* The inductive invariant of JobAndRunAgree: the run is written before the
\* job, so between the two it is ahead.
AgreeInv ==
  /\ JobAndRunAgree
  /\ \A w \in Workers :
       worker[w].phase = "succeeding" => run[worker[w].job] = "succeeded"

\* A run that a step changes has no settled job, and was not closed without a
\* job: API processes have no such run in hand, nor has a handler.
LEMMA SettledRunStays ==
  ASSUME QueueTypeOK, TimelyInv, ApiInv, Shape, RunInv, [IngestNext]_allVars,
         NEW r \in Requests,
         IF r \in Jobs THEN jobs[r].status \in Terminal
                       ELSE run[r] \in {"succeeded", "failed"}
  PROVE  run'[r] = run[r]
<1>1. ASSUME NEW a \in Api, At(a, "insert") \/ api[a].at \in {"mark", "close", "fail"}
      PROVE  api[a].req # r
  BY <1>1, IngestionConstants
  DEF ApiInv, Held, At, RunInv, Terminal
<1>2. ASSUME NEW w \in Workers, worker[w].phase = "handling"
      PROVE  worker[w].job # r
  BY <1>2, HandlerHasJob DEF TimelyInv, ExclusiveExecution, InHand, Busy, Terminal
<1> QED
  BY <1>1, <1>2, RunWriters DEF RunWriter, updateStatus, Shape

\* A loop comes to report success by closing the run in the same step.
LEMMA OnlyCloseReturns ==
  ASSUME QueueTypeOK, [IngestNext]_allVars,
         NEW w \in Workers, worker'[w].phase = "succeeding"
  PROVE  UrlCloseRun(w) \/ worker'[w] = worker[w]
<1> USE DEF QueueTypeOK, Worker
<1>1. ASSUME NEW v \in Workers, LoopStep(v)
      PROVE  worker'[w] = worker[w]
  <2>1. ASSUME NEW phase \in {"polling", "dead", "down"}, NEW t, NEW n,
               worker' = [worker EXCEPT ![v] = Idle(phase, t, n)]
        PROVE  worker'[w] = worker[w]
    BY <2>1 DEF Idle
  <2>2. CASE EndBatch(v)
    BY <2>1, <2>2 DEF EndBatch
  <2>3. CASE SucceedThrows(v)
    BY <2>3 DEF SucceedThrows
  <2> QED
    BY <1>1, <2>1, <2>2, <2>3
    DEF LoopStep, Start, ClaimThrows, Succeed, Fail, Settle, FailThrows, Crash, LoopDies
<1>2. ASSUME NEW v \in Workers, NEW j \in Jobs, ClaimUrl(v, j)
      PROVE  worker'[w] = worker[w]
  BY <1>2 DEF ClaimUrl, Claim
<1>3. ASSUME NEW v \in Workers, UrlMarkThrows(v) \/ UrlFailRun(v) \/ UrlFailThrows(v)
      PROVE  worker'[w] = worker[w]
  BY <1>3 DEF UrlMarkThrows, UrlFailRun, UrlFailThrows, HandlerThrows
<1>4. ASSUME NEW v \in Workers, UrlCloseRun(v)
      PROVE  UrlCloseRun(w) \/ worker'[w] = worker[w]
  BY <1>4 DEF UrlCloseRun, HandlerReturns
<1>5. ASSUME NEW a \in Api, ApiNext(a)
      PROVE  worker'[w] = worker[w]
  BY <1>5
  DEF ApiNext, Post, InsertRun, EnqueueJob, Enqueue, MarkRunning, Store, StoreRefused,
      CloseRun, FailRun, StatementThrows, ApiCrash, queueVars
<1>6. CASE UNCHANGED worker
  BY <1>6
<1> QED
  BY <1>1, <1>2, <1>3, <1>4, <1>5, <1>6
  DEF IngestNext, UrlNext, UrlMarkRunning, UrlStore, UrlRefused, UrlCloseThrows, Tick,
      queueVars, allVars

\* A row becomes succeeded when a loop that saw its handler return settles it.
LEMMA OnlySucceedSettles ==
  ASSUME QueueTypeOK, [QueueNext]_queueVars,
         NEW j \in Jobs, jobs'[j].status = "succeeded", jobs[j].status # "succeeded"
  PROVE  \E w \in Workers : worker[w].phase = "succeeding" /\ worker[w].job = j
<1> USE DEF QueueTypeOK, Row
<1>1. ASSUME NEW w \in Workers, Loop(w)
      PROVE  worker[w].phase = "succeeding" /\ worker[w].job = j
  <2>1. ASSUME NEW i \in Jobs, Claim(w, i)
        PROVE  FALSE
    BY <2>1 DEF Claim, Claimed
  <2>2. ~Start(w)
    BY DEF Start, requeueStaleRunning
  <2>3. CASE Succeed(w) \/ Fail(w)
    <3>1. InHand(w)
      BY <2>3 DEF Succeed, Fail, Settle, InHand, Busy
    <3> QED
      BY <2>3, <3>1 DEF Succeed, Fail, Settle, settle
  <2> QED
    BY <1>1, <2>1, <2>2, <2>3
    DEF Loop, ClaimThrows, EndBatch, HandlerReturns, HandlerThrows, SucceedThrows,
        FailThrows, Crash
<1>2. ASSUME NEW i \in Jobs, Enqueue(i)
      PROVE  FALSE
  BY <1>2 DEF Enqueue, enqueue
<1> QED
  BY <1>1, <1>2 DEF QueueNext, Tick, queueVars

LEMMA AgreeInvKept ==
  ASSUME QueueTypeOK, TimelyInv, ApiInv, Shape, RunInv, AgreeInv,
         [IngestNext]_allVars
  PROVE  AgreeInv'
<1>1. [QueueNext]_queueVars
  BY QueueStep
<1>2. ASSUME NEW j \in Jobs, jobs'[j].status = "succeeded"
      PROVE  run'[j] = "succeeded"
  <2>1. j \in Requests
    BY IngestionConstants
  <2>2. CASE jobs[j].status = "succeeded"
    BY <2>1, <2>2, SettledRunStays DEF AgreeInv, JobAndRunAgree, Terminal
  <2>3. CASE jobs[j].status # "succeeded"
    <3>1. run[j] = "succeeded"
      BY <1>1, <1>2, <2>3, OnlySucceedSettles DEF AgreeInv
    <3>2. jobs' # jobs
      BY <1>2, <2>3
    <3> QED
      BY <3>1, <3>2, RunWriters DEF RunWriter, queueVars
  <2> QED
    BY <2>2, <2>3
<1>3. ASSUME NEW w \in Workers, worker'[w].phase = "succeeding"
      PROVE  run'[worker'[w].job] = "succeeded"
  <2>1. CASE UrlCloseRun(w)
    <3>1. worker'[w].job = worker[w].job /\ worker[w].job \in Requests
      BY <2>1, HandlerHasJob DEF UrlCloseRun, Handles, HandlerReturns, QueueTypeOK, Worker
    <3> QED
      BY <2>1, <3>1 DEF UrlCloseRun, updateStatus, Shape
  <2>2. CASE worker'[w] = worker[w]
    <3>1. run[worker[w].job] = "succeeded" /\ worker[w].phase = "succeeding"
      BY <1>3, <2>2 DEF AgreeInv
    <3>2. InHand(w) /\ worker[w].job \in Jobs /\ worker[w].job \in Requests
      BY <3>1, IngestionConstants DEF InHand, Busy, QueueTypeOK
    <3>3. ASSUME NEW a \in Api,
                 At(a, "insert") \/ api[a].at \in {"mark", "close", "fail"}
          PROVE  api[a].req # worker[w].job
      BY <3>1, <3>2, <3>3 DEF ApiInv, Held, At, RunInv
    <3>4. ASSUME NEW v \in Workers, worker[v].phase = "handling"
          PROVE  worker[v].job # worker[w].job
      BY <3>1, <3>2, <3>4 DEF TimelyInv, ExclusiveExecution, InHand, Busy
    <3>5. run'[worker[w].job] = run[worker[w].job]
      BY <3>2, <3>3, <3>4, RunWriters DEF RunWriter, updateStatus, Shape
    <3> QED
      BY <2>2, <3>1, <3>5
  <2> QED
    BY <1>3, <2>1, <2>2, OnlyCloseReturns
<1> QED
  BY <1>2, <1>3 DEF AgreeInv, JobAndRunAgree

\* When handlers end before StaleAfter, a job that succeeded leaves its run
\* succeeded: no second attempt comes between the update of the run and that
\* of the job.
THEOREM JobAndRunAgreeCorrect ==
  ASSUME HandlerLimit < StaleAfter
  PROVE  IngestSpec => []JobAndRunAgree
<1>1. IngestInit => AgreeInv
  BY DEF IngestInit, QueueInit, AgreeInv, JobAndRunAgree, Idle
<1>2. AgreeInv => JobAndRunAgree
  BY DEF AgreeInv
<1>3. QueueSpec => [](QueueTypeOK /\ TimelyInv)
  BY TimelyInvCorrect
<1>4. TimelyInv => LeaseInv
  BY DEF TimelyInv
<1> QED
  BY <1>1, <1>2, <1>3, <1>4, AgreeInvKept, IngestionIsQueue, ApiInvInit, ApiInvKept,
     ShapeInit, ShapeKept, RunInvInit, RunInvKept, PTL DEF IngestSpec

\* When handlers end before StaleAfter, no late step of an API process or of a
\* handler changes the status of a run whose job is settled, or which was
\* closed without a job.
THEOREM SettledRunIsFinalCorrect ==
  ASSUME HandlerLimit < StaleAfter
  PROVE  IngestSpec => SettledRunIsFinal
<1>1. ASSUME QueueTypeOK, TimelyInv, ApiInv, Shape, RunInv, [IngestNext]_allVars
      PROVE  [\A r \in Requests :
                (IF r \in Jobs THEN jobs[r].status \in Terminal
                               ELSE run[r] \in {"succeeded", "failed"})
                => run'[r] = run[r]]_allVars
  BY <1>1, SettledRunStays
<1>2. QueueSpec => [](QueueTypeOK /\ TimelyInv)
  BY TimelyInvCorrect
<1>3. TimelyInv => LeaseInv
  BY DEF TimelyInv
<1> QED
  BY <1>1, <1>2, <1>3, IngestionIsQueue, ApiInvInit, ApiInvKept, ShapeInit, ShapeKept,
     RunInvInit, RunInvKept, PTL DEF IngestSpec, SettledRunIsFinal
=============================================================================
