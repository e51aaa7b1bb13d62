-------------------------- MODULE JobQueue_proofs --------------------------
(***************************************************************************)
(* What holds of JobQueue for every set of jobs and loops and every bound: *)
(* typing, the terms on which a job is taken from a live handler, and,     *)
(* when handlers end before StaleAfter, exclusive execution and the        *)
(* implementation of JobLease.                                             *)
(***************************************************************************)
EXTENDS JobQueueLease, TLAPS

USE DEF Terminal, Status, Busy, Phase, InHand

\* The queue's rows and loops have the shape the code gives them.
THEOREM QueueTypeCorrect == QueueSpec => []QueueTypeOK
<1>1. QueueInit => QueueTypeOK
  BY QueueConstants DEF QueueInit, QueueTypeOK, Row, Worker, Idle
<1>2. QueueTypeOK /\ [QueueNext]_queueVars => QueueTypeOK'
  <2> SUFFICES ASSUME QueueTypeOK, [QueueNext]_queueVars
               PROVE  QueueTypeOK'
    OBVIOUS
  <2> USE QueueConstants DEF QueueTypeOK, Row, Worker
  <2>1. ASSUME NEW j \in Jobs, Enqueue(j)
        PROVE  QueueTypeOK'
    BY <2>1, ZenonT(60) DEF Enqueue, enqueue
  <2>2. ASSUME NEW w \in Workers, Start(w)
        PROVE  QueueTypeOK'
    <3>1. jobs' \in [Jobs -> Row]
      BY <2>2 DEF Start, requeueStaleRunning
    <3>2. worker' \in [Workers -> Worker] 
      BY <2>2 DEF Start, Idle
    <3> QED
      BY <2>2, <3>1, <3>2 DEF Start, Idle
  <2>3. ASSUME NEW w \in Workers, NEW j \in Jobs, Claim(w, j)
        PROVE  QueueTypeOK'
    <3>1. jobs[j] \in Row /\ jobs[j].attempts + 1 \in Nat
      OBVIOUS
    <3>2. Claimed(j) \in Row
      BY <3>1 DEF Claimed
    <3>3. jobs' \in [Jobs -> Row]
      BY <2>3, <3>2 DEF Claim
    <3>4. worker' \in [Workers -> Worker]
      BY <2>3, <3>2 DEF Claim
    <3> QED
      BY <2>3, <3>3, <3>4 DEF Claim, MoreInBatch
  <2>4. ASSUME NEW w \in Workers, ClaimThrows(w) \/ FailThrows(w) \/ Crash(w)
        PROVE  QueueTypeOK'
    <3>1. /\ \E phase \in {"dead", "down"} :
               worker' = [worker EXCEPT ![w] = Idle(phase, clock, 0)]
          /\ faults' \in 0..MaxFaults
          /\ UNCHANGED <<jobs, clock>>
      BY <2>4 DEF ClaimThrows, FailThrows, Crash, LoopDies, Fault
    <3> QED
      BY <3>1 DEF Idle
  <2>5. ASSUME NEW w \in Workers, EndBatch(w)
        PROVE  QueueTypeOK'
    BY <2>5 DEF EndBatch, Idle
  <2>6. ASSUME NEW w \in Workers, HandlerReturns(w) \/ HandlerThrows(w)
        PROVE  QueueTypeOK'
    <3>1. PICK phase \in Busy : worker' = [worker EXCEPT ![w].phase = phase]
      BY <2>6 DEF HandlerReturns, HandlerThrows
    <3>2. InHand(w) /\ UNCHANGED <<jobs, clock, faults>>
      BY <2>6 DEF HandlerReturns, HandlerThrows
    <3> QED
      BY <3>1, <3>2
  <2>7. ASSUME NEW w \in Workers, SucceedThrows(w)
        PROVE  QueueTypeOK'
    BY <2>7 DEF SucceedThrows, Fault
  <2>8. ASSUME NEW w \in Workers, Succeed(w) \/ Fail(w)
        PROVE  QueueTypeOK'
    <3>1. PICK status \in Terminal : settle(worker[w].job, status)
      BY <2>8 DEF Succeed, Fail, Settle
    <3>2. jobs' \in [Jobs -> Row]
      BY <3>1, ZenonT(60) DEF settle
    <3>3. InHand(w)
      BY <2>8 DEF Succeed, Fail, Settle
    <3>4. worker' \in [Workers -> Worker]
      BY <2>8, <3>3 DEF Succeed, Fail, Settle, Idle
    <3> QED
      BY <2>8, <3>2, <3>4 DEF Succeed, Fail, Settle, Idle
  <2>9. CASE Tick
    BY <2>9 DEF Tick
  <2>10. CASE UNCHANGED queueVars
    BY <2>10 DEF queueVars
  <2> QED
    BY <2>1, <2>2, <2>3, <2>4, <2>5, <2>6, <2>7, <2>8, <2>9, <2>10
    DEF QueueNext, Loop
<1> QED
  BY <1>1, <1>2, PTL DEF QueueSpec

-----------------------------------------------------------------------------
\* The same job in hand, on the same claim.
SameClaim(v, w) ==
  v.job = w.job /\ v.attempt = w.attempt /\ v.since = w.since

\* A step that is no claim gives no loop a job, and lets no loop change its
\* claim.
LEMMA OnlyClaimTakes ==
  ASSUME QueueTypeOK, [QueueNext]_queueVars,
         \A w \in Workers, j \in Jobs : ~Claim(w, j)
  PROVE  \A w \in Workers :
           InHand(w)' => InHand(w) /\ SameClaim(worker'[w], worker[w])
<1> USE DEF QueueTypeOK, Worker, SameClaim
<1>1. ASSUME NEW w \in Workers,
             \/ Start(w) \/ ClaimThrows(w) \/ EndBatch(w) \/ Succeed(w)
             \/ Fail(w) \/ FailThrows(w) \/ Crash(w)
      PROVE  \A v \in Workers :
               InHand(v)' => InHand(v) /\ SameClaim(worker'[v], worker[v])
  <2>1. ASSUME NEW phase \in {"polling", "dead", "down"}, NEW t, NEW n,
               worker' = [worker EXCEPT ![w] = Idle(phase, t, n)]
        PROVE  \A v \in Workers :
                 InHand(v)' => InHand(v) /\ SameClaim(worker'[v], worker[v])
    BY <2>1 DEF Idle
  <2>2. CASE EndBatch(w) /\ worker' = [worker EXCEPT ![w].processed = 0]
    BY <2>2
  <2> QED
    BY <1>1, <2>1, <2>2 DEF Start, ClaimThrows, EndBatch, Succeed, Fail,
                            FailThrows, Crash, Settle, LoopDies
<1>2. ASSUME NEW w \in Workers,
             HandlerReturns(w) \/ HandlerThrows(w) \/ SucceedThrows(w)
      PROVE  \A v \in Workers :
               InHand(v)' => InHand(v) /\ SameClaim(worker'[v], worker[v])
  <2>1. PICK phase \in Busy : worker' = [worker EXCEPT ![w].phase = phase]
    BY <1>2 DEF HandlerReturns, HandlerThrows, SucceedThrows
  <2>2. InHand(w)
    BY <1>2 DEF HandlerReturns, HandlerThrows, SucceedThrows
  <2> QED
    BY <2>1, <2>2
<1>3. ASSUME UNCHANGED worker
      PROVE  \A v \in Workers :
               InHand(v)' => InHand(v) /\ SameClaim(worker'[v], worker[v])
  BY <1>3
<1> QED
  BY <1>1, <1>2, <1>3 DEF QueueNext, Loop, Enqueue, Tick, queueVars

\* What a step does to a row: nothing, its enqueue, its claim, its requeue,
\* or its settlement by a loop that has the job in hand.
RowStep(j) ==
  \/ jobs'[j] = jobs[j]
  \/ /\ jobs[j].status = "absent"
     /\ jobs'[j].status = "queued"
     /\ jobs'[j].attempts = jobs[j].attempts
     /\ jobs'[j].claimedAt = jobs[j].claimedAt
  \/ \E w \in Workers : Claim(w, j)
  \/ Stale(j) /\ jobs'[j] = [jobs[j] EXCEPT !.status = "queued"]
  \/ \E w \in Workers, status \in Terminal :
       /\ InHand(w)
       /\ worker[w].job = j
       /\ ~InHand(w)'
       /\ jobs'[j] = [jobs[j] EXCEPT !.status = status]

\* Every step treats every row in one of these ways.
LEMMA RowSteps ==
  ASSUME QueueTypeOK, [QueueNext]_queueVars
  PROVE  \A j \in Jobs : RowStep(j)
<1> SUFFICES ASSUME NEW j \in Jobs
             PROVE  RowStep(j)
  OBVIOUS
<1> USE DEF QueueTypeOK, Row, Worker, RowStep
<1>1. ASSUME NEW i \in Jobs, Enqueue(i)
      PROVE  RowStep(j)
  BY <1>1 DEF Enqueue, enqueue
<1>2. ASSUME NEW w \in Workers, Start(w)
      PROVE  RowStep(j)
  BY <1>2 DEF Start, requeueStaleRunning
<1>3. ASSUME NEW w \in Workers, NEW i \in Jobs, Claim(w, i)
      PROVE  RowStep(j)
  BY <1>3 DEF Claim
<1>4. ASSUME NEW w \in Workers, Succeed(w) \/ Fail(w)
      PROVE  RowStep(j)
  <2>1. PICK status \in Terminal : settle(worker[w].job, status)
    BY <1>4 DEF Succeed, Fail, Settle
  <2>2. InHand(w) /\ ~InHand(w)'
    BY <1>4 DEF Succeed, Fail, Settle, Idle
  <2> QED
    BY <2>1, <2>2 DEF settle
<1>5. ASSUME UNCHANGED jobs
      PROVE  RowStep(j)
  BY <1>5
<1> QED
  BY <1>1, <1>2, <1>3, <1>4, <1>5
  DEF QueueNext, Loop, Tick, queueVars, ClaimThrows, EndBatch, HandlerReturns,
      HandlerThrows, SucceedThrows, FailThrows, Crash

\* The clock never goes back, and stands still in every step but Tick.
LEMMA ClockMonotone ==
  ASSUME QueueTypeOK, [QueueNext]_queueVars
  PROVE  clock <= clock' /\ clock' \in Nat /\ (clock' # clock => Tick)
BY DEF QueueTypeOK, QueueNext, Loop, Tick, queueVars, Enqueue, Start, Claim,
       ClaimThrows, EndBatch, HandlerReturns, HandlerThrows, Succeed, Fail,
       Settle, SucceedThrows, FailThrows, Crash

-----------------------------------------------------------------------------
\* What the row of a job in hand says of the claim it was taken on: the
\* loop's claim is the row's latest, or the row was claimed again, at least
\* StaleAfter later.
ClaimOf(loop, row) ==
  /\ row.status # "absent"
  /\ loop.since <= clock
  /\ \/ /\ loop.attempt = row.attempts
        /\ loop.since = row.claimedAt
        /\ row.status = "queued" => loop.since + StaleAfter <= clock
     \/ /\ loop.attempt < row.attempts
        /\ loop.since + StaleAfter <= row.claimedAt

\* The inductive invariant: TakeoverOnlyWhenStale speaks of two loops, and
\* this relates each of them to the row that links them.
LeaseInv ==
  /\ \A j \in Jobs : jobs[j].claimedAt <= clock
  /\ \A w \in Workers : InHand(w) => ClaimOf(worker[w], jobs[worker[w].job])
  /\ TakeoverOnlyWhenStale

LEMMA LeaseInvInit == QueueInit => LeaseInv
BY QueueConstants DEF QueueInit, LeaseInv, Idle, TakeoverOnlyWhenStale

\* A claim starts on a queued row: whoever still has the job overran.
LEMMA ClaimKeepsLease ==
  ASSUME QueueTypeOK, LeaseInv, NEW w \in Workers, NEW j \in Jobs, Claim(w, j)
  PROVE  LeaseInv'
<1> USE QueueConstants DEF QueueTypeOK, Row, Worker
<1>1. /\ jobs[j].status = "queued"
      /\ jobs' = [jobs EXCEPT ![j] = Claimed(j)]
      /\ clock' = clock
      /\ ~InHand(w)
  BY DEF Claim, Oldest
<1>2. /\ Claimed(j).status = "running"
      /\ Claimed(j).attempts = jobs[j].attempts + 1
      /\ Claimed(j).claimedAt = clock
  BY DEF Claimed
<1>3. /\ worker'[w].job = j
      /\ worker'[w].attempt = jobs[j].attempts + 1
      /\ worker'[w].since = clock
  BY <1>2 DEF Claim
<1>4. \A v \in Workers \ {w} : worker'[v] = worker[v]
  BY DEF Claim
<1>5. \A i \in Jobs : jobs'[i].claimedAt <= clock'
  BY <1>1, <1>2 DEF LeaseInv
<1>6. ASSUME NEW v \in Workers \ {w}, InHand(v), worker[v].job = j
      PROVE  /\ worker[v].attempt < jobs[j].attempts + 1
             /\ worker[v].since + StaleAfter <= clock
  BY <1>1, <1>6 DEF LeaseInv, ClaimOf
<1>7. ASSUME NEW v \in Workers, InHand(v)'
      PROVE  ClaimOf(worker[v], jobs[worker[v].job])'
  <2>1. CASE v = w
    BY <2>1, <1>1, <1>2, <1>3 DEF ClaimOf
  <2>2. CASE v # w /\ worker[v].job = j
    BY <2>2, <1>1, <1>2, <1>4, <1>6, <1>7 DEF ClaimOf, LeaseInv
  <2>3. CASE v # w /\ worker[v].job # j
    BY <2>3, <1>1, <1>4, <1>7 DEF ClaimOf, LeaseInv
  <2> QED
    BY <2>1, <2>2, <2>3
<1>8. TakeoverOnlyWhenStale'
  BY <1>3, <1>4, <1>6 DEF LeaseInv, TakeoverOnlyWhenStale
<1> QED
  BY <1>5, <1>7, <1>8 DEF LeaseInv

LEMMA OtherStepsKeepLease ==
  ASSUME QueueTypeOK, QueueTypeOK', LeaseInv, [QueueNext]_queueVars,
         \A w \in Workers, j \in Jobs : ~Claim(w, j)
  PROVE  LeaseInv'
<1> USE QueueConstants DEF QueueTypeOK, Row, Worker
<1>1. \A w \in Workers :
        InHand(w)' => InHand(w) /\ SameClaim(worker'[w], worker[w])
  BY OnlyClaimTakes
<1>2. clock <= clock' /\ clock' \in Nat
  BY ClockMonotone
<1>3. \A j \in Jobs : RowStep(j)
  BY RowSteps
<1>4. \A j \in Jobs :
        jobs'[j].attempts = jobs[j].attempts /\ jobs'[j].claimedAt = jobs[j].claimedAt
  BY <1>3 DEF RowStep
<1>5. \A j \in Jobs : jobs'[j].claimedAt <= clock'
  BY <1>2, <1>4 DEF LeaseInv
<1>6. ASSUME NEW w \in Workers, InHand(w)'
      PROVE  ClaimOf(worker[w], jobs[worker[w].job])'
  <2> DEFINE j == worker[w].job
  <2>1. /\ InHand(w) /\ j \in Jobs /\ worker'[w].job = j
        /\ worker'[w].attempt = worker[w].attempt
        /\ worker'[w].since = worker[w].since
    BY <1>1, <1>6 DEF SameClaim
  <2>2. ClaimOf(worker[w], jobs[j])
    BY <2>1 DEF LeaseInv
  <2>3. jobs'[j].status # "absent"
    BY <2>1, <2>2, <1>3 DEF RowStep, ClaimOf
  <2>4. \/ jobs'[j].status = jobs[j].status
        \/ jobs'[j].status # "queued"
        \/ jobs[j].claimedAt + StaleAfter <= clock
    BY <2>1, <2>2, <1>3 DEF RowStep, ClaimOf, Stale
  <2> QED
    BY <2>1, <2>2, <2>3, <2>4, <1>2, <1>4 DEF ClaimOf
<1>7. TakeoverOnlyWhenStale'
  BY <1>1 DEF LeaseInv, TakeoverOnlyWhenStale, SameClaim
<1> QED
  BY <1>5, <1>6, <1>7 DEF LeaseInv

LEMMA LeaseInvCorrect == QueueSpec => [](QueueTypeOK /\ LeaseInv)
<1>1. QueueTypeOK /\ QueueTypeOK' /\ LeaseInv /\ [QueueNext]_queueVars => LeaseInv'
  BY ClaimKeepsLease, OtherStepsKeepLease
<1> QED
  BY QueueTypeCorrect, LeaseInvInit, <1>1, PTL DEF QueueSpec

\* A job is taken from a live handler only when the handler has overrun.
THEOREM TakeoverCorrect == QueueSpec => []TakeoverOnlyWhenStale
BY LeaseInvCorrect, PTL DEF LeaseInv

-----------------------------------------------------------------------------
\* No loop has had its job for longer than HandlerLimit.
InTime ==
  \A w \in Workers : InHand(w) => clock <= worker[w].since + HandlerLimit

LEMMA InTimeKept ==
  ASSUME QueueTypeOK, QueueTypeOK', InTime, [QueueNext]_queueVars
  PROVE  InTime'
<1> USE QueueConstants DEF QueueTypeOK, Worker
<1>1. ASSUME NEW w \in Workers, NEW j \in Jobs, Claim(w, j)
      PROVE  InTime'
  <2>1. worker'[w].since = clock /\ clock' = clock
    BY <1>1 DEF Claim
  <2>2. \A v \in Workers \ {w} : worker'[v] = worker[v]
    BY <1>1 DEF Claim
  <2> QED
    BY <2>1, <2>2 DEF InTime
<1>2. CASE Tick
  <2>1. clock' = clock + 1 /\ UNCHANGED worker
    BY <1>2 DEF Tick
  <2>2. \A w \in Workers : InHand(w) => clock < worker[w].since + HandlerLimit
    BY <1>2 DEF Tick
  <2> QED
    BY <2>1, <2>2 DEF InTime
<1>3. CASE ~Tick /\ \A w \in Workers, j \in Jobs : ~Claim(w, j)
  <2>1. \A w \in Workers :
          InHand(w)' => InHand(w) /\ SameClaim(worker'[w], worker[w])
    BY <1>3, OnlyClaimTakes
  <2>2. clock' = clock
    BY <1>3, ClockMonotone
  <2> QED
    BY <2>1, <2>2 DEF InTime, SameClaim
<1> QED
  BY <1>1, <1>2, <1>3

\* The inductive invariant of exclusive execution.  That no two loops have
\* the same job follows from TakeoverOnlyWhenStale and InTime; that the row
\* stays running needs it, because a second holder would settle the row.
TimelyInv == LeaseInv /\ InTime /\ ExclusiveExecution

\* The row of a job in hand is not stale.
LEMMA InHandIsFresh ==
  ASSUME HandlerLimit < StaleAfter, QueueTypeOK, LeaseInv, InTime,
         NEW w \in Workers, InHand(w)
  PROVE  ~Stale(worker[w].job)
<1> USE QueueConstants DEF QueueTypeOK, Worker, Row
<1>1. worker[w].job \in Jobs /\ ClaimOf(worker[w], jobs[worker[w].job])
  BY DEF LeaseInv
<1>2. clock <= worker[w].since + HandlerLimit
  BY DEF InTime
<1>3. worker[w].since <= jobs[worker[w].job].claimedAt
  BY <1>1 DEF ClaimOf
<1> QED
  BY <1>1, <1>2, <1>3 DEF Stale

LEMMA TimelyInvKept ==
  ASSUME HandlerLimit < StaleAfter,
         QueueTypeOK, QueueTypeOK', TimelyInv, [QueueNext]_queueVars
  PROVE  TimelyInv'
<1> USE QueueConstants DEF QueueTypeOK, Worker, Row
<1>1. LeaseInv' /\ InTime'
  BY ClaimKeepsLease, OtherStepsKeepLease, InTimeKept DEF TimelyInv
<1>2. \A v, w \in Workers :
        (v # w /\ InHand(v)' /\ InHand(w)') => worker'[v].job # worker'[w].job
  <2> SUFFICES ASSUME NEW v \in Workers, NEW w \in Workers, v # w,
                      InHand(v)', InHand(w)', worker'[v].job = worker'[w].job
               PROVE  FALSE
    OBVIOUS
  \* Their claims are StaleAfter apart, and both are in time.
  <2>1. /\ worker'[v].since <= clock' /\ clock' <= worker'[v].since + HandlerLimit
        /\ worker'[w].since <= clock' /\ clock' <= worker'[w].since + HandlerLimit
    BY <1>1 DEF LeaseInv, ClaimOf, InTime
  <2>2. \/ worker'[v].since + StaleAfter <= worker'[w].since
        \/ worker'[w].since + StaleAfter <= worker'[v].since
    BY <1>1 DEF LeaseInv, TakeoverOnlyWhenStale
  <2> QED
    BY <2>1, <2>2
<1>3. ASSUME NEW w \in Workers, InHand(w)'
      PROVE  jobs'[worker'[w].job].status = "running"
  <2>1. CASE \E v \in Workers, j \in Jobs : Claim(v, j)
    <3>1. PICK v \in Workers, j \in Jobs : Claim(v, j)
      BY <2>1
    <3>2. /\ jobs' = [jobs EXCEPT ![j] = Claimed(j)]
          /\ Claimed(j).status = "running"
          /\ jobs[j].status = "queued"
          /\ worker'[v].job = j
          /\ \A u \in Workers \ {v} : worker'[u] = worker[u]
      BY <3>1 DEF Claim, Claimed, Oldest
    <3> QED
      BY <3>2, <1>3 DEF TimelyInv, ExclusiveExecution
  <2>2. CASE \A v \in Workers, j \in Jobs : ~Claim(v, j)
    <3>1. InHand(w) /\ worker'[w].job = worker[w].job
      BY <1>3, <2>2, OnlyClaimTakes DEF SameClaim
    <3>2. jobs[worker[w].job].status = "running"
      BY <3>1 DEF TimelyInv, ExclusiveExecution
    <3>3. ~Stale(worker[w].job)
      BY <3>1, InHandIsFresh DEF TimelyInv
    <3>4. RowStep(worker[w].job)
      BY <3>1, RowSteps
    <3>5. \A v \in Workers \ {w} : InHand(v) => worker[v].job # worker[w].job
      BY <3>1 DEF TimelyInv, ExclusiveExecution
    <3> QED
      BY <1>3, <2>2, <3>1, <3>2, <3>3, <3>4, <3>5 DEF RowStep
  <2> QED
    BY <2>1, <2>2
<1>4. ExclusiveExecution'
  BY <1>2, <1>3 DEF ExclusiveExecution
<1> QED
  BY <1>1, <1>4 DEF TimelyInv

LEMMA TimelyInvCorrect ==
  ASSUME HandlerLimit < StaleAfter
  PROVE  QueueSpec => [](QueueTypeOK /\ TimelyInv)
<1>1. QueueInit => TimelyInv
  BY LeaseInvInit, QueueConstants
  DEF QueueInit, TimelyInv, InTime, ExclusiveExecution, Idle
<1>2. QueueTypeOK /\ QueueTypeOK' /\ TimelyInv /\ [QueueNext]_queueVars => TimelyInv'
  BY TimelyInvKept
<1> QED
  BY QueueTypeCorrect, <1>1, <1>2, PTL DEF QueueSpec

\* When handlers end before StaleAfter, a job is in the hands of one loop at
\* a time and its row says running for as long as it is.
THEOREM ExclusiveCorrect ==
  ASSUME HandlerLimit < StaleAfter
  PROVE  QueueSpec => []ExclusiveExecution
BY TimelyInvCorrect, PTL DEF TimelyInv

\* When handlers end before StaleAfter, a settled row never changes again.
THEOREM SettledOnceCorrect ==
  ASSUME HandlerLimit < StaleAfter
  PROVE  QueueSpec => SettledOnce
<1>1. ASSUME QueueTypeOK, TimelyInv, [QueueNext]_queueVars
      PROVE  [\A j \in Jobs :
                jobs[j].status \in Terminal => jobs'[j] = jobs[j]]_queueVars
  <2> SUFFICES ASSUME NEW j \in Jobs, jobs[j].status \in Terminal
               PROVE  jobs'[j] = jobs[j]
    OBVIOUS
  <2>1. RowStep(j)
    BY <1>1, RowSteps
  <2>2. \A w \in Workers : InHand(w) => worker[w].job # j
    BY <1>1 DEF TimelyInv, ExclusiveExecution
  <2> QED
    BY <2>1, <2>2 DEF RowStep, Stale, Claim, Oldest
<1> QED
  BY <1>1, TimelyInvCorrect, PTL DEF QueueSpec, SettledOnce

-----------------------------------------------------------------------------
(***************************************************************************)
(* JobQueue implements JobLease when handlers end before StaleAfter.       *)
(***************************************************************************)
\* When jobs are exclusively held, the CHOOSE of HolderOf has one candidate.
LEMMA HolderIsUnique ==
  ASSUME QueueTypeOK, ExclusiveExecution, NEW j \in Jobs
  PROVE  /\ \A w \in Workers : HolderOf(j) = w <=> HasJob(w, j)
         /\ HolderOf(j) = NoWorker <=> \A w \in Workers : ~HasJob(w, j)
<1>1. \A v, w \in Workers : HasJob(v, j) /\ HasJob(w, j) => v = w
  BY DEF ExclusiveExecution, HasJob
<1>2. CASE \E w \in Workers : HasJob(w, j)
  <2>1. HolderOf(j) \in Workers /\ HasJob(HolderOf(j), j)
    BY <1>2 DEF HolderOf
  <2> QED
    BY <1>1, <1>2, <2>1, NoWorkerIsNone
<1>3. CASE \A w \in Workers : ~HasJob(w, j)
  BY <1>3, NoWorkerIsNone DEF HolderOf
<1> QED
  BY <1>2, <1>3

\* The same loops with the same job: the same holder.
LEMMA SameHolder ==
  ASSUME NEW j \in Jobs, \A w \in Workers : HasJob(w, j)' <=> HasJob(w, j)
  PROVE  HolderOf(j)' = HolderOf(j)
BY DEF HolderOf

\* The mapping of a row depends on its status alone.
LEMMA SameState ==
  ASSUME NEW j \in Jobs, jobs'[j].status = jobs[j].status
  PROVE  LeaseState(j)' = LeaseState(j)
BY DEF LeaseState

Holders == [j \in Jobs |-> HolderOf(j)]
States  == [j \in Jobs |-> LeaseState(j)]

LEMMA LeaseInitImplemented == QueueInit => Lease!LeaseInit
BY DEF QueueInit, Lease!LeaseInit, LeaseState, HolderOf, HasJob, Idle

LEMMA LeaseStepImplemented ==
  ASSUME HandlerLimit < StaleAfter, QueueTypeOK, QueueTypeOK',
         TimelyInv, TimelyInv', [QueueNext]_queueVars
  PROVE  [Lease!LeaseNext]_<<States, Holders>>
<1> USE DEF QueueTypeOK, Worker, Row
<1>. ExclusiveExecution /\ ExclusiveExecution'
  BY DEF TimelyInv
<1>1. \A j \in Jobs :
        /\ \A w \in Workers : HolderOf(j) = w <=> HasJob(w, j)
        /\ HolderOf(j) = NoWorker <=> \A w \in Workers : ~HasJob(w, j)
  BY HolderIsUnique
<1>2. ASSUME NEW j \in Jobs, Enqueue(j)
      PROVE  Lease!Submit(j)
  <2>1. /\ jobs[j].status = "absent" /\ jobs'[j].status = "queued"
        /\ \A i \in Jobs \ {j} : jobs'[i] = jobs[i]
        /\ UNCHANGED worker
    BY <1>2 DEF Enqueue, enqueue
  <2>2. Holders' = Holders
    BY <2>1, SameHolder DEF Holders, HasJob
  <2>3. /\ LeaseState(j) = "absent" /\ LeaseState(j)' = "waiting"
        /\ \A i \in Jobs \ {j} : LeaseState(i)' = LeaseState(i)
    BY <2>1 DEF LeaseState
  <2> QED
    BY <2>2, <2>3 DEF Lease!Submit, Holders
<1>3. ASSUME NEW w \in Workers, Start(w)
      PROVE  Lease!Recover
  <2> DEFINE S == {j \in Jobs : Stale(j)}
  <2>1. ~InHand(w) /\ ~InHand(w)' /\ \A v \in Workers \ {w} : worker'[v] = worker[v]
    BY <1>3 DEF Start, Idle
  <2>2. Holders' = Holders
    BY <2>1, SameHolder DEF Holders, HasJob
  <2>3. \A j \in Jobs : jobs'[j].status = IF Stale(j) THEN "queued" ELSE jobs[j].status
    BY <1>3 DEF Start, requeueStaleRunning
  <2>4. \A j \in Jobs : LeaseState(j)' = IF j \in S THEN "waiting" ELSE LeaseState(j)
    BY <2>3 DEF LeaseState
  <2>5. \A j \in S : LeaseState(j) = "held" /\ HolderOf(j) = NoWorker
    <3> SUFFICES ASSUME NEW j \in S
                 PROVE  LeaseState(j) = "held" /\ HolderOf(j) = NoWorker
      OBVIOUS
    <3>1. LeaseState(j) = "held"
      BY DEF LeaseState, Stale
    <3>2. \A v \in Workers : ~HasJob(v, j)
      BY InHandIsFresh DEF TimelyInv, HasJob
    <3> QED
      BY <3>1, <3>2, <1>1
  <2> HIDE DEF S
  <2>6. S \subseteq {j \in Jobs : States[j] = "held" /\ Holders[j] = NoWorker}
    BY <2>5 DEF States, Holders, S
  <2>7. States' = [j \in Jobs |-> IF j \in S THEN "waiting" ELSE States[j]]
    BY <2>4 DEF States
  <2> QED
    BY <2>2, <2>6, <2>7 DEF Lease!Recover, States, Holders
<1>4. ASSUME NEW w \in Workers, NEW j \in Jobs, Claim(w, j)
      PROVE  Lease!Acquire(w, j)
  <2>1. /\ jobs[j].status = "queued" /\ jobs'[j].status = "running"
        /\ \A i \in Jobs \ {j} : jobs'[i] = jobs[i]
        /\ ~InHand(w) /\ InHand(w)' /\ worker'[w].job = j
        /\ \A v \in Workers \ {w} : worker'[v] = worker[v]
    BY <1>4 DEF Claim, Oldest, Claimed
  <2>2. /\ LeaseState(j) = "waiting" /\ LeaseState(j)' = "held"
        /\ \A i \in Jobs \ {j} : LeaseState(i)' = LeaseState(i)
    BY <2>1 DEF LeaseState
  <2>3. \A i \in Jobs : HolderOf(i) # w
    BY <2>1, <1>1 DEF HasJob
  <2>4. \A i \in Jobs \ {j} : HolderOf(i)' = HolderOf(i)
    BY <2>1, SameHolder DEF HasJob
  <2>5. HolderOf(j)' = w
    <3>1. HasJob(w, j)' /\ \A v \in Workers : HasJob(v, j)' => v = w
      BY <2>1 DEF HasJob, ExclusiveExecution
    <3> QED
      BY <3>1 DEF HolderOf
  <2> QED
    BY <2>2, <2>3, <2>4, <2>5 DEF Lease!Acquire
<1>5. ASSUME NEW w \in Workers, NEW j \in Jobs, j = worker[w].job,
             Succeed(w) \/ Fail(w)
      PROVE  Lease!Complete(w, j)
  <2>1. PICK status \in Terminal : settle(j, status)
    BY <1>5 DEF Succeed, Fail, Settle
  <2>2. /\ InHand(w) /\ worker[w].job = j /\ ~InHand(w)'
        /\ \A v \in Workers \ {w} : worker'[v] = worker[v]
    BY <1>5 DEF Succeed, Fail, Settle, Idle
  <2>3. jobs[j].status = "running" /\ jobs'[j].status = status
    BY <2>1, <2>2 DEF settle, ExclusiveExecution
  <2>4. \A i \in Jobs \ {j} : jobs'[i] = jobs[i]
    BY <2>1, <2>2 DEF settle
  <2>5. /\ LeaseState(j) = "held" /\ LeaseState(j)' = "done"
        /\ \A i \in Jobs \ {j} : LeaseState(i)' = LeaseState(i)
    BY <2>2, <2>3, <2>4 DEF LeaseState
  <2>6. HolderOf(j) = w
    BY <2>2, <1>1 DEF HasJob
  <2>7. \A i \in Jobs \ {j} : HolderOf(i)' = HolderOf(i)
    BY <2>2, SameHolder DEF HasJob
  <2>8. HolderOf(j)' = NoWorker
    BY <2>2 DEF HolderOf, HasJob, ExclusiveExecution
  <2> QED
    BY <2>2, <2>5, <2>6, <2>7, <2>8 DEF Lease!Complete
<1>6. ASSUME NEW w \in Workers,
             \/ HandlerReturns(w) \/ HandlerThrows(w) \/ SucceedThrows(w)
             \/ EndBatch(w) \/ ClaimThrows(w)
      PROVE  UNCHANGED <<States, Holders>>
  <2>1. UNCHANGED jobs /\ \A v \in Workers \ {w} : worker'[v] = worker[v]
    BY <1>6 DEF HandlerReturns, HandlerThrows, SucceedThrows, EndBatch,
                ClaimThrows, LoopDies
  <2>2. \A j \in Jobs : HasJob(w, j)' <=> HasJob(w, j)
    BY <1>6 DEF HandlerReturns, HandlerThrows, SucceedThrows, EndBatch,
                ClaimThrows, LoopDies, Idle, HasJob
  <2>3. \A v \in Workers, j \in Jobs : HasJob(v, j)' <=> HasJob(v, j)
    BY <2>1, <2>2 DEF HasJob
  <2> QED
    BY <2>1, <2>3, SameHolder, SameState DEF States, Holders
<1>7. ASSUME NEW w \in Workers, FailThrows(w) \/ Crash(w)
      PROVE  [Lease!LeaseNext]_<<States, Holders>>
  <2>1. /\ UNCHANGED jobs /\ ~InHand(w)'
        /\ \A v \in Workers \ {w} : worker'[v] = worker[v]
    BY <1>7 DEF FailThrows, Crash, LoopDies, Idle
  <2>2. States' = States
    BY <2>1, SameState DEF States
  <2>3. CASE ~InHand(w)
    <3>1. \A v \in Workers, j \in Jobs : HasJob(v, j)' <=> HasJob(v, j)
      BY <2>1, <2>3 DEF HasJob
    <3> QED
      BY <2>2, <3>1, SameHolder DEF Holders
  <2>4. CASE InHand(w)
    <3>0. PICK j \in Jobs : j = worker[w].job
      BY <2>4
    <3>1. HolderOf(j) = w
      BY <2>4, <3>0, <1>1 DEF HasJob
    <3>2. \A i \in Jobs \ {j} : HolderOf(i)' = HolderOf(i)
      BY <2>1, <3>0, SameHolder DEF HasJob
    <3>3. HolderOf(j)' = NoWorker
      BY <2>1, <2>4, <3>0 DEF HolderOf, HasJob, ExclusiveExecution
    <3>4. Lease!Abandon(w, j)
      BY <2>2, <3>1, <3>2, <3>3 DEF Lease!Abandon, States
    <3> QED
      BY <3>4 DEF Lease!LeaseNext
  <2> QED
    BY <2>3, <2>4
<1>8. CASE Tick \/ UNCHANGED queueVars
  <2>1. UNCHANGED <<jobs, worker>>
    BY <1>8 DEF Tick, queueVars
  <2> QED
    BY <2>1, SameHolder, SameState DEF States, Holders, HasJob
<1>9. ASSUME NEW w \in Workers, Succeed(w) \/ Fail(w)
      PROVE  Lease!LeaseNext
  <2>1. worker[w].job \in Jobs
    BY <1>9 DEF Succeed, Fail, Settle
  <2> QED
    BY <1>5, <1>9, <2>1 DEF Lease!LeaseNext
<1> QED
  BY <1>2, <1>3, <1>4, <1>6, <1>7, <1>8, <1>9 DEF QueueNext, Loop, Lease!LeaseNext

\* When handlers end before StaleAfter, every behaviour of the queue is one
\* of the lease.
THEOREM LeaseImplemented ==
  ASSUME HandlerLimit < StaleAfter
  PROVE  QueueSpec => ImplementsLease
<1>1. QueueTypeOK /\ QueueTypeOK' /\ TimelyInv /\ TimelyInv' /\ [QueueNext]_queueVars
      => [Lease!LeaseNext]_Lease!leaseVars
  BY LeaseStepImplemented DEF States, Holders, Lease!leaseVars
<1> QED
  BY LeaseInitImplemented, TimelyInvCorrect, <1>1, PTL
  DEF QueueSpec, ImplementsLease, Lease!LeaseSpec
=============================================================================
