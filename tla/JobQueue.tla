------------------------------ MODULE JobQueue ------------------------------
(***************************************************************************)
(* The durable job queue: the jobs table (sqlite-job-repository.ts), the   *)
(* runner that claims and settles jobs (jobs/runner.ts) and the life of    *)
(* the worker loops that share the table (runStandaloneWorker).            *)
(*                                                                         *)
(* Every SQL statement and every BEGIN IMMEDIATE ... COMMIT block is one   *)
(* step: SQLite serialises them between processes.  A statement that meets *)
(* another process's write lock throws at once (no busy timeout is set);   *)
(* the *Throws actions are those errors.                                   *)
(***************************************************************************)
EXTENDS Naturals

CONSTANTS
  Jobs,         \* ids of the jobs that may be enqueued
  Unknown,      \* those whose type has no handler
  NoJob,        \* "no job in hand"
  Workers,      \* worker loops, all on the same database file
  Embedded,     \* loops inside an API process: the process outlives them
  OneShot,      \* loops started with once: they stop when the queue is empty
  Batch,        \* the max of runQueuedJobs
  StaleAfter,   \* STALE_RUNNING_MS, in ticks of the clock
  HandlerLimit, \* longest time a live worker takes from claim to settlement
  RestartDelay, \* least time between the death of a process and its restart
  MaxTime,      \* bound: the clock stops here
  MaxFaults     \* bound: crashes and failed statements in a behaviour

ASSUME QueueConstants ==
  /\ NoJob \notin Jobs
  /\ Unknown \subseteq Jobs
  /\ Embedded \subseteq Workers
  /\ OneShot \subseteq Workers
  /\ {Batch, StaleAfter} \subseteq Nat \ {0}
  /\ {HandlerLimit, RestartDelay, MaxTime, MaxFaults} \subseteq Nat

VARIABLES
  jobs,    \* the jobs table: one row per id
  worker,  \* what each worker loop is doing
  clock,   \* the host's clock, shared by the processes
  faults   \* faults so far

queueVars == <<jobs, worker, clock, faults>>

Terminal == {"succeeded", "failed"}
Status   == {"absent", "queued", "running"} \union Terminal
Busy     == {"handling", "succeeding", "failing"}
\* "dead": the loop threw inside an API process that keeps serving.
Phase    == {"down", "dead", "polling"} \union Busy

Row    == [status: Status, attempts: Nat, createdAt: Nat, claimedAt: Nat]
\* attempt and since are the attempts and claimedAt of the claimed record;
\* while a loop is down, since is the time it went down.
Worker == [phase: Phase, job: Jobs \union {NoJob}, attempt: Nat, since: Nat,
           processed: 0..Batch]

Idle(phase, t, n) ==
  [phase |-> phase, job |-> NoJob, attempt |-> 0, since |-> t, processed |-> n]

\* Time starts at RestartDelay, so that the first start waits for nothing.
QueueInit ==
  /\ jobs = [j \in Jobs |-> [status |-> "absent", attempts |-> 0,
                             createdAt |-> 0, claimedAt |-> 0]]
  /\ worker = [w \in Workers |-> Idle("down", 0, 0)]
  /\ clock = RestartDelay
  /\ faults = 0

(***************************************************************************)
(* Slips: what the definitions below would be after a plausible mistake.   *)
(* The properties of this module are tested against them.                  *)
(***************************************************************************)
SlipKeepAttempts(j) ==
  [jobs[j] EXCEPT !.status = "running", !.claimedAt = clock]
SlipAnyRunning(j) == jobs[j].status = "running"
SlipSinceCreated(j) ==
  jobs[j].status = "running" /\ jobs[j].createdAt + StaleAfter <= clock
SlipAnyStatus(j) ==
  jobs[j].attempts > 0 /\ jobs[j].claimedAt + StaleAfter <= clock
SlipTwiceAsLate(j) ==
  jobs[j].status = "running" /\ jobs[j].claimedAt + 2 * StaleAfter <= clock
SlipOneMore(w) == worker[w].processed <= Batch

(***************************************************************************)
(* The statements of the repository.                                       *)
(***************************************************************************)
enqueue(j) ==
  /\ jobs[j].status = "absent"
  /\ jobs' = [jobs EXCEPT ![j] = [@ EXCEPT !.status = "queued",
                                           !.createdAt = clock]]

\* The subquery of CLAIM_SQL; rows created in the same millisecond tie.
Oldest(j) ==
  /\ jobs[j].status = "queued"
  /\ \A i \in Jobs :
       jobs[i].status = "queued" => jobs[j].createdAt <= jobs[i].createdAt

Claimed(j) ==
  [jobs[j] EXCEPT !.status = "running", !.attempts = @ + 1,
                  !.claimedAt = clock]

\* claimed_at is never NULL on a running row: claiming is what sets both.
Stale(j) ==
  jobs[j].status = "running" /\ jobs[j].claimedAt + StaleAfter <= clock

requeueStaleRunning ==
  jobs' = [j \in Jobs |-> IF Stale(j) THEN [jobs[j] EXCEPT !.status = "queued"]
                                      ELSE jobs[j]]

\* succeed and fail: unconditional updates by id.
settle(j, status) == jobs' = [jobs EXCEPT ![j].status = status]

(***************************************************************************)
(* The worker loop.                                                        *)
(***************************************************************************)
\* Faults are budgeted, and strike only while a restart still fits.
Fault ==
  /\ faults < MaxFaults
  /\ clock + RestartDelay <= MaxTime
  /\ faults' = faults + 1

\* A rejection of runStandaloneWorker ends the process, or only the loop
\* when it runs inside an API process.
LoopDies(w) ==
  worker' = [worker EXCEPT ![w] =
               Idle(IF w \in Embedded THEN "dead" ELSE "down", clock, 0)]

\* The start of runStandaloneWorker: the only place that requeues.
Start(w) ==
  /\ worker[w].phase = "down"
  /\ worker[w].since + RestartDelay <= clock
  /\ requeueStaleRunning
  /\ worker' = [worker EXCEPT ![w] = Idle("polling", 0, 0)]
  /\ UNCHANGED <<clock, faults>>

\* The loop condition of runQueuedJobs.
MoreInBatch(w) == worker[w].processed < Batch

Claim(w, j) ==
  /\ worker[w].phase = "polling"
  /\ MoreInBatch(w)
  /\ Oldest(j)
  /\ jobs' = [jobs EXCEPT ![j] = Claimed(j)]
  /\ worker' = [worker EXCEPT ![w] =
       [phase |-> IF j \in Unknown THEN "failing" ELSE "handling",
        job |-> j, attempt |-> Claimed(j).attempts, since |-> clock,
        processed |-> @.processed]]
  /\ UNCHANGED <<clock, faults>>

\* 32 attempts met a lock, or the connection was inside a transaction.
ClaimThrows(w) ==
  /\ worker[w].phase = "polling"
  /\ Fault
  /\ LoopDies(w)
  /\ UNCHANGED <<jobs, clock>>

\* runQueuedJobs returns; a loop started with once stops, another goes on.
EndBatch(w) ==
  /\ worker[w].phase = "polling"
  /\ \/ ~MoreInBatch(w)
     \/ \A j \in Jobs : jobs[j].status # "queued"
  /\ \/ /\ w \in OneShot
        /\ worker' = [worker EXCEPT ![w] = Idle("down", clock, 0)]
     \/ /\ w \notin OneShot
        /\ worker[w].processed > 0
        /\ worker' = [worker EXCEPT ![w].processed = 0]
  /\ UNCHANGED <<jobs, clock, faults>>

HandlerReturns(w) ==
  /\ worker[w].phase = "handling"
  /\ worker' = [worker EXCEPT ![w].phase = "succeeding"]
  /\ UNCHANGED <<jobs, clock, faults>>

HandlerThrows(w) ==
  /\ worker[w].phase = "handling"
  /\ worker' = [worker EXCEPT ![w].phase = "failing"]
  /\ UNCHANGED <<jobs, clock, faults>>

Settle(w, phase, status) ==
  /\ worker[w].phase = phase
  /\ settle(worker[w].job, status)
  /\ worker' = [worker EXCEPT ![w] =
                  Idle("polling", 0, @.processed + 1)]
  /\ UNCHANGED <<clock, faults>>

Succeed(w) == Settle(w, "succeeding", "succeeded")
Fail(w)    == Settle(w, "failing", "failed")

\* succeed stands inside the try: when it throws, the job is failed.
SucceedThrows(w) ==
  /\ worker[w].phase = "succeeding"
  /\ Fault
  /\ worker' = [worker EXCEPT ![w].phase = "failing"]
  /\ UNCHANGED <<jobs, clock>>

\* fail stands in the catch: when it throws, the loop dies.
FailThrows(w) ==
  /\ worker[w].phase = "failing"
  /\ Fault
  /\ LoopDies(w)
  /\ UNCHANGED <<jobs, clock>>

\* The process dies, or close() pulls the database from under the loop.
Crash(w) ==
  /\ worker[w].phase # "down"
  /\ Fault
  /\ worker' = [worker EXCEPT ![w] = Idle("down", clock, 0)]
  /\ UNCHANGED <<jobs, clock>>

Tick ==
  /\ clock < MaxTime
  /\ \A w \in Workers :
       worker[w].phase \in Busy => clock < worker[w].since + HandlerLimit
  /\ clock' = clock + 1
  /\ UNCHANGED <<jobs, worker, faults>>

Enqueue(j) ==
  /\ enqueue(j)
  /\ UNCHANGED <<worker, clock, faults>>

Loop(w) ==
  \/ Start(w)
  \/ \E j \in Jobs : Claim(w, j)
  \/ ClaimThrows(w)
  \/ EndBatch(w)
  \/ HandlerReturns(w)
  \/ HandlerThrows(w)
  \/ Succeed(w)
  \/ SucceedThrows(w)
  \/ Fail(w)
  \/ FailThrows(w)
  \/ Crash(w)

QueueNext ==
  \/ \E j \in Jobs : Enqueue(j)
  \/ \E w \in Workers : Loop(w)
  \/ Tick

QueueSpec == QueueInit /\ [][QueueNext]_queueVars

\* A supervisor restarts what is down, a running loop goes on, handlers end
\* and time passes.  Nothing obliges a fault, an enqueue or a second server.
QueueFairness ==
  /\ WF_queueVars(Tick)
  /\ \A w \in Workers :
       /\ WF_queueVars(Start(w))
       /\ WF_queueVars(\E j \in Jobs : Claim(w, j))
       /\ WF_queueVars(EndBatch(w))
       /\ WF_queueVars(HandlerReturns(w) \/ HandlerThrows(w))
       /\ WF_queueVars(Succeed(w))
       /\ WF_queueVars(Fail(w))

FairQueueSpec == QueueSpec /\ QueueFairness

-----------------------------------------------------------------------------
InHand(w) == worker[w].phase \in Busy

\* The rows and the loops have the shape the code gives them; a loop with a
\* job in hand has one, and is within its batch.
QueueTypeOK ==
  /\ jobs \in [Jobs -> Row]
  /\ worker \in [Workers -> Worker]
  /\ clock \in Nat
  /\ faults \in 0..MaxFaults
  /\ \A w \in Workers :
       InHand(w) => worker[w].job \in Jobs /\ worker[w].processed < Batch

\* Two loops have the same job in hand only when the later one claimed it at
\* least StaleAfter after the earlier: requeueStaleRunning takes a job from a
\* live handler only when the handler has overrun, and each execution has its
\* own attempt number.
TakeoverOnlyWhenStale ==
  \A v, w \in Workers :
    (v # w /\ InHand(v) /\ InHand(w) /\ worker[v].job = worker[w].job) =>
      \/ /\ worker[v].attempt < worker[w].attempt
         /\ worker[v].since + StaleAfter <= worker[w].since
      \/ /\ worker[w].attempt < worker[v].attempt
         /\ worker[w].since + StaleAfter <= worker[v].since

\* When handlers end before StaleAfter, a job is in the hands of one loop at a
\* time, and the table says running for as long as it is: no other loop can
\* requeue, claim or settle it.
ExclusiveExecution ==
  \A w \in Workers : InHand(w) =>
    /\ jobs[worker[w].job].status = "running"
    /\ \A v \in Workers \ {w} : InHand(v) => worker[v].job # worker[w].job

\* A settled job is never settled again, requeued or claimed, although
\* succeed and fail do not look at the row they update.
SettledOnce ==
  [][\A j \in Jobs : jobs[j].status \in Terminal => jobs'[j] = jobs[j]]_queueVars

\* No enqueued job is left behind: it is settled in the end, whatever crashes.
EnqueuedIsSettled ==
  \A j \in Jobs : jobs[j].status = "queued" ~> jobs[j].status \in Terminal
=============================================================================
