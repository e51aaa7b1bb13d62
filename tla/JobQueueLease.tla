--------------------------- MODULE JobQueueLease ---------------------------
(* The refinement mapping from JobQueue to JobLease. *)
EXTENDS JobQueue

CONSTANT NoWorker

ASSUME NoWorkerIsNone == NoWorker \notin Workers

HasJob(w, j) == InHand(w) /\ worker[w].job = j

HolderOf(j) ==
  IF \E w \in Workers : HasJob(w, j) THEN CHOOSE w \in Workers : HasJob(w, j)
                                     ELSE NoWorker

LeaseState(j) ==
  CASE jobs[j].status = "absent"     -> "absent"
    [] jobs[j].status = "queued"     -> "waiting"
    [] jobs[j].status = "running"    -> "held"
    [] jobs[j].status \in Terminal   -> "done"

Lease == INSTANCE JobLease
           WITH state  <- [j \in Jobs |-> LeaseState(j)],
                holder <- [j \in Jobs |-> HolderOf(j)]

\* The queue implements the lease: what the runner, the unconditional updates
\* and the requeue at start do to the table is what one holder at a time does.
ImplementsLease == Lease!LeaseSpec
=============================================================================
