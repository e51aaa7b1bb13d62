------------------------------ MODULE JobLease ------------------------------
(***************************************************************************)
(* What the job queue promises: a job is held by one worker at a time,     *)
(* only its holder settles it, it is settled once, and a job whose holder  *)
(* died may be offered again.  JobQueue implements it as long as handlers  *)
(* end before their claim is stale.                                        *)
(***************************************************************************)
CONSTANTS Jobs, Workers, NoWorker

VARIABLES
  state,  \* "absent", "waiting", "held", "done"
  holder  \* the worker a held job belongs to; NoWorker when it died

leaseVars == <<state, holder>>

LeaseInit ==
  /\ state = [j \in Jobs |-> "absent"]
  /\ holder = [j \in Jobs |-> NoWorker]

Submit(j) ==
  /\ state[j] = "absent"
  /\ state' = [state EXCEPT ![j] = "waiting"]
  /\ UNCHANGED holder

\* A worker holds one job at a time.
Acquire(w, j) ==
  /\ state[j] = "waiting"
  /\ \A i \in Jobs : holder[i] # w
  /\ state' = [state EXCEPT ![j] = "held"]
  /\ holder' = [holder EXCEPT ![j] = w]

Complete(w, j) ==
  /\ state[j] = "held"
  /\ holder[j] = w
  /\ state' = [state EXCEPT ![j] = "done"]
  /\ holder' = [holder EXCEPT ![j] = NoWorker]

\* The holder dies with the job in hand.
Abandon(w, j) ==
  /\ holder[j] = w
  /\ holder' = [holder EXCEPT ![j] = NoWorker]
  /\ UNCHANGED state

\* Some of the abandoned jobs, and no others, are offered again.
Recover ==
  \E S \in SUBSET {j \in Jobs : state[j] = "held" /\ holder[j] = NoWorker} :
    /\ state' = [j \in Jobs |-> IF j \in S THEN "waiting" ELSE state[j]]
    /\ UNCHANGED holder

LeaseNext ==
  \/ \E j \in Jobs : Submit(j)
  \/ \E w \in Workers, j \in Jobs : Acquire(w, j) \/ Complete(w, j) \/ Abandon(w, j)
  \/ Recover

LeaseSpec == LeaseInit /\ [][LeaseNext]_leaseVars
=============================================================================
