----------------------------- MODULE Ingestion -----------------------------
(***************************************************************************)
(* Ingestion runs: POST /spaces/:id/ingestions (rest.ts), the ingest-url   *)
(* job handler (runtime.ts) and the ingestions table, on top of JobQueue.  *)
(*                                                                         *)
(* A request, the run it creates and the job that carries its runId share  *)
(* one id, so the jobs are the URL requests.  An API process takes one     *)
(* request at a time through the handler: between its statements the       *)
(* handler awaits nothing that is not already resolved.  Other processes   *)
(* interleave between any two statements.  A rejected body or URL writes   *)
(* nothing and is left out.                                                *)
(***************************************************************************)
EXTENDS JobQueue, FiniteSets

CONSTANTS
  Requests,  \* requests that clients may post
  KeyOf,     \* their idempotency keys; NoKey for a request without one
  NoKey,
  Api,       \* API processes on the same database file
  NoRequest, \* "no request in hand"
  MaxErrors  \* bound: failed statements and API crashes in a behaviour

ASSUME IngestionConstants ==
  /\ Jobs \subseteq Requests
  /\ Unknown = {}
  /\ NoRequest \notin Requests
  /\ DOMAIN KeyOf = Requests
  /\ MaxErrors \in Nat

VARIABLES
  run,     \* status of the ingestions row of each request
  stored,  \* how often the request's segments were inserted as episodes
  posted,  \* requests that some client has sent
  accepted,\* runs that some client was answered with
  api,     \* where each API process stands in the POST handler
  step,    \* where each worker stands in the ingest-url handler
  errors   \* failed statements and API crashes so far

ingestVars == <<run, stored, posted, accepted, api, step, errors>>
allVars == <<queueVars, ingestVars>>

RunStatus == {"absent", "queued", "running", "succeeded", "failed"}
ApiStep == {"idle", "insert", "enqueue", "mark", "store", "close", "fail"}
UrlStep == {"mark", "store", "close", "fail"}

IngestInit ==
  /\ QueueInit
  /\ run = [r \in Requests |-> "absent"]
  /\ stored = [r \in Requests |-> 0]
  /\ posted = {}
  /\ accepted = {}
  /\ api = [a \in Api |-> [at |-> "idle", req |-> NoRequest]]
  /\ step = [w \in Workers |-> "mark"]
  /\ errors = 0

\* updateStatus: an unconditional update by run id.
updateStatus(r, status) == run' = [run EXCEPT ![r] = status]

\* ingestMarkdown: all the segments in one transaction, never looked up first.
ingestMarkdown(r) == stored' = [stored EXCEPT ![r] = @ + 1]

Error ==
  /\ errors < MaxErrors
  /\ errors' = errors + 1

Handles(w, here) == worker[w].phase = "handling" /\ step[w] = here

(***************************************************************************)
(* Slips: what the definitions below would be after a plausible mistake.   *)
(* The properties of this module are tested against them.                  *)
(***************************************************************************)
\* An idempotency check that lets a failed run be posted again.
SlipUnlessFailed(r) ==
  {x \in Requests : /\ KeyOf[r] # NoKey
                    /\ KeyOf[x] = KeyOf[r]
                    /\ run[x] \notin {"absent", "failed"}}
\* A reply that leaves the request in hand.
SlipAnswerKeeps(a) == api' = [api EXCEPT ![a].at = "answered"]
\* A refused document taken for an empty one.
SlipRefusedIgnored(w) ==
  /\ Handles(w, "store")
  /\ step' = [step EXCEPT ![w] = "close"]
  /\ UNCHANGED <<queueVars, run, stored, posted, accepted, api, errors>>
\* A failed update that is retried together with the insert before it.
SlipRetryStore(w) ==
  /\ Handles(w, "close")
  /\ Error
  /\ step' = [step EXCEPT ![w] = "store"]
  /\ UNCHANGED <<queueVars, run, stored, posted, accepted, api>>
\* A catch that marks the run failed and does not rethrow.
SlipSwallow(w) ==
  /\ Handles(w, "fail")
  /\ updateStatus(worker[w].job, "failed")
  /\ HandlerReturns(w)
  /\ UNCHANGED <<stored, posted, accepted, api, step, errors>>
\* A handler that settles the job it was called for.
SlipSettles(w) ==
  /\ Handles(w, "close")
  /\ updateStatus(worker[w].job, "succeeded")
  /\ settle(worker[w].job, "succeeded")
  /\ worker' = [worker EXCEPT ![w].phase = "succeeding"]
  /\ UNCHANGED <<clock, faults, stored, posted, accepted, api, step, errors>>

(***************************************************************************)
(* The POST handler in API process a.                                      *)
(***************************************************************************)
At(a, here) == api[a].at = here
Goto(a, there) == api' = [api EXCEPT ![a].at = there]
Answer(a) == api' = [api EXCEPT ![a] = [at |-> "idle", req |-> NoRequest]]
\* A 2xx answer that names run r.
Accept(r) == accepted' = accepted \union {r}

\* findByIdempotencyKey: whatever the status of the run it finds.
findByIdempotencyKey(r) ==
  {x \in Requests : KeyOf[r] # NoKey /\ KeyOf[x] = KeyOf[r] /\ run[x] # "absent"}

Post(a, r) ==
  /\ At(a, "idle")
  /\ r \notin posted
  /\ posted' = posted \union {r}
  /\ \/ /\ findByIdempotencyKey(r) = {}
        /\ api' = [api EXCEPT ![a] = [at |-> "insert", req |-> r]]
        /\ UNCHANGED accepted
     \/ /\ \E x \in findByIdempotencyKey(r) : Accept(x)
        /\ UNCHANGED api
  /\ UNCHANGED <<queueVars, run, stored, step, errors>>

InsertRun(a) ==
  /\ At(a, "insert")
  /\ run' = [run EXCEPT ![api[a].req] = "queued"]
  /\ Goto(a, IF api[a].req \in Jobs THEN "enqueue" ELSE "mark")
  /\ UNCHANGED <<queueVars, stored, posted, accepted, step, errors>>

EnqueueJob(a) ==
  /\ At(a, "enqueue")
  /\ Enqueue(api[a].req)
  /\ Answer(a)
  /\ Accept(api[a].req)
  /\ UNCHANGED <<run, stored, posted, step, errors>>

MarkRunning(a) ==
  /\ At(a, "mark")
  /\ updateStatus(api[a].req, "running")
  /\ Goto(a, "store")
  /\ UNCHANGED <<queueVars, stored, posted, accepted, step, errors>>

Store(a) ==
  /\ At(a, "store")
  /\ ingestMarkdown(api[a].req)
  /\ Goto(a, "close")
  /\ UNCHANGED <<queueVars, run, posted, accepted, step, errors>>

\* The document is refused, or the transaction rolled back.
StoreRefused(a) ==
  /\ At(a, "store")
  /\ Goto(a, "fail")
  /\ UNCHANGED <<queueVars, run, stored, posted, accepted, step, errors>>

CloseRun(a) ==
  /\ At(a, "close")
  /\ updateStatus(api[a].req, "succeeded")
  /\ Answer(a)
  /\ Accept(api[a].req)
  /\ UNCHANGED <<queueVars, stored, posted, step, errors>>

FailRun(a) ==
  /\ At(a, "fail")
  /\ updateStatus(api[a].req, "failed")
  /\ Answer(a)
  /\ UNCHANGED <<queueVars, stored, posted, accepted, step, errors>>

\* A statement meets a lock.  The update to succeeded stands inside the try,
\* every other one answers 500 and leaves what was written before it.
StatementThrows(a) ==
  /\ \/ At(a, "close") /\ Goto(a, "fail")
     \/ ~At(a, "idle") /\ ~At(a, "close") /\ ~At(a, "store") /\ Answer(a)
  /\ Error
  /\ UNCHANGED <<queueVars, run, stored, posted, accepted, step>>

\* The process dies; it comes back with no request in hand.
ApiCrash(a) ==
  /\ ~At(a, "idle")
  /\ Error
  /\ Answer(a)
  /\ UNCHANGED <<queueVars, run, stored, posted, accepted, step>>

(***************************************************************************)
(* The ingest-url handler in worker w.  The fetch awaits the network; it   *)
(* writes nothing, so it is part of the step that follows it.              *)
(***************************************************************************)
UrlMarkRunning(w) ==
  /\ Handles(w, "mark")
  /\ updateStatus(worker[w].job, "running")
  /\ step' = [step EXCEPT ![w] = "store"]
  /\ UNCHANGED <<queueVars, stored, posted, accepted, api, errors>>

\* The first update stands before the try: the job fails, the run keeps its status.
UrlMarkThrows(w) ==
  /\ Handles(w, "mark")
  /\ Error
  /\ HandlerThrows(w)
  /\ UNCHANGED <<run, stored, posted, accepted, api, step>>

UrlStore(w) ==
  /\ Handles(w, "store")
  /\ ingestMarkdown(worker[w].job)
  /\ step' = [step EXCEPT ![w] = "close"]
  /\ UNCHANGED <<queueVars, run, posted, accepted, api, errors>>

\* The URL is unsafe, the answer is an error, late or too large, the
\* transaction rolls back.
UrlRefused(w) ==
  /\ Handles(w, "store")
  /\ step' = [step EXCEPT ![w] = "fail"]
  /\ UNCHANGED <<queueVars, run, stored, posted, accepted, api, errors>>

UrlCloseRun(w) ==
  /\ Handles(w, "close")
  /\ updateStatus(worker[w].job, "succeeded")
  /\ HandlerReturns(w)
  /\ UNCHANGED <<stored, posted, accepted, api, step, errors>>

UrlCloseThrows(w) ==
  /\ Handles(w, "close")
  /\ Error
  /\ step' = [step EXCEPT ![w] = "fail"]
  /\ UNCHANGED <<queueVars, run, stored, posted, accepted, api>>

\* The catch marks the run failed and rethrows.
UrlFailRun(w) ==
  /\ Handles(w, "fail")
  /\ updateStatus(worker[w].job, "failed")
  /\ HandlerThrows(w)
  /\ UNCHANGED <<stored, posted, accepted, api, step, errors>>

\* The update in the catch throws: the run stays running.
UrlFailThrows(w) ==
  /\ Handles(w, "fail")
  /\ Error
  /\ HandlerThrows(w)
  /\ UNCHANGED <<run, stored, posted, accepted, api, step>>

\* Every claim runs the handler from its start.
ClaimUrl(w, j) ==
  /\ Claim(w, j)
  /\ step' = [step EXCEPT ![w] = "mark"]
  /\ UNCHANGED <<run, stored, posted, accepted, api, errors>>

LoopStep(w) ==
  /\ \/ Start(w)
     \/ ClaimThrows(w)
     \/ EndBatch(w)
     \/ Succeed(w)
     \/ SucceedThrows(w)
     \/ Fail(w)
     \/ FailThrows(w)
     \/ Crash(w)
  /\ UNCHANGED ingestVars

ApiNext(a) ==
  \/ \E r \in Requests : Post(a, r)
  \/ InsertRun(a)
  \/ EnqueueJob(a)
  \/ MarkRunning(a)
  \/ Store(a)
  \/ StoreRefused(a)
  \/ CloseRun(a)
  \/ FailRun(a)
  \/ StatementThrows(a)
  \/ ApiCrash(a)

UrlNext(w) ==
  \/ \E j \in Jobs : ClaimUrl(w, j)
  \/ UrlMarkRunning(w)
  \/ UrlMarkThrows(w)
  \/ UrlStore(w)
  \/ UrlRefused(w)
  \/ UrlCloseRun(w)
  \/ UrlCloseThrows(w)
  \/ UrlFailRun(w)
  \/ UrlFailThrows(w)

IngestNext ==
  \/ \E a \in Api : ApiNext(a)
  \/ \E w \in Workers : UrlNext(w)
  \/ \E w \in Workers : LoopStep(w)
  \/ Tick /\ UNCHANGED ingestVars

IngestSpec == IngestInit /\ [][IngestNext]_allVars

-----------------------------------------------------------------------------
IngestTypeOK ==
  /\ QueueTypeOK
  /\ run \in [Requests -> RunStatus]
  /\ stored \in [Requests -> Nat]
  /\ posted \subseteq Requests
  /\ accepted \subseteq Requests
  /\ api \in [Api -> [at: ApiStep, req: Requests \union {NoRequest}]]
  /\ step \in [Workers -> UrlStep]
  /\ errors \in 0..MaxErrors

\* A run reported as succeeded has its episodes in the store, whichever of
\* the API, a worker or a second worker reported it.
SucceededIsStored ==
  \A r \in Requests : run[r] = "succeeded" => stored[r] > 0

\* A document is stored again only by another attempt of its job: at most
\* once per claim, and at most once without a job.
StoredOncePerAttempt ==
  \A r \in Requests :
    stored[r] <= IF r \in Jobs THEN jobs[r].attempts ELSE 1

\* A job that succeeded leaves its run succeeded: no slower attempt, no
\* failure of the run's own updates, comes between the two tables.
JobAndRunAgree ==
  \A r \in Jobs : jobs[r].status = "succeeded" => run[r] = "succeeded"

\* Once the job of a run is settled, and once a run without a job is closed,
\* the status of the run is final.
SettledRunIsFinal ==
  [][\A r \in Requests :
       (IF r \in Jobs THEN jobs[r].status \in Terminal
                      ELSE run[r] \in {"succeeded", "failed"})
       => run'[r] = run[r]]_allVars

\* Requests that carry the same idempotency key create one run between them.
OneRunPerKey ==
  \A r, s \in Requests :
    (r # s /\ KeyOf[r] # NoKey /\ KeyOf[r] = KeyOf[s])
      => run[r] = "absent" \/ run[s] = "absent"

\* A URL run that a client was answered with has its job: the request is not
\* lost, neither when it is first accepted nor when a retry finds its key.
AcceptedUrlHasJob ==
  \A r \in accepted \intersect Jobs : jobs[r].status # "absent"
=============================================================================
