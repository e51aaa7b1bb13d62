------------------------------- MODULE Ledger -------------------------------
(***************************************************************************)
(* The memory of one knowledge space: episodes (remember, ingestMarkdown,  *)
(* forget) and the facts that consolidate derives from them                *)
(* (memory-service.ts, knowledge-service.ts and their repositories).       *)
(*                                                                         *)
(* An actor is a process on the database file (the server, an MCP server   *)
(* on stdio, a CLI command) or one more operation of a process whose other *)
(* operation waits for a model provider.  It runs one operation at a time. *)
(* Every statement, and every unit of work that awaits nothing, is a step. *)
(*                                                                         *)
(* A fact row is its claim (subject, predicate, object), its source and    *)
(* its state: "active", "superseded" (validUntil and retractedAt set) or   *)
(* "retracted" (retractedAt alone).  Entities, which follow the subject's  *)
(* name, the lexical index and the graph views are left out.               *)
(***************************************************************************)
EXTENDS Naturals, FiniteSets, Sequences

CONSTANTS
  Episodes,     \* ids of the episodes that may be remembered
  Claims,       \* claims a fact may state
  Key,          \* subject and predicate of each claim
  Functional,   \* keys of the functional predicates
  Says,         \* the claims that extraction finds in each episode, in order
  Actors,       \* processes on the same database file
  NoActor,      \* nobody holds the write lock
  NoEpisode,    \* the operation is about no episode
  Reviews,      \* whether clients preview and accept proposals
  EpisodeLimit, \* episodes that consolidate lists (100)
  FactLimit,    \* active facts that consolidate reads (200)
  ForgetLimit,  \* active facts that forget reads (500)
  MaxOps,       \* bound: operations begun in a behaviour
  MaxFaults     \* bound: crashes and failed statements in a behaviour

ASSUME LedgerConstants ==
  /\ Key \in [Claims -> {Key[c] : c \in Claims}]
  /\ Says \in [Episodes -> Seq(Claims)]
  /\ NoActor \notin Actors
  /\ NoEpisode \notin Episodes
  /\ Reviews \in BOOLEAN
  /\ {EpisodeLimit, FactLimit, ForgetLimit, MaxOps, MaxFaults} \subseteq Nat

VARIABLES
  episode,   \* what listRecent makes of each episode
  observed,  \* observedAt of each episode
  evidence,  \* episodes with an evidence row
  embedding, \* episodes with an embedding row
  facts,     \* the rows of the facts table
  lock,      \* the actor inside BEGIN IMMEDIATE ... COMMIT
  draft,     \* the facts table as that transaction sees it
  issued,    \* fact ids given out: newId never repeats one
  now,       \* the clock: each operation begins at a time of its own
  review,    \* proposals of the last preview
  forgotten, \* episodes whose forget was answered, whatever its mode
  purged,    \* those forgotten with mode purge
  op,        \* the operation each actor is in
  faults     \* faults so far

episodeVars == <<episode, observed, evidence, embedding>>
factVars == <<facts, lock, draft, issued>>
clientVars == <<review, forgotten, purged>>
ledgerVars == <<episodeVars, factVars, clientVars, now, op, faults>>

Candidate == UNION {{e} \X DOMAIN Says[e] : e \in Episodes}
Claim(c) == Says[c[1]][c[2]]

Fact == [id: Nat, claim: Claims, source: Episodes, at: Nat,
         state: {"active", "superseded", "retracted"}]

Active(rows) == {r \in rows : r.state = "active"}

Step == {"idle", "embed", "select", "retract", "evidence", "episode",
         "embedding", "query", "extract", "write"}

Op == [at: Step, episode: Episodes \union {NoEpisode}, time: Nat,
       mode: {"none", "preview", "all", "accepted"},
       todo: SUBSET Candidate,   \* candidates not yet looked at
       known: SUBSET Claims,     \* factsBySpo: its keys
       rows: SUBSET Fact,        \* functionalBySp: its values; the rows
                                 \* that forget has still to retract
       proposed: SUBSET Candidate]

Idle == [at |-> "idle", episode |-> NoEpisode, time |-> 0, mode |-> "none",
         todo |-> {}, known |-> {}, rows |-> {}, proposed |-> {}]

LedgerInit ==
  /\ episode = [e \in Episodes |-> "absent"]
  /\ observed = [e \in Episodes |-> 0]
  /\ evidence = {}
  /\ embedding = {}
  /\ facts = {}
  /\ lock = NoActor
  /\ draft = {}
  /\ issued = 0
  /\ now = 0
  /\ review = {}
  /\ forgotten = {}
  /\ purged = {}
  /\ op = [a \in Actors |-> Idle]
  /\ faults = 0

At(a, here) == op[a].at = here
Goto(a, there) == op' = [op EXCEPT ![a].at = there]
Done(a) == op' = [op EXCEPT ![a] = Idle]

\* An actor between operations begins one.
Begins(a) ==
  /\ At(a, "idle")
  /\ now < MaxOps
  /\ now' = now + 1

\* A write while another process is inside a transaction throws.
Free == lock = NoActor

\* Candidates come in the order their episodes were observed, and within an
\* episode in the order extraction emits them.
Precedes(c, d) ==
  \/ observed[c[1]] < observed[d[1]]
  \/ c[1] = d[1] /\ c[2] < d[2]

(***************************************************************************)
(* Slips: what the definitions below would be after a plausible mistake.   *)
(* The properties of this module are tested against them.                  *)
(***************************************************************************)
SlipInsertOnly(rows, new) == rows \union new
SlipReplaceByClaim(rows, new) ==
  {r \in rows : \A n \in new : n.claim # r.claim} \union new
SlipAllRows(limit) == {facts}
SlipNoPrevious(a, c) == {}
SlipLeftOpen(rows) == rows
SlipNewestFirst(todo) == {c \in todo : \A d \in todo : ~Precedes(c, d)}
SlipStillShown(a, e) ==
  /\ Begins(a)
  /\ Free
  /\ episode[e] # "absent"
  /\ op' = [op EXCEPT ![a] = [Idle EXCEPT !.at = "select", !.episode = e]]
  /\ UNCHANGED <<episodeVars, factVars, clientVars, faults>>
SlipKeepEmbedding(a) ==
  /\ At(a, "embedding")
  /\ forgotten' = forgotten \union {op[a].episode}
  /\ purged' = purged \union {op[a].episode}
  /\ Done(a)
  /\ UNCHANGED <<episodeVars, factVars, review, now, faults>>

(***************************************************************************)
(* What the statements read and write.                                     *)
(***************************************************************************)
\* INSERT OR REPLACE: a row with a new id is inserted, an old one replaced.
Upsert(rows, new) ==
  {r \in rows : \A n \in new : n.id # r.id} \union new

\* What a query ORDER BY asserted_at DESC LIMIT limit may return.
Newest(limit) ==
  LET active == Active(facts)
  IN  IF Cardinality(active) <= limit THEN {active}
      ELSE {S \in SUBSET active :
              /\ Cardinality(S) = limit
              /\ \A r \in S, q \in active \ S : q.at <= r.at}

(***************************************************************************)
(* remember and ingestMarkdown.                                            *)
(***************************************************************************)
\* Rows with one observedAt come out of a query in an order of the engine's
\* choice; the model gives them times in that order.
Insert(S) ==
  /\ S # {} /\ IsFiniteSet(S)
  /\ \A e \in S : episode[e] = "absent"
  /\ now + Cardinality(S) <= MaxOps
  /\ now' = now + Cardinality(S)
  /\ episode' = [e \in Episodes |-> IF e \in S THEN "visible" ELSE episode[e]]
  /\ \E time \in [S -> now + 1..now'] :
       /\ \A d, e \in S : d # e => time[d] # time[e]
       /\ observed' = [e \in Episodes |-> IF e \in S THEN time[e] ELSE observed[e]]

Remember(a, e) ==
  /\ At(a, "idle")
  /\ Free
  /\ Insert({e})
  /\ evidence' = evidence \union {e}
  /\ op' = [op EXCEPT ![a] = [Idle EXCEPT !.at = "embed", !.episode = e]]
  /\ UNCHANGED <<embedding, factVars, clientVars, faults>>

\* The provider has answered; the transaction is long over.
Embed(a) ==
  /\ At(a, "embed")
  /\ Free
  /\ embedding' = embedding \union {op[a].episode}
  /\ Done(a)
  /\ UNCHANGED <<episode, observed, evidence, factVars, clientVars, now, faults>>

\* The segments of a document: one transaction, and nothing derived.
IngestMarkdown(a, S) ==
  /\ At(a, "idle")
  /\ Free
  /\ Insert(S)
  /\ UNCHANGED <<evidence, embedding, factVars, clientVars, op, faults>>

(***************************************************************************)
(* forget.  hide, delete and retract differ in the column they set; all    *)
(* three take the episode out of recall and extraction.                    *)
(***************************************************************************)
Forget(a, e) ==
  /\ Begins(a)
  /\ Free
  /\ episode[e] # "absent"
  /\ episode' = [episode EXCEPT ![e] = IF @ = "visible" THEN "hidden" ELSE @]
  /\ op' = [op EXCEPT ![a] = [Idle EXCEPT !.at = "select", !.episode = e]]
  /\ UNCHANGED <<observed, evidence, embedding, factVars, clientVars, faults>>

SelectLinked(a) ==
  /\ At(a, "select")
  /\ \E S \in Newest(ForgetLimit) :
       op' = [op EXCEPT ![a].at = "retract",
                        ![a].rows = {r \in S : r.source = op[a].episode}]
  /\ UNCHANGED <<episodeVars, factVars, clientVars, now, faults>>

Retracted(r) == [r EXCEPT !.state = "retracted"]

\* One upsert of the row as it was read.
Retract(a) ==
  /\ At(a, "retract")
  /\ Free
  /\ \E r \in op[a].rows :
       /\ facts' = Upsert(facts, {Retracted(r)})
       /\ op' = [op EXCEPT ![a].rows = @ \ {r}]
  /\ UNCHANGED <<episodeVars, lock, draft, issued, clientVars, now, faults>>

ForgetEnds(a) ==
  /\ At(a, "retract")
  /\ op[a].rows = {}
  /\ forgotten' = forgotten \union {op[a].episode}
  /\ Done(a)
  /\ UNCHANGED <<episodeVars, factVars, review, purged, now, faults>>

\* Mode purge: four deletes, each a transaction of its own.
Purge(a, e) ==
  /\ Begins(a)
  /\ Free
  /\ episode[e] # "absent"
  /\ facts' = {r \in facts : r.source # e}
  /\ op' = [op EXCEPT ![a] = [Idle EXCEPT !.at = "evidence", !.episode = e]]
  /\ UNCHANGED <<episodeVars, lock, draft, issued, clientVars, faults>>

PurgeEvidence(a) ==
  /\ At(a, "evidence")
  /\ Free
  /\ evidence' = evidence \ {op[a].episode}
  /\ Goto(a, "episode")
  /\ UNCHANGED <<episode, observed, embedding, factVars, clientVars, now, faults>>

PurgeEpisode(a) ==
  /\ At(a, "episode")
  /\ Free
  /\ episode' = [episode EXCEPT ![op[a].episode] = "gone"]
  /\ Goto(a, "embedding")
  /\ UNCHANGED <<observed, evidence, embedding, factVars, clientVars, now, faults>>

PurgeEmbedding(a) ==
  /\ At(a, "embedding")
  /\ Free
  /\ embedding' = embedding \ {op[a].episode}
  /\ forgotten' = forgotten \union {op[a].episode}
  /\ purged' = purged \union {op[a].episode}
  /\ Done(a)
  /\ UNCHANGED <<episode, observed, evidence, factVars, review, now, faults>>

(***************************************************************************)
(* consolidate and its preview.                                            *)
(***************************************************************************)
\* listRecent: the newest visible episodes, whichever comes first of a tie.
Recent ==
  LET visible == {e \in Episodes : episode[e] = "visible"}
  IN  IF Cardinality(visible) <= EpisodeLimit THEN {visible}
      ELSE {S \in SUBSET visible :
              /\ Cardinality(S) = EpisodeLimit
              /\ \A e \in S, d \in visible \ S : observed[d] <= observed[e]}

Begin(a, mode, todo) ==
  /\ Begins(a)
  /\ op' = [op EXCEPT ![a] = [Idle EXCEPT !.at = "query", !.mode = mode,
                                          !.time = now', !.todo = todo]]
  /\ UNCHANGED <<episodeVars, factVars, clientVars, faults>>

Consolidate(a) ==
  \E S \in Recent, mode \in {"all"} \union IF Reviews THEN {"preview"} ELSE {} :
    Begin(a, mode, {c \in Candidate : c[1] \in S})

\* A client sends some of the proposals it was shown.
ConsolidateAccepted(a) ==
  /\ Reviews
  /\ \E accept \in SUBSET review :
       /\ accept # {}
       /\ Begin(a, "accepted", accept)

\* factsBySpo and functionalBySp; of several rows on one functional key the
\* last in the order of the query, the oldest, stays in the map.
QueryFacts(a) ==
  /\ At(a, "query")
  /\ \E S \in Newest(FactLimit) :
       op' = [op EXCEPT
                ![a].at = "extract",
                ![a].known = {r.claim : r \in S},
                ![a].rows = {r \in S :
                  /\ Key[r.claim] \in Functional
                  /\ \A q \in S : Key[q.claim] = Key[r.claim] => r.at <= q.at}]
  /\ UNCHANGED <<episodeVars, factVars, clientVars, now, faults>>

\* The model has answered, or none is configured; a preview stays outside.
BeginWrite(a) ==
  /\ At(a, "extract")
  /\ IF op[a].mode = "preview"
       THEN UNCHANGED <<lock, draft>>
       ELSE Free /\ lock' = a /\ draft' = facts
  /\ Goto(a, "write")
  /\ UNCHANGED <<episodeVars, facts, issued, clientVars, now, faults>>

First(todo) == {c \in todo : \A d \in todo : ~Precedes(d, c)}

NewFact(a, c) ==
  [id |-> issued + 1, claim |-> Claim(c), source |-> c[1], at |-> op[a].time,
   state |-> "active"]

\* The row that closePreviousFunctional closes, if there is one.
Previous(a, c) ==
  {r \in op[a].rows : Key[r.claim] = Key[Claim(c)]}

Closed(rows) == {[r EXCEPT !.state = "superseded"] : r \in rows}

\* persistExtractedFact for a claim that is active already.
SkipKnown(a) ==
  /\ At(a, "write")
  /\ \E c \in First(op[a].todo) :
       /\ Claim(c) \in op[a].known
       /\ op' = [op EXCEPT ![a].todo = @ \ {c}]
  /\ UNCHANGED <<episodeVars, factVars, clientVars, now, faults>>

\* persistExtractedFact for a new claim: it closes the previous fact on a
\* functional key, from the row as it was read before the transaction.
Persist(a) ==
  /\ At(a, "write")
  /\ \E c \in First(op[a].todo) :
       /\ Claim(c) \notin op[a].known
       /\ draft' = IF op[a].mode = "preview" THEN draft
                   ELSE Upsert(draft, Closed(Previous(a, c)) \union {NewFact(a, c)})
       /\ op' = [op EXCEPT
                   ![a].todo = @ \ {c},
                   ![a].known = (@ \ {r.claim : r \in Previous(a, c)}) \union {Claim(c)},
                   ![a].rows = (@ \ Previous(a, c)) \union
                                 IF Key[Claim(c)] \in Functional THEN {NewFact(a, c)} ELSE {},
                   ![a].proposed = @ \union {c}]
  /\ issued' = issued + 1
  /\ UNCHANGED <<episodeVars, facts, lock, clientVars, now, faults>>

Commit(a) ==
  /\ At(a, "write")
  /\ lock = a
  /\ op[a].todo = {}
  /\ facts' = draft
  /\ lock' = NoActor
  /\ draft' = {}
  /\ Done(a)
  /\ UNCHANGED <<episodeVars, issued, clientVars, now, faults>>

Propose(a) ==
  /\ At(a, "write")
  /\ op[a].mode = "preview"
  /\ op[a].todo = {}
  /\ review' = op[a].proposed
  /\ Done(a)
  /\ UNCHANGED <<episodeVars, factVars, forgotten, purged, now, faults>>

\* The process dies, a statement meets a lock, a provider fails: what was
\* written stays, an open transaction is rolled back.
Stop(a) ==
  /\ ~At(a, "idle")
  /\ faults < MaxFaults
  /\ faults' = faults + 1
  /\ Done(a)
  /\ IF lock = a THEN lock' = NoActor /\ draft' = {}
                 ELSE UNCHANGED <<lock, draft>>
  /\ UNCHANGED <<episodeVars, facts, issued, clientVars, now>>

LedgerStep(a) ==
  \/ \E e \in Episodes : Remember(a, e)
  \/ Embed(a)
  \/ \E S \in SUBSET Episodes : IngestMarkdown(a, S)
  \/ \E e \in Episodes : Forget(a, e)
  \/ SelectLinked(a)
  \/ Retract(a)
  \/ ForgetEnds(a)
  \/ \E e \in Episodes : Purge(a, e)
  \/ PurgeEvidence(a)
  \/ PurgeEpisode(a)
  \/ PurgeEmbedding(a)
  \/ Consolidate(a)
  \/ ConsolidateAccepted(a)
  \/ QueryFacts(a)
  \/ BeginWrite(a)
  \/ SkipKnown(a)
  \/ Persist(a)
  \/ Commit(a)
  \/ Propose(a)
  \/ Stop(a)

LedgerNext == \E a \in Actors : LedgerStep(a)

LedgerSpec == LedgerInit /\ [][LedgerNext]_ledgerVars

-----------------------------------------------------------------------------
\* The tables and the operations have the shape the code gives them, ids are
\* unique, and only a writing consolidation is inside the transaction.
LedgerTypeOK ==
  /\ episode \in [Episodes -> {"absent", "visible", "hidden", "gone"}]
  /\ observed \in [Episodes -> Nat]
  /\ evidence \subseteq Episodes
  /\ embedding \subseteq Episodes
  /\ facts \subseteq Fact
  /\ draft \subseteq Fact
  /\ lock \in Actors \union {NoActor}
  /\ {issued, now, faults} \subseteq Nat
  /\ review \subseteq Candidate
  /\ purged \subseteq forgotten /\ forgotten \subseteq Episodes
  /\ op \in [Actors -> Op]
  /\ \A a \in Actors : lock = a => At(a, "write") /\ op[a].mode # "preview"
  /\ \A r, q \in facts : r.id = q.id => r = q

\* With one process, no two active facts state the same claim, and no two
\* state different objects for one functional key.
ActiveFactsAgree ==
  \A r, q \in Active(facts) :
    r # q => /\ r.claim # q.claim
             /\ Key[r.claim] = Key[q.claim] => Key[r.claim] \notin Functional

\* With one process, a fact that was superseded or retracted is never written
\* again: history keeps the validUntil it was closed with.
HistoryIsFrozen ==
  [][\A r \in facts :
       r.state # "active" =>
         r \in facts' \/ \A q \in facts' : q.id # r.id]_ledgerVars

\* With one process, a consolidation of every episode leaves active what the
\* last of the visible episodes says about each functional key, and all they
\* say about the other keys.
Said == {c \in Candidate : episode[c[1]] = "visible"}

LastSaid ==
  {c \in Said : Key[Claim(c)] \in Functional =>
     \A d \in Said : Key[Claim(d)] = Key[Claim(c)] => ~Precedes(c, d)}

LatestSaidIsActive ==
  [][\A a \in Actors :
       (Commit(a) /\ op[a].mode = "all") =>
         {Claim(c) : c \in LastSaid} \subseteq {r.claim : r \in Active(facts)}']_ledgerVars

\* A step of a consolidation that a client picked the facts of.
Accepting == \E a \in Actors : op[a].mode = "accepted"

FactsOf(e) == {r \in facts : r.source = e}
Traced(e) == FactsOf(e) # {} \/ e \in evidence \union embedding

\* With one process, when forget answers, the facts drawn from the episode
\* are inactive, and only a client that accepts an old proposal changes that.
ForgottenIsSilent ==
  [][\A e \in forgotten' :
       \/ Active(FactsOf(e))' = {}
       \/ e \in forgotten /\ Active(FactsOf(e)) # {}
       \/ Accepting]_ledgerVars

\* When a purge answers, nothing derived from the episode is left, and only a
\* client that accepts an old proposal brings any of it back.
PurgedIsGone ==
  [][\A e \in purged' :
       \/ ~Traced(e)'
       \/ e \in purged /\ Traced(e)
       \/ Accepting]_ledgerVars

\* Whatever the processes do, a fact once inactive never becomes active, and
\* no row disappears but by a purge of its source.
HistoryIsKept ==
  [][\A r \in facts :
       \/ \E q \in facts' : /\ q.id = r.id
                            /\ r.state # "active" => q.state # "active"
       \/ \E a \in Actors : Purge(a, r.source)]_ledgerVars

\* A consolidation that leaves the same claims active has written nothing.
NothingNewNothingWritten ==
  [][\A a \in Actors :
       (Commit(a) /\ {r.claim : r \in Active(facts)} = {r.claim : r \in Active(facts')})
         => facts' = facts]_ledgerVars
=============================================================================
