--------------------------- MODULE Ledger_proofs ---------------------------
(***************************************************************************)
(* What holds of Ledger for every set of episodes, claims and actors and   *)
(* every bound: its shape and the history it keeps, and, when one process  *)
(* has the file to itself, agreement, frozen history and forgetting.       *)
(***************************************************************************)
EXTENDS LedgerBeliefs, FiniteSetTheorems, TLAPS

-----------------------------------------------------------------------------
(***************************************************************************)
(* The invariant of any number of actors.                                  *)
(***************************************************************************)
\* Ids up to n, none of them twice.
Numbered(R, n) ==
  /\ \A r \in R : r.id <= n
  /\ \A r, q \in R : r.id = q.id => r = q

\* D has a row for each row of R, inactive where R's is.
Kept(R, D) ==
  \A r \in R : \E q \in D : /\ q.id = r.id
                            /\ r.state # "active" => q.state # "active"

\* The actor is inside persistFacts, not in a preview.
Writes(a) == At(a, "write") /\ op[a].mode # "preview"

LockInv ==
  /\ \A a \in Actors : Writes(a) <=> lock = a
  /\ lock # NoActor => Kept(facts, draft)

IdsInv ==
  /\ Numbered(facts, issued)
  /\ Numbered(draft, issued)
  /\ \A a \in Actors : Numbered(op[a].rows, issued)

\* The tables and the operations have the shape the code gives them.
ShapeInv ==
  /\ episode \in [Episodes -> {"absent", "visible", "hidden", "gone"}]
  /\ observed \in [Episodes -> Nat]
  /\ evidence \subseteq Episodes
  /\ embedding \subseteq Episodes
  /\ facts \subseteq Fact
  /\ draft \subseteq Fact
  /\ lock \in Actors \union {NoActor}
  /\ {issued, now, faults} \subseteq Nat
  /\ review \subseteq Candidate
  /\ purged \subseteq forgotten /\ forgotten \subseteq Episodes
  /\ op \in [Actors -> Op]
  /\ \A a \in Actors :
       op[a].at \in {"embed", "select", "retract", "evidence", "episode",
                     "embedding"} => op[a].episode \in Episodes

LedgerInv == ShapeInv /\ LockInv /\ IdsInv

-----------------------------------------------------------------------------
(***************************************************************************)
(* What the statements do to a table.                                      *)
(***************************************************************************)
LEMMA ClaimIsClaim == \A c \in Candidate : Claim(c) \in Claims /\ c[1] \in Episodes
  BY LedgerConstants DEF Candidate, Claim

LEMMA IdleIsAnOp == Idle \in Op
  BY DEF Idle, Op, Step

LEMMA RetractedIsInactive ==
  ASSUME NEW r \in Fact
  PROVE  /\ Retracted(r) \in Fact
         /\ Retracted(r).id = r.id
         /\ Retracted(r).source = r.source
         /\ Retracted(r).claim = r.claim
         /\ Retracted(r).state = "retracted"
  BY DEF Retracted, Fact

LEMMA UpsertNumbered ==
  ASSUME NEW rows, NEW new, NEW n, Numbered(rows, n), Numbered(new, n)
  PROVE  Numbered(Upsert(rows, new), n)
  BY DEF Numbered, Upsert

LEMMA UpsertKeeps ==
  ASSUME NEW R, NEW rows, NEW new, Kept(R, rows),
         \A q \in rows, m \in new : m.id = q.id => m.state # "active"
  PROVE  Kept(R, Upsert(rows, new))
  <1> SUFFICES ASSUME NEW r \in R
               PROVE  \E q \in Upsert(rows, new) :
                        q.id = r.id /\ (r.state # "active" => q.state # "active")
    BY DEF Kept
  <1>1. PICK q \in rows : q.id = r.id /\ (r.state # "active" => q.state # "active")
    BY DEF Kept
  <1>2. CASE \E m \in new : m.id = q.id
    BY <1>1, <1>2 DEF Upsert
  <1>3. CASE \A m \in new : m.id # q.id
    BY <1>1, <1>3 DEF Upsert
  <1> QED
    BY <1>2, <1>3

LEMMA TableKeepsItself == \A R : Kept(R, R)
  BY DEF Kept

LEMMA NewestAreActive ==
  ASSUME NEW limit, NEW S \in Newest(limit)
  PROVE  S \subseteq Active(facts)
  BY DEF Newest

\* What Persist writes: the rows it closes and the fact it adds.
LEMMA WrittenRows ==
  ASSUME ShapeInv, IdsInv, NEW a \in Actors, NEW c \in Candidate
  PROVE  LET new == Closed(Previous(a, c)) \union {NewFact(a, c)}
         IN  /\ new \subseteq Fact
             /\ Numbered(new, issued + 1)
             /\ \A q \in draft, m \in new : m.id = q.id => m.state # "active"
  <1> DEFINE new == Closed(Previous(a, c)) \union {NewFact(a, c)}
  <1>1. op[a] \in Op /\ op[a].rows \subseteq Fact /\ op[a].time \in Nat
    BY DEF ShapeInv, Op
  <1>2. NewFact(a, c) \in Fact /\ NewFact(a, c).id = issued + 1
    BY <1>1, ClaimIsClaim DEF NewFact, Fact, ShapeInv
  <1>3. \A m \in Closed(Previous(a, c)) :
          /\ m \in Fact
          /\ m.state = "superseded"
          /\ \E r \in op[a].rows : m.id = r.id /\ m = [r EXCEPT !.state = "superseded"]
    BY <1>1 DEF Closed, Previous, Fact
  <1>4. issued \in Nat /\ \A r \in op[a].rows : r.id \in Nat /\ r.id <= issued
    BY <1>1 DEF ShapeInv, IdsInv, Numbered, Fact
  <1>5. \A m \in Closed(Previous(a, c)) : m.id \in Nat /\ m.id <= issued
    BY <1>3, <1>4
  <1>6. Numbered(new, issued + 1)
    <2>1. \A m \in new : m.id <= issued + 1
      BY <1>2, <1>4, <1>5
    <2>2. ASSUME NEW m \in new, NEW p \in new, m.id = p.id
          PROVE  m = p
      <3>1. CASE m \in Closed(Previous(a, c)) /\ p \in Closed(Previous(a, c))
        BY <1>3, <2>2, <3>1 DEF IdsInv, Numbered
      <3>2. CASE m = NewFact(a, c) \/ p = NewFact(a, c)
        BY <1>2, <1>4, <1>5, <2>2, <3>2
      <3> QED
        BY <3>1, <3>2
    <2> QED
      BY <2>1, <2>2 DEF Numbered
  <1>7. \A q \in draft : q.id \in Nat /\ q.id <= issued
    BY DEF ShapeInv, IdsInv, Numbered, Fact
  <1> QED
    BY <1>2, <1>3, <1>4, <1>6, <1>7

\* The operation after Persist has stored candidate c.
After(a, c) ==
  [op[a] EXCEPT
     !.todo = @ \ {c},
     !.known = (@ \ {r.claim : r \in Previous(a, c)}) \union {Claim(c)},
     !.rows = (@ \ Previous(a, c)) \union
                IF Key[Claim(c)] \in Functional THEN {NewFact(a, c)} ELSE {},
     !.proposed = @ \union {c}]

PersistsOne(a, c) ==
  /\ Claim(c) \notin op[a].known
  /\ draft' = IF op[a].mode = "preview" THEN draft
              ELSE Upsert(draft, Closed(Previous(a, c)) \union {NewFact(a, c)})
  /\ op' = [op EXCEPT ![a] = After(a, c)]

LEMMA PersistWritesOne ==
  ASSUME NEW a, Persist(a)
  PROVE  \E c \in First(op[a].todo) : PersistsOne(a, c)
  BY ZenonT(60) DEF Persist, PersistsOne, After

-----------------------------------------------------------------------------
(***************************************************************************)
(* Every step keeps the invariant.                                         *)
(***************************************************************************)
LEMMA ShapeNext ==
  ASSUME ShapeInv, LockInv, IdsInv, NEW a \in Actors, LedgerStep(a)
  PROVE  ShapeInv'
  <1> USE LedgerConstants DEF ShapeInv
  <1>0. op[a] \in Op /\ Idle \in Op
    BY IdleIsAnOp
  <1>a. /\ op[a].rows \subseteq Fact
        /\ op[a].todo \subseteq Candidate
        /\ op[a].known \subseteq Claims
        /\ op[a].proposed \subseteq Candidate
    BY <1>0 DEF Op
  <1>b. ASSUME NEW S \in SUBSET Episodes, Insert(S)
        PROVE  /\ now' \in Nat
               /\ episode' \in [Episodes -> {"absent", "visible", "hidden", "gone"}]
               /\ observed' \in [Episodes -> Nat]
    <2>1. Cardinality(S) \in Nat
      BY <1>b, FS_CardinalityType DEF Insert
    <2>2. now' \in Nat
      BY <1>b, <2>1 DEF Insert
    <2>3. PICK time \in [S -> now + 1..now'] :
            observed' = [e \in Episodes |-> IF e \in S THEN time[e] ELSE observed[e]]
      BY <1>b DEF Insert
    <2>4. \A e \in S : time[e] \in Nat
      BY <2>2, <2>3
    <2>5. observed' \in [Episodes -> Nat]
      BY <2>3, <2>4
    <2> QED
      BY <1>b, <2>2, <2>5 DEF Insert
  <1>1. ASSUME NEW e \in Episodes, Remember(a, e)
        PROVE  ShapeInv'
    <2>1. [Idle EXCEPT !.at = "embed", !.episode = e] \in Op
      BY <1>0 DEF Op, Step
    <2>2. op' \in [Actors -> Op]
      BY <1>1, <2>1 DEF Remember
    <2>3. /\ now' \in Nat
          /\ episode' \in [Episodes -> {"absent", "visible", "hidden", "gone"}]
          /\ observed' \in [Episodes -> Nat]
      BY <1>1, <1>b DEF Remember
    <2> QED
      BY <1>1, <2>2, <2>3 DEF Remember, factVars, clientVars, Idle
  <1>2. CASE Embed(a)
    BY <1>0, <1>2 DEF Embed, Done, At, factVars, clientVars, Idle
  <1>3. ASSUME NEW S \in SUBSET Episodes, IngestMarkdown(a, S)
        PROVE  ShapeInv'
    <2>3. /\ now' \in Nat
          /\ episode' \in [Episodes -> {"absent", "visible", "hidden", "gone"}]
          /\ observed' \in [Episodes -> Nat]
      BY <1>3, <1>b DEF IngestMarkdown
    <2> QED
      BY <1>3, <2>3 DEF IngestMarkdown, factVars, clientVars
  <1>4. ASSUME NEW e \in Episodes, Forget(a, e)
        PROVE  ShapeInv'
    <2>1. [Idle EXCEPT !.at = "select", !.episode = e] \in Op
      BY <1>0 DEF Op, Step
    <2>2. op' \in [Actors -> Op]
      BY <1>4, <2>1 DEF Forget
    <2> QED
      BY <1>4, <2>2 DEF Forget, Begins, factVars, clientVars, Idle
  <1>5. CASE SelectLinked(a)
    <2>1. PICK S \in Newest(ForgetLimit) :
            op' = [op EXCEPT ![a].at = "retract",
                             ![a].rows = {r \in S : r.source = op[a].episode}]
      BY <1>5 DEF SelectLinked
    <2>2. S \subseteq Fact
      BY NewestAreActive DEF Active
    <2>3. op' \in [Actors -> Op]
      BY <1>0, <2>1, <2>2 DEF Op, Step
    <2> QED
      BY <1>5, <2>1, <2>3 DEF SelectLinked, At, episodeVars, factVars, clientVars
  <1>6. CASE Retract(a)
    <2>1. PICK r \in op[a].rows :
            /\ facts' = Upsert(facts, {Retracted(r)})
            /\ op' = [op EXCEPT ![a].rows = @ \ {r}]
      BY <1>6 DEF Retract
    <2>2. Retracted(r) \in Fact
      BY <1>a, RetractedIsInactive
    <2>3. op' \in [Actors -> Op]
      BY <1>0, <2>1 DEF Op
    <2> QED
      BY <1>6, <2>1, <2>2, <2>3 DEF Retract, Upsert, episodeVars, clientVars
  <1>7. CASE ForgetEnds(a)
    BY <1>0, <1>7 DEF ForgetEnds, Done, At, episodeVars, factVars, Idle
  <1>8. ASSUME NEW e \in Episodes, Purge(a, e)
        PROVE  ShapeInv'
    <2>1. [Idle EXCEPT !.at = "evidence", !.episode = e] \in Op
      BY <1>0 DEF Op, Step
    <2>2. op' \in [Actors -> Op]
      BY <1>8, <2>1 DEF Purge
    <2> QED
      BY <1>8, <2>2 DEF Purge, Begins, episodeVars, clientVars, Idle
  <1>9. CASE PurgeEvidence(a) \/ PurgeEpisode(a)
    <2>1. PICK there \in {"episode", "embedding"} : op' = [op EXCEPT ![a].at = there]
      BY <1>9 DEF PurgeEvidence, PurgeEpisode, Goto
    <2>a. op[a].at \in {"evidence", "episode"}
      BY <1>9 DEF PurgeEvidence, PurgeEpisode, At
    <2>b. [op[a] EXCEPT !.at = there] \in Op
      BY <1>0, <2>1 DEF Op, Step
    <2>2. op' \in [Actors -> Op] /\ op'[a].episode \in Episodes
      <3>1. op'[a] = [op[a] EXCEPT !.at = there]
        BY <1>0, <2>1
      <3>2. op' \in [Actors -> Op]
        BY <1>0, <2>1, <2>b
      <3> QED
        BY <1>0, <2>a, <3>1, <3>2
    <2>3. \A b \in Actors \ {a} : op'[b] = op[b]
      BY <2>1
    <2>4. /\ episode' \in [Episodes -> {"absent", "visible", "hidden", "gone"}]
          /\ evidence' \subseteq Episodes
          /\ UNCHANGED <<observed, embedding, factVars, clientVars, now, faults>>
      BY <1>9 DEF PurgeEvidence, PurgeEpisode
    <2> QED
      BY <2>2, <2>3, <2>4 DEF factVars, clientVars
  <1>10. CASE PurgeEmbedding(a)
    BY <1>0, <1>10 DEF PurgeEmbedding, Done, At, factVars, Idle
  <1>11. CASE Consolidate(a) \/ ConsolidateAccepted(a)
    <2>1. PICK mode \in {"preview", "all", "accepted"}, todo \in SUBSET Candidate :
            Begin(a, mode, todo)
      <3>1. CASE Consolidate(a)
        <4>1. PICK S \in Recent, mode \in {"preview", "all"} :
                Begin(a, mode, {c \in Candidate : c[1] \in S})
          BY <3>1, ZenonT(60) DEF Consolidate
        <4> QED
          BY <4>1
      <3>2. CASE ConsolidateAccepted(a)
        BY <3>2 DEF ConsolidateAccepted
      <3> QED
        BY <1>11, <3>1, <3>2
    <2>2. now' \in Nat
      BY <2>1 DEF Begin, Begins
    <2>3. [Idle EXCEPT !.at = "query", !.mode = mode, !.time = now',
                       !.todo = todo] \in Op
      BY <1>0, <2>2 DEF Op, Step
    <2>4. op' \in [Actors -> Op]
      BY <2>1, <2>3 DEF Begin
    <2> QED
      BY <2>1, <2>2, <2>4 DEF Begin, episodeVars, factVars, clientVars, Idle
  <1>12. CASE QueryFacts(a)
    <2>1. PICK S, known, rows :
            /\ S \in Newest(FactLimit)
            /\ known = {r.claim : r \in S} /\ rows \subseteq S
            /\ op' = [op EXCEPT ![a].at = "extract", ![a].known = known,
                                ![a].rows = rows]
      BY <1>12 DEF QueryFacts
    <2>a. S \subseteq Fact
      BY <2>1, NewestAreActive DEF Active
    <2>2. rows \subseteq Fact
      BY <2>1, <2>a
    <2>b. \A r \in Fact : r.claim \in Claims
      BY DEF Fact
    <2>3. known \subseteq Claims
      BY <2>1, <2>a, <2>b
    <2>4. op' \in [Actors -> Op]
      BY <1>0, <2>1, <2>2, <2>3 DEF Op, Step
    <2>5. op'[a].at = "extract" /\ \A b \in Actors \ {a} : op'[b] = op[b]
      <3>1. op \in [Actors -> Op] /\ op[a] \in [at: Step, episode: Episodes \union {NoEpisode},
              time: Nat, mode: {"none", "preview", "all", "accepted"},
              todo: SUBSET Candidate, known: SUBSET Claims,
              rows: SUBSET Fact, proposed: SUBSET Candidate]
        BY <1>0 DEF Op
      <3> QED
        BY <2>1, <3>1
    <2> QED
      BY <1>12, <2>4, <2>5 DEF QueryFacts, episodeVars, factVars, clientVars
  <1>13. CASE BeginWrite(a)
    <2>1. op' = [op EXCEPT ![a].at = "write"]
      BY <1>13 DEF BeginWrite, Goto
    <2>2. op' \in [Actors -> Op]
      BY <1>0, <2>1 DEF Op, Step
    <2>3. op'[a].at = "write" /\ \A b \in Actors \ {a} : op'[b] = op[b]
      BY <2>1
    <2> QED
      BY <1>13, <2>2, <2>3 DEF BeginWrite, episodeVars, clientVars
  <1>14. CASE SkipKnown(a)
    <2>1. PICK c : op' = [op EXCEPT ![a].todo = @ \ {c}]
      BY <1>14 DEF SkipKnown
    <2>2. op' \in [Actors -> Op]
      BY <1>0, <2>1 DEF Op
    <2> QED
      BY <1>14, <2>1, <2>2 DEF SkipKnown, episodeVars, factVars, clientVars
  <1>15. CASE Persist(a)
    <2>1. PICK c \in First(op[a].todo) : PersistsOne(a, c)
      BY <1>15, PersistWritesOne
    <2>2. c \in Candidate
      BY <1>a, <2>1 DEF First
    <2>3. Closed(Previous(a, c)) \union {NewFact(a, c)} \subseteq Fact
      BY <2>2, WrittenRows
    <2>4. After(a, c) \in Op
      <3>1. After(a, c).todo \subseteq Candidate /\ After(a, c).proposed \subseteq Candidate
        BY <1>a, <2>2 DEF After
      <3>2. After(a, c).known \subseteq Claims
        BY <1>a, <2>2, ClaimIsClaim DEF After
      <3>3. After(a, c).rows \subseteq Fact
        BY <1>a, <2>3 DEF After
      <3> QED
        BY <1>0, <3>1, <3>2, <3>3 DEF After, Op
    <2>5. op' \in [Actors -> Op]
      BY <2>1, <2>4 DEF PersistsOne
    <2>a. op[a].at = "write"
      BY <1>15 DEF Persist, At
    <2>b. After(a, c).at = op[a].at
      BY DEF After
    <2>6. op'[a].at = "write" /\ \A b \in Actors \ {a} : op'[b] = op[b]
      BY <2>1, <2>a, <2>b DEF PersistsOne
    <2>c. issued' = issued + 1 /\ UNCHANGED <<episodeVars, facts, lock, clientVars, now, faults>>
      BY <1>15 DEF Persist
    <2>d. issued' \in Nat
      BY <2>c
    <2>7. draft' \subseteq Fact
      BY <2>1, <2>3 DEF PersistsOne, Upsert
    <2> QED
      BY <2>5, <2>6, <2>7, <2>c, <2>d DEF episodeVars, clientVars
  <1>16. CASE Commit(a) \/ Propose(a)
    <2>a. op' = [op EXCEPT ![a] = Idle]
      BY <1>16 DEF Commit, Propose, Done
    <2>1. /\ op' \in [Actors -> Op]
          /\ op'[a].at = "idle"
          /\ \A b \in Actors \ {a} : op'[b] = op[b]
      BY <1>0, <2>a DEF Idle
    <2>2. review' \subseteq Candidate
      BY <1>a, <1>16 DEF Commit, Propose, clientVars
    <2> QED
      BY <1>16, <2>1, <2>2 DEF Commit, Propose, episodeVars, factVars, clientVars
  <1>17. CASE Stop(a)
    <2>a. op' = [op EXCEPT ![a] = Idle]
      BY <1>17 DEF Stop, Done
    <2>1. /\ op' \in [Actors -> Op]
          /\ op'[a].at = "idle"
          /\ \A b \in Actors \ {a} : op'[b] = op[b]
      BY <1>0, <2>a DEF Idle
    <2>2. faults' \in Nat /\ lock' \in Actors \union {NoActor} /\ draft' \subseteq Fact
      BY <1>17 DEF Stop
    <2>3. UNCHANGED <<episodeVars, facts, issued, clientVars, now>>
      BY <1>17 DEF Stop
    <2> QED
      BY <2>1, <2>2, <2>3 DEF episodeVars, clientVars
  <1> QED
    BY <1>1, <1>2, <1>3, <1>4, <1>5, <1>6, <1>7, <1>8, <1>9, <1>10, <1>11, <1>12,
       <1>13, <1>14, <1>15, <1>16, <1>17 DEF LedgerStep

LEMMA OthersStay ==
  ASSUME op \in [Actors -> Op], NEW a \in Actors, LedgerStep(a)
  PROVE  \A b \in Actors \ {a} : op'[b] = op[b]
  <1>1. CASE \/ Embed(a) \/ ForgetEnds(a) \/ PurgeEvidence(a) \/ PurgeEpisode(a)
             \/ PurgeEmbedding(a) \/ Commit(a) \/ Propose(a) \/ Stop(a) \/ BeginWrite(a)
    BY <1>1 DEF Embed, ForgetEnds, PurgeEvidence, PurgeEpisode, PurgeEmbedding,
                Commit, Propose, Stop, BeginWrite, Done, Goto
  <1>2. CASE \E e \in Episodes : Remember(a, e) \/ Forget(a, e) \/ Purge(a, e)
    BY <1>2 DEF Remember, Forget, Purge
  <1>3. CASE \E S \in SUBSET Episodes : IngestMarkdown(a, S)
    BY <1>3 DEF IngestMarkdown
  <1>4. CASE SelectLinked(a) \/ Retract(a) \/ SkipKnown(a)
    BY <1>4 DEF SelectLinked, Retract, SkipKnown
  <1>5. CASE Consolidate(a) \/ ConsolidateAccepted(a)
    BY <1>5 DEF Consolidate, ConsolidateAccepted, Begin
  <1>6. CASE QueryFacts(a)
    <2>1. PICK known, rows :
            op' = [op EXCEPT ![a].at = "extract", ![a].known = known, ![a].rows = rows]
      BY <1>6 DEF QueryFacts
    <2> QED
      BY <2>1
  <1>7. CASE Persist(a)
    BY <1>7, PersistWritesOne DEF PersistsOne
  <1> QED
    BY <1>1, <1>2, <1>3, <1>4, <1>5, <1>6, <1>7 DEF LedgerStep

\* The statements outside persistFacts run in no transaction of the actor.
LEMMA OutsideSteps ==
  ASSUME ShapeInv, NEW a \in Actors,
         \/ \E e \in Episodes : Remember(a, e) \/ Forget(a, e) \/ Purge(a, e)
         \/ \E S \in SUBSET Episodes : IngestMarkdown(a, S)
         \/ Embed(a) \/ SelectLinked(a) \/ Retract(a) \/ ForgetEnds(a)
         \/ PurgeEvidence(a) \/ PurgeEpisode(a) \/ PurgeEmbedding(a)
         \/ Consolidate(a) \/ ConsolidateAccepted(a) \/ QueryFacts(a)
  PROVE  /\ ~Writes(a) /\ ~Writes(a)' /\ UNCHANGED <<lock, draft>>
         /\ lock = NoActor \/ UNCHANGED facts
  <1>0. op \in [Actors -> Op] /\ op[a] \in Op
    BY DEF ShapeInv
  <1>1. CASE Embed(a) \/ ForgetEnds(a) \/ PurgeEmbedding(a)
    <2>1. op' = [op EXCEPT ![a] = Idle] /\ op[a].at # "write"
      BY <1>1 DEF Embed, ForgetEnds, PurgeEmbedding, Done, At
    <2>2. op'[a].at = "idle"
      BY <1>0, <2>1 DEF Idle
    <2> QED
      BY <1>1, <2>1, <2>2 DEF Embed, ForgetEnds, PurgeEmbedding, Writes, At, factVars
  <1>2. CASE PurgeEvidence(a) \/ PurgeEpisode(a)
    <2>1. op[a].at # "write" /\ op'[a].at # "write"
      BY <1>0, <1>2 DEF PurgeEvidence, PurgeEpisode, Goto, At, Op
    <2> QED
      BY <1>2, <2>1 DEF PurgeEvidence, PurgeEpisode, Writes, At, factVars
  <1>3. ASSUME NEW e \in Episodes, Remember(a, e) \/ Forget(a, e) \/ Purge(a, e)
        PROVE  /\ ~Writes(a) /\ ~Writes(a)' /\ UNCHANGED <<lock, draft>>
               /\ lock = NoActor
    <2>1. PICK there \in {"embed", "select", "evidence"} :
            op' = [op EXCEPT ![a] = [Idle EXCEPT !.at = there, !.episode = e]]
      BY <1>3 DEF Remember, Forget, Purge
    <2>2. [Idle EXCEPT !.at = there, !.episode = e].at = there
      BY DEF Idle
    <2>3. op'[a].at = there
      BY <1>0, <2>1, <2>2
    <2>4. op[a].at = "idle" /\ UNCHANGED <<lock, draft>> /\ lock = NoActor
      BY <1>3 DEF Remember, Forget, Purge, Begins, At, Free, factVars
    <2> QED
      BY <2>3, <2>4 DEF Writes, At
  <1>4. CASE \E S \in SUBSET Episodes : IngestMarkdown(a, S)
    BY <1>4 DEF IngestMarkdown, Writes, At, factVars
  <1>5. CASE SelectLinked(a)
    <2>1. PICK rows : op' = [op EXCEPT ![a].at = "retract", ![a].rows = rows]
      BY <1>5 DEF SelectLinked
    <2>2. op[a].at = "select" /\ op'[a].at = "retract"
      BY <1>0, <1>5, <2>1 DEF SelectLinked, At, Op
    <2> QED
      BY <1>5, <2>2 DEF SelectLinked, Writes, At, factVars
  <1>6. CASE Retract(a)
    <2>1. PICK rows : op' = [op EXCEPT ![a].rows = rows]
      BY <1>6 DEF Retract
    <2>2. op[a].at = "retract" /\ op'[a].at = "retract"
      BY <1>0, <1>6, <2>1 DEF Retract, At, Op
    <2> QED
      BY <1>6, <2>2 DEF Retract, Writes, At, Free
  <1>7. CASE Consolidate(a) \/ ConsolidateAccepted(a)
    <2>1. PICK mode, todo : Begin(a, mode, todo)
      BY <1>7 DEF Consolidate, ConsolidateAccepted
    <2>2. [Idle EXCEPT !.at = "query", !.mode = mode, !.time = now',
                       !.todo = todo].at = "query"
      BY DEF Idle
    <2>3. op[a].at = "idle" /\ op'[a].at = "query"
      BY <1>0, <2>1, <2>2 DEF Begin, Begins, At
    <2> QED
      BY <2>1, <2>3 DEF Begin, Writes, At, factVars
  <1>8. CASE QueryFacts(a)
    <2>1. PICK known, rows :
            op' = [op EXCEPT ![a].at = "extract", ![a].known = known, ![a].rows = rows]
      BY <1>8 DEF QueryFacts
    <2>2. op[a].at = "query" /\ op'[a].at = "extract"
      BY <1>0, <1>8, <2>1 DEF QueryFacts, At, Op
    <2> QED
      BY <1>8, <2>2 DEF QueryFacts, Writes, At, factVars
  <1> QED
    BY <1>1, <1>2, <1>3, <1>4, <1>5, <1>6, <1>7, <1>8

\* What a step does to the transaction: it keeps out of it, opens it, writes
\* in it, or ends it.
LEMMA LockSteps ==
  ASSUME ShapeInv, LockInv, NEW a \in Actors, LedgerStep(a)
  PROVE  \/ /\ UNCHANGED <<lock, draft>>
            /\ Writes(a)' <=> Writes(a)
            /\ lock = NoActor \/ UNCHANGED facts
         \/ lock' = a /\ draft' = facts' /\ Writes(a)' /\ lock = NoActor
         \/ /\ Writes(a) /\ Writes(a)' /\ UNCHANGED <<lock, facts>>
            /\ \E c \in Candidate :
                 draft' = Upsert(draft, Closed(Previous(a, c)) \union {NewFact(a, c)})
         \/ lock = a /\ lock' = NoActor /\ ~Writes(a)'
  <1>0. op \in [Actors -> Op] /\ op[a] \in Op
    BY DEF ShapeInv
  <1>1. CASE Persist(a)
    <2>1. PICK c \in First(op[a].todo) : PersistsOne(a, c)
      BY <1>1, PersistWritesOne
    <2>2. c \in Candidate
      BY <1>0, <2>1 DEF First, Op
    <2>3. op'[a].at = op[a].at /\ op'[a].mode = op[a].mode
      <3>1. After(a, c).at = op[a].at /\ After(a, c).mode = op[a].mode
        BY DEF After
      <3> QED
        BY <1>0, <2>1, <3>1 DEF PersistsOne
    <2>4. (Writes(a)' <=> Writes(a)) /\ UNCHANGED <<lock, facts>>
      BY <1>1, <2>3 DEF Persist, Writes, At
    <2> QED
      BY <1>1, <2>1, <2>2, <2>4 DEF PersistsOne, Writes, Persist, At
  <1>2. CASE BeginWrite(a)
    <2>1. op'[a].at = "write" /\ op'[a].mode = op[a].mode /\ op[a].at = "extract"
      BY <1>0, <1>2 DEF BeginWrite, Goto, At, Op
    <2> QED
      BY <1>2, <2>1 DEF BeginWrite, Writes, At, Free
  <1>3. CASE SkipKnown(a)
    <2>1. PICK todo : op' = [op EXCEPT ![a].todo = todo]
      BY <1>3 DEF SkipKnown
    <2>2. op'[a].at = op[a].at /\ op'[a].mode = op[a].mode
      BY <1>0, <2>1 DEF Op
    <2> QED
      BY <1>3, <2>2 DEF SkipKnown, Writes, At, factVars
  <1>4. CASE Commit(a) \/ Propose(a) \/ Stop(a)
    <2>1. op'[a].at = "idle"
      BY <1>0, <1>4 DEF Commit, Propose, Stop, Done, Idle
    <2> QED
      BY <1>4, <2>1 DEF Commit, Propose, Stop, Writes, At, factVars, LockInv
  <1> QED
    BY <1>1, <1>2, <1>3, <1>4, OutsideSteps DEF LedgerStep

LEMMA LockNext ==
  ASSUME ShapeInv, LockInv, IdsInv, NEW a \in Actors, LedgerStep(a)
  PROVE  LockInv'
  <1> USE LedgerConstants
  <1>1. \A b \in Actors \ {a} : Writes(b)' <=> Writes(b)
    BY OthersStay DEF Writes, At, ShapeInv
  <1>2. CASE /\ UNCHANGED <<lock, draft>>
             /\ Writes(a)' <=> Writes(a)
             /\ lock = NoActor \/ UNCHANGED facts
    BY <1>1, <1>2 DEF LockInv, Kept
  <1>3. CASE lock' = a /\ draft' = facts' /\ Writes(a)' /\ lock = NoActor
    BY <1>1, <1>3, TableKeepsItself DEF LockInv
  <1>4. CASE /\ Writes(a) /\ Writes(a)' /\ UNCHANGED <<lock, facts>>
             /\ \E c \in Candidate :
                  draft' = Upsert(draft, Closed(Previous(a, c)) \union {NewFact(a, c)})
    <2>1. PICK c \in Candidate :
            draft' = Upsert(draft, Closed(Previous(a, c)) \union {NewFact(a, c)})
      BY <1>4
    <2>2. Kept(facts, draft)
      BY <1>4 DEF LockInv
    <2>3. Kept(facts, draft')
      BY <2>1, <2>2, WrittenRows, UpsertKeeps
    <2> QED
      BY <1>1, <1>4, <2>3 DEF LockInv
  <1>5. CASE lock = a /\ lock' = NoActor /\ ~Writes(a)'
    BY <1>1, <1>5 DEF LockInv
  <1> QED
    BY <1>2, <1>3, <1>4, <1>5, LockSteps

LEMMA SubsetNumbered ==
  ASSUME NEW n \in Nat, NEW m \in Nat, n <= m, NEW Q \in SUBSET Fact,
         Numbered(Q, n), NEW R \in SUBSET Q
  PROVE  Numbered(R, m)
  <1>1. \A r \in Q : r.id \in Nat /\ r.id <= n
    BY DEF Numbered, Fact
  <1> QED
    BY <1>1 DEF Numbered

\* The rows an actor holds were in the table, or it has just made them.
LEMMA RowsSteps ==
  ASSUME ShapeInv, NEW a \in Actors, LedgerStep(a)
  PROVE  \/ op'[a].rows = {} /\ ~Persist(a)
         \/ op'[a].rows \subseteq op[a].rows /\ ~Persist(a)
         \/ op'[a].rows \subseteq facts /\ ~Persist(a) /\ UNCHANGED facts
         \/ \E c \in First(op[a].todo) :
              /\ Persist(a)
              /\ PersistsOne(a, c)
              /\ op'[a].rows \subseteq op[a].rows \union {NewFact(a, c)}
  <1>0. op \in [Actors -> Op] /\ op[a] \in Op /\ Idle.rows = {}
    BY DEF ShapeInv, Idle
  <1>1. CASE Persist(a)
    <2>1. PICK c \in First(op[a].todo) : PersistsOne(a, c)
      BY <1>1, PersistWritesOne
    <2>2. After(a, c).rows \subseteq op[a].rows \union {NewFact(a, c)}
      BY <1>0 DEF After, Op
    <2>3. op'[a] = After(a, c)
      BY <1>0, <2>1 DEF PersistsOne
    <2> QED
      BY <1>1, <2>1, <2>2, <2>3
  <1> SUFFICES ASSUME ~Persist(a)
               PROVE  \/ op'[a].rows = {}
                      \/ op'[a].rows \subseteq op[a].rows
                      \/ op'[a].rows \subseteq facts /\ UNCHANGED facts
    BY <1>1
  <1>2. CASE Embed(a) \/ ForgetEnds(a) \/ PurgeEmbedding(a) \/ Commit(a) \/ Propose(a) \/ Stop(a)
    <2>1. op'[a] = Idle
      BY <1>0, <1>2 DEF Embed, ForgetEnds, PurgeEmbedding, Commit, Propose, Stop, Done
    <2> QED
      BY <1>0, <2>1
  <1>3. CASE PurgeEvidence(a) \/ PurgeEpisode(a) \/ BeginWrite(a)
    <2>1. PICK there : op' = [op EXCEPT ![a].at = there]
      BY <1>3 DEF PurgeEvidence, PurgeEpisode, BeginWrite, Goto
    <2> QED
      BY <1>0, <2>1 DEF Op
  <1>4. CASE SkipKnown(a)
    <2>1. PICK todo : op' = [op EXCEPT ![a].todo = todo]
      BY <1>4 DEF SkipKnown
    <2> QED
      BY <1>0, <2>1 DEF Op
  <1>5. ASSUME NEW e \in Episodes, Remember(a, e) \/ Forget(a, e) \/ Purge(a, e)
        PROVE  op'[a].rows = {}
    <2>1. PICK there : op' = [op EXCEPT ![a] = [Idle EXCEPT !.at = there, !.episode = e]]
      BY <1>5 DEF Remember, Forget, Purge
    <2>2. [Idle EXCEPT !.at = there, !.episode = e].rows = {}
      BY DEF Idle
    <2> QED
      BY <1>0, <2>1, <2>2
  <1>6. CASE Consolidate(a) \/ ConsolidateAccepted(a)
    <2>1. PICK mode, todo : Begin(a, mode, todo)
      BY <1>6 DEF Consolidate, ConsolidateAccepted
    <2>2. [Idle EXCEPT !.at = "query", !.mode = mode, !.time = now',
                       !.todo = todo].rows = {}
      BY DEF Idle
    <2> QED
      BY <1>0, <2>1, <2>2 DEF Begin
  <1>7. CASE \E S \in SUBSET Episodes : IngestMarkdown(a, S)
    BY <1>7 DEF IngestMarkdown
  <1>8. CASE SelectLinked(a)
    <2>1. PICK S, rows :
            /\ S \in Newest(ForgetLimit)
            /\ rows \subseteq S /\ op' = [op EXCEPT ![a].at = "retract", ![a].rows = rows]
      BY <1>8 DEF SelectLinked
    <2>2. op'[a].rows = rows
      BY <1>0, <2>1 DEF Op
    <2>3. rows \subseteq facts
      BY <2>1, NewestAreActive DEF Active
    <2> QED
      BY <1>8, <2>2, <2>3 DEF SelectLinked, factVars
  <1>9. CASE QueryFacts(a)
    <2>1. PICK S, rows, known :
            /\ S \in Newest(FactLimit)
            /\ rows \subseteq S /\ op' = [op EXCEPT ![a].at = "extract", ![a].known = known, ![a].rows = rows]
      BY <1>9 DEF QueryFacts
    <2>2. op'[a].rows = rows
      BY <1>0, <2>1 DEF Op
    <2>3. rows \subseteq facts
      BY <2>1, NewestAreActive DEF Active
    <2> QED
      BY <1>9, <2>2, <2>3 DEF QueryFacts, factVars
  <1>10. CASE Retract(a)
    <2>1. PICK r : op' = [op EXCEPT ![a].rows = @ \ {r}]
      BY <1>10 DEF Retract
    <2>2. op'[a].rows = op[a].rows \ {r}
      BY <1>0, <2>1 DEF Op
    <2> QED
      BY <2>2
  <1> QED
    BY <1>2, <1>3, <1>4, <1>5, <1>6, <1>7, <1>8, <1>9, <1>10 DEF LedgerStep

\* What a step does to the facts table.
LEMMA FactsSteps ==
  ASSUME ShapeInv, NEW a \in Actors, LedgerStep(a)
  PROVE  \/ UNCHANGED facts
         \/ \E r \in op[a].rows : Retract(a) /\ facts' = Upsert(facts, {Retracted(r)})
         \/ \E e \in Episodes : Purge(a, e) /\ facts' = {r \in facts : r.source # e}
         \/ Commit(a) /\ facts' = draft
  BY DEF LedgerStep, Remember, Embed, IngestMarkdown, Forget, SelectLinked, Retract,
         ForgetEnds, Purge, PurgeEvidence, PurgeEpisode, PurgeEmbedding, Consolidate,
         ConsolidateAccepted, Begin, QueryFacts, BeginWrite, SkipKnown, Persist,
         Commit, Propose, Stop, factVars

LEMMA IdsNext ==
  ASSUME ShapeInv, LockInv, IdsInv, NEW a \in Actors, LedgerStep(a)
  PROVE  IdsInv'
  <1>0. /\ op \in [Actors -> Op] /\ issued \in Nat
        /\ facts \subseteq Fact /\ draft \subseteq Fact
        /\ \A b \in Actors : op[b].rows \subseteq Fact
    BY DEF ShapeInv, Op
  <1>1. issued' \in Nat /\ issued <= issued' /\ (~Persist(a) => issued' = issued)
    <2>1. Persist(a) \/ issued' = issued
      BY DEF LedgerStep, Remember, Embed, IngestMarkdown, Forget, SelectLinked,
         Retract, ForgetEnds, Purge, PurgeEvidence, PurgeEpisode, PurgeEmbedding,
         Consolidate, ConsolidateAccepted, Begin, QueryFacts, BeginWrite, SkipKnown,
         Commit, Propose, Stop, factVars
    <2>2. Persist(a) => issued' = issued + 1
      BY DEF Persist
    <2> QED
      BY <1>0, <2>1, <2>2
  <1>2. Numbered(facts', issued')
    <2>1. CASE UNCHANGED facts
      BY <1>0, <1>1, <2>1, SubsetNumbered DEF IdsInv
    <2>2. ASSUME NEW r \in op[a].rows, Retract(a), facts' = Upsert(facts, {Retracted(r)})
          PROVE  Numbered(facts', issued')
      <3>1. r.id <= issued /\ Retracted(r).id = r.id
        BY <1>0, RetractedIsInactive DEF IdsInv, Numbered
      <3>2. Numbered({Retracted(r)}, issued)
        BY <3>1 DEF Numbered
      <3>3. Numbered(facts', issued)
        BY <2>2, <3>2, UpsertNumbered DEF IdsInv
      <3>4. issued' = issued
        BY <2>2 DEF Retract
      <3> QED
        BY <3>3, <3>4
    <2>3. ASSUME NEW e \in Episodes, facts' = {r \in facts : r.source # e}
          PROVE  Numbered(facts', issued')
      BY <1>0, <1>1, <2>3, SubsetNumbered DEF IdsInv
    <2>4. CASE facts' = draft
      BY <1>0, <1>1, <2>4, SubsetNumbered DEF IdsInv
    <2> QED
      BY <2>1, <2>2, <2>3, <2>4, FactsSteps
  <1>3. ASSUME NEW c \in First(op[a].todo), Persist(a), PersistsOne(a, c)
        PROVE  /\ issued' = issued + 1
               /\ Numbered(op[a].rows \union {NewFact(a, c)}, issued')
               /\ Numbered(draft', issued')
               /\ op[a].rows \union {NewFact(a, c)} \subseteq Fact
    <2>1. c \in Candidate
      BY <1>0 DEF First, Op
    <2>2. issued' = issued + 1
      BY <1>3 DEF Persist
    <2>3. NewFact(a, c).id = issued' /\ NewFact(a, c) \in Fact
      BY <2>1, <2>2, WrittenRows DEF NewFact
    <2>4. \A r \in op[a].rows : r.id \in Nat /\ r.id <= issued
      BY <1>0 DEF IdsInv, Numbered, Fact
    <2>5. Numbered(op[a].rows \union {NewFact(a, c)}, issued')
      BY <1>0, <2>2, <2>3, <2>4 DEF IdsInv, Numbered
    <2>6. Numbered(draft, issued')
      BY <1>0, <1>1, SubsetNumbered DEF IdsInv
    <2>7. Numbered(Closed(Previous(a, c)) \union {NewFact(a, c)}, issued')
      BY <2>1, <2>2, WrittenRows
    <2>8. Numbered(draft', issued')
      BY <1>3, <2>6, <2>7, UpsertNumbered DEF PersistsOne
    <2> QED
      BY <1>0, <2>2, <2>3, <2>5, <2>8
  <1>4. Numbered(draft', issued')
    <2>1. CASE Persist(a)
      BY <1>3, <2>1, PersistWritesOne
    <2>2. CASE BeginWrite(a)
      BY <1>0, <1>1, <2>2, SubsetNumbered DEF IdsInv, BeginWrite
    <2>3. CASE draft' = draft \/ draft' = {}
      BY <1>0, <1>1, <2>3, SubsetNumbered DEF IdsInv
    <2>4. CASE SkipKnown(a) \/ Commit(a) \/ Propose(a) \/ Stop(a)
      BY <2>3, <2>4 DEF SkipKnown, Commit, Propose, Stop, factVars
    <2> QED
      BY <2>1, <2>2, <2>3, <2>4, OutsideSteps DEF LedgerStep
  <1>5. Numbered(op'[a].rows, issued')
    <2>1. CASE op'[a].rows \subseteq op[a].rows
      BY <1>0, <1>1, <2>1, SubsetNumbered DEF IdsInv
    <2>2. CASE op'[a].rows \subseteq facts
      BY <1>0, <1>1, <2>2, SubsetNumbered DEF IdsInv
    <2>3. ASSUME NEW c \in First(op[a].todo), Persist(a), PersistsOne(a, c),
                 op'[a].rows \subseteq op[a].rows \union {NewFact(a, c)}
          PROVE  Numbered(op'[a].rows, issued')
      <3> DEFINE Q == op[a].rows \union {NewFact(a, c)}
      <3>1. Numbered(Q, issued') /\ Q \in SUBSET Fact /\ op'[a].rows \in SUBSET Q
        BY <1>3, <2>3
      <3>2. issued' <= issued'
        BY <1>1
      <3> HIDE DEF Q
      <3> QED
        BY <1>1, <3>1, <3>2, SubsetNumbered
    <2>4. CASE op'[a].rows = {}
      BY <2>4 DEF Numbered
    <2> QED
      BY <2>1, <2>2, <2>3, <2>4, RowsSteps
  <1>6. ASSUME NEW b \in Actors \ {a}
        PROVE  Numbered(op'[b].rows, issued')
    <2>1. op'[b].rows = op[b].rows
      BY <1>0, OthersStay
    <2> QED
      BY <1>0, <1>1, <2>1, SubsetNumbered DEF IdsInv
  <1> QED
    BY <1>2, <1>4, <1>5, <1>6 DEF IdsInv

-----------------------------------------------------------------------------
LEMMA LedgerInvHolds == LedgerSpec => []LedgerInv
  <1>1. LedgerInit => LedgerInv
    <2> SUFFICES ASSUME LedgerInit
                 PROVE  LedgerInv
      OBVIOUS
    <2>1. ShapeInv
      BY LedgerConstants, IdleIsAnOp DEF LedgerInit, ShapeInv, Idle
    <2>2. LockInv
      BY LedgerConstants DEF LedgerInit, LockInv, Writes, At, Idle
    <2>3. IdsInv
      BY DEF LedgerInit, IdsInv, Numbered, Idle
    <2> QED
      BY <2>1, <2>2, <2>3 DEF LedgerInv
  <1>2. LedgerInv /\ [LedgerNext]_ledgerVars => LedgerInv'
    <2> SUFFICES ASSUME LedgerInv, [LedgerNext]_ledgerVars
                 PROVE  LedgerInv'
      OBVIOUS
    <2>1. ASSUME NEW a \in Actors, LedgerStep(a)
          PROVE  LedgerInv'
      BY <2>1, ShapeNext, LockNext, IdsNext DEF LedgerInv
    <2>2. CASE UNCHANGED ledgerVars
      BY <2>2 DEF ledgerVars, episodeVars, factVars, clientVars, LedgerInv, ShapeInv,
                  LockInv, IdsInv, Writes, At
    <2> QED
      BY <2>1, <2>2 DEF LedgerNext
  <1> QED
    BY <1>1, <1>2, PTL DEF LedgerSpec

\* The tables and the operations have the shape the code gives them, ids are
\* unique, and only a writing consolidation is inside the transaction.
THEOREM LedgerTypeCorrect == LedgerSpec => []LedgerTypeOK
  <1>1. LedgerInv => LedgerTypeOK
    BY DEF LedgerInv, ShapeInv, LockInv, IdsInv, Numbered, Writes, LedgerTypeOK
  <1> QED
    BY <1>1, LedgerInvHolds, PTL

\* However operations overlap and fail, a fact once inactive stays inactive,
\* and no row disappears but by a purge of its source.
THEOREM HistoryIsKeptCorrect == LedgerSpec => HistoryIsKept
  <1> DEFINE Keeps == \A r \in facts :
                        \/ \E q \in facts' : /\ q.id = r.id
                                             /\ r.state # "active" => q.state # "active"
                        \/ \E a \in Actors : Purge(a, r.source)
  <1>1. LedgerInv /\ [LedgerNext]_ledgerVars => [Keeps]_ledgerVars
    <2> SUFFICES ASSUME LedgerInv, NEW a \in Actors, LedgerStep(a)
                 PROVE  Keeps
      BY DEF LedgerNext
    <2>1. CASE Kept(facts, facts')
      BY <2>1 DEF Kept
    <2>2. ASSUME NEW r \in op[a].rows, facts' = Upsert(facts, {Retracted(r)})
          PROVE  Kept(facts, facts')
      <3>1. Retracted(r).state # "active"
        BY RetractedIsInactive DEF LedgerInv, ShapeInv, Op
      <3> QED
        BY <2>2, <3>1, TableKeepsItself, UpsertKeeps
    <2>3. ASSUME NEW e \in Episodes, Purge(a, e), facts' = {r \in facts : r.source # e}
          PROVE  Keeps
      BY <2>3
    <2>4. CASE Commit(a) /\ facts' = draft
      <3>1. lock # NoActor
        BY <2>4, LedgerConstants DEF Commit
      <3>2. Kept(facts, facts')
        BY <2>4, <3>1 DEF LedgerInv, LockInv
      <3> QED
        BY <2>1, <3>2
    <2> QED
      BY <2>1, <2>2, <2>3, <2>4, FactsSteps, TableKeepsItself DEF LedgerInv
  <1> QED
    BY <1>1, LedgerInvHolds, PTL DEF LedgerSpec, HistoryIsKept

-----------------------------------------------------------------------------
(***************************************************************************)
(* One process at a time.                                                  *)
(***************************************************************************)
Alone == \A a, b \in Actors : a = b

\* The queries of consolidate and forget return every active fact.
Roomy ==
  /\ Cardinality(Active(facts)) <= FactLimit
  /\ Cardinality(Active(facts)) <= ForgetLimit

\* The facts table as the actor's operation will leave it if it ends now.
Table(a) == IF Writes(a) THEN draft ELSE facts

Stated(R) == {r.claim : r \in Active(R)}
Single(R) == {r \in Active(R) : Key[r.claim] \in Functional}

Agreeing(R) ==
  \A r, q \in Active(R) :
    r # q => /\ r.claim # q.claim
             /\ Key[r.claim] = Key[q.claim] => Key[r.claim] \notin Functional

Rivals(c, d) == c # d /\ Key[c] = Key[d] /\ Key[c] \in Functional

Frozen(R, D) == \A r \in R : r.state # "active" => r \in D

\* A claim of R is one of D, or another on its functional key is.
Displaced(R, D) ==
  \A c \in Stated(R) : c \in Stated(D) \/ \E d \in Stated(D) : Rivals(c, d)

\* forget holds all the active rows of its episode.
RetractInv(a) ==
  At(a, "retract") =>
    op[a].rows = {r \in Active(facts) : r.source = op[a].episode}

\* factsBySpo and functionalBySp mirror the table they will be written to.
MapsInv(a) ==
  At(a, "extract") \/ Writes(a) =>
    op[a].known = Stated(Table(a)) /\ op[a].rows = Single(Table(a))

DraftInv(a) ==
  Writes(a) => Agreeing(draft) /\ Frozen(facts, draft) /\ Displaced(facts, draft)

SoloInv ==
  /\ Agreeing(facts)
  /\ \A a \in Actors : RetractInv(a) /\ MapsInv(a) /\ DraftInv(a)

LEMMA RoomyReadsAll ==
  ASSUME Roomy
  PROVE  Newest(FactLimit) = {Active(facts)} /\ Newest(ForgetLimit) = {Active(facts)}
  BY DEF Roomy, Newest

LEMMA SubsetAgrees ==
  ASSUME NEW R, NEW Q \in SUBSET R, Agreeing(R)
  PROVE  Agreeing(Q)
  BY DEF Agreeing, Active

\* Retracting an active row takes it out of the active ones and no other.
LEMMA RetractRow ==
  ASSUME NEW R \in SUBSET Fact, NEW n, Numbered(R, n), NEW r \in Active(R)
  PROVE  /\ Active(Upsert(R, {Retracted(r)})) = Active(R) \ {r}
         /\ Frozen(R, Upsert(R, {Retracted(r)}))
  <1>1. r \in R /\ r \in Fact /\ r.state = "active"
    BY DEF Active
  <1>2. Retracted(r).id = r.id /\ Retracted(r).state # "active"
    BY <1>1, RetractedIsInactive
  <1>3. \A q \in R : q.id = r.id <=> q = r
    BY <1>1 DEF Numbered
  <1> QED
    BY <1>1, <1>2, <1>3 DEF Active, Upsert, Frozen

\* Storing a new claim with the maps in step with the table: what becomes of
\* the table, of its active rows, and of the two maps.
LEMMA PersistRow ==
  ASSUME ShapeInv, IdsInv, NEW a \in Actors, NEW c \in Candidate,
         Agreeing(draft), Claim(c) \notin Stated(draft),
         op[a].rows = Single(draft), op[a].known = Stated(draft)
  PROVE  LET new == Upsert(draft, Closed(Previous(a, c)) \union {NewFact(a, c)})
         IN  /\ Active(new) = (Active(draft) \ Previous(a, c)) \union {NewFact(a, c)}
             /\ Agreeing(new)
             /\ Frozen(draft, new)
             /\ Displaced(draft, new)
             /\ After(a, c).known = Stated(new)
             /\ After(a, c).rows = Single(new)
  <1> DEFINE more == Closed(Previous(a, c)) \union {NewFact(a, c)}
             new == Upsert(draft, more)
             key == Key[Claim(c)]
  <1>1. /\ draft \subseteq Fact /\ issued \in Nat /\ op[a] \in Op
        /\ Numbered(draft, issued)
    BY DEF ShapeInv, IdsInv
  <1>2. /\ NewFact(a, c).id = issued + 1
        /\ NewFact(a, c).state = "active"
        /\ NewFact(a, c).claim = Claim(c)
    BY DEF NewFact
  <1>3. Previous(a, c) = {r \in Active(draft) : Key[r.claim] = key /\ key \in Functional}
    BY DEF Previous, Single
  <1>4. \A q \in draft : q \in Fact /\ q.id \in Nat /\ q.id <= issued
    BY <1>1 DEF Numbered, Fact
  <1>5. \A m \in Closed(Previous(a, c)) :
          m.state = "superseded" /\ \E r \in Previous(a, c) : m.id = r.id
    BY <1>3, <1>4 DEF Closed, Active, Fact
  <1>6. ASSUME NEW r \in Previous(a, c)
        PROVE  \E m \in Closed(Previous(a, c)) : m.id = r.id
    <2>1. [r EXCEPT !.state = "superseded"].id = r.id
      BY <1>3, <1>4 DEF Active, Fact
    <2> QED
      BY <2>1 DEF Closed
  <1>7. \A q \in draft : (\E m \in more : m.id = q.id) <=> q \in Previous(a, c)
    BY <1>1, <1>2, <1>3, <1>4, <1>5, <1>6 DEF Numbered, Active
  <1>8. new = (draft \ Previous(a, c)) \union more
    BY <1>7 DEF Upsert
  <1>9. Active(more) = {NewFact(a, c)}
    BY <1>2, <1>5 DEF Active
  <1>10. Active(new) = (Active(draft) \ Previous(a, c)) \union {NewFact(a, c)}
    BY <1>8, <1>9 DEF Active
  <1>11. Agreeing(new)
    <2> SUFFICES ASSUME NEW r \in Active(new), NEW q \in Active(new), r # q
                 PROVE  /\ r.claim # q.claim
                        /\ Key[r.claim] = Key[q.claim] => Key[r.claim] \notin Functional
      BY DEF Agreeing
    <2>1. CASE r \in Active(draft) /\ q \in Active(draft)
      BY <2>1 DEF Agreeing
    <2>2. ASSUME NEW p \in Active(draft) \ Previous(a, c)
          PROVE  p.claim # Claim(c) /\ (Key[p.claim] = key => key \notin Functional)
      BY <1>3 DEF Stated
    <2> QED
      BY <1>2, <1>10, <2>1, <2>2
  <1>12. Frozen(draft, new)
    BY <1>3, <1>8 DEF Frozen, Active
  <1>13. \A p \in Previous(a, c), r \in Active(draft) : p.claim = r.claim => p = r
    BY <1>3 DEF Agreeing
  <1>14. Stated(new) = (Stated(draft) \ {r.claim : r \in Previous(a, c)}) \union {Claim(c)}
    <2>1. ASSUME NEW d \in Stated(new)
          PROVE  d \in (Stated(draft) \ {r.claim : r \in Previous(a, c)}) \union {Claim(c)}
      <3>1. PICK r \in Active(new) : d = r.claim
        BY DEF Stated
      <3>2. CASE r \in Active(draft) \ Previous(a, c)
        BY <1>13, <3>1, <3>2 DEF Stated
      <3> QED
        BY <1>2, <1>10, <3>1, <3>2
    <2>2. ASSUME NEW d \in Stated(draft) \ {r.claim : r \in Previous(a, c)}
          PROVE  d \in Stated(new)
      <3>1. PICK r \in Active(draft) : d = r.claim
        BY DEF Stated
      <3> QED
        BY <1>10, <3>1 DEF Stated
    <2>3. Claim(c) \in Stated(new)
      BY <1>2, <1>10 DEF Stated
    <2> QED
      BY <2>1, <2>2, <2>3
  <1>15. Displaced(draft, new)
    <2> SUFFICES ASSUME NEW d \in Stated(draft), d \notin Stated(new)
                 PROVE  Rivals(d, Claim(c))
      BY <1>14 DEF Displaced
    <2> QED
      BY <1>3, <1>14 DEF Rivals
  <1>16. After(a, c).known = Stated(new)
    BY <1>1, <1>14 DEF After, Op
  <1>17. Single(new) = (Single(draft) \ Previous(a, c)) \union
                         IF key \in Functional THEN {NewFact(a, c)} ELSE {}
    BY <1>2, <1>10 DEF Single
  <1>18. After(a, c).rows = Single(new)
    BY <1>1, <1>17 DEF After, Op
  <1> QED
    BY <1>10, <1>11, <1>12, <1>15, <1>16, <1>18

\* A claim displaced twice is displaced.
LEMMA DisplacedTwice ==
  ASSUME NEW R, NEW D, NEW E, Displaced(R, D), Displaced(D, E)
  PROVE  Displaced(R, E)
  BY DEF Displaced, Rivals

\* Where a step takes the actor's operation.
Ends(a) == Embed(a) \/ ForgetEnds(a) \/ PurgeEmbedding(a) \/ Commit(a) \/ Propose(a) \/ Stop(a)

LEMMA OpSteps ==
  ASSUME ShapeInv, NEW a \in Actors
  PROVE  /\ Ends(a) => op'[a].at = "idle"
         /\ \A S \in SUBSET Episodes : IngestMarkdown(a, S) => op'[a].at = "idle"
         /\ \A e \in Episodes :
              /\ Remember(a, e) => op'[a].at = "embed" /\ op'[a].episode = e
              /\ Forget(a, e) => op'[a].at = "select" /\ op'[a].episode = e
              /\ Purge(a, e) => op'[a].at = "evidence" /\ op'[a].episode = e
         /\ SelectLinked(a) => op'[a].at = "retract" /\ op'[a].episode = op[a].episode
         /\ Retract(a) => op'[a].at = "retract" /\ op'[a].episode = op[a].episode
         /\ PurgeEvidence(a) => op'[a].at = "episode" /\ op'[a].episode = op[a].episode
         /\ PurgeEpisode(a) => op'[a].at = "embedding" /\ op'[a].episode = op[a].episode
         /\ \A mode, todo : Begin(a, mode, todo) =>
              op'[a].at = "query" /\ op'[a].mode = mode /\ op'[a].todo = todo
         /\ QueryFacts(a) => op'[a].at = "extract" /\ op'[a].mode = op[a].mode
                             /\ op'[a].todo = op[a].todo
         /\ BeginWrite(a) => op'[a] = [op[a] EXCEPT !.at = "write"]
         /\ SkipKnown(a) => op'[a].at = "write" /\ op'[a].mode = op[a].mode
                            /\ op'[a].known = op[a].known /\ op'[a].rows = op[a].rows
         /\ \A c : PersistsOne(a, c) => op'[a] = After(a, c)
  <1>0. op \in [Actors -> Op] /\ op[a] \in Op
    BY DEF ShapeInv
  <1>1. Ends(a) => op'[a].at = "idle"
    <2>1. Ends(a) => op' = [op EXCEPT ![a] = Idle]
      BY DEF Ends, Embed, ForgetEnds, PurgeEmbedding, Commit, Propose, Stop, Done
    <2> QED
      BY <1>0, <2>1 DEF Idle
  <1>2. \A S \in SUBSET Episodes : IngestMarkdown(a, S) => op'[a].at = "idle"
    BY DEF IngestMarkdown, At
  <1>3. ASSUME NEW e \in Episodes
        PROVE  /\ Remember(a, e) => op'[a].at = "embed" /\ op'[a].episode = e
               /\ Forget(a, e) => op'[a].at = "select" /\ op'[a].episode = e
               /\ Purge(a, e) => op'[a].at = "evidence" /\ op'[a].episode = e
    <2>1. ASSUME NEW there
          PROVE  /\ [Idle EXCEPT !.at = there, !.episode = e].at = there
                 /\ [Idle EXCEPT !.at = there, !.episode = e].episode = e
      BY DEF Idle
    <2>2. /\ Remember(a, e) => op'[a] = [Idle EXCEPT !.at = "embed", !.episode = e]
          /\ Forget(a, e) => op'[a] = [Idle EXCEPT !.at = "select", !.episode = e]
          /\ Purge(a, e) => op'[a] = [Idle EXCEPT !.at = "evidence", !.episode = e]
      BY <1>0 DEF Remember, Forget, Purge
    <2> QED
      BY <2>1, <2>2
  <1>4. SelectLinked(a) => op'[a].at = "retract" /\ op'[a].episode = op[a].episode
    <2>1. SelectLinked(a) =>
            \E rows : op' = [op EXCEPT ![a].at = "retract", ![a].rows = rows]
      BY DEF SelectLinked
    <2> QED
      BY <1>0, <2>1 DEF Op
  <1>5. Retract(a) => op'[a].at = "retract" /\ op'[a].episode = op[a].episode
    <2>1. Retract(a) => At(a, "retract") /\ \E rows : op' = [op EXCEPT ![a].rows = rows]
      BY DEF Retract
    <2> QED
      BY <1>0, <2>1 DEF Op, At
  <1>6. /\ PurgeEvidence(a) => op'[a].at = "episode" /\ op'[a].episode = op[a].episode
        /\ PurgeEpisode(a) => op'[a].at = "embedding" /\ op'[a].episode = op[a].episode
        /\ BeginWrite(a) => op'[a] = [op[a] EXCEPT !.at = "write"]
    BY <1>0 DEF PurgeEvidence, PurgeEpisode, BeginWrite, Goto, Op
  <1>7. ASSUME NEW mode, NEW todo, Begin(a, mode, todo)
        PROVE  op'[a].at = "query" /\ op'[a].mode = mode /\ op'[a].todo = todo
    <2> DEFINE new == [Idle EXCEPT !.at = "query", !.mode = mode, !.time = now',
                                   !.todo = todo]
    <2>1. new.at = "query" /\ new.mode = mode /\ new.todo = todo
      BY DEF Idle
    <2>2. op'[a] = new
      BY <1>0, <1>7 DEF Begin
    <2> QED
      BY <2>1, <2>2
  <1>8. ASSUME QueryFacts(a)
        PROVE  /\ op'[a].at = "extract" /\ op'[a].mode = op[a].mode
               /\ op'[a].todo = op[a].todo
    <2>1. PICK known, rows :
            op' = [op EXCEPT ![a].at = "extract", ![a].known = known, ![a].rows = rows]
      BY <1>8 DEF QueryFacts
    <2>2. op'[a] = [op[a] EXCEPT !.at = "extract", !.known = known, !.rows = rows]
      BY <1>0, <2>1 DEF Op
    <2> QED
      BY <1>0, <2>2 DEF Op
  <1>9. SkipKnown(a) => /\ op'[a].at = "write" /\ op'[a].mode = op[a].mode
                        /\ op'[a].known = op[a].known /\ op'[a].rows = op[a].rows
    <2>1. SkipKnown(a) => At(a, "write") /\ \E todo : op' = [op EXCEPT ![a].todo = todo]
      BY DEF SkipKnown
    <2> QED
      BY <1>0, <2>1 DEF Op, At
  <1>10. \A c : PersistsOne(a, c) => op'[a] = After(a, c)
    BY <1>0 DEF PersistsOne
  <1> QED
    BY <1>1, <1>2, <1>3, <1>4, <1>5, <1>6, <1>7, <1>8, <1>9, <1>10

LEMMA SoloNext ==
  ASSUME Alone, LedgerInv, SoloInv, Roomy, NEW a \in Actors, LedgerStep(a)
  PROVE  SoloInv'
  <1>0. /\ ShapeInv /\ LockInv /\ IdsInv /\ op[a] \in Op
        /\ facts \subseteq Fact /\ Numbered(facts, issued)
        /\ RetractInv(a) /\ MapsInv(a) /\ DraftInv(a) /\ Agreeing(facts)
    BY DEF LedgerInv, SoloInv, ShapeInv, IdsInv
  <1> SUFFICES Agreeing(facts') /\ RetractInv(a)' /\ MapsInv(a)' /\ DraftInv(a)'
    BY DEF Alone, SoloInv
  <1>1. CASE Agreeing(facts') /\ op'[a].at \notin {"retract", "extract", "write"}
    BY <1>1 DEF RetractInv, MapsInv, DraftInv, Writes, At
  <1>2. CASE Ends(a)
    <2>1. Agreeing(facts')
      <3>1. CASE UNCHANGED facts
        BY <1>0, <3>1
      <3>2. CASE Commit(a)
        <4>1. facts' = draft /\ Writes(a)
          BY <1>0, <3>2 DEF Commit, LockInv
        <4> QED
          BY <1>0, <4>1 DEF DraftInv
      <3> QED
        BY <1>2, <3>1, <3>2 DEF Ends, Embed, ForgetEnds, PurgeEmbedding, Propose, Stop,
                                factVars
    <2> QED
      BY <1>0, <1>1, <1>2, <2>1, OpSteps
  <1>3. ASSUME NEW S \in SUBSET Episodes, IngestMarkdown(a, S)
        PROVE  Agreeing(facts') /\ op'[a].at \notin {"retract", "extract", "write"}
    BY <1>0, <1>3, OpSteps DEF IngestMarkdown, factVars
  <1>4. ASSUME NEW e \in Episodes, Remember(a, e) \/ Forget(a, e) \/ Purge(a, e)
        PROVE  Agreeing(facts') /\ op'[a].at \notin {"retract", "extract", "write"}
    <2>1. facts' \in SUBSET facts
      BY <1>4 DEF Remember, Forget, Purge, factVars
    <2> QED
      BY <1>0, <1>4, <2>1, SubsetAgrees, OpSteps
  <1>5. ASSUME PurgeEvidence(a) \/ PurgeEpisode(a)
        PROVE  Agreeing(facts') /\ op'[a].at \notin {"retract", "extract", "write"}
    BY <1>0, <1>5, OpSteps DEF PurgeEvidence, PurgeEpisode, factVars
  <1>6. ASSUME Consolidate(a) \/ ConsolidateAccepted(a)
        PROVE  Agreeing(facts') /\ op'[a].at \notin {"retract", "extract", "write"}
    <2>1. PICK mode, todo : Begin(a, mode, todo)
      BY <1>6 DEF Consolidate, ConsolidateAccepted
    <2>2. UNCHANGED facts
      BY <2>1 DEF Begin, factVars
    <2> QED
      BY <1>0, <2>1, <2>2, OpSteps
  <1>7. CASE SelectLinked(a)
    <2>1. op' = [op EXCEPT ![a].at = "retract",
                           ![a].rows = {r \in Active(facts) : r.source = op[a].episode}]
      BY <1>7, RoomyReadsAll DEF SelectLinked
    <2>2. op'[a].rows = {r \in Active(facts) : r.source = op[a].episode}
      <3> DEFINE rows == {r \in Active(facts) : r.source = op[a].episode}
      <3>1. op' = [op EXCEPT ![a].at = "retract", ![a].rows = rows]
        BY <2>1
      <3> HIDE DEF rows
      <3>2. op'[a].rows = rows
        BY <1>0, <3>1 DEF Op, ShapeInv
      <3> QED
        BY <3>2 DEF rows
    <2>3. op'[a].at = "retract" /\ op'[a].episode = op[a].episode /\ UNCHANGED facts
      BY <1>0, <1>7, OpSteps DEF SelectLinked, factVars
    <2> QED
      BY <1>0, <2>2, <2>3 DEF RetractInv, MapsInv, DraftInv, Writes, At
  <1>8. CASE Retract(a)
    <2>1. PICK r \in op[a].rows :
            /\ facts' = Upsert(facts, {Retracted(r)})
            /\ op' = [op EXCEPT ![a].rows = @ \ {r}]
      BY <1>8 DEF Retract
    <2>2. op'[a].rows = op[a].rows \ {r}
      BY <1>0, <2>1 DEF Op, ShapeInv
    <2>3. op[a].rows = {q \in Active(facts) : q.source = op[a].episode}
      BY <1>0, <1>8 DEF Retract, RetractInv
    <2>4. Active(facts') = Active(facts) \ {r}
      BY <1>0, <2>1, <2>3, RetractRow
    <2>5. Agreeing(facts')
      BY <1>0, <2>4 DEF Agreeing
    <2>6. op'[a].at = "retract" /\ op'[a].episode = op[a].episode
      BY <1>0, <1>8, OpSteps
    <2>7. op'[a].rows = {q \in Active(facts') : q.source = op'[a].episode}
      BY <2>2, <2>3, <2>4, <2>6
    <2> QED
      BY <2>5, <2>6, <2>7 DEF RetractInv, MapsInv, DraftInv, Writes, At
  <1>9. CASE QueryFacts(a)
    <2> DEFINE known == Stated(facts)
               rows == {r \in Active(facts) :
                  /\ Key[r.claim] \in Functional
                  /\ \A q \in Active(facts) : Key[q.claim] = Key[r.claim] => r.at <= q.at}
    <2>1. op' = [op EXCEPT ![a].at = "extract", ![a].known = known, ![a].rows = rows]
      <3>1. PICK S \in Newest(FactLimit) :
              op' = [op EXCEPT
                ![a].at = "extract",
                ![a].known = {r.claim : r \in S},
                ![a].rows = {r \in S :
                  /\ Key[r.claim] \in Functional
                  /\ \A q \in S : Key[q.claim] = Key[r.claim] => r.at <= q.at}]
        BY <1>9 DEF QueryFacts
      <3>2. S = Active(facts)
        BY RoomyReadsAll
      <3> QED
        BY <3>1, <3>2 DEF Stated
    <2>2. rows = Single(facts)
      <3>1. \A r \in Active(facts) : r.at \in Nat
        BY <1>0 DEF Active, Fact
      <3> QED
        BY <1>0, <3>1 DEF Single, Agreeing
    <2>3. op'[a].known = known /\ op'[a].rows = rows
      <3> HIDE DEF known, rows
      <3> QED
        BY <1>0, <2>1 DEF Op, ShapeInv
    <2>4. op'[a].at = "extract" /\ UNCHANGED facts
      BY <1>0, <1>9, OpSteps DEF QueryFacts, factVars
    <2>5. ~Writes(a)'
      BY <2>4 DEF Writes, At
    <2>6. Table(a)' = facts
      BY <2>4, <2>5 DEF Table
    <2> QED
      BY <1>0, <2>2, <2>3, <2>4, <2>5, <2>6 DEF RetractInv, MapsInv, DraftInv, At
  <1>10. CASE BeginWrite(a)
    <2>1. op'[a] = [op[a] EXCEPT !.at = "write"] /\ At(a, "extract") /\ UNCHANGED facts
      BY <1>0, <1>10, OpSteps DEF BeginWrite
    <2>2. /\ op'[a].at = "write" /\ op'[a].mode = op[a].mode
          /\ op'[a].known = op[a].known /\ op'[a].rows = op[a].rows
      BY <1>0, <2>1 DEF Op
    <2>3. op[a].known = Stated(facts) /\ op[a].rows = Single(facts)
      BY <1>0, <2>1 DEF MapsInv, Table, Writes, At
    <2>4. Writes(a)' => draft' = facts
      BY <1>10, <2>2 DEF BeginWrite, Writes, At
    <2>5. Frozen(facts, facts) /\ Displaced(facts, facts)
      BY DEF Frozen, Displaced
    <2>6. Writes(a)' => Table(a)' = facts
      BY <2>4 DEF Table
    <2> QED
      BY <1>0, <2>1, <2>2, <2>3, <2>4, <2>5, <2>6 DEF RetractInv, MapsInv, DraftInv, At
  <1>11. CASE SkipKnown(a)
    <2>1. /\ op'[a].at = "write" /\ op'[a].mode = op[a].mode
          /\ op'[a].known = op[a].known /\ op'[a].rows = op[a].rows
          /\ op[a].at = "write" /\ UNCHANGED <<facts, draft>>
      BY <1>0, <1>11, OpSteps DEF SkipKnown, At, factVars
    <2>2. (Writes(a)' <=> Writes(a)) /\ Table(a)' = Table(a)
      BY <2>1 DEF Writes, At, Table
    <2> QED
      BY <1>0, <2>1, <2>2 DEF RetractInv, MapsInv, DraftInv, At
  <1>12. CASE Persist(a)
    <2>1. PICK c \in First(op[a].todo) : PersistsOne(a, c)
      BY <1>12, PersistWritesOne
    <2>2. c \in Candidate
      BY <1>0, <2>1 DEF First, Op
    <2>3. op'[a] = After(a, c) /\ UNCHANGED facts /\ op[a].at = "write"
      BY <1>0, <1>12, <2>1, OpSteps DEF Persist, At
    <2>4. op'[a].at = "write" /\ op'[a].mode = op[a].mode
      BY <2>3 DEF After
    <2>5. Writes(a)' <=> Writes(a)
      BY <2>3, <2>4 DEF Writes, At
    <2>6. CASE ~Writes(a)
      BY <1>0, <2>3, <2>4, <2>5, <2>6 DEF RetractInv, MapsInv, DraftInv, At
    <2>7. CASE Writes(a)
      <3>1. /\ op[a].known = Stated(draft) /\ op[a].rows = Single(draft)
            /\ Agreeing(draft) /\ Frozen(facts, draft) /\ Displaced(facts, draft)
        BY <1>0, <2>7 DEF MapsInv, DraftInv, Table
      <3>2. draft' = Upsert(draft, Closed(Previous(a, c)) \union {NewFact(a, c)})
        BY <2>1, <2>7 DEF PersistsOne, Writes
      <3>3. Claim(c) \notin Stated(draft)
        BY <2>1, <3>1 DEF PersistsOne
      <3>4. /\ Agreeing(draft') /\ Frozen(draft, draft') /\ Displaced(draft, draft')
            /\ op'[a].known = Stated(draft') /\ op'[a].rows = Single(draft')
        BY <1>0, <2>2, <2>3, <3>1, <3>2, <3>3, PersistRow
      <3>5. Displaced(facts, draft')
        BY <3>1, <3>4, DisplacedTwice
      <3>6. Frozen(facts, draft')
        BY <3>1, <3>4 DEF Frozen
      <3>7. Table(a)' = draft'
        BY <2>5, <2>7 DEF Table
      <3> QED
        BY <1>0, <2>3, <2>4, <2>5, <2>7, <3>4, <3>5, <3>6, <3>7
        DEF RetractInv, MapsInv, DraftInv, At
    <2> QED
      BY <2>6, <2>7
  <1> QED
    BY <1>1, <1>2, <1>3, <1>4, <1>5, <1>6, <1>7, <1>8, <1>9, <1>10, <1>11, <1>12
    DEF LedgerStep, Ends

LEMMA SoloInvHolds ==
  ASSUME Alone
  PROVE  LedgerSpec /\ []Roomy => []SoloInv
  <1>1. LedgerInit => SoloInv
    BY DEF LedgerInit, SoloInv, Agreeing, Active, RetractInv, MapsInv, DraftInv,
           Writes, At, Idle
  <1>2. LedgerInv /\ SoloInv /\ Roomy /\ [LedgerNext]_ledgerVars => SoloInv'
    <2> SUFFICES ASSUME LedgerInv, SoloInv, Roomy, [LedgerNext]_ledgerVars
                 PROVE  SoloInv'
      OBVIOUS
    <2>1. ASSUME NEW a \in Actors, LedgerStep(a)
          PROVE  SoloInv'
      BY <2>1, SoloNext
    <2>2. CASE UNCHANGED ledgerVars
      BY <2>2 DEF ledgerVars, factVars, SoloInv, Agreeing, RetractInv, MapsInv, DraftInv,
                  Writes, At, Table, Frozen, Displaced
    <2> QED
      BY <2>1, <2>2 DEF LedgerNext
  <1> QED
    BY <1>1, <1>2, LedgerInvHolds, PTL DEF LedgerSpec

\* With one process and every active fact within the limits, no two active
\* facts state one claim, or two objects for one functional key.
THEOREM ActiveFactsAgreeCorrect ==
  ASSUME Alone
  PROVE  LedgerSpec /\ []Roomy => []ActiveFactsAgree
  <1>1. SoloInv => ActiveFactsAgree
    BY DEF SoloInv, Agreeing, ActiveFactsAgree
  <1> QED
    BY <1>1, SoloInvHolds, PTL

\* The limits are kept where there are no more claims than a query returns:
\* agreement itself bounds the active facts.
THEOREM FewClaimsAreRoomy ==
  ASSUME Alone, IsFiniteSet(Claims), Cardinality(Claims) <= FactLimit,
         Cardinality(Claims) <= ForgetLimit
  PROVE  LedgerSpec => []Roomy
  <1>1. LedgerInv /\ SoloInv => Roomy
    <2> SUFFICES ASSUME LedgerInv, SoloInv
                 PROVE  Roomy
      OBVIOUS
    <2> DEFINE f == [r \in Active(facts) |-> r.claim]
    <2>1. Active(facts) \subseteq Fact
      BY DEF Active, LedgerInv, ShapeInv
    <2>2. f \in Injection(Active(facts), Claims)
      <3>1. \A r \in Active(facts) : r.claim \in Claims
        BY <2>1 DEF Fact
      <3>2. \A r, q \in Active(facts) : f[r] = f[q] => r = q
        BY DEF SoloInv, Agreeing
      <3> QED
        BY <3>1, <3>2 DEF Injection, IsInjective
    <2>3. /\ Cardinality(Active(facts)) <= Cardinality(Claims)
          /\ Cardinality(Active(facts)) \in Nat /\ Cardinality(Claims) \in Nat
      BY <2>2, FS_Injection, FS_CardinalityType
    <2>4. FactLimit \in Nat /\ ForgetLimit \in Nat
      BY LedgerConstants
    <2> QED
      BY <2>3, <2>4 DEF Roomy
  <1>2. LedgerInit => SoloInv
    BY DEF LedgerInit, SoloInv, Agreeing, Active, RetractInv, MapsInv, DraftInv,
           Writes, At, Idle
  <1>3. LedgerInv /\ SoloInv /\ [LedgerNext]_ledgerVars => SoloInv'
    <2> SUFFICES ASSUME LedgerInv, SoloInv, Roomy, [LedgerNext]_ledgerVars
                 PROVE  SoloInv'
      BY <1>1
    <2>1. ASSUME NEW a \in Actors, LedgerStep(a)
          PROVE  SoloInv'
      BY <2>1, SoloNext
    <2>2. CASE UNCHANGED ledgerVars
      BY <2>2 DEF ledgerVars, factVars, SoloInv, Agreeing, RetractInv, MapsInv, DraftInv,
                  Writes, At, Table, Frozen, Displaced
    <2> QED
      BY <2>1, <2>2 DEF LedgerNext
  <1> QED
    BY <1>1, <1>2, <1>3, LedgerInvHolds, PTL DEF LedgerSpec

\* With one process, a fact that was superseded or retracted is never written
\* again.
THEOREM HistoryIsFrozenCorrect ==
  ASSUME Alone
  PROVE  LedgerSpec /\ []Roomy => HistoryIsFrozen
  <1> DEFINE Stays == \A r \in facts :
                        r.state # "active" =>
                          r \in facts' \/ \A q \in facts' : q.id # r.id
  <1>1. LedgerInv /\ SoloInv /\ [LedgerNext]_ledgerVars => [Stays]_ledgerVars
    <2> SUFFICES ASSUME LedgerInv, SoloInv, NEW a \in Actors, LedgerStep(a)
                 PROVE  Stays
      BY DEF LedgerNext
    <2>0. ShapeInv /\ facts \subseteq Fact /\ Numbered(facts, issued)
      BY DEF LedgerInv, ShapeInv, IdsInv
    <2>1. CASE Frozen(facts, facts')
      BY <2>1 DEF Frozen
    <2>2. CASE UNCHANGED facts
      BY <2>2
    <2>3. ASSUME NEW r \in op[a].rows, Retract(a), facts' = Upsert(facts, {Retracted(r)})
          PROVE  Frozen(facts, facts')
      <3>1. r \in Active(facts)
        BY <2>3 DEF SoloInv, RetractInv, Retract
      <3> QED
        BY <2>0, <2>3, <3>1, RetractRow
    <2>4. ASSUME NEW e \in Episodes, facts' = {r \in facts : r.source # e}
          PROVE  Stays
      BY <2>0, <2>4 DEF Numbered
    <2>5. CASE Commit(a) /\ facts' = draft
      <3>1. Writes(a)
        BY <2>5 DEF Commit, LedgerInv, LockInv
      <3> QED
        BY <2>1, <2>5, <3>1 DEF SoloInv, DraftInv
    <2> QED
      BY <2>0, <2>1, <2>2, <2>3, <2>4, <2>5, FactsSteps
  <1> QED
    BY <1>1, LedgerInvHolds, SoloInvHolds, PTL DEF LedgerSpec, HistoryIsFrozen

\* With one process, readers of the active facts see Beliefs: a consolidation
\* displaces a claim only by another on its functional key.
THEOREM LedgerImplementsBeliefs ==
  ASSUME Alone
  PROVE  LedgerSpec /\ []Roomy => ImplementsBeliefs
  <1>1. LedgerInit => Reader!BeliefInit
    BY DEF LedgerInit, Reader!BeliefInit, Active
  <1>2. LedgerInv /\ SoloInv /\ [LedgerNext]_ledgerVars
          => [Reader!BeliefNext]_(Stated(facts))
    <2> SUFFICES ASSUME LedgerInv, SoloInv, [LedgerNext]_ledgerVars,
                        Stated(facts') # Stated(facts)
                 PROVE  Reader!BeliefNext
      BY DEF Stated, Active
    <2>0. ShapeInv /\ facts \subseteq Fact /\ draft \subseteq Fact /\ Numbered(facts, issued)
      BY DEF LedgerInv, ShapeInv, IdsInv
    <2>1. PICK a \in Actors : LedgerStep(a)
      BY DEF LedgerNext, ledgerVars, factVars
    <2>2. ASSUME Active(facts') \subseteq Active(facts)
          PROVE  Reader!Withdraw
      <3>1. Stated(facts') = Stated(facts) \ (Stated(facts) \ Stated(facts'))
        BY <2>2 DEF Stated
      <3> QED
        BY <3>1 DEF Stated, Reader!Withdraw
    <2>3. ASSUME NEW r \in op[a].rows, Retract(a), facts' = Upsert(facts, {Retracted(r)})
          PROVE  Active(facts') \subseteq Active(facts)
      <3>1. r \in Active(facts)
        BY <2>3 DEF SoloInv, RetractInv, Retract
      <3> QED
        BY <2>0, <2>3, <3>1, RetractRow
    <2>4. ASSUME NEW e \in Episodes, facts' = {r \in facts : r.source # e}
          PROVE  Active(facts') \subseteq Active(facts)
      BY <2>4 DEF Active
    <2>5. ASSUME Commit(a), facts' = draft
          PROVE  Reader!Learn
      <3>1. Agreeing(draft) /\ Displaced(facts, draft)
        BY <2>5 DEF Commit, LedgerInv, LockInv, SoloInv, DraftInv
      <3>2. Stated(draft) \in SUBSET Claims
        BY <2>0 DEF Stated, Active, Fact
      <3>3. Reader!Agree(Stated(draft))
        BY <3>1 DEF Reader!Agree, Reader!Rival, Stated, Agreeing
      <3>4. Stated(facts') = {b \in Stated(facts) :
                                \A n \in Stated(draft) : ~Reader!Rival(b, n)}
                             \union Stated(draft)
        BY <2>5, <3>1 DEF Displaced, Rivals, Reader!Rival
      <3> QED
        BY <3>2, <3>3, <3>4 DEF Reader!Learn, Stated
    <2> QED
      BY <2>0, <2>1, <2>2, <2>3, <2>4, <2>5, FactsSteps DEF Reader!BeliefNext
  <1>3. LedgerInv /\ SoloInv /\ [LedgerNext]_ledgerVars
          => [Reader!BeliefNext]_({r.claim : r \in Active(facts)})
    BY <1>2 DEF Stated
  <1> QED
    BY <1>1, <1>3, LedgerInvHolds, SoloInvHolds, PTL
    DEF LedgerSpec, ImplementsBeliefs, Reader!BeliefSpec

-----------------------------------------------------------------------------
(***************************************************************************)
(* Forgetting and purging, one process at a time.                          *)
(***************************************************************************)
Consolidates(a) == op[a].at \in {"query", "extract", "write"} /\ op[a].mode = "all"

\* What an answered forget and an answered purge have made of the episode.
AnsweredInv ==
  /\ \A e \in forgotten : episode[e] \in {"hidden", "gone"}
  /\ \A e \in purged : episode[e] = "gone"

\* How far remember, forget, purge and consolidate have come.
PlaceInv(a) ==
  /\ At(a, "embed") => episode[op[a].episode] = "visible"
  /\ op[a].at \in {"select", "retract"} => episode[op[a].episode] \in {"hidden", "gone"}
  /\ op[a].at \in {"evidence", "episode", "embedding"} => FactsOf(op[a].episode) = {}
  /\ op[a].at \in {"episode", "embedding"} => op[a].episode \notin evidence
  /\ At(a, "embedding") => episode[op[a].episode] = "gone"
  /\ Consolidates(a) => \A c \in op[a].todo : episode[c[1]] = "visible"
  /\ op[a].at \in {"query", "extract", "write"} => op[a].mode # "none"
  /\ op[a].at \in {"evidence", "episode"} => episode[op[a].episode] # "absent"

\* The rows an actor holds are rows of the table.
HeldInv(a) ==
  At(a, "retract") \/ At(a, "extract") \/ Writes(a) => op[a].rows \subseteq Table(a)

\* A consolidation of every episode revives no hidden source.
RevivesNone(R, D) ==
  \A r \in D : \/ episode[r.source] = "visible"
               \/ \E q \in R : /\ q.source = r.source
                               /\ r.state = "active" => q.state = "active"

SourceInv ==
  /\ AnsweredInv
  /\ \A a \in Actors :
       /\ PlaceInv(a)
       /\ HeldInv(a)
       /\ Writes(a) /\ op[a].mode = "all" => RevivesNone(facts, draft)

LEMMA SkipStep ==
  ASSUME ShapeInv, NEW a \in Actors, SkipKnown(a)
  PROVE  \E c \in First(op[a].todo) :
           Claim(c) \in op[a].known /\ op'[a] = [op[a] EXCEPT !.todo = @ \ {c}]
  BY DEF SkipKnown, ShapeInv

LEMMA RecentAreVisible ==
  ASSUME NEW S \in Recent
  PROVE  \A e \in S : episode[e] = "visible"
  BY DEF Recent

\* Every step keeps the invariant of the answers given so far.
LEMMA SourceNext ==
  ASSUME Alone, LedgerInv, SourceInv, NEW a \in Actors, LedgerStep(a)
  PROVE  SourceInv'
  <1>0. /\ ShapeInv /\ LockInv /\ IdsInv /\ op[a] \in Op
        /\ facts \subseteq Fact /\ Numbered(facts, issued)
        /\ draft \subseteq Fact /\ Numbered(draft, issued)
        /\ AnsweredInv /\ PlaceInv(a) /\ HeldInv(a)
        /\ Writes(a) /\ op[a].mode = "all" => RevivesNone(facts, draft)
        /\ purged \subseteq forgotten /\ forgotten \subseteq Episodes
        /\ episode \in [Episodes -> {"absent", "visible", "hidden", "gone"}]
        /\ op[a].at \in {"embed", "select", "retract", "evidence", "episode",
                     "embedding"} => op[a].episode \in Episodes
    BY DEF LedgerInv, SourceInv, ShapeInv, IdsInv
  <1> SUFFICES /\ AnsweredInv' /\ PlaceInv(a)' /\ HeldInv(a)'
               /\ (Writes(a) /\ op[a].mode = "all" => RevivesNone(facts, draft))'
    BY DEF Alone, SourceInv
  <1>a. CASE op'[a].at = "idle" /\ AnsweredInv'
    BY <1>a DEF PlaceInv, HeldInv, Writes, At, Consolidates
  <1>1. CASE Embed(a) \/ Commit(a) \/ Propose(a) \/ Stop(a)
    <2>1. AnsweredInv'
      BY <1>0, <1>1 DEF AnsweredInv, Embed, Commit, Propose, Stop, episodeVars, clientVars
    <2> QED
      BY <1>0, <1>1, <1>a, <2>1, OpSteps DEF Ends
  <1>2. CASE ForgetEnds(a)
    <2>1. AnsweredInv'
      BY <1>0, <1>2 DEF AnsweredInv, ForgetEnds, PlaceInv, At, episodeVars
    <2> QED
      BY <1>0, <1>2, <1>a, <2>1, OpSteps DEF Ends
  <1>3. CASE PurgeEmbedding(a)
    <2>1. AnsweredInv'
      BY <1>0, <1>3 DEF AnsweredInv, PurgeEmbedding, PlaceInv, At
    <2> QED
      BY <1>0, <1>3, <1>a, <2>1, OpSteps DEF Ends
  <1>b. ASSUME NEW S \in SUBSET Episodes, Insert(S)
        PROVE  \A e \in Episodes : \/ episode'[e] = episode[e]
                                   \/ e \in S /\ episode[e] = "absent" /\ episode'[e] = "visible"
    <2>1. episode' = [e \in Episodes |-> IF e \in S THEN "visible" ELSE episode[e]]
      BY <1>b DEF Insert
    <2> QED
      BY <1>0, <1>b, <2>1 DEF Insert
  <1>4. ASSUME NEW S \in SUBSET Episodes, IngestMarkdown(a, S)
        PROVE  op'[a].at = "idle" /\ AnsweredInv'
    <2>1. op'[a].at = "idle"
      BY <1>0, <1>4, OpSteps
    <2>2. Insert(S) /\ UNCHANGED <<forgotten, purged>>
      BY <1>4 DEF IngestMarkdown, clientVars
    <2> QED
      BY <1>0, <1>4, <1>b, <2>1, <2>2 DEF AnsweredInv
  <1>5. ASSUME NEW e \in Episodes, Remember(a, e)
        PROVE  SourceInv'
    <2>1. op'[a].at = "embed" /\ op'[a].episode = e
      BY <1>0, <1>5, OpSteps
    <2>2. episode'[e] = "visible"
      BY <1>0, <1>5 DEF Remember, Insert
    <2>3. AnsweredInv'
      BY <1>0, <1>5, <1>b DEF AnsweredInv, Remember, clientVars
    <2>4. PlaceInv(a)' /\ HeldInv(a)' /\ ~Writes(a)'
      BY <2>1, <2>2 DEF PlaceInv, HeldInv, Writes, At, Consolidates
    <2> QED
      BY <2>3, <2>4 DEF Alone, SourceInv
  <1>6. ASSUME NEW e \in Episodes, Forget(a, e)
        PROVE  SourceInv'
    <2>1. op'[a].at = "select" /\ op'[a].episode = e
      BY <1>0, <1>6, OpSteps
    <2>2. episode'[e] \in {"hidden", "gone"} /\ AnsweredInv'
      BY <1>0, <1>6 DEF Forget, AnsweredInv, clientVars
    <2>4. PlaceInv(a)' /\ HeldInv(a)' /\ ~Writes(a)'
      BY <2>1, <2>2 DEF PlaceInv, HeldInv, Writes, At, Consolidates
    <2> QED
      BY <2>2, <2>4 DEF Alone, SourceInv
  <1>7. ASSUME NEW e \in Episodes, Purge(a, e)
        PROVE  SourceInv'
    <2>1. op'[a].at = "evidence" /\ op'[a].episode = e
      BY <1>0, <1>7, OpSteps
    <2>2. FactsOf(e)' = {} /\ AnsweredInv' /\ episode'[e] # "absent"
      BY <1>0, <1>7 DEF Purge, FactsOf, AnsweredInv, episodeVars, clientVars
    <2>4. PlaceInv(a)' /\ HeldInv(a)' /\ ~Writes(a)'
      BY <2>1, <2>2 DEF PlaceInv, HeldInv, Writes, At, Consolidates, FactsOf
    <2> QED
      BY <2>2, <2>4 DEF Alone, SourceInv
  <1>8. CASE SelectLinked(a)
    <2>1. op'[a].at = "retract" /\ op'[a].episode = op[a].episode /\ op[a].at = "select"
      BY <1>0, <1>8, OpSteps DEF SelectLinked, At
    <2>2. UNCHANGED <<episode, facts, forgotten, purged>>
      BY <1>8 DEF SelectLinked, episodeVars, factVars, clientVars
    <2>3. op'[a].rows \subseteq facts
      <3>1. PICK S, rows :
              /\ S \in Newest(ForgetLimit)
              /\ rows \subseteq S /\ op' = [op EXCEPT ![a].at = "retract", ![a].rows = rows]
        BY <1>8 DEF SelectLinked
      <3>2. op'[a].rows = rows
        BY <1>0, <3>1 DEF Op, ShapeInv
      <3> QED
        BY <3>1, <3>2, NewestAreActive DEF Active
    <2>4. AnsweredInv' /\ PlaceInv(a)' /\ HeldInv(a)' /\ ~Writes(a)'
      BY <1>0, <2>1, <2>2, <2>3 DEF PlaceInv, HeldInv, AnsweredInv, Writes, At,
                                    Consolidates, Table
    <2> QED
      BY <2>4
  <1>9. CASE Retract(a)
    <2>1. op'[a].at = "retract" /\ op'[a].episode = op[a].episode /\ op[a].at = "retract"
      BY <1>0, <1>9, OpSteps DEF Retract, At
    <2>2. PICK r \in op[a].rows :
            facts' = Upsert(facts, {Retracted(r)}) /\ op' = [op EXCEPT ![a].rows = @ \ {r}]
      BY <1>9 DEF Retract
    <2>3. op'[a].rows = op[a].rows \ {r}
      BY <1>0, <2>2 DEF Op, ShapeInv
    <2>4. op[a].rows \subseteq facts
      BY <1>0, <2>1 DEF HeldInv, Table, Writes, At
    <2>5. op'[a].rows \subseteq facts'
      <3>1. \A q \in facts : q.id = Retracted(r).id => q = r
        BY <1>0, <2>4, RetractedIsInactive DEF Numbered
      <3> QED
        BY <2>2, <2>3, <2>4, <3>1 DEF Upsert
    <2>6. UNCHANGED <<episode, forgotten, purged>>
      BY <1>9 DEF Retract, episodeVars, clientVars
    <2>7. AnsweredInv' /\ PlaceInv(a)' /\ HeldInv(a)' /\ ~Writes(a)'
      BY <1>0, <2>1, <2>5, <2>6 DEF PlaceInv, HeldInv, AnsweredInv, Writes, At,
                                    Consolidates, Table
    <2> QED
      BY <2>7
  <1>10. CASE PurgeEvidence(a)
    <2>1. op'[a].at = "episode" /\ op'[a].episode = op[a].episode /\ op[a].at = "evidence"
      BY <1>0, <1>10, OpSteps DEF PurgeEvidence, At
    <2>2. UNCHANGED <<episode, facts, forgotten, purged>> /\ op[a].episode \notin evidence'
      BY <1>10 DEF PurgeEvidence, factVars, clientVars
    <2>3. AnsweredInv' /\ PlaceInv(a)' /\ HeldInv(a)' /\ ~Writes(a)'
      BY <1>0, <2>1, <2>2 DEF PlaceInv, HeldInv, AnsweredInv, Writes, At,
                              Consolidates, FactsOf
    <2> QED
      BY <2>3
  <1>11. CASE PurgeEpisode(a)
    <2>1. op'[a].at = "embedding" /\ op'[a].episode = op[a].episode /\ op[a].at = "episode"
      BY <1>0, <1>11, OpSteps DEF PurgeEpisode, At
    <2>2. UNCHANGED <<facts, evidence, forgotten, purged>> /\ episode'[op[a].episode] = "gone"
      BY <1>0, <1>11, <2>1 DEF PurgeEpisode, factVars, clientVars
    <2>3. AnsweredInv'
      BY <1>0, <1>11, <2>2 DEF AnsweredInv, PurgeEpisode
    <2>4. PlaceInv(a)' /\ HeldInv(a)' /\ ~Writes(a)'
      BY <1>0, <2>1, <2>2 DEF PlaceInv, HeldInv, Writes, At, Consolidates, FactsOf
    <2> QED
      BY <2>3, <2>4
  <1>12. CASE Consolidate(a) \/ ConsolidateAccepted(a)
    <2>1. PICK mode, todo :
            /\ Begin(a, mode, todo)
            /\ mode # "none"
            /\ mode = "all" => \A c \in todo : episode[c[1]] = "visible"
      <3>1. CASE Consolidate(a)
        <4>1. PICK S \in Recent, mode \in {"preview", "all"} :
                Begin(a, mode, {c \in Candidate : c[1] \in S})
          BY <3>1, ZenonT(60) DEF Consolidate
        <4>2. \A c \in {c \in Candidate : c[1] \in S} : episode[c[1]] = "visible"
          BY RecentAreVisible
        <4> QED
          BY <4>1, <4>2
      <3>2. CASE ConsolidateAccepted(a)
        <4>1. PICK accept : Begin(a, "accepted", accept)
          BY <3>2 DEF ConsolidateAccepted
        <4> QED
          BY <4>1
      <3> QED
        BY <1>12, <3>1, <3>2
    <2>2. op'[a].at = "query" /\ op'[a].mode = mode /\ op'[a].todo = todo
      BY <1>0, <2>1, OpSteps
    <2>3. UNCHANGED <<episode, forgotten, purged>>
      BY <2>1 DEF Begin, episodeVars, clientVars
    <2>4. AnsweredInv' /\ PlaceInv(a)' /\ HeldInv(a)' /\ ~Writes(a)'
      BY <1>0, <2>1, <2>2, <2>3 DEF PlaceInv, HeldInv, AnsweredInv, Writes, At,
                                    Consolidates
    <2> QED
      BY <2>4
  <1>13. CASE QueryFacts(a)
    <2>1. /\ op'[a].at = "extract" /\ op'[a].mode = op[a].mode
          /\ op'[a].todo = op[a].todo /\ op[a].at = "query"
      BY <1>0, <1>13, OpSteps DEF QueryFacts, At
    <2>2. UNCHANGED <<episode, facts, forgotten, purged>>
      BY <1>13 DEF QueryFacts, episodeVars, factVars, clientVars
    <2>3. op'[a].rows \subseteq facts
      <3>1. PICK S, rows, known :
              /\ S \in Newest(FactLimit)
              /\ rows \subseteq S
              /\ op' = [op EXCEPT ![a].at = "extract", ![a].known = known, ![a].rows = rows]
        BY <1>13 DEF QueryFacts
      <3>2. op'[a].rows = rows
        BY <1>0, <3>1 DEF Op, ShapeInv
      <3> QED
        BY <3>1, <3>2, NewestAreActive DEF Active
    <2>4. AnsweredInv' /\ PlaceInv(a)' /\ HeldInv(a)' /\ ~Writes(a)'
      BY <1>0, <2>1, <2>2, <2>3 DEF PlaceInv, HeldInv, AnsweredInv, Writes, At,
                                    Consolidates, Table
    <2> QED
      BY <2>4
  <1>14. CASE BeginWrite(a)
    <2>1. /\ op'[a].at = "write" /\ op'[a].mode = op[a].mode /\ op[a].at = "extract"
          /\ op'[a].todo = op[a].todo /\ op'[a].rows = op[a].rows
      BY <1>0, <1>14, OpSteps DEF BeginWrite, At, Op
    <2>2. UNCHANGED <<episode, facts, forgotten, purged>>
      BY <1>14 DEF BeginWrite, episodeVars, clientVars
    <2>3. Writes(a)' => draft' = facts
      BY <1>14, <2>1 DEF BeginWrite, Writes, At
    <2>4. op[a].rows \subseteq facts
      BY <1>0, <2>1 DEF HeldInv, Table, Writes, At
    <2>5. AnsweredInv' /\ PlaceInv(a)'
      BY <1>0, <2>1, <2>2 DEF PlaceInv, AnsweredInv, At, Consolidates
    <2>6. HeldInv(a)'
      BY <2>1, <2>2, <2>3, <2>4 DEF HeldInv, Table
    <2>7. Writes(a)' => RevivesNone(facts, draft)'
      BY <2>2, <2>3 DEF RevivesNone
    <2> QED
      BY <2>5, <2>6, <2>7
  <1>15. CASE SkipKnown(a)
    <2>1. PICK c : op'[a] = [op[a] EXCEPT !.todo = @ \ {c}]
      BY <1>0, <1>15, SkipStep
    <2>2. /\ op'[a].at = op[a].at /\ op'[a].mode = op[a].mode /\ op[a].at = "write"
          /\ op'[a].todo \subseteq op[a].todo /\ op'[a].rows = op[a].rows
      BY <1>0, <1>15, <2>1 DEF SkipKnown, At, Op
    <2>3. UNCHANGED <<episode, facts, draft, forgotten, purged>>
      BY <1>15 DEF SkipKnown, episodeVars, factVars, clientVars
    <2>4. (Writes(a)' <=> Writes(a)) /\ Table(a)' = Table(a)
      BY <2>2, <2>3 DEF Writes, At, Table
    <2>5. AnsweredInv' /\ PlaceInv(a)'
      BY <1>0, <2>2, <2>3 DEF PlaceInv, AnsweredInv, At, Consolidates
    <2>6. HeldInv(a)'
      BY <1>0, <2>2, <2>4 DEF HeldInv, At
    <2>7. (Writes(a) /\ op[a].mode = "all" => RevivesNone(facts, draft))'
      BY <1>0, <2>2, <2>3, <2>4 DEF RevivesNone
    <2> QED
      BY <2>5, <2>6, <2>7
  <1>16. CASE Persist(a)
    <2>1. PICK c \in First(op[a].todo) : PersistsOne(a, c)
      BY <1>16, PersistWritesOne
    <2>2. c \in Candidate /\ c \in op[a].todo
      BY <1>0, <2>1 DEF First, Op
    <2>3. op'[a] = After(a, c) /\ UNCHANGED <<facts, episode, forgotten, purged>>
      BY <1>0, <1>16, <2>1, OpSteps DEF Persist, episodeVars, clientVars
    <2>4. /\ op'[a].at = op[a].at /\ op'[a].mode = op[a].mode /\ op[a].at = "write"
          /\ op'[a].todo \subseteq op[a].todo
          /\ op'[a].rows \subseteq (op[a].rows \ Previous(a, c)) \union {NewFact(a, c)}
      <3>1. op[a].at = "write"
        BY <1>16 DEF Persist, At
      <3>2. After(a, c).at = op[a].at /\ After(a, c).mode = op[a].mode
        BY DEF After
      <3>3. After(a, c).todo = op[a].todo \ {c}
        BY <1>0 DEF After, Op
      <3>4. After(a, c).rows = (op[a].rows \ Previous(a, c)) \union
                IF Key[Claim(c)] \in Functional THEN {NewFact(a, c)} ELSE {}
        BY <1>0 DEF After, Op
      <3> QED
        BY <2>3, <3>1, <3>2, <3>3, <3>4
    <2>5. Writes(a)' <=> Writes(a)
      BY <2>4 DEF Writes, At
    <2>6. AnsweredInv' /\ PlaceInv(a)'
      BY <1>0, <2>3, <2>4 DEF PlaceInv, AnsweredInv, At, Consolidates
    <2>7. CASE ~Writes(a)
      BY <2>4, <2>5, <2>6, <2>7 DEF HeldInv, At
    <2>8. CASE Writes(a)
      <3>1. op[a].rows \subseteq draft
        BY <1>0, <2>8 DEF HeldInv, Table
      <3> DEFINE more == Closed(Previous(a, c)) \union {NewFact(a, c)}
      <3>2. draft' = Upsert(draft, more)
        BY <2>1, <2>8 DEF PersistsOne, Writes
      <3>3. \A q \in draft : q.id \in Nat /\ q.id <= issued
        BY <1>0 DEF Numbered, Fact
      <3>4. \A m \in Closed(Previous(a, c)) :
              /\ m.state = "superseded"
              /\ \E r \in Previous(a, c) : m.id = r.id /\ m.source = r.source
        <4>1. Previous(a, c) \subseteq Fact
          BY <1>0, <3>1 DEF Previous
        <4> QED
          BY <4>1 DEF Closed, Fact
      <3>5. Previous(a, c) \subseteq op[a].rows
        BY DEF Previous
      <3>6. NewFact(a, c).id = issued + 1 /\ NewFact(a, c).source = c[1] /\ issued \in Nat
        BY <1>0 DEF NewFact, ShapeInv
      <3>7. \A q \in op[a].rows \ Previous(a, c), m \in more : q.id # m.id
        BY <1>0, <3>1, <3>3, <3>4, <3>5, <3>6 DEF Numbered
      <3>8. op'[a].rows \subseteq draft'
        BY <2>4, <3>1, <3>2, <3>7 DEF Upsert
      <3>9. Table(a)' = draft'
        BY <2>5, <2>8 DEF Table
      <3>10. HeldInv(a)'
        BY <3>8, <3>9 DEF HeldInv
      <3>11. ASSUME op[a].mode = "all"
             PROVE  RevivesNone(facts, draft')
        <4>1. episode[c[1]] = "visible"
          BY <1>0, <2>2, <2>4, <3>11 DEF PlaceInv, Consolidates
        <4>2. RevivesNone(facts, draft)
          BY <1>0, <2>8, <3>11
        <4> SUFFICES ASSUME NEW r \in draft', episode[r.source] # "visible"
                     PROVE  \E q \in facts : /\ q.source = r.source
                                             /\ r.state = "active" => q.state = "active"
          BY DEF RevivesNone
        <4>3. CASE r \in draft
          BY <4>2, <4>3 DEF RevivesNone
        <4>4. CASE r \in Closed(Previous(a, c))
          <5>1. PICK p \in draft : r.source = p.source /\ r.state = "superseded"
            BY <3>1, <3>4, <3>5, <4>4
          <5> QED
            BY <4>2, <5>1 DEF RevivesNone
        <4> QED
          BY <3>2, <3>6, <4>1, <4>3, <4>4 DEF Upsert
      <3>12. RevivesNone(facts, draft)' <=> RevivesNone(facts, draft')
        BY <2>3 DEF RevivesNone
      <3> QED
        BY <2>4, <2>6, <3>10, <3>11, <3>12
    <2> QED
      BY <2>7, <2>8
  <1> QED
    BY <1>a, <1>1, <1>2, <1>3, <1>4, <1>5, <1>6, <1>7, <1>8, <1>9, <1>10, <1>11, <1>12,
       <1>13, <1>14, <1>15, <1>16 DEF LedgerStep, SourceInv

LEMMA SourceInvHolds ==
  ASSUME Alone
  PROVE  LedgerSpec => []SourceInv
  <1>1. LedgerInit => SourceInv
    BY DEF LedgerInit, SourceInv, AnsweredInv, PlaceInv, HeldInv, Writes, At, Idle,
           Consolidates
  <1>2. LedgerInv /\ SourceInv /\ [LedgerNext]_ledgerVars => SourceInv'
    <2> SUFFICES ASSUME LedgerInv, SourceInv, [LedgerNext]_ledgerVars
                 PROVE  SourceInv'
      OBVIOUS
    <2>1. ASSUME NEW a \in Actors, LedgerStep(a)
          PROVE  SourceInv'
      BY <2>1, SourceNext
    <2>2. CASE UNCHANGED ledgerVars
      BY <2>2 DEF ledgerVars, episodeVars, factVars, clientVars, SourceInv, AnsweredInv,
              PlaceInv, HeldInv, RevivesNone, Writes, At, Table, FactsOf, Consolidates
    <2> QED
      BY <2>1, <2>2 DEF LedgerNext
  <1> QED
    BY <1>1, <1>2, LedgerInvHolds, PTL DEF LedgerSpec

\* The facts of an episode after a step of one process: what was there, in a
\* state no livelier, unless a client accepts an old proposal.
LEMMA NothingRevived ==
  ASSUME Alone, LedgerInv, SourceInv, NEW a \in Actors, LedgerStep(a),
         NEW e \in Episodes, episode[e] # "visible", ~Accepting,
         NEW r \in FactsOf(e)'
  PROVE  \E q \in FactsOf(e) : r.state = "active" => q.state = "active"
  <1>0. /\ ShapeInv /\ LockInv /\ facts \subseteq Fact /\ op[a] \in Op
        /\ HeldInv(a)
        /\ Writes(a) /\ op[a].mode = "all" => RevivesNone(facts, draft)
    BY DEF LedgerInv, ShapeInv, SourceInv
  <1>1. CASE UNCHANGED facts
    BY <1>1 DEF FactsOf
  <1>2. ASSUME NEW p \in op[a].rows, Retract(a), facts' = Upsert(facts, {Retracted(p)})
        PROVE  \E q \in FactsOf(e) : r.state = "active" => q.state = "active"
    <2>1. p \in facts
      BY <1>0, <1>2 DEF HeldInv, Table, Writes, Retract, At
    <2>2. Retracted(p).source = p.source /\ Retracted(p).state # "active"
      BY <1>0, <2>1, RetractedIsInactive
    <2> QED
      BY <1>2, <2>1, <2>2 DEF FactsOf, Upsert
  <1>3. ASSUME NEW d \in Episodes, facts' = {q \in facts : q.source # d}
        PROVE  \E q \in FactsOf(e) : r.state = "active" => q.state = "active"
    BY <1>3 DEF FactsOf
  <1>4. ASSUME Commit(a), facts' = draft
        PROVE  \E q \in FactsOf(e) : r.state = "active" => q.state = "active"
    <2>1. Writes(a) /\ op[a].at = "write"
      BY <1>0, <1>4 DEF Commit, LockInv, At
    <2>2. op[a].mode = "all"
      <3>1. op[a].mode # "accepted" /\ op[a].mode # "preview"
        BY <2>1 DEF Accepting, Writes
      <3>2. op[a].mode # "none"
        BY <2>1 DEF SourceInv, PlaceInv
      <3> QED
        BY <1>0, <3>1, <3>2 DEF Op
    <2> QED
      BY <1>0, <1>4, <2>1, <2>2 DEF RevivesNone, FactsOf
  <1> QED
    BY <1>0, <1>1, <1>2, <1>3, <1>4, FactsSteps

\* With one process, when forget answers, the facts drawn from the episode
\* are inactive, and only a client that accepts an old proposal changes that.
THEOREM ForgottenIsSilentCorrect ==
  ASSUME Alone
  PROVE  LedgerSpec /\ []Roomy => ForgottenIsSilent
  <1> DEFINE Silent == \A e \in forgotten' :
                         \/ Active(FactsOf(e))' = {}
                         \/ e \in forgotten /\ Active(FactsOf(e)) # {}
                         \/ Accepting
  <1>1. LedgerInv /\ SoloInv /\ SourceInv /\ [LedgerNext]_ledgerVars => [Silent]_ledgerVars
    <2> SUFFICES ASSUME LedgerInv, SoloInv, SourceInv, NEW a \in Actors, LedgerStep(a),
                        NEW e \in forgotten', ~Accepting, Active(FactsOf(e))' # {}
                 PROVE  e \in forgotten /\ Active(FactsOf(e)) # {}
      BY DEF LedgerNext
    <2>1. CASE e \in forgotten
      <3>1. e \in Episodes /\ episode[e] # "visible"
        BY <2>1 DEF LedgerInv, ShapeInv, SourceInv, AnsweredInv
      <3>2. PICK r \in FactsOf(e)' : r.state = "active"
        BY DEF Active
      <3>3. PICK q \in FactsOf(e) : q.state = "active"
        BY <3>1, <3>2, NothingRevived
      <3> QED
        BY <2>1, <3>3 DEF Active
    <2>2. CASE e \notin forgotten
      <3>1. CASE ForgetEnds(a)
        <4>1. e = op[a].episode /\ op[a].rows = {} /\ At(a, "retract") /\ facts' = facts
          BY <2>2, <3>1 DEF ForgetEnds, factVars
        <4>2. {r \in Active(facts) : r.source = e} = {}
          BY <4>1 DEF SoloInv, RetractInv
        <4> QED
          BY <4>1, <4>2 DEF Active, FactsOf
      <3>2. CASE PurgeEmbedding(a)
        <4>1. e = op[a].episode /\ At(a, "embedding") /\ facts' = facts
          BY <2>2, <3>2 DEF PurgeEmbedding, factVars
        <4>2. FactsOf(e) = {}
          BY <4>1 DEF SourceInv, PlaceInv, At
        <4> QED
          BY <4>1, <4>2 DEF Active, FactsOf
      <3>3. ForgetEnds(a) \/ PurgeEmbedding(a)
        BY <2>2 DEF LedgerStep, Remember, Embed, IngestMarkdown, Forget, SelectLinked,
             Retract, Purge, PurgeEvidence, PurgeEpisode, Consolidate,
             ConsolidateAccepted, Begin, QueryFacts, BeginWrite, SkipKnown, Persist,
             Commit, Propose, Stop, clientVars
      <3> QED
        BY <3>1, <3>2, <3>3
    <2> QED
      BY <2>1, <2>2
  <1> QED
    BY <1>1, LedgerInvHolds, SoloInvHolds, SourceInvHolds, PTL
    DEF LedgerSpec, ForgottenIsSilent

\* With one process, however many facts there are: when a purge answers,
\* nothing derived from the episode is left, and only a client that accepts an
\* old proposal brings any of it back.
THEOREM PurgedIsGoneCorrect ==
  ASSUME Alone
  PROVE  LedgerSpec => PurgedIsGone
  <1> DEFINE Gone == \A e \in purged' :
                       \/ ~Traced(e)'
                       \/ e \in purged /\ Traced(e)
                       \/ Accepting
  <1>1. LedgerInv /\ SourceInv /\ [LedgerNext]_ledgerVars => [Gone]_ledgerVars
    <2> SUFFICES ASSUME LedgerInv, SourceInv, NEW a \in Actors, LedgerStep(a),
                        NEW e \in purged', ~Accepting, Traced(e)'
                 PROVE  e \in purged /\ Traced(e)
      BY DEF LedgerNext
    <2>1. CASE e \in purged
      <3>1. e \in Episodes /\ episode[e] = "gone"
        BY <2>1 DEF LedgerInv, ShapeInv, SourceInv, AnsweredInv
      <3>2. CASE FactsOf(e)' # {}
        <4>1. FactsOf(e) # {}
          BY <3>1, <3>2, NothingRevived
        <4> QED
          BY <2>1, <4>1 DEF Traced
      <3>3. CASE e \in evidence' \union embedding'
        <4>1. CASE e \in evidence \union embedding
          BY <2>1, <4>1 DEF Traced
        <4>2. ASSUME NEW d \in Episodes, Remember(a, d), e \notin evidence \union embedding
              PROVE  FALSE
          <5>1. e = d
            BY <3>3, <4>2 DEF Remember
          <5>2. episode[d] = "absent"
            BY <4>2 DEF Remember, Insert
          <5> QED
            BY <3>1, <5>1, <5>2
        <4>3. ASSUME Embed(a), e \notin evidence \union embedding
              PROVE  FALSE
          <5>1. e = op[a].episode /\ At(a, "embed")
            BY <3>3, <4>3 DEF Embed
          <5> QED
            BY <3>1, <5>1 DEF SourceInv, PlaceInv
        <4>4. \/ evidence' \union embedding' \subseteq evidence \union embedding
              \/ Embed(a) \/ \E d \in Episodes : Remember(a, d)
          BY DEF LedgerStep, IngestMarkdown, Forget, SelectLinked, Retract, ForgetEnds,
               Purge, PurgeEvidence, PurgeEpisode, PurgeEmbedding, Consolidate,
               ConsolidateAccepted, Begin, QueryFacts, BeginWrite, SkipKnown, Persist,
               Commit, Propose, Stop, episodeVars
        <4> QED
          BY <3>3, <4>1, <4>2, <4>3, <4>4
      <3> QED
        BY <3>2, <3>3 DEF Traced
    <2>2. CASE e \notin purged
      <3>1. PurgeEmbedding(a)
        BY <2>2 DEF LedgerStep, Remember, Embed, IngestMarkdown, Forget, SelectLinked,
             Retract, ForgetEnds, Purge, PurgeEvidence, PurgeEpisode, Consolidate,
             ConsolidateAccepted, Begin, QueryFacts, BeginWrite, SkipKnown, Persist,
             Commit, Propose, Stop, clientVars
      <3>2. /\ e = op[a].episode /\ At(a, "embedding") /\ facts' = facts
            /\ evidence' = evidence /\ e \notin embedding'
        BY <2>2, <3>1 DEF PurgeEmbedding, factVars
      <3>3. FactsOf(e) = {} /\ e \notin evidence
        BY <3>2 DEF SourceInv, PlaceInv, At
      <3> QED
        BY <3>2, <3>3 DEF Traced, FactsOf
    <2> QED
      BY <2>1, <2>2
  <1> QED
    BY <1>1, LedgerInvHolds, SourceInvHolds, PTL DEF LedgerSpec, PurgedIsGone

\* The same with no hypothesis on the behaviour: with one process and no more claims
\* than the limits of the queries, active facts agree, history is frozen, what was
\* forgotten is silent, and a reader sees beliefs.
THEOREM SmallLedgerCorrect ==
  ASSUME Alone, IsFiniteSet(Claims), Cardinality(Claims) <= FactLimit,
         Cardinality(Claims) <= ForgetLimit
  PROVE  LedgerSpec => /\ []ActiveFactsAgree
                       /\ HistoryIsFrozen
                       /\ ForgottenIsSilent
                       /\ ImplementsBeliefs
  BY FewClaimsAreRoomy, ActiveFactsAgreeCorrect, HistoryIsFrozenCorrect,
     ForgottenIsSilentCorrect, LedgerImplementsBeliefs, PTL

-----------------------------------------------------------------------------
(***************************************************************************)
(* The last word, one process at a time.                                   *)
(***************************************************************************)
\* listRecent returns every visible episode.
Listed == Cardinality({e \in Episodes : episode[e] = "visible"}) <= EpisodeLimit

\* Times of observation are past and differ.
ClockInv ==
  /\ now \in Nat
  /\ \A e \in Episodes : observed[e] \in Nat /\ observed[e] <= now
  /\ \A d, e \in Episodes :
       d # e /\ episode[d] # "absent" /\ episode[e] # "absent" =>
         observed[d] # observed[e]

\* A candidate already looked at precedes those that are left; its claim is
\* stored, or a later one on its functional key has been looked at too.
LookedAt(a) ==
  \A c \in Said \ op[a].todo :
    /\ \A d \in op[a].todo : Precedes(c, d)
    /\ \/ Claim(c) \in op[a].known
       \/ /\ Key[Claim(c)] \in Functional
          /\ \E d \in Said \ op[a].todo :
               Key[Claim(d)] = Key[Claim(c)] /\ Precedes(c, d)

TodoInv(a) ==
  Consolidates(a) => /\ op[a].todo \subseteq Said
                     /\ ~At(a, "write") => op[a].todo = Said
                     /\ At(a, "write") => LookedAt(a)

OrderInv == ClockInv /\ \A a \in Actors : TodoInv(a)

LEMMA SaidIsOrdered ==
  ASSUME ClockInv, NEW c \in Said, NEW d \in Said, c # d
  PROVE  Precedes(c, d) \/ Precedes(d, c)
  <1>1. \A b \in Said : /\ b = <<b[1], b[2]>> /\ b[1] \in Episodes /\ b[2] \in Nat
                        /\ episode[b[1]] = "visible"
    BY LedgerConstants DEF Said, Candidate
  <1>2. CASE c[1] = d[1]
    BY <1>1, <1>2 DEF Precedes
  <1>3. CASE c[1] # d[1]
    BY <1>1, <1>3 DEF Precedes, ClockInv
  <1> QED
    BY <1>2, <1>3

LEMMA ListedReadsAll ==
  ASSUME Listed
  PROVE  Recent = {{e \in Episodes : episode[e] = "visible"}}
  BY DEF Listed, Recent

LEMMA ClockNext ==
  ASSUME ShapeInv, SourceInv, ClockInv, NEW a \in Actors, LedgerStep(a)
  PROVE  ClockInv'
  <1>0. /\ now \in Nat
        /\ observed \in [Episodes -> Nat]
        /\ episode \in [Episodes -> {"absent", "visible", "hidden", "gone"}]
    BY DEF ShapeInv
  <1>1. ASSUME NEW S \in SUBSET Episodes, Insert(S)
        PROVE  ClockInv'
    <2>1. Cardinality(S) \in Nat
      BY <1>1, FS_CardinalityType DEF Insert
    <2>2. now' \in Nat /\ now <= now'
      BY <1>0, <1>1, <2>1 DEF Insert
    <2>3. PICK time \in [S -> now + 1..now'] :
            /\ \A d, e \in S : d # e => time[d] # time[e]
            /\ observed' = [e \in Episodes |-> IF e \in S THEN time[e] ELSE observed[e]]
      BY <1>1 DEF Insert
    <2>4. \A e \in S : time[e] \in Nat /\ time[e] > now /\ time[e] <= now'
      BY <1>0, <2>2, <2>3
    <2>5. \A e \in Episodes :
            observed'[e] = IF e \in S THEN time[e] ELSE observed[e]
      BY <2>3
    <2>6. \A e \in Episodes : observed'[e] \in Nat /\ observed'[e] <= now'
      BY <1>0, <2>2, <2>4, <2>5 DEF ClockInv
    <2>7. \A e \in Episodes \ S : episode'[e] = episode[e]
      BY <1>1 DEF Insert
    <2>8. ASSUME NEW d \in Episodes, NEW e \in Episodes, d # e,
                 episode'[d] # "absent", episode'[e] # "absent"
          PROVE  observed'[d] # observed'[e]
      <3>1. CASE d \in S /\ e \in S
        BY <2>3, <2>5, <2>8, <3>1
      <3>2. CASE d \notin S /\ e \notin S
        BY <2>5, <2>7, <2>8, <3>2 DEF ClockInv
      <3>3. CASE d \in S /\ e \notin S
        BY <1>0, <2>4, <2>5, <3>3 DEF ClockInv
      <3>4. CASE d \notin S /\ e \in S
        BY <1>0, <2>4, <2>5, <3>4 DEF ClockInv
      <3> QED
        BY <3>1, <3>2, <3>3, <3>4
    <2> QED
      BY <2>2, <2>6, <2>8 DEF ClockInv
  <1>2. CASE \/ \E e \in Episodes : Remember(a, e)
             \/ \E S \in SUBSET Episodes : IngestMarkdown(a, S)
    BY <1>1, <1>2 DEF Remember, IngestMarkdown
  <1>3. ASSUME now' \in {now, now + 1}, observed' = observed,
               \A e \in Episodes : episode'[e] = "absent" <=> episode[e] = "absent"
        PROVE  ClockInv'
    BY <1>0, <1>3 DEF ClockInv
  <1>4. CASE PurgeEpisode(a)
    <2>1. now' = now /\ observed' = observed
      BY <1>4 DEF PurgeEpisode
    <2> QED
      <3>1. episode' = [episode EXCEPT ![op[a].episode] = "gone"]
        BY <1>4 DEF PurgeEpisode
      <3>2. \A d, e \in Episodes :
              d # e /\ episode'[d] # "absent" /\ episode'[e] # "absent" =>
                observed[d] # observed[e]
        <4>1. op[a].episode \in Episodes /\ episode[op[a].episode] # "absent"
          BY <1>4 DEF ShapeInv, SourceInv, PlaceInv, PurgeEpisode, At
        <4> QED
          BY <1>0, <3>1, <4>1 DEF ClockInv
      <3> QED
        BY <2>1, <3>2 DEF ClockInv
  <1>5. CASE \E e \in Episodes : Forget(a, e)
    <2>1. PICK e \in Episodes : Forget(a, e)
      BY <1>5
    <2>2. now' = now + 1 /\ observed' = observed
      BY <2>1 DEF Forget, Begins
    <2>3. \A d \in Episodes : episode'[d] = "absent" <=> episode[d] = "absent"
      BY <1>0, <2>1 DEF Forget
    <2> QED
      BY <1>3, <2>2, <2>3
  <1>6. CASE \/ Embed(a) \/ SelectLinked(a) \/ Retract(a) \/ ForgetEnds(a)
             \/ \E e \in Episodes : Purge(a, e)
             \/ PurgeEvidence(a) \/ PurgeEmbedding(a)
             \/ Consolidate(a) \/ ConsolidateAccepted(a) \/ QueryFacts(a) \/ BeginWrite(a)
             \/ SkipKnown(a) \/ Persist(a) \/ Commit(a) \/ Propose(a) \/ Stop(a)
    <2>1. observed' = observed /\ episode' = episode /\ now' \in {now, now + 1}
      BY <1>6 DEF Embed, SelectLinked, Retract, ForgetEnds, Purge, Begins, PurgeEvidence,
           PurgeEmbedding, Consolidate, ConsolidateAccepted, Begin, QueryFacts,
           BeginWrite, SkipKnown, Persist, Commit, Propose, Stop, episodeVars
    <2> QED
      BY <1>3, <2>1
  <1> QED
    BY <1>2, <1>4, <1>5, <1>6 DEF LedgerStep

LEMMA TodoNext ==
  ASSUME Alone, LedgerInv, SoloInv, SourceInv, OrderInv, Listed,
         NEW a \in Actors, LedgerStep(a)
  PROVE  TodoInv(a)'
  <1>0. /\ ShapeInv /\ op[a] \in Op /\ TodoInv(a) /\ ClockInv /\ MapsInv(a)
    BY DEF LedgerInv, ShapeInv, OrderInv, SoloInv
  <1>1. CASE op'[a].at \notin {"query", "extract", "write"}
    BY <1>1 DEF TodoInv, Consolidates
  <1>2. CASE \/ Ends(a) \/ \E S \in SUBSET Episodes : IngestMarkdown(a, S)
             \/ \E e \in Episodes : Remember(a, e) \/ Forget(a, e) \/ Purge(a, e)
             \/ SelectLinked(a) \/ Retract(a) \/ PurgeEvidence(a) \/ PurgeEpisode(a)
    BY <1>0, <1>1, <1>2, OpSteps
  <1>3. CASE Consolidate(a)
    <2>1. PICK S, mode :
            S \in Recent /\ Begin(a, mode, {c \in Candidate : c[1] \in S})
      BY <1>3 DEF Consolidate
    <2>2. {c \in Candidate : c[1] \in S} = Said
      <3>1. S = {e \in Episodes : episode[e] = "visible"}
        BY <2>1, ListedReadsAll
      <3> QED
        BY <3>1, ClaimIsClaim DEF Said
    <2>3. op'[a].at = "query" /\ op'[a].todo = Said
      BY <1>0, <2>1, <2>2, OpSteps
    <2>4. Said' = Said
      BY <2>1 DEF Begin, Said, episodeVars
    <2> QED
      BY <2>3, <2>4 DEF TodoInv, At
  <1>4. CASE ConsolidateAccepted(a)
    <2>1. PICK accept : Begin(a, "accepted", accept)
      BY <1>4 DEF ConsolidateAccepted
    <2>2. op'[a].mode = "accepted"
      BY <1>0, <2>1, OpSteps
    <2> QED
      BY <2>2 DEF TodoInv, Consolidates
  <1>5. CASE QueryFacts(a)
    <2>1. /\ op'[a].at = "extract" /\ op'[a].mode = op[a].mode
          /\ op'[a].todo = op[a].todo /\ op[a].at = "query"
      BY <1>0, <1>5, OpSteps DEF QueryFacts, At
    <2>2. Said' = Said
      BY <1>5 DEF QueryFacts, Said, episodeVars
    <2> QED
      BY <1>0, <2>1, <2>2 DEF TodoInv, Consolidates, At
  <1>6. CASE BeginWrite(a)
    <2>1. /\ op'[a].at = "write" /\ op'[a].mode = op[a].mode
          /\ op'[a].todo = op[a].todo /\ op[a].at = "extract"
      BY <1>0, <1>6, OpSteps DEF BeginWrite, At, Op
    <2>2. Said' = Said
      BY <1>6 DEF BeginWrite, Said, episodeVars
    <2> QED
      BY <1>0, <2>1, <2>2 DEF TodoInv, Consolidates, At, LookedAt
  <1>7. ASSUME NEW c \in First(op[a].todo), op[a].at = "write", op'[a].at = "write",
               op'[a].mode = op[a].mode, op'[a].todo = op[a].todo \ {c},
               UNCHANGED episodeVars, Claim(c) \in op'[a].known,
               \A b \in Said : Claim(b) \in op[a].known /\ Claim(b) \notin op'[a].known =>
                 Key[Claim(b)] \in Functional /\ Key[Claim(c)] = Key[Claim(b)]
        PROVE  TodoInv(a)'
    <2> SUFFICES ASSUME Consolidates(a)
                 PROVE  op'[a].todo \subseteq Said /\ LookedAt(a)'
      BY <1>7 DEF TodoInv, Consolidates, At, Said, episodeVars
    <2>1. op[a].todo \subseteq Said /\ LookedAt(a) /\ c \in op[a].todo
      BY <1>0, <1>7 DEF TodoInv, First, At
    <2>2. \A d \in op[a].todo \ {c} : Precedes(c, d)
      BY <1>0, <2>1, SaidIsOrdered DEF First
    <2>3. Said' = Said /\ \A b, d : Precedes(b, d)' <=> Precedes(b, d)
      BY <1>7 DEF Said, Precedes, episodeVars
    <2>4. ASSUME NEW b \in Said \ op'[a].todo
          PROVE  /\ \A d \in op'[a].todo : Precedes(b, d)
                 /\ \/ Claim(b) \in op'[a].known
                    \/ /\ Key[Claim(b)] \in Functional
                       /\ \E d \in Said \ op'[a].todo :
                            Key[Claim(d)] = Key[Claim(b)] /\ Precedes(b, d)
      <3>1. CASE b = c
        BY <1>7, <2>2, <3>1
      <3>2. CASE b \notin op[a].todo
        <4>1. /\ \A d \in op[a].todo : Precedes(b, d)
              /\ \/ Claim(b) \in op[a].known
                 \/ /\ Key[Claim(b)] \in Functional
                    /\ \E d \in Said \ op[a].todo :
                         Key[Claim(d)] = Key[Claim(b)] /\ Precedes(b, d)
          BY <2>1, <3>2 DEF LookedAt
        <4>2. CASE Claim(b) \in op[a].known /\ Claim(b) \notin op'[a].known
          BY <1>7, <2>1, <4>1, <4>2
        <4> QED
          BY <1>7, <4>1, <4>2
      <3> QED
        BY <1>7, <2>1, <3>1, <3>2
    <2> QED
      BY <1>7, <2>1, <2>3, <2>4 DEF LookedAt
  <1>8. CASE SkipKnown(a)
    <2>1. PICK c \in First(op[a].todo) :
            Claim(c) \in op[a].known /\ op'[a] = [op[a] EXCEPT !.todo = @ \ {c}]
      BY <1>0, <1>8, SkipStep
    <2>2. /\ op[a].at = "write" /\ op'[a].at = "write" /\ op'[a].mode = op[a].mode
          /\ op'[a].todo = op[a].todo \ {c} /\ op'[a].known = op[a].known
      BY <1>0, <1>8, <2>1 DEF SkipKnown, At, Op
    <2>3. UNCHANGED episodeVars
      BY <1>8 DEF SkipKnown
    <2> QED
      BY <1>7, <2>1, <2>2, <2>3
  <1>9. CASE Persist(a)
    <2>1. PICK c \in First(op[a].todo) : PersistsOne(a, c)
      BY <1>9, PersistWritesOne
    <2>2. op'[a] = After(a, c) /\ op[a].at = "write" /\ UNCHANGED episodeVars
      BY <1>0, <1>9, <2>1, OpSteps DEF Persist, At
    <2>3. op'[a].at = "write" /\ op'[a].mode = op[a].mode
      BY <2>2 DEF After
    <2>4. op'[a].todo = op[a].todo \ {c}
      BY <1>0, <2>2 DEF After, Op
    <2>5. op'[a].known = (op[a].known \ {r.claim : r \in Previous(a, c)}) \union {Claim(c)}
      BY <1>0, <2>2 DEF After, Op
    <2> SUFFICES ASSUME Consolidates(a)
                 PROVE  TodoInv(a)'
      BY <2>2, <2>3 DEF TodoInv, Consolidates
    <2>6. \A r \in op[a].rows : Key[r.claim] \in Functional
      BY <1>0, <2>2 DEF MapsInv, Writes, At, Consolidates, Single
    <2>7. \A r \in Previous(a, c) : Key[r.claim] \in Functional /\ Key[Claim(c)] = Key[r.claim]
      BY <2>6 DEF Previous
    <2>8. ASSUME NEW b \in Said, Claim(b) \in op[a].known, Claim(b) \notin op'[a].known
          PROVE  Key[Claim(b)] \in Functional /\ Key[Claim(c)] = Key[Claim(b)]
      BY <2>5, <2>7, <2>8
    <2> QED
      BY <1>7, <2>2, <2>3, <2>4, <2>5, <2>8
  <1> QED
    BY <1>2, <1>3, <1>4, <1>5, <1>6, <1>8, <1>9 DEF LedgerStep, Ends

LEMMA OrderInvHolds ==
  ASSUME Alone
  PROVE  LedgerSpec /\ []Roomy /\ []Listed => []OrderInv
  <1>1. LedgerInit => OrderInv
    BY DEF LedgerInit, OrderInv, ClockInv, TodoInv, Consolidates, Idle
  <1>2. /\ LedgerInv /\ SoloInv /\ SourceInv /\ OrderInv /\ Listed
        /\ [LedgerNext]_ledgerVars
        => OrderInv'
    <2> SUFFICES ASSUME LedgerInv, SoloInv, SourceInv, OrderInv, Listed,
                        [LedgerNext]_ledgerVars
                 PROVE  OrderInv'
      OBVIOUS
    <2>1. ASSUME NEW a \in Actors, LedgerStep(a)
          PROVE  OrderInv'
      BY <2>1, ClockNext, TodoNext DEF OrderInv, LedgerInv, Alone
    <2>2. CASE UNCHANGED ledgerVars
      BY <2>2 DEF ledgerVars, episodeVars, OrderInv, ClockInv, TodoInv, Consolidates,
                  LookedAt, Said, Precedes, At
    <2> QED
      BY <2>1, <2>2 DEF LedgerNext
  <1> QED
    BY <1>1, <1>2, LedgerInvHolds, SoloInvHolds, SourceInvHolds, PTL DEF LedgerSpec

\* With one process, and as long as the queries return every active fact and
\* every visible episode, a consolidation leaves active what the last of the
\* visible episodes says about each functional key, and all they say about the
\* other keys.
THEOREM LatestSaidIsActiveCorrect ==
  ASSUME Alone
  PROVE  LedgerSpec /\ []Roomy /\ []Listed => LatestSaidIsActive
  <1> DEFINE LastWord ==
        \A a \in Actors :
          (Commit(a) /\ op[a].mode = "all") =>
            {Claim(c) : c \in LastSaid} \subseteq {r.claim : r \in Active(facts)}'
  <1>1. LedgerInv /\ SoloInv /\ OrderInv /\ [LedgerNext]_ledgerVars => [LastWord]_ledgerVars
    <2> SUFFICES ASSUME LedgerInv, SoloInv, OrderInv,
                        NEW a \in Actors, Commit(a), op[a].mode = "all",
                        NEW c \in LastSaid
                 PROVE  Claim(c) \in {r.claim : r \in Active(facts)}'
      OBVIOUS
    <2>1. op[a].todo = {} /\ facts' = draft /\ At(a, "write") /\ Writes(a)
      BY DEF Commit, Writes
    <2>2. c \in Said /\ LookedAt(a)
      BY <2>1 DEF LastSaid, OrderInv, TodoInv, Consolidates, At
    <2>3. Claim(c) \in op[a].known
      BY <2>1, <2>2 DEF LookedAt, LastSaid
    <2>4. op[a].known = Stated(draft)
      BY <2>1 DEF SoloInv, MapsInv, Table
    <2> QED
      BY <2>1, <2>3, <2>4 DEF Stated
  <1> QED
    BY <1>1, LedgerInvHolds, SoloInvHolds, OrderInvHolds, PTL
    DEF LedgerSpec, LatestSaidIsActive

=============================================================================
