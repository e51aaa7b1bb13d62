------------------------------- MODULE Spaces -------------------------------
(***************************************************************************)
(* The knowledge spaces of one workspace behind the REST routes (rest.ts)  *)
(* and the MCP tools (mcp/server.ts): the memory and knowledge services    *)
(* over the repositories of Stores.                                        *)
(*                                                                         *)
(* On SQLite no handler waits for anything but its body, so each request   *)
(* is a step (Ledger has the interleavings of other processes and of model *)
(* providers).  The same requests are made of the in-memory adapter and of *)
(* the PostgreSQL episode table, so that their answers can be compared.    *)
(*                                                                         *)
(* Extraction finds at most one claim in a text, none of a functional      *)
(* predicate (those are Ledger's); validity times are left out.            *)
(***************************************************************************)
EXTENDS Stores

CONSTANTS
  Default,      \* LOCAL_SPACE_ID
  Stored,       \* contents remembered in it before
  Says,         \* the claim extraction finds in each content, or NoClaim
  NoClaim,
  Documents,    \* the segments of markdown documents that may be ingested
  Profiles,     \* the names in BRAINLEDGE_MCP_PROFILES, none when unset
  ListLimit,    \* 50: memories, timeline and facts answer so many rows
  EpisodeLimit, \* 100: consolidation reads so many episodes
  FactLimit,    \* 200: and so many facts
  ForgetLimit,  \* 500: forget reads so many facts
  MaxEpisodes,  \* bound on episodes
  MaxOps        \* bound on requests

ASSUME SpacesConstants ==
  /\ Default \in Spaces /\ Stored \in Seq(Contents)
  /\ Says \in [Contents -> Claims \union {NoClaim}] /\ NoClaim \notin Claims
  /\ Documents \subseteq Seq(Contents)
  /\ Profiles \in SUBSET STRING
  /\ {ListLimit, EpisodeLimit, FactLimit, ForgetLimit, MaxEpisodes, MaxOps}
       \subseteq Nat

VARIABLES
  db,      \* the tables of SQLite
  mem,     \* the arrays of the in-memory adapter
  pg,      \* the episodes table of PostgreSQL
  now,     \* the clock, in milliseconds
  newId,   \* ids given out, of episodes and of facts
  review,  \* what the last preview proposed
  loose,   \* history: the sources a space may keep facts of although it
           \* does not show them
  created, \* history: the spaces that were ever there
  ops      \* requests so far

spacesVars == <<db, mem, pg, now, newId, review, loose, created, ops>>

\* A request may name an episode by any id there ever was.
Ids == 1..newId.episode
Modes == {"hide", "delete", "retract", "purge"}

Tables ==
  [spaces : [Spaces -> Visibility],
   episodes : SUBSET Episode, fts : SUBSET Nat, evidence : SUBSET Nat,
   facts : SUBSET Fact, entities : SUBSET Entity, aliases : [Names -> Nat],
   decisions : SUBSET [id : Nat, space : Spaces]]

\* A proposal is the claim and the source of a fact; it names no space.
Proposal == [claim : Claims, source : Nat]

\* seedStandaloneIdentity: the default space, and a grant that refers to it;
\* then what was remembered in it.
Seeded ==
  [spaces |-> [s \in Spaces |-> IF s = Default THEN "private" ELSE "none"],
   episodes |-> {NewEpisode(i, Default, Stored[i], i) : i \in DOMAIN Stored},
   fts |-> DOMAIN Stored, evidence |-> DOMAIN Stored, facts |-> {}, entities |-> {},
   aliases |-> [n \in Names |-> 0], decisions |-> {}]

SpacesInit ==
  /\ db = Seeded
  /\ mem = [Seeded EXCEPT !.fts = {}]
  /\ pg = Seeded.episodes
  /\ now = Len(Stored)
  /\ newId = [episode |-> Len(Stored), fact |-> 0]
  /\ review = <<>>
  /\ loose = {}
  /\ created = {Default}
  /\ ops = 0

\* A request that may write is served.  No two come in one millisecond; the
\* segments of a document do.
Request ==
  /\ ops < MaxOps
  /\ ops' = ops + 1
  /\ now' = now + 1

(***************************************************************************)
(* The queries a request is answered with.                                 *)
(***************************************************************************)
FactRows(a, d, s, limit) ==
  IF a = "sqlite" THEN SqliteFacts(d.facts, s, limit)
  ELSE MemoryFacts(d.facts, s, limit)

FindByAlias(a, d, s, n) ==
  IF a = "sqlite" THEN SqliteFindByAlias(d.entities, d.aliases, s, n)
  ELSE MemoryFindByAlias(d.entities, d.aliases, s, n)

memories(d, s) == listRecent(d.episodes, s, ListLimit)
queryFacts(a, d, s) == FactRows(a, d, s, ListLimit)

\* What the workbench and the tools can learn of a space.
Seen(d, s) ==
  [memories |-> Shown(d.episodes, s), facts |-> Live(d.facts, s),
   entities |-> listEntities(d.entities, s),
   decisions |-> listDecisions(d.decisions, s), space |-> d.spaces[s]]

(***************************************************************************)
(* Consolidation: a loop over candidates.  `run` carries the tables, the   *)
(* keys of factsBySpo, the proposals and the number of facts.              *)
(***************************************************************************)
InsertEntity(a, d, s, n) ==
  LET e == [name |-> n, space |-> s]
  IN [d EXCEPT !.entities = IF a = "sqlite" THEN SqliteInsertEntity(@, e)
                            ELSE @ \union {e},
               !.aliases[n] = @ + 1]

\* Slips: the definitions below after a plausible mistake.
SlipNamesLater(a, d, s, n) == d
SlipForgetsKnown(run, c) == FALSE
SlipNoIndex(texts) == {}
SlipNoneLinked(a, d, s, e) == {}

NameSubject(a, d, s, n) ==
  IF FindByAlias(a, d, s, n) # {} THEN d ELSE InsertEntity(a, d, s, n)

AlreadyHeld(run, c) == c.claim \in run.known

Persist(a, run, s, c, persist) ==
  LET named == IF persist THEN NameSubject(a, run.d, s, Subject[c.claim]) ELSE run.d
      fact == [id |-> run.id + 1, space |-> s, claim |-> c.claim,
               source |-> c.source, at |-> run.at, live |-> TRUE]
  IN IF AlreadyHeld(run, c)
     THEN [run EXCEPT !.d = named]
     ELSE [run EXCEPT !.d = IF persist THEN [named EXCEPT !.facts = @ \union {fact}]
                            ELSE named,
                      !.known = @ \union {c.claim},
                      !.proposed = Append(@, c),
                      !.id = @ + 1]

\* The newest episodes, oldest first, each with what extraction finds in it.
Candidates(d, s) ==
  LET listed == ToSet(listRecent(d.episodes, s, EpisodeLimit))
      telling == {r \in listed : Says[r.content] # NoClaim}
      order == Sorted(telling, Older)
  IN [i \in DOMAIN order |-> [claim |-> Says[order[i].content], source |-> order[i].id]]

applyExtract(a, d, s, candidates, at, id, persist) ==
  LET known == {f.claim : f \in ToSet(FactRows(a, d, s, FactLimit))}
      start == [d |-> d, known |-> known, proposed |-> <<>>, id |-> id, at |-> at]
      run[i \in 0..Len(candidates)] ==
        IF i = 0 THEN start ELSE Persist(a, run[i - 1], s, candidates[i], persist)
  IN run[Len(candidates)]

previewExtract(a, d, s) ==
  applyExtract(a, d, s, Candidates(d, s), 0, 0, FALSE).proposed

(***************************************************************************)
(* Requests.                                                               *)
(***************************************************************************)
\* Each text becomes an episode with its index entry; remember adds the
\* evidence, ingestMarkdown does not.
InsertEpisodes(rows, s, texts, at) ==
  rows \union {NewEpisode(newId.episode + i, s, texts[i], at) : i \in DOMAIN texts}

NewIds(texts) == {newId.episode + i : i \in DOMAIN texts}

Store(s, texts, evidence) ==
  /\ newId.episode + Len(texts) <= MaxEpisodes
  /\ db' = [db EXCEPT !.episodes = InsertEpisodes(@, s, texts, now'),
                      !.fts = @ \union NewIds(texts),
                      !.evidence = @ \union evidence]
  /\ mem' = [mem EXCEPT !.episodes = InsertEpisodes(@, s, texts, now'),
                        !.evidence = @ \union evidence]
  /\ pg' = InsertEpisodes(pg, s, texts, now')
  /\ newId' = [newId EXCEPT !.episode = @ + Len(texts)]
  /\ UNCHANGED <<review, loose, created>>

\* The space in the path of a request need not exist.
Remember(s, c) == Request /\ Store(s, <<c>>, {newId.episode + 1})

IngestMarkdown(s, segments) == Request /\ Store(s, segments, {})

\* retractLinkedFacts: of the facts of the space in the path, those whose
\* source is the episode.
Linked(a, d, s, e) ==
  {f \in ToSet(FactRows(a, d, s, ForgetLimit)) : f.source = e}

Forgotten(a, d, s, e, mode) ==
  CASE mode \in {"hide", "retract"} ->
         [d EXCEPT !.episodes = HideEpisode(@, e),
                   !.facts = RetractFacts(@, Linked(a, d, s, e))]
    [] mode = "delete" ->
         [d EXCEPT !.episodes = DeleteEpisode(@, e),
                   !.facts = RetractFacts(@, Linked(a, d, s, e))]
    [] mode = "purge" ->
         [d EXCEPT !.facts = PurgeFacts(@, e), !.evidence = @ \ {e},
                   !.fts = @ \ {e}, !.episodes = PurgeEpisode(@, e)]

PgForgotten(rows, e, mode) ==
  CASE mode \in {"hide", "retract"} -> HideEpisode(rows, e)
    [] mode = "delete" -> DeleteEpisode(rows, e)
    [] mode = "purge" -> PurgeEpisode(rows, e)

\* An episode hidden through the path of one space leaves the facts that
\* others drew from it.
Forget(s, e, mode) ==
  /\ Request
  /\ db' = Forgotten("sqlite", db, s, e, mode)
  /\ mem' = Forgotten("memory", mem, s, e, mode)
  /\ pg' = PgForgotten(pg, e, mode)
  /\ loose' = IF mode = "purge" THEN loose
              ELSE loose \union {<<t, e>> : t \in Spaces \ {s}}
  /\ UNCHANGED <<newId, review, created>>

\* Both adapters are given the same candidates; neither hands out an id
\* again.
Extract(s, fromDb, fromMem) ==
  LET dbRun == applyExtract("sqlite", db, s, fromDb, now', newId.fact, TRUE)
      memRun == applyExtract("memory", mem, s, fromMem, now', newId.fact, TRUE)
  IN /\ db' = dbRun.d
     /\ mem' = memRun.d
     /\ newId' = [newId EXCEPT !.fact = Max({dbRun.id, memRun.id})]

Consolidate(s) ==
  /\ Request
  /\ Extract(s, Candidates(db, s), Candidates(mem, s))
  /\ UNCHANGED <<pg, review, loose, created>>

Preview(s) ==
  /\ review' = previewExtract("sqlite", db, s)
  /\ UNCHANGED <<db, mem, pg, now, newId, loose, created, ops>>

\* The body of the request says which facts and from which episodes: a
\* client sends the proposals of its preview, to whatever space.
Accept(s) ==
  /\ Request
  /\ review # <<>>
  /\ Extract(s, review, review)
  /\ loose' = loose \union {<<s, p.source>> : p \in ToSet(review)}
  /\ review' = <<>>
  /\ UNCHANGED <<pg, created>>

CreateSpace(s, v) ==
  /\ Request
  /\ s \notin created
  /\ db' = [db EXCEPT !.spaces[s] = v]
  /\ mem' = [mem EXCEPT !.spaces[s] = v]
  /\ created' = created \union {s}
  /\ UNCHANGED <<pg, newId, review, loose>>

PatchSpace(s, v) ==
  /\ Request
  /\ db' = [db EXCEPT !.spaces = UpdateSpace(@, s, v)]
  /\ mem' = [mem EXCEPT !.spaces = UpdateSpace(@, s, v)]
  /\ UNCHANGED <<pg, newId, review, loose, created>>

\* What the space holds stays.  The seeded grant refers to the default space.
DeleteSpace(s) ==
  /\ Request
  /\ db' = [db EXCEPT !.spaces = SqliteRemoveSpace(@, s, {Default})]
  /\ mem' = [mem EXCEPT !.spaces = MemoryRemoveSpace(@, s)]
  /\ UNCHANGED <<pg, newId, review, loose, created>>

Decide(s) ==
  LET d == [id |-> ops, space |-> s]
  IN /\ Request
     /\ db' = [db EXCEPT !.decisions = @ \union {d}]
     /\ mem' = [mem EXCEPT !.decisions = @ \union {d}]
     /\ UNCHANGED <<pg, newId, review, loose, created>>

(***************************************************************************)
(* The tools of the MCP server work on the default space.                  *)
(***************************************************************************)
Known == {"memory-read", "knowledge-read", "provenance-read", "ontology-read",
          "memory-write", "knowledge-admin", "decision-write"}
Implemented == {"memory-read", "memory-write", "knowledge-admin"}

\* Without a tool to offer the server does not start.
parseMcpProfiles ==
  IF Profiles = {} THEN Implemented
  ELSE IF Profiles \cap Implemented = {} THEN {} ELSE Profiles \cap Known

Tool ==
  \/ /\ "memory-write" \in parseMcpProfiles
     /\ \/ \E c \in Contents : Remember(Default, c)
        \/ \E e \in Ids, mode \in Modes :
             Forget(Default, e, mode)
  \/ /\ "knowledge-admin" \in parseMcpProfiles
     /\ Consolidate(Default) \/ Preview(Default)

\* The requests whose path names the space.
Serve(s) ==
  \/ \E c \in Contents : Remember(s, c)
  \/ \E segments \in Documents : IngestMarkdown(s, segments)
  \/ Consolidate(s)
  \/ Preview(s)
  \/ Accept(s)
  \/ Decide(s)
  \/ \E e \in Ids, mode \in Modes : Forget(s, e, mode)

Manage(s) ==
  \/ CreateSpace(s, "private")
  \/ PatchSpace(s, "workspace")
  \/ DeleteSpace(s)

SpacesNext == Tool \/ \E s \in Spaces : Serve(s) \/ Manage(s)

SpacesSpec == SpacesInit /\ [][SpacesNext]_spacesVars

(***************************************************************************)
(* Properties.                                                             *)
(***************************************************************************)

\* What space t shows of the tables d when they become e.
ShowsTheSame(t, d, e) ==
  LET before == Seen(d, t)
      after == Seen(e, t)
  IN \/ after = before
     \/ \E id \in Ids :
          /\ after.memories = {r \in before.memories : r.id # id}
          /\ \A part \in {"entities", "decisions", "space"} : after[part] = before[part]
          /\ after.facts \in {before.facts, {f \in before.facts : f.source # id}}
          /\ after.facts # before.facts => \A r \in e.episodes : r.id # id

\* A request changes what one space shows, the one in its path; but an
\* episode can be forgotten through any space, and purged with its facts
\* (rest.ts, memory-service.ts forget).
SpacesAreApart ==
  [][\A t \in Spaces :
       \/ ShowsTheSame(t, db, db') /\ ShowsTheSame(t, mem, mem')
       \/ Serve(t) \/ Manage(t)
    ]_spacesVars

\* The facts of a space come from episodes it shows, unless one was
\* forgotten through another space or the client named the source itself
\* (memory-service.ts:184, knowledge-service.ts factsFromAccepted).
NoOrphans ==
  \A f \in db.facts :
    f.live /\ <<f.space, f.source>> \notin loose =>
      \E r \in Shown(db.episodes, f.space) : r.id = f.source

\* Whatever a fact is about is an entity, in the space that named it first,
\* and consolidation finds it again there (sqlite-entity-repository.ts:41).
SubjectsAreKnown ==
  \A d \in {db, mem} : \A f \in d.facts :
    LET n == Subject[f.claim]
    IN \E e \in d.entities :
         /\ e.name = n
         /\ \A x \in d.entities : x.name = n => x = e
         /\ SqliteFindByAlias(d.entities, d.aliases, e.space, n) = {e}
         /\ MemoryFindByAlias(d.entities, d.aliases, f.space, n) = {e}

\* The adapters hold the same rows and list them alike; the index follows
\* the episodes (sqlite-episode-repository.ts, in-memory-*.ts,
\* postgres-episode-repository.ts).
AdaptersAgree ==
  /\ [mem EXCEPT !.fts = {}, !.aliases = {}, !.spaces[Default] = "none"] =
       [db EXCEPT !.fts = {}, !.aliases = {}, !.spaces[Default] = "none"]
  /\ pg = db.episodes
  /\ db.fts = {r.id : r \in db.episodes}
  /\ \A s \in Spaces :
       /\ memories(db, s) \in PgListRecent(pg, s, ListLimit)
       /\ \/ ToSet(queryFacts("sqlite", db, s)) = ToSet(queryFacts("memory", mem, s))
          \/ Cardinality(Live(db.facts, s)) > ListLimit

\* A word finds the episodes that have it, and on SQLite nothing else when
\* one has it whole; every adapter finds a part of what the arrays find, and
\* SQLite finds something whenever they do.  A limit keeps the newest on
\* SQLite and the oldest in memory (searchLexical of each adapter).
SearchesAgree ==
  \A s \in Spaces, q \in Queries :
    LET shown == Shown(db.episodes, s)
        whole == {r \in shown : Tokens[q] \cap Words[r.content] # {}}
        sqlite == SqliteMatches(db.episodes, db.fts, s, q)
        memory == PartMatches(mem.episodes, s, q)
        first == SqliteSearch(db.episodes, db.fts, s, q, 1)
    IN /\ whole \subseteq sqlite /\ sqlite \subseteq memory
       /\ whole # {} => sqlite = whole
       /\ memory # {} => sqlite # {}
       /\ ToSet(PgSearch(pg, s, q, MaxEpisodes)) \subseteq memory
       /\ \A r \in ToSet(first), x \in sqlite : ~Newer(x, r)

\* To accept every proposal of a preview stores what consolidation would
\* have stored, and then there is nothing left to propose
\* (knowledge-service.ts previewExtract, consolidate).
PreviewTellsTheFuture ==
  \A s \in Spaces :
    LET preview == previewExtract("sqlite", db, s)
        direct == applyExtract("sqlite", db, s, Candidates(db, s), now, newId.fact, TRUE)
        accepted == applyExtract("sqlite", db, s, preview, now, newId.fact, TRUE)
    IN /\ accepted.d.facts = direct.d.facts
       /\ accepted.d.entities = direct.d.entities
       /\ direct.proposed = preview
       /\ previewExtract("sqlite", direct.d, s) = <<>>
=============================================================================
