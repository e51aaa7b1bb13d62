------------------------------- MODULE Stores -------------------------------
(***************************************************************************)
(* The repositories of packages/storage, as operators on tables: what each *)
(* statement makes of the rows and what each query answers, for SQLite     *)
(* (the adapter the server runs on), for the in-memory arrays and for the  *)
(* episode table of PostgreSQL.                                            *)
(*                                                                         *)
(* All rows belong to the one workspace every request runs in              *)
(* (localContext), so that the workspace filters always let them through.  *)
(* A content is a model value; what search and extraction find in it is    *)
(* given by constants.                                                     *)
(***************************************************************************)
EXTENDS Naturals, FiniteSets, SequencesExt

CONSTANTS
  Spaces,    \* ids of knowledge spaces
  Contents,  \* texts that may be remembered
  Claims,    \* subject, predicate and object that a text may state
  Subject,   \* the name each claim is about
  Queries,   \* texts that may be searched for
  Tokens,    \* lexicalTokens of each query
  Words,     \* the whole words of each content, as FTS5 splits it
  Parts,     \* the tokens that occur somewhere in each content
  Holds      \* the queries that occur, whole, in each content

Names == {Subject[c] : c \in Claims}

\* A word of a text occurs in it, and so does every token of a query that
\* occurs in it.
ASSUME StoresConstants ==
  \A c \in Contents :
    Words[c] \subseteq Parts[c] /\ \A q \in Holds[c] : Tokens[q] \subseteq Parts[c]

\* ORDER BY and LIMIT.
Sorted(rows, before(_, _)) == CHOOSE q \in SetToSeqs(rows) : IsSorted(q, before)
Take(s, limit) == SubSeq(s, 1, IF Len(s) < limit THEN Len(s) ELSE limit)

---------------------------------------------------------------------------
(* Episodes.  The id of a row is also its place in the table.              *)

Episode == [id : Nat, space : Spaces, content : Contents, at : Nat,
            hidden : BOOLEAN, deleted : BOOLEAN]

NewEpisode(id, s, c, now) ==
  [id |-> id, space |-> s, content |-> c, at |-> now,
   hidden |-> FALSE, deleted |-> FALSE]

Shown(rows, s) == {r \in rows : r.space = s /\ ~r.hidden /\ ~r.deleted}

Newer(a, b) == a.at > b.at \/ (a.at = b.at /\ a.id < b.id)
Older(a, b) == a.at < b.at \/ (a.at = b.at /\ a.id < b.id)
Inserted(a, b) == a.id < b.id

\* ORDER BY observed_at DESC walks idx_episodes_workspace_space, equal times
\* in the order of the rows; the stable sort of the array agrees.
listRecent(rows, s, limit) == Take(Sorted(Shown(rows, s), Newer), limit)

\* PostgreSQL leaves the order of equal times open.
PgListRecent(rows, s, limit) ==
  {Take(q, limit) : q \in {q \in SetToSeqs(Shown(rows, s)) :
                             \A i, j \in DOMAIN q : i < j => q[i].at >= q[j].at}}

PartMatches(rows, s, q) ==
  {r \in Shown(rows, s) : Tokens[q] = {} \/ Tokens[q] \cap Parts[r.content] # {}}

\* Slip: without the fallback.
SlipNoFallback(rows, fts, s, q) ==
  {r \in Shown(rows, s) : r.id \in fts /\ Tokens[q] \cap Words[r.content] # {}}

\* FTS5 finds whole words; LIKE is asked only when that found nothing.
SqliteMatches(rows, fts, s, q) ==
  LET hits == {r \in Shown(rows, s) :
                 r.id \in fts /\ Tokens[q] \cap Words[r.content] # {}}
  IN IF hits # {} THEN hits ELSE PartMatches(rows, s, q)

SqliteSearch(rows, fts, s, q, limit) ==
  Take(Sorted(SqliteMatches(rows, fts, s, q), Newer), limit)

\* The array is not sorted: the limit keeps the oldest rows.
MemorySearch(rows, s, q, limit) ==
  Take(Sorted(PartMatches(rows, s, q), Inserted), limit)

\* ILIKE looks for the query as it was typed.
PgSearch(rows, s, q, limit) ==
  Take(Sorted({r \in Shown(rows, s) : q \in Holds[r.content]}, Newer), limit)

\* hide, delete and purge name a row by its id alone.
HideEpisode(rows, e) ==
  {IF r.id = e THEN [r EXCEPT !.hidden = TRUE] ELSE r : r \in rows}
DeleteEpisode(rows, e) ==
  {IF r.id = e THEN [r EXCEPT !.deleted = TRUE] ELSE r : r \in rows}
PurgeEpisode(rows, e) == {r \in rows : r.id # e}

---------------------------------------------------------------------------
(* Facts.  `live` is "retracted_at IS NULL".                               *)

Fact == [id : Nat, space : Spaces, claim : Claims, source : Nat, at : Nat,
         live : BOOLEAN]

Live(rows, s) == {f \in rows : f.space = s /\ f.live}

SqliteFacts(rows, s, limit) == Take(Sorted(Live(rows, s), Newer), limit)
MemoryFacts(rows, s, limit) == Take(Sorted(Live(rows, s), Inserted), limit)

RetractFacts(rows, gone) ==
  {IF f \in gone THEN [f EXCEPT !.live = FALSE] ELSE f : f \in rows}

PurgeFacts(rows, e) == {f \in rows : f.source # e}

---------------------------------------------------------------------------
(* Entities.  The id of an entity is made of its name and is the key of    *)
(* the table, whatever the space.                                          *)

Entity == [name : Names, space : Spaces]

\* Slip: INSERT OR REPLACE.
SlipReplaceEntity(rows, e) == {r \in rows : r.name # e.name} \union {e}

\* INSERT OR IGNORE keeps the row that is there.
SqliteInsertEntity(rows, e) ==
  IF \E r \in rows : r.name = e.name THEN rows ELSE rows \union {e}

SqliteFindByAlias(rows, aliases, s, n) ==
  {r \in rows : r.space = s /\ r.name = n /\ aliases[n] > 0}

\* The array of aliases knows no spaces; without an alias the name itself is
\* looked for, in the space.
MemoryFindByAlias(rows, aliases, s, n) ==
  IF aliases[n] > 0 THEN {r \in rows : r.name = n}
  ELSE {r \in rows : r.name = n /\ r.space = s}

listEntities(rows, s) == {r \in rows : r.space = s}

---------------------------------------------------------------------------
(* Spaces.  A value "none" stands for a missing row.                       *)

Visibility == {"none", "private", "workspace", "organization"}

UpdateSpace(table, s, v) ==
  IF table[s] = "none" THEN table ELSE [table EXCEPT ![s] = v]
MemoryRemoveSpace(table, s) == [table EXCEPT ![s] = "none"]

\* A space that a grant refers to cannot be deleted: the statement throws.
SqliteRemoveSpace(table, s, granted) ==
  IF s \in granted THEN table ELSE [table EXCEPT ![s] = "none"]

\* Decisions are listed in the order they were recorded, that of their ids.
listDecisions(rows, s) == {d \in rows : d.space = s}
=============================================================================
