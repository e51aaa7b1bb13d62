------------------------------- MODULE Backup -------------------------------
(***************************************************************************)
(* brainledge backup and restore (cli/src/commands/backup.ts) beside the   *)
(* server on the same database.  The database is a file of pages and a     *)
(* write-ahead log (journal_mode = WAL): a commit writes pages to the log, *)
(* a checkpoint moves them to the file one by one and empties the log.     *)
(* How SQLite keeps them is external, modelled from its use in             *)
(* storage/src/sqlite/database.ts.                                         *)
(***************************************************************************)
EXTENDS Naturals, Sequences

CONSTANTS
  Pages,       \* 1..n: pages of database.sqlite, in file order
  MaxContents, \* bound: commits of the server and restores
  MaxKills     \* bound: kills of the server or the command line

ASSUME BackupConstants ==
  /\ Pages \subseteq Nat \ {0}
  /\ \A p \in Pages : 1..p \subseteq Pages
  /\ MaxContents \in Nat /\ MaxKills \in Nat

VARIABLES
  main,      \* the commit that wrote each page of database.sqlite
  wal,       \* the same for pages in the log; 0 for none
  history,   \* the contents a commit or a restore left, oldest first
  server,    \* whether `brainledge serve` is up
  moving,    \* pages that its checkpoint has yet to move
  target,    \* what it moves them to
  cli,       \* where the backup or restore stands
  page,      \* the page it copies next
  file,      \* the backup
  promised,  \* history: contents when the backup began
  quiet,     \* history: no checkpoint of the server met the copy
  restored,  \* history: the backup was restored and nothing committed since
  kills

backupVars == <<main, wal, history, server, moving, target, cli, page, file,
                promised, quiet, restored, kills>>

dbVars == <<main, wal, history>>
serverVars == <<server, moving, target>>
cliVars == <<cli, page, file, promised, quiet, restored>>

\* What a reader of the database sees.
Content == [p \in Pages |-> IF wal[p] # 0 THEN wal[p] ELSE main[p]]
EmptyLog == [p \in Pages |-> 0]
Fresh == [p \in Pages |-> 1]

BackupInit ==
  /\ main = Fresh
  /\ wal = EmptyLog
  /\ history = <<Fresh>>
  /\ server = "up"
  /\ moving = {}
  /\ target = Fresh
  /\ cli = "idle"
  /\ page = 1
  /\ file = Fresh
  /\ promised = 1
  /\ quiet = FALSE
  /\ restored = FALSE
  /\ kills = 0

(***************************************************************************)
(* The server.                                                             *)
(***************************************************************************)
\* No other process writes while the command holds the write lock; it holds
\* none while it copies.
Commit(S) ==
  /\ server = "up"
  /\ cli # "restore"
  /\ Len(history) <= MaxContents
  /\ wal' = [p \in Pages |-> IF p \in S THEN Len(history) + 1 ELSE wal[p]]
  /\ history' = Append(history, [p \in Pages |-> IF p \in S THEN Len(history) + 1 ELSE Content[p]])
  /\ restored' = FALSE
  /\ UNCHANGED <<main, serverVars, cli, page, file, promised, quiet, kills>>

BeginCheckpoint ==
  /\ server = "up"
  /\ cli # "restore"
  /\ moving = {}
  /\ wal # EmptyLog
  /\ moving' = {p \in Pages : wal[p] # 0}
  /\ target' = Content
  /\ quiet' = FALSE
  /\ UNCHANGED <<dbVars, server, cli, page, file, promised, restored, kills>>

\* The log is emptied when every page in it was moved.
MovePage(p) ==
  /\ p \in moving
  /\ main' = [main EXCEPT ![p] = target[p]]
  /\ moving' = moving \ {p}
  /\ wal' = IF moving' = {} /\ Content = target THEN EmptyLog ELSE wal
  /\ quiet' = FALSE
  /\ UNCHANGED <<history, server, target, cli, page, file, promised, restored, kills>>

\* Stopped, and killed: the first checkpoints as it closes the database.
StopServer ==
  /\ server = "up"
  /\ moving = {}
  /\ cli = "idle"
  /\ server' = "down"
  /\ main' = Content
  /\ wal' = EmptyLog
  /\ UNCHANGED <<history, moving, target, cliVars, kills>>

KillServer ==
  /\ server = "up"
  /\ kills < MaxKills
  /\ kills' = kills + 1
  /\ server' = "down"
  /\ moving' = {}
  /\ UNCHANGED <<dbVars, target, cliVars>>

StartServer ==
  /\ server = "down"
  /\ cli # "restore"
  /\ server' = "up"
  /\ UNCHANGED <<dbVars, moving, target, cliVars, kills>>

(***************************************************************************)
(* The command line.                                                       *)
(***************************************************************************)
\* Slip: restore leaves the log of the database it replaced.
SlipKeepsLog == wal

\* PRAGMA wal_checkpoint(TRUNCATE) of checkpointSqlite.  The log stays when
\* the server is writing.
Truncate ==
  /\ main' = Content
  /\ wal' \in {EmptyLog} \union (IF server = "up" THEN {wal} ELSE {})

\* While the server's own checkpoint runs the pragma answers "busy", which
\* nobody reads.
CheckpointSqlite ==
  /\ cli = "idle"
  /\ IF moving = {} THEN Truncate ELSE UNCHANGED <<main, wal>>
  /\ promised' = Len(history)
  /\ quiet' = (moving = {})
  /\ cli' = "backup"
  /\ page' = 1
  /\ UNCHANGED <<history, serverVars, file, restored, kills>>

CopyPage ==
  /\ cli = "backup"
  /\ page \in Pages
  /\ file' = [file EXCEPT ![page] = main[page]]
  /\ page' = page + 1
  /\ restored' = FALSE
  /\ UNCHANGED <<dbVars, serverVars, cli, promised, quiet, kills>>

BackedUp ==
  /\ cli = "backup"
  /\ page \notin Pages
  /\ cli' = "idle"
  /\ UNCHANGED <<dbVars, serverVars, page, file, promised, quiet, restored, kills>>

\* The server is down: the program does not check, its user is to.
BeginRestore ==
  /\ cli = "idle"
  /\ server = "down"
  /\ Len(history) <= MaxContents
  /\ cli' = "restore"
  /\ page' = 1
  /\ restored' = FALSE
  /\ UNCHANGED <<dbVars, serverVars, file, promised, quiet, kills>>

RestorePage ==
  /\ cli = "restore"
  /\ page \in Pages
  /\ main' = [main EXCEPT ![page] = file[page]]
  /\ page' = page + 1
  /\ UNCHANGED <<wal, history, serverVars, cli, file, promised, quiet, restored, kills>>

\* removeSqliteSidecars leaves no log.
Sidecars == EmptyLog

RemoveSidecars ==
  /\ cli = "restore"
  /\ page \notin Pages
  /\ UNCHANGED main
  /\ wal' = Sidecars
  /\ history' = Append(history, Content')
  /\ cli' = "idle"
  /\ restored' = TRUE
  /\ UNCHANGED <<serverVars, page, file, promised, quiet, kills>>

\* A backup that was cut off is no backup; a restore that was leaves the
\* file half replaced, with the old log beside it.
KillCommand ==
  /\ cli # "idle"
  /\ kills < MaxKills
  /\ kills' = kills + 1
  /\ cli' = "idle"
  /\ quiet' = (quiet /\ cli # "backup")
  /\ history' = IF cli = "restore" THEN Append(history, Content) ELSE history
  /\ UNCHANGED <<main, wal, serverVars, page, file, promised, restored>>

Serve ==
  \/ \E S \in SUBSET Pages : S # {} /\ Commit(S)
  \/ BeginCheckpoint \/ \E p \in Pages : MovePage(p)
  \/ StopServer \/ KillServer \/ StartServer

Command ==
  \/ CheckpointSqlite \/ CopyPage \/ BackedUp
  \/ BeginRestore \/ RestorePage \/ RemoveSidecars \/ KillCommand

BackupNext == Serve \/ Command

BackupSpec == BackupInit /\ [][BackupNext]_backupVars

(***************************************************************************)
(* Properties.                                                             *)
(***************************************************************************)
\* A backup that no checkpoint of the server met holds one content the
\* database had, the last before it or a later one; and the database
\* restored from it is this content, even if the database was left by a
\* killed server or a killed restore (backup.ts:43 copies without a lock,
\* backup.ts:59 removes the log).
BackupIsASnapshot ==
  /\ (cli = "idle" /\ quiet) => \E n \in promised..Len(history) : file = history[n]
  /\ restored => Content = file
=============================================================================
