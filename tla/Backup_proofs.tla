--------------------------- MODULE Backup_proofs ---------------------------
(***************************************************************************)
(* What a backup holds and what a restore leaves, for any number of pages, *)
(* commits and kills.                                                      *)
(***************************************************************************)
EXTENDS Backup, TLAPS

Image == [Pages -> Nat]

BackupShape ==
  /\ main \in Image /\ wal \in Image /\ target \in Image /\ file \in Image
  /\ history \in Seq(Image) /\ Len(history) >= 1
  /\ server \in {"up", "down"} /\ cli \in {"idle", "backup", "restore"}
  /\ moving \subseteq Pages
  /\ page \in Nat \ {0} /\ promised \in 1..Len(history)

\* Half way through a checkpoint the pages not to be moved are what they
\* will be, and those to be moved are in the log.
Checkpointing ==
  /\ server = "down" => moving = {}
  /\ cli = "restore" => server = "down"
  /\ moving # {} => /\ \A p \in Pages \ moving : main[p] = target[p]
                    /\ \A p \in moving : wal[p] # 0

\* The database holds what was committed last, except during a restore.
Durable == cli # "restore" => Content = history[Len(history)]

\* A copy no checkpoint meets is of one content; a restore replaces the
\* file page by page.
Copied ==
  /\ cli = "backup" /\ quiet =>
       /\ \E n \in promised..Len(history) : main = history[n]
       /\ \A p \in Pages : p < page => file[p] = main[p]
  /\ cli # "backup" /\ quiet => \E n \in promised..Len(history) : file = history[n]
  /\ cli = "restore" => \A p \in Pages : p < page => main[p] = file[p]
  /\ restored => cli # "restore" /\ Content = file

BackupInv == BackupShape /\ Checkpointing /\ Durable /\ Copied

LEMMA ImageFacts ==
  ASSUME BackupShape
  PROVE  /\ Content \in Image /\ EmptyLog \in Image
         /\ Len(history) \in Nat /\ \A n \in 1..Len(history) : history[n] \in Image
BY DEF BackupShape, Content, EmptyLog, Image

LEMMA BackupInitially == BackupInit => BackupInv
<1> SUFFICES ASSUME BackupInit PROVE BackupInv
  OBVIOUS
<1> USE DEF BackupInit
<1>1. Fresh \in Image /\ EmptyLog \in Image
  BY DEF Fresh, EmptyLog, Image
<1>2. Content = Fresh
  BY DEF Content, Fresh, EmptyLog
<1>3. history \in Seq(Image) /\ Len(history) = 1 /\ history[1] = Fresh
  BY <1>1
<1>4. BackupShape
  BY <1>1, <1>3 DEF BackupShape
<1> QED
  BY <1>2, <1>3, <1>4 DEF BackupInv, Checkpointing, Durable, Copied

-----------------------------------------------------------------------------
\* What a step does to history: nothing, or an image more.
LEMMA HistoryGrows ==
  ASSUME BackupShape, NEW image \in Image, history' = Append(history, image)
  PROVE  /\ history' \in Seq(Image) /\ Len(history') = Len(history) + 1
         /\ history'[Len(history')] = image
         /\ \A n \in 1..Len(history) : history'[n] = history[n]
         /\ 1..Len(history) \subseteq 1..Len(history')
BY DEF BackupShape

LEMMA CommitKeeps ==
  ASSUME BackupInv, NEW S \in SUBSET Pages, Commit(S)
  PROVE  BackupInv'
<1> DEFINE number == Len(history) + 1
           image == [p \in Pages |-> IF p \in S THEN number ELSE Content[p]]
<1> USE DEF BackupInv
<1>1. /\ server = "up" /\ cli # "restore" /\ history' = Append(history, image)
      /\ wal' = [p \in Pages |-> IF p \in S THEN number ELSE wal[p]]
      /\ restored' = FALSE
      /\ UNCHANGED <<main, server, moving, target, cli, page, file, promised, quiet>>
  BY DEF Commit, serverVars
<1>2. number \in Nat \ {0} /\ image \in Image /\ wal' \in Image
  BY <1>1, ImageFacts DEF Image, BackupShape
<1>3. Content' = image
  BY <1>1, <1>2 DEF Content
<1> HIDE DEF image, number
<1>4. /\ history' \in Seq(Image) /\ Len(history') = Len(history) + 1
      /\ history'[Len(history')] = image
      /\ \A n \in 1..Len(history) : history'[n] = history[n]
  BY <1>1, <1>2, HistoryGrows
<1>5. BackupShape'
  BY <1>1, <1>2, <1>4 DEF BackupShape
<1>6. Checkpointing'
  BY <1>1, <1>2 DEF Checkpointing, BackupShape
<1>7. Durable'
  BY <1>3, <1>4 DEF Durable
<1>8. Copied'
  <2>1. \A n \in promised..Len(history) :
          n \in promised'..Len(history') /\ history'[n] = history[n]
    BY <1>1, <1>4 DEF BackupShape
  <2> QED
    BY <1>1, <2>1 DEF Copied
<1> QED
  BY <1>5, <1>6, <1>7, <1>8

LEMMA BeginCheckpointKeeps ==
  ASSUME BackupInv, BeginCheckpoint
  PROVE  BackupInv'
<1> USE DEF BackupInv
<1>1. /\ server = "up" /\ cli # "restore"
      /\ moving' = {p \in Pages : wal[p] # 0} /\ target' = Content /\ quiet' = FALSE
      /\ UNCHANGED <<main, wal, history, server, cli, page, file, promised, restored>>
  BY DEF BeginCheckpoint, dbVars
<1>2. Content' = Content
  BY <1>1 DEF Content
<1>3. BackupShape'
  BY <1>1, ImageFacts DEF BackupShape
<1>4. Checkpointing'
  BY <1>1 DEF Checkpointing, Content
<1> QED
  BY <1>1, <1>2, <1>3, <1>4 DEF Durable, Copied

\* Moving a page shows in no content: it is in the log until all are moved.
LEMMA MovePageKeeps ==
  ASSUME BackupInv, NEW p \in Pages, MovePage(p)
  PROVE  BackupInv'
<1> USE DEF BackupInv
<1>1. /\ p \in moving /\ main' = [main EXCEPT ![p] = target[p]] /\ moving' = moving \ {p}
      /\ wal' = (IF moving' = {} /\ Content = target THEN EmptyLog ELSE wal)
      /\ quiet' = FALSE
      /\ UNCHANGED <<history, server, target, cli, page, file, promised, restored>>
  BY DEF MovePage
<1>2. server = "up" /\ cli # "restore"
  BY <1>1 DEF Checkpointing, BackupShape
<1>3. main \in Image /\ wal \in Image /\ target \in Image
  BY DEF BackupShape
<1>4. wal[p] # 0 /\ \A q \in Pages \ moving : main[q] = target[q]
  BY <1>1 DEF Checkpointing
<1>5. BackupShape'
  BY <1>1, ImageFacts DEF BackupShape, Image
<1>6. Checkpointing'
  BY <1>1, <1>2, <1>3, <1>4 DEF Checkpointing, Image
<1>7. Content' = Content
  <2>1. CASE moving' = {} /\ Content = target
    <3>1. \A q \in Pages : main'[q] = target[q]
      BY <1>1, <1>3, <1>4, <2>1 DEF Image
    <3>2. Content' = [q \in Pages |-> main'[q]]
      BY <1>1, <2>1 DEF Content, EmptyLog
    <3>3. target = [q \in Pages |-> target[q]]
      BY <1>3 DEF Image
    <3> QED
      BY <2>1, <3>1, <3>2, <3>3
  <2>2. CASE ~(moving' = {} /\ Content = target)
    BY <1>1, <1>3, <1>4, <2>2 DEF Content, Image
  <2> QED
    BY <2>1, <2>2
<1> QED
  BY <1>1, <1>2, <1>5, <1>6, <1>7 DEF Durable, Copied

LEMMA ServerKeeps ==
  ASSUME BackupInv, StopServer \/ KillServer \/ StartServer
  PROVE  BackupInv'
<1> USE DEF BackupInv
<1>1. CASE StopServer
  <2>1. /\ cli = "idle" /\ moving = {} /\ server' = "down"
        /\ main' = Content /\ wal' = EmptyLog
        /\ UNCHANGED <<history, moving, target, cli, page, file, promised, quiet, restored>>
    BY <1>1 DEF StopServer, cliVars
  <2>2. Content' = Content
    BY <2>1 DEF Content, EmptyLog
  <2>3. BackupShape'
    BY <2>1, ImageFacts DEF BackupShape
  <2> QED
    BY <2>1, <2>2, <2>3 DEF Checkpointing, Durable, Copied
<1>2. CASE KillServer \/ StartServer
  <2>1. /\ server' \in {"up", "down"} /\ moving' \in {{}, moving}
        /\ server' = "down" => moving' = {}
        /\ server' = "up" => cli # "restore"
        /\ UNCHANGED <<main, wal, history, target, cli, page, file, promised, quiet, restored>>
    BY <1>2 DEF KillServer, StartServer, dbVars, cliVars
  <2>2. Content' = Content
    BY <2>1 DEF Content
  <2>3. BackupShape'
    BY <2>1 DEF BackupShape
  <2>4. Checkpointing'
    BY <2>1 DEF Checkpointing, BackupShape
  <2> QED
    BY <2>1, <2>2, <2>3, <2>4 DEF Durable, Copied
<1> QED
  BY <1>1, <1>2

-----------------------------------------------------------------------------
\* Pages are numbered from one, and one that is not among 1..n lies behind
\* all of them.
LEMMA PageNumbers ==
  ASSUME NEW p \in Pages
  PROVE  /\ p \in Nat /\ ~(p < 1)
         /\ \A n \in Nat \ {0} : n \notin Pages => p < n
<1>1. p \in Nat /\ p # 0
  BY BackupConstants, Zenon
<1>2. 1..p \subseteq Pages
  BY BackupConstants, Zenon
<1>3. ASSUME NEW n \in Nat \ {0}, n \notin Pages PROVE p < n
  <2>1. n \notin 1..p
    BY <1>2, <1>3
  <2> QED
    BY <1>1, <2>1
<1> QED
  BY <1>1, <1>3

\* The pragma leaves the last content in the file, and so does the backup's
\* copy of it as long as nothing moves pages under it.
LEMMA CheckpointSqliteKeeps ==
  ASSUME BackupInv, CheckpointSqlite
  PROVE  BackupInv'
<1> USE DEF BackupInv
<1>1. /\ cli = "idle" /\ cli' = "backup" /\ page' = 1
      /\ promised' = Len(history) /\ quiet' = (moving = {})
      /\ UNCHANGED <<history, server, moving, target, file, restored>>
  BY DEF CheckpointSqlite, serverVars
<1>2. Content = history[Len(history)] /\ Content \in Image
  BY <1>1, ImageFacts DEF Durable
<1>3. Len(history) \in Nat /\ Len(history) >= 1
  BY ImageFacts DEF BackupShape
<1>4. \A p \in Pages : ~(p < 1)
  BY PageNumbers
<1>5. CASE moving = {}
  <2>1. main' = Content /\ wal' \in {EmptyLog, wal}
    BY <1>5 DEF CheckpointSqlite, Truncate
  <2>2. Content' = Content
    BY <2>1 DEF Content, EmptyLog
  <2>3. BackupShape'
    BY <1>1, <1>2, <1>3, <2>1, ImageFacts DEF BackupShape
  <2>4. Checkpointing' /\ Durable'
    BY <1>1, <1>2, <1>5, <2>2 DEF Checkpointing, Durable
  <2>5. main' = history'[Len(history)] /\ Len(history) \in promised'..Len(history')
    BY <1>1, <1>2, <1>3, <2>1
  <2>6. restored' => cli' # "restore" /\ Content' = file'
    BY <1>1, <2>2 DEF Copied
  <2> QED
    BY <1>1, <1>4, <2>3, <2>4, <2>5, <2>6 DEF Copied
<1>6. CASE moving # {}
  <2>1. UNCHANGED <<main, wal>> /\ quiet' = FALSE
    BY <1>1, <1>6 DEF CheckpointSqlite
  <2>2. Content' = Content
    BY <2>1 DEF Content
  <2>3. BackupShape'
    BY <1>1, <1>3, <2>1 DEF BackupShape
  <2> QED
    BY <1>1, <2>1, <2>2, <2>3 DEF Checkpointing, Durable, Copied
<1> QED
  BY <1>5, <1>6

LEMMA CopyPageKeeps ==
  ASSUME BackupInv, CopyPage
  PROVE  BackupInv'
<1> USE DEF BackupInv
<1>1. /\ cli = "backup" /\ page \in Pages
      /\ file' = [file EXCEPT ![page] = main[page]] /\ page' = page + 1
      /\ restored' = FALSE
      /\ UNCHANGED <<main, wal, history, server, moving, target, cli, promised, quiet>>
  BY DEF CopyPage, dbVars, serverVars
<1>2. Content' = Content
  BY <1>1 DEF Content
<1>3. main \in Image /\ file \in Image /\ page \in Nat
  BY DEF BackupShape
<1>4. BackupShape'
  <2>1. file' \in Image
    BY <1>1, <1>3 DEF Image
  <2>2. page' \in Nat \ {0}
    BY <1>1, <1>3
  <2> QED
    BY <1>1, <2>1, <2>2 DEF BackupShape
<1>5. ASSUME quiet, NEW p \in Pages, p < page'
      PROVE  file'[p] = main'[p]
  <2>1. p < page \/ p = page
    BY <1>1, <1>3, <1>5, BackupConstants
  <2>2. p < page => file[p] = main[p]
    BY <1>1, <1>5 DEF Copied
  <2> QED
    BY <1>1, <1>3, <2>1, <2>2 DEF Image
<1> QED
  BY <1>1, <1>2, <1>4, <1>5 DEF Checkpointing, Durable, Copied

LEMMA BackedUpKeeps ==
  ASSUME BackupInv, BackedUp
  PROVE  BackupInv'
<1> USE DEF BackupInv
<1>1. /\ cli = "backup" /\ page \notin Pages /\ cli' = "idle"
      /\ UNCHANGED <<main, wal, history, server, moving, target, page, file, promised,
                     quiet, restored>>
  BY DEF BackedUp, dbVars, serverVars
<1>2. Content' = Content
  BY <1>1 DEF Content
<1>3. BackupShape'
  BY <1>1 DEF BackupShape
<1>4. quiet => file = main
  <2>1. \A p \in Pages : p < page
    BY <1>1, PageNumbers DEF BackupShape
  <2>2. main = [p \in Pages |-> main[p]] /\ file = [p \in Pages |-> file[p]]
    BY DEF BackupShape, Image
  <2>3. quiet => \A p \in Pages : file[p] = main[p]
    BY <1>1, <2>1 DEF Copied
  <2> QED
    BY <2>2, <2>3
<1> QED
  BY <1>1, <1>2, <1>3, <1>4 DEF Checkpointing, Durable, Copied

-----------------------------------------------------------------------------
LEMMA BeginRestoreKeeps ==
  ASSUME BackupInv, BeginRestore
  PROVE  BackupInv'
<1> USE DEF BackupInv
<1>1. /\ cli = "idle" /\ server = "down" /\ cli' = "restore" /\ page' = 1
      /\ restored' = FALSE
      /\ UNCHANGED <<main, wal, history, server, moving, target, file, promised, quiet>>
  BY DEF BeginRestore, dbVars, serverVars
<1>2. \A p \in Pages : ~(p < 1)
  BY PageNumbers
<1>3. BackupShape'
  BY <1>1 DEF BackupShape
<1> QED
  BY <1>1, <1>2, <1>3 DEF Checkpointing, Durable, Copied

LEMMA RestorePageKeeps ==
  ASSUME BackupInv, RestorePage
  PROVE  BackupInv'
<1> USE DEF BackupInv
<1>1. /\ cli = "restore" /\ page \in Pages
      /\ main' = [main EXCEPT ![page] = file[page]] /\ page' = page + 1
      /\ UNCHANGED <<wal, history, server, moving, target, cli, file, promised, quiet,
                     restored>>
  BY DEF RestorePage, serverVars
<1>2. main \in Image /\ file \in Image /\ page \in Nat
  BY DEF BackupShape
<1>3. BackupShape'
  <2>1. main' \in Image
    BY <1>1, <1>2 DEF Image
  <2>2. page' \in Nat \ {0}
    BY <1>1, <1>2
  <2> QED
    BY <1>1, <2>1, <2>2 DEF BackupShape
<1>4. moving = {} /\ server = "down"
  BY <1>1 DEF Checkpointing
<1>5. ASSUME NEW p \in Pages, p < page'
      PROVE  main'[p] = file'[p]
  <2>1. p < page \/ p = page
    BY <1>1, <1>2, <1>5, BackupConstants
  <2>2. p < page => main[p] = file[p]
    BY <1>1 DEF Copied
  <2> QED
    BY <1>1, <1>2, <2>1, <2>2 DEF Image
<1> QED
  BY <1>1, <1>3, <1>4, <1>5 DEF Checkpointing, Durable, Copied

\* Without its log the file is all a reader sees.
LEMMA RemoveSidecarsKeeps ==
  ASSUME BackupInv, RemoveSidecars
  PROVE  BackupInv'
<1> USE DEF BackupInv
<1>1. /\ cli = "restore" /\ page \notin Pages /\ cli' = "idle"
      /\ wal' = EmptyLog /\ history' = Append(history, Content')
      /\ UNCHANGED <<main, server, moving, target, page, file, promised, quiet>>
  BY DEF RemoveSidecars, Sidecars, serverVars
<1>2. /\ main = [p \in Pages |-> main[p]] /\ file = [p \in Pages |-> file[p]]
      /\ main \in Image /\ EmptyLog \in Image
  BY ImageFacts DEF BackupShape, Image
<1>3. Content' = main
  BY <1>1, <1>2 DEF Content, EmptyLog
<1>4. main = file
  <2>1. \A p \in Pages : p < page
    BY <1>1, PageNumbers DEF BackupShape
  <2>2. \A p \in Pages : main[p] = file[p]
    BY <1>1, <2>1 DEF Copied
  <2> QED
    BY <1>2, <2>2
<1>5. history' = Append(history, main)
  BY <1>1, <1>3
<1>6. /\ history' \in Seq(Image) /\ Len(history') = Len(history) + 1
      /\ history'[Len(history')] = main
      /\ \A n \in 1..Len(history) : history'[n] = history[n]
  BY <1>2, <1>5, HistoryGrows
<1>7. BackupShape'
  BY <1>1, <1>2, <1>6 DEF BackupShape
<1>8. \A n \in promised..Len(history) :
        n \in promised'..Len(history') /\ history'[n] = history[n]
  BY <1>1, <1>6 DEF BackupShape
<1>9. quiet => \E n \in promised..Len(history) : file = history[n]
  BY <1>1 DEF Copied
<1>10. Checkpointing' /\ Durable'
  BY <1>1, <1>3, <1>6 DEF Checkpointing, Durable
<1>11. Copied'
  BY <1>1, <1>3, <1>4, <1>8, <1>9 DEF Copied
<1> QED
  BY <1>7, <1>10, <1>11

LEMMA KillCommandKeeps ==
  ASSUME BackupInv, KillCommand
  PROVE  BackupInv'
<1> USE DEF BackupInv
<1>1. /\ cli # "idle" /\ cli' = "idle"
      /\ quiet' = (quiet /\ cli # "backup")
      /\ history' = (IF cli = "restore" THEN Append(history, Content) ELSE history)
      /\ UNCHANGED <<main, wal, server, moving, target, page, file, promised, restored>>
  BY DEF KillCommand, serverVars
<1>2. Content' = Content
  BY <1>1 DEF Content
<1>3. CASE cli = "restore"
  <2>1. history' = Append(history, Content) /\ Content \in Image
    BY <1>1, <1>3, ImageFacts
  <2>2. /\ history' \in Seq(Image) /\ Len(history') = Len(history) + 1
        /\ history'[Len(history')] = Content
        /\ \A n \in 1..Len(history) : history'[n] = history[n]
    BY <2>1, HistoryGrows
  <2>3. BackupShape'
    BY <1>1, <2>2 DEF BackupShape
  <2>4. \A n \in promised..Len(history) :
          n \in promised'..Len(history') /\ history'[n] = history[n]
    BY <1>1, <2>2 DEF BackupShape
  <2>5. quiet => \E n \in promised..Len(history) : file = history[n]
    BY <1>3 DEF Copied
  <2>6. Checkpointing' /\ Durable'
    BY <1>1, <1>2, <2>2 DEF Checkpointing, Durable
  <2>7. Copied'
    BY <1>1, <1>2, <1>3, <2>4, <2>5 DEF Copied
  <2> QED
    BY <2>3, <2>6, <2>7
<1>4. CASE cli = "backup"
  <2>1. UNCHANGED history /\ quiet' = FALSE
    BY <1>1, <1>4
  <2>2. BackupShape'
    BY <1>1, <2>1 DEF BackupShape
  <2> QED
    BY <1>1, <1>2, <1>4, <2>1, <2>2 DEF Checkpointing, Durable, Copied
<1> QED
  BY <1>1, <1>3, <1>4 DEF BackupShape

-----------------------------------------------------------------------------
LEMMA BackupInvariant == BackupSpec => []BackupInv
<1>1. BackupInv /\ [BackupNext]_backupVars => BackupInv'
  <2> SUFFICES ASSUME BackupInv, [BackupNext]_backupVars PROVE BackupInv'
    OBVIOUS
  <2>1. CASE Serve
    <3>1. ASSUME NEW S \in SUBSET Pages, Commit(S) PROVE BackupInv'
      BY <3>1, CommitKeeps
    <3>2. ASSUME NEW p \in Pages, MovePage(p) PROVE BackupInv'
      BY <3>2, MovePageKeeps
    <3> QED
      BY <2>1, <3>1, <3>2, BeginCheckpointKeeps, ServerKeeps DEF Serve
  <2>2. CASE Command
    BY <2>2, CheckpointSqliteKeeps, CopyPageKeeps, BackedUpKeeps, BeginRestoreKeeps,
       RestorePageKeeps, RemoveSidecarsKeeps, KillCommandKeeps DEF Command
  <2>3. CASE UNCHANGED backupVars
    BY <2>3 DEF backupVars, BackupInv, BackupShape, Checkpointing, Durable, Copied, Content
  <2> QED
    BY <2>1, <2>2, <2>3 DEF BackupNext
<1> QED
  BY <1>1, BackupInitially, PTL DEF BackupSpec

\* A backup no checkpoint of the server met is one content the database
\* had, not older than the backup's start; a database just restored is the
\* backup.
THEOREM BackupCorrect == BackupSpec => []BackupIsASnapshot
<1>1. BackupInv => BackupIsASnapshot
  BY DEF BackupInv, Copied, BackupIsASnapshot
<1> QED
  BY <1>1, BackupInvariant, PTL
=============================================================================
