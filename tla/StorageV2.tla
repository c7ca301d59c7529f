------------------------------ MODULE StorageV2 ------------------------------
(***************************************************************************)
(* The commit and recovery protocol of includes/storage/storage_v2.cpp:    *)
(* one database file of pages, one write-ahead log holding a complete page *)
(* image, and the system calls that move them between the page cache and   *)
(* the disk.  Every system call whose order matters is a step of its own;  *)
(* a step may be interrupted by an error, a process crash or a power loss. *)
(*                                                                         *)
(* Bytes are abstracted to who wrote them: a page cell holds the number of *)
(* the statement whose image it comes from, and `images' remembers what    *)
(* that statement built.  A checksummed image is valid exactly when all    *)
(* its pages belong to one image, which module PagedTable checks of the    *)
(* real page layout.                                                       *)
(***************************************************************************)
EXTENDS Integers, Sequences, FiniteSets

CONSTANTS
    MaxPages,         \* bound on the pages of an image
    MaxStatements,    \* bound on the create and insert statements issued
    Starts,           \* initial disks: "fresh", "migrated", "stale-wal"
    ProcessCrashes,   \* may the process be killed (page cache intact)?
    IoErrors,         \* may a system call fail?
    PowerLosses       \* may the page cache be lost?

ASSUME PagesAssumption == MaxPages \in Nat /\ MaxPages >= 2
ASSUME StatementsAssumption == MaxStatements \in Nat /\ MaxStatements >= 2
ASSUME StartsAssumption == Starts \subseteq {"fresh", "migrated", "stale-wal"}
ASSUME FailuresAssumption ==
    /\ ProcessCrashes \in BOOLEAN
    /\ IoErrors \in BOOLEAN
    /\ PowerLosses \in BOOLEAN

PageIds == 0 .. MaxPages - 1
Ids == 0 .. MaxStatements      \* 0 stands for the image a migration left

Eof  == -1                     \* beyond the end of the file
Zero == -2                     \* a hole left by extending the file
Torn == -3                     \* partly written; its checksum is wrong
Cells == Ids \union {Eof, Zero, Torn}
Files == [PageIds -> Cells]
EmptyFile == [p \in PageIds |-> Eof]

Images == [gen : Nat, rows : Seq(Ids), pages : Files]
NoImage == [gen |-> 0, rows |-> <<>>, pages |-> EmptyFile]

Logs == [state : {"empty", "partial", "full"}, id : Ids]
Log(state, id) == [state |-> state, id |-> id]
EmptyLog == Log("empty", 0)

Entries == {"none", "cached", "durable"}    \* a directory entry
Kinds == {"none", "create", "insert", "open", "inspect"}
Pcs == {"idle", "check", "recover", "read", "inspect",
        "wal-open", "wal-write", "wal-fsync", "wal-dir",
        "db-open", "db-size", "db-page", "db-dir", "wal-trunc", "wal-clear"}

VARIABLES
    walVol, walDur, walEnt,   \* the WAL: page cache, disk, directory entry
    dbVol, dbDur, dbEnt,      \* the database file, likewise
    images,                   \* what each statement's image contains
    issued, acked,            \* statements issued, statements acknowledged
    pc, kind,                 \* next step and operation in flight
    buf, todo,                \* image being committed, dirty pages not written
    firstWal, firstDb,        \* first_wal_creation, first_creation
    replay,                   \* applying a recovered WAL?
    answer                    \* rows of the last table opened or inspected

disk == <<walVol, walDur, walEnt, dbVol, dbDur, dbEnt>>
local == <<buf, todo, firstWal, firstDb, replay>>
vars == <<disk, images, issued, acked, pc, kind, local, answer>>

-----------------------------------------------------------------------------
(* What the decoders accept *)

\* parse_image: every page, checksum and cross-reference of one image.
Valid(file) == file[0] \in Ids /\ file = images[file[0]].pages

DbExists == dbEnt # "none"
DbValid == DbExists /\ Valid(dbVol)
DbImage == images[dbVol[0]]

WalPresent == walEnt # "none" /\ walVol.state # "empty"
WalFull == WalPresent /\ walVol.state = "full"
WalImage == images[walVol.id]

\* The database was written by a later statement than the WAL.
Stale == WalFull /\ DbValid /\ DbImage.gen > WalImage.gen

Size(file) == {p \in PageIds : file[p] # Eof}

\* An entry becomes durable when its directory is synced.
Synced(entry) == IF entry = "none" THEN "none" ELSE "durable"

-----------------------------------------------------------------------------
(* Initial disks *)

TwoPages(id) == [p \in PageIds |-> IF p <= 1 THEN id ELSE Eof]

\* The image sql_migrate_v1 promoted: complete, durable, with no WAL beside it.
Migrated == [gen |-> 1, rows |-> <<0>>, pages |-> TwoPages(0)]

\* An earlier WAL put back beside a later database: a table created by
\* statement 1, extended by statement 2, and the WAL of statement 1.
StaleImages ==
    [i \in Ids |->
       IF i = 1 THEN [gen |-> 1, rows |-> <<1>>, pages |-> TwoPages(1)]
       ELSE IF i = 2 THEN [gen |-> 2, rows |-> <<1, 2>>, pages |-> TwoPages(2)]
       ELSE NoImage]

InitFresh ==
    /\ walVol = EmptyLog /\ walEnt = "none"
    /\ dbVol = EmptyFile /\ dbEnt = "none"
    /\ images = [i \in Ids |-> NoImage]
    /\ issued = 0 /\ acked = {}

InitMigrated ==
    /\ walVol = EmptyLog /\ walEnt = "none"
    /\ dbVol = TwoPages(0) /\ dbEnt = "durable"
    /\ images = [i \in Ids |-> IF i = 0 THEN Migrated ELSE NoImage]
    /\ issued = 0 /\ acked = {}

InitStale ==
    /\ walVol = Log("full", 1) /\ walEnt = "durable"
    /\ dbVol = TwoPages(2) /\ dbEnt = "durable"
    /\ images = StaleImages
    /\ issued = 2 /\ acked = {1, 2}

InitLocal ==
    /\ pc = "idle" /\ kind = "none"
    /\ buf = 0 /\ todo = {}
    /\ firstWal = FALSE /\ firstDb = FALSE /\ replay = FALSE

Init ==
    /\ \/ "fresh" \in Starts /\ InitFresh
       \/ "migrated" \in Starts /\ InitMigrated
       \/ "stale-wal" \in Starts /\ InitStale
    /\ walDur = walVol
    /\ dbDur = dbVol
    /\ InitLocal
    /\ answer = <<>>

-----------------------------------------------------------------------------
(* Steps of the process *)

Goto(from, to) == pc = from /\ pc' = to

\* The operation ends: its locals go out of scope.
EndOperation ==
    /\ pc' = "idle" /\ kind' = "none"
    /\ buf' = 0 /\ todo' = {}
    /\ firstWal' = FALSE /\ firstDb' = FALSE /\ replay' = FALSE

\* An exception reaches the caller before the operation touches a file.
Reject ==
    /\ EndOperation
    /\ UNCHANGED <<disk, images, issued, acked, answer>>

\* MUTANT: insert_row that forgets to recover first.
BeginMutationWithoutRecovery ==
    /\ issued < MaxStatements
    /\ \/ Goto("idle", "check") /\ kind' = "create"
       \/ Goto("idle", "read") /\ kind' = "insert"
    /\ issued' = issued + 1
    /\ UNCHANGED <<disk, images, acked, local, answer>>

BeginMutation ==
    /\ issued < MaxStatements
    /\ \/ Goto("idle", "check") /\ kind' = "create"
       \/ Goto("idle", "recover") /\ kind' = "insert"
    /\ issued' = issued + 1
    /\ UNCHANGED <<disk, images, acked, local, answer>>

BeginRead ==
    /\ \/ Goto("idle", "recover") /\ kind' = "open"
       \/ Goto("idle", "inspect") /\ kind' = "inspect"
    /\ UNCHANGED <<disk, images, issued, acked, local, answer>>

\* create_from_rows: neither the database nor a WAL with content may exist.
CreateRejected ==
    /\ pc = "check"
    /\ DbExists \/ WalPresent
    /\ Reject

\* MUTANT: a generation counter that wraps (here after two values).
BuildWrapped(image, dirty) ==
    /\ images' = [images EXCEPT ![issued] = [image EXCEPT !.gen = @ % 2]]
    /\ buf' = issued
    /\ todo' = dirty
    /\ UNCHANGED <<disk, issued, acked, kind, firstWal, firstDb, replay, answer>>

\* The image of statement `issued' and the pages commit_image will write.
Build(image, dirty) ==
    /\ images' = [images EXCEPT ![issued] = image]
    /\ buf' = issued
    /\ todo' = dirty
    /\ UNCHANGED <<disk, issued, acked, kind, firstWal, firstDb, replay, answer>>

\* build_image: generation 1, every page dirty.
CreateBuild ==
    /\ Goto("check", "wal-open")
    /\ ~DbExists /\ ~WalPresent
    /\ \E last \in PageIds \ {0} :
          Build([gen   |-> 1,
                 rows  |-> <<issued>>,
                 pages |-> [p \in PageIds |-> IF p <= last THEN issued ELSE Eof]],
                0 .. last)

\* MUTANT: recover that looks at the WAL only when the database is damaged.
RecoverNothingIfValid ==
    /\ Goto("recover", "read")
    /\ ~WalPresent \/ DbValid
    /\ UNCHANGED <<disk, images, issued, acked, kind, local, answer>>

\* recover: nothing to do, an unreadable or stale WAL, or a WAL to apply.
RecoverNothing ==
    /\ Goto("recover", "read")
    /\ ~WalPresent
    /\ UNCHANGED <<disk, images, issued, acked, kind, local, answer>>

RecoverRejected ==
    /\ pc = "recover"
    /\ WalPresent
    /\ ~WalFull \/ Stale
    /\ Reject

\* MUTANT: recover without the generation comparison.
RecoverReplayStale ==
    /\ Goto("recover", "db-open")
    /\ WalFull
    /\ buf' = walVol.id
    /\ todo' = Size(WalImage.pages)
    /\ replay' = TRUE
    /\ UNCHANGED <<disk, images, issued, acked, kind, firstWal, firstDb, answer>>

\* MUTANT: a redo that visits one page too many.
RecoverReplayOffByOne ==
    /\ Goto("recover", "db-open")
    /\ WalFull /\ ~Stale
    /\ buf' = walVol.id
    /\ todo' = 0 .. Cardinality(Size(WalImage.pages))
    /\ replay' = TRUE
    /\ UNCHANGED <<disk, images, issued, acked, kind, firstWal, firstDb, answer>>

RecoverReplay ==
    /\ Goto("recover", "db-open")
    /\ WalFull /\ ~Stale
    /\ buf' = walVol.id
    /\ todo' = Size(WalImage.pages)
    /\ replay' = TRUE
    /\ UNCHANGED <<disk, images, issued, acked, kind, firstWal, firstDb, answer>>

\* read_file and parse_image of a database that is missing or corrupt, and a
\* row build_incremental_insert refuses (arity, width).
ReadRejected ==
    /\ pc = "read"
    /\ ~DbValid \/ kind = "insert"
    /\ Reject

OpenAnswers ==
    /\ pc = "read" /\ kind = "open"
    /\ DbValid
    /\ answer' = DbImage.rows
    /\ EndOperation
    /\ UNCHANGED <<disk, images, issued, acked>>

\* build_incremental_insert: the superblock and at least one row or index page
\* change, pages are appended, and no page disappears.
InsertBuild ==
    /\ Goto("read", "wal-open") /\ kind = "insert"
    /\ DbValid
    /\ \E last \in PageIds, touched \in SUBSET (PageIds \ {0}) :
          LET old == Size(dbVol)
              dirty == {0} \union touched \union ((0 .. last) \ old)
          IN  /\ old \subseteq 0 .. last
              /\ touched \subseteq old
              /\ dirty # {0}
              /\ Build([gen   |-> DbImage.gen + 1,
                        rows  |-> Append(DbImage.rows, issued),
                        pages |-> [p \in PageIds |->
                                     IF p \in dirty THEN issued ELSE dbVol[p]]],
                       dirty)

\* inspect: the pending WAL's image if there is one, else the database's.
InspectRejected ==
    /\ pc = "inspect"
    /\ IF WalPresent THEN ~WalFull \/ Stale ELSE ~DbValid
    /\ Reject

InspectAnswers ==
    /\ pc = "inspect"
    /\ \/ WalFull /\ ~Stale /\ answer' = WalImage.rows
       \/ ~WalPresent /\ DbValid /\ answer' = DbImage.rows
    /\ EndOperation
    /\ UNCHANGED <<disk, images, issued, acked>>

-----------------------------------------------------------------------------
(* commit_image: the write-ahead log *)

\* exists(path_wal), then open with O_CREAT | O_TRUNC.
WalOpen ==
    /\ Goto("wal-open", "wal-write")
    /\ firstWal' = (walEnt = "none")
    /\ walEnt' = IF walEnt = "none" THEN "cached" ELSE walEnt
    /\ walVol' = EmptyLog
    /\ UNCHANGED <<walDur, dbVol, dbDur, dbEnt, images, issued, acked, kind,
                   buf, todo, firstDb, replay, answer>>

\* write_all may be seen half done.
WalWritePart ==
    /\ pc = "wal-write" /\ walVol.state = "empty"
    /\ walVol' = Log("partial", 0)
    /\ UNCHANGED <<walDur, walEnt, dbVol, dbDur, dbEnt, images, issued, acked,
                   pc, kind, local, answer>>

WalWriteRest ==
    /\ Goto("wal-write", "wal-fsync") /\ walVol.state = "partial"
    /\ walVol' = Log("full", buf)
    /\ UNCHANGED <<walDur, walEnt, dbVol, dbDur, dbEnt, images, issued, acked,
                   kind, local, answer>>

\* MUTANT: the WAL is not synced before the pages.
WalFsyncSkipped ==
    /\ pc = "wal-fsync"
    /\ pc' = IF firstWal THEN "wal-dir" ELSE "db-open"
    /\ UNCHANGED <<disk, images, issued, acked, kind, local, answer>>

WalFsync ==
    /\ pc = "wal-fsync"
    /\ pc' = IF firstWal THEN "wal-dir" ELSE "db-open"
    /\ walDur' = walVol
    /\ UNCHANGED <<walVol, walEnt, dbVol, dbDur, dbEnt, images, issued, acked,
                   kind, local, answer>>

\* MUTANT: fsync_parent that opens the directory but does not sync it.
SyncDirectorySkipped ==
    UNCHANGED <<disk, images, issued, acked, kind, local, answer>>

SyncDirectory ==
    /\ walEnt' = Synced(walEnt)
    /\ dbEnt' = Synced(dbEnt)
    /\ UNCHANGED <<walVol, walDur, dbVol, dbDur, images, issued, acked, kind,
                   local, answer>>

WalDirectoryFsync == Goto("wal-dir", "db-open") /\ SyncDirectory

-----------------------------------------------------------------------------
(* apply_image: the database pages *)

DbOpen ==
    /\ Goto("db-open", "db-size")
    /\ firstDb' = ~DbExists
    /\ dbEnt' = IF DbExists THEN dbEnt ELSE "cached"
    /\ UNCHANGED <<walVol, walDur, walEnt, dbVol, dbDur, images, issued, acked,
                   kind, buf, todo, firstWal, replay, answer>>

\* ftruncate to the size of the image: holes read as zeros.
DbSize ==
    /\ Goto("db-size", "db-page")
    /\ dbVol' = [p \in PageIds |->
                   IF p \notin Size(images[buf].pages) THEN Eof
                   ELSE IF dbVol[p] = Eof THEN Zero ELSE dbVol[p]]
    /\ UNCHANGED <<walVol, walDur, walEnt, dbDur, dbEnt, images, issued, acked,
                   kind, local, answer>>

\* visit_dirty_pages goes in page-id order; a page may be seen half written.
NextPage(p) == p \in todo /\ \A q \in todo : p <= q

DbTearPage ==
    /\ pc = "db-page"
    /\ \E p \in PageIds : NextPage(p) /\ dbVol' = [dbVol EXCEPT ![p] = Torn]
    /\ UNCHANGED <<walVol, walDur, walEnt, dbDur, dbEnt, images, issued, acked,
                   pc, kind, local, answer>>

\* MUTANT: a page loop that does not advance.
DbWritePageAgain ==
    /\ pc = "db-page"
    /\ \E p \in PageIds :
          /\ NextPage(p)
          /\ dbVol' = [dbVol EXCEPT ![p] = images[buf].pages[p]]
    /\ UNCHANGED <<walVol, walDur, walEnt, dbDur, dbEnt, images, issued, acked,
                   pc, kind, local, answer>>

DbWritePage ==
    /\ pc = "db-page"
    /\ \E p \in PageIds :
          /\ NextPage(p)
          /\ dbVol' = [dbVol EXCEPT ![p] = images[buf].pages[p]]
          /\ todo' = todo \ {p}
    /\ UNCHANGED <<walVol, walDur, walEnt, dbDur, dbEnt, images, issued, acked,
                   pc, kind, buf, firstWal, firstDb, replay, answer>>

\* MUTANT: the directory of a new database is not synced.
DbFsyncNoDirectory ==
    /\ Goto("db-page", "wal-trunc") /\ todo = {}
    /\ dbDur' = dbVol
    /\ UNCHANGED <<walVol, walDur, walEnt, dbVol, dbEnt, images, issued, acked,
                   kind, local, answer>>

DbFsync ==
    /\ pc = "db-page" /\ todo = {}
    /\ pc' = IF firstDb THEN "db-dir" ELSE "wal-trunc"
    /\ dbDur' = dbVol
    /\ UNCHANGED <<walVol, walDur, walEnt, dbVol, dbEnt, images, issued, acked,
                   kind, local, answer>>

DbDirectoryFsync == Goto("db-dir", "wal-trunc") /\ SyncDirectory

-----------------------------------------------------------------------------
(* clear_wal, then the statement returns or, after a replay, goes on *)

WalTruncate ==
    /\ Goto("wal-trunc", "wal-clear")
    /\ walVol' = EmptyLog
    /\ UNCHANGED <<walDur, walEnt, dbVol, dbDur, dbEnt, images, issued, acked,
                   kind, local, answer>>

\* MUTANT: the cleared WAL is not synced.
AcknowledgeUnsynced ==
    /\ pc = "wal-clear" /\ ~replay
    /\ acked' = acked \union {issued}
    /\ EndOperation
    /\ UNCHANGED <<disk, images, issued, answer>>

Acknowledge ==
    /\ pc = "wal-clear" /\ ~replay
    /\ walDur' = walVol
    /\ acked' = acked \union {issued}
    /\ EndOperation
    /\ UNCHANGED <<walVol, walEnt, dbVol, dbDur, dbEnt, images, issued, answer>>

RecoverDone ==
    /\ Goto("wal-clear", "read") /\ replay
    /\ walDur' = walVol
    /\ buf' = 0 /\ firstDb' = FALSE /\ replay' = FALSE
    /\ UNCHANGED <<walVol, walEnt, dbVol, dbDur, dbEnt, images, issued, acked,
                   kind, todo, firstWal, answer>>

-----------------------------------------------------------------------------
(* Failures *)

\* MUTANT: an error handler that discards the WAL of the failed statement.
ThrowDiscardingWal ==
    /\ IoErrors
    /\ pc # "idle"
    /\ walVol' = EmptyLog
    /\ EndOperation
    /\ UNCHANGED <<walDur, walEnt, dbVol, dbDur, dbEnt, images, issued, acked, answer>>

\* A system call fails: what it wrote so far stays, the exception ends the
\* statement and the session goes on.
Throw ==
    /\ IoErrors
    /\ pc # "idle"
    /\ Reject

\* The process is killed between two system calls or inside a write.
ProcessCrash ==
    /\ ProcessCrashes
    /\ pc # "idle"
    /\ Reject

\* What the disk may hold of a file that was not synced.
LogsAfterLoss ==
    IF walVol = walDur THEN {walDur}
    ELSE {walDur, walVol} \union
         (IF walVol.state = "empty" THEN {} ELSE {EmptyLog, Log("partial", 0)})

FilesAfterLoss ==
    {file \in [PageIds -> Cells] :
       /\ \A p \in PageIds :
             \/ file[p] \in {dbVol[p], dbDur[p]}
             \/ dbVol[p] # dbDur[p] /\ file[p] \in {Zero, Torn}
       /\ \A p, q \in PageIds : p < q /\ file[p] = Eof => file[q] = Eof}

WalAfterLoss ==
    \/ /\ walEnt \in {"none", "cached"}
       /\ walEnt' = "none" /\ walVol' = EmptyLog /\ walDur' = EmptyLog
    \/ /\ walEnt \in {"cached", "durable"}
       /\ walEnt' = "durable"
       /\ walDur' \in LogsAfterLoss
       /\ walVol' = walDur'

DbAfterLoss ==
    \/ /\ dbEnt \in {"none", "cached"}
       /\ dbEnt' = "none" /\ dbVol' = EmptyFile /\ dbDur' = EmptyFile
    \/ /\ dbEnt \in {"cached", "durable"}
       /\ dbEnt' = "durable"
       /\ dbDur' \in FilesAfterLoss
       /\ dbVol' = dbDur'

PowerLoss ==
    /\ PowerLosses
    /\ WalAfterLoss
    /\ DbAfterLoss
    /\ EndOperation
    /\ UNCHANGED <<images, issued, acked, answer>>

Failure == Throw \/ ProcessCrash \/ PowerLoss

-----------------------------------------------------------------------------
Step ==
    \/ CreateRejected \/ CreateBuild
    \/ RecoverNothing \/ RecoverRejected \/ RecoverReplay
    \/ ReadRejected \/ OpenAnswers \/ InsertBuild
    \/ InspectRejected \/ InspectAnswers
    \/ WalOpen \/ WalWritePart \/ WalWriteRest \/ WalFsync \/ WalDirectoryFsync
    \/ DbOpen \/ DbSize \/ DbTearPage \/ DbWritePage \/ DbFsync \/ DbDirectoryFsync
    \/ WalTruncate \/ Acknowledge \/ RecoverDone

Next == BeginMutation \/ BeginRead \/ Step \/ Failure

Spec == Init /\ [][Next]_vars

\* A statement that was begun runs on: the process is scheduled and no system
\* call blocks for ever.  Nothing obliges a user to issue a statement.
FairSpec == Spec /\ WF_vars(Step)

-----------------------------------------------------------------------------
(* Properties *)

\* The table a caller would find: the image of a complete WAL that governs the
\* database, else the database.  commit_image's own WAL governs once it is
\* synced; until then only a failure makes recovery look at it.
Committing == pc \in {"wal-fsync", "wal-dir"}

Committed ==
    IF WalFull /\ ~Stale /\ ~Committing THEN WalImage.rows
    ELSE IF DbValid THEN DbImage.rows
    ELSE <<>>

TypeOK ==
    /\ walVol \in Logs /\ walDur \in Logs /\ walEnt \in Entries
    /\ dbVol \in Files /\ dbDur \in Files /\ dbEnt \in Entries
    /\ images \in [Ids -> Images]
    /\ issued \in Ids /\ acked \subseteq Ids
    /\ pc \in Pcs /\ kind \in Kinds
    /\ buf \in Ids /\ todo \subseteq PageIds
    /\ firstWal \in BOOLEAN /\ firstDb \in BOOLEAN /\ replay \in BOOLEAN
    /\ answer \in Seq(Ids)

\* A statement that was acknowledged (insert_row or create_table returned) is
\* in the table a later open would load, whatever was interrupted since.
AcknowledgedSurvive == acked \subseteq {Committed[i] : i \in DOMAIN Committed}

\* A database file that parse_image would refuse only ever exists beside a
\* complete WAL that repairs it (apply_image runs after the WAL is written).
TornOnlyUnderWal == DbExists /\ ~Valid(dbVol) => WalFull

\* The rows a caller could find never shrink or change, they are only extended
\* (recover refuses to roll back, and every image extends the one it read).
NeverRolledBack ==
    [][/\ Len(Committed) <= Len(Committed')
       /\ \A i \in DOMAIN Committed : Committed[i] = Committed'[i]]_vars

\* "The engine never acknowledges a statement before the WAL, database, and
\* cleared-WAL boundaries complete" (DESIGN.md): what commit_image and clear_wal
\* leave on the disk itself, not in the page cache, when the caller is answered.
AcknowledgedOnDisk ==
    [][acked' # acked => /\ dbDur' = images[issued].pages
                         /\ dbVol' = dbDur'
                         /\ walDur'.state = "empty"]_vars

\* The code never itself brings about the stale WAL that recover refuses: a
\* database generation above that of a complete WAL beside it.
NeverMadeStale == [][~Stale => ~Stale']_vars

\* "No database page is written from that buffer before WAL fsync"
\* (docs/storage-v2.md): a step of apply_image that changes the database file
\* finds its whole image in the WAL on disk.
WalOnDiskBeforePages ==
    [][dbVol' # dbVol /\ pc' # "idle" => walDur = Log("full", buf)]_vars

\* The same for the WAL's directory entry, which commit_image syncs when it
\* creates the WAL.
WalEntryBeforePages ==
    [][dbVol' # dbVol /\ pc' # "idle" => walEnt = "durable"]_vars

\* "Directory fsync is performed after first database creation ... so the
\* directory entry is durable" (docs/storage-v2.md): no insert is acknowledged
\* into a file whose directory entry a power loss could remove.
EntryBeforeAcknowledge == [][acked' # acked => dbEnt = "durable"]_vars

\* Every statement comes to an end: answered, refused or interrupted.
StatementsEnd == pc # "idle" ~> pc = "idle"

\* Once failures stop, opening the table again and again repairs it: a complete
\* WAL that is not stale does not stay for ever (recover, clear_wal).
RetriesRepair ==
    (/\ []<><<BeginRead /\ kind' = "open">>_vars
     /\ <>[][~Failure]_vars)
    => (walVol.state = "full" /\ ~Stale ~> walVol.state # "full")

\* Seen through Committed, the protocol is a table that changes by whole
\* statements (module AtomicTable).
Atomic == INSTANCE AtomicTable WITH
    table <- Committed,
    Firsts <- {[rows |-> <<>>,     issued |-> 0, acked |-> {}],
               [rows |-> <<0>>,    issued |-> 0, acked |-> {}],
               [rows |-> <<1, 2>>, issued |-> 2, acked |-> {1, 2}]}

Refinement == Atomic!Spec
=============================================================================
