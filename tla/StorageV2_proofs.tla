--------------------------- MODULE StorageV2_proofs ---------------------------
(***************************************************************************)
(* Theorems about StorageV2, for every number of pages and statements.     *)
(***************************************************************************)
EXTENDS StorageV2, TLAPS

-----------------------------------------------------------------------------
(* The inductive invariant *)

\* Either the page cache is never lost, or nothing but a power loss goes wrong.
FailureModel == ~(PowerLosses /\ (ProcessCrashes \/ IoErrors))

Built(i) == images[i].pages[0] = i
Mutating == kind \in {"create", "insert"}

Preparing == {"wal-open", "wal-write", "wal-fsync", "wal-dir"}
Applying == {"db-open", "db-size", "db-page", "db-dir", "wal-trunc"}

\* Statements build their image once, and no image is attributed to a statement
\* that was not issued.
ImagesInv ==
    /\ \A i \in Ids : Built(i) \/ images[i] = NoImage
    /\ \A i \in Ids : Built(i) => \E k \in DOMAIN images[i].rows : images[i].rows[k] = i
    /\ \A i \in Ids : i > issued => images[i] = NoImage
    /\ Mutating /\ (replay \/ pc \in {"check", "recover", "read"})
           => images[issued] = NoImage

\* What the program counter says of the locals.
ControlInv ==
    /\ pc = "idle" => kind = "none"
    /\ pc = "check" => kind = "create"
    /\ pc \in {"recover", "read"} => kind \in {"insert", "open"}
    /\ pc \in Preparing => ~replay
    /\ pc \in Preparing \/ (pc \in Applying \union {"wal-clear"} /\ ~replay)
           => Mutating /\ buf = issued
    /\ replay => pc \in Applying \union {"wal-clear"} /\ kind \in {"insert", "open"}
    /\ pc \in Preparing \union Applying \union {"wal-clear"} => Built(buf)
    /\ pc \in {"db-dir", "wal-trunc", "wal-clear"} => todo = {}

\* The WAL at each step, and entries of files with content.
WalInv ==
    /\ walVol.state # "empty" => walEnt # "none"
    /\ walVol.state = "full" => Built(walVol.id)
    /\ pc \in {"wal-open", "wal-clear", "read"} => walVol.state = "empty"
    /\ pc = "wal-write" => walVol.state \in {"empty", "partial"}
    /\ pc \in {"wal-fsync", "wal-dir"} \union Applying => walVol = Log("full", buf)
    /\ pc \in {"wal-write", "wal-fsync", "wal-dir"} => walEnt # "none"

\* The pages at each step: those not to be written are already right.
PagesInv ==
    /\ dbEnt = "none" => dbVol = EmptyFile
    /\ pc \in Preparing \/ (pc \in {"db-open", "db-size"} /\ ~replay)
           => \A p \in PageIds \ todo : dbVol[p] = images[buf].pages[p]
    /\ pc \in {"db-open", "db-size"} /\ replay => todo = Size(images[buf].pages)
    /\ pc \in {"db-page", "db-dir", "wal-trunc", "wal-clear"}
           => \A p \in PageIds \ todo : dbVol[p] = images[buf].pages[p]
    /\ pc \in {"db-size", "db-page", "db-dir", "wal-trunc", "wal-clear"} => dbEnt # "none"

\* The new image extends the table it was built from, which is still there.
ExtendsInv ==
    pc \in Preparing =>
        /\ DbExists => DbValid
        /\ DbValid => /\ images[buf].rows = Append(DbImage.rows, buf)
                      /\ images[buf].gen = DbImage.gen + 1
        /\ ~DbExists => images[buf].rows = <<buf>>

\* A database that is being replaced is not newer than its WAL.
NotNewer(file, id) == file[0] \in Ids => images[file[0]].gen <= images[id].gen

GenerationInv ==
    /\ walVol.state = "full" /\ DbExists /\ ~Valid(dbVol) => NotNewer(dbVol, walVol.id)
    /\ pc \in Applying => NotNewer(dbVol, buf)

\* Page cache and disk differ only where a later step synchronises them.
PowerInv ==
    PowerLosses =>
        /\ dbEnt = "none" => dbDur = EmptyFile
        /\ walEnt = "none" => walVol = EmptyLog /\ walDur = EmptyLog
        /\ pc \notin Applying \/ pc = "db-open" => dbDur = dbVol
        /\ pc \in {"db-dir", "wal-trunc"} => dbDur = dbVol
        /\ pc \notin {"db-size", "db-page", "db-dir"} => dbEnt # "cached"
        /\ pc \in {"db-size", "db-page", "db-dir"} /\ ~firstDb => dbEnt = "durable"
        /\ pc \notin {"wal-write", "wal-fsync", "wal-clear"} => walDur = walVol
        /\ pc \in {"wal-write", "wal-fsync"} => walDur.state = "empty"
        /\ pc = "wal-clear" => walDur = Log("full", buf)
        /\ pc \notin {"wal-write", "wal-fsync", "wal-dir"} => walEnt # "cached"
        /\ pc \in {"wal-write", "wal-fsync"} /\ ~firstWal => walEnt = "durable"
        /\ pc \in Applying => NotNewer(dbDur, buf)

IInv ==
    /\ TypeOK /\ ImagesInv /\ ControlInv /\ WalInv /\ PagesInv /\ ExtendsInv
    /\ GenerationInv /\ PowerInv
    /\ TornOnlyUnderWal /\ AcknowledgedSurvive

\* What a step may do to the table a caller would find: nothing, or, where the
\* WAL of the statement in flight begins to govern, append its row.
Grown ==
    \/ Committed' = Committed
    \/ Committing /\ ~Committing' /\ Committed' = Append(Committed, issued)

-----------------------------------------------------------------------------
(* Type correctness *)

LEMMA PageZero == 0 \in PageIds /\ 1 \in PageIds
BY PagesAssumption DEF PageIds

LEMMA IdsFacts == Ids \subseteq Int /\ 0 \in Ids /\ 1 \in Ids /\ 2 \in Ids
BY StatementsAssumption DEF Ids

LEMMA EmptyTypes ==
    /\ EmptyFile \in Files
    /\ EmptyLog \in Logs
    /\ NoImage \in Images
    /\ \A i \in Ids : TwoPages(i) \in Files
    /\ \A i \in Ids : Log("full", i) \in Logs
    /\ Log("partial", 0) \in Logs
<1>1. EmptyFile \in Files
  BY DEF EmptyFile, Files, Cells, Eof
<1>2. EmptyLog \in Logs /\ Log("partial", 0) \in Logs
  BY IdsFacts DEF EmptyLog, Log, Logs
<1>3. NoImage \in Images
  BY <1>1 DEF NoImage, Images
<1>4. \A i \in Ids : TwoPages(i) \in Files
  BY DEF TwoPages, Files, Cells, Eof
<1>5. \A i \in Ids : Log("full", i) \in Logs
  BY DEF Log, Logs
<1>6. QED
  BY <1>1, <1>2, <1>3, <1>4, <1>5

LEMMA TypeInit == Init => TypeOK
<1> SUFFICES ASSUME Init PROVE TypeOK
  OBVIOUS
<1>1. InitLocal
  BY DEF Init
<1>2. answer \in Seq(Ids)
  BY DEF Init
<1>3. /\ pc \in Pcs /\ kind \in Kinds /\ buf \in Ids /\ todo \subseteq PageIds
      /\ firstWal \in BOOLEAN /\ firstDb \in BOOLEAN /\ replay \in BOOLEAN
  BY <1>1, IdsFacts DEF InitLocal, Pcs, Kinds
<1>4. CASE InitFresh
  BY <1>2, <1>3, <1>4, EmptyTypes, IdsFacts DEF Init, InitFresh, TypeOK, Entries
<1>5. CASE InitMigrated
  <2>1. Migrated \in Images
    BY EmptyTypes, IdsFacts DEF Migrated, Images
  <2>2. QED
    BY <1>2, <1>3, <1>5, <2>1, EmptyTypes, IdsFacts
    DEF Init, InitMigrated, TypeOK, Entries
<1>6. CASE InitStale
  <2>1. StaleImages \in [Ids -> Images]
    <3>1. /\ [gen |-> 1, rows |-> <<1>>, pages |-> TwoPages(1)] \in Images
          /\ [gen |-> 2, rows |-> <<1, 2>>, pages |-> TwoPages(2)] \in Images
      BY EmptyTypes, IdsFacts DEF Images
    <3>2. QED
      BY <3>1, EmptyTypes DEF StaleImages
  <2>2. QED
    BY <1>2, <1>3, <1>6, <2>1, EmptyTypes, IdsFacts DEF Init, InitStale, TypeOK, Entries
<1>7. QED
  BY <1>4, <1>5, <1>6 DEF Init

\* What ends an operation leaves the locals in their types.
LEMMA EndTypes ==
    ASSUME EndOperation
    PROVE  /\ pc' \in Pcs /\ kind' \in Kinds
           /\ buf' \in Ids /\ todo' \subseteq PageIds
           /\ firstWal' \in BOOLEAN /\ firstDb' \in BOOLEAN /\ replay' \in BOOLEAN
BY IdsFacts DEF EndOperation, Pcs, Kinds

LEMMA RejectTypes == TypeOK /\ Reject => TypeOK'
BY EndTypes DEF TypeOK, Reject, disk

LEMMA BuildTypes ==
    ASSUME TypeOK, NEW image \in Images, NEW dirty \in SUBSET PageIds,
           pc' \in Pcs, Build(image, dirty)
    PROVE  TypeOK'
BY DEF TypeOK, Build, disk

LEMMA SizeTypes == \A file : Size(file) \subseteq PageIds
BY DEF Size

LEMMA TypeStep == TypeOK /\ [Next]_vars => TypeOK'
<1> SUFFICES ASSUME TypeOK, [Next]_vars PROVE TypeOK'
  OBVIOUS
<1> USE IdsFacts
<1>1. CASE BeginMutation
  <2>1. issued' \in Ids
    BY <1>1, StatementsAssumption DEF TypeOK, BeginMutation, Ids
  <2>2. pc' \in Pcs /\ kind' \in Kinds
    BY <1>1 DEF BeginMutation, Goto, Pcs, Kinds
  <2>3. QED
    BY <1>1, <2>1, <2>2 DEF TypeOK, BeginMutation, disk, local
<1>2. CASE BeginRead
  BY <1>2 DEF TypeOK, BeginRead, Goto, disk, local, Pcs, Kinds
<1>3. CASE CreateRejected \/ RecoverRejected \/ ReadRejected \/ InspectRejected
           \/ Throw \/ ProcessCrash
  BY <1>3, RejectTypes
  DEF CreateRejected, RecoverRejected, ReadRejected, InspectRejected, Throw, ProcessCrash
<1>4. CASE CreateBuild
  <2>1. PICK last \in PageIds \ {0} :
          Build([gen   |-> 1,
                 rows  |-> <<issued>>,
                 pages |-> [p \in PageIds |-> IF p <= last THEN issued ELSE Eof]],
                0 .. last)
    BY <1>4 DEF CreateBuild
  <2> DEFINE image == [gen   |-> 1,
                       rows  |-> <<issued>>,
                       pages |-> [p \in PageIds |-> IF p <= last THEN issued ELSE Eof]]
  <2>2. [p \in PageIds |-> IF p <= last THEN issued ELSE Eof] \in Files
    BY DEF TypeOK, Files, Cells
  <2>3. image \in Images
    BY <2>2 DEF TypeOK, Images
  <2>4. 0 .. last \in SUBSET PageIds
    BY PagesAssumption DEF PageIds
  <2>5. pc' \in Pcs
    BY <1>4 DEF CreateBuild, Goto, Pcs
  <2> HIDE DEF image
  <2>6. Build(image, 0 .. last)
    BY <2>1 DEF image
  <2>7. QED
    BY <2>3, <2>4, <2>5, <2>6, BuildTypes
<1>5. CASE RecoverNothing
  BY <1>5 DEF TypeOK, RecoverNothing, Goto, disk, local, Pcs
<1>6. CASE RecoverReplay
  BY <1>6, SizeTypes DEF TypeOK, RecoverReplay, Goto, disk, Pcs, Logs
<1>7. CASE OpenAnswers \/ InspectAnswers
  <2>1. answer' \in Seq(Ids)
    BY <1>7, ZenonT(60) DEF OpenAnswers, InspectAnswers, TypeOK, DbImage, WalImage, DbValid, Valid,
                Images, Logs
  <2>2. EndOperation /\ UNCHANGED <<disk, images, issued, acked>>
    BY <1>7 DEF OpenAnswers, InspectAnswers
  <2>3. QED
    BY <2>1, <2>2, EndTypes DEF TypeOK, disk
<1>8. CASE InsertBuild
  <2>1. DbValid /\ pc' \in Pcs
    BY <1>8 DEF InsertBuild, Goto, Pcs
  <2>2. PICK dirty \in SUBSET PageIds :
          Build([gen   |-> DbImage.gen + 1,
                 rows  |-> Append(DbImage.rows, issued),
                 pages |-> [p \in PageIds |-> IF p \in dirty THEN issued ELSE dbVol[p]]],
                dirty)
    <3>1. PICK last \in PageIds, touched \in SUBSET (PageIds \ {0}) :
            LET old == Size(dbVol)
                dirty == {0} \union touched \union ((0 .. last) \ old)
            IN  Build([gen   |-> DbImage.gen + 1,
                       rows  |-> Append(DbImage.rows, issued),
                       pages |-> [p \in PageIds |->
                                    IF p \in dirty THEN issued ELSE dbVol[p]]],
                      dirty)
      BY <1>8 DEF InsertBuild
    <3>2. {0} \union touched \union ((0 .. last) \ Size(dbVol)) \in SUBSET PageIds
      <4>1. 0 .. last \subseteq PageIds
        BY PagesAssumption DEF PageIds
      <4>2. QED
        BY <4>1, PageZero
    <3>3. QED
      BY <3>1, <3>2
  <2> DEFINE image == [gen   |-> DbImage.gen + 1,
                       rows  |-> Append(DbImage.rows, issued),
                       pages |-> [p \in PageIds |->
                                    IF p \in dirty THEN issued ELSE dbVol[p]]]
  <2>3. DbImage \in Images
    BY <2>1 DEF TypeOK, DbImage, DbValid, Valid
  <2>4. [p \in PageIds |-> IF p \in dirty THEN issued ELSE dbVol[p]] \in Files
    BY DEF TypeOK, Files, Cells
  <2>5. DbImage.gen + 1 \in Nat /\ Append(DbImage.rows, issued) \in Seq(Ids)
    BY <2>3, SMTT(30) DEF TypeOK, Images
  <2>6. image \in Images
    BY <2>4, <2>5 DEF Images
  <2> HIDE DEF image
  <2>7. Build(image, dirty)
    BY <2>2 DEF image
  <2>8. QED
    BY <2>1, <2>6, <2>7, BuildTypes
<1>9. CASE WalOpen
  BY <1>9, EmptyTypes DEF TypeOK, WalOpen, Goto, Pcs, Entries
<1>10. CASE WalWritePart
  BY <1>10, EmptyTypes DEF TypeOK, WalWritePart, local
<1>11. CASE WalWriteRest
  BY <1>11, EmptyTypes DEF TypeOK, WalWriteRest, Goto, Pcs, local
<1>12. CASE WalFsync
  BY <1>12 DEF TypeOK, WalFsync, Pcs, local
<1>13. CASE WalDirectoryFsync \/ DbDirectoryFsync
  BY <1>13 DEF TypeOK, WalDirectoryFsync, DbDirectoryFsync, SyncDirectory, Synced, Goto,
               Pcs, Entries, local
<1>14. CASE DbOpen
  BY <1>14 DEF TypeOK, DbOpen, DbExists, Goto, Pcs, Entries
<1>15. CASE DbSize
  <2>1. dbVol' \in Files
    BY <1>15 DEF DbSize, TypeOK, Files, Cells
  <2>2. QED
    BY <1>15, <2>1 DEF TypeOK, DbSize, Goto, Pcs, local
<1>16. CASE DbTearPage
  <2>1. dbVol' \in Files
    BY <1>16 DEF DbTearPage, TypeOK, Files, Cells
  <2>2. QED
    BY <1>16, <2>1 DEF TypeOK, DbTearPage, local
<1>17. CASE DbWritePage
  <2>1. dbVol' \in Files /\ todo' \subseteq PageIds
    BY <1>17 DEF DbWritePage, TypeOK, Files, Images
  <2>2. QED
    BY <1>17, <2>1 DEF TypeOK, DbWritePage
<1>18. CASE DbFsync
  BY <1>18 DEF TypeOK, DbFsync, Pcs, local
<1>19. CASE WalTruncate
  BY <1>19, EmptyTypes DEF TypeOK, WalTruncate, Goto, Pcs, local
<1>20. CASE Acknowledge
  BY <1>20, EndTypes DEF TypeOK, Acknowledge
<1>21. CASE RecoverDone
  BY <1>21 DEF TypeOK, RecoverDone, Goto, Pcs
<1>22. CASE PowerLoss
  <2>1. walVol' \in Logs /\ walDur' \in Logs /\ walEnt' \in Entries
    BY <1>22, EmptyTypes DEF PowerLoss, WalAfterLoss, LogsAfterLoss, TypeOK, Entries
  <2>2. dbVol' \in Files /\ dbDur' \in Files /\ dbEnt' \in Entries
    BY <1>22, EmptyTypes DEF PowerLoss, DbAfterLoss, FilesAfterLoss, TypeOK, Entries, Files
  <2>3. EndOperation /\ UNCHANGED <<images, issued, acked, answer>>
    BY <1>22 DEF PowerLoss
  <2>4. QED
    BY <2>1, <2>2, <2>3, EndTypes DEF TypeOK
<1>23. CASE UNCHANGED vars
  BY <1>23 DEF TypeOK, vars, disk, local
<1>24. QED
  BY <1>1, <1>2, <1>3, <1>4, <1>5, <1>6, <1>7, <1>8, <1>9, <1>10, <1>11, <1>12, <1>13,
     <1>14, <1>15, <1>16, <1>17, <1>18, <1>19, <1>20, <1>21, <1>22, <1>23
  DEF Next, Step, Failure

\* Every variable keeps its type in every behaviour of the protocol.
THEOREM TypeCorrect == Spec => []TypeOK
<1>1. Init => TypeOK
  BY TypeInit
<1>2. TypeOK /\ [Next]_vars => TypeOK'
  BY TypeStep
<1>3. QED
  BY <1>1, <1>2, PTL DEF Spec

-----------------------------------------------------------------------------
(* The initial states *)

LEMMA InvInit == Init => IInv
<1> SUFFICES ASSUME Init PROVE IInv
  OBVIOUS
<1> USE PageZero, IdsFacts
<1>1. TypeOK
  BY TypeInit
<1>2. /\ pc = "idle" /\ kind = "none" /\ buf = 0 /\ todo = {}
      /\ ~firstWal /\ ~firstDb /\ ~replay
      /\ walDur = walVol /\ dbDur = dbVol
  BY DEF Init, InitLocal
<1>3. ControlInv /\ ExtendsInv
  BY <1>2 DEF ControlInv, ExtendsInv, Preparing, Applying
<1>4. CASE InitFresh
  <2>1. ImagesInv
    BY <1>2, <1>4 DEF InitFresh, ImagesInv, Mutating, Built, NoImage, EmptyFile, Ids, Eof
  <2>2. WalInv /\ PagesInv /\ GenerationInv /\ PowerInv
    BY <1>2, <1>4
    DEF InitFresh, WalInv, PagesInv, GenerationInv, PowerInv, EmptyLog, Log, Preparing,
        Applying, DbExists
  <2>3. TornOnlyUnderWal /\ AcknowledgedSurvive
    BY <1>4 DEF InitFresh, TornOnlyUnderWal, AcknowledgedSurvive, DbExists
  <2>4. QED
    BY <1>1, <1>3, <2>1, <2>2, <2>3 DEF IInv
<1>5. CASE InitMigrated
  <2>1. images[0] = Migrated /\ \A i \in Ids \ {0} : images[i] = NoImage
    BY <1>5 DEF InitMigrated
  <2>2. Valid(dbVol)
    BY <2>1, <1>5 DEF InitMigrated, Valid, Migrated, TwoPages
  <2>3. ImagesInv
    BY <2>1, <1>2, <1>5
    DEF InitMigrated, ImagesInv, Mutating, Built, NoImage, EmptyFile, Migrated, TwoPages,
        Ids, Eof
  <2>4. WalInv /\ PagesInv /\ GenerationInv /\ PowerInv
    BY <1>2, <1>5, <2>2
    DEF InitMigrated, WalInv, PagesInv, GenerationInv, PowerInv, EmptyLog, Log, Preparing,
        Applying
  <2>5. TornOnlyUnderWal /\ AcknowledgedSurvive
    BY <1>5, <2>2 DEF InitMigrated, TornOnlyUnderWal, AcknowledgedSurvive
  <2>6. QED
    BY <1>1, <1>3, <2>3, <2>4, <2>5 DEF IInv
<1>6. CASE InitStale
  <2>1. /\ images[1] = [gen |-> 1, rows |-> <<1>>, pages |-> TwoPages(1)]
        /\ images[2] = [gen |-> 2, rows |-> <<1, 2>>, pages |-> TwoPages(2)]
        /\ \A i \in Ids \ {1, 2} : images[i] = NoImage
    BY <1>6 DEF InitStale, StaleImages
  <2>2. /\ images[1].gen = 1 /\ images[1].rows = <<1>> /\ images[1].pages = TwoPages(1)
        /\ images[2].gen = 2 /\ images[2].rows = <<1, 2>> /\ images[2].pages = TwoPages(2)
    BY <2>1
  <2>3. Built(1) /\ Built(2)
    BY <2>2 DEF Built, TwoPages
  <2>4. /\ dbVol[0] = 2 /\ Valid(dbVol) /\ DbExists
    BY <2>2, <1>6 DEF InitStale, Valid, TwoPages, DbExists
  <2>5. ImagesInv
    <3>1. \A i \in Ids \ {1, 2} : ~Built(i)
      <4>1. NoImage.pages[0] = Eof
        BY DEF NoImage, EmptyFile
      <4>2. \A i \in Ids : Eof # i
        BY DEF Eof, Ids
      <4>3. QED
        BY <2>1, <4>1, <4>2 DEF Built
    <3>2. \E k \in DOMAIN images[1].rows : images[1].rows[k] = 1
      BY <2>2
    <3>3. \E k \in DOMAIN images[2].rows : images[2].rows[k] = 2
      BY <2>2
    <3>4. \A i \in Ids : i > issued => images[i] = NoImage
      <4>1. issued = 2 /\ ~(1 > 2) /\ ~(2 > 2)
        BY <1>6 DEF InitStale
      <4>2. QED
        BY <2>1, <4>1
    <3>5. \A i \in Ids : Built(i) \/ images[i] = NoImage
      BY <2>1, <2>3
    <3>6. \A i \in Ids : Built(i) => \E k \in DOMAIN images[i].rows : images[i].rows[k] = i
      BY <3>1, <3>2, <3>3
    <3>7. ~Mutating
      BY <1>2 DEF Mutating
    <3>8. QED
      BY <3>4, <3>5, <3>6, <3>7 DEF ImagesInv
  <2>6. WalInv /\ PagesInv /\ PowerInv
    BY <1>2, <1>6, <2>3
    DEF InitStale, WalInv, PagesInv, PowerInv, Log, Preparing, Applying
  <2>7. GenerationInv
    BY <1>2, <2>4 DEF GenerationInv, Applying
  <2>8. TornOnlyUnderWal /\ AcknowledgedSurvive
    <3>1. WalFull /\ walVol.id = 1 /\ DbValid
      BY <1>6, <2>4 DEF InitStale, WalFull, WalPresent, Log, DbValid
    <3>2. Stale
      BY <3>1, <2>2, <2>4 DEF Stale, DbImage, WalImage
    <3>3. Committed = <<1, 2>>
      BY <3>1, <3>2, <2>2, <2>4 DEF Committed, DbImage
    <3>4. acked = {1, 2}
      BY <1>6 DEF InitStale
    <3>5. {Committed[i] : i \in DOMAIN Committed} = {1, 2}
      BY <3>3
    <3>6. QED
      BY <2>4, <3>4, <3>5 DEF TornOnlyUnderWal, AcknowledgedSurvive
  <2>9. QED
    BY <1>1, <1>3, <2>5, <2>6, <2>7, <2>8 DEF IInv
<1>7. QED
  BY <1>4, <1>5, <1>6 DEF Init

-----------------------------------------------------------------------------
(* What a caller would find *)

LEMMA CommittedType == TypeOK => Committed \in Seq(Ids)
BY DEF TypeOK, Committed, WalImage, DbImage, DbValid, Valid, Images, Logs

\* A database that is not newer than the WAL does not make it stale.
LEMMA NotNewerNotStale == TypeOK /\ NotNewer(dbVol, walVol.id) => ~Stale
<1> SUFFICES ASSUME TypeOK, NotNewer(dbVol, walVol.id), DbValid
             PROVE  ~(DbImage.gen > WalImage.gen)
  BY DEF Stale
<1>1. dbVol[0] \in Ids /\ walVol.id \in Ids /\ images \in [Ids -> Images]
  BY DEF DbValid, Valid, TypeOK, Logs
<1>2. images[dbVol[0]].gen \in Nat /\ images[walVol.id].gen \in Nat
  BY <1>1 DEF Images
<1>3. images[dbVol[0]].gen <= images[walVol.id].gen
  BY <1>1 DEF NotNewer
<1>4. QED
  BY <1>2, <1>3 DEF DbImage, WalImage

\* A complete WAL beside a database that is not newer is what counts.
LEMMA CommittedFromWal ==
    TypeOK /\ WalFull /\ NotNewer(dbVol, walVol.id) /\ ~Committing
      => Committed = WalImage.rows
BY NotNewerNotStale DEF Committed

\* While its image is applied, a WAL governs whatever the pages hold.
LEMMA CommittedWhileApplying ==
    TypeOK /\ WalInv /\ GenerationInv /\ pc \in Applying => Committed = images[buf].rows
<1> SUFFICES ASSUME TypeOK, WalInv, GenerationInv, pc \in Applying
             PROVE  Committed = images[buf].rows
  OBVIOUS
<1>1. walVol = Log("full", buf) /\ walEnt # "none"
  BY DEF WalInv, Log
<1>2. WalFull /\ walVol.id = buf /\ WalImage = images[buf]
  BY <1>1 DEF WalFull, WalPresent, WalImage, Log
<1>3. NotNewer(dbVol, walVol.id) /\ ~Committing
  BY <1>2 DEF GenerationInv, Committing, Applying
<1>4. QED
  BY <1>2, <1>3, CommittedFromWal

\* Without a complete WAL, or before it governs, it is the database that counts.
LEMMA CommittedFromDatabase ==
    ~WalFull \/ Committing
      => Committed = IF DbValid THEN DbImage.rows ELSE <<>>
BY DEF Committed

\* What the decoders say depends on the files alone.
SameFiles ==
    /\ UNCHANGED <<walVol, dbVol, images>>
    /\ walEnt' = "none" <=> walEnt = "none"
    /\ dbEnt' = "none" <=> dbEnt = "none"

LEMMA DecodersSame ==
    ASSUME SameFiles
    PROVE  /\ WalFull' <=> WalFull
           /\ WalImage' = WalImage
           /\ DbExists' <=> DbExists
           /\ DbValid' <=> DbValid
           /\ DbImage' = DbImage
           /\ Stale' <=> Stale
BY DEF SameFiles, WalFull, WalPresent, Stale, DbValid, DbExists, Valid, DbImage, WalImage

\* The table does not depend on what happens elsewhere.
LEMMA CommittedSame ==
    ASSUME SameFiles, Committing' <=> Committing
    PROVE  Committed' = Committed
BY DecodersSame DEF Committed

LEMMA GrownSame == TypeOK /\ Committed' = Committed => Grown
BY DEF Grown

\* A table that has grown still has its rows, where they were.
LEMMA GrownExtends ==
    ASSUME TypeOK, Grown
    PROVE  /\ Len(Committed) <= Len(Committed')
           /\ \A i \in DOMAIN Committed : Committed[i] = Committed'[i]
<1>1. Committed \in Seq(Ids) /\ issued \in Ids
  BY CommittedType DEF TypeOK
<1>2. QED
  BY <1>1 DEF Grown

\* The commit point: where the WAL of a prepared image begins to govern, by the
\* writer's own progress or because a failure leaves it to recovery.
LEMMA CommitPoint ==
    ASSUME IInv, SameFiles, Committing, ~Committing'
    PROVE  Grown
<1>1. /\ walVol = Log("full", buf) /\ walEnt # "none" /\ Built(buf)
      /\ DbExists => DbValid
      /\ DbValid => /\ images[buf].rows = Append(DbImage.rows, buf)
                    /\ images[buf].gen = DbImage.gen + 1
      /\ ~DbExists => images[buf].rows = <<buf>>
  BY DEF Committing, IInv, WalInv, ExtendsInv, ControlInv, Preparing, Log
<1>2. WalFull /\ WalImage = images[buf]
  BY <1>1 DEF WalFull, WalPresent, WalImage, Log
<1>3. ~Stale'
  <2>1. DbValid => DbImage.gen \in Nat
    BY DEF DbValid, Valid, DbImage, IInv, TypeOK, Images
  <2>2. ~Stale
    BY <1>1, <1>2, <2>1 DEF Stale, DbValid, DbImage
  <2>3. QED
    BY <2>2, DecodersSame
<1>4. Committed' = images[buf].rows
  BY <1>2, <1>3, DecodersSame DEF Committed
<1>5. Committed = IF DbValid THEN DbImage.rows ELSE <<>>
  BY CommittedFromDatabase
<1>6. Committed' = Append(Committed, buf)
  <2>1. CASE DbValid
    BY <2>1, <1>1, <1>4, <1>5 DEF IInv, TypeOK
  <2>2. CASE ~DbValid
    <3>1. ~DbExists /\ Committed = <<>> /\ Committed' = <<buf>>
      BY <2>2, <1>1, <1>4, <1>5
    <3>2. Append(<<>>, buf) = <<buf>>
      OBVIOUS
    <3>3. QED
      BY <3>1, <3>2 DEF IInv, TypeOK
  <2>3. QED
    BY <2>1, <2>2
<1>7. buf = issued
  BY DEF Committing, IInv, ControlInv, Preparing
<1>8. QED
  BY <1>6, <1>7 DEF Grown

\* Acknowledged statements stay in a table that only grows.
LEMMA GrownKeeps ==
    ASSUME TypeOK, TypeOK', AcknowledgedSurvive, Grown, acked' = acked
    PROVE  AcknowledgedSurvive'
<1>1. Committed \in Seq(Ids)
  BY CommittedType
<1>2. Committed' \in Seq(Ids)
  <2>1. TypeOK' => (Committed \in Seq(Ids))'
    BY CommittedType, PTL
  <2>2. QED
    BY <2>1
<1>3. DOMAIN Committed \subseteq DOMAIN Committed'
  BY <1>1, <1>2, GrownExtends
<1>4. QED
  BY <1>3, GrownExtends DEF AcknowledgedSurvive

\* An image that fills the database file makes it valid.
LEMMA FilledValid ==
    ASSUME IInv, pc \in {"wal-trunc", "wal-clear"}
    PROVE  /\ dbVol = images[buf].pages
           /\ dbVol[0] = buf
           /\ DbValid /\ DbImage = images[buf]
<1>1. Built(buf) /\ buf \in Ids /\ images[buf] \in Images /\ dbVol \in Files /\ todo = {}
  BY DEF IInv, TypeOK, ControlInv, Applying
<1>2. dbEnt # "none" /\ \A p \in PageIds : dbVol[p] = images[buf].pages[p]
  BY <1>1 DEF IInv, PagesInv
<1>3. dbVol = images[buf].pages
  BY <1>1, <1>2 DEF Images, Files
<1>4. QED
  BY <1>1, <1>2, <1>3 DEF DbValid, DbExists, Valid, DbImage, Built

-----------------------------------------------------------------------------
(* Steps that begin, reject or end an operation *)

\* The operation ends and the files are as they were.
LEMMA RejectInv ==
    ASSUME IInv, Reject, \/ pc \in {"check", "recover", "read", "inspect"}
                         \/ ~PowerLosses
    PROVE  IInv' /\ Grown
<1>1. /\ UNCHANGED <<walVol, walDur, walEnt, dbVol, dbDur, dbEnt, images, issued, acked, answer>>
      /\ pc' = "idle" /\ kind' = "none" /\ ~replay'
  BY DEF Reject, EndOperation, disk
<1>2. TypeOK'
  BY RejectTypes DEF IInv
<1>3. ImagesInv'
  BY <1>1 DEF IInv, ImagesInv, Built, Mutating
<1>4. ControlInv' /\ ExtendsInv'
  BY <1>1 DEF ControlInv, ExtendsInv, Preparing, Applying
<1>5. WalInv'
  BY <1>1 DEF IInv, WalInv, Built, Applying
<1>6. PagesInv'
  BY <1>1 DEF IInv, PagesInv, Preparing
<1>7. GenerationInv'
  BY <1>1 DEF IInv, GenerationInv, NotNewer, DbExists, Valid, Applying
<1>8. PowerInv'
  BY <1>1 DEF IInv, PowerInv, Applying
<1>9. TornOnlyUnderWal'
  BY <1>1 DEF IInv, TornOnlyUnderWal, DbExists, Valid, WalFull, WalPresent
<1>10. Grown
  <2>1. CASE ~Committing \/ ~WalFull
    <3>1. Committed' = Committed
      <4>1. ~Committing'
        BY <1>1 DEF Committing
      <4>2. QED
        BY <1>1, <2>1, <4>1, DecodersSame DEF Committed, SameFiles
    <3>2. QED
      BY <3>1, GrownSame DEF IInv
  <2>2. CASE Committing
    <3>1. SameFiles /\ ~Committing'
      BY <1>1 DEF SameFiles, Committing
    <3>2. QED
      BY <2>2, <3>1, CommitPoint
  <2>3. QED
    BY <2>1, <2>2
<1>11. AcknowledgedSurvive'
  BY <1>1, <1>2, <1>10, GrownKeeps DEF IInv
<1>12. QED
  BY <1>2, <1>3, <1>4, <1>5, <1>6, <1>7, <1>8, <1>9, <1>10, <1>11 DEF IInv

\* Reads leave files, images and acknowledgements alone.
LEMMA AnswerInv ==
    ASSUME IInv, OpenAnswers \/ InspectAnswers, TypeOK'
    PROVE  IInv' /\ Grown
<1>1. /\ UNCHANGED <<walVol, walDur, walEnt, dbVol, dbDur, dbEnt, images, issued, acked>>
      /\ pc \in {"read", "inspect"} /\ pc' = "idle" /\ kind' = "none" /\ ~replay'
  BY DEF OpenAnswers, InspectAnswers, EndOperation, disk
<1>2. ImagesInv'
  BY <1>1 DEF IInv, ImagesInv, Built, Mutating
<1>3. ControlInv' /\ ExtendsInv'
  BY <1>1 DEF ControlInv, ExtendsInv, Preparing, Applying
<1>4. WalInv' /\ PagesInv'
  BY <1>1 DEF IInv, WalInv, PagesInv, Built, Preparing, Applying
<1>5. GenerationInv' /\ PowerInv'
  BY <1>1 DEF IInv, GenerationInv, PowerInv, NotNewer, DbExists, Valid, Applying
<1>6. TornOnlyUnderWal'
  BY <1>1 DEF IInv, TornOnlyUnderWal, DbExists, Valid, WalFull, WalPresent
<1>7. Grown
  <2>1. SameFiles /\ (Committing' <=> Committing)
    BY <1>1 DEF SameFiles, Committing
  <2>2. QED
    BY <2>1, CommittedSame, GrownSame DEF IInv
<1>8. AcknowledgedSurvive'
  BY <1>1, <1>7, GrownKeeps DEF IInv
<1>9. QED
  BY <1>2, <1>3, <1>4, <1>5, <1>6, <1>7, <1>8 DEF IInv

LEMMA BeginInv ==
    ASSUME IInv, BeginMutation \/ BeginRead, TypeOK'
    PROVE  IInv' /\ Grown
<1>1. /\ UNCHANGED <<walVol, walDur, walEnt, dbVol, dbDur, dbEnt, images, acked,
                     buf, todo, firstWal, firstDb, replay>>
      /\ pc = "idle" /\ pc' \in {"check", "recover", "inspect"}
  BY DEF BeginMutation, BeginRead, Goto, disk, local
<1>2. ControlInv'
  BY <1>1 DEF IInv, ControlInv, BeginMutation, BeginRead, Goto, Preparing, Applying, Mutating
<1>3. ImagesInv'
  <2>1. CASE BeginMutation
    <3>1. issued' = issued + 1 /\ issued' \in Ids /\ issued \in Ids
      BY <2>1 DEF BeginMutation, IInv, TypeOK
    <3>2. \A i \in Ids : i > issued' => images[i] = NoImage
      BY <3>1 DEF IInv, ImagesInv, Ids
    <3>3. images[issued'] = NoImage
      BY <3>1 DEF IInv, ImagesInv, Ids
    <3>4. QED
      BY <1>1, <3>2, <3>3 DEF IInv, ImagesInv, Built
  <2>2. CASE BeginRead
    <3>1. issued' = issued /\ kind' \in {"open", "inspect"}
      BY <2>2 DEF BeginRead
    <3>2. QED
      BY <1>1, <3>1 DEF IInv, ImagesInv, Built, Mutating
  <2>3. QED
    BY <2>1, <2>2
<1>4. WalInv' /\ PagesInv' /\ ExtendsInv'
  BY <1>1 DEF IInv, WalInv, PagesInv, ExtendsInv, Built, Preparing, Applying
<1>5. GenerationInv' /\ PowerInv'
  BY <1>1 DEF IInv, GenerationInv, PowerInv, NotNewer, DbExists, Valid, Applying
<1>6. TornOnlyUnderWal'
  BY <1>1 DEF IInv, TornOnlyUnderWal, DbExists, Valid, WalFull, WalPresent
<1>7. Grown
  <2>1. SameFiles /\ (Committing' <=> Committing)
    BY <1>1 DEF SameFiles, Committing
  <2>2. QED
    BY <2>1, CommittedSame, GrownSame DEF IInv
<1>8. AcknowledgedSurvive'
  BY <1>1, <1>7, GrownKeeps DEF IInv
<1>9. QED
  BY <1>2, <1>3, <1>4, <1>5, <1>6, <1>7, <1>8 DEF IInv

-----------------------------------------------------------------------------
(* Steps that build an image *)

\* A statement builds its image while nothing else refers to it.
LEMMA BuildInv ==
    ASSUME IInv, TypeOK',
           NEW image \in Images, NEW dirty \in SUBSET PageIds,
           Build(image, dirty), Goto(pc, "wal-open"),
           pc \in {"check", "read"}, Mutating, ~replay,
           walVol.state = "empty",
           DbExists => DbValid,
           image.pages[0] = issued,
           \E k \in DOMAIN image.rows : image.rows[k] = issued,
           \A p \in PageIds \ dirty : dbVol[p] = image.pages[p],
           DbValid => /\ image.rows = Append(DbImage.rows, issued)
                      /\ image.gen = DbImage.gen + 1,
           ~DbExists => image.rows = <<issued>>
    PROVE  IInv' /\ Grown
<1> USE PageZero
<1>1. /\ UNCHANGED <<walVol, walDur, walEnt, dbVol, dbDur, dbEnt, issued, acked, kind,
                     firstWal, firstDb, replay>>
      /\ pc' = "wal-open" /\ buf' = issued /\ todo' = dirty
      /\ images' = [images EXCEPT ![issued] = image]
  BY DEF Build, Goto, disk
<1>2. /\ issued \in Ids /\ images \in [Ids -> Images] /\ images[issued] = NoImage
      /\ images'[issued] = image
      /\ \A i \in Ids \ {issued} : images'[i] = images[i]
  BY <1>1 DEF IInv, TypeOK, ImagesInv
<1>3. DbValid => dbVol[0] \in Ids \ {issued}
  <2>1. DbValid => dbVol[0] \in Ids /\ images[dbVol[0]].pages[0] = dbVol[0]
    BY DEF DbValid, Valid
  <2>2. NoImage.pages[0] \notin Ids
    BY DEF NoImage, EmptyFile, Eof, Ids
  <2>3. QED
    BY <1>2, <2>1, <2>2
<1>4. DbExists' <=> DbExists
  BY <1>1 DEF DbExists
<1>5. DbValid => DbValid' /\ DbImage' = DbImage
  BY <1>1, <1>2, <1>3, <1>4 DEF DbValid, Valid, DbImage
<1>6. DbValid' <=> DbExists
  BY <1>4, <1>5 DEF DbValid
<1>7. ~WalFull /\ ~WalFull'
  BY <1>1 DEF WalFull, WalPresent
<1>8. ImagesInv'
  <2>1. \A i \in Ids : Built(i)' \/ images'[i] = NoImage
    BY <1>2 DEF IInv, ImagesInv, Built
  <2>2. \A i \in Ids : Built(i)' => \E k \in DOMAIN images'[i].rows : images'[i].rows[k] = i
    BY <1>2 DEF IInv, ImagesInv, Built
  <2>3. \A i \in Ids : i > issued => images'[i] = NoImage
    BY <1>2 DEF IInv, ImagesInv, Ids
  <2>4. QED
    BY <1>1, <2>1, <2>2, <2>3 DEF ImagesInv
<1>9. ControlInv'
  BY <1>1, <1>2 DEF ControlInv, Preparing, Applying, Mutating, Built
<1>10. WalInv'
  BY <1>1 DEF IInv, WalInv, Applying
<1>11. PagesInv'
  BY <1>1, <1>2 DEF IInv, PagesInv, Preparing
<1>12. ExtendsInv'
  BY <1>1, <1>2, <1>4, <1>5, <1>6 DEF ExtendsInv
<1>13. GenerationInv' /\ PowerInv'
  BY <1>1 DEF IInv, GenerationInv, PowerInv, Applying
<1>14. TornOnlyUnderWal'
  BY <1>4, <1>6 DEF TornOnlyUnderWal, DbValid
<1>15. Grown
  <2>1. Committed = IF DbValid THEN DbImage.rows ELSE <<>>
    BY <1>7, CommittedFromDatabase
  <2>2. Committed' = IF DbValid' THEN DbImage'.rows ELSE <<>>
    BY <1>7 DEF Committed
  <2>3. Committed' = Committed
    BY <1>5, <1>6, <2>1, <2>2 DEF DbValid
  <2>4. QED
    BY <2>3, GrownSame DEF IInv
<1>16. AcknowledgedSurvive'
  BY <1>1, <1>15, GrownKeeps DEF IInv
<1>17. QED
  BY <1>8, <1>9, <1>10, <1>11, <1>12, <1>13, <1>14, <1>15, <1>16 DEF IInv

LEMMA CreateBuildInv ==
    ASSUME IInv, CreateBuild, TypeOK'
    PROVE  IInv' /\ Grown
<1> USE PageZero
<1>1. PICK last \in PageIds \ {0} :
        Build([gen   |-> 1,
               rows  |-> <<issued>>,
               pages |-> [p \in PageIds |-> IF p <= last THEN issued ELSE Eof]],
              0 .. last)
  BY DEF CreateBuild
<1> DEFINE pages == [p \in PageIds |-> IF p <= last THEN issued ELSE Eof]
           image == [gen |-> 1, rows |-> <<issued>>, pages |-> pages]
<1>2. pages \in Files /\ pages[0] = issued
  BY PagesAssumption DEF IInv, TypeOK, Files, Cells, PageIds
<1>3. \A p \in PageIds \ (0 .. last) : pages[p] = Eof
  BY PagesAssumption DEF PageIds
<1> HIDE DEF pages
<1>4. /\ image \in Images /\ image.pages = pages /\ image.rows = <<issued>>
  BY <1>2 DEF IInv, TypeOK, Images
<1>5. \E k \in DOMAIN image.rows : image.rows[k] = issued
  BY <1>4
<1>6. 0 .. last \in SUBSET PageIds
  BY PagesAssumption DEF PageIds
<1>7. /\ pc = "check" /\ Goto(pc, "wal-open") /\ ~DbExists /\ ~DbValid /\ ~WalPresent
  BY DEF CreateBuild, Goto, DbValid
<1>8. Mutating /\ ~replay /\ walVol.state = "empty" /\ dbVol = EmptyFile
  <2>1. Mutating /\ ~replay
    BY <1>7 DEF IInv, ControlInv, Mutating, Applying
  <2>2. walVol.state = "empty"
    BY <1>7 DEF IInv, WalInv, WalPresent
  <2>3. dbVol = EmptyFile
    BY <1>7 DEF IInv, PagesInv, DbExists
  <2>4. QED
    BY <2>1, <2>2, <2>3
<1>9. \A p \in PageIds \ (0 .. last) : dbVol[p] = image.pages[p]
  BY <1>3, <1>4, <1>8 DEF EmptyFile
<1>10. Build(image, 0 .. last)
  BY <1>1 DEF pages
<1> HIDE DEF image
<1>11. QED
  BY <1>2, <1>4, <1>5, <1>6, <1>7, <1>8, <1>9, <1>10, BuildInv

LEMMA InsertBuildInv ==
    ASSUME IInv, InsertBuild, TypeOK'
    PROVE  IInv' /\ Grown
<1> USE PageZero
<1>1. PICK last \in PageIds, touched \in SUBSET (PageIds \ {0}) :
        LET old == Size(dbVol)
            dirty == {0} \union touched \union ((0 .. last) \ old)
        IN  Build([gen   |-> DbImage.gen + 1,
                   rows  |-> Append(DbImage.rows, issued),
                   pages |-> [p \in PageIds |-> IF p \in dirty THEN issued ELSE dbVol[p]]],
                  dirty)
  BY DEF InsertBuild
<1> DEFINE dirty == {0} \union touched \union ((0 .. last) \ Size(dbVol))
           pages == [p \in PageIds |-> IF p \in dirty THEN issued ELSE dbVol[p]]
           image == [gen |-> DbImage.gen + 1, rows |-> Append(DbImage.rows, issued),
                     pages |-> pages]
<1>2. dirty \in SUBSET PageIds /\ 0 \in dirty
  <2>1. 0 .. last \subseteq PageIds
    BY PagesAssumption DEF PageIds
  <2>2. QED
    BY <2>1
<1>3. Build(image, dirty)
  BY <1>1
<1> HIDE DEF dirty
<1>4. /\ pages \in Files /\ pages[0] = issued
      /\ \A p \in PageIds \ dirty : dbVol[p] = pages[p]
  BY <1>2 DEF IInv, TypeOK, Files, Cells
<1> HIDE DEF pages
<1>5. DbValid /\ DbExists /\ DbImage \in Images
  BY DEF InsertBuild, DbValid, Valid, DbImage, IInv, TypeOK
<1>6. /\ image \in Images /\ image.pages = pages
      /\ image.rows = Append(DbImage.rows, issued) /\ image.gen = DbImage.gen + 1
  <2>1. DbImage.gen \in Nat /\ DbImage.rows \in Seq(Ids) /\ issued \in Ids
    BY <1>5 DEF IInv, TypeOK, Images
  <2>2. DbImage.gen + 1 \in Nat /\ Append(DbImage.rows, issued) \in Seq(Ids)
    BY <2>1
  <2>3. QED
    BY <1>4, <2>2 DEF Images
<1>7. \E k \in DOMAIN image.rows : image.rows[k] = issued
  <2>1. DbImage.rows \in Seq(Ids) /\ issued \in Ids
    BY <1>5 DEF Images, IInv, TypeOK
  <2>2. /\ Len(DbImage.rows) + 1 \in DOMAIN Append(DbImage.rows, issued)
        /\ Append(DbImage.rows, issued)[Len(DbImage.rows) + 1] = issued
    BY <2>1
  <2>3. QED
    BY <1>6, <2>2
<1>8. pc = "read" /\ Goto(pc, "wal-open") /\ Mutating
  BY DEF InsertBuild, Goto, Mutating
<1>9. ~replay /\ walVol.state = "empty"
  BY <1>8 DEF IInv, ControlInv, WalInv, Applying
<1> HIDE DEF image
<1>10. QED
  BY <1>2, <1>3, <1>4, <1>5, <1>6, <1>7, <1>8, <1>9, BuildInv

-----------------------------------------------------------------------------
(* Steps of recover *)

LEMMA RecoverNothingInv ==
    ASSUME IInv, RecoverNothing, TypeOK'
    PROVE  IInv' /\ Grown
<1>1. /\ UNCHANGED <<walVol, walDur, walEnt, dbVol, dbDur, dbEnt, images, issued, acked,
                     kind, buf, todo, firstWal, firstDb, replay>>
      /\ pc = "recover" /\ pc' = "read" /\ walVol.state = "empty"
  BY DEF RecoverNothing, Goto, disk, local, IInv, WalInv, WalPresent
<1>2. ImagesInv' /\ ControlInv'
  BY <1>1 DEF IInv, ImagesInv, ControlInv, Built, Mutating, Preparing, Applying
<1>3. WalInv' /\ PagesInv' /\ ExtendsInv'
  BY <1>1 DEF IInv, WalInv, PagesInv, ExtendsInv, Built, Preparing, Applying
<1>4. GenerationInv' /\ PowerInv'
  BY <1>1 DEF IInv, GenerationInv, PowerInv, NotNewer, DbExists, Valid, Applying
<1>5. TornOnlyUnderWal'
  BY <1>1 DEF IInv, TornOnlyUnderWal, DbExists, Valid, WalFull, WalPresent
<1>6. Grown
  <2>1. SameFiles /\ (Committing' <=> Committing)
    BY <1>1 DEF SameFiles, Committing
  <2>2. QED
    BY <2>1, CommittedSame, GrownSame DEF IInv
<1>7. AcknowledgedSurvive'
  BY <1>1, <1>6, GrownKeeps DEF IInv
<1>8. QED
  BY <1>2, <1>3, <1>4, <1>5, <1>6, <1>7 DEF IInv

LEMMA RecoverReplayInv ==
    ASSUME IInv, RecoverReplay, TypeOK'
    PROVE  IInv' /\ Grown
<1>1. /\ UNCHANGED <<walVol, walDur, walEnt, dbVol, dbDur, dbEnt, images, issued, acked,
                     kind, firstWal, firstDb>>
      /\ pc = "recover" /\ pc' = "db-open" /\ replay' = TRUE
      /\ buf' = walVol.id /\ todo' = Size(WalImage.pages)
      /\ walEnt # "none" /\ walVol.state = "full" /\ WalFull /\ ~Stale
  BY DEF RecoverReplay, Goto, disk, WalFull, WalPresent
<1>2. walVol = Log("full", buf') /\ buf' \in Ids /\ Built(buf')
  BY <1>1 DEF IInv, TypeOK, Logs, Log, WalInv, Built
<1>3. ImagesInv' /\ ControlInv'
  BY <1>1, <1>2 DEF IInv, ImagesInv, ControlInv, Built, Mutating, Preparing, Applying
<1>4. WalInv' /\ ExtendsInv'
  BY <1>1, <1>2 DEF IInv, WalInv, ExtendsInv, Built, Preparing, Applying
<1>5. PagesInv'
  BY <1>1 DEF IInv, PagesInv, WalImage, Size, Preparing
<1>6. NotNewer(dbVol, walVol.id)
  <2>1. CASE ~DbExists
    <3>1. dbVol[0] = Eof
      BY <2>1, PageZero DEF IInv, PagesInv, DbExists, EmptyFile
    <3>2. QED
      BY <3>1 DEF NotNewer, Eof, Ids
  <2>2. CASE DbExists /\ Valid(dbVol)
    <3>1. dbVol[0] \in Ids /\ images[dbVol[0]].gen \in Nat /\ images[walVol.id].gen \in Nat
      BY <2>2, <1>2, <1>1 DEF Valid, IInv, TypeOK, Images
    <3>2. ~(images[dbVol[0]].gen > images[walVol.id].gen)
      BY <1>1, <2>2 DEF Stale, DbValid, DbImage, WalImage
    <3>3. QED
      BY <3>1, <3>2 DEF NotNewer
  <2>3. CASE DbExists /\ ~Valid(dbVol)
    BY <2>3, <1>1 DEF IInv, GenerationInv
  <2>4. QED
    BY <2>1, <2>2, <2>3
<1>7. GenerationInv'
  BY <1>1, <1>6 DEF IInv, GenerationInv, NotNewer, DbExists, Valid
<1>8. PowerInv'
  BY <1>1, <1>6 DEF IInv, PowerInv, NotNewer, Applying
<1>9. TornOnlyUnderWal'
  BY <1>1 DEF IInv, TornOnlyUnderWal, DbExists, Valid, WalFull, WalPresent
<1>10. Grown
  <2>1. SameFiles /\ (Committing' <=> Committing)
    BY <1>1 DEF SameFiles, Committing
  <2>2. QED
    BY <2>1, CommittedSame, GrownSame DEF IInv
<1>11. AcknowledgedSurvive'
  BY <1>1, <1>10, GrownKeeps DEF IInv
<1>12. QED
  BY <1>3, <1>4, <1>5, <1>7, <1>8, <1>9, <1>10, <1>11 DEF IInv

-----------------------------------------------------------------------------
(* Steps that write the WAL *)

LEMMA WalOpenInv ==
    ASSUME IInv, WalOpen, TypeOK'
    PROVE  IInv' /\ Grown
<1>1. /\ UNCHANGED <<walDur, dbVol, dbDur, dbEnt, images, issued, acked, kind, buf, todo,
                     firstDb, replay>>
      /\ pc = "wal-open" /\ pc' = "wal-write"
      /\ firstWal' = (walEnt = "none")
      /\ walEnt' = IF walEnt = "none" THEN "cached" ELSE walEnt
      /\ walVol' = EmptyLog /\ walVol.state = "empty"
  BY DEF WalOpen, Goto, IInv, WalInv
<1>2. walEnt' # "none" /\ walVol'.state = "empty"
  BY <1>1 DEF EmptyLog, Log
<1>3. ImagesInv' /\ ControlInv'
  BY <1>1 DEF IInv, ImagesInv, ControlInv, Built, Mutating, Preparing, Applying
<1>4. WalInv'
  BY <1>1, <1>2 DEF WalInv, Applying
<1>5. PagesInv' /\ ExtendsInv'
  BY <1>1 DEF IInv, PagesInv, ExtendsInv, DbValid, DbExists, Valid, DbImage, Preparing
<1>6. GenerationInv'
  BY <1>1, <1>2 DEF GenerationInv, Applying
<1>7. PowerInv'
  <2>1. SUFFICES ASSUME PowerLosses PROVE PowerInv'
    BY DEF PowerInv
  <2>2. walDur.state = "empty"
    BY <1>1, <2>1 DEF IInv, PowerInv
  <2>3. walEnt # "none" => walEnt = "durable"
    BY <1>1, <2>1 DEF IInv, PowerInv, TypeOK, Entries
  <2>4. QED
    BY <1>1, <1>2, <2>1, <2>2, <2>3 DEF IInv, PowerInv, Applying
<1>8. ~WalFull /\ ~WalFull'
  BY <1>1, <1>2 DEF WalFull, WalPresent
<1>9. TornOnlyUnderWal'
  BY <1>1, <1>8 DEF IInv, TornOnlyUnderWal, DbExists, Valid
<1>10. Grown
  <2>1. Committed' = Committed
    BY <1>1, <1>8 DEF Committed, DbValid, DbExists, Valid, DbImage
  <2>2. QED
    BY <2>1, GrownSame DEF IInv
<1>11. AcknowledgedSurvive'
  BY <1>1, <1>10, GrownKeeps DEF IInv
<1>12. QED
  BY <1>3, <1>4, <1>5, <1>6, <1>7, <1>9, <1>10, <1>11 DEF IInv

LEMMA WalWriteInv ==
    ASSUME IInv, WalWritePart \/ WalWriteRest, TypeOK'
    PROVE  IInv' /\ Grown
<1>1. /\ UNCHANGED <<walDur, walEnt, dbVol, dbDur, dbEnt, images, issued, acked, kind, buf,
                     todo, firstWal, firstDb, replay>>
      /\ pc = "wal-write"
      /\ \/ pc' = "wal-write" /\ walVol' = Log("partial", 0)
         \/ pc' = "wal-fsync" /\ walVol' = Log("full", buf)
  BY DEF WalWritePart, WalWriteRest, Goto, local
<1>2. /\ walEnt # "none" /\ walVol.state # "full" /\ Built(buf)
      /\ pc' = "wal-write" => walVol'.state = "partial"
      /\ walVol'.state = "full" => walVol'.id = buf
  BY <1>1 DEF IInv, WalInv, ControlInv, Preparing, Log
<1>3. ImagesInv' /\ ControlInv'
  BY <1>1 DEF IInv, ImagesInv, ControlInv, Built, Mutating, Preparing, Applying
<1>4. WalInv'
  BY <1>1, <1>2 DEF WalInv, Built, Applying
<1>5. PagesInv' /\ ExtendsInv'
  BY <1>1 DEF IInv, PagesInv, ExtendsInv, DbValid, DbExists, Valid, DbImage, Preparing
<1>6. DbExists => DbValid
  BY <1>1 DEF IInv, ExtendsInv, Preparing
<1>7. GenerationInv'
  BY <1>1, <1>6 DEF GenerationInv, DbValid, DbExists, Valid, Applying
<1>8. PowerInv'
  BY <1>1, <1>2 DEF IInv, PowerInv, Applying
<1>9. TornOnlyUnderWal'
  BY <1>1, <1>6 DEF TornOnlyUnderWal, DbValid, DbExists, Valid
<1>10. Grown
  <2>1. ~WalFull /\ (~WalFull' \/ Committing')
    BY <1>1, <1>2 DEF WalFull, WalPresent, Committing
  <2>2. Committed' = Committed
    BY <1>1, <2>1 DEF Committed, DbValid, DbExists, Valid, DbImage
  <2>3. QED
    BY <2>2, GrownSame DEF IInv
<1>11. AcknowledgedSurvive'
  BY <1>1, <1>10, GrownKeeps DEF IInv
<1>12. QED
  BY <1>3, <1>4, <1>5, <1>7, <1>8, <1>9, <1>10, <1>11 DEF IInv

\* Syncing the WAL or its directory; the last of these is the commit point.
LEMMA WalSyncInv ==
    ASSUME IInv, WalFsync \/ WalDirectoryFsync, TypeOK'
    PROVE  IInv' /\ Grown
<1>1. /\ UNCHANGED <<walVol, dbVol, dbDur, images, issued, acked, kind, buf, todo, firstWal,
                     firstDb, replay>>
      /\ \/ /\ pc = "wal-fsync" /\ pc' = IF firstWal THEN "wal-dir" ELSE "db-open"
            /\ walDur' = walVol /\ walEnt' = walEnt /\ dbEnt' = dbEnt
         \/ /\ pc = "wal-dir" /\ pc' = "db-open"
            /\ walDur' = walDur /\ walEnt' = Synced(walEnt) /\ dbEnt' = Synced(dbEnt)
  BY DEF WalFsync, WalDirectoryFsync, SyncDirectory, Goto, local
<1>2. /\ walVol = Log("full", buf) /\ walVol.state = "full" /\ walVol.id = buf
      /\ walEnt # "none" /\ Built(buf) /\ ~replay
  BY <1>1 DEF IInv, WalInv, ControlInv, Preparing, Log
<1>3. /\ walEnt' = "none" <=> walEnt = "none"
      /\ dbEnt' = "none" <=> dbEnt = "none"
      /\ DbExists' <=> DbExists
  BY <1>1 DEF Synced, DbExists
<1>4. ImagesInv' /\ ControlInv'
  BY <1>1 DEF IInv, ImagesInv, ControlInv, Built, Mutating, Preparing, Applying
<1>5. WalInv'
  BY <1>1, <1>2, <1>3 DEF WalInv, Built, Applying
<1>6. PagesInv'
  BY <1>1, <1>2, <1>3 DEF IInv, PagesInv, Preparing
<1>7. ExtendsInv'
  BY <1>1, <1>3 DEF IInv, ExtendsInv, DbValid, Valid, DbImage, Preparing
<1>8. DbExists => DbValid
  BY <1>1 DEF IInv, ExtendsInv, Preparing
<1>9. NotNewer(dbVol, buf)
  <2>1. CASE DbValid
    <3>1. images[buf].gen = images[dbVol[0]].gen + 1 /\ images[dbVol[0]].gen \in Nat
      BY <1>1, <2>1 DEF IInv, ExtendsInv, Preparing, DbImage, DbValid, Valid, TypeOK, Images
    <3>2. QED
      BY <3>1 DEF NotNewer
  <2>2. CASE ~DbExists
    <3>1. dbVol[0] = Eof
      BY <2>2, PageZero DEF IInv, PagesInv, DbExists, EmptyFile
    <3>2. QED
      BY <3>1 DEF NotNewer, Eof, Ids
  <2>3. QED
    BY <1>8, <2>1, <2>2
<1>10. GenerationInv'
  <2>1. NotNewer(dbVol, buf)' /\ NotNewer(dbVol', walVol'.id)
    BY <1>1, <1>2, <1>9 DEF NotNewer
  <2>2. QED
    BY <1>1, <1>2, <1>9, <2>1 DEF GenerationInv, NotNewer
<1>11. PowerInv'
  <2>1. SUFFICES ASSUME PowerLosses PROVE PowerInv'
    BY DEF PowerInv
  <2>2. dbDur = dbVol /\ dbEnt # "cached" /\ (dbEnt = "none" => dbDur = EmptyFile)
    BY <1>1, <2>1 DEF IInv, PowerInv, Applying
  <2>3. walDur' = walVol
    BY <1>1, <2>1 DEF IInv, PowerInv
  <2>4. pc' = "db-open" => walEnt' # "cached"
    BY <1>1, <1>2, <2>1 DEF IInv, PowerInv, Synced
  <2>5. dbEnt' # "cached"
    BY <1>1, <2>2 DEF Synced
  <2>6. QED
    BY <1>1, <1>2, <1>3, <1>9, <2>1, <2>2, <2>3, <2>4, <2>5 DEF PowerInv, NotNewer
<1>12. TornOnlyUnderWal'
  BY <1>1, <1>2, <1>3 DEF TornOnlyUnderWal, WalFull, WalPresent
<1>13. Grown
  <2>1. SameFiles /\ Committing
    BY <1>1, <1>3 DEF SameFiles, Committing
  <2>2. CASE Committing'
    BY <2>1, <2>2, CommittedSame, GrownSame DEF IInv
  <2>3. CASE ~Committing'
    BY <2>1, <2>3, CommitPoint
  <2>4. QED
    BY <2>2, <2>3
<1>14. AcknowledgedSurvive'
  BY <1>1, <1>13, GrownKeeps DEF IInv
<1>15. QED
  BY <1>4, <1>5, <1>6, <1>7, <1>10, <1>11, <1>12, <1>13, <1>14 DEF IInv

-----------------------------------------------------------------------------
(* Steps that write the database *)

\* While pages are written the table is the WAL's, before and after each step.
LEMMA ApplyingGrown ==
    ASSUME IInv, TypeOK', WalInv', GenerationInv',
           pc \in Applying, pc' \in Applying, buf' = buf, images' = images
    PROVE  Grown
<1>1. Committed = images[buf].rows
  BY CommittedWhileApplying DEF IInv
<1>2. Committed' = images'[buf'].rows
  <2>1. (TypeOK /\ WalInv /\ GenerationInv /\ pc \in Applying => Committed = images[buf].rows)'
    BY CommittedWhileApplying, PTL
  <2>2. QED
    BY <2>1
<1>3. QED
  BY <1>1, <1>2, GrownSame DEF IInv

LEMMA DbOpenInv ==
    ASSUME IInv, DbOpen, TypeOK'
    PROVE  IInv' /\ Grown
<1>1. /\ UNCHANGED <<walVol, walDur, walEnt, dbVol, dbDur, images, issued, acked, kind, buf,
                     todo, firstWal, replay>>
      /\ pc = "db-open" /\ pc' = "db-size"
      /\ firstDb' = ~DbExists
      /\ dbEnt' = IF DbExists THEN dbEnt ELSE "cached"
  BY DEF DbOpen, Goto
<1>2. /\ walVol = Log("full", buf) /\ walVol.state = "full" /\ walEnt # "none"
      /\ dbEnt' # "none" /\ NotNewer(dbVol, buf)
  BY <1>1 DEF IInv, WalInv, GenerationInv, Applying, Log, DbExists
<1>3. ImagesInv' /\ ControlInv' /\ ExtendsInv'
  BY <1>1 DEF IInv, ImagesInv, ControlInv, ExtendsInv, Built, Mutating, Preparing, Applying
<1>4. WalInv'
  BY <1>1, <1>2 DEF IInv, WalInv, Built, Applying
<1>5. PagesInv'
  BY <1>1, <1>2 DEF IInv, PagesInv, Preparing
<1>6. GenerationInv'
  BY <1>1, <1>2 DEF GenerationInv, NotNewer, Log
<1>7. PowerInv'
  BY <1>1, <1>2 DEF IInv, PowerInv, NotNewer, DbExists, Applying, TypeOK, Entries
<1>8. TornOnlyUnderWal'
  BY <1>1, <1>2 DEF TornOnlyUnderWal, WalFull, WalPresent
<1>9. Grown
  BY <1>1, <1>4, <1>6, ApplyingGrown DEF Applying
<1>10. AcknowledgedSurvive'
  BY <1>1, <1>9, GrownKeeps DEF IInv
<1>11. QED
  BY <1>3, <1>4, <1>5, <1>6, <1>7, <1>8, <1>9, <1>10 DEF IInv

\* A step of apply_image that writes the database file.
LEMMA DbWriteInv ==
    ASSUME IInv, DbSize \/ DbTearPage \/ DbWritePage, TypeOK'
    PROVE  IInv' /\ Grown
<1> USE PageZero
<1>1. /\ UNCHANGED <<walVol, walDur, walEnt, dbDur, dbEnt, images, issued, acked, kind, buf,
                     firstWal, firstDb, replay>>
      /\ pc \in {"db-size", "db-page"} /\ pc' = "db-page"
  BY DEF DbSize, DbTearPage, DbWritePage, Goto, local
<1>2. /\ walVol = Log("full", buf) /\ walVol.state = "full" /\ walVol.id = buf
      /\ walEnt # "none" /\ dbEnt # "none" /\ Built(buf)
      /\ NotNewer(dbVol, buf)
  BY <1>1 DEF IInv, WalInv, ControlInv, PagesInv, GenerationInv, Applying, Log
<1>3. /\ buf \in Ids /\ images[buf].pages \in Files /\ images[buf].gen \in Nat
      /\ dbVol \in Files /\ todo \subseteq PageIds
  BY DEF IInv, TypeOK, Images
<1>4. \A p \in PageIds \ todo' : dbVol'[p] = images[buf].pages[p]
  <2>1. CASE DbSize
    <3>1. /\ pc = "db-size" /\ todo' = todo
          /\ dbVol' = [p \in PageIds |->
                         IF p \notin Size(images[buf].pages) THEN Eof
                         ELSE IF dbVol[p] = Eof THEN Zero ELSE dbVol[p]]
      BY <2>1 DEF DbSize, Goto, local
    <3>2. CASE replay
      <4>1. Size(images[buf].pages) \subseteq todo
        BY <3>1, <3>2, <1>1 DEF IInv, PagesInv
      <4>2. QED
        BY <3>1, <4>1 DEF Size
    <3>3. CASE ~replay
      BY <3>1, <3>3, <1>3 DEF IInv, PagesInv, Size
    <3>4. QED
      BY <3>2, <3>3
  <2>2. CASE DbTearPage
    <3>1. PICK p \in todo : dbVol' = [dbVol EXCEPT ![p] = Torn] /\ todo' = todo
      BY <2>2 DEF DbTearPage, NextPage, local
    <3>2. QED
      BY <2>2, <3>1, <1>3 DEF IInv, PagesInv, DbTearPage, Files
  <2>3. CASE DbWritePage
    <3>1. PICK p \in todo : /\ dbVol' = [dbVol EXCEPT ![p] = images[buf].pages[p]]
                            /\ todo' = todo \ {p}
      BY <2>3 DEF DbWritePage, NextPage
    <3>2. QED
      BY <2>3, <3>1, <1>3 DEF IInv, PagesInv, DbWritePage, Files
  <2>4. QED
    BY <2>1, <2>2, <2>3
<1>5. dbVol'[0] \in {dbVol[0], buf, Eof, Zero, Torn}
  <2>1. CASE DbSize
    BY <2>1 DEF DbSize
  <2>2. CASE DbTearPage
    BY <2>2, <1>3 DEF DbTearPage, Files
  <2>3. CASE DbWritePage
    BY <2>3, <1>2, <1>3 DEF DbWritePage, Files, Built
  <2>4. QED
    BY <2>1, <2>2, <2>3
<1>6. NotNewer(dbVol', buf)
  BY <1>2, <1>3, <1>5 DEF NotNewer, Eof, Zero, Torn, Ids
<1>7. ImagesInv' /\ ControlInv' /\ ExtendsInv'
  BY <1>1 DEF IInv, ImagesInv, ControlInv, ExtendsInv, Built, Mutating, Preparing, Applying
<1>8. WalInv'
  BY <1>1, <1>2 DEF IInv, WalInv, Built, Applying
<1>9. PagesInv'
  BY <1>1, <1>2, <1>4 DEF PagesInv, Preparing
<1>10. GenerationInv'
  BY <1>1, <1>2, <1>6 DEF GenerationInv, NotNewer
<1>11. PowerInv'
  BY <1>1, <1>2 DEF IInv, PowerInv, NotNewer, Applying
<1>12. TornOnlyUnderWal'
  BY <1>1, <1>2 DEF TornOnlyUnderWal, WalFull, WalPresent
<1>13. Grown
  BY <1>1, <1>8, <1>10, ApplyingGrown DEF Applying
<1>14. AcknowledgedSurvive'
  BY <1>1, <1>13, GrownKeeps DEF IInv
<1>15. QED
  BY <1>7, <1>8, <1>9, <1>10, <1>11, <1>12, <1>13, <1>14 DEF IInv

LEMMA DbSyncInv ==
    ASSUME IInv, DbFsync \/ DbDirectoryFsync, TypeOK'
    PROVE  IInv' /\ Grown
<1>1. /\ UNCHANGED <<walVol, walDur, dbVol, images, issued, acked, kind, buf, todo, firstWal,
                     firstDb, replay>>
      /\ \/ /\ pc = "db-page" /\ todo = {} /\ pc' = IF firstDb THEN "db-dir" ELSE "wal-trunc"
            /\ dbDur' = dbVol /\ walEnt' = walEnt /\ dbEnt' = dbEnt
         \/ /\ pc = "db-dir" /\ pc' = "wal-trunc"
            /\ dbDur' = dbDur /\ walEnt' = Synced(walEnt) /\ dbEnt' = Synced(dbEnt)
  BY DEF DbFsync, DbDirectoryFsync, SyncDirectory, Goto, local
<1>2. /\ walVol = Log("full", buf) /\ walVol.state = "full" /\ walVol.id = buf
      /\ walEnt # "none" /\ dbEnt # "none" /\ Built(buf) /\ todo = {}
      /\ NotNewer(dbVol, buf)
  BY <1>1 DEF IInv, WalInv, ControlInv, PagesInv, GenerationInv, Applying, Log
<1>3. walEnt' # "none" /\ dbEnt' # "none" /\ pc \in Applying /\ pc' \in Applying
  BY <1>1, <1>2 DEF Synced, Applying
<1>4. ImagesInv'
  BY <1>1 DEF IInv, ImagesInv, Built, Mutating
<1>5. ControlInv' /\ ExtendsInv'
  BY <1>1, <1>2 DEF IInv, ControlInv, ExtendsInv, Built, Mutating, Preparing, Applying
<1>6. WalInv'
  BY <1>1, <1>2, <1>3 DEF WalInv, Built, Applying
<1>7. PagesInv'
  BY <1>1, <1>3 DEF IInv, PagesInv, Preparing
<1>8. GenerationInv'
  BY <1>1, <1>2 DEF GenerationInv, NotNewer
<1>9. PowerInv'
  <2>1. SUFFICES ASSUME PowerLosses PROVE PowerInv'
    BY DEF PowerInv
  <2>2. /\ walDur = walVol /\ walEnt = "durable"
        /\ pc = "db-page" /\ ~firstDb => dbEnt = "durable"
        /\ pc = "db-dir" => dbDur = dbVol
    BY <1>1, <1>2, <2>1 DEF IInv, PowerInv, Applying, TypeOK, Entries
  <2>3. walDur' = walVol' /\ walEnt' = "durable" /\ dbDur' = dbVol'
    BY <1>1, <2>2 DEF Synced
  <2>4. pc' = "wal-trunc" => dbEnt' = "durable"
    BY <1>1, <1>2, <2>2 DEF Synced
  <2>5. NotNewer(dbDur, buf)'
    BY <1>1, <1>2, <2>3 DEF NotNewer
  <2>6. pc' = "db-dir" => firstDb'
    BY <1>1
  <2>7. pc' \in {"db-dir", "wal-trunc"} /\ dbEnt' # "none" /\ walEnt' # "none"
    BY <1>1, <1>3
  <2>8. QED
    BY <2>3, <2>4, <2>5, <2>6, <2>7 DEF PowerInv, Applying
<1>10. TornOnlyUnderWal'
  BY <1>1, <1>2, <1>3 DEF TornOnlyUnderWal, WalFull, WalPresent
<1>11. Grown
  BY <1>1, <1>3, <1>6, <1>8, ApplyingGrown
<1>12. AcknowledgedSurvive'
  BY <1>1, <1>11, GrownKeeps DEF IInv
<1>13. QED
  BY <1>4, <1>5, <1>6, <1>7, <1>8, <1>9, <1>10, <1>11, <1>12 DEF IInv

-----------------------------------------------------------------------------
(* Steps that clear the WAL *)

LEMMA WalTruncateInv ==
    ASSUME IInv, WalTruncate, TypeOK'
    PROVE  IInv' /\ Grown
<1>1. /\ UNCHANGED <<walDur, walEnt, dbVol, dbDur, dbEnt, images, issued, acked, kind, buf,
                     todo, firstWal, firstDb, replay>>
      /\ pc = "wal-trunc" /\ pc' = "wal-clear" /\ walVol' = EmptyLog
  BY DEF WalTruncate, Goto, local
<1>2. walVol'.state = "empty" /\ walVol = Log("full", buf) /\ walEnt # "none"
  BY <1>1 DEF IInv, WalInv, EmptyLog, Applying, Log
<1>3. DbValid /\ DbImage = images[buf]
  BY <1>1, FilledValid
<1>4. DbValid' /\ DbImage' = DbImage
  BY <1>1, <1>3 DEF DbValid, DbExists, Valid, DbImage
<1>5. ImagesInv' /\ ControlInv' /\ ExtendsInv'
  BY <1>1 DEF IInv, ImagesInv, ControlInv, ExtendsInv, Built, Mutating, Preparing, Applying
<1>6. WalInv'
  BY <1>1, <1>2 DEF WalInv, Applying
<1>7. PagesInv'
  BY <1>1 DEF IInv, PagesInv, Preparing
<1>8. GenerationInv'
  BY <1>1, <1>2 DEF GenerationInv, Applying
<1>9. PowerInv'
  BY <1>1, <1>2 DEF IInv, PowerInv, Applying
<1>10. TornOnlyUnderWal'
  BY <1>4 DEF TornOnlyUnderWal, DbValid
<1>11. Grown
  <2>1. Committed = images[buf].rows
    BY <1>1, CommittedWhileApplying DEF IInv, Applying
  <2>2. ~WalFull'
    BY <1>2 DEF WalFull, WalPresent
  <2>3. Committed' = images[buf].rows
    BY <1>3, <1>4, <2>2 DEF Committed
  <2>4. QED
    BY <2>1, <2>3, GrownSame DEF IInv
<1>12. AcknowledgedSurvive'
  BY <1>1, <1>11, GrownKeeps DEF IInv
<1>13. QED
  BY <1>5, <1>6, <1>7, <1>8, <1>9, <1>10, <1>11, <1>12 DEF IInv

LEMMA ClearedInv ==
    ASSUME IInv, Acknowledge \/ RecoverDone, TypeOK'
    PROVE  IInv' /\ Grown
<1>1. /\ UNCHANGED <<walVol, walEnt, dbVol, dbDur, dbEnt, images, issued>>
      /\ pc = "wal-clear" /\ walDur' = walVol
      /\ \/ /\ pc' = "idle" /\ kind' = "none" /\ ~replay /\ ~replay'
            /\ acked' = acked \union {issued}
         \/ /\ pc' = "read" /\ kind' = kind /\ replay /\ ~replay'
            /\ acked' = acked
  BY DEF Acknowledge, RecoverDone, EndOperation, Goto
<1>2. walVol.state = "empty" /\ DbValid /\ DbImage = images[buf]
  BY <1>1, FilledValid DEF IInv, WalInv
<1>3. kind \in {"create", "insert", "open", "inspect", "none"}
  BY DEF IInv, TypeOK, Kinds
<1>4. replay => kind \in {"insert", "open"}
  BY <1>1 DEF IInv, ControlInv, Applying
<1>5. ImagesInv' /\ ControlInv' /\ ExtendsInv'
  BY <1>1, <1>4 DEF IInv, ImagesInv, ControlInv, ExtendsInv, Built, Mutating, Preparing,
                    Applying
<1>6. WalInv' /\ PagesInv'
  BY <1>1, <1>2 DEF IInv, WalInv, PagesInv, Preparing, Applying
<1>7. GenerationInv'
  BY <1>1, <1>2 DEF GenerationInv, Applying
<1>8. PowerInv'
  BY <1>1 DEF IInv, PowerInv, Applying
<1>9. TornOnlyUnderWal'
  BY <1>1 DEF IInv, TornOnlyUnderWal, DbExists, Valid, WalFull, WalPresent
<1>10. Committed' = Committed
  <2>1. SameFiles /\ (Committing' <=> Committing)
    BY <1>1 DEF SameFiles, Committing
  <2>2. QED
    BY <2>1, CommittedSame
<1>11. Grown
  BY <1>10, GrownSame DEF IInv
<1>12. AcknowledgedSurvive'
  <2>1. CASE acked' = acked
    BY <2>1, <1>11, GrownKeeps DEF IInv
  <2>2. CASE ~replay /\ acked' = acked \union {issued}
    <3>1. buf = issued /\ Built(buf) /\ buf \in Ids
      BY <2>2, <1>1 DEF IInv, ControlInv, TypeOK
    <3>2. Committed = images[buf].rows
      BY <1>2 DEF Committed, WalFull, WalPresent
    <3>3. \E k \in DOMAIN Committed : Committed[k] = issued
      BY <3>1, <3>2 DEF IInv, ImagesInv
    <3>4. QED
      BY <2>2, <3>3, <1>10 DEF IInv, AcknowledgedSurvive
  <2>3. QED
    BY <1>1, <2>1, <2>2
<1>13. QED
  BY <1>5, <1>6, <1>7, <1>8, <1>9, <1>11, <1>12 DEF IInv

-----------------------------------------------------------------------------
(* Power losses *)

\* What was synced is what is found.
LEMMA LossOfNothing ==
    /\ \A f : f \in FilesAfterLoss /\ dbVol = dbDur /\ dbVol \in Files => f = dbVol
    /\ \A l : l \in LogsAfterLoss /\ walVol = walDur => l = walVol
<1>1. ASSUME NEW f \in FilesAfterLoss, dbVol = dbDur, dbVol \in Files
      PROVE  f = dbVol
  <2>1. f \in [PageIds -> Cells] /\ \A p \in PageIds : f[p] = dbVol[p]
    BY <1>1 DEF FilesAfterLoss
  <2>2. QED
    BY <1>1, <2>1 DEF Files
<1>2. QED
  BY <1>1 DEF LogsAfterLoss

LEMMA PowerLossInv ==
    ASSUME IInv, PowerLoss, TypeOK'
    PROVE  IInv' /\ Grown /\ (~Stale => ~Stale')
<1> USE PageZero
<1>1. /\ UNCHANGED <<images, issued, acked, answer>>
      /\ pc' = "idle" /\ kind' = "none" /\ ~replay'
      /\ PowerLosses /\ WalAfterLoss /\ DbAfterLoss
  BY DEF PowerLoss, EndOperation
<1>2. /\ walDur' = walVol' /\ dbDur' = dbVol'
      /\ walEnt' # "cached" /\ dbEnt' # "cached"
      /\ walEnt' = "none" => walVol' = EmptyLog
      /\ dbEnt' = "none" => dbVol' = EmptyFile
      /\ walVol'.state # "empty" => walEnt' # "none"
  BY <1>1 DEF WalAfterLoss, DbAfterLoss, EmptyLog, Log
<1>3. /\ pc \notin Applying \/ pc = "db-open" =>
            dbVol' = dbVol /\ (dbEnt' = "none" <=> dbEnt = "none")
  <2>1. SUFFICES ASSUME pc \notin Applying \/ pc = "db-open"
                 PROVE  dbVol' = dbVol /\ (dbEnt' = "none" <=> dbEnt = "none")
    OBVIOUS
  <2>2. dbDur = dbVol /\ dbEnt # "cached" /\ (dbEnt = "none" => dbVol = EmptyFile)
    BY <1>1, <2>1 DEF IInv, PowerInv, PagesInv, Applying
  <2>3. dbEnt \in {"none", "durable"} /\ dbVol \in Files
    BY <2>2 DEF IInv, TypeOK, Entries
  <2>4. QED
    BY <1>1, <2>2, <2>3, LossOfNothing DEF DbAfterLoss
<1>4. /\ pc \notin {"wal-write", "wal-fsync", "wal-dir", "wal-clear"} =>
            walVol' = walVol /\ (walEnt' = "none" <=> walEnt = "none")
  <2>1. SUFFICES ASSUME pc \notin {"wal-write", "wal-fsync", "wal-dir", "wal-clear"}
                 PROVE  walVol' = walVol /\ (walEnt' = "none" <=> walEnt = "none")
    OBVIOUS
  <2>2. walDur = walVol /\ walEnt # "cached" /\ (walEnt = "none" => walVol = EmptyLog)
    BY <1>1, <2>1 DEF IInv, PowerInv
  <2>3. walEnt \in {"none", "durable"}
    BY <2>2 DEF IInv, TypeOK, Entries
  <2>4. QED
    BY <1>1, <2>2, <2>3, LossOfNothing DEF WalAfterLoss
<1> DEFINE Goal ==
        /\ walVol'.state = "full" => Built(walVol'.id)
        /\ walVol'.state = "full" /\ DbExists' /\ ~Valid(dbVol)' => NotNewer(dbVol, walVol.id)'
        /\ TornOnlyUnderWal'
        /\ Grown
        /\ ~Stale => ~Stale'
<1>5. ASSUME SameFiles PROVE Goal
  <2>1. WalFull' <=> WalFull
    BY <1>5, DecodersSame
  <2>2. (DbExists' <=> DbExists) /\ (Valid(dbVol)' <=> Valid(dbVol))
    BY <1>5, DecodersSame DEF SameFiles, Valid
  <2>3. TornOnlyUnderWal'
    BY <2>1, <2>2 DEF IInv, TornOnlyUnderWal
  <2>4. walVol'.state = "full" => Built(walVol'.id)
    BY <1>5 DEF IInv, WalInv, SameFiles
  <2>5. walVol'.state = "full" /\ DbExists' /\ ~Valid(dbVol)' => NotNewer(dbVol, walVol.id)'
    BY <1>5, <2>2 DEF IInv, GenerationInv, SameFiles, NotNewer
  <2>6. Grown
    <3>1. ~Committing'
      BY <1>1 DEF Committing
    <3>2. CASE Committing
      BY <1>5, <3>1, <3>2, CommitPoint
    <3>3. CASE ~Committing
      BY <1>5, <3>1, <3>3, CommittedSame, GrownSame DEF IInv
    <3>4. QED
      BY <3>2, <3>3
  <2>7. Stale' <=> Stale
    BY <1>5, DecodersSame
  <2>8. QED
    BY <2>3, <2>4, <2>5, <2>6, <2>7
<1>6. ASSUME pc \in {"wal-write", "wal-fsync", "wal-dir"} PROVE Goal
  <2>1. /\ dbVol' = dbVol /\ (dbEnt' = "none" <=> dbEnt = "none")
        /\ DbExists => DbValid
    BY <1>3, <1>6 DEF IInv, ExtendsInv, Preparing, Applying
  <2>2. (DbExists' <=> DbExists) /\ (DbValid' <=> DbValid) /\ DbImage' = DbImage
    BY <1>1, <2>1 DEF DbExists, DbValid, Valid, DbImage
  <2>3. CASE walVol'.state = "full"
    <3>1. walVol' = walVol /\ walEnt' # "none" /\ walEnt # "none" /\ walVol.state = "full"
      BY <1>1, <1>6, <2>3
      DEF WalAfterLoss, LogsAfterLoss, EmptyLog, Log, IInv, PowerInv, WalInv
    <3>2. SameFiles
      BY <1>1, <2>1, <3>1 DEF SameFiles
    <3>3. QED
      BY <1>5, <3>2
  <2>4. CASE walVol'.state # "full"
    <3>1. TornOnlyUnderWal'
      BY <2>1, <2>2 DEF TornOnlyUnderWal, DbValid
    <3>2. ~WalFull'
      BY <2>4 DEF WalFull
    <3>3. ~WalFull \/ Committing
      BY <1>6 DEF IInv, WalInv, WalFull, Committing
    <3>4. Committed' = Committed
      BY <2>2, <3>2, <3>3, CommittedFromDatabase DEF Committed
    <3>5. ~Stale'
      BY <3>2 DEF Stale
    <3>6. QED
      BY <2>4, <3>1, <3>4, <3>5, GrownSame DEF IInv
  <2>5. QED
    BY <2>3, <2>4
<1>7. ASSUME pc = "wal-clear" PROVE Goal
  <2>1. dbVol' = dbVol /\ (dbEnt' = "none" <=> dbEnt = "none")
    BY <1>3, <1>7 DEF Applying
  <2>2. (DbExists' <=> DbExists) /\ (DbValid' <=> DbValid) /\ DbImage' = DbImage
    BY <1>1, <2>1 DEF DbExists, DbValid, Valid, DbImage
  <2>3. DbValid /\ DbImage = images[buf] /\ dbVol[0] = buf
    BY <1>7, FilledValid
  <2>4. walVol.state = "empty" /\ walDur = Log("full", buf) /\ Built(buf)
    BY <1>1, <1>7 DEF IInv, WalInv, ControlInv, PowerInv
  <2>5. walVol'.state = "full" => walVol' = Log("full", buf)
    BY <1>1, <2>4 DEF WalAfterLoss, LogsAfterLoss, EmptyLog, Log
  <2>6. Committed = images[buf].rows
    BY <2>3, <2>4 DEF Committed, WalFull
  <2>7. Committed' = images[buf].rows /\ ~Stale'
    <3>1. CASE ~WalFull'
      BY <2>2, <2>3, <3>1 DEF Committed, Stale
    <3>2. CASE WalFull'
      <4>1. walVol'.id = buf /\ WalImage' = images[buf]
        BY <1>1, <2>5, <3>2 DEF WalFull, WalImage, Log
      <4>2. images[buf].gen \in Nat
        BY DEF IInv, TypeOK, Images
      <4>3. ~Stale'
        BY <2>2, <2>3, <4>1, <4>2 DEF Stale
      <4>4. ~Committing'
        BY <1>1 DEF Committing
      <4>5. QED
        BY <3>2, <4>1, <4>3, <4>4 DEF Committed
    <3>3. QED
      BY <3>1, <3>2
  <2>8. Grown
    BY <2>6, <2>7, GrownSame DEF IInv
  <2>9. TornOnlyUnderWal' /\ Valid(dbVol)'
    BY <2>2, <2>3 DEF TornOnlyUnderWal, DbValid
  <2>10. QED
    BY <2>4, <2>5, <2>7, <2>8, <2>9 DEF Log
<1>8. ASSUME pc \in {"db-size", "db-page", "db-dir", "wal-trunc"} PROVE Goal
  <2>1. /\ walVol = Log("full", buf) /\ walEnt # "none" /\ Built(buf)
        /\ NotNewer(dbVol, buf) /\ NotNewer(dbDur, buf) /\ pc \in Applying
    BY <1>1, <1>8 DEF IInv, WalInv, ControlInv, GenerationInv, PowerInv, Applying, Log
  <2>2. /\ walVol' = walVol /\ walEnt' # "none" /\ walVol'.state = "full" /\ walVol'.id = buf
    BY <1>4, <1>8, <2>1 DEF Log
  <2>3. dbVol'[0] \in {dbVol[0], dbDur[0], Eof, Zero, Torn}
    BY <1>1 DEF DbAfterLoss, FilesAfterLoss, EmptyFile
  <2>4. NotNewer(dbVol', buf) /\ NotNewer(dbVol, walVol.id)'
    BY <1>1, <2>1, <2>2, <2>3 DEF NotNewer, Eof, Zero, Torn, Ids
  <2>5. WalFull' /\ TornOnlyUnderWal' /\ ~Committing'
    BY <1>1, <2>2 DEF TornOnlyUnderWal, WalFull, WalPresent, Committing
  <2>6. Committed' = images[buf].rows
    <3>1. (TypeOK /\ WalFull /\ NotNewer(dbVol, walVol.id) /\ ~Committing
             => Committed = WalImage.rows)'
      BY CommittedFromWal, PTL
    <3>2. Committed' = WalImage'.rows
      BY <2>4, <2>5, <3>1
    <3>3. QED
      BY <1>1, <2>2, <3>2 DEF WalImage
  <2>7. Committed = images[buf].rows
    BY <2>1, CommittedWhileApplying DEF IInv
  <2>8. Grown
    BY <2>6, <2>7, GrownSame DEF IInv
  <2>9. ~Stale'
    <3>1. (TypeOK /\ NotNewer(dbVol, walVol.id) => ~Stale)'
      BY NotNewerNotStale, PTL
    <3>2. QED
      BY <2>4, <3>1
  <2>10. QED
    BY <2>1, <2>2, <2>4, <2>5, <2>8, <2>9
<1>9. Goal
  <2>1. CASE pc \notin {"wal-write", "wal-fsync", "wal-dir", "wal-clear",
                        "db-size", "db-page", "db-dir", "wal-trunc"}
    <3>1. SameFiles
      BY <1>1, <1>3, <1>4, <2>1 DEF SameFiles, Applying
    <3>2. QED
      BY <1>5, <3>1
  <2>2. QED
    BY <1>6, <1>7, <1>8, <2>1
<1> HIDE DEF Goal
<1>10. ImagesInv' /\ ControlInv' /\ ExtendsInv'
  BY <1>1 DEF IInv, ImagesInv, ControlInv, ExtendsInv, Built, Mutating, Preparing, Applying
<1>11. WalInv'
  BY <1>1, <1>2, <1>9 DEF Goal, WalInv, Built, Applying
<1>12. PagesInv'
  BY <1>1, <1>2 DEF PagesInv, Preparing
<1>13. GenerationInv'
  BY <1>1, <1>9 DEF Goal, GenerationInv, Applying
<1>14. PowerInv'
  BY <1>1, <1>2 DEF PowerInv, Applying
<1>15. AcknowledgedSurvive'
  BY <1>1, <1>9, GrownKeeps DEF Goal, IInv
<1>16. QED
  BY <1>9, <1>10, <1>11, <1>12, <1>13, <1>14, <1>15 DEF Goal, IInv

-----------------------------------------------------------------------------
(* The invariant, and the theorems *)

LEMMA InvStep == FailureModel /\ IInv /\ [Next]_vars => IInv' /\ Grown
<1> SUFFICES ASSUME FailureModel, IInv, [Next]_vars PROVE IInv' /\ Grown
  OBVIOUS
<1>1. TypeOK'
  BY TypeStep DEF IInv
<1>2. CASE BeginMutation \/ BeginRead
  BY <1>1, <1>2, BeginInv
<1>3. CASE CreateRejected \/ RecoverRejected \/ ReadRejected \/ InspectRejected
  BY <1>3, RejectInv DEF CreateRejected, RecoverRejected, ReadRejected, InspectRejected
<1>4. CASE Throw \/ ProcessCrash
  BY <1>4, RejectInv DEF Throw, ProcessCrash, FailureModel
<1>5. CASE CreateBuild
  BY <1>1, <1>5, CreateBuildInv
<1>6. CASE InsertBuild
  BY <1>1, <1>6, InsertBuildInv
<1>7. CASE RecoverNothing
  BY <1>1, <1>7, RecoverNothingInv
<1>8. CASE RecoverReplay
  BY <1>1, <1>8, RecoverReplayInv
<1>9. CASE OpenAnswers \/ InspectAnswers
  BY <1>1, <1>9, AnswerInv
<1>10. CASE WalOpen
  BY <1>1, <1>10, WalOpenInv
<1>11. CASE WalWritePart \/ WalWriteRest
  BY <1>1, <1>11, WalWriteInv
<1>12. CASE WalFsync \/ WalDirectoryFsync
  BY <1>1, <1>12, WalSyncInv
<1>13. CASE DbOpen
  BY <1>1, <1>13, DbOpenInv
<1>14. CASE DbSize \/ DbTearPage \/ DbWritePage
  BY <1>1, <1>14, DbWriteInv
<1>15. CASE DbFsync \/ DbDirectoryFsync
  BY <1>1, <1>15, DbSyncInv
<1>16. CASE WalTruncate
  BY <1>1, <1>16, WalTruncateInv
<1>17. CASE Acknowledge \/ RecoverDone
  BY <1>1, <1>17, ClearedInv
<1>18. CASE PowerLoss
  BY <1>1, <1>18, PowerLossInv
<1>19. CASE UNCHANGED vars
  <2>1. IInv'
    BY <1>19
    DEF IInv, TypeOK, ImagesInv, ControlInv, WalInv, PagesInv, ExtendsInv, GenerationInv,
        PowerInv, TornOnlyUnderWal, AcknowledgedSurvive, Committed, WalFull, WalPresent,
        Stale, DbValid, DbExists, Valid, DbImage, WalImage, Built, Mutating, Committing,
        NotNewer, vars, disk, local
  <2>2. Committed' = Committed
    BY <1>19, CommittedSame DEF vars, disk, SameFiles, Committing
  <2>3. QED
    BY <2>1, <2>2, GrownSame DEF IInv
<1>20. QED
  BY <1>2, <1>3, <1>4, <1>5, <1>6, <1>7, <1>8, <1>9, <1>10, <1>11, <1>12, <1>13, <1>14,
     <1>15, <1>16, <1>17, <1>18, <1>19
  DEF Next, Step, Failure

THEOREM Invariance == FailureModel => (Spec => []IInv)
<1> SUFFICES ASSUME FailureModel PROVE Spec => []IInv
  OBVIOUS
<1>1. Init => IInv
  BY InvInit
<1>2. IInv /\ [Next]_vars => IInv'
  BY InvStep
<1>3. QED
  BY <1>1, <1>2, PTL DEF Spec

\* insert_row and create_table return only what no crash, failed system call or
\* (alone) power loss can take back.
THEOREM AcknowledgedStatementsSurvive == FailureModel => (Spec => []AcknowledgedSurvive)
<1>1. IInv => AcknowledgedSurvive
  BY DEF IInv
<1>2. QED
  BY <1>1, Invariance, PTL

\* Whenever parse_image would refuse the database file, recover has the WAL to
\* rewrite it from.
THEOREM TornDatabaseHasWal == FailureModel => (Spec => []TornOnlyUnderWal)
<1>1. IInv => TornOnlyUnderWal
  BY DEF IInv
<1>2. QED
  BY <1>1, Invariance, PTL

\* No step of a statement, of recovery or of a failure takes rows away or
\* changes them.
THEOREM TableNeverRolledBack == FailureModel => (Spec => NeverRolledBack)
<1> SUFFICES ASSUME FailureModel PROVE Spec => NeverRolledBack
  OBVIOUS
<1>1. IInv /\ [Next]_vars
        => [/\ Len(Committed) <= Len(Committed')
            /\ \A i \in DOMAIN Committed : Committed[i] = Committed'[i]]_vars
  BY InvStep, GrownExtends DEF IInv
<1>2. Spec => []IInv
  BY Invariance
<1>3. QED
  BY <1>1, <1>2, PTL DEF Spec, NeverRolledBack

-----------------------------------------------------------------------------
(* The order of writes on the disk itself *)

\* Power losses alone: the failure model docs/storage-v2.md rests on fsync for.
PowerOnly == PowerLosses /\ ~ProcessCrashes /\ ~IoErrors

LEMMA OrderStep ==
    PowerOnly /\ IInv /\ [Next]_vars
      => /\ dbVol' # dbVol /\ pc' # "idle" => /\ walDur = Log("full", buf)
                                              /\ walEnt = "durable"
         /\ acked' # acked => /\ dbDur' = images[issued].pages
                              /\ dbVol' = dbDur'
                              /\ walDur'.state = "empty"
                              /\ dbEnt = "durable"
<1> SUFFICES ASSUME PowerOnly, IInv, [Next]_vars
             PROVE  /\ dbVol' # dbVol /\ pc' # "idle" => /\ walDur = Log("full", buf)
                                                         /\ walEnt = "durable"
                    /\ acked' # acked => /\ dbDur' = images[issued].pages
                                         /\ dbVol' = dbDur'
                                         /\ walDur'.state = "empty"
                                         /\ dbEnt = "durable"
  OBVIOUS
<1>1. dbVol' # dbVol /\ pc' # "idle" => DbSize \/ DbTearPage \/ DbWritePage
  BY DEF Next, BeginMutation, BeginRead, Step, CreateRejected, CreateBuild, RecoverNothing,
         RecoverRejected, RecoverReplay, ReadRejected, OpenAnswers, InsertBuild,
         InspectRejected, InspectAnswers, WalOpen, WalWritePart, WalWriteRest, WalFsync,
         WalDirectoryFsync, DbOpen, DbFsync, DbDirectoryFsync, WalTruncate, Acknowledge,
         RecoverDone, Failure, Throw, ProcessCrash, PowerLoss, Reject, EndOperation, Build,
         SyncDirectory, vars, disk
<1>2. acked' # acked => Acknowledge
  BY DEF Next, BeginMutation, BeginRead, Step, CreateRejected, CreateBuild, RecoverNothing,
         RecoverRejected, RecoverReplay, ReadRejected, OpenAnswers, InsertBuild,
         InspectRejected, InspectAnswers, WalOpen, WalWritePart, WalWriteRest, WalFsync,
         WalDirectoryFsync, DbOpen, DbSize, DbTearPage, DbWritePage, DbFsync,
         DbDirectoryFsync, WalTruncate, RecoverDone, Failure, Throw, ProcessCrash,
         PowerLoss, Reject, EndOperation, Build, SyncDirectory, vars
<1>3. ASSUME DbSize \/ DbTearPage \/ DbWritePage
      PROVE  walDur = Log("full", buf) /\ walEnt = "durable"
  <2>1. pc \in {"db-size", "db-page"}
    BY <1>3 DEF DbSize, DbTearPage, DbWritePage, Goto
  <2>2. walVol = Log("full", buf) /\ walEnt # "none"
    BY <2>1 DEF IInv, WalInv, Applying, Log
  <2>3. walDur = walVol /\ walEnt # "cached"
    BY <2>1 DEF IInv, PowerInv, PowerOnly
  <2>4. QED
    BY <2>2, <2>3 DEF IInv, TypeOK, Entries
<1>4. ASSUME Acknowledge
      PROVE  /\ dbDur' = images[issued].pages /\ dbVol' = dbDur'
             /\ walDur'.state = "empty" /\ dbEnt = "durable"
  <2>1. /\ pc = "wal-clear" /\ ~replay /\ walDur' = walVol
        /\ dbVol' = dbVol /\ dbDur' = dbDur
    BY <1>4 DEF Acknowledge
  <2>2. buf = issued /\ walVol.state = "empty" /\ dbVol = images[buf].pages
    BY <2>1, FilledValid DEF IInv, ControlInv, WalInv
  <2>3. dbDur = dbVol /\ dbEnt # "cached" /\ dbEnt # "none"
    BY <2>1 DEF IInv, PowerInv, PagesInv, PowerOnly, Applying
  <2>4. QED
    BY <2>1, <2>2, <2>3 DEF IInv, TypeOK, Entries
<1>5. QED
  BY <1>1, <1>2, <1>3, <1>4

\* Under power losses the writer, and recovery too, changes no database page
\* before the whole image is in the WAL on disk and the WAL in its directory.
THEOREM WalPrecedesPages == PowerOnly => (Spec => WalOnDiskBeforePages /\ WalEntryBeforePages)
<1> SUFFICES ASSUME PowerOnly PROVE Spec => WalOnDiskBeforePages /\ WalEntryBeforePages
  OBVIOUS
<1>1. IInv /\ [Next]_vars
        => [dbVol' # dbVol /\ pc' # "idle" => walDur = Log("full", buf)]_vars
  BY OrderStep
<1>2. IInv /\ [Next]_vars
        => [dbVol' # dbVol /\ pc' # "idle" => walEnt = "durable"]_vars
  BY OrderStep
<1>3. Spec => []IInv
  BY Invariance DEF PowerOnly, FailureModel
<1>4. QED
  BY <1>1, <1>2, <1>3, PTL DEF Spec, WalOnDiskBeforePages, WalEntryBeforePages

\* When a statement is acknowledged its image, the empty WAL and the directory
\* entry of the database are on the disk.
THEOREM AcknowledgedIsOnDisk == PowerOnly => (Spec => AcknowledgedOnDisk /\ EntryBeforeAcknowledge)
<1> SUFFICES ASSUME PowerOnly PROVE Spec => AcknowledgedOnDisk /\ EntryBeforeAcknowledge
  OBVIOUS
<1>1. IInv /\ [Next]_vars
        => [acked' # acked => /\ dbDur' = images[issued].pages
                              /\ dbVol' = dbDur'
                              /\ walDur'.state = "empty"]_vars
  BY OrderStep
<1>2. IInv /\ [Next]_vars => [acked' # acked => dbEnt = "durable"]_vars
  BY OrderStep
<1>3. Spec => []IInv
  BY Invariance DEF PowerOnly, FailureModel
<1>4. QED
  BY <1>1, <1>2, <1>3, PTL DEF Spec, AcknowledgedOnDisk, EntryBeforeAcknowledge

-----------------------------------------------------------------------------
(* The protocol implements AtomicTable: every system call, error, crash and *)
(* power loss is, for a caller, a statement applied at one instant, an      *)
(* answer, an acknowledgement, a failure, or nothing at all.                *)

\* What the mapping needs beyond the inductive invariant.

\* The row an image adds is its last one.
EndsWithOwn(i) ==
    /\ images[i].rows # <<>>
    /\ images[i].rows[Len(images[i].rows)] = i

AtomicInv ==
    /\ pc # "idle" => kind # "none"
    /\ pc = "inspect" => kind = "inspect"
    /\ \A i \in Ids : Built(i) => EndsWithOwn(i)
    /\ pc \in Preparing /\ kind = "create" => ~DbExists
    /\ pc \in Preparing /\ kind = "insert" => DbExists

LEMMA AtomicInvInit == Init => AtomicInv
<1> SUFFICES ASSUME Init PROVE AtomicInv
  OBVIOUS
<1> USE PageZero, IdsFacts DEF Built, EndsWithOwn
<1>1. pc = "idle"
  BY DEF Init, InitLocal
<1>2. NoImage.pages[0] \notin Ids
  BY DEF NoImage, EmptyFile, Eof, Ids
<1>3. \A i \in Ids : Built(i) => EndsWithOwn(i)
  <2>1. CASE InitFresh
    BY <2>1, <1>2 DEF InitFresh
  <2>2. CASE InitMigrated
    <3>1. Migrated.rows = <<0>>
      BY DEF Migrated
    <3>2. QED
      BY <2>2, <3>1, <1>2 DEF InitMigrated
  <2>3. CASE InitStale
    BY <2>3, <1>2 DEF InitStale, StaleImages
  <2>4. QED
    BY <2>1, <2>2, <2>3 DEF Init
<1>4. QED
  BY <1>1, <1>3 DEF AtomicInv, Preparing

\* Images change only when a statement builds its own.
LEMMA BuildEnds ==
    ASSUME IInv, AtomicInv, NEW image, NEW dirty, Build(image, dirty),
           image.rows # <<>>, image.rows[Len(image.rows)] = issued
    PROVE  \A i \in Ids : Built(i)' => EndsWithOwn(i)'
<1>1. images' = [images EXCEPT ![issued] = image] /\ issued \in Ids /\ images \in [Ids -> Images]
  BY DEF Build, IInv, TypeOK
<1>2. images'[issued] = image /\ \A i \in Ids \ {issued} : images'[i] = images[i]
  BY <1>1
<1>3. QED
  BY <1>2 DEF AtomicInv, Built, EndsWithOwn

LEMMA AtomicInvStep ==
    ASSUME IInv, AtomicInv, [Next]_vars
    PROVE  AtomicInv'
<1>1. CASE CreateBuild
  <2>1. PICK last \in PageIds \ {0} :
          Build([gen   |-> 1,
                 rows  |-> <<issued>>,
                 pages |-> [p \in PageIds |-> IF p <= last THEN issued ELSE Eof]],
                0 .. last)
    BY <1>1 DEF CreateBuild
  <2>2. \A i \in Ids : Built(i)' => EndsWithOwn(i)'
    BY <2>1, BuildEnds
  <2>3. pc = "check" /\ pc' = "wal-open" /\ kind' = kind /\ ~DbExists' /\ kind = "create"
    BY <1>1, <2>1 DEF CreateBuild, Goto, Build, disk, DbExists, IInv, ControlInv
  <2>4. QED
    BY <2>2, <2>3 DEF AtomicInv
<1>2. CASE InsertBuild
  <2>1. PICK last \in PageIds, touched \in SUBSET (PageIds \ {0}) :
          LET old == Size(dbVol)
              dirty == {0} \union touched \union ((0 .. last) \ old)
          IN  Build([gen   |-> DbImage.gen + 1,
                     rows  |-> Append(DbImage.rows, issued),
                     pages |-> [p \in PageIds |-> IF p \in dirty THEN issued ELSE dbVol[p]]],
                    dirty)
    BY <1>2 DEF InsertBuild
  <2>2. DbImage.rows \in Seq(Ids) /\ issued \in Ids
    BY <1>2 DEF InsertBuild, DbValid, Valid, DbImage, IInv, TypeOK, Images
  <2>3. /\ Append(DbImage.rows, issued) # <<>>
        /\ Append(DbImage.rows, issued)[Len(Append(DbImage.rows, issued))] = issued
    BY <2>2
  <2>4. \A i \in Ids : Built(i)' => EndsWithOwn(i)'
    BY <2>1, <2>3, BuildEnds
  <2>5. pc = "read" /\ pc' = "wal-open" /\ kind' = kind /\ DbExists' /\ kind = "insert"
    BY <1>2, <2>1 DEF InsertBuild, Goto, Build, disk, DbExists, DbValid
  <2>6. QED
    BY <2>4, <2>5 DEF AtomicInv
<1>3. CASE [Next]_vars /\ ~CreateBuild /\ ~InsertBuild
  <2>1. images' = images
    BY <1>3
    DEF Next, BeginMutation, BeginRead, Step, CreateRejected, RecoverNothing, RecoverRejected,
        RecoverReplay, ReadRejected, OpenAnswers, InspectRejected, InspectAnswers, WalOpen,
        WalWritePart, WalWriteRest, WalFsync, WalDirectoryFsync, DbOpen, DbSize, DbTearPage,
        DbWritePage, DbFsync, DbDirectoryFsync, WalTruncate, Acknowledge, RecoverDone, Failure,
        Throw, ProcessCrash, PowerLoss, Reject, SyncDirectory, vars
  <2>2. CASE pc' = "idle"
    BY <2>1, <2>2 DEF AtomicInv, Built, EndsWithOwn, Preparing
  <2>3. CASE BeginMutation \/ BeginRead
    <3>1. /\ pc' \in {"check", "recover", "inspect"} /\ kind' # "none"
          /\ pc' = "inspect" => kind' = "inspect"
      BY <2>3 DEF BeginMutation, BeginRead, Goto
    <3>2. QED
      BY <2>1, <3>1 DEF AtomicInv, Built, EndsWithOwn, Preparing
  <2>4. CASE kind' = kind /\ pc # "idle" /\ pc' \notin Preparing \union {"inspect"}
    BY <2>1, <2>4 DEF AtomicInv, Built, EndsWithOwn
  <2>5. CASE kind' = kind /\ pc \in Preparing /\ pc' # "inspect" /\ (DbExists' <=> DbExists)
    BY <2>1, <2>5 DEF AtomicInv, Built, EndsWithOwn, Preparing
  <2>6. CASE UNCHANGED vars
    BY <2>6 DEF AtomicInv, Built, EndsWithOwn, DbExists, vars, disk
  <2>7. CASE CreateRejected \/ RecoverRejected \/ ReadRejected \/ OpenAnswers \/ InspectRejected
             \/ InspectAnswers \/ Acknowledge \/ Failure
    BY <2>2, <2>7 DEF CreateRejected, RecoverRejected, ReadRejected, OpenAnswers,
       InspectRejected, InspectAnswers, Acknowledge, Failure, Throw, ProcessCrash, PowerLoss,
       Reject, EndOperation
  <2>8. CASE RecoverNothing \/ RecoverReplay \/ WalDirectoryFsync \/ DbOpen \/ DbSize \/ DbTearPage
             \/ DbWritePage \/ DbFsync \/ DbDirectoryFsync \/ WalTruncate \/ RecoverDone
    BY <2>4, <2>8 DEF RecoverNothing, RecoverReplay, WalDirectoryFsync, DbOpen, DbSize,
       DbTearPage, DbWritePage, DbFsync, DbDirectoryFsync, WalTruncate, RecoverDone,
       SyncDirectory, Goto, Preparing
  <2>9. CASE WalOpen \/ WalWritePart \/ WalWriteRest \/ WalFsync
    BY <2>5, <2>9 DEF WalOpen, WalWritePart, WalWriteRest, WalFsync, Goto, DbExists, Preparing
  <2>10. QED
    BY <1>3, <2>3, <2>6, <2>7, <2>8, <2>9 DEF Next, Step
<1>4. QED
  BY <1>1, <1>2, <1>3

-----------------------------------------------------------------------------
(* Steps of the table *)

\* What a complete database holds ends with the statement that wrote it.
LEMMA DatabaseEnds ==
    ASSUME AtomicInv, DbValid
    PROVE  DbImage.rows # <<>> /\ DbImage.rows[Len(DbImage.rows)] = dbVol[0]
<1>1. dbVol[0] \in Ids /\ Built(dbVol[0])
  BY DEF DbValid, Valid, Built
<1>2. QED
  BY <1>1 DEF AtomicInv, EndsWithOwn, DbImage

\* When a statement's WAL is about to govern, the table is one the statement may
\* be applied to: none for create_table, one without it for insert_row.
LEMMA CommitApplicable ==
    ASSUME IInv, AtomicInv, Committing
    PROVE  Atomic!Applicable
<1> USE PageZero
<1>1. /\ pc \in Preparing /\ kind \in {"create", "insert"} /\ buf = issued
      /\ DbExists => DbValid
      /\ DbValid => images[buf].gen = DbImage.gen + 1
  BY DEF Committing, Preparing, IInv, ControlInv, ExtendsInv, Mutating
<1>2. Committed = IF DbValid THEN DbImage.rows ELSE <<>>
  BY CommittedFromDatabase
<1>3. CASE kind = "create"
  <2>1. ~DbValid
    BY <1>1, <1>3 DEF AtomicInv, DbValid
  <2>2. QED
    BY <1>2, <1>3, <2>1 DEF Atomic!Applicable
<1>4. CASE kind = "insert"
  <2>1. DbValid
    BY <1>1, <1>4 DEF AtomicInv
  <2>2. DbImage.rows # <<>> /\ DbImage.rows[Len(DbImage.rows)] = dbVol[0]
    BY <2>1, DatabaseEnds
  <2>3. dbVol[0] # issued
    <3>1. images[dbVol[0]].gen \in Nat
      BY <2>1 DEF DbValid, Valid, IInv, TypeOK, Images
    <3>2. QED
      BY <1>1, <2>1, <3>1 DEF DbImage
  <2>4. QED
    BY <1>2, <1>4, <2>1, <2>2, <2>3 DEF Atomic!Applicable
<1>5. QED
  BY <1>1, <1>3, <1>4

\* A step of which the caller sees nothing but, at the commit point, its effect.
LEMMA QuietStep ==
    ASSUME IInv, AtomicInv, Grown, UNCHANGED <<kind, issued, acked, answer>>
    PROVE  Atomic!Apply \/ UNCHANGED Atomic!vars
<1>1. CASE Committed' = Committed
  BY <1>1 DEF Atomic!vars
<1>2. CASE Committing /\ Committed' = Append(Committed, issued)
  BY <1>2, CommitApplicable DEF Atomic!Apply
<1>3. QED
  BY <1>1, <1>2 DEF Grown

\* An operation that ends with an exception or a crash.
LEMMA FailStep ==
    ASSUME IInv, AtomicInv, Grown, pc # "idle", kind' = "none", UNCHANGED <<issued, acked, answer>>
    PROVE  Atomic!Fail
<1>1. kind # "none"
  BY DEF AtomicInv
<1>2. Committed' = Committed \/ (Atomic!Applicable /\ Committed' = Append(Committed, issued))
  BY CommitApplicable DEF Grown
<1>3. QED
  BY <1>1, <1>2 DEF Atomic!Fail

LEMMA BeginStep ==
    ASSUME IInv, Grown, BeginMutation \/ BeginRead
    PROVE  Atomic!Begin
<1>1. pc = "idle" /\ kind = "none" /\ Committed' = Committed
  BY DEF BeginMutation, BeginRead, Goto, IInv, ControlInv, Grown, Committing
<1>2. QED
  BY <1>1 DEF BeginMutation, BeginRead, Atomic!Begin

\* A read returns the table as it stands.
LEMMA AnswerStep ==
    ASSUME IInv, AtomicInv, Grown, OpenAnswers \/ InspectAnswers
    PROVE  Atomic!Answer
<1>1. /\ pc \in {"read", "inspect"} /\ kind' = "none" /\ UNCHANGED <<issued, acked>>
      /\ Committed' = Committed
  BY DEF OpenAnswers, InspectAnswers, EndOperation, Grown, Committing
<1>2. kind \in {"open", "inspect"}
  BY DEF OpenAnswers, InspectAnswers, AtomicInv
<1>3. answer' = Committed /\ Committed # <<>>
  <2>1. CASE OpenAnswers
    <3>1. walVol.state = "empty" /\ DbValid /\ answer' = DbImage.rows
      BY <2>1 DEF OpenAnswers, IInv, WalInv
    <3>2. Committed = DbImage.rows
      BY <3>1 DEF Committed, WalFull, WalPresent
    <3>3. QED
      BY <3>1, <3>2, DatabaseEnds
  <2>2. CASE InspectAnswers /\ WalFull /\ ~Stale /\ answer' = WalImage.rows
    <3>1. Committed = WalImage.rows
      BY <1>1, <2>2 DEF Committed, Committing
    <3>2. walVol.id \in Ids /\ Built(walVol.id)
      BY <2>2 DEF IInv, TypeOK, WalInv, Logs, WalFull
    <3>3. QED
      BY <2>2, <3>1, <3>2 DEF AtomicInv, EndsWithOwn, WalImage
  <2>3. CASE InspectAnswers /\ ~WalPresent /\ DbValid /\ answer' = DbImage.rows
    <3>1. Committed = DbImage.rows
      BY <2>3 DEF Committed, WalFull
    <3>2. QED
      BY <2>3, <3>1, DatabaseEnds
  <2>4. QED
    BY <2>1, <2>2, <2>3 DEF InspectAnswers
<1>4. QED
  BY <1>1, <1>2, <1>3 DEF Atomic!Answer

\* A statement is acknowledged when its row is the last of the table.
LEMMA AcknowledgeStep ==
    ASSUME IInv, AtomicInv, Grown, Acknowledge
    PROVE  Atomic!Acknowledge
<1>1. /\ pc = "wal-clear" /\ ~replay /\ kind' = "none" /\ acked' = acked \union {issued}
      /\ UNCHANGED <<issued, answer>> /\ Committed' = Committed
  BY DEF Acknowledge, EndOperation, Grown, Committing
<1>2. kind \in {"create", "insert"} /\ buf = issued /\ walVol.state = "empty"
  BY <1>1 DEF IInv, ControlInv, WalInv, Mutating
<1>3. DbValid /\ dbVol[0] = issued
  BY <1>1, <1>2, FilledValid
<1>4. Committed = DbImage.rows
  BY <1>2, <1>3 DEF Committed, WalFull, WalPresent
<1>5. Atomic!Applied
  BY <1>2, <1>3, <1>4, DatabaseEnds DEF Atomic!Applied
<1>6. QED
  BY <1>1, <1>5 DEF Atomic!Acknowledge

\* Every step of the protocol is a step of the table, or none.
LEMMA AtomicStep ==
    ASSUME IInv, AtomicInv, Grown, [Next]_vars
    PROVE  [Atomic!Next]_(Atomic!vars)
<1> USE DEF Atomic!Next
<1>1. CASE BeginMutation \/ BeginRead
  BY <1>1, BeginStep
<1>2. CASE OpenAnswers \/ InspectAnswers
  BY <1>2, AnswerStep
<1>3. CASE Acknowledge
  BY <1>3, AcknowledgeStep
<1>4. CASE CreateRejected \/ RecoverRejected \/ ReadRejected \/ InspectRejected
           \/ Throw \/ ProcessCrash
  BY <1>4, FailStep DEF CreateRejected, RecoverRejected, ReadRejected, InspectRejected, Throw,
     ProcessCrash, Reject, EndOperation
<1>5. CASE PowerLoss
  <2>1. CASE pc = "idle"
    <3>1. kind = "none" /\ kind' = kind
      BY <1>5, <2>1 DEF PowerLoss, EndOperation, IInv, ControlInv
    <3>2. QED
      BY <1>5, <3>1, QuietStep DEF PowerLoss
  <2>2. CASE pc # "idle"
    BY <1>5, <2>2, FailStep DEF PowerLoss, EndOperation
  <2>3. QED
    BY <2>1, <2>2
<1>6. CASE CreateBuild \/ RecoverNothing \/ RecoverReplay \/ InsertBuild \/ WalOpen \/ WalWritePart
           \/ WalWriteRest \/ WalFsync \/ WalDirectoryFsync
  BY <1>6, QuietStep
  DEF CreateBuild, RecoverNothing, RecoverReplay, InsertBuild, WalOpen, WalWritePart,
      WalWriteRest, WalFsync, WalDirectoryFsync, Build, SyncDirectory
<1>7. CASE DbOpen \/ DbSize \/ DbTearPage \/ DbWritePage \/ DbFsync \/ DbDirectoryFsync
           \/ WalTruncate \/ RecoverDone \/ UNCHANGED vars
  BY <1>7, QuietStep
  DEF DbOpen, DbSize, DbTearPage, DbWritePage, DbFsync, DbDirectoryFsync, WalTruncate,
      RecoverDone, SyncDirectory, vars
<1>8. QED
  BY <1>1, <1>2, <1>3, <1>4, <1>5, <1>6, <1>7 DEF Next, Step, Failure

-----------------------------------------------------------------------------
(* Initial states *)

LEMMA AtomicInit == Init => Atomic!Init
<1> SUFFICES ASSUME Init PROVE Atomic!Init
  OBVIOUS
<1> USE PageZero, IdsFacts
<1>1. kind = "none" /\ answer = <<>> /\ ~Committing
  BY DEF Init, InitLocal, Committing
<1>2. CASE InitFresh
  <2>1. Committed = <<>>
    BY <1>2 DEF InitFresh, Committed, WalFull, WalPresent, DbValid, DbExists
  <2>2. QED
    BY <1>1, <1>2, <2>1 DEF InitFresh, Atomic!Init
<1>3. CASE InitMigrated
  <2>1. ~WalFull /\ dbVol[0] = 0 /\ images[0] = Migrated /\ dbVol = Migrated.pages
    BY <1>3 DEF InitMigrated, WalFull, WalPresent, TwoPages, Migrated
  <2>2. DbValid /\ DbImage = Migrated
    BY <1>3, <2>1 DEF InitMigrated, DbValid, DbExists, Valid, DbImage
  <2>3. Committed = <<0>>
    BY <2>1, <2>2 DEF Committed, Migrated
  <2>4. QED
    BY <1>1, <1>3, <2>3 DEF InitMigrated, Atomic!Init
<1>4. CASE InitStale
  <2>1. /\ images[1] = [gen |-> 1, rows |-> <<1>>, pages |-> TwoPages(1)]
        /\ images[2] = [gen |-> 2, rows |-> <<1, 2>>, pages |-> TwoPages(2)]
        /\ dbVol = TwoPages(2) /\ dbVol[0] = 2 /\ walVol.id = 1
    BY <1>4 DEF InitStale, StaleImages, TwoPages, Log
  <2>2. DbValid /\ DbImage = images[2] /\ WalImage = images[1]
    BY <1>4, <2>1 DEF InitStale, DbValid, DbExists, Valid, DbImage, WalImage
  <2>3. Stale
    BY <1>4, <2>1, <2>2 DEF InitStale, Stale, WalFull, WalPresent, Log
  <2>4. Committed = <<1, 2>>
    BY <2>1, <2>2, <2>3 DEF Committed
  <2>5. QED
    BY <1>1, <1>4, <2>4 DEF InitStale, Atomic!Init
<1>5. QED
  BY <1>2, <1>3, <1>4 DEF Init

-----------------------------------------------------------------------------
(* The theorems *)

\* Storage v2 implements the atomic table: create_table, insert_row, open_table
\* and inspect, with recovery inside them, behave as whole statements through
\* every error and process crash, or every power loss.
THEOREM ImplementsAtomicTable == FailureModel => (Spec => Refinement)
<1> SUFFICES ASSUME FailureModel PROVE Spec => Refinement
  OBVIOUS
<1>1. Spec => []IInv
  BY Invariance
<1>2. Init => AtomicInv
  BY AtomicInvInit
<1>3. IInv /\ AtomicInv /\ [Next]_vars => AtomicInv'
  BY AtomicInvStep
<1>4. IInv /\ AtomicInv /\ [Next]_vars => [Atomic!Next]_(Atomic!vars)
  BY InvStep, AtomicStep
<1>5. Init => Atomic!Init
  BY AtomicInit
<1>6. QED
  BY <1>1, <1>2, <1>3, <1>4, <1>5, PTL DEF Spec, Refinement, Atomic!Spec

\* No step leaves a WAL that recover would call stale: commit_image writes a WAL
\* one generation above the database, and apply_image never passes it.
LEMMA StaleStep ==
    ASSUME FailureModel, IInv, [Next]_vars, ~Stale
    PROVE  ~Stale'
<1>1. IInv'
  BY InvStep
<1>2. CASE pc' \in Applying
  <2>1. walVol' = Log("full", buf') /\ NotNewer(dbVol, buf)'
    BY <1>1, <1>2 DEF IInv, WalInv, GenerationInv
  <2>2. NotNewer(dbVol, walVol.id)'
    BY <2>1 DEF Log, NotNewer
  <2>3. (TypeOK /\ NotNewer(dbVol, walVol.id) => ~Stale)'
    BY NotNewerNotStale, PTL
  <2>4. QED
    BY <1>1, <2>2, <2>3 DEF IInv
<1>3. CASE pc' \in {"wal-open", "wal-write", "wal-clear", "read"}
  BY <1>1, <1>3 DEF IInv, WalInv, Stale, WalFull
<1>4. CASE pc' \in {"wal-fsync", "wal-dir"}
  <2>1. walVol' = Log("full", buf') /\ (DbValid' => images'[buf'].gen = DbImage'.gen + 1)
    BY <1>1, <1>4 DEF IInv, WalInv, ExtendsInv, Preparing
  <2>2. WalImage' = images'[buf']
    BY <2>1 DEF WalImage, Log
  <2>3. DbValid' => DbImage'.gen \in Nat
    BY <1>1 DEF IInv, TypeOK, DbValid, Valid, DbImage, Images
  <2>4. QED
    BY <2>1, <2>2, <2>3 DEF Stale
<1>5. CASE PowerLoss
  BY <1>1, <1>5, PowerLossInv DEF IInv
<1>6. CASE SameFiles
  BY <1>6, DecodersSame
<1>7. CASE Acknowledge
  BY <1>7 DEF Acknowledge, IInv, WalInv, Stale, WalFull
<1>8. pc' \in {"idle", "check", "recover", "inspect"} => PowerLoss \/ SameFiles \/ Acknowledge
  BY DEF Next, BeginMutation, BeginRead, Step, CreateRejected, CreateBuild, RecoverNothing,
         RecoverRejected, RecoverReplay, ReadRejected, OpenAnswers, InsertBuild,
         InspectRejected, InspectAnswers, WalOpen, WalWritePart, WalWriteRest, WalFsync,
         WalDirectoryFsync, DbOpen, DbSize, DbTearPage, DbWritePage, DbFsync,
         DbDirectoryFsync, WalTruncate, RecoverDone, Failure, Throw, ProcessCrash,
         Reject, vars, disk, Goto, SameFiles
<1>9. QED
  BY <1>1, <1>2, <1>3, <1>4, <1>5, <1>6, <1>7, <1>8 DEF IInv, TypeOK, Pcs, Applying

\* The refusal in recover is for files put there by hand: the code, whatever
\* interrupts it, never makes a WAL stale.
THEOREM WalNeverMadeStale == FailureModel => (Spec => NeverMadeStale)
<1> SUFFICES ASSUME FailureModel PROVE Spec => NeverMadeStale
  OBVIOUS
<1>1. Spec => []IInv
  BY Invariance
<1>2. IInv /\ [Next]_vars => [~Stale => ~Stale']_vars
  BY StaleStep
<1>3. QED
  BY <1>1, <1>2, PTL DEF Spec, NeverMadeStale
=============================================================================
