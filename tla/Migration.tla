------------------------------ MODULE Migration ------------------------------
(***************************************************************************)
(* tools/sql_migrate_v1.cpp: copy a v1 table into a temporary v2 file,     *)
(* verify it, and promote it with a hard link that fails if the            *)
(* destination exists.  Several migrations of one table to one destination *)
(* may run at once, be killed, fail, lose power and be started again,      *)
(* while a v1 program still appends to the source and the SQL engine may   *)
(* create the destination itself.                                          *)
(*                                                                         *)
(* The source is a row file of fixed-width slots, FieldCount to a row; a   *)
(* v1 writer appends one slot at a time (FileRecord::write).  A v2 file is *)
(* an inode: empty, torn, or a complete image of some number of rows.  A   *)
(* temporary is named after its inode, as mkstemp never returns a name in  *)
(* use.  The commit protocol inside initialize_owned_empty_file is module  *)
(* StorageV2; here it is the steps that a failure can fall between.        *)
(***************************************************************************)
EXTENDS Integers, FiniteSets

CONSTANTS
    Procs,          \* migrations that may run at the same time
    Inodes,         \* inodes for temporaries and what becomes of them
    FieldCount,     \* slots to a row of the v1 table
    MaxSlots,       \* bound on the slots of the row file
    MaxFailures     \* bound on errors, kills and power losses

ASSUME FieldCountAssumption == FieldCount \in Nat \ {0}
ASSUME BoundsAssumption == MaxSlots \in Nat /\ MaxFailures \in Nat
ASSUME InodesAssumption == Inodes \subseteq Nat \ {0}

None == 0           \* no destination, no temporary
Engine == -1        \* a destination made by the SQL engine
Empty == -1         \* an inode without a byte
Torn == -2          \* pages of it are written

Outside == {"legacy", "check"}              \* steps before the inner try block,
Trying == {"wal", "pages", "pages-fsync", "verify", "recheck", "link",
           "sync", "remove", "sync-again"}  \* in it,
Cleaning == {"clean", "clean-wal"}          \* and in its catch block
Pcs == {"idle"} \union Outside \union Trying \union Cleaning

VARIABLES
    schemaValid,        \* does <source>_fields.bin decode?
    source,             \* slots in <source>.bin
    image, imageSynced, \* contents of the inodes, and are they on the disk?
    temps, wals,        \* temporaries in the directory, those with a WAL
    dest, destSynced,   \* inode of the destination, is its entry on the disk?
    destWal,            \* is there a WAL beside the destination?
    pc,                 \* each migration's next step
    dryRun, before, legacy, mine, owned,    \* its local variables
    successes,          \* how often "migrated and verified" was reported
    failures

v1files == <<schemaValid, source>>
inodes == <<image, imageSynced>>
destination == <<dest, destSynced, destWal>>
files == <<inodes, temps, wals, destination>>
locals == <<dryRun, before, legacy, mine, owned>>
vars == <<v1files, files, pc, locals, successes, failures>>

Rows(slots) == slots \div FieldCount
WholeRows(slots) == slots % FieldCount = 0

Init ==
    /\ schemaValid \in BOOLEAN
    /\ source \in 0 .. MaxSlots
    /\ image = [i \in Inodes |-> Empty]
    /\ imageSynced = [i \in Inodes |-> TRUE]
    /\ temps = {} /\ wals = {}
    /\ dest = None /\ destSynced = FALSE /\ destWal = FALSE
    /\ pc = [p \in Procs |-> "idle"]
    /\ dryRun = [p \in Procs |-> FALSE]
    /\ before = [p \in Procs |-> 0]
    /\ legacy = [p \in Procs |-> 0]
    /\ mine = [p \in Procs |-> None]
    /\ owned = [p \in Procs |-> FALSE]
    /\ successes = 0
    /\ failures = 0

-----------------------------------------------------------------------------
(* Steps of main *)

SetPc(p, next) == pc' = [pc EXCEPT ![p] = next]
Goto(p, next) == SetPc(p, next) /\ UNCHANGED <<locals, successes>>

\* Processes end, and their variables with them.
End(ps) ==
    /\ pc' = [p \in Procs |-> IF p \in ps THEN "idle" ELSE pc[p]]
    /\ dryRun' = [p \in Procs |-> dryRun[p] /\ p \notin ps]
    /\ before' = [p \in Procs |-> IF p \in ps THEN 0 ELSE before[p]]
    /\ legacy' = [p \in Procs |-> IF p \in ps THEN 0 ELSE legacy[p]]
    /\ mine' = [p \in Procs |-> IF p \in ps THEN None ELSE mine[p]]
    /\ owned' = [p \in Procs |-> owned[p] /\ p \notin ps]

Error(p) == End({p}) /\ UNCHANGED successes

\* An exception inside the inner try block: clean up what is owned.
InnerThrow(p) == IF owned[p] THEN Goto(p, "clean") ELSE Error(p)

\* The command line, then source_schema_before and source_rows_before.
Start(p) ==
    /\ pc[p] = "idle"
    /\ \E dry \in BOOLEAN : dryRun' = [dryRun EXCEPT ![p] = dry]
    /\ before' = [before EXCEPT ![p] = source]
    /\ SetPc(p, "legacy")
    /\ UNCHANGED <<v1files, files, legacy, mine, owned, successes, failures>>

\* read_legacy opens and reads both files once more; a dry run ends here.
ReadLegacy(p) ==
    /\ pc[p] = "legacy"
    /\ IF dryRun[p] \/ ~schemaValid \/ ~WholeRows(source) THEN Error(p)
       ELSE /\ legacy' = [legacy EXCEPT ![p] = source]
            /\ SetPc(p, "check")
            /\ UNCHANGED <<dryRun, before, mine, owned, successes>>
    /\ UNCHANGED <<v1files, files, failures>>

Unused ==
    {i \in Inodes : /\ i \notin temps /\ i \notin wals /\ dest # i
                    /\ \A q \in Procs : mine[q] # i}
Some(S) == CHOOSE i \in S : TRUE

\* A name is removed, and its inode freed unless the destination links to it.
Unlink(i) ==
    /\ temps' = temps \ {i}
    /\ image' = [image EXCEPT ![i] = IF dest = i THEN @ ELSE Empty]
    /\ imageSynced' = [imageSynced EXCEPT ![i] = dest = i => @]

\* An empty file is created under a name of its own.
NewTemporary(p, i) ==
    /\ temps' = temps \union {i}
    /\ image' = [image EXCEPT ![i] = Empty]
    /\ imageSynced' = [imageSynced EXCEPT ![i] = FALSE]
    /\ mine' = [mine EXCEPT ![p] = i]
    /\ owned' = [owned EXCEPT ![p] = TRUE]
    /\ SetPc(p, "wal")
    /\ UNCHANGED <<dryRun, before, legacy, successes>>

\* MUTANT: only the database file is looked for.
CreateTemporaryFileOnly(p) ==
    /\ pc[p] = "check"
    /\ IF dest # None THEN Error(p) /\ UNCHANGED <<inodes, temps>>
       ELSE NewTemporary(p, Some(Unused))
    /\ UNCHANGED <<v1files, wals, destination, failures>>

\* MUTANT: a fixed temporary name, refused when it exists.
CreateTemporaryFixedName(p) ==
    /\ pc[p] = "check"
    /\ IF dest # None \/ destWal \/ Some(Inodes) \notin Unused
       THEN Error(p) /\ UNCHANGED <<inodes, temps>>
       ELSE NewTemporary(p, Some(Inodes))
    /\ UNCHANGED <<v1files, wals, destination, failures>>

\* MUTANT: a fixed temporary name that another migration may be using.
CreateTemporaryShared(p) ==
    /\ pc[p] = "check"
    /\ IF dest # None \/ destWal THEN Error(p) /\ UNCHANGED <<inodes, temps>>
       ELSE NewTemporary(p, Some(Inodes))
    /\ UNCHANGED <<v1files, wals, destination, failures>>

\* Is there a destination?  If not, mkstemp.
CreateTemporary(p) ==
    /\ pc[p] = "check"
    /\ IF dest # None \/ destWal THEN Error(p) /\ UNCHANGED <<inodes, temps>>
       ELSE Unused # {} /\ NewTemporary(p, Some(Unused))
    /\ UNCHANGED <<v1files, wals, destination, failures>>

\* initialize_owned_empty_file: the WAL is written and synced, as is the
\* directory, because the WAL is new;
WriteWal(p) ==
    /\ pc[p] = "wal"
    /\ wals' = wals \union {mine[p]}
    /\ destSynced' = (dest # None)
    /\ Goto(p, "pages")
    /\ UNCHANGED <<v1files, inodes, temps, dest, destWal, failures>>

\* the pages are written
WritePages(p) ==
    /\ pc[p] = "pages"
    /\ image' = [image EXCEPT ![mine[p]] = Torn]
    /\ imageSynced' = [imageSynced EXCEPT ![mine[p]] = FALSE]
    /\ Goto(p, "pages-fsync")
    /\ UNCHANGED <<v1files, temps, wals, destination, failures>>

\* and synced, and the WAL is emptied.
SyncPages(p) ==
    /\ pc[p] = "pages-fsync"
    /\ image' = [image EXCEPT ![mine[p]] = Rows(legacy[p])]
    /\ imageSynced' = [imageSynced EXCEPT ![mine[p]] = TRUE]
    /\ Goto(p, "verify")
    /\ UNCHANGED <<v1files, temps, wals, destination, failures>>

\* open_table of the temporary is compared with what was read; then its WAL
\* is removed.
Verify(p) ==
    /\ pc[p] = "verify"
    /\ IF image[mine[p]] # Rows(legacy[p]) THEN InnerThrow(p) /\ UNCHANGED wals
       ELSE Goto(p, "recheck") /\ wals' = wals \ {mine[p]}
    /\ UNCHANGED <<v1files, inodes, temps, destination, failures>>

\* MUTANT: the source is compared with what read_legacy saw.
RecheckLegacy(p) ==
    /\ pc[p] = "recheck"
    /\ IF Rows(source) # Rows(legacy[p]) THEN InnerThrow(p) ELSE Goto(p, "link")
    /\ UNCHANGED <<v1files, files, failures>>

\* MUTANT: a changed source is waited for instead of refused.
RecheckWaits(p) ==
    /\ pc[p] = "recheck"
    /\ source = before[p]
    /\ Goto(p, "link")
    /\ UNCHANGED <<v1files, files, failures>>

\* Both files are read again and compared with the first copies.
Recheck(p) ==
    /\ pc[p] = "recheck"
    /\ IF source # before[p] THEN InnerThrow(p) ELSE Goto(p, "link")
    /\ UNCHANGED <<v1files, files, failures>>

\* MUTANT: promotion by rename, which replaces the destination.
LinkReplacing(p) ==
    /\ pc[p] = "link"
    /\ dest' = mine[p] /\ destSynced' = FALSE
    /\ Goto(p, "sync")
    /\ UNCHANGED <<v1files, inodes, temps, wals, destWal, failures>>

\* link(2) fails when the destination exists.
Link(p) ==
    /\ pc[p] = "link"
    /\ IF dest = None
       THEN dest' = mine[p] /\ destSynced' = FALSE /\ Goto(p, "sync")
       ELSE InnerThrow(p) /\ UNCHANGED <<dest, destSynced>>
    /\ UNCHANGED <<v1files, inodes, temps, wals, destWal, failures>>

\* MUTANT: the promoted entry is not synced.
SyncPromotionSkipped(p) ==
    /\ pc[p] = "sync"
    /\ Goto(p, "remove")
    /\ UNCHANGED <<v1files, files, failures>>

SyncPromotion(p) ==
    /\ pc[p] = "sync"
    /\ destSynced' = TRUE
    /\ Goto(p, "remove")
    /\ UNCHANGED <<v1files, inodes, temps, wals, dest, destWal, failures>>

RemoveTemporary(p) ==
    /\ pc[p] = "remove"
    /\ Unlink(mine[p])
    /\ owned' = [owned EXCEPT ![p] = FALSE]
    /\ SetPc(p, "sync-again")
    /\ UNCHANGED <<v1files, wals, destination, dryRun, before, legacy, mine,
                   successes, failures>>

\* The last fsync, and the report of success.
SyncRemoval(p) ==
    /\ pc[p] = "sync-again"
    /\ successes' = successes + 1
    /\ End({p})
    /\ UNCHANGED <<v1files, files, failures>>

\* MUTANT: the clean-up takes the destination for its own.
CleanUpDestination(p) ==
    /\ pc[p] = "clean"
    /\ Unlink(mine[p])
    /\ dest' = None /\ destSynced' = FALSE
    /\ Goto(p, "clean-wal")
    /\ UNCHANGED <<v1files, wals, destWal, failures>>

\* The inner catch block, in its two removals; then the outer one reports.
CleanUp(p) ==
    /\ pc[p] = "clean"
    /\ Unlink(mine[p])
    /\ Goto(p, "clean-wal")
    /\ UNCHANGED <<v1files, wals, destination, failures>>

\* MUTANT: the WAL of the temporary is left behind.
CleanUpWalForgotten(p) ==
    /\ pc[p] = "clean-wal"
    /\ Error(p)
    /\ UNCHANGED <<v1files, files, failures>>

CleanUpWal(p) ==
    /\ pc[p] = "clean-wal"
    /\ wals' = wals \ {mine[p]}
    /\ Error(p)
    /\ UNCHANGED <<v1files, inodes, temps, destination, failures>>

Step(p) ==
    \/ ReadLegacy(p) \/ CreateTemporary(p) \/ WriteWal(p) \/ WritePages(p)
    \/ SyncPages(p) \/ Verify(p) \/ Recheck(p) \/ Link(p) \/ SyncPromotion(p)
    \/ RemoveTemporary(p) \/ SyncRemoval(p) \/ CleanUp(p) \/ CleanUpWal(p)

-----------------------------------------------------------------------------
(* Failures *)

\* Any call may throw.  A removal that throws in the catch block ends the
\* process with what is left to remove still there.
Throw(p) ==
    /\ pc[p] # "idle" /\ failures < MaxFailures
    /\ IF pc[p] \in Trying THEN InnerThrow(p) ELSE Error(p)
    /\ failures' = failures + 1
    /\ UNCHANGED <<v1files, files>>

\* maybe_migration_crash, or any other end of the process.
Kill(p) ==
    /\ pc[p] # "idle" /\ failures < MaxFailures
    /\ Error(p)
    /\ failures' = failures + 1
    /\ UNCHANGED <<v1files, files>>

\* The temporaries, their WALs and the images that were not synced are, each on
\* its own, as they were, lost or torn; so is an unsynced destination's entry.
\* (A temporary that was removed may come back too: then it is like one that
\* was not removed yet, which nothing ever opens again.)
PowerLoss ==
    /\ failures < MaxFailures
    /\ failures' = failures + 1
    /\ End(Procs)
    /\ temps' \in SUBSET temps
    /\ wals' \in SUBSET wals
    /\ \/ UNCHANGED dest /\ destSynced' = (dest # None)
       \/ ~destSynced /\ dest' = None /\ UNCHANGED destSynced
    /\ \E lost \in {Empty, Torn} :
          image' = [i \in Inodes |-> IF i \notin temps' \union {dest'} THEN Empty
                                     ELSE IF imageSynced[i] THEN image[i] ELSE lost]
    /\ imageSynced' = [i \in Inodes |-> TRUE]
    /\ UNCHANGED <<v1files, destWal, successes>>

Failure == PowerLoss \/ \E p \in Procs : Throw(p) \/ Kill(p)

-----------------------------------------------------------------------------
(* The other programs *)

\* A v1 program appends the next slot of a row.
V1Append ==
    /\ source < MaxSlots
    /\ source' = source + 1
    /\ UNCHANGED <<schemaValid, files, pc, locals, successes, failures>>

\* The engine creates a table under the destination's name.  Its WAL is left
\* there, empty; between the two calls the WAL is there alone.  The engine is
\* the single writer: it does not start while a migration that has looked for
\* the destination is on its way to promote.
EngineWritesWal ==
    /\ dest = None /\ ~destWal
    /\ \A p \in Procs : pc[p] \in {"idle"} \union Outside
    /\ destWal' = TRUE
    /\ UNCHANGED <<v1files, inodes, temps, wals, dest, destSynced,
                   pc, locals, successes, failures>>

\* The database follows, in the same statement or in a later recovery.
EngineWritesDatabase ==
    /\ dest = None /\ destWal
    /\ dest' = Engine /\ destSynced' = TRUE
    /\ UNCHANGED <<v1files, inodes, temps, wals, destWal, pc, locals, successes, failures>>

Next ==
    \/ \E p \in Procs : Start(p) \/ Step(p)
    \/ Failure
    \/ V1Append \/ EngineWritesWal \/ EngineWritesDatabase

Spec == Init /\ [][Next]_vars

\* A migration that was started runs on: no call of it waits for another
\* process.  Nothing obliges anybody to start one.
FairSpec == Spec /\ \A p \in Procs : WF_vars(Step(p))

-----------------------------------------------------------------------------
(* Properties *)

\* Inside the inner try block a migration holds an inode of its own, as nobody
\* else does; nobody holds two.
TypeOK ==
    /\ schemaValid \in BOOLEAN /\ destWal \in BOOLEAN /\ destSynced \in BOOLEAN
    /\ source \in 0 .. MaxSlots
    /\ image \in [Inodes -> Nat \union {Empty, Torn}]
    /\ imageSynced \in [Inodes -> BOOLEAN]
    /\ temps \subseteq Inodes /\ wals \subseteq Inodes
    /\ dest \in Inodes \union {None, Engine}
    /\ destSynced => dest # None
    /\ pc \in [Procs -> Pcs]
    /\ dryRun \in [Procs -> BOOLEAN] /\ owned \in [Procs -> BOOLEAN]
    /\ before \in [Procs -> 0 .. MaxSlots] /\ legacy \in [Procs -> 0 .. MaxSlots]
    /\ mine \in [Procs -> Inodes \union {None}]
    /\ \A p \in Procs : pc[p] \in Trying \union Cleaning <=> mine[p] # None
    /\ \A p, q \in Procs : mine[p] = mine[q] /\ mine[p] # None => p = q
    /\ successes \in Nat /\ failures \in 0 .. MaxFailures

\* What is promoted is exactly the v1 table that was there when the migration
\* began to read it, in whole rows: every row written before, none written
\* after, although the source is read three times while a v1 program appends
\* (main: source_rows_before, read_legacy, the re-read before link).
PromotesCheckedSource ==
    [][ \A p \in Procs : pc[p] = "link" /\ pc'[p] = "sync" =>
           /\ dest' = mine[p]
           /\ image[mine[p]] = Rows(before[p])
           /\ WholeRows(before[p]) ]_vars

\* A destination, whoever made it, is never replaced or removed by a migration,
\* not even by one that failed or was interrupted after promoting it; only a
\* power loss takes back an entry that was not synced (main: link and the
\* inner catch block).
DestinationKept ==
    [][ dest # None =>
           \/ dest' = dest
           \/ ~destSynced /\ failures' # failures /\ \A p \in Procs : pc'[p] = "idle" ]_vars

\* Of all the migrations to one destination at most one reports success.
OneWinner == successes <= 1

\* Once the temporary is removed, and from then on, the destination is on the
\* disk under its own name, complete: the copy is at no instant without a
\* durable name (main: the order of link, fsync, remove and fsync).
PromotionDurable ==
    /\ \A p \in Procs : pc[p] = "sync-again" =>
          dest = mine[p] /\ image[dest] = Rows(before[p])
    /\ successes > 0 \/ (\E p \in Procs : pc[p] = "sync-again") =>
          dest \in Inodes /\ destSynced /\ imageSynced[dest] /\ image[dest] \in Nat

\* No WAL of another table lies beside a promoted destination: recovery would
\* replay it over the migrated rows, whose generation is as low as can be
\* (main: the two existence checks).
NoForeignWal == dest \in Inodes => ~destWal

\* A migration that ends by itself leaves no temporary and no WAL of one, unless
\* a removal in the clean-up failed (main: temporary_owned and the catch block).
NothingLeftBehind ==
    [][ \A p \in Procs :
           mine[p] # None /\ mine'[p] = None /\ failures' = failures =>
              mine[p] \notin temps' /\ mine[p] \notin wals' ]_vars

\* Every migration ends: none of its steps waits for another migration, for the
\* engine or for a writer of the source (main).
MigrationsEnd == \A p \in Procs : pc[p] # "idle" ~> pc[p] = "idle"

\* What failures leave behind never blocks a retry: if whole rows stay in a
\* valid source, failures stop and migration is tried again and again, the
\* destination comes to exist, unless a table of that name is being created
\* (main: mkstemp instead of one fixed temporary name).
RetryPromotes ==
    (/\ []<><<\E p \in Procs : Start(p) /\ ~dryRun'[p]>>_vars
     /\ <>[][~Failure]_vars
     /\ <>[](schemaValid /\ WholeRows(source)))
    => <>(dest # None \/ destWal)
=============================================================================
