--------------------------- MODULE Migration_proofs ---------------------------
(***************************************************************************)
(* Theorems about Migration, for every number of migrations, inodes, slots *)
(* and failures.                                                           *)
(***************************************************************************)
EXTENDS Migration, TLAPS

-----------------------------------------------------------------------------
(* The inductive invariant *)

Copied == {"recheck", "link"}               \* verified, not yet promoted
Promoted == {"sync", "remove", "sync-again"}
Written == {"verify"} \union Copied \union Promoted
Unlinked == {"wal", "pages", "pages-fsync", "verify"} \union Copied

\* The three readings of a source that only grows.
SourceInv ==
    \A p \in Procs :
        /\ pc[p] \in Outside \union Trying => before[p] <= source
        /\ pc[p] \in {"check"} \union Trying =>
              before[p] <= legacy[p] /\ legacy[p] <= source /\ WholeRows(legacy[p])
        /\ pc[p] \in {"link"} \union Promoted => legacy[p] = before[p]

\* Who owns which names at each step.
NamesInv ==
    \A p \in Procs :
        /\ pc[p] \in (Trying \ {"sync-again"}) \union Cleaning => owned[p]
        /\ pc[p] \in {"sync-again", "clean-wal"} => mine[p] \notin temps
        /\ pc[p] \in Copied \union Promoted => mine[p] \notin wals

\* A copy that was written is complete and on the disk, and stays so.
CopyInv ==
    \A p \in Procs :
        pc[p] \in Written =>
            image[mine[p]] = Rows(legacy[p]) /\ imageSynced[mine[p]]

\* The destination at each step, and whose inode it is.
DestInv ==
    /\ dest \in Inodes => image[dest] \in Nat /\ imageSynced[dest]
    /\ \A p \in Procs :
          /\ pc[p] \in Unlinked => dest # mine[p]
          /\ pc[p] \in Promoted => dest = mine[p] /\ successes = 0
          /\ pc[p] \in {"remove", "sync-again"} => destSynced
          /\ pc[p] \in Trying \union Cleaning => ~destWal
    /\ successes > 0 => dest \in Inodes /\ destSynced

IInv ==
    /\ TypeOK /\ SourceInv /\ NamesInv /\ CopyInv /\ DestInv
    /\ OneWinner /\ NoForeignWal

-----------------------------------------------------------------------------
(* Initial states *)

LEMMA RowsType == \A slots \in Nat : Rows(slots) \in Nat
BY FieldCountAssumption DEF Rows

LEMMA InvInit == Init => IInv
<1> SUFFICES ASSUME Init PROVE IInv
  OBVIOUS
<1> USE InodesAssumption, BoundsAssumption DEF Init
<1>1. TypeOK
  <2>1. /\ schemaValid \in BOOLEAN /\ destWal \in BOOLEAN /\ destSynced \in BOOLEAN
        /\ imageSynced \in [Inodes -> BOOLEAN]
        /\ dryRun \in [Procs -> BOOLEAN] /\ owned \in [Procs -> BOOLEAN]
    BY Zenon
  <2>2. QED
    BY <2>1 DEF TypeOK, Pcs, Outside, Trying, Cleaning, Empty, None
<1>2. SourceInv /\ NamesInv /\ CopyInv
  BY DEF SourceInv, NamesInv, CopyInv, Outside, Trying, Cleaning, Written, Copied, Promoted
<1>3. DestInv /\ OneWinner /\ NoForeignWal
  BY DEF DestInv, OneWinner, NoForeignWal, Unlinked, Copied, Promoted, Trying, Cleaning, None
<1>4. QED
  BY <1>1, <1>2, <1>3 DEF IInv

-----------------------------------------------------------------------------
(* How a migration ends *)

\* Any set of migrations may end at any step, having removed at most WALs of
\* temporaries: nothing the others rely on is theirs.
LEMMA EndInv ==
    ASSUME IInv, NEW ps \in SUBSET Procs, End(ps), wals' \subseteq wals,
           UNCHANGED <<v1files, inodes, temps, destination, successes>>,
           failures' \in 0 .. MaxFailures
    PROVE  IInv'
<1> USE DEF IInv, TypeOK, End, v1files, inodes, destination
<1>1. TypeOK'
  <2>1. dryRun' \in [Procs -> BOOLEAN] /\ owned' \in [Procs -> BOOLEAN]
    BY Zenon
  <2>2. QED
    BY <2>1, BoundsAssumption, InodesAssumption DEF Pcs, Outside, Trying, Cleaning, None
<1>2. SourceInv'
  BY DEF SourceInv, Outside, Trying, Cleaning, Promoted
<1>3. NamesInv'
  BY DEF NamesInv, Trying, Cleaning, Copied, Promoted
<1>4. CopyInv'
  BY DEF CopyInv, Trying, Written, Copied, Promoted
<1>5. DestInv'
  BY RowsType DEF DestInv, CopyInv, Written, Unlinked, Trying, Cleaning, Copied, Promoted, None
<1>6. OneWinner' /\ NoForeignWal'
  BY DEF OneWinner, NoForeignWal
<1>7. QED
  BY <1>1, <1>2, <1>3, <1>4, <1>5, <1>6

\* An exception in the inner try block, wherever it is raised.
LEMMA InnerThrowInv ==
    ASSUME IInv, NEW p \in Procs, pc[p] \in Trying, InnerThrow(p),
           UNCHANGED <<v1files, files>>, failures' \in 0 .. MaxFailures
    PROVE  IInv'
<1>a. CASE ~owned[p]
  BY <1>a, EndInv DEF InnerThrow, Error, files
<1>b. CASE owned[p]
  <2> USE <1>b DEF IInv, TypeOK, InnerThrow, Goto, SetPc, v1files, files, inodes, destination, locals
  <2>1. TypeOK'
    BY InodesAssumption DEF Pcs, Outside, Trying, Cleaning, None
  <2>2. SourceInv'
    BY DEF SourceInv, Outside, Trying, Cleaning, Promoted
  <2>3. NamesInv'
    BY DEF NamesInv, Trying, Cleaning, Copied, Promoted
  <2>4. CopyInv'
    BY DEF CopyInv, Trying, Written, Copied, Promoted
  <2>5. DestInv'
    BY RowsType DEF DestInv, CopyInv, Written, Unlinked, Trying, Cleaning, Copied, Promoted, None
  <2>6. OneWinner' /\ NoForeignWal'
    BY DEF OneWinner, NoForeignWal
  <2>7. QED
    BY <2>1, <2>2, <2>3, <2>4, <2>5, <2>6
<1>c. QED
  BY <1>a, <1>b

-----------------------------------------------------------------------------
(* The steps of main *)

LEMMA StartInv ==
    ASSUME IInv, NEW p \in Procs, Start(p)
    PROVE  IInv'
<1> USE DEF IInv, TypeOK, Start, SetPc, v1files, files, inodes, destination
<1>1. TypeOK'
  BY RowsType, BoundsAssumption, InodesAssumption DEF Pcs, Outside, Trying, Cleaning, None
<1>2. SourceInv'
  BY DEF SourceInv, Outside, Trying, Cleaning, Promoted
<1>3. NamesInv'
  BY DEF NamesInv, Trying, Cleaning, Copied, Promoted
<1>4. CopyInv'
  BY DEF CopyInv, Trying, Written, Copied, Promoted
<1>5. DestInv'
  BY RowsType DEF DestInv, CopyInv, Written, Unlinked, Trying, Cleaning, Copied, Promoted, None
<1>6. OneWinner' /\ NoForeignWal'
  BY DEF OneWinner, NoForeignWal
<1>7. QED
  BY <1>1, <1>2, <1>3, <1>4, <1>5, <1>6

LEMMA ReadLegacyInv ==
    ASSUME IInv, NEW p \in Procs, ReadLegacy(p)
    PROVE  IInv'
<1>a. CASE dryRun[p] \/ ~schemaValid \/ ~WholeRows(source)
  BY <1>a, EndInv DEF ReadLegacy, Error, files, IInv, TypeOK
<1>b. CASE ~(dryRun[p] \/ ~schemaValid \/ ~WholeRows(source))
  <2> USE <1>b DEF IInv, TypeOK, ReadLegacy, SetPc, v1files, files, inodes, destination
  <2>1. TypeOK'
    BY RowsType, BoundsAssumption, InodesAssumption DEF Pcs, Outside, Trying, Cleaning, None
  <2>2. SourceInv'
    BY DEF SourceInv, Outside, Trying, Cleaning, Promoted
  <2>3. NamesInv'
    BY DEF NamesInv, Trying, Cleaning, Copied, Promoted
  <2>4. CopyInv'
    BY DEF CopyInv, Trying, Written, Copied, Promoted
  <2>5. DestInv'
    BY RowsType DEF DestInv, CopyInv, Written, Unlinked, Trying, Cleaning, Copied, Promoted, None
  <2>6. OneWinner' /\ NoForeignWal'
    BY DEF OneWinner, NoForeignWal
  <2>7. QED
    BY <2>1, <2>2, <2>3, <2>4, <2>5, <2>6
<1>c. QED
  BY <1>a, <1>b

LEMMA NewTemporaryInv ==
    ASSUME IInv, NEW p \in Procs, NEW i \in Unused,
           pc[p] = "check", dest = None, ~destWal, NewTemporary(p, i),
           UNCHANGED <<v1files, wals, destination, failures>>
    PROVE  IInv'
<1> USE DEF IInv, TypeOK, NewTemporary, SetPc, v1files, inodes, destination
<1>0. /\ i \in Inodes /\ i # 0 /\ i \notin temps /\ i \notin wals /\ dest # i
      /\ \A q \in Procs : mine[q] # i
  BY InodesAssumption DEF Unused
<1>1. TypeOK'
  BY <1>0, BoundsAssumption, InodesAssumption DEF Pcs, Outside, Trying, Cleaning, None, Empty
<1>2. SourceInv'
  BY <1>0 DEF SourceInv, Outside, Trying, Cleaning, Promoted
<1>3. NamesInv'
  BY <1>0 DEF NamesInv, Trying, Cleaning, Copied, Promoted
<1>4. CopyInv'
  BY <1>0 DEF CopyInv, Trying, Written, Copied, Promoted
<1>5. DestInv'
  BY <1>0, RowsType DEF DestInv, CopyInv, Written, Unlinked, Trying, Cleaning, Copied, Promoted, None
<1>6. OneWinner' /\ NoForeignWal'
  BY <1>0 DEF OneWinner, NoForeignWal
<1>7. QED
  BY <1>1, <1>2, <1>3, <1>4, <1>5, <1>6

LEMMA CreateTemporaryInv ==
    ASSUME IInv, NEW p \in Procs, CreateTemporary(p)
    PROVE  IInv'
<1>1. CASE dest # None \/ destWal
  BY <1>1, EndInv DEF CreateTemporary, Error, IInv, TypeOK
<1>2. CASE dest = None /\ ~destWal
  <2>1. Unused # {} /\ NewTemporary(p, Some(Unused))
    BY <1>2 DEF CreateTemporary
  <2>2. Some(Unused) \in Unused
    BY <2>1 DEF Some
  <2>3. QED
    BY <1>2, <2>1, <2>2, NewTemporaryInv DEF CreateTemporary
<1>3. QED
  BY <1>1, <1>2

LEMMA WriteWalInv ==
    ASSUME IInv, NEW p \in Procs, WriteWal(p)
    PROVE  IInv'
<1> USE DEF IInv, TypeOK, WriteWal, SetPc, Goto, v1files, inodes, locals
<1>1. TypeOK'
  BY RowsType, BoundsAssumption, InodesAssumption DEF Pcs, Outside, Trying, Cleaning, None
<1>2. SourceInv'
  BY DEF SourceInv, Outside, Trying, Cleaning, Promoted
<1>3. NamesInv'
  BY DEF NamesInv, Trying, Cleaning, Copied, Promoted
<1>4. CopyInv'
  BY DEF CopyInv, Trying, Written, Copied, Promoted
<1>5. DestInv'
  BY RowsType DEF DestInv, CopyInv, Written, Unlinked, Trying, Cleaning, Copied, Promoted, None
<1>6. OneWinner' /\ NoForeignWal'
  BY DEF OneWinner, NoForeignWal
<1>7. QED
  BY <1>1, <1>2, <1>3, <1>4, <1>5, <1>6

LEMMA WritePagesInv ==
    ASSUME IInv, NEW p \in Procs, WritePages(p)
    PROVE  IInv'
<1> USE DEF IInv, TypeOK, WritePages, SetPc, Goto, v1files, destination, locals
<1>1. TypeOK'
  BY InodesAssumption DEF Pcs, Outside, Trying, Cleaning, None, Torn
<1>2. SourceInv'
  BY DEF SourceInv, Outside, Trying, Cleaning, Promoted
<1>3. NamesInv'
  BY DEF NamesInv, Trying, Cleaning, Copied, Promoted
<1>4. CopyInv'
  BY DEF CopyInv, Trying, Written, Copied, Promoted
<1>5. DestInv'
  BY RowsType DEF DestInv, CopyInv, Written, Unlinked, Trying, Cleaning, Copied, Promoted, None
<1>6. OneWinner' /\ NoForeignWal'
  BY DEF OneWinner, NoForeignWal
<1>7. QED
  BY <1>1, <1>2, <1>3, <1>4, <1>5, <1>6

LEMMA SyncPagesInv ==
    ASSUME IInv, NEW p \in Procs, SyncPages(p)
    PROVE  IInv'
<1> USE DEF IInv, TypeOK, SyncPages, SetPc, Goto, v1files, destination, locals
<1>1. TypeOK'
  BY RowsType, BoundsAssumption, InodesAssumption DEF Pcs, Outside, Trying, Cleaning, None
<1>2. SourceInv'
  BY DEF SourceInv, Outside, Trying, Cleaning, Promoted
<1>3. NamesInv'
  BY DEF NamesInv, Trying, Cleaning, Copied, Promoted
<1>4. CopyInv'
  BY DEF CopyInv, Trying, Written, Copied, Promoted
<1>5. DestInv'
  BY RowsType DEF DestInv, CopyInv, Written, Unlinked, Trying, Cleaning, Copied, Promoted, None
<1>6. OneWinner' /\ NoForeignWal'
  BY DEF OneWinner, NoForeignWal
<1>7. QED
  BY <1>1, <1>2, <1>3, <1>4, <1>5, <1>6

LEMMA VerifyInv ==
    ASSUME IInv, NEW p \in Procs, Verify(p)
    PROVE  IInv'
<1>a. CASE image[mine[p]] # Rows(legacy[p])
  BY <1>a, InnerThrowInv DEF Verify, files, destination, IInv, TypeOK, Trying
<1>b. CASE image[mine[p]] = Rows(legacy[p])
  <2> USE <1>b DEF IInv, TypeOK, Verify, Goto, SetPc, v1files, inodes, destination, locals
  <2>1. TypeOK'
    BY RowsType, BoundsAssumption, InodesAssumption, ZenonT(60) DEF Pcs, Outside, Trying, Cleaning, None
  <2>2. SourceInv'
    BY DEF SourceInv, Outside, Trying, Cleaning, Promoted
  <2>3. NamesInv'
    BY DEF NamesInv, Trying, Cleaning, Copied, Promoted
  <2>4. CopyInv'
    BY DEF CopyInv, Trying, Written, Copied, Promoted
  <2>5. DestInv'
    BY RowsType DEF DestInv, CopyInv, Written, Unlinked, Trying, Cleaning, Copied, Promoted, None
  <2>6. OneWinner' /\ NoForeignWal'
    BY DEF OneWinner, NoForeignWal
  <2>7. QED
    BY <2>1, <2>2, <2>3, <2>4, <2>5, <2>6
<1>c. QED
  BY <1>a, <1>b

LEMMA RecheckInv ==
    ASSUME IInv, NEW p \in Procs, Recheck(p)
    PROVE  IInv'
<1>a. CASE source # before[p]
  BY <1>a, InnerThrowInv DEF Recheck, files, destination, IInv, TypeOK, Trying
<1>b. CASE source = before[p]
  <2> USE <1>b DEF IInv, TypeOK, Recheck, Goto, SetPc, v1files, files, inodes, destination, locals
  <2>1. TypeOK'
    BY RowsType, BoundsAssumption, InodesAssumption DEF Pcs, Outside, Trying, Cleaning, None
  <2>2. SourceInv'
    BY DEF SourceInv, Outside, Trying, Cleaning, Promoted
  <2>3. NamesInv'
    BY DEF NamesInv, Trying, Cleaning, Copied, Promoted
  <2>4. CopyInv'
    BY DEF CopyInv, Trying, Written, Copied, Promoted
  <2>5. DestInv'
    BY RowsType DEF DestInv, CopyInv, Written, Unlinked, Trying, Cleaning, Copied, Promoted, None
  <2>6. OneWinner' /\ NoForeignWal'
    BY DEF OneWinner, NoForeignWal
  <2>7. QED
    BY <2>1, <2>2, <2>3, <2>4, <2>5, <2>6
<1>c. QED
  BY <1>a, <1>b

LEMMA LinkInv ==
    ASSUME IInv, NEW p \in Procs, Link(p)
    PROVE  IInv'
<1>a. CASE dest # None
  BY <1>a, InnerThrowInv DEF Link, files, destination, IInv, TypeOK, Trying
<1>b. CASE dest = None
  <2> USE <1>b DEF IInv, TypeOK, Link, Goto, SetPc, v1files, inodes, locals
  <2>1. TypeOK'
    BY RowsType, BoundsAssumption, InodesAssumption, ZenonT(60) DEF Pcs, Outside, Trying, Cleaning, None
  <2>2. SourceInv'
    BY DEF SourceInv, Outside, Trying, Cleaning, Promoted
  <2>3. NamesInv'
    BY DEF NamesInv, Trying, Cleaning, Copied, Promoted
  <2>4. CopyInv'
    BY DEF CopyInv, Trying, Written, Copied, Promoted
  <2>5. DestInv'
    BY RowsType DEF DestInv, CopyInv, Written, Unlinked, Trying, Cleaning, Copied, Promoted, None
  <2>6. OneWinner' /\ NoForeignWal'
    BY DEF OneWinner, NoForeignWal, DestInv, Trying
  <2>7. QED
    BY <2>1, <2>2, <2>3, <2>4, <2>5, <2>6
<1>c. QED
  BY <1>a, <1>b

LEMMA SyncPromotionInv ==
    ASSUME IInv, NEW p \in Procs, SyncPromotion(p)
    PROVE  IInv'
<1> USE DEF IInv, TypeOK, SyncPromotion, SetPc, Goto, v1files, inodes, locals
<1>1. TypeOK'
  BY InodesAssumption DEF DestInv, Promoted, Pcs, Outside, Trying, Cleaning, None
<1>2. SourceInv'
  BY DEF SourceInv, Outside, Trying, Cleaning, Promoted
<1>3. NamesInv'
  BY DEF NamesInv, Trying, Cleaning, Copied, Promoted
<1>4. CopyInv'
  BY DEF CopyInv, Trying, Written, Copied, Promoted
<1>5. DestInv'
  BY RowsType DEF DestInv, CopyInv, Written, Unlinked, Trying, Cleaning, Copied, Promoted, None
<1>6. OneWinner' /\ NoForeignWal'
  BY DEF OneWinner, NoForeignWal
<1>7. QED
  BY <1>1, <1>2, <1>3, <1>4, <1>5, <1>6

LEMMA RemoveTemporaryInv ==
    ASSUME IInv, NEW p \in Procs, RemoveTemporary(p)
    PROVE  IInv'
<1> USE DEF IInv, TypeOK, RemoveTemporary, SetPc, v1files, destination
<1>0. /\ dest = mine[p] /\ image' = image /\ imageSynced' = imageSynced
      /\ temps' = temps \ {mine[p]}
  BY DEF Unlink, DestInv, Promoted
<1>1. TypeOK'
  BY <1>0, InodesAssumption DEF Pcs, Outside, Trying, Cleaning, None
<1>2. SourceInv'
  BY <1>0 DEF SourceInv, Outside, Trying, Cleaning, Promoted
<1>3. NamesInv'
  BY <1>0 DEF NamesInv, Trying, Cleaning, Copied, Promoted
<1>4. CopyInv'
  BY <1>0 DEF CopyInv, Trying, Written, Copied, Promoted
<1>5. DestInv'
  BY <1>0, RowsType DEF DestInv, CopyInv, Written, Unlinked, Trying, Cleaning, Copied, Promoted, None
<1>6. OneWinner' /\ NoForeignWal'
  BY <1>0 DEF OneWinner, NoForeignWal
<1>7. QED
  BY <1>1, <1>2, <1>3, <1>4, <1>5, <1>6

LEMMA SyncRemovalInv ==
    ASSUME IInv, NEW p \in Procs, SyncRemoval(p)
    PROVE  IInv'
<1> USE DEF IInv, TypeOK, SyncRemoval, End, v1files, files, inodes, destination
<1>1. TypeOK'
  <2>1. dryRun' \in [Procs -> BOOLEAN] /\ owned' \in [Procs -> BOOLEAN]
    BY Zenon
  <2>2. QED
    BY <2>1, BoundsAssumption, InodesAssumption DEF Pcs, Outside, Trying, Cleaning, None
<1>2. SourceInv'
  BY DEF SourceInv, Outside, Trying, Cleaning, Promoted
<1>3. NamesInv'
  BY DEF NamesInv, Trying, Cleaning, Copied, Promoted
<1>4. CopyInv'
  BY DEF CopyInv, Trying, Written, Copied, Promoted
<1>5. DestInv'
  BY RowsType DEF DestInv, CopyInv, Written, Unlinked, Trying, Cleaning, Copied, Promoted, None
<1>6. OneWinner' /\ NoForeignWal'
  BY DEF OneWinner, DestInv, Promoted, NoForeignWal
<1>7. QED
  BY <1>1, <1>2, <1>3, <1>4, <1>5, <1>6

LEMMA CleanUpInv ==
    ASSUME IInv, NEW p \in Procs, CleanUp(p)
    PROVE  IInv'
<1> USE DEF IInv, TypeOK, CleanUp, Unlink, SetPc, Goto, v1files, destination, locals
<1>1. TypeOK'
  <2>1. imageSynced' \in [Inodes -> BOOLEAN]
    BY Zenon
  <2>2. image' \in [Inodes -> Nat \union {Empty, Torn}]
    OBVIOUS
  <2>3. QED
    BY <2>1, <2>2, BoundsAssumption, InodesAssumption DEF Pcs, Outside, Trying, Cleaning, None
<1>2. SourceInv'
  BY DEF SourceInv, Outside, Trying, Cleaning, Promoted
<1>3. NamesInv'
  BY DEF NamesInv, Trying, Cleaning, Copied, Promoted
<1>4. CopyInv'
  BY DEF CopyInv, Trying, Written, Copied, Promoted
<1>5. DestInv'
  BY RowsType DEF DestInv, CopyInv, Written, Unlinked, Trying, Cleaning, Copied, Promoted, None
<1>6. OneWinner' /\ NoForeignWal'
  BY DEF OneWinner, NoForeignWal
<1>7. QED
  BY <1>1, <1>2, <1>3, <1>4, <1>5, <1>6

LEMMA CleanUpWalInv ==
    ASSUME IInv, NEW p \in Procs, CleanUpWal(p)
    PROVE  IInv'
BY EndInv DEF CleanUpWal, Error, IInv, TypeOK

LEMMA StepInv ==
    ASSUME IInv, NEW p \in Procs, Step(p)
    PROVE  IInv'
BY ReadLegacyInv, CreateTemporaryInv, WriteWalInv, WritePagesInv, SyncPagesInv, VerifyInv,
   RecheckInv, LinkInv, SyncPromotionInv, RemoveTemporaryInv, SyncRemovalInv, CleanUpInv,
   CleanUpWalInv DEF Step

-----------------------------------------------------------------------------
(* Failures and the other programs *)

LEMMA ThrowInv ==
    ASSUME IInv, NEW p \in Procs, Throw(p) \/ Kill(p)
    PROVE  IInv'
<1>1. failures' \in 0 .. MaxFailures
  BY BoundsAssumption DEF Throw, Kill, IInv, TypeOK
<1>2. CASE Throw(p) /\ pc[p] \in Trying
  BY <1>1, <1>2, InnerThrowInv DEF Throw
<1>3. CASE Error(p) /\ UNCHANGED <<v1files, files>>
  BY <1>1, <1>3, EndInv DEF Error, files
<1>4. QED
  BY <1>2, <1>3 DEF Throw, Kill

LEMMA PowerLossInv ==
    ASSUME IInv, PowerLoss
    PROVE  IInv'
<1> USE DEF IInv, TypeOK, PowerLoss, End, v1files
<1>ended. \A p \in Procs : pc'[p] = "idle" /\ mine'[p] = None
  OBVIOUS
<1>entry. /\ dest' \in {dest, None} /\ (destSynced => dest' = dest)
       /\ destSynced' \in BOOLEAN /\ (destSynced' => dest' # None)
  <2>1. CASE dest' = dest /\ destSynced' = (dest # None)
    BY <2>1
  <2>2. CASE ~destSynced /\ dest' = None /\ destSynced' = destSynced
    BY <2>2
  <2>3. QED
    BY <2>1, <2>2
<1>images. /\ image' \in [Inodes -> Nat \union {Empty, Torn}] /\ imageSynced' \in [Inodes -> BOOLEAN]
           /\ \A i \in Inodes : imageSynced'[i]
           /\ \A i \in Inodes : imageSynced[i] /\ i = dest' => image'[i] = image[i]
  OBVIOUS
<1>1. TypeOK'
  <2>1. dryRun' \in [Procs -> BOOLEAN] /\ owned' \in [Procs -> BOOLEAN]
    BY Zenon
  <2>2. /\ before' \in [Procs -> 0 .. MaxSlots] /\ legacy' \in [Procs -> 0 .. MaxSlots]
        /\ mine' \in [Procs -> Inodes \union {None}] /\ pc' \in [Procs -> Pcs]
    BY BoundsAssumption DEF Pcs
  <2>3. failures' \in 0 .. MaxFailures
    BY BoundsAssumption
  <2>4. QED
    BY <1>ended, <1>entry, <1>images, <2>1, <2>2, <2>3 DEF Trying, Cleaning
<1>2. SourceInv' /\ NamesInv' /\ CopyInv'
  BY <1>ended DEF SourceInv, NamesInv, CopyInv, Outside, Trying, Cleaning, Written, Copied, Promoted
<1>3. DestInv'
  BY <1>ended, <1>entry, <1>images, InodesAssumption DEF DestInv, Unlinked, Trying, Cleaning, Copied, Promoted, None
<1>4. OneWinner' /\ NoForeignWal'
  BY <1>entry, InodesAssumption DEF OneWinner, NoForeignWal, None
<1>5. QED
  BY <1>1, <1>2, <1>3, <1>4

LEMMA V1AppendInv ==
    ASSUME IInv, V1Append
    PROVE  IInv'
<1> USE DEF IInv, TypeOK, V1Append, v1files, files, inodes, destination, locals
<1>1. TypeOK'
  BY RowsType, BoundsAssumption, InodesAssumption DEF Pcs, Outside, Trying, Cleaning, None
<1>2. SourceInv'
  BY DEF SourceInv, Outside, Trying, Cleaning, Promoted
<1>3. NamesInv'
  BY DEF NamesInv, Trying, Cleaning, Copied, Promoted
<1>4. CopyInv'
  BY DEF CopyInv, Trying, Written, Copied, Promoted
<1>5. DestInv'
  BY RowsType DEF DestInv, CopyInv, Written, Unlinked, Trying, Cleaning, Copied, Promoted, None
<1>6. OneWinner' /\ NoForeignWal'
  BY DEF OneWinner, NoForeignWal
<1>7. QED
  BY <1>1, <1>2, <1>3, <1>4, <1>5, <1>6

LEMMA EngineWritesWalInv ==
    ASSUME IInv, EngineWritesWal
    PROVE  IInv'
<1> USE DEF IInv, TypeOK, EngineWritesWal, v1files, inodes, locals
<1>1. TypeOK'
  BY RowsType, BoundsAssumption, InodesAssumption DEF Pcs, Outside, Trying, Cleaning, None
<1>2. SourceInv'
  BY DEF SourceInv, Outside, Trying, Cleaning, Promoted
<1>3. NamesInv'
  BY DEF NamesInv, Trying, Cleaning, Copied, Promoted
<1>4. CopyInv'
  BY DEF CopyInv, Trying, Written, Copied, Promoted
<1>5. DestInv'
  BY InodesAssumption DEF Outside, DestInv, CopyInv, Written, Unlinked, Trying, Cleaning, Copied, Promoted, None
<1>6. OneWinner' /\ NoForeignWal'
  BY InodesAssumption DEF OneWinner, NoForeignWal, None
<1>7. QED
  BY <1>1, <1>2, <1>3, <1>4, <1>5, <1>6

LEMMA EngineWritesDatabaseInv ==
    ASSUME IInv, EngineWritesDatabase
    PROVE  IInv'
<1> USE DEF IInv, TypeOK, EngineWritesDatabase, v1files, inodes, locals
<1>1. TypeOK'
  BY InodesAssumption DEF Engine, None
<1>2. SourceInv'
  BY DEF SourceInv, Outside, Trying, Cleaning, Promoted
<1>3. NamesInv'
  BY DEF NamesInv, Trying, Cleaning, Copied, Promoted
<1>4. CopyInv'
  BY DEF CopyInv, Trying, Written, Copied, Promoted
<1>5. DestInv'
  BY InodesAssumption DEF Engine, DestInv, CopyInv, Written, Unlinked, Trying, Cleaning, Copied, Promoted, None
<1>6. OneWinner' /\ NoForeignWal'
  BY InodesAssumption DEF OneWinner, NoForeignWal, Engine
<1>7. QED
  BY <1>1, <1>2, <1>3, <1>4, <1>5, <1>6

LEMMA InvStep == IInv /\ [Next]_vars => IInv'
<1> SUFFICES ASSUME IInv, [Next]_vars PROVE IInv'
  OBVIOUS
<1>1. CASE Next
  BY <1>1, StartInv, StepInv, ThrowInv, PowerLossInv, V1AppendInv, EngineWritesWalInv,
     EngineWritesDatabaseInv DEF Next, Failure
<1>2. CASE UNCHANGED vars
  BY <1>2 DEF vars, v1files, files, inodes, destination, locals, IInv, TypeOK, SourceInv,
              NamesInv, CopyInv, DestInv, OneWinner, NoForeignWal
<1>3. QED
  BY <1>1, <1>2

-----------------------------------------------------------------------------
(* The theorems *)

\* The inductive invariant holds in every state of every behaviour of
\* concurrent, failing and restarted migrations (main of sql_migrate_v1).
THEOREM Invariance == Spec => []IInv
BY InvInit, InvStep, PTL DEF Spec

\* The type invariant: inside the inner try block a migration holds a temporary
\* that no other one holds (main, mkstemp), for any number of migrations.
THEOREM TypeCorrect == Spec => []TypeOK
<1>1. IInv => TypeOK
  BY DEF IInv
<1>2. QED
  BY <1>1, Invariance, PTL

\* However many migrations race to one destination, at most one reports
\* success: link(2) is the only way into it (main).
THEOREM AtMostOneWinner == Spec => []OneWinner
<1>1. IInv => OneWinner
  BY DEF IInv
<1>2. QED
  BY <1>1, Invariance, PTL

\* Once the temporary is removed the destination is durable and complete,
\* through any failure (main: link, fsync, remove, fsync).
THEOREM PromotionIsDurable == Spec => []PromotionDurable
<1>1. IInv => PromotionDurable
  <2> SUFFICES ASSUME IInv PROVE PromotionDurable
    OBVIOUS
  <2>1. ASSUME NEW p \in Procs, pc[p] = "sync-again"
        PROVE  /\ dest = mine[p] /\ image[dest] = Rows(before[p])
               /\ dest \in Inodes /\ destSynced
    BY <2>1 DEF IInv, TypeOK, SourceInv, CopyInv, DestInv, Written, Promoted, Trying
  <2>2. successes > 0 \/ (\E p \in Procs : pc[p] = "sync-again") =>
           dest \in Inodes /\ destSynced /\ imageSynced[dest] /\ image[dest] \in Nat
    BY <2>1 DEF IInv, DestInv
  <2>3. QED
    BY <2>1, <2>2 DEF PromotionDurable
<1>2. QED
  BY <1>1, Invariance, PTL

\* A WAL of another table never lies beside a promoted destination (main: the
\* two existence checks).
THEOREM NoWalBesidePromotion == Spec => []NoForeignWal
<1>1. IInv => NoForeignWal
  BY DEF IInv
<1>2. QED
  BY <1>1, Invariance, PTL

-----------------------------------------------------------------------------
(* What no step may do *)

\* A migration's step, an exception in it and its end change the local
\* variables of no other migration.
LEMMA OthersKeep ==
    ASSUME TypeOK, NEW q \in Procs, NEW p \in Procs \ {q},
           Start(q) \/ Step(q) \/ Throw(q) \/ Kill(q)
    PROVE  pc'[p] = pc[p] /\ mine'[p] = mine[p]
<1> USE DEF TypeOK, Goto, SetPc, InnerThrow, Error, End, locals
<1>1. CASE Start(q) \/ ReadLegacy(q) \/ CreateTemporary(q)
  BY <1>1 DEF Start, ReadLegacy, CreateTemporary, NewTemporary
<1>2. CASE WriteWal(q) \/ WritePages(q) \/ SyncPages(q) \/ Verify(q)
  BY <1>2 DEF WriteWal, WritePages, SyncPages, Verify
<1>3. CASE Recheck(q) \/ Link(q) \/ SyncPromotion(q) \/ RemoveTemporary(q)
  BY <1>3 DEF Recheck, Link, SyncPromotion, RemoveTemporary
<1>4. CASE SyncRemoval(q) \/ CleanUp(q) \/ CleanUpWal(q) \/ Throw(q) \/ Kill(q)
  BY <1>4 DEF SyncRemoval, CleanUp, CleanUpWal, Throw, Kill
<1>5. QED
  BY <1>1, <1>2, <1>3, <1>4 DEF Step

\* The other programs change no migration's local variables.
LEMMA ProgramsKeep ==
    ASSUME V1Append \/ EngineWritesWal \/ EngineWritesDatabase \/ UNCHANGED vars
    PROVE  UNCHANGED <<pc, mine>>
BY DEF V1Append, EngineWritesWal, EngineWritesDatabase, vars, locals

\* The only way from link to sync is a link that succeeded.
LEMMA OnlyLinkPromotes ==
    ASSUME IInv, [Next]_vars, NEW p \in Procs, pc[p] = "link", pc'[p] = "sync"
    PROVE  Link(p)
<1> USE DEF IInv, TypeOK
<1>1. ASSUME NEW q \in Procs, Start(q) \/ Step(q) \/ Throw(q) \/ Kill(q)
      PROVE  q = p
  BY <1>1, OthersKeep
<1>2. ~PowerLoss
  BY DEF PowerLoss, End
<1>3. ~(V1Append \/ EngineWritesWal \/ EngineWritesDatabase \/ UNCHANGED vars)
  BY ProgramsKeep
<1>4. Start(p) \/ Step(p) \/ Throw(p) \/ Kill(p)
  BY <1>1, <1>2, <1>3 DEF Next, Failure
<1>5. ~Start(p) /\ ~Throw(p) /\ ~Kill(p)
  BY DEF Start, Throw, Kill, InnerThrow, Goto, SetPc, Error, End
<1>6. QED
  BY <1>4, <1>5 DEF Step, ReadLegacy, CreateTemporary, WriteWal, WritePages, SyncPages, Verify,
                    Recheck, SyncPromotion, RemoveTemporary, SyncRemoval, CleanUp, CleanUpWal

\* Every promotion publishes the table that was there when the migration began
\* to read it, whatever v1 programs append meanwhile (main: the three readings
\* of the source and the comparison before link).
THEOREM CheckedSourcePromoted == Spec => PromotesCheckedSource
<1>1. ASSUME IInv, [Next]_vars, NEW p \in Procs, pc[p] = "link", pc'[p] = "sync"
      PROVE  dest' = mine[p] /\ image[mine[p]] = Rows(before[p]) /\ WholeRows(before[p])
  <2>1. image[mine[p]] = Rows(before[p]) /\ WholeRows(before[p])
    BY <1>1 DEF IInv, SourceInv, CopyInv, Written, Copied, Trying
  <2>2. Link(p)
    BY <1>1, OnlyLinkPromotes
  <2>3. QED
    BY <1>1, <2>1, <2>2 DEF Link, InnerThrow, Goto, SetPc, Error, End, IInv, TypeOK
<1>2. IInv /\ [Next]_vars
        => [\A p \in Procs : pc[p] = "link" /\ pc'[p] = "sync" =>
               /\ dest' = mine[p]
               /\ image[mine[p]] = Rows(before[p])
               /\ WholeRows(before[p])]_vars
  BY <1>1
<1>3. QED
  BY <1>2, Invariance, PTL DEF Spec, PromotesCheckedSource

\* No migration replaces or removes a destination; only a power loss takes back
\* an entry that was never synced (main: link and the inner catch block).
THEOREM DestinationNeverLost == Spec => DestinationKept
<1>1. ASSUME IInv, [Next]_vars, dest # None, dest' # dest
      PROVE  ~destSynced /\ failures' # failures /\ \A p \in Procs : pc'[p] = "idle"
  <2>1. PowerLoss
    BY <1>1 DEF Next, Failure, Start, Step, ReadLegacy, CreateTemporary, WriteWal, WritePages,
         SyncPages, Verify, Recheck, Link, SyncPromotion, RemoveTemporary, SyncRemoval, CleanUp,
         CleanUpWal, Throw, Kill, V1Append, EngineWritesWal, EngineWritesDatabase, vars, files,
         destination
  <2>2. QED
    BY <1>1, <2>1 DEF PowerLoss, End, IInv, TypeOK
<1>2. IInv /\ [Next]_vars
        => [dest # None =>
              \/ dest' = dest
              \/ ~destSynced /\ failures' # failures /\ \A p \in Procs : pc'[p] = "idle"]_vars
  BY <1>1
<1>3. QED
  BY <1>2, Invariance, PTL DEF Spec, DestinationKept

\* A migration that ends by itself, with success or after an exception, leaves
\* neither its temporary nor a WAL of it (main: temporary_owned and the inner
\* catch block).
THEOREM TemporariesRemoved == Spec => NothingLeftBehind
<1>1. ASSUME IInv, [Next]_vars, NEW p \in Procs,
             mine[p] # None, mine'[p] = None, failures' = failures
      PROVE  mine[p] \notin temps' /\ mine[p] \notin wals'
  <2>1. ASSUME NEW q \in Procs, Start(q) \/ Step(q)
        PROVE  q = p
    BY <1>1, <2>1, OthersKeep DEF IInv
  <2>2. ~Failure
    BY <1>1 DEF Failure, PowerLoss, Throw, Kill, IInv, TypeOK
  <2>3. ~(V1Append \/ EngineWritesWal \/ EngineWritesDatabase \/ UNCHANGED vars)
    BY <1>1, ProgramsKeep
  <2>4. Start(p) \/ Step(p)
    BY <1>1, <2>1, <2>2, <2>3 DEF Next
  <2>5. SyncRemoval(p) \/ CleanUpWal(p)
    BY <1>1, <2>4 DEF IInv, TypeOK, NamesInv, Start, Step, ReadLegacy, CreateTemporary, WriteWal,
         WritePages, SyncPages, Verify, Recheck, Link, SyncPromotion, RemoveTemporary, CleanUp,
         Trying, Cleaning, InnerThrow, Goto, locals
  <2>6. QED
    BY <1>1, <2>5 DEF SyncRemoval, CleanUpWal, IInv, NamesInv, Promoted, files, inodes
<1>2. IInv /\ [Next]_vars
        => [\A p \in Procs :
              mine[p] # None /\ mine'[p] = None /\ failures' = failures =>
                 mine[p] \notin temps' /\ mine[p] \notin wals']_vars
  BY <1>1
<1>3. QED
  BY <1>2, Invariance, PTL DEF Spec, NothingLeftBehind
=============================================================================
