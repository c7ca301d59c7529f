# A TLA+ development of SQL in C++

The repository is a small single-user SQL engine: a command line, a parser, a
table layer, and a paged storage format with a write-ahead log. This directory
models its core, checks the models with TLC and proves with TLAPS what matters
most of storage, migration, the command line, sessions and the lists, for every
value of the constants. Line numbers below refer to the files under `src/`.

## The system

| component | state it keeps | operations | what makes it correct |
| --- | --- | --- | --- |
| Storage v2, commit and recovery (`includes/storage/storage_v2.cpp`, `page_buffer.cpp`) | `<table>.sql2`, `<table>.sql2-wal`, their directory entries | `create_table`, `insert_row`, `open_table`, `inspect`, recovery on every open and insert | statements are atomic and durable at every interruption; recovery never rolls back; fsyncs come in the right order; a repair finishes |
| Storage v2, page image (`storage_v2.cpp`) | superblock, schema, row chain, index directory, one B+ tree per field | `build_image`, `build_incremental_insert`, `parse_image` | an insert adds exactly one row and one entry per index; the dirty set is complete; no mixture of two images decodes |
| Parser (`includes/parser`) | the state table, the parse tree | `set_string`, `parse_tree` | only sentences of the grammar are accepted |
| SQL dispatch (`includes/sql`) | last table, last error | `command`, `batch` | every failure becomes an error, no line ends the session |
| Shunting yard and `Table` (`includes/shunting_yard`, `includes/table`) | operator stack; operand and record-set stacks; rows held in memory | `postfix`, `Eval`, `select`, `insert_into` | a filter selects what it means, an invalid one is refused |
| In-memory B+ tree, `Map`, `MMap` (`includes/map`) | tree of arrays, leaf chain | insert, erase, find, bounds, iterate | order, occupancy, equal depth, complete leaf chain; iteration equals the sorted contents |
| Migration (`tools/sql_migrate_v1.cpp`) | v1 files, temporary file, destination | copy, verify, promote by hard link | never replaces a destination, promotes what it checked, keeps it under a durable name, cleans up, can be retried |
| v1 record files (`includes/binary_files`) | fixed-width files | read, append | a table of incomplete rows is refused |
| Lists, queue, stack (`includes/linked_list`) | nodes on the heap, `_front`, `_rear`, `_top`, sizes | insert, delete, copy, clear; push and pop | FIFO and LIFO; no freed node is touched, nothing is shared or leaked |
| Tokenizer, command line | position in a buffer | scan; read a line and show the answer | maximal munch; every line answered |

A command line goes `run_sql` → `SQL::command` → `Parser` → `Table` → storage.
Everything is called synchronously by one process. `DESIGN.md` excludes
concurrent writers, so inside the engine the hard behaviour is not interleaving
of callers but *interruption*: a statement is some ten system calls, any of which
can fail or be the last one before a crash, and the next statement starts from
whatever is on the disk. Migrations are programs of their own, of which several
may run at once. Then come copies: a `Table` keeps the rows it loaded while the
file goes on. Last come the algorithms that edit several pages, nodes or stacks
in step. `PROJECT.json` lists the hazards at their lines.

## Modules

- `AtomicTable` is the abstract specification: a table that changes by whole
  statements. A statement may fail without the caller knowing whether it was
  applied, because that is what the engine promises and no more: the outcome is fixed
  when it fails, so that a caller who looks before retrying is not misled, while one who
  retries without looking may insert his row twice, and no property says otherwise.
- `StorageV2` is the protocol of `commit_image`, `apply_image`, `clear_wal` and
  `recover`. The position in the code is `pc`; every system call whose order
  matters is one action (`WalOpen`, `WalWritePart`, `WalWriteRest`, `WalFsync`,
  `WalDirectoryFsync`, `DbOpen`, `DbSize`, `DbTearPage`, `DbWritePage`, `DbFsync`,
  `DbDirectoryFsync`, `WalTruncate`, and the fsync of the cleared WAL in
  `Acknowledge` and `RecoverDone`). Each file has a content in the page cache
  (`walVol`, `dbVol`), one on the disk (`walDur`, `dbDur`), and a directory entry
  that is absent, cached or durable. A page cell names the statement whose image
  the page belongs to. `Throw` is any exception, `ProcessCrash` a killed process,
  `PowerLoss` the loss of the page cache: of a file not synced, each page is
  independently the old, the new, zero or torn, the WAL is empty, partial or
  either version, and an entry not synced may be gone.
- `PagedTable` is the page image: the layout of `build_image`, the insertion of
  a row into the row stream and into each B+ tree, the dirty set, and the
  decoder. Pages are records, ids count from 1, sizes are in cells. It justifies
  what `StorageV2` assumes of images: that exactly the dirty pages change
  (`DirtyPagesCoverChanges`) and that a file is valid only if all of its pages
  come from one image (`NoMixtureAccepted`).
- `SqlCommand` is one command line: the recogniser with its state table, the
  dispatch, and for SELECT the shunting yard and the evaluation of postfix. The
  cell of column 0 is both the transition on CREATE and the success flag, as in
  the code.
- `WhereMeaning` extends it by an independent meaning of WHERE clauses, against
  which the stacks are compared. Three rules make the phrases of a clause from the
  shortest up: a comparison, a group in parentheses, and two phrases joined by an
  operator that binds no tighter than they do (`Made`). A clause means what a phrase
  that spans it means (`Meanings`), and nothing if there is none.
- `BPlusTree` is the in-memory tree of `includes/map` that holds parse trees and
  field indexes. Its nodes live on a heap, so that `new`, `delete` and the chain of
  leaves are part of the model; after each operation addresses are renamed, as
  their values do not matter. `ReplaceByCopy` is what `Parser::parse_tree` and
  the next `set_string` do: copy a tree, then clear the original.
- `OrderedMap` is its abstract specification, a function from keys to the number
  of their values.
- `Migration` is the migration tool: one action per system call that matters,
  for several migrations at once (`Start` and the disjuncts of `Step`), with
  `Throw`, `Kill` and `PowerLoss` between any two, a v1 program that appends one
  fixed-width slot at a time, and the engine creating a table of the same name.
  Files are inodes, so that `link` and `remove` are what they are: the temporary
  and the destination are two names of one inode. Its result is `StorageV2`'s
  initial disk "migrated".
- `Session` composes the layers: `SQL::command` and a kept `Table` above a file
  that changes as `AtomicTable` promises, including the insertion that fails and
  was applied. It has both formats, a v1 writer, and a migration between
  statements; the index look-ups of v2 (`QueryIndex`) and of v1 (`QueryCache`), the
  three overloads of `select`, projections, the print queue, and what `run_sql`
  shows. Here `Table` may be stale; in `SQL` it is opened for each statement.
- `LinkedList` is the list functions and the `Queue` and `Stack` on a heap of nodes.
  `new` returns some node that is not allocated (`Fresh`), and a freed node keeps
  its contents and may be handed out again at once, to any container; every
  pointer read, written or freed while its node is not allocated is recorded in
  `heap.wild`.
- `Containers` is its abstract specification, independent sequences.
- `MCStorageV2`, `MCPagedTable`, `MCSqlCommand`, `MCBPlusTree`, `MCMigration`,
  `MCSession` and `MCLinkedList` are the roots of the runs.
- `StorageV2_proofs`, `PagedTable_proofs`, `Migration_proofs`, `Session_proofs`,
  `SqlCommand_proofs`, `WhereMeaning_proofs` and `LinkedList_proofs` hold the theorems, and
  `InductionOnSets` facts about induction and recursion they share.

Operators marked `MUTANT` are plausible bugs; substituting one for the
definition after it breaks the property named for it in `PROJECT.json`.

## Runs

| run | what it shows | bounds |
| --- | --- | --- |
| `storage_cache` | Atomicity (refinement of `AtomicTable`), acknowledged statements survive, a torn file always has its WAL, the code never creates a stale WAL: with process crashes and failing calls anywhere | 3 pages, 3 statements, all three initial disks |
| `storage_power` | Atomicity, durability of what was acknowledged and the order of the fsyncs: with power losses anywhere. Every statement ends; opening the table again and again clears a complete WAL once the losses stop | 3 pages, 2 statements, all three initial disks |
| `paged_image` | Two indexes grown to three levels and the row chain taking turns in one file, from an empty and from a built image: rows and indexes exact, dirty set complete, every mixture refused | 5 rows of 4 kinds, 3 keys of two lengths, 2 fields, 4 cells to a payload |
| `bplustree_map` | Insertions, appended values, erasures, copies and clearings in every order: an ordered map (refinement of `OrderedMap`), well formed, its leaf chain complete, no node leaked, shared or dangling | 6 keys, one with up to 1 value |
| `where_answers` | Every WHERE clause with a meaning selects it; unknown fields are refused; no clause is answered unfiltered | 13 tokens after `where`, 4 parentheses |
| `session_answers` | SQL selects and shows exactly the rows meant of the table the files hold, whatever went before, and prints them unless a field is named twice; a kept `Table` answers a filter exactly or throws, and its copy departs from the file in one way only | 3 rows of 3 kinds, 2 fields, all six comparisons, conjunctions and disjunctions, one projection that names a field twice |
| `migration_race` | One of two migrations wins; what it promotes is what it checked, durable before the temporary goes; no destination is replaced; nothing is left behind; every migration ends and retries succeed | 2 migrations, one failure of any kind, 2 slots of 2 to a row |
| `lists_heap` | Queues, stacks and lists are sequences of their own (refinement of `Containers`); no freed node is used, shared or leaked | 2 queues, 2 stacks, 1 list, 4 nodes, at most 3 of them in use when an element is added (`MaxGrown`), 2 items; queues, stacks and items are only compared for equality, so the run takes them as symmetric |
| `recovery_unsynced_wal`, `recovery_unsynced_entry`, `where_create_unfiltered`, `where_malformed_answered` | disagreements between documents and code, below | smallest that show them |

Why the bounds are enough. Three statements cover create, an insert, and an
insert over an interrupted one, and an initial disk with a stale WAL brings two
more. With three pages an image has a first, an inner and an appended page, and
each may be dirty or not; nothing in the protocol distinguishes further pages.
Two long separators, and so at least three children, fit a node of four cells,
which is the only relation between sizes the splits rely on (`PayloadAssumption`;
the code has 4056 bytes for separators of at most 114). Five long keys reach the
third level. Keys have two lengths, in the proportion 1 to 2, while entries of a leaf
have 10 to 110 bytes in the code, and a split halves their number and not their
bytes: TLC says nothing of larger proportions. Both halves fit there because a leaf
that overflows has at least 37 entries; each half then has at least 18, of 180 bytes
or more, which leaves the other less than the page it exceeded by at most 110. A model of
so many entries is out of TLC's reach. A row of three cells may fill a row page that
was begun, so that some inserts write in place and others append several pages.

Six keys give the in-memory tree (two items to a node) three levels,
and TLC's coverage shows every transfer and merge of leaves and of internal nodes;
one value is enough to tell a current item from a stale copy of it. One field and
two values distinguish a filter that selects something from one that selects
nothing, and three comparisons distinguish the two ways of grouping them.

Two migrations race at every step, and a third could only do what one of them
does after a restart. With one slot of two the source has an incomplete row, and
a writer can complete it between any two reads. Five inodes serve one failure
without running out (`MCMigration`). In `Session` three rows let a copy miss a row
and then number another one wrongly, and the two fields order the rows
differently; a projection names one field twice. Three nodes give lists an inner
node, which every position of an insertion or deletion needs, and leave the heap so
small that every freed node is soon another container's. An element is added only while
fewer than `MaxGrown` nodes are in use (`Grows`), so that the fourth node is left for
copies and assignments, and lists of two nodes are copied: `_copy_list` then goes once
through its loop. Copies of lists of any length are covered by the proofs only.
The `.cfg` files give the values.

Deadlock is checked in the storage, `BPlusTree`, `Migration`, `Session` and
`LinkedList` runs: in every state they reach some step is possible, since a table
can always be opened, a key erased, a migration started or a list cleared. It is
not checked in the `PagedTable` and `SqlCommand` runs, which stop where they
should: at the bound on the rows, and at the end of the command line.

Fairness. `storage_power` assumes weak fairness of the steps of a statement that
was begun (`Step`), `migration_race` of the steps of each migration that was
started: the process is scheduled, and system calls return. It is justified
because neither waits for anybody. Nothing is assumed of users or of failures;
`RetriesRepair` and `RetryPromotes` state both as hypotheses.

What the environment is assumed to do. The engine is the only writer of a v2
table (`DESIGN.md`): `Migration` lets it create a table of the destination's name
at any time but between a migration's existence check and its promotion, which
nothing in the code would prevent. v1 writers only append. `mkstemp` never
returns a name twice. A migration may report an error after its promotion; the
destination is then complete, and rows appended after the last reading of the
source are not in it. In `Session` statements arrive parsed, and the
tables that `select` returns are only printed. Containers are
not popped, indexed or iterated over while empty; `end()` of an empty queue would
dereference null, and all callers ask first.

## Disagreements found

1. **Recovery writes pages from a WAL that was never synced**
   (`recovery_unsynced_wal`). After a process crash between the write and the
   fsync of the WAL the next open applies and clears it. `docs/storage-v2.md:76`
   excludes this. A power loss during that recovery can leave a torn database
   without a WAL. This is why the safety theorems do not combine power losses
   with process crashes or failing calls.
2. **A directory entry that is never synced** (`recovery_unsynced_entry`).
   `first_creation` is false in a recovery that completes an interrupted
   creation, so later acknowledged inserts live in a file whose entry a power
   loss may remove (`docs/storage-v2.md:197`). The same holds of the WAL's entry
   after a crash right after it was created.
3. **`select * from t where create` returns every row**
   (`where_create_unfiltered`), against `DESIGN.md:15`.
4. **Misplaced parentheses are answered** (`where_malformed_answered`), against
   `DESIGN.md:14`; for instance `where x = 1 or a = 1 ( and b = 2 )`.

The cell behind finding 3 also accepts `create create`, and `SQL::command` then
reads an element of an empty vector; the outcome is undefined, and the model
calls it `crash`. That both happen only by way of `create` in column 0 is proved
(below).

## Proofs

`StorageV2_proofs` proves, for every number of pages and statements:

- `TypeCorrect`: `Spec => []TypeOK`, in every failure model.
- `Invariance`: an inductive invariant `IInv`, when power losses do not occur
  together with process crashes or failing calls (`FailureModel`; by finding 1
  it would be false without this).
- `AcknowledgedStatementsSurvive`, `TornDatabaseHasWal` and
  `TableNeverRolledBack` from `IInv`.
- `WalPrecedesPages` and `AcknowledgedIsOnDisk` when only power losses occur
  (`PowerOnly`).

The safety properties are not inductive: that a torn file has a complete WAL
holds after `WalTruncate` only because the pages were complete before it. `IInv`
therefore records, for each position in the code, what is known of the four
file contents (`ControlInv`, `WalInv`, `PagesInv`, `PowerInv`), what images
contain (`ImagesInv`), that the image being written extends what it replaces
(`ExtendsInv`) and that generations grow with the rows (`GenerationInv`). Its
proof has one lemma per action. The properties follow from `IInv` and, for the
action properties, from one case per action that changes the table. The
assumptions on the constants are those of `StorageV2`, which every storage run
evaluates.

It also proves, in the same failure models, `ImplementsAtomicTable`
(`Spec => Refinement`: each system call, error, crash or power loss is a whole
statement of `AtomicTable` or nothing) and `WalNeverMadeStale` (`NeverMadeStale`).
The mapping needs a little beyond `IInv` (`AtomicInv`): which statement is running,
that the row an image adds is its last, and that `CREATE` prepares an image only
where there is no database.

`PagedTable_proofs` proves, for every page capacity, set of keys of which any may be the
long ones, number of fields and number of rows:

- `RowsAlwaysStored`, `Spec => []RowsStored`: what `parse_image` reads along the chain
  of row pages is exactly the rows inserted, and the superblock counts them; a
  refused insert leaves the table it found.
- `IndexesDescend`, `Spec => []NodesDescend`: the level check of
  `validate_index_node` holds in every committed image.
- `DirtyPagesComplete`, `Spec => DirtyPagesCoverChanges`: what an insert reports dirty
  is all that differs, page 0 and the head of the rows are always among it, and no
  page is dropped. `WalWrite` and the page writes of `StorageV2` rest on this, as the
  WAL holds only the dirty pages.

The run checks the first two as conjuncts of `EveryRowStored`. `IInv` says that the
image holds the committed rows (`Holds`): the superblock is in place, the directory
lists roots that are index nodes, the row pages are a chain of increasing ids from
page 3 whose cells are the stream of the table, and the image is `Closed`: every
pointer of an index node is to a node of the right level. `RowsStored` by itself is
not inductive, because an insert writes index nodes in place: that a split cannot
land on a row page needs the levels (`IndexKeeps`). The row stream is followed through
its encoding (`DecodeStream`, `StreamAppend`), the cut into pages (`ChainHolds`), the
room of the last page and the pages added (`Filled`, `ChainFills`) and the count on the
first page (`CountKeeps`). `InsertHolds` is the step, `BuiltHolds` the image that
`build_image` makes, level by level (`LeavesRaised`, `LevelRaised`). For the dirty
pages each operation on an image covers its changes (`LeafCovers`, `ChildCovers`,
`CellsCover`), and covering composes (`CoversTwice`) up the recursion of `insert_index_entry`
(`InsertCovers`), along the fields (`InsertedCovers`) and with the row stream
(`RowCovers`). The definitions recurse as functions, whose existence is proved first
by an induction on how far they are defined (`InsertionsExist` and its like). The
assumptions are `FieldsAssumption`, `PayloadAssumption` and `RowsAssumption`.

`Migration_proofs` proves, for every number of migrations, inodes, slots and
failures, the safety properties of `Migration_race`: `TypeCorrect`,
`AtMostOneWinner`, `PromotionIsDurable`, `NoWalBesidePromotion`,
`CheckedSourcePromoted`, `DestinationNeverLost` and `TemporariesRemoved`. `IInv`
says, for each position in `main`, how the readings of the growing source compare
(`SourceInv`), which names the migration still owns (`NamesInv`), that its copy is
complete and synced (`CopyInv`), and whose inode the destination is and since when
it is durable (`DestInv`). That one migration does not disturb another is a
lemma (`OthersKeep`). The processes, inodes and starting files are arbitrary sets;
the assumptions are `FieldCountAssumption`, `BoundsAssumption` and
`InodesAssumption`.

`SqlCommand_proofs` proves, for every vocabulary and table and for lines of any
length, the invariant of a command line, from which:

- `UnfilteredOnlyByCreate`: a `SELECT` whose `WHERE` clause is not evaluated has the
  keyword `create` after the keyword `where`; and `WhereAlwaysFilters`:
  `Spec => []NeverUnfiltered` over a vocabulary without `create`. The cell behind
  finding 3 is the only way to an unfiltered answer in the model.
- `CrashOnlyByCreate`: `SQL::command` takes an element of an empty vector only if
  `create` stands in the line where it is not the first word.
- `TypeCorrect`.

Nothing but `create` leads out of the states of a `WHERE` clause, and its success
states are reached only over a relational operator, which the parse tree keeps
(`ClauseInv`, `WhereInv`, `NamesInv`); the shunting yard loses no relational
operator (`YardsKeep`, `PostfixFacts`), so there is something to evaluate. The runs
fix the words before `where` to keep TLC's lines short (`Filtering`); the proofs
cover `Filtering = FALSE`, where a line is of any command, as well. They use
`BoundsAssumption` only.

`WhereMeaning_proofs` proves `WellFormedClausesAnswered`, `Spec => []WellFormedAnswered`:
a well-formed clause of any length and nesting, over any vocabulary, fields and
values, is answered with exactly what it means. TLC compares clauses of at most
three comparisons; the theorem has no bound. Its two hypotheses are that the table's
name is an identifier (`SQL::command` creates no other) and `PlainQuotes`: no text in
double quotes reads as an operator, a parenthesis or `where`. The second cannot be
dropped: `a = "and"` means something and is refused, because
`allocate_tokens_memory` and the parse tree go by the text alone (a listed hazard).
The argument has three parts.

- The phrases of a clause are made by rules, so that what every rule keeps holds of
  all of them (`PhraseInduction`), however deep they nest.
- The shunting yard converts a phrase (`Converted`): it writes a postfix that, followed by
  the operators the phrase left on the stack, pushes the phrase's meaning; those
  operators bind as tightly as the phrase or tighter. One lemma for each rule
  (`ConvertComparison`, `ConvertGroup`, `ConvertJoin`), which use what one step of the
  yard pops (`ShuntOne`, `ShuntLogical`, `ShuntClose`) and that `Eval` takes a postfix
  token by token and in one way (`EvaluatesOne`, `EvaluatesOnce`).
- The recogniser reads a phrase without leaving the states of a WHERE clause and ends
  in a success state (`Reads`), so the parse tree keeps the clause word for word
  (`ClauseKept`). That the tree is what the tokens consumed make of the empty one, and
  the answer what the tree asks for, is the invariant `LineInv` (`LinesKept`), which
  strengthens `SqlCommand_proofs`' `IInv`.

`Session_proofs` proves every property of `session_answers`, for every schema, set of
rows, projections and filters and every bound on the rows:

- `StatementsAnswerTheFile`: `Spec => []SqlAnswersFile`;
- `FiltersExactOrRefused`: `Spec => []FilterExactOrRefused`;
- `CopyDivergence` (`CopyDivergesByInsert`), `TypeCorrect`, and `TablesWellFormed`.

A reply cannot be judged by a later table, so the invariant says what it is: `IInv`
is `TablesOK`, that the copy is no longer than the file (`CopyBounded`), and that the
last reply is one of six kinds, each of the rows as they are (`Justified`). What
each kind shows is the greater part of the proof. All of it rests on one fact: a
finite set has exactly one sequence in a strict order (`ArrangementExists`,
`ArrangementUnique`, so `ArrangedIs`). From it: what is picked from a sorted sequence
is sorted (`PickedArranged`, the scan of the persistent index), sorted blocks in
their order are sorted (`FlattenArranged`, the lists of the in-memory index),
therefore both indexes give the same answer (`QueryIndexMeans`, `QueryCacheMeans`)
and `Eval` the meaning of the clause (`SelectedMeans`); sorting the named fields by
their position picks them from the schema (`PermutateFieldsIs`); and cells in lines
as long as the header are the rows again (`FlattenRows`, `PrintedIs`). The
assumptions are those of `Session`: rows as long as the schema, a schema without
repeated fields, clauses of at most two comparisons, and any projections. A field named
twice is part of them: `validate_projection` accepts it, the header then names it twice
and the rows hold it once, and the printer cuts lines as long as the header.
`SqlAnswersFile` says so: the records selected and the cells gathered are those meant
whatever is named, and the printed lines are the rows if no field is named twice or at
most one row is selected, and in no other case (`PrintedRows`).

`LinkedList_proofs` proves, for every heap and every set of queues, stacks and
lists, `NoPointerMisused` (`NoFault`), `NodesHaveOneOwner`, `BackLinksAgree`,
`EditsLandInPlace` and `ImplementsContainers` (the refinement of `Containers`). `IInv`
says that every container is a chain of distinct allocated nodes from its front
to null whose contents and back links agree with it (`Linked`), that each node is
in one container, and that rears and sizes are right. There is one lemma for
what each list function does to a chain, and one for each operation; the copy of
a list of any length is by induction on what is still to be copied. The
assumptions are `NodesAssumption`, `MaxGrownAssumption` and `ObjectsAssumption`.

`InductionOnSets` derives from the well-foundedness of `<` the form of induction
these proofs use, about a set of naturals instead of an operator, and the
existence of functions defined by recursion over naturals.

Only model-checked:

- liveness (`StatementsEnd`, `RetriesRepair`, `MigrationsEnd`, `RetryPromotes`), which
  needs fairness and `ENABLED`. A refusal is an end for `StatementsEnd`: a partial WAL
  blocks every later statement until somebody removes it, as `docs/storage-v2.md:173`
  says, and no property promises more. That nothing is lost while it blocks is safety:
  the database beside a partial WAL is whole (`TornOnlyUnderWal`) and holds what was
  acknowledged (`AcknowledgedSurvive`);
- what `EveryRowStored` of `PagedTable` says beyond the two theorems, that no insert is
  refused and that each index holds every record once and in order, and
  `NoMixtureAccepted`: they need the order and the separators of every node of the
  tree as an invariant, and what `Node` computes of it, which is an induction over
  the tree;
- `BPlusTree`, whose node operations are `RECURSIVE`.

## Not modelled, and why

Bytes: CRC32, codecs and padding are abstracted; a checksum is assumed to
detect a torn page and a partial WAL. `PageBuffer` only validates its
arguments. `initialize_owned_empty_file` appears as the initial disk "migrated" and
as three steps of `Migration`. The schema chain is one page, as no insert touches
it. `SqlCommand` has one comparison, as `<`, `<=`, `>` and `>=` differ from `=` only in
the records they select; `Session` has all six. The tokenizer is a scanner over
bytes that keeps no state between lines, and the file tokenizer has no caller.
Terminal input, `--version` and `--inspect-storage` are input and output around
the models (`inspect` itself is in `StorageV2`). Debug printing and the
`is_valid` functions of the containers are left out.

## Plan

1. Done: `AtomicTable`, `StorageV2` with its proofs, `PagedTable`, `SqlCommand`,
   `OrderedMap`, `BPlusTree`, `Migration`, `Session`, `Containers`, `LinkedList`.
2. Proofs. Done: the safety of `StorageV2`, `Migration`, `SqlCommand` and `LinkedList`,
   `Session`, that a well-formed clause is answered with its meaning, the rows stored,
   the levels of the index nodes and the dirty pages of `PagedTable`, and the
   refinements of `AtomicTable` and `Containers`. Left: that the indexes of
   `PagedTable` hold every record once and in order, and the descent and the splits
   of `BPlusTree` as recursive functions, with `WellFormed` and `NodesOwnedOnce`
   proved of them.
3. Quoted words in `SqlCommand` (a quoted `and`, `(` or `where` is reclassified by its
   text).
