----------------------------- MODULE PagedTable -----------------------------
(***************************************************************************)
(* The page image of includes/storage/storage_v2.cpp: how build_image lays *)
(* a table out, how build_incremental_insert edits a row stream and one    *)
(* B+ tree per field in place, which pages it reports dirty, and what      *)
(* parse_image accepts.  StorageV2 abstracts an image to the statement     *)
(* that built it; this module justifies that: an insert always yields an   *)
(* image that decodes to the table with the row added, the dirty pages are *)
(* all that differ, and no mixture of the old and the new pages decodes.   *)
(*                                                                         *)
(* Page ids count from 1, so page p of the code is pages[p + 1] and 0 is   *)
(* NO_PAGE.  Keys are numbers in the order of the strings they stand for.  *)
(* Payload sizes are in cells: a long key takes twice the room of a short  *)
(* one in a node, and the payload holds few enough of them to split.       *)
(***************************************************************************)
EXTENDS Integers, Sequences, SequencesExt, FiniteSets

CONSTANTS
    Keys,             \* the values a field can hold
    LongKeys,         \* those whose encoding takes two cells
    FieldCount,       \* fields of the table, each with its own index
    Rows,             \* the rows a statement may insert
    PayloadCells,     \* PAGE_PAYLOAD_SIZE without the node header
    BuiltSizes,       \* numbers of rows build_image may be given
    MaxRows           \* bound on the rows of the table

ASSUME KeysAssumption == Keys \subseteq Nat /\ LongKeys \subseteq Keys
ASSUME FieldsAssumption == FieldCount \in Nat \ {0}
\* Two of the longest separators fit in a node (2 * 114 of 4056 bytes).
ASSUME PayloadAssumption == PayloadCells \in Nat /\ PayloadCells >= 4
ASSUME RowsAssumption ==
    /\ Rows \subseteq [1 .. FieldCount -> Keys]
    /\ MaxRows \in Nat /\ BuiltSizes \subseteq 0 .. MaxRows

Fields == 1 .. FieldCount
NoPage == 0

VARIABLES
    rows,       \* the table the image should hold
    pages,      \* the committed image
    dirty,      \* IncrementalImage::dirty_pages of the last insert
    refused     \* did an insert of a legal row throw?

vars == <<rows, pages, dirty, refused>>

-----------------------------------------------------------------------------
(* Entries and sizes *)

\* std::pair<key, record>, compared lexicographically.
Entry(key, record) == [key |-> key, record |-> record]
Precedes(a, b) == a.key < b.key \/ (a.key = b.key /\ a.record < b.record)
Sorted(entries) == \A i \in 1 .. Len(entries) - 1 : ~Precedes(entries[i + 1], entries[i])

KeyCells(key) == IF key \in LongKeys THEN 2 ELSE 1
\* The room that the first n of some keys take.
CellsOf(keys, n) ==
    LET cells[i \in 0 .. n] == IF i = 0 THEN 0 ELSE cells[i - 1] + KeyCells(keys[i])
    IN  cells[n]
NodeCells(entries) == CellsOf([i \in DOMAIN entries |-> entries[i].key], Len(entries))
Fits(entries) == NodeCells(entries) <= PayloadCells

\* The longest prefix of a sequence of entries that fits in one node.
FittingPrefix(entries) ==
    CHOOSE n \in 0 .. Len(entries) :
        /\ Fits(SubSeq(entries, 1, n))
        /\ n = Len(entries) \/ ~Fits(SubSeq(entries, 1, n + 1))

Leaf(previous, next, entries) ==
    [type |-> "leaf", next |-> next, previous |-> previous, entries |-> entries]
Internal(level, separators, children) ==
    [type |-> "internal", next |-> NoPage, level |-> level,
     separators |-> separators, children |-> children]
RowPage(next, cells) == [type |-> "rows", next |-> next, cells |-> cells]
Directory(roots) == [type |-> "directory", next |-> NoPage, roots |-> roots]
Schema == [type |-> "schema", next |-> NoPage, fields |-> FieldCount]
Superblock(generation, pageCount, directory, rowCount) ==
    [type |-> "superblock", next |-> NoPage, generation |-> generation,
     pageCount |-> pageCount, schema |-> 2, rowsHead |-> 3,
     directory |-> directory, rowCount |-> rowCount]

-----------------------------------------------------------------------------
(* The row stream: a count, then every row's cells *)

CountCell(n) == [part |-> 0, of |-> <<n>>]
RowCells(row) == 1 + CellsOf(row, FieldCount)
EncodeRow(row) == [i \in 1 .. RowCells(row) |-> [part |-> i, of |-> row]]
RowStream(table) ==
    <<CountCell(Len(table))>> \o FlattenSeq([r \in DOMAIN table |-> EncodeRow(table[r])])

DecodeRows(cells) ==
    FlattenSeq([i \in DOMAIN cells |->
                   IF cells[i].part = 1 THEN <<cells[i].of>> ELSE <<>>])

\* add_chain: the stream cut into full payloads, linked from page `first' on.
AddChain(first, cells) ==
    LET count == (Len(cells) + PayloadCells - 1) \div PayloadCells
        Cut(i) == SubSeq(cells, (i - 1) * PayloadCells + 1,
                         IF i < count THEN i * PayloadCells ELSE Len(cells))
    IN  [i \in 1 .. count |-> RowPage(IF i < count THEN first + i ELSE NoPage, Cut(i))]

-----------------------------------------------------------------------------
(* build_index: an index packed from sorted entries *)

\* One leaf: as many of the entries left as fit.
PackLeaf(packed) ==
    LET n == FittingPrefix(packed.left)
    IN  IF packed.left = <<>> THEN packed
        ELSE [leaves |-> Append(packed.leaves, SubSeq(packed.left, 1, n)),
              left   |-> SubSeq(packed.left, n + 1, Len(packed.left))]

PackLeaves(entries) ==
    LET packed[k \in 0 .. Len(entries)] ==
            IF k = 0 THEN [leaves |-> <<>>, left |-> entries] ELSE PackLeaf(packed[k - 1])
    IN  packed[Len(entries)].leaves

\* Children of one parent: as many as fit, but never leave a single one over.
GroupSize(minima) ==
    LET fitting == 1 + FittingPrefix(Tail(minima))
    IN  IF Len(minima) - fitting = 1 /\ fitting > 2 THEN fitting - 1 ELSE fitting

\* One parent, of the nodes left: their ids and the least entry under each.
PackParent(up, level) ==
    LET n == GroupSize(up.left)
    IN  IF up.ids = <<>> THEN up
        ELSE [nodes  |-> Append(up.nodes, Internal(level, Tail(SubSeq(up.left, 1, n)),
                                                   SubSeq(up.ids, 1, n))),
              minima |-> Append(up.minima, up.left[1]),
              ids    |-> SubSeq(up.ids, n + 1, Len(up.ids)),
              left   |-> SubSeq(up.left, n + 1, Len(up.left))]

PackParents(level, ids, minima) ==
    LET up[k \in 0 .. Len(ids)] ==
            IF k = 0 THEN [nodes |-> <<>>, minima |-> <<>>, ids |-> ids, left |-> minima]
            ELSE PackParent(up[k - 1], level)
    IN  up[Len(ids)]

WithParents(built, up) ==
    [pages  |-> built.pages \o up.nodes,
     level  |-> built.level + 1,
     ids    |-> [i \in DOMAIN up.nodes |-> Len(built.pages) + i],
     minima |-> up.minima]

\* One level of parents, until a level has one node.
RaiseLevel(built) ==
    IF Len(built.ids) = 1 THEN built
    ELSE WithParents(built, PackParents(built.level, built.ids, built.minima))

Leaves(image, packed) ==
    LET Id(i) == IF i \in DOMAIN packed THEN Len(image) + i ELSE NoPage
    IN  [i \in DOMAIN packed |-> Leaf(Id(i - 1), Id(i + 1), packed[i])]

WithLeaves(image, packed) ==
    [pages  |-> image \o Leaves(image, packed), level |-> 1,
     ids    |-> [i \in DOMAIN packed |-> Len(image) + i],
     minima |-> [i \in DOMAIN packed |-> packed[i][1]]]

BuildLevels(image, packed, height) ==
    LET built[k \in 0 .. height] ==
            IF k = 0 THEN WithLeaves(image, packed) ELSE RaiseLevel(built[k - 1])
    IN  built[height]

\* A tree has fewer levels than entries.
BuildIndex(image, entries) ==
    LET done == BuildLevels(image, PackLeaves(entries), Len(entries))
    IN  IF entries = <<>> THEN [pages |-> image, root |-> NoPage]
        ELSE [pages |-> done.pages, root |-> done.ids[1]]

\* The entries of a field, sorted.
EntriesOf(table, field) ==
    LET entries == {Entry(table[r][field], r) : r \in DOMAIN table}
    IN  [i \in 1 .. Len(table) |->
            CHOOSE e \in entries : Cardinality({d \in entries : Precedes(d, e)}) = i - 1]

AddRoot(roots, index) == [pages |-> index.pages, roots |-> Append(roots, index.root)]

\* The index of every field, after the pages `start'.
BuildIndexes(start, table) ==
    LET built[f \in 0 .. FieldCount] ==
            IF f = 0 THEN [pages |-> start, roots |-> <<>>]
            ELSE AddRoot(built[f - 1].roots,
                         BuildIndex(built[f - 1].pages, EntriesOf(table, f)))
    IN  built[FieldCount]

\* The directory and the superblock are filled in at the end.
Finish(built, directory, generation, rowCount) ==
    [built.pages EXCEPT
        ![directory] = Directory(built.roots),
        ![1] = Superblock(generation, Len(built.pages), directory, rowCount)]

BuildImage(table, generation) ==
    LET stream == AddChain(3, RowStream(table))
        start  == <<Schema, Schema>> \o stream \o <<Directory(<<>>)>>
    IN  Finish(BuildIndexes(start, table), 3 + Len(stream), generation, Len(table))

-----------------------------------------------------------------------------
(* parse_image: what the decoder accepts *)

\* read_chain: page ids from `head' on, ending with NoPage or with the id that is
\* outside the file, of another type or already in the chain.
Chain(image, head, type) ==
    LET chain[k \in 0 .. Len(image)] ==
            IF k = 0 THEN <<head>>
            ELSE LET ids == chain[k - 1]
                     id  == Last(ids)
                 IN  IF id \notin DOMAIN image \ ToSet(Front(ids)) \/ image[id].type # type
                     THEN ids ELSE Append(ids, image[id].next)
    IN  chain[Len(image)]

\* validate_index_node.
BadNode == [ok |-> FALSE, level |-> 0, entries |-> <<>>, leaves |-> <<>>, owned |-> <<>>]

LeafNode(id, entries) ==
    [ok |-> entries # <<>> /\ Sorted(entries), level |-> 0,
     entries |-> entries, leaves |-> <<id>>, owned |-> <<id>>]

InternalNode(id, page, kids) ==
    LET All(Part(_)) == FlattenSeq([c \in DOMAIN kids |-> Part(kids[c])])
        entries == All(LAMBDA kid : kid.entries)
    IN  [ok |-> /\ page.separators # <<>>
                /\ \A c \in DOMAIN kids : kids[c].ok /\ kids[c].level + 1 = page.level
                /\ \A c \in DOMAIN page.separators :
                      page.separators[c] = kids[c + 1].entries[1]
                /\ Sorted(entries),
         level |-> page.level,
         entries |-> entries,
         leaves |-> All(LAMBDA kid : kid.leaves),
         owned |-> <<id>> \o All(LAMBDA kid : kid.owned)]

\* `active' holds the nodes above, so that a cycle ends.
Node(image, root) ==
    LET node[id \in Nat, active \in SUBSET DOMAIN image] ==
            IF id \notin DOMAIN image \ active THEN BadNode
            ELSE IF image[id].type = "leaf" THEN LeafNode(id, image[id].entries)
            ELSE IF image[id].type = "internal"
                 THEN InternalNode(id, image[id],
                          [c \in DOMAIN image[id].children |->
                              node[image[id].children[c], active \union {id}]])
            ELSE BadNode
    IN  node[root, {}]

SiblingsLinked(image, leaves) ==
    \A i \in DOMAIN leaves :
        /\ image[leaves[i]].previous = (IF i = 1 THEN NoPage ELSE leaves[i - 1])
        /\ image[leaves[i]].next = (IF i = Len(leaves) THEN NoPage ELSE leaves[i + 1])

IndexMatches(image, root, table, field) ==
    IF root = NoPage THEN table = <<>>
    ELSE LET node == Node(image, root)
         IN  /\ node.ok
             /\ Len(node.entries) = Len(table)
             /\ SiblingsLinked(image, node.leaves)
             /\ ToSet(node.entries) = {Entry(table[r][field], r) : r \in DOMAIN table}

StoredCells(image) ==
    LET chain == Chain(image, image[1].rowsHead, "rows")
    IN  FlattenSeq([i \in 1 .. Len(chain) - 1 |-> image[chain[i]].cells])

StoredRows(image) == DecodeRows(StoredCells(image))

IndexPages(image, root) == IF root = NoPage THEN <<>> ELSE Node(image, root).owned

\* MUTANT: parse_image without the comparison of the row count.
AcceptsAnyRowCount(image) ==
    /\ image[1].type = "superblock"
    /\ image[1].pageCount = Len(image)
    /\ \A p \in DOMAIN image : image[p].type # "hole"
    /\ image[image[1].directory].type = "directory"
    /\ LET super == image[1]
           roots == image[super.directory].roots
           chain == Chain(image, super.rowsHead, "rows")
           table == StoredRows(image)
           owned == <<1, super.schema, super.directory>> \o Front(chain)
                    \o FlattenSeq([f \in Fields |-> IndexPages(image, roots[f])])
       IN  /\ Last(chain) = NoPage
           /\ StoredCells(image) = RowStream(table)
           /\ \A field \in Fields : IndexMatches(image, roots[field], table, field)
           /\ Len(owned) = Len(image) /\ ToSet(owned) = DOMAIN image

Accepts(image) ==
    /\ image[1].type = "superblock"
    /\ image[1].pageCount = Len(image)
    /\ \A p \in DOMAIN image : image[p].type # "hole"
    /\ image[image[1].directory].type = "directory"
    /\ LET super == image[1]
           roots == image[super.directory].roots
           chain == Chain(image, super.rowsHead, "rows")
           table == StoredRows(image)
           owned == <<1, super.schema, super.directory>> \o Front(chain)
                    \o FlattenSeq([f \in Fields |-> IndexPages(image, roots[f])])
       IN  /\ Last(chain) = NoPage
           /\ StoredCells(image) = RowStream(table)
           /\ super.rowCount = Len(table)
           /\ \A field \in Fields : IndexMatches(image, roots[field], table, field)
           /\ Len(owned) = Len(image) /\ ToSet(owned) = DOMAIN image

-----------------------------------------------------------------------------
(* insert_index_entry *)

\* std::lower_bound and std::upper_bound in a sorted sequence, from 0.
LowerBound(entries, entry) == Cardinality({i \in DOMAIN entries : Precedes(entries[i], entry)})
UpperBound(entries, entry) == Cardinality({i \in DOMAIN entries : ~Precedes(entry, entries[i])})

NoSplit == [separator |-> Entry(0, 0), right |-> NoPage]

\* The leaf that followed a split one now follows the new right half.
RelinkNext(image, next, right) ==
    IF next = NoPage THEN image ELSE [image EXCEPT ![next].previous = right]

\* MUTANT: the relinked leaf is not reported dirty.
SplitDirtyForgetsNext(id, right, next) == {id, right}

SplitDirty(id, right, next) == {id, right, next} \ {NoPage}

InsertIntoLeaf(image, id, entry) ==
    LET leaf    == image[id]
        entries == InsertAt(leaf.entries, 1 + LowerBound(leaf.entries, entry), entry)
        half    == Len(entries) \div 2
        right   == Len(image) + 1
        upper   == SubSeq(entries, half + 1, Len(entries))
        halved  == Append([image EXCEPT ![id] =
                              Leaf(leaf.previous, right, SubSeq(entries, 1, half))],
                          Leaf(id, leaf.next, upper))
    IN  IF Fits(entries)
        THEN [pages |-> [image EXCEPT ![id].entries = entries],
              dirty |-> {id}, split |-> NoSplit]
        ELSE [pages |-> RelinkNext(halved, leaf.next, right),
              dirty |-> SplitDirty(id, right, leaf.next),
              split |-> [separator |-> upper[1], right |-> right]]

\* MUTANT: the promoted separator is the one after the right one.
SplitInternalOffByOne(level, separators, children) ==
    LET half == Len(children) \div 2
    IN  [left     |-> Internal(level, SubSeq(separators, 1, half - 1), SubSeq(children, 1, half)),
         right    |-> Internal(level, SubSeq(separators, half + 1, Len(separators)),
                               SubSeq(children, half + 1, Len(children))),
         promoted |-> separators[half + 1]]

\* An overfull internal node halved; the separator between the halves moves up.
SplitInternal(level, separators, children) ==
    LET half == Len(children) \div 2
    IN  [left     |-> Internal(level, SubSeq(separators, 1, half - 1), SubSeq(children, 1, half)),
         right    |-> Internal(level, SubSeq(separators, half + 1, Len(separators)),
                               SubSeq(children, half + 1, Len(children))),
         promoted |-> separators[half]]

\* Replace a child that split by its two halves.
AddChild(image, id, child, split) ==
    LET node       == image[id]
        separators == InsertAt(node.separators, child, split.separator)
        children   == InsertAt(node.children, child + 1, split.right)
        halves     == SplitInternal(node.level, separators, children)
        right      == Len(image) + 1
    IN  IF Fits(separators)
        THEN [pages |-> [image EXCEPT ![id] = Internal(node.level, separators, children)],
              dirty |-> {id}, split |-> NoSplit]
        ELSE [pages |-> Append([image EXCEPT ![id] = halves.left], halves.right),
              dirty |-> {id, right},
              split |-> [separator |-> halves.promoted, right |-> right]]

\* After the insertion below a child of this node.
AfterChild(id, child, below) ==
    LET here == AddChild(below.pages, id, child, below.split)
    IN  IF below.split = NoSplit THEN below
        ELSE [here EXCEPT !.dirty = @ \union below.dirty]

ChildFor(image, id, entry) == 1 + UpperBound(image[id].separators, entry)

\* The way from the root down to the leaf, one node for each call; past the leaf
\* it stays there.  A tree is no higher than it has nodes.
Descent(image, root, entry) ==
    LET path[k \in 0 .. Len(image)] ==
            IF k = 0 THEN root
            ELSE LET id == path[k - 1]
                 IN  IF image[id].type = "leaf" THEN id
                     ELSE image[id].children[ChildFor(image, id, entry)]
    IN  path

\* The insertion into the leaf, then into each node above it on the way back.
InsertIndexEntry(image, root, entry) ==
    LET path   == Descent(image, root, entry)
        height == Len(image)
        done[k \in 0 .. height] ==
            LET id == path[height - k]
            IN  IF k = 0 \/ image[id].type = "leaf" THEN InsertIntoLeaf(image, id, entry)
                ELSE AfterChild(id, ChildFor(image, id, entry), done[k - 1])
    IN  done[height]

\* A root that split gets a parent.
GrowRoot(root, done) ==
    LET above == Len(done.pages) + 1
        level == IF done.pages[root].type = "leaf" THEN 1 ELSE done.pages[root].level + 1
    IN  IF done.split = NoSplit
        THEN [pages |-> done.pages, dirty |-> done.dirty, root |-> root]
        ELSE [pages |-> Append(done.pages,
                           Internal(level, <<done.split.separator>>,
                                    <<root, done.split.right>>)),
              dirty |-> done.dirty \union {above}, root |-> above]

\* One field's index: its first leaf, or an insertion that may grow a new root.
InsertIntoIndex(image, root, entry) ==
    IF root = NoPage
    THEN [pages |-> Append(image, Leaf(NoPage, NoPage, <<entry>>)),
          dirty |-> {Len(image) + 1}, root |-> Len(image) + 1]
    ELSE GrowRoot(root, InsertIndexEntry(image, root, entry))

-----------------------------------------------------------------------------
(* build_incremental_insert *)

\* Cells appended to the row chain whose last page is `id': what has room there,
\* and the rest on pages of their own.
AppendCells(image, id, cells) ==
    LET copied == Cardinality({n \in 1 .. Len(cells) : Len(image[id].cells) + n <= PayloadCells})
        next   == Len(image) + 1
        more   == AddChain(next, SubSeq(cells, copied + 1, Len(cells)))
        filled == [image[id] EXCEPT !.cells = @ \o SubSeq(cells, 1, copied),
                                    !.next = IF more = <<>> THEN @ ELSE next]
    IN  [pages |-> [image EXCEPT ![id] = filled] \o more,
         dirty |-> {id} \union next .. Len(image) + Len(more)]

AppendRow(image, row) ==
    LET super   == image[1]
        chain   == Front(Chain(image, super.rowsHead, "rows"))
        counted == [image EXCEPT ![super.rowsHead].cells =
                       ReplaceAt(@, 1, CountCell(super.rowCount + 1))]
        done    == AppendCells(counted, Last(chain), EncodeRow(row))
    IN  [done EXCEPT !.dirty = @ \union {super.rowsHead}]

\* The entry of the row in one field's index.
AddField(built, field, entry) ==
    LET done == InsertIntoIndex(built.pages, built.roots[field], entry)
    IN  [pages |-> done.pages,
         dirty |-> built.dirty \union done.dirty,
         roots |-> [built.roots EXCEPT ![field] = done.root]]

BuildIncrementalInsert(image, row) ==
    LET super    == image[1]
        appended == AppendRow(image, row)
        built[f \in 0 .. FieldCount] ==
            IF f = 0 THEN [pages |-> appended.pages, dirty |-> appended.dirty,
                           roots |-> image[super.directory].roots]
            ELSE AddField(built[f - 1], f, Entry(row[f], super.rowCount + 1))
        done == built[FieldCount]
    IN  [pages |-> [done.pages EXCEPT
                       ![super.directory].roots = done.roots,
                       ![1] = Superblock(super.generation + 1, Len(done.pages),
                                         super.directory, super.rowCount + 1)],
         dirty |-> done.dirty \union {super.directory, 1}]

-----------------------------------------------------------------------------
(* The specification *)

Init ==
    /\ rows \in UNION {[1 .. n -> Rows] : n \in BuiltSizes}
    /\ pages = BuildImage(rows, 1)
    /\ dirty = {}
    /\ refused = FALSE

\* encode_page refuses an overfull node.
Encodable(image) ==
    \A p \in DOMAIN image :
        /\ image[p].type = "leaf" => Fits(image[p].entries)
        /\ image[p].type = "internal" => Fits(image[p].separators)

\* Commit an image, unless its encoding or the closing parse_image throws.
Commit(next) ==
    LET good == Encodable(next.pages) /\ Accepts(next.pages)
    IN  /\ pages' = IF good THEN next.pages ELSE pages
        /\ dirty' = IF good THEN next.dirty ELSE {}
        /\ refused' = ~good

\* build_incremental_insert of a row of the right arity and widths.  What it
\* throws on the way (a split into nodes with fewer than two children) are
\* shapes that its closing parse_image of the result would refuse as well.
Insert(row) ==
    /\ Len(rows) < MaxRows
    /\ ~refused
    /\ rows' = Append(rows, row)
    /\ Commit(BuildIncrementalInsert(pages, row))

Next == \E row \in Rows : Insert(row)

Spec == Init /\ [][Next]_vars

-----------------------------------------------------------------------------
(* Properties *)

Entries == [key : Keys, record : 1 .. MaxRows]
PageTypes == {"superblock", "schema", "rows", "directory", "leaf", "internal"}

TypeOK ==
    /\ rows \in Seq(Rows) /\ Len(rows) <= MaxRows
    /\ refused \in BOOLEAN
    /\ dirty \subseteq DOMAIN pages
    /\ \A p \in DOMAIN pages :
          /\ pages[p].type \in PageTypes
          /\ pages[p].next \in DOMAIN pages \union {NoPage}
          /\ pages[p].type = "leaf" =>
                /\ pages[p].previous \in DOMAIN pages \union {NoPage}
                /\ ToSet(pages[p].entries) \subseteq Entries
          /\ pages[p].type = "internal" =>
                /\ ToSet(pages[p].children) \subseteq DOMAIN pages
                /\ ToSet(pages[p].separators) \subseteq Entries

\* The rows committed: a refused insert, the last one, left none.
Committed == IF refused THEN Front(rows) ELSE rows

\* The chain that the superblock heads ends, and read_chain makes of it the
\* stream of exactly the rows committed, as many as the superblock counts.
RowsStored ==
    /\ Last(Chain(pages, pages[1].rowsHead, "rows")) = NoPage
    /\ StoredCells(pages) = RowStream(Committed)
    /\ StoredRows(pages) = Committed
    /\ pages[1].rowCount = Len(Committed)

IsNode(id, level) ==
    /\ id \in DOMAIN pages
    /\ IF level = 0 THEN pages[id].type = "leaf"
       ELSE pages[id].type = "internal" /\ pages[id].level = level

\* The level check of validate_index_node: the roots are nodes, the children of
\* a node are nodes one level below it, and a leaf is followed by a leaf, so
\* that no path down an index leaves the image or returns to where it was.
NodesDescend ==
    /\ \A f \in Fields :
          LET root == pages[pages[1].directory].roots[f]
          IN  root = NoPage \/ \E level \in 0 .. Len(pages) : IsNode(root, level)
    /\ \A p \in DOMAIN pages :
          /\ pages[p].type = "leaf" => pages[p].next = NoPage \/ IsNode(pages[p].next, 0)
          /\ pages[p].type = "internal" =>
                \A c \in DOMAIN pages[p].children : IsNode(pages[p].children[c], pages[p].level - 1)

\* No legal row is ever refused by a split, a page bound or the closing
\* parse_image, and the image decodes to exactly the rows inserted, each
\* index holding every record once, in order (tests/storage_v2_tests.cpp).
\* Every pointer of a page is to a page of the image (TypeOK).
EveryRowStored ==
    /\ TypeOK
    /\ ~refused
    /\ Encodable(pages) /\ Accepts(pages)
    /\ RowsStored
    /\ NodesDescend

\* commit_image writes only the dirty pages: every page that differs from the
\* committed image, and every appended one, is reported dirty, page 0 among
\* them, and no page is dropped.
DirtyPagesCoverChanges ==
    [][ /\ DOMAIN pages \subseteq DOMAIN pages'
        /\ \A p \in DOMAIN pages' \ dirty' : p \in DOMAIN pages /\ pages'[p] = pages[p]
        /\ pages' # pages => 1 \in dirty' /\ dirty' # {1} ]_vars

\* The file after some of the dirty pages reached it; the others hold what
\* they held before, or a hole where the file was extended.
Mixture(old, new, written) ==
    [p \in DOMAIN new |->
        IF p \in written THEN new[p]
        ELSE IF p \in DOMAIN old THEN old[p]
        ELSE [type |-> "hole", next |-> NoPage]]

\* A database whose dirty pages are written in part is the old image, the new
\* one, or refused by parse_image: an interrupted apply_image cannot leave a
\* third table behind (docs/storage-v2.md, crash recovery).
NoMixtureAccepted ==
    [][ \A written \in SUBSET dirty' :
           LET mixture == Mixture(pages, pages', written)
           IN  mixture \in {pages, pages'} \/ ~Accepts(mixture) ]_vars
=============================================================================
