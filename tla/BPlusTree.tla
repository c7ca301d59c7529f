------------------------------ MODULE BPlusTree ------------------------------
(***************************************************************************)
(* The in-memory B+ tree of includes/map/bplustree.h, with the array       *)
(* functions it uses and the multimap of includes/map/mmap.h on top of it. *)
(* Nodes live at addresses of a heap, so that what new, delete and the     *)
(* next pointers of the leaves do is visible: an address can be freed,     *)
(* used again, leaked or left dangling.  Which address a node has does not *)
(* matter, so each operation ends by renaming them, the root first and the *)
(* others in the order of the tree.                                        *)
(*                                                                         *)
(* An item is an MPair: a key and the length of its list of values.        *)
(* Internal nodes hold copies of items, whose lists go stale; only the     *)
(* copy in a leaf counts.  Positions count from 1.                         *)
(***************************************************************************)
EXTENDS Integers, Sequences, SequencesExt, FiniteSets, FiniteSetsExt, Functions, TLC

CONSTANTS
    Keys,        \* the keys
    ListKeys,    \* those that MMap::insert is called for
    MaxValues    \* bound on the values of one key

ASSUME KeysAssumption == Keys \subseteq Nat /\ ListKeys \subseteq Keys
ASSUME ValuesAssumption == MaxValues \in Nat \ {0}

Minimum == 1
Maximum == 2 * Minimum

root == 1       \* the tree object itself
Nil == 0        \* the null pointer
Freed == -1     \* what a pointer to a deleted node is renamed to

VARIABLES
    heap,       \* the allocated nodes, by address
    answer      \* what the last operation returned

vars == <<heap, answer>>

-----------------------------------------------------------------------------
(* Items, arrays and nodes *)

Item(key, values) == [key |-> key, values |-> values]
Node(data, subset, next) == [data |-> data, subset |-> subset, next |-> next]
IsLeaf(node) == node.subset = <<>>

\* The first position whose key is not less.
FirstGe(data, key) ==
    Min({i \in DOMAIN data : data[i].key >= key} \union {Len(data) + 1})
Found(data, key) ==
    LET i == FirstGe(data, key) IN i <= Len(data) /\ data[i].key = key
OrderedInsert(data, item) == InsertAt(data, FirstGe(data, item.key), item)

\* split: the larger half stays, half of the sequence, rounded down, moves.
Kept(s) == SubSeq(s, 1, Len(s) - Len(s) \div 2)
Moved(s) == SubSeq(s, Len(s) - Len(s) \div 2 + 1, Len(s))

\* new and delete.
NewAddress(h) == Min(1 .. Cardinality(DOMAIN h) + 1 \ DOMAIN h)
Delete(h, n) == Restrict(h, DOMAIN h \ {n})

RECURSIVE SmallestNode(_, _)
SmallestNode(h, n) == IF IsLeaf(h[n]) THEN n ELSE SmallestNode(h, h[n].subset[1])
Smallest(h, n) == h[SmallestNode(h, n)].data[1]

\* The child that an item with this key belongs under.
ChildFor(data, key) == IF Found(data, key) THEN FirstGe(data, key) + 1 ELSE FirstGe(data, key)

\* The leaf that holds a key, or Nil.
RECURSIVE Locate(_, _, _)
Locate(h, n, key) ==
    IF ~IsLeaf(h[n]) THEN Locate(h, h[n].subset[ChildFor(h[n].data, key)], key)
    ELSE IF Found(h[n].data, key) THEN n ELSE Nil

-----------------------------------------------------------------------------
(* Insertion *)

Overfull(node) == Len(node.data) > Maximum

\* Split child i of node n.
FixExcess(h, n, i) ==
    LET sb    == h[n].subset[i]
        sp    == NewAddress(h)
        full  == h[sb]
        up    == Last(Kept(full.data))
        upper == IF IsLeaf(full) THEN OrderedInsert(Moved(full.data), up) ELSE Moved(full.data)
    IN  sp :> Node(upper, Moved(full.subset), IF IsLeaf(full) THEN full.next ELSE Nil) @@
        [h EXCEPT ![sb] = Node(Front(Kept(full.data)), Kept(full.subset),
                               IF IsLeaf(full) THEN sp ELSE full.next),
                  ![n].data = OrderedInsert(@, up),
                  ![n].subset = InsertAt(@, i + 1, sp)]

AfterLooseInsert(n, i, below) ==
    IF Overfull(below.heap[below.heap[n].subset[i]])
    THEN [below EXCEPT !.heap = FixExcess(@, n, i)] ELSE below

RECURSIVE LooseInsert(_, _, _), LooseInsertBelow(_, _, _, _)
LooseInsert(h, n, item) ==
    IF ~IsLeaf(h[n]) THEN LooseInsertBelow(h, n, ChildFor(h[n].data, item.key), item)
    ELSE IF Found(h[n].data, item.key) THEN [heap |-> h, ok |-> FALSE]
    ELSE [heap |-> [h EXCEPT ![n].data = OrderedInsert(@, item)], ok |-> TRUE]

LooseInsertBelow(h, n, i, item) ==
    AfterLooseInsert(n, i, LooseInsert(h, h[n].subset[i], item))

\* An overfull root moves into a new node and becomes its parent.
GrowRoot(r, done) ==
    LET ans   == NewAddress(done.heap)
        old   == done.heap[r]
        grown == ans :> Node(old.data, old.subset, Nil) @@
                 [done.heap EXCEPT ![r].data = <<>>, ![r].subset = <<ans>>]
    IN  IF done.ok /\ Overfull(old) THEN [done EXCEPT !.heap = FixExcess(grown, r, 1)] ELSE done

InsertItem(h, r, item) == GrowRoot(r, LooseInsert(h, r, item))

-----------------------------------------------------------------------------
(* Erasure *)

Short(node) == Len(node.data) < Minimum

\* Child i of node n takes the last item, or the last child, of its left brother.
TransferFromLeft(h, n, i) ==
    LET left  == h[n].subset[i - 1]
        right == h[n].subset[i]
        item  == Last(h[left].data)
        down  == h[n].data[i - 1]
        others == RemoveAt(h[n].data, i - 1)
    IN  IF IsLeaf(h[left])
        THEN [h EXCEPT ![left].data = Front(@), ![n].data[i - 1] = item,
                       ![right].data = <<item>> \o @]
        ELSE [h EXCEPT ![left].data = Front(@), ![left].subset = Front(@),
                       ![n].data = OrderedInsert(others, item),
                       ![right].data = OrderedInsert(@, down),
                       ![right].subset = <<Last(h[left].subset)>> \o @]

\* MUTANT: the separator between two leaves does not follow the moved item.
TransferFromRightStale(h, n, i) ==
    LET left  == h[n].subset[i]
        right == h[n].subset[i + 1]
        item  == Head(h[right].data)
    IN  [h EXCEPT ![right].data = Tail(@), ![left].data = Append(@, item)]

\* ... the first item, or the first child, of its right brother.
TransferFromRight(h, n, i) ==
    LET left  == h[n].subset[i]
        right == h[n].subset[i + 1]
        item  == Head(h[right].data)
        down  == h[n].data[i]
        others == RemoveAt(h[n].data, i)
    IN  IF IsLeaf(h[right])
        THEN [h EXCEPT ![right].data = Tail(@), ![n].data[i] = h[right].data[2],
                       ![left].data = Append(@, item)]
        ELSE [h EXCEPT ![right].data = Tail(@), ![right].subset = Tail(@),
                       ![n].data = OrderedInsert(others, item),
                       ![left].data = OrderedInsert(@, down),
                       ![left].subset = Append(@, Head(h[right].subset))]

\* MUTANT: the leaf before a deleted one still points to it.
RelinkNothing(h, left, right) == h

\* The leaf before a deleted one is linked to the one after it.
Relink(h, left, right) == IF IsLeaf(h[left]) THEN [h EXCEPT ![left].next = h[right].next] ELSE h

\* merge_with_next_subset: child i takes all of child i + 1.
MergeWithNext(h, n, i) ==
    LET left  == h[n].subset[i]
        right == h[n].subset[i + 1]
        down  == IF IsLeaf(h[left]) THEN <<>> ELSE <<h[n].data[i]>>
        moved == [Relink(h, left, right) EXCEPT
                     ![n].data = RemoveAt(@, i), ![n].subset = RemoveAt(@, i + 1),
                     ![left].data = @ \o down \o h[right].data,
                     ![left].subset = @ \o h[right].subset]
    IN  Delete(moved, right)

\* fix_shortage, with the address it returns.
Spare(h, n, i) == i \in DOMAIN h[n].subset /\ Len(h[h[n].subset[i]].data) > Minimum
FixShortage(h, n, i) ==
    LET Fixed(fixedHeap, j) == [heap |-> fixedHeap, node |-> fixedHeap[n].subset[j]]
    IN  IF Spare(h, n, i - 1) THEN Fixed(TransferFromLeft(h, n, i), i)
        ELSE IF Spare(h, n, i + 1) THEN Fixed(TransferFromRight(h, n, i), i)
        ELSE IF i > 1 THEN Fixed(MergeWithNext(h, n, i - 1), i - 1)
        ELSE IF i < Len(h[n].subset) THEN Fixed(MergeWithNext(h, n, i), i)
        ELSE Fixed(h, i)

\* Put the least item under child i + 1 of a node in its separator i.
ReplaceSeparator(h, n, i) == [h EXCEPT ![n].data[i] = Smallest(h, h[n].subset[i + 1])]

\* MUTANT: an erased item that separates two children stays where it is.
ReplaceNothing(h, n, fixed, i, key) == h

\* The erased item separated children i and i + 1 of node n.  It may still do
\* so, or have moved down into the node that a repair filled.
ReplaceErased(h, n, fixed, i, key) ==
    LET here  == FirstGe(h[n].data, key)
        there == FirstGe(h[fixed].data, key)
    IN  IF here < Len(h[n].subset) /\ Found(h[n].data, key)
        THEN ReplaceSeparator(h, n, here)
        ELSE IF Found(h[fixed].data, key) THEN ReplaceSeparator(h, fixed, there)
        ELSE IF i <= Len(h[n].data) /\ ~Short(h[h[n].subset[i + 1]])
        THEN ReplaceSeparator(h, n, i)
        ELSE h

\* After the erasure below child i of node n.
Repair(h, n, i) ==
    IF Short(h[h[n].subset[i]]) THEN FixShortage(h, n, i)
    ELSE [heap |-> h, node |-> h[n].subset[i]]

AfterRepair(n, i, key, separates, repaired) ==
    IF separates THEN ReplaceErased(repaired.heap, n, repaired.node, i - 1, key)
    ELSE repaired.heap

AfterLooseErase(n, i, key, separates, below) ==
    [below EXCEPT !.heap = AfterRepair(n, i, key, separates, Repair(@, n, i))]

RECURSIVE LooseErase(_, _, _), LooseEraseBelow(_, _, _, _)
LooseErase(h, n, key) ==
    IF ~IsLeaf(h[n]) THEN LooseEraseBelow(h, n, ChildFor(h[n].data, key), key)
    ELSE IF ~Found(h[n].data, key) THEN [heap |-> h, ok |-> FALSE]
    ELSE [heap |-> [h EXCEPT ![n].data = RemoveAt(@, FirstGe(@, key))], ok |-> TRUE]

LooseEraseBelow(h, n, i, key) ==
    AfterLooseErase(n, i, key, Found(h[n].data, key), LooseErase(h, h[n].subset[i], key))

\* A root left with a single child takes its place.
ShrinkRoot(r, done) ==
    LET h     == done.heap
        child == h[r].subset[1]
        moved == [h EXCEPT ![r].data = h[child].data, ![r].subset = h[child].subset]
    IN  IF done.ok /\ Short(h[r]) /\ ~IsLeaf(h[r])
        THEN [done EXCEPT !.heap = Delete(moved, child)] ELSE done

EraseKey(h, r, key) == ShrinkRoot(r, LooseErase(h, r, key))

-----------------------------------------------------------------------------
(* Copies and clearing *)

\* MUTANT: the copy of a leaf points where its source does.
LinkShared(h, last, dst, next) == [h EXCEPT ![dst].next = next]

\* A copied leaf is linked to the last leaf copied before it.
Link(h, last, dst, next) == IF last = Nil THEN h ELSE [h EXCEPT ![last].next = dst]

\* copy_tree: the heap and the last leaf after copying src into the new node dst.
RECURSIVE CopyTree(_, _, _), CopyChildren(_, _, _, _), CopyChild(_, _, _, _, _)
CopyTree(copied, src, dst) ==
    LET node == copied.heap[src]
        own  == dst :> Node(node.data, <<>>, Nil) @@ copied.heap
    IN  IF IsLeaf(node) THEN [heap |-> Link(own, copied.last, dst, node.next), last |-> dst]
        ELSE CopyChildren([copied EXCEPT !.heap = own], src, dst, 1)

CopyChildren(copied, src, dst, i) ==
    IF i > Len(copied.heap[src].subset) THEN copied
    ELSE CopyChild(copied, src, dst, i, NewAddress(copied.heap))

CopyChild(copied, src, dst, i, child) ==
    CopyChildren(
        CopyTree([copied EXCEPT !.heap = child :> Node(<<>>, <<>>, Nil) @@
                                         [@ EXCEPT ![dst].subset = Append(@, child)]],
                 copied.heap[src].subset[i], child),
        src, dst, i + 1)

Copy(h, src, dst) == CopyTree([heap |-> h, last |-> Nil], src, dst).heap

\* The addresses below a node, which clear_tree deletes.
RECURSIVE Below(_, _)
Below(h, n) == UNION {{c} \union Below(h, c) : c \in ToSet(h[n].subset)}

ClearTree(h, n) ==
    [m \in DOMAIN h \ Below(h, n) |-> IF m = n THEN Node(<<>>, <<>>, Nil) ELSE h[m]]

-----------------------------------------------------------------------------
(* Addresses *)

\* The nodes below n that are not in the order yet, appended to it.
RECURSIVE Visit(_, _, _)
Visit(h, order, n) ==
    IF n \notin DOMAIN h \ ToSet(order) THEN order
    ELSE FoldLeft(LAMBDA visited, c : Visit(h, visited, c), Append(order, n), h[n].subset)

Rename(h, order) ==
    LET Name(n) == IF n = Nil THEN Nil
                   ELSE IF n \in ToSet(order) THEN CHOOSE i \in DOMAIN order : order[i] = n
                   ELSE Freed
    IN  [i \in DOMAIN order |->
            Node(h[order[i]].data,
                 [c \in DOMAIN h[order[i]].subset |-> Name(h[order[i]].subset[c])],
                 Name(h[order[i]].next))]

\* A heap whose tree is at r, with leaked nodes named last.
Settled(h, r) ==
    LET order == Visit(h, <<>>, r)
    IN  Rename(h, order \o SetToSortSeq(DOMAIN h \ ToSet(order), <))

-----------------------------------------------------------------------------
(* The operations *)

Init ==
    /\ heap = <<Node(<<>>, <<>>, Nil)>>
    /\ answer = "void"

\* BPlusTree::insert: Map::insert calls it for any key, operator[] and
\* insert_key for missing ones.
Insert(key) ==
    LET done == InsertItem(heap, root, Item(key, 0))
    IN  /\ heap' = Settled(done.heap, root)
        /\ answer' = IF done.ok THEN "true" ELSE "false"

\* MUTANT: get_Item stops at the first node that holds the key.
RECURSIVE LocateFirst(_, _, _)
LocateFirst(h, n, key) ==
    IF Found(h[n].data, key) THEN n
    ELSE IF IsLeaf(h[n]) THEN Nil
    ELSE LocateFirst(h, h[n].subset[FirstGe(h[n].data, key)], key)

GetItem(h, n, key) == Locate(h, n, key)

\* MMap::insert: a value more for a key, which is inserted when missing.
AppendValue(key) ==
    LET leaf == GetItem(heap, root, key)
        i    == FirstGe(heap[leaf].data, key)
    IN  /\ IF Locate(heap, root, key) # Nil
           THEN /\ heap[leaf].data[i].values < MaxValues
                /\ heap' = [heap EXCEPT ![leaf].data[i].values = @ + 1]
           ELSE heap' = Settled(InsertItem(heap, root, Item(key, 1)).heap, root)
        /\ answer' = "void"

Erase(key) ==
    LET done == EraseKey(heap, root, key)
    IN  /\ heap' = Settled(done.heap, root)
        /\ answer' = IF done.ok THEN "true" ELSE "false"

Clear ==
    /\ heap' = Settled(ClearTree(heap, root), root)
    /\ answer' = "void"

\* Parser::parse_tree returns a copy, and the parser then clears its own tree.
ReplaceByCopy ==
    LET copy == NewAddress(heap)
    IN  /\ heap' = Settled(Delete(ClearTree(Copy(heap, root, copy), root), root), copy)
        /\ UNCHANGED answer

Next ==
    \/ \E key \in Keys : Insert(key) \/ Erase(key)
    \/ \E key \in ListKeys : AppendValue(key)
    \/ Clear
    \/ ReplaceByCopy

Spec == Init /\ [][Next]_vars

-----------------------------------------------------------------------------
(* Iteration *)

\* The leaves in the order of ++, up to a null or freed pointer or a cycle.
RECURSIVE ChainFrom(_, _)
ChainFrom(n, seen) ==
    IF n \notin DOMAIN heap \ seen THEN <<>> ELSE <<n>> \o ChainFrom(heap[n].next, seen \union {n})

Chain == ChainFrom(SmallestNode(heap, root), {})
Iterated == FoldLeft(LAMBDA items, n : items \o heap[n].data, <<>>, Chain)

-----------------------------------------------------------------------------
(* Properties *)

TypeOK ==
    /\ root \in DOMAIN heap
    /\ answer \in {"true", "false", "void"}
    /\ \A n \in DOMAIN heap :
          /\ Len(heap[n].data) <= Maximum /\ Len(heap[n].subset) <= Maximum + 1
          /\ ToSet(heap[n].data) \subseteq [key : Keys, values : 0 .. MaxValues]

\* insert, erase, clear and copies neither leak a node, nor delete one twice,
\* nor share one, nor leave a pointer to a deleted one: the allocated nodes are
\* the root and one child for each child pointer.
NodesOwnedOnce ==
    LET pointers == UNION {{n} \X DOMAIN heap[n].subset : n \in DOMAIN heap}
        To(m)    == {p \in pointers : heap[p[1]].subset[p[2]] = m}
    IN  /\ \A p \in pointers : heap[p[1]].subset[p[2]] \in DOMAIN heap
        /\ \A m \in DOMAIN heap : Cardinality(To(m)) = (IF m = root THEN 0 ELSE 1)
        /\ \A n \in DOMAIN heap : heap[n].next \in DOMAIN heap \union {Nil}

\* How deep the leaves below a node are.
RECURSIVE Depths(_)
Depths(n) ==
    IF IsLeaf(heap[n]) THEN {0} ELSE {d + 1 : d \in UNION {Depths(c) : c \in ToSet(heap[n].subset)}}

\* What is_valid checks, and more: no array outgrows a node, every node but an
\* empty root is occupied, all leaves are equally deep, and each separator has
\* the key of the least item to its right, also after the item it copied was
\* erased.
WellFormed ==
    /\ TypeOK
    /\ \A n \in DOMAIN heap :
          /\ ~Short(heap[n]) \/ (n = root /\ IsLeaf(heap[n]))
          /\ IsLeaf(heap[n]) \/ Len(heap[n].subset) = Len(heap[n].data) + 1
          /\ ~IsLeaf(heap[n]) =>
                \A i \in DOMAIN heap[n].data :
                    heap[n].data[i].key = Smallest(heap, heap[n].subset[i + 1]).key
    /\ Cardinality(Depths(root)) = 1

\* Iteration from begin() visits every leaf, ends, and is in strict order
\* (tests/bplustree_tests.cpp: "iteration should be ordered and complete").
IterationOrderedAndComplete ==
    LET chain == Chain
        items == Iterated
    IN  /\ ToSet(chain) = {n \in DOMAIN heap : IsLeaf(heap[n])}
        /\ heap[Last(chain)].next = Nil
        /\ \A i \in 1 .. Len(items) - 1 : items[i].key < items[i + 1].key

\* find, contains and get descend by the separators and reach a key exactly
\* when iteration does.
LookupsAgree ==
    {key \in Keys : Locate(heap, root, key) # Nil} = {item.key : item \in ToSet(Iterated)}

\* The map that iteration shows.
Contents ==
    FoldLeft(LAMBDA map, item : (item.key :> item.values) @@ map, <<>>, Iterated)

Map == INSTANCE OrderedMap WITH contents <- Contents, answer <- answer

\* Through every split, transfer, merge and copy the tree is the ordered map:
\* no key is lost, duplicated or invented, no value read from a stale copy of
\* an item, and insert and erase say whether they changed the set of keys.
Refinement == Map!Spec
=============================================================================
