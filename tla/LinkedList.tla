----------------------------- MODULE LinkedList -----------------------------
(***************************************************************************)
(* The doubly linked lists of includes/linked_list on a heap of nodes:     *)
(* the functions of linked_list_functions.h, and the Queue and the Stack   *)
(* that are built on them, copied and assigned by value.  Freed nodes are  *)
(* handed out again at once, and pointers to them stay behind: the rear of *)
(* a queue whose last node was popped, the back link of a new head.        *)
(* Pop, end and indexing are called on containers that are not empty, as   *)
(* all callers check.                                                      *)
(***************************************************************************)
EXTENDS Integers, FiniteSets, SequencesExt

CONSTANTS
    Queues, Stacks, Lists,  \* the containers
    Items,                  \* what they hold
    Nodes,                  \* the nodes of the heap
    MaxGrown                \* bound on the nodes in use for an element to be
                            \* added; copies may use the whole heap

ASSUME NodesAssumption == IsFiniteSet(Nodes) /\ 0 \notin Nodes
ASSUME MaxGrownAssumption == MaxGrown \in Nat
ASSUME ObjectsAssumption ==
    Queues \cap Stacks = {} /\ Lists \cap (Queues \union Stacks) = {}

Objects == Queues \union Stacks \union Lists
Null == 0
Pointers == Nodes \union {Null}

VARIABLES
    heap,       \* the nodes, which of them are allocated, and the pointers used
                \* that were null or to a node that is not
    object      \* each container's pointers and size

vars == <<heap, object>>

Node(item, next, prev) == [item |-> item, next |-> next, prev |-> prev]
Blank == Node(0, Null, Null)
Heap(node, live, wild) == [node |-> node, live |-> live, wild |-> wild]

\* front is _front, _top or the head of a plain list; only queues have a rear.
EmptyObject == [front |-> Null, rear |-> Null, size |-> 0]

Init ==
    /\ heap = Heap([n \in Pointers |-> Blank], {}, {})
    /\ object = [o \in Objects |-> EmptyObject]

-----------------------------------------------------------------------------
(* Nodes *)

Fresh(h) == CHOOSE n \in Nodes \ h.live : TRUE

\* The heap with another content of node n, written through a pointer.
Written(h, n, node) ==
    Heap([m \in Pointers |-> IF m = n THEN node ELSE h.node[m]], h.live, h.wild \union ({n} \ h.live))

\* node(item)
Allocate(h, x) ==
    Heap([m \in Pointers |-> IF m = Fresh(h) THEN Node(x, Null, Null) ELSE h.node[m]],
         h.live \union {Fresh(h)}, h.wild)

SetNext(h, n, next) == Written(h, n, Node(h.node[n].item, next, h.node[n].prev))
SetPrev(h, n, prev) == Written(h, n, Node(h.node[n].item, h.node[n].next, prev))

FreeAll(h, nodes) ==
    Heap([m \in Pointers |-> IF m \in nodes THEN Blank ELSE h.node[m]],
         h.live \ nodes, h.wild \union (nodes \ h.live))
Free(h, n) == FreeAll(h, {n})

\* The pointers along _next; the nodes met on that way, and the pointer that
\* ends it: null, or one to a node that is not allocated or was met before.
Path(h, n) ==
    LET path[i \in 1 .. Cardinality(Nodes) + 1] ==
            IF i = 1 THEN n ELSE h.node[path[i - 1]].next
    IN  path
IsNew(h, path, i) == path[i] \in h.live /\ \A j \in 1 .. i - 1 : path[j] # path[i]
Met(h, path) ==
    CHOOSE k \in 0 .. Cardinality(Nodes) :
        ~IsNew(h, path, k + 1) /\ \A i \in 1 .. k : IsNew(h, path, i)
Chain(h, n) == LET path == Path(h, n) IN [i \in 1 .. Met(h, path) |-> path[i]]
WalkEnd(h, n) == LET path == Path(h, n) IN path[Met(h, path) + 1]

Walk(h, front) == Heap(h.node, h.live, h.wild \union ({WalkEnd(h, front)} \ {Null}))

LastNode(h, n) ==
    IF Chain(h, n) # <<>> /\ WalkEnd(h, n) = Null THEN Last(Chain(h, n)) ELSE WalkEnd(h, n)

-----------------------------------------------------------------------------
(* linked_list_functions.h: each gives the heap, the head and a node *)

Out(h, head, n) == [heap |-> h, head |-> head, node |-> n]

LinkHead(h, n, head) ==
    IF head = Null THEN Out(h, n, n)
    ELSE Out(SetPrev(SetNext(h, n, head), head, n), n, n)
InsertHead(h, head, x) == LinkHead(Allocate(h, x), Fresh(h), head)

LinkTail(h, n, head, last) == Out(SetPrev(SetNext(h, last, n), n, last), head, n)
InsertTail(h, head, x) ==
    IF head = Null THEN InsertHead(h, head, x)
    ELSE LinkTail(Allocate(Walk(h, head), x), Fresh(h), head, LastNode(h, head))

LinkBetween(h, n, head, prev, next) ==
    Out(SetPrev(SetNext(SetPrev(SetNext(h, n, next), next, n), prev, n), n, prev), head, n)
InsertAfter(h, head, after, x) ==
    IF head = Null THEN InsertHead(h, head, x)
    ELSE IF after = LastNode(h, head) THEN InsertTail(h, head, x)
    ELSE LinkBetween(Allocate(Walk(h, head), x), Fresh(h), head, after, h.node[after].next)

\* MUTANT: the position is ignored.
InsertBeforeHead(h, head, before, x) == InsertHead(h, head, x)

InsertBefore(h, head, before, x) ==
    IF head = Null \/ head = before THEN InsertHead(h, head, x)
    ELSE LinkBetween(Allocate(h, x), Fresh(h), head, h.node[before].prev, before)

\* MUTANT: the node after a deleted one keeps its back link.
DeleteNodeForgetsBack(h, head, n) ==
    IF head = n THEN Out(Free(h, n), h.node[n].next, n)
    ELSE Out(Free(SetNext(h, h.node[n].prev, h.node[n].next), n), head, n)

\* The node that follows a deleted head keeps its back link to it.
DeleteNode(h, head, n) ==
    IF head = n THEN Out(Free(h, n), h.node[n].next, n)
    ELSE IF n = LastNode(h, head)
    THEN Out(Free(IF h.node[n].prev = Null THEN Walk(h, head)
                  ELSE SetNext(Walk(h, head), h.node[n].prev, Null), n), head, n)
    ELSE Out(Free(SetPrev(SetNext(Walk(h, head), h.node[n].prev, h.node[n].next),
                          h.node[n].next, h.node[n].prev), n), head, n)

\* Node by node, at the end of the copy.
CopyNode(copy, x) ==
    IF copy.head = Null THEN InsertHead(copy.heap, Null, x)
    ELSE LinkTail(Allocate(copy.heap, x), Fresh(copy.heap), copy.head, copy.node)
ItemsOn(h, chain) == [k \in DOMAIN chain |-> h.node[chain[k]].item]
CopyList(h, source) ==
    LET items == ItemsOn(h, Chain(h, source))
        copy[k \in 0 .. Len(items)] ==
            IF k = 0 THEN Out(Walk(h, source), Null, Null) ELSE CopyNode(copy[k - 1], items[k])
    IN  copy[Len(items)]

\* MUTANT: only the first node is deleted.
ClearListFirst(h, head) == IF head = Null THEN h ELSE Free(h, head)

ClearList(h, head) == FreeAll(Walk(h, head), ToSet(Chain(h, head)))

-----------------------------------------------------------------------------
(* Queue, Stack and a plain list *)

Room(n) == Cardinality(heap.live) + n <= Cardinality(Nodes)
\* Room for an element to be added.
Grows == Room(1) /\ Cardinality(heap.live) < MaxGrown
Empty(o) == object[o].front = Null \/ (o \in Queues /\ object[o].rear = Null)
Elements(o) == Chain(heap, object[o].front)
ItemsIn(out) == ItemsOn(out.heap, Chain(out.heap, out.head))
ItemsOf(o) == ItemsOn(heap, Elements(o))

Update(o, out, rear, size) ==
    /\ heap' = out.heap
    /\ object' = [object EXCEPT ![o] = [front |-> out.head, rear |-> rear, size |-> size]]

\* MUTANT: only the rear is looked at.
QueuePushAtRear(q, x) ==
    /\ Grows
    /\ LET out == IF object[q].rear = Null THEN InsertHead(heap, object[q].front, x)
                  ELSE LinkTail(Allocate(heap, x), Fresh(heap), object[q].front, object[q].rear)
       IN  Update(q, out, out.node, object[q].size + 1)

QueuePush(q, x) ==
    /\ Grows
    /\ LET front == object[q].front
           out == IF Empty(q) THEN InsertHead(heap, front, x)
                  ELSE InsertAfter(heap, front, LastNode(heap, front), x)
       IN  Update(q, out, out.node, object[q].size + 1)

\* MUTANT: the new element goes to the bottom.
StackPushTail(s, x) ==
    /\ Grows
    /\ Update(s, InsertTail(heap, object[s].front, x), Null, object[s].size + 1)

StackPush(s, x) ==
    /\ Grows
    /\ Update(s, InsertHead(heap, object[s].front, x), Null, object[s].size + 1)

\* The rear of a queue stays where it was.
Pop(o) ==
    /\ ~Empty(o)
    /\ Update(o, DeleteNode(heap, object[o].front, object[o].front), object[o].rear,
              object[o].size - 1)

\* operator=, with a copy of the other's nodes; the copy constructor is one
\* into an empty container.
Assign(o, from) ==
    /\ o # from
    /\ Room(Len(Elements(from)) - Len(Elements(o)))
    /\ LET out == CopyList(ClearList(heap, object[o].front), object[from].front)
       IN  Update(o, out, IF o \in Queues THEN out.node ELSE Null, object[from].size)

\* clear, and the destructor.
Clear(o) ==
    /\ Update(o, Out(ClearList(heap, object[o].front), Null, Null), Null, 0)

ListInsertBefore(l, i, x) ==
    /\ Grows
    /\ Update(l, InsertBefore(heap, object[l].front, Elements(l)[i], x), Null, 0)

ListInsertAfter(l, i, x) ==
    /\ Grows
    /\ Update(l, InsertAfter(heap, object[l].front, Elements(l)[i], x), Null, 0)

ListInsertTail(l, x) ==
    /\ Grows
    /\ Update(l, InsertTail(heap, object[l].front, x), Null, 0)

ListDelete(l, i) ==
    /\ Update(l, DeleteNode(heap, object[l].front, Elements(l)[i]), Null, 0)

Next ==
    \/ \E q \in Queues, x \in Items : QueuePush(q, x)
    \/ \E s \in Stacks, x \in Items : StackPush(s, x)
    \/ \E o \in Queues \union Stacks : Pop(o)
    \/ \E o, from \in Queues : Assign(o, from)
    \/ \E o, from \in Stacks : Assign(o, from)
    \/ \E o \in Objects : Clear(o)
    \/ \E l \in Lists, x \in Items :
          \/ \E i \in DOMAIN Elements(l) : ListInsertBefore(l, i, x) \/ ListInsertAfter(l, i, x)
          \/ ListInsertTail(l, x)
    \/ \E l \in Lists : \E i \in DOMAIN Elements(l) : ListDelete(l, i)

Spec == Init /\ [][Next]_vars

-----------------------------------------------------------------------------
(* Properties *)

TypeOK ==
    /\ heap.node \in [Pointers -> [item : Items \union {0}, next : Nodes \union {Null},
                                prev : Nodes \union {Null}]]
    /\ heap.live \subseteq Nodes /\ heap.wild \subseteq Nodes \union {Null}
    /\ object \in [Objects -> [front : Nodes \union {Null}, rear : Nodes \union {Null}, size : Nat]]
    /\ \A o \in Queues \union Stacks : object[o].size = Len(Elements(o))

\* No sequence of calls reads, writes or frees a node that is not allocated,
\* although rears and back links to freed nodes stay behind and their nodes
\* are used again (linked_list_functions.h, MyQueue.h, MyStack.h).
NoFault == heap.wild = {}

\* Every allocated node is in exactly one container: copies share nothing and
\* nothing leaks (_copy_list, _clear_list, operator=).
NodesOwned ==
    /\ heap.live = UNION {ToSet(Elements(o)) : o \in Objects}
    /\ \A o, other \in Objects :
          o # other => ToSet(Elements(o)) \intersect ToSet(Elements(other)) = {}

\* Back links mirror forward links inside a list, and the rear of a queue that
\* is not empty is its last node: what _delete_node, _insert_before and back
\* rely on.  Sizes are the numbers of elements (TypeOK).
LinksAgree ==
    /\ TypeOK
    /\ \A o \in Objects : \A k \in 2 .. Len(Elements(o)) :
          heap.node[Elements(o)[k]].prev = Elements(o)[k - 1]
    /\ \A q \in Queues : object[q].front # Null => object[q].rear = Last(Elements(q))

\* From every heap, inserting before, after or deleting the i-th node of a list
\* edits its sequence in that place (_insert_before, _insert_after, _delete_node).
EditsInPlace ==
    \A l \in Lists : \A i \in DOMAIN Elements(l) :
        /\ ItemsIn(DeleteNode(heap, object[l].front, Elements(l)[i])) = RemoveAt(ItemsOf(l), i)
        /\ Room(1) => \A x \in Items :
              /\ ItemsIn(InsertBefore(heap, object[l].front, Elements(l)[i], x))
                    = InsertAt(ItemsOf(l), i, x)
              /\ ItemsIn(InsertAfter(heap, object[l].front, Elements(l)[i], x))
                    = InsertAt(ItemsOf(l), i + 1, x)

\* Queues, stacks and lists are independent sequences (module Containers).
Abstract == INSTANCE Containers WITH contents <- [o \in Objects |-> ItemsOf(o)]
Refinement == Abstract!Spec
=============================================================================
