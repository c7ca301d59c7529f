-------------------------- MODULE LinkedList_proofs -------------------------
(***************************************************************************)
(* Proofs about module LinkedList, for every number of nodes and           *)
(* containers.                                                             *)
(***************************************************************************)
EXTENDS LinkedList, InductionOnSets, SequenceTheorems, FiniteSetTheorems

-----------------------------------------------------------------------------
(* Sequences *)

LEMMA InsertAtShape ==
    ASSUME NEW S, NEW s \in Seq(S), NEW i \in 1 .. Len(s) + 1, NEW x \in S
    PROVE  /\ InsertAt(s, i, x) \in Seq(S)
           /\ Len(InsertAt(s, i, x)) = Len(s) + 1
           /\ \A k \in 1 .. Len(s) + 1 :
                 InsertAt(s, i, x)[k] = IF k < i THEN s[k] ELSE IF k = i THEN x ELSE s[k - 1]
<1> DEFINE a == SubSeq(s, 1, i - 1)
<1> DEFINE b == SubSeq(s, i, Len(s))
<1>1. /\ a \in Seq(S) /\ Len(a) = i - 1
      /\ \A k \in 1 .. i - 1 : a[k] = s[k]
  OBVIOUS
<1>2. /\ b \in Seq(S) /\ Len(b) = Len(s) - i + 1
      /\ \A k \in 1 .. Len(s) - i + 1 : b[k] = s[k + i - 1]
  OBVIOUS
<1>3. InsertAt(s, i, x) = a \o <<x>> \o b
  BY DEF InsertAt
<1> HIDE DEF a, b
<1> DEFINE c == a \o <<x>>
<1>4. /\ c \in Seq(S) /\ Len(c) = i
      /\ \A k \in 1 .. i : c[k] = IF k < i THEN s[k] ELSE x
  BY <1>1
<1>5. InsertAt(s, i, x) = c \o b
  BY <1>3
<1> HIDE DEF c
<1>6. /\ c \o b \in Seq(S) /\ Len(c \o b) = Len(c) + Len(b)
      /\ \A k \in 1 .. Len(c) + Len(b) :
            (c \o b)[k] = IF k <= Len(c) THEN c[k] ELSE b[k - Len(c)]
  BY <1>2, <1>4, ConcatProperties
<1>7. ASSUME NEW k \in 1 .. Len(s) + 1
      PROVE  (c \o b)[k] = IF k < i THEN s[k] ELSE IF k = i THEN x ELSE s[k - 1]
  <2>1. /\ k \in 1 .. Len(c) + Len(b)
        /\ (c \o b)[k] = IF k <= i THEN c[k] ELSE b[k - i]
    BY <1>2, <1>4, <1>6
  <2>2. CASE k <= i
    BY <1>4, <2>1, <2>2
  <2>3. CASE k > i
    <3>1. k - i \in 1 .. Len(s) - i + 1 /\ k - i + i - 1 = k - 1 /\ ~(k < i) /\ k # i /\ ~(k <= i)
      BY <2>3
    <3>2. b[k - i] = s[k - 1]
      BY <1>2, <3>1
    <3>3. QED
      BY <2>1, <3>1, <3>2
  <2>4. k \in Int /\ i \in Int
    OBVIOUS
  <2>5. k <= i \/ k > i
    BY <2>4
  <2>6. QED
    BY <2>2, <2>3, <2>5, Zenon
<1>8. QED
  BY <1>2, <1>4, <1>5, <1>6, <1>7

LEMMA RemoveAtShape ==
    ASSUME NEW S, NEW s \in Seq(S), NEW i \in 1 .. Len(s)
    PROVE  /\ RemoveAt(s, i) \in Seq(S)
           /\ Len(RemoveAt(s, i)) = Len(s) - 1
           /\ \A k \in 1 .. Len(s) - 1 :
                 RemoveAt(s, i)[k] = IF k < i THEN s[k] ELSE s[k + 1]
<1> DEFINE a == SubSeq(s, 1, i - 1)
<1> DEFINE b == SubSeq(s, i + 1, Len(s))
<1>1. /\ a \in Seq(S) /\ Len(a) = i - 1
      /\ \A k \in 1 .. i - 1 : a[k] = s[k]
  OBVIOUS
<1>2. /\ b \in Seq(S) /\ Len(b) = Len(s) - i
      /\ \A k \in 1 .. Len(s) - i : b[k] = s[k + i]
  OBVIOUS
<1>3. RemoveAt(s, i) = a \o b
  BY DEF RemoveAt
<1> HIDE DEF a, b
<1>4. /\ a \o b \in Seq(S) /\ Len(a \o b) = Len(a) + Len(b)
      /\ \A k \in 1 .. Len(a) + Len(b) :
            (a \o b)[k] = IF k <= Len(a) THEN a[k] ELSE b[k - Len(a)]
  BY <1>1, <1>2, ConcatProperties
<1>5. ASSUME NEW k \in 1 .. Len(s) - 1
      PROVE  (a \o b)[k] = IF k < i THEN s[k] ELSE s[k + 1]
  BY <1>1, <1>2, <1>4
<1>6. QED
  BY <1>1, <1>2, <1>3, <1>4, <1>5

LEMMA SameSequence ==
    ASSUME NEW S, NEW s \in Seq(S), NEW t \in Seq(S), Len(s) = Len(t),
           \A k \in 1 .. Len(s) : s[k] = t[k]
    PROVE  s = t
OBVIOUS

-----------------------------------------------------------------------------
(* Heaps and chains of nodes *)

\* What a node may hold: blank ones hold 0.
Held == Items \union {0}

Contents == [item : Held, next : Pointers, prev : Pointers]

\* A heap on which no pointer was misused.
IsHeap(h) ==
    /\ h = Heap(h.node, h.live, h.wild)
    /\ h.node \in [Pointers -> Contents]
    /\ h.live \subseteq Nodes
    /\ h.wild = {}

\* The nodes of "c" hang together, from "front" on.
Linked(h, front, c) ==
    /\ c \in Seq(Nodes)
    /\ \A i \in 1 .. Len(c) : c[i] \in h.live
    /\ \A i, j \in 1 .. Len(c) : i # j => c[i] # c[j]
    /\ front = IF Len(c) = 0 THEN Null ELSE c[1]
    /\ \A i \in 1 .. Len(c) : h.node[c[i]].next = IF i < Len(c) THEN c[i + 1] ELSE Null
    /\ \A i \in 2 .. Len(c) : h.node[c[i]].prev = c[i - 1]

\* A sequence of distinct nodes is not longer than the nodes are many.
LEMMA ChainLength ==
    ASSUME NEW S, IsFiniteSet(S), NEW c \in Seq(S),
           \A i, j \in 1 .. Len(c) : i # j => c[i] # c[j]
    PROVE  Len(c) \in Nat /\ Len(c) <= Cardinality(S)
<1>0. c \in [1 .. Len(c) -> S]
  BY LenProperties
<1>1. c \in Injection(1 .. Len(c), S)
  <2>1. \A i, j \in 1 .. Len(c) : c[i] = c[j] => i = j
    OBVIOUS
  <2>2. QED
    BY <1>0, <2>1 DEF Injection, IsInjective
<1>2. Cardinality(1 .. Len(c)) <= Cardinality(S)
  BY <1>1, FS_Injection
<1>3. Cardinality(1 .. Len(c)) = Len(c)
  BY FS_Interval, SMTT(60)
<1>4. QED
  BY <1>2, <1>3

LEMMA NodesFinite == Cardinality(Nodes) \in Nat /\ Null \notin Nodes /\ IsFiniteSet(Nodes)
BY NodesAssumption, FS_CardinalityType DEF Null

\* The pointers along _next, one by one.
LEMMA PathSteps ==
    ASSUME NEW h, IsHeap(h), NEW n \in Pointers
    PROVE  LET path == Path(h, n)
           IN  /\ path \in [1 .. Cardinality(Nodes) + 1 -> Pointers]
               /\ path[1] = n
               /\ \A i \in 2 .. Cardinality(Nodes) + 1 : path[i] = h.node[path[i - 1]].next
<1> DEFINE high == Cardinality(Nodes) + 1
<1> DEFINE step == [k \in Nat |-> [p \in Pointers |-> h.node[p].next]]
<1> DEFINE P(path) == path = [i \in 1 .. high |-> IF i = 1 THEN n ELSE h.node[path[i - 1]].next]
<1>1. high \in Nat
  BY NodesFinite
<1>2. step \in [Nat -> [Pointers -> Pointers]]
  BY DEF IsHeap, Contents
<1>3. PICK g \in [1 .. high -> Pointers] : Recurs(g, 1, high, n, step)
  <2> HIDE DEF step, high
  <2>1. QED
    BY <1>1, <1>2, RecursionExists
<1>4. ASSUME NEW i \in 1 .. high PROVE g[i] = IF i = 1 THEN n ELSE h.node[g[i - 1]].next
  <2>1. g[i] = IF i = 1 THEN n ELSE step[i][g[i - 1]]
    BY <1>3 DEF Recurs
  <2>2. i # 1 => i - 1 \in 1 .. high
    BY <1>1
  <2>3. i # 1 => g[i - 1] \in Pointers
    BY <1>3, <2>2
  <2>4. i # 1 => step[i][g[i - 1]] = h.node[g[i - 1]].next
    BY <2>3, SMTT(60)
  <2>5. QED
    BY <2>1, <2>4
<1>5. P(g)
  BY <1>3, <1>4 DEF Recurs
<1>6. P(Path(h, n))
  BY <1>5 DEF Path
<1> DEFINE q == Path(h, n)
<1> HIDE DEF q
<1>7. P(q)
  BY <1>6 DEF q
<1>8. ASSUME NEW i \in 1 .. high PROVE q[i] = IF i = 1 THEN n ELSE h.node[q[i - 1]].next
  BY <1>7
<1> DEFINE S == {k \in Nat : k + 1 \in 1 .. high => q[k + 1] \in Pointers}
<1>9. 0 \in S
  BY <1>1, <1>8
<1>10. ASSUME NEW k \in S PROVE k + 1 \in S
  <2>1. CASE k + 2 \in 1 .. high
    <3>1. q[k + 1] \in Pointers /\ q[k + 2] = h.node[q[k + 1]].next
      BY <1>1, <1>8, <2>1
    <3>2. QED
      BY <3>1 DEF IsHeap, Contents
  <2>2. QED
    BY <2>1
<1>11. S = Nat
  <2> HIDE DEF S
  <2>1. S \in SUBSET Nat
    BY DEF S
  <2>2. QED
    BY <1>9, <1>10, <2>1, SetInduction
<1>12. ASSUME NEW i \in 1 .. high PROVE q[i] \in Pointers
  <2>1. i - 1 \in Nat /\ (i - 1) + 1 = i
    BY <1>1
  <2>2. i - 1 \in S
    BY <1>11, <2>1
  <2>3. QED
    BY <2>1, <2>2
<1>13. q \in [1 .. high -> Pointers]
  BY <1>7, <1>12
<1>14. q[1] = n /\ \A i \in 2 .. high : q[i] = h.node[q[i - 1]].next
  BY <1>1, <1>8, NodesFinite
<1>15. QED
  BY <1>13, <1>14 DEF q

\* The chain from the first of nodes that hang together is those nodes, and the
\* way ends at null.
LEMMA ChainOf ==
    ASSUME NEW h, IsHeap(h), NEW front, NEW c, Linked(h, front, c)
    PROVE  Chain(h, front) = c /\ WalkEnd(h, front) = Null
<1> DEFINE p == Path(h, front)
<1> DEFINE N == Cardinality(Nodes)
<1>1. c \in Seq(Nodes) /\ Len(c) \in Nat /\ Len(c) <= N /\ N \in Nat
  BY NodesFinite, ChainLength DEF Linked
<1>2. front \in Pointers
  BY <1>1 DEF Linked, Pointers
<1>3. /\ p[1] = front
      /\ \A i \in 2 .. N + 1 : p[i] = h.node[p[i - 1]].next
  BY <1>2, PathSteps
<1> HIDE DEF p, N
<1>4. /\ \A i \in 1 .. Len(c) : c[i] \in h.live
      /\ \A i, j \in 1 .. Len(c) : i # j => c[i] # c[j]
      /\ front = IF Len(c) = 0 THEN Null ELSE c[1]
      /\ \A i \in 1 .. Len(c) : h.node[c[i]].next = IF i < Len(c) THEN c[i + 1] ELSE Null
  BY DEF Linked
<1> DEFINE S == {k \in Nat : k + 1 <= Len(c) + 1 =>
                                p[k + 1] = IF k + 1 <= Len(c) THEN c[k + 1] ELSE Null}
<1>5. 0 \in S
  BY <1>1, <1>3, <1>4
<1>6. ASSUME NEW k \in S PROVE k + 1 \in S
  <2>1. CASE k + 2 <= Len(c) + 1
    <3>1. p[k + 2] = h.node[p[k + 1]].next
      BY <1>1, <1>3, <2>1
    <3>2. p[k + 1] = c[k + 1]
      BY <1>1, <2>1
    <3>3. h.node[c[k + 1]].next = IF k + 1 < Len(c) THEN c[k + 2] ELSE Null
      BY <1>1, <1>4, <2>1
    <3>4. QED
      BY <1>1, <2>1, <3>1, <3>2, <3>3
  <2>2. QED
    BY <1>1, <2>1
<1>7. S = Nat
  <2> HIDE DEF S
  <2>1. S \in SUBSET Nat
    BY DEF S
  <2>2. QED
    BY <1>5, <1>6, <2>1, SetInduction
<1>8. ASSUME NEW i \in 1 .. Len(c) + 1
      PROVE  p[i] = IF i <= Len(c) THEN c[i] ELSE Null
  <2>1. i - 1 \in Nat /\ (i - 1) + 1 = i
    BY <1>1
  <2>2. i - 1 \in S
    BY <1>7, <2>1
  <2>3. QED
    BY <1>1, <2>1, <2>2
<1> HIDE DEF S
<1>9. Null \notin h.live
  BY NodesFinite DEF IsHeap
<1>10. \A i \in 1 .. Len(c) : IsNew(h, p, i)
  BY <1>1, <1>4, <1>8, SMTT(60) DEF IsNew
<1>11. ~IsNew(h, p, Len(c) + 1)
  BY <1>1, <1>8, <1>9 DEF IsNew
<1>12. \A k \in 0 .. N :
          (\A i \in 1 .. k : IsNew(h, p, i)) /\ ~IsNew(h, p, k + 1) => k = Len(c)
  BY <1>1, <1>10, <1>11
<1>13. Met(h, p) = Len(c)
  BY <1>1, <1>10, <1>11, <1>12 DEF Met, N
<1>14. Chain(h, front) = [i \in 1 .. Len(c) |-> p[i]]
  BY <1>13 DEF Chain, p
<1>15. [i \in 1 .. Len(c) |-> p[i]] = [i \in 1 .. Len(c) |-> c[i]]
  BY <1>1, <1>8
<1>16. [i \in 1 .. Len(c) |-> c[i]] = c
  BY <1>1
<1>17. WalkEnd(h, front) = p[Len(c) + 1]
  BY <1>13 DEF WalkEnd, p
<1>18. QED
  BY <1>1, <1>8, <1>14, <1>15, <1>16, <1>17

\* Walking a sound list uses no wild pointer and finds its last node.
LEMMA WalkOf ==
    ASSUME NEW h, IsHeap(h), NEW front, NEW c, Linked(h, front, c)
    PROVE  /\ Walk(h, front) = h
           /\ Len(c) # 0 => LastNode(h, front) = c[Len(c)]
           /\ front \in Pointers /\ (front = Null <=> Len(c) = 0)
<1>1. Walk(h, front) = h
  BY ChainOf DEF Walk, IsHeap, Heap
<1>2. c \in Seq(Nodes) /\ Null \notin Nodes
  BY NodesFinite DEF Linked
<1>3. Len(c) # 0 => c # <<>>
  OBVIOUS
<1>4. Len(c) # 0 => LastNode(h, front) = c[Len(c)]
  BY <1>3, ChainOf DEF LastNode, Last
<1>5. QED
  BY <1>1, <1>2, <1>4 DEF Linked, Pointers

\* Nodes that are left alone stay together.
LEMMA LeftAlone ==
    ASSUME NEW h, NEW g, NEW front, NEW c, Linked(h, front, c),
           \A i \in 1 .. Len(c) : c[i] \in g.live /\ g.node[c[i]] = h.node[c[i]]
    PROVE  Linked(g, front, c) /\ ItemsOn(g, c) = ItemsOn(h, c)
<1>1. c \in Seq(Nodes) /\ DOMAIN c = 1 .. Len(c)
  BY DEF Linked
<1>2. \A i \in 1 .. Len(c) : g.node[c[i]].next = IF i < Len(c) THEN c[i + 1] ELSE Null
  BY DEF Linked
<1>3. ASSUME NEW i \in 2 .. Len(c) PROVE g.node[c[i]].prev = c[i - 1]
  <2>1. i \in 1 .. Len(c)
    BY <1>1
  <2>2. QED
    BY <2>1 DEF Linked
<1>4. Linked(g, front, c)
  BY <1>2, <1>3 DEF Linked
<1>5. QED
  BY <1>1, <1>4 DEF ItemsOn

-----------------------------------------------------------------------------
(* The primitive operations *)

LEMMA AllocateShape ==
    ASSUME NEW h, IsHeap(h), Nodes \ h.live # {}, NEW x \in Held
    PROVE  LET f == Fresh(h)
               g == Allocate(h, x)
           IN  /\ f \in Nodes \ h.live
               /\ IsHeap(g) /\ g.live = h.live \union {f}
               /\ g.node[f] = Node(x, Null, Null)
               /\ \A m \in Pointers \ {f} : g.node[m] = h.node[m]
<1> DEFINE f == Fresh(h)
<1>1. f \in Nodes \ h.live
  BY DEF Fresh
<1> HIDE DEF f
<1>2. Node(x, Null, Null) \in Contents
  BY DEF Node, Contents, Pointers
<1> DEFINE node == [m \in Pointers |-> IF m = f THEN Node(x, Null, Null) ELSE h.node[m]]
<1>3. node \in [Pointers -> Contents]
  BY <1>2 DEF IsHeap
<1>4. Allocate(h, x) = Heap(node, h.live \union {f}, h.wild)
  BY DEF Allocate, f
<1> HIDE DEF node
<1>5. IsHeap(Allocate(h, x)) /\ Allocate(h, x).live = h.live \union {f}
  BY <1>1, <1>3, <1>4 DEF IsHeap, Heap
<1>6. Allocate(h, x).node = node
  BY <1>4 DEF Heap
<1>7. f \in Pointers
  BY <1>1 DEF Pointers
<1>8. QED
  BY <1>1, <1>5, <1>6, <1>7 DEF f, node

LEMMA WrittenShape ==
    ASSUME NEW h, IsHeap(h), NEW n \in h.live, NEW node \in Contents
    PROVE  LET g == Written(h, n, node)
           IN  /\ IsHeap(g) /\ g.live = h.live
               /\ g.node[n] = node
               /\ \A m \in Pointers \ {n} : g.node[m] = h.node[m]
<1> DEFINE new == [m \in Pointers |-> IF m = n THEN node ELSE h.node[m]]
<1>1. new \in [Pointers -> Contents]
  BY DEF IsHeap
<1>2. h.wild \union ({n} \ h.live) = {}
  BY DEF IsHeap
<1>3. Written(h, n, node) = Heap(new, h.live, {})
  BY <1>2 DEF Written
<1> HIDE DEF new
<1>4. IsHeap(Written(h, n, node)) /\ Written(h, n, node).live = h.live
  BY <1>1, <1>3 DEF IsHeap, Heap
<1>5. Written(h, n, node).node = new
  BY <1>3 DEF Heap
<1>6. n \in Pointers
  BY DEF IsHeap, Pointers
<1>7. QED
  BY <1>4, <1>5, <1>6 DEF new

LEMMA SetNextShape ==
    ASSUME NEW h, IsHeap(h), NEW n \in h.live, NEW p \in Pointers
    PROVE  LET g == SetNext(h, n, p)
           IN  /\ IsHeap(g) /\ g.live = h.live
               /\ g.node[n].item = h.node[n].item
               /\ g.node[n].next = p
               /\ g.node[n].prev = h.node[n].prev
               /\ \A m \in Pointers \ {n} : g.node[m] = h.node[m]
<1>1. n \in Pointers /\ h.node[n] \in Contents
  BY DEF IsHeap, Pointers
<1> DEFINE node == Node(h.node[n].item, p, h.node[n].prev)
<1>2. node \in Contents
  BY <1>1 DEF Node, Contents
<1>3. /\ node.item = h.node[n].item /\ node.next = p /\ node.prev = h.node[n].prev
  BY DEF Node
<1>4. SetNext(h, n, p) = Written(h, n, node)
  BY DEF SetNext
<1> HIDE DEF node
<1>5. QED
  BY <1>2, <1>3, <1>4, WrittenShape

LEMMA SetPrevShape ==
    ASSUME NEW h, IsHeap(h), NEW n \in h.live, NEW p \in Pointers
    PROVE  LET g == SetPrev(h, n, p)
           IN  /\ IsHeap(g) /\ g.live = h.live
               /\ g.node[n].item = h.node[n].item
               /\ g.node[n].next = h.node[n].next
               /\ g.node[n].prev = p
               /\ \A m \in Pointers \ {n} : g.node[m] = h.node[m]
<1>1. n \in Pointers /\ h.node[n] \in Contents
  BY DEF IsHeap, Pointers
<1> DEFINE node == Node(h.node[n].item, h.node[n].next, p)
<1>2. node \in Contents
  BY <1>1 DEF Node, Contents
<1>3. /\ node.item = h.node[n].item /\ node.next = h.node[n].next /\ node.prev = p
  BY DEF Node
<1>4. SetPrev(h, n, p) = Written(h, n, node)
  BY DEF SetPrev
<1> HIDE DEF node
<1>5. QED
  BY <1>2, <1>3, <1>4, WrittenShape

LEMMA FreeAllShape ==
    ASSUME NEW h, IsHeap(h), NEW nodes \in SUBSET h.live
    PROVE  LET g == FreeAll(h, nodes)
           IN  /\ IsHeap(g) /\ g.live = h.live \ nodes
               /\ \A m \in Pointers \ nodes : g.node[m] = h.node[m]
<1> DEFINE new == [m \in Pointers |-> IF m \in nodes THEN Blank ELSE h.node[m]]
<1>1. Blank \in Contents
  BY DEF Blank, Node, Contents, Held, Pointers
<1>2. new \in [Pointers -> Contents]
  BY <1>1 DEF IsHeap
<1>3. h.wild \union (nodes \ h.live) = {}
  BY DEF IsHeap
<1>4. FreeAll(h, nodes) = Heap(new, h.live \ nodes, {})
  BY <1>3 DEF FreeAll
<1> HIDE DEF new
<1>5. IsHeap(FreeAll(h, nodes)) /\ FreeAll(h, nodes).live = h.live \ nodes
  BY <1>2, <1>4 DEF IsHeap, Heap
<1>6. FreeAll(h, nodes).node = new
  BY <1>4 DEF Heap
<1>7. QED
  BY <1>5, <1>6 DEF new

-----------------------------------------------------------------------------
(* Inserting a node into a chain and removing one *)

LEMMA ItemsOnShape ==
    ASSUME NEW h, IsHeap(h), NEW c \in Seq(Nodes)
    PROVE  /\ ItemsOn(h, c) \in Seq(Held)
           /\ Len(ItemsOn(h, c)) = Len(c)
           /\ \A k \in 1 .. Len(c) : ItemsOn(h, c)[k] = h.node[c[k]].item
<1>1. DOMAIN c = 1 .. Len(c) /\ Len(c) \in Nat
  OBVIOUS
<1>2. \A k \in 1 .. Len(c) : h.node[c[k]].item \in Held
  <2>1. \A k \in 1 .. Len(c) : c[k] \in Pointers
    BY DEF Pointers
  <2>2. QED
    BY <2>1 DEF IsHeap, Contents
<1>3. ItemsOn(h, c) = [k \in 1 .. Len(c) |-> h.node[c[k]].item]
  BY <1>1 DEF ItemsOn
<1>4. QED
  BY <1>1, <1>2, <1>3

LEMMA ToSetShape ==
    ASSUME NEW S, NEW c \in Seq(S)
    PROVE  /\ ToSet(c) \subseteq S
           /\ \A n : n \in ToSet(c) <=> \E k \in 1 .. Len(c) : n = c[k]
BY DEF ToSet

LEMMA Inserted ==
    ASSUME NEW h, IsHeap(h), NEW front, NEW c, Linked(h, front, c),
           NEW i \in 1 .. Len(c) + 1, NEW f \in Nodes \ h.live, NEW x \in Held,
           NEW g, IsHeap(g), g.live = h.live \union {f},
           g.node[f].item = x,
           g.node[f].next = IF i <= Len(c) THEN c[i] ELSE Null,
           i > 1 => g.node[f].prev = c[i - 1],
           \A k \in 1 .. Len(c) :
              /\ g.node[c[k]].item = h.node[c[k]].item
              /\ g.node[c[k]].next = IF k = i - 1 THEN f ELSE h.node[c[k]].next
              /\ g.node[c[k]].prev = IF k = i THEN f ELSE h.node[c[k]].prev
    PROVE  LET d == InsertAt(c, i, f)
           IN  /\ Linked(g, IF i = 1 THEN f ELSE front, d)
               /\ ItemsOn(g, d) = InsertAt(ItemsOn(h, c), i, x)
               /\ ToSet(d) = ToSet(c) \union {f}
<1> DEFINE d == InsertAt(c, i, f)
<1>1. c \in Seq(Nodes) /\ Len(c) \in Nat
  BY DEF Linked
<1>2. /\ d \in Seq(Nodes) /\ Len(d) = Len(c) + 1
      /\ \A k \in 1 .. Len(c) + 1 :
            d[k] = IF k < i THEN c[k] ELSE IF k = i THEN f ELSE c[k - 1]
  <2>1. f \in Nodes
    OBVIOUS
  <2>2. QED
    BY <1>1, <2>1, InsertAtShape, SMTT(60)
<1> HIDE DEF d
<1>3. \A k \in 1 .. Len(c) : c[k] \in h.live /\ c[k] # f
  BY DEF Linked
<1>0. ASSUME NEW k \in 1 .. Len(d)
      PROVE  \/ k < i /\ k \in 1 .. Len(c) /\ d[k] = c[k]
             \/ k = i /\ d[k] = f
             \/ k > i /\ k - 1 \in 1 .. Len(c) /\ d[k] = c[k - 1]
  BY <1>1, <1>2
<1>4. \A k \in 1 .. Len(d) : d[k] \in g.live
  BY <1>0, <1>3
<1>5. ASSUME NEW j \in 1 .. Len(d), NEW k \in 1 .. Len(d), j # k PROVE d[j] # d[k]
  <2>1. \A a, b \in 1 .. Len(c) : a # b => c[a] # c[b]
    BY DEF Linked
  <2>2. QED
    BY <1>0, <1>1, <1>3, <1>5, <2>1, SMTT(60)
<1>6. (IF i = 1 THEN f ELSE front) = IF Len(d) = 0 THEN Null ELSE d[1]
  BY <1>1, <1>2 DEF Linked
<1>7. ASSUME NEW k \in 1 .. Len(d)
      PROVE  g.node[d[k]].next = IF k < Len(d) THEN d[k + 1] ELSE Null
  <2>1. \A a \in 1 .. Len(c) : h.node[c[a]].next = IF a < Len(c) THEN c[a + 1] ELSE Null
    BY DEF Linked
  <2>2. CASE k < i - 1
    <3>1. k \in 1 .. Len(c) /\ k < Len(c) /\ d[k] = c[k] /\ d[k + 1] = c[k + 1]
      BY <1>1, <1>2, <2>2
    <3>2. g.node[c[k]].next = h.node[c[k]].next
      BY <1>1, <2>2, <3>1
    <3>3. QED
      BY <1>1, <1>2, <2>1, <3>1, <3>2
  <2>3. CASE k = i - 1
    <3>1. k \in 1 .. Len(c) /\ d[k] = c[k] /\ d[k + 1] = f /\ k < Len(d)
      BY <1>1, <1>2, <2>3
    <3>2. QED
      BY <2>3, <3>1
  <2>4. CASE k = i
    BY <1>1, <1>2, <2>4
  <2>5. CASE k > i
    <3>1. d[k] = c[k - 1] /\ k - 1 \in 1 .. Len(c)
      BY <1>1, <1>2, <2>5
    <3>2. k < Len(d) => d[k + 1] = c[k]
      BY <1>1, <1>2, <2>5
    <3>3. g.node[c[k - 1]].next = IF k - 1 < Len(c) THEN c[k] ELSE Null
      BY <1>1, <2>1, <2>5, <3>1
    <3>4. QED
      BY <1>1, <1>2, <3>1, <3>2, <3>3
  <2>6. QED
    BY <1>1, <1>2, <2>2, <2>3, <2>4, <2>5
<1>8. ASSUME NEW k \in 2 .. Len(d) PROVE g.node[d[k]].prev = d[k - 1]
  <2>1. \A a \in 2 .. Len(c) : h.node[c[a]].prev = c[a - 1]
    BY DEF Linked
  <2>2. CASE k < i
    <3>1. d[k] = c[k] /\ d[k - 1] = c[k - 1] /\ k \in 2 .. Len(c)
      BY <1>1, <1>2, <2>2
    <3>2. QED
      BY <1>1, <2>1, <2>2, <3>1
  <2>3. CASE k = i
    BY <1>1, <1>2, <2>3
  <2>4. CASE k = i + 1
    <3>1. d[k] = c[i] /\ d[k - 1] = f /\ i \in 1 .. Len(c)
      BY <1>1, <1>2, <2>4
    <3>2. QED
      BY <3>1
  <2>5. CASE k > i + 1
    <3>1. d[k] = c[k - 1] /\ d[k - 1] = c[k - 2] /\ k - 1 \in 2 .. Len(c)
      BY <1>1, <1>2, <2>5
    <3>2. g.node[c[k - 1]].prev = h.node[c[k - 1]].prev
      BY <1>1, <2>5, <3>1
    <3>3. h.node[c[k - 1]].prev = c[k - 2]
      BY <1>1, <2>1, <3>1
    <3>4. QED
      BY <3>1, <3>2, <3>3
  <2>6. QED
    BY <1>1, <1>2, <2>2, <2>3, <2>4, <2>5
<1>9. Linked(g, IF i = 1 THEN f ELSE front, d)
  BY <1>2, <1>4, <1>5, <1>6, <1>7, <1>8 DEF Linked
<1>10. ItemsOn(g, d) = InsertAt(ItemsOn(h, c), i, x)
  <2> DEFINE s == ItemsOn(h, c)
  <2> DEFINE t == ItemsOn(g, d)
  <2>1. /\ s \in Seq(Held) /\ Len(s) = Len(c)
        /\ \A k \in 1 .. Len(c) : s[k] = h.node[c[k]].item
    BY <1>1, ItemsOnShape
  <2>2. /\ t \in Seq(Held) /\ Len(t) = Len(d)
        /\ \A k \in 1 .. Len(d) : t[k] = g.node[d[k]].item
    BY <1>2, ItemsOnShape
  <2> HIDE DEF s, t
  <2> DEFINE u == InsertAt(s, i, x)
  <2>3. /\ u \in Seq(Held) /\ Len(u) = Len(s) + 1
        /\ \A k \in 1 .. Len(s) + 1 :
              u[k] = IF k < i THEN s[k] ELSE IF k = i THEN x ELSE s[k - 1]
    <3>1. i \in 1 .. Len(s) + 1
      BY <2>1
    <3>2. QED
      BY <2>1, <3>1, InsertAtShape
  <2> HIDE DEF u
  <2>4. ASSUME NEW k \in 1 .. Len(t) PROVE t[k] = u[k]
    <3>1. CASE k < i
      <4>1. k \in 1 .. Len(c) /\ d[k] = c[k] /\ u[k] = s[k]
        BY <1>1, <1>2, <2>1, <2>2, <2>3, <3>1
      <4>2. t[k] = g.node[c[k]].item /\ s[k] = h.node[c[k]].item
        BY <1>2, <2>1, <2>2, <4>1
      <4>3. QED
        BY <4>1, <4>2
    <3>2. CASE k = i
      BY <1>1, <1>2, <2>1, <2>2, <2>3, <3>2
    <3>3. CASE k > i
      <4>1. k - 1 \in 1 .. Len(c) /\ d[k] = c[k - 1] /\ u[k] = s[k - 1]
        BY <1>1, <1>2, <2>1, <2>2, <2>3, <3>3
      <4>2. QED
        BY <1>2, <2>1, <2>2, <4>1
    <3>4. QED
      BY <1>1, <1>2, <2>2, <3>1, <3>2, <3>3
  <2>5. t = u
    BY <1>2, <2>1, <2>2, <2>3, <2>4, SeqEqual
  <2>6. QED
    BY <2>5 DEF s, t, u
<1>11. ToSet(d) = ToSet(c) \union {f}
  <2>1. ASSUME NEW n PROVE n \in ToSet(d) <=> n \in ToSet(c) \union {f}
    <3>1. n \in ToSet(c) <=> \E k \in 1 .. Len(c) : n = c[k]
      BY <1>1, ToSetShape
    <3>2. n \in ToSet(d) <=> \E k \in 1 .. Len(d) : n = d[k]
      BY <1>2, ToSetShape
    <3>3. ASSUME NEW k \in 1 .. Len(c), n = c[k] PROVE \E j \in 1 .. Len(d) : n = d[j]
      <4>1. CASE k < i
        BY <1>1, <1>2, <3>3, <4>1
      <4>2. CASE k >= i
        <5>1. k + 1 \in 1 .. Len(d) /\ d[k + 1] = c[k]
          BY <1>1, <1>2, <4>2
        <5>2. QED
          BY <3>3, <5>1
      <4>3. QED
        BY <1>1, <4>1, <4>2
    <3>4. d[i] = f /\ i \in 1 .. Len(d)
      BY <1>1, <1>2
    <3>5. ASSUME NEW k \in 1 .. Len(d), n = d[k]
          PROVE  n = f \/ \E j \in 1 .. Len(c) : n = c[j]
      BY <1>1, <1>2, <3>5
    <3>6. QED
      BY <3>1, <3>2, <3>3, <3>4, <3>5
  <2>2. QED
    BY <2>1
<1>12. QED
  BY <1>9, <1>10, <1>11 DEF d

LEMMA Removed ==
    ASSUME NEW h, IsHeap(h), NEW front, NEW c, Linked(h, front, c), NEW i \in 1 .. Len(c),
           NEW g, IsHeap(g), g.live = h.live \ {c[i]},
           \A k \in 1 .. Len(c) : k # i =>
              /\ g.node[c[k]].item = h.node[c[k]].item
              /\ g.node[c[k]].next = IF k = i - 1 THEN h.node[c[i]].next ELSE h.node[c[k]].next
              /\ k # i + 1 => g.node[c[k]].prev = h.node[c[k]].prev
              /\ k = i + 1 /\ i > 1 => g.node[c[k]].prev = c[i - 1]
    PROVE  LET d == RemoveAt(c, i)
           IN  /\ Linked(g, IF i = 1 THEN h.node[c[1]].next ELSE front, d)
               /\ ItemsOn(g, d) = RemoveAt(ItemsOn(h, c), i)
               /\ ToSet(d) = ToSet(c) \ {c[i]}
<1> DEFINE d == RemoveAt(c, i)
<1>1. c \in Seq(Nodes) /\ Len(c) \in Nat
  BY DEF Linked
<1>2. /\ d \in Seq(Nodes) /\ Len(d) = Len(c) - 1
      /\ \A k \in 1 .. Len(c) - 1 : d[k] = IF k < i THEN c[k] ELSE c[k + 1]
  BY <1>1, RemoveAtShape
<1> HIDE DEF d
<1>3. ASSUME NEW k \in 1 .. Len(d)
      PROVE  \/ k < i /\ k \in 1 .. Len(c) /\ k # i /\ d[k] = c[k]
             \/ k >= i /\ k + 1 \in 1 .. Len(c) /\ k + 1 # i /\ d[k] = c[k + 1]
  BY <1>1, <1>2
<1>4. /\ \A a \in 1 .. Len(c) : c[a] \in h.live
      /\ \A a, b \in 1 .. Len(c) : a # b => c[a] # c[b]
      /\ front = c[1]
      /\ \A a \in 1 .. Len(c) : h.node[c[a]].next = IF a < Len(c) THEN c[a + 1] ELSE Null
      /\ \A a \in 2 .. Len(c) : h.node[c[a]].prev = c[a - 1]
  BY <1>1 DEF Linked
<1>5. \A k \in 1 .. Len(d) : d[k] \in g.live
  BY <1>3, <1>4
<1>6. ASSUME NEW j \in 1 .. Len(d), NEW k \in 1 .. Len(d), j # k PROVE d[j] # d[k]
  <2>1. \/ d[j] = c[j] /\ j < i /\ j \in 1 .. Len(c)
        \/ d[j] = c[j + 1] /\ j >= i /\ j + 1 \in 1 .. Len(c)
    BY <1>3
  <2>2. \/ d[k] = c[k] /\ k < i /\ k \in 1 .. Len(c)
        \/ d[k] = c[k + 1] /\ k >= i /\ k + 1 \in 1 .. Len(c)
    BY <1>3
  <2>3. QED
    BY <1>1, <1>2, <1>4, <1>6, <2>1, <2>2
<1>7. (IF i = 1 THEN h.node[c[1]].next ELSE front) = IF Len(d) = 0 THEN Null ELSE d[1]
  <2>1. CASE i = 1
    <3>1. h.node[c[1]].next = IF 1 < Len(c) THEN c[2] ELSE Null
      BY <1>1, <1>4
    <3>2. QED
      BY <1>1, <1>2, <2>1, <3>1
  <2>2. CASE i # 1
    BY <1>1, <1>2, <1>4, <2>2
  <2>3. QED
    BY <2>1, <2>2
<1>8. ASSUME NEW k \in 1 .. Len(d)
      PROVE  g.node[d[k]].next = IF k < Len(d) THEN d[k + 1] ELSE Null
  <2>1. CASE k < i - 1
    <3>1. k \in 1 .. Len(c) /\ k < Len(c) /\ k < Len(d) /\ d[k] = c[k] /\ d[k + 1] = c[k + 1]
      BY <1>1, <1>2, <2>1
    <3>2. g.node[c[k]].next = h.node[c[k]].next
      BY <1>1, <2>1, <3>1
    <3>3. QED
      BY <1>4, <3>1, <3>2
  <2>2. CASE k = i - 1
    <3>1. k \in 1 .. Len(c) /\ k # i /\ d[k] = c[k] /\ (k < Len(d) <=> i < Len(c))
      BY <1>1, <1>2, <2>2
    <3>2. k < Len(d) => d[k + 1] = c[i + 1]
      BY <1>1, <1>2, <2>2
    <3>3. g.node[c[k]].next = h.node[c[i]].next
      BY <2>2, <3>1
    <3>4. h.node[c[i]].next = IF i < Len(c) THEN c[i + 1] ELSE Null
      BY <1>4
    <3>5. QED
      BY <3>1, <3>2, <3>3, <3>4
  <2>3. CASE k > i - 1
    <3>1. k + 1 \in 1 .. Len(c) /\ k + 1 # i /\ d[k] = c[k + 1] /\ (k < Len(d) <=> k + 1 < Len(c))
      BY <1>1, <1>2, <2>3
    <3>2. k < Len(d) => d[k + 1] = c[k + 2]
      BY <1>1, <1>2, <2>3
    <3>3. g.node[c[k + 1]].next = h.node[c[k + 1]].next
      BY <1>1, <2>3, <3>1
    <3>4. h.node[c[k + 1]].next = IF k + 1 < Len(c) THEN c[k + 2] ELSE Null
      BY <1>1, <1>4, <3>1
    <3>5. QED
      BY <3>1, <3>2, <3>3, <3>4
  <2>4. QED
    BY <1>1, <1>2, <2>1, <2>2, <2>3
<1>9. ASSUME NEW k \in 2 .. Len(d) PROVE g.node[d[k]].prev = d[k - 1]
  <2>1. CASE k < i
    <3>1. k \in 2 .. Len(c) /\ k # i /\ k # i + 1 /\ d[k] = c[k] /\ d[k - 1] = c[k - 1]
      BY <1>1, <1>2, <2>1
    <3>2. g.node[c[k]].prev = h.node[c[k]].prev
      BY <1>1, <3>1
    <3>3. QED
      BY <1>4, <3>1, <3>2
  <2>2. CASE k = i
    <3>1. k + 1 \in 1 .. Len(c) /\ k + 1 # i /\ k + 1 = i + 1 /\ i > 1
          /\ d[k] = c[k + 1] /\ d[k - 1] = c[i - 1]
      BY <1>1, <1>2, <2>2
    <3>2. QED
      BY <3>1
  <2>3. CASE k > i
    <3>1. k + 1 \in 2 .. Len(c) /\ k + 1 # i /\ k + 1 # i + 1 /\ d[k] = c[k + 1] /\ d[k - 1] = c[k]
      BY <1>1, <1>2, <2>3, SMTT(60)
    <3>2. g.node[c[k + 1]].prev = h.node[c[k + 1]].prev
      BY <1>1, <3>1, SMTT(30)
    <3>3. h.node[c[k + 1]].prev = c[k]
      BY <1>1, <1>4, <3>1
    <3>4. QED
      BY <3>1, <3>2, <3>3
  <2>4. QED
    BY <1>1, <1>2, <2>1, <2>2, <2>3
<1>10. Linked(g, IF i = 1 THEN h.node[c[1]].next ELSE front, d)
  BY <1>2, <1>5, <1>6, <1>7, <1>8, <1>9 DEF Linked
<1>11. ItemsOn(g, d) = RemoveAt(ItemsOn(h, c), i)
  <2> DEFINE S == Held
  <2> DEFINE s == ItemsOn(h, c)
  <2> DEFINE t == ItemsOn(g, d)
  <2>1. /\ s \in Seq(S) /\ Len(s) = Len(c)
        /\ \A k \in 1 .. Len(c) : s[k] = h.node[c[k]].item
    BY <1>1, ItemsOnShape
  <2>2. /\ t \in Seq(S) /\ Len(t) = Len(d)
        /\ \A k \in 1 .. Len(d) : t[k] = g.node[d[k]].item
    BY <1>2, ItemsOnShape
  <2> HIDE DEF s, t, S
  <2> DEFINE u == RemoveAt(s, i)
  <2>3. /\ u \in Seq(S) /\ Len(u) = Len(s) - 1
        /\ \A k \in 1 .. Len(s) - 1 : u[k] = IF k < i THEN s[k] ELSE s[k + 1]
    <3>1. i \in 1 .. Len(s)
      BY <2>1
    <3>2. QED
      BY <2>1, <3>1, RemoveAtShape
  <2> HIDE DEF u
  <2>4. ASSUME NEW k \in 1 .. Len(t) PROVE t[k] = u[k]
    <3>1. CASE k < i
      <4>1. k \in 1 .. Len(c) /\ k # i /\ d[k] = c[k] /\ u[k] = s[k] /\ k \in 1 .. Len(d)
        BY <1>1, <1>2, <2>1, <2>2, <2>3, <3>1
      <4>2. QED
        BY <2>1, <2>2, <4>1
    <3>2. CASE k >= i
      <4>1. k + 1 \in 1 .. Len(c) /\ k + 1 # i /\ d[k] = c[k + 1] /\ u[k] = s[k + 1] /\ k \in 1 .. Len(d)
        BY <1>1, <1>2, <2>1, <2>2, <2>3, <3>2
      <4>2. QED
        BY <2>1, <2>2, <4>1
    <3>3. QED
      BY <1>1, <1>2, <2>2, <3>1, <3>2
  <2>5. t = u
    BY <1>2, <2>1, <2>2, <2>3, <2>4, SeqEqual
  <2>6. QED
    BY <2>5 DEF s, t, u
<1>12. ToSet(d) = ToSet(c) \ {c[i]}
  <2>1. ASSUME NEW n PROVE n \in ToSet(d) <=> n \in ToSet(c) \ {c[i]}
    <3>1. n \in ToSet(c) <=> \E k \in 1 .. Len(c) : n = c[k]
      BY <1>1, ToSetShape
    <3>2. n \in ToSet(d) <=> \E k \in 1 .. Len(d) : n = d[k]
      BY <1>2, ToSetShape
    <3>3. ASSUME NEW k \in 1 .. Len(c), n = c[k], k # i PROVE \E j \in 1 .. Len(d) : n = d[j]
      <4>1. CASE k < i
        <5>1. k \in 1 .. Len(d) /\ d[k] = c[k]
          BY <1>1, <1>2, <4>1
        <5>2. QED
          BY <3>3, <5>1
      <4>2. CASE k > i
        <5>1. k - 1 \in 1 .. Len(d) /\ d[k - 1] = c[k]
          BY <1>1, <1>2, <4>2
        <5>2. QED
          BY <3>3, <5>1
      <4>3. QED
        BY <1>1, <3>3, <4>1, <4>2
    <3>4. ASSUME NEW k \in 1 .. Len(d), n = d[k]
          PROVE  n # c[i] /\ \E j \in 1 .. Len(c) : n = c[j]
      BY <1>3, <1>4, <3>4
    <3>5. QED
      BY <3>1, <3>2, <3>3, <3>4
  <2>2. QED
    BY <2>1
<1>13. QED
  BY <1>10, <1>11, <1>12 DEF d

-----------------------------------------------------------------------------
(* The functions of linked_list_functions.h *)

\* The result "out" of an operation on the list "c" of heap "h" is the list "d",
\* and nothing but the nodes of the two differs.
Edit(h, c, out, d) ==
    /\ IsHeap(out.heap)
    /\ Linked(out.heap, out.head, d)
    /\ out.heap.live = (h.live \ ToSet(c)) \union ToSet(d)
    /\ \A m \in Nodes \ (ToSet(c) \union ToSet(d)) : out.heap.node[m] = h.node[m]

Inserts(h, c, i, x, out) ==
    LET d == InsertAt(c, i, out.node)
    IN  /\ out.node \in Nodes \ h.live
        /\ Edit(h, c, out, d)
        /\ ItemsOn(out.heap, d) = InsertAt(ItemsOn(h, c), i, x)

Deletes(h, c, i, out) ==
    LET d == RemoveAt(c, i)
    IN  /\ Edit(h, c, out, d)
        /\ ItemsOn(out.heap, d) = RemoveAt(ItemsOn(h, c), i)

\* On heap "g", the new node "f" was put at position "i" of the list "c".
Spliced(h, c, i, x, g, f) ==
    /\ IsHeap(g) /\ f \in Nodes \ h.live /\ g.live = h.live \union {f}
    /\ g.node[f].item = x
    /\ g.node[f].next = IF i <= Len(c) THEN c[i] ELSE Null
    /\ i > 1 => g.node[f].prev = c[i - 1]
    /\ \A k \in 1 .. Len(c) :
          /\ g.node[c[k]].item = h.node[c[k]].item
          /\ g.node[c[k]].next = IF k = i - 1 THEN f ELSE h.node[c[k]].next
          /\ g.node[c[k]].prev = IF k = i THEN f ELSE h.node[c[k]].prev
    /\ \A m \in Nodes \ (ToSet(c) \union {f}) : g.node[m] = h.node[m]

LEMMA SplicedInserts ==
    ASSUME NEW h, IsHeap(h), NEW front, NEW c, Linked(h, front, c),
           NEW i \in 1 .. Len(c) + 1, NEW x \in Held, NEW g, NEW f, Spliced(h, c, i, x, g, f)
    PROVE  Inserts(h, c, i, x, Out(g, IF i = 1 THEN f ELSE front, f))
<1> DEFINE d == InsertAt(c, i, f)
<1> DEFINE out == Out(g, IF i = 1 THEN f ELSE front, f)
<1>1. /\ Linked(g, IF i = 1 THEN f ELSE front, d)
      /\ ItemsOn(g, d) = InsertAt(ItemsOn(h, c), i, x)
      /\ ToSet(d) = ToSet(c) \union {f}
  BY Inserted DEF Spliced
<1>2. ToSet(c) \subseteq h.live
  BY ToSetShape DEF Linked
<1> HIDE DEF d
<1>3. out.heap = g /\ out.head = (IF i = 1 THEN f ELSE front) /\ out.node = f
  BY DEF Out
<1> HIDE DEF out
<1>4. Edit(h, c, out, d)
  BY <1>1, <1>2, <1>3 DEF Edit, Spliced
<1>5. QED
  BY <1>1, <1>3, <1>4 DEF Inserts, Spliced, d, out

\* Where the nodes of a list are.
LEMMA LinkedFacts ==
    ASSUME NEW h, IsHeap(h), NEW front, NEW c, Linked(h, front, c)
    PROVE  /\ c \in Seq(Nodes) /\ Len(c) \in Nat
           /\ \A k \in 1 .. Len(c) : c[k] \in h.live /\ c[k] \in Pointers /\ c[k] \in ToSet(c)
           /\ \A j, k \in 1 .. Len(c) : j # k => c[j] # c[k]
           /\ \A k \in 1 .. Len(c) : h.node[c[k]].next = IF k < Len(c) THEN c[k + 1] ELSE Null
           /\ \A k \in 2 .. Len(c) : h.node[c[k]].prev = c[k - 1]
           /\ front = IF Len(c) = 0 THEN Null ELSE c[1]
           /\ front \in Pointers /\ (front = Null <=> Len(c) = 0)
           /\ ToSet(c) \subseteq h.live /\ h.live \subseteq Pointers /\ Null \notin h.live
<1>1. c \in Seq(Nodes) /\ Len(c) \in Nat
  BY DEF Linked
<1>2. Null \notin Nodes
  BY NodesFinite
<1>3. \A n : n \in ToSet(c) <=> \E k \in 1 .. Len(c) : n = c[k]
  BY <1>1, ToSetShape
<1>4. QED
  BY <1>1, <1>2, <1>3 DEF Linked, IsHeap, Pointers

LEMMA InsertHeadInserts ==
    ASSUME NEW h, IsHeap(h), NEW front, NEW c, Linked(h, front, c),
           Nodes \ h.live # {}, NEW x \in Held
    PROVE  Inserts(h, c, 1, x, InsertHead(h, front, x))
<1> DEFINE f == Fresh(h)
<1> DEFINE a == Allocate(h, x)
<1>1. /\ f \in Nodes \ h.live
      /\ IsHeap(a) /\ a.live = h.live \union {f}
      /\ a.node[f] = Node(x, Null, Null)
      /\ \A m \in Pointers \ {f} : a.node[m] = h.node[m]
  BY AllocateShape
<1>2. a.node[f].item = x /\ a.node[f].next = Null
  BY <1>1 DEF Node
<1>3. InsertHead(h, front, x) = LinkHead(a, f, front)
  BY DEF InsertHead
<1> HIDE DEF f, a
<1>4. f \in Pointers /\ Nodes \subseteq Pointers
  BY <1>1 DEF Pointers
<1>5. CASE Len(c) = 0
  <2>1. LinkHead(a, f, front) = Out(a, f, f)
    BY <1>5, LinkedFacts DEF LinkHead
  <2>2. Spliced(h, c, 1, x, a, f)
    BY <1>1, <1>2, <1>4, <1>5 DEF Spliced
  <2>3. 1 \in 1 .. Len(c) + 1
    BY <1>5
  <2>4. Inserts(h, c, 1, x, Out(a, f, f))
    BY <2>2, <2>3, SplicedInserts
  <2>5. QED
    BY <1>3, <2>1, <2>4
<1>6. CASE Len(c) # 0
  <2> DEFINE g1 == SetNext(a, f, front)
  <2> DEFINE g == SetPrev(g1, front, f)
  <2>1. front = c[1] /\ front \in h.live /\ front \in Pointers /\ front # Null /\ 1 \in 1 .. Len(c)
        /\ front # f
    BY <1>1, <1>6, LinkedFacts
  <2>2. LinkHead(a, f, front) = Out(g, f, f)
    BY <2>1 DEF LinkHead
  <2>3. /\ IsHeap(g1) /\ g1.live = h.live \union {f}
        /\ g1.node[f].item = x /\ g1.node[f].next = front
        /\ \A m \in Pointers \ {f} : g1.node[m] = h.node[m]
    BY <1>1, <1>2, <2>1, SetNextShape
  <2> HIDE DEF g1
  <2>4. /\ IsHeap(g) /\ g.live = h.live \union {f}
        /\ g.node[front].item = g1.node[front].item
        /\ g.node[front].next = g1.node[front].next
        /\ g.node[front].prev = f
        /\ \A m \in Pointers \ {front} : g.node[m] = g1.node[m]
    BY <1>4, <2>1, <2>3, SetPrevShape
  <2> HIDE DEF g
  <2>5. g.node[f] = g1.node[f] /\ g1.node[front] = h.node[front]
    BY <1>4, <2>1, <2>3, <2>4
  <2>6. ASSUME NEW k \in 1 .. Len(c)
        PROVE  /\ g.node[c[k]].item = h.node[c[k]].item
               /\ g.node[c[k]].next = IF k = 1 - 1 THEN f ELSE h.node[c[k]].next
               /\ g.node[c[k]].prev = IF k = 1 THEN f ELSE h.node[c[k]].prev
    <3>1. CASE k = 1
      BY <2>1, <2>4, <2>5, <3>1
    <3>2. CASE k # 1
      <4>1. c[k] # front /\ c[k] # f /\ c[k] \in Pointers
        BY <1>1, <2>1, <3>2, LinkedFacts
      <4>2. g.node[c[k]] = h.node[c[k]]
        BY <2>3, <2>4, <4>1
      <4>3. QED
        BY <3>2, <4>2
    <3>3. QED
      BY <3>1, <3>2
  <2>7. \A m \in Nodes \ (ToSet(c) \union {f}) : g.node[m] = h.node[m]
    <3>1. front \in ToSet(c)
      BY <2>1, LinkedFacts
    <3>2. QED
      BY <1>4, <2>3, <2>4, <3>1
  <2>8. Spliced(h, c, 1, x, g, f)
    BY <1>1, <2>1, <2>3, <2>4, <2>5, <2>6, <2>7 DEF Spliced
  <2>9. 1 \in 1 .. Len(c) + 1
    BY <2>1
  <2>10. Inserts(h, c, 1, x, Out(g, f, f))
    BY <2>8, <2>9, SplicedInserts
  <2>11. QED
    BY <1>3, <2>2, <2>10
<1>7. QED
  BY <1>5, <1>6

\* A node is appended to a list whose last node is known.
LEMMA LinkTailInserts ==
    ASSUME NEW h, IsHeap(h), NEW front, NEW c, Linked(h, front, c), Len(c) # 0,
           Nodes \ h.live # {}, NEW x \in Held
    PROVE  LET out == LinkTail(Allocate(h, x), Fresh(h), front, c[Len(c)])
           IN  Inserts(h, c, Len(c) + 1, x, out) /\ out.head = front
<1> DEFINE n == Len(c)
<1> DEFINE f == Fresh(h)
<1> DEFINE a == Allocate(h, x)
<1> DEFINE last == c[n]
<1> DEFINE g1 == SetNext(a, last, f)
<1> DEFINE g == SetPrev(g1, f, last)
<1>1. /\ f \in Nodes \ h.live
      /\ IsHeap(a) /\ a.live = h.live \union {f}
      /\ a.node[f] = Node(x, Null, Null)
      /\ \A m \in Pointers \ {f} : a.node[m] = h.node[m]
  BY AllocateShape
<1>2. a.node[f].item = x /\ a.node[f].next = Null
  BY <1>1 DEF Node
<1> HIDE DEF f, a
<1>3. f \in Pointers /\ Nodes \subseteq Pointers
  BY <1>1 DEF Pointers
<1>4. n \in Nat /\ n \in 1 .. n
  BY LinkedFacts
<1>5. last \in h.live /\ last \in Pointers /\ last # f /\ last \in ToSet(c)
  BY <1>1, <1>4, LinkedFacts
<1>6. LinkTail(Allocate(h, x), Fresh(h), front, c[n]) = Out(g, front, f)
  BY DEF LinkTail, f, a
<1>7. /\ IsHeap(g1) /\ g1.live = h.live \union {f}
      /\ g1.node[last].item = a.node[last].item
      /\ g1.node[last].next = f
      /\ g1.node[last].prev = a.node[last].prev
      /\ \A m \in Pointers \ {last} : g1.node[m] = a.node[m]
  BY <1>1, <1>3, <1>5, SetNextShape
<1> HIDE DEF g1
<1>8. /\ IsHeap(g) /\ g.live = h.live \union {f}
      /\ g.node[f].item = g1.node[f].item
      /\ g.node[f].next = g1.node[f].next
      /\ g.node[f].prev = last
      /\ \A m \in Pointers \ {f} : g.node[m] = g1.node[m]
  BY <1>3, <1>5, <1>7, SetPrevShape
<1> HIDE DEF g, last
<1>9. g.node[f].item = x /\ g.node[f].next = Null
  BY <1>2, <1>3, <1>5, <1>7, <1>8
<1>10. ASSUME NEW k \in 1 .. n
       PROVE  /\ g.node[c[k]].item = h.node[c[k]].item
              /\ g.node[c[k]].next = IF k = (n + 1) - 1 THEN f ELSE h.node[c[k]].next
              /\ g.node[c[k]].prev = IF k = n + 1 THEN f ELSE h.node[c[k]].prev
  <2>1. c[k] # f /\ c[k] \in Pointers
    BY <1>1, LinkedFacts, SMTT(60)
  <2>2. g.node[c[k]] = g1.node[c[k]] /\ a.node[c[k]] = h.node[c[k]]
    BY <1>1, <1>8, <2>1
  <2>3. CASE k = n
    <3>1. c[k] = last
      BY <2>3 DEF last
    <3>2. QED
      BY <1>4, <1>7, <2>2, <2>3, <3>1
  <2>4. CASE k # n
    <3>1. c[k] # last
      BY <1>4, <2>4, LinkedFacts DEF last
    <3>2. g1.node[c[k]] = a.node[c[k]]
      BY <1>7, <2>1, <3>1
    <3>3. QED
      BY <1>4, <2>2, <2>4, <3>2
  <2>5. QED
    BY <2>3, <2>4
<1>11. \A m \in Nodes \ (ToSet(c) \union {f}) : g.node[m] = h.node[m]
  BY <1>1, <1>3, <1>5, <1>7, <1>8
<1>12. Spliced(h, c, n + 1, x, g, f)
  <2>1. n + 1 > 1 => g.node[f].prev = c[(n + 1) - 1]
    BY <1>4, <1>8 DEF last
  <2>2. g.node[f].next = IF n + 1 <= n THEN c[n + 1] ELSE Null
    BY <1>4, <1>9
  <2>3. QED
    BY <1>1, <1>8, <1>9, <1>10, <1>11, <2>1, <2>2 DEF Spliced
<1>13. n + 1 \in 1 .. n + 1 /\ n + 1 # 1
  BY <1>4
<1>14. Inserts(h, c, n + 1, x, Out(g, front, f))
  BY <1>12, <1>13, SplicedInserts
<1>15. QED
  BY <1>6, <1>14 DEF Out

LEMMA InsertTailInserts ==
    ASSUME NEW h, IsHeap(h), NEW front, NEW c, Linked(h, front, c),
           Nodes \ h.live # {}, NEW x \in Held
    PROVE  Inserts(h, c, Len(c) + 1, x, InsertTail(h, front, x))
<1>1. CASE Len(c) = 0
  <2>1. InsertTail(h, front, x) = InsertHead(h, front, x)
    BY <1>1, LinkedFacts DEF InsertTail
  <2>2. Len(c) + 1 = 1
    BY <1>1
  <2>3. QED
    BY <2>1, <2>2, InsertHeadInserts
<1>2. CASE Len(c) # 0
  <2>1. InsertTail(h, front, x) = LinkTail(Allocate(h, x), Fresh(h), front, c[Len(c)])
    BY <1>2, LinkedFacts, WalkOf DEF InsertTail
  <2>2. QED
    BY <1>2, <2>1, LinkTailInserts
<1>3. QED
  BY <1>1, <1>2

\* A node is put between two nodes that follow each other.
LEMMA LinkBetweenInserts ==
    ASSUME NEW h, IsHeap(h), NEW front, NEW c, Linked(h, front, c), NEW i \in 2 .. Len(c),
           Nodes \ h.live # {}, NEW x \in Held
    PROVE  Inserts(h, c, i, x, LinkBetween(Allocate(h, x), Fresh(h), front, c[i - 1], c[i]))
<1> DEFINE f == Fresh(h)
<1> DEFINE a == Allocate(h, x)
<1> DEFINE prev == c[i - 1]
<1> DEFINE next == c[i]
<1> DEFINE g1 == SetNext(a, f, next)
<1> DEFINE g2 == SetPrev(g1, next, f)
<1> DEFINE g3 == SetNext(g2, prev, f)
<1> DEFINE g == SetPrev(g3, f, prev)
<1>1. /\ f \in Nodes \ h.live
      /\ IsHeap(a) /\ a.live = h.live \union {f}
      /\ a.node[f] = Node(x, Null, Null)
      /\ \A m \in Pointers \ {f} : a.node[m] = h.node[m]
  BY AllocateShape
<1>2. a.node[f].item = x
  BY <1>1 DEF Node
<1> HIDE DEF f, a
<1>3. f \in Pointers /\ Nodes \subseteq Pointers
  BY <1>1 DEF Pointers
<1>4. Len(c) \in Nat /\ i \in 1 .. Len(c) /\ i - 1 \in 1 .. Len(c) /\ i \in 1 .. Len(c) + 1 /\ i # 1
  BY LinkedFacts
<1>5. /\ prev \in h.live /\ prev \in Pointers /\ prev # f /\ prev \in ToSet(c)
      /\ next \in h.live /\ next \in Pointers /\ next # f /\ next \in ToSet(c)
      /\ prev # next
  BY <1>1, <1>4, LinkedFacts
<1>6. LinkBetween(Allocate(h, x), Fresh(h), front, c[i - 1], c[i]) = Out(g, front, f)
  BY DEF LinkBetween, f, a
<1>0. /\ \A k \in 1 .. Len(c) : k = i <=> c[k] = next
      /\ \A k \in 1 .. Len(c) : k = i - 1 <=> c[k] = prev
  BY <1>4, LinkedFacts
<1>7. /\ IsHeap(g1) /\ g1.live = h.live \union {f}
      /\ g1.node[f].item = x /\ g1.node[f].next = next
      /\ \A m \in Pointers \ {f} : g1.node[m] = h.node[m]
  BY <1>1, <1>2, <1>5, SetNextShape
<1> HIDE DEF g1
<1>8. /\ IsHeap(g2) /\ g2.live = h.live \union {f}
      /\ g2.node[next].item = g1.node[next].item
      /\ g2.node[next].next = g1.node[next].next
      /\ g2.node[next].prev = f
      /\ \A m \in Pointers \ {next} : g2.node[m] = g1.node[m]
  BY <1>3, <1>5, <1>7, SetPrevShape
<1> HIDE DEF g2
<1>9. /\ IsHeap(g3) /\ g3.live = h.live \union {f}
      /\ g3.node[prev].item = g2.node[prev].item
      /\ g3.node[prev].next = f
      /\ g3.node[prev].prev = g2.node[prev].prev
      /\ \A m \in Pointers \ {prev} : g3.node[m] = g2.node[m]
  BY <1>3, <1>5, <1>8, SetNextShape
<1> HIDE DEF g3
<1>10. /\ IsHeap(g) /\ g.live = h.live \union {f}
       /\ g.node[f].item = g3.node[f].item
       /\ g.node[f].next = g3.node[f].next
       /\ g.node[f].prev = prev
       /\ \A m \in Pointers \ {f} : g.node[m] = g3.node[m]
  BY <1>3, <1>5, <1>9, SetPrevShape
<1> HIDE DEF g, prev, next
<1>11. g.node[f].item = x /\ g.node[f].next = next /\ g.node[f].prev = prev
  BY <1>3, <1>5, <1>7, <1>8, <1>9, <1>10
<1>12. /\ g.node[next].item = h.node[next].item
       /\ g.node[next].next = h.node[next].next
       /\ g.node[next].prev = f
       /\ g.node[prev].item = h.node[prev].item
       /\ g.node[prev].next = f
       /\ g.node[prev].prev = h.node[prev].prev
  BY <1>5, <1>7, <1>8, <1>9, <1>10
<1>13. \A m \in Pointers \ {f, prev, next} : g.node[m] = h.node[m]
  BY <1>7, <1>8, <1>9, <1>10
<1>14. ASSUME NEW k \in 1 .. Len(c)
       PROVE  /\ g.node[c[k]].item = h.node[c[k]].item
              /\ g.node[c[k]].next = IF k = i - 1 THEN f ELSE h.node[c[k]].next
              /\ g.node[c[k]].prev = IF k = i THEN f ELSE h.node[c[k]].prev
  <2>1. c[k] # f /\ c[k] \in Pointers
    BY <1>1, LinkedFacts
  <2>2. CASE c[k] = next
    BY <1>0, <1>5, <1>12, <2>2
  <2>3. CASE c[k] = prev
    BY <1>0, <1>5, <1>12, <2>3
  <2>4. CASE c[k] # next /\ c[k] # prev
    <3>1. g.node[c[k]] = h.node[c[k]]
      BY <1>13, <2>1, <2>4
    <3>2. QED
      BY <1>0, <2>4, <3>1
  <2>5. QED
    BY <2>2, <2>3, <2>4
<1>15. \A m \in Nodes \ (ToSet(c) \union {f}) : g.node[m] = h.node[m]
  BY <1>3, <1>5, <1>13
<1>16. Spliced(h, c, i, x, g, f)
  <2>1. i > 1 => g.node[f].prev = c[i - 1]
    BY <1>11 DEF prev
  <2>2. g.node[f].next = IF i <= Len(c) THEN c[i] ELSE Null
    BY <1>4, <1>11 DEF next
  <2>3. QED
    BY <1>1, <1>10, <1>11, <1>14, <1>15, <2>1, <2>2 DEF Spliced
<1>17. Inserts(h, c, i, x, Out(g, front, f))
  BY <1>4, <1>16, SplicedInserts
<1>18. QED
  BY <1>6, <1>17

LEMMA InsertBeforeInserts ==
    ASSUME NEW h, IsHeap(h), NEW front, NEW c, Linked(h, front, c), NEW i \in 1 .. Len(c),
           Nodes \ h.live # {}, NEW x \in Held
    PROVE  Inserts(h, c, i, x, InsertBefore(h, front, c[i], x))
<1>1. CASE i = 1
  <2>1. front = c[i]
    BY <1>1, LinkedFacts
  <2>2. InsertBefore(h, front, c[i], x) = InsertHead(h, front, x)
    BY <2>1 DEF InsertBefore
  <2>3. QED
    BY <1>1, <2>2, InsertHeadInserts
<1>2. CASE i # 1
  <2>1. i \in 2 .. Len(c) /\ 1 \in 1 .. Len(c) /\ Len(c) # 0
    BY <1>2, LinkedFacts
  <2>2. front # Null /\ front # c[i] /\ h.node[c[i]].prev = c[i - 1]
    BY <1>2, <2>1, LinkedFacts
  <2>3. InsertBefore(h, front, c[i], x) = LinkBetween(Allocate(h, x), Fresh(h), front, c[i - 1], c[i])
    BY <2>2 DEF InsertBefore
  <2>4. QED
    BY <2>1, <2>3, LinkBetweenInserts
<1>3. QED
  BY <1>1, <1>2

LEMMA InsertAfterInserts ==
    ASSUME NEW h, IsHeap(h), NEW front, NEW c, Linked(h, front, c), NEW i \in 1 .. Len(c),
           Nodes \ h.live # {}, NEW x \in Held
    PROVE  Inserts(h, c, i + 1, x, InsertAfter(h, front, c[i], x))
<1>1. Len(c) \in Nat /\ Len(c) # 0 /\ Len(c) \in 1 .. Len(c)
  BY LinkedFacts
<1>2. front # Null /\ LastNode(h, front) = c[Len(c)] /\ Walk(h, front) = h
  BY <1>1, LinkedFacts, WalkOf
<1>3. CASE i = Len(c)
  <2>1. InsertAfter(h, front, c[i], x) = InsertTail(h, front, x)
    BY <1>2, <1>3 DEF InsertAfter
  <2>2. QED
    BY <1>3, <2>1, InsertTailInserts
<1>4. CASE i # Len(c)
  <2>1. c[i] # LastNode(h, front)
    BY <1>1, <1>2, <1>4, LinkedFacts
  <2>2. i < Len(c) /\ i + 1 \in 2 .. Len(c) /\ (i + 1) - 1 = i
    BY <1>1, <1>4
  <2>3. h.node[c[i]].next = c[i + 1]
    BY <2>2, LinkedFacts
  <2>4. InsertAfter(h, front, c[i], x)
           = LinkBetween(Allocate(h, x), Fresh(h), front, c[(i + 1) - 1], c[i + 1])
    BY <1>2, <2>1, <2>2, <2>3 DEF InsertAfter
  <2>5. QED
    BY <2>2, <2>4, LinkBetweenInserts
<1>5. QED
  BY <1>3, <1>4

\* On heap "g", the node at position "i" of the list "c" is unlinked and freed.
Unlinked(h, c, i, g) ==
    /\ IsHeap(g) /\ g.live = h.live \ {c[i]}
    /\ \A k \in 1 .. Len(c) : k # i =>
          /\ g.node[c[k]].item = h.node[c[k]].item
          /\ g.node[c[k]].next = IF k = i - 1 THEN h.node[c[i]].next ELSE h.node[c[k]].next
          /\ k # i + 1 => g.node[c[k]].prev = h.node[c[k]].prev
          /\ k = i + 1 /\ i > 1 => g.node[c[k]].prev = c[i - 1]
    /\ \A m \in Nodes \ ToSet(c) : g.node[m] = h.node[m]

LEMMA UnlinkedDeletes ==
    ASSUME NEW h, IsHeap(h), NEW front, NEW c, Linked(h, front, c), NEW i \in 1 .. Len(c),
           NEW g, Unlinked(h, c, i, g)
    PROVE  Deletes(h, c, i, Out(g, IF i = 1 THEN h.node[c[1]].next ELSE front, c[i]))
<1> DEFINE n == c[i]
<1> DEFINE d == RemoveAt(c, i)
<1> DEFINE out == Out(g, IF i = 1 THEN h.node[c[1]].next ELSE front, n)
<1>1. /\ Linked(g, IF i = 1 THEN h.node[c[1]].next ELSE front, d)
      /\ ItemsOn(g, d) = RemoveAt(ItemsOn(h, c), i)
      /\ ToSet(d) = ToSet(c) \ {n}
  BY Removed DEF Unlinked
<1>2. out.heap = g /\ out.head = (IF i = 1 THEN h.node[c[1]].next ELSE front)
  BY DEF Out
<1>3. ToSet(c) \subseteq h.live /\ n \in ToSet(c)
  BY LinkedFacts
<1>4. IsHeap(g) /\ g.live = h.live \ {n} /\ \A m \in Nodes \ ToSet(c) : g.node[m] = h.node[m]
  BY DEF Unlinked
<1> HIDE DEF out, d, n
<1>5. (h.live \ ToSet(c)) \union ToSet(d) = h.live \ {n}
  BY <1>1, <1>3
<1>6. ToSet(c) \union ToSet(d) = ToSet(c)
  BY <1>1
<1>7. Edit(h, c, out, d)
  BY <1>1, <1>2, <1>4, <1>5, <1>6 DEF Edit
<1>8. QED
  BY <1>1, <1>2, <1>7 DEF Deletes, d, out, n

LEMMA DeleteNodeDeletes ==
    ASSUME NEW h, IsHeap(h), NEW front, NEW c, Linked(h, front, c), NEW i \in 1 .. Len(c)
    PROVE  Deletes(h, c, i, DeleteNode(h, front, c[i]))
<1> DEFINE n == c[i]
<1> DEFINE out == DeleteNode(h, front, n)
<1> DEFINE d == RemoveAt(c, i)
<1>1. /\ Len(c) \in Nat /\ Len(c) # 0 /\ Len(c) \in 1 .. Len(c) /\ 1 \in 1 .. Len(c)
      /\ n \in h.live /\ n \in Pointers /\ n \in ToSet(c)
      /\ front = c[1] /\ front # Null
  BY LinkedFacts
<1>2. Walk(h, front) = h /\ LastNode(h, front) = c[Len(c)]
  BY <1>1, WalkOf
<1>0. \A k \in 1 .. Len(c) : k = i <=> c[k] = n
  BY LinkedFacts
<1>4. CASE i = 1
  <2> DEFINE g == Free(h, n)
  <2>1. /\ IsHeap(g) /\ g.live = h.live \ {n}
        /\ \A m \in Pointers \ {n} : g.node[m] = h.node[m]
    BY <1>1, FreeAllShape DEF Free
  <2>2. out = Out(g, h.node[c[1]].next, n)
    BY <1>1, <1>4 DEF DeleteNode
  <2> HIDE DEF g, out
  <2>3. ASSUME NEW k \in 1 .. Len(c), k # i PROVE g.node[c[k]] = h.node[c[k]]
    BY <1>0, <2>1, <2>3, LinkedFacts
  <2>4. \A m \in Nodes \ ToSet(c) : g.node[m] = h.node[m]
    BY <1>1, <2>1 DEF Pointers
  <2>5. \A k \in 1 .. Len(c) : k # i - 1 /\ ~(k = i + 1 /\ i > 1)
    BY <1>4
  <2>6. Unlinked(h, c, i, g)
    BY <2>1, <2>3, <2>4, <2>5 DEF Unlinked, n
  <2>7. Deletes(h, c, i, Out(g, IF i = 1 THEN h.node[c[1]].next ELSE front, c[i]))
    BY <2>6, UnlinkedDeletes
  <2>8. QED
    BY <1>4, <2>2, <2>7 DEF out
<1>5. CASE i # 1 /\ i = Len(c)
  <2> DEFINE p == c[i - 1]
  <2> DEFINE g1 == SetNext(h, p, Null)
  <2> DEFINE g == Free(g1, n)
  <2>0. i - 1 \in 1 .. Len(c) /\ i \in 2 .. Len(c)
    BY <1>1, <1>5
  <2>1. /\ i - 1 \in 1 .. Len(c) /\ p \in h.live /\ p \in Pointers /\ p # Null /\ p # n
        /\ p \in ToSet(c) /\ h.node[n].prev = p /\ h.node[n].next = Null
    BY <1>1, <1>5, <2>0, LinkedFacts
  <2>2. out = Out(g, front, n)
    BY <1>0, <1>1, <1>2, <1>5, <2>1 DEF DeleteNode
  <2>3. /\ IsHeap(g1) /\ g1.live = h.live
        /\ g1.node[p].item = h.node[p].item
        /\ g1.node[p].next = Null
        /\ g1.node[p].prev = h.node[p].prev
        /\ \A m \in Pointers \ {p} : g1.node[m] = h.node[m]
    BY <2>1, SetNextShape DEF Pointers
  <2> HIDE DEF g1
  <2>4. /\ IsHeap(g) /\ g.live = h.live \ {n}
        /\ \A m \in Pointers \ {n} : g.node[m] = g1.node[m]
    BY <1>1, <2>3, FreeAllShape DEF Free
  <2>5. \A k \in 1 .. Len(c) : k = i - 1 <=> c[k] = p
    BY <2>1, LinkedFacts
  <2> HIDE DEF g, out, p, n
  <2>6. ASSUME NEW k \in 1 .. Len(c), k # i
        PROVE  /\ g.node[c[k]].item = h.node[c[k]].item
               /\ g.node[c[k]].next = IF k = i - 1 THEN h.node[n].next ELSE h.node[c[k]].next
               /\ g.node[c[k]].prev = h.node[c[k]].prev
    <3>1. c[k] # n /\ c[k] \in Pointers
      BY <1>0, <2>6, LinkedFacts
    <3>2. g.node[c[k]] = g1.node[c[k]]
      BY <2>4, <3>1
    <3>3. CASE c[k] = p
      BY <2>1, <2>3, <2>5, <3>2, <3>3
    <3>4. CASE c[k] # p
      BY <2>3, <2>5, <3>1, <3>2, <3>4
    <3>5. QED
      BY <3>3, <3>4
  <2>7. \A m \in Nodes \ ToSet(c) : g.node[m] = h.node[m]
    BY <1>1, <2>1, <2>3, <2>4 DEF Pointers
  <2>8. \A k \in 1 .. Len(c) : k # i + 1
    BY <1>1, <1>5
  <2>9. Unlinked(h, c, i, g)
    BY <2>4, <2>6, <2>7, <2>8 DEF Unlinked, n
  <2>10. Deletes(h, c, i, Out(g, IF i = 1 THEN h.node[c[1]].next ELSE front, c[i]))
    BY <2>9, UnlinkedDeletes
  <2>11. QED
    BY <1>5, <2>2, <2>10 DEF out, n
<1>6. CASE i # 1 /\ i # Len(c)
  <2> DEFINE p == c[i - 1]
  <2> DEFINE q == c[i + 1]
  <2> DEFINE g1 == SetNext(h, p, q)
  <2> DEFINE g2 == SetPrev(g1, q, p)
  <2> DEFINE g == Free(g2, n)
  <2>1. /\ i - 1 \in 1 .. Len(c) /\ i + 1 \in 1 .. Len(c) /\ i < Len(c) /\ i \in 2 .. Len(c)
    BY <1>1, <1>6
  <2>2. /\ p \in h.live /\ p \in Pointers /\ p # n /\ p \in ToSet(c)
        /\ q \in h.live /\ q \in Pointers /\ q # n /\ q \in ToSet(c)
        /\ p # q /\ h.node[n].prev = p /\ h.node[n].next = q
    BY <1>1, <2>1, LinkedFacts
  <2>3. out = Out(g, front, n)
    <3>1. front # n /\ n # c[Len(c)]
      BY <1>0, <1>1, <1>6
    <3>2. QED
      BY <1>2, <2>2, <3>1 DEF DeleteNode
  <2>4. /\ IsHeap(g1) /\ g1.live = h.live
        /\ g1.node[p].item = h.node[p].item
        /\ g1.node[p].next = q
        /\ g1.node[p].prev = h.node[p].prev
        /\ \A m \in Pointers \ {p} : g1.node[m] = h.node[m]
    BY <2>2, SetNextShape
  <2> HIDE DEF g1
  <2>5. /\ IsHeap(g2) /\ g2.live = h.live
        /\ g2.node[q].item = g1.node[q].item
        /\ g2.node[q].next = g1.node[q].next
        /\ g2.node[q].prev = p
        /\ \A m \in Pointers \ {q} : g2.node[m] = g1.node[m]
    BY <2>2, <2>4, SetPrevShape
  <2> HIDE DEF g2
  <2>6. /\ IsHeap(g) /\ g.live = h.live \ {n}
        /\ \A m \in Pointers \ {n} : g.node[m] = g2.node[m]
    BY <1>1, <2>5, FreeAllShape DEF Free
  <2>7. /\ \A k \in 1 .. Len(c) : k = i - 1 <=> c[k] = p
        /\ \A k \in 1 .. Len(c) : k = i + 1 <=> c[k] = q
    BY <2>1, LinkedFacts
  <2> HIDE DEF g, out, n
  <2>8. ASSUME NEW k \in 1 .. Len(c), k # i
        PROVE  /\ g.node[c[k]].item = h.node[c[k]].item
               /\ g.node[c[k]].next = IF k = i - 1 THEN h.node[n].next ELSE h.node[c[k]].next
               /\ k # i + 1 => g.node[c[k]].prev = h.node[c[k]].prev
               /\ k = i + 1 => g.node[c[k]].prev = c[i - 1]
    <3> HIDE DEF p, q
    <3>1. c[k] # n /\ c[k] \in Pointers
      BY <1>0, <2>8, LinkedFacts
    <3>2. g.node[c[k]] = g2.node[c[k]]
      BY <2>6, <3>1
    <3>3. CASE c[k] = p
      <4>1. k = i - 1 /\ k # i + 1 /\ g2.node[c[k]] = g1.node[p]
        BY <2>2, <2>5, <2>7, <3>1, <3>3
      <4>2. QED
        BY <2>2, <2>4, <3>2, <3>3, <4>1
    <3>4. CASE c[k] = q
      <4>1. k = i + 1 /\ k # i - 1 /\ g1.node[q] = h.node[q]
        BY <2>2, <2>4, <2>7, <3>4
      <4>2. QED
        BY <2>5, <3>2, <3>4, <4>1 DEF p
    <3>5. CASE c[k] # p /\ c[k] # q
      <4>1. k # i + 1 /\ k # i - 1 /\ g.node[c[k]] = h.node[c[k]]
        BY <2>4, <2>5, <2>7, <3>1, <3>2, <3>5
      <4>2. QED
        BY <4>1
    <3>6. QED
      BY <3>3, <3>4, <3>5
  <2>9. \A m \in Nodes \ ToSet(c) : g.node[m] = h.node[m]
    BY <1>1, <2>2, <2>4, <2>5, <2>6 DEF Pointers
  <2>10. Unlinked(h, c, i, g)
    BY <2>6, <2>8, <2>9 DEF Unlinked, n
  <2>11. Deletes(h, c, i, Out(g, IF i = 1 THEN h.node[c[1]].next ELSE front, c[i]))
    BY <2>10, UnlinkedDeletes
  <2>12. QED
    BY <1>6, <2>3, <2>11 DEF out, n
<1>7. QED
  BY <1>4, <1>5, <1>6

\* Deleting a whole list frees its nodes and no others.
LEMMA ClearListEdit ==
    ASSUME NEW h, IsHeap(h), NEW front, NEW c, Linked(h, front, c)
    PROVE  Edit(h, c, Out(ClearList(h, front), Null, Null), <<>>)
<1> DEFINE g == ClearList(h, front)
<1>1. g = FreeAll(h, ToSet(c))
  BY ChainOf, WalkOf DEF ClearList
<1>2. ToSet(c) \subseteq h.live
  BY LinkedFacts
<1>3. /\ IsHeap(g) /\ g.live = h.live \ ToSet(c)
      /\ \A m \in Pointers \ ToSet(c) : g.node[m] = h.node[m]
  BY <1>1, <1>2, FreeAllShape
<1> HIDE DEF g
<1>4. <<>> \in Seq(Nodes) /\ Len(<<>>) = 0 /\ ToSet(<<>>) = {}
  BY DEF ToSet
<1>5. Linked(g, Null, <<>>)
  BY <1>4 DEF Linked
<1>6. Out(g, Null, Null).heap = g /\ Out(g, Null, Null).head = Null
  BY DEF Out
<1>7. QED
  BY <1>3, <1>4, <1>5, <1>6 DEF Edit, Pointers, g

-----------------------------------------------------------------------------
(* Copying a list *)

\* As many nodes as the list is long.
LEMMA NodesOfList ==
    ASSUME NEW c \in Seq(Nodes), \A i, j \in 1 .. Len(c) : i # j => c[i] # c[j]
    PROVE  IsFiniteSet(ToSet(c)) /\ Cardinality(ToSet(c)) = Len(c)
<1> DEFINE T == ToSet(c)
<1>1. Len(c) \in Nat /\ \A n : n \in T <=> \E k \in 1 .. Len(c) : n = c[k]
  BY ToSetShape
<1> HIDE DEF T
<1>2. c \in [1 .. Len(c) -> T]
  BY <1>1
<1>3. \A i, j \in 1 .. Len(c) : c[i] = c[j] => i = j
  OBVIOUS
<1>4. \A n \in T : \E k \in 1 .. Len(c) : c[k] = n
  BY <1>1
<1>5. c \in Injection(1 .. Len(c), T) /\ c \in Surjection(1 .. Len(c), T)
  BY <1>2, <1>3, <1>4 DEF Injection, IsInjective, Surjection
<1>6. IsFiniteSet(1 .. Len(c)) /\ Cardinality(1 .. Len(c)) = Len(c)
  <2>1. /\ IsFiniteSet(1 .. Len(c))
        /\ Cardinality(1 .. Len(c)) = IF 1 > Len(c) THEN 0 ELSE Len(c) - 1 + 1
    BY <1>1, FS_Interval, SMTT(60)
  <2>2. QED
    BY <1>1, <2>1
<1>7. ExistsBijection(1 .. Len(c), T)
  BY <1>5 DEF ExistsBijection, Bijection
<1>8. QED
  BY <1>6, <1>7, FS_Bijection DEF T

\* How many nodes are allocated when a list is added or taken away.
LEMMA NodesCounted ==
    ASSUME NEW S \in SUBSET Nodes, NEW c \in Seq(Nodes),
           \A i, j \in 1 .. Len(c) : i # j => c[i] # c[j]
    PROVE  /\ Cardinality(S) \in Nat /\ Len(c) \in Nat
           /\ ToSet(c) \subseteq S => Cardinality(S \ ToSet(c)) = Cardinality(S) - Len(c)
           /\ ToSet(c) \intersect S = {} => Cardinality(S \union ToSet(c)) = Cardinality(S) + Len(c)
<1> DEFINE T == ToSet(c)
<1>1. IsFiniteSet(T) /\ Cardinality(T) = Len(c) /\ Len(c) \in Nat
  BY NodesOfList
<1>2. IsFiniteSet(S)
  BY NodesFinite, FS_Subset
<1> HIDE DEF T
<1>3. Cardinality(S) \in Nat
  BY <1>2, FS_CardinalityType
<1>4. ASSUME T \subseteq S PROVE Cardinality(S \ T) = Cardinality(S) - Len(c)
  <2>1. S \intersect T = T
    BY <1>4
  <2>2. Cardinality(S \ T) = Cardinality(S) - Cardinality(S \intersect T)
    BY <1>2, FS_Difference
  <2>3. QED
    BY <1>1, <2>1, <2>2
<1>5. ASSUME T \intersect S = {} PROVE Cardinality(S \union T) = Cardinality(S) + Len(c)
  <2>1. S \intersect T = {} /\ Cardinality(S \intersect T) = 0
    BY <1>5, FS_EmptySet
  <2>2. Cardinality(S \union T)
           = Cardinality(S) + Cardinality(T) - Cardinality(S \intersect T)
    BY <1>1, <1>2, FS_Union
  <2>3. QED
    BY <1>1, <1>3, <2>1, <2>2
<1>6. QED
  BY <1>1, <1>3, <1>4, <1>5 DEF T

\* "copy" holds the list "d" of new nodes with the first "k" items.
Copied(h, items, k, copy, d) ==
    /\ Edit(h, <<>>, copy, d)
    /\ ToSet(d) \intersect h.live = {}
    /\ Len(d) = k
    /\ \A j \in 1 .. k : copy.heap.node[d[j]].item = items[j]
    /\ copy.node = IF k = 0 THEN Null ELSE d[k]

\* The records that functions on heaps give.
Outs == [heap : [node : [Pointers -> Contents], live : SUBSET Nodes, wild : SUBSET Pointers],
         head : Pointers, node : Pointers]

LEMMA CopyNodeCopies ==
    ASSUME NEW h, IsHeap(h), NEW items, NEW k \in Nat, NEW copy, NEW d,
           Copied(h, items, k, copy, d), items[k + 1] \in Held,
           Cardinality(h.live) + k < Cardinality(Nodes)
    PROVE  /\ CopyNode(copy, items[k + 1]) \in Outs
           /\ \E e : Copied(h, items, k + 1, CopyNode(copy, items[k + 1]), e)
<1> DEFINE x == items[k + 1]
<1> DEFINE out == CopyNode(copy, x)
<1> DEFINE g == copy.heap
<1> DEFINE e == InsertAt(d, k + 1, out.node)
<1>0. ToSet(<<>>) = {}
  BY DEF ToSet
<1>1. /\ IsHeap(g) /\ Linked(g, copy.head, d)
      /\ g.live = h.live \union ToSet(d)
      /\ \A m \in Nodes \ ToSet(d) : g.node[m] = h.node[m]
      /\ ToSet(d) \intersect h.live = {}
      /\ Len(d) = k
      /\ \A j \in 1 .. k : g.node[d[j]].item = items[j]
      /\ copy.node = IF k = 0 THEN Null ELSE d[k]
  BY <1>0 DEF Copied, Edit
<1> HIDE DEF g
<1>2. /\ d \in Seq(Nodes) /\ \A i, j \in 1 .. Len(d) : i # j => d[i] # d[j]
      /\ \A j \in 1 .. k : d[j] \in ToSet(d) /\ d[j] \in g.live
      /\ copy.head = Null <=> k = 0
  BY <1>1, LinkedFacts, ZenonT(100)
<1>3. Nodes \ g.live # {}
  <2>1. h.live \in SUBSET Nodes /\ g.live \in SUBSET Nodes
    BY <1>1 DEF IsHeap
  <2>2. Cardinality(g.live) = Cardinality(h.live) + k
    BY <1>1, <1>2, <2>1, NodesCounted
  <2>3. g.live # Nodes
    BY <2>2, NodesFinite, NodesCounted, <2>1, <1>2
  <2>4. QED
    BY <2>1, <2>3
<1>4. Inserts(g, d, k + 1, x, out)
  <2>1. CASE k = 0
    <3>1. out = InsertHead(g, copy.head, x)
      BY <1>2, <2>1 DEF CopyNode, g
    <3>2. QED
      BY <1>1, <1>3, <2>1, <3>1, InsertHeadInserts
  <2>2. CASE k # 0
    <3>1. out = LinkTail(Allocate(g, x), Fresh(g), copy.head, d[k])
      BY <1>1, <1>2, <2>2 DEF CopyNode, g
    <3>2. QED
      BY <1>1, <1>3, <2>2, <3>1, LinkTailInserts
  <2>3. QED
    BY <2>1, <2>2
<1> HIDE DEF out, x
<1>5. /\ out.node \in Nodes \ g.live
      /\ Edit(g, d, out, e)
      /\ ItemsOn(out.heap, e) = InsertAt(ItemsOn(g, d), k + 1, x)
  BY <1>4 DEF Inserts
<1>6. /\ e \in Seq(Nodes) /\ Len(e) = k + 1 /\ e[k + 1] = out.node
      /\ \A j \in 1 .. k : e[j] = d[j]
  <2>1. k + 1 \in 1 .. Len(d) + 1 /\ out.node \in Nodes
    BY <1>1, <1>5
  <2>2. /\ e \in Seq(Nodes) /\ Len(e) = Len(d) + 1
        /\ \A j \in 1 .. Len(d) + 1 :
              e[j] = IF j < k + 1 THEN d[j] ELSE IF j = k + 1 THEN out.node ELSE d[j - 1]
    <3> DEFINE i == k + 1
    <3> DEFINE n == out.node
    <3>1. i \in 1 .. Len(d) + 1 /\ n \in Nodes
      BY <2>1
    <3> HIDE DEF i, n
    <3>2. /\ InsertAt(d, i, n) \in Seq(Nodes) /\ Len(InsertAt(d, i, n)) = Len(d) + 1
          /\ \A j \in 1 .. Len(d) + 1 :
                InsertAt(d, i, n)[j] = IF j < i THEN d[j] ELSE IF j = i THEN n ELSE d[j - 1]
      BY <1>2, <3>1, InsertAtShape
    <3>3. QED
      BY <3>2 DEF i, n
  <2> HIDE DEF e
  <2>3. QED
    BY <1>1, <2>1, <2>2
<1> HIDE DEF e
<1>7. ToSet(e) = ToSet(d) \union {out.node}
  <2>1. \A n : n \in ToSet(e) <=> \E j \in 1 .. k + 1 : n = e[j]
    BY <1>6, ToSetShape
  <2>2. \A n : n \in ToSet(d) <=> \E j \in 1 .. k : n = d[j]
    BY <1>1, <1>2, ToSetShape
  <2>3. \A j \in 1 .. k + 1 : j \in 1 .. k \/ j = k + 1
    OBVIOUS
  <2>4. \A j \in 1 .. k : j \in 1 .. k + 1
    OBVIOUS
  <2>5. k + 1 \in 1 .. k + 1
    OBVIOUS
  <2>6. QED
    BY <1>6, <2>1, <2>2, <2>3, <2>4, <2>5
<1>8. /\ IsHeap(out.heap) /\ Linked(out.heap, out.head, e)
      /\ out.heap.live = h.live \union ToSet(e)
      /\ \A m \in Nodes \ ToSet(e) : out.heap.node[m] = h.node[m]
  BY <1>1, <1>5, <1>7 DEF Edit
<1>9. ASSUME NEW j \in 1 .. k + 1 PROVE out.heap.node[e[j]].item = items[j]
  <2> DEFINE S == Held
  <2> DEFINE s == ItemsOn(g, d)
  <2>1. s \in Seq(S) /\ Len(s) = k /\ \A i \in 1 .. k : s[i] = g.node[d[i]].item
    BY <1>1, <1>2, ItemsOnShape
  <2>2. ItemsOn(out.heap, e)[j] = out.heap.node[e[j]].item
    BY <1>6, <1>8, ItemsOnShape
  <2> HIDE DEF s
  <2>3. x \in S /\ k + 1 \in 1 .. Len(s) + 1
    BY <2>1 DEF x
  <2> HIDE DEF S
  <2>4. InsertAt(s, k + 1, x)[j] = IF j < k + 1 THEN s[j] ELSE x
    <3>1. \A i \in 1 .. Len(s) + 1 : InsertAt(s, k + 1, x)[i]
             = IF i < k + 1 THEN s[i] ELSE IF i = k + 1 THEN x ELSE s[i - 1]
      BY <2>1, <2>3, InsertAtShape, SMTT(60)
    <3>2. QED
      BY <2>1, <3>1
  <2>5. ItemsOn(out.heap, e) = InsertAt(s, k + 1, x)
    BY <1>5 DEF s
  <2>6. QED
    BY <1>1, <2>1, <2>2, <2>4, <2>5 DEF x
<1>10. ToSet(e) \intersect h.live = {}
  BY <1>1, <1>5, <1>7
<1>11. Edit(h, <<>>, out, e)
  BY <1>0, <1>8 DEF Edit
<1>12. Copied(h, items, k + 1, out, e)
  BY <1>6, <1>9, <1>10, <1>11 DEF Copied
<1>13. out \in Outs
  <2>1. out = Out(out.heap, out.head, out.node)
    BY DEF out, CopyNode, InsertHead, LinkHead, LinkTail, Out
  <2>2. out.heap \in [node : [Pointers -> Contents], live : SUBSET Nodes, wild : SUBSET Pointers]
    BY <1>8 DEF IsHeap, Heap
  <2>3. out.head \in Pointers /\ out.node \in Pointers
    BY <1>5, <1>8, LinkedFacts DEF Pointers
  <2>4. QED
    BY <2>1, <2>2, <2>3 DEF Outs, Out
<1>14. QED
  BY <1>12, <1>13 DEF out, x

\* "f" takes the steps of the copy where they are defined.
TakesSteps(f, h, items) ==
    /\ f[0] = Out(h, Null, Null)
    /\ \A k \in 1 .. Len(items) : CopyNode(f[k - 1], items[k]) \in Outs
                                    => f[k] = CopyNode(f[k - 1], items[k])

\* They all are, and each copies one item more.
CopiesAll(f, h, items) ==
    \A k \in 0 .. Len(items) : /\ \E d : Copied(h, items, k, f[k], d)
                               /\ k > 0 => f[k] = CopyNode(f[k - 1], items[k])

LEMMA CopyInduction ==
    ASSUME NEW h, IsHeap(h), NEW items \in Seq(Held),
           Cardinality(h.live) + Len(items) <= Cardinality(Nodes),
           NEW f, TakesSteps(f, h, items)
    PROVE  CopiesAll(f, h, items)
<1> DEFINE n == Len(items)
<1>6. n \in Nat
  OBVIOUS
<1>7. /\ f[0] = Out(h, Null, Null)
      /\ \A k \in 1 .. n : CopyNode(f[k - 1], items[k]) \in Outs
                             => f[k] = CopyNode(f[k - 1], items[k])
  BY DEF TakesSteps
<1> DEFINE Good(k) == /\ \E d : Copied(h, items, k, f[k], d)
                      /\ k > 0 => f[k] = CopyNode(f[k - 1], items[k])
<1> DEFINE S == {k \in Nat : k <= n => Good(k)}
<1>0. Cardinality(h.live) \in Nat
  <2>1. h.live \in SUBSET Nodes
    BY DEF IsHeap
  <2>2. IsFiniteSet(h.live)
    BY <2>1, NodesFinite, FS_Subset
  <2>3. QED
    BY <2>2, FS_CardinalityType
<1>1. 0 \in S
  <2>1. ToSet(<<>>) = {} /\ <<>> \in Seq(Nodes) /\ Len(<<>>) = 0
    BY DEF ToSet
  <2>2. /\ Out(h, Null, Null).heap = h /\ Out(h, Null, Null).head = Null
        /\ Out(h, Null, Null).node = Null
    BY DEF Out
  <2>3. Linked(h, Null, <<>>)
    BY <2>1 DEF Linked
  <2>4. Edit(h, <<>>, Out(h, Null, Null), <<>>)
    BY <2>1, <2>2, <2>3 DEF Edit
  <2>5. Copied(h, items, 0, f[0], <<>>)
    BY <1>7, <2>1, <2>2, <2>4 DEF Copied
  <2>6. QED
    BY <2>5
<1>2. ASSUME NEW k \in S PROVE k + 1 \in S
  <2>1. CASE k + 1 <= n
    <3>1. PICK d : Copied(h, items, k, f[k], d)
      BY <2>1
    <3>2. /\ k \in Nat /\ k + 1 \in 1 .. n /\ (k + 1) - 1 = k
          /\ items[k + 1] \in Held
          /\ Cardinality(h.live) + k < Cardinality(Nodes)
      BY <1>0, <1>6, <2>1, NodesFinite
    <3>3. /\ CopyNode(f[k], items[k + 1]) \in Outs
          /\ \E e : Copied(h, items, k + 1, CopyNode(f[k], items[k + 1]), e)
      BY <3>1, <3>2, CopyNodeCopies
    <3>4. f[k + 1] = CopyNode(f[k], items[k + 1])
      BY <1>7, <3>2, <3>3
    <3>5. Good(k + 1)
      BY <3>2, <3>3, <3>4
    <3>6. QED
      BY <3>5
  <2>2. QED
    BY <2>1
<1>3. S = Nat
  <2> HIDE DEF S
  <2>1. S \in SUBSET Nat
    BY DEF S
  <2>2. QED
    BY <1>1, <1>2, <2>1, SetInduction
<1>4. ASSUME NEW k \in 0 .. n PROVE Good(k)
  <2>1. k \in S /\ k <= n
    BY <1>3
  <2>2. QED
    BY <2>1
<1>5. QED
  BY <1>4 DEF CopiesAll

LEMMA CopyListCopies ==
    ASSUME NEW h, IsHeap(h), NEW front, NEW c, Linked(h, front, c),
           Cardinality(h.live) + Len(c) <= Cardinality(Nodes)
    PROVE  \E d : Copied(h, ItemsOn(h, c), Len(c), CopyList(h, front), d)
<1> DEFINE items == ItemsOn(h, c)
<1> DEFINE n == Len(items)
<1> DEFINE first == Out(h, Null, Null)
<1> DEFINE P(copy) == copy = [k \in 0 .. n |-> IF k = 0 THEN first
                                              ELSE CopyNode(copy[k - 1], items[k])]
<1> DEFINE step == [k \in Nat |-> [v \in Outs |-> IF CopyNode(v, items[k]) \in Outs
                                                 THEN CopyNode(v, items[k]) ELSE v]]
<1> DEFINE q == CHOOSE copy : P(copy)
<1>1. items \in Seq(Held) /\ n = Len(c) /\ n \in Nat
  BY LinkedFacts, ItemsOnShape
<1>2. ItemsOn(h, Chain(h, front)) = items /\ Walk(h, front) = h
  BY ChainOf, WalkOf
<1>3. CopyList(h, front) = q[n]
  BY <1>2 DEF CopyList
<1> HIDE DEF items
<1>4. first \in Outs
  BY DEF IsHeap, Heap, Out, Outs, Pointers
<1>5. step \in [Nat -> [Outs -> Outs]]
  OBVIOUS
<1>6. PICK g \in [0 .. n -> Outs] : Recurs(g, 0, n, first, step)
  <2> HIDE DEF step, first, n
  <2>1. QED
    BY <1>1, <1>4, <1>5, RecursionExists
<1>7. ASSUME NEW k \in 1 .. n
      PROVE  CopyNode(g[k - 1], items[k]) \in Outs => g[k] = CopyNode(g[k - 1], items[k])
  <2>1. k \in 0 .. n /\ k # 0 /\ k - 1 \in 0 .. n
    BY <1>1
  <2>2. g[k] = step[k][g[k - 1]] /\ g[k - 1] \in Outs
    BY <1>6, <2>1 DEF Recurs
  <2>3. QED
    BY <2>1, <2>2
<1>8. g[0] = first
  BY <1>1, <1>6 DEF Recurs
<1>9. CopiesAll(g, h, items)
  <2>1. TakesSteps(g, h, items)
    BY <1>7, <1>8 DEF TakesSteps
  <2>2. QED
    BY <1>1, <2>1, CopyInduction
<1>10. ASSUME NEW k \in 0 .. n
       PROVE  g[k] = IF k = 0 THEN first ELSE CopyNode(g[k - 1], items[k])
  BY <1>1, <1>8, <1>9 DEF CopiesAll
<1>11. P(g)
  BY <1>6, <1>10 DEF Recurs
<1>12. P(q)
  BY <1>11
<1> HIDE DEF q
<1>13. q[0] = first /\ \A k \in 1 .. n : q[k] = CopyNode(q[k - 1], items[k])
  <2>1. \A k \in 0 .. n : q[k] = IF k = 0 THEN first ELSE CopyNode(q[k - 1], items[k])
    BY <1>12
  <2>2. QED
    BY <1>1, <2>1
<1>14. CopiesAll(q, h, items)
  <2>1. TakesSteps(q, h, items)
    BY <1>13 DEF TakesSteps
  <2>2. QED
    BY <1>1, <2>1, CopyInduction
<1>15. n \in 0 .. n
  BY <1>1
<1>16. QED
  BY <1>1, <1>3, <1>14, <1>15 DEF items, CopiesAll

-----------------------------------------------------------------------------
(* The containers on one heap *)

\* What every container holds.
Contained == [o \in Objects |-> ItemsOf(o)]

\* The inductive invariant: the containers are chains of allocated nodes, no
\* pointer was misused, each node is in one container, and the rear and the size
\* of a container are those of its chain.
RearsKnown == \A q \in Queues : Len(Elements(q)) # 0 => object[q].rear = Elements(q)[Len(Elements(q))]
SizesKnown == \A o \in Queues \union Stacks : object[o].size = Len(Elements(o))

IInv ==
    /\ IsHeap(heap)
    /\ object \in [Objects -> [front : Pointers, rear : Pointers, size : Nat]]
    /\ \A o \in Objects : Linked(heap, object[o].front, Elements(o))
    /\ NodesOwned
    /\ RearsKnown
    /\ SizesKnown

LEMMA ChainFacts ==
    ASSUME IInv, NEW o \in Objects
    PROVE  /\ IsHeap(heap) /\ Linked(heap, object[o].front, Elements(o))
           /\ Elements(o) \in Seq(Nodes) /\ Len(Elements(o)) \in Nat
           /\ DOMAIN Elements(o) = 1 .. Len(Elements(o))
           /\ ToSet(Elements(o)) \subseteq heap.live
           /\ object[o].front \in Pointers /\ object[o].rear \in Pointers
           /\ object[o].size \in Nat
           /\ object[o].front = Null <=> Len(Elements(o)) = 0
           /\ ItemsOf(o) = ItemsOn(heap, Elements(o))
           /\ ItemsOf(o) \in Seq(Held) /\ Len(ItemsOf(o)) = Len(Elements(o))
           /\ DOMAIN ItemsOf(o) = 1 .. Len(Elements(o))
<1>1. IsHeap(heap) /\ Linked(heap, object[o].front, Elements(o))
  BY DEF IInv
<1>2. /\ Elements(o) \in Seq(Nodes) /\ Len(Elements(o)) \in Nat
      /\ ToSet(Elements(o)) \subseteq heap.live
      /\ object[o].front = Null <=> Len(Elements(o)) = 0
  BY <1>1, LinkedFacts
<1>3. /\ object[o].front \in Pointers /\ object[o].rear \in Pointers
      /\ object[o].size \in Nat
  BY DEF IInv
<1>4. ItemsOf(o) = ItemsOn(heap, Elements(o))
  BY DEF ItemsOf
<1>5. ItemsOf(o) \in Seq(Held) /\ Len(ItemsOf(o)) = Len(Elements(o))
  BY <1>1, <1>2, <1>4, ItemsOnShape
<1>6. QED
  BY <1>1, <1>2, <1>3, <1>4, <1>5

\* An edit of one container's chain, with new nodes that no other container
\* has, keeps the invariant and changes what that container holds, and nothing
\* else.
LEMMA UpdateStep ==
    ASSUME IInv, NEW o \in Objects, NEW out, NEW d, Edit(heap, Elements(o), out, d),
           ToSet(d) \intersect (heap.live \ ToSet(Elements(o))) = {},
           NEW rear \in Pointers, NEW size \in Nat, Update(o, out, rear, size),
           o \in Queues /\ Len(d) # 0 => rear = d[Len(d)],
           o \in Queues \union Stacks => size = Len(d)
    PROVE  /\ IInv'
           /\ Contained' = [Contained EXCEPT ![o] = ItemsOn(out.heap, d)]
<1>1. /\ IsHeap(heap') /\ Linked(heap', out.head, d)
      /\ heap'.live = (heap.live \ ToSet(Elements(o))) \union ToSet(d)
      /\ \A m \in Nodes \ (ToSet(Elements(o)) \union ToSet(d)) : heap'.node[m] = heap.node[m]
      /\ heap' = out.heap
  BY DEF Edit, Update
<1>2. out.head \in Pointers
  BY <1>1, LinkedFacts
<1>3. /\ object \in [Objects -> [front : Pointers, rear : Pointers, size : Nat]]
      /\ object' = [object EXCEPT ![o] = [front |-> out.head, rear |-> rear, size |-> size]]
  BY DEF IInv, Update
<1>4. /\ object' \in [Objects -> [front : Pointers, rear : Pointers, size : Nat]]
      /\ object'[o] = [front |-> out.head, rear |-> rear, size |-> size]
      /\ \A p \in Objects : p # o => object'[p] = object[p]
  BY <1>2, <1>3
<1>5. object'[o].front = out.head /\ object'[o].rear = rear /\ object'[o].size = size
  BY <1>4
<1>6. Elements(o)' = d
  BY <1>1, <1>5, ChainOf DEF Elements
<1>7. ItemsOf(o)' = ItemsOn(out.heap, d)
  BY <1>1, <1>6 DEF ItemsOf
<1>8. ASSUME NEW p \in Objects, p # o
      PROVE  /\ Elements(p)' = Elements(p) /\ ItemsOf(p)' = ItemsOf(p)
             /\ Linked(heap', object'[p].front, Elements(p))
  <2> DEFINE c == Elements(p)
  <2>1. /\ Linked(heap, object[p].front, c) /\ c \in Seq(Nodes)
        /\ ToSet(c) \subseteq heap.live
    BY ChainFacts
  <2>2. ToSet(c) \intersect ToSet(Elements(o)) = {}
    BY <1>8 DEF IInv, NodesOwned
  <2>3. \A i \in 1 .. Len(c) : c[i] \in ToSet(c) /\ c[i] \in Nodes
    BY <2>1, ToSetShape
  <2> HIDE DEF c
  <2>4. \A i \in 1 .. Len(c) : c[i] \in heap'.live /\ heap'.node[c[i]] = heap.node[c[i]]
    BY <1>1, <2>1, <2>2, <2>3
  <2>5. Linked(heap', object[p].front, c) /\ ItemsOn(heap', c) = ItemsOn(heap, c)
    BY <2>1, <2>4, LeftAlone
  <2>6. object'[p] = object[p]
    BY <1>4, <1>8
  <2>7. Elements(p)' = c
    BY <1>1, <2>5, <2>6, ChainOf DEF Elements
  <2>8. QED
    BY <2>5, <2>6, <2>7 DEF ItemsOf, c
<1>9. NodesOwned'
  <2>1. /\ heap.live = UNION {ToSet(Elements(p)) : p \in Objects}
        /\ \A p, other \in Objects :
              p # other => ToSet(Elements(p)) \intersect ToSet(Elements(other)) = {}
    BY DEF IInv, NodesOwned
  <2>2. \A n : n \in heap'.live <=> \E p \in Objects : n \in ToSet(Elements(p)')
    <3>1. ASSUME NEW n \in heap'.live PROVE \E p \in Objects : n \in ToSet(Elements(p)')
      <4>1. CASE n \in ToSet(d)
        BY <1>6, <4>1
      <4>2. CASE n \notin ToSet(d)
        <5>1. n \in heap.live /\ n \notin ToSet(Elements(o))
          BY <1>1, <4>2
        <5>2. PICK p \in Objects : n \in ToSet(Elements(p))
          BY <2>1, <5>1
        <5>3. QED
          BY <1>8, <5>1, <5>2
      <4>3. QED
        BY <4>1, <4>2
    <3>2. ASSUME NEW n, NEW p \in Objects, n \in ToSet(Elements(p)') PROVE n \in heap'.live
      <4>1. CASE p = o
        BY <1>1, <1>6, <3>2, <4>1
      <4>2. CASE p # o
        <5>1. n \in ToSet(Elements(p)) /\ n \notin ToSet(Elements(o))
          BY <1>8, <2>1, <3>2, <4>2
        <5>2. n \in heap.live
          BY <2>1, <5>1
        <5>3. QED
          BY <1>1, <5>1, <5>2
      <4>3. QED
        BY <4>1, <4>2
    <3>3. QED
      BY <3>1, <3>2
  <2>3. ASSUME NEW p \in Objects, NEW other \in Objects, p # other
        PROVE  ToSet(Elements(p)') \intersect ToSet(Elements(other)') = {}
    <3>1. ASSUME NEW r \in Objects, r # o PROVE ToSet(Elements(r)') \intersect ToSet(d) = {}
      <4>1. /\ Elements(r)' = Elements(r)
            /\ ToSet(Elements(r)) \intersect ToSet(Elements(o)) = {}
        BY <1>8, <2>1, <3>1
      <4>2. ToSet(Elements(r)) \subseteq heap.live
        BY ChainFacts
      <4>3. QED
        BY <4>1, <4>2
    <3>2. CASE p = o
      BY <1>6, <2>3, <3>1, <3>2
    <3>3. CASE other = o
      BY <1>6, <2>3, <3>1, <3>3
    <3>4. CASE p # o /\ other # o
      BY <1>8, <2>1, <2>3, <3>4
    <3>5. QED
      BY <3>2, <3>3, <3>4
  <2>4. QED
    BY <2>2, <2>3 DEF NodesOwned
<1>10. ASSUME NEW p \in Objects PROVE Linked(heap', object'[p].front, Elements(p)')
  BY <1>1, <1>5, <1>6, <1>8
<1>11. RearsKnown'
  <2>1. ASSUME NEW q \in Queues, Len(Elements(q)') # 0
        PROVE  object'[q].rear = Elements(q)'[Len(Elements(q)')]
    <3>1. q \in Objects
      BY DEF Objects
    <3>2. CASE q = o
      BY <1>5, <1>6, <2>1, <3>2
    <3>3. CASE q # o
      BY <1>4, <1>8, <2>1, <3>1, <3>3 DEF IInv, RearsKnown
    <3>4. QED
      BY <3>2, <3>3
  <2>2. QED
    BY <2>1 DEF RearsKnown
<1>12. SizesKnown'
  <2>1. ASSUME NEW q \in Queues \union Stacks PROVE object'[q].size = Len(Elements(q)')
    <3>1. q \in Objects
      BY DEF Objects
    <3>2. CASE q = o
      BY <1>5, <1>6, <3>2
    <3>3. CASE q # o
      BY <1>4, <1>8, <3>1, <3>3 DEF IInv, SizesKnown
    <3>4. QED
      BY <3>2, <3>3
  <2>2. QED
    BY <2>1 DEF SizesKnown
<1>13. IInv'
  BY <1>1, <1>4, <1>9, <1>10, <1>11, <1>12 DEF IInv
<1>14. Contained' = [Contained EXCEPT ![o] = ItemsOn(out.heap, d)]
  BY <1>7, <1>8 DEF Contained
<1>15. QED
  BY <1>13, <1>14

\* A free node is left for an insertion.
LEMMA RoomForOne == IInv /\ Room(1) => Nodes \ heap.live # {}
<1>1. SUFFICES ASSUME IInv, Room(1), heap.live = Nodes PROVE FALSE
  BY DEF IInv, IsHeap
<1>2. QED
  BY <1>1, NodesFinite DEF Room

LEMMA InsertStep ==
    ASSUME IInv, NEW o \in Objects, NEW i \in 1 .. Len(Elements(o)) + 1, NEW x \in Held, NEW out,
           Inserts(heap, Elements(o), i, x, out),
           NEW rear \in Pointers, NEW size \in Nat, Update(o, out, rear, size),
           o \in Queues => i = Len(Elements(o)) + 1 /\ rear = out.node,
           o \in Queues \union Stacks => size = Len(Elements(o)) + 1
    PROVE  /\ IInv'
           /\ Contained' = [Contained EXCEPT ![o] = InsertAt(Contained[o], i, x)]
<1> DEFINE c == Elements(o)
<1> DEFINE n == out.node
<1> DEFINE d == InsertAt(c, i, n)
<1>1. /\ n \in Nodes \ heap.live
      /\ Edit(heap, c, out, d)
      /\ ItemsOn(out.heap, d) = InsertAt(ItemsOn(heap, c), i, x)
  BY DEF Inserts
<1>2. c \in Seq(Nodes) /\ Len(c) \in Nat /\ ToSet(c) \subseteq heap.live /\ n \in Nodes
  BY <1>1, ChainFacts
<1>3. Contained[o] = ItemsOn(heap, c)
  BY DEF Contained, ItemsOf
<1> HIDE DEF c, n
<1>4. /\ d \in Seq(Nodes) /\ Len(d) = Len(c) + 1
      /\ \A k \in 1 .. Len(c) + 1 : d[k] = IF k < i THEN c[k] ELSE IF k = i THEN n ELSE c[k - 1]
  BY <1>2, InsertAtShape DEF c
<1> HIDE DEF d
<1>5. ASSUME NEW m \in ToSet(d) PROVE m \notin heap.live \ ToSet(c)
  <2>1. PICK k \in 1 .. Len(d) : m = d[k]
    BY <1>4, ToSetShape
  <2>2. CASE k = i
    BY <1>1, <1>2, <1>4, <2>1, <2>2
  <2>3. CASE k # i
    <3>1. \E j \in 1 .. Len(c) : m = c[j]
      BY <1>2, <1>4, <2>1, <2>3 DEF c
    <3>2. QED
      BY <1>2, <3>1, ToSetShape
  <2>4. QED
    BY <2>2, <2>3
<1>6. o \in Queues => rear = d[Len(d)]
  <2>1. ASSUME o \in Queues PROVE rear = n /\ i = Len(d)
    BY <1>4, <2>1 DEF n, c
  <2>2. ASSUME o \in Queues PROVE Len(d) \in 1 .. Len(c) + 1
    BY <1>2, <1>4
  <2>3. QED
    BY <1>4, <2>1, <2>2
<1>7. o \in Queues \union Stacks => size = Len(d)
  BY <1>4 DEF c
<1>8. ToSet(d) \intersect (heap.live \ ToSet(Elements(o))) = {}
  BY <1>5 DEF c
<1>9. /\ IInv'
      /\ Contained' = [Contained EXCEPT ![o] = ItemsOn(out.heap, d)]
  BY <1>1, <1>6, <1>7, <1>8, UpdateStep DEF c
<1>10. QED
  BY <1>1, <1>3, <1>9

LEMMA DeleteStep ==
    ASSUME IInv, NEW o \in Objects, NEW i \in 1 .. Len(Elements(o)), NEW out,
           Deletes(heap, Elements(o), i, out),
           NEW rear \in Pointers, NEW size \in Nat, Update(o, out, rear, size),
           o \in Queues => i = 1 /\ rear = object[o].rear,
           o \in Queues \union Stacks => size = Len(Elements(o)) - 1
    PROVE  /\ IInv'
           /\ Contained' = [Contained EXCEPT ![o] = RemoveAt(Contained[o], i)]
<1> DEFINE c == Elements(o)
<1> DEFINE d == RemoveAt(c, i)
<1>1. /\ Edit(heap, c, out, d)
      /\ ItemsOn(out.heap, d) = RemoveAt(ItemsOn(heap, c), i)
  BY DEF Deletes
<1>2. c \in Seq(Nodes) /\ Len(c) \in Nat
  BY ChainFacts
<1>3. Contained[o] = ItemsOn(heap, c)
  BY DEF Contained, ItemsOf
<1> HIDE DEF c
<1>4. /\ d \in Seq(Nodes) /\ Len(d) = Len(c) - 1
      /\ \A k \in 1 .. Len(c) - 1 : d[k] = IF k < i THEN c[k] ELSE c[k + 1]
  BY <1>2, RemoveAtShape DEF c
<1> HIDE DEF d
<1>5. ASSUME NEW m \in ToSet(d) PROVE m \in ToSet(c)
  <2>1. PICK k \in 1 .. Len(d) : m = d[k]
    BY <1>4, ToSetShape
  <2>2. \E j \in 1 .. Len(c) : m = c[j]
    BY <1>2, <1>4, <2>1
  <2>3. QED
    BY <1>2, <2>2, ToSetShape
<1>6. o \in Queues /\ Len(d) # 0 => rear = d[Len(d)]
  <2>1. SUFFICES ASSUME o \in Queues, Len(d) # 0 PROVE rear = d[Len(d)]
    OBVIOUS
  <2>2. Len(c) # 0 /\ Len(d) \in 1 .. Len(c) - 1 /\ Len(d) + 1 = Len(c)
    BY <1>2, <1>4, <2>1
  <2>3. rear = c[Len(c)]
    BY <2>1, <2>2 DEF c, IInv, RearsKnown
  <2>4. i = 1
    BY <2>1
  <2>5. QED
    BY <1>2, <1>4, <2>2, <2>3, <2>4
<1>7. o \in Queues \union Stacks => size = Len(d)
  BY <1>4 DEF c
<1>8. ToSet(d) \intersect (heap.live \ ToSet(Elements(o))) = {}
  BY <1>5 DEF c
<1>9. /\ IInv'
      /\ Contained' = [Contained EXCEPT ![o] = ItemsOn(out.heap, d)]
  BY <1>1, <1>6, <1>7, <1>8, UpdateStep DEF c
<1>10. QED
  BY <1>1, <1>3, <1>9

-----------------------------------------------------------------------------
(* Each action keeps the invariant and is a step of the abstract containers. *)

LEMMA ContainedIsSequences ==
    ASSUME IInv, NEW o \in Objects
    PROVE  Contained[o] \in Seq(Held) /\ Contained[o] = ItemsOf(o) /\ Len(Contained[o]) = Len(Elements(o))
BY ChainFacts DEF Contained

\* Where a queue appends and a stack pushes.
LEMMA InsertAtEnds ==
    ASSUME NEW s \in Seq(Held), NEW x \in Held
    PROVE  InsertAt(s, 1, x) = <<x>> \o s /\ InsertAt(s, Len(s) + 1, x) = Append(s, x)
<1>1. SubSeq(s, 1, 0) = <<>> /\ SubSeq(s, 1, Len(s)) = s /\ SubSeq(s, Len(s) + 1, Len(s)) = <<>>
  OBVIOUS
<1>2. InsertAt(s, 1, x) = <<>> \o <<x>> \o s
  BY <1>1 DEF InsertAt
<1>3. InsertAt(s, Len(s) + 1, x) = s \o <<x>> \o <<>>
  <2>1. (Len(s) + 1) - 1 = Len(s)
    OBVIOUS
  <2>2. QED
    BY <1>1, <2>1 DEF InsertAt
<1>4. QED
  BY <1>2, <1>3

LEMMA RemoveAtHead ==
    ASSUME NEW s \in Seq(Held), Len(s) # 0
    PROVE  RemoveAt(s, 1) = Tail(s)
<1>1. SubSeq(s, 1, 0) = <<>> /\ SubSeq(s, 2, Len(s)) = Tail(s) /\ Tail(s) \in Seq(Held)
  OBVIOUS
<1>2. RemoveAt(s, 1) = <<>> \o Tail(s)
  BY <1>1 DEF RemoveAt
<1>3. QED
  BY <1>1, <1>2

LEMMA EmptyIsNoElements ==
    ASSUME IInv, NEW o \in Objects
    PROVE  Empty(o) <=> Len(Elements(o)) = 0
<1>1. object[o].front = Null <=> Len(Elements(o)) = 0
  BY ChainFacts
<1>2. ASSUME o \in Queues, Len(Elements(o)) # 0 PROVE object[o].rear # Null
  <2>1. object[o].rear = Elements(o)[Len(Elements(o))]
    BY <1>2 DEF IInv, RearsKnown
  <2>2. Len(Elements(o)) \in 1 .. Len(Elements(o)) /\ Elements(o) \in Seq(Nodes)
    BY <1>2, ChainFacts
  <2>3. object[o].rear \in Nodes
    BY <2>1, <2>2
  <2>4. QED
    BY <2>3, NodesFinite
<1>3. QED
  BY <1>1, <1>2 DEF Empty

LEMMA QueuePushStep ==
    ASSUME IInv, NEW q \in Queues, NEW x \in Items, QueuePush(q, x)
    PROVE  IInv' /\ Abstract!Enqueue(q, x)
<1> DEFINE c == Elements(q)
<1> DEFINE front == object[q].front
<1> DEFINE out == IF Empty(q) THEN InsertHead(heap, front, x)
                  ELSE InsertAfter(heap, front, LastNode(heap, front), x)
<1>1. q \in Objects /\ x \in Held
  BY DEF Objects, Held
<1>2. Room(1) /\ Update(q, out, out.node, object[q].size + 1)
  BY DEF QueuePush, Grows
<1>3. Nodes \ heap.live # {}
  BY <1>2, RoomForOne
<1>4. IsHeap(heap) /\ Linked(heap, front, c) /\ Len(c) \in Nat
  BY <1>1, ChainFacts
<1>5. Inserts(heap, c, Len(c) + 1, x, out)
  <2> HIDE DEF c, front
  <2>1. CASE Len(c) = 0
    <3>1. out = InsertHead(heap, front, x) /\ Len(c) + 1 = 1
      BY <1>1, <2>1, EmptyIsNoElements DEF c
    <3> HIDE DEF out
    <3>2. QED
      BY <1>1, <1>3, <1>4, <3>1, InsertHeadInserts
  <2>2. CASE Len(c) # 0
    <3>1. LastNode(heap, front) = c[Len(c)] /\ Len(c) \in 1 .. Len(c)
      BY <1>4, <2>2, WalkOf
    <3>2. out = InsertAfter(heap, front, c[Len(c)], x)
      BY <1>1, <2>2, <3>1, EmptyIsNoElements DEF c
    <3> HIDE DEF out
    <3>3. QED
      BY <1>1, <1>3, <1>4, <3>1, <3>2, InsertAfterInserts
  <2>3. QED
    BY <2>1, <2>2
<1> HIDE DEF out
<1>6. out.node \in Pointers
  BY <1>5 DEF Inserts, Pointers
<1>7. object[q].size = Len(c) /\ object[q].size + 1 \in Nat
  BY <1>4 DEF IInv, SizesKnown
<1>8. Len(c) + 1 \in 1 .. Len(c) + 1
  BY <1>4
<1>9. /\ IInv'
      /\ Contained' = [Contained EXCEPT ![q] = InsertAt(Contained[q], Len(c) + 1, x)]
  <2> DEFINE i == Len(c) + 1
  <2> DEFINE rear == out.node
  <2> DEFINE size == object[q].size + 1
  <2>1. /\ i \in 1 .. Len(Elements(q)) + 1 /\ Inserts(heap, Elements(q), i, x, out)
        /\ rear \in Pointers /\ size \in Nat /\ Update(q, out, rear, size)
        /\ i = Len(Elements(q)) + 1 /\ rear = out.node /\ size = Len(Elements(q)) + 1
    BY <1>2, <1>5, <1>6, <1>7, <1>8
  <2> HIDE DEF i, rear, size
  <2>2. IInv' /\ Contained' = [Contained EXCEPT ![q] = InsertAt(Contained[q], i, x)]
    BY <1>1, <2>1, InsertStep
  <2>3. QED
    BY <2>2 DEF i
<1>10. InsertAt(Contained[q], Len(c) + 1, x) = Append(Contained[q], x)
  BY <1>1, ContainedIsSequences, InsertAtEnds
<1>11. QED
  BY <1>9, <1>10 DEF Abstract!Enqueue, Abstract!Change, Abstract!Objects, Contained, Objects

LEMMA StackPushStep ==
    ASSUME IInv, NEW s \in Stacks, NEW x \in Items, StackPush(s, x)
    PROVE  IInv' /\ Abstract!Push(s, x)
<1> DEFINE c == Elements(s)
<1> DEFINE out == InsertHead(heap, object[s].front, x)
<1> DEFINE size == object[s].size + 1
<1>1. s \in Objects /\ s \notin Queues /\ x \in Held
  BY ObjectsAssumption DEF Objects, Held
<1>2. Room(1) /\ Update(s, out, Null, size)
  BY DEF StackPush, Grows
<1>3. Nodes \ heap.live # {}
  BY <1>2, RoomForOne
<1>4. IsHeap(heap) /\ Linked(heap, object[s].front, c) /\ Len(c) \in Nat
  BY <1>1, ChainFacts
<1>5. Inserts(heap, c, 1, x, out)
  BY <1>1, <1>3, <1>4, InsertHeadInserts
<1>6. size \in Nat /\ size = Len(c) + 1 /\ Null \in Pointers /\ 1 \in 1 .. Len(c) + 1
  BY <1>4 DEF IInv, SizesKnown, Pointers
<1> HIDE DEF out, size
<1>7. IInv' /\ Contained' = [Contained EXCEPT ![s] = InsertAt(Contained[s], 1, x)]
  BY <1>1, <1>2, <1>5, <1>6, InsertStep
<1>8. InsertAt(Contained[s], 1, x) = <<x>> \o Contained[s]
  BY <1>1, ContainedIsSequences, InsertAtEnds
<1>9. QED
  BY <1>7, <1>8 DEF Abstract!Push, Abstract!Change, Abstract!Objects, Contained, Objects

LEMMA PopStep ==
    ASSUME IInv, NEW o \in Queues \union Stacks, Pop(o)
    PROVE  IInv' /\ Abstract!Pop(o)
<1> DEFINE c == Elements(o)
<1> DEFINE front == object[o].front
<1> DEFINE out == DeleteNode(heap, front, front)
<1> DEFINE rear == object[o].rear
<1> DEFINE size == object[o].size - 1
<1>1. o \in Objects
  BY DEF Objects
<1>2. Update(o, out, rear, size) /\ ~Empty(o)
  BY DEF Pop
<1>3. IsHeap(heap) /\ Linked(heap, front, c) /\ Len(c) \in Nat /\ Len(c) # 0
  BY <1>1, <1>2, ChainFacts, EmptyIsNoElements
<1>4. 1 \in 1 .. Len(c) /\ front = c[1]
  BY <1>3, LinkedFacts
<1>5. Deletes(heap, c, 1, out)
  BY <1>3, <1>4, DeleteNodeDeletes
<1>6. size \in Nat /\ size = Len(c) - 1 /\ rear \in Pointers
  BY <1>1, <1>3 DEF IInv, SizesKnown
<1> HIDE DEF out, size
<1>7. IInv' /\ Contained' = [Contained EXCEPT ![o] = RemoveAt(Contained[o], 1)]
  BY <1>1, <1>2, <1>4, <1>5, <1>6, DeleteStep
<1>8. Contained[o] \in Seq(Held) /\ Len(Contained[o]) # 0
  BY <1>1, <1>3, ContainedIsSequences
<1>9. RemoveAt(Contained[o], 1) = Tail(Contained[o])
  BY <1>8, RemoveAtHead
<1>10. Contained[o] # <<>>
  BY <1>8
<1>11. QED
  BY <1>7, <1>9, <1>10 DEF Abstract!Pop, Abstract!Change, Abstract!Objects, Contained, Objects

LEMMA ClearStep ==
    ASSUME IInv, NEW o \in Objects, Clear(o)
    PROVE  IInv' /\ Abstract!Clear(o)
<1> DEFINE c == Elements(o)
<1> DEFINE out == Out(ClearList(heap, object[o].front), Null, Null)
<1>1. Update(o, out, Null, 0)
  BY DEF Clear
<1>2. IsHeap(heap) /\ Linked(heap, object[o].front, c)
  BY ChainFacts
<1>3. Edit(heap, c, out, <<>>)
  BY <1>2, ClearListEdit
<1>4. /\ ToSet(<<>>) = {} /\ Len(<<>>) = 0 /\ Null \in Pointers /\ 0 \in Nat
      /\ ToSet(<<>>) \intersect (heap.live \ ToSet(Elements(o))) = {}
  BY DEF ToSet, Pointers
<1>5. ItemsOn(out.heap, <<>>) = <<>>
  BY DEF ItemsOn
<1> HIDE DEF out
<1>6. IInv' /\ Contained' = [Contained EXCEPT ![o] = ItemsOn(out.heap, <<>>)]
  BY <1>1, <1>3, <1>4, UpdateStep
<1>7. QED
  BY <1>5, <1>6 DEF Abstract!Clear, Abstract!Change, Abstract!Objects, Contained, Objects

LEMMA AssignStep ==
    ASSUME IInv, NEW o \in Objects, NEW from \in Objects,
           o \in Queues \union Stacks, from \in Queues \union Stacks, Assign(o, from)
    PROVE  IInv' /\ Abstract!Assign(o, from)
<1> DEFINE c == Elements(o)
<1> DEFINE b == Elements(from)
<1> DEFINE front == object[from].front
<1> DEFINE g == ClearList(heap, object[o].front)
<1> DEFINE out == CopyList(g, front)
<1> DEFINE rear == IF o \in Queues THEN out.node ELSE Null
<1> DEFINE size == object[from].size
<1> DEFINE items == ItemsOn(heap, b)
<1>1. o # from /\ Room(Len(b) - Len(c)) /\ Update(o, out, rear, size)
  BY DEF Assign
<1>2. /\ IsHeap(heap) /\ Linked(heap, object[o].front, c) /\ Linked(heap, front, b)
      /\ c \in Seq(Nodes) /\ Len(c) \in Nat /\ b \in Seq(Nodes) /\ Len(b) \in Nat
      /\ ToSet(c) \subseteq heap.live /\ ToSet(b) \subseteq heap.live
  BY ChainFacts
<1>3. ToSet(b) \intersect ToSet(c) = {}
  BY <1>1 DEF IInv, NodesOwned
<1>4. size \in Nat /\ size = Len(b)
  BY <1>2 DEF IInv, SizesKnown
<1> HIDE DEF c, b, front
\* The old list is deleted; the other one stays.
<1>5. /\ IsHeap(g) /\ g.live = heap.live \ ToSet(c)
      /\ \A m \in Nodes \ ToSet(c) : g.node[m] = heap.node[m]
  <2>1. Edit(heap, c, Out(g, Null, Null), <<>>)
    BY <1>2, ClearListEdit
  <2>2. Out(g, Null, Null).heap = g /\ ToSet(<<>>) = {}
    BY DEF Out, ToSet
  <2> HIDE DEF g
  <2>3. QED
    BY <2>1, <2>2 DEF Edit
<1> HIDE DEF g
<1>6. Linked(g, front, b) /\ ItemsOn(g, b) = items
  <2>1. \A i \in 1 .. Len(b) : b[i] \in ToSet(b) /\ b[i] \in Nodes
    BY <1>2, ToSetShape
  <2>2. \A i \in 1 .. Len(b) : b[i] \in g.live /\ g.node[b[i]] = heap.node[b[i]]
    BY <1>2, <1>3, <1>5, <2>1
  <2>3. QED
    BY <1>2, <2>2, LeftAlone
<1>7. Cardinality(g.live) + Len(b) <= Cardinality(Nodes)
  <2>1. heap.live \in SUBSET Nodes /\ \A i, j \in 1 .. Len(c) : i # j => c[i] # c[j]
    BY <1>2 DEF IsHeap, Linked
  <2>2. /\ Cardinality(heap.live \ ToSet(c)) = Cardinality(heap.live) - Len(c)
        /\ Cardinality(heap.live) \in Nat
    BY <1>2, <2>1, NodesCounted
  <2>3. Cardinality(heap.live) + (Len(b) - Len(c)) <= Cardinality(Nodes)
    BY <1>1 DEF Room
  <2>4. QED
    BY <1>2, <1>5, <2>2, <2>3, NodesFinite
<1>8. PICK d : Copied(g, items, Len(b), out, d)
  BY <1>5, <1>6, <1>7, CopyListCopies
<1> HIDE DEF out
<1>9. /\ IsHeap(out.heap) /\ Linked(out.heap, out.head, d)
      /\ out.heap.live = g.live \union ToSet(d)
      /\ \A m \in Nodes \ ToSet(d) : out.heap.node[m] = g.node[m]
      /\ ToSet(d) \intersect g.live = {}
      /\ Len(d) = Len(b)
      /\ \A j \in 1 .. Len(b) : out.heap.node[d[j]].item = items[j]
      /\ out.node = IF Len(b) = 0 THEN Null ELSE d[Len(b)]
  <2>1. ToSet(<<>>) = {}
    BY DEF ToSet
  <2>2. QED
    BY <1>8, <2>1 DEF Copied, Edit
<1>10. Edit(heap, c, out, d)
  BY <1>5, <1>9 DEF Edit
<1>11. ToSet(d) \intersect (heap.live \ ToSet(c)) = {}
  BY <1>5, <1>9
<1>12. d \in Seq(Nodes) /\ \A j \in 1 .. Len(d) : d[j] \in Nodes
  BY <1>9 DEF Linked
<1>13. rear \in Pointers /\ (o \in Queues /\ Len(d) # 0 => rear = d[Len(d)])
  <2>1. Len(d) # 0 => Len(d) \in 1 .. Len(d)
    BY <1>2, <1>9
  <2>2. QED
    BY <1>9, <1>12, <2>1 DEF Pointers
<1>14. ItemsOn(out.heap, d) = items
  <2>1. /\ ItemsOn(out.heap, d) \in Seq(Held) /\ Len(ItemsOn(out.heap, d)) = Len(d)
        /\ \A k \in 1 .. Len(d) : ItemsOn(out.heap, d)[k] = out.heap.node[d[k]].item
    BY <1>9, <1>12, ItemsOnShape
  <2>2. items \in Seq(Held) /\ Len(items) = Len(b)
    BY <1>2, ItemsOnShape
  <2> DEFINE t == ItemsOn(out.heap, d)
  <2> HIDE DEF t, items
  <2>3. /\ t \in Seq(Held) /\ Len(t) = Len(items)
        /\ \A k \in 1 .. Len(t) : t[k] = items[k]
    BY <1>9, <2>1, <2>2 DEF t
  <2>4. t = items
    BY <2>2, <2>3, SameSequence
  <2>5. QED
    BY <2>4 DEF t
<1> HIDE DEF rear, size
<1>15. IInv' /\ Contained' = [Contained EXCEPT ![o] = ItemsOn(out.heap, d)]
  BY <1>1, <1>4, <1>9, <1>10, <1>11, <1>13, UpdateStep DEF c
<1>16. items = Contained[from]
  BY DEF b, Contained, ItemsOf
<1>17. QED
  BY <1>14, <1>15, <1>16 DEF Abstract!Assign, Abstract!Change, Abstract!Objects, Contained, Objects

LEMMA ListInsertStep ==
    ASSUME IInv, NEW l \in Lists, NEW x \in Items, NEW i \in 1 .. Len(Elements(l)) + 1, NEW out,
           Inserts(heap, Elements(l), i, x, out), Update(l, out, Null, 0)
    PROVE  IInv' /\ Abstract!InsertItem(l, i, x) /\ i \in 1 .. Len(Contained[l]) + 1
<1>1. /\ l \in Objects /\ l \notin Queues /\ l \notin Queues \union Stacks /\ x \in Held
      /\ Null \in Pointers /\ 0 \in Nat
  BY ObjectsAssumption DEF Objects, Held, Pointers
<1>2. IInv' /\ Contained' = [Contained EXCEPT ![l] = InsertAt(Contained[l], i, x)]
  BY <1>1, InsertStep
<1>3. i \in 1 .. Len(Contained[l]) + 1
  BY <1>1, ContainedIsSequences
<1>4. QED
  BY <1>2, <1>3 DEF Abstract!InsertItem, Abstract!Change, Abstract!Objects, Abstract!InsertAt, InsertAt,
                     Contained, Objects

LEMMA ListDeleteStep ==
    ASSUME IInv, NEW l \in Lists, NEW i \in DOMAIN Elements(l), ListDelete(l, i)
    PROVE  IInv' /\ Abstract!DeleteItem(l, i) /\ i \in DOMAIN Contained[l]
<1> DEFINE out == DeleteNode(heap, object[l].front, Elements(l)[i])
<1>1. /\ l \in Objects /\ l \notin Queues /\ l \notin Queues \union Stacks
      /\ Null \in Pointers /\ 0 \in Nat
  BY ObjectsAssumption DEF Objects, Pointers
<1>2. /\ IsHeap(heap) /\ Linked(heap, object[l].front, Elements(l))
      /\ i \in 1 .. Len(Elements(l)) /\ i \in DOMAIN Contained[l]
  BY <1>1, ChainFacts, ContainedIsSequences
<1>3. Deletes(heap, Elements(l), i, out)
  BY <1>2, DeleteNodeDeletes
<1>4. Update(l, out, Null, 0)
  BY DEF ListDelete
<1> HIDE DEF out
<1>5. IInv' /\ Contained' = [Contained EXCEPT ![l] = RemoveAt(Contained[l], i)]
  BY <1>1, <1>2, <1>3, <1>4, DeleteStep
<1>6. QED
  BY <1>2, <1>5 DEF Abstract!DeleteItem, Abstract!Change, Abstract!Objects, Abstract!RemoveAt, RemoveAt,
                     Contained, Objects

LEMMA ListStep ==
    ASSUME IInv, NEW l \in Lists, NEW x \in Items,
           \/ \E i \in DOMAIN Elements(l) : ListInsertBefore(l, i, x) \/ ListInsertAfter(l, i, x)
           \/ ListInsertTail(l, x)
    PROVE  IInv' /\ \E i \in 1 .. Len(Contained[l]) + 1 : Abstract!InsertItem(l, i, x)
<1> DEFINE c == Elements(l)
<1> DEFINE front == object[l].front
<1>1. l \in Objects /\ x \in Held
  BY DEF Objects, Held
<1>2. /\ IsHeap(heap) /\ Linked(heap, front, c) /\ Len(c) \in Nat
      /\ DOMAIN c = 1 .. Len(c)
  BY <1>1, ChainFacts
<1>3. Room(1)
  BY DEF ListInsertBefore, ListInsertAfter, ListInsertTail, Grows
<1>4. Nodes \ heap.live # {}
  BY <1>3, RoomForOne
<1>5. ASSUME NEW i \in DOMAIN c, ListInsertBefore(l, i, x)
      PROVE  IInv' /\ \E j \in 1 .. Len(Contained[l]) + 1 : Abstract!InsertItem(l, j, x)
  <2> DEFINE out == InsertBefore(heap, front, c[i], x)
  <2>1. i \in 1 .. Len(c) /\ i \in 1 .. Len(c) + 1 /\ Update(l, out, Null, 0)
    BY <1>2, <1>5 DEF ListInsertBefore
  <2>2. Inserts(heap, c, i, x, out)
    BY <1>1, <1>2, <1>4, <2>1, InsertBeforeInserts
  <2> HIDE DEF out
  <2>3. IInv' /\ Abstract!InsertItem(l, i, x) /\ i \in 1 .. Len(Contained[l]) + 1
    BY <2>1, <2>2, ListInsertStep
  <2>4. QED
    BY <2>3
<1>6. ASSUME NEW i \in DOMAIN c, ListInsertAfter(l, i, x)
      PROVE  IInv' /\ \E j \in 1 .. Len(Contained[l]) + 1 : Abstract!InsertItem(l, j, x)
  <2> DEFINE out == InsertAfter(heap, front, c[i], x)
  <2> DEFINE k == i + 1
  <2>1. i \in 1 .. Len(c) /\ k \in 1 .. Len(c) + 1 /\ Update(l, out, Null, 0)
    BY <1>2, <1>6 DEF ListInsertAfter
  <2>2. Inserts(heap, c, k, x, out)
    BY <1>1, <1>2, <1>4, <2>1, InsertAfterInserts
  <2> HIDE DEF out, k
  <2>3. IInv' /\ Abstract!InsertItem(l, k, x) /\ k \in 1 .. Len(Contained[l]) + 1
    BY <2>1, <2>2, ListInsertStep
  <2>4. QED
    BY <2>3
<1>7. ASSUME ListInsertTail(l, x)
      PROVE  IInv' /\ \E j \in 1 .. Len(Contained[l]) + 1 : Abstract!InsertItem(l, j, x)
  <2> DEFINE out == InsertTail(heap, front, x)
  <2> DEFINE k == Len(c) + 1
  <2>1. k \in 1 .. Len(c) + 1 /\ Update(l, out, Null, 0)
    BY <1>2, <1>7 DEF ListInsertTail
  <2>2. Inserts(heap, c, k, x, out)
    BY <1>1, <1>2, <1>4, InsertTailInserts
  <2> HIDE DEF out, k
  <2>3. IInv' /\ Abstract!InsertItem(l, k, x) /\ k \in 1 .. Len(Contained[l]) + 1
    BY <2>1, <2>2, ListInsertStep
  <2>4. QED
    BY <2>3
<1>8. QED
  BY <1>5, <1>6, <1>7

-----------------------------------------------------------------------------
(* The theorems *)

LEMMA InitInvariant == Init => IInv /\ Contained = [o \in Objects |-> <<>>]
<1> SUFFICES ASSUME Init PROVE IInv /\ Contained = [o \in Objects |-> <<>>]
  OBVIOUS
<1>1. /\ heap = Heap([n \in Pointers |-> Blank], {}, {})
      /\ object = [o \in Objects |-> EmptyObject]
  BY DEF Init
<1>2. Blank \in Contents
  BY DEF Blank, Node, Contents, Held, Pointers
<1>3. [n \in Pointers |-> Blank] \in [Pointers -> Contents]
  BY <1>2
<1>4. IsHeap(heap) /\ heap.live = {}
  BY <1>1, <1>3 DEF IsHeap, Heap
<1>5. EmptyObject \in [front : Pointers, rear : Pointers, size : Nat] /\ EmptyObject.front = Null
      /\ EmptyObject.size = 0
  BY DEF EmptyObject, Pointers
<1>6. object \in [Objects -> [front : Pointers, rear : Pointers, size : Nat]]
  BY <1>1, <1>5
<1>7. <<>> \in Seq(Nodes) /\ Len(<<>>) = 0 /\ ToSet(<<>>) = {}
  BY DEF ToSet
<1>8. Linked(heap, Null, <<>>)
  BY <1>7 DEF Linked
<1>9. ASSUME NEW o \in Objects
      PROVE  /\ object[o].front = Null /\ object[o].size = 0
             /\ Elements(o) = <<>> /\ ItemsOf(o) = <<>>
  <2>1. object[o].front = Null /\ object[o].size = 0
    BY <1>1, <1>5
  <2>2. Elements(o) = <<>>
    BY <1>4, <1>8, <2>1, ChainOf DEF Elements
  <2>3. ItemsOf(o) = <<>>
    BY <2>2 DEF ItemsOf, ItemsOn
  <2>4. QED
    BY <2>1, <2>2, <2>3
<1>10. \A o \in Objects : Linked(heap, object[o].front, Elements(o))
  BY <1>8, <1>9
<1>11. NodesOwned
  BY <1>4, <1>7, <1>9 DEF NodesOwned
<1>12. RearsKnown /\ SizesKnown
  BY <1>7, <1>9 DEF RearsKnown, SizesKnown, Objects
<1>13. IInv
  BY <1>4, <1>6, <1>10, <1>11, <1>12 DEF IInv
<1>14. Contained = [o \in Objects |-> <<>>]
  BY <1>9 DEF Contained
<1>15. QED
  BY <1>13, <1>14

\* Every step keeps the invariant and is one of the abstract containers.
LEMMA StepInvariant == IInv /\ [Next]_vars => IInv' /\ [Abstract!Next]_Contained
<1> SUFFICES ASSUME IInv, [Next]_vars PROVE IInv' /\ [Abstract!Next]_Contained
  OBVIOUS
<1>0. Abstract!Objects = Objects
  BY DEF Abstract!Objects, Objects
<1>1. ASSUME NEW q \in Queues, NEW x \in Items, QueuePush(q, x)
      PROVE  IInv' /\ [Abstract!Next]_Contained
  BY <1>1, QueuePushStep DEF Abstract!Next
<1>2. ASSUME NEW s \in Stacks, NEW x \in Items, StackPush(s, x)
      PROVE  IInv' /\ [Abstract!Next]_Contained
  BY <1>2, StackPushStep DEF Abstract!Next
<1>3. ASSUME NEW o \in Queues \union Stacks, Pop(o)
      PROVE  IInv' /\ [Abstract!Next]_Contained
  BY <1>3, PopStep DEF Abstract!Next
<1>4. ASSUME NEW o \in Queues, NEW from \in Queues, Assign(o, from)
      PROVE  IInv' /\ [Abstract!Next]_Contained
  <2>1. IInv' /\ Abstract!Assign(o, from)
    BY <1>4, AssignStep DEF Objects
  <2>2. QED
    BY <2>1 DEF Abstract!Next
<1>5. ASSUME NEW o \in Stacks, NEW from \in Stacks, Assign(o, from)
      PROVE  IInv' /\ [Abstract!Next]_Contained
  <2>1. IInv' /\ Abstract!Assign(o, from)
    BY <1>5, AssignStep DEF Objects
  <2>2. QED
    BY <2>1 DEF Abstract!Next
<1>6. ASSUME NEW o \in Objects, Clear(o)
      PROVE  IInv' /\ [Abstract!Next]_Contained
  BY <1>0, <1>6, ClearStep DEF Abstract!Next
<1>7. ASSUME NEW l \in Lists, NEW x \in Items,
             \/ \E i \in DOMAIN Elements(l) : ListInsertBefore(l, i, x) \/ ListInsertAfter(l, i, x)
             \/ ListInsertTail(l, x)
      PROVE  IInv' /\ [Abstract!Next]_Contained
  <2>1. IInv' /\ \E i \in 1 .. Len(Contained[l]) + 1 : Abstract!InsertItem(l, i, x)
    BY <1>7, ListStep
  <2>2. QED
    BY <2>1 DEF Abstract!Next, Contained
<1>8. ASSUME NEW l \in Lists, NEW i \in DOMAIN Elements(l), ListDelete(l, i)
      PROVE  IInv' /\ [Abstract!Next]_Contained
  <2>1. IInv' /\ Abstract!DeleteItem(l, i) /\ i \in DOMAIN Contained[l]
    BY <1>8, ListDeleteStep
  <2>2. QED
    BY <2>1 DEF Abstract!Next, Contained
<1>9. ASSUME UNCHANGED vars PROVE IInv' /\ [Abstract!Next]_Contained
  <2>1. heap' = heap /\ object' = object
    BY <1>9 DEF vars
  <2>2. \A o : Elements(o)' = Elements(o) /\ ItemsOf(o)' = ItemsOf(o)
    BY <2>1 DEF Elements, ItemsOf
  <2>3. Contained' = Contained
    BY <2>2 DEF Contained
  <2>4. NodesOwned' /\ RearsKnown' /\ SizesKnown'
    BY <2>1, <2>2 DEF IInv, NodesOwned, RearsKnown, SizesKnown
  <2>5. \A o \in Objects : Linked(heap', object'[o].front, Elements(o)')
    BY <2>1, <2>2 DEF IInv
  <2>6. QED
    BY <2>1, <2>3, <2>4, <2>5 DEF IInv
<1>10. QED
  BY <1>1, <1>2, <1>3, <1>4, <1>5, <1>6, <1>7, <1>8, <1>9 DEF Next

\* The invariant holds of every reachable state.
THEOREM Invariance == Spec => []IInv
<1>1. Init => IInv
  BY InitInvariant
<1>2. IInv /\ [Next]_vars => IInv'
  BY StepInvariant
<1>3. QED
  BY <1>1, <1>2, PTL DEF Spec

\* No sequence of calls reads, writes or frees a node that is not allocated,
\* whatever rears and back links to freed nodes were left behind.
THEOREM NoPointerMisused == Spec => []NoFault
<1>1. IInv => NoFault
  BY DEF IInv, IsHeap, NoFault
<1>2. QED
  BY <1>1, Invariance, PTL

\* Every allocated node is in exactly one container, through every copy,
\* assignment and destruction.
THEOREM NodesHaveOneOwner == Spec => []NodesOwned
<1>1. IInv => NodesOwned
  BY DEF IInv
<1>2. QED
  BY <1>1, Invariance, PTL

\* Back links mirror forward links, rears are last nodes and sizes are lengths.
THEOREM BackLinksAgree == Spec => []LinksAgree
<1>1. ASSUME IInv PROVE TypeOK
  <2>1. /\ heap.node \in [Pointers -> Contents] /\ heap.live \subseteq Nodes /\ heap.wild = {}
    BY <1>1 DEF IInv, IsHeap
  <2>2. object \in [Objects -> [front : Pointers, rear : Pointers, size : Nat]]
    BY <1>1 DEF IInv
  <2>3. \A o \in Queues \union Stacks : object[o].size = Len(Elements(o))
    BY <1>1 DEF IInv, SizesKnown
  <2>4. QED
    BY <2>1, <2>2, <2>3 DEF TypeOK, Contents, Held, Pointers
<1>2. ASSUME IInv, NEW o \in Objects, NEW k \in 2 .. Len(Elements(o))
      PROVE  heap.node[Elements(o)[k]].prev = Elements(o)[k - 1]
  BY <1>2, ChainFacts, LinkedFacts
<1>3. ASSUME IInv, NEW q \in Queues, object[q].front # Null
      PROVE  object[q].rear = Last(Elements(q))
  <2>1. q \in Objects
    BY DEF Objects
  <2>2. Len(Elements(q)) # 0
    BY <1>3, <2>1, ChainFacts
  <2>3. QED
    BY <1>3, <2>2 DEF IInv, RearsKnown, Last
<1>4. IInv => LinksAgree
  BY <1>1, <1>2, <1>3 DEF LinksAgree
<1>5. QED
  BY <1>4, Invariance, PTL

\* Inserting before or after and deleting the i-th node of a list, in whatever
\* heap the calls before it left, edits its sequence in that place.
THEOREM EditsLandInPlace == Spec => []EditsInPlace
<1>1. ASSUME IInv, NEW l \in Lists, NEW i \in DOMAIN Elements(l)
      PROVE  /\ ItemsIn(DeleteNode(heap, object[l].front, Elements(l)[i])) = RemoveAt(ItemsOf(l), i)
             /\ Room(1) => \A x \in Items :
                   /\ ItemsIn(InsertBefore(heap, object[l].front, Elements(l)[i], x))
                         = InsertAt(ItemsOf(l), i, x)
                   /\ ItemsIn(InsertAfter(heap, object[l].front, Elements(l)[i], x))
                         = InsertAt(ItemsOf(l), i + 1, x)
  <2> DEFINE c == Elements(l)
  <2> DEFINE front == object[l].front
  <2>1. l \in Objects
    BY DEF Objects
  <2>2. /\ IsHeap(heap) /\ Linked(heap, front, c) /\ i \in 1 .. Len(c)
        /\ ItemsOf(l) = ItemsOn(heap, c)
    BY <1>1, <2>1, ChainFacts
  <2>3. ASSUME NEW out, NEW d, Edit(heap, c, out, d) PROVE ItemsIn(out) = ItemsOn(out.heap, d)
    <3>1. IsHeap(out.heap) /\ Linked(out.heap, out.head, d)
      BY <2>3 DEF Edit
    <3>2. QED
      BY <3>1, ChainOf DEF ItemsIn
  <2> HIDE DEF c, front
  <2>4. ItemsIn(DeleteNode(heap, front, c[i])) = RemoveAt(ItemsOf(l), i)
    <3> DEFINE out == DeleteNode(heap, front, c[i])
    <3>1. Deletes(heap, c, i, out)
      BY <2>2, DeleteNodeDeletes
    <3> HIDE DEF out
    <3>2. ItemsIn(out) = ItemsOn(out.heap, RemoveAt(c, i))
      BY <2>3, <3>1 DEF Deletes
    <3>3. QED
      BY <2>2, <3>1, <3>2 DEF Deletes, out
  <2>5. ASSUME Room(1), NEW x \in Items
        PROVE  /\ ItemsIn(InsertBefore(heap, front, c[i], x)) = InsertAt(ItemsOf(l), i, x)
               /\ ItemsIn(InsertAfter(heap, front, c[i], x)) = InsertAt(ItemsOf(l), i + 1, x)
    <3> DEFINE before == InsertBefore(heap, front, c[i], x)
    <3> DEFINE after == InsertAfter(heap, front, c[i], x)
    <3>1. Nodes \ heap.live # {} /\ x \in Held
      BY <1>1, <2>5, RoomForOne DEF Held
    <3>2. Inserts(heap, c, i, x, before) /\ Inserts(heap, c, i + 1, x, after)
      BY <2>2, <3>1, InsertBeforeInserts, InsertAfterInserts
    <3> HIDE DEF before, after
    <3>3. ItemsIn(before) = ItemsOn(before.heap, InsertAt(c, i, before.node))
      BY <2>3, <3>2 DEF Inserts
    <3>4. ItemsIn(after) = ItemsOn(after.heap, InsertAt(c, i + 1, after.node))
      BY <2>3, <3>2 DEF Inserts
    <3>5. QED
      BY <2>2, <3>2, <3>3, <3>4 DEF Inserts, before, after
  <2>6. QED
    BY <2>4, <2>5 DEF c, front
<1>2. IInv => EditsInPlace
  BY <1>1 DEF EditsInPlace
<1>3. QED
  BY <1>2, Invariance, PTL

\* Queues, stacks and lists are independent sequences: every call on one is the
\* one operation of the abstract containers that it is named for.
THEOREM ImplementsContainers == Spec => Refinement
<1>1. Init => Abstract!Init
  BY InitInvariant DEF Abstract!Init, Abstract!Objects, Objects, Contained
<1>2. IInv /\ [Next]_vars => [Abstract!Next]_Contained
  BY StepInvariant
<1>3. IInv /\ [Next]_vars => [Abstract!Next]_[o \in Objects |-> ItemsOf(o)]
  BY <1>2 DEF Contained
<1>4. QED
  BY <1>1, <1>3, Invariance, PTL DEF Spec, Refinement, Abstract!Spec
=============================================================================
