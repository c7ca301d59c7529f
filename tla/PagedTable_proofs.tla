-------------------------- MODULE PagedTable_proofs --------------------------
(***************************************************************************)
(* Theorems about PagedTable, for tables of any size, keys and page        *)
(* capacity, however the row stream and the trees of the fields take turns *)
(* splitting and appending pages: an image holds exactly the rows inserted *)
(* and its indexes descend level by level, and an insert reports every     *)
(* page it touches.                                                        *)
(*                                                                         *)
(* Each operation on an image covers its changes (Covers), whatever the    *)
(* pages it works on hold, and covering composes.  An image is Closed when *)
(* its index nodes point to nodes of the right level: an index then edits  *)
(* no page but nodes (KeepsOthers), so that the rows' chain stays.  What   *)
(* the chain holds is followed cell by cell (HoldsCells) through its       *)
(* encoding, its cut into pages and the pages an insert fills or adds.     *)
(* The recursive definitions exist because each extends by one step        *)
(* (Extended).                                                             *)
(***************************************************************************)
EXTENDS PagedTable, InductionOnSets, FiniteSetTheorems

IsSequence(s) == \E S : s \in Seq(S)
IsEdit(s, i, v, t) == t = [s EXCEPT ![i] = v]
IsOver(f, n) == f = [i \in 1 .. n |-> f[i]]

\* "new" holds the pages of "old" outside of "dirty", which holds every page
\* it adds.
Covers(old, new, dirtied) ==
    /\ IsSequence(new) /\ Len(old) <= Len(new)
    /\ \A p \in 1 .. Len(new) \ dirtied : p <= Len(old) /\ new[p] = old[p]

-----------------------------------------------------------------------------
(* Sequences, whatever they hold *)

LEMMA SequenceParts ==
    ASSUME NEW s, IsSequence(s)
    PROVE  Len(s) \in Nat /\ DOMAIN s = 1 .. Len(s)
<1>1. PICK S : s \in Seq(S)
  BY DEF IsSequence
<1>2. QED
  BY <1>1

LEMMA SequenceOf ==
    ASSUME NEW n \in Int, NEW f, IsOver(f, n)
    PROVE  IsSequence(f)
<1> DEFINE S == {f[i] : i \in 1 .. n}
<1>1. f \in [1 .. n -> S]
  BY DEF IsOver
<1>2. CASE n >= 0
  <2>1. f \in Seq(S)
    BY <1>1, <1>2
  <2>2. QED
    BY <2>1 DEF IsSequence
<1>3. CASE ~(n >= 0)
  <2>1. 1 .. n = 1 .. 0
    BY <1>3
  <2>2. f \in [1 .. 0 -> S]
    BY <1>1, <2>1
  <2>3. f \in Seq(S)
    BY <2>2
  <2>4. QED
    BY <2>3 DEF IsSequence
<1>4. QED
  BY <1>2, <1>3

LEMMA NoSequence == IsSequence(<<>>) /\ Len(<<>>) = 0
<1>1. <<>> \in Seq({})
  OBVIOUS
<1>2. QED
  BY <1>1 DEF IsSequence

LEMMA Appended ==
    ASSUME NEW s, IsSequence(s), NEW e
    PROVE  /\ IsSequence(Append(s, e)) /\ Len(Append(s, e)) = Len(s) + 1
           /\ Append(s, e)[Len(s) + 1] = e
           /\ \A p \in 1 .. Len(s) : Append(s, e)[p] = s[p]
<1>1. PICK S : s \in Seq(S)
  BY DEF IsSequence
<1> DEFINE T == S \union {e}
<1>2. s \in Seq(T) /\ e \in T
  BY <1>1
<1> HIDE DEF T
<1>3. Append(s, e) \in Seq(T) /\ Len(Append(s, e)) = Len(s) + 1
      /\ Append(s, e)[Len(s) + 1] = e
      /\ \A p \in 1 .. Len(s) : Append(s, e)[p] = s[p]
  BY <1>2
<1>4. QED
  BY <1>3 DEF IsSequence

LEMMA Joined ==
    ASSUME NEW s, IsSequence(s), NEW t, IsSequence(t)
    PROVE  /\ IsSequence(s \o t) /\ Len(s \o t) = Len(s) + Len(t)
           /\ \A p \in 1 .. Len(s) : (s \o t)[p] = s[p]
<1>1. PICK S : s \in Seq(S)
  BY DEF IsSequence
<1>2. PICK T : t \in Seq(T)
  BY DEF IsSequence
<1> DEFINE U == S \union T
<1>3. s \in Seq(U) /\ t \in Seq(U)
  BY <1>1, <1>2
<1> HIDE DEF U
<1>4. s \o t \in Seq(U) /\ Len(s \o t) = Len(s) + Len(t)
      /\ \A p \in 1 .. Len(s) : (s \o t)[p] = s[p]
  BY <1>3
<1>5. QED
  BY <1>4 DEF IsSequence

LEMMA Edited ==
    ASSUME NEW s, IsSequence(s), NEW i, NEW v, NEW t, IsEdit(s, i, v, t)
    PROVE  /\ IsSequence(t) /\ Len(t) = Len(s)
           /\ i \in 1 .. Len(s) => t[i] = v
           /\ \A p \in 1 .. Len(s) : p # i => t[p] = s[p]
<1> DEFINE n == Len(s)
<1>1. n \in Nat /\ DOMAIN s = 1 .. n
  BY SequenceParts
<1> HIDE DEF n
<1>2. t = [p \in 1 .. n |-> IF p = i THEN v ELSE s[p]]
  BY <1>1 DEF IsEdit
<1>3. \A p \in 1 .. n : t[p] = IF p = i THEN v ELSE s[p]
  BY <1>2
<1>4. n \in Int /\ IsOver(t, n)
  BY <1>1, <1>2 DEF IsOver
<1>5. IsSequence(t)
  BY <1>4, SequenceOf
<1>6. Len(t) = n
  <2>1. DOMAIN t = 1 .. Len(t) /\ Len(t) \in Nat
    BY <1>5, SequenceParts
  <2>2. DOMAIN t = 1 .. n
    BY <1>2
  <2> DEFINE m == Len(t)
  <2>3. m \in Nat /\ n \in Nat /\ 1 .. m = 1 .. n
    BY <1>1, <2>1, <2>2
  <2> HIDE DEF m
  <2>4. m \in 1 .. m \/ m = 0
    BY <2>3
  <2>5. n \in 1 .. n \/ n = 0
    BY <2>3
  <2>6. m <= n /\ n <= m
    BY <2>3, <2>4, <2>5
  <2>7. QED
    BY <2>3, <2>6 DEF m
<1>7. QED
  BY <1>3, <1>5, <1>6 DEF n

\* g is f with one more value, v.
Extends(g, f, n, v) ==
    /\ g = [k \in 0 .. n + 1 |-> g[k]] /\ g[n + 1] = v
    /\ \A k \in 0 .. n : g[k] = f[k]

LEMMA Extended ==
    ASSUME NEW n \in Nat, NEW f, NEW v
    PROVE  \E g : Extends(g, f, n, v)
<1> DEFINE g == [k \in 0 .. n + 1 |-> IF k = n + 1 THEN v ELSE f[k]]
<1>1. g = [k \in 0 .. n + 1 |-> g[k]] /\ g[n + 1] = v
  OBVIOUS
<1>2. \A k \in 0 .. n : g[k] = f[k]
  OBVIOUS
<1> HIDE DEF g
<1>3. QED
  BY <1>1, <1>2 DEF Extends

-----------------------------------------------------------------------------
(* Operations that cover their changes *)

LEMMA CoversTwice ==
    ASSUME NEW a, IsSequence(a), NEW b, NEW c, NEW d, NEW e, Covers(a, b, d), Covers(b, c, e)
    PROVE  Covers(a, c, d \union e)
<1>1. Len(a) \in Nat /\ Len(b) \in Nat /\ Len(c) \in Nat
  BY SequenceParts DEF Covers
<1>2. QED
  BY <1>1 DEF Covers

LEMMA CoversMore ==
    ASSUME NEW a, NEW b, NEW d, NEW e, Covers(a, b, d), d \subseteq e \union {NoPage}
    PROVE  Covers(a, b, e)
<1>1. Len(b) \in Nat
  BY SequenceParts DEF Covers
<1>2. \A p \in 1 .. Len(b) \ e : p \notin d
  BY <1>1 DEF NoPage
<1>3. QED
  BY <1>2 DEF Covers

LEMMA CoversEdit ==
    ASSUME NEW s, IsSequence(s), NEW i, NEW v, NEW t, IsEdit(s, i, v, t)
    PROVE  Covers(s, t, {i}) /\ Len(t) = Len(s)
<1>1. Len(s) \in Nat
  BY SequenceParts
<1>2. /\ IsSequence(t) /\ Len(t) = Len(s)
      /\ \A p \in 1 .. Len(s) : p # i => t[p] = s[p]
  BY Edited
<1>3. QED
  BY <1>1, <1>2 DEF Covers

LEMMA CoversAppend ==
    ASSUME NEW s, IsSequence(s), NEW e
    PROVE  Covers(s, Append(s, e), {Len(s) + 1})
<1>1. Len(s) \in Nat
  BY SequenceParts
<1>2. QED
  BY <1>1, Appended DEF Covers

LEMMA CoversJoin ==
    ASSUME NEW s, IsSequence(s), NEW t, IsSequence(t)
    PROVE  Covers(s, s \o t, Len(s) + 1 .. Len(s) + Len(t))
<1>1. Len(s) \in Nat /\ Len(t) \in Nat
  BY SequenceParts
<1>2. QED
  BY <1>1, Joined DEF Covers

-----------------------------------------------------------------------------
(* insert_index_entry *)

\* Of an operation that yields pages and the dirty ones.
CoveredBy(image, done) == Covers(image, done.pages, done.dirty)

LEMMA LeafCovers ==
    ASSUME NEW image, IsSequence(image), NEW id, NEW entry
    PROVE  CoveredBy(image, InsertIntoLeaf(image, id, entry))
<1> DEFINE leaf    == image[id]
<1> DEFINE entries == InsertAt(leaf.entries, 1 + LowerBound(leaf.entries, entry), entry)
<1> DEFINE half    == Len(entries) \div 2
<1> DEFINE right   == Len(image) + 1
<1> DEFINE upper   == SubSeq(entries, half + 1, Len(entries))
<1> DEFINE lower   == Leaf(leaf.previous, right, SubSeq(entries, 1, half))
<1> DEFINE other   == Leaf(id, leaf.next, upper)
<1> DEFINE edited  == [image EXCEPT ![id] = lower]
<1> DEFINE halved  == Append(edited, other)
<1> DEFINE filled  == [image EXCEPT ![id].entries = entries]
<1> DEFINE done    == InsertIntoLeaf(image, id, entry)
<1>1. done = IF Fits(entries)
             THEN [pages |-> filled, dirty |-> {id}, split |-> NoSplit]
             ELSE [pages |-> RelinkNext(halved, leaf.next, right),
                   dirty |-> SplitDirty(id, right, leaf.next),
                   split |-> [separator |-> upper[1], right |-> right]]
  BY DEF InsertIntoLeaf
<1>2. Covers(image, filled, {id})
  <2> DEFINE v == [image[id] EXCEPT !.entries = entries]
  <2>1. filled = [image EXCEPT ![id] = v]
    OBVIOUS
  <2> HIDE DEF filled, v
  <2>2. IsEdit(image, id, v, filled)
    BY <2>1 DEF IsEdit
  <2>3. QED
    BY <2>2, CoversEdit
<1> HIDE DEF done, filled, entries, half, upper, leaf
<1>3. Covers(image, RelinkNext(halved, leaf.next, right), SplitDirty(id, right, leaf.next))
  <2>1. Covers(image, edited, {id}) /\ Len(edited) = Len(image)
    <3> HIDE DEF lower
    <3>1. IsEdit(image, id, lower, edited)
      BY DEF IsEdit
    <3>2. QED
      BY <3>1, CoversEdit
  <2>2. IsSequence(edited)
    BY <2>1 DEF Covers
  <2> HIDE DEF edited, lower, other
  <2>3. Covers(edited, halved, {right})
    BY <2>1, <2>2, CoversAppend
  <2>4. Covers(image, halved, {id} \union {right})
    BY <2>1, <2>3, CoversTwice
  <2>5. IsSequence(halved)
    BY <2>4 DEF Covers
  <2> HIDE DEF halved, right
  <2>6. CASE leaf.next = NoPage
    <3>1. RelinkNext(halved, leaf.next, right) = halved
      BY <2>6 DEF RelinkNext
    <3>2. {id} \union {right} \subseteq SplitDirty(id, right, leaf.next) \union {NoPage}
      BY DEF SplitDirty
    <3>3. QED
      BY <2>4, <3>1, <3>2, CoversMore
  <2>7. CASE leaf.next # NoPage
    <3> DEFINE next == leaf.next
    <3> DEFINE v == [halved[next] EXCEPT !.previous = right]
    <3> DEFINE linked == RelinkNext(halved, next, right)
    <3>1. linked = [halved EXCEPT ![next] = v]
      BY <2>7 DEF RelinkNext
    <3> HIDE DEF linked, v
    <3>2. IsEdit(halved, next, v, linked)
      BY <3>1 DEF IsEdit
    <3>3. Covers(halved, linked, {next})
      BY <2>5, <3>2, CoversEdit
    <3>4. Covers(image, linked, ({id} \union {right}) \union {next})
      BY <2>4, <3>3, CoversTwice
    <3>5. ({id} \union {right}) \union {next} \subseteq SplitDirty(id, right, next) \union {NoPage}
      BY DEF SplitDirty
    <3>6. QED
      BY <3>4, <3>5, CoversMore DEF linked
  <2>8. QED
    BY <2>6, <2>7
<1>4. QED
  BY <1>1, <1>2, <1>3 DEF CoveredBy, done

LEMMA ChildCovers ==
    ASSUME NEW image, IsSequence(image), NEW id, NEW child, NEW split
    PROVE  CoveredBy(image, AddChild(image, id, child, split))
<1> DEFINE node       == image[id]
<1> DEFINE separators == InsertAt(node.separators, child, split.separator)
<1> DEFINE children   == InsertAt(node.children, child + 1, split.right)
<1> DEFINE halves     == SplitInternal(node.level, separators, children)
<1> DEFINE right      == Len(image) + 1
<1> DEFINE whole      == Internal(node.level, separators, children)
<1> DEFINE left       == halves.left
<1> DEFINE other      == halves.right
<1> DEFINE filled     == [image EXCEPT ![id] = whole]
<1> DEFINE edited     == [image EXCEPT ![id] = left]
<1> DEFINE done       == AddChild(image, id, child, split)
<1>1. done = IF Fits(separators)
             THEN [pages |-> filled, dirty |-> {id}, split |-> NoSplit]
             ELSE [pages |-> Append(edited, other), dirty |-> {id, right},
                   split |-> [separator |-> halves.promoted, right |-> right]]
  BY DEF AddChild
<1> HIDE DEF done, halves, whole, left, other, separators, children
<1>2. Covers(image, filled, {id})
  <2>1. IsEdit(image, id, whole, filled)
    BY DEF IsEdit
  <2>2. QED
    BY <2>1, CoversEdit
<1>3. Covers(image, Append(edited, other), {id, right})
  <2>1. IsEdit(image, id, left, edited)
    BY DEF IsEdit
  <2>2. Covers(image, edited, {id}) /\ Len(edited) = Len(image)
    BY <2>1, CoversEdit
  <2> HIDE DEF edited
  <2>3. IsSequence(edited)
    BY <2>2 DEF Covers
  <2>4. Covers(edited, Append(edited, other), {right})
    BY <2>2, <2>3, CoversAppend
  <2>5. Covers(image, Append(edited, other), {id} \union {right})
    BY <2>2, <2>4, CoversTwice
  <2>6. {id} \union {right} \subseteq {id, right} \union {NoPage}
    OBVIOUS
  <2>7. QED
    BY <2>5, <2>6, CoversMore
<1>4. QED
  BY <1>1, <1>2, <1>3 DEF CoveredBy, done

LEMMA AfterChildCovers ==
    ASSUME NEW image, IsSequence(image), NEW id, NEW child, NEW below, CoveredBy(image, below)
    PROVE  CoveredBy(image, AfterChild(id, child, below))
<1> DEFINE here == AddChild(below.pages, id, child, below.split)
<1>1. CASE below.split = NoSplit
  BY <1>1 DEF AfterChild
<1>2. CASE below.split # NoSplit
  <2>1. AfterChild(id, child, below) = [here EXCEPT !.dirty = @ \union below.dirty]
    BY <1>2 DEF AfterChild
  <2>2. IsSequence(below.pages)
    BY DEF CoveredBy, Covers
  <2>3. CoveredBy(below.pages, here)
    BY <2>2, ChildCovers
  <2>4. Covers(image, here.pages, below.dirty \union here.dirty)
    BY <2>3, CoversTwice DEF CoveredBy
  <2>5. AfterChild(id, child, below).pages = here.pages
        /\ AfterChild(id, child, below).dirty = here.dirty \union below.dirty
    <3>1. here = [pages |-> here.pages, dirty |-> here.dirty, split |-> here.split]
      BY DEF AddChild
    <3> HIDE DEF here
    <3>2. QED
      BY <2>1, <3>1
  <2>6. below.dirty \union here.dirty \subseteq (here.dirty \union below.dirty) \union {NoPage}
    OBVIOUS
  <2> HIDE DEF here
  <2>7. QED
    BY <2>4, <2>5, <2>6, CoversMore DEF CoveredBy
<1>3. QED
  BY <1>1, <1>2

\* What happens at the node k calls above the end of the descent.
InsertHere(image, path, entry, k, below) ==
    LET id == path[Len(image) - k]
    IN  IF k = 0 \/ image[id].type = "leaf" THEN InsertIntoLeaf(image, id, entry)
        ELSE AfterChild(id, ChildFor(image, id, entry), below)

Insertions(g, image, path, entry, n) ==
    g = [k \in 0 .. n |-> InsertHere(image, path, entry, k, g[k - 1])]

LEMMA InsertionsExist ==
    ASSUME NEW image, NEW path, NEW entry, NEW n \in Nat
    PROVE  \E g : Insertions(g, image, path, entry, n)
<1> DEFINE P(g, m) == g = [k \in 0 .. m |-> InsertHere(image, path, entry, k, g[k - 1])]
<1> DEFINE S == {m \in Nat : \E g : P(g, m)}
<1>1. 0 \in S
  <2> DEFINE g == [k \in 0 .. 0 |-> InsertIntoLeaf(image, path[Len(image) - 0], entry)]
  <2>1. InsertHere(image, path, entry, 0, g[0 - 1]) = InsertIntoLeaf(image, path[Len(image) - 0], entry)
    BY DEF InsertHere
  <2>2. P(g, 0)
    BY <2>1
  <2>3. QED
    BY <2>2
<1>2. ASSUME NEW m \in S PROVE m + 1 \in S
  <2>1. m \in Nat
    OBVIOUS
  <2>2. PICK f : P(f, m)
    OBVIOUS
  <2> DEFINE v == InsertHere(image, path, entry, m + 1, f[m])
  <2> HIDE DEF v
  <2>2a. PICK g : Extends(g, f, m, v)
    BY <2>1, Extended
  <2>3. /\ g = [k \in 0 .. m + 1 |-> g[k]] /\ g[m + 1] = v
        /\ \A k \in 0 .. m : g[k] = f[k]
    BY <2>2a DEF Extends
  <2>4. ASSUME NEW k \in 0 .. m + 1 PROVE g[k] = InsertHere(image, path, entry, k, g[k - 1])
    <3>1. CASE k = m + 1
      <4>1. k - 1 = m /\ m \in 0 .. m
        BY <2>1, <3>1
      <4>2. g[k - 1] = f[m]
        BY <2>3, <4>1
      <4>3. QED
        BY <2>3, <3>1, <4>2 DEF v
    <3>2. CASE k # m + 1 /\ k # 0
      <4>1. k \in 0 .. m /\ k - 1 \in 0 .. m
        BY <2>1, <3>2
      <4>2. g[k] = f[k] /\ g[k - 1] = f[k - 1]
        BY <2>3, <4>1
      <4>3. f[k] = InsertHere(image, path, entry, k, f[k - 1])
        BY <2>2, <4>1
      <4>4. QED
        BY <4>2, <4>3
    <3>3. CASE k = 0
      <4>1. 0 \in 0 .. m
        BY <2>1
      <4>2. g[0] = f[0]
        BY <2>3, <4>1
      <4>3. f[0] = InsertHere(image, path, entry, 0, f[0 - 1])
        BY <2>2, <4>1
      <4>4. InsertHere(image, path, entry, 0, f[0 - 1]) = InsertHere(image, path, entry, 0, g[0 - 1])
        BY DEF InsertHere
      <4>5. QED
        BY <3>3, <4>2, <4>3, <4>4
    <3>4. QED
      BY <3>1, <3>2, <3>3
  <2>5. P(g, m + 1)
    BY <2>3, <2>4, Zenon
  <2>6. QED
    BY <2>1, <2>5
<1>3. S = Nat
  <2>1. S \in SUBSET Nat
    OBVIOUS
  <2> HIDE DEF S
  <2>2. QED
    BY <1>1, <1>2, <2>1, SetInduction
<1>4. \E g : P(g, n)
  BY <1>3
<1>5. QED
  BY <1>4 DEF Insertions

LEMMA InsertCovers ==
    ASSUME NEW image, IsSequence(image), NEW root, NEW entry
    PROVE  CoveredBy(image, InsertIndexEntry(image, root, entry))
<1> DEFINE n == Len(image)
<1> DEFINE path == Descent(image, root, entry)
<1>1. n \in Nat
  BY SequenceParts
<1> HIDE DEF path
<1> DEFINE P(g) == g = [k \in 0 .. n |-> InsertHere(image, path, entry, k, g[k - 1])]
<1> DEFINE done == CHOOSE g : P(g)
<1>2. \E g : P(g)
  <2> HIDE DEF n
  <2>1. \E g : Insertions(g, image, path, entry, n)
    BY <1>1, InsertionsExist
  <2>2. QED
    BY <2>1 DEF Insertions
<1>3. P(done)
  <2> HIDE DEF P
  <2>1. QED
    BY <1>2
<1>4. InsertIndexEntry(image, root, entry) = done[n]
  BY DEF InsertIndexEntry, InsertHere, path
<1> HIDE DEF done
<1> DEFINE S == {k \in Nat : k <= n => CoveredBy(image, done[k])}
<1>5. \A k \in 0 .. n : done[k] = InsertHere(image, path, entry, k, done[k - 1])
  BY <1>3
<1> HIDE DEF P
<1>6. 0 \in S
  <2>1. done[0] = InsertHere(image, path, entry, 0, done[0 - 1])
    BY <1>1, <1>5
  <2>2. done[0] = InsertIntoLeaf(image, path[Len(image) - 0], entry)
    BY <2>1 DEF InsertHere
  <2>3. CoveredBy(image, done[0])
    BY <2>2, LeafCovers
  <2>4. QED
    BY <2>3
<1>7. ASSUME NEW k \in S PROVE k + 1 \in S
  <2>1. k \in Nat /\ (k <= n => CoveredBy(image, done[k]))
    OBVIOUS
  <2>2. SUFFICES ASSUME k + 1 <= n PROVE CoveredBy(image, done[k + 1])
    BY <2>1
  <2>3. CoveredBy(image, done[k]) /\ k + 1 \in 0 .. n /\ k + 1 - 1 = k /\ k + 1 # 0
    BY <1>1, <2>1, <2>2
  <2>4. done[k + 1] = InsertHere(image, path, entry, k + 1, done[k])
    BY <1>5, <2>3
  <2> DEFINE id == path[Len(image) - (k + 1)]
  <2>5. \/ done[k + 1] = InsertIntoLeaf(image, id, entry)
        \/ done[k + 1] = AfterChild(id, ChildFor(image, id, entry), done[k])
    BY <2>3, <2>4 DEF InsertHere
  <2> HIDE DEF id
  <2>6. QED
    BY <2>3, <2>5, LeafCovers, AfterChildCovers
<1>8. S = Nat
  <2>1. S \in SUBSET Nat
    OBVIOUS
  <2> HIDE DEF S
  <2>2. QED
    BY <1>6, <1>7, <2>1, SetInduction
<1>9. CoveredBy(image, done[n])
  BY <1>1, <1>8
<1>10. QED
  BY <1>4, <1>9

LEMMA IndexCovers ==
    ASSUME NEW image, IsSequence(image), NEW root, NEW entry
    PROVE  CoveredBy(image, InsertIntoIndex(image, root, entry))
<1>1. CASE root = NoPage
  <2> DEFINE leaf == Leaf(NoPage, NoPage, <<entry>>)
  <2>1. InsertIntoIndex(image, root, entry) =
            [pages |-> Append(image, leaf), dirty |-> {Len(image) + 1}, root |-> Len(image) + 1]
    BY <1>1 DEF InsertIntoIndex
  <2> HIDE DEF leaf
  <2>2. Covers(image, Append(image, leaf), {Len(image) + 1})
    BY CoversAppend
  <2>3. QED
    BY <2>1, <2>2 DEF CoveredBy
<1>2. CASE root # NoPage
  <2> DEFINE done == InsertIndexEntry(image, root, entry)
  <2>1. CoveredBy(image, done)
    BY InsertCovers
  <2>2. InsertIntoIndex(image, root, entry) = GrowRoot(root, done)
    BY <1>2 DEF InsertIntoIndex
  <2> HIDE DEF done
  <2>3. CASE done.split = NoSplit
    <3>1. GrowRoot(root, done) = [pages |-> done.pages, dirty |-> done.dirty, root |-> root]
      BY <2>3 DEF GrowRoot
    <3>2. QED
      BY <2>1, <2>2, <3>1 DEF CoveredBy
  <2>4. CASE done.split # NoSplit
    <3> DEFINE above == Len(done.pages) + 1
    <3> DEFINE level == IF done.pages[root].type = "leaf" THEN 1 ELSE done.pages[root].level + 1
    <3> DEFINE node == Internal(level, <<done.split.separator>>, <<root, done.split.right>>)
    <3>1. GrowRoot(root, done) = [pages |-> Append(done.pages, node),
                                  dirty |-> done.dirty \union {above}, root |-> above]
      BY <2>4 DEF GrowRoot
    <3> HIDE DEF node
    <3>2. IsSequence(done.pages)
      BY <2>1 DEF CoveredBy, Covers
    <3>3. Covers(done.pages, Append(done.pages, node), {above})
      BY <3>2, CoversAppend
    <3>4. Covers(image, Append(done.pages, node), done.dirty \union {above})
      BY <2>1, <3>3, CoversTwice DEF CoveredBy
    <3>5. QED
      BY <2>2, <3>1, <3>4 DEF CoveredBy
  <2>5. QED
    BY <2>3, <2>4
<1>3. QED
  BY <1>1, <1>2

-----------------------------------------------------------------------------
(* The row stream *)

LEMMA ChainIsSequence ==
    ASSUME NEW first, NEW cells, Len(cells) \in Nat
    PROVE  IsSequence(AddChain(first, cells))
<1> DEFINE count == (Len(cells) + PayloadCells - 1) \div PayloadCells
<1> DEFINE chain == AddChain(first, cells)
<1>1. count \in Int
  BY PayloadAssumption
<1>2. IsOver(chain, count)
  BY DEF AddChain, IsOver
<1> HIDE DEF count, chain
<1>3. IsSequence(chain)
  BY <1>1, <1>2, SequenceOf
<1>4. QED
  BY <1>3 DEF chain

\* The room of the first 0, 1, ... n keys of a row.
Counts(g, row, n) ==
    g \in [0 .. n -> Nat] /\ g[0] = 0 /\ \A i \in 1 .. n : g[i] = g[i - 1] + KeyCells(row[i])

LEMMA CellsUnfold ==
    ASSUME NEW row, NEW n \in Nat
    PROVE  \E g : Counts(g, row, n) /\ CellsOf(row, n) = g[n]
<1> DEFINE P(g) == g = [f \in 0 .. n |-> IF f = 0 THEN 0 ELSE g[f - 1] + KeyCells(row[f])]
<1> DEFINE cells == CHOOSE g : P(g)
<1>1. n \in Nat
  OBVIOUS
<1>2. \A f : KeyCells(row[f]) \in Nat
  BY DEF KeyCells
<1>3. \E g : P(g)
  <2> DEFINE step == [f \in Nat |-> [v \in Nat |-> v + KeyCells(row[f])]]
  <2>1. step \in [Nat -> [Nat -> Nat]]
    BY <1>2
  <2>2. 0 \in Nat
    OBVIOUS
  <2> HIDE DEF step
  <2>3. PICK g \in [0 .. n -> Nat] : Recurs(g, 0, n, 0, step)
    BY <1>1, <2>1, <2>2, RecursionExists
  <2>4. g = [f \in 0 .. n |-> IF f = 0 THEN 0 ELSE step[f][g[f - 1]]]
    BY <2>3 DEF Recurs
  <2>5. ASSUME NEW f \in 0 .. n PROVE g[f] = IF f = 0 THEN 0 ELSE g[f - 1] + KeyCells(row[f])
    <3>1. CASE f = 0
      BY <2>4, <3>1
    <3>2. CASE f # 0
      <4>1. f \in Nat /\ f - 1 \in 0 .. n
        BY <1>1, <3>2
      <4>2. g[f - 1] \in Nat
        BY <2>3, <4>1
      <4>3. step[f][g[f - 1]] = g[f - 1] + KeyCells(row[f])
        BY <4>1, <4>2 DEF step
      <4>4. QED
        BY <2>4, <3>2, <4>3
    <3>3. QED
      BY <3>1, <3>2
  <2>6. g = [f \in 0 .. n |-> g[f]]
    BY <2>3
  <2>7. P(g)
    BY <2>5, <2>6, Zenon
  <2>8. QED
    BY <2>7
<1>4. P(cells)
  <2> HIDE DEF P
  <2>1. QED
    BY <1>3
<1>5. CellsOf(row, n) = cells[n]
  BY DEF CellsOf
<1> HIDE DEF cells
<1>6. \A f \in 0 .. n : cells[f] = IF f = 0 THEN 0 ELSE cells[f - 1] + KeyCells(row[f])
  BY <1>4
<1> HIDE DEF P
<1> DEFINE S == {f \in Nat : f <= n => cells[f] \in Nat}
<1>7. 0 \in S
  BY <1>1, <1>6
<1>8. ASSUME NEW f \in S PROVE f + 1 \in S
  <2>1. f \in Nat /\ (f <= n => cells[f] \in Nat)
    OBVIOUS
  <2>2. SUFFICES ASSUME f + 1 <= n PROVE cells[f + 1] \in Nat
    BY <2>1
  <2>3. cells[f] \in Nat /\ f + 1 \in 0 .. n /\ f + 1 - 1 = f /\ f + 1 # 0
    BY <1>1, <2>1, <2>2
  <2>4. cells[f + 1] = cells[f] + KeyCells(row[f + 1])
    BY <1>6, <2>3
  <2>5. KeyCells(row[f + 1]) \in Nat
    BY <1>2
  <2>6. QED
    BY <2>3, <2>4, <2>5
<1>9. S = Nat
  <2>1. S \in SUBSET Nat
    OBVIOUS
  <2> HIDE DEF S
  <2>2. QED
    BY <1>7, <1>8, <2>1, SetInduction
<1>10. \A f \in 0 .. n : cells[f] \in Nat
  BY <1>1, <1>9
<1>11. cells = [f \in 0 .. n |-> cells[f]]
  BY <1>4 DEF P
<1>12. cells \in [0 .. n -> Nat]
  BY <1>10, <1>11
<1>13. \A i \in 1 .. n : cells[i] = cells[i - 1] + KeyCells(row[i])
  BY <1>1, <1>6
<1>14. cells[0] = 0
  BY <1>1, <1>6
<1>15. Counts(cells, row, n)
  BY <1>12, <1>13, <1>14 DEF Counts
<1>16. QED
  BY <1>5, <1>15

LEMMA CellsCounted ==
    ASSUME NEW row, NEW n \in Nat
    PROVE  CellsOf(row, n) \in Nat
<1>1. PICK g : Counts(g, row, n) /\ CellsOf(row, n) = g[n]
  BY CellsUnfold
<1>2. QED
  BY <1>1 DEF Counts

LEMMA RowCellsCounted ==
    ASSUME NEW row
    PROVE  RowCells(row) \in Nat
<1>1. FieldCount \in Nat
  BY FieldsAssumption
<1>2. CellsOf(row, FieldCount) \in Nat
  BY <1>1, CellsCounted
<1>3. QED
  BY <1>2 DEF RowCells

LEMMA RowEncoded ==
    ASSUME NEW row
    PROVE  IsSequence(EncodeRow(row))
<1> DEFINE cells == EncodeRow(row)
<1>1. RowCells(row) \in Int
  BY RowCellsCounted
<1>2. IsOver(cells, RowCells(row))
  BY DEF EncodeRow, IsOver
<1> HIDE DEF cells
<1>3. IsSequence(cells)
  BY <1>1, <1>2, SequenceOf
<1>4. QED
  BY <1>3 DEF cells

LEMMA CutIsSequence ==
    ASSUME NEW s, IsSequence(s), NEW m \in Nat
    PROVE  Len(SubSeq(s, m + 1, Len(s))) \in Nat
<1> DEFINE n == Len(s)
<1> DEFINE t == SubSeq(s, m + 1, n)
<1>1. n \in Nat
  BY SequenceParts
<1> DEFINE h == n - (m + 1) + 1
<1>2. h \in Int
  BY <1>1
<1>3. t = [i \in 1 .. h |-> s[m + 1 + i - 1]]
  BY <1>1
<1> HIDE DEF n, h
<1>4. IsOver(t, h)
  BY <1>3 DEF IsOver
<1> HIDE DEF t
<1>5. IsSequence(t)
  BY <1>2, <1>4, SequenceOf
<1>6. Len(t) \in Nat
  BY <1>5, SequenceParts
<1>7. QED
  BY <1>6 DEF t, n

LEMMA CellsCover ==
    ASSUME NEW image, IsSequence(image), NEW id, NEW cells, IsSequence(cells)
    PROVE  CoveredBy(image, AppendCells(image, id, cells))
<1> DEFINE copied == Cardinality({n \in 1 .. Len(cells) : Len(image[id].cells) + n <= PayloadCells})
<1> DEFINE next == Len(image) + 1
<1> DEFINE left == SubSeq(cells, copied + 1, Len(cells))
<1> DEFINE more == AddChain(next, left)
<1> DEFINE filled == [image[id] EXCEPT !.cells = @ \o SubSeq(cells, 1, copied),
                                       !.next = IF more = <<>> THEN @ ELSE next]
<1> DEFINE edited == [image EXCEPT ![id] = filled]
<1>1. AppendCells(image, id, cells) = [pages |-> edited \o more,
                                       dirty |-> {id} \union next .. Len(image) + Len(more)]
  BY DEF AppendCells
<1>2. copied \in Nat
  <2>1. Len(cells) \in Nat
    BY SequenceParts
  <2>2. IsFiniteSet(1 .. Len(cells))
    BY <2>1, FS_Interval
  <2> DEFINE room == {n \in 1 .. Len(cells) : Len(image[id].cells) + n <= PayloadCells}
  <2>3. room \subseteq 1 .. Len(cells)
    OBVIOUS
  <2> HIDE DEF room
  <2>4. IsFiniteSet(room)
    BY <2>2, <2>3, FS_Subset
  <2>5. Cardinality(room) \in Nat
    BY <2>4, FS_CardinalityType
  <2>6. QED
    BY <2>5 DEF room
<1> HIDE DEF copied
<1>3. Len(left) \in Nat
  BY <1>2, CutIsSequence
<1> HIDE DEF left
<1>4. IsSequence(more)
  BY <1>3, ChainIsSequence
<1> HIDE DEF more, filled
<1>5. IsEdit(image, id, filled, edited)
  BY DEF IsEdit
<1>6. Covers(image, edited, {id}) /\ Len(edited) = Len(image)
  BY <1>5, CoversEdit
<1> HIDE DEF edited
<1>7. IsSequence(edited)
  BY <1>6 DEF Covers
<1>8. Covers(edited, edited \o more, Len(edited) + 1 .. Len(edited) + Len(more))
  BY <1>4, <1>7, CoversJoin
<1>9. Covers(image, edited \o more, {id} \union (Len(edited) + 1 .. Len(edited) + Len(more)))
  BY <1>6, <1>8, CoversTwice
<1>10. QED
  BY <1>1, <1>6, <1>9 DEF CoveredBy

LEMMA RowCovers ==
    ASSUME NEW image, IsSequence(image), NEW row
    PROVE  /\ CoveredBy(image, AppendRow(image, row))
           /\ image[1].rowsHead \in AppendRow(image, row).dirty
<1> DEFINE super == image[1]
<1> DEFINE head == super.rowsHead
<1> DEFINE chain == Front(Chain(image, super.rowsHead, "rows"))
<1> DEFINE v == [image[head] EXCEPT !.cells = ReplaceAt(@, 1, CountCell(super.rowCount + 1))]
<1> DEFINE counted == [image EXCEPT ![super.rowsHead].cells =
                           ReplaceAt(@, 1, CountCell(super.rowCount + 1))]
<1> DEFINE done == AppendCells(counted, Last(chain), EncodeRow(row))
<1>1. AppendRow(image, row) = [done EXCEPT !.dirty = @ \union {super.rowsHead}]
  BY DEF AppendRow
<1>2. IsEdit(image, head, v, counted)
  BY DEF IsEdit
<1> HIDE DEF counted, v
<1>3. Covers(image, counted, {head})
  BY <1>2, CoversEdit
<1>4. IsSequence(counted)
  BY <1>3 DEF Covers
<1> DEFINE id == Last(chain)
<1> HIDE DEF id
<1>5. CoveredBy(counted, AppendCells(counted, id, EncodeRow(row)))
  BY <1>4, RowEncoded, CellsCover
<1>6. CoveredBy(counted, done)
  BY <1>5 DEF id
<1>7. done = [pages |-> done.pages, dirty |-> done.dirty]
  BY DEF AppendCells
<1> HIDE DEF done, head
<1>8. Covers(image, done.pages, {head} \union done.dirty)
  BY <1>3, <1>6, CoversTwice DEF CoveredBy
<1>9. AppendRow(image, row) = [pages |-> done.pages, dirty |-> done.dirty \union {head}]
  BY <1>1, <1>7 DEF head
<1>10. {head} \union done.dirty = done.dirty \union {head}
  OBVIOUS
<1>11. QED
  BY <1>8, <1>9, <1>10 DEF CoveredBy, head

-----------------------------------------------------------------------------
(* build_incremental_insert *)

LEMMA FieldCovers ==
    ASSUME NEW image, IsSequence(image), NEW built, NEW field, NEW entry, CoveredBy(image, built)
    PROVE  /\ CoveredBy(image, AddField(built, field, entry))
           /\ built.dirty \subseteq AddField(built, field, entry).dirty
<1> DEFINE done == InsertIntoIndex(built.pages, built.roots[field], entry)
<1>1. AddField(built, field, entry) =
          [pages |-> done.pages, dirty |-> built.dirty \union done.dirty,
           roots |-> [built.roots EXCEPT ![field] = done.root]]
  BY DEF AddField
<1>2. IsSequence(built.pages)
  BY DEF CoveredBy, Covers
<1>3. CoveredBy(built.pages, done)
  BY <1>2, IndexCovers
<1> HIDE DEF done
<1>4. Covers(image, done.pages, built.dirty \union done.dirty)
  BY <1>3, CoversTwice DEF CoveredBy
<1>5. QED
  BY <1>1, <1>4 DEF CoveredBy

\* The image and the dirty pages once the first f fields are indexed.
Fielded(image, row, f, before) ==
    IF f = 0 THEN [pages |-> AppendRow(image, row).pages, dirty |-> AppendRow(image, row).dirty,
                   roots |-> image[image[1].directory].roots]
    ELSE AddField(before, f, Entry(row[f], image[1].rowCount + 1))

FieldedAll(g, image, row, n) == g = [f \in 0 .. n |-> Fielded(image, row, f, g[f - 1])]

LEMMA FieldedExist ==
    ASSUME NEW image, NEW row, NEW n \in Nat
    PROVE  \E g : FieldedAll(g, image, row, n)
<1> DEFINE P(g, m) == g = [k \in 0 .. m |-> Fielded(image, row, k, g[k - 1])]
<1> DEFINE S == {m \in Nat : \E g : P(g, m)}
<1>1. 0 \in S
  <2> DEFINE g == [k \in 0 .. 0 |-> Fielded(image, row, 0, 0)]
  <2>1. Fielded(image, row, 0, g[0 - 1]) = Fielded(image, row, 0, 0)
    BY DEF Fielded
  <2>2. P(g, 0)
    BY <2>1
  <2>3. QED
    BY <2>2
<1>2. ASSUME NEW m \in S PROVE m + 1 \in S
  <2>1. m \in Nat
    OBVIOUS
  <2>2. PICK f : P(f, m)
    OBVIOUS
  <2> DEFINE v == Fielded(image, row, m + 1, f[m])
  <2> HIDE DEF v
  <2>3. PICK g : Extends(g, f, m, v)
    BY <2>1, Extended
  <2>4. /\ g = [k \in 0 .. m + 1 |-> g[k]] /\ g[m + 1] = v
        /\ \A k \in 0 .. m : g[k] = f[k]
    BY <2>3 DEF Extends
  <2>5. ASSUME NEW k \in 0 .. m + 1 PROVE g[k] = Fielded(image, row, k, g[k - 1])
    <3>1. CASE k = m + 1
      <4>1. k - 1 = m /\ m \in 0 .. m
        BY <2>1, <3>1
      <4>2. g[k - 1] = f[m]
        BY <2>4, <4>1
      <4>3. QED
        BY <2>4, <3>1, <4>2 DEF v
    <3>2. CASE k # m + 1 /\ k # 0
      <4>1. k \in 0 .. m /\ k - 1 \in 0 .. m
        BY <2>1, <3>2
      <4>2. g[k] = f[k] /\ g[k - 1] = f[k - 1]
        BY <2>4, <4>1
      <4>3. f[k] = Fielded(image, row, k, f[k - 1])
        BY <2>2, <4>1
      <4>4. QED
        BY <4>2, <4>3
    <3>3. CASE k = 0
      <4>1. 0 \in 0 .. m
        BY <2>1
      <4>2. g[0] = f[0]
        BY <2>4, <4>1
      <4>3. f[0] = Fielded(image, row, 0, f[0 - 1])
        BY <2>2, <4>1
      <4>4. Fielded(image, row, 0, f[0 - 1]) = Fielded(image, row, 0, g[0 - 1])
        BY DEF Fielded
      <4>5. QED
        BY <3>3, <4>2, <4>3, <4>4
    <3>4. QED
      BY <3>1, <3>2, <3>3
  <2>6. P(g, m + 1)
    BY <2>4, <2>5, Zenon
  <2>7. QED
    BY <2>1, <2>6
<1>3. S = Nat
  <2>1. S \in SUBSET Nat
    OBVIOUS
  <2> HIDE DEF S
  <2>2. QED
    BY <1>1, <1>2, <2>1, SetInduction
<1>4. \E g : P(g, n)
  BY <1>3
<1>5. QED
  BY <1>4 DEF FieldedAll

\* An insert's image covers the one before, and page 1 of it and the head of the
\* rows are dirty.
LEMMA InsertedCovers ==
    ASSUME NEW image, IsSequence(image), 1 <= Len(image), NEW row
    PROVE  LET next == BuildIncrementalInsert(image, row)
           IN  /\ CoveredBy(image, next)
               /\ 1 \in next.dirty /\ image[1].rowsHead \in next.dirty
               /\ next.pages[1].rowsHead = 3
<1> DEFINE super == image[1]
<1> DEFINE n == FieldCount
<1> DEFINE appended == AppendRow(image, row)
<1> DEFINE P(g) == g = [f \in 0 .. n |->
                          IF f = 0 THEN [pages |-> appended.pages, dirty |-> appended.dirty,
                                         roots |-> image[super.directory].roots]
                          ELSE AddField(g[f - 1], f, Entry(row[f], super.rowCount + 1))]
<1> DEFINE built == CHOOSE g : P(g)
<1>1. n \in Nat
  BY FieldsAssumption
<1>2. \A g : P(g) <=> FieldedAll(g, image, row, n)
  BY DEF FieldedAll, Fielded
<1>3. P(built)
  <2>1. \E g : FieldedAll(g, image, row, n)
    BY <1>1, FieldedExist
  <2>2. \E g : P(g)
    <3> HIDE DEF P
    <3>1. QED
      BY <1>2, <2>1
  <2> HIDE DEF P
  <2>3. QED
    BY <2>2
<1> DEFINE done == built[n]
<1> DEFINE rooted == [done.pages EXCEPT ![super.directory].roots = done.roots]
<1> DEFINE above == Superblock(super.generation + 1, Len(done.pages), super.directory,
                               super.rowCount + 1)
<1> DEFINE pages_ == [done.pages EXCEPT ![super.directory].roots = done.roots, ![1] = above]
<1>4. BuildIncrementalInsert(image, row) =
          [pages |-> pages_, dirty |-> done.dirty \union {super.directory, 1}]
  BY DEF BuildIncrementalInsert
<1>5. pages_ = [rooted EXCEPT ![1] = above]
  OBVIOUS
<1> HIDE DEF built
<1>6. \A f \in 0 .. n : built[f] = Fielded(image, row, f, built[f - 1])
  <2>1. FieldedAll(built, image, row, n)
    <3> HIDE DEF P
    <3>1. QED
      BY <1>2, <1>3
  <2>2. QED
    BY <2>1 DEF FieldedAll
<1> HIDE DEF P, n
<1> DEFINE S == {f \in Nat : f <= n =>
                   CoveredBy(image, built[f]) /\ super.rowsHead \in built[f].dirty}
<1>7. 0 \in S
  <2>1. built[0] = Fielded(image, row, 0, built[0 - 1])
    BY <1>1, <1>6
  <2>2. built[0].pages = appended.pages /\ built[0].dirty = appended.dirty
    BY <2>1 DEF Fielded
  <2>3. CoveredBy(image, appended) /\ super.rowsHead \in appended.dirty
    BY RowCovers
  <2>4. CoveredBy(image, built[0]) /\ super.rowsHead \in built[0].dirty
    BY <2>2, <2>3 DEF CoveredBy
  <2>5. QED
    BY <2>4
<1>8. ASSUME NEW f \in S PROVE f + 1 \in S
  <2>1. f \in Nat /\ (f <= n => CoveredBy(image, built[f]) /\ super.rowsHead \in built[f].dirty)
    OBVIOUS
  <2>2. SUFFICES ASSUME f + 1 <= n
                 PROVE  CoveredBy(image, built[f + 1]) /\ super.rowsHead \in built[f + 1].dirty
    BY <2>1
  <2>3. /\ CoveredBy(image, built[f]) /\ super.rowsHead \in built[f].dirty
        /\ f + 1 \in 0 .. n /\ f + 1 - 1 = f /\ f + 1 # 0
    BY <1>1, <2>1, <2>2
  <2> DEFINE entry == Entry(row[f + 1], super.rowCount + 1)
  <2>4. built[f + 1] = AddField(built[f], f + 1, entry)
    BY <1>6, <2>3 DEF Fielded
  <2> HIDE DEF entry
  <2>5. /\ CoveredBy(image, AddField(built[f], f + 1, entry))
        /\ built[f].dirty \subseteq AddField(built[f], f + 1, entry).dirty
    BY <2>3, FieldCovers
  <2>6. QED
    BY <2>3, <2>4, <2>5
<1>9. S = Nat
  <2>1. S \in SUBSET Nat
    OBVIOUS
  <2> HIDE DEF S
  <2>2. QED
    BY <1>7, <1>8, <2>1, SetInduction
<1>10. CoveredBy(image, done) /\ super.rowsHead \in done.dirty
  BY <1>1, <1>9
<1> DEFINE d == super.directory
<1> HIDE DEF S, appended, done
<1>11. Covers(done.pages, rooted, {d})
  <2> DEFINE v == [done.pages[d] EXCEPT !.roots = done.roots]
  <2>1. rooted = [done.pages EXCEPT ![d] = v]
    OBVIOUS
  <2> HIDE DEF rooted, v
  <2>2. IsEdit(done.pages, d, v, rooted)
    BY <2>1 DEF IsEdit
  <2>3. IsSequence(done.pages)
    BY <1>10 DEF CoveredBy, Covers
  <2>4. QED
    BY <2>2, <2>3, CoversEdit
<1> HIDE DEF rooted, above
<1>12. Covers(rooted, pages_, {1})
  <2>1. IsEdit(rooted, 1, above, pages_)
    BY <1>5 DEF IsEdit
  <2>2. IsSequence(rooted)
    BY <1>11 DEF Covers
  <2> HIDE DEF pages_
  <2>3. QED
    BY <2>1, <2>2, CoversEdit
<1>13. pages_[1] = above
  <2>1. IsEdit(rooted, 1, above, pages_)
    BY <1>5 DEF IsEdit
  <2>2. IsSequence(rooted) /\ Len(done.pages) <= Len(rooted) /\ Len(image) <= Len(done.pages)
    BY <1>10, <1>11 DEF Covers, CoveredBy
  <2>3. IsSequence(done.pages)
    BY <1>10 DEF CoveredBy, Covers
  <2>4. Len(rooted) \in Nat /\ Len(done.pages) \in Nat /\ Len(image) \in Nat
    BY <2>2, <2>3, SequenceParts
  <2>5. 1 \in 1 .. Len(rooted)
    BY <2>2, <2>4
  <2> HIDE DEF pages_
  <2>6. QED
    BY <2>1, <2>2, <2>5, Edited
<1> HIDE DEF pages_
<1>14. Covers(image, rooted, done.dirty \union {d})
  BY <1>10, <1>11, CoversTwice DEF CoveredBy
<1>15. Covers(image, pages_, (done.dirty \union {d}) \union {1})
  BY <1>12, <1>14, CoversTwice
<1>16. (done.dirty \union {d}) \union {1} = done.dirty \union {super.directory, 1}
  OBVIOUS
<1>17. above.rowsHead = 3
  BY DEF above, Superblock
<1> DEFINE next == BuildIncrementalInsert(image, row)
<1>18. next.pages = pages_ /\ next.dirty = done.dirty \union {super.directory, 1}
  BY <1>4
<1> HIDE DEF next
<1>19. Covers(image, next.pages, next.dirty)
  BY <1>15, <1>16, <1>18
<1>20. 1 \in next.dirty /\ image[1].rowsHead \in next.dirty
  BY <1>10, <1>18
<1>21. next.pages[1].rowsHead = 3
  BY <1>13, <1>17, <1>18
<1>22. QED
  BY <1>19, <1>20, <1>21 DEF CoveredBy, next

-----------------------------------------------------------------------------
(* build_image *)

LEMMA FlattensExist ==
    ASSUME NEW seqs, NEW n \in Nat
    PROVE  \E g : g = [i \in 1 .. n |-> IF i = 1 THEN seqs[i] ELSE g[i - 1] \o seqs[i]]
<1> DEFINE P(g, m) == g = [i \in 1 .. m |-> IF i = 1 THEN seqs[i] ELSE g[i - 1] \o seqs[i]]
<1> DEFINE S == {m \in Nat : \E g : P(g, m)}
<1>1. 0 \in S
  <2> DEFINE g == [i \in 1 .. 0 |-> 0]
  <2>1. P(g, 0)
    OBVIOUS
  <2>2. QED
    BY <2>1
<1>2. ASSUME NEW m \in S PROVE m + 1 \in S
  <2>1. m \in Nat
    OBVIOUS
  <2>2. PICK f : P(f, m)
    OBVIOUS
  <2> DEFINE v == IF m = 0 THEN seqs[1] ELSE f[m] \o seqs[m + 1]
  <2> HIDE DEF v
  <2> DEFINE g == [i \in 1 .. m + 1 |-> IF i = m + 1 THEN v ELSE f[i]]
  <2>3. g[m + 1] = v /\ \A i \in 1 .. m : g[i] = f[i]
    BY <2>1
  <2>4. g = [i \in 1 .. m + 1 |-> g[i]]
    OBVIOUS
  <2> HIDE DEF g
  <2>5. ASSUME NEW i \in 1 .. m + 1 PROVE g[i] = IF i = 1 THEN seqs[i] ELSE g[i - 1] \o seqs[i]
    <3>1. CASE i = m + 1 /\ m = 0
      BY <2>3, <3>1 DEF v
    <3>2. CASE i = m + 1 /\ m # 0
      <4>1. i # 1 /\ i - 1 = m /\ m \in 1 .. m
        BY <2>1, <3>2
      <4>2. g[i - 1] = f[m]
        BY <2>3, <4>1
      <4>3. g[i] = f[m] \o seqs[m + 1]
        BY <2>3, <3>2 DEF v
      <4>4. QED
        BY <3>2, <4>1, <4>2, <4>3
    <3>3. CASE i # m + 1 /\ i = 1
      <4>1. i \in 1 .. m
        BY <2>1, <3>3
      <4>2. g[i] = f[i] /\ f[i] = IF i = 1 THEN seqs[i] ELSE f[i - 1] \o seqs[i]
        BY <2>2, <2>3, <4>1
      <4>3. QED
        BY <3>3, <4>2
    <3>4. CASE i # m + 1 /\ i # 1
      <4>1. i \in 1 .. m /\ i - 1 \in 1 .. m
        BY <2>1, <3>4
      <4>2. g[i] = f[i] /\ g[i - 1] = f[i - 1]
        BY <2>3, <4>1
      <4>3. f[i] = f[i - 1] \o seqs[i]
        BY <2>2, <3>4, <4>1
      <4>4. QED
        BY <3>4, <4>2, <4>3
    <3>5. QED
      BY <3>1, <3>2, <3>3, <3>4
  <2>6. P(g, m + 1)
    BY <2>4, <2>5, Zenon
  <2>7. \E h : P(h, m + 1)
    BY <2>6
  <2> HIDE DEF P
  <2>8. QED
    BY <2>1, <2>7
<1>3. S = Nat
  <2>1. S \in SUBSET Nat
    OBVIOUS
  <2> HIDE DEF S
  <2>2. QED
    BY <1>1, <1>2, <2>1, SetInduction
<1>4. QED
  BY <1>3

LEMMA Flattened ==
    ASSUME NEW seqs, IsSequence(seqs), \A i \in 1 .. Len(seqs) : IsSequence(seqs[i])
    PROVE  IsSequence(FlattenSeq(seqs))
<1> DEFINE n == Len(seqs)
<1>1. n \in Nat
  BY SequenceParts
<1>2. CASE n = 0
  BY <1>2 DEF FlattenSeq
<1>3. CASE n # 0
  <2> DEFINE P(g) == g = [i \in 1 .. n |-> IF i = 1 THEN seqs[i] ELSE g[i - 1] \o seqs[i]]
  <2> DEFINE f == CHOOSE g : P(g)
  <2>1. P(f)
    <3>1. \E g : P(g)
      BY <1>1, FlattensExist
    <3> HIDE DEF P
    <3>2. QED
      BY <3>1
  <2>2. FlattenSeq(seqs) = f[n]
    BY <1>3 DEF FlattenSeq
  <2> HIDE DEF f
  <2>3. \A i \in 1 .. n : f[i] = IF i = 1 THEN seqs[i] ELSE f[i - 1] \o seqs[i]
    BY <2>1
  <2> HIDE DEF P
  <2> DEFINE S == {k \in Nat : k + 1 <= n => IsSequence(f[k + 1])}
  <2>4. 0 \in S
    <3>1. 1 \in 1 .. n /\ 0 + 1 = 1
      BY <1>1, <1>3
    <3>2. f[1] = seqs[1] /\ IsSequence(seqs[1])
      BY <2>3, <3>1
    <3>3. QED
      BY <3>1, <3>2
  <2>5. ASSUME NEW k \in S PROVE k + 1 \in S
    <3>1. k \in Nat /\ (k + 1 <= n => IsSequence(f[k + 1]))
      OBVIOUS
    <3>2. SUFFICES ASSUME k + 1 + 1 <= n PROVE IsSequence(f[k + 1 + 1])
      BY <3>1
    <3> DEFINE j == k + 1
    <3>3. IsSequence(f[j]) /\ j \in Nat /\ j + 1 \in 1 .. n /\ j # 0
      BY <1>1, <3>1, <3>2
    <3> HIDE DEF n, j
    <3>4. f[j + 1] = f[j] \o seqs[j + 1]
      <4> DEFINE i == j + 1
      <4>1. i \in 1 .. n /\ i # 1 /\ i - 1 = j
        BY <1>1, <3>3
      <4> HIDE DEF i, j
      <4>2. f[i] = IF i = 1 THEN seqs[i] ELSE f[i - 1] \o seqs[i]
        BY <2>3, <4>1, Zenon
      <4>3. f[i] = f[j] \o seqs[i]
        BY <4>1, <4>2, Zenon
      <4>4. QED
        BY <4>3 DEF i
    <3> DEFINE last == seqs[j + 1]
    <3>7. IsSequence(last)
      BY <3>3 DEF n
    <3> HIDE DEF last
    <3>5. IsSequence(f[j + 1])
      <4>1. IsSequence(f[j] \o last)
        BY <3>3, <3>7, Joined
      <4>2. QED
        BY <3>4, <4>1 DEF last
    <3>6. QED
      BY <3>5 DEF j
  <2>6. S = Nat
    <3>1. S \in SUBSET Nat
      OBVIOUS
    <3> HIDE DEF S
    <3>2. QED
      BY <2>4, <2>5, <3>1, SetInduction
  <2>7. n - 1 \in Nat /\ n - 1 + 1 = n /\ n <= n
    BY <1>1, <1>3
  <2>8. n - 1 \in S
    BY <2>6, <2>7
  <2>9. IsSequence(f[n])
    BY <2>7, <2>8
  <2>10. QED
    BY <2>2, <2>9
<1>4. QED
  BY <1>2, <1>3

\* The leaves packed, and the entries left, after k leaves.
Packed(entries, k, before) ==
    IF k = 0 THEN [leaves |-> <<>>, left |-> entries] ELSE PackLeaf(before)
PackedAll(g, entries, n) == g = [k \in 0 .. n |-> Packed(entries, k, g[k - 1])]

LEMMA PackedExist ==
    ASSUME NEW entries, NEW n \in Nat
    PROVE  \E g : PackedAll(g, entries, n)
<1> DEFINE P(g, m) == g = [k \in 0 .. m |-> Packed(entries, k, g[k - 1])]
<1> DEFINE S == {m \in Nat : \E g : P(g, m)}
<1>1. 0 \in S
  <2> DEFINE g == [k \in 0 .. 0 |-> Packed(entries, 0, 0)]
  <2>1. Packed(entries, 0, g[0 - 1]) = Packed(entries, 0, 0)
    BY DEF Packed
  <2>2. P(g, 0)
    BY <2>1
  <2>3. QED
    BY <2>2
<1>2. ASSUME NEW m \in S PROVE m + 1 \in S
  <2>1. m \in Nat
    OBVIOUS
  <2>2. PICK f : P(f, m)
    OBVIOUS
  <2> DEFINE v == Packed(entries, m + 1, f[m])
  <2> HIDE DEF v
  <2>3. PICK g : Extends(g, f, m, v)
    BY <2>1, Extended
  <2>4. /\ g = [k \in 0 .. m + 1 |-> g[k]] /\ g[m + 1] = v
        /\ \A k \in 0 .. m : g[k] = f[k]
    BY <2>3 DEF Extends
  <2>5. ASSUME NEW k \in 0 .. m + 1 PROVE g[k] = Packed(entries, k, g[k - 1])
    <3>1. CASE k = m + 1
      <4>1. k - 1 = m /\ m \in 0 .. m
        BY <2>1, <3>1
      <4>2. g[k - 1] = f[m]
        BY <2>4, <4>1
      <4>3. QED
        BY <2>4, <3>1, <4>2 DEF v
    <3>2. CASE k # m + 1 /\ k # 0
      <4>1. k \in 0 .. m /\ k - 1 \in 0 .. m
        BY <2>1, <3>2
      <4>2. g[k] = f[k] /\ g[k - 1] = f[k - 1]
        BY <2>4, <4>1
      <4>3. f[k] = Packed(entries, k, f[k - 1])
        BY <2>2, <4>1
      <4>4. QED
        BY <4>2, <4>3
    <3>3. CASE k = 0
      <4>1. 0 \in 0 .. m
        BY <2>1
      <4>2. g[0] = f[0]
        BY <2>4, <4>1
      <4>3. f[0] = Packed(entries, 0, f[0 - 1])
        BY <2>2, <4>1
      <4>4. Packed(entries, 0, f[0 - 1]) = Packed(entries, 0, g[0 - 1])
        BY DEF Packed
      <4>5. QED
        BY <3>3, <4>2, <4>3, <4>4
    <3>4. QED
      BY <3>1, <3>2, <3>3
  <2>6. P(g, m + 1)
    BY <2>4, <2>5, Zenon
  <2>7. QED
    BY <2>1, <2>6
<1>3. S = Nat
  <2>1. S \in SUBSET Nat
    OBVIOUS
  <2> HIDE DEF S
  <2>2. QED
    BY <1>1, <1>2, <2>1, SetInduction
<1>4. \E g : P(g, n)
  BY <1>3
<1>5. QED
  BY <1>4 DEF PackedAll

\* The parents built, and the nodes left, after k parents.
Raised(level, ids, minima, k, before) ==
    IF k = 0 THEN [nodes |-> <<>>, minima |-> <<>>, ids |-> ids, left |-> minima]
    ELSE PackParent(before, level)
RaisedAll(g, level, ids, minima, n) ==
    g = [k \in 0 .. n |-> Raised(level, ids, minima, k, g[k - 1])]

LEMMA RaisedExist ==
    ASSUME NEW level, NEW ids, NEW minima, NEW n \in Nat
    PROVE  \E g : RaisedAll(g, level, ids, minima, n)
<1> DEFINE P(g, m) == g = [k \in 0 .. m |-> Raised(level, ids, minima, k, g[k - 1])]
<1> DEFINE S == {m \in Nat : \E g : P(g, m)}
<1>1. 0 \in S
  <2> DEFINE g == [k \in 0 .. 0 |-> Raised(level, ids, minima, 0, 0)]
  <2>1. Raised(level, ids, minima, 0, g[0 - 1]) = Raised(level, ids, minima, 0, 0)
    BY DEF Raised
  <2>2. P(g, 0)
    BY <2>1
  <2>3. QED
    BY <2>2
<1>2. ASSUME NEW m \in S PROVE m + 1 \in S
  <2>1. m \in Nat
    OBVIOUS
  <2>2. PICK f : P(f, m)
    OBVIOUS
  <2> DEFINE v == Raised(level, ids, minima, m + 1, f[m])
  <2> HIDE DEF v
  <2>3. PICK g : Extends(g, f, m, v)
    BY <2>1, Extended
  <2>4. /\ g = [k \in 0 .. m + 1 |-> g[k]] /\ g[m + 1] = v
        /\ \A k \in 0 .. m : g[k] = f[k]
    BY <2>3 DEF Extends
  <2>5. ASSUME NEW k \in 0 .. m + 1 PROVE g[k] = Raised(level, ids, minima, k, g[k - 1])
    <3>1. CASE k = m + 1
      <4>1. k - 1 = m /\ m \in 0 .. m
        BY <2>1, <3>1
      <4>2. g[k - 1] = f[m]
        BY <2>4, <4>1
      <4>3. QED
        BY <2>4, <3>1, <4>2 DEF v
    <3>2. CASE k # m + 1 /\ k # 0
      <4>1. k \in 0 .. m /\ k - 1 \in 0 .. m
        BY <2>1, <3>2
      <4>2. g[k] = f[k] /\ g[k - 1] = f[k - 1]
        BY <2>4, <4>1
      <4>3. f[k] = Raised(level, ids, minima, k, f[k - 1])
        BY <2>2, <4>1
      <4>4. QED
        BY <4>2, <4>3
    <3>3. CASE k = 0
      <4>1. 0 \in 0 .. m
        BY <2>1
      <4>2. g[0] = f[0]
        BY <2>4, <4>1
      <4>3. f[0] = Raised(level, ids, minima, 0, f[0 - 1])
        BY <2>2, <4>1
      <4>4. Raised(level, ids, minima, 0, f[0 - 1]) = Raised(level, ids, minima, 0, g[0 - 1])
        BY DEF Raised
      <4>5. QED
        BY <3>3, <4>2, <4>3, <4>4
    <3>4. QED
      BY <3>1, <3>2, <3>3
  <2>6. P(g, m + 1)
    BY <2>4, <2>5, Zenon
  <2>7. QED
    BY <2>1, <2>6
<1>3. S = Nat
  <2>1. S \in SUBSET Nat
    OBVIOUS
  <2> HIDE DEF S
  <2>2. QED
    BY <1>1, <1>2, <2>1, SetInduction
<1>4. \E g : P(g, n)
  BY <1>3
<1>5. QED
  BY <1>4 DEF RaisedAll

\* The pages of an index after k levels above the leaves.
Level(image, packed, k, before) ==
    IF k = 0 THEN WithLeaves(image, packed) ELSE RaiseLevel(before)
LevelAll(g, image, packed, n) == g = [k \in 0 .. n |-> Level(image, packed, k, g[k - 1])]

LEMMA LevelsExist ==
    ASSUME NEW image, NEW packed, NEW n \in Nat
    PROVE  \E g : LevelAll(g, image, packed, n)
<1> DEFINE P(g, m) == g = [k \in 0 .. m |-> Level(image, packed, k, g[k - 1])]
<1> DEFINE S == {m \in Nat : \E g : P(g, m)}
<1>1. 0 \in S
  <2> DEFINE g == [k \in 0 .. 0 |-> Level(image, packed, 0, 0)]
  <2>1. Level(image, packed, 0, g[0 - 1]) = Level(image, packed, 0, 0)
    BY DEF Level
  <2>2. P(g, 0)
    BY <2>1
  <2>3. QED
    BY <2>2
<1>2. ASSUME NEW m \in S PROVE m + 1 \in S
  <2>1. m \in Nat
    OBVIOUS
  <2>2. PICK f : P(f, m)
    OBVIOUS
  <2> DEFINE v == Level(image, packed, m + 1, f[m])
  <2> HIDE DEF v
  <2>3. PICK g : Extends(g, f, m, v)
    BY <2>1, Extended
  <2>4. /\ g = [k \in 0 .. m + 1 |-> g[k]] /\ g[m + 1] = v
        /\ \A k \in 0 .. m : g[k] = f[k]
    BY <2>3 DEF Extends
  <2>5. ASSUME NEW k \in 0 .. m + 1 PROVE g[k] = Level(image, packed, k, g[k - 1])
    <3>1. CASE k = m + 1
      <4>1. k - 1 = m /\ m \in 0 .. m
        BY <2>1, <3>1
      <4>2. g[k - 1] = f[m]
        BY <2>4, <4>1
      <4>3. QED
        BY <2>4, <3>1, <4>2 DEF v
    <3>2. CASE k # m + 1 /\ k # 0
      <4>1. k \in 0 .. m /\ k - 1 \in 0 .. m
        BY <2>1, <3>2
      <4>2. g[k] = f[k] /\ g[k - 1] = f[k - 1]
        BY <2>4, <4>1
      <4>3. f[k] = Level(image, packed, k, f[k - 1])
        BY <2>2, <4>1
      <4>4. QED
        BY <4>2, <4>3
    <3>3. CASE k = 0
      <4>1. 0 \in 0 .. m
        BY <2>1
      <4>2. g[0] = f[0]
        BY <2>4, <4>1
      <4>3. f[0] = Level(image, packed, 0, f[0 - 1])
        BY <2>2, <4>1
      <4>4. Level(image, packed, 0, f[0 - 1]) = Level(image, packed, 0, g[0 - 1])
        BY DEF Level
      <4>5. QED
        BY <3>3, <4>2, <4>3, <4>4
    <3>4. QED
      BY <3>1, <3>2, <3>3
  <2>6. P(g, m + 1)
    BY <2>4, <2>5, Zenon
  <2>7. QED
    BY <2>1, <2>6
<1>3. S = Nat
  <2>1. S \in SUBSET Nat
    OBVIOUS
  <2> HIDE DEF S
  <2>2. QED
    BY <1>1, <1>2, <2>1, SetInduction
<1>4. \E g : P(g, n)
  BY <1>3
<1>5. QED
  BY <1>4 DEF LevelAll

LEMMA EntriesAreSequence ==
    ASSUME NEW table, IsSequence(table), NEW field
    PROVE  IsSequence(EntriesOf(table, field))
<1> DEFINE n == Len(table)
<1> DEFINE entries == EntriesOf(table, field)
<1>1. n \in Nat
  BY SequenceParts
<1> DEFINE all == {Entry(table[r][field], r) : r \in DOMAIN table}
<1> DEFINE At(i) == CHOOSE e \in all : Cardinality({d \in all : Precedes(d, e)}) = i - 1
<1>2. n \in Int /\ IsOver(entries, n)
  <2>1. entries = [i \in 1 .. n |-> At(i)]
    BY DEF EntriesOf
  <2> HIDE DEF entries, At, n
  <2>2. QED
    BY <1>1, <2>1 DEF IsOver
<1> HIDE DEF entries, n
<1>3. IsSequence(entries)
  BY <1>2, SequenceOf
<1>4. QED
  BY <1>3 DEF entries

\* The image once the first f fields are indexed.
Indexed(start, table, f, before) ==
    IF f = 0 THEN [pages |-> start, roots |-> <<>>]
    ELSE AddRoot(before.roots, BuildIndex(before.pages, EntriesOf(table, f)))
IndexedAll(g, start, table, n) == g = [f \in 0 .. n |-> Indexed(start, table, f, g[f - 1])]

LEMMA IndexedExist ==
    ASSUME NEW start, NEW table, NEW n \in Nat
    PROVE  \E g : IndexedAll(g, start, table, n)
<1> DEFINE P(g, m) == g = [k \in 0 .. m |-> Indexed(start, table, k, g[k - 1])]
<1> DEFINE S == {m \in Nat : \E g : P(g, m)}
<1>1. 0 \in S
  <2> DEFINE g == [k \in 0 .. 0 |-> Indexed(start, table, 0, 0)]
  <2>1. Indexed(start, table, 0, g[0 - 1]) = Indexed(start, table, 0, 0)
    BY DEF Indexed
  <2>2. P(g, 0)
    BY <2>1
  <2>3. QED
    BY <2>2
<1>2. ASSUME NEW m \in S PROVE m + 1 \in S
  <2>1. m \in Nat
    OBVIOUS
  <2>2. PICK f : P(f, m)
    OBVIOUS
  <2> DEFINE v == Indexed(start, table, m + 1, f[m])
  <2> HIDE DEF v
  <2>3. PICK g : Extends(g, f, m, v)
    BY <2>1, Extended
  <2>4. /\ g = [k \in 0 .. m + 1 |-> g[k]] /\ g[m + 1] = v
        /\ \A k \in 0 .. m : g[k] = f[k]
    BY <2>3 DEF Extends
  <2>5. ASSUME NEW k \in 0 .. m + 1 PROVE g[k] = Indexed(start, table, k, g[k - 1])
    <3>1. CASE k = m + 1
      <4>1. k - 1 = m /\ m \in 0 .. m
        BY <2>1, <3>1
      <4>2. g[k - 1] = f[m]
        BY <2>4, <4>1
      <4>3. QED
        BY <2>4, <3>1, <4>2 DEF v
    <3>2. CASE k # m + 1 /\ k # 0
      <4>1. k \in 0 .. m /\ k - 1 \in 0 .. m
        BY <2>1, <3>2
      <4>2. g[k] = f[k] /\ g[k - 1] = f[k - 1]
        BY <2>4, <4>1
      <4>3. f[k] = Indexed(start, table, k, f[k - 1])
        BY <2>2, <4>1
      <4>4. QED
        BY <4>2, <4>3
    <3>3. CASE k = 0
      <4>1. 0 \in 0 .. m
        BY <2>1
      <4>2. g[0] = f[0]
        BY <2>4, <4>1
      <4>3. f[0] = Indexed(start, table, 0, f[0 - 1])
        BY <2>2, <4>1
      <4>4. Indexed(start, table, 0, f[0 - 1]) = Indexed(start, table, 0, g[0 - 1])
        BY DEF Indexed
      <4>5. QED
        BY <3>3, <4>2, <4>3, <4>4
    <3>4. QED
      BY <3>1, <3>2, <3>3
  <2>6. P(g, m + 1)
    BY <2>4, <2>5, Zenon
  <2>7. QED
    BY <2>1, <2>6
<1>3. S = Nat
  <2>1. S \in SUBSET Nat
    OBVIOUS
  <2> HIDE DEF S
  <2>2. QED
    BY <1>1, <1>2, <2>1, SetInduction
<1>4. \E g : P(g, n)
  BY <1>3
<1>5. QED
  BY <1>4 DEF IndexedAll

-----------------------------------------------------------------------------
(* Trees apart from the other pages *)

\* The level of a node, leaves being 0; -1 for what is not a node.
NodeLevel(page) ==
    IF page.type = "leaf" THEN 0 ELSE IF page.type = "internal" THEN page.level ELSE -1
LevelOf(image, id) == IF id \in 1 .. Len(image) THEN NodeLevel(image[id]) ELSE -1

\* A leaf is followed by a leaf, and the children of a node are one level below.
GoodLeaf(image, page) ==
    /\ page = Leaf(page.previous, page.next, page.entries)
    /\ page.next # NoPage => LevelOf(image, page.next) = 0

GoodInternal(image, page) ==
    /\ page = Internal(page.level, page.separators, page.children)
    /\ page.level \in 1 .. Len(image) - 1
    /\ IsSequence(page.separators) /\ IsSequence(page.children)
    /\ Len(page.children) = Len(page.separators) + 1
    /\ \A c \in 1 .. Len(page.children) : LevelOf(image, page.children[c]) = page.level - 1

GoodPage(image, page) ==
    /\ page.type = "leaf" => GoodLeaf(image, page)
    /\ page.type = "internal" => GoodInternal(image, page)

Closed(image) ==
    /\ IsSequence(image)
    /\ \A p \in 1 .. Len(image) : GoodPage(image, image[p])

\* A step that changes no page but nodes up to a level, and the level of none.
Keeps(old, new, level) ==
    /\ Closed(new) /\ Len(old) <= Len(new)
    /\ \A p \in 1 .. Len(old) : LevelOf(new, p) = LevelOf(old, p)
    /\ \A p \in 1 .. Len(old) : LevelOf(old, p) \notin 0 .. level => new[p] = old[p]

LEMMA GoodStays ==
    ASSUME NEW old, NEW new, Len(old) \in Nat, Len(new) \in Nat, Len(old) <= Len(new),
           \A p \in 1 .. Len(old) : LevelOf(new, p) = LevelOf(old, p),
           NEW page, GoodPage(old, page)
    PROVE  GoodPage(new, page)
<1>1. ASSUME NEW id, LevelOf(old, id) # -1
      PROVE  LevelOf(new, id) = LevelOf(old, id)
  <2>1. id \in 1 .. Len(old)
    BY <1>1 DEF LevelOf
  <2>2. QED
    BY <2>1
<1>2. ASSUME page.type = "leaf" PROVE GoodLeaf(new, page)
  <2>1. GoodLeaf(old, page)
    BY <1>2 DEF GoodPage
  <2>2. QED
    BY <1>1, <2>1 DEF GoodLeaf
<1>3. ASSUME page.type = "internal" PROVE GoodInternal(new, page)
  <2>1. GoodInternal(old, page)
    BY <1>3 DEF GoodPage
  <2>2. page.level \in 1 .. Len(new) - 1
    BY <2>1 DEF GoodInternal
  <2>3. ASSUME NEW c \in 1 .. Len(page.children)
        PROVE  LevelOf(new, page.children[c]) = page.level - 1
    <3>1. LevelOf(old, page.children[c]) = page.level - 1
      BY <2>1 DEF GoodInternal
    <3>2. page.level - 1 # -1
      BY <2>2
    <3>3. QED
      BY <1>1, <3>1, <3>2
  <2>4. QED
    BY <2>1, <2>2, <2>3 DEF GoodInternal
<1>4. QED
  BY <1>2, <1>3 DEF GoodPage

LEMMA KeepsBy ==
    ASSUME NEW old, Closed(old), NEW new, NEW dirtied, Covers(old, new, dirtied), NEW level,
           \A p \in dirtied : p \in 1 .. Len(old) =>
               LevelOf(old, p) \in 0 .. level /\ LevelOf(new, p) = LevelOf(old, p),
           \A p \in dirtied : p \in 1 .. Len(new) => GoodPage(new, new[p])
    PROVE  Keeps(old, new, level)
<1>1. IsSequence(old) /\ IsSequence(new) /\ Len(old) <= Len(new)
  BY DEF Closed, Covers
<1>2. Len(old) \in Nat /\ Len(new) \in Nat
  BY <1>1, SequenceParts
<1>3. ASSUME NEW p \in 1 .. Len(old), p \notin dirtied PROVE new[p] = old[p]
  BY <1>1, <1>2, <1>3 DEF Covers
<1>4. ASSUME NEW p \in 1 .. Len(old) PROVE LevelOf(new, p) = LevelOf(old, p)
  <2>1. CASE p \in dirtied
    BY <2>1
  <2>2. CASE p \notin dirtied
    <3>1. new[p] = old[p] /\ p \in 1 .. Len(new)
      BY <1>1, <1>2, <1>3, <2>2
    <3>2. QED
      BY <3>1 DEF LevelOf
  <2>3. QED
    BY <2>1, <2>2
<1>5. ASSUME NEW p \in 1 .. Len(old), LevelOf(old, p) \notin 0 .. level PROVE new[p] = old[p]
  BY <1>3, <1>5
<1>6. ASSUME NEW p \in 1 .. Len(new) PROVE GoodPage(new, new[p])
  <2>1. CASE p \in dirtied
    BY <2>1
  <2>2. CASE p \notin dirtied
    <3>1. p \in 1 .. Len(old) /\ new[p] = old[p]
      BY <1>2, <2>2 DEF Covers
    <3>2. GoodPage(old, old[p])
      BY <3>1 DEF Closed
    <3>3. QED
      BY <1>1, <1>2, <1>4, <3>1, <3>2, GoodStays
  <2>3. QED
    BY <2>1, <2>2
<1>7. QED
  BY <1>1, <1>4, <1>5, <1>6 DEF Keeps, Closed

LEMMA KeepsTwice ==
    ASSUME NEW a, Closed(a), NEW b, NEW c, NEW k, NEW l, k \in Nat, l \in Nat, k <= l,
           Keeps(a, b, k), Keeps(b, c, l)
    PROVE  Keeps(a, c, l)
<1>1. Len(a) \in Nat /\ Len(b) \in Nat /\ Len(c) \in Nat /\ Len(a) <= Len(b) /\ Len(b) <= Len(c)
  BY SequenceParts DEF Keeps, Closed
<1>2. \A p \in 1 .. Len(a) : p \in 1 .. Len(b)
  BY <1>1
<1>3. ASSUME NEW p \in 1 .. Len(a), LevelOf(a, p) \notin 0 .. l PROVE c[p] = a[p]
  <2>1. LevelOf(a, p) \notin 0 .. k
    BY <1>3
  <2>2. QED
    BY <1>2, <1>3, <2>1 DEF Keeps
<1>4. QED
  BY <1>1, <1>2, <1>3 DEF Keeps

LEMMA KeepsNothing ==
    ASSUME NEW a, Closed(a), NEW l PROVE Keeps(a, a, l)
<1>1. Len(a) \in Nat
  BY SequenceParts DEF Closed
<1>2. QED
  BY <1>1 DEF Keeps

-----------------------------------------------------------------------------
(* insert_index_entry keeps to the tree *)

LEMMA LeafShape ==
    ASSUME NEW image, NEW previous, NEW next, NEW entries,
           next # NoPage => LevelOf(image, next) = 0
    PROVE  /\ GoodPage(image, Leaf(previous, next, entries))
           /\ NodeLevel(Leaf(previous, next, entries)) = 0
<1> DEFINE page == Leaf(previous, next, entries)
<1>1. page.type = "leaf" /\ page.previous = previous /\ page.next = next /\ page.entries = entries
  BY DEF Leaf
<1> HIDE DEF page
<1>2. page = Leaf(page.previous, page.next, page.entries)
  BY <1>1 DEF page
<1>3. GoodLeaf(image, page)
  BY <1>1, <1>2 DEF GoodLeaf
<1>4. QED
  BY <1>1, <1>3 DEF GoodPage, NodeLevel, page

\* The edits of a leaf.
WithEntries(leaf, entries) == [leaf EXCEPT !.entries = entries]
WithPrevious(leaf, previous) == [leaf EXCEPT !.previous = previous]

LEMMA LeafEdits ==
    ASSUME NEW leaf, NEW previous, NEW next, NEW entries, leaf = Leaf(previous, next, entries), NEW v
    PROVE  /\ WithEntries(leaf, v) = Leaf(previous, next, v)
           /\ WithPrevious(leaf, v) = Leaf(v, next, entries)
BY DEF Leaf, WithEntries, WithPrevious

LEMMA LeafThere ==
    ASSUME NEW image, Closed(image), NEW id, LevelOf(image, id) = 0
    PROVE  /\ id \in 1 .. Len(image) /\ image[id].type = "leaf"
           /\ image[id] = Leaf(image[id].previous, image[id].next, image[id].entries)
           /\ image[id].next # NoPage => LevelOf(image, image[id].next) = 0
<1>1. id \in 1 .. Len(image) /\ NodeLevel(image[id]) = 0
  BY DEF LevelOf
<1>2. GoodPage(image, image[id])
  BY <1>1 DEF Closed
<1>3. image[id].type = "leaf"
  <2>1. CASE image[id].type = "internal"
    <3>1. image[id].level \in 1 .. Len(image) - 1 /\ image[id].level = 0
      BY <1>1, <1>2, <2>1 DEF GoodPage, GoodInternal, NodeLevel
    <3>2. QED
      BY <3>1
  <2>2. QED
    BY <1>1, <2>1 DEF NodeLevel
<1>4. QED
  BY <1>1, <1>2, <1>3 DEF GoodPage, GoodLeaf

\* A leaf that takes the entry in.
LEMMA LeafFilledKeeps ==
    ASSUME NEW image, Closed(image), NEW id, LevelOf(image, id) = 0, NEW entries
    PROVE  Keeps(image, [image EXCEPT ![id].entries = entries], 0)
<1> DEFINE filled == [image EXCEPT ![id].entries = entries]
<1> DEFINE leaf == image[id]
<1> DEFINE v == Leaf(leaf.previous, leaf.next, entries)
<1>1. /\ id \in 1 .. Len(image) /\ leaf = Leaf(leaf.previous, leaf.next, leaf.entries)
      /\ leaf.next # NoPage => LevelOf(image, leaf.next) = 0
  BY LeafThere
<1>2. IsSequence(image) /\ Len(image) \in Nat
  BY SequenceParts DEF Closed
<1>3. filled = [image EXCEPT ![id] = v]
  <2>1. filled = [image EXCEPT ![id] = WithEntries(leaf, entries)]
    BY DEF WithEntries
  <2>2. WithEntries(leaf, entries) = v
    <3> HIDE DEF leaf, v
    <3> DEFINE p == leaf.previous
    <3> DEFINE n == leaf.next
    <3> DEFINE e == leaf.entries
    <3>1. leaf = Leaf(p, n, e)
      BY <1>1
    <3> HIDE DEF p, n, e
    <3>2. WithEntries(leaf, entries) = Leaf(p, n, entries)
      BY <3>1, LeafEdits
    <3>3. QED
      BY <3>2 DEF p, n, v
  <2>3. QED
    BY <2>1, <2>2
<1> HIDE DEF filled, v
<1>4. IsEdit(image, id, v, filled)
  BY <1>3 DEF IsEdit
<1>5. Covers(image, filled, {id}) /\ Len(filled) = Len(image)
  BY <1>2, <1>4, CoversEdit
<1>6. filled[id] = v
  BY <1>1, <1>2, <1>4, Edited
<1>7. GoodPage(image, v) /\ NodeLevel(v) = 0
  <2> HIDE DEF leaf
  <2>1. QED
    BY <1>1, LeafShape DEF v
<1>8. LevelOf(filled, id) = 0
  BY <1>1, <1>5, <1>6, <1>7 DEF LevelOf
<1>9. \A p \in 1 .. Len(image) : LevelOf(filled, p) = LevelOf(image, p)
  <2>1. SUFFICES ASSUME NEW p \in 1 .. Len(image), p # id PROVE LevelOf(filled, p) = LevelOf(image, p)
    BY <1>8
  <2>2. filled[p] = image[p]
    BY <1>2, <1>5, <2>1 DEF Covers
  <2>3. QED
    BY <1>5, <2>2 DEF LevelOf
<1>10. GoodPage(filled, v)
  BY <1>2, <1>5, <1>7, <1>9, GoodStays
<1>11. \A p \in {id} : p \in 1 .. Len(image) =>
           LevelOf(image, p) \in 0 .. 0 /\ LevelOf(filled, p) = LevelOf(image, p)
  BY <1>8
<1>12. \A p \in {id} : p \in 1 .. Len(filled) => GoodPage(filled, filled[p])
  BY <1>6, <1>10
<1>13. Keeps(image, filled, 0)
  BY <1>5, <1>11, <1>12, KeepsBy
<1>14. QED
  BY <1>13 DEF filled

\* The halves of a leaf that is too full.
LEMMA LeafHalvedKeeps ==
    ASSUME NEW image, Closed(image), NEW id, LevelOf(image, id) = 0, NEW lower, NEW upper,
           NEW edited, IsEdit(image, id, Leaf(image[id].previous, Len(image) + 1, lower), edited),
           NEW halved, halved = Append(edited, Leaf(id, image[id].next, upper))
    PROVE  Keeps(image, halved, 0) /\ LevelOf(halved, Len(image) + 1) = 0
<1> DEFINE leaf == image[id]
<1> DEFINE right == Len(image) + 1
<1> DEFINE low == Leaf(leaf.previous, right, lower)
<1> DEFINE high == Leaf(id, leaf.next, upper)
<1>1. id \in 1 .. Len(image) /\ (leaf.next # NoPage => LevelOf(image, leaf.next) = 0)
  BY LeafThere
<1>2. IsSequence(image) /\ Len(image) \in Nat
  BY SequenceParts DEF Closed
<1>3. IsEdit(image, id, low, edited) /\ halved = Append(edited, high)
  OBVIOUS
<1>4. NodeLevel(low) = 0 /\ NodeLevel(high) = 0
  BY DEF NodeLevel, Leaf
<1> HIDE DEF low, high
<1>5. Covers(image, edited, {id}) /\ Len(edited) = Len(image) /\ edited[id] = low
  BY <1>1, <1>2, <1>3, CoversEdit, Edited
<1>6. IsSequence(edited)
  BY <1>5 DEF Covers
<1>7. /\ Covers(edited, halved, {right}) /\ Len(halved) = right
      /\ halved[right] = high /\ \A p \in 1 .. Len(image) : halved[p] = edited[p]
  BY <1>3, <1>5, <1>6, CoversAppend, Appended
<1>8. Covers(image, halved, {id} \union {right})
  BY <1>2, <1>5, <1>7, CoversTwice
<1>9. halved[id] = low
  BY <1>1, <1>5, <1>7
<1>10. right \in 1 .. Len(halved) /\ id \in 1 .. Len(halved) /\ right # NoPage
  BY <1>1, <1>2, <1>7 DEF NoPage
<1>11. LevelOf(halved, right) = 0 /\ LevelOf(halved, id) = 0
  BY <1>4, <1>7, <1>9, <1>10 DEF LevelOf
<1>12. ASSUME leaf.next # NoPage PROVE LevelOf(halved, leaf.next) = 0
  <2>1. CASE leaf.next = id
    BY <1>11, <2>1
  <2>2. CASE leaf.next # id
    <3>1. LevelOf(image, leaf.next) = 0
      BY <1>1, <1>12
    <3>2. leaf.next \in 1 .. Len(image) /\ NodeLevel(image[leaf.next]) = 0
      BY <3>1 DEF LevelOf
    <3>3. halved[leaf.next] = image[leaf.next] /\ leaf.next \in 1 .. Len(halved)
      BY <1>2, <1>5, <1>7, <2>2, <3>2 DEF Covers
    <3>4. QED
      BY <3>2, <3>3 DEF LevelOf
  <2>3. QED
    BY <2>1, <2>2
<1>13. GoodPage(halved, low) /\ GoodPage(halved, high)
  <2> HIDE DEF leaf, right
  <2>1. GoodPage(halved, low)
    BY <1>11, LeafShape DEF low
  <2>2. GoodPage(halved, high)
    BY <1>12, LeafShape DEF high
  <2>3. QED
    BY <2>1, <2>2
<1>14. \A p \in {id} \union {right} : p \in 1 .. Len(image) =>
           LevelOf(image, p) \in 0 .. 0 /\ LevelOf(halved, p) = LevelOf(image, p)
  BY <1>2, <1>11
<1>15. \A p \in {id} \union {right} : p \in 1 .. Len(halved) => GoodPage(halved, halved[p])
  BY <1>7, <1>9, <1>13
<1>16. Keeps(image, halved, 0)
  BY <1>8, <1>14, <1>15, KeepsBy
<1>17. QED
  BY <1>11, <1>16

LEMMA RelinkKeeps ==
    ASSUME NEW image, Closed(image), NEW next, next # NoPage => LevelOf(image, next) = 0, NEW right
    PROVE  Keeps(image, RelinkNext(image, next, right), 0)
<1> DEFINE linked == RelinkNext(image, next, right)
<1>1. CASE next = NoPage
  BY <1>1, KeepsNothing DEF RelinkNext
<1>2. CASE next # NoPage
  <2> DEFINE leaf == image[next]
  <2> DEFINE v == Leaf(right, leaf.next, leaf.entries)
  <2>1. /\ next \in 1 .. Len(image) /\ leaf = Leaf(leaf.previous, leaf.next, leaf.entries)
        /\ leaf.next # NoPage => LevelOf(image, leaf.next) = 0
    BY <1>2, LeafThere
  <2>2. IsSequence(image) /\ Len(image) \in Nat
    BY SequenceParts DEF Closed
  <2>3. linked = [image EXCEPT ![next] = v]
    <3>1. linked = [image EXCEPT ![next] = WithPrevious(leaf, right)]
      BY <1>2 DEF RelinkNext, WithPrevious
    <3>2. WithPrevious(leaf, right) = v
      <4> HIDE DEF leaf, v
      <4> DEFINE p == leaf.previous
      <4> DEFINE n == leaf.next
      <4> DEFINE e == leaf.entries
      <4>1. leaf = Leaf(p, n, e)
        BY <2>1
      <4> HIDE DEF p, n, e
      <4>2. WithPrevious(leaf, right) = Leaf(right, n, e)
        BY <4>1, LeafEdits
      <4>3. QED
        BY <4>2 DEF e, n, v
    <3>3. QED
      BY <3>1, <3>2
  <2> HIDE DEF linked, v
  <2>4. IsEdit(image, next, v, linked)
    BY <2>3 DEF IsEdit
  <2>5. Covers(image, linked, {next}) /\ Len(linked) = Len(image)
    BY <2>2, <2>4, CoversEdit
  <2>6. linked[next] = v
    BY <2>1, <2>2, <2>4, Edited
  <2>7. GoodPage(image, v) /\ NodeLevel(v) = 0
    <3> HIDE DEF leaf
    <3>1. QED
      BY <2>1, LeafShape DEF v
  <2>8. LevelOf(linked, next) = 0
    BY <2>1, <2>5, <2>6, <2>7 DEF LevelOf
  <2>9. \A p \in 1 .. Len(image) : LevelOf(linked, p) = LevelOf(image, p)
    <3>1. SUFFICES ASSUME NEW p \in 1 .. Len(image), p # next
                   PROVE  LevelOf(linked, p) = LevelOf(image, p)
      BY <1>2, <2>8
    <3>2. linked[p] = image[p]
      BY <2>2, <2>5, <3>1 DEF Covers
    <3>3. QED
      BY <2>5, <3>2 DEF LevelOf
  <2>10. GoodPage(linked, v)
    BY <2>2, <2>5, <2>7, <2>9, GoodStays
  <2>11. \A p \in {next} : p \in 1 .. Len(image) =>
             LevelOf(image, p) \in 0 .. 0 /\ LevelOf(linked, p) = LevelOf(image, p)
    BY <1>2, <2>8
  <2>12. \A p \in {next} : p \in 1 .. Len(linked) => GoodPage(linked, linked[p])
    BY <2>6, <2>10
  <2>13. Keeps(image, linked, 0)
    BY <2>5, <2>11, <2>12, KeepsBy
  <2>14. QED
    BY <2>13 DEF linked
<1>3. QED
  BY <1>1, <1>2

\* What a step of the insertion yields: pages that keep to the tree below a
\* level, and a new node of that level if it split.
StepsTo(image, done, level) ==
    /\ Keeps(image, done.pages, level)
    /\ done.split # NoSplit => LevelOf(done.pages, done.split.right) = level

LEMMA LeafKeeps ==
    ASSUME NEW image, Closed(image), NEW id, LevelOf(image, id) = 0, NEW entry
    PROVE  StepsTo(image, InsertIntoLeaf(image, id, entry), 0)
<1> DEFINE leaf    == image[id]
<1> DEFINE entries == InsertAt(leaf.entries, 1 + LowerBound(leaf.entries, entry), entry)
<1> DEFINE half    == Len(entries) \div 2
<1> DEFINE right   == Len(image) + 1
<1> DEFINE upper   == SubSeq(entries, half + 1, Len(entries))
<1> DEFINE lower   == SubSeq(entries, 1, half)
<1> DEFINE edited  == [image EXCEPT ![id] = Leaf(leaf.previous, right, lower)]
<1> DEFINE halved  == Append(edited, Leaf(id, leaf.next, upper))
<1> DEFINE filled  == [image EXCEPT ![id].entries = entries]
<1> DEFINE done    == InsertIntoLeaf(image, id, entry)
<1>1. done = IF Fits(entries)
             THEN [pages |-> filled, dirty |-> {id}, split |-> NoSplit]
             ELSE [pages |-> RelinkNext(halved, leaf.next, right),
                   dirty |-> SplitDirty(id, right, leaf.next),
                   split |-> [separator |-> upper[1], right |-> right]]
  BY DEF InsertIntoLeaf
<1> HIDE DEF done, entries
<1>2. Keeps(image, filled, 0)
  BY LeafFilledKeeps
<1> HIDE DEF filled, upper, lower
<1>3. Keeps(image, RelinkNext(halved, leaf.next, right), 0)
      /\ LevelOf(RelinkNext(halved, leaf.next, right), right) = 0
  <2>1. IsEdit(image, id, Leaf(leaf.previous, right, lower), edited)
    BY DEF IsEdit
  <2> HIDE DEF edited
  <2>3. Keeps(image, halved, 0) /\ LevelOf(halved, right) = 0
    BY <2>1, LeafHalvedKeeps
  <2> HIDE DEF halved
  <2>4. Closed(halved)
    BY <2>3 DEF Keeps
  <2>5. leaf.next # NoPage => LevelOf(halved, leaf.next) = 0
    <3>1. SUFFICES ASSUME leaf.next # NoPage PROVE LevelOf(halved, leaf.next) = 0
      OBVIOUS
    <3>2. LevelOf(image, leaf.next) = 0
      BY <3>1, LeafThere
    <3>3. leaf.next \in 1 .. Len(image)
      BY <3>2 DEF LevelOf
    <3>4. QED
      BY <2>3, <3>2, <3>3 DEF Keeps
  <2> DEFINE linked == RelinkNext(halved, leaf.next, right)
  <2> HIDE DEF leaf, right
  <2>6. Keeps(halved, linked, 0)
    BY <2>4, <2>5, RelinkKeeps
  <2> HIDE DEF linked
  <2>7. Keeps(image, linked, 0)
    BY <2>3, <2>6, KeepsTwice
  <2>8. LevelOf(linked, right) = 0
    <3>1. right \in 1 .. Len(halved)
      BY <2>3 DEF LevelOf
    <3>2. QED
      BY <2>3, <2>6, <3>1 DEF Keeps
  <2>9. QED
    BY <2>7, <2>8 DEF linked
<1> HIDE DEF halved, leaf, right
<1>4. CASE Fits(entries)
  <2>1. done.pages = filled /\ done.split = NoSplit
    BY <1>1, <1>4
  <2>2. QED
    BY <1>2, <2>1 DEF StepsTo, done
<1>5. CASE ~Fits(entries)
  <2>1. done.pages = RelinkNext(halved, leaf.next, right) /\ done.split.right = right
    BY <1>1, <1>5
  <2>2. QED
    BY <1>3, <2>1 DEF StepsTo, done
<1>6. QED
  BY <1>4, <1>5

-----------------------------------------------------------------------------
(* Parts of sequences, whatever they hold *)

\* t holds only what s holds, or e.
HoldsOnly(t, s, e) == \A c \in 1 .. Len(t) : t[c] = e \/ \E d \in 1 .. Len(s) : t[c] = s[d]

LEMMA Slice ==
    ASSUME NEW s, IsSequence(s), NEW a \in Nat \ {0}, NEW b \in Nat, b <= Len(s), a <= b + 1
    PROVE  /\ IsSequence(SubSeq(s, a, b)) /\ Len(SubSeq(s, a, b)) = b - a + 1
           /\ \A i \in 1 .. b - a + 1 : SubSeq(s, a, b)[i] = s[a + i - 1]
<1>1. PICK S : s \in Seq(S)
  BY DEF IsSequence
<1>2. Len(s) \in Nat
  BY <1>1
<1>3. SubSeq(s, a, b) \in Seq(S) /\ Len(SubSeq(s, a, b)) = b - a + 1
      /\ \A i \in 1 .. b - a + 1 : SubSeq(s, a, b)[i] = s[a + i - 1]
  BY <1>1, <1>2
<1>4. QED
  BY <1>3 DEF IsSequence

LEMMA JoinedOf ==
    ASSUME NEW S, NEW s \in Seq(S), NEW t \in Seq(S)
    PROVE  /\ s \o t \in Seq(S) /\ Len(s \o t) = Len(s) + Len(t)
           /\ \A p \in 1 .. Len(s) : (s \o t)[p] = s[p]
           /\ \A p \in 1 .. Len(t) : (s \o t)[Len(s) + p] = t[p]
OBVIOUS

LEMMA Inserted ==
    ASSUME NEW s, IsSequence(s), NEW i, i \in 1 .. Len(s) + 1, NEW e
    PROVE  /\ IsSequence(InsertAt(s, i, e)) /\ Len(InsertAt(s, i, e)) = Len(s) + 1
           /\ HoldsOnly(InsertAt(s, i, e), s, e)
<1>1. PICK S : s \in Seq(S)
  BY DEF IsSequence
<1> DEFINE T == S \union {e}
<1> DEFINE n == Len(s)
<1> DEFINE t == InsertAt(s, i, e)
<1>2. s \in Seq(T) /\ e \in T /\ n \in Nat /\ i \in 1 .. n + 1
  BY <1>1
<1> HIDE DEF T
<1> DEFINE l == SubSeq(s, 1, i - 1)
<1> DEFINE r == SubSeq(s, i, n)
<1>3. /\ l \in Seq(T) /\ Len(l) = i - 1 /\ \A c \in 1 .. i - 1 : l[c] = s[c]
      /\ r \in Seq(T) /\ Len(r) = n - i + 1 /\ \A c \in 1 .. n - i + 1 : r[c] = s[i + c - 1]
  BY <1>2
<1>4. t = l \o <<e>> \o r
  BY DEF InsertAt
<1> HIDE DEF l, r, t, n
<1>5. /\ t \in Seq(T) /\ Len(t) = n + 1
      /\ \A c \in 1 .. i - 1 : t[c] = l[c]
      /\ t[i] = e
      /\ \A c \in 1 .. n - i + 1 : t[i + c] = r[c]
  <2> DEFINE u == Append(l, e)
  <2>1. u = l \o <<e>>
    BY <1>2, <1>3
  <2>2. u \in Seq(T) /\ Len(u) = i /\ u[i] = e /\ \A c \in 1 .. i - 1 : u[c] = l[c]
    BY <1>2, <1>3
  <2> HIDE DEF u
  <2>3. t = u \o r
    BY <1>4, <2>1
  <2>4. t \in Seq(T) /\ Len(t) = Len(u) + Len(r)
    <3>1. u \in Seq(T) /\ r \in Seq(T)
      BY <1>3, <2>2
    <3>2. QED
      BY <2>3, <3>1, JoinedOf
  <2>5. \A c \in 1 .. i : t[c] = u[c]
    BY <1>2, <1>3, <2>2, <2>3, JoinedOf
  <2>6. \A c \in 1 .. n - i + 1 : t[i + c] = r[c]
    BY <1>2, <1>3, <2>2, <2>3, JoinedOf
  <2>7. i \in 1 .. i /\ \A c \in 1 .. i - 1 : c \in 1 .. i
    BY <1>2
  <2>8. i + (n - i + 1) = n + 1
    BY <1>2
  <2>9. \A c \in 1 .. i - 1 : t[c] = l[c]
    BY <2>2, <2>5, <2>7
  <2>10. QED
    BY <1>3, <2>2, <2>4, <2>5, <2>6, <2>7, <2>8, <2>9
<1>6. ASSUME NEW c \in 1 .. n + 1 PROVE t[c] = e \/ \E d \in 1 .. n : t[c] = s[d]
  <2>1. CASE c < i
    <3>1. c \in 1 .. i - 1 /\ c \in 1 .. n
      BY <1>2, <2>1
    <3>2. t[c] = s[c]
      BY <1>3, <1>5, <3>1
    <3>3. QED
      BY <3>1, <3>2
  <2>2. CASE c = i
    BY <1>5, <2>2
  <2>3. CASE c > i
    <3>1. c - i \in 1 .. n - i + 1 /\ i + (c - i) = c /\ i + (c - i) - 1 = c - 1 /\ c - 1 \in 1 .. n
      BY <1>2, <2>3
    <3>2. t[i + (c - i)] = r[c - i] /\ r[c - i] = s[i + (c - i) - 1]
      BY <1>3, <1>5, <3>1
    <3>3. t[c] = s[c - 1]
      BY <3>1, <3>2
    <3>4. QED
      BY <3>1, <3>3
  <2>4. QED
    BY <1>2, <2>1, <2>2, <2>3
<1>7. QED
  BY <1>5, <1>6 DEF IsSequence, HoldsOnly, t, n

LEMMA SliceHolds ==
    ASSUME NEW s, IsSequence(s), NEW a \in Nat \ {0}, NEW b \in Nat, b <= Len(s), a <= b + 1,
           NEW P, \A c \in 1 .. Len(s) : s[c] \in P
    PROVE  \A c \in 1 .. Len(SubSeq(s, a, b)) : SubSeq(s, a, b)[c] \in P
<1>1. Len(s) \in Nat
  BY SequenceParts
<1> DEFINE t == SubSeq(s, a, b)
<1>2. Len(t) = b - a + 1 /\ \A i \in 1 .. b - a + 1 : t[i] = s[a + i - 1]
  BY Slice
<1> HIDE DEF t
<1>3. ASSUME NEW c \in 1 .. Len(t) PROVE t[c] \in P
  <2>1. c \in 1 .. b - a + 1 /\ a + c - 1 \in 1 .. Len(s)
    BY <1>1, <1>2
  <2>2. QED
    BY <1>2, <2>1
<1>4. QED
  BY <1>3 DEF t

-----------------------------------------------------------------------------
(* Internal nodes *)

LEMMA InternalThere ==
    ASSUME NEW image, Closed(image), NEW id, NEW level \in Nat \ {0}, LevelOf(image, id) = level
    PROVE  /\ id \in 1 .. Len(image) /\ image[id].type = "internal" /\ image[id].level = level
           /\ GoodInternal(image, image[id])
<1>1. id \in 1 .. Len(image) /\ NodeLevel(image[id]) = level
  BY DEF LevelOf
<1>2. GoodPage(image, image[id])
  BY <1>1 DEF Closed
<1>3. image[id].type = "internal" /\ image[id].level = level
  BY <1>1 DEF NodeLevel
<1>4. QED
  BY <1>1, <1>2, <1>3 DEF GoodPage

\* All of some nodes are of a level.
AllOfLevel(image, ids, level) == \A c \in 1 .. Len(ids) : LevelOf(image, ids[c]) = level

LEMMA InternalShape ==
    ASSUME NEW image, NEW level \in 1 .. Len(image) - 1, NEW separators, NEW children,
           IsSequence(separators), IsSequence(children), Len(children) = Len(separators) + 1,
           AllOfLevel(image, children, level - 1)
    PROVE  /\ GoodPage(image, Internal(level, separators, children))
           /\ NodeLevel(Internal(level, separators, children)) = level
<1> DEFINE page == Internal(level, separators, children)
<1>1. /\ page.type = "internal" /\ page.level = level /\ page.separators = separators
      /\ page.children = children
  BY DEF Internal
<1> HIDE DEF page
<1>2. page = Internal(page.level, page.separators, page.children)
  BY <1>1 DEF page
<1>3. \A c \in 1 .. Len(page.children) : LevelOf(image, page.children[c]) = page.level - 1
  BY <1>1 DEF AllOfLevel
<1>4. GoodInternal(image, page)
  BY <1>1, <1>2, <1>3 DEF GoodInternal
<1>5. QED
  BY <1>1, <1>4 DEF GoodPage, NodeLevel, page

\* A node edited to one of the same level.
LEMMA NodeEditKeeps ==
    ASSUME NEW image, Closed(image), NEW id, NEW level \in Nat, LevelOf(image, id) = level,
           NEW page, GoodPage(image, page), NodeLevel(page) = level,
           NEW edited, IsEdit(image, id, page, edited)
    PROVE  Keeps(image, edited, level) /\ Len(edited) = Len(image)
<1>1. IsSequence(image) /\ Len(image) \in Nat /\ id \in 1 .. Len(image)
  BY SequenceParts DEF Closed, LevelOf
<1>2. Covers(image, edited, {id}) /\ Len(edited) = Len(image) /\ edited[id] = page
  BY <1>1, CoversEdit, Edited
<1>3. \A p \in 1 .. Len(image) : LevelOf(edited, p) = LevelOf(image, p)
  <2>1. LevelOf(edited, id) = level
    BY <1>1, <1>2 DEF LevelOf
  <2>2. SUFFICES ASSUME NEW p \in 1 .. Len(image), p # id PROVE LevelOf(edited, p) = LevelOf(image, p)
    BY <2>1
  <2>3. edited[p] = image[p]
    BY <1>1, <1>2, <2>2 DEF Covers
  <2>4. QED
    BY <1>2, <2>3 DEF LevelOf
<1>4. GoodPage(edited, page)
  BY <1>1, <1>2, <1>3, GoodStays
<1>5. \A p \in {id} : p \in 1 .. Len(image) =>
          LevelOf(image, p) \in 0 .. level /\ LevelOf(edited, p) = LevelOf(image, p)
  BY <1>3
<1>6. \A p \in {id} : p \in 1 .. Len(edited) => GoodPage(edited, edited[p])
  BY <1>2, <1>4
<1>7. QED
  BY <1>2, <1>5, <1>6, KeepsBy

\* A page more.
LEMMA AppendLevels ==
    ASSUME NEW image, IsSequence(image), NEW page, NEW new, new = Append(image, page)
    PROVE  /\ \A p \in 1 .. Len(image) : LevelOf(new, p) = LevelOf(image, p) /\ new[p] = image[p]
           /\ LevelOf(new, Len(image) + 1) = NodeLevel(page) /\ new[Len(image) + 1] = page
           /\ Len(new) = Len(image) + 1 /\ Len(new) \in Nat
<1>1. Len(image) \in Nat
  BY SequenceParts
<1>2. /\ Len(new) = Len(image) + 1 /\ new[Len(image) + 1] = page
      /\ \A p \in 1 .. Len(image) : new[p] = image[p]
  BY Appended
<1>3. \A p \in 1 .. Len(image) : p \in 1 .. Len(new)
  BY <1>1, <1>2
<1>4. Len(image) + 1 \in 1 .. Len(new)
  BY <1>1, <1>2
<1>5. QED
  BY <1>1, <1>2, <1>3, <1>4 DEF LevelOf

LEMMA AppendKeeps ==
    ASSUME NEW image, Closed(image), NEW page, NEW new, new = Append(image, page),
           GoodPage(image, page) \/ GoodPage(new, page), NEW level
    PROVE  Keeps(image, new, level)
<1> DEFINE added == {Len(image) + 1}
<1>1. IsSequence(image) /\ Len(image) \in Nat
  BY SequenceParts DEF Closed
<1>2. Covers(image, new, added)
  BY <1>1, CoversAppend
<1>3. /\ \A p \in 1 .. Len(image) : LevelOf(new, p) = LevelOf(image, p)
      /\ new[Len(image) + 1] = page
      /\ Len(new) = Len(image) + 1
  BY <1>1, AppendLevels
<1>4. GoodPage(new, page)
  <2>1. CASE GoodPage(image, page)
    <3>1. Len(new) \in Nat /\ Len(image) <= Len(new)
      BY <1>1, <1>3
    <3>2. QED
      BY <1>1, <1>3, <2>1, <3>1, GoodStays
  <2>2. QED
    BY <2>1
<1>5. \A p \in added : p \in 1 .. Len(image) =>
          LevelOf(image, p) \in 0 .. level /\ LevelOf(new, p) = LevelOf(image, p)
  BY <1>1
<1>6. \A p \in added : p \in 1 .. Len(new) => GoodPage(new, new[p])
  BY <1>3, <1>4
<1> HIDE DEF added
<1>7. QED
  BY <1>2, <1>5, <1>6, KeepsBy

\* A node that gets a child more, and splits if it is too full then.
LEMMA ChildKeeps ==
    ASSUME NEW image, Closed(image), NEW id, NEW level \in Nat \ {0}, LevelOf(image, id) = level,
           NEW child, child \in 1 .. Len(image[id].children),
           NEW split, LevelOf(image, split.right) = level - 1
    PROVE  StepsTo(image, AddChild(image, id, child, split), level)
<1> DEFINE node       == image[id]
<1> DEFINE separators == InsertAt(node.separators, child, split.separator)
<1> DEFINE children   == InsertAt(node.children, child + 1, split.right)
<1> DEFINE right      == Len(image) + 1
<1> DEFINE half       == Len(children) \div 2
<1> DEFINE whole      == Internal(node.level, separators, children)
<1> DEFINE low        == Internal(node.level, SubSeq(separators, 1, half - 1), SubSeq(children, 1, half))
<1> DEFINE high       == Internal(node.level, SubSeq(separators, half + 1, Len(separators)),
                                  SubSeq(children, half + 1, Len(children)))
<1> DEFINE filled     == [image EXCEPT ![id] = whole]
<1> DEFINE edited     == [image EXCEPT ![id] = low]
<1> DEFINE done       == AddChild(image, id, child, split)
<1>1. /\ id \in 1 .. Len(image) /\ node.level = level /\ level \in 1 .. Len(image) - 1
      /\ IsSequence(node.separators) /\ IsSequence(node.children)
      /\ Len(node.children) = Len(node.separators) + 1
      /\ \A c \in 1 .. Len(node.children) : LevelOf(image, node.children[c]) = level - 1
  BY InternalThere DEF GoodInternal
<1>2. IsSequence(image) /\ Len(image) \in Nat /\ Len(node.separators) \in Nat
      /\ Len(node.children) \in Nat
  BY <1>1, SequenceParts DEF Closed
<1>3. done.pages = (IF Fits(separators) THEN filled ELSE Append(edited, high))
      /\ (done.split # NoSplit => ~Fits(separators) /\ done.split.right = right)
  BY DEF AddChild, SplitInternal
<1> HIDE DEF done
<1>4. IsSequence(separators) /\ Len(separators) = Len(node.separators) + 1
  <2>1. child \in 1 .. Len(node.separators) + 1
    BY <1>1
  <2> HIDE DEF node
  <2>2. QED
    BY <1>1, <2>1, Inserted
<1>5. /\ IsSequence(children) /\ Len(children) = Len(node.children) + 1
      /\ HoldsOnly(children, node.children, split.right)
  <2>1. child + 1 \in 1 .. Len(node.children) + 1
    BY <1>2
  <2> HIDE DEF node
  <2>2. QED
    BY <1>1, <2>1, Inserted
<1>6. AllOfLevel(image, children, level - 1)
  <2> HIDE DEF children, node
  <2>1. QED
    BY <1>1, <1>5 DEF HoldsOnly, AllOfLevel
<1>7. Len(children) = Len(separators) + 1 /\ Len(separators) \in Nat /\ Len(separators) >= 1
      /\ Len(children) \in Nat
  BY <1>1, <1>2, <1>4, <1>5
<1> HIDE DEF children, separators
<1>8. Keeps(image, filled, level)
  <2>1. GoodPage(image, whole) /\ NodeLevel(whole) = level
    BY <1>1, <1>4, <1>5, <1>6, <1>7, InternalShape
  <2>2. IsEdit(image, id, whole, filled)
    BY DEF IsEdit
  <2> HIDE DEF whole, filled
  <2>3. QED
    BY <2>1, <2>2, NodeEditKeeps
<1>9. half \in 1 .. Len(separators) /\ half \in Nat /\ half - 1 \in Nat
  BY <1>7
<1> HIDE DEF half
<1>10. GoodPage(image, low) /\ NodeLevel(low) = level
  <2> DEFINE s == SubSeq(separators, 1, half - 1)
  <2> DEFINE c == SubSeq(children, 1, half)
  <2>1. IsSequence(s) /\ Len(s) = half - 1
    <3>1. half - 1 <= Len(separators) /\ 1 <= half - 1 + 1 /\ half - 1 - 1 + 1 = half - 1
      BY <1>7, <1>9
    <3>2. QED
      BY <1>4, <1>9, <3>1, Slice
  <2>2. IsSequence(c) /\ Len(c) = half
    <3>1. half <= Len(children) /\ 1 <= half + 1 /\ half - 1 + 1 = half
      BY <1>7, <1>9
    <3>2. QED
      BY <1>5, <1>9, <3>1, Slice
  <2>3. AllOfLevel(image, c, level - 1)
    <3>1. half <= Len(children) /\ 1 <= half + 1
      BY <1>7, <1>9
    <3> DEFINE P == {x \in {children[i] : i \in 1 .. Len(children)} : LevelOf(image, x) = level - 1}
    <3>2. \A i \in 1 .. Len(children) : children[i] \in P
      BY <1>6 DEF AllOfLevel
    <3> HIDE DEF P
    <3>3. \A i \in 1 .. Len(c) : c[i] \in P
      BY <1>5, <1>9, <3>1, <3>2, SliceHolds
    <3>4. QED
      BY <3>3 DEF P, AllOfLevel
  <2> HIDE DEF s, c
  <2>4. Len(c) = Len(s) + 1
    BY <1>9, <2>1, <2>2
  <2>5. GoodPage(image, Internal(level, s, c)) /\ NodeLevel(Internal(level, s, c)) = level
    BY <1>1, <2>1, <2>2, <2>3, <2>4, InternalShape
  <2>6. QED
    BY <1>1, <2>5 DEF s, c
<1>11. GoodPage(image, high) /\ NodeLevel(high) = level
  <2> DEFINE n == Len(separators)
  <2> DEFINE m == Len(children)
  <2> DEFINE s == SubSeq(separators, half + 1, n)
  <2> DEFINE c == SubSeq(children, half + 1, m)
  <2>0. m = n + 1 /\ n \in Nat /\ m \in Nat /\ half + 1 \in Nat \ {0} /\ half + 1 <= n + 1
        /\ half + 1 <= m + 1 /\ n <= Len(separators) /\ m <= Len(children)
    BY <1>7, <1>9
  <2>1. IsSequence(s) /\ Len(s) = n - (half + 1) + 1
    BY <1>4, <2>0, Slice
  <2>2. IsSequence(c) /\ Len(c) = m - (half + 1) + 1
    BY <1>5, <2>0, Slice
  <2>3. AllOfLevel(image, c, level - 1)
    <3> DEFINE P == {x \in {children[i] : i \in 1 .. Len(children)} : LevelOf(image, x) = level - 1}
    <3>2. \A i \in 1 .. Len(children) : children[i] \in P
      BY <1>6 DEF AllOfLevel
    <3> HIDE DEF P
    <3>3. \A i \in 1 .. Len(c) : c[i] \in P
      <4> DEFINE a == half + 1
      <4>1. a \in Nat \ {0} /\ m \in Nat /\ m <= Len(children) /\ a <= m + 1
        BY <2>0
      <4> HIDE DEF a, m
      <4>2. \A i \in 1 .. Len(SubSeq(children, a, m)) : SubSeq(children, a, m)[i] \in P
        BY <1>5, <3>2, <4>1, SliceHolds
      <4>3. QED
        BY <4>2 DEF a
    <3>4. QED
      BY <3>3 DEF P, AllOfLevel
  <2> HIDE DEF s, c
  <2>4. Len(c) = Len(s) + 1
    BY <1>9, <2>0, <2>1, <2>2
  <2> HIDE DEF n, m
  <2>5. GoodPage(image, Internal(level, s, c)) /\ NodeLevel(Internal(level, s, c)) = level
    <3>1. level \in 1 .. Len(image) - 1 /\ IsSequence(s) /\ IsSequence(c)
      BY <1>1, <2>1, <2>2
    <3>2. QED
      BY <2>3, <2>4, <3>1, InternalShape
  <2>6. QED
    BY <1>1, <2>5 DEF s, c, n, m
<1> HIDE DEF low, high, whole, filled
<1>12. Keeps(image, Append(edited, high), level) /\ LevelOf(Append(edited, high), right) = level
  <2>1. IsEdit(image, id, low, edited)
    BY DEF IsEdit
  <2> HIDE DEF edited
  <2>2. Keeps(image, edited, level) /\ Len(edited) = Len(image)
    BY <1>10, <2>1, NodeEditKeeps
  <2>3. Closed(edited) /\ IsSequence(edited)
    BY <2>2 DEF Keeps, Closed
  <2>4. GoodPage(edited, high)
    BY <1>2, <1>11, <2>2, GoodStays DEF Keeps
  <2>5. Keeps(edited, Append(edited, high), level)
    BY <2>3, <2>4, AppendKeeps
  <2>6. LevelOf(Append(edited, high), right) = level
    <3> DEFINE new == Append(edited, high)
    <3> HIDE DEF new
    <3>1. LevelOf(new, Len(edited) + 1) = NodeLevel(high)
      BY <2>3, AppendLevels DEF new
    <3>2. QED
      BY <1>11, <2>2, <3>1 DEF new
  <2>7. QED
    BY <2>2, <2>5, <2>6, KeepsTwice
<1> HIDE DEF edited, right
<1>13. CASE Fits(separators)
  BY <1>3, <1>8, <1>13 DEF StepsTo, done
<1>14. CASE ~Fits(separators)
  <2>1. done.pages = Append(edited, high) /\ (done.split # NoSplit => done.split.right = right)
    BY <1>3, <1>14
  <2>2. QED
    BY <1>12, <2>1 DEF StepsTo, done
<1>15. QED
  BY <1>13, <1>14

LEMMA KeepsMore ==
    ASSUME NEW a, NEW b, NEW k \in Nat, NEW l \in Nat, k <= l, Keeps(a, b, k)
    PROVE  Keeps(a, b, l)
<1>1. ASSUME NEW p \in 1 .. Len(a), LevelOf(a, p) \notin 0 .. l PROVE b[p] = a[p]
  <2>1. LevelOf(a, p) \notin 0 .. k
    BY <1>1
  <2>2. QED
    BY <1>1, <2>1 DEF Keeps
<1>2. QED
  BY <1>1 DEF Keeps

LEMMA AfterChildKeeps ==
    ASSUME NEW image, Closed(image), NEW id, NEW level \in Nat \ {0}, LevelOf(image, id) = level,
           NEW child, child \in 1 .. Len(image[id].children),
           NEW below, StepsTo(image, below, level - 1)
    PROVE  StepsTo(image, AfterChild(id, child, below), level)
<1> DEFINE here == AddChild(below.pages, id, child, below.split)
<1> DEFINE done == AfterChild(id, child, below)
<1> DEFINE under == below.pages
<1>1. level - 1 \in Nat /\ level \in Nat /\ level - 1 <= level
  OBVIOUS
<1>2. Keeps(image, under, level - 1)
  BY DEF StepsTo
<1>3. Keeps(image, under, level)
  BY <1>1, <1>2, KeepsMore
<1>4. CASE below.split = NoSplit
  <2>1. done = below
    BY <1>4 DEF AfterChild
  <2>2. QED
    BY <1>3, <1>4, <2>1 DEF StepsTo
<1>5. CASE below.split # NoSplit
  <2>1. id \in 1 .. Len(image)
    BY InternalThere
  <2>2. LevelOf(image, id) \notin 0 .. level - 1
    OBVIOUS
  <2>3. under[id] = image[id] /\ LevelOf(under, id) = level /\ Closed(under)
    BY <1>2, <2>1, <2>2 DEF Keeps
  <2>4. LevelOf(under, below.split.right) = level - 1
    BY <1>5 DEF StepsTo
  <2>5. StepsTo(under, here, level)
    <3> HIDE DEF under
    <3>1. QED
      BY <2>3, <2>4, ChildKeeps DEF under
  <2>6. done.pages = here.pages /\ done.split = here.split
    <3>1. done = [here EXCEPT !.dirty = @ \union below.dirty]
      BY <1>5 DEF AfterChild
    <3>2. here = [pages |-> here.pages, dirty |-> here.dirty, split |-> here.split]
      BY DEF AddChild
    <3> HIDE DEF here, done
    <3>3. QED
      BY <3>1, <3>2
  <2> HIDE DEF here, done, under
  <2>7. Keeps(image, here.pages, level)
    BY <1>1, <1>3, <2>5, KeepsTwice DEF StepsTo
  <2>8. QED
    BY <2>5, <2>6, <2>7 DEF StepsTo, done
<1>6. QED
  BY <1>4, <1>5

LEMMA UpperBounded ==
    ASSUME NEW s, IsSequence(s), NEW entry
    PROVE  UpperBound(s, entry) \in 0 .. Len(s)
<1> DEFINE below == {i \in DOMAIN s : ~Precedes(entry, s[i])}
<1>1. Len(s) \in Nat /\ DOMAIN s = 1 .. Len(s)
  BY SequenceParts
<1>2. IsFiniteSet(1 .. Len(s)) /\ Cardinality(1 .. Len(s)) = Len(s)
  <2>1. 1 \in Int /\ Len(s) \in Int
    BY <1>1
  <2>2. /\ IsFiniteSet(1 .. Len(s))
        /\ Cardinality(1 .. Len(s)) = IF 1 > Len(s) THEN 0 ELSE Len(s) - 1 + 1
    BY <2>1, FS_Interval
  <2>3. QED
    BY <1>1, <2>2
<1>3. below \subseteq 1 .. Len(s)
  BY <1>1
<1> HIDE DEF below
<1>4. Cardinality(below) \in Nat /\ Cardinality(below) <= Len(s)
  BY <1>2, <1>3, FS_Subset, FS_CardinalityType
<1>5. QED
  BY <1>1, <1>4 DEF UpperBound, below

\* One call down from a node, and the way of n calls.
Down(image, root, entry, k, before) ==
    IF k = 0 THEN root
    ELSE IF image[before].type = "leaf" THEN before
    ELSE image[before].children[ChildFor(image, before, entry)]
DownAll(g, image, root, entry, n) == g = [k \in 0 .. n |-> Down(image, root, entry, k, g[k - 1])]

LEMMA DownExist ==
    ASSUME NEW image, NEW root, NEW entry, NEW n \in Nat
    PROVE  \E g : DownAll(g, image, root, entry, n)
<1> DEFINE P(g, m) == g = [k \in 0 .. m |-> Down(image, root, entry, k, g[k - 1])]
<1> DEFINE S == {m \in Nat : \E g : P(g, m)}
<1>1. 0 \in S
  <2> DEFINE g == [k \in 0 .. 0 |-> Down(image, root, entry, 0, 0)]
  <2>1. Down(image, root, entry, 0, g[0 - 1]) = Down(image, root, entry, 0, 0)
    BY DEF Down
  <2>2. P(g, 0)
    BY <2>1
  <2>3. QED
    BY <2>2
<1>2. ASSUME NEW m \in S PROVE m + 1 \in S
  <2>1. m \in Nat
    OBVIOUS
  <2>2. PICK f : P(f, m)
    OBVIOUS
  <2> DEFINE v == Down(image, root, entry, m + 1, f[m])
  <2> HIDE DEF v
  <2>3. PICK g : Extends(g, f, m, v)
    BY <2>1, Extended
  <2>4. /\ g = [k \in 0 .. m + 1 |-> g[k]] /\ g[m + 1] = v
        /\ \A k \in 0 .. m : g[k] = f[k]
    BY <2>3 DEF Extends
  <2>5. ASSUME NEW k \in 0 .. m + 1 PROVE g[k] = Down(image, root, entry, k, g[k - 1])
    <3>1. CASE k = m + 1
      <4>1. k - 1 = m /\ m \in 0 .. m
        BY <2>1, <3>1
      <4>2. g[k - 1] = f[m]
        BY <2>4, <4>1
      <4>3. QED
        BY <2>4, <3>1, <4>2 DEF v
    <3>2. CASE k # m + 1 /\ k # 0
      <4>1. k \in 0 .. m /\ k - 1 \in 0 .. m
        BY <2>1, <3>2
      <4>2. g[k] = f[k] /\ g[k - 1] = f[k - 1]
        BY <2>4, <4>1
      <4>3. f[k] = Down(image, root, entry, k, f[k - 1])
        BY <2>2, <4>1
      <4>4. QED
        BY <4>2, <4>3
    <3>3. CASE k = 0
      <4>1. 0 \in 0 .. m
        BY <2>1
      <4>2. g[0] = f[0]
        BY <2>4, <4>1
      <4>3. f[0] = Down(image, root, entry, 0, f[0 - 1])
        BY <2>2, <4>1
      <4>4. Down(image, root, entry, 0, f[0 - 1]) = Down(image, root, entry, 0, g[0 - 1])
        BY DEF Down
      <4>5. QED
        BY <3>3, <4>2, <4>3, <4>4
    <3>4. QED
      BY <3>1, <3>2, <3>3
  <2>6. P(g, m + 1)
    BY <2>4, <2>5, Zenon
  <2>7. QED
    BY <2>1, <2>6
<1>3. S = Nat
  <2>1. S \in SUBSET Nat
    OBVIOUS
  <2> HIDE DEF S
  <2>2. QED
    BY <1>1, <1>2, <2>1, SetInduction
<1>4. \E g : P(g, n)
  BY <1>3
<1>5. QED
  BY <1>4 DEF DownAll


\* From a node of a level down to a node of the level below, or the leaf itself.
LEMMA DownLevel ==
    ASSUME NEW image, Closed(image), NEW root, NEW entry, NEW k \in Nat \ {0}, NEW id,
           LevelOf(image, id) \in Nat
    PROVE  LET below == Down(image, root, entry, k, id)
           IN  LevelOf(image, below) =
                   IF LevelOf(image, id) = 0 THEN 0 ELSE LevelOf(image, id) - 1
<1> DEFINE below == Down(image, root, entry, k, id)
<1> DEFINE level == LevelOf(image, id)
<1>1. CASE level = 0
  <2>1. image[id].type = "leaf"
    BY <1>1, LeafThere
  <2>2. below = id
    BY <2>1 DEF Down
  <2>3. QED
    BY <1>1, <2>2
<1>2. CASE level # 0
  <2>1. level \in Nat \ {0}
    BY <1>2
  <2> HIDE DEF level
  <2>2. /\ image[id].type = "internal" /\ image[id].level = level
        /\ GoodInternal(image, image[id])
    BY <2>1, InternalThere DEF level
  <2>3. ChildFor(image, id, entry) \in 1 .. Len(image[id].children)
    <3>1. IsSequence(image[id].separators)
          /\ Len(image[id].children) = Len(image[id].separators) + 1
      BY <2>2 DEF GoodInternal
    <3>2. Len(image[id].separators) \in Nat
      BY <3>1, SequenceParts
    <3>3. UpperBound(image[id].separators, entry) \in 0 .. Len(image[id].separators)
      BY <3>1, UpperBounded
    <3>4. QED
      BY <3>1, <3>2, <3>3 DEF ChildFor
  <2>4. below = image[id].children[ChildFor(image, id, entry)]
    BY <2>2 DEF Down
  <2>5. LevelOf(image, below) = level - 1
    BY <2>2, <2>3, <2>4 DEF GoodInternal
  <2>6. QED
    BY <1>2, <2>5 DEF level
<1>3. QED
  BY <1>1, <1>2

\* A descent that ends in a leaf.
Reaches(image, root, entry, path, n) ==
    /\ path[0] = root
    /\ \A k \in 1 .. n : path[k] = Down(image, root, entry, k, path[k - 1])
    /\ \A k \in 0 .. n : LevelOf(image, path[k]) \in Nat
    /\ LevelOf(image, path[n]) = 0

LEMMA DescentReaches ==
    ASSUME NEW image, Closed(image), NEW root, LevelOf(image, root) \in Nat, NEW entry
    PROVE  Reaches(image, root, entry, Descent(image, root, entry), Len(image))
<1> DEFINE n == Len(image)
<1> DEFINE P(g) == g = [k \in 0 .. n |-> Down(image, root, entry, k, g[k - 1])]
<1> DEFINE path == CHOOSE g : P(g)
<1>1. n \in Nat
  BY SequenceParts DEF Closed
<1>2. P(path)
  <2>1. \E g : DownAll(g, image, root, entry, n)
    BY <1>1, DownExist
  <2>2. \E g : P(g)
    BY <2>1 DEF DownAll
  <2> HIDE DEF P
  <2>3. QED
    BY <2>2
<1>3. Descent(image, root, entry) = path
  BY DEF Descent, Down
<1> HIDE DEF path
<1>4. \A k \in 0 .. n : path[k] = Down(image, root, entry, k, path[k - 1])
  BY <1>2
<1> HIDE DEF P
<1>5. LevelOf(image, root) <= n - 1
  <2>1. CASE LevelOf(image, root) = 0
    <3>1. root \in 1 .. n
      BY <2>1, LeafThere
    <3>2. QED
      BY <1>1, <2>1, <3>1
  <2>2. CASE LevelOf(image, root) # 0
    <3> DEFINE l == LevelOf(image, root)
    <3>1. l \in Nat \ {0}
      BY <2>2
    <3> HIDE DEF l
    <3>2. GoodInternal(image, image[root]) /\ image[root].level = l
      BY <3>1, InternalThere DEF l
    <3>3. l \in 1 .. n - 1
      BY <3>2 DEF GoodInternal
    <3>4. QED
      BY <1>1, <3>3 DEF l
  <2>3. QED
    BY <2>1, <2>2
<1> HIDE DEF n
<1> DEFINE Lv(k) == LevelOf(image, path[k])
<1> DEFINE top == LevelOf(image, root)
<1> DEFINE S == {k \in Nat : k <= n => Lv(k) \in Nat /\ (Lv(k) = 0 \/ Lv(k) + k = top)}
<1>6. path[0] = root
  BY <1>1, <1>4 DEF Down
<1>7. 0 \in S
  BY <1>6
<1>8. ASSUME NEW k \in S PROVE k + 1 \in S
  <2>1. k \in Nat
    OBVIOUS
  <2>2. SUFFICES ASSUME k + 1 <= n
                 PROVE  Lv(k + 1) \in Nat /\ (Lv(k + 1) = 0 \/ Lv(k + 1) + (k + 1) = top)
    BY <2>1
  <2> DEFINE j == k + 1
  <2>3. j \in 0 .. n /\ j \in Nat \ {0} /\ j - 1 = k /\ k <= n
    BY <1>1, <2>1, <2>2
  <2>4. Lv(k) \in Nat /\ (Lv(k) = 0 \/ Lv(k) + k = top)
    BY <2>3
  <2> HIDE DEF j
  <2>5. path[j] = Down(image, root, entry, j, path[k])
    BY <1>4, <2>3
  <2>6. LevelOf(image, Down(image, root, entry, j, path[k])) =
            IF LevelOf(image, path[k]) = 0 THEN 0 ELSE LevelOf(image, path[k]) - 1
    BY <2>3, <2>4, DownLevel
  <2>7. Lv(j) = IF Lv(k) = 0 THEN 0 ELSE Lv(k) - 1
    BY <2>5, <2>6
  <2> HIDE DEF Lv, top
  <2>8. Lv(j) \in Nat /\ (Lv(j) = 0 \/ Lv(j) + j = top)
    BY <2>1, <2>4, <2>7 DEF j
  <2>9. QED
    BY <2>8 DEF j
<1>9. S = Nat
  <2>1. S \in SUBSET Nat
    OBVIOUS
  <2> HIDE DEF S
  <2>2. QED
    BY <1>7, <1>8, <2>1, SetInduction
<1>10. \A k \in 0 .. n : Lv(k) \in Nat /\ (Lv(k) = 0 \/ Lv(k) + k = top)
  BY <1>9
<1>11. Lv(n) = 0
  BY <1>1, <1>5, <1>10
<1>12. \A k \in 1 .. n : k \in 0 .. n
  BY <1>1
<1>13. Reaches(image, root, entry, path, n)
  BY <1>4, <1>6, <1>10, <1>11, <1>12 DEF Reaches
<1>14. QED
  BY <1>3, <1>13 DEF n

LEMMA InsertKeeps ==
    ASSUME NEW image, Closed(image), NEW root, LevelOf(image, root) \in Nat, NEW entry
    PROVE  StepsTo(image, InsertIndexEntry(image, root, entry), LevelOf(image, root))
<1> DEFINE n == Len(image)
<1> DEFINE path == Descent(image, root, entry)
<1>1. n \in Nat
  BY SequenceParts DEF Closed
<1>2. Reaches(image, root, entry, path, n)
  BY DescentReaches
<1> HIDE DEF path
<1> DEFINE P(g) == g = [k \in 0 .. n |-> InsertHere(image, path, entry, k, g[k - 1])]
<1> DEFINE done == CHOOSE g : P(g)
<1>3. \E g : P(g)
  <2> HIDE DEF n
  <2>1. \E g : Insertions(g, image, path, entry, n)
    BY <1>1, InsertionsExist
  <2>2. QED
    BY <2>1 DEF Insertions
<1>4. P(done)
  <2> HIDE DEF P
  <2>1. QED
    BY <1>3
<1>5. InsertIndexEntry(image, root, entry) = done[n]
  BY DEF InsertIndexEntry, InsertHere, path
<1> HIDE DEF done
<1>6. \A k \in 0 .. n : done[k] = InsertHere(image, path, entry, k, done[k - 1])
  BY <1>4
<1> HIDE DEF P
<1> DEFINE S == {k \in Nat : k <= n => StepsTo(image, done[k], LevelOf(image, path[n - k]))}
<1>7. 0 \in S
  <2>1. done[0] = InsertHere(image, path, entry, 0, done[0 - 1])
    BY <1>1, <1>6
  <2>2. done[0] = InsertIntoLeaf(image, path[n - 0], entry)
    BY <2>1 DEF InsertHere
  <2>3. n - 0 = n
    BY <1>1
  <2>4. LevelOf(image, path[n]) = 0
    BY <1>2 DEF Reaches
  <2>5. StepsTo(image, InsertIntoLeaf(image, path[n], entry), 0)
    BY <2>4, LeafKeeps
  <2>6. StepsTo(image, done[0], LevelOf(image, path[n - 0]))
    BY <2>2, <2>3, <2>4, <2>5
  <2>7. QED
    BY <2>6
<1>8. ASSUME NEW k \in S PROVE k + 1 \in S
  <2>1. k \in Nat /\ (k <= n => StepsTo(image, done[k], LevelOf(image, path[n - k])))
    OBVIOUS
  <2>2. SUFFICES ASSUME k + 1 <= n
                 PROVE  StepsTo(image, done[k + 1], LevelOf(image, path[n - (k + 1)]))
    BY <2>1
  <2> DEFINE j == k + 1
  <2> DEFINE i == n - (k + 1)
  <2> DEFINE id == path[i]
  <2> DEFINE below == path[n - k]
  <2>3. /\ k <= n /\ j \in 0 .. n /\ j - 1 = k /\ j # 0
        /\ i \in 0 .. n /\ i + 1 \in 1 .. n /\ i + 1 = n - k /\ i + 1 - 1 = i /\ i + 1 # 0
    BY <1>1, <2>1, <2>2
  <2>4. StepsTo(image, done[k], LevelOf(image, below))
    BY <2>1, <2>3
  <2>5. done[j] = InsertHere(image, path, entry, j, done[k])
    <3> HIDE DEF j
    <3>1. QED
      BY <1>6, <2>3
  <2>6. LevelOf(image, id) \in Nat
    <3> HIDE DEF i
    <3>1. QED
      BY <1>2, <2>3 DEF Reaches
  <2>7. below = Down(image, root, entry, i + 1, id)
    <3>1. path[i + 1] = Down(image, root, entry, i + 1, path[i + 1 - 1])
      <4> HIDE DEF i
      <4>1. QED
        BY <1>2, <2>3 DEF Reaches
    <3>2. QED
      BY <2>3, <3>1
  <2>8. id = path[n - j]
    OBVIOUS
  <2> HIDE DEF below, id
  <2>9. CASE LevelOf(image, id) = 0
    <3>1. image[id].type = "leaf"
      BY <2>9, LeafThere
    <3>2. done[j] = InsertIntoLeaf(image, id, entry)
      BY <2>5, <2>8, <3>1 DEF InsertHere
    <3>3. QED
      BY <2>9, <3>2, LeafKeeps DEF id
  <2>10. CASE LevelOf(image, id) # 0
    <3> DEFINE level == LevelOf(image, id)
    <3>1. level \in Nat \ {0}
      BY <2>6, <2>10
    <3> HIDE DEF level
    <3>2. image[id].type = "internal" /\ GoodInternal(image, image[id])
      BY <3>1, InternalThere DEF level
    <3> DEFINE child == ChildFor(image, id, entry)
    <3>3. child \in 1 .. Len(image[id].children)
      <4>1. IsSequence(image[id].separators)
            /\ Len(image[id].children) = Len(image[id].separators) + 1
        BY <3>2 DEF GoodInternal
      <4>2. Len(image[id].separators) \in Nat
        BY <4>1, SequenceParts
      <4>3. UpperBound(image[id].separators, entry) \in 0 .. Len(image[id].separators)
        BY <4>1, UpperBounded
      <4>4. QED
        BY <4>1, <4>2, <4>3 DEF ChildFor
    <3>4. done[j] = AfterChild(id, child, done[k])
      <4>1. image[id].type # "leaf"
        BY <3>2
      <4>2. j # 0
        BY <2>3
      <4> HIDE DEF j
      <4>3. QED
        BY <2>5, <2>8, <4>1, <4>2 DEF InsertHere
    <3> HIDE DEF child
    <3>5. LevelOf(image, below) = level - 1
      <4> HIDE DEF i, j
      <4>1. i + 1 \in Nat \ {0}
        BY <1>1, <2>3
      <4>2. QED
        BY <2>6, <2>7, <2>10, <4>1, DownLevel DEF level
    <3>6. StepsTo(image, done[k], level - 1)
      BY <2>4, <3>5
    <3>7. StepsTo(image, AfterChild(id, child, done[k]), level)
      BY <3>1, <3>3, <3>6, AfterChildKeeps DEF level
    <3>8. QED
      BY <3>4, <3>7 DEF level, id
  <2>11. QED
    BY <2>9, <2>10
<1>9. S = Nat
  <2>1. S \in SUBSET Nat
    OBVIOUS
  <2> HIDE DEF S
  <2>2. QED
    BY <1>7, <1>8, <2>1, SetInduction
<1>10. StepsTo(image, done[n], LevelOf(image, path[n - n]))
  <2>1. n \in S
    <3> HIDE DEF S
    <3>1. QED
      BY <1>1, <1>9
  <2> HIDE DEF n
  <2>1a. n <= n
    BY <1>1
  <2>2. QED
    BY <2>1, <2>1a
<1>11. path[n - n] = root
  <2>1. n - n = 0
    BY <1>1
  <2>2. QED
    BY <1>2, <2>1 DEF Reaches
<1>12. QED
  BY <1>5, <1>10, <1>11

\* No page but a node is changed, and all nodes keep their levels.
KeepsOthers(old, new) ==
    /\ Closed(new) /\ Len(old) <= Len(new)
    /\ \A p \in 1 .. Len(old) : LevelOf(new, p) = LevelOf(old, p)
    /\ \A p \in 1 .. Len(old) : LevelOf(old, p) = -1 => new[p] = old[p]

LEMMA OthersKept ==
    ASSUME NEW a, NEW b, NEW l \in Nat, Keeps(a, b, l)
    PROVE  KeepsOthers(a, b)
<1>1. -1 \notin 0 .. l
  OBVIOUS
<1>2. QED
  BY <1>1 DEF Keeps, KeepsOthers

\* The root of an index.
IsRoot(image, root) == root = NoPage \/ LevelOf(image, root) \in Nat

LEMMA IndexKeeps ==
    ASSUME NEW image, Closed(image), NEW root, IsRoot(image, root), NEW entry
    PROVE  LET done == InsertIntoIndex(image, root, entry)
           IN  KeepsOthers(image, done.pages) /\ IsRoot(done.pages, done.root)
<1> DEFINE next == InsertIntoIndex(image, root, entry)
<1>1. CASE root = NoPage
  <2> DEFINE leaf == Leaf(NoPage, NoPage, <<entry>>)
  <2> DEFINE new == Append(image, leaf)
  <2>1. next.pages = new /\ next.root = Len(image) + 1
    BY <1>1 DEF InsertIntoIndex
  <2>2. GoodPage(image, leaf) /\ NodeLevel(leaf) = 0
    BY LeafShape
  <2> HIDE DEF leaf, new, next
  <2>3. Keeps(image, new, 0)
    BY <2>2, AppendKeeps DEF new
  <2>4. LevelOf(new, Len(image) + 1) = 0
    <3>1. IsSequence(image) /\ new = Append(image, leaf)
      BY DEF Closed, new
    <3>2. LevelOf(new, Len(image) + 1) = NodeLevel(leaf)
      BY <3>1, AppendLevels
    <3>3. QED
      BY <2>2, <3>2
  <2>5. KeepsOthers(image, new) /\ IsRoot(new, Len(image) + 1)
    BY <2>3, <2>4, OthersKept DEF IsRoot
  <2>6. QED
    BY <2>1, <2>5 DEF next
<1>2. CASE root # NoPage
  <2> DEFINE done == InsertIndexEntry(image, root, entry)
  <2> DEFINE l == LevelOf(image, root)
  <2>1. l \in Nat
    BY <1>2 DEF IsRoot
  <2>2. StepsTo(image, done, l)
    BY <2>1, InsertKeeps
  <2>3. next = GrowRoot(root, done)
    BY <1>2 DEF InsertIntoIndex
  <2>4. root \in 1 .. Len(image)
    BY <2>1 DEF LevelOf
  <2> HIDE DEF done, l, next
  <2>5. Keeps(image, done.pages, l) /\ LevelOf(done.pages, root) = l
    BY <2>2, <2>4 DEF StepsTo, Keeps, l
  <2>6. CASE done.split = NoSplit
    <3>1. next.pages = done.pages /\ next.root = root
      BY <2>3, <2>6 DEF GrowRoot
    <3>2. KeepsOthers(image, done.pages) /\ IsRoot(done.pages, root)
      BY <2>1, <2>5, OthersKept DEF IsRoot
    <3>3. QED
      BY <3>1, <3>2 DEF next
  <2>7. CASE done.split # NoSplit
    <3> DEFINE old == done.pages
    <3> DEFINE above == Len(old) + 1
    <3> DEFINE level == IF old[root].type = "leaf" THEN 1 ELSE old[root].level + 1
    <3> DEFINE node == Internal(level, <<done.split.separator>>, <<root, done.split.right>>)
    <3> DEFINE new == Append(old, node)
    <3>1. next.pages = new /\ next.root = above
      BY <2>3, <2>7 DEF GrowRoot
    <3>2. Closed(old) /\ IsSequence(old) /\ Len(old) \in Nat
      BY <2>5, SequenceParts DEF Keeps, Closed
    <3>3. level = l + 1 /\ level \in 1 .. Len(old)
      <4>1. CASE l = 0
        <5>1. old[root].type = "leaf" /\ root \in 1 .. Len(old)
          BY <2>5, <3>2, <4>1, LeafThere
        <5>2. QED
          BY <3>2, <4>1, <5>1
      <4>2. CASE l # 0
        <5>1. l \in Nat \ {0}
          BY <2>1, <4>2
        <5>2. old[root].type = "internal" /\ old[root].level = l /\ GoodInternal(old, old[root])
          BY <2>5, <3>2, <5>1, InternalThere
        <5>3. l \in 1 .. Len(old) - 1
          BY <5>2 DEF GoodInternal
        <5>4. QED
          BY <3>2, <5>2, <5>3
      <4>3. QED
        BY <4>1, <4>2
    <3>4. LevelOf(old, done.split.right) = l
      BY <2>2, <2>7 DEF StepsTo
    <3> DEFINE s == <<done.split.separator>>
    <3> DEFINE c == <<root, done.split.right>>
    <3>5. IsSequence(s) /\ Len(s) = 1 /\ IsSequence(c) /\ Len(c) = 2
      <4>1. s \in Seq({done.split.separator}) /\ c \in Seq({root, done.split.right})
        OBVIOUS
      <4>2. QED
        BY <4>1 DEF IsSequence
    <3>6. c[1] = root /\ c[2] = done.split.right
      OBVIOUS
    <3> HIDE DEF node, new, old, level
    <3>7. /\ \A p \in 1 .. Len(old) : LevelOf(new, p) = LevelOf(old, p)
          /\ LevelOf(new, above) = NodeLevel(node) /\ Len(new) = Len(old) + 1
      BY <3>2, AppendLevels DEF new
    <3> HIDE DEF above
    <3>8. root \in 1 .. Len(old) /\ done.split.right \in 1 .. Len(old)
      BY <2>1, <2>5, <3>4 DEF LevelOf, old
    <3>9. LevelOf(new, root) = l /\ LevelOf(new, done.split.right) = l
      BY <2>5, <3>4, <3>7, <3>8 DEF old
    <3>10. AllOfLevel(new, c, level - 1)
      <4>1. level - 1 = l
        BY <2>1, <3>3
      <4> HIDE DEF c
      <4>2. \A i \in 1 .. Len(c) : i = 1 \/ i = 2
        BY <3>5
      <4>3. QED
        BY <3>6, <3>9, <4>1, <4>2 DEF AllOfLevel
    <3>11. level \in 1 .. Len(new) - 1 /\ Len(c) = Len(s) + 1
      BY <3>2, <3>3, <3>5, <3>7
    <3> HIDE DEF s, c
    <3>12. GoodPage(new, Internal(level, s, c)) /\ NodeLevel(Internal(level, s, c)) = level
      <4>1. IsSequence(s) /\ IsSequence(c) /\ level \in 1 .. Len(new) - 1 /\ Len(c) = Len(s) + 1
        BY <3>5, <3>11
      <4>2. QED
        BY <3>10, <4>1, InternalShape
    <3>13. node = Internal(level, s, c)
      BY DEF node, s, c
    <3>14. Keeps(old, new, l)
      BY <3>2, <3>12, <3>13, AppendKeeps DEF new
    <3>15. Keeps(image, new, l)
      BY <2>1, <2>5, <3>14, KeepsTwice DEF old
    <3>16. KeepsOthers(image, new) /\ IsRoot(new, above)
      BY <2>1, <3>3, <3>7, <3>12, <3>13, <3>15, OthersKept DEF IsRoot
    <3>17. QED
      BY <3>1, <3>16 DEF next
  <2>8. QED
    BY <2>6, <2>7
<1>3. QED
  BY <1>1, <1>2

-----------------------------------------------------------------------------
(* Joining sequences, whatever they hold *)

LEMMA SameSequence ==
    ASSUME NEW s, IsSequence(s), NEW t, IsSequence(t), Len(s) = Len(t),
           \A i \in 1 .. Len(s) : s[i] = t[i]
    PROVE  s = t
<1>1. PICK S : s \in Seq(S)
  BY DEF IsSequence
<1>2. PICK T : t \in Seq(T)
  BY DEF IsSequence
<1> DEFINE U == S \union T
<1>3. s \in Seq(U) /\ t \in Seq(U)
  BY <1>1, <1>2
<1> HIDE DEF U
<1>4. QED
  BY <1>3

LEMMA Tailed ==
    ASSUME NEW s, IsSequence(s), NEW t, IsSequence(t)
    PROVE  \A p \in 1 .. Len(t) : (s \o t)[Len(s) + p] = t[p]
<1>1. PICK S : s \in Seq(S)
  BY DEF IsSequence
<1>2. PICK T : t \in Seq(T)
  BY DEF IsSequence
<1> DEFINE U == S \union T
<1>3. s \in Seq(U) /\ t \in Seq(U)
  BY <1>1, <1>2
<1> HIDE DEF U
<1>4. QED
  BY <1>3, JoinedOf

LEMMA JoinEmpty ==
    ASSUME NEW s, IsSequence(s)
    PROVE  s \o <<>> = s /\ <<>> \o s = s
<1>1. PICK S : s \in Seq(S)
  BY DEF IsSequence
<1>2. QED
  BY <1>1

LEMMA JoinAssociates ==
    ASSUME NEW a, IsSequence(a), NEW b, IsSequence(b), NEW c, IsSequence(c)
    PROVE  (a \o b) \o c = a \o (b \o c)
<1> DEFINE l == (a \o b) \o c
<1> DEFINE r == a \o (b \o c)
<1> DEFINE u == a \o b
<1> DEFINE v == b \o c
<1>1. Len(a) \in Nat /\ Len(b) \in Nat /\ Len(c) \in Nat
  BY SequenceParts
<1>2. IsSequence(u) /\ Len(u) = Len(a) + Len(b) /\ IsSequence(v) /\ Len(v) = Len(b) + Len(c)
  BY Joined
<1>3. /\ \A p \in 1 .. Len(a) : u[p] = a[p]
      /\ \A p \in 1 .. Len(b) : u[Len(a) + p] = b[p]
  BY Joined, Tailed
<1>4. /\ \A p \in 1 .. Len(b) : v[p] = b[p]
      /\ \A p \in 1 .. Len(c) : v[Len(b) + p] = c[p]
  BY Joined, Tailed
<1>5. l = u \o c /\ r = a \o v
  OBVIOUS
<1> HIDE DEF u, v, l, r
<1>6. IsSequence(l) /\ Len(l) = Len(u) + Len(c) /\ \A p \in 1 .. Len(u) : l[p] = u[p]
  BY <1>2, <1>5, Joined
<1>7. \A p \in 1 .. Len(c) : l[Len(u) + p] = c[p]
  BY <1>2, <1>5, Tailed
<1>8. IsSequence(r) /\ Len(r) = Len(a) + Len(v) /\ \A p \in 1 .. Len(a) : r[p] = a[p]
  BY <1>2, <1>5, Joined
<1>9. \A p \in 1 .. Len(v) : r[Len(a) + p] = v[p]
  BY <1>2, <1>5, Tailed
<1>10. ASSUME NEW p \in 1 .. Len(l) PROVE l[p] = r[p]
  <2>1. CASE p <= Len(a)
    <3>1. p \in 1 .. Len(a) /\ p \in 1 .. Len(u)
      BY <1>1, <1>2, <2>1
    <3>2. QED
      BY <1>3, <1>6, <1>8, <3>1
  <2>2. CASE p > Len(a) /\ p <= Len(a) + Len(b)
    <3> DEFINE q == p - Len(a)
    <3>1. q \in 1 .. Len(b) /\ Len(a) + q = p /\ p \in 1 .. Len(u) /\ q \in 1 .. Len(v)
      BY <1>1, <1>2, <2>2
    <3> HIDE DEF q
    <3>2. l[p] = u[p] /\ u[p] = b[q] /\ r[p] = v[q] /\ v[q] = b[q]
      BY <1>3, <1>4, <1>6, <1>9, <3>1
    <3>3. QED
      BY <3>2
  <2>3. CASE p > Len(a) + Len(b)
    <3> DEFINE q == p - Len(a)
    <3> DEFINE o == p - (Len(a) + Len(b))
    <3>1. q \in 1 .. Len(v) /\ Len(a) + q = p /\ o \in 1 .. Len(c) /\ Len(u) + o = p /\ Len(b) + o = q
      BY <1>1, <1>2, <1>6, <2>3
    <3> HIDE DEF q, o
    <3>2. l[p] = c[o] /\ r[p] = v[q] /\ v[q] = c[o]
      BY <1>4, <1>7, <1>9, <3>1
    <3>3. QED
      BY <3>2
  <2>4. QED
    BY <1>1, <1>2, <1>6, <2>1, <2>2, <2>3
<1>11. Len(l) = Len(r)
  BY <1>1, <1>2, <1>6, <1>8
<1>12. l = r
  BY <1>6, <1>8, <1>10, <1>11, SameSequence
<1>13. QED
  BY <1>12 DEF l, r

LEMMA AppendJoins ==
    ASSUME NEW a, IsSequence(a), NEW b, IsSequence(b), NEW e
    PROVE  a \o Append(b, e) = Append(a \o b, e)
<1>1. PICK S : a \in Seq(S)
  BY DEF IsSequence
<1>2. PICK T : b \in Seq(T)
  BY DEF IsSequence
<1> DEFINE U == S \union T \union {e}
<1>3. a \in Seq(U) /\ b \in Seq(U) /\ e \in U
  BY <1>1, <1>2
<1> HIDE DEF U
<1>4. Append(b, e) = b \o <<e>> /\ Append(a \o b, e) = (a \o b) \o <<e>>
  <2>1. a \o b \in Seq(U)
    BY <1>3
  <2> DEFINE ab == a \o b
  <2> HIDE DEF ab
  <2>2. Append(ab, e) = ab \o <<e>> /\ Append(b, e) = b \o <<e>>
    BY <1>3, <2>1 DEF ab
  <2>3. QED
    BY <2>2 DEF ab
<1>5. IsSequence(<<e>>)
  <2>1. <<e>> \in Seq({e})
    OBVIOUS
  <2>2. QED
    BY <2>1 DEF IsSequence
<1> DEFINE one == <<e>>
<1> HIDE DEF one
<1>6. (a \o b) \o one = a \o (b \o one)
  BY <1>5, JoinAssociates DEF one
<1>7. QED
  BY <1>4, <1>6 DEF one

LEMMA PrefixAppends ==
    ASSUME NEW s, IsSequence(s), NEW k \in Nat, k + 1 <= Len(s)
    PROVE  SubSeq(s, 1, k + 1) = Append(SubSeq(s, 1, k), s[k + 1])
<1>1. PICK S : s \in Seq(S)
  BY DEF IsSequence
<1>2. QED
  BY <1>1

-----------------------------------------------------------------------------
(* FlattenSeq *)

AllSequences(seqs) == IsSequence(seqs) /\ \A i \in 1 .. Len(seqs) : IsSequence(seqs[i])

\* g[i] joins the first i of some sequences.
Joins(g, seqs, n) == \A i \in 1 .. n : g[i] = IF i = 1 THEN seqs[i] ELSE g[i - 1] \o seqs[i]

LEMMA FlattenUnfold ==
    ASSUME NEW seqs, IsSequence(seqs), Len(seqs) # 0
    PROVE  \E g : Joins(g, seqs, Len(seqs)) /\ FlattenSeq(seqs) = g[Len(seqs)]
<1> DEFINE n == Len(seqs)
<1> DEFINE P(g) == g = [i \in 1 .. n |-> IF i = 1 THEN seqs[i] ELSE g[i - 1] \o seqs[i]]
<1> DEFINE f == CHOOSE g : P(g)
<1>1. n \in Nat
  BY SequenceParts
<1>2. P(f)
  <2>1. \E g : P(g)
    BY <1>1, FlattensExist
  <2> HIDE DEF P
  <2>2. QED
    BY <2>1
<1>3. FlattenSeq(seqs) = f[n]
  BY DEF FlattenSeq
<1> HIDE DEF f
<1>4. \A i \in 1 .. n : f[i] = IF i = 1 THEN seqs[i] ELSE f[i - 1] \o seqs[i]
  BY <1>2
<1> HIDE DEF P
<1>5. Joins(f, seqs, n)
  BY <1>4 DEF Joins
<1>6. QED
  BY <1>3, <1>5

LEMMA JoinsUnique ==
    ASSUME NEW n \in Nat, NEW g, NEW a, Joins(g, a, n), NEW h, NEW b, Joins(h, b, n),
           \A i \in 1 .. n : a[i] = b[i]
    PROVE  \A i \in 1 .. n : g[i] = h[i]
<1> DEFINE S == {k \in Nat : k + 1 <= n => g[k + 1] = h[k + 1]}
<1>1. 0 \in S
  <2>1. SUFFICES ASSUME 0 + 1 <= n PROVE g[0 + 1] = h[0 + 1]
    OBVIOUS
  <2>2. 1 \in 1 .. n /\ 0 + 1 = 1
    BY <2>1
  <2>3. QED
    BY <2>2 DEF Joins
<1>2. ASSUME NEW k \in S PROVE k + 1 \in S
  <2>1. k \in Nat
    OBVIOUS
  <2>2. SUFFICES ASSUME k + 1 + 1 <= n PROVE g[k + 1 + 1] = h[k + 1 + 1]
    BY <2>1
  <2> DEFINE j == k + 1
  <2> DEFINE i == k + 1 + 1
  <2>3. i \in 1 .. n /\ i # 1 /\ i - 1 = j /\ j <= n
    BY <2>1, <2>2
  <2>4. g[j] = h[j]
    BY <2>3
  <2> HIDE DEF i, j
  <2>5. g[i] = g[j] \o a[i] /\ h[i] = h[j] \o b[i]
    BY <2>3 DEF Joins
  <2>6. g[i] = h[i]
    BY <2>3, <2>4, <2>5
  <2>7. QED
    BY <2>6 DEF i
<1>3. S = Nat
  <2>1. S \in SUBSET Nat
    OBVIOUS
  <2> HIDE DEF S
  <2>2. QED
    BY <1>1, <1>2, <2>1, SetInduction
<1>4. ASSUME NEW i \in 1 .. n PROVE g[i] = h[i]
  <2>1. i - 1 \in Nat /\ i - 1 + 1 = i /\ i <= n
    OBVIOUS
  <2>2. i - 1 \in S
    BY <1>3, <2>1
  <2>3. QED
    BY <2>1, <2>2
<1>5. QED
  BY <1>4

\* What joins all of some sequences is their flattening.
LEMMA FlattenIs ==
    ASSUME NEW seqs, IsSequence(seqs), Len(seqs) # 0, NEW g, Joins(g, seqs, Len(seqs))
    PROVE  FlattenSeq(seqs) = g[Len(seqs)]
<1>1. Len(seqs) \in Nat
  BY SequenceParts
<1>2. PICK h : Joins(h, seqs, Len(seqs)) /\ FlattenSeq(seqs) = h[Len(seqs)]
  BY FlattenUnfold
<1>3. \A i \in 1 .. Len(seqs) : g[i] = h[i]
  BY <1>1, <1>2, JoinsUnique
<1>4. Len(seqs) \in 1 .. Len(seqs)
  BY <1>1
<1>5. QED
  BY <1>2, <1>3, <1>4

LEMMA FlattenNone ==
    ASSUME NEW s, IsSequence(s), Len(s) = 0
    PROVE  s = <<>> /\ FlattenSeq(s) = <<>>
<1>1. PICK S : s \in Seq(S)
  BY DEF IsSequence
<1>2. s = <<>>
  BY <1>1
<1>3. QED
  BY <1>2 DEF FlattenSeq

LEMMA FlattenAppend ==
    ASSUME NEW s, AllSequences(s), NEW x, IsSequence(x)
    PROVE  FlattenSeq(Append(s, x)) = FlattenSeq(s) \o x
<1> DEFINE t == Append(s, x)
<1> DEFINE n == Len(s)
<1>1. IsSequence(s) /\ n \in Nat
  BY SequenceParts DEF AllSequences
<1>2. IsSequence(t) /\ Len(t) = n + 1 /\ t[n + 1] = x /\ \A p \in 1 .. n : t[p] = s[p]
  BY <1>1, Appended
<1> HIDE DEF t
<1>3. Len(t) # 0
  BY <1>1, <1>2
<1>4. PICK g : Joins(g, t, n + 1) /\ FlattenSeq(t) = g[n + 1]
  BY <1>2, <1>3, FlattenUnfold
<1>5. CASE n = 0
  <2>1. s = <<>> /\ FlattenSeq(s) = <<>>
    BY <1>1, <1>5, FlattenNone
  <2>2. <<>> \o x = x
    BY JoinEmpty
  <2>3. 1 \in 1 .. n + 1 /\ n + 1 = 1
    BY <1>5
  <2>4. g[n + 1] = x
    BY <1>2, <1>4, <2>3 DEF Joins
  <2>5. QED
    BY <1>4, <2>1, <2>2, <2>4 DEF t
<1>6. CASE n # 0
  <2>1. \A i \in 1 .. n : i \in 1 .. n + 1
    BY <1>1
  <2>2. Joins(g, s, n)
    BY <1>2, <1>4, <2>1 DEF Joins
  <2>3. FlattenSeq(s) = g[n]
    BY <1>1, <1>6, <2>2, FlattenIs
  <2>4. n + 1 \in 1 .. n + 1 /\ n + 1 # 1 /\ n + 1 - 1 = n
    BY <1>1, <1>6
  <2>5. g[n + 1] = g[n] \o x
    <3> DEFINE i == n + 1
    <3>1. i \in 1 .. n + 1 /\ i # 1 /\ i - 1 = n /\ t[i] = x
      BY <1>2, <2>4
    <3> HIDE DEF i, n
    <3>2. g[i] = g[i - 1] \o t[i]
      BY <1>4, <3>1 DEF Joins
    <3>3. g[i] = g[n] \o x
      BY <3>1, <3>2
    <3>4. QED
      BY <3>3 DEF i
  <2>6. QED
    BY <1>4, <2>3, <2>5 DEF t
<1>7. QED
  BY <1>5, <1>6

LEMMA FlattenOne ==
    ASSUME NEW x, IsSequence(x)
    PROVE  FlattenSeq(<<x>>) = x
<1>1. AllSequences(<<>>) /\ IsSequence(<<>>) /\ Len(<<>>) = 0
  BY NoSequence DEF AllSequences
<1>2. FlattenSeq(<<>>) = <<>>
  BY <1>1, FlattenNone
<1>3. Append(<<>>, x) = <<x>>
  OBVIOUS
<1>4. FlattenSeq(Append(<<>>, x)) = FlattenSeq(<<>>) \o x
  BY <1>1, FlattenAppend
<1>5. QED
  BY <1>2, <1>3, <1>4, JoinEmpty

LEMMA PrefixOf ==
    ASSUME NEW s, AllSequences(s), NEW k \in Nat, k <= Len(s)
    PROVE  AllSequences(SubSeq(s, 1, k)) /\ Len(SubSeq(s, 1, k)) = k
<1> DEFINE u == SubSeq(s, 1, k)
<1>1. IsSequence(s) /\ 1 \in Nat \ {0} /\ 1 <= k + 1 /\ k - 1 + 1 = k
  BY DEF AllSequences
<1>2. IsSequence(u) /\ Len(u) = k - 1 + 1 /\ \A i \in 1 .. k - 1 + 1 : u[i] = s[1 + i - 1]
  BY <1>1, Slice
<1> HIDE DEF u
<1>3. \A i \in 1 .. k : 1 + i - 1 = i /\ i \in 1 .. Len(s)
  <2>1. Len(s) \in Nat
    BY <1>1, SequenceParts
  <2>2. QED
    BY <2>1
<1>4. \A i \in 1 .. Len(u) : IsSequence(u[i])
  BY <1>1, <1>2, <1>3 DEF AllSequences
<1>5. QED
  BY <1>1, <1>2, <1>4 DEF AllSequences, u

LEMMA JoinAll ==
    ASSUME NEW s, AllSequences(s), NEW t, AllSequences(t)
    PROVE  AllSequences(s \o t)
<1> DEFINE u == s \o t
<1>1. IsSequence(s) /\ IsSequence(t) /\ Len(s) \in Nat /\ Len(t) \in Nat
  BY SequenceParts DEF AllSequences
<1>2. /\ IsSequence(u) /\ Len(u) = Len(s) + Len(t) /\ \A p \in 1 .. Len(s) : u[p] = s[p]
      /\ \A p \in 1 .. Len(t) : u[Len(s) + p] = t[p]
  BY <1>1, Joined, Tailed
<1> HIDE DEF u
<1>3. ASSUME NEW i \in 1 .. Len(u) PROVE IsSequence(u[i])
  <2>1. CASE i <= Len(s)
    BY <1>1, <1>2, <2>1 DEF AllSequences
  <2>2. CASE i > Len(s)
    <3>1. i - Len(s) \in 1 .. Len(t) /\ Len(s) + (i - Len(s)) = i
      BY <1>1, <1>2, <2>2
    <3>2. u[i] = t[i - Len(s)]
      BY <1>2, <3>1
    <3>3. QED
      BY <3>1, <3>2 DEF AllSequences
  <2>3. QED
    BY <1>1, <1>2, <2>1, <2>2
<1>4. QED
  BY <1>2, <1>3 DEF AllSequences, u

LEMMA FlattenJoin ==
    ASSUME NEW s, AllSequences(s), NEW t, AllSequences(t)
    PROVE  FlattenSeq(s \o t) = FlattenSeq(s) \o FlattenSeq(t)
<1> DEFINE F(k) == FlattenSeq(SubSeq(t, 1, k))
<1> DEFINE S == {k \in Nat : k <= Len(t) =>
                   FlattenSeq(s \o SubSeq(t, 1, k)) = FlattenSeq(s) \o FlattenSeq(SubSeq(t, 1, k))}
<1>1. IsSequence(s) /\ IsSequence(t) /\ Len(t) \in Nat /\ \A i \in 1 .. Len(s) : IsSequence(s[i])
  BY SequenceParts DEF AllSequences
<1>2. IsSequence(FlattenSeq(s))
  BY <1>1, Flattened
<1>3. 0 \in S
  <2>1. 0 \in Nat /\ 0 <= Len(t)
    BY <1>1
  <2> DEFINE u == SubSeq(t, 1, 0)
  <2>2. AllSequences(u) /\ Len(u) = 0
    BY <2>1, PrefixOf
  <2> HIDE DEF u
  <2>3. u = <<>> /\ FlattenSeq(u) = <<>>
    BY <2>2, FlattenNone DEF AllSequences
  <2>4. s \o <<>> = s /\ FlattenSeq(s) \o <<>> = FlattenSeq(s)
    BY <1>1, <1>2, JoinEmpty
  <2>5. FlattenSeq(s \o u) = FlattenSeq(s) \o FlattenSeq(u)
    BY <2>3, <2>4
  <2>6. QED
    BY <2>5 DEF u
<1>4. ASSUME NEW k \in S PROVE k + 1 \in S
  <2>1. k \in Nat /\ (k <= Len(t) => FlattenSeq(s \o SubSeq(t, 1, k)) = FlattenSeq(s) \o FlattenSeq(SubSeq(t, 1, k)))
    OBVIOUS
  <2>2. SUFFICES ASSUME k + 1 <= Len(t)
                 PROVE  FlattenSeq(s \o SubSeq(t, 1, k + 1)) = FlattenSeq(s) \o FlattenSeq(SubSeq(t, 1, k + 1))
    BY <2>1
  <2> DEFINE u == SubSeq(t, 1, k)
  <2> DEFINE v == SubSeq(t, 1, k + 1)
  <2> DEFINE x == t[k + 1]
  <2>3. k <= Len(t) /\ k + 1 \in 1 .. Len(t)
    BY <1>1, <2>1, <2>2
  <2>4. FlattenSeq(s \o u) = FlattenSeq(s) \o FlattenSeq(u)
    BY <2>1, <2>3
  <2>5. v = Append(u, x)
    BY <1>1, <2>1, <2>2, PrefixAppends
  <2>6. AllSequences(u)
    BY <2>1, <2>3, PrefixOf
  <2>7. IsSequence(x)
    BY <2>3 DEF AllSequences
  <2> HIDE DEF u, v, x
  <2>8. FlattenSeq(v) = FlattenSeq(u) \o x
    BY <2>5, <2>6, <2>7, FlattenAppend
  <2>9. s \o v = Append(s \o u, x)
    BY <1>1, <2>5, <2>6, AppendJoins DEF AllSequences
  <2>10. FlattenSeq(s \o v) = FlattenSeq(s \o u) \o x
    <3>1. AllSequences(s \o u)
      BY <2>6, JoinAll
    <3>2. QED
      BY <2>7, <2>9, <3>1, FlattenAppend
  <2>11. IsSequence(FlattenSeq(u))
    BY <2>6, Flattened DEF AllSequences
  <2>12. (FlattenSeq(s) \o FlattenSeq(u)) \o x = FlattenSeq(s) \o (FlattenSeq(u) \o x)
    <3> DEFINE a == FlattenSeq(s)
    <3> DEFINE b == FlattenSeq(u)
    <3>1. IsSequence(a) /\ IsSequence(b)
      BY <1>2, <2>11
    <3> HIDE DEF a, b
    <3>2. (a \o b) \o x = a \o (b \o x)
      BY <2>7, <3>1, JoinAssociates
    <3>3. QED
      BY <3>2 DEF a, b
  <2>13. FlattenSeq(s \o v) = FlattenSeq(s) \o FlattenSeq(v)
    BY <2>4, <2>8, <2>10, <2>12
  <2>14. QED
    BY <2>13 DEF v
<1>5. S = Nat
  <2>1. S \in SUBSET Nat
    OBVIOUS
  <2> HIDE DEF S
  <2>2. QED
    BY <1>3, <1>4, <2>1, SetInduction
<1>6. Len(t) \in S
  BY <1>1, <1>5
<1>7. SubSeq(t, 1, Len(t)) = t
  <2>1. PICK T : t \in Seq(T)
    BY <1>1 DEF IsSequence
  <2>2. QED
    BY <2>1
<1>8. Len(t) <= Len(t)
  BY <1>1
<1>9. QED
  BY <1>6, <1>7, <1>8

-----------------------------------------------------------------------------
(* Rows encoded and decoded *)

Single(e) == <<e>>

LEMMA SingleIs ==
    ASSUME NEW e
    PROVE  /\ IsSequence(Single(e)) /\ Len(Single(e)) = 1 /\ Single(e)[1] = e
           /\ DOMAIN Single(e) = 1 .. 1
<1>1. Single(e) \in Seq({e})
  BY DEF Single
<1>2. Len(Single(e)) = 1 /\ Single(e)[1] = e /\ DOMAIN Single(e) = 1 .. 1
  BY DEF Single
<1>3. QED
  BY <1>1, <1>2 DEF IsSequence

LEMMA LengthOf ==
    ASSUME NEW s, IsSequence(s), NEW n \in Nat, DOMAIN s = 1 .. n
    PROVE  Len(s) = n
<1> DEFINE m == Len(s)
<1>1. m \in Nat /\ 1 .. m = 1 .. n
  BY SequenceParts
<1> HIDE DEF m
<1>2. (m \in 1 .. m \/ m = 0) /\ (n \in 1 .. n \/ n = 0)
  BY <1>1
<1>3. m <= n /\ n <= m
  BY <1>1, <1>2
<1>4. m = n
  BY <1>1, <1>3
<1>5. QED
  BY <1>4 DEF m

\* The row that a cell starts, if any.
Started(cell) == IF cell.part = 1 THEN <<cell.of>> ELSE <<>>
Picked(cells) == [i \in DOMAIN cells |-> Started(cells[i])]

LEMMA StartedIs == ASSUME NEW cell PROVE IsSequence(Started(cell))
<1>1. CASE cell.part = 1
  <2>1. Started(cell) = Single(cell.of)
    BY <1>1 DEF Started, Single
  <2>2. QED
    BY <2>1, SingleIs
<1>2. CASE cell.part # 1
  BY <1>2, NoSequence DEF Started
<1>3. QED
  BY <1>1, <1>2

LEMMA PickedAll ==
    ASSUME NEW a, IsSequence(a)
    PROVE  /\ AllSequences(Picked(a)) /\ Len(Picked(a)) = Len(a)
           /\ \A i \in 1 .. Len(a) : Picked(a)[i] = Started(a[i])
           /\ DecodeRows(a) = FlattenSeq(Picked(a))
<1> DEFINE p == Picked(a)
<1>1. Len(a) \in Nat /\ DOMAIN a = 1 .. Len(a)
  BY SequenceParts
<1>2. DOMAIN p = 1 .. Len(a) /\ \A i \in 1 .. Len(a) : p[i] = Started(a[i])
  BY <1>1 DEF Picked
<1>3. IsOver(p, Len(a))
  BY <1>1 DEF Picked, IsOver
<1>4. DecodeRows(a) = FlattenSeq(p)
  BY DEF DecodeRows, Picked, Started
<1> HIDE DEF p
<1>5. IsSequence(p)
  BY <1>1, <1>3, SequenceOf
<1>6. Len(p) = Len(a)
  BY <1>1, <1>2, <1>5, LengthOf
<1>7. AllSequences(p)
  BY <1>2, <1>5, <1>6, StartedIs DEF AllSequences
<1>8. QED
  BY <1>2, <1>4, <1>6, <1>7 DEF p

LEMMA DecodeJoin ==
    ASSUME NEW a, IsSequence(a), NEW b, IsSequence(b)
    PROVE  DecodeRows(a \o b) = DecodeRows(a) \o DecodeRows(b)
<1> DEFINE c == a \o b
<1> DEFINE d == Picked(a) \o Picked(b)
<1>1. Len(a) \in Nat /\ Len(b) \in Nat
  BY SequenceParts
<1>2. /\ IsSequence(c) /\ Len(c) = Len(a) + Len(b) /\ \A p \in 1 .. Len(a) : c[p] = a[p]
      /\ \A p \in 1 .. Len(b) : c[Len(a) + p] = b[p]
  BY Joined, Tailed
<1>3. /\ AllSequences(Picked(a)) /\ Len(Picked(a)) = Len(a)
      /\ \A i \in 1 .. Len(a) : Picked(a)[i] = Started(a[i])
  BY PickedAll
<1>4. /\ AllSequences(Picked(b)) /\ Len(Picked(b)) = Len(b)
      /\ \A i \in 1 .. Len(b) : Picked(b)[i] = Started(b[i])
  BY PickedAll
<1>5. /\ IsSequence(d) /\ Len(d) = Len(a) + Len(b)
      /\ \A i \in 1 .. Len(a) : d[i] = Started(a[i])
      /\ \A i \in 1 .. Len(b) : d[Len(a) + i] = Started(b[i])
  <2>1. IsSequence(Picked(a)) /\ IsSequence(Picked(b))
    BY <1>3, <1>4 DEF AllSequences
  <2>2. IsSequence(d) /\ Len(d) = Len(a) + Len(b)
        /\ \A p \in 1 .. Len(a) : d[p] = Picked(a)[p]
    BY <1>3, <1>4, <2>1, Joined
  <2>3. \A p \in 1 .. Len(b) : d[Len(a) + p] = Picked(b)[p]
    BY <1>3, <1>4, <2>1, Tailed
  <2> HIDE DEF d
  <2>4. QED
    BY <1>3, <1>4, <2>2, <2>3
<1> HIDE DEF c, d
<1>6. /\ AllSequences(Picked(c)) /\ Len(Picked(c)) = Len(c)
      /\ \A i \in 1 .. Len(c) : Picked(c)[i] = Started(c[i])
      /\ DecodeRows(c) = FlattenSeq(Picked(c))
  BY <1>2, PickedAll
<1>7. ASSUME NEW i \in 1 .. Len(c) PROVE Picked(c)[i] = d[i]
  <2>1. CASE i <= Len(a)
    <3>1. i \in 1 .. Len(a)
      BY <1>1, <2>1
    <3>2. QED
      BY <1>2, <1>5, <1>6, <3>1
  <2>2. CASE i > Len(a)
    <3> DEFINE j == i - Len(a)
    <3>1. j \in 1 .. Len(b) /\ Len(a) + j = i
      BY <1>1, <1>2, <2>2
    <3> HIDE DEF j
    <3>2. c[i] = b[j] /\ d[i] = Started(b[j])
      BY <1>2, <1>5, <3>1
    <3>3. QED
      BY <1>6, <3>2
  <2>3. QED
    BY <1>1, <1>2, <2>1, <2>2
<1>8. Picked(c) = d
  <2>1. IsSequence(Picked(c)) /\ Len(Picked(c)) = Len(d)
    BY <1>2, <1>5, <1>6 DEF AllSequences
  <2> DEFINE e == Picked(c)
  <2>2. \A i \in 1 .. Len(e) : e[i] = d[i]
    BY <1>6, <1>7
  <2> HIDE DEF e
  <2>3. e = d
    BY <1>5, <2>1, <2>2, SameSequence DEF e
  <2>4. QED
    BY <2>3 DEF e
<1>9. FlattenSeq(d) = FlattenSeq(Picked(a)) \o FlattenSeq(Picked(b))
  BY <1>3, <1>4, FlattenJoin DEF d
<1>10. DecodeRows(a) = FlattenSeq(Picked(a)) /\ DecodeRows(b) = FlattenSeq(Picked(b))
  BY PickedAll
<1>11. QED
  BY <1>6, <1>8, <1>9, <1>10 DEF c

LEMMA DecodeCount ==
    ASSUME NEW n
    PROVE  DecodeRows(Single(CountCell(n))) = <<>>
<1> DEFINE c == Single(CountCell(n))
<1>1. IsSequence(c) /\ Len(c) = 1 /\ c[1] = CountCell(n)
  BY SingleIs
<1> HIDE DEF c
<1>2. /\ AllSequences(Picked(c)) /\ Len(Picked(c)) = 1 /\ Picked(c)[1] = Started(c[1])
      /\ DecodeRows(c) = FlattenSeq(Picked(c))
  BY <1>1, PickedAll
<1>3. Started(c[1]) = <<>>
  BY <1>1 DEF Started, CountCell
<1> DEFINE p == Picked(c)
<1> HIDE DEF p
<1>4. Joins(p, p, 1)
  <2>1. \A i \in 1 .. 1 : i = 1
    OBVIOUS
  <2>2. QED
    BY <2>1 DEF Joins
<1>5. FlattenSeq(p) = p[1]
  <2>1. IsSequence(p) /\ Len(p) = 1
    BY <1>2 DEF p, AllSequences
  <2>2. Len(p) # 0 /\ Joins(p, p, Len(p))
    BY <1>4, <2>1
  <2>3. FlattenSeq(p) = p[Len(p)]
    BY <2>1, <2>2, FlattenIs
  <2>4. QED
    BY <2>1, <2>3
<1>6. QED
  BY <1>2, <1>3, <1>5 DEF p, c

LEMMA RowCellsOne ==
    ASSUME NEW row
    PROVE  RowCells(row) \in Nat /\ RowCells(row) >= 1
<1>1. CellsOf(row, FieldCount) \in Nat
  BY FieldsAssumption, CellsCounted
<1>2. QED
  BY <1>1 DEF RowCells

LEMMA DecodeRow ==
    ASSUME NEW row
    PROVE  DecodeRows(EncodeRow(row)) = Single(row)
<1> DEFINE cells == EncodeRow(row)
<1> DEFINE n == RowCells(row)
<1>1. n \in Nat /\ n >= 1
  BY RowCellsOne
<1>2. DOMAIN cells = 1 .. n /\ \A i \in 1 .. n : cells[i].part = i /\ cells[i].of = row
  BY DEF EncodeRow
<1>3. IsSequence(cells)
  BY RowEncoded
<1> HIDE DEF cells
<1>4. Len(cells) \in Nat /\ DOMAIN cells = 1 .. Len(cells)
  BY <1>3, SequenceParts
<1> HIDE DEF n
<1>5. Len(cells) = n
  BY <1>1, <1>2, <1>3, LengthOf
<1>6. /\ AllSequences(Picked(cells)) /\ Len(Picked(cells)) = n
      /\ \A i \in 1 .. n : Picked(cells)[i] = Started(cells[i])
      /\ DecodeRows(cells) = FlattenSeq(Picked(cells))
  BY <1>3, <1>5, PickedAll
<1> DEFINE p == Picked(cells)
<1> DEFINE g == [i \in 1 .. n |-> Single(row)]
<1>7. \A i \in 1 .. n : p[i] = IF i = 1 THEN Single(row) ELSE <<>>
  BY <1>2, <1>6 DEF Started, Single
<1>8. \A i \in 1 .. n : g[i] = Single(row)
  OBVIOUS
<1> HIDE DEF p, g
<1>9. Single(row) \o <<>> = Single(row)
  BY SingleIs, JoinEmpty
<1>10. ASSUME NEW i \in 1 .. n PROVE g[i] = IF i = 1 THEN p[i] ELSE g[i - 1] \o p[i]
  <2>1. CASE i = 1
    BY <1>7, <1>8, <2>1
  <2>2. CASE i # 1
    <3>1. i - 1 \in 1 .. n
      BY <1>1, <2>2
    <3>2. g[i - 1] = Single(row) /\ p[i] = <<>>
      BY <1>7, <1>8, <2>2, <3>1
    <3>3. QED
      BY <1>8, <1>9, <2>2, <3>2
  <2>3. QED
    BY <2>1, <2>2
<1>11. Joins(g, p, n)
  BY <1>10 DEF Joins
<1>12. IsSequence(p) /\ Len(p) = n /\ n # 0
  BY <1>1, <1>6 DEF AllSequences, p
<1>13. FlattenSeq(p) = g[n]
  BY <1>11, <1>12, FlattenIs
<1>14. n \in 1 .. n
  BY <1>1
<1>15. QED
  BY <1>6, <1>8, <1>13, <1>14 DEF p, cells

\* The rows of a table, encoded one after the other.
Encoded(table) == [r \in DOMAIN table |-> EncodeRow(table[r])]
Body(table) == FlattenSeq(Encoded(table))

LEMMA EncodedAll ==
    ASSUME NEW table, IsSequence(table)
    PROVE  /\ AllSequences(Encoded(table)) /\ Len(Encoded(table)) = Len(table)
           /\ \A r \in 1 .. Len(table) : Encoded(table)[r] = EncodeRow(table[r])
           /\ IsSequence(Body(table))
<1> DEFINE e == Encoded(table)
<1>1. Len(table) \in Nat /\ DOMAIN table = 1 .. Len(table)
  BY SequenceParts
<1>2. DOMAIN e = 1 .. Len(table) /\ \A r \in 1 .. Len(table) : e[r] = EncodeRow(table[r])
  BY <1>1 DEF Encoded
<1>3. IsOver(e, Len(table))
  BY <1>1 DEF Encoded, IsOver
<1> HIDE DEF e
<1>4. IsSequence(e)
  BY <1>1, <1>3, SequenceOf
<1>5. Len(e) = Len(table)
  BY <1>1, <1>2, <1>4, LengthOf
<1>6. AllSequences(e)
  BY <1>2, <1>4, <1>5, RowEncoded DEF AllSequences
<1>7. IsSequence(FlattenSeq(e))
  BY <1>6, Flattened DEF AllSequences
<1>8. QED
  BY <1>2, <1>5, <1>6, <1>7 DEF e, Body

LEMMA BodyAppend ==
    ASSUME NEW table, IsSequence(table), NEW row
    PROVE  Body(Append(table, row)) = Body(table) \o EncodeRow(row)
<1> DEFINE t == Append(table, row)
<1> DEFINE n == Len(table)
<1> DEFINE d == Append(Encoded(table), EncodeRow(row))
<1> DEFINE e == Encoded(t)
<1>1. n \in Nat
  BY SequenceParts
<1>2. IsSequence(t) /\ Len(t) = n + 1 /\ t[n + 1] = row /\ \A p \in 1 .. n : t[p] = table[p]
  BY Appended
<1>3. /\ AllSequences(Encoded(table)) /\ Len(Encoded(table)) = n
      /\ \A r \in 1 .. n : Encoded(table)[r] = EncodeRow(table[r])
  BY EncodedAll
<1> HIDE DEF t
<1>4. /\ AllSequences(e) /\ Len(e) = n + 1
      /\ \A r \in 1 .. n + 1 : e[r] = EncodeRow(t[r])
  BY <1>2, EncodedAll
<1>5. /\ IsSequence(d) /\ Len(d) = n + 1 /\ d[n + 1] = EncodeRow(row)
      /\ \A r \in 1 .. n : d[r] = Encoded(table)[r]
  <2>1. IsSequence(Encoded(table))
    BY <1>3 DEF AllSequences
  <2>2. QED
    BY <1>3, <2>1, Appended
<1> HIDE DEF d, e
<1>6. \A r \in 1 .. n + 1 : e[r] = d[r]
  <2>1. SUFFICES ASSUME NEW r \in 1 .. n + 1 PROVE e[r] = d[r]
    OBVIOUS
  <2>2. CASE r = n + 1
    BY <1>2, <1>4, <1>5, <2>2
  <2>3. CASE r # n + 1
    <3>1. r \in 1 .. n
      BY <1>1, <2>3
    <3>2. QED
      BY <1>2, <1>3, <1>4, <1>5, <3>1
  <2>4. QED
    BY <2>2, <2>3
<1>7. e = d
  <2>1. IsSequence(e) /\ Len(e) = Len(d)
    BY <1>4, <1>5 DEF AllSequences
  <2>2. \A r \in 1 .. Len(e) : e[r] = d[r]
    BY <1>4, <1>6
  <2>3. QED
    BY <1>5, <2>1, <2>2, SameSequence
<1>8. FlattenSeq(d) = FlattenSeq(Encoded(table)) \o EncodeRow(row)
  BY <1>3, RowEncoded, FlattenAppend DEF d
<1>9. QED
  BY <1>7, <1>8 DEF Body, e, t

LEMMA DecodeBody ==
    ASSUME NEW table, IsSequence(table)
    PROVE  DecodeRows(Body(table)) = table
<1> DEFINE S == {k \in Nat : k <= Len(table) =>
                   DecodeRows(Body(SubSeq(table, 1, k))) = SubSeq(table, 1, k)}
<1>1. Len(table) \in Nat
  BY SequenceParts
<1>2. \A k \in Nat : k <= Len(table) => IsSequence(SubSeq(table, 1, k)) /\ Len(SubSeq(table, 1, k)) = k
  <2>1. SUFFICES ASSUME NEW k \in Nat, k <= Len(table)
                 PROVE  IsSequence(SubSeq(table, 1, k)) /\ Len(SubSeq(table, 1, k)) = k
    OBVIOUS
  <2>2. 1 \in Nat \ {0} /\ 1 <= k + 1 /\ k - 1 + 1 = k
    OBVIOUS
  <2>3. QED
    BY <2>1, <2>2, Slice
<1>3. 0 \in S
  <2> DEFINE u == SubSeq(table, 1, 0)
  <2>1. IsSequence(u) /\ Len(u) = 0
    BY <1>1, <1>2
  <2> HIDE DEF u
  <2>2. u = <<>>
    BY <2>1, FlattenNone
  <2>3. AllSequences(Encoded(u)) /\ Len(Encoded(u)) = 0
    BY <2>1, EncodedAll
  <2>4. Body(u) = <<>>
    BY <2>3, FlattenNone DEF Body, AllSequences
  <2>5. DecodeRows(<<>>) = <<>>
    <3>1. IsSequence(<<>>) /\ Len(<<>>) = 0
      BY NoSequence
    <3>2. AllSequences(Picked(<<>>)) /\ Len(Picked(<<>>)) = 0 /\ DecodeRows(<<>>) = FlattenSeq(Picked(<<>>))
      BY <3>1, PickedAll
    <3>3. QED
      BY <3>2, FlattenNone DEF AllSequences
  <2>6. DecodeRows(Body(u)) = u
    BY <2>2, <2>4, <2>5
  <2>7. QED
    BY <2>6 DEF u
<1>4. ASSUME NEW k \in S PROVE k + 1 \in S
  <2>1. k \in Nat /\ (k <= Len(table) => DecodeRows(Body(SubSeq(table, 1, k))) = SubSeq(table, 1, k))
    OBVIOUS
  <2>2. SUFFICES ASSUME k + 1 <= Len(table)
                 PROVE  DecodeRows(Body(SubSeq(table, 1, k + 1))) = SubSeq(table, 1, k + 1)
    BY <2>1
  <2> DEFINE u == SubSeq(table, 1, k)
  <2> DEFINE v == SubSeq(table, 1, k + 1)
  <2> DEFINE row == table[k + 1]
  <2>3. k <= Len(table)
    BY <1>1, <2>1, <2>2
  <2>4. DecodeRows(Body(u)) = u /\ IsSequence(u)
    BY <1>2, <2>1, <2>3
  <2>5. v = Append(u, row)
    BY <2>1, <2>2, PrefixAppends
  <2> HIDE DEF u, v, row
  <2>6. Body(v) = Body(u) \o EncodeRow(row)
    BY <2>4, <2>5, BodyAppend
  <2> DEFINE b == Body(u)
  <2> DEFINE c == EncodeRow(row)
  <2>7. IsSequence(b) /\ IsSequence(c)
    BY <2>4, EncodedAll, RowEncoded
  <2>8. DecodeRows(c) = Single(row)
    BY DecodeRow
  <2> HIDE DEF b, c
  <2>9. DecodeRows(b \o c) = DecodeRows(b) \o DecodeRows(c)
    BY <2>7, DecodeJoin
  <2>10. u \o Single(row) = Append(u, row)
    <3>1. PICK T : u \in Seq(T)
      BY <2>4 DEF IsSequence
    <3>2. QED
      BY <3>1 DEF Single
  <2>11. DecodeRows(Body(v)) = v
    BY <2>4, <2>5, <2>6, <2>8, <2>9, <2>10 DEF b, c
  <2>12. QED
    BY <2>11 DEF v
<1>5. S = Nat
  <2>1. S \in SUBSET Nat
    OBVIOUS
  <2> HIDE DEF S
  <2>2. QED
    BY <1>3, <1>4, <2>1, SetInduction
<1>6. Len(table) \in S
  BY <1>1, <1>5
<1>7. SubSeq(table, 1, Len(table)) = table
  <2>1. PICK T : table \in Seq(T)
    BY DEF IsSequence
  <2>2. QED
    BY <2>1
<1>8. Len(table) <= Len(table)
  BY <1>1
<1>9. QED
  BY <1>6, <1>7, <1>8

\* A table's stream decodes to the table.
LEMMA DecodeStream ==
    ASSUME NEW table, IsSequence(table)
    PROVE  /\ RowStream(table) = Single(CountCell(Len(table))) \o Body(table)
           /\ DecodeRows(RowStream(table)) = table
<1> DEFINE c == Single(CountCell(Len(table)))
<1> DEFINE b == Body(table)
<1>1. RowStream(table) = c \o b
  BY DEF RowStream, Body, Encoded, Single
<1>2. IsSequence(c) /\ IsSequence(b)
  BY SingleIs, EncodedAll
<1>3. DecodeRows(c) = <<>> /\ DecodeRows(b) = table
  BY DecodeCount, DecodeBody
<1> HIDE DEF c, b
<1>4. DecodeRows(c \o b) = DecodeRows(c) \o DecodeRows(b)
  BY <1>2, DecodeJoin
<1>5. <<>> \o table = table
  BY JoinEmpty
<1>6. QED
  BY <1>1, <1>3, <1>4, <1>5 DEF c, b

\* A row more changes the count and adds the row's cells.
LEMMA StreamAppend ==
    ASSUME NEW table, IsSequence(table), NEW row
    PROVE  RowStream(Append(table, row)) =
               ReplaceAt(RowStream(table), 1, CountCell(Len(table) + 1)) \o EncodeRow(row)
<1> DEFINE n == Len(table)
<1> DEFINE t == Append(table, row)
<1> DEFINE c == Single(CountCell(n))
<1> DEFINE d == Single(CountCell(n + 1))
<1> DEFINE b == Body(table)
<1> DEFINE x == EncodeRow(row)
<1>1. IsSequence(t) /\ Len(t) = n + 1
  BY Appended
<1>2. RowStream(table) = c \o b
  BY DecodeStream
<1>3. RowStream(t) = d \o Body(t)
  <2> HIDE DEF t
  <2>1. RowStream(t) = Single(CountCell(Len(t))) \o Body(t)
    BY <1>1, DecodeStream
  <2>2. QED
    BY <1>1, <2>1
<1>4. Body(t) = b \o x
  BY BodyAppend
<1>5. IsSequence(c) /\ IsSequence(d) /\ IsSequence(b) /\ IsSequence(x)
      /\ Len(c) = 1 /\ Len(d) = 1 /\ d[1] = CountCell(n + 1)
  BY SingleIs, EncodedAll, RowEncoded
<1> DEFINE v == CountCell(n + 1)
<1> HIDE DEF c, d, b, x, t, v
<1>6. d \o (b \o x) = (d \o b) \o x
  BY <1>5, JoinAssociates
<1>7. ReplaceAt(c \o b, 1, v) = d \o b
  <2> DEFINE s == c \o b
  <2> DEFINE r == ReplaceAt(c \o b, 1, v)
  <2> DEFINE e == d \o b
  <2>0. Len(b) \in Nat
    BY <1>5, SequenceParts
  <2>1. /\ IsSequence(s) /\ Len(s) = 1 + Len(b)
        /\ \A p \in 1 .. Len(b) : s[1 + p] = b[p]
    <3>1. \A p \in 1 .. Len(b) : s[Len(c) + p] = b[p]
      BY <1>5, Tailed
    <3>2. IsSequence(s) /\ Len(s) = Len(c) + Len(b)
      BY <1>5, Joined
    <3> HIDE DEF s
    <3>3. QED
      BY <1>5, <3>1, <3>2
  <2>2. /\ IsSequence(e) /\ Len(e) = 1 + Len(b) /\ e[1] = v
        /\ \A p \in 1 .. Len(b) : e[1 + p] = b[p]
    <3>1. \A p \in 1 .. Len(b) : e[Len(d) + p] = b[p]
      BY <1>5, Tailed
    <3>2. IsSequence(e) /\ Len(e) = Len(d) + Len(b) /\ \A p \in 1 .. Len(d) : e[p] = d[p]
      BY <1>5, Joined
    <3>3. 1 \in 1 .. Len(d)
      BY <1>5
    <3> HIDE DEF e
    <3>4. e[1] = v
      BY <1>5, <3>2, <3>3 DEF v
    <3>5. QED
      BY <1>5, <3>1, <3>2, <3>4
  <2>3. IsEdit(s, 1, v, r)
    BY DEF IsEdit, ReplaceAt
  <2> HIDE DEF s, r, e
  <2>4. /\ IsSequence(r) /\ Len(r) = 1 + Len(b) /\ r[1] = v
        /\ \A p \in 1 .. 1 + Len(b) : p # 1 => r[p] = s[p]
    <3>1. 1 \in 1 .. Len(s)
      BY <2>0, <2>1
    <3>2. QED
      BY <2>1, <2>3, <3>1, Edited
  <2>5. \A p \in 1 .. Len(r) : r[p] = e[p]
    <3>1. SUFFICES ASSUME NEW p \in 1 .. 1 + Len(b) PROVE r[p] = e[p]
      BY <2>4
    <3>2. CASE p = 1
      BY <2>2, <2>4, <3>2
    <3>3. CASE p # 1
      <4> DEFINE q == p - 1
      <4>1. q \in 1 .. Len(b) /\ 1 + q = p
        BY <2>0, <3>3
      <4> HIDE DEF q
      <4>2. QED
        BY <2>1, <2>2, <2>4, <3>3, <4>1
    <3>4. QED
      BY <3>2, <3>3
  <2>6. r = e
    <3>1. Len(r) = Len(e)
      BY <2>2, <2>4
    <3>2. QED
      BY <2>2, <2>4, <2>5, <3>1, SameSequence
  <2>7. QED
    BY <2>6 DEF r, e
<1>8. QED
  BY <1>2, <1>3, <1>4, <1>6, <1>7 DEF t, v, x

-----------------------------------------------------------------------------
(* The chain of the row pages *)

LEMMA FrontLast ==
    ASSUME NEW s, IsSequence(s), NEW e
    PROVE  Front(Append(s, e)) = s /\ Last(Append(s, e)) = e
<1>1. PICK S : s \in Seq(S)
  BY DEF IsSequence
<1> DEFINE T == S \union {e}
<1>2. s \in Seq(T) /\ e \in T
  BY <1>1
<1> HIDE DEF T
<1>3. QED
  BY <1>2 DEF Front, Last

\* The rows lie on the pages "ids", which are linked and grow from page 3 on.
RowIds(image, ids) ==
    /\ IsSequence(ids) /\ Len(ids) >= 1 /\ ids[1] = 3
    /\ \A i \in 1 .. Len(ids) :
          /\ ids[i] \in 1 .. Len(image) /\ IsSequence(image[ids[i]].cells)
          /\ image[ids[i]] = RowPage(IF i < Len(ids) THEN ids[i + 1] ELSE NoPage, image[ids[i]].cells)
    /\ \A i \in 1 .. Len(ids) - 1 : ids[i] < ids[i + 1]
    /\ Len(image[3].cells) >= 1

LEMMA IdsGrow ==
    ASSUME NEW image, IsSequence(image), NEW ids, RowIds(image, ids)
    PROVE  /\ \A i \in 1 .. Len(ids) : i <= ids[i]
           /\ \A i, j \in 1 .. Len(ids) : i < j => ids[i] < ids[j]
           /\ Len(ids) <= Len(image) /\ Len(ids) \in Nat /\ Len(image) \in Nat
<1> DEFINE m == Len(ids)
<1> DEFINE n == Len(image)
<1>1. m \in Nat /\ n \in Nat /\ m >= 1
  BY SequenceParts DEF RowIds
<1>2. /\ ids[1] = 3
      /\ \A i \in 1 .. m : ids[i] \in 1 .. n
      /\ \A i \in 1 .. m - 1 : ids[i] < ids[i + 1]
  BY DEF RowIds
<1> HIDE DEF m, n
<1>3. \A i \in 1 .. m : ids[i] \in Nat
  BY <1>1, <1>2
<1> DEFINE S == {k \in Nat : \A i \in 1 .. m : i + k + 1 <= m => ids[i] < ids[i + k + 1]}
<1>4. 0 \in S
  <2>1. SUFFICES ASSUME NEW i \in 1 .. m, i + 0 + 1 <= m PROVE ids[i] < ids[i + 0 + 1]
    OBVIOUS
  <2>2. i \in 1 .. m - 1 /\ i + 0 + 1 = i + 1
    BY <1>1, <2>1
  <2>3. QED
    BY <1>2, <2>2
<1>5. ASSUME NEW k \in S PROVE k + 1 \in S
  <2>1. k \in Nat
    OBVIOUS
  <2>2. SUFFICES ASSUME NEW i \in 1 .. m, i + (k + 1) + 1 <= m
                 PROVE  ids[i] < ids[i + (k + 1) + 1]
    BY <2>1
  <2> DEFINE j == i + k + 1
  <2>3. j \in 1 .. m - 1 /\ j <= m /\ i + (k + 1) + 1 = j + 1
    BY <1>1, <2>1, <2>2
  <2>4. ids[i] < ids[j]
    BY <2>3
  <2> HIDE DEF j
  <2>5. ids[j] < ids[j + 1] /\ j \in 1 .. m /\ j + 1 \in 1 .. m
    BY <1>1, <1>2, <2>3
  <2>6. ids[i] \in Nat /\ ids[j] \in Nat /\ ids[j + 1] \in Nat
    BY <1>3, <2>5
  <2>7. ids[i] < ids[j + 1]
    BY <2>4, <2>5, <2>6
  <2>8. QED
    BY <2>3, <2>7
<1>6. S = Nat
  <2>1. S \in SUBSET Nat
    OBVIOUS
  <2> HIDE DEF S
  <2>2. QED
    BY <1>4, <1>5, <2>1, SetInduction
<1>7. ASSUME NEW i \in 1 .. m, NEW j \in 1 .. m, i < j PROVE ids[i] < ids[j]
  <2>1. j - i - 1 \in Nat /\ i + (j - i - 1) + 1 = j /\ j <= m
    BY <1>1, <1>7
  <2>2. j - i - 1 \in S
    BY <1>6, <2>1
  <2>3. QED
    BY <2>1, <2>2
<1> DEFINE R == {k \in Nat : k + 1 <= m => k + 1 <= ids[k + 1]}
<1>8. 0 \in R
  BY <1>2
<1>9. ASSUME NEW k \in R PROVE k + 1 \in R
  <2>1. k \in Nat
    OBVIOUS
  <2>2. SUFFICES ASSUME k + 1 + 1 <= m PROVE k + 1 + 1 <= ids[k + 1 + 1]
    BY <2>1
  <2> DEFINE j == k + 1
  <2>3. j \in 1 .. m - 1 /\ j \in 1 .. m /\ j + 1 \in 1 .. m /\ j <= m /\ k + 1 + 1 = j + 1
    BY <1>1, <2>1, <2>2
  <2>4. j <= ids[j]
    BY <2>3
  <2> HIDE DEF j
  <2>5. ids[j] < ids[j + 1] /\ ids[j] \in Nat /\ ids[j + 1] \in Nat
    BY <1>2, <1>3, <2>3
  <2>6. j + 1 <= ids[j + 1]
    BY <1>1, <2>3, <2>4, <2>5
  <2>7. QED
    BY <2>3, <2>6
<1>10. R = Nat
  <2>1. R \in SUBSET Nat
    OBVIOUS
  <2> HIDE DEF R
  <2>2. QED
    BY <1>8, <1>9, <2>1, SetInduction
<1>11. ASSUME NEW i \in 1 .. m PROVE i <= ids[i]
  <2>1. i - 1 \in Nat /\ i - 1 + 1 = i /\ i <= m
    BY <1>1
  <2>2. i - 1 \in R
    BY <1>10, <2>1
  <2>3. QED
    BY <2>1, <2>2
<1>12. m <= n
  <2>1. m \in 1 .. m
    BY <1>1
  <2>2. m <= ids[m] /\ ids[m] \in 1 .. n
    BY <1>2, <1>11, <2>1
  <2>3. QED
    BY <1>1, <2>2
<1>13. QED
  BY <1>1, <1>7, <1>11, <1>12 DEF m, n

\* read_chain after k pages.
Chained(image, head, type, k, before) ==
    IF k = 0 THEN <<head>>
    ELSE IF Last(before) \notin DOMAIN image \ ToSet(Front(before)) \/ image[Last(before)].type # type
         THEN before ELSE Append(before, image[Last(before)].next)
ChainedAll(g, image, head, type, n) ==
    g = [k \in 0 .. n |-> Chained(image, head, type, k, g[k - 1])]

LEMMA ChainedExist ==
    ASSUME NEW image, NEW head, NEW type, NEW n \in Nat
    PROVE  \E g : ChainedAll(g, image, head, type, n)
<1> DEFINE P(g, m) == g = [k \in 0 .. m |-> Chained(image, head, type, k, g[k - 1])]
<1> DEFINE S == {m \in Nat : \E g : P(g, m)}
<1>1. 0 \in S
  <2> DEFINE g == [k \in 0 .. 0 |-> Chained(image, head, type, 0, 0)]
  <2>1. Chained(image, head, type, 0, g[0 - 1]) = Chained(image, head, type, 0, 0)
    BY DEF Chained
  <2>2. P(g, 0)
    BY <2>1
  <2>3. QED
    BY <2>2
<1>2. ASSUME NEW m \in S PROVE m + 1 \in S
  <2>1. m \in Nat
    OBVIOUS
  <2>2. PICK f : P(f, m)
    OBVIOUS
  <2> DEFINE v == Chained(image, head, type, m + 1, f[m])
  <2> HIDE DEF v
  <2>3. PICK g : Extends(g, f, m, v)
    BY <2>1, Extended
  <2>4. /\ g = [k \in 0 .. m + 1 |-> g[k]] /\ g[m + 1] = v
        /\ \A k \in 0 .. m : g[k] = f[k]
    BY <2>3 DEF Extends
  <2>5. ASSUME NEW k \in 0 .. m + 1 PROVE g[k] = Chained(image, head, type, k, g[k - 1])
    <3>1. CASE k = m + 1
      <4>1. k - 1 = m /\ m \in 0 .. m
        BY <2>1, <3>1
      <4>2. g[k - 1] = f[m]
        BY <2>4, <4>1
      <4>3. QED
        BY <2>4, <3>1, <4>2 DEF v
    <3>2. CASE k # m + 1 /\ k # 0
      <4>1. k \in 0 .. m /\ k - 1 \in 0 .. m
        BY <2>1, <3>2
      <4>2. g[k] = f[k] /\ g[k - 1] = f[k - 1]
        BY <2>4, <4>1
      <4>3. f[k] = Chained(image, head, type, k, f[k - 1])
        BY <2>2, <4>1
      <4>4. QED
        BY <4>2, <4>3
    <3>3. CASE k = 0
      <4>1. 0 \in 0 .. m
        BY <2>1
      <4>2. g[0] = f[0]
        BY <2>4, <4>1
      <4>3. f[0] = Chained(image, head, type, 0, f[0 - 1])
        BY <2>2, <4>1
      <4>4. Chained(image, head, type, 0, f[0 - 1]) = Chained(image, head, type, 0, g[0 - 1])
        BY DEF Chained
      <4>5. QED
        BY <3>3, <4>2, <4>3, <4>4
    <3>4. QED
      BY <3>1, <3>2, <3>3
  <2>6. P(g, m + 1)
    BY <2>4, <2>5, Zenon
  <2>7. QED
    BY <2>1, <2>6
<1>3. S = Nat
  <2>1. S \in SUBSET Nat
    OBVIOUS
  <2> HIDE DEF S
  <2>2. QED
    BY <1>1, <1>2, <2>1, SetInduction
<1>4. \E g : P(g, n)
  BY <1>3
<1>5. QED
  BY <1>4 DEF ChainedAll


LEMMA ChainIs ==
    ASSUME NEW image, IsSequence(image), NEW ids, RowIds(image, ids)
    PROVE  Chain(image, 3, "rows") = Append(ids, NoPage)
<1> DEFINE m == Len(ids)
<1> DEFINE n == Len(image)
<1> DEFINE full == Append(ids, NoPage)
<1> DEFINE P(g) == g = [k \in 0 .. n |-> Chained(image, 3, "rows", k, g[k - 1])]
<1> DEFINE chain == CHOOSE g : P(g)
<1>1. /\ m \in Nat /\ n \in Nat /\ m <= n /\ m >= 1 /\ IsSequence(ids)
      /\ \A i, j \in 1 .. m : i < j => ids[i] < ids[j]
      /\ DOMAIN image = 1 .. n
  BY IdsGrow, SequenceParts DEF RowIds
<1>2. P(chain)
  <2>1. \E g : ChainedAll(g, image, 3, "rows", n)
    BY <1>1, ChainedExist
  <2>2. \E g : P(g)
    BY <2>1 DEF ChainedAll
  <2> HIDE DEF P
  <2>3. QED
    BY <2>2
<1>3. Chain(image, 3, "rows") = chain[n]
  BY DEF Chain, Chained
<1> HIDE DEF chain
<1>4. \A k \in 0 .. n : chain[k] = Chained(image, 3, "rows", k, chain[k - 1])
  BY <1>2
<1> HIDE DEF P
<1>5. /\ IsSequence(full) /\ Len(full) = m + 1 /\ full[m + 1] = NoPage
      /\ \A i \in 1 .. m : full[i] = ids[i]
  BY <1>1, Appended
<1>6. /\ \A i \in 1 .. m : ids[i] \in 1 .. n /\ image[ids[i]].type = "rows"
                           /\ image[ids[i]].next = full[i + 1]
      /\ ids[1] = 3
  <2>1. SUFFICES ASSUME NEW i \in 1 .. m
                 PROVE  ids[i] \in 1 .. n /\ image[ids[i]].type = "rows" /\ image[ids[i]].next = full[i + 1]
    BY DEF RowIds
  <2>2. /\ ids[i] \in 1 .. n
        /\ image[ids[i]] = RowPage(IF i < m THEN ids[i + 1] ELSE NoPage, image[ids[i]].cells)
    BY DEF RowIds
  <2>3. image[ids[i]].type = "rows" /\ image[ids[i]].next = IF i < m THEN ids[i + 1] ELSE NoPage
    <3> DEFINE page == image[ids[i]]
    <3> DEFINE next == IF i < m THEN ids[i + 1] ELSE NoPage
    <3> DEFINE cells == page.cells
    <3>1. page = RowPage(next, cells)
      BY <2>2
    <3> HIDE DEF page, next, cells
    <3>2. page.type = "rows" /\ page.next = next
      BY <3>1 DEF RowPage
    <3>3. QED
      BY <3>2 DEF page, next
  <2>4. full[i + 1] = IF i < m THEN ids[i + 1] ELSE NoPage
    <3> HIDE DEF full
    <3>1. CASE i < m
      <4>1. i + 1 \in 1 .. m
        BY <1>1, <3>1
      <4>2. QED
        BY <1>5, <3>1, <4>1
    <3>2. CASE ~(i < m)
      <4>1. i = m
        BY <1>1, <3>2
      <4>2. QED
        BY <1>5, <3>2, <4>1
    <3>3. QED
      BY <3>1, <3>2
  <2>5. QED
    BY <2>2, <2>3, <2>4
<1> HIDE DEF full, m, n
<1>7. \A k \in Nat : k + 1 <= m + 1 =>
          /\ IsSequence(SubSeq(full, 1, k)) /\ Len(SubSeq(full, 1, k)) = k
          /\ \A i \in 1 .. k : SubSeq(full, 1, k)[i] = full[i]
          /\ SubSeq(full, 1, k + 1) = Append(SubSeq(full, 1, k), full[k + 1])
  <2>1. SUFFICES ASSUME NEW k \in Nat, k + 1 <= m + 1
                 PROVE  /\ IsSequence(SubSeq(full, 1, k)) /\ Len(SubSeq(full, 1, k)) = k
                        /\ \A i \in 1 .. k : SubSeq(full, 1, k)[i] = full[i]
                        /\ SubSeq(full, 1, k + 1) = Append(SubSeq(full, 1, k), full[k + 1])
    OBVIOUS
  <2>2. 1 \in Nat \ {0} /\ 1 <= k + 1 /\ k <= Len(full) /\ k - 1 + 1 = k
    BY <1>1, <1>5, <2>1
  <2>3. /\ IsSequence(SubSeq(full, 1, k)) /\ Len(SubSeq(full, 1, k)) = k - 1 + 1
        /\ \A i \in 1 .. k - 1 + 1 : SubSeq(full, 1, k)[i] = full[1 + i - 1]
    BY <1>5, <2>2, Slice
  <2>4. \A i \in 1 .. k : 1 + i - 1 = i
    OBVIOUS
  <2>5. SubSeq(full, 1, k + 1) = Append(SubSeq(full, 1, k), full[k + 1])
    BY <1>5, <2>1, PrefixAppends
  <2>6. QED
    BY <2>2, <2>3, <2>4, <2>5
<1>8. SubSeq(full, 1, m + 1) = full
  <2>1. PICK T : full \in Seq(T)
    BY <1>5 DEF IsSequence
  <2>2. QED
    BY <1>5, <2>1
<1> DEFINE S == {k \in Nat : k <= n =>
                   chain[k] = IF k <= m THEN SubSeq(full, 1, k + 1) ELSE full}
<1>9. 0 \in S
  <2>1. chain[0] = <<3>>
    BY <1>1, <1>4 DEF Chained
  <2>2. SubSeq(full, 1, 0 + 1) = <<3>>
    <3> DEFINE u == SubSeq(full, 1, 1)
    <3>1. 1 \in Nat /\ 1 + 1 <= m + 1 /\ 1 \in 1 .. 1 /\ 1 \in 1 .. m
      BY <1>1
    <3>2. IsSequence(u) /\ Len(u) = 1 /\ u[1] = full[1]
      BY <1>7, <3>1
    <3> HIDE DEF u
    <3>3. u[1] = Single(3)[1] /\ IsSequence(Single(3)) /\ Len(u) = Len(Single(3))
      BY <1>5, <1>6, <3>1, <3>2, SingleIs
    <3>4. \A i \in 1 .. Len(u) : u[i] = Single(3)[i]
      BY <3>2, <3>3
    <3>5. u = Single(3)
      BY <3>2, <3>3, <3>4, SameSequence
    <3>6. QED
      BY <3>5 DEF u, Single
  <2>3. 0 <= m
    BY <1>1
  <2>4. QED
    BY <2>1, <2>2, <2>3
<1>10. ASSUME NEW k \in S PROVE k + 1 \in S
  <2>1. k \in Nat /\ (k <= n => chain[k] = IF k <= m THEN SubSeq(full, 1, k + 1) ELSE full)
    OBVIOUS
  <2>2. SUFFICES ASSUME k + 1 <= n
                 PROVE  chain[k + 1] = IF k + 1 <= m THEN SubSeq(full, 1, k + 1 + 1) ELSE full
    BY <2>1
  <2>3. /\ k + 1 \in 0 .. n /\ k + 1 - 1 = k /\ k + 1 # 0
        /\ chain[k] = IF k <= m THEN SubSeq(full, 1, k + 1) ELSE full
    BY <1>1, <2>1, <2>2
  <2>4. chain[k + 1] = Chained(image, 3, "rows", k + 1, chain[k])
    BY <1>4, <2>3
  <2>5. CASE k + 1 <= m
    <3> DEFINE u == SubSeq(full, 1, k)
    <3> DEFINE id == full[k + 1]
    <3>1. chain[k] = Append(u, id) /\ IsSequence(u) /\ Len(u) = k
          /\ \A i \in 1 .. k : u[i] = full[i]
      BY <1>1, <1>7, <2>1, <2>3, <2>5
    <3> HIDE DEF u
    <3>2. k + 1 \in 1 .. m /\ id = ids[k + 1] /\ id \in 1 .. n
          /\ image[id].type = "rows" /\ image[id].next = full[k + 1 + 1]
      BY <1>1, <1>5, <1>6, <2>1, <2>5
    <3>3. id \notin ToSet(u)
      <4>1. SUFFICES ASSUME NEW i \in DOMAIN u, u[i] = id PROVE FALSE
        BY DEF ToSet
      <4>2. i \in 1 .. k
        BY <3>1, SequenceParts
      <4>3. i \in 1 .. m /\ i < k + 1
        BY <1>1, <2>1, <2>5, <4>2
      <4>4. u[i] = ids[i] /\ ids[i] < ids[k + 1]
        BY <1>1, <1>5, <3>1, <3>2, <4>2, <4>3
      <4>5. ids[i] \in 1 .. n /\ ids[k + 1] \in 1 .. n
        BY <1>6, <3>2, <4>3
      <4>6. QED
        BY <1>1, <3>2, <4>1, <4>4, <4>5
    <3> HIDE DEF id
    <3>4. Front(chain[k]) = u /\ Last(chain[k]) = id
      BY <3>1, FrontLast
    <3>5. chain[k + 1] = Append(chain[k], full[k + 1 + 1])
      <4>1. Last(chain[k]) \in DOMAIN image \ ToSet(Front(chain[k]))
        BY <1>1, <3>2, <3>3, <3>4
      <4>2. QED
        BY <2>3, <2>4, <3>2, <3>4, <4>1 DEF Chained
    <3>6. chain[k] = SubSeq(full, 1, k + 1)
      BY <1>1, <2>1, <2>3, <2>5
    <3> DEFINE j == k + 1
    <3>7. j \in Nat /\ j + 1 <= m + 1
      BY <1>1, <2>1, <2>5
    <3>8. chain[j] = Append(SubSeq(full, 1, j), full[j + 1])
      BY <3>5, <3>6
    <3> HIDE DEF j
    <3>9. SubSeq(full, 1, j + 1) = Append(SubSeq(full, 1, j), full[j + 1])
      BY <1>7, <3>7
    <3>10. chain[j] = SubSeq(full, 1, j + 1)
      BY <3>8, <3>9
    <3>11. QED
      BY <2>5, <3>10 DEF j
  <2>6. CASE ~(k + 1 <= m)
    <3>1. chain[k] = full
      <4>1. CASE k = m
        BY <1>1, <1>8, <2>3, <4>1
      <4>2. CASE k # m
        <5>1. ~(k <= m)
          BY <1>1, <2>1, <2>6, <4>2
        <5>2. QED
          BY <2>3, <5>1
      <4>3. QED
        BY <4>1, <4>2
    <3>2. Last(full) = NoPage
      BY <1>1, FrontLast DEF full
    <3>3. Last(chain[k]) \notin DOMAIN image \ ToSet(Front(chain[k]))
      <4>1. NoPage \notin 1 .. n
        BY <1>1 DEF NoPage
      <4>2. QED
        BY <1>1, <3>1, <3>2, <4>1
    <3>4. chain[k + 1] = full
      BY <2>3, <2>4, <3>1, <3>3 DEF Chained
    <3>5. QED
      BY <2>6, <3>4
  <2>7. QED
    BY <2>5, <2>6
<1>11. S = Nat
  <2>1. S \in SUBSET Nat
    OBVIOUS
  <2> HIDE DEF S
  <2>2. QED
    BY <1>9, <1>10, <2>1, SetInduction
<1>12. chain[n] = full
  <2>1. n \in S /\ n <= n
    <3> HIDE DEF S
    <3>1. QED
      BY <1>1, <1>11
  <2>2. chain[n] = IF n <= m THEN SubSeq(full, 1, n + 1) ELSE full
    BY <2>1
  <2>3. CASE n = m
    BY <1>1, <1>8, <2>2, <2>3
  <2>4. CASE n # m
    <3>1. ~(n <= m)
      BY <1>1, <2>4
    <3>2. QED
      BY <2>2, <3>1
  <2>5. QED
    BY <2>3, <2>4
<1>13. QED
  BY <1>3, <1>12 DEF full

-----------------------------------------------------------------------------
(* The pages of a chain hold what it was cut from *)

LEMMA SliceJoin ==
    ASSUME NEW s, IsSequence(s), NEW a \in Nat, NEW b \in Nat, a <= b, b <= Len(s)
    PROVE  SubSeq(s, 1, a) \o SubSeq(s, a + 1, b) = SubSeq(s, 1, b)
<1>1. PICK S : s \in Seq(S)
  BY DEF IsSequence
<1> DEFINE l == SubSeq(s, 1, a)
<1> DEFINE r == SubSeq(s, a + 1, b)
<1> DEFINE w == SubSeq(s, 1, b)
<1>2. Len(s) \in Nat
  BY <1>1
<1>3. /\ l \in Seq(S) /\ Len(l) = a /\ \A i \in 1 .. a : l[i] = s[i]
      /\ r \in Seq(S) /\ Len(r) = b - a /\ \A i \in 1 .. b - a : r[i] = s[a + i]
      /\ w \in Seq(S) /\ Len(w) = b /\ \A i \in 1 .. b : w[i] = s[i]
  BY <1>1, <1>2
<1> HIDE DEF l, r, w
<1> DEFINE u == l \o r
<1>4. /\ u \in Seq(S) /\ Len(u) = Len(l) + Len(r)
      /\ \A p \in 1 .. Len(l) : u[p] = l[p]
      /\ \A p \in 1 .. Len(r) : u[Len(l) + p] = r[p]
  <2>1. l \in Seq(S) /\ r \in Seq(S)
    BY <1>3
  <2>2. QED
    BY <2>1, JoinedOf
<1> HIDE DEF u
<1>5. ASSUME NEW p \in 1 .. b PROVE u[p] = w[p]
  <2>1. CASE p <= a
    <3>1. p \in 1 .. a
      BY <2>1
    <3>2. QED
      BY <1>3, <1>4, <3>1
  <2>2. CASE p > a
    <3> DEFINE q == p - a
    <3>1. q \in 1 .. b - a /\ a + q = p
      BY <2>2
    <3> HIDE DEF q
    <3>2. u[a + q] = r[q] /\ r[q] = s[a + q] /\ w[p] = s[p]
      BY <1>3, <1>4, <3>1
    <3>3. QED
      BY <3>1, <3>2
  <2>3. QED
    BY <2>1, <2>2
<1>6. IsSequence(u) /\ IsSequence(w) /\ Len(u) = Len(w)
  BY <1>3, <1>4 DEF IsSequence
<1>7. \A p \in 1 .. Len(u) : u[p] = w[p]
  BY <1>3, <1>5, <1>6
<1>8. u = w
  BY <1>6, <1>7, SameSequence
<1>9. QED
  BY <1>8 DEF u, l, r, w

\* The number of pages that n cells take.
PagesFor(n) == (n + PayloadCells - 1) \div PayloadCells

LEMMA PagesForIs ==
    ASSUME NEW n \in Nat
    PROVE  /\ PagesFor(n) \in Nat
           /\ n = 0 => PagesFor(n) = 0
           /\ n > 0 => PagesFor(n) >= 1
           /\ \A i \in Nat : i < PagesFor(n) => i * PayloadCells \in Nat /\ i * PayloadCells < n
<1> DEFINE P == PayloadCells
<1> DEFINE q == PagesFor(n)
<1>1. P \in Nat /\ P >= 4
  BY PayloadAssumption
<1>2. q = (n + P - 1) \div P
  BY DEF PagesFor
<1> HIDE DEF P, q
<1>3. q \in Int /\ P * q <= n + P - 1 /\ n + P - 1 < P * q + P
  BY <1>1, <1>2
<1>4. q \in Nat
  <2>1. SUFFICES ASSUME q <= -1 PROVE FALSE
    BY <1>3
  <2>2. P * q <= -P
    BY <1>1, <1>3, <2>1
  <2>3. P * q \in Int
    BY <1>1, <1>3
  <2>4. QED
    BY <1>1, <1>3, <2>2, <2>3
<1>5. P * q \in Nat
  BY <1>1, <1>4
<1>6. ASSUME n = 0 PROVE q = 0
  <2>1. SUFFICES ASSUME q >= 1 PROVE FALSE
    BY <1>4
  <2>2. P * q >= P
    BY <1>1, <1>4, <2>1
  <2>3. QED
    BY <1>1, <1>3, <1>5, <1>6, <2>2
<1>7. ASSUME n > 0 PROVE q >= 1
  <2>1. SUFFICES ASSUME q = 0 PROVE FALSE
    BY <1>4
  <2>2. P * q = 0
    BY <1>1, <2>1
  <2>3. QED
    BY <1>1, <1>3, <1>7, <2>2
<1>8. ASSUME NEW i \in Nat, i < q PROVE i * P \in Nat /\ i * P < n
  <2>1. i * P \in Nat
    BY <1>1
  <2>2. i * P + P <= P * q
    <3>1. i + 1 <= q
      BY <1>4, <1>8
    <3>2. (i + 1) * P <= q * P
      BY <1>1, <1>4, <3>1
    <3>3. (i + 1) * P = i * P + P /\ q * P = P * q
      BY <1>1, <1>4
    <3>4. QED
      BY <3>2, <3>3
  <2>3. QED
    BY <1>1, <1>3, <1>5, <2>1, <2>2
<1>9. QED
  BY <1>4, <1>6, <1>7, <1>8 DEF P, q

\* Pages that follow one another from "first" on, and what they hold.
Linked(chain, first) ==
    /\ IsSequence(chain)
    /\ \A i \in 1 .. Len(chain) :
          /\ IsSequence(chain[i].cells)
          /\ chain[i] = RowPage(IF i < Len(chain) THEN first + i ELSE NoPage, chain[i].cells)
Cells(chain) == [i \in 1 .. Len(chain) |-> chain[i].cells]

\* Where the i-th page of a chain of n cells ends.
EndOf(n, i) == IF i < PagesFor(n) THEN i * PayloadCells ELSE n
CutOf(cells, i) == SubSeq(cells, (i - 1) * PayloadCells + 1, EndOf(Len(cells), i))

LEMMA EndIs ==
    ASSUME NEW n \in Nat, NEW i \in 1 .. PagesFor(n)
    PROVE  /\ (i - 1) * PayloadCells \in Nat /\ (i - 1) * PayloadCells < n
           /\ EndOf(n, i) \in Nat /\ EndOf(n, i) <= n /\ (i - 1) * PayloadCells < EndOf(n, i)
           /\ i # 1 => i - 1 \in 1 .. PagesFor(n) /\ EndOf(n, i - 1) = (i - 1) * PayloadCells
           /\ i = 1 => (i - 1) * PayloadCells = 0
           /\ i = PagesFor(n) => EndOf(n, i) = n
<1> DEFINE P == PayloadCells
<1> DEFINE q == PagesFor(n)
<1>1. P \in Nat /\ P >= 4
  BY PayloadAssumption
<1>2. /\ q \in Nat
      /\ \A j \in Nat : j < q => j * P \in Nat /\ j * P < n
  BY PagesForIs
<1>3. i \in 1 .. q /\ EndOf(n, i) = (IF i < q THEN i * P ELSE n)
      /\ EndOf(n, i - 1) = (IF i - 1 < q THEN (i - 1) * P ELSE n)
  BY DEF EndOf
<1> HIDE DEF P, q
<1>4. i \in Nat /\ i - 1 \in Nat /\ i - 1 < q /\ i <= q
  BY <1>2, <1>3
<1>5. (i - 1) * P \in Nat /\ (i - 1) * P < n
  BY <1>2, <1>4
<1>6. i * P = (i - 1) * P + P
  BY <1>1, <1>4
<1>7. EndOf(n, i) \in Nat /\ EndOf(n, i) <= n /\ (i - 1) * P < EndOf(n, i)
  <2>1. CASE i < q
    <3>1. EndOf(n, i) = i * P /\ i * P \in Nat /\ i * P < n
      BY <1>2, <1>3, <1>4, <2>1
    <3>2. QED
      BY <1>1, <1>5, <1>6, <3>1
  <2>2. CASE ~(i < q)
    BY <1>3, <1>5, <2>2
  <2>3. QED
    BY <2>1, <2>2
<1>8. i # 1 => i - 1 \in 1 .. q /\ EndOf(n, i - 1) = (i - 1) * P
  BY <1>2, <1>3, <1>4
<1>9. i = 1 => (i - 1) * P = 0
  BY <1>1
<1>10. i = q => EndOf(n, i) = n
  BY <1>2, <1>3
<1>11. QED
  BY <1>5, <1>7, <1>8, <1>9, <1>10 DEF P, q

LEMMA RowPageIs ==
    ASSUME NEW next, NEW cells
    PROVE  LET page == RowPage(next, cells)
           IN  /\ page.type = "rows" /\ page.next = next /\ page.cells = cells
               /\ NodeLevel(page) = -1
  BY DEF RowPage, NodeLevel

LEMMA ChainCut ==
    ASSUME NEW first, NEW cells, IsSequence(cells), NEW chain, chain = AddChain(first, cells)
    PROVE  /\ Linked(chain, first) /\ Len(chain) = PagesFor(Len(cells))
           /\ \A i \in 1 .. Len(chain) : chain[i].cells = CutOf(cells, i)
<1> DEFINE n == Len(cells)
<1> DEFINE q == PagesFor(n)
<1>1. n \in Nat
  BY SequenceParts
<1>2. q \in Nat
  BY <1>1, PagesForIs
<1>3. chain = [i \in 1 .. q |-> RowPage(IF i < q THEN first + i ELSE NoPage, CutOf(cells, i))]
  BY DEF AddChain, PagesFor, CutOf, EndOf
<1> HIDE DEF q
<1>4. \A i \in 1 .. q : chain[i] = RowPage(IF i < q THEN first + i ELSE NoPage, CutOf(cells, i))
  BY <1>3
<1>5. IsSequence(chain) /\ Len(chain) = q
  <2>1. IsOver(chain, q)
    BY <1>3 DEF IsOver
  <2>2. IsSequence(chain) /\ DOMAIN chain = 1 .. q
    BY <1>2, <1>3, <2>1, SequenceOf
  <2>3. QED
    BY <1>2, <2>2, LengthOf
<1>6. ASSUME NEW i \in 1 .. q PROVE chain[i].cells = CutOf(cells, i)
  <2> DEFINE next == IF i < q THEN first + i ELSE NoPage
  <2> DEFINE cut == CutOf(cells, i)
  <2>1. chain[i] = RowPage(next, cut)
    BY <1>4
  <2> HIDE DEF next, cut
  <2>2. chain[i].cells = cut
    BY <2>1, RowPageIs
  <2>3. QED
    BY <2>2 DEF cut
<1>7. ASSUME NEW i \in 1 .. q PROVE IsSequence(CutOf(cells, i))
  <2> DEFINE a == (i - 1) * PayloadCells
  <2> DEFINE b == EndOf(n, i)
  <2>1. a \in Nat /\ b \in Nat /\ b <= n /\ a < b
    BY <1>1, <1>7, EndIs DEF q
  <2>2. CutOf(cells, i) = SubSeq(cells, a + 1, b)
    BY DEF CutOf
  <2> HIDE DEF a, b
  <2>3. a + 1 \in Nat \ {0} /\ a + 1 <= b + 1
    BY <2>1
  <2>4. IsSequence(SubSeq(cells, a + 1, b))
    BY <2>1, <2>3, Slice
  <2>5. QED
    BY <2>2, <2>4
<1>8. Linked(chain, first)
  BY <1>4, <1>5, <1>6, <1>7 DEF Linked
<1>9. QED
  BY <1>5, <1>6, <1>8 DEF q

\* A chain holds exactly the cells it was made of.
LEMMA ChainHolds ==
    ASSUME NEW first, NEW cells, IsSequence(cells), NEW chain, chain = AddChain(first, cells)
    PROVE  /\ AllSequences(Cells(chain)) /\ Len(Cells(chain)) = Len(chain)
           /\ FlattenSeq(Cells(chain)) = cells
           /\ Len(cells) # 0 => Len(chain) >= 1 /\ Len(chain[1].cells) >= 1
           /\ Len(chain) \in Nat
<1> DEFINE n == Len(cells)
<1> DEFINE q == PagesFor(n)
<1> DEFINE held == Cells(chain)
<1>1. n \in Nat
  BY SequenceParts
<1>2. q \in Nat /\ (n = 0 => q = 0) /\ (n > 0 => q >= 1)
  BY <1>1, PagesForIs
<1>3. /\ Linked(chain, first) /\ Len(chain) = q
      /\ \A i \in 1 .. q : chain[i].cells = CutOf(cells, i)
  BY ChainCut
<1>4. held = [i \in 1 .. q |-> chain[i].cells]
  BY <1>3 DEF Cells
<1> HIDE DEF q, held
<1>5. \A i \in 1 .. q : held[i] = CutOf(cells, i) /\ IsSequence(held[i])
  BY <1>3, <1>4 DEF Linked
<1>6. IsSequence(held) /\ Len(held) = q
  <2>1. IsOver(held, q)
    BY <1>4 DEF IsOver
  <2>2. IsSequence(held) /\ DOMAIN held = 1 .. q
    BY <1>2, <1>4, <2>1, SequenceOf
  <2>3. QED
    BY <1>2, <2>2, LengthOf
<1>7. AllSequences(held)
  BY <1>5, <1>6 DEF AllSequences
<1> DEFINE g == [i \in 1 .. q |-> SubSeq(cells, 1, EndOf(n, i))]
<1>8. \A i \in 1 .. q : g[i] = SubSeq(cells, 1, EndOf(n, i))
  OBVIOUS
<1> HIDE DEF g
<1>9. ASSUME NEW i \in 1 .. q PROVE g[i] = IF i = 1 THEN held[i] ELSE g[i - 1] \o held[i]
  <2> DEFINE a == (i - 1) * PayloadCells
  <2> DEFINE b == EndOf(n, i)
  <2>1. /\ a \in Nat /\ b \in Nat /\ b <= n /\ a < b
        /\ i # 1 => i - 1 \in 1 .. q /\ EndOf(n, i - 1) = a
        /\ i = 1 => a = 0
    BY <1>1, <1>9, EndIs DEF q
  <2>2. held[i] = SubSeq(cells, a + 1, b) /\ g[i] = SubSeq(cells, 1, b)
    BY <1>5, <1>8, <1>9 DEF CutOf
  <2> HIDE DEF a, b
  <2>3. CASE i = 1
    <3>1. a + 1 = 1
      BY <2>1, <2>3
    <3>2. QED
      BY <2>2, <2>3, <3>1
  <2>4. CASE i # 1
    <3>1. g[i - 1] = SubSeq(cells, 1, a)
      BY <1>8, <2>1, <2>4
    <3>2. a <= b
      BY <2>1
    <3>3. SubSeq(cells, 1, a) \o SubSeq(cells, a + 1, b) = SubSeq(cells, 1, b)
      BY <2>1, <3>2, SliceJoin
    <3>4. QED
      BY <2>2, <2>4, <3>1, <3>3
  <2>5. QED
    BY <2>3, <2>4
<1>10. FlattenSeq(held) = cells
  <2>1. CASE n = 0
    <3>1. Len(held) = 0 /\ cells = <<>>
      BY <1>2, <1>6, <2>1, FlattenNone
    <3>2. QED
      BY <1>6, <3>1, FlattenNone
  <2>2. CASE n # 0
    <3>1. q >= 1 /\ q \in 1 .. q /\ Len(held) # 0
      BY <1>1, <1>2, <1>6, <2>2
    <3>2. Joins(g, held, q)
      BY <1>9 DEF Joins
    <3>3. FlattenSeq(held) = g[q]
      BY <1>6, <3>1, <3>2, FlattenIs
    <3>4. EndOf(n, q) = n
      <4>1. q = PagesFor(n)
        BY DEF q
      <4>2. QED
        BY <1>1, <3>1, <4>1, EndIs
    <3>5. g[q] = SubSeq(cells, 1, n)
      BY <1>8, <3>1, <3>4
    <3>6. SubSeq(cells, 1, n) = cells
      <4>1. PICK S : cells \in Seq(S)
        BY DEF IsSequence
      <4>2. QED
        BY <4>1
    <3>7. QED
      BY <3>3, <3>5, <3>6
  <2>3. QED
    BY <2>1, <2>2
<1>11. ASSUME n # 0 PROVE q >= 1 /\ Len(chain[1].cells) >= 1
  <2>1. q >= 1 /\ 1 \in 1 .. q
    BY <1>1, <1>2, <1>11
  <2> DEFINE b == EndOf(n, 1)
  <2>2. b \in Nat /\ b <= n /\ 0 < b /\ (1 - 1) * PayloadCells = 0
    <3>1. 1 \in 1 .. PagesFor(n)
      BY <2>1 DEF q
    <3>2. /\ EndOf(n, 1) \in Nat /\ EndOf(n, 1) <= n /\ (1 - 1) * PayloadCells < EndOf(n, 1)
          /\ (1 - 1) * PayloadCells = 0
      BY <1>1, <3>1, EndIs
    <3>3. QED
      BY <3>2
  <2>3. chain[1].cells = SubSeq(cells, 0 + 1, b)
    BY <1>3, <2>1, <2>2 DEF CutOf
  <2> HIDE DEF b
  <2>4. 1 \in Nat \ {0} /\ 1 <= b + 1
    BY <2>2
  <2>5. Len(SubSeq(cells, 1, b)) = b - 1 + 1
    BY <2>2, <2>4, Slice
  <2>6. QED
    BY <2>1, <2>2, <2>3, <2>5
<1>12. QED
  BY <1>2, <1>3, <1>6, <1>7, <1>10, <1>11 DEF held, q

-----------------------------------------------------------------------------
(* The row pages, and what an edit of theirs leaves *)

SameLevels(old, new) ==
    /\ Len(old) <= Len(new)
    /\ \A p \in 1 .. Len(old) : LevelOf(new, p) = LevelOf(old, p)

\* An edit of pages that are no index nodes.
LEMMA ClosedBy ==
    ASSUME NEW old, Closed(old), NEW new, NEW dirtied, Covers(old, new, dirtied),
           \A p \in dirtied : p \in 1 .. Len(old) => LevelOf(new, p) = LevelOf(old, p),
           \A p \in dirtied : p \in 1 .. Len(new) => GoodPage(new, new[p])
    PROVE  Closed(new) /\ SameLevels(old, new)
<1>1. IsSequence(old) /\ IsSequence(new) /\ Len(old) <= Len(new)
  BY DEF Closed, Covers
<1>2. Len(old) \in Nat /\ Len(new) \in Nat
  BY <1>1, SequenceParts
<1>3. ASSUME NEW p \in 1 .. Len(old), p \notin dirtied PROVE new[p] = old[p]
  BY <1>1, <1>2, <1>3 DEF Covers
<1>4. ASSUME NEW p \in 1 .. Len(old) PROVE LevelOf(new, p) = LevelOf(old, p)
  <2>1. CASE p \in dirtied
    BY <2>1
  <2>2. CASE p \notin dirtied
    <3>1. new[p] = old[p] /\ p \in 1 .. Len(new)
      BY <1>1, <1>2, <1>3, <2>2
    <3>2. QED
      BY <3>1 DEF LevelOf
  <2>3. QED
    BY <2>1, <2>2
<1>5. ASSUME NEW p \in 1 .. Len(new) PROVE GoodPage(new, new[p])
  <2>1. CASE p \in dirtied
    BY <2>1
  <2>2. CASE p \notin dirtied
    <3>1. p \in 1 .. Len(old) /\ new[p] = old[p]
      BY <1>2, <2>2 DEF Covers
    <3>2. GoodPage(old, old[p])
      BY <3>1 DEF Closed
    <3>3. QED
      BY <1>1, <1>2, <1>4, <3>1, <3>2, GoodStays
  <2>3. QED
    BY <2>1, <2>2
<1>6. QED
  BY <1>1, <1>4, <1>5 DEF Closed, SameLevels

\* What the pages of a chain hold.
CellsAt(image, ids) == [i \in 1 .. Len(ids) |-> image[ids[i]].cells]

LEMMA CellsAtAll ==
    ASSUME NEW image, NEW ids, RowIds(image, ids)
    PROVE  /\ AllSequences(CellsAt(image, ids)) /\ Len(CellsAt(image, ids)) = Len(ids)
           /\ \A i \in 1 .. Len(ids) : CellsAt(image, ids)[i] = image[ids[i]].cells
           /\ Len(ids) \in Nat /\ Len(ids) >= 1
<1> DEFINE c == CellsAt(image, ids)
<1>1. Len(ids) \in Nat /\ Len(ids) >= 1
  BY SequenceParts DEF RowIds
<1>2. \A i \in 1 .. Len(ids) : IsSequence(image[ids[i]].cells)
  BY DEF RowIds
<1>3. c = [i \in 1 .. Len(ids) |-> image[ids[i]].cells]
  BY DEF CellsAt
<1> HIDE DEF c
<1>4. \A i \in 1 .. Len(ids) : c[i] = image[ids[i]].cells
  BY <1>3
<1>5. IsSequence(c) /\ Len(c) = Len(ids)
  <2>1. IsOver(c, Len(ids))
    BY <1>3 DEF IsOver
  <2>2. IsSequence(c) /\ DOMAIN c = 1 .. Len(ids)
    BY <1>1, <1>3, <2>1, SequenceOf
  <2>3. QED
    BY <1>1, <2>2, LengthOf
<1>6. AllSequences(c)
  BY <1>2, <1>4, <1>5 DEF AllSequences
<1>7. QED
  BY <1>1, <1>4, <1>5, <1>6 DEF c

LEMMA StoredAre ==
    ASSUME NEW image, IsSequence(image), image[1].rowsHead = 3, NEW ids, RowIds(image, ids)
    PROVE  StoredCells(image) = FlattenSeq(CellsAt(image, ids))
<1> DEFINE chain == Chain(image, 3, "rows")
<1>1. chain = Append(ids, NoPage) /\ IsSequence(ids) /\ Len(ids) \in Nat
  BY ChainIs, SequenceParts DEF RowIds
<1>2. StoredCells(image) = FlattenSeq([i \in 1 .. Len(chain) - 1 |-> image[chain[i]].cells])
  BY DEF StoredCells
<1> HIDE DEF chain
<1>3. Len(chain) - 1 = Len(ids) /\ \A i \in 1 .. Len(ids) : chain[i] = ids[i]
  BY <1>1, Appended
<1>4. [i \in 1 .. Len(chain) - 1 |-> image[chain[i]].cells] = CellsAt(image, ids)
  BY <1>3 DEF CellsAt
<1>5. QED
  BY <1>2, <1>4

\* Row pages that two images share.
LEMMA RowsStay ==
    ASSUME NEW old, NEW new, NEW ids, RowIds(old, ids), Len(old) \in Nat, Len(new) \in Nat,
           Len(old) <= Len(new), \A i \in 1 .. Len(ids) : new[ids[i]] = old[ids[i]]
    PROVE  RowIds(new, ids) /\ CellsAt(new, ids) = CellsAt(old, ids)
<1>1. Len(ids) \in Nat /\ Len(ids) >= 1 /\ 1 \in 1 .. Len(ids) /\ ids[1] = 3
  BY SequenceParts DEF RowIds
<1>2. new[3] = old[3]
  BY <1>1
<1>3. ASSUME NEW i \in 1 .. Len(ids)
      PROVE  /\ ids[i] \in 1 .. Len(new) /\ IsSequence(new[ids[i]].cells)
             /\ new[ids[i]] = RowPage(IF i < Len(ids) THEN ids[i + 1] ELSE NoPage, new[ids[i]].cells)
  <2>1. ids[i] \in 1 .. Len(new)
    BY DEF RowIds
  <2>2. /\ IsSequence(old[ids[i]].cells)
        /\ old[ids[i]] = RowPage(IF i < Len(ids) THEN ids[i + 1] ELSE NoPage, old[ids[i]].cells)
    BY DEF RowIds
  <2>3. QED
    BY <2>1, <2>2
<1>4. RowIds(new, ids)
  BY <1>1, <1>2, <1>3 DEF RowIds
<1>5. CellsAt(new, ids) = CellsAt(old, ids)
  BY DEF CellsAt
<1>6. QED
  BY <1>4, <1>5

\* A row page is no index node.
LEMMA RowLevel ==
    ASSUME NEW image, IsSequence(image), NEW ids, RowIds(image, ids), NEW i \in 1 .. Len(ids)
    PROVE  /\ ids[i] \in 1 .. Len(image) /\ ids[i] >= 3 /\ image[ids[i]].type = "rows"
           /\ LevelOf(image, ids[i]) = -1
           /\ i # Len(ids) => ids[i] # ids[Len(ids)]
           /\ i # 1 => ids[i] # 3
<1> DEFINE next == IF i < Len(ids) THEN ids[i + 1] ELSE NoPage
<1> DEFINE cells == image[ids[i]].cells
<1>1. /\ Len(ids) \in Nat /\ Len(image) \in Nat /\ ids[1] = 3 /\ ids[i] \in 1 .. Len(image)
      /\ \A k, l \in 1 .. Len(ids) : k < l => ids[k] < ids[l]
      /\ \A k \in 1 .. Len(ids) : ids[k] \in 1 .. Len(image)
  BY IdsGrow DEF RowIds
<1>2. image[ids[i]] = RowPage(next, cells)
  BY DEF RowIds
<1> HIDE DEF next, cells
<1>3. image[ids[i]].type = "rows" /\ NodeLevel(image[ids[i]]) = -1
  BY <1>2, RowPageIs
<1>4. LevelOf(image, ids[i]) = -1
  BY <1>1, <1>3 DEF LevelOf
<1>5. i # 1 => 3 < ids[i]
  <2>1. ASSUME i # 1 PROVE 1 \in 1 .. Len(ids) /\ 1 < i
    BY <1>1, <2>1
  <2>2. QED
    BY <1>1, <2>1
<1>6. i # Len(ids) => ids[i] < ids[Len(ids)]
  <2>1. ASSUME i # Len(ids) PROVE Len(ids) \in 1 .. Len(ids) /\ i < Len(ids)
    BY <1>1, <2>1
  <2>2. QED
    BY <1>1, <2>1
<1>7. ids[Len(ids)] \in Nat
  <2>1. Len(ids) \in 1 .. Len(ids)
    BY <1>1
  <2>2. ids[Len(ids)] \in 1 .. Len(image)
    BY <1>1, <2>1
  <2>3. QED
    BY <1>1, <2>2
<1>8. QED
  BY <1>1, <1>3, <1>4, <1>5, <1>6, <1>7

\* The first of some sequences, joined to the others.
ShareRest(s, t) ==
    \E rest : /\ IsSequence(rest)
              /\ FlattenSeq(s) = s[1] \o rest /\ FlattenSeq(t) = t[1] \o rest

LEMMA HeadSplit ==
    ASSUME NEW s, AllSequences(s), Len(s) >= 1, NEW t, AllSequences(t), Len(t) = Len(s),
           \A i \in 2 .. Len(s) : t[i] = s[i]
    PROVE  ShareRest(s, t)
<1> DEFINE n == Len(s)
<1>1. n \in Nat /\ IsSequence(s) /\ IsSequence(t) /\ 1 \in 1 .. n
  BY SequenceParts DEF AllSequences
<1> DEFINE u == SubSeq(s, 2, n)
<1>2. /\ IsSequence(u) /\ Len(u) = n - 1
      /\ \A i \in 1 .. n - 1 : u[i] = s[i + 1]
  <2>1. 2 \in Nat \ {0} /\ n <= Len(s) /\ 2 <= n + 1
    BY <1>1
  <2>2. /\ IsSequence(u) /\ Len(u) = n - 2 + 1
        /\ \A i \in 1 .. n - 2 + 1 : u[i] = s[2 + i - 1]
    BY <1>1, <2>1, Slice
  <2> HIDE DEF u, n
  <2>3. QED
    BY <1>1, <2>2
<1> HIDE DEF u
<1>3. AllSequences(u)
  <2>1. ASSUME NEW i \in 1 .. n - 1 PROVE IsSequence(u[i])
    <3>1. i + 1 \in 1 .. n
      BY <1>1
    <3>2. QED
      BY <1>2, <3>1 DEF AllSequences
  <2>2. QED
    BY <1>2, <2>1 DEF AllSequences
<1>4. ASSUME NEW v, AllSequences(v), Len(v) = n, \A i \in 2 .. n : v[i] = s[i]
      PROVE  FlattenSeq(v) = v[1] \o FlattenSeq(u)
  <2> DEFINE h == Single(v[1])
  <2> DEFINE w == h \o u
  <2>1. IsSequence(h) /\ Len(h) = 1 /\ h[1] = v[1] /\ IsSequence(v[1]) /\ IsSequence(v)
    BY <1>1, <1>4, SingleIs DEF AllSequences
  <2>2. AllSequences(h)
    BY <2>1 DEF AllSequences
  <2> HIDE DEF h
  <2>3. /\ IsSequence(w) /\ Len(w) = n /\ w[1] = v[1]
        /\ \A i \in 1 .. n - 1 : w[1 + i] = u[i]
    <3>1. /\ IsSequence(w) /\ Len(w) = Len(h) + Len(u) /\ \A p \in 1 .. Len(h) : w[p] = h[p]
          /\ \A p \in 1 .. Len(u) : w[Len(h) + p] = u[p]
      <4>1. IsSequence(h) /\ IsSequence(u)
        BY <1>2, <2>1
      <4>2. \A p \in 1 .. Len(u) : (h \o u)[Len(h) + p] = u[p]
        BY <4>1, Tailed
      <4>3. /\ IsSequence(h \o u) /\ Len(h \o u) = Len(h) + Len(u)
            /\ \A p \in 1 .. Len(h) : (h \o u)[p] = h[p]
        BY <4>1, Joined
      <4>4. QED
        BY <4>2, <4>3
    <3> HIDE DEF w, n
    <3>2. QED
      BY <1>1, <1>2, <2>1, <3>1
  <2> HIDE DEF w
  <2>4. ASSUME NEW i \in 1 .. n PROVE v[i] = w[i]
    <3>1. CASE i = 1
      BY <2>3, <3>1
    <3>2. CASE i # 1
      <4> DEFINE j == i - 1
      <4>1. j \in 1 .. n - 1 /\ 1 + j = i /\ j + 1 = i /\ i \in 2 .. n
        BY <1>1, <3>2
      <4> HIDE DEF j
      <4>2. w[1 + j] = u[j] /\ u[j] = s[j + 1]
        BY <1>2, <2>3, <4>1
      <4>3. QED
        BY <1>4, <4>1, <4>2
    <3>3. QED
      BY <3>1, <3>2
  <2>5. v = w
    BY <1>4, <2>1, <2>3, <2>4, SameSequence
  <2>6. FlattenSeq(h \o u) = FlattenSeq(h) \o FlattenSeq(u)
    BY <1>3, <2>2, FlattenJoin
  <2>7. FlattenSeq(h) = v[1]
    BY <2>1, FlattenOne DEF h, Single
  <2>8. QED
    BY <2>5, <2>6, <2>7 DEF w
<1>5. IsSequence(FlattenSeq(u))
  BY <1>3, Flattened DEF AllSequences
<1>6. FlattenSeq(s) = s[1] \o FlattenSeq(u) /\ FlattenSeq(t) = t[1] \o FlattenSeq(u)
  BY <1>4
<1>7. QED
  BY <1>5, <1>6 DEF ShareRest

LEMMA ReplacedHead ==
    ASSUME NEW a, IsSequence(a), Len(a) >= 1, NEW b, IsSequence(b), NEW v
    PROVE  /\ ReplaceAt(a, 1, v) \o b = ReplaceAt(a \o b, 1, v)
           /\ IsSequence(ReplaceAt(a, 1, v)) /\ Len(ReplaceAt(a, 1, v)) = Len(a)
<1> DEFINE s == a \o b
<1> DEFINE d == ReplaceAt(a, 1, v)
<1> DEFINE l == d \o b
<1> DEFINE r == ReplaceAt(s, 1, v)
<1>1. Len(a) \in Nat /\ Len(b) \in Nat
  BY SequenceParts
<1>2. /\ IsSequence(s) /\ Len(s) = Len(a) + Len(b)
      /\ \A p \in 1 .. Len(a) : s[p] = a[p]
      /\ \A p \in 1 .. Len(b) : s[Len(a) + p] = b[p]
  BY Joined, Tailed
<1>3. IsEdit(a, 1, v, d) /\ IsEdit(s, 1, v, r)
  BY DEF IsEdit, ReplaceAt
<1> HIDE DEF s, d, r
<1>4. /\ IsSequence(d) /\ Len(d) = Len(a) /\ d[1] = v
      /\ \A p \in 1 .. Len(a) : p # 1 => d[p] = a[p]
  <2>1. 1 \in 1 .. Len(a)
    BY <1>1
  <2>2. QED
    BY <1>3, <2>1, Edited
<1>5. /\ IsSequence(r) /\ Len(r) = Len(a) + Len(b) /\ r[1] = v
      /\ \A p \in 1 .. Len(a) + Len(b) : p # 1 => r[p] = s[p]
  <2>1. 1 \in 1 .. Len(s)
    BY <1>1, <1>2
  <2>2. QED
    BY <1>2, <1>3, <2>1, Edited
<1>6. /\ IsSequence(l) /\ Len(l) = Len(a) + Len(b)
      /\ \A p \in 1 .. Len(a) : l[p] = d[p]
      /\ \A p \in 1 .. Len(b) : l[Len(a) + p] = b[p]
  <2>1. /\ IsSequence(l) /\ Len(l) = Len(d) + Len(b)
        /\ \A p \in 1 .. Len(d) : l[p] = d[p]
        /\ \A p \in 1 .. Len(b) : l[Len(d) + p] = b[p]
    <3>1. IsSequence(d) /\ IsSequence(b)
      BY <1>4
    <3>2. \A p \in 1 .. Len(b) : (d \o b)[Len(d) + p] = b[p]
      BY <3>1, Tailed
    <3>3. /\ IsSequence(d \o b) /\ Len(d \o b) = Len(d) + Len(b)
          /\ \A p \in 1 .. Len(d) : (d \o b)[p] = d[p]
      BY <3>1, Joined
    <3>4. QED
      BY <3>2, <3>3
  <2> HIDE DEF l
  <2>2. QED
    BY <1>4, <2>1
<1> HIDE DEF l
<1>7. ASSUME NEW p \in 1 .. Len(a) + Len(b) PROVE l[p] = r[p]
  <2>1. CASE p <= Len(a)
    <3>1. p \in 1 .. Len(a)
      BY <1>1, <2>1
    <3>2. QED
      BY <1>2, <1>4, <1>5, <1>6, <3>1
  <2>2. CASE p > Len(a)
    <3> DEFINE q == p - Len(a)
    <3>1. q \in 1 .. Len(b) /\ Len(a) + q = p /\ p # 1
      BY <1>1, <2>2
    <3> HIDE DEF q
    <3>2. l[Len(a) + q] = b[q] /\ s[Len(a) + q] = b[q] /\ r[p] = s[p]
      BY <1>2, <1>5, <1>6, <3>1
    <3>3. QED
      BY <3>1, <3>2
  <2>3. QED
    BY <1>1, <2>1, <2>2
<1>8. l = r
  BY <1>5, <1>6, <1>7, SameSequence
<1>9. QED
  BY <1>4, <1>8 DEF l, d, r, s

-----------------------------------------------------------------------------
(* The edits of the row chain *)

\* A page that is no index node is replaced by another one.
LEMMA RowEdit ==
    ASSUME NEW image, Closed(image), NEW id \in 1 .. Len(image), LevelOf(image, id) = -1,
           NEW page, page.type \notin {"leaf", "internal"},
           NEW new, IsEdit(image, id, page, new)
    PROVE  /\ Closed(new) /\ SameLevels(image, new) /\ Len(new) = Len(image)
           /\ new[id] = page
           /\ \A p \in 1 .. Len(image) : p # id => new[p] = image[p]
<1>1. IsSequence(image) /\ Len(image) \in Nat
  BY SequenceParts DEF Closed
<1>2. Covers(image, new, {id}) /\ Len(new) = Len(image)
  BY <1>1, CoversEdit
<1>3. new[id] = page /\ \A p \in 1 .. Len(image) : p # id => new[p] = image[p]
  BY <1>1, Edited
<1>4. LevelOf(new, id) = LevelOf(image, id)
  BY <1>2, <1>3 DEF LevelOf, NodeLevel
<1>5. GoodPage(new, new[id])
  BY <1>3 DEF GoodPage
<1>6. Closed(new) /\ SameLevels(image, new)
  <2>1. \A p \in {id} : p \in 1 .. Len(image) => LevelOf(new, p) = LevelOf(image, p)
    BY <1>4
  <2>2. \A p \in {id} : p \in 1 .. Len(new) => GoodPage(new, new[p])
    BY <1>5
  <2>3. QED
    BY <1>2, <2>1, <2>2, ClosedBy
<1>7. QED
  BY <1>2, <1>3, <1>6

WithCells(page, cells) == [page EXCEPT !.cells = cells]
WithNext(page, next) == [page EXCEPT !.next = next]

LEMMA RowPageEdits ==
    ASSUME NEW page, NEW next, NEW cells, page = RowPage(next, cells), NEW v, NEW w
    PROVE  WithCells(page, v) = RowPage(next, v) /\ WithNext(page, w) = RowPage(w, cells)
  BY DEF WithCells, WithNext, RowPage

\* The count at the head of the rows changes.
WithCount(image, v) == [image EXCEPT ![3].cells = ReplaceAt(@, 1, v)]

LEMMA CountKeeps ==
    ASSUME NEW image, Closed(image), NEW ids, RowIds(image, ids), NEW v,
           NEW new, new = WithCount(image, v)
    PROVE  /\ Closed(new) /\ SameLevels(image, new) /\ Len(new) = Len(image)
           /\ RowIds(new, ids)
           /\ \A p \in 1 .. Len(image) : p # 3 => new[p] = image[p]
           /\ FlattenSeq(CellsAt(new, ids)) = ReplaceAt(FlattenSeq(CellsAt(image, ids)), 1, v)
<1> DEFINE m == Len(ids)
<1> DEFINE head == image[3]
<1> DEFINE cells == head.cells
<1> DEFINE next == IF 1 < m THEN ids[1 + 1] ELSE NoPage
<1> DEFINE counted == ReplaceAt(cells, 1, v)
<1>1. /\ IsSequence(image) /\ Len(image) \in Nat /\ m \in Nat /\ m >= 1 /\ ids[1] = 3 /\ 1 \in 1 .. m
      /\ IsSequence(ids)
  BY SequenceParts DEF Closed, RowIds
<1>2. /\ 3 \in 1 .. Len(image) /\ LevelOf(image, 3) = -1
      /\ IsSequence(cells) /\ Len(cells) >= 1 /\ head = RowPage(next, cells)
  <2>1. 3 \in 1 .. Len(image) /\ LevelOf(image, 3) = -1
    <3>1. ids[1] \in 1 .. Len(image) /\ LevelOf(image, ids[1]) = -1
      BY <1>1, RowLevel
    <3>2. QED
      BY <1>1, <3>1
  <2>2. /\ IsSequence(image[ids[1]].cells)
        /\ image[ids[1]] = RowPage(IF 1 < m THEN ids[1 + 1] ELSE NoPage, image[ids[1]].cells)
        /\ Len(image[3].cells) >= 1
    BY <1>1 DEF RowIds
  <2>3. QED
    BY <1>1, <2>1, <2>2
<1>3. new = [image EXCEPT ![3] = WithCells(head, counted)]
  BY DEF WithCount, WithCells
<1> HIDE DEF head, cells, next, counted
<1>4. WithCells(head, counted) = RowPage(next, counted)
  BY <1>2, RowPageEdits
<1> DEFINE page == RowPage(next, counted)
<1>5. page.type = "rows" /\ page.cells = counted
  BY RowPageIs
<1> HIDE DEF page
<1>6. IsEdit(image, 3, page, new)
  BY <1>3, <1>4 DEF IsEdit, page
<1>7. /\ Closed(new) /\ SameLevels(image, new) /\ Len(new) = Len(image)
      /\ new[3] = page
      /\ \A p \in 1 .. Len(image) : p # 3 => new[p] = image[p]
  BY <1>2, <1>5, <1>6, RowEdit
<1>8. IsSequence(counted) /\ Len(counted) = Len(cells)
  <2>1. IsSequence(counted) /\ Len(counted) = Len(cells)
    BY <1>2, NoSequence, ReplacedHead DEF counted
  <2>2. QED
    BY <2>1
<1>9. ASSUME NEW i \in 1 .. m, i # 1 PROVE new[ids[i]] = image[ids[i]]
  <2>1. ids[i] \in 1 .. Len(image) /\ ids[i] # 3
    BY <1>1, <1>9, RowLevel
  <2>2. QED
    BY <1>7, <2>1
<1>10. RowIds(new, ids)
  <2>1. ASSUME NEW i \in 1 .. m
        PROVE  /\ ids[i] \in 1 .. Len(new) /\ IsSequence(new[ids[i]].cells)
               /\ new[ids[i]] = RowPage(IF i < m THEN ids[i + 1] ELSE NoPage, new[ids[i]].cells)
    <3>1. ids[i] \in 1 .. Len(new)
      BY <1>7 DEF RowIds
    <3>2. CASE i = 1
      <4>1. new[ids[i]] = page
        BY <1>1, <1>7, <3>2
      <4>2. page = RowPage(next, page.cells) /\ IsSequence(page.cells)
        BY <1>5, <1>8 DEF page
      <4>3. next = IF i < m THEN ids[i + 1] ELSE NoPage
        BY <3>2 DEF next
      <4>4. QED
        BY <3>1, <4>1, <4>2, <4>3
    <3>3. CASE i # 1
      <4>1. new[ids[i]] = image[ids[i]]
        BY <1>9, <3>3
      <4>2. /\ IsSequence(image[ids[i]].cells)
            /\ image[ids[i]] = RowPage(IF i < m THEN ids[i + 1] ELSE NoPage, image[ids[i]].cells)
        BY DEF RowIds
      <4>3. QED
        BY <3>1, <4>1, <4>2
    <3>4. QED
      BY <3>2, <3>3
  <2>2. Len(new[3].cells) >= 1
    BY <1>2, <1>5, <1>7, <1>8
  <2>3. \A i \in 1 .. m - 1 : ids[i] < ids[i + 1]
    BY DEF RowIds
  <2>4. QED
    BY <1>1, <2>1, <2>2, <2>3 DEF RowIds
<1>11. FlattenSeq(CellsAt(new, ids)) = ReplaceAt(FlattenSeq(CellsAt(image, ids)), 1, v)
  <2> DEFINE s == CellsAt(image, ids)
  <2> DEFINE t == CellsAt(new, ids)
  <2>1. /\ AllSequences(s) /\ Len(s) = m /\ \A i \in 1 .. m : s[i] = image[ids[i]].cells
        /\ AllSequences(t) /\ Len(t) = m /\ \A i \in 1 .. m : t[i] = new[ids[i]].cells
    BY <1>10, CellsAtAll
  <2> HIDE DEF s, t, m
  <2>2. \A i \in 2 .. m : t[i] = s[i]
    <3>1. SUFFICES ASSUME NEW i \in 2 .. m PROVE t[i] = s[i]
      OBVIOUS
    <3>2. i \in 1 .. m /\ i # 1
      BY <1>1
    <3>3. QED
      BY <1>9, <2>1, <3>2
  <2>3. s[1] = cells /\ t[1] = counted
    BY <1>1, <1>5, <1>7, <2>1 DEF cells, head
  <2>4. PICK rest : /\ IsSequence(rest)
                    /\ FlattenSeq(s) = s[1] \o rest /\ FlattenSeq(t) = t[1] \o rest
    <3>1. Len(s) >= 1 /\ Len(t) = Len(s) /\ \A i \in 2 .. Len(s) : t[i] = s[i]
      BY <1>1, <2>1, <2>2
    <3>2. ShareRest(s, t)
      BY <2>1, <3>1, HeadSplit
    <3>3. QED
      BY <3>2 DEF ShareRest
  <2>5. counted \o rest = ReplaceAt(cells \o rest, 1, v)
    BY <1>2, <2>4, ReplacedHead DEF counted
  <2>6. QED
    BY <2>3, <2>4, <2>5 DEF s, t
<1>12. QED
  BY <1>7, <1>10, <1>11

\* Cells are added behind the last page of the rows.
HoldsCells(image, ids, cells) == RowIds(image, ids) /\ FlattenSeq(CellsAt(image, ids)) = cells
Continues(ids, new, n) == \A i \in 1 .. Len(new) : new[i] > n \/ \E j \in 1 .. Len(ids) : new[i] = ids[j]
Room(image, id, cells) ==
    Cardinality({n \in 1 .. Len(cells) : Len(image[id].cells) + n <= PayloadCells})

LEMMA RoomIs ==
    ASSUME NEW image, NEW id, NEW cells, IsSequence(cells)
    PROVE  Room(image, id, cells) \in 0 .. Len(cells)
<1> DEFINE room == {n \in 1 .. Len(cells) : Len(image[id].cells) + n <= PayloadCells}
<1>1. Len(cells) \in Nat
  BY SequenceParts
<1>2. IsFiniteSet(1 .. Len(cells)) /\ Cardinality(1 .. Len(cells)) = Len(cells)
  <2>1. IsFiniteSet(1 .. Len(cells))
    BY <1>1, FS_Interval
  <2>2. Cardinality(1 .. Len(cells)) = IF 1 > Len(cells) THEN 0 ELSE Len(cells) - 1 + 1
    BY <1>1, FS_Interval
  <2>3. QED
    BY <1>1, <2>1, <2>2
<1>3. room \subseteq 1 .. Len(cells)
  OBVIOUS
<1>4. Room(image, id, cells) = Cardinality(room)
  BY DEF Room
<1> HIDE DEF room
<1>5. IsFiniteSet(room) /\ Cardinality(room) <= Cardinality(1 .. Len(cells))
  BY <1>2, <1>3, FS_Subset
<1>6. Cardinality(room) \in Nat
  BY <1>5, FS_CardinalityType
<1>7. QED
  BY <1>1, <1>2, <1>4, <1>5, <1>6

\* The pages of a chain added behind an image.
Follows(image, more, new) ==
    /\ Closed(new) /\ SameLevels(image, new) /\ Len(new) = Len(image) + Len(more)
    /\ \A p \in 1 .. Len(image) : new[p] = image[p]
    /\ \A j \in 1 .. Len(more) : new[Len(image) + j] = more[j]

JoinedPages(image, more, new) ==
    /\ IsSequence(new) /\ Len(new) = Len(image) + Len(more)
    /\ Len(image) \in Nat /\ Len(more) \in Nat
    /\ \A p \in 1 .. Len(image) : new[p] = image[p] /\ LevelOf(new, p) = LevelOf(image, p)
    /\ \A j \in 1 .. Len(more) : /\ new[Len(image) + j] = more[j]
                                 /\ LevelOf(new, Len(image) + j) = NodeLevel(more[j])

LEMMA JoinLevels ==
    ASSUME NEW image, IsSequence(image), NEW more, IsSequence(more), NEW new, new = image \o more
    PROVE  JoinedPages(image, more, new)
<1> DEFINE n == Len(image)
<1> DEFINE k == Len(more)
<1>1. n \in Nat /\ k \in Nat
  BY SequenceParts
<1>2. /\ IsSequence(image \o more) /\ Len(image \o more) = n + k
      /\ \A p \in 1 .. n : (image \o more)[p] = image[p]
  BY <1>1, Joined
<1>3. \A j \in 1 .. k : (image \o more)[n + j] = more[j]
  BY <1>1, Tailed
<1>4. /\ IsSequence(new) /\ Len(new) = n + k
      /\ \A p \in 1 .. n : new[p] = image[p]
      /\ \A j \in 1 .. k : new[n + j] = more[j]
  BY <1>2, <1>3
<1>5. \A p \in 1 .. n : LevelOf(new, p) = LevelOf(image, p)
  BY <1>1, <1>4 DEF LevelOf
<1>6. \A j \in 1 .. k : LevelOf(new, n + j) = NodeLevel(more[j])
  <2>1. SUFFICES ASSUME NEW j \in 1 .. k PROVE LevelOf(new, n + j) = NodeLevel(more[j])
    OBVIOUS
  <2>2. n + j \in 1 .. Len(new) /\ new[n + j] = more[j]
    BY <1>1, <1>4
  <2>3. QED
    BY <2>2 DEF LevelOf
<1>7. QED
  BY <1>1, <1>4, <1>5, <1>6 DEF JoinedPages

LEMMA PagesJoined ==
    ASSUME NEW image, Closed(image), NEW more, IsSequence(more), NEW new, new = image \o more,
           \A j \in 1 .. Len(more) : GoodPage(new, more[j])
    PROVE  Follows(image, more, new)
<1> DEFINE n == Len(image)
<1> DEFINE k == Len(more)
<1> DEFINE added == n + 1 .. n + k
<1>1. IsSequence(image)
  BY DEF Closed
<1>2. /\ IsSequence(new) /\ Len(new) = n + k /\ n \in Nat /\ k \in Nat
      /\ \A p \in 1 .. n : new[p] = image[p]
      /\ \A j \in 1 .. k : new[n + j] = more[j]
  <2>1. JoinedPages(image, more, new)
    BY <1>1, JoinLevels
  <2>2. QED
    BY <2>1 DEF JoinedPages
<1>3. Covers(image, new, added)
  BY <1>1, CoversJoin
<1>4. \A p \in added : p \in 1 .. n => LevelOf(new, p) = LevelOf(image, p)
  BY <1>2
<1>5. ASSUME NEW p \in added PROVE GoodPage(new, new[p])
  <2> DEFINE j == p - n
  <2>1. j \in 1 .. k /\ n + j = p
    BY <1>2
  <2> HIDE DEF j
  <2>2. QED
    BY <1>2, <2>1
<1> HIDE DEF n, k, added
<1>6. Closed(new) /\ SameLevels(image, new)
  <2>1. \A p \in added : p \in 1 .. Len(new) => GoodPage(new, new[p])
    BY <1>5
  <2>2. \A p \in added : p \in 1 .. Len(image) => LevelOf(new, p) = LevelOf(image, p)
    BY <1>4 DEF n
  <2>3. QED
    BY <1>3, <2>1, <2>2, ClosedBy
<1>7. QED
  BY <1>2, <1>6 DEF Follows, n, k

LEMMA PagesAdded ==
    ASSUME NEW image, Closed(image), NEW more, Linked(more, Len(image) + 1),
           NEW new, new = image \o more
    PROVE  Follows(image, more, new)
<1>1. IsSequence(more)
  BY DEF Linked
<1>2. ASSUME NEW j \in 1 .. Len(more) PROVE GoodPage(new, more[j])
  <2> DEFINE next == IF j < Len(more) THEN Len(image) + 1 + j ELSE NoPage
  <2> DEFINE cells == more[j].cells
  <2>1. more[j] = RowPage(next, cells)
    BY DEF Linked
  <2> HIDE DEF next, cells
  <2>2. more[j].type = "rows"
    BY <2>1, RowPageIs
  <2>3. QED
    BY <2>2 DEF GoodPage
<1>3. QED
  BY <1>1, <1>2, PagesJoined

\* The last of some sequences grows, and others follow.
Grew(s, x, u, t) ==
    /\ AllSequences(s) /\ Len(s) >= 1 /\ IsSequence(x) /\ AllSequences(u)
    /\ AllSequences(t) /\ Len(t) = Len(s) + Len(u)
    /\ \A i \in 1 .. Len(s) - 1 : t[i] = s[i]
    /\ t[Len(s)] = s[Len(s)] \o x
    /\ \A i \in 1 .. Len(u) : t[Len(s) + i] = u[i]

LEMMA LastGrows ==
    ASSUME NEW s, NEW x, NEW u, NEW t, Grew(s, x, u, t)
    PROVE  FlattenSeq(t) = FlattenSeq(s) \o (x \o FlattenSeq(u))
<1>0. /\ AllSequences(s) /\ Len(s) >= 1 /\ IsSequence(x) /\ AllSequences(u)
      /\ AllSequences(t) /\ Len(t) = Len(s) + Len(u)
      /\ (\A i \in 1 .. Len(s) - 1 : t[i] = s[i])
      /\ t[Len(s)] = s[Len(s)] \o x
      /\ \A i \in 1 .. Len(u) : t[Len(s) + i] = u[i]
  BY DEF Grew
<1> DEFINE m == Len(s)
<1> DEFINE l == m - 1
<1> DEFINE f == SubSeq(s, 1, l)
<1> DEFINE last == s[m]
<1> DEFINE g == last \o x
<1> DEFINE a == Append(f, g)
<1>1. /\ m \in Nat /\ l \in Nat /\ l + 1 = m /\ l <= m /\ m \in 1 .. m /\ Len(u) \in Nat
      /\ IsSequence(s) /\ IsSequence(t) /\ IsSequence(u)
  BY <1>0, SequenceParts DEF AllSequences
<1>2. AllSequences(f) /\ Len(f) = l /\ IsSequence(f)
  BY <1>0, <1>1, PrefixOf DEF AllSequences
<1>3. \A i \in 1 .. l : f[i] = s[i]
  <2> HIDE DEF m, l
  <2>1. 1 \in Nat \ {0} /\ 1 <= l + 1 /\ l <= Len(s)
    BY <1>0, <1>1 DEF m
  <2>2. \A i \in 1 .. l - 1 + 1 : SubSeq(s, 1, l)[i] = s[1 + i - 1]
    BY <1>0, <1>1, <2>1, Slice
  <2>3. QED
    BY <1>0, <1>1, <2>2
<1>4. s = Append(f, last)
  <2>1. SubSeq(s, 1, l + 1) = Append(SubSeq(s, 1, l), s[l + 1])
    BY <1>0, <1>1, PrefixAppends
  <2>2. SubSeq(s, 1, m) = s
    <3>1. PICK S : s \in Seq(S)
      BY <1>0, <1>1 DEF IsSequence
    <3>2. QED
      BY <1>0, <3>1
  <2>3. QED
    BY <1>0, <1>1, <2>1, <2>2
<1>5. IsSequence(last) /\ IsSequence(g)
  <2>1. IsSequence(last)
    BY <1>0, <1>1 DEF AllSequences
  <2>2. QED
    BY <1>0, <2>1, Joined
<1> HIDE DEF f, last, g
<1>6. FlattenSeq(s) = FlattenSeq(f) \o last
  BY <1>0, <1>2, <1>4, <1>5, FlattenAppend
<1>7. FlattenSeq(a) = FlattenSeq(f) \o g
  BY <1>0, <1>2, <1>5, FlattenAppend
<1>8. IsSequence(a) /\ Len(a) = m /\ a[m] = g /\ \A i \in 1 .. l : a[i] = f[i]
  <2>1. /\ IsSequence(Append(f, g)) /\ Len(Append(f, g)) = Len(f) + 1
        /\ Append(f, g)[Len(f) + 1] = g
        /\ \A i \in 1 .. Len(f) : Append(f, g)[i] = f[i]
    BY <1>0, <1>2, Appended
  <2> HIDE DEF m, l
  <2>2. QED
    BY <1>0, <1>1, <1>2, <2>1
<1> HIDE DEF a
<1>9. AllSequences(a)
  <2>1. ASSUME NEW i \in 1 .. m PROVE IsSequence(a[i])
    <3>1. CASE i = m
      BY <1>0, <1>5, <1>8, <3>1
    <3>2. CASE i # m
      <4>1. i \in 1 .. l
        <5> HIDE DEF m, l
        <5>1. i \in Nat /\ i >= 1 /\ i <= m
          BY <1>0, <1>1
        <5>2. QED
          BY <1>0, <1>1, <3>2, <5>1
      <4>2. QED
        BY <1>0, <1>2, <1>8, <4>1 DEF AllSequences
    <3>3. QED
      BY <1>0, <3>1, <3>2
  <2>2. QED
    BY <1>0, <1>8, <2>1 DEF AllSequences
<1> DEFINE w == a \o u
<1>10. /\ IsSequence(w) /\ Len(w) = m + Len(u)
       /\ \A i \in 1 .. m : w[i] = a[i]
       /\ \A i \in 1 .. Len(u) : w[m + i] = u[i]
  <2>1. /\ IsSequence(a \o u) /\ Len(a \o u) = Len(a) + Len(u)
        /\ \A i \in 1 .. Len(a) : (a \o u)[i] = a[i]
    BY <1>0, <1>1, <1>8, Joined
  <2>2. \A i \in 1 .. Len(u) : (a \o u)[Len(a) + i] = u[i]
    BY <1>0, <1>1, <1>8, Tailed
  <2>3. QED
    BY <1>0, <1>8, <2>1, <2>2
<1> HIDE DEF w, m
<1>11. ASSUME NEW i \in 1 .. Len(t) PROVE t[i] = w[i]
  <2>1. CASE i \in 1 .. l
    <3>1. i \in 1 .. Len(s) - 1 /\ i \in 1 .. m
      BY <1>0, <1>1, <2>1 DEF m
    <3>2. QED
      BY <1>0, <1>3, <1>8, <1>10, <2>1, <3>1
  <2>2. CASE i = m
    <3>1. t[m] = last \o x
      BY <1>0 DEF m, last
    <3>2. QED
      BY <1>0, <1>1, <1>8, <1>10, <2>2, <3>1 DEF g
  <2>3. CASE i > m
    <3> DEFINE j == i - m
    <3>1. j \in 1 .. Len(u) /\ m + j = i
      BY <1>0, <1>1, <2>3 DEF m
    <3> HIDE DEF j
    <3>2. t[m + j] = u[j]
      BY <1>0, <3>1 DEF m
    <3>3. QED
      BY <1>0, <1>10, <3>1, <3>2
  <2>4. QED
    BY <1>0, <1>1, <2>1, <2>2, <2>3
<1>12. t = w
  <2>1. Len(t) = Len(w)
    BY <1>0, <1>10 DEF m
  <2>2. QED
    BY <1>0, <1>1, <1>10, <1>11, <2>1, SameSequence
<1>13. FlattenSeq(w) = FlattenSeq(a) \o FlattenSeq(u)
  BY <1>0, <1>9, FlattenJoin DEF w
<1>14. (FlattenSeq(f) \o (last \o x)) \o FlattenSeq(u) = (FlattenSeq(f) \o last) \o (x \o FlattenSeq(u))
  <2> DEFINE p == FlattenSeq(f)
  <2> DEFINE q == FlattenSeq(u)
  <2>1. IsSequence(p) /\ IsSequence(q)
    BY <1>0, <1>2, Flattened DEF AllSequences
  <2> HIDE DEF p, q
  <2>2. p \o (last \o x) = (p \o last) \o x
    <3>1. IsSequence(p) /\ IsSequence(last) /\ IsSequence(x)
      BY <1>0, <1>5, <2>1
    <3>2. (p \o last) \o x = p \o (last \o x)
      BY <1>0, <3>1, JoinAssociates
    <3>3. QED
      BY <1>0, <3>2
  <2>3. IsSequence(p \o last)
    BY <1>0, <1>5, <2>1, Joined
  <2>4. ((p \o last) \o x) \o q = (p \o last) \o (x \o q)
    <3>1. IsSequence(p \o last) /\ IsSequence(x) /\ IsSequence(q)
      BY <1>0, <2>1, <2>3
    <3> DEFINE r == p \o last
    <3> HIDE DEF r
    <3>2. IsSequence(r)
      BY <3>1 DEF r
    <3>3. (r \o x) \o q = r \o (x \o q)
      BY <3>1, <3>2, JoinAssociates
    <3>4. QED
      BY <3>3 DEF r
  <2>5. QED
    BY <1>0, <2>2, <2>4 DEF p, q
<1>15. QED
  BY <1>0, <1>6, <1>7, <1>12, <1>13, <1>14 DEF g

Filled(image, ids, cells, new) ==
    /\ Closed(new) /\ SameLevels(image, new)
    /\ \A p \in 1 .. Len(image) : p # ids[Len(ids)] => new[p] = image[p]
    /\ \E more : /\ HoldsCells(new, more, FlattenSeq(CellsAt(image, ids)) \o cells)
                 /\ Continues(ids, more, Len(image))

\* The pages of the rows, and those added behind them.
MoreIds(ids, n, k) == ids \o [j \in 1 .. k |-> n + j]

LEMMA MoreIdsAre ==
    ASSUME NEW ids, IsSequence(ids), NEW n \in Nat, NEW k \in Nat
    PROVE  LET more == MoreIds(ids, n, k)
           IN  /\ IsSequence(more) /\ Len(more) = Len(ids) + k
               /\ \A i \in 1 .. Len(ids) : more[i] = ids[i]
               /\ \A j \in 1 .. k : more[Len(ids) + j] = n + j
               /\ Continues(ids, more, n)
<1> DEFINE tail == [j \in 1 .. k |-> n + j]
<1> DEFINE more == MoreIds(ids, n, k)
<1>1. IsSequence(tail) /\ Len(tail) = k /\ \A j \in 1 .. k : tail[j] = n + j
  <2>1. IsOver(tail, k)
    BY DEF IsOver
  <2>2. IsSequence(tail) /\ DOMAIN tail = 1 .. k
    BY <2>1, SequenceOf
  <2>3. Len(tail) = k
    <3> HIDE DEF tail
    <3>1. QED
      BY <2>2, LengthOf
  <2>4. QED
    BY <2>2, <2>3
<1>2. more = ids \o tail
  BY DEF MoreIds
<1>3. Len(ids) \in Nat
  BY SequenceParts
<1> HIDE DEF tail, more
<1>4. /\ IsSequence(ids \o tail) /\ Len(ids \o tail) = Len(ids) + Len(tail)
      /\ \A i \in 1 .. Len(ids) : (ids \o tail)[i] = ids[i]
  BY <1>1, Joined
<1>5. \A j \in 1 .. Len(tail) : (ids \o tail)[Len(ids) + j] = tail[j]
  BY <1>1, Tailed
<1>6. /\ IsSequence(more) /\ Len(more) = Len(ids) + k
      /\ \A i \in 1 .. Len(ids) : more[i] = ids[i]
      /\ \A j \in 1 .. k : more[Len(ids) + j] = n + j
  BY <1>1, <1>2, <1>4, <1>5
<1>7. Continues(ids, more, n)
  <2>1. SUFFICES ASSUME NEW i \in 1 .. Len(ids) + k
                 PROVE  more[i] > n \/ \E j \in 1 .. Len(ids) : more[i] = ids[j]
    BY <1>6 DEF Continues
  <2>2. CASE i <= Len(ids)
    <3>1. i \in 1 .. Len(ids)
      BY <1>3, <2>2
    <3>2. QED
      BY <1>6, <3>1
  <2>3. CASE i > Len(ids)
    <3> DEFINE j == i - Len(ids)
    <3>1. j \in 1 .. k /\ Len(ids) + j = i
      BY <1>3, <2>3
    <3> HIDE DEF j
    <3>2. more[i] = n + j
      BY <1>6, <3>1
    <3>3. QED
      BY <3>1, <3>2
  <2>4. QED
    BY <1>3, <2>2, <2>3
<1>8. QED
  BY <1>6, <1>7 DEF more

LEMMA NextOf ==
    ASSUME NEW image, NEW ids, RowIds(image, ids), NEW i \in 1 .. Len(ids)
    PROVE  \E next, cells : /\ image[ids[i]] = RowPage(next, cells) /\ IsSequence(cells)
                            /\ cells = image[ids[i]].cells
                            /\ next = IF i < Len(ids) THEN ids[i + 1] ELSE NoPage
<1>1. /\ IsSequence(image[ids[i]].cells)
      /\ image[ids[i]] = RowPage(IF i < Len(ids) THEN ids[i + 1] ELSE NoPage, image[ids[i]].cells)
  BY DEF RowIds
<1> DEFINE next == IF i < Len(ids) THEN ids[i + 1] ELSE NoPage
<1> DEFINE cells == image[ids[i]].cells
<1>2. image[ids[i]] = RowPage(next, cells) /\ IsSequence(cells)
  BY <1>1
<1>3. QED
  BY <1>2

LEMMA ChainFills ==
    ASSUME NEW image, Closed(image), NEW ids, RowIds(image, ids), NEW id, id = ids[Len(ids)],
           NEW cells, IsSequence(cells), NEW new, new = AppendCells(image, id, cells).pages
    PROVE  Filled(image, ids, cells, new)
<1> DEFINE n == Len(image)
<1> DEFINE m == Len(ids)
<1> DEFINE copied == Room(image, id, cells)
<1> DEFINE x == SubSeq(cells, 1, copied)
<1> DEFINE left == SubSeq(cells, copied + 1, Len(cells))
<1> DEFINE more == AddChain(n + 1, left)
<1> DEFINE k == Len(more)
<1> DEFINE held == image[id].cells
<1> DEFINE next == IF more = <<>> THEN image[id].next ELSE n + 1
<1> DEFINE edited == [image EXCEPT ![id] = WithNext(WithCells(image[id], held \o x), next)]
<1>1. new = edited \o more
  BY DEF AppendCells, Room, WithNext, WithCells
<1>2. /\ IsSequence(image) /\ n \in Nat /\ IsSequence(ids) /\ m \in Nat /\ m >= 1 /\ m \in 1 .. m
      /\ Len(cells) \in Nat
  BY SequenceParts DEF Closed, RowIds
<1>3. copied \in Nat /\ copied <= Len(cells)
  <2>1. copied \in 0 .. Len(cells)
    BY RoomIs
  <2>2. QED
    BY <1>2, <2>1
<1> HIDE DEF copied
<1>4. IsSequence(x) /\ IsSequence(left) /\ x \o left = cells
  <2>1. 1 \in Nat \ {0} /\ 1 <= copied + 1 /\ copied + 1 \in Nat \ {0} /\ copied + 1 <= Len(cells) + 1
        /\ Len(cells) <= Len(cells)
    BY <1>2, <1>3
  <2>2. IsSequence(x)
    BY <1>3, <2>1, Slice
  <2>3. IsSequence(left)
    BY <1>2, <2>1, Slice
  <2>4. SubSeq(cells, 1, copied) \o SubSeq(cells, copied + 1, Len(cells)) = SubSeq(cells, 1, Len(cells))
    BY <1>2, <1>3, <2>1, SliceJoin
  <2>5. SubSeq(cells, 1, Len(cells)) = cells
    <3>1. PICK S : cells \in Seq(S)
      BY DEF IsSequence
    <3>2. QED
      BY <3>1
  <2>6. QED
    BY <2>2, <2>3, <2>4, <2>5
<1> HIDE DEF x, left
<1>5. /\ Linked(more, n + 1) /\ AllSequences(Cells(more)) /\ Len(Cells(more)) = k
      /\ FlattenSeq(Cells(more)) = left /\ k \in Nat
  <2>1. Linked(more, n + 1)
    BY <1>4, ChainCut
  <2>2. /\ AllSequences(Cells(more)) /\ Len(Cells(more)) = k
        /\ FlattenSeq(Cells(more)) = left /\ k \in Nat
    BY <1>4, ChainHolds
  <2>3. QED
    BY <2>1, <2>2
<1>6. more = <<>> <=> k = 0
  BY <1>5, FlattenNone, NoSequence DEF Linked
<1>7. image[id] = RowPage(NoPage, held) /\ IsSequence(held) /\ id \in 1 .. n /\ LevelOf(image, id) = -1
  <2>1. PICK after, had : /\ image[ids[m]] = RowPage(after, had) /\ IsSequence(had)
                          /\ had = image[ids[m]].cells
                          /\ after = IF m < m THEN ids[m + 1] ELSE NoPage
    BY <1>2, NextOf
  <2>2. after = NoPage
    BY <1>2, <2>1
  <2>3. ids[m] \in 1 .. n /\ LevelOf(image, ids[m]) = -1
    BY <1>2, RowLevel
  <2>4. QED
    BY <2>1, <2>2, <2>3
<1>8. next = IF k = 0 THEN NoPage ELSE n + 1
  <2>1. image[id].next = NoPage
    BY <1>7, RowPageIs
  <2>2. QED
    BY <1>6, <2>1
<1> HIDE DEF more, k, held, next, n
<1> DEFINE page == RowPage(next, held \o x)
<1>9. WithNext(WithCells(image[id], held \o x), next) = page
  <2> DEFINE v == held \o x
  <2> DEFINE filled == WithCells(image[id], v)
  <2> HIDE DEF v
  <2>1. filled = RowPage(NoPage, v)
    BY <1>7, RowPageEdits
  <2> HIDE DEF filled
  <2>2. WithNext(filled, next) = RowPage(next, v)
    BY <2>1, RowPageEdits
  <2>3. QED
    BY <2>2 DEF filled, v
<1>10. page.type = "rows" /\ page.cells = held \o x /\ IsSequence(held \o x)
  <2>1. IsSequence(held \o x)
    BY <1>4, <1>7, Joined
  <2>2. QED
    BY <2>1, RowPageIs
<1> HIDE DEF page
<1>11. IsEdit(image, id, page, edited)
  BY <1>9 DEF IsEdit
<1> HIDE DEF edited
<1>12. /\ Closed(edited) /\ SameLevels(image, edited) /\ Len(edited) = n
       /\ edited[id] = page
       /\ \A p \in 1 .. n : p # id => edited[p] = image[p]
  <2>1. id \in 1 .. Len(image)
    BY <1>7 DEF n
  <2>2. QED
    BY <1>7, <1>10, <1>11, <2>1, RowEdit DEF n
<1>13. /\ Closed(new) /\ SameLevels(edited, new) /\ Len(new) = n + k
       /\ \A p \in 1 .. n : new[p] = edited[p]
       /\ \A j \in 1 .. k : new[n + j] = more[j]
  <2>1. Linked(more, Len(edited) + 1) /\ Closed(edited) /\ new = edited \o more
    BY <1>1, <1>5, <1>12
  <2>2. Follows(edited, more, new)
    BY <2>1, PagesAdded
  <2>3. QED
    BY <1>12, <2>2 DEF Follows, k
<1>14. Closed(new) /\ SameLevels(image, new) /\ \A p \in 1 .. n : p # id => new[p] = image[p]
  <2>1. \A p \in 1 .. n : LevelOf(new, p) = LevelOf(image, p)
    BY <1>12, <1>13 DEF SameLevels, n
  <2>2. n <= n + k
    BY <1>2, <1>5 DEF n
  <2>3. QED
    BY <1>12, <1>13, <2>1, <2>2 DEF SameLevels, n
<1> DEFINE after == MoreIds(ids, n, k)
<1>15. /\ IsSequence(after) /\ Len(after) = m + k
       /\ \A i \in 1 .. m : after[i] = ids[i]
       /\ \A j \in 1 .. k : after[m + j] = n + j
       /\ Continues(ids, after, n)
  <2>1. n \in Nat
    BY <1>2 DEF n
  <2>2. QED
    BY <1>2, <1>5, <2>1, MoreIdsAre
<1> HIDE DEF after, m
<1>16. new[id] = page
  BY <1>7, <1>12, <1>13
<1>17. ASSUME NEW i \in 1 .. m, i # m PROVE new[after[i]] = image[ids[i]]
  <2>1. i \in 1 .. Len(ids) /\ i # Len(ids)
    BY <1>17 DEF m
  <2>2. ids[i] \in 1 .. Len(image) /\ ids[i] # ids[Len(ids)]
    BY <1>2, <2>1, RowLevel
  <2>3. after[i] = ids[i] /\ ids[i] \in 1 .. n /\ ids[i] # id
    BY <1>15, <2>2 DEF n
  <2>4. QED
    BY <1>14, <2>3
<1>18. ASSUME NEW j \in 1 .. k PROVE new[after[m + j]] = more[j]
  BY <1>13, <1>15
<1>19. RowIds(new, after)
  <2>1. n \in Nat /\ k \in Nat /\ m \in Nat /\ m >= 1 /\ 1 \in 1 .. m /\ m \in 1 .. m
        /\ ids[1] = 3 /\ (\A i \in 1 .. m : ids[i] \in 1 .. n)
        /\ \A i \in 1 .. m - 1 : ids[i] < ids[i + 1]
    BY <1>2, <1>5 DEF m, n, RowIds
  <2>2. after[1] = 3
    BY <1>15, <2>1
  <2>3. ASSUME NEW i \in 1 .. m + k
        PROVE  /\ after[i] \in 1 .. Len(new)
               /\ \E next2, cells2 : /\ new[after[i]] = RowPage(next2, cells2) /\ IsSequence(cells2)
                                     /\ next2 = IF i < m + k THEN after[i + 1] ELSE NoPage
               /\ i < m + k => after[i] < after[i + 1]
    <3>1. CASE i \in 1 .. m /\ i # m
      <4>1. i \in 1 .. m - 1 /\ i + 1 \in 1 .. m /\ i < m /\ i < m + k
        BY <2>1, <3>1
      <4>2. after[i] = ids[i] /\ after[i + 1] = ids[i + 1] /\ new[after[i]] = image[ids[i]]
        BY <1>15, <1>17, <3>1, <4>1
      <4>3. PICK next2, cells2 : /\ image[ids[i]] = RowPage(next2, cells2) /\ IsSequence(cells2)
                                 /\ cells2 = image[ids[i]].cells
                                 /\ next2 = IF i < m THEN ids[i + 1] ELSE NoPage
        BY <4>1, NextOf DEF m
      <4>4. next2 = IF i < m + k THEN after[i + 1] ELSE NoPage
        BY <4>1, <4>2, <4>3
      <4>5. after[i] \in 1 .. Len(new) /\ after[i] < after[i + 1]
        <5>1. ids[i] \in 1 .. n /\ ids[i] < ids[i + 1]
          BY <2>1, <3>1, <4>1
        <5>2. ids[i] \in 1 .. Len(new)
          BY <1>13, <2>1, <5>1
        <5>3. QED
          BY <4>2, <5>1, <5>2
      <4>6. QED
        BY <4>2, <4>3, <4>4, <4>5
    <3>2. CASE i = m
      <4>1. after[i] = id /\ new[after[i]] = RowPage(next, held \o x) /\ IsSequence(held \o x)
        BY <1>10, <1>15, <1>16, <2>1, <3>2 DEF page, m
      <4>2. next = IF i < m + k THEN after[i + 1] ELSE NoPage
        <5>1. CASE k = 0
          BY <1>8, <2>1, <3>2, <5>1
        <5>2. CASE k # 0
          <6>1. 1 \in 1 .. k /\ i < m + k
            BY <2>1, <3>2, <5>2
          <6>2. after[m + 1] = n + 1
            BY <1>15, <6>1
          <6>3. QED
            BY <1>8, <3>2, <5>2, <6>1, <6>2
        <5>3. QED
          BY <5>1, <5>2
      <4>3. after[i] \in 1 .. Len(new)
        BY <1>7, <1>13, <2>1, <4>1
      <4>4. i < m + k => after[i] < after[i + 1]
        <5>1. ASSUME i < m + k PROVE after[i] < after[i + 1]
          <6>1. 1 \in 1 .. k
            BY <2>1, <3>2, <5>1
          <6>2. after[m + 1] = n + 1
            BY <1>15, <6>1
          <6>3. QED
            BY <1>7, <2>1, <3>2, <4>1, <6>2
        <5>2. QED
          BY <5>1
      <4>5. QED
        BY <4>1, <4>2, <4>3, <4>4
    <3>3. CASE i > m
      <4> DEFINE j == i - m
      <4>1. j \in 1 .. k /\ m + j = i /\ j \in Nat /\ (i < m + k <=> j < k)
        BY <2>1, <3>3
      <4>2. ASSUME j < k PROVE j + 1 \in 1 .. k /\ m + (j + 1) = i + 1 /\ n + (j + 1) = n + 1 + j
        BY <2>1, <4>1, <4>2
      <4> HIDE DEF j
      <4>3. after[i] = n + j /\ new[after[i]] = more[j]
        BY <1>15, <1>18, <4>1
      <4>4. ASSUME j < k PROVE after[i + 1] = n + 1 + j
        BY <1>15, <4>2, <4>4
      <4> DEFINE next2 == IF j < k THEN n + 1 + j ELSE NoPage
      <4> DEFINE cells2 == more[j].cells
      <4>5. more[j] = RowPage(next2, cells2) /\ IsSequence(cells2)
        BY <1>5, <4>1 DEF Linked, k
      <4>6. next2 = IF i < m + k THEN after[i + 1] ELSE NoPage
        BY <4>1, <4>4
      <4>7. after[i] \in 1 .. Len(new) /\ (i < m + k => after[i] < after[i + 1])
        BY <1>13, <2>1, <4>1, <4>3, <4>4
      <4> HIDE DEF next2, cells2
      <4>8. QED
        BY <4>3, <4>5, <4>6, <4>7
    <3>4. QED
      BY <2>1, <3>1, <3>2, <3>3
  <2>4. ASSUME NEW i \in 1 .. m + k
        PROVE  /\ IsSequence(new[after[i]].cells)
               /\ new[after[i]] = RowPage(IF i < m + k THEN after[i + 1] ELSE NoPage,
                                          new[after[i]].cells)
    <3>1. PICK next2, cells2 : /\ new[after[i]] = RowPage(next2, cells2) /\ IsSequence(cells2)
                               /\ next2 = IF i < m + k THEN after[i + 1] ELSE NoPage
      BY <2>3
    <3>2. new[after[i]].cells = cells2
      BY <3>1, RowPageIs
    <3>3. QED
      BY <3>1, <3>2
  <2>5. \A i \in 1 .. m + k - 1 : after[i] < after[i + 1]
    <3>1. SUFFICES ASSUME NEW i \in 1 .. m + k - 1 PROVE after[i] < after[i + 1]
      OBVIOUS
    <3>2. i \in 1 .. m + k /\ i < m + k
      BY <2>1
    <3>3. QED
      BY <2>3, <3>2
  <2>6. Len(new[3].cells) >= 1
    <3>1. Len(image[3].cells) >= 1
      BY DEF RowIds
    <3>2. CASE id = 3
      <4>1. Len(held) >= 1 /\ Len(held \o x) = Len(held) + Len(x) /\ Len(x) \in Nat /\ Len(held) \in Nat
        BY <1>4, <1>7, <3>1, <3>2, Joined, SequenceParts DEF held
      <4>2. new[3].cells = held \o x
        BY <1>10, <1>16, <3>2
      <4>3. QED
        BY <4>1, <4>2
    <3>3. CASE id # 3
      <4>1. 3 \in 1 .. n
        BY <2>1
      <4>2. QED
        BY <1>14, <3>1, <3>3, <4>1
    <3>4. QED
      BY <3>2, <3>3
  <2>7. \A i \in 1 .. Len(after) :
           /\ after[i] \in 1 .. Len(new) /\ IsSequence(new[after[i]].cells)
           /\ new[after[i]] = RowPage(IF i < Len(after) THEN after[i + 1] ELSE NoPage,
                                      new[after[i]].cells)
    BY <1>15, <2>3, <2>4
  <2>8. Len(after) >= 1 /\ \A i \in 1 .. Len(after) - 1 : after[i] < after[i + 1]
    BY <1>15, <2>1, <2>5
  <2>9. QED
    BY <1>15, <2>2, <2>6, <2>7, <2>8 DEF RowIds
<1>20. FlattenSeq(CellsAt(new, after)) = FlattenSeq(CellsAt(image, ids)) \o cells
  <2> DEFINE s == CellsAt(image, ids)
  <2> DEFINE t == CellsAt(new, after)
  <2> DEFINE u == Cells(more)
  <2>1. /\ AllSequences(s) /\ Len(s) = m /\ \A i \in 1 .. m : s[i] = image[ids[i]].cells
    BY CellsAtAll DEF m
  <2>2. /\ AllSequences(t) /\ Len(t) = m + k /\ \A i \in 1 .. m + k : t[i] = new[after[i]].cells
    BY <1>15, <1>19, CellsAtAll
  <2>3. /\ AllSequences(u) /\ Len(u) = k /\ FlattenSeq(u) = left
        /\ \A j \in 1 .. k : u[j] = more[j].cells
    <3>1. u = [j \in 1 .. k |-> more[j].cells]
      BY DEF Cells, k
    <3> HIDE DEF u
    <3>2. QED
      BY <1>5, <3>1 DEF u
  <2> HIDE DEF s, t, u
  <2>4. m \in Nat /\ m >= 1 /\ k \in Nat /\ m \in 1 .. m
    BY <1>2, <1>5 DEF m
  <2>5. \A i \in 1 .. m - 1 : t[i] = s[i]
    <3>1. SUFFICES ASSUME NEW i \in 1 .. m - 1 PROVE t[i] = s[i]
      OBVIOUS
    <3>2. i \in 1 .. m /\ i # m /\ i \in 1 .. m + k
      BY <2>4
    <3>3. QED
      BY <1>17, <2>1, <2>2, <3>2
  <2>6. t[m] = s[m] \o x
    <3>1. m \in 1 .. m + k
      BY <2>4
    <3>2. t[m] = new[id].cells /\ s[m] = held
      BY <1>15, <2>1, <2>2, <2>4, <3>1 DEF m, held
    <3>3. QED
      BY <1>10, <1>16, <3>2
  <2>7. \A j \in 1 .. k : t[m + j] = u[j]
    <3>1. SUFFICES ASSUME NEW j \in 1 .. k PROVE t[m + j] = u[j]
      OBVIOUS
    <3>2. m + j \in 1 .. m + k
      BY <2>4
    <3>3. QED
      BY <1>18, <2>2, <2>3, <3>2
  <2>8. FlattenSeq(t) = FlattenSeq(s) \o (x \o FlattenSeq(u))
    <3>1. /\ Len(s) >= 1 /\ Len(t) = Len(s) + Len(u)
          /\ (\A i \in 1 .. Len(s) - 1 : t[i] = s[i])
          /\ t[Len(s)] = s[Len(s)] \o x
          /\ \A i \in 1 .. Len(u) : t[Len(s) + i] = u[i]
      BY <2>1, <2>2, <2>3, <2>4, <2>5, <2>6, <2>7
    <3>2. AllSequences(s) /\ AllSequences(t) /\ AllSequences(u) /\ IsSequence(x)
      BY <1>4, <2>1, <2>2, <2>3
    <3>3. Grew(s, x, u, t)
      BY <3>1, <3>2 DEF Grew
    <3>4. QED
      BY <3>3, LastGrows
  <2>9. QED
    BY <1>4, <2>3, <2>8 DEF s, t
<1>21. QED
  BY <1>2, <1>14, <1>15, <1>19, <1>20 DEF Filled, HoldsCells, n

-----------------------------------------------------------------------------
(* An image that holds a table, and what an insert makes of it *)

Holds(image, table, directory, roots, ids) ==
    /\ Closed(image)
    /\ image[1].type = "superblock" /\ image[1].rowsHead = 3
    /\ image[1].directory = directory /\ image[1].rowCount = Len(table)
    /\ directory \in 2 .. Len(image) /\ image[directory] = Directory(roots)
    /\ \A i \in 1 .. Len(ids) : ids[i] # directory
    /\ DOMAIN roots = Fields /\ \A f \in Fields : IsRoot(image, roots[f])
    /\ HoldsCells(image, ids, RowStream(table))

LEMMA RootStays ==
    ASSUME NEW old, NEW new, SameLevels(old, new), NEW root, IsRoot(old, root)
    PROVE  IsRoot(new, root)
<1>1. CASE root = NoPage
  BY <1>1 DEF IsRoot
<1>2. CASE LevelOf(old, root) \in Nat
  <2>1. root \in 1 .. Len(old)
    BY <1>2 DEF LevelOf
  <2>2. QED
    BY <1>2, <2>1 DEF IsRoot, SameLevels
<1>3. QED
  BY <1>1, <1>2 DEF IsRoot

LEMMA KeepsOthersTwice ==
    ASSUME NEW a, NEW b, NEW c, IsSequence(a), KeepsOthers(a, b), KeepsOthers(b, c)
    PROVE  KeepsOthers(a, c)
<1>1. Len(a) \in Nat /\ Len(b) \in Nat /\ Len(c) \in Nat /\ Len(a) <= Len(b) /\ Len(b) <= Len(c)
  BY SequenceParts DEF KeepsOthers, Closed
<1>2. \A p \in 1 .. Len(a) : p \in 1 .. Len(b)
  BY <1>1
<1>3. QED
  BY <1>1, <1>2 DEF KeepsOthers

\* The pages and roots while the indexes are edited.
Carried(start, built) ==
    /\ KeepsOthers(start, built.pages)
    /\ DOMAIN built.roots = Fields /\ \A f \in Fields : IsRoot(built.pages, built.roots[f])

LEMMA FieldCarries ==
    ASSUME NEW start, IsSequence(start), NEW built, Carried(start, built), NEW field \in Fields,
           NEW entry
    PROVE  Carried(start, AddField(built, field, entry))
<1> DEFINE done == InsertIntoIndex(built.pages, built.roots[field], entry)
<1> DEFINE roots == [built.roots EXCEPT ![field] = done.root]
<1>1. AddField(built, field, entry).pages = done.pages /\ AddField(built, field, entry).roots = roots
  BY DEF AddField
<1>2. Closed(built.pages) /\ IsRoot(built.pages, built.roots[field])
  BY DEF Carried, KeepsOthers
<1>3. KeepsOthers(built.pages, done.pages) /\ IsRoot(done.pages, done.root)
  BY <1>2, IndexKeeps
<1> HIDE DEF done
<1>4. KeepsOthers(start, done.pages)
  BY <1>3, KeepsOthersTwice DEF Carried
<1>5. SameLevels(built.pages, done.pages)
  BY <1>3 DEF KeepsOthers, SameLevels
<1>6. DOMAIN roots = Fields
  BY DEF Carried
<1>7. ASSUME NEW f \in Fields PROVE IsRoot(done.pages, roots[f])
  <2>1. CASE f = field
    BY <1>3, <2>1 DEF Carried
  <2>2. CASE f # field
    <3>1. roots[f] = built.roots[f]
      BY <2>2
    <3>2. IsRoot(built.pages, built.roots[f])
      BY DEF Carried
    <3>3. QED
      BY <1>5, <3>1, <3>2, RootStays
  <2>3. QED
    BY <2>1, <2>2
<1>8. QED
  BY <1>1, <1>4, <1>6, <1>7 DEF Carried

\* The last edits of an insert.
Rooted(pgs, directory, roots) == [pgs EXCEPT ![directory].roots = roots]
Headed(pgs, super) == [pgs EXCEPT ![1] = super]
Closing(image, done) ==
    Headed(Rooted(done.pages, image[1].directory, done.roots),
           Superblock(image[1].generation + 1, Len(done.pages), image[1].directory,
                      image[1].rowCount + 1))
InsertIs(g, image, row) ==
    /\ FieldedAll(g, image, row, FieldCount)
    /\ BuildIncrementalInsert(image, row).pages = Closing(image, g[FieldCount])

LEMMA InsertUnfold ==
    ASSUME NEW image, NEW row
    PROVE  \E g : InsertIs(g, image, row)
<1> DEFINE super == image[1]
<1> DEFINE n == FieldCount
<1> DEFINE appended == AppendRow(image, row)
<1> DEFINE P(g) == g = [f \in 0 .. n |->
                          IF f = 0 THEN [pages |-> appended.pages, dirty |-> appended.dirty,
                                         roots |-> image[super.directory].roots]
                          ELSE AddField(g[f - 1], f, Entry(row[f], super.rowCount + 1))]
<1> DEFINE built == CHOOSE g : P(g)
<1>1. n \in Nat
  BY FieldsAssumption
<1>2. \A g : P(g) <=> FieldedAll(g, image, row, n)
  BY DEF FieldedAll, Fielded
<1>3. P(built)
  <2>1. \E g : FieldedAll(g, image, row, n)
    BY <1>1, FieldedExist
  <2>2. \E g : P(g)
    <3> HIDE DEF P
    <3>1. QED
      BY <1>2, <2>1
  <2> HIDE DEF P
  <2>3. QED
    BY <2>2
<1> DEFINE done == built[n]
<1> DEFINE above == Superblock(super.generation + 1, Len(done.pages), super.directory,
                               super.rowCount + 1)
<1> DEFINE pages_ == [done.pages EXCEPT ![super.directory].roots = done.roots, ![1] = above]
<1>4. BuildIncrementalInsert(image, row) =
          [pages |-> pages_, dirty |-> done.dirty \union {super.directory, 1}]
  BY DEF BuildIncrementalInsert
<1>5. pages_ = Closing(image, built[FieldCount])
  BY DEF Closing, Headed, Rooted
<1> HIDE DEF pages_
<1>6. BuildIncrementalInsert(image, row).pages = Closing(image, built[FieldCount])
  BY <1>4, <1>5
<1> HIDE DEF built
<1>7. FieldedAll(built, image, row, n)
  <2> HIDE DEF P
  <2>1. QED
    BY <1>2, <1>3
<1>8. InsertIs(built, image, row)
  BY <1>6, <1>7 DEF InsertIs
<1>9. QED
  BY <1>8

\* The row chain of a table with a row more.
RowsMade(image, table, directory, roots, new) ==
    /\ Closed(new) /\ SameLevels(image, new) /\ new[1] = image[1]
    /\ new[directory] = image[directory]
    /\ \E ids : /\ HoldsCells(new, ids, RowStream(table))
                /\ \A i \in 1 .. Len(ids) : ids[i] # directory

LEMMA RowMade ==
    ASSUME NEW image, NEW table, IsSequence(table), NEW directory, NEW roots, NEW ids,
           Holds(image, table, directory, roots, ids), NEW row
    PROVE  RowsMade(image, Append(table, row), directory, roots, AppendRow(image, row).pages)
<1> DEFINE v == CountCell(Len(table) + 1)
<1> DEFINE counted == WithCount(image, v)
<1> DEFINE cells == EncodeRow(row)
<1> DEFINE done == AppendCells(counted, ids[Len(ids)], cells)
<1> DEFINE new == done.pages
<1>1. /\ Closed(image) /\ IsSequence(image) /\ Len(image) \in Nat /\ RowIds(image, ids)
      /\ FlattenSeq(CellsAt(image, ids)) = RowStream(table)
      /\ image[1].rowsHead = 3 /\ image[1].rowCount = Len(table)
      /\ directory \in 2 .. Len(image) /\ \A i \in 1 .. Len(ids) : ids[i] # directory
      /\ IsSequence(ids)
  BY SequenceParts DEF Holds, HoldsCells, Closed, RowIds
<1>2. new = AppendRow(image, row).pages
  <2> DEFINE chain == Front(Chain(image, 3, "rows"))
  <2>1. chain = ids
    <3>1. Chain(image, 3, "rows") = Append(ids, NoPage)
      BY <1>1, ChainIs
    <3>2. QED
      BY <1>1, <3>1, FrontLast
  <2> HIDE DEF chain
  <2>2. Last(chain) = ids[Len(ids)]
    BY <2>1 DEF Last
  <2> DEFINE at == AppendCells(counted, Last(chain), cells)
  <2>3. AppendRow(image, row) = [at EXCEPT !.dirty = @ \union {3}]
    BY <1>1 DEF AppendRow, WithCount, chain
  <2>4. at = [pages |-> at.pages, dirty |-> at.dirty]
    BY DEF AppendCells
  <2>5. at = done
    BY <2>2
  <2> HIDE DEF at
  <2>6. AppendRow(image, row).pages = at.pages
    BY <2>3, <2>4
  <2>7. QED
    BY <2>5, <2>6
<1> HIDE DEF counted
<1>3. /\ Closed(counted) /\ SameLevels(image, counted) /\ Len(counted) = Len(image)
      /\ RowIds(counted, ids)
      /\ \A p \in 1 .. Len(image) : p # 3 => counted[p] = image[p]
      /\ FlattenSeq(CellsAt(counted, ids)) = ReplaceAt(RowStream(table), 1, v)
  BY <1>1, CountKeeps DEF counted
<1>4. IsSequence(cells)
  BY RowEncoded
<1>5. Filled(counted, ids, cells, new)
  BY <1>3, <1>4, ChainFills
<1> HIDE DEF new, v, cells
<1>6. PICK more : /\ HoldsCells(new, more, FlattenSeq(CellsAt(counted, ids)) \o cells)
                  /\ Continues(ids, more, Len(counted))
  BY <1>5 DEF Filled
<1>7. FlattenSeq(CellsAt(counted, ids)) \o cells = RowStream(Append(table, row))
  BY <1>3, StreamAppend DEF v, cells
<1>8. HoldsCells(new, more, RowStream(Append(table, row)))
  BY <1>6, <1>7
<1>9. \A i \in 1 .. Len(more) : more[i] # directory
  <2>1. SUFFICES ASSUME NEW i \in 1 .. Len(more), more[i] = directory PROVE FALSE
    OBVIOUS
  <2>2. more[i] > Len(counted) \/ \E j \in 1 .. Len(ids) : more[i] = ids[j]
    BY <1>6 DEF Continues
  <2>3. QED
    BY <1>1, <1>3, <2>1, <2>2
<1> DEFINE last == Len(ids)
<1>10. 3 # directory /\ ids[last] # directory /\ ids[last] # 1 /\ 1 \in 1 .. Len(image)
       /\ directory \in 1 .. Len(image)
  <2>1. Len(ids) \in Nat /\ Len(ids) >= 1 /\ ids[1] = 3
    BY <1>1, SequenceParts DEF RowIds
  <2>2. 1 \in 1 .. Len(ids) /\ Len(ids) \in 1 .. Len(ids)
    BY <2>1
  <2>3. ids[last] >= 3 /\ ids[last] \in 1 .. Len(image)
    BY <1>1, <2>2, RowLevel
  <2>4. QED
    BY <1>1, <2>1, <2>2, <2>3
<1>11. new[1] = image[1] /\ new[directory] = image[directory]
  <2>1. counted[1] = image[1] /\ counted[directory] = image[directory]
    BY <1>3, <1>10
  <2>2. new[1] = counted[1] /\ new[directory] = counted[directory]
    BY <1>3, <1>5, <1>10 DEF Filled
  <2>3. QED
    BY <2>1, <2>2
<1>12. Closed(new) /\ SameLevels(image, new)
  <2>1. Closed(new) /\ SameLevels(counted, new) /\ SameLevels(image, counted)
    BY <1>3, <1>5 DEF Filled
  <2>2. Len(image) <= Len(new) /\ \A p \in 1 .. Len(image) : LevelOf(new, p) = LevelOf(image, p)
    BY <1>3, <2>1 DEF SameLevels
  <2>3. QED
    BY <2>1, <2>2 DEF SameLevels
<1>13. QED
  BY <1>2, <1>8, <1>9, <1>11, <1>12 DEF RowsMade

\* The indexes of an insert, one after the other.
LEMMA FieldsCarried ==
    ASSUME NEW image, NEW row, NEW g, FieldedAll(g, image, row, FieldCount),
           NEW start, start = AppendRow(image, row).pages, Closed(start),
           NEW roots, roots = image[image[1].directory].roots,
           DOMAIN roots = Fields, \A f \in Fields : IsRoot(start, roots[f])
    PROVE  Carried(start, g[FieldCount])
<1> DEFINE n == FieldCount
<1>1. n \in Nat
  BY FieldsAssumption
<1>2. \A f \in 0 .. n : g[f] = Fielded(image, row, f, g[f - 1])
  BY DEF FieldedAll
<1>3. IsSequence(start)
  BY DEF Closed
<1> DEFINE S == {f \in Nat : f <= n => Carried(start, g[f])}
<1>4. 0 \in S
  <2>1. g[0] = Fielded(image, row, 0, g[0 - 1])
    BY <1>1, <1>2
  <2>2. g[0].pages = start /\ g[0].roots = roots
    BY <2>1 DEF Fielded
  <2>3. Len(start) \in Nat
    BY <1>3, SequenceParts
  <2>4. KeepsOthers(start, start)
    BY <2>3 DEF KeepsOthers
  <2>5. Carried(start, g[0])
    BY <2>2, <2>4 DEF Carried
  <2>6. QED
    BY <2>5
<1>5. ASSUME NEW f \in S PROVE f + 1 \in S
  <2>1. f \in Nat /\ (f <= n => Carried(start, g[f]))
    OBVIOUS
  <2>2. SUFFICES ASSUME f + 1 <= n PROVE Carried(start, g[f + 1])
    BY <2>1
  <2>3. Carried(start, g[f]) /\ f + 1 \in 0 .. n /\ f + 1 - 1 = f /\ f + 1 # 0
    BY <1>1, <2>1, <2>2
  <2>4. f + 1 \in Fields
    BY <1>1, <2>1, <2>2 DEF Fields
  <2> DEFINE entry == Entry(row[f + 1], image[1].rowCount + 1)
  <2>5. g[f + 1] = AddField(g[f], f + 1, entry)
    BY <1>2, <2>3 DEF Fielded
  <2> HIDE DEF entry
  <2>6. QED
    BY <1>3, <2>3, <2>4, <2>5, FieldCarries
<1>6. S = Nat
  <2>1. S \in SUBSET Nat
    OBVIOUS
  <2> HIDE DEF S
  <2>2. QED
    BY <1>4, <1>5, <2>1, SetInduction
<1>7. QED
  BY <1>1, <1>6

LEMMA DirectoryEdit ==
    ASSUME NEW page, NEW roots, page = Directory(roots), NEW r
    PROVE  [page EXCEPT !.roots = r] = Directory(r)
  BY DEF Directory

LEMMA PlainTypes ==
    /\ \A roots : Directory(roots).type = "directory"
    /\ \A generation, count, directory, size :
          LET super == Superblock(generation, count, directory, size)
          IN  /\ super.type = "superblock" /\ super.rowsHead = 3
              /\ super.directory = directory /\ super.rowCount = size
  BY DEF Directory, Superblock

\* Every insert yields an image that holds the row as well.
LEMMA InsertHolds ==
    ASSUME NEW image, NEW table, IsSequence(table), NEW directory, NEW roots, NEW ids,
           Holds(image, table, directory, roots, ids), NEW row
    PROVE  \E after, more : Holds(BuildIncrementalInsert(image, row).pages, Append(table, row),
                                  directory, after, more)
<1> DEFINE start == AppendRow(image, row).pages
<1> DEFINE longer == Append(table, row)
<1>1. PICK g : InsertIs(g, image, row)
  BY InsertUnfold
<1> DEFINE done == g[FieldCount]
<1> DEFINE p1 == done.pages
<1>2. RowsMade(image, longer, directory, roots, start)
  BY RowMade
<1>3. /\ image[1].type = "superblock" /\ image[1].directory = directory
      /\ image[1].rowCount = Len(table) /\ directory \in 2 .. Len(image)
      /\ image[directory] = Directory(roots)
      /\ DOMAIN roots = Fields /\ \A f \in Fields : IsRoot(image, roots[f])
  BY DEF Holds
<1>4. IsSequence(longer) /\ Len(longer) = Len(table) + 1
  BY Appended
<1> HIDE DEF start, longer
<1>5. /\ Closed(start) /\ SameLevels(image, start) /\ start[1] = image[1]
      /\ start[directory] = Directory(roots)
  BY <1>2, <1>3 DEF RowsMade
<1>6. PICK more : /\ HoldsCells(start, more, RowStream(longer))
                  /\ \A i \in 1 .. Len(more) : more[i] # directory
  BY <1>2 DEF RowsMade
<1>7. Carried(start, done)
  <2>1. FieldedAll(g, image, row, FieldCount)
    BY <1>1 DEF InsertIs
  <2>2. start = AppendRow(image, row).pages
    BY DEF start
  <2>3. image[image[1].directory].roots = roots
    BY <1>3 DEF Directory
  <2>4. \A f \in Fields : IsRoot(start, roots[f])
    BY <1>3, <1>5, RootStays
  <2>5. QED
    BY <1>3, <1>5, <2>1, <2>2, <2>3, <2>4, FieldsCarried
<1>8. BuildIncrementalInsert(image, row).pages = Closing(image, done)
  BY <1>1 DEF InsertIs
<1> HIDE DEF done
<1>9. KeepsOthers(start, p1) /\ DOMAIN done.roots = Fields
      /\ \A f \in Fields : IsRoot(p1, done.roots[f])
  BY <1>7 DEF Carried
<1>10. /\ Len(image) \in Nat /\ Len(start) \in Nat /\ Len(p1) \in Nat
       /\ Len(image) <= Len(start) /\ Len(start) <= Len(p1) /\ Closed(p1) /\ IsSequence(start)
  BY <1>5, <1>9, SequenceParts DEF Holds, Closed, SameLevels, KeepsOthers
<1> HIDE DEF p1
<1>11. 1 \in 1 .. Len(start) /\ directory \in 1 .. Len(start) /\ directory # 1
       /\ directory \in 1 .. Len(p1) /\ 1 \in 1 .. Len(p1)
  BY <1>3, <1>10
<1>12. LevelOf(start, 1) = -1 /\ LevelOf(start, directory) = -1
  <2>1. Directory(roots).type = "directory"
    BY PlainTypes
  <2>2. QED
    BY <1>3, <1>5, <1>11, <2>1 DEF LevelOf, NodeLevel
<1>13. /\ p1[1] = image[1] /\ p1[directory] = Directory(roots)
       /\ LevelOf(p1, 1) = -1 /\ LevelOf(p1, directory) = -1
  BY <1>5, <1>9, <1>11, <1>12 DEF KeepsOthers
<1>14. RowIds(start, more)
  BY <1>6 DEF HoldsCells
<1>15. RowIds(p1, more) /\ CellsAt(p1, more) = CellsAt(start, more)
  <2>1. \A i \in 1 .. Len(more) : p1[more[i]] = start[more[i]]
    <3>1. SUFFICES ASSUME NEW i \in 1 .. Len(more) PROVE p1[more[i]] = start[more[i]]
      OBVIOUS
    <3>2. more[i] \in 1 .. Len(start) /\ LevelOf(start, more[i]) = -1
      BY <1>10, <1>14, RowLevel
    <3>3. QED
      BY <1>9, <3>2 DEF KeepsOthers
  <2>2. QED
    BY <1>10, <1>14, <2>1, RowsStay
<1> DEFINE page == Directory(done.roots)
<1> DEFINE p2 == Rooted(p1, directory, done.roots)
<1>16. IsEdit(p1, directory, page, p2)
  <2>1. p2 = [p1 EXCEPT ![directory] = [p1[directory] EXCEPT !.roots = done.roots]]
    BY DEF Rooted
  <2>2. [p1[directory] EXCEPT !.roots = done.roots] = page
    BY <1>13, DirectoryEdit
  <2> HIDE DEF p2, page
  <2>3. QED
    BY <2>1, <2>2 DEF IsEdit
<1> HIDE DEF p2
<1>17. page.type \notin {"leaf", "internal"}
  BY PlainTypes
<1> HIDE DEF page
<1>18. /\ Closed(p2) /\ SameLevels(p1, p2) /\ Len(p2) = Len(p1) /\ p2[directory] = page
       /\ \A p \in 1 .. Len(p1) : p # directory => p2[p] = p1[p]
  BY <1>10, <1>11, <1>13, <1>16, <1>17, RowEdit
<1> DEFINE super == Superblock(image[1].generation + 1, Len(p1), image[1].directory,
                               image[1].rowCount + 1)
<1> DEFINE p3 == Headed(p2, super)
<1>19. BuildIncrementalInsert(image, row).pages = p3
  BY <1>3, <1>8 DEF Closing, p1, p2
<1>20. IsEdit(p2, 1, super, p3)
  BY DEF Headed, IsEdit
<1> HIDE DEF p3
<1>21. /\ super.type = "superblock" /\ super.rowsHead = 3
       /\ super.directory = directory /\ super.rowCount = Len(longer)
  BY <1>3, <1>4, PlainTypes
<1> HIDE DEF super
<1>22. /\ Closed(p3) /\ SameLevels(p2, p3) /\ Len(p3) = Len(p2) /\ p3[1] = super
       /\ \A p \in 1 .. Len(p2) : p # 1 => p3[p] = p2[p]
  <2>1. 1 \in 1 .. Len(p2) /\ LevelOf(p2, 1) = -1
    BY <1>11, <1>13, <1>18 DEF SameLevels
  <2>2. super.type \notin {"leaf", "internal"}
    BY <1>21
  <2>3. QED
    BY <1>18, <1>20, <2>1, <2>2, RowEdit
<1>23. p3[directory] = Directory(done.roots) /\ directory \in 2 .. Len(p3)
  BY <1>3, <1>10, <1>11, <1>18, <1>22 DEF page
<1>24. HoldsCells(p3, more, RowStream(longer))
  <2>1. \A i \in 1 .. Len(more) : p3[more[i]] = p1[more[i]]
    <3>1. SUFFICES ASSUME NEW i \in 1 .. Len(more) PROVE p3[more[i]] = p1[more[i]]
      OBVIOUS
    <3>2. more[i] \in 1 .. Len(p1) /\ more[i] # 1 /\ more[i] # directory
      <4>1. more[i] \in 1 .. Len(p1) /\ more[i] >= 3
        BY <1>10, <1>15, RowLevel DEF Closed
      <4>2. QED
        BY <1>6, <4>1
    <3>3. QED
      BY <1>18, <1>22, <3>2
  <2>2. RowIds(p3, more) /\ CellsAt(p3, more) = CellsAt(p1, more)
    <3>1. Len(p3) \in Nat /\ Len(p1) <= Len(p3)
      BY <1>10, <1>18, <1>22
    <3>2. QED
      BY <1>10, <1>15, <2>1, <3>1, RowsStay
  <2>3. QED
    BY <1>6, <1>15, <2>2 DEF HoldsCells
<1>25. \A f \in Fields : IsRoot(p3, done.roots[f])
  BY <1>9, <1>18, <1>22, RootStays
<1>26. Holds(p3, longer, directory, done.roots, more)
  BY <1>6, <1>9, <1>21, <1>22, <1>23, <1>24, <1>25 DEF Holds
<1>27. QED
  BY <1>19, <1>26 DEF longer

\* The rows that an image gives back.
LEMMA StoredIs ==
    ASSUME NEW image, NEW table, IsSequence(table), NEW directory, NEW roots, NEW ids,
           Holds(image, table, directory, roots, ids)
    PROVE  /\ StoredRows(image) = table /\ StoredCells(image) = RowStream(table)
           /\ Last(Chain(image, image[1].rowsHead, "rows")) = NoPage
           /\ image[1].rowCount = Len(table)
<1>1. /\ IsSequence(image) /\ image[1].rowsHead = 3 /\ RowIds(image, ids)
      /\ FlattenSeq(CellsAt(image, ids)) = RowStream(table) /\ IsSequence(ids)
      /\ image[1].rowCount = Len(table)
  BY DEF Holds, HoldsCells, Closed, RowIds
<1>2. StoredCells(image) = RowStream(table)
  BY <1>1, StoredAre
<1>3. DecodeRows(RowStream(table)) = table
  BY DecodeStream
<1>4. StoredRows(image) = table
  BY <1>2, <1>3 DEF StoredRows
<1>5. Chain(image, 3, "rows") = Append(ids, NoPage)
  BY <1>1, ChainIs
<1>6. Last(Append(ids, NoPage)) = NoPage
  BY <1>1, FrontLast
<1>7. QED
  BY <1>1, <1>2, <1>4, <1>5, <1>6

-----------------------------------------------------------------------------
(* A packed index: every level's nodes are on one level *)

LEMMA EmptyFits ==
    ASSUME NEW s, IsSequence(s)
    PROVE  Fits(SubSeq(s, 1, 0))
<1> DEFINE u == SubSeq(s, 1, 0)
<1> DEFINE keys == [i \in DOMAIN u |-> u[i].key]
<1>1. Len(u) = 0
  <2>1. PICK S : s \in Seq(S)
    BY DEF IsSequence
  <2>2. QED
    BY <2>1
<1>2. NodeCells(u) = CellsOf(keys, Len(u))
  BY DEF NodeCells
<1> HIDE DEF keys, u
<1>3. PICK g : Counts(g, keys, 0) /\ CellsOf(keys, 0) = g[0]
  BY CellsUnfold
<1>4. NodeCells(u) = 0
  BY <1>1, <1>2, <1>3 DEF Counts
<1>5. QED
  BY <1>4, PayloadAssumption DEF Fits, u

\* A prefix that fits and cannot grow always exists.
LEMMA FittingIs ==
    ASSUME NEW s, IsSequence(s)
    PROVE  FittingPrefix(s) \in 0 .. Len(s)
<1> DEFINE ok(n) == Fits(SubSeq(s, 1, n)) /\ (n = Len(s) \/ ~Fits(SubSeq(s, 1, n + 1)))
<1>1. Len(s) \in Nat
  BY SequenceParts
<1>2. \E n \in 0 .. Len(s) : ok(n)
  <2>1. SUFFICES ASSUME \A n \in 0 .. Len(s) : ~ok(n) PROVE FALSE
    OBVIOUS
  <2> DEFINE S == {n \in Nat : n <= Len(s) => Fits(SubSeq(s, 1, n))}
  <2>2. 0 \in S
    BY EmptyFits
  <2>3. ASSUME NEW n \in S PROVE n + 1 \in S
    <3>1. n \in Nat /\ (n <= Len(s) => Fits(SubSeq(s, 1, n)))
      OBVIOUS
    <3>2. SUFFICES ASSUME n + 1 <= Len(s) PROVE Fits(SubSeq(s, 1, n + 1))
      BY <3>1
    <3>3. n \in 0 .. Len(s) /\ n # Len(s) /\ Fits(SubSeq(s, 1, n))
      BY <1>1, <3>1, <3>2
    <3>4. QED
      BY <2>1, <3>3
  <2>4. S = Nat
    <3>1. S \in SUBSET Nat
      OBVIOUS
    <3> HIDE DEF S
    <3>2. QED
      BY <2>2, <2>3, <3>1, SetInduction
  <2>5. Fits(SubSeq(s, 1, Len(s))) /\ Len(s) \in 0 .. Len(s)
    BY <1>1, <2>4
  <2>6. QED
    BY <2>1, <2>5
<1>3. FittingPrefix(s) = CHOOSE n \in 0 .. Len(s) : ok(n)
  BY DEF FittingPrefix
<1> HIDE DEF ok
<1>4. QED
  BY <1>2, <1>3

LEMMA TailIs ==
    ASSUME NEW s, IsSequence(s), Len(s) >= 1
    PROVE  IsSequence(Tail(s)) /\ Len(Tail(s)) = Len(s) - 1
<1>1. PICK S : s \in Seq(S)
  BY DEF IsSequence
<1>2. s # <<>>
  OBVIOUS
<1>3. QED
  BY <1>1, <1>2 DEF IsSequence

\* A parent takes one of the nodes left at least, and no more than there are.
LEMMA GroupIs ==
    ASSUME NEW s, IsSequence(s), Len(s) >= 1
    PROVE  GroupSize(s) \in 1 .. Len(s)
<1> DEFINE fitting == 1 + FittingPrefix(Tail(s))
<1>1. Len(s) \in Nat /\ IsSequence(Tail(s)) /\ Len(Tail(s)) = Len(s) - 1
  BY SequenceParts, TailIs
<1>2. FittingPrefix(Tail(s)) \in 0 .. Len(s) - 1
  BY <1>1, FittingIs
<1>3. fitting \in 1 .. Len(s)
  BY <1>1, <1>2
<1>4. GroupSize(s) = IF Len(s) - fitting = 1 /\ fitting > 2 THEN fitting - 1 ELSE fitting
  BY DEF GroupSize
<1> HIDE DEF fitting
<1>5. QED
  BY <1>1, <1>3, <1>4

\* A parent of nodes one level below.
Parent(image, level, node) ==
    \E separators, children :
       /\ node = Internal(level, separators, children)
       /\ IsSequence(separators) /\ IsSequence(children)
       /\ Len(children) = Len(separators) + 1 /\ AllOfLevel(image, children, level - 1)
\* The parents made so far, and the nodes left.
Parented(image, level, up) ==
    /\ IsSequence(up.nodes) /\ IsSequence(up.minima) /\ Len(up.minima) = Len(up.nodes)
    /\ IsSequence(up.ids) /\ IsSequence(up.left) /\ Len(up.left) = Len(up.ids)
    /\ AllOfLevel(image, up.ids, level - 1)
    /\ \A j \in 1 .. Len(up.nodes) : Parent(image, level, up.nodes[j])
    /\ Len(up.nodes) >= 1 \/ Len(up.ids) >= 1

LEMMA ParentMade ==
    ASSUME NEW image, NEW level, NEW up, Parented(image, level, up)
    PROVE  /\ Parented(image, level, PackParent(up, level))
           /\ Len(PackParent(up, level).nodes) >= 1
<1> DEFINE nodes == up.nodes
<1> DEFINE minima == up.minima
<1> DEFINE ids == up.ids
<1> DEFINE left == up.left
<1> DEFINE n == GroupSize(left)
<1> DEFINE head == SubSeq(left, 1, n)
<1> DEFINE children == SubSeq(ids, 1, n)
<1> DEFINE node == Internal(level, Tail(head), children)
<1> DEFINE nodes2 == Append(nodes, node)
<1> DEFINE minima2 == Append(minima, left[1])
<1> DEFINE ids2 == SubSeq(ids, n + 1, Len(ids))
<1> DEFINE left2 == SubSeq(left, n + 1, Len(left))
<1>1. PackParent(up, level) =
          IF ids = <<>> THEN up
          ELSE [nodes |-> nodes2, minima |-> minima2, ids |-> ids2, left |-> left2]
  BY DEF PackParent
<1>2. /\ IsSequence(nodes) /\ IsSequence(minima) /\ Len(minima) = Len(nodes)
      /\ IsSequence(ids) /\ IsSequence(left) /\ Len(left) = Len(ids)
      /\ AllOfLevel(image, ids, level - 1)
      /\ (\A j \in 1 .. Len(nodes) : Parent(image, level, nodes[j]))
      /\ Len(nodes) >= 1 \/ Len(ids) >= 1
  BY DEF Parented
<1> HIDE DEF nodes, minima, ids, left
<1>3. Len(ids) \in Nat /\ Len(nodes) \in Nat /\ (ids = <<>> <=> Len(ids) = 0)
  BY <1>2, SequenceParts, FlattenNone, NoSequence
<1>4. CASE ids = <<>>
  <2>1. PackParent(up, level) = up
    BY <1>1, <1>4
  <2>2. Len(nodes) >= 1
    BY <1>2, <1>3, <1>4
  <2>3. QED
    BY <2>1, <2>2 DEF nodes
<1>5. CASE ids # <<>>
  <2>1. Len(left) >= 1
    BY <1>2, <1>3, <1>5
  <2>2. n \in 1 .. Len(left)
    BY <1>2, <2>1, GroupIs
  <2> HIDE DEF n
  <2>3. /\ 1 \in Nat \ {0} /\ n \in Nat /\ n <= Len(ids) /\ n <= Len(left) /\ 1 <= n + 1 /\ n >= 1
        /\ n + 1 \in Nat \ {0} /\ n + 1 <= Len(ids) + 1 /\ Len(ids) <= Len(ids)
        /\ n - 1 + 1 = n /\ Len(left) <= Len(left) /\ n + 1 <= Len(left) + 1 /\ Len(left) \in Nat
    BY <1>2, <1>3, <2>2
  <2>4. IsSequence(head) /\ Len(head) = n
    <3>1. IsSequence(SubSeq(left, 1, n)) /\ Len(SubSeq(left, 1, n)) = n - 1 + 1
      BY <1>2, <2>3, Slice
    <3>2. QED
      BY <2>3, <3>1
  <2>5. IsSequence(children) /\ Len(children) = n /\ \A c \in 1 .. n : children[c] = ids[c]
    <3>1. /\ IsSequence(SubSeq(ids, 1, n)) /\ Len(SubSeq(ids, 1, n)) = n - 1 + 1
          /\ \A c \in 1 .. n - 1 + 1 : SubSeq(ids, 1, n)[c] = ids[1 + c - 1]
      BY <1>2, <2>3, Slice
    <3>2. \A c \in 1 .. n : 1 + c - 1 = c
      OBVIOUS
    <3>3. QED
      BY <2>3, <3>1, <3>2
  <2>6. IsSequence(ids2) /\ Len(ids2) = Len(ids) - n /\ \A c \in 1 .. Len(ids) - n : ids2[c] = ids[n + c]
    <3>1. /\ IsSequence(SubSeq(ids, n + 1, Len(ids)))
          /\ Len(SubSeq(ids, n + 1, Len(ids))) = Len(ids) - (n + 1) + 1
          /\ \A c \in 1 .. Len(ids) - (n + 1) + 1 : SubSeq(ids, n + 1, Len(ids))[c] = ids[n + 1 + c - 1]
      BY <1>2, <1>3, <2>3, Slice
    <3>2. Len(ids) - (n + 1) + 1 = Len(ids) - n
      BY <1>3, <2>3
    <3>3. \A c \in 1 .. Len(ids) - n : n + 1 + c - 1 = n + c
      BY <1>3, <2>3
    <3>4. QED
      BY <3>1, <3>2, <3>3
  <2>7. IsSequence(left2) /\ Len(left2) = Len(left) - n
    <3>1. /\ IsSequence(SubSeq(left, n + 1, Len(left)))
          /\ Len(SubSeq(left, n + 1, Len(left))) = Len(left) - (n + 1) + 1
      BY <1>2, <2>3, Slice
    <3>2. Len(left) - (n + 1) + 1 = Len(left) - n
      BY <2>3
    <3>3. QED
      BY <3>1, <3>2
  <2> DEFINE separators == Tail(head)
  <2>8. IsSequence(separators) /\ Len(separators) = n - 1
    BY <2>3, <2>4, TailIs
  <2>9. AllOfLevel(image, children, level - 1)
    <3>1. SUFFICES ASSUME NEW c \in 1 .. n PROVE LevelOf(image, children[c]) = level - 1
      BY <2>5 DEF AllOfLevel
    <3>2. c \in 1 .. Len(ids)
      BY <1>3, <2>3
    <3>3. QED
      BY <1>2, <2>5, <3>2 DEF AllOfLevel
  <2>10. AllOfLevel(image, ids2, level - 1)
    <3>1. SUFFICES ASSUME NEW c \in 1 .. Len(ids) - n PROVE LevelOf(image, ids2[c]) = level - 1
      BY <2>6 DEF AllOfLevel
    <3>2. n + c \in 1 .. Len(ids)
      BY <1>3, <2>3
    <3>3. QED
      BY <1>2, <2>6, <3>2 DEF AllOfLevel
  <2> HIDE DEF head, children, ids2, left2, separators
  <2>11. Parent(image, level, node)
    <3>1. node = Internal(level, separators, children)
      BY DEF separators
    <3>2. Len(children) = Len(separators) + 1
      BY <2>3, <2>5, <2>8
    <3> HIDE DEF node
    <3>3. QED
      BY <2>5, <2>8, <2>9, <3>1, <3>2 DEF Parent
  <2> HIDE DEF node
  <2>12. /\ IsSequence(nodes2) /\ Len(nodes2) = Len(nodes) + 1 /\ nodes2[Len(nodes) + 1] = node
         /\ \A j \in 1 .. Len(nodes) : nodes2[j] = nodes[j]
    BY <1>2, Appended
  <2>13. IsSequence(minima2) /\ Len(minima2) = Len(minima) + 1
    BY <1>2, Appended
  <2> HIDE DEF nodes2, minima2
  <2>14. \A j \in 1 .. Len(nodes2) : Parent(image, level, nodes2[j])
    <3>1. SUFFICES ASSUME NEW j \in 1 .. Len(nodes) + 1 PROVE Parent(image, level, nodes2[j])
      BY <2>12
    <3>2. CASE j = Len(nodes) + 1
      BY <2>11, <2>12, <3>2
    <3>3. CASE j # Len(nodes) + 1
      <4>1. j \in 1 .. Len(nodes)
        BY <1>3, <3>3
      <4>2. QED
        BY <1>2, <2>12, <4>1
    <3>4. QED
      BY <3>2, <3>3
  <2> DEFINE more == PackParent(up, level)
  <2>15. more.nodes = nodes2 /\ more.minima = minima2 /\ more.ids = ids2 /\ more.left = left2
    BY <1>1, <1>5
  <2> HIDE DEF more
  <2>16. Len(nodes2) >= 1 /\ Len(minima2) = Len(nodes2) /\ Len(left2) = Len(ids2)
    BY <1>2, <1>3, <2>6, <2>7, <2>12, <2>13
  <2>17. Parented(image, level, more)
    BY <2>6, <2>7, <2>10, <2>12, <2>13, <2>14, <2>15, <2>16 DEF Parented
  <2>18. QED
    BY <2>15, <2>16, <2>17 DEF more
<1>6. QED
  BY <1>4, <1>5

LEMMA ParentsMade ==
    ASSUME NEW image, NEW level, NEW ids, IsSequence(ids), Len(ids) >= 1,
           AllOfLevel(image, ids, level - 1),
           NEW minima, IsSequence(minima), Len(minima) = Len(ids)
    PROVE  LET up == PackParents(level, ids, minima)
           IN  Parented(image, level, up) /\ Len(up.nodes) >= 1
<1> DEFINE n == Len(ids)
<1> DEFINE P(g) == g = [k \in 0 .. n |->
                          IF k = 0 THEN [nodes |-> <<>>, minima |-> <<>>, ids |-> ids,
                                         left |-> minima]
                          ELSE PackParent(g[k - 1], level)]
<1> DEFINE up == CHOOSE g : P(g)
<1>1. n \in Nat /\ n >= 1
  BY SequenceParts
<1>2. \A g : P(g) <=> RaisedAll(g, level, ids, minima, n)
  BY DEF RaisedAll, Raised
<1>3. RaisedAll(up, level, ids, minima, n)
  <2>1. \E g : RaisedAll(g, level, ids, minima, n)
    <3> HIDE DEF n
    <3>1. QED
      BY <1>1, RaisedExist
  <2>2. \E g : P(g)
    <3> HIDE DEF P
    <3>1. QED
      BY <1>2, <2>1
  <2> HIDE DEF P
  <2>3. P(up)
    BY <2>2
  <2>4. QED
    BY <1>2, <2>3
<1>4. PackParents(level, ids, minima) = up[n]
  BY DEF PackParents
<1> HIDE DEF up, P
<1>5. \A k \in 0 .. n : up[k] = Raised(level, ids, minima, k, up[k - 1])
  BY <1>3 DEF RaisedAll
<1> DEFINE Made(k) == Parented(image, level, up[k]) /\ (k # 0 => Len(up[k].nodes) >= 1)
<1> DEFINE S == {k \in Nat : k <= n => Made(k)}
<1>6. 0 \in S
  <2>1. up[0] = Raised(level, ids, minima, 0, up[0 - 1])
    BY <1>1, <1>5
  <2> DEFINE none == up[0]
  <2>2. /\ none.nodes = <<>> /\ none.minima = <<>> /\ none.ids = ids /\ none.left = minima
    BY <2>1 DEF Raised
  <2> HIDE DEF none
  <2>3. \A j \in 1 .. Len(none.nodes) : Parent(image, level, none.nodes[j])
    BY <2>2, NoSequence
  <2>4. Parented(image, level, none)
    BY <2>2, <2>3, NoSequence DEF Parented
  <2>5. QED
    BY <2>4 DEF none
<1> HIDE DEF n
<1>7. ASSUME NEW k \in S PROVE k + 1 \in S
  <2>1. k \in Nat /\ (k <= n => Made(k))
    OBVIOUS
  <2>2. SUFFICES ASSUME k + 1 <= n PROVE Made(k + 1)
    BY <2>1
  <2>3. Parented(image, level, up[k]) /\ k + 1 \in 0 .. n /\ k + 1 - 1 = k /\ k + 1 # 0
    BY <1>1, <2>1, <2>2
  <2>4. up[k + 1] = Raised(level, ids, minima, k + 1, up[k])
    BY <1>5, <2>3
  <2>5. up[k + 1] = PackParent(up[k], level)
    BY <2>3, <2>4 DEF Raised
  <2>6. QED
    BY <2>3, <2>5, ParentMade
<1>8. S = Nat
  <2>1. S \in SUBSET Nat
    OBVIOUS
  <2> HIDE DEF S
  <2>2. QED
    BY <1>6, <1>7, <2>1, SetInduction
<1>9. Made(n)
  BY <1>1, <1>8
<1>10. QED
  BY <1>1, <1>4, <1>9

LEMMA JoinKeeps ==
    ASSUME NEW image, NEW more, NEW new, Follows(image, more, new), Len(image) \in Nat,
           Len(more) \in Nat
    PROVE  KeepsOthers(image, new)
  BY DEF Follows, SameLevels, KeepsOthers

\* The ids of pages added behind others.
LEMMA IdsBehind ==
    ASSUME NEW n \in Nat, NEW s, IsSequence(s)
    PROVE  LET ids == [i \in DOMAIN s |-> n + i]
           IN  IsSequence(ids) /\ Len(ids) = Len(s) /\ \A i \in 1 .. Len(s) : ids[i] = n + i
<1> DEFINE ids == [i \in DOMAIN s |-> n + i]
<1>1. Len(s) \in Nat /\ DOMAIN s = 1 .. Len(s)
  BY SequenceParts
<1>2. IsOver(ids, Len(s)) /\ DOMAIN ids = 1 .. Len(s) /\ \A i \in 1 .. Len(s) : ids[i] = n + i
  BY <1>1 DEF IsOver
<1> HIDE DEF ids
<1>3. IsSequence(ids)
  BY <1>1, <1>2, SequenceOf
<1>4. Len(ids) = Len(s)
  BY <1>1, <1>2, <1>3, LengthOf
<1>5. QED
  BY <1>2, <1>3, <1>4 DEF ids

\* The levels built so far: the nodes of the highest one are to get parents.
Tower(image, built) ==
    /\ KeepsOthers(image, built.pages)
    /\ built.level \in 1 .. Len(built.pages)
    /\ IsSequence(built.ids) /\ Len(built.ids) >= 1
    /\ IsSequence(built.minima) /\ Len(built.minima) = Len(built.ids)
    /\ AllOfLevel(built.pages, built.ids, built.level - 1)

\* A parent above the nodes of a level of an image.
Above(image, level, separators, children) ==
    /\ IsSequence(separators) /\ IsSequence(children) /\ level \in 1 .. Len(image) - 1
    /\ Len(children) = Len(separators) + 1
    /\ AllOfLevel(image, children, level - 1)

LEMMA ParentShape ==
    ASSUME NEW image, NEW level, NEW separators, NEW children,
           Above(image, level, separators, children)
    PROVE  /\ GoodPage(image, Internal(level, separators, children))
           /\ NodeLevel(Internal(level, separators, children)) = level
<1>1. /\ IsSequence(separators) /\ IsSequence(children) /\ level \in 1 .. Len(image) - 1
      /\ Len(children) = Len(separators) + 1
  BY DEF Above
<1>2. AllOfLevel(image, children, level - 1)
  BY DEF Above
<1>3. QED
  BY <1>1, <1>2, InternalShape

LEMMA ParentGood ==
    ASSUME NEW image, IsSequence(image), NEW more, IsSequence(more), Len(more) >= 1,
           NEW new, new = image \o more, NEW level, level \in 1 .. Len(image),
           NEW node, Parent(image, level, node)
    PROVE  GoodPage(new, node) /\ NodeLevel(node) = level
<1>1. PICK separators, children :
         /\ node = Internal(level, separators, children)
         /\ IsSequence(separators) /\ IsSequence(children)
         /\ Len(children) = Len(separators) + 1 /\ AllOfLevel(image, children, level - 1)
  BY DEF Parent
<1>2. JoinedPages(image, more, new)
  BY JoinLevels
<1>3. /\ Len(new) = Len(image) + Len(more) /\ Len(image) \in Nat /\ Len(more) \in Nat
      /\ \A p \in 1 .. Len(image) : LevelOf(new, p) = LevelOf(image, p)
  BY <1>2 DEF JoinedPages
<1>4. level \in 1 .. Len(new) - 1
  BY <1>3
<1>5. AllOfLevel(new, children, level - 1)
  <2>1. SUFFICES ASSUME NEW c \in 1 .. Len(children) PROVE LevelOf(new, children[c]) = level - 1
    BY DEF AllOfLevel
  <2>2. LevelOf(image, children[c]) = level - 1
    BY <1>1 DEF AllOfLevel
  <2>3. children[c] \in 1 .. Len(image)
    BY <1>3, <2>2 DEF LevelOf
  <2>4. QED
    BY <1>3, <2>2, <2>3
<1>6. /\ GoodPage(new, Internal(level, separators, children))
      /\ NodeLevel(Internal(level, separators, children)) = level
  <2>1. /\ IsSequence(separators) /\ IsSequence(children) /\ level \in 1 .. Len(new) - 1
        /\ Len(children) = Len(separators) + 1
    BY <1>1, <1>4
  <2>2. Above(new, level, separators, children)
    BY <1>5, <2>1 DEF Above
  <2>3. QED
    BY <2>2, ParentShape
<1>7. QED
  BY <1>1, <1>6

LEMMA LevelRaised ==
    ASSUME NEW image, IsSequence(image), NEW built, Tower(image, built)
    PROVE  Tower(image, RaiseLevel(built))
<1> DEFINE pgs == built.pages
<1> DEFINE level == built.level
<1> DEFINE up == PackParents(level, built.ids, built.minima)
<1> DEFINE nodes == up.nodes
<1> DEFINE minima == up.minima
<1> DEFINE ids == [i \in DOMAIN nodes |-> Len(pgs) + i]
<1> DEFINE new == pgs \o nodes
<1>1. RaiseLevel(built) = IF Len(built.ids) = 1 THEN built
                          ELSE [pages |-> new, level |-> level + 1, ids |-> ids, minima |-> minima]
  BY DEF RaiseLevel, WithParents
<1>2. /\ Closed(pgs) /\ IsSequence(pgs) /\ KeepsOthers(image, pgs) /\ level \in 1 .. Len(pgs)
      /\ Len(pgs) \in Nat
  BY SequenceParts DEF Tower, KeepsOthers, Closed
<1>3. Parented(pgs, level, up) /\ Len(nodes) >= 1
  <2>1. /\ IsSequence(built.ids) /\ Len(built.ids) >= 1
        /\ IsSequence(built.minima) /\ Len(built.minima) = Len(built.ids)
        /\ AllOfLevel(pgs, built.ids, level - 1)
    BY DEF Tower
  <2>2. QED
    BY <2>1, ParentsMade
<1>4. /\ IsSequence(nodes) /\ IsSequence(minima) /\ Len(minima) = Len(nodes)
      /\ \A j \in 1 .. Len(nodes) : Parent(pgs, level, nodes[j])
  BY <1>3 DEF Parented
<1> HIDE DEF pgs, level, nodes, minima, up
<1>5. IsSequence(ids) /\ Len(ids) = Len(nodes) /\ \A i \in 1 .. Len(nodes) : ids[i] = Len(pgs) + i
  BY <1>2, <1>4, IdsBehind
<1>6. \A j \in 1 .. Len(nodes) : GoodPage(new, nodes[j]) /\ NodeLevel(nodes[j]) = level
  <2>1. SUFFICES ASSUME NEW j \in 1 .. Len(nodes)
                 PROVE  GoodPage(new, nodes[j]) /\ NodeLevel(nodes[j]) = level
    OBVIOUS
  <2>2. Parent(pgs, level, nodes[j])
    BY <1>4
  <2>3. QED
    BY <1>2, <1>3, <1>4, <2>2, ParentGood
<1>7. JoinedPages(pgs, nodes, new)
  BY <1>2, <1>4, JoinLevels
<1>8. Follows(pgs, nodes, new)
  BY <1>2, <1>4, <1>6, PagesJoined
<1> HIDE DEF ids, new
<1>9. KeepsOthers(image, new)
  <2>1. Len(nodes) \in Nat
    BY <1>4, SequenceParts
  <2>2. KeepsOthers(pgs, new)
    BY <1>2, <1>8, <2>1, JoinKeeps
  <2>3. QED
    BY <1>2, <2>2, KeepsOthersTwice
<1>10. AllOfLevel(new, ids, level)
  <2>1. SUFFICES ASSUME NEW i \in 1 .. Len(nodes) PROVE LevelOf(new, ids[i]) = level
    BY <1>5 DEF AllOfLevel
  <2>2. QED
    BY <1>5, <1>6, <1>7 DEF JoinedPages
<1>11. level + 1 \in 1 .. Len(new) /\ level + 1 - 1 = level
  <2>1. Len(new) = Len(pgs) + Len(nodes) /\ Len(nodes) \in Nat
    BY <1>7 DEF JoinedPages
  <2>2. QED
    BY <1>2, <1>3, <2>1
<1> DEFINE raised == RaiseLevel(built)
<1>12. CASE Len(built.ids) = 1
  BY <1>1, <1>12
<1>13. CASE Len(built.ids) # 1
  <2>1. /\ raised.pages = new /\ raised.level = level + 1 /\ raised.ids = ids
        /\ raised.minima = minima
    BY <1>1, <1>13
  <2> HIDE DEF raised
  <2>6. raised.level - 1 = level
    BY <1>2, <1>11, <2>1
  <2>2. /\ KeepsOthers(image, raised.pages) /\ raised.level \in 1 .. Len(raised.pages)
        /\ AllOfLevel(raised.pages, raised.ids, raised.level - 1)
    BY <1>9, <1>10, <1>11, <2>1, <2>6
  <2>3. /\ IsSequence(raised.ids) /\ Len(raised.ids) >= 1
        /\ IsSequence(raised.minima) /\ Len(raised.minima) = Len(raised.ids)
    BY <1>3, <1>4, <1>5, <2>1
  <2>4. Tower(image, raised)
    BY <2>2, <2>3 DEF Tower
  <2>5. QED
    BY <2>4 DEF raised
<1>14. QED
  BY <1>12, <1>13

\* The leaves, linked one to the next.
LeafId(image, packed, i) == IF i \in DOMAIN packed THEN Len(image) + i ELSE NoPage

LEMMA LeavesRaised ==
    ASSUME NEW image, Closed(image), NEW packed, IsSequence(packed), Len(packed) >= 1
    PROVE  Tower(image, WithLeaves(image, packed))
<1> DEFINE n == Len(image)
<1> DEFINE k == Len(packed)
<1> DEFINE leaves == Leaves(image, packed)
<1> DEFINE ids == [i \in DOMAIN packed |-> n + i]
<1> DEFINE minima == [i \in DOMAIN packed |-> packed[i][1]]
<1> DEFINE new == image \o leaves
<1> DEFINE built == WithLeaves(image, packed)
<1>1. /\ IsSequence(image) /\ n \in Nat /\ k \in Nat /\ k >= 1 /\ DOMAIN packed = 1 .. k
  BY SequenceParts DEF Closed
<1>2. built.pages = new /\ built.level = 1 /\ built.ids = ids /\ built.minima = minima
  BY DEF WithLeaves
<1>3. IsSequence(ids) /\ Len(ids) = k /\ \A i \in 1 .. k : ids[i] = n + i
  BY <1>1, IdsBehind
<1>4. IsSequence(minima) /\ Len(minima) = k
  <2>1. IsOver(minima, k) /\ DOMAIN minima = 1 .. k
    BY <1>1 DEF IsOver
  <2> HIDE DEF minima, k
  <2>2. IsSequence(minima)
    BY <1>1, <2>1, SequenceOf
  <2>3. QED
    BY <1>1, <2>1, <2>2, LengthOf
<1>5. leaves = [i \in 1 .. k |-> Leaf(LeafId(image, packed, i - 1), LeafId(image, packed, i + 1),
                                      packed[i])]
  BY <1>1 DEF Leaves, LeafId
<1> HIDE DEF leaves, built, ids, minima
<1>6. IsSequence(leaves) /\ Len(leaves) = k
  <2>1. IsOver(leaves, k) /\ DOMAIN leaves = 1 .. k
    BY <1>5 DEF IsOver
  <2> HIDE DEF k
  <2>2. IsSequence(leaves)
    BY <1>1, <2>1, SequenceOf
  <2>3. QED
    BY <1>1, <2>1, <2>2, LengthOf
<1>7. JoinedPages(image, leaves, new)
  BY <1>1, <1>6, JoinLevels
<1>8. \A i \in 1 .. k : NodeLevel(leaves[i]) = 0
  BY <1>5 DEF Leaf, NodeLevel
<1>9. \A i \in 1 .. k : LevelOf(new, n + i) = 0
  BY <1>6, <1>7, <1>8 DEF JoinedPages
<1> HIDE DEF n, k, new
<1>10. ASSUME NEW i \in 1 .. k PROVE GoodPage(new, leaves[i])
  <2> DEFINE next == LeafId(image, packed, i + 1)
  <2> DEFINE previous == LeafId(image, packed, i - 1)
  <2> DEFINE entries == packed[i]
  <2>1. leaves[i] = Leaf(previous, next, entries)
    BY <1>5
  <2>2. next # NoPage => LevelOf(new, next) = 0
    BY <1>1, <1>9 DEF LeafId, n
  <2> HIDE DEF next, previous, entries
  <2>3. GoodPage(new, Leaf(previous, next, entries))
    BY <2>2, LeafShape
  <2>4. QED
    BY <2>1, <2>3
<1>11. Follows(image, leaves, new)
  <2>1. new = image \o leaves
    BY DEF new
  <2>2. \A j \in 1 .. Len(leaves) : GoodPage(new, leaves[j])
    BY <1>6, <1>10
  <2>3. QED
    BY <1>6, <2>1, <2>2, PagesJoined
<1>12. KeepsOthers(image, new) /\ Len(new) = n + k
  <2>1. Len(image) \in Nat /\ Len(leaves) \in Nat
    BY <1>1, <1>6 DEF n
  <2>2. KeepsOthers(image, new)
    BY <1>11, <2>1, JoinKeeps
  <2>3. QED
    BY <1>6, <1>11, <2>2 DEF Follows, n
<1>13. AllOfLevel(new, ids, 1 - 1)
  <2>1. SUFFICES ASSUME NEW i \in 1 .. k PROVE LevelOf(new, ids[i]) = 0
    BY <1>3 DEF AllOfLevel
  <2>2. QED
    BY <1>3, <1>9
<1>14. 1 \in 1 .. Len(new)
  BY <1>1, <1>12
<1>15. Tower(image, built)
  BY <1>1, <1>2, <1>3, <1>4, <1>12, <1>13, <1>14 DEF Tower
<1>16. QED
  BY <1>15 DEF built

\* The leaves packed: at least one, when there is an entry.
LEMMA LeafBegun ==
    ASSUME NEW packed, IsSequence(packed.leaves),
           packed.left # <<>> \/ Len(packed.leaves) >= 1
    PROVE  IsSequence(PackLeaf(packed).leaves) /\ Len(PackLeaf(packed).leaves) >= 1
<1> DEFINE n == FittingPrefix(packed.left)
<1> DEFINE leaf == SubSeq(packed.left, 1, n)
<1> DEFINE rest == SubSeq(packed.left, n + 1, Len(packed.left))
<1> DEFINE leaves == packed.leaves
<1> DEFINE more == Append(leaves, leaf)
<1>1. PackLeaf(packed) = IF packed.left = <<>> THEN packed ELSE [leaves |-> more, left |-> rest]
  BY DEF PackLeaf
<1>2. IsSequence(leaves) /\ Len(leaves) \in Nat
  BY SequenceParts
<1> HIDE DEF leaf, rest, leaves
<1>3. IsSequence(more) /\ Len(more) = Len(leaves) + 1
  BY <1>2, Appended
<1> HIDE DEF more
<1>4. CASE packed.left = <<>>
  BY <1>1, <1>2, <1>4 DEF leaves
<1>5. CASE packed.left # <<>>
  <2>1. PackLeaf(packed).leaves = more
    BY <1>1, <1>5
  <2>2. QED
    BY <1>2, <1>3, <2>1
<1>6. QED
  BY <1>4, <1>5

LEMMA LeavesMade ==
    ASSUME NEW entries, IsSequence(entries), entries # <<>>
    PROVE  IsSequence(PackLeaves(entries)) /\ Len(PackLeaves(entries)) >= 1
<1> DEFINE n == Len(entries)
<1> DEFINE P(g) == g = [k \in 0 .. n |-> IF k = 0 THEN [leaves |-> <<>>, left |-> entries]
                                         ELSE PackLeaf(g[k - 1])]
<1> DEFINE packed == CHOOSE g : P(g)
<1>1. n \in Nat /\ n >= 1
  <2>1. n \in Nat /\ (n = 0 => entries = <<>>)
    BY SequenceParts DEF IsSequence
  <2>2. QED
    BY <2>1
<1>2. \A g : P(g) <=> PackedAll(g, entries, n)
  BY DEF PackedAll, Packed
<1>3. PackedAll(packed, entries, n)
  <2>1. \E g : PackedAll(g, entries, n)
    <3> HIDE DEF n
    <3>1. QED
      BY <1>1, PackedExist
  <2>2. \E g : P(g)
    <3> HIDE DEF P
    <3>1. QED
      BY <1>2, <2>1
  <2> HIDE DEF P
  <2>3. P(packed)
    BY <2>2
  <2>4. QED
    BY <1>2, <2>3
<1>4. PackLeaves(entries) = packed[n].leaves
  BY DEF PackLeaves
<1> HIDE DEF packed, P
<1>5. \A k \in 0 .. n : packed[k] = Packed(entries, k, packed[k - 1])
  BY <1>3 DEF PackedAll
<1> HIDE DEF n
<1> DEFINE Begun(x) == IsSequence(x.leaves) /\ Len(x.leaves) >= 1
<1> DEFINE S == {k \in Nat : k + 1 <= n => Begun(packed[k + 1])}
<1>6. ASSUME NEW k \in Nat, k + 1 <= n PROVE packed[k + 1] = PackLeaf(packed[k])
  <2>1. k + 1 \in 0 .. n /\ k + 1 - 1 = k /\ k + 1 # 0
    BY <1>1, <1>6
  <2>2. packed[k + 1] = Packed(entries, k + 1, packed[k])
    BY <1>5, <2>1
  <2>3. QED
    BY <2>1, <2>2 DEF Packed
<1>7. 0 \in S
  <2>1. packed[0] = Packed(entries, 0, packed[0 - 1])
    BY <1>1, <1>5
  <2> DEFINE first == [leaves |-> <<>>, left |-> entries]
  <2>2. packed[0] = first
    BY <2>1 DEF Packed
  <2>3. packed[0 + 1] = PackLeaf(packed[0])
    BY <1>1, <1>6
  <2>4. IsSequence(first.leaves) /\ first.left # <<>>
    BY NoSequence
  <2> HIDE DEF first
  <2>5. Begun(PackLeaf(first))
    BY <2>4, LeafBegun
  <2>6. QED
    BY <2>2, <2>3, <2>5
<1>8. ASSUME NEW k \in S PROVE k + 1 \in S
  <2>1. k \in Nat /\ k + 1 \in Nat /\ (k + 1 <= n => Begun(packed[k + 1]))
    OBVIOUS
  <2>2. SUFFICES ASSUME k + 1 + 1 <= n PROVE Begun(packed[k + 1 + 1])
    BY <2>1
  <2>3. Begun(packed[k + 1])
    BY <1>1, <2>1, <2>2
  <2>4. packed[k + 1 + 1] = PackLeaf(packed[k + 1])
    BY <1>6, <2>1, <2>2
  <2> DEFINE before == packed[k + 1]
  <2>5. IsSequence(before.leaves) /\ Len(before.leaves) >= 1
    BY <2>3
  <2> HIDE DEF before
  <2>6. IsSequence(PackLeaf(before).leaves) /\ Len(PackLeaf(before).leaves) >= 1
    BY <2>5, LeafBegun
  <2>7. QED
    BY <2>4, <2>6 DEF before
<1>9. S = Nat
  <2>1. S \in SUBSET Nat
    OBVIOUS
  <2> HIDE DEF S
  <2>2. QED
    BY <1>7, <1>8, <2>1, SetInduction
<1>10. n - 1 \in Nat /\ n - 1 + 1 = n /\ n - 1 + 1 <= n
  BY <1>1
<1>11. Begun(packed[n])
  <2>1. n - 1 \in S
    BY <1>9, <1>10
  <2>2. Begun(packed[n - 1 + 1])
    BY <1>10, <2>1
  <2>3. QED
    BY <1>10, <2>2
<1>12. QED
  BY <1>4, <1>11

LEMMA IndexSound ==
    ASSUME NEW image, Closed(image), NEW entries, IsSequence(entries)
    PROVE  LET index == BuildIndex(image, entries)
           IN  KeepsOthers(image, index.pages) /\ IsRoot(index.pages, index.root)
<1> DEFINE index == BuildIndex(image, entries)
<1> DEFINE n == Len(entries)
<1> DEFINE packed == PackLeaves(entries)
<1> DEFINE P(g) == g = [k \in 0 .. n |->
                          IF k = 0 THEN WithLeaves(image, packed) ELSE RaiseLevel(g[k - 1])]
<1> DEFINE built == CHOOSE g : P(g)
<1> DEFINE done == built[n]
<1>1. n \in Nat /\ IsSequence(image)
  BY SequenceParts DEF Closed
<1>2. index = IF entries = <<>> THEN [pages |-> image, root |-> NoPage]
              ELSE [pages |-> done.pages, root |-> done.ids[1]]
  BY DEF BuildIndex, BuildLevels
<1>3. CASE entries = <<>>
  <2>1. index.pages = image /\ index.root = NoPage
    BY <1>2, <1>3
  <2>2. KeepsOthers(image, image)
    BY <1>1, SequenceParts DEF KeepsOthers
  <2>3. QED
    BY <2>1, <2>2 DEF IsRoot
<1>4. CASE entries # <<>>
  <2>1. IsSequence(packed) /\ Len(packed) >= 1
    BY <1>4, LeavesMade
  <2> HIDE DEF packed, index
  <2>2. \A g : P(g) <=> LevelAll(g, image, packed, n)
    BY DEF LevelAll, Level
  <2>3. LevelAll(built, image, packed, n)
    <3>1. \E g : LevelAll(g, image, packed, n)
      <4> HIDE DEF n
      <4>1. QED
        BY <1>1, LevelsExist
    <3>2. \E g : P(g)
      <4> HIDE DEF P
      <4>1. QED
        BY <2>2, <3>1
    <3> HIDE DEF P
    <3>3. P(built)
      BY <3>2
    <3>4. QED
      BY <2>2, <3>3
  <2> HIDE DEF built, P
  <2>4. \A k \in 0 .. n : built[k] = Level(image, packed, k, built[k - 1])
    BY <2>3 DEF LevelAll
  <2> HIDE DEF n
  <2> DEFINE S == {k \in Nat : k <= n => Tower(image, built[k])}
  <2>5. 0 \in S
    <3>1. built[0] = Level(image, packed, 0, built[0 - 1])
      BY <1>1, <2>4
    <3>2. built[0] = WithLeaves(image, packed)
      BY <3>1 DEF Level
    <3>3. Tower(image, WithLeaves(image, packed))
      BY <2>1, LeavesRaised
    <3>4. QED
      BY <3>2, <3>3
  <2>6. ASSUME NEW k \in S PROVE k + 1 \in S
    <3>1. k \in Nat /\ (k <= n => Tower(image, built[k]))
      OBVIOUS
    <3>2. SUFFICES ASSUME k + 1 <= n PROVE Tower(image, built[k + 1])
      BY <3>1
    <3>3. Tower(image, built[k]) /\ k + 1 \in 0 .. n /\ k + 1 - 1 = k /\ k + 1 # 0
      BY <1>1, <3>1, <3>2
    <3>4. built[k + 1] = Level(image, packed, k + 1, built[k])
      BY <2>4, <3>3
    <3>5. built[k + 1] = RaiseLevel(built[k])
      BY <3>3, <3>4 DEF Level
    <3> DEFINE before == built[k]
    <3>6. Tower(image, before)
      BY <3>3
    <3> HIDE DEF before
    <3>7. Tower(image, RaiseLevel(before))
      BY <1>1, <3>6, LevelRaised
    <3>8. QED
      BY <3>5, <3>7 DEF before
  <2>7. S = Nat
    <3>1. S \in SUBSET Nat
      OBVIOUS
    <3> HIDE DEF S
    <3>2. QED
      BY <2>5, <2>6, <3>1, SetInduction
  <2>8. Tower(image, done)
    BY <1>1, <2>7
  <2>9. index.pages = done.pages /\ index.root = done.ids[1]
    BY <1>2, <1>4
  <2> HIDE DEF done
  <2>10. KeepsOthers(image, done.pages) /\ done.level \in 1 .. Len(done.pages)
         /\ Len(done.ids) \in Nat /\ Len(done.ids) >= 1
         /\ AllOfLevel(done.pages, done.ids, done.level - 1)
    BY <2>8, SequenceParts DEF Tower
  <2>11. LevelOf(done.pages, done.ids[1]) = done.level - 1
    BY <2>10 DEF AllOfLevel
  <2>12. done.level - 1 \in Nat
    <3>1. Len(done.pages) \in Nat
      BY <2>10, SequenceParts DEF KeepsOthers, Closed
    <3>2. QED
      BY <2>10, <3>1
  <2>13. IsRoot(index.pages, index.root)
    BY <2>9, <2>11, <2>12 DEF IsRoot
  <2>14. QED
    BY <2>9, <2>10, <2>13 DEF index
<1>5. QED
  BY <1>3, <1>4

\* The indexes built so far, one per field.
Planted(start, built, f) ==
    /\ KeepsOthers(start, built.pages)
    /\ IsSequence(built.roots) /\ Len(built.roots) = f
    /\ \A i \in 1 .. f : IsRoot(built.pages, built.roots[i])

LEMMA RootStaysKept ==
    ASSUME NEW old, NEW new, KeepsOthers(old, new), NEW root, IsRoot(old, root)
    PROVE  IsRoot(new, root)
<1>1. SameLevels(old, new)
  BY DEF KeepsOthers, SameLevels
<1>2. QED
  BY <1>1, RootStays

LEMMA FieldPlanted ==
    ASSUME NEW start, IsSequence(start), NEW built, NEW f \in Nat, Planted(start, built, f),
           NEW entries, IsSequence(entries)
    PROVE  Planted(start, AddRoot(built.roots, BuildIndex(built.pages, entries)), f + 1)
<1> DEFINE index == BuildIndex(built.pages, entries)
<1> DEFINE roots == Append(built.roots, index.root)
<1> DEFINE next == AddRoot(built.roots, index)
<1>1. next.pages = index.pages /\ next.roots = roots
  BY DEF AddRoot
<1>2. Closed(built.pages) /\ KeepsOthers(start, built.pages)
  BY DEF Planted, KeepsOthers
<1>3. KeepsOthers(built.pages, index.pages) /\ IsRoot(index.pages, index.root)
  BY <1>2, IndexSound
<1> HIDE DEF index, next
<1>4. KeepsOthers(start, index.pages)
  BY <1>2, <1>3, KeepsOthersTwice
<1>5. IsSequence(roots) /\ Len(roots) = f + 1 /\ roots[f + 1] = index.root
      /\ \A i \in 1 .. f : roots[i] = built.roots[i]
  BY Appended DEF Planted
<1> HIDE DEF roots
<1>6. ASSUME NEW i \in 1 .. f + 1 PROVE IsRoot(index.pages, roots[i])
  <2>1. CASE i = f + 1
    BY <1>3, <1>5, <2>1
  <2>2. CASE i # f + 1
    <3>1. i \in 1 .. f
      BY <2>2
    <3>2. IsRoot(built.pages, built.roots[i])
      BY <3>1 DEF Planted
    <3>3. IsRoot(index.pages, built.roots[i])
      BY <1>3, <3>2, RootStaysKept
    <3>4. QED
      BY <1>5, <3>1, <3>3
  <2>3. QED
    BY <2>1, <2>2
<1>7. Planted(start, next, f + 1)
  BY <1>1, <1>4, <1>5, <1>6 DEF Planted
<1>8. QED
  BY <1>7 DEF next, index

\* The pages before the indexes: the rows' chain, and a directory that is to be
\* filled in.
Laid(start, ids, table, directory) ==
    /\ Closed(start) /\ HoldsCells(start, ids, RowStream(table))
    /\ Len(start) = directory /\ directory \in Nat /\ directory > 3
    /\ \A p \in 1 .. Len(start) : LevelOf(start, p) = -1
    /\ \A i \in 1 .. Len(ids) : ids[i] > 2 /\ ids[i] < directory

LEMMA StreamStarts ==
    ASSUME NEW table, IsSequence(table)
    PROVE  IsSequence(RowStream(table)) /\ Len(RowStream(table)) # 0
<1> DEFINE c == Single(CountCell(Len(table)))
<1> DEFINE b == Body(table)
<1>1. RowStream(table) = c \o b
  BY DecodeStream
<1>2. IsSequence(c) /\ Len(c) = 1
  BY SingleIs
<1>3. IsSequence(b)
  BY EncodedAll
<1> HIDE DEF c, b
<1>4. Len(c \o b) = Len(c) + Len(b) /\ IsSequence(c \o b)
  BY <1>2, <1>3, Joined
<1>5. Len(b) \in Nat
  BY <1>3, SequenceParts
<1>6. QED
  BY <1>1, <1>2, <1>4, <1>5

LEMMA StartLaid ==
    ASSUME NEW table, IsSequence(table), NEW stream, stream = AddChain(3, RowStream(table)),
           NEW start, start = <<Schema, Schema>> \o stream \o <<Directory(<<>>)>>
    PROVE  \E ids : Laid(start, ids, table, 3 + Len(stream))
<1> DEFINE cells == RowStream(table)
<1> DEFINE k == Len(stream)
<1> DEFINE two == <<Schema, Schema>>
<1> DEFINE last == <<Directory(<<>>)>>
<1> DEFINE head == two \o stream
<1>1. start = head \o last
  OBVIOUS
<1>2. IsSequence(cells) /\ Len(cells) # 0
  BY StreamStarts
<1>3. IsSequence(two) /\ Len(two) = 2 /\ two[1] = Schema /\ two[2] = Schema
  <2>1. two \in Seq({Schema}) /\ Len(two) = 2 /\ two[1] = Schema /\ two[2] = Schema
    OBVIOUS
  <2>2. QED
    BY <2>1 DEF IsSequence
<1>4. IsSequence(last) /\ Len(last) = 1 /\ last[1] = Directory(<<>>)
  <2>1. last = Single(Directory(<<>>))
    BY DEF Single
  <2>2. QED
    BY <2>1, SingleIs
<1> HIDE DEF two, last
<1>5. Linked(stream, 3)
  <2> HIDE DEF cells
  <2>1. stream = AddChain(3, cells)
    BY DEF cells
  <2>2. QED
    BY <1>2, <2>1, ChainCut
<1>6. /\ FlattenSeq(Cells(stream)) = cells /\ Len(stream) >= 1 /\ Len(stream[1].cells) >= 1
      /\ Len(stream) \in Nat
  <2> HIDE DEF cells
  <2>1. stream = AddChain(3, cells)
    BY DEF cells
  <2>2. QED
    BY <1>2, <2>1, ChainHolds
<1>7. IsSequence(stream)
  BY <1>5 DEF Linked
<1>8. JoinedPages(two, stream, head)
  BY <1>3, <1>7, JoinLevels
<1> HIDE DEF head
<1>9. /\ IsSequence(head) /\ Len(head) = k + 2 /\ head[1] = Schema /\ head[2] = Schema
      /\ \A j \in 1 .. k : head[2 + j] = stream[j]
  <2>1. 1 \in 1 .. Len(two) /\ 2 \in 1 .. Len(two)
    BY <1>3
  <2>2. head[1] = Schema /\ head[2] = Schema
    BY <1>3, <1>8, <2>1 DEF JoinedPages
  <2>3. \A j \in 1 .. k : head[2 + j] = stream[j]
    BY <1>3, <1>8 DEF JoinedPages
  <2>4. QED
    BY <1>3, <1>6, <1>8, <2>2, <2>3 DEF JoinedPages
<1>10. JoinedPages(head, last, start)
  BY <1>1, <1>4, <1>9, JoinLevels
<1>11. /\ IsSequence(start) /\ Len(start) = 3 + k /\ start[1] = Schema /\ start[2] = Schema
       /\ \A j \in 1 .. k : start[2 + j] = stream[j]
       /\ start[3 + k] = Directory(<<>>)
  <2>1. 1 \in 1 .. Len(head) /\ 2 \in 1 .. Len(head) /\ \A j \in 1 .. k : 2 + j \in 1 .. Len(head)
    BY <1>6, <1>9
  <2>2. \A p \in 1 .. Len(head) : start[p] = head[p]
    BY <1>10 DEF JoinedPages
  <2>3. 1 \in 1 .. Len(last) /\ Len(head) + 1 = 3 + k
    BY <1>4, <1>6, <1>9
  <2>4. start[Len(head) + 1] = Directory(<<>>)
    BY <1>4, <1>10, <2>3 DEF JoinedPages
  <2>5. IsSequence(start) /\ Len(start) = Len(head) + 1
    BY <1>4, <1>10 DEF JoinedPages
  <2>6. QED
    BY <1>9, <2>1, <2>2, <2>3, <2>4, <2>5
<1> DEFINE ids == [i \in DOMAIN stream |-> 2 + i]
<1>12. IsSequence(ids) /\ Len(ids) = k /\ \A i \in 1 .. k : ids[i] = 2 + i
  BY <1>7, IdsBehind
<1> HIDE DEF ids, cells
<1>13. \A j \in 1 .. k : /\ IsSequence(stream[j].cells)
                         /\ stream[j] = RowPage(IF j < k THEN 3 + j ELSE NoPage, stream[j].cells)
                         /\ stream[j].type = "rows"
  <2>1. SUFFICES ASSUME NEW j \in 1 .. k
                 PROVE  /\ IsSequence(stream[j].cells)
                        /\ stream[j] = RowPage(IF j < k THEN 3 + j ELSE NoPage, stream[j].cells)
                        /\ stream[j].type = "rows"
    OBVIOUS
  <2>2. /\ IsSequence(stream[j].cells)
        /\ stream[j] = RowPage(IF j < k THEN 3 + j ELSE NoPage, stream[j].cells)
    BY <1>5 DEF Linked
  <2>3. stream[j].type = "rows"
    BY <2>2, RowPageIs
  <2>4. QED
    BY <2>2, <2>3
<1> HIDE DEF k
<1>14. k \in Nat /\ k >= 1
  BY <1>6 DEF k
<1>15. ASSUME NEW p \in 1 .. 3 + k PROVE start[p].type \notin {"leaf", "internal"}
  <2>1. CASE p \in {1, 2}
    BY <1>11, <2>1 DEF Schema
  <2>2. CASE p \in 3 .. 2 + k
    <3>1. PICK j \in 1 .. k : p = 2 + j
      <4>1. p - 2 \in 1 .. k /\ p = 2 + (p - 2)
        BY <1>14, <2>2
      <4>2. QED
        BY <4>1
    <3>2. QED
      BY <1>11, <1>13, <3>1
  <2>3. CASE p = 3 + k
    BY <1>11, <2>3 DEF Directory
  <2>4. p \in {1, 2} \/ p \in 3 .. 2 + k \/ p = 3 + k
    BY <1>14
  <2>5. QED
    BY <2>1, <2>2, <2>3, <2>4
<1>16. Closed(start) /\ \A p \in 1 .. Len(start) : LevelOf(start, p) = -1
  BY <1>11, <1>15 DEF Closed, GoodPage, LevelOf, NodeLevel
<1>17. \A i \in 1 .. k : /\ ids[i] \in 1 .. Len(start) /\ start[ids[i]] = stream[i]
                         /\ ids[i] > 2 /\ ids[i] < 3 + k
  BY <1>11, <1>12, <1>14
<1>18. RowIds(start, ids)
  <2>1. 1 \in 1 .. k
    BY <1>14
  <2>2. ids[1] = 3 /\ start[3] = stream[1]
    BY <1>12, <1>17, <2>1
  <2>3. Len(start[3].cells) >= 1
    BY <1>6, <2>2
  <2>4. ASSUME NEW i \in 1 .. k
        PROVE  /\ ids[i] \in 1 .. Len(start) /\ IsSequence(start[ids[i]].cells)
               /\ start[ids[i]] = RowPage(IF i < k THEN ids[i + 1] ELSE NoPage, start[ids[i]].cells)
    <3>1. i < k => ids[i + 1] = 3 + i
      BY <1>12, <1>14
    <3>2. QED
      BY <1>13, <1>17, <3>1
  <2>5. \A i \in 1 .. k - 1 : ids[i] < ids[i + 1]
    BY <1>12, <1>14
  <2>6. QED
    BY <1>12, <1>14, <2>2, <2>3, <2>4, <2>5 DEF RowIds
<1>19. CellsAt(start, ids) = Cells(stream)
  BY <1>12, <1>17 DEF CellsAt, Cells, k
<1>20. HoldsCells(start, ids, cells)
  BY <1>6, <1>18, <1>19 DEF HoldsCells
<1>21. Laid(start, ids, table, 3 + k)
  <2>1. 3 + k \in Nat /\ 3 + k > 3 /\ Len(start) = 3 + k
    BY <1>11, <1>14
  <2>2. HoldsCells(start, ids, RowStream(table))
    BY <1>20 DEF cells
  <2>3. \A i \in 1 .. Len(ids) : ids[i] > 2 /\ ids[i] < 3 + k
    BY <1>12, <1>17
  <2>4. QED
    BY <1>16, <2>1, <2>2, <2>3 DEF Laid
<1>22. QED
  BY <1>21 DEF k

LEMMA IndexesPlanted ==
    ASSUME NEW table, IsSequence(table), NEW start, Closed(start)
    PROVE  Planted(start, BuildIndexes(start, table), FieldCount)
<1> DEFINE n == FieldCount
<1> DEFINE P(g) == g = [f \in 0 .. n |->
                          IF f = 0 THEN [pages |-> start, roots |-> <<>>]
                          ELSE AddRoot(g[f - 1].roots,
                                       BuildIndex(g[f - 1].pages, EntriesOf(table, f)))]
<1> DEFINE built == CHOOSE g : P(g)
<1>1. n \in Nat /\ IsSequence(start)
  BY FieldsAssumption DEF Closed
<1>2. BuildIndexes(start, table) = built[n]
  BY DEF BuildIndexes
<1>3. \A g : P(g) <=> IndexedAll(g, start, table, n)
  BY DEF IndexedAll, Indexed
<1>4. IndexedAll(built, start, table, n)
  <2>1. \E g : IndexedAll(g, start, table, n)
    <3> HIDE DEF n
    <3>1. QED
      BY <1>1, IndexedExist
  <2>2. \E g : P(g)
    <3> HIDE DEF P
    <3>1. QED
      BY <1>3, <2>1
  <2> HIDE DEF P
  <2>3. P(built)
    BY <2>2
  <2>4. QED
    BY <1>3, <2>3
<1> HIDE DEF built, P
<1>5. \A f \in 0 .. n : built[f] = Indexed(start, table, f, built[f - 1])
  BY <1>4 DEF IndexedAll
<1> HIDE DEF n
<1> DEFINE S == {f \in Nat : f <= n => Planted(start, built[f], f)}
<1>6. 0 \in S
  <2>1. built[0] = Indexed(start, table, 0, built[0 - 1])
    BY <1>1, <1>5
  <2>2. built[0] = [pages |-> start, roots |-> <<>>]
    BY <2>1 DEF Indexed
  <2>3. KeepsOthers(start, start)
    BY <1>1, SequenceParts DEF KeepsOthers
  <2>4. Planted(start, built[0], 0)
    BY <2>2, <2>3, NoSequence DEF Planted
  <2>5. QED
    BY <2>4
<1>7. ASSUME NEW f \in S PROVE f + 1 \in S
  <2>1. f \in Nat /\ (f <= n => Planted(start, built[f], f))
    OBVIOUS
  <2>2. SUFFICES ASSUME f + 1 <= n PROVE Planted(start, built[f + 1], f + 1)
    BY <2>1
  <2> DEFINE old == built[f]
  <2> DEFINE entries == EntriesOf(table, f + 1)
  <2>3. Planted(start, old, f) /\ f + 1 \in 0 .. n /\ f + 1 - 1 = f /\ f + 1 # 0
    BY <1>1, <2>1, <2>2
  <2>4. built[f + 1] = Indexed(start, table, f + 1, built[f])
    BY <1>5, <2>3
  <2>5. built[f + 1] = AddRoot(old.roots, BuildIndex(old.pages, entries))
    BY <2>3, <2>4 DEF Indexed
  <2>6. IsSequence(entries)
    BY EntriesAreSequence
  <2> HIDE DEF old, entries
  <2>7. Planted(start, AddRoot(old.roots, BuildIndex(old.pages, entries)), f + 1)
    BY <1>1, <2>1, <2>3, <2>6, FieldPlanted
  <2>8. QED
    BY <2>5, <2>7
<1>8. S = Nat
  <2>1. S \in SUBSET Nat
    OBVIOUS
  <2> HIDE DEF S
  <2>2. QED
    BY <1>6, <1>7, <2>1, SetInduction
<1>9. Planted(start, built[n], n)
  BY <1>1, <1>8
<1>10. QED
  BY <1>2, <1>9 DEF n

\* An image that holds a table.
Sound(image, table) == \E directory, roots, ids : Holds(image, table, directory, roots, ids)

LEMMA BuiltHolds ==
    ASSUME NEW table, IsSequence(table), NEW generation
    PROVE  Sound(BuildImage(table, generation), table)
<1> DEFINE stream == AddChain(3, RowStream(table))
<1> DEFINE directory == 3 + Len(stream)
<1> DEFINE start == <<Schema, Schema>> \o stream \o <<Directory(<<>>)>>
<1> DEFINE done == BuildIndexes(start, table)
<1> DEFINE roots == done.roots
<1> DEFINE old == done.pages
<1> DEFINE super == Superblock(generation, Len(old), directory, Len(table))
<1> DEFINE rooted == [old EXCEPT ![directory] = Directory(roots)]
<1> DEFINE whole == [rooted EXCEPT ![1] = super]
<1>1. BuildImage(table, generation) = whole
  BY DEF BuildImage, Finish
<1>2. PICK ids : Laid(start, ids, table, directory)
  <2> HIDE DEF stream, start
  <2>1. stream = AddChain(3, RowStream(table))
        /\ start = <<Schema, Schema>> \o stream \o <<Directory(<<>>)>>
    BY DEF stream, start
  <2>2. QED
    BY <2>1, StartLaid
<1> HIDE DEF stream, start, directory
<1>3. /\ Closed(start) /\ RowIds(start, ids) /\ FlattenSeq(CellsAt(start, ids)) = RowStream(table)
      /\ Len(start) = directory /\ directory \in Nat /\ directory > 3
      /\ \A p \in 1 .. directory : LevelOf(start, p) = -1
      /\ \A i \in 1 .. Len(ids) : ids[i] > 2 /\ ids[i] < directory
  BY <1>2 DEF Laid, HoldsCells
<1>4. Planted(start, done, FieldCount)
  BY <1>3, IndexesPlanted
<1> HIDE DEF done
<1>5. /\ KeepsOthers(start, old) /\ IsSequence(roots) /\ Len(roots) = FieldCount
      /\ \A f \in 1 .. FieldCount : IsRoot(old, roots[f])
  BY <1>4 DEF Planted
<1> HIDE DEF old, roots
<1>6. /\ Closed(old) /\ Len(old) \in Nat /\ directory <= Len(old)
      /\ \A p \in 1 .. directory : LevelOf(old, p) = -1 /\ old[p] = start[p]
  BY <1>3, <1>5, SequenceParts DEF KeepsOthers, Closed
<1>7. 1 \in 1 .. directory /\ directory \in 1 .. directory /\ 1 \in 1 .. Len(old)
      /\ directory \in 1 .. Len(old) /\ directory # 1
  BY <1>3, <1>6
<1> HIDE DEF rooted, super, whole
<1>8. /\ Closed(rooted) /\ SameLevels(old, rooted) /\ Len(rooted) = Len(old)
      /\ rooted[directory] = Directory(roots)
      /\ \A p \in 1 .. Len(old) : p # directory => rooted[p] = old[p]
  <2> DEFINE page == Directory(roots)
  <2>1. page.type \notin {"leaf", "internal"}
    BY DEF Directory
  <2> HIDE DEF page
  <2>2. IsEdit(old, directory, page, rooted)
    BY DEF IsEdit, rooted, page
  <2>3. LevelOf(old, directory) = -1
    BY <1>6, <1>7
  <2>4. /\ Closed(rooted) /\ SameLevels(old, rooted) /\ Len(rooted) = Len(old)
        /\ rooted[directory] = page
        /\ \A p \in 1 .. Len(old) : p # directory => rooted[p] = old[p]
    BY <1>6, <1>7, <2>1, <2>2, <2>3, RowEdit
  <2>5. QED
    BY <2>4 DEF page
<1>9. /\ super.type = "superblock" /\ super.rowsHead = 3 /\ super.directory = directory
      /\ super.rowCount = Len(table)
  BY DEF Superblock, super
<1>10. /\ Closed(whole) /\ SameLevels(rooted, whole) /\ Len(whole) = Len(rooted)
       /\ whole[1] = super
       /\ \A p \in 1 .. Len(rooted) : p # 1 => whole[p] = rooted[p]
  <2>1. super.type \notin {"leaf", "internal"}
    BY <1>9
  <2>2. IsEdit(rooted, 1, super, whole)
    BY DEF IsEdit, whole
  <2>3. LevelOf(rooted, 1) = -1 /\ 1 \in 1 .. Len(rooted)
    BY <1>6, <1>7, <1>8 DEF SameLevels
  <2>4. QED
    BY <1>8, <2>1, <2>2, <2>3, RowEdit
<1>11. RowIds(whole, ids) /\ CellsAt(whole, ids) = CellsAt(start, ids)
  <2>1. \A i \in 1 .. Len(ids) : ids[i] \in 1 .. directory /\ ids[i] # 1 /\ ids[i] # directory
    <3>1. \A i \in 1 .. Len(ids) : ids[i] \in 1 .. Len(start)
      BY <1>3 DEF RowIds
    <3>2. QED
      BY <1>3, <3>1
  <2>2. \A i \in 1 .. Len(ids) : ids[i] \in 1 .. Len(old)
    BY <1>3, <1>6, <2>1
  <2>3. \A i \in 1 .. Len(ids) : whole[ids[i]] = start[ids[i]]
    BY <1>6, <1>8, <1>10, <2>1, <2>2
  <2>4. Len(start) \in Nat /\ Len(whole) \in Nat /\ Len(start) <= Len(whole)
    BY <1>3, <1>6, <1>8, <1>10
  <2>5. QED
    BY <1>3, <2>3, <2>4, RowsStay
<1>12. DOMAIN roots = Fields /\ \A f \in Fields : IsRoot(whole, roots[f])
  <2>1. DOMAIN roots = 1 .. FieldCount /\ Fields = 1 .. FieldCount
    BY <1>5, SequenceParts DEF Fields
  <2>2. ASSUME NEW f \in Fields PROVE IsRoot(whole, roots[f])
    <3>1. IsRoot(old, roots[f])
      BY <1>5, <2>1
    <3>2. IsRoot(rooted, roots[f])
      BY <1>8, <3>1, RootStays
    <3>3. QED
      BY <1>10, <3>2, RootStays
  <2>3. QED
    BY <2>1, <2>2
<1>13. directory \in 2 .. Len(whole) /\ whole[directory] = Directory(roots)
  BY <1>3, <1>6, <1>7, <1>8, <1>10
<1>14. \A i \in 1 .. Len(ids) : ids[i] # directory
  BY <1>3
<1>15. HoldsCells(whole, ids, RowStream(table))
  BY <1>3, <1>11 DEF HoldsCells
<1>16. Holds(whole, table, directory, roots, ids)
  BY <1>9, <1>10, <1>12, <1>13, <1>14, <1>15 DEF Holds
<1>17. Sound(whole, table)
  BY <1>16 DEF Sound
<1>18. QED
  BY <1>1, <1>17

-----------------------------------------------------------------------------
(* The specification *)

\* What the proofs need of a reachable state: the image holds the table.
IInv == IsSequence(Committed) /\ Sound(pages, Committed)

LEMMA InitSound == Init => IInv
<1> SUFFICES ASSUME Init PROVE IInv
  OBVIOUS
<1>1. PICK n \in BuiltSizes : rows \in [1 .. n -> Rows]
  BY DEF Init
<1>2. n \in Int /\ IsOver(rows, n)
  BY <1>1, RowsAssumption DEF IsOver
<1>3. IsSequence(rows)
  BY <1>2, SequenceOf
<1>4. Sound(BuildImage(rows, 1), rows)
  BY <1>3, BuiltHolds
<1>5. pages = BuildImage(rows, 1) /\ Committed = rows
  BY DEF Init, Committed
<1>6. QED
  BY <1>3, <1>4, <1>5 DEF IInv

\* An insert adds its row to the table held, or leaves it when it is refused.
LEMMA InsertSound ==
    ASSUME IInv, NEW row \in Rows, Insert(row)
    PROVE  IInv'
<1> DEFINE next == BuildIncrementalInsert(pages, row)
<1> DEFINE longer == Append(rows, row)
<1>1. IsSequence(rows) /\ Sound(pages, rows)
  BY DEF IInv, Insert, Committed
<1>2. rows' = longer /\ Commit(next)
  BY DEF Insert
<1>3. IsSequence(longer)
  BY <1>1, Appended
<1>4. Front(longer) = rows
  BY <1>1, FrontLast
<1>5. Sound(next.pages, longer)
  <2>1. PICK directory, roots, ids : Holds(pages, rows, directory, roots, ids)
    BY <1>1 DEF Sound
  <2>2. \E after, more : Holds(next.pages, longer, directory, after, more)
    BY <1>1, <2>1, InsertHolds
  <2>3. QED
    BY <2>2 DEF Sound
<1>6. Committed' = IF refused' THEN Front(rows') ELSE rows'
  BY DEF Committed
<1> HIDE DEF next, longer
<1>7. CASE pages' = next.pages /\ ~refused'
  BY <1>2, <1>3, <1>5, <1>6, <1>7 DEF IInv
<1>8. CASE pages' = pages /\ refused'
  <2>1. Committed' = rows
    BY <1>2, <1>4, <1>6, <1>8
  <2>2. QED
    BY <1>1, <1>8, <2>1 DEF IInv
<1>9. QED
  BY <1>2, <1>7, <1>8 DEF Commit

LEMMA StepSound ==
    ASSUME IInv, [Next]_vars
    PROVE  IInv'
<1>1. CASE UNCHANGED vars
  BY <1>1 DEF vars, IInv, Committed
<1>2. CASE Next
  BY <1>2, InsertSound DEF Next
<1>3. QED
  BY <1>1, <1>2

LEMMA AlwaysSound == Spec => []IInv
<1>1. Init => IInv
  BY InitSound
<1>2. IInv /\ [Next]_vars => IInv'
  BY StepSound
<1>3. QED
  BY <1>1, <1>2, PTL DEF Spec

\* parse_image (storage_v2.cpp) reads from every committed image exactly the
\* rows inserted, however they and their count are cut into pages: read_chain
\* reaches the end of the chain, its cells are the stream of the table, the rows
\* decoded are the table and their number the superblock's.  What a split made
\* of the indexes cannot disturb it, and a refused insert leaves the table.
THEOREM RowsAlwaysStored == Spec => []RowsStored
<1>1. IInv => RowsStored
  <2> SUFFICES ASSUME IInv PROVE RowsStored
    OBVIOUS
  <2>1. PICK directory, roots, ids : Holds(pages, Committed, directory, roots, ids)
    BY DEF IInv, Sound
  <2>2. IsSequence(Committed)
    BY DEF IInv
  <2> DEFINE table == Committed
  <2> HIDE DEF table
  <2>3. Holds(pages, table, directory, roots, ids) /\ IsSequence(table)
    BY <2>1, <2>2 DEF table
  <2>4. /\ StoredRows(pages) = table /\ StoredCells(pages) = RowStream(table)
        /\ Last(Chain(pages, pages[1].rowsHead, "rows")) = NoPage
        /\ pages[1].rowCount = Len(table)
    BY <2>3, StoredIs
  <2>5. QED
    BY <2>4 DEF RowsStored, table
<1>2. QED
  BY <1>1, AlwaysSound, PTL

LEMMA LevelIsNode ==
    ASSUME Closed(pages), NEW id, NEW level, level \in Nat, LevelOf(pages, id) = level
    PROVE  IsNode(id, level) /\ level \in 0 .. Len(pages)
<1>1. id \in 1 .. Len(pages) /\ NodeLevel(pages[id]) = level
  BY DEF LevelOf
<1>2. DOMAIN pages = 1 .. Len(pages) /\ Len(pages) \in Nat
  BY SequenceParts DEF Closed
<1>3. GoodPage(pages, pages[id])
  BY <1>1 DEF Closed
<1>4. CASE pages[id].type = "leaf"
  <2>1. level = 0
    BY <1>1, <1>4 DEF NodeLevel
  <2>2. QED
    BY <1>1, <1>2, <1>4, <2>1 DEF IsNode
<1>5. CASE pages[id].type # "leaf"
  <2>1. pages[id].type = "internal" /\ pages[id].level = level
    BY <1>1, <1>5 DEF NodeLevel
  <2>2. level \in 1 .. Len(pages) - 1
    BY <1>3, <2>1 DEF GoodPage, GoodInternal
  <2>3. level # 0 /\ level \in 0 .. Len(pages)
    BY <1>2, <2>2
  <2>4. QED
    BY <1>1, <1>2, <2>1, <2>3 DEF IsNode
<1>6. QED
  BY <1>4, <1>5

\* The level check of validate_index_node holds in every committed image, at
\* every page capacity and whatever the keys' sizes: a split or a new root never
\* leaves a node whose child is missing, or is of another level than the one
\* below, nor a leaf followed by a page that is no leaf (insert_index_entry,
\* build_index).
THEOREM IndexesDescend == Spec => []NodesDescend
<1>1. IInv => NodesDescend
  <2> SUFFICES ASSUME IInv PROVE NodesDescend
    OBVIOUS
  <2>1. PICK directory, roots, ids : Holds(pages, Committed, directory, roots, ids)
    BY DEF IInv, Sound
  <2>2. /\ Closed(pages) /\ pages[1].directory = directory /\ pages[directory] = Directory(roots)
        /\ \A f \in Fields : IsRoot(pages, roots[f])
    BY <2>1 DEF Holds
  <2>3. pages[pages[1].directory].roots = roots
    BY <2>2 DEF Directory
  <2>4. DOMAIN pages = 1 .. Len(pages) /\ Len(pages) \in Nat
    BY <2>2, SequenceParts DEF Closed
  <2>5. ASSUME NEW f \in Fields
        PROVE  LET root == pages[pages[1].directory].roots[f]
               IN  root = NoPage \/ \E level \in 0 .. Len(pages) : IsNode(root, level)
    <3> DEFINE root == roots[f]
    <3>1. root = NoPage \/ LevelOf(pages, root) \in Nat
      BY <2>2 DEF IsRoot
    <3> HIDE DEF root
    <3>2. CASE LevelOf(pages, root) \in Nat
      <4> DEFINE level == LevelOf(pages, root)
      <4>1. level \in Nat /\ level = LevelOf(pages, root)
        BY <3>2
      <4> HIDE DEF level
      <4>2. IsNode(root, level) /\ level \in 0 .. Len(pages)
        BY <2>2, <4>1, LevelIsNode
      <4>3. QED
        BY <2>3, <4>2 DEF root
    <3>3. QED
      BY <2>3, <3>1, <3>2 DEF root
  <2>6. ASSUME NEW p \in DOMAIN pages
        PROVE  /\ pages[p].type = "leaf" => pages[p].next = NoPage \/ IsNode(pages[p].next, 0)
               /\ pages[p].type = "internal" =>
                     \A c \in DOMAIN pages[p].children :
                        IsNode(pages[p].children[c], pages[p].level - 1)
    <3> DEFINE page == pages[p]
    <3>1. GoodPage(pages, page)
      BY <2>2, <2>4 DEF Closed
    <3> HIDE DEF page
    <3>2. ASSUME page.type = "leaf", page.next # NoPage PROVE IsNode(page.next, 0)
      <4>1. LevelOf(pages, page.next) = 0 /\ 0 \in Nat
        BY <3>1, <3>2 DEF GoodPage, GoodLeaf
      <4>2. QED
        BY <2>2, <4>1, LevelIsNode
    <3>3. ASSUME page.type = "internal", NEW c \in DOMAIN page.children
          PROVE  IsNode(page.children[c], page.level - 1)
      <4>1. /\ page.level \in 1 .. Len(pages) - 1 /\ IsSequence(page.children)
            /\ AllOfLevel(pages, page.children, page.level - 1)
        BY <3>1, <3>3 DEF GoodPage, GoodInternal, AllOfLevel
      <4>2. c \in 1 .. Len(page.children)
        BY <4>1, SequenceParts
      <4> DEFINE level == page.level - 1
      <4>3. level \in Nat
        BY <2>4, <4>1
      <4>4. LevelOf(pages, page.children[c]) = level
        BY <4>1, <4>2 DEF AllOfLevel
      <4> HIDE DEF level
      <4>5. IsNode(page.children[c], level)
        BY <2>2, <4>3, <4>4, LevelIsNode
      <4>6. QED
        BY <4>5 DEF level
    <3>4. QED
      BY <3>2, <3>3 DEF page
  <2>7. QED
    BY <2>5, <2>6 DEF NodesDescend
<1>2. QED
  BY <1>1, AlwaysSound, PTL

-----------------------------------------------------------------------------
(* What an insert reports dirty *)

\* What an insert changes, and what it does not.
Reported ==
    /\ DOMAIN pages \subseteq DOMAIN pages'
    /\ \A p \in DOMAIN pages' \ dirty' : p \in DOMAIN pages /\ pages'[p] = pages[p]
    /\ pages' # pages => 1 \in dirty' /\ dirty' # {1}

LEMMA InsertReports ==
    ASSUME IInv, NEW row \in Rows, Insert(row)
    PROVE  Reported
<1> DEFINE next == BuildIncrementalInsert(pages, row)
<1>1. IsSequence(pages) /\ 1 <= Len(pages) /\ pages[1].rowsHead = 3
  <2>1. PICK directory, roots, ids : Holds(pages, Committed, directory, roots, ids)
    BY DEF IInv, Sound
  <2>2. IsSequence(pages) /\ pages[1].rowsHead = 3 /\ directory \in 2 .. Len(pages)
    BY <2>1 DEF Holds, Closed
  <2>3. Len(pages) \in Nat
    BY <2>2, SequenceParts
  <2>4. QED
    BY <2>2, <2>3
<1>2. /\ CoveredBy(pages, next)
      /\ 1 \in next.dirty /\ pages[1].rowsHead \in next.dirty
      /\ next.pages[1].rowsHead = 3
  BY <1>1, InsertedCovers
<1>3. Commit(next)
  BY DEF Insert
<1> HIDE DEF next
<1>4. CASE pages' = pages
  <2>1. Reported <=> /\ DOMAIN pages \subseteq DOMAIN pages
                     /\ \A p \in DOMAIN pages \ dirty' : p \in DOMAIN pages
    BY <1>4 DEF Reported
  <2>2. QED
    BY <2>1
<1>5. CASE pages' = next.pages /\ dirty' = next.dirty
  <2> DEFINE new == next.pages
  <2>1. /\ IsSequence(new) /\ Len(pages) <= Len(new)
        /\ \A p \in 1 .. Len(new) \ dirty' : p <= Len(pages) /\ new[p] = pages[p]
    BY <1>2, <1>5 DEF CoveredBy, Covers
  <2>2. Len(pages) \in Nat /\ Len(new) \in Nat
        /\ DOMAIN pages = 1 .. Len(pages) /\ DOMAIN new = 1 .. Len(new)
    BY <1>1, <2>1, SequenceParts
  <2>3. DOMAIN pages \subseteq DOMAIN new
    BY <2>1, <2>2
  <2>4. \A p \in DOMAIN new \ dirty' : p \in DOMAIN pages /\ new[p] = pages[p]
    BY <2>1, <2>2
  <2>5. 1 \in dirty' /\ 3 \in dirty'
    BY <1>1, <1>2, <1>5
  <2>6. QED
    BY <1>5, <2>3, <2>4, <2>5 DEF Reported
<1>6. QED
  BY <1>3, <1>4, <1>5 DEF Commit

\* apply_image writes to the file, and logs, only the dirty pages of an insert
\* (storage_v2.cpp, build_incremental_insert): whatever the page capacity, the
\* key sizes and the number of fields, every page that differs from the committed
\* image or was appended is among them, page 0 and the head of the rows always
\* are, and no page is dropped.
THEOREM DirtyPagesComplete == Spec => DirtyPagesCoverChanges
<1>1. IInv /\ [Next]_vars => [Reported]_vars
  BY InsertReports DEF Next
<1>2. DirtyPagesCoverChanges <=> [][Reported]_vars
  BY DEF DirtyPagesCoverChanges, Reported
<1>3. QED
  BY <1>1, <1>2, AlwaysSound, PTL DEF Spec
=============================================================================
