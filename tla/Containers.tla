----------------------------- MODULE Containers -----------------------------
(***************************************************************************)
(* What the queues, stacks and lists promise: each holds a sequence of its *)
(* own, and an operation on one changes no other.                          *)
(***************************************************************************)
EXTENDS Integers, SequencesExt

CONSTANTS Queues, Stacks, Lists, Items

Objects == Queues \union Stacks \union Lists

VARIABLE contents   \* the sequence each container holds

Init == contents = [o \in Objects |-> <<>>]

\* One container changes.  The first conjunct follows from the second; it rules
\* most candidates out before whole functions are compared.
Change(o, sequence) ==
    /\ contents'[o] = sequence
    /\ contents' = [contents EXCEPT ![o] = sequence]

Enqueue(q, x) == Change(q, Append(contents[q], x))

Push(s, x) == Change(s, <<x>> \o contents[s])

\* The first of a queue and the top of a stack.
Pop(o) ==
    /\ contents[o] # <<>>
    /\ Change(o, Tail(contents[o]))

InsertItem(l, i, x) == Change(l, InsertAt(contents[l], i, x))

DeleteItem(l, i) == Change(l, RemoveAt(contents[l], i))

Assign(o, from) == Change(o, contents[from])

Clear(o) == Change(o, <<>>)

Next ==
    \/ \E q \in Queues, x \in Items : Enqueue(q, x)
    \/ \E s \in Stacks, x \in Items : Push(s, x)
    \/ \E o \in Queues \union Stacks : Pop(o)
    \/ \E l \in Lists, x \in Items : \E i \in 1 .. Len(contents[l]) + 1 : InsertItem(l, i, x)
    \/ \E l \in Lists : \E i \in DOMAIN contents[l] : DeleteItem(l, i)
    \/ \E o, from \in Queues : Assign(o, from)
    \/ \E o, from \in Stacks : Assign(o, from)
    \/ \E o \in Objects : Clear(o)

Spec == Init /\ [][Next]_contents
=============================================================================
