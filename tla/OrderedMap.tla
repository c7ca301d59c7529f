----------------------------- MODULE OrderedMap -----------------------------
(***************************************************************************)
(* What the containers above the B+ tree rely on: a map from keys to lists *)
(* of values.  A list is abstracted to its length.                         *)
(***************************************************************************)
EXTENDS Integers, Functions, TLC

CONSTANTS
    Keys,        \* the keys
    ListKeys     \* those whose values are counted

VARIABLES
    contents,    \* the number of values of each key present
    answer       \* whether the last operation changed the set of keys, if it says

vars == <<contents, answer>>

Init ==
    /\ contents = <<>>
    /\ answer = "void"

\* A key that is present keeps its values.
Insert(key) ==
    \/ /\ answer' = "true"
       /\ key \notin DOMAIN contents
       /\ contents' = (key :> 0) @@ contents
    \/ /\ answer' = "false"
       /\ key \in DOMAIN contents
       /\ UNCHANGED contents

AppendValue(key) ==
    /\ answer' = "void"
    /\ \/ key \notin DOMAIN contents /\ contents' = (key :> 1) @@ contents
       \/ key \in DOMAIN contents /\ contents' = [contents EXCEPT ![key] = @ + 1]

Erase(key) ==
    \/ /\ answer' = "true"
       /\ key \in DOMAIN contents
       /\ contents' = Restrict(contents, DOMAIN contents \ {key})
    \/ /\ answer' = "false"
       /\ key \notin DOMAIN contents
       /\ UNCHANGED contents

Clear ==
    /\ answer' = "void"
    /\ contents' = <<>>

Next ==
    \/ \E key \in Keys : Insert(key) \/ Erase(key)
    \/ \E key \in ListKeys : AppendValue(key)
    \/ Clear

Spec == Init /\ [][Next]_vars
=============================================================================
