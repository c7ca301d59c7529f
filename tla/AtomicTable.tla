----------------------------- MODULE AtomicTable -----------------------------
(***************************************************************************)
(* What the storage layer promises the statements above it: one table that *)
(* changes by whole statements.  A statement in flight is either applied   *)
(* once, at one instant, or never; only an applied statement is            *)
(* acknowledged; a statement that ends in an error or in a crash is        *)
(* decided at that instant and cannot take effect later; a read returns    *)
(* the table as it stands.  Pages, logs and directories do not appear.     *)
(***************************************************************************)
EXTENDS Integers, Sequences

CONSTANTS
    MaxStatements,   \* bound on the mutating statements issued
    Firsts           \* what a system may start with: a table, statement counts

VARIABLES
    table,      \* the statements applied to the table, <<>> when there is none
    kind,       \* the operation in flight, "none" between operations
    issued,     \* number of the last mutating statement issued
    acked,      \* the statements acknowledged to the caller
    answer      \* what the last successful read returned

vars == <<table, kind, issued, acked, answer>>

Init ==
    /\ \E first \in Firsts :
          /\ table = first.rows
          /\ issued = first.issued
          /\ acked = first.acked
    /\ kind = "none"
    /\ answer = <<>>

Begin ==
    /\ kind = "none"
    /\ \/ /\ issued < MaxStatements
          /\ kind' \in {"create", "insert"}
          /\ issued' = issued + 1
       \/ /\ kind' \in {"open", "inspect"}
          /\ issued' = issued
    /\ UNCHANGED <<table, acked, answer>>

\* A table is created once and rows go to a table that exists.
Applicable ==
    \/ kind = "create" /\ table = <<>>
    \/ kind = "insert" /\ table # <<>> /\ table[Len(table)] # issued

Applied == kind \in {"create", "insert"} /\ table # <<>> /\ table[Len(table)] = issued

Apply ==
    /\ Applicable
    /\ table' = Append(table, issued)
    /\ UNCHANGED <<kind, issued, acked, answer>>

Acknowledge ==
    /\ Applied
    /\ acked' = acked \union {issued}
    /\ kind' = "none"
    /\ UNCHANGED <<table, issued, answer>>

Answer ==
    /\ kind \in {"open", "inspect"}
    /\ table # <<>>
    /\ answer' = table
    /\ kind' = "none"
    /\ UNCHANGED <<table, issued, acked>>

\* The caller learns nothing, but the outcome is fixed here.
Fail ==
    /\ kind # "none"
    /\ kind' = "none"
    /\ table' \in {table} \union {t \in {Append(table, issued)} : Applicable}
    /\ UNCHANGED <<issued, acked, answer>>

Next == Begin \/ Apply \/ Acknowledge \/ Answer \/ Fail

Spec == Init /\ [][Next]_vars
=============================================================================
