---------------------------- MODULE WhereMeaning ----------------------------
(***************************************************************************)
(* The meaning of a WHERE clause, independent of the stacks that evaluate  *)
(* it: comparisons joined by "and" and "or", "and" binding tighter, with   *)
(* parentheses to group.  The phrases of a clause are made by three rules, *)
(* from the shortest up; a clause means what a phrase that spans it means, *)
(* and nothing if it is malformed.                                         *)
(***************************************************************************)
EXTENDS SqlCommand

IsWord(token, text) == token = Unquoted(text)

Combine(op, left, right) ==
    IF Error \in {left, right} THEN Error
    ELSE Outcome("select", IF op = "and" THEN left.records \cap right.records
                           ELSE left.records \union right.records, TRUE)

\* A phrase is a part of the clause that means something on its own, with how
\* tightly it is bound: 3 for a comparison or a group, 2 and 1 for a phrase
\* that "and" or "or" joins.
Phrase(bound, first, last, meaning) ==
    [bound |-> bound, first |-> first, last |-> last, meaning |-> meaning]
Binds(op) == IF op = "and" THEN 2 ELSE 1

\* <field> <operator> <value>.
IsComparison(tokens, i) ==
    /\ i + 2 <= Len(tokens)
    /\ tokens[i].type = "literal" /\ tokens[i + 1].type = "relational"
    /\ tokens[i + 2].type = "literal"

Comparison(tokens, i) ==
    Phrase(3, i, i + 2,
           IF tokens[i].text \in TableFields
           THEN Outcome("select", SelectHelp(tokens[i].text, tokens[i + 1].text,
                                             tokens[i + 2].text), TRUE)
           ELSE Error)

\* "(" <phrase> ")".
IsGroup(tokens, p) ==
    /\ p.first > 1 /\ p.last < Len(tokens)
    /\ IsWord(tokens[p.first - 1], "(") /\ IsWord(tokens[p.last + 1], ")")

Group(p) == Phrase(3, p.first - 1, p.last + 1, p.meaning)

\* <phrase> <op> <phrase>, grouped from the left.
IsJoin(tokens, op, l, r) ==
    /\ r.first = l.last + 2 /\ IsWord(tokens[l.last + 1], op)
    /\ l.bound >= Binds(op) /\ r.bound > Binds(op)

Join(op, l, r) == Phrase(Binds(op), l.first, r.last, Combine(op, l.meaning, r.meaning))

\* The phrases that one of the rules makes of the phrases known.
Made(tokens, known) ==
    {Comparison(tokens, i) : i \in {i \in DOMAIN tokens : IsComparison(tokens, i)}}
    \union {Group(p) : p \in {p \in known : IsGroup(tokens, p)}}
    \union UNION { {Join(op, l, r) : r \in {r \in known : IsJoin(tokens, op, l, r)}}
                   : l \in known, op \in Logicals }

\* Each rule adds two tokens at least, so that a clause is made in as many
\* steps as half its length or fewer.
Phrases(tokens) ==
    LET made[n \in 0 .. Len(tokens)] == IF n = 0 THEN {} ELSE Made(tokens, made[n - 1])
    IN  made[Len(tokens) \div 2]

Meanings(tokens) ==
    {p.meaning : p \in {p \in Phrases(tokens) : p.first = 1 /\ p.last = Len(tokens)}}

Condition == SubSeq(input, Len(Prefix) + 1, Len(input))

-----------------------------------------------------------------------------
(* Properties *)

\* A well-formed WHERE clause selects exactly the records it means, whatever
\* its nesting, and one that names an unknown field is refused: the postfix
\* conversion and the two evaluation stacks respect precedence and grouping.
\* The recogniser stays in its table and a rejected line leaves no parse tree
\* (TypeOK).
WellFormedAnswered ==
    /\ TypeOK
    /\ Filtering /\ outcome # Pending =>
          \A meaning \in Meanings(Condition) : outcome = meaning

\* DESIGN.md:14: invalid syntax fails closed, so a WHERE clause with no meaning
\* is never answered.
MalformedWhereRejected ==
    Filtering /\ outcome.kind = "select" => Meanings(Condition) # {}
=============================================================================
