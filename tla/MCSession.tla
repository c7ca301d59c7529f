------------------------------ MODULE MCSession ------------------------------
(***************************************************************************)
(* Instances of Session for TLC: two fields, three rows whose orders by    *)
(* the two fields differ, every comparison of one field, some of the       *)
(* other, and clauses of two comparisons; projections in and out of the    *)
(* order of the schema, with an unknown field, and with one named twice.   *)
(***************************************************************************)
EXTENDS Session

MCSchema == <<"a", "b">>
MCRows == {<<1, 2>>, <<2, 1>>, <<2, 2>>}
MCBadRows == {<<1>>}
MCProjections == {<<"*">>, <<"b">>, <<"b", "a">>, <<"a", "none">>,
                  <<"b", "a", "b">>}

On(field, op, value) == Clause(<<Comparison(field, op, value)>>, "and")
Both(logical, c, d) == Clause(<<c, d>>, logical)
MCFilters ==
    {NoClause, On("none", "=", 1)}
    \union {On("a", op, value) : op \in Ops, value \in Values}
    \union {Both(logical, Comparison("a", ">=", 2), Comparison("b", op, 2)) :
               logical \in {"and", "or"}, op \in {"=", "<"}}
=============================================================================
