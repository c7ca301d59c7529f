----------------------------- MODULE SqlCommand -----------------------------
(***************************************************************************)
(* One command line from its tokens to its answer: the table-driven        *)
(* recogniser of includes/parser/parser.cpp, the dispatch of               *)
(* includes/sql/sql.cpp, and for a SELECT the conversion of its WHERE      *)
(* clause to postfix (includes/shunting_yard) and the evaluation of that   *)
(* postfix by Table::Eval.                                                 *)
(*                                                                         *)
(* A token is its text and its Ptype.  The parser consumes one token a     *)
(* step; at any point the line may end, and the command runs.  The table   *)
(* queried holds every record over TableFields and CellValues, so two      *)
(* filters that differ select different records.                           *)
(***************************************************************************)
EXTENDS Integers, Sequences, SequencesExt, FiniteSets

CONSTANTS
    Words,          \* unquoted words a command line may hold
    QuotedWords,    \* texts that may appear in double quotes
    TableName,      \* the one table that exists
    TableFields,    \* its fields
    CellValues,     \* the values its cells take
    Filtering,      \* does the line begin with "select * from <table> where"?
    MaxTokens,      \* bound on the tokens of a line
    MaxParens       \* bound on its parentheses

\* The order comparisons differ from "=" and "!=" only in what they select.
ASSUME WordsAssumption == Words \cap {"<", ">", "<=", ">="} = {}
ASSUME TableAssumption == TableFields # {} /\ CellValues # {}
ASSUME BoundsAssumption ==
    /\ Filtering \in BOOLEAN
    /\ MaxTokens \in Nat /\ MaxParens \in Nat

VARIABLES
    input,      \* Parser::input, the tokens consumed
    parse,      \* the recogniser's state and parse tree
    outcome     \* what SQL::command did, once the line has ended

vars == <<input, parse, outcome>>

-----------------------------------------------------------------------------
(* Tokens *)

Relationals == {"<=", ">=", "=", ">", "<", "!="}
Logicals == {"and", "or"}
Keywords == {"create", "table", "fields", "insert", "into", "values",
             "select", "from", "where"}

\* classify_unquoted_token.
Classify(text) ==
    CASE text \in Keywords       -> text
      [] text \in Logicals       -> "logical"
      [] text \in Relationals    -> "relational"
      [] text \in {"(", ")"}     -> "paren"
      [] text = "*"              -> "asterisk"
      [] text = ","              -> "comma"
      [] OTHER                   -> "literal"

Unquoted(text) == [text |-> text, type |-> Classify(text)]
Quoted(text) == [text |-> text, type |-> "literal"]
Tokens == {Unquoted(w) : w \in Words} \union {Quoted(w) : w \in QuotedWords}

\* is_identifier: everything but a punctuation mark or a number, here.
IsIdentifier(text) == Classify(text) \notin {"relational", "paren", "asterisk", "comma"}
                      /\ text \notin CellValues

-----------------------------------------------------------------------------
(* The recogniser *)

Rejected == -1
SuccessStates == {5, 11, 18, 23, 24}

\* The cells init_ marks, as <<state, type, next state>>.
Marked ==
    { <<0, "create", 1>>, <<1, "table", 2>>, <<2, "literal", 3>>,
      <<3, "fields", 4>>, <<4, "literal", 5>>, <<5, "comma", 6>>,
      <<6, "literal", 5>>,
      <<0, "insert", 7>>, <<7, "into", 8>>, <<8, "literal", 9>>,
      <<9, "values", 10>>, <<10, "literal", 11>>, <<11, "comma", 12>>,
      <<12, "literal", 11>>,
      <<0, "select", 13>>, <<13, "asterisk", 16>>, <<16, "from", 17>>,
      <<13, "literal", 14>>, <<14, "comma", 15>>, <<15, "literal", 14>>,
      <<14, "from", 17>>, <<17, "literal", 18>>, <<18, "where", 19>>,
      <<19, "literal", 21>>, <<19, "paren", 20>>, <<20, "literal", 21>>,
      <<20, "paren", 20>>, <<21, "relational", 22>>, <<22, "literal", 23>>,
      <<23, "logical", 19>>, <<23, "paren", 24>>, <<24, "logical", 19>>,
      <<24, "paren", 24>> }

\* MUTANT: the state after "where" marked as a success state.
CellAfterWhere(state, type) ==
    LET cells == {cell \in Marked : cell[1] = state /\ cell[2] = type}
    IN  IF cells # {} THEN (CHOOSE cell \in cells : TRUE)[3]
        ELSE IF type = "create" THEN IF state \in SuccessStates \union {19} THEN 1 ELSE 0
        ELSE Rejected

\* table[state][type].  Column 0 is both the column of CREATE, whose Ptype is
\* 0, and the one where mark_success and mark_fail keep their flag.
Cell(state, type) ==
    LET cells == {cell \in Marked : cell[1] = state /\ cell[2] = type}
    IN  IF cells # {} THEN (CHOOSE cell \in cells : TRUE)[3]
        ELSE IF type = "create" THEN IF state \in SuccessStates THEN 1 ELSE 0
        ELSE Rejected

IsSuccess(state) == Cell(state, "create") = 1

EmptyTree == [state |-> 0, command |-> "none", tableName |-> <<>>, fields |-> <<>>,
              values |-> <<>>, condition |-> <<>>, where |-> FALSE]

\* The first token chooses the command.
FirstToken(token) ==
    IF token.type \in {"create", "insert", "select"}
    THEN [EmptyTree EXCEPT !.state = Cell(0, token.type), !.command = token.type]
    ELSE [EmptyTree EXCEPT !.state = Rejected]

\* One iteration of parse's loop.
NextToken(tree, token) ==
    LET state == Cell(tree.state, token.type)
        Added(list, states) == IF state \in states THEN Append(list, token.text) ELSE list
    IN  IF state = Rejected THEN [EmptyTree EXCEPT !.state = Rejected]
        ELSE [tree EXCEPT !.state = state,
                          !.tableName = Added(@, {3, 9, 18}),
                          !.fields = Added(@, {5, 14, 16}),
                          !.values = Added(@, {11}),
                          !.where = @ \/ state = 19,
                          !.condition = IF token.text # "where" THEN Added(@, 19 .. 24) ELSE @]

ParseToken(tree, token) ==
    IF tree.command = "none" THEN FirstToken(token) ELSE NextToken(tree, token)

-----------------------------------------------------------------------------
(* ShuntingYard *)

\* allocate_tokens_memory goes by the text alone.
IsString(text) == text \notin Relationals \union Logicals \union {"(", ")"}

\* MUTANT: both logical operators bind alike.
FlatPrecedence(text) ==
    IF text \in Relationals THEN 4
    ELSE IF text \in Logicals THEN 1 ELSE -1

Precedence(text) ==
    IF text \in Relationals THEN 4
    ELSE IF text = "and" THEN 2
    ELSE IF text = "or" THEN 1 ELSE -1

\* How many of the stack's elements lie above the last position of "stops".
AboveLast(stack, stops) ==
    IF stops = {} THEN Len(stack)
    ELSE Len(stack) - (CHOOSE i \in stops : \A j \in stops : j <= i)

Drop(stack, n) == SubSeq(stack, 1, Len(stack) - n)
Top(stack, n) == Reverse(SubSeq(stack, Len(stack) - n + 1, Len(stack)))

\* One token of the infix queue.
Shunt(yard, text) ==
    LET parens  == {i \in DOMAIN yard.stack : yard.stack[i] = "("}
        looser  == {i \in DOMAIN yard.stack : Precedence(yard.stack[i]) < Precedence(text)}
        binding == AboveLast(yard.stack, parens \union looser)
        inside  == AboveLast(yard.stack, parens)
    IN  IF yard.error THEN yard
        ELSE IF IsString(text) THEN [yard EXCEPT !.out = Append(@, text)]
        ELSE IF text \in Relationals \union {"("} THEN [yard EXCEPT !.stack = Append(@, text)]
        ELSE IF text \in Logicals
             THEN [yard EXCEPT !.out = @ \o Top(yard.stack, binding),
                               !.stack = Append(Drop(yard.stack, binding), text)]
        ELSE IF inside = Len(yard.stack) THEN [yard EXCEPT !.error = TRUE]
        ELSE [yard EXCEPT !.out = @ \o Top(yard.stack, inside),
                          !.stack = Drop(yard.stack, inside + 1)]

ShuntingYard(infix) ==
    LET yard[k \in 0 .. Len(infix)] ==
            IF k = 0 THEN [out |-> <<>>, stack |-> <<>>, error |-> FALSE]
            ELSE Shunt(yard[k - 1], infix[k])
        end == yard[Len(infix)]
    IN  [postfix |-> end.out \o Reverse(end.stack),
         error   |-> end.error \/ "(" \in ToSet(end.stack)]

-----------------------------------------------------------------------------
(* Table::select *)

Records == [TableFields -> CellValues]

\* selectHelp, by query_index's scan of the field's index.
Matches(op, cell, value) == IF op = "=" THEN cell = value ELSE cell # value
SelectHelp(field, op, value) == {r \in Records : Matches(op, r[field], value)}

\* One token of the postfix queue: operands on one stack, record sets on another.
EvalToken(stacks, text) ==
    LET strings == stacks.strings
        sets    == stacks.sets
        value   == Last(strings)
        field   == strings[Len(strings) - 1]
        first   == Last(sets)
        second  == sets[Len(sets) - 1]
    IN  IF stacks.error THEN stacks
        ELSE IF IsString(text) THEN [stacks EXCEPT !.strings = Append(@, text)]
        ELSE IF text \in Relationals
             THEN IF Len(strings) < 2 \/ field \notin TableFields
                  THEN [stacks EXCEPT !.error = TRUE]
                  ELSE [stacks EXCEPT !.strings = Drop(@, 2),
                                      !.sets = Append(@, SelectHelp(field, text, value))]
        ELSE IF Len(sets) < 2 THEN [stacks EXCEPT !.error = TRUE]
        ELSE [stacks EXCEPT !.sets = Append(Drop(@, 2),
                 IF text = "and" THEN first \cap second ELSE first \union second)]

Eval(postfix) ==
    LET stacks[k \in 0 .. Len(postfix)] ==
            IF k = 0 THEN [strings |-> <<>>, sets |-> <<>>, error |-> FALSE]
            ELSE EvalToken(stacks[k - 1], postfix[k])
        end == stacks[Len(postfix)]
    IN  [error   |-> end.error \/ end.strings # <<>> \/ Len(end.sets) # 1,
         records |-> UNION ToSet(end.sets)]

-----------------------------------------------------------------------------
(* SQL::command *)

\* `filtered' tells whether a WHERE clause was evaluated.
Outcome(kind, records, filtered) ==
    [kind |-> kind, records |-> records, filtered |-> filtered]
Pending == Outcome("none", {}, FALSE)
Error == Outcome("error", {}, FALSE)
Crash == Outcome("crash", {}, FALSE)    \* an element of an empty vector is used

\* select(fields, expression): an empty postfix queue selects every record.
SelectWhere(condition) ==
    LET yard == ShuntingYard(condition)
        done == Eval(yard.postfix)
    IN  IF yard.error THEN Error
        ELSE IF yard.postfix = <<>> THEN Outcome("select", Records, FALSE)
        ELSE IF done.error THEN Error
        ELSE Outcome("select", done.records, TRUE)

Select(tree) ==
    IF tree.tableName[1] # TableName THEN Error
    ELSE IF tree.fields = <<>> THEN Crash
    ELSE IF tree.fields[1] # "*" /\ ~(ToSet(tree.fields) \subseteq TableFields) THEN Error
    ELSE IF tree.where THEN SelectWhere(tree.condition)
    ELSE Outcome("select", Records, FALSE)

Execute(tree) ==
    IF tree.command = "none" \/ ~IsSuccess(tree.state) THEN Error
    ELSE IF tree.tableName = <<>> THEN Crash
    ELSE IF ~IsIdentifier(tree.tableName[1]) THEN Error
    ELSE IF tree.command = "select" THEN Select(tree)
    ELSE IF tree.command = "create"
         THEN IF /\ \A i \in DOMAIN tree.fields : IsIdentifier(tree.fields[i])
                 /\ tree.fields # <<>> /\ IsInjective(tree.fields)
                 /\ tree.tableName[1] # TableName
              THEN Outcome("create", {}, FALSE) ELSE Error
    ELSE IF /\ tree.tableName[1] = TableName
            /\ Len(tree.values) = Cardinality(TableFields)
         THEN Outcome("insert", {}, FALSE) ELSE Error

-----------------------------------------------------------------------------
(* The specification *)

Prefix == IF Filtering
          THEN <<Unquoted("select"), Unquoted("*"), Unquoted("from"),
                 Quoted(TableName), Unquoted("where")>>
          ELSE <<>>

Init ==
    /\ input = <<>>
    /\ parse = EmptyTree
    /\ outcome = Pending

Parens(tokens) == Cardinality({i \in DOMAIN tokens : tokens[i].type = "paren"})

\* The rest of a rejected line changes nothing, so no further token is read.
Read(token) ==
    /\ outcome = Pending
    /\ parse.state # Rejected
    /\ Len(input) < MaxTokens
    /\ token.type = "paren" => Parens(input) < MaxParens
    /\ input' = Append(input, token)
    /\ parse' = ParseToken(parse, token)
    /\ UNCHANGED outcome

EndOfLine ==
    /\ outcome = Pending
    /\ Len(input) >= Len(Prefix)
    /\ outcome' = Execute(parse)
    /\ UNCHANGED <<input, parse>>

NextTokens == IF Len(input) < Len(Prefix) THEN {Prefix[Len(input) + 1]} ELSE Tokens

Next == (\E token \in NextTokens : Read(token)) \/ EndOfLine

Spec == Init /\ [][Next]_vars

-----------------------------------------------------------------------------
(* Properties *)

TypeOK ==
    /\ input \in Seq(Tokens \union ToSet(Prefix)) /\ Len(input) <= MaxTokens
    /\ parse.state \in {Rejected} \union 0 .. 24
    /\ parse.command \in {"none", "create", "insert", "select"}
    /\ parse.state = Rejected => parse = [EmptyTree EXCEPT !.state = Rejected]
    /\ Len(parse.condition) <= Len(input)
    /\ outcome.records \subseteq Records

\* DESIGN.md:15: an invalid WHERE expression never falls back to an
\* unfiltered query.
NeverUnfiltered ==
    outcome.kind = "select" /\ Unquoted("where") \in ToSet(input) => outcome.filtered
=============================================================================
