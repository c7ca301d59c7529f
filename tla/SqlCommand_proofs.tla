-------------------------- MODULE SqlCommand_proofs --------------------------
(***************************************************************************)
(* Theorems about SqlCommand.  A line is answered without evaluating its   *)
(* WHERE clause only if the keyword create follows the keyword where, and  *)
(* SQL::command uses an element of an empty vector only if create is not   *)
(* the first word of its line: column 0 of the recogniser is the only way  *)
(* to either, for every vocabulary, table and length of the line.          *)
(*                                                                         *)
(* The argument has two halves.  The recogniser cannot leave the states of *)
(* a WHERE clause, and reaches a success state among them only over a      *)
(* relational operator, which the parse tree keeps; and the shunting yard  *)
(* loses no relational operator, so the postfix queue is not empty and     *)
(* Table::select evaluates it.                                             *)
(***************************************************************************)
EXTENDS SqlCommand, SequenceTheorems, InductionOnSets

AllTokens == Tokens \union ToSet(Prefix)
Texts == {token.text : token \in AllTokens}

Trees == [state     : {Rejected} \union 0 .. 24,
          command   : {"none", "create", "insert", "select"},
          tableName : Seq(Texts),
          fields    : Seq(Texts),
          values    : Seq(Texts),
          condition : Seq(Texts),
          where     : BOOLEAN]

RejectedTree == [EmptyTree EXCEPT !.state = Rejected]

\* The two lines on which column 0 misleads the recogniser.
CreateFollowsWhere ==
    \E i, j \in DOMAIN input : /\ i < j
                               /\ input[i] = Unquoted("where")
                               /\ input[j] = Unquoted("create")
CreateNotFirst == \E j \in DOMAIN input : j > 1 /\ input[j] = Unquoted("create")

Answered(condition) == \E i \in DOMAIN condition : condition[i] \in Relationals

-----------------------------------------------------------------------------
(* The inductive invariant *)

TreeInv ==
    /\ input \in Seq(AllTokens) /\ Len(input) <= MaxTokens
    /\ parse \in Trees
    /\ parse.state = Rejected => parse = RejectedTree
    /\ parse.command = "none" => parse.state = Rejected \/ (input = <<>> /\ parse.state = 0)
    /\ parse.command # "none" => input # <<>>
    /\ Len(parse.condition) <= Len(input)

\* Within a WHERE clause the tree says so, and holds a relational operator
\* once the clause may end.
ClauseInv ==
    /\ parse.state \in 19 .. 24 => parse.where
    /\ parse.state \in {22, 23, 24} => Answered(parse.condition)

\* Nothing but create leads out of a WHERE clause.
WhereInv ==
    Unquoted("where") \in ToSet(input) /\ parse.state # Rejected
        => parse.state \in 19 .. 24 \/ CreateFollowsWhere

\* The states of one command are not those of another, and past the state
\* that reads a name the tree has it.
NamesInv ==
    parse.state # Rejected /\ ~CreateNotFirst =>
        /\ parse.command = "none"   => parse.state = 0
        /\ parse.command = "create" => parse.state \in 1 .. 6
        /\ parse.command = "insert" => parse.state \in 7 .. 12
        /\ parse.command = "select" => parse.state \in 13 .. 24
        /\ parse.state \in (3 .. 6) \union (9 .. 12) \union (18 .. 24) => parse.tableName # <<>>
        /\ parse.state \in 14 .. 24 => parse.fields # <<>>

OutcomeInv ==
    /\ outcome.records \subseteq Records
    /\ NeverUnfiltered \/ CreateFollowsWhere
    /\ outcome.kind = "crash" => CreateNotFirst

IInv == TreeInv /\ ClauseInv /\ WhereInv /\ NamesInv /\ OutcomeInv

-----------------------------------------------------------------------------
(* Tokens and the state table *)

LEMMA Classes ==
    ASSUME NEW text
    PROVE  /\ Classify(text) = "where" <=> text = "where"
           /\ Classify(text) = "create" <=> text = "create"
           /\ Classify(text) = "relational" => text \in Relationals
<1>1. CASE text \in Keywords
  BY <1>1 DEF Classify, Keywords, Logicals, Relationals
<1>2. CASE text \notin Keywords
  BY <1>2 DEF Classify, Keywords, Logicals, Relationals
<1>3. QED
  BY <1>1, <1>2

LEMMA TokenFacts ==
    ASSUME NEW token \in AllTokens
    PROVE  /\ token.text \in Texts
           /\ token.type = "where" <=> token = Unquoted("where")
           /\ token.type = "create" <=> token = Unquoted("create")
           /\ token.type = "relational" => token.text \in Relationals
<1>1. token.text \in Texts
  BY DEF Texts
<1>2. PICK text : token = Unquoted(text) \/ token = Quoted(text)
  <2>1. CASE token \in Tokens
    BY <2>1 DEF Tokens
  <2>2. CASE token \in ToSet(Prefix)
    <3>1. /\ Prefix # <<>>
          /\ \E i \in 1 .. 5 : token = Prefix[i]
      BY <2>2 DEF ToSet, Prefix
    <3>2. QED
      BY <3>1 DEF Prefix
  <2>3. QED
    BY <2>1, <2>2 DEF AllTokens
<1>3. CASE token = Unquoted(text)
  BY <1>1, <1>3, Classes DEF Unquoted
<1>4. CASE token = Quoted(text)
  <2>1. Classify("where") = "where" /\ Classify("create") = "create"
    BY Classes
  <2>2. QED
    BY <1>1, <1>4, <2>1 DEF Unquoted, Quoted
<1>5. QED
  BY <1>2, <1>3, <1>4

LEMMA NotRejected == \A s \in 0 .. 24 : s # Rejected
BY DEF Rejected

\* Which steps the marked cells allow.
LEMMA MarkedFacts ==
    ASSUME NEW s, NEW type, NEW n, <<s, type, n>> \in Marked
    PROVE  /\ s \in 0 .. 24 /\ n \in 1 .. 24
           /\ s \in 19 .. 24 => n \in 19 .. 24
           /\ n \in 20 .. 24 => s \in 19 .. 24
           /\ n = 19 => s \in {18, 23, 24}
           /\ type = "where" => n = 19
           /\ n = 22 => type = "relational"
           /\ n \in {23, 24} => s \in {22, 23, 24}
           /\ type = "create" => s = 0 /\ n = 1
BY DEF Marked

LEMMA CommandsApart ==
    ASSUME NEW s, NEW type, NEW n, <<s, type, n>> \in Marked
    PROVE  /\ s \in 1 .. 6 => n \in 1 .. 6
           /\ s \in 7 .. 12 => n \in 7 .. 12
           /\ s \in 13 .. 24 => n \in 13 .. 24
           /\ n \in (4 .. 6) \union (10 .. 12) \union (19 .. 24)
                => s \in (3 .. 6) \union (9 .. 12) \union (18 .. 24)
           /\ n \in (17 .. 24) \union {15} => s \in 14 .. 24
           /\ s = 0 => n \in {1, 7, 13}
BY DEF Marked

LEMMA CellFacts ==
    ASSUME NEW s \in 0 .. 24, NEW type
    PROVE  \/ <<s, type, Cell(s, type)>> \in Marked
           \/ type = "create" /\ Cell(s, type) = 0
           \/ type = "create" /\ Cell(s, type) = 1 /\ s \in SuccessStates
           \/ Cell(s, type) = Rejected
<1> DEFINE cells == {cell \in Marked : cell[1] = s /\ cell[2] = type}
<1>1. CASE cells # {}
  <2>1. Cell(s, type) = (CHOOSE cell \in cells : TRUE)[3]
    BY <1>1 DEF Cell
  <2>2. PICK cell \in cells : cell = CHOOSE cell0 \in cells : TRUE
    BY <1>1
  <2>3. cell = <<cell[1], cell[2], cell[3]>>
    BY DEF Marked
  <2>4. QED
    BY <2>1, <2>2, <2>3
<1>2. CASE cells = {}
  BY <1>2 DEF Cell
<1>3. QED
  BY <1>1, <1>2

LEMMA SuccessFacts ==
    ASSUME NEW s \in {Rejected} \union 0 .. 24, IsSuccess(s)
    PROVE  s \in {0} \union SuccessStates \union {Rejected}
<1>1. CASE s = Rejected
  BY <1>1
<1>2. CASE s \in 0 .. 24
  <2>1. Cell(s, "create") = 1
    BY DEF IsSuccess
  <2>2. <<s, "create", 1>> \in Marked => s = 0
    BY MarkedFacts
  <2>3. QED
    BY <1>2, <2>1, <2>2, CellFacts DEF Rejected
<1>3. QED
  BY <1>1, <1>2

-----------------------------------------------------------------------------
(* The recogniser keeps the invariant *)

TreeStepped(tree, token) ==
    LET next == NextToken(tree, token)
    IN  /\ next \in Trees
        /\ next.state = Cell(tree.state, token.type)
        /\ next.command = tree.command
        /\ next.tableName = IF next.state \in {3, 9, 18}
                            THEN Append(tree.tableName, token.text) ELSE tree.tableName
        /\ next.fields = IF next.state \in {5, 14, 16}
                         THEN Append(tree.fields, token.text) ELSE tree.fields
        /\ next.where = (tree.where \/ next.state = 19)
        /\ next.condition = IF next.state \in 19 .. 24 /\ token.text # "where"
                            THEN Append(tree.condition, token.text) ELSE tree.condition

LEMMA NextTokenFacts ==
    ASSUME NEW tree \in Trees, tree.state \in 0 .. 24, NEW token \in AllTokens
    PROVE  IF Cell(tree.state, token.type) = Rejected
           THEN NextToken(tree, token) = RejectedTree
           ELSE TreeStepped(tree, token)
<1> DEFINE s == Cell(tree.state, token.type)
<1>1. CASE s = Rejected
  BY <1>1 DEF NextToken, RejectedTree
<1>2. CASE s # Rejected
  <2>1. s \in 0 .. 24
    <3>1. <<tree.state, token.type, s>> \in Marked => s \in 1 .. 24
      BY MarkedFacts
    <3>2. QED
      BY <1>2, <3>1, CellFacts
  <2>2. token.text \in Texts
    BY TokenFacts
  <2> DEFINE Added(list, states) == IF s \in states THEN Append(list, token.text) ELSE list
  <2>3. NextToken(tree, token) =
          [tree EXCEPT !.state = s,
                       !.tableName = Added(@, {3, 9, 18}),
                       !.fields = Added(@, {5, 14, 16}),
                       !.values = Added(@, {11}),
                       !.where = @ \/ s = 19,
                       !.condition = IF token.text # "where" THEN Added(@, 19 .. 24) ELSE @]
    BY <1>2 DEF NextToken
  <2> HIDE DEF s
  <2>4. /\ Added(tree.tableName, {3, 9, 18}) \in Seq(Texts)
        /\ Added(tree.fields, {5, 14, 16}) \in Seq(Texts)
        /\ Added(tree.values, {11}) \in Seq(Texts)
        /\ Added(tree.condition, 19 .. 24) \in Seq(Texts)
    BY <2>2 DEF Trees
  <2>5. NextToken(tree, token) =
          [state     |-> s,
           command   |-> tree.command,
           tableName |-> Added(tree.tableName, {3, 9, 18}),
           fields    |-> Added(tree.fields, {5, 14, 16}),
           values    |-> Added(tree.values, {11}),
           condition |-> IF token.text # "where" THEN Added(tree.condition, 19 .. 24)
                         ELSE tree.condition,
           where     |-> tree.where \/ s = 19]
    BY <2>3 DEF Trees
  <2>6. NextToken(tree, token) \in Trees
    BY <2>1, <2>4, <2>5 DEF Trees
  <2>7. QED
    BY <1>2, <2>5, <2>6 DEF TreeStepped, s
<1>3. QED
  BY <1>1, <1>2

LEMMA EmptyTreeFacts ==
    /\ EmptyTree \in Trees
    /\ RejectedTree \in Trees
    /\ RejectedTree.state = Rejected
    /\ RejectedTree.condition = <<>>
<1>1. <<>> \in Seq(Texts)
  OBVIOUS
<1>2. EmptyTree \in Trees
  BY <1>1 DEF EmptyTree, Trees
<1>3. RejectedTree = [EmptyTree EXCEPT !.state = Rejected]
  BY DEF RejectedTree
<1>4. Rejected \in {Rejected} \union 0 .. 24
  OBVIOUS
<1>5. RejectedTree \in Trees /\ RejectedTree.state = Rejected
  BY <1>2, <1>3, <1>4 DEF Trees
<1>6. RejectedTree.condition = EmptyTree.condition /\ EmptyTree.condition = <<>>
  BY <1>2, <1>3 DEF EmptyTree
<1>7. QED
  BY <1>2, <1>5, <1>6

LEMMA FirstTokenFacts ==
    ASSUME NEW token \in AllTokens
    PROVE  LET first == FirstToken(token)
           IN  /\ first \in Trees
               /\ first.condition = <<>>
               /\ \/ first = RejectedTree
                  \/ /\ token # Unquoted("where")
                     /\ \/ first.command = "create" /\ first.state = 1
                        \/ first.command = "insert" /\ first.state = 7
                        \/ first.command = "select" /\ first.state = 13
<1>1. CASE token.type \in {"create", "insert", "select"}
  <2> DEFINE s == Cell(0, token.type)
  <2>1. FirstToken(token) = [EmptyTree EXCEPT !.state = s, !.command = token.type]
    BY <1>1 DEF FirstToken
  <2>2. \/ token.type = "create" /\ s = 1
        \/ token.type = "insert" /\ s = 7
        \/ token.type = "select" /\ s = 13
    <3>1. \E cell \in Marked : cell[1] = 0 /\ cell[2] = token.type
      BY <1>1 DEF Marked
    <3>2. <<0, token.type, s>> \in Marked
      <4>1. PICK cell \in {c \in Marked : c[1] = 0 /\ c[2] = token.type} :
              s = cell[3]
        BY <3>1 DEF Cell
      <4>2. cell = <<cell[1], cell[2], cell[3]>>
        BY DEF Marked
      <4>3. QED
        BY <4>1, <4>2
    <3>3. QED
      BY <1>1, <3>2 DEF Marked
  <2>3. token # Unquoted("where")
    BY <1>1, TokenFacts
  <2>4. FirstToken(token) = [state |-> s, command |-> token.type, tableName |-> <<>>,
                             fields |-> <<>>, values |-> <<>>, condition |-> <<>>,
                             where |-> FALSE]
    BY <2>1 DEF EmptyTree
  <2> HIDE DEF s
  <2>5. FirstToken(token) \in Trees
    BY <1>1, <2>2, <2>4 DEF Trees
  <2>6. QED
    BY <2>2, <2>3, <2>4, <2>5
<1>2. CASE token.type \notin {"create", "insert", "select"}
  BY <1>2, EmptyTreeFacts DEF FirstToken, RejectedTree
<1>3. QED
  BY <1>1, <1>2

\* What reading a token does to the tree.
Begun(token) == input = <<>> /\ parse' = FirstToken(token)
Continued(token) ==
    /\ parse \in Trees /\ parse.command # "none" /\ parse.state \in 0 .. 24
    /\ TreeStepped(parse, token) /\ parse' = NextToken(parse, token)
    /\ parse'.state \in 0 .. 24

LEMMA ReadCases ==
    ASSUME TreeInv, NEW token \in AllTokens, Read(token)
    PROVE  /\ input' = Append(input, token) /\ input' \in Seq(AllTokens)
           /\ Len(input') = Len(input) + 1 /\ Len(input') <= MaxTokens
           /\ Len(input) \in Nat
           /\ \A i \in 1 .. Len(input) : input'[i] = input[i]
           /\ input'[Len(input) + 1] = token
           /\ Begun(token) \/ parse' = RejectedTree \/ Continued(token)
<1>1. /\ input \in Seq(AllTokens) /\ Len(input) < MaxTokens /\ MaxTokens \in Nat
      /\ input' = Append(input, token)
  BY BoundsAssumption DEF TreeInv, Read
<1>2. /\ input' \in Seq(AllTokens)
      /\ Len(input') = Len(input) + 1 /\ Len(input') <= MaxTokens
      /\ Len(input) \in Nat
      /\ \A i \in 1 .. Len(input) : input'[i] = input[i]
      /\ input'[Len(input) + 1] = token
  BY <1>1
<1>3. /\ parse \in Trees /\ parse.state # Rejected /\ parse.state \in 0 .. 24
      /\ parse' = ParseToken(parse, token)
      /\ parse.command = "none" => input = <<>>
  BY DEF TreeInv, Trees, Read
<1>4. CASE parse.command = "none"
  BY <1>1, <1>2, <1>3, <1>4 DEF ParseToken, Begun
<1>5. CASE parse.command # "none"
  <2>1. parse' = NextToken(parse, token)
    BY <1>3, <1>5 DEF ParseToken
  <2>2. CASE Cell(parse.state, token.type) = Rejected
    BY <1>1, <1>2, <1>3, <2>1, <2>2, NextTokenFacts
  <2>3. CASE Cell(parse.state, token.type) # Rejected
    <3>1. TreeStepped(parse, token)
      BY <1>3, <2>3, NextTokenFacts
    <3>2. parse'.state \in 0 .. 24
      BY <2>1, <2>3, <3>1 DEF TreeStepped, Trees
    <3>3. QED
      BY <1>1, <1>2, <1>3, <1>5, <2>1, <3>1, <3>2 DEF Continued
  <2>4. QED
    BY <2>2, <2>3
<1>6. QED
  BY <1>4, <1>5

\* What a step within the table can be.
LEMMA ContinuedCell ==
    ASSUME NEW token \in AllTokens, Continued(token)
    PROVE  \/ <<parse.state, token.type, parse'.state>> \in Marked
           \/ token = Unquoted("create") /\ parse'.state = 0
           \/ token = Unquoted("create") /\ parse'.state = 1
<1>1. /\ parse'.state = Cell(parse.state, token.type) /\ parse.state \in 0 .. 24
      /\ parse'.state # Rejected
  BY DEF Continued, TreeStepped, Rejected
<1>2. QED
  BY <1>1, CellFacts, TokenFacts

LEMMA ReadKeepsTree ==
    ASSUME TreeInv, NEW token \in AllTokens, Read(token)
    PROVE  TreeInv'
<1>1. /\ input' \in Seq(AllTokens) /\ Len(input') <= MaxTokens
      /\ Len(input') = Len(input) + 1 /\ Len(input) \in Nat
      /\ Begun(token) \/ parse' = RejectedTree \/ Continued(token)
  BY ReadCases
<1>2. CASE parse' = RejectedTree
  BY <1>1, <1>2, EmptyTreeFacts DEF TreeInv
<1>3. CASE Begun(token)
  <2>1. /\ parse' \in Trees /\ parse'.condition = <<>>
        /\ \/ parse' = RejectedTree
           \/ parse'.command # "none" /\ parse'.state \in {1, 7, 13}
    BY <1>3, FirstTokenFacts DEF Begun
  <2>2. QED
    BY <1>1, <1>2, <2>1 DEF TreeInv, Rejected
<1>4. CASE Continued(token)
  <2>1. /\ parse' \in Trees /\ parse'.command # "none" /\ parse'.state # Rejected
    BY <1>4 DEF Continued, TreeStepped, Rejected
  <2>2. Len(parse'.condition) <= Len(parse.condition) + 1 /\ Len(parse.condition) \in Nat
    BY <1>4, SMTT(30) DEF Continued, TreeStepped, Trees
  <2>3. Len(parse.condition) <= Len(input)
    BY DEF TreeInv
  <2>4. Len(parse'.condition) \in Nat
    BY <2>1 DEF Trees
  <2>5. QED
    BY <1>1, <2>1, <2>2, <2>3, <2>4 DEF TreeInv
<1>5. QED
  BY <1>1, <1>2, <1>3, <1>4

LEMMA ReadKeepsClause ==
    ASSUME TreeInv, ClauseInv, NEW token \in AllTokens, Read(token)
    PROVE  ClauseInv'
<1>1. Begun(token) \/ parse' = RejectedTree \/ Continued(token)
  BY ReadCases
<1>2. CASE parse' = RejectedTree
  BY <1>2, EmptyTreeFacts DEF ClauseInv, Rejected
<1>3. CASE Begun(token)
  <2>1. parse' = RejectedTree \/ parse'.state \in {1, 7, 13}
    BY <1>3, FirstTokenFacts DEF Begun
  <2>2. QED
    BY <1>2, <2>1 DEF ClauseInv
<1>4. CASE Continued(token)
  <2>1. /\ parse'.where = (parse.where \/ parse'.state = 19)
        /\ parse'.condition = IF parse'.state \in 19 .. 24 /\ token.text # "where"
                              THEN Append(parse.condition, token.text) ELSE parse.condition
        /\ parse.condition \in Seq(Texts) /\ token.text \in Texts
    BY <1>4, TokenFacts DEF Continued, TreeStepped, Trees
  <2>2. CASE parse'.state \in {0, 1}
    BY <2>2 DEF ClauseInv
  <2>3. CASE <<parse.state, token.type, parse'.state>> \in Marked
    <3>1. parse'.state \in 19 .. 24 => parse'.where
      <4>1. parse'.state \in 20 .. 24 => parse.state \in 19 .. 24
        BY <2>3, MarkedFacts
      <4>2. parse'.state \in 20 .. 24 => parse.where
        BY <4>1 DEF ClauseInv
      <4>3. parse'.state \in 19 .. 24 => parse'.state = 19 \/ parse'.state \in 20 .. 24
        OBVIOUS
      <4>4. parse'.where <=> parse.where \/ parse'.state = 19
        BY <2>1, Zenon
      <4>5. QED
        BY <4>2, <4>3, <4>4, Zenon
    <3>2. ASSUME Answered(parse.condition) PROVE Answered(parse'.condition)
      <4>1. PICK i \in 1 .. Len(parse.condition) : parse.condition[i] \in Relationals
        BY <2>1, <3>2 DEF Answered
      <4>2. /\ DOMAIN parse'.condition = 1 .. Len(parse'.condition)
            /\ i \in 1 .. Len(parse'.condition) /\ parse'.condition[i] = parse.condition[i]
        BY <2>1
      <4>3. QED
        BY <4>1, <4>2 DEF Answered
    <3>3. ASSUME parse'.state = 22 PROVE Answered(parse'.condition)
      <4>1. token.type = "relational"
        BY <2>3, <3>3, MarkedFacts
      <4>2. token.text \in Relationals /\ token.text # "where"
        BY <4>1, TokenFacts DEF Relationals
      <4>3. parse'.condition = Append(parse.condition, token.text)
        BY <2>1, <3>3, <4>2
      <4>4. /\ Len(parse.condition) + 1 \in DOMAIN parse'.condition
            /\ parse'.condition[Len(parse.condition) + 1] = token.text
        BY <2>1, <4>3
      <4>5. QED
        BY <4>2, <4>4 DEF Answered
    <3>4. ASSUME parse'.state \in {23, 24} PROVE Answered(parse'.condition)
      <4>1. parse.state \in {22, 23, 24}
        BY <2>3, <3>4, MarkedFacts
      <4>2. QED
        BY <3>2, <4>1 DEF ClauseInv
    <3>5. QED
      BY <3>1, <3>3, <3>4 DEF ClauseInv
  <2>4. QED
    BY <1>4, <2>2, <2>3, ContinuedCell
<1>5. QED
  BY <1>1, <1>2, <1>3, <1>4

LEMMA ReadKeepsWhere ==
    ASSUME TreeInv, WhereInv, NEW token \in AllTokens, Read(token)
    PROVE  WhereInv'
<1>1. /\ input \in Seq(AllTokens) /\ input' \in Seq(AllTokens) /\ Len(input) \in Nat
      /\ Len(input') = Len(input) + 1
      /\ \A i \in 1 .. Len(input) : input'[i] = input[i]
      /\ input'[Len(input) + 1] = token
      /\ Begun(token) \/ parse' = RejectedTree \/ Continued(token)
  BY ReadCases DEF TreeInv
<1>2. DOMAIN input = 1 .. Len(input) /\ DOMAIN input' = 1 .. Len(input) + 1
  BY <1>1
<1>3. SUFFICES ASSUME Unquoted("where") \in ToSet(input'), parse'.state # Rejected
               PROVE  parse'.state \in 19 .. 24 \/ CreateFollowsWhere'
  BY DEF WhereInv
<1>4. PICK i \in 1 .. Len(input) + 1 : input'[i] = Unquoted("where")
  BY <1>2, <1>3 DEF ToSet
<1>5. CASE Begun(token)
  <2>1. i = Len(input) + 1
    BY <1>1, <1>4, <1>5 DEF Begun
  <2>2. QED
    BY <1>1, <1>3, <1>4, <1>5, <2>1, FirstTokenFacts, EmptyTreeFacts DEF Begun
<1>6. CASE Continued(token) /\ i = Len(input) + 1
  <2>1. token = Unquoted("where")
    BY <1>1, <1>4, <1>6
  <2>2. token.type = "where" /\ token.type # "create"
    BY <2>1, TokenFacts
  <2>3. <<parse.state, token.type, parse'.state>> \in Marked
    BY <1>6, <2>2, ContinuedCell, TokenFacts
  <2>4. QED
    BY <2>2, <2>3, MarkedFacts
<1>7. CASE Continued(token) /\ i # Len(input) + 1
  <2>1. i \in 1 .. Len(input) /\ input[i] = Unquoted("where")
    BY <1>1, <1>4, <1>7
  <2>2. Unquoted("where") \in ToSet(input) /\ parse.state # Rejected
    <3>1. parse.state \in 0 .. 24
      BY <1>7 DEF Continued
    <3>2. parse.state # Rejected
      BY <3>1, NotRejected, Zenon
    <3>3. Unquoted("where") \in ToSet(input)
      BY <1>2, <2>1, Zenon DEF ToSet
    <3>4. QED
      BY <3>2, <3>3
  <2>3. CASE CreateFollowsWhere
    <3>1. PICK a, b \in 1 .. Len(input) : /\ a < b
                                          /\ input[a] = Unquoted("where")
                                          /\ input[b] = Unquoted("create")
      BY <1>2, <2>3 DEF CreateFollowsWhere
    <3>2. /\ a \in DOMAIN input' /\ b \in DOMAIN input'
          /\ input'[a] = Unquoted("where") /\ input'[b] = Unquoted("create")
      BY <1>1, <1>2, <3>1
    <3>3. QED
      BY <3>1, <3>2 DEF CreateFollowsWhere
  <2>4. CASE token = Unquoted("create")
    <3>1. /\ i \in DOMAIN input' /\ Len(input) + 1 \in DOMAIN input' /\ i < Len(input) + 1
          /\ input'[i] = Unquoted("where") /\ input'[Len(input) + 1] = Unquoted("create")
      BY <1>1, <1>2, <1>4, <2>1, <2>4
    <3>2. QED
      BY <3>1 DEF CreateFollowsWhere
  <2>5. CASE parse.state \in 19 .. 24 /\ token # Unquoted("create")
    BY <1>7, <2>5, ContinuedCell, MarkedFacts
  <2>6. QED
    BY <2>2, <2>3, <2>4, <2>5 DEF WhereInv
<1>8. parse' = RejectedTree => parse'.state = Rejected
  BY EmptyTreeFacts
<1>9. QED
  BY <1>1, <1>3, <1>5, <1>6, <1>7, <1>8

LEMMA ReadKeepsNames ==
    ASSUME TreeInv, NamesInv, NEW token \in AllTokens, Read(token)
    PROVE  NamesInv'
<1>1. /\ input \in Seq(AllTokens) /\ input' \in Seq(AllTokens) /\ Len(input) \in Nat
      /\ Len(input') = Len(input) + 1
      /\ \A i \in 1 .. Len(input) : input'[i] = input[i]
      /\ input'[Len(input) + 1] = token
      /\ Begun(token) \/ parse' = RejectedTree \/ Continued(token)
  BY ReadCases DEF TreeInv
<1>2. DOMAIN input = 1 .. Len(input) /\ DOMAIN input' = 1 .. Len(input) + 1
  BY <1>1
<1>3. SUFFICES ASSUME parse'.state # Rejected, ~CreateNotFirst'
               PROVE  NamesInv'
  BY DEF NamesInv
<1>4. CASE Begun(token)
  <2>1. \/ parse'.command = "create" /\ parse'.state = 1
        \/ parse'.command = "insert" /\ parse'.state = 7
        \/ parse'.command = "select" /\ parse'.state = 13
    BY <1>3, <1>4, FirstTokenFacts, EmptyTreeFacts DEF Begun
  <2>2. /\ parse'.command # "none"
        /\ parse'.command = "create" => parse'.state \in 1 .. 6
        /\ parse'.command = "insert" => parse'.state \in 7 .. 12
        /\ parse'.command = "select" => parse'.state \in 13 .. 24
    BY <2>1
  <2>3. /\ parse'.state \notin (3 .. 6) \union (9 .. 12) \union (18 .. 24)
        /\ parse'.state \notin 14 .. 24
    BY <2>1
  <2>4. QED
    BY <2>2, <2>3 DEF NamesInv
<1>5. CASE Continued(token)
  <2>1. ~CreateNotFirst
    <3>1. ASSUME CreateNotFirst PROVE FALSE
      <4>1. PICK j \in 1 .. Len(input) : j > 1 /\ input[j] = Unquoted("create")
        BY <1>2, <3>1 DEF CreateNotFirst
      <4>2. j \in DOMAIN input' /\ input'[j] = Unquoted("create")
        BY <1>1, <1>2, <4>1
      <4>3. QED
        BY <1>3, <4>1, <4>2 DEF CreateNotFirst
    <3>2. QED
      BY <3>1
  <2>2. token # Unquoted("create")
    <3>1. parse.command # "none"
      BY <1>5 DEF Continued
    <3>2. Len(input) # 0
      BY <1>1, <3>1 DEF TreeInv
    <3>3. Len(input) + 1 > 1 /\ Len(input) + 1 \in DOMAIN input'
      BY <1>1, <1>2, <3>2
    <3>4. QED
      BY <1>1, <1>3, <3>3 DEF CreateNotFirst
  <2>3. <<parse.state, token.type, parse'.state>> \in Marked
    BY <1>5, <2>2, ContinuedCell
  <2>4. /\ parse.command = "create" => parse.state \in 1 .. 6
        /\ parse.command = "insert" => parse.state \in 7 .. 12
        /\ parse.command = "select" => parse.state \in 13 .. 24
        /\ parse.state \in (3 .. 6) \union (9 .. 12) \union (18 .. 24) => parse.tableName # <<>>
        /\ parse.state \in 14 .. 24 => parse.fields # <<>>
    <3>1. parse.state \in 0 .. 24 /\ parse.state # Rejected
      BY <1>5 DEF Continued, Rejected
    <3>2. QED
      BY <2>1, <3>1 DEF NamesInv
  <2>5. /\ parse'.command = parse.command /\ parse.command # "none"
        /\ parse'.tableName = IF parse'.state \in {3, 9, 18}
                              THEN Append(parse.tableName, token.text) ELSE parse.tableName
        /\ parse'.fields = IF parse'.state \in {5, 14, 16}
                           THEN Append(parse.fields, token.text) ELSE parse.fields
        /\ parse.tableName \in Seq(Texts) /\ parse.fields \in Seq(Texts)
        /\ token.text \in Texts
        /\ parse'.state \in 0 .. 24
    BY <1>5, TokenFacts DEF Continued, TreeStepped, Trees
  <2>6. /\ parse.tableName # <<>> => parse'.tableName # <<>>
        /\ parse'.state \in {3, 9, 18} => parse'.tableName # <<>>
        /\ parse.fields # <<>> => parse'.fields # <<>>
        /\ parse'.state \in {14, 16} => parse'.fields # <<>>
    BY <2>5
  <2>7. /\ parse'.command = "create" => parse'.state \in 1 .. 6
        /\ parse'.command = "insert" => parse'.state \in 7 .. 12
        /\ parse'.command = "select" => parse'.state \in 13 .. 24
    BY <2>3, <2>4, <2>5, CommandsApart
  <2>8. parse'.state \in (3 .. 6) \union (9 .. 12) \union (18 .. 24) => parse'.tableName # <<>>
    <3>1. parse'.state \in (4 .. 6) \union (10 .. 12) \union (19 .. 24) => parse.tableName # <<>>
      BY <2>3, <2>4, CommandsApart
    <3>2. QED
      BY <2>6, <3>1
  <2>9. parse'.state \in 14 .. 24 => parse'.fields # <<>>
    <3>1. parse'.state \in (17 .. 24) \union {15} => parse.fields # <<>>
      BY <2>3, <2>4, CommandsApart
    <3>2. QED
      BY <2>6, <3>1
  <2>10. QED
    BY <2>5, <2>7, <2>8, <2>9 DEF NamesInv
<1>6. parse' = RejectedTree => parse'.state = Rejected
  BY EmptyTreeFacts
<1>7. QED
  BY <1>1, <1>3, <1>4, <1>5, <1>6

-----------------------------------------------------------------------------
(* The shunting yard loses no relational operator *)

Yards == [out : Seq(Texts), stack : Seq(Texts), error : BOOLEAN]
EmptyYard == [out |-> <<>>, stack |-> <<>>, error |-> FALSE]

\* A relational operator is in the output or waits on the stack.
Holds(yard) == Answered(yard.out) \/ Answered(yard.stack)

LEMMA LargestExists ==
    ASSUME NEW n \in Nat, NEW S \in SUBSET (1 .. n), S # {}
    PROVE  \E i \in S : \A j \in S : j <= i
<1> DEFINE Bounds == {m \in Nat : \A T \in SUBSET (1 .. m) :
                                     T # {} => \E i \in T : \A j \in T : j <= i}
<1>1. 0 \in Bounds
  <2>1. 1 .. 0 = {}
    OBVIOUS
  <2>2. QED
    BY <2>1
<1>2. ASSUME NEW m \in Bounds PROVE m + 1 \in Bounds
  <2>1. m + 1 \in Nat
    OBVIOUS
  <2>2. ASSUME NEW T \in SUBSET (1 .. m + 1), T # {}
        PROVE  \E i \in T : \A j \in T : j <= i
    <3>1. CASE m + 1 \in T
      <4>1. \A j \in T : j <= m + 1
        OBVIOUS
      <4>2. QED
        BY <3>1, <4>1
    <3>2. CASE m + 1 \notin T
      <4>1. T \in SUBSET (1 .. m)
        BY <3>2
      <4>2. QED
        BY <2>2, <4>1
    <3>3. QED
      BY <3>1, <3>2
  <2>3. QED
    BY <2>1, <2>2
<1>3. Bounds = Nat
  <2> HIDE DEF Bounds
  <2>1. Bounds \in SUBSET Nat
    BY DEF Bounds
  <2>2. QED
    BY <1>1, <1>2, <2>1, SetInduction
<1>4. QED
  BY <1>3

LEMMA AboveLastFacts ==
    ASSUME NEW stack \in Seq(Texts), NEW stops \in SUBSET (1 .. Len(stack))
    PROVE  /\ AboveLast(stack, stops) \in 0 .. Len(stack)
           /\ AboveLast(stack, stops) # Len(stack) => Len(stack) - AboveLast(stack, stops) \in stops
<1>1. Len(stack) \in Nat
  OBVIOUS
<1>2. CASE stops = {}
  BY <1>1, <1>2 DEF AboveLast
<1>3. CASE stops # {}
  <2> DEFINE last == CHOOSE i \in stops : \A j \in stops : j <= i
  <2>1. \E i \in stops : \A j \in stops : j <= i
    BY <1>1, <1>3, LargestExists
  <2>2. last \in stops
    BY <2>1
  <2>3. AboveLast(stack, stops) = Len(stack) - last
    BY <1>3 DEF AboveLast
  <2> HIDE DEF last
  <2>4. last \in 1 .. Len(stack)
    BY <2>2
  <2>5. /\ Len(stack) - last \in 0 .. Len(stack)
        /\ Len(stack) - (Len(stack) - last) = last
    BY <1>1, <2>4
  <2>6. QED
    BY <2>2, <2>3, <2>5
<1>4. QED
  BY <1>2, <1>3

LEMMA DropTop ==
    ASSUME NEW stack \in Seq(Texts), NEW n \in 0 .. Len(stack)
    PROVE  /\ Drop(stack, n) \in Seq(Texts) /\ Len(Drop(stack, n)) = Len(stack) - n
           /\ \A i \in 1 .. Len(stack) - n : Drop(stack, n)[i] = stack[i]
           /\ Top(stack, n) \in Seq(Texts) /\ Len(Top(stack, n)) = n
           /\ \A i \in 1 .. n : Top(stack, n)[i] = stack[Len(stack) - i + 1]
<1>1. Len(stack) \in Nat /\ n \in Nat /\ n <= Len(stack)
  OBVIOUS
<1>2. /\ Drop(stack, n) \in Seq(Texts) /\ Len(Drop(stack, n)) = Len(stack) - n
      /\ \A i \in 1 .. Len(stack) - n : Drop(stack, n)[i] = stack[i]
  BY <1>1 DEF Drop
<1> DEFINE above == SubSeq(stack, Len(stack) - n + 1, Len(stack))
<1>3. /\ above \in Seq(Texts) /\ Len(above) = n
      /\ \A i \in 1 .. n : above[i] = stack[Len(stack) - n + i]
  BY <1>1
<1>4. Top(stack, n) = [i \in 1 .. Len(above) |-> above[(Len(above) - i) + 1]]
  BY DEF Top, Reverse
<1> HIDE DEF above
<1>5. ASSUME NEW i \in 1 .. n
      PROVE  /\ above[(n - i) + 1] \in Texts
             /\ above[(n - i) + 1] = stack[Len(stack) - i + 1]
  <2>1. (n - i) + 1 \in 1 .. n /\ Len(stack) - n + ((n - i) + 1) = Len(stack) - i + 1
    BY <1>1
  <2>2. QED
    BY <1>3, <2>1
<1>6. Top(stack, n) = [i \in 1 .. n |-> above[(n - i) + 1]]
  BY <1>3, <1>4
<1>7. /\ Top(stack, n) \in Seq(Texts) /\ Len(Top(stack, n)) = n
      /\ \A i \in 1 .. n : Top(stack, n)[i] = stack[Len(stack) - i + 1]
  BY <1>1, <1>5, <1>6
<1>8. QED
  BY <1>2, <1>7

LEMMA AnsweredAppend ==
    ASSUME NEW c \in Seq(Texts), NEW text \in Texts
    PROVE  /\ Append(c, text) \in Seq(Texts)
           /\ Answered(c) => Answered(Append(c, text))
           /\ text \in Relationals => Answered(Append(c, text))
<1>1. /\ Append(c, text) \in Seq(Texts)
      /\ DOMAIN c = 1 .. Len(c) /\ DOMAIN Append(c, text) = 1 .. Len(c) + 1
      /\ \A i \in 1 .. Len(c) : Append(c, text)[i] = c[i]
      /\ Append(c, text)[Len(c) + 1] = text
      /\ Len(c) \in Nat
  OBVIOUS
<1>2. ASSUME Answered(c) PROVE Answered(Append(c, text))
  <2>1. PICK i \in 1 .. Len(c) : c[i] \in Relationals
    BY <1>1, <1>2 DEF Answered
  <2>2. i \in 1 .. Len(c) + 1 /\ Append(c, text)[i] \in Relationals
    BY <1>1, <2>1
  <2>3. QED
    BY <1>1, <2>2 DEF Answered
<1>3. ASSUME text \in Relationals PROVE Answered(Append(c, text))
  <2>1. Len(c) + 1 \in 1 .. Len(c) + 1
    BY <1>1
  <2>2. QED
    BY <1>1, <1>3, <2>1 DEF Answered
<1>4. QED
  BY <1>1, <1>2, <1>3

LEMMA AnsweredConcat ==
    ASSUME NEW c \in Seq(Texts), NEW d \in Seq(Texts)
    PROVE  /\ c \o d \in Seq(Texts)
           /\ Answered(c) \/ Answered(d) => Answered(c \o d)
<1>1. /\ c \o d \in Seq(Texts) /\ Len(c) \in Nat /\ Len(d) \in Nat
      /\ DOMAIN c = 1 .. Len(c) /\ DOMAIN d = 1 .. Len(d)
      /\ DOMAIN (c \o d) = 1 .. Len(c) + Len(d)
      /\ \A i \in 1 .. Len(c) : (c \o d)[i] = c[i]
      /\ \A i \in 1 .. Len(d) : (c \o d)[Len(c) + i] = d[i]
  OBVIOUS
<1>2. ASSUME Answered(c) PROVE Answered(c \o d)
  <2>1. PICK i \in 1 .. Len(c) : c[i] \in Relationals
    BY <1>1, <1>2 DEF Answered
  <2>2. i \in 1 .. Len(c) + Len(d) /\ (c \o d)[i] \in Relationals
    BY <1>1, <2>1
  <2>3. QED
    BY <1>1, <2>2 DEF Answered
<1>3. ASSUME Answered(d) PROVE Answered(c \o d)
  <2>1. PICK i \in 1 .. Len(d) : d[i] \in Relationals
    BY <1>1, <1>3 DEF Answered
  <2>2. Len(c) + i \in 1 .. Len(c) + Len(d) /\ (c \o d)[Len(c) + i] \in Relationals
    BY <1>1, <2>1
  <2>3. QED
    BY <1>1, <2>2 DEF Answered
<1>4. QED
  BY <1>1, <1>2, <1>3

\* Popping the top of the stack to the output, and an operator under it that
\* is not relational, loses no relational operator.
LEMMA PopKeeps ==
    ASSUME NEW out \in Seq(Texts), NEW stack \in Seq(Texts),
           NEW n \in 0 .. Len(stack), NEW m \in 0 .. Len(stack),
           m = n \/ (m = n + 1 /\ stack[Len(stack) - n] \notin Relationals),
           Answered(out) \/ Answered(stack)
    PROVE  Answered(out \o Top(stack, n)) \/ Answered(Drop(stack, m))
<1>1. Top(stack, n) \in Seq(Texts) /\ Drop(stack, m) \in Seq(Texts)
  BY DropTop
<1>2. CASE Answered(out)
  BY <1>1, <1>2, AnsweredConcat
<1>3. CASE Answered(stack)
  <2>1. /\ Len(stack) \in Nat /\ DOMAIN stack = 1 .. Len(stack)
        /\ n \in Nat /\ m \in Nat
    OBVIOUS
  <2>2. PICK i \in 1 .. Len(stack) : stack[i] \in Relationals
    BY <1>3, <2>1 DEF Answered
  <2>3. CASE i <= Len(stack) - m
    <3>1. i \in 1 .. Len(stack) - m
      BY <2>1, <2>3
    <3>2. /\ Len(Drop(stack, m)) = Len(stack) - m
          /\ \A j \in 1 .. Len(stack) - m : Drop(stack, m)[j] = stack[j]
      BY DropTop
    <3>3. DOMAIN Drop(stack, m) = 1 .. Len(stack) - m
      BY <1>1, <3>2
    <3>4. QED
      BY <2>2, <3>1, <3>2, <3>3 DEF Answered
  <2>4. CASE i > Len(stack) - m
    <3> DEFINE j == Len(stack) - i + 1
    <3>1. m = n \/ (m = n + 1 /\ i # Len(stack) - n)
      BY <2>2
    <3>2. j \in 1 .. n
      <4>1. i > Len(stack) - n
        <5>1. CASE m = n
          BY <2>4, <5>1, SMTT(40)
        <5>2. CASE m = n + 1 /\ i # Len(stack) - n
          <6>1. i \in Nat /\ i > Len(stack) - (n + 1)
            BY <2>4, <5>2
          <6>2. \A a, b, c \in Nat : a > b - (c + 1) /\ a # b - c => a > b - c
            OBVIOUS
          <6>3. QED
            BY <2>1, <5>2, <6>1, <6>2, Zenon
        <5>3. QED
          BY <3>1, <5>1, <5>2
      <4>2. QED
        BY <2>1, <4>1
    <3>3. Len(stack) - j + 1 = i
      BY <2>1
    <3> HIDE DEF j
    <3>4. /\ Len(Top(stack, n)) = n
          /\ \A k \in 1 .. n : Top(stack, n)[k] = stack[Len(stack) - k + 1]
      BY DropTop
    <3>5. DOMAIN Top(stack, n) = 1 .. n /\ Top(stack, n)[j] = stack[i]
      BY <1>1, <3>2, <3>3, <3>4
    <3>6. Answered(Top(stack, n))
      BY <2>2, <3>2, <3>5 DEF Answered
    <3>7. QED
      BY <1>1, <3>6, AnsweredConcat
  <2>5. QED
    BY <2>1, <2>3, <2>4
<1>4. QED
  BY <1>2, <1>3

\* What one token does to the yard.
Shunted(yard, text) ==
    LET next == Shunt(yard, text)
    IN  /\ next \in Yards
        /\ yard.error => next.error
        /\ ~next.error /\ (Holds(yard) \/ text \in Relationals) => Holds(next)

LEMMA ShuntFacts ==
    ASSUME NEW yard \in Yards, NEW text \in Texts
    PROVE  Shunted(yard, text)
<1> DEFINE parens  == {i \in DOMAIN yard.stack : yard.stack[i] = "("}
<1> DEFINE looser  == {i \in DOMAIN yard.stack : Precedence(yard.stack[i]) < Precedence(text)}
<1> DEFINE binding == AboveLast(yard.stack, parens \union looser)
<1> DEFINE inside  == AboveLast(yard.stack, parens)
<1>1. /\ yard.out \in Seq(Texts) /\ yard.stack \in Seq(Texts) /\ yard.error \in BOOLEAN
      /\ Len(yard.stack) \in Nat
      /\ DOMAIN yard.stack = 1 .. Len(yard.stack)
  BY DEF Yards
<1>2. Shunt(yard, text) =
        IF yard.error THEN yard
        ELSE IF IsString(text) THEN [yard EXCEPT !.out = Append(@, text)]
        ELSE IF text \in Relationals \union {"("} THEN [yard EXCEPT !.stack = Append(@, text)]
        ELSE IF text \in Logicals
             THEN [yard EXCEPT !.out = @ \o Top(yard.stack, binding),
                               !.stack = Append(Drop(yard.stack, binding), text)]
        ELSE IF inside = Len(yard.stack) THEN [yard EXCEPT !.error = TRUE]
        ELSE [yard EXCEPT !.out = @ \o Top(yard.stack, inside),
                          !.stack = Drop(yard.stack, inside + 1)]
  BY DEF Shunt
<1>3. parens \in SUBSET (1 .. Len(yard.stack)) /\ parens \union looser \in SUBSET (1 .. Len(yard.stack))
  BY <1>1
<1>4. binding \in 0 .. Len(yard.stack)
  <2> HIDE DEF parens, looser
  <2>1. QED
    BY <1>1, <1>3, AboveLastFacts
<1>5. /\ inside \in 0 .. Len(yard.stack)
      /\ inside # Len(yard.stack) => yard.stack[Len(yard.stack) - inside] = "("
  <2>1. /\ inside \in 0 .. Len(yard.stack)
        /\ inside # Len(yard.stack) => Len(yard.stack) - inside \in parens
    <3> HIDE DEF parens
    <3>1. QED
      BY <1>1, <1>3, AboveLastFacts
  <2>2. QED
    BY <2>1
<1> HIDE DEF parens, looser, binding, inside
<1>6. CASE yard.error
  BY <1>2, <1>6 DEF Shunted
<1>7. CASE ~yard.error /\ IsString(text)
  <2>1. Shunt(yard, text) = [yard EXCEPT !.out = Append(@, text)]
    BY <1>2, <1>7
  <2>2. Append(yard.out, text) \in Seq(Texts) /\ (Answered(yard.out) => Answered(Append(yard.out, text)))
    BY <1>1, AnsweredAppend
  <2>3. text \notin Relationals
    BY <1>7 DEF IsString
  <2>4. /\ Shunt(yard, text) \in Yards
        /\ Shunt(yard, text).out = Append(yard.out, text)
        /\ Shunt(yard, text).stack = yard.stack
    BY <2>1, <2>2 DEF Yards
  <2>5. QED
    BY <1>7, <2>2, <2>3, <2>4 DEF Shunted, Holds
<1>8. CASE ~yard.error /\ ~IsString(text) /\ text \in Relationals \union {"("}
  <2>1. Shunt(yard, text) = [yard EXCEPT !.stack = Append(@, text)]
    BY <1>2, <1>8
  <2>2. /\ Append(yard.stack, text) \in Seq(Texts)
        /\ Answered(yard.stack) \/ text \in Relationals => Answered(Append(yard.stack, text))
    BY <1>1, AnsweredAppend
  <2>3. /\ Shunt(yard, text) \in Yards
        /\ Shunt(yard, text).out = yard.out
        /\ Shunt(yard, text).stack = Append(yard.stack, text)
    BY <2>1, <2>2 DEF Yards
  <2>4. QED
    BY <1>8, <2>2, <2>3 DEF Shunted, Holds
<1>9. CASE ~yard.error /\ ~IsString(text) /\ text \notin Relationals \union {"("} /\ text \in Logicals
  <2>1. Shunt(yard, text) = [yard EXCEPT !.out = @ \o Top(yard.stack, binding),
                                         !.stack = Append(Drop(yard.stack, binding), text)]
    BY <1>2, <1>9
  <2>2. Top(yard.stack, binding) \in Seq(Texts) /\ Drop(yard.stack, binding) \in Seq(Texts)
    BY <1>1, <1>4, DropTop
  <2>3. yard.out \o Top(yard.stack, binding) \in Seq(Texts)
    BY <1>1, <2>2, AnsweredConcat
  <2>4. /\ Append(Drop(yard.stack, binding), text) \in Seq(Texts)
        /\ Answered(Drop(yard.stack, binding)) => Answered(Append(Drop(yard.stack, binding), text))
    BY <2>2, AnsweredAppend
  <2>5. /\ Shunt(yard, text) \in Yards
        /\ Shunt(yard, text).out = yard.out \o Top(yard.stack, binding)
        /\ Shunt(yard, text).stack = Append(Drop(yard.stack, binding), text)
    BY <2>1, <2>3, <2>4 DEF Yards
  <2>6. Answered(yard.out) \/ Answered(yard.stack)
          => Answered(yard.out \o Top(yard.stack, binding)) \/ Answered(Drop(yard.stack, binding))
    <3> DEFINE m == binding
    <3>1. m \in 0 .. Len(yard.stack) /\ m = binding
      BY <1>4
    <3> HIDE DEF m
    <3>2. Answered(yard.out) \/ Answered(yard.stack)
            => Answered(yard.out \o Top(yard.stack, binding)) \/ Answered(Drop(yard.stack, m))
      BY <1>1, <1>4, <3>1, PopKeeps
    <3>3. QED
      BY <3>1, <3>2
  <2>7. text \notin Relationals
    BY <1>9
  <2>8. QED
    BY <1>9, <2>4, <2>5, <2>6, <2>7 DEF Shunted, Holds
<1>10. CASE /\ ~yard.error /\ ~IsString(text) /\ text \notin Relationals \union {"("}
            /\ text \notin Logicals /\ inside = Len(yard.stack)
  <2>1. Shunt(yard, text) = [yard EXCEPT !.error = TRUE]
    BY <1>2, <1>10
  <2>2. Shunt(yard, text) \in Yards /\ Shunt(yard, text).error = TRUE
    BY <2>1 DEF Yards
  <2>3. QED
    BY <2>2 DEF Shunted
<1>11. CASE /\ ~yard.error /\ ~IsString(text) /\ text \notin Relationals \union {"("}
            /\ text \notin Logicals /\ inside # Len(yard.stack)
  <2>1. Shunt(yard, text) = [yard EXCEPT !.out = @ \o Top(yard.stack, inside),
                                         !.stack = Drop(yard.stack, inside + 1)]
    BY <1>2, <1>11
  <2>2. inside + 1 \in 0 .. Len(yard.stack)
    BY <1>1, <1>5, <1>11
  <2>3. Top(yard.stack, inside) \in Seq(Texts) /\ Drop(yard.stack, inside + 1) \in Seq(Texts)
    BY <1>1, <1>5, <2>2, DropTop
  <2>4. yard.out \o Top(yard.stack, inside) \in Seq(Texts)
    BY <1>1, <2>3, AnsweredConcat
  <2>5. /\ Shunt(yard, text) \in Yards
        /\ Shunt(yard, text).out = yard.out \o Top(yard.stack, inside)
        /\ Shunt(yard, text).stack = Drop(yard.stack, inside + 1)
    BY <2>1, <2>3, <2>4 DEF Yards
  <2>6. "(" \notin Relationals
    BY DEF Relationals
  <2>7. Answered(yard.out) \/ Answered(yard.stack)
          => Answered(yard.out \o Top(yard.stack, inside)) \/ Answered(Drop(yard.stack, inside + 1))
    <3>1. yard.stack[Len(yard.stack) - inside] \notin Relationals
      BY <1>5, <1>11, <2>6
    <3> DEFINE m == inside + 1
    <3>2. m \in 0 .. Len(yard.stack) /\ m = inside + 1
      BY <2>2
    <3> HIDE DEF m
    <3>3. Answered(yard.out) \/ Answered(yard.stack)
            => Answered(yard.out \o Top(yard.stack, inside)) \/ Answered(Drop(yard.stack, m))
      BY <1>1, <1>5, <3>1, <3>2, PopKeeps
    <3>4. QED
      BY <3>2, <3>3
  <2>8. text \notin Relationals
    BY <1>11
  <2>9. QED
    BY <1>11, <2>5, <2>7, <2>8 DEF Shunted, Holds
<1>12. QED
  BY <1>1, <1>6, <1>7, <1>8, <1>9, <1>10, <1>11

\* The yard after each token.
YardsOf(q, infix) == q = [k \in 0 .. Len(infix) |-> IF k = 0 THEN EmptyYard
                                                     ELSE Shunt(q[k - 1], infix[k])]

LEMMA YardsExist ==
    ASSUME NEW infix \in Seq(Texts)
    PROVE  \E q : YardsOf(q, infix)
<1> DEFINE n == Len(infix)
<1> DEFINE step == [k \in Nat |-> [v \in Yards |-> IF k \in 1 .. n THEN Shunt(v, infix[k]) ELSE v]]
<1>1. n \in Nat /\ \A k \in 1 .. n : infix[k] \in Texts
  OBVIOUS
<1>2. EmptyYard \in Yards
  BY DEF EmptyYard, Yards
<1>3. \A k \in 1 .. n : \A v \in Yards : Shunt(v, infix[k]) \in Yards
  BY <1>1, ShuntFacts DEF Shunted
<1>4. step \in [Nat -> [Yards -> Yards]]
  BY <1>3
<1>5. PICK g \in [0 .. n -> Yards] : Recurs(g, 0, n, EmptyYard, step)
  <2> HIDE DEF n, step
  <2>1. QED
    BY <1>1, <1>2, <1>4, RecursionExists
<1>6. ASSUME NEW k \in 0 .. n
      PROVE  g[k] = IF k = 0 THEN EmptyYard ELSE Shunt(g[k - 1], infix[k])
  <2>1. CASE k = 0
    BY <1>1, <1>5, <2>1 DEF Recurs
  <2>2. CASE k # 0
    <3>1. k \in 1 .. n /\ k \in Nat /\ k - 1 \in 0 .. n
      BY <1>1, <2>2
    <3>2. g[k] = step[k][g[k - 1]] /\ g[k - 1] \in Yards
      BY <1>5, <2>2, <3>1 DEF Recurs
    <3>3. QED
      BY <2>2, <3>1, <3>2
  <2>3. QED
    BY <2>1, <2>2
<1>7. g = [k \in 0 .. n |-> IF k = 0 THEN EmptyYard ELSE Shunt(g[k - 1], infix[k])]
  BY <1>5, <1>6
<1>8. QED
  BY <1>7 DEF YardsOf

\* Of the tokens read so far every relational operator is in the yard.
LEMMA YardsKeep ==
    ASSUME NEW infix \in Seq(Texts), NEW q, YardsOf(q, infix), NEW n \in 0 .. Len(infix)
    PROVE  /\ q[n] \in Yards
           /\ q[n].error \/ \A i \in 1 .. n : infix[i] \in Relationals => Holds(q[n])
<1> DEFINE Good(k) == /\ q[k] \in Yards
                      /\ q[k].error \/ \A i \in 1 .. k : infix[i] \in Relationals => Holds(q[k])
<1> DEFINE S == {k \in Nat : k <= Len(infix) => Good(k)}
<1>1. Len(infix) \in Nat /\ \A k \in 1 .. Len(infix) : infix[k] \in Texts
  OBVIOUS
<1>2. /\ q[0] = EmptyYard
      /\ \A k \in 1 .. Len(infix) : q[k] = Shunt(q[k - 1], infix[k])
  <2>1. \A k \in 0 .. Len(infix) : q[k] = IF k = 0 THEN EmptyYard ELSE Shunt(q[k - 1], infix[k])
    BY DEF YardsOf
  <2>2. QED
    BY <1>1, <2>1
<1>3. 0 \in S
  <2>1. EmptyYard \in Yards /\ 1 .. 0 = {}
    BY DEF EmptyYard, Yards
  <2>2. QED
    BY <1>2, <2>1
<1>4. ASSUME NEW k \in S PROVE k + 1 \in S
  <2>1. CASE k + 1 <= Len(infix)
    <3> DEFINE text == infix[k + 1]
    <3>1. k \in Nat /\ k + 1 \in 1 .. Len(infix) /\ (k + 1) - 1 = k /\ Good(k)
      BY <1>1, <2>1
    <3>2. q[k + 1] = Shunt(q[k], text) /\ text \in Texts
      BY <1>1, <1>2, <3>1
    <3>3. Shunted(q[k], text)
      BY <3>1, <3>2, ShuntFacts
    <3>4. /\ q[k + 1] \in Yards
          /\ q[k].error => q[k + 1].error
          /\ ~q[k + 1].error /\ (Holds(q[k]) \/ text \in Relationals) => Holds(q[k + 1])
      BY <3>2, <3>3 DEF Shunted
    <3>5. ASSUME ~q[k + 1].error, NEW i \in 1 .. k + 1, infix[i] \in Relationals
          PROVE  Holds(q[k + 1])
      <4>1. CASE i = k + 1
        BY <3>4, <3>5, <4>1
      <4>2. CASE i # k + 1
        <5>1. i \in 1 .. k
          BY <3>1, <4>2
        <5>2. Holds(q[k])
          BY <3>1, <3>4, <3>5, <5>1
        <5>3. QED
          BY <3>4, <3>5, <5>2
      <4>3. QED
        BY <4>1, <4>2
    <3>6. Good(k + 1)
      BY <3>4, <3>5
    <3>7. QED
      BY <3>1, <3>6
  <2>2. QED
    BY <2>1
<1>5. S = Nat
  <2> HIDE DEF S
  <2>1. S \in SUBSET Nat
    BY DEF S
  <2>2. QED
    BY <1>3, <1>4, <2>1, SetInduction, SMTT(40)
<1>6. n \in S /\ n <= Len(infix)
  BY <1>1, <1>5
<1>7. QED
  BY <1>6

\* A condition with a relational operator has a postfix that is not empty.
LEMMA PostfixFacts ==
    ASSUME NEW infix \in Seq(Texts)
    PROVE  /\ ShuntingYard(infix).postfix \in Seq(Texts)
           /\ Answered(infix) => ShuntingYard(infix).error \/ ShuntingYard(infix).postfix # <<>>
<1> DEFINE P(yard) == yard = [k \in 0 .. Len(infix) |->
                                IF k = 0 THEN [out |-> <<>>, stack |-> <<>>, error |-> FALSE]
                                ELSE Shunt(yard[k - 1], infix[k])]
<1> DEFINE q == CHOOSE yard : P(yard)
<1> DEFINE end == q[Len(infix)]
<1>0. ShuntingYard(infix).postfix = end.out \o Reverse(end.stack)
  BY DEF ShuntingYard
<1>1. ShuntingYard(infix).error <=> end.error \/ "(" \in ToSet(end.stack)
  BY DEF ShuntingYard
<1>2. P(q)
  <2>1. \E g : P(g)
    BY YardsExist DEF YardsOf, EmptyYard
  <2>2. QED
    BY <2>1
<1>3. YardsOf(q, infix)
  BY <1>2 DEF YardsOf, EmptyYard
<1> HIDE DEF q
<1>4. Len(infix) \in 0 .. Len(infix)
  OBVIOUS
<1>5. /\ end \in Yards
      /\ end.error \/ \A i \in 1 .. Len(infix) : infix[i] \in Relationals => Holds(end)
  <2> DEFINE n == Len(infix)
  <2> HIDE DEF n
  <2>1. n \in 0 .. Len(infix)
    BY <1>4 DEF n
  <2>2. /\ q[n] \in Yards
        /\ q[n].error \/ \A i \in 1 .. n : infix[i] \in Relationals => Holds(q[n])
    BY <1>3, <2>1, YardsKeep
  <2>3. QED
    BY <2>2 DEF n
<1> HIDE DEF end
<1>6. /\ end.out \in Seq(Texts) /\ end.stack \in Seq(Texts)
  BY <1>5 DEF Yards
<1>7. /\ Reverse(end.stack) \in Seq(Texts)
      /\ Len(Reverse(end.stack)) = Len(end.stack)
  BY <1>6 DEF Reverse
<1>8. end.out \o Reverse(end.stack) \in Seq(Texts)
  BY <1>6, <1>7
<1>9. ASSUME Answered(infix), ~end.error PROVE end.out \o Reverse(end.stack) # <<>>
  <2>1. Holds(end)
    <3>1. PICK i \in 1 .. Len(infix) : infix[i] \in Relationals
      BY <1>9 DEF Answered
    <3>2. QED
      BY <1>5, <1>9, <3>1
  <2>2. Len(end.out) # 0 \/ Len(end.stack) # 0
    BY <1>6, <2>1 DEF Holds, Answered
  <2> DEFINE a == end.out
  <2> DEFINE b == Reverse(end.stack)
  <2>3. /\ a \in Seq(Texts) /\ b \in Seq(Texts) /\ Len(a) \in Nat /\ Len(b) \in Nat
        /\ Len(a) # 0 \/ Len(b) # 0
    BY <1>6, <1>7, <2>2
  <2> HIDE DEF a, b
  <2>4. Len(a \o b) = Len(a) + Len(b)
    BY <2>3
  <2>5. Len(a \o b) # 0
    BY <2>3, <2>4
  <2>6. a \o b # <<>>
    BY <2>5
  <2>7. QED
    BY <2>6 DEF a, b
<1>10. QED
  BY <1>0, <1>1, <1>8, <1>9, Zenon

-----------------------------------------------------------------------------
(* Table::Eval selects records of the table *)

EvalStacks == [strings : Seq(Texts), sets : Seq(SUBSET Records), error : BOOLEAN]
EmptyStacks == [strings |-> <<>>, sets |-> <<>>, error |-> FALSE]

LEMMA EvalTokenType ==
    ASSUME NEW stacks \in EvalStacks, NEW text \in Texts
    PROVE  EvalToken(stacks, text) \in EvalStacks
<1> DEFINE strings == stacks.strings
<1> DEFINE sets    == stacks.sets
<1> DEFINE value   == Last(strings)
<1> DEFINE field   == strings[Len(strings) - 1]
<1> DEFINE joined  == IF text = "and" THEN Last(sets) \cap sets[Len(sets) - 1]
                      ELSE Last(sets) \union sets[Len(sets) - 1]
<1>1. /\ strings \in Seq(Texts) /\ sets \in Seq(SUBSET Records)
      /\ stacks.error \in BOOLEAN
  BY DEF EvalStacks
<1>2. EvalToken(stacks, text) =
        IF stacks.error THEN stacks
        ELSE IF IsString(text) THEN [stacks EXCEPT !.strings = Append(@, text)]
        ELSE IF text \in Relationals
             THEN IF Len(strings) < 2 \/ field \notin TableFields
                  THEN [stacks EXCEPT !.error = TRUE]
                  ELSE [stacks EXCEPT !.strings = Drop(@, 2),
                                      !.sets = Append(@, SelectHelp(field, text, value))]
        ELSE IF Len(sets) < 2 THEN [stacks EXCEPT !.error = TRUE]
        ELSE [stacks EXCEPT !.sets = Append(Drop(@, 2), joined)]
  BY DEF EvalToken
<1>3. [stacks EXCEPT !.error = TRUE] \in EvalStacks
  BY DEF EvalStacks
<1>4. [stacks EXCEPT !.strings = Append(@, text)] \in EvalStacks
  <2>1. Append(stacks.strings, text) \in Seq(Texts)
    BY <1>1
  <2>2. QED
    BY <2>1 DEF EvalStacks
<1>5. ASSUME ~(Len(strings) < 2)
      PROVE  [stacks EXCEPT !.strings = Drop(@, 2),
                            !.sets = Append(@, SelectHelp(field, text, value))] \in EvalStacks
  <2>1. Drop(stacks.strings, 2) \in Seq(Texts)
    BY <1>1, <1>5 DEF Drop
  <2> DEFINE selected == SelectHelp(field, text, value)
  <2>2. selected \in SUBSET Records
    BY DEF SelectHelp
  <2> HIDE DEF selected
  <2>3. Append(stacks.sets, selected) \in Seq(SUBSET Records)
    BY <1>1, <2>2
  <2>4. QED
    BY <2>1, <2>3 DEF EvalStacks, selected
<1>6. ASSUME ~(Len(sets) < 2)
      PROVE  [stacks EXCEPT !.sets = Append(Drop(@, 2), joined)] \in EvalStacks
  <2>1. Len(sets) \in 1 .. Len(sets) /\ Len(sets) - 1 \in 1 .. Len(sets)
    BY <1>1, <1>6
  <2>2. Last(sets) \in SUBSET Records /\ sets[Len(sets) - 1] \in SUBSET Records
    BY <1>1, <2>1 DEF Last
  <2>3. joined \in SUBSET Records
    BY <2>2
  <2>4. Drop(stacks.sets, 2) \in Seq(SUBSET Records)
    BY <1>1, <1>6 DEF Drop
  <2> HIDE DEF joined
  <2>5. Append(Drop(stacks.sets, 2), joined) \in Seq(SUBSET Records)
    BY <2>3, <2>4
  <2>6. QED
    BY <2>5 DEF EvalStacks
<1> HIDE DEF strings, sets, value, field, joined
<1>7. QED
  BY <1>2, <1>3, <1>4, <1>5, <1>6

\* The stacks after each token.
StacksOf(q, postfix) == q = [k \in 0 .. Len(postfix) |-> IF k = 0 THEN EmptyStacks
                                                          ELSE EvalToken(q[k - 1], postfix[k])]

LEMMA StacksExist ==
    ASSUME NEW postfix \in Seq(Texts)
    PROVE  \E q : StacksOf(q, postfix)
<1> DEFINE n == Len(postfix)
<1> DEFINE step == [k \in Nat |-> [v \in EvalStacks |->
                                     IF k \in 1 .. n THEN EvalToken(v, postfix[k]) ELSE v]]
<1>1. n \in Nat /\ \A k \in 1 .. n : postfix[k] \in Texts
  OBVIOUS
<1>2. EmptyStacks \in EvalStacks
  BY DEF EmptyStacks, EvalStacks
<1>3. \A k \in 1 .. n : \A v \in EvalStacks : EvalToken(v, postfix[k]) \in EvalStacks
  BY <1>1, EvalTokenType
<1>4. step \in [Nat -> [EvalStacks -> EvalStacks]]
  BY <1>3
<1>5. PICK g \in [0 .. n -> EvalStacks] : Recurs(g, 0, n, EmptyStacks, step)
  <2> HIDE DEF n, step
  <2>1. QED
    BY <1>1, <1>2, <1>4, RecursionExists
<1>6. ASSUME NEW k \in 0 .. n
      PROVE  g[k] = IF k = 0 THEN EmptyStacks ELSE EvalToken(g[k - 1], postfix[k])
  <2>1. CASE k = 0
    BY <1>1, <1>5, <2>1 DEF Recurs
  <2>2. CASE k # 0
    <3>1. k \in 1 .. n /\ k \in Nat /\ k - 1 \in 0 .. n
      BY <1>1, <2>2
    <3>2. g[k] = step[k][g[k - 1]] /\ g[k - 1] \in EvalStacks
      BY <1>5, <2>2, <3>1 DEF Recurs
    <3>3. QED
      BY <2>2, <3>1, <3>2
  <2>3. QED
    BY <2>1, <2>2
<1>7. g = [k \in 0 .. n |-> IF k = 0 THEN EmptyStacks ELSE EvalToken(g[k - 1], postfix[k])]
  BY <1>5, <1>6
<1>8. QED
  BY <1>7 DEF StacksOf

LEMMA StacksType ==
    ASSUME NEW postfix \in Seq(Texts), NEW q, StacksOf(q, postfix), NEW n \in 0 .. Len(postfix)
    PROVE  q[n] \in EvalStacks
<1> DEFINE S == {k \in Nat : k <= Len(postfix) => q[k] \in EvalStacks}
<1>1. Len(postfix) \in Nat /\ \A k \in 1 .. Len(postfix) : postfix[k] \in Texts
  OBVIOUS
<1>2. /\ q[0] = EmptyStacks
      /\ \A k \in 1 .. Len(postfix) : q[k] = EvalToken(q[k - 1], postfix[k])
  <2>1. \A k \in 0 .. Len(postfix) : q[k] = IF k = 0 THEN EmptyStacks
                                            ELSE EvalToken(q[k - 1], postfix[k])
    BY DEF StacksOf
  <2>2. QED
    BY <1>1, <2>1
<1>3. 0 \in S
  <2>1. EmptyStacks \in EvalStacks
    BY DEF EmptyStacks, EvalStacks
  <2>2. QED
    BY <1>2, <2>1
<1>4. ASSUME NEW k \in S PROVE k + 1 \in S
  <2>1. CASE k + 1 <= Len(postfix)
    <3>1. k \in Nat /\ k + 1 \in 1 .. Len(postfix) /\ (k + 1) - 1 = k /\ q[k] \in EvalStacks
      BY <1>1, <2>1
    <3>2. q[k + 1] = EvalToken(q[k], postfix[k + 1]) /\ postfix[k + 1] \in Texts
      BY <1>1, <1>2, <3>1
    <3>3. q[k + 1] \in EvalStacks
      BY <3>1, <3>2, EvalTokenType
    <3>4. QED
      BY <3>1, <3>3
  <2>2. QED
    BY <2>1
<1>5. S = Nat
  <2> HIDE DEF S
  <2>1. S \in SUBSET Nat
    BY DEF S
  <2>2. QED
    BY <1>3, <1>4, <2>1, SetInduction
<1>6. n \in S /\ n <= Len(postfix)
  BY <1>1, <1>5
<1>7. QED
  BY <1>6

LEMMA EvalType ==
    ASSUME NEW postfix \in Seq(Texts)
    PROVE  Eval(postfix).records \subseteq Records
<1> DEFINE P(stacks) == stacks = [k \in 0 .. Len(postfix) |->
                                    IF k = 0 THEN [strings |-> <<>>, sets |-> <<>>, error |-> FALSE]
                                    ELSE EvalToken(stacks[k - 1], postfix[k])]
<1> DEFINE q == CHOOSE stacks : P(stacks)
<1> DEFINE end == q[Len(postfix)]
<1>1. Eval(postfix).records = UNION ToSet(end.sets)
  BY DEF Eval
<1>2. P(q)
  <2>1. \E g : P(g)
    BY StacksExist DEF StacksOf, EmptyStacks
  <2>2. QED
    BY <2>1
<1>3. StacksOf(q, postfix)
  BY <1>2 DEF StacksOf, EmptyStacks
<1> HIDE DEF q
<1>4. end \in EvalStacks
  <2> DEFINE n == Len(postfix)
  <2>1. n \in 0 .. Len(postfix)
    OBVIOUS
  <2> HIDE DEF n
  <2>2. q[n] \in EvalStacks
    BY <1>3, <2>1, StacksType
  <2>3. QED
    BY <2>2 DEF n
<1> HIDE DEF end
<1>5. end.sets \in Seq(SUBSET Records)
  BY <1>4 DEF EvalStacks
<1>6. ToSet(end.sets) \subseteq SUBSET Records
  BY <1>5 DEF ToSet
<1>7. QED
  BY <1>1, <1>6

-----------------------------------------------------------------------------
(* What the end of the line answers *)

LEMMA Kinds ==
    /\ Pending.kind = "none" /\ Pending.records = {}
    /\ Error.kind = "error" /\ Error.records = {}
    /\ Crash.kind = "crash" /\ Crash.records = {}
    /\ \A k, r, f : Outcome(k, r, f).kind = k /\ Outcome(k, r, f).records = r
    /\ \A k, r : Outcome(k, r, TRUE).filtered
BY DEF Pending, Error, Crash, Outcome

LEMMA SelectWhereFacts ==
    ASSUME NEW condition \in Seq(Texts)
    PROVE  LET answer == SelectWhere(condition)
           IN  /\ answer.records \subseteq Records
               /\ answer.kind # "crash"
               /\ answer.kind = "select" /\ Answered(condition) => answer.filtered
<1> DEFINE yard == ShuntingYard(condition)
<1> DEFINE done == Eval(yard.postfix)
<1>1. SelectWhere(condition) = IF yard.error THEN Error
                               ELSE IF yard.postfix = <<>> THEN Outcome("select", Records, FALSE)
                               ELSE IF done.error THEN Error
                               ELSE Outcome("select", done.records, TRUE)
  BY DEF SelectWhere
<1>2. yard.postfix \in Seq(Texts) /\ (Answered(condition) => yard.error \/ yard.postfix # <<>>)
  BY PostfixFacts
<1>3. done.records \subseteq Records
  BY <1>2, EvalType
<1> HIDE DEF yard, done
<1>4. CASE yard.error \/ (yard.postfix # <<>> /\ done.error)
  BY <1>1, <1>4, Kinds
<1>5. CASE ~yard.error /\ yard.postfix = <<>>
  <2>1. SelectWhere(condition) = Outcome("select", Records, FALSE)
    BY <1>1, <1>5
  <2>2. SelectWhere(condition).kind = "select" /\ SelectWhere(condition).records = Records
    BY <2>1 DEF Outcome
  <2>3. QED
    BY <1>2, <1>5, <2>2
<1>6. CASE ~yard.error /\ yard.postfix # <<>> /\ ~done.error
  <2>1. SelectWhere(condition) = Outcome("select", done.records, TRUE)
    BY <1>1, <1>6
  <2>2. /\ SelectWhere(condition).kind = "select"
        /\ SelectWhere(condition).records = done.records
        /\ SelectWhere(condition).filtered
    BY <2>1 DEF Outcome
  <2>3. QED
    BY <1>3, <2>2
<1>7. QED
  BY <1>4, <1>5, <1>6

LEMMA SelectFacts ==
    ASSUME NEW tree \in Trees
    PROVE  LET answer == Select(tree)
           IN  /\ answer.records \subseteq Records
               /\ answer.kind = "crash" => tree.fields = <<>>
               /\ answer.kind = "select" /\ tree.where /\ Answered(tree.condition) => answer.filtered
<1>1. \/ Select(tree) = Error
      \/ Select(tree) = Crash /\ tree.fields = <<>>
      \/ Select(tree) = SelectWhere(tree.condition)
      \/ Select(tree) = Outcome("select", Records, FALSE) /\ ~tree.where
  BY DEF Select
<1>2. CASE Select(tree) = Error
  BY <1>2, Kinds
<1>3. CASE Select(tree) = Crash /\ tree.fields = <<>>
  BY <1>3, Kinds
<1>4. CASE Select(tree) = SelectWhere(tree.condition)
  <2>1. tree.condition \in Seq(Texts)
    BY DEF Trees
  <2>2. QED
    BY <1>4, <2>1, SelectWhereFacts
<1>5. CASE Select(tree) = Outcome("select", Records, FALSE) /\ ~tree.where
  <2>1. Select(tree).kind = "select" /\ Select(tree).records = Records
    BY <1>5 DEF Outcome
  <2>2. QED
    BY <1>5, <2>1
<1>6. QED
  BY <1>1, <1>2, <1>3, <1>4, <1>5

LEMMA ExecuteFacts ==
    ASSUME NEW tree \in Trees
    PROVE  LET answer == Execute(tree)
           IN  /\ answer.records \subseteq Records
               /\ answer.kind = "crash" => /\ tree.command # "none" /\ IsSuccess(tree.state)
                                           /\ \/ tree.tableName = <<>>
                                              \/ tree.command = "select" /\ tree.fields = <<>>
               /\ answer.kind = "select" =>
                     /\ tree.command = "select" /\ IsSuccess(tree.state)
                     /\ tree.where /\ Answered(tree.condition) => answer.filtered
<1>1. \/ Execute(tree) = Error
      \/ /\ Execute(tree) = Crash /\ tree.tableName = <<>>
         /\ tree.command # "none" /\ IsSuccess(tree.state)
      \/ /\ Execute(tree) = Select(tree) /\ tree.command = "select"
         /\ tree.command # "none" /\ IsSuccess(tree.state)
      \/ Execute(tree) = Outcome("create", {}, FALSE)
      \/ Execute(tree) = Outcome("insert", {}, FALSE)
  BY DEF Execute
<1>2. CASE Execute(tree) = Error
  BY <1>2, Kinds
<1>3. CASE /\ Execute(tree) = Crash /\ tree.tableName = <<>>
           /\ tree.command # "none" /\ IsSuccess(tree.state)
  BY <1>3, Kinds
<1>4. CASE /\ Execute(tree) = Select(tree) /\ tree.command = "select"
           /\ tree.command # "none" /\ IsSuccess(tree.state)
  BY <1>4, SelectFacts
<1>5. CASE Execute(tree) = Outcome("create", {}, FALSE) \/ Execute(tree) = Outcome("insert", {}, FALSE)
  <2>1. Execute(tree).kind \in {"create", "insert"} /\ Execute(tree).records = {}
    BY <1>5 DEF Outcome
  <2>2. QED
    BY <2>1
<1>6. QED
  BY <1>1, <1>2, <1>3, <1>4, <1>5

LEMMA EndKeepsOutcome ==
    ASSUME TreeInv, ClauseInv, WhereInv, NamesInv, EndOfLine
    PROVE  OutcomeInv'
<1>1. parse \in Trees /\ outcome' = Execute(parse) /\ input' = input /\ parse' = parse
  BY DEF TreeInv, EndOfLine
<1>2. IsSuccess(parse.state) /\ parse.command # "none"
        => parse.state \in {0} \union SuccessStates /\ parse.state # Rejected
  <2>1. parse.state = Rejected => parse.command = "none"
    BY DEF TreeInv, RejectedTree, EmptyTree
  <2>2. parse.state \in {Rejected} \union 0 .. 24
    BY <1>1 DEF Trees
  <2>3. QED
    BY <2>1, <2>2, SuccessFacts
<1>3. outcome'.records \subseteq Records
  BY <1>1, ExecuteFacts
<1>4. NeverUnfiltered' \/ CreateFollowsWhere'
  <2>1. SUFFICES ASSUME outcome'.kind = "select", Unquoted("where") \in ToSet(input),
                        ~CreateFollowsWhere
                 PROVE  outcome'.filtered
    BY <1>1 DEF NeverUnfiltered, CreateFollowsWhere
  <2>2. /\ parse.command = "select" /\ IsSuccess(parse.state)
        /\ parse.where /\ Answered(parse.condition) => outcome'.filtered
    BY <1>1, <2>1, ExecuteFacts
  <2>3. parse.state # Rejected /\ parse.state \in {0} \union SuccessStates
    BY <1>2, <2>2
  <2>4. parse.state \in 19 .. 24
    BY <2>1, <2>3 DEF WhereInv
  <2>5. parse.state \in {23, 24}
    BY <2>3, <2>4 DEF SuccessStates
  <2>6. parse.where /\ Answered(parse.condition)
    BY <2>4, <2>5 DEF ClauseInv
  <2>7. QED
    BY <2>2, <2>6
<1>5. outcome'.kind = "crash" => CreateNotFirst'
  <2>1. SUFFICES ASSUME outcome'.kind = "crash", ~CreateNotFirst
                 PROVE  FALSE
    BY <1>1 DEF CreateNotFirst
  <2>2. /\ parse.command # "none" /\ IsSuccess(parse.state)
        /\ \/ parse.tableName = <<>>
           \/ parse.command = "select" /\ parse.fields = <<>>
    BY <1>1, <2>1, ExecuteFacts
  <2>3. parse.state # Rejected /\ parse.state \in {0} \union SuccessStates
    BY <1>2, <2>2
  <2>4. parse.command \in {"create", "insert", "select"}
    BY <1>1, <2>2 DEF Trees
  <2>5. /\ parse.command = "create" => parse.state \in 1 .. 6
        /\ parse.command = "insert" => parse.state \in 7 .. 12
        /\ parse.command = "select" => parse.state \in 13 .. 24
        /\ parse.state \in (3 .. 6) \union (9 .. 12) \union (18 .. 24) => parse.tableName # <<>>
        /\ parse.state \in 14 .. 24 => parse.fields # <<>>
    BY <2>1, <2>3 DEF NamesInv
  <2>6. parse.state \in SuccessStates
    <3>1. parse.state \in 1 .. 24
      <4>1. CASE parse.command = "create"
        BY <2>5, <4>1
      <4>2. CASE parse.command = "insert"
        BY <2>5, <4>2
      <4>3. CASE parse.command = "select"
        BY <2>5, <4>3
      <4>4. QED
        BY <2>4, <4>1, <4>2, <4>3
    <3>2. QED
      BY <2>3, <3>1
  <2>7. parse.tableName # <<>>
    BY <2>5, <2>6 DEF SuccessStates
  <2>8. parse.command = "select" => parse.fields # <<>>
    BY <2>5, <2>6 DEF SuccessStates
  <2>9. QED
    BY <2>2, <2>7, <2>8
<1>6. QED
  BY <1>3, <1>4, <1>5 DEF OutcomeInv

-----------------------------------------------------------------------------
(* Every step keeps the invariant *)

LEMMA InitInv == Init => IInv
<1> SUFFICES ASSUME Init PROVE IInv
  OBVIOUS
<1>1. input = <<>> /\ parse = EmptyTree /\ outcome = Pending
  BY DEF Init
<1>2. /\ EmptyTree.state = 0 /\ EmptyTree.command = "none" /\ EmptyTree.condition = <<>>
  BY DEF EmptyTree
<1>3. TreeInv
  BY <1>1, <1>2, EmptyTreeFacts, NotRejected, BoundsAssumption DEF TreeInv
<1>4. ClauseInv /\ NamesInv
  BY <1>1, <1>2 DEF ClauseInv, NamesInv
<1>5. WhereInv
  BY <1>1 DEF WhereInv, ToSet
<1>6. OutcomeInv
  BY <1>1, Kinds DEF OutcomeInv, NeverUnfiltered
<1>7. QED
  BY <1>3, <1>4, <1>5, <1>6 DEF IInv

LEMMA ReadInv ==
    ASSUME IInv, NEW token \in NextTokens, Read(token)
    PROVE  IInv'
<1>1. token \in AllTokens
  <2>1. CASE Len(input) < Len(Prefix)
    <3>1. token = Prefix[Len(input) + 1]
      BY <2>1 DEF NextTokens
    <3>2. Len(input) + 1 \in DOMAIN Prefix
      <4>1. Len(input) \in Nat
        BY DEF IInv, TreeInv
      <4>2. DOMAIN Prefix = 1 .. Len(Prefix) /\ Len(Prefix) \in Nat
        <5>1. CASE Filtering
          BY <5>1 DEF Prefix
        <5>2. CASE ~Filtering
          BY <5>2 DEF Prefix
        <5>3. QED
          BY <5>1, <5>2
      <4>3. QED
        BY <2>1, <4>1, <4>2
    <3>3. QED
      BY <3>1, <3>2 DEF AllTokens, ToSet
  <2>2. CASE ~(Len(input) < Len(Prefix))
    BY <2>2 DEF NextTokens, AllTokens
  <2>3. QED
    BY <2>1, <2>2
<1>2. TreeInv' /\ ClauseInv' /\ WhereInv' /\ NamesInv'
  BY <1>1, ReadKeepsTree, ReadKeepsClause, ReadKeepsWhere, ReadKeepsNames DEF IInv
<1>3. OutcomeInv'
  <2>1. outcome' = Pending
    BY DEF Read
  <2>2. QED
    BY <2>1, Kinds DEF OutcomeInv, NeverUnfiltered
<1>4. QED
  BY <1>2, <1>3 DEF IInv

LEMMA EndOfLineInv ==
    ASSUME IInv, EndOfLine
    PROVE  IInv'
<1>1. input' = input /\ parse' = parse
  BY DEF EndOfLine
<1>2. TreeInv' /\ ClauseInv' /\ WhereInv' /\ NamesInv'
  BY <1>1 DEF IInv, TreeInv, ClauseInv, WhereInv, NamesInv, CreateFollowsWhere, CreateNotFirst
<1>3. OutcomeInv'
  BY EndKeepsOutcome DEF IInv
<1>4. QED
  BY <1>2, <1>3 DEF IInv

-----------------------------------------------------------------------------
(* The theorems *)

\* Parser::parse_tree and SQL::command keep the inductive invariant.
THEOREM Invariance == Spec => []IInv
<1>1. IInv /\ [Next]_vars => IInv'
  <2> SUFFICES ASSUME IInv, [Next]_vars PROVE IInv'
    OBVIOUS
  <2>1. CASE Next
    <3>1. CASE EndOfLine
      BY <3>1, EndOfLineInv
    <3>2. CASE \E token \in NextTokens : Read(token)
      BY <3>2, ReadInv
    <3>3. QED
      BY <2>1, <3>1, <3>2 DEF Next
  <2>2. CASE UNCHANGED vars
    BY <2>2 DEF vars, IInv, TreeInv, ClauseInv, WhereInv, NamesInv, OutcomeInv,
                NeverUnfiltered, CreateFollowsWhere, CreateNotFirst
  <2>3. QED
    BY <2>1, <2>2
<1>2. QED
  BY <1>1, InitInv, PTL DEF Spec

\* The recogniser stays in its table, a rejected line leaves no parse tree, and
\* Table::Eval selects records of the table.
THEOREM TypeCorrect == Spec => []TypeOK
<1>1. IInv => TypeOK
  <2> SUFFICES ASSUME IInv PROVE TypeOK
    OBVIOUS
  <2>1. /\ input \in Seq(Tokens \union ToSet(Prefix)) /\ Len(input) <= MaxTokens
        /\ parse.state = Rejected => parse = [EmptyTree EXCEPT !.state = Rejected]
        /\ Len(parse.condition) <= Len(input)
    BY DEF IInv, TreeInv, AllTokens, RejectedTree
  <2>2. /\ parse.state \in {Rejected} \union 0 .. 24
        /\ parse.command \in {"none", "create", "insert", "select"}
    BY DEF IInv, TreeInv, Trees
  <2>3. QED
    BY <2>1, <2>2 DEF IInv, OutcomeInv, TypeOK
<1>2. QED
  BY <1>1, Invariance, PTL

\* DESIGN.md:15, with its one exception: a SELECT whose WHERE clause is not
\* evaluated has the keyword create somewhere after the keyword where.
THEOREM UnfilteredOnlyByCreate == Spec => [](NeverUnfiltered \/ CreateFollowsWhere)
<1>1. IInv => NeverUnfiltered \/ CreateFollowsWhere
  BY DEF IInv, OutcomeInv
<1>2. QED
  BY <1>1, Invariance, PTL

\* DESIGN.md:15 for lines without the keyword create: an invalid WHERE
\* expression never falls back to an unfiltered query.
THEOREM WhereAlwaysFilters ==
    ASSUME "create" \notin Words
    PROVE  Spec => []NeverUnfiltered
<1>1. Unquoted("create") \notin AllTokens
  <2>1. Unquoted("create") \notin Tokens
    <3>1. Classify("create") = "create"
      BY Classes
    <3>2. QED
      BY <3>1 DEF Tokens, Unquoted, Quoted
  <2>2. Unquoted("create") \notin ToSet(Prefix)
    <3>1. \A token \in ToSet(Prefix) : token.text # "create" \/ token.type = "literal"
      BY DEF ToSet, Prefix, Unquoted, Quoted
    <3>2. Unquoted("create").text = "create" /\ Unquoted("create").type = "create"
      BY Classes DEF Unquoted
    <3>3. QED
      BY <3>1, <3>2
  <2>3. QED
    BY <2>1, <2>2 DEF AllTokens
<1>2. IInv => NeverUnfiltered
  <2> SUFFICES ASSUME IInv PROVE NeverUnfiltered
    OBVIOUS
  <2>1. ~CreateFollowsWhere
    <3>1. input \in Seq(AllTokens)
      BY DEF IInv, TreeInv
    <3>2. \A j \in DOMAIN input : input[j] \in AllTokens
      BY <3>1
    <3>3. QED
      BY <1>1, <3>2 DEF CreateFollowsWhere
  <2>2. QED
    BY <2>1 DEF IInv, OutcomeInv
<1>3. QED
  BY <1>2, Invariance, PTL

\* SQL::command reads the table's and the fields' names of the parse tree
\* without asking whether there are any.  There are, unless the keyword create
\* stands in the line where it is not the first word.
THEOREM CrashOnlyByCreate == Spec => [](outcome.kind = "crash" => CreateNotFirst)
<1>1. IInv => (outcome.kind = "crash" => CreateNotFirst)
  BY DEF IInv, OutcomeInv
<1>2. QED
  BY <1>1, Invariance, PTL
=============================================================================
