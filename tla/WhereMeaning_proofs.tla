------------------------ MODULE WhereMeaning_proofs -------------------------
(***************************************************************************)
(* Theorems about WhereMeaning.  Whatever a WHERE clause means, the line   *)
(* is answered with it: for every vocabulary, table and length of the      *)
(* clause, however deep its parentheses.                                   *)
(*                                                                         *)
(* The phrases of a clause are made by rules, so what holds of each rule's *)
(* phrase if it holds of the phrases it is made of holds of them all       *)
(* (PhraseInduction).  Two things do: the recogniser reads a phrase        *)
(* without leaving the states of a WHERE clause and ends in a success      *)
(* state (Reads); and the shunting yard converts it so that the postfix    *)
(* written, followed by the operators the phrase has left on the stack,    *)
(* pushes what the phrase means (Converted).  The line in between, from    *)
(* the first token to the answer, is an invariant: the parse tree is what  *)
(* the tokens consumed make of the empty one (HistoryInv).                 *)
(***************************************************************************)
EXTENDS WhereMeaning, SqlCommand_proofs

\* Quoted texts that the shunting yard and the parse tree, which go by the
\* text alone, take for what they are.
PlainQuotes == \A w \in QuotedWords : IsString(w) /\ w # "where"

AnyMeaning == {Error} \union {Outcome("select", found, TRUE) : found \in SUBSET Records}

AnyPhrase(tokens) == [bound : 1 .. 3, first : 1 .. Len(tokens), last : 1 .. Len(tokens),
                      meaning : AnyMeaning]

-----------------------------------------------------------------------------
(* The phrases of a clause *)

\* What the rules keep holds of every phrase.
LEMMA PhraseInduction ==
    ASSUME NEW S, NEW tokens \in Seq(S), NEW T,
           \A i \in DOMAIN tokens : IsComparison(tokens, i) => Comparison(tokens, i) \in T,
           \A p \in T : IsGroup(tokens, p) => Group(p) \in T,
           \A op \in Logicals : \A l, r \in T : IsJoin(tokens, op, l, r) => Join(op, l, r) \in T
    PROVE  Phrases(tokens) \subseteq T
<1> DEFINE n == Len(tokens)
<1> DEFINE P(g) == g = [k \in 0 .. n |-> IF k = 0 THEN {} ELSE Made(tokens, g[k - 1])]
<1> DEFINE f == CHOOSE g : P(g)
<1>1. n \in Nat /\ n \div 2 \in 0 .. n
  <2>1. n \in Nat
    OBVIOUS
  <2> HIDE DEF n
  <2>2. QED
    BY <2>1
<1>2. ASSUME NEW known \in SUBSET T PROVE Made(tokens, known) \in SUBSET T
  <2>1. {Comparison(tokens, i) : i \in {i \in DOMAIN tokens : IsComparison(tokens, i)}} \subseteq T
    OBVIOUS
  <2>2. {Group(p) : p \in {p \in known : IsGroup(tokens, p)}} \subseteq T
    OBVIOUS
  <2>3. UNION { {Join(op, l, r) : r \in {r \in known : IsJoin(tokens, op, l, r)}}
                : l \in known, op \in Logicals } \subseteq T
    OBVIOUS
  <2>4. QED
    BY <2>1, <2>2, <2>3 DEF Made
<1> DEFINE step == [k \in Nat |-> [v \in SUBSET T |-> Made(tokens, v)]]
<1>3. \E g : P(g)
  <2>1. step \in [Nat -> [SUBSET T -> SUBSET T]]
    BY <1>2
  <2>2. PICK g \in [0 .. n -> SUBSET T] : Recurs(g, 0, n, {}, step)
    <3> DEFINE V == SUBSET T
    <3>1. {} \in V /\ step \in [Nat -> [V -> V]]
      BY <2>1
    <3> HIDE DEF n, step, V
    <3>2. \E g \in [0 .. n -> V] : Recurs(g, 0, n, {}, step)
      BY <1>1, <3>1, RecursionExists
    <3>3. QED
      BY <3>2 DEF V
  <2>3. ASSUME NEW k \in 0 .. n
        PROVE  g[k] = IF k = 0 THEN {} ELSE Made(tokens, g[k - 1])
    <3>1. CASE k = 0
      BY <1>1, <2>2, <3>1 DEF Recurs
    <3>2. CASE k # 0
      <4>1. k \in Nat /\ k - 1 \in 0 .. n
        BY <1>1, <3>2
      <4>2. g[k] = step[k][g[k - 1]] /\ g[k - 1] \in SUBSET T
        BY <2>2, <3>2, <4>1 DEF Recurs
      <4>3. QED
        BY <3>2, <4>1, <4>2
    <3>3. QED
      BY <3>1, <3>2
  <2>4. P(g)
    BY <2>2, <2>3
  <2>5. QED
    BY <2>4
<1>4. P(f)
  BY <1>3
<1>5. Phrases(tokens) = f[n \div 2]
  BY DEF Phrases
<1> HIDE DEF f, n
<1>6. \A k \in 0 .. n : f[k] = IF k = 0 THEN {} ELSE Made(tokens, f[k - 1])
  BY <1>4
<1> HIDE DEF P
<1> DEFINE Good == {k \in Nat : k <= n => f[k] \in SUBSET T}
<1>7. 0 \in Good
  BY <1>1, <1>6
<1>8. ASSUME NEW k \in Good PROVE k + 1 \in Good
  <2>1. CASE k + 1 <= n
    <3>1. k + 1 \in 0 .. n /\ k + 1 # 0 /\ (k + 1) - 1 = k /\ f[k] \in SUBSET T
      BY <1>1, <2>1
    <3>2. f[k + 1] = Made(tokens, f[k])
      BY <1>6, <3>1
    <3>3. QED
      BY <1>2, <3>1, <3>2
  <2>2. QED
    BY <2>1
<1>9. Good = Nat
  <2>1. Good \in SUBSET Nat
    OBVIOUS
  <2> HIDE DEF Good
  <2>2. QED
    BY <1>7, <1>8, <2>1, SetInduction
<1>10. QED
  BY <1>1, <1>5, <1>9

LEMMA Meant ==
    /\ Error \in AnyMeaning
    /\ \A found \in SUBSET Records : Outcome("select", found, TRUE) \in AnyMeaning
    /\ \A m \in AnyMeaning : m # Error => /\ m.records \in SUBSET Records
                                          /\ m = Outcome("select", m.records, TRUE)
    /\ \A found : Outcome("select", found, TRUE) # Error
<1>1. \A found : Outcome("select", found, TRUE).kind = "select" /\ Outcome("select", found, TRUE).records = found
  BY DEF Outcome
<1>2. Error.kind = "error"
  BY DEF Error, Outcome
<1>3. QED
  BY <1>1, <1>2 DEF AnyMeaning

\* What "and" and "or" make of two meanings.
LEMMA Combined ==
    ASSUME NEW op \in Logicals, NEW l \in AnyMeaning, NEW r \in AnyMeaning
    PROVE  /\ Combine(op, l, r) \in AnyMeaning
           /\ Combine(op, l, r) = Error <=> l = Error \/ r = Error
           /\ l # Error /\ r # Error =>
                 Combine(op, l, r).records = IF op = "and" THEN r.records \cap l.records
                                             ELSE r.records \union l.records
<1>1. CASE l = Error \/ r = Error
  BY <1>1, Meant DEF Combine
<1>2. CASE l # Error /\ r # Error
  <2>2. /\ l.records \in SUBSET Records /\ r.records \in SUBSET Records
        /\ l = Outcome("select", l.records, TRUE)
    BY <1>2, Meant
  <2> DEFINE found == IF op = "and" THEN l.records \cap r.records ELSE l.records \union r.records
  <2>3. found \in SUBSET Records
    BY <2>2
  <2>4. Combine(op, l, r) = Outcome("select", found, TRUE)
    BY <1>2 DEF Combine
  <2>5. found = IF op = "and" THEN r.records \cap l.records ELSE r.records \union l.records
    BY <2>2
  <2> HIDE DEF found
  <2>6. Combine(op, l, r).records = found
    BY <2>4 DEF Outcome
  <2>7. QED
    BY <1>2, <2>3, <2>4, <2>5, <2>6, Meant
<1>3. QED
  BY <1>1, <1>2

-----------------------------------------------------------------------------
(* The top of the stack, and the postfix it will become *)

LEMMA TopNone ==
    ASSUME NEW stack \in Seq(Texts), NEW out \in Seq(Texts)
    PROVE  out \o Top(stack, 0) = out
<1>1. 0 \in 0 .. Len(stack)
  OBVIOUS
<1>2. Top(stack, 0) \in Seq(Texts) /\ Len(Top(stack, 0)) = 0
  BY <1>1, DropTop
<1>3. Top(stack, 0) = <<>>
  BY <1>2
<1>4. QED
  BY <1>3

\* Taking one element more writes it last.
LEMMA TopMore ==
    ASSUME NEW stack \in Seq(Texts), NEW out \in Seq(Texts), NEW h \in Nat, h + 1 <= Len(stack)
    PROVE  out \o Top(stack, Len(stack) - h)
             = Append(out \o Top(stack, Len(stack) - (h + 1)), stack[h + 1])
<1> DEFINE n == Len(stack) - (h + 1)
<1>1. /\ n \in 0 .. Len(stack) /\ n + 1 \in 0 .. Len(stack) /\ Len(stack) - h = n + 1
      /\ Len(stack) \in Nat /\ n \in Nat /\ Len(stack) - n = h + 1
      /\ h + 1 \in 1 .. Len(stack)
  OBVIOUS
<1>2. stack[h + 1] \in Texts
  BY <1>1
<1> HIDE DEF n
<1> DEFINE longer  == Top(stack, n + 1)
<1> DEFINE shorter == Top(stack, n)
<1>3. /\ longer \in Seq(Texts) /\ Len(longer) = n + 1
      /\ \A i \in 1 .. n + 1 : longer[i] = stack[Len(stack) - i + 1]
  <2> DEFINE k == n + 1
  <2>1. k \in 0 .. Len(stack)
    BY <1>1
  <2> HIDE DEF k
  <2>2. /\ Top(stack, k) \in Seq(Texts) /\ Len(Top(stack, k)) = k
        /\ \A i \in 1 .. k : Top(stack, k)[i] = stack[Len(stack) - i + 1]
    BY <2>1, DropTop
  <2>3. QED
    BY <2>2 DEF k
<1>4. /\ shorter \in Seq(Texts) /\ Len(shorter) = n
      /\ \A i \in 1 .. n : shorter[i] = stack[Len(stack) - i + 1]
  BY <1>1, DropTop
<1> HIDE DEF longer, shorter
<1> DEFINE last == stack[h + 1]
<1>5. longer[n + 1] = last
  BY <1>1, <1>3
<1>6. \A i \in 1 .. n : longer[i] = shorter[i]
  BY <1>1, <1>3, <1>4
<1> HIDE DEF last
<1>7. last \in Texts
  BY <1>2 DEF last
<1>8. longer = Append(shorter, last)
  BY <1>1, <1>3, <1>4, <1>5, <1>6, <1>7
<1>9. out \o Append(shorter, last) = Append(out \o shorter, last)
  BY <1>4, <1>7
<1>10. QED
  BY <1>1, <1>8, <1>9 DEF longer, shorter, last, n

\* What the stacks are after the evaluation of a postfix.
Evaluates(out, stacks) == \E s : StacksOf(s, out) /\ stacks = s[Len(out)]

LEMMA EvaluatesNothing == Evaluates(<<>>, EmptyStacks)
<1> DEFINE s == [k \in 0 .. Len(<<>>) |-> EmptyStacks]
<1>1. s[Len(<<>>)] = EmptyStacks
  OBVIOUS
<1>2. s = [k \in 0 .. Len(<<>>) |-> IF k = 0 THEN EmptyStacks ELSE EvalToken(s[k - 1], <<>>[k])]
  OBVIOUS
<1>3. QED
  BY <1>1, <1>2 DEF Evaluates, StacksOf

LEMMA EvaluatesOne ==
    ASSUME NEW out \in Seq(Texts), NEW text \in Texts, NEW stacks, Evaluates(out, stacks)
    PROVE  Evaluates(Append(out, text), EvalToken(stacks, text))
<1> DEFINE n == Len(out)
<1> DEFINE longer == Append(out, text)
<1>1. /\ n \in Nat /\ Len(longer) = n + 1 /\ longer[n + 1] = text
      /\ \A i \in 1 .. n : longer[i] = out[i]
  OBVIOUS
<1>2. PICK s : StacksOf(s, out) /\ stacks = s[n]
  BY DEF Evaluates
<1>3. \A k \in 0 .. n : s[k] = IF k = 0 THEN EmptyStacks ELSE EvalToken(s[k - 1], out[k])
  BY <1>2 DEF StacksOf
<1> HIDE DEF longer, n
<1> DEFINE t == [k \in 0 .. n + 1 |-> IF k = n + 1 THEN EvalToken(stacks, text) ELSE s[k]]
<1>4. ASSUME NEW k \in 0 .. n + 1
      PROVE  t[k] = IF k = 0 THEN EmptyStacks ELSE EvalToken(t[k - 1], longer[k])
  <2>1. CASE k = n + 1
    <3>1. k # 0 /\ k - 1 = n /\ n # n + 1 /\ n \in 0 .. n + 1
      BY <1>1, <2>1
    <3>2. t[n] = s[n] /\ t[k] = EvalToken(stacks, text) /\ longer[k] = text
      BY <1>1, <2>1, <3>1
    <3>3. QED
      BY <1>2, <3>1, <3>2
  <2>2. CASE k # n + 1
    <3>1. k \in 0 .. n /\ t[k] = s[k]
      BY <1>1, <2>2
    <3>2. CASE k = 0
      BY <1>3, <3>1, <3>2
    <3>3. CASE k # 0
      <4>1. k \in 1 .. n /\ k - 1 \in 0 .. n + 1 /\ k - 1 # n + 1
        BY <1>1, <3>1, <3>3
      <4>2. t[k - 1] = s[k - 1] /\ longer[k] = out[k]
        BY <1>1, <4>1
      <4>3. QED
        BY <1>3, <3>1, <3>3, <4>2
    <3>4. QED
      BY <3>2, <3>3
  <2>3. QED
    BY <2>1, <2>2
<1>5. t[n + 1] = EvalToken(stacks, text)
  BY <1>1
<1>6. t = [k \in 0 .. n + 1 |-> IF k = 0 THEN EmptyStacks ELSE EvalToken(t[k - 1], longer[k])]
  BY <1>4
<1> HIDE DEF t
<1>7. QED
  BY <1>1, <1>5, <1>6 DEF Evaluates, StacksOf, longer

LEMMA EvaluatesOnce ==
    ASSUME NEW out \in Seq(Texts), NEW stacks, Evaluates(out, stacks),
           NEW q, StacksOf(q, out)
    PROVE  q[Len(out)] = stacks
<1> DEFINE n == Len(out)
<1>1. n \in Nat
  OBVIOUS
<1>2. PICK s : StacksOf(s, out) /\ stacks = s[n]
  BY DEF Evaluates
<1>3. /\ \A k \in 0 .. n : s[k] = IF k = 0 THEN EmptyStacks ELSE EvalToken(s[k - 1], out[k])
      /\ \A k \in 0 .. n : q[k] = IF k = 0 THEN EmptyStacks ELSE EvalToken(q[k - 1], out[k])
  BY <1>2 DEF StacksOf
<1> HIDE DEF n
<1> DEFINE Good == {k \in Nat : k <= n => q[k] = s[k]}
<1>4. 0 \in Good
  BY <1>1, <1>3
<1>5. ASSUME NEW k \in Good PROVE k + 1 \in Good
  <2>1. CASE k + 1 <= n
    <3>1. k + 1 \in 0 .. n /\ k + 1 # 0 /\ (k + 1) - 1 = k /\ q[k] = s[k]
      BY <1>1, <2>1
    <3>2. q[k + 1] = EvalToken(q[k], out[k + 1]) /\ s[k + 1] = EvalToken(s[k], out[k + 1])
      BY <1>3, <3>1
    <3>3. QED
      BY <3>1, <3>2
  <2>2. QED
    BY <2>1
<1>6. Good = Nat
  <2>1. Good \in SUBSET Nat
    OBVIOUS
  <2> HIDE DEF Good
  <2>2. QED
    BY <1>4, <1>5, <2>1, SetInduction
<1>7. q[n] = s[n]
  BY <1>1, <1>6
<1>8. QED
  BY <1>2, <1>7 DEF n

-----------------------------------------------------------------------------
(* One token of the infix queue *)

LEMMA Precedences ==
    /\ \A text \in Relationals : Precedence(text) = 4
    /\ Precedence("and") = 2 /\ Precedence("or") = 1 /\ Precedence("(") = -1
    /\ \A op \in Logicals : Precedence(op) = Binds(op) /\ Binds(op) \in 1 .. 2
    /\ \A text : Precedence(text) \in {4, 2, 1, -1}
    /\ \A op \in Logicals : ~IsString(op) /\ op \notin Relationals \union {"("}
    /\ ~IsString("(") /\ ~IsString(")") /\ ")" \notin Relationals \union Logicals \union {"("}
    /\ \A text \in Relationals : ~IsString(text)
BY DEF Precedence, Relationals, Logicals, Binds, IsString

\* The pop stops at the element it should.
LEMMA AboveIs ==
    ASSUME NEW stack \in Seq(Texts), NEW stops \in SUBSET (1 .. Len(stack)),
           NEW h \in 0 .. Len(stack), h = 0 \/ h \in stops, \A i \in stops : i <= h
    PROVE  AboveLast(stack, stops) = Len(stack) - h
<1>1. Len(stack) \in Nat
  OBVIOUS
<1>2. CASE h = 0
  <2>1. stops = {}
    BY <1>1, <1>2
  <2>2. QED
    BY <1>1, <1>2, <2>1 DEF AboveLast
<1>3. CASE h # 0
  <2> DEFINE last == CHOOSE i \in stops : \A j \in stops : j <= i
  <2>1. h \in stops /\ \A j \in stops : j <= h
    BY <1>3
  <2>2. last \in stops /\ \A j \in stops : j <= last
    BY <2>1
  <2>3. AboveLast(stack, stops) = Len(stack) - last
    BY <2>1 DEF AboveLast
  <2> HIDE DEF last
  <2>4. last <= h /\ h <= last /\ last \in Nat /\ h \in Nat
    BY <1>1, <2>1, <2>2
  <2>5. last = h
    BY <2>4
  <2>6. QED
    BY <2>3, <2>5
<1>4. QED
  BY <1>2, <1>3

LEMMA YardParts ==
    ASSUME NEW yard \in Yards
    PROVE  /\ yard.out \in Seq(Texts) /\ yard.stack \in Seq(Texts) /\ yard.error \in BOOLEAN
           /\ Len(yard.stack) \in Nat /\ DOMAIN yard.stack = 1 .. Len(yard.stack)
BY DEF Yards

\* A token goes to the output, or to the stack.
LEMMA ShuntOne ==
    ASSUME NEW yard \in Yards, ~yard.error, NEW text \in Texts
    PROVE  /\ Shunt(yard, text) \in Yards
           /\ IsString(text) =>
                 /\ Shunt(yard, text).out = Append(yard.out, text)
                 /\ Shunt(yard, text).stack = yard.stack
                 /\ ~Shunt(yard, text).error
           /\ text \in Relationals \union {"("} =>
                 /\ Shunt(yard, text).out = yard.out
                 /\ Shunt(yard, text).stack = Append(yard.stack, text)
                 /\ ~Shunt(yard, text).error
<1>1. Shunt(yard, text) \in Yards
  BY ShuntFacts DEF Shunted
<1>2. CASE IsString(text)
  <2>1. text \notin Relationals \union {"("}
    BY <1>2, Precedences
  <2>2. Shunt(yard, text) = [yard EXCEPT !.out = Append(@, text)]
    BY <1>2 DEF Shunt
  <2>3. QED
    BY <1>1, <2>1, <2>2 DEF Yards
<1>3. CASE text \in Relationals \union {"("}
  <2>1. ~IsString(text)
    BY <1>3, Precedences
  <2>2. Shunt(yard, text) = [yard EXCEPT !.stack = Append(@, text)]
    BY <1>3, <2>1 DEF Shunt
  <2>3. QED
    BY <1>1, <2>1, <2>2 DEF Yards
<1>4. QED
  BY <1>1, <1>2, <1>3

\* The operators above h bind as tightly or more, the one at h does not.
PopsTo(stack, h, bound) ==
    /\ h \in 0 .. Len(stack)
    /\ \A i \in h + 1 .. Len(stack) : Precedence(stack[i]) >= bound
    /\ h = 0 \/ Precedence(stack[h]) < bound

\* The yard that pops those operators, and pushes another.
Popped(yard, h, op, next) ==
    /\ next \in Yards /\ ~next.error
    /\ next.out = yard.out \o Top(yard.stack, Len(yard.stack) - h)
    /\ Len(next.stack) = h + 1 /\ next.stack[h + 1] = op
    /\ \A i \in 1 .. h : next.stack[i] = yard.stack[i]

\* A logical operator pops the operators that bind as tightly or more.
LEMMA ShuntLogical ==
    ASSUME NEW yard \in Yards, ~yard.error, NEW op \in Logicals, op \in Texts,
           NEW h, PopsTo(yard.stack, h, Precedence(op))
    PROVE  Popped(yard, h, op, Shunt(yard, op))
<1> DEFINE stack == yard.stack
<1> DEFINE n == Len(stack)
<1> DEFINE parens  == {i \in DOMAIN stack : stack[i] = "("}
<1> DEFINE looser  == {i \in DOMAIN stack : Precedence(stack[i]) < Precedence(op)}
<1> DEFINE stops == parens \union looser
<1>1. /\ stack \in Seq(Texts) /\ n \in Nat /\ DOMAIN stack = 1 .. n
      /\ h \in 0 .. n
      /\ \A i \in h + 1 .. n : Precedence(stack[i]) >= Precedence(op)
      /\ h = 0 \/ Precedence(stack[h]) < Precedence(op)
  BY YardParts DEF PopsTo
<1>2. Precedence(op) \in 1 .. 2 /\ \A text : Precedence(text) \in {4, 2, 1, -1}
  BY Precedences
<1>3. stops \in SUBSET (1 .. n) /\ (h = 0 \/ h \in stops)
  BY <1>1
<1>4. \A i \in stops : i <= h
  <2>1. SUFFICES ASSUME NEW i \in 1 .. n, i \in stops, ~(i <= h) PROVE FALSE
    BY <1>3
  <2>2. i \in h + 1 .. n
    BY <1>1, <2>1
  <2>3. Precedence(stack[i]) >= Precedence(op)
    BY <1>1, <2>2
  <2>4. stack[i] # "("
    BY <1>2, <2>3, Precedences
  <2>5. QED
    BY <1>2, <2>1, <2>3, <2>4
<1>5. Shunt(yard, op) = [yard EXCEPT !.out = @ \o Top(stack, AboveLast(stack, stops)),
                                     !.stack = Append(Drop(stack, AboveLast(stack, stops)), op)]
  <2>1. ~IsString(op) /\ op \notin Relationals \union {"("}
    BY Precedences
  <2>2. QED
    BY <2>1 DEF Shunt
<1> HIDE DEF parens, looser, stops
<1>6. AboveLast(stack, stops) = n - h
  <2>1. stops \in SUBSET (1 .. Len(stack)) /\ h \in 0 .. Len(stack)
    BY <1>1, <1>3
  <2> HIDE DEF stack, n
  <2>2. AboveLast(stack, stops) = Len(stack) - h
    BY <1>1, <1>3, <1>4, <2>1, AboveIs
  <2>3. QED
    BY <2>2 DEF n
<1> DEFINE m == n - h
<1> DEFINE popped == Append(Drop(stack, m), op)
<1>7. m \in 0 .. n /\ n - m = h
  BY <1>1
<1>8. Shunt(yard, op) = [yard EXCEPT !.out = @ \o Top(stack, m), !.stack = popped]
  BY <1>5, <1>6
<1>9. /\ Drop(stack, m) \in Seq(Texts) /\ Len(Drop(stack, m)) = h
      /\ \A i \in 1 .. h : Drop(stack, m)[i] = stack[i]
  <2> HIDE DEF m
  <2>1. /\ Drop(stack, m) \in Seq(Texts) /\ Len(Drop(stack, m)) = n - m
        /\ \A i \in 1 .. n - m : Drop(stack, m)[i] = stack[i]
    BY <1>1, <1>7, DropTop
  <2>2. QED
    BY <1>7, <2>1
<1>10. /\ Len(popped) = h + 1 /\ popped[h + 1] = op
       /\ \A i \in 1 .. h : popped[i] = stack[i]
  BY <1>9
<1>11. Shunt(yard, op) \in Yards
  BY ShuntFacts DEF Shunted
<1> HIDE DEF popped, m
<1>12. /\ Shunt(yard, op).out = yard.out \o Top(stack, m)
       /\ Shunt(yard, op).stack = popped
       /\ Shunt(yard, op).error = yard.error
  BY <1>8 DEF Yards
<1>13. QED
  BY <1>10, <1>11, <1>12 DEF m, Popped

\* A closing parenthesis pops up to the last opening one, and that.
LEMMA ShuntClose ==
    ASSUME NEW yard \in Yards, ~yard.error, ")" \in Texts,
           NEW h \in 0 .. Len(yard.stack), h + 1 <= Len(yard.stack), yard.stack[h + 1] = "(",
           \A i \in h + 2 .. Len(yard.stack) : yard.stack[i] # "("
    PROVE  LET next == Shunt(yard, ")")
           IN  /\ next \in Yards /\ ~next.error
               /\ next.out = yard.out \o Top(yard.stack, Len(yard.stack) - (h + 1))
               /\ Len(next.stack) = h
               /\ \A i \in 1 .. h : next.stack[i] = yard.stack[i]
<1> DEFINE stack == yard.stack
<1> DEFINE n == Len(stack)
<1> DEFINE parens  == {i \in DOMAIN stack : stack[i] = "("}
<1> DEFINE inside == AboveLast(stack, parens)
<1>1. /\ stack \in Seq(Texts) /\ n \in Nat /\ DOMAIN stack = 1 .. n
      /\ h \in 0 .. n /\ h + 1 \in 1 .. n
  BY YardParts
<1>2. parens \in SUBSET (1 .. n) /\ h + 1 \in parens
  BY <1>1
<1>3. \A i \in parens : i <= h + 1
  <2>1. SUFFICES ASSUME NEW i \in 1 .. n, i \in parens, ~(i <= h + 1) PROVE FALSE
    BY <1>2
  <2>2. i \in h + 2 .. n
    BY <1>1, <2>1
  <2>3. QED
    BY <2>1, <2>2
<1>4. Shunt(yard, ")") = IF inside = n THEN [yard EXCEPT !.error = TRUE]
                         ELSE [yard EXCEPT !.out = @ \o Top(stack, inside),
                                           !.stack = Drop(stack, inside + 1)]
  <2>1. ~IsString(")") /\ ")" \notin Relationals \union {"("} /\ ")" \notin Logicals
    BY Precedences
  <2>2. QED
    BY <2>1 DEF Shunt
<1> HIDE DEF parens
<1>5. inside = n - (h + 1)
  <2> DEFINE g == h + 1
  <2>1. g \in 0 .. Len(stack) /\ g \in parens /\ \A i \in parens : i <= g
    BY <1>1, <1>2, <1>3
  <2>2. parens \in SUBSET (1 .. Len(stack))
    BY <1>2
  <2> HIDE DEF stack, n, g
  <2>3. AboveLast(stack, parens) = Len(stack) - g
    BY <1>1, <2>1, <2>2, AboveIs
  <2>4. QED
    BY <2>3 DEF n, g
<1> HIDE DEF inside
<1>6. inside # n /\ inside + 1 = n - h /\ n - h \in 0 .. n /\ n - (n - h) = h
  BY <1>1, <1>5
<1>7. Shunt(yard, ")") = [yard EXCEPT !.out = @ \o Top(stack, inside),
                                      !.stack = Drop(stack, inside + 1)]
  BY <1>4, <1>6
<1> DEFINE m == n - h
<1>8. /\ Len(Drop(stack, m)) = h
      /\ \A i \in 1 .. h : Drop(stack, m)[i] = stack[i]
  <2>1. m \in 0 .. n /\ n - m = h
    BY <1>6
  <2> HIDE DEF m
  <2>2. /\ Len(Drop(stack, m)) = n - m
        /\ \A i \in 1 .. n - m : Drop(stack, m)[i] = stack[i]
    BY <1>1, <2>1, DropTop
  <2>3. QED
    BY <2>1, <2>2
<1>9. Shunt(yard, ")") \in Yards
  BY ShuntFacts DEF Shunted
<1>10. /\ Shunt(yard, ")").out = yard.out \o Top(stack, inside)
       /\ Shunt(yard, ")").stack = Drop(stack, m)
       /\ Shunt(yard, ")").error = yard.error
  BY <1>6, <1>7 DEF Yards
<1> HIDE DEF m
<1>11. QED
  BY <1>5, <1>8, <1>9, <1>10

-----------------------------------------------------------------------------
(* What a part of the postfix does to the stacks *)

Pushed(stacks, found) ==
    [strings |-> stacks.strings, sets |-> Append(stacks.sets, found), error |-> stacks.error]

\* From one pair of stacks to another, as by a phrase that means m.
Means(before, after, m) ==
    /\ after \in EvalStacks
    /\ before.error \/ m = Error => after.error
    /\ ~before.error /\ m # Error => after = Pushed(before, m.records)

LEMMA StacksParts ==
    ASSUME NEW x \in EvalStacks
    PROVE  /\ x.strings \in Seq(Texts) /\ x.sets \in Seq(SUBSET Records) /\ x.error \in BOOLEAN
           /\ Len(x.strings) \in Nat /\ Len(x.sets) \in Nat
           /\ x = [strings |-> x.strings, sets |-> x.sets, error |-> x.error]
BY DEF EvalStacks

LEMMA EvalStops ==
    ASSUME NEW x, x.error, NEW text
    PROVE  EvalToken(x, text) = x
BY DEF EvalToken

LEMMA EvalString ==
    ASSUME NEW x \in EvalStacks, ~x.error, NEW text \in Texts, IsString(text)
    PROVE  /\ EvalToken(x, text) \in EvalStacks
           /\ EvalToken(x, text).strings = Append(x.strings, text)
           /\ EvalToken(x, text).sets = x.sets
           /\ ~EvalToken(x, text).error
<1>1. EvalToken(x, text) = [x EXCEPT !.strings = Append(@, text)]
  BY DEF EvalToken
<1>2. QED
  BY <1>1, EvalTokenType DEF EvalStacks

\* The last two elements, and what is below them.
LEMMA LastTwo ==
    ASSUME NEW S, NEW s \in Seq(S), NEW a \in S, NEW b \in S
    PROVE  LET t == Append(Append(s, a), b)
           IN  ~(Len(t) < 2) /\ Last(t) = b /\ t[Len(t) - 1] = a /\ Drop(t, 2) = s
<1> DEFINE t == Append(Append(s, a), b)
<1>1. t \in Seq(S) /\ Len(t) = Len(s) + 2 /\ Len(s) \in Nat
  OBVIOUS
<1>2. t[Len(s) + 2] = b /\ t[Len(s) + 1] = a /\ \A i \in 1 .. Len(s) : t[i] = s[i]
  OBVIOUS
<1>3. Len(t) - 1 = Len(s) + 1 /\ Len(t) - 2 = Len(s)
  BY <1>1
<1>4. Last(t) = b
  BY <1>1, <1>2 DEF Last
<1> DEFINE d == SubSeq(t, 1, Len(s))
<1>5. d \in Seq(S) /\ Len(d) = Len(s) /\ \A i \in 1 .. Len(s) : d[i] = t[i]
  BY <1>1
<1> HIDE DEF d
<1>6. d = s
  BY <1>1, <1>2, <1>5
<1>7. Drop(t, 2) = s
  BY <1>3, <1>6 DEF Drop, d
<1>8. QED
  BY <1>1, <1>2, <1>3, <1>4, <1>7

\* A comparison, once its operands and its operator are evaluated.
LEMMA MeansComparison ==
    ASSUME NEW x \in EvalStacks, NEW field \in Texts, NEW value \in Texts, NEW op \in Texts,
           IsString(field), IsString(value), op \in Relationals, NEW m,
           m = IF field \in TableFields
               THEN Outcome("select", SelectHelp(field, op, value), TRUE) ELSE Error
    PROVE  Means(x, EvalToken(EvalToken(EvalToken(x, field), value), op), m)
<1> DEFINE y == EvalToken(EvalToken(x, field), value)
<1> DEFINE z == EvalToken(y, op)
<1>1. y \in EvalStacks /\ z \in EvalStacks
  BY EvalTokenType
<1>2. CASE x.error
  <2>1. z = x
    BY <1>2, EvalStops
  <2>2. QED
    BY <1>2, <2>1 DEF Means
<1>3. CASE ~x.error
  <2>1. /\ y.strings = Append(Append(x.strings, field), value)
        /\ y.sets = x.sets /\ ~y.error
    <3>1. /\ EvalToken(x, field) \in EvalStacks
          /\ EvalToken(x, field).strings = Append(x.strings, field)
          /\ EvalToken(x, field).sets = x.sets
          /\ ~EvalToken(x, field).error
      BY <1>3, EvalString
    <3>2. QED
      BY <3>1, EvalString
  <2> HIDE DEF y
  <2>2. /\ ~(Len(y.strings) < 2) /\ Last(y.strings) = value
        /\ y.strings[Len(y.strings) - 1] = field /\ Drop(y.strings, 2) = x.strings
    <3>1. x.strings \in Seq(Texts)
      BY StacksParts
    <3> DEFINE s == x.strings
    <3> DEFINE t == y.strings
    <3>2. s \in Seq(Texts) /\ t = Append(Append(s, field), value)
      BY <2>1, <3>1
    <3> HIDE DEF s, t
    <3>3. /\ ~(Len(t) < 2) /\ Last(t) = value
          /\ t[Len(t) - 1] = field /\ Drop(t, 2) = s
      <4> DEFINE u == Append(Append(s, field), value)
      <4>1. ~(Len(u) < 2) /\ Last(u) = value /\ u[Len(u) - 1] = field /\ Drop(u, 2) = s
        BY <3>2, LastTwo
      <4> HIDE DEF u
      <4>2. QED
        BY <3>2, <4>1 DEF u
    <3>4. QED
      BY <3>3 DEF s, t
  <2>3. ~IsString(op)
    BY Precedences
  <2>4. CASE field \notin TableFields
    <3>1. z = [y EXCEPT !.error = TRUE]
      BY <2>1, <2>2, <2>3, <2>4 DEF EvalToken
    <3>2. z.error
      BY <1>1, <3>1 DEF EvalStacks
    <3>3. QED
      BY <1>1, <2>4, <3>2 DEF Means, y
  <2>5. CASE field \in TableFields
    <3> DEFINE found == SelectHelp(field, op, value)
    <3>1. z = [y EXCEPT !.strings = Drop(@, 2), !.sets = Append(@, found)]
      BY <2>1, <2>2, <2>3, <2>5 DEF EvalToken
    <3>2. found \in SUBSET Records
      BY DEF SelectHelp
    <3>3. m = Outcome("select", found, TRUE)
      BY <2>5
    <3> HIDE DEF found, z
    <3>4. m.records = found
      BY <3>3 DEF Outcome
    <3>5. z = [strings |-> x.strings, sets |-> Append(x.sets, found), error |-> y.error]
      BY <1>1, <2>1, <2>2, <3>1 DEF EvalStacks
    <3>6. y.error = x.error
      BY <1>1, <1>3, <2>1, StacksParts
    <3>7. z = Pushed(x, found)
      BY <3>5, <3>6, Zenon DEF Pushed
    <3>8. m # Error
      BY <3>3, Meant
    <3>9. QED
      BY <1>1, <1>3, <3>4, <3>7, <3>8 DEF Means, z, y
  <2>6. QED
    BY <2>4, <2>5
<1>4. QED
  BY <1>2, <1>3

\* Two meanings and the operator that joins them.
LEMMA MeansJoin ==
    ASSUME NEW x \in EvalStacks, NEW y, NEW z, NEW l \in AnyMeaning, NEW r \in AnyMeaning,
           Means(x, y, l), Means(y, z, r), NEW op \in Logicals, op \in Texts
    PROVE  Means(x, EvalToken(z, op), Combine(op, l, r))
<1> DEFINE w == EvalToken(z, op)
<1>1. y \in EvalStacks /\ z \in EvalStacks /\ w \in EvalStacks
  BY EvalTokenType DEF Means
<1>2. CASE x.error \/ l = Error \/ r = Error
  <2>1. z.error
    BY <1>2 DEF Means
  <2>2. w = z
    BY <2>1, EvalStops
  <2> HIDE DEF w
  <2>3. x.error \/ Combine(op, l, r) = Error
    BY <1>2, Combined
  <2>4. QED
    BY <1>1, <2>1, <2>2, <2>3 DEF Means, w
<1>3. CASE ~x.error /\ l # Error /\ r # Error
  <2> DEFINE a == l.records
  <2> DEFINE b == r.records
  <2>1. a \in SUBSET Records /\ b \in SUBSET Records
    BY <1>3, Meant
  <2>2. y = Pushed(x, a)
    BY <1>3 DEF Means
  <2>3. ~y.error /\ y.strings = x.strings /\ y.sets = Append(x.sets, a)
    BY <1>3, <2>2 DEF Pushed, EvalStacks
  <2>4. z = Pushed(y, b)
    BY <1>3, <2>3 DEF Means
  <2>5. ~z.error /\ z.strings = x.strings /\ z.sets = Append(Append(x.sets, a), b)
    BY <1>1, <2>3, <2>4 DEF Pushed, EvalStacks
  <2> HIDE DEF a, b
  <2>6. /\ ~(Len(z.sets) < 2) /\ Last(z.sets) = b /\ z.sets[Len(z.sets) - 1] = a
        /\ Drop(z.sets, 2) = x.sets
    <3>1. x.sets \in Seq(SUBSET Records)
      BY StacksParts
    <3> DEFINE R == SUBSET Records
    <3> DEFINE s == x.sets
    <3> DEFINE t == z.sets
    <3>2. s \in Seq(R) /\ a \in R /\ b \in R /\ t = Append(Append(s, a), b)
      BY <2>1, <2>5, <3>1
    <3> HIDE DEF R, s, t
    <3>3. /\ ~(Len(t) < 2) /\ Last(t) = b
          /\ t[Len(t) - 1] = a /\ Drop(t, 2) = s
      <4> DEFINE u == Append(Append(s, a), b)
      <4>1. ~(Len(u) < 2) /\ Last(u) = b /\ u[Len(u) - 1] = a /\ Drop(u, 2) = s
        BY <3>2, LastTwo
      <4>2. QED
        BY <3>2, <4>1
    <3>4. QED
      BY <3>3 DEF s, t
  <2> DEFINE found == IF op = "and" THEN b \cap a ELSE b \union a
  <2>7. w = [z EXCEPT !.sets = Append(Drop(@, 2), found)]
    <3>1. ~IsString(op) /\ op \notin Relationals
      BY Precedences
    <3>2. QED
      BY <2>5, <2>6, <3>1 DEF EvalToken
  <2>8. Combine(op, l, r).records = found /\ Combine(op, l, r) # Error
    <3>1. /\ Combine(op, l, r) # Error
          /\ Combine(op, l, r).records = IF op = "and" THEN r.records \cap l.records
                                         ELSE r.records \union l.records
      BY <1>3, Combined
    <3>2. QED
      BY <3>1 DEF a, b
  <2> HIDE DEF found, w
  <2>9. w = [strings |-> x.strings, sets |-> Append(x.sets, found), error |-> z.error]
    BY <1>1, <2>5, <2>6, <2>7 DEF EvalStacks
  <2>10. z.error = x.error
    BY <1>1, <1>3, <2>5, StacksParts
  <2>11. w = Pushed(x, found)
    BY <2>9, <2>10, Zenon DEF Pushed
  <2>12. QED
    BY <1>1, <1>3, <2>8, <2>11 DEF Means, w
<1>4. QED
  BY <1>2, <1>3

-----------------------------------------------------------------------------
(* The conversion of a phrase *)

\* A yard whose last operator binds less tightly than the phrase to come.
Ready(yard, bound) ==
    /\ yard \in Yards /\ ~yard.error
    /\ Len(yard.stack) # 0 => Precedence(yard.stack[Len(yard.stack)]) < bound

\* The postfix of the yard and of what lies on its stack above h.
Postfix(yard, h) == yard.out \o Top(yard.stack, Len(yard.stack) - h)

\* From one yard to another, over a phrase that means m.
Converted(before, after, bound, m) ==
    LET h == Len(before.stack)
    IN  /\ after \in Yards /\ ~after.error
        /\ Len(after.stack) >= h
        /\ \A i \in 1 .. h : after.stack[i] = before.stack[i]
        /\ \A i \in h + 1 .. Len(after.stack) : Precedence(after.stack[i]) >= bound
        /\ \A x \in EvalStacks : Evaluates(before.out, x) =>
              \E y : Evaluates(Postfix(after, h), y) /\ Means(x, y, m)

LEMMA PostfixText ==
    ASSUME NEW yard \in Yards, NEW h \in 0 .. Len(yard.stack)
    PROVE  Postfix(yard, h) \in Seq(Texts)
<1>1. yard.out \in Seq(Texts) /\ yard.stack \in Seq(Texts) /\ Len(yard.stack) \in Nat
  BY YardParts
<1> DEFINE n == Len(yard.stack) - h
<1>2. n \in 0 .. Len(yard.stack)
  BY <1>1
<1> HIDE DEF n
<1>3. Top(yard.stack, n) \in Seq(Texts)
  BY <1>1, <1>2, DropTop
<1>4. yard.out \o Top(yard.stack, n) \in Seq(Texts)
  BY <1>1, <1>3
<1>5. QED
  BY <1>4 DEF Postfix, n

LEMMA PostfixWhole ==
    ASSUME NEW yard \in Yards
    PROVE  Postfix(yard, Len(yard.stack)) = yard.out
<1>1. yard.out \in Seq(Texts) /\ yard.stack \in Seq(Texts) /\ Len(yard.stack) \in Nat
  BY YardParts
<1>2. Len(yard.stack) - Len(yard.stack) = 0
  BY <1>1
<1>3. QED
  BY <1>1, <1>2, TopNone DEF Postfix

LEMMA PostfixMore ==
    ASSUME NEW yard \in Yards, NEW h \in Nat, h + 1 <= Len(yard.stack)
    PROVE  Postfix(yard, h) = Append(Postfix(yard, h + 1), yard.stack[h + 1])
<1>1. yard.out \in Seq(Texts) /\ yard.stack \in Seq(Texts) /\ Len(yard.stack) \in Nat
  BY YardParts
<1>2. QED
  BY <1>1, TopMore DEF Postfix

LEMMA ConvertComparison ==
    ASSUME NEW yard \in Yards, ~yard.error, NEW field \in Texts, NEW value \in Texts,
           NEW op \in Texts, IsString(field), IsString(value), op \in Relationals, NEW m,
           m = IF field \in TableFields
               THEN Outcome("select", SelectHelp(field, op, value), TRUE) ELSE Error
    PROVE  Converted(yard, Shunt(Shunt(Shunt(yard, field), op), value), 3, m)
<1> DEFINE h == Len(yard.stack)
<1> DEFINE y1 == Shunt(yard, field)
<1> DEFINE y2 == Shunt(y1, op)
<1> DEFINE y3 == Shunt(y2, value)
<1>1. yard.out \in Seq(Texts) /\ yard.stack \in Seq(Texts) /\ h \in Nat
  BY YardParts
<1>2. y1 \in Yards /\ ~y1.error /\ y1.out = Append(yard.out, field) /\ y1.stack = yard.stack
  BY ShuntOne
<1>3. y2 \in Yards /\ ~y2.error /\ y2.out = y1.out /\ y2.stack = Append(y1.stack, op)
  <2> HIDE DEF y1
  <2>1. QED
    BY <1>2, ShuntOne
<1>4. y3 \in Yards /\ ~y3.error /\ y3.out = Append(y2.out, value) /\ y3.stack = y2.stack
  <2> HIDE DEF y2
  <2>1. QED
    BY <1>3, ShuntOne
<1> HIDE DEF y1, y2, y3
<1>5. /\ y3.out = Append(Append(yard.out, field), value)
      /\ y3.stack = Append(yard.stack, op)
  BY <1>2, <1>3, <1>4
<1>6. /\ Len(y3.stack) = h + 1 /\ y3.stack[h + 1] = op
      /\ \A i \in 1 .. h : y3.stack[i] = yard.stack[i]
  BY <1>1, <1>5
<1>7. \A i \in h + 1 .. Len(y3.stack) : Precedence(y3.stack[i]) >= 3
  <2>1. Precedence(op) = 4 /\ \A i \in h + 1 .. h + 1 : i = h + 1
    BY <1>1, Precedences
  <2>2. QED
    BY <1>6, <2>1
<1>8. Postfix(y3, h) = Append(y3.out, op)
  <2>1. Postfix(y3, h) = Append(Postfix(y3, h + 1), y3.stack[h + 1])
    <3> HIDE DEF h
    <3>1. h + 1 <= Len(y3.stack)
      BY <1>1, <1>6
    <3>2. QED
      BY <1>1, <1>4, <3>1, PostfixMore
  <2>2. Postfix(y3, h + 1) = y3.out
    BY <1>4, <1>6, PostfixWhole
  <2>3. QED
    BY <1>6, <2>1, <2>2
<1>9. ASSUME NEW x \in EvalStacks, Evaluates(yard.out, x)
      PROVE  \E y : Evaluates(Postfix(y3, h), y) /\ Means(x, y, m)
  <2> DEFINE y == EvalToken(EvalToken(EvalToken(x, field), value), op)
  <2>1. Evaluates(Append(yard.out, field), EvalToken(x, field))
    BY <1>1, <1>9, EvaluatesOne
  <2>2. Evaluates(Append(Append(yard.out, field), value), EvalToken(EvalToken(x, field), value))
    <3> DEFINE out == Append(yard.out, field)
    <3>1. out \in Seq(Texts)
      BY <1>1
    <3> HIDE DEF out
    <3>2. Evaluates(Append(out, value), EvalToken(EvalToken(x, field), value))
      BY <2>1, <3>1, EvaluatesOne DEF out
    <3>3. QED
      BY <3>2 DEF out
  <2>3. Evaluates(Append(y3.out, op), y)
    <3>1. y3.out \in Seq(Texts)
      BY <1>4, YardParts
    <3>2. Evaluates(y3.out, EvalToken(EvalToken(x, field), value))
      BY <1>5, <2>2
    <3>3. QED
      BY <3>1, <3>2, EvaluatesOne
  <2>4. Means(x, y, m)
    BY MeansComparison
  <2> HIDE DEF y
  <2>5. QED
    BY <1>8, <2>3, <2>4
<1>10. Len(y3.stack) >= h
  BY <1>1, <1>6
<1>11. Converted(yard, y3, 3, m)
  BY <1>4, <1>6, <1>7, <1>9, <1>10 DEF Converted
<1>12. QED
  BY <1>11 DEF y1, y2, y3

\* Behind an opening parenthesis the yard is ready for anything.
LEMMA ReadyInside ==
    ASSUME NEW yard \in Yards, ~yard.error, "(" \in Texts, NEW bound \in 1 .. 3
    PROVE  Ready(Shunt(yard, "("), bound)
<1>1. /\ Shunt(yard, "(") \in Yards /\ ~Shunt(yard, "(").error
      /\ Shunt(yard, "(").stack = Append(yard.stack, "(")
  BY ShuntOne
<1>2. yard.stack \in Seq(Texts)
  BY YardParts
<1>3. Append(yard.stack, "(")[Len(Append(yard.stack, "("))] = "("
  BY <1>2
<1>4. QED
  BY <1>1, <1>3, Precedences DEF Ready

LEMMA ConvertGroup ==
    ASSUME NEW yard \in Yards, ~yard.error, "(" \in Texts, ")" \in Texts,
           NEW bound \in 1 .. 3, NEW m, NEW y2, Converted(Shunt(yard, "("), y2, bound, m)
    PROVE  Converted(yard, Shunt(y2, ")"), 3, m)
<1> DEFINE h == Len(yard.stack)
<1> DEFINE y1 == Shunt(yard, "(")
<1> DEFINE y3 == Shunt(y2, ")")
<1>1. yard.out \in Seq(Texts) /\ yard.stack \in Seq(Texts) /\ h \in Nat
  BY YardParts
<1>2. y1 \in Yards /\ ~y1.error /\ y1.out = yard.out /\ y1.stack = Append(yard.stack, "(")
  BY ShuntOne
<1>3. Converted(y1, y2, bound, m)
  OBVIOUS
<1> HIDE DEF y1
<1>4. Len(y1.stack) = h + 1 /\ y1.stack[h + 1] = "(" /\ \A i \in 1 .. h : y1.stack[i] = yard.stack[i]
  BY <1>1, <1>2
<1>5. /\ y2 \in Yards /\ ~y2.error /\ Len(y2.stack) >= h + 1
      /\ \A i \in 1 .. h + 1 : y2.stack[i] = y1.stack[i]
      /\ \A i \in (h + 1) + 1 .. Len(y2.stack) : Precedence(y2.stack[i]) >= bound
      /\ \A x \in EvalStacks : Evaluates(y1.out, x) =>
            \E y : Evaluates(Postfix(y2, h + 1), y) /\ Means(x, y, m)
  BY <1>3, <1>4 DEF Converted
<1>6. Len(y2.stack) \in Nat
  BY <1>5, YardParts
<1>7. /\ y3 \in Yards /\ ~y3.error
      /\ y3.out = y2.out \o Top(y2.stack, Len(y2.stack) - (h + 1))
      /\ Len(y3.stack) = h
      /\ \A i \in 1 .. h : y3.stack[i] = y2.stack[i]
  <2>1. h \in 0 .. Len(y2.stack) /\ h + 1 <= Len(y2.stack) /\ h + 1 \in 1 .. h + 1
    BY <1>1, <1>5, <1>6
  <2>2. y2.stack[h + 1] = "("
    BY <1>4, <1>5, <2>1
  <2>3. \A i \in h + 2 .. Len(y2.stack) : y2.stack[i] # "("
    <3>1. SUFFICES ASSUME NEW i \in h + 2 .. Len(y2.stack) PROVE y2.stack[i] # "("
      OBVIOUS
    <3>2. i \in (h + 1) + 1 .. Len(y2.stack)
      BY <1>1, <1>6, <3>1
    <3>3. Precedence(y2.stack[i]) >= bound
      BY <1>5, <3>2
    <3>4. CASE y2.stack[i] = "("
      BY <3>3, <3>4, Precedences
    <3>5. QED
      BY <3>4
  <2> HIDE DEF h
  <2>4. QED
    BY <1>5, <2>1, <2>2, <2>3, ShuntClose
<1> HIDE DEF y3
<1>8. Postfix(y3, h) = y3.out
  BY <1>7, PostfixWhole
<1>9. y3.out = Postfix(y2, h + 1)
  BY <1>7 DEF Postfix
<1>10. \A i \in 1 .. h : y3.stack[i] = yard.stack[i]
  <2>1. \A i \in 1 .. h : i \in 1 .. h + 1
    BY <1>1
  <2>2. QED
    BY <1>4, <1>5, <1>7, <2>1
<1>11. /\ Len(y3.stack) >= h
       /\ \A i \in h + 1 .. Len(y3.stack) : Precedence(y3.stack[i]) >= 3
  BY <1>1, <1>7
<1>12. \A x \in EvalStacks : Evaluates(yard.out, x) =>
          \E y : Evaluates(Postfix(y3, h), y) /\ Means(x, y, m)
  BY <1>2, <1>5, <1>8, <1>9
<1>13. Converted(yard, y3, 3, m)
  BY <1>7, <1>10, <1>11, <1>12 DEF Converted
<1>14. QED
  BY <1>13 DEF y3

\* The operator between two phrases writes those the first has left.
LEMMA ConvertOperator ==
    ASSUME NEW op \in Logicals, op \in Texts, NEW yard, Ready(yard, Binds(op)),
           NEW bound \in 1 .. 3, bound >= Binds(op), NEW l, NEW y1, Converted(yard, y1, bound, l)
    PROVE  LET h == Len(yard.stack)
               y2 == Shunt(y1, op)
           IN  /\ y2 \in Yards /\ ~y2.error
               /\ y2.out = Postfix(y1, h)
               /\ Len(y2.stack) = h + 1 /\ y2.stack[h + 1] = op
               /\ \A i \in 1 .. h : y2.stack[i] = yard.stack[i]
<1> DEFINE h == Len(yard.stack)
<1>1. yard \in Yards /\ (h # 0 => Precedence(yard.stack[h]) < Binds(op))
  BY DEF Ready
<1>2. h \in Nat
  BY <1>1, YardParts
<1>3. /\ y1 \in Yards /\ ~y1.error /\ Len(y1.stack) >= h
      /\ \A i \in 1 .. h : y1.stack[i] = yard.stack[i]
      /\ \A i \in h + 1 .. Len(y1.stack) : Precedence(y1.stack[i]) >= bound
  BY DEF Converted
<1>4. Len(y1.stack) \in Nat
  BY <1>3, YardParts
<1>5. Precedence(op) = Binds(op) /\ Binds(op) \in 1 .. 2 /\ \A text : Precedence(text) \in {4, 2, 1, -1}
  BY Precedences
<1>6. h \in 0 .. Len(y1.stack)
  BY <1>2, <1>3, <1>4
<1>7. \A i \in h + 1 .. Len(y1.stack) : Precedence(y1.stack[i]) >= Precedence(op)
  <2>1. SUFFICES ASSUME NEW i \in h + 1 .. Len(y1.stack)
                 PROVE  Precedence(y1.stack[i]) >= Precedence(op)
    OBVIOUS
  <2>2. Precedence(y1.stack[i]) >= bound /\ Precedence(y1.stack[i]) \in {4, 2, 1, -1}
    BY <1>3, <1>5
  <2>3. QED
    BY <1>5, <2>2
<1>8. h = 0 \/ Precedence(y1.stack[h]) < Precedence(op)
  <2>1. h # 0 => h \in 1 .. h
    BY <1>2
  <2>2. QED
    BY <1>1, <1>3, <1>5, <2>1
<1> HIDE DEF h
<1>9. Popped(y1, h, op, Shunt(y1, op))
  <2>1. y1 \in Yards /\ ~y1.error /\ op \in Texts
    BY <1>3
  <2>2. PopsTo(y1.stack, h, Precedence(op))
    BY <1>6, <1>7, <1>8 DEF PopsTo
  <2>3. QED
    BY <2>1, <2>2, ShuntLogical
<1>10. QED
  BY <1>3, <1>9 DEF Postfix, Popped, h

\* Behind the operator the yard is ready for what binds more tightly.
LEMMA ReadyBehind ==
    ASSUME NEW op \in Logicals, op \in Texts, NEW yard, Ready(yard, Binds(op)),
           NEW bound \in 1 .. 3, bound >= Binds(op), NEW l, NEW y1, Converted(yard, y1, bound, l),
           NEW tighter \in 1 .. 3, tighter > Binds(op)
    PROVE  Ready(Shunt(y1, op), tighter)
<1> DEFINE y2 == Shunt(y1, op)
<1> DEFINE h == Len(yard.stack)
<1>1. /\ y2 \in Yards /\ ~y2.error
      /\ Len(y2.stack) = h + 1 /\ y2.stack[h + 1] = op
  BY ConvertOperator
<1>2. Precedence(op) = Binds(op)
  BY Precedences
<1> HIDE DEF y2, h
<1>3. y2.stack[Len(y2.stack)] = op
  BY <1>1
<1>4. Ready(y2, tighter)
  BY <1>1, <1>2, <1>3 DEF Ready
<1>5. QED
  BY <1>4 DEF y2

LEMMA ConvertJoin ==
    ASSUME NEW op \in Logicals, op \in Texts, NEW yard, Ready(yard, Binds(op)),
           NEW bound \in 1 .. 3, bound >= Binds(op), NEW l \in AnyMeaning,
           NEW y1, Converted(yard, y1, bound, l),
           NEW tighter \in 1 .. 3, tighter > Binds(op), NEW r \in AnyMeaning,
           NEW y3, Converted(Shunt(y1, op), y3, tighter, r)
    PROVE  Converted(yard, y3, Binds(op), Combine(op, l, r))
<1> DEFINE h == Len(yard.stack)
<1> DEFINE y2 == Shunt(y1, op)
<1> DEFINE m == Combine(op, l, r)
<1>1. h \in Nat
  BY YardParts DEF Ready
<1>2. /\ y2 \in Yards /\ ~y2.error
      /\ y2.out = Postfix(y1, h)
      /\ Len(y2.stack) = h + 1 /\ y2.stack[h + 1] = op
      /\ \A i \in 1 .. h : y2.stack[i] = yard.stack[i]
  BY ConvertOperator
<1>3. \A x \in EvalStacks : Evaluates(yard.out, x) =>
         \E y : Evaluates(Postfix(y1, h), y) /\ Means(x, y, l)
  BY DEF Converted
<1>4. Converted(y2, y3, tighter, r)
  OBVIOUS
<1> HIDE DEF y2
<1>5. /\ y3 \in Yards /\ ~y3.error /\ Len(y3.stack) >= h + 1
      /\ \A i \in 1 .. h + 1 : y3.stack[i] = y2.stack[i]
      /\ \A i \in (h + 1) + 1 .. Len(y3.stack) : Precedence(y3.stack[i]) >= tighter
      /\ \A x \in EvalStacks : Evaluates(y2.out, x) =>
            \E y : Evaluates(Postfix(y3, h + 1), y) /\ Means(x, y, r)
  BY <1>2, <1>4 DEF Converted
<1>6. Len(y3.stack) \in Nat
  BY <1>5, YardParts
<1>7. Precedence(op) = Binds(op) /\ Binds(op) \in 1 .. 2
  BY Precedences
<1>8. y3.stack[h + 1] = op /\ \A i \in 1 .. h : y3.stack[i] = yard.stack[i]
  <2>1. h + 1 \in 1 .. h + 1 /\ \A i \in 1 .. h : i \in 1 .. h + 1
    BY <1>1
  <2>2. QED
    BY <1>2, <1>5, <2>1
<1>9. \A i \in h + 1 .. Len(y3.stack) : Precedence(y3.stack[i]) >= Binds(op)
  <2>1. SUFFICES ASSUME NEW i \in h + 1 .. Len(y3.stack)
                 PROVE  Precedence(y3.stack[i]) >= Binds(op)
    OBVIOUS
  <2>2. CASE i = h + 1
    BY <1>7, <1>8, <2>2
  <2>3. CASE i # h + 1
    <3>1. i \in (h + 1) + 1 .. Len(y3.stack)
      BY <1>1, <1>6, <2>3
    <3>2. Precedence(y3.stack[i]) >= tighter
      BY <1>5, <3>1
    <3>3. Precedence(y3.stack[i]) \in {4, 2, 1, -1}
      BY Precedences
    <3>4. QED
      BY <1>7, <3>2, <3>3
  <2>4. QED
    BY <2>2, <2>3
<1>10. Postfix(y3, h) = Append(Postfix(y3, h + 1), op)
  <2>1. h + 1 <= Len(y3.stack)
    BY <1>1, <1>5, <1>6
  <2> HIDE DEF h
  <2>2. Postfix(y3, h) = Append(Postfix(y3, h + 1), y3.stack[h + 1])
    BY <1>1, <1>5, <2>1, PostfixMore
  <2>3. QED
    BY <1>8, <2>2
<1>11. ASSUME NEW x \in EvalStacks, Evaluates(yard.out, x)
       PROVE  \E y : Evaluates(Postfix(y3, h), y) /\ Means(x, y, m)
  <2>1. PICK y : Evaluates(Postfix(y1, h), y) /\ Means(x, y, l)
    BY <1>3, <1>11
  <2>2. y \in EvalStacks /\ Evaluates(y2.out, y)
    BY <1>2, <2>1 DEF Means
  <2>3. PICK z : Evaluates(Postfix(y3, h + 1), z) /\ Means(y, z, r)
    BY <1>5, <2>2
  <2>4. Postfix(y3, h + 1) \in Seq(Texts)
    <3> DEFINE g == h + 1
    <3>1. g \in 0 .. Len(y3.stack)
      BY <1>1, <1>5, <1>6
    <3> HIDE DEF g
    <3>2. Postfix(y3, g) \in Seq(Texts)
      BY <1>5, <3>1, PostfixText
    <3>3. QED
      BY <3>2 DEF g
  <2>5. Evaluates(Append(Postfix(y3, h + 1), op), EvalToken(z, op))
    BY <2>3, <2>4, EvaluatesOne
  <2>6. Means(x, EvalToken(z, op), m)
    BY <2>1, <2>3, MeansJoin
  <2> HIDE DEF m, h
  <2>7. QED
    BY <1>10, <2>5, <2>6
<1>12. Len(y3.stack) >= h
  BY <1>1, <1>5, <1>6
<1>13. Converted(yard, y3, Binds(op), m)
  <2> HIDE DEF m
  <2>1. QED
    BY <1>5, <1>8, <1>9, <1>11, <1>12 DEF Converted
<1>14. QED
  BY <1>13

-----------------------------------------------------------------------------
(* Every phrase of a clause is converted *)

TextsOf(tokens) == [i \in 1 .. Len(tokens) |-> tokens[i].text]

LEMMA ClauseTokens ==
    ASSUME PlainQuotes, NEW token \in Tokens
    PROVE  /\ token.text \in Texts
           /\ token.type = "literal" => IsString(token.text) /\ token.text # "where"
           /\ token.type = "relational" => token.text \in Relationals
<1>1. token \in AllTokens /\ token.text \in Texts
  BY DEF AllTokens, Texts
<1>2. token.type = "relational" => token.text \in Relationals
  BY <1>1, TokenFacts
<1>3. CASE \E w \in Words : token = Unquoted(w)
  <2>1. PICK w \in Words : token = Unquoted(w)
    BY <1>3
  <2>2. token.text = w /\ token.type = Classify(w)
    BY <2>1 DEF Unquoted
  <2>3. Classify(w) = "literal" => IsString(w) /\ w # "where"
    <3>1. CASE w \in Keywords
      BY <3>1 DEF Classify, Keywords
    <3>2. CASE w \notin Keywords
      BY <3>2 DEF Classify, Keywords, Logicals, Relationals, IsString
    <3>3. QED
      BY <3>1, <3>2
  <2>4. QED
    BY <1>1, <1>2, <2>2, <2>3
<1>4. CASE \E w \in QuotedWords : token = Quoted(w)
  <2>1. PICK w \in QuotedWords : token = Quoted(w)
    BY <1>4
  <2>2. token.text = w
    BY <2>1 DEF Quoted
  <2>3. QED
    BY <1>1, <1>2, <2>1, <2>2 DEF PlainQuotes
<1>5. QED
  BY <1>3, <1>4 DEF Tokens

LEMMA WordFacts ==
    ASSUME NEW token, NEW word \in Logicals \union {"(", ")"}, IsWord(token, word)
    PROVE  /\ token.text = word
           /\ word \in Logicals => token.type = "logical"
           /\ word \in {"(", ")"} => token.type = "paren"
BY DEF IsWord, Unquoted, Classify, Keywords, Logicals, Relationals

\* q gives the yard after each token of the clause.
Carries(q, p) ==
    Ready(q[p.first - 1], p.bound) => Converted(q[p.first - 1], q[p.last], p.bound, p.meaning)

LEMMA YardSteps ==
    ASSUME NEW infix \in Seq(Texts), NEW q, YardsOf(q, infix)
    PROVE  /\ q[0] = EmptyYard
           /\ \A k \in 1 .. Len(infix) : q[k] = Shunt(q[k - 1], infix[k])
           /\ \A k \in 0 .. Len(infix) : q[k] \in Yards
<1>1. Len(infix) \in Nat
  OBVIOUS
<1>2. \A k \in 0 .. Len(infix) : q[k] = IF k = 0 THEN EmptyYard ELSE Shunt(q[k - 1], infix[k])
  BY DEF YardsOf
<1>3. \A k \in 0 .. Len(infix) : q[k] \in Yards
  BY YardsKeep
<1>4. QED
  BY <1>1, <1>2, <1>3

LEMMA PhraseParts ==
    ASSUME NEW b, NEW f, NEW l, NEW m
    PROVE  /\ Phrase(b, f, l, m).bound = b /\ Phrase(b, f, l, m).first = f
           /\ Phrase(b, f, l, m).last = l /\ Phrase(b, f, l, m).meaning = m
BY DEF Phrase

LEMMA PhraseType ==
    ASSUME NEW tokens, NEW p \in AnyPhrase(tokens)
    PROVE  /\ p.bound \in 1 .. 3 /\ p.first \in 1 .. Len(tokens) /\ p.last \in 1 .. Len(tokens)
           /\ p.meaning \in AnyMeaning
BY DEF AnyPhrase

LEMMA ComparisonPhrase ==
    ASSUME NEW tokens \in Seq(Tokens), NEW i \in DOMAIN tokens, IsComparison(tokens, i)
    PROVE  Comparison(tokens, i) \in AnyPhrase(tokens)
<1> DEFINE m == IF tokens[i].text \in TableFields
                THEN Outcome("select", SelectHelp(tokens[i].text, tokens[i + 1].text,
                                                  tokens[i + 2].text), TRUE)
                ELSE Error
<1>1. Comparison(tokens, i) = Phrase(3, i, i + 2, m)
  BY DEF Comparison
<1>2. m \in AnyMeaning
  <2>1. SelectHelp(tokens[i].text, tokens[i + 1].text, tokens[i + 2].text) \in SUBSET Records
    BY DEF SelectHelp
  <2>2. QED
    BY <2>1, Meant
<1> HIDE DEF m
<1>3. i \in 1 .. Len(tokens) /\ i + 2 \in 1 .. Len(tokens)
  BY DEF IsComparison
<1>4. QED
  BY <1>1, <1>2, <1>3 DEF Phrase, AnyPhrase

LEMMA GroupPhrase ==
    ASSUME NEW tokens \in Seq(Tokens), NEW p \in AnyPhrase(tokens), IsGroup(tokens, p)
    PROVE  Group(p) \in AnyPhrase(tokens)
<1>1. p.first - 1 \in 1 .. Len(tokens) /\ p.last + 1 \in 1 .. Len(tokens) /\ p.meaning \in AnyMeaning
  BY PhraseType DEF IsGroup
<1>2. QED
  BY <1>1 DEF Group, Phrase, AnyPhrase

LEMMA JoinPhrase ==
    ASSUME NEW tokens \in Seq(Tokens), NEW op \in Logicals,
           NEW l \in AnyPhrase(tokens), NEW r \in AnyPhrase(tokens), IsJoin(tokens, op, l, r)
    PROVE  Join(op, l, r) \in AnyPhrase(tokens)
<1>1. /\ l.first \in 1 .. Len(tokens) /\ r.last \in 1 .. Len(tokens)
      /\ l.meaning \in AnyMeaning /\ r.meaning \in AnyMeaning
  BY PhraseType
<1>2. Combine(op, l.meaning, r.meaning) \in AnyMeaning
  <2> DEFINE a == l.meaning
  <2> DEFINE b == r.meaning
  <2>1. a \in AnyMeaning /\ b \in AnyMeaning
    BY <1>1
  <2> HIDE DEF a, b
  <2>2. Combine(op, a, b) \in AnyMeaning
    BY <2>1, Combined
  <2>3. QED
    BY <2>2 DEF a, b
<1>3. Binds(op) \in 1 .. 3
  BY DEF Binds
<1>4. QED
  BY <1>1, <1>2, <1>3 DEF Join, Phrase, AnyPhrase

LEMMA CarriesComparison ==
    ASSUME PlainQuotes, NEW tokens \in Seq(Tokens), NEW q, YardsOf(q, TextsOf(tokens)),
           NEW i \in DOMAIN tokens, IsComparison(tokens, i)
    PROVE  Carries(q, Comparison(tokens, i))
<1> DEFINE n == Len(tokens)
<1> DEFINE c == TextsOf(tokens)
<1> DEFINE m == IF tokens[i].text \in TableFields
                THEN Outcome("select", SelectHelp(tokens[i].text, tokens[i + 1].text,
                                                  tokens[i + 2].text), TRUE)
                ELSE Error
<1>1. /\ n \in Nat /\ i \in 1 .. n /\ i + 1 \in 1 .. n /\ i + 2 \in 1 .. n
      /\ tokens[i] \in Tokens /\ tokens[i + 1] \in Tokens /\ tokens[i + 2] \in Tokens
      /\ tokens[i].type = "literal" /\ tokens[i + 1].type = "relational"
      /\ tokens[i + 2].type = "literal"
  BY DEF IsComparison
<1> DEFINE field == tokens[i].text
<1> DEFINE op    == tokens[i + 1].text
<1> DEFINE value == tokens[i + 2].text
<1>2. field \in Texts /\ IsString(field)
  BY <1>1, ClauseTokens
<1>3. op \in Texts /\ op \in Relationals
  BY <1>1, ClauseTokens
<1>4. value \in Texts /\ IsString(value)
  BY <1>1, ClauseTokens
<1>5. /\ c \in Seq(Texts) /\ Len(c) = n
      /\ c[i] = field /\ c[i + 1] = op /\ c[i + 2] = value
  <2>1. \A k \in 1 .. n : tokens[k].text \in Texts
    BY ClauseTokens
  <2>2. QED
    BY <1>1, <2>1 DEF TextsOf
<1>6. Comparison(tokens, i) = Phrase(3, i, i + 2, m)
  BY DEF Comparison
<1>7. m = IF field \in TableFields THEN Outcome("select", SelectHelp(field, op, value), TRUE) ELSE Error
  OBVIOUS
<1> HIDE DEF c, field, op, value, m, n
<1>8. /\ \A k \in 1 .. n : q[k] = Shunt(q[k - 1], c[k])
      /\ \A k \in 0 .. n : q[k] \in Yards
  <2>1. YardsOf(q, c)
    BY DEF c
  <2>2. QED
    BY <1>5, <2>1, YardSteps
<1>9. q[i + 2] = Shunt(Shunt(Shunt(q[i - 1], field), op), value) /\ q[i - 1] \in Yards
  <2>1. (i + 1) - 1 = i /\ (i + 2) - 1 = i + 1 /\ i - 1 \in 0 .. n
    BY <1>1
  <2>2. q[i] = Shunt(q[i - 1], field) /\ q[i + 1] = Shunt(q[i], op) /\ q[i + 2] = Shunt(q[i + 1], value)
    BY <1>1, <1>5, <1>8, <2>1
  <2>3. QED
    BY <1>8, <2>1, <2>2
<1>10. ASSUME Ready(q[i - 1], 3) PROVE Converted(q[i - 1], q[i + 2], 3, m)
  <2> DEFINE y == q[i - 1]
  <2>1. y \in Yards /\ ~y.error
    BY <1>10 DEF Ready
  <2> HIDE DEF y
  <2>2. Converted(y, Shunt(Shunt(Shunt(y, field), op), value), 3, m)
    BY <1>2, <1>3, <1>4, <1>7, <2>1, ConvertComparison
  <2>3. QED
    BY <1>9, <2>2 DEF y
<1>11. /\ Comparison(tokens, i).bound = 3 /\ Comparison(tokens, i).first = i
       /\ Comparison(tokens, i).last = i + 2 /\ Comparison(tokens, i).meaning = m
  BY <1>6, PhraseParts
<1>12. QED
  BY <1>10, <1>11 DEF Carries

LEMMA CarriesGroup ==
    ASSUME PlainQuotes, NEW tokens \in Seq(Tokens), NEW q, YardsOf(q, TextsOf(tokens)),
           NEW p \in AnyPhrase(tokens), Carries(q, p), IsGroup(tokens, p)
    PROVE  Carries(q, Group(p))
<1> DEFINE n == Len(tokens)
<1> DEFINE c == TextsOf(tokens)
<1> DEFINE i == p.first - 1
<1> DEFINE j == p.last + 1
<1> DEFINE m == p.meaning
<1> DEFINE bound == p.bound
<1>1. /\ n \in Nat /\ i \in 1 .. n /\ j \in 1 .. n /\ p.first - 1 = i /\ p.last = j - 1
      /\ i - 1 \in 0 .. n
      /\ tokens[i] \in Tokens /\ tokens[j] \in Tokens
      /\ IsWord(tokens[i], "(") /\ IsWord(tokens[j], ")")
      /\ bound \in 1 .. 3
  BY PhraseType DEF IsGroup
<1>2. tokens[i].text = "(" /\ "(" \in Texts
  <2>1. tokens[i].text = "("
    BY <1>1, WordFacts
  <2>2. QED
    BY <1>1, <2>1, ClauseTokens
<1>3. tokens[j].text = ")" /\ ")" \in Texts
  <2>1. tokens[j].text = ")"
    BY <1>1, WordFacts
  <2>2. QED
    BY <1>1, <2>1, ClauseTokens
<1>4. c \in Seq(Texts) /\ Len(c) = n /\ c[i] = "(" /\ c[j] = ")"
  <2>1. \A k \in 1 .. n : tokens[k].text \in Texts
    BY ClauseTokens
  <2>2. QED
    BY <1>1, <1>2, <1>3, <2>1 DEF TextsOf
<1>5. Group(p) = Phrase(3, i, j, m)
  BY DEF Group
<1>6. Ready(q[i], bound) => Converted(q[i], q[j - 1], bound, m)
  BY <1>1 DEF Carries
<1> HIDE DEF c, i, j, m, n, bound
<1>7. /\ \A k \in 1 .. n : q[k] = Shunt(q[k - 1], c[k])
      /\ \A k \in 0 .. n : q[k] \in Yards
  <2>1. YardsOf(q, c)
    BY DEF c
  <2>2. QED
    BY <1>4, <2>1, YardSteps
<1>8. q[i] = Shunt(q[i - 1], "(") /\ q[j] = Shunt(q[j - 1], ")")
  BY <1>1, <1>4, <1>7
<1>9. ASSUME Ready(q[i - 1], 3) PROVE Converted(q[i - 1], q[j], 3, m)
  <2> DEFINE y == q[i - 1]
  <2> DEFINE y2 == q[j - 1]
  <2>1. y \in Yards /\ ~y.error
    BY <1>9 DEF Ready
  <2>2. q[i] = Shunt(y, "(") /\ q[j] = Shunt(y2, ")")
    BY <1>8
  <2> HIDE DEF y, y2
  <2>3. Ready(Shunt(y, "("), bound)
    BY <1>1, <1>2, <2>1, ReadyInside
  <2>4. Converted(Shunt(y, "("), y2, bound, m)
    BY <1>6, <2>2, <2>3 DEF y2
  <2>5. Converted(y, Shunt(y2, ")"), 3, m)
    BY <1>1, <1>2, <1>3, <2>1, <2>4, ConvertGroup
  <2>6. QED
    BY <2>2, <2>5 DEF y
<1>10. /\ Group(p).bound = 3 /\ Group(p).first = i
       /\ Group(p).last = j /\ Group(p).meaning = m
  BY <1>5, PhraseParts
<1>11. QED
  BY <1>9, <1>10 DEF Carries

LEMMA CarriesJoin ==
    ASSUME PlainQuotes, NEW tokens \in Seq(Tokens), NEW q, YardsOf(q, TextsOf(tokens)),
           NEW op \in Logicals, NEW l \in AnyPhrase(tokens), NEW r \in AnyPhrase(tokens),
           Carries(q, l), Carries(q, r), IsJoin(tokens, op, l, r)
    PROVE  Carries(q, Join(op, l, r))
<1> DEFINE n == Len(tokens)
<1> DEFINE c == TextsOf(tokens)
<1> DEFINE i == l.first
<1> DEFINE k == l.last + 1
<1> DEFINE j == r.last
<1> DEFINE bound == l.bound
<1> DEFINE tighter == r.bound
<1> DEFINE a == l.meaning
<1> DEFINE b == r.meaning
<1>1. /\ n \in Nat /\ i \in 1 .. n /\ k \in 1 .. n /\ j \in 1 .. n
      /\ l.last = k - 1 /\ r.first - 1 = k
      /\ tokens[k] \in Tokens /\ IsWord(tokens[k], op)
      /\ bound \in 1 .. 3 /\ tighter \in 1 .. 3 /\ a \in AnyMeaning /\ b \in AnyMeaning
      /\ bound >= Binds(op) /\ tighter > Binds(op)
  <2>1. /\ l.first \in 1 .. n /\ l.last \in 1 .. n /\ r.first \in 1 .. n /\ r.last \in 1 .. n
        /\ bound \in 1 .. 3 /\ tighter \in 1 .. 3 /\ a \in AnyMeaning /\ b \in AnyMeaning
    BY PhraseType
  <2>2. /\ r.first = l.last + 2 /\ IsWord(tokens[l.last + 1], op)
        /\ bound >= Binds(op) /\ tighter > Binds(op)
    BY DEF IsJoin
  <2>3. n \in Nat
    OBVIOUS
  <2>4. k \in 1 .. n /\ l.last = k - 1 /\ r.first - 1 = k
    <3> HIDE DEF n
    <3>1. QED
      BY <2>1, <2>2, <2>3
  <2>5. tokens[k] \in Tokens
    BY <2>4
  <2>6. QED
    BY <2>1, <2>2, <2>3, <2>4, <2>5
<1>2. tokens[k].text = op /\ op \in Texts
  <2>1. tokens[k].text = op
    BY <1>1, WordFacts
  <2>2. QED
    BY <1>1, <2>1, ClauseTokens
<1>3. c \in Seq(Texts) /\ Len(c) = n /\ c[k] = op
  <2>1. \A x \in 1 .. n : tokens[x].text \in Texts
    BY ClauseTokens
  <2>2. QED
    BY <1>1, <1>2, <2>1 DEF TextsOf
<1>4. Join(op, l, r) = Phrase(Binds(op), i, j, Combine(op, a, b))
  BY DEF Join
<1>5. /\ Ready(q[i - 1], bound) => Converted(q[i - 1], q[k - 1], bound, a)
      /\ Ready(q[k], tighter) => Converted(q[k], q[j], tighter, b)
  BY <1>1 DEF Carries
<1> HIDE DEF c, i, j, k, n, bound, tighter, a, b
<1>6. q[k] = Shunt(q[k - 1], op)
  <2>1. YardsOf(q, c)
    BY DEF c
  <2>2. q[k] = Shunt(q[k - 1], c[k])
    BY <1>1, <1>3, <2>1, YardSteps
  <2>3. QED
    BY <1>3, <2>2
<1>7. ASSUME Ready(q[i - 1], Binds(op))
      PROVE  Converted(q[i - 1], q[j], Binds(op), Combine(op, a, b))
  <2> DEFINE y == q[i - 1]
  <2> DEFINE y1 == q[k - 1]
  <2> DEFINE y3 == q[j]
  <2>1. Ready(y, Binds(op))
    BY <1>7
  <2>2. Ready(y, bound)
    <3>1. Binds(op) \in 1 .. 2 /\ \A text : Precedence(text) \in {4, 2, 1, -1}
      BY Precedences
    <3> HIDE DEF y
    <3>2. QED
      BY <1>1, <2>1, <3>1 DEF Ready
  <2>3. Converted(y, y1, bound, a)
    BY <1>5, <2>2
  <2>4. q[k] = Shunt(y1, op)
    BY <1>6
  <2>5. Ready(q[k], tighter) => Converted(q[k], y3, tighter, b)
    BY <1>5
  <2> HIDE DEF y, y1, y3
  <2>6. Ready(Shunt(y1, op), tighter)
    BY <1>1, <1>2, <2>1, <2>3, ReadyBehind
  <2>7. Converted(Shunt(y1, op), y3, tighter, b)
    BY <2>4, <2>5, <2>6
  <2>8. Converted(y, y3, Binds(op), Combine(op, a, b))
    BY <1>1, <1>2, <2>1, <2>3, <2>7, ConvertJoin
  <2>9. QED
    BY <2>8 DEF y, y3
<1>8. /\ Join(op, l, r).bound = Binds(op) /\ Join(op, l, r).first = i
      /\ Join(op, l, r).last = j /\ Join(op, l, r).meaning = Combine(op, a, b)
  BY <1>4, PhraseParts
<1>9. QED
  BY <1>7, <1>8 DEF Carries

\* Whatever part of the clause means something is evaluated to that.
LEMMA PhrasesCarried ==
    ASSUME PlainQuotes, NEW tokens \in Seq(Tokens), NEW q, YardsOf(q, TextsOf(tokens)),
           NEW p \in Phrases(tokens)
    PROVE  p \in AnyPhrase(tokens) /\ Carries(q, p)
<1> DEFINE T == {x \in AnyPhrase(tokens) : Carries(q, x)}
<1>1. \A i \in DOMAIN tokens : IsComparison(tokens, i) => Comparison(tokens, i) \in T
  BY ComparisonPhrase, CarriesComparison
<1>2. \A x \in T : IsGroup(tokens, x) => Group(x) \in T
  BY GroupPhrase, CarriesGroup
<1>3. \A op \in Logicals : \A l, r \in T : IsJoin(tokens, op, l, r) => Join(op, l, r) \in T
  BY JoinPhrase, CarriesJoin
<1> HIDE DEF T
<1>4. Phrases(tokens) \subseteq T
  BY <1>1, <1>2, <1>3, PhraseInduction
<1>5. QED
  BY <1>4 DEF T

-----------------------------------------------------------------------------
(* The answer to a clause that means something *)

\* The whole clause: the postfix is evaluated to what it means.
LEMMA ClauseConverted ==
    ASSUME PlainQuotes, NEW tokens \in Seq(Tokens), NEW m \in Meanings(tokens),
           NEW q, YardsOf(q, TextsOf(tokens)), NEW end, end = q[Len(tokens)]
    PROVE  /\ m \in AnyMeaning
           /\ end \in Yards /\ ~end.error /\ "(" \notin ToSet(end.stack)
           /\ end.out \o Reverse(end.stack) \in Seq(Texts)
           /\ \E y : Evaluates(end.out \o Reverse(end.stack), y) /\ Means(EmptyStacks, y, m)
<1> DEFINE n == Len(tokens)
<1>1. PICK p \in Phrases(tokens) : p.first = 1 /\ p.last = n /\ p.meaning = m
  BY DEF Meanings
<1>2. p \in AnyPhrase(tokens) /\ Carries(q, p)
  BY PhrasesCarried
<1>3. m \in AnyMeaning /\ p.bound \in 1 .. 3
  BY <1>1, <1>2, PhraseType
<1>4. q[0] = EmptyYard
  <2>1. TextsOf(tokens) \in Seq(Texts)
    <3>1. \A k \in 1 .. n : tokens[k].text \in Texts
      BY ClauseTokens
    <3>2. QED
      BY <3>1 DEF TextsOf
  <2> DEFINE c == TextsOf(tokens)
  <2>2. c \in Seq(Texts) /\ YardsOf(q, c)
    BY <2>1
  <2> HIDE DEF c
  <2>3. QED
    BY <2>2, YardSteps
<1>5. EmptyYard \in Yards /\ ~EmptyYard.error /\ EmptyYard.out = <<>> /\ Len(EmptyYard.stack) = 0
  BY DEF EmptyYard, Yards
<1>6. Ready(EmptyYard, p.bound)
  BY <1>5 DEF Ready
<1>7. Converted(EmptyYard, end, p.bound, m)
  BY <1>1, <1>2, <1>4, <1>6 DEF Carries
<1>8. /\ end \in Yards /\ ~end.error
      /\ \A i \in 0 + 1 .. Len(end.stack) : Precedence(end.stack[i]) >= p.bound
      /\ \A x \in EvalStacks : Evaluates(<<>>, x) =>
            \E y : Evaluates(Postfix(end, 0), y) /\ Means(x, y, m)
  BY <1>5, <1>7 DEF Converted
<1>9. "(" \notin ToSet(end.stack)
  <2>1. SUFFICES ASSUME NEW i \in DOMAIN end.stack, end.stack[i] = "(" PROVE FALSE
    BY DEF ToSet
  <2>2. i \in 0 + 1 .. Len(end.stack)
    BY <1>8, YardParts
  <2>3. QED
    BY <1>3, <1>8, <2>1, <2>2, Precedences
<1>10. Postfix(end, 0) = end.out \o Reverse(end.stack)
  <2> DEFINE stack == end.stack
  <2>1. stack \in Seq(Texts) /\ Len(stack) \in Nat
    BY <1>8, YardParts
  <2> HIDE DEF stack
  <2>2. SubSeq(stack, Len(stack) - (Len(stack) - 0) + 1, Len(stack)) = stack
    BY <2>1
  <2>3. QED
    BY <2>2 DEF Postfix, Top, stack
<1>11. Postfix(end, 0) \in Seq(Texts)
  <2>1. 0 \in 0 .. Len(end.stack)
    BY <1>8, YardParts
  <2>2. QED
    BY <1>8, <2>1, PostfixText
<1>12. EmptyStacks \in EvalStacks
  BY DEF EmptyStacks, EvalStacks
<1>13. \E y : Evaluates(Postfix(end, 0), y) /\ Means(EmptyStacks, y, m)
  BY <1>8, <1>12, EvaluatesNothing
<1>14. QED
  BY <1>3, <1>8, <1>9, <1>10, <1>11, <1>13

LEMMA EvalMeans ==
    ASSUME NEW postfix \in Seq(Texts), NEW m \in AnyMeaning,
           NEW y, Evaluates(postfix, y), Means(EmptyStacks, y, m)
    PROVE  /\ postfix # <<>>
           /\ Eval(postfix).error <=> m = Error
           /\ m # Error => m = Outcome("select", Eval(postfix).records, TRUE)
<1> DEFINE P(stacks) == stacks = [k \in 0 .. Len(postfix) |->
                                    IF k = 0 THEN [strings |-> <<>>, sets |-> <<>>, error |-> FALSE]
                                    ELSE EvalToken(stacks[k - 1], postfix[k])]
<1> DEFINE q == CHOOSE stacks : P(stacks)
<1> DEFINE end == q[Len(postfix)]
<1>1. /\ Eval(postfix).records = UNION ToSet(end.sets)
      /\ Eval(postfix).error <=> end.error \/ end.strings # <<>> \/ Len(end.sets) # 1
  BY DEF Eval
<1>2. P(q)
  <2>1. \E g : P(g)
    BY StacksExist DEF StacksOf, EmptyStacks
  <2>2. QED
    BY <2>1
<1>3. StacksOf(q, postfix)
  BY <1>2 DEF StacksOf, EmptyStacks
<1> HIDE DEF P, q
<1>4. end = y
  BY <1>3, EvaluatesOnce
<1> HIDE DEF end
<1>5. /\ EmptyStacks.strings = <<>> /\ EmptyStacks.sets = <<>> /\ ~EmptyStacks.error
  BY DEF EmptyStacks
<1>6. postfix # <<>>
  <2>1. SUFFICES ASSUME postfix = <<>> PROVE FALSE
    OBVIOUS
  <2>2. y = EmptyStacks
    <3>1. PICK s : StacksOf(s, <<>>) /\ y = s[Len(<<>>)]
      BY <2>1 DEF Evaluates
    <3>2. QED
      BY <3>1 DEF StacksOf
  <2>3. CASE m = Error
    BY <1>5, <2>2, <2>3 DEF Means
  <2>4. CASE m # Error
    <3>1. y.sets = Append(<<>>, m.records)
      BY <1>5, <2>4 DEF Means, Pushed
    <3>2. Append(<<>>, m.records) # <<>>
      OBVIOUS
    <3>3. QED
      BY <1>5, <2>2, <3>1, <3>2
  <2>5. QED
    BY <2>3, <2>4
<1>7. CASE m = Error
  BY <1>1, <1>4, <1>6, <1>7 DEF Means
<1>8. CASE m # Error
  <2> DEFINE found == m.records
  <2>1. y = Pushed(EmptyStacks, found)
    BY <1>5, <1>8 DEF Means
  <2>2. m = Outcome("select", found, TRUE)
    BY <1>8, Meant
  <2> HIDE DEF found
  <2>3. y.strings = <<>> /\ y.sets = <<found>> /\ ~y.error
    <3>1. y.strings = <<>> /\ y.sets = Append(<<>>, found) /\ y.error = EmptyStacks.error
      BY <1>5, <2>1 DEF Pushed
    <3>2. QED
      BY <1>5, <3>1
  <2>4. Len(<<found>>) = 1 /\ UNION ToSet(<<found>>) = found
    BY DEF ToSet
  <2>5. QED
    BY <1>1, <1>4, <1>6, <1>8, <2>2, <2>3, <2>4
<1>9. QED
  BY <1>7, <1>8

LEMMA ClauseAnswered ==
    ASSUME PlainQuotes, NEW tokens \in Seq(Tokens), NEW m \in Meanings(tokens)
    PROVE  SelectWhere(TextsOf(tokens)) = m
<1> DEFINE c == TextsOf(tokens)
<1> DEFINE P(yard) == yard = [k \in 0 .. Len(c) |->
                                IF k = 0 THEN [out |-> <<>>, stack |-> <<>>, error |-> FALSE]
                                ELSE Shunt(yard[k - 1], c[k])]
<1> DEFINE q == CHOOSE yard : P(yard)
<1> DEFINE end == q[Len(c)]
<1>1. c \in Seq(Texts) /\ Len(c) = Len(tokens)
  <2>1. \A k \in 1 .. Len(tokens) : tokens[k].text \in Texts
    BY ClauseTokens
  <2>2. QED
    BY <2>1 DEF TextsOf
<1> HIDE DEF c
<1>2. /\ ShuntingYard(c).postfix = end.out \o Reverse(end.stack)
      /\ ShuntingYard(c).error <=> end.error \/ "(" \in ToSet(end.stack)
  BY DEF ShuntingYard
<1>3. P(q)
  <2>1. \E g : P(g)
    BY <1>1, YardsExist DEF YardsOf, EmptyYard
  <2>2. QED
    BY <2>1
<1>4. YardsOf(q, c)
  BY <1>3 DEF YardsOf, EmptyYard
<1> HIDE DEF P, q
<1> DEFINE postfix == end.out \o Reverse(end.stack)
<1>5. /\ m \in AnyMeaning
      /\ end \in Yards /\ ~end.error /\ "(" \notin ToSet(end.stack)
      /\ postfix \in Seq(Texts)
      /\ \E y : Evaluates(postfix, y) /\ Means(EmptyStacks, y, m)
  <2>1. YardsOf(q, TextsOf(tokens)) /\ end = q[Len(tokens)]
    BY <1>1, <1>4 DEF c
  <2> HIDE DEF end
  <2>2. QED
    BY <2>1, ClauseConverted
<1>6. ShuntingYard(c).postfix = postfix /\ ~ShuntingYard(c).error
  BY <1>2, <1>5
<1> HIDE DEF end, postfix
<1>7. PICK y : Evaluates(postfix, y) /\ Means(EmptyStacks, y, m)
  BY <1>5
<1>8. /\ postfix # <<>>
      /\ Eval(postfix).error <=> m = Error
      /\ m # Error => m = Outcome("select", Eval(postfix).records, TRUE)
  BY <1>5, <1>7, EvalMeans
<1>9. SelectWhere(c) = IF Eval(postfix).error THEN Error
                       ELSE Outcome("select", Eval(postfix).records, TRUE)
  BY <1>6, <1>8 DEF SelectWhere
<1>10. QED
  BY <1>8, <1>9 DEF c

-----------------------------------------------------------------------------
(* The recogniser reads every phrase *)

\* The tree of a line that may be in its WHERE clause, and the one it begins
\* the clause with.
InClause(tree) == tree \in Trees /\ tree.command = "select" /\ tree.state \in 19 .. 24

BeginsClause(tree) ==
    /\ InClause(tree) /\ tree.state = 19
    /\ tree.tableName = <<TableName>> /\ tree.fields = <<"*">> /\ tree.where
    /\ tree.condition = <<>>

\* t gives the tree after each token of the clause.
ClauseTrees(t, tokens) ==
    /\ BeginsClause(t[0])
    /\ \A k \in 1 .. Len(tokens) : t[k] = ParseToken(t[k - 1], tokens[k])

LEMMA CellIs ==
    ASSUME NEW s \in 0 .. 24, NEW type, NEW n, <<s, type, n>> \in Marked
    PROVE  Cell(s, type) = n
<1> DEFINE cells == {cell \in Marked : cell[1] = s /\ cell[2] = type}
<1>1. <<s, type, n>> \in cells
  OBVIOUS
<1>2. Cell(s, type) = (CHOOSE cell \in cells : TRUE)[3]
  BY <1>1 DEF Cell
<1>3. PICK cell \in cells : cell = CHOOSE cell0 \in cells : TRUE
  BY <1>1
<1>4. cell = <<cell[1], cell[2], cell[3]>>
  BY DEF Marked
<1>5. <<s, type, cell[3]>> \in Marked
  BY <1>4
<1>6. ASSUME NEW k, <<s, type, k>> \in Marked PROVE k = n
  BY <1>6, SMTT(30) DEF Marked
<1>7. QED
  BY <1>2, <1>3, <1>5, <1>6

\* A marked cell of the table.
Leads(s, type, n) == <<s, type, n>> \in Marked

\* One token of the clause, along a marked cell.
LEMMA ClauseStep ==
    ASSUME NEW tree, InClause(tree), NEW token \in Tokens,
           NEW n \in 19 .. 24, Leads(tree.state, token.type, n)
    PROVE  LET next == ParseToken(tree, token)
           IN  /\ InClause(next) /\ next.state = n
               /\ next.tableName = tree.tableName /\ next.fields = tree.fields
               /\ tree.where => next.where
               /\ token.text # "where" => next.condition = Append(tree.condition, token.text)
<1>1. tree \in Trees /\ tree.state \in 0 .. 24 /\ tree.command = "select" /\ token \in AllTokens
  BY DEF InClause, AllTokens
<1>2. Cell(tree.state, token.type) = n
  <2> DEFINE s == tree.state
  <2>1. s \in 0 .. 24 /\ <<s, token.type, n>> \in Marked
    BY <1>1 DEF Leads
  <2> HIDE DEF s
  <2>2. Cell(s, token.type) = n
    BY <2>1, CellIs
  <2>3. QED
    BY <2>2 DEF s
<1>3. n # Rejected /\ n \notin {3, 9, 18} /\ n \notin {5, 14, 16} /\ n \in 0 .. 24
  BY NotRejected
<1>4. TreeStepped(tree, token)
  BY <1>1, <1>2, <1>3, NextTokenFacts
<1>5. ParseToken(tree, token) = NextToken(tree, token)
  BY <1>1 DEF ParseToken
<1> DEFINE next == NextToken(tree, token)
<1>6. /\ next \in Trees /\ next.state = n /\ next.command = tree.command
      /\ next.tableName = tree.tableName /\ next.fields = tree.fields
      /\ tree.where => next.where
      /\ token.text # "where" => next.condition = Append(tree.condition, token.text)
  <2>1. /\ next \in Trees /\ next.state = Cell(tree.state, token.type) /\ next.command = tree.command
        /\ next.where = (tree.where \/ next.state = 19)
    BY <1>4 DEF TreeStepped
  <2>2. /\ next.tableName = IF next.state \in {3, 9, 18}
                            THEN Append(tree.tableName, token.text) ELSE tree.tableName
        /\ next.fields = IF next.state \in {5, 14, 16}
                         THEN Append(tree.fields, token.text) ELSE tree.fields
        /\ next.condition = IF next.state \in 19 .. 24 /\ token.text # "where"
                            THEN Append(tree.condition, token.text) ELSE tree.condition
    BY <1>4 DEF TreeStepped
  <2> HIDE DEF next
  <2>3. QED
    BY <1>2, <1>3, <2>1, <2>2
<1> HIDE DEF next
<1>7. QED
  BY <1>1, <1>5, <1>6 DEF InClause, next

\* The trees stay in the clause from i to j, over tokens that it keeps.
Stays(t, tokens, i, j) ==
    /\ \A k \in i .. j : InClause(t[k])
    /\ \A k \in i + 1 .. j : /\ Leads(t[k - 1].state, tokens[k].type, t[k].state)
                             /\ tokens[k].text # "where"

LEMMA StaysThrough ==
    ASSUME NEW t, NEW tokens, NEW i \in Int, NEW j \in Int, NEW k \in Int, i <= j, j <= k,
           Stays(t, tokens, i, j), Stays(t, tokens, j, k)
    PROVE  Stays(t, tokens, i, k)
<1>1. \A x \in i .. k : x \in i .. j \/ x \in j .. k
  OBVIOUS
<1>2. \A x \in i + 1 .. k : x \in i + 1 .. j \/ x \in j + 1 .. k
  OBVIOUS
<1>3. QED
  BY <1>1, <1>2 DEF Stays

LEMMA StaysEnds ==
    ASSUME NEW t, NEW tokens, NEW i \in Int, NEW j \in Int, i <= j, Stays(t, tokens, i, j)
    PROVE  InClause(t[i]) /\ InClause(t[j])
<1>1. i \in i .. j /\ j \in i .. j
  OBVIOUS
<1>2. QED
  BY <1>1 DEF Stays

\* A marked step from i - 1 to i.
LEMMA StaysOne ==
    ASSUME NEW tokens \in Seq(Tokens), NEW t, ClauseTrees(t, tokens),
           NEW i \in 1 .. Len(tokens), InClause(t[i - 1]), NEW n \in 19 .. 24,
           Leads(t[i - 1].state, tokens[i].type, n), tokens[i].text # "where"
    PROVE  Stays(t, tokens, i - 1, i) /\ t[i].state = n
<1> DEFINE tree == t[i - 1]
<1> DEFINE token == tokens[i]
<1>1. t[i] = ParseToken(tree, token) /\ token \in Tokens
  BY DEF ClauseTrees
<1>2. InClause(tree) /\ Leads(tree.state, token.type, n)
  OBVIOUS
<1> HIDE DEF tree, token
<1>3. InClause(t[i]) /\ t[i].state = n
  <2>1. token \in Tokens
    BY <1>1
  <2>2. InClause(ParseToken(tree, token)) /\ ParseToken(tree, token).state = n
    BY <1>2, <2>1, ClauseStep
  <2>3. QED
    BY <1>1, <2>2
<1>4. i \in Int /\ \A k \in i - 1 .. i : k = i - 1 \/ k = i
  OBVIOUS
<1>5. \A k \in (i - 1) + 1 .. i : k = i
  OBVIOUS
<1>6. QED
  BY <1>3, <1>4, <1>5 DEF Stays

\* A phrase is read from a state where one may begin to one where it may end.
Reads(t, tokens, p) ==
    /\ p.first <= p.last
    /\ InClause(t[p.first - 1]) /\ t[p.first - 1].state \in {19, 20} =>
          Stays(t, tokens, p.first - 1, p.last) /\ t[p.last].state \in {23, 24}

LEMMA ClauseCells ==
    /\ Leads(19, "literal", 21) /\ Leads(19, "paren", 20)
    /\ Leads(20, "literal", 21) /\ Leads(20, "paren", 20)
    /\ Leads(21, "relational", 22) /\ Leads(22, "literal", 23)
    /\ Leads(23, "logical", 19) /\ Leads(23, "paren", 24)
    /\ Leads(24, "logical", 19) /\ Leads(24, "paren", 24)
BY DEF Leads, Marked

\* Words that the parse tree keeps.
LEMMA WordKept ==
    ASSUME NEW token, NEW word \in Logicals \union {"(", ")"}, IsWord(token, word)
    PROVE  token.text # "where"
<1>1. token.text = word
  BY WordFacts
<1>2. QED
  BY <1>1 DEF Logicals

LEMMA ReadsComparison ==
    ASSUME PlainQuotes, NEW tokens \in Seq(Tokens), NEW t, ClauseTrees(t, tokens),
           NEW i \in DOMAIN tokens, IsComparison(tokens, i)
    PROVE  Reads(t, tokens, Comparison(tokens, i))
<1>1. /\ i \in 1 .. Len(tokens) /\ i + 1 \in 1 .. Len(tokens) /\ i + 2 \in 1 .. Len(tokens)
      /\ (i + 1) - 1 = i /\ (i + 2) - 1 = i + 1 /\ i \in Int
      /\ tokens[i].type = "literal" /\ tokens[i + 1].type = "relational"
      /\ tokens[i + 2].type = "literal"
  BY DEF IsComparison
<1>2. /\ tokens[i].text # "where" /\ tokens[i + 1].text # "where" /\ tokens[i + 2].text # "where"
  <2>1. "where" \notin Relationals
    BY DEF Relationals
  <2>2. tokens[i] \in Tokens /\ tokens[i + 1] \in Tokens /\ tokens[i + 2] \in Tokens
    BY <1>1
  <2>3. QED
    BY <1>1, <2>1, <2>2, ClauseTokens
<1> DEFINE a == i - 1
<1> DEFINE b == i + 1
<1> DEFINE c == i + 2
<1>3. /\ a \in Int /\ b \in Int /\ c \in Int /\ i \in Int /\ a <= i /\ i <= b /\ a <= b /\ b <= c
      /\ i - 1 = a /\ b - 1 = i /\ c - 1 = b
      /\ i \in 1 .. Len(tokens) /\ b \in 1 .. Len(tokens) /\ c \in 1 .. Len(tokens)
      /\ tokens[i].type = "literal" /\ tokens[b].type = "relational" /\ tokens[c].type = "literal"
      /\ tokens[i].text # "where" /\ tokens[b].text # "where" /\ tokens[c].text # "where"
  BY <1>1, <1>2
<1> HIDE DEF a, b, c
<1>4. ASSUME InClause(t[a]), t[a].state \in {19, 20}
      PROVE  Stays(t, tokens, a, c) /\ t[c].state \in {23, 24}
  <2>1. 21 \in 19 .. 24 /\ 22 \in 19 .. 24 /\ 23 \in 19 .. 24
    OBVIOUS
  <2>2. Stays(t, tokens, a, i) /\ t[i].state = 21
    <3>1. Leads(t[i - 1].state, tokens[i].type, 21) /\ InClause(t[i - 1])
      BY <1>3, <1>4, ClauseCells
    <3>2. Stays(t, tokens, i - 1, i) /\ t[i].state = 21
      BY <1>3, <2>1, <3>1, StaysOne
    <3>3. QED
      BY <1>3, <3>2
  <2>3. Stays(t, tokens, i, b) /\ t[b].state = 22
    <3>1. InClause(t[i])
      BY <1>3, <2>2, StaysEnds
    <3>2. Leads(t[b - 1].state, tokens[b].type, 22) /\ InClause(t[b - 1])
      BY <1>3, <2>2, <3>1, ClauseCells
    <3>3. Stays(t, tokens, b - 1, b) /\ t[b].state = 22
      BY <1>3, <2>1, <3>2, StaysOne
    <3>4. QED
      BY <1>3, <3>3
  <2>4. Stays(t, tokens, b, c) /\ t[c].state = 23
    <3>1. InClause(t[b])
      BY <1>3, <2>3, StaysEnds
    <3>2. Leads(t[c - 1].state, tokens[c].type, 23) /\ InClause(t[c - 1])
      BY <1>3, <2>3, <3>1, ClauseCells
    <3>3. Stays(t, tokens, c - 1, c) /\ t[c].state = 23
      BY <1>3, <2>1, <3>2, StaysOne
    <3>4. QED
      BY <1>3, <3>3
  <2>5. Stays(t, tokens, a, b)
    BY <1>3, <2>2, <2>3, StaysThrough
  <2>6. Stays(t, tokens, a, c)
    BY <1>3, <2>4, <2>5, StaysThrough
  <2>7. QED
    BY <2>4, <2>6
<1>5. Comparison(tokens, i).first = i /\ Comparison(tokens, i).last = i + 2
  BY DEF Comparison, Phrase
<1>6. i <= i + 2
  BY <1>1
<1>7. QED
  BY <1>4, <1>5, <1>6 DEF Reads, a, c

LEMMA ReadsGroup ==
    ASSUME PlainQuotes, NEW tokens \in Seq(Tokens), NEW t, ClauseTrees(t, tokens),
           NEW p \in AnyPhrase(tokens), Reads(t, tokens, p), IsGroup(tokens, p)
    PROVE  Reads(t, tokens, Group(p))
<1> DEFINE i == p.first - 1
<1> DEFINE j == p.last
<1> DEFINE k == p.last + 1
<1>1. /\ i \in 1 .. Len(tokens) /\ k \in 1 .. Len(tokens) /\ p.first - 1 = i /\ k - 1 = j
      /\ i \in Int /\ j \in Int /\ k \in Int /\ i <= j /\ j <= k
      /\ IsWord(tokens[i], "(") /\ IsWord(tokens[k], ")")
  BY PhraseType DEF IsGroup, Reads
<1>2. /\ tokens[i].type = "paren" /\ tokens[k].type = "paren"
      /\ tokens[i].text # "where" /\ tokens[k].text # "where"
  BY <1>1, WordFacts, WordKept
<1>3. Group(p).first = i /\ Group(p).last = k
  BY PhraseParts DEF Group
<1>4. InClause(t[i]) /\ t[i].state \in {19, 20} => Stays(t, tokens, i, j) /\ t[j].state \in {23, 24}
  BY <1>1 DEF Reads
<1> DEFINE a == i - 1
<1>5. a \in Int /\ a <= i /\ a <= j /\ i - 1 = a /\ i <= k
  BY <1>1
<1> HIDE DEF i, j, k, a
<1>6. ASSUME InClause(t[a]), t[a].state \in {19, 20}
      PROVE  Stays(t, tokens, a, k) /\ t[k].state \in {23, 24}
  <2>1. 20 \in 19 .. 24 /\ 24 \in 19 .. 24
    OBVIOUS
  <2>2. Stays(t, tokens, a, i) /\ t[i].state = 20
    <3>1. Leads(t[i - 1].state, tokens[i].type, 20) /\ InClause(t[i - 1])
      BY <1>2, <1>5, <1>6, ClauseCells
    <3>2. Stays(t, tokens, i - 1, i) /\ t[i].state = 20
      BY <1>1, <1>2, <2>1, <3>1, StaysOne
    <3>3. QED
      BY <1>5, <3>2
  <2>3. InClause(t[i])
    BY <1>1, <1>5, <2>2, StaysEnds
  <2>4. Stays(t, tokens, i, j) /\ t[j].state \in {23, 24}
    BY <1>4, <2>2, <2>3
  <2>5. Stays(t, tokens, j, k) /\ t[k].state = 24
    <3>1. InClause(t[j])
      BY <1>1, <2>4, StaysEnds
    <3>2. Leads(t[k - 1].state, tokens[k].type, 24) /\ InClause(t[k - 1])
      BY <1>1, <1>2, <2>4, <3>1, ClauseCells
    <3>3. Stays(t, tokens, k - 1, k) /\ t[k].state = 24
      BY <1>1, <1>2, <2>1, <3>2, StaysOne
    <3>4. QED
      BY <1>1, <3>3
  <2>6. Stays(t, tokens, a, j)
    BY <1>1, <1>5, <2>2, <2>4, StaysThrough
  <2>7. Stays(t, tokens, a, k)
    BY <1>1, <1>5, <2>5, <2>6, StaysThrough
  <2>8. QED
    BY <2>5, <2>7
<1>7. QED
  BY <1>3, <1>5, <1>6 DEF Reads, a

LEMMA ReadsJoin ==
    ASSUME PlainQuotes, NEW tokens \in Seq(Tokens), NEW t, ClauseTrees(t, tokens),
           NEW op \in Logicals, NEW l \in AnyPhrase(tokens), NEW r \in AnyPhrase(tokens),
           Reads(t, tokens, l), Reads(t, tokens, r), IsJoin(tokens, op, l, r)
    PROVE  Reads(t, tokens, Join(op, l, r))
<1> DEFINE i == l.first - 1
<1> DEFINE j == l.last
<1> DEFINE k == l.last + 1
<1> DEFINE h == r.last
<1>1. /\ k \in 1 .. Len(tokens) /\ r.first - 1 = k /\ k - 1 = j /\ j <= k
      /\ i \in Int /\ j \in Int /\ k \in Int /\ h \in Int
      /\ i <= j /\ k <= h /\ i <= k /\ l.first <= r.last
      /\ IsWord(tokens[k], op)
  <2>1. l.first \in 1 .. Len(tokens) /\ l.last \in 1 .. Len(tokens) /\ r.first \in 1 .. Len(tokens)
        /\ r.last \in 1 .. Len(tokens)
    BY PhraseType
  <2>2. r.first = l.last + 2 /\ IsWord(tokens[l.last + 1], op)
    BY DEF IsJoin
  <2>3. l.first <= l.last /\ r.first <= r.last
    BY DEF Reads
  <2>4. IsWord(tokens[k], op)
    BY <2>2
  <2> DEFINE n == Len(tokens)
  <2>5. n \in Nat
    OBVIOUS
  <2> DEFINE a == l.first
  <2> DEFINE b == l.last
  <2> DEFINE c == r.first
  <2> DEFINE d == r.last
  <2>6. /\ a \in 1 .. n /\ b \in 1 .. n /\ c \in 1 .. n /\ d \in 1 .. n
        /\ c = b + 2 /\ a <= b /\ c <= d
    BY <2>1, <2>2, <2>3
  <2> HIDE DEF a, b, c, d, n
  <2>7. /\ b + 1 \in 1 .. n /\ c - 1 = b + 1 /\ b + 1 - 1 = b /\ b <= b + 1
        /\ a - 1 \in Int /\ b \in Int /\ b + 1 \in Int /\ d \in Int
        /\ a - 1 <= b /\ b + 1 <= d /\ a - 1 <= b + 1 /\ a <= d
    BY <2>5, <2>6
  <2>8. QED
    BY <2>4, <2>7 DEF a, b, c, d, n
<1>2. tokens[k].type = "logical" /\ tokens[k].text # "where"
  BY <1>1, WordFacts, WordKept
<1>3. Join(op, l, r).first = l.first /\ Join(op, l, r).last = h
  BY PhraseParts DEF Join
<1>4. /\ InClause(t[i]) /\ t[i].state \in {19, 20} => Stays(t, tokens, i, j) /\ t[j].state \in {23, 24}
      /\ InClause(t[k]) /\ t[k].state \in {19, 20} => Stays(t, tokens, k, h) /\ t[h].state \in {23, 24}
  BY <1>1 DEF Reads
<1> HIDE DEF i, j, k, h
<1>5. ASSUME InClause(t[i]), t[i].state \in {19, 20}
      PROVE  Stays(t, tokens, i, h) /\ t[h].state \in {23, 24}
  <2>1. Stays(t, tokens, i, j) /\ t[j].state \in {23, 24}
    BY <1>4, <1>5
  <2>2. InClause(t[j]) /\ 19 \in 19 .. 24
    BY <1>1, <2>1, StaysEnds
  <2>3. Stays(t, tokens, j, k) /\ t[k].state = 19
    <3>1. Leads(t[k - 1].state, tokens[k].type, 19) /\ InClause(t[k - 1])
      BY <1>1, <1>2, <2>1, <2>2, ClauseCells
    <3>2. Stays(t, tokens, k - 1, k) /\ t[k].state = 19
      BY <1>1, <1>2, <2>2, <3>1, StaysOne
    <3>3. QED
      BY <1>1, <3>2
  <2>4. InClause(t[k])
    BY <1>1, <2>3, StaysEnds
  <2>5. Stays(t, tokens, k, h) /\ t[h].state \in {23, 24}
    BY <1>4, <2>3, <2>4
  <2>6. Stays(t, tokens, i, k)
    BY <1>1, <2>1, <2>3, StaysThrough
  <2>7. Stays(t, tokens, i, h)
    BY <1>1, <2>5, <2>6, StaysThrough
  <2>8. QED
    BY <2>5, <2>7
<1> DEFINE p == Join(op, l, r)
<1>6. p.first <= p.last /\ p.first - 1 = i /\ p.last = h
  BY <1>1, <1>3 DEF i, h
<1> HIDE DEF p
<1>7. Reads(t, tokens, p)
  BY <1>5, <1>6 DEF Reads
<1>8. QED
  BY <1>7 DEF p

\* The tree after the clause.
LEMMA ClauseRead ==
    ASSUME PlainQuotes, NEW tokens \in Seq(Tokens), NEW t, ClauseTrees(t, tokens),
           Meanings(tokens) # {}
    PROVE  Stays(t, tokens, 0, Len(tokens)) /\ t[Len(tokens)].state \in {23, 24}
<1> DEFINE T == {x \in AnyPhrase(tokens) : Reads(t, tokens, x)}
<1>1. PICK p \in Phrases(tokens) : p.first = 1 /\ p.last = Len(tokens)
  BY DEF Meanings
<1>2. \A i \in DOMAIN tokens : IsComparison(tokens, i) => Comparison(tokens, i) \in T
  BY ComparisonPhrase, ReadsComparison
<1>3. \A x \in T : IsGroup(tokens, x) => Group(x) \in T
  BY GroupPhrase, ReadsGroup
<1>4. \A op \in Logicals : \A l, r \in T : IsJoin(tokens, op, l, r) => Join(op, l, r) \in T
  BY JoinPhrase, ReadsJoin
<1> HIDE DEF T
<1>5. Phrases(tokens) \subseteq T
  BY <1>2, <1>3, <1>4, PhraseInduction
<1>6. Reads(t, tokens, p)
  BY <1>5 DEF T
<1>7. InClause(t[0]) /\ t[0].state = 19
  BY DEF ClauseTrees, BeginsClause
<1>8. QED
  BY <1>1, <1>6, <1>7 DEF Reads

\* The condition of a tree holds the first k texts of the clause.
Kept(tree, tokens, k) ==
    /\ tree.tableName = <<TableName>> /\ tree.fields = <<"*">> /\ tree.where
    /\ Len(tree.condition) = k
    /\ \A i \in 1 .. k : tree.condition[i] = tokens[i].text

\* What the tree holds by the end of the clause.
LEMMA ClauseKept ==
    ASSUME NEW tokens \in Seq(Tokens), NEW t, ClauseTrees(t, tokens),
           Stays(t, tokens, 0, Len(tokens)), NEW end, end = t[Len(tokens)]
    PROVE  /\ InClause(end)
           /\ end.tableName = <<TableName>> /\ end.fields = <<"*">> /\ end.where
           /\ end.condition = TextsOf(tokens)
<1> DEFINE n == Len(tokens)
<1>1. /\ n \in Nat /\ \A k \in 0 .. n : InClause(t[k])
      /\ \A k \in 1 .. n : Leads(t[k - 1].state, tokens[k].type, t[k].state)
                           /\ tokens[k].text # "where" /\ tokens[k] \in Tokens
                           /\ t[k] = ParseToken(t[k - 1], tokens[k])
  BY DEF Stays, ClauseTrees
<1> HIDE DEF n
<1> DEFINE Good == {k \in Nat : k <= n => Kept(t[k], tokens, k)}
<1>2. 0 \in Good
  <2>1. Kept(t[0], tokens, 0)
    BY DEF Kept, ClauseTrees, BeginsClause
  <2>2. QED
    BY <2>1
<1>3. ASSUME NEW k \in Good PROVE k + 1 \in Good
  <2>1. CASE k + 1 <= n
    <3> DEFINE tree == t[k]
    <3> DEFINE token == tokens[k + 1]
    <3> DEFINE next == t[k + 1]
    <3> DEFINE s == next.state
    <3>1. k \in Nat /\ k + 1 \in 1 .. n /\ k \in 0 .. n /\ k + 1 \in 0 .. n /\ (k + 1) - 1 = k
          /\ Kept(tree, tokens, k)
      BY <1>1, <2>1
    <3>2. /\ InClause(tree) /\ InClause(next) /\ Leads(tree.state, token.type, s)
          /\ token.text # "where" /\ token \in Tokens /\ next = ParseToken(tree, token)
      BY <1>1, <3>1
    <3>3. s \in 19 .. 24
      BY <3>2 DEF InClause
    <3> HIDE DEF tree, token, next, s
    <3>4. LET x == ParseToken(tree, token)
          IN  /\ x.tableName = tree.tableName /\ x.fields = tree.fields
              /\ tree.where => x.where
              /\ x.condition = Append(tree.condition, token.text)
      BY <3>2, <3>3, ClauseStep
    <3>5. /\ next.tableName = tree.tableName /\ next.fields = tree.fields
          /\ tree.where => next.where
          /\ next.condition = Append(tree.condition, token.text)
      BY <3>2, <3>4
    <3>6. tree.condition \in Seq(Texts)
      BY <3>2 DEF InClause, Trees
    <3>7. /\ Len(tree.condition) = k /\ \A i \in 1 .. k : tree.condition[i] = tokens[i].text
      BY <3>1 DEF Kept
    <3>8. /\ Len(next.condition) = k + 1 /\ next.condition[k + 1] = token.text
          /\ \A i \in 1 .. k : next.condition[i] = tree.condition[i]
      BY <3>1, <3>5, <3>6, <3>7
    <3>9. \A i \in 1 .. k + 1 : i = k + 1 \/ i \in 1 .. k
      BY <3>1
    <3>10. \A i \in 1 .. k + 1 : next.condition[i] = tokens[i].text
      BY <3>7, <3>8, <3>9 DEF token
    <3>11. Kept(next, tokens, k + 1)
      BY <3>1, <3>5, <3>8, <3>10 DEF Kept
    <3>12. QED
      BY <3>1, <3>11 DEF next
  <2>2. QED
    BY <2>1
<1>4. Good = Nat
  <2>1. Good \in SUBSET Nat
    OBVIOUS
  <2> HIDE DEF Good
  <2>2. QED
    BY <1>2, <1>3, <2>1, SetInduction
<1>5. Kept(end, tokens, n) /\ InClause(end)
  BY <1>1, <1>4 DEF n
<1>6. end.condition \in Seq(Texts)
  BY <1>5 DEF InClause, Trees
<1>7. end.condition = TextsOf(tokens)
  <2> DEFINE c == end.condition
  <2>1. c \in Seq(Texts) /\ Len(c) = n /\ \A i \in 1 .. n : c[i] = tokens[i].text
    BY <1>5, <1>6 DEF Kept
  <2> HIDE DEF c
  <2>2. c = [i \in 1 .. n |-> c[i]]
    BY <2>1
  <2>3. c = [i \in 1 .. n |-> tokens[i].text]
    BY <2>1, <2>2
  <2>4. QED
    BY <2>3 DEF TextsOf, n, c
<1>8. QED
  BY <1>5, <1>7 DEF Kept

\* A tree that the end of the line takes for a SELECT over the clause.
LEMMA ClauseExecuted ==
    ASSUME PlainQuotes, IsIdentifier(TableName), NEW tokens \in Seq(Tokens),
           NEW tree, InClause(tree), tree.state \in {23, 24},
           tree.tableName = <<TableName>>, tree.fields = <<"*">>, tree.where,
           tree.condition = TextsOf(tokens), NEW m \in Meanings(tokens)
    PROVE  Execute(tree) = m
<1>1. IsSuccess(tree.state)
  <2> DEFINE s == tree.state
  <2>1. s \in {23, 24}
    OBVIOUS
  <2> HIDE DEF s
  <2>2. {cell \in Marked : cell[1] = s /\ cell[2] = "create"} = {}
    BY <2>1 DEF Marked
  <2>3. Cell(s, "create") = 1
    BY <2>1, <2>2 DEF Cell, SuccessStates
  <2>4. QED
    BY <2>3 DEF IsSuccess, s
<1>2. tree.command = "select" /\ tree.tableName # <<>> /\ tree.tableName[1] = TableName
  BY DEF InClause
<1>3. Execute(tree) = Select(tree)
  BY <1>1, <1>2 DEF Execute
<1>4. tree.fields # <<>> /\ tree.fields[1] = "*"
  OBVIOUS
<1>5. Select(tree) = SelectWhere(tree.condition)
  BY <1>2, <1>4 DEF Select
<1>6. QED
  BY <1>3, <1>5, ClauseAnswered

-----------------------------------------------------------------------------
(* The line up to its WHERE clause *)

\* r gives the tree after each token of the line.
TreesOf(r, tokens) ==
    r = [k \in 0 .. Len(tokens) |-> IF k = 0 THEN EmptyTree ELSE ParseToken(r[k - 1], tokens[k])]

\* The line begins with its prefix, and goes on with tokens of the vocabulary.
Prefixed(tokens) ==
    \A i \in DOMAIN tokens : IF i <= Len(Prefix) THEN tokens[i] = Prefix[i] ELSE tokens[i] \in Tokens

PrefixIs == <<Unquoted("select"), Unquoted("*"), Unquoted("from"), Quoted(TableName), Unquoted("where")>>

LEMMA PrefixFacts ==
    ASSUME Filtering
    PROVE  /\ Prefix = PrefixIs /\ Len(Prefix) = 5
           /\ Prefix[1] = Unquoted("select") /\ Prefix[2] = Unquoted("*")
           /\ Prefix[3] = Unquoted("from") /\ Prefix[4] = Quoted(TableName)
           /\ Prefix[5] = Unquoted("where")
           /\ \A i \in 1 .. 5 : Prefix[i] \in AllTokens
<1>1. Prefix = PrefixIs
  BY DEF Prefix, PrefixIs
<1>2. Len(Prefix) = 5 /\ DOMAIN Prefix = 1 .. 5
  BY <1>1 DEF PrefixIs
<1>3. \A i \in 1 .. 5 : Prefix[i] \in AllTokens
  BY <1>2 DEF AllTokens, ToSet
<1>4. QED
  BY <1>1, <1>2, <1>3 DEF PrefixIs

LEMMA PrefixTypes ==
    /\ Unquoted("select").type = "select"
    /\ Unquoted("*").type = "asterisk" /\ Unquoted("*").text = "*"
    /\ Unquoted("from").type = "from"
    /\ Quoted(TableName).type = "literal" /\ Quoted(TableName).text = TableName
    /\ Unquoted("where").type = "where" /\ Unquoted("where").text = "where"
BY DEF Unquoted, Quoted, Classify, Keywords, Logicals, Relationals

LEMMA PrefixCells ==
    /\ Cell(0, "select") = 13 /\ Cell(13, "asterisk") = 16 /\ Cell(16, "from") = 17
    /\ Cell(17, "literal") = 18 /\ Cell(18, "where") = 19
<1>1. /\ <<0, "select", 13>> \in Marked /\ <<13, "asterisk", 16>> \in Marked
      /\ <<16, "from", 17>> \in Marked /\ <<17, "literal", 18>> \in Marked
      /\ <<18, "where", 19>> \in Marked
  BY DEF Marked
<1>2. /\ 0 \in 0 .. 24 /\ 13 \in 0 .. 24 /\ 16 \in 0 .. 24 /\ 17 \in 0 .. 24 /\ 18 \in 0 .. 24
  OBVIOUS
<1>3. Cell(0, "select") = 13
  BY <1>1, <1>2, CellIs
<1>4. Cell(13, "asterisk") = 16
  BY <1>1, <1>2, CellIs
<1>5. Cell(16, "from") = 17
  BY <1>1, <1>2, CellIs
<1>6. Cell(17, "literal") = 18
  BY <1>1, <1>2, CellIs
<1>7. Cell(18, "where") = 19
  BY <1>1, <1>2, CellIs
<1>8. QED
  BY <1>3, <1>4, <1>5, <1>6, <1>7

\* "next" is "tree" one token later, in state n of a SELECT.
SelectStepped(tree, token, n, next) ==
    /\ next \in Trees /\ next.state = n /\ next.command = "select"
    /\ next.tableName = IF n \in {3, 9, 18} THEN Append(tree.tableName, token.text)
                        ELSE tree.tableName
    /\ next.fields = IF n \in {5, 14, 16} THEN Append(tree.fields, token.text) ELSE tree.fields
    /\ next.where = (tree.where \/ n = 19)
    /\ next.condition = IF n \in 19 .. 24 /\ token.text # "where"
                        THEN Append(tree.condition, token.text) ELSE tree.condition

\* A step of a SELECT within the table.
LEMMA SelectStep ==
    ASSUME NEW tree \in Trees, tree.command = "select", tree.state \in 0 .. 24,
           NEW token \in AllTokens, NEW n \in 0 .. 24, Cell(tree.state, token.type) = n
    PROVE  SelectStepped(tree, token, n, ParseToken(tree, token))
<1>1. TreeStepped(tree, token)
  BY NextTokenFacts, NotRejected
<1>2. ParseToken(tree, token) = NextToken(tree, token)
  BY DEF ParseToken
<1> DEFINE next == NextToken(tree, token)
<1>3. /\ next \in Trees /\ next.state = Cell(tree.state, token.type)
      /\ next.command = tree.command
      /\ next.tableName = IF next.state \in {3, 9, 18}
                          THEN Append(tree.tableName, token.text) ELSE tree.tableName
      /\ next.fields = IF next.state \in {5, 14, 16}
                       THEN Append(tree.fields, token.text) ELSE tree.fields
      /\ next.where = (tree.where \/ next.state = 19)
      /\ next.condition = IF next.state \in 19 .. 24 /\ token.text # "where"
                          THEN Append(tree.condition, token.text) ELSE tree.condition
  BY <1>1 DEF TreeStepped
<1> HIDE DEF next
<1>4. QED
  BY <1>2, <1>3 DEF next, SelectStepped

\* The tree when the clause begins.
LEMMA PrefixRead ==
    ASSUME Filtering, NEW tokens \in Seq(AllTokens), Prefixed(tokens), Len(tokens) >= 5,
           NEW r, TreesOf(r, tokens)
    PROVE  BeginsClause(r[5])
<1>1. /\ r[0] = EmptyTree
      /\ \A k \in 1 .. 5 : r[k] = ParseToken(r[k - 1], Prefix[k])
  <2>1. Len(tokens) \in Nat /\ DOMAIN tokens = 1 .. Len(tokens)
    OBVIOUS
  <2>2. \A k \in 0 .. Len(tokens) : r[k] = IF k = 0 THEN EmptyTree ELSE ParseToken(r[k - 1], tokens[k])
    BY DEF TreesOf
  <2>3. ASSUME NEW k \in 1 .. 5 PROVE tokens[k] = Prefix[k]
    <3>1. Len(Prefix) = 5
      BY PrefixFacts
    <3>2. k \in DOMAIN tokens /\ k <= Len(Prefix)
      BY <2>1, <3>1
    <3>3. QED
      BY <3>2 DEF Prefixed
  <2>4. QED
    BY <2>1, <2>2, <2>3
<1>2. \A i \in 1 .. 5 : Prefix[i] \in AllTokens
  BY PrefixFacts
<1>3. /\ r[1] \in Trees /\ r[1].state = 13 /\ r[1].command = "select"
      /\ r[1].tableName = <<>> /\ r[1].fields = <<>> /\ r[1].condition = <<>>
  <2>1. r[1] = FirstToken(Prefix[1])
    <3>1. r[1] = ParseToken(EmptyTree, Prefix[1])
      BY <1>1
    <3>2. EmptyTree.command = "none"
      BY DEF EmptyTree
    <3>3. QED
      BY <3>1, <3>2 DEF ParseToken
  <2>2. Prefix[1].type = "select"
    BY PrefixFacts, PrefixTypes
  <2>3. r[1] = [EmptyTree EXCEPT !.state = Cell(0, "select"), !.command = "select"]
    BY <2>1, <2>2 DEF FirstToken
  <2>4. r[1] \in Trees
    BY <1>2, <2>1, FirstTokenFacts
  <2>5. QED
    BY <2>3, <2>4, PrefixCells DEF EmptyTree
<1>4. /\ r[2] \in Trees /\ r[2].state = 16 /\ r[2].command = "select"
      /\ r[2].tableName = <<>> /\ r[2].fields = <<"*">> /\ r[2].condition = <<>>
  <2> DEFINE tree == r[1]
  <2> DEFINE token == Prefix[2]
  <2>1. token \in AllTokens /\ token.type = "asterisk" /\ token.text = "*" /\ r[2] = ParseToken(tree, token)
    BY <1>1, <1>2, PrefixFacts, PrefixTypes
  <2>2. tree \in Trees /\ tree.state = 13 /\ tree.state \in 0 .. 24 /\ tree.command = "select"
    BY <1>3
  <2>3. Cell(tree.state, token.type) = 16 /\ 16 \in 0 .. 24
    BY <2>1, <2>2, PrefixCells
  <2> HIDE DEF tree, token
  <2>4. SelectStepped(tree, token, 16, r[2])
    BY <2>1, <2>2, <2>3, SelectStep
  <2>5. QED
    BY <1>3, <2>1, <2>4 DEF tree, SelectStepped
<1>5. /\ r[3] \in Trees /\ r[3].state = 17 /\ r[3].command = "select"
      /\ r[3].tableName = <<>> /\ r[3].fields = <<"*">> /\ r[3].condition = <<>>
  <2> DEFINE tree == r[2]
  <2> DEFINE token == Prefix[3]
  <2>1. token \in AllTokens /\ token.type = "from" /\ r[3] = ParseToken(tree, token)
    BY <1>1, <1>2, PrefixFacts, PrefixTypes
  <2>2. tree \in Trees /\ tree.state = 16 /\ tree.state \in 0 .. 24 /\ tree.command = "select"
    BY <1>4
  <2>3. Cell(tree.state, token.type) = 17 /\ 17 \in 0 .. 24
    BY <2>1, <2>2, PrefixCells
  <2> HIDE DEF tree, token
  <2>4. SelectStepped(tree, token, 17, r[3])
    BY <2>1, <2>2, <2>3, SelectStep
  <2>5. QED
    BY <1>4, <2>1, <2>4 DEF tree, SelectStepped
<1>6. /\ r[4] \in Trees /\ r[4].state = 18 /\ r[4].command = "select"
      /\ r[4].tableName = <<TableName>> /\ r[4].fields = <<"*">> /\ r[4].condition = <<>>
  <2> DEFINE tree == r[3]
  <2> DEFINE token == Prefix[4]
  <2>1. /\ token \in AllTokens /\ token.type = "literal" /\ token.text = TableName
        /\ r[4] = ParseToken(tree, token)
    BY <1>1, <1>2, PrefixFacts, PrefixTypes
  <2>2. tree \in Trees /\ tree.state = 17 /\ tree.state \in 0 .. 24 /\ tree.command = "select"
    BY <1>5
  <2>3. Cell(tree.state, token.type) = 18 /\ 18 \in 0 .. 24
    BY <2>1, <2>2, PrefixCells
  <2> HIDE DEF tree, token
  <2>4. SelectStepped(tree, token, 18, r[4])
    BY <2>1, <2>2, <2>3, SelectStep
  <2>5. QED
    BY <1>5, <2>1, <2>4 DEF tree, SelectStepped
<1>7. /\ r[5] \in Trees /\ r[5].state = 19 /\ r[5].command = "select"
      /\ r[5].tableName = <<TableName>> /\ r[5].fields = <<"*">> /\ r[5].condition = <<>>
      /\ r[5].where
  <2> DEFINE tree == r[4]
  <2> DEFINE token == Prefix[5]
  <2>1. /\ token \in AllTokens /\ token.type = "where" /\ token.text = "where"
        /\ r[5] = ParseToken(tree, token)
    BY <1>1, <1>2, PrefixFacts, PrefixTypes
  <2>2. tree \in Trees /\ tree.state = 18 /\ tree.state \in 0 .. 24 /\ tree.command = "select"
    BY <1>6
  <2>3. Cell(tree.state, token.type) = 19 /\ 19 \in 0 .. 24
    BY <2>1, <2>2, PrefixCells
  <2> HIDE DEF tree, token
  <2>4. SelectStepped(tree, token, 19, r[5])
    BY <2>1, <2>2, <2>3, SelectStep
  <2>5. /\ r[5] \in Trees /\ r[5].state = 19 /\ r[5].command = "select"
        /\ r[5].tableName = tree.tableName /\ r[5].fields = tree.fields
        /\ r[5].condition = tree.condition
    BY <2>1, <2>4 DEF SelectStepped
  <2>6. r[5].where
    <3>1. r[5].where = (tree.where \/ 19 = 19)
      BY <2>4 DEF SelectStepped
    <3>2. QED
      BY <3>1, Zenon
  <2>7. QED
    BY <1>6, <2>5, <2>6 DEF tree
<1>8. QED
  BY <1>7 DEF BeginsClause, InClause

-----------------------------------------------------------------------------
(* The line and its answer *)

\* The tree is what the tokens consumed make of the empty one.
HistoryInv == \E r : TreesOf(r, input) /\ parse = r[Len(input)]

\* A line is answered by what its tree asks for, and not before its prefix has
\* been consumed.
AnswerInv ==
    outcome # Pending => outcome = Execute(parse) /\ Len(input) >= Len(Prefix)

LineInv == IInv /\ HistoryInv /\ Prefixed(input) /\ AnswerInv

LEMMA StartsInv ==
    ASSUME Init
    PROVE  HistoryInv /\ Prefixed(input) /\ AnswerInv
<1> DEFINE r == [k \in 0 .. Len(input) |-> EmptyTree]
<1>1. input = <<>> /\ Len(input) = 0 /\ parse = EmptyTree /\ outcome = Pending
  BY DEF Init
<1>2. r = [k \in 0 .. Len(input) |-> IF k = 0 THEN EmptyTree ELSE ParseToken(r[k - 1], input[k])]
  BY <1>1
<1>3. parse = r[Len(input)]
  BY <1>1
<1>4. HistoryInv
  <2> HIDE DEF r
  <2>1. TreesOf(r, input)
    BY <1>2 DEF TreesOf
  <2>2. QED
    BY <1>3, <2>1 DEF HistoryInv
<1>5. Prefixed(input) /\ AnswerInv
  BY <1>1 DEF Prefixed, AnswerInv
<1>6. QED
  BY <1>4, <1>5

\* One more token, one more tree.
LEMMA TreesMore ==
    ASSUME NEW S, NEW tokens \in Seq(S), NEW token \in S, NEW r, TreesOf(r, tokens)
    PROVE  \E q : /\ TreesOf(q, Append(tokens, token))
                  /\ q[Len(tokens) + 1] = ParseToken(r[Len(tokens)], token)
<1> DEFINE n == Len(tokens)
<1> DEFINE more == Append(tokens, token)
<1>1. /\ n \in Nat /\ Len(more) = n + 1 /\ more[n + 1] = token
      /\ \A k \in 1 .. n : more[k] = tokens[k]
  OBVIOUS
<1>2. \A k \in 0 .. n : r[k] = IF k = 0 THEN EmptyTree ELSE ParseToken(r[k - 1], tokens[k])
  BY <1>1 DEF TreesOf
<1> HIDE DEF more, n
<1> DEFINE q == [k \in 0 .. n + 1 |-> IF k = n + 1 THEN ParseToken(r[n], token) ELSE r[k]]
<1>3. \A k \in 0 .. n : q[k] = r[k]
  BY <1>1
<1>4. q[n + 1] = ParseToken(r[n], token)
  BY <1>1
<1>5. q = [k \in 0 .. n + 1 |-> q[k]]
  OBVIOUS
<1> HIDE DEF q
<1>6. ASSUME NEW k \in 0 .. n + 1
      PROVE  q[k] = IF k = 0 THEN EmptyTree ELSE ParseToken(q[k - 1], more[k])
  <2>1. CASE k = n + 1
    <3>1. k # 0 /\ k - 1 = n /\ n \in 0 .. n
      BY <1>1, <2>1
    <3>2. q[k - 1] = r[n] /\ more[k] = token /\ q[k] = ParseToken(r[n], token)
      BY <1>1, <1>3, <1>4, <2>1, <3>1
    <3>3. QED
      BY <3>1, <3>2
  <2>2. CASE k # n + 1 /\ k # 0
    <3>1. k \in 1 .. n /\ k \in 0 .. n /\ k - 1 \in 0 .. n
      BY <1>1, <2>2
    <3>2. q[k] = r[k] /\ q[k - 1] = r[k - 1] /\ more[k] = tokens[k]
      BY <1>1, <1>3, <3>1
    <3>3. r[k] = ParseToken(r[k - 1], tokens[k])
      BY <1>2, <2>2, <3>1
    <3>4. QED
      BY <2>2, <3>2, <3>3
  <2>3. CASE k = 0
    <3>1. 0 \in 0 .. n
      BY <1>1
    <3>2. q[0] = r[0] /\ r[0] = EmptyTree
      BY <1>2, <1>3, <3>1
    <3>3. QED
      BY <2>3, <3>2
  <2>4. QED
    BY <2>1, <2>2, <2>3
<1>7. q = [k \in 0 .. n + 1 |-> IF k = 0 THEN EmptyTree ELSE ParseToken(q[k - 1], more[k])]
  BY <1>5, <1>6, Zenon
<1>8. TreesOf(q, more)
  BY <1>1, <1>7 DEF TreesOf
<1>9. QED
  BY <1>4, <1>8 DEF more, n

LEMMA ReadLine ==
    ASSUME LineInv, NEW token \in NextTokens, Read(token)
    PROVE  (HistoryInv /\ Prefixed(input) /\ AnswerInv)'
<1>1. token \in AllTokens /\ Len(input) \in Nat /\ input \in Seq(AllTokens)
  <2>1. input \in Seq(AllTokens)
    BY DEF LineInv, IInv, TreeInv
  <2>2. Len(input) \in Nat
    BY <2>1
  <2>3. token \in AllTokens
    <3>1. CASE Len(input) < Len(Prefix)
      <4>1. token = Prefix[Len(input) + 1]
        BY <3>1 DEF NextTokens
      <4>2. DOMAIN Prefix = 1 .. Len(Prefix) /\ Len(Prefix) \in Nat
        <5>1. CASE Filtering
          BY <5>1 DEF Prefix
        <5>2. CASE ~Filtering
          BY <5>2 DEF Prefix
        <5>3. QED
          BY <5>1, <5>2
      <4>3. QED
        BY <2>2, <3>1, <4>1, <4>2 DEF AllTokens, ToSet
    <3>2. CASE ~(Len(input) < Len(Prefix))
      BY <3>2 DEF NextTokens, AllTokens
    <3>3. QED
      BY <3>1, <3>2
  <2>4. QED
    BY <2>1, <2>2, <2>3
<1>2. input' = Append(input, token) /\ parse' = ParseToken(parse, token)
      /\ outcome = Pending /\ outcome' = Pending
  BY DEF Read
<1>3. HistoryInv'
  <2>1. PICK r : TreesOf(r, input) /\ parse = r[Len(input)]
    BY DEF LineInv, HistoryInv
  <2>2. PICK q : /\ TreesOf(q, Append(input, token))
                 /\ q[Len(input) + 1] = ParseToken(r[Len(input)], token)
    BY <1>1, <2>1, TreesMore
  <2>3. Len(input') = Len(input) + 1
    BY <1>1, <1>2
  <2>4. TreesOf(q, input') /\ parse' = q[Len(input')]
    BY <1>2, <2>1, <2>2, <2>3
  <2>5. QED
    BY <2>4 DEF HistoryInv
<1>4. Prefixed(input)'
  <2>1. /\ DOMAIN input' = 1 .. Len(input) + 1 /\ DOMAIN input = 1 .. Len(input)
        /\ \A i \in 1 .. Len(input) : input'[i] = input[i]
        /\ input'[Len(input) + 1] = token
    BY <1>1, <1>2
  <2>2. ASSUME NEW i \in DOMAIN input'
        PROVE  IF i <= Len(Prefix) THEN input'[i] = Prefix[i] ELSE input'[i] \in Tokens
    <3>1. CASE i \in DOMAIN input
      <4>1. IF i <= Len(Prefix) THEN input[i] = Prefix[i] ELSE input[i] \in Tokens
        BY <3>1 DEF LineInv, Prefixed
      <4>2. QED
        BY <2>1, <3>1, <4>1
    <3>2. CASE i = Len(input) + 1
      <4>1. Len(Prefix) \in Nat
        <5>1. CASE Filtering
          BY <5>1 DEF Prefix
        <5>2. CASE ~Filtering
          BY <5>2 DEF Prefix
        <5>3. QED
          BY <5>1, <5>2
      <4>2. CASE Len(input) < Len(Prefix)
        <5>1. token = Prefix[Len(input) + 1]
          BY <4>2 DEF NextTokens
        <5>2. QED
          BY <1>1, <2>1, <3>2, <4>1, <4>2, <5>1
      <4>3. CASE ~(Len(input) < Len(Prefix))
        <5>1. token \in Tokens
          BY <4>3 DEF NextTokens
        <5>2. ~(i <= Len(Prefix))
          BY <1>1, <3>2, <4>1, <4>3
        <5>3. QED
          BY <2>1, <3>2, <5>1, <5>2
      <4>4. QED
        BY <4>2, <4>3
    <3>3. QED
      BY <1>1, <2>1, <3>1, <3>2
  <2>3. QED
    BY <2>2 DEF Prefixed, Prefix
<1>5. AnswerInv'
  BY <1>2 DEF AnswerInv
<1>6. QED
  BY <1>3, <1>4, <1>5

\* The clause of a line, and the trees of its tokens.
LEMMA ConditionTrees ==
    ASSUME Filtering, LineInv, Len(input) >= 5
    PROVE  /\ Condition \in Seq(Tokens)
           /\ \E t : ClauseTrees(t, Condition) /\ parse = t[Len(Condition)]
<1> DEFINE n == Len(input)
<1> DEFINE c == Condition
<1>1. input \in Seq(AllTokens) /\ n \in Nat /\ n >= 5
  BY DEF LineInv, IInv, TreeInv
<1>2. Len(Prefix) = 5
  BY PrefixFacts
<1>3. /\ c = [i \in 1 .. n - 5 |-> input[i + 5]] /\ Len(c) = n - 5
  <2>1. c = SubSeq(input, 6, n)
    BY <1>2 DEF Condition
  <2> HIDE DEF c
  <2>2. n - 6 + 1 = n - 5 /\ n - 5 \in Nat
    BY <1>1
  <2>3. c = [i \in 1 .. (n - 6 + 1) |-> input[6 + i - 1]]
    BY <1>1, <2>1
  <2>4. \A i \in 1 .. n - 5 : 6 + i - 1 = i + 5
    BY <1>1
  <2>5. c = [i \in 1 .. n - 5 |-> input[i + 5]]
    BY <2>2, <2>3, <2>4
  <2>6. QED
    BY <2>2, <2>5
<1>4. \A i \in 1 .. n - 5 : input[i + 5] \in Tokens
  <2> SUFFICES ASSUME NEW i \in 1 .. n - 5 PROVE input[i + 5] \in Tokens
    OBVIOUS
  <2>1. i + 5 \in DOMAIN input /\ ~(i + 5 <= Len(Prefix))
    BY <1>1, <1>2
  <2>2. QED
    BY <2>1 DEF LineInv, Prefixed
<1> HIDE DEF c
<1>5. c \in Seq(Tokens)
  <2>1. n - 5 \in Nat
    BY <1>1
  <2>2. QED
    BY <1>3, <1>4, <2>1
<1>6. PICK r : TreesOf(r, input) /\ parse = r[Len(input)]
  BY DEF LineInv, HistoryInv
<1>7. BeginsClause(r[5])
  BY <1>1, <1>6, PrefixRead DEF LineInv
<1>8. \A k \in 0 .. n : r[k] = IF k = 0 THEN EmptyTree ELSE ParseToken(r[k - 1], input[k])
  BY <1>6 DEF TreesOf
<1> HIDE DEF n
<1> DEFINE t == [k \in 0 .. n - 5 |-> r[k + 5]]
<1>9. t[0] = r[5] /\ t[n - 5] = r[n]
  <2>1. 0 \in 0 .. n - 5 /\ n - 5 \in 0 .. n - 5 /\ 0 + 5 = 5 /\ n - 5 + 5 = n
    BY <1>1
  <2>2. QED
    BY <2>1
<1>10. ASSUME NEW k \in 1 .. Len(c)
       PROVE  t[k] = ParseToken(t[k - 1], c[k])
  <2>1. /\ k \in 0 .. n - 5 /\ k - 1 \in 0 .. n - 5 /\ k \in 1 .. n - 5 /\ k + 5 \in 0 .. n
        /\ k + 5 # 0 /\ k + 5 - 1 = k - 1 + 5
    BY <1>1, <1>3
  <2>2. t[k] = r[k + 5] /\ t[k - 1] = r[k - 1 + 5]
    BY <2>1
  <2>3. c[k] = input[k + 5]
    BY <1>3, <2>1
  <2>4. r[k + 5] = ParseToken(r[k + 5 - 1], input[k + 5])
    BY <1>8, <2>1
  <2>5. QED
    BY <2>1, <2>2, <2>3, <2>4
<1>11. parse = t[Len(c)]
  BY <1>3, <1>6, <1>9 DEF n
<1>12. ClauseTrees(t, c)
  <2> HIDE DEF t
  <2>1. QED
    BY <1>7, <1>9, <1>10 DEF ClauseTrees
<1>13. QED
  BY <1>5, <1>11, <1>12 DEF c

\* A line whose clause means something is answered with it.
LEMMA LineAnswered ==
    ASSUME PlainQuotes, IsIdentifier(TableName), LineInv, Filtering, outcome # Pending,
           NEW m \in Meanings(Condition)
    PROVE  outcome = m
<1>1. Len(input) >= 5 /\ outcome = Execute(parse)
  BY PrefixFacts DEF LineInv, AnswerInv
<1>2. Condition \in Seq(Tokens)
  BY <1>1, ConditionTrees
<1>3. PICK t : ClauseTrees(t, Condition) /\ parse = t[Len(Condition)]
  BY <1>1, ConditionTrees
<1>4. Meanings(Condition) # {}
  OBVIOUS
<1>5. Stays(t, Condition, 0, Len(Condition)) /\ parse.state \in {23, 24}
  BY <1>2, <1>3, <1>4, ClauseRead
<1>6. /\ InClause(parse)
      /\ parse.tableName = <<TableName>> /\ parse.fields = <<"*">> /\ parse.where
      /\ parse.condition = TextsOf(Condition)
  BY <1>2, <1>3, <1>5, ClauseKept
<1>7. Execute(parse) = m
  BY <1>2, <1>5, <1>6, ClauseExecuted
<1>8. QED
  BY <1>1, <1>7

-----------------------------------------------------------------------------
(* The theorems *)

\* The tree is a function of the tokens consumed, whichever they are, and the
\* answer of the tree: nothing else is kept from one token to the next.
THEOREM LinesKept == Spec => []LineInv
<1>1. Init => HistoryInv /\ Prefixed(input) /\ AnswerInv
  BY StartsInv
<1>2. LineInv /\ IInv' /\ [Next]_vars => (HistoryInv /\ Prefixed(input) /\ AnswerInv)'
  <2> SUFFICES ASSUME LineInv, IInv', [Next]_vars
               PROVE  (HistoryInv /\ Prefixed(input) /\ AnswerInv)'
    OBVIOUS
  <2>1. CASE \E token \in NextTokens : Read(token)
    BY <2>1, ReadLine
  <2>2. CASE EndOfLine
    <3>1. input' = input /\ parse' = parse /\ outcome' = Execute(parse) /\ Len(input) >= Len(Prefix)
      BY <2>2 DEF EndOfLine
    <3>2. HistoryInv' /\ Prefixed(input)'
      BY <3>1 DEF LineInv, HistoryInv, Prefixed, Prefix
    <3>3. AnswerInv'
      BY <3>1 DEF AnswerInv, Prefix
    <3>4. QED
      BY <3>2, <3>3
  <2>3. CASE UNCHANGED vars
    <3>1. input' = input /\ parse' = parse /\ outcome' = outcome
      BY <2>3 DEF vars
    <3>2. HistoryInv' /\ Prefixed(input)'
      BY <3>1 DEF LineInv, HistoryInv, Prefixed, Prefix
    <3>3. AnswerInv'
      BY <3>1 DEF LineInv, AnswerInv, Prefix
    <3>4. QED
      BY <3>2, <3>3
  <2>4. QED
    BY <2>1, <2>2, <2>3 DEF Next
<1>3. QED
  BY <1>1, <1>2, Invariance, PTL DEF Spec, LineInv

\* A well-formed WHERE clause is answered with exactly the records it means,
\* and one that names an unknown field with an error: ParseToken keeps the
\* clause, ShuntingYard converts it and Eval evaluates it as its grouping and
\* precedence say.  The quoted texts are not operators, parentheses or the word
\* where, which allocate_tokens_memory and the parse tree take by their text.
THEOREM WellFormedClausesAnswered ==
    ASSUME PlainQuotes, IsIdentifier(TableName)
    PROVE  Spec => []WellFormedAnswered
<1>1. LineInv /\ TypeOK => WellFormedAnswered
  BY LineAnswered DEF WellFormedAnswered
<1>2. QED
  BY <1>1, LinesKept, TypeCorrect, PTL
=============================================================================
