------------------------- MODULE ConfigParserProofs -------------------------
(***************************************************************************)
(* The discipline of the parser's stack of blocks, and the port it finds,  *)
(* for every file.  IInv is the inductive invariant of the stack: Nested,  *)
(* types, and that the blocks on the stack are in the order in which they  *)
(* were made, so that a change of the top one is a change of no other.     *)
(* SInv adds what the tree keeps of the tokens: the blocks are a tree,     *)
(* the last word is where the parser will look for it, and the recursion   *)
(* of GetConfig finds in the tree what KeyAt finds among the tokens.       *)
(***************************************************************************)
EXTENDS ConfigRoundTrip, SequenceLemmas

Statements == [tokens : Seq(Seq(Chars)), child_block_ : Nat]

TokenOK ==
  /\ text \in Seq(Chars) /\ pos \in 0..Len(text)
  /\ value \in Seq(Chars)

TreeOK ==
  /\ blocks \in Seq(Seq(Statements))
  /\ block_counter \in Nat
  /\ config_stack \in Seq(1..Len(blocks))

(* The stack is in the order of creation. *)
Rising ==
  \A m, n \in 1..Len(config_stack) : m < n => config_stack[m] < config_stack[n]

IInv == TokenOK /\ TreeOK /\ Rising /\ Nested

-----------------------------------------------------------------------------
LEMMA InitIInv == Init => IInv
<1> SUFFICES ASSUME Init PROVE IInv
  OBVIOUS
<1>1. TokenOK
  BY ConfigAssumption DEF Init, TokenOK
<1>2. TreeOK
  BY DEF Init, TreeOK
<1>3. Rising /\ Nested
  BY DEF Init, Rising, Nested
<1> QED BY <1>1, <1>2, <1>3 DEF IInv

(* ParseToken takes a character of the file. *)
LEMMA LexerStep ==
  ASSUME TokenOK, ParseToken
  PROVE  TokenOK'
<1> DEFINE c == text[pos + 1]
<1>1. c \in Chars /\ pos \in Nat /\ Len(text) \in Nat /\ pos < Len(text)
  BY DEF TokenOK, ParseToken
<1>2. value' \in {value, <<c>>, Append(value, c)}
  BY DEF ParseToken, Whitespace, Quote, Comment, Word, Moves
<1> HIDE DEF c
<1>3. value' \in Seq(Chars)
  <2>1. <<c>> \in Seq(Chars) /\ Append(value, c) \in Seq(Chars)
    BY <1>1 DEF TokenOK
  <2> QED BY <1>2, <2>1 DEF TokenOK
<1>4. text' = text /\ pos' \in {pos, pos + 1}
  BY DEF ParseToken
<1> QED BY <1>1, <1>3, <1>4 DEF TokenOK

(* A step that leaves the tree alone and reads no word.                    *)
LEMMA TreeUnchanged ==
  ASSUME TreeOK, Rising, Nested, UNCHANGED tree,
         last_token_type' = "normal" => last_token_type = "normal"
  PROVE  TreeOK' /\ Rising' /\ Nested'
BY DEF TreeOK, Rising, Nested, Top, tree

(* The top of the stack, and the blocks below it. *)
LEMMA Stack ==
  ASSUME TreeOK, Rising, Nested
  PROVE  /\ Len(config_stack) \in Nat /\ Len(config_stack) >= 1
         /\ Top \in 1..Len(blocks)
         /\ \A n \in 1..Len(config_stack) : config_stack[n] \in 1..Len(blocks)
         /\ \A n \in 1..Len(config_stack) : config_stack[n] = Top => n = Len(config_stack)
<1>1. Len(config_stack) \in Nat /\ Len(config_stack) >= 1
  BY DEF TreeOK, Nested
<1>2. \A n \in 1..Len(config_stack) : config_stack[n] \in 1..Len(blocks)
  BY DEF TreeOK
<1>3. Top \in 1..Len(blocks)
  BY <1>1, <1>2 DEF Top
<1>4. ASSUME NEW n \in 1..Len(config_stack), config_stack[n] = Top
      PROVE  n = Len(config_stack)
  <2>1. SUFFICES ASSUME n < Len(config_stack) PROVE FALSE
    BY <1>1
  <2>2. config_stack[n] < Top
    BY <1>1, <2>1 DEF Rising, Top
  <2> QED BY <1>2, <1>3, <1>4, <2>2
<1> QED BY <1>1, <1>2, <1>3, <1>4

LEMMA LongerStatement ==
  ASSUME NEW s \in Statements, NEW v \in Seq(Chars)
  PROVE  /\ [s EXCEPT !.tokens = Append(@, v)] \in Statements
         /\ [s EXCEPT !.tokens = Append(@, v)].child_block_ = s.child_block_
<1>1. s.tokens \in Seq(Seq(Chars))
  BY DEF Statements
<1>2. Append(s.tokens, v) \in Seq(Seq(Chars))
  BY <1>1
<1> QED BY <1>2 DEF Statements

(* A word: the last statement of the top block grows, or there is a new    *)
(* one, without a child.                                                   *)
LEMMA NormalStep ==
  ASSUME IInv, Normal
  PROVE  IInv'
<1> DEFINE block == blocks[Top]
           grown == [block EXCEPT ![Len(block)].tokens = Append(@, value)]
           next  == IF last_token_type # "normal" THEN Append(block, Statement(value))
                                                  ELSE grown
<1> USE DEF IInv
<1>1. /\ block \in Seq(Statements) /\ value \in Seq(Chars)
      /\ last_token_type = "normal" => block # <<>> /\ block[Len(block)].child_block_ = 0
  BY Stack DEF TreeOK, TokenOK, Nested
<1>2. /\ blocks' = [blocks EXCEPT ![Top] = next]
      /\ UNCHANGED <<config_stack, block_counter, text, pos>>
      /\ value' = <<>> /\ last_token_type' = "normal"
  <2>1. blocks' = [blocks EXCEPT ![Top] = next]
    BY Zenon DEF Normal
  <2> QED BY <2>1 DEF Normal, Accept, Given
<1>3. next \in Seq(Statements) /\ next # <<>> /\ next[Len(next)].child_block_ = 0
  <2>1. CASE last_token_type # "normal"
    <3>1. Statement(value) \in Statements /\ Statement(value).child_block_ = 0
      BY <1>1 DEF Statement, Statements
    <3> HIDE DEF block
    <3> QED BY <1>1, <2>1, <3>1
  <2>2. CASE last_token_type = "normal"
    <3> HIDE DEF block
    <3>1. Len(block) \in 1..Len(block) /\ block[Len(block)] \in Statements
      BY <1>1, <2>2
    <3> DEFINE s == [block[Len(block)] EXCEPT !.tokens = Append(@, value)]
    <3>2. s \in Statements /\ s.child_block_ = 0
      BY <1>1, <2>2, <3>1, LongerStatement
    <3>3. grown = [block EXCEPT ![Len(block)] = s]
      OBVIOUS
    <3> HIDE DEF s, grown
    <3>4. grown \in Seq(Statements) /\ Len(grown) = Len(block) /\ grown[Len(block)] = s
      BY <1>1, <3>1, <3>2, <3>3
    <3> QED BY <2>2, <3>1, <3>2, <3>4
  <2> QED BY <2>1, <2>2
<1>4. TokenOK'
  BY <1>2 DEF TokenOK
<1> HIDE DEF next
<1>5. /\ blocks' \in Seq(Seq(Statements)) /\ Len(blocks') = Len(blocks)
      /\ blocks'[Top] = next
      /\ \A b \in 1..Len(blocks) : b # Top => blocks'[b] = blocks[b]
  BY <1>2, <1>3, Stack DEF TreeOK
<1>6. TreeOK' /\ Rising'
  BY <1>2, <1>5 DEF TreeOK, Rising
<1>7. Nested'
  <2>1. ASSUME NEW n \in 2..Len(config_stack)
        PROVE  blocks'[config_stack[n - 1]] = blocks[config_stack[n - 1]]
    <3>1. n - 1 \in 1..Len(config_stack) /\ n - 1 # Len(config_stack)
      BY Stack
    <3>2. config_stack[n - 1] \in 1..Len(blocks) /\ config_stack[n - 1] # Top
      BY <3>1, Stack
    <3> QED BY <1>5, <3>2
  <2>2. Top' = Top
    BY <1>2 DEF Top
  <2> QED BY <1>2, <1>3, <1>5, <2>1, <2>2 DEF Nested
<1> QED BY <1>4, <1>6, <1>7

(* A "{": a block is made, becomes the child of the top block's last       *)
(* statement, and is pushed.                                               *)
LEMMA StartBlockStep ==
  ASSUME IInv, StartBlock
  PROVE  IInv'
<1> DEFINE block == blocks[Top]
           new   == Len(blocks) + 1
           next  == [block EXCEPT ![Len(block)].child_block_ = new]
           depth == Len(config_stack)
<1> USE DEF IInv
<1>1. /\ block \in Seq(Statements) /\ block # <<>> /\ Top \in 1..Len(blocks)
      /\ new \in Nat
  BY Stack DEF TreeOK, Nested, StartBlock, Given, Transition, Before
<1>2. /\ blocks' = Append([blocks EXCEPT ![Top] = next], <<>>)
      /\ config_stack' = Append(config_stack, new)
      /\ block_counter' = block_counter + 1
      /\ UNCHANGED <<text, pos>> /\ value' = <<>> /\ last_token_type' = "start_block"
  <2>1. blocks' = Append([blocks EXCEPT ![Top] = next], <<>>)
    BY Zenon DEF StartBlock
  <2> QED BY <2>1 DEF StartBlock, Accept, Given
<1>3. next \in Seq(Statements) /\ next # <<>> /\ next[Len(next)].child_block_ = new
  <2> HIDE DEF block, new
  <2>1. Len(block) \in 1..Len(block) /\ block[Len(block)] \in Statements
    BY <1>1
  <2> DEFINE s == [block[Len(block)] EXCEPT !.child_block_ = new]
  <2>2. s \in Statements /\ s.child_block_ = new
    BY <1>1, <2>1 DEF Statements
  <2>3. next = [block EXCEPT ![Len(block)] = s]
    OBVIOUS
  <2> HIDE DEF s, next
  <2>4. next \in Seq(Statements) /\ Len(next) = Len(block) /\ next[Len(block)] = s
    BY <1>1, <2>1, <2>2, <2>3
  <2> QED BY <2>1, <2>2, <2>4
<1>4. TokenOK'
  BY <1>2 DEF TokenOK
<1> HIDE DEF next
<1>5. /\ blocks' \in Seq(Seq(Statements)) /\ Len(blocks') = new
      /\ blocks'[Top] = next
      /\ \A b \in 1..Len(blocks) : b # Top => blocks'[b] = blocks[b]
  <2>1. /\ [blocks EXCEPT ![Top] = next] \in Seq(Seq(Statements))
        /\ Len([blocks EXCEPT ![Top] = next]) = Len(blocks)
    BY <1>1, <1>3 DEF TreeOK
  <2> QED BY <1>1, <1>2, <1>3, <2>1 DEF TreeOK
<1>6. /\ depth \in Nat /\ depth >= 1 /\ Len(config_stack') = depth + 1
      /\ config_stack'[depth + 1] = new
      /\ \A n \in 1..depth : /\ config_stack'[n] = config_stack[n]
                             /\ config_stack[n] \in 1..Len(blocks)
  BY <1>2, Stack DEF TreeOK
<1>7. TreeOK'
  <2>1. config_stack' \in Seq(1..new)
    <3>1. config_stack \in Seq(1..new)
      BY <1>1 DEF TreeOK
    <3> QED BY <1>1, <1>2, <3>1
  <2> QED BY <1>2, <1>5, <2>1 DEF TreeOK
<1>8. Rising'
  BY <1>1, <1>6 DEF Rising
<1>9. Nested'
  <2>1. ASSUME NEW n \in 2..depth
        PROVE  blocks'[config_stack'[n - 1]] = blocks[config_stack[n - 1]]
    <3>1. n - 1 \in 1..depth /\ n - 1 # depth
      BY <1>6
    <3>2. config_stack[n - 1] \in 1..Len(blocks) /\ config_stack[n - 1] # Top
      BY <3>1, Stack
    <3> QED BY <1>5, <1>6, <3>1, <3>2
  <2>2. blocks'[config_stack'[depth]] = next
    BY <1>5, <1>6 DEF Top
  <2>3. ASSUME NEW n \in 2..Len(config_stack')
        PROVE  /\ blocks'[config_stack'[n - 1]] # <<>>
               /\ blocks'[config_stack'[n - 1]][Len(blocks'[config_stack'[n - 1]])].child_block_
                    = config_stack'[n]
    <3>1. CASE n = depth + 1
      <4>1. n - 1 = depth
        BY <1>6, <3>1
      <4> QED BY <1>3, <1>6, <2>2, <3>1, <4>1
    <3>2. CASE n # depth + 1
      <4>1. n \in 2..depth /\ n \in 1..depth
        BY <1>6, <3>2
      <4> QED BY <1>6, <2>1, <4>1 DEF Nested
    <3> QED BY <3>1, <3>2
  <2>4. Len(config_stack') = block_counter' + 1 /\ config_stack'[1] = 1
    BY <1>2, <1>6 DEF Nested, TreeOK
  <2> QED BY <1>2, <2>3, <2>4 DEF Nested
<1> QED BY <1>4, <1>7, <1>8, <1>9

(* A "}": the stack is popped; there was a block above the first.          *)
LEMMA EndBlockStep ==
  ASSUME IInv, EndBlock
  PROVE  IInv'
<1> DEFINE depth == Len(config_stack)
<1> USE DEF IInv
<1>1. /\ config_stack' = Front(config_stack)
      /\ UNCHANGED <<blocks, text, pos>> /\ block_counter' = block_counter - 1
      /\ value' = <<>> /\ last_token_type' = "end_block" /\ block_counter > 0
  BY DEF EndBlock, Accept, Given, Transition
<1>2. depth \in Nat /\ depth >= 2 /\ depth = block_counter + 1 /\ block_counter \in Nat
  BY <1>1 DEF TreeOK, Nested
<1>3. \A n \in 1..depth - 1 : config_stack[n] \in 1..Len(blocks)
  BY <1>2, Stack
<1>4. /\ config_stack' \in Seq(1..Len(blocks)) /\ Len(config_stack') = depth - 1
      /\ \A n \in 1..depth - 1 : config_stack'[n] = config_stack[n]
  <2> HIDE DEF IInv
  <2>1. /\ SubSeq(config_stack, 1, depth - 1) \in Seq(1..Len(blocks))
        /\ Len(SubSeq(config_stack, 1, depth - 1)) = depth - 1
        /\ \A n \in 1..depth - 1 : SubSeq(config_stack, 1, depth - 1)[n] = config_stack[n]
    BY <1>2, <1>3, SubSeqProperties
  <2> QED BY <1>1, <2>1 DEF Front
<1>5. TokenOK' /\ TreeOK' /\ Rising'
  BY <1>1, <1>2, <1>4 DEF TokenOK, TreeOK, Rising
<1>6. Nested'
  BY <1>1, <1>2, <1>4 DEF Nested
<1> QED BY <1>5, <1>6

-----------------------------------------------------------------------------
LEMMA NextIInv == IInv /\ [Next]_vars => IInv'
<1> SUFFICES ASSUME IInv, [Next]_vars PROVE IInv'
  OBVIOUS
<1> USE DEF IInv
<1>1. CASE UNCHANGED <<text, pos, value, last_token_type, tree>>
  BY <1>1, TreeUnchanged DEF TokenOK
<1>2. CASE ParseToken
  BY <1>2, LexerStep, TreeUnchanged DEF ParseToken, parse
<1>3. CASE SkipComment
  BY <1>3, TreeUnchanged DEF SkipComment, parse, TokenOK
<1>4. CASE StatementEnd
  BY <1>4, TreeUnchanged DEF StatementEnd, Given, Accept, TokenOK
<1>5. CASE Normal \/ StartBlock \/ EndBlock
  BY <1>5, NormalStep, StartBlockStep, EndBlockStep
<1>6. CASE Open \/ OpenFails \/ EndOfFile \/ Eof \/ BadTransition \/ main \/ Started
  BY <1>1, <1>6 DEF Open, OpenFails, EndOfFile, Eof, BadTransition, main, Started, vars,
     lexer, parse, tree
<1>7. CASE UNCHANGED vars
  BY <1>1, <1>7 DEF vars, lexer, parse, tree
<1> QED BY <1>2, <1>3, <1>4, <1>5, <1>6, <1>7 DEF Next

THEOREM Invariance == Spec => []IInv
<1> QED BY InitIInv, NextIInv, PTL DEF Spec

(* nginx_config_parser.cc:151-181: for every file, back() and top() are    *)
(* defined wherever Parse uses them, and no block is destroyed that the    *)
(* stack points to.                                                        *)
THEOREM AlwaysNested == Spec => []Nested
<1>1. IInv => Nested
  BY DEF IInv
<1> QED BY <1>1, Invariance, PTL

-----------------------------------------------------------------------------
(* What GetConfig finds: the words said in a statement, in a block, and    *)
(* the functions that its recursion may be.                                *)

Words == Seq(Chars)
Said(st, f) ==
  Following(st.tokens, PortKey) \o (IF st.child_block_ = 0 THEN <<>> ELSE f[st.child_block_])
Parts(block, f) == [s \in DOMAIN block |-> Said(block[s], f)]
Search(bs, f) == f = [b \in DOMAIN bs |-> FlattenSeq(Parts(bs[b], f))]

\* The children of a block have numbers up to n; the statements of two blocks say the same.
Within(block, n) == \A s \in 1..Len(block) : block[s].child_block_ \in 0..n
SaySame(b, f, c, g, n) == \A s \in 1..n : Said(b[s], f) = Said(c[s], g)

Places(tokens, key) == [n \in DOMAIN tokens |->
  IF n > 1 /\ tokens[n - 1] = key THEN <<tokens[n]>> ELSE <<>>]

LEMMA PlacesType ==
  ASSUME NEW tokens \in Seq(Words), NEW key
  PROVE  /\ Places(tokens, key) \in Seq(Seq(Words))
         /\ Following(tokens, key) = FlattenSeq(Places(tokens, key))
         /\ Following(tokens, key) \in Seq(Words)
<1>1. Places(tokens, key) \in Seq(Seq(Words))
  <2>1. ASSUME NEW n \in DOMAIN tokens
        PROVE  (IF n > 1 /\ tokens[n - 1] = key THEN <<tokens[n]>> ELSE <<>>) \in Seq(Words)
    OBVIOUS
  <2>2. Places(tokens, key) \in [1..Len(tokens) -> Seq(Words)]
    BY <2>1 DEF Places
  <2> QED BY <2>2
<1>2. Following(tokens, key) = FlattenSeq(Places(tokens, key))
  BY DEF Following, Places
<1> QED BY <1>1, <1>2, FlattenType

LEMMA RegroupWords == \A u, v, w \in Seq(Words) : u \o (v \o w) = (u \o v) \o w
BY Regroup

LEMMA FollowingFirst ==
  ASSUME NEW v \in Words, NEW key
  PROVE  Following(<<v>>, key) = <<>>
<1> DEFINE p == Places(<<v>>, key)
           e == <<>>
<1>1. p \in Seq(Seq(Words)) /\ Following(<<v>>, key) = FlattenSeq(p)
  <2>1. <<v>> \in Seq(Words)
    OBVIOUS
  <2> QED BY <2>1, PlacesType
<1>2. Len(p) = 1 /\ p[1] = <<>>
  BY DEF Places
<1>3. e \in Seq(Seq(Words)) /\ Len(e) = 0 /\ FlattenSeq(e) = e
  BY FlattenEmpty
<1> HIDE DEF p, e
<1>4. FlattenSeq(p) = FlattenSeq(e) \o p[Len(p)]
  <2>1. Len(p) = Len(e) + 1 /\ \A i \in 1..Len(e) : e[i] = p[i]
    BY <1>2, <1>3
  <2> QED BY <1>1, <1>3, <2>1, FlattenLast
<1>5. e = <<>>
  BY DEF e
<1> QED BY <1>1, <1>2, <1>3, <1>4, <1>5

LEMMA FollowingLast ==
  ASSUME NEW tokens \in Seq(Words), tokens # <<>>, NEW v \in Words, NEW key
  PROVE  Following(Append(tokens, v), key)
           = Following(tokens, key) \o (IF tokens[Len(tokens)] = key THEN <<v>> ELSE <<>>)
<1> DEFINE longer == Append(tokens, v)
           k == Len(tokens)
           f == Places(longer, key)
           e == Places(tokens, key)
<1>1. /\ k \in Nat /\ k >= 1 /\ Len(longer) = k + 1 /\ longer \in Seq(Words)
      /\ \A n \in 1..k : longer[n] = tokens[n]
      /\ longer[k + 1] = v
  OBVIOUS
<1> HIDE DEF longer, k
<1>2. f \in Seq(Seq(Words)) /\ Following(longer, key) = FlattenSeq(f)
  BY <1>1, PlacesType
<1>3. e \in Seq(Seq(Words)) /\ Following(tokens, key) = FlattenSeq(e)
  BY PlacesType
<1>4. Len(f) = Len(e) + 1 /\ Len(f) = k + 1
  BY <1>1 DEF Places, k
<1>5. ASSUME NEW i \in 1..Len(e) PROVE e[i] = f[i]
  <2>1. i \in 1..k /\ i \in 1..k + 1 /\ (i > 1 => i - 1 \in 1..k)
    BY <1>1, <1>4
  <2>2. i \in DOMAIN tokens /\ i \in DOMAIN longer
    BY <1>1, <2>1 DEF k
  <2> QED BY <1>1, <2>1, <2>2 DEF Places
<1>6. f[k + 1] = IF tokens[k] = key THEN <<v>> ELSE <<>>
  <2>1. k + 1 \in DOMAIN longer /\ (k + 1) - 1 = k /\ k + 1 > 1 /\ k \in 1..k
    BY <1>1
  <2> QED BY <1>1, <2>1 DEF Places
<1> HIDE DEF e, f
<1>7. FlattenSeq(f) = FlattenSeq(e) \o f[Len(f)]
  BY <1>2, <1>3, <1>4, <1>5, FlattenLast
<1> QED BY <1>2, <1>3, <1>4, <1>6, <1>7 DEF longer, k

LEMMA SaidType ==
  ASSUME NEW n \in Nat, NEW f \in [1..n -> Seq(Words)], NEW st \in Statements, st.child_block_ \in 0..n
  PROVE  Said(st, f) \in Seq(Words)
<1>1. Following(st.tokens, PortKey) \in Seq(Words)
  <2>1. st.tokens \in Seq(Words)
    BY DEF Statements, Words
  <2> QED BY <2>1, PlacesType
<1>2. (IF st.child_block_ = 0 THEN <<>> ELSE f[st.child_block_]) \in Seq(Words)
  OBVIOUS
<1> QED BY <1>1, <1>2 DEF Said

LEMMA PartsType ==
  ASSUME NEW n \in Nat, NEW f \in [1..n -> Seq(Words)], NEW block \in Seq(Statements),
         Within(block, n)
  PROVE  /\ Parts(block, f) \in Seq(Seq(Words)) /\ Len(Parts(block, f)) = Len(block)
         /\ \A s \in 1..Len(block) : Parts(block, f)[s] = Said(block[s], f)
         /\ FlattenSeq(Parts(block, f)) \in Seq(Words)
<1>1. \A s \in 1..Len(block) : Said(block[s], f) \in Seq(Words)
  BY SaidType DEF Within
<1>2. Parts(block, f) \in Seq(Seq(Words)) /\ Len(Parts(block, f)) = Len(block)
  <2>1. Parts(block, f) \in [1..Len(block) -> Seq(Words)]
    BY <1>1 DEF Parts
  <2> QED BY <2>1
<1>3. \A s \in 1..Len(block) : Parts(block, f)[s] = Said(block[s], f)
  BY DEF Parts
<1> QED BY <1>2, <1>3, FlattenType

\* A block whose statements' children say the same.
LEMMA PartsSame ==
  ASSUME NEW f, NEW g, NEW block \in Seq(Statements), SaySame(block, f, block, g, Len(block))
  PROVE  FlattenSeq(Parts(block, f)) = FlattenSeq(Parts(block, g))
<1>1. ASSUME NEW s \in DOMAIN block PROVE Said(block[s], f) = Said(block[s], g)
  BY DEF SaySame
<1>2. Parts(block, f) = Parts(block, g)
  BY <1>1, Zenon DEF Parts
<1> QED BY <1>2

\* A block whose last statement says more.
SaysMore(n, block, f, next, g, x) ==
  /\ n \in Nat /\ f \in [1..n -> Seq(Words)] /\ g \in [1..n -> Seq(Words)] /\ x \in Seq(Words)
  /\ block \in Seq(Statements) /\ Within(block, n) /\ block # <<>>
  /\ next \in Seq(Statements) /\ Within(next, n) /\ Len(next) = Len(block)
  /\ SaySame(block, f, next, g, Len(block) - 1)
  /\ Said(next[Len(block)], g) = Said(block[Len(block)], f) \o x

LEMMA PartsLast ==
  ASSUME NEW n, NEW block, NEW f, NEW next, NEW g, NEW x, SaysMore(n, block, f, next, g, x)
  PROVE  FlattenSeq(Parts(next, g)) = FlattenSeq(Parts(block, f)) \o x
<1> USE DEF SaysMore
<1> DEFINE k == Len(block)
           p == Parts(block, f)
           q == Parts(next, g)
           e == SubSeq(p, 1, k - 1)
<1>1. /\ p \in Seq(Seq(Words)) /\ Len(p) = k /\ \A s \in 1..k : p[s] = Said(block[s], f)
      /\ q \in Seq(Seq(Words)) /\ Len(q) = k /\ \A s \in 1..k : q[s] = Said(next[s], g)
  BY PartsType
<1>2. k \in Nat /\ k >= 1 /\ k \in 1..k
  OBVIOUS
<1>3. \A s \in 1..k - 1 : q[s] = p[s]
  BY <1>1, <1>2 DEF SaySame
<1>4. q[k] = p[k] \o x
  BY <1>1, <1>2
<1> HIDE DEF p, q, k
<1>5. e \in Seq(Seq(Words)) /\ Len(e) = k - 1 /\ \A s \in 1..k - 1 : e[s] = p[s]
  <2>1. k - 1 \in 0..Len(p) /\ \A s \in 1..k - 1 : p[s] \in Seq(Words)
    BY <1>1, <1>2
  <2> QED BY <1>1, <1>2, <2>1, SubSeqProperties
<1> HIDE DEF e
<1>6. FlattenSeq(p) = FlattenSeq(e) \o p[k]
  <2>1. Len(p) = Len(e) + 1 /\ \A i \in 1..Len(e) : e[i] = p[i]
    BY <1>1, <1>2, <1>5
  <2> QED BY <1>1, <1>5, <2>1, FlattenLast
<1>7. FlattenSeq(q) = FlattenSeq(e) \o q[k]
  <2>1. Len(q) = Len(e) + 1 /\ \A i \in 1..Len(e) : e[i] = q[i]
    BY <1>1, <1>2, <1>3, <1>5
  <2> QED BY <1>1, <1>5, <2>1, FlattenLast
<1>8. FlattenSeq(e) \in Seq(Words) /\ p[k] \in Seq(Words)
  BY <1>1, <1>2, <1>5, FlattenType
<1>9. FlattenSeq(e) \o (p[k] \o x) = (FlattenSeq(e) \o p[k]) \o x
  BY <1>8, RegroupWords, Zenon
<1> QED BY <1>4, <1>6, <1>7, <1>9 DEF p, q

\* A block with one statement more.
LEMMA PartsAppend ==
  ASSUME NEW n \in Nat, NEW f \in [1..n -> Seq(Words)], NEW block \in Seq(Statements),
         Within(block, n),
         NEW st \in Statements, st.child_block_ \in 0..n
  PROVE  FlattenSeq(Parts(Append(block, st), f)) = FlattenSeq(Parts(block, f)) \o Said(st, f)
<1> DEFINE next == Append(block, st)
           k == Len(block)
           p == Parts(block, f)
           q == Parts(next, f)
<1>1. /\ k \in Nat /\ Len(next) = k + 1 /\ next \in Seq(Statements) /\ next[k + 1] = st
      /\ \A s \in 1..k : next[s] = block[s]
  OBVIOUS
<1> HIDE DEF next
<1>2. Within(next, n)
  <2> SUFFICES ASSUME NEW s \in 1..k + 1 PROVE next[s].child_block_ \in 0..n
    BY <1>1 DEF Within
  <2>1. s \in 1..k \/ s = k + 1
    BY <1>1
  <2> QED BY <1>1, <2>1 DEF Within, k
<1>3. p \in Seq(Seq(Words)) /\ Len(p) = k /\ \A s \in 1..k : p[s] = Said(block[s], f)
  BY PartsType
<1>4. q \in Seq(Seq(Words)) /\ Len(q) = k + 1 /\ \A s \in 1..k + 1 : q[s] = Said(next[s], f)
  BY <1>1, <1>2, PartsType
<1> HIDE DEF p, q, k
<1>5. q[k + 1] = Said(st, f) /\ \A s \in 1..k : p[s] = q[s]
  <2>1. k + 1 \in 1..k + 1 /\ \A s \in 1..k : s \in 1..k + 1
    BY <1>1
  <2> QED BY <1>1, <1>3, <1>4, <2>1
<1>6. FlattenSeq(q) = FlattenSeq(p) \o q[Len(q)]
  BY <1>3, <1>4, <1>5, FlattenLast
<1> QED BY <1>4, <1>5, <1>6 DEF p, q, next

-----------------------------------------------------------------------------
(* The tree and the tokens: a block has one parent, which was made before  *)
(* it, and what GetConfig finds is the word after the first key in seen.   *)

Child(b, s) == blocks[b][s].child_block_

Shape ==
  /\ \A b \in 1..Len(blocks) : \A s \in 1..Len(blocks[b]) :
       Child(b, s) = 0 \/ Child(b, s) \in b + 1..Len(blocks)
  /\ \A b, c \in 1..Len(blocks) : \A s \in 1..Len(blocks[b]), t \in 1..Len(blocks[c]) :
       Child(b, s) # 0 /\ Child(b, s) = Child(c, t) => b = c /\ s = t

Recorded ==
  /\ seen \in Seq(TokenTypes \X Words)
  /\ IF seen = <<>> THEN last_token_type = "start" ELSE seen[Len(seen)][1] = last_token_type
  /\ last_token_type = "normal" =>
       LET tokens == blocks[Top][Len(blocks[Top])].tokens
       IN  seen # <<>> /\ tokens # <<>> /\ tokens[Len(tokens)] = seen[Len(seen)][2]

Answers(found) ==
  /\ KeyAt = {} => found = <<>>
  /\ \A n \in KeyAt : (\A m \in KeyAt : n <= m) => found # <<>> /\ found[1] = seen[n + 1][2]

Searched ==
  \E f \in [1..Len(blocks) -> Seq(Words)] : Search(blocks, f) /\ Answers(f[1])

SInv == IInv /\ Shape /\ Recorded /\ Searched

\* The recursion has one result: a child has a greater number.
LEMMA SearchUnique ==
  ASSUME TreeOK, Shape, NEW f, Search(blocks, f), NEW g, Search(blocks, g),
         NEW b \in 1..Len(blocks)
  PROVE  f[b] = g[b]
<1> DEFINE N == Len(blocks)
           T == {k \in Nat : \A c \in 1..N : c > N - k => f[c] = g[c]}
<1>1. N \in Nat /\ blocks \in Seq(Seq(Statements))
  BY DEF TreeOK
<1> HIDE DEF N
<1>2. 0 \in T
  BY <1>1
<1>3. ASSUME NEW k \in T PROVE k + 1 \in T
  <2> SUFFICES ASSUME NEW c \in 1..N, c > N - (k + 1) PROVE f[c] = g[c]
    OBVIOUS
  <2>1. c \in DOMAIN blocks /\ c \in 1..Len(blocks) /\ blocks[c] \in Seq(Statements)
    BY <1>1 DEF N
  <2>2. /\ f[c] = FlattenSeq(Parts(blocks[c], f))
        /\ g[c] = FlattenSeq(Parts(blocks[c], g))
    BY <2>1, Zenon DEF Search
  <2>3. ASSUME NEW s \in 1..Len(blocks[c])
        PROVE  Said(blocks[c][s], f) = Said(blocks[c][s], g)
    <3> DEFINE d == Child(c, s)
    <3>1. d = 0 \/ d \in c + 1..N
      BY <2>1 DEF Shape, N
    <3>2. d # 0 => d \in 1..N /\ d > N - k
      BY <1>1, <3>1
    <3>3. (IF d = 0 THEN <<>> ELSE f[d]) = (IF d = 0 THEN <<>> ELSE g[d])
      BY <3>2
    <3> QED BY <3>3, Zenon DEF Child, Said
  <2> HIDE DEF T
  <2>4. FlattenSeq(Parts(blocks[c], f)) = FlattenSeq(Parts(blocks[c], g))
    BY <2>1, <2>3, PartsSame DEF SaySame
  <2> QED BY <2>2, <2>4
<1>4. T = Nat
  <2>1. T \in SUBSET Nat
    OBVIOUS
  <2> HIDE DEF T
  <2> QED BY <1>2, <1>3, <2>1, Induction
<1>5. N \in T
  <2> HIDE DEF T
  <2> QED BY <1>1, <1>4
<1>6. b \in 1..N /\ b > N - N
  BY <1>1 DEF N
<1> QED BY <1>5, <1>6

\* GetConfig is the first word found.
LEMMA GetConfigIs ==
  ASSUME SInv
  PROVE  /\ KeyAt = {} => GetConfig(PortKey) = <<>>
         /\ \A n \in KeyAt : (\A m \in KeyAt : n <= m) => GetConfig(PortKey) = seen[n + 1][2]
<1> DEFINE found == CHOOSE f : Search(blocks, f)
<1>1. PICK f \in [1..Len(blocks) -> Seq(Words)] : Search(blocks, f) /\ Answers(f[1])
  BY DEF SInv, Searched
<1>2. Search(blocks, found)
  BY <1>1, Zenon
<1>3. GetConfig(PortKey) = IF found[1] = <<>> THEN <<>> ELSE Head(found[1])
  BY DEF GetConfig, Search, Parts, Said
<1> HIDE DEF found
<1>4. 1 \in 1..Len(blocks)
  BY Stack DEF SInv, IInv, TreeOK
<1>5. found[1] = f[1] /\ f[1] \in Seq(Words)
  BY <1>1, <1>2, <1>4, SearchUnique DEF SInv, IInv
<1>6. f[1] # <<>> => Head(f[1]) = f[1][1]
  BY <1>5
<1> QED BY <1>1, <1>3, <1>5, <1>6 DEF Answers

\* Another token is seen.
LEMMA AnswersStep ==
  ASSUME Recorded, NEW type \in TokenTypes, NEW v \in Words, seen' = Append(seen, <<type, v>>),
         NEW found \in Seq(Words), Answers(found), NEW x,
         x = IF type = "normal" /\ seen # <<>> /\ seen[Len(seen)] = <<"normal", PortKey>>
             THEN <<v>> ELSE <<>>
  PROVE  Answers(found \o x)'
<1> DEFINE k == Len(seen)
<1>1. /\ k \in Nat /\ Len(seen') = k + 1 /\ seen'[k + 1] = <<type, v>>
      /\ \A n \in 1..k : seen'[n] = seen[n]
      /\ k = 0 <=> seen = <<>>
  BY DEF Recorded
<1>2. x \in Seq(Words)
  OBVIOUS
<1> HIDE DEF k
<1>3. KeyAt = {n \in 1..k - 1 : seen[n] = <<"normal", PortKey>> /\ seen[n + 1][1] = "normal"}
  BY DEF KeyAt, k
<1>4. KeyAt' = {n \in 1..k : seen'[n] = <<"normal", PortKey>> /\ seen'[n + 1][1] = "normal"}
  <2>1. (k + 1) - 1 = k
    BY <1>1
  <2> QED BY <1>1, <2>1 DEF KeyAt
<1>5. KeyAt' = IF x = <<>> THEN KeyAt ELSE KeyAt \cup {k}
  <2>1. \A n \in 1..k - 1 : n \in KeyAt' <=> n \in KeyAt
    <3> TAKE n \in 1..k - 1
    <3>1. n \in 1..k /\ n + 1 \in 1..k
      BY <1>1
    <3> QED BY <1>1, <1>3, <1>4, <3>1
  <2>2. k \in KeyAt' <=> x # <<>>
    <3>1. k # 0 => (seen'[k] = seen[k] /\ k \in 1..k)
      BY <1>1
    <3>2. seen'[k + 1][1] = type
      BY <1>1
    <3>3. x # <<>> <=> (type = "normal" /\ seen # <<>> /\ seen[k] = <<"normal", PortKey>>)
      BY DEF k
    <3> QED BY <1>1, <1>4, <3>1, <3>2, <3>3
  <2>3. \A n \in KeyAt' : n \in 1..k - 1 \/ n = k
    BY <1>1, <1>4
  <2>4. \A n \in KeyAt : n \in 1..k - 1
    BY <1>3
  <2>5. ASSUME NEW n PROVE n \in KeyAt' <=> n \in KeyAt \/ (x # <<>> /\ n = k)
    <3>1. k \notin 1..k - 1
      BY <1>1
    <3> QED BY <2>1, <2>2, <2>3, <2>4, <3>1
  <2> QED BY <2>5
<1>6. ASSUME KeyAt' = {} PROVE found \o x = <<>>
  <2>1. x = <<>> /\ KeyAt = {}
    BY <1>5, <1>6
  <2> QED BY <2>1 DEF Answers
<1>7. ASSUME NEW n \in KeyAt', \A m \in KeyAt' : n <= m
      PROVE  found \o x # <<>> /\ (found \o x)[1] = seen'[n + 1][2]
  <2>1. CASE n \in KeyAt
    <3>1. found # <<>> /\ found[1] = seen[n + 1][2]
      BY <1>5, <1>7, <2>1 DEF Answers
    <3>2. seen'[n + 1] = seen[n + 1]
      BY <1>1, <1>3, <2>1
    <3>3. found \o x # <<>> /\ (found \o x)[1] = found[1]
      BY <1>2, <3>1
    <3> QED BY <3>1, <3>2, <3>3
  <2>2. CASE n \notin KeyAt
    <3>1. n = k /\ x # <<>>
      BY <1>5, <1>7, <2>2
    <3>2. KeyAt = {}
      <4> SUFFICES ASSUME NEW m \in KeyAt PROVE FALSE
        OBVIOUS
      <4>1. m \in 1..k - 1 /\ n <= m
        BY <1>3, <1>5, <1>7
      <4> QED BY <1>1, <3>1, <4>1
    <3>3. found = <<>> /\ x = <<v>>
      BY <3>1, <3>2 DEF Answers
    <3>4. found \o x = <<v>>
      BY <1>2, <3>3
    <3> QED BY <1>1, <3>1, <3>4
  <2> QED BY <2>1, <2>2
<1> QED BY <1>6, <1>7 DEF Answers

-----------------------------------------------------------------------------
(* The invariant: initially, and by what the actions do to the tree. *)

LEMMA InitSInv == Init => SInv
<1> SUFFICES ASSUME Init PROVE SInv
  OBVIOUS
<1>1. /\ blocks = << <<>> >> /\ config_stack = <<1>> /\ seen = <<>>
      /\ last_token_type = "start"
  BY DEF Init
<1>2. Shape /\ Recorded
  BY <1>1 DEF Shape, Recorded, TokenTypes
<1>3. Searched
  <2> DEFINE f == [b \in 1..1 |-> <<>>]
  <2>1. f \in [1..Len(blocks) -> Seq(Words)] /\ f[1] = <<>> /\ DOMAIN blocks = 1..1 /\ blocks[1] = <<>>
    BY <1>1
  <2>2. FlattenSeq(Parts(blocks[1], f)) = <<>>
    <3>1. Parts(blocks[1], f) = <<>>
      BY <2>1 DEF Parts
    <3> QED BY <3>1, FlattenEmpty
  <2>3. Search(blocks, f)
    BY <2>1, <2>2 DEF Search
  <2>4. Answers(f[1])
    BY <1>1, <2>1 DEF Answers, KeyAt
  <2> QED BY <2>1, <2>3, <2>4 DEF Searched
<1> QED BY <1>2, <1>3, InitIInv DEF SInv

(* What a word does to the tree. *)
Longer(st, v) == [st EXCEPT !.tokens = Append(@, v)]

LEMMA NormalShape ==
  ASSUME IInv, Normal
  PROVE  /\ Top \in 1..Len(blocks) /\ blocks[Top] \in Seq(Statements) /\ value \in Words
         /\ last_token_type # "normal" =>
              blocks' = [blocks EXCEPT ![Top] = Append(blocks[Top], Statement(value))]
         /\ last_token_type = "normal" =>
              /\ blocks[Top] # <<>> /\ Child(Top, Len(blocks[Top])) = 0
              /\ blocks' = [blocks EXCEPT ![Top] = [blocks[Top] EXCEPT
                   ![Len(blocks[Top])] = Longer(blocks[Top][Len(blocks[Top])], value)]]
         /\ seen' = Append(seen, <<"normal", value>>) /\ last_token_type' = "normal"
         /\ UNCHANGED config_stack
<1> DEFINE block == blocks[Top]
           grown == [block EXCEPT ![Len(block)].tokens = Append(@, value)]
<1>1. /\ block \in Seq(Statements) /\ value \in Words /\ Top \in 1..Len(blocks)
      /\ last_token_type = "normal" => block # <<>> /\ Child(Top, Len(block)) = 0
  BY Stack DEF IInv, TreeOK, TokenOK, Nested, Child, Words
<1>2. blocks' = [blocks EXCEPT ![Top] =
                   IF last_token_type # "normal" THEN Append(block, Statement(value)) ELSE grown]
  BY Zenon DEF Normal
<1>3. grown = [block EXCEPT ![Len(block)] = Longer(block[Len(block)], value)]
  BY DEF Longer
<1>4. seen' = Append(seen, <<"normal", value>>) /\ last_token_type' = "normal" /\ UNCHANGED config_stack
  BY DEF Normal, Accept, Given
<1> HIDE DEF grown
<1> QED BY <1>1, <1>2, <1>3, <1>4

(* The top block gets a statement without a child, or its last one grows.  *)
LEMMA NormalTree ==
  ASSUME IInv, Normal
  PROVE  /\ Len(blocks') = Len(blocks) /\ Top' = Top
         /\ \A b \in 1..Len(blocks) : b # Top => blocks'[b] = blocks[b]
         /\ blocks'[Top] \in Seq(Statements)
         /\ last_token_type # "normal" => blocks'[Top] = Append(blocks[Top], Statement(value))
         /\ last_token_type = "normal" =>
              /\ Len(blocks'[Top]) = Len(blocks[Top])
              /\ \A s \in 1..Len(blocks[Top]) - 1 : blocks'[Top][s] = blocks[Top][s]
              /\ blocks'[Top][Len(blocks[Top])] = Longer(blocks[Top][Len(blocks[Top])], value)
         /\ Statement(value) \in Statements /\ Statement(value).child_block_ = 0
         /\ Statement(value).tokens = <<value>>
<1>1. blocks \in Seq(Seq(Statements))
  BY DEF IInv, TreeOK
<1>2. Top' = Top
  BY NormalShape DEF Top
<1>3. /\ Statement(value) \in Statements /\ Statement(value).child_block_ = 0
      /\ Statement(value).tokens = <<value>>
  BY NormalShape DEF Statement, Statements, Words
<1>4. CASE last_token_type # "normal"
  <2> DEFINE next == Append(blocks[Top], Statement(value))
  <2>1. next \in Seq(Statements) /\ blocks' = [blocks EXCEPT ![Top] = next] /\ Top \in 1..Len(blocks)
    BY <1>3, <1>4, NormalShape
  <2> HIDE DEF next
  <2>2. /\ Len(blocks') = Len(blocks) /\ blocks'[Top] = next
        /\ \A b \in 1..Len(blocks) : b # Top => blocks'[b] = blocks[b]
    BY <1>1, <2>1
  <2> QED BY <1>2, <1>3, <1>4, <2>1, <2>2 DEF next
<1>5. CASE last_token_type = "normal"
  <2> DEFINE k == Len(blocks[Top])
             st == Longer(blocks[Top][k], value)
             next == [blocks[Top] EXCEPT ![k] = st]
  <2>1. /\ blocks' = [blocks EXCEPT ![Top] = next] /\ Top \in 1..Len(blocks)
        /\ blocks[Top] \in Seq(Statements) /\ k \in 1..k
    BY <1>5, NormalShape
  <2>2. st \in Statements
    <3>1. blocks[Top][k] \in Statements /\ value \in Seq(Chars)
      BY <2>1, NormalShape DEF Words
    <3> QED BY <3>1, LongerStatement DEF Longer
  <2> HIDE DEF st
  <2>3. /\ next \in Seq(Statements) /\ Len(next) = k /\ next[k] = st
        /\ \A s \in 1..k - 1 : next[s] = blocks[Top][s]
    BY <2>1, <2>2
  <2> HIDE DEF next
  <2>4. /\ Len(blocks') = Len(blocks) /\ blocks'[Top] = next
        /\ \A b \in 1..Len(blocks) : b # Top => blocks'[b] = blocks[b]
    BY <1>1, <2>1, <2>3
  <2> QED BY <1>2, <1>3, <1>5, <2>3, <2>4 DEF st
<1> QED BY <1>4, <1>5

LEMMA NormalKeepsShape ==
  ASSUME IInv, Shape, Normal
  PROVE  Shape'
<1> USE NormalTree, NormalShape
<1>1. blocks \in Seq(Seq(Statements)) /\ Len(blocks) \in Nat
  BY DEF IInv, TreeOK
<1>2. ASSUME NEW b \in 1..Len(blocks'), NEW s \in 1..Len(blocks'[b])
      PROVE  /\ b \in 1..Len(blocks)
             /\ Child(b, s)' # 0 => s \in 1..Len(blocks[b]) /\ Child(b, s)' = Child(b, s)
  <2>1. b \in 1..Len(blocks)
    OBVIOUS
  <2>2. CASE b # Top
    BY <2>1, <2>2 DEF Child
  <2>3. CASE b = Top /\ last_token_type # "normal"
    <3>1. /\ s \in 1..Len(blocks[b]) + 1
          /\ s \in 1..Len(blocks[b]) => blocks'[b][s] = blocks[b][s]
          /\ s = Len(blocks[b]) + 1 => blocks'[b][s] = Statement(value)
      BY <2>1, <2>3
    <3> QED BY <2>1, <2>3, <3>1 DEF Child
  <2>4. CASE b = Top /\ last_token_type = "normal"
    <3> DEFINE k == Len(blocks[b])
    <3>1. s \in 1..k /\ k \in Nat /\ (s # k => s \in 1..k - 1)
      BY <2>1, <2>4
    <3>2. s # k => Child(b, s)' = Child(b, s)
      BY <2>4, <3>1 DEF Child
    <3>3. Longer(blocks[b][k], value).child_block_ = blocks[b][k].child_block_
      <4>1. blocks[b][k] \in Statements /\ value \in Seq(Chars)
        <5>1. blocks[b] \in Seq(Statements) /\ k \in 1..k
          BY <2>4, <3>1
        <5> QED BY <5>1 DEF Words
      <4> QED BY <4>1, LongerStatement DEF Longer
    <3>4. s = k => Child(b, s)' = 0
      BY <2>4, <3>3 DEF Child
    <3> QED BY <2>1, <3>1, <3>2, <3>4
  <2> QED BY <2>1, <2>2, <2>3, <2>4
<1>3. ASSUME NEW b \in 1..Len(blocks'), NEW s \in 1..Len(blocks'[b])
      PROVE  Child(b, s)' = 0 \/ Child(b, s)' \in b + 1..Len(blocks')
  BY <1>2 DEF Shape
<1>4. ASSUME NEW b \in 1..Len(blocks'), NEW c \in 1..Len(blocks'),
             NEW s \in 1..Len(blocks'[b]), NEW t \in 1..Len(blocks'[c]),
             Child(b, s)' # 0, Child(b, s)' = Child(c, t)'
      PROVE  b = c /\ s = t
  <2>1. s \in 1..Len(blocks[b]) /\ Child(b, s)' = Child(b, s) /\ b \in 1..Len(blocks)
    BY <1>2, <1>4
  <2>2. t \in 1..Len(blocks[c]) /\ Child(c, t)' = Child(c, t) /\ c \in 1..Len(blocks)
    BY <1>2, <1>4
  <2>3. Child(b, s) # 0 /\ Child(b, s) = Child(c, t)
    BY <1>4, <2>1, <2>2
  <2>4. \A bb, cc \in 1..Len(blocks) : \A ss \in 1..Len(blocks[bb]), tt \in 1..Len(blocks[cc]) :
          Child(bb, ss) # 0 /\ Child(bb, ss) = Child(cc, tt) => bb = cc /\ ss = tt
    BY DEF Shape
  <2>5. /\ b \in 1..Len(blocks) /\ c \in 1..Len(blocks)
        /\ s \in 1..Len(blocks[b]) /\ t \in 1..Len(blocks[c])
    BY <2>1, <2>2
  <2> QED BY <2>3, <2>4, <2>5
<1>5. Shape' <=>
        /\ \A b \in 1..Len(blocks') : \A s \in 1..Len(blocks'[b]) :
             Child(b, s)' = 0 \/ Child(b, s)' \in b + 1..Len(blocks')
        /\ \A b, c \in 1..Len(blocks') : \A s \in 1..Len(blocks'[b]), t \in 1..Len(blocks'[c]) :
             Child(b, s)' # 0 /\ Child(b, s)' = Child(c, t)' => b = c /\ s = t
  BY DEF Shape
<1>6. \A b \in 1..Len(blocks') : \A s \in 1..Len(blocks'[b]) :
        Child(b, s)' = 0 \/ Child(b, s)' \in b + 1..Len(blocks')
  BY <1>3
<1>7. \A b, c \in 1..Len(blocks') : \A s \in 1..Len(blocks'[b]), t \in 1..Len(blocks'[c]) :
        Child(b, s)' # 0 /\ Child(b, s)' = Child(c, t)' => b = c /\ s = t
  BY <1>4, SMTT(30)
<1> QED BY <1>5, <1>6, <1>7

LEMMA NormalRecorded ==
  ASSUME IInv, Recorded, Normal
  PROVE  Recorded'
<1>1. /\ seen' = Append(seen, <<"normal", value>>) /\ last_token_type' = "normal"
      /\ seen \in Seq(TokenTypes \X Words) /\ value \in Words /\ Top' = Top
  BY NormalShape, NormalTree DEF Recorded
<1>2. <<"normal", value>> \in TokenTypes \X Words
  BY <1>1 DEF TokenTypes
<1>3. /\ seen' \in Seq(TokenTypes \X Words) /\ seen' # <<>>
      /\ seen'[Len(seen')] = <<"normal", value>>
  <2> DEFINE w == <<"normal", value>>
  <2> HIDE DEF w
  <2>1. seen' = Append(seen, w) => seen' \in Seq(TokenTypes \X Words) /\ seen' # <<>> /\ seen'[Len(seen')] = w
    BY <1>1, <1>2 DEF w
  <2> QED BY <1>1, <2>1 DEF w
<1>4. LET tokens == blocks'[Top][Len(blocks'[Top])].tokens
      IN  tokens # <<>> /\ tokens[Len(tokens)] = value
  <2>1. CASE last_token_type # "normal"
    <3>1. blocks'[Top][Len(blocks'[Top])] = Statement(value)
      BY <2>1, NormalTree, NormalShape
    <3>2. Statement(value).tokens = <<value>>
      BY DEF Statement
    <3> DEFINE tokens == <<value>>
    <3>3. tokens # <<>> /\ tokens[Len(tokens)] = value
      OBVIOUS
    <3> HIDE DEF tokens
    <3> QED BY <3>1, <3>2, <3>3 DEF tokens
  <2>2. CASE last_token_type = "normal"
    <3> DEFINE st == blocks[Top][Len(blocks[Top])]
    <3>1. blocks'[Top][Len(blocks'[Top])] = Longer(st, value)
      BY <2>2, NormalTree
    <3>2. st \in Statements
      BY <2>2, NormalShape
    <3>3. Longer(st, value).tokens = Append(st.tokens, value) /\ st.tokens \in Seq(Words)
      BY <3>2 DEF Longer, Statements, Words
    <3> QED BY <3>1, <3>3, SMTT(30)
  <2> QED BY <2>1, <2>2
<1> QED BY <1>1, <1>3, <1>4 DEF Recorded

\* A child of a statement is on the stack only if the block is.
OnStack == {config_stack[n] : n \in 1..Len(config_stack)}

LEMMA OffStack ==
  ASSUME IInv, Shape, last_token_type = "normal", NEW b \in 1..Len(blocks),
         NEW s \in 1..Len(blocks[b]), Child(b, s) \in OnStack
  PROVE  b \in OnStack /\ s = Len(blocks[b]) /\ b # Top
<1>1. Child(b, s) # 0
  BY Stack DEF OnStack, IInv
<1>2. PICK n \in 1..Len(config_stack) : Child(b, s) = config_stack[n]
  BY DEF OnStack
<1>3. n \in 2..Len(config_stack) /\ n - 1 \in 1..Len(config_stack)
  <2>1. Child(b, s) \in b + 1..Len(blocks) /\ config_stack[1] = 1
    BY <1>1 DEF Shape, IInv, Nested
  <2>2. n # 1
    BY <1>2, <2>1
  <2> QED BY <2>2, Stack DEF IInv
<1> DEFINE a == config_stack[n - 1]
<1>4. a \in 1..Len(blocks) /\ a \in OnStack
  BY <1>3, Stack DEF IInv, OnStack
<1>5. blocks[a] # <<>> /\ Child(a, Len(blocks[a])) = config_stack[n]
  BY <1>3 DEF IInv, Nested, Child
<1>6. Len(blocks[a]) \in 1..Len(blocks[a])
  BY <1>4, <1>5, SMTT(30) DEF IInv, TreeOK
<1> HIDE DEF a
<1>7. b = a /\ s = Len(blocks[a])
  BY <1>1, <1>2, <1>4, <1>5, <1>6 DEF Shape
<1>8. b # Top
  BY <1>1, <1>7 DEF IInv, Nested, Child
<1> QED BY <1>4, <1>7, <1>8

\* A block on the stack below the top is the parent of the next.
LEMMA BelowTop ==
  ASSUME IInv, NEW b \in OnStack, b # Top
  PROVE  /\ blocks[b] # <<>> /\ b \in 1..Len(blocks)
         /\ Child(b, Len(blocks[b])) \in OnStack /\ Child(b, Len(blocks[b])) # 0
<1>1. PICK n \in 1..Len(config_stack) : b = config_stack[n]
  BY DEF OnStack
<1>2. n + 1 \in 2..Len(config_stack) /\ n + 1 \in 1..Len(config_stack) /\ (n + 1) - 1 = n
  BY <1>1, Stack DEF Top, IInv
<1>3. blocks[b] # <<>> /\ Child(b, Len(blocks[b])) = config_stack[n + 1]
  BY <1>1, <1>2 DEF IInv, Nested, Child
<1>4. config_stack[n + 1] \in OnStack /\ config_stack[n + 1] # 0 /\ b \in 1..Len(blocks)
  BY <1>1, <1>2, Stack DEF OnStack, IInv
<1> QED BY <1>3, <1>4

\* The children, as PartsType and its like want them.
LEMMA Children ==
  ASSUME IInv, Shape
  PROVE  /\ Len(blocks) \in Nat /\ DOMAIN blocks = 1..Len(blocks) /\ 1 \in 1..Len(blocks)
         /\ \A b \in 1..Len(blocks) : blocks[b] \in Seq(Statements)
         /\ \A b \in 1..Len(blocks) : Within(blocks[b], Len(blocks))
         /\ Top \in OnStack
<1>1. blocks \in Seq(Seq(Statements)) /\ 1 \in 1..Len(blocks)
  BY Stack DEF IInv, TreeOK, Nested
<1>2. ASSUME NEW b \in 1..Len(blocks), NEW s \in 1..Len(blocks[b])
      PROVE  blocks[b][s].child_block_ \in 0..Len(blocks)
  <2>1. blocks[b][s].child_block_ = 0 \/ blocks[b][s].child_block_ \in b + 1..Len(blocks)
    BY DEF Shape, Child
  <2> QED BY <1>1, <2>1
<1>3. Top \in OnStack
  <2>1. Len(config_stack) \in 1..Len(config_stack)
    BY Stack DEF IInv
  <2> QED BY <2>1 DEF OnStack, Top
<1>4. \A b \in 1..Len(blocks) : Within(blocks[b], Len(blocks))
  BY <1>2 DEF Within
<1>5. /\ Len(blocks) \in Nat /\ DOMAIN blocks = 1..Len(blocks)
      /\ \A b \in 1..Len(blocks) : blocks[b] \in Seq(Statements)
  BY <1>1
<1> QED BY <1>1, <1>3, <1>4, <1>5

(* A word that begins a statement says nothing. *)
LEMMA NormalBegins ==
  ASSUME SInv, Normal, last_token_type # "normal"
  PROVE  Searched'
<1> USE DEF SInv
<1>1. PICK f \in [1..Len(blocks) -> Seq(Words)] : Search(blocks, f) /\ Answers(f[1])
  BY DEF Searched
<1>2. /\ Len(blocks) \in Nat /\ DOMAIN blocks = 1..Len(blocks) /\ Len(blocks') = Len(blocks)
      /\ blocks'[Top] = Append(blocks[Top], Statement(value)) /\ Top \in 1..Len(blocks)
      /\ \A b \in 1..Len(blocks) : b # Top => blocks'[b] = blocks[b]
  BY Children, NormalTree, NormalShape
<1>3. \A b \in 1..Len(blocks) : f[b] = FlattenSeq(Parts(blocks[b], f))
  BY <1>1, <1>2, Zenon DEF Search
<1>4. f[Top] = FlattenSeq(Parts(blocks'[Top], f))
  <2> DEFINE st == Statement(value)
  <2>1. st \in Statements /\ st.child_block_ = 0 /\ st.tokens = <<value>> /\ value \in Words
    BY NormalTree, NormalShape
  <2> HIDE DEF st
  <2>2. Said(st, f) = <<>>
    <3>1. Following(st.tokens, PortKey) = <<>>
      BY <2>1, FollowingFirst
    <3> QED BY <2>1, <3>1 DEF Said
  <2>3. st.child_block_ \in 0..Len(blocks)
    BY <1>2, <2>1
  <2>4. FlattenSeq(Parts(Append(blocks[Top], st), f)) = FlattenSeq(Parts(blocks[Top], f)) \o Said(st, f)
    BY <1>2, <2>1, <2>3, Children, PartsAppend
  <2>5. f[Top] \o <<>> = f[Top] /\ f[Top] = FlattenSeq(Parts(blocks[Top], f))
    BY <1>2, <1>3
  <2> QED BY <1>2, <2>2, <2>4, <2>5 DEF st
<1>5. Search(blocks', f)
  <2>1. \A b \in 1..Len(blocks) : f[b] = FlattenSeq(Parts(blocks'[b], f))
    BY <1>2, <1>3, <1>4
  <2>2. DOMAIN blocks' = 1..Len(blocks)
    <3>1. blocks' \in Seq(Seq(Statements))
      BY NormalStep DEF IInv, TreeOK
    <3> QED BY <1>2, <3>1
  <2>3. f = [b \in 1..Len(blocks) |-> f[b]]
    BY <1>1
  <2>4. f = [b \in 1..Len(blocks) |-> FlattenSeq(Parts(blocks'[b], f))]
    BY <2>1, <2>3, Zenon
  <2> QED BY <2>2, <2>4 DEF Search
<1>6. Answers(f[1])'
  <2>1. f[1] \in Seq(Words) /\ f[1] \o <<>> = f[1]
    BY <1>1, Children
  <2>2. ~ (seen # <<>> /\ seen[Len(seen)] = <<"normal", PortKey>>)
    BY DEF Recorded
  <2>3. "normal" \in TokenTypes /\ value \in Words /\ seen' = Append(seen, <<"normal", value>>)
    BY NormalShape DEF TokenTypes
  <2>4. Answers(f[1] \o <<>>)'
    BY <1>1, <2>1, <2>2, <2>3, AnswersStep
  <2> QED BY <2>1, <2>4
<1> QED BY <1>1, <1>2, <1>5, <1>6 DEF Searched

(* One that goes on says what it is after the key, and so do the blocks    *)
(* that its block is in.                                                   *)
LEMMA NormalGoesOn ==
  ASSUME SInv, Normal, last_token_type = "normal"
  PROVE  Searched'
<1> USE DEF SInv
<1> DEFINE N == Len(blocks)
           k == Len(blocks[Top])
           st == blocks[Top][k]
<1>x. PICK x : x = IF st.tokens[Len(st.tokens)] = PortKey THEN <<value>> ELSE <<>>
  OBVIOUS
<1>1. PICK f \in [1..N -> Seq(Words)] : Search(blocks, f) /\ Answers(f[1])
  BY DEF Searched
<1>g. PICK g : g = [b \in 1..N |-> IF b \in OnStack THEN f[b] \o x ELSE f[b]]
  OBVIOUS
<1>2. /\ N \in Nat /\ DOMAIN blocks = 1..N /\ Len(blocks') = N /\ Top \in 1..N
      /\ \A b \in 1..N : b # Top => blocks'[b] = blocks[b]
      /\ \A b \in 1..N : blocks[b] \in Seq(Statements)
      /\ \A b \in 1..N : Within(blocks[b], N)
      /\ Top \in OnStack
  BY Children, NormalTree, NormalShape
<1>3. \A b \in 1..N : f[b] = FlattenSeq(Parts(blocks[b], f))
  BY <1>1, <1>2, Zenon DEF Search
<1>4. k \in Nat /\ k \in 1..k /\ blocks[Top] # <<>> /\ st \in Statements /\ st.child_block_ = 0
  BY <1>2, NormalShape DEF Child
<1>5. /\ st.tokens \in Seq(Words) /\ st.tokens # <<>> /\ value \in Words /\ x \in Seq(Words)
      /\ st.tokens[Len(st.tokens)] = seen[Len(seen)][2] /\ seen # <<>>
  <2>1. value \in Words /\ st.tokens \in Seq(Words)
    BY <1>4, NormalShape DEF Statements, Words
  <2>2. x \in Seq(Words)
    BY <1>x, <2>1
  <2> QED BY <2>1, <2>2 DEF Recorded
<1> HIDE DEF st, k
<1>6. g \in [1..N -> Seq(Words)]
  BY <1>1, <1>5, <1>g
<1>7. /\ \A b \in 1..N : b \in OnStack => g[b] = f[b] \o x
      /\ \A b \in 1..N : b \notin OnStack => g[b] = f[b]
  BY <1>g
<1> HIDE DEF N
\* Statements before the last one of a block say what they said.
<1>8. ASSUME NEW b \in 1..N, NEW s \in 1..Len(blocks[b]), blocks[b][s].child_block_ \notin OnStack
      PROVE  Said(blocks[b][s], g) = Said(blocks[b][s], f)
  <2> DEFINE c == blocks[b][s].child_block_
  <2>1. c = 0 \/ (c \in 1..N /\ g[c] = f[c])
    BY <1>2, <1>7, <1>8 DEF Within
  <2>2. (IF c = 0 THEN <<>> ELSE g[c]) = (IF c = 0 THEN <<>> ELSE f[c])
    BY <2>1
  <2> QED BY <2>2, Zenon DEF Said
<1>9. ASSUME NEW b \in 1..N, NEW s \in 1..Len(blocks[b]), blocks[b][s].child_block_ \in OnStack
      PROVE  b \in OnStack /\ s = Len(blocks[b]) /\ b # Top
  BY <1>9, OffStack DEF Child, N
<1>10. ASSUME NEW b \in 1..N PROVE g[b] = FlattenSeq(Parts(blocks'[b], g))
  <2>1. CASE b \notin OnStack
    <3>1. blocks'[b] = blocks[b]
      BY <1>2, <2>1
    <3>2. SaySame(blocks[b], f, blocks[b], g, Len(blocks[b]))
      <4> SUFFICES ASSUME NEW s \in 1..Len(blocks[b])
                   PROVE  Said(blocks[b][s], f) = Said(blocks[b][s], g)
        BY DEF SaySame
      <4>1. blocks[b][s].child_block_ \notin OnStack
        BY <1>9, <2>1
      <4> QED BY <1>8, <4>1
    <3>3. FlattenSeq(Parts(blocks[b], f)) = FlattenSeq(Parts(blocks[b], g))
      BY <1>2, <3>2, PartsSame
    <3> QED BY <1>3, <1>7, <2>1, <3>1, <3>3
  <2>2. CASE b = Top
    <3> DEFINE next == blocks'[Top]
    <3>1. /\ next \in Seq(Statements) /\ Len(next) = k /\ next[k] = Longer(st, value)
          /\ \A s \in 1..k - 1 : next[s] = blocks[Top][s]
      BY NormalTree DEF k, st
    <3>2. /\ Longer(st, value).tokens = Append(st.tokens, value)
          /\ Longer(st, value).child_block_ = 0
      BY <1>4 DEF Longer, Statements
    <3> HIDE DEF next
    <3>3. Said(next[k], g) = Said(st, f) \o x
      <4>1. Following(Append(st.tokens, value), PortKey) = Following(st.tokens, PortKey) \o x
        BY <1>5, <1>x, FollowingLast
      <4>2. Following(st.tokens, PortKey) \in Seq(Words)
        BY <1>5, PlacesType
      <4>3. Said(next[k], g) = (Following(st.tokens, PortKey) \o x) \o <<>>
        BY <3>1, <3>2, <4>1 DEF Said
      <4>4. Said(st, f) = Following(st.tokens, PortKey) \o <<>>
        BY <1>4 DEF Said
      <4>5. /\ Following(st.tokens, PortKey) \o <<>> = Following(st.tokens, PortKey)
            /\ (Following(st.tokens, PortKey) \o x) \o <<>> = Following(st.tokens, PortKey) \o x
        BY <1>5, <4>2
      <4> QED BY <4>3, <4>4, <4>5
    <3>4. SaySame(blocks[Top], f, next, g, Len(blocks[Top]) - 1)
      <4> SUFFICES ASSUME NEW s \in 1..k - 1 PROVE Said(blocks[Top][s], f) = Said(next[s], g)
        BY DEF SaySame, k
      <4>1. s \in 1..Len(blocks[Top]) /\ s # Len(blocks[Top])
        BY <1>4 DEF k
      <4>2. blocks[Top][s].child_block_ \notin OnStack
        BY <1>2, <1>9, <4>1
      <4> QED BY <1>2, <1>8, <3>1, <4>1, <4>2
    <3>5. Within(next, N)
      <4> SUFFICES ASSUME NEW s \in 1..Len(next) PROVE next[s].child_block_ \in 0..N
        BY DEF Within
      <4>1. s = k \/ s \in 1..k - 1
        BY <1>4, <3>1
      <4>2. s \in 1..k - 1 => s \in 1..Len(blocks[Top])
        BY <1>4 DEF k
      <4>3. s = k => next[s].child_block_ = 0
        BY <3>1, <3>2
      <4>4. s \in 1..k - 1 => next[s].child_block_ \in 0..N
        BY <1>2, <3>1, <4>2 DEF Within
      <4> QED BY <1>2, <4>1, <4>3, <4>4
    <3>6. FlattenSeq(Parts(next, g)) = FlattenSeq(Parts(blocks[Top], f)) \o x
      <4>1. /\ Said(next[Len(blocks[Top])], g) = Said(blocks[Top][Len(blocks[Top])], f) \o x
            /\ Len(next) = Len(blocks[Top])
        BY <3>1, <3>3 DEF k, st
      <4>2. SaysMore(N, blocks[Top], f, next, g, x)
        BY <1>1, <1>2, <1>4, <1>5, <1>6, <3>1, <3>4, <3>5, <4>1 DEF SaysMore
      <4> QED BY <4>2, PartsLast, SMT
    <3>7. g[Top] = f[Top] \o x
      BY <1>2, <1>7
    <3> QED BY <1>2, <1>3, <2>2, <3>6, <3>7 DEF next
  <2>3. CASE b \in OnStack /\ b # Top
    <3> DEFINE j == Len(blocks[b])
               c == blocks[b][j].child_block_
    <3>1. blocks'[b] = blocks[b] /\ blocks[b] \in Seq(Statements) /\ blocks[b] # <<>>
      BY <1>2, <2>3, BelowTop
    <3>2. j \in Nat /\ j \in 1..j /\ blocks[b][j] \in Statements
      BY <3>1
    <3>3. c \in OnStack /\ c # 0 /\ c \in 1..N
      BY <1>2, <2>3, <3>2, BelowTop DEF Child, Within
    <3>4. Said(blocks[b][j], g) = Said(blocks[b][j], f) \o x
      <4> DEFINE w == Following(blocks[b][j].tokens, PortKey)
      <4>1. w \in Seq(Words) /\ f[c] \in Seq(Words) /\ g[c] = f[c] \o x
        <5>1. blocks[b][j].tokens \in Seq(Words)
          BY <3>2 DEF Statements, Words
        <5> QED BY <1>1, <1>7, <3>3, <5>1, PlacesType
      <4>2. Said(blocks[b][j], g) = w \o g[c] /\ Said(blocks[b][j], f) = w \o f[c]
        BY <3>3 DEF Said
      <4> HIDE DEF w, c
      <4>3. w \o (f[c] \o x) = (w \o f[c]) \o x
        BY <1>5, <4>1, RegroupWords, Zenon
      <4> QED BY <4>1, <4>2, <4>3
    <3>5. SaySame(blocks[b], f, blocks[b], g, Len(blocks[b]) - 1)
      <4> SUFFICES ASSUME NEW s \in 1..j - 1 PROVE Said(blocks[b][s], f) = Said(blocks[b][s], g)
        BY DEF SaySame
      <4>1. s \in 1..Len(blocks[b]) /\ s # Len(blocks[b])
        BY <3>2
      <4>2. blocks[b][s].child_block_ \notin OnStack
        BY <1>9, <4>1
      <4> QED BY <1>8, <4>1, <4>2
    <3>6. FlattenSeq(Parts(blocks[b], g)) = FlattenSeq(Parts(blocks[b], f)) \o x
      <4>1. SaysMore(N, blocks[b], f, blocks[b], g, x)
        BY <1>1, <1>2, <1>5, <1>6, <3>1, <3>4, <3>5 DEF SaysMore
      <4> QED BY <4>1, PartsLast, SMT
    <3> QED BY <1>3, <1>7, <2>3, <3>1, <3>6
  <2> QED BY <2>1, <2>2, <2>3
<1>11. Search(blocks', g)
  <2>1. DOMAIN blocks' = 1..N
    <3>1. blocks' \in Seq(Seq(Statements))
      BY NormalStep DEF IInv, TreeOK
    <3> QED BY <1>2, <3>1
  <2>2. g = [b \in 1..N |-> g[b]]
    BY <1>6
  <2>3. g = [b \in 1..N |-> FlattenSeq(Parts(blocks'[b], g))]
    BY <1>10, <2>2, Zenon
  <2> QED BY <2>1, <2>3 DEF Search
<1>12. Answers(g[1])'
  <2>1. 1 \in 1..N /\ 1 \in OnStack
    BY Stack, Children DEF IInv, Nested, OnStack, N
  <2>2. "normal" \in TokenTypes /\ value \in Words /\ seen' = Append(seen, <<"normal", value>>)
    BY NormalShape DEF TokenTypes
  <2>3. seen[Len(seen)] = <<"normal", PortKey>> <=> st.tokens[Len(st.tokens)] = PortKey
    <3>1. seen[Len(seen)] \in TokenTypes \X Words /\ seen[Len(seen)][1] = "normal"
      BY <1>5 DEF Recorded
    <3> QED BY <1>5, <3>1
  <2>4. Answers(f[1] \o x)'
    <3>1. x = IF "normal" = "normal" /\ seen # <<>> /\ seen[Len(seen)] = <<"normal", PortKey>>
              THEN <<value>> ELSE <<>>
      BY <1>5, <1>x, <2>3 DEF st, k
    <3>2. f[1] \in Seq(Words)
      BY <1>1, <2>1
    <3> QED BY <1>1, <2>2, <3>1, <3>2, AnswersStep
  <2> QED BY <1>7, <2>1, <2>4
<1> QED BY <1>2, <1>6, <1>11, <1>12 DEF Searched, N

(* A "{": the last statement of the top block gets a child that says       *)
(* nothing yet.                                                            *)
LEMMA StartBlockTree ==
  ASSUME IInv, StartBlock
  PROVE  /\ Top \in 1..Len(blocks) /\ blocks[Top] # <<>> /\ Child(Top, Len(blocks[Top])) = 0
         /\ blocks' \in Seq(Seq(Statements)) /\ Len(blocks') = Len(blocks) + 1
         /\ blocks'[Len(blocks) + 1] = <<>>
         /\ \A b \in 1..Len(blocks) : b # Top => blocks'[b] = blocks[b]
         /\ blocks'[Top] \in Seq(Statements) /\ Len(blocks'[Top]) = Len(blocks[Top])
         /\ \A s \in 1..Len(blocks[Top]) - 1 : blocks'[Top][s] = blocks[Top][s]
         /\ blocks'[Top][Len(blocks[Top])] =
              [blocks[Top][Len(blocks[Top])] EXCEPT !.child_block_ = Len(blocks) + 1]
         /\ seen' = Append(seen, <<"start_block", value>>) /\ last_token_type' = "start_block"
         /\ last_token_type = "normal" /\ value \in Words
<1> DEFINE block == blocks[Top]
           new   == Len(blocks) + 1
           k     == Len(block)
           st    == [block[k] EXCEPT !.child_block_ = new]
           next  == [block EXCEPT ![k] = st]
<1>1. /\ block \in Seq(Statements) /\ block # <<>> /\ Top \in 1..Len(blocks)
      /\ last_token_type = "normal" /\ Child(Top, Len(block)) = 0
      /\ value \in Words /\ blocks \in Seq(Seq(Statements)) /\ new \in Nat
  BY Stack, SMTT(30) DEF IInv, TreeOK, TokenOK, Nested, StartBlock, Given, Transition, Before, Child, Words
<1>2. blocks' = Append([blocks EXCEPT ![Top] = next], <<>>)
  <2>1. blocks' = Append([blocks EXCEPT ![Top][k].child_block_ = new], <<>>)
    BY Zenon DEF StartBlock
  <2> QED BY <2>1
<1>3. seen' = Append(seen, <<"start_block", value>>) /\ last_token_type' = "start_block"
  BY DEF StartBlock, Accept, Given
<1> HIDE DEF new
<1>4. st \in Statements /\ k \in 1..k
  <2>1. block[k] \in Statements /\ k \in 1..k
    BY <1>1
  <2> QED BY <1>1, <2>1 DEF Statements
<1> HIDE DEF st, block
<1>5. /\ next \in Seq(Statements) /\ Len(next) = k /\ next[k] = st
      /\ \A s \in 1..k - 1 : next[s] = block[s]
  BY <1>1, <1>4
<1> HIDE DEF next
<1> DEFINE old == [blocks EXCEPT ![Top] = next]
<1>6. /\ old \in Seq(Seq(Statements)) /\ Len(old) = Len(blocks) /\ old[Top] = next
      /\ \A b \in 1..Len(blocks) : b # Top => old[b] = blocks[b]
  BY <1>1, <1>5
<1> HIDE DEF old
<1>7. /\ blocks' \in Seq(Seq(Statements)) /\ Len(blocks') = Len(old) + 1
      /\ blocks'[Len(old) + 1] = <<>> /\ \A b \in 1..Len(old) : blocks'[b] = old[b]
  <2>1. blocks' = Append(old, <<>>) /\ <<>> \in Seq(Statements)
    BY <1>2 DEF old
  <2> QED BY <1>6, <2>1
<1> QED BY <1>1, <1>3, <1>5, <1>6, <1>7, ZenonT(40) DEF st, block, new

LEMMA StartBlockKeepsShape ==
  ASSUME IInv, Shape, StartBlock
  PROVE  Shape'
<1> DEFINE N == Len(blocks)
           k == Len(blocks[Top])
<1>1. N \in Nat /\ k \in Nat /\ k \in 1..k /\ blocks \in Seq(Seq(Statements))
  <2>1. blocks \in Seq(Seq(Statements)) /\ Top \in 1..Len(blocks) /\ blocks[Top] # <<>>
    BY StartBlockTree DEF IInv, TreeOK
  <2>2. blocks[Top] \in Seq(Statements)
    BY <2>1
  <2> QED BY <2>1, <2>2
<1>2. ASSUME NEW b \in 1..Len(blocks'), NEW s \in 1..Len(blocks'[b])
      PROVE  /\ b \in 1..N /\ s \in 1..Len(blocks[b])
             /\ IF b = Top /\ s = k THEN Child(b, s)' = N + 1 ELSE Child(b, s)' = Child(b, s)
  <2>1. b \in 1..N
    <3>1. b # N + 1
      <4> SUFFICES ASSUME b = N + 1 PROVE FALSE
        OBVIOUS
      <4>1. blocks'[b] = <<>>
        BY StartBlockTree
      <4>2. s \in 1..0
        BY <4>1
      <4> QED BY <4>2
    <3>2. b \in 1..N + 1
      BY StartBlockTree
    <3> HIDE DEF N
    <3> QED BY <1>1, <3>1, <3>2
  <2>2. CASE b # Top
    BY <2>1, <2>2, StartBlockTree DEF Child
  <2>3. CASE b = Top
    <3>1. s \in 1..k /\ (s # k => s \in 1..k - 1)
      BY <1>1, <2>3, StartBlockTree, SMTT(30)
    <3>2. s # k => Child(b, s)' = Child(b, s)
      BY <2>3, <3>1, StartBlockTree DEF Child
    <3>3. s = k => Child(b, s)' = N + 1
      <4>1. blocks[Top][k] \in Statements
        <5>1. Top \in 1..N /\ blocks[Top] \in Seq(Statements)
          BY <1>1, StartBlockTree
        <5> HIDE DEF N
        <5> QED BY <1>1, <5>1
      <4>2. [blocks[Top][k] EXCEPT !.child_block_ = N + 1].child_block_ = N + 1
        BY <4>1 DEF Statements
      <4> QED BY <2>3, <4>2, StartBlockTree DEF Child
    <3> QED BY <2>1, <2>3, <3>1, <3>2, <3>3
  <2> QED BY <2>1, <2>2, <2>3
<1>3. ASSUME NEW b \in 1..N, NEW s \in 1..Len(blocks[b])
      PROVE  Child(b, s) = 0 \/ Child(b, s) \in b + 1..N
  BY DEF Shape
<1>4. \A b \in 1..Len(blocks') : \A s \in 1..Len(blocks'[b]) :
        Child(b, s)' = 0 \/ Child(b, s)' \in b + 1..Len(blocks')
  <2> SUFFICES ASSUME NEW b \in 1..Len(blocks'), NEW s \in 1..Len(blocks'[b])
               PROVE  Child(b, s)' = 0 \/ Child(b, s)' \in b + 1..N + 1
    BY StartBlockTree
  <2>1. b \in 1..N /\ s \in 1..Len(blocks[b])
    BY <1>2
  <2>2. Child(b, s) = 0 \/ Child(b, s) \in b + 1..N
    BY <1>3, <2>1
  <2>3. Child(b, s)' = N + 1 \/ Child(b, s)' = Child(b, s)
    BY <1>2
  <2>4. b + 1 <= N + 1
    BY <1>1, <2>1
  <2> HIDE DEF N
  <2>5. Child(b, s) \in b + 1..N => Child(b, s) \in b + 1..N + 1
    BY <1>1, <2>1
  <2>6. N + 1 \in b + 1..N + 1
    BY <1>1, <2>1, <2>4
  <2> QED BY <2>2, <2>3, <2>5, <2>6
<1>5. \A b, c \in 1..Len(blocks') : \A s \in 1..Len(blocks'[b]), t \in 1..Len(blocks'[c]) :
        Child(b, s)' # 0 /\ Child(b, s)' = Child(c, t)' => b = c /\ s = t
  <2> SUFFICES ASSUME NEW b \in 1..Len(blocks'), NEW c \in 1..Len(blocks'),
                      NEW s \in 1..Len(blocks'[b]), NEW t \in 1..Len(blocks'[c]),
                      Child(b, s)' # 0, Child(b, s)' = Child(c, t)'
               PROVE  b = c /\ s = t
    OBVIOUS
  <2>1. /\ b \in 1..N /\ s \in 1..Len(blocks[b])
        /\ IF b = Top /\ s = k THEN Child(b, s)' = N + 1 ELSE Child(b, s)' = Child(b, s)
    BY <1>2
  <2>2. /\ c \in 1..N /\ t \in 1..Len(blocks[c])
        /\ IF c = Top /\ t = k THEN Child(c, t)' = N + 1 ELSE Child(c, t)' = Child(c, t)
    BY <1>2
  <2>3. Child(b, s) # N + 1 /\ Child(c, t) # N + 1
    <3>1. Child(b, s) = 0 \/ Child(b, s) \in b + 1..N
      BY <1>3, <2>1
    <3>2. Child(c, t) = 0 \/ Child(c, t) \in c + 1..N
      BY <1>3, <2>2
    <3>3. b \in 1..N /\ c \in 1..N
      BY <2>1, <2>2
    <3> HIDE DEF N
    <3>4. Child(b, s) # N + 1
      BY <1>1, <3>1, <3>3
    <3>5. Child(c, t) # N + 1
      BY <1>1, <3>2, <3>3
    <3> QED BY <3>4, <3>5
  <2>4. (b = Top /\ s = k) <=> (c = Top /\ t = k)
    <3> HIDE DEF N, k
    <3> QED BY <2>1, <2>2, <2>3
  <2>5. CASE ~ (b = Top /\ s = k)
    <3>1. Child(b, s) # 0 /\ Child(b, s) = Child(c, t)
      <4> HIDE DEF N, k
      <4> QED BY <2>1, <2>2, <2>4, <2>5
    <3>2. /\ b \in 1..Len(blocks) /\ c \in 1..Len(blocks)
          /\ s \in 1..Len(blocks[b]) /\ t \in 1..Len(blocks[c])
      BY <2>1, <2>2
    <3>3. \A bb, cc \in 1..Len(blocks) : \A ss \in 1..Len(blocks[bb]), tt \in 1..Len(blocks[cc]) :
            Child(bb, ss) # 0 /\ Child(bb, ss) = Child(cc, tt) => bb = cc /\ ss = tt
      BY DEF Shape
    <3> QED BY <3>1, <3>2, <3>3
  <2> QED BY <2>4, <2>5
<1>6. Shape' <=>
        /\ \A b \in 1..Len(blocks') : \A s \in 1..Len(blocks'[b]) :
             Child(b, s)' = 0 \/ Child(b, s)' \in b + 1..Len(blocks')
        /\ \A b, c \in 1..Len(blocks') : \A s \in 1..Len(blocks'[b]), t \in 1..Len(blocks'[c]) :
             Child(b, s)' # 0 /\ Child(b, s)' = Child(c, t)' => b = c /\ s = t
  BY DEF Shape
<1> QED BY <1>4, <1>5, <1>6

LEMMA StartBlockSearched ==
  ASSUME SInv, StartBlock
  PROVE  Searched'
<1> USE DEF SInv
<1> DEFINE N == Len(blocks)
           k == Len(blocks[Top])
<1>1. PICK f \in [1..N -> Seq(Words)] : Search(blocks, f) /\ Answers(f[1])
  BY DEF Searched
<1>g. PICK g : g = [b \in 1..N + 1 |-> IF b = N + 1 THEN <<>> ELSE f[b]]
  OBVIOUS
<1>2. /\ N \in Nat /\ DOMAIN blocks = 1..N /\ Len(blocks') = N + 1 /\ Top \in 1..N
      /\ \A b \in 1..N : b # Top => blocks'[b] = blocks[b]
      /\ \A b \in 1..N : blocks[b] \in Seq(Statements)
      /\ \A b \in 1..N : Within(blocks[b], N)
      /\ DOMAIN blocks' = 1..N + 1 /\ blocks'[N + 1] = <<>>
  BY Children, StartBlockTree
<1>3. \A b \in 1..N : f[b] = FlattenSeq(Parts(blocks[b], f))
  BY <1>1, <1>2, Zenon DEF Search
<1>4. /\ g \in [1..N + 1 -> Seq(Words)] /\ g[N + 1] = <<>>
      /\ \A b \in 1..N : g[b] = f[b]
  BY <1>1, <1>2, <1>g
<1>5. /\ k \in Nat /\ k \in 1..k /\ Child(Top, k) = 0
      /\ Len(blocks'[Top]) = k /\ blocks'[Top] \in Seq(Statements)
      /\ \A s \in 1..k - 1 : blocks'[Top][s] = blocks[Top][s]
      /\ blocks'[Top][k] = [blocks[Top][k] EXCEPT !.child_block_ = N + 1]
      /\ blocks[Top][k] \in Statements
  BY <1>2, StartBlockTree
<1> HIDE DEF N
<1>6. ASSUME NEW b \in 1..N, NEW s \in 1..Len(blocks[b])
      PROVE  Said(blocks[b][s], f) = Said(blocks[b][s], g)
  <2> DEFINE c == blocks[b][s].child_block_
  <2>0. c \in 0..N
    BY <1>2 DEF Within
  <2>1. c = 0 \/ (c \in 1..N /\ g[c] = f[c])
    <3> HIDE DEF c
    <3> QED BY <1>2, <1>4, <2>0
  <2>2. (IF c = 0 THEN <<>> ELSE f[c]) = (IF c = 0 THEN <<>> ELSE g[c])
    BY <2>1
  <2> QED BY <2>2, Zenon DEF Said
<1>7. ASSUME NEW b \in 1..N PROVE f[b] = FlattenSeq(Parts(blocks'[b], g))
  <2>1. CASE b # Top
    <3>1. SaySame(blocks[b], f, blocks[b], g, Len(blocks[b]))
      BY <1>6 DEF SaySame
    <3>2. FlattenSeq(Parts(blocks[b], f)) = FlattenSeq(Parts(blocks[b], g))
      BY <1>2, <3>1, PartsSame
    <3> QED BY <1>2, <1>3, <2>1, <3>2
  <2>2. CASE b = Top
    <3> DEFINE next == blocks'[Top]
               st == blocks[Top][k]
    <3>1. Said(next[k], g) = Said(st, f)
      <4>1. /\ next[k].tokens = st.tokens /\ next[k].child_block_ = N + 1 /\ N + 1 # 0
            /\ st.child_block_ = 0
        BY <1>2, <1>5 DEF Statements, Child
      <4> QED BY <1>4, <4>1 DEF Said
    <3>2. ASSUME NEW s \in 1..k PROVE Said(blocks[Top][s], f) = Said(next[s], g)
      <4>1. CASE s = k
        BY <3>1, <4>1
      <4>2. CASE s # k
        <5>1. s \in 1..k - 1
          BY <1>5, <4>2
        <5> QED BY <1>2, <1>5, <1>6, <5>1
      <4> QED BY <4>1, <4>2
    <3>3. Parts(next, g) = Parts(blocks[Top], f)
      <4>1. DOMAIN next = 1..k /\ DOMAIN blocks[Top] = 1..k
        BY <1>2, <1>5
      <4> HIDE DEF next
      <4>2. \A s \in 1..k : Said(blocks[Top][s], f) = Said(next[s], g)
        BY <3>2
      <4> HIDE DEF k
      <4> QED BY <4>1, <4>2, Zenon DEF Parts
    <3> QED BY <1>2, <1>3, <2>2, <3>3
  <2> QED BY <2>1, <2>2
<1>8. FlattenSeq(Parts(blocks'[N + 1], g)) = <<>>
  <2>1. Parts(blocks'[N + 1], g) = <<>>
    BY <1>2 DEF Parts
  <2> QED BY <2>1, FlattenEmpty
<1>9. Search(blocks', g)
  <2>1. ASSUME NEW b \in 1..N + 1 PROVE g[b] = FlattenSeq(Parts(blocks'[b], g))
    <3>1. b \in 1..N \/ b = N + 1
      BY <1>2
    <3> QED BY <1>4, <1>7, <1>8, <3>1
  <2>2. g = [b \in 1..N + 1 |-> g[b]]
    BY <1>4
  <2>3. g = [b \in 1..N + 1 |-> FlattenSeq(Parts(blocks'[b], g))]
    BY <2>1, <2>2, Zenon
  <2> QED BY <1>2, <2>3 DEF Search
<1>10. Answers(g[1])'
  <2>1. 1 \in 1..N
    BY Children DEF N
  <2>2. /\ "start_block" \in TokenTypes /\ "start_block" # "normal"
        /\ value \in Words /\ seen' = Append(seen, <<"start_block", value>>)
    BY StartBlockTree DEF TokenTypes
  <2>3. f[1] \in Seq(Words) /\ f[1] \o <<>> = f[1]
    BY <1>1, <2>1
  <2>4. Answers(f[1] \o <<>>)'
    BY <1>1, <2>2, <2>3, AnswersStep
  <2> QED BY <1>4, <2>1, <2>3, <2>4
<1> QED BY <1>2, <1>4, <1>9, <1>10 DEF Searched

(* A step that leaves the tree alone, and the words that were said.        *)
LEMMA TreeStays ==
  ASSUME SInv, UNCHANGED <<blocks, config_stack>>,
         \/ UNCHANGED <<seen, last_token_type>>
         \/ \E type \in TokenTypes \ {"normal"} :
              seen' = Append(seen, <<type, value>>) /\ last_token_type' = type,
         last_token_type' = "normal" => last_token_type = "normal"
  PROVE  Shape' /\ Searched' /\ Recorded'
<1> USE DEF SInv
<1>1. Shape'
  BY DEF Shape, Child
<1>2. CASE UNCHANGED <<seen, last_token_type>>
  <2>1. Searched'
    BY <1>2 DEF Searched, Search, Answers, KeyAt
  <2>2. Recorded'
    BY <1>2 DEF Recorded, Top
  <2> QED BY <1>1, <2>1, <2>2
<1>3. ASSUME NEW type \in TokenTypes \ {"normal"},
             seen' = Append(seen, <<type, value>>), last_token_type' = type
      PROVE  Searched' /\ Recorded'
  <2>1. value \in Words /\ type \in TokenTypes /\ type # "normal"
    BY DEF IInv, TokenOK, Words
  <2>2. Recorded'
    <3> DEFINE w == <<type, value>>
    <3>1. w \in TokenTypes \X Words /\ w[1] = type /\ seen \in Seq(TokenTypes \X Words)
      BY <2>1 DEF Recorded
    <3> HIDE DEF w
    <3>2. seen' = Append(seen, w)
      BY <1>3 DEF w
    <3>3. seen' \in Seq(TokenTypes \X Words) /\ seen' # <<>> /\ seen'[Len(seen')] = w
      BY <3>1, <3>2
    <3> QED BY <1>3, <2>1, <3>1, <3>3 DEF Recorded
  <2>3. PICK f \in [1..Len(blocks) -> Seq(Words)] : Search(blocks, f) /\ Answers(f[1])
    BY DEF Searched
  <2>4. f[1] \in Seq(Words) /\ f[1] \o <<>> = f[1]
    <3>1. 1 \in 1..Len(blocks)
      BY Children
    <3> QED BY <2>3, <3>1
  <2>5. Answers(f[1] \o <<>>)'
    BY <1>3, <2>1, <2>3, <2>4, AnswersStep
  <2>6. Answers(f[1])'
    BY <2>4, <2>5
  <2>7. Search(blocks', f) /\ Len(blocks') = Len(blocks)
    BY <2>3
  <2>8. Searched'
    BY <2>3, <2>6, <2>7 DEF Searched
  <2> QED BY <2>2, <2>8
<1> QED BY <1>1, <1>2, <1>3

LEMMA StartBlockRecorded ==
  ASSUME SInv, StartBlock
  PROVE  Recorded'
<1> DEFINE w == <<"start_block", value>>
<1>1. w \in TokenTypes \X Words /\ w[1] = "start_block" /\ seen \in Seq(TokenTypes \X Words)
  BY StartBlockTree DEF SInv, Recorded, TokenTypes
<1>2. seen' = Append(seen, w) /\ last_token_type' = "start_block"
  BY StartBlockTree DEF SInv
<1> HIDE DEF w
<1>3. seen' \in Seq(TokenTypes \X Words) /\ seen' # <<>> /\ seen'[Len(seen')] = w
  BY <1>1, <1>2
<1> QED BY <1>1, <1>2, <1>3 DEF Recorded

(* A "}": what was the top block is said in full. *)
LEMMA EndBlockSInv ==
  ASSUME SInv, EndBlock
  PROVE  Shape' /\ Recorded' /\ Searched'
<1> USE DEF SInv
<1>1. /\ UNCHANGED blocks /\ seen' = Append(seen, <<"end_block", value>>)
      /\ last_token_type' = "end_block"
  BY DEF EndBlock, Accept, Given
<1>2. Shape'
  BY <1>1 DEF Shape, Child
<1>3. value \in Words /\ "end_block" \in TokenTypes
  BY DEF IInv, TokenOK, Words, TokenTypes
<1>4. Recorded'
  <2> DEFINE w == <<"end_block", value>>
  <2>1. w \in TokenTypes \X Words /\ w[1] = "end_block" /\ seen \in Seq(TokenTypes \X Words)
    BY <1>3 DEF Recorded
  <2> HIDE DEF w
  <2>2. seen' = Append(seen, w)
    BY <1>1 DEF w
  <2>3. seen' \in Seq(TokenTypes \X Words) /\ seen' # <<>> /\ seen'[Len(seen')] = w
    BY <2>1, <2>2
  <2> QED BY <1>1, <2>1, <2>3 DEF Recorded
<1>5. Searched'
  <2>1. PICK f \in [1..Len(blocks) -> Seq(Words)] : Search(blocks, f) /\ Answers(f[1])
    BY DEF Searched
  <2>2. f[1] \in Seq(Words) /\ f[1] \o <<>> = f[1]
    <3>1. 1 \in 1..Len(blocks)
      BY Children
    <3> QED BY <2>1, <3>1
  <2>3. "end_block" # "normal"
    OBVIOUS
  <2>4. Answers(f[1] \o <<>>)'
    BY <1>1, <1>3, <2>1, <2>2, <2>3, AnswersStep
  <2>5. Answers(f[1])'
    BY <2>2, <2>4
  <2> QED BY <1>1, <2>1, <2>5 DEF Searched
<1> QED BY <1>2, <1>4, <1>5

LEMMA NextSInv == SInv /\ [Next]_vars => SInv'
<1> SUFFICES ASSUME SInv, [Next]_vars PROVE SInv'
  OBVIOUS
<1>1. IInv'
  BY NextIInv DEF SInv
<1>2. CASE UNCHANGED <<blocks, config_stack, seen, last_token_type>>
  <2>1. Shape' /\ Searched' /\ Recorded'
    BY <1>2, TreeStays
  <2> QED BY <1>1, <2>1 DEF SInv
<1>3. CASE Normal
  <2>1. Shape' /\ Recorded'
    BY <1>3, NormalKeepsShape, NormalRecorded DEF SInv
  <2>2. Searched'
    BY <1>3, NormalBegins, NormalGoesOn
  <2> QED BY <1>1, <2>1, <2>2 DEF SInv
<1>4. CASE StartBlock
  <2>1. Shape' /\ Searched' /\ Recorded'
    BY <1>4, StartBlockKeepsShape, StartBlockSearched, StartBlockRecorded DEF SInv
  <2> QED BY <1>1, <2>1 DEF SInv
<1>5. CASE EndBlock
  BY <1>1, <1>5, EndBlockSInv DEF SInv
<1>6. CASE StatementEnd
  <2>1. /\ UNCHANGED <<blocks, config_stack>> /\ seen' = Append(seen, <<"statement_end", value>>)
        /\ last_token_type' = "statement_end"
    BY <1>6 DEF StatementEnd, Accept, Given, tree
  <2>2. "statement_end" \in TokenTypes \ {"normal"}
    BY DEF TokenTypes
  <2>3. Shape' /\ Searched' /\ Recorded'
    BY <2>1, <2>2, TreeStays
  <2> QED BY <1>1, <2>3 DEF SInv
<1>7. CASE \/ Open \/ OpenFails \/ ParseToken \/ EndOfFile \/ SkipComment \/ Eof \/ BadTransition
           \/ main \/ Started \/ UNCHANGED vars
  <2>1. UNCHANGED <<blocks, config_stack, seen, last_token_type>>
    BY <1>7 DEF Open, OpenFails, ParseToken, EndOfFile, SkipComment, Eof, BadTransition, main,
       Started, vars, parse, tree
  <2> QED BY <1>2, <2>1
<1> QED BY <1>3, <1>4, <1>5, <1>6, <1>7 DEF Next

-----------------------------------------------------------------------------
(* The port. *)

LEMMA PortIsInt == ASSUME NEW token PROVE GetPort(token) \in Int
BY ConfigAssumption DEF GetPort, Short

LEMMA NoWordNoPort == GetPort(<<>>) = -1
BY ConfigAssumption DEF GetPort

LEMMA NextPortAsked == SInv /\ PortAsked /\ [Next]_vars => PortAsked'
<1> SUFFICES ASSUME SInv, PortAsked, [Next]_vars PROVE PortAsked'
  OBVIOUS
<1>1. CASE main
  <2>1. /\ port_num' = GetPort(GetConfig(PortKey)) /\ KeyAt' = KeyAt /\ seen' = seen
        /\ phase' = IF port_num' < 0 THEN "exited" ELSE "listening"
    BY <1>1 DEF main, parse, KeyAt
  <2>2. port_num' \in Int
    BY <2>1, PortIsInt
  <2>3. phase' = "listening" <=> port_num' >= 0
    BY <2>1, <2>2
  <2>4. KeyAt = {} => port_num' = -1
    BY <2>1, GetConfigIs, NoWordNoPort
  <2>5. ASSUME NEW n \in KeyAt, \A m \in KeyAt : n <= m
        PROVE  port_num' = GetPort(seen[n + 1][2])
    BY <2>1, <2>5, GetConfigIs
  <2>6. ASSUME NEW n \in KeyAt', \A m \in KeyAt' : n <= m
        PROVE  port_num' = GetPort(seen'[n + 1][2])
    BY <2>1, <2>5, <2>6
  <2> QED BY <2>1, <2>3, <2>4, <2>6 DEF PortAsked
<1>2. CASE Started \/ UNCHANGED vars
  <2>1. KeyAt' = KeyAt /\ UNCHANGED <<seen, phase, port_num>>
    BY <1>2 DEF Started, vars, parse, main_, KeyAt
  <2> QED BY <2>1 DEF PortAsked
<1>3. CASE \/ Open \/ OpenFails \/ ParseToken \/ EndOfFile \/ SkipComment \/ Normal
           \/ StatementEnd \/ StartBlock \/ EndBlock \/ Eof \/ BadTransition
  <2>1. phase' \in {"open", "parse", "parsed"}
    BY <1>3 DEF Open, OpenFails, ParseToken, EndOfFile, SkipComment, Normal, StatementEnd,
       StartBlock, EndBlock, Eof, BadTransition, Given, Accept, main_
  <2> QED BY <2>1 DEF PortAsked
<1> QED BY <1>1, <1>2, <1>3 DEF Next

(* nginx_config.cc:32-74: for every file, the port that the server listens *)
(* on is the word after the first "port" that another word follows, as a   *)
(* 16-bit number, and it listens when that is not negative.                *)
THEOREM AsksForThePort == Spec => []PortAsked
<1>1. Init => PortAsked
  BY DEF Init, PortAsked
<1> QED BY <1>1, InitSInv, NextSInv, NextPortAsked, PTL DEF Spec

-----------------------------------------------------------------------------
(***************************************************************************)
(* The grammar.                                                            *)
(***************************************************************************)
Tokens == Seq(GrammarTypes)
USE DEF Tokens

\* The first n tokens of s are a statement with k words, if those in its braces are in L.
Heads(L, s, k, n) ==
  /\ k < n /\ \A i \in 1..k : s[i] = "normal"
  /\ \/ k + 1 = n /\ s[n] = "statement_end"
     \/ /\ k + 2 <= n /\ s[k + 1] = "start_block" /\ s[n] = "end_block"
        /\ SubSeq(s, k + 2, n - 1) \in L

\* One production of the grammar.
Derives(L, s) ==
  s = <<>> \/ \E k, n \in DOMAIN s : Heads(L, s, k, n) /\ SubSeq(s, n + 1, Len(s)) \in L

LEMMA PartsTyped ==
  ASSUME NEW s \in Tokens, NEW k \in DOMAIN s, NEW n \in DOMAIN s
  PROVE  /\ SubSeq(s, n + 1, Len(s)) \in Tokens
         /\ k + 2 <= n => SubSeq(s, k + 2, n - 1) \in Tokens
  <1>1. k \in 1..Len(s) /\ n \in 1..Len(s) /\ Len(s) \in Nat
    BY DEF Tokens
  <1>2. SubSeq(s, n + 1, Len(s)) \in Tokens
    BY <1>1 DEF Tokens
  <1>3. ASSUME k + 2 <= n PROVE SubSeq(s, k + 2, n - 1) \in Tokens
    BY <1>1, <1>3 DEF Tokens
  <1> QED BY <1>2, <1>3

LEMMA DerivesMore ==
  ASSUME NEW L, NEW M, L \subseteq M, NEW s, Derives(L, s)
  PROVE  Derives(M, s)
BY DEF Derives, Heads

\* The least set of token sequences that the production stays in is a fixpoint.
LEMMA Fixpoint == \E L \in SUBSET Tokens : \A s \in Tokens : s \in L <=> Derives(L, s)
<1> DEFINE Closed(M) == \A s \in Tokens : Derives(M, s) => s \in M
           L == {s \in Tokens : \A M \in SUBSET Tokens : Closed(M) => s \in M}
<1>1. ASSUME NEW s \in Tokens, Derives(L, s) PROVE s \in L
  <2> SUFFICES ASSUME NEW M \in SUBSET Tokens, Closed(M) PROVE s \in M
    OBVIOUS
  <2>1. L \subseteq M
    OBVIOUS
  <2> HIDE DEF L
  <2>2. Derives(M, s)
    BY <1>1, <2>1, DerivesMore
  <2> QED BY <2>2
<1>2. ASSUME NEW s \in L PROVE Derives(L, s)
  <2> DEFINE K == {r \in L : Derives(L, r)}
  <2>1. K \in SUBSET Tokens /\ K \subseteq L
    OBVIOUS
  <2>2. ASSUME NEW r \in Tokens, Derives(K, r) PROVE r \in K
    <3> HIDE DEF L
    <3>1. Derives(L, r)
      <4>1. K \subseteq L
        OBVIOUS
      <4> HIDE DEF K
      <4> QED BY <2>2, <4>1, DerivesMore
    <3>2. r \in L
      BY <1>1, <3>1
    <3> QED BY <3>1, <3>2
  <2>3. Closed(K)
    BY <2>2
  <2>4. s \in K
    <3> HIDE DEF K
    <3> QED BY <2>1, <2>3
  <2> HIDE DEF L
  <2> QED BY <2>4
<1>3. L \in SUBSET Tokens
  OBVIOUS
<1> HIDE DEF L
<1> QED BY <1>1, <1>2, <1>3

Language == {s \in Tokens : IsConfig[s]}

\* IsConfig is what its definition says.
LEMMA Grammar == \A s \in Tokens : s \in Language <=> Derives(Language, s)
<1> DEFINE Body(f, s) ==
      s = <<>> \/ \E k, n \in DOMAIN s :
        /\ k < n /\ \A i \in 1..k : s[i] = "normal"
        /\ \/ k + 1 = n /\ s[n] = "statement_end"
           \/ /\ k + 2 <= n /\ s[k + 1] = "start_block" /\ s[n] = "end_block"
              /\ f[SubSeq(s, k + 2, n - 1)]
        /\ f[SubSeq(s, n + 1, Len(s))]
<1>0. ASSUME NEW f, NEW M \in SUBSET Tokens, \A s \in Tokens : f[s] <=> s \in M, NEW s \in Tokens
      PROVE  Body(f, s) <=> Derives(M, s)
  <2>1. ASSUME NEW k \in DOMAIN s, NEW n \in DOMAIN s
        PROVE  /\ f[SubSeq(s, n + 1, Len(s))] <=> SubSeq(s, n + 1, Len(s)) \in M
               /\ k + 2 <= n => (f[SubSeq(s, k + 2, n - 1)] <=> SubSeq(s, k + 2, n - 1) \in M)
    BY <1>0, PartsTyped, <2>1
  <2> QED BY <2>1, Zenon DEF Derives, Heads
<1>1. PICK L \in SUBSET Tokens : \A s \in Tokens : s \in L <=> Derives(L, s)
  BY Fixpoint
<1> DEFINE g == [s \in Tokens |-> s \in L]
<1>2. \A s \in Tokens : Body(g, s) <=> Derives(L, s)
  <2>1. \A s \in Tokens : g[s] <=> s \in L
    OBVIOUS
  <2> HIDE DEF g, Body
  <2> QED BY <1>0, <2>1, Zenon
<1>3. g = [s \in Tokens |-> Body(g, s)]
  <2> HIDE DEF Body
  <2>1. ASSUME NEW s \in Tokens PROVE (s \in L) = Body(g, s)
    <3>1. (s \in L) <=> Body(g, s)
      BY <1>1, <1>2, Zenon
    <3>2. Body(g, s) \in BOOLEAN
      BY Zenon DEF Body
    <3> HIDE DEF g, Body
    <3>3. CASE s \in L
      <4>1. (s \in L) = TRUE
        BY <3>3
      <4>2. Body(g, s) = TRUE
        BY <3>1, <3>2, <3>3
      <4> QED BY <4>1, <4>2
    <3>4. CASE s \notin L
      <4>1. (s \in L) = FALSE
        BY <3>4
      <4>2. Body(g, s) = FALSE
        BY <3>1, <3>2, <3>4
      <4> QED BY <4>1, <4>2
    <3> QED BY <3>3, <3>4
  <2> QED BY <2>1, Zenon
<1>4. \E f : f = [s \in Tokens |-> Body(f, s)]
  BY <1>3, Zenon
<1>5. IsConfig = [s \in Tokens |-> Body(IsConfig, s)]
  BY <1>4, Zenon DEF IsConfig, Tokens
<1>6. \A s \in Tokens : IsConfig[s] <=> Body(IsConfig, s)
  BY <1>5, Zenon
<1>7. Language \in SUBSET Tokens /\ \A s \in Tokens : IsConfig[s] <=> s \in Language
  BY DEF Language
<1>8. \A s \in Tokens : Body(IsConfig, s) <=> Derives(Language, s)
  BY <1>0, <1>7, Zenon
<1> QED BY <1>6, <1>7, <1>8, Zenon

LEMMA Slice ==
  ASSUME NEW A, NEW s \in Seq(A), NEW i \in Nat \ {0}, NEW j \in Nat, j <= Len(s), i <= j + 1
  PROVE  /\ SubSeq(s, i, j) \in Seq(A) /\ Len(SubSeq(s, i, j)) = j - i + 1
         /\ \A m \in 1..j - i + 1 : SubSeq(s, i, j)[m] = s[i + m - 1]
OBVIOUS

\* The same with the length l of the slice named.
LEMMA SliceNamed ==
  ASSUME NEW A, NEW s \in Seq(A), NEW i \in Nat \ {0}, NEW j \in Nat, j <= Len(s), NEW l \in Nat,
         i + l = j + 1
  PROVE  /\ SubSeq(s, i, j) \in Seq(A) /\ Len(SubSeq(s, i, j)) = l
         /\ \A m \in 1..l : SubSeq(s, i, j)[m] = s[m + (i - 1)]
OBVIOUS

LEMMA SliceLeft ==
  ASSUME NEW A, NEW a \in Seq(A), NEW b \in Seq(A), NEW i \in Nat \ {0}, NEW j \in Int, j <= Len(a)
  PROVE  SubSeq(a \o b, i, j) = SubSeq(a, i, j)
<1>1. CASE i <= j
  <2>1. i \in 1..Len(a) /\ j \in 1..Len(a)
    BY <1>1
  <2> QED BY ONLY <2>1, a \in Seq(A), b \in Seq(A), SubSeqOfConcat1, Zenon
<1>2. CASE ~(i <= j)
  BY <1>2
<1> QED BY <1>1, <1>2

LEMMA SliceAcross ==
  ASSUME NEW A, NEW a \in Seq(A), NEW b \in Seq(A), NEW n \in 0..Len(a)
  PROVE  SubSeq(a \o b, n + 1, Len(a \o b)) = SubSeq(a, n + 1, Len(a)) \o b
<1>1. /\ Len(a \o b) = Len(a) + Len(b) /\ Len(a) \in Nat /\ Len(b) \in Nat
      /\ Len(SubSeq(a, n + 1, Len(a))) = Len(a) - n
  OBVIOUS
<1>2. /\ SubSeq(a \o b, n + 1, Len(a \o b)) \in Seq(A)
      /\ Len(SubSeq(a \o b, n + 1, Len(a \o b))) = Len(a) + Len(b) - n
  BY <1>1
<1>3. /\ SubSeq(a, n + 1, Len(a)) \o b \in Seq(A)
      /\ Len(SubSeq(a, n + 1, Len(a)) \o b) = Len(a) + Len(b) - n
  BY <1>1
<1>4. \A m \in 1..(Len(a) + Len(b) - n) :
        SubSeq(a \o b, n + 1, Len(a \o b))[m] = (SubSeq(a, n + 1, Len(a)) \o b)[m]
  BY <1>1
<1> QED BY <1>2, <1>3, <1>4, SeqEqual

\* A configuration and one more statement.
LEMMA OneMore ==
  ASSUME NEW a \in Language, NEW b \in Tokens, NEW k \in DOMAIN b, Heads(Language, b, k, Len(b))
  PROVE  a \o b \in Language
<1> DEFINE T == {m \in Nat : \A r \in Language : Len(r) <= m => r \o b \in Language}
<1>1. <<>> \in Language
  <2>1. <<>> \in Tokens
    OBVIOUS
  <2>2. Derives(Language, <<>>)
    BY DEF Derives
  <2> QED BY <2>1, <2>2, Grammar
<1>2. Language \subseteq Tokens
  BY DEF Language
<1>3. Len(b) \in DOMAIN b /\ Len(b) \in Nat
  BY DEF Tokens
<1>4. ASSUME NEW r \in Language, Len(r) = 0 PROVE r \o b \in Language
  <2>1. r \o b = b
    BY <1>2, <1>4 DEF Tokens
  <2>2. SubSeq(b, Len(b) + 1, Len(b)) \in Language
    <3>1. SubSeq(b, Len(b) + 1, Len(b)) = <<>>
      BY <1>3, SubSeqEmpty
    <3> QED BY <1>1, <3>1
  <2>3. Derives(Language, b)
    BY <1>3, <2>2 DEF Derives
  <2> QED BY <2>1, <2>3, Grammar
<1>5. ASSUME NEW m \in T, NEW r \in Language, Len(r) = m + 1 PROVE r \o b \in Language
  <2>1. r \in Tokens /\ r # <<>> /\ Len(r) \in Nat /\ m \in Nat
    BY <1>2, <1>5 DEF Tokens
  <2>2. PICK i, n \in DOMAIN r : Heads(Language, r, i, n) /\ SubSeq(r, n + 1, Len(r)) \in Language
    BY <2>1, Grammar DEF Derives
  <2>3. i \in 1..Len(r) /\ n \in 1..Len(r)
    BY <2>1, <2>2 DEF Tokens
  <2>4. SubSeq(r, n + 1, Len(r)) \o b \in Language
    <3>1. Len(SubSeq(r, n + 1, Len(r))) <= m
      BY <1>5, <2>1, <2>3 DEF Tokens
    <3> QED BY <2>2, <3>1
  <2> DEFINE s == r \o b
  <2>5. SubSeq(s, n + 1, Len(s)) \in Language
    <3>1. n \in 0..Len(r)
      BY <2>1, <2>3
    <3>2. SubSeq(s, n + 1, Len(s)) = SubSeq(r, n + 1, Len(r)) \o b
      BY <2>1, <3>1, SliceAcross, Zenon
    <3> QED BY <2>4, <3>2
  <2>6. SubSeq(s, i + 2, n - 1) = SubSeq(r, i + 2, n - 1)
    <3>1. i + 2 \in Nat \ {0} /\ n - 1 \in Int /\ n - 1 <= Len(r)
      BY <2>1, <2>3
    <3> QED BY <2>1, <3>1, SliceLeft, Zenon
  <2>7. \A j \in 1..Len(r) : s[j] = r[j]
    BY <2>1 DEF Tokens
  <2>8. s \in Tokens /\ i \in DOMAIN s /\ n \in DOMAIN s
    BY <2>1, <2>3 DEF Tokens
  <2> HIDE DEF s
  <2>9. Heads(Language, s, i, n)
    <3>1. i < n /\ i \in Nat /\ n \in Nat
      BY <2>2, <2>3 DEF Heads
    <3>2. \A j \in 1..n : s[j] = r[j]
      BY <2>3, <2>7
    <3>3. \A j \in 1..i : s[j] = "normal"
      <4>1. \A j \in 1..i : r[j] = "normal" /\ j \in 1..n
        BY <2>2, <3>1 DEF Heads
      <4> QED BY <3>2, <4>1
    <3>4. s[n] = r[n] /\ s[i + 1] = r[i + 1]
      BY <3>1, <3>2, <2>3
    <3> QED BY <2>2, <2>6, <3>1, <3>3, <3>4 DEF Heads
  <2>10. Derives(Language, s)
    BY <2>5, <2>8, <2>9 DEF Derives
  <2> QED BY <2>8, <2>10, Grammar DEF s
<1>6. 0 \in T
  <2>1. ASSUME NEW r \in Language, Len(r) <= 0 PROVE r \o b \in Language
    <3>1. Len(r) = 0
      BY <1>2, <2>1 DEF Tokens
    <3> QED BY <1>4, <3>1
  <2> QED BY <2>1
<1>7. ASSUME NEW m \in T PROVE m + 1 \in T
  <2>1. ASSUME NEW r \in Language, Len(r) <= m + 1 PROVE r \o b \in Language
    <3>1. Len(r) <= m \/ Len(r) = m + 1
      BY <1>2, <2>1 DEF Tokens
    <3> QED BY <1>5, <1>7, <3>1
  <2> QED BY <2>1
<1>8. T = Nat
  <2>1. T \in SUBSET Nat
    OBVIOUS
  <2> HIDE DEF T
  <2> QED BY <1>6, <1>7, <2>1, Induction
<1> QED
  <2>1. Len(a) \in Nat /\ Len(a) <= Len(a)
    BY <1>2
  <2>2. Len(a) \in T
    BY <1>8, <2>1, Zenon
  <2> QED BY <2>1, <2>2

-----------------------------------------------------------------------------
(***************************************************************************)
(* What a configuration looks like token by token.                         *)
(***************************************************************************)
Delta(type) == CASE type = "start_block" -> 1 [] type = "end_block" -> -1 [] OTHER -> 0

\* f[i] is how many blocks are open after i tokens.
Depths(f, s) ==
  /\ f \in [0..Len(s) -> Nat] /\ f[0] = 0
  /\ \A i \in 1..Len(s) : f[i] = f[i - 1] + Delta(s[i])

Previous(s, i) == IF i = 1 THEN "start" ELSE s[i - 1]

Neighbours(s) == \A i \in 1..Len(s) : Previous(s, i) \in Before(s[i])

Flat(s) ==
  /\ Neighbours(s) /\ Previous(s, Len(s) + 1) \in Before("eof")
  /\ \E f : Depths(f, s) /\ f[Len(s)] = 0

LEMMA FlatEmpty == Flat(<<>>)
<1>1. Depths([i \in 0..0 |-> 0], <<>>)
  BY DEF Depths
<1> QED BY <1>1 DEF Flat, Neighbours, Previous, Before

\* A statement that ends with ";", before a configuration.
LEMMA FlatSimple ==
  ASSUME NEW s \in Tokens, NEW k \in 1..Len(s), NEW n \in 1..Len(s), k + 1 = n,
         \A i \in 1..k : s[i] = "normal", s[n] = "statement_end",
         Flat(SubSeq(s, n + 1, Len(s)))
  PROVE  Flat(s)
<1> DEFINE r == SubSeq(s, n + 1, Len(s))
<1>1. /\ Len(s) \in Nat /\ r \in Tokens /\ Len(r) = Len(s) - n
      /\ \A i \in 1..Len(r) : r[i] = s[i + n]
  OBVIOUS
<1> HIDE DEF r
<1>2. PICK h : Depths(h, r) /\ h[Len(r)] = 0
  BY DEF Flat, r
<1> DEFINE f == [i \in 0..Len(s) |-> IF i <= n THEN 0 ELSE h[i - n]]
<1>3. f \in [0..Len(s) -> Nat] /\ f[0] = 0 /\ f[Len(s)] = 0
  BY <1>1, <1>2 DEF Depths
<1>4. ASSUME NEW i \in 1..Len(s) PROVE f[i] = f[i - 1] + Delta(s[i])
  <2>1. CASE i <= n
    <3>1. i \in 1..k \/ i = n
      BY <1>1, <2>1
    <3>2. Delta(s[i]) = 0
      BY <3>1 DEF Delta
    <3> QED BY <1>1, <2>1, <3>2
  <2>2. CASE i > n
    <3>1. i - n \in 1..Len(r) /\ r[i - n] = s[i]
      BY <1>1, <2>2
    <3>2. h[i - n] = h[i - n - 1] + Delta(s[i])
      BY <1>2, <3>1 DEF Depths
    <3>3. i - 1 \in 0..Len(s) /\ f[i] = h[i - n] /\ f[i - 1] = h[i - n - 1]
      BY <1>1, <1>2, <2>2 DEF Depths
    <3> QED BY <3>2, <3>3
  <2> QED BY <1>1, <2>1, <2>2
<1>5. Depths(f, s)
  BY <1>3, <1>4 DEF Depths
<1>6. Neighbours(r) /\ Previous(r, Len(r) + 1) \in Before("eof")
  BY DEF Flat, r
<1>7. ASSUME NEW i \in 1..Len(s) PROVE Previous(s, i) \in Before(s[i])
  <2>1. CASE i <= n
    <3>1. i = 1 \/ (i - 1 \in 1..k)
      BY <1>1, <2>1
    <3>2. i \in 1..k \/ i = n
      BY <1>1, <2>1
    <3> QED BY <3>1, <3>2 DEF Previous, Before
  <2>2. CASE i > n
    <3>1. i - n \in 1..Len(r) /\ r[i - n] = s[i]
      BY <1>1, <2>2
    <3>2. Previous(r, i - n) \in Before(s[i])
      BY <1>6, <3>1 DEF Neighbours
    <3>3. CASE i = n + 1
      <4>1. Previous(s, i) = "statement_end" /\ Previous(r, i - n) = "start"
        BY <3>3 DEF Previous
      <4> QED BY <3>2, <4>1 DEF Before
    <3>4. CASE i # n + 1
      <4>1. i - n - 1 \in 1..Len(r) /\ i - n # 1 /\ i # 1
        BY <1>1, <2>2, <3>4
      <4>2. Previous(s, i) = Previous(r, i - n)
        BY <1>1, <4>1 DEF Previous
      <4> QED BY <3>2, <4>2
    <3> QED BY <3>3, <3>4
  <2> QED BY <1>1, <2>1, <2>2
<1>8. Previous(s, Len(s) + 1) \in Before("eof")
  <2>1. CASE Len(r) = 0
    BY <1>1, <2>1 DEF Previous, Before
  <2>2. CASE Len(r) # 0
    <3>1. Len(s) \in 1..Len(s) /\ Len(s) # 0 /\ r[Len(r)] = s[Len(s)]
      BY <1>1, <2>2
    <3>2. Previous(r, Len(r) + 1) = s[Len(s)] /\ Previous(s, Len(s) + 1) = s[Len(s)]
      BY <1>1, <2>2, <3>1 DEF Previous
    <3> QED BY <1>6, <3>2
  <2> QED BY <2>1, <2>2
<1> QED BY <1>3, <1>5, <1>7, <1>8 DEF Flat, Neighbours

\* A statement with a block, before a configuration.
LEMMA FlatBlock ==
  ASSUME NEW s \in Tokens, NEW k \in 1..Len(s), NEW n \in 1..Len(s), k + 2 <= n,
         \A i \in 1..k : s[i] = "normal", s[k + 1] = "start_block", s[n] = "end_block",
         Flat(SubSeq(s, k + 2, n - 1)), Flat(SubSeq(s, n + 1, Len(s)))
  PROVE  Flat(s)
<1> DEFINE r == SubSeq(s, n + 1, Len(s))
           u == SubSeq(s, k + 2, n - 1)
<1>1. /\ Len(s) \in Nat /\ r \in Tokens /\ Len(r) = Len(s) - n
      /\ \A i \in 1..Len(r) : r[i] = s[i + n]
  OBVIOUS
<1>2. /\ u \in Tokens /\ Len(u) = n - k - 2
      /\ \A i \in 1..Len(u) : u[i] = s[i + k + 1]
  OBVIOUS
<1> HIDE DEF r, u
<1>3. PICK h : Depths(h, r) /\ h[Len(r)] = 0
  BY DEF Flat, r
<1>4. PICK g : Depths(g, u) /\ g[Len(u)] = 0
  BY DEF Flat, u
<1> DEFINE f == [i \in 0..Len(s) |-> IF i <= k THEN 0
                                     ELSE IF i < n THEN 1 + g[i - k - 1] ELSE h[i - n]]
<1>5. f \in [0..Len(s) -> Nat] /\ f[0] = 0 /\ f[Len(s)] = 0
  <2>1. ASSUME NEW i \in 0..Len(s) PROVE f[i] \in Nat
    <3>1. CASE i <= k
      BY <3>1
    <3>2. CASE ~(i <= k) /\ i < n
      <4>1. i - k - 1 \in 0..Len(u)
        BY <1>2, <3>2
      <4>2. g \in [0..Len(u) -> Nat]
        BY <1>4 DEF Depths
      <4>3. g[i - k - 1] \in Nat
        BY <4>1, <4>2
      <4> QED BY <3>2, <4>3
    <3>3. CASE ~(i <= k) /\ ~(i < n)
      <4>1. i - n \in 0..Len(r) /\ h \in [0..Len(r) -> Nat]
        BY <1>1, <1>3, <3>3 DEF Depths
      <4> QED BY <3>3, <4>1
    <3> QED BY <3>1, <3>2, <3>3
  <2>2. f[0] = 0
    BY <1>1
  <2>3. f[Len(s)] = 0
    BY <1>1, <1>3
  <2> QED BY <2>1, <2>2, <2>3
<1>6. ASSUME NEW i \in 1..Len(s) PROVE f[i] = f[i - 1] + Delta(s[i])
  <2>1. CASE i <= k
    <3>1. Delta(s[i]) = 0
      <4>1. s[i] = "normal"
        BY <1>1, <2>1
      <4> QED BY <4>1 DEF Delta
    <3> QED BY <1>1, <2>1, <3>1
  <2>2. CASE i = k + 1
    <3>1. Delta(s[i]) = 1
      BY <2>2 DEF Delta
    <3>2. f[i] = 1 + g[0] /\ g[0] = 0 /\ f[i - 1] = 0
      BY <1>1, <1>4, <2>2 DEF Depths
    <3> QED BY <3>1, <3>2
  <2>3. CASE i > k + 1 /\ i < n
    <3>1. i - k - 1 \in 1..Len(u) /\ u[i - k - 1] = s[i]
      BY <1>1, <1>2, <2>3
    <3>2. g[i - k - 1] = g[i - k - 2] + Delta(s[i]) /\ g[i - k - 2] \in Nat
      BY <1>2, <1>4, <3>1 DEF Depths
    <3>3. f[i] = 1 + g[i - k - 1] /\ f[i - 1] = 1 + g[i - k - 2]
      BY <1>1, <2>3
    <3>4. Delta(s[i]) \in Int
      BY DEF Delta
    <3> HIDE DEF f
    <3> QED BY <3>2, <3>3, <3>4
  <2>4. CASE i = n
    <3>1. Delta(s[i]) = -1
      BY <2>4 DEF Delta
    <3>2. f[i] = h[0] /\ h[0] = 0
      BY <1>1, <1>3, <2>4 DEF Depths
    <3>3. f[i - 1] = 1 + g[Len(u)]
      BY <1>1, <1>2, <2>4
    <3> HIDE DEF f
    <3> QED BY <1>4, <3>1, <3>2, <3>3
  <2>5. CASE i > n
    <3>1. i - n \in 1..Len(r) /\ r[i - n] = s[i]
      BY <1>1, <2>5
    <3>2. h[i - n] = h[i - n - 1] + Delta(s[i])
      BY <1>3, <3>1 DEF Depths
    <3>3. f[i] = h[i - n] /\ f[i - 1] = h[i - n - 1]
      BY <1>1, <1>3, <2>5 DEF Depths
    <3> QED BY <3>2, <3>3
  <2> QED BY <1>1, <2>1, <2>2, <2>3, <2>4, <2>5
<1>7. Depths(f, s)
  BY <1>5, <1>6 DEF Depths
<1>8. Neighbours(r) /\ Previous(r, Len(r) + 1) \in Before("eof")
  BY DEF Flat, r
<1>9. Neighbours(u) /\ Previous(u, Len(u) + 1) \in Before("eof")
  BY DEF Flat, u
<1>10. ASSUME NEW i \in 1..Len(s) PROVE Previous(s, i) \in Before(s[i])
  <2>1. CASE i <= k + 1
    <3>1. i = 1 \/ (i - 1 \in 1..k)
      BY <1>1, <2>1
    <3>2. i \in 1..k \/ i = k + 1
      BY <1>1, <2>1
    <3>3. Previous(s, i) \in {"start", "normal"} /\ (i = 1 => i \in 1..k)
      BY <3>1 DEF Previous
    <3>4. i = k + 1 => Previous(s, i) = "normal"
      BY <3>1 DEF Previous
    <3>5. CASE i \in 1..k
      BY <3>3, <3>5 DEF Before
    <3>6. CASE i = k + 1
      BY <3>4, <3>6 DEF Before
    <3> QED BY <3>2, <3>5, <3>6
  <2>2. CASE i > k + 1 /\ i < n
    <3>1. i - k - 1 \in 1..Len(u) /\ u[i - k - 1] = s[i]
      BY <1>2, <2>2
    <3>2. Previous(u, i - k - 1) \in Before(s[i])
      BY <1>9, <3>1 DEF Neighbours
    <3>3. CASE i = k + 2
      <4>1. Previous(s, i) = "start_block" /\ Previous(u, i - k - 1) = "start"
        BY <3>3 DEF Previous
      <4>2. s[i] = "normal" \/ s[i] = "eof"
        BY <3>2, <4>1 DEF Before
      <4>3. s[i] \in GrammarTypes
        BY <1>1
      <4>4. s[i] = "normal"
        BY <4>2, <4>3 DEF GrammarTypes
      <4> QED BY <4>1, <4>4 DEF Before
    <3>4. CASE i # k + 2
      <4>1. i - k - 2 \in 1..Len(u) /\ i - k - 1 # 1 /\ i # 1
        BY <1>2, <2>2, <3>4
      <4>2. Previous(s, i) = Previous(u, i - k - 1)
        BY <1>2, <4>1 DEF Previous
      <4> QED BY <3>2, <4>2
    <3> QED BY <3>3, <3>4
  <2>3. CASE i = n
    <3>1. CASE Len(u) = 0
      <4>1. n = k + 2 /\ Previous(s, i) = "start_block"
        BY <1>2, <2>3, <3>1 DEF Previous
      <4> QED BY <2>3, <4>1 DEF Before
    <3>2. CASE Len(u) # 0
      <4>1. Previous(s, i) = Previous(u, Len(u) + 1)
        BY <1>2, <2>3, <3>2 DEF Previous
      <4>2. Previous(u, Len(u) + 1) # "start"
        <5>1. Previous(u, Len(u) + 1) = u[Len(u)] /\ u[Len(u)] \in GrammarTypes
          BY <1>2, <3>2 DEF Previous
        <5> QED BY <5>1 DEF GrammarTypes
      <4> QED BY <1>9, <2>3, <4>1, <4>2 DEF Before
    <3> QED BY <3>1, <3>2
  <2>4. CASE i > n
    <3>1. i - n \in 1..Len(r) /\ r[i - n] = s[i]
      BY <1>1, <2>4
    <3>2. Previous(r, i - n) \in Before(s[i])
      BY <1>8, <3>1 DEF Neighbours
    <3>3. CASE i = n + 1
      <4>1. Previous(s, i) = "end_block" /\ Previous(r, i - n) = "start"
        BY <3>3 DEF Previous
      <4> QED BY <3>2, <4>1 DEF Before
    <3>4. CASE i # n + 1
      <4>1. i - n - 1 \in 1..Len(r) /\ i - n # 1 /\ i # 1
        BY <1>1, <2>4, <3>4
      <4>2. Previous(s, i) = Previous(r, i - n)
        <5>1. r[i - n - 1] = s[i - 1]
          <6>1. i - n - 1 + n = i - 1
            BY <1>1
          <6> QED BY <1>1, <4>1, <6>1
        <5> QED BY <4>1, <5>1 DEF Previous
      <4> QED BY <3>2, <4>2
    <3> QED BY <3>3, <3>4
  <2> QED BY <1>1, <2>1, <2>2, <2>3, <2>4
<1>11. Previous(s, Len(s) + 1) \in Before("eof")
  <2>1. CASE Len(r) = 0
    <3>1. Len(s) = n /\ Previous(s, Len(s) + 1) = "end_block"
      BY <1>1, <2>1 DEF Previous
    <3> QED BY <3>1 DEF Before
  <2>2. CASE Len(r) # 0
    <3>0. Len(r) \in 1..Len(r) /\ Len(r) + n = Len(s) /\ Len(s) + 1 # 1 /\ Len(r) + 1 # 1
      <4>1. Len(s) \in Nat /\ Len(r) \in Nat /\ Len(r) = Len(s) - n
        BY <1>1
      <4> HIDE <1>1
      <4> QED BY <2>2, <4>1
    <3>1. s[Len(s)] = r[Len(r)]
      BY <1>1, <3>0
    <3>2. Previous(s, Len(s) + 1) = Previous(r, Len(r) + 1)
      <4>1. Len(s) + 1 - 1 = Len(s) /\ Len(r) + 1 - 1 = Len(r)
        BY <1>1
      <4> QED BY <3>0, <3>1, <4>1 DEF Previous
    <3> QED BY <1>8, <3>2
  <2> QED BY <2>1, <2>2
<1> QED BY <1>5, <1>7, <1>10, <1>11 DEF Flat, Neighbours

\* So every configuration is flat.
LEMMA Sound == \A s \in Language : Flat(s)
<1> DEFINE T == {m \in Nat : \A s \in Language : Len(s) <= m => Flat(s)}
<1>1. ASSUME NEW m \in Nat, NEW s \in Language, Len(s) <= m,
             \A r \in Language : Len(r) < Len(s) => Flat(r)
      PROVE  Flat(s)
  <2>1. s \in Tokens /\ Len(s) \in Nat /\ DOMAIN s = 1..Len(s)
    BY DEF Language
  <2>2. CASE s = <<>>
    BY <2>2, FlatEmpty
  <2>3. CASE s # <<>>
    <3>1. PICK k, n \in DOMAIN s : Heads(Language, s, k, n) /\ SubSeq(s, n + 1, Len(s)) \in Language
      BY <2>1, <2>3, Grammar DEF Derives
    <3>2. k \in 1..Len(s) /\ n \in 1..Len(s)
      BY <2>1, <3>1
    <3>3. Flat(SubSeq(s, n + 1, Len(s)))
      <4>1. Len(SubSeq(s, n + 1, Len(s))) < Len(s)
        BY <2>1, <3>2
      <4> QED BY <1>1, <3>1, <4>1
    <3>4. CASE k + 1 = n /\ s[n] = "statement_end"
      BY <2>1, <3>1, <3>2, <3>3, <3>4, FlatSimple DEF Heads
    <3>5. CASE /\ k + 2 <= n /\ s[k + 1] = "start_block" /\ s[n] = "end_block"
               /\ SubSeq(s, k + 2, n - 1) \in Language
      <4>1. Len(SubSeq(s, k + 2, n - 1)) < Len(s)
        BY <2>1, <3>2, <3>5
      <4>2. Flat(SubSeq(s, k + 2, n - 1))
        BY <1>1, <3>5, <4>1
      <4> QED BY <2>1, <3>1, <3>2, <3>3, <3>5, <4>2, FlatBlock DEF Heads
    <3> QED BY <3>1, <3>4, <3>5 DEF Heads
  <2> QED BY <2>2, <2>3
<1>2. 0 \in T
  <2>1. ASSUME NEW s \in Language, Len(s) <= 0 PROVE Flat(s)
    <3>1. s = <<>>
      BY <2>1 DEF Language
    <3> QED BY <3>1, FlatEmpty
  <2> QED BY <2>1
<1>3. ASSUME NEW m \in T PROVE m + 1 \in T
  <2>1. m \in Nat /\ \A r \in Language : Len(r) <= m => Flat(r)
    BY <1>3
  <2>2. ASSUME NEW s \in Language, Len(s) <= m + 1 PROVE Flat(s)
    <3>1. ASSUME NEW r \in Language, Len(r) < Len(s) PROVE Flat(r)
      <4>1. Len(r) \in Nat /\ Len(s) \in Nat
        BY DEF Language
      <4>2. Len(r) <= m
        BY <2>1, <2>2, <3>1, <4>1
      <4> QED BY <2>1, <4>2
    <3> QED BY <1>1, <2>1, <2>2, <3>1
  <2> QED BY <2>1, <2>2
<1>4. T = Nat
  <2>1. T \in SUBSET Nat
    OBVIOUS
  <2> HIDE DEF T
  <2> QED BY <1>2, <1>3, <2>1, Induction
<1>5. ASSUME NEW s \in Language PROVE Flat(s)
  <2>1. Len(s) \in Nat /\ Len(s) <= Len(s)
    BY DEF Language
  <2>2. Len(s) \in T
    BY <1>4, <2>1, Zenon
  <2> QED BY <2>1, <2>2
<1> QED BY <1>5

\* How many blocks are open is decided by the tokens.
LEMMA OneDepth ==
  ASSUME NEW s \in Tokens, NEW t \in Tokens, NEW f, NEW g, Depths(f, s), Depths(g, t),
         NEW n \in 0..Len(s), n <= Len(t), \A i \in 1..n : s[i] = t[i]
  PROVE  f[n] = g[n]
<1> DEFINE T == {m \in Nat : m <= n => f[m] = g[m]}
<1>1. 0 \in T
  BY DEF Depths
<1>2. ASSUME NEW m \in T PROVE m + 1 \in T
  <2> SUFFICES ASSUME m + 1 <= n PROVE f[m + 1] = g[m + 1]
    OBVIOUS
  <2>1. m \in Nat /\ f[m] = g[m] /\ m + 1 \in 1..Len(s) /\ m + 1 \in 1..Len(t) /\ s[m + 1] = t[m + 1]
    OBVIOUS
  <2>2. f[m + 1] = f[m + 1 - 1] + Delta(s[m + 1]) /\ g[m + 1] = g[m + 1 - 1] + Delta(t[m + 1])
    BY <2>1 DEF Depths
  <2> QED BY <2>1, <2>2
<1>3. T = Nat
  <2>1. T \in SUBSET Nat
    OBVIOUS
  <2> HIDE DEF T
  <2> QED BY <1>1, <1>2, <2>1, Induction
<1> QED BY <1>3

-----------------------------------------------------------------------------
(***************************************************************************)
(* The tokens read so far, with d blocks open: the j-th block starts after *)
(* token o[j], and a configuration fills it up to token e[j].  Then come   *)
(* words, and the "{" of the next.                                         *)
(***************************************************************************)
Located(s, d, o, e) ==
  /\ o \in [1..d + 1 -> 0..Len(s)] /\ e \in [1..d + 1 -> 0..Len(s)] /\ o[1] = 0
  /\ \A j \in 1..d + 1 : o[j] <= e[j] /\ SubSeq(s, o[j] + 1, e[j]) \in Language
  /\ \A j \in 1..d : /\ e[j] + 1 < o[j + 1] /\ s[o[j + 1]] = "start_block"
                     /\ \A i \in e[j] + 1..o[j + 1] - 1 : s[i] = "normal"
  /\ \A i \in e[d + 1] + 1..Len(s) : s[i] = "normal"

\* last is the last of the tokens s.
Unfinished(s, d, last) ==
  \E o, e : Located(s, d, o, e) /\ (last = "normal" <=> e[d + 1] < Len(s))

LEMMA EmptyConfig == <<>> \in Language
<1>1. <<>> \in Tokens
  OBVIOUS
<1>2. Derives(Language, <<>>)
  BY DEF Derives
<1> QED BY <1>1, <1>2, Grammar

LEMMA Appended ==
  ASSUME NEW s \in Tokens, NEW x \in GrammarTypes
  PROVE  /\ Append(s, x) \in Tokens /\ Len(Append(s, x)) = Len(s) + 1
         /\ Append(s, x)[Len(s) + 1] = x /\ \A i \in 1..Len(s) : Append(s, x)[i] = s[i]
         /\ \A i \in 0..Len(s) : \A j \in 0..Len(s) :
              SubSeq(Append(s, x), i + 1, j) = SubSeq(s, i + 1, j)
<1>1. ASSUME NEW i \in 0..Len(s), NEW j \in 0..Len(s)
      PROVE  SubSeq(Append(s, x), i + 1, j) = SubSeq(s, i + 1, j)
  <2>1. Append(s, x) = s \o <<x>> /\ <<x>> \in Seq(GrammarTypes) /\ s \in Seq(GrammarTypes)
    OBVIOUS
  <2>2. i + 1 \in Nat \ {0} /\ j \in Int /\ j <= Len(s)
    OBVIOUS
  <2>3. SubSeq(s \o <<x>>, i + 1, j) = SubSeq(s, i + 1, j)
    BY <2>1, <2>2, SliceLeft, Zenon
  <2> QED BY <2>1, <2>3
<1> QED BY <1>1

\* A configuration from i to m and a statement from there.
LEMMA Joined ==
  ASSUME NEW t \in Tokens, NEW i \in Nat, NEW m \in Nat, i <= m, m < Len(t),
         SubSeq(t, i + 1, m) \in Language,
         NEW k \in 1..Len(t) - m, Heads(Language, SubSeq(t, m + 1, Len(t)), k, Len(t) - m)
  PROVE  SubSeq(t, i + 1, Len(t)) \in Language
<1> DEFINE a == SubSeq(t, i + 1, m)
           b == SubSeq(t, m + 1, Len(t))
<1>1. t \in Seq(GrammarTypes) /\ Len(t) \in Nat /\ i + 1 \in 1..Len(t) + 1 /\ m \in (i + 1) - 1..Len(t)
      /\ Len(t) \in m..Len(t)
  OBVIOUS
<1>2. a \o b = SubSeq(t, i + 1, Len(t))
  BY <1>1, ConcatAdjacentSubSeq, Zenon
<1>3. b \in Tokens /\ Len(b) = Len(t) - m /\ k \in DOMAIN b
  BY <1>1
<1>4. a \o b \in Language
  <2> HIDE DEF a, b
  <2>1. a \in Language
    BY DEF a
  <2>2. Heads(Language, b, k, Len(b))
    BY <1>3 DEF b
  <2> QED BY <1>3, <2>1, <2>2, OneMore
<1> QED BY <1>2, <1>4

\* What a new token leaves as it was.
Left(s, t, d, o, e) ==
  /\ t \in Tokens /\ Len(s) \in Nat /\ Len(t) = Len(s) + 1
  /\ o \in [1..d + 1 -> 0..Len(t)] /\ e \in [1..d + 1 -> 0..Len(t)]
  /\ \A j \in 1..d + 1 : /\ o[j] \in 0..Len(s) /\ e[j] \in 0..Len(s)
                        /\ o[j] <= e[j] /\ SubSeq(t, o[j] + 1, e[j]) \in Language
  /\ \A j \in 1..d : /\ e[j] + 1 < o[j + 1] /\ t[o[j + 1]] = "start_block"
                    /\ \A i \in e[j] + 1..o[j + 1] - 1 : t[i] = "normal"
  /\ \A i \in e[d + 1] + 1..Len(s) : t[i] = "normal"

LEMMA Kept ==
  ASSUME NEW s \in Tokens, NEW d \in Nat, NEW o, NEW e, Located(s, d, o, e),
         NEW x \in GrammarTypes
  PROVE  Left(s, Append(s, x), d, o, e) /\ Append(s, x)[Len(s) + 1] = x
<1> DEFINE t == Append(s, x)
<1>1. /\ t \in Tokens /\ Len(s) \in Nat /\ Len(t) = Len(s) + 1 /\ t[Len(s) + 1] = x
      /\ \A i \in 1..Len(s) : t[i] = s[i]
      /\ \A i \in 0..Len(s) : \A j \in 0..Len(s) : SubSeq(t, i + 1, j) = SubSeq(s, i + 1, j)
  BY Appended
<1> HIDE DEF t
<1>2. /\ o \in [1..d + 1 -> 0..Len(s)] /\ e \in [1..d + 1 -> 0..Len(s)]
  BY DEF Located
<1>3. o \in [1..d + 1 -> 0..Len(t)] /\ e \in [1..d + 1 -> 0..Len(t)]
  BY <1>1, <1>2
<1>4. ASSUME NEW j \in 1..d + 1
      PROVE  /\ o[j] \in 0..Len(s) /\ e[j] \in 0..Len(s)
             /\ o[j] <= e[j] /\ SubSeq(t, o[j] + 1, e[j]) \in Language
  <2>1. o[j] \in 0..Len(s) /\ e[j] \in 0..Len(s)
    BY <1>2
  <2>2. o[j] <= e[j] /\ SubSeq(s, o[j] + 1, e[j]) \in Language
    BY DEF Located
  <2>3. SubSeq(t, o[j] + 1, e[j]) = SubSeq(s, o[j] + 1, e[j])
    BY <1>1, <2>1
  <2> QED BY <2>1, <2>2, <2>3
<1>5. ASSUME NEW j \in 1..d
      PROVE  /\ e[j] + 1 < o[j + 1] /\ t[o[j + 1]] = "start_block"
             /\ \A i \in e[j] + 1..o[j + 1] - 1 : t[i] = "normal"
  <2>1. e[j] \in 0..Len(s) /\ o[j + 1] \in 0..Len(s)
    BY <1>4
  <2>2. /\ e[j] + 1 < o[j + 1] /\ s[o[j + 1]] = "start_block"
        /\ \A i \in e[j] + 1..o[j + 1] - 1 : s[i] = "normal"
    BY DEF Located
  <2>3. o[j + 1] \in 1..Len(s)
    BY <1>1, <2>1, <2>2
  <2>4. ASSUME NEW i \in e[j] + 1..o[j + 1] - 1 PROVE t[i] = "normal"
    <3>1. i \in 1..Len(s)
      BY <1>1, <2>1, <2>3
    <3> QED BY <1>1, <2>2, <3>1
  <2> QED BY <1>1, <2>2, <2>3, <2>4
<1>6. ASSUME NEW i \in e[d + 1] + 1..Len(s) PROVE t[i] = "normal"
  <2>1. e[d + 1] \in 0..Len(s)
    BY <1>2
  <2>2. i \in 1..Len(s)
    BY <1>1, <2>1
  <2> QED BY <1>1, <2>2 DEF Located
<1> QED BY <1>1, <1>3, <1>4, <1>5, <1>6 DEF Left, t

LEMMA ReadWord ==
  ASSUME NEW s \in Tokens, NEW d \in Nat, NEW last, Unfinished(s, d, last)
  PROVE  Unfinished(Append(s, "normal"), d, "normal")
<1> DEFINE t == Append(s, "normal")
<1>1. PICK o, e : Located(s, d, o, e)
  BY DEF Unfinished
<1>2. "normal" \in GrammarTypes
  BY DEF GrammarTypes
<1>3. Left(s, t, d, o, e) /\ t[Len(s) + 1] = "normal"
  BY <1>1, <1>2, Kept
<1> HIDE DEF t
<1>4. e[d + 1] \in 0..Len(s) /\ Len(s) \in Nat /\ Len(t) = Len(s) + 1
  BY <1>3 DEF Left
<1>5. ASSUME NEW i \in e[d + 1] + 1..Len(t) PROVE t[i] = "normal"
  <2>1. i = Len(s) + 1 \/ i \in e[d + 1] + 1..Len(s)
    BY <1>4
  <2>2. \A j \in e[d + 1] + 1..Len(s) : t[j] = "normal"
    BY <1>3, Zenon DEF Left
  <2> QED BY <1>3, <2>1, <2>2
<1>6. Located(t, d, o, e)
  <2>1. o[1] = 0
    BY <1>1 DEF Located
  <2> QED BY <1>3, <1>5, <2>1, Zenon DEF Located, Left
<1>7. e[d + 1] < Len(t)
  BY <1>4
<1> QED BY <1>6, <1>7 DEF Unfinished, t

LEMMA ReadEnd ==
  ASSUME NEW s \in Tokens, NEW d \in Nat, Unfinished(s, d, "normal")
  PROVE  Unfinished(Append(s, "statement_end"), d, "statement_end")
<1> DEFINE t == Append(s, "statement_end")
<1>1. PICK o, e : Located(s, d, o, e) /\ e[d + 1] < Len(s)
  BY DEF Unfinished
<1>2. "statement_end" \in GrammarTypes
  BY DEF GrammarTypes
<1>3. Left(s, t, d, o, e) /\ t[Len(s) + 1] = "statement_end"
  BY <1>1, <1>2, Kept
<1> HIDE DEF t
<1> DEFINE m == e[d + 1]
           n == Len(s) + 1
           b == SubSeq(t, m + 1, n)
           g == [e EXCEPT ![d + 1] = n]
<1>4. /\ m \in 0..Len(s) /\ Len(s) \in Nat /\ Len(t) = n /\ t \in Tokens /\ m < Len(s)
      /\ o[d + 1] \in 0..Len(s) /\ o[d + 1] <= m /\ SubSeq(t, o[d + 1] + 1, m) \in Language
  BY <1>1, <1>3 DEF Left
<1>5. SubSeq(t, o[d + 1] + 1, n) \in Language
  <2>1. Len(s) - m \in 1..n - m /\ m < n /\ m \in Nat /\ o[d + 1] \in Nat
    BY <1>4
  <2>2. \A i \in 1..n - m : b[i] = t[i + m]
    <3>1. /\ m + 1 \in Nat \ {0} /\ n \in Nat /\ n <= Len(t) /\ m + 1 <= n + 1
          /\ n - (m + 1) + 1 = n - m /\ m \in Int
      BY <1>4
    <3> HIDE DEF n, m
    <3>4. t \in Seq(GrammarTypes)
      BY <1>4
    <3>5. \A i \in 1..n - (m + 1) + 1 : SubSeq(t, m + 1, n)[i] = t[(m + 1) + i - 1]
      BY ONLY <3>1, <3>4, Slice
    <3>2. \A i \in 1..n - m : b[i] = t[(m + 1) + i - 1]
      BY ONLY <3>1, <3>5, Zenon DEF b
    <3>3. \A i \in 1..n - m : (m + 1) + i - 1 = i + m
      BY <3>1
    <3> QED BY <3>2, <3>3
  <2>3. \A i \in m + 1..Len(s) : t[i] = "normal"
    BY <1>3, Zenon DEF Left
  <2>4. \A i \in 1..Len(s) - m : b[i] = "normal"
    <3>1. \A i \in 1..Len(s) - m : i \in 1..n - m /\ i + m \in m + 1..Len(s)
      BY <1>4
    <3> QED BY <2>2, <2>3, <3>1
  <2>5. b[n - m] = "statement_end"
    <3>1. n - m \in 1..n - m /\ (n - m) + m = Len(s) + 1
      BY <1>4
    <3> QED BY <1>3, <2>2, <3>1
  <2>6. Len(s) - m < n - m /\ Len(s) - m + 1 = n - m
    BY <1>4
  <2> HIDE DEF b, n, m
  <2>7. Heads(Language, b, Len(s) - m, n - m)
    BY <2>4, <2>5, <2>6 DEF Heads
  <2> QED BY <1>4, <2>1, <2>7, Joined DEF b
<1>6. e \in [1..d + 1 -> 0..n] /\ o \in [1..d + 1 -> 0..n] /\ n \in 0..n
  BY <1>3, <1>4 DEF Left
<1>7. g \in [1..d + 1 -> 0..n] /\ g[d + 1] = n /\ \A j \in 1..d : g[j] = e[j]
  BY <1>6
<1> HIDE DEF g
<1>8. ASSUME NEW j \in 1..d + 1 PROVE o[j] <= g[j] /\ SubSeq(t, o[j] + 1, g[j]) \in Language
  <2>1. CASE j = d + 1
    BY <1>4, <1>5, <1>7, <2>1
  <2>2. CASE j \in 1..d
    BY <1>3, <1>7, <2>2 DEF Left
  <2> QED BY <2>1, <2>2
<1>9. ASSUME NEW j \in 1..d
      PROVE  /\ g[j] + 1 < o[j + 1] /\ t[o[j + 1]] = "start_block"
             /\ \A i \in g[j] + 1..o[j + 1] - 1 : t[i] = "normal"
  BY <1>3, <1>7 DEF Left
<1>10. o[1] = 0
  BY <1>1 DEF Located
<1>11. \A i \in g[d + 1] + 1..Len(t) : t[i] = "normal"
  BY <1>4, <1>7
<1>12. Located(t, d, o, g)
  BY <1>4, <1>6, <1>7, <1>8, <1>9, <1>10, <1>11 DEF Located
<1> QED BY <1>4, <1>7, <1>12 DEF Unfinished, t

LEMMA ReadOpening ==
  ASSUME NEW s \in Tokens, NEW d \in Nat, Unfinished(s, d, "normal")
  PROVE  Unfinished(Append(s, "start_block"), d + 1, "start_block")
<1> DEFINE t == Append(s, "start_block")
<1>1. PICK o, e : Located(s, d, o, e) /\ e[d + 1] < Len(s)
  BY DEF Unfinished
<1>2. "start_block" \in GrammarTypes
  BY DEF GrammarTypes
<1>3. Left(s, t, d, o, e) /\ t[Len(s) + 1] = "start_block"
  BY <1>1, <1>2, Kept
<1> HIDE DEF t
<1> DEFINE n == Len(s) + 1
           p == [j \in 1..(d + 1) + 1 |-> IF j <= d + 1 THEN o[j] ELSE n]
           g == [j \in 1..(d + 1) + 1 |-> IF j <= d + 1 THEN e[j] ELSE n]
<1>4. /\ e[d + 1] \in 0..Len(s) /\ Len(s) \in Nat /\ Len(t) = n /\ t \in Tokens
  BY <1>3 DEF Left
<1>5. o \in [1..d + 1 -> 0..n] /\ e \in [1..d + 1 -> 0..n] /\ n \in 0..n
  BY <1>3, <1>4 DEF Left
<1>6. /\ p \in [1..(d + 1) + 1 -> 0..n] /\ p[(d + 1) + 1] = n /\ \A j \in 1..d + 1 : p[j] = o[j]
      /\ g \in [1..(d + 1) + 1 -> 0..n] /\ g[(d + 1) + 1] = n /\ \A j \in 1..d + 1 : g[j] = e[j]
  BY <1>5
<1>7. p[1] = 0
  BY <1>1, <1>6 DEF Located
<1> HIDE DEF p, g
<1>8. ASSUME NEW j \in 1..(d + 1) + 1 PROVE p[j] <= g[j] /\ SubSeq(t, p[j] + 1, g[j]) \in Language
  <2>1. CASE j = (d + 1) + 1
    <3>1. SubSeq(t, n + 1, n) = <<>>
      BY <1>4, SubSeqEmpty
    <3>2. p[j] = n /\ g[j] = n /\ n <= n
      BY <1>4, <1>6, <2>1
    <3> QED BY <3>1, <3>2, EmptyConfig
  <2>2. CASE j \in 1..d + 1
    BY <1>3, <1>6, <2>2 DEF Left
  <2> QED BY <2>1, <2>2
<1>9. ASSUME NEW j \in 1..d + 1
      PROVE  /\ g[j] + 1 < p[j + 1] /\ t[p[j + 1]] = "start_block"
             /\ \A i \in g[j] + 1..p[j + 1] - 1 : t[i] = "normal"
  <2>1. CASE j = d + 1
    <3>1. g[j] = e[d + 1] /\ p[j + 1] = n
      BY <1>6, <2>1
    <3>2. \A i \in e[d + 1] + 1..Len(s) : t[i] = "normal"
      BY <1>3, Zenon DEF Left
    <3>3. n - 1 = Len(s) /\ e[d + 1] + 1 < n
      BY <1>1, <1>4
    <3> QED BY <1>3, <3>1, <3>2, <3>3
  <2>2. CASE j \in 1..d
    <3>1. j \in 1..d + 1 /\ j + 1 \in 1..d + 1
      BY <2>2
    <3> QED BY <1>3, <1>6, <2>2, <3>1 DEF Left
  <2> QED BY <2>1, <2>2
<1>10. \A i \in g[(d + 1) + 1] + 1..Len(t) : t[i] = "normal"
  BY <1>4, <1>6
<1>11. Located(t, d + 1, p, g)
  BY <1>4, <1>6, <1>7, <1>8, <1>9, <1>10 DEF Located
<1>12. ~(g[(d + 1) + 1] < Len(t))
  BY <1>4, <1>6
<1> QED BY <1>11, <1>12 DEF Unfinished, t

\* Words and a configuration in braces, at the end of t.
LEMMA Braces ==
  ASSUME NEW t \in Tokens, NEW m \in Nat, NEW q \in Nat, NEW n \in Nat, n = Len(t),
         m + 1 < q, q < n, t[q] = "start_block", t[n] = "end_block",
         \A i \in m + 1..q - 1 : t[i] = "normal", SubSeq(t, q + 1, n - 1) \in Language
  PROVE  Heads(Language, SubSeq(t, m + 1, n), q - 1 - m, n - m)
<1> DEFINE b == SubSeq(t, m + 1, n)
           k == q - 1 - m
           u == SubSeq(b, k + 2, (n - m) - 1)
           v == SubSeq(t, q + 1, n - 1)
<1>1. /\ b \in Tokens /\ Len(b) = n - m
      /\ \A i \in 1..n - m : b[i] = t[i + m]
  OBVIOUS
<1>2. k \in Nat /\ k < n - m /\ k + 2 <= n - m /\ k + 1 \in 1..n - m /\ n - m \in 1..n - m
  OBVIOUS
<1>3. \A i \in 1..k : b[i] = "normal"
  <2>1. \A i \in 1..k : i \in 1..n - m /\ i + m \in m + 1..q - 1
    OBVIOUS
  <2> HIDE DEF b, k
  <2> QED BY <1>1, <2>1
<1>4. b[k + 1] = "start_block"
  <2>1. k + 1 + m = q
    OBVIOUS
  <2> HIDE DEF b, k
  <2> QED BY <1>1, <1>2, <2>1
<1>5. b[n - m] = "end_block"
  <2>1. (n - m) + m = n
    OBVIOUS
  <2> HIDE DEF b
  <2> QED BY <1>1, <1>2, <2>1
<1>6. u = v
  <2>1. k + 2 = q - m + 1 /\ (n - m) - 1 - (k + 2) + 1 = n - q - 1 /\ n - q - 1 \in Nat
    OBVIOUS
  <2>2. u \in Seq(GrammarTypes) /\ Len(u) = n - q - 1 /\ \A i \in 1..n - q - 1 : u[i] = b[i + k + 1]
    <3>1. u = SubSeq(b, k + 2, (n - m) - 1)
      OBVIOUS
    <3> DEFINE l == n - q - 1
               h == k + 2
               j == (n - m) - 1
    <3>2. /\ h \in Nat \ {0} /\ j \in Nat /\ j <= Len(b) /\ l \in Nat /\ h + l = j + 1
          /\ k \in Nat /\ h - 1 = k + 1
      BY <1>1, <1>2, <2>1
    <3>3. b \in Seq(GrammarTypes)
      BY <1>1
    <3> HIDE DEF b, k, u, l, h, j
    <3>4. /\ SubSeq(b, h, j) \in Seq(GrammarTypes) /\ Len(SubSeq(b, h, j)) = l
          /\ \A i \in 1..l : SubSeq(b, h, j)[i] = b[i + (h - 1)]
      BY ONLY <3>2, <3>3, SliceNamed
    <3>5. SubSeq(b, h, j) = u
      BY <3>1 DEF h, j
    <3>6. u \in Seq(GrammarTypes) /\ Len(u) = l /\ \A i \in 1..l : u[i] = b[i + (h - 1)]
      BY ONLY <3>4, <3>5, Zenon
    <3>7. \A i \in 1..l : i + (h - 1) = i + k + 1
      BY ONLY <3>2
    <3>8. \A i \in 1..l : u[i] = b[i + k + 1]
      BY ONLY <3>6, <3>7, Zenon
    <3> QED BY <3>6, <3>8, Zenon DEF l
  <2>3. v \in Seq(GrammarTypes) /\ Len(v) = n - q - 1 /\ \A i \in 1..n - q - 1 : v[i] = t[i + q]
    OBVIOUS
  <2>4. ASSUME NEW i \in 1..n - q - 1 PROVE u[i] = v[i]
    <3>1. i + k + 1 \in 1..n - m /\ i + k + 1 + m = i + q
      OBVIOUS
    <3> HIDE DEF b, k, u, v
    <3> QED BY <1>1, <2>2, <2>3, <3>1
  <2> HIDE DEF u, v
  <2> QED BY <2>2, <2>3, <2>4, SeqEqual
<1> HIDE DEF b, k
<1>7. SubSeq(b, k + 2, (n - m) - 1) \in Language
  BY <1>6
<1>8. Heads(Language, b, k, n - m)
  BY <1>2, <1>3, <1>4, <1>5, <1>7 DEF Heads
<1> QED BY <1>8 DEF b, k

LEMMA ReadClosing ==
  ASSUME NEW s \in Tokens, NEW d \in Nat, NEW last, last # "normal", Unfinished(s, d + 1, last)
  PROVE  Unfinished(Append(s, "end_block"), d, "end_block")
<1> DEFINE t == Append(s, "end_block")
<1>1. PICK o, e : Located(s, d + 1, o, e) /\ ~(e[(d + 1) + 1] < Len(s))
  BY DEF Unfinished
<1>2. "end_block" \in GrammarTypes
  BY DEF GrammarTypes
<1>3. Left(s, t, d + 1, o, e) /\ t[Len(s) + 1] = "end_block"
  BY <1>1, <1>2, Kept
<1> HIDE DEF t
<1> DEFINE m == e[d + 1]
           q == o[(d + 1) + 1]
           n == Len(s) + 1
           b == SubSeq(t, m + 1, n)
           p == [j \in 1..d + 1 |-> o[j]]
           g == [j \in 1..d + 1 |-> IF j = d + 1 THEN n ELSE e[j]]
<1>4. /\ m \in 0..Len(s) /\ q \in 0..Len(s) /\ Len(s) \in Nat /\ Len(t) = n /\ t \in Tokens
      /\ o[d + 1] \in 0..Len(s) /\ o[d + 1] <= m /\ SubSeq(t, o[d + 1] + 1, m) \in Language
      /\ e[(d + 1) + 1] \in 0..Len(s) /\ SubSeq(t, q + 1, e[(d + 1) + 1]) \in Language
      /\ m + 1 < q /\ t[q] = "start_block"
  BY <1>3 DEF Left
<1>5. \A i \in m + 1..q - 1 : t[i] = "normal"
  <2>1. d + 1 \in 1..d + 1
    OBVIOUS
  <2> QED BY <1>3, <2>1, Zenon DEF Left
<1>6. SubSeq(t, q + 1, Len(s)) \in Language
  <2>1. e[(d + 1) + 1] = Len(s)
    BY <1>1, <1>4
  <2> QED BY <1>4, <2>1
<1>7. SubSeq(t, o[d + 1] + 1, n) \in Language
  <2>1. /\ q - 1 - m \in 1..n - m /\ m < n /\ m \in Nat /\ q \in Nat /\ n \in Nat
        /\ o[d + 1] \in Nat /\ q < n /\ n - 1 = Len(s)
    <3>1. /\ m \in 0..Len(s) /\ q \in 0..Len(s) /\ Len(s) \in Nat /\ m + 1 < q
          /\ o[d + 1] \in 0..Len(s)
      BY <1>4
    <3> HIDE DEF m, q
    <3> QED BY <3>1
  <2> HIDE DEF n, m, q
  <2>2. t[n] = "end_block" /\ SubSeq(t, q + 1, n - 1) \in Language
    BY <1>3, <1>6, <2>1 DEF n
  <2>3. Heads(Language, b, q - 1 - m, n - m)
    BY <1>4, <1>5, <2>1, <2>2, Braces
  <2> QED BY <1>4, <2>1, <2>3, Joined
<1>8. /\ o \in [1..(d + 1) + 1 -> 0..n] /\ e \in [1..(d + 1) + 1 -> 0..n] /\ n \in 0..n
  <2>1. o \in [1..(d + 1) + 1 -> 0..Len(t)] /\ e \in [1..(d + 1) + 1 -> 0..Len(t)]
    BY <1>3, Zenon DEF Left
  <2>2. Len(t) = n /\ n \in 0..n
    BY <1>4
  <2> QED BY <2>1, <2>2
<1>9. /\ p \in [1..d + 1 -> 0..n] /\ \A j \in 1..d + 1 : p[j] = o[j]
      /\ g \in [1..d + 1 -> 0..n] /\ g[d + 1] = n /\ \A j \in 1..d : g[j] = e[j]
  BY <1>8
<1>10. p[1] = 0
  BY <1>1, <1>9 DEF Located
<1> HIDE DEF p, g
<1>11. ASSUME NEW j \in 1..d + 1 PROVE p[j] <= g[j] /\ SubSeq(t, p[j] + 1, g[j]) \in Language
  <2>1. CASE j = d + 1
    BY <1>4, <1>7, <1>9, <2>1
  <2>2. CASE j \in 1..d
    <3>1. j \in 1..(d + 1) + 1
      BY <2>2
    <3> QED BY <1>3, <1>9, <2>2, <3>1 DEF Left
  <2> QED BY <2>1, <2>2
<1>12. ASSUME NEW j \in 1..d
      PROVE  /\ g[j] + 1 < p[j + 1] /\ t[p[j + 1]] = "start_block"
             /\ \A i \in g[j] + 1..p[j + 1] - 1 : t[i] = "normal"
  <2>1. j \in 1..d + 1 /\ j + 1 \in 1..d + 1
    OBVIOUS
  <2> QED BY <1>3, <1>9, <2>1 DEF Left
<1>13. \A i \in g[d + 1] + 1..Len(t) : t[i] = "normal"
  BY <1>4, <1>9
<1>14. Located(t, d, p, g)
  BY <1>4, <1>9, <1>10, <1>11, <1>12, <1>13 DEF Located
<1>15. ~(g[d + 1] < Len(t))
  BY <1>4, <1>9
<1> QED BY <1>14, <1>15 DEF Unfinished, t

LEMMA ReadAll ==
  ASSUME NEW s \in Tokens, NEW last, last # "normal", Unfinished(s, 0, last)
  PROVE  s \in Language
<1>1. PICK o, e : Located(s, 0, o, e) /\ ~(e[0 + 1] < Len(s))
  BY DEF Unfinished
<1>2. o[1] = 0 /\ e[1] \in 0..Len(s) /\ SubSeq(s, o[1] + 1, e[1]) \in Language
  BY <1>1 DEF Located
<1>3. e[1] = Len(s)
  <2>1. 0 + 1 = 1 /\ Len(s) \in Nat
    OBVIOUS
  <2> QED BY <1>1, <1>2, <2>1
<1>4. SubSeq(s, 1, Len(s)) = s
  BY SubSeqFull
<1>5. SubSeq(s, 0 + 1, Len(s)) \in Language /\ 0 + 1 = 1
  BY <1>2, <1>3
<1> QED BY <1>4, <1>5

\* Closing what is open completes a configuration.
LEMMA Completed ==
  ASSUME NEW s \in Tokens, NEW d \in Nat, NEW last, last # "normal", Unfinished(s, d, last)
  PROVE  s \o [n \in 1..d |-> "end_block"] \in Language
<1> DEFINE Ends(m) == [n \in 1..m |-> "end_block"]
           T == {m \in Nat : \A r \in Tokens : \A l : l # "normal" /\ Unfinished(r, m, l) =>
                                r \o Ends(m) \in Language}
<1>1. 0 \in T
  <2>1. ASSUME NEW r \in Tokens, NEW l, l # "normal", Unfinished(r, 0, l)
        PROVE  r \o Ends(0) \in Language
    <3>1. Ends(0) = <<>>
      OBVIOUS
    <3>2. r \o <<>> = r
      BY ConcatEmptySeq
    <3> QED BY <2>1, <3>1, <3>2, ReadAll
  <2> QED BY <2>1
<1>2. ASSUME NEW m \in T PROVE m + 1 \in T
  <2>1. ASSUME NEW r \in Tokens, NEW l, l # "normal", Unfinished(r, m + 1, l)
        PROVE  r \o Ends(m + 1) \in Language
    <3> DEFINE q == Append(r, "end_block")
    <3>1. m \in Nat /\ q \in Tokens
      BY DEF GrammarTypes
    <3>2. Unfinished(q, m, "end_block")
      BY <2>1, <3>1, ReadClosing
    <3>3. q \o Ends(m) \in Language
      BY <3>1, <3>2, <1>2
    <3>4. q \o Ends(m) = r \o Ends(m + 1)
      <4>1. "end_block" \in GrammarTypes
        BY DEF GrammarTypes
      <4>2. /\ Ends(m) \in Seq(GrammarTypes) /\ Len(Ends(m)) = m
            /\ Ends(m + 1) \in Seq(GrammarTypes) /\ Len(Ends(m + 1)) = m + 1
        BY <3>1, <4>1
      <4>3. /\ q \o Ends(m) \in Seq(GrammarTypes) /\ Len(q \o Ends(m)) = Len(r) + 1 + m
            /\ r \o Ends(m + 1) \in Seq(GrammarTypes) /\ Len(r \o Ends(m + 1)) = Len(r) + 1 + m
        BY <3>1, <4>2
      <4>4. ASSUME NEW i \in 1..Len(r) + 1 + m PROVE (q \o Ends(m))[i] = (r \o Ends(m + 1))[i]
        <5>1. CASE i <= Len(r)
          BY <3>1, <4>2, <5>1
        <5>2. CASE i = Len(r) + 1
          BY <3>1, <4>2, <5>2
        <5>3. CASE i > Len(r) + 1
          BY <3>1, <4>2, <5>3
        <5> QED BY <5>1, <5>2, <5>3
      <4> QED BY <4>3, <4>4, SeqEqual
    <3> QED BY <3>3, <3>4
  <2> HIDE DEF Ends
  <2>2. m \in Nat /\ m + 1 \in Nat
    OBVIOUS
  <2> QED BY <2>1, <2>2
<1>3. T = Nat
  <2>1. T \in SUBSET Nat
    OBVIOUS
  <2> HIDE DEF T
  <2> QED BY <1>1, <1>2, <2>1, Induction
<1> QED BY <1>3

LEMMA DepthStep ==
  ASSUME NEW s \in Tokens, NEW x \in GrammarTypes, NEW f, Depths(f, s), f[Len(s)] + Delta(x) \in Nat
  PROVE  \E g : Depths(g, Append(s, x)) /\ g[Len(Append(s, x))] = f[Len(s)] + Delta(x)
<1> DEFINE t == Append(s, x)
           g == [i \in 0..Len(s) + 1 |-> IF i = Len(s) + 1 THEN f[Len(s)] + Delta(x) ELSE f[i]]
<1>1. Len(s) \in Nat /\ Len(t) = Len(s) + 1 /\ t[Len(s) + 1] = x /\ \A i \in 1..Len(s) : t[i] = s[i]
  BY Appended
<1> HIDE DEF t
<1>2. f \in [0..Len(s) -> Nat] /\ f[0] = 0 /\ \A i \in 1..Len(s) : f[i] = f[i - 1] + Delta(s[i])
  BY DEF Depths
<1>3. g \in [0..Len(s) + 1 -> Nat]
  BY <1>1, <1>2
<1>4. g[Len(s) + 1] = f[Len(s)] + Delta(x) /\ \A i \in 0..Len(s) : g[i] = f[i]
  BY <1>1
<1> HIDE DEF g
<1>5. ASSUME NEW i \in 1..Len(s) + 1 PROVE g[i] = g[i - 1] + Delta(t[i])
  <2>1. CASE i = Len(s) + 1
    BY <1>1, <1>4, <2>1
  <2>2. CASE i \in 1..Len(s)
    <3>1. i - 1 \in 0..Len(s) /\ i \in 0..Len(s)
      BY <1>1, <2>2
    <3> QED BY <1>1, <1>2, <1>4, <2>2, <3>1
  <2> QED BY <1>1, <2>1, <2>2
<1>6. g[0] = 0
  BY <1>1, <1>2, <1>4
<1>7. Depths(g, t)
  BY <1>1, <1>3, <1>5, <1>6 DEF Depths
<1> QED BY <1>1, <1>4, <1>7 DEF t

-----------------------------------------------------------------------------
(***************************************************************************)
(* The inductive invariant of Parse against the grammar.                   *)
(***************************************************************************)
Opened(s) == \E f : Depths(f, s) /\ f[Len(s)] = block_counter

Counted ==
  /\ \E V : seen \in Seq(GrammarTypes \X V)
  /\ \E B : blocks \in Seq(B)
  /\ block_counter \in Nat /\ block_counter + 1 <= Len(blocks)

Agrees ==
  /\ last_token_type = Previous(Read, Len(Read) + 1)
  /\ Unfinished(Read, block_counter, last_token_type)
  /\ Opened(Read)

Judged ==
  /\ token_type \in GrammarTypes \cup {"none", "comment", "eof", "error"}
  /\ returned \in {"none", "true", "false"} /\ (phase \in {"open", "parse"} => returned = "none")
  /\ phase = "open" => token_type = "none"
  /\ returned = "true" => last_token_type \in Before("eof") /\ block_counter = 0
  /\ returned = "false" /\ token_type # "none" => token_type # "comment" /\ ~Transition

GInv == Counted /\ Agrees /\ Judged

LEMMA ReadTyped ==
  ASSUME Counted
  PROVE  Read \in Tokens /\ Len(Read) = Len(seen) /\ Len(seen) \in Nat
<1>1. PICK V : seen \in Seq(GrammarTypes \X V)
  BY DEF Counted
<1> QED BY <1>1 DEF Read

\* The start of a parse.
Fresh ==
  /\ seen = <<>> /\ blocks = << <<>> >> /\ block_counter = 0 /\ last_token_type = "start"
  /\ token_type = "none" /\ returned = "none"

LEMMA Afresh == Fresh => GInv
<1> SUFFICES ASSUME Fresh PROVE GInv
  OBVIOUS
<1> USE DEF Fresh
<1>1. Read = <<>>
  BY DEF Read
<1>2. Counted
  <2>1. \E V : seen \in Seq(GrammarTypes \X V)
    <3>1. seen \in Seq(GrammarTypes \X {})
      OBVIOUS
    <3> QED BY <3>1
  <2>2. (\E B : blocks \in Seq(B)) /\ Len(blocks) = 1
    <3>1. blocks \in Seq({<<>>}) /\ Len(blocks) = 1
      OBVIOUS
    <3> QED BY <3>1
  <2>3. block_counter \in Nat /\ block_counter + 1 <= Len(blocks)
    BY <2>2
  <2> QED BY <2>1, <2>2, <2>3, Zenon DEF Counted
<1>3. Agrees
  <2>1. Depths([i \in 0..0 |-> 0], <<>>) /\ [i \in 0..0 |-> 0][0] = 0
    BY DEF Depths
  <2>2. Opened(<<>>)
    <3>1. Len(<<>>) = 0
      OBVIOUS
    <3> QED BY <2>1, <3>1 DEF Opened
  <2>3. Unfinished(<<>>, 0, "start")
    <3> DEFINE z == [j \in 1..0 + 1 |-> 0]
    <3>1. z \in [1..0 + 1 -> 0..0] /\ z[1] = 0 /\ z[0 + 1] = 0 /\ 1..0 + 1 = {1}
      OBVIOUS
    <3>2. SubSeq(<<>>, 0 + 1, 0) = <<>>
      BY SubSeqEmpty
    <3> HIDE DEF z
    <3>3. Located(<<>>, 0, z, z)
      <4>1. Len(<<>>) = 0 /\ 1..0 = {} /\ z[0 + 1] + 1..0 = {}
        BY <3>1
      <4>2. ASSUME NEW j \in 1..0 + 1
            PROVE  z[j] <= z[j] /\ SubSeq(<<>>, z[j] + 1, z[j]) \in Language
        <5>1. z[j] = 0
          BY <3>1
        <5>2. SubSeq(<<>>, z[j] + 1, z[j]) = <<>>
          BY ONLY <3>2, <5>1, Zenon
        <5>3. SubSeq(<<>>, z[j] + 1, z[j]) \in Language
          BY ONLY <5>2, EmptyConfig, Zenon
        <5>4. z[j] <= z[j]
          BY <5>1
        <5> QED BY <5>3, <5>4
      <4> QED BY <3>1, <4>1, <4>2 DEF Located
    <3> QED BY <3>1, <3>3 DEF Unfinished
  <2> QED BY <1>1, <2>2, <2>3 DEF Agrees, Previous
<1>4. Judged
  BY DEF Judged
<1> QED BY <1>2, <1>3, <1>4 DEF GInv

LEMMA StillAfresh == Fresh' => GInv'
BY Afresh, PTL

\* A token that is accepted.
LEMMA Accepted ==
  ASSUME GInv, phase = "parse", token_type \in GrammarTypes, Transition, Accept,
         \E B : blocks' \in Seq(B), block_counter' = block_counter + Delta(token_type),
         Len(blocks') >= Len(blocks), token_type = "start_block" => Len(blocks') = Len(blocks) + 1
  PROVE  GInv'
<1> USE DEF GInv
<1>1. Read \in Tokens /\ Len(Read) = Len(seen) /\ Len(seen) \in Nat
  BY ReadTyped
<1>2. Read' = Append(Read, token_type)
  <2>1. PICK V : seen \in Seq(GrammarTypes \X V)
    BY DEF Counted
  <2>2. seen' = Append(seen, <<token_type, value>>) /\ DOMAIN seen = 1..Len(seen)
    BY <2>1 DEF Accept
  <2>3. /\ Len(seen') = Len(seen) + 1 /\ DOMAIN seen' = 1..Len(seen) + 1
        /\ seen'[Len(seen) + 1] = <<token_type, value>> /\ \A i \in 1..Len(seen) : seen'[i] = seen[i]
    <3>1. seen \in Seq((GrammarTypes \X V) \cup {<<token_type, value>>})
      BY <2>1
    <3> QED BY <2>2, <3>1
  <2>4. Read' = [i \in 1..Len(seen) + 1 |-> seen'[i][1]] /\ Read = [i \in 1..Len(seen) |-> seen[i][1]]
    BY <2>2, <2>3 DEF Read
  <2>5. /\ Append(Read, token_type) \in Seq(GrammarTypes) /\ Len(Append(Read, token_type)) = Len(seen) + 1
        /\ Append(Read, token_type)[Len(seen) + 1] = token_type
        /\ \A i \in 1..Len(seen) : Append(Read, token_type)[i] = Read[i]
    BY <1>1, Appended
  <2>6. Read' \in Seq(GrammarTypes) /\ Len(Read') = Len(seen) + 1
    BY <1>1, <2>3, <2>4
  <2>7. ASSUME NEW i \in 1..Len(seen) + 1 PROVE Read'[i] = Append(Read, token_type)[i]
    <3>1. i = Len(seen) + 1 \/ i \in 1..Len(seen)
      BY <1>1
    <3> QED BY <2>3, <2>4, <2>5, <3>1
  <2> QED BY <2>5, <2>6, <2>7, SeqEqual
<1>3. /\ last_token_type' = token_type /\ token_type' = "none"
      /\ seen' = Append(seen, <<token_type, value>>) /\ phase' = phase /\ returned' = returned
  BY DEF Accept, main_
<1>4. block_counter' \in Nat
  BY DEF Counted, Transition, Delta
<1>5. Counted'
  <2>1. PICK V : seen \in Seq(GrammarTypes \X V)
    BY DEF Counted
  <2>2. seen' \in Seq(GrammarTypes \X (V \cup {value}))
    <3>1. seen \in Seq(GrammarTypes \X (V \cup {value}))
      BY <2>1
    <3> QED BY <1>3, <3>1
  <2>3. block_counter' + 1 <= Len(blocks')
    <3>1. PICK B : blocks \in Seq(B)
      BY DEF Counted
    <3>2. PICK C : blocks' \in Seq(C)
      OBVIOUS
    <3>3. Len(blocks) \in Nat /\ Len(blocks') \in Nat /\ block_counter + 1 <= Len(blocks) /\ block_counter \in Nat
      BY <3>1, <3>2 DEF Counted
    <3> QED BY <3>3 DEF Delta
  <2> QED BY <1>4, <2>2, <2>3 DEF Counted
<1>6. Agrees'
  <2>1. last_token_type' = Previous(Read', Len(Read') + 1)
    <3>1. Len(Read') = Len(Read) + 1 /\ Read'[Len(Read) + 1] = token_type /\ Len(Read) \in Nat
      BY <1>1, <1>2, Appended
    <3> QED BY <1>3, <3>1 DEF Previous
  <2>2. PICK f : Depths(f, Read) /\ f[Len(Read)] = block_counter
    BY DEF Agrees, Opened
  <2>3. f[Len(Read)] + Delta(token_type) \in Nat
    BY <1>4, <2>2
  <2>4. Opened(Read)'
    BY <1>1, <1>2, <2>2, <2>3, DepthStep DEF Opened
  <2>5. Unfinished(Read, block_counter, last_token_type) /\ block_counter \in Nat
    BY DEF Agrees, Counted
  <2>6. Unfinished(Read, block_counter, last_token_type)'
    <3>1. CASE token_type = "normal"
      <4>1. block_counter' = block_counter
        BY <2>5, <3>1 DEF Delta
      <4> QED BY <1>1, <1>2, <1>3, <2>5, <3>1, <4>1, ReadWord
    <3>2. CASE token_type = "statement_end"
      <4>1. block_counter' = block_counter /\ last_token_type = "normal"
        BY <2>5, <3>2 DEF Delta, Transition, Before
      <4> QED BY <1>1, <1>2, <1>3, <2>5, <3>2, <4>1, ReadEnd
    <3>3. CASE token_type = "start_block"
      <4>1. block_counter' = block_counter + 1 /\ last_token_type = "normal"
        BY <2>5, <3>3 DEF Delta, Transition, Before
      <4> QED BY <1>1, <1>2, <1>3, <2>5, <3>3, <4>1, ReadOpening
    <3>4. CASE token_type = "end_block"
      <4>1. block_counter' + 1 = block_counter /\ last_token_type # "normal"
        BY <2>5, <3>4 DEF Delta, Transition, Before
      <4>2. Unfinished(Read, block_counter' + 1, last_token_type)
        BY <2>5, <4>1
      <4> QED BY <1>1, <1>2, <1>3, <1>4, <3>4, <4>1, <4>2, ReadClosing
    <3> QED BY <3>1, <3>2, <3>3, <3>4 DEF GrammarTypes
  <2> QED BY <2>1, <2>4, <2>6 DEF Agrees
<1>7. Judged'
  BY <1>3 DEF Judged
<1> QED BY <1>5, <1>6, <1>7

\* What the lexer and main do leaves the parse alone.
LEMMA SameParse ==
  ASSUME GInv, UNCHANGED parse, Judged'
  PROVE  GInv'
<1>1. Read' = Read
  BY DEF parse, Read
<1>2. Counted'
  BY DEF GInv, Counted, parse, tree
<1>3. Agrees'
  BY <1>1 DEF GInv, Agrees, Opened, parse, tree
<1> QED BY <1>2, <1>3 DEF GInv

LEMMA Replaced ==
  ASSUME NEW B, NEW s \in Seq(B), NEW i, NEW x
  PROVE  [s EXCEPT ![i] = x] \in Seq(B \cup {x}) /\ Len([s EXCEPT ![i] = x]) = Len(s) /\ Len(s) \in Nat
<1>1. s \in Seq(B \cup {x}) /\ x \in B \cup {x} /\ Len(s) \in Nat /\ s \in [1..Len(s) -> B \cup {x}]
  OBVIOUS
<1>2. CASE i \in 1..Len(s)
  BY <1>1, <1>2, ExceptSeq
<1>3. CASE i \notin 1..Len(s)
  <2>1. [s EXCEPT ![i] = x] = s
    BY <1>1, <1>3
  <2> QED BY <1>1, <2>1
<1> QED BY <1>2, <1>3

LEMMA RoundTripStep == ASSUME GInv, RoundTripNext PROVE GInv'
<1> USE DEF GInv
<1>1. ASSUME Open \/ OpenFails PROVE GInv'
  <2>1. UNCHANGED parse /\ Judged'
    BY <1>1 DEF Open, OpenFails, Judged, lexer, parse, tree, Transition
  <2> QED BY <2>1, SameParse
<1>2. ASSUME ParseToken PROVE GInv'
  <2>1. UNCHANGED parse /\ phase = "parse" /\ phase' = phase /\ returned' = returned
    BY <1>2 DEF ParseToken, main_
  <2>2. token_type' \in GrammarTypes \cup {"none", "comment"}
    BY <1>2 DEF ParseToken, Whitespace, Quote, Comment, Word, Moves, Punctuation, GrammarTypes
  <2>3. Judged'
    BY <2>1, <2>2 DEF Judged
  <2> QED BY <2>1, <2>3, SameParse
<1>3. ASSUME EndOfFile \/ SkipComment PROVE GInv'
  <2>1. UNCHANGED parse /\ phase = "parse" /\ phase' = phase /\ returned' = returned
        /\ token_type' \in {"eof", "error", "none"}
    BY <1>3 DEF EndOfFile, SkipComment, main_
  <2>2. Judged'
    BY <2>1 DEF Judged
  <2> QED BY <2>1, <2>2, SameParse
<1>4. ASSUME Normal PROVE GInv'
  <2>1. PICK x : blocks' = [blocks EXCEPT ![Top] = x]
    BY <1>4 DEF Normal
  <2>2. PICK B : blocks \in Seq(B)
    BY DEF Counted
  <2>3. blocks' \in Seq(B \cup {x}) /\ Len(blocks') = Len(blocks) /\ Len(blocks) \in Nat
    BY <2>1, <2>2, Replaced
  <2>4. /\ phase = "parse" /\ token_type \in GrammarTypes /\ Transition /\ Accept
        /\ token_type # "start_block" /\ Delta(token_type) = 0 /\ block_counter' = block_counter
    BY <1>4 DEF Normal, Given, GrammarTypes, Delta
  <2>5. block_counter' = block_counter + Delta(token_type)
    BY <2>4 DEF Counted
  <2> QED BY <2>3, <2>4, <2>5, Accepted
<1>5. ASSUME StatementEnd PROVE GInv'
  <2>1. /\ phase = "parse" /\ token_type \in GrammarTypes /\ Transition /\ Accept
        /\ token_type # "start_block" /\ Delta(token_type) = 0 /\ block_counter' = block_counter
        /\ blocks' = blocks
    BY <1>5 DEF StatementEnd, Given, GrammarTypes, Delta, tree
  <2>2. PICK B : blocks \in Seq(B)
    BY DEF Counted
  <2>3. block_counter' = block_counter + Delta(token_type) /\ blocks' \in Seq(B) /\ Len(blocks) \in Nat
    BY <2>1, <2>2 DEF Counted
  <2> QED BY <2>1, <2>3, Accepted
<1>6. ASSUME StartBlock PROVE GInv'
  <2>1. PICK x : blocks' = Append([blocks EXCEPT ![Top] = x], <<>>)
    BY <1>6 DEF StartBlock
  <2>2. PICK B : blocks \in Seq(B)
    BY DEF Counted
  <2>3. blocks' \in Seq(B \cup {x, <<>>}) /\ Len(blocks') = Len(blocks) + 1 /\ Len(blocks) \in Nat
    <3>1. /\ [blocks EXCEPT ![Top] = x] \in Seq(B \cup {x, <<>>})
          /\ Len([blocks EXCEPT ![Top] = x]) = Len(blocks) /\ Len(blocks) \in Nat
      <4> DEFINE C == B \cup {<<>>}
      <4>1. blocks \in Seq(C)
        BY <2>2
      <4>2. C \cup {x} = B \cup {x, <<>>}
        OBVIOUS
      <4> HIDE DEF C
      <4>3. /\ [blocks EXCEPT ![Top] = x] \in Seq(C \cup {x})
            /\ Len([blocks EXCEPT ![Top] = x]) = Len(blocks) /\ Len(blocks) \in Nat
        BY <4>1, Replaced
      <4> QED BY <4>2, <4>3
    <3> QED BY <2>1, <3>1
  <2>4. /\ phase = "parse" /\ token_type \in GrammarTypes /\ Transition /\ Accept
        /\ Delta(token_type) = 1 /\ block_counter' = block_counter + 1
    BY <1>6 DEF StartBlock, Given, GrammarTypes, Delta
  <2> QED BY <2>3, <2>4, Accepted
<1>7. ASSUME EndBlock PROVE GInv'
  <2>1. /\ phase = "parse" /\ token_type \in GrammarTypes /\ Transition /\ Accept
        /\ token_type # "start_block" /\ Delta(token_type) = -1 /\ block_counter' = block_counter - 1
        /\ blocks' = blocks
    BY <1>7 DEF EndBlock, Given, GrammarTypes, Delta
  <2>2. PICK B : blocks \in Seq(B)
    BY DEF Counted
  <2>3. block_counter' = block_counter + Delta(token_type) /\ blocks' \in Seq(B) /\ Len(blocks) \in Nat
    BY <2>1, <2>2 DEF Counted
  <2> QED BY <2>1, <2>3, Accepted
<1>8. ASSUME Eof PROVE GInv'
  <2>1. UNCHANGED <<lexer, parse>> /\ returned' = "true" /\ phase' = "parsed"
        /\ token_type = "eof" /\ Transition
    BY <1>8 DEF Eof, Given
  <2>2. Judged'
    BY <2>1 DEF Judged, Transition, lexer, parse, tree
  <2> QED BY <2>1, <2>2, SameParse
<1>9. ASSUME BadTransition PROVE GInv'
  <2>1. UNCHANGED <<lexer, parse>> /\ returned' = "false" /\ phase' = "parsed"
        /\ token_type \notin {"none", "comment"} /\ ~Transition
    BY <1>9 DEF BadTransition
  <2>2. Judged'
    BY <2>1 DEF Judged, Transition, lexer, parse, tree
  <2> QED BY <2>1, <2>2, SameParse
<1>10. ASSUME main PROVE GInv'
  <2>1. UNCHANGED <<lexer, parse>> /\ returned' = returned /\ phase' \in {"exited", "listening"}
    BY <1>10 DEF main
  <2>2. Judged'
    BY <2>1 DEF Judged, Transition, lexer, parse, tree
  <2> QED BY <2>1, <2>2, SameParse
<1>11. ASSUME UNCHANGED vars PROVE GInv'
  <2>1. UNCHANGED <<lexer, parse, main_>>
    BY <1>11 DEF vars
  <2>2. Judged'
    BY <2>1 DEF Judged, Transition, lexer, parse, tree, main_
  <2> QED BY <2>1, <2>2, SameParse
<1>12. ASSUME Serialize PROVE GInv'
  <2>1. Fresh'
    BY <1>12 DEF Serialize, Fresh
  <2> QED BY <2>1, StillAfresh, Zenon
<1>13. \/ Open \/ OpenFails \/ ParseToken \/ EndOfFile \/ SkipComment \/ Normal \/ StatementEnd
       \/ StartBlock \/ EndBlock \/ Eof \/ BadTransition \/ main \/ UNCHANGED vars \/ Serialize
  BY Zenon DEF RoundTripNext, Next, Started
<1> HIDE DEF GInv
<1> QED
  BY <1>1, <1>2, <1>3, <1>4, <1>5, <1>6, <1>7, <1>8, <1>9, <1>10, <1>11, <1>12, <1>13, Zenon

\* What the invariant says of the parser's verdicts.
LEMMA GrammarAccepted == ASSUME GInv PROVE AcceptsGrammar
<1> USE DEF GInv
<1>1. Read \in Tokens /\ Len(Read) \in Nat
  BY ReadTyped
<1>2. /\ Unfinished(Read, block_counter, last_token_type) /\ block_counter \in Nat
      /\ last_token_type = Previous(Read, Len(Read) + 1)
  BY DEF Agrees, Counted
<1>3. PICK f : Depths(f, Read) /\ f[Len(Read)] = block_counter
  BY DEF Agrees, Opened
<1>4. \A c \in Completions : c \in Tokens
  <2>1. ASSUME NEW start \in {<<>>, <<"statement_end">>, <<"normal", "statement_end">>},
               NEW closing \in Nat
        PROVE  start \o [n \in 1..closing |-> "end_block"] \in Tokens
    <3>1. /\ "statement_end" \in GrammarTypes /\ "normal" \in GrammarTypes
          /\ "end_block" \in GrammarTypes
      BY DEF GrammarTypes
    <3>2. start \in Seq(GrammarTypes)
      <4>1. /\ <<>> \in Seq(GrammarTypes) /\ <<"statement_end">> \in Seq(GrammarTypes)
            /\ <<"normal", "statement_end">> \in Seq(GrammarTypes)
        BY <3>1
      <4> QED BY <4>1
    <3>3. [n \in 1..closing |-> "end_block"] \in Seq(GrammarTypes)
      BY <3>1
    <3> QED BY <3>2, <3>3
  <2>2. Len(blocks) \in Nat
    BY DEF Counted
  <2>3. ASSUME NEW c \in Completions PROVE c \in Tokens
    <3> DEFINE starts == {<<>>, <<"statement_end">>, <<"normal", "statement_end">>}
               made(start, closing) == start \o [n \in 1..closing |-> "end_block"]
    <3>1. Completions = {made(start, closing) : start \in starts, closing \in 0..Len(blocks)}
      BY DEF Completions
    <3>2. \A start \in starts, closing \in Nat : made(start, closing) \in Tokens
      BY <2>1
    <3>3. 0..Len(blocks) \subseteq Nat
      BY <2>2
    <3> HIDE DEF made, starts
    <3> QED BY <3>1, <3>2, <3>3
  <2> QED BY <2>3
<1>5. \E c \in Completions : IsConfig[Read \o c]
  <2> DEFINE ends == [n \in 1..block_counter |-> "end_block"]
  <2>1. block_counter \in 0..Len(blocks)
    <3>1. Len(blocks) \in Nat
      BY DEF Counted
    <3> QED BY <3>1 DEF Counted
  <2>2. <<>> \o ends \in Completions /\ <<"statement_end">> \o ends \in Completions
    <3> DEFINE starts == {<<>>, <<"statement_end">>, <<"normal", "statement_end">>}
               made(start, closing) == start \o [n \in 1..closing |-> "end_block"]
    <3>1. Completions = {made(start, closing) : start \in starts, closing \in 0..Len(blocks)}
      BY DEF Completions
    <3>2. <<>> \in starts /\ <<"statement_end">> \in starts
      OBVIOUS
    <3>3. <<>> \o ends = made(<<>>, block_counter)
          /\ <<"statement_end">> \o ends = made(<<"statement_end">>, block_counter)
      OBVIOUS
    <3> HIDE DEF made, starts, ends
    <3>4. \A x \in starts : made(x, block_counter) \in Completions
      BY ONLY <2>1, <3>1
    <3> QED BY <3>2, <3>3, <3>4, Zenon
  <2>3. ends \in Seq(GrammarTypes) /\ <<>> \o ends = ends
    BY <1>2 DEF GrammarTypes
  <2>4. CASE last_token_type # "normal"
    <3>1. Read \o ends \in Language
      BY <1>1, <1>2, <2>4, Completed
    <3> QED BY <2>2, <2>3, <3>1 DEF Language
  <2>5. CASE last_token_type = "normal"
    <3> DEFINE t == Append(Read, "statement_end")
    <3>1. t \in Tokens
      BY <1>1 DEF GrammarTypes
    <3>2. Unfinished(t, block_counter, "statement_end")
      BY <1>1, <1>2, <2>5, ReadEnd
    <3>3. t \o ends \in Language
      BY <1>2, <3>1, <3>2, Completed
    <3>4. t \o ends = Read \o (<<"statement_end">> \o ends)
      <4>1. /\ Read \in Seq(GrammarTypes) /\ <<"statement_end">> \in Seq(GrammarTypes)
            /\ t = Read \o <<"statement_end">>
        BY <1>1 DEF GrammarTypes
      <4> HIDE DEF t, ends
      <4> QED BY <2>3, <4>1, Regroup
    <3> QED BY <2>2, <3>3, <3>4 DEF Language
  <2> QED BY <2>4, <2>5
<1>6. returned = "true" => IsConfig[Read]
  <2> SUFFICES ASSUME returned = "true" PROVE IsConfig[Read]
    OBVIOUS
  <2>1. block_counter = 0 /\ last_token_type # "normal"
    BY DEF Judged, Before
  <2> QED BY <1>1, <1>2, <2>1, ReadAll DEF Language
<1>7. returned = "false" /\ token_type = "eof" => ~IsConfig[Read]
  <2> SUFFICES ASSUME returned = "false", token_type = "eof", IsConfig[Read] PROVE FALSE
    OBVIOUS
  <2>1. Flat(Read)
    BY <1>1, Sound DEF Language
  <2>2. PICK g : Depths(g, Read) /\ g[Len(Read)] = 0
    BY <2>1 DEF Flat
  <2>3. block_counter = 0
    <3>1. Len(Read) \in 0..Len(Read) /\ Len(Read) <= Len(Read)
      BY <1>1
    <3> QED BY <1>1, <1>3, <2>2, <3>1, OneDepth
  <2>4. Transition
    BY <1>2, <2>1, <2>3 DEF Flat, Transition
  <2> QED BY <2>4 DEF Judged
<1>8. ASSUME returned = "false", token_type \notin {"none", "eof", "error"}, NEW c \in Completions,
             IsConfig[Append(Read, token_type) \o c]
      PROVE  FALSE
  <2>1. token_type \in GrammarTypes /\ ~Transition
    BY <1>8 DEF Judged
  <2> DEFINE n == Len(Read)
             a == Append(Read, token_type)
             t == a \o c
  <2>2. /\ a \in Tokens /\ Len(a) = n + 1 /\ a[n + 1] = token_type /\ \A i \in 1..n : a[i] = Read[i]
    BY <1>1, <2>1, Appended
  <2> HIDE DEF a
  <2>3. /\ t \in Tokens /\ Len(t) \in Nat /\ Len(t) >= n + 1 /\ t[n + 1] = token_type
        /\ \A i \in 1..n : t[i] = Read[i]
    BY <1>1, <1>4, <2>2
  <2> HIDE DEF t
  <2>4. Flat(t)
    BY <1>8, <2>3, Sound DEF Language, t, a
  <2>5. PICK g : Depths(g, t)
    BY <2>4 DEF Flat
  <2>6. n + 1 \in 1..Len(t) /\ n \in 0..Len(t) /\ n <= Len(t) /\ n \in 0..Len(Read)
    BY <1>1, <2>3
  <2>7. last_token_type \in Before(token_type)
    <3>1. Previous(t, n + 1) \in Before(token_type)
      BY <2>3, <2>4, <2>6 DEF Flat, Neighbours
    <3>2. Previous(t, n + 1) = Previous(Read, n + 1)
      BY <1>1, <2>3 DEF Previous
    <3> QED BY <1>2, <3>1, <3>2
  <2>8. g[n] = block_counter
    BY <1>1, <1>3, <2>3, <2>5, <2>6, OneDepth
  <2>9. g[n + 1] = g[n] + Delta(token_type) /\ g[n + 1] \in Nat
    <3>1. g[n + 1] = g[(n + 1) - 1] + Delta(t[n + 1]) /\ g \in [0..Len(t) -> Nat]
      BY <2>5, <2>6 DEF Depths
    <3>2. (n + 1) - 1 = n /\ n + 1 \in 0..Len(t)
      BY <1>1, <2>6
    <3> QED BY <2>3, <3>1, <3>2
  <2>10. token_type = "end_block" => block_counter > 0
    BY <1>2, <2>8, <2>9 DEF Delta
  <2>11. token_type # "eof"
    BY <2>1 DEF GrammarTypes
  <2> QED BY <2>1, <2>7, <2>10, <2>11 DEF Transition
<1> QED BY <1>5, <1>6, <1>7, <1>8 DEF AcceptsGrammar

\* nginx_config_parser.cc:122-198, for every file: as long as tokens are taken, some
\* configuration begins with them; Parse returns true only for a configuration, and
\* refuses a token only when no configuration that begins so exists.
THEOREM AcceptsTheGrammar == RoundTripSpec => []AcceptsGrammar
<1>1. RoundTripInit => GInv
  <2> SUFFICES ASSUME RoundTripInit PROVE GInv
    OBVIOUS
  <2>1. Fresh
    BY DEF RoundTripInit, Init, Fresh
  <2> QED BY <2>1, Afresh
<1>2. GInv /\ [RoundTripNext]_<<vars, first>> => GInv'
  <2>1. ASSUME GInv, UNCHANGED <<vars, first>> PROVE GInv'
    <3>1. UNCHANGED <<lexer, parse, main_>>
      BY <2>1 DEF vars
    <3>2. Judged'
      BY <2>1, <3>1 DEF GInv, Judged, Transition, lexer, parse, tree, main_
    <3> QED BY <2>1, <3>1, <3>2, SameParse
  <2> QED BY <2>1, RoundTripStep
<1>3. GInv => AcceptsGrammar
  BY GrammarAccepted
<1> QED BY <1>1, <1>2, <1>3, PTL DEF RoundTripSpec
=============================================================================
