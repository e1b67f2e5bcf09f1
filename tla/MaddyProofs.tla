---------------------------- MODULE MaddyProofs ----------------------------
(***************************************************************************)
(* Proofs about Maddy, for every set of documents, of any lines and any    *)
(* length.                                                                 *)
(*                                                                         *)
(* HandedDown and Adopted are recursive functions on 0..n.  Recursion      *)
(* shows that they exist; Descends and Ascends that their values stay in   *)
(* sets their steps preserve, which is how everything below is proved of   *)
(* a chain of any length: Going is what holds of a line on its way down,   *)
(* Trim what is left when finished children have been adopted.             *)
(***************************************************************************)
EXTENDS Maddy, SequenceLemmas

\* The recursive function that starts at a and goes on from each value to the next.
Iterates(r, a, S, N) == r[0] = a /\ \A n \in 1..N : r[n] = S[n][r[n - 1]]

\* The values after n steps are in D[n].
Leads(D, S, N) == \A n \in 1..N : \A d \in D[n - 1] : S[n][d] \in D[n]

\* A recursive function exists, and its values stay in D: by induction on how
\* many steps it is defined for.
LEMMA Recursion ==
  ASSUME NEW U, NEW N \in Nat, NEW D \in [0..N -> SUBSET U], NEW a \in D[0], NEW S, Leads(D, S, N)
  PROVE  \E r \in [0..N -> U] : Iterates(r, a, S, N) /\ \A n \in 0..N : r[n] \in D[n]
<1> USE DEF Iterates, Leads
<1> DEFINE Upto(r, k) == /\ r[0] = a /\ \A n \in 1..k : r[n] = S[n][r[n - 1]]
                         /\ \A n \in 0..k : r[n] \in D[n]
           T == {k \in Nat : k <= N => \E r \in [0..k -> U] : Upto(r, k)}
<1>0. \A n \in 0..N : D[n] \subseteq U
  OBVIOUS
<1>1. 0 \in T
  <2> DEFINE r == [n \in 0..0 |-> a]
  <2>1. r \in [0..0 -> U] /\ Upto(r, 0)
    OBVIOUS
  <2> QED BY <2>1
<1>2. ASSUME NEW k \in T PROVE k + 1 \in T
  <2> SUFFICES ASSUME k + 1 <= N PROVE \E r \in [0..k + 1 -> U] : Upto(r, k + 1)
    <3> HIDE DEF Upto
    <3> QED OBVIOUS
  <2>1. PICK q \in [0..k -> U] : Upto(q, k)
    OBVIOUS
  <2> DEFINE r == [n \in 0..k + 1 |-> IF n = k + 1 THEN S[k + 1][q[k]] ELSE q[n]]
  <2>2. k \in Nat /\ k + 1 \in 1..N /\ k + 1 \in 0..N /\ k \in 0..k /\ (k + 1) - 1 = k
    OBVIOUS
  <2>3. S[k + 1][q[k]] \in D[k + 1]
    <3>1. q[k] \in D[k]
      BY <2>1, <2>2
    <3>2. \A d \in D[(k + 1) - 1] : S[k + 1][d] \in D[k + 1]
      BY <2>2, Zenon
    <3> QED BY <2>2, <3>1, <3>2
  <2>4. ASSUME NEW n \in 0..k + 1 PROVE r[n] \in D[n]
    <3>1. CASE n = k + 1
      BY <2>3, <3>1
    <3>2. CASE n # k + 1
      <4>1. n \in 0..k /\ r[n] = q[n]
        BY <2>2, <3>2
      <4> QED BY <2>1, <4>1
    <3> QED BY <3>1, <3>2
  <2>5. ASSUME NEW n \in 1..k + 1 PROVE r[n] = S[n][r[n - 1]]
    <3>1. n - 1 \in 0..k /\ n - 1 # k + 1 /\ r[n - 1] = q[n - 1]
      BY <2>2
    <3>2. CASE n = k + 1
      <4>1. r[n] = S[k + 1][q[k]]
        BY <3>2
      <4> HIDE DEF r
      <4> QED BY <2>2, <3>1, <3>2, <4>1
    <3>3. CASE n # k + 1
      <4>1. n \in 1..k /\ r[n] = q[n]
        BY <2>2, <3>3
      <4>2. q[n] = S[n][q[n - 1]]
        BY <2>1, <4>1
      <4> HIDE DEF r
      <4> QED BY <3>1, <4>1, <4>2
    <3> QED BY <3>2, <3>3
  <2>6. r[0] = a
    BY <2>1, <2>2
  <2>7. r \in [0..k + 1 -> U]
    <3>1. \A n \in 0..k + 1 : n \in 0..N
      BY <2>2
    <3>2. \A n \in 0..k + 1 : r[n] \in U
      BY <1>0, <2>4, <3>1
    <3> QED BY <3>2
  <2> HIDE DEF r
  <2> QED BY <2>4, <2>5, <2>6, <2>7
<1>3. T = Nat
  <2>1. T \in SUBSET Nat
    OBVIOUS
  <2> HIDE DEF T
  <2> QED BY <1>1, <1>2, <2>1, Induction
<1>4. N \in T
  BY <1>3
<1> QED BY <1>4

-----------------------------------------------------------------------------
(* The line on its way down the chain. *)

Step(chain, way) ==
  LET child == Child(chain, way) IN IF child = <<>> THEN way ELSE Hand(way, child[1])

Begin(line) == [chain |-> <<>>, given |-> line, line |-> line]

\* What holds of the line after n steps down: R[n].
LEMMA Descends ==
  ASSUME NEW chain, NEW line, Depth(chain, line) \in Nat, NEW U,
         NEW R \in [0..Depth(chain, line) -> SUBSET U], Begin(line) \in R[0],
         \A n \in 1..Depth(chain, line) : \A way \in R[n - 1] : Step(chain, way) \in R[n]
  PROVE  HandedDown(chain, line) \in R[Depth(chain, line)]
<1> DEFINE N == Depth(chain, line)
           Up(n, b) == Step(chain, b)
           Ascent(w) == w = [n \in 0..N |-> IF n = 0 THEN Begin(line) ELSE Up(n, w[n - 1])]
           c == CHOOSE w : Ascent(w)
<1>1. HandedDown(chain, line) = c[N]
  BY Zenon DEF HandedDown, Begin, Step
<1>2. \E w : Ascent(w)
  <2> DEFINE S == [n \in 1..N |-> [d \in U |-> Up(n, d)]]
  <2>1. N \in Nat /\ \A n \in 0..N : R[n] \subseteq U
    OBVIOUS
  <2>2. \A n \in 1..N : \A d \in U : S[n][d] = Up(n, d)
    OBVIOUS
  <2>3. Leads(R, S, N)
    <3>1. \A n \in 1..N : n - 1 \in 0..N /\ n \in 0..N
      BY <2>1
    <3>2. \A n \in 1..N : \A d \in R[n - 1] : Up(n, d) \in R[n]
      OBVIOUS
    <3> HIDE DEF S, N, Up
    <3> QED BY <2>1, <2>2, <3>1, <3>2 DEF Leads
  <2>0. R \in [0..N -> SUBSET U] /\ Begin(line) \in R[0]
    OBVIOUS
  <2> HIDE DEF S, N, Up
  <2>7. PICK r \in [0..N -> U] : Iterates(r, Begin(line), S, N)
    BY ONLY <2>0, <2>1, <2>3, Recursion
  <2>4. r[0] = Begin(line) /\ \A n \in 1..N : r[n] = S[n][r[n - 1]]
    BY <2>7 DEF Iterates
  <2>5. ASSUME NEW n \in 0..N
        PROVE  r[n] = IF n = 0 THEN Begin(line) ELSE Up(n, r[n - 1])
    <3>1. CASE n = 0
      BY <2>4, <3>1
    <3>2. CASE n # 0
      <4>1. n \in 1..N /\ n - 1 \in 0..N
        BY <2>1, <3>2
      <4>2. r[n - 1] \in U
        BY <4>1
      <4> QED BY <2>2, <2>4, <3>2, <4>1, <4>2, Zenon
    <3> QED BY <3>1, <3>2
  <2>6. Ascent(r)
    <3>1. r = [n \in 0..N |-> r[n]]
      OBVIOUS
    <3> QED BY <2>5, <3>1, Zenon
  <2> QED BY <2>6
<1>3. Ascent(c)
  BY <1>2, Zenon
<1> HIDE DEF c
<1>4. \A n \in 0..N : c[n] = IF n = 0 THEN Begin(line) ELSE Up(n, c[n - 1])
  BY <1>3, Zenon
<1> DEFINE T == {n \in Nat : n <= N => c[n] \in R[n]}
<1>5. 0 \in T
  BY <1>4
<1>6. ASSUME NEW n \in T PROVE n + 1 \in T
  <2> SUFFICES ASSUME n + 1 <= N PROVE c[n + 1] \in R[n + 1]
    OBVIOUS
  <2>1. n + 1 \in 0..N /\ n + 1 \in 1..N /\ n + 1 # 0 /\ (n + 1) - 1 = n /\ n <= N
    OBVIOUS
  <2>2. c[n + 1] = Up(n + 1, c[n]) /\ c[n] \in R[n]
    <3> HIDE DEF Up, N
    <3> QED BY <1>4, <2>1
  <2>3. \A m \in 1..N : \A b \in R[m - 1] : Up(m, b) \in R[m]
    OBVIOUS
  <2> HIDE DEF Up, N
  <2> QED BY <2>1, <2>2, <2>3
<1>7. T = Nat
  <2>1. T \in SUBSET Nat
    OBVIOUS
  <2> HIDE DEF T
  <2> QED BY <1>5, <1>6, <2>1, Induction
<1>8. N \in T
  BY <1>7
<1> QED BY <1>1, <1>8
\* What the parsers leave of their chain: R holds of the n innermost.
LEMMA Ascends ==
  ASSUME NEW chain, Len(chain) \in Nat, NEW U, NEW R \in [0..Len(chain) -> SUBSET U], <<>> \in R[0],
         \A n \in 1..Len(chain) : \A b \in R[n - 1] : Adopt(chain[Len(chain) - n + 1], b) \in R[n]
  PROVE  Adopted(chain) \in R[Len(chain)]
<1> DEFINE N == Len(chain)
           Up(n, b) == Adopt(chain[N - n + 1], b)
           Ascent(w) == w = [n \in 0..N |-> IF n = 0 THEN <<>> ELSE Up(n, w[n - 1])]
           c == CHOOSE w : Ascent(w)
<1>1. Adopted(chain) = c[N]
  BY Zenon DEF Adopted
<1>2. \E w : Ascent(w)
  <2> DEFINE S == [n \in 1..N |-> [d \in U |-> Up(n, d)]]
  <2>1. N \in Nat /\ \A n \in 0..N : R[n] \subseteq U
    OBVIOUS
  <2>2. \A n \in 1..N : \A d \in U : S[n][d] = Up(n, d)
    OBVIOUS
  <2>3. Leads(R, S, N)
    <3>1. \A n \in 1..N : n - 1 \in 0..N /\ n \in 0..N
      BY <2>1
    <3>2. \A n \in 1..N : \A d \in R[n - 1] : Up(n, d) \in R[n]
      OBVIOUS
    <3> HIDE DEF S, N, Up
    <3> QED BY <2>1, <2>2, <3>1, <3>2 DEF Leads
  <2>0. R \in [0..N -> SUBSET U] /\ <<>> \in R[0]
    OBVIOUS
  <2> HIDE DEF S, N, Up
  <2>7. PICK r \in [0..N -> U] : Iterates(r, <<>>, S, N)
    BY ONLY <2>0, <2>1, <2>3, Recursion
  <2>4. r[0] = <<>> /\ \A n \in 1..N : r[n] = S[n][r[n - 1]]
    BY <2>7 DEF Iterates
  <2>5. ASSUME NEW n \in 0..N
        PROVE  r[n] = IF n = 0 THEN <<>> ELSE Up(n, r[n - 1])
    <3>1. CASE n = 0
      BY <2>4, <3>1
    <3>2. CASE n # 0
      <4>1. n \in 1..N /\ n - 1 \in 0..N
        BY <2>1, <3>2
      <4>2. r[n - 1] \in U
        BY <4>1
      <4> QED BY <2>2, <2>4, <3>2, <4>1, <4>2, Zenon
    <3> QED BY <3>1, <3>2
  <2>6. Ascent(r)
    <3>1. r = [n \in 0..N |-> r[n]]
      OBVIOUS
    <3> QED BY <2>5, <3>1, Zenon
  <2> QED BY <2>6
<1>3. Ascent(c)
  BY <1>2, Zenon
<1> HIDE DEF c
<1>4. \A n \in 0..N : c[n] = IF n = 0 THEN <<>> ELSE Up(n, c[n - 1])
  BY <1>3, Zenon
<1> DEFINE T == {n \in Nat : n <= N => c[n] \in R[n]}
<1>5. 0 \in T
  BY <1>4
<1>6. ASSUME NEW n \in T PROVE n + 1 \in T
  <2> SUFFICES ASSUME n + 1 <= N PROVE c[n + 1] \in R[n + 1]
    OBVIOUS
  <2>1. n + 1 \in 0..N /\ n + 1 \in 1..N /\ n + 1 # 0 /\ (n + 1) - 1 = n /\ n <= N
    OBVIOUS
  <2>2. c[n + 1] = Up(n + 1, c[n]) /\ c[n] \in R[n]
    <3> HIDE DEF Up, N
    <3> QED BY <1>4, <2>1
  <2>3. \A m \in 1..N : \A b \in R[m - 1] : Up(m, b) \in R[m]
    OBVIOUS
  <2> HIDE DEF Up, N
  <2> QED BY <2>1, <2>2, <2>3
<1>7. T = Nat
  <2>1. T \in SUBSET Nat
    OBVIOUS
  <2> HIDE DEF T
  <2> QED BY <1>5, <1>6, <2>1, Induction
<1>8. N \in T
  BY <1>7
<1> QED BY <1>1, <1>8
\* What holds of the segments of the first n tokens: R[n].
LEMMA Splits ==
  ASSUME NEW line, Len(line) \in Nat, NEW U, NEW R \in [0..Len(line) -> SUBSET U], << <<>> >> \in R[0],
         \A n \in 1..Len(line) : \A s \in R[n - 1] : Split(s, line[n]) \in R[n]
  PROVE  SplitAtBars(line) \in R[Len(line)]
<1> DEFINE N == Len(line)
           Up(n, s) == Split(s, line[n])
           Ascent(w) == w = [n \in 0..N |-> IF n = 0 THEN << <<>> >> ELSE Up(n, w[n - 1])]
           c == CHOOSE w : Ascent(w)
<1>1. SplitAtBars(line) = c[N]
  BY Zenon DEF SplitAtBars
<1>2. \E w : Ascent(w)
  <2> DEFINE S == [n \in 1..N |-> [d \in U |-> Up(n, d)]]
  <2>1. N \in Nat /\ \A n \in 0..N : R[n] \subseteq U
    OBVIOUS
  <2>2. \A n \in 1..N : \A d \in U : S[n][d] = Up(n, d)
    OBVIOUS
  <2>3. Leads(R, S, N)
    <3>1. \A n \in 1..N : n - 1 \in 0..N /\ n \in 0..N
      BY <2>1
    <3>2. \A n \in 1..N : \A d \in R[n - 1] : Up(n, d) \in R[n]
      OBVIOUS
    <3> HIDE DEF S, N, Up
    <3> QED BY <2>1, <2>2, <3>1, <3>2 DEF Leads
  <2>0. R \in [0..N -> SUBSET U] /\ << <<>> >> \in R[0]
    OBVIOUS
  <2> HIDE DEF S, N, Up
  <2>7. PICK r \in [0..N -> U] : Iterates(r, << <<>> >>, S, N)
    BY ONLY <2>0, <2>1, <2>3, Recursion
  <2>4. r[0] = << <<>> >> /\ \A n \in 1..N : r[n] = S[n][r[n - 1]]
    BY <2>7 DEF Iterates
  <2>5. ASSUME NEW n \in 0..N
        PROVE  r[n] = IF n = 0 THEN << <<>> >> ELSE Up(n, r[n - 1])
    <3>1. CASE n = 0
      BY <2>4, <3>1
    <3>2. CASE n # 0
      <4>1. n \in 1..N /\ n - 1 \in 0..N
        BY <2>1, <3>2
      <4>2. r[n - 1] \in U
        BY <4>1
      <4> QED BY <2>2, <2>4, <3>2, <4>1, <4>2, Zenon
    <3> QED BY <3>1, <3>2
  <2>6. Ascent(r)
    <3>1. r = [n \in 0..N |-> r[n]]
      OBVIOUS
    <3> QED BY <2>5, <3>1, Zenon
  <2> QED BY <2>6
<1>3. Ascent(c)
  BY <1>2, Zenon
<1> HIDE DEF c
<1>4. \A n \in 0..N : c[n] = IF n = 0 THEN << <<>> >> ELSE Up(n, c[n - 1])
  BY <1>3, Zenon
<1> DEFINE T == {n \in Nat : n <= N => c[n] \in R[n]}
<1>5. 0 \in T
  BY <1>4
<1>6. ASSUME NEW n \in T PROVE n + 1 \in T
  <2> SUFFICES ASSUME n + 1 <= N PROVE c[n + 1] \in R[n + 1]
    OBVIOUS
  <2>1. n + 1 \in 0..N /\ n + 1 \in 1..N /\ n + 1 # 0 /\ (n + 1) - 1 = n /\ n <= N
    OBVIOUS
  <2>2. c[n + 1] = Up(n + 1, c[n]) /\ c[n] \in R[n]
    <3> HIDE DEF Up, N
    <3> QED BY <1>4, <2>1
  <2>3. \A m \in 1..N : \A b \in R[m - 1] : Up(m, b) \in R[m]
    OBVIOUS
  <2> HIDE DEF Up, N
  <2> QED BY <2>1, <2>2, <2>3
<1>7. T = Nat
  <2>1. T \in SUBSET Nat
    OBVIOUS
  <2> HIDE DEF T
  <2> QED BY <1>5, <1>6, <2>1, Induction
<1>8. N \in T
  BY <1>7
<1> QED BY <1>1, <1>8

-----------------------------------------------------------------------------
(* Types. *)

Symbols == Tokens \cup {Open[t] : t \in Tags} \cup {Close[t] : t \in Tags}
                  \cup {" ", "\n", "tick", "<br>", "<hr/>", "<input/>"}
Line   == Seq(Symbols)
Parser == [kind : Kinds, started : BOOLEAN, finished : BOOLEAN, result : Line,
           table : Seq(Seq(Seq(Line))), currentBlock : Nat]

ListKinds == {"checklist", "ordered", "unordered"}

\* The block parsers getBlockParserForLine tries, by name.
LEMMA KindNames ==
  Kinds = {"code", "headline", "hr", "quote", "table", "checklist", "ordered", "unordered", "paragraph"}
<1>1. DOMAIN Order = 1..9
  BY DEF Order
<1>2. 1..9 = {1, 2, 3, 4, 5, 6, 7, 8, 9}
  OBVIOUS
<1>3. Kinds = {Order[i] : i \in {1, 2, 3, 4, 5, 6, 7, 8, 9}}
  BY <1>1, <1>2, Zenon DEF Kinds, ToSet
<1>4. /\ Order[1] = "code" /\ Order[2] = "headline" /\ Order[3] = "hr" /\ Order[4] = "quote"
      /\ Order[5] = "table" /\ Order[6] = "checklist" /\ Order[7] = "ordered"
      /\ Order[8] = "unordered" /\ Order[9] = "paragraph"
  BY DEF Order
<1> QED BY <1>3, <1>4

\* A parser that has just been made.
LEMMA Made ==
  ASSUME NEW k \in Kinds
  PROVE  /\ NewParser(k) \in Parser /\ NewParser(k).kind = k /\ NewParser(k).result = <<>>
         /\ NewParser(k).started = FALSE /\ NewParser(k).finished = FALSE
         /\ NewParser(k).table = <<>> /\ NewParser(k).currentBlock = 0
BY DEF NewParser, Parser, Line

\* What getBlockParserForLine returns.
LEMMA OpenedIs ==
  ASSUME NEW kinds, NEW line
  PROVE  \/ getBlockParserForLine(kinds, line) = <<>>
         \/ \E k \in kinds : /\ k \in Kinds /\ IsStartingLine(k, line)
                             /\ getBlockParserForLine(kinds, line) = <<NewParser(k)>>
<1> DEFINE able == {i \in DOMAIN Order : Order[i] \in kinds /\ IsStartingLine(Order[i], line)}
<1>1. getBlockParserForLine(kinds, line) = IF able = {} THEN <<>> ELSE <<NewParser(Order[Min(able)])>>
  BY Zenon DEF getBlockParserForLine
<1>2. CASE able = {}
  BY <1>1, <1>2
<1>3. CASE able # {}
  <2>1. DOMAIN Order = 1..9
    BY DEF Order
  <2>2. able \in SUBSET Nat
    BY <2>1
  <2>3. Min(able) \in able
    <3> HIDE DEF able
    <3> QED BY <1>3, <2>2, MinLeast
  <2>4. /\ Order[Min(able)] \in kinds /\ Order[Min(able)] \in Kinds
        /\ IsStartingLine(Order[Min(able)], line)
    BY <2>3 DEF Kinds, ToSet
  <2>5. getBlockParserForLine(kinds, line) = <<NewParser(Order[Min(able)])>>
    BY <1>1, <1>3
  <2> QED BY <2>4, <2>5
<1> QED BY <1>2, <1>3

\* The tags are tokens a line may hold.
LEMMA TagsTyped == \A t \in Tags : Open[t] \in Symbols /\ Close[t] \in Symbols
BY DEF Symbols

\* The elements, by name.
LEMMA TagNames ==
  Tags = {"p", "ul", "ol", "li", "label", "blockquote", "pre", "code", "table", "thead", "tbody",
          "tfoot", "tr", "th", "td", "h1", "h2", "h3", "h4", "h5", "h6"}
BY DEF Tags, Open

\* The tags and blanks the parsers write by themselves are tokens of a line.
LEMMA Literals ==
  {"<p>", "</p>", "<ul>", "</ul>", "<ol>", "</ol>", "<li>", "</li>", "<label>", "</label>",
   "<blockquote>", "</blockquote>", "<pre>", "</pre>", "<code>", "</code>", " ", "\n", "tick",
   "<br>", "<hr/>", "<input/>"} \subseteq Symbols
<1>1. /\ "<p>" \in Symbols /\ "</p>" \in Symbols
      /\ "<ul>" \in Symbols /\ "</ul>" \in Symbols
  <2>1. Open["p"] = "<p>" /\ Close["p"] = "</p>" /\ Open["ul"] = "<ul>" /\ Close["ul"] = "</ul>"
    BY DEF Open, Close
  <2> QED BY <2>1, TagNames, TagsTyped
<1>2. /\ "<ol>" \in Symbols /\ "</ol>" \in Symbols
      /\ "<li>" \in Symbols /\ "</li>" \in Symbols
  <2>1. Open["ol"] = "<ol>" /\ Close["ol"] = "</ol>" /\ Open["li"] = "<li>" /\ Close["li"] = "</li>"
    BY DEF Open, Close
  <2> QED BY <2>1, TagNames, TagsTyped
<1>3. /\ "<label>" \in Symbols /\ "</label>" \in Symbols
      /\ "<blockquote>" \in Symbols /\ "</blockquote>" \in Symbols
  <2>1. /\ Open["label"] = "<label>" /\ Close["label"] = "</label>"
        /\ Open["blockquote"] = "<blockquote>" /\ Close["blockquote"] = "</blockquote>"
    BY DEF Open, Close
  <2> QED BY <2>1, TagNames, TagsTyped
<1>4. /\ "<pre>" \in Symbols /\ "</pre>" \in Symbols
      /\ "<code>" \in Symbols /\ "</code>" \in Symbols
  <2>1. /\ Open["pre"] = "<pre>" /\ Close["pre"] = "</pre>"
        /\ Open["code"] = "<code>" /\ Close["code"] = "</code>"
    BY DEF Open, Close
  <2> QED BY <2>1, TagNames, TagsTyped
<1>5. {" ", "\n", "tick", "<br>", "<hr/>", "<input/>"} \subseteq Symbols
  BY DEF Symbols
<1> QED BY <1>1, <1>2, <1>3, <1>4, <1>5, Zenon

\* Nothing is a line too.
LEMMA EmptyLine == <<>> \in Line
BY DEF Line

\* An element around a line is a line.
LEMMA ElementTyped ==
  ASSUME NEW t \in Tags, NEW s \in Line
  PROVE  Element(t, s) \in Line
<1>1. Open[t] \in Symbols /\ Close[t] \in Symbols
  BY TagsTyped
<1> QED BY <1>1 DEF Element, Line

\* runLineParser makes a line of a line.
LEMMA LineParserTyped ==
  ASSUME NEW line \in Line
  PROVE  runLineParser(line) \in Line
<1> DEFINE f == [i \in DOMAIN line |->
                   CASE line[i] = "cr"  -> <<"<br>">>
                     [] line[i] = "fence" -> Element("code", <<>>) \o <<"tick">>
                     [] OTHER           -> <<line[i]>>]
<1>1. Element("code", <<>>) \o <<"tick">> \in Line
  <2>1. "code" \in Tags
    BY DEF Tags, Open
  <2>2. Element("code", <<>>) \in Line
    BY <2>1, EmptyLine, ElementTyped, Zenon
  <2>3. "tick" \in Symbols
    BY Literals
  <2> QED BY <2>2, <2>3 DEF Line
<1>2. ASSUME NEW i \in 1..Len(line) PROVE f[i] \in Line
  <2>1. line[i] \in Symbols /\ DOMAIN line = 1..Len(line)
    BY DEF Line
  <2>2. <<"<br>">> \in Line /\ <<line[i]>> \in Line
    <3>1. "<br>" \in Symbols
      BY Literals
    <3> QED BY <2>1, <3>1 DEF Line
  <2>3. f[i] = CASE line[i] = "cr"  -> <<"<br>">>
                 [] line[i] = "fence" -> Element("code", <<>>) \o <<"tick">>
                 [] OTHER           -> <<line[i]>>
    BY <2>1
  <2> HIDE DEF f
  <2> QED BY <1>1, <2>2, <2>3
<1>3. f \in Seq(Line)
  <2>1. f = [i \in 1..Len(line) |-> f[i]] /\ Len(line) \in Nat
    BY DEF Line
  <2> HIDE DEF f
  <2> QED BY <1>2, <2>1
<1>4. runLineParser(line) = FlattenSeq(f)
  BY Zenon DEF runLineParser
<1> HIDE DEF f
<1> QED BY <1>3, <1>4, FlattenType DEF Line

-----------------------------------------------------------------------------
(* What the parsers make of a line. *)

\* What is behind the first tokens of a line is a line.
LEMMA Rest ==
  ASSUME NEW line \in Line, NEW n \in Nat
  PROVE  SubSeq(line, n + 1, Len(line)) \in Line
BY DEF Line

\* A line without its mark is a line.
LEMMA StripTyped ==
  ASSUME NEW A, NEW mark \in Seq(A), NEW line \in Line
  PROVE  Strip(mark, line) \in Line
<1>1. Len(mark) \in Nat
  OBVIOUS
<1> QED BY <1>1, Rest DEF Strip

\* A mark that is not in front is not taken off.
LEMMA Unstripped ==
  ASSUME NEW A, NEW mark \in Seq(A), mark # <<>>, NEW line \in Line,
         line # <<>> => line[1] # mark[1]
  PROVE  ~IsPrefix(mark, line) /\ Strip(mark, line) = line
<1> SUFFICES ASSUME IsPrefix(mark, line) PROVE FALSE
  BY DEF Strip
<1>1. /\ Len(mark) \in Nat /\ Len(mark) # 0 /\ Len(line) \in Nat /\ Len(mark) <= Len(line)
      /\ SubSeq(mark, 1, Len(mark)) = SubSeq(line, 1, Len(mark))
  BY DEF IsPrefix, Line
<1>2. SubSeq(mark, 1, Len(mark))[1] = mark[1] /\ SubSeq(line, 1, Len(mark))[1] = line[1] /\ line # <<>>
  BY <1>1 DEF Line
<1> QED BY <1>1, <1>2

\* Whitespace in front of a line.
LEMMA IndentationIs ==
  ASSUME NEW line \in Line
  PROVE  /\ Indentation(line) \in 0..Len(line) /\ Indentation(line) \in Nat
         /\ \A i \in 1..Indentation(line) : line[i] \in {" ", "cr"}
         /\ line # <<>> /\ line[1] \notin {" ", "cr"} => Indentation(line) = 0
<1> DEFINE text == {i \in DOMAIN line : line[i] \notin {" ", "cr"}}
           first == CHOOSE i \in text : \A j \in text : i <= j
<1>1. Indentation(line) = IF text = {} THEN Len(line) ELSE first - 1
  BY DEF Indentation
<1>2. DOMAIN line = 1..Len(line) /\ Len(line) \in Nat
  BY DEF Line
<1>5. \A i : i \in text <=> i \in 1..Len(line) /\ line[i] \notin {" ", "cr"}
  BY <1>2, Zenon
<1>6. line # <<>> => 1 \in 1..Len(line)
  BY <1>2 DEF Line
<1> HIDE DEF text
<1>3. CASE text = {}
  <2>1. Indentation(line) = Len(line)
    BY <1>1, <1>3
  <2>2. \A i \in 1..Len(line) : line[i] \in {" ", "cr"}
    BY <1>3, <1>5
  <2>3. Indentation(line) \in 0..Len(line) /\ Indentation(line) \in Nat
    BY <1>2, <2>1
  <2> QED BY <1>6, <2>1, <2>2, <2>3, Zenon
<1>4. CASE text # {}
  <2>0. \A i \in text : i \in 1..Len(line)
    BY <1>5, Zenon
  <2>1. text \in SUBSET Nat
    BY ONLY <1>2, <2>0
  <2>2. \E i \in text : \A j \in text : i <= j
    BY <1>4, <2>1, LeastExists
  <2>3. first \in text /\ \A j \in text : first <= j
    BY <2>2, Zenon
  <2>4. Indentation(line) = first - 1
    BY <1>1, <1>4
  <2> HIDE DEF first
  <2>5. first \in 1..Len(line) /\ first \in Nat
    <3>1. first \in 1..Len(line)
      BY <2>0, <2>3, Zenon
    <3> QED BY ONLY <1>2, <3>1
  <2>6. \A i \in 1..first - 1 : line[i] \in {" ", "cr"}
    <3> SUFFICES ASSUME NEW i \in 1..first - 1, line[i] \notin {" ", "cr"} PROVE FALSE
      OBVIOUS
    <3>0. i \in 1..first - 1
      OBVIOUS
    <3>1. i \in 1..Len(line) /\ ~(first <= i)
      BY ONLY <1>2, <2>5, <3>0
    <3> QED BY <1>5, <2>3, <3>1, Zenon
  <2>7. line # <<>> /\ line[1] \notin {" ", "cr"} => first = 1
    <3> SUFFICES ASSUME line # <<>>, line[1] \notin {" ", "cr"} PROVE first = 1
      OBVIOUS
    <3>1. first <= 1
      BY <1>5, <1>6, <2>3, Zenon
    <3> QED BY ONLY <2>5, <3>1
  <2>8. first - 1 \in 0..Len(line) /\ first - 1 \in Nat /\ (first = 1 => first - 1 = 0)
    BY <1>2, <2>5
  <2> QED BY <2>4, <2>6, <2>7, <2>8, Zenon
<1> QED BY <1>3, <1>4

Mark == Seq({"-", "+", "*", "1.", ">", " ", "[", "|", "]"} \cup Boxes)
MarkStarts == {"-", "+", "*", "1."} \cup Boxes

\* The marks of lists and quotes are among the marks.
LEMMA MarksAre ==
  /\ <<"-", " ">> \in Mark /\ <<"*", " ">> \in Mark /\ <<"1.", " ">> \in Mark
  /\ Bullets \subseteq Mark /\ <<">", " ">> \in Mark /\ <<">">> \in Mark
  /\ \A m \in Bullets \cup {<<"1.", " ">>} : m # <<>> /\ m[1] \in MarkStarts /\ m[2] = " " /\ Len(m) = 2
<1>1. {"-", "+", "*", "1.", ">", " "} \subseteq {"-", "+", "*", "1.", ">", " ", "[", "|", "]"} \cup Boxes
  OBVIOUS
<1>2. /\ <<"-", " ">> \in Mark /\ <<"*", " ">> \in Mark /\ <<"1.", " ">> \in Mark /\ <<"+", " ">> \in Mark
      /\ <<">", " ">> \in Mark /\ <<">">> \in Mark
  BY <1>1 DEF Mark
<1>3. \A m \in Bullets \cup {<<"1.", " ">>} : m = <<"-", " ">> \/ m = <<"*", " ">> \/ m = <<"+", " ">> \/ m = <<"1.", " ">>
  BY DEF Bullets
<1>4. \A m \in Bullets \cup {<<"1.", " ">>} : m # <<>> /\ m[1] \in MarkStarts /\ m[2] = " " /\ Len(m) = 2
  <2>1. ASSUME NEW x \in {"-", "*", "+", "1."}
        PROVE  <<x, " ">> # <<>> /\ <<x, " ">>[1] \in MarkStarts /\ <<x, " ">>[2] = " " /\ Len(<<x, " ">>) = 2
    BY DEF MarkStarts
  <2> QED BY <1>3, <2>1
<1> QED BY <1>2, <1>3, <1>4

\* The box of a checklist's item.
LEMMA BoxTyped ==
  ASSUME NEW line \in Line
  PROVE  Box(line) \in Line /\ ((line # <<>> => line[1] \notin Boxes) => Box(line) = line)
<1>1. line # <<>> => <<"<input/>">> \o Tail(line) \in Line
  <2>1. "<input/>" \in Symbols
    BY Literals
  <2> QED BY <2>1 DEF Line
<1> QED BY <1>1 DEF Box

\* Taking a mark off leaves a line, and leaves a line without one as it is.
LEMMA MarkTaken ==
  ASSUME NEW m \in Mark, m # <<>>, m[1] \in MarkStarts, NEW l \in Line
  PROVE  Strip(m, l) \in Line /\ ((l # <<>> => l[1] \notin MarkStarts) => Strip(m, l) = l)
BY StripTyped, Unstripped DEF Mark

\* The marks of lists are taken off.
LEMMA MarksTyped ==
  ASSUME NEW line \in Line, NEW k \in ListKinds
  PROVE  /\ Unmarked(k, line) \in Line
         /\ (line # <<>> => line[1] \notin MarkStarts) => Unmarked(k, line) = line
<1> DEFINE free(l) == l # <<>> => l[1] \notin MarkStarts
           Takes(m) == \A l \in Line : Strip(m, l) \in Line /\ (free(l) => Strip(m, l) = l)
<1>1. Takes(<<"-", " ">>) /\ Takes(<<"*", " ">>) /\ Takes(<<"1.", " ">>)
  <2>0. \A m \in Mark : m # <<>> /\ m[1] \in MarkStarts => Takes(m)
    BY MarkTaken
  <2>1. /\ <<"-", " ">> \in Mark /\ <<"-", " ">> # <<>> /\ <<"-", " ">>[1] \in MarkStarts
        /\ <<"*", " ">> \in Mark /\ <<"*", " ">> # <<>> /\ <<"*", " ">>[1] \in MarkStarts
        /\ <<"1.", " ">> \in Mark /\ <<"1.", " ">> # <<>> /\ <<"1.", " ">>[1] \in MarkStarts
    BY MarksAre DEF MarkStarts
  <2> HIDE DEF Takes
  <2> QED BY <2>0, <2>1, Zenon
<1>2. CASE k = "checklist"
  <2>1. Unmarked(k, line) = Box(Strip(<<"-", " ">>, line))
    BY <1>2 DEF Unmarked
  <2>2. Strip(<<"-", " ">>, line) \in Line /\ (free(line) => Strip(<<"-", " ">>, line) = line)
    BY <1>1, Zenon
  <2>3. free(line) => (line # <<>> => line[1] \notin Boxes)
    BY DEF MarkStarts
  <2> HIDE DEF free
  <2>4. free(line) => Unmarked(k, line) = line
    BY <2>1, <2>2, <2>3, BoxTyped
  <2>5. Unmarked(k, line) \in Line
    BY <2>1, <2>2, BoxTyped
  <2> QED BY <2>4, <2>5 DEF free
<1>3. CASE k = "ordered"
  <2>1. Unmarked(k, line) = Strip(<<"*", " ">>, Strip(<<"1.", " ">>, line))
    BY <1>3 DEF Unmarked
  <2>2. Strip(<<"1.", " ">>, line) \in Line /\ (free(line) => Strip(<<"1.", " ">>, line) = line)
    BY <1>1, Zenon
  <2>3. /\ Strip(<<"*", " ">>, Strip(<<"1.", " ">>, line)) \in Line
        /\ free(line) => Strip(<<"*", " ">>, line) = line
    BY <1>1, <2>2, Zenon
  <2>4. free(line) => Unmarked(k, line) = line
    <3> HIDE DEF free
    <3> QED BY <2>1, <2>2, <2>3
  <2> HIDE DEF free
  <2> QED BY <2>1, <2>3, <2>4, Zenon DEF free
<1>4. CASE k = "unordered"
  <2>1. Unmarked(k, line) = IF \E m \in Bullets : IsPrefix(m, line) THEN SubSeq(line, 3, Len(line)) ELSE line
    BY <1>4 DEF Unmarked
  <2>2. SubSeq(line, 3, Len(line)) \in Line
    BY DEF Line
  <2>3. ASSUME free(line), NEW m \in Bullets PROVE ~IsPrefix(m, line)
    <3>1. m \in Mark /\ m # <<>> /\ m[1] \in MarkStarts
      BY MarksAre
    <3>2. line # <<>> => line[1] # m[1]
      BY <2>3, <3>1
    <3> QED BY <3>1, <3>2, Unstripped DEF Mark
  <2> HIDE DEF free
  <2>4. free(line) => Unmarked(k, line) = line
    BY <2>1, <2>3
  <2>5. Unmarked(k, line) \in Line
    BY <2>1, <2>2
  <2> QED BY <2>4, <2>5 DEF free
<1> QED BY <1>2, <1>3, <1>4 DEF ListKinds

\* A parser is given a line while it is open, or when it is made for that line.
Ready(p, line) ==
  /\ p \in Parser /\ ~p.finished
  /\ \/ p.started /\ p.kind \notin {"headline", "hr"}
     \/ ~p.started /\ p = NewParser(p.kind) /\ IsStartingLine(p.kind, line)

\* A few tokens make a line.
LEMMA Tuples ==
  /\ \A x \in Symbols : <<x>> \in Line
  /\ \A x, y \in Symbols : <<x, y>> \in Line
  /\ \A x, y, z \in Symbols : <<x, y, z>> \in Line
  /\ \A x, y, z, w \in Symbols : <<x, y, z, w>> \in Line
BY DEF Line

\* Lines joined are a line.
LEMMA Joined ==
  /\ \A s, t \in Line : s \o t \in Line /\ Len(s \o t) = Len(s) + Len(t)
  /\ \A s \in Line, x \in Symbols : Append(s, x) \in Line
  /\ \A s, t \in Line : s # <<>> => s \o t # <<>> /\ (s \o t)[1] = s[1]
<1>1. \A s, t \in Line : s \o t \in Line /\ Len(s \o t) = Len(s) + Len(t)
  BY DEF Line
<1>2. \A s \in Line, x \in Symbols : Append(s, x) \in Line
  BY DEF Line
<1>3. ASSUME NEW s \in Line, NEW t \in Line, s # <<>> PROVE s \o t # <<>> /\ (s \o t)[1] = s[1]
  <2>1. Len(s) \in Nat /\ Len(s) # 0
    BY <1>3 DEF Line
  <2> QED BY <2>1 DEF Line
<1> QED BY <1>1, <1>2, <1>3

\* What opens a list begins with its tag, what goes on with or ends one with a
\* closing tag.
LEMMA ListTags ==
  ASSUME NEW k \in ListKinds
  PROVE  /\ OpenList(k) \in Line /\ OpenList(k) # <<>> /\ OpenList(k)[1] \in {"<ul>", "<ol>"}
         /\ NextItem(k) \in Line /\ NextItem(k) # <<>> /\ NextItem(k)[1] \in {"</label>", "</li>"}
         /\ CloseList(k) \in Line /\ CloseList(k) # <<>> /\ CloseList(k)[1] \in {"</label>", "</li>"}
<1>0. /\ "<ul>" \in Symbols /\ "</ul>" \in Symbols /\ "<ol>" \in Symbols /\ "</ol>" \in Symbols
      /\ "<li>" \in Symbols /\ "</li>" \in Symbols /\ "<label>" \in Symbols /\ "</label>" \in Symbols
  BY Literals, Zenon
<1> DEFINE Good(s, F) == s \in Line /\ s # <<>> /\ s[1] \in F
<1>1. ASSUME NEW x \in Symbols, NEW y \in Symbols, NEW F, x \in F PROVE Good(<<x, y>>, F)
  BY <1>1, Tuples
<1>2. ASSUME NEW x \in Symbols, NEW y \in Symbols, NEW z \in Symbols, NEW F, x \in F PROVE Good(<<x, y, z>>, F)
  BY <1>2, Tuples
<1>3. ASSUME NEW x \in Symbols, NEW y \in Symbols, NEW z \in Symbols, NEW w \in Symbols, NEW F, x \in F
      PROVE  Good(<<x, y, z, w>>, F)
  BY <1>3, Tuples
<1> HIDE DEF Good
<1>4. CASE k = "checklist"
  <2>1. /\ OpenList(k) = <<"<ul>", "<li>", "<label>">>
        /\ NextItem(k) = <<"</label>", "</li>", "<li>", "<label>">>
        /\ CloseList(k) = <<"</label>", "</li>", "</ul>">>
    BY <1>4 DEF OpenList, NextItem, CloseList
  <2>3. /\ "<ul>" \in {"<ul>", "<ol>"} /\ "<ol>" \in {"<ul>", "<ol>"}
        /\ "</label>" \in {"</label>", "</li>"} /\ "</li>" \in {"</label>", "</li>"}
    OBVIOUS
  <2>2. /\ Good(OpenList(k), {"<ul>", "<ol>"}) /\ Good(NextItem(k), {"</label>", "</li>"})
        /\ Good(CloseList(k), {"</label>", "</li>"})
    BY <1>0, <1>2, <1>3, <2>1, <2>3
  <2> QED BY <2>2 DEF Good
<1>5. CASE k = "ordered"
  <2>1. OpenList(k) = <<"<ol>", "<li>">> /\ NextItem(k) = <<"</li>", "<li>">> /\ CloseList(k) = <<"</li>", "</ol>">>
    BY <1>5 DEF OpenList, NextItem, CloseList
  <2>3. /\ "<ul>" \in {"<ul>", "<ol>"} /\ "<ol>" \in {"<ul>", "<ol>"}
        /\ "</label>" \in {"</label>", "</li>"} /\ "</li>" \in {"</label>", "</li>"}
    OBVIOUS
  <2>2. /\ Good(OpenList(k), {"<ul>", "<ol>"}) /\ Good(NextItem(k), {"</label>", "</li>"})
        /\ Good(CloseList(k), {"</label>", "</li>"})
    BY <1>0, <1>1, <2>1, <2>3
  <2> QED BY <2>2 DEF Good
<1>6. CASE k = "unordered"
  <2>1. OpenList(k) = <<"<ul>", "<li>">> /\ NextItem(k) = <<"</li>", "<li>">> /\ CloseList(k) = <<"</li>", "</ul>">>
    BY <1>6 DEF OpenList, NextItem, CloseList
  <2>3. /\ "<ul>" \in {"<ul>", "<ol>"} /\ "<ol>" \in {"<ul>", "<ol>"}
        /\ "</label>" \in {"</label>", "</li>"} /\ "</li>" \in {"</label>", "</li>"}
    OBVIOUS
  <2>2. /\ Good(OpenList(k), {"<ul>", "<ol>"}) /\ Good(NextItem(k), {"</label>", "</li>"})
        /\ Good(CloseList(k), {"</label>", "</li>"})
    BY <1>0, <1>1, <2>1, <2>3
  <2> QED BY <2>2 DEF Good
<1> QED BY <1>4, <1>5, <1>6 DEF ListKinds

\* q is p but for its flags.
Flagged(q, p, started, finished) ==
  /\ q \in Parser /\ q.kind = p.kind /\ q.started = started /\ q.finished = finished
  /\ q.result = p.result /\ q.table = p.table /\ q.currentBlock = p.currentBlock

\* Setting the flags of a parser changes nothing else.
LEMMA Flags ==
  ASSUME NEW p \in Parser
  PROVE  /\ Flagged(p, p, p.started, p.finished)
         /\ Flagged([p EXCEPT !.started = TRUE], p, TRUE, p.finished)
         /\ Flagged([p EXCEPT !.finished = TRUE], p, p.started, TRUE)
         /\ Flagged([p EXCEPT !.started = FALSE, !.finished = TRUE], p, FALSE, TRUE)
BY DEF Flagged, Parser

\* What a list makes of a line: it opens, hands on what is indented, ends, or goes on.
Opens(p, line, b)  == /\ ~p.started /\ Flagged(b.p, p, TRUE, p.finished)
                      /\ b.line = OpenList(p.kind) \o Unmarked(p.kind, line)
Shifts(p, line, b) == /\ p.started /\ Indentation(line) >= 2 /\ b.p = p
                      /\ b.line = SubSeq(Unmarked(p.kind, line), 3, Len(Unmarked(p.kind, line)))
Closes(p, line, b) == /\ p.started /\ Indentation(line) < 2 /\ Flagged(b.p, p, TRUE, TRUE)
                      /\ \/ Unmarked(p.kind, line) = <<>>
                         \/ \E e \in Ends(p.kind) : Finds(e, Unmarked(p.kind, line))
                      /\ b.line = CloseList(p.kind) \o Unmarked(p.kind, line)
Goes(p, line, b)   == /\ p.started /\ b.p = p
                      /\ Unmarked(p.kind, line) # <<>>
                      /\ ~ \E e \in Ends(p.kind) : Finds(e, Unmarked(p.kind, line))
                      /\ \/ b.line = NextItem(p.kind) \o Unmarked(p.kind, line)
                         \/ b.line = Unmarked(p.kind, line)

\* parseBlock of the three list parsers does one of these four things.
LEMMA ListStep ==
  ASSUME NEW p \in Parser, NEW line \in Line, p.kind \in ListKinds
  PROVE  \/ Opens(p, line, parseList(p, line)) \/ Shifts(p, line, parseList(p, line))
         \/ Closes(p, line, parseList(p, line)) \/ Goes(p, line, parseList(p, line))
<1> DEFINE text == Unmarked(p.kind, line)
           b == parseList(p, line)
           Found == text = <<>> \/ \E e \in Ends(p.kind) : Finds(e, text)
<1>0. p.started \in BOOLEAN /\ Indentation(line) \in Nat /\ (p.started => p.started = TRUE)
  BY IndentationIs DEF Parser
<1>1. CASE ~p.started
  <2>1. b = [p |-> [p EXCEPT !.started = TRUE], line |-> OpenList(p.kind) \o text]
    BY <1>1 DEF parseList
  <2>2. Flagged([p EXCEPT !.started = TRUE], p, TRUE, p.finished)
    BY Flags
  <2> HIDE DEF b
  <2>3. b.p = [p EXCEPT !.started = TRUE] /\ b.line = OpenList(p.kind) \o text
    BY <2>1
  <2> QED BY <1>1, <2>2, <2>3 DEF Opens, b
<1>2. CASE p.started /\ Indentation(line) >= 2
  <2>1. b = [p |-> p, line |-> SubSeq(text, 3, Len(text))]
    BY <1>0, <1>2 DEF parseList
  <2> HIDE DEF b
  <2>2. b.p = p /\ b.line = SubSeq(text, 3, Len(text))
    BY <2>1
  <2> QED BY <1>2, <2>2 DEF Shifts, b
<1>3. CASE p.started /\ Indentation(line) < 2 /\ Found
  <2>0. ~(Indentation(line) >= 2)
    BY <1>0, <1>3
  <2>1. b = [p |-> [p EXCEPT !.finished = TRUE], line |-> CloseList(p.kind) \o text]
    BY <1>3, <2>0 DEF parseList
  <2>2. Flagged([p EXCEPT !.finished = TRUE], p, TRUE, TRUE)
    BY <1>0, <1>3, Flags
  <2> HIDE DEF b
  <2>3. b.p = [p EXCEPT !.finished = TRUE] /\ b.line = CloseList(p.kind) \o text
    BY <2>1
  <2> QED BY <1>3, <2>2, <2>3 DEF Closes, b
<1>4. CASE p.started /\ Indentation(line) < 2 /\ ~Found
  <2>0. ~(Indentation(line) >= 2)
    BY <1>0, <1>4
  <2>1. b = [p |-> p, line |-> IF isStartOfNewListItem(p.kind, line)
                            THEN NextItem(p.kind) \o text ELSE text]
    BY <1>4, <2>0 DEF parseList
  <2> HIDE DEF b
  <2>2. b.p = p /\ b.line = IF isStartOfNewListItem(p.kind, line) THEN NextItem(p.kind) \o text ELSE text
    BY <2>1
  <2>3. b.line = NextItem(p.kind) \o text \/ b.line = text
    BY <2>2
  <2> QED BY <1>4, <2>2, <2>3 DEF Goes, b
<1>5. Found \in BOOLEAN
  OBVIOUS
<1>6. (Indentation(line) >= 2) \/ (Indentation(line) < 2)
  BY <1>0
<1> HIDE DEF Found
<1> QED BY <1>1, <1>2, <1>3, <1>4, <1>6, Zenon

\* What every parser keeps.
Keeps(b, p) == /\ b.p \in Parser /\ b.p.kind = p.kind /\ b.line \in Line
               /\ b.p.result = p.result /\ b.p.table = p.table

\* A list's parseBlock leaves a started parser with what it had written.
LEMMA ListParsed ==
  ASSUME NEW p \in Parser, NEW line \in Line, p.kind \in ListKinds, ~p.finished
  PROVE  Keeps(parseList(p, line), p) /\ parseList(p, line).p.started
<1> DEFINE text == Unmarked(p.kind, line)
           b == parseList(p, line)
<1>1. text \in Line
  BY MarksTyped
<1>2. OpenList(p.kind) \o text \in Line /\ NextItem(p.kind) \o text \in Line /\ CloseList(p.kind) \o text \in Line
  BY <1>1, ListTags, Joined
<1>3. SubSeq(text, 3, Len(text)) \in Line
  BY <1>1 DEF Line
<1>0. Opens(p, line, b) \/ Shifts(p, line, b) \/ Closes(p, line, b) \/ Goes(p, line, b)
  BY ListStep
<1> SUFFICES Keeps(b, p) /\ b.p.started
  OBVIOUS
<1> HIDE DEF text, b
<1>4. CASE Opens(p, line, b)
  BY <1>2, <1>4 DEF Opens, Flagged, text, Keeps
<1>5. CASE Shifts(p, line, b)
  BY <1>3, <1>5 DEF Shifts, text, Keeps
<1>6. CASE Closes(p, line, b)
  BY <1>2, <1>6 DEF Closes, Flagged, text, Keeps
<1>7. CASE Goes(p, line, b)
  BY <1>1, <1>2, <1>7 DEF Goes, text, Keeps
<1> QED BY <1>0, <1>4, <1>5, <1>6, <1>7

-----------------------------------------------------------------------------

CodeOpens(p, line, b)  == ~p.started /\ b.p.started /\ ~b.p.finished
                          /\ line = <<"fence">> /\ b.line = <<"<pre>", "<code>", "\n">>
CodeGoes(p, line, b)   == p.started /\ b.p = p /\ line # <<"fence">> /\ b.line = Append(line, "\n")
CodeCloses(p, line, b) == p.started /\ b.p.finished
                          /\ line = <<"fence">> /\ b.line = <<"</code>", "</pre>">>

\* CodeBlockParser::parseBlock opens, goes on with or closes the block.
LEMMA CodeParsed ==
  ASSUME NEW p \in Parser, NEW line \in Line, p.kind = "code", Ready(p, line)
  PROVE  LET b == parseCode(p, line)
         IN  Keeps(b, p) /\ (CodeOpens(p, line, b) \/ CodeGoes(p, line, b) \/ CodeCloses(p, line, b))
<1> DEFINE b == parseCode(p, line)
<1>0. "\n" \in Symbols /\ "<pre>" \in Symbols /\ "<code>" \in Symbols /\ "</code>" \in Symbols /\ "</pre>" \in Symbols
  BY Literals, Zenon
<1>1. Append(line, "\n") \in Line /\ <<"<pre>", "<code>", "\n">> \in Line /\ <<"</code>", "</pre>">> \in Line
  BY <1>0, Tuples, Joined, Zenon
<1>7. p.started \in BOOLEAN /\ ~p.finished
  BY DEF Ready, Parser
<1> SUFFICES Keeps(b, p) /\ (CodeOpens(p, line, b) \/ CodeGoes(p, line, b) \/ CodeCloses(p, line, b))
  OBVIOUS
<1>2. CASE line # <<"fence">>
  <2>1. b = [p |-> p, line |-> Append(line, "\n")]
    BY <1>2 DEF parseCode
  <2>2. p.started
    BY <1>2 DEF Ready, IsStartingLine
  <2> HIDE DEF b
  <2>3. b.p = p /\ b.line = Append(line, "\n")
    BY <2>1
  <2> QED BY <1>1, <1>2, <2>2, <2>3 DEF Keeps, CodeGoes
<1>3. CASE line = <<"fence">> /\ ~p.started
  <2>1. b = [p |-> [p EXCEPT !.started = TRUE], line |-> <<"<pre>", "<code>", "\n">>]
    BY <1>3 DEF parseCode
  <2> HIDE DEF b
  <2>3. Flagged(b.p, p, TRUE, p.finished) /\ b.line = <<"<pre>", "<code>", "\n">>
    BY <2>1, Flags
  <2> QED BY <1>1, <1>3, <1>7, <2>3 DEF Keeps, CodeOpens, Flagged
<1>4. CASE line = <<"fence">> /\ p.started
  <2>1. b = [p |-> [p EXCEPT !.started = FALSE, !.finished = TRUE], line |-> <<"</code>", "</pre>">>]
    BY <1>4 DEF parseCode
  <2> HIDE DEF b
  <2>3. Flagged(b.p, p, FALSE, TRUE) /\ b.line = <<"</code>", "</pre>">>
    BY <2>1, Flags
  <2> QED BY <1>1, <1>4, <2>3 DEF Keeps, CodeCloses, Flagged
<1> QED BY <1>2, <1>3, <1>4

ParagraphOpens(p, line, b)  == ~p.started /\ b.p.started /\ ~b.p.finished /\ b.line = <<"<p>">> \o line \o <<" ">>
ParagraphGoes(p, line, b)   == p.started /\ b.p = p /\ line # <<>> /\ b.line = Append(line, " ")
ParagraphCloses(p, line, b) == p.started /\ b.p.finished /\ line = <<>> /\ b.line = <<"</p>">>

\* ParagraphParser::parseBlock opens, goes on with or closes the paragraph.
LEMMA ParagraphParsed ==
  ASSUME NEW p \in Parser, NEW line \in Line, p.kind = "paragraph", Ready(p, line)
  PROVE  LET b == parseParagraph(p, line)
         IN  /\ Keeps(b, p)
             /\ ParagraphOpens(p, line, b) \/ ParagraphGoes(p, line, b) \/ ParagraphCloses(p, line, b)
<1> DEFINE b == parseParagraph(p, line)
<1>0. " " \in Symbols /\ "<p>" \in Symbols /\ "</p>" \in Symbols
  BY Literals, Zenon
<1>1. Append(line, " ") \in Line /\ <<"<p>">> \o line \o <<" ">> \in Line /\ <<"</p>">> \in Line
  <2>1. <<" ">> \in Line /\ <<"<p>">> \in Line /\ <<"</p>">> \in Line
    BY <1>0, Tuples, Zenon
  <2>2. <<"<p>">> \o line \in Line
    BY <2>1, Joined, Zenon
  <2> QED BY <1>0, <2>1, <2>2, Joined, Zenon
<1>7. p.started \in BOOLEAN /\ ~p.finished
  BY DEF Ready, Parser
<1> SUFFICES /\ Keeps(b, p)
             /\ ParagraphOpens(p, line, b) \/ ParagraphGoes(p, line, b) \/ ParagraphCloses(p, line, b)
  OBVIOUS
<1>2. CASE ~p.started
  <2>1. b = [p |-> [p EXCEPT !.started = TRUE], line |-> <<"<p>">> \o line \o <<" ">>]
    BY <1>2 DEF parseParagraph
  <2> HIDE DEF b
  <2>3. Flagged(b.p, p, TRUE, p.finished) /\ b.line = <<"<p>">> \o line \o <<" ">>
    BY <2>1, Flags
  <2> QED BY <1>1, <1>2, <1>7, <2>3 DEF Keeps, ParagraphOpens, Flagged
<1>3. CASE line = <<>> /\ p.started
  <2>1. b = [p |-> [p EXCEPT !.finished = TRUE], line |-> <<"</p>">>]
    BY <1>3 DEF parseParagraph
  <2> HIDE DEF b
  <2>3. Flagged(b.p, p, p.started, TRUE) /\ b.line = <<"</p>">>
    BY <2>1, Flags
  <2> QED BY <1>1, <1>3, <1>7, <2>3 DEF Keeps, ParagraphCloses, Flagged
<1>4. CASE line # <<>> /\ p.started
  <2>1. b = [p |-> p, line |-> Append(line, " ")]
    BY <1>4 DEF parseParagraph
  <2> HIDE DEF b
  <2>3. b.p = p /\ b.line = Append(line, " ")
    BY <2>1
  <2> QED BY <1>1, <1>4, <2>3 DEF Keeps, ParagraphGoes
<1> QED BY <1>2, <1>3, <1>4

QuoteText(line) == Strip(<<">">>, Strip(<<">", " ">>, line))

\* QuoteParser::parseBlock takes the marks off and opens the quote at its first line.
LEMMA QuoteParsed ==
  ASSUME NEW p \in Parser, NEW line \in Line, p.kind = "quote", Ready(p, line)
  PROVE  LET b == parseQuote(p, line)
         IN  /\ b.p \in Parser /\ b.p.kind = p.kind /\ b.line \in Line /\ b.p.started
             /\ ~b.p.finished /\ b.p.table = p.table
             /\ b.p.result = IF p.started THEN p.result ELSE <<"<blockquote>">>
             /\ QuoteText(line) \in Line
             /\ b.line = IF QuoteText(line) = <<>> THEN <<>> ELSE Append(QuoteText(line), " ")
<1> DEFINE b == parseQuote(p, line)
           text == QuoteText(line)
<1>0. " " \in Symbols /\ "<blockquote>" \in Symbols
  BY Literals, Zenon
<1>1. text \in Line
  <2>1. Strip(<<">", " ">>, line) \in Line
    BY MarksAre, StripTyped DEF Mark
  <2> QED BY <2>1, MarksAre, StripTyped DEF Mark, QuoteText
<1>2. Append(text, " ") \in Line /\ <<"<blockquote>">> \in Line
  BY <1>0, <1>1, Tuples, Joined, Zenon
<1> DEFINE q == [p EXCEPT !.started = TRUE,
                       !.result = IF p.started THEN @ ELSE <<"<blockquote>">>]
<1>3. b = [p |-> q, line |-> IF text = <<>> THEN text ELSE Append(text, " ")]
  BY DEF parseQuote, QuoteText
<1>5. q \in Parser /\ q.kind = p.kind /\ q.started /\ ~q.finished /\ q.table = p.table
      /\ q.result = IF p.started THEN p.result ELSE <<"<blockquote>">>
  <2>1. ~p.finished
    BY DEF Ready
  <2> QED BY <1>2, <2>1 DEF Parser
<1> HIDE DEF text, b, q
<1>6. b.p = q /\ b.line = IF text = <<>> THEN text ELSE Append(text, " ")
  BY <1>3
<1>4. b.line \in Line
  BY <1>1, <1>2, <1>6
<1> QED BY <1>1, <1>4, <1>5, <1>6 DEF text, b

\* HorizontalLineParser::parseBlock writes the rule and is finished.
LEMMA RuleParsed ==
  ASSUME NEW p \in Parser, NEW line \in Line, p.kind = "hr"
  PROVE  LET b == parseHorizontalLine(p, line)
         IN  Keeps(b, p) /\ b.line = <<"<hr/>">> /\ b.p.finished
<1>0. "<hr/>" \in Symbols
  BY Literals, Zenon
<1>1. <<"<hr/>">> \in Line
  BY <1>0 DEF Line
<1> QED BY <1>1, Flags DEF parseHorizontalLine, Keeps, Flagged

\* HeadlineParser::parseBlock writes one heading and is finished.
LEMMA HeadlineParsed ==
  ASSUME NEW p \in Parser, NEW line \in Line, p.kind = "headline", Ready(p, line)
  PROVE  LET b == parseHeadline(p, line)
         IN  /\ Keeps(b, p) /\ b.p.finished
             /\ \E n \in 1..6 : /\ IsPrefix(Hashes(n), line) /\ Strip(Hashes(n), line) \in Line
                                /\ Headings[n] \in Tags
                                /\ b.line = Element(Headings[n], Strip(Hashes(n), line))
<1> DEFINE b == parseHeadline(p, line)
           n == CHOOSE n \in 1 .. 6 : IsPrefix(Hashes(n), line)
<1>0. ~p.started /\ IsStartingLine("headline", line)
  BY DEF Ready
<1>1. \E m \in 1..6 : IsPrefix(Hashes(m), line)
  BY <1>0 DEF IsStartingLine, Matches
<1>2. n \in 1..6 /\ IsPrefix(Hashes(n), line)
  BY <1>1, Zenon
<1>3. b = [p |-> [p EXCEPT !.finished = TRUE], line |-> Element(Headings[n], Strip(Hashes(n), line))]
  BY Zenon DEF parseHeadline
<1> HIDE DEF n, b
<1>4. Headings[n] \in Tags
  BY <1>2, TagNames DEF Headings
<1>5. Hashes(n) \in Seq({"#", " "})
  <2>1. n + 1 \in Nat
    BY <1>2
  <2>2. \A i \in 1..n + 1 : (IF i <= n THEN "#" ELSE " ") \in {"#", " "}
    OBVIOUS
  <2>3. [i \in 1..n + 1 |-> IF i <= n THEN "#" ELSE " "] \in [1..n + 1 -> {"#", " "}]
    BY <2>2, Zenon
  <2> QED BY <2>1, <2>3, TableOf DEF Hashes
<1>6. Strip(Hashes(n), line) \in Line
  BY <1>5, StripTyped
<1>7. b.p = [p EXCEPT !.finished = TRUE] /\ b.line = Element(Headings[n], Strip(Hashes(n), line))
  BY <1>3
<1>8. Keeps(b, p) /\ b.p.finished
  <2>1. b.line \in Line
    BY <1>4, <1>6, <1>7, ElementTyped
  <2>2. Flagged(b.p, p, p.started, TRUE)
    BY <1>7, Flags
  <2> QED BY <2>1, <2>2 DEF Keeps, Flagged
<1> QED BY <1>2, <1>4, <1>6, <1>7, <1>8 DEF b

Segmented == Seq(Line) \ {<<>>}

\* A token more leaves segments.
LEMMA SplitTyped ==
  ASSUME NEW s \in Segmented, NEW tok \in Symbols
  PROVE  Split(s, tok) \in Segmented
<1>1. Len(s) \in Nat /\ Len(s) \in 1..Len(s) /\ s[Len(s)] \in Line
  BY DEF Segmented
<1>2. CASE tok = "|"
  <2>1. Split(s, tok) = Append(s, <<>>)
    BY <1>2 DEF Split
  <2> QED BY <2>1, EmptyLine DEF Segmented
<1>3. CASE tok # "|"
  <2>1. Split(s, tok) = [s EXCEPT ![Len(s)] = Append(s[Len(s)], tok)]
    BY <1>3 DEF Split
  <2>2. Append(s[Len(s)], tok) \in Line
    BY <1>1, Joined
  <2> QED BY <1>1, <2>1, <2>2, ExceptSeq DEF Segmented
<1> QED BY <1>2, <1>3

\* A line is split into segments, at least one.
LEMMA SplitAtBarsTyped ==
  ASSUME NEW line \in Line
  PROVE  SplitAtBars(line) \in Segmented
<1> DEFINE R == [n \in 0..Len(line) |-> Segmented]
<1>1. Len(line) \in Nat /\ \A n \in 1..Len(line) : line[n] \in Symbols
  BY DEF Line
<1>2. R \in [0..Len(line) -> SUBSET Segmented]
  OBVIOUS
<1>3. << <<>> >> \in R[0]
  BY <1>1, EmptyLine DEF Segmented
<1>4. \A n \in 1..Len(line) : \A s \in R[n - 1] : Split(s, line[n]) \in R[n]
  <2>1. \A n \in 1..Len(line) : R[n - 1] = Segmented /\ R[n] = Segmented
    BY <1>1
  <2> HIDE DEF R
  <2> QED BY <1>1, <2>1, SplitTyped
<1>5. R[Len(line)] = Segmented
  BY <1>1
<1> HIDE DEF R
<1>6. SplitAtBars(line) \in R[Len(line)]
  BY <1>1, <1>2, <1>3, <1>4, Splits
<1> QED BY <1>5, <1>6

\* What std::getline delivers of a line are lines.
LEMMA SegmentsTyped ==
  ASSUME NEW line \in Line
  PROVE  Segments(line) \in Seq(Line)
<1> DEFINE s == SplitAtBars(line)
<1>1. s \in Seq(Line) /\ s # <<>>
  BY SplitAtBarsTyped DEF Segmented
<1>2. Segments(line) = IF Last(s) = <<>> THEN Front(s) ELSE s
  BY DEF Segments
<1> HIDE DEF s
<1>3. Front(s) \in Seq(Line)
  BY <1>1 DEF Front
<1> QED BY <1>1, <1>2, <1>3

Row(line) == [i \in DOMAIN Segments(line) |-> runLineParser(Segments(line)[i])]

\* A row has a cell for each segment.
LEMMA RowTyped ==
  ASSUME NEW line \in Line
  PROVE  Row(line) \in Seq(Line) /\ Len(Row(line)) = Len(Segments(line))
<1> DEFINE s == Segments(line)
<1>1. s \in Seq(Line)
  BY SegmentsTyped
<1> HIDE DEF s
<1>2. DOMAIN s = 1..Len(s) /\ Len(s) \in Nat /\ \A i \in 1..Len(s) : s[i] \in Line
  BY <1>1
<1>3. \A i \in 1..Len(s) : runLineParser(s[i]) \in Line
  BY <1>2, LineParserTyped
<1>4. [i \in 1..Len(s) |-> runLineParser(s[i])] \in [1..Len(s) -> Line]
  BY <1>3, Zenon
<1>5. Row(line) = [i \in 1..Len(s) |-> runLineParser(s[i])]
  BY <1>2, Zenon DEF Row, s
<1> QED BY <1>2, <1>4, <1>5, TableOf DEF s

Rows == Seq(Seq(Line))

\* The row that is added: there is a place for it when the line is not out of range.
LEMMA GrownTyped ==
  ASSUME NEW p \in Parser
  PROVE  /\ Grown(p) \in Seq(Rows) /\ Len(Grown(p)) \in Nat
         /\ \/ Grown(p) = p.table /\ Len(p.table) >= p.currentBlock + 1
            \/ Grown(p) = Append(p.table, <<>>) /\ Len(p.table) < p.currentBlock + 1
BY DEF Grown, Parser, Rows

TableOpens(p, q)  == ~p.started /\ Flagged(q, p, TRUE, p.finished)
TableTurns(p, line, q) == /\ p.started /\ line = Separator /\ q \in Parser
                          /\ q.kind = p.kind /\ q.started /\ ~q.finished /\ q.result = p.result
                          /\ q.table = p.table /\ q.currentBlock = p.currentBlock + 1
TableCloses(p, line, q) == /\ p.started /\ line = <<"|", "<table">> /\ q \in Parser /\ q.kind = p.kind
                           /\ q.finished /\ q.result = Table(p.table)
TableGoes(p, line, q) == /\ p.started /\ IsRow(p, line) /\ q \in Parser
                         /\ q.kind = p.kind /\ q.started /\ ~q.finished /\ q.result = p.result
                         /\ q.currentBlock = p.currentBlock
                         /\ q.table = [Grown(p) EXCEPT ![p.currentBlock + 1] = Append(@, Row(line))]
                         /\ Len(q.table) = Len(Grown(p))

\* An element around several lines is a line.
LEMMA CellsTyped ==
  ASSUME NEW t \in Tags, NEW f \in Seq(Line)
  PROVE  Element(t, FlattenSeq(f)) \in Line
BY FlattenType, ElementTyped DEF Line

SectionTag(table, i) == CASE i = 1 /\ Len(table) > 1            -> "thead"
                          [] i = Len(table) /\ Len(table) >= 3  -> "tfoot"
                          [] OTHER                              -> "tbody"
Cell(table, i) == IF SectionTag(table, i) = "thead" THEN "th" ELSE "td"
RowText(cell, row) == Element("tr", FlattenSeq([c \in DOMAIN row |-> Element(cell, row[c])]))

\* A section of a table, as an element with its rows.
LEMMA SectionIs ==
  ASSUME NEW table, NEW i
  PROVE  /\ Section(table, i) = Element(SectionTag(table, i),
                                  FlattenSeq([r \in DOMAIN table[i] |-> RowText(Cell(table, i), table[i][r])]))
         /\ SectionTag(table, i) \in Tags /\ Cell(table, i) \in Tags
<1>1. SectionTag(table, i) \in {"thead", "tfoot", "tbody"}
  BY DEF SectionTag
<1>2. {"thead", "tfoot", "tbody", "th", "td"} \subseteq Tags
  BY TagNames, Zenon
<1>3. Cell(table, i) \in {"th", "td"}
  BY DEF Cell
<1> QED BY <1>1, <1>2, <1>3, Zenon DEF Section, SectionTag, Cell, RowText

\* A row is written as a line.
LEMMA RowTextTyped ==
  ASSUME NEW cell \in Tags, NEW row \in Seq(Line)
  PROVE  RowText(cell, row) \in Line
<1>1. \A c \in 1..Len(row) : Element(cell, row[c]) \in Line
  BY ElementTyped
<1>2. Len(row) \in Nat /\ DOMAIN row = 1..Len(row)
  OBVIOUS
<1>3. [c \in 1..Len(row) |-> Element(cell, row[c])] \in [1..Len(row) -> Line]
  BY <1>1, Zenon
<1>4. [c \in DOMAIN row |-> Element(cell, row[c])] \in Seq(Line)
  BY <1>2, <1>3, TableOf
<1>5. "tr" \in Tags
  BY TagNames
<1> QED BY <1>4, <1>5, CellsTyped DEF RowText

\* A section is written as a line.
LEMMA SectionTyped ==
  ASSUME NEW table \in Seq(Rows), NEW i \in 1..Len(table)
  PROVE  Section(table, i) \in Line
<1> DEFINE cell == Cell(table, i)
           rows == table[i]
<1>1. rows \in Seq(Seq(Line))
  BY DEF Rows
<1>2. cell \in Tags /\ SectionTag(table, i) \in Tags
  BY SectionIs
<1> HIDE DEF rows, cell
<1>3. Len(rows) \in Nat /\ DOMAIN rows = 1..Len(rows) /\ \A r \in 1..Len(rows) : rows[r] \in Seq(Line)
  BY <1>1
<1>4. \A r \in 1..Len(rows) : RowText(cell, rows[r]) \in Line
  BY <1>2, <1>3, RowTextTyped
<1>5. [r \in 1..Len(rows) |-> RowText(cell, rows[r])] \in [1..Len(rows) -> Line]
  BY <1>4, Zenon
<1>6. [r \in DOMAIN rows |-> RowText(cell, rows[r])] \in Seq(Line)
  BY <1>3, <1>5, TableOf
<1>7. Element(SectionTag(table, i), FlattenSeq([r \in DOMAIN rows |-> RowText(cell, rows[r])])) \in Line
  BY <1>2, <1>6, CellsTyped
<1> QED BY <1>7, SectionIs DEF rows, cell

\* A table is written as a line.
LEMMA TableTyped ==
  ASSUME NEW table \in Seq(Rows)
  PROVE  Table(table) \in Line
<1>1. Len(table) \in Nat /\ DOMAIN table = 1..Len(table)
  OBVIOUS
<1>2. [i \in 1..Len(table) |-> Section(table, i)] \in [1..Len(table) -> Line]
  BY SectionTyped, Zenon
<1>3. [i \in DOMAIN table |-> Section(table, i)] \in Seq(Line)
  BY <1>1, <1>2, TableOf
<1>4. "table" \in Tags
  BY TagNames
<1> QED BY <1>3, <1>4, CellsTyped DEF Table

\* TableParser::AddLine starts the table, turns to the next block of rows, ends
\* the table, or adds a row.
LEMMA TableParsed ==
  ASSUME NEW p \in Parser, NEW line \in Line, p.kind = "table", Ready(p, line), ~OutOfRange(p, line)
  PROVE  LET q == AddTableLine(p, line)
         IN  /\ q \in Parser /\ q.kind = p.kind
             /\ TableOpens(p, q) \/ TableTurns(p, line, q) \/ TableCloses(p, line, q) \/ TableGoes(p, line, q)
<1> DEFINE q == AddTableLine(p, line)
<1>0. p.started \in BOOLEAN /\ ~p.finished /\ p.table \in Seq(Rows) /\ p.currentBlock \in Nat
  BY DEF Ready, Parser, Rows
<1> SUFFICES /\ q \in Parser /\ q.kind = p.kind
             /\ TableOpens(p, q) \/ TableTurns(p, line, q) \/ TableCloses(p, line, q) \/ TableGoes(p, line, q)
  OBVIOUS
<1>1. CASE ~p.started
  <2>1. q = [p EXCEPT !.started = TRUE]
    BY <1>1 DEF AddTableLine
  <2> HIDE DEF q
  <2>2. Flagged(q, p, TRUE, p.finished)
    BY <2>1, Flags
  <2> QED BY <1>1, <2>2 DEF TableOpens, Flagged
<1>2. CASE p.started /\ line = Separator
  <2>1. q = [p EXCEPT !.currentBlock = p.currentBlock + 1]
    <3>1. Separator # <<"|", "<table">>
      BY DEF Separator
    <3> QED BY <1>2, <3>1 DEF AddTableLine
  <2> HIDE DEF q
  <2>2. /\ q \in Parser /\ q.kind = p.kind /\ q.started = p.started /\ q.finished = p.finished
        /\ q.result = p.result /\ q.table = p.table /\ q.currentBlock = p.currentBlock + 1
    BY <2>1, <1>0, SMTT(30) DEF Parser
  <2> QED BY <1>0, <1>2, <2>2 DEF TableTurns
<1>3. CASE p.started /\ line # Separator /\ line = <<"|", "<table">>
  <2>1. q = [p EXCEPT !.result = Table(p.table), !.finished = TRUE]
    BY <1>3 DEF AddTableLine
  <2>2. Table(p.table) \in Line
    BY <1>0, TableTyped
  <2> HIDE DEF q
  <2>3. q \in Parser /\ q.kind = p.kind /\ q.result = Table(p.table) /\ q.finished
    BY <2>1, <2>2 DEF Parser
  <2> QED BY <1>3, <2>3 DEF TableCloses
<1>4. CASE p.started /\ line # Separator /\ line # <<"|", "<table">>
  <2> DEFINE g == Grown(p)
             b == p.currentBlock + 1
             t == [g EXCEPT ![b] = Append(@, Row(line))]
  <2>1. q = [p EXCEPT !.table = [g EXCEPT ![p.currentBlock + 1] = Append(@, Row(line))]]
    BY <1>4 DEF AddTableLine, Row
  <2>2. IsRow(p, line)
    BY <1>4 DEF IsRow
  <2>3. g \in Seq(Rows) /\ Len(g) \in Nat
    BY GrownTyped
  <2>4. b \in 1..Len(g)
    <3>1. ~(p.currentBlock >= Len(Grown(p)))
      BY <2>2 DEF OutOfRange
    <3> QED BY <1>0, <2>3, <3>1
  <2>5. Row(line) \in Seq(Line)
    BY RowTyped
  <2> HIDE DEF g
  <2>6. g[b] \in Rows
    BY <2>3, <2>4
  <2>7. Append(g[b], Row(line)) \in Rows
    BY <2>5, <2>6 DEF Rows
  <2>8. t \in Seq(Rows) /\ Len(t) = Len(g)
    BY <2>3, <2>4, <2>7, ExceptSeq
  <2> HIDE DEF t, q
  <2>9. q = [p EXCEPT !.table = t]
    BY <2>1 DEF t
  <2>10. /\ q \in Parser /\ q.kind = p.kind /\ q.started = p.started /\ q.finished = p.finished
         /\ q.result = p.result /\ q.table = t /\ q.currentBlock = p.currentBlock
    BY <2>8, <2>9 DEF Parser, Rows
  <2> QED BY <1>0, <1>4, <2>2, <2>8, <2>10 DEF TableGoes, t, g
<1> QED BY <1>0, <1>1, <1>2, <1>3, <1>4

\* What parseBlock does to a parser, whatever its kind.
Kept(b, p) ==
  /\ b.p \in Parser /\ b.p.kind = p.kind /\ b.line \in Line
  /\ b.p.started \/ b.p.finished
  /\ p.kind = "quote" => ~b.p.finished /\ (b.line # <<>> => Last(b.line) = " ")
  /\ p.kind \in {"headline", "hr"} => b.p.finished
  /\ p.kind \notin {"quote", "table"} => b.p.result = p.result
  /\ p.kind # "table" => b.p.table = p.table

\* Which parseBlock is called.
LEMMA ParsedAs ==
  ASSUME NEW p \in Parser, NEW line
  PROVE  /\ p.kind = "code" => parseBlock(p, line) = parseCode(p, line)
         /\ p.kind = "headline" => parseBlock(p, line) = parseHeadline(p, line)
         /\ p.kind = "hr" => parseBlock(p, line) = parseHorizontalLine(p, line)
         /\ p.kind = "quote" => parseBlock(p, line) = parseQuote(p, line)
         /\ p.kind = "paragraph" => parseBlock(p, line) = parseParagraph(p, line)
         /\ p.kind = "table" => parseBlock(p, line) = [p |-> AddTableLine(p, line), line |-> <<>>]
         /\ p.kind \in ListKinds => parseBlock(p, line) = parseList(p, line)
         /\ \/ p.kind \in {"code", "headline", "hr", "quote", "paragraph", "table"}
            \/ p.kind \in ListKinds
<1>1. p.kind \in Kinds
  BY DEF Parser
<1>2. \/ p.kind \in {"code", "headline", "hr", "quote", "paragraph", "table"}
      \/ p.kind \in ListKinds
  BY <1>1, KindNames DEF ListKinds
<1>3. p.kind \in ListKinds => parseBlock(p, line) = parseList(p, line)
  BY DEF parseBlock, ListKinds
<1> QED BY <1>2, <1>3 DEF parseBlock

\* A line that a blank was put behind ends with it.
LEMMA LastAppended == ASSUME NEW t \in Line PROVE Last(Append(t, " ")) = " "
<1>1. " " \in Symbols
  BY Literals, Zenon
<1>2. \A s \in Seq(Symbols), x \in Symbols : Last(Append(s, x)) = x
  BY DEF Last
<1>3. t \in Seq(Symbols)
  BY DEF Line
<1> QED BY <1>1, <1>2, <1>3, Zenon

\* parseBlock of every parser that is ready for the line does as Kept says.
LEMMA Parsed ==
  ASSUME NEW p \in Parser, NEW line \in Line, Ready(p, line), ~OutOfRange(p, line)
  PROVE  Kept(parseBlock(p, line), p)
<1> DEFINE b == parseBlock(p, line)
<1> SUFFICES Kept(b, p)
  OBVIOUS
<1>1. CASE p.kind = "code"
  <2>1. b = parseCode(p, line)
    BY <1>1, ParsedAs
  <2>2. Keeps(b, p) /\ (CodeOpens(p, line, b) \/ CodeGoes(p, line, b) \/ CodeCloses(p, line, b))
    BY <1>1, <2>1, CodeParsed
  <2> HIDE DEF b
  <2> QED BY <1>1, <2>2 DEF Keeps, CodeOpens, CodeGoes, CodeCloses, Kept
<1>2. CASE p.kind = "headline"
  <2>1. Keeps(b, p) /\ b.p.finished
    BY <1>2, ParsedAs, HeadlineParsed
  <2> HIDE DEF b
  <2> QED BY <1>2, <2>1 DEF Keeps, Kept
<1>3. CASE p.kind = "hr"
  <2>1. Keeps(b, p) /\ b.p.finished
    BY <1>3, ParsedAs, RuleParsed
  <2> HIDE DEF b
  <2> QED BY <1>3, <2>1 DEF Keeps, Kept
<1>4. CASE p.kind = "quote"
  <2>1. b = parseQuote(p, line)
    BY <1>4, ParsedAs
  <2> HIDE DEF b
  <2>2. /\ b.p \in Parser /\ b.p.kind = p.kind /\ b.line \in Line /\ b.p.started
        /\ ~b.p.finished /\ b.p.table = p.table /\ QuoteText(line) \in Line
        /\ b.line = IF QuoteText(line) = <<>> THEN <<>> ELSE Append(QuoteText(line), " ")
    BY <1>4, <2>1, QuoteParsed, Zenon
  <2>5. ASSUME NEW t \in Line PROVE Last(Append(t, " ")) = " "
    BY LastAppended
  <2>3. QuoteText(line) \in Line => Last(Append(QuoteText(line), " ")) = " "
    BY <2>5
  <2> HIDE DEF b
  <2>4. b.line # <<>> => Last(b.line) = " "
    BY <2>2, <2>3
  <2> QED BY <1>4, <2>2, <2>4 DEF Kept
<1>5. CASE p.kind = "paragraph"
  <2>1. b = parseParagraph(p, line)
    BY <1>5, ParsedAs
  <2>2. /\ Keeps(b, p)
        /\ ParagraphOpens(p, line, b) \/ ParagraphGoes(p, line, b) \/ ParagraphCloses(p, line, b)
    BY <1>5, <2>1, ParagraphParsed
  <2> HIDE DEF b
  <2> QED BY <1>5, <2>2 DEF Keeps, ParagraphOpens, ParagraphGoes, ParagraphCloses, Kept
<1>6. CASE p.kind = "table"
  <2> DEFINE q == AddTableLine(p, line)
  <2>1. b = [p |-> q, line |-> <<>>]
    BY <1>6, ParsedAs
  <2>2. /\ q \in Parser /\ q.kind = p.kind
        /\ TableOpens(p, q) \/ TableTurns(p, line, q) \/ TableCloses(p, line, q) \/ TableGoes(p, line, q)
    BY <1>6, TableParsed
  <2> HIDE DEF b, q
  <2>3. b.p = q /\ b.line = <<>>
    BY <2>1
  <2>4. q.started \/ q.finished
    BY <2>2 DEF TableOpens, TableTurns, TableCloses, TableGoes, Flagged
  <2> QED BY <1>6, <2>2, <2>3, <2>4, EmptyLine DEF Kept
<1>7. CASE p.kind \in ListKinds
  <2>0. ~p.finished
    BY DEF Ready
  <2>1. Keeps(b, p) /\ b.p.started
    BY <1>7, <2>0, ParsedAs, ListParsed
  <2>2. p.kind \notin {"quote", "headline", "hr"}
    BY <1>7 DEF ListKinds
  <2> HIDE DEF b
  <2> QED BY <2>1, <2>2 DEF Keeps, Kept
<1> QED BY <1>1, <1>2, <1>3, <1>4, <1>5, <1>6, <1>7, ParsedAs

-----------------------------------------------------------------------------
(* The chain of parsers. *)

\* What opens inside a block: not what must be the whole of a line.
Below(kind) == ChildKinds(kind) \ {"code", "hr", "table"}

Formed(b) ==
  /\ b \in Seq(Parser)
  /\ \A i \in 1..Len(b) : b[i].started /\ ~b[i].finished /\ b[i].kind \notin {"headline", "hr"}
  /\ \A i \in 2..Len(b) : b[i].kind \in Below(b[i - 1].kind)

\* The parsers a line is given to: the open ones, or one made for it.
Standing(chain, line) ==
  /\ line \in Line /\ chain \in Seq(Parser) /\ chain # <<>> /\ ~OutOfRange(chain[1], line)
  /\ \/ Formed(chain)
     \/ \E k \in Kinds : chain = <<NewParser(k)>> /\ IsStartingLine(k, line)

Ways == [chain : Seq(Parser), given : Line, line : Line]

Fit(p) == /\ p.started \/ p.finished
          /\ p.kind \in {"headline", "hr"} => p.finished
          /\ p.kind = "quote" => ~p.finished

Going(chain, line, w) ==
  /\ w \in Ways
  /\ \A i \in 1..Len(w.chain) : Fit(w.chain[i]) /\ (i <= Len(chain) => w.chain[i].kind = chain[i].kind)
  /\ \A i \in 2..Len(w.chain) : w.chain[i].kind \in Below(w.chain[i - 1].kind)
  /\ w.chain = <<>> => w.line = line
  /\ w.chain # <<>> => (Last(w.chain).kind = "quote" /\ w.line # <<>> => Last(w.line) = " ")

\* The next parser the line is given to.
Receives(chain, w, p) ==
  /\ Child(chain, w) = <<p>> /\ p \in Parser /\ Ready(p, w.line) /\ ~OutOfRange(p, w.line)
  /\ w.chain # <<>> => p.kind \in Below(Last(w.chain).kind)
  /\ Len(w.chain) < Len(chain) => p = chain[Len(w.chain) + 1]
  /\ Len(w.chain) >= Len(chain) => p = NewParser(p.kind)

\* A line that ends with a blank opens no code block, rule or table.
LEMMA InlineOnly ==
  ASSUME NEW line \in Line, line # <<>> => Last(line) = " ", NEW k, IsStartingLine(k, line)
  PROVE  k \notin {"code", "hr", "table"}
<1>1. k = "code" => line = <<"fence">>
  BY DEF IsStartingLine
<1>2. k = "hr" => line = <<"---">>
  BY DEF IsStartingLine
<1>3. k = "table" => line = <<"|", "table>">>
  BY DEF IsStartingLine
<1>4. /\ Last(<<"fence">>) = "fence" /\ <<"fence">> # <<>>
      /\ Last(<<"---">>) = "---" /\ <<"---">> # <<>>
      /\ Last(<<"|", "table>">>) = "table>" /\ <<"|", "table>">> # <<>>
  BY DEF Last
<1> QED BY <1>1, <1>2, <1>3, <1>4

\* Which blocks may open in which.
LEMMA Children ==
  /\ ChildKinds("quote") = Kinds
  /\ ChildKinds("checklist") = {"checklist"}
  /\ ChildKinds("ordered") = {"ordered", "unordered"} /\ ChildKinds("unordered") = {"ordered", "unordered"}
  /\ \A k \in {"code", "headline", "hr", "table", "paragraph"} : ChildKinds(k) = {}
BY DEF ChildKinds

\* The child, open or new, is ready for the line its parent hands it.
LEMMA ChildIs ==
  ASSUME NEW chain, NEW line, Standing(chain, line), NEW w, Going(chain, line, w), Child(chain, w) # <<>>
  PROVE  \E p : Receives(chain, w, p)
<1>0. /\ w.chain \in Seq(Parser) /\ w.line \in Line /\ Len(w.chain) \in Nat /\ Len(chain) \in Nat
      /\ chain \in Seq(Parser) /\ line \in Line /\ Len(chain) # 0
  <2>1. w \in Ways
    BY Zenon DEF Going
  <2>2. chain \in Seq(Parser) /\ chain # <<>> /\ line \in Line
    BY Zenon DEF Standing
  <2> QED BY <2>1, <2>2 DEF Ways
<1> DEFINE n == Len(w.chain)
<1>9. w.chain # <<>> => n # 0 /\ n \in 1..n /\ Last(w.chain) = w.chain[n]
  BY <1>0 DEF Last
<1>1. CASE n < Len(chain)
  <2> DEFINE p == chain[n + 1]
  <2>1. Child(chain, w) = <<p>>
    BY <1>1 DEF Child
  <2>2. p \in Parser /\ n + 1 \in 1..Len(chain)
    BY <1>0, <1>1
  <2>3. CASE Formed(chain)
    <3>1. p.started /\ ~p.finished /\ p.kind \notin {"headline", "hr"}
      BY <2>2, <2>3 DEF Formed
    <3>2. Ready(p, w.line)
      BY <2>2, <3>1 DEF Ready
    <3>3. CASE w.chain = <<>>
      <4>1. n = 0 /\ p = chain[1] /\ w.line = line
        BY <1>0, <3>3 DEF Going
      <4>2. ~OutOfRange(p, w.line)
        BY <4>1 DEF Standing
      <4> QED BY <1>0, <1>1, <2>1, <2>2, <3>2, <3>3, <4>2 DEF Receives
    <3>4. CASE w.chain # <<>>
      <4>1. n + 1 \in 2..Len(chain) /\ (n + 1) - 1 = n /\ n \in 1..Len(w.chain) /\ n <= Len(chain)
        BY <1>0, <1>1, <1>9, <3>4
      <4>2. p.kind \in Below(chain[n].kind)
        BY <2>3, <4>1 DEF Formed
      <4>3. w.chain[n].kind = chain[n].kind
        BY <4>1 DEF Going
      <4>4. p.kind # "table"
        BY <4>2 DEF Below
      <4>5. ~OutOfRange(p, w.line)
        BY <4>4 DEF OutOfRange, IsRow
      <4>6. p.kind \in Below(Last(w.chain).kind)
        BY <1>9, <3>4, <4>2, <4>3
      <4> QED BY <1>0, <1>1, <2>1, <2>2, <3>2, <4>5, <4>6 DEF Receives
    <3> QED BY <3>3, <3>4
  <2>4. CASE \E k \in Kinds : chain = <<NewParser(k)>> /\ IsStartingLine(k, line)
    <3>1. PICK k \in Kinds : chain = <<NewParser(k)>> /\ IsStartingLine(k, line)
      BY <2>4
    <3>2. Len(chain) = 1 /\ n = 0 /\ p = NewParser(k) /\ chain[1] = p
      BY <1>0, <1>1, <3>1
    <3>3. w.chain = <<>> /\ w.line = line
      <4>1. w.chain = <<>>
        BY <1>0, <3>2
      <4> QED BY <4>1, Zenon DEF Going
    <3>4. p.kind = k /\ ~p.started /\ ~p.finished
      BY <3>2, Made
    <3>5. Ready(p, w.line)
      BY <2>2, <3>1, <3>2, <3>3, <3>4 DEF Ready
    <3>6. ~OutOfRange(p, w.line)
      BY <3>2, <3>3 DEF Standing
    <3> QED BY <1>0, <1>1, <2>1, <2>2, <3>3, <3>5, <3>6 DEF Receives
  <2> QED BY <2>3, <2>4 DEF Standing
<1>2. CASE ~(n < Len(chain))
  <2>1. Child(chain, w) = getBlockParserForLine(ChildKinds(Last(w.chain).kind), w.line)
    BY <1>2 DEF Child
  <2>2. PICK k \in ChildKinds(Last(w.chain).kind) :
          k \in Kinds /\ IsStartingLine(k, w.line) /\ Child(chain, w) = <<NewParser(k)>>
    BY <2>1, OpenedIs, Zenon
  <2>3. w.chain # <<>>
    BY <1>0, <1>2
  <2> DEFINE p == NewParser(k)
  <2>4. p \in Parser /\ p.kind = k /\ ~p.started /\ ~p.finished
    BY <2>2, Made
  <2>5. Ready(p, w.line)
    BY <2>2, <2>4 DEF Ready
  <2>6. k \notin {"code", "hr", "table"}
    <3>0. Last(w.chain).kind \in Kinds
      <4>1. Last(w.chain) \in Parser
        BY <1>0, <1>9, <2>3
      <4> QED BY <4>1 DEF Parser
    <3>1. CASE Last(w.chain).kind = "quote"
      <4>1. w.line # <<>> => Last(w.line) = " "
        BY <2>3, <3>1 DEF Going
      <4> QED BY <1>0, <2>2, <4>1, InlineOnly
    <3>2. CASE Last(w.chain).kind # "quote"
      BY <2>2, <3>0, <3>2, Children, KindNames
    <3> QED BY <3>1, <3>2
  <2>7. k \in Below(Last(w.chain).kind)
    BY <2>2, <2>6 DEF Below
  <2>8. ~OutOfRange(p, w.line)
    BY <2>4, <2>6 DEF OutOfRange, IsRow
  <2> HIDE DEF p
  <2>9. Child(chain, w) = <<p>> /\ p = NewParser(p.kind)
    BY <2>2, <2>4 DEF p
  <2> QED BY <1>0, <1>2, <2>4, <2>5, <2>7, <2>8, <2>9 DEF Receives
<1> QED BY <1>1, <1>2

\* Handing the line to the next parser.
Handed(w, p, v) ==
  LET b == parseBlock(p, w.line)
  IN  /\ Kept(b, p) /\ v.chain = Append(w.chain, b.p) /\ v.given = w.line /\ v.line = b.line
      /\ v \in Ways /\ Len(v.chain) = Len(w.chain) + 1 /\ Last(v.chain) = b.p
      /\ v.chain[Len(w.chain) + 1] = b.p
      /\ \A i \in 1..Len(w.chain) : v.chain[i] = w.chain[i]

\* AddLine hands the line to the next parser.
LEMMA HandIs ==
  ASSUME NEW w \in Ways, NEW p \in Parser, Ready(p, w.line), ~OutOfRange(p, w.line)
  PROVE  Handed(w, p, Hand(w, p))
<1> DEFINE b == parseBlock(p, w.line)
           v == Hand(w, p)
<1>1. w.chain \in Seq(Parser) /\ w.line \in Line
  BY DEF Ways
<1>2. Kept(b, p)
  BY <1>1, Parsed
<1>3. b.p \in Parser /\ b.line \in Line
  BY <1>2 DEF Kept
<1>4. v = [chain |-> Append(w.chain, b.p), given |-> w.line, line |-> b.line]
  BY DEF Hand
<1> HIDE DEF b, v
<1>5. v.chain = Append(w.chain, b.p) /\ v.given = w.line /\ v.line = b.line
  BY <1>4
<1>6. /\ Append(w.chain, b.p) \in Seq(Parser) /\ Len(Append(w.chain, b.p)) = Len(w.chain) + 1
      /\ Last(Append(w.chain, b.p)) = b.p /\ Append(w.chain, b.p)[Len(w.chain) + 1] = b.p
      /\ \A i \in 1..Len(w.chain) : Append(w.chain, b.p)[i] = w.chain[i]
  BY <1>1, <1>3 DEF Last
<1>7. v \in Ways
  BY <1>1, <1>3, <1>4, <1>6 DEF Ways
<1> QED BY <1>2, <1>5, <1>6, <1>7 DEF Handed, b, v

\* The line is still on its way after the next parser has had it.
LEMMA StillGoing ==
  ASSUME NEW chain, NEW line, Standing(chain, line), NEW w, Going(chain, line, w),
         NEW p, Receives(chain, w, p), NEW v, Handed(w, p, v)
  PROVE  Going(chain, line, v)
<1> DEFINE b == parseBlock(p, w.line)
           n == Len(w.chain)
<1>0. /\ w.chain \in Seq(Parser) /\ n \in Nat /\ v \in Ways /\ v.chain \in Seq(Parser)
      /\ Len(v.chain) = n + 1 /\ v.line = b.line /\ Last(v.chain) = b.p /\ v.chain[n + 1] = b.p
      /\ \A i \in 1..n : v.chain[i] = w.chain[i]
  <2>1. w \in Ways
    BY Zenon DEF Going
  <2>2. w.chain \in Seq(Parser) /\ n \in Nat
    BY <2>1 DEF Ways
  <2>3. /\ v \in Ways /\ Len(v.chain) = n + 1 /\ v.line = b.line /\ Last(v.chain) = b.p /\ v.chain[n + 1] = b.p
        /\ \A i \in 1..n : v.chain[i] = w.chain[i]
    BY Zenon DEF Handed
  <2> QED BY <2>2, <2>3 DEF Ways
<1>1. Kept(b, p) /\ b.p.kind = p.kind
  BY DEF Handed, Kept
<1> HIDE DEF b
<1>2. Fit(b.p)
  BY <1>1 DEF Kept, Fit
<1>3. \A i \in 1..n + 1 : Fit(v.chain[i]) /\ (i <= Len(chain) => v.chain[i].kind = chain[i].kind)
  <2> SUFFICES ASSUME NEW i \in 1..n + 1
               PROVE  Fit(v.chain[i]) /\ (i <= Len(chain) => v.chain[i].kind = chain[i].kind)
    OBVIOUS
  <2>1. CASE i \in 1..n
    BY <1>0, <2>1 DEF Going
  <2>2. CASE i = n + 1
    <3>1. Len(chain) \in Nat
      BY DEF Standing
    <3>2. i <= Len(chain) => p = chain[i]
      BY <1>0, <2>2, <3>1 DEF Receives
    <3> QED BY <1>0, <1>1, <1>2, <2>2, <3>2
  <2> QED BY <1>0, <2>1, <2>2
<1>4. \A i \in 2..n + 1 : v.chain[i].kind \in Below(v.chain[i - 1].kind)
  <2> SUFFICES ASSUME NEW i \in 2..n + 1 PROVE v.chain[i].kind \in Below(v.chain[i - 1].kind)
    OBVIOUS
  <2>1. CASE i \in 2..n
    <3>1. i \in 1..n /\ i - 1 \in 1..n
      BY <1>0, <2>1
    <3> QED BY <1>0, <2>1, <3>1 DEF Going
  <2>2. CASE i = n + 1
    <3>1. n # 0 /\ n \in 1..n /\ i - 1 = n /\ w.chain # <<>> /\ Last(w.chain) = w.chain[n]
      BY <1>0, <2>2 DEF Last
    <3>2. p.kind \in Below(w.chain[n].kind)
      BY <3>1 DEF Receives
    <3> QED BY <1>0, <1>1, <2>2, <3>1, <3>2
  <2> QED BY <1>0, <2>1, <2>2
<1>5. v.chain # <<>>
  BY <1>0
<1>6. Last(v.chain).kind = "quote" /\ v.line # <<>> => Last(v.line) = " "
  BY <1>0, <1>1 DEF Kept
<1> QED BY <1>0, <1>3, <1>4, <1>5, <1>6 DEF Going

\* The line sets out before it is handed to any parser.
LEMMA SetsOut ==
  ASSUME NEW chain, NEW line, Standing(chain, line)
  PROVE  Going(chain, line, Begin(line)) /\ Depth(chain, line) \in Nat /\ Depth(chain, line) >= Len(chain)
<1>1. line \in Line /\ Len(line) \in Nat /\ Len(chain) \in Nat
  BY DEF Standing, Line
<1>2. Begin(line).chain = <<>> /\ Begin(line).line = line
  BY DEF Begin
<1>3. Begin(line) \in Ways
  BY <1>1 DEF Begin, Ways
<1>4. Going(chain, line, Begin(line))
  BY <1>2, <1>3 DEF Going
<1> QED BY <1>1, <1>4 DEF Depth

Arrived(chain, line, w) ==
  Going(chain, line, w) /\ w.chain # <<>> /\ Len(w.chain) >= Len(chain)

\* A set that holds the line at the start and with every parser holds it at the end.
LEMMA Descent ==
  ASSUME NEW chain, NEW line, Standing(chain, line), NEW D, Begin(line) \in D,
         \A w \in D : \A p, v : Going(chain, line, w) /\ Receives(chain, w, p) /\ Handed(w, p, v) => v \in D
  PROVE  HandedDown(chain, line) \in D /\ Arrived(chain, line, HandedDown(chain, line))
<1> DEFINE N == Depth(chain, line)
           At(n) == {w \in D \cap Ways : /\ Going(chain, line, w)
                                         /\ Len(w.chain) >= n \/ Len(w.chain) >= Len(chain)}
           R == [n \in 0..N |-> At(n)]
<1>1. /\ N \in Nat /\ N >= Len(chain) /\ Going(chain, line, Begin(line))
  BY SetsOut
<1>2. chain \in Seq(Parser) /\ chain # <<>> /\ Len(chain) \in Nat /\ Len(chain) # 0
  BY DEF Standing
<1>3. Begin(line) \in R[0]
  <2>1. Len(Begin(line).chain) >= 0 /\ Begin(line) \in Ways
    <3>1. Begin(line).chain = <<>>
      BY DEF Begin
    <3>2. Begin(line) \in Ways
      BY <1>1, Zenon DEF Going
    <3> QED BY <3>1, <3>2
  <2>2. R[0] = At(0)
    BY <1>1
  <2> HIDE DEF R
  <2> QED BY <1>1, <2>1, <2>2
<1>4. ASSUME NEW n \in 1..N, NEW w \in R[n - 1] PROVE Step(chain, w) \in R[n]
  <2>1. R[n - 1] = At(n - 1) /\ R[n] = At(n) /\ n - 1 \in Nat
    BY <1>1
  <2> HIDE DEF R
  <2>2. /\ w \in D /\ w \in Ways /\ Going(chain, line, w)
        /\ Len(w.chain) >= n - 1 \/ Len(w.chain) >= Len(chain)
    BY <2>1
  <2>3. Len(w.chain) \in Nat
    BY <2>2 DEF Ways
  <2>4. CASE Child(chain, w) = <<>>
    <3>1. Step(chain, w) = w
      BY <2>4 DEF Step
    <3>2. ~(Len(w.chain) < Len(chain))
      <4> SUFFICES ASSUME Len(w.chain) < Len(chain) PROVE FALSE
        OBVIOUS
      <4>1. Child(chain, w) = <<chain[Len(w.chain) + 1]>>
        BY DEF Child
      <4> QED BY <2>4, <4>1
    <3> QED BY <1>2, <2>1, <2>2, <2>3, <3>1, <3>2
  <2>5. CASE Child(chain, w) # <<>>
    <3>1. PICK p : Receives(chain, w, p)
      BY <2>2, <2>5, ChildIs
    <3>2. Child(chain, w) = <<p>> /\ p \in Parser /\ Ready(p, w.line) /\ ~OutOfRange(p, w.line)
      BY <3>1 DEF Receives
    <3> DEFINE v == Hand(w, p)
    <3>3. Step(chain, w) = v
      BY <2>5, <3>2 DEF Step
    <3>4. Handed(w, p, v)
      BY <2>2, <3>2, HandIs
    <3> HIDE DEF v
    <3>5. v \in D /\ Going(chain, line, v)
      BY <2>2, <3>1, <3>4, StillGoing
    <3>6. v \in Ways /\ Len(v.chain) = Len(w.chain) + 1
      BY <3>4 DEF Handed
    <3>7. Len(v.chain) >= n \/ Len(v.chain) >= Len(chain)
      BY <1>2, <2>1, <2>2, <2>3, <3>6
    <3> QED BY <2>1, <3>3, <3>5, <3>6, <3>7
  <2> QED BY <2>4, <2>5
<1>5. R \in [0..N -> SUBSET (D \cap Ways)]
  BY Zenon
<1>6. R[N] = At(N)
  BY <1>1
<1> HIDE DEF R
<1>7. HandedDown(chain, line) \in R[N]
  BY <1>1, <1>3, <1>4, <1>5, Descends
<1> DEFINE w == HandedDown(chain, line)
<1>8. /\ w \in D /\ w \in Ways /\ Going(chain, line, w)
      /\ Len(w.chain) >= N \/ Len(w.chain) >= Len(chain)
  BY <1>6, <1>7
<1> HIDE DEF w, N
<1>9. Len(w.chain) >= Len(chain) /\ w.chain # <<>>
  <2>1. Len(w.chain) \in Nat
    BY <1>8 DEF Ways
  <2> QED BY <1>1, <1>2, <1>8, <2>1
<1> QED BY <1>8, <1>9 DEF Arrived, w

-----------------------------------------------------------------------------
(* What a parser leaves when the line is written. *)

\* q is p but for its result.
Same(q, p) == /\ q \in Parser /\ q.kind = p.kind /\ q.started = p.started /\ q.finished = p.finished
              /\ q.table = p.table /\ q.currentBlock = p.currentBlock

\* Writing something changes the result only.
LEMMA Results ==
  ASSUME NEW p \in Parser, NEW s \in Line
  PROVE  /\ Same([p EXCEPT !.result = p.result \o s], p)
         /\ [p EXCEPT !.result = p.result \o s].result = p.result \o s
<1>1. p.result \o s \in Line
  BY Joined DEF Parser
<1> QED BY <1>1 DEF Same, Parser

\* The innermost parser has written the line; a quote may have ended.
Wrote(w, q) ==
  /\ q \in Parser /\ q.kind = Last(w.chain).kind /\ q.started = Last(w.chain).started
  /\ q.table = Last(w.chain).table /\ q.currentBlock = Last(w.chain).currentBlock
  /\ \/ /\ q.kind = "quote" /\ w.given = <<>> /\ q.finished
        /\ q.result = Append(Last(w.chain).result, "</blockquote>")
     \/ /\ ~(q.kind = "quote" /\ w.given = <<>>) /\ q.finished = Last(w.chain).finished
        /\ q.kind \in LineParsed /\ q.result = Last(w.chain).result \o runLineParser(w.line)
     \/ /\ ~(q.kind = "quote" /\ w.given = <<>>) /\ q.finished = Last(w.chain).finished
        /\ q.kind \notin LineParsed /\ q.result = Last(w.chain).result \o w.line

\* The last element of a sequence is one of its elements.
LEMMA LastIn == ASSUME NEW A, NEW s \in Seq(A), s # <<>>
                PROVE  Len(s) \in 1..Len(s) /\ Last(s) = s[Len(s)] /\ Last(s) \in A
BY DEF Last

\* The innermost parser writes what is left of the line.
LEMMA WrittenIs ==
  ASSUME NEW w \in Ways, w.chain # <<>>
  PROVE  Wrote(w, Written(w))
<1> DEFINE p == Last(w.chain)
           text == IF p.kind \in LineParsed THEN runLineParser(w.line) ELSE w.line
           q == Written(w)
<1>1. w.chain \in Seq(Parser) /\ w.line \in Line
  BY DEF Ways
<1>2. p \in Parser
  BY <1>1, LastIn
<1>3. text \in Line
  BY <1>1, LineParserTyped
<1>4. q = IF p.kind = "quote" /\ w.given = <<>>
          THEN [p EXCEPT !.result = Append(p.result, "</blockquote>"), !.finished = TRUE]
          ELSE [p EXCEPT !.result = p.result \o text]
  BY Zenon DEF Written
<1>8. text = IF p.kind \in LineParsed THEN runLineParser(w.line) ELSE w.line
  OBVIOUS
<1> HIDE DEF q, text
<1>5. CASE p.kind = "quote" /\ w.given = <<>>
  <2>1. q = [p EXCEPT !.result = Append(p.result, "</blockquote>"), !.finished = TRUE]
    BY <1>4, <1>5
  <2>2. Append(p.result, "</blockquote>") \in Line
    <3>1. "</blockquote>" \in Symbols
      BY Literals, Zenon
    <3>2. p.result \in Line
      BY <1>2 DEF Parser
    <3> QED BY <3>1, <3>2, Joined
  <2> HIDE DEF p
  <2>3. /\ q \in Parser /\ q.kind = p.kind /\ q.started = p.started /\ q.finished /\ q.table = p.table
        /\ q.currentBlock = p.currentBlock
        /\ q.result = Append(p.result, "</blockquote>")
    BY <1>2, <2>1, <2>2 DEF Parser
  <2>4. /\ q \in Parser /\ q.kind = Last(w.chain).kind /\ q.started = Last(w.chain).started
        /\ q.table = Last(w.chain).table /\ q.currentBlock = Last(w.chain).currentBlock /\ q.kind = "quote" /\ w.given = <<>> /\ q.finished
        /\ q.result = Append(Last(w.chain).result, "</blockquote>")
    BY <1>5, <2>3 DEF p
  <2> QED BY <2>4, Zenon DEF Wrote, q
<1>6. CASE ~(p.kind = "quote" /\ w.given = <<>>)
  <2>1. q = [p EXCEPT !.result = p.result \o text]
    BY <1>4, <1>6
  <2> HIDE DEF p
  <2>2. Same(q, p) /\ q.result = p.result \o text
    BY <1>2, <1>3, <2>1, Results
  <2>3. CASE p.kind \in LineParsed
    <3>1. text = runLineParser(w.line)
      BY <1>8, <2>3
    <3>2. /\ q \in Parser /\ q.kind = Last(w.chain).kind /\ q.started = Last(w.chain).started
          /\ q.table = Last(w.chain).table /\ q.currentBlock = Last(w.chain).currentBlock
          /\ ~(q.kind = "quote" /\ w.given = <<>>) /\ q.finished = Last(w.chain).finished
          /\ q.kind \in LineParsed /\ q.result = Last(w.chain).result \o runLineParser(w.line)
      BY <1>6, <2>2, <2>3, <3>1 DEF p, Same
    <3> QED BY <3>2, Zenon DEF Wrote, q
  <2>4. CASE p.kind \notin LineParsed
    <3>1. text = w.line
      BY <1>8, <2>4
    <3>2. /\ q \in Parser /\ q.kind = Last(w.chain).kind /\ q.started = Last(w.chain).started
          /\ q.table = Last(w.chain).table /\ q.currentBlock = Last(w.chain).currentBlock
          /\ ~(q.kind = "quote" /\ w.given = <<>>) /\ q.finished = Last(w.chain).finished
          /\ q.kind \notin LineParsed /\ q.result = Last(w.chain).result \o w.line
      BY <1>6, <2>2, <2>4, <3>1 DEF p, Same
    <3> QED BY <3>2, Zenon DEF Wrote, q
  <2> QED BY <2>3, <2>4
<1> QED BY <1>5, <1>6 DEF q

\* The chain after the line was written.
WrittenChain(w) == [w.chain EXCEPT ![Len(w.chain)] = Written(w)]

\* Only the innermost parser writes.
LEMMA WrittenChainIs ==
  ASSUME NEW w \in Ways, w.chain # <<>>
  PROVE  /\ WrittenChain(w) \in Seq(Parser) /\ Len(WrittenChain(w)) = Len(w.chain)
         /\ \A i \in 1..Len(w.chain) : i # Len(w.chain) => WrittenChain(w)[i] = w.chain[i]
         /\ WrittenChain(w)[Len(w.chain)] = Written(w)
         /\ \A i \in 1..Len(w.chain) : WrittenChain(w)[i].kind = w.chain[i].kind
         /\ \A i \in 1..Len(w.chain) : WrittenChain(w)[i].started = w.chain[i].started
<1>1. w.chain \in Seq(Parser)
  BY DEF Ways
<1>2. Written(w) \in Parser /\ Written(w).kind = Last(w.chain).kind /\ Written(w).started = Last(w.chain).started
  BY WrittenIs DEF Wrote
<1>3. Len(w.chain) \in 1..Len(w.chain) /\ Last(w.chain) = w.chain[Len(w.chain)]
  BY <1>1, LastIn
<1> DEFINE c == WrittenChain(w)
<1>4. /\ c \in Seq(Parser) /\ Len(c) = Len(w.chain)
      /\ \A i \in 1..Len(w.chain) : c[i] = IF i = Len(w.chain) THEN Written(w) ELSE w.chain[i]
  BY <1>1, <1>2, <1>3, ExceptSeq DEF WrittenChain
<1> HIDE DEF c
<1>5. \A i \in 1..Len(w.chain) : c[i].kind = w.chain[i].kind /\ c[i].started = w.chain[i].started
  BY <1>2, <1>3, <1>4
<1> QED BY <1>3, <1>4, <1>5 DEF c

-----------------------------------------------------------------------------
(* What is left of the chain. *)

Trim(c, r) ==
  /\ r \in Seq(Parser) /\ r # <<>> /\ Len(r) <= Len(c)
  /\ \A i \in 1..Len(r) : Same(r[i], c[i])
  /\ \A i \in 1..Len(r) : i # Len(r) => r[i] = c[i]
  /\ \A i \in 2..Len(r) : ~r[i].finished

\* Finished children leave, those that are left follow each other as before.
LEMMA AdoptedIs ==
  ASSUME NEW c \in Seq(Parser), c # <<>>
  PROVE  Trim(c, Adopted(c))
<1> DEFINE N == Len(c)
           At(n) == {b \in Seq(Parser) : /\ Len(b) <= n /\ (n # 0 => b # <<>>)
                                         /\ \A i \in 1..Len(b) : Same(b[i], c[N - n + i])
                                         /\ \A i \in 1..Len(b) : i # Len(b) => b[i] = c[N - n + i]
                                         /\ \A i \in 2..Len(b) : ~b[i].finished}
           R == [n \in 0..N |-> At(n)]
<1>1. N \in Nat /\ N # 0
  OBVIOUS
<1>2. <<>> \in R[0]
  <2>1. R[0] = At(0)
    BY <1>1
  <2> HIDE DEF R
  <2> QED BY <2>1
<1>3. ASSUME NEW n \in 1..N, NEW b \in R[n - 1] PROVE Adopt(c[N - n + 1], b) \in R[n]
  <2>1. R[n - 1] = At(n - 1) /\ R[n] = At(n) /\ n - 1 \in Nat /\ n # 0 /\ n \in Nat
    BY <1>1
  <2> HIDE DEF R
  <2> DEFINE p == c[N - n + 1]
             m == N - n
  <2>2. p \in Parser /\ m \in Nat /\ N - (n - 1) = m + 1
    BY <1>1
  <2>3. /\ b \in Seq(Parser) /\ Len(b) <= n - 1 /\ Len(b) \in Nat
        /\ \A i \in 1..Len(b) : Same(b[i], c[m + 1 + i])
        /\ \A i \in 1..Len(b) : i # Len(b) => b[i] = c[m + 1 + i]
        /\ \A i \in 2..Len(b) : ~b[i].finished
    <3>1. b \in At(n - 1)
      BY <2>1, Zenon
    <3>2. At(n - 1) = {d \in Seq(Parser) : /\ Len(d) <= n - 1 /\ (n - 1 # 0 => d # <<>>)
                                           /\ \A i \in 1..Len(d) : Same(d[i], c[m + 1 + i])
                                           /\ \A i \in 1..Len(d) : i # Len(d) => d[i] = c[m + 1 + i]
                                           /\ \A i \in 2..Len(d) : ~d[i].finished}
      BY <2>2, Zenon
    <3> HIDE DEF At, m
    <3>3. /\ b \in Seq(Parser) /\ Len(b) <= n - 1
          /\ \A i \in 1..Len(b) : Same(b[i], c[m + 1 + i])
          /\ \A i \in 1..Len(b) : i # Len(b) => b[i] = c[m + 1 + i]
          /\ \A i \in 2..Len(b) : ~b[i].finished
      BY <3>1, <3>2
    <3> QED BY <3>3
  <2>4. Same(p, p)
    BY <2>2 DEF Same
  <2> HIDE DEF N
  <2>5. CASE b # <<>> /\ b[1].finished
    <3> DEFINE q == [p EXCEPT !.result = p.result \o b[1].result]
    <3>1. Adopt(p, b) = <<q>>
      BY <2>5 DEF Adopt
    <3>2. b[1].result \in Line
      <4>1. b[1] \in Parser
        BY <2>3, <2>5
      <4> QED BY <4>1 DEF Parser
    <3>3. Same(q, p)
      BY <2>2, <3>2, Results
    <3>4. q \in Parser
      BY <3>3 DEF Same
    <3> HIDE DEF q
    <3> DEFINE t == <<q>>
    <3>5. t \in Seq(Parser) /\ Len(t) = 1 /\ t[1] = q /\ t # <<>>
      BY <3>4
    <3> HIDE DEF t
    <3>7. 1 <= n /\ 1..Len(t) = {1} /\ 2..Len(t) = {} /\ Same(t[1], c[m + 1])
      BY <2>1, <3>3, <3>5 DEF m
    <3>6. t \in At(n)
      BY <3>5, <3>7 DEF m
    <3> QED BY <2>1, <3>1, <3>6 DEF t
  <2>6. CASE ~(b # <<>> /\ b[1].finished)
    <3> DEFINE t == <<p>> \o b
    <3>1. Adopt(p, b) = t
      BY <2>6 DEF Adopt
    <3>2. /\ t \in Seq(Parser) /\ Len(t) = Len(b) + 1 /\ t[1] = p /\ t # <<>>
          /\ \A i \in 2..Len(t) : i - 1 \in 1..Len(b) /\ t[i] = b[i - 1]
      BY <2>2, <2>3
    <3> HIDE DEF t, p
    <3>3. Len(t) <= n
      BY <2>1, <2>3, <3>2
    <3>4. ASSUME NEW i \in 1..Len(t) PROVE Same(t[i], c[m + i]) /\ (i # Len(t) => t[i] = c[m + i])
      <4>1. CASE i = 1
        BY <2>4, <3>2, <4>1 DEF p, m
      <4>2. CASE i # 1
        <5>0. i \in 2..Len(t) /\ Len(t) \in Nat
          BY <2>3, <3>2, <4>2
        <5>1. i \in 2..Len(t) /\ m + i = m + 1 + (i - 1) /\ i - 1 \in 1..Len(b) /\ t[i] = b[i - 1]
          <6>1. m + i = m + 1 + (i - 1)
            <7> HIDE DEF m
            <7> QED BY ONLY <2>2, <5>0
          <6> QED BY <3>2, <5>0, <6>1
        <5>2. i # Len(t) => i - 1 # Len(b)
          BY <2>3, <3>2
        <5> QED BY <2>3, <5>1, <5>2
      <4> QED BY <4>1, <4>2
    <3>5. ASSUME NEW i \in 2..Len(t) PROVE ~t[i].finished
      <4>1. i - 1 \in 1..Len(b) /\ t[i] = b[i - 1] /\ (i - 1 = 1 \/ i - 1 \in 2..Len(b))
        BY <2>3, <3>2
      <4>2. b # <<>>
        BY <2>3, <4>1
      <4> QED BY <2>3, <2>6, <4>1, <4>2
    <3>6. t \in At(n)
      BY <3>2, <3>3, <3>4, <3>5 DEF m
    <3> QED BY <2>1, <3>1, <3>6 DEF p
  <2> QED BY <2>5, <2>6
<1>4. R \in [0..N -> SUBSET Seq(Parser)]
  BY Zenon
<1>5. R[N] = At(N)
  BY <1>1
<1> HIDE DEF R
<1>6. Adopted(c) \in R[N]
  BY <1>1, <1>2, <1>3, <1>4, Ascends
<1> DEFINE r == Adopted(c)
<1>7. /\ r \in Seq(Parser) /\ Len(r) <= N /\ r # <<>>
      /\ \A i \in 1..Len(r) : Same(r[i], c[N - N + i])
      /\ \A i \in 1..Len(r) : i # Len(r) => r[i] = c[N - N + i]
      /\ \A i \in 2..Len(r) : ~r[i].finished
  BY <1>1, <1>5, <1>6
<1> HIDE DEF r
<1>8. \A i \in 1..Len(r) : N - N + i = i
  BY <1>1
<1> QED BY <1>7, <1>8 DEF Trim, r

\* What is left after a line: the parsers the line went through, trimmed.
LEMMA Left ==
  ASSUME NEW chain, NEW line, Standing(chain, line)
  PROVE  LET w == HandedDown(chain, line)
             r == AddLine(chain, line)
         IN  /\ Arrived(chain, line, w) /\ w \in Ways /\ Trim(WrittenChain(w), r)
             /\ r[1].kind = chain[1].kind
             /\ ~r[1].finished => Formed(r)
<1> DEFINE w == HandedDown(chain, line)
           c == WrittenChain(w)
           r == AddLine(chain, line)
<1>1. Arrived(chain, line, w)
  <2> DEFINE D == {v \in Ways : TRUE}
  <2>1. Begin(line) \in D
    BY SetsOut DEF Going
  <2>2. \A v \in D : \A p, u : Going(chain, line, v) /\ Receives(chain, v, p) /\ Handed(v, p, u) => u \in D
    BY DEF Handed
  <2> HIDE DEF D
  <2> QED BY <2>1, <2>2, Descent
<1>2. w \in Ways /\ w.chain # <<>> /\ w.chain \in Seq(Parser)
  <2>1. w \in Ways /\ w.chain # <<>>
    BY <1>1, Zenon DEF Arrived, Going
  <2> QED BY <2>1 DEF Ways
<1>3. r = Adopted(c)
  BY DEF AddLine, WrittenChain
<1> HIDE DEF w, r
<1>4. /\ c \in Seq(Parser) /\ Len(c) = Len(w.chain)
      /\ \A i \in 1..Len(w.chain) : i # Len(w.chain) => c[i] = w.chain[i]
      /\ c[Len(w.chain)] = Written(w)
      /\ \A i \in 1..Len(w.chain) : c[i].kind = w.chain[i].kind
      /\ \A i \in 1..Len(w.chain) : c[i].started = w.chain[i].started
  BY <1>2, WrittenChainIs
<1>5. Wrote(w, Written(w))
  BY <1>2, WrittenIs
<1>6. Len(w.chain) \in Nat /\ Len(w.chain) # 0 /\ Last(w.chain) = w.chain[Len(w.chain)]
  BY <1>2 DEF Last
<1> HIDE DEF c
<1>7. c # <<>>
  BY <1>4, <1>6
<1>8. Trim(c, r)
  BY <1>3, <1>4, <1>7, AdoptedIs
<1>9. /\ \A i \in 1..Len(w.chain) : Fit(w.chain[i])
      /\ \A i \in 1..Len(w.chain) : i <= Len(chain) => w.chain[i].kind = chain[i].kind
      /\ \A i \in 2..Len(w.chain) : w.chain[i].kind \in Below(w.chain[i - 1].kind)
      /\ Len(w.chain) >= Len(chain)
  BY <1>1 DEF Arrived, Going
<1>10. \A i \in 1..Len(w.chain) : ~c[i].finished => ~w.chain[i].finished
  <2>1. ~Written(w).finished => ~Last(w.chain).finished
    BY <1>5 DEF Wrote
  <2> QED BY <1>4, <1>6, <2>1
<1>11. /\ r \in Seq(Parser) /\ r # <<>> /\ Len(r) \in Nat /\ Len(r) # 0 /\ Len(r) <= Len(w.chain)
       /\ \A i \in 1..Len(r) : Same(r[i], c[i])
       /\ \A i \in 2..Len(r) : ~r[i].finished
  BY <1>4, <1>8 DEF Trim
<1>12. \A i \in 1..Len(r) : i \in 1..Len(w.chain) /\ r[i].kind = w.chain[i].kind
                            /\ r[i].started = w.chain[i].started /\ r[i].finished = c[i].finished
  BY <1>4, <1>6, <1>11 DEF Same
<1>13. r[1].kind = chain[1].kind
  <2>1. Len(chain) \in Nat /\ Len(chain) # 0
    BY DEF Standing
  <2> QED BY <1>6, <1>9, <1>11, <1>12, <2>1
<1>14. ASSUME ~r[1].finished PROVE Formed(r)
  <2>1. \A i \in 1..Len(r) : ~r[i].finished
    BY <1>11, <1>14
  <2>2. \A i \in 1..Len(r) : r[i].started /\ r[i].kind \notin {"headline", "hr"}
    BY <1>9, <1>10, <1>12, <2>1 DEF Fit
  <2>3. ASSUME NEW i \in 2..Len(r) PROVE r[i].kind \in Below(r[i - 1].kind)
    <3>1. i \in 1..Len(r) /\ i - 1 \in 1..Len(r) /\ i \in 2..Len(w.chain)
      BY <1>6, <1>11
    <3> QED BY <1>9, <1>12, <3>1
  <2> QED BY <1>11, <2>1, <2>2, <2>3 DEF Formed
<1> QED BY <1>1, <1>2, <1>8, <1>13, <1>14 DEF w, c, r

-----------------------------------------------------------------------------
(* Parse. *)

Shape ==
  /\ doc \in Documents /\ read \in Seq(Seq(Tokens)) /\ Formed(block) /\ output \in Line
  /\ phase \in {"reading", "returned", "undefined"}

\* A line of a document is a line of tokens.
LEMMA NumberedTyped ==
  ASSUME Shape, Len(read) < doc.length, NEW s \in doc.shapes
  PROVE  Numbered(s) \in Seq(Tokens) /\ Numbered(s) \in Line /\ Len(Numbered(s)) = Len(s)
<1>1. /\ s \in Seq(Tokens \cup {"w"}) /\ Words \in Seq(Tokens)
      /\ doc.length \in Nat /\ doc.length <= Len(Words) /\ Len(read) \in Nat
  BY MaddyAssumption DEF Shape
<1>2. Words[Len(read) + 1] \in Tokens
  BY <1>1
<1>3. DOMAIN s = 1..Len(s) /\ Len(s) \in Nat /\ \A i \in 1..Len(s) : s[i] \in Tokens \cup {"w"}
  BY <1>1
<1>4. \A i \in 1..Len(s) : (IF s[i] = "w" THEN Words[Len(read) + 1] ELSE s[i]) \in Tokens
  BY <1>2, <1>3
<1>5. [i \in 1..Len(s) |-> IF s[i] = "w" THEN Words[Len(read) + 1] ELSE s[i]] \in [1..Len(s) -> Tokens]
  BY <1>4, Zenon
<1>6. Numbered(s) \in Seq(Tokens) /\ Len(Numbered(s)) = Len(s)
  BY <1>3, <1>5, TableOf DEF Numbered
<1>7. Seq(Tokens) \subseteq Line
  <2>1. Tokens \subseteq Symbols
    BY DEF Symbols
  <2> HIDE DEF Symbols
  <2> QED BY <2>1 DEF Line
<1> QED BY <1>6, <1>7

\* What a line does: it starts no block, is taken, or runs past the end of the rows.
Ignored(line) == /\ block = <<>> /\ getBlockParserForLine(Kinds, line) = <<>>
                 /\ block' = <<>> /\ output' = output /\ phase' = phase
TakenBy(chain, line) == /\ Standing(chain, line) /\ Take(AddLine(chain, line))
                        /\ chain = block \/ (block = <<>> /\ \E k \in Kinds : chain = <<NewParser(k)>>)
Lost(line) == /\ block # <<>> /\ OutOfRange(block[1], line)
              /\ phase' = "undefined" /\ block' = block /\ output' = output

\* A new parser is past no end.
LEMMA NewInRange == ASSUME NEW k \in Kinds, NEW line PROVE ~OutOfRange(NewParser(k), line)
BY Made DEF OutOfRange, IsRow

\* ReadLine with the guards its three outcomes have.
LEMMA LineRead ==
  ASSUME Shape, NEW s \in doc.shapes, ReadLine(Numbered(s))
  PROVE  LET line == Numbered(s)
         IN  /\ line \in Seq(Tokens) /\ line \in Line /\ read' = Append(read, line) /\ doc' = doc
             /\ phase = "reading"
             /\ \/ Ignored(line)
                \/ phase' = phase /\ \E chain : TakenBy(chain, line)
                \/ Lost(line)
<1> DEFINE line == Numbered(s)
           chain == IF block = <<>> THEN getBlockParserForLine(Kinds, line) ELSE block
<1>1. /\ phase = "reading" /\ Len(read) < doc.length /\ read' = Append(read, line) /\ doc' = doc
      /\ \/ chain = <<>> /\ UNCHANGED <<block, output, phase>>
         \/ chain # <<>> /\ ~OutOfRange(chain[1], line) /\ Take(AddLine(chain, line)) /\ UNCHANGED phase
         \/ chain # <<>> /\ OutOfRange(chain[1], line) /\ phase' = "undefined" /\ UNCHANGED <<block, output>>
  BY DEF ReadLine
<1>2. line \in Seq(Tokens) /\ line \in Line
  BY <1>1, NumberedTyped
<1>3. chain = IF block = <<>> THEN getBlockParserForLine(Kinds, line) ELSE block
  OBVIOUS
<1> HIDE DEF line, chain
<1>4. CASE block = <<>>
  <2>1. chain = getBlockParserForLine(Kinds, line)
    BY <1>3, <1>4
  <2>2. \/ chain = <<>>
        \/ \E k \in Kinds : IsStartingLine(k, line) /\ chain = <<NewParser(k)>>
    BY <2>1, OpenedIs, Zenon
  <2>3. CASE chain = <<>>
    BY <1>1, <1>2, <1>4, <2>1, <2>3 DEF Ignored, line
  <2>4. CASE chain # <<>>
    <3>1. PICK k \in Kinds : IsStartingLine(k, line) /\ chain = <<NewParser(k)>>
      BY <2>2, <2>4
    <3>2. chain[1] = NewParser(k) /\ chain \in Seq(Parser)
      <4>1. NewParser(k) \in Parser
        BY Made
      <4> QED BY <3>1, <4>1
    <3>3. ~OutOfRange(chain[1], line)
      BY <3>2, NewInRange
    <3>4. Standing(chain, line)
      BY <1>2, <2>4, <3>1, <3>2, <3>3 DEF Standing
    <3>5. TakenBy(chain, line)
      BY <1>1, <1>4, <3>1, <3>3, <3>4, <2>4 DEF TakenBy
    <3>6. phase' = phase
      BY <1>1, <2>4, <3>3
    <3> QED BY <1>1, <1>2, <3>5, <3>6 DEF line
  <2> QED BY <2>3, <2>4
<1>5. CASE block # <<>>
  <2>1. chain = block
    BY <1>3, <1>5
  <2>2. CASE OutOfRange(block[1], line)
    BY <1>1, <1>2, <1>5, <2>1, <2>2 DEF Lost, line
  <2>3. CASE ~OutOfRange(block[1], line)
    <3>1. Standing(chain, line)
      BY <1>2, <1>5, <2>1, <2>3 DEF Standing, Shape, Formed
    <3>2. TakenBy(chain, line) /\ phase' = phase
      BY <1>1, <1>5, <2>1, <2>3, <3>1 DEF TakenBy
    <3> QED BY <1>1, <1>2, <3>2 DEF line
  <2> QED BY <2>2, <2>3
<1> QED BY <1>4, <1>5

\* EndOfInput with the guards its outcomes have.
LEMMA InputEnded ==
  ASSUME Shape, EndOfInput
  PROVE  /\ read' = read /\ doc' = doc /\ phase = "reading"
         /\ \/ block = <<>> /\ block' = <<>> /\ output' = output /\ phase' = "returned"
            \/ phase' = "returned" /\ block # <<>> /\ TakenBy(block, <<>>)
            \/ Lost(<<>>)
<1>1. /\ read' = read /\ doc' = doc /\ phase = "reading"
      /\ \/ block = <<>> /\ phase' = "returned" /\ UNCHANGED <<block, output>>
         \/ block # <<>> /\ ~OutOfRange(block[1], <<>>) /\ Take(AddLine(block, <<>>)) /\ phase' = "returned"
         \/ block # <<>> /\ OutOfRange(block[1], <<>>) /\ phase' = "undefined" /\ UNCHANGED <<block, output>>
  BY DEF EndOfInput
<1>2. block # <<>> /\ ~OutOfRange(block[1], <<>>) => Standing(block, <<>>)
  BY EmptyLine DEF Standing, Shape, Formed
<1> QED BY <1>1, <1>2 DEF TakenBy, Lost

\* What is taken leaves a chain that is formed, or none.
LEMMA TakenIs ==
  ASSUME NEW chain, NEW line, Standing(chain, line), output \in Line, Take(AddLine(chain, line))
  PROVE  LET r == AddLine(chain, line)
         IN  /\ Formed(block') /\ output' \in Line /\ r[1].kind = chain[1].kind
             /\ \/ r[1].finished /\ block' = <<>> /\ output' = output \o r[1].result
                \/ ~r[1].finished /\ block' = r /\ output' = output
<1> DEFINE r == AddLine(chain, line)
<1>1. /\ r[1].kind = chain[1].kind /\ (~r[1].finished => Formed(r)) /\ r[1] \in Parser
  <2>1. Trim(WrittenChain(HandedDown(chain, line)), r) /\ r[1].kind = chain[1].kind /\ (~r[1].finished => Formed(r))
    BY Left
  <2>2. r \in Seq(Parser) /\ r # <<>>
    BY <2>1 DEF Trim
  <2> QED BY <2>1, <2>2
<1>2. \/ r[1].finished /\ block' = <<>> /\ output' = output \o r[1].result
      \/ ~r[1].finished /\ block' = r /\ output' = output
  BY DEF Take
<1> HIDE DEF r
<1>3. output \o r[1].result \in Line
  BY <1>1, Joined DEF Parser
<1>4. Formed(<<>>)
  BY DEF Formed
<1> QED BY <1>1, <1>2, <1>3, <1>4 DEF r

\* ShapeHolds: in every state the open parsers are started, unfinished and may stand
\* in each other, and the rest of the state has its type: what Parse and the
\* parsers keep between two lines, whatever the lines are.
THEOREM ShapeHolds == Spec => []Shape
<1>1. Init => Shape
  BY EmptyLine DEF Init, Shape, Formed
<1>2. Shape /\ [Next]_vars => Shape'
  <2> SUFFICES ASSUME Shape, [Next]_vars PROVE Shape'
    OBVIOUS
  <2>0. output \in Line /\ read \in Seq(Seq(Tokens)) /\ doc \in Documents
        /\ phase \in {"reading", "returned", "undefined"} /\ Formed(block)
    BY DEF Shape
  <2>9. Formed(<<>>)
    BY DEF Formed
  <2>1. ASSUME NEW s \in doc.shapes, ReadLine(Numbered(s)) PROVE Shape'
    <3> DEFINE line == Numbered(s)
    <3>1. /\ line \in Seq(Tokens) /\ read' = Append(read, line) /\ doc' = doc
          /\ Ignored(line) \/ (phase' = phase /\ \E chain : TakenBy(chain, line)) \/ Lost(line)
      BY <2>1, LineRead
    <3> HIDE DEF line
    <3>2. read' \in Seq(Seq(Tokens))
      BY <2>0, <3>1
    <3>3. CASE Ignored(line)
      BY <2>0, <2>9, <3>1, <3>2, <3>3 DEF Ignored, Shape
    <3>4. CASE phase' = phase /\ \E chain : TakenBy(chain, line)
      <4>1. PICK chain : TakenBy(chain, line)
        BY <3>4
      <4>2. Formed(block') /\ output' \in Line
        BY <2>0, <4>1, TakenIs DEF TakenBy
      <4> QED BY <2>0, <3>1, <3>2, <3>4, <4>2 DEF Shape
    <3>5. CASE Lost(line)
      BY <2>0, <3>1, <3>2, <3>5 DEF Lost, Shape
    <3> QED BY <3>1, <3>3, <3>4, <3>5
  <2>2. CASE EndOfInput
    <3>1. /\ read' = read /\ doc' = doc
          /\ \/ block' = <<>> /\ output' = output /\ phase' = "returned"
             \/ phase' = "returned" /\ TakenBy(block, <<>>)
             \/ Lost(<<>>)
      BY <2>2, InputEnded
    <3>3. CASE block' = <<>> /\ output' = output /\ phase' = "returned"
      BY <2>0, <2>9, <3>1, <3>3 DEF Shape
    <3>4. CASE phase' = "returned" /\ TakenBy(block, <<>>)
      <4>2. Formed(block') /\ output' \in Line
        BY <2>0, <3>4, TakenIs DEF TakenBy
      <4> QED BY <2>0, <3>1, <3>4, <4>2 DEF Shape
    <3>5. CASE Lost(<<>>)
      BY <2>0, <3>1, <3>5 DEF Lost, Shape
    <3> QED BY <3>1, <3>3, <3>4, <3>5
  <2>3. CASE UNCHANGED vars
    BY <2>0, <2>3 DEF Shape, vars
  <2> QED BY <2>1, <2>2, <2>3 DEF Next, Done
<1> QED BY <1>1, <1>2, PTL DEF Spec

-----------------------------------------------------------------------------
(* Rows. *)

\* Two separators without a row between them, or one that no row precedes.
Rowless(lines) == \E i \in 2 .. Len(lines) : /\ lines[i] = Separator
                                             /\ lines[i - 1] \in {Separator, <<"|", "table>">>}

\* The open table has a place for the next row, unless it was started without one.
Ahead ==
  phase = "reading" /\ block # <<>> /\ block[1].kind = "table" =>
    \/ Rowless(read)
    \/ /\ block[1].currentBlock <= Len(block[1].table)
       /\ block[1].currentBlock = Len(block[1].table) =>
            read # <<>> /\ Last(read) \in {Separator, <<"|", "table>">>}

\* A table gets the line alone.
LEMMA TableAlone ==
  ASSUME NEW chain, NEW line, Standing(chain, line), chain[1].kind = "table"
  PROVE  LET r == AddLine(chain, line)
             q == AddTableLine(chain[1], line)
             w == HandedDown(chain, line)
         IN  /\ Len(r) = 1 /\ r[1].table = q.table /\ r[1].currentBlock = q.currentBlock /\ r[1].finished = q.finished
             /\ w \in Ways /\ w.chain = <<q>> /\ w.line = <<>>
<1> DEFINE q == AddTableLine(chain[1], line)
           D == {w \in Ways : w.chain # <<>> => w.chain = <<q>> /\ w.line = <<>>}
           w == HandedDown(chain, line)
           r == AddLine(chain, line)
<1>0. chain # <<>> /\ chain \in Seq(Parser) /\ Len(chain) \in Nat /\ Len(chain) # 0
  BY DEF Standing
<1>1. Begin(line) \in D
  <2>1. Begin(line) \in Ways
    BY SetsOut DEF Going
  <2> QED BY <2>1 DEF Begin
<1>2. ASSUME NEW v \in D, NEW p, NEW u, Going(chain, line, v), Receives(chain, v, p), Handed(v, p, u)
      PROVE  u \in D
  <2>1. u \in Ways /\ u.chain = Append(v.chain, parseBlock(p, v.line).p)
    BY <1>2 DEF Handed
  <2>2. v \in Ways /\ v.chain \in Seq(Parser) /\ (v.chain # <<>> => v.chain = <<q>>)
    BY DEF Ways
  <2>3. CASE v.chain = <<>>
    <3>1. v.line = line
      BY <1>2, <2>3, Zenon DEF Going
    <3>2. p = chain[1] /\ p \in Parser
      BY <1>0, <1>2, <2>3 DEF Receives
    <3>3. parseBlock(p, v.line) = [p |-> q, line |-> <<>>]
      BY <3>1, <3>2, ParsedAs
    <3>4. u.chain = <<q>> /\ u.line = <<>>
      <4>1. u.line = parseBlock(p, v.line).line
        BY <1>2, Zenon DEF Handed
      <4> QED BY <2>1, <2>3, <3>3, <4>1
    <3> QED BY <2>1, <3>4
  <2>4. CASE v.chain # <<>>
    <3>1. Last(v.chain).kind = "table"
      <4>1. v.chain = <<q>> /\ Len(v.chain) = 1 /\ Last(v.chain) = v.chain[1] /\ 1 \in 1..Len(v.chain) /\ 1 <= Len(chain)
        <5>1. v.chain = <<q>>
          BY <2>2, <2>4
        <5> HIDE DEF q
        <5> QED BY <1>0, <5>1 DEF Last
      <4>2. v.chain[1].kind = chain[1].kind
        BY <1>2, <4>1 DEF Going
      <4> QED BY <4>1, <4>2
    <3>2. p.kind \in Below("table")
      BY <1>2, <2>4, <3>1 DEF Receives
    <3> QED BY <3>2, Children DEF Below
  <2> QED BY <2>3, <2>4
<1>3. w \in D /\ Arrived(chain, line, w)
  <2> HIDE DEF D
  <2> QED BY <1>1, <1>2, Descent
<1>4. Trim(WrittenChain(w), r) /\ w \in Ways
  BY Left
<1> HIDE DEF r
<1>5. w.chain = <<q>> /\ w.line = <<>> /\ w.chain # <<>> /\ Len(w.chain) = 1 /\ w.chain[1] = q /\ Last(w.chain) = q
  <2>1. w.chain # <<>>
    BY <1>3 DEF Arrived
  <2>2. w.chain = <<q>> /\ w.line = <<>>
    BY <1>3, <2>1
  <2> HIDE DEF q, w
  <2> QED BY <2>1, <2>2 DEF Last
<1> HIDE DEF w, q
<1>6. Len(WrittenChain(w)) = 1 /\ WrittenChain(w)[1] = Written(w)
  BY <1>4, <1>5, WrittenChainIs
<1>7. q.kind = "table"
  <2>1. 1 \in 1..Len(w.chain) /\ 1 <= Len(chain)
    BY <1>0, <1>5
  <2>2. w.chain[1].kind = chain[1].kind
    BY <1>3, <2>1 DEF Arrived, Going
  <2> QED BY <1>5, <2>2
<1>8. Written(w).table = q.table /\ Written(w).currentBlock = q.currentBlock /\ Written(w).finished = q.finished
  <2>1. Wrote(w, Written(w))
    BY <1>4, <1>5, WrittenIs
  <2> QED BY <1>5, <1>7, <2>1 DEF Wrote
<1>9. Len(r) = 1 /\ Same(r[1], WrittenChain(w)[1])
  <2>1. r # <<>> /\ r \in Seq(Parser) /\ Len(r) <= 1 /\ \A i \in 1..Len(r) : Same(r[i], WrittenChain(w)[i])
    BY <1>4, <1>6 DEF Trim
  <2>2. Len(r) \in Nat /\ Len(r) # 0 /\ Len(r) <= 1
    BY <2>1
  <2>3. Len(r) = 1
    <3>1. \A n \in Nat : n # 0 /\ n <= 1 => n = 1
      OBVIOUS
    <3> QED BY <2>2, <3>1, Zenon
  <2> QED BY <2>1, <2>3
<1> QED BY <1>4, <1>5, <1>6, <1>8, <1>9 DEF Same, r, q, w

\* A separator without a row stays one.
LEMMA RowlessGrows ==
  ASSUME NEW lines \in Seq(Seq(Tokens)), NEW line, Rowless(lines)
  PROVE  Rowless(Append(lines, line))
<1>1. PICK i \in 2..Len(lines) : lines[i] = Separator /\ lines[i - 1] \in {Separator, <<"|", "table>">>}
  BY DEF Rowless
<1>2. /\ Len(Append(lines, line)) = Len(lines) + 1 /\ i \in 2..Len(lines) + 1
      /\ Append(lines, line)[i] = lines[i] /\ Append(lines, line)[i - 1] = lines[i - 1]
  OBVIOUS
<1> QED BY <1>1, <1>2 DEF Rowless

\* Past the end only after a separator that follows no row.
LEMMA InRange ==
  ASSUME Shape, Ahead, phase = "reading", block # <<>>, NEW line, OutOfRange(block[1], line)
  PROVE  Rowless(read)
<1> DEFINE p == block[1]
<1>1. p \in Parser /\ p.kind = "table"
  BY DEF Shape, Formed, OutOfRange, IsRow
<1>2. p.currentBlock >= Len(Grown(p)) /\ p.currentBlock \in Nat /\ Len(p.table) \in Nat /\ p.table \in Seq(Rows)
  BY <1>1 DEF OutOfRange, Parser, Rows
<1>3. /\ Len(Grown(p)) \in Nat
      /\ \/ Grown(p) = p.table /\ Len(p.table) >= p.currentBlock + 1
         \/ Grown(p) = Append(p.table, <<>>) /\ Len(p.table) < p.currentBlock + 1
  BY <1>1, GrownTyped
<1>4. Len(Append(p.table, <<>>)) = Len(p.table) + 1
  BY <1>2
<1> HIDE DEF p
<1>5. ~(p.currentBlock <= Len(p.table))
  BY <1>2, <1>3, <1>4
<1> QED BY <1>1, <1>5 DEF Ahead, p

\* A line read keeps the table's place for the next row.
LEMMA AheadKept ==
  ASSUME Shape, Ahead, NEW s \in doc.shapes, ReadLine(Numbered(s))
  PROVE  Ahead' /\ (phase' = "undefined" => Rowless(read'))
<1> DEFINE line == Numbered(s)
<1>1. /\ line \in Seq(Tokens) /\ line \in Line /\ read' = Append(read, line) /\ phase = "reading"
      /\ Ignored(line) \/ (phase' = phase /\ \E chain : TakenBy(chain, line)) \/ Lost(line)
  BY LineRead
<1> HIDE DEF line
<1>2. read \in Seq(Seq(Tokens)) /\ output \in Line
  BY DEF Shape
<1>3. Last(read') = line /\ read' # <<>>
  BY <1>1, <1>2 DEF Last
<1>4. Rowless(read) => Rowless(read')
  BY <1>1, <1>2, RowlessGrows
<1>5. CASE Ignored(line)
  BY <1>1, <1>5 DEF Ignored, Ahead
<1>6. CASE Lost(line)
  <2>1. Rowless(read')
    BY <1>1, <1>4, <1>6, InRange DEF Lost
  <2> QED BY <2>1 DEF Ahead, Rowless
<1>7. CASE phase' = phase /\ \E chain : TakenBy(chain, line)
  <2>1. PICK chain : TakenBy(chain, line)
    BY <1>7
  <2>2. Standing(chain, line) /\ Take(AddLine(chain, line))
    BY <2>1 DEF TakenBy
  <2> DEFINE r == AddLine(chain, line)
             q == AddTableLine(chain[1], line)
             p == chain[1]
  <2>3. r[1].kind = p.kind /\ (block' = <<>> \/ (~r[1].finished /\ block' = r))
    BY <1>2, <2>2, TakenIs
  <2>4. phase' # "undefined"
    BY <1>1, <1>7
  <2> SUFFICES ASSUME ~r[1].finished, block' = r, p.kind = "table"
               PROVE  \/ Rowless(read')
                      \/ /\ r[1].currentBlock <= Len(r[1].table)
                         /\ r[1].currentBlock = Len(r[1].table) => line \in {Separator, <<"|", "table>">>}
    <3> HIDE DEF r, p
    <3> QED BY <1>3, <2>3, <2>4 DEF Ahead, Rowless
  <2>5. /\ r[1].table = q.table /\ r[1].currentBlock = q.currentBlock /\ r[1].finished = q.finished
    BY <2>2, TableAlone
  <2> HIDE DEF r
  <2>6. p \in Parser /\ line \in Line /\ ~OutOfRange(p, line)
    BY <2>2 DEF Standing
  <2>7. Ready(p, line)
    <3>1. CASE Formed(chain)
      <4>1. chain \in Seq(Parser) /\ chain # <<>> /\ 1 \in 1..Len(chain)
        BY <2>2 DEF Standing
      <4> QED BY <2>6, <3>1, <4>1 DEF Ready, Formed
    <3>2. CASE \E k \in Kinds : chain = <<NewParser(k)>> /\ IsStartingLine(k, line)
      <4>1. PICK k \in Kinds : chain = <<NewParser(k)>> /\ IsStartingLine(k, line)
        BY <3>2
      <4>2. p = NewParser(k) /\ p.kind = k /\ ~p.started /\ ~p.finished
        BY <4>1, Made
      <4> HIDE DEF p
      <4> QED BY <2>6, <4>1, <4>2 DEF Ready
    <3> QED BY <2>2, <3>1, <3>2 DEF Standing
  <2>8. TableOpens(p, q) \/ TableTurns(p, line, q) \/ TableCloses(p, line, q) \/ TableGoes(p, line, q)
    BY <2>6, <2>7, TableParsed
  <2>9. p.table \in Seq(Rows) /\ p.currentBlock \in Nat /\ Len(p.table) \in Nat
    BY <2>6 DEF Parser, Rows
  <2>10. CASE TableOpens(p, q)
    <3>1. ~p.started /\ q.table = p.table /\ q.currentBlock = p.currentBlock
      BY <2>10 DEF TableOpens, Flagged
    <3>2. p = NewParser("table") /\ line = <<"|", "table>">>
      BY <2>7, <3>1 DEF Ready, IsStartingLine
    <3>3. p.table = <<>> /\ p.currentBlock = 0
      BY <2>6, <3>2, Made DEF Parser
    <3> HIDE DEF p, q
    <3> QED BY <2>5, <3>1, <3>2, <3>3
  <2>11. p.started => \/ Rowless(read)
                      \/ /\ p.currentBlock <= Len(p.table)
                         /\ p.currentBlock = Len(p.table) => read # <<>> /\ Last(read) \in {Separator, <<"|", "table>">>}
    <3> SUFFICES ASSUME p.started PROVE chain = block /\ block # <<>>
      BY <1>1 DEF Ahead
    <3>1. \A k \in Kinds : chain # <<NewParser(k)>>
      <4> SUFFICES ASSUME NEW k \in Kinds, chain = <<NewParser(k)>> PROVE FALSE
        OBVIOUS
      <4> QED BY Made
    <3>2. chain # <<>>
      BY <2>2 DEF Standing
    <3> QED BY <2>1, <3>1, <3>2 DEF TakenBy
  <2> HIDE DEF p, q
  <2>12. CASE TableTurns(p, line, q)
    <3>1. p.started /\ line = Separator /\ q.table = p.table /\ q.currentBlock = p.currentBlock + 1
      BY <2>12 DEF TableTurns
    <3>2. CASE Rowless(read)
      BY <1>4, <3>2
    <3>3. CASE ~Rowless(read) /\ p.currentBlock = Len(p.table)
      <4>1. read # <<>> /\ Last(read) \in {Separator, <<"|", "table>">>} /\ Len(read) \in Nat /\ Len(read) # 0
        BY <1>2, <2>11, <3>1, <3>3
      <4>2. /\ Len(read') = Len(read) + 1 /\ read'[Len(read) + 1] = line /\ read'[Len(read)] = read[Len(read)]
        BY <1>1, <1>2, <4>1
      <4>3. Len(read) + 1 \in 2..Len(read') /\ (Len(read) + 1) - 1 = Len(read)
        BY <4>1, <4>2
      <4>4. read'[(Len(read) + 1) - 1] \in {Separator, <<"|", "table>">>}
        BY <4>1, <4>2, <4>3 DEF Last
      <4>5. read'[Len(read) + 1] = Separator
        BY <3>1, <4>2
      <4>6. Rowless(read')
        BY <4>3, <4>4, <4>5, Zenon DEF Rowless
      <4> QED BY <4>6
    <3>4. CASE ~Rowless(read) /\ p.currentBlock # Len(p.table)
      BY <2>5, <2>9, <2>11, <3>1, <3>4
    <3> QED BY <3>2, <3>3, <3>4
  <2>13. CASE TableCloses(p, line, q)
    BY <2>5, <2>13 DEF TableCloses
  <2>14. CASE TableGoes(p, line, q)
    <3>1. p.started /\ IsRow(p, line) /\ q.currentBlock = p.currentBlock /\ Len(q.table) = Len(Grown(p))
      BY <2>14 DEF TableGoes
    <3>2. ~(p.currentBlock >= Len(Grown(p))) /\ Len(Grown(p)) \in Nat
      BY <2>6, <3>1, GrownTyped DEF OutOfRange
    <3> QED BY <2>5, <2>9, <3>1, <3>2
  <2> QED BY <2>8, <2>10, <2>12, <2>13, <2>14
<1> QED BY <1>1, <1>5, <1>6, <1>7

\* RowsComeFirst: TableParser indexes past the end of its vector only when one of its
\* separators has no row before it, for documents of any lines and length.
THEOREM RowsComeFirst == Spec => []RowsFirst
<1> DEFINE I == Shape /\ Ahead /\ RowsFirst
<1>1. Init => I
  BY EmptyLine DEF Init, Shape, Formed, Ahead, RowsFirst
<1>2. Shape /\ Shape' /\ Ahead /\ RowsFirst /\ [Next]_vars => Ahead' /\ RowsFirst'
  <2> SUFFICES ASSUME Shape, Shape', Ahead, RowsFirst, [Next]_vars PROVE Ahead' /\ RowsFirst'
    OBVIOUS
  <2>1. ASSUME NEW s \in doc.shapes, ReadLine(Numbered(s)) PROVE Ahead' /\ RowsFirst'
    <3>1. Ahead' /\ (phase' = "undefined" => Rowless(read'))
      BY <2>1, AheadKept
    <3> QED BY <3>1 DEF RowsFirst, Rowless
  <2>2. CASE EndOfInput
    <3>1. /\ read' = read
          /\ \/ block' = <<>> /\ phase' = "returned"
             \/ phase' = "returned" /\ block # <<>> /\ TakenBy(block, <<>>)
             \/ Lost(<<>>)
      BY <2>2, InputEnded
    <3>2. CASE block' = <<>> /\ phase' = "returned"
      BY <3>2 DEF Ahead, RowsFirst
    <3>3. CASE Lost(<<>>)
      <4>1. Rowless(read') /\ block' = block
        BY <2>2, <3>1, <3>3, InRange, InputEnded DEF Lost
      <4> QED BY <4>1 DEF Ahead, RowsFirst, Rowless
    <3>4. CASE phase' = "returned" /\ block # <<>> /\ TakenBy(block, <<>>)
      BY <3>4 DEF Ahead, RowsFirst
    <3> QED BY <3>1, <3>2, <3>3, <3>4
  <2>3. CASE UNCHANGED vars
    BY <2>3 DEF Ahead, RowsFirst, vars
  <2> QED BY <2>1, <2>2, <2>3 DEF Next, Done
<1>3. Spec => []Shape
  BY ShapeHolds
<1> QED BY <1>1, <1>2, <1>3, PTL DEF Spec

-----------------------------------------------------------------------------
(* What ends a list. *)

EndMarks == {"</label>", "</li>"}
ListMarks == {"<ul>", "<ol>"}

\* A line that begins with something else does not match a mark.
LEMMA UnmarkedMark ==
  ASSUME NEW A, NEW mark \in Seq(A), mark # <<>>, NEW line \in Line, line # <<>> => line[1] # mark[1]
  PROVE  ~Matches(mark, line)
BY Unstripped DEF Matches

\* No list starts with a tag that ends or opens one, and no block with nothing.
LEMMA NoList ==
  ASSUME NEW line \in Line, line # <<>> => line[1] \notin MarkStarts, NEW k \in ListKinds
  PROVE  ~IsStartingLine(k, line)
<1>1. ASSUME NEW m \in Mark, m # <<>>, m[1] \in MarkStarts PROVE ~Matches(m, line)
  <2>1. line # <<>> => line[1] # m[1]
    BY <1>1
  <2> QED BY <1>1, <2>1, UnmarkedMark DEF Mark
<1>2. CASE k = "checklist"
  <2>1. IsStartingLine(k, line) <=> \E m \in Checks : Matches(m, line)
    BY <1>2 DEF IsStartingLine
  <2>2. ASSUME NEW m \in Checks PROVE m \in Mark /\ m # <<>> /\ m[1] \in MarkStarts
    <3> DEFINE S == {"-", "+", "*", "1.", ">", " ", "[", "|", "]"} \cup Boxes
    <3>1. "-" \in S /\ " " \in S /\ "[" \in S /\ "|" \in S /\ "]" \in S /\ Boxes \subseteq S
      OBVIOUS
    <3>4. ASSUME NEW T, NEW x \in T, NEW y \in T, NEW z \in T, NEW v \in T, NEW w \in T
          PROVE  <<x, y, z, y>> \in Seq(T) /\ <<x, y, z, v, w, y>> \in Seq(T)
      OBVIOUS
    <3> HIDE DEF S
    <3>2. CASE m = <<"-", " ", "[", "|", "]", " ">>
      <4>1. m \in Seq(S)
        BY <3>1, <3>2, <3>4
      <4>2. m # <<>> /\ m[1] \in MarkStarts
        BY <3>2 DEF MarkStarts
      <4> QED BY <4>1, <4>2 DEF Mark, S
    <3>3. CASE \E b \in Boxes : m = <<"-", " ", b, " ">>
      <4>1. PICK b \in S : m = <<"-", " ", b, " ">>
        BY <3>1, <3>3
      <4>2. m \in Seq(S)
        BY <3>1, <3>4, <4>1
      <4>3. m # <<>> /\ m[1] \in MarkStarts
        BY <4>1 DEF MarkStarts
      <4> QED BY <4>2, <4>3 DEF Mark, S
    <3> QED BY <3>2, <3>3, Zenon DEF Checks
  <2> QED BY <1>1, <2>1, <2>2
<1>3. CASE k = "ordered"
  <2>1. IsStartingLine(k, line) <=> Matches(<<"1.", " ">>, line)
    BY <1>3 DEF IsStartingLine
  <2>2. <<"1.", " ">> \in Mark /\ <<"1.", " ">> # <<>> /\ <<"1.", " ">>[1] \in MarkStarts
    BY MarksAre
  <2> QED BY <1>1, <2>1, <2>2
<1>4. CASE k = "unordered"
  <2>1. IsStartingLine(k, line) <=> \E m \in Bullets : Matches(m, line)
    BY <1>4 DEF IsStartingLine
  <2>2. \A m \in Bullets : m \in Mark /\ m # <<>> /\ m[1] \in MarkStarts
    BY MarksAre
  <2> QED BY <1>1, <2>1, <2>2
<1> QED BY <1>2, <1>3, <1>4 DEF ListKinds

\* The tags of lists are no marks of lists, nor blanks.
LEMMA TagsAreNoMarks ==
  ASSUME NEW t \in EndMarks \cup ListMarks
  PROVE  t \notin MarkStarts /\ t \notin {" ", "cr"}
BY DEF EndMarks, ListMarks, MarkStarts, Boxes

\* An empty line opens no block.
LEMMA EmptyStartsNothing == ASSUME NEW k \in Kinds PROVE ~IsStartingLine(k, <<>>)
<1>1. ASSUME NEW n \in 1..6 PROVE ~Matches(Hashes(n), <<>>)
  <2>1. Hashes(n) \in Seq({"#", " "}) /\ Len(Hashes(n)) = n + 1
    <3>1. n + 1 \in Nat
      OBVIOUS
    <3>2. \A i \in 1..n + 1 : (IF i <= n THEN "#" ELSE " ") \in {"#", " "}
      OBVIOUS
    <3>3. [i \in 1..n + 1 |-> IF i <= n THEN "#" ELSE " "] \in [1..n + 1 -> {"#", " "}]
      BY <3>2, Zenon
    <3> QED BY <3>1, <3>3, TableOf DEF Hashes
  <2>2. Hashes(n) # <<>>
    <3>1. n + 1 # 0
      OBVIOUS
    <3> QED BY <2>1, <3>1
  <2> QED BY <2>1, <2>2, EmptyLine, UnmarkedMark
<1>2. ~Matches(<<">">>, <<>>)
  BY MarksAre, EmptyLine, UnmarkedMark DEF Mark
<1>3. k \in ListKinds => ~IsStartingLine(k, <<>>)
  BY EmptyLine, NoList
<1>4. <<"fence">> # <<>> /\ <<"---">> # <<>> /\ <<"|", "table>">> # <<>>
  OBVIOUS
<1>5. CASE k \in ListKinds
  BY <1>3, <1>5
<1>6. CASE k \notin ListKinds
  <2>1. k \in {"code", "headline", "hr", "quote", "table", "paragraph"}
    BY <1>6, KindNames DEF ListKinds
  <2> QED BY <1>1, <1>2, <1>4, <2>1 DEF IsStartingLine
<1> QED BY <1>5, <1>6

\* What a line begins with is found in it.
LEMMA FoundInFront ==
  ASSUME NEW e \in Line, NEW t \in Line
  PROVE  Finds(e, e \o t)
<1>1. /\ Len(e) \in Nat /\ Len(t) \in Nat /\ Len(e \o t) = Len(e) + Len(t)
      /\ 0 \in 0..Len(e \o t) - Len(e)
  BY DEF Line
<1>2. SubSeq(e \o t, 0 + 1, 0 + Len(e)) = e
  <2>1. SubSeq(e \o t, 1, Len(e)) = e
    BY SeqEqual DEF Line
  <2>2. 0 + 1 = 1 /\ 0 + Len(e) = Len(e)
    BY <1>1
  <2> QED BY <2>1, <2>2
<1> QED BY <1>1, <1>2, Zenon DEF Finds

\* A list ends when the line begins with its parent's tags.
LEMMA EndsWithParent ==
  ASSUME NEW p \in Parser, NEW k \in ListKinds, p.kind \in ChildKinds(k), p.started,
         NEW e \in {NextItem(k), CloseList(k)}, NEW t \in Line
  PROVE  LET line == e \o t
         IN  /\ p.kind \in ListKinds /\ line \in Line /\ line # <<>> /\ line[1] \in EndMarks
             /\ Closes(p, line, parseList(p, line)) /\ Unmarked(p.kind, line) = line
<1> DEFINE line == e \o t
<1>1. e \in Line /\ e # <<>> /\ e[1] \in EndMarks
  BY ListTags DEF EndMarks
<1>2. line \in Line /\ line # <<>> /\ line[1] \in EndMarks
  BY <1>1, Joined
<1>3. p.kind \in ListKinds /\ (p.kind = "checklist" <=> k = "checklist")
  BY Children DEF ListKinds
<1>10. Finds(e, line)
  BY <1>1, FoundInFront
<1> HIDE DEF line
<1>4. line[1] \notin MarkStarts /\ line[1] \notin {" ", "cr"}
  BY <1>2, TagsAreNoMarks
<1>5. Unmarked(p.kind, line) = line
  BY <1>2, <1>3, <1>4, MarksTyped
<1>6. Indentation(line) = 0
  BY <1>2, <1>4, IndentationIs
<1>7. e \in Ends(p.kind)
  <2>1. CASE k = "checklist"
    BY <1>3, <2>1 DEF Ends
  <2>2. CASE k # "checklist"
    <3>1. k \in {"ordered", "unordered"} /\ p.kind # "checklist"
      BY <1>3, <2>2 DEF ListKinds
    <3>2. NextItem(k) = NextItem(p.kind)
      BY <1>3, <2>2 DEF NextItem
    <3>3. Ends(p.kind) = {NextItem(p.kind), CloseList("ordered"), CloseList("unordered")}
      BY <3>1 DEF Ends
    <3> QED BY <3>1, <3>2, <3>3
  <2> QED BY <2>1, <2>2
<1>8. \E f \in Ends(p.kind) : Finds(f, Unmarked(p.kind, line))
  BY <1>5, <1>7, <1>10
<1>9. ~Opens(p, line, parseList(p, line)) /\ ~Shifts(p, line, parseList(p, line)) /\ ~Goes(p, line, parseList(p, line))
  BY <1>6, <1>8 DEF Opens, Shifts, Goes
<1> QED BY <1>2, <1>3, <1>5, <1>9, ListStep DEF line

-----------------------------------------------------------------------------
(* The empty line. *)

Ended(p, n) == p.kind = "quote" \/ p.finished \/ (n = 1 /\ p.kind \in {"code", "table"})

Emptied(w) ==
  /\ \A i \in 1..Len(w.chain) : Ended(w.chain[i], Len(w.chain))
  /\ w.chain # <<>> /\ Last(w.chain).kind = "quote" => w.given = <<>> /\ w.line = <<>>
  /\ w.chain # <<>> /\ Last(w.chain).kind \in ListKinds =>
       \E t \in Line : w.line = CloseList(Last(w.chain).kind) \o t

\* A list given an empty line is ended by it.
LEMMA ListEndsEmpty ==
  ASSUME NEW p \in Parser, p.kind \in ListKinds, p.started
  PROVE  Closes(p, <<>>, parseList(p, <<>>)) /\ Unmarked(p.kind, <<>>) = <<>>
<1>1. Unmarked(p.kind, <<>>) = <<>>
  BY EmptyLine, MarksTyped
<1>2. Indentation(<<>>) = 0
  <2>1. Indentation(<<>>) \in 0..Len(<<>>)
    BY EmptyLine, IndentationIs
  <2> QED BY <2>1
<1>3. /\ ~Opens(p, <<>>, parseList(p, <<>>)) /\ ~Shifts(p, <<>>, parseList(p, <<>>))
      /\ ~Goes(p, <<>>, parseList(p, <<>>))
  BY <1>1, <1>2 DEF Opens, Shifts, Goes
<1> QED BY <1>1, <1>3, EmptyLine, ListStep

\* An empty line ends each parser it is handed to but quotes, and what a list
\* hands on for it begins with the tags that close the list.
LEMMA EmptyHanded ==
  ASSUME NEW chain, Standing(chain, <<>>), NEW w, Going(chain, <<>>, w), Emptied(w),
         NEW p, Receives(chain, w, p), NEW v, Handed(w, p, v)
  PROVE  Emptied(v)
<1> DEFINE b == parseBlock(p, w.line)
           n == Len(w.chain)
<1>0. /\ w \in Ways /\ w.chain \in Seq(Parser) /\ w.line \in Line /\ n \in Nat
      /\ Kept(b, p) /\ v.given = w.line /\ v.line = b.line /\ Last(v.chain) = b.p
      /\ Len(v.chain) = n + 1 /\ v.chain[n + 1] = b.p /\ \A i \in 1..n : v.chain[i] = w.chain[i]
      /\ p \in Parser /\ Ready(p, w.line) /\ b.p.kind = p.kind
      /\ w.chain # <<>> => p.kind \in Below(Last(w.chain).kind)
  <2>1. w \in Ways
    BY Zenon DEF Going
  <2>2. w.chain \in Seq(Parser) /\ w.line \in Line /\ n \in Nat
    BY <2>1 DEF Ways
  <2>3. /\ Kept(b, p) /\ v.given = w.line /\ v.line = b.line /\ Last(v.chain) = b.p
        /\ Len(v.chain) = n + 1 /\ v.chain[n + 1] = b.p /\ \A i \in 1..n : v.chain[i] = w.chain[i]
    BY Zenon DEF Handed
  <2>4. p \in Parser /\ Ready(p, w.line) /\ (w.chain # <<>> => p.kind \in Below(Last(w.chain).kind))
    BY Zenon DEF Receives
  <2>5. b.p.kind = p.kind
    BY <2>3 DEF Kept
  <2> QED BY <2>1, <2>2, <2>3, <2>4, <2>5
<1>10. w.chain # <<>> => Last(w.chain).kind = "quote" \/ Last(w.chain).kind \in ListKinds
  <2> SUFFICES ASSUME w.chain # <<>> PROVE Last(w.chain).kind = "quote" \/ Last(w.chain).kind \in ListKinds
    OBVIOUS
  <2>1. Last(w.chain) \in Parser
    BY <1>0, LastIn
  <2>2. Last(w.chain).kind \in Kinds /\ ChildKinds(Last(w.chain).kind) # {}
    BY <1>0, <2>1 DEF Parser, Below
  <2> QED BY <2>2, Children, KindNames DEF ListKinds
<1>1. \/ w.line = <<>> /\ (w.chain = <<>> \/ Last(w.chain).kind = "quote")
      \/ /\ w.chain # <<>> /\ Last(w.chain).kind \in ListKinds
         /\ \E t \in Line : w.line = CloseList(Last(w.chain).kind) \o t
  <2>1. CASE w.chain = <<>>
    <3>1. w.line = <<>>
      BY <2>1, Zenon DEF Going
    <3> QED BY <2>1, <3>1
  <2>2. CASE w.chain # <<>>
    BY <1>10, <2>2 DEF Emptied
  <2> QED BY <2>1, <2>2
<1>2. w.line # <<>> => w.line[1] \in EndMarks /\ w.line[1] \notin MarkStarts
  <2> SUFFICES ASSUME w.line # <<>> PROVE w.line[1] \in EndMarks
    BY TagsAreNoMarks
  <2>1. PICK t \in Line : w.line = CloseList(Last(w.chain).kind) \o t
    BY <1>1
  <2> QED BY <1>1, <2>1, ListTags, Joined DEF EndMarks
<1> HIDE DEF b
\* An empty line, or one of closing tags, makes no new parser.
<1>3. p.started
  <2> SUFFICES ASSUME ~p.started PROVE FALSE
    OBVIOUS
  <2>1. IsStartingLine(p.kind, w.line) /\ p.kind \in Kinds
    BY <1>0 DEF Ready, Parser
  <2>2. CASE w.line = <<>>
    BY <2>1, <2>2, EmptyStartsNothing
  <2>3. CASE w.line # <<>>
    <3>1. p.kind \in ListKinds
      BY <1>0, <1>1, <2>3, Children DEF Below, ListKinds
    <3> QED BY <1>0, <1>2, <2>1, <3>1, NoList
  <2> QED BY <2>2, <2>3
<1>4. p.kind \notin {"headline", "hr"}
  BY <1>0, <1>3 DEF Ready
<1>5. /\ Ended(b.p, n + 1)
      /\ p.kind = "quote" => v.given = <<>> /\ v.line = <<>>
      /\ p.kind \in ListKinds => \E t \in Line : v.line = CloseList(p.kind) \o t
  <2>1. CASE w.line = <<>>
    <3>1. CASE p.kind = "quote"
      <4>1. QuoteText(<<>>) = <<>>
        <5>1. Strip(<<">", " ">>, <<>>) = <<>>
          BY MarksAre, EmptyLine, Unstripped DEF Mark
        <5>2. Strip(<<">">>, <<>>) = <<>>
          BY MarksAre, EmptyLine, Unstripped DEF Mark
        <5> QED BY <5>1, <5>2 DEF QuoteText
      <4>2. b.line = <<>>
        <5>1. b = parseQuote(p, <<>>)
          BY <1>0, <2>1, <3>1, ParsedAs DEF b
        <5>2. Ready(p, <<>>) /\ p \in Parser
          BY <1>0, <2>1
        <5>3. parseQuote(p, <<>>).line = IF QuoteText(<<>>) = <<>> THEN <<>> ELSE Append(QuoteText(<<>>), " ")
          BY <3>1, <5>2, EmptyLine, QuoteParsed
        <5> QED BY <4>1, <5>1, <5>3
      <4> QED BY <1>0, <2>1, <3>1, <4>2 DEF Ended, ListKinds
    <3>2. CASE p.kind \in ListKinds
      <4>1. b = parseList(p, <<>>)
        BY <1>0, <2>1, <3>2, ParsedAs DEF b
      <4>2. Closes(p, <<>>, b) /\ Unmarked(p.kind, <<>>) = <<>>
        BY <1>0, <1>3, <3>2, <4>1, ListEndsEmpty
      <4>3. b.p.finished /\ b.line = CloseList(p.kind) \o <<>>
        BY <4>2 DEF Closes, Flagged
      <4> QED BY <1>0, <3>2, <4>3, EmptyLine DEF Ended, ListKinds
    <3>3. CASE p.kind = "paragraph"
      <4>1. ParagraphOpens(p, <<>>, b) \/ ParagraphGoes(p, <<>>, b) \/ ParagraphCloses(p, <<>>, b)
        BY <1>0, <2>1, <3>3, EmptyLine, ParsedAs, ParagraphParsed DEF b
      <4>2. b.p.finished
        BY <1>3, <4>1 DEF ParagraphOpens, ParagraphGoes, ParagraphCloses
      <4> QED BY <1>0, <3>3, <4>2 DEF Ended, ListKinds
    <3>4. CASE p.kind \in {"code", "table"}
      <4>1. w.chain = <<>>
        BY <1>0, <3>4 DEF Below
      <4>2. n = 0
        BY <4>1
      <4> QED BY <1>0, <3>4, <4>2 DEF Ended, ListKinds
    <3> QED BY <1>0, <1>4, <3>1, <3>2, <3>3, <3>4, ParsedAs
  <2>2. CASE w.line # <<>>
    <3>1. w.chain # <<>> /\ Last(w.chain).kind \in ListKinds
      BY <1>1, <2>2
    <3>2. PICK t \in Line : w.line = CloseList(Last(w.chain).kind) \o t
      BY <1>1, <2>2
    <3>3. p.kind \in ChildKinds(Last(w.chain).kind)
      BY <1>0, <3>1 DEF Below
    <3>4. p.kind \in ListKinds /\ Closes(p, w.line, parseList(p, w.line)) /\ Unmarked(p.kind, w.line) = w.line
      <4> DEFINE k == Last(w.chain).kind
      <4>1. k \in ListKinds /\ p.kind \in ChildKinds(k) /\ w.line = CloseList(k) \o t /\ p \in Parser
        BY <1>0, <3>1, <3>2, <3>3
      <4>2. CloseList(k) \in {NextItem(k), CloseList(k)}
        OBVIOUS
      <4> HIDE DEF k
      <4> QED BY <1>3, <4>1, <4>2, EndsWithParent
    <3>5. b = parseList(p, w.line)
      BY <1>0, <3>4, ParsedAs DEF b
    <3>6. b.p.finished /\ b.line = CloseList(p.kind) \o w.line
      BY <3>4, <3>5 DEF Closes, Flagged
    <3> QED BY <1>0, <3>4, <3>6 DEF Ended, ListKinds
  <2> QED BY <2>1, <2>2
<1>6. \A i \in 1..n + 1 : Ended(v.chain[i], n + 1)
  <2> SUFFICES ASSUME NEW i \in 1..n + 1 PROVE Ended(v.chain[i], n + 1)
    OBVIOUS
  <2>1. CASE i = n + 1
    BY <1>0, <1>5, <2>1
  <2>2. CASE i # n + 1
    <3>1. i \in 1..n /\ v.chain[i] = w.chain[i] /\ Ended(w.chain[i], n)
      BY <1>0, <2>2 DEF Emptied
    <3>2. n = 1 => w.chain[i] = Last(w.chain) /\ w.chain # <<>>
      BY <1>0, <3>1 DEF Last
    <3>3. n = 1 => w.chain[i].kind \notin {"code", "table"}
      BY <1>10, <3>2 DEF ListKinds
    <3> QED BY <3>1, <3>3 DEF Ended
  <2> QED BY <2>1, <2>2
<1> QED BY <1>0, <1>5, <1>6 DEF Emptied

\* After an empty line quotes alone are open, or one code block or table.
LEMMA EmptyTaken ==
  ASSUME NEW chain, Standing(chain, <<>>)
  PROVE  LET r == AddLine(chain, <<>>)
         IN  ~r[1].finished => \/ \A i \in DOMAIN r : r[i].kind = "quote"
                               \/ Len(r) = 1 /\ r[1].kind \in {"code", "table"}
<1> DEFINE D == {w \in Ways : Emptied(w)}
           w == HandedDown(chain, <<>>)
           c == WrittenChain(w)
           r == AddLine(chain, <<>>)
<1>1. Begin(<<>>) \in D
  <2>1. Begin(<<>>) \in Ways
    BY SetsOut DEF Going
  <2>2. Begin(<<>>).chain = <<>>
    BY DEF Begin
  <2> QED BY <2>1, <2>2 DEF Emptied
<1>2. ASSUME NEW v \in D, NEW p, NEW u, Going(chain, <<>>, v), Receives(chain, v, p), Handed(v, p, u)
      PROVE  u \in D
  <2>1. Emptied(u)
    BY <1>2, EmptyHanded
  <2>2. u \in Ways
    BY <1>2 DEF Handed
  <2> QED BY <2>1, <2>2
<1>3. w \in D
  <2> HIDE DEF D
  <2> QED BY <1>1, <1>2, Descent
<1>4. /\ w \in Ways /\ w.chain # <<>> /\ Emptied(w) /\ Trim(c, r)
  BY <1>3, Left DEF Arrived
<1> HIDE DEF w, r, c
<1>5. /\ c \in Seq(Parser) /\ Len(c) = Len(w.chain)
      /\ \A i \in 1..Len(w.chain) : i # Len(w.chain) => c[i] = w.chain[i]
      /\ c[Len(w.chain)] = Written(w)
      /\ \A i \in 1..Len(w.chain) : c[i].kind = w.chain[i].kind
  BY <1>4, WrittenChainIs DEF c
<1>6. Written(w).finished = Last(w.chain).finished \/ Written(w).finished
  BY <1>4, WrittenIs DEF Wrote
<1>7. Len(w.chain) \in Nat /\ Len(w.chain) # 0 /\ Last(w.chain) = w.chain[Len(w.chain)]
  BY <1>4 DEF Ways, Last
<1>8. \A i \in 1..Len(c) : w.chain[i].finished => c[i].finished
  BY <1>5, <1>6, <1>7
<1>9. \A i \in 1..Len(c) : c[i].kind = "quote" \/ c[i].finished \/ (Len(c) = 1 /\ c[i].kind \in {"code", "table"})
  BY <1>4, <1>5, <1>8 DEF Emptied, Ended
<1>10. /\ r \in Seq(Parser) /\ r # <<>> /\ Len(r) \in Nat /\ Len(r) # 0 /\ Len(r) <= Len(c) /\ DOMAIN r = 1..Len(r)
       /\ \A i \in 1..Len(r) : Same(r[i], c[i])
       /\ \A i \in 2..Len(r) : ~r[i].finished
  BY <1>4 DEF Trim
<1>11. \A i \in 1..Len(r) : i \in 1..Len(c) /\ r[i].kind = c[i].kind /\ r[i].finished = c[i].finished
  BY <1>5, <1>7, <1>10 DEF Same
<1>12. ASSUME ~r[1].finished
       PROVE  \/ \A i \in DOMAIN r : r[i].kind = "quote"
              \/ Len(r) = 1 /\ r[1].kind \in {"code", "table"}
  <2>1. \A i \in 1..Len(r) : ~r[i].finished
    BY <1>10, <1>12
  <2>2. \A i \in 1..Len(r) : r[i].kind = "quote" \/ (Len(c) = 1 /\ r[i].kind \in {"code", "table"})
    BY <1>9, <1>11, <2>1
  <2>3. CASE Len(c) = 1
    <3>1. Len(r) = 1
      <4>1. \A n \in Nat : n # 0 /\ n <= 1 => n = 1
        OBVIOUS
      <4> QED BY <1>10, <2>3, <4>1, Zenon
    <3> QED BY <1>10, <2>2, <3>1
  <2>4. CASE Len(c) # 1
    BY <1>10, <2>2, <2>4
  <2> QED BY <2>3, <2>4
<1> QED BY <1>12 DEF r

\* What an empty line leaves open: the one that Parse adds at the end (parser.h:108)
\* ends as much as one within the document, and no more.
LeftOpen ==
  (phase = "returned" \/ (phase = "reading" /\ read # <<>> /\ Last(read) = <<>>)) =>
    \/ \A i \in DOMAIN block : block[i].kind = "quote"
    \/ Len(block) = 1 /\ block[1].kind \in {"code", "table"}

LEMMA WhatStaysOpen == Spec => []LeftOpen
<1>1. Init => LeftOpen
  BY DEF Init, LeftOpen
<1>2. Shape /\ LeftOpen /\ [Next]_vars => LeftOpen'
  <2> SUFFICES ASSUME Shape, LeftOpen, [Next]_vars PROVE LeftOpen'
    OBVIOUS
  <2> DEFINE Still(b) == \/ \A i \in DOMAIN b : b[i].kind = "quote"
                         \/ Len(b) = 1 /\ b[1].kind \in {"code", "table"}
  <2>0. Still(<<>>)
    OBVIOUS
  <2>8. ASSUME NEW chain, TakenBy(chain, <<>>) PROVE Still(block')
    <3>1. Standing(chain, <<>>) /\ Take(AddLine(chain, <<>>))
      BY <2>8 DEF TakenBy
    <3> DEFINE r == AddLine(chain, <<>>)
    <3>2. (r[1].finished /\ block' = <<>>) \/ (~r[1].finished /\ block' = r)
      BY <3>1, TakenIs DEF Shape
    <3>3. ~r[1].finished => Still(r)
      BY <3>1, EmptyTaken
    <3> HIDE DEF r, Still
    <3> QED BY <2>0, <3>2, <3>3
  <2>9. Still(block') => LeftOpen'
    BY DEF LeftOpen
  <2> HIDE DEF Still
  <2>1. ASSUME NEW s \in doc.shapes, ReadLine(Numbered(s)) PROVE LeftOpen'
    <3> DEFINE line == Numbered(s)
    <3>1. /\ line \in Seq(Tokens) /\ read' = Append(read, line) /\ phase = "reading"
          /\ Ignored(line) \/ (phase' = phase /\ \E chain : TakenBy(chain, line)) \/ Lost(line)
      BY <2>1, LineRead
    <3> HIDE DEF line
    <3>2. Last(read') = line
      BY <3>1 DEF Last, Shape
    <3>3. CASE line # <<>> /\ phase' = "reading"
      BY <3>2, <3>3 DEF LeftOpen
    <3>4. CASE Ignored(line)
      BY <2>0, <2>9, <3>4 DEF Ignored
    <3>5. CASE Lost(line)
      BY <3>5 DEF Lost, LeftOpen
    <3>6. CASE line = <<>> /\ \E chain : TakenBy(chain, line)
      BY <2>8, <2>9, <3>6
    <3> QED BY <3>1, <3>3, <3>4, <3>5, <3>6
  <2>2. CASE EndOfInput
    <3>1. \/ block' = <<>>
          \/ TakenBy(block, <<>>)
          \/ Lost(<<>>)
      BY <2>2, InputEnded
    <3>2. CASE block' = <<>>
      BY <2>0, <2>9, <3>2
    <3>3. CASE TakenBy(block, <<>>)
      BY <2>8, <2>9, <3>3
    <3>4. CASE Lost(<<>>)
      BY <3>4 DEF Lost, LeftOpen
    <3> QED BY <3>1, <3>2, <3>3, <3>4
  <2>3. CASE UNCHANGED vars
    BY <2>3 DEF LeftOpen, vars
  <2> QED BY <2>1, <2>2, <2>3 DEF Next, Done
<1>3. Spec => []Shape
  BY ShapeHolds
<1> QED BY <1>1, <1>2, <1>3, PTL DEF Spec

\* EmptyLineEndsBlocks: an empty line closes every paragraph and list however deep
\* they are nested: the closing tags a list hands to its child are what makes the
\* child end too.
THEOREM EmptyLineEndsBlocks == Spec => []EmptyLineEnds
<1>1. LeftOpen => EmptyLineEnds
  BY DEF LeftOpen, EmptyLineEnds
<1> QED BY <1>1, WhatStaysOpen, PTL

-----------------------------------------------------------------------------
(* The words of a line. *)

WordAt(x) == IF Contains(Words, x) THEN <<x>> ELSE <<>>

\* Three lines joined.
LEMMA Rejoined == \A u, v, w \in Line : u \o (v \o w) = (u \o v) \o w
BY SMT DEF Line

\* The words of nothing.
LEMMA WordsNothing == WordsOf(<<>>) = <<>>
<1> DEFINE f == [i \in DOMAIN <<>> |-> IF Contains(Words, <<>>[i]) THEN << <<>>[i] >> ELSE <<>>]
<1>1. WordsOf(<<>>) = FlattenSeq(f)
  BY DEF WordsOf
<1>2. f = <<>>
  OBVIOUS
<1> QED BY <1>1, <1>2, FlattenNothing

\* The words of a token more.
LEMMA WordsAppend ==
  ASSUME NEW s \in Line, NEW x \in Symbols
  PROVE  WordsOf(s) \in Line /\ WordAt(x) \in Line /\ WordsOf(Append(s, x)) = WordsOf(s) \o WordAt(x)
<1> DEFINE Each(l) == [i \in DOMAIN l |-> WordAt(l[i])]
           l == Append(s, x)
<1>0. \A y \in Symbols : WordAt(y) \in Line
  BY DEF WordAt, Line
<1>1. \A k : WordsOf(k) = FlattenSeq(Each(k))
  BY Zenon DEF WordsOf, WordAt
<1>2. /\ s \in Seq(Symbols) /\ l \in Seq(Symbols) /\ Len(l) = Len(s) + 1 /\ Len(s) \in Nat
      /\ \A i \in 1..Len(s) : l[i] = s[i]
      /\ l[Len(s) + 1] = x
  BY DEF Line
<1>3. ASSUME NEW k \in Seq(Symbols) PROVE Each(k) \in Seq(Line) /\ Len(Each(k)) = Len(k)
  <2>1. Len(k) \in Nat /\ DOMAIN k = 1..Len(k) /\ \A i \in 1..Len(k) : k[i] \in Symbols
    OBVIOUS
  <2>2. Each(k) \in [1..Len(k) -> Line]
    BY <1>0, <2>1
  <2> HIDE DEF Each
  <2> QED BY <2>1, <2>2, TableOf
<1>4. \A i \in 1..Len(s) : Each(s)[i] = Each(l)[i]
  BY <1>2
<1>5. Each(l)[Len(l)] = WordAt(x)
  BY <1>2
<1>6. Each(s) \in Seq(Line) /\ Each(l) \in Seq(Line) /\ Len(Each(s)) = Len(s) /\ Len(Each(l)) = Len(l)
  BY <1>2, <1>3
<1> HIDE DEF Each, l
<1>7. FlattenSeq(Each(l)) = FlattenSeq(Each(s)) \o Each(l)[Len(Each(l))]
  BY <1>2, <1>4, <1>6, FlattenLast DEF Line
<1>8. FlattenSeq(Each(s)) \in Line
  BY <1>6, FlattenType DEF Line
<1> QED BY <1>0, <1>1, <1>5, <1>6, <1>7, <1>8 DEF l

\* The words of a line are a line.
LEMMA WordsTyped == \A s \in Line : WordsOf(s) \in Line
<1> SUFFICES ASSUME NEW s \in Line PROVE WordsOf(s) \in Line
  OBVIOUS
<1>1. " " \in Symbols
  BY Literals, Zenon
<1> QED BY <1>1, WordsAppend

\* The words of two lines, joined.
LEMMA WordsJoin ==
  ASSUME NEW s \in Line, NEW t \in Line
  PROVE  WordsOf(s \o t) = WordsOf(s) \o WordsOf(t)
<1> DEFINE T == {u \in Line : WordsOf(s \o u) = WordsOf(s) \o WordsOf(u)}
<1>0. WordsOf(s) \in Line
  BY WordsTyped
<1>1. <<>> \in T
  <2>1. s \o <<>> = s /\ WordsOf(s) \o <<>> = WordsOf(s)
    BY <1>0 DEF Line
  <2> QED BY <2>1, EmptyLine, WordsNothing
<1>2. ASSUME NEW u \in T, NEW x \in Symbols PROVE Append(u, x) \in T
  <2>1. u \in Line /\ WordsOf(s \o u) = WordsOf(s) \o WordsOf(u)
    OBVIOUS
  <2>2. s \o Append(u, x) = Append(s \o u, x) /\ s \o u \in Line /\ Append(u, x) \in Line
    BY <2>1 DEF Line
  <2>3. WordsOf(Append(s \o u, x)) = WordsOf(s \o u) \o WordAt(x)
    BY <2>2, WordsAppend
  <2>4. /\ WordsOf(Append(u, x)) = WordsOf(u) \o WordAt(x)
        /\ WordsOf(u) \in Line /\ WordAt(x) \in Line
    BY <2>1, WordsAppend
  <2>5. WordsOf(s) \o (WordsOf(u) \o WordAt(x)) = (WordsOf(s) \o WordsOf(u)) \o WordAt(x)
    BY <1>0, <2>1, <2>4, WordsTyped, Rejoined
  <2> QED BY <2>1, <2>2, <2>3, <2>4, <2>5
<1>3. T = Line
  <2>1. T \in SUBSET Seq(Symbols)
    BY DEF Line
  <2> HIDE DEF T
  <2> QED BY <1>1, <1>2, <2>1, SequencesGrow DEF Line
<1> QED BY <1>3

\* No word, no words.
LEMMA NoWords ==
  ASSUME NEW s \in Line, \A i \in 1..Len(s) : ~Contains(Words, s[i])
  PROVE  WordsOf(s) = <<>>
<1> DEFINE T == {u \in Line : (\A i \in 1..Len(u) : ~Contains(Words, u[i])) => WordsOf(u) = <<>>}
<1>1. <<>> \in T
  BY EmptyLine, WordsNothing
<1>2. ASSUME NEW u \in T, NEW x \in Symbols PROVE Append(u, x) \in T
  <2>1. u \in Line
    OBVIOUS
  <2>2. /\ Append(u, x) \in Line /\ Len(Append(u, x)) = Len(u) + 1 /\ Len(u) \in Nat
        /\ \A i \in 1..Len(u) : Append(u, x)[i] = u[i]
        /\ Append(u, x)[Len(u) + 1] = x
    BY <2>1 DEF Line
  <2>3. WordsOf(Append(u, x)) = WordsOf(u) \o WordAt(x)
    BY <2>1, WordsAppend
  <2>4. ASSUME \A i \in 1..Len(u) + 1 : ~Contains(Words, Append(u, x)[i]) PROVE WordsOf(u) \o WordAt(x) = <<>>
    <3>1. WordsOf(u) = <<>>
      BY <2>2, <2>4
    <3>2. WordAt(x) = <<>>
      BY <2>2, <2>4 DEF WordAt
    <3> QED BY <3>1, <3>2
  <2> QED BY <2>2, <2>3, <2>4
<1>3. T = Line
  <2>1. T \in SUBSET Seq(Symbols)
    BY DEF Line
  <2> HIDE DEF T
  <2> QED BY <1>1, <1>2, <2>1, SequencesGrow DEF Line
<1> QED BY <1>3

\* Parts with the same words have the same words together.
LEMMA SameWords ==
  ASSUME NEW f \in Seq(Line), NEW g \in Seq(Line), Len(f) = Len(g),
         \A i \in 1..Len(f) : WordsOf(f[i]) = WordsOf(g[i])
  PROVE  WordsOf(FlattenSeq(f)) = WordsOf(FlattenSeq(g))
<1> DEFINE First(h, n) == SubSeq(h, 1, n)
           T == {n \in Nat : n <= Len(f) => WordsOf(FlattenSeq(First(f, n))) = WordsOf(FlattenSeq(First(g, n)))}
<1>0. Len(f) \in Nat /\ Len(g) \in Nat
  OBVIOUS
<1>1. 0 \in T
  <2>1. First(f, 0) = <<>> /\ First(g, 0) = <<>>
    BY SubSeqEmpty
  <2> QED BY <2>1
<1>4. ASSUME NEW h \in Seq(Line), NEW n \in Nat, n + 1 <= Len(h)
      PROVE  /\ FlattenSeq(First(h, n)) \in Line /\ h[n + 1] \in Line
             /\ FlattenSeq(First(h, n + 1)) = FlattenSeq(First(h, n)) \o h[n + 1]
  <2>1. /\ First(h, n) \in Seq(Line) /\ Len(First(h, n)) = n
        /\ First(h, n + 1) \in Seq(Line) /\ Len(First(h, n + 1)) = n + 1
        /\ \A i \in 1..n : First(h, n)[i] = First(h, n + 1)[i]
        /\ First(h, n + 1)[n + 1] = h[n + 1] /\ h[n + 1] \in Line
    BY <1>4
  <2> HIDE DEF First
  <2>2. FlattenSeq(First(h, n + 1)) = FlattenSeq(First(h, n)) \o First(h, n + 1)[Len(First(h, n + 1))]
    BY <2>1, FlattenLast DEF Line
  <2>3. FlattenSeq(First(h, n)) \in Line
    BY <2>1, FlattenType DEF Line
  <2> QED BY <2>1, <2>2, <2>3
<1>2. ASSUME NEW n \in T PROVE n + 1 \in T
  <2>0. n \in Nat /\ n + 1 \in Nat
    OBVIOUS
  <2> SUFFICES ASSUME n + 1 <= Len(f)
               PROVE  WordsOf(FlattenSeq(First(f, n + 1))) = WordsOf(FlattenSeq(First(g, n + 1)))
    BY <2>0
  <2>1. WordsOf(FlattenSeq(First(f, n))) = WordsOf(FlattenSeq(First(g, n))) /\ n + 1 \in 1..Len(f)
    BY <1>0, <2>0
  <2> HIDE DEF First, T
  <2>2. WordsOf(f[n + 1]) = WordsOf(g[n + 1])
    BY <2>1
  <2>3. /\ FlattenSeq(First(f, n)) \in Line /\ f[n + 1] \in Line
        /\ FlattenSeq(First(f, n + 1)) = FlattenSeq(First(f, n)) \o f[n + 1]
    BY <1>4, <2>0
  <2>4. /\ FlattenSeq(First(g, n)) \in Line /\ g[n + 1] \in Line
        /\ FlattenSeq(First(g, n + 1)) = FlattenSeq(First(g, n)) \o g[n + 1]
    BY <1>4, <2>0
  <2>5. WordsOf(FlattenSeq(First(f, n)) \o f[n + 1]) = WordsOf(FlattenSeq(First(f, n))) \o WordsOf(f[n + 1])
    BY <2>3, WordsJoin
  <2>6. WordsOf(FlattenSeq(First(g, n)) \o g[n + 1]) = WordsOf(FlattenSeq(First(g, n))) \o WordsOf(g[n + 1])
    BY <2>4, WordsJoin
  <2> QED BY <2>1, <2>2, <2>3, <2>4, <2>5, <2>6
<1>3. T = Nat
  <2>1. T \in SUBSET Nat
    OBVIOUS
  <2> HIDE DEF T
  <2> QED BY <1>1, <1>2, <2>1, Induction
<1>5. First(f, Len(f)) = f /\ First(g, Len(f)) = g
  BY SubSeqFull
<1>6. Len(f) \in T
  BY <1>0, <1>3
<1>7. WordsOf(FlattenSeq(First(f, Len(f)))) = WordsOf(FlattenSeq(First(g, Len(f))))
  BY <1>0, <1>6
<1> HIDE DEF First
<1> QED BY <1>5, <1>7

\* What is no word.
Silent == Marks \cup TagTokens

\* The parsers' marks and tags are no words.
LEMMA SilentIs == \A x \in Silent : ~Contains(Words, x)
<1>1. ASSUME NEW x \in Marks PROVE ~Contains(Words, x)
  <2> SUFFICES ASSUME NEW i \in 1..Len(Words), Words[i] = x PROVE FALSE
    BY DEF Contains
  <2>1. DOMAIN Words = 1..Len(Words)
    BY MaddyAssumption
  <2>2. Words[i] \notin Marks
    BY <2>1, TextAssumption
  <2> QED BY <2>2
<1>2. ASSUME NEW x \in TagTokens PROVE ~Contains(Words, x)
  <2> SUFFICES ASSUME NEW i \in 1..Len(Words), Words[i] = x PROVE FALSE
    BY DEF Contains
  <2>1. Words[i] \in Tokens
    BY MaddyAssumption
  <2> QED BY <2>1, TextAssumption
<1> QED BY <1>1, <1>2 DEF Silent

\* A line of marks and tags has no words.
LEMMA SilentWords ==
  ASSUME NEW s \in Line, \A i \in 1..Len(s) : s[i] \in Silent
  PROVE  WordsOf(s) = <<>>
BY SilentIs, NoWords

\* The tags and blanks the parsers write.
LEMMA SilentTags ==
  /\ \A t \in Tags : Open[t] \in Silent /\ Close[t] \in Silent
  /\ {"<p>", "</p>", "<ul>", "</ul>", "<ol>", "</ol>", "<li>", "</li>", "<label>", "</label>",
      "<blockquote>", "</blockquote>", "<pre>", "</pre>", "<code>", "</code>", " ", "\n", "tick",
      "<br>", "<hr/>", "<input/>", "cr", "fence", "---"} \subseteq Silent
<1>1. \A t \in Tags : Open[t] \in Silent /\ Close[t] \in Silent
  BY DEF Silent, TagTokens
<1>2. /\ "<p>" \in Silent /\ "</p>" \in Silent /\ "<ul>" \in Silent /\ "</ul>" \in Silent
      /\ "<ol>" \in Silent /\ "</ol>" \in Silent
  <2>1. /\ Open["p"] = "<p>" /\ Close["p"] = "</p>" /\ Open["ul"] = "<ul>" /\ Close["ul"] = "</ul>"
        /\ Open["ol"] = "<ol>" /\ Close["ol"] = "</ol>"
    BY DEF Open, Close
  <2> QED BY <1>1, <2>1, TagNames
<1>3. /\ "<li>" \in Silent /\ "</li>" \in Silent /\ "<label>" \in Silent /\ "</label>" \in Silent
      /\ "<blockquote>" \in Silent /\ "</blockquote>" \in Silent
  <2>1. /\ Open["li"] = "<li>" /\ Close["li"] = "</li>"
        /\ Open["label"] = "<label>" /\ Close["label"] = "</label>"
        /\ Open["blockquote"] = "<blockquote>" /\ Close["blockquote"] = "</blockquote>"
    BY DEF Open, Close
  <2> QED BY <1>1, <2>1, TagNames
<1>4. /\ "<pre>" \in Silent /\ "</pre>" \in Silent /\ "<code>" \in Silent /\ "</code>" \in Silent
  <2>1. /\ Open["pre"] = "<pre>" /\ Close["pre"] = "</pre>"
        /\ Open["code"] = "<code>" /\ Close["code"] = "</code>"
    BY DEF Open, Close
  <2> QED BY <1>1, <2>1, TagNames
<1>5. {" ", "\n", "tick", "<br>", "<hr/>", "<input/>", "cr", "fence", "---"} \subseteq Silent
  BY DEF Silent, Marks
<1> QED BY <1>1, <1>2, <1>3, <1>4, <1>5, Zenon

\* What is silent in front of a line, or behind it, adds no words.
LEMMA SilentJoined ==
  ASSUME NEW s \in Line, NEW t \in Line, \A i \in 1..Len(s) : s[i] \in Silent
  PROVE  WordsOf(s \o t) = WordsOf(t) /\ WordsOf(t \o s) = WordsOf(t)
<1>1. WordsOf(s) = <<>>
  BY SilentWords
<1>2. WordsOf(t) \in Line
  BY WordsTyped
<1>3. <<>> \o WordsOf(t) = WordsOf(t) /\ WordsOf(t) \o <<>> = WordsOf(t)
  BY <1>2 DEF Line
<1> QED BY <1>1, <1>3, WordsJoin

\* A mark or a tag put behind a line leaves its words.
LEMMA SilentAppended ==
  ASSUME NEW t \in Line, NEW x \in Symbols \cap Silent
  PROVE  WordsOf(Append(t, x)) = WordsOf(t)
<1>1. WordAt(x) = <<>>
  BY SilentIs DEF WordAt
<1>2. WordsOf(t) \in Line
  BY WordsTyped
<1>3. WordsOf(t) \o <<>> = WordsOf(t)
  BY <1>2 DEF Line
<1> QED BY <1>1, <1>3, WordsAppend

\* What is silent at the beginning of a line is taken off.
LEMMA SilentSkipped ==
  ASSUME NEW line \in Line, NEW n \in 0..Len(line), \A i \in 1..n : line[i] \in Silent
  PROVE  WordsOf(SubSeq(line, n + 1, Len(line))) = WordsOf(line) /\ SubSeq(line, n + 1, Len(line)) \in Line
<1> DEFINE s == SubSeq(line, 1, n)
           t == SubSeq(line, n + 1, Len(line))
<1>0. Len(line) \in Nat /\ n \in Nat /\ line \in Seq(Symbols)
  BY DEF Line
<1>1. s \in Line /\ Len(s) = n /\ \A i \in 1..n : s[i] = line[i]
  BY <1>0 DEF Line
<1>2. t \in Line
  BY <1>0 DEF Line
<1>3. line = s \o t
  <2>1. SubSeq(line, 1, Len(line)) = line
    BY <1>0, SubSeqFull
  <2>2. s \o t = SubSeq(line, 1, Len(line))
    <3>1. 1 \in 1..Len(line) + 1 /\ n \in 1 - 1 .. Len(line) /\ Len(line) \in n .. Len(line)
      BY <1>0
    <3> QED BY <1>0, <3>1, ConcatAdjacentSubSeq, Zenon
  <2> QED BY <2>1, <2>2
<1> HIDE DEF s, t
<1>4. WordsOf(s \o t) = WordsOf(t)
  BY <1>1, <1>2, SilentJoined
<1> QED BY <1>2, <1>3, <1>4 DEF t

\* Taking a mark off takes no words.
LEMMA WordsStripped ==
  ASSUME NEW mark \in Seq(Silent), NEW line \in Line
  PROVE  WordsOf(Strip(mark, line)) = WordsOf(line) /\ Strip(mark, line) \in Line
<1>1. CASE ~IsPrefix(mark, line)
  BY <1>1 DEF Strip
<1>2. CASE IsPrefix(mark, line)
  <2>1. Len(mark) \in 0..Len(line) /\ SubSeq(mark, 1, Len(mark)) = SubSeq(line, 1, Len(mark))
    BY <1>2 DEF IsPrefix, Line
  <2>2. \A i \in 1..Len(mark) : line[i] \in Silent
    <3> SUFFICES ASSUME NEW i \in 1..Len(mark) PROVE line[i] \in Silent
      OBVIOUS
    <3>1. SubSeq(mark, 1, Len(mark))[i] = mark[i] /\ mark[i] \in Silent
      OBVIOUS
    <3>2. SubSeq(line, 1, Len(mark))[i] = line[i]
      BY <2>1 DEF Line
    <3> QED BY <2>1, <3>1, <3>2
  <2>3. Strip(mark, line) = SubSeq(line, Len(mark) + 1, Len(line))
    BY <1>2 DEF Strip
  <2> QED BY <2>1, <2>2, <2>3, SilentSkipped
<1> QED BY <1>1, <1>2

-----------------------------------------------------------------------------
(* What the parsers keep of a line's words. *)

\* The box of an item is no word.
LEMMA WordsBoxed ==
  ASSUME NEW line \in Line
  PROVE  WordsOf(Box(line)) = WordsOf(line) /\ Box(line) \in Line
<1>1. CASE line # <<>> /\ line[1] \in Boxes
  <2>1. Boxes \subseteq Silent
    BY DEF Boxes, Silent, Marks
  <2>2. 1 \in 0..Len(line) /\ line \in Seq(Symbols)
    BY <1>1 DEF Line
  <2> DEFINE t == SubSeq(line, 2, Len(line))
  <2>3. 1 + 1 = 2 /\ \A i \in 1..1 : line[i] \in Silent
    BY <1>1, <2>1
  <2>4. WordsOf(t) = WordsOf(line) /\ t \in Line
    BY <2>2, <2>3, SilentSkipped
  <2>5. Tail(line) = t
    BY <2>2
  <2> HIDE DEF t
  <2>6. "<input/>" \in Symbols /\ "<input/>" \in Silent
    BY Literals, SilentTags, Zenon
  <2>7. <<"<input/>">> \in Line /\ Len(<<"<input/>">>) = 1 /\ <<"<input/>">>[1] = "<input/>"
    BY <2>6, Tuples
  <2>8. \A i \in 1..1 : <<"<input/>">>[i] \in Silent
    BY <2>6
  <2>9. WordsOf(<<"<input/>">> \o t) = WordsOf(t)
    BY <2>4, <2>7, <2>8, SilentJoined
  <2>10. <<"<input/>">> \o t \in Line
    BY <2>4, <2>7, Joined
  <2> QED BY <1>1, <2>4, <2>5, <2>9, <2>10 DEF Box
<1>2. CASE ~(line # <<>> /\ line[1] \in Boxes)
  BY <1>2 DEF Box
<1> QED BY <1>1, <1>2

\* The marks of a list item are no words.
LEMMA WordsUnmarked ==
  ASSUME NEW line \in Line, NEW k \in ListKinds
  PROVE  WordsOf(Unmarked(k, line)) = WordsOf(line) /\ Unmarked(k, line) \in Line
<1>1. {"-", " ", "*", "1.", "+"} \subseteq Silent
  BY DEF Silent, Marks
<1>2. <<"-", " ">> \in Seq(Silent) /\ <<"*", " ">> \in Seq(Silent) /\ <<"1.", " ">> \in Seq(Silent)
      /\ <<"+", " ">> \in Seq(Silent)
  <2>1. \A x, y \in Silent : <<x, y>> \in Seq(Silent)
    OBVIOUS
  <2>2. "-" \in Silent /\ " " \in Silent /\ "*" \in Silent /\ "1." \in Silent /\ "+" \in Silent
    BY <1>1
  <2> QED BY <2>1, <2>2, Zenon
<1>3. CASE k = "checklist"
  <2>1. WordsOf(Strip(<<"-", " ">>, line)) = WordsOf(line) /\ Strip(<<"-", " ">>, line) \in Line
    BY <1>2, WordsStripped
  <2>2. Unmarked(k, line) = Box(Strip(<<"-", " ">>, line))
    BY <1>3 DEF Unmarked
  <2> QED BY <2>1, <2>2, WordsBoxed
<1>4. CASE k = "ordered"
  <2>1. WordsOf(Strip(<<"1.", " ">>, line)) = WordsOf(line) /\ Strip(<<"1.", " ">>, line) \in Line
    BY <1>2, WordsStripped
  <2>2. Unmarked(k, line) = Strip(<<"*", " ">>, Strip(<<"1.", " ">>, line))
    BY <1>4 DEF Unmarked
  <2>3. /\ WordsOf(Strip(<<"*", " ">>, Strip(<<"1.", " ">>, line))) = WordsOf(Strip(<<"1.", " ">>, line))
        /\ Strip(<<"*", " ">>, Strip(<<"1.", " ">>, line)) \in Line
    BY <1>2, <2>1, WordsStripped
  <2> QED BY <2>1, <2>2, <2>3
<1>5. CASE k = "unordered"
  <2>1. Unmarked(k, line) = IF \E m \in Bullets : IsPrefix(m, line) THEN SubSeq(line, 3, Len(line)) ELSE line
    BY <1>5 DEF Unmarked
  <2>2. ASSUME NEW m \in Bullets, IsPrefix(m, line)
        PROVE  WordsOf(SubSeq(line, 3, Len(line))) = WordsOf(line) /\ SubSeq(line, 3, Len(line)) \in Line
    <3>1. m \in Seq(Silent) /\ Len(m) = 2
      BY <1>2 DEF Bullets
    <3>2. Strip(m, line) = SubSeq(line, 3, Len(line))
      <4>1. Len(m) + 1 = 3
        BY <3>1
      <4> QED BY <2>2, <4>1 DEF Strip
    <3> QED BY <3>1, <3>2, WordsStripped
  <2> QED BY <2>1, <2>2
<1> QED BY <1>3, <1>4, <1>5 DEF ListKinds

\* The tags of lists are no words.
LEMMA ListTagsSilent ==
  ASSUME NEW k \in ListKinds, NEW s \in {OpenList(k), NextItem(k), CloseList(k)}
  PROVE  s \in Line /\ \A i \in 1..Len(s) : s[i] \in Silent
<1>1. s \in Line
  BY ListTags
<1>2. {"<ul>", "</ul>", "<ol>", "</ol>", "<li>", "</li>", "<label>", "</label>"} \subseteq Silent
  BY SilentTags, Zenon
<1> DEFINE T == Seq({"<ul>", "</ul>", "<ol>", "</ol>", "<li>", "</li>", "<label>", "</label>"})
<1>3. s \in T
  <2>1. /\ <<"<ul>", "<li>", "<label>">> \in T /\ <<"<ol>", "<li>">> \in T /\ <<"<ul>", "<li>">> \in T
        /\ <<"</label>", "</li>", "<li>", "<label>">> \in T /\ <<"</li>", "<li>">> \in T
        /\ <<"</label>", "</li>", "</ul>">> \in T /\ <<"</li>", "</ol>">> \in T /\ <<"</li>", "</ul>">> \in T
    OBVIOUS
  <2> HIDE DEF T
  <2>2. OpenList(k) \in T
    BY <2>1 DEF OpenList, ListKinds
  <2>3. NextItem(k) \in T
    BY <2>1 DEF NextItem
  <2>4. CloseList(k) \in T
    BY <2>1 DEF CloseList, ListKinds
  <2> QED BY <2>2, <2>3, <2>4
<1>4. \A i \in 1..Len(s) : s[i] \in {"<ul>", "</ul>", "<ol>", "</ol>", "<li>", "</li>", "<label>", "</label>"}
  BY <1>3
<1> QED BY <1>1, <1>2, <1>4

\* A list keeps the words of the line, those of an indented one too.
LEMMA WordsListed ==
  ASSUME NEW p \in Parser, NEW line \in Line, p.kind \in ListKinds
  PROVE  WordsOf(parseList(p, line).line) = WordsOf(line)
<1> DEFINE b == parseList(p, line)
           text == Unmarked(p.kind, line)
<1>1. WordsOf(text) = WordsOf(line) /\ text \in Line
  BY WordsUnmarked
<1>2. \A s \in {OpenList(p.kind), NextItem(p.kind), CloseList(p.kind)} : WordsOf(s \o text) = WordsOf(line)
  BY <1>1, ListTagsSilent, SilentJoined
<1>3. CASE Opens(p, line, b)
  BY <1>2, <1>3 DEF Opens
<1>4. CASE Closes(p, line, b)
  BY <1>2, <1>4 DEF Closes
<1>5. CASE Goes(p, line, b)
  BY <1>1, <1>2, <1>5 DEF Goes
<1>6. CASE Shifts(p, line, b)
  <2>1. /\ Indentation(line) >= 2 /\ b.line = SubSeq(text, 3, Len(text))
    BY <1>6 DEF Shifts
  <2>2. /\ Indentation(line) \in 0..Len(line) /\ Indentation(line) \in Nat /\ Len(line) \in Nat
        /\ \A i \in 1..Indentation(line) : line[i] \in {" ", "cr"}
    <3>1. Len(line) \in Nat
      BY DEF Line
    <3> QED BY <3>1, IndentationIs, Zenon
  <2>3. 2 \in 0..Len(line) /\ \A i \in 1..2 : line[i] \in {" ", "cr"}
    <3> DEFINE n == Indentation(line)
               Blank(i) == line[i] \in {" ", "cr"}
    <3>4. n \in 0..Len(line) /\ Len(line) \in Nat /\ n >= 2
      BY <2>1, <2>2, Zenon
    <3>1. n \in Nat /\ n >= 2 /\ n <= Len(line) /\ Len(line) \in Nat
      BY ONLY <3>4
    <3>2. \A i \in 1..n : Blank(i)
      BY <2>2, Zenon
    <3> HIDE DEF n, Blank
    <3>3. 2 \in 0..Len(line) /\ \A i \in 1..2 : Blank(i)
      BY <3>1, <3>2
    <3> QED BY <3>3, Zenon DEF Blank
  <2>4. line[1] \notin MarkStarts
    <3>0. 1 \in 1..2
      OBVIOUS
    <3>1. line[1] \in {" ", "cr"}
      BY <2>3, <3>0, Zenon
    <3> QED BY <3>1 DEF MarkStarts, Boxes
  <2>5. text = line
    BY <2>4, MarksTyped
  <2>6. \A i \in 1..2 : line[i] \in Silent
    BY <2>3, SilentTags
  <2>7. WordsOf(SubSeq(line, 2 + 1, Len(line))) = WordsOf(line)
    BY <2>3, <2>6, SilentSkipped
  <2>8. 2 + 1 = 3
    OBVIOUS
  <2> QED BY <2>1, <2>5, <2>7, <2>8
<1> QED BY <1>3, <1>4, <1>5, <1>6, ListStep

\* The tags around a line are no words.
LEMMA WordsInElement ==
  ASSUME NEW t \in Tags, NEW s \in Line
  PROVE  WordsOf(Element(t, s)) = WordsOf(s)
<1>1. Open[t] \in Symbols \cap Silent /\ Close[t] \in Symbols \cap Silent
  BY TagsTyped, SilentTags
<1>2. <<Open[t]>> \in Line /\ <<Close[t]>> \in Line
  BY <1>1, Tuples
<1>3. /\ \A i \in 1..Len(<<Open[t]>>) : <<Open[t]>>[i] \in Silent
      /\ \A i \in 1..Len(<<Close[t]>>) : <<Close[t]>>[i] \in Silent
  BY <1>1
<1>4. <<Open[t]>> \o s \in Line
  BY <1>2, Joined
<1>5. WordsOf(<<Open[t]>> \o s) = WordsOf(s)
  BY <1>2, <1>3, SilentJoined
<1>6. WordsOf((<<Open[t]>> \o s) \o <<Close[t]>>) = WordsOf(<<Open[t]>> \o s)
  BY <1>2, <1>3, <1>4, SilentJoined
<1> QED BY <1>5, <1>6 DEF Element

\* A line is its tokens, one after the other.
LEMMA Singles ==
  ASSUME NEW line \in Line
  PROVE  LET g == [i \in 1..Len(line) |-> <<line[i]>>]
         IN  g \in Seq(Line) /\ Len(g) = Len(line) /\ FlattenSeq(g) = line
<1> DEFINE Each(l) == [i \in 1..Len(l) |-> <<l[i]>>]
           T == {l \in Line : FlattenSeq(Each(l)) = l}
<1>1. ASSUME NEW l \in Line PROVE Each(l) \in Seq(Line) /\ Len(Each(l)) = Len(l)
  <2>1. Len(l) \in Nat /\ \A i \in 1..Len(l) : l[i] \in Symbols
    BY DEF Line
  <2>2. Each(l) \in [1..Len(l) -> Line]
    BY <2>1, Tuples
  <2> HIDE DEF Each
  <2> QED BY <2>1, <2>2, TableOf
<1>2. <<>> \in T
  <2>1. Each(<<>>) = <<>>
    OBVIOUS
  <2> QED BY <2>1, EmptyLine, FlattenNothing
<1>3. ASSUME NEW l \in T, NEW x \in Symbols PROVE Append(l, x) \in T
  <2>1. l \in Line /\ FlattenSeq(Each(l)) = l
    OBVIOUS
  <2> DEFINE a == Append(l, x)
  <2>2. /\ a \in Line /\ Len(a) = Len(l) + 1 /\ Len(l) \in Nat /\ \A i \in 1..Len(l) : a[i] = l[i]
        /\ a[Len(l) + 1] = x
    BY <2>1 DEF Line
  <2> HIDE DEF a
  <2>3. /\ \A i \in 1..Len(l) : Each(l)[i] = Each(a)[i]
        /\ Each(a)[Len(a)] = <<x>>
    BY <2>2
  <2>4. Each(l) \in Seq(Line) /\ Len(Each(l)) = Len(l) /\ Each(a) \in Seq(Line) /\ Len(Each(a)) = Len(a)
    BY <1>1, <2>1, <2>2
  <2> HIDE DEF Each
  <2>5. FlattenSeq(Each(a)) = FlattenSeq(Each(l)) \o Each(a)[Len(Each(a))]
    BY <2>2, <2>3, <2>4, FlattenLast DEF Line
  <2>6. l \o <<x>> = Append(l, x)
    BY <2>1 DEF Line
  <2> QED BY <2>1, <2>2, <2>3, <2>4, <2>5, <2>6 DEF a
<1>4. T = Line
  <2>1. T \in SUBSET Seq(Symbols)
    BY DEF Line
  <2> HIDE DEF T
  <2> QED BY <1>2, <1>3, <2>1, SequencesGrow DEF Line
<1>5. FlattenSeq(Each(line)) = line
  BY <1>4
<1> QED BY <1>1, <1>5

\* The inline parsers keep the words.
LEMMA WordsRun ==
  ASSUME NEW line \in Line
  PROVE  WordsOf(runLineParser(line)) = WordsOf(line)
<1> DEFINE Piece(x) == CASE x = "cr"  -> <<"<br>">>
                         [] x = "fence" -> Element("code", <<>>) \o <<"tick">>
                         [] OTHER           -> <<x>>
           f == [i \in DOMAIN line |-> Piece(line[i])]
           g == [i \in 1..Len(line) |-> <<line[i]>>]
<1>0. Len(line) \in Nat /\ DOMAIN line = 1..Len(line) /\ \A i \in 1..Len(line) : line[i] \in Symbols
  BY DEF Line
<1>1. ASSUME NEW x \in Symbols PROVE Piece(x) \in Line /\ WordsOf(Piece(x)) = WordsOf(<<x>>)
  <2>1. <<x>> \in Line
    BY Tuples
  <2>2. CASE x = "cr"
    <3>1. Piece(x) = <<"<br>">>
      BY <2>2
    <3>2. "<br>" \in Symbols \cap Silent /\ "cr" \in Silent
      BY Literals, SilentTags, Zenon
    <3>3. WordsOf(<<"<br>">>) = <<>> /\ WordsOf(<<x>>) = <<>> /\ <<"<br>">> \in Line
      <4>1. <<"<br>">> \in Line /\ Len(<<"<br>">>) = 1 /\ <<"<br>">>[1] \in Silent /\ Len(<<x>>) = 1 /\ <<x>>[1] \in Silent
        BY <2>2, <3>2, Tuples
      <4>2. \A i \in 1..1 : i = 1
        OBVIOUS
      <4> QED BY <2>1, <4>1, <4>2, SilentWords
    <3> QED BY <3>1, <3>3
  <2>3. CASE x = "fence"
    <3>1. Piece(x) = Element("code", <<>>) \o <<"tick">>
      BY <2>3
    <3>2. "tick" \in Symbols \cap Silent /\ "fence" \in Silent /\ "code" \in Tags
      BY Literals, SilentTags, TagNames, Zenon
    <3>3. Element("code", <<>>) \in Line /\ WordsOf(Element("code", <<>>)) = <<>>
      BY <3>2, ElementTyped, WordsInElement, EmptyLine, WordsNothing
    <3>4. <<"tick">> \in Line /\ \A i \in 1..Len(<<"tick">>) : <<"tick">>[i] \in Silent
      BY <3>2, Tuples
    <3>5. Element("code", <<>>) \o <<"tick">> \in Line
      BY <3>3, <3>4, Joined
    <3>6. WordsOf(Element("code", <<>>) \o <<"tick">>) = <<>>
      BY <3>3, <3>4, SilentJoined
    <3>7. WordsOf(<<x>>) = <<>>
      <4>1. \A i \in 1..Len(<<x>>) : <<x>>[i] \in Silent
        BY <2>3, <3>2
      <4> QED BY <2>1, <4>1, SilentWords
    <3> QED BY <3>1, <3>5, <3>6, <3>7
  <2>4. CASE x # "cr" /\ x # "fence"
    <3>1. Piece(x) = <<x>>
      BY <2>4
    <3> QED BY <2>1, <3>1
  <2> QED BY <2>2, <2>3, <2>4
<1>2. runLineParser(line) = FlattenSeq(f)
  BY Zenon DEF runLineParser
<1>3. \A i \in 1..Len(line) : f[i] = Piece(line[i]) /\ g[i] = <<line[i]>>
  BY <1>0
<1>4. f \in Seq(Line) /\ Len(f) = Len(line)
  <2> HIDE DEF Piece
  <2>1. \A i \in 1..Len(line) : Piece(line[i]) \in Line
    BY <1>0, <1>1
  <2>2. f \in [1..Len(line) -> Line]
    BY <1>0, <2>1
  <2> HIDE DEF f
  <2> QED BY <1>0, <2>2, TableOf
<1>5. g \in Seq(Line) /\ Len(g) = Len(line) /\ FlattenSeq(g) = line
  BY Singles
<1> HIDE DEF f, g, Piece
<1>6. \A i \in 1..Len(f) : WordsOf(f[i]) = WordsOf(g[i])
  BY <1>0, <1>1, <1>3, <1>4
<1>7. WordsOf(FlattenSeq(f)) = WordsOf(FlattenSeq(g))
  BY <1>4, <1>5, <1>6, SameWords
<1> QED BY <1>2, <1>5, <1>7

\* A single token that is no word.
LEMMA SilentOne == \A x \in Silent : \A i \in 1..Len(<<x>>) : <<x>>[i] \in Silent
OBVIOUS

\* parseBlock keeps the words of the line, and adds none to what was written; a quote
\* that is given nothing makes nothing of it.
LEMMA ParsedWords ==
  ASSUME NEW p \in Parser, NEW line \in Line, Ready(p, line), p.kind # "table"
  PROVE  LET b == parseBlock(p, line)
         IN  /\ WordsOf(b.line) = WordsOf(line) /\ WordsOf(b.p.result) = WordsOf(p.result)
             /\ p.kind = "quote" /\ line = <<>> => b.line = <<>>
<1> DEFINE b == parseBlock(p, line)
<1>0. /\ "\n" \in Symbols \cap Silent /\ " " \in Symbols \cap Silent /\ "<p>" \in Symbols \cap Silent
      /\ "</p>" \in Symbols \cap Silent /\ "<pre>" \in Symbols \cap Silent /\ "<code>" \in Symbols \cap Silent
      /\ "</code>" \in Symbols \cap Silent /\ "</pre>" \in Symbols \cap Silent
      /\ "<hr/>" \in Symbols \cap Silent /\ "<blockquote>" \in Symbols \cap Silent
      /\ "fence" \in Silent /\ "---" \in Silent
  BY Literals, SilentTags, Zenon
<1>9. /\ \A x \in Symbols \cap Silent : <<x>> \in Line /\ WordsOf(<<x>>) = <<>>
      /\ \A x, y \in Symbols \cap Silent : WordsOf(<<x, y>>) = <<>>
      /\ \A x, y, z \in Symbols \cap Silent : WordsOf(<<x, y, z>>) = <<>>
  <2>1. ASSUME NEW x \in Symbols \cap Silent PROVE <<x>> \in Line /\ \A i \in 1..Len(<<x>>) : <<x>>[i] \in Silent
    BY Tuples
  <2>2. ASSUME NEW x \in Symbols \cap Silent, NEW y \in Symbols \cap Silent
        PROVE  <<x, y>> \in Line /\ \A i \in 1..Len(<<x, y>>) : <<x, y>>[i] \in Silent
    <3>1. <<x, y>> \in Line
      BY Tuples
    <3>2. <<x, y>> \in Seq(Silent)
      OBVIOUS
    <3> QED BY <3>1, <3>2
  <2>3. ASSUME NEW x \in Symbols \cap Silent, NEW y \in Symbols \cap Silent, NEW z \in Symbols \cap Silent
        PROVE  <<x, y, z>> \in Line /\ \A i \in 1..Len(<<x, y, z>>) : <<x, y, z>>[i] \in Silent
    <3>1. <<x, y, z>> \in Line
      BY Tuples
    <3>2. <<x, y, z>> \in Seq(Silent)
      OBVIOUS
    <3> QED BY <3>1, <3>2
  <2> QED BY <2>1, <2>2, <2>3, SilentWords
<1> SUFFICES /\ WordsOf(b.line) = WordsOf(line) /\ WordsOf(b.p.result) = WordsOf(p.result)
             /\ p.kind = "quote" /\ line = <<>> => b.line = <<>>
  OBVIOUS
<1>1. CASE p.kind = "code"
  <2>1. b = parseCode(p, line)
    BY <1>1, ParsedAs
  <2>2. Keeps(b, p) /\ (CodeOpens(p, line, b) \/ CodeGoes(p, line, b) \/ CodeCloses(p, line, b))
    BY <1>1, <2>1, CodeParsed
  <2> HIDE DEF b
  <2>3. b.p.result = p.result
    BY <2>2 DEF Keeps
  <2>4. line = <<"fence">> => WordsOf(line) = <<>>
    <3>1. \A i \in 1..Len(<<"fence">>) : <<"fence">>[i] \in Silent
      BY <1>0, SilentOne, Zenon
    <3> QED BY <3>1, SilentWords
  <2>5. WordsOf(Append(line, "\n")) = WordsOf(line)
    BY <1>0, SilentAppended
  <2>6. WordsOf(<<"<pre>", "<code>", "\n">>) = <<>> /\ WordsOf(<<"</code>", "</pre>">>) = <<>>
    BY <1>0, <1>9, Zenon
  <2>7. WordsOf(b.line) = WordsOf(line)
    BY <2>2, <2>4, <2>5, <2>6 DEF CodeOpens, CodeGoes, CodeCloses
  <2> QED BY <1>1, <2>3, <2>7
<1>2. CASE p.kind = "headline"
  <2>1. b = parseHeadline(p, line)
    BY <1>2, ParsedAs
  <2>2. /\ Keeps(b, p)
        /\ \E n \in 1..6 : /\ IsPrefix(Hashes(n), line) /\ Strip(Hashes(n), line) \in Line
                           /\ Headings[n] \in Tags
                           /\ b.line = Element(Headings[n], Strip(Hashes(n), line))
    BY <1>2, <2>1, HeadlineParsed
  <2> HIDE DEF b
  <2>3. PICK n \in 1..6 : /\ Strip(Hashes(n), line) \in Line /\ Headings[n] \in Tags
                          /\ b.line = Element(Headings[n], Strip(Hashes(n), line))
    BY <2>2
  <2>4. Hashes(n) \in Seq(Silent)
    <3>1. "#" \in Silent /\ " " \in Silent
      BY DEF Silent, Marks
    <3>3. \A i \in 1..n + 1 : (IF i <= n THEN "#" ELSE " ") \in Silent
      BY <3>1
    <3>4. n + 1 \in Nat
      OBVIOUS
    <3>5. Hashes(n) \in [1..n + 1 -> Silent]
      BY <3>3, Zenon DEF Hashes
    <3>2. n + 1 \in Nat /\ Hashes(n) \in [1..n + 1 -> Silent]
      BY <3>4, <3>5
    <3> QED BY <3>2, TableOf
  <2>5. WordsOf(b.line) = WordsOf(line)
    BY <2>3, <2>4, WordsInElement, WordsStripped
  <2>6. b.p.result = p.result
    BY <2>2 DEF Keeps
  <2> QED BY <1>2, <2>5, <2>6
<1>3. CASE p.kind = "hr"
  <2>1. b = parseHorizontalLine(p, line)
    BY <1>3, ParsedAs
  <2>2. Keeps(b, p) /\ b.line = <<"<hr/>">>
    BY <1>3, <2>1, RuleParsed
  <2> HIDE DEF b
  <2>3. line = <<"---">>
    BY <1>3 DEF Ready, IsStartingLine
  <2>4. WordsOf(line) = <<>>
    <3>1. \A i \in 1..Len(<<"---">>) : <<"---">>[i] \in Silent
      BY <1>0, SilentOne, Zenon
    <3> QED BY <2>3, <3>1, SilentWords
  <2>5. WordsOf(<<"<hr/>">>) = <<>>
    BY <1>0, <1>9, Zenon
  <2>6. b.p.result = p.result
    BY <2>2 DEF Keeps
  <2> QED BY <1>3, <2>2, <2>4, <2>5, <2>6
<1>4. CASE p.kind = "quote"
  <2>1. b = parseQuote(p, line)
    BY <1>4, ParsedAs
  <2>2. /\ b.p.result = IF p.started THEN p.result ELSE <<"<blockquote>">>
        /\ QuoteText(line) \in Line
        /\ b.line = IF QuoteText(line) = <<>> THEN <<>> ELSE Append(QuoteText(line), " ")
    <3> DEFINE q == parseQuote(p, line)
    <3>1. /\ q.p.result = IF p.started THEN p.result ELSE <<"<blockquote>">>
          /\ QuoteText(line) \in Line
          /\ q.line = IF QuoteText(line) = <<>> THEN <<>> ELSE Append(QuoteText(line), " ")
      BY <1>4, QuoteParsed
    <3>2. b = q
      BY <2>1
    <3> HIDE DEF b, q
    <3> QED BY <3>1, <3>2
  <2> HIDE DEF b
  <2>3. <<">", " ">> \in Seq(Silent) /\ <<">">> \in Seq(Silent)
    <3>1. ">" \in Silent
      BY DEF Silent, Marks
    <3>2. \A x, y \in Silent : <<x, y>> \in Seq(Silent) /\ <<x>> \in Seq(Silent)
      OBVIOUS
    <3> QED BY <1>0, <3>1, <3>2, Zenon
  <2>4. WordsOf(QuoteText(line)) = WordsOf(line)
    BY <2>3, WordsStripped DEF QuoteText
  <2>5. QuoteText(line) # <<>> => WordsOf(Append(QuoteText(line), " ")) = WordsOf(line)
    BY <1>0, <2>2, <2>4, SilentAppended
  <2>6. WordsOf(b.line) = WordsOf(line)
    BY <2>2, <2>4, <2>5
  <2>7. WordsOf(b.p.result) = WordsOf(p.result)
    <3>1. WordsOf(<<"<blockquote>">>) = <<>>
      BY <1>0, <1>9, Zenon
    <3>2. ~p.started => p.result = <<>>
      <4>1. ~p.started => p = NewParser(p.kind) /\ p.kind \in Kinds
        BY DEF Ready, Parser
      <4> QED BY <4>1, Made
    <3> QED BY <2>2, <3>1, <3>2, WordsNothing
  <2>8. line = <<>> => b.line = <<>>
    <3>1. ~IsPrefix(<<">", " ">>, <<>>) /\ ~IsPrefix(<<">">>, <<>>)
      BY DEF IsPrefix
    <3>2. line = <<>> => QuoteText(line) = <<>>
      BY <3>1 DEF QuoteText, Strip
    <3> QED BY <2>2, <3>2
  <2> QED BY <2>6, <2>7, <2>8
<1>5. CASE p.kind = "paragraph"
  <2>1. b = parseParagraph(p, line)
    BY <1>5, ParsedAs
  <2>2. /\ Keeps(b, p)
        /\ ParagraphOpens(p, line, b) \/ ParagraphGoes(p, line, b) \/ ParagraphCloses(p, line, b)
    BY <1>5, <2>1, ParagraphParsed
  <2> HIDE DEF b
  <2>3. b.p.result = p.result
    BY <2>2 DEF Keeps
  <2>4. WordsOf(Append(line, " ")) = WordsOf(line)
    BY <1>0, SilentAppended
  <2>5. WordsOf(<<"</p>">>) = <<>> /\ WordsOf(<<>>) = <<>>
    BY <1>0, <1>9, WordsNothing, Zenon
  <2>6. WordsOf(<<"<p>">> \o line \o <<" ">>) = WordsOf(line)
    <3>1. /\ <<"<p>">> \in Line /\ <<" ">> \in Line
          /\ \A i \in 1..Len(<<"<p>">>) : <<"<p>">>[i] \in Silent
          /\ \A i \in 1..Len(<<" ">>) : <<" ">>[i] \in Silent
      <4>1. "<p>" \in Silent /\ " " \in Silent
        BY <1>0
      <4>2. <<"<p>">> \in Line /\ <<" ">> \in Line
        BY <1>0, <1>9, Zenon
      <4> QED BY <4>1, <4>2, SilentOne, Zenon
    <3>2. <<"<p>">> \o line \in Line
      BY <3>1, Joined
    <3>3. WordsOf(<<"<p>">> \o line) = WordsOf(line)
      BY <3>1, SilentJoined
    <3>4. WordsOf((<<"<p>">> \o line) \o <<" ">>) = WordsOf(<<"<p>">> \o line)
      BY <3>1, <3>2, SilentJoined
    <3> QED BY <3>3, <3>4
  <2>7. WordsOf(b.line) = WordsOf(line)
    BY <2>2, <2>4, <2>5, <2>6 DEF ParagraphOpens, ParagraphGoes, ParagraphCloses
  <2> QED BY <1>5, <2>3, <2>7
<1>6. CASE p.kind \in ListKinds
  <2>1. b = parseList(p, line)
    BY <1>6, ParsedAs
  <2>2. Keeps(b, p)
    BY <1>6, <2>1, ListParsed DEF Ready
  <2>3. WordsOf(b.line) = WordsOf(line)
    BY <1>6, <2>1, WordsListed
  <2> HIDE DEF b
  <2> QED BY <1>6, <2>2, <2>3 DEF Keeps, ListKinds
<1> QED BY <1>1, <1>2, <1>3, <1>4, <1>5, <1>6, ParsedAs

-----------------------------------------------------------------------------
(* The words of a table. *)

\* What is appended to the last part comes last.
LEMMA LastGrows ==
  ASSUME NEW A, NEW f \in Seq(Seq(A)), f # <<>>, NEW x \in A
  PROVE  LET g == [f EXCEPT ![Len(f)] = Append(@, x)]
         IN  g \in Seq(Seq(A)) /\ Len(g) = Len(f) /\ FlattenSeq(g) = Append(FlattenSeq(f), x)
<1> DEFINE n == Len(f)
           e == SubSeq(f, 1, n - 1)
           y == Append(f[n], x)
           g == [f EXCEPT ![n] = y]
<1>0. n \in Nat /\ n # 0 /\ n \in 1..n /\ f[n] \in Seq(A) /\ n - 1 \in Nat
  OBVIOUS
<1>1. y \in Seq(A) /\ y = f[n] \o <<x>> /\ <<x>> \in Seq(A)
  BY <1>0
<1> HIDE DEF y
<1>2. e \in Seq(Seq(A)) /\ Len(e) = n - 1 /\ \A i \in 1..n - 1 : e[i] = f[i]
  <2> DEFINE B == Seq(A)
  <2>1. f \in Seq(B) /\ n = Len(f)
    OBVIOUS
  <2> HIDE DEF B, n
  <2>2. e \in Seq(B) /\ Len(e) = n - 1 /\ \A i \in 1..n - 1 : e[i] = f[i]
    BY ONLY <1>0, <2>1 DEF e
  <2> QED BY <2>2 DEF B
<1>3. g \in Seq(Seq(A)) /\ Len(g) = n /\ \A i \in 1..n : g[i] = IF i = n THEN y ELSE f[i]
  BY <1>0, <1>1, ExceptSeq
<1> HIDE DEF e, g
<1>4. FlattenSeq(f) = FlattenSeq(e) \o f[n]
  <2>1. Len(f) = Len(e) + 1 /\ \A i \in 1..Len(e) : e[i] = f[i]
    BY <1>0, <1>2
  <2> QED BY <1>2, <2>1, FlattenLast
<1>5. FlattenSeq(g) = FlattenSeq(e) \o y
  <2>1. Len(g) = Len(e) + 1 /\ \A i \in 1..Len(e) : e[i] = g[i]
    <3> HIDE DEF n
    <3>1. \A i \in 1..n - 1 : i \in 1..n /\ i # n
      BY ONLY <1>0
    <3>2. Len(g) = Len(e) + 1
      BY ONLY <1>0, <1>2, <1>3
    <3>3. \A i \in 1..n - 1 : g[i] = f[i]
      BY ONLY <1>3, <3>1, Zenon
    <3>4. \A i \in 1..n - 1 : e[i] = g[i]
      BY ONLY <1>2, <3>3, Zenon
    <3>5. Len(e) = n - 1
      BY ONLY <1>2, Zenon
    <3> QED BY ONLY <3>2, <3>4, <3>5, Zenon
  <2>2. g[Len(g)] = y
    BY <1>0, <1>3
  <2>3. FlattenSeq(g) = FlattenSeq(e) \o g[Len(g)]
    BY <1>2, <1>3, <2>1, FlattenLast
  <2> QED BY <2>2, <2>3
<1>6. FlattenSeq(e) \in Seq(A)
  BY <1>2, FlattenType
<1>7. FlattenSeq(e) \o y = (FlattenSeq(e) \o f[n]) \o <<x>>
  <2>1. \A s, t, u \in Seq(A) : (s \o t) \o u = s \o (t \o u)
    OBVIOUS
  <2>2. y = f[n] \o <<x>> /\ f[n] \in Seq(A) /\ <<x>> \in Seq(A)
    BY ONLY <1>0, <1>1, Zenon
  <2> DEFINE a == FlattenSeq(e)
             b == f[n]
             c == <<x>>
  <2>3. a \in Seq(A) /\ b \in Seq(A) /\ c \in Seq(A) /\ y = b \o c
    BY ONLY <1>6, <2>2, Zenon
  <2> HIDE DEF a, b, c
  <2>4. a \o y = (a \o b) \o c
    BY ONLY <2>1, <2>3, Zenon
  <2> QED BY ONLY <2>4, Zenon DEF a, b, c
<1>8. (FlattenSeq(e) \o f[n]) \o <<x>> = Append(FlattenSeq(e) \o f[n], x)
  <2>1. FlattenSeq(e) \o f[n] \in Seq(A)
    BY <1>0, <1>6
  <2> QED BY <2>1
<1>9. [f EXCEPT ![Len(f)] = Append(@, x)] = g
  BY DEF g, y
<1> QED BY <1>3, <1>4, <1>5, <1>7, <1>8, <1>9

\* What is split at the bars has the words of the line.
LEMMA SplitWords ==
  ASSUME NEW line \in Line
  PROVE  WordsOf(FlattenSeq(SplitAtBars(line))) = WordsOf(line)
<1> DEFINE N == Len(line)
           At(n) == {s \in Segmented : WordsOf(FlattenSeq(s)) = WordsOf(SubSeq(line, 1, n))}
           R == [n \in 0..N |-> At(n)]
<1>1. N \in Nat /\ line \in Seq(Symbols) /\ \A n \in 1..N : line[n] \in Symbols
  BY DEF Line
<1>2. R \in [0..N -> SUBSET Segmented]
  OBVIOUS
<1>3. << <<>> >> \in R[0]
  <2>1. R[0] = At(0)
    BY <1>1
  <2>2. << <<>> >> \in Segmented
    BY EmptyLine DEF Segmented
  <2>3. FlattenSeq(<< <<>> >>) = <<>>
    <3>1. FlattenSeq(Append(<<>>, <<>>)) = FlattenSeq(<<>>) \o <<>>
      <4>1. <<>> \in Seq(Seq(Symbols)) /\ <<>> \in Seq(Symbols)
        OBVIOUS
      <4> QED BY <4>1, FlattenAppend
    <3>2. Append(<<>>, <<>>) = << <<>> >>
      OBVIOUS
    <3> QED BY <3>1, <3>2, FlattenNothing
  <2>4. SubSeq(line, 1, 0) = <<>>
    BY SubSeqEmpty
  <2> HIDE DEF R
  <2> QED BY <2>1, <2>2, <2>3, <2>4
<1>4. ASSUME NEW n \in 1..N, NEW s \in R[n - 1] PROVE Split(s, line[n]) \in R[n]
  <2>1. R[n - 1] = At(n - 1) /\ R[n] = At(n)
    BY <1>1
  <2> HIDE DEF R
  <2> DEFINE tok == line[n]
             pre == SubSeq(line, 1, n - 1)
  <2>2. tok \in Symbols /\ s \in Segmented /\ WordsOf(FlattenSeq(s)) = WordsOf(pre)
    BY <1>1, <2>1
  <2>3. SubSeq(line, 1, n) = Append(pre, tok) /\ pre \in Line
    <3>1. /\ pre \in Seq(Symbols) /\ Len(pre) = n - 1 /\ \A i \in 1..n - 1 : pre[i] = line[i]
          /\ SubSeq(line, 1, n) \in Seq(Symbols) /\ Len(SubSeq(line, 1, n)) = n
          /\ \A i \in 1..n : SubSeq(line, 1, n)[i] = line[i]
      BY <1>1
    <3> HIDE DEF pre
    <3>2. /\ Append(pre, tok) \in Seq(Symbols) /\ Len(Append(pre, tok)) = n
          /\ \A i \in 1..n : Append(pre, tok)[i] = line[i]
      BY <1>1, <2>2, <3>1
    <3>3. SubSeq(line, 1, n) = Append(pre, tok)
      BY <3>1, <3>2, SeqEqual
    <3> QED BY <3>1, <3>3 DEF Line
  <2> HIDE DEF pre
  <2>4. WordsOf(SubSeq(line, 1, n)) = WordsOf(pre) \o WordAt(tok)
    BY <2>2, <2>3, WordsAppend
  <2>5. Split(s, tok) \in Segmented
    BY <2>2, SplitTyped
  <2>6. s \in Seq(Line) /\ s # <<>> /\ FlattenSeq(s) \in Line
    BY <2>2, FlattenType DEF Segmented, Line
  <2>7. WordsOf(FlattenSeq(Split(s, tok))) = WordsOf(FlattenSeq(s)) \o WordAt(tok)
    <3>1. CASE tok = "|"
      <4>1. Split(s, tok) = Append(s, <<>>)
        BY <3>1 DEF Split
      <4>2. FlattenSeq(Append(s, <<>>)) = FlattenSeq(s) \o <<>>
        BY <2>6, EmptyLine, FlattenAppend DEF Line
      <4>3. FlattenSeq(s) \o <<>> = FlattenSeq(s)
        BY <2>6 DEF Line
      <4>4. WordAt(tok) = <<>>
        <5>1. "|" \in Silent
          BY DEF Silent, Marks
        <5> QED BY <3>1, <5>1, SilentIs DEF WordAt
      <4>5. WordsOf(FlattenSeq(s)) \o <<>> = WordsOf(FlattenSeq(s))
        <5>1. WordsOf(FlattenSeq(s)) \in Line
          BY <2>6, WordsTyped
        <5> QED BY <5>1 DEF Line
      <4> HIDE DEF tok
      <4> QED BY <4>1, <4>2, <4>3, <4>4, <4>5
    <3>2. CASE tok # "|"
      <4>1. Split(s, tok) = [s EXCEPT ![Len(s)] = Append(@, tok)]
        BY <3>2 DEF Split
      <4>2. FlattenSeq([s EXCEPT ![Len(s)] = Append(@, tok)]) = Append(FlattenSeq(s), tok)
        BY <2>2, <2>6, LastGrows DEF Line
      <4>3. WordsOf(Append(FlattenSeq(s), tok)) = WordsOf(FlattenSeq(s)) \o WordAt(tok)
        BY <2>2, <2>6, WordsAppend
      <4> HIDE DEF tok
      <4> QED BY <4>1, <4>2, <4>3
    <3> QED BY <3>1, <3>2
  <2> HIDE DEF tok
  <2>8. Split(s, tok) \in At(n)
    BY <2>2, <2>4, <2>5, <2>7
  <2> QED BY <2>1, <2>8 DEF tok
<1>5. R[N] = At(N)
  BY <1>1
<1> HIDE DEF R
<1>6. SplitAtBars(line) \in R[N]
  BY <1>1, <1>2, <1>3, <1>4, Splits
<1>7. SubSeq(line, 1, N) = line
  BY <1>1, SubSeqFull
<1> QED BY <1>5, <1>6, <1>7

\* A sequence without its last element.
LEMMA ButLast ==
  ASSUME NEW A, NEW s \in Seq(A), Len(s) # 0
  PROVE  LET f == SubSeq(s, 1, Len(s) - 1)
         IN  f \in Seq(A) /\ Len(f) = Len(s) - 1 /\ \A i \in 1..Len(s) - 1 : f[i] = s[i]
<1> DEFINE n == Len(s) - 1
<1>1. n \in Nat /\ Len(s) = n + 1
  OBVIOUS
<1> HIDE DEF n
<1>2. \A i \in 1..n : i \in 1..Len(s)
  BY <1>1
<1>3. SubSeq(s, 1, n) \in Seq(A) /\ Len(SubSeq(s, 1, n)) = n /\ \A i \in 1..n : SubSeq(s, 1, n)[i] = s[i]
  BY <1>1, <1>2
<1> QED BY <1>3 DEF n

\* What std::getline delivers has the words of the line.
LEMMA SegmentWords ==
  ASSUME NEW line \in Line
  PROVE  WordsOf(FlattenSeq(Segments(line))) = WordsOf(line)
<1> DEFINE s == SplitAtBars(line)
<1>1. s \in Seq(Line) /\ s # <<>> /\ WordsOf(FlattenSeq(s)) = WordsOf(line)
  BY SplitAtBarsTyped, SplitWords DEF Segmented
<1>2. Segments(line) = IF Last(s) = <<>> THEN Front(s) ELSE s
  BY DEF Segments
<1> HIDE DEF s
<1>3. ASSUME Last(s) = <<>> PROVE FlattenSeq(Front(s)) = FlattenSeq(s)
  <2>1. Len(s) \in Nat /\ Len(s) # 0 /\ Len(s) - 1 \in Nat /\ s[Len(s)] = <<>>
    BY <1>1, <1>3 DEF Last
  <2>2. Front(s) = SubSeq(s, 1, Len(s) - 1)
    BY DEF Front
  <2>3. /\ Front(s) \in Seq(Line) /\ Len(s) = Len(Front(s)) + 1
        /\ \A i \in 1..Len(Front(s)) : Front(s)[i] = s[i]
    <3> DEFINE f == SubSeq(s, 1, Len(s) - 1)
    <3>1. f \in Seq(Line) /\ Len(f) = Len(s) - 1 /\ \A i \in 1..Len(s) - 1 : f[i] = s[i]
      BY <1>1, <2>1, ButLast
    <3> HIDE DEF f
    <3>2. Len(s) = Len(f) + 1 /\ \A i \in 1..Len(f) : f[i] = s[i]
      BY ONLY <2>1, <3>1
    <3> QED BY <2>2, <3>1, <3>2 DEF f
  <2>4. FlattenSeq(s) = FlattenSeq(Front(s)) \o s[Len(s)]
    BY <1>1, <2>3, FlattenLast DEF Line
  <2>5. FlattenSeq(Front(s)) \in Line
    BY <2>3, FlattenType DEF Line
  <2>6. FlattenSeq(Front(s)) \o <<>> = FlattenSeq(Front(s))
    BY <2>5 DEF Line
  <2> QED BY <2>1, <2>4, <2>6
<1> QED BY <1>1, <1>2, <1>3

\* A row has the words of its line.
LEMMA RowWords ==
  ASSUME NEW line \in Line
  PROVE  WordsOf(FlattenSeq(Row(line))) = WordsOf(line)
<1> DEFINE s == Segments(line)
<1>1. s \in Seq(Line) /\ Row(line) \in Seq(Line) /\ Len(Row(line)) = Len(s)
  BY SegmentsTyped, RowTyped
<1>2. DOMAIN s = 1..Len(s)
  BY <1>1
<1>3. \A i \in 1..Len(s) : Row(line)[i] = runLineParser(s[i])
  BY <1>2 DEF Row
<1> HIDE DEF s
<1>4. \A i \in 1..Len(s) : WordsOf(Row(line)[i]) = WordsOf(s[i])
  <2>1. \A i \in 1..Len(s) : s[i] \in Line
    BY <1>1
  <2> QED BY <1>3, <2>1, WordsRun
<1>5. WordsOf(FlattenSeq(Row(line))) = WordsOf(FlattenSeq(s))
  BY <1>1, <1>4, SameWords
<1> QED BY <1>5, SegmentWords DEF s

\* The text in the cells of a table.
CellsOf(table) == FlattenSeq(FlattenSeq(FlattenSeq(table)))

\* A row written has the words of its cells.
LEMMA RowTextWords ==
  ASSUME NEW cell \in Tags, NEW row \in Seq(Line)
  PROVE  RowText(cell, row) \in Line /\ WordsOf(RowText(cell, row)) = WordsOf(FlattenSeq(row))
<1> DEFINE f == [c \in DOMAIN row |-> Element(cell, row[c])]
<1>1. Len(row) \in Nat /\ DOMAIN row = 1..Len(row) /\ \A c \in 1..Len(row) : row[c] \in Line
  OBVIOUS
<1>2. \A c \in 1..Len(row) : Element(cell, row[c]) \in Line /\ WordsOf(Element(cell, row[c])) = WordsOf(row[c])
  BY <1>1, ElementTyped, WordsInElement
<1>3. f \in [1..Len(row) -> Line]
  BY <1>1, <1>2
<1>4. \A c \in 1..Len(row) : WordsOf(f[c]) = WordsOf(row[c])
  BY <1>1, <1>2
<1>5. RowText(cell, row) = Element("tr", FlattenSeq(f))
  BY Zenon DEF RowText
<1> HIDE DEF f
<1>6. f \in Seq(Line) /\ Len(f) = Len(row)
  BY <1>1, <1>3, TableOf
<1>7. WordsOf(FlattenSeq(f)) = WordsOf(FlattenSeq(row)) /\ FlattenSeq(f) \in Line
  BY <1>4, <1>6, SameWords, FlattenType DEF Line
<1>8. "tr" \in Tags
  BY TagNames
<1> QED BY <1>5, <1>7, <1>8, ElementTyped, WordsInElement

\* A section written has the words of its rows.
LEMMA SectionWords ==
  ASSUME NEW table \in Seq(Rows), NEW i \in 1..Len(table)
  PROVE  WordsOf(Section(table, i)) = WordsOf(FlattenSeq(FlattenSeq(table[i])))
<1> DEFINE cell == Cell(table, i)
           rows == table[i]
           f == [r \in DOMAIN rows |-> RowText(cell, rows[r])]
           g == [r \in 1..Len(rows) |-> FlattenSeq(rows[r])]
<1>1. rows \in Seq(Seq(Line)) /\ rows \in Seq(Seq(Seq(Symbols)))
  BY DEF Rows, Line
<1>2. cell \in Tags /\ SectionTag(table, i) \in Tags /\ Section(table, i) = Element(SectionTag(table, i), FlattenSeq(f))
  BY SectionIs
<1> HIDE DEF rows, cell
<1>3. Len(rows) \in Nat /\ DOMAIN rows = 1..Len(rows) /\ \A r \in 1..Len(rows) : rows[r] \in Seq(Line)
  BY <1>1
<1>4. \A r \in 1..Len(rows) : /\ RowText(cell, rows[r]) \in Line /\ FlattenSeq(rows[r]) \in Line
                              /\ WordsOf(RowText(cell, rows[r])) = WordsOf(FlattenSeq(rows[r]))
  BY <1>2, <1>3, RowTextWords, FlattenType DEF Line
<1>5. f \in [1..Len(rows) -> Line] /\ g \in [1..Len(rows) -> Line]
  BY <1>3, <1>4
<1>6. \A r \in 1..Len(rows) : WordsOf(f[r]) = WordsOf(g[r])
  BY <1>3, <1>4
<1>7. FlattenSeq(FlattenSeq(rows)) = FlattenSeq(g)
  BY <1>1, FlattenTwice
<1> HIDE DEF f, g
<1>8. f \in Seq(Line) /\ Len(f) = Len(rows) /\ g \in Seq(Line) /\ Len(g) = Len(rows)
  BY <1>3, <1>5, TableOf
<1>9. WordsOf(FlattenSeq(f)) = WordsOf(FlattenSeq(g)) /\ FlattenSeq(f) \in Line
  BY <1>6, <1>8, SameWords, FlattenType DEF Line
<1>10. WordsOf(Section(table, i)) = WordsOf(FlattenSeq(f))
  BY <1>2, <1>9, WordsInElement
<1> QED BY <1>7, <1>9, <1>10 DEF rows

\* A table written has the words of its cells.
LEMMA TableWords ==
  ASSUME NEW table \in Seq(Rows)
  PROVE  WordsOf(Table(table)) = WordsOf(CellsOf(table))
<1> DEFINE f == [i \in DOMAIN table |-> Section(table, i)]
           e == [i \in 1..Len(table) |-> FlattenSeq(table[i])]
           g == [i \in 1..Len(table) |-> FlattenSeq(FlattenSeq(table[i]))]
<1>1. /\ Len(table) \in Nat /\ DOMAIN table = 1..Len(table) /\ table \in Seq(Seq(Seq(Line)))
      /\ \A i \in 1..Len(table) : table[i] \in Seq(Seq(Line))
  BY DEF Rows
<1>2. \A i \in 1..Len(table) : FlattenSeq(table[i]) \in Seq(Line)
  BY <1>1, FlattenType
<1>3. \A i \in 1..Len(table) : FlattenSeq(FlattenSeq(table[i])) \in Line
  BY <1>2, FlattenType DEF Line
<1>4. \A i \in 1..Len(table) : Section(table, i) \in Line /\ WordsOf(Section(table, i)) = WordsOf(FlattenSeq(FlattenSeq(table[i])))
  BY SectionTyped, SectionWords
<1>5. /\ f \in [1..Len(table) -> Line] /\ g \in [1..Len(table) -> Line]
      /\ e \in [1..Len(table) -> Seq(Line)]
  BY <1>1, <1>2, <1>3, <1>4
<1>6. \A i \in 1..Len(table) : WordsOf(f[i]) = WordsOf(g[i]) /\ FlattenSeq(e[i]) = g[i]
  BY <1>1, <1>4
<1>7. FlattenSeq(FlattenSeq(table)) = FlattenSeq(e)
  BY <1>1, FlattenTwice
<1>8. Table(table) = Element("table", FlattenSeq(f))
  BY DEF Table
<1>12. g = [i \in 1..Len(table) |-> FlattenSeq(e[i])]
  BY <1>1
<1> HIDE DEF e, f, g
<1>9. f \in Seq(Line) /\ Len(f) = Len(table) /\ g \in Seq(Line) /\ Len(g) = Len(table)
      /\ e \in Seq(Seq(Line)) /\ Len(e) = Len(table)
  BY <1>1, <1>5, TableOf
<1>10. WordsOf(FlattenSeq(f)) = WordsOf(FlattenSeq(g)) /\ FlattenSeq(f) \in Line
  BY <1>6, <1>9, SameWords, FlattenType DEF Line
<1>11. FlattenSeq(FlattenSeq(e)) = FlattenSeq(g)
  <2>1. e \in Seq(Seq(Seq(Symbols)))
    BY <1>9 DEF Line
  <2>2. FlattenSeq(FlattenSeq(e)) = FlattenSeq([i \in 1..Len(e) |-> FlattenSeq(e[i])])
    BY <2>1, FlattenTwice
  <2> QED BY <1>9, <1>12, <2>2
<1>13. "table" \in Tags
  BY TagNames
<1>14. WordsOf(Table(table)) = WordsOf(FlattenSeq(f))
  BY <1>8, <1>10, <1>13, WordsInElement
<1> QED BY <1>7, <1>10, <1>11, <1>14 DEF CellsOf

-----------------------------------------------------------------------------
(* What a chain has written. *)

ResultsOf(c) == [i \in 1..Len(c) |-> c[i].result]
Total(c) == FlattenSeq(ResultsOf(c))

\* The results of a chain are lines.
LEMMA ResultsTyped ==
  ASSUME NEW c \in Seq(Parser)
  PROVE  /\ ResultsOf(c) \in Seq(Line) /\ Len(ResultsOf(c)) = Len(c) /\ Len(c) \in Nat
         /\ \A i \in 1..Len(c) : ResultsOf(c)[i] = c[i].result /\ c[i].result \in Line
         /\ Total(c) \in Line
<1>0. \A p \in Parser : p.result \in Line
  BY DEF Parser
<1>1. Len(c) \in Nat /\ \A i \in 1..Len(c) : c[i].result \in Line
  <2>1. Len(c) \in Nat /\ \A i \in 1..Len(c) : c[i] \in Parser
    OBVIOUS
  <2> QED BY <1>0, <2>1, Zenon
<1>2. ResultsOf(c) \in [1..Len(c) -> Line] /\ \A i \in 1..Len(c) : ResultsOf(c)[i] = c[i].result
  BY <1>1 DEF ResultsOf
<1>3. ResultsOf(c) \in Seq(Line) /\ Len(ResultsOf(c)) = Len(c)
  BY <1>1, <1>2, TableOf
<1>4. Total(c) \in Line
  BY <1>3, FlattenType DEF Total, Line
<1> QED BY <1>1, <1>2, <1>3, <1>4

\* Joining nothing.
LEMMA JoinNothing == \A s \in Line : s \o <<>> = s /\ <<>> \o s = s
BY DEF Line

\* A chain of none or one.
LEMMA TotalFew ==
  /\ Total(<<>>) = <<>>
  /\ \A p \in Parser : Total(<<p>>) = p.result
<1>1. Total(<<>>) = <<>>
  <2>1. ResultsOf(<<>>) = <<>>
    BY DEF ResultsOf
  <2> QED BY <2>1, FlattenNothing DEF Total
<1>2. ASSUME NEW p \in Parser PROVE Total(<<p>>) = p.result
  <2>1. p.result \in Line /\ Len(<<p>>) = 1 /\ <<p>>[1] = p /\ <<p>> \in Seq(Parser)
    BY DEF Parser
  <2> DEFINE c == <<p>>
  <2>2. c \in Seq(Parser) /\ Len(c) = 1 /\ c[1] = p
    BY <2>1
  <2> HIDE DEF c
  <2>3. ResultsOf(c) \in Seq(Line) /\ Len(ResultsOf(c)) = 1 /\ ResultsOf(c)[1] = p.result
    BY <2>2, ResultsTyped
  <2>4. <<>> \in Seq(Seq(Symbols)) /\ Len(<<>>) = 0 /\ ResultsOf(c) \in Seq(Seq(Symbols))
    BY <2>3 DEF Line
  <2>5. FlattenSeq(ResultsOf(c)) = FlattenSeq(<<>>) \o p.result
    <3>1. Len(ResultsOf(c)) = Len(<<>>) + 1 /\ \A i \in 1..Len(<<>>) : <<>>[i] = ResultsOf(c)[i]
      BY <2>3, <2>4
    <3>2. FlattenSeq(ResultsOf(c)) = FlattenSeq(<<>>) \o ResultsOf(c)[Len(ResultsOf(c))]
      BY <2>4, <3>1, FlattenLast
    <3> QED BY <2>3, <3>2
  <2> QED BY <2>1, <2>5, FlattenNothing, JoinNothing DEF Total, c
<1> QED BY <1>1, <1>2

\* One element in front of a sequence.
LEMMA InFront ==
  ASSUME NEW A, NEW a \in A, NEW s \in Seq(A)
  PROVE  LET t == <<a>> \o s
         IN  /\ t \in Seq(A) /\ Len(t) = Len(s) + 1 /\ t[1] = a
             /\ \A i \in 1..Len(s) : t[i + 1] = s[i]
OBVIOUS

\* The total of a chain under one more parser.
LEMMA TotalBelow ==
  ASSUME NEW p \in Parser, NEW b \in Seq(Parser)
  PROVE  Total(<<p>> \o b) = p.result \o Total(b)
<1> DEFINE c == <<p>> \o b
           n == Len(b)
<1>1. /\ c \in Seq(Parser) /\ Len(c) = n + 1 /\ n \in Nat /\ c[1] = p
      /\ \A i \in 1..n : c[i + 1] = b[i]
  BY InFront
<1>2. p.result \in Line
  BY DEF Parser
<1> HIDE DEF c
<1>3. /\ ResultsOf(c) \in Seq(Line) /\ Len(ResultsOf(c)) = n + 1
      /\ \A i \in 1..n + 1 : ResultsOf(c)[i] = c[i].result
  BY <1>1, ResultsTyped
<1>4. /\ ResultsOf(b) \in Seq(Line) /\ Len(ResultsOf(b)) = n
      /\ \A i \in 1..n : ResultsOf(b)[i] = b[i].result
  BY ResultsTyped
<1>5. <<p.result>> \in Seq(Line)
  BY <1>2
<1> HIDE DEF n
<1>6. ResultsOf(c) = <<p.result>> \o ResultsOf(b)
  <2> DEFINE t == <<p.result>> \o ResultsOf(b)
  <2>1. /\ t \in Seq(Line) /\ Len(t) = n + 1 /\ t[1] = p.result
        /\ \A i \in 1..n : t[i + 1] = ResultsOf(b)[i]
    BY <1>2, <1>4, InFront
  <2> HIDE DEF t
  <2>2. ASSUME NEW i \in 1..n + 1 PROVE ResultsOf(c)[i] = t[i]
    <3>1. CASE i = 1
      BY <1>1, <1>3, <2>1, <3>1
    <3>2. CASE i # 1
      <4>1. i - 1 \in 1..n /\ (i - 1) + 1 = i
        BY <1>1, <3>2
      <4>2. ResultsOf(c)[i] = c[i].result
        BY <1>3
      <4>3. c[i] = b[i - 1]
        BY <1>1, <4>1
      <4>4. t[i] = b[i - 1].result
        BY <1>4, <2>1, <4>1
      <4> QED BY <4>2, <4>3, <4>4
    <3> QED BY <3>1, <3>2
  <2>3. ResultsOf(c) = t
    BY <1>3, <2>1, <2>2, SeqEqual
  <2> QED BY <2>3 DEF t
<1>7. FlattenSeq(<<p.result>> \o ResultsOf(b)) = FlattenSeq(<<p.result>>) \o FlattenSeq(ResultsOf(b))
  BY <1>4, <1>5, FlattenJoin DEF Line
<1>8. FlattenSeq(<<p.result>>) = p.result
  <2>1. Append(<<>>, p.result) = <<p.result>> /\ <<>> \in Seq(Seq(Symbols)) /\ p.result \in Seq(Symbols)
    BY <1>2 DEF Line
  <2>2. FlattenSeq(Append(<<>>, p.result)) = FlattenSeq(<<>>) \o p.result
    BY <2>1, FlattenAppend
  <2> QED BY <1>2, <2>1, <2>2, FlattenNothing, JoinNothing
<1> QED BY <1>6, <1>7, <1>8 DEF Total, c

\* What is adopted is still there, when no more than the finished child is below.
LEMMA TotalAdopted ==
  ASSUME NEW p \in Parser, NEW b \in Seq(Parser), b # <<>> /\ b[1].finished => Len(b) = 1
  PROVE  Total(Adopt(p, b)) = p.result \o Total(b)
<1>1. CASE b # <<>> /\ b[1].finished
  <2> DEFINE q == [p EXCEPT !.result = p.result \o b[1].result]
  <2>1. b[1] \in Parser /\ b = <<b[1]>>
    BY <1>1
  <2>2. b[1].result \in Line
    BY <2>1 DEF Parser
  <2>3. Same(q, p) /\ q.result = p.result \o b[1].result
    BY <2>2, Results
  <2>4. Adopt(p, b) = <<q>>
    BY <1>1 DEF Adopt
  <2> HIDE DEF q
  <2>5. Total(<<q>>) = p.result \o b[1].result
    BY <2>3, TotalFew DEF Same
  <2>6. Total(b) = b[1].result
    BY <2>1, TotalFew
  <2> QED BY <2>4, <2>5, <2>6
<1>2. CASE ~(b # <<>> /\ b[1].finished)
  BY <1>2, TotalBelow DEF Adopt
<1> QED BY <1>1, <1>2

\* Where a parser is finished, those below it are.
DoneBelow(c) == \A i \in 2..Len(c) : c[i - 1].finished => c[i].finished

\* A chain up to its n-th parser, and one further.
LEMMA TotalGrows ==
  ASSUME NEW c \in Seq(Parser), NEW n \in 0..Len(c) - 1
  PROVE  Total(SubSeq(c, 1, n + 1)) = Total(SubSeq(c, 1, n)) \o c[n + 1].result
<1> DEFINE d == SubSeq(c, 1, n)
           e == SubSeq(c, 1, n + 1)
<1>1. /\ d \in Seq(Parser) /\ Len(d) = n /\ n \in Nat /\ \A i \in 1..n : d[i] = c[i]
      /\ e \in Seq(Parser) /\ Len(e) = n + 1 /\ \A i \in 1..n + 1 : e[i] = c[i]
  OBVIOUS
<1> HIDE DEF d, e
<1>2. /\ ResultsOf(d) \in Seq(Line) /\ Len(ResultsOf(d)) = n
      /\ \A i \in 1..n : ResultsOf(d)[i] = d[i].result
  BY <1>1, ResultsTyped
<1>3. /\ ResultsOf(e) \in Seq(Line) /\ Len(ResultsOf(e)) = n + 1
      /\ \A i \in 1..n + 1 : ResultsOf(e)[i] = e[i].result
  BY <1>1, ResultsTyped
<1>4. \A i \in 1..n : ResultsOf(d)[i] = ResultsOf(e)[i]
  <2> SUFFICES ASSUME NEW i \in 1..n PROVE ResultsOf(d)[i] = ResultsOf(e)[i]
    OBVIOUS
  <2>1. i \in 1..n + 1
    BY <1>1
  <2>2. d[i] = c[i] /\ e[i] = c[i]
    BY <1>1, <2>1
  <2>3. ResultsOf(d)[i] = d[i].result /\ ResultsOf(e)[i] = e[i].result
    BY <1>2, <1>3, <2>1
  <2> QED BY <2>2, <2>3
<1>5. n + 1 \in 1..n + 1 /\ ResultsOf(e)[n + 1] = c[n + 1].result
  <2>1. n + 1 \in 1..n + 1
    BY <1>1
  <2> QED BY <1>1, <1>3, <2>1
<1>6. FlattenSeq(ResultsOf(e)) = FlattenSeq(ResultsOf(d)) \o ResultsOf(e)[n + 1]
  <2> DEFINE f == ResultsOf(e)
             g == ResultsOf(d)
  <2>1. f \in Seq(Seq(Symbols)) /\ g \in Seq(Seq(Symbols)) /\ Len(f) = n + 1 /\ Len(g) = n
        /\ \A i \in 1..n : g[i] = f[i]
    BY <1>2, <1>3, <1>4 DEF Line
  <2> HIDE DEF f, g
  <2>2. Len(f) = Len(g) + 1 /\ \A i \in 1..Len(g) : g[i] = f[i]
    BY <2>1
  <2>3. FlattenSeq(f) = FlattenSeq(g) \o f[Len(f)]
    BY <2>1, <2>2, FlattenLast
  <2> QED BY <2>1, <2>3 DEF f, g
<1> QED BY <1>5, <1>6 DEF Total, d, e

\* Adopting finished children loses nothing of what they have written.
LEMMA AdoptedTotal ==
  ASSUME NEW c \in Seq(Parser), c # <<>>, DoneBelow(c)
  PROVE  LET r == Adopted(c)
         IN  Total(r) = Total(c) /\ (r[1].finished => Len(r) = 1)
<1> DEFINE N == Len(c)
           Whole(n, b) == Total(SubSeq(c, 1, N - n)) \o Total(b) = Total(c)
           Ends1(n, b) == /\ n = 0 => b = <<>>
                          /\ n # 0 => b # <<>> /\ b[1].finished = c[N - n + 1].finished
                          /\ b # <<>> /\ b[1].finished => Len(b) = 1
           At(n) == {b \in Seq(Parser) : Whole(n, b) /\ Ends1(n, b)}
           R == [n \in 0..N |-> At(n)]
<1>1. N \in Nat /\ N # 0 /\ Total(c) \in Line
  BY ResultsTyped
<1>2. <<>> \in R[0]
  <2>1. R[0] = At(0)
    BY <1>1
  <2>2. SubSeq(c, 1, N - 0) = c
    BY <1>1, SubSeqFull
  <2>3. Whole(0, <<>>)
    BY <1>1, <2>2, TotalFew, JoinNothing
  <2>4. Ends1(0, <<>>)
    OBVIOUS
  <2> HIDE DEF R, Whole, Ends1
  <2> QED BY <2>1, <2>3, <2>4
<1>3. ASSUME NEW n \in 1..N, NEW b \in R[n - 1] PROVE Adopt(c[N - n + 1], b) \in R[n]
  <2>1. R[n - 1] = At(n - 1) /\ R[n] = At(n) /\ n - 1 \in Nat /\ n # 0 /\ n \in Nat
    <3>1. n - 1 \in 0..N /\ n \in 0..N /\ n - 1 \in Nat /\ n # 0 /\ n \in Nat
      BY <1>1
    <3> HIDE DEF At, N
    <3> QED BY <3>1
  <2> HIDE DEF R
  <2> DEFINE m == N - n
             p == c[m + 1]
  <2>2. /\ m \in Nat /\ N - (n - 1) = m + 1 /\ m + 1 \in 1..N /\ m \in 0..N - 1 /\ p \in Parser
        /\ (n - 1 # 0 => m + 2 \in 2..N /\ (m + 2) - 1 = m + 1 /\ (m + 1) + 1 = m + 2)
    BY <1>1
  <2>3. b \in Seq(Parser) /\ Whole(n - 1, b) /\ Ends1(n - 1, b)
    <3> HIDE DEF Whole, Ends1
    <3> QED BY <2>1
  <2>4. Total(SubSeq(c, 1, m + 1)) \o Total(b) = Total(c)
    BY <2>2, <2>3
  <2>5. /\ n - 1 = 0 => b = <<>>
        /\ n - 1 # 0 => b # <<>> /\ b[1].finished = c[m + 2].finished
        /\ b # <<>> /\ b[1].finished => Len(b) = 1
    <3>1. n - 1 # 0 => b # <<>> /\ b[1].finished = c[N - (n - 1) + 1].finished
      BY <2>3
    <3>2. n - 1 # 0 => N - (n - 1) + 1 = m + 2
      BY <2>2
    <3> QED BY <2>3, <3>1, <3>2
  <2> DEFINE t == Adopt(p, b)
  <2>6. Total(t) = p.result \o Total(b)
    BY <2>2, <2>3, <2>5, TotalAdopted
  <2>7. Total(SubSeq(c, 1, m + 1)) = Total(SubSeq(c, 1, m)) \o p.result
    BY <2>2, TotalGrows
  <2>8. Total(SubSeq(c, 1, m)) \o Total(t) = Total(c)
    <3>1. Total(b) \in Line /\ p.result \in Line
      BY <2>2, <2>3, ResultsTyped DEF Parser
    <3>2. SubSeq(c, 1, m) \in Seq(Parser)
      BY <2>2
    <3>3. Total(SubSeq(c, 1, m)) \in Line
      BY <3>2, ResultsTyped
    <3> DEFINE x == Total(SubSeq(c, 1, m))
               y == p.result
               z == Total(b)
    <3>4. x \in Line /\ y \in Line /\ z \in Line /\ Total(t) = y \o z /\ (x \o y) \o z = Total(c)
      BY <2>4, <2>6, <2>7, <3>1, <3>3
    <3> HIDE DEF t, p, m, x, y, z
    <3>5. x \o (y \o z) = (x \o y) \o z
      BY <3>4, Rejoined
    <3>6. x \o Total(t) = Total(c)
      BY <3>4, <3>5
    <3> QED BY <3>6 DEF x
  <2>9. /\ t \in Seq(Parser) /\ t # <<>> /\ t[1].finished = p.finished
        /\ (t[1].finished => Len(t) = 1)
    <3>1. CASE b # <<>> /\ b[1].finished
      <4> DEFINE q == [p EXCEPT !.result = p.result \o b[1].result]
      <4>1. t = <<q>>
        BY <3>1 DEF Adopt
      <4>2. b[1] \in Parser
        BY <2>3, <3>1
      <4>3. b[1].result \in Line
        BY <4>2 DEF Parser
      <4>4. q \in Parser /\ q.finished = p.finished
        BY <2>2, <4>3, Results DEF Same
      <4> HIDE DEF q, t, p
      <4> QED BY <4>1, <4>4
    <3>2. CASE ~(b # <<>> /\ b[1].finished)
      <4>1. t = <<p>> \o b
        BY <3>2 DEF Adopt
      <4>2. t \in Seq(Parser) /\ Len(t) = Len(b) + 1 /\ t[1] = p
        BY <2>2, <2>3, <4>1, InFront
      <4>3. ASSUME p.finished PROVE b = <<>>
        <5>1. CASE n - 1 = 0
          BY <2>5, <5>1
        <5>2. CASE n - 1 # 0
          <6>1. c[m + 2].finished
            BY <2>2, <4>3, <5>2 DEF DoneBelow
          <6> QED BY <2>5, <3>2, <5>2, <6>1
        <5> QED BY <5>1, <5>2
      <4>4. Len(b) \in Nat /\ (b = <<>> => Len(b) = 0)
        BY <2>3
      <4>5. t # <<>>
        BY <4>2, <4>4
      <4> HIDE DEF t, p
      <4> QED BY <4>2, <4>3, <4>4, <4>5
    <3> QED BY <3>1, <3>2
  <2>10. Whole(n, t)
    BY <2>8
  <2>11. Ends1(n, t)
    <3> HIDE DEF t
    <3> QED BY <2>1, <2>9
  <2> HIDE DEF Whole, Ends1
  <2> QED BY <2>1, <2>9, <2>10, <2>11 DEF t, p, m
<1>4. R \in [0..N -> SUBSET Seq(Parser)]
  <2> HIDE DEF Whole, Ends1
  <2> QED BY Zenon
<1>5. R[N] = At(N)
  BY <1>1
<1> HIDE DEF R
<1>6. Adopted(c) \in R[N]
  BY <1>1, <1>2, <1>3, <1>4, Ascends
<1> DEFINE r == Adopted(c)
<1>7. r \in Seq(Parser) /\ Whole(N, r) /\ Ends1(N, r)
  <2> HIDE DEF Whole, Ends1
  <2> QED BY <1>5, <1>6
<1> HIDE DEF r
<1>8. Total(SubSeq(c, 1, 0)) = <<>>
  <2>1. SubSeq(c, 1, 0) = <<>>
    BY SubSeqEmpty
  <2> QED BY <2>1, TotalFew
<1>9. N - N = 0
  BY <1>1
<1>10. Total(r) = Total(c)
  <2>1. Total(r) \in Line
    BY <1>7, ResultsTyped
  <2>2. Total(SubSeq(c, 1, N - N)) \o Total(r) = Total(c)
    BY <1>7
  <2> QED BY <1>8, <1>9, <2>1, <2>2, JoinNothing
<1> QED BY <1>1, <1>7, <1>10 DEF r

-----------------------------------------------------------------------------
(* The words of a line on its way down. *)

\* No table among them, nor rows.
Tableless(c) == \A i \in 1..Len(c) : c[i].kind # "table" /\ c[i].table = <<>>

Carried(chain, line, w) ==
  /\ WordsOf(w.line) = WordsOf(line)
  /\ \A i \in 1..Len(w.chain) :
       WordsOf(w.chain[i].result) = IF i <= Len(chain) THEN WordsOf(chain[i].result) ELSE <<>>
  /\ Tableless(w.chain)
  /\ DoneBelow(w.chain)
  /\ w.chain # <<>> /\ Last(w.chain).kind \in ListKinds /\ Last(w.chain).finished =>
       \E t \in Line : w.line = CloseList(Last(w.chain).kind) \o t
  /\ w.chain # <<>> /\ Last(w.chain).kind = "quote" /\ w.given = <<>> => w.line = <<>>

\* A list that is finished hands on the tags that close it.
LEMMA ListHandsOn ==
  ASSUME NEW p \in Parser, NEW line \in Line, p.kind \in ListKinds, ~p.finished,
         LET b == parseList(p, line) IN b.p.finished
  PROVE  \E t \in Line : parseList(p, line).line = CloseList(p.kind) \o t
<1> DEFINE b == parseList(p, line)
<1>1. Opens(p, line, b) \/ Shifts(p, line, b) \/ Closes(p, line, b) \/ Goes(p, line, b)
  BY ListStep
<1>2. b.p.finished
  OBVIOUS
<1> HIDE DEF b
<1>3. Closes(p, line, b)
  BY <1>1, <1>2 DEF Opens, Shifts, Goes, Flagged
<1>4. b.line = CloseList(p.kind) \o Unmarked(p.kind, line)
  BY <1>3 DEF Closes
<1> QED BY <1>4, WordsUnmarked DEF b

\* The child of a finished parser is finished by the line it is handed.
LEMMA ChildDone ==
  ASSUME NEW k \in Kinds, k # "quote", NEW p \in Parser, p.kind \in Below(k), NEW line \in Line,
         Ready(p, line), k \in ListKinds => \E t \in Line : line = CloseList(k) \o t
  PROVE  LET b == parseBlock(p, line)
         IN  /\ p.kind \in ListKinds /\ b.p.finished
             /\ \E t \in Line : b.line = CloseList(p.kind) \o t
<1>1. k \in ListKinds /\ p.kind \in ChildKinds(k) /\ p.kind \in ListKinds
  <2>1. ChildKinds(k) # {}
    BY DEF Below
  <2>2. k \in ListKinds
    BY <2>1, Children, KindNames DEF ListKinds
  <2>3. p.kind \in ListKinds
    BY <2>2, Children DEF Below, ListKinds
  <2> QED BY <2>2, <2>3 DEF Below
<1>2. PICK t \in Line : line = CloseList(k) \o t
  BY <1>1
<1>3. line # <<>> /\ line[1] \in EndMarks
  BY <1>1, <1>2, ListTags, Joined DEF EndMarks
<1>4. p.started
  <2>1. line[1] \notin MarkStarts
    BY <1>3, TagsAreNoMarks
  <2>2. ~IsStartingLine(p.kind, line)
    BY <1>1, <2>1, NoList
  <2> QED BY <2>2 DEF Ready
<1> DEFINE b == parseList(p, line)
<1>5. Closes(p, line, b) /\ Unmarked(p.kind, line) = line
  <2>1. CloseList(k) \in {NextItem(k), CloseList(k)}
    OBVIOUS
  <2> QED BY <1>1, <1>2, <1>4, <2>1, EndsWithParent
<1>6. parseBlock(p, line) = b
  BY <1>1, ParsedAs
<1> HIDE DEF b
<1>7. b.p.finished /\ b.line = CloseList(p.kind) \o line
  BY <1>5 DEF Closes, Flagged
<1> QED BY <1>1, <1>6, <1>7

\* The parsers the line is given to are no tables, and have the words they had.
LEMMA ReceivesWords ==
  ASSUME NEW chain, NEW line, Standing(chain, line), Tableless(chain),
         NEW w, Going(chain, line, w), NEW p, Receives(chain, w, p)
  PROVE  LET n == Len(w.chain)
         IN  /\ n \in Nat /\ p \in Parser /\ Ready(p, w.line) /\ w.line \in Line /\ ~p.finished
             /\ p.kind # "table" /\ p.table = <<>>
             /\ WordsOf(p.result) = IF n + 1 <= Len(chain) THEN WordsOf(chain[n + 1].result) ELSE <<>>
<1> DEFINE n == Len(w.chain)
<1>1. w \in Ways /\ p \in Parser /\ Ready(p, w.line)
  BY Zenon DEF Going, Receives
<1>2. w.chain \in Seq(Parser) /\ n \in Nat /\ w.line \in Line
  BY <1>1 DEF Ways
<1>3. chain \in Seq(Parser) /\ Len(chain) \in Nat /\ Len(chain) # 0
  BY DEF Standing
<1>4. ~p.finished
  BY <1>1 DEF Ready
<1>5. CASE n < Len(chain)
  <2>1. p = chain[n + 1] /\ n + 1 \in 1..Len(chain) /\ n + 1 <= Len(chain)
    BY <1>2, <1>3, <1>5 DEF Receives
  <2>2. p.kind # "table" /\ p.table = <<>>
    BY <2>1 DEF Tableless
  <2> QED BY <1>1, <1>2, <1>4, <2>1, <2>2
<1>6. CASE ~(n < Len(chain))
  <2>1. p = NewParser(p.kind) /\ ~(n + 1 <= Len(chain)) /\ w.chain # <<>>
    BY <1>2, <1>3, <1>6 DEF Receives
  <2>2. p.kind # "table"
    BY <2>1 DEF Receives, Below
  <2>3. p.kind \in Kinds
    BY <1>1 DEF Parser
  <2>4. p.table = <<>> /\ p.result = <<>>
    BY <2>1, <2>3, Made
  <2> QED BY <1>1, <1>2, <1>4, <2>1, <2>2, <2>4, WordsNothing
<1> QED BY <1>5, <1>6

\* Each parser hands on the words it was given, and adds none to those it had.
LEMMA CarriedOn ==
  ASSUME NEW chain, NEW line, Standing(chain, line), Tableless(chain),
         NEW w, Going(chain, line, w), Carried(chain, line, w),
         NEW p, Receives(chain, w, p), NEW v, Handed(w, p, v)
  PROVE  Carried(chain, line, v)
<1> DEFINE b == parseBlock(p, w.line)
           n == Len(w.chain)
<1>0. /\ n \in Nat /\ p \in Parser /\ Ready(p, w.line) /\ w.line \in Line /\ ~p.finished
      /\ p.kind # "table" /\ p.table = <<>>
      /\ WordsOf(p.result) = IF n + 1 <= Len(chain) THEN WordsOf(chain[n + 1].result) ELSE <<>>
  BY ReceivesWords
<1>1. /\ Kept(b, p) /\ v.given = w.line /\ v.line = b.line /\ Last(v.chain) = b.p
      /\ Len(v.chain) = n + 1 /\ v.chain[n + 1] = b.p /\ \A i \in 1..n : v.chain[i] = w.chain[i]
  BY Zenon DEF Handed
<1>2. /\ WordsOf(b.line) = WordsOf(w.line) /\ WordsOf(b.p.result) = WordsOf(p.result)
      /\ p.kind = "quote" /\ w.line = <<>> => b.line = <<>>
  BY <1>0, ParsedWords
<1>3. b.p.kind = p.kind /\ b.p.table = <<>> /\ (p.kind = "quote" => ~b.p.finished)
  BY <1>0, <1>1 DEF Kept
<1>4. p.kind \in ListKinds /\ b.p.finished => \E t \in Line : b.line = CloseList(p.kind) \o t
  <2> SUFFICES ASSUME p.kind \in ListKinds, b.p.finished PROVE \E t \in Line : b.line = CloseList(p.kind) \o t
    OBVIOUS
  <2>1. b = parseList(p, w.line)
    BY <1>0, ParsedAs
  <2> HIDE DEF b
  <2> QED BY <1>0, <2>1, ListHandsOn
<1>5. n # 0 /\ w.chain[n].finished => b.p.finished
  <2> SUFFICES ASSUME n # 0, w.chain[n].finished PROVE b.p.finished
    OBVIOUS
  <2>1. w.chain # <<>> /\ Last(w.chain) = w.chain[n] /\ n \in 1..n
    BY <1>0 DEF Last
  <2>2. p.kind \in Below(Last(w.chain).kind)
    BY <2>1 DEF Receives
  <2>3. Fit(w.chain[n])
    BY <2>1 DEF Going
  <2>4. Last(w.chain).kind # "quote"
    BY <2>1, <2>3 DEF Fit
  <2>5. Last(w.chain).kind \in Kinds
    <3>1. w.chain \in Seq(Parser)
      <4>1. w \in Ways
        BY Zenon DEF Going
      <4> QED BY <4>1 DEF Ways
    <3>2. w.chain[n] \in Parser
      BY <2>1, <3>1
    <3> QED BY <2>1, <3>2 DEF Parser
  <2>6. Last(w.chain).kind \in ListKinds => \E t \in Line : w.line = CloseList(Last(w.chain).kind) \o t
    BY <2>1 DEF Carried
  <2> HIDE DEF b, n
  <2> QED BY <1>0, <2>2, <2>4, <2>5, <2>6, ChildDone DEF b
<1> HIDE DEF b, n
<1>6. \A i \in 1..n + 1 : i = n + 1 \/ i \in 1..n
  BY <1>0
<1>7. WordsOf(v.line) = WordsOf(line)
  BY <1>1, <1>2 DEF Carried
<1>8. \A i \in 1..n + 1 :
        WordsOf(v.chain[i].result) = IF i <= Len(chain) THEN WordsOf(chain[i].result) ELSE <<>>
  BY <1>0, <1>1, <1>2, <1>6 DEF Carried, n
<1>9. \A i \in 1..n + 1 : v.chain[i].kind # "table" /\ v.chain[i].table = <<>>
  BY <1>0, <1>1, <1>3, <1>6 DEF Carried, Tableless, n
<1>10. \A i \in 2..n + 1 : v.chain[i - 1].finished => v.chain[i].finished
  <2> SUFFICES ASSUME NEW i \in 2..n + 1, v.chain[i - 1].finished PROVE v.chain[i].finished
    OBVIOUS
  <2>1. CASE i = n + 1
    <3>0. n \in Nat /\ i \in 2..n + 1
      BY <1>0
    <3>1. n # 0 /\ n \in 1..n /\ i - 1 = n
      BY ONLY <2>1, <3>0
    <3> QED BY <1>1, <1>5, <2>1, <3>1
  <2>2. CASE i # n + 1
    <3>1. i \in 1..n /\ i - 1 \in 1..n /\ i \in 2..n
      BY <1>0, <2>2
    <3> QED BY <1>1, <3>1 DEF Carried, DoneBelow, n
  <2> QED BY <2>1, <2>2
<1> QED BY <1>0, <1>1, <1>2, <1>3, <1>4, <1>7, <1>8, <1>9, <1>10 DEF Carried, Tableless, DoneBelow

\* Parts without words behind the others change nothing.
LEMMA WordlessRest ==
  ASSUME NEW f \in Seq(Line), NEW g \in Seq(Line), Len(g) <= Len(f),
         \A i \in 1..Len(f) : WordsOf(f[i]) = IF i <= Len(g) THEN WordsOf(g[i]) ELSE <<>>
  PROVE  WordsOf(FlattenSeq(f)) = WordsOf(FlattenSeq(g))
<1> DEFINE a == Len(g)
           At(n) == WordsOf(FlattenSeq(SubSeq(f, 1, a + n))) = WordsOf(FlattenSeq(g))
           T == {n \in Nat : a + n <= Len(f) => At(n)}
<1>0. a \in Nat /\ Len(f) \in Nat
  OBVIOUS
<1>1. 0 \in T
  <2> DEFINE e == SubSeq(f, 1, a)
  <2>1. e \in Seq(Line) /\ Len(e) = a /\ \A i \in 1..a : e[i] = f[i]
    BY <1>0
  <2>2. a + 0 = a
    BY <1>0
  <2> HIDE DEF e
  <2>3. \A i \in 1..a : i \in 1..Len(f) /\ i <= Len(g)
    BY <1>0
  <2>4. \A i \in 1..a : WordsOf(e[i]) = WordsOf(g[i])
    <3> SUFFICES ASSUME NEW i \in 1..a PROVE WordsOf(e[i]) = WordsOf(g[i])
      OBVIOUS
    <3>1. WordsOf(f[i]) = IF i <= Len(g) THEN WordsOf(g[i]) ELSE <<>>
      BY <2>3
    <3> QED BY <2>1, <2>3, <3>1
  <2>5. WordsOf(FlattenSeq(e)) = WordsOf(FlattenSeq(g))
    BY <2>1, <2>4, SameWords
  <2>6. At(0)
    BY <2>2, <2>5 DEF e
  <2> HIDE DEF At
  <2> QED BY <2>6
<1>2. ASSUME NEW n \in T PROVE n + 1 \in T
  <2> SUFFICES ASSUME a + (n + 1) <= Len(f) PROVE At(n + 1)
    <3> HIDE DEF At
    <3> QED OBVIOUS
  <2> DEFINE m == a + n
             d == SubSeq(f, 1, m)
             e == SubSeq(f, 1, m + 1)
  <2>1. n \in Nat /\ m \in Nat /\ m + 1 \in 1..Len(f) /\ a + (n + 1) = m + 1 /\ a + n <= Len(f) /\ ~(m + 1 <= a)
    BY <1>0
  <2>2. At(n)
    <3> HIDE DEF At, m
    <3> QED BY <2>1
  <2>3. /\ d \in Seq(Line) /\ Len(d) = m /\ \A i \in 1..m : d[i] = f[i]
        /\ e \in Seq(Line) /\ Len(e) = m + 1 /\ \A i \in 1..m + 1 : e[i] = f[i]
    <3> HIDE DEF m
    <3> QED BY <2>1
  <2>4. f[m + 1] \in Line /\ WordsOf(f[m + 1]) = <<>>
    <3> HIDE DEF m
    <3> QED BY <2>1
  <2>5. FlattenSeq(e) = FlattenSeq(d) \o f[m + 1]
    <3> HIDE DEF m, d, e
    <3>1. m + 1 \in 1..m + 1 /\ \A i \in 1..m : i \in 1..m + 1
      BY <2>1
    <3>2. e[m + 1] = f[m + 1] /\ \A i \in 1..m : d[i] = e[i]
      BY <2>3, <3>1
    <3>3. d \in Seq(Seq(Symbols)) /\ e \in Seq(Seq(Symbols)) /\ Len(e) = Len(d) + 1 /\ \A i \in 1..Len(d) : d[i] = e[i]
      BY <2>3, <3>2 DEF Line
    <3>4. FlattenSeq(e) = FlattenSeq(d) \o e[Len(e)]
      BY <3>3, FlattenLast
    <3> QED BY <2>3, <3>2, <3>4
  <2>6. FlattenSeq(d) \in Line
    BY <2>3, FlattenType DEF Line
  <2>7. WordsOf(FlattenSeq(e)) = WordsOf(FlattenSeq(d)) \o <<>>
    <3> HIDE DEF m, d, e
    <3> QED BY <2>4, <2>5, <2>6, WordsJoin
  <2>8. WordsOf(FlattenSeq(d)) \o <<>> = WordsOf(FlattenSeq(d))
    BY <2>6, WordsTyped, JoinNothing
  <2>9. WordsOf(FlattenSeq(d)) = WordsOf(FlattenSeq(g))
    BY <2>2
  <2>10. WordsOf(FlattenSeq(e)) = WordsOf(FlattenSeq(g))
    BY <2>7, <2>8, <2>9
  <2> QED BY <2>1, <2>10
<1>3. T = Nat
  <2>1. T \in SUBSET Nat
    OBVIOUS
  <2> HIDE DEF T
  <2> QED BY <1>1, <1>2, <2>1, Induction
<1>4. Len(f) - a \in T /\ a + (Len(f) - a) = Len(f)
  <2>1. a <= Len(f)
    OBVIOUS
  <2> HIDE DEF a, T
  <2>2. Len(f) - a \in Nat /\ a + (Len(f) - a) = Len(f)
    BY ONLY <1>0, <2>1
  <2> QED BY <1>3, <2>2
<1>5. At(Len(f) - a)
  <2> HIDE DEF At
  <2> QED BY <1>0, <1>4
<1>6. SubSeq(f, 1, Len(f)) = f
  BY SubSeqFull
<1> QED BY <1>4, <1>5, <1>6

\* The line that arrives has the words it set out with, and so have the parsers.
LEMMA CarriedThrough ==
  ASSUME NEW chain, NEW line, Standing(chain, line), Tableless(chain)
  PROVE  LET w == HandedDown(chain, line) IN w \in Ways /\ Arrived(chain, line, w) /\ Carried(chain, line, w)
<1> DEFINE D == {v \in Ways : Carried(chain, line, v)}
<1>1. Begin(line) \in D
  <2>1. Begin(line) \in Ways
    BY SetsOut DEF Going
  <2>2. Begin(line).chain = <<>> /\ Begin(line).line = line
    BY DEF Begin
  <2> QED BY <2>1, <2>2 DEF Carried, Tableless, DoneBelow
<1>2. ASSUME NEW v \in D, NEW p, NEW u, Going(chain, line, v), Receives(chain, v, p), Handed(v, p, u)
      PROVE  u \in D
  <2>1. Carried(chain, line, u)
    BY <1>2, CarriedOn
  <2>2. u \in Ways
    BY <1>2, Zenon DEF Handed
  <2> QED BY <2>1, <2>2
<1>3. HandedDown(chain, line) \in D /\ Arrived(chain, line, HandedDown(chain, line))
  <2> HIDE DEF D
  <2> QED BY <1>1, <1>2, Descent
<1> QED BY <1>3

\* d is c and one parser more.
Longer(d, c, p) == /\ d \in Seq(Parser) /\ Len(d) = Len(c) + 1 /\ d[Len(c) + 1] = p
                   /\ \A i \in 1..Len(c) : d[i] = c[i]

\* A chain is what is above its last parser, and that one.
LEMMA LastOf ==
  ASSUME NEW c \in Seq(Parser), c # <<>>
  PROVE  LET d == SubSeq(c, 1, Len(c) - 1)
         IN  /\ d \in Seq(Parser) /\ Len(d) = Len(c) - 1 /\ \A i \in 1..Len(c) - 1 : d[i] = c[i]
             /\ Longer(c, d, Last(c)) /\ Total(c) = Total(d) \o Last(c).result
<1> DEFINE n == Len(c)
           d == SubSeq(c, 1, n - 1)
<1>1. /\ n \in Nat /\ n # 0 /\ n - 1 \in 0..n - 1 /\ n - 1 \in Nat /\ (n - 1) + 1 = n
      /\ Last(c) = c[n]
  BY LastIn
<1>2. d \in Seq(Parser) /\ Len(d) = n - 1 /\ \A i \in 1..n - 1 : d[i] = c[i]
  BY <1>1
<1>3. Total(c) = Total(d) \o Last(c).result
  <2>1. SubSeq(c, 1, n) = c
    BY SubSeqFull
  <2>2. Total(SubSeq(c, 1, (n - 1) + 1)) = Total(SubSeq(c, 1, n - 1)) \o c[(n - 1) + 1].result
    <3> HIDE DEF d
    <3> QED BY <1>1, TotalGrows
  <2> QED BY <1>1, <2>1, <2>2
<1> HIDE DEF d
<1>4. Longer(c, d, Last(c))
  BY <1>1, <1>2 DEF Longer
<1> QED BY <1>2, <1>3, <1>4 DEF d

\* Writing changes the innermost parser alone.
LEMMA WrittenBehind ==
  ASSUME NEW w \in Ways, w.chain # <<>>
  PROVE  \E d \in Seq(Parser) : /\ Total(WrittenChain(w)) = Total(d) \o Written(w).result
                                /\ Total(w.chain) = Total(d) \o Last(w.chain).result
<1> DEFINE c == WrittenChain(w)
           a == w.chain
           n == Len(a)
           d == SubSeq(a, 1, n - 1)
           e == SubSeq(c, 1, n - 1)
           q == Written(w)
<1>1. /\ c \in Seq(Parser) /\ Len(c) = n /\ c[n] = q
      /\ \A i \in 1..n : i # n => c[i] = a[i]
  BY WrittenChainIs
<1>2. a \in Seq(Parser) /\ a # <<>> /\ n \in Nat /\ n # 0 /\ Last(a) \in Parser
  BY LastIn DEF Ways
<1> HIDE DEF c, a, q
<1>3. d \in Seq(Parser) /\ Len(d) = n - 1 /\ Total(a) = Total(d) \o Last(a).result /\ \A i \in 1..n - 1 : d[i] = a[i]
  BY <1>2, LastOf
<1>4. e \in Seq(Parser) /\ Len(e) = n - 1 /\ Total(c) = Total(e) \o Last(c).result /\ \A i \in 1..n - 1 : e[i] = c[i]
  <2>1. c # <<>> /\ Len(c) - 1 = n - 1 /\ e = SubSeq(c, 1, Len(c) - 1)
    BY <1>1, <1>2
  <2> HIDE DEF e, n
  <2>2. /\ e \in Seq(Parser) /\ Len(e) = Len(c) - 1 /\ Total(c) = Total(e) \o Last(c).result
        /\ \A i \in 1..Len(c) - 1 : e[i] = c[i]
    BY <1>1, <2>1, LastOf
  <2> QED BY <2>1, <2>2
<1> HIDE DEF n, d, e
<1>5. d = e
  <2>1. \A i \in 1..n - 1 : d[i] = e[i]
    <3>1. \A i \in 1..n - 1 : i \in 1..n /\ i # n
      BY <1>2
    <3> QED BY <1>1, <1>3, <1>4, <3>1
  <2> QED BY <1>3, <1>4, <2>1, SeqEqual
<1>6. Last(c) = q
  BY <1>1 DEF Last
<1> QED BY <1>3, <1>4, <1>5, <1>6 DEF c, a, q

\* What the innermost parser has then written.
LEMMA WrittenWords ==
  ASSUME NEW chain, NEW line, NEW w \in Ways, w.chain # <<>>, Carried(chain, line, w)
  PROVE  LET c == WrittenChain(w)
         IN  /\ c \in Seq(Parser) /\ Len(c) = Len(w.chain) /\ Tableless(c) /\ DoneBelow(c)
             /\ WordsOf(Total(c)) = WordsOf(Total(w.chain)) \o WordsOf(line)
<1> DEFINE c == WrittenChain(w)
           n == Len(w.chain)
           q == Written(w)
<1>1. /\ c \in Seq(Parser) /\ Len(c) = n /\ c[n] = q
      /\ \A i \in 1..n : i # n => c[i] = w.chain[i]
      /\ \A i \in 1..n : c[i].kind = w.chain[i].kind
  BY WrittenChainIs
<1>2. /\ w.chain \in Seq(Parser) /\ w.line \in Line /\ n \in Nat /\ n # 0 /\ n \in 1..n
      /\ Last(w.chain) = w.chain[n] /\ Last(w.chain) \in Parser
  BY LastIn DEF Ways
<1>3. Wrote(w, q)
  BY WrittenIs
<1> HIDE DEF c, q
<1>4. q.table = w.chain[n].table /\ (w.chain[n].finished => q.finished)
  BY <1>2, <1>3 DEF Wrote
<1>5. Tableless(c)
  <2>1. \A i \in 1..n : w.chain[i].kind # "table" /\ w.chain[i].table = <<>>
    BY DEF Carried, Tableless
  <2> QED BY <1>1, <1>4, <2>1 DEF Tableless
<1>6. DoneBelow(c)
  <2> SUFFICES ASSUME NEW i \in 2..n, c[i - 1].finished PROVE c[i].finished
    BY <1>1 DEF DoneBelow
  <2>1. i - 1 \in 1..n /\ i - 1 # n /\ i \in 1..n
    BY <1>2
  <2>2. w.chain[i].finished
    BY <1>1, <2>1 DEF Carried, DoneBelow
  <2> QED BY <1>1, <1>4, <2>1, <2>2
<1>7. /\ q.result \in Line /\ w.chain[n].result \in Line
      /\ WordsOf(q.result) = WordsOf(w.chain[n].result) \o WordsOf(w.line)
  <2>1. q.result \in Line /\ w.chain[n].result \in Line
    <3>1. \A x \in Parser : x.result \in Line
      BY DEF Parser
    <3>2. q \in Parser /\ w.chain[n] \in Parser
      BY <1>2, <1>3 DEF Wrote
    <3> QED BY <3>1, <3>2
  <2>2. CASE q.kind = "quote" /\ w.given = <<>>
    <3>1. Last(w.chain).kind = "quote" /\ q.result = Append(w.chain[n].result, "</blockquote>")
      BY <1>2, <1>3, <2>2 DEF Wrote
    <3>2. w.line = <<>>
      BY <2>2, <3>1 DEF Carried
    <3>3. "</blockquote>" \in Symbols \cap Silent
      BY Literals, SilentTags, Zenon
    <3>4. WordsOf(q.result) = WordsOf(w.chain[n].result)
      BY <2>1, <3>1, <3>3, SilentAppended
    <3>5. WordsOf(w.chain[n].result) \o <<>> = WordsOf(w.chain[n].result)
      BY <2>1, WordsTyped, JoinNothing
    <3> QED BY <2>1, <3>2, <3>4, <3>5, WordsNothing
  <2>3. CASE ~(q.kind = "quote" /\ w.given = <<>>)
    <3>1. \/ q.result = w.chain[n].result \o runLineParser(w.line)
          \/ q.result = w.chain[n].result \o w.line
      BY <1>2, <1>3, <2>3 DEF Wrote
    <3>2. runLineParser(w.line) \in Line /\ WordsOf(runLineParser(w.line)) = WordsOf(w.line)
      BY <1>2, LineParserTyped, WordsRun
    <3> QED BY <1>2, <2>1, <3>1, <3>2, WordsJoin
  <2> QED BY <2>2, <2>3
<1>8. PICK d \in Seq(Parser) : /\ Total(c) = Total(d) \o q.result
                              /\ Total(w.chain) = Total(d) \o w.chain[n].result
  BY <1>2, WrittenBehind DEF c, q
<1> HIDE DEF n
<1>9. WordsOf(Total(c)) = WordsOf(Total(w.chain)) \o WordsOf(w.line)
  <2> DEFINE x == WordsOf(Total(d))
             y == WordsOf(w.chain[n].result)
             z == WordsOf(w.line)
  <2>1. Total(d) \in Line
    BY <1>8, ResultsTyped
  <2>2. WordsOf(Total(c)) = x \o WordsOf(q.result)
    BY <1>7, <1>8, <2>1, WordsJoin
  <2>3. WordsOf(Total(w.chain)) = x \o y
    BY <1>7, <1>8, <2>1, WordsJoin
  <2>4. x \in Line /\ y \in Line /\ z \in Line
    BY <1>2, <1>7, <2>1, WordsTyped
  <2>5. WordsOf(q.result) = y \o z
    BY <1>7
  <2> HIDE DEF x, y, z
  <2>6. x \o (y \o z) = (x \o y) \o z
    BY <2>4, Rejoined
  <2> QED BY <2>2, <2>3, <2>5, <2>6 DEF z
<1>10. WordsOf(w.line) = WordsOf(line)
  BY DEF Carried
<1> QED BY <1>1, <1>5, <1>6, <1>9, <1>10 DEF c, n

\* Blocks that are no table have, after a line, its words behind theirs.
LEMMA TextTaken ==
  ASSUME NEW chain, NEW line, Standing(chain, line), Tableless(chain)
  PROVE  LET r == AddLine(chain, line)
         IN  /\ r \in Seq(Parser) /\ r # <<>> /\ Tableless(r)
             /\ WordsOf(Total(r)) = WordsOf(Total(chain)) \o WordsOf(line)
             /\ r[1].finished => Len(r) = 1
<1> DEFINE w == HandedDown(chain, line)
           c == WrittenChain(w)
           r == AddLine(chain, line)
<1>1. w \in Ways /\ Arrived(chain, line, w) /\ Carried(chain, line, w)
  BY CarriedThrough
<1>2. r = Adopted(c)
  BY DEF AddLine, WrittenChain
<1>3. Trim(c, r)
  BY Left
<1> HIDE DEF w, r
<1>4. w.chain # <<>> /\ Len(w.chain) >= Len(chain) /\ w.chain \in Seq(Parser) /\ chain \in Seq(Parser)
  BY <1>1 DEF Arrived, Ways, Standing
<1>5. /\ c \in Seq(Parser) /\ Len(c) = Len(w.chain) /\ Tableless(c) /\ DoneBelow(c)
      /\ WordsOf(Total(c)) = WordsOf(Total(w.chain)) \o WordsOf(line)
  BY <1>1, <1>4, WrittenWords
<1> HIDE DEF c
<1>6. c # <<>>
  BY <1>4, <1>5
<1>7. Total(r) = Total(c) /\ (r[1].finished => Len(r) = 1)
  BY <1>2, <1>5, <1>6, AdoptedTotal
<1>8. WordsOf(Total(w.chain)) = WordsOf(Total(chain))
  <2> DEFINE f == ResultsOf(w.chain)
             g == ResultsOf(chain)
  <2>1. /\ f \in Seq(Line) /\ Len(f) = Len(w.chain)
        /\ \A i \in 1..Len(f) : f[i] = w.chain[i].result
    BY <1>4, ResultsTyped
  <2>2. /\ g \in Seq(Line) /\ Len(g) = Len(chain) /\ Len(chain) \in Nat
        /\ \A i \in 1..Len(g) : g[i] = chain[i].result
    BY <1>4, ResultsTyped
  <2> HIDE DEF f, g
  <2>3. ASSUME NEW i \in 1..Len(f) PROVE WordsOf(f[i]) = IF i <= Len(g) THEN WordsOf(g[i]) ELSE <<>>
    <3>1. WordsOf(w.chain[i].result) = IF i <= Len(chain) THEN WordsOf(chain[i].result) ELSE <<>>
      BY <1>1, <2>1 DEF Carried
    <3>2. i <= Len(g) => i \in 1..Len(g)
      BY <2>2
    <3> QED BY <2>1, <2>2, <3>1, <3>2
  <2>4. WordsOf(FlattenSeq(f)) = WordsOf(FlattenSeq(g))
    BY <1>4, <2>1, <2>2, <2>3, WordlessRest
  <2> QED BY <2>4 DEF Total, f, g
<1>9. Tableless(r)
  <2> SUFFICES ASSUME NEW i \in 1..Len(r) PROVE r[i].kind # "table" /\ r[i].table = <<>>
    BY DEF Tableless
  <2>1. Same(r[i], c[i]) /\ i \in 1..Len(c)
    BY <1>3, <1>5 DEF Trim
  <2> QED BY <1>5, <2>1 DEF Same, Tableless
<1> QED BY <1>3, <1>5, <1>7, <1>8, <1>9 DEF Trim, r

-----------------------------------------------------------------------------
(* The words of a line that a table gets. *)

\* An open table has written no word, and the row it gets next is its last.
Tabled(p) == WordsOf(p.result) = <<>> /\ Len(p.table) <= p.currentBlock + 1

\* A row goes behind the others.
LEMMA RowAdded ==
  ASSUME NEW p \in Parser, NEW line \in Line, Tabled(p), ~OutOfRange(p, line), IsRow(p, line),
         NEW table, table = [Grown(p) EXCEPT ![p.currentBlock + 1] = Append(@, Row(line))]
  PROVE  /\ table \in Seq(Rows) /\ Len(table) = p.currentBlock + 1
         /\ WordsOf(CellsOf(table)) = WordsOf(CellsOf(p.table)) \o WordsOf(line)
<1> DEFINE g == Grown(p)
           n == p.currentBlock + 1
           row == Row(line)
<1>1. p.table \in Seq(Rows) /\ p.currentBlock \in Nat /\ Len(p.table) \in Nat
  BY DEF Parser, Rows
<1>2. /\ g \in Seq(Rows) /\ Len(g) \in Nat
      /\ \/ g = p.table /\ Len(p.table) >= n
         \/ g = Append(p.table, <<>>) /\ Len(p.table) < n
  BY GrownTyped
<1>3. p.currentBlock < Len(g)
  BY <1>1, <1>2 DEF OutOfRange
<1> HIDE DEF g, row
<1>4. Len(g) = n /\ n \in Nat /\ n # 0
  <2>1. Len(Append(p.table, <<>>)) = Len(p.table) + 1
    BY <1>1
  <2>2. Len(p.table) <= n
    BY DEF Tabled
  <2> QED BY <1>1, <1>2, <1>3, <2>1, <2>2
<1>5. row \in Seq(Line)
  BY RowTyped DEF row
<1>6. g \in Seq(Seq(Seq(Line))) /\ g # <<>>
  BY <1>2, <1>4 DEF Rows
<1>7. /\ table \in Seq(Seq(Seq(Line))) /\ Len(table) = n
      /\ FlattenSeq(table) = Append(FlattenSeq(g), row)
  <2>1. table = [g EXCEPT ![Len(g)] = Append(@, row)]
    BY <1>4 DEF g, row
  <2> DEFINE B == Seq(Line)
  <2>2. g \in Seq(Seq(B)) /\ row \in B /\ Len(g) = n
    BY <1>4, <1>5, <1>6
  <2> HIDE DEF B
  <2> DEFINE h == [g EXCEPT ![Len(g)] = Append(@, row)]
  <2>4. h \in Seq(Seq(B)) /\ Len(h) = Len(g) /\ FlattenSeq(h) = Append(FlattenSeq(g), row)
    BY ONLY <1>6, <2>2, LastGrows
  <2> HIDE DEF h
  <2>3. table \in Seq(Seq(B)) /\ Len(table) = n /\ FlattenSeq(table) = Append(FlattenSeq(g), row)
    BY <2>1, <2>2, <2>4 DEF h
  <2> QED BY <2>3 DEF B
<1>8. FlattenSeq(g) = FlattenSeq(p.table) /\ FlattenSeq(p.table) \in Seq(Seq(Line))
  <2>1. p.table \in Seq(Seq(Seq(Line)))
    BY <1>1 DEF Rows
  <2>2. FlattenSeq(p.table) \in Seq(Seq(Line))
    BY <2>1, FlattenType
  <2>3. CASE g = p.table
    BY <2>2, <2>3
  <2>4. CASE g = Append(p.table, <<>>)
    <3> DEFINE x == <<>>
    <3>0. x \in Seq(Seq(Line)) /\ \A s \in Seq(Seq(Line)) : s \o x = s
      OBVIOUS
    <3>1. g = Append(p.table, x)
      BY <2>4
    <3> HIDE DEF x
    <3>2. FlattenSeq(Append(p.table, x)) = FlattenSeq(p.table) \o x
      BY <2>1, <3>0, FlattenAppend
    <3> QED BY <2>2, <3>0, <3>1, <3>2
  <2> QED BY <1>2, <2>2, <2>3, <2>4
<1>9. FlattenSeq(Append(FlattenSeq(g), row)) = FlattenSeq(FlattenSeq(p.table)) \o row
  <2> DEFINE x == FlattenSeq(p.table)
  <2>1. x \in Seq(Seq(Line))
    BY <1>8
  <2> HIDE DEF x
  <2>2. FlattenSeq(Append(x, row)) = FlattenSeq(x) \o row
    BY <1>5, <2>1, FlattenAppend
  <2> QED BY <1>8, <2>2 DEF x
<1>10. FlattenSeq(FlattenSeq(p.table)) \in Seq(Line)
  BY <1>8, FlattenType
<1>11. CellsOf(table) = CellsOf(p.table) \o FlattenSeq(row)
  <2> DEFINE x == FlattenSeq(FlattenSeq(p.table))
  <2>1. x \in Seq(Seq(Symbols)) /\ row \in Seq(Seq(Symbols))
    BY <1>5, <1>10 DEF Line
  <2>2. FlattenSeq(FlattenSeq(table)) = x \o row
    BY <1>7, <1>9
  <2> HIDE DEF x
  <2>3. FlattenSeq(x \o row) = FlattenSeq(x) \o FlattenSeq(row)
    BY <2>1, FlattenJoin
  <2> QED BY <2>2, <2>3 DEF x, CellsOf
<1>12. CellsOf(p.table) \in Line /\ FlattenSeq(row) \in Line
  BY <1>5, <1>10, FlattenType DEF CellsOf, Line
<1>13. WordsOf(CellsOf(table)) = WordsOf(CellsOf(p.table)) \o WordsOf(FlattenSeq(row))
  BY <1>11, <1>12, WordsJoin
<1>14. WordsOf(FlattenSeq(row)) = WordsOf(line)
  BY RowWords DEF row
<1>15. table \in Seq(Rows)
  BY <1>7 DEF Rows
<1> QED BY <1>7, <1>13, <1>14, <1>15

\* The lines that delimit a table and its blocks have no words.
LEMMA TableMarks ==
  /\ Separator \in Seq(Silent) /\ <<"|", "<table">> \in Seq(Silent) /\ <<"|", "table>">> \in Seq(Silent)
  /\ \A line \in Line : line \in Seq(Silent) => WordsOf(line) = <<>>
<1>1. "-" \in Silent /\ " " \in Silent /\ "|" \in Silent /\ "<table" \in Silent /\ "table>" \in Silent
  BY DEF Silent, Marks
<1>2. \A S : \A a, b, c \in S : <<a, b, c, b, a, b, c, b, a>> \in Seq(S) /\ <<a, b>> \in Seq(S)
  OBVIOUS
<1>3. Separator \in Seq(Silent)
  BY <1>1, <1>2, Zenon DEF Separator
<1>4. <<"|", "<table">> \in Seq(Silent) /\ <<"|", "table>">> \in Seq(Silent)
  BY <1>1, <1>2, Zenon
<1>5. ASSUME NEW line \in Line, line \in Seq(Silent) PROVE WordsOf(line) = <<>>
  <2>1. \A i \in 1..Len(line) : line[i] \in Silent
    BY <1>5
  <2> QED BY <2>1, SilentWords
<1> QED BY <1>3, <1>4, <1>5

\* What a table does with a line: its words are kept in the cells until they are written.
LEMMA TableLine ==
  ASSUME NEW p \in Parser, NEW line \in Line, p.kind = "table", Ready(p, line), ~OutOfRange(p, line),
         Tabled(p)
  PROVE  LET q == AddTableLine(p, line)
         IN  /\ q \in Parser /\ q.kind = "table"
             /\ q.finished => WordsOf(q.result) = WordsOf(CellsOf(p.table)) \o WordsOf(line)
             /\ ~q.finished => /\ Tabled(q)
                               /\ WordsOf(CellsOf(q.table)) = WordsOf(CellsOf(p.table)) \o WordsOf(line)
<1> DEFINE q == AddTableLine(p, line)
<1>1. /\ q \in Parser /\ q.kind = "table"
      /\ TableOpens(p, q) \/ TableTurns(p, line, q) \/ TableCloses(p, line, q) \/ TableGoes(p, line, q)
  BY TableParsed
<1>2. /\ p.table \in Seq(Rows) /\ p.currentBlock \in Nat /\ Len(p.table) \in Nat /\ ~p.finished
      /\ p.table \in Seq(Seq(Seq(Line)))
  BY DEF Parser, Rows, Ready
<1>3. CellsOf(p.table) \in Line
  BY <1>2, FlattenType DEF CellsOf, Line
<1>4. WordsOf(CellsOf(p.table)) \o <<>> = WordsOf(CellsOf(p.table))
  BY <1>3, WordsTyped, JoinNothing
<1> HIDE DEF q
<1>5. CASE TableOpens(p, q)
  <2>1. IsStartingLine("table", line)
    BY <1>5 DEF TableOpens, Ready
  <2>2. line = <<"|", "table>">>
    BY <2>1 DEF IsStartingLine
  <2>3. WordsOf(line) = <<>>
    BY <2>2, TableMarks
  <2>4. ~q.finished /\ q.result = p.result /\ q.table = p.table /\ q.currentBlock = p.currentBlock
    BY <1>2, <1>5 DEF TableOpens, Flagged
  <2> QED BY <1>1, <1>4, <2>3, <2>4 DEF Tabled, q
<1>6. CASE TableTurns(p, line, q)
  <2>1. WordsOf(line) = <<>>
    BY <1>6, TableMarks DEF TableTurns
  <2>2. ~q.finished /\ q.result = p.result /\ q.table = p.table /\ q.currentBlock = p.currentBlock + 1
    BY <1>6 DEF TableTurns
  <2>3. Tabled(q)
    BY <1>2, <2>2 DEF Tabled
  <2> QED BY <1>1, <1>4, <2>1, <2>2, <2>3 DEF q
<1>7. CASE TableCloses(p, line, q)
  <2>1. WordsOf(line) = <<>>
    BY <1>7, TableMarks DEF TableCloses
  <2>2. q.finished /\ q.result = Table(p.table)
    BY <1>7 DEF TableCloses
  <2>3. WordsOf(Table(p.table)) = WordsOf(CellsOf(p.table))
    BY <1>2, TableWords
  <2> QED BY <1>1, <1>4, <2>1, <2>2, <2>3 DEF q
<1>8. CASE TableGoes(p, line, q)
  <2>1. /\ IsRow(p, line) /\ ~q.finished /\ q.result = p.result /\ q.currentBlock = p.currentBlock
        /\ q.table = [Grown(p) EXCEPT ![p.currentBlock + 1] = Append(@, Row(line))]
    BY <1>8 DEF TableGoes
  <2>2. /\ Len(q.table) = p.currentBlock + 1
        /\ WordsOf(CellsOf(q.table)) = WordsOf(CellsOf(p.table)) \o WordsOf(line)
    BY <2>1, RowAdded
  <2>3. Tabled(q)
    BY <1>2, <2>1, <2>2 DEF Tabled
  <2> QED BY <1>1, <2>1, <2>2, <2>3 DEF q
<1> QED BY <1>1, <1>5, <1>6, <1>7, <1>8

\* A table alone writes nothing more behind what it has written itself.
LEMMA TableWritten ==
  ASSUME NEW chain, NEW line, Standing(chain, line), chain[1].kind = "table"
  PROVE  LET r == AddLine(chain, line)
             q == AddTableLine(chain[1], line)
         IN  /\ q \in Parser /\ q.kind = "table" /\ Ready(chain[1], line) /\ chain[1] \in Parser
             /\ r \in Seq(Parser) /\ Len(r) = 1 /\ r[1].kind = "table"
             /\ r[1].table = q.table /\ r[1].currentBlock = q.currentBlock /\ r[1].finished = q.finished
             /\ r[1].result = q.result \o runLineParser(<<>>)
<1> DEFINE w == HandedDown(chain, line)
           c == WrittenChain(w)
           r == AddLine(chain, line)
           p == chain[1]
           q == AddTableLine(p, line)
<1>1. chain # <<>> /\ chain \in Seq(Parser) /\ line \in Line /\ ~OutOfRange(p, line) /\ p \in Parser
  BY DEF Standing
<1>2. Ready(p, line)
  <2>1. CASE Formed(chain)
    <3>1. 1 \in 1..Len(chain)
      BY <1>1
    <3> QED BY <1>1, <2>1, <3>1 DEF Formed, Ready
  <2>2. CASE \E k \in Kinds : chain = <<NewParser(k)>> /\ IsStartingLine(k, line)
    <3>1. PICK k \in Kinds : chain = <<NewParser(k)>> /\ IsStartingLine(k, line)
      BY <2>2
    <3>2. p = NewParser(k)
      BY <3>1
    <3>3. p.kind = k /\ ~p.started /\ ~p.finished
      BY <3>2, Made
    <3> QED BY <1>1, <3>1, <3>2, <3>3 DEF Ready
  <2> QED BY <2>1, <2>2 DEF Standing
<1>3. q \in Parser /\ q.kind = "table"
  BY <1>1, <1>2, TableParsed
<1>4. /\ Len(r) = 1 /\ r[1].table = q.table /\ r[1].currentBlock = q.currentBlock /\ r[1].finished = q.finished
      /\ w \in Ways /\ w.chain = <<q>> /\ w.line = <<>>
  BY TableAlone
<1>5. r = Adopted(c) /\ Trim(c, r) /\ r[1].kind = "table"
  BY Left DEF AddLine, WrittenChain
<1> HIDE DEF w, c, r, q, p
<1>6. w.chain # <<>> /\ Len(w.chain) = 1 /\ w.chain[1] = q /\ Last(w.chain) = q
  BY <1>4 DEF Last
<1>7. c \in Seq(Parser) /\ Len(c) = 1 /\ c[1] = Written(w) /\ c # <<>>
  BY <1>4, <1>6, WrittenChainIs DEF c
<1>8. Written(w).result = q.result \o runLineParser(<<>>) /\ Written(w) \in Parser
  <2>1. Wrote(w, Written(w))
    BY <1>4, <1>6, WrittenIs
  <2>2. Written(w).kind = "table"
    BY <1>3, <1>6, <2>1 DEF Wrote
  <2>3. "table" \in LineParsed
    BY KindNames DEF LineParsed
  <2> QED BY <1>4, <1>6, <2>1, <2>2, <2>3 DEF Wrote
<1>9. r \in Seq(Parser)
  BY <1>5 DEF Trim
<1>10. r[1].result = Written(w).result
  <2>1. DoneBelow(c)
    BY <1>7 DEF DoneBelow
  <2>2. Total(r) = Total(c)
    BY <1>5, <1>7, <2>1, AdoptedTotal
  <2>3. c = <<Written(w)>> /\ r = <<r[1]>> /\ r[1] \in Parser
    BY <1>4, <1>7, <1>9
  <2>4. Total(<<Written(w)>>) = Written(w).result /\ Total(<<r[1]>>) = r[1].result
    BY <1>8, <2>3, TotalFew
  <2> QED BY <2>2, <2>3, <2>4
<1> QED BY <1>1, <1>2, <1>3, <1>4, <1>5, <1>8, <1>9, <1>10 DEF r, p, q

\* A table keeps the words of the line it is given.
LEMMA TableTaken ==
  ASSUME NEW chain, NEW line, Standing(chain, line), chain[1].kind = "table", Tabled(chain[1])
  PROVE  LET r == AddLine(chain, line)
             p == chain[1]
         IN  /\ r \in Seq(Parser) /\ Len(r) = 1 /\ r[1].kind = "table"
             /\ r[1].finished => WordsOf(r[1].result) = WordsOf(CellsOf(p.table)) \o WordsOf(line)
             /\ ~r[1].finished => /\ Tabled(r[1])
                                  /\ WordsOf(CellsOf(r[1].table)) = WordsOf(CellsOf(p.table)) \o WordsOf(line)
<1> DEFINE r == AddLine(chain, line)
           p == chain[1]
           q == AddTableLine(p, line)
<1>1. /\ q \in Parser /\ q.kind = "table" /\ Ready(p, line) /\ p \in Parser
      /\ r \in Seq(Parser) /\ Len(r) = 1 /\ r[1].kind = "table"
      /\ r[1].table = q.table /\ r[1].currentBlock = q.currentBlock /\ r[1].finished = q.finished
      /\ r[1].result = q.result \o runLineParser(<<>>)
  BY TableWritten
<1>2. line \in Line /\ ~OutOfRange(p, line)
  BY DEF Standing
<1>3. /\ q.finished => WordsOf(q.result) = WordsOf(CellsOf(p.table)) \o WordsOf(line)
      /\ ~q.finished => /\ Tabled(q)
                        /\ WordsOf(CellsOf(q.table)) = WordsOf(CellsOf(p.table)) \o WordsOf(line)
  BY <1>1, <1>2, TableLine
<1> HIDE DEF r, q, p
<1>4. WordsOf(r[1].result) = WordsOf(q.result)
  <2>1. q.result \in Line /\ runLineParser(<<>>) \in Line /\ WordsOf(runLineParser(<<>>)) = <<>>
    BY <1>1, EmptyLine, LineParserTyped, WordsRun, WordsNothing DEF Parser
  <2>2. WordsOf(q.result) \o <<>> = WordsOf(q.result)
    BY <2>1, WordsTyped, JoinNothing
  <2> QED BY <1>1, <2>1, <2>2, WordsJoin
<1>5. Tabled(q) => Tabled(r[1])
  BY <1>1, <1>4 DEF Tabled
<1> QED BY <1>1, <1>3, <1>4, <1>5 DEF r, p

-----------------------------------------------------------------------------
(* The text of a document. *)

\* What the open parsers hold.
Held(c) == FlattenSeq([i \in DOMAIN c |->
             c[i].result \o FlattenSeq(FlattenSeq(FlattenSeq(c[i].table)))])

\* The open block is a table alone, or none of its parsers is one.
Tidy(c) ==
  IF c # <<>> /\ c[1].kind = "table" THEN Len(c) = 1 /\ Tabled(c[1]) ELSE Tableless(c)

\* The cells of no rows.
LEMMA NoCells == CellsOf(<<>>) = <<>>
BY FlattenNothing DEF CellsOf

\* The words the open block holds.
LEMMA HeldWords ==
  ASSUME NEW c \in Seq(Parser), Tidy(c)
  PROVE  /\ c # <<>> /\ c[1].kind = "table" => WordsOf(Held(c)) = WordsOf(CellsOf(c[1].table))
         /\ ~(c # <<>> /\ c[1].kind = "table") => WordsOf(Held(c)) = WordsOf(Total(c))
<1> DEFINE f == [i \in DOMAIN c |-> c[i].result \o CellsOf(c[i].table)]
<1>0. Held(c) = FlattenSeq(f)
  BY DEF Held, CellsOf
<1>1. ASSUME c # <<>>, c[1].kind = "table" PROVE WordsOf(Held(c)) = WordsOf(CellsOf(c[1].table))
  <2> DEFINE p == c[1]
             x == p.result \o CellsOf(p.table)
  <2>1. p \in Parser /\ Len(c) = 1 /\ DOMAIN c = {1} /\ Tabled(p)
    <3>1. Len(c) = 1 /\ Tabled(p)
      BY <1>1 DEF Tidy
    <3> QED BY <3>1
  <2>2. p.result \in Line /\ CellsOf(p.table) \in Line
    <3>1. p.table \in Seq(Seq(Seq(Line))) /\ p.result \in Line
      BY <2>1 DEF Parser
    <3> QED BY <3>1, FlattenType DEF CellsOf, Line
  <2>3. f = <<x>>
    <3>1. f = [i \in {1} |-> x]
      BY <2>1
    <3> HIDE DEF x, f
    <3> QED BY <3>1
  <2>4. x \in Line
    BY <2>2, Joined
  <2> HIDE DEF x, f
  <2>5. FlattenSeq(<<x>>) = x
    <3>1. Append(<<>>, x) = <<x>> /\ <<>> \in Seq(Seq(Symbols)) /\ x \in Seq(Symbols)
      BY <2>4 DEF Line
    <3>2. FlattenSeq(Append(<<>>, x)) = FlattenSeq(<<>>) \o x
      BY <3>1, FlattenAppend
    <3> QED BY <2>4, <3>1, <3>2, FlattenNothing, JoinNothing
  <2>6. WordsOf(x) = WordsOf(p.result) \o WordsOf(CellsOf(p.table))
    BY <2>2, WordsJoin DEF x
  <2>7. WordsOf(p.result) = <<>> /\ WordsOf(CellsOf(p.table)) \in Line
    BY <2>1, <2>2, WordsTyped DEF Tabled
  <2> QED BY <1>0, <2>3, <2>5, <2>6, <2>7, JoinNothing
<1>2. ASSUME ~(c # <<>> /\ c[1].kind = "table") PROVE WordsOf(Held(c)) = WordsOf(Total(c))
  <2>1. Tableless(c)
    BY <1>2 DEF Tidy
  <2>2. /\ ResultsOf(c) \in Seq(Line) /\ Len(ResultsOf(c)) = Len(c)
        /\ \A i \in 1..Len(c) : ResultsOf(c)[i] = c[i].result /\ c[i].result \in Line
    BY ResultsTyped
  <2>3. \A i \in 1..Len(c) : c[i].result \o CellsOf(c[i].table) = c[i].result
    BY <2>1, <2>2, NoCells, JoinNothing DEF Tableless
  <2>4. DOMAIN c = 1..Len(c)
    OBVIOUS
  <2>5. f = ResultsOf(c)
    BY <2>3, <2>4 DEF ResultsOf
  <2> QED BY <1>0, <2>5 DEF Total
<1> QED BY <1>1, <1>2

\* No block holds nothing.
LEMMA HeldNothing == Tidy(<<>>) /\ WordsOf(Held(<<>>)) = <<>>
<1>1. Tidy(<<>>)
  BY DEF Tidy, Tableless
<1>2. WordsOf(Held(<<>>)) = WordsOf(Total(<<>>))
  <2> DEFINE c == <<>>
  <2>1. c \in Seq(Parser) /\ ~(c # <<>>) /\ Tidy(c)
    BY <1>1
  <2> HIDE DEF c
  <2>2. WordsOf(Held(c)) = WordsOf(Total(c))
    BY <2>1, HeldWords
  <2> QED BY <2>2 DEF c
<1> QED BY <1>1, <1>2, TotalFew, WordsNothing

\* A parser just made holds nothing.
LEMMA NewHolds ==
  ASSUME NEW k \in Kinds
  PROVE  LET c == <<NewParser(k)>> IN Tidy(c) /\ c \in Seq(Parser) /\ WordsOf(Held(c)) = <<>>
<1> DEFINE p == NewParser(k)
           c == <<p>>
<1>1. /\ p \in Parser /\ p.kind = k /\ p.result = <<>> /\ p.table = <<>> /\ p.currentBlock = 0
  BY Made
<1> HIDE DEF p
<1>2. c \in Seq(Parser) /\ Len(c) = 1 /\ c[1] = p /\ c # <<>>
  BY <1>1
<1>3. Total(c) = <<>>
  BY <1>1, TotalFew
<1> HIDE DEF c
<1>4. Tidy(c)
  <2>1. Len(<<>>) <= 0 + 1
    OBVIOUS
  <2>2. Tabled(p)
    BY <1>1, <2>1, WordsNothing DEF Tabled
  <2>3. p.kind # "table" => Tableless(c)
    BY <1>1, <1>2 DEF Tableless
  <2> QED BY <1>2, <2>2, <2>3 DEF Tidy
<1>5. WordsOf(Held(c)) = <<>>
  <2>1. CASE p.kind = "table"
    BY <1>1, <1>2, <1>4, <2>1, HeldWords, NoCells, WordsNothing
  <2>2. CASE p.kind # "table"
    BY <1>2, <1>3, <1>4, <2>2, HeldWords, WordsNothing
  <2> QED BY <2>1, <2>2
<1> QED BY <1>2, <1>4, <1>5 DEF c, p

\* The words of a line go behind those the block holds.
LEMMA WordsTaken ==
  ASSUME NEW chain, NEW line, Standing(chain, line), Tidy(chain)
  PROVE  LET r == AddLine(chain, line)
             words == WordsOf(Held(chain)) \o WordsOf(line)
         IN  /\ r \in Seq(Parser) /\ r # <<>>
             /\ r[1].finished => WordsOf(r[1].result) = words
             /\ ~r[1].finished => Tidy(r) /\ WordsOf(Held(r)) = words
<1> DEFINE r == AddLine(chain, line)
<1>1. chain \in Seq(Parser) /\ chain # <<>>
  BY DEF Standing
<1>2. r[1].kind = chain[1].kind
  BY Left
<1>3. CASE chain[1].kind = "table"
  <2>1. Tabled(chain[1]) /\ WordsOf(Held(chain)) = WordsOf(CellsOf(chain[1].table))
    BY <1>1, <1>3, HeldWords DEF Tidy
  <2>2. /\ r \in Seq(Parser) /\ Len(r) = 1 /\ r[1].kind = "table"
        /\ r[1].finished => WordsOf(r[1].result) = WordsOf(CellsOf(chain[1].table)) \o WordsOf(line)
        /\ ~r[1].finished =>
             /\ Tabled(r[1])
             /\ WordsOf(CellsOf(r[1].table)) = WordsOf(CellsOf(chain[1].table)) \o WordsOf(line)
    BY <1>3, <2>1, TableTaken
  <2> HIDE DEF r
  <2>3. r # <<>>
    <3>1. Len(r) # Len(<<>>)
      <4>1. Len(<<>>) = 0 /\ Len(r) = 1
        BY <2>2
      <4> QED BY <4>1
    <3> QED BY <3>1
  <2>4. ~r[1].finished => Tidy(r) /\ WordsOf(Held(r)) = WordsOf(CellsOf(r[1].table))
    BY <2>2, <2>3, HeldWords DEF Tidy
  <2> QED BY <2>1, <2>2, <2>3, <2>4 DEF r
<1>4. CASE chain[1].kind # "table"
  <2>1. Tableless(chain) /\ WordsOf(Held(chain)) = WordsOf(Total(chain))
    BY <1>1, <1>4, HeldWords DEF Tidy
  <2>2. /\ r \in Seq(Parser) /\ r # <<>> /\ Tableless(r)
        /\ WordsOf(Total(r)) = WordsOf(Total(chain)) \o WordsOf(line)
        /\ r[1].finished => Len(r) = 1
    BY <2>1, TextTaken
  <2> HIDE DEF r
  <2>3. Tidy(r) /\ WordsOf(Held(r)) = WordsOf(Total(r))
    BY <1>2, <1>4, <2>2, HeldWords DEF Tidy
  <2>4. ASSUME r[1].finished PROVE Total(r) = r[1].result
    <3>1. Len(r) = 1
      BY <2>2, <2>4
    <3>2. r = <<r[1]>> /\ r[1] \in Parser
      BY <2>2, <3>1
    <3>3. Total(<<r[1]>>) = r[1].result
      BY <3>2, TotalFew
    <3> QED BY <3>2, <3>3
  <2> QED BY <2>1, <2>2, <2>3, <2>4 DEF r
<1> QED BY <1>3, <1>4

\* A line that starts no block is empty: any other is a paragraph.
LEMMA IgnoredIsEmpty ==
  ASSUME NEW line, getBlockParserForLine(Kinds, line) = <<>>
  PROVE  line = <<>>
<1> DEFINE able == {i \in DOMAIN Order : Order[i] \in Kinds /\ IsStartingLine(Order[i], line)}
<1>1. getBlockParserForLine(Kinds, line) = IF able = {} THEN <<>> ELSE <<NewParser(Order[Min(able)])>>
  BY Zenon DEF getBlockParserForLine
<1>2. able = {}
  <2> HIDE DEF able
  <2>1. \A x : <<x>> # <<>>
    OBVIOUS
  <2> QED BY <1>1, <2>1, Zenon
<1>3. 9 \in DOMAIN Order /\ Order[9] = "paragraph" /\ "paragraph" \in Kinds
  BY KindNames DEF Order
<1>4. ~IsStartingLine("paragraph", line)
  BY <1>2, <1>3
<1>5. IsStartingLine("paragraph", line) <=> line # <<>>
  BY DEF IsStartingLine
<1> QED BY <1>4, <1>5

\* What is taken of a line is in the result or in the open block.
LEMMA Moved ==
  ASSUME Shape, Tidy(block), NEW chain, NEW line \in Line, TakenBy(chain, line)
  PROVE  /\ Tidy(block')
         /\ WordsOf(output') \o WordsOf(Held(block')) =
              (WordsOf(output) \o WordsOf(Held(block))) \o WordsOf(line)
<1> DEFINE r == AddLine(chain, line)
           h == WordsOf(Held(block))
           l == WordsOf(line)
           o == WordsOf(output)
<1>1. Standing(chain, line) /\ Take(r)
  BY DEF TakenBy
<1>2. Tidy(chain) /\ WordsOf(Held(chain)) = h
  <2>1. CASE chain = block
    BY <2>1
  <2>2. CASE block = <<>> /\ \E k \in Kinds : chain = <<NewParser(k)>>
    BY <2>2, NewHolds, HeldNothing
  <2> QED BY <2>1, <2>2 DEF TakenBy
<1>3. /\ r \in Seq(Parser) /\ r # <<>>
      /\ r[1].finished => WordsOf(r[1].result) = h \o l
      /\ ~r[1].finished => Tidy(r) /\ WordsOf(Held(r)) = h \o l
  BY <1>1, <1>2, WordsTaken
<1>4. output \in Line
  BY DEF Shape
<1>5. \/ r[1].finished /\ block' = <<>> /\ output' = output \o r[1].result
      \/ ~r[1].finished /\ block' = r /\ output' = output
  BY <1>1, <1>4, TakenIs
<1>6. o \in Line /\ l \in Line /\ h \in Line
  <2>1. chain \in Seq(Parser)
    BY <1>1 DEF Standing
  <2>2. block \in Seq(Parser)
    BY DEF Shape, Formed
  <2>3. Total(block) \in Line
    BY <2>2, ResultsTyped
  <2>4. block # <<>> => CellsOf(block[1].table) \in Line
    <3> SUFFICES ASSUME block # <<>> PROVE CellsOf(block[1].table) \in Line
      OBVIOUS
    <3>1. block[1] \in Parser
      BY <2>2
    <3>2. block[1].table \in Seq(Seq(Seq(Line)))
      BY <3>1 DEF Parser
    <3> QED BY <3>2, FlattenType DEF CellsOf, Line
  <2> QED BY <1>4, <2>2, <2>3, <2>4, HeldWords, WordsTyped
<1> HIDE DEF r, h, l, o
<1>7. o \o (h \o l) = (o \o h) \o l
  BY <1>6, Rejoined
<1>8. CASE r[1].finished
  <2>1. block' = <<>> /\ output' = output \o r[1].result
    BY <1>5, <1>8
  <2>2. r[1].result \in Line
    <3>1. r[1] \in Parser
      BY <1>3
    <3> QED BY <3>1 DEF Parser
  <2>3. WordsOf(output \o r[1].result) = o \o (h \o l)
    BY <1>3, <1>4, <1>8, <2>2, WordsJoin DEF o
  <2>4. o \o (h \o l) \in Line
    BY <1>4, <2>2, <2>3, Joined, WordsTyped
  <2>5. WordsOf(output') \o WordsOf(Held(block')) = o \o (h \o l)
    BY <2>1, <2>3, <2>4, HeldNothing, JoinNothing
  <2> QED BY <1>7, <2>1, <2>5, HeldNothing DEF o, h, l
<1>9. CASE ~r[1].finished
  <2>1. block' = r /\ output' = output
    BY <1>5, <1>9
  <2>2. WordsOf(output') \o WordsOf(Held(block')) = o \o (h \o l)
    BY <1>3, <1>9, <2>1 DEF o
  <2> QED BY <1>3, <1>7, <1>9, <2>1, <2>2 DEF o, h, l
<1> QED BY <1>8, <1>9

\* TextIsKept: the words of a document are in the result and the open block, once
\* each and in their order, whatever is nested in whatever: what a parser
\* takes off a line is marks, what a finished child has written goes to its
\* parent before anything more does, and the rows of a table only grow at the end.
THEOREM TextIsKept == Spec => []TextKept
<1> DEFINE Kept0 == Tidy(block) /\ TextKept
<1>1. Init => Kept0
  <2> SUFFICES ASSUME Init PROVE Kept0
    OBVIOUS
  <2>1. block = <<>> /\ output = <<>> /\ read = <<>>
    BY DEF Init
  <2>2. Pending = Held(block)
    BY DEF Pending, Held
  <2>3. WordsOf(output) = <<>> /\ WordsOf(Pending) = <<>> /\ WordsOf(FlattenSeq(read)) = <<>> /\ Tidy(block)
    BY <2>1, <2>2, HeldNothing, WordsNothing, FlattenNothing
  <2>4. <<>> \o <<>> = <<>>
    OBVIOUS
  <2> QED BY <2>3, <2>4 DEF TextKept
<1>2. Shape /\ Kept0 /\ [Next]_vars => Kept0'
  <2> SUFFICES ASSUME Shape, Kept0, [Next]_vars PROVE Kept0'
    OBVIOUS
  <2>0. /\ Tidy(block) /\ output \in Line /\ read \in Seq(Seq(Tokens)) /\ read \in Seq(Seq(Symbols))
        /\ Pending = Held(block) /\ Pending' = Held(block')
    <3>1. Seq(Seq(Tokens)) \subseteq Seq(Seq(Symbols))
      <4>1. Tokens \subseteq Symbols
        BY DEF Symbols
      <4>2. Seq(Tokens) \subseteq Seq(Symbols)
        <5> HIDE DEF Symbols
        <5> QED BY <4>1
      <4> DEFINE A == Seq(Tokens)
                 B == Seq(Symbols)
      <4>3. A \subseteq B
        BY <4>2
      <4> HIDE DEF A, B
      <4>4. Seq(A) \subseteq Seq(B)
        BY <4>3
      <4> QED BY <4>4 DEF A, B
    <3>2. Pending = Held(block) /\ Pending' = Held(block')
      BY DEF Pending, Held
    <3> QED BY <3>1, <3>2 DEF Shape
  <2>7. phase = "reading" =>
          WordsOf(output) \o WordsOf(Held(block)) = WordsOf(FlattenSeq(read))
    BY <2>0 DEF TextKept
  <2>8. ASSUME NEW line \in Line, read' = Append(read, line)
        PROVE  WordsOf(FlattenSeq(read')) = WordsOf(FlattenSeq(read)) \o WordsOf(line)
    <3>1. FlattenSeq(read') = FlattenSeq(read) \o line
      BY <2>0, <2>8, FlattenAppend DEF Line
    <3>2. FlattenSeq(read) \in Line
      BY <2>0, FlattenType DEF Line
    <3> QED BY <3>1, <3>2, WordsJoin
  <2>9. ASSUME phase' = "undefined", block' = block PROVE Kept0'
    BY <2>0, <2>9 DEF TextKept
  <2>1. ASSUME NEW s \in doc.shapes, ReadLine(Numbered(s)) PROVE Kept0'
    <3> DEFINE line == Numbered(s)
    <3>1. /\ line \in Line /\ read' = Append(read, line) /\ phase = "reading"
          /\ Ignored(line) \/ (phase' = phase /\ \E chain : TakenBy(chain, line)) \/ Lost(line)
      BY <2>1, LineRead
    <3> HIDE DEF line
    <3>2. WordsOf(FlattenSeq(read')) =
            (WordsOf(output) \o WordsOf(Held(block))) \o WordsOf(line)
      BY <2>7, <2>8, <3>1
    <3>3. CASE Ignored(line)
      <4>1. /\ block = <<>> /\ block' = <<>> /\ output' = output
            /\ getBlockParserForLine(Kinds, line) = <<>>
        BY <3>3 DEF Ignored
      <4>2. line = <<>>
        BY <4>1, IgnoredIsEmpty
      <4>3. WordsOf(Held(block)) = <<>> /\ WordsOf(line) = <<>> /\ Tidy(block')
        BY <4>1, <4>2, HeldNothing, WordsNothing
      <4>4. WordsOf(output) \o <<>> = WordsOf(output)
        BY <2>0, WordsTyped, JoinNothing
      <4>5. WordsOf(output') \o WordsOf(Held(block')) = WordsOf(FlattenSeq(read'))
        BY <3>2, <4>1, <4>3, <4>4
      <4> QED BY <2>0, <4>3, <4>5 DEF TextKept
    <3>4. CASE \E chain : TakenBy(chain, line)
      <4>1. PICK chain : TakenBy(chain, line)
        BY <3>4
      <4>2. /\ Tidy(block')
            /\ WordsOf(output') \o WordsOf(Held(block')) =
                 (WordsOf(output) \o WordsOf(Held(block))) \o WordsOf(line)
        BY <2>0, <3>1, <4>1, Moved
      <4> QED BY <2>0, <3>2, <4>2 DEF TextKept
    <3>5. CASE Lost(line)
      BY <2>9, <3>5 DEF Lost
    <3> QED BY <3>1, <3>3, <3>4, <3>5
  <2>2. CASE EndOfInput
    <3>1. /\ read' = read /\ phase = "reading"
          /\ \/ block = <<>> /\ block' = <<>> /\ output' = output
             \/ TakenBy(block, <<>>)
             \/ Lost(<<>>)
      BY <2>2, InputEnded
    <3>3. CASE block = <<>> /\ block' = <<>> /\ output' = output
      BY <2>0, <2>7, <3>1, <3>3, HeldNothing DEF TextKept
    <3>4. CASE TakenBy(block, <<>>)
      <4>2. /\ Tidy(block')
            /\ WordsOf(output') \o WordsOf(Held(block')) =
                 (WordsOf(output) \o WordsOf(Held(block))) \o WordsOf(<<>>)
        BY <2>0, <3>4, EmptyLine, Moved
      <4>3. WordsOf(FlattenSeq(read)) \o <<>> = WordsOf(FlattenSeq(read))
        <5>1. FlattenSeq(read) \in Line
          BY <2>0, FlattenType DEF Line
        <5> QED BY <5>1, WordsTyped, JoinNothing
      <4> QED BY <2>0, <2>7, <3>1, <4>2, <4>3, WordsNothing DEF TextKept
    <3>5. CASE Lost(<<>>)
      BY <2>9, <3>5 DEF Lost
    <3> QED BY <3>1, <3>3, <3>4, <3>5
  <2>3. CASE UNCHANGED vars
    <3>1. /\ block' = block /\ output' = output /\ read' = read /\ phase' = phase
      BY <2>3 DEF vars
    <3> QED BY <2>0, <3>1 DEF TextKept
  <2> QED BY <2>1, <2>2, <2>3 DEF Next, Done
<1>3. Spec => []Shape
  BY ShapeHolds
<1>4. Kept0 => TextKept
  OBVIOUS
<1> QED BY <1>1, <1>2, <1>3, <1>4, PTL DEF Spec

-----------------------------------------------------------------------------
(* The tags that are open. *)

\* The stack of open tags after a line, with stack a before it.
Fold(a, line) == FoldLeft(Nest, a, line)

\* The function that folds the tokens of t, on the sets of its first places.
Folding(g, a, t) ==
  g = [s \in SUBSET DOMAIN t |->
         IF s = {} THEN a ELSE Nest(g[s \ {Max(s)}], t[Max(s)])]

\* The fold of the community modules, as such a function.
LEMMA FoldChosen ==
  ASSUME NEW a, NEW t, NEW h, Folding(h, a, t)
  PROVE  \E g : Folding(g, a, t) /\ Fold(a, t) = g[DOMAIN t]
<1> DEFINE it == CHOOSE g : Folding(g, a, t)
<1>1. Folding(it, a, t)
  BY Zenon
<1>2. Fold(a, t) = it[DOMAIN t]
  BY Zenon DEF Fold, FoldLeft, MapThenFoldSet, Folding
<1> QED BY <1>1, <1>2, Zenon

\* There is one.
LEMMA FoldingExists ==
  ASSUME NEW a, NEW t \in Seq(Symbols)
  PROVE  \E g : Folding(g, a, t)
<1> DEFINE Folds(g, n) ==
      g = [s \in SUBSET (1..n) |->
             IF s = {} THEN a ELSE Nest(g[s \ {Max(s)}], t[Max(s)])]
           T == {n \in Nat : \E g : Folds(g, n)}
<1>1. 0 \in T
  <2> DEFINE h == [s \in SUBSET (1..0) |-> a]
  <2>1. \A s \in SUBSET (1..0) : s = {}
    OBVIOUS
  <2>2. Folds(h, 0)
    BY <2>1
  <2> QED BY <2>2
<1>2. ASSUME NEW n \in T PROVE n + 1 \in T
  <2>1. PICK g : Folds(g, n)
    OBVIOUS
  <2> DEFINE h == [s \in SUBSET (1..n + 1) |->
                     IF n + 1 \in s THEN Nest(g[s \ {n + 1}], t[n + 1]) ELSE g[s]]
  <2>2. ASSUME NEW s \in SUBSET (1..n + 1)
        PROVE  h[s] = IF s = {} THEN a ELSE Nest(h[s \ {Max(s)}], t[Max(s)])
    <3>1. n \in Nat /\ n + 1 \in Nat
      OBVIOUS
    <3>2. CASE n + 1 \in s
      <4>1. Max(s) = n + 1
        BY <3>1, <3>2, MaxOfPlaces
      <4>2. s \ {n + 1} \in SUBSET (1..n + 1) /\ n + 1 \notin s \ {n + 1}
        OBVIOUS
      <4>3. h[s \ {n + 1}] = g[s \ {n + 1}]
        BY <4>2
      <4>4. h[s] = Nest(g[s \ {n + 1}], t[n + 1])
        BY <3>2
      <4>5. h[s] = Nest(h[s \ {Max(s)}], t[Max(s)])
        BY <4>1, <4>3, <4>4, Zenon
      <4> QED BY <3>2, <4>5, Zenon
    <3>3. CASE n + 1 \notin s
      <4>1. s \in SUBSET (1..n) /\ h[s] = g[s]
        BY <3>1, <3>3
      <4>2. g[s] = IF s = {} THEN a ELSE Nest(g[s \ {Max(s)}], t[Max(s)])
        BY <2>1, <4>1, Zenon
      <4>3. h[s \ {Max(s)}] = g[s \ {Max(s)}]
        BY <3>3
      <4> QED BY <4>1, <4>2, <4>3, Zenon
    <3> QED BY <3>2, <3>3
  <2>3. Folds(h, n + 1)
    BY <2>2, Zenon
  <2> HIDE DEF h, Folds
  <2>4. n + 1 \in Nat
    OBVIOUS
  <2> QED BY <2>3, <2>4
<1>3. T = Nat
  <2>1. T \in SUBSET Nat
    OBVIOUS
  <2> HIDE DEF T
  <2> QED BY <1>1, <1>2, <2>1, Induction
<1>4. Len(t) \in T
  <2>1. Len(t) \in Nat
    OBVIOUS
  <2> HIDE DEF T
  <2> QED BY <1>3, <2>1
<1>5. DOMAIN t = 1..Len(t)
  OBVIOUS
<1> QED BY <1>4, <1>5, Zenon DEF Folding

\* It takes the tokens one after the other.
LEMMA FoldingIs ==
  ASSUME NEW a, NEW t \in Seq(Symbols), NEW g, Folding(g, a, t)
  PROVE  g[{}] = a /\ \A k \in 1..Len(t) : g[1..k] = Nest(g[1..k - 1], t[k])
<1>1. \A s \in SUBSET (1..Len(t)) :
        g[s] = IF s = {} THEN a ELSE Nest(g[s \ {Max(s)}], t[Max(s)])
  <2>1. DOMAIN t = 1..Len(t)
    OBVIOUS
  <2>2. g = [s \in SUBSET (1..Len(t)) |->
               IF s = {} THEN a ELSE Nest(g[s \ {Max(s)}], t[Max(s)])]
    BY <2>1, Zenon DEF Folding
  <2> QED BY <2>2, Zenon
<1>2. g[{}] = a
  BY <1>1
<1>3. ASSUME NEW k \in 1..Len(t) PROVE g[1..k] = Nest(g[1..k - 1], t[k])
  <2>1. (1..k) \in SUBSET (1..Len(t)) /\ (1..k) # {} /\ k \in 1..k /\ k \in Nat
    <3>1. k \in Nat /\ k <= Len(t) /\ k \in 1..k
      OBVIOUS
    <3>2. \A i \in 1..k : i \in 1..Len(t)
      OBVIOUS
    <3> QED BY <3>1, <3>2
  <2>2. Max(1..k) = k
    <3>1. k \in Nat /\ (1..k) \in SUBSET (1..k) /\ (1..k) # {} /\ k \in 1..k
      BY <2>1
    <3>2. k \in 1..k => Max(1..k) = k
      BY ONLY <3>1, MaxOfPlaces
    <3> QED BY <3>1, <3>2
  <2>3. (1..k) \ {k} = 1..k - 1
    OBVIOUS
  <2>4. g[1..k] = Nest(g[(1..k) \ {Max(1..k)}], t[Max(1..k)])
    BY <1>1, <2>1, Zenon
  <2> QED BY <2>2, <2>3, <2>4, Zenon
<1> QED BY <1>2, <1>3

\* No tokens change nothing.
LEMMA FoldNothing == ASSUME NEW a PROVE Fold(a, <<>>) = a
<1>1. <<>> \in Seq(Symbols) /\ DOMAIN <<>> = {}
  OBVIOUS
<1>2. PICK h : Folding(h, a, <<>>)
  BY <1>1, FoldingExists
<1>3. PICK g : Folding(g, a, <<>>) /\ Fold(a, <<>>) = g[DOMAIN <<>>]
  BY <1>2, FoldChosen, Zenon
<1>4. g[{}] = a
  BY <1>1, <1>3, FoldingIs
<1> QED BY <1>1, <1>3, <1>4, Zenon

\* The token appended is taken last.
LEMMA FoldAppend ==
  ASSUME NEW a, NEW t \in Seq(Symbols), NEW c \in Symbols
  PROVE  Fold(a, Append(t, c)) = Nest(Fold(a, t), c)
<1> DEFINE u == Append(t, c)
           n == Len(t)
<1>1. /\ u \in Seq(Symbols) /\ Len(u) = n + 1 /\ n \in Nat /\ u[n + 1] = c
      /\ DOMAIN t = 1..n /\ DOMAIN u = 1..n + 1
  OBVIOUS
<1>2. \A k \in 1..n : u[k] = t[k]
  OBVIOUS
<1> HIDE DEF u, n
<1>3. PICK g : Folding(g, a, t) /\ Fold(a, t) = g[1..n]
  <2>1. PICK h : Folding(h, a, t)
    BY FoldingExists
  <2>2. PICK g : Folding(g, a, t) /\ Fold(a, t) = g[DOMAIN t]
    BY <2>1, FoldChosen, Zenon
  <2> QED BY <1>1, <2>2, Zenon
<1>4. PICK h : Folding(h, a, u) /\ Fold(a, u) = h[1..n + 1]
  <2>1. PICK f : Folding(f, a, u)
    BY <1>1, FoldingExists
  <2>2. PICK h : Folding(h, a, u) /\ Fold(a, u) = h[DOMAIN u]
    BY <2>1, FoldChosen, Zenon
  <2> QED BY <1>1, <2>2, Zenon
<1>5. g[{}] = a /\ \A k \in 1..n : g[1..k] = Nest(g[1..k - 1], t[k])
  BY <1>3, FoldingIs DEF n
<1>6. h[{}] = a /\ \A k \in 1..n + 1 : h[1..k] = Nest(h[1..k - 1], u[k])
  BY <1>1, <1>4, FoldingIs
<1> DEFINE T == {k \in Nat : k <= n => h[1..k] = g[1..k]}
<1>7. 0 \in T
  <2>1. 1..0 = {}
    OBVIOUS
  <2> QED BY <1>5, <1>6, <2>1
<1>8. ASSUME NEW k \in T PROVE k + 1 \in T
  <2> SUFFICES ASSUME k + 1 <= n PROVE h[1..k + 1] = g[1..k + 1]
    OBVIOUS
  <2>1. k \in Nat /\ k + 1 \in 1..n /\ k + 1 \in 1..n + 1 /\ (k + 1) - 1 = k /\ h[1..k] = g[1..k]
    BY <1>1
  <2>2. h[1..k + 1] = Nest(h[1..(k + 1) - 1], u[k + 1])
    BY <1>6, <2>1, Zenon
  <2>3. g[1..k + 1] = Nest(g[1..(k + 1) - 1], t[k + 1])
    BY <1>5, <2>1, Zenon
  <2>4. u[k + 1] = t[k + 1]
    BY <1>2, <2>1
  <2> QED BY <2>1, <2>2, <2>3, <2>4, Zenon
<1>9. T = Nat
  <2>1. T \in SUBSET Nat
    OBVIOUS
  <2> HIDE DEF T
  <2> QED BY <1>7, <1>8, <2>1, Induction
<1>10. n \in T
  <2> HIDE DEF T
  <2> QED BY <1>1, <1>9
<1>11. h[1..n] = g[1..n]
  BY <1>1, <1>10
<1>12. n + 1 \in 1..n + 1 /\ (n + 1) - 1 = n
  BY <1>1
<1>13. h[1..n + 1] = Nest(h[1..(n + 1) - 1], u[n + 1])
  BY <1>6, <1>12, Zenon
<1> QED BY <1>1, <1>3, <1>4, <1>11, <1>12, <1>13, Zenon DEF u

\* What a tag does to the stack, and what anything else does.
LEMMA NestIs ==
  ASSUME NEW a \in Line
  PROVE  /\ \A x \in Symbols : Nest(a, x) \in Line /\ (x \notin TagTokens => Nest(a, x) = a)
         /\ \A t \in Tags : Nest(a, Open[t]) = Append(a, Open[t])
         /\ \A t \in Tags : Nest(Append(a, Open[t]), Close[t]) = a
<1>0. a \in Seq(Symbols)
  BY DEF Line
<1>1. ASSUME NEW x \in Symbols PROVE Nest(a, x) \in Line
  <2>1. Append(a, x) \in Line
    BY Joined
  <2>2. a # <<>> => Front(a) \in Line
    BY <1>0 DEF Front, Line
  <2> QED BY <2>1, <2>2 DEF Nest
<1>2. ASSUME NEW x \in Symbols, x \notin TagTokens PROVE Nest(a, x) = a
  <2>1. ~(\E t \in Tags : x = Open[t]) /\ ~(\E t \in Tags : x = Close[t])
    BY <1>2 DEF TagTokens
  <2> QED BY <2>1, Zenon DEF Nest
<1>3. ASSUME NEW t \in Tags PROVE Nest(a, Open[t]) = Append(a, Open[t])
  BY Zenon DEF Nest
<1>4. ASSUME NEW t \in Tags, NEW u \in Tags PROVE Close[t] # Open[u]
  <2> DEFINE O == {"<p>", "<ul>", "<ol>", "<li>", "<label>", "<blockquote>", "<pre>", "<code>", "<table>",
                   "<thead>", "<tbody>", "<tfoot>", "<tr>", "<th>", "<td>", "<h1>", "<h2>", "<h3>", "<h4>",
                   "<h5>", "<h6>"}
             C == {"</p>", "</ul>", "</ol>", "</li>", "</label>", "</blockquote>", "</pre>", "</code>",
                   "</table>", "</thead>", "</tbody>", "</tfoot>", "</tr>", "</th>", "</td>", "</h1>",
                   "</h2>", "</h3>", "</h4>", "</h5>", "</h6>"}
  <2>1. Open[u] \in O
    BY TagNames DEF Open
  <2>2. Close[t] \in C
    BY TagNames DEF Close
  <2>3. \A x \in O : x \notin C
    OBVIOUS
  <2> HIDE DEF O, C
  <2> QED BY <2>1, <2>2, <2>3
<1>5. ASSUME NEW t \in Tags PROVE Nest(Append(a, Open[t]), Close[t]) = a
  <2> DEFINE b == Append(a, Open[t])
  <2>1. Open[t] \in Symbols
    BY TagsTyped
  <2>2. b \in Seq(Symbols) /\ b # <<>> /\ Last(b) = Open[t] /\ Front(b) = a
    BY <1>0, <2>1 DEF Last, Front
  <2> HIDE DEF b
  <2>3. ~(\E u \in Tags : Close[t] = Open[u]) /\ (\E u \in Tags : Close[t] = Close[u])
    BY <1>4
  <2>4. b # <<>> /\ \E u \in Tags : Close[t] = Close[u] /\ Last(b) = Open[u]
    BY <2>2
  <2>5. Nest(b, Close[t]) = Front(b)
    BY <2>3, <2>4, Zenon DEF Nest
  <2> QED BY <2>2, <2>5 DEF b
<1> QED BY <1>1, <1>2, <1>3, <1>5

\* The stack is a sequence of tokens.
LEMMA FoldTyped ==
  ASSUME NEW a \in Line, NEW s \in Line
  PROVE  Fold(a, s) \in Line
<1> DEFINE T == {t \in Seq(Symbols) : Fold(a, t) \in Line}
<1>1. <<>> \in T
  BY FoldNothing DEF Line
<1>2. ASSUME NEW t \in T, NEW x \in Symbols PROVE Append(t, x) \in T
  <2>1. t \in Seq(Symbols) /\ Fold(a, t) \in Line /\ Append(t, x) \in Seq(Symbols)
    OBVIOUS
  <2>2. Fold(a, Append(t, x)) = Nest(Fold(a, t), x)
    BY <2>1, FoldAppend
  <2>3. Nest(Fold(a, t), x) \in Line
    BY <2>1, NestIs
  <2> QED BY <2>1, <2>2, <2>3
<1>3. T = Seq(Symbols)
  <2>1. T \in SUBSET Seq(Symbols)
    OBVIOUS
  <2> HIDE DEF T
  <2> QED BY <1>1, <1>2, <2>1, SequencesGrow
<1>4. s \in T
  <2>1. s \in Seq(Symbols)
    BY DEF Line
  <2> HIDE DEF T
  <2> QED BY <1>3, <2>1
<1> QED BY <1>4

\* One line after another.
LEMMA FoldJoin ==
  ASSUME NEW a \in Line, NEW s \in Line, NEW t \in Line
  PROVE  Fold(a, s \o t) = Fold(Fold(a, s), t)
<1> DEFINE T == {u \in Seq(Symbols) : Fold(a, s \o u) = Fold(Fold(a, s), u)}
<1>0. s \in Seq(Symbols) /\ t \in Seq(Symbols)
  BY DEF Line
<1>1. <<>> \in T
  <2>1. s \o <<>> = s /\ <<>> \in Seq(Symbols)
    BY <1>0
  <2> QED BY <2>1, FoldNothing
<1>2. ASSUME NEW u \in T, NEW x \in Symbols PROVE Append(u, x) \in T
  <2>1. u \in Seq(Symbols) /\ Fold(a, s \o u) = Fold(Fold(a, s), u) /\ Append(u, x) \in Seq(Symbols)
    OBVIOUS
  <2>2. s \o u \in Seq(Symbols) /\ s \o Append(u, x) = Append(s \o u, x)
    BY <1>0, <2>1
  <2>3. Fold(a, Append(s \o u, x)) = Nest(Fold(a, s \o u), x)
    BY <2>2, FoldAppend
  <2>4. Fold(Fold(a, s), Append(u, x)) = Nest(Fold(Fold(a, s), u), x)
    BY <2>1, FoldAppend
  <2> QED BY <2>1, <2>2, <2>3, <2>4
<1>3. T = Seq(Symbols)
  <2>1. T \in SUBSET Seq(Symbols)
    OBVIOUS
  <2> HIDE DEF T
  <2> QED BY <1>1, <1>2, <2>1, SequencesGrow
<1>4. t \in T
  <2> HIDE DEF T
  <2> QED BY <1>0, <1>3
<1> QED BY <1>4

\* A line of one token.
LEMMA FoldOne ==
  ASSUME NEW a \in Line, NEW x \in Symbols
  PROVE  Fold(a, <<x>>) = Nest(a, x)
<1>1. <<>> \in Seq(Symbols) /\ Append(<<>>, x) = <<x>>
  OBVIOUS
<1>2. Fold(a, Append(<<>>, x)) = Nest(Fold(a, <<>>), x)
  BY <1>1, FoldAppend
<1> QED BY <1>1, <1>2, FoldNothing

\* Lines that do the same to any stack, and lines that do nothing to it.
Alike(s, t) == \A a \in Line : Fold(a, s) = Fold(a, t)
Level(s) == \A a \in Line : Fold(a, s) = a

\* A line without tags.
Plain(s) == s \in Line /\ \A i \in 1..Len(s) : s[i] \notin TagTokens

\* What is joined of lines that do the same does the same.
LEMMA AlikeJoined ==
  ASSUME NEW s \in Line, NEW t \in Line, NEW u \in Line, NEW v \in Line, Alike(s, t), Alike(u, v)
  PROVE  Alike(s \o u, t \o v)
<1> SUFFICES ASSUME NEW a \in Line PROVE Fold(a, s \o u) = Fold(a, t \o v)
  BY DEF Alike
<1>1. Fold(a, s \o u) = Fold(Fold(a, s), u) /\ Fold(a, t \o v) = Fold(Fold(a, t), v)
  BY FoldJoin
<1>2. Fold(a, s) = Fold(a, t) /\ Fold(a, t) \in Line
  BY FoldTyped DEF Alike
<1>3. Fold(Fold(a, t), u) = Fold(Fold(a, t), v)
  BY <1>2 DEF Alike
<1> QED BY <1>1, <1>2, <1>3

\* Nothing is level, and so is one level line after another.
LEMMA LevelJoined ==
  /\ Level(<<>>)
  /\ \A s, t \in Line : Level(s) /\ Level(t) => Level(s \o t)
<1>1. Level(<<>>)
  BY FoldNothing DEF Level
<1>2. ASSUME NEW s \in Line, NEW t \in Line, Level(s), Level(t) PROVE Level(s \o t)
  <2> SUFFICES ASSUME NEW a \in Line PROVE Fold(a, s \o t) = a
    BY DEF Level
  <2>1. Fold(a, s \o t) = Fold(Fold(a, s), t)
    BY FoldJoin
  <2> QED BY <1>2, <2>1 DEF Level
<1> QED BY <1>1, <1>2

\* What is not a tag is level.
LEMMA LevelOne ==
  ASSUME NEW x \in Symbols, x \notin TagTokens
  PROVE  Level(<<x>>)
BY FoldOne, NestIs DEF Level

\* An element around what is level is level.
LEMMA LevelElement ==
  ASSUME NEW t \in Tags, NEW s \in Line, Level(s)
  PROVE  Level(Element(t, s))
<1> SUFFICES ASSUME NEW a \in Line PROVE Fold(a, Element(t, s)) = a
  BY DEF Level
<1>1. Open[t] \in Symbols /\ Close[t] \in Symbols
  BY TagsTyped
<1>2. <<Open[t]>> \in Line /\ <<Close[t]>> \in Line
  BY <1>1, Tuples
<1>3. <<Open[t]>> \o s \in Line /\ Append(a, Open[t]) \in Line
  BY <1>1, <1>2, Joined
<1>4. Fold(a, <<Open[t]>>) = Append(a, Open[t])
  BY <1>1, FoldOne, NestIs
<1>5. Fold(a, <<Open[t]>> \o s) = Append(a, Open[t])
  <2>1. Fold(a, <<Open[t]>> \o s) = Fold(Fold(a, <<Open[t]>>), s)
    BY <1>2, FoldJoin
  <2> QED BY <1>3, <1>4, <2>1 DEF Level
<1>6. Fold(a, (<<Open[t]>> \o s) \o <<Close[t]>>) = Fold(Fold(a, <<Open[t]>> \o s), <<Close[t]>>)
  BY <1>2, <1>3, FoldJoin
<1>7. Fold(Append(a, Open[t]), <<Close[t]>>) = Nest(Append(a, Open[t]), Close[t])
  BY <1>1, <1>3, FoldOne
<1>8. Nest(Append(a, Open[t]), Close[t]) = a
  BY NestIs
<1>9. Element(t, s) = (<<Open[t]>> \o s) \o <<Close[t]>>
  <2>1. Element(t, s) = <<Open[t]>> \o s \o <<Close[t]>>
    BY Zenon DEF Element
  <2> QED BY <2>1
<1> QED BY <1>5, <1>6, <1>7, <1>8, <1>9

\* A plain line is level.
LEMMA PlainLevel == ASSUME NEW s, Plain(s) PROVE Level(s) /\ s \in Line
<1> DEFINE T == {t \in Seq(Symbols) : (\A i \in 1..Len(t) : t[i] \notin TagTokens) => Level(t)}
<1>1. <<>> \in T
  BY LevelJoined
<1>2. ASSUME NEW t \in T, NEW x \in Symbols PROVE Append(t, x) \in T
  <2> DEFINE u == Append(t, x)
  <2>1. u \in Seq(Symbols) /\ Len(u) = Len(t) + 1 /\ u[Len(t) + 1] = x /\ Len(t) \in Nat /\ t \in Seq(Symbols)
        /\ \A i \in 1..Len(t) : u[i] = t[i]
    OBVIOUS
  <2>2. u = t \o <<x>>
    OBVIOUS
  <2> HIDE DEF u
  <2>3. ASSUME \A i \in 1..Len(u) : u[i] \notin TagTokens PROVE Level(u)
    <3>1. Len(t) + 1 \in 1..Len(u) /\ \A i \in 1..Len(t) : i \in 1..Len(u)
      BY <2>1
    <3>2. x \notin TagTokens /\ \A i \in 1..Len(t) : t[i] \notin TagTokens
      BY <2>1, <2>3, <3>1
    <3>3. Level(t) /\ t \in Line /\ <<x>> \in Line /\ Level(<<x>>)
      <4>1. Level(t)
        BY <3>2
      <4> QED BY <2>1, <3>2, <4>1, LevelOne, Tuples DEF Line
    <3> QED BY <2>2, <3>3, LevelJoined
  <2> QED BY <2>1, <2>3 DEF u
<1>3. T = Seq(Symbols)
  <2>1. T \in SUBSET Seq(Symbols)
    OBVIOUS
  <2> HIDE DEF T
  <2> QED BY <1>1, <1>2, <2>1, SequencesGrow
<1>4. s \in Seq(Symbols)
  BY DEF Plain, Line
<1>5. s \in T
  <2> HIDE DEF T
  <2> QED BY <1>3, <1>4
<1> QED BY <1>4, <1>5 DEF Plain, Line

\* Parts that do the same, one after another.
LEMMA AlikeFlattened ==
  ASSUME NEW f \in Seq(Line), NEW g \in Seq(Line), Len(f) = Len(g),
         \A i \in 1..Len(f) : Alike(f[i], g[i])
  PROVE  Alike(FlattenSeq(f), FlattenSeq(g))
<1> DEFINE First(h, n) == SubSeq(h, 1, n)
           T == {n \in Nat : n <= Len(f) => Alike(FlattenSeq(First(f, n)), FlattenSeq(First(g, n)))}
<1>0. Len(f) \in Nat /\ Len(g) \in Nat
  OBVIOUS
<1>1. 0 \in T
  <2>1. First(f, 0) = <<>> /\ First(g, 0) = <<>>
    BY SubSeqEmpty
  <2> QED BY <2>1 DEF Alike
<1>4. ASSUME NEW h \in Seq(Line), NEW n \in Nat, n + 1 <= Len(h)
      PROVE  /\ FlattenSeq(First(h, n)) \in Line /\ h[n + 1] \in Line
             /\ FlattenSeq(First(h, n + 1)) = FlattenSeq(First(h, n)) \o h[n + 1]
  <2>1. /\ First(h, n) \in Seq(Line) /\ Len(First(h, n)) = n
        /\ First(h, n + 1) \in Seq(Line) /\ Len(First(h, n + 1)) = n + 1
        /\ \A i \in 1..n : First(h, n)[i] = First(h, n + 1)[i]
        /\ First(h, n + 1)[n + 1] = h[n + 1] /\ h[n + 1] \in Line
    BY <1>4
  <2> HIDE DEF First
  <2>2. FlattenSeq(First(h, n + 1)) = FlattenSeq(First(h, n)) \o First(h, n + 1)[Len(First(h, n + 1))]
    BY <2>1, FlattenLast DEF Line
  <2>3. FlattenSeq(First(h, n)) \in Line
    BY <2>1, FlattenType DEF Line
  <2> QED BY <2>1, <2>2, <2>3
<1>2. ASSUME NEW n \in T PROVE n + 1 \in T
  <2>0. n \in Nat /\ n + 1 \in Nat
    OBVIOUS
  <2> SUFFICES ASSUME n + 1 <= Len(f)
               PROVE  Alike(FlattenSeq(First(f, n + 1)), FlattenSeq(First(g, n + 1)))
    BY <2>0
  <2>1. Alike(FlattenSeq(First(f, n)), FlattenSeq(First(g, n))) /\ n + 1 \in 1..Len(f)
    BY <1>0, <2>0
  <2> HIDE DEF First, T
  <2>2. Alike(f[n + 1], g[n + 1])
    BY <2>1
  <2>3. /\ FlattenSeq(First(f, n)) \in Line /\ f[n + 1] \in Line
        /\ FlattenSeq(First(f, n + 1)) = FlattenSeq(First(f, n)) \o f[n + 1]
    BY <1>4, <2>0
  <2>4. /\ FlattenSeq(First(g, n)) \in Line /\ g[n + 1] \in Line
        /\ FlattenSeq(First(g, n + 1)) = FlattenSeq(First(g, n)) \o g[n + 1]
    BY <1>4, <2>0
  <2>5. Alike(FlattenSeq(First(f, n)) \o f[n + 1], FlattenSeq(First(g, n)) \o g[n + 1])
    BY <2>1, <2>2, <2>3, <2>4, AlikeJoined
  <2> QED BY <2>3, <2>4, <2>5
<1>3. T = Nat
  <2>1. T \in SUBSET Nat
    OBVIOUS
  <2> HIDE DEF T
  <2> QED BY <1>1, <1>2, <2>1, Induction
<1>5. First(f, Len(f)) = f /\ First(g, Len(f)) = g
  BY SubSeqFull
<1>6. Len(f) \in T
  BY <1>0, <1>3
<1>7. Alike(FlattenSeq(First(f, Len(f))), FlattenSeq(First(g, Len(f))))
  BY <1>0, <1>6
<1> HIDE DEF First
<1> QED BY <1>5, <1>7
\* Level parts, one after another.
LEMMA LevelFlattened ==
  ASSUME NEW f \in Seq(Line), \A i \in 1..Len(f) : Level(f[i])
  PROVE  Level(FlattenSeq(f)) /\ FlattenSeq(f) \in Line
<1> DEFINE T == {g \in Seq(Line) : (\A i \in 1..Len(g) : Level(g[i])) => Level(FlattenSeq(g))}
<1>1. <<>> \in T
  BY FlattenNothing, LevelJoined
<1>2. ASSUME NEW g \in T, NEW x \in Line PROVE Append(g, x) \in T
  <2> DEFINE h == Append(g, x)
  <2>1. /\ h \in Seq(Line) /\ Len(h) = Len(g) + 1 /\ h[Len(g) + 1] = x /\ Len(g) \in Nat /\ g \in Seq(Line)
        /\ \A i \in 1..Len(g) : h[i] = g[i]
    OBVIOUS
  <2>2. FlattenSeq(h) = FlattenSeq(g) \o x /\ FlattenSeq(g) \in Line
    <3>1. g \in Seq(Seq(Symbols)) /\ x \in Seq(Symbols)
      BY <2>1 DEF Line
    <3>2. FlattenSeq(Append(g, x)) = FlattenSeq(g) \o x
      BY <3>1, FlattenAppend
    <3>3. FlattenSeq(g) \in Seq(Symbols)
      BY <3>1, FlattenType
    <3> QED BY <3>2, <3>3 DEF Line
  <2> HIDE DEF h
  <2>3. ASSUME \A i \in 1..Len(h) : Level(h[i]) PROVE Level(FlattenSeq(h))
    <3>1. Len(g) + 1 \in 1..Len(h) /\ \A i \in 1..Len(g) : i \in 1..Len(h)
      BY <2>1
    <3>2. Level(x) /\ \A i \in 1..Len(g) : Level(g[i])
      BY <2>1, <2>3, <3>1
    <3>3. Level(FlattenSeq(g))
      BY <3>2
    <3> QED BY <2>2, <3>2, <3>3, LevelJoined
  <2> QED BY <2>1, <2>3 DEF h
<1>3. T = Seq(Line)
  <2>1. T \in SUBSET Seq(Line)
    OBVIOUS
  <2> HIDE DEF T
  <2> QED BY <1>1, <1>2, <2>1, SequencesGrow
<1>4. f \in T
  <2> HIDE DEF T
  <2> QED BY <1>3
<1>5. FlattenSeq(f) \in Line
  BY FlattenType DEF Line
<1> QED BY <1>4, <1>5

\* The tokens that are no tags.
LEMMA NoTags ==
  \A x \in {" ", "\n", "tick", "<br>", "<hr/>", "<input/>", "cr", "fence"} : x \notin TagTokens
<1> DEFINE O == {"<p>", "<ul>", "<ol>", "<li>", "<label>", "<blockquote>", "<pre>", "<code>", "<table>",
                 "<thead>", "<tbody>", "<tfoot>", "<tr>", "<th>", "<td>", "<h1>", "<h2>", "<h3>", "<h4>",
                 "<h5>", "<h6>"}
           C == {"</p>", "</ul>", "</ol>", "</li>", "</label>", "</blockquote>", "</pre>", "</code>",
                 "</table>", "</thead>", "</tbody>", "</tfoot>", "</tr>", "</th>", "</td>", "</h1>",
                 "</h2>", "</h3>", "</h4>", "</h5>", "</h6>"}
           S == {" ", "\n", "tick", "<br>", "<hr/>", "<input/>", "cr", "fence"}
<1>1. ASSUME NEW t \in Tags PROVE Open[t] \in O
  BY TagNames DEF Open
<1>2. ASSUME NEW t \in Tags PROVE Close[t] \in C
  BY TagNames DEF Close
<1>3. \A x \in S : x \notin O
  OBVIOUS
<1>4. \A x \in S : x \notin C
  OBVIOUS
<1> HIDE DEF O, C, S
<1>5. \A x \in S : x \notin TagTokens
  BY <1>1, <1>2, <1>3, <1>4 DEF TagTokens
<1> QED BY <1>5 DEF S

\* The inline parsers write no tag but an element that is closed.
LEMMA RunAlike ==
  ASSUME NEW line \in Line
  PROVE  Alike(runLineParser(line), line)
<1> DEFINE Piece(x) == CASE x = "cr"  -> <<"<br>">>
                         [] x = "fence" -> Element("code", <<>>) \o <<"tick">>
                         [] OTHER           -> <<x>>
           f == [i \in DOMAIN line |-> Piece(line[i])]
           g == [i \in 1..Len(line) |-> <<line[i]>>]
<1>0. Len(line) \in Nat /\ DOMAIN line = 1..Len(line) /\ \A i \in 1..Len(line) : line[i] \in Symbols
  BY DEF Line
<1>1. ASSUME NEW x \in Symbols PROVE Piece(x) \in Line /\ Alike(Piece(x), <<x>>)
  <2>1. <<x>> \in Line
    BY Tuples
  <2>2. CASE x = "cr"
    <3>1. Piece(x) = <<"<br>">>
      BY <2>2
    <3>2. "<br>" \in Symbols /\ "<br>" \notin TagTokens /\ "cr" \notin TagTokens
      BY Literals, NoTags, Zenon
    <3>3. Level(<<"<br>">>) /\ Level(<<x>>) /\ <<"<br>">> \in Line
      BY <2>2, <3>2, LevelOne, Tuples
    <3> QED BY <3>1, <3>3 DEF Level, Alike
  <2>3. CASE x = "fence"
    <3>1. Piece(x) = Element("code", <<>>) \o <<"tick">>
      BY <2>3
    <3>2. "tick" \in Symbols /\ "tick" \notin TagTokens /\ "fence" \notin TagTokens /\ "code" \in Tags
      BY Literals, NoTags, TagNames, Zenon
    <3>3. Element("code", <<>>) \in Line /\ Level(Element("code", <<>>))
      BY <3>2, ElementTyped, EmptyLine, LevelElement, LevelJoined
    <3>4. <<"tick">> \in Line /\ Level(<<"tick">>) /\ Level(<<x>>)
      BY <2>3, <3>2, LevelOne, Tuples
    <3>5. Element("code", <<>>) \o <<"tick">> \in Line /\ Level(Element("code", <<>>) \o <<"tick">>)
      BY <3>3, <3>4, Joined, LevelJoined
    <3> QED BY <3>1, <3>4, <3>5 DEF Level, Alike
  <2>4. CASE x # "cr" /\ x # "fence"
    <3>1. Piece(x) = <<x>>
      BY <2>4
    <3> QED BY <2>1, <3>1 DEF Alike
  <2> QED BY <2>2, <2>3, <2>4
<1>2. runLineParser(line) = FlattenSeq(f)
  BY Zenon DEF runLineParser
<1>3. \A i \in 1..Len(line) : f[i] = Piece(line[i]) /\ g[i] = <<line[i]>>
  BY <1>0
<1>4. f \in Seq(Line) /\ Len(f) = Len(line)
  <2> HIDE DEF Piece
  <2>1. \A i \in 1..Len(line) : Piece(line[i]) \in Line
    BY <1>0, <1>1
  <2>2. f \in [1..Len(line) -> Line]
    BY <1>0, <2>1
  <2> HIDE DEF f
  <2> QED BY <1>0, <2>2, TableOf
<1>5. g \in Seq(Line) /\ Len(g) = Len(line) /\ FlattenSeq(g) = line
  BY Singles
<1> HIDE DEF f, g, Piece
<1>6. \A i \in 1..Len(f) : Alike(f[i], g[i])
  BY <1>0, <1>1, <1>3, <1>4
<1>7. Alike(FlattenSeq(f), FlattenSeq(g))
  BY <1>4, <1>5, <1>6, AlikeFlattened
<1> QED BY <1>2, <1>5, <1>7

\* Parts of a plain line are plain, and so are plain lines joined.
LEMMA PlainParts ==
  /\ Plain(<<>>)
  /\ \A s : Plain(s) => \A n \in Nat : Plain(SubSeq(s, n + 1, Len(s)))
  /\ \A s, t : Plain(s) /\ Plain(t) => Plain(s \o t)
  /\ \A s, x : Plain(s) /\ x \in Symbols /\ x \notin TagTokens => Plain(Append(s, x)) /\ Plain(<<x>>)
<1>1. Plain(<<>>)
  BY EmptyLine DEF Plain
<1>2. ASSUME NEW s, Plain(s), NEW n \in Nat PROVE Plain(SubSeq(s, n + 1, Len(s)))
  <2> DEFINE t == SubSeq(s, n + 1, Len(s))
  <2>1. s \in Seq(Symbols) /\ t \in Line /\ Len(s) \in Nat
    BY <1>2, Rest DEF Plain, Line
  <2>2. \A i \in 1..Len(t) : n + i \in 1..Len(s) /\ t[i] = s[n + i]
    BY <2>1
  <2> HIDE DEF t
  <2> QED BY <1>2, <2>1, <2>2 DEF Plain, t
<1>3. ASSUME NEW s, NEW t, Plain(s), Plain(t) PROVE Plain(s \o t)
  <2> DEFINE u == s \o t
  <2>1. s \in Seq(Symbols) /\ t \in Seq(Symbols)
    BY <1>3 DEF Plain, Line
  <2>2. /\ u \in Seq(Symbols) /\ Len(u) = Len(s) + Len(t) /\ Len(s) \in Nat /\ Len(t) \in Nat
        /\ \A i \in 1..Len(u) : u[i] = IF i <= Len(s) THEN s[i] ELSE t[i - Len(s)]
    BY <2>1
  <2> HIDE DEF u
  <2>3. ASSUME NEW i \in 1..Len(u) PROVE u[i] \notin TagTokens
    <3>1. CASE i <= Len(s)
      <4>1. i \in 1..Len(s)
        BY <2>2, <3>1
      <4> QED BY <1>3, <2>2, <3>1, <4>1 DEF Plain
    <3>2. CASE ~(i <= Len(s))
      <4>1. i - Len(s) \in 1..Len(t)
        BY <2>2, <3>2
      <4> QED BY <1>3, <2>2, <3>2, <4>1 DEF Plain
    <3> QED BY <3>1, <3>2
  <2> QED BY <2>2, <2>3 DEF Plain, Line, u
<1>4. ASSUME NEW x \in Symbols, x \notin TagTokens PROVE Plain(<<x>>)
  <2>1. <<x>> \in Line /\ Len(<<x>>) = 1 /\ \A i \in 1..1 : <<x>>[i] = x
    BY Tuples
  <2> QED BY <1>4, <2>1 DEF Plain
<1>5. ASSUME NEW s, NEW x, Plain(s), x \in Symbols, x \notin TagTokens PROVE Plain(Append(s, x))
  <2>1. Append(s, x) = s \o <<x>>
    <3>1. s \in Seq(Symbols)
      BY <1>5 DEF Plain, Line
    <3> QED BY <1>5, <3>1
  <2> QED BY <1>3, <1>4, <1>5, <2>1
<1> QED BY <1>1, <1>2, <1>3, <1>4, <1>5

\* A plain line without its mark is plain.
LEMMA PlainStripped ==
  ASSUME NEW A, NEW mark \in Seq(A), NEW s, Plain(s)
  PROVE  Plain(Strip(mark, s))
<1>1. Len(mark) \in Nat
  OBVIOUS
<1> QED BY <1>1, PlainParts DEF Strip

\* The text of an item, and of a quote.
LEMMA PlainUnmarked ==
  ASSUME NEW s, Plain(s)
  PROVE  /\ \A k \in ListKinds : Plain(Unmarked(k, s))
         /\ Plain(QuoteText(s))
<1>1. \A m \in Mark : \A t : Plain(t) => Plain(Strip(m, t))
  BY PlainStripped DEF Mark
<1>2. ASSUME NEW t, Plain(t) PROVE Plain(Box(t))
  <2>1. CASE t # <<>> /\ t[1] \in Boxes
    <3>1. t \in Seq(Symbols)
      BY <1>2 DEF Plain, Line
    <3>3. Plain(Tail(t))
      <4>1. Tail(t) \in Seq(Symbols) /\ Len(Tail(t)) = Len(t) - 1 /\ Len(t) \in Nat
        BY <2>1, <3>1
      <4>2. \A i \in 1..Len(t) - 1 : Tail(t)[i] = t[i + 1] /\ i + 1 \in 1..Len(t)
        BY <2>1, <3>1, <4>1
      <4> QED BY <1>2, <4>1, <4>2 DEF Plain, Line
    <3>4. "<input/>" \in Symbols /\ "<input/>" \notin TagTokens
      BY Literals, NoTags, Zenon
    <3>5. Plain(<<"<input/>">> \o Tail(t))
      BY <3>3, <3>4, PlainParts
    <3> QED BY <2>1, <3>5 DEF Box
  <2>2. CASE ~(t # <<>> /\ t[1] \in Boxes)
    BY <1>2, <2>2 DEF Box
  <2> QED BY <2>1, <2>2
<1>3. Plain(Unmarked("checklist", s))
  <2>1. Unmarked("checklist", s) = Box(Strip(<<"-", " ">>, s))
    BY DEF Unmarked
  <2>2. Plain(Strip(<<"-", " ">>, s))
    BY <1>1, MarksAre
  <2> QED BY <1>2, <2>1, <2>2
<1>4. Plain(Unmarked("ordered", s))
  <2>1. Unmarked("ordered", s) = Strip(<<"*", " ">>, Strip(<<"1.", " ">>, s))
    BY DEF Unmarked
  <2>2. Plain(Strip(<<"1.", " ">>, s))
    BY <1>1, MarksAre
  <2>3. Plain(Strip(<<"*", " ">>, Strip(<<"1.", " ">>, s)))
    BY <1>1, <2>2, MarksAre
  <2> QED BY <2>1, <2>3
<1>5. Plain(Unmarked("unordered", s))
  <2>1. Unmarked("unordered", s) = IF \E m \in Bullets : IsPrefix(m, s) THEN SubSeq(s, 3, Len(s)) ELSE s
    BY DEF Unmarked
  <2>2. Plain(SubSeq(s, 2 + 1, Len(s))) /\ 2 + 1 = 3
    <3>1. 2 \in Nat /\ 2 + 1 = 3
      OBVIOUS
    <3> QED BY <3>1, PlainParts
  <2> QED BY <2>1, <2>2
<1>6. Plain(QuoteText(s))
  <2>1. Plain(Strip(<<">", " ">>, s))
    BY <1>1, MarksAre
  <2>2. Plain(Strip(<<">">>, Strip(<<">", " ">>, s)))
    BY <1>1, <2>1, MarksAre
  <2> QED BY <2>2 DEF QuoteText
<1> QED BY <1>3, <1>4, <1>5, <1>6 DEF ListKinds

\* The tags a block that is open leaves open.
Around(kind) ==
  CASE kind = "quote"     -> <<"<blockquote>">>
    [] kind \in ListKinds -> OpenList(kind)
    [] kind = "paragraph" -> <<"<p>">>
    [] kind = "code"      -> <<"<pre>", "<code>">>
    [] OTHER              -> <<>>

\* A token more.
LEMMA Appends ==
  ASSUME NEW x \in Symbols, NEW y \in Symbols, NEW z \in Symbols
  PROVE  /\ Append(<<x>>, y) = <<x, y>> /\ Append(<<x, y>>, z) = <<x, y, z>>
<1>1. Append(<<x>>, y) = <<x, y>>
  <2> DEFINE s == Append(<<x>>, y)
             t == <<x, y>>
  <2>1. s \in Seq(Symbols) /\ Len(s) = 2 /\ s[1] = x /\ s[2] = y
    OBVIOUS
  <2>2. t \in Seq(Symbols) /\ Len(t) = 2 /\ t[1] = x /\ t[2] = y
    OBVIOUS
  <2>3. \A i \in 1..2 : i = 1 \/ i = 2
    OBVIOUS
  <2> HIDE DEF s, t
  <2>4. s = t
    BY <2>1, <2>2, <2>3, SeqEqual
  <2> QED BY <2>4 DEF s, t
<1>2. Append(<<x, y>>, z) = <<x, y, z>>
  <2> DEFINE s == Append(<<x, y>>, z)
             t == <<x, y, z>>
  <2>1. s \in Seq(Symbols) /\ Len(s) = 3 /\ s[1] = x /\ s[2] = y /\ s[3] = z
    OBVIOUS
  <2>2. t \in Seq(Symbols) /\ Len(t) = 3 /\ t[1] = x /\ t[2] = y /\ t[3] = z
    OBVIOUS
  <2>3. \A i \in 1..3 : i = 1 \/ i = 2 \/ i = 3
    OBVIOUS
  <2> HIDE DEF s, t
  <2>4. s = t
    BY <2>1, <2>2, <2>3, SeqEqual
  <2> QED BY <2>4 DEF s, t
<1> QED BY <1>1, <1>2

\* A few tokens, one after the other.
LEMMA FoldTwo ==
  ASSUME NEW a \in Line, NEW x \in Symbols, NEW y \in Symbols
  PROVE  Fold(a, <<x, y>>) = Nest(Nest(a, x), y)
<1>1. <<x>> \in Seq(Symbols)
  OBVIOUS
<1>3. Append(<<x>>, y) = <<x, y>>
  BY Appends
<1>2. Fold(a, Append(<<x>>, y)) = Nest(Fold(a, <<x>>), y)
  BY <1>1, FoldAppend
<1> QED BY <1>2, <1>3, FoldOne

\* Three.
LEMMA FoldThree ==
  ASSUME NEW a \in Line, NEW x \in Symbols, NEW y \in Symbols, NEW z \in Symbols
  PROVE  Fold(a, <<x, y, z>>) = Nest(Nest(Nest(a, x), y), z)
<1>1. <<x, y>> \in Seq(Symbols)
  OBVIOUS
<1>2. Append(<<x, y>>, z) = <<x, y, z>>
  BY Appends
<1>3. Fold(a, Append(<<x, y>>, z)) = Nest(Fold(a, <<x, y>>), z)
  BY <1>1, FoldAppend
<1> QED BY <1>2, <1>3, FoldTwo

\* Four.
LEMMA FoldFour ==
  ASSUME NEW a \in Line, NEW x \in Symbols, NEW y \in Symbols, NEW z \in Symbols, NEW w \in Symbols
  PROVE  Fold(a, <<x, y, z, w>>) = Nest(Nest(Nest(Nest(a, x), y), z), w)
<1>1. <<x, y, z>> \in Seq(Symbols)
  OBVIOUS
<1>2. Append(<<x, y, z>>, w) = <<x, y, z, w>>
  <2> DEFINE s == Append(<<x, y, z>>, w)
             t == <<x, y, z, w>>
  <2>1. s \in Seq(Symbols) /\ Len(s) = 4 /\ s[1] = x /\ s[2] = y /\ s[3] = z /\ s[4] = w
    OBVIOUS
  <2>2. t \in Seq(Symbols) /\ Len(t) = 4 /\ t[1] = x /\ t[2] = y /\ t[3] = z /\ t[4] = w
    OBVIOUS
  <2>3. \A i \in 1..4 : i = 1 \/ i = 2 \/ i = 3 \/ i = 4
    OBVIOUS
  <2> HIDE DEF s, t
  <2>4. s = t
    BY <2>1, <2>2, <2>3, SeqEqual
  <2> QED BY <2>4 DEF s, t
<1>3. Fold(a, Append(<<x, y, z>>, w)) = Nest(Fold(a, <<x, y, z>>), w)
  BY <1>1, FoldAppend
<1> QED BY <1>2, <1>3, FoldThree

\* Tags opened on any stack, and closed in the reverse order.
LEMMA Stacked ==
  ASSUME NEW a \in Line, NEW t \in Tags, NEW u \in Tags
  PROVE  /\ Fold(a, <<Open[t]>>) = a \o <<Open[t]>>
         /\ Fold(a, <<Open[t], Open[u]>>) = a \o <<Open[t], Open[u]>>
         /\ Fold(a \o <<Open[t]>>, <<Close[t]>>) = a
         /\ Fold(a \o <<Open[t], Open[u]>>, <<Close[u], Close[t]>>) = a
         /\ Fold(a \o <<Open[t], Open[u]>>, <<Close[u], Open[u]>>) = a \o <<Open[t], Open[u]>>
<1> DEFINE b == Append(a, Open[t])
           c == Append(b, Open[u])
<1>1. Open[t] \in Symbols /\ Open[u] \in Symbols
      /\ Close[t] \in Symbols /\ Close[u] \in Symbols
  BY TagsTyped
<1>2. b \in Line /\ c \in Line
  BY <1>1, Joined
<1>3. ASSUME NEW x \in Symbols, NEW y \in Symbols
      PROVE  /\ a \o <<x>> = Append(a, x)
             /\ a \o <<x, y>> = Append(Append(a, x), y)
  BY DEF Line
<1>4. /\ a \o <<Open[t]>> = b /\ a \o <<Open[t], Open[u]>> = c
  BY <1>1, <1>3
<1>5. /\ Nest(a, Open[t]) = b /\ Nest(b, Open[u]) = c
      /\ Nest(b, Close[t]) = a /\ Nest(c, Close[u]) = b
  BY <1>2, NestIs
<1> HIDE DEF b, c
<1>6. /\ Fold(a, <<Open[t]>>) = b /\ Fold(a, <<Open[t], Open[u]>>) = c
  <2>1. Fold(a, <<Open[t]>>) = Nest(a, Open[t])
    BY <1>1, FoldOne
  <2>2. Fold(a, <<Open[t], Open[u]>>) = Nest(Nest(a, Open[t]), Open[u])
    BY <1>1, FoldTwo
  <2> QED BY <1>5, <2>1, <2>2, Zenon
<1>7. /\ Fold(b, <<Close[t]>>) = a /\ Fold(c, <<Close[u], Close[t]>>) = a
  <2>1. Fold(b, <<Close[t]>>) = Nest(b, Close[t])
    BY <1>1, <1>2, FoldOne
  <2>2. Fold(c, <<Close[u], Close[t]>>) = Nest(Nest(c, Close[u]), Close[t])
    BY <1>1, <1>2, FoldTwo
  <2> QED BY <1>5, <2>1, <2>2, Zenon
<1>8. Fold(c, <<Close[u], Open[u]>>) = c
  <2>1. Fold(c, <<Close[u], Open[u]>>) = Nest(Nest(c, Close[u]), Open[u])
    BY <1>1, <1>2, FoldTwo
  <2> QED BY <1>5, <2>1, Zenon
<1> QED BY <1>4, <1>6, <1>7, <1>8

\* Three tags, as a checklist has them.
LEMMA StackedThree ==
  ASSUME NEW a \in Line, NEW t \in Tags, NEW u \in Tags, NEW v \in Tags
  PROVE  /\ Fold(a, <<Open[t], Open[u], Open[v]>>) = a \o <<Open[t], Open[u], Open[v]>>
         /\ Fold(a \o <<Open[t], Open[u], Open[v]>>, <<Close[v], Close[u], Close[t]>>) = a
<1> DEFINE b == Append(a, Open[t])
           c == Append(b, Open[u])
           d == Append(c, Open[v])
<1>1. Open[t] \in Symbols /\ Open[u] \in Symbols /\ Open[v] \in Symbols
      /\ Close[t] \in Symbols /\ Close[u] \in Symbols /\ Close[v] \in Symbols
  BY TagsTyped
<1>2. b \in Line /\ c \in Line /\ d \in Line
  BY <1>1, Joined
<1>3. ASSUME NEW x \in Symbols, NEW y \in Symbols, NEW z \in Symbols
      PROVE  /\ a \o <<x>> = Append(a, x)
             /\ a \o <<x, y>> = Append(Append(a, x), y)
             /\ a \o <<x, y, z>> = Append(Append(Append(a, x), y), z)
  BY DEF Line
<1>4. /\ a \o <<Open[t]>> = b /\ a \o <<Open[t], Open[u]>> = c
      /\ a \o <<Open[t], Open[u], Open[v]>> = d
  BY <1>1, <1>3
<1>5. /\ Nest(a, Open[t]) = b /\ Nest(b, Open[u]) = c /\ Nest(c, Open[v]) = d
      /\ Nest(b, Close[t]) = a /\ Nest(c, Close[u]) = b /\ Nest(d, Close[v]) = c
  BY <1>2, NestIs
<1> HIDE DEF b, c, d
<1>6. Fold(a, <<Open[t], Open[u], Open[v]>>) = d
  <2>3. Fold(a, <<Open[t], Open[u], Open[v]>>) = Nest(Nest(Nest(a, Open[t]), Open[u]), Open[v])
    BY <1>1, FoldThree
  <2> QED BY <1>5, <2>3, Zenon
<1>7. Fold(d, <<Close[v], Close[u], Close[t]>>) = a
  <2>3. Fold(d, <<Close[v], Close[u], Close[t]>>) = Nest(Nest(Nest(d, Close[v]), Close[u]), Close[t])
    BY <1>1, <1>2, FoldThree
  <2> QED BY <1>5, <2>3, Zenon
<1> QED BY <1>4, <1>6, <1>7

\* The same for an item between two of a checklist.
LEMMA StackedItem ==
  ASSUME NEW a \in Line, NEW t \in Tags, NEW u \in Tags, NEW v \in Tags
  PROVE  Fold(a \o <<Open[t], Open[u], Open[v]>>, <<Close[v], Close[u], Open[u], Open[v]>>)
           = a \o <<Open[t], Open[u], Open[v]>>
<1> DEFINE b == Append(a, Open[t])
           c == Append(b, Open[u])
           d == Append(c, Open[v])
<1>1. Open[t] \in Symbols /\ Open[u] \in Symbols /\ Open[v] \in Symbols
      /\ Close[t] \in Symbols /\ Close[u] \in Symbols /\ Close[v] \in Symbols
  BY TagsTyped
<1>2. b \in Line /\ c \in Line /\ d \in Line
  BY <1>1, Joined
<1>3. ASSUME NEW x \in Symbols, NEW y \in Symbols, NEW z \in Symbols
      PROVE  /\ a \o <<x>> = Append(a, x)
             /\ a \o <<x, y>> = Append(Append(a, x), y)
             /\ a \o <<x, y, z>> = Append(Append(Append(a, x), y), z)
  BY DEF Line
<1>4. /\ a \o <<Open[t]>> = b /\ a \o <<Open[t], Open[u]>> = c
      /\ a \o <<Open[t], Open[u], Open[v]>> = d
  BY <1>1, <1>3
<1>5. /\ Nest(a, Open[t]) = b /\ Nest(b, Open[u]) = c /\ Nest(c, Open[v]) = d
      /\ Nest(b, Close[t]) = a /\ Nest(c, Close[u]) = b /\ Nest(d, Close[v]) = c
  BY <1>2, NestIs
<1> HIDE DEF b, c, d
<1>9. Fold(d, <<Close[v], Close[u], Open[u], Open[v]>>) = d
  <2>1. Fold(d, <<Close[v], Close[u], Open[u], Open[v]>>)
          = Nest(Nest(Nest(Nest(d, Close[v]), Close[u]), Open[u]), Open[v])
    BY <1>1, <1>2, FoldFour
  <2> QED BY <1>5, <2>1, Zenon
<1> QED BY <1>4, <1>9

\* What a block writes at its beginning, between its items and at its end.
LEMMA AroundIs ==
  /\ \A k \in Kinds : Around(k) \in Line
  /\ \A k \in Kinds : \A a \in Line : a \o Around(k) \in Line /\ Fold(a, Around(k)) = a \o Around(k)
  /\ \A k \in ListKinds : \A a \in Line :
       /\ Around(k) = OpenList(k)
       /\ Fold(a \o Around(k), CloseList(k)) = a
       /\ Fold(a \o Around(k), NextItem(k)) = a \o Around(k)
  /\ Around("quote") = <<"<blockquote>">> /\ Around("paragraph") = <<"<p>">>
  /\ Around("code") = <<"<pre>", "<code>">>
  /\ \A a \in Line : /\ Fold(a \o Around("quote"), <<"</blockquote>">>) = a
                     /\ Fold(a \o Around("paragraph"), <<"</p>">>) = a
                     /\ Fold(a \o Around("code"), <<"</code>", "</pre>">>) = a
  /\ Around("table") = <<>> /\ Around("headline") = <<>> /\ Around("hr") = <<>>
<1>1. /\ Open["ul"] = "<ul>" /\ Open["ol"] = "<ol>" /\ Open["li"] = "<li>" /\ Open["label"] = "<label>"
      /\ Close["ul"] = "</ul>" /\ Close["ol"] = "</ol>" /\ Close["li"] = "</li>" /\ Close["label"] = "</label>"
  BY DEF Open, Close
<1>2. /\ Open["blockquote"] = "<blockquote>" /\ Open["p"] = "<p>" /\ Open["pre"] = "<pre>" /\ Open["code"] = "<code>"
      /\ Close["blockquote"] = "</blockquote>" /\ Close["p"] = "</p>" /\ Close["pre"] = "</pre>"
      /\ Close["code"] = "</code>"
  BY DEF Open, Close
<1>3. {"ul", "ol", "li", "label", "blockquote", "p", "pre", "code"} \subseteq Tags
  BY TagNames
<1>4. /\ Around("quote") = <<"<blockquote>">> /\ Around("paragraph") = <<"<p>">>
      /\ Around("code") = <<"<pre>", "<code>">>
      /\ Around("table") = <<>> /\ Around("headline") = <<>> /\ Around("hr") = <<>>
      /\ Around("checklist") = <<"<ul>", "<li>", "<label>">> /\ Around("ordered") = <<"<ol>", "<li>">>
      /\ Around("unordered") = <<"<ul>", "<li>">>
  BY DEF Around, ListKinds, OpenList
<1>5. /\ CloseList("checklist") = <<"</label>", "</li>", "</ul>">> /\ CloseList("ordered") = <<"</li>", "</ol>">>
      /\ CloseList("unordered") = <<"</li>", "</ul>">>
      /\ NextItem("checklist") = <<"</label>", "</li>", "<li>", "<label>">>
      /\ NextItem("ordered") = <<"</li>", "<li>">> /\ NextItem("unordered") = <<"</li>", "<li>">>
  BY DEF CloseList, NextItem
<1>6. ASSUME NEW a \in Line
      PROVE  /\ Fold(a, Around("quote")) = a \o Around("quote")
             /\ Fold(a, Around("paragraph")) = a \o Around("paragraph")
             /\ Fold(a, Around("code")) = a \o Around("code")
             /\ Fold(a \o Around("quote"), <<"</blockquote>">>) = a
             /\ Fold(a \o Around("paragraph"), <<"</p>">>) = a
             /\ Fold(a \o Around("code"), <<"</code>", "</pre>">>) = a
  <2>1. Fold(a, <<"<blockquote>">>) = a \o <<"<blockquote>">> /\ Fold(a \o <<"<blockquote>">>, <<"</blockquote>">>) = a
    BY <1>2, <1>3, Stacked
  <2>2. Fold(a, <<"<p>">>) = a \o <<"<p>">> /\ Fold(a \o <<"<p>">>, <<"</p>">>) = a
    BY <1>2, <1>3, Stacked
  <2>4. "pre" \in Tags /\ "code" \in Tags
    BY <1>3
  <2>5. /\ Fold(a, <<Open["pre"], Open["code"]>>) = a \o <<Open["pre"], Open["code"]>>
        /\ Fold(a \o <<Open["pre"], Open["code"]>>, <<Close["code"], Close["pre"]>>) = a
    BY <2>4, Stacked
  <2>3. Fold(a, <<"<pre>", "<code>">>) = a \o <<"<pre>", "<code>">> /\ Fold(a \o <<"<pre>", "<code>">>, <<"</code>", "</pre>">>) = a
    BY <1>2, <2>5
  <2> QED BY <1>4, <2>1, <2>2, <2>3
<1>7. ASSUME NEW a \in Line
      PROVE  /\ Fold(a, Around("checklist")) = a \o Around("checklist")
             /\ Fold(a \o Around("checklist"), CloseList("checklist")) = a
             /\ Fold(a \o Around("checklist"), NextItem("checklist")) = a \o Around("checklist")
  <2>2. "ul" \in Tags /\ "li" \in Tags /\ "label" \in Tags
    BY <1>3
  <2>3. /\ Fold(a, <<Open["ul"], Open["li"], Open["label"]>>) = a \o <<Open["ul"], Open["li"], Open["label"]>>
        /\ Fold(a \o <<Open["ul"], Open["li"], Open["label"]>>, <<Close["label"], Close["li"], Close["ul"]>>) = a
        /\ Fold(a \o <<Open["ul"], Open["li"], Open["label"]>>, <<Close["label"], Close["li"], Open["li"], Open["label"]>>)
             = a \o <<Open["ul"], Open["li"], Open["label"]>>
    <3>1. /\ Fold(a, <<Open["ul"], Open["li"], Open["label"]>>) = a \o <<Open["ul"], Open["li"], Open["label"]>>
          /\ Fold(a \o <<Open["ul"], Open["li"], Open["label"]>>, <<Close["label"], Close["li"], Close["ul"]>>) = a
      BY <2>2, StackedThree
    <3>2. Fold(a \o <<Open["ul"], Open["li"], Open["label"]>>, <<Close["label"], Close["li"], Open["li"], Open["label"]>>)
             = a \o <<Open["ul"], Open["li"], Open["label"]>>
      BY <2>2, StackedItem
    <3> QED BY <3>1, <3>2
  <2>1. /\ Fold(a, <<"<ul>", "<li>", "<label>">>) = a \o <<"<ul>", "<li>", "<label>">>
        /\ Fold(a \o <<"<ul>", "<li>", "<label>">>, <<"</label>", "</li>", "</ul>">>) = a
        /\ Fold(a \o <<"<ul>", "<li>", "<label>">>, <<"</label>", "</li>", "<li>", "<label>">>) = a \o <<"<ul>", "<li>", "<label>">>
    BY <1>1, <2>3
  <2> QED BY <1>4, <1>5, <2>1
<1>8. ASSUME NEW a \in Line
      PROVE  /\ Fold(a, Around("ordered")) = a \o Around("ordered")
             /\ Fold(a \o Around("ordered"), CloseList("ordered")) = a
             /\ Fold(a \o Around("ordered"), NextItem("ordered")) = a \o Around("ordered")
  <2>2. "ol" \in Tags /\ "li" \in Tags
    BY <1>3
  <2>3. /\ Fold(a, <<Open["ol"], Open["li"]>>) = a \o <<Open["ol"], Open["li"]>>
        /\ Fold(a \o <<Open["ol"], Open["li"]>>, <<Close["li"], Close["ol"]>>) = a
        /\ Fold(a \o <<Open["ol"], Open["li"]>>, <<Close["li"], Open["li"]>>) = a \o <<Open["ol"], Open["li"]>>
    BY <2>2, Stacked
  <2>1. /\ Fold(a, <<"<ol>", "<li>">>) = a \o <<"<ol>", "<li>">>
        /\ Fold(a \o <<"<ol>", "<li>">>, <<"</li>", "</ol>">>) = a
        /\ Fold(a \o <<"<ol>", "<li>">>, <<"</li>", "<li>">>) = a \o <<"<ol>", "<li>">>
    BY <1>1, <2>3
  <2> QED BY <1>4, <1>5, <2>1
<1>9. ASSUME NEW a \in Line
      PROVE  /\ Fold(a, Around("unordered")) = a \o Around("unordered")
             /\ Fold(a \o Around("unordered"), CloseList("unordered")) = a
             /\ Fold(a \o Around("unordered"), NextItem("unordered")) = a \o Around("unordered")
  <2>2. "ul" \in Tags /\ "li" \in Tags
    BY <1>3
  <2>3. /\ Fold(a, <<Open["ul"], Open["li"]>>) = a \o <<Open["ul"], Open["li"]>>
        /\ Fold(a \o <<Open["ul"], Open["li"]>>, <<Close["li"], Close["ul"]>>) = a
        /\ Fold(a \o <<Open["ul"], Open["li"]>>, <<Close["li"], Open["li"]>>) = a \o <<Open["ul"], Open["li"]>>
    BY <2>2, Stacked
  <2>1. /\ Fold(a, <<"<ul>", "<li>">>) = a \o <<"<ul>", "<li>">>
        /\ Fold(a \o <<"<ul>", "<li>">>, <<"</li>", "</ul>">>) = a
        /\ Fold(a \o <<"<ul>", "<li>">>, <<"</li>", "<li>">>) = a \o <<"<ul>", "<li>">>
    BY <1>1, <2>3
  <2> QED BY <1>4, <1>5, <2>1
<1>10. \A k \in ListKinds : \A a \in Line :
         /\ Around(k) = OpenList(k) /\ Fold(a, Around(k)) = a \o Around(k)
         /\ Fold(a \o Around(k), CloseList(k)) = a
         /\ Fold(a \o Around(k), NextItem(k)) = a \o Around(k)
  <2>1. \A k \in ListKinds : Around(k) = OpenList(k)
    BY <1>4 DEF ListKinds, OpenList
  <2> QED BY <1>7, <1>8, <1>9, <2>1 DEF ListKinds
<1>11. \A k \in Kinds : Around(k) \in Line
  <2>1. {"<blockquote>", "<p>", "<pre>", "<code>", "<ul>", "<li>", "<ol>", "<label>"} \subseteq Symbols
    BY Literals, Zenon
  <2>2. /\ <<"<blockquote>">> \in Line /\ <<"<p>">> \in Line /\ <<"<pre>", "<code>">> \in Line
        /\ <<"<ul>", "<li>", "<label>">> \in Line /\ <<"<ol>", "<li>">> \in Line /\ <<"<ul>", "<li>">> \in Line
    BY <2>1, Tuples
  <2> QED BY <1>4, <2>2, EmptyLine, KindNames
<1>12. \A k \in Kinds : \A a \in Line : a \o Around(k) \in Line /\ Fold(a, Around(k)) = a \o Around(k)
  <2> SUFFICES ASSUME NEW k \in Kinds, NEW a \in Line
               PROVE  a \o Around(k) \in Line /\ Fold(a, Around(k)) = a \o Around(k)
    OBVIOUS
  <2>1. a \o Around(k) \in Line
    BY <1>11, Joined
  <2>2. CASE k \in ListKinds
    BY <1>10, <2>1, <2>2
  <2>3. CASE k \in {"quote", "paragraph", "code"}
    BY <1>6, <2>1, <2>3
  <2>4. CASE k \in {"table", "headline", "hr"}
    BY <1>4, <2>1, <2>4, FoldNothing, JoinNothing
  <2> QED BY <2>2, <2>3, <2>4, KindNames DEF ListKinds
<1> QED BY <1>4, <1>6, <1>10, <1>11, <1>12

\* What opens a stack of tags, or closes it, and a line that does nothing behind it.
LEMMA FoldBehind ==
  ASSUME NEW a \in Line, NEW s \in Line, NEW t, Plain(t)
  PROVE  s \o t \in Line /\ Fold(a, s \o t) = Fold(a, s)
<1>1. t \in Line /\ Level(t)
  BY PlainLevel
<1>2. s \o t \in Line
  BY <1>1, Joined
<1>3. Fold(a, s \o t) = Fold(Fold(a, s), t)
  BY <1>1, FoldJoin
<1>4. Fold(a, s) \in Line
  BY FoldTyped
<1> QED BY <1>1, <1>2, <1>3, <1>4 DEF Level

\* How a list's line may begin when the list is not the innermost block.
Passed(k, s) == \/ Plain(s)
                \/ \E e \in {NextItem(k), CloseList(k)} : \E t \in Line : s = e \o t

\* The tags a list writes for a plain line leave its own open, or close them.
LEMMA ListTagged ==
  ASSUME NEW p \in Parser, NEW line, Plain(line), p.kind \in ListKinds, Ready(p, line), NEW s \in Line
  PROVE  LET b == parseList(p, line)
             o == s \o Around(p.kind)
         IN  /\ b.line \in Line
             /\ Fold(IF p.started THEN o ELSE s, b.line) = IF b.p.finished THEN s ELSE o
             /\ p.started => Passed(p.kind, b.line)
             /\ ~p.started => b.line # <<>> /\ b.line[1] \in ListMarks
<1> DEFINE b == parseList(p, line)
           k == p.kind
           o == s \o Around(k)
           text == Unmarked(k, line)
<1>1. line \in Line /\ ~p.finished /\ k \in Kinds /\ p.finished \in BOOLEAN
  BY DEF Plain, Ready, Parser
<1>2. Plain(text) /\ text \in Line
  BY PlainUnmarked DEF Plain
<1>3. /\ OpenList(k) \in Line /\ OpenList(k) # <<>> /\ OpenList(k)[1] \in ListMarks
      /\ NextItem(k) \in Line /\ CloseList(k) \in Line
  BY ListTags DEF ListMarks
<1>4. /\ o \in Line /\ Fold(s, OpenList(k)) = o
      /\ Fold(o, CloseList(k)) = s /\ Fold(o, NextItem(k)) = o
  BY <1>1, AroundIs
<1>5. Opens(p, line, b) \/ Shifts(p, line, b) \/ Closes(p, line, b) \/ Goes(p, line, b)
  BY <1>1, ListStep
<1> SUFFICES /\ b.line \in Line
             /\ Fold(IF p.started THEN o ELSE s, b.line) = IF b.p.finished THEN s ELSE o
             /\ p.started => Passed(k, b.line)
             /\ ~p.started => b.line # <<>> /\ b.line[1] \in ListMarks
  OBVIOUS
<1> HIDE DEF b, o
<1>6. CASE Opens(p, line, b)
  <2>1. b.line = OpenList(k) \o text /\ ~p.started /\ ~b.p.finished
    BY <1>1, <1>6 DEF Opens, Flagged
  <2>2. b.line \in Line /\ b.line # <<>> /\ b.line[1] = OpenList(k)[1]
    BY <1>2, <1>3, <2>1, Joined
  <2>3. Fold(s, b.line) = o
    BY <1>2, <1>3, <1>4, <2>1, FoldBehind
  <2> QED BY <1>3, <2>1, <2>2, <2>3
<1>7. CASE Shifts(p, line, b)
  <2>1. p.started /\ ~b.p.finished /\ b.line = SubSeq(text, 3, Len(text))
    BY <1>1, <1>7 DEF Shifts
  <2>2. Plain(b.line)
    <3>1. 2 \in Nat /\ 2 + 1 = 3
      OBVIOUS
    <3> QED BY <1>2, <2>1, <3>1, PlainParts
  <2>3. b.line \in Line /\ Fold(o, b.line) = o
    BY <1>4, <2>2, PlainLevel DEF Level
  <2> QED BY <2>1, <2>2, <2>3 DEF Passed
<1>8. CASE Closes(p, line, b)
  <2>1. b.line = CloseList(k) \o text /\ p.started /\ b.p.finished
    BY <1>8 DEF Closes, Flagged
  <2>2. b.line \in Line /\ Fold(o, b.line) = s
    BY <1>2, <1>3, <1>4, <2>1, FoldBehind
  <2>3. Passed(k, b.line)
    BY <1>2, <2>1 DEF Passed
  <2> QED BY <2>1, <2>2, <2>3
<1>9. CASE Goes(p, line, b)
  <2>1. p.started /\ ~b.p.finished /\ (b.line = NextItem(k) \o text \/ b.line = text)
    BY <1>1, <1>9 DEF Goes
  <2>2. CASE b.line = NextItem(k) \o text
    <3>1. b.line \in Line /\ Fold(o, b.line) = o
      BY <1>2, <1>3, <1>4, <2>2, FoldBehind
    <3>2. Passed(k, b.line)
      BY <1>2, <2>2 DEF Passed
    <3> QED BY <2>1, <3>1, <3>2
  <2>3. CASE b.line = text
    <3>1. b.line \in Line /\ Fold(o, b.line) = o
      BY <1>2, <1>4, <2>3, PlainLevel DEF Level
    <3>2. Passed(k, b.line)
      BY <1>2, <2>3 DEF Passed
    <3> QED BY <2>1, <3>1, <3>2
  <2> QED BY <2>1, <2>2, <2>3
<1> QED BY <1>5, <1>6, <1>7, <1>8, <1>9

\* The tags the other blocks write for a plain line do so too.
LEMMA OtherTagged ==
  ASSUME NEW p \in Parser, NEW line, Plain(line), p.kind \notin ListKinds, p.kind # "table",
         Ready(p, line), NEW s \in Line
  PROVE  LET b == parseBlock(p, line)
             o == s \o Around(p.kind)
         IN  /\ b.line \in Line
             /\ Fold(IF p.started \/ p.kind = "quote" THEN o ELSE s, b.line) = IF b.p.finished THEN s ELSE o
             /\ p.kind = "quote" => Plain(b.line)
<1> DEFINE b == parseBlock(p, line)
           k == p.kind
           o == s \o Around(k)
<1>1. line \in Line /\ ~p.finished /\ k \in Kinds
  BY DEF Plain, Ready, Parser
<1>2. k \in {"code", "headline", "hr", "quote", "paragraph"}
  BY ParsedAs
<1>3. /\ "\n" \in Symbols /\ " " \in Symbols /\ "<p>" \in Symbols /\ "</p>" \in Symbols
      /\ "<pre>" \in Symbols /\ "<code>" \in Symbols /\ "</code>" \in Symbols /\ "</pre>" \in Symbols
      /\ "<hr/>" \in Symbols
  BY Literals, Zenon
<1>4. " " \notin TagTokens /\ "\n" \notin TagTokens /\ "<hr/>" \notin TagTokens
  BY NoTags, Zenon
<1>5. Plain(Append(line, " ")) /\ Plain(Append(line, "\n")) /\ Plain(<<"\n">>) /\ Plain(<<" ">>)
  BY <1>3, <1>4, PlainParts
<1>6. o \in Line /\ Fold(s, Around(k)) = o
  BY <1>1, AroundIs
<1>7. ASSUME NEW t, Plain(t) PROVE t \in Line /\ Fold(o, t) = o /\ Fold(s, t) = s
  BY <1>6, <1>7, PlainLevel DEF Level
<1> SUFFICES /\ b.line \in Line
             /\ Fold(IF p.started \/ k = "quote" THEN o ELSE s, b.line) = IF b.p.finished THEN s ELSE o
             /\ k = "quote" => Plain(b.line)
  OBVIOUS
<1>8. CASE k = "code"
  <2>1. b = parseCode(p, line)
    BY <1>8, ParsedAs
  <2>2. CodeOpens(p, line, b) \/ CodeGoes(p, line, b) \/ CodeCloses(p, line, b)
    BY <1>1, <1>8, <2>1, CodeParsed
  <2>3. Around(k) = <<"<pre>", "<code>">> /\ Fold(o, <<"</code>", "</pre>">>) = s
    BY <1>8, AroundIs
  <2> HIDE DEF b, o
  <2>4. CASE CodeOpens(p, line, b)
    <3>1. ~p.started /\ ~b.p.finished /\ b.line = <<"<pre>", "<code>", "\n">>
      BY <2>4 DEF CodeOpens
    <3>2. <<"<pre>", "<code>", "\n">> = <<"<pre>", "<code>">> \o <<"\n">>
      OBVIOUS
    <3>3. <<"<pre>", "<code>">> \in Line
      BY <1>3, Tuples
    <3>4. b.line \in Line /\ Fold(s, b.line) = Fold(s, <<"<pre>", "<code>">>)
      <4> DEFINE u == <<"<pre>", "<code>">>
                 e == <<"\n">>
      <4>1. b.line = u \o e /\ u \in Line /\ Plain(e)
        BY <1>5, <3>1, <3>2, <3>3
      <4> HIDE DEF u, e
      <4>2. b.line \in Line /\ Fold(s, b.line) = Fold(s, u)
        BY <4>1, FoldBehind
      <4> QED BY <4>2 DEF u
    <3> QED BY <1>6, <1>8, <2>3, <3>1, <3>4
  <2>5. CASE CodeGoes(p, line, b)
    BY <1>1, <1>5, <1>7, <1>8, <2>5 DEF CodeGoes
  <2>6. CASE CodeCloses(p, line, b)
    <3>1. p.started /\ b.p.finished /\ b.line = <<"</code>", "</pre>">>
      BY <2>6 DEF CodeCloses
    <3>2. <<"</code>", "</pre>">> \in Line
      BY <1>3, Tuples
    <3> QED BY <1>8, <2>3, <3>1, <3>2
  <2> QED BY <2>2, <2>4, <2>5, <2>6
<1>9. CASE k = "paragraph"
  <2>1. b = parseParagraph(p, line)
    BY <1>9, ParsedAs
  <2>2. ParagraphOpens(p, line, b) \/ ParagraphGoes(p, line, b) \/ ParagraphCloses(p, line, b)
    BY <1>1, <1>9, <2>1, ParagraphParsed
  <2>3. Around(k) = <<"<p>">> /\ Fold(o, <<"</p>">>) = s
    BY <1>9, AroundIs
  <2> HIDE DEF b, o
  <2>4. CASE ParagraphOpens(p, line, b)
    <3>1. ~p.started /\ ~b.p.finished /\ b.line = <<"<p>">> \o line \o <<" ">>
      BY <2>4 DEF ParagraphOpens
    <3>2. <<"<p>">> \in Line
      BY <1>3, Tuples
    <3>3. <<"<p>">> \o line \in Line /\ Fold(s, <<"<p>">> \o line) = Fold(s, <<"<p>">>)
      BY <3>2, FoldBehind
    <3>4. b.line \in Line /\ Fold(s, b.line) = Fold(s, <<"<p>">> \o line)
      <4> DEFINE u == <<"<p>">> \o line
                 e == <<" ">>
      <4>1. b.line = u \o e /\ u \in Line /\ Plain(e)
        BY <1>5, <3>1, <3>3
      <4> HIDE DEF u, e
      <4>2. b.line \in Line /\ Fold(s, b.line) = Fold(s, u)
        BY <4>1, FoldBehind
      <4> QED BY <4>2 DEF u
    <3> QED BY <1>6, <1>9, <2>3, <3>1, <3>3, <3>4
  <2>5. CASE ParagraphGoes(p, line, b)
    BY <1>1, <1>5, <1>7, <1>9, <2>5 DEF ParagraphGoes
  <2>6. CASE ParagraphCloses(p, line, b)
    <3>1. p.started /\ b.p.finished /\ b.line = <<"</p>">>
      BY <2>6 DEF ParagraphCloses
    <3>2. <<"</p>">> \in Line
      BY <1>3, Tuples
    <3> QED BY <1>9, <2>3, <3>1, <3>2
  <2> QED BY <2>2, <2>4, <2>5, <2>6
<1>10. CASE k = "quote"
  <2>1. b = parseQuote(p, line)
    BY <1>10, ParsedAs
  <2>2. /\ ~b.p.finished
        /\ b.line = IF QuoteText(line) = <<>> THEN <<>> ELSE Append(QuoteText(line), " ")
    <3> DEFINE a == parseQuote(p, line)
    <3>1. /\ ~a.p.finished
          /\ a.line = IF QuoteText(line) = <<>> THEN <<>> ELSE Append(QuoteText(line), " ")
      BY <1>1, <1>10, QuoteParsed, Zenon
    <3>2. b = a
      BY <2>1
    <3> HIDE DEF a, b
    <3> QED BY <3>1, <3>2
  <2> HIDE DEF b, o
  <2>3. Plain(QuoteText(line))
    BY PlainUnmarked
  <2>4. Plain(b.line)
    BY <1>3, <1>4, <2>2, <2>3, PlainParts
  <2> QED BY <1>7, <1>10, <2>2, <2>4
<1>11. CASE k = "hr"
  <2>1. b = parseHorizontalLine(p, line)
    BY <1>11, ParsedAs
  <2>2. b.line = <<"<hr/>">> /\ b.p.finished
    BY <1>1, <1>11, <2>1, RuleParsed
  <2>3. ~p.started /\ Plain(<<"<hr/>">>)
    BY <1>3, <1>4, <1>11, PlainParts DEF Ready
  <2> HIDE DEF b, o
  <2> QED BY <1>7, <1>11, <2>2, <2>3
<1>12. CASE k = "headline"
  <2>1. b = parseHeadline(p, line)
    BY <1>12, ParsedAs
  <2>2. /\ b.p.finished
        /\ \E n \in 1..6 : /\ IsPrefix(Hashes(n), line) /\ Strip(Hashes(n), line) \in Line
                           /\ Headings[n] \in Tags
                           /\ b.line = Element(Headings[n], Strip(Hashes(n), line))
    BY <1>1, <1>12, <2>1, HeadlineParsed
  <2> HIDE DEF b, o
  <2>3. PICK n \in 1..6 : /\ Strip(Hashes(n), line) \in Line /\ Headings[n] \in Tags
                          /\ b.line = Element(Headings[n], Strip(Hashes(n), line))
    BY <2>2
  <2>4. Hashes(n) \in Seq({"#", " "})
    <3>1. \A i \in 1..n + 1 : (IF i <= n THEN "#" ELSE " ") \in {"#", " "}
      OBVIOUS
    <3>2. [i \in 1..n + 1 |-> IF i <= n THEN "#" ELSE " "] \in [1..n + 1 -> {"#", " "}]
      BY <3>1, Zenon
    <3>3. n + 1 \in Nat
      OBVIOUS
    <3> QED BY <3>2, <3>3, TableOf DEF Hashes
  <2>5. Plain(Strip(Hashes(n), line))
    BY <2>4, PlainStripped
  <2>6. Level(Strip(Hashes(n), line))
    BY <2>5, PlainLevel
  <2>7. b.line \in Line /\ Level(b.line)
    BY <2>3, <2>6, LevelElement, ElementTyped
  <2>8. Fold(s, b.line) = s
    BY <2>7 DEF Level
  <2>9. ~p.started
    BY <1>12 DEF Ready
  <2> QED BY <1>12, <2>2, <2>7, <2>8, <2>9
<1> QED BY <1>2, <1>8, <1>9, <1>10, <1>11, <1>12

-----------------------------------------------------------------------------
(* The tags of a line on its way down. *)

\* How many parsers have opened their blocks before the line.
Old(chain) == IF chain[1].started THEN Len(chain) ELSE 0

\* The tags that are open when the parsers have written what they hold, and
\* those that shall be when the line is written too.
Has(i, m, p) == IF i <= m \/ p.kind = "quote" THEN Around(p.kind) ELSE <<>>
Before(c, m) == [i \in 1..Len(c) |-> Has(i, m, c[i])]
Leaves(p) == IF p.finished THEN <<>> ELSE Around(p.kind)
After(c)  == [i \in 1..Len(c) |-> Leaves(c[i])]

\* They are lines.
LEMMA StacksTyped ==
  ASSUME NEW c \in Seq(Parser), NEW m
  PROVE  /\ Before(c, m) \in Seq(Line) /\ Len(Before(c, m)) = Len(c) /\ FlattenSeq(Before(c, m)) \in Line
         /\ After(c) \in Seq(Line) /\ Len(After(c)) = Len(c) /\ FlattenSeq(After(c)) \in Line
         /\ Len(c) \in Nat
<1>1. Len(c) \in Nat /\ \A i \in 1..Len(c) : c[i] \in Parser
  OBVIOUS
<1>2. \A p \in Parser : Around(p.kind) \in Line
  BY AroundIs DEF Parser
<1>3. Before(c, m) \in [1..Len(c) -> Line] /\ After(c) \in [1..Len(c) -> Line]
  BY <1>1, <1>2, EmptyLine DEF Before, After, Has, Leaves
<1>4. /\ Before(c, m) \in Seq(Line) /\ Len(Before(c, m)) = Len(c)
      /\ After(c) \in Seq(Line) /\ Len(After(c)) = Len(c)
  BY <1>1, <1>3, TableOf
<1> QED BY <1>1, <1>4, FlattenType DEF Line

\* One parser more.
LEMMA StacksGrow ==
  ASSUME NEW c \in Seq(Parser), NEW p \in Parser, NEW d, Longer(d, c, p), NEW m
  PROVE  /\ FlattenSeq(Before(d, m)) = FlattenSeq(Before(c, m)) \o Has(Len(c) + 1, m, p)
         /\ FlattenSeq(After(d)) = FlattenSeq(After(c)) \o Leaves(p)
<1> DEFINE n == Len(c)
<1>1. /\ d \in Seq(Parser) /\ Len(d) = n + 1 /\ d[n + 1] = p /\ n \in Nat
      /\ \A i \in 1..n : d[i] = c[i]
  BY DEF Longer
<1>2. /\ Before(c, m) \in Seq(Seq(Symbols)) /\ Len(Before(c, m)) = n
      /\ After(c) \in Seq(Seq(Symbols)) /\ Len(After(c)) = n
  BY StacksTyped DEF Line
<1>3. /\ Before(d, m) \in Seq(Seq(Symbols)) /\ Len(Before(d, m)) = n + 1
      /\ After(d) \in Seq(Seq(Symbols)) /\ Len(After(d)) = n + 1
  BY <1>1, StacksTyped DEF Line
<1> HIDE DEF n
<1>4. ASSUME NEW i \in 1..n PROVE Before(c, m)[i] = Before(d, m)[i] /\ After(c)[i] = After(d)[i]
  <2>1. i \in 1..Len(c) /\ i \in 1..Len(d) /\ d[i] = c[i]
    BY <1>1 DEF n
  <2> QED BY <2>1 DEF Before, After
<1>5. /\ Before(d, m)[n + 1] = Has(n + 1, m, p) /\ After(d)[n + 1] = Leaves(p)
  <2>1. n + 1 \in 1..Len(d) /\ d[n + 1] = p
    BY <1>1
  <2> QED BY <2>1 DEF Before, After
<1>6. FlattenSeq(Before(d, m)) = FlattenSeq(Before(c, m)) \o Before(d, m)[n + 1]
  <2> DEFINE f == Before(d, m)
             g == Before(c, m)
  <2>1. f \in Seq(Seq(Symbols)) /\ g \in Seq(Seq(Symbols)) /\ Len(f) = Len(g) + 1 /\ Len(f) = n + 1
        /\ \A i \in 1..Len(g) : g[i] = f[i]
    BY <1>1, <1>2, <1>3, <1>4
  <2> HIDE DEF f, g
  <2>2. FlattenSeq(f) = FlattenSeq(g) \o f[Len(f)]
    BY <2>1, FlattenLast
  <2> QED BY <2>1, <2>2 DEF f, g
<1>7. FlattenSeq(After(d)) = FlattenSeq(After(c)) \o After(d)[n + 1]
  <2> DEFINE f == After(d)
             g == After(c)
  <2>1. f \in Seq(Seq(Symbols)) /\ g \in Seq(Seq(Symbols)) /\ Len(f) = Len(g) + 1 /\ Len(f) = n + 1
        /\ \A i \in 1..Len(g) : g[i] = f[i]
    BY <1>1, <1>2, <1>3, <1>4
  <2> HIDE DEF f, g
  <2>2. FlattenSeq(f) = FlattenSeq(g) \o f[Len(f)]
    BY <2>1, FlattenLast
  <2> QED BY <2>1, <2>2 DEF f, g
<1> QED BY <1>5, <1>6, <1>7 DEF n

\* What the line is and has opened, when it has got as far as w.
Tagged(chain, w) ==
  /\ Fold(FlattenSeq(Before(w.chain, Old(chain))), w.line) = FlattenSeq(After(w.chain))
  /\ \A i \in 1..Len(w.chain) :
       w.chain[i].result = IF i <= Old(chain) THEN chain[i].result
                           ELSE IF w.chain[i].kind = "quote" THEN <<"<blockquote>">> ELSE <<>>
  /\ w.chain # <<>> /\ Last(w.chain).kind = "quote" => Plain(w.line)
  /\ w.chain # <<>> /\ Last(w.chain).kind \in ListKinds =>
       \/ Passed(Last(w.chain).kind, w.line)
       \/ Len(w.chain) >= Len(chain) /\ w.line # <<>> /\ w.line[1] \in ListMarks

\* A parser is started when its block was open before the line.
LEMMA StartedOld ==
  ASSUME NEW chain, NEW line, Standing(chain, line), NEW w, Going(chain, line, w), NEW p, Receives(chain, w, p)
  PROVE  LET n == Len(w.chain)
         IN  /\ n \in Nat /\ Len(chain) \in Nat /\ (p.started <=> n + 1 <= Old(chain))
             /\ p.started => p = chain[n + 1]
             /\ ~p.started => p.result = <<>> /\ n + 1 >= Len(chain)
<1> DEFINE n == Len(w.chain)
<1>1. n \in Nat /\ chain \in Seq(Parser) /\ Len(chain) \in Nat /\ Len(chain) # 0
  <2>1. w \in Ways
    BY Zenon DEF Going
  <2> QED BY <2>1 DEF Ways, Standing
<1>2. p \in Parser /\ Ready(p, w.line)
  BY DEF Receives
<1>3. ~p.started => p = NewParser(p.kind) /\ p.result = <<>>
  <2> SUFFICES ASSUME ~p.started PROVE p = NewParser(p.kind) /\ p.result = <<>>
    OBVIOUS
  <2>1. p = NewParser(p.kind) /\ p.kind \in Kinds
    BY <1>2 DEF Ready, Parser
  <2> QED BY <2>1, Made
<1>4. CASE n < Len(chain)
  <2>1. p = chain[n + 1] /\ n + 1 \in 1..Len(chain) /\ 1 \in 1..Len(chain)
    BY <1>1, <1>4 DEF Receives
  <2>2. CASE Formed(chain)
    <3>1. p.started /\ chain[1].started
      BY <2>1, <2>2 DEF Formed
    <3> QED BY <1>1, <1>4, <2>1, <3>1 DEF Old
  <2>3. CASE \E k \in Kinds : chain = <<NewParser(k)>> /\ IsStartingLine(k, line)
    <3>1. PICK k \in Kinds : chain = <<NewParser(k)>>
      BY <2>3
    <3>2. Len(chain) = 1 /\ chain[1] = NewParser(k) /\ n = 0 /\ ~NewParser(k).started
      <4> DEFINE q == NewParser(k)
      <4>1. chain = <<q>> /\ ~q.started
        BY <3>1, Made
      <4> HIDE DEF q
      <4>2. Len(chain) = 1 /\ chain[1] = q /\ n = 0
        BY <1>1, <1>4, <4>1
      <4> QED BY <4>1, <4>2 DEF q
    <3>3. ~p.started /\ Old(chain) = 0
      BY <2>1, <3>2 DEF Old
    <3> QED BY <1>1, <1>3, <3>2, <3>3
  <2> QED BY <2>2, <2>3 DEF Standing
<1>5. CASE ~(n < Len(chain))
  <2>1. p = NewParser(p.kind) /\ p.kind \in Kinds
    BY <1>1, <1>2, <1>5 DEF Receives, Parser
  <2>2. ~p.started
    BY <2>1, Made
  <2>3. ~(n + 1 <= Old(chain))
    BY <1>1, <1>5 DEF Old
  <2> QED BY <1>1, <1>3, <1>5, <2>2, <2>3
<1> QED BY <1>4, <1>5

\* A line with its parent's tags in front ends the list it is handed to.
LEMMA PassedOn ==
  ASSUME NEW p \in Parser, NEW k \in ListKinds, p.kind \in ChildKinds(k), NEW line \in Line, Ready(p, line),
         NEW e \in {NextItem(k), CloseList(k)}, NEW t \in Line, line = e \o t
  PROVE  LET b == parseList(p, line)
         IN  /\ p.kind \in ListKinds /\ p.started /\ b.p.finished
             /\ b.line = CloseList(p.kind) \o line
<1>1. /\ p.kind \in ListKinds /\ line # <<>> /\ line[1] \in EndMarks
  <2>1. e \in Line /\ e # <<>> /\ e[1] \in EndMarks
    BY ListTags DEF EndMarks
  <2>2. p.kind \in ListKinds
    BY Children DEF ListKinds
  <2> QED BY <2>1, <2>2, Joined
<1>2. p.started
  <2>1. line[1] \notin MarkStarts
    BY <1>1, TagsAreNoMarks
  <2>2. ~IsStartingLine(p.kind, line)
    BY <1>1, <2>1, NoList
  <2> QED BY <2>2 DEF Ready
<1>3. Closes(p, line, parseList(p, line)) /\ Unmarked(p.kind, line) = line
  BY <1>2, EndsWithParent
<1> DEFINE b == parseList(p, line)
<1> HIDE DEF b
<1>4. Closes(p, line, b)
  BY <1>3 DEF b
<1>5. b.p.finished /\ b.line = CloseList(p.kind) \o line
  BY <1>3, <1>4 DEF Closes, Flagged
<1> QED BY <1>1, <1>2, <1>5 DEF b

\* What the next parser is given, and which it may be.
LEMMA GivenTagged ==
  ASSUME NEW chain, NEW line, Standing(chain, line), Plain(line), NEW w, Going(chain, line, w),
         Tagged(chain, w), NEW p, Receives(chain, w, p)
  PROVE  \/ Plain(w.line)
         \/ \E k \in ListKinds : /\ p.kind \in ChildKinds(k)
                                 /\ \E e \in {NextItem(k), CloseList(k)} : \E t \in Line : w.line = e \o t
<1>1. /\ w.chain \in Seq(Parser) /\ w.line \in Line /\ chain \in Seq(Parser) /\ Len(chain) \in Nat
      /\ Len(w.chain) \in Nat
  <2>1. w \in Ways
    BY Zenon DEF Going
  <2> QED BY <2>1 DEF Ways, Standing
<1>2. CASE w.chain = <<>>
  BY <1>2 DEF Going
<1>3. CASE w.chain # <<>>
  <2> DEFINE k == Last(w.chain).kind
  <2>1. p.kind \in Below(k) /\ k \in Kinds
    <3>1. Last(w.chain) \in Parser
      BY <1>1, <1>3, LastIn
    <3> QED BY <1>3, <3>1 DEF Receives, Parser
  <2>2. p.kind \in ChildKinds(k)
    BY <2>1 DEF Below
  <2>3. k = "quote" \/ k \in ListKinds
    BY <2>1, <2>2, Children, KindNames DEF ListKinds
  <2>4. CASE k = "quote"
    BY <1>3, <2>4 DEF Tagged
  <2>5. CASE k \in ListKinds /\ Passed(k, w.line)
    BY <2>2, <2>5 DEF Passed
  <2>6. CASE k \in ListKinds /\ Len(w.chain) >= Len(chain) /\ w.line # <<>> /\ w.line[1] \in ListMarks
    <3>1. p.kind \in ListKinds
      BY <2>2, <2>6, Children DEF ListKinds
    <3>2. ~IsStartingLine(p.kind, w.line)
      <4>1. w.line[1] \notin MarkStarts
        BY <2>6, TagsAreNoMarks
      <4> QED BY <1>1, <3>1, <4>1, NoList
    <3>3. ~p.started
      <4>1. p = NewParser(p.kind)
        BY <2>6 DEF Receives
      <4>2. p.kind \in Kinds
        BY DEF Receives, Parser
      <4> QED BY <4>1, <4>2, Made
    <3>4. FALSE
      BY <3>2, <3>3 DEF Receives, Ready
    <3> QED BY <3>4
  <2> QED BY <1>3, <2>3, <2>4, <2>5, <2>6 DEF Tagged
<1> QED BY <1>2, <1>3

\* What a parser makes of its line, and of the stack of tags before it.
StepTagged(p, line, b, s, last) ==
  LET o == s \o Around(p.kind)
      r == Fold(s, line)
  IN  /\ Fold(IF p.started \/ p.kind = "quote" THEN o ELSE s, b.line)
           = IF b.p.finished THEN r ELSE r \o Around(p.kind)
      /\ p.kind = "quote" => Plain(b.line)
      /\ p.kind \in ListKinds => \/ Passed(p.kind, b.line)
                                 \/ last /\ b.line # <<>> /\ b.line[1] \in ListMarks

\* Each parser that is no table does so with the line it is given.
LEMMA BlockTagged ==
  ASSUME NEW p \in Parser, NEW line \in Line, Ready(p, line), p.kind # "table", NEW s \in Line,
         NEW last \in BOOLEAN, ~p.started => last,
         \/ Plain(line)
         \/ \E k \in ListKinds : /\ p.kind \in ChildKinds(k)
                                 /\ \E e \in {NextItem(k), CloseList(k)} : \E t \in Line : line = e \o t
  PROVE  StepTagged(p, line, parseBlock(p, line), s, last)
<1> DEFINE b == parseBlock(p, line)
           o == s \o Around(p.kind)
<1>0. p.kind \in Kinds /\ p.started \in BOOLEAN
  BY DEF Parser
<1>1. CASE Plain(line) /\ p.kind \in ListKinds
  <2>1. b = parseList(p, line) /\ p.kind # "quote"
    BY <1>1, ParsedAs DEF ListKinds
  <2>2. Fold(s, line) = s
    BY <1>1, PlainLevel DEF Level
  <2> DEFINE a == parseList(p, line)
  <2>3. /\ Fold(IF p.started THEN o ELSE s, a.line) = IF a.p.finished THEN s ELSE o
        /\ p.started => Passed(p.kind, a.line)
        /\ ~p.started => a.line # <<>> /\ a.line[1] \in ListMarks
    BY <1>1, ListTagged, Zenon
  <2>4. b = a
    BY <2>1
  <2> HIDE DEF a, b
  <2> QED BY <1>0, <1>1, <2>1, <2>2, <2>3, <2>4 DEF StepTagged, b
<1>2. CASE Plain(line) /\ p.kind \notin ListKinds
  <2>2. Fold(s, line) = s
    BY <1>2, PlainLevel DEF Level
  <2>3. /\ Fold(IF p.started \/ p.kind = "quote" THEN o ELSE s, b.line) = IF b.p.finished THEN s ELSE o
        /\ p.kind = "quote" => Plain(b.line)
    BY <1>2, OtherTagged, Zenon
  <2> HIDE DEF b
  <2> QED BY <1>2, <2>2, <2>3 DEF StepTagged, b
<1>3. CASE ~Plain(line)
  <2>1. PICK k \in ListKinds : /\ p.kind \in ChildKinds(k)
                               /\ \E e \in {NextItem(k), CloseList(k)} : \E t \in Line : line = e \o t
    BY <1>3
  <2>2. PICK e \in {NextItem(k), CloseList(k)} : \E t \in Line : line = e \o t
    BY <2>1
  <2>3. PICK t \in Line : line = e \o t
    BY <2>2
  <2> DEFINE a == parseList(p, line)
  <2>4. /\ p.kind \in ListKinds /\ p.started /\ a.p.finished
        /\ a.line = CloseList(p.kind) \o line
    BY <2>1, <2>3, PassedOn, Zenon
  <2>5. b = a /\ p.kind # "quote"
    BY <2>4, ParsedAs DEF ListKinds
  <2> HIDE DEF a, b
  <2>6. CloseList(p.kind) \in Line
    BY <2>4, ListTags
  <2>7. o \in Line /\ Fold(o, CloseList(p.kind)) = s
    BY <1>0, <2>4, AroundIs
  <2>8. Fold(o, a.line) = Fold(s, line)
    <3>1. Fold(o, CloseList(p.kind) \o line) = Fold(Fold(o, CloseList(p.kind)), line)
      BY <2>6, <2>7, FoldJoin
    <3> QED BY <2>4, <2>7, <3>1
  <2>9. Passed(p.kind, a.line)
    BY <2>4 DEF Passed
  <2> QED BY <2>4, <2>5, <2>8, <2>9 DEF StepTagged, b
<1> QED BY <1>1, <1>2, <1>3

\* Each parser keeps the tags in step with the blocks that are open.
LEMMA TaggedOn ==
  ASSUME NEW chain, NEW line, Standing(chain, line), Tableless(chain), Plain(line),
         NEW w, Going(chain, line, w), Tagged(chain, w),
         NEW p, Receives(chain, w, p), NEW v, Handed(w, p, v)
  PROVE  Tagged(chain, v)
<1> DEFINE b == parseBlock(p, w.line)
           n == Len(w.chain)
           m == Old(chain)
           last == n + 1 >= Len(chain)
           s == FlattenSeq(Before(w.chain, m))
           r == FlattenSeq(After(w.chain))
<1>1. /\ n \in Nat /\ p \in Parser /\ Ready(p, w.line) /\ w.line \in Line /\ ~p.finished
      /\ p.kind # "table"
  BY ReceivesWords
<1>2. /\ (p.started <=> n + 1 <= m) /\ (p.started => p = chain[n + 1])
      /\ ~p.started => p.result = <<>> /\ last
  BY StartedOld
<1>3. w.chain \in Seq(Parser) /\ w \in Ways
  <2>1. w \in Ways
    BY Zenon DEF Going
  <2> QED BY <2>1 DEF Ways
<1>4. /\ Kept(b, p) /\ v.line = b.line /\ Last(v.chain) = b.p /\ v.chain \in Seq(Parser)
      /\ Len(v.chain) = n + 1 /\ v.chain[n + 1] = b.p /\ \A i \in 1..n : v.chain[i] = w.chain[i]
  <2>1. /\ Kept(b, p) /\ v.line = b.line /\ Last(v.chain) = b.p /\ v \in Ways
        /\ Len(v.chain) = n + 1 /\ v.chain[n + 1] = b.p /\ \A i \in 1..n : v.chain[i] = w.chain[i]
    BY Zenon DEF Handed
  <2> QED BY <2>1 DEF Ways
<1>5. s \in Line /\ r = Fold(s, w.line)
  <2>1. s \in Line
    BY <1>3, StacksTyped
  <2>2. r = Fold(s, w.line)
    BY DEF Tagged
  <2> QED BY <2>1, <2>2
<1>6. \/ Plain(w.line)
      \/ \E k \in ListKinds : /\ p.kind \in ChildKinds(k)
                              /\ \E e \in {NextItem(k), CloseList(k)} : \E t \in Line : w.line = e \o t
  BY GivenTagged
<1>7. StepTagged(p, w.line, b, s, last)
  <2>1. last \in BOOLEAN
    OBVIOUS
  <2> HIDE DEF b, s, last
  <2> QED BY <1>1, <1>2, <1>5, <1>6, <2>1, BlockTagged DEF b
<1>8. b.p \in Parser /\ b.p.kind = p.kind
  BY <1>4 DEF Kept
<1>9. Longer(v.chain, w.chain, b.p)
  BY <1>4 DEF Longer
<1>10. /\ FlattenSeq(Before(v.chain, m)) = s \o (IF n + 1 <= m \/ p.kind = "quote" THEN Around(p.kind) ELSE <<>>)
       /\ FlattenSeq(After(v.chain)) = r \o (IF b.p.finished THEN <<>> ELSE Around(p.kind))
  <2> DEFINE q == b.p
             c == w.chain
             d == v.chain
  <2>1. q \in Parser /\ c \in Seq(Parser) /\ Longer(d, c, q) /\ q.kind = p.kind
    BY <1>3, <1>8, <1>9
  <2> HIDE DEF m, q, c, d
  <2>2. /\ FlattenSeq(Before(d, m)) = FlattenSeq(Before(c, m)) \o Has(Len(c) + 1, m, q)
        /\ FlattenSeq(After(d)) = FlattenSeq(After(c)) \o Leaves(q)
    BY ONLY <2>1, StacksGrow
  <2> HIDE DEF b
  <2> QED BY <2>1, <2>2 DEF q, c, d, Has, Leaves
<1>11. b.p.result = IF n + 1 <= m THEN chain[n + 1].result
                    ELSE IF p.kind = "quote" THEN <<"<blockquote>">> ELSE <<>>
  <2>1. CASE p.kind = "quote"
    <3>1. b = parseQuote(p, w.line)
      BY <1>1, <2>1, ParsedAs
    <3> DEFINE a == parseQuote(p, w.line)
    <3>2. a.p.result = IF p.started THEN p.result ELSE <<"<blockquote>">>
      BY <1>1, <2>1, QuoteParsed, Zenon
    <3>3. b = a
      BY <3>1
    <3> HIDE DEF a, b
    <3> QED BY <1>2, <2>1, <3>2, <3>3
  <2>2. CASE p.kind # "quote"
    <3>1. b.p.result = p.result
      BY <1>1, <1>4, <2>2 DEF Kept
    <3> HIDE DEF b
    <3> QED BY <1>2, <2>2, <3>1
  <2> QED BY <2>1, <2>2
<1>12. r \in Line /\ r \o <<>> = r /\ s \o <<>> = s
  <2>1. r \in Line
    BY <1>3, StacksTyped
  <2> HIDE DEF r, s
  <2> QED BY <1>5, <2>1, JoinNothing
<1> HIDE DEF b, n, m, s, r, last
<1>13. Fold(FlattenSeq(Before(v.chain, m)), v.line) = FlattenSeq(After(v.chain))
  BY <1>2, <1>4, <1>5, <1>7, <1>10, <1>12 DEF StepTagged
<1>14. \A i \in 1..n + 1 :
         v.chain[i].result = IF i <= m THEN chain[i].result
                             ELSE IF v.chain[i].kind = "quote" THEN <<"<blockquote>">> ELSE <<>>
  <2> SUFFICES ASSUME NEW i \in 1..n + 1
               PROVE  v.chain[i].result = IF i <= m THEN chain[i].result
                             ELSE IF v.chain[i].kind = "quote" THEN <<"<blockquote>">> ELSE <<>>
    OBVIOUS
  <2>1. CASE i = n + 1
    BY <1>4, <1>8, <1>11, <2>1
  <2>2. CASE i # n + 1
    <3>1. i \in 1..n /\ v.chain[i] = w.chain[i]
      BY <1>1, <1>4, <2>2
    <3>2. \A j \in 1..n :
            w.chain[j].result = IF j <= m THEN chain[j].result
                                ELSE IF w.chain[j].kind = "quote" THEN <<"<blockquote>">> ELSE <<>>
      BY DEF Tagged, n, m
    <3> QED BY <3>1, <3>2
  <2> QED BY <2>1, <2>2
<1>15. /\ p.kind = "quote" => Plain(v.line)
       /\ p.kind \in ListKinds => \/ Passed(p.kind, v.line)
                                  \/ Len(v.chain) >= Len(chain) /\ v.line # <<>> /\ v.line[1] \in ListMarks
  BY <1>4, <1>7 DEF StepTagged, last
<1>16. Last(v.chain).kind = p.kind
  BY <1>4, <1>8
<1> QED BY <1>4, <1>13, <1>14, <1>15, <1>16 DEF Tagged, m

\* The line that arrives does so too.
LEMMA TaggedThrough ==
  ASSUME NEW chain, NEW line, Standing(chain, line), Tableless(chain), Plain(line)
  PROVE  LET w == HandedDown(chain, line) IN w \in Ways /\ Arrived(chain, line, w) /\ Tagged(chain, w)
<1> DEFINE D == {v \in Ways : Tagged(chain, v)}
<1>1. Begin(line) \in D
  <2>1. Begin(line) \in Ways
    BY SetsOut DEF Going
  <2>2. Begin(line).chain = <<>> /\ Begin(line).line = line
    BY DEF Begin
  <2>3. FlattenSeq(Before(<<>>, Old(chain))) = <<>> /\ FlattenSeq(After(<<>>)) = <<>>
    <3>1. Before(<<>>, Old(chain)) = <<>> /\ After(<<>>) = <<>>
      BY DEF Before, After
    <3> QED BY <3>1, FlattenNothing
  <2>4. Fold(<<>>, line) = <<>>
    BY EmptyLine, PlainLevel DEF Level
  <2> QED BY <2>1, <2>2, <2>3, <2>4 DEF Tagged
<1>2. ASSUME NEW v \in D, NEW p, NEW u, Going(chain, line, v), Receives(chain, v, p), Handed(v, p, u)
      PROVE  u \in D
  <2>1. Tagged(chain, u)
    BY <1>2, TaggedOn
  <2>2. u \in Ways
    BY <1>2, Zenon DEF Handed
  <2> QED BY <2>1, <2>2
<1>3. HandedDown(chain, line) \in D /\ Arrived(chain, line, HandedDown(chain, line))
  <2> HIDE DEF D
  <2> QED BY <1>1, <1>2, Descent
<1> QED BY <1>3

\* d is the beginning of f, and x the rest of it.
Cut(f, m, n, A, d, x) ==
  /\ d \in Seq(A) /\ Len(d) = m /\ \A i \in 1..m : d[i] = f[i]
  /\ x \in Seq(A) /\ Len(x) = n - m /\ \A i \in 1..n - m : x[i] = f[m + i]
  /\ f = d \o x

\* A sequence is its beginning and the rest of it.
LEMMA CutAt ==
  ASSUME NEW A, NEW f \in Seq(A), NEW m \in Nat, NEW n, n = Len(f), m <= n
  PROVE  Cut(f, m, n, A, SubSeq(f, 1, m), SubSeq(f, m + 1, n))
<1> DEFINE d == SubSeq(f, 1, m)
           x == SubSeq(f, m + 1, n)
<1>1. /\ d \in Seq(A) /\ Len(d) = m /\ (\A i \in 1..m : d[i] = f[i])
      /\ x \in Seq(A) /\ Len(x) = Len(f) - m /\ (\A i \in 1..Len(f) - m : x[i] = f[m + i])
      /\ Len(f) \in Nat
  OBVIOUS
<1> SUFFICES f = d \o x
  BY <1>1 DEF Cut
<1> HIDE DEF d, x
<1> DEFINE g == d \o x
<1>2. g \in Seq(A) /\ Len(g) = Len(f)
      /\ \A i \in 1..Len(f) : g[i] = IF i <= m THEN d[i] ELSE x[i - m]
  BY <1>1
<1> HIDE DEF g
<1>3. ASSUME NEW i \in 1..Len(f) PROVE f[i] = g[i]
  <2>1. CASE i <= m
    <3>1. i \in 1..m
      BY <1>1, <2>1
    <3> QED BY <1>1, <1>2, <2>1, <3>1
  <2>2. CASE ~(i <= m)
    <3>1. i - m \in 1..Len(f) - m /\ m + (i - m) = i
      BY <1>1, <2>2
    <3>2. x[i - m] = f[m + (i - m)]
      BY <1>1, <3>1
    <3> QED BY <1>2, <2>2, <3>1, <3>2
  <2> QED BY <2>1, <2>2
<1>4. f = g
  BY <1>2, <1>3, SeqEqual
<1> QED BY <1>4 DEF g

\* Opening tags go onto the stack.
LEMMA QuotesOpen ==
  ASSUME NEW s \in Seq({"<blockquote>"}), NEW a \in Line
  PROVE  s \in Line /\ Fold(a, s) = a \o s
<1> DEFINE T == {t \in Seq({"<blockquote>"}) : t \in Line /\ Fold(a, t) = a \o t}
<1>1. <<>> \in T
  <2>1. <<>> \in Seq({"<blockquote>"}) /\ <<>> \in Line
    BY EmptyLine
  <2>2. Fold(a, <<>>) = a /\ a \o <<>> = a
    BY FoldNothing, JoinNothing
  <2> QED BY <2>1, <2>2
<1>2. ASSUME NEW t \in T, NEW x \in {"<blockquote>"} PROVE Append(t, x) \in T
  <2>1. t \in Line /\ Fold(a, t) = a \o t /\ t \in Seq({"<blockquote>"})
    OBVIOUS
  <2>2. x = "<blockquote>" /\ x \in Symbols /\ x = Open["blockquote"] /\ "blockquote" \in Tags
    <3>1. Open["blockquote"] = "<blockquote>"
      BY DEF Open
    <3>2. "<blockquote>" \in Symbols
      BY Literals, Zenon
    <3> QED BY <3>1, <3>2, TagNames
  <2>3. Append(t, x) \in Line /\ Append(t, x) \in Seq({"<blockquote>"})
    BY <2>1, <2>2, Joined
  <2>4. Fold(a, Append(t, x)) = Nest(Fold(a, t), x)
    BY <2>1, <2>2, FoldAppend DEF Line
  <2>5. Nest(Fold(a, t), x) = Append(Fold(a, t), x)
    <3> DEFINE u == Fold(a, t)
    <3>1. u \in Line
      BY <2>1, FoldTyped
    <3> HIDE DEF u
    <3>2. Nest(u, Open["blockquote"]) = Append(u, Open["blockquote"])
      BY <2>2, <3>1, NestIs
    <3> QED BY <2>2, <3>2 DEF u
  <2>6. Append(a \o t, x) = a \o Append(t, x)
    <3>1. a \in Seq(Symbols) /\ t \in Seq(Symbols) /\ x \in Symbols /\ <<x>> \in Seq(Symbols)
      BY <2>1, <2>2 DEF Line
    <3>2. a \o t \in Seq(Symbols) /\ Append(a \o t, x) = (a \o t) \o <<x>> /\ Append(t, x) = t \o <<x>>
      BY ONLY <3>1
    <3> QED BY <3>1, <3>2, Regroup
  <2> QED BY <2>1, <2>3, <2>4, <2>5, <2>6
<1>3. T = Seq({"<blockquote>"})
  <2>1. T \in SUBSET Seq({"<blockquote>"})
    OBVIOUS
  <2> HIDE DEF T
  <2> QED BY <1>1, <1>2, <2>1, SequencesGrow
<1> QED BY <1>3

\* The tags that the open blocks hold are those they leave open.
Even(c) == Fold(<<>>, Total(c)) = FlattenSeq(After(c))

\* With the line not yet written, the parsers it was handed to hold these tags.
LEMMA HeldTags ==
  ASSUME NEW chain, NEW line, Standing(chain, line), Formed(chain) => Even(chain),
         NEW w, Arrived(chain, line, w), Tagged(chain, w)
  PROVE  Fold(<<>>, Total(w.chain)) = FlattenSeq(Before(w.chain, Old(chain)))
<1> DEFINE m == Old(chain)
           c == w.chain
           n == Len(c)
           f == ResultsOf(c)
           g == Before(c, m)
           F == SubSeq(f, 1, m)
           G == SubSeq(g, 1, m)
           X == SubSeq(g, m + 1, n)
<1>1. /\ c \in Seq(Parser) /\ chain \in Seq(Parser) /\ Len(c) \in Nat /\ Len(chain) \in Nat
      /\ Len(chain) <= n /\ \A i \in 1..n : i <= Len(chain) => c[i].kind = chain[i].kind
  <2>1. w \in Ways /\ n >= Len(chain)
    BY Zenon DEF Arrived, Going
  <2>2. \A i \in 1..n : i <= Len(chain) => c[i].kind = chain[i].kind
    BY DEF Arrived, Going
  <2>3. c \in Seq(Parser) /\ chain \in Seq(Parser)
    BY <2>1 DEF Ways, Standing
  <2>4. Len(c) \in Nat /\ Len(chain) \in Nat
    BY <2>3
  <2> HIDE DEF c
  <2> QED BY <2>1, <2>2, <2>3, <2>4
<1>2. /\ f \in Seq(Line) /\ Len(f) = n /\ (\A i \in 1..n : f[i] = c[i].result)
      /\ g \in Seq(Line) /\ Len(g) = n
  BY <1>1, ResultsTyped, StacksTyped
<1>3. \A i \in 1..n : c[i].result = IF i <= m THEN chain[i].result
                                    ELSE IF c[i].kind = "quote" THEN <<"<blockquote>">> ELSE <<>>
  BY DEF Tagged
<1>4. \A i \in 1..n : g[i] = Has(i, m, c[i])
  BY DEF Before
<1>5. m \in Nat /\ m <= n /\ (m = 0 \/ m = Len(chain))
  BY <1>1 DEF Old
<1> HIDE DEF c, n, f, g, m
<1>6. /\ F \in Seq(Line) /\ Len(F) = m /\ \A i \in 1..m : F[i] = f[i]
      /\ G \in Seq(Line) /\ Len(G) = m /\ \A i \in 1..m : G[i] = g[i]
      /\ X \in Seq(Line) /\ Len(X) = n - m /\ \A i \in 1..n - m : X[i] = g[m + i]
      /\ g = G \o X
  <2>1. n = Len(f) /\ n = Len(g)
    BY <1>2
  <2>2. Cut(f, m, n, Line, F, SubSeq(f, m + 1, n)) /\ Cut(g, m, n, Line, G, X)
    BY <1>2, <1>5, <2>1, CutAt
  <2> HIDE DEF F, G, X
  <2> QED BY <2>2 DEF Cut
<1>7. f = F \o X
  <2> DEFINE Y == SubSeq(f, m + 1, n)
  <2>1. /\ Y \in Seq(Line) /\ Len(Y) = n - m /\ \A i \in 1..n - m : Y[i] = f[m + i]
        /\ f = F \o Y
    <3>1. n = Len(f)
      BY <1>2
    <3>2. Cut(f, m, n, Line, F, Y)
      BY <1>2, <1>5, <3>1, CutAt
    <3> HIDE DEF F, Y
    <3> QED BY <3>2 DEF Cut
  <2> HIDE DEF X, Y, F, G
  <2>2. ASSUME NEW i \in 1..n - m PROVE Y[i] = X[i]
    <3>1. m + i \in 1..n /\ ~(m + i <= m)
      BY <1>1, <1>5 DEF n
    <3>2. f[m + i] = IF c[m + i].kind = "quote" THEN <<"<blockquote>">> ELSE <<>>
      BY <1>2, <1>3, <3>1
    <3>3. g[m + i] = IF c[m + i].kind = "quote" THEN Around("quote") ELSE <<>>
      BY <1>4, <3>1 DEF Has
    <3> QED BY <1>6, <2>1, <3>2, <3>3, AroundIs
  <2>3. Y = X
    BY <1>6, <2>1, <2>2, SeqEqual
  <2> QED BY <2>1, <2>3
<1>8. FlattenSeq(X) \in Seq({"<blockquote>"})
  <2>1. ASSUME NEW i \in 1..n - m PROVE X[i] \in Seq({"<blockquote>"})
    <3>1. m + i \in 1..n /\ ~(m + i <= m)
      BY <1>1, <1>5 DEF n
    <3>2. X[i] = IF c[m + i].kind = "quote" THEN Around("quote") ELSE <<>>
      <4> HIDE DEF X, F, G
      <4> QED BY <1>4, <1>6, <3>1 DEF Has
    <3>3. Around("quote") = <<"<blockquote>">>
      BY AroundIs
    <3>4. ASSUME NEW x PROVE <<x>> \in Seq({x}) /\ <<>> \in Seq({x})
      OBVIOUS
    <3> HIDE DEF X
    <3>5. X[i] = <<"<blockquote>">> \/ X[i] = <<>>
      BY <3>2, <3>3
    <3> QED BY <3>4, <3>5, Zenon
  <2> HIDE DEF X, F, G
  <2>2. X \in [1..Len(X) -> Seq({"<blockquote>"})] /\ Len(X) \in Nat
    <3>1. X \in Seq(Line) /\ Len(X) = n - m
      BY <1>6
    <3>2. \A i \in 1..Len(X) : X[i] \in Seq({"<blockquote>"})
      BY <2>1, <3>1
    <3>3. DOMAIN X = 1..Len(X) /\ Len(X) \in Nat /\ X = [i \in 1..Len(X) |-> X[i]]
      BY <3>1
    <3> QED BY <3>2, <3>3
  <2>3. X \in Seq(Seq({"<blockquote>"}))
    BY <2>2, TableOf
  <2> QED BY <2>3, FlattenType
<1> HIDE DEF X
<1>9. Fold(<<>>, FlattenSeq(F)) = FlattenSeq(G)
  <2>1. CASE m = 0
    <3>1. F = <<>> /\ G = <<>>
      BY <2>1, SubSeqEmpty
    <3> QED BY <3>1, FlattenNothing, FoldNothing
  <2>2. CASE m # 0
    <3>1. m = Len(chain) /\ chain[1].started /\ 1 \in 1..Len(chain)
      BY <1>1, <1>5, <2>2 DEF Old, m
    <3>2. Formed(chain)
      <4> SUFFICES ASSUME NEW k \in Kinds, chain = <<NewParser(k)>> PROVE FALSE
        BY DEF Standing
      <4> DEFINE q == NewParser(k)
      <4>1. chain = <<q>> /\ ~q.started
        BY Made
      <4> HIDE DEF q
      <4>2. chain[1] = q
        BY <4>1
      <4> QED BY <3>1, <4>1, <4>2
    <3> HIDE DEF F, G
    <3>3. F = ResultsOf(chain)
      <4>1. /\ ResultsOf(chain) \in Seq(Line) /\ Len(ResultsOf(chain)) = m
            /\ \A i \in 1..m : ResultsOf(chain)[i] = chain[i].result
        BY <1>1, <3>1, ResultsTyped
      <4>2. \A i \in 1..m : F[i] = chain[i].result
        <5> SUFFICES ASSUME NEW i \in 1..m PROVE F[i] = chain[i].result
          OBVIOUS
        <5>1. i \in 1..n /\ i <= m
          BY <1>1, <1>5 DEF n
        <5> QED BY <1>2, <1>3, <1>6, <5>1
      <4>3. \A i \in 1..m : F[i] = ResultsOf(chain)[i]
        BY <4>1, <4>2
      <4> HIDE DEF m
      <4> QED BY <1>6, <4>1, <4>3, SeqEqual
    <3>4. G = After(chain)
      <4>1. After(chain) \in Seq(Line) /\ Len(After(chain)) = m
        BY <1>1, <3>1, StacksTyped
      <4>2. ASSUME NEW i \in 1..m PROVE G[i] = After(chain)[i]
        <5>1. i \in 1..n /\ i <= m /\ i \in 1..Len(chain) /\ i <= Len(chain)
          BY <1>1, <1>5, <3>1 DEF n
        <5>2. G[i] = Around(chain[i].kind)
          <6>1. G[i] = Has(i, m, c[i])
            BY <1>4, <1>6, <5>1
          <6>2. c[i].kind = chain[i].kind
            BY <1>1, <5>1 DEF n, c
          <6> QED BY <5>1, <6>1, <6>2 DEF Has
        <5>3. ~chain[i].finished
          BY <3>2, <5>1 DEF Formed
        <5>4. After(chain)[i] = Around(chain[i].kind)
          BY <5>1, <5>3 DEF After, Leaves
        <5> QED BY <5>2, <5>4
      <4> HIDE DEF m
      <4> QED BY <1>6, <4>1, <4>2, SeqEqual
    <3> QED BY <3>2, <3>3, <3>4 DEF Even, Total
  <2> QED BY <2>1, <2>2
<1> HIDE DEF F, G
<1>10. /\ FlattenSeq(F) \in Line /\ FlattenSeq(G) \in Line /\ FlattenSeq(X) \in Line
       /\ FlattenSeq(f) = FlattenSeq(F) \o FlattenSeq(X) /\ FlattenSeq(g) = FlattenSeq(G) \o FlattenSeq(X)
  <2>1. F \in Seq(Seq(Symbols)) /\ G \in Seq(Seq(Symbols)) /\ X \in Seq(Seq(Symbols))
    BY <1>6 DEF Line
  <2>2. FlattenSeq(F) \in Line /\ FlattenSeq(G) \in Line /\ FlattenSeq(X) \in Line
    BY <2>1, FlattenType DEF Line
  <2>3. FlattenSeq(f) = FlattenSeq(F) \o FlattenSeq(X) /\ FlattenSeq(g) = FlattenSeq(G) \o FlattenSeq(X)
    BY <1>6, <1>7, <2>1, FlattenJoin
  <2> QED BY <2>2, <2>3
<1>11. Fold(<<>>, FlattenSeq(f)) = Fold(Fold(<<>>, FlattenSeq(F)), FlattenSeq(X))
  BY <1>10, EmptyLine, FoldJoin
<1>12. Fold(FlattenSeq(G), FlattenSeq(X)) = FlattenSeq(G) \o FlattenSeq(X)
  BY <1>8, <1>10, QuotesOpen
<1> QED BY <1>9, <1>10, <1>11, <1>12 DEF Total, f, g, c, m

\* What the innermost parser writes goes behind the rest.
LEMMA WrittenTotal ==
  ASSUME NEW w \in Ways, w.chain # <<>>, NEW x \in Line, Written(w).result = Last(w.chain).result \o x
  PROVE  Total(WrittenChain(w)) = Total(w.chain) \o x
<1> DEFINE p == Last(w.chain)
<1>1. PICK d \in Seq(Parser) : /\ Total(WrittenChain(w)) = Total(d) \o Written(w).result
                              /\ Total(w.chain) = Total(d) \o p.result
  BY WrittenBehind
<1>2. p \in Parser
  BY LastIn DEF Ways
<1> HIDE DEF p
<1>3. Total(d) \in Line /\ p.result \in Line
  BY <1>2, ResultsTyped DEF Parser
<1>4. Total(d) \o (p.result \o x) = (Total(d) \o p.result) \o x
  BY <1>3, Rejoined
<1> QED BY <1>1, <1>4 DEF p

\* When the line is written the tags of the blocks it went through are even.
LEMMA WrittenEven ==
  ASSUME NEW chain, NEW w \in Ways, w.chain # <<>>, Fit(Last(w.chain)), Tagged(chain, w),
         Fold(<<>>, Total(w.chain)) = FlattenSeq(Before(w.chain, Old(chain))),
         Last(w.chain).kind = "quote" /\ w.given = <<>> => w.line = <<>>
  PROVE  Even(WrittenChain(w))
<1> DEFINE c == WrittenChain(w)
           a == w.chain
           n == Len(a)
           q == Written(w)
           s == FlattenSeq(Before(a, Old(chain)))
<1>1. /\ c \in Seq(Parser) /\ Len(c) = n /\ c[n] = q
      /\ \A i \in 1..n : i # n => c[i] = a[i]
  BY WrittenChainIs
<1>2. /\ a \in Seq(Parser) /\ a # <<>> /\ n \in Nat /\ n \in 1..n /\ n # 0
      /\ Last(a) \in Parser /\ Last(a) = a[n] /\ w.line \in Line
  BY LastIn DEF Ways
<1>3. Wrote(w, q)
  BY WrittenIs
<1>4. /\ Fold(<<>>, Total(a)) = s /\ s \in Line /\ Total(a) \in Line
      /\ Fold(s, w.line) = FlattenSeq(After(a))
  <2>1. s \in Line /\ Total(a) \in Line
    BY <1>2, StacksTyped, ResultsTyped
  <2> QED BY <2>1 DEF Tagged
<1>5. ASSUME NEW x \in Line, q.result = Last(a).result \o x
      PROVE  Fold(<<>>, Total(c)) = Fold(s, x)
  <2>1. Total(c) = Total(a) \o x
    BY <1>2, <1>5, WrittenTotal
  <2>2. Fold(<<>>, Total(a) \o x) = Fold(Fold(<<>>, Total(a)), x)
    BY <1>4, EmptyLine, FoldJoin
  <2> QED BY <1>4, <2>1, <2>2
<1>6. CASE ~(q.kind = "quote" /\ w.given = <<>>)
  <2>1. /\ q.finished = Last(a).finished /\ q.kind = Last(a).kind
        /\ q.result = Last(a).result \o runLineParser(w.line) \/ q.result = Last(a).result \o w.line
    <3> HIDE DEF q
    <3> QED BY <1>3, <1>6 DEF Wrote
  <2>2. runLineParser(w.line) \in Line /\ Fold(s, runLineParser(w.line)) = Fold(s, w.line)
    BY <1>2, <1>4, LineParserTyped, RunAlike DEF Alike
  <2>3. Fold(<<>>, Total(c)) = FlattenSeq(After(a))
    <3> HIDE DEF c, q, s
    <3> QED BY <1>2, <1>4, <1>5, <2>1, <2>2
  <2>4. After(c) = After(a)
    <3> HIDE DEF c, q, s
    <3>1. ASSUME NEW i \in 1..n PROVE Leaves(c[i]) = Leaves(a[i])
      <4>1. c[i].finished = a[i].finished /\ c[i].kind = a[i].kind
        BY <1>1, <1>2, <2>1
      <4> QED BY <4>1 DEF Leaves
    <3> QED BY <1>1, <3>1 DEF After
  <2> QED BY <2>3, <2>4 DEF Even
<1>7. CASE q.kind = "quote" /\ w.given = <<>>
  <2> DEFINE d == SubSeq(a, 1, n - 1)
             x == <<"</blockquote>">>
  <2>1. /\ Last(a).kind = "quote" /\ q.finished /\ q \in Parser /\ w.line = <<>>
        /\ q.result = Append(Last(a).result, "</blockquote>")
    <3> HIDE DEF q
    <3> QED BY <1>3, <1>7 DEF Wrote
  <2>2. ~Last(a).finished
    BY <2>1 DEF Fit
  <2>3. x \in Line /\ q.result = Last(a).result \o x
    <3>1. Last(a).result \in Line /\ "</blockquote>" \in Symbols
      <4>1. Last(a).result \in Line
        BY <1>2 DEF Parser
      <4> QED BY <4>1, Literals, Zenon
    <3>2. x \in Line
      BY <3>1, Tuples
    <3> HIDE DEF a, q
    <3> QED BY <2>1, <3>1, <3>2 DEF Line
  <2>4. Fold(<<>>, Total(c)) = Fold(s, x)
    <3> HIDE DEF c, q, s, a, x
    <3> QED BY <1>5, <2>3
  <2>5. d \in Seq(Parser) /\ Len(d) = n - 1 /\ Longer(a, d, Last(a)) /\ \A i \in 1..n - 1 : d[i] = a[i]
    BY <1>2, LastOf
  <2>6. Longer(c, d, q)
    <3> HIDE DEF c, d, q, a
    <3>1. Len(d) + 1 = n /\ \A i \in 1..Len(d) : i \in 1..n /\ i # n /\ i \in 1..n - 1
      BY <1>2, <2>5 DEF n
    <3> QED BY <1>1, <2>5, <3>1 DEF Longer
  <2>7. FlattenSeq(After(a)) = FlattenSeq(After(d)) \o Leaves(Last(a))
        /\ FlattenSeq(After(c)) = FlattenSeq(After(d)) \o Leaves(q)
    <3> HIDE DEF c, d, q, a
    <3> QED BY <1>2, <2>1, <2>5, <2>6, StacksGrow
  <2>8. Leaves(Last(a)) = Around("quote") /\ Leaves(q) = <<>>
    <3> HIDE DEF q, a
    <3> QED BY <2>1, <2>2 DEF Leaves
  <2>9. FlattenSeq(After(d)) \in Line
    BY <2>5, StacksTyped
  <2>10. FlattenSeq(After(c)) = FlattenSeq(After(d)) /\ s = FlattenSeq(After(d)) \o Around("quote")
    <3>1. Fold(s, w.line) = s
      BY <2>1, FoldNothing
    <3> HIDE DEF c, d, q, a, s
    <3> QED BY <1>4, <2>7, <2>8, <2>9, <3>1, JoinNothing
  <2>11. Fold(s, x) = FlattenSeq(After(d))
    <3> HIDE DEF s, d
    <3> QED BY <2>9, <2>10, AroundIs
  <2> QED BY <2>4, <2>10, <2>11 DEF Even
<1> QED BY <1>6, <1>7

\* The parsers that leave the chain are finished.
LEMMA GoneDone ==
  ASSUME NEW c \in Seq(Parser), c # <<>>, DoneBelow(c)
  PROVE  \A i \in 1..Len(c) : i > Len(Adopted(c)) => c[i].finished
<1> DEFINE N == Len(c)
           Gone(n, b) == /\ n # 0 => b # <<>> /\ b[1].finished = c[N - n + 1].finished
                         /\ \A i \in 1..n : \/ i > Len(b)
                                            \/ b # <<>> /\ b[1].finished
                                            => c[N - n + i].finished
           At(n) == {b \in Seq(Parser) : (n = 0 => b = <<>>) /\ Gone(n, b)}
           R == [n \in 0..N |-> At(n)]
<1>1. N \in Nat /\ N # 0
  OBVIOUS
<1>2. <<>> \in R[0]
  <2>1. R[0] = At(0)
    BY <1>1
  <2>2. Gone(0, <<>>)
    OBVIOUS
  <2> HIDE DEF R, Gone
  <2> QED BY <2>1, <2>2
<1>3. ASSUME NEW n \in 1..N, NEW b \in R[n - 1] PROVE Adopt(c[N - n + 1], b) \in R[n]
  <2>1. R[n - 1] = At(n - 1) /\ R[n] = At(n) /\ n - 1 \in Nat /\ n # 0 /\ n \in Nat
    <3>1. n - 1 \in 0..N /\ n \in 0..N /\ n - 1 \in Nat /\ n # 0 /\ n \in Nat
      BY <1>1
    <3> HIDE DEF At, N
    <3> QED BY <3>1
  <2> HIDE DEF R
  <2> DEFINE m == N - n
             p == c[m + 1]
             t == Adopt(p, b)
  <2>2. /\ m \in Nat /\ N - (n - 1) = m + 1 /\ m + 1 \in 1..N /\ p \in Parser
        /\ (n - 1 # 0 => m + 2 \in 2..N /\ (m + 2) - 1 = m + 1 /\ (m + 1) + 1 = m + 2)
    BY <1>1
  <2>3. b \in Seq(Parser) /\ Gone(n - 1, b) /\ (n - 1 = 0 => b = <<>>)
    <3> HIDE DEF Gone
    <3> QED BY <2>1
  <2>4. /\ n - 1 # 0 => b # <<>> /\ b[1].finished = c[m + 2].finished
        /\ \A i \in 1..n - 1 : i > Len(b) \/ (b # <<>> /\ b[1].finished) => c[m + 1 + i].finished
    <3>1. n - 1 # 0 => b # <<>> /\ b[1].finished = c[N - (n - 1) + 1].finished
      BY <2>3
    <3>2. n - 1 # 0 => N - (n - 1) + 1 = m + 2
      BY <2>2
    <3>3. \A i \in 1..n - 1 : i > Len(b) \/ (b # <<>> /\ b[1].finished) => c[N - (n - 1) + i].finished
      BY <2>3
    <3> HIDE DEF m, N, Gone
    <3> QED BY <2>2, <3>1, <3>2, <3>3
  <2>5. p.finished /\ n - 1 # 0 => b[1].finished
    BY <2>2, <2>4 DEF DoneBelow
  <2>6. t \in Seq(Parser) /\ t # <<>> /\ t[1].finished = p.finished
        /\ \/ Len(t) = 1 /\ b # <<>> /\ b[1].finished
           \/ Len(t) = Len(b) + 1 /\ ~(b # <<>> /\ b[1].finished)
    <3>1. CASE b # <<>> /\ b[1].finished
      <4> DEFINE q == [p EXCEPT !.result = p.result \o b[1].result]
      <4>1. t = <<q>>
        BY <3>1 DEF Adopt
      <4>2. b[1] \in Parser
        BY <2>3, <3>1
      <4>3. b[1].result \in Line
        BY <4>2 DEF Parser
      <4>4. q \in Parser /\ q.finished = p.finished
        BY <2>2, <4>3, Results DEF Same
      <4> HIDE DEF q, t, p
      <4> QED BY <3>1, <4>1, <4>4
    <3>2. CASE ~(b # <<>> /\ b[1].finished)
      <4>1. t = <<p>> \o b
        BY <3>2 DEF Adopt
      <4>2. t \in Seq(Parser) /\ Len(t) = Len(b) + 1 /\ t[1] = p
        BY <2>2, <2>3, <4>1, InFront
      <4>3. Len(b) \in Nat
        BY <2>3
      <4>4. t # <<>>
        BY <4>2, <4>3
      <4> HIDE DEF t, p
      <4> QED BY <3>2, <4>2, <4>4
    <3> QED BY <3>1, <3>2
  <2>7. ASSUME NEW i \in 1..n, i > Len(t) \/ t[1].finished PROVE c[m + i].finished
    <3> HIDE DEF m, N, t
    <3>0. Len(b) \in Nat
      BY <2>3
    <3>1. CASE i = 1
      <4>1. ~(i > Len(t))
        BY <2>6, <3>0, <3>1
      <4> QED BY <2>6, <2>7, <3>1, <4>1
    <3>2. CASE i # 1
      <4>1. i - 1 \in 1..n - 1 /\ n - 1 # 0 /\ m + 1 + (i - 1) = m + i
        BY <2>2, <3>2
      <4>2. CASE t[1].finished
        <5>1. b # <<>> /\ b[1].finished
          BY <2>4, <2>5, <2>6, <4>1, <4>2
        <5>2. c[m + 1 + (i - 1)].finished
          BY <2>4, <4>1, <5>1
        <5> QED BY <4>1, <5>2
      <4>3. CASE i > Len(t)
        <5>1. i - 1 > Len(b) \/ (b # <<>> /\ b[1].finished)
          BY <2>6, <3>0, <4>3
        <5>2. c[m + 1 + (i - 1)].finished
          BY <2>4, <4>1, <5>1
        <5> QED BY <4>1, <5>2
      <4> QED BY <2>7, <4>2, <4>3
    <3> QED BY <3>1, <3>2
  <2>8. Gone(n, t)
    <3>1. p = c[N - n + 1]
      OBVIOUS
    <3> HIDE DEF t, p
    <3> QED BY <2>6, <2>7, <3>1
  <2> HIDE DEF Gone
  <2> QED BY <2>1, <2>6, <2>8 DEF t, p, m
<1>4. R \in [0..N -> SUBSET Seq(Parser)]
  <2> HIDE DEF Gone
  <2> QED BY Zenon
<1>5. R[N] = At(N)
  BY <1>1
<1> HIDE DEF R
<1>6. Adopted(c) \in R[N]
  BY <1>1, <1>2, <1>3, <1>4, Ascends
<1> DEFINE r == Adopted(c)
<1>7. Gone(N, r)
  <2> HIDE DEF Gone
  <2> QED BY <1>5, <1>6
<1> HIDE DEF r
<1>8. \A i \in 1..N : i > Len(r) => c[N - N + i].finished
  BY <1>7
<1>9. \A i \in 1..N : N - N + i = i
  BY <1>1
<1> HIDE DEF N
<1> QED BY <1>8, <1>9 DEF r, N

\* What is left of the chain leaves the same tags open.
LEMMA AdoptedEven ==
  ASSUME NEW c \in Seq(Parser), c # <<>>, DoneBelow(c), Even(c)
  PROVE  Even(Adopted(c))
<1> DEFINE r == Adopted(c)
           m == Len(r)
           n == Len(c)
           f == After(c)
           F == SubSeq(f, 1, m)
           X == SubSeq(f, m + 1, n)
<1>1. Trim(c, r)
  BY AdoptedIs
<1>2. Total(r) = Total(c)
  BY AdoptedTotal
<1>3. \A i \in 1..n : i > m => c[i].finished
  BY GoneDone
<1> HIDE DEF r
<1>4. /\ r \in Seq(Parser) /\ m \in Nat /\ n \in Nat /\ m <= n
      /\ \A i \in 1..m : Same(r[i], c[i])
  BY <1>1 DEF Trim
<1>5. f \in Seq(Line) /\ Len(f) = n /\ After(r) \in Seq(Line) /\ Len(After(r)) = m
  BY <1>4, StacksTyped
<1>6. \A i \in 1..n : f[i] = Leaves(c[i])
  BY DEF After
<1>7. \A i \in 1..m : After(r)[i] = Leaves(r[i])
  BY DEF After
<1> HIDE DEF m, n, f
<1>8. Cut(f, m, n, Line, F, X)
  BY <1>4, <1>5, CutAt
<1> HIDE DEF F, X
<1>9. F = After(r)
  <2>1. F \in Seq(Line) /\ Len(F) = m /\ \A i \in 1..m : F[i] = f[i]
    BY <1>8 DEF Cut
  <2>2. ASSUME NEW i \in 1..m PROVE F[i] = After(r)[i]
    <3>1. i \in 1..n
      BY <1>4
    <3>2. Leaves(r[i]) = Leaves(c[i])
      BY <1>4 DEF Same, Leaves
    <3> QED BY <1>6, <1>7, <2>1, <3>1, <3>2
  <2> QED BY <1>5, <2>1, <2>2, SeqEqual
<1>10. FlattenSeq(X) = <<>>
  <2>1. X \in Seq(Line) /\ Len(X) = n - m /\ \A i \in 1..n - m : X[i] = f[m + i]
    BY <1>8 DEF Cut
  <2>2. ASSUME NEW i \in 1..Len(X) PROVE X[i] \in Seq({})
    <3>1. m + i \in 1..n /\ m + i > m /\ i \in 1..n - m
      BY <1>4, <2>1
    <3>2. X[i] = Leaves(c[m + i]) /\ c[m + i].finished
      BY <1>3, <1>6, <2>1, <3>1
    <3>3. X[i] = <<>>
      BY <3>2 DEF Leaves
    <3> QED BY <3>3
  <2>3. X \in [1..Len(X) -> Seq({})] /\ Len(X) \in Nat
    <3>1. DOMAIN X = 1..Len(X) /\ Len(X) \in Nat /\ X = [i \in 1..Len(X) |-> X[i]]
      BY <2>1
    <3> QED BY <2>2, <3>1
  <2>4. FlattenSeq(X) \in Seq({})
    BY <2>3, TableOf, FlattenType
  <2> DEFINE y == FlattenSeq(X)
  <2> HIDE DEF y
  <2>5. y \in Seq({})
    BY <2>4 DEF y
  <2>6. y = <<>>
    <3>1. Len(y) \in Nat /\ \A i \in 1..Len(y) : y[i] \in {}
      BY <2>5
    <3>2. Len(y) = 0
      <4> SUFFICES ASSUME Len(y) # 0 PROVE FALSE
        OBVIOUS
      <4>1. 1 \in 1..Len(y)
        BY <3>1
      <4> QED BY <3>1, <4>1
    <3> QED BY <2>5, <3>2
  <2> QED BY <2>6 DEF y
<1>11. FlattenSeq(f) = FlattenSeq(After(r))
  <2>1. f = F \o X /\ F \in Seq(Seq(Symbols)) /\ X \in Seq(Seq(Symbols))
    BY <1>8 DEF Cut, Line
  <2>2. FlattenSeq(f) = FlattenSeq(F) \o FlattenSeq(X)
    BY <2>1, FlattenJoin
  <2>3. FlattenSeq(F) \in Line
    BY <2>1, FlattenType DEF Line
  <2> QED BY <1>9, <1>10, <2>2, <2>3, JoinNothing
<1> QED BY <1>2, <1>11 DEF Even, f, r

\* Blocks that are no table leave open, after a line, the tags they hold.
LEMMA EvenTaken ==
  ASSUME NEW chain, NEW line, Standing(chain, line), Tableless(chain), Plain(line),
         Formed(chain) => Even(chain)
  PROVE  Even(AddLine(chain, line))
<1> DEFINE w == HandedDown(chain, line)
           c == WrittenChain(w)
           r == AddLine(chain, line)
<1>1. w \in Ways /\ Arrived(chain, line, w) /\ Carried(chain, line, w)
  BY CarriedThrough
<1>2. Tagged(chain, w)
  BY TaggedThrough
<1>3. r = Adopted(c)
  BY DEF AddLine, WrittenChain
<1> HIDE DEF w, r
<1>4. w.chain # <<>> /\ w.chain \in Seq(Parser) /\ Going(chain, line, w)
  BY <1>1 DEF Arrived, Ways
<1>5. /\ c \in Seq(Parser) /\ Len(c) = Len(w.chain) /\ DoneBelow(c)
  BY <1>1, <1>4, WrittenWords
<1>6. Fit(Last(w.chain))
  <2>1. Len(w.chain) \in 1..Len(w.chain) /\ Last(w.chain) = w.chain[Len(w.chain)]
    BY <1>4, LastIn
  <2>2. \A i \in 1..Len(w.chain) : Fit(w.chain[i])
    BY <1>4, Zenon DEF Going
  <2> QED BY <2>1, <2>2
<1>7. Fold(<<>>, Total(w.chain)) = FlattenSeq(Before(w.chain, Old(chain)))
  BY <1>1, <1>2, HeldTags
<1>8. Last(w.chain).kind = "quote" /\ w.given = <<>> => w.line = <<>>
  BY <1>1, <1>4, Zenon DEF Carried
<1>9. Even(c)
  BY <1>1, <1>2, <1>4, <1>6, <1>7, <1>8, WrittenEven
<1> HIDE DEF c
<1>10. c # <<>>
  BY <1>4, <1>5
<1> QED BY <1>3, <1>5, <1>9, <1>10, AdoptedEven DEF r

-----------------------------------------------------------------------------
(* The tags of a table. *)

\* The texts that leave the open tags as they are, and the lines without any.
Flat   == {s \in Line : Level(s)}
Untagged == {s \in Line : Plain(s)}

\* What is split at the bars has no tag that the line has not.
LEMMA SplitPlain ==
  ASSUME NEW line, Plain(line)
  PROVE  SplitAtBars(line) \in Seq(Untagged) /\ SplitAtBars(line) # <<>>
<1> DEFINE N == Len(line)
           D == Seq(Untagged) \ {<<>>}
           R == [n \in 0..N |-> D]
<1>1. N \in Nat /\ \A n \in 1..N : line[n] \in Symbols /\ line[n] \notin TagTokens
  BY DEF Plain, Line
<1>2. R \in [0..N -> SUBSET D]
  OBVIOUS
<1>3. << <<>> >> \in R[0]
  <2>1. <<>> \in Untagged
    BY PlainParts, EmptyLine DEF Untagged
  <2> HIDE DEF Untagged
  <2> QED BY <1>1, <2>1
<1>4. ASSUME NEW s \in D, NEW x \in Symbols, x \notin TagTokens PROVE Split(s, x) \in D
  <2>1. s \in Seq(Untagged) /\ Len(s) \in Nat /\ Len(s) \in 1..Len(s) /\ s[Len(s)] \in Untagged
    <3> HIDE DEF Untagged
    <3> QED OBVIOUS
  <2>2. CASE x = "|"
    <3>1. Split(s, x) = Append(s, <<>>)
      BY <2>2 DEF Split
    <3>2. <<>> \in Untagged
      BY PlainParts, EmptyLine DEF Untagged
    <3> HIDE DEF Untagged
    <3> QED BY <3>1, <3>2
  <2>3. CASE x # "|"
    <3> DEFINE y == Append(s[Len(s)], x)
    <3>1. Split(s, x) = [s EXCEPT ![Len(s)] = y]
      BY <2>3 DEF Split
    <3>2. y \in Untagged
      <4>1. Plain(y)
        BY <1>4, <2>1, PlainParts DEF Untagged
      <4> QED BY <4>1 DEF Untagged, Plain
    <3> HIDE DEF Untagged, y
    <3>3. Split(s, x) \in Seq(Untagged) /\ Len(Split(s, x)) = Len(s)
      BY <2>1, <3>1, <3>2, ExceptSeq
    <3> QED BY <2>1, <3>3
  <2> QED BY <2>2, <2>3
<1>5. R[N] = D /\ \A n \in 1..N : R[n - 1] = D /\ R[n] = D
  BY <1>1
<1> HIDE DEF R, D
<1>6. \A n \in 1..N : \A s \in R[n - 1] : Split(s, line[n]) \in R[n]
  BY <1>1, <1>4, <1>5
<1>7. SplitAtBars(line) \in R[N]
  <2>1. line \in Line
    BY DEF Plain
  <2> QED BY <1>1, <1>2, <1>3, <1>6, <2>1, Splits
<1> QED BY <1>5, <1>7 DEF D

\* The cells of a row leave the open tags as they are.
LEMMA RowFlat ==
  ASSUME NEW line, Plain(line)
  PROVE  Row(line) \in Seq(Flat)
<1> DEFINE s == SplitAtBars(line)
           t == Segments(line)
<1>1. s \in Seq(Untagged) /\ s # <<>>
  BY SplitPlain
<1>2. t = IF Last(s) = <<>> THEN Front(s) ELSE s
  BY DEF Segments
<1> HIDE DEF s, t
<1>3. t \in Seq(Untagged)
  <2> HIDE DEF Untagged
  <2>1. Front(s) \in Seq(Untagged)
    BY <1>1 DEF Front
  <2> QED BY <1>1, <1>2, <2>1
<1>4. Len(t) \in Nat /\ DOMAIN t = 1..Len(t) /\ \A i \in 1..Len(t) : t[i] \in Untagged
  BY <1>3
<1>5. ASSUME NEW u \in Untagged PROVE runLineParser(u) \in Flat
  <2>1. u \in Line /\ Plain(u)
    BY DEF Untagged
  <2>2. runLineParser(u) \in Line /\ Alike(runLineParser(u), u) /\ Level(u)
    BY <2>1, LineParserTyped, RunAlike, PlainLevel
  <2> QED BY <2>2 DEF Flat, Level, Alike
<1>6. [i \in 1..Len(t) |-> runLineParser(t[i])] \in [1..Len(t) -> Flat]
  <2>1. \A i \in 1..Len(t) : runLineParser(t[i]) \in Flat
    BY <1>4, <1>5
  <2> QED BY <2>1, Zenon
<1>7. Row(line) = [i \in 1..Len(t) |-> runLineParser(t[i])]
  BY <1>4, Zenon DEF Row, t
<1> QED BY <1>4, <1>6, <1>7, TableOf

\* Elements one after the other, and an element around them, leave the open tags as they are.
LEMMA FlatElements ==
  ASSUME NEW t \in Tags, NEW n \in Nat, NEW f \in [1..n -> Flat]
  PROVE  Element(t, FlattenSeq(f)) \in Flat
<1>1. f \in Seq(Flat) /\ Len(f) = n
  BY TableOf
<1>2. f \in Seq(Line) /\ \A i \in 1..Len(f) : Level(f[i])
  <2>1. f \in [1..n -> Line] /\ \A i \in 1..n : Level(f[i])
    BY DEF Flat
  <2>2. f \in Seq(Line)
    BY <2>1, TableOf
  <2> QED BY <1>1, <2>1, <2>2
<1>3. Level(FlattenSeq(f)) /\ FlattenSeq(f) \in Line
  BY <1>2, LevelFlattened
<1>4. Level(Element(t, FlattenSeq(f))) /\ Element(t, FlattenSeq(f)) \in Line
  BY <1>3, LevelElement, ElementTyped
<1> QED BY <1>4 DEF Flat

\* A table whose cells leave the open tags as they are does so itself.
LEMMA TableFlat ==
  ASSUME NEW table \in Seq(Seq(Seq(Flat)))
  PROVE  Table(table) \in Flat
<1>1. ASSUME NEW cell \in Tags, NEW row \in Seq(Flat) PROVE RowText(cell, row) \in Flat
  <2>1. DOMAIN row = 1..Len(row) /\ Len(row) \in Nat /\ \A c \in 1..Len(row) : row[c] \in Flat
    OBVIOUS
  <2>2. ASSUME NEW s \in Flat PROVE Element(cell, s) \in Flat
    BY LevelElement, ElementTyped DEF Flat
  <2>3. [c \in 1..Len(row) |-> Element(cell, row[c])] \in [1..Len(row) -> Flat]
    <3>1. \A c \in 1..Len(row) : Element(cell, row[c]) \in Flat
      BY <2>1, <2>2
    <3> QED BY <3>1, Zenon
  <2>4. Element("tr", FlattenSeq([c \in 1..Len(row) |-> Element(cell, row[c])])) \in Flat
    BY <2>1, <2>3, TagNames, FlatElements
  <2> QED BY <2>1, <2>4 DEF RowText
<1>2. ASSUME NEW i \in 1..Len(table) PROVE Section(table, i) \in Flat
  <2> DEFINE cell == Cell(table, i)
             tag == SectionTag(table, i)
             rows == table[i]
  <2>1. cell \in Tags /\ tag \in Tags
    BY SectionIs
  <2>2. Section(table, i) = Element(tag, FlattenSeq([r \in DOMAIN rows |-> RowText(cell, rows[r])]))
    BY SectionIs
  <2>3. rows \in Seq(Seq(Flat))
    OBVIOUS
  <2> HIDE DEF cell, tag, rows
  <2>4. DOMAIN rows = 1..Len(rows) /\ Len(rows) \in Nat /\ \A r \in 1..Len(rows) : rows[r] \in Seq(Flat)
    BY <2>3
  <2>5. [r \in 1..Len(rows) |-> RowText(cell, rows[r])] \in [1..Len(rows) -> Flat]
    <3>1. \A r \in 1..Len(rows) : RowText(cell, rows[r]) \in Flat
      BY <1>1, <2>1, <2>4
    <3> QED BY <3>1, Zenon
  <2> QED BY <2>1, <2>2, <2>4, <2>5, FlatElements
<1>3. DOMAIN table = 1..Len(table) /\ Len(table) \in Nat
  OBVIOUS
<1>4. [i \in 1..Len(table) |-> Section(table, i)] \in [1..Len(table) -> Flat]
  BY <1>2, Zenon
<1> QED BY <1>3, <1>4, TagNames, FlatElements DEF Table

\* A table whose result leaves no tag open and whose cells leave those that are.
Clean(p) == p.table \in Seq(Seq(Seq(Flat))) /\ Fold(<<>>, p.result) = <<>>

\* A row of a line without tags keeps the cells so.
LEMMA RowClean ==
  ASSUME NEW p \in Parser, NEW line, Plain(line), Clean(p), ~OutOfRange(p, line), IsRow(p, line)
  PROVE  [Grown(p) EXCEPT ![p.currentBlock + 1] = Append(@, Row(line))] \in Seq(Seq(Seq(Flat)))
<1> DEFINE g == Grown(p)
           n == p.currentBlock + 1
           B == Seq(Flat)
           x == Row(line)
<1>1. x \in B
  BY RowFlat
<1>2. p.table \in Seq(Seq(B)) /\ p.currentBlock \in Nat
  BY DEF Clean, Parser
<1>3. Len(g) \in Nat /\ (g = p.table \/ g = Append(p.table, <<>>))
  BY GrownTyped
<1>4. p.currentBlock < Len(g)
  BY <1>2, <1>3 DEF OutOfRange
<1> HIDE DEF g, B, x
<1>5. g \in Seq(Seq(B))
  <2> DEFINE C == Seq(B)
             e == <<>>
  <2>1. e \in C
    OBVIOUS
  <2> HIDE DEF C, e
  <2>2. p.table \in Seq(C)
    BY <1>2 DEF C
  <2>3. Append(p.table, e) \in Seq(C)
    BY <2>1, <2>2
  <2> QED BY <1>3, <2>2, <2>3 DEF C, e
<1>6. n \in 1..Len(g)
  BY <1>2, <1>3, <1>4
<1> HIDE DEF n
<1>7. g[n] \in Seq(B)
  BY <1>5, <1>6
<1>8. Append(g[n], x) \in Seq(B)
  BY <1>1, <1>7
<1>9. [g EXCEPT ![n] = Append(g[n], x)] \in Seq(Seq(B))
  BY <1>5, <1>6, <1>8, ExceptSeq
<1> QED BY <1>9 DEF g, n, B, x

\* What a table does with a line without tags.
LEMMA TableTags ==
  ASSUME NEW p \in Parser, NEW line, Plain(line), p.kind = "table", Ready(p, line), ~OutOfRange(p, line),
         Clean(p)
  PROVE  LET q == AddTableLine(p, line)
         IN  /\ Fold(<<>>, q.result) = <<>>
             /\ ~q.finished => q.table \in Seq(Seq(Seq(Flat)))
<1> DEFINE q == AddTableLine(p, line)
<1>1. line \in Line
  BY DEF Plain
<1>2. /\ q \in Parser
      /\ TableOpens(p, q) \/ TableTurns(p, line, q) \/ TableCloses(p, line, q) \/ TableGoes(p, line, q)
  BY <1>1, TableParsed
<1> HIDE DEF q
<1>3. CASE TableOpens(p, q)
  BY <1>3 DEF TableOpens, Flagged, Clean, q
<1>4. CASE TableTurns(p, line, q)
  BY <1>4 DEF TableTurns, Clean, q
<1>5. CASE TableCloses(p, line, q)
  <2>1. q.finished /\ q.result = Table(p.table)
    BY <1>5 DEF TableCloses
  <2>2. Table(p.table) \in Flat
    BY TableFlat DEF Clean
  <2>3. Fold(<<>>, Table(p.table)) = <<>>
    BY <2>2, EmptyLine DEF Flat, Level
  <2> QED BY <2>1, <2>3 DEF q
<1>6. CASE TableGoes(p, line, q)
  <2>1. /\ IsRow(p, line) /\ q.result = p.result
        /\ q.table = [Grown(p) EXCEPT ![p.currentBlock + 1] = Append(@, Row(line))]
    BY <1>6 DEF TableGoes
  <2>2. q.table \in Seq(Seq(Seq(Flat)))
    BY <2>1, RowClean
  <2> QED BY <2>1, <2>2 DEF Clean, q
<1> QED BY <1>2, <1>3, <1>4, <1>5, <1>6

\* A table keeps its tags in order when it is given a line without any.
LEMMA TableTakesTags ==
  ASSUME NEW chain, NEW line, Standing(chain, line), Plain(line), chain[1].kind = "table", Clean(chain[1])
  PROVE  LET r == AddLine(chain, line)
         IN  /\ Len(r) = 1 /\ r[1].kind = "table" /\ Fold(<<>>, r[1].result) = <<>>
             /\ ~r[1].finished => Clean(r[1])
<1> DEFINE r == AddLine(chain, line)
           p == chain[1]
           q == AddTableLine(p, line)
<1>1. /\ q \in Parser /\ q.kind = "table" /\ Ready(p, line) /\ p \in Parser
      /\ r \in Seq(Parser) /\ Len(r) = 1 /\ r[1].kind = "table"
      /\ r[1].table = q.table /\ r[1].finished = q.finished
      /\ r[1].result = q.result \o runLineParser(<<>>)
  BY TableWritten
<1>2. ~OutOfRange(p, line)
  BY DEF Standing
<1>3. /\ Fold(<<>>, q.result) = <<>>
      /\ ~q.finished => q.table \in Seq(Seq(Seq(Flat)))
  BY <1>1, <1>2, TableTags
<1> HIDE DEF r, q
<1>4. Fold(<<>>, q.result \o runLineParser(<<>>)) = <<>>
  <2> DEFINE x == runLineParser(<<>>)
  <2>1. q.result \in Line
    BY <1>1 DEF Parser
  <2>2. x \in Line /\ Alike(x, <<>>)
    BY EmptyLine, LineParserTyped, RunAlike
  <2> HIDE DEF x
  <2>3. Fold(<<>>, q.result \o x) = Fold(Fold(<<>>, q.result), x)
    BY <2>1, <2>2, EmptyLine, FoldJoin
  <2>4. Fold(<<>>, x) = Fold(<<>>, <<>>)
    BY <2>2, EmptyLine DEF Alike
  <2> QED BY <1>3, <2>3, <2>4, FoldNothing DEF x
<1> QED BY <1>1, <1>3, <1>4 DEF Clean, r

-----------------------------------------------------------------------------
(* The tags of a document. *)

\* The open block is a table alone whose tags are in order, or it holds the
\* tags its parsers leave open (a parser just made holds none yet).
TagsHeld(c) ==
  IF c # <<>> /\ c[1].kind = "table" THEN Len(c) = 1 /\ Clean(c[1])
  ELSE Tableless(c) /\ (Formed(c) => Even(c))

\* No block, and one just made, hold no tag.
LEMMA TagsStart ==
  /\ TagsHeld(<<>>)
  /\ \A k \in Kinds : TagsHeld(<<NewParser(k)>>)
<1>1. TagsHeld(<<>>)
  <2>1. Total(<<>>) = <<>> /\ After(<<>>) = <<>>
    BY TotalFew DEF After
  <2>2. Even(<<>>)
    BY <2>1, FoldNothing, FlattenNothing DEF Even
  <2> QED BY <2>2 DEF TagsHeld, Tableless
<1>2. ASSUME NEW k \in Kinds PROVE TagsHeld(<<NewParser(k)>>)
  <2> DEFINE p == NewParser(k)
             c == <<p>>
  <2>1. p \in Parser /\ p.kind = k /\ ~p.started /\ p.result = <<>> /\ p.table = <<>>
    BY Made
  <2> HIDE DEF p
  <2>2. Len(c) = 1 /\ c[1] = p /\ c # <<>>
    OBVIOUS
  <2> HIDE DEF c
  <2>3. ~Formed(c)
    BY <2>1, <2>2 DEF Formed
  <2>4. Clean(p)
    <3>1. <<>> \in Seq(Seq(Seq(Flat)))
      OBVIOUS
    <3> QED BY <2>1, <3>1, FoldNothing DEF Clean
  <2>5. p.kind # "table" => Tableless(c)
    BY <2>1, <2>2 DEF Tableless
  <2> QED BY <2>2, <2>3, <2>4, <2>5 DEF TagsHeld, c, p
<1> QED BY <1>1, <1>2

\* The tags of a block after a line without any.
LEMMA TagsTaken ==
  ASSUME NEW chain, NEW line, Standing(chain, line), Plain(line), TagsHeld(chain)
  PROVE  LET r == AddLine(chain, line)
         IN  /\ r \in Seq(Parser) /\ r # <<>>
             /\ r[1].finished => Fold(<<>>, r[1].result) = <<>>
             /\ ~r[1].finished => TagsHeld(r)
<1> DEFINE r == AddLine(chain, line)
<1>1. chain \in Seq(Parser) /\ chain # <<>>
  BY DEF Standing
<1>2. r[1].kind = chain[1].kind /\ r \in Seq(Parser) /\ r # <<>>
  BY Left DEF Trim
<1>3. CASE chain[1].kind = "table"
  <2>1. Clean(chain[1])
    BY <1>1, <1>3 DEF TagsHeld
  <2>2. /\ Len(r) = 1 /\ r[1].kind = "table" /\ Fold(<<>>, r[1].result) = <<>>
        /\ ~r[1].finished => Clean(r[1])
    BY <1>3, <2>1, TableTakesTags
  <2> HIDE DEF r
  <2> QED BY <1>2, <2>2 DEF TagsHeld, r
<1>4. CASE chain[1].kind # "table"
  <2>1. Tableless(chain) /\ (Formed(chain) => Even(chain))
    BY <1>1, <1>4 DEF TagsHeld
  <2>2. Even(r)
    BY <2>1, EvenTaken
  <2>3. Tableless(r) /\ (r[1].finished => Len(r) = 1)
    BY <2>1, TextTaken
  <2> HIDE DEF r
  <2>4. ASSUME r[1].finished PROVE Fold(<<>>, r[1].result) = <<>>
    <3> DEFINE p == r[1]
    <3>1. p \in Parser /\ r = <<p>>
      BY <1>2, <2>3, <2>4
    <3>2. Total(r) = p.result
      <4> HIDE DEF p
      <4>1. Total(<<p>>) = p.result
        BY <3>1, TotalFew
      <4> QED BY <3>1, <4>1
    <3>3. After(r) = << <<>> >>
      <4>1. Len(r) = 1 /\ Leaves(r[1]) = <<>>
        BY <2>3, <2>4 DEF Leaves
      <4>2. After(r) = [i \in 1..1 |-> <<>>]
        BY <4>1 DEF After
      <4> QED BY <4>2
    <3>4. FlattenSeq(<< <<>> >>) = <<>>
      <4>1. <<>> \in Seq(Seq(Symbols)) /\ <<>> \in Seq(Symbols) /\ Append(<<>>, <<>>) = << <<>> >> /\ <<>> \o <<>> = <<>>
        OBVIOUS
      <4>2. FlattenSeq(Append(<<>>, <<>>)) = FlattenSeq(<<>>) \o <<>>
        BY <4>1, FlattenAppend
      <4> QED BY <4>1, <4>2, FlattenNothing
    <3> QED BY <2>2, <3>2, <3>3, <3>4 DEF Even
  <2>5. TagsHeld(r)
    BY <1>2, <1>4, <2>2, <2>3 DEF TagsHeld
  <2> QED BY <1>2, <2>4, <2>5 DEF r
<1> QED BY <1>3, <1>4

\* The tags of the result and of the open block after a line is taken.
LEMMA TagsMoved ==
  ASSUME Shape, TagsHeld(block), Fold(<<>>, output) = <<>>, NEW chain, NEW line, Plain(line), TakenBy(chain, line)
  PROVE  TagsHeld(block') /\ Fold(<<>>, output') = <<>>
<1> DEFINE r == AddLine(chain, line)
<1>1. Standing(chain, line) /\ Take(r)
  BY DEF TakenBy
<1>2. TagsHeld(chain)
  BY TagsStart DEF TakenBy
<1>3. /\ r \in Seq(Parser) /\ r # <<>>
      /\ r[1].finished => Fold(<<>>, r[1].result) = <<>>
      /\ ~r[1].finished => TagsHeld(r)
  BY <1>1, <1>2, TagsTaken
<1>4. output \in Line
  BY DEF Shape
<1>5. \/ r[1].finished /\ block' = <<>> /\ output' = output \o r[1].result
      \/ ~r[1].finished /\ block' = r /\ output' = output
  BY <1>1, <1>3, <1>4, TakenIs
<1> HIDE DEF r
<1>6. CASE r[1].finished
  <2>1. r[1].result \in Line
    <3>1. r[1] \in Parser
      BY <1>3
    <3> QED BY <3>1 DEF Parser
  <2>2. Fold(<<>>, output \o r[1].result) = Fold(Fold(<<>>, output), r[1].result)
    BY <1>4, <2>1, EmptyLine, FoldJoin
  <2> QED BY <1>3, <1>5, <1>6, <2>2, TagsStart
<1>7. CASE ~r[1].finished
  BY <1>3, <1>5, <1>7
<1> QED BY <1>6, <1>7

\* The lines of a document have no tags.
LEMMA NumberedPlain ==
  ASSUME Shape, Len(read) < doc.length, NEW s \in doc.shapes
  PROVE  Plain(Numbered(s))
<1> DEFINE line == Numbered(s)
<1>1. line \in Seq(Tokens) /\ line \in Line
  BY NumberedTyped
<1> HIDE DEF line
<1>2. \A x \in Tokens : x \notin TagTokens
  BY TextAssumption
<1>3. \A i \in 1..Len(line) : line[i] \in Tokens
  BY <1>1
<1> QED BY <1>1, <1>2, <1>3 DEF Plain, line

\* TagsAreBalanced: the result of a document is closed at every moment, whatever
\* is nested in whatever: the open block holds the tags its parsers leave open,
\* a line handed down carries those its parents close or open, each list it
\* passes ends at them, and what a block has written is taken when none of
\* its tags is open.
THEOREM TagsAreBalanced == Spec => []Balanced
<1> DEFINE Tags0 == TagsHeld(block) /\ Fold(<<>>, output) = <<>>
<1>1. Init => Tags0
  BY TagsStart, FoldNothing DEF Init
<1>2. Shape /\ Tags0 /\ [Next]_vars => Tags0'
  <2> SUFFICES ASSUME Shape, Tags0, [Next]_vars PROVE Tags0'
    OBVIOUS
  <2>1. ASSUME NEW s \in doc.shapes, ReadLine(Numbered(s)) PROVE Tags0'
    <3> DEFINE line == Numbered(s)
    <3>1. Ignored(line) \/ (\E chain : TakenBy(chain, line)) \/ Lost(line)
      BY <2>1, LineRead
    <3>2. Plain(line)
      <4>1. Len(read) < doc.length
        BY <2>1 DEF ReadLine
      <4> QED BY <4>1, NumberedPlain
    <3> HIDE DEF line
    <3>3. CASE Ignored(line)
      BY <3>3, TagsStart DEF Ignored
    <3>4. CASE \E chain : TakenBy(chain, line)
      BY <3>2, <3>4, TagsMoved
    <3>5. CASE Lost(line)
      BY <3>5 DEF Lost
    <3> QED BY <3>1, <3>3, <3>4, <3>5
  <2>2. CASE EndOfInput
    <3>1. \/ block = <<>> /\ block' = <<>> /\ output' = output
          \/ TakenBy(block, <<>>)
          \/ Lost(<<>>)
      BY <2>2, InputEnded
    <3>2. Plain(<<>>)
      BY PlainParts
    <3> QED BY <3>1, <3>2, TagsMoved DEF Lost
  <2>3. CASE UNCHANGED vars
    BY <2>3 DEF vars
  <2> QED BY <2>1, <2>2, <2>3 DEF Next, Done
<1>3. Spec => []Shape
  BY ShapeHolds
<1>4. Tags0 => Balanced
  BY DEF Balanced, Fold
<1> QED BY <1>1, <1>2, <1>3, <1>4, PTL DEF Spec
=============================================================================
