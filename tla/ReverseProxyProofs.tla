------------------------- MODULE ReverseProxyProofs -------------------------
(***************************************************************************)
(* Proofs about ReverseProxy, for every site, every location and requests  *)
(* of any length.                                                          *)
(***************************************************************************)
EXTENDS ReverseProxy, SequenceLemmas

-----------------------------------------------------------------------------
(* The scan of the headers, character by character.                        *)

Start == NewLine(<<>>, "begin")
ReadOf(t) == FoldLeft(Scan, Start, t)

\* The function that folds the characters of t, on the sets of its first places.
Folding(g, t) ==
  g = [s \in SUBSET DOMAIN t |->
         IF s = {} THEN Start ELSE Scan(g[s \ {Max(s)}], t[Max(s)])]

LEMMA ReadChosen ==
  ASSUME NEW t, NEW h, Folding(h, t)
  PROVE  \E g : Folding(g, t) /\ ReadOf(t) = g[DOMAIN t]
<1> DEFINE it == CHOOSE g : Folding(g, t)
<1>1. Folding(it, t)
  BY Zenon
<1>2. ReadOf(t) = it[DOMAIN t]
  BY Zenon DEF ReadOf, FoldLeft, MapThenFoldSet, Folding
<1> QED BY <1>1, <1>2, Zenon

LEMMA FoldingExists ==
  ASSUME NEW t \in Seq(Chars)
  PROVE  \E g : Folding(g, t)
<1> DEFINE Folds(g, n) ==
      g = [s \in SUBSET (1..n) |->
             IF s = {} THEN Start ELSE Scan(g[s \ {Max(s)}], t[Max(s)])]
           T == {n \in Nat : \E g : Folds(g, n)}
<1>1. 0 \in T
  <2> DEFINE h == [s \in SUBSET (1..0) |-> Start]
  <2>1. \A s \in SUBSET (1..0) : s = {}
    OBVIOUS
  <2>2. Folds(h, 0)
    BY <2>1
  <2> QED BY <2>2
<1>2. ASSUME NEW n \in T PROVE n + 1 \in T
  <2>1. PICK g : Folds(g, n)
    OBVIOUS
  <2> DEFINE h == [s \in SUBSET (1..n + 1) |->
                     IF n + 1 \in s THEN Scan(g[s \ {n + 1}], t[n + 1]) ELSE g[s]]
  <2>2. ASSUME NEW s \in SUBSET (1..n + 1)
        PROVE  h[s] = IF s = {} THEN Start ELSE Scan(h[s \ {Max(s)}], t[Max(s)])
    <3>1. n \in Nat /\ n + 1 \in Nat
      OBVIOUS
    <3>2. CASE n + 1 \in s
      <4>1. Max(s) = n + 1
        BY <3>1, <3>2, MaxOfPlaces
      <4>2. s \ {n + 1} \in SUBSET (1..n + 1) /\ n + 1 \notin s \ {n + 1}
        OBVIOUS
      <4>3. h[s \ {n + 1}] = g[s \ {n + 1}]
        BY <4>2
      <4>4. h[s] = Scan(g[s \ {n + 1}], t[n + 1])
        BY <3>2
      <4>5. h[s] = Scan(h[s \ {Max(s)}], t[Max(s)])
        BY <4>1, <4>3, <4>4, Zenon
      <4> QED BY <3>2, <4>5, Zenon
    <3>3. CASE n + 1 \notin s
      <4>1. s \in SUBSET (1..n) /\ h[s] = g[s]
        BY <3>1, <3>3
      <4>2. g[s] = IF s = {} THEN Start ELSE Scan(g[s \ {Max(s)}], t[Max(s)])
        BY <2>1, <4>1, Zenon
      <4>3. h[s \ {Max(s)}] = g[s \ {Max(s)}]
        BY <3>3
      <4> QED BY <4>1, <4>2, <4>3, Zenon
    <3> QED BY <3>2, <3>3
  <2>3. Folds(h, n + 1)
    BY <2>2, Zenon
  <2> HIDE DEF h, Folds
  <2>4. n + 1 \in Nat
    OBVIOUS
  <2> QED BY <2>3, <2>4
<1>3. T = Nat
  <2>1. T \in SUBSET Nat
    OBVIOUS
  <2> HIDE DEF T
  <2> QED BY <1>1, <1>2, <2>1, Induction
<1>4. Len(t) \in T
  <2>1. Len(t) \in Nat
    OBVIOUS
  <2> HIDE DEF T
  <2> QED BY <1>3, <2>1
<1>5. DOMAIN t = 1..Len(t)
  OBVIOUS
<1> QED BY <1>4, <1>5, Zenon DEF Folding

LEMMA FoldingIs ==
  ASSUME NEW t \in Seq(Chars), NEW g, Folding(g, t)
  PROVE  g[{}] = Start /\ \A k \in 1..Len(t) : g[1..k] = Scan(g[1..k - 1], t[k])
<1>1. \A s \in SUBSET (1..Len(t)) :
        g[s] = IF s = {} THEN Start ELSE Scan(g[s \ {Max(s)}], t[Max(s)])
  <2>1. DOMAIN t = 1..Len(t)
    OBVIOUS
  <2>2. g = [s \in SUBSET (1..Len(t)) |->
               IF s = {} THEN Start ELSE Scan(g[s \ {Max(s)}], t[Max(s)])]
    BY <2>1, Zenon DEF Folding
  <2> QED BY <2>2, Zenon
<1>2. g[{}] = Start
  BY <1>1
<1>3. ASSUME NEW k \in 1..Len(t) PROVE g[1..k] = Scan(g[1..k - 1], t[k])
  <2>1. (1..k) \in SUBSET (1..Len(t)) /\ (1..k) # {} /\ k \in 1..k /\ k \in Nat
    <3>1. k \in Nat /\ k <= Len(t) /\ k \in 1..k
      OBVIOUS
    <3>2. \A i \in 1..k : i \in 1..Len(t)
      OBVIOUS
    <3> QED BY <3>1, <3>2
  <2>2. Max(1..k) = k
    <3>1. (1..k) \in SUBSET (1..k)
      OBVIOUS
    <3> QED BY <2>1, <3>1, MaxOfPlaces
  <2>3. (1..k) \ {k} = 1..k - 1
    OBVIOUS
  <2>4. g[1..k] = Scan(g[(1..k) \ {Max(1..k)}], t[Max(1..k)])
    BY <1>1, <2>1, Zenon
  <2> QED BY <2>2, <2>3, <2>4, Zenon
<1> QED BY <1>2, <1>3

LEMMA ReadEmpty == ReadOf(<<>>) = Start
<1>1. <<>> \in Seq(Chars) /\ DOMAIN <<>> = {}
  OBVIOUS
<1>2. PICK h : Folding(h, <<>>)
  BY <1>1, FoldingExists
<1>3. PICK g : Folding(g, <<>>) /\ ReadOf(<<>>) = g[DOMAIN <<>>]
  BY <1>2, ReadChosen, Zenon
<1>4. g[{}] = Start
  BY <1>1, <1>3, FoldingIs
<1> QED BY <1>1, <1>3, <1>4, Zenon

LEMMA ReadAppend ==
  ASSUME NEW t \in Seq(Chars), NEW c \in Chars
  PROVE  ReadOf(Append(t, c)) = Scan(ReadOf(t), c)
<1> DEFINE u == Append(t, c)
           n == Len(t)
<1>1. /\ u \in Seq(Chars) /\ Len(u) = n + 1 /\ n \in Nat /\ u[n + 1] = c
      /\ DOMAIN t = 1..n /\ DOMAIN u = 1..n + 1
  OBVIOUS
<1>2. \A k \in 1..n : u[k] = t[k]
  OBVIOUS
<1> HIDE DEF u, n
<1>3. PICK g : Folding(g, t) /\ ReadOf(t) = g[1..n]
  <2>1. PICK h : Folding(h, t)
    BY FoldingExists
  <2>2. PICK g : Folding(g, t) /\ ReadOf(t) = g[DOMAIN t]
    BY <2>1, ReadChosen, Zenon
  <2> QED BY <1>1, <2>2, Zenon
<1>4. PICK h : Folding(h, u) /\ ReadOf(u) = h[1..n + 1]
  <2>1. PICK f : Folding(f, u)
    BY <1>1, FoldingExists
  <2>2. PICK h : Folding(h, u) /\ ReadOf(u) = h[DOMAIN u]
    BY <2>1, ReadChosen, Zenon
  <2> QED BY <1>1, <2>2, Zenon
<1>5. g[{}] = Start /\ \A k \in 1..n : g[1..k] = Scan(g[1..k - 1], t[k])
  BY <1>3, FoldingIs DEF n
<1>6. h[{}] = Start /\ \A k \in 1..n + 1 : h[1..k] = Scan(h[1..k - 1], u[k])
  BY <1>1, <1>4, FoldingIs
<1> DEFINE T == {k \in Nat : k <= n => h[1..k] = g[1..k]}
<1>7. 0 \in T
  <2>1. 1..0 = {}
    OBVIOUS
  <2> QED BY <1>5, <1>6, <2>1
<1>8. ASSUME NEW k \in T PROVE k + 1 \in T
  <2> SUFFICES ASSUME k + 1 <= n PROVE h[1..k + 1] = g[1..k + 1]
    OBVIOUS
  <2>1. k \in Nat /\ k + 1 \in 1..n /\ k + 1 \in 1..n + 1 /\ (k + 1) - 1 = k /\ h[1..k] = g[1..k]
    BY <1>1
  <2>2. h[1..k + 1] = Scan(h[1..(k + 1) - 1], u[k + 1])
    BY <1>6, <2>1, Zenon
  <2>3. g[1..k + 1] = Scan(g[1..(k + 1) - 1], t[k + 1])
    BY <1>5, <2>1, Zenon
  <2>4. u[k + 1] = t[k + 1]
    BY <1>2, <2>1
  <2> QED BY <2>1, <2>2, <2>3, <2>4, Zenon
<1>9. T = Nat
  <2>1. T \in SUBSET Nat
    OBVIOUS
  <2> HIDE DEF T
  <2> QED BY <1>7, <1>8, <2>1, Induction
<1>10. n \in T
  <2> HIDE DEF T
  <2> QED BY <1>1, <1>9
<1>11. h[1..n] = g[1..n]
  BY <1>1, <1>10
<1>12. n + 1 \in 1..n + 1 /\ (n + 1) - 1 = n
  BY <1>1
<1>13. h[1..n + 1] = Scan(h[1..(n + 1) - 1], u[n + 1])
  BY <1>6, <1>12, Zenon
<1> QED BY <1>1, <1>3, <1>4, <1>11, <1>12, <1>13, Zenon DEF u


-----------------------------------------------------------------------------
(* The scan of one header line: what is left of a text whose first blanks  *)
(* were skipped is the same when it is trimmed.                            *)

Skipped(p, b) ==
  \E i \in 0..Len(p) : (\A k \in 1..i : p[k] = "sp") /\ b = SubSeq(p, i + 1, Len(p))

LEMMA RestAppend ==
  ASSUME NEW p \in Seq(Chars), NEW i \in 0..Len(p), NEW c \in Chars
  PROVE  Append(SubSeq(p, i + 1, Len(p)), c) = SubSeq(Append(p, c), i + 1, Len(p) + 1)
<1> DEFINE q == Append(p, c)
           rest == SubSeq(p, i + 1, Len(p))
           u == Append(rest, c)
           v == SubSeq(q, i + 1, Len(p) + 1)
<1>1. i \in Nat /\ Len(p) \in Nat /\ i <= Len(p)
  OBVIOUS
<1>2. q \in Seq(Chars) /\ Len(q) = Len(p) + 1 /\ q[Len(p) + 1] = c /\ \A k \in 1..Len(p) : q[k] = p[k]
  OBVIOUS
<1>3. rest \in Seq(Chars) /\ Len(rest) = Len(p) - i /\ \A k \in 1..Len(p) - i : rest[k] = p[i + k]
  BY <1>1
<1> HIDE DEF q, rest
<1>4. v \in Seq(Chars) /\ Len(v) = Len(p) - i + 1 /\ \A k \in 1..Len(p) - i + 1 : v[k] = q[i + k]
  BY <1>1, <1>2
<1>5. /\ u \in Seq(Chars) /\ Len(u) = Len(p) - i + 1 /\ u[Len(p) - i + 1] = c
      /\ \A k \in 1..Len(p) - i : u[k] = rest[k]
  BY <1>1, <1>3
<1> HIDE DEF u, v
<1>6. \A k \in 1..Len(p) - i + 1 : u[k] = v[k]
  <2> TAKE k \in 1..Len(p) - i + 1
  <2>1. CASE k = Len(p) - i + 1
    BY <1>1, <1>2, <1>4, <1>5, <2>1
  <2>2. CASE k # Len(p) - i + 1
    <3>1. k \in 1..Len(p) - i /\ i + k \in 1..Len(p)
      BY <1>1, <2>2
    <3> QED BY <1>2, <1>3, <1>4, <1>5, <3>1
  <2> QED BY <2>1, <2>2
<1>7. u = v
  BY <1>1, <1>4, <1>5, <1>6
<1> QED BY <1>7 DEF u, v, q, rest

LEMMA SkippedGrows ==
  ASSUME NEW p \in Seq(Chars), NEW b \in Seq(Chars), Skipped(p, b), NEW c \in Chars
  PROVE  Skipped(Append(p, c), IF b = <<>> /\ c = "sp" THEN <<>> ELSE Append(b, c))
<1>1. PICK i \in 0..Len(p) : (\A k \in 1..i : p[k] = "sp") /\ b = SubSeq(p, i + 1, Len(p))
  BY DEF Skipped
<1> DEFINE q == Append(p, c)
<1>2. q \in Seq(Chars) /\ Len(q) = Len(p) + 1 /\ q[Len(p) + 1] = c /\ \A k \in 1..Len(p) : q[k] = p[k]
  OBVIOUS
<1>3. CASE b = <<>> /\ c = "sp"
  <2>1. i = Len(p)
    <3>1. Len(SubSeq(p, i + 1, Len(p))) = Len(p) - i
      OBVIOUS
    <3>2. Len(b) = 0 /\ Len(b) = Len(p) - i
      BY <1>1, <1>3, <3>1
    <3>3. i \in Nat /\ Len(p) \in Nat
      OBVIOUS
    <3> QED BY <3>2, <3>3
  <2>2. Len(q) \in 0..Len(q) /\ \A k \in 1..Len(q) : q[k] = "sp"
    BY <1>1, <1>2, <1>3, <2>1
  <2>3. <<>> = SubSeq(q, Len(q) + 1, Len(q))
    BY <1>2
  <2> QED BY <1>3, <2>2, <2>3 DEF Skipped
<1>4. CASE ~(b = <<>> /\ c = "sp")
  <2>1. i \in 0..Len(q) /\ \A k \in 1..i : q[k] = "sp"
    BY <1>1, <1>2
  <2>2. Append(b, c) = SubSeq(q, i + 1, Len(q))
    BY <1>1, <1>2, RestAppend
  <2> QED BY <1>4, <2>1, <2>2 DEF Skipped
<1> QED BY <1>3, <1>4

LEMMA SkippedNothing == Skipped(<<>>, <<>>)
BY DEF Skipped

\* The characters that Trim keeps.
Kept(s) == {n \in DOMAIN s : ~IsBlank(s[n])}

LEMMA TrimIs ==
  ASSUME NEW s \in Seq(Chars)
  PROVE  /\ Kept(s) = {} => Trim(s) = <<>>
         /\ \A m, n \in Kept(s) : (\A k \in Kept(s) : m <= k /\ k <= n) => Trim(s) = SubSeq(s, m, n)
         /\ Kept(s) # {} => \E m, n \in Kept(s) : \A k \in Kept(s) : m <= k /\ k <= n
<1>1. Trim(s) = IF Kept(s) = {} THEN <<>> ELSE SubSeq(s, Min(Kept(s)), Max(Kept(s)))
  BY DEF Trim, Kept
<1>2. Kept(s) \in SUBSET Nat /\ Kept(s) \in SUBSET (0..Len(s)) /\ Len(s) \in Nat
  BY DEF Kept
<1>3. ASSUME NEW m \in Kept(s), NEW n \in Kept(s), \A k \in Kept(s) : m <= k /\ k <= n
      PROVE  Trim(s) = SubSeq(s, m, n)
  <2>1. Min(Kept(s)) = m
    BY <1>2, <1>3, MinIs
  <2>2. Max(Kept(s)) = n
    BY <1>2, <1>3, MaxIs
  <2> QED BY <1>1, <2>1, <2>2
<1>4. ASSUME Kept(s) # {}
      PROVE  \E m, n \in Kept(s) : \A k \in Kept(s) : m <= k /\ k <= n
  <2>1. Min(Kept(s)) \in Kept(s) /\ \A k \in Kept(s) : Min(Kept(s)) <= k
    BY <1>2, <1>4, MinLeast
  <2>2. Max(Kept(s)) \in Kept(s) /\ \A k \in Kept(s) : Max(Kept(s)) >= k
    BY <1>2, <1>4, MaxGreatest
  <2>3. \A k \in Kept(s) : Min(Kept(s)) <= k /\ k <= Max(Kept(s))
    BY <1>2, <2>1, <2>2
  <2> QED BY <2>1, <2>2, <2>3
<1> QED BY <1>1, <1>3, <1>4

LEMMA TrimSkipped ==
  ASSUME NEW p \in Seq(Chars), NEW b, Skipped(p, b)
  PROVE  b \in Seq(Chars) /\ Trim(b) = Trim(p)
<1>1. PICK i \in 0..Len(p) : (\A k \in 1..i : p[k] = "sp") /\ b = SubSeq(p, i + 1, Len(p))
  BY DEF Skipped
<1>2. b \in Seq(Chars) /\ Len(b) = Len(p) - i /\ \A n \in 1..Len(b) : b[n] = p[n + i]
  BY <1>1
<1>3. \A n \in Nat : n \in Kept(b) <=> n + i \in Kept(p) /\ n >= 1
  BY <1>1, <1>2 DEF Kept, IsBlank
<1>4. \A n \in Kept(p) : n - i \in Kept(b) /\ n - i \in Nat /\ n \in Nat
  <2> TAKE n \in Kept(p)
  <2>1. n \in 1..Len(p) /\ ~IsBlank(p[n])
    BY DEF Kept
  <2>2. n \notin 1..i
    BY <1>1, <2>1 DEF IsBlank
  <2>3. n - i \in Nat /\ n - i >= 1 /\ (n - i) + i = n
    BY <2>1, <2>2
  <2> QED BY <1>3, <2>1, <2>3
<1>5. \A n \in Kept(b) : n \in Nat /\ n + i \in Kept(p)
  <2> TAKE n \in Kept(b)
  <2>1. n \in Nat
    BY <1>2 DEF Kept
  <2> QED BY <1>3, <2>1
<1>6. CASE Kept(p) = {}
  BY <1>2, <1>5, <1>6, TrimIs
<1>7. CASE Kept(p) # {}
  <2>1. PICK m, n \in Kept(p) : \A k \in Kept(p) : m <= k /\ k <= n
    BY <1>7, TrimIs
  <2>2. m - i \in Kept(b) /\ n - i \in Kept(b) /\ m \in 1..Len(p) /\ n \in 1..Len(p)
    BY <1>4 DEF Kept
  <2>3. \A k \in Kept(b) : m - i <= k /\ k <= n - i
    BY <1>5, <2>1, <2>2
  <2>4. Trim(p) = SubSeq(p, m, n)
    BY <2>1, TrimIs
  <2>5. Trim(b) = SubSeq(b, m - i, n - i)
    BY <1>2, <2>2, <2>3, TrimIs
  <2>6. m - i \in 1..Len(b) /\ n - i \in 1..Len(b)
    BY <2>2 DEF Kept
  <2>7. SubSeq(b, m - i, n - i) = SubSeq(p, m, n)
    BY <1>1, <1>2, <2>2, <2>6
  <2> QED BY <1>2, <2>4, <2>5, <2>7
<1> QED BY <1>6, <1>7

\* The states in a name and in a value, of which b was read.
InName(h, b, at) ==
  [headers |-> h, at |-> at, key |-> <<>>, buf |-> b, in_key |-> TRUE, skip |-> (b = <<>>)]
InValue(h, k, b) ==
  [headers |-> h, at |-> "line", key |-> k, buf |-> b, in_key |-> FALSE, skip |-> (b = <<>>)]
Grown(b, c) == IF b = <<>> /\ c = "sp" THEN <<>> ELSE Append(b, c)

LEMMA GrownType ==
  ASSUME NEW b \in Seq(Chars), NEW c \in Chars
  PROVE  Grown(b, c) \in Seq(Chars)
BY DEF Grown

LEMMA ScanName ==
  ASSUME NEW h, NEW b \in Seq(Chars), NEW at \in {"begin", "line"}, NEW c \in Chars, c # "cr", c # ":"
  PROVE  Scan(InName(h, b, at), c) = InName(h, Grown(b, c), "line")
<1>1. Append(b, c) # <<>>
  OBVIOUS
<1>2. CASE b = <<>> /\ c = "sp"
  BY <1>2 DEF Scan, InName, Grown
<1>3. CASE ~(b = <<>> /\ c = "sp")
  BY <1>1, <1>3 DEF Scan, InName, Grown
<1> QED BY <1>2, <1>3

LEMMA ScanColon ==
  ASSUME NEW h, NEW b \in Seq(Chars), b # <<>>, NEW at \in {"begin", "line"}
  PROVE  Scan(InName(h, b, at), ":") = InValue(h, b, <<>>)
BY DEF Scan, InName, InValue

LEMMA ScanValue ==
  ASSUME NEW h, NEW k, NEW b \in Seq(Chars), NEW c \in Chars, c # "cr"
  PROVE  Scan(InValue(h, k, b), c) = InValue(h, k, Grown(b, c))
<1>1. Append(b, c) # <<>>
  OBVIOUS
<1>2. CASE b = <<>> /\ c = "sp"
  BY <1>2 DEF Scan, InValue, Grown
<1>3. CASE ~(b = <<>> /\ c = "sp")
  BY <1>1, <1>3 DEF Scan, InValue, Grown
<1> QED BY <1>2, <1>3

LEMMA ScanLineEnd ==
  ASSUME NEW h, NEW k, NEW b
  PROVE  Scan(Scan(InValue(h, k, b), "cr"), "lf") = NewLine(Put(h, Trim(k), Trim(b)), "begin")
<1>1. Scan(InValue(h, k, b), "cr") = NewLine(Put(h, Trim(k), Trim(b)), "lf")
  BY DEF Scan, InValue
<1>2. \A g : Scan(NewLine(g, "lf"), "lf") = NewLine(g, "begin")
  BY DEF Scan, NewLine
<1> QED BY <1>1, <1>2

\* A text that goes on, character by character.
LEMMA PrefixGrows ==
  ASSUME NEW s \in Seq(Chars), NEW p \in Seq(Chars), NEW k \in Nat, k + 1 <= Len(p)
  PROVE  /\ SubSeq(p, 1, k + 1) = Append(SubSeq(p, 1, k), p[k + 1]) /\ p[k + 1] \in Chars
         /\ SubSeq(p, 1, k) \in Seq(Chars) /\ s \o SubSeq(p, 1, k) \in Seq(Chars)
         /\ s \o SubSeq(p, 1, k + 1) = Append(s \o SubSeq(p, 1, k), p[k + 1])
<1>1. k + 1 \in 1..Len(p) /\ SubSeq(p, 1, k) \in Seq(Chars)
  OBVIOUS
<1>2. SubSeq(p, 1, k + 1) = Append(SubSeq(p, 1, k), p[k + 1])
  BY <1>1
<1> DEFINE q == SubSeq(p, 1, k)
<1>3. q \in Seq(Chars) /\ p[k + 1] \in Chars /\ SubSeq(p, 1, k + 1) = Append(q, p[k + 1])
  BY <1>1, <1>2
<1> HIDE DEF q
<1>4. s \o Append(q, p[k + 1]) = Append(s \o q, p[k + 1]) /\ s \o q \in Seq(Chars)
  BY <1>3
<1> QED BY <1>3, <1>4 DEF q

LEMMA PrefixEnds ==
  ASSUME NEW s \in Seq(Chars), NEW p \in Seq(Chars)
  PROVE  SubSeq(p, 1, 0) = <<>> /\ s \o <<>> = s /\ SubSeq(p, 1, Len(p)) = p /\ Len(p) \in Nat
OBVIOUS

\* The name, up to the ":".
NameRead(s, h, p) ==
  \E b \in Seq(Chars), at \in {"begin", "line"} : Skipped(p, b) /\ ReadOf(s \o p) = InName(h, b, at)

LEMMA ReadName ==
  ASSUME NEW s \in Seq(Chars), NEW h, ReadOf(s) = NewLine(h, "begin"),
         NEW p \in Seq(Chars), \A k \in 1..Len(p) : p[k] # "cr" /\ p[k] # ":"
  PROVE  NameRead(s, h, p)
<1> DEFINE T == {k \in Nat : k <= Len(p) => NameRead(s, h, SubSeq(p, 1, k))}
<1>1. 0 \in T
  <2>1. NewLine(h, "begin") = InName(h, <<>>, "begin")
    BY DEF NewLine, InName
  <2>2. NameRead(s, h, <<>>)
    <3>1. <<>> \in Seq(Chars) /\ ReadOf(s \o <<>>) = InName(h, <<>>, "begin")
      BY <2>1, PrefixEnds
    <3> QED BY <3>1, SkippedNothing DEF NameRead
  <2>3. SubSeq(p, 1, 0) = <<>>
    BY PrefixEnds
  <2> QED BY <2>2, <2>3
<1>2. ASSUME NEW k \in T PROVE k + 1 \in T
  <2> SUFFICES ASSUME k + 1 <= Len(p) PROVE NameRead(s, h, SubSeq(p, 1, k + 1))
    OBVIOUS
  <2> DEFINE q == SubSeq(p, 1, k)
             c == p[k + 1]
  <2>1. k \in Nat /\ NameRead(s, h, q) /\ c # "cr" /\ c # ":"
    OBVIOUS
  <2>2. /\ SubSeq(p, 1, k + 1) = Append(q, c) /\ c \in Chars /\ q \in Seq(Chars)
        /\ s \o q \in Seq(Chars) /\ s \o SubSeq(p, 1, k + 1) = Append(s \o q, c)
    BY <2>1, PrefixGrows
  <2> HIDE DEF q, c, T
  <2>3. PICK b \in Seq(Chars), at \in {"begin", "line"} :
               Skipped(q, b) /\ ReadOf(s \o q) = InName(h, b, at)
    BY <2>1 DEF NameRead
  <2>4. ReadOf(Append(s \o q, c)) = Scan(ReadOf(s \o q), c)
    BY <2>2, ReadAppend
  <2>5. Scan(InName(h, b, at), c) = InName(h, Grown(b, c), "line")
    BY <2>1, <2>2, ScanName
  <2>6. Skipped(Append(q, c), Grown(b, c)) /\ Grown(b, c) \in Seq(Chars)
    BY <2>2, <2>3, SkippedGrows, GrownType DEF Grown
  <2>7. ReadOf(s \o SubSeq(p, 1, k + 1)) = InName(h, Grown(b, c), "line")
    BY <2>2, <2>3, <2>4, <2>5
  <2> QED BY <2>2, <2>6, <2>7 DEF NameRead
<1>3. T = Nat
  <2>1. T \in SUBSET Nat
    OBVIOUS
  <2> HIDE DEF T
  <2> QED BY <1>1, <1>2, <2>1, Induction
<1>4. NameRead(s, h, SubSeq(p, 1, Len(p)))
  BY <1>3, PrefixEnds
<1> QED BY <1>4, PrefixEnds

\* The value, up to the line end.
ValueRead(s, h, k, p) ==
  \E b \in Seq(Chars) : Skipped(p, b) /\ ReadOf(s \o p) = InValue(h, k, b)

LEMMA ReadValue ==
  ASSUME NEW s \in Seq(Chars), NEW h, NEW key, ReadOf(s) = InValue(h, key, <<>>),
         NEW p \in Seq(Chars), \A k \in 1..Len(p) : p[k] # "cr"
  PROVE  ValueRead(s, h, key, p)
<1> DEFINE T == {k \in Nat : k <= Len(p) => ValueRead(s, h, key, SubSeq(p, 1, k))}
<1>1. 0 \in T
  <2>1. ValueRead(s, h, key, <<>>)
    <3>1. <<>> \in Seq(Chars) /\ ReadOf(s \o <<>>) = InValue(h, key, <<>>)
      BY PrefixEnds
    <3> QED BY <3>1, SkippedNothing DEF ValueRead
  <2>2. SubSeq(p, 1, 0) = <<>>
    BY PrefixEnds
  <2> QED BY <2>1, <2>2
<1>2. ASSUME NEW k \in T PROVE k + 1 \in T
  <2> SUFFICES ASSUME k + 1 <= Len(p) PROVE ValueRead(s, h, key, SubSeq(p, 1, k + 1))
    OBVIOUS
  <2> DEFINE q == SubSeq(p, 1, k)
             c == p[k + 1]
  <2>1. k \in Nat /\ ValueRead(s, h, key, q) /\ c # "cr"
    OBVIOUS
  <2>2. /\ SubSeq(p, 1, k + 1) = Append(q, c) /\ c \in Chars /\ q \in Seq(Chars)
        /\ s \o q \in Seq(Chars) /\ s \o SubSeq(p, 1, k + 1) = Append(s \o q, c)
    BY <2>1, PrefixGrows
  <2> HIDE DEF q, c, T
  <2>3. PICK b \in Seq(Chars) : Skipped(q, b) /\ ReadOf(s \o q) = InValue(h, key, b)
    BY <2>1 DEF ValueRead
  <2>4. ReadOf(Append(s \o q, c)) = Scan(ReadOf(s \o q), c)
    BY <2>2, ReadAppend
  <2>5. Scan(InValue(h, key, b), c) = InValue(h, key, Grown(b, c))
    BY <2>1, <2>2, ScanValue
  <2>6. Skipped(Append(q, c), Grown(b, c)) /\ Grown(b, c) \in Seq(Chars)
    BY <2>2, <2>3, SkippedGrows, GrownType DEF Grown
  <2>7. ReadOf(s \o SubSeq(p, 1, k + 1)) = InValue(h, key, Grown(b, c))
    BY <2>2, <2>3, <2>4, <2>5
  <2> QED BY <2>2, <2>6, <2>7 DEF ValueRead
<1>3. T = Nat
  <2>1. T \in SUBSET Nat
    OBVIOUS
  <2> HIDE DEF T
  <2> QED BY <1>1, <1>2, <2>1, Induction
<1>4. ValueRead(s, h, key, SubSeq(p, 1, Len(p)))
  BY <1>3, PrefixEnds
<1> QED BY <1>4, PrefixEnds

\* The types of a header line.
HeaderLines == Seq(InLine \ {":"}) \X Seq(InLine)

LEMMA LineType ==
  ASSUME NEW line \in HeaderLines
  PROVE  /\ line[1] \in Seq(Chars) /\ \A k \in 1..Len(line[1]) : line[1][k] # "cr" /\ line[1][k] # ":"
         /\ line[2] \in Seq(Chars) /\ \A k \in 1..Len(line[2]) : line[2][k] # "cr"
         /\ {"cr", "lf", ":"} \subseteq Chars
BY ProxyAssumption DEF HeaderLines, InLine

LEMMA HeaderLineIs ==
  ASSUME NEW line \in HeaderLines
  PROVE  HeaderLine(line) = Append(Append(Append(line[1], ":") \o line[2], "cr"), "lf")
<1> DEFINE n == line[1]
           v == line[2]
           x == Append(n, ":")
           y == x \o v
<1>1. n \in Seq(Chars) /\ v \in Seq(Chars) /\ {"cr", "lf", ":"} \subseteq Chars
  BY LineType
<1> HIDE DEF n, v
<1>2. x = n \o <<":">> /\ x \in Seq(Chars)
  BY <1>1
<1>3. y \in Seq(Chars)
  BY <1>1, <1>2
<1> HIDE DEF x
<1>4. HeaderLine(line) = y \o <<"cr", "lf">>
  BY <1>2 DEF HeaderLine, CrLf, n, v
<1> HIDE DEF y
<1>5. y \o <<"cr", "lf">> = Append(Append(y, "cr"), "lf")
  BY <1>1, <1>3
<1> QED BY <1>4, <1>5 DEF y, x, n, v

LEMMA AppendJoined ==
  ASSUME NEW s \in Seq(Chars), NEW u \in Seq(Chars), NEW c \in Chars
  PROVE  s \o Append(u, c) = Append(s \o u, c) /\ Append(u, c) \in Seq(Chars)
OBVIOUS

LEMMA ReadLine ==
  ASSUME NEW s \in Seq(Chars), NEW h, ReadOf(s) = NewLine(h, "begin"),
         NEW line \in HeaderLines, Trim(line[1]) # <<>>
  PROVE  ReadOf(s \o HeaderLine(line)) = NewLine(Put(h, Trim(line[1]), Trim(line[2])), "begin")
<1> DEFINE n == line[1]
           v == line[2]
           x == s \o n
           y == Append(x, ":") \o v
<1>1. /\ n \in Seq(Chars) /\ \A k \in 1..Len(n) : n[k] # "cr" /\ n[k] # ":"
      /\ v \in Seq(Chars) /\ \A k \in 1..Len(v) : v[k] # "cr"
      /\ "cr" \in Chars /\ "lf" \in Chars /\ ":" \in Chars
  BY LineType
<1>2. s \o HeaderLine(line) = Append(Append(y, "cr"), "lf")
  <2> DEFINE z == Append(n, ":")
             u == z \o v
  <2>1. HeaderLine(line) = Append(Append(u, "cr"), "lf")
    BY HeaderLineIs
  <2> HIDE DEF n, v
  <2>2. z \in Seq(Chars) /\ s \o z = Append(x, ":")
    BY <1>1, AppendJoined
  <2>3. s \o u = y /\ u \in Seq(Chars)
    <3> HIDE DEF z
    <3>1. \A a, b, c \in Seq(Chars) : a \o (b \o c) = (a \o b) \o c
      BY Regroup
    <3>2. s \o (z \o v) = (s \o z) \o v
      BY <1>1, <2>2, <3>1, Zenon
    <3> QED BY <1>1, <2>2, <3>2
  <2> HIDE DEF u
  <2>4. s \o Append(Append(u, "cr"), "lf") = Append(Append(s \o u, "cr"), "lf")
    <3>1. s \o Append(u, "cr") = Append(s \o u, "cr") /\ Append(u, "cr") \in Seq(Chars)
      BY <1>1, <2>3, AppendJoined
    <3>2. s \o Append(Append(u, "cr"), "lf") = Append(s \o Append(u, "cr"), "lf")
      BY <1>1, <3>1, AppendJoined
    <3> QED BY <3>1, <3>2, Zenon
  <2> QED BY <2>1, <2>3, <2>4
<1> HIDE DEF n, v
<1>3. x \in Seq(Chars) /\ Append(x, ":") \in Seq(Chars) /\ y \in Seq(Chars) /\ Append(y, "cr") \in Seq(Chars)
  BY <1>1
<1>4. PICK b \in Seq(Chars), at \in {"begin", "line"} : Skipped(n, b) /\ ReadOf(x) = InName(h, b, at)
  BY <1>1, ReadName DEF NameRead
<1>5. Trim(b) = Trim(n)
  BY <1>1, <1>4, TrimSkipped
<1>6. b # <<>>
  <2>1. Trim(<<>>) = <<>>
    BY DEF Trim
  <2> QED BY <1>5, <2>1 DEF n
<1> HIDE DEF x
<1>7. ReadOf(Append(x, ":")) = InValue(h, b, <<>>)
  BY <1>1, <1>3, <1>4, <1>6, ReadAppend, ScanColon
<1>8. PICK w \in Seq(Chars) : Skipped(v, w) /\ ReadOf(y) = InValue(h, b, w)
  <2>1. ValueRead(Append(x, ":"), h, b, v)
    BY <1>1, <1>3, <1>7, ReadValue
  <2> QED BY <2>1 DEF ValueRead
<1>9. Trim(w) = Trim(v)
  BY <1>1, <1>8, TrimSkipped
<1> HIDE DEF y
<1>10. ReadOf(Append(Append(y, "cr"), "lf")) = Scan(Scan(InValue(h, b, w), "cr"), "lf")
  <2>1. ReadOf(Append(y, "cr")) = Scan(ReadOf(y), "cr")
    BY <1>1, <1>3, ReadAppend
  <2>2. ReadOf(Append(Append(y, "cr"), "lf")) = Scan(ReadOf(Append(y, "cr")), "lf")
    BY <1>1, <1>3, ReadAppend
  <2> QED BY <1>8, <2>1, <2>2
<1>11. Scan(Scan(InValue(h, b, w), "cr"), "lf") = NewLine(Put(h, Trim(b), Trim(w)), "begin")
  BY ScanLineEnd
<1> QED BY <1>2, <1>5, <1>9, <1>10, <1>11 DEF n, v

-----------------------------------------------------------------------------
(* The header lines of a message: no blank line is among them, and the     *)
(* scan stores of each name the value that it has last.                    *)

HeadOf(lines) == FlattenSeq([n \in DOMAIN lines |-> HeaderLine(lines[n])])

\* Each "cr" ends a line, and no line is empty.
NoBlankLine(x) ==
  /\ x \in Seq(Chars)
  /\ \A p \in 1..Len(x) :
       x[p] = "cr" => p + 1 <= Len(x) /\ x[p + 1] # "cr" /\ (p + 2 <= Len(x) => x[p + 2] # "cr")
  /\ x # <<>> => Len(x) >= 2 /\ x[1] # "cr" /\ x[Len(x) - 1] = "cr" /\ x[Len(x)] = "lf"

Stored(h, lines) ==
  /\ DOMAIN h = {Trim(lines[n][1]) : n \in 1..Len(lines)}
  /\ \A n \in 1..Len(lines) :
       (\A k \in n + 1..Len(lines) : Trim(lines[k][1]) # Trim(lines[n][1])) =>
         h[Trim(lines[n][1])] = Trim(lines[n][2])

LEMMA HeaderLinePlaces ==
  ASSUME NEW line \in HeaderLines, line[1] # <<>>
  PROVE  LET x == HeaderLine(line)
             n == Len(line[1]) + Len(line[2]) + 1
         IN  /\ x \in Seq(Chars) /\ n \in Nat /\ n >= 1 /\ Len(x) = n + 2
             /\ \A k \in 1..n : x[k] # "cr"
             /\ x[n + 1] = "cr" /\ x[n + 2] = "lf"
<1> DEFINE a == line[1]
           v == line[2]
           c == Append(a, ":")
           y == c \o v
           n == Len(a) + Len(v) + 1
           x == Append(Append(y, "cr"), "lf")
<1>1. a \in Seq(Chars) /\ v \in Seq(Chars) /\ a # <<>> /\ {"cr", "lf", ":"} \subseteq Chars
  BY LineType
<1>2. (\A k \in 1..Len(a) : a[k] # "cr") /\ (\A k \in 1..Len(v) : v[k] # "cr")
  BY LineType
<1>3. HeaderLine(line) = x
  BY HeaderLineIs
<1> HIDE DEF a, v
<1>4. c \in Seq(Chars) /\ Len(c) = Len(a) + 1 /\ c[Len(a) + 1] = ":" /\ \A k \in 1..Len(a) : c[k] = a[k]
  BY <1>1, SMTT(30)
<1> HIDE DEF c
<1>5. y \in Seq(Chars) /\ Len(y) = Len(c) + Len(v)
  BY <1>1, <1>4, SMTT(30)
<1>6. \A k \in 1..Len(c) : y[k] = c[k]
  BY <1>1, <1>4, SMTT(30)
<1>7. \A k \in Len(c) + 1..Len(c) + Len(v) : y[k] = v[k - Len(c)]
  BY <1>1, <1>4, SMTT(30)
<1> HIDE DEF y
<1>8. n \in Nat /\ n >= 1 /\ Len(y) = n
  BY <1>1, <1>4, <1>5
<1>9. \A k \in 1..n : y[k] # "cr"
  <2> TAKE k \in 1..n
  <2>1. CASE k \in 1..Len(a)
    BY <1>1, <1>2, <1>4, <1>6, <2>1
  <2>2. CASE k = Len(a) + 1
    BY <1>1, <1>4, <1>6, <2>2
  <2>3. CASE k > Len(a) + 1
    <3>1. k \in Len(c) + 1..Len(c) + Len(v) /\ k - Len(c) \in 1..Len(v)
      BY <1>1, <1>4, <2>3
    <3> QED BY <1>2, <1>7, <3>1
  <2> QED BY <1>1, <2>1, <2>2, <2>3
<1> HIDE DEF n
<1>10. /\ x \in Seq(Chars) /\ Len(x) = n + 2 /\ x[n + 1] = "cr" /\ x[n + 2] = "lf"
       /\ \A k \in 1..n : x[k] = y[k]
  BY <1>1, <1>5, <1>8
<1> HIDE DEF x
<1>11. \A k \in 1..n : x[k] # "cr"
  BY <1>9, <1>10
<1>12. n = Len(line[1]) + Len(line[2]) + 1
  BY DEF n, a, v
<1> QED BY <1>3, <1>8, <1>10, <1>11, <1>12

LEMMA LineAppends ==
  ASSUME NEW x, NoBlankLine(x), NEW line \in HeaderLines, line[1] # <<>>
  PROVE  NoBlankLine(x \o HeaderLine(line))
<1> DEFINE l == HeaderLine(line)
           n == Len(line[1]) + Len(line[2]) + 1
           m == Len(x)
           y == x \o l
<1>1. /\ l \in Seq(Chars) /\ n \in Nat /\ n >= 1 /\ Len(l) = n + 2
      /\ \A k \in 1..n : l[k] # "cr"
      /\ l[n + 1] = "cr" /\ l[n + 2] = "lf"
  BY HeaderLinePlaces
<1> HIDE DEF l, n
<1>2. /\ y \in Seq(Chars) /\ m \in Nat /\ Len(y) = m + n + 2
      /\ \A k \in 1..m : y[k] = x[k]
      /\ \A k \in 1..n + 2 : y[m + k] = l[k]
  BY <1>1 DEF NoBlankLine
<1> HIDE DEF y
<1>3. ASSUME NEW p \in 1..Len(y), y[p] = "cr"
      PROVE  p + 1 <= Len(y) /\ y[p + 1] # "cr" /\ (p + 2 <= Len(y) => y[p + 2] # "cr")
  <2>1. CASE p \in 1..m
    <3>1. x[p] = "cr" /\ p + 1 <= m /\ x[p + 1] # "cr" /\ (p + 2 <= m => x[p + 2] # "cr")
      BY <1>2, <1>3, <2>1 DEF NoBlankLine
    <3>2. y[p + 1] # "cr"
      BY <1>2, <2>1, <3>1
    <3>3. p + 2 <= m => y[p + 2] # "cr"
      BY <1>2, <2>1, <3>1
    <3>4. p + 2 > m => y[p + 2] # "cr"
      <4> SUFFICES ASSUME p + 2 > m PROVE y[p + 2] # "cr"
        OBVIOUS
      <4>1. p + 2 = m + 1 /\ 1 \in 1..n /\ 1 \in 1..n + 2
        BY <1>1, <1>2, <2>1, <3>1
      <4> QED BY <1>1, <1>2, <4>1
    <3> QED BY <1>1, <1>2, <2>1, <3>1, <3>2, <3>3, <3>4
  <2>2. CASE p \notin 1..m
    <3> DEFINE k == p - m
    <3>1. k \in 1..n + 2 /\ p = m + k
      BY <1>1, <1>2, <2>2
    <3>2. l[k] = "cr"
      BY <1>2, <1>3, <3>1
    <3>3. k = n + 1
      BY <1>1, <3>1, <3>2
    <3>4. y[m + (n + 2)] = "lf" /\ p + 1 = m + (n + 2) /\ Len(y) = p + 1
      BY <1>1, <1>2, <3>1, <3>3
    <3> QED BY <1>2, <3>4
  <2> QED BY <2>1, <2>2
<1>4. Len(y) >= 2 /\ y[1] # "cr" /\ y[Len(y) - 1] = "cr" /\ y[Len(y)] = "lf"
  <2>1. y[m + (n + 1)] = "cr" /\ y[m + (n + 2)] = "lf" /\ m + (n + 1) = Len(y) - 1 /\ m + (n + 2) = Len(y)
    BY <1>1, <1>2
  <2>2. CASE m = 0
    <3>1. y[m + 1] = l[1] /\ l[1] # "cr" /\ m + 1 = 1
      BY <1>1, <1>2, <2>2
    <3> QED BY <1>1, <1>2, <2>1, <3>1
  <2>3. CASE m # 0
    <3>1. x # <<>> /\ 1 \in 1..m
      BY <1>2, <2>3
    <3>2. y[1] = x[1] /\ x[1] # "cr"
      BY <1>2, <3>1 DEF NoBlankLine
    <3> QED BY <1>1, <1>2, <2>1, <3>2
  <2> QED BY <2>2, <2>3
<1> QED BY <1>2, <1>3, <1>4 DEF NoBlankLine, y, l

LEMMA StoredAppends ==
  ASSUME NEW lines \in Seq(HeaderLines), NEW h, Stored(h, lines), NEW line \in HeaderLines
  PROVE  Stored(Put(h, Trim(line[1]), Trim(line[2])), Append(lines, line))
<1> DEFINE a == Trim(line[1])
           v == Trim(line[2])
           g == Put(h, a, v)
           more == Append(lines, line)
           N == Len(lines)
<1>1. /\ DOMAIN g = {a} \cup DOMAIN h
      /\ g[a] = v /\ \A x \in DOMAIN h : x # a => g[x] = h[x]
  BY DEF Put
<1>2. /\ N \in Nat /\ Len(more) = N + 1 /\ more[N + 1] = line
      /\ \A n \in 1..N : more[n] = lines[n]
  OBVIOUS
<1>3. Trim(more[N + 1][1]) = a /\ Trim(more[N + 1][2]) = v
  BY <1>2
<1> HIDE DEF a, v, g, more, N
<1>4. DOMAIN h = {Trim(lines[n][1]) : n \in 1..N}
  BY DEF Stored, N
<1>5. DOMAIN g = {Trim(more[n][1]) : n \in 1..N + 1}
  <2>1. \A n \in 1..N + 1 : n \in 1..N \/ n = N + 1
    BY <1>2
  <2>2. \A n \in 1..N : n \in 1..N + 1
    BY <1>2
  <2>3. N + 1 \in 1..N + 1
    BY <1>2
  <2> QED BY <1>1, <1>2, <1>3, <1>4, <2>1, <2>2, <2>3
<1>6. ASSUME NEW n \in 1..N + 1, \A k \in n + 1..N + 1 : Trim(more[k][1]) # Trim(more[n][1])
      PROVE  g[Trim(more[n][1])] = Trim(more[n][2])
  <2>1. CASE n = N + 1
    BY <1>1, <1>3, <2>1
  <2>2. CASE n # N + 1
    <3>1. n \in 1..N /\ more[n] = lines[n] /\ N + 1 \in n + 1..N + 1
      BY <1>2, <2>2
    <3>2. Trim(lines[n][1]) # a
      BY <1>3, <1>6, <3>1
    <3>3. \A k \in n + 1..N : Trim(lines[k][1]) # Trim(lines[n][1])
      <4> TAKE k \in n + 1..N
      <4>1. k \in 1..N /\ k \in n + 1..N + 1 /\ more[k] = lines[k]
        BY <1>2, <3>1
      <4> QED BY <1>6, <3>1, <4>1
    <3>4. h[Trim(lines[n][1])] = Trim(lines[n][2])
      BY <3>1, <3>3 DEF Stored, N
    <3>5. Trim(lines[n][1]) \in DOMAIN h
      BY <1>4, <3>1
    <3> QED BY <1>1, <3>1, <3>2, <3>4, <3>5
  <2> QED BY <2>1, <2>2
<1>7. Len(more) = N + 1
  BY <1>2
<1> QED BY <1>5, <1>6, <1>7 DEF Stored, g, a, v, more

\* What was read of the first header lines.
HeadRead(lines) ==
  /\ NoBlankLine(HeadOf(lines))
  /\ \E h : ReadOf(HeadOf(lines)) = NewLine(h, "begin") /\ Stored(h, lines)

LEMMA HeadOfGrows ==
  ASSUME NEW lines \in Seq(HeaderLines), NEW line \in HeaderLines,
         \A n \in 1..Len(lines) : lines[n][1] # <<>>, line[1] # <<>>
  PROVE  HeadOf(Append(lines, line)) = HeadOf(lines) \o HeaderLine(line)
<1> DEFINE e == [n \in DOMAIN lines |-> HeaderLine(lines[n])]
           more == Append(lines, line)
           f == [n \in DOMAIN more |-> HeaderLine(more[n])]
           N == Len(lines)
<1>1. /\ N \in Nat /\ Len(more) = N + 1 /\ more[N + 1] = line /\ more \in Seq(HeaderLines)
      /\ \A n \in 1..N : more[n] = lines[n]
  OBVIOUS
<1>2. /\ DOMAIN lines = 1..N /\ DOMAIN more = 1..N + 1
  OBVIOUS
<1>3. \A n \in 1..N + 1 : more[n] \in HeaderLines /\ more[n][1] # <<>>
  <2> TAKE n \in 1..N + 1
  <2>1. more[n] \in HeaderLines
    BY <1>1
  <2>2. CASE n = N + 1
    BY <1>1, <2>1, <2>2
  <2>3. CASE n # N + 1
    <3>1. n \in 1..N /\ more[n] = lines[n]
      BY <1>1, <2>3
    <3> QED BY <2>1, <3>1
  <2> QED BY <2>2, <2>3
<1> HIDE DEF more, N
<1>4. \A n \in 1..N + 1 : HeaderLine(more[n]) \in Seq(Chars)
  BY <1>3, HeaderLinePlaces
<1>5. f \in Seq(Seq(Chars)) /\ Len(f) = N + 1
  <2>1. f = [n \in 1..N + 1 |-> HeaderLine(more[n])] /\ N + 1 \in Nat
    BY <1>1, <1>2
  <2> QED BY <1>4, <2>1
<1>6. e \in Seq(Seq(Chars)) /\ Len(e) = N
  <2>1. e = [n \in 1..N |-> HeaderLine(more[n])] /\ N \in Nat
    BY <1>1, <1>2
  <2>2. \A n \in 1..N : HeaderLine(more[n]) \in Seq(Chars)
    BY <1>1, <1>4
  <2> HIDE DEF e
  <2> QED BY <2>1, <2>2
<1>7. \A n \in 1..N : e[n] = f[n]
  BY <1>1, <1>2
<1>8. f[N + 1] = HeaderLine(line)
  BY <1>1, <1>2
<1> HIDE DEF e, f
<1>9. FlattenSeq(f) = FlattenSeq(e) \o f[Len(f)]
  BY <1>1, <1>5, <1>6, <1>7, FlattenLast
<1> QED BY <1>5, <1>8, <1>9 DEF HeadOf, e, f, more

LEMMA HeadOfMessage ==
  ASSUME NEW lines \in Seq(HeaderLines), \A n \in 1..Len(lines) : Trim(lines[n][1]) # <<>>
  PROVE  HeadRead(lines)
<1>1. \A n \in 1..Len(lines) : lines[n] \in HeaderLines /\ lines[n][1] # <<>>
  <2>1. Trim(<<>>) = <<>>
    BY DEF Trim
  <2> QED BY <2>1
<1> DEFINE T == {k \in Nat : k <= Len(lines) => HeadRead(SubSeq(lines, 1, k))}
<1>2. 0 \in T
  <2>1. SubSeq(lines, 1, 0) = <<>> /\ HeadOf(<<>>) = <<>>
    BY FlattenEmpty DEF HeadOf
  <2>2. NoBlankLine(<<>>)
    BY DEF NoBlankLine
  <2>3. ReadOf(<<>>) = NewLine(<<>>, "begin")
    BY ReadEmpty DEF Start
  <2>4. Stored(<<>>, <<>>)
    BY DEF Stored
  <2> QED BY <2>1, <2>2, <2>3, <2>4 DEF HeadRead
<1>3. ASSUME NEW k \in T PROVE k + 1 \in T
  <2> SUFFICES ASSUME k + 1 <= Len(lines) PROVE HeadRead(SubSeq(lines, 1, k + 1))
    OBVIOUS
  <2> DEFINE some == SubSeq(lines, 1, k)
             line == lines[k + 1]
  <2>1. k \in Nat /\ HeadRead(some) /\ k + 1 \in 1..Len(lines)
    OBVIOUS
  <2>2. /\ some \in Seq(HeaderLines) /\ Len(some) = k /\ \A n \in 1..k : some[n] = lines[n]
        /\ SubSeq(lines, 1, k + 1) = Append(some, line)
    BY <2>1
  <2>3. line \in HeaderLines /\ line[1] # <<>> /\ Trim(line[1]) # <<>>
    BY <1>1, <2>1
  <2>4. \A n \in 1..Len(some) : some[n][1] # <<>>
    BY <1>1, <2>1, <2>2
  <2> HIDE DEF some, line, T
  <2>5. HeadOf(Append(some, line)) = HeadOf(some) \o HeaderLine(line)
    BY <2>2, <2>3, <2>4, HeadOfGrows
  <2>6. PICK h : ReadOf(HeadOf(some)) = NewLine(h, "begin") /\ Stored(h, some)
    BY <2>1 DEF HeadRead
  <2>7. NoBlankLine(HeadOf(some)) /\ HeadOf(some) \in Seq(Chars)
    BY <2>1 DEF HeadRead, NoBlankLine
  <2>8. NoBlankLine(HeadOf(Append(some, line)))
    BY <2>3, <2>5, <2>7, LineAppends
  <2>9. ReadOf(HeadOf(Append(some, line))) = NewLine(Put(h, Trim(line[1]), Trim(line[2])), "begin")
    BY <2>3, <2>5, <2>6, <2>7, ReadLine
  <2>10. Stored(Put(h, Trim(line[1]), Trim(line[2])), Append(some, line))
    BY <2>2, <2>3, <2>6, StoredAppends
  <2> QED BY <2>2, <2>8, <2>9, <2>10 DEF HeadRead
<1>4. T = Nat
  <2>1. T \in SUBSET Nat
    OBVIOUS
  <2> HIDE DEF T
  <2> QED BY <1>2, <1>3, <2>1, Induction
<1>5. HeadRead(SubSeq(lines, 1, Len(lines))) /\ SubSeq(lines, 1, Len(lines)) = lines
  BY <1>4
<1> QED BY <1>5

-----------------------------------------------------------------------------
(* The text of a message, by positions.                                    *)

Joined(t, u, v) ==
  /\ t \in Seq(Chars) /\ Len(t) = Len(u) + Len(v)
  /\ \A k \in 1..Len(u) : t[k] = u[k]
  /\ \A k \in 1..Len(v) : t[Len(u) + k] = v[k]

LEMMA JoinedPlaces ==
  ASSUME NEW u \in Seq(Chars), NEW v \in Seq(Chars)
  PROVE  Joined(u \o v, u, v)
BY DEF Joined

LEMMA CrLfIs == CrLf \in Seq(Chars) /\ Len(CrLf) = 2 /\ CrLf[1] = "cr" /\ CrLf[2] = "lf"
BY ProxyAssumption DEF CrLf

\* The text that joins a status line, header lines and a body.
Places(t, a, x, b) ==
  /\ t \in Seq(Chars) /\ Len(t) = Len(a) + Len(x) + Len(b) + 4
  /\ \A k \in 1..Len(a) : t[k] = a[k]
  /\ t[Len(a) + 1] = "cr" /\ t[Len(a) + 2] = "lf"
  /\ \A k \in 1..Len(x) : t[Len(a) + 2 + k] = x[k]
  /\ t[Len(a) + Len(x) + 3] = "cr" /\ t[Len(a) + Len(x) + 4] = "lf"
  /\ \A k \in 1..Len(b) : t[Len(a) + Len(x) + 4 + k] = b[k]

LEMMA PartsPlaces ==
  ASSUME NEW a \in Seq(Chars), NEW x \in Seq(Chars), NEW b \in Seq(Chars),
         NEW p, Joined(p, a, CrLf), NEW q, Joined(q, p, x),
         NEW r, Joined(r, q, CrLf), NEW t, Joined(t, r, b)
  PROVE  Places(t, a, x, b)
<1> DEFINE A == Len(a)
           X == Len(x)
           B == Len(b)
<1>1. A \in Nat /\ X \in Nat /\ B \in Nat
  OBVIOUS
<1> HIDE DEF A, X, B
<1>2. /\ Len(p) = A + 2 /\ p[A + 1] = "cr" /\ p[A + 2] = "lf"
      /\ \A k \in 1..A : p[k] = a[k]
  BY CrLfIs DEF Joined, A
<1>3. /\ Len(q) = A + 2 + X
      /\ \A k \in 1..A + 2 : q[k] = p[k]
      /\ \A k \in 1..X : q[A + 2 + k] = x[k]
  BY <1>2 DEF Joined, X
<1>4. /\ Len(r) = A + 2 + X + 2
      /\ \A k \in 1..A + 2 + X : r[k] = q[k]
      /\ r[A + 2 + X + 1] = "cr" /\ r[A + 2 + X + 2] = "lf"
  <2>1. /\ Len(r) = Len(q) + 2 /\ \A k \in 1..Len(q) : r[k] = q[k]
        /\ \A k \in 1..2 : r[Len(q) + k] = CrLf[k]
    BY CrLfIs DEF Joined
  <2>2. r[Len(q) + 1] = "cr" /\ r[Len(q) + 2] = "lf"
    BY <2>1, CrLfIs
  <2> QED BY <1>3, <2>1, <2>2
<1>5. /\ t \in Seq(Chars) /\ Len(t) = A + 2 + X + 2 + B
      /\ \A k \in 1..A + 2 + X + 2 : t[k] = r[k]
      /\ \A k \in 1..B : t[A + 2 + X + 2 + k] = b[k]
  BY <1>4 DEF Joined, B
<1>6. Len(t) = A + X + B + 4
  BY <1>1, <1>5
<1>7. \A k \in 1..A : t[k] = a[k]
  <2>1. \A k \in 1..A : k \in 1..A + 2 /\ k \in 1..A + 2 + X /\ k \in 1..A + 2 + X + 2
    BY <1>1
  <2> QED BY <1>2, <1>3, <1>4, <1>5, <2>1
<1>8. t[A + 1] = "cr" /\ t[A + 2] = "lf"
  <2>1. A + 1 \in 1..A + 2 /\ A + 2 \in 1..A + 2
    BY <1>1
  <2>2. \A k \in 1..A + 2 : k \in 1..A + 2 + X /\ k \in 1..A + 2 + X + 2
    BY <1>1
  <2> QED BY <1>2, <1>3, <1>4, <1>5, <2>1, <2>2
<1>9. \A k \in 1..X : t[A + 2 + k] = x[k]
  <2>1. \A k \in 1..X : A + 2 + k \in 1..A + 2 + X /\ A + 2 + k \in 1..A + 2 + X + 2
    BY <1>1
  <2> QED BY <1>3, <1>4, <1>5, <2>1
<1>10. t[A + X + 3] = "cr" /\ t[A + X + 4] = "lf"
  <2>1. /\ A + X + 3 = A + 2 + X + 1 /\ A + X + 4 = A + 2 + X + 2
        /\ A + 2 + X + 1 \in 1..A + 2 + X + 2 /\ A + 2 + X + 2 \in 1..A + 2 + X + 2
    BY <1>1
  <2> QED BY <1>4, <1>5, <2>1
<1>11. \A k \in 1..B : t[A + X + 4 + k] = b[k]
  <2>1. \A k \in 1..B : A + X + 4 + k = A + 2 + X + 2 + k
    BY <1>1
  <2> QED BY <1>5, <2>1
<1> QED BY <1>5, <1>6, <1>7, <1>8, <1>9, <1>10, <1>11 DEF Places, A, X, B

LEMMA TextPlaces ==
  ASSUME NEW a \in Seq(Chars), NEW x \in Seq(Chars), NEW b \in Seq(Chars)
  PROVE  Places(a \o CrLf \o x \o CrLf \o b, a, x, b)
<1> DEFINE p == a \o CrLf
           q == p \o x
           r == q \o CrLf
           t == r \o b
<1>1. p \in Seq(Chars) /\ Joined(p, a, CrLf)
  BY CrLfIs, JoinedPlaces DEF Joined
<1> HIDE DEF p
<1>2. q \in Seq(Chars) /\ Joined(q, p, x)
  BY <1>1, JoinedPlaces DEF Joined
<1> HIDE DEF q
<1>3. r \in Seq(Chars) /\ Joined(r, q, CrLf)
  BY <1>2, CrLfIs, JoinedPlaces DEF Joined
<1> HIDE DEF r
<1>4. Joined(t, r, b)
  BY <1>3, JoinedPlaces
<1> HIDE DEF t
<1>5. Places(t, a, x, b)
  BY <1>1, <1>2, <1>3, <1>4, PartsPlaces
<1> QED BY <1>5, Zenon DEF t, r, q, p

\* The first place of a sub-sequence, by its characters.
FoundAt(t, s, n) ==
  /\ n \in 1..Len(t) - Len(s) + 1
  /\ \A k \in 1..Len(s) : t[n + k - 1] = s[k]
  /\ \A i \in 1..n - 1 : \E k \in 1..Len(s) : t[i + k - 1] # s[k]

LEMMA FindIs ==
  ASSUME NEW t \in Seq(Chars), NEW s \in Seq(Chars), NEW n, FoundAt(t, s, n)
  PROVE  Find(t, s) = n
<1> USE DEF FoundAt
<1> DEFINE at == {i \in 1..Len(t) - Len(s) + 1 : SubSeq(t, i, i + Len(s) - 1) = s}
<1>1. Len(t) \in Nat /\ Len(s) \in Nat
  OBVIOUS
<1>2. ASSUME NEW i \in 1..Len(t) - Len(s) + 1
      PROVE  /\ Len(SubSeq(t, i, i + Len(s) - 1)) = Len(s)
             /\ SubSeq(t, i, i + Len(s) - 1) \in Seq(Chars)
             /\ \A k \in 1..Len(s) : SubSeq(t, i, i + Len(s) - 1)[k] = t[i + k - 1]
  OBVIOUS
<1>3. n \in at
  BY <1>2
<1>4. \A i \in at : n <= i
  <2> SUFFICES ASSUME NEW i \in at, ~(n <= i) PROVE FALSE
    OBVIOUS
  <2>1. i \in 1..Len(t) - Len(s) + 1 /\ SubSeq(t, i, i + Len(s) - 1) = s
    OBVIOUS
  <2>2. i \in 1..n - 1
    BY <1>1, <2>1
  <2> HIDE DEF at
  <2>3. PICK k \in 1..Len(s) : t[i + k - 1] # s[k]
    BY <2>2
  <2> QED BY <1>2, <2>1, <2>3
<1>5. at \in SUBSET Nat
  OBVIOUS
<1>6. Find(t, s) = IF at = {} THEN Len(t) + 1 ELSE Min(at)
  BY DEF Find
<1> HIDE DEF at
<1>7. Min(at) = n
  BY <1>3, <1>4, <1>5, MinIs
<1> QED BY <1>3, <1>6, <1>7

LEMMA LineFound ==
  ASSUME NEW t, NEW a \in Seq(Chars), NEW x \in Seq(Chars), NEW b \in Seq(Chars), Places(t, a, x, b),
         \A k \in 1..Len(a) : a[k] # "cr"
  PROVE  Find(t, CrLf) = Len(a) + 1 /\ Line(t) = a
<1>1. Len(a) \in Nat /\ Len(x) \in Nat /\ Len(b) \in Nat
  OBVIOUS
<1>2. Find(t, CrLf) = Len(a) + 1
  <2>1. Len(a) + 1 \in 1..Len(t) - Len(CrLf) + 1
    BY <1>1, CrLfIs DEF Places
  <2>2. \A k \in 1..Len(CrLf) : t[Len(a) + 1 + k - 1] = CrLf[k]
    <3> TAKE k \in 1..Len(CrLf)
    <3>1. k = 1 \/ k = 2
      BY CrLfIs
    <3>2. Len(a) + 1 + 1 - 1 = Len(a) + 1 /\ Len(a) + 1 + 2 - 1 = Len(a) + 2
      BY <1>1
    <3> QED BY <3>1, <3>2, CrLfIs DEF Places
  <2>3. \A i \in 1..(Len(a) + 1) - 1 : \E k \in 1..Len(CrLf) : t[i + k - 1] # CrLf[k]
    <3> TAKE i \in 1..(Len(a) + 1) - 1
    <3>1. i \in 1..Len(a) /\ i + 1 - 1 = i /\ 1 \in 1..Len(CrLf)
      BY <1>1, CrLfIs
    <3>2. t[i + 1 - 1] # CrLf[1]
      BY <3>1, CrLfIs DEF Places
    <3> QED BY <3>1, <3>2
  <2>4. t \in Seq(Chars)
    BY DEF Places
  <2>5. FoundAt(t, CrLf, Len(a) + 1)
    BY <2>1, <2>2, <2>3, Zenon DEF FoundAt
  <2> QED BY <2>4, <2>5, CrLfIs, FindIs
<1>3. Line(t) = SubSeq(t, 1, Len(a))
  <2>1. (Len(a) + 1) - 1 = Len(a)
    BY <1>1
  <2> QED BY <1>2, <2>1 DEF Line
<1>4. SubSeq(t, 1, Len(a)) = a
  BY <1>1 DEF Places
<1> QED BY <1>2, <1>3, <1>4

\* Where two line ends follow each other first: the end of the status line, or of
\* the last header line.
LEMMA HeadEnds ==
  ASSUME NEW t, NEW a \in Seq(Chars), NEW x \in Seq(Chars), NEW b \in Seq(Chars), Places(t, a, x, b),
         \A k \in 1..Len(a) : a[k] # "cr", NoBlankLine(x)
  PROVE  Find(t, CrLf \o CrLf) = Len(a) + Len(x) + 1
<1> DEFINE A == Len(a)
           X == Len(x)
           s == CrLf \o CrLf
           E == A + X + 1
<1>1. A \in Nat /\ X \in Nat /\ Len(b) \in Nat
  OBVIOUS
<1>2. /\ s \in Seq(Chars) /\ Len(s) = 4 /\ s[1] = "cr" /\ s[2] = "lf" /\ s[3] = "cr" /\ s[4] = "lf"
  BY CrLfIs DEF CrLf
<1>3. /\ t \in Seq(Chars) /\ Len(t) = A + X + Len(b) + 4
      /\ \A k \in 1..A : t[k] = a[k]
      /\ t[A + 1] = "cr" /\ t[A + 2] = "lf"
      /\ \A k \in 1..X : t[A + 2 + k] = x[k]
      /\ t[A + X + 3] = "cr" /\ t[A + X + 4] = "lf"
  BY DEF Places
<1> HIDE DEF s, A, X
<1>4. E \in 1..Len(t) - Len(s) + 1
  BY <1>1, <1>2, <1>3
<1>5. t[E] = "cr" /\ t[E + 1] = "lf"
  <2>1. CASE X = 0
    <3>1. E = A + 1 /\ E + 1 = A + 2
      BY <1>1, <2>1
    <3> QED BY <1>3, <3>1
  <2>2. CASE X # 0
    <3>1. X >= 2 /\ x[X - 1] = "cr" /\ x[X] = "lf"
      <4>1. x # <<>>
        BY <2>2 DEF X
      <4> QED BY <4>1 DEF NoBlankLine, X
    <3>2. X - 1 \in 1..X /\ X \in 1..X /\ A + 2 + (X - 1) = E /\ A + 2 + X = E + 1
      BY <1>1, <3>1
    <3> QED BY <1>3, <3>1, <3>2
  <2> QED BY <2>1, <2>2
<1>6. t[E + 2] = "cr" /\ t[E + 3] = "lf"
  <2>1. E + 2 = A + X + 3 /\ E + 3 = A + X + 4
    BY <1>1
  <2> QED BY <1>3, <2>1
<1>7. \A k \in 1..Len(s) : t[E + k - 1] = s[k]
  <2> TAKE k \in 1..Len(s)
  <2>1. k = 1 \/ k = 2 \/ k = 3 \/ k = 4
    BY <1>2
  <2>2. E + 1 - 1 = E /\ E + 2 - 1 = E + 1 /\ E + 3 - 1 = E + 2 /\ E + 4 - 1 = E + 3
    BY <1>1
  <2> HIDE DEF E
  <2> QED BY <1>2, <1>5, <1>6, <2>1, <2>2
<1>8. ASSUME NEW i \in 1..E - 1, t[i] = "cr", t[i + 2] = "cr"
      PROVE  FALSE
  <2>1. CASE i \in 1..A
    <3>1. a[i] = "cr"
      BY <1>3, <1>8, <2>1
    <3> QED BY <2>1, <3>1 DEF A
  <2>2. CASE i = A + 1
    <3>1. X # 0 /\ 1 \in 1..X /\ i + 2 = A + 2 + 1
      BY <1>1, <1>8, <2>2
    <3>2. x[1] = "cr"
      BY <1>3, <1>8, <3>1
    <3>3. x # <<>>
      BY <3>1 DEF X
    <3> QED BY <3>2, <3>3 DEF NoBlankLine
  <2>3. CASE i = A + 2
    BY <1>3, <1>8, <2>3
  <2>4. CASE i > A + 2
    <3> DEFINE p == i - (A + 2)
    <3>1. p \in 1..X /\ p + 2 \in Nat /\ p + 2 <= X + 1 /\ A + 2 + p = i /\ A + 2 + (p + 2) = i + 2
      BY <1>1, <1>8, <2>4
    <3>2. x[p] = "cr"
      BY <1>3, <1>8, <3>1
    <3> HIDE DEF p
    <3>3. p + 1 <= X /\ x[p + 1] # "cr" /\ (p + 2 <= X => x[p + 2] # "cr")
      BY <3>1, <3>2 DEF NoBlankLine, X
    <3>4. x[X] = "lf"
      <4>1. x # <<>>
        BY <1>1, <3>1 DEF X
      <4> QED BY <4>1 DEF NoBlankLine, X
    <3>5. CASE p + 2 <= X
      <4>1. p + 2 \in 1..X
        BY <1>1, <3>1, <3>5
      <4>2. t[i + 2] = x[p + 2]
        BY <1>3, <3>1, <4>1
      <4> QED BY <1>8, <3>3, <3>5, <4>2
    <3>6. CASE p + 2 = X + 1
      <4>1. E - 1 = A + X /\ i = A + X + 1
        BY <1>1, <3>1, <3>6
      <4> QED BY <1>1, <1>8, <4>1
    <3> QED BY <1>1, <3>1, <3>5, <3>6
  <2> QED BY <1>1, <1>8, <2>1, <2>2, <2>3, <2>4
<1>9. \A i \in 1..E - 1 : \E k \in 1..Len(s) : t[i + k - 1] # s[k]
  <2> TAKE i \in 1..E - 1
  <2>1. 1 \in 1..Len(s) /\ 3 \in 1..Len(s) /\ i + 1 - 1 = i /\ i + 3 - 1 = i + 2
    BY <1>1, <1>2
  <2>2. t[i] # "cr" \/ t[i + 2] # "cr"
    BY <1>8
  <2> QED BY <1>2, <2>1, <2>2
<1> HIDE DEF E
<1>10. Find(t, s) = E
  <2>1. FoundAt(t, s, E)
    BY <1>4, <1>7, <1>9, Zenon DEF FoundAt
  <2> QED BY <1>2, <1>3, <2>1, FindIs
<1> QED BY <1>10 DEF s, E, A, X

LEMMA PartIs ==
  ASSUME NEW t \in Seq(Chars), NEW b \in Seq(Chars), NEW from \in Nat, NEW to \in Nat,
         from >= 1, to <= Len(t), to - from + 1 = Len(b),
         \A k \in 1..Len(b) : t[from + k - 1] = b[k]
  PROVE  SubSeq(t, from, to) = b
<1> DEFINE h == SubSeq(t, from, to)
<1>1. Len(t) \in Nat /\ Len(b) \in Nat
  OBVIOUS
<1>2. \A i \in from..to : i \in 1..Len(t)
  BY <1>1
<1>3. h \in Seq(Chars) /\ Len(h) = Len(b)
  BY <1>1, <1>2, SMTT(30)
<1>4. \A k \in 1..Len(b) : h[k] = t[from + k - 1]
  BY <1>1, SMTT(30)
<1> HIDE DEF h
<1>5. h = b
  BY <1>3, <1>4
<1> QED BY <1>5 DEF h

\* A response taken apart is the message.
LEMMA TextTaken ==
  ASSUME NEW t, NEW a \in Seq(Chars), NEW x \in Seq(Chars), NEW b \in Seq(Chars), Places(t, a, x, b),
         \A k \in 1..Len(a) : a[k] # "cr", NoBlankLine(x)
  PROVE  /\ Line(t) = a /\ Len(Line(t)) # Len(t) /\ ~(BodyStart(t) > Len(t) + 1)
         /\ Headers(t) = x /\ SubSeq(t, BodyStart(t), Len(t)) = b
<1> DEFINE A == Len(a)
           X == Len(x)
           B == Len(b)
<1>1. A \in Nat /\ X \in Nat /\ B \in Nat
  OBVIOUS
<1>2. Line(t) = a
  BY LineFound
<1>3. Find(t, CrLf \o CrLf) = A + X + 1
  BY HeadEnds
<1>4. /\ t \in Seq(Chars) /\ Len(t) = A + X + B + 4
      /\ \A k \in 1..X : t[A + 2 + k] = x[k]
      /\ \A k \in 1..B : t[A + X + 4 + k] = b[k]
  BY DEF Places
<1>5. x \in Seq(Chars) /\ b \in Seq(Chars) /\ Len(x) = X /\ Len(b) = B
  OBVIOUS
<1>6. BodyStart(t) = A + X + 5
  <2>1. ~(A + X + 1 > Len(t)) /\ A + X + 1 + 4 = A + X + 5
    BY <1>1, <1>4
  <2> QED BY <1>3, <2>1 DEF BodyStart
<1>7. Headers(t) = SubSeq(t, A + 3, A + X + 2)
  <2>1. Headers(t) = SubSeq(t, A + 3, Min({Len(t), A + X + 1 + 1}))
    BY <1>2, <1>3, Zenon DEF Headers
  <2>2. Min({Len(t), A + X + 1 + 1}) = A + X + 2
    <3>1. /\ {Len(t), A + X + 1 + 1} \in SUBSET Nat /\ A + X + 2 \in {Len(t), A + X + 1 + 1}
          /\ \A y \in {Len(t), A + X + 1 + 1} : A + X + 2 <= y
      BY <1>1, <1>4
    <3> QED BY <3>1, MinIs
  <2> QED BY <2>1, <2>2, Zenon
<1> HIDE DEF A, X, B
<1>8. SubSeq(t, A + 3, A + X + 2) = x
  <2>1. PICK from, to : from = A + 3 /\ to = A + X + 2
    OBVIOUS
  <2>2. from \in Nat /\ to \in Nat /\ from >= 1 /\ to <= Len(t) /\ to - from + 1 = Len(x)
    BY <1>1, <1>4, <1>5, <2>1
  <2>3. \A k \in 1..Len(x) : t[from + k - 1] = x[k]
    <3> TAKE k \in 1..Len(x)
    <3>1. from + k - 1 = A + 2 + k /\ k \in 1..X
      BY <1>1, <1>5, <2>1
    <3>2. t[A + 2 + k] = x[k]
      BY <1>4, <3>1
    <3> QED BY <3>1, <3>2, Zenon
  <2>4. SubSeq(t, from, to) = x
    BY <1>4, <1>5, <2>2, <2>3, PartIs
  <2> QED BY <2>1, <2>4, Zenon
<1>9. SubSeq(t, A + X + 5, Len(t)) = b
  <2>1. PICK from, to : from = A + X + 5 /\ to = Len(t)
    OBVIOUS
  <2>2. from \in Nat /\ to \in Nat /\ from >= 1 /\ to <= Len(t) /\ to - from + 1 = Len(b)
    BY <1>1, <1>4, <1>5, <2>1
  <2>3. \A k \in 1..Len(b) : t[from + k - 1] = b[k]
    <3> TAKE k \in 1..Len(b)
    <3>1. from + k - 1 = A + X + 4 + k /\ k \in 1..B
      BY <1>1, <1>5, <2>1
    <3>2. t[A + X + 4 + k] = b[k]
      BY <1>4, <3>1
    <3> QED BY <3>1, <3>2, Zenon
  <2>4. SubSeq(t, from, to) = b
    BY <1>4, <1>5, <2>2, <2>3, PartIs
  <2> QED BY <2>1, <2>4, Zenon
<1>10. Len(Line(t)) # Len(t) /\ ~(A + X + 5 > Len(t) + 1)
  BY <1>1, <1>2, <1>4 DEF A
<1> QED BY <1>2, <1>6, <1>7, <1>8, <1>9, <1>10

\* The code of a status line that has three digits in a row in one place.
LEMMA CodeIs ==
  ASSUME NEW line \in Seq(Chars), NEW n \in 1..Len(line), ThreeDigits(line, n),
         \A k \in 1..Len(line) : ThreeDigits(line, k) => k = n
  PROVE  Code(line) = Number(line, n)
<1> DEFINE ends == {k \in 3..Len(line) :
                      ThreeDigits(line, k) /\ ~(k > 3 /\ line[k - 3] \in DOMAIN Digits)}
<1>1. Len(line) \in Nat /\ n \in 3..Len(line) /\ n \in Nat
  BY DEF ThreeDigits
<1>2. ~(n > 3 /\ line[n - 3] \in DOMAIN Digits)
  <2> SUFFICES ASSUME n > 3, line[n - 3] \in DOMAIN Digits PROVE FALSE
    OBVIOUS
  <2>1. n - 1 \in 3..Len(line) /\ n - 1 \in 1..Len(line) /\ n - 1 # n
    BY <1>1
  <2>2. ASSUME NEW k \in (n - 1) - 2..n - 1 PROVE line[k] \in DOMAIN Digits
    <3>1. k = n - 3 \/ k \in n - 2..n
      BY <1>1
    <3> QED BY <3>1 DEF ThreeDigits
  <2>3. ThreeDigits(line, n - 1)
    BY <2>1, <2>2 DEF ThreeDigits
  <2> QED BY <2>1, <2>3
<1>3. n \in ends
  BY <1>1, <1>2
<1>4. \A k \in ends : k <= n
  <2> TAKE k \in ends
  <2>1. k \in 1..Len(line) /\ ThreeDigits(line, k)
    OBVIOUS
  <2> HIDE DEF ends
  <2>2. k = n
    BY <2>1
  <2> QED BY <1>1, <2>2
<1>5. ends \in SUBSET (0..Len(line))
  OBVIOUS
<1>6. Code(line) = IF ends = {} THEN 0 ELSE Number(line, Max(ends))
  BY Zenon DEF Code
<1> HIDE DEF ends
<1>7. Max(ends) = n
  BY <1>1, <1>3, <1>4, <1>5, MaxIs
<1> QED BY <1>3, <1>6, <1>7

-----------------------------------------------------------------------------
(* The reply that a well-formed response is parsed into.                   *)

LEMMA TrimType ==
  ASSUME NEW s \in Seq(Chars)
  PROVE  Trim(s) \in Seq(Chars)
<1>1. CASE Kept(s) = {}
  <2>1. Trim(s) = <<>>
    BY <1>1, TrimIs
  <2> QED BY <2>1
<1>2. CASE Kept(s) # {}
  <2>1. PICK m, n \in Kept(s) : \A k \in Kept(s) : m <= k /\ k <= n
    BY <1>2, TrimIs
  <2>2. Trim(s) = SubSeq(s, m, n) /\ m \in 1..Len(s) /\ n \in 1..Len(s)
    BY <2>1, TrimIs DEF Kept
  <2>3. \A k \in m..n : s[k] \in Chars
    BY <2>2
  <2> QED BY <2>2
<1> QED BY <1>1, <1>2

LEMMA MessageType ==
  ASSUME NEW m \in Messages
  PROVE  /\ m.status \in Seq(Chars) /\ \A k \in 1..Len(m.status) : m.status[k] # "cr"
         /\ m.body \in Seq(Chars)
         /\ m.lines \in Seq(HeaderLines) /\ DOMAIN m.lines = 1..Len(m.lines)
         /\ \A n \in 1..Len(m.lines) :
              Trim(m.lines[n][1]) # <<>> /\ m.lines[n][1] \in Seq(Chars) /\ m.lines[n][2] \in Seq(Chars)
<1>1. WellFormed(m)
  BY ProxyAssumption
<1>2. m.status \in Seq(InLine) /\ m.body \in Seq(Chars) /\ m.lines \in Seq(HeaderLines)
  BY <1>1 DEF WellFormed, HeaderLines
<1>3. m.status \in Seq(Chars) /\ \A k \in 1..Len(m.status) : m.status[k] # "cr"
  BY <1>2 DEF InLine
<1>4. DOMAIN m.lines = 1..Len(m.lines)
  BY <1>2
<1>5. ASSUME NEW n \in 1..Len(m.lines)
      PROVE  Trim(m.lines[n][1]) # <<>> /\ m.lines[n][1] \in Seq(Chars) /\ m.lines[n][2] \in Seq(Chars)
  <2>1. m.lines[n] \in HeaderLines
    BY <1>2
  <2>2. Trim(m.lines[n][1]) # <<>>
    BY <1>1, <1>4 DEF WellFormed
  <2> QED BY <2>1, <2>2, LineType
<1> QED BY <1>2, <1>3, <1>4, <1>5

LEMMA StoredValues ==
  ASSUME NEW m \in Messages, NEW h, Stored(h, m.lines), NEW name
  PROVE  Lookup(h, name) = Value(m, name) /\ Value(m, name) \in Seq(Chars)
<1> DEFINE N == Len(m.lines)
           V == Values(m, name)
<1>1. /\ N \in Nat /\ V = {n \in 1..N : Trim(m.lines[n][1]) = name} /\ V \in SUBSET (0..N)
  BY MessageType DEF Values
<1>2. DOMAIN h = {Trim(m.lines[n][1]) : n \in 1..N}
  BY DEF Stored
<1>3. Value(m, name) = IF V = {} THEN <<>> ELSE Trim(m.lines[Max(V)][2])
  BY Zenon DEF Value
<1>4. Lookup(h, name) = IF name \in DOMAIN h THEN h[name] ELSE <<>>
  BY Zenon DEF Lookup
<1> HIDE DEF V
<1>5. CASE V = {}
  <2>1. name \notin DOMAIN h
    BY <1>1, <1>2, <1>5
  <2> QED BY <1>3, <1>4, <1>5, <2>1
<1>6. CASE V # {}
  <2>1. PICK n : n = Max(V)
    OBVIOUS
  <2>2. n \in V /\ \A k \in V : n >= k
    BY <1>1, <1>6, <2>1, MaxGreatest
  <2>3. n \in 1..N /\ Trim(m.lines[n][1]) = name
    BY <1>1, <2>2
  <2>4. \A k \in n + 1..N : Trim(m.lines[k][1]) # Trim(m.lines[n][1])
    <3> SUFFICES ASSUME NEW k \in n + 1..N, Trim(m.lines[k][1]) = name PROVE FALSE
      BY <2>3
    <3>1. k \in V
      BY <1>1, <2>3
    <3> QED BY <1>1, <2>2, <2>3, <3>1
  <2>5. h[name] = Trim(m.lines[n][2])
    BY <2>3, <2>4 DEF Stored
  <2>6. name \in DOMAIN h
    BY <1>2, <2>3
  <2>7. Trim(m.lines[n][2]) \in Seq(Chars)
    BY <2>3, MessageType, TrimType
  <2> QED BY <1>3, <1>4, <1>6, <2>1, <2>5, <2>6, <2>7
<1> QED BY <1>5, <1>6

LEMMA MessageParsed ==
  ASSUME NEW m \in Messages
  PROVE  /\ Len(Line(Text(m))) # Len(Text(m)) /\ ~(BodyStart(Text(m)) > Len(Text(m)) + 1)
         /\ Scanned(Text(m)).at = "begin"
         /\ Parsed(Text(m)).code_ = m.code /\ Parsed(Text(m)).body_ = m.body
         /\ Stored(Parsed(Text(m)).headers_, m.lines)
<1> DEFINE x == HeadOf(m.lines)
<1>1. PICK t : t = Text(m)
  OBVIOUS
<1>2. /\ m.status \in Seq(Chars) /\ \A k \in 1..Len(m.status) : m.status[k] # "cr"
      /\ m.body \in Seq(Chars)
  BY MessageType
<1>3. HeadRead(m.lines)
  BY MessageType, HeadOfMessage
<1>4. x \in Seq(Chars) /\ NoBlankLine(x)
  BY <1>3 DEF HeadRead, NoBlankLine
<1>5. t = m.status \o CrLf \o x \o CrLf \o m.body
  BY <1>1, Zenon DEF Text, HeadOf
<1> HIDE DEF x
<1>6. Places(t, m.status, x, m.body)
  BY <1>2, <1>4, <1>5, TextPlaces
<1>7. /\ Line(t) = m.status /\ Len(Line(t)) # Len(t) /\ ~(BodyStart(t) > Len(t) + 1)
      /\ Headers(t) = x /\ SubSeq(t, BodyStart(t), Len(t)) = m.body
  <2>1. PICK a, b : a = m.status /\ b = m.body
    OBVIOUS
  <2>2. a \in Seq(Chars) /\ b \in Seq(Chars) /\ (\A k \in 1..Len(a) : a[k] # "cr") /\ Places(t, a, x, b)
    BY <1>2, <1>6, <2>1
  <2>3. /\ Line(t) = a /\ Len(Line(t)) # Len(t) /\ ~(BodyStart(t) > Len(t) + 1)
        /\ Headers(t) = x /\ SubSeq(t, BodyStart(t), Len(t)) = b
    BY <1>4, <2>2, TextTaken
  <2> QED BY <2>1, <2>3
<1>8. PICK h : ReadOf(x) = NewLine(h, "begin") /\ Stored(h, m.lines)
  BY <1>3 DEF HeadRead, x
<1>9. Scanned(t) = NewLine(h, "begin")
  BY <1>7, <1>8, Zenon DEF Scanned, ReadOf, Start
<1>10. Scanned(t).at = "begin" /\ Scanned(t).headers = h
  BY <1>9 DEF NewLine
<1>11. Code(m.status) = m.code
  <2>1. WellFormed(m)
    BY ProxyAssumption
  <2>2. PICK n \in 1..Len(m.status) :
          /\ ThreeDigits(m.status, n) /\ m.code = Number(m.status, n)
          /\ \A k \in 1..Len(m.status) : ThreeDigits(m.status, k) => k = n
    BY <2>1, Zenon DEF WellFormed
  <2>3. Code(m.status) = Number(m.status, n)
    BY <1>2, <2>2, CodeIs
  <2> QED BY <2>2, <2>3
<1>12. Parsed(t).code_ = m.code /\ Parsed(t).body_ = m.body /\ Parsed(t).headers_ = h
  BY <1>7, <1>10, <1>11 DEF Parsed
<1> QED BY <1>1, <1>7, <1>8, <1>10, <1>12

-----------------------------------------------------------------------------
(* The next request: erasing the location path from the URI of a           *)
(* redirection leaves what comes after the host name.                      *)

LEMMA SubSeqsShort ==
  ASSUME NEW v \in Seq(Chars), NEW p \in SubSeqs(v)
  PROVE  Len(p) <= Len(v)
<1>1. PICK i, j \in 0..Len(v) : p = SubSeq(v, i + 1, j)
  BY SMT DEF SubSeqs
<1>2. Len(SubSeq(v, i + 1, j)) <= Len(v)
  OBVIOUS
<1> QED BY <1>1, <1>2

LEMMA FrontErased ==
  ASSUME NEW p \in Seq(Chars), p # <<>>, NEW z \in Seq(Chars)
  PROVE  ReplaceFirstSubSeq(<<>>, p, p \o z) = z
<1> DEFINE u == p \o z
           P == Len(p)
           U == Len(u)
           ToHere(i) == /\ p \in SubSeqs(SubSeq(u, 1, i))
                        /\ \A j \in 0..i - 1 : p \notin SubSeqs(SubSeq(u, 1, j))
           last == CHOOSE i \in 0..U : ToHere(i)
<1>1. P \in Nat /\ P >= 1 /\ Len(z) \in Nat
  OBVIOUS
<1>2. u \in Seq(Chars) /\ U = P + Len(z) /\ SubSeq(u, 1, P) = p /\ SubSeq(u, P + 1, U) = z
  OBVIOUS
<1>3. SubSeq(p, 1, P) = p /\ p \in Seq(Chars)
  OBVIOUS
<1> HIDE DEF u, P, U
<1>4. p \in SubSeqs(u)
  <2>1. 0 \in 0..U /\ P \in 0..U /\ 0 + 1 = 1
    BY <1>1, <1>2
  <2>2. p = SubSeq(u, 0 + 1, P)
    BY <1>2, <2>1
  <2> QED BY <2>1, <2>2 DEF SubSeqs, U
<1>5. ToHere(P)
  <2>1. p \in SubSeqs(p)
    <3>1. 0 \in 0..P /\ P \in 0..P /\ p = SubSeq(p, 0 + 1, P)
      BY <1>1, <1>3
    <3> QED BY <3>1 DEF SubSeqs, P
  <2>2. ASSUME NEW j \in 0..P - 1, p \in SubSeqs(SubSeq(u, 1, j)) PROVE FALSE
    <3>1. SubSeq(u, 1, j) \in Seq(Chars) /\ Len(SubSeq(u, 1, j)) = j
      BY <1>1, <1>2 DEF U
    <3>2. P <= j
      BY <2>2, <3>1, SubSeqsShort DEF P
    <3> QED BY <1>1, <3>2
  <2> QED BY <1>2, <2>1, <2>2
<1>6. ASSUME NEW i \in 0..U, ToHere(i) PROVE i = P
  <2>1. SubSeq(u, 1, i) \in Seq(Chars) /\ Len(SubSeq(u, 1, i)) = i
    BY <1>2 DEF U
  <2>2. P <= i
    BY <1>6, <2>1, SubSeqsShort DEF P
  <2>3. p \in SubSeqs(SubSeq(u, 1, P))
    BY <1>5
  <2>4. ~(P \in 0..i - 1)
    BY <1>6, <2>3
  <2> QED BY <1>1, <1>2, <2>2, <2>4
<1>7. P \in 0..U
  BY <1>1, <1>2
<1> HIDE DEF ToHere
<1>8. last = P
  BY <1>5, <1>6, <1>7
<1>9. IndexFirstSubSeq(p, u) = last - (P - 1)
  BY Zenon DEF IndexFirstSubSeq, last, ToHere, P, U
<1> HIDE DEF last
<1>10. IndexFirstSubSeq(p, u) = 1
  BY <1>1, <1>8, <1>9
<1>11. ReplaceFirstSubSeq(<<>>, p, u) = SubSeq(u, 1, 1 - 1) \o <<>> \o SubSeq(u, 1 + P, U)
  BY <1>4, <1>10, Zenon DEF ReplaceFirstSubSeq, ReplaceSubSeqAt, P, U
<1>12. 1 - 1 = 0 /\ 1 + P = P + 1 /\ SubSeq(u, 1, 0) = <<>> /\ <<>> \o <<>> \o z = z
  BY <1>1, <1>2
<1> QED BY <1>2, <1>11, <1>12 DEF u

\* What comes after the last host name of a location.
PathOf(location) ==
  LET after == SubSeq(location, Max({n \in DOMAIN location : location[n] = Dest}) + 1, Len(location))
  IN  IF after # <<>> /\ Head(after) = "slash" THEN after ELSE <<"slash">> \o after

LEMMA NextTarget ==
  ASSUME NEW location \in Seq(Chars), UriReplace(location) # location
  PROVE  /\ TargetOf(UriReplace(location)) = PathOf(location)
         /\ \E n \in DOMAIN location : location[n] = Dest
<1> DEFINE hosts == {n \in DOMAIN location : location[n] = Dest}
           after == SubSeq(location, Max(hosts) + 1, Len(location))
           slashed == after # <<>> /\ Head(after) = "slash"
           rest == IF slashed THEN Tail(after) ELSE after
           z == <<"slash">> \o rest
<1>1. UriReplace(location) = IF hosts = {} THEN location ELSE location_path_ \o <<"slash">> \o rest
  BY Zenon DEF UriReplace
<1>2. PathOf(location) = IF slashed THEN after ELSE <<"slash">> \o after
  BY Zenon DEF PathOf
<1>3. hosts # {} /\ hosts \in SUBSET (0..Len(location)) /\ hosts \in SUBSET DOMAIN location
  BY <1>1
<1>4. Len(location) \in Nat /\ DOMAIN location = 1..Len(location)
  OBVIOUS
<1>13. \E n \in DOMAIN location : location[n] = Dest
  BY <1>3
<1> HIDE DEF hosts
<1>5. Max(hosts) \in 1..Len(location)
  BY <1>3, <1>4, MaxGreatest
<1>6. after \in Seq(Chars)
  <2>1. \A n \in 1..Len(location) : SubSeq(location, n + 1, Len(location)) \in Seq(Chars)
    OBVIOUS
  <2> QED BY <1>5, <2>1, Zenon
<1> HIDE DEF after
<1>7. rest \in Seq(Chars)
  BY <1>6
<1>8. z = PathOf(location)
  <2>1. CASE slashed
    <3>1. <<"slash">> \o Tail(after) = after
      BY <1>6, <2>1
    <3> QED BY <1>2, <2>1, <3>1
  <2>2. CASE ~slashed
    BY <1>2, <2>2
  <2> QED BY <2>1, <2>2
<1> HIDE DEF rest, slashed
<1>9. z \in Seq(Chars) /\ z # <<>>
  BY <1>7, ProxyAssumption
<1>10. UriReplace(location) = location_path_ \o z
  <2>1. location_path_ \in Seq(Chars) /\ <<"slash">> \in Seq(Chars)
    BY ProxyAssumption
  <2>2. \A a, b, c \in Seq(Chars) : a \o (b \o c) = (a \o b) \o c
    BY Regroup
  <2>3. location_path_ \o (<<"slash">> \o rest) = (location_path_ \o <<"slash">>) \o rest
    BY <1>7, <2>1, <2>2, Zenon
  <2> QED BY <1>1, <1>3, <2>3, Zenon
<1> HIDE DEF z
<1>11. ReplaceFirstSubSeq(<<>>, location_path_, location_path_ \o z) = z
  BY <1>9, ProxyAssumption, FrontErased
<1>12. TargetOf(UriReplace(location)) = z
  BY <1>9, <1>10, <1>11, Zenon DEF TargetOf
<1> QED BY <1>8, <1>12, <1>13

\* Where the host name comes last as the host, the path is what comes after it.
LEMMA LastLeads ==
  ASSUME NEW location \in Seq(Chars), \E n \in DOMAIN location : location[n] = Dest
  PROVE  LeadsTo(location, PathOf(location))
<1> DEFINE hosts == {n \in DOMAIN location : location[n] = Dest}
<1> SUFFICES ASSUME NEW n \in DOMAIN location, HostAt(location, n),
                    \A k \in n + 1..Len(location) : location[k] # Dest
             PROVE  PathOf(location) = PathAfter(location, n)
  BY DEF LeadsTo
<1>1. n \in 1..Len(location) /\ Len(location) \in Nat
  OBVIOUS
<1>2. n \in hosts /\ hosts \in SUBSET (0..Len(location)) /\ \A k \in hosts : n >= k
  BY <1>1 DEF HostAt
<1>3. Max(hosts) = n
  <2> HIDE DEF hosts
  <2> QED BY <1>1, <1>2, MaxIs
<1> DEFINE after == SubSeq(location, n + 1, Len(location))
<1>4. PathOf(location) = IF after # <<>> /\ Head(after) = "slash" THEN after ELSE <<"slash">> \o after
  BY <1>3, Zenon DEF PathOf
<1>5. CASE n = Len(location)
  <2>1. after = <<>> /\ <<"slash">> \o <<>> = <<"slash">>
    BY <1>1, <1>5
  <2> QED BY <1>4, <1>5, <2>1 DEF PathAfter
<1>6. CASE n # Len(location)
  <2>1. after # <<>> /\ Head(after) = "slash"
    <3>1. n + 1 \in 1..Len(location) /\ location[n + 1] = "slash"
      BY <1>1, <1>6 DEF HostAt
    <3>2. after \in Seq(Chars) /\ Len(after) = Len(location) - n /\ after[1] = location[n + 1]
      BY <3>1
    <3>3. after # <<>> /\ Head(after) = after[1]
      <4>1. Len(after) \in Nat /\ Len(after) > 0
        BY <1>1, <3>1, <3>2
      <4> HIDE DEF after
      <4> QED BY <3>2, <4>1
    <3> QED BY <3>1, <3>2, <3>3
  <2>2. PathOf(location) = after
    <3> HIDE DEF after
    <3> QED BY <1>4, <2>1
  <2> QED BY <1>6, <2>2 DEF PathAfter
<1> QED BY <1>5, <1>6

LEMMA LinksType ==
  ASSUME NEW body \in Seq(Chars)
  PROVE  Links(body) \in Seq(Chars)
<1> DEFINE below == IF Last(location_path_) = "slash" THEN Front(location_path_) ELSE location_path_
           Link(n) == IF n > 1 /\ body[n - 1] \in {"href", "src"} /\ body[n] = "slash"
                      THEN below \o <<"slash">> ELSE <<body[n]>>
           f == [n \in DOMAIN body |-> Link(n)]
<1>1. below \in Seq(Chars)
  BY ProxyAssumption DEF Front
<1> HIDE DEF below
<1>2. below \o <<"slash">> \in Seq(Chars)
  BY <1>1, ProxyAssumption
<1>3. \A n \in 1..Len(body) : Link(n) \in Seq(Chars)
  <2> TAKE n \in 1..Len(body)
  <2>1. <<body[n]>> \in Seq(Chars)
    OBVIOUS
  <2> QED BY <1>2, <2>1
<1> HIDE DEF Link
<1>4. f \in Seq(Seq(Chars))
  <2>1. f = [n \in 1..Len(body) |-> Link(n)] /\ Len(body) \in Nat
    OBVIOUS
  <2> HIDE DEF f
  <2> QED BY <1>3, <2>1
<1>5. Links(body) = FlattenSeq(f)
  BY Zenon DEF Links, f, Link, below
<1> HIDE DEF f
<1> QED BY <1>4, <1>5, FlattenType

-----------------------------------------------------------------------------
(* The inductive invariant.                                                *)

LocationOf(r) == Lookup(Parsed(r.text).headers_, <<"Location">>)

Sending == {"resolve", "connect", "write"}
Phases == Sending \cup {"read", "parse", "redirect", "rewrite"} \cup Ends

\* Calls and requests: a call that has not returned sent one request, but for the
\* innermost, which may have yet to send it or may have failed before.
Called ==
  /\ phase \in Phases /\ calls \in 1..MaxCalls /\ asked \in Seq(Targets)
  /\ calls = Len(asked) \/ calls = Len(asked) + 1
  /\ phase \in Sending => calls = Len(asked) + 1
  /\ phase \notin Sending \cup {"returned", "thrown"} => calls = Len(asked)
  /\ phase = "returned" /\ calls = Len(asked) + 1 => reply = StockReply

\* What the site answered: to every request but the last, of which the answer is
\* there once it was read.
Known ==
  /\ \A x \in DOMAIN site : site[x] \in Responses
  /\ \A n \in 1..Len(asked) : n < calls => asked[n] \in DOMAIN site
  /\ phase \in {"parse", "redirect", "rewrite", "overflow", "undefined", "hung"} =>
       asked[calls] \in DOMAIN site
  /\ phase = "thrown" /\ calls = Len(asked) => asked[calls] \in DOMAIN site
  /\ phase = "returned" /\ reply # StockReply => asked[calls] \in DOMAIN site

\* The URI of a nested call is the one that the call around it was redirected to.
Redirected ==
  /\ calls = 1 => uri \in Uris
  /\ calls > 1 => /\ uri = UriReplace(LocationOf(site[asked[calls - 1]]))
                  /\ uri # LocationOf(site[asked[calls - 1]])

\* No two requests in a row were for the same target, but for the last two.
NotAgain ==
  /\ \A n \in 1..calls - 2 : asked[n] # asked[n + 1]
  /\ phase = "overflow" => \A n \in 1..calls - 1 : asked[n] # asked[n + 1]

\* The reply, up to the name that looking it up has entered.
Replied ==
  /\ phase = "redirect" => reply = Parsed(site[asked[calls]].text)
  /\ phase = "rewrite" =>
       LET p == Parsed(site[asked[calls]].text)
       IN  \E h \in {p.headers_, Put(p.headers_, <<"Location">>, Lookup(p.headers_, <<"Location">>))} :
             reply = [code_ |-> p.code_, headers_ |-> h, body_ |-> p.body_]
  /\ phase = "overflow" => calls = MaxCalls

\* A nested request is for what comes after the last host name of the location.
WentTo(target, location) ==
  target = PathOf(location) /\ \E n \in DOMAIN location : location[n] = Dest
FollowedLast ==
  \A n \in 1..Len(asked) - 1 :
    LET m == site[asked[n]].sent
    IN  m # NULL => WentTo(asked[n + 1], Value(m, <<"Location">>))

PInv ==
  /\ Called /\ Known /\ Redirected /\ NotAgain /\ Replied
  /\ FollowedLast /\ Relayed /\ WellFormedSafe

LEMMA ResponseType ==
  ASSUME NEW r \in Responses, r.sent # NULL
  PROVE  r.sent \in Messages /\ r.text = Text(r.sent)
BY DEF Responses

LEMMA LookupKept ==
  ASSUME NEW h, NEW k, NEW name
  PROVE  Lookup(Put(h, k, Lookup(h, k)), name) = Lookup(h, name)
<1> DEFINE g == Put(h, k, Lookup(h, k))
<1>1. DOMAIN g = {k} \cup DOMAIN h /\ g[k] = Lookup(h, k) /\ \A x \in DOMAIN h : x # k => g[x] = h[x]
  BY DEF Put
<1> HIDE DEF g
<1>2. Lookup(g, name) = Lookup(h, name)
  <2>1. CASE name = k
    BY <1>1, <2>1 DEF Lookup
  <2>2. CASE name # k
    BY <1>1, <2>2 DEF Lookup
  <2> QED BY <2>1, <2>2
<1> QED BY <1>2 DEF g

LEMMA InitPInv == Init => PInv
<1> SUFFICES ASSUME Init PROVE PInv
  OBVIOUS
<1> USE DEF Init
<1>1. asked \in Seq(Targets) /\ Len(asked) = 0 /\ DOMAIN site = {} /\ MaxCalls \in Nat /\ MaxCalls >= 1
  BY ProxyAssumption
<1>2. Called
  BY <1>1 DEF Called, Phases, Sending, Ends
<1>3. Known /\ Redirected /\ NotAgain /\ Replied
  BY <1>1 DEF Known, Redirected, NotAgain, Replied
<1>4. FollowedLast /\ Relayed /\ WellFormedSafe
  BY <1>1 DEF FollowedLast, Relayed, WellFormedSafe, Answered
<1> QED BY <1>2, <1>3, <1>4 DEF PInv

\* What a step keeps that neither asks nor is answered and calls nothing.
LEMMA Steady ==
  ASSUME PInv, UNCHANGED <<uri, calls, site, asked>>, phase' # "overflow"
  PROVE  /\ Redirected' /\ NotAgain' /\ FollowedLast'
         /\ \A x \in DOMAIN site' : site'[x] \in Responses
         /\ \A n \in 1..Len(asked') : n < calls' => asked'[n] \in DOMAIN site'
<1>1. Redirected'
  BY DEF PInv, Redirected
<1>2. NotAgain'
  BY DEF PInv, NotAgain
<1>3. FollowedLast'
  BY DEF PInv, FollowedLast
<1>4. (\A x \in DOMAIN site : site[x] \in Responses) /\ \A n \in 1..Len(asked) : n < calls => asked[n] \in DOMAIN site
  BY DEF PInv, Known
<1> QED BY <1>1, <1>2, <1>3, <1>4

LEMMA StockReturn ==
  ASSUME PInv, Return(StockReply), phase \in Sending \cup {"read"}
  PROVE  PInv'
<1>1. UNCHANGED <<uri, calls, site, asked>> /\ phase' = "returned" /\ reply' = StockReply
  BY DEF Return
<1>2. Called'
  BY <1>1 DEF PInv, Called, Sending, Phases, Ends
<1>3. Redirected' /\ NotAgain' /\ FollowedLast' /\ Known'
  BY <1>1, Steady DEF Known
<1>4. Replied' /\ Relayed' /\ WellFormedSafe'
  BY <1>1 DEF Replied, Relayed, WellFormedSafe
<1> QED BY <1>2, <1>3, <1>4 DEF PInv

LEMMA SendingOn ==
  ASSUME PInv, phase \in Sending, phase' \in Sending, UNCHANGED <<uri, calls, site, asked, reply>>
  PROVE  PInv'
<1>1. Called'
  BY DEF PInv, Called, Sending, Phases, Ends
<1>2. Redirected' /\ NotAgain' /\ FollowedLast' /\ Known'
  BY Steady DEF Known, Sending
<1>3. Replied' /\ Relayed' /\ WellFormedSafe'
  BY DEF Replied, Relayed, WellFormedSafe, Sending
<1> QED BY <1>1, <1>2, <1>3 DEF PInv

LEMMA ResolveStep == ASSUME PInv, Resolve PROVE PInv'
<1>1. CASE phase' = "connect" /\ UNCHANGED <<uri, calls, site, asked, reply>>
  BY <1>1, SendingOn DEF Resolve, Sending
<1>2. CASE Return(StockReply)
  BY <1>2, StockReturn DEF Resolve, Sending
<1> QED BY <1>1, <1>2 DEF Resolve

LEMMA ConnectStep == ASSUME PInv, Connect PROVE PInv'
<1>1. CASE phase' = "write" /\ UNCHANGED <<uri, calls, site, asked, reply>>
  BY <1>1, SendingOn DEF Connect, Sending
<1>2. CASE Throw
  <2>1. phase = "connect" /\ phase' = "thrown" /\ UNCHANGED <<uri, calls, site, asked, reply>>
    BY <1>2 DEF Connect, Throw
  <2>2. calls = Len(asked) + 1 /\ Len(asked) \in Nat
    BY <2>1 DEF PInv, Called, Sending
  <2>3. Called'
    BY <2>1, <2>2 DEF PInv, Called, Sending, Phases, Ends
  <2>4. Redirected' /\ NotAgain' /\ FollowedLast' /\ Known'
    BY <2>1, <2>2, Steady DEF Known
  <2>5. Replied' /\ Relayed' /\ WellFormedSafe'
    BY <2>1, <2>2 DEF Replied, Relayed, WellFormedSafe, Answered
  <2> QED BY <2>3, <2>4, <2>5 DEF PInv
<1> QED BY <1>1, <1>2 DEF Connect

\* The target of the innermost call.
LEMMA TargetType == ASSUME PInv, phase \in Sending PROVE TargetOf(uri) \in Targets
<1>1. calls \in Nat /\ calls >= 1 /\ Len(asked) \in Nat /\ calls = Len(asked) + 1
  BY DEF PInv, Called
<1>2. CASE calls = 1
  BY <1>2 DEF PInv, Redirected, Targets
<1>3. CASE calls > 1
  <2>1. PICK r : r = site[asked[calls - 1]]
    OBVIOUS
  <2>2. calls - 1 \in 1..Len(asked) /\ calls - 1 < calls
    BY <1>1, <1>3
  <2>3. r \in Responses
    BY <2>1, <2>2 DEF PInv, Known
  <2>4. uri = UriReplace(Lookup(Parsed(r.text).headers_, <<"Location">>))
    BY <1>3, <2>1 DEF PInv, Redirected, LocationOf
  <2> QED BY <2>3, <2>4, Zenon DEF Targets
<1> QED BY <1>1, <1>2, <1>3

LEMMA MessageLocation ==
  ASSUME NEW r \in Responses, r.sent # NULL
  PROVE  LocationOf(r) = Value(r.sent, <<"Location">>) /\ LocationOf(r) \in Seq(Chars)
<1>1. r.sent \in Messages /\ r.text = Text(r.sent)
  BY ResponseType
<1>2. Stored(Parsed(Text(r.sent)).headers_, r.sent.lines)
  BY <1>1, MessageParsed
<1>3. /\ Lookup(Parsed(Text(r.sent)).headers_, <<"Location">>) = Value(r.sent, <<"Location">>)
      /\ Value(r.sent, <<"Location">>) \in Seq(Chars)
  BY <1>1, <1>2, StoredValues
<1> QED BY <1>1, <1>3 DEF LocationOf

LEMMA WriteStep == ASSUME PInv, Write PROVE PInv'
<1>1. CASE Return(StockReply)
  BY <1>1, StockReturn DEF Write, Sending
<1>2. CASE asked' = Append(asked, TargetOf(uri)) /\ phase' = "read" /\ UNCHANGED <<uri, calls, site, reply>>
  <2>1. PICK t : t = TargetOf(uri)
    OBVIOUS
  <2>2. PICK n : n = Len(asked)
    OBVIOUS
  <2>3. phase = "write" /\ t \in Targets
    BY <2>1, TargetType DEF Write, Sending
  <2>4. n \in Nat /\ calls = n + 1 /\ asked \in Seq(Targets) /\ DOMAIN asked = 1..n
    BY <2>2, <2>3 DEF PInv, Called, Sending
  <2>5. /\ asked' = Append(asked, t) /\ asked' \in Seq(Targets) /\ Len(asked') = n + 1
        /\ asked'[n + 1] = t /\ \A k \in 1..n : asked'[k] = asked[k]
    BY <1>2, <2>1, <2>2, <2>3, <2>4
  <2>6. Called'
    BY <1>2, <2>3, <2>4, <2>5 DEF PInv, Called, Sending, Phases, Ends
  <2>7. Known'
    <3>1. \A k \in 1..n : asked[k] \in DOMAIN site
      BY <2>2, <2>4 DEF PInv, Known
    <3>2. \A k \in 1..Len(asked') : k < calls' => asked'[k] \in DOMAIN site'
      BY <1>2, <2>4, <2>5, <3>1
    <3>3. \A x \in DOMAIN site' : site'[x] \in Responses
      BY <1>2 DEF PInv, Known
    <3> QED BY <1>2, <3>2, <3>3 DEF Known
  <2>8. Redirected'
    <3>1. calls > 1 => asked'[calls - 1] = asked[calls - 1]
      BY <2>4, <2>5
    <3> QED BY <1>2, <2>4, <3>1 DEF PInv, Redirected
  <2>9. NotAgain'
    <3>1. \A k \in 1..calls - 2 : asked'[k] = asked[k] /\ asked'[k + 1] = asked[k + 1]
      BY <2>4, <2>5
    <3> QED BY <1>2, <3>1 DEF PInv, NotAgain
  <2>10. FollowedLast'
    <3> SUFFICES ASSUME NEW k \in 1..Len(asked') - 1, (site')[(asked')[k]].sent # NULL
                 PROVE  WentTo((asked')[k + 1], Value((site')[(asked')[k]].sent, <<"Location">>))
      BY DEF FollowedLast
    <3>1. k \in 1..n /\ asked'[k] = asked[k] /\ site' = site
      BY <1>2, <2>4, <2>5
    <3>2. CASE k = n
      <4>1. PICK r : r = site[asked[n]]
        OBVIOUS
      <4>2. n \in 1..Len(asked) /\ n < calls
        BY <2>2, <2>4, <3>1, <3>2
      <4>3. r \in Responses /\ r.sent # NULL
        BY <3>1, <3>2, <4>1, <4>2 DEF PInv, Known
      <4>4. calls > 1 /\ calls - 1 = n
        BY <2>4, <3>1, <3>2
      <4>5. uri = UriReplace(LocationOf(r)) /\ uri # LocationOf(r)
        BY <4>1, <4>4 DEF PInv, Redirected
      <4>6. LocationOf(r) = Value(r.sent, <<"Location">>) /\ LocationOf(r) \in Seq(Chars)
        BY <4>3, MessageLocation
      <4>7. WentTo(TargetOf(UriReplace(LocationOf(r))), LocationOf(r))
        BY <4>5, <4>6, NextTarget DEF WentTo
      <4>8. WentTo(t, Value(r.sent, <<"Location">>))
        BY <2>1, <4>5, <4>6, <4>7
      <4> QED BY <2>5, <3>1, <3>2, <4>1, <4>8
    <3>3. CASE k # n
      <4>1. k \in 1..Len(asked) - 1 /\ k + 1 \in 1..n
        BY <2>2, <2>4, <3>1, <3>3
      <4>2. asked'[k + 1] = asked[k + 1]
        BY <2>5, <4>1
      <4> QED BY <3>1, <4>1, <4>2 DEF PInv, FollowedLast
    <3> QED BY <3>2, <3>3
  <2>11. Replied' /\ Relayed' /\ WellFormedSafe'
    BY <1>2 DEF Replied, Relayed, WellFormedSafe
  <2> QED BY <2>6, <2>7, <2>8, <2>9, <2>10, <2>11 DEF PInv
<1> QED BY <1>1, <1>2 DEF Write

LEMMA ReadStep == ASSUME PInv, Read PROVE PInv'
<1>1. CASE Return(StockReply)
  BY <1>1, StockReturn DEF Read
<1>2. CASE /\ \E r \in IF Last(asked) \in DOMAIN site THEN {site[Last(asked)]} ELSE Responses :
                site' = Put(site, Last(asked), r)
           /\ phase' = "parse"
           /\ UNCHANGED <<uri, calls, asked, reply>>
  <2>1. PICK r \in (IF Last(asked) \in DOMAIN site THEN {site[Last(asked)]} ELSE Responses) :
          site' = Put(site, Last(asked), r)
    BY <1>2
  <2>2. PICK x : x = Last(asked)
    OBVIOUS
  <2>3. phase = "read"
    BY DEF Read
  <2>4. calls = Len(asked) /\ calls \in Nat /\ x = asked[calls]
    BY <2>2, <2>3 DEF PInv, Called, Sending, Last
  <2>5. r \in Responses /\ (x \in DOMAIN site => r = site[x])
    BY <2>1, <2>2 DEF PInv, Known
  <2>6. /\ DOMAIN site' = {x} \cup DOMAIN site /\ site'[x] = r
        /\ \A y \in DOMAIN site : site'[y] = site[y]
    <3>1. site' = Put(site, x, r)
      BY <2>1, <2>2
    <3>2. /\ DOMAIN Put(site, x, r) = {x} \cup DOMAIN site /\ Put(site, x, r)[x] = r
          /\ \A y \in DOMAIN site : y # x => Put(site, x, r)[y] = site[y]
      BY DEF Put
    <3>3. \A y \in DOMAIN site : y = x => Put(site, x, r)[y] = site[y]
      BY <2>5, <3>2
    <3> QED BY <3>1, <3>2, <3>3, Zenon
  <2>7. Called'
    BY <1>2, <2>3 DEF PInv, Called, Sending, Phases, Ends
  <2>8. Known'
    <3>1. \A y \in DOMAIN site' : site'[y] \in Responses
      <4> TAKE y \in DOMAIN site'
      <4>1. CASE y = x
        BY <2>5, <2>6, <4>1
      <4>2. CASE y # x
        BY <2>6, <4>2 DEF PInv, Known
      <4> QED BY <4>1, <4>2
    <3>2. \A n \in 1..Len(asked') : n < calls' => asked'[n] \in DOMAIN site'
      BY <1>2, <2>6 DEF PInv, Known
    <3>3. asked'[calls'] \in DOMAIN site'
      BY <1>2, <2>4, <2>6
    <3> QED BY <3>1, <3>2, <3>3 DEF Known
  <2>9. Redirected'
    <3>1. CASE calls > 1
      <4>1. calls - 1 \in 1..Len(asked) /\ calls - 1 < calls
        BY <2>4, <3>1
      <4>2. asked[calls - 1] \in DOMAIN site
        BY <4>1 DEF PInv, Known
      <4>3. site'[asked'[calls' - 1]] = site[asked[calls - 1]]
        BY <1>2, <2>6, <4>2
      <4> QED BY <1>2, <3>1, <4>3 DEF PInv, Redirected
    <3>2. CASE ~(calls > 1)
      BY <1>2, <3>2 DEF PInv, Redirected
    <3> QED BY <3>1, <3>2
  <2>10. NotAgain'
    BY <1>2 DEF PInv, NotAgain
  <2>11. FollowedLast'
    <3> SUFFICES ASSUME NEW k \in 1..Len(asked') - 1, (site')[(asked')[k]].sent # NULL
                 PROVE  WentTo((asked')[k + 1], Value((site')[(asked')[k]].sent, <<"Location">>))
      BY DEF FollowedLast
    <3>1. k \in 1..Len(asked) - 1 /\ k \in 1..Len(asked) /\ k < calls /\ asked' = asked
      BY <1>2, <2>4
    <3>2. asked[k] \in DOMAIN site
      BY <3>1 DEF PInv, Known
    <3>3. site'[asked'[k]] = site[asked[k]]
      BY <2>6, <3>1, <3>2
    <3> QED BY <3>1, <3>3 DEF PInv, FollowedLast
  <2>12. Replied' /\ Relayed' /\ WellFormedSafe'
    BY <1>2 DEF Replied, Relayed, WellFormedSafe
  <2> QED BY <2>7, <2>8, <2>9, <2>10, <2>11, <2>12 DEF PInv
<1> QED BY <1>1, <1>2 DEF Read

\* The answer to the innermost call's request, from the moment it was read.
LEMMA AnswerType ==
  ASSUME PInv, phase \in {"parse", "redirect", "rewrite"}
  PROVE  /\ calls = Len(asked) /\ calls \in Nat /\ calls >= 1 /\ Last(asked) = asked[calls]
         /\ asked[calls] \in DOMAIN site /\ site[asked[calls]] \in Responses
<1>1. calls = Len(asked) /\ calls \in Nat /\ calls >= 1
  BY DEF PInv, Called, Sending
<1>2. asked[calls] \in DOMAIN site /\ site[asked[calls]] \in Responses
  BY DEF PInv, Known
<1> QED BY <1>1, <1>2 DEF Last

LEMMA ParseStep == ASSUME PInv, Parse PROVE PInv'
<1>1. phase = "parse"
  BY DEF Parse
<1>2. PICK r : r = site[Last(asked)]
  OBVIOUS
<1> DEFINE t == r.text
<1>3. /\ calls = Len(asked) /\ calls \in Nat /\ calls >= 1 /\ r = site[asked[calls]]
      /\ asked[calls] \in DOMAIN site /\ r \in Responses
  BY <1>1, <1>2, AnswerType
<1>4. r.sent # NULL => /\ Len(Line(t)) # Len(t) /\ ~(BodyStart(t) > Len(t) + 1)
                       /\ Scanned(t).at = "begin"
  <2> SUFFICES ASSUME r.sent # NULL
               PROVE  /\ Len(Line(t)) # Len(t) /\ ~(BodyStart(t) > Len(t) + 1)
                      /\ Scanned(t).at = "begin"
    OBVIOUS
  <2>1. r.sent \in Messages /\ r.text = Text(r.sent)
    BY <1>3, ResponseType
  <2> QED BY <2>1, MessageParsed
<1>5. \/ /\ phase' \in {"thrown", "undefined"} /\ UNCHANGED <<uri, calls, site, asked, reply>>
         /\ r.sent = NULL
      \/ /\ phase' = "redirect" /\ UNCHANGED <<uri, calls, site, asked>> /\ reply' = Parsed(t)
  <2> DEFINE short == Len(Line(t)) = Len(t) \/ BodyStart(t) > Len(t) + 1 \/ Scanned(t).at = "lf"
  <2>1. IF short THEN Throw
        ELSE IF Scanned(t).at = "line"
        THEN phase' = "undefined" /\ UNCHANGED <<uri, calls, site, asked, reply>>
        ELSE reply' = Parsed(t) /\ phase' = "redirect" /\ UNCHANGED <<uri, calls, site, asked>>
    BY <1>2, Zenon DEF Parse
  <2>2. r.sent # NULL => ~short /\ Scanned(t).at # "line"
    BY <1>4
  <2> HIDE DEF short
  <2> QED BY <2>1, <2>2 DEF Throw
<1> HIDE DEF t
<1>6. UNCHANGED <<uri, calls, site, asked>> /\ phase' \in {"thrown", "undefined", "redirect"}
  BY <1>5
<1>7. Called'
  BY <1>1, <1>3, <1>6 DEF PInv, Called, Sending, Phases, Ends
<1>8. Redirected' /\ NotAgain' /\ FollowedLast' /\ Known'
  <2>1. asked'[calls'] \in DOMAIN site'
    BY <1>3, <1>6
  <2> QED BY <1>6, <2>1, Steady DEF Known
<1>9. Replied'
  <2>1. phase' = "redirect" => reply' = Parsed(site'[asked'[calls']].text)
    BY <1>3, <1>5 DEF t
  <2> QED BY <1>6, <2>1 DEF Replied
<1>10. Relayed'
  BY <1>6 DEF Relayed
<1>11. WellFormedSafe'
  <2>1. phase' # "redirect" => Sent' = NULL
    BY <1>2, <1>5 DEF Sent
  <2> QED BY <1>6, <2>1 DEF WellFormedSafe
<1> QED BY <1>7, <1>8, <1>9, <1>10, <1>11 DEF PInv

LEMMA AgainStep == ASSUME PInv, Again PROVE PInv'
<1>1. phase = "redirect" /\ UriReplace(Location) # Location /\ UriReplace(Location) # uri
  BY DEF Again, Follows, IsRedirect
<1>2. PICK r : r = site[asked[calls]]
  OBVIOUS
<1>3. /\ calls = Len(asked) /\ calls \in Nat /\ calls >= 1
      /\ asked[calls] \in DOMAIN site /\ r \in Responses
  BY <1>1, <1>2, AnswerType
<1>4. Location = LocationOf(r)
  BY <1>1, <1>2 DEF PInv, Replied, Location, LocationOf
<1>5. \A n \in 1..calls - 1 : asked[n] # asked[n + 1]
  <2> TAKE n \in 1..calls - 1
  <2>1. CASE n \in 1..calls - 2
    BY <2>1 DEF PInv, NotAgain
  <2>2. CASE n \notin 1..calls - 2
    <3>1. n = calls - 1 /\ n + 1 = calls /\ calls > 1
      BY <1>3, <2>2
    <3>2. uri = UriReplace(LocationOf(site[asked[n]]))
      BY <3>1 DEF PInv, Redirected
    <3> QED BY <1>1, <1>2, <1>4, <3>1, <3>2
  <2> QED BY <2>1, <2>2
<1>6. UNCHANGED <<site, asked>>
  BY DEF Again
<1>7. (\A x \in DOMAIN site' : site'[x] \in Responses) /\ FollowedLast'
  <2>1. FollowedLast'
    BY <1>6 DEF PInv, FollowedLast
  <2> QED BY <1>6, <2>1 DEF PInv, Known
<1>8. \A n \in 1..Len(asked) : asked[n] \in DOMAIN site
  <2> TAKE n \in 1..Len(asked)
  <2>1. n < calls \/ n = calls
    BY <1>3
  <2> QED BY <1>3, <2>1 DEF PInv, Known
<1>9. MaxCalls \in Nat /\ calls <= MaxCalls /\ asked \in Seq(Targets)
  BY ProxyAssumption DEF PInv, Called
<1>10. CASE calls = MaxCalls
  <2>1. phase' = "overflow" /\ UNCHANGED <<uri, calls, site, asked, reply>>
    BY <1>10 DEF Again
  <2>2. Called'
    BY <1>3, <1>9, <2>1 DEF Called, Sending, Phases, Ends
  <2>3. Known'
    BY <1>3, <1>7, <1>8, <2>1 DEF Known
  <2>4. Redirected'
    BY <2>1 DEF PInv, Redirected
  <2>5. NotAgain'
    BY <1>5, <2>1 DEF PInv, NotAgain
  <2>6. Replied' /\ Relayed' /\ WellFormedSafe'
    BY <1>10, <2>1 DEF Replied, Relayed, WellFormedSafe
  <2> QED BY <1>7, <2>2, <2>3, <2>4, <2>5, <2>6 DEF PInv
<1>11. CASE calls # MaxCalls
  <2>1. /\ phase' = "resolve" /\ uri' = UriReplace(LocationOf(r)) /\ calls' = calls + 1
        /\ UNCHANGED <<site, asked>>
    BY <1>4, <1>11 DEF Again
  <2>2. Called'
    BY <1>3, <1>9, <1>11, <2>1 DEF Called, Sending, Phases, Ends
  <2>3. Known'
    BY <1>7, <1>8, <2>1 DEF Known
  <2>4. Redirected'
    <3>1. calls' - 1 = calls /\ calls' # 1
      BY <1>3, <2>1
    <3>2. site'[asked'[calls' - 1]] = r
      BY <1>2, <2>1, <3>1
    <3>3. uri' # LocationOf(r)
      BY <1>1, <1>4, <2>1
    <3> QED BY <2>1, <3>1, <3>2, <3>3 DEF Redirected
  <2>5. NotAgain'
    <3>1. calls' - 2 = calls - 1
      BY <1>3, <2>1
    <3> QED BY <1>5, <2>1, <3>1 DEF NotAgain
  <2>6. Replied' /\ Relayed' /\ WellFormedSafe'
    BY <2>1 DEF Replied, Relayed, WellFormedSafe
  <2> QED BY <1>7, <2>2, <2>3, <2>4, <2>5, <2>6 DEF PInv
<1> QED BY <1>10, <1>11

LEMMA NotFollowedStep == ASSUME PInv, NotFollowed PROVE PInv'
<1>1. phase = "redirect" /\ phase' = "rewrite" /\ UNCHANGED <<uri, calls, site, asked>>
  BY DEF NotFollowed
<1>2. PICK p : p = Parsed(site[asked[calls]].text)
  OBVIOUS
<1>3. /\ calls = Len(asked) /\ calls \in Nat /\ calls >= 1 /\ asked[calls] \in DOMAIN site
  BY <1>1, AnswerType
<1>4. reply = p /\ p = [code_ |-> p.code_, headers_ |-> p.headers_, body_ |-> p.body_]
  <2>1. reply = p
    BY <1>1, <1>2 DEF PInv, Replied
  <2>2. p = [code_ |-> p.code_, headers_ |-> p.headers_, body_ |-> p.body_]
    BY <1>2 DEF Parsed
  <2> QED BY <2>1, <2>2
<1>5. \E h \in {p.headers_, Put(p.headers_, <<"Location">>, Lookup(p.headers_, <<"Location">>))} :
        reply' = [code_ |-> p.code_, headers_ |-> h, body_ |-> p.body_]
  <2>1. CASE reply.code_ \in {301, 302}
    <3>1. reply' = [reply EXCEPT !.headers_ = Put(@, <<"Location">>, Location)]
      BY <2>1 DEF NotFollowed
    <3>2. PICK h : h = Put(p.headers_, <<"Location">>, Lookup(p.headers_, <<"Location">>))
      OBVIOUS
    <3>3. reply' = [p EXCEPT !.headers_ = h]
      BY <1>4, <3>1, <3>2 DEF Location
    <3>4. reply' = [code_ |-> p.code_, headers_ |-> h, body_ |-> p.body_]
      BY <1>4, <3>3
    <3> QED BY <3>2, <3>4
  <2>2. CASE reply.code_ \notin {301, 302}
    <3>1. reply' = p
      BY <1>4, <2>2 DEF NotFollowed
    <3> QED BY <1>4, <3>1
  <2> QED BY <2>1, <2>2
<1>6. Called'
  BY <1>1, <1>3 DEF PInv, Called, Sending, Phases, Ends
<1>7. Redirected' /\ NotAgain' /\ FollowedLast' /\ Known'
  <2>1. asked'[calls'] \in DOMAIN site'
    BY <1>1, <1>3
  <2> QED BY <1>1, <2>1, Steady DEF Known
<1>8. Replied'
  <2>1. p = Parsed(site'[asked'[calls']].text)
    BY <1>1, <1>2
  <2> QED BY <1>1, <1>5, <2>1 DEF Replied
<1>9. Relayed' /\ WellFormedSafe'
  BY <1>1 DEF Relayed, WellFormedSafe
<1> QED BY <1>6, <1>7, <1>8, <1>9 DEF PInv

\* The headers of the reply to a well-formed response, before the last rewriting.
LEMMA MessageReply ==
  ASSUME PInv, phase = "rewrite", Sent # NULL
  PROVE  /\ Sent \in Messages
         /\ \E h : /\ reply = [code_ |-> Sent.code, headers_ |-> h, body_ |-> Sent.body]
                   /\ \A n \in DOMAIN Sent.lines : Trim(Sent.lines[n][1]) \in DOMAIN h
                   /\ \A name : Lookup(h, name) = Value(Sent, name)
<1>1. PICK r : r = site[asked[calls]]
  OBVIOUS
<1>2. r \in Responses /\ Sent = r.sent
  BY <1>1, AnswerType DEF Sent
<1>3. PICK m : m = Sent
  OBVIOUS
<1>4. m \in Messages /\ r.text = Text(m)
  BY <1>2, <1>3, ResponseType
<1>5. PICK p : p = Parsed(Text(m))
  OBVIOUS
<1>6. p.code_ = m.code /\ p.body_ = m.body /\ Stored(p.headers_, m.lines)
  BY <1>4, <1>5, MessageParsed
<1>7. \A name : Lookup(p.headers_, name) = Value(m, name)
  BY <1>4, <1>6, StoredValues
<1>8. \A n \in DOMAIN m.lines : Trim(m.lines[n][1]) \in DOMAIN p.headers_
  <2>1. DOMAIN m.lines = 1..Len(m.lines)
    BY <1>4, MessageType
  <2> QED BY <1>6, <2>1 DEF Stored
<1>9. p = Parsed(site[asked[calls]].text)
  BY <1>1, <1>4, <1>5
<1>10. PICK h \in {p.headers_, Put(p.headers_, <<"Location">>, Lookup(p.headers_, <<"Location">>))} :
         reply = [code_ |-> p.code_, headers_ |-> h, body_ |-> p.body_]
  BY <1>9 DEF PInv, Replied
<1>11. DOMAIN p.headers_ \subseteq DOMAIN h /\ \A name : Lookup(h, name) = Lookup(p.headers_, name)
  <2>1. CASE h = p.headers_
    BY <2>1
  <2>2. CASE h = Put(p.headers_, <<"Location">>, Lookup(p.headers_, <<"Location">>))
    <3>1. PICK k : k = <<"Location">>
      OBVIOUS
    <3>2. PICK g : g = p.headers_
      OBVIOUS
    <3>3. h = Put(g, k, Lookup(g, k))
      BY <2>2, <3>1, <3>2, Zenon
    <3>4. DOMAIN h = {k} \cup DOMAIN g
      BY <3>3 DEF Put
    <3>5. \A name : Lookup(h, name) = Lookup(g, name)
      BY <3>3, LookupKept
    <3> QED BY <3>2, <3>4, <3>5
  <2> QED BY <1>10, <2>1, <2>2
<1>12. reply = [code_ |-> m.code, headers_ |-> h, body_ |-> m.body]
  BY <1>6, <1>10
<1> QED BY <1>3, <1>4, <1>7, <1>8, <1>11, <1>12

LEMMA SizedIs ==
  ASSUME NEW code, NEW h, NEW old, NEW body
  PROVE  LET s == Sized([code_ |-> code, headers_ |-> h, body_ |-> old], body)
         IN  /\ s.code_ = code /\ s.body_ = body
             /\ DOMAIN s.headers_ = {<<"Content-Length">>} \cup DOMAIN h
             /\ s.headers_[<<"Content-Length">>] = Len(body)
             /\ \A x \in DOMAIN h : x # <<"Content-Length">> => s.headers_[x] = h[x]
<1>1. PICK g : g = Put(h, <<"Content-Length">>, Len(body))
  OBVIOUS
<1>2. Sized([code_ |-> code, headers_ |-> h, body_ |-> old], body)
        = [code_ |-> code, headers_ |-> g, body_ |-> body]
  <2>1. PICK r : r = [code_ |-> code, headers_ |-> h, body_ |-> old]
    OBVIOUS
  <2>2. r.headers_ = h
    BY <2>1
  <2>3. Sized(r, body) = [r EXCEPT !.body_ = body, !.headers_ = g]
    BY <1>1, <2>1, <2>2 DEF Sized
  <2> QED BY <2>1, <2>3
<1>3. /\ DOMAIN g = {<<"Content-Length">>} \cup DOMAIN h /\ g[<<"Content-Length">>] = Len(body)
      /\ \A x \in DOMAIN h : x # <<"Content-Length">> => g[x] = h[x]
  BY <1>1 DEF Put
<1> QED BY <1>2, <1>3

\* What Relayed says of one reply.
RelayedReply(r, m) ==
  /\ r.code_ = m.code
  /\ \A n \in DOMAIN m.lines : Trim(m.lines[n][1]) \in DOMAIN r.headers_
  /\ \A h \in DOMAIN r.headers_ \ {<<"Content-Length">>} : r.headers_[h] = Value(m, h)
  /\ IF Value(m, <<"Content-Encoding">>) = <<"gzip">>
     THEN Head(r.body_) = "gz" /\ Tail(r.body_) = Links(Tail(m.body))
     ELSE r.body_ = Links(m.body)
  /\ r.headers_[<<"Content-Length">>] = Len(r.body_)

LEMMA RewriteReply ==
  ASSUME NEW m \in Messages, NEW h,
         \A n \in DOMAIN m.lines : Trim(m.lines[n][1]) \in DOMAIN h,
         \A name : Lookup(h, name) = Value(m, name),
         NEW body,
         IF Value(m, <<"Content-Encoding">>) = <<"gzip">>
         THEN m.body # <<>> /\ body = <<"gz">> \o Links(Tail(m.body))
         ELSE body = Links(m.body)
  PROVE  RelayedReply(Sized([code_ |-> m.code, headers_ |-> h, body_ |-> m.body], body), m)
<1>1. PICK s : s = Sized([code_ |-> m.code, headers_ |-> h, body_ |-> m.body], body)
  OBVIOUS
<1>2. /\ s.code_ = m.code /\ s.body_ = body
      /\ DOMAIN s.headers_ = {<<"Content-Length">>} \cup DOMAIN h
      /\ s.headers_[<<"Content-Length">>] = Len(body)
      /\ \A x \in DOMAIN h : x # <<"Content-Length">> => s.headers_[x] = h[x]
  BY <1>1, SizedIs
<1>3. \A x \in DOMAIN s.headers_ \ {<<"Content-Length">>} : s.headers_[x] = Value(m, x)
  <2> TAKE x \in DOMAIN s.headers_ \ {<<"Content-Length">>}
  <2>1. x \in DOMAIN h /\ s.headers_[x] = h[x]
    BY <1>2
  <2>2. Lookup(h, x) = h[x]
    BY <2>1 DEF Lookup
  <2> QED BY <2>1, <2>2
<1>4. IF Value(m, <<"Content-Encoding">>) = <<"gzip">>
      THEN Head(s.body_) = "gz" /\ Tail(s.body_) = Links(Tail(m.body))
      ELSE s.body_ = Links(m.body)
  <2>1. CASE Value(m, <<"Content-Encoding">>) = <<"gzip">>
    <3>1. m.body \in Seq(Chars) /\ m.body # <<>>
      BY <2>1, MessageType
    <3>2. Tail(m.body) \in Seq(Chars)
      BY <3>1
    <3>3. PICK l : l = Links(Tail(m.body))
      OBVIOUS
    <3>4. l \in Seq(Chars)
      BY <3>2, <3>3, LinksType
    <3>5. Head(<<"gz">> \o l) = "gz" /\ Tail(<<"gz">> \o l) = l
      BY <3>4
    <3> QED BY <1>2, <2>1, <3>3, <3>5
  <2>2. CASE Value(m, <<"Content-Encoding">>) # <<"gzip">>
    BY <1>2, <2>2
  <2> QED BY <2>1, <2>2
<1>5. \A n \in DOMAIN m.lines : Trim(m.lines[n][1]) \in DOMAIN s.headers_
  BY <1>2
<1> QED BY <1>1, <1>2, <1>3, <1>4, <1>5 DEF RelayedReply

LEMMA RewriteStep == ASSUME PInv, Rewrite PROVE PInv'
<1>1. phase = "rewrite"
  BY DEF Rewrite
<1>2. /\ calls = Len(asked) /\ calls \in Nat /\ calls >= 1 /\ asked[calls] \in DOMAIN site
  BY <1>1, AnswerType
<1>3. \/ UNCHANGED reply /\ phase' \in {"hung", "thrown"}
      \/ phase' = "returned"
  BY DEF Rewrite, Return, Throw
<1>4. UNCHANGED <<uri, calls, site, asked>>
  BY DEF Rewrite, Return, Throw
<1>5. Called'
  BY <1>1, <1>2, <1>3, <1>4 DEF PInv, Called, Sending, Phases, Ends
<1>6. Redirected' /\ NotAgain' /\ FollowedLast' /\ Known'
  <2>1. asked'[calls'] \in DOMAIN site'
    BY <1>2, <1>4
  <2>2. phase' \notin {"overflow"}
    BY <1>3
  <2> QED BY <1>4, <2>1, <2>2, Steady DEF Known
<1>7. Replied'
  BY <1>3 DEF Replied
<1>8. CASE Sent = NULL
  <2>1. Sent' = NULL
    BY <1>4, <1>8 DEF Sent
  <2>2. Relayed' /\ WellFormedSafe'
    BY <2>1 DEF Relayed, WellFormedSafe
  <2> QED BY <1>5, <1>6, <1>7, <2>2 DEF PInv
<1>9. CASE Sent # NULL
  <2>1. PICK m : m = Sent
    OBVIOUS
  <2>2. PICK h : /\ reply = [code_ |-> m.code, headers_ |-> h, body_ |-> m.body]
                 /\ \A n \in DOMAIN m.lines : Trim(m.lines[n][1]) \in DOMAIN h
                 /\ \A name : Lookup(h, name) = Value(m, name)
    BY <1>1, <1>9, <2>1, MessageReply
  <2>3. m \in Messages /\ Sent' = m
    BY <1>1, <1>4, <1>9, <2>1, MessageReply DEF Sent
  <2>4. reply.headers_ = h /\ reply.body_ = m.body
    BY <2>2
  <2>5. Gzipped <=> Value(m, <<"Content-Encoding">>) = <<"gzip">>
    BY <2>2, <2>4, Zenon DEF Gzipped
  <2> DEFINE gzip == Value(m, <<"Content-Encoding">>) = <<"gzip">>
  <2>6. \/ ~gzip /\ phase' = "returned" /\ reply' = Sized(reply, Links(m.body))
        \/ gzip /\ m.body = <<>> /\ phase' = "hung"
        \/ gzip /\ m.body # <<>> /\ Head(m.body) # "gz" /\ phase' = "thrown"
        \/ /\ gzip /\ m.body # <<>> /\ phase' = "returned"
           /\ reply' = Sized(reply, <<"gz">> \o Links(Tail(m.body)))
    BY <2>4, <2>5, Zenon DEF Rewrite, Return, Throw
  <2>7. Relayed'
    <3>1. CASE ~gzip /\ phase' = "returned" /\ reply' = Sized(reply, Links(m.body))
      <4>1. RelayedReply(reply', m)
        BY <2>2, <2>3, <3>1, RewriteReply
      <4> QED BY <2>3, <4>1 DEF Relayed, RelayedReply
    <3>2. CASE /\ gzip /\ m.body # <<>> /\ phase' = "returned"
               /\ reply' = Sized(reply, <<"gz">> \o Links(Tail(m.body)))
      <4>1. RelayedReply(reply', m)
        BY <2>2, <2>3, <3>2, RewriteReply
      <4> QED BY <2>3, <4>1 DEF Relayed, RelayedReply
    <3>3. CASE phase' # "returned"
      BY <3>3 DEF Relayed
    <3> QED BY <2>6, <3>1, <3>2, <3>3
  <2>8. WellFormedSafe'
    <3>1. phase' # "undefined" /\ (phase' \in {"thrown", "hung"} => gzip)
      BY <2>6
    <3>2. (phase' = "thrown" => Head(m.body) # "gz") /\ (phase' = "hung" => m.body = <<>>)
      BY <2>6
    <3> HIDE DEF gzip
    <3> QED BY <2>3, <3>1, <3>2 DEF WellFormedSafe, gzip
  <2> QED BY <1>5, <1>6, <1>7, <2>7, <2>8 DEF PInv
<1> QED BY <1>8, <1>9

LEMMA UnchangedStep == ASSUME PInv, UNCHANGED vars PROVE PInv'
<1> USE DEF vars
<1>1. Called' /\ Known' /\ Redirected' /\ NotAgain'
  BY DEF PInv, Called, Known, Redirected, NotAgain
<1>2. Replied'
  BY DEF PInv, Replied
<1>3. FollowedLast'
  BY DEF PInv, FollowedLast
<1>4. Relayed'
  BY DEF PInv, Relayed, Sent
<1>5. WellFormedSafe'
  BY DEF PInv, WellFormedSafe, Sent, Answered
<1> QED BY <1>1, <1>2, <1>3, <1>4, <1>5 DEF PInv

LEMMA StepPInv == PInv /\ [Next]_vars => PInv'
<1> SUFFICES ASSUME PInv, [Next]_vars PROVE PInv'
  OBVIOUS
<1>1. CASE Resolve
  BY <1>1, ResolveStep
<1>2. CASE Connect
  BY <1>2, ConnectStep
<1>3. CASE Write
  BY <1>3, WriteStep
<1>4. CASE Read
  BY <1>4, ReadStep
<1>5. CASE Parse
  BY <1>5, ParseStep
<1>6. CASE Again
  BY <1>6, AgainStep
<1>7. CASE NotFollowed
  BY <1>7, NotFollowedStep
<1>8. CASE Rewrite
  BY <1>8, RewriteStep
<1>9. CASE Ended
  BY <1>9, UnchangedStep DEF Ended
<1>10. CASE UNCHANGED vars
  BY <1>10, UnchangedStep
<1> QED BY <1>1, <1>2, <1>3, <1>4, <1>5, <1>6, <1>7, <1>8, <1>9, <1>10 DEF Next

LEMMA PInvHolds == Spec => []PInv
<1>1. Init => PInv
  BY InitPInv
<1>2. PInv /\ [Next]_vars => PInv'
  BY StepPInv
<1> QED BY <1>1, <1>2, PTL DEF Spec

-----------------------------------------------------------------------------
(* The theorems.                                                           *)

\* reverse_proxy_handler.cc:130-222: whatever the site, the reply that is returned
\* for a well-formed response has the code, the headers and the rewritten page of
\* the message that was sent.
THEOREM RepliesAreRelayed == Spec => []Relayed
<1>1. PInv => Relayed
  BY DEF PInv
<1> QED BY <1>1, PInvHolds, PTL

\* reverse_proxy_handler.cc:184-196: whatever the location path, the URIs and the
\* locations, no location without the host name is followed, and a nested request is
\* for the path that the location names wherever the name does not come again in it.
THEOREM RedirectionsAreFollowed == Spec => []Followed
<1>1. PInv => Followed
  <2> SUFFICES ASSUME PInv, NEW n \in 1..Len(asked) - 1, site[asked[n]].sent # NULL
               PROVE  LeadsTo(Value(site[asked[n]].sent, <<"Location">>), asked[n + 1])
    BY DEF Followed
  <2>1. n \in 1..Len(asked) /\ n < calls
    BY DEF PInv, Called
  <2>2. PICK r : r = site[asked[n]]
    OBVIOUS
  <2>3. r \in Responses /\ r.sent # NULL
    BY <2>1, <2>2 DEF PInv, Known
  <2>4. PICK l : l = Value(r.sent, <<"Location">>)
    OBVIOUS
  <2>5. l \in Seq(Chars)
    BY <2>3, <2>4, MessageLocation
  <2>6. WentTo(asked[n + 1], l)
    BY <2>2, <2>3, <2>4 DEF PInv, FollowedLast
  <2>7. LeadsTo(l, asked[n + 1])
    BY <2>5, <2>6, LastLeads DEF WentTo
  <2> QED BY <2>2, <2>4, <2>7
<1> QED BY <1>1, PInvHolds, PTL

\* reverse_proxy_handler.cc:130-205: no well-formed response of any length is read
\* past its end, and none but a bad gzip page ends in an exception or in a loop.
THEOREM WellFormedIsSafe == Spec => []WellFormedSafe
<1>1. PInv => WellFormedSafe
  BY DEF PInv
<1> QED BY <1>1, PInvHolds, PTL

\* Three requests of which the first and the last are for one target, and the one
\* between them is for another.
Cycle == \E m, n, k \in DOMAIN asked : m < n /\ n < k /\ asked[m] = asked[k] /\ asked[m] # asked[n]

LEMMA ManyRequestsCycle ==
  ASSUME FewTargets, PInv, phase = "overflow"
  PROVE  Cycle
<1>1. /\ calls = MaxCalls /\ Len(asked) = MaxCalls /\ MaxCalls \in Nat /\ asked \in Seq(Targets)
  BY ProxyAssumption DEF PInv, Called, Replied, Sending
<1>2. asked \in [1..MaxCalls -> Targets] /\ DOMAIN asked = 1..MaxCalls
  BY <1>1
<1>3. \A n \in 1..MaxCalls - 1 : asked[n] # asked[n + 1]
  BY <1>1 DEF PInv, NotAgain
<1>4. IsFiniteSet(1..MaxCalls) /\ Cardinality(1..MaxCalls) = MaxCalls
  BY <1>1, FS_Interval
<1>5. \E i, j \in 1..MaxCalls : i # j /\ asked[i] = asked[j]
  BY <1>2, <1>4, FS_PigeonHole DEF FewTargets
<1>6. PICK i, j \in 1..MaxCalls : i < j /\ asked[i] = asked[j]
  <2>1. PICK i, j \in 1..MaxCalls : i # j /\ asked[i] = asked[j]
    BY <1>5
  <2>2. i < j \/ j < i
    BY <1>1, <2>1
  <2> QED BY <2>1, <2>2
<1>7. i \in 1..MaxCalls - 1 /\ i + 1 \in 1..MaxCalls /\ i < i + 1
  BY <1>1, <1>6
<1>8. asked[i] # asked[i + 1]
  BY <1>3, <1>7
<1>9. i + 1 < j
  BY <1>1, <1>6, <1>8
<1> QED BY <1>2, <1>6, <1>7, <1>8, <1>9 DEF Cycle

\* reverse_proxy_handler.cc:189-196: where the stack has room for more calls than
\* there are targets to be redirected to, it is exhausted only by redirections
\* that go round through two targets or more.
THEOREM OverflowNeedsACycle ==
  ASSUME FewTargets
  PROVE  Spec => []OnlyCyclesOverflow
<1>1. PInv => OnlyCyclesOverflow
  BY ManyRequestsCycle DEF OnlyCyclesOverflow, Cycle
<1> QED BY <1>1, PInvHolds, PTL
=============================================================================
