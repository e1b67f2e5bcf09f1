--------------------------- MODULE SequenceLemmas ---------------------------
(***************************************************************************)
(* What the proofs about parsers need of numbers and sequences: induction, *)
(* the least and the greatest element of a set of places, and what         *)
(* FlattenSeq of the community modules returns.                            *)
(***************************************************************************)
EXTENDS Integers, SequencesExt, SequenceTheorems, FiniteSetTheorems, WellFoundedInduction, TLAPS

-----------------------------------------------------------------------------
(* Numbers: induction, the least and the greatest element of a set.        *)

Less == {p \in Nat \X Nat : p[1] < p[2]}

LEMMA LessWF == IsWellFoundedOn(Less, Nat)
  <1>1. OpToRel(<, Nat) = Less
    BY DEF OpToRel, Less
  <1> QED BY <1>1, NatLessThanWellFounded

LEMMA LeastExists ==
  ASSUME NEW T \in SUBSET Nat, T # {}
  PROVE  \E x \in T : \A y \in T : x <= y
  <1>1. PICK x \in T : \A y \in T : ~ (<<y, x>> \in Less)
    BY LessWF, WFMin, Zenon
  <1>2. ASSUME NEW y \in T PROVE x <= y
    <2>1. x \in Nat /\ y \in Nat /\ <<y, x>> \notin Less
      BY <1>1
    <2> QED BY <2>1 DEF Less
  <1> QED BY <1>2

LEMMA MinLeast ==
  ASSUME NEW T \in SUBSET Nat, T # {}
  PROVE  Min(T) \in T /\ \A y \in T : Min(T) <= y
  BY LeastExists DEF Min

LEMMA MinIs ==
  ASSUME NEW T \in SUBSET Nat, NEW x \in T, \A y \in T : x <= y
  PROVE  Min(T) = x
  <1>1. Min(T) \in T /\ \A y \in T : Min(T) <= y
    BY MinLeast
  <1>2. Min(T) \in Nat /\ x \in Nat
    BY <1>1
  <1> QED BY <1>1, <1>2

\* Induction: a property that holds at 0 and passes from n to n + 1.
LEMMA Induction ==
  ASSUME NEW T \in SUBSET Nat, 0 \in T, \A n \in T : n + 1 \in T
  PROVE  T = Nat
  <1> DEFINE U == Nat \ T
  <1> SUFFICES ASSUME U # {} PROVE FALSE
    OBVIOUS
  <1>1. PICK u \in U : \A y \in U : u <= y
    <2>1. U \in SUBSET Nat
      OBVIOUS
    <2> QED BY <2>1, LeastExists
  <1>2. u \in Nat /\ u # 0
    OBVIOUS
  <1>3. u - 1 \in Nat /\ u - 1 \notin U
    BY <1>1, <1>2
  <1>4. u - 1 \in T
    BY <1>3
  <1> QED BY <1>2, <1>4

LEMMA GreatestExists ==
  ASSUME NEW b \in Nat, NEW T \in SUBSET (0..b), T # {}
  PROVE  \E x \in T : \A y \in T : x >= y
  <1> DEFINE U == {n \in 0..b : b - n \in T}
  <1>1. PICK t \in T : TRUE
    OBVIOUS
  <1>2. b - t \in U
    BY <1>1
  <1>3. U \in SUBSET Nat
    OBVIOUS
  <1>4. PICK u \in U : \A y \in U : u <= y
    BY <1>2, <1>3, LeastExists
  <1>5. \A y \in T : b - u >= y
    <2> TAKE y \in T
    <2>1. y \in 0..b /\ b - (b - y) = y
      OBVIOUS
    <2>2. b - y \in U
      BY <2>1
    <2>3. u \in 0..b /\ u <= b - y
      BY <2>2, <1>4
    <2> QED BY <2>1, <2>3
  <1> QED BY <1>4, <1>5

LEMMA MaxGreatest ==
  ASSUME NEW b \in Nat, NEW T \in SUBSET (0..b), T # {}
  PROVE  Max(T) \in T /\ \A y \in T : Max(T) >= y
  BY GreatestExists DEF Max

LEMMA MaxIs ==
  ASSUME NEW b \in Nat, NEW T \in SUBSET (0..b), NEW n \in T, \A y \in T : y <= n
  PROVE  Max(T) = n
  <1>1. Max(T) \in T /\ \A y \in T : Max(T) >= y
    BY MaxGreatest
  <1>2. Max(T) \in 0..b /\ n \in 0..b
    BY <1>1
  <1> QED BY <1>1, <1>2

LEMMA MaxOfPlaces ==
  ASSUME NEW n \in Nat, NEW s \in SUBSET (1..n), s # {}
  PROVE  /\ Max(s) \in s /\ s \ {Max(s)} \in SUBSET (1..n)
         /\ n \in s => Max(s) = n
  <1>1. s \in SUBSET (0..n)
    OBVIOUS
  <1>2. Max(s) \in s /\ \A y \in s : Max(s) >= y
    BY <1>1, MaxGreatest
  <1>3. Max(s) \in 1..n
    BY <1>2
  <1>4. n \in s => Max(s) = n
    BY <1>2, <1>3
  <1> QED BY <1>2, <1>4

-----------------------------------------------------------------------------
(* Concatenation. *)

LEMMA Regroup == \A A : \A u, v, w \in Seq(A) : u \o (v \o w) = (u \o v) \o w
<1> SUFFICES ASSUME NEW A, NEW u \in Seq(A), NEW v \in Seq(A), NEW w \in Seq(A)
             PROVE  u \o (v \o w) = (u \o v) \o w
  OBVIOUS
<1> QED BY SMT

-----------------------------------------------------------------------------
(* FlattenSeq, by its recursive function.                                  *)

Flattens(g, f, n) == g = [i \in 1..n |-> IF i = 1 THEN f[i] ELSE g[i - 1] \o f[i]]

LEMMA FlattenChosen ==
  ASSUME NEW f, NEW n \in Nat, n = Len(f), n # 0, NEW h, Flattens(h, f, n)
  PROVE  \E g : Flattens(g, f, n) /\ FlattenSeq(f) = g[n]
<1> DEFINE c == CHOOSE g : Flattens(g, f, n)
<1>1. Flattens(c, f, n)
  BY Zenon
<1>2. FlattenSeq(f) = c[n]
  BY DEF FlattenSeq, Flattens
<1> QED BY <1>1, <1>2, Zenon

\* What the function is at each place.
LEMMA FlattensAt ==
  ASSUME NEW A, NEW n \in Nat, NEW f, \A i \in 1..n : f[i] \in Seq(A), NEW g, Flattens(g, f, n)
  PROVE  /\ \A i \in 1..n : g[i] = IF i = 1 THEN f[i] ELSE g[i - 1] \o f[i]
         /\ \A i \in 1..n : g[i] \in Seq(A)
<1>1. \A i \in 1..n : g[i] = IF i = 1 THEN f[i] ELSE g[i - 1] \o f[i]
  BY DEF Flattens
<1> DEFINE T == {k \in Nat : k + 1 <= n => g[k + 1] \in Seq(A)}
<1>2. 0 \in T
  BY <1>1
<1>3. ASSUME NEW k \in T PROVE k + 1 \in T
  <2> SUFFICES ASSUME (k + 1) + 1 <= n PROVE g[(k + 1) + 1] \in Seq(A)
    OBVIOUS
  <2>1. (k + 1) + 1 \in 1..n /\ (k + 1) + 1 # 1 /\ ((k + 1) + 1) - 1 = k + 1 /\ k + 1 <= n
    OBVIOUS
  <2>2. g[(k + 1) + 1] = g[k + 1] \o f[(k + 1) + 1] /\ g[k + 1] \in Seq(A) /\ f[(k + 1) + 1] \in Seq(A)
    BY <1>1, <2>1
  <2> QED BY <2>2
<1>4. T = Nat
  <2>1. T \in SUBSET Nat
    OBVIOUS
  <2> HIDE DEF T
  <2> QED BY <1>2, <1>3, <2>1, Induction
<1>5. ASSUME NEW i \in 1..n PROVE g[i] \in Seq(A)
  <2>1. i - 1 \in Nat /\ (i - 1) + 1 = i /\ i <= n
    OBVIOUS
  <2>2. i - 1 \in T
    <3> HIDE DEF T
    <3> QED BY <1>4, <2>1
  <2> QED BY <2>1, <2>2
<1> QED BY <1>1, <1>5

\* There is one for every length.
LEMMA FlattensExists ==
  ASSUME NEW A, NEW n \in Nat, NEW f, \A i \in 1..n : f[i] \in Seq(A)
  PROVE  \E g : Flattens(g, f, n)
<1> DEFINE T == {k \in Nat : k <= n => \E g : Flattens(g, f, k)}
<1>1. 0 \in T
  <2>1. Flattens([i \in 1..0 |-> <<>>], f, 0)
    BY DEF Flattens
  <2> QED BY <2>1
<1>2. ASSUME NEW k \in T PROVE k + 1 \in T
  <2> SUFFICES ASSUME k + 1 <= n PROVE \E g : Flattens(g, f, k + 1)
    OBVIOUS
  <2>1. PICK g : Flattens(g, f, k)
    OBVIOUS
  <2> DEFINE h == [i \in 1..k + 1 |-> IF i = k + 1
                                      THEN IF k = 0 THEN f[1] ELSE g[k] \o f[k + 1]
                                      ELSE g[i]]
  <2>2. \A i \in 1..k : g[i] = IF i = 1 THEN f[i] ELSE g[i - 1] \o f[i]
    BY <2>1 DEF Flattens
  <2>3. ASSUME NEW i \in 1..k + 1
        PROVE  h[i] = IF i = 1 THEN f[i] ELSE h[i - 1] \o f[i]
    <3>1. CASE i = k + 1
      <4>1. k # 0 => h[i - 1] = g[k]
        BY <3>1
      <4> QED BY <3>1, <4>1
    <3>2. CASE i # k + 1
      <4>1. i \in 1..k /\ h[i] = g[i] /\ (i # 1 => h[i - 1] = g[i - 1])
        BY <3>2
      <4> QED BY <2>2, <4>1
    <3> QED BY <3>1, <3>2
  <2>4. Flattens(h, f, k + 1)
    <3>1. h = [i \in 1..k + 1 |-> IF i = 1 THEN f[i] ELSE h[i - 1] \o f[i]]
      <4>1. h = [i \in 1..k + 1 |-> h[i]]
        OBVIOUS
      <4> HIDE DEF h
      <4> QED BY <2>3, <4>1
    <3> HIDE DEF h
    <3> QED BY <3>1 DEF Flattens
  <2> QED BY <2>4
<1>3. T = Nat
  <2>1. T \in SUBSET Nat
    OBVIOUS
  <2> HIDE DEF T
  <2> QED BY <1>1, <1>2, <2>1, Induction
<1>4. n \in T
  BY <1>3
<1> QED BY <1>4

\* Two of them for sequences that agree.
Agree(e, f, m) == \A i \in 1..m : e[i] = f[i]

LEMMA FlattensAgree ==
  ASSUME NEW n \in Nat, NEW f, NEW g, Flattens(g, f, n),
         NEW m \in 0..n, NEW e, Agree(e, f, m), NEW h, Flattens(h, e, m)
  PROVE  Agree(h, g, m)
<1> USE DEF Agree
<1>1. \A i \in 1..n : g[i] = IF i = 1 THEN f[i] ELSE g[i - 1] \o f[i]
  BY DEF Flattens
<1>2. \A i \in 1..m : h[i] = IF i = 1 THEN e[i] ELSE h[i - 1] \o e[i]
  BY DEF Flattens
<1> DEFINE T == {k \in Nat : k + 1 <= m => h[k + 1] = g[k + 1]}
<1>3. 0 \in T
  BY <1>1, <1>2
<1>4. ASSUME NEW k \in T PROVE k + 1 \in T
  <2> SUFFICES ASSUME (k + 1) + 1 <= m PROVE h[(k + 1) + 1] = g[(k + 1) + 1]
    OBVIOUS
  <2>1. /\ (k + 1) + 1 \in 1..m /\ (k + 1) + 1 \in 1..n /\ (k + 1) + 1 # 1
        /\ ((k + 1) + 1) - 1 = k + 1 /\ k + 1 <= m
    OBVIOUS
  <2>2. h[(k + 1) + 1] = h[k + 1] \o e[(k + 1) + 1] /\ g[(k + 1) + 1] = g[k + 1] \o f[(k + 1) + 1]
    BY <1>1, <1>2, <2>1
  <2> QED BY <2>1, <2>2
<1>5. T = Nat
  <2>1. T \in SUBSET Nat
    OBVIOUS
  <2> HIDE DEF T
  <2> QED BY <1>3, <1>4, <2>1, Induction
<1>6. ASSUME NEW i \in 1..m PROVE h[i] = g[i]
  <2>1. i - 1 \in Nat /\ (i - 1) + 1 = i /\ i <= m
    OBVIOUS
  <2>2. i - 1 \in T
    <3> HIDE DEF T
    <3> QED BY <1>5, <2>1
  <2> QED BY <2>1, <2>2
<1> QED BY <1>6

LEMMA FlattenEmpty == ASSUME NEW f, Len(f) = 0 PROVE FlattenSeq(f) = f
BY DEF FlattenSeq

LEMMA FlattenType ==
  ASSUME NEW A, NEW f \in Seq(Seq(A))
  PROVE  FlattenSeq(f) \in Seq(A)
<1> DEFINE n == Len(f)
<1>1. CASE n = 0
  <2>1. f = <<>> /\ <<>> \in Seq(A)
    BY <1>1
  <2> QED BY <1>1, <2>1, FlattenEmpty
<1>2. CASE n # 0
  <2>1. n \in Nat /\ \A i \in 1..n : f[i] \in Seq(A)
    OBVIOUS
  <2>2. \E g : Flattens(g, f, n)
    BY <2>1, FlattensExists, Zenon
  <2>3. PICK g : Flattens(g, f, n) /\ FlattenSeq(f) = g[n]
    BY <1>2, <2>1, <2>2, FlattenChosen, Zenon
  <2>4. g[n] \in Seq(A)
    <3> HIDE DEF n
    <3>1. n \in 1..n
      BY <1>2, <2>1
    <3>2. \A i \in 1..n : g[i] \in Seq(A)
      BY <2>1, <2>3, FlattensAt, Zenon
    <3> QED BY <3>1, <3>2
  <2> QED BY <2>3, <2>4
<1> QED BY <1>1, <1>2

\* The last part of a sequence comes last.
LEMMA FlattenLast ==
  ASSUME NEW A, NEW f \in Seq(Seq(A)), NEW e \in Seq(Seq(A)), Len(f) = Len(e) + 1,
         \A i \in 1..Len(e) : e[i] = f[i]
  PROVE  FlattenSeq(f) = FlattenSeq(e) \o f[Len(f)]
<1> DEFINE n == Len(f)
           m == Len(e)
<1>1. /\ n \in Nat /\ m \in Nat /\ n = m + 1 /\ n # 0 /\ m \in 0..n /\ n \in 1..n
      /\ \A i \in 1..n : f[i] \in Seq(A)
      /\ \A i \in 1..m : e[i] \in Seq(A)
  OBVIOUS
<1>2. \E g : Flattens(g, f, n)
  BY <1>1, FlattensExists, Zenon
<1>3. PICK g : Flattens(g, f, n) /\ FlattenSeq(f) = g[n]
  BY <1>1, <1>2, FlattenChosen, Zenon
<1>4. \A i \in 1..n : g[i] = IF i = 1 THEN f[i] ELSE g[i - 1] \o f[i]
  BY <1>3 DEF Flattens
<1>5. CASE m = 0
  <2>1. FlattenSeq(e) = e /\ e = <<>>
    BY <1>5, FlattenEmpty
  <2>2. g[n] = f[n] /\ f[n] \in Seq(A)
    BY <1>1, <1>4, <1>5
  <2>3. <<>> \o f[n] = f[n]
    BY <2>2
  <2> QED BY <1>3, <2>1, <2>2, <2>3
<1>6. CASE m # 0
  <2>1. \E h : Flattens(h, e, m)
    BY <1>1, FlattensExists, Zenon
  <2>2. PICK h : Flattens(h, e, m) /\ FlattenSeq(e) = h[m]
    BY <1>1, <1>6, <2>1, FlattenChosen, Zenon
  <2>3. \A i \in 1..m : e[i] = f[i]
    OBVIOUS
  <2> HIDE DEF m, n
  <2>4. \A i \in 1..m : h[i] = g[i]
    <3>1. n \in Nat /\ m \in 0..n /\ Agree(e, f, m)
      BY <1>1, <2>3 DEF Agree
    <3>2. Agree(h, g, m)
      BY <1>3, <2>2, <3>1, FlattensAgree, Zenon
    <3> QED BY <3>2 DEF Agree
  <2>5. g[n] = g[m] \o f[n] /\ h[m] = g[m]
    <3>1. n # 1 /\ n - 1 = m /\ m \in 1..m
      BY <1>1, <1>6
    <3> QED BY <1>1, <1>4, <2>4, <3>1
  <2> QED BY <1>3, <2>2, <2>5 DEF n
<1> QED BY <1>5, <1>6

-----------------------------------------------------------------------------
(* Induction over sequences, and FlattenSeq of sequences put together.     *)

\* A function on 1..n is a sequence of length n.
LEMMA TableOf ==
  ASSUME NEW A, NEW n \in Nat, NEW f \in [1..n -> A]
  PROVE  f \in Seq(A) /\ Len(f) = n
OBVIOUS

\* Induction over the sequences of a set, by what is appended.
LEMMA SequencesGrow ==
  ASSUME NEW A, NEW T \in SUBSET Seq(A), <<>> \in T, \A s \in T, x \in A : Append(s, x) \in T
  PROVE  T = Seq(A)
<1>0. ASSUME NEW n \in Nat, NEW s \in Seq(A), Len(s) = n + 1
      PROVE  \E r \in Seq(A), x \in A : Len(r) = n /\ s = Append(r, x)
  <2> DEFINE r == SubSeq(s, 1, n)
             x == s[n + 1]
  <2>1. r \in Seq(A) /\ Len(r) = n /\ x \in A /\ \A i \in 1..n : r[i] = s[i]
    BY ONLY s \in Seq(A), n \in Nat, <1>0
  <2> HIDE DEF r
  <2>4. x = s[n + 1]
    OBVIOUS
  <2> HIDE DEF x
  <2>2. /\ Append(r, x) \in Seq(A) /\ Len(Append(r, x)) = n + 1
        /\ \A i \in 1..n + 1 : Append(r, x)[i] = s[i]
    BY ONLY <2>1, <2>4, n \in Nat
  <2>3. Append(r, x) = s
    BY <1>0, <2>2, SeqEqual
  <2> QED BY <2>1, <2>3
<1> DEFINE U == {n \in Nat : \A s \in Seq(A) : Len(s) = n => s \in T}
<1>1. 0 \in U
  <2>1. \A s \in Seq(A) : Len(s) = 0 => s = <<>>
    OBVIOUS
  <2> QED BY <2>1
<1>2. ASSUME NEW n \in U PROVE n + 1 \in U
  <2>0. n \in Nat /\ n + 1 \in Nat
    OBVIOUS
  <2> SUFFICES ASSUME NEW s \in Seq(A), Len(s) = n + 1 PROVE s \in T
    BY <2>0
  <2> HIDE DEF U
  <2>1. PICK r \in Seq(A), x \in A : Len(r) = n /\ s = Append(r, x)
    BY <1>0, <2>0
  <2> USE DEF U
  <2>2. r \in T
    BY <2>1
  <2> QED BY <2>1, <2>2
<1>3. U = Nat
  <2>1. U \in SUBSET Nat
    OBVIOUS
  <2> HIDE DEF U
  <2> QED BY <1>1, <1>2, <2>1, Induction
<1>4. \A s \in Seq(A) : Len(s) \in U
  BY <1>3
<1> QED BY <1>4

\* Nothing flattened is nothing.
LEMMA FlattenNothing == FlattenSeq(<<>>) = <<>>
BY FlattenEmpty

\* One part more is flattened behind the rest.
LEMMA FlattenAppend ==
  ASSUME NEW A, NEW f \in Seq(Seq(A)), NEW x \in Seq(A)
  PROVE  FlattenSeq(Append(f, x)) = FlattenSeq(f) \o x
<1> DEFINE g == Append(f, x)
<1>1. g \in Seq(Seq(A)) /\ Len(g) = Len(f) + 1 /\ g[Len(g)] = x /\ \A i \in 1..Len(f) : f[i] = g[i]
  OBVIOUS
<1> HIDE DEF g
<1>2. FlattenSeq(g) = FlattenSeq(f) \o g[Len(g)]
  BY <1>1, FlattenLast
<1> QED BY <1>1, <1>2 DEF g

\* Parts joined are flattened one after the other.
LEMMA FlattenJoin ==
  ASSUME NEW A, NEW e \in Seq(Seq(A)), NEW f \in Seq(Seq(A))
  PROVE  FlattenSeq(e \o f) = FlattenSeq(e) \o FlattenSeq(f)
<1> DEFINE T == {g \in Seq(Seq(A)) : FlattenSeq(e \o g) = FlattenSeq(e) \o FlattenSeq(g)}
<1>1. <<>> \in T
  <2>1. e \o <<>> = e /\ <<>> \in Seq(Seq(A))
    OBVIOUS
  <2>2. FlattenSeq(e) \in Seq(A)
    BY FlattenType
  <2>3. FlattenSeq(e) \o <<>> = FlattenSeq(e)
    BY <2>2
  <2> QED BY <2>1, <2>3, FlattenNothing
<1>2. ASSUME NEW g \in T, NEW x \in Seq(A) PROVE Append(g, x) \in T
  <2>1. g \in Seq(Seq(A)) /\ FlattenSeq(e \o g) = FlattenSeq(e) \o FlattenSeq(g)
    OBVIOUS
  <2>2. e \o Append(g, x) = Append(e \o g, x) /\ e \o g \in Seq(Seq(A)) /\ Append(g, x) \in Seq(Seq(A))
    BY <2>1
  <2>3. FlattenSeq(e \o Append(g, x)) = FlattenSeq(e \o g) \o x
    BY <2>2, FlattenAppend
  <2>4. FlattenSeq(Append(g, x)) = FlattenSeq(g) \o x
    BY <2>1, FlattenAppend
  <2>5. FlattenSeq(e) \in Seq(A) /\ FlattenSeq(g) \in Seq(A)
    BY <2>1, FlattenType
  <2>6. FlattenSeq(e) \o (FlattenSeq(g) \o x) = (FlattenSeq(e) \o FlattenSeq(g)) \o x
    BY <2>5, Regroup
  <2> QED BY <2>1, <2>2, <2>3, <2>4, <2>6
<1>3. T = Seq(Seq(A))
  <2>1. T \in SUBSET Seq(Seq(A))
    OBVIOUS
  <2> HIDE DEF T
  <2> QED BY <1>1, <1>2, <2>1, SequencesGrow
<1> QED BY <1>3

\* Flattening twice, and each part first.
LEMMA FlattenTwice ==
  ASSUME NEW A, NEW t \in Seq(Seq(Seq(A)))
  PROVE  FlattenSeq(FlattenSeq(t)) = FlattenSeq([i \in 1..Len(t) |-> FlattenSeq(t[i])])
<1> DEFINE Each(s) == [i \in 1..Len(s) |-> FlattenSeq(s[i])]
           T == {s \in Seq(Seq(Seq(A))) : FlattenSeq(FlattenSeq(s)) = FlattenSeq(Each(s))}
<1>1. <<>> \in T
  <2>1. FlattenSeq(<<>>) = <<>>
    BY FlattenNothing
  <2>2. Len(<<>>) = 0 /\ Each(<<>>) = <<>>
    OBVIOUS
  <2> QED BY <2>1, <2>2
<1>2. ASSUME NEW s \in T, NEW x \in Seq(Seq(A)) PROVE Append(s, x) \in T
  <2>1. s \in Seq(Seq(Seq(A))) /\ FlattenSeq(FlattenSeq(s)) = FlattenSeq(Each(s))
    OBVIOUS
  <2>2. FlattenSeq(Append(s, x)) = FlattenSeq(s) \o x
    BY <2>1, FlattenAppend
  <2>3. FlattenSeq(s) \in Seq(Seq(A))
    BY <2>1, FlattenType
  <2>4. FlattenSeq(FlattenSeq(s) \o x) = FlattenSeq(FlattenSeq(s)) \o FlattenSeq(x)
    BY <2>3, FlattenJoin
  <2>5. \A i \in 1..Len(s) : FlattenSeq(s[i]) \in Seq(A)
    BY <2>1, FlattenType
  <2>6. FlattenSeq(x) \in Seq(A)
    BY FlattenType
  <2>7. Each(s) \in Seq(Seq(A)) /\ Len(Each(s)) = Len(s)
    <3>1. Len(s) \in Nat /\ Each(s) \in [1..Len(s) -> Seq(A)]
      BY <2>1, <2>5
    <3> HIDE DEF Each
    <3> QED BY <3>1, TableOf
  <2>8. Each(Append(s, x)) = Append(Each(s), FlattenSeq(x))
    <3>1. /\ Append(s, x) \in Seq(Seq(Seq(A))) /\ Len(Append(s, x)) = Len(s) + 1 /\ Len(s) \in Nat
          /\ \A i \in 1..Len(s) + 1 : Append(s, x)[i] = IF i = Len(s) + 1 THEN x ELSE s[i]
      BY <2>1
    <3> DEFINE a == Append(s, x)
               b == Append(Each(s), FlattenSeq(x))
    <3>2. \A i \in 1..Len(a) : Each(a)[i] = FlattenSeq(a[i])
      OBVIOUS
    <3>3. \A i \in 1..Len(s) : Each(s)[i] = FlattenSeq(s[i])
      OBVIOUS
    <3>4. Each(a) = [i \in 1..Len(a) |-> FlattenSeq(a[i])]
      OBVIOUS
    <3> HIDE DEF Each, a
    <3>5. \A i \in 1..Len(a) : FlattenSeq(a[i]) \in Seq(A)
      BY <2>5, <2>6, <3>1 DEF a
    <3>6. Each(a) \in Seq(Seq(A)) /\ Len(Each(a)) = Len(a)
      <4>1. Len(a) \in Nat /\ Each(a) \in [1..Len(a) -> Seq(A)]
        BY <3>1, <3>4, <3>5 DEF a
      <4> QED BY <4>1, TableOf
    <3>7. /\ b \in Seq(Seq(A)) /\ Len(b) = Len(s) + 1
          /\ \A i \in 1..Len(s) + 1 : b[i] = IF i = Len(s) + 1 THEN FlattenSeq(x) ELSE Each(s)[i]
      BY <2>6, <2>7, <3>1
    <3> HIDE DEF b
    <3>8. \A i \in 1..Len(s) + 1 : Each(a)[i] = b[i]
      <4> SUFFICES ASSUME NEW i \in 1..Len(s) + 1 PROVE Each(a)[i] = b[i]
        OBVIOUS
      <4>1. Each(a)[i] = FlattenSeq(a[i]) /\ a[i] = IF i = Len(s) + 1 THEN x ELSE s[i]
        BY <3>1, <3>2 DEF a
      <4>2. i # Len(s) + 1 => i \in 1..Len(s)
        BY <3>1
      <4> QED BY <3>3, <3>7, <4>1, <4>2
    <3>9. Len(a) = Len(s) + 1
      BY <3>1 DEF a
    <3>10. Each(a) = b
      BY <3>6, <3>7, <3>8, <3>9, SeqEqual
    <3> QED BY <3>10 DEF a, b
  <2>9. FlattenSeq(Each(Append(s, x))) = FlattenSeq(Each(s)) \o FlattenSeq(x)
    <3> HIDE DEF Each
    <3> QED BY <2>6, <2>7, <2>8, FlattenAppend
  <2>10. Append(s, x) \in Seq(Seq(Seq(A)))
    BY <2>1
  <2> HIDE DEF Each
  <2> QED BY <2>1, <2>2, <2>4, <2>9, <2>10
<1>3. T = Seq(Seq(Seq(A)))
  <2>1. T \in SUBSET Seq(Seq(Seq(A)))
    OBVIOUS
  <2> HIDE DEF T
  <2> QED BY <1>1, <1>2, <2>1, SequencesGrow
<1> QED BY <1>3

=============================================================================
