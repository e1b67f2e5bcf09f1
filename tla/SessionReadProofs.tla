------------------------- MODULE SessionReadProofs -------------------------
(***************************************************************************)
(* Proofs about SessionRead, for every alphabet, every set of reads and    *)
(* reads of every length.                                                  *)
(*                                                                         *)
(* First the automaton of RequestParser against RequestGrammar, for texts  *)
(* of every length: the grammar restated by the places of a text, what the *)
(* automaton has read in each of its states (Viable), that a character it  *)
(* takes keeps this and that a request goes on with no other, that some    *)
(* text completes every such beginning, and what the request it fills in   *)
(* has said so far (Filled) against Meaning.                               *)
(*                                                                         *)
(* Then the steps of SessionRead: Inv is the inductive invariant of what   *)
(* the parser decides, FilledIn of what it fills in.                       *)
(***************************************************************************)
EXTENDS SessionRead, SequenceLemmas

-----------------------------------------------------------------------------
(* The grammar by positions: a line is what is between two places of x. *)

NamesIn(x, m, n)  == \A i \in m..n : IsName(x[i])
PlainIn(x, m, n)  == \A i \in m..n : IsPlain(x[i])
BlanksIn(x, m, n) == \A i \in m..n : IsBlank(x[i])
DigitsIn(x, m, n) == m <= n /\ \A i \in m..n : IsDigit(x[i])
CrLfAt(x, n)      == x[n] = "cr" /\ x[n + 1] = "lf"

MethodTo(x, a)  == a > 1 /\ NamesIn(x, 1, a - 1) /\ x[a] = "sp"
UriTo(x, a, b)  == a < b /\ PlainIn(x, a + 1, b - 1) /\ (\A i \in a + 1..b - 1 : x[i] # "sp") /\ x[b] = "sp"
Http            == <<"H", "T", "T", "P", "slash">>
HttpTo(x, b, n) == \A i \in 1..n : x[b + i] = Http[i]
MajorTo(x, b, d) == DigitsIn(x, b + 6, d - 1) /\ x[d] = "."

RequestLineTo(x, m) ==
  \E a, b, d \in Nat :
    MethodTo(x, a) /\ UriTo(x, a, b) /\ HttpTo(x, b, 5) /\ MajorTo(x, b, d) /\ DigitsIn(x, d + 1, m)

HeaderTo(x, s, m) ==
  \E n \in s + 1..m - 1 :
    NamesIn(x, s, n - 1) /\ x[n] = ":" /\ x[n + 1] = "sp" /\ PlainIn(x, n + 2, m)
ContinuationTo(x, s, m) ==
  \E n \in s..m :
    BlanksIn(x, s, n) /\ PlainIn(x, n + 1, m) /\ (n = m \/ ~IsBlank(x[n + 1]))

USE DEF NamesIn, PlainIn, BlanksIn, DigitsIn

\* What the characters are to each other.
LEMMA Classes ==
  /\ \A c : IsName(c) => c \in Chars /\ c \notin {"cr", "lf", "tab", "sp", ":", "slash"} /\ IsPlain(c)
  /\ \A c : IsDigit(c) => IsName(c) /\ c # "."
  /\ \A c : IsPlain(c) => c \notin {"cr", "lf", "tab"}
  /\ \A c : IsBlank(c) => c \notin {"cr", "lf", ":"} /\ ~IsName(c)
  /\ {"H", "T", "P", "."} \subseteq {c \in Chars : IsName(c)}
  /\ {"cr", "lf", "tab", "sp", ":", "slash"} \subseteq Chars
  /\ IsPlain("sp") /\ IsPlain(":") /\ IsPlain("slash")
  BY ParserAssumption DEF ParserAssumption, IsName, IsDigit, IsPlain, IsBlank

\* A part of a text, place by place.
LEMMA Part ==
  ASSUME NEW x \in Seq(Chars), NEW s \in 1..Len(x) + 1, NEW m \in s - 1..Len(x)
  PROVE  /\ SubSeq(x, s, m) \in Seq(Chars)
         /\ Len(SubSeq(x, s, m)) = m - s + 1
         /\ DOMAIN SubSeq(x, s, m) = 1..m - s + 1
         /\ \A i \in 1..m - s + 1 : SubSeq(x, s, m)[i] = x[s + i - 1]
  <1>1. \A i \in s..m : x[i] \in Chars
    OBVIOUS
  <1>2. s \in Int /\ m \in Int
    OBVIOUS
  <1> QED BY <1>1, <1>2, SubSeqProperties

\* The same, for a place of the whole text.
LEMMA PartAt ==
  ASSUME NEW x \in Seq(Chars), NEW s \in 1..Len(x) + 1, NEW m \in s - 1..Len(x)
  PROVE  \A i \in s..m : i - s + 1 \in DOMAIN SubSeq(x, s, m) /\ SubSeq(x, s, m)[i - s + 1] = x[i]
  <1> TAKE i \in s..m
  <1>1. i - s + 1 \in 1..m - s + 1 /\ s + (i - s + 1) - 1 = i
    OBVIOUS
  <1> QED BY <1>1, Part

LEMMA HeaderIs ==
  ASSUME NEW t \in Seq(Chars)
  PROVE  IsHeader(t) <=> HeaderTo(t, 1, Len(t))
  <1>1. ASSUME NEW n \in 2..Len(t) - 1
        PROVE  /\ All(Before(t, n), IsName) <=> NamesIn(t, 1, n - 1)
               /\ All(After(t, n + 1), IsPlain) <=> PlainIn(t, n + 2, Len(t))
    <2>1. /\ DOMAIN Before(t, n) = 1..n - 1
          /\ \A i \in 1..n - 1 : Before(t, n)[i] = t[i]
      BY Part DEF Before
    <2>2. /\ DOMAIN After(t, n + 1) = 1..Len(t) - n - 1
          /\ \A i \in 1..Len(t) - n - 1 : After(t, n + 1)[i] = t[n + 1 + i]
      BY Part DEF After
    <2>3. ASSUME \A i \in 1..Len(t) - n - 1 : IsPlain(t[n + 1 + i]) PROVE PlainIn(t, n + 2, Len(t))
      <3> SUFFICES ASSUME NEW i \in n + 2..Len(t) PROVE IsPlain(t[i])
        BY DEF PlainIn
      <3>1. i - n - 1 \in 1..Len(t) - n - 1 /\ n + 1 + (i - n - 1) = i
        OBVIOUS
      <3> QED BY <2>3, <3>1
    <2>4. PlainIn(t, n + 2, Len(t)) => \A i \in 1..Len(t) - n - 1 : IsPlain(t[n + 1 + i])
      BY DEF PlainIn
    <2> QED BY <2>1, <2>2, <2>3, <2>4 DEF All, NamesIn
  <1>2. ASSUME IsHeader(t) PROVE HeaderTo(t, 1, Len(t))
    <2>1. PICK n \in Where(t, ":") :
            /\ 1 < n /\ n < Len(t) /\ t[n + 1] = "sp"
            /\ All(Before(t, n), IsName) /\ All(After(t, n + 1), IsPlain)
      BY <1>2, Zenon DEF IsHeader
    <2>2. 1 < n /\ n < Len(t) /\ t[n + 1] = "sp"
      BY <2>1, Zenon
    <2>3. n \in 2..Len(t) - 1 /\ t[n] = ":"
      BY <2>2 DEF Where
    <2>4. NamesIn(t, 1, n - 1) /\ PlainIn(t, n + 2, Len(t))
      BY <2>1, <2>3, <1>1, Zenon
    <2> QED BY <2>2, <2>3, <2>4 DEF HeaderTo
  <1>3. ASSUME HeaderTo(t, 1, Len(t)) PROVE IsHeader(t)
    <2>1. PICK n \in 1 + 1..Len(t) - 1 :
            NamesIn(t, 1, n - 1) /\ t[n] = ":" /\ t[n + 1] = "sp" /\ PlainIn(t, n + 2, Len(t))
      BY <1>3 DEF HeaderTo
    <2>2. n \in 2..Len(t) - 1 /\ 1 < n /\ n < Len(t) /\ n \in Where(t, ":")
      BY <2>1 DEF Where
    <2>3. All(Before(t, n), IsName) /\ All(After(t, n + 1), IsPlain)
      BY <2>1, <2>2, <1>1, Zenon
    <2> QED BY <2>1, <2>2, <2>3, Zenon DEF IsHeader
  <1> QED BY <1>2, <1>3, Zenon

LEMMA ContinuationIs ==
  ASSUME NEW t \in Seq(Chars)
  PROVE  IsContinuation(t) <=> ContinuationTo(t, 1, Len(t))
  <1> SUFFICES ASSUME NEW n \in 1..Len(t)
               PROVE  /\ All(SubSeq(t, 1, n), IsBlank) <=> BlanksIn(t, 1, n)
                      /\ All(After(t, n), IsPlain) <=> PlainIn(t, n + 1, Len(t))
    <2>1. DOMAIN t = 1..Len(t)
      OBVIOUS
    <2> QED BY <2>1, Zenon DEF IsContinuation, ContinuationTo
  <1>1. /\ DOMAIN SubSeq(t, 1, n) = 1..n
        /\ \A i \in 1..n : SubSeq(t, 1, n)[i] = t[i]
    BY Part
  <1>2. /\ DOMAIN After(t, n) = 1..Len(t) - n
        /\ \A i \in 1..Len(t) - n : After(t, n)[i] = t[n + i]
    BY Part DEF After
  <1>3. ASSUME \A i \in 1..Len(t) - n : IsPlain(t[n + i]) PROVE PlainIn(t, n + 1, Len(t))
    <2> SUFFICES ASSUME NEW i \in n + 1..Len(t) PROVE IsPlain(t[i])
      BY DEF PlainIn
    <2>1. i - n \in 1..Len(t) - n /\ n + (i - n) = i
      OBVIOUS
    <2> QED BY <1>3, <2>1
  <1>4. PlainIn(t, n + 1, Len(t)) => \A i \in 1..Len(t) - n : IsPlain(t[n + i])
    BY DEF PlainIn
  <1> QED BY <1>1, <1>2, <1>3, <1>4 DEF All, BlanksIn

\* A header line of x is one of a part of x.
LEMMA HeaderOfPart ==
  ASSUME NEW x \in Seq(Chars), NEW s \in 1..Len(x) + 1, NEW m \in s - 1..Len(x)
  PROVE  /\ IsHeader(SubSeq(x, s, m)) <=> HeaderTo(x, s, m)
         /\ IsContinuation(SubSeq(x, s, m)) <=> ContinuationTo(x, s, m)
  <1> DEFINE t == SubSeq(x, s, m)
  <1>1. t \in Seq(Chars) /\ Len(t) = m - s + 1 /\ \A i \in 1..m - s + 1 : t[i] = x[s + i - 1]
    BY Part
  <1>2. \A i \in s..m : t[i - s + 1] = x[i]
    BY PartAt
  <1> HIDE DEF t
  <1>3. HeaderTo(t, 1, Len(t)) => HeaderTo(x, s, m)
    <2> SUFFICES ASSUME NEW n \in 2..Len(t) - 1, NamesIn(t, 1, n - 1), t[n] = ":", t[n + 1] = "sp",
                        PlainIn(t, n + 2, Len(t))
                 PROVE  HeaderTo(x, s, m)
      BY DEF HeaderTo
    <2>1. s + n - 1 \in s + 1..m - 1 /\ x[s + n - 1] = ":" /\ x[s + n - 1 + 1] = "sp"
      <3>1. /\ s + n - 1 \in s + 1..m - 1 /\ n \in 1..m - s + 1 /\ n + 1 \in 1..m - s + 1
            /\ s + (n + 1) - 1 = s + n - 1 + 1
        BY <1>1
      <3>2. t[n] = x[s + n - 1] /\ t[n + 1] = x[s + (n + 1) - 1]
        BY <1>1, <3>1
      <3> QED BY <3>1, <3>2
    <2>2. NamesIn(x, s, s + n - 1 - 1)
      <3> SUFFICES ASSUME NEW i \in s..s + n - 1 - 1 PROVE IsName(x[i])
        BY DEF NamesIn
      <3>1. i - s + 1 \in 1..n - 1 /\ i \in s..m
        BY <1>1
      <3> QED BY <3>1, <1>2 DEF NamesIn
    <2>3. PlainIn(x, s + n - 1 + 2, m)
      <3> SUFFICES ASSUME NEW i \in s + n - 1 + 2..m PROVE IsPlain(x[i])
        BY DEF PlainIn
      <3>1. i - s + 1 \in n + 2..Len(t) /\ i \in s..m
        BY <1>1
      <3> QED BY <3>1, <1>2 DEF PlainIn
    <2> DEFINE k == s + n - 1
    <2>4. /\ k \in s + 1..m - 1 /\ NamesIn(x, s, k - 1) /\ x[k] = ":" /\ x[k + 1] = "sp"
          /\ PlainIn(x, k + 2, m)
      BY <2>1, <2>2, <2>3
    <2> HIDE DEF k
    <2> QED BY <2>4 DEF HeaderTo
  <1>4. HeaderTo(x, s, m) => HeaderTo(t, 1, Len(t))
    <2> SUFFICES ASSUME NEW n \in s + 1..m - 1, NamesIn(x, s, n - 1), x[n] = ":", x[n + 1] = "sp",
                        PlainIn(x, n + 2, m)
                 PROVE  HeaderTo(t, 1, Len(t))
      BY DEF HeaderTo
    <2>1. /\ n - s + 1 \in 1 + 1..Len(t) - 1 /\ t[n - s + 1] = ":"
          /\ t[n - s + 1 + 1] = "sp"
      <3>1. /\ n \in s..m /\ n + 1 \in s..m /\ (n + 1) - s + 1 = n - s + 1 + 1
            /\ n - s + 1 \in 1 + 1..Len(t) - 1
        BY <1>1
      <3>2. t[n - s + 1] = x[n] /\ t[(n + 1) - s + 1] = x[n + 1]
        BY <1>2, <3>1
      <3> QED BY <3>1, <3>2
    <2>2. NamesIn(t, 1, n - s + 1 - 1)
      BY <1>1 DEF NamesIn
    <2>3. PlainIn(t, n - s + 1 + 2, Len(t))
      BY <1>1 DEF PlainIn
    <2> DEFINE k == n - s + 1
    <2>4. /\ k \in 1 + 1..Len(t) - 1 /\ NamesIn(t, 1, k - 1) /\ t[k] = ":" /\ t[k + 1] = "sp"
          /\ PlainIn(t, k + 2, Len(t))
      BY <2>1, <2>2, <2>3
    <2> HIDE DEF k
    <2> QED BY <2>4 DEF HeaderTo
  <1>5. ContinuationTo(t, 1, Len(t)) => ContinuationTo(x, s, m)
    <2> SUFFICES ASSUME NEW n \in 1..Len(t), BlanksIn(t, 1, n), PlainIn(t, n + 1, Len(t)),
                        n = Len(t) \/ ~IsBlank(t[n + 1])
                 PROVE  ContinuationTo(x, s, m)
      BY DEF ContinuationTo
    <2>1. s + n - 1 \in s..m /\ (s + n - 1 = m \/ ~IsBlank(x[s + n - 1 + 1]))
      <3>1. n = Len(t) \/ t[n + 1] = x[s + (n + 1) - 1]
        BY <1>1
      <3>2. s + (n + 1) - 1 = s + n - 1 + 1
        OBVIOUS
      <3> QED BY <3>1, <3>2, <1>1
    <2>2. BlanksIn(x, s, s + n - 1)
      <3> SUFFICES ASSUME NEW i \in s..s + n - 1 PROVE IsBlank(x[i])
        BY DEF BlanksIn
      <3>1. i - s + 1 \in 1..n /\ i \in s..m
        BY <1>1
      <3> QED BY <3>1, <1>2 DEF BlanksIn
    <2>3. PlainIn(x, s + n - 1 + 1, m)
      <3> SUFFICES ASSUME NEW i \in s + n - 1 + 1..m PROVE IsPlain(x[i])
        BY DEF PlainIn
      <3>1. i - s + 1 \in n + 1..Len(t) /\ i \in s..m
        BY <1>1
      <3> QED BY <3>1, <1>2 DEF PlainIn
    <2> QED BY <2>1, <2>2, <2>3 DEF ContinuationTo
  <1>6. ContinuationTo(x, s, m) => ContinuationTo(t, 1, Len(t))
    <2> SUFFICES ASSUME NEW n \in s..m, BlanksIn(x, s, n), PlainIn(x, n + 1, m),
                        n = m \/ ~IsBlank(x[n + 1])
                 PROVE  ContinuationTo(t, 1, Len(t))
      BY DEF ContinuationTo
    <2>1. n - s + 1 \in 1..Len(t) /\ (n - s + 1 = Len(t) \/ ~IsBlank(t[n - s + 1 + 1]))
      <3>1. CASE n = m
        BY <3>1, <1>1
      <3>2. CASE n # m
        <4>1. n + 1 \in s..m /\ n + 1 - s + 1 = n - s + 1 + 1
          BY <3>2
        <4> QED BY <4>1, <1>1, <1>2
      <3> QED BY <3>1, <3>2
    <2>2. BlanksIn(t, 1, n - s + 1)
      <3> SUFFICES ASSUME NEW i \in 1..n - s + 1 PROVE IsBlank(t[i])
        BY DEF BlanksIn
      <3>1. i \in 1..m - s + 1 /\ s + i - 1 \in s..n
        OBVIOUS
      <3> QED BY <3>1, <1>1 DEF BlanksIn
    <2>3. PlainIn(t, n - s + 1 + 1, Len(t))
      BY <1>1 DEF PlainIn
    <2> QED BY <2>1, <2>2, <2>3 DEF ContinuationTo
  <1>7. /\ IsHeader(t) <=> HeaderTo(t, 1, Len(t))
        /\ IsContinuation(t) <=> ContinuationTo(t, 1, Len(t))
    BY <1>1, HeaderIs, ContinuationIs
  <1> QED BY <1>3, <1>4, <1>5, <1>6, <1>7 DEF t

LEMMA SomeAre ==
  ASSUME NEW t \in Seq(Chars), NEW c
  PROVE  /\ Where(t, c) \in SUBSET (0..Len(t)) /\ Where(t, c) \in SUBSET Nat
         /\ IsFiniteSet(Where(t, c))
  <1>1. Where(t, c) \in SUBSET (1..Len(t))
    BY DEF Where
  <1>2. IsFiniteSet(1..Len(t))
    <2>1. 1 \in Int /\ Len(t) \in Int
      OBVIOUS
    <2> QED BY <2>1, FS_Interval, Zenon
  <1>3. IsFiniteSet(Where(t, c))
    BY <1>1, <1>2, FS_Subset, Zenon
  <1>4. 1..Len(t) \subseteq 0..Len(t) /\ 1..Len(t) \subseteq Nat
    OBVIOUS
  <1> QED BY <1>1, <1>3, <1>4

\* Two blanks: the first and the second.
LEMMA TwoBlanks ==
  ASSUME NEW t \in Seq(Chars), Cardinality(Where(t, "sp")) >= 2
  PROVE  /\ FirstSpace(t) \in Where(t, "sp") /\ \A n \in Where(t, "sp") : FirstSpace(t) <= n
         /\ SecondSpace(t) \in Where(t, "sp") \ {FirstSpace(t)}
         /\ \A n \in Where(t, "sp") \ {FirstSpace(t)} : SecondSpace(t) <= n
  <1> DEFINE W == Where(t, "sp")
  <1>1. W \in SUBSET Nat /\ IsFiniteSet(W)
    BY SomeAre
  <1>2. Cardinality(W) \in Nat
    BY <1>1, FS_CardinalityType
  <1>3. W # {}
    <2> SUFFICES ASSUME W = {} PROVE FALSE
      OBVIOUS
    <2>1. Cardinality(W) = 0
      BY FS_EmptySet
    <2> QED BY <2>1, <1>2
  <1>4. FirstSpace(t) \in W /\ \A n \in W : FirstSpace(t) <= n
    BY <1>1, <1>3, MinLeast DEF FirstSpace
  <1>5. W \ {FirstSpace(t)} # {}
    <2> SUFFICES ASSUME W \ {FirstSpace(t)} = {} PROVE FALSE
      OBVIOUS
    <2>1. W = {FirstSpace(t)}
      BY <1>4
    <2>2. Cardinality(W) = 1
      BY <2>1, FS_Singleton
    <2> QED BY <2>2
  <1>6. W \ {FirstSpace(t)} \in SUBSET Nat
    BY <1>1
  <1>7. /\ SecondSpace(t) \in W \ {FirstSpace(t)}
        /\ \A n \in W \ {FirstSpace(t)} : SecondSpace(t) <= n
    BY <1>5, <1>6, MinLeast DEF SecondSpace
  <1> QED BY <1>4, <1>7

\* Where the automaton finds the blanks of a request line is where they are.
LEMMA BlanksAre ==
  ASSUME NEW t \in Seq(Chars), NEW a \in Nat, NEW b \in 1..Len(t), MethodTo(t, a), UriTo(t, a, b)
  PROVE  FirstSpace(t) = a /\ SecondSpace(t) = b /\ Cardinality(Where(t, "sp")) >= 2
  <1> DEFINE W == Where(t, "sp")
  <1>1. W \in SUBSET Nat /\ IsFiniteSet(W)
    BY SomeAre
  <1>2. a \in W /\ b \in W \ {a}
    BY DEF Where, MethodTo, UriTo
  <1>3. ASSUME NEW n \in W PROVE a <= n
    <2>1. n \in 1..Len(t) /\ t[n] = "sp"
      BY DEF Where
    <2>2. ~IsName("sp")
      BY Classes
    <2> QED BY <2>1, <2>2 DEF MethodTo
  <1>4. Min(W) = a
    BY <1>1, <1>2, <1>3, MinIs
  <1>5. ASSUME NEW n \in W \ {a} PROVE b <= n
    <2>1. n \in 1..Len(t) /\ t[n] = "sp" /\ a < n
      BY <1>3 DEF Where, MethodTo
    <2> QED BY <2>1 DEF UriTo
  <1>6. W \ {a} \in SUBSET Nat
    BY <1>1
  <1>7. Min(W \ {a}) = b
    BY <1>2, <1>5, <1>6, MinIs
  <1>8. Cardinality(W) >= 2
    <2>1. Cardinality({a, b}) = 2
      <3>1. IsFiniteSet({a}) /\ Cardinality({a}) = 1
        BY FS_Singleton
      <3>2. Cardinality({a} \cup {b}) = Cardinality({a}) + 1
        BY <3>1, <1>2, FS_AddElement
      <3>3. {a} \cup {b} = {a, b}
        OBVIOUS
      <3>4. 1 + 1 = 2
        OBVIOUS
      <3> QED BY <3>1, <3>2, <3>3, <3>4, Zenon
    <2>2. {a, b} \subseteq W
      BY <1>2
    <2>3. Cardinality({a, b}) <= Cardinality(W)
      BY <2>2, <1>1, FS_Subset
    <2>4. Cardinality(W) \in Nat
      BY <1>1, FS_CardinalityType
    <2> QED BY <2>1, <2>3, <2>4
  <1> QED BY <1>4, <1>7, <1>8 DEF FirstSpace, SecondSpace

VersionTo(v, d) == HttpTo(v, 0, 5) /\ DigitsIn(v, 6, d - 1) /\ v[d] = "." /\ DigitsIn(v, d + 1, Len(v))

LEMMA NumberIs ==
  ASSUME NEW t \in Seq(Chars), NEW s \in 1..Len(t) + 1, NEW m \in s - 1..Len(t)
  PROVE  IsNumber(SubSeq(t, s, m)) <=> DigitsIn(t, s, m)
  <1> DEFINE u == SubSeq(t, s, m)
  <1>1. DOMAIN u = 1..m - s + 1 /\ Len(u) = m - s + 1 /\ u \in Seq(Chars)
    BY Part
  <1>2. \A i \in 1..m - s + 1 : u[i] = t[s + i - 1]
    BY Part
  <1>3. \A i \in s..m : i - s + 1 \in 1..m - s + 1 /\ u[i - s + 1] = t[i]
    BY Part, PartAt
  <1>4. u # <<>> <=> s <= m
    BY <1>1
  <1>5. All(u, IsDigit) <=> \A i \in 1..m - s + 1 : IsDigit(u[i])
    BY <1>1 DEF All
  <1>6. (\A i \in 1..m - s + 1 : IsDigit(u[i])) <=> \A i \in s..m : IsDigit(t[i])
    <2>1. ASSUME \A i \in 1..m - s + 1 : IsDigit(u[i]), NEW i \in s..m PROVE IsDigit(t[i])
      BY <2>1, <1>3
    <2>2. ASSUME \A i \in s..m : IsDigit(t[i]), NEW i \in 1..m - s + 1 PROVE IsDigit(u[i])
      BY <2>2, <1>2
    <2> QED BY <2>1, <2>2
  <1>7. IsNumber(u) <=> u # <<>> /\ All(u, IsDigit)
    BY Zenon DEF IsNumber
  <1> QED BY <1>4, <1>5, <1>6, <1>7 DEF DigitsIn

LEMMA VersionIs ==
  ASSUME NEW v \in Seq(Chars)
  PROVE  IsVersion(v) <=> \E d \in Nat : VersionTo(v, d)
  <1>1. Len(v) > 5 => (SubSeq(v, 1, 5) = <<"H", "T", "T", "P", "slash">> <=> HttpTo(v, 0, 5))
    <2> SUFFICES ASSUME Len(v) > 5
                 PROVE  SubSeq(v, 1, 5) = <<"H", "T", "T", "P", "slash">> <=> HttpTo(v, 0, 5)
      OBVIOUS
    <2>1. /\ SubSeq(v, 1, 5) \in Seq(Chars) /\ Len(SubSeq(v, 1, 5)) = 5
          /\ \A i \in 1..5 : SubSeq(v, 1, 5)[i] = v[i]
      BY Part
    <2>2. Http \in Seq(Chars) /\ Len(Http) = 5
      BY Classes DEF Http
    <2>3. (\A i \in 1..5 : SubSeq(v, 1, 5)[i] = Http[i]) => SubSeq(v, 1, 5) = Http
      <3> DEFINE u == SubSeq(v, 1, 5)
      <3> HIDE DEF u, Http
      <3> SUFFICES ASSUME \A i \in 1..5 : u[i] = Http[i] PROVE u = Http
        BY DEF u
      <3> QED BY <2>1, <2>2, SeqEqual DEF u
    <2>4. HttpTo(v, 0, 5) <=> \A i \in 1..5 : SubSeq(v, 1, 5)[i] = Http[i]
      <3>1. \A i \in 1..5 : 0 + i = i
        OBVIOUS
      <3> QED BY <2>1, <3>1, Zenon DEF HttpTo
    <2> QED BY <2>3, <2>4, Zenon DEF Http
  <1>2. ASSUME NEW n \in 1..Len(v), Len(v) > 5, n >= 6
        PROVE  /\ IsNumber(SubSeq(v, 6, n - 1)) <=> DigitsIn(v, 6, n - 1)
               /\ IsNumber(After(v, n)) <=> DigitsIn(v, n + 1, Len(v))
    <2>1. /\ 6 \in 1..Len(v) + 1 /\ n - 1 \in 6 - 1..Len(v)
          /\ n + 1 \in 1..Len(v) + 1 /\ Len(v) \in (n + 1) - 1..Len(v)
      BY <1>2
    <2>2. IsNumber(SubSeq(v, 6, n - 1)) <=> DigitsIn(v, 6, n - 1)
      BY <2>1, NumberIs
    <2>3. IsNumber(SubSeq(v, n + 1, Len(v))) <=> DigitsIn(v, n + 1, Len(v))
      BY <2>1, NumberIs
    <2> QED BY <2>2, <2>3 DEF After
  <1>3. ASSUME NEW n \in 1..Len(v), Len(v) > 5, n < 6 PROVE ~IsNumber(SubSeq(v, 6, n - 1))
    <2>1. SubSeq(v, 6, n - 1) = <<>>
      BY <1>3, SubSeqEmpty
    <2> QED BY <2>1 DEF IsNumber
  <1>4. ASSUME IsVersion(v) PROVE \E d \in Nat : VersionTo(v, d)
    <2>1. /\ Len(v) > 5 /\ HttpTo(v, 0, 5)
      BY <1>4, <1>1, Zenon DEF IsVersion
    <2>2. PICK n \in Where(v, ".") : IsNumber(SubSeq(v, 6, n - 1)) /\ IsNumber(After(v, n))
      BY <1>4, Zenon DEF IsVersion
    <2>3. n \in 1..Len(v) /\ v[n] = "."
      BY DEF Where
    <2>4. n >= 6
      BY <2>1, <2>2, <2>3, <1>3
    <2>5. DigitsIn(v, 6, n - 1) /\ DigitsIn(v, n + 1, Len(v))
      BY <1>2, <2>1, <2>2, <2>3, <2>4
    <2>6. VersionTo(v, n)
      BY <2>1, <2>3, <2>5, Zenon DEF VersionTo
    <2>7. n \in Nat
      BY <2>3
    <2> QED BY <2>6, <2>7
  <1>5. ASSUME NEW d \in Nat, VersionTo(v, d) PROVE IsVersion(v)
    <2>1. /\ HttpTo(v, 0, 5) /\ DigitsIn(v, 6, d - 1) /\ v[d] = "." /\ DigitsIn(v, d + 1, Len(v))
      BY <1>5, Zenon DEF VersionTo
    <2>2. d \in 1..Len(v) /\ d >= 6 /\ Len(v) > 5
      BY <2>1
    <2>3. IsNumber(SubSeq(v, 6, d - 1)) /\ IsNumber(After(v, d))
      BY <2>1, <2>2, <1>2
    <2>4. d \in Where(v, ".")
      BY <2>1, <2>2 DEF Where
    <2>5. SubSeq(v, 1, 5) = <<"H", "T", "T", "P", "slash">>
      BY <2>1, <2>2, <1>1
    <2> QED BY <2>2, <2>3, <2>4, <2>5, Zenon DEF IsVersion
  <1> QED BY <1>4, <1>5, Zenon

LEMMA RequestLineIs ==
  ASSUME NEW t \in Seq(Chars)
  PROVE  IsRequestLine(t) <=> RequestLineTo(t, Len(t))
  <1>1. ASSUME NEW b \in 1..Len(t), NEW v, v = After(t, b)
        PROVE  /\ v \in Seq(Chars) /\ Len(v) = Len(t) - b
               /\ \A i \in 1..Len(t) - b : v[i] = t[b + i]
    BY <1>1, Part DEF After
  <1>2. ASSUME IsRequestLine(t) PROVE RequestLineTo(t, Len(t))
    <2> DEFINE a == FirstSpace(t)
               b == SecondSpace(t)
               v == VersionOf(t)
    <2>1. /\ Cardinality(Where(t, "sp")) >= 2
          /\ a > 1 /\ All(Before(t, a), IsName)
          /\ All(UriOf(t), IsPlain) /\ IsVersion(v)
      BY <1>2, Zenon DEF IsRequestLine
    <2>2. /\ a \in Where(t, "sp") /\ \A n \in Where(t, "sp") : a <= n
          /\ b \in Where(t, "sp") \ {a} /\ \A n \in Where(t, "sp") \ {a} : b <= n
      <3>1. Cardinality(Where(t, "sp")) >= 2
        BY <2>1, Zenon
      <3> QED BY <3>1, TwoBlanks
    <2> HIDE DEF a, b
    <2>3. /\ a \in 1..Len(t) /\ b \in 1..Len(t) /\ a < b /\ t[a] = "sp" /\ t[b] = "sp"
          /\ \A i \in a + 1..b - 1 : t[i] # "sp"
      BY <2>2 DEF Where
    <2>4. NamesIn(t, 1, a - 1)
      <3>1. DOMAIN Before(t, a) = 1..a - 1 /\ \A i \in 1..a - 1 : Before(t, a)[i] = t[i]
        BY <2>3, Part DEF Before
      <3>2. \A i \in DOMAIN Before(t, a) : IsName(Before(t, a)[i])
        BY <2>1, Zenon DEF All
      <3> QED BY <3>1, <3>2
    <2>5. PlainIn(t, a + 1, b - 1)
      <3> DEFINE u == SubSeq(t, a + 1, b - 1)
      <3>1. \A i \in a + 1..b - 1 : i - (a + 1) + 1 \in DOMAIN u /\ u[i - (a + 1) + 1] = t[i]
        BY <2>3, PartAt
      <3>2. \A i \in DOMAIN u : IsPlain(u[i])
        BY <2>1, Zenon DEF All, UriOf, a, b
      <3> QED BY <3>1, <3>2
    <2>6. v \in Seq(Chars) /\ Len(v) = Len(t) - b /\ \A i \in 1..Len(t) - b : v[i] = t[b + i]
      <3>1. v = After(t, b)
        BY DEF VersionOf, b
      <3> QED BY <3>1, <2>3, <1>1
    <2>7. PICK n \in Nat : VersionTo(v, n)
      <3>1. IsVersion(v)
        BY <2>1, Zenon
      <3> HIDE DEF v
      <3> QED BY <3>1, <2>6, VersionIs
    <2> HIDE DEF v
    <2>8. /\ \A i \in 1..5 : v[0 + i] = Http[i]
          /\ 6 <= n - 1 /\ \A i \in 6..n - 1 : IsDigit(v[i])
          /\ v[n] = "."
          /\ n + 1 <= Len(v) /\ \A i \in n + 1..Len(v) : IsDigit(v[i])
      BY <2>7, Zenon DEF VersionTo, HttpTo
    <2>9. HttpTo(t, b, 5)
      <3>1. \A i \in 1..5 : 0 + i = i /\ i \in 1..Len(t) - b
        BY <2>3, <2>6, <2>8
      <3>2. \A i \in 1..5 : t[b + i] = Http[i]
        BY <2>6, <2>8, <3>1, Zenon
      <3> QED BY <3>2 DEF HttpTo
    <2>10. MajorTo(t, b, b + n)
      <3>1. b + 6 <= (b + n) - 1 /\ n \in 1..Len(t) - b
        BY <2>3, <2>6, <2>8
      <3>3. t[b + n] = "."
        BY <3>1, <2>6, <2>8
      <3>2. ASSUME NEW i \in b + 6..(b + n) - 1 PROVE IsDigit(t[i])
        <4>1. i - b \in 6..n - 1 /\ i - b \in 1..Len(t) - b /\ b + (i - b) = i
          BY <2>3, <2>6, <2>8
        <4> QED BY <4>1, <2>6, <2>8
      <3>4. DigitsIn(t, b + 6, (b + n) - 1)
        BY <3>1, <3>2
      <3> QED BY <3>3, <3>4 DEF MajorTo
    <2>11. DigitsIn(t, b + n + 1, Len(t))
      <3>1. b + n + 1 <= Len(t)
        BY <2>3, <2>6, <2>8
      <3>2. ASSUME NEW i \in b + n + 1..Len(t) PROVE IsDigit(t[i])
        <4>1. i - b \in n + 1..Len(v) /\ i - b \in 1..Len(t) - b /\ b + (i - b) = i
          BY <2>3, <2>6, <2>8
        <4> QED BY <4>1, <2>6, <2>8
      <3> QED BY <3>1, <3>2
    <2>12. MethodTo(t, a) /\ UriTo(t, a, b)
      BY <2>1, <2>3, <2>4, <2>5, Zenon DEF MethodTo, UriTo
    <2>13. a \in Nat /\ b \in Nat /\ b + n \in Nat
      BY <2>3
    <2> QED BY <2>9, <2>10, <2>11, <2>12, <2>13, Zenon DEF RequestLineTo
  <1>3. ASSUME RequestLineTo(t, Len(t)) PROVE IsRequestLine(t)
    <2>1. PICK a, b, d \in Nat :
            /\ MethodTo(t, a) /\ UriTo(t, a, b) /\ HttpTo(t, b, 5)
            /\ MajorTo(t, b, d) /\ DigitsIn(t, d + 1, Len(t))
      BY <1>3, Zenon DEF RequestLineTo
    <2>2. /\ 1 < a /\ a < b /\ b + 6 <= d - 1 /\ d + 1 <= Len(t) /\ b \in 1..Len(t)
      BY <2>1 DEF MethodTo, UriTo, MajorTo
    <2>3. FirstSpace(t) = a /\ SecondSpace(t) = b /\ Cardinality(Where(t, "sp")) >= 2
      BY <2>1, <2>2, BlanksAre
    <2>4. All(Before(t, a), IsName)
      <3>1. DOMAIN Before(t, a) = 1..a - 1 /\ \A i \in 1..a - 1 : Before(t, a)[i] = t[i]
        BY <2>2, Part DEF Before
      <3>2. \A i \in 1..a - 1 : IsName(t[i])
        BY <2>1, Zenon DEF MethodTo
      <3> QED BY <3>1, <3>2 DEF All
    <2>5. All(UriOf(t), IsPlain)
      <3> DEFINE u == SubSeq(t, a + 1, b - 1)
      <3>1. DOMAIN u = 1..(b - 1) - (a + 1) + 1 /\ \A i \in 1..(b - 1) - (a + 1) + 1 : u[i] = t[a + 1 + i - 1]
        BY <2>2, Part
      <3>2. \A i \in a + 1..b - 1 : IsPlain(t[i])
        BY <2>1, Zenon DEF UriTo
      <3>3. \A i \in DOMAIN u : IsPlain(u[i])
        BY <3>1, <3>2, <2>2
      <3> QED BY <3>3, <2>3, Zenon DEF All, UriOf
    <2> DEFINE v == VersionOf(t)
    <2>6. v \in Seq(Chars) /\ Len(v) = Len(t) - b /\ \A i \in 1..Len(t) - b : v[i] = t[b + i]
      <3>1. v = After(t, b)
        BY <2>3 DEF VersionOf
      <3> QED BY <3>1, <2>2, <1>1
    <2> HIDE DEF v
    <2>7. VersionTo(v, d - b)
      <3>1. HttpTo(v, 0, 5)
        <4> SUFFICES ASSUME NEW i \in 1..5 PROVE v[0 + i] = Http[i]
          BY DEF HttpTo
        <4>1. 0 + i = i /\ i \in 1..Len(t) - b
          BY <2>2
        <4>2. t[b + i] = Http[i]
          BY <2>1, Zenon DEF HttpTo
        <4> QED BY <4>1, <4>2, <2>6
      <3>2. DigitsIn(v, 6, d - b - 1)
        <4>1. \A i \in b + 6..d - 1 : IsDigit(t[i])
          BY <2>1, Zenon DEF MajorTo
        <4>2. ASSUME NEW i \in 6..d - b - 1 PROVE IsDigit(v[i])
          <5>1. i \in 1..Len(t) - b /\ b + i \in b + 6..d - 1
            BY <2>2
          <5> QED BY <5>1, <4>1, <2>6
        <4>3. 6 <= d - b - 1
          BY <2>2
        <4> QED BY <4>2, <4>3
      <3>3. v[d - b] = "."
        <4>1. d - b \in 1..Len(t) - b /\ b + (d - b) = d
          BY <2>2
        <4>2. t[d] = "."
          BY <2>1, Zenon DEF MajorTo
        <4> QED BY <4>1, <4>2, <2>6
      <3>4. DigitsIn(v, d - b + 1, Len(v))
        <4>1. \A i \in d + 1..Len(t) : IsDigit(t[i])
          BY <2>1, Zenon
        <4>2. ASSUME NEW i \in d - b + 1..Len(v) PROVE IsDigit(v[i])
          <5>1. i \in 1..Len(t) - b /\ b + i \in d + 1..Len(t)
            BY <2>2, <2>6
          <5> QED BY <5>1, <4>1, <2>6
        <4>3. d - b + 1 <= Len(v)
          BY <2>2, <2>6
        <4> QED BY <4>2, <4>3
      <3> QED BY <3>1, <3>2, <3>3, <3>4, Zenon DEF VersionTo
    <2>8. IsVersion(v)
      <3>1. d - b \in Nat
        BY <2>2
      <3> QED BY <3>1, <2>6, <2>7, VersionIs
    <2>9. FirstSpace(t) > 1
      BY <2>2, <2>3
    <2> QED BY <2>3, <2>4, <2>5, <2>8, <2>9, Zenon DEF IsRequestLine, v
  <1> QED BY <1>2, <1>3, Zenon

\* What is said of the first m characters of x holds of every text that begins
\* with them.
LEMMA RequestLineAgrees ==
  ASSUME NEW x, NEW y, NEW m \in Nat, \A i \in 1..m : x[i] = y[i], RequestLineTo(x, m)
  PROVE  RequestLineTo(y, m)
  <1>1. PICK a, b, d \in Nat :
          MethodTo(x, a) /\ UriTo(x, a, b) /\ HttpTo(x, b, 5) /\ MajorTo(x, b, d) /\ DigitsIn(x, d + 1, m)
    BY Zenon DEF RequestLineTo
  <1>2. 1 < a /\ a < b /\ b + 6 <= d - 1 /\ d + 1 <= m
    BY <1>1 DEF MethodTo, UriTo, MajorTo
  <1>3. MethodTo(y, a)
    BY <1>1, <1>2 DEF MethodTo
  <1>4. UriTo(y, a, b)
    BY <1>1, <1>2 DEF UriTo
  <1>5. HttpTo(y, b, 5)
    BY <1>1, <1>2 DEF HttpTo
  <1>6. MajorTo(y, b, d)
    BY <1>1, <1>2 DEF MajorTo
  <1>7. DigitsIn(y, d + 1, m)
    BY <1>1, <1>2
  <1> QED BY <1>3, <1>4, <1>5, <1>6, <1>7, Zenon DEF RequestLineTo

LEMMA RequestLineOfPart ==
  ASSUME NEW x \in Seq(Chars), NEW m \in 0..Len(x)
  PROVE  IsRequestLine(SubSeq(x, 1, m)) <=> RequestLineTo(x, m)
  <1> DEFINE t == SubSeq(x, 1, m)
  <1>1. t \in Seq(Chars) /\ Len(t) = m /\ \A i \in 1..m : t[i] = x[i] /\ x[i] = t[i]
    BY Part
  <1>2. IsRequestLine(t) <=> RequestLineTo(t, m)
    BY <1>1, RequestLineIs
  <1> HIDE DEF t
  <1>3. m \in Nat
    OBVIOUS
  <1>4. RequestLineTo(t, m) <=> RequestLineTo(x, m)
    BY <1>1, <1>3, RequestLineAgrees
  <1> QED BY <1>2, <1>4 DEF t

\* The line that starts at s ends at m.
LineEnd(x, s, m) == m \in s - 1..Len(x) - 2 /\ CrLfAt(x, m + 1) /\ \A i \in s..m : ~CrLfAt(x, i)

LEMMA CrLfIs ==
  ASSUME NEW x \in Seq(Chars), NEW n \in 1..Len(x) - 1
  PROVE  SubSeq(x, n, n + 1) = CrLf <=> CrLfAt(x, n)
  <1>1. /\ SubSeq(x, n, n + 1) \in Seq(Chars) /\ Len(SubSeq(x, n, n + 1)) = 2
        /\ SubSeq(x, n, n + 1)[1] = x[n] /\ SubSeq(x, n, n + 1)[2] = x[n + 1]
    <2> DEFINE t == SubSeq(x, n, n + 1)
               k == n + 1
    <2>1. n \in 1..Len(x) + 1 /\ k \in n - 1..Len(x) /\ k - n + 1 = 2 /\ n + 1 - 1 = n /\ n + 2 - 1 = k
      OBVIOUS
    <2> HIDE DEF k
    <2>2. /\ SubSeq(x, n, k) \in Seq(Chars) /\ Len(SubSeq(x, n, k)) = k - n + 1
          /\ \A i \in 1..k - n + 1 : SubSeq(x, n, k)[i] = x[n + i - 1]
      BY <2>1, Part
    <2> HIDE DEF t
    <2>3. t \in Seq(Chars) /\ Len(t) = 2 /\ \A i \in 1..2 : t[i] = x[n + i - 1]
      BY <2>1, <2>2 DEF t, k
    <2>4. t[1] = x[n + 1 - 1] /\ t[2] = x[n + 2 - 1]
      BY <2>3
    <2> QED BY <2>1, <2>3, <2>4 DEF t, k
  <1>2. CrLf \in Seq(Chars) /\ Len(CrLf) = 2 /\ CrLf[1] = "cr" /\ CrLf[2] = "lf"
    BY Classes DEF CrLf
  <1>3. CrLfAt(x, n) => SubSeq(x, n, n + 1) = CrLf
    <2> SUFFICES ASSUME CrLfAt(x, n) PROVE SubSeq(x, n, n + 1) = CrLf
      OBVIOUS
    <2>1. \A i \in 1..2 : SubSeq(x, n, n + 1)[i] = CrLf[i]
      BY <1>1, <1>2 DEF CrLfAt
    <2> HIDE DEF CrLf
    <2> QED BY <1>1, <1>2, <2>1, SeqEqual
  <1>4. SubSeq(x, n, n + 1) = CrLf => CrLfAt(x, n)
    BY <1>1, <1>2 DEF CrLfAt
  <1> QED BY <1>3, <1>4

LEMMA LineEndExists ==
  ASSUME NEW x \in Seq(Chars), NEW s \in 1..Len(x), NEW n \in s..Len(x) - 1, CrLfAt(x, n)
  PROVE  \E m \in s - 1..Len(x) - 2 : LineEnd(x, s, m) /\ m < n
  <1> DEFINE T == {i \in s..Len(x) - 1 : CrLfAt(x, i)}
  <1>1. n \in T /\ T \in SUBSET Nat
    OBVIOUS
  <1>2. PICK e \in T : \A i \in T : e <= i
    BY <1>1, LeastExists
  <1>3. e \in s..Len(x) - 1 /\ e - 1 \in s - 1..Len(x) - 2 /\ e - 1 + 1 = e /\ CrLfAt(x, e) /\ e <= n
    BY <1>1, <1>2
  <1>4. \A i \in s..e - 1 : ~CrLfAt(x, i)
    <2> SUFFICES ASSUME NEW i \in s..e - 1, CrLfAt(x, i) PROVE FALSE
      OBVIOUS
    <2>1. i \in T /\ i < e
      BY <1>3
    <2> QED BY <2>1, <1>2, <1>3
  <1>5. LineEnd(x, s, e - 1)
    BY <1>3, <1>4 DEF LineEnd
  <1> QED BY <1>3, <1>5

LEMMA LineEndUnique ==
  ASSUME NEW x \in Seq(Chars), NEW s \in 1..Len(x), NEW m, NEW n, LineEnd(x, s, m), LineEnd(x, s, n)
  PROVE  m = n
  <1>1. m \in Int /\ n \in Int /\ s - 1 <= m /\ s - 1 <= n
    BY DEF LineEnd
  <1>2. ~(m < n)
    <2> SUFFICES ASSUME m < n PROVE FALSE
      OBVIOUS
    <2>1. m + 1 \in s..n
      BY <1>1
    <2> QED BY <2>1 DEF LineEnd
  <1>3. ~(n < m)
    <2> SUFFICES ASSUME n < m PROVE FALSE
      OBVIOUS
    <2>1. n + 1 \in s..m
      BY <1>1
    <2> QED BY <2>1 DEF LineEnd
  <1> QED BY <1>1, <1>2, <1>3

LEMMA LineAtIs ==
  ASSUME NEW x \in Seq(Chars), NEW s \in 1..Len(x), NEW m, LineEnd(x, s, m)
  PROVE  LineAt(x, s) = SubSeq(x, s, m)
  <1> DEFINE T == {n \in s - 1..Len(x) - 2 : SubSeq(x, n + 1, n + 2) = CrLf}
  <1>1. ASSUME NEW n \in s - 1..Len(x) - 2
        PROVE  SubSeq(x, n + 1, n + 2) = CrLf <=> CrLfAt(x, n + 1)
    <2>1. n + 1 \in 1..Len(x) - 1 /\ n + 2 = n + 1 + 1
      OBVIOUS
    <2> QED BY <2>1, CrLfIs
  <1>2. m \in s - 1..Len(x) - 2 /\ m \in T
    BY <1>1 DEF LineEnd
  <1>3. T \in SUBSET Nat
    OBVIOUS
  <1>4. ASSUME NEW n \in T PROVE m <= n
    <2> SUFFICES ASSUME n < m PROVE FALSE
      BY <1>2
    <2>1. n + 1 \in s..m /\ CrLfAt(x, n + 1)
      BY <1>1, <1>2
    <2> QED BY <2>1 DEF LineEnd
  <1> HIDE DEF T
  <1>5. Min(T) = m
    BY <1>2, <1>3, <1>4, MinIs
  <1> QED BY <1>5, Zenon DEF LineAt, T

\* A header line from s to m, after the lines before it.
FieldTo(x, s, m) ==
  \/ HeaderTo(x, s, m)
  \/ ContinuationTo(x, s, m) /\ \E r \in 3..s - 1 : CrLfAt(x, r - 2)

RequestAll(x) ==
  /\ Len(x) > 4 /\ CrLfAt(x, Len(x) - 3) /\ CrLfAt(x, Len(x) - 1)
  /\ \E m \in Nat : LineEnd(x, 1, m) /\ RequestLineTo(x, m)
  /\ \A s \in 3..Len(x) - 2 :
       CrLfAt(x, s - 2) => \E m \in Nat : LineEnd(x, s, m) /\ FieldTo(x, s, m)

LEMMA RequestIs ==
  ASSUME NEW x \in Seq(Chars)
  PROVE  IsRequest(x) <=> RequestAll(x)
  <1> DEFINE last == SubSeq(x, Len(x) - 3, Len(x))
             Ends == Len(x) > 4 /\ CrLfAt(x, Len(x) - 3) /\ CrLfAt(x, Len(x) - 1)
  <1>1. Len(x) > 4 => (last = CrLf \o CrLf <=> CrLfAt(x, Len(x) - 3) /\ CrLfAt(x, Len(x) - 1))
    <2> SUFFICES ASSUME Len(x) > 4
                 PROVE  last = CrLf \o CrLf <=> CrLfAt(x, Len(x) - 3) /\ CrLfAt(x, Len(x) - 1)
      OBVIOUS
    <2> DEFINE k == Len(x) - 3
    <2>1. k \in 1..Len(x) + 1 /\ Len(x) \in k - 1..Len(x) /\ Len(x) - k + 1 = 4
      OBVIOUS
    <2>2. last \in Seq(Chars) /\ Len(last) = 4 /\ \A i \in 1..4 : last[i] = x[k + i - 1]
      BY <2>1, Part
    <2>3. last[1] = x[k] /\ last[2] = x[k + 1] /\ last[3] = x[k + 2] /\ last[4] = x[k + 3]
      BY <2>2
    <2> DEFINE e == CrLf \o CrLf
    <2>4. e \in Seq(Chars) /\ Len(e) = 4 /\ e[1] = "cr" /\ e[2] = "lf" /\ e[3] = "cr" /\ e[4] = "lf"
      BY Classes DEF CrLf
    <2> HIDE DEF e
    <2>5. CrLfAt(x, k) /\ CrLfAt(x, k + 2) => last = e
      <3> SUFFICES ASSUME CrLfAt(x, k), CrLfAt(x, k + 2) PROVE last = e
        OBVIOUS
      <3>1. \A i \in 1..4 : last[i] = e[i]
        BY <2>3, <2>4 DEF CrLfAt
      <3> QED BY <3>1, <2>2, <2>4, SeqEqual
    <2>6. last = e => CrLfAt(x, k) /\ CrLfAt(x, k + 2)
      <3>1. k + 2 + 1 = k + 3
        OBVIOUS
      <3> HIDE DEF k, last
      <3> QED BY <2>3, <2>4, <3>1, Zenon DEF CrLfAt
    <2>7. k + 2 = Len(x) - 1
      OBVIOUS
    <2> QED BY <2>5, <2>6, <2>7 DEF e
  <1>2. ASSUME Ends, NEW s \in 1..Len(x) - 2
        PROVE  \E m \in s - 1..Len(x) - 2 : LineEnd(x, s, m)
    <2>1. Len(x) - 1 \in s..Len(x) - 1 /\ s \in 1..Len(x)
      BY <1>2
    <2> QED BY <2>1, <1>2, LineEndExists
  <1>3. ASSUME Ends, NEW s \in 1..Len(x) - 2, NEW m, LineEnd(x, s, m)
        PROVE  /\ LineAt(x, s) = SubSeq(x, s, m)
               /\ m \in Nat /\ m \in s - 1..Len(x)
    <2>1. s \in 1..Len(x)
      OBVIOUS
    <2>2. m \in s - 1..Len(x) - 2
      BY <1>3 DEF LineEnd
    <2> QED BY <1>3, <2>1, <2>2, LineAtIs
  <1>4. ASSUME Ends PROVE IsRequestLine(LineAt(x, 1)) <=> \E m \in Nat : LineEnd(x, 1, m) /\ RequestLineTo(x, m)
    <2>1. 1 \in 1..Len(x) - 2 /\ 1 \in 1..Len(x)
      BY <1>4
    <2>2. PICK e \in 1 - 1..Len(x) - 2 : LineEnd(x, 1, e)
      BY <2>1, <1>2, <1>4
    <2>3. LineAt(x, 1) = SubSeq(x, 1, e) /\ e \in Nat /\ e \in 0..Len(x)
      BY <2>1, <2>2, <1>3, <1>4
    <2>4. IsRequestLine(LineAt(x, 1)) <=> RequestLineTo(x, e)
      BY <2>3, RequestLineOfPart
    <2>5. \A m \in Nat : LineEnd(x, 1, m) => m = e
      BY <2>1, <2>2, LineEndUnique
    <2> QED BY <2>2, <2>3, <2>4, <2>5
  <1>5. ASSUME NEW s \in 3..Len(x) - 2 PROVE s \in HeaderStarts(x) <=> CrLfAt(x, s - 2)
    <2>1. s - 2 \in 1..Len(x) - 1 /\ s - 1 = s - 2 + 1
      OBVIOUS
    <2>2. SubSeq(x, s - 2, s - 1) = CrLf <=> CrLfAt(x, s - 2)
      BY <2>1, CrLfIs
    <2> QED BY <2>2, Zenon DEF HeaderStarts
  <1>6. ASSUME NEW s \in 3..Len(x) - 2
        PROVE  (\E r \in HeaderStarts(x) : r < s) <=> \E r \in 3..s - 1 : CrLfAt(x, r - 2)
    <2>1. ASSUME NEW r \in HeaderStarts(x), r < s PROVE r \in 3..s - 1 /\ CrLfAt(x, r - 2)
      <3>1. r \in 3..Len(x) - 2
        BY DEF HeaderStarts
      <3> QED BY <3>1, <2>1, <1>5
    <2>2. ASSUME NEW r \in 3..s - 1, CrLfAt(x, r - 2) PROVE r \in HeaderStarts(x) /\ r < s
      <3>1. r \in 3..Len(x) - 2 /\ r < s
        OBVIOUS
      <3> QED BY <3>1, <2>2, <1>5
    <2> QED BY <2>1, <2>2
  <1>7. ASSUME Ends, NEW s \in 3..Len(x) - 2
        PROVE  (\/ IsHeader(LineAt(x, s))
                \/ IsContinuation(LineAt(x, s)) /\ \E r \in HeaderStarts(x) : r < s)
               <=> \E m \in Nat : LineEnd(x, s, m) /\ FieldTo(x, s, m)
    <2>1. s \in 1..Len(x) - 2 /\ s \in 1..Len(x) /\ s \in 1..Len(x) + 1
      OBVIOUS
    <2>2. PICK e \in s - 1..Len(x) - 2 : LineEnd(x, s, e)
      BY <2>1, <1>2, <1>7
    <2>3. LineAt(x, s) = SubSeq(x, s, e) /\ e \in Nat /\ e \in s - 1..Len(x)
      BY <2>1, <2>2, <1>3, <1>7
    <2>4. /\ IsHeader(LineAt(x, s)) <=> HeaderTo(x, s, e)
          /\ IsContinuation(LineAt(x, s)) <=> ContinuationTo(x, s, e)
      BY <2>1, <2>3, HeaderOfPart
    <2>5. \A m \in Nat : LineEnd(x, s, m) => m = e
      BY <2>1, <2>2, LineEndUnique
    <2>6. FieldTo(x, s, e) <=> (\/ IsHeader(LineAt(x, s))
                                \/ IsContinuation(LineAt(x, s)) /\ \E r \in HeaderStarts(x) : r < s)
      <3>1. (\E r \in HeaderStarts(x) : r < s) <=> \E r \in 3..s - 1 : CrLfAt(x, r - 2)
        BY <1>6
      <3> QED BY <2>4, <3>1, Zenon DEF FieldTo
    <2> QED BY <2>2, <2>3, <2>5, <2>6, Zenon
  <1>8. ASSUME Ends
        PROVE  (\A s \in HeaderStarts(x) :
                  \/ IsHeader(LineAt(x, s))
                  \/ IsContinuation(LineAt(x, s)) /\ \E r \in HeaderStarts(x) : r < s)
               <=> \A s \in 3..Len(x) - 2 :
                     CrLfAt(x, s - 2) => \E m \in Nat : LineEnd(x, s, m) /\ FieldTo(x, s, m)
    <2>1. HeaderStarts(x) \subseteq 3..Len(x) - 2
      BY Zenon DEF HeaderStarts
    <2> QED BY <1>5, <1>7, <1>8, <2>1, Zenon
  <1> HIDE DEF last
  <1>9. IsRequest(x) <=>
          /\ Len(x) > 4 /\ last = CrLf \o CrLf
          /\ IsRequestLine(LineAt(x, 1))
          /\ \A s \in HeaderStarts(x) :
               \/ IsHeader(LineAt(x, s))
               \/ IsContinuation(LineAt(x, s)) /\ \E r \in HeaderStarts(x) : r < s
    BY Zenon DEF IsRequest, last
  <1>10. RequestAll(x) <=>
          /\ Ends
          /\ \E m \in Nat : LineEnd(x, 1, m) /\ RequestLineTo(x, m)
          /\ \A s \in 3..Len(x) - 2 :
               CrLfAt(x, s - 2) => \E m \in Nat : LineEnd(x, s, m) /\ FieldTo(x, s, m)
    BY Zenon DEF RequestAll
  <1> QED BY <1>1, <1>4, <1>8, <1>9, <1>10, Zenon

-----------------------------------------------------------------------------
(* What the automaton has read when it is in one of its states: the first  *)
(* L characters of x are the beginning of a request.                       *)

\* The first p characters are the request line and whole header lines.
LinesTo(x, p) ==
  /\ \E e \in Nat : RequestLineTo(x, e) /\ CrLfAt(x, e + 1) /\ e + 2 <= p
  /\ CrLfAt(x, p - 1)
  /\ \A s \in 3..p : CrLfAt(x, s - 2) => \E m \in s..p - 2 : CrLfAt(x, m + 1) /\ FieldTo(x, s, m)

AtUri(x, L) ==
  \E a \in 1..L : MethodTo(x, a) /\ PlainIn(x, a + 1, L) /\ \A i \in a + 1..L : x[i] # "sp"
AtHttp(x, n, L) ==
  \E a, b \in Nat : MethodTo(x, a) /\ UriTo(x, a, b) /\ HttpTo(x, b, n) /\ L = b + n
AtMajor(x, L) ==
  \E a, b \in Nat : MethodTo(x, a) /\ UriTo(x, a, b) /\ HttpTo(x, b, 5) /\ DigitsIn(x, b + 6, L)
AtMinorStart(x, L) ==
  \E a, b \in Nat : MethodTo(x, a) /\ UriTo(x, a, b) /\ HttpTo(x, b, 5) /\ MajorTo(x, b, L)
AtName(x, L)  == \E p \in 1..L - 1 : LinesTo(x, p) /\ NamesIn(x, p + 1, L)
AtColon(x, L) == \E p \in 1..L - 2 : LinesTo(x, p) /\ NamesIn(x, p + 1, L - 1) /\ x[L] = ":"
AtFold(x, L)  ==
  \E p \in 1..L - 1 :
    LinesTo(x, p) /\ BlanksIn(x, p + 1, L) /\ \E r \in 3..p : CrLfAt(x, r - 2)
AtValue(x, L) == \E p \in 1..L - 1 : LinesTo(x, p) /\ FieldTo(x, p + 1, L) /\ ~BlanksIn(x, p + 1, L)
AtFieldEnd(x, L) == \E p \in 1..L - 2 : LinesTo(x, p) /\ FieldTo(x, p + 1, L - 1) /\ x[L] = "cr"

Viable(st, x, L) ==
  /\ st = "method_start" => L = 0
  /\ st = "method" => L >= 1 /\ NamesIn(x, 1, L)
  /\ st = "uri" => AtUri(x, L)
  /\ st = "http_version_h" => AtHttp(x, 0, L)
  /\ st = "http_version_t_1" => AtHttp(x, 1, L)
  /\ st = "http_version_t_2" => AtHttp(x, 2, L)
  /\ st = "http_version_p" => AtHttp(x, 3, L)
  /\ st = "http_version_slash" => AtHttp(x, 4, L)
  /\ st = "http_version_major_start" => AtHttp(x, 5, L)
  /\ st = "http_version_major" => AtMajor(x, L)
  /\ st = "http_version_minor_start" => AtMinorStart(x, L)
  /\ st = "http_version_minor" => RequestLineTo(x, L)
  /\ st = "expecting_newline_1" => L >= 1 /\ RequestLineTo(x, L - 1) /\ x[L] = "cr"
  /\ st = "header_line_start" => LinesTo(x, L)
  /\ st = "header_name" => AtName(x, L)
  /\ st = "space_before_header_value" => AtColon(x, L)
  /\ st = "header_lws" => AtFold(x, L)
  /\ st = "header_value" => AtValue(x, L)
  /\ st = "expecting_newline_2" => AtFieldEnd(x, L)
  /\ st = "expecting_newline_3" => L >= 1 /\ LinesTo(x, L - 1) /\ x[L] = "cr"

\* No line holds a carriage return or a line feed.
LEMMA NoBreakInRequestLine ==
  ASSUME NEW x, NEW m \in Nat, RequestLineTo(x, m)
  PROVE  m > 8 /\ \A i \in 1..m : x[i] \notin {"cr", "lf"}
  <1>1. PICK a, b, d \in Nat :
          MethodTo(x, a) /\ UriTo(x, a, b) /\ HttpTo(x, b, 5) /\ MajorTo(x, b, d) /\ DigitsIn(x, d + 1, m)
    BY Zenon DEF RequestLineTo
  <1>2. 1 < a /\ a < b /\ b + 6 <= d - 1 /\ d + 1 <= m /\ x[a] = "sp" /\ x[b] = "sp" /\ x[d] = "."
    BY <1>1 DEF MethodTo, UriTo, MajorTo
  <1>3. ASSUME NEW i \in 1..m PROVE x[i] \notin {"cr", "lf"}
    <2>1. CASE i < a
      BY <2>1, <1>1, Classes DEF MethodTo
    <2>2. CASE a < i /\ i < b
      BY <2>2, <1>1, Classes DEF UriTo
    <2>3. CASE b < i /\ i <= b + 5
      <3>1. i - b \in 1..5 /\ b + (i - b) = i
        BY <2>3
      <3>2. x[i] = Http[i - b]
        BY <3>1, <1>1, Zenon DEF HttpTo
      <3>3. Http[i - b] \notin {"cr", "lf"}
        BY <3>1 DEF Http
      <3> QED BY <3>2, <3>3
    <2>4. CASE b + 6 <= i /\ i < d
      BY <2>4, <1>1, <1>2, Classes DEF MajorTo
    <2>5. CASE d < i
      BY <2>5, <1>1, <1>2, Classes
    <2>6. CASE i = a \/ i = b \/ i = d
      BY <2>6, <1>2
    <2> QED BY <2>1, <2>2, <2>3, <2>4, <2>5, <2>6, <1>2
  <1> QED BY <1>2, <1>3

LEMMA NoBreakInField ==
  ASSUME NEW x, NEW s \in Nat, NEW m \in Int, FieldTo(x, s, m)
  PROVE  s <= m /\ \A i \in s..m : x[i] \notin {"cr", "lf"}
  <1>1. CASE HeaderTo(x, s, m)
    <2>1. PICK n \in s + 1..m - 1 :
            NamesIn(x, s, n - 1) /\ x[n] = ":" /\ x[n + 1] = "sp" /\ PlainIn(x, n + 2, m)
      BY <1>1 DEF HeaderTo
    <2>2. ASSUME NEW i \in s..m PROVE x[i] \notin {"cr", "lf"}
      <3>1. i \in s..n - 1 \/ i = n \/ i = n + 1 \/ i \in n + 2..m
        OBVIOUS
      <3> QED BY <3>1, <2>1, Classes
    <2> QED BY <2>2
  <1>2. CASE ContinuationTo(x, s, m)
    <2>1. PICK n \in s..m : BlanksIn(x, s, n) /\ PlainIn(x, n + 1, m)
      BY <1>2 DEF ContinuationTo
    <2>2. ASSUME NEW i \in s..m PROVE x[i] \notin {"cr", "lf"}
      <3>1. i \in s..n \/ i \in n + 1..m
        OBVIOUS
      <3> QED BY <3>1, <2>1, Classes
    <2> QED BY <2>2
  <1> QED BY <1>1, <1>2 DEF FieldTo

-----------------------------------------------------------------------------
(* One character more that the automaton takes. *)

LEMMA StepMethod ==
  ASSUME NEW x, NEW L \in Nat, NamesIn(x, 1, L)
  PROVE  /\ IsName(x[L + 1]) => NamesIn(x, 1, L + 1)
         /\ x[L + 1] = "sp" /\ L >= 1 => AtUri(x, L + 1)
  <1>1. IsName(x[L + 1]) => NamesIn(x, 1, L + 1)
    OBVIOUS
  <1>2. ASSUME x[L + 1] = "sp", L >= 1 PROVE AtUri(x, L + 1)
    <2>1. MethodTo(x, L + 1) /\ L + 1 \in 1..L + 1
      BY <1>2 DEF MethodTo
    <2>2. PlainIn(x, L + 1 + 1, L + 1) /\ \A i \in L + 1 + 1..L + 1 : x[i] # "sp"
      OBVIOUS
    <2> QED BY <2>1, <2>2, Zenon DEF AtUri
  <1> QED BY <1>1, <1>2

LEMMA StepUri ==
  ASSUME NEW x, NEW L \in Nat, AtUri(x, L)
  PROVE  /\ x[L + 1] = "sp" => AtHttp(x, 0, L + 1)
         /\ x[L + 1] # "sp" /\ x[L + 1] \notin Ctl => AtUri(x, L + 1)
  <1>1. PICK a \in 1..L : MethodTo(x, a) /\ PlainIn(x, a + 1, L) /\ \A i \in a + 1..L : x[i] # "sp"
    BY Zenon DEF AtUri
  <1>2. ASSUME x[L + 1] = "sp" PROVE AtHttp(x, 0, L + 1)
    <2>1. UriTo(x, a, L + 1)
      BY <1>1, <1>2 DEF UriTo
    <2>2. HttpTo(x, L + 1, 0)
      BY DEF HttpTo
    <2>3. a \in Nat /\ L + 1 \in Nat /\ L + 1 = L + 1 + 0
      OBVIOUS
    <2> QED BY <1>1, <2>1, <2>2, <2>3, Zenon DEF AtHttp
  <1>3. ASSUME x[L + 1] # "sp", x[L + 1] \notin Ctl PROVE AtUri(x, L + 1)
    <2>1. PlainIn(x, a + 1, L + 1) /\ (\A i \in a + 1..L + 1 : x[i] # "sp") /\ a \in 1..L + 1
      BY <1>1, <1>3 DEF IsPlain
    <2> QED BY <1>1, <2>1, Zenon DEF AtUri
  <1> QED BY <1>2, <1>3

LEMMA StepHttp ==
  ASSUME NEW x, NEW n \in 0..4, NEW L \in Nat, AtHttp(x, n, L), x[L + 1] = Http[n + 1]
  PROVE  AtHttp(x, n + 1, L + 1)
  <1>1. PICK a, b \in Nat : MethodTo(x, a) /\ UriTo(x, a, b) /\ HttpTo(x, b, n) /\ L = b + n
    BY Zenon DEF AtHttp
  <1>2. HttpTo(x, b, n + 1)
    <2> SUFFICES ASSUME NEW i \in 1..n + 1 PROVE x[b + i] = Http[i]
      BY DEF HttpTo
    <2>1. CASE i = n + 1
      <3>1. b + i = L + 1
        BY <1>1, <2>1
      <3> QED BY <2>1, <3>1
    <2>2. CASE i # n + 1
      <3>1. i \in 1..n
        BY <2>2
      <3> QED BY <3>1, <1>1, Zenon DEF HttpTo
    <2> QED BY <2>1, <2>2
  <1>3. L + 1 = b + (n + 1)
    BY <1>1
  <1> QED BY <1>1, <1>2, <1>3, Zenon DEF AtHttp

LEMMA StepMajor ==
  ASSUME NEW x, NEW L \in Nat, AtHttp(x, 5, L) \/ AtMajor(x, L), IsDigit(x[L + 1])
  PROVE  AtMajor(x, L + 1)
  <1>1. CASE AtHttp(x, 5, L)
    <2>1. PICK a, b \in Nat : MethodTo(x, a) /\ UriTo(x, a, b) /\ HttpTo(x, b, 5) /\ L = b + 5
      BY <1>1, Zenon DEF AtHttp
    <2>2. DigitsIn(x, b + 6, L + 1)
      BY <2>1
    <2> QED BY <2>1, <2>2, Zenon DEF AtMajor
  <1>2. CASE AtMajor(x, L)
    <2>1. PICK a, b \in Nat : MethodTo(x, a) /\ UriTo(x, a, b) /\ HttpTo(x, b, 5) /\ DigitsIn(x, b + 6, L)
      BY <1>2, Zenon DEF AtMajor
    <2>2. DigitsIn(x, b + 6, L + 1)
      BY <2>1
    <2> QED BY <2>1, <2>2, Zenon DEF AtMajor
  <1> QED BY <1>1, <1>2

LEMMA StepDot ==
  ASSUME NEW x, NEW L \in Nat, AtMajor(x, L), x[L + 1] = "."
  PROVE  AtMinorStart(x, L + 1)
  <1>1. PICK a, b \in Nat : MethodTo(x, a) /\ UriTo(x, a, b) /\ HttpTo(x, b, 5) /\ DigitsIn(x, b + 6, L)
    BY Zenon DEF AtMajor
  <1>2. MajorTo(x, b, L + 1)
    BY <1>1 DEF MajorTo
  <1> QED BY <1>1, <1>2, Zenon DEF AtMinorStart

LEMMA StepMinor ==
  ASSUME NEW x, NEW L \in Nat, AtMinorStart(x, L) \/ RequestLineTo(x, L), IsDigit(x[L + 1])
  PROVE  RequestLineTo(x, L + 1)
  <1>1. CASE AtMinorStart(x, L)
    <2>1. PICK a, b \in Nat : MethodTo(x, a) /\ UriTo(x, a, b) /\ HttpTo(x, b, 5) /\ MajorTo(x, b, L)
      BY <1>1, Zenon DEF AtMinorStart
    <2>2. DigitsIn(x, L + 1, L + 1)
      OBVIOUS
    <2> QED BY <2>1, <2>2, Zenon DEF RequestLineTo
  <1>2. CASE RequestLineTo(x, L)
    <2>1. PICK a, b, d \in Nat :
            MethodTo(x, a) /\ UriTo(x, a, b) /\ HttpTo(x, b, 5) /\ MajorTo(x, b, d) /\ DigitsIn(x, d + 1, L)
      BY <1>2, Zenon DEF RequestLineTo
    <2>2. DigitsIn(x, d + 1, L + 1)
      BY <2>1
    <2> QED BY <2>1, <2>2, Zenon DEF RequestLineTo
  <1> QED BY <1>1, <1>2

\* The line feed that ends the request line.
LEMMA StepFirstLine ==
  ASSUME NEW x, NEW L \in Nat, L >= 1, RequestLineTo(x, L - 1), x[L] = "cr", x[L + 1] = "lf"
  PROVE  LinesTo(x, L + 1) /\ \A r \in 3..L + 1 : ~CrLfAt(x, r - 2)
  <1>1. L - 1 \in Nat /\ (L - 1) + 1 = L /\ (L + 1) - 1 = L /\ (L - 1) + 2 <= L + 1
    OBVIOUS
  <1>2. \A i \in 1..L - 1 : x[i] \notin {"cr", "lf"}
    BY <1>1, NoBreakInRequestLine
  <1>3. CrLfAt(x, L)
    BY DEF CrLfAt
  <1>4. ASSUME NEW r \in 3..L + 1 PROVE ~CrLfAt(x, r - 2)
    <2>1. r - 2 \in 1..L - 1
      OBVIOUS
    <2> QED BY <2>1, <1>2 DEF CrLfAt
  <1>5. \E e \in Nat : RequestLineTo(x, e) /\ CrLfAt(x, e + 1) /\ e + 2 <= L + 1
    BY <1>1, <1>3
  <1>6. CrLfAt(x, (L + 1) - 1)
    BY <1>1, <1>3
  <1>7. \A s \in 3..L + 1 : CrLfAt(x, s - 2) => \E m \in s..(L + 1) - 2 : CrLfAt(x, m + 1) /\ FieldTo(x, s, m)
    BY <1>4
  <1> QED BY <1>4, <1>5, <1>6, <1>7, Zenon DEF LinesTo

\* The line feed that ends a header line.
LEMMA StepField ==
  ASSUME NEW x, NEW L \in Nat, NEW p \in 1..L - 2, LinesTo(x, p), FieldTo(x, p + 1, L - 1),
         x[L] = "cr", x[L + 1] = "lf"
  PROVE  /\ LinesTo(x, L + 1)
         /\ CrLfAt(x, p - 1) /\ \A r \in p + 2..L + 1 : ~CrLfAt(x, r - 2)
  <1>1. PICK e \in Nat : RequestLineTo(x, e) /\ CrLfAt(x, e + 1) /\ e + 2 <= p
    BY Zenon DEF LinesTo
  <1>2. CrLfAt(x, p - 1)
    BY Zenon DEF LinesTo
  <1>3. \A i \in p + 1..L - 1 : x[i] \notin {"cr", "lf"}
    <2>1. p + 1 \in Nat /\ L - 1 \in Int
      OBVIOUS
    <2> QED BY <2>1, NoBreakInField
  <1>4. CrLfAt(x, L) /\ (L + 1) - 1 = L /\ (L - 1) + 1 = L
    BY DEF CrLfAt
  <1>5. ASSUME NEW r \in p + 2..L + 1 PROVE ~CrLfAt(x, r - 2)
    <2>1. r - 2 = p \/ r - 2 \in p + 1..L - 1
      OBVIOUS
    <2>2. x[p] = "lf"
      <3>1. p - 1 + 1 = p
        OBVIOUS
      <3> QED BY <3>1, <1>2 DEF CrLfAt
    <2> QED BY <2>1, <2>2, <1>3 DEF CrLfAt
  <1>6. ASSUME NEW s \in 3..L + 1, CrLfAt(x, s - 2)
        PROVE  \E m \in s..(L + 1) - 2 : CrLfAt(x, m + 1) /\ FieldTo(x, s, m)
    <2>1. CASE s <= p
      <3>1. s \in 3..p
        BY <2>1
      <3>2. PICK m \in s..p - 2 : CrLfAt(x, m + 1) /\ FieldTo(x, s, m)
        BY <3>1, <1>6, Zenon DEF LinesTo
      <3>3. m \in s..(L + 1) - 2
        OBVIOUS
      <3> QED BY <3>2, <3>3
    <2>2. CASE s = p + 1
      <3>1. L - 1 \in s..(L + 1) - 2
        BY <2>2
      <3> QED BY <3>1, <2>2, <1>4
    <2>3. CASE s > p + 1
      <3>1. s \in p + 2..L + 1
        BY <2>3
      <3> QED BY <3>1, <1>5, <1>6
    <2> QED BY <2>1, <2>2, <2>3
  <1>7. e + 2 <= L + 1
    BY <1>1
  <1>8. CrLfAt(x, (L + 1) - 1)
    BY <1>4
  <1>9. \E f \in Nat : RequestLineTo(x, f) /\ CrLfAt(x, f + 1) /\ f + 2 <= L + 1
    BY <1>1, <1>7
  <1> QED BY <1>2, <1>5, <1>6, <1>8, <1>9, Zenon DEF LinesTo

LEMMA StepLineStart ==
  ASSUME NEW x, NEW L \in Nat \ {0}, LinesTo(x, L)
  PROVE  /\ IsName(x[L + 1]) => AtName(x, L + 1)
         /\ IsBlank(x[L + 1]) /\ (\E r \in 3..L : CrLfAt(x, r - 2)) => AtFold(x, L + 1)
  <1>1. L \in 1..(L + 1) - 1
    OBVIOUS
  <1>2. ASSUME IsName(x[L + 1]) PROVE NamesIn(x, L + 1, L + 1)
    BY <1>2
  <1>3. ASSUME IsBlank(x[L + 1]) PROVE BlanksIn(x, L + 1, L + 1)
    BY <1>3
  <1>4. IsName(x[L + 1]) => AtName(x, L + 1)
    BY <1>1, <1>2, Zenon DEF AtName
  <1>5. IsBlank(x[L + 1]) /\ (\E r \in 3..L : CrLfAt(x, r - 2)) => AtFold(x, L + 1)
    BY <1>1, <1>3, Zenon DEF AtFold
  <1> QED BY <1>4, <1>5

LEMMA StepName ==
  ASSUME NEW x, NEW L \in Nat, AtName(x, L)
  PROVE  /\ IsName(x[L + 1]) => AtName(x, L + 1)
         /\ x[L + 1] = ":" => AtColon(x, L + 1)
  <1>1. PICK p \in 1..L - 1 : LinesTo(x, p) /\ NamesIn(x, p + 1, L)
    BY Zenon DEF AtName
  <1>2. p \in 1..(L + 1) - 1 /\ p \in 1..(L + 1) - 2 /\ (L + 1) - 1 = L
    OBVIOUS
  <1>3. ASSUME IsName(x[L + 1]) PROVE NamesIn(x, p + 1, L + 1)
    BY <1>1, <1>3
  <1>4. IsName(x[L + 1]) => AtName(x, L + 1)
    BY <1>1, <1>2, <1>3, Zenon DEF AtName
  <1>5. x[L + 1] = ":" => AtColon(x, L + 1)
    BY <1>1, <1>2, Zenon DEF AtColon
  <1> QED BY <1>4, <1>5

LEMMA StepColon ==
  ASSUME NEW x, NEW L \in Nat, AtColon(x, L), x[L + 1] = "sp"
  PROVE  AtValue(x, L + 1)
  <1>1. PICK p \in 1..L - 2 : LinesTo(x, p) /\ NamesIn(x, p + 1, L - 1) /\ x[L] = ":"
    BY Zenon DEF AtColon
  <1>2. L \in (p + 1) + 1..(L + 1) - 1 /\ p \in 1..(L + 1) - 1
    OBVIOUS
  <1>3. PlainIn(x, L + 2, L + 1)
    OBVIOUS
  <1>4. HeaderTo(x, p + 1, L + 1)
    BY <1>1, <1>2, <1>3, Zenon DEF HeaderTo
  <1>5. ~BlanksIn(x, p + 1, L + 1)
    <2>1. IsName(x[p + 1]) /\ p + 1 \in p + 1..L + 1
      BY <1>1
    <2> QED BY <2>1, Classes
  <1>6. FieldTo(x, p + 1, L + 1)
    BY <1>4 DEF FieldTo
  <1> QED BY <1>1, <1>2, <1>5, <1>6, Zenon DEF AtValue

LEMMA StepFold ==
  ASSUME NEW x, NEW L \in Nat, AtFold(x, L)
  PROVE  /\ IsBlank(x[L + 1]) => AtFold(x, L + 1)
         /\ x[L + 1] = "cr" => AtFieldEnd(x, L + 1)
         /\ x[L + 1] \notin Ctl /\ ~IsBlank(x[L + 1]) => AtValue(x, L + 1)
  <1>1. PICK p \in 1..L - 1 :
          LinesTo(x, p) /\ BlanksIn(x, p + 1, L) /\ \E r \in 3..p : CrLfAt(x, r - 2)
    BY Zenon DEF AtFold
  <1>2. /\ p \in 1..(L + 1) - 1 /\ p \in 1..(L + 1) - 2 /\ (L + 1) - 1 = L
        /\ L \in p + 1..L /\ L \in p + 1..L + 1 /\ p = (p + 1) - 1
    OBVIOUS
  <1>3. ASSUME IsBlank(x[L + 1]) PROVE AtFold(x, L + 1)
    <2>1. BlanksIn(x, p + 1, L + 1)
      BY <1>1, <1>3
    <2> QED BY <1>1, <1>2, <2>1, Zenon DEF AtFold
  <1>4. ASSUME x[L + 1] = "cr" PROVE AtFieldEnd(x, L + 1)
    <2>1. PlainIn(x, L + 1, L)
      OBVIOUS
    <2>2. ContinuationTo(x, p + 1, L)
      BY <1>1, <1>2, <2>1, Zenon DEF ContinuationTo
    <2>3. FieldTo(x, p + 1, L)
      BY <1>1, <1>2, <2>2 DEF FieldTo
    <2> QED BY <1>1, <1>2, <1>4, <2>3 DEF AtFieldEnd
  <1>5. ASSUME x[L + 1] \notin Ctl, ~IsBlank(x[L + 1]) PROVE AtValue(x, L + 1)
    <2>1. PlainIn(x, L + 1, L + 1)
      BY <1>5 DEF IsPlain
    <2>2. ContinuationTo(x, p + 1, L + 1)
      BY <1>1, <1>2, <1>5, <2>1, Zenon DEF ContinuationTo
    <2>3. FieldTo(x, p + 1, L + 1)
      BY <1>1, <1>2, <2>2 DEF FieldTo
    <2>4. ~BlanksIn(x, p + 1, L + 1)
      BY <1>5
    <2> QED BY <1>1, <1>2, <2>3, <2>4, Zenon DEF AtValue
  <1> QED BY <1>3, <1>4, <1>5

LEMMA StepValue ==
  ASSUME NEW x, NEW L \in Nat, AtValue(x, L)
  PROVE  /\ x[L + 1] = "cr" => AtFieldEnd(x, L + 1)
         /\ x[L + 1] \notin Ctl => AtValue(x, L + 1)
  <1>1. PICK p \in 1..L - 1 : LinesTo(x, p) /\ FieldTo(x, p + 1, L) /\ ~BlanksIn(x, p + 1, L)
    BY Zenon DEF AtValue
  <1>2. p \in 1..(L + 1) - 1 /\ p \in 1..(L + 1) - 2 /\ (L + 1) - 1 = L
    OBVIOUS
  <1>3. x[L + 1] = "cr" => AtFieldEnd(x, L + 1)
    BY <1>1, <1>2 DEF AtFieldEnd
  <1>4. ASSUME x[L + 1] \notin Ctl PROVE AtValue(x, L + 1)
    <2>1. IsPlain(x[L + 1])
      BY <1>4 DEF IsPlain
    <2>2. ASSUME HeaderTo(x, p + 1, L) PROVE HeaderTo(x, p + 1, L + 1)
      <3>1. PICK n \in (p + 1) + 1..L - 1 :
              NamesIn(x, p + 1, n - 1) /\ x[n] = ":" /\ x[n + 1] = "sp" /\ PlainIn(x, n + 2, L)
        BY <2>2, Zenon DEF HeaderTo
      <3>2. n \in (p + 1) + 1..(L + 1) - 1 /\ PlainIn(x, n + 2, L + 1)
        BY <3>1, <2>1
      <3> QED BY <3>1, <3>2, Zenon DEF HeaderTo
    <2>3. ASSUME ContinuationTo(x, p + 1, L) PROVE ContinuationTo(x, p + 1, L + 1)
      <3>1. PICK n \in p + 1..L :
              BlanksIn(x, p + 1, n) /\ PlainIn(x, n + 1, L) /\ (n = L \/ ~IsBlank(x[n + 1]))
        BY <2>3, Zenon DEF ContinuationTo
      <3>2. n # L
        BY <3>1, <1>1
      <3>3. n \in p + 1..L + 1 /\ PlainIn(x, n + 1, L + 1)
        BY <3>1, <2>1
      <3> QED BY <3>1, <3>2, <3>3, Zenon DEF ContinuationTo
    <2>4. FieldTo(x, p + 1, L + 1)
      BY <1>1, <2>2, <2>3, Zenon DEF FieldTo
    <2>5. ~BlanksIn(x, p + 1, L + 1)
      BY <1>1
    <2> QED BY <1>1, <1>2, <2>4, <2>5, Zenon DEF AtValue
  <1> QED BY <1>3, <1>4

-----------------------------------------------------------------------------
(* What has been read decides. *)

LEMMA FieldAgrees ==
  ASSUME NEW x, NEW y, NEW s \in Nat \ {0}, NEW m \in Int, \A i \in 1..m : x[i] = y[i], FieldTo(x, s, m)
  PROVE  FieldTo(y, s, m)
  <1>1. CASE HeaderTo(x, s, m)
    <2>1. PICK n \in s + 1..m - 1 :
            NamesIn(x, s, n - 1) /\ x[n] = ":" /\ x[n + 1] = "sp" /\ PlainIn(x, n + 2, m)
      BY <1>1, Zenon DEF HeaderTo
    <2>2. NamesIn(y, s, n - 1) /\ y[n] = ":" /\ y[n + 1] = "sp" /\ PlainIn(y, n + 2, m)
      BY <2>1
    <2> QED BY <2>2 DEF HeaderTo, FieldTo
  <1>2. CASE ContinuationTo(x, s, m) /\ \E r \in 3..s - 1 : CrLfAt(x, r - 2)
    <2>1. PICK n \in s..m : BlanksIn(x, s, n) /\ PlainIn(x, n + 1, m) /\ (n = m \/ ~IsBlank(x[n + 1]))
      BY <1>2, Zenon DEF ContinuationTo
    <2>2. BlanksIn(y, s, n) /\ PlainIn(y, n + 1, m) /\ (n = m \/ ~IsBlank(y[n + 1]))
      BY <2>1
    <2>3. \E r \in 3..s - 1 : CrLfAt(y, r - 2)
      BY <1>2 DEF CrLfAt
    <2>4. ContinuationTo(y, s, m)
      BY <2>2, Zenon DEF ContinuationTo
    <2> QED BY <2>3, <2>4 DEF FieldTo
  <1> QED BY <1>1, <1>2 DEF FieldTo

LEMMA LinesAgree ==
  ASSUME NEW x, NEW y, NEW p \in Nat, \A i \in 1..p : x[i] = y[i], LinesTo(x, p)
  PROVE  LinesTo(y, p)
  <1>1. PICK e \in Nat : RequestLineTo(x, e) /\ CrLfAt(x, e + 1) /\ e + 2 <= p
    BY Zenon DEF LinesTo
  <1>2. RequestLineTo(y, e)
    <2>1. \A i \in 1..e : x[i] = y[i]
      BY <1>1
    <2> QED BY <2>1, <1>1, RequestLineAgrees
  <1>3. CrLfAt(y, e + 1)
    BY <1>1 DEF CrLfAt
  <1>4. CrLfAt(x, p - 1)
    BY Zenon DEF LinesTo
  <1>5. CrLfAt(y, p - 1)
    <2>1. p > 1
      BY <1>1
    <2> QED BY <1>4, <2>1 DEF CrLfAt
  <1>6. ASSUME NEW s \in 3..p, CrLfAt(y, s - 2)
        PROVE  \E m \in s..p - 2 : CrLfAt(y, m + 1) /\ FieldTo(y, s, m)
    <2>1. CrLfAt(x, s - 2)
      BY <1>6 DEF CrLfAt
    <2>2. PICK m \in s..p - 2 : CrLfAt(x, m + 1) /\ FieldTo(x, s, m)
      BY <2>1, Zenon DEF LinesTo
    <2>3. CrLfAt(y, m + 1)
      BY <2>2 DEF CrLfAt
    <2>4. FieldTo(y, s, m)
      <3>1. s \in Nat \ {0} /\ m \in Int /\ \A i \in 1..m : x[i] = y[i]
        OBVIOUS
      <3> QED BY <3>1, <2>2, FieldAgrees
    <2> QED BY <2>3, <2>4
  <1> QED BY <1>1, <1>2, <1>3, <1>5, <1>6, Zenon DEF LinesTo

\* What Viable says of a text is said of its first L characters.
LEMMA StartAgrees ==
  ASSUME NEW x, NEW y, NEW L \in Nat, \A i \in 1..L : x[i] = y[i]
  PROVE  /\ AtUri(x, L) => AtUri(y, L)
         /\ \A n \in 0..5 : AtHttp(x, n, L) => AtHttp(y, n, L)
         /\ AtMajor(x, L) => AtMajor(y, L)
         /\ AtMinorStart(x, L) => AtMinorStart(y, L)
  <1>1. ASSUME NEW a \in 1..L, MethodTo(x, a) PROVE MethodTo(y, a)
    BY <1>1 DEF MethodTo
  <1>2. ASSUME NEW a \in Nat \ {0}, NEW b \in 1..L, UriTo(x, a, b) PROVE UriTo(y, a, b)
    BY <1>2 DEF UriTo
  <1>3. ASSUME NEW b \in Nat, NEW n \in 0..5, b + n <= L, HttpTo(x, b, n) PROVE HttpTo(y, b, n)
    BY <1>3 DEF HttpTo
  <1>4. ASSUME NEW a \in Nat, NEW b \in Nat, MethodTo(x, a), UriTo(x, a, b), b <= L
        PROVE  MethodTo(y, a) /\ UriTo(y, a, b)
    <2>1. 1 < a /\ a < b
      BY <1>4 DEF MethodTo, UriTo
    <2>2. a \in 1..L /\ a \in Nat \ {0} /\ b \in 1..L
      BY <2>1, <1>4
    <2> QED BY <2>2, <1>1, <1>2, <1>4
  <1>5. ASSUME AtUri(x, L) PROVE AtUri(y, L)
    <2>1. PICK a \in 1..L : MethodTo(x, a) /\ PlainIn(x, a + 1, L) /\ \A i \in a + 1..L : x[i] # "sp"
      BY <1>5, Zenon DEF AtUri
    <2>2. MethodTo(y, a) /\ PlainIn(y, a + 1, L) /\ \A i \in a + 1..L : y[i] # "sp"
      BY <2>1, <1>1
    <2> QED BY <2>2, Zenon DEF AtUri
  <1>6. ASSUME NEW n \in 0..5, AtHttp(x, n, L) PROVE AtHttp(y, n, L)
    <2>1. PICK a, b \in Nat : MethodTo(x, a) /\ UriTo(x, a, b) /\ HttpTo(x, b, n) /\ L = b + n
      BY <1>6, Zenon DEF AtHttp
    <2>2. b <= L /\ b + n <= L
      BY <2>1
    <2>3. MethodTo(y, a) /\ UriTo(y, a, b) /\ HttpTo(y, b, n)
      BY <2>1, <2>2, <1>3, <1>4
    <2> QED BY <2>1, <2>3, Zenon DEF AtHttp
  <1>7. ASSUME AtMajor(x, L) PROVE AtMajor(y, L)
    <2>1. PICK a, b \in Nat : MethodTo(x, a) /\ UriTo(x, a, b) /\ HttpTo(x, b, 5) /\ DigitsIn(x, b + 6, L)
      BY <1>7, Zenon DEF AtMajor
    <2>2. b <= L /\ b + 5 <= L /\ 5 \in 0..5
      BY <2>1
    <2>3. MethodTo(y, a) /\ UriTo(y, a, b) /\ HttpTo(y, b, 5)
      BY <2>1, <2>2, <1>3, <1>4
    <2>4. DigitsIn(y, b + 6, L)
      BY <2>1
    <2> QED BY <2>3, <2>4, Zenon DEF AtMajor
  <1>8. ASSUME AtMinorStart(x, L) PROVE AtMinorStart(y, L)
    <2>1. PICK a, b \in Nat : MethodTo(x, a) /\ UriTo(x, a, b) /\ HttpTo(x, b, 5) /\ MajorTo(x, b, L)
      BY <1>8, Zenon DEF AtMinorStart
    <2>2. b + 6 <= L - 1
      BY <2>1 DEF MajorTo
    <2>3. b <= L /\ b + 5 <= L /\ 5 \in 0..5
      BY <2>2
    <2>4. MethodTo(y, a) /\ UriTo(y, a, b) /\ HttpTo(y, b, 5)
      BY <2>1, <2>3, <1>3, <1>4
    <2>5. MajorTo(y, b, L)
      BY <2>1, <2>2 DEF MajorTo
    <2> QED BY <2>4, <2>5, Zenon DEF AtMinorStart
  <1> QED BY <1>5, <1>6, <1>7, <1>8

LEMMA FieldsAgree ==
  ASSUME NEW x, NEW y, NEW L \in Nat, \A i \in 1..L : x[i] = y[i]
  PROVE  /\ AtName(x, L) => AtName(y, L)
         /\ AtColon(x, L) => AtColon(y, L)
         /\ AtFold(x, L) => AtFold(y, L)
         /\ AtValue(x, L) => AtValue(y, L)
         /\ AtFieldEnd(x, L) => AtFieldEnd(y, L)
  <1>1. ASSUME NEW p \in 1..L, LinesTo(x, p) PROVE LinesTo(y, p)
    <2>1. p \in Nat /\ \A i \in 1..p : x[i] = y[i]
      OBVIOUS
    <2> QED BY <1>1, <2>1, LinesAgree
  <1>2. ASSUME NEW p \in 1..L, NEW m \in 0..L, FieldTo(x, p + 1, m) PROVE FieldTo(y, p + 1, m)
    <2>1. p + 1 \in Nat \ {0} /\ m \in Int /\ \A i \in 1..m : x[i] = y[i]
      OBVIOUS
    <2> QED BY <1>2, <2>1, FieldAgrees
  <1>3. ASSUME AtName(x, L) PROVE AtName(y, L)
    <2>1. PICK p \in 1..L - 1 : LinesTo(x, p) /\ NamesIn(x, p + 1, L)
      BY <1>3, Zenon DEF AtName
    <2>2. LinesTo(y, p) /\ NamesIn(y, p + 1, L)
      BY <2>1, <1>1
    <2> QED BY <2>2, Zenon DEF AtName
  <1>4. ASSUME AtColon(x, L) PROVE AtColon(y, L)
    <2>1. PICK p \in 1..L - 2 : LinesTo(x, p) /\ NamesIn(x, p + 1, L - 1) /\ x[L] = ":"
      BY <1>4, Zenon DEF AtColon
    <2>2. LinesTo(y, p) /\ NamesIn(y, p + 1, L - 1) /\ y[L] = ":"
      BY <2>1, <1>1
    <2> QED BY <2>2, Zenon DEF AtColon
  <1>5. ASSUME AtFold(x, L) PROVE AtFold(y, L)
    <2>1. PICK p \in 1..L - 1 :
            LinesTo(x, p) /\ BlanksIn(x, p + 1, L) /\ \E r \in 3..p : CrLfAt(x, r - 2)
      BY <1>5, Zenon DEF AtFold
    <2>2. LinesTo(y, p) /\ BlanksIn(y, p + 1, L)
      BY <2>1, <1>1
    <2>3. \E r \in 3..p : CrLfAt(y, r - 2)
      BY <2>1 DEF CrLfAt
    <2> QED BY <2>2, <2>3, Zenon DEF AtFold
  <1>6. ASSUME AtValue(x, L) PROVE AtValue(y, L)
    <2>1. PICK p \in 1..L - 1 : LinesTo(x, p) /\ FieldTo(x, p + 1, L) /\ ~BlanksIn(x, p + 1, L)
      BY <1>6, Zenon DEF AtValue
    <2>2. LinesTo(y, p) /\ FieldTo(y, p + 1, L)
      BY <2>1, <1>1, <1>2
    <2>3. ~BlanksIn(y, p + 1, L)
      BY <2>1
    <2> QED BY <2>2, <2>3, Zenon DEF AtValue
  <1>7. ASSUME AtFieldEnd(x, L) PROVE AtFieldEnd(y, L)
    <2>1. PICK p \in 1..L - 2 : LinesTo(x, p) /\ FieldTo(x, p + 1, L - 1) /\ x[L] = "cr"
      BY <1>7, Zenon DEF AtFieldEnd
    <2>2. LinesTo(y, p) /\ FieldTo(y, p + 1, L - 1) /\ y[L] = "cr"
      BY <2>1, <1>1, <1>2
    <2> QED BY <2>2, Zenon DEF AtFieldEnd
  <1> QED BY <1>3, <1>4, <1>5, <1>6, <1>7

LEMMA ViableAgrees ==
  ASSUME NEW x, NEW y, NEW L \in Nat, \A i \in 1..L : x[i] = y[i], NEW st, Viable(st, x, L)
  PROVE  Viable(st, y, L)
  <1>1. /\ NamesIn(x, 1, L) => NamesIn(y, 1, L)
        /\ RequestLineTo(x, L) => RequestLineTo(y, L)
    <2>1. RequestLineTo(x, L) => RequestLineTo(y, L)
      BY RequestLineAgrees
    <2> QED BY <2>1
  <1>2. ASSUME L >= 1
        PROVE  /\ RequestLineTo(x, L - 1) => RequestLineTo(y, L - 1)
               /\ LinesTo(x, L - 1) => LinesTo(y, L - 1)
               /\ x[L] = "cr" => y[L] = "cr"
    <2>1. L - 1 \in Nat /\ \A i \in 1..L - 1 : x[i] = y[i]
      BY <1>2
    <2>2. x[L] = "cr" => y[L] = "cr"
      BY <1>2
    <2> QED BY <2>1, <2>2, LinesAgree, RequestLineAgrees
  <1>3. LinesTo(x, L) => LinesTo(y, L)
    BY LinesAgree
  <1>4. 0 \in 0..5 /\ 1 \in 0..5 /\ 2 \in 0..5 /\ 3 \in 0..5 /\ 4 \in 0..5 /\ 5 \in 0..5
    OBVIOUS
  <1>5. /\ AtUri(x, L) => AtUri(y, L)
        /\ \A n \in 0..5 : AtHttp(x, n, L) => AtHttp(y, n, L)
        /\ AtMajor(x, L) => AtMajor(y, L)
        /\ AtMinorStart(x, L) => AtMinorStart(y, L)
    BY StartAgrees
  <1>6. /\ AtName(x, L) => AtName(y, L)
        /\ AtColon(x, L) => AtColon(y, L)
        /\ AtFold(x, L) => AtFold(y, L)
        /\ AtValue(x, L) => AtValue(y, L)
        /\ AtFieldEnd(x, L) => AtFieldEnd(y, L)
    BY FieldsAgree
  <1> QED BY <1>1, <1>2, <1>3, <1>4, <1>5, <1>6 DEF Viable

-----------------------------------------------------------------------------
(* A request's next character is one that the automaton takes. *)

LEMMA MethodUnique ==
  ASSUME NEW x, NEW a \in Nat, NEW c \in Nat, MethodTo(x, a), MethodTo(x, c)
  PROVE  a = c
  <1>1. ~IsName("sp")
    BY Classes
  <1>2. a > 1 /\ c > 1 /\ x[a] = "sp" /\ x[c] = "sp"
        /\ (\A i \in 1..a - 1 : IsName(x[i])) /\ (\A i \in 1..c - 1 : IsName(x[i]))
    BY DEF MethodTo
  <1>3. ~(a < c)
    <2> SUFFICES ASSUME a < c PROVE FALSE
      OBVIOUS
    <2>1. a \in 1..c - 1
      BY <1>2
    <2> QED BY <2>1, <1>1, <1>2
  <1>4. ~(c < a)
    <2> SUFFICES ASSUME c < a PROVE FALSE
      OBVIOUS
    <2>1. c \in 1..a - 1
      BY <1>2
    <2> QED BY <2>1, <1>1, <1>2
  <1> QED BY <1>3, <1>4

LEMMA UriUnique ==
  ASSUME NEW x, NEW a \in Nat, NEW b \in Nat, NEW c \in Nat, UriTo(x, a, b), UriTo(x, a, c)
  PROVE  b = c
  <1>1. /\ a < b /\ a < c /\ x[b] = "sp" /\ x[c] = "sp"
        /\ \A i \in a + 1..b - 1 : x[i] # "sp"
        /\ \A i \in a + 1..c - 1 : x[i] # "sp"
    BY DEF UriTo
  <1>2. ~(b < c)
    <2> SUFFICES ASSUME b < c PROVE FALSE
      OBVIOUS
    <2>1. b \in a + 1..c - 1
      BY <1>1
    <2> QED BY <2>1, <1>1
  <1>3. ~(c < b)
    <2> SUFFICES ASSUME c < b PROVE FALSE
      OBVIOUS
    <2>1. c \in a + 1..b - 1
      BY <1>1
    <2> QED BY <2>1, <1>1
  <1> QED BY <1>2, <1>3

LEMMA MajorUnique ==
  ASSUME NEW x, NEW b \in Nat, NEW d \in Nat, NEW c \in Nat, MajorTo(x, b, d), MajorTo(x, b, c)
  PROVE  d = c
  <1>1. /\ b + 6 <= d - 1 /\ b + 6 <= c - 1 /\ x[d] = "." /\ x[c] = "."
        /\ \A i \in b + 6..d - 1 : IsDigit(x[i])
        /\ \A i \in b + 6..c - 1 : IsDigit(x[i])
    BY DEF MajorTo
  <1>2. ~IsDigit(".")
    BY Classes
  <1>3. ~(d < c)
    <2> SUFFICES ASSUME d < c PROVE FALSE
      OBVIOUS
    <2>1. d \in b + 6..c - 1
      BY <1>1
    <2> QED BY <2>1, <1>1, <1>2
  <1>4. ~(c < d)
    <2> SUFFICES ASSUME c < d PROVE FALSE
      OBVIOUS
    <2>1. c \in b + 6..d - 1
      BY <1>1
    <2> QED BY <2>1, <1>1, <1>2
  <1> QED BY <1>3, <1>4

\* The parts of a request line that ends at m.
LineParts(x, a, b, d, m) ==
  MethodTo(x, a) /\ UriTo(x, a, b) /\ HttpTo(x, b, 5) /\ MajorTo(x, b, d) /\ DigitsIn(x, d + 1, m)

LEMMA TakenInRequestLine ==
  ASSUME NEW y, NEW a \in Nat, NEW b \in Nat, NEW d \in Nat, NEW m \in Nat, LineParts(y, a, b, d, m),
         CrLfAt(y, m + 1), NEW L \in Nat
  PROVE  /\ NamesIn(y, 1, L) => IsName(y[L + 1]) \/ (y[L + 1] = "sp" /\ L >= 1)
         /\ AtUri(y, L) => y[L + 1] \notin Ctl
         /\ \A n \in 0..4 : AtHttp(y, n, L) => y[L + 1] = Http[n + 1]
         /\ AtHttp(y, 5, L) => IsDigit(y[L + 1])
         /\ AtMajor(y, L) => IsDigit(y[L + 1]) \/ y[L + 1] = "."
         /\ AtMinorStart(y, L) => IsDigit(y[L + 1])
         /\ RequestLineTo(y, L) => IsDigit(y[L + 1]) \/ y[L + 1] = "cr"
         /\ L >= 1 /\ RequestLineTo(y, L - 1) /\ y[L] = "cr" => y[L + 1] = "lf"
  <1>1. MethodTo(y, a) /\ UriTo(y, a, b) /\ HttpTo(y, b, 5) /\ MajorTo(y, b, d)
    BY Zenon DEF LineParts
  <1>2. DigitsIn(y, d + 1, m)
    BY Zenon DEF LineParts
  <1>3. /\ 1 < a /\ a < b /\ b + 6 <= d - 1 /\ d + 1 <= m
        /\ y[a] = "sp" /\ y[b] = "sp" /\ y[d] = "." /\ y[m + 1] = "cr" /\ y[m + 2] = "lf"
    <2>1. m + 1 + 1 = m + 2
      OBVIOUS
    <2> QED BY <1>1, <1>2, <2>1 DEF MethodTo, UriTo, MajorTo, CrLfAt
  <1>4. RequestLineTo(y, m)
    BY <1>1, <1>2, Zenon DEF RequestLineTo
  <1>5. \A i \in 1..m : y[i] \notin {"cr", "lf"}
    BY <1>4, NoBreakInRequestLine
  <1>6. ASSUME NamesIn(y, 1, L) PROVE IsName(y[L + 1]) \/ (y[L + 1] = "sp" /\ L >= 1)
    <2>1. ~IsName("sp")
      BY Classes
    <2>2. L < a
      BY <1>3, <1>6, <2>1
    <2>3. CASE L + 1 = a
      BY <2>3, <1>3
    <2>4. CASE L + 1 < a
      BY <2>4, <1>1 DEF MethodTo
    <2> QED BY <2>2, <2>3, <2>4
  <1>7. ASSUME AtUri(y, L) PROVE y[L + 1] \notin Ctl
    <2>1. PICK c \in 1..L : MethodTo(y, c) /\ PlainIn(y, c + 1, L) /\ \A i \in c + 1..L : y[i] # "sp"
      BY <1>7, Zenon DEF AtUri
    <2>2. c = a
      <3>1. c \in Nat
        OBVIOUS
      <3> QED BY <1>1, <2>1, <3>1, MethodUnique
    <2>3. L < b /\ a <= L
      BY <1>3, <2>1, <2>2
    <2>4. CASE L + 1 = b
      BY <2>4, <1>3, Classes DEF IsPlain
    <2>5. CASE L + 1 < b
      <3>1. L + 1 \in a + 1..b - 1
        BY <2>3, <2>5
      <3>2. IsPlain(y[L + 1])
        BY <3>1, <1>1 DEF UriTo
      <3> QED BY <3>2 DEF IsPlain
    <2> QED BY <2>3, <2>4, <2>5
  <1>8. ASSUME NEW n \in 0..5, AtHttp(y, n, L) PROVE L = b + n
    <2>1. PICK e, f \in Nat : MethodTo(y, e) /\ UriTo(y, e, f) /\ HttpTo(y, f, n) /\ L = f + n
      BY <1>8, Zenon DEF AtHttp
    <2>2. e = a
      BY <1>1, <2>1, MethodUnique
    <2>3. f = b
      BY <1>1, <2>1, <2>2, UriUnique
    <2> QED BY <2>1, <2>3
  <1>9. ASSUME NEW n \in 0..4, AtHttp(y, n, L) PROVE y[L + 1] = Http[n + 1]
    <2>1. n \in 0..5 /\ n + 1 \in 1..5
      OBVIOUS
    <2>2. L + 1 = b + (n + 1)
      BY <1>8, <1>9, <2>1
    <2>3. y[b + (n + 1)] = Http[n + 1]
      BY <2>1, <1>1, Zenon DEF HttpTo
    <2> QED BY <2>2, <2>3
  <1>10. ASSUME AtHttp(y, 5, L) PROVE IsDigit(y[L + 1])
    <2>1. L = b + 5
      BY <1>8, <1>10
    <2> QED BY <2>1, <1>1, <1>3 DEF MajorTo
  <1>11. ASSUME AtMajor(y, L) PROVE IsDigit(y[L + 1]) \/ y[L + 1] = "."
    <2>1. PICK e, f \in Nat : MethodTo(y, e) /\ UriTo(y, e, f) /\ HttpTo(y, f, 5) /\ DigitsIn(y, f + 6, L)
      BY <1>11, Zenon DEF AtMajor
    <2>2. e = a
      BY <1>1, <2>1, MethodUnique
    <2>3. f = b
      BY <1>1, <2>1, <2>2, UriUnique
    <2>4. ~IsDigit(".")
      BY Classes
    <2>5. L < d /\ b + 6 <= L
      BY <1>3, <2>1, <2>3, <2>4
    <2>6. CASE L + 1 = d
      BY <2>6, <1>3
    <2>7. CASE L + 1 < d
      BY <2>5, <2>7, <1>1 DEF MajorTo
    <2> QED BY <2>5, <2>6, <2>7
  <1>12. ASSUME AtMinorStart(y, L) PROVE IsDigit(y[L + 1])
    <2>1. PICK e, f \in Nat : MethodTo(y, e) /\ UriTo(y, e, f) /\ HttpTo(y, f, 5) /\ MajorTo(y, f, L)
      BY <1>12, Zenon DEF AtMinorStart
    <2>2. e = a
      BY <1>1, <2>1, MethodUnique
    <2>3. f = b
      BY <1>1, <2>1, <2>2, UriUnique
    <2>4. L = d
      BY <1>1, <2>1, <2>3, MajorUnique
    <2> QED BY <2>4, <1>2
  <1>13. ASSUME RequestLineTo(y, L) PROVE IsDigit(y[L + 1]) \/ y[L + 1] = "cr"
    <2>1. PICK e, f, g \in Nat : LineParts(y, e, f, g, L)
      BY <1>13, Zenon DEF RequestLineTo, LineParts
    <2>2. MethodTo(y, e) /\ UriTo(y, e, f) /\ MajorTo(y, f, g) /\ DigitsIn(y, g + 1, L)
      BY <2>1, Zenon DEF LineParts
    <2>3. e = a
      BY <1>1, <2>2, MethodUnique
    <2>4. f = b
      BY <1>1, <2>2, <2>3, UriUnique
    <2>5. g = d
      BY <1>1, <2>2, <2>4, MajorUnique
    <2>6. L <= m
      <3>1. \A i \in 1..L : y[i] \notin {"cr", "lf"}
        BY <1>13, NoBreakInRequestLine
      <3> QED BY <3>1, <1>3
    <2>7. CASE L = m
      BY <2>7, <1>3
    <2>8. CASE L < m
      BY <2>8, <2>2, <2>5, <1>2
    <2> QED BY <2>6, <2>7, <2>8
  <1>14. ASSUME L >= 1, RequestLineTo(y, L - 1), y[L] = "cr" PROVE y[L + 1] = "lf"
    <2>1. L > m
      BY <1>5, <1>14
    <2>2. L - 1 \in Nat
      BY <1>14
    <2>3. \A i \in 1..L - 1 : y[i] \notin {"cr", "lf"}
      BY <1>14, <2>2, NoBreakInRequestLine
    <2>4. L = m + 1
      <3> SUFFICES ASSUME L > m + 1 PROVE FALSE
        BY <2>1
      <3>1. m + 1 \in 1..L - 1
        OBVIOUS
      <3> QED BY <3>1, <2>3, <1>3
    <2> QED BY <2>4, <1>3
  <1> QED BY <1>6, <1>7, <1>9, <1>10, <1>11, <1>12, <1>13, <1>14

\* After the line feed at p a request has its last two characters, or a header line.
LEMMA AfterLine ==
  ASSUME NEW y \in Seq(Chars), RequestAll(y), NEW p \in 2..Len(y) - 1, CrLfAt(y, p - 1)
  PROVE  \/ p = Len(y) - 2 /\ y[p + 1] = "cr" /\ y[p + 2] = "lf"
         \/ \E m \in Nat : p + 1 <= m /\ FieldTo(y, p + 1, m) /\ CrLfAt(y, m + 1)
  <1>1. /\ Len(y) > 4 /\ y[Len(y) - 1] = "cr" /\ y[Len(y)] = "lf"
        /\ \A s \in 3..Len(y) - 2 :
             CrLfAt(y, s - 2) => \E m \in Nat : LineEnd(y, s, m) /\ FieldTo(y, s, m)
    <2>1. Len(y) > 4 /\ CrLfAt(y, Len(y) - 1)
      BY Zenon DEF RequestAll
    <2>2. y[Len(y) - 1] = "cr" /\ y[Len(y)] = "lf"
      BY <2>1 DEF CrLfAt
    <2>3. \A s \in 3..Len(y) - 2 :
            CrLfAt(y, s - 2) => \E m \in Nat : LineEnd(y, s, m) /\ FieldTo(y, s, m)
      BY Zenon DEF RequestAll
    <2> QED BY <2>1, <2>2, <2>3
  <1>2. y[p] = "lf"
    BY DEF CrLfAt
  <1>3. p # Len(y) - 1
    BY <1>1, <1>2
  <1>4. CASE p = Len(y) - 2
    BY <1>1, <1>4
  <1>5. CASE p < Len(y) - 2
    <2>1. p + 1 \in 3..Len(y) - 2 /\ (p + 1) - 2 = p - 1
      BY <1>5
    <2>2. PICK m \in Nat : LineEnd(y, p + 1, m) /\ FieldTo(y, p + 1, m)
      BY <2>1, <1>1
    <2>3. p + 1 <= m
      <3>1. p + 1 \in Nat /\ m \in Int
        OBVIOUS
      <3> QED BY <2>2, <3>1, NoBreakInField
    <2>4. CrLfAt(y, m + 1)
      BY <2>2, Zenon DEF LineEnd
    <2> QED BY <2>2, <2>3, <2>4
  <1> QED BY <1>3, <1>4, <1>5

LEMMA TakenInField ==
  ASSUME NEW y, NEW p \in Nat, NEW m \in Nat, p + 1 <= m, FieldTo(y, p + 1, m), CrLfAt(y, m + 1),
         NEW L \in Nat, p < L
  PROVE  /\ NamesIn(y, p + 1, L) => IsName(y[L + 1]) \/ y[L + 1] = ":"
         /\ NamesIn(y, p + 1, L - 1) /\ p + 1 < L /\ y[L] = ":" => y[L + 1] = "sp"
         /\ BlanksIn(y, p + 1, L) => y[L + 1] = "cr" \/ IsBlank(y[L + 1]) \/ y[L + 1] \notin Ctl
         /\ FieldTo(y, p + 1, L) /\ ~BlanksIn(y, p + 1, L) => y[L + 1] = "cr" \/ y[L + 1] \notin Ctl
         /\ p + 1 < L /\ FieldTo(y, p + 1, L - 1) /\ y[L] = "cr" => y[L + 1] = "lf"
  <1>1. y[m + 1] = "cr" /\ y[m + 2] = "lf"
    <2>1. m + 1 + 1 = m + 2
      OBVIOUS
    <2> QED BY <2>1 DEF CrLfAt
  <1>2. \A i \in p + 1..m : y[i] \notin {"cr", "lf"}
    <2>1. p + 1 \in Nat /\ m \in Int
      OBVIOUS
    <2> QED BY <2>1, NoBreakInField
  <1>3. HeaderTo(y, p + 1, m) \/ ContinuationTo(y, p + 1, m)
    BY Zenon DEF FieldTo
  <1>4. ~IsName(":") /\ ~IsName("sp") /\ ~IsBlank("cr") /\ ~IsBlank("lf") /\ ~IsBlank(":")
        /\ (\A c : IsBlank(c) => ~IsName(c)) /\ ~IsName("cr") /\ ~IsName("lf")
        /\ (\A c : IsPlain(c) <=> c \notin Ctl)
    BY Classes DEF IsPlain
  <1>5. ASSUME HeaderTo(y, p + 1, m), NEW q \in p + 1..L, NamesIn(y, p + 1, q)
        PROVE  \E n \in p + 2..m - 1 :
                 /\ NamesIn(y, p + 1, n - 1) /\ y[n] = ":" /\ y[n + 1] = "sp"
                 /\ PlainIn(y, n + 2, m) /\ q < n
    <2>1. PICK n \in (p + 1) + 1..m - 1 :
            NamesIn(y, p + 1, n - 1) /\ y[n] = ":" /\ y[n + 1] = "sp" /\ PlainIn(y, n + 2, m)
      BY <1>5, Zenon DEF HeaderTo
    <2>2. q < n
      BY <2>1, <1>5, <1>4
    <2> QED BY <2>1, <2>2
  <1>6. ASSUME IsName(y[p + 1]) PROVE HeaderTo(y, p + 1, m)
    <2> SUFFICES ASSUME ContinuationTo(y, p + 1, m) PROVE FALSE
      BY <1>3
    <2>1. PICK n \in p + 1..m : BlanksIn(y, p + 1, n)
      BY Zenon DEF ContinuationTo
    <2>2. IsBlank(y[p + 1])
      BY <2>1
    <2> QED BY <2>2, <1>4, <1>6
  <1>7. ASSUME NamesIn(y, p + 1, L) PROVE IsName(y[L + 1]) \/ y[L + 1] = ":"
    <2>1. L \in p + 1..L /\ IsName(y[p + 1])
      BY <1>7
    <2>2. PICK n \in p + 2..m - 1 : NamesIn(y, p + 1, n - 1) /\ y[n] = ":" /\ L < n
      BY <2>1, <1>5, <1>6, <1>7
    <2>3. L + 1 = n \/ L + 1 \in p + 1..n - 1
      BY <2>2
    <2> QED BY <2>2, <2>3
  <1>8. ASSUME NamesIn(y, p + 1, L - 1), p + 1 < L, y[L] = ":" PROVE y[L + 1] = "sp"
    <2>1. L - 1 \in p + 1..L /\ IsName(y[p + 1])
      BY <1>8
    <2>2. PICK n \in p + 2..m - 1 :
            NamesIn(y, p + 1, n - 1) /\ y[n] = ":" /\ y[n + 1] = "sp" /\ L - 1 < n
      BY <2>1, <1>5, <1>6, <1>8
    <2>3. L = n
      BY <2>2, <1>4, <1>8
    <2> QED BY <2>2, <2>3
  <1>9. ASSUME L <= m, y[L + 1] \in Ctl, L + 1 <= m
        PROVE  \/ HeaderTo(y, p + 1, m) /\ \E n \in p + 2..m - 1 :
                    NamesIn(y, p + 1, n - 1) /\ y[n] = ":" /\ y[n + 1] = "sp" /\ L + 1 <= n + 1
               \/ ContinuationTo(y, p + 1, m) /\ BlanksIn(y, p + 1, L + 1)
    <2>1. CASE HeaderTo(y, p + 1, m)
      <3>1. PICK n \in (p + 1) + 1..m - 1 :
              NamesIn(y, p + 1, n - 1) /\ y[n] = ":" /\ y[n + 1] = "sp" /\ PlainIn(y, n + 2, m)
        BY <2>1, Zenon DEF HeaderTo
      <3>2. L + 1 <= n + 1
        BY <3>1, <1>4, <1>9
      <3> QED BY <2>1, <3>1, <3>2
    <2>2. CASE ContinuationTo(y, p + 1, m)
      <3>1. PICK n \in p + 1..m : BlanksIn(y, p + 1, n) /\ PlainIn(y, n + 1, m)
        BY <2>2, Zenon DEF ContinuationTo
      <3>2. L + 1 <= n
        BY <3>1, <1>4, <1>9
      <3> QED BY <2>2, <3>1, <3>2
    <2> QED BY <2>1, <2>2, <1>3
  <1>10. ASSUME BlanksIn(y, p + 1, L) PROVE y[L + 1] = "cr" \/ IsBlank(y[L + 1]) \/ y[L + 1] \notin Ctl
    <2>1. L <= m
      BY <1>1, <1>4, <1>10
    <2>2. CASE L = m
      BY <2>2, <1>1
    <2>3. CASE L < m
      <3> SUFFICES ASSUME y[L + 1] \in Ctl, ~IsBlank(y[L + 1]) PROVE FALSE
        OBVIOUS
      <3>1. ~BlanksIn(y, p + 1, L + 1)
        BY <1>10
      <3>2. PICK n \in p + 2..m - 1 : NamesIn(y, p + 1, n - 1)
        BY <3>1, <1>9, <2>3
      <3>3. IsName(y[p + 1]) /\ IsBlank(y[p + 1])
        BY <3>2, <1>10
      <3> QED BY <3>3, <1>4
    <2> QED BY <2>1, <2>2, <2>3
  <1>11. ASSUME FieldTo(y, p + 1, L), ~BlanksIn(y, p + 1, L) PROVE y[L + 1] = "cr" \/ y[L + 1] \notin Ctl
    <2>1. \A i \in p + 1..L : y[i] \notin {"cr", "lf"}
      <3>1. p + 1 \in Nat /\ L \in Int
        OBVIOUS
      <3> QED BY <3>1, <1>11, NoBreakInField
    <2>2. L <= m
      BY <1>1, <2>1
    <2>3. CASE L = m
      BY <2>3, <1>1
    <2>4. CASE L < m
      <3> SUFFICES ASSUME y[L + 1] \in Ctl PROVE FALSE
        OBVIOUS
      <3>1. ~BlanksIn(y, p + 1, L + 1)
        BY <1>11
      <3>2. PICK n \in p + 2..m - 1 :
              NamesIn(y, p + 1, n - 1) /\ y[n] = ":" /\ y[n + 1] = "sp" /\ L + 1 <= n + 1
        BY <3>1, <1>9, <2>4
      <3>3. HeaderTo(y, p + 1, L)
        <4> SUFFICES ASSUME ContinuationTo(y, p + 1, L) PROVE FALSE
          BY <1>11, Zenon DEF FieldTo
        <4>1. PICK q \in p + 1..L : BlanksIn(y, p + 1, q)
          BY Zenon DEF ContinuationTo
        <4>2. IsBlank(y[p + 1]) /\ IsName(y[p + 1])
          BY <4>1, <3>2
        <4> QED BY <4>2, <1>4
      <3>4. PICK q \in (p + 1) + 1..L - 1 : NamesIn(y, p + 1, q - 1) /\ y[q] = ":"
        BY <3>3, Zenon DEF HeaderTo
      <3>5. q < n
        BY <3>2, <3>4
      <3>6. q \in p + 1..n - 1
        BY <3>5
      <3> QED BY <3>2, <3>4, <3>6, <1>4
    <2> QED BY <2>2, <2>3, <2>4
  <1>12. ASSUME p + 1 < L, FieldTo(y, p + 1, L - 1), y[L] = "cr" PROVE y[L + 1] = "lf"
    <2>1. \A i \in p + 1..L - 1 : y[i] \notin {"cr", "lf"}
      <3>1. p + 1 \in Nat /\ L - 1 \in Int
        OBVIOUS
      <3> QED BY <3>1, <1>12, NoBreakInField
    <2>2. L > m
      BY <1>2, <1>12
    <2>3. L = m + 1
      <3> SUFFICES ASSUME L > m + 1 PROVE FALSE
        BY <2>2
      <3>1. m + 1 \in p + 1..L - 1
        OBVIOUS
      <3> QED BY <3>1, <2>1, <1>1
    <2> QED BY <2>3, <1>1
  <1> QED BY <1>7, <1>8, <1>10, <1>11, <1>12

\* What consume takes in a state; later says that a header line has been read.
Wanted(st, c, later) ==
  /\ st = "method_start" => IsName(c)
  /\ st = "method" => IsName(c) \/ c = "sp"
  /\ st = "uri" => c \notin Ctl
  /\ st = "http_version_h" => c = "H"
  /\ st = "http_version_t_1" => c = "T"
  /\ st = "http_version_t_2" => c = "T"
  /\ st = "http_version_p" => c = "P"
  /\ st = "http_version_slash" => c = "slash"
  /\ st = "http_version_major_start" => IsDigit(c)
  /\ st = "http_version_major" => IsDigit(c) \/ c = "."
  /\ st = "http_version_minor_start" => IsDigit(c)
  /\ st = "http_version_minor" => IsDigit(c) \/ c = "cr"
  /\ st = "expecting_newline_1" => c = "lf"
  /\ st = "header_line_start" => \/ c = "cr"
                                 \/ IsName(c)
                                 \/ IsBlank(c) /\ later
  /\ st = "header_name" => IsName(c) \/ c = ":"
  /\ st = "space_before_header_value" => c = "sp"
  /\ st = "header_lws" => c = "cr" \/ IsBlank(c) \/ c \notin Ctl
  /\ st = "header_value" => c = "cr" \/ c \notin Ctl
  /\ st = "expecting_newline_2" => c = "lf"
  /\ st = "expecting_newline_3" => c = "lf"

\* A header line has been read before the line that starts after p.
Later(x, p) == \E r \in 3..p : CrLfAt(x, r - 2)

LEMMA LinesEnd ==
  ASSUME NEW x, NEW p \in Nat, LinesTo(x, p)
  PROVE  p >= 2 /\ CrLfAt(x, p - 1) /\ x[p] = "lf" /\ x[p - 1] = "cr"
  <1>1. PICK e \in Nat : RequestLineTo(x, e) /\ CrLfAt(x, e + 1) /\ e + 2 <= p
    BY Zenon DEF LinesTo
  <1>2. CrLfAt(x, p - 1)
    BY Zenon DEF LinesTo
  <1>3. p - 1 + 1 = p
    OBVIOUS
  <1> QED BY <1>1, <1>2, <1>3 DEF CrLfAt

LEMMA Taken ==
  ASSUME NEW y \in Seq(Chars), RequestAll(y), NEW L \in 0..Len(y) - 1, NEW st, Viable(st, y, L)
  PROVE  Wanted(st, y[L + 1], Later(y, L))
  <1>1. PICK m \in Nat : LineEnd(y, 1, m) /\ RequestLineTo(y, m)
    BY Zenon DEF RequestAll
  <1>2. CrLfAt(y, m + 1)
    BY <1>1, Zenon DEF LineEnd
  <1>3. PICK a, b, d \in Nat : LineParts(y, a, b, d, m)
    BY <1>1, Zenon DEF RequestLineTo, LineParts
  <1>4. L \in Nat
    OBVIOUS
  <1>5. /\ NamesIn(y, 1, L) => IsName(y[L + 1]) \/ (y[L + 1] = "sp" /\ L >= 1)
        /\ AtUri(y, L) => y[L + 1] \notin Ctl
        /\ \A n \in 0..4 : AtHttp(y, n, L) => y[L + 1] = Http[n + 1]
        /\ AtHttp(y, 5, L) => IsDigit(y[L + 1])
        /\ AtMajor(y, L) => IsDigit(y[L + 1]) \/ y[L + 1] = "."
        /\ AtMinorStart(y, L) => IsDigit(y[L + 1])
        /\ RequestLineTo(y, L) => IsDigit(y[L + 1]) \/ y[L + 1] = "cr"
        /\ L >= 1 /\ RequestLineTo(y, L - 1) /\ y[L] = "cr" => y[L + 1] = "lf"
    BY <1>2, <1>3, <1>4, TakenInRequestLine
  <1>6. /\ AtHttp(y, 0, L) => y[L + 1] = "H"
        /\ AtHttp(y, 1, L) => y[L + 1] = "T"
        /\ AtHttp(y, 2, L) => y[L + 1] = "T"
        /\ AtHttp(y, 3, L) => y[L + 1] = "P"
        /\ AtHttp(y, 4, L) => y[L + 1] = "slash"
    <2>1. \A n \in 0..4 : AtHttp(y, n, L) => y[L + 1] = Http[n + 1]
      BY <1>5
    <2>2. Http[0 + 1] = "H" /\ Http[1 + 1] = "T" /\ Http[2 + 1] = "T" /\ Http[3 + 1] = "P"
          /\ Http[4 + 1] = "slash"
      BY DEF Http
    <2>3. 0 \in 0..4 /\ 1 \in 0..4 /\ 2 \in 0..4 /\ 3 \in 0..4 /\ 4 \in 0..4
      OBVIOUS
    <2> QED BY <2>1, <2>2, <2>3, Zenon
  <1>7. ASSUME NEW p \in 1..L, LinesTo(y, p)
        PROVE  /\ p \in Nat /\ p \in 2..Len(y) - 1 /\ CrLfAt(y, p - 1)
               /\ \/ p = Len(y) - 2 /\ y[p + 1] = "cr" /\ y[p + 2] = "lf"
                  \/ \E n \in Nat : p + 1 <= n /\ FieldTo(y, p + 1, n) /\ CrLfAt(y, n + 1)
    <2>1. p \in Nat
      OBVIOUS
    <2>2. p >= 2 /\ CrLfAt(y, p - 1)
      BY <1>7, <2>1, LinesEnd
    <2>3. p \in 2..Len(y) - 1
      BY <2>2
    <2> QED BY <2>1, <2>2, <2>3, AfterLine
  <1>8. ASSUME NEW p \in 1..L - 1, LinesTo(y, p), y[p + 1] # "cr"
        PROVE  \E n \in Nat : p + 1 <= n /\ FieldTo(y, p + 1, n) /\ CrLfAt(y, n + 1)
    BY <1>7, <1>8
  <1>9. ASSUME LinesTo(y, L), L # 0
        PROVE  \/ y[L + 1] = "cr"
               \/ IsName(y[L + 1])
               \/ IsBlank(y[L + 1]) /\ Later(y, L)
    <2>1. L \in 1..L
      BY <1>9
    <2>2. CASE y[L + 1] = "cr"
      BY <2>2
    <2>3. CASE \E n \in Nat : L + 1 <= n /\ FieldTo(y, L + 1, n) /\ CrLfAt(y, n + 1)
      <3>1. PICK n \in Nat : L + 1 <= n /\ FieldTo(y, L + 1, n)
        BY <2>3
      <3>2. CASE HeaderTo(y, L + 1, n)
        <4>1. PICK k \in (L + 1) + 1..n - 1 : NamesIn(y, L + 1, k - 1)
          BY <3>2, Zenon DEF HeaderTo
        <4>2. IsName(y[L + 1])
          BY <4>1
        <4> QED BY <4>2
      <3>3. CASE ContinuationTo(y, L + 1, n) /\ \E r \in 3..(L + 1) - 1 : CrLfAt(y, r - 2)
        <4>1. PICK k \in L + 1..n : BlanksIn(y, L + 1, k)
          BY <3>3, Zenon DEF ContinuationTo
        <4>2. IsBlank(y[L + 1])
          BY <4>1
        <4>3. Later(y, L)
          BY <3>3 DEF Later
        <4> QED BY <4>2, <4>3
      <3> QED BY <3>1, <3>2, <3>3, Zenon DEF FieldTo
    <2> QED BY <1>7, <1>9, <2>1, <2>2, <2>3
  <1>10. ASSUME AtName(y, L) PROVE IsName(y[L + 1]) \/ y[L + 1] = ":"
    <2>1. PICK p \in 1..L - 1 : LinesTo(y, p) /\ NamesIn(y, p + 1, L)
      BY <1>10, Zenon DEF AtName
    <2>2. y[p + 1] # "cr" /\ p \in Nat /\ p < L
      <3>1. IsName(y[p + 1])
        BY <2>1
      <3> QED BY <3>1, Classes
    <2>3. PICK n \in Nat : p + 1 <= n /\ FieldTo(y, p + 1, n) /\ CrLfAt(y, n + 1)
      BY <1>8, <2>1, <2>2
    <2> QED BY <2>1, <2>2, <2>3, <1>4, TakenInField
  <1>11. ASSUME AtColon(y, L) PROVE y[L + 1] = "sp"
    <2>1. PICK p \in 1..L - 2 : LinesTo(y, p) /\ NamesIn(y, p + 1, L - 1) /\ y[L] = ":"
      BY <1>11, Zenon DEF AtColon
    <2>2. y[p + 1] # "cr" /\ p \in Nat /\ p < L /\ p + 1 < L
      <3>1. IsName(y[p + 1])
        BY <2>1
      <3> QED BY <3>1, Classes
    <2>3. PICK n \in Nat : p + 1 <= n /\ FieldTo(y, p + 1, n) /\ CrLfAt(y, n + 1)
      BY <1>8, <2>1, <2>2
    <2> QED BY <2>1, <2>2, <2>3, <1>4, TakenInField
  <1>12. ASSUME AtFold(y, L) PROVE y[L + 1] = "cr" \/ IsBlank(y[L + 1]) \/ y[L + 1] \notin Ctl
    <2>1. PICK p \in 1..L - 1 : LinesTo(y, p) /\ BlanksIn(y, p + 1, L)
      BY <1>12, Zenon DEF AtFold
    <2>2. y[p + 1] # "cr" /\ p \in Nat /\ p < L
      <3>1. IsBlank(y[p + 1])
        BY <2>1
      <3> QED BY <3>1, Classes
    <2>3. PICK n \in Nat : p + 1 <= n /\ FieldTo(y, p + 1, n) /\ CrLfAt(y, n + 1)
      BY <1>8, <2>1, <2>2
    <2> QED BY <2>1, <2>2, <2>3, <1>4, TakenInField
  <1>13. ASSUME AtValue(y, L) PROVE y[L + 1] = "cr" \/ y[L + 1] \notin Ctl
    <2>1. PICK p \in 1..L - 1 : LinesTo(y, p) /\ FieldTo(y, p + 1, L) /\ ~BlanksIn(y, p + 1, L)
      BY <1>13, Zenon DEF AtValue
    <2>2. y[p + 1] # "cr" /\ p \in Nat /\ p < L
      <3>1. p + 1 \in Nat /\ L \in Int /\ p + 1 \in p + 1..L
        OBVIOUS
      <3>2. y[p + 1] \notin {"cr", "lf"}
        BY <2>1, <3>1, NoBreakInField
      <3> QED BY <3>2
    <2>3. PICK n \in Nat : p + 1 <= n /\ FieldTo(y, p + 1, n) /\ CrLfAt(y, n + 1)
      BY <1>8, <2>1, <2>2
    <2> QED BY <2>1, <2>2, <2>3, <1>4, TakenInField
  <1>14. ASSUME AtFieldEnd(y, L) PROVE y[L + 1] = "lf"
    <2>1. PICK p \in 1..L - 2 : LinesTo(y, p) /\ FieldTo(y, p + 1, L - 1) /\ y[L] = "cr"
      BY <1>14, Zenon DEF AtFieldEnd
    <2>2. y[p + 1] # "cr" /\ p \in Nat /\ p < L /\ p + 1 < L
      <3>1. p + 1 \in Nat /\ L - 1 \in Int /\ p + 1 \in p + 1..L - 1
        OBVIOUS
      <3>2. y[p + 1] \notin {"cr", "lf"}
        BY <2>1, <3>1, NoBreakInField
      <3> QED BY <3>2
    <2>3. PICK n \in Nat : p + 1 <= n /\ FieldTo(y, p + 1, n) /\ CrLfAt(y, n + 1)
      BY <1>8, <2>1, <2>2
    <2> QED BY <2>1, <2>2, <2>3, <1>4, TakenInField
  <1>15. ASSUME L >= 1, LinesTo(y, L - 1), y[L] = "cr" PROVE y[L + 1] = "lf"
    <2>1. L - 1 \in Nat /\ (L - 1) + 1 = L /\ (L - 1) + 2 = L + 1
      BY <1>15
    <2>2. L - 1 \in 1..L
      BY <1>15, <2>1, LinesEnd
    <2>3. CASE y[(L - 1) + 2] = "lf"
      BY <2>1, <2>3
    <2>4. CASE \E n \in Nat : (L - 1) + 1 <= n /\ FieldTo(y, (L - 1) + 1, n)
      <3>1. PICK n \in Nat : L <= n /\ FieldTo(y, L, n)
        BY <2>1, <2>4
      <3>2. n \in Int /\ L \in L..n
        BY <3>1
      <3>3. y[L] \notin {"cr", "lf"}
        BY <1>4, <3>1, <3>2, NoBreakInField
      <3> QED BY <3>3, <1>15
    <2> QED BY <1>7, <1>15, <2>2, <2>3, <2>4
  <1>16. LinesTo(y, L) => L # 0
    <2>1. LinesTo(y, L) => L >= 2
      BY <1>4, LinesEnd
    <2> QED BY <2>1
  <1>17. /\ L = 0 => IsName(y[L + 1])
         /\ NamesIn(y, 1, L) => IsName(y[L + 1]) \/ y[L + 1] = "sp"
    <2>1. L = 0 => NamesIn(y, 1, L) /\ ~(L >= 1)
      OBVIOUS
    <2>2. NamesIn(y, 1, L) => IsName(y[L + 1]) \/ (y[L + 1] = "sp" /\ L >= 1)
      BY <1>5, Zenon
    <2> QED BY <2>1, <2>2, Zenon
  <1>18. /\ st = "method_start" => IsName(y[L + 1])
         /\ st = "method" => IsName(y[L + 1]) \/ y[L + 1] = "sp"
         /\ st = "uri" => y[L + 1] \notin Ctl
         /\ st = "http_version_h" => y[L + 1] = "H"
         /\ st = "http_version_t_1" => y[L + 1] = "T"
         /\ st = "http_version_t_2" => y[L + 1] = "T"
         /\ st = "http_version_p" => y[L + 1] = "P"
         /\ st = "http_version_slash" => y[L + 1] = "slash"
    <2>1. st = "method_start" => IsName(y[L + 1])
      BY <1>17, Zenon DEF Viable
    <2>2. st = "method" => IsName(y[L + 1]) \/ y[L + 1] = "sp"
      BY <1>17, Zenon DEF Viable
    <2>3. st = "uri" => y[L + 1] \notin Ctl
      BY <1>5, Zenon DEF Viable
    <2> QED BY <2>1, <2>2, <2>3, <1>6, Zenon DEF Viable
  <1>19. /\ st = "http_version_major_start" => IsDigit(y[L + 1])
         /\ st = "http_version_major" => IsDigit(y[L + 1]) \/ y[L + 1] = "."
         /\ st = "http_version_minor_start" => IsDigit(y[L + 1])
         /\ st = "http_version_minor" => IsDigit(y[L + 1]) \/ y[L + 1] = "cr"
         /\ st = "expecting_newline_1" => y[L + 1] = "lf"
    BY <1>5 DEF Viable
  <1>20. /\ st = "header_line_start" => y[L + 1] = "cr" \/ IsName(y[L + 1]) \/ (IsBlank(y[L + 1]) /\ Later(y, L))
         /\ st = "header_name" => IsName(y[L + 1]) \/ y[L + 1] = ":"
         /\ st = "space_before_header_value" => y[L + 1] = "sp"
         /\ st = "header_lws" => y[L + 1] = "cr" \/ IsBlank(y[L + 1]) \/ y[L + 1] \notin Ctl
    BY <1>9, <1>10, <1>11, <1>12, <1>16, Zenon DEF Viable
  <1>21. /\ st = "header_value" => y[L + 1] = "cr" \/ y[L + 1] \notin Ctl
         /\ st = "expecting_newline_2" => y[L + 1] = "lf"
         /\ st = "expecting_newline_3" => y[L + 1] = "lf"
    BY <1>13, <1>14, <1>15, Zenon DEF Viable
  <1> QED BY <1>18, <1>19, <1>20, <1>21, Zenon DEF Wanted

\* Where consume goes from a state.
Moves(st, c, later, nx) ==
  \/ st \in {"method_start", "method"} /\ IsName(c) /\ nx = "method"
  \/ st = "method" /\ c = "sp" /\ nx = "uri"
  \/ st = "uri" /\ c = "sp" /\ nx = "http_version_h"
  \/ st = "uri" /\ c # "sp" /\ c \notin Ctl /\ nx = "uri"
  \/ st \in DOMAIN Literal /\ c = Literal[st] /\ nx = AfterLiteral[st]
  \/ st \in {"http_version_major_start", "http_version_major"} /\ IsDigit(c) /\ nx = "http_version_major"
  \/ st = "http_version_major" /\ c = "." /\ nx = "http_version_minor_start"
  \/ st \in {"http_version_minor_start", "http_version_minor"} /\ IsDigit(c) /\ nx = "http_version_minor"
  \/ st = "http_version_minor" /\ c = "cr" /\ nx = "expecting_newline_1"
  \/ st = "header_line_start" /\ c = "cr" /\ nx = "expecting_newline_3"
  \/ st = "header_line_start" /\ IsBlank(c) /\ later /\ nx = "header_lws"
  \/ st \in {"header_line_start", "header_name"} /\ IsName(c) /\ nx = "header_name"
  \/ st = "header_name" /\ c = ":" /\ nx = "space_before_header_value"
  \/ st \in {"header_lws", "header_value"} /\ c = "cr" /\ nx = "expecting_newline_2"
  \/ st = "header_lws" /\ IsBlank(c) /\ nx = "header_lws"
  \/ st = "header_lws" /\ ~IsBlank(c) /\ c \notin Ctl /\ nx = "header_value"
  \/ st = "header_value" /\ c \notin Ctl /\ nx = "header_value"

LEMMA Literals ==
  /\ DOMAIN Literal = {"http_version_h", "http_version_t_1", "http_version_t_2", "http_version_p",
                       "http_version_slash", "expecting_newline_1", "space_before_header_value",
                       "expecting_newline_2"}
  /\ Literal["http_version_h"] = "H" /\ AfterLiteral["http_version_h"] = "http_version_t_1"
  /\ Literal["http_version_t_1"] = "T" /\ AfterLiteral["http_version_t_1"] = "http_version_t_2"
  /\ Literal["http_version_t_2"] = "T" /\ AfterLiteral["http_version_t_2"] = "http_version_p"
  /\ Literal["http_version_p"] = "P" /\ AfterLiteral["http_version_p"] = "http_version_slash"
  /\ Literal["http_version_slash"] = "slash"
  /\ AfterLiteral["http_version_slash"] = "http_version_major_start"
  /\ Literal["expecting_newline_1"] = "lf" /\ AfterLiteral["expecting_newline_1"] = "header_line_start"
  /\ Literal["space_before_header_value"] = "sp"
  /\ AfterLiteral["space_before_header_value"] = "header_value"
  /\ Literal["expecting_newline_2"] = "lf" /\ AfterLiteral["expecting_newline_2"] = "header_line_start"
  BY DEF Literal, AfterLiteral

LEMMA StepLiteral ==
  ASSUME NEW x, NEW L \in Nat, NEW st \in DOMAIN Literal, Viable(st, x, L), x[L + 1] = Literal[st]
  PROVE  Viable(AfterLiteral[st], x, L + 1)
  <1>1. ASSUME NEW n \in 0..4, AtHttp(x, n, L), x[L + 1] = Http[n + 1] PROVE AtHttp(x, n + 1, L + 1)
    BY <1>1, StepHttp
  <1>2. /\ Http[0 + 1] = "H" /\ Http[1 + 1] = "T" /\ Http[2 + 1] = "T" /\ Http[3 + 1] = "P"
        /\ Http[4 + 1] = "slash"
    BY DEF Http
  <1>3. /\ 0 \in 0..4 /\ 1 \in 0..4 /\ 2 \in 0..4 /\ 3 \in 0..4 /\ 4 \in 0..4
        /\ 0 + 1 = 1 /\ 1 + 1 = 2 /\ 2 + 1 = 3 /\ 3 + 1 = 4 /\ 4 + 1 = 5
    OBVIOUS
  <1>4. CASE st = "http_version_h"
    <2>1. AtHttp(x, 0, L) /\ x[L + 1] = "H"
      BY <1>4, Literals DEF Viable
    <2>2. AtHttp(x, 1, L + 1)
      BY <2>1, <1>1, <1>2, <1>3
    <2> QED BY <2>2, <1>4, Literals DEF Viable
  <1>5. CASE st = "http_version_t_1"
    <2>1. AtHttp(x, 1, L) /\ x[L + 1] = "T"
      BY <1>5, Literals DEF Viable
    <2>2. AtHttp(x, 2, L + 1)
      BY <2>1, <1>1, <1>2, <1>3
    <2> QED BY <2>2, <1>5, Literals DEF Viable
  <1>6. CASE st = "http_version_t_2"
    <2>1. AtHttp(x, 2, L) /\ x[L + 1] = "T"
      BY <1>6, Literals DEF Viable
    <2>2. AtHttp(x, 3, L + 1)
      BY <2>1, <1>1, <1>2, <1>3
    <2> QED BY <2>2, <1>6, Literals DEF Viable
  <1>7. CASE st = "http_version_p"
    <2>1. AtHttp(x, 3, L) /\ x[L + 1] = "P"
      BY <1>7, Literals DEF Viable
    <2>2. AtHttp(x, 4, L + 1)
      BY <2>1, <1>1, <1>2, <1>3
    <2> QED BY <2>2, <1>7, Literals DEF Viable
  <1>8. CASE st = "http_version_slash"
    <2>1. AtHttp(x, 4, L) /\ x[L + 1] = "slash"
      BY <1>8, Literals DEF Viable
    <2>2. AtHttp(x, 5, L + 1)
      BY <2>1, <1>1, <1>2, <1>3
    <2> QED BY <2>2, <1>8, Literals DEF Viable
  <1>9. CASE st = "expecting_newline_1"
    <2>1. L >= 1 /\ RequestLineTo(x, L - 1) /\ x[L] = "cr" /\ x[L + 1] = "lf"
      BY <1>9, Literals DEF Viable
    <2>2. LinesTo(x, L + 1)
      BY <2>1, StepFirstLine
    <2> QED BY <2>2, <1>9, Literals DEF Viable
  <1>10. CASE st = "space_before_header_value"
    <2>1. AtColon(x, L) /\ x[L + 1] = "sp"
      BY <1>10, Literals DEF Viable
    <2>2. AtValue(x, L + 1)
      BY <2>1, StepColon
    <2> QED BY <2>2, <1>10, Literals DEF Viable
  <1>11. CASE st = "expecting_newline_2"
    <2>1. AtFieldEnd(x, L) /\ x[L + 1] = "lf"
      BY <1>11, Literals DEF Viable
    <2>2. PICK p \in 1..L - 2 : LinesTo(x, p) /\ FieldTo(x, p + 1, L - 1) /\ x[L] = "cr"
      BY <2>1, Zenon DEF AtFieldEnd
    <2>3. LinesTo(x, L + 1)
      BY <2>1, <2>2, StepField
    <2> QED BY <2>3, <1>11, Literals DEF Viable
  <1> QED BY <1>4, <1>5, <1>6, <1>7, <1>8, <1>9, <1>10, <1>11, Literals

LEMMA Step ==
  ASSUME NEW x, NEW L \in Nat, NEW st, Viable(st, x, L), NEW nx,
         Moves(st, x[L + 1], Later(x, L), nx)
  PROVE  Viable(nx, x, L + 1)
  <1> DEFINE c == x[L + 1]
  <1>1. CASE st \in {"method_start", "method"} /\ IsName(c) /\ nx = "method"
    <2>1. NamesIn(x, 1, L)
      BY <1>1 DEF Viable
    <2>2. NamesIn(x, 1, L + 1)
      BY <1>1, <2>1, StepMethod
    <2> QED BY <1>1, <2>2 DEF Viable
  <1>2. CASE st = "method" /\ c = "sp" /\ nx = "uri"
    <2>1. NamesIn(x, 1, L) /\ L >= 1
      BY <1>2 DEF Viable
    <2>2. AtUri(x, L + 1)
      BY <1>2, <2>1, StepMethod
    <2> QED BY <1>2, <2>2 DEF Viable
  <1>3. CASE st = "uri" /\ c = "sp" /\ nx = "http_version_h"
    <2>1. AtUri(x, L)
      BY <1>3 DEF Viable
    <2>2. AtHttp(x, 0, L + 1)
      BY <1>3, <2>1, StepUri
    <2> QED BY <1>3, <2>2 DEF Viable
  <1>4. CASE st = "uri" /\ c # "sp" /\ c \notin Ctl /\ nx = "uri"
    <2>1. AtUri(x, L)
      BY <1>4 DEF Viable
    <2>2. AtUri(x, L + 1)
      BY <1>4, <2>1, StepUri
    <2> QED BY <1>4, <2>2 DEF Viable
  <1>5. CASE st \in DOMAIN Literal /\ c = Literal[st] /\ nx = AfterLiteral[st]
    BY <1>5, StepLiteral
  <1>6. CASE st \in {"http_version_major_start", "http_version_major"} /\ IsDigit(c)
             /\ nx = "http_version_major"
    <2>1. AtHttp(x, 5, L) \/ AtMajor(x, L)
      BY <1>6 DEF Viable
    <2>2. AtMajor(x, L + 1)
      BY <1>6, <2>1, StepMajor
    <2> QED BY <1>6, <2>2 DEF Viable
  <1>7. CASE st = "http_version_major" /\ c = "." /\ nx = "http_version_minor_start"
    <2>1. AtMajor(x, L)
      BY <1>7 DEF Viable
    <2>2. AtMinorStart(x, L + 1)
      BY <1>7, <2>1, StepDot
    <2> QED BY <1>7, <2>2 DEF Viable
  <1>8. CASE st \in {"http_version_minor_start", "http_version_minor"} /\ IsDigit(c)
             /\ nx = "http_version_minor"
    <2>1. AtMinorStart(x, L) \/ RequestLineTo(x, L)
      BY <1>8 DEF Viable
    <2>2. RequestLineTo(x, L + 1)
      BY <1>8, <2>1, StepMinor
    <2> QED BY <1>8, <2>2 DEF Viable
  <1>9. CASE st = "http_version_minor" /\ c = "cr" /\ nx = "expecting_newline_1"
    <2>1. RequestLineTo(x, L)
      BY <1>9 DEF Viable
    <2>2. (L + 1) - 1 = L /\ L + 1 >= 1
      OBVIOUS
    <2> QED BY <1>9, <2>1, <2>2 DEF Viable
  <1>10. CASE st = "header_line_start" /\ c = "cr" /\ nx = "expecting_newline_3"
    <2>1. LinesTo(x, L)
      BY <1>10 DEF Viable
    <2>2. (L + 1) - 1 = L /\ L + 1 >= 1
      OBVIOUS
    <2> QED BY <1>10, <2>1, <2>2 DEF Viable
  <1>11. CASE st = "header_line_start" /\ IsBlank(c) /\ Later(x, L) /\ nx = "header_lws"
    <2>1. LinesTo(x, L)
      BY <1>11 DEF Viable
    <2>2. L \in Nat \ {0}
      BY <2>1, LinesEnd
    <2>3. \E r \in 3..L : CrLfAt(x, r - 2)
      BY <1>11, Zenon DEF Later
    <2>4. AtFold(x, L + 1)
      BY <1>11, <2>1, <2>2, <2>3, StepLineStart
    <2> QED BY <1>11, <2>4 DEF Viable
  <1>12. CASE st = "header_line_start" /\ IsName(c) /\ nx = "header_name"
    <2>1. LinesTo(x, L)
      BY <1>12 DEF Viable
    <2>2. L \in Nat \ {0}
      BY <2>1, LinesEnd
    <2>3. AtName(x, L + 1)
      BY <1>12, <2>1, <2>2, StepLineStart
    <2> QED BY <1>12, <2>3 DEF Viable
  <1>13. CASE st = "header_name" /\ IsName(c) /\ nx = "header_name"
    <2>1. AtName(x, L)
      BY <1>13 DEF Viable
    <2>2. AtName(x, L + 1)
      BY <1>13, <2>1, StepName
    <2> QED BY <1>13, <2>2 DEF Viable
  <1>14. CASE st = "header_name" /\ c = ":" /\ nx = "space_before_header_value"
    <2>1. AtName(x, L)
      BY <1>14 DEF Viable
    <2>2. AtColon(x, L + 1)
      BY <1>14, <2>1, StepName
    <2> QED BY <1>14, <2>2 DEF Viable
  <1>15. CASE st \in {"header_lws", "header_value"} /\ c = "cr" /\ nx = "expecting_newline_2"
    <2>1. AtFold(x, L) \/ AtValue(x, L)
      BY <1>15 DEF Viable
    <2>2. AtFieldEnd(x, L + 1)
      BY <1>15, <2>1, StepFold, StepValue
    <2> QED BY <1>15, <2>2 DEF Viable
  <1>16. CASE st = "header_lws" /\ IsBlank(c) /\ nx = "header_lws"
    <2>1. AtFold(x, L)
      BY <1>16 DEF Viable
    <2>2. AtFold(x, L + 1)
      BY <1>16, <2>1, StepFold
    <2> QED BY <1>16, <2>2 DEF Viable
  <1>17. CASE st = "header_lws" /\ ~IsBlank(c) /\ c \notin Ctl /\ nx = "header_value"
    <2>1. AtFold(x, L)
      BY <1>17 DEF Viable
    <2>2. AtValue(x, L + 1)
      BY <1>17, <2>1, StepFold
    <2> QED BY <1>17, <2>2 DEF Viable
  <1>18. CASE st = "header_value" /\ c \notin Ctl /\ nx = "header_value"
    <2>1. AtValue(x, L)
      BY <1>18 DEF Viable
    <2>2. AtValue(x, L + 1)
      BY <1>18, <2>1, StepValue
    <2> QED BY <1>18, <2>2 DEF Viable
  <1> QED BY <1>1, <1>2, <1>3, <1>4, <1>5, <1>6, <1>7, <1>8, <1>9, <1>10, <1>11, <1>12, <1>13, <1>14,
             <1>15, <1>16, <1>17, <1>18 DEF Moves

-----------------------------------------------------------------------------
(* Where a request ends. *)

LEMMA Done ==
  ASSUME NEW y \in Seq(Chars), NEW L \in Nat, Len(y) = L + 1,
         L >= 1, LinesTo(y, L - 1), y[L] = "cr", y[L + 1] = "lf"
  PROVE  RequestAll(y)
  <1> DEFINE p == L - 1
  <1>1. p \in Nat /\ p = Len(y) - 2 /\ p + 1 = L
    OBVIOUS
  <1> HIDE DEF p
  <1>2. LinesTo(y, p)
    BY DEF p
  <1>3. PICK e \in Nat : RequestLineTo(y, e) /\ CrLfAt(y, e + 1) /\ e + 2 <= p
    BY <1>2, Zenon DEF LinesTo
  <1>4. e > 8 /\ \A i \in 1..e : y[i] \notin {"cr", "lf"}
    BY <1>3, NoBreakInRequestLine
  <1>5. CrLfAt(y, Len(y) - 3) /\ CrLfAt(y, Len(y) - 1) /\ Len(y) > 4
    <2>1. CrLfAt(y, p - 1) /\ p - 1 = Len(y) - 3
      BY <1>1, <1>2, LinesEnd
    <2>2. CrLfAt(y, L) /\ L = Len(y) - 1
      BY DEF CrLfAt
    <2> QED BY <2>1, <2>2, <1>1, <1>3, <1>4
  <1>6. LineEnd(y, 1, e)
    <2>1. e \in 1 - 1..Len(y) - 2
      BY <1>1, <1>3
    <2>2. \A i \in 1..e : ~CrLfAt(y, i)
      BY <1>4 DEF CrLfAt
    <2> QED BY <1>3, <2>1, <2>2, Zenon DEF LineEnd
  <1>7. ASSUME NEW s \in 3..Len(y) - 2, CrLfAt(y, s - 2)
        PROVE  \E m \in Nat : LineEnd(y, s, m) /\ FieldTo(y, s, m)
    <2>1. s \in 3..p
      BY <1>1
    <2>2. PICK m \in s..p - 2 : CrLfAt(y, m + 1) /\ FieldTo(y, s, m)
      BY <1>2, <1>7, <2>1, Zenon DEF LinesTo
    <2>3. m \in Nat /\ m \in s - 1..Len(y) - 2 /\ s \in Nat /\ m \in Int
      BY <1>1
    <2>4. \A i \in s..m : y[i] \notin {"cr", "lf"}
      BY <2>2, <2>3, NoBreakInField
    <2>5. \A i \in s..m : ~CrLfAt(y, i)
      BY <2>4 DEF CrLfAt
    <2> QED BY <2>2, <2>3, <2>5, Zenon DEF LineEnd
  <1> QED BY <1>3, <1>5, <1>6, <1>7, Zenon DEF RequestAll

LEMMA LastOfField ==
  ASSUME NEW x, NEW p \in Nat, NEW m \in Int, FieldTo(x, p + 1, m)
  PROVE  x[m] # "lf"
  <1>1. p + 1 \in Nat
    OBVIOUS
  <1>2. p + 1 <= m /\ \A i \in p + 1..m : x[i] \notin {"cr", "lf"}
    BY <1>1, NoBreakInField
  <1> QED BY <1>2

\* After an empty line no line starts.
LEMMA NoLineAfterEmpty ==
  ASSUME NEW y, NEW L \in Nat, L >= 4, CrLfAt(y, L - 3)
  PROVE  ~LinesTo(y, L)
  <1> SUFFICES ASSUME LinesTo(y, L) PROVE FALSE
    OBVIOUS
  <1>1. L - 1 \in 3..L /\ (L - 1) - 2 = L - 3
    OBVIOUS
  <1>2. \E m \in L - 1..L - 2 : CrLfAt(y, m + 1)
    BY <1>1, Zenon DEF LinesTo
  <1> QED BY <1>2

\* A line feed leaves the automaton at the start of a line and nowhere else.
LEMMA AfterLineFeed ==
  ASSUME NEW y, NEW L \in Nat \ {0}, y[L] = "lf", NEW st \in States, Viable(st, y, L)
  PROVE  st = "header_line_start"
  <1>1. L \in Nat
    OBVIOUS
  <1>3. L > 0 /\ y[L] = "lf"
    OBVIOUS
  <1>5. ~IsName("lf") /\ ~IsDigit("lf") /\ ~IsPlain("lf") /\ ~IsBlank("lf")
    BY Classes
  <1>6. ~NamesIn(y, 1, L)
    BY <1>1, <1>3, <1>5
  <1>7. ~AtUri(y, L)
    <2> SUFFICES ASSUME AtUri(y, L) PROVE FALSE
      OBVIOUS
    <2>1. PICK a \in 1..L : MethodTo(y, a) /\ PlainIn(y, a + 1, L)
      BY Zenon DEF AtUri
    <2>2. y[a] = "sp"
      BY <2>1 DEF MethodTo
    <2> QED BY <1>1, <1>3, <1>5, <2>1, <2>2
  <1>8. ASSUME NEW n \in 0..5, AtHttp(y, n, L) PROVE FALSE
    <2>1. PICK a, b \in Nat : UriTo(y, a, b) /\ HttpTo(y, b, n) /\ L = b + n
      BY <1>8, Zenon DEF AtHttp
    <2>2. CASE n = 0
      BY <2>1, <2>2, <1>3 DEF UriTo
    <2>3. CASE n # 0
      <3>1. n \in 1..n /\ n \in 1..5
        BY <2>3
      <3>2. y[b + n] = Http[n]
        BY <2>1, <3>1, Zenon DEF HttpTo
      <3>3. Http[n] # "lf"
        BY <3>1 DEF Http
      <3> QED BY <2>1, <3>2, <3>3, <1>3
    <2> QED BY <2>2, <2>3
  <1>9. ~AtMajor(y, L)
    <2> SUFFICES ASSUME AtMajor(y, L) PROVE FALSE
      OBVIOUS
    <2>1. PICK b \in Nat : DigitsIn(y, b + 6, L)
      BY Zenon DEF AtMajor
    <2> QED BY <1>1, <1>3, <1>5, <2>1
  <1>10. ~AtMinorStart(y, L)
    <2> SUFFICES ASSUME AtMinorStart(y, L) PROVE FALSE
      OBVIOUS
    <2>1. PICK b \in Nat : MajorTo(y, b, L)
      BY Zenon DEF AtMinorStart
    <2> QED BY <1>3, <2>1 DEF MajorTo
  <1>11. ~RequestLineTo(y, L)
    <2>1. L \in 1..L
      BY <1>1, <1>3
    <2> QED BY <1>1, <1>3, <2>1, NoBreakInRequestLine
  <1>12. ~AtName(y, L)
    <2> SUFFICES ASSUME AtName(y, L) PROVE FALSE
      OBVIOUS
    <2>1. PICK p \in 1..L - 1 : NamesIn(y, p + 1, L)
      BY Zenon DEF AtName
    <2> QED BY <1>1, <1>3, <1>5, <2>1
  <1>13. ~AtColon(y, L)
    BY <1>3 DEF AtColon
  <1>14. ~AtFold(y, L)
    <2> SUFFICES ASSUME AtFold(y, L) PROVE FALSE
      OBVIOUS
    <2>1. PICK p \in 1..L - 1 : BlanksIn(y, p + 1, L)
      BY Zenon DEF AtFold
    <2> QED BY <1>1, <1>3, <1>5, <2>1
  <1>15. ~AtValue(y, L)
    <2> SUFFICES ASSUME AtValue(y, L) PROVE FALSE
      OBVIOUS
    <2>1. PICK p \in 1..L - 1 : FieldTo(y, p + 1, L)
      BY Zenon DEF AtValue
    <2>2. p \in Nat /\ L \in Int
      BY <1>1
    <2> QED BY <1>3, <2>1, <2>2, LastOfField
  <1>16. ~AtFieldEnd(y, L)
    BY <1>3 DEF AtFieldEnd
  <1>17. 0 \in 0..5 /\ 1 \in 0..5 /\ 2 \in 0..5 /\ 3 \in 0..5 /\ 4 \in 0..5 /\ 5 \in 0..5
    OBVIOUS
  <1>18. ~AtHttp(y, 0, L) /\ ~AtHttp(y, 1, L) /\ ~AtHttp(y, 2, L) /\ ~AtHttp(y, 3, L)
         /\ ~AtHttp(y, 4, L) /\ ~AtHttp(y, 5, L)
    BY <1>8, <1>17
  <1> QED BY <1>3, <1>6, <1>7, <1>9, <1>10, <1>11, <1>12, <1>13, <1>14, <1>15, <1>16, <1>18, Literals
          DEF Viable, States

LEMMA NotYet ==
  ASSUME NEW y \in Seq(Chars), NEW st \in States, Viable(st, y, Len(y))
  PROVE  ~RequestAll(y)
  <1> SUFFICES ASSUME RequestAll(y) PROVE FALSE
    OBVIOUS
  <1> DEFINE L == Len(y)
  <1>1. L \in Nat
    OBVIOUS
  <1> HIDE DEF L
  <1>2. Viable(st, y, L)
    BY DEF L
  <1>3. L > 4 /\ y[L] = "lf" /\ CrLfAt(y, L - 3)
    <2>1. L > 4 /\ CrLfAt(y, L - 3) /\ CrLfAt(y, L - 1)
      BY Zenon DEF RequestAll, L
    <2>2. (L - 1) + 1 = L
      BY <1>1
    <2> QED BY <2>1, <2>2 DEF CrLfAt
  <1>4. st = "header_line_start"
    BY <1>1, <1>2, <1>3, AfterLineFeed
  <1>5. LinesTo(y, L)
    BY <1>2, <1>4, Zenon DEF Viable
  <1> QED BY <1>1, <1>3, <1>5, NoLineAfterEmpty

-----------------------------------------------------------------------------
(* From every state some characters complete the request. *)

Completable(w) == \E c \in Seq(Chars) : RequestAll(w \o c)

LEMMA OneMore ==
  ASSUME NEW w \in Seq(Chars), NEW ch \in Chars
  PROVE  /\ Append(w, ch) \in Seq(Chars) /\ Len(Append(w, ch)) = Len(w) + 1
         /\ Append(w, ch)[Len(w) + 1] = ch /\ \A i \in 1..Len(w) : Append(w, ch)[i] = w[i]
         /\ Completable(Append(w, ch)) => Completable(w)
  <1>1. /\ Append(w, ch) \in Seq(Chars) /\ Len(Append(w, ch)) = Len(w) + 1
        /\ Append(w, ch)[Len(w) + 1] = ch /\ \A i \in 1..Len(w) : Append(w, ch)[i] = w[i]
    OBVIOUS
  <1>2. ASSUME NEW c \in Seq(Chars), RequestAll(Append(w, ch) \o c) PROVE Completable(w)
    <2>1. <<ch>> \o c \in Seq(Chars)
      OBVIOUS
    <2>2. Append(w, ch) \o c = w \o (<<ch>> \o c)
      OBVIOUS
    <2> QED BY <1>2, <2>1, <2>2, Zenon DEF Completable
  <1> QED BY <1>1, <1>2 DEF Completable

Fine(st) == \A w \in Seq(Chars) : Viable(st, w, Len(w)) => Completable(w)

LEMMA Chain ==
  ASSUME NEW st, NEW nx, NEW ch \in Chars, Moves(st, ch, FALSE, nx), Fine(nx)
  PROVE  Fine(st)
  <1> SUFFICES ASSUME NEW w \in Seq(Chars), Viable(st, w, Len(w)) PROVE Completable(w)
    BY DEF Fine
  <1> DEFINE z == Append(w, ch)
             L == Len(w)
  <1>1. /\ z \in Seq(Chars) /\ Len(z) = L + 1 /\ z[L + 1] = ch
        /\ \A i \in 1..L : w[i] = z[i]
        /\ L \in Nat
    BY OneMore
  <1>2. Completable(z) => Completable(w)
    BY OneMore
  <1> HIDE DEF z
  <1>3. Viable(st, z, L)
    <2>1. Viable(st, w, L)
      OBVIOUS
    <2> HIDE DEF L
    <2> QED BY <1>1, <2>1, ViableAgrees
  <1>4. Moves(st, z[L + 1], Later(z, L), nx)
    BY <1>1 DEF Moves
  <1>5. Viable(nx, z, L + 1)
    <2> HIDE DEF L
    <2> QED BY <1>1, <1>3, <1>4, Step
  <1>6. Completable(z)
    BY <1>1, <1>5 DEF Fine
  <1> QED BY <1>2, <1>6

LEMMA LastState == Fine("expecting_newline_3")
  <1> SUFFICES ASSUME NEW w \in Seq(Chars), Viable("expecting_newline_3", w, Len(w)) PROVE Completable(w)
    BY DEF Fine
  <1> DEFINE z == Append(w, "lf")
             L == Len(w)
  <1>1. "lf" \in Chars
    BY Classes
  <1>2. /\ z \in Seq(Chars) /\ Len(z) = L + 1 /\ z[L + 1] = "lf"
        /\ \A i \in 1..L : w[i] = z[i]
        /\ L \in Nat
    BY <1>1, OneMore
  <1> HIDE DEF z
  <1>3. Viable("expecting_newline_3", z, L)
    <2>1. Viable("expecting_newline_3", w, L)
      OBVIOUS
    <2> HIDE DEF L
    <2> QED BY <1>2, <2>1, ViableAgrees
  <1>4. L >= 1 /\ LinesTo(z, L - 1) /\ z[L] = "cr"
    BY <1>3 DEF Viable
  <1>5. RequestAll(z)
    <2> HIDE DEF L
    <2> QED BY <1>2, <1>4, Done
  <1>6. z \o <<>> = z /\ <<>> \in Seq(Chars)
    BY <1>2
  <1>7. Completable(z)
    BY <1>5, <1>6 DEF Completable
  <1> QED BY <1>1, <1>7, OneMore DEF z

LEMMA EveryState == \A st \in States : Fine(st)
  <1>1. PICK d \in DOMAIN DigitValue : TRUE
    BY ParserAssumption DEF ParserAssumption
  <1>2. d \in Chars /\ IsDigit(d)
    BY ParserAssumption DEF ParserAssumption, IsDigit
  <1>3. {"cr", "lf", "sp", ":", "slash", "H", "T", "P", "."} \subseteq Chars /\ IsName("H")
    BY Classes
  <1>4. Fine("header_line_start")
    <2>1. Moves("header_line_start", "cr", FALSE, "expecting_newline_3")
      BY DEF Moves
    <2> QED BY <1>3, <2>1, LastState, Chain
  <1>5. Fine("expecting_newline_2")
    <2>1. Moves("expecting_newline_2", "lf", FALSE, "header_line_start")
      BY Literals DEF Moves
    <2> QED BY <1>3, <1>4, <2>1, Chain
  <1>6. Fine("header_value") /\ Fine("header_lws")
    <2>1. Moves("header_value", "cr", FALSE, "expecting_newline_2")
          /\ Moves("header_lws", "cr", FALSE, "expecting_newline_2")
      BY DEF Moves
    <2> QED BY <1>3, <1>5, <2>1, Chain
  <1>7. Fine("space_before_header_value")
    <2>1. Moves("space_before_header_value", "sp", FALSE, "header_value")
      BY Literals DEF Moves
    <2> QED BY <1>3, <1>6, <2>1, Chain
  <1>8. Fine("header_name")
    <2>1. Moves("header_name", ":", FALSE, "space_before_header_value")
      BY DEF Moves
    <2> QED BY <1>3, <1>7, <2>1, Chain
  <1>9. Fine("expecting_newline_1")
    <2>1. Moves("expecting_newline_1", "lf", FALSE, "header_line_start")
      BY Literals DEF Moves
    <2> QED BY <1>3, <1>4, <2>1, Chain
  <1>10. Fine("http_version_minor")
    <2>1. Moves("http_version_minor", "cr", FALSE, "expecting_newline_1")
      BY DEF Moves
    <2> QED BY <1>3, <1>9, <2>1, Chain
  <1>11. Fine("http_version_minor_start")
    <2>1. Moves("http_version_minor_start", d, FALSE, "http_version_minor")
      BY <1>2 DEF Moves
    <2> QED BY <1>2, <1>10, <2>1, Chain
  <1>12. Fine("http_version_major")
    <2>1. Moves("http_version_major", ".", FALSE, "http_version_minor_start")
      BY DEF Moves
    <2> QED BY <1>3, <1>11, <2>1, Chain
  <1>13. Fine("http_version_major_start")
    <2>1. Moves("http_version_major_start", d, FALSE, "http_version_major")
      BY <1>2 DEF Moves
    <2> QED BY <1>2, <1>12, <2>1, Chain
  <1>14. Fine("http_version_slash")
    <2>1. Moves("http_version_slash", "slash", FALSE, "http_version_major_start")
      BY Literals DEF Moves
    <2> QED BY <1>3, <1>13, <2>1, Chain
  <1>15. Fine("http_version_p")
    <2>1. Moves("http_version_p", "P", FALSE, "http_version_slash")
      BY Literals DEF Moves
    <2> QED BY <1>3, <1>14, <2>1, Chain
  <1>16. Fine("http_version_t_2")
    <2>1. Moves("http_version_t_2", "T", FALSE, "http_version_p")
      BY Literals DEF Moves
    <2> QED BY <1>3, <1>15, <2>1, Chain
  <1>17. Fine("http_version_t_1")
    <2>1. Moves("http_version_t_1", "T", FALSE, "http_version_t_2")
      BY Literals DEF Moves
    <2> QED BY <1>3, <1>16, <2>1, Chain
  <1>18. Fine("http_version_h")
    <2>1. Moves("http_version_h", "H", FALSE, "http_version_t_1")
      BY Literals DEF Moves
    <2> QED BY <1>3, <1>17, <2>1, Chain
  <1>19. Fine("uri")
    <2>1. Moves("uri", "sp", FALSE, "http_version_h")
      BY DEF Moves
    <2> QED BY <1>3, <1>18, <2>1, Chain
  <1>20. Fine("method")
    <2>1. Moves("method", "sp", FALSE, "uri")
      BY DEF Moves
    <2> QED BY <1>3, <1>19, <2>1, Chain
  <1>21. Fine("method_start")
    <2>1. Moves("method_start", "H", FALSE, "method")
      BY <1>3 DEF Moves
    <2> QED BY <1>3, <1>20, <2>1, Chain
  <1> QED BY <1>4, <1>5, <1>6, <1>7, <1>8, <1>9, <1>10, <1>11, <1>12, <1>13, <1>14, <1>15, <1>16,
             <1>17, <1>18, <1>19, <1>20, <1>21, LastState, Literals DEF States

-----------------------------------------------------------------------------
(* Parts of a text, and the numbers that its digits stand for.             *)

LEMMA PartOfPart ==
  ASSUME NEW x \in Seq(Chars), NEW s \in 1..Len(x) + 1, NEW m \in s - 1..Len(x),
         NEW i \in 1..m - s + 2, NEW j \in i - 1..m - s + 1
  PROVE  SubSeq(SubSeq(x, s, m), i, j) = SubSeq(x, s + i - 1, s + j - 1)
  <1> DEFINE t == SubSeq(x, s, m)
             u == SubSeq(t, i, j)
             p == s + i - 1
             q == s + j - 1
             w == SubSeq(x, p, q)
  <1>1. t \in Seq(Chars) /\ Len(t) = m - s + 1 /\ \A k \in 1..m - s + 1 : t[k] = x[s + k - 1]
    BY Part
  <1>2. p \in 1..Len(x) + 1 /\ q \in p - 1..Len(x) /\ q - p + 1 = j - i + 1
    OBVIOUS
  <1>3. i \in 1..Len(t) + 1 /\ j \in i - 1..Len(t)
    <2> HIDE DEF t
    <2> QED BY <1>1
  <1>4. u \in Seq(Chars) /\ Len(u) = j - i + 1 /\ \A k \in 1..j - i + 1 : u[k] = t[i + k - 1]
    <2> HIDE DEF t
    <2> QED BY <1>1, <1>3, Part
  <1>5. w \in Seq(Chars) /\ Len(w) = q - p + 1 /\ \A k \in 1..q - p + 1 : w[k] = x[p + k - 1]
    <2> HIDE DEF p, q
    <2> QED BY <1>2, Part
  <1>6. ASSUME NEW k \in 1..j - i + 1 PROVE u[k] = w[k]
    <2>1. i + k - 1 \in 1..m - s + 1 /\ s + (i + k - 1) - 1 = p + k - 1
      OBVIOUS
    <2> HIDE DEF u, w, t, p, q
    <2> QED BY <1>1, <1>2, <1>4, <1>5, <2>1
  <1> HIDE DEF u, w
  <1>7. u = w
    BY <1>2, <1>4, <1>5, <1>6, SeqEqual
  <1> QED BY <1>7 DEF u, w

LEMMA PartAgrees ==
  ASSUME NEW x \in Seq(Chars), NEW y \in Seq(Chars), NEW L \in Nat, L <= Len(x), L <= Len(y),
         \A i \in 1..L : x[i] = y[i], NEW s \in 1..L + 1, NEW m \in s - 1..L
  PROVE  SubSeq(x, s, m) = SubSeq(y, s, m)
  <1> DEFINE t == SubSeq(x, s, m)
             u == SubSeq(y, s, m)
  <1>1. t \in Seq(Chars) /\ Len(t) = m - s + 1 /\ \A i \in 1..m - s + 1 : t[i] = x[s + i - 1]
    BY Part
  <1>2. u \in Seq(Chars) /\ Len(u) = m - s + 1 /\ \A i \in 1..m - s + 1 : u[i] = y[s + i - 1]
    BY Part
  <1>3. \A i \in 1..m - s + 1 : s + i - 1 \in 1..L
    OBVIOUS
  <1> HIDE DEF t, u
  <1>4. t = u
    BY <1>1, <1>2, <1>3, SeqEqual
  <1> QED BY <1>4 DEF t, u

LEMMA PartGrows ==
  ASSUME NEW x \in Seq(Chars), NEW s \in 1..Len(x), NEW m \in s - 1..Len(x) - 1
  PROVE  SubSeq(x, s, m + 1) = Append(SubSeq(x, s, m), x[m + 1])
  <1> DEFINE n == m + 1
             t == SubSeq(x, s, n)
             u == SubSeq(x, s, m)
             w == Append(u, x[n])
  <1>1. n \in s - 1..Len(x) /\ n - s + 1 = m - s + 2 /\ m \in s - 1..Len(x) /\ x[n] \in Chars
    OBVIOUS
  <1>2. t \in Seq(Chars) /\ Len(t) = m - s + 2 /\ \A i \in 1..m - s + 2 : t[i] = x[s + i - 1]
    <2> HIDE DEF n
    <2> QED BY <1>1, Part
  <1>3. u \in Seq(Chars) /\ Len(u) = m - s + 1 /\ \A i \in 1..m - s + 1 : u[i] = x[s + i - 1]
    BY <1>1, Part
  <1> HIDE DEF t, u
  <1>4. w \in Seq(Chars) /\ Len(w) = m - s + 2
    BY <1>1, <1>3
  <1>5. ASSUME NEW i \in 1..m - s + 2 PROVE w[i] = t[i]
    <2>1. CASE i = m - s + 2
      <3>1. i = Len(u) + 1 /\ s + i - 1 = n
        BY <1>3, <2>1
      <3>2. w[Len(u) + 1] = x[n]
        BY <1>1, <1>3 DEF w
      <3> QED BY <1>2, <3>1, <3>2
    <2>2. CASE i # m - s + 2
      <3>1. i \in 1..m - s + 1
        BY <2>2
      <3>2. w[i] = u[i]
        BY <1>3, <3>1
      <3> QED BY <1>2, <1>3, <3>1, <3>2
    <2> QED BY <2>1, <2>2
  <1> HIDE DEF w
  <1>6. t = w
    BY <1>2, <1>4, <1>5, SeqEqual
  <1> QED BY <1>6 DEF t, u, w, n

LEMMA PartEmpty ==
  ASSUME NEW x \in Seq(Chars), NEW s \in 1..Len(x) + 1
  PROVE  SubSeq(x, s, s - 1) = <<>>
  BY SubSeqEmpty

\* The function that folds the digits of t, on the sets of its first places.
Folding(g, t) ==
  g = [s \in SUBSET DOMAIN t |->
         IF s = {} THEN 0 ELSE 10 * g[s \ {Max(s)}] + DigitValue[t[Max(s)]]]

LEMMA NumberChosen ==
  ASSUME NEW t, NEW h, Folding(h, t)
  PROVE  \E g : Folding(g, t) /\ NumberOf(t) = g[DOMAIN t]
  <1> DEFINE it == CHOOSE g : Folding(g, t)
  <1>1. Folding(it, t)
    BY Zenon
  <1>2. NumberOf(t) = it[DOMAIN t]
    BY Zenon DEF NumberOf, FoldLeft, MapThenFoldSet, Folding
  <1> QED BY <1>1, <1>2, Zenon

LEMMA FoldingExists ==
  ASSUME NEW t \in Seq(Chars)
  PROVE  \E g : Folding(g, t)
  <1> DEFINE Folds(g, n) ==
        g = [s \in SUBSET (1..n) |->
               IF s = {} THEN 0 ELSE 10 * g[s \ {Max(s)}] + DigitValue[t[Max(s)]]]
             T == {n \in Nat : \E g : Folds(g, n)}
  <1>1. 0 \in T
    <2> DEFINE h == [s \in SUBSET (1..0) |-> 0]
    <2>1. \A s \in SUBSET (1..0) : s = {}
      OBVIOUS
    <2>2. Folds(h, 0)
      BY <2>1
    <2> QED BY <2>2
  <1>2. ASSUME NEW n \in T PROVE n + 1 \in T
    <2>1. PICK g : Folds(g, n)
      OBVIOUS
    <2> DEFINE h == [s \in SUBSET (1..n + 1) |->
                       IF n + 1 \in s THEN 10 * g[s \ {n + 1}] + DigitValue[t[n + 1]] ELSE g[s]]
    <2>2. ASSUME NEW s \in SUBSET (1..n + 1)
          PROVE  h[s] = IF s = {} THEN 0 ELSE 10 * h[s \ {Max(s)}] + DigitValue[t[Max(s)]]
      <3>1. n \in Nat /\ n + 1 \in Nat
        OBVIOUS
      <3>2. CASE n + 1 \in s
        <4>1. Max(s) = n + 1
          BY <3>1, <3>2, MaxOfPlaces
        <4>2. s \ {n + 1} \in SUBSET (1..n + 1) /\ n + 1 \notin s \ {n + 1}
          OBVIOUS
        <4>3. h[s \ {n + 1}] = g[s \ {n + 1}]
          BY <4>2
        <4>4. h[s] = 10 * g[s \ {n + 1}] + DigitValue[t[n + 1]]
          BY <3>2
        <4>5. h[s] = 10 * h[s \ {Max(s)}] + DigitValue[t[Max(s)]]
          BY <4>1, <4>3, <4>4, Zenon
        <4> QED BY <3>2, <4>5, Zenon
      <3>3. CASE n + 1 \notin s
        <4>1. s \in SUBSET (1..n) /\ h[s] = g[s]
          BY <3>1, <3>3
        <4>2. g[s] = IF s = {} THEN 0 ELSE 10 * g[s \ {Max(s)}] + DigitValue[t[Max(s)]]
          BY <2>1, <4>1, Zenon
        <4>3. h[s \ {Max(s)}] = g[s \ {Max(s)}]
          BY <3>3
        <4> QED BY <4>1, <4>2, <4>3, Zenon
      <3> QED BY <3>2, <3>3
    <2>3. Folds(h, n + 1)
      BY <2>2, Zenon
    <2> HIDE DEF h, Folds
    <2>4. n + 1 \in Nat
      OBVIOUS
    <2> QED BY <2>3, <2>4
  <1>3. T = Nat
    <2>1. T \in SUBSET Nat
      OBVIOUS
    <2> HIDE DEF T
    <2> QED BY <1>1, <1>2, <2>1, Induction
  <1>4. Len(t) \in T
    <2>1. Len(t) \in Nat
      OBVIOUS
    <2> HIDE DEF T
    <2> QED BY <1>3, <2>1
  <1>5. DOMAIN t = 1..Len(t)
    OBVIOUS
  <1> QED BY <1>4, <1>5, Zenon DEF Folding

LEMMA FoldingIs ==
  ASSUME NEW t \in Seq(Chars), NEW g, Folding(g, t)
  PROVE  g[{}] = 0 /\ \A k \in 1..Len(t) : g[1..k] = 10 * g[1..k - 1] + DigitValue[t[k]]
  <1>1. \A s \in SUBSET (1..Len(t)) :
          g[s] = IF s = {} THEN 0 ELSE 10 * g[s \ {Max(s)}] + DigitValue[t[Max(s)]]
    <2>1. DOMAIN t = 1..Len(t)
      OBVIOUS
    <2>2. g = [s \in SUBSET (1..Len(t)) |->
                 IF s = {} THEN 0 ELSE 10 * g[s \ {Max(s)}] + DigitValue[t[Max(s)]]]
      BY <2>1, Zenon DEF Folding
    <2> QED BY <2>2, Zenon
  <1>2. g[{}] = 0
    BY <1>1
  <1>3. ASSUME NEW k \in 1..Len(t) PROVE g[1..k] = 10 * g[1..k - 1] + DigitValue[t[k]]
    <2>1. (1..k) \in SUBSET (1..Len(t)) /\ (1..k) # {} /\ k \in 1..k /\ k \in Nat
      <3>1. k \in Nat /\ k <= Len(t) /\ k \in 1..k
        OBVIOUS
      <3>2. \A i \in 1..k : i \in 1..Len(t)
        OBVIOUS
      <3> QED BY <3>1, <3>2
    <2>2. Max(1..k) = k
      <3>1. (1..k) \in SUBSET (1..k)
        OBVIOUS
      <3> QED BY <2>1, <3>1, MaxOfPlaces
    <2>3. (1..k) \ {k} = 1..k - 1
      OBVIOUS
    <2>4. g[1..k] = 10 * g[(1..k) \ {Max(1..k)}] + DigitValue[t[Max(1..k)]]
      BY <1>1, <2>1, Zenon
    <2> QED BY <2>2, <2>3, <2>4, Zenon
  <1> QED BY <1>2, <1>3

LEMMA NumberEmpty == NumberOf(<<>>) = 0
  <1>1. <<>> \in Seq(Chars) /\ DOMAIN <<>> = {}
    OBVIOUS
  <1>2. PICK h : Folding(h, <<>>)
    BY <1>1, FoldingExists
  <1>3. PICK g : Folding(g, <<>>) /\ NumberOf(<<>>) = g[DOMAIN <<>>]
    BY <1>2, NumberChosen, Zenon
  <1>4. g[{}] = 0
    BY <1>1, <1>3, FoldingIs
  <1> QED BY <1>1, <1>3, <1>4, Zenon

LEMMA NumberAppend ==
  ASSUME NEW t \in Seq(Chars), NEW c \in Chars
  PROVE  NumberOf(Append(t, c)) = 10 * NumberOf(t) + DigitValue[c]
  <1> DEFINE u == Append(t, c)
             n == Len(t)
  <1>1. /\ u \in Seq(Chars) /\ Len(u) = n + 1 /\ n \in Nat /\ u[n + 1] = c
        /\ DOMAIN t = 1..n /\ DOMAIN u = 1..n + 1
    OBVIOUS
  <1>2. \A k \in 1..n : u[k] = t[k]
    OBVIOUS
  <1> HIDE DEF u, n
  <1>3. PICK g : Folding(g, t) /\ NumberOf(t) = g[1..n]
    <2>1. PICK h : Folding(h, t)
      BY FoldingExists
    <2>2. PICK g : Folding(g, t) /\ NumberOf(t) = g[DOMAIN t]
      BY <2>1, NumberChosen, Zenon
    <2> QED BY <1>1, <2>2, Zenon
  <1>4. PICK h : Folding(h, u) /\ NumberOf(u) = h[1..n + 1]
    <2>1. PICK f : Folding(f, u)
      BY <1>1, FoldingExists
    <2>2. PICK h : Folding(h, u) /\ NumberOf(u) = h[DOMAIN u]
      BY <2>1, NumberChosen, Zenon
    <2> QED BY <1>1, <2>2, Zenon
  <1>5. g[{}] = 0 /\ \A k \in 1..n : g[1..k] = 10 * g[1..k - 1] + DigitValue[t[k]]
    BY <1>3, FoldingIs DEF n
  <1>6. h[{}] = 0 /\ \A k \in 1..n + 1 : h[1..k] = 10 * h[1..k - 1] + DigitValue[u[k]]
    BY <1>1, <1>4, FoldingIs
  <1> DEFINE T == {k \in Nat : k <= n => h[1..k] = g[1..k]}
  <1>7. 0 \in T
    <2>1. 1..0 = {}
      OBVIOUS
    <2> QED BY <1>5, <1>6, <2>1
  <1>8. ASSUME NEW k \in T PROVE k + 1 \in T
    <2> SUFFICES ASSUME k + 1 <= n PROVE h[1..k + 1] = g[1..k + 1]
      OBVIOUS
    <2>1. k \in Nat /\ k + 1 \in 1..n /\ k + 1 \in 1..n + 1 /\ (k + 1) - 1 = k /\ h[1..k] = g[1..k]
      BY <1>1
    <2>2. h[1..k + 1] = 10 * h[1..(k + 1) - 1] + DigitValue[u[k + 1]]
      BY <1>6, <2>1, Zenon
    <2>3. g[1..k + 1] = 10 * g[1..(k + 1) - 1] + DigitValue[t[k + 1]]
      BY <1>5, <2>1, Zenon
    <2>4. u[k + 1] = t[k + 1]
      BY <1>2, <2>1
    <2> QED BY <2>1, <2>2, <2>3, <2>4, Zenon
  <1>9. T = Nat
    <2>1. T \in SUBSET Nat
      OBVIOUS
    <2> HIDE DEF T
    <2> QED BY <1>7, <1>8, <2>1, Induction
  <1>10. n \in T
    <2> HIDE DEF T
    <2> QED BY <1>1, <1>9
  <1>11. h[1..n] = g[1..n]
    BY <1>1, <1>10
  <1>12. n + 1 \in 1..n + 1 /\ (n + 1) - 1 = n
    BY <1>1
  <1>13. h[1..n + 1] = 10 * h[1..(n + 1) - 1] + DigitValue[u[n + 1]]
    BY <1>6, <1>12, Zenon
  <1> QED BY <1>1, <1>3, <1>4, <1>11, <1>12, <1>13, Zenon DEF u

-----------------------------------------------------------------------------
(* What a header line says.                                                *)

\* The line from s to m has the name k and the value v.
FieldSays(x, s, m, k, v) ==
  \/ \E n \in s + 1..m - 1 :
       /\ NamesIn(x, s, n - 1) /\ x[n] = ":" /\ x[n + 1] = "sp" /\ PlainIn(x, n + 2, m)
       /\ k = SubSeq(x, s, n - 1) /\ v = SubSeq(x, n + 2, m)
  \/ \E n \in s..m :
       /\ BlanksIn(x, s, n) /\ PlainIn(x, n + 1, m) /\ (n = m \/ ~IsBlank(x[n + 1]))
       /\ k = <<>> /\ v = SubSeq(x, n + 1, m)

LEMMA FieldSaysIs ==
  ASSUME NEW x \in Seq(Chars), NEW s \in 1..Len(x), NEW m \in s..Len(x), LineEnd(x, s, m), NEW k, NEW v,
         FieldSays(x, s, m, k, v)
  PROVE  NameOf(LineAt(x, s)) = k /\ ValueOf(LineAt(x, s)) = v
  <1> DEFINE t == SubSeq(x, s, m)
             l == m - s + 1
  <1>1. LineAt(x, s) = t
    BY LineAtIs
  <1>2. /\ t \in Seq(Chars) /\ Len(t) = l /\ l \in Nat /\ l >= 1
        /\ \A i \in 1..l : t[i] = x[s + i - 1]
    BY Part
  <1>3. \A i \in 1..l + 1 : \A j \in i - 1..l : SubSeq(t, i, j) = SubSeq(x, s + i - 1, s + j - 1)
    <2> TAKE i \in 1..l + 1
    <2> TAKE j \in i - 1..l
    <2>1. i \in 1..m - s + 2 /\ j \in i - 1..m - s + 1
      OBVIOUS
    <2> QED BY <2>1, PartOfPart
  <1>4. t[1] = x[s]
    BY <1>2
  <1>5. DOMAIN t = 1..l
    BY <1>2
  <1> HIDE DEF t
  <1>6. CASE \E n \in s + 1..m - 1 :
               /\ NamesIn(x, s, n - 1) /\ x[n] = ":" /\ x[n + 1] = "sp" /\ PlainIn(x, n + 2, m)
               /\ k = SubSeq(x, s, n - 1) /\ v = SubSeq(x, n + 2, m)
    <2>1. PICK n \in s + 1..m - 1 :
            /\ NamesIn(x, s, n - 1) /\ x[n] = ":" /\ k = SubSeq(x, s, n - 1) /\ v = SubSeq(x, n + 2, m)
      BY <1>6, Zenon
    <2> DEFINE j == n - s + 1
    <2>2. /\ j \in 2..l - 1 /\ s + j - 1 = n /\ s + 1 - 1 = s /\ s + (j - 1) - 1 = n - 1
          /\ s + (j + 2) - 1 = n + 2 /\ s + l - 1 = m
      BY <1>2
    <2>3. ~IsBlank(t[1])
      <3>1. IsName(x[s])
        BY <2>1
      <3> QED BY <1>4, <3>1, Classes
    <2>4. Min(Where(t, ":")) = j
      <3>1. Where(t, ":") \in SUBSET Nat
        BY <1>2, SomeAre
      <3>2. j \in Where(t, ":")
        BY <1>2, <1>5, <2>1, <2>2 DEF Where
      <3>3. ASSUME NEW i \in Where(t, ":") PROVE j <= i
        <4>1. i \in 1..l /\ t[i] = ":"
          BY <1>5 DEF Where
        <4>2. x[s + i - 1] = ":"
          BY <1>2, <4>1
        <4>3. i < j => s + i - 1 \in s..n - 1
          BY <2>2, <4>1
        <4>4. ~IsName(":")
          BY Classes
        <4> QED BY <2>1, <2>2, <4>1, <4>2, <4>3, <4>4
      <3> QED BY <3>1, <3>2, <3>3, MinIs
    <2>5. Before(t, j) = SubSeq(x, s, n - 1)
      <3>1. 1 \in 1..l + 1 /\ j - 1 \in 1 - 1..l
        BY <1>2, <2>2
      <3>2. SubSeq(t, 1, j - 1) = SubSeq(x, s + 1 - 1, s + (j - 1) - 1)
        BY <1>3, <3>1
      <3> QED BY <2>2, <3>2 DEF Before
    <2>6. After(t, j + 1) = SubSeq(x, n + 2, m)
      <3>1. j + 2 \in 1..l + 1 /\ l \in (j + 2) - 1..l /\ j + 1 + 1 = j + 2
        BY <1>2, <2>2
      <3>2. SubSeq(t, j + 2, l) = SubSeq(x, s + (j + 2) - 1, s + l - 1)
        BY <1>3, <3>1
      <3> QED BY <1>2, <2>2, <3>1, <3>2 DEF After
    <2> HIDE DEF j
    <2> QED BY <1>1, <2>1, <2>3, <2>4, <2>5, <2>6, Zenon DEF NameOf, ValueOf
  <1>7. CASE \E n \in s..m :
               /\ BlanksIn(x, s, n) /\ PlainIn(x, n + 1, m) /\ (n = m \/ ~IsBlank(x[n + 1]))
               /\ k = <<>> /\ v = SubSeq(x, n + 1, m)
    <2>1. PICK n \in s..m :
            /\ BlanksIn(x, s, n) /\ (n = m \/ ~IsBlank(x[n + 1])) /\ k = <<>> /\ v = SubSeq(x, n + 1, m)
      BY <1>7, Zenon
    <2> DEFINE j == n - s + 1
               W == {i \in DOMAIN t : All(SubSeq(t, 1, i), IsBlank)}
    <2>2. j \in 1..l /\ s + (j + 1) - 1 = n + 1 /\ s + l - 1 = m
      BY <1>2
    <2>3. IsBlank(t[1])
      <3>1. IsBlank(x[s])
        BY <2>1
      <3> QED BY <1>4, <3>1
    <2>4. ASSUME NEW i \in 1..l
          PROVE  All(SubSeq(t, 1, i), IsBlank) <=> \A q \in 1..i : IsBlank(t[q])
      <3>1. /\ DOMAIN SubSeq(t, 1, i) = 1..i
            /\ \A q \in 1..i : SubSeq(t, 1, i)[q] = t[q]
        <4>1. 1 \in 1..Len(t) + 1 /\ i \in 1 - 1..Len(t) /\ i - 1 + 1 = i
          BY <1>2
        <4>2. \A q \in 1..i : 1 + q - 1 = q
          OBVIOUS
        <4> QED BY <1>2, <4>1, <4>2, Part
      <3> QED BY <3>1, Zenon DEF All
    <2>5. W \in SUBSET (0..l) /\ l \in Nat
      BY <1>2, <1>5
    <2>6. j \in W
      <3>1. \A q \in 1..j : IsBlank(t[q])
        <4> TAKE q \in 1..j
        <4>1. q \in 1..l /\ s + q - 1 \in s..n
          BY <2>2
        <4> QED BY <1>2, <2>1, <4>1
      <3>2. j \in DOMAIN t /\ All(SubSeq(t, 1, j), IsBlank)
        BY <1>5, <2>2, <2>4, <3>1, Zenon
      <3> QED BY <3>2, Zenon
    <2>7. ASSUME NEW i \in W PROVE i <= j
      <3>1. i \in 1..l /\ All(SubSeq(t, 1, i), IsBlank)
        BY <1>5, Zenon
      <3>2. \A q \in 1..i : IsBlank(t[q])
        BY <2>4, <3>1, Zenon
      <3> HIDE DEF W
      <3> SUFFICES ASSUME i > j PROVE FALSE
        BY <2>2, <3>1
      <3>3. j + 1 \in 1..i /\ j + 1 \in 1..l /\ n # m
        BY <2>2, <3>1
      <3>4. t[j + 1] = x[n + 1]
        BY <1>2, <2>2, <3>3
      <3>5. IsBlank(t[j + 1])
        BY <3>2, <3>3
      <3> QED BY <2>1, <3>3, <3>4, <3>5
    <2>8. Max(W) = j
      <3> HIDE DEF W, j
      <3> QED BY <2>5, <2>6, <2>7, MaxIs
    <2>9. After(t, j) = SubSeq(x, n + 1, m)
      <3>1. j + 1 \in 1..l + 1 /\ l \in (j + 1) - 1..l
        BY <1>2, <2>2
      <3>2. SubSeq(t, j + 1, l) = SubSeq(x, s + (j + 1) - 1, s + l - 1)
        BY <1>3, <3>1
      <3> QED BY <1>2, <2>2, <3>2 DEF After
    <2> HIDE DEF j
    <2> QED BY <1>1, <2>1, <2>3, <2>8, <2>9, Zenon DEF NameOf, ValueOf
  <1> QED BY <1>6, <1>7, Zenon DEF FieldSays

-----------------------------------------------------------------------------
(* What the request line has said: r is the request as it is filled in.    *)

UriSaid(x, a, b, r) == MethodTo(x, a) /\ UriTo(x, a, b) /\ r.uri_ = SubSeq(x, a + 1, b - 1)

SaysUri(x, L, r) ==
  \E a \in 1..L :
    /\ MethodTo(x, a) /\ PlainIn(x, a + 1, L) /\ (\A i \in a + 1..L : x[i] # "sp")
    /\ r.uri_ = SubSeq(x, a + 1, L)
SaysHttp(x, n, L, r) == \E a, b \in Nat : UriSaid(x, a, b, r) /\ HttpTo(x, b, n) /\ L = b + n

\* A version number, as the digits give it and as the request holds it.
Counts(v, n) == n \in Nat /\ v \in Int /\ Holds(v, n)

LEMMA CountsNothing == Counts(0, 0)
  BY DEF Counts, Holds

LEMMA CountsOn ==
  ASSUME NEW v, NEW n, Counts(v, n), NEW c, IsDigit(c)
  PROVE  Counts(Accumulated(v, c), 10 * n + DigitValue[c])
  <1>1. DigitValue[c] \in 0..9 /\ MaxInt \in Nat
    BY ParserAssumption DEF IsDigit, ParserAssumption
  <1>2. n \in Nat /\ v \in Int /\ (n <= MaxInt => v = n)
    BY DEF Counts, Holds
  <1> DEFINE d == DigitValue[c]
             M == MaxInt + 1
  <1>3. d \in 0..9 /\ M \in Nat /\ M > 0 /\ 10 * n + d \in Nat
    BY <1>1, <1>2
  <1>4. Accumulated(v, c) = ((v * 10 + d + M) % (2 * M)) - M
    <2>1. v * 10 + d + MaxInt + 1 = v * 10 + d + M
      BY <1>1, <1>2
    <2> QED BY <2>1 DEF Accumulated
  <1>5. Accumulated(v, c) \in Int
    <2> HIDE DEF d, M
    <2> QED BY <1>2, <1>3, <1>4
  <1>6. ASSUME 10 * n + d <= MaxInt PROVE Accumulated(v, c) = 10 * n + d
    <2>1. v = n /\ 10 * n + d < M
      BY <1>1, <1>2, <1>3, <1>6
    <2> HIDE DEF d, M
    <2>2. v * 10 + d + M = 10 * n + d + M /\ 10 * n + d + M < 2 * M /\ 10 * n + d + M \in Nat
      BY <1>2, <1>3, <2>1
    <2>3. (10 * n + d + M) % (2 * M) = 10 * n + d + M
      BY <1>3, <2>2
    <2> QED BY <1>2, <1>3, <1>4, <2>2, <2>3
  <1> QED BY <1>3, <1>5, <1>6 DEF Counts, Holds

\* At least n digits of a version number have been read.
SaysMajor(x, n, L, r) ==
  \E a, b \in Nat :
    /\ UriSaid(x, a, b, r) /\ HttpTo(x, b, 5)
    /\ b + 5 + n <= L /\ (\A i \in b + 6..L : IsDigit(x[i]))
    /\ Counts(r.major, NumberOf(SubSeq(x, b + 6, L))) /\ r.minor = 0
SaysMinor(x, n, L, r) ==
  \E a, b, d \in Nat :
    /\ UriSaid(x, a, b, r) /\ HttpTo(x, b, 5) /\ MajorTo(x, b, d)
    /\ Counts(r.major, NumberOf(SubSeq(x, b + 6, d - 1)))
    /\ d + n <= L /\ (\A i \in d + 1..L : IsDigit(x[i]))
    /\ Counts(r.minor, NumberOf(SubSeq(x, d + 1, L)))

LEMMA SayUri ==
  ASSUME NEW x \in Seq(Chars), NEW L \in 0..Len(x) - 1, NEW r, NEW q
  PROVE  /\ NamesIn(x, 1, L) /\ L >= 1 /\ x[L + 1] = "sp" /\ r.uri_ = <<>> => SaysUri(x, L + 1, r)
         /\ /\ SaysUri(x, L, r) /\ x[L + 1] # "sp" /\ x[L + 1] \notin Ctl
            /\ q.uri_ = Append(r.uri_, x[L + 1])
            => SaysUri(x, L + 1, q)
         /\ SaysUri(x, L, r) /\ x[L + 1] = "sp" => SaysHttp(x, 0, L + 1, r)
  <1>1. ASSUME NamesIn(x, 1, L), L >= 1, x[L + 1] = "sp", r.uri_ = <<>> PROVE SaysUri(x, L + 1, r)
    <2>1. MethodTo(x, L + 1)
      BY <1>1 DEF MethodTo
    <2>2. SubSeq(x, (L + 1) + 1, L + 1) = <<>>
      <3>1. (L + 1) + 1 \in 1..Len(x) + 1 /\ ((L + 1) + 1) - 1 = L + 1
        OBVIOUS
      <3> QED BY <3>1, PartEmpty
    <2>3. PlainIn(x, (L + 1) + 1, L + 1) /\ (\A i \in (L + 1) + 1..L + 1 : x[i] # "sp")
          /\ L + 1 \in 1..L + 1
      OBVIOUS
    <2> QED BY <1>1, <2>1, <2>2, <2>3, Zenon DEF SaysUri
  <1>2. ASSUME SaysUri(x, L, r) PROVE \E a \in 1..L :
          /\ MethodTo(x, a) /\ PlainIn(x, a + 1, L) /\ (\A i \in a + 1..L : x[i] # "sp")
          /\ r.uri_ = SubSeq(x, a + 1, L)
    BY <1>2, Zenon DEF SaysUri
  <1>3. ASSUME SaysUri(x, L, r), x[L + 1] # "sp", x[L + 1] \notin Ctl, q.uri_ = Append(r.uri_, x[L + 1])
        PROVE  SaysUri(x, L + 1, q)
    <2>1. PICK a \in 1..L :
            /\ MethodTo(x, a) /\ PlainIn(x, a + 1, L) /\ (\A i \in a + 1..L : x[i] # "sp")
            /\ r.uri_ = SubSeq(x, a + 1, L)
      BY <1>2, <1>3
    <2>2. SubSeq(x, a + 1, L + 1) = Append(SubSeq(x, a + 1, L), x[L + 1])
      <3>1. a + 1 \in 1..Len(x) /\ L \in (a + 1) - 1..Len(x) - 1
        OBVIOUS
      <3> QED BY <3>1, PartGrows
    <2>3. PlainIn(x, a + 1, L + 1) /\ (\A i \in a + 1..L + 1 : x[i] # "sp") /\ a \in 1..L + 1
      BY <1>3, <2>1 DEF IsPlain
    <2> QED BY <1>3, <2>1, <2>2, <2>3, Zenon DEF SaysUri
  <1>4. ASSUME SaysUri(x, L, r), x[L + 1] = "sp" PROVE SaysHttp(x, 0, L + 1, r)
    <2>1. PICK a \in 1..L :
            /\ MethodTo(x, a) /\ PlainIn(x, a + 1, L) /\ (\A i \in a + 1..L : x[i] # "sp")
            /\ r.uri_ = SubSeq(x, a + 1, L)
      BY <1>2, <1>4
    <2>2. UriTo(x, a, L + 1)
      BY <1>4, <2>1 DEF UriTo
    <2>3. HttpTo(x, L + 1, 0)
      BY DEF HttpTo
    <2>4. a \in Nat /\ L + 1 \in Nat /\ L + 1 = L + 1 + 0 /\ (L + 1) - 1 = L
      OBVIOUS
    <2>5. UriSaid(x, a, L + 1, r)
      BY <2>1, <2>2, <2>4, Zenon DEF UriSaid
    <2> QED BY <2>3, <2>4, <2>5, Zenon DEF SaysHttp
  <1> QED BY <1>1, <1>3, <1>4, Zenon

LEMMA UriSaidAgain ==
  ASSUME NEW x, NEW a, NEW b, NEW r, NEW q, UriSaid(x, a, b, r), q.uri_ = r.uri_
  PROVE  UriSaid(x, a, b, q)
  BY DEF UriSaid

LEMMA SayHttp ==
  ASSUME NEW x, NEW n \in 0..4, NEW L \in Nat, NEW r, SaysHttp(x, n, L, r), x[L + 1] = Http[n + 1],
         NEW q, q.uri_ = r.uri_
  PROVE  SaysHttp(x, n + 1, L + 1, q)
  <1>1. PICK a, b \in Nat : UriSaid(x, a, b, r) /\ HttpTo(x, b, n) /\ L = b + n
    BY Zenon DEF SaysHttp
  <1>2. HttpTo(x, b, n + 1)
    <2> SUFFICES ASSUME NEW i \in 1..n + 1 PROVE x[b + i] = Http[i]
      BY DEF HttpTo
    <2>1. CASE i = n + 1
      <3>1. b + i = L + 1
        BY <1>1, <2>1
      <3> QED BY <2>1, <3>1
    <2>2. CASE i # n + 1
      <3>1. i \in 1..n
        BY <2>2
      <3> QED BY <3>1, <1>1, Zenon DEF HttpTo
    <2> QED BY <2>1, <2>2
  <1>3. L + 1 = b + (n + 1)
    BY <1>1
  <1>4. UriSaid(x, a, b, q)
    BY <1>1, UriSaidAgain
  <1> QED BY <1>2, <1>3, <1>4, Zenon DEF SaysHttp

LEMMA SayVersion ==
  ASSUME NEW x \in Seq(Chars), NEW L \in 0..Len(x), NEW r, SaysHttp(x, 5, L, r), r.major = 0, r.minor = 0
  PROVE  SaysMajor(x, 0, L, r)
  <1>1. PICK a, b \in Nat : UriSaid(x, a, b, r) /\ HttpTo(x, b, 5) /\ L = b + 5
    BY Zenon DEF SaysHttp
  <1>2. SubSeq(x, b + 6, L) = <<>>
    <2>1. b + 6 \in 1..Len(x) + 1 /\ (b + 6) - 1 = L
      BY <1>1
    <2> QED BY <2>1, PartEmpty
  <1>3. b + 5 + 0 <= L /\ \A i \in b + 6..L : IsDigit(x[i])
    BY <1>1
  <1>4. Counts(r.major, NumberOf(SubSeq(x, b + 6, L)))
    BY <1>2, NumberEmpty, CountsNothing, Zenon
  <1> QED BY <1>1, <1>3, <1>4, Zenon DEF SaysMajor

LEMMA SayMajor ==
  ASSUME NEW x \in Seq(Chars), NEW L \in 0..Len(x) - 1, NEW n \in {0, 1}, NEW r, SaysMajor(x, n, L, r)
  PROVE  /\ \A q : /\ IsDigit(x[L + 1]) /\ q.uri_ = r.uri_ /\ q.minor = r.minor
                   /\ q.major = Accumulated(r.major, x[L + 1])
                   => SaysMajor(x, 1, L + 1, q)
         /\ n = 1 /\ x[L + 1] = "." => SaysMinor(x, 0, L + 1, r)
  <1>1. PICK a, b \in Nat :
          /\ UriSaid(x, a, b, r) /\ HttpTo(x, b, 5)
          /\ b + 5 + n <= L /\ (\A i \in b + 6..L : IsDigit(x[i]))
          /\ Counts(r.major, NumberOf(SubSeq(x, b + 6, L))) /\ r.minor = 0
    BY Zenon DEF SaysMajor
  <1>2. ASSUME NEW q, IsDigit(x[L + 1]), q.uri_ = r.uri_, q.minor = r.minor,
               q.major = Accumulated(r.major, x[L + 1])
        PROVE  SaysMajor(x, 1, L + 1, q)
    <2>1. b + 6 \in 1..Len(x) /\ L \in (b + 6) - 1..Len(x) - 1 /\ L \in (b + 6) - 1..Len(x)
          /\ b + 6 \in 1..Len(x) + 1 /\ x[L + 1] \in Chars
      BY <1>1
    <2>2. SubSeq(x, b + 6, L + 1) = Append(SubSeq(x, b + 6, L), x[L + 1])
      BY <2>1, PartGrows
    <2>3. SubSeq(x, b + 6, L) \in Seq(Chars)
      BY <2>1, Part
    <2>4. NumberOf(Append(SubSeq(x, b + 6, L), x[L + 1]))
            = 10 * NumberOf(SubSeq(x, b + 6, L)) + DigitValue[x[L + 1]]
      BY <2>1, <2>3, NumberAppend
    <2>5. b + 5 + 1 <= L + 1 /\ \A i \in b + 6..L + 1 : IsDigit(x[i])
      BY <1>1, <1>2
    <2>6. UriSaid(x, a, b, q)
      BY <1>1, <1>2, UriSaidAgain
    <2>7. Counts(q.major, NumberOf(SubSeq(x, b + 6, L + 1)))
      BY <1>1, <1>2, <2>2, <2>4, CountsOn, Zenon
    <2> QED BY <1>1, <1>2, <2>5, <2>6, <2>7, Zenon DEF SaysMajor
  <1>3. ASSUME n = 1, x[L + 1] = "." PROVE SaysMinor(x, 0, L + 1, r)
    <2>1. MajorTo(x, b, L + 1)
      BY <1>1, <1>3 DEF MajorTo
    <2>2. /\ L + 1 \in Nat /\ (L + 1) - 1 = L /\ (L + 1) + 0 <= L + 1
          /\ \A i \in (L + 1) + 1..L + 1 : IsDigit(x[i])
      OBVIOUS
    <2>3. SubSeq(x, (L + 1) + 1, L + 1) = <<>>
      <3>1. (L + 1) + 1 \in 1..Len(x) + 1 /\ ((L + 1) + 1) - 1 = L + 1
        OBVIOUS
      <3> QED BY <3>1, PartEmpty
    <2>4. Counts(r.minor, NumberOf(SubSeq(x, (L + 1) + 1, L + 1)))
      BY <1>1, <2>3, NumberEmpty, CountsNothing, Zenon
    <2> QED BY <1>1, <2>1, <2>2, <2>4, Zenon DEF SaysMinor
  <1> QED BY <1>2, <1>3, Zenon

LEMMA SayMinor ==
  ASSUME NEW x \in Seq(Chars), NEW L \in 0..Len(x) - 1, NEW n \in {0, 1}, NEW r, SaysMinor(x, n, L, r),
         NEW q, IsDigit(x[L + 1]), q.uri_ = r.uri_, q.major = r.major,
         q.minor = Accumulated(r.minor, x[L + 1])
  PROVE  SaysMinor(x, 1, L + 1, q)
  <1>1. PICK a, b, d \in Nat :
          /\ UriSaid(x, a, b, r) /\ HttpTo(x, b, 5) /\ MajorTo(x, b, d)
          /\ Counts(r.major, NumberOf(SubSeq(x, b + 6, d - 1)))
          /\ d + n <= L /\ (\A i \in d + 1..L : IsDigit(x[i]))
          /\ Counts(r.minor, NumberOf(SubSeq(x, d + 1, L)))
    BY Zenon DEF SaysMinor
  <1>2. d + 1 \in 1..Len(x) /\ L \in (d + 1) - 1..Len(x) - 1 /\ L \in (d + 1) - 1..Len(x)
        /\ d + 1 \in 1..Len(x) + 1 /\ x[L + 1] \in Chars
    BY <1>1
  <1>3. SubSeq(x, d + 1, L + 1) = Append(SubSeq(x, d + 1, L), x[L + 1])
    BY <1>2, PartGrows
  <1>4. SubSeq(x, d + 1, L) \in Seq(Chars)
    BY <1>2, Part
  <1>5. NumberOf(Append(SubSeq(x, d + 1, L), x[L + 1]))
          = 10 * NumberOf(SubSeq(x, d + 1, L)) + DigitValue[x[L + 1]]
    BY <1>2, <1>4, NumberAppend
  <1>6. d + 1 <= L + 1 /\ \A i \in d + 1..L + 1 : IsDigit(x[i])
    BY <1>1
  <1>7. UriSaid(x, a, b, q)
    BY <1>1, UriSaidAgain
  <1>8. Counts(q.minor, NumberOf(SubSeq(x, d + 1, L + 1)))
    BY <1>1, <1>3, <1>5, CountsOn, Zenon
  <1> QED BY <1>1, <1>6, <1>7, <1>8, Zenon DEF SaysMinor

-----------------------------------------------------------------------------
(* What the header lines have said.                                        *)

\* Where the header lines start that end before p.
Starts(x, p) == {s \in 3..p : CrLfAt(x, s - 2)}

\* Each name has the value of the last line of that name.
SaysHeaders(x, p, h) ==
  /\ DOMAIN h = {NameOf(LineAt(x, s)) : s \in Starts(x, p)}
  /\ \A s \in Starts(x, p) :
       (\A n \in Starts(x, p) : NameOf(LineAt(x, n)) = NameOf(LineAt(x, s)) => n <= s) =>
         h[NameOf(LineAt(x, s))] = ValueOf(LineAt(x, s))
SaysLines(x, p, r) ==
  /\ LinesTo(x, p)
  /\ \E e \in Nat : SaysMinor(x, 1, e, r) /\ CrLfAt(x, e + 1) /\ e + 2 <= p
  /\ SaysHeaders(x, p, r.headers_)

LEMMA SayFirstLine ==
  ASSUME NEW x, NEW L \in Nat, L >= 1, NEW r, SaysMinor(x, 1, L - 1, r), CrLfAt(x, L),
         LinesTo(x, L + 1), \A s \in 3..L + 1 : ~CrLfAt(x, s - 2), DOMAIN r.headers_ = {}
  PROVE  SaysLines(x, L + 1, r)
  <1>1. Starts(x, L + 1) = {}
    BY DEF Starts
  <1>2. SaysHeaders(x, L + 1, r.headers_)
    BY <1>1 DEF SaysHeaders
  <1>3. L - 1 \in Nat /\ (L - 1) + 1 = L /\ (L - 1) + 2 <= L + 1
    OBVIOUS
  <1>4. \E e \in Nat : SaysMinor(x, 1, e, r) /\ CrLfAt(x, e + 1) /\ e + 2 <= L + 1
    BY <1>3, Zenon
  <1> QED BY <1>2, <1>4, Zenon DEF SaysLines

LEMMA SayField ==
  ASSUME NEW x \in Seq(Chars), NEW L \in Nat, L + 1 <= Len(x), NEW p \in 1..L - 2, NEW r,
         SaysLines(x, p, r), NEW k, NEW v, FieldSays(x, p + 1, L - 1, k, v), FieldTo(x, p + 1, L - 1),
         x[L] = "cr", x[L + 1] = "lf",
         NEW q, q.uri_ = r.uri_, q.major = r.major, q.minor = r.minor,
         q.headers_ = PutHeader(r.headers_, k, v)
  PROVE  SaysLines(x, L + 1, q)
  <1> DEFINE N(s) == NameOf(LineAt(x, s))
             V(s) == ValueOf(LineAt(x, s))
             h == r.headers_
             g == q.headers_
             S == Starts(x, p)
             T == Starts(x, L + 1)
  <1>1. LinesTo(x, p) /\ SaysHeaders(x, p, h)
    BY Zenon DEF SaysLines
  <1>2. PICK e \in Nat : SaysMinor(x, 1, e, r) /\ CrLfAt(x, e + 1) /\ e + 2 <= p
    BY Zenon DEF SaysLines
  <1>3. /\ LinesTo(x, L + 1)
        /\ CrLfAt(x, p - 1) /\ \A s \in p + 2..L + 1 : ~CrLfAt(x, s - 2)
    BY <1>1, StepField
  <1>4. p >= 2
    BY <1>1, LinesEnd
  <1>5. N(p + 1) = k /\ V(p + 1) = v
    <2>1. \A i \in p + 1..L - 1 : x[i] \notin {"cr", "lf"}
      <3>1. p + 1 \in Nat /\ L - 1 \in Int
        OBVIOUS
      <3> QED BY <3>1, NoBreakInField
    <2>2. LineEnd(x, p + 1, L - 1)
      <3>1. L - 1 \in (p + 1) - 1..Len(x) - 2 /\ (L - 1) + 1 = L
        OBVIOUS
      <3>2. \A i \in p + 1..L - 1 : ~CrLfAt(x, i)
        BY <2>1 DEF CrLfAt
      <3> QED BY <3>1, <3>2 DEF LineEnd, CrLfAt
    <2>3. p + 1 \in 1..Len(x) /\ L - 1 \in p + 1..Len(x)
      OBVIOUS
    <2> QED BY <2>2, <2>3, FieldSaysIs
  <1>6. T = S \cup {p + 1}
    <2>1. ASSUME NEW s \in T PROVE s \in S \cup {p + 1}
      <3>1. s \in 3..L + 1 /\ CrLfAt(x, s - 2)
        BY DEF Starts
      <3>2. s \notin p + 2..L + 1
        BY <1>3, <3>1
      <3>3. s \in 3..p \/ s = p + 1
        BY <3>1, <3>2
      <3> QED BY <3>1, <3>3 DEF Starts
    <2>2. S \subseteq T
      BY DEF Starts
    <2>3. p + 1 \in T
      <3>1. p + 1 \in 3..L + 1 /\ (p + 1) - 2 = p - 1
        BY <1>4
      <3> QED BY <1>3, <3>1 DEF Starts
    <2> HIDE DEF S, T
    <2> QED BY <2>1, <2>2, <2>3
  <1>7. S \in SUBSET (3..p)
    BY DEF Starts
  <1>8. /\ DOMAIN h = {N(s) : s \in S}
        /\ \A s \in S : (\A n \in S : N(n) = N(s) => n <= s) => h[N(s)] = V(s)
    BY <1>1, Zenon DEF SaysHeaders
  <1>9. g = [y \in DOMAIN h \cup {k} |-> IF y = k THEN v ELSE h[y]]
    BY DEF PutHeader
  <1> HIDE DEF N, V, h, g, S, T
  <1>10. DOMAIN g = {N(s) : s \in T}
    BY <1>5, <1>6, <1>8, <1>9
  <1>11. ASSUME NEW s \in T, \A n \in T : N(n) = N(s) => n <= s
         PROVE  g[N(s)] = V(s)
    <2>1. CASE s = p + 1
      BY <1>5, <1>9, <2>1
    <2>2. CASE s # p + 1
      <3>1. s \in S /\ s \in 3..p
        BY <1>6, <1>7, <2>2
      <3>2. N(s) # k
        <4>1. ~(p + 1 <= s) /\ p + 1 \in T
          BY <1>6, <3>1
        <4> QED BY <1>5, <1>11, <4>1
      <3>3. \A n \in S : N(n) = N(s) => n <= s
        BY <1>6, <1>11
      <3>4. h[N(s)] = V(s)
        BY <1>8, <3>1, <3>3
      <3>5. N(s) \in DOMAIN h
        BY <1>8, <3>1
      <3> QED BY <1>9, <3>2, <3>4, <3>5
    <2> QED BY <2>1, <2>2
  <1>12. SaysHeaders(x, L + 1, g)
    BY <1>10, <1>11, Zenon DEF SaysHeaders, N, V, T
  <1>13. SaysMinor(x, 1, e, q)
    <2>1. PICK a, b, d \in Nat :
            /\ UriSaid(x, a, b, r) /\ HttpTo(x, b, 5) /\ MajorTo(x, b, d)
            /\ Counts(r.major, NumberOf(SubSeq(x, b + 6, d - 1)))
            /\ d + 1 <= e /\ (\A i \in d + 1..e : IsDigit(x[i]))
            /\ Counts(r.minor, NumberOf(SubSeq(x, d + 1, e)))
      BY <1>2, Zenon DEF SaysMinor
    <2>2. UriSaid(x, a, b, q)
      BY <2>1, UriSaidAgain
    <2> QED BY <2>1, <2>2, Zenon DEF SaysMinor
  <1>14. e + 2 <= L + 1
    BY <1>2
  <1> QED BY <1>2, <1>3, <1>12, <1>13, <1>14, Zenon DEF SaysLines, g

-----------------------------------------------------------------------------
(* What was said is what the text means.                                   *)

LEMMA LineSays ==
  ASSUME NEW y \in Seq(Chars), NEW e \in Nat, NEW r, SaysMinor(y, 1, e, r), CrLfAt(y, e + 1),
         e + 2 <= Len(y)
  PROVE  LET version == VersionOf(LineAt(y, 1))
             dot == Min(Where(version, "."))
         IN  /\ UriOf(LineAt(y, 1)) = r.uri_
             /\ Counts(r.major, NumberOf(SubSeq(version, 6, dot - 1)))
             /\ Counts(r.minor, NumberOf(After(version, dot)))
  <1>1. PICK a, b, d \in Nat :
          /\ UriSaid(y, a, b, r) /\ HttpTo(y, b, 5) /\ MajorTo(y, b, d)
          /\ Counts(r.major, NumberOf(SubSeq(y, b + 6, d - 1)))
          /\ d + 1 <= e /\ (\A i \in d + 1..e : IsDigit(y[i]))
          /\ Counts(r.minor, NumberOf(SubSeq(y, d + 1, e)))
    BY Zenon DEF SaysMinor
  <1>2. MethodTo(y, a) /\ UriTo(y, a, b) /\ r.uri_ = SubSeq(y, a + 1, b - 1)
    BY <1>1, Zenon DEF UriSaid
  <1>3. a > 1 /\ a < b /\ b + 6 < d /\ d < e /\ (\A i \in b + 6..d - 1 : IsDigit(y[i])) /\ y[d] = "."
    BY <1>1, <1>2 DEF MethodTo, UriTo, MajorTo
  <1> DEFINE t == SubSeq(y, 1, e)
             v == SubSeq(y, b + 1, e)
             j == d - b
             l == e - b
  <1>4. t \in Seq(Chars) /\ Len(t) = e /\ \A i \in 1..e : t[i] = y[i]
    <2>1. 1 \in 1..Len(y) + 1 /\ e \in 1 - 1..Len(y) /\ e - 1 + 1 = e /\ \A i \in 1..e : 1 + i - 1 = i
      OBVIOUS
    <2> QED BY <2>1, Part
  <1>5. LineAt(y, 1) = t
    <2>1. RequestLineTo(y, e)
      <3>1. DigitsIn(y, d + 1, e)
        BY <1>1 DEF DigitsIn
      <3> QED BY <1>1, <1>2, <3>1, Zenon DEF RequestLineTo
    <2>2. \A i \in 1..e : ~CrLfAt(y, i)
      BY <2>1, NoBreakInRequestLine DEF CrLfAt
    <2>3. LineEnd(y, 1, e)
      BY <2>2 DEF LineEnd
    <2>4. 1 \in 1..Len(y)
      OBVIOUS
    <2> QED BY <2>3, <2>4, LineAtIs
  <1>6. FirstSpace(t) = a /\ SecondSpace(t) = b
    <2>1. MethodTo(t, a) /\ UriTo(t, a, b)
      BY <1>2, <1>3, <1>4 DEF MethodTo, UriTo
    <2>2. b \in 1..Len(t)
      BY <1>3, <1>4
    <2> HIDE DEF t
    <2> QED BY <1>4, <2>1, <2>2, BlanksAre
  <1>7. UriOf(t) = r.uri_
    <2>1. a + 1 \in 1..e + 1 /\ b - 1 \in (a + 1) - 1..e
      BY <1>3
    <2>2. e <= Len(t) /\ e <= Len(y)
      BY <1>4
    <2> HIDE DEF t
    <2>3. SubSeq(t, a + 1, b - 1) = SubSeq(y, a + 1, b - 1)
      BY <1>4, <2>1, <2>2, PartAgrees
    <2> QED BY <1>2, <1>6, <2>3, Zenon DEF UriOf
  <1>8. VersionOf(t) = v
    <2>1. b + 1 \in 1..e + 1 /\ e \in (b + 1) - 1..e
      BY <1>3
    <2>2. e <= Len(t) /\ e <= Len(y)
      BY <1>4
    <2> HIDE DEF t
    <2>3. SubSeq(t, b + 1, e) = SubSeq(y, b + 1, e)
      BY <1>4, <2>1, <2>2, PartAgrees
    <2> QED BY <1>4, <1>6, <2>3 DEF VersionOf, After
  <1>9. b + 1 \in 1..Len(y) + 1 /\ e \in (b + 1) - 1..Len(y) /\ e - (b + 1) + 1 = l
    BY <1>3
  <1>10. v \in Seq(Chars) /\ Len(v) = l /\ l \in Nat /\ \A i \in 1..l : v[i] = y[b + i]
    <2>1. /\ v \in Seq(Chars) /\ Len(v) = e - (b + 1) + 1
          /\ \A i \in 1..e - (b + 1) + 1 : v[i] = y[(b + 1) + i - 1]
      BY <1>9, Part
    <2>2. \A i \in 1..l : (b + 1) + i - 1 = b + i
      BY <1>3
    <2> QED BY <1>3, <1>9, <2>1, <2>2
  <1> HIDE DEF t, v
  <1>11. Min(Where(v, ".")) = j
    <2>1. Where(v, ".") \in SUBSET Nat
      BY <1>10, SomeAre
    <2>2. j \in 1..l /\ b + j = d
      BY <1>3
    <2>3. j \in Where(v, ".")
      BY <1>3, <1>10, <2>2 DEF Where
    <2>4. ASSUME NEW i \in Where(v, ".") PROVE j <= i
      <3>1. i \in 1..l /\ y[b + i] = "."
        BY <1>10 DEF Where
      <3>2. i \notin 1..5
        <4> SUFFICES ASSUME i \in 1..5 PROVE FALSE
          OBVIOUS
        <4>1. y[b + i] = Http[i]
          BY <1>1, Zenon DEF HttpTo
        <4>2. Http[i] # "."
          BY DEF Http
        <4> QED BY <3>1, <4>1, <4>2
      <3>3. i >= 6 /\ i < j => b + i \in b + 6..d - 1
        BY <1>3, <3>1
      <3>4. ~IsDigit(".")
        BY Classes
      <3> QED BY <1>3, <2>2, <3>1, <3>2, <3>3, <3>4
    <2> QED BY <2>1, <2>3, <2>4, MinIs
  <1>12. SubSeq(v, 6, j - 1) = SubSeq(y, b + 6, d - 1)
    <2>1. 6 \in 1..e - (b + 1) + 2 /\ j - 1 \in 6 - 1..e - (b + 1) + 1
          /\ (b + 1) + 6 - 1 = b + 6 /\ (b + 1) + (j - 1) - 1 = d - 1
      BY <1>3
    <2>2. SubSeq(SubSeq(y, b + 1, e), 6, j - 1) = SubSeq(y, (b + 1) + 6 - 1, (b + 1) + (j - 1) - 1)
      BY <1>9, <2>1, PartOfPart
    <2> QED BY <2>1, <2>2 DEF v
  <1>13. After(v, j) = SubSeq(y, d + 1, e)
    <2>1. j + 1 \in 1..e - (b + 1) + 2 /\ l \in (j + 1) - 1..e - (b + 1) + 1
          /\ (b + 1) + (j + 1) - 1 = d + 1 /\ (b + 1) + l - 1 = e
      BY <1>3
    <2>2. SubSeq(SubSeq(y, b + 1, e), j + 1, l) = SubSeq(y, (b + 1) + (j + 1) - 1, (b + 1) + l - 1)
      BY <1>9, <2>1, PartOfPart
    <2> QED BY <1>10, <2>1, <2>2 DEF After, v
  <1> HIDE DEF j
  <1> QED BY <1>1, <1>5, <1>7, <1>8, <1>11, <1>12, <1>13, Zenon

LEMMA SaysMinorAgrees ==
  ASSUME NEW x \in Seq(Chars), NEW y \in Seq(Chars), NEW e \in Nat, e <= Len(x), e <= Len(y),
         \A i \in 1..e : x[i] = y[i], NEW r, SaysMinor(x, 1, e, r)
  PROVE  SaysMinor(y, 1, e, r)
  <1>1. PICK a, b, d \in Nat :
          /\ UriSaid(x, a, b, r) /\ HttpTo(x, b, 5) /\ MajorTo(x, b, d)
          /\ Counts(r.major, NumberOf(SubSeq(x, b + 6, d - 1)))
          /\ d + 1 <= e /\ (\A i \in d + 1..e : IsDigit(x[i]))
          /\ Counts(r.minor, NumberOf(SubSeq(x, d + 1, e)))
    BY Zenon DEF SaysMinor
  <1>2. MethodTo(x, a) /\ UriTo(x, a, b) /\ r.uri_ = SubSeq(x, a + 1, b - 1)
    BY <1>1, Zenon DEF UriSaid
  <1>3. a > 1 /\ a < b /\ b + 6 < d /\ d < e
    BY <1>1, <1>2 DEF MethodTo, UriTo, MajorTo, DigitsIn
  <1>4. ASSUME NEW s \in 1..e + 1, NEW m \in s - 1..e PROVE SubSeq(x, s, m) = SubSeq(y, s, m)
    BY PartAgrees
  <1>5. MethodTo(y, a) /\ UriTo(y, a, b)
    <2>1. /\ \A i \in 1..a : x[i] = y[i]
          /\ \A i \in a + 1..b : x[i] = y[i]
          /\ a \in 1..a /\ b \in a + 1..b
      BY <1>3
    <2>2. MethodTo(y, a)
      BY <1>2, <1>3, <2>1 DEF MethodTo, NamesIn
    <2>3. UriTo(y, a, b)
      BY <1>2, <1>3, <2>1 DEF UriTo, PlainIn
    <2> QED BY <2>2, <2>3
  <1>6. HttpTo(y, b, 5)
    <2>1. \A i \in 1..5 : b + i \in 1..e
      BY <1>3
    <2> QED BY <1>1, <2>1 DEF HttpTo
  <1>7. MajorTo(y, b, d) /\ \A i \in d + 1..e : IsDigit(y[i])
    BY <1>1, <1>3 DEF MajorTo, DigitsIn
  <1>8. /\ SubSeq(x, a + 1, b - 1) = SubSeq(y, a + 1, b - 1)
        /\ SubSeq(x, b + 6, d - 1) = SubSeq(y, b + 6, d - 1)
        /\ SubSeq(x, d + 1, e) = SubSeq(y, d + 1, e)
    <2>1. /\ a + 1 \in 1..e + 1 /\ b - 1 \in (a + 1) - 1..e /\ b + 6 \in 1..e + 1
          /\ d - 1 \in (b + 6) - 1..e /\ d + 1 \in 1..e + 1 /\ e \in (d + 1) - 1..e
      BY <1>3
    <2> QED BY <1>4, <2>1
  <1>9. UriSaid(y, a, b, r)
    BY <1>2, <1>5, <1>8, Zenon DEF UriSaid
  <1> QED BY <1>1, <1>6, <1>7, <1>8, <1>9, Zenon DEF SaysMinor

\* A header line of x is one of any part of x that holds it.
LEMMA LineOfPart ==
  ASSUME NEW x \in Seq(Chars), NEW y \in Seq(Chars), NEW L \in Nat \ {0}, L + 1 <= Len(x),
         Len(y) = L + 1, \A i \in 1..L + 1 : y[i] = x[i], LinesTo(x, L - 1),
         NEW s \in 3..L - 1, CrLfAt(x, s - 2)
  PROVE  LineAt(y, s) = LineAt(x, s)
  <1> DEFINE a == Len(x)
             b == Len(y)
  <1>1. PICK m \in s..L - 1 - 2 : CrLfAt(x, m + 1) /\ FieldTo(x, s, m)
    BY Zenon DEF LinesTo
  <1>2. /\ s \in Nat /\ m \in Nat /\ 3 <= s /\ s <= m /\ m + 3 <= L
        /\ a \in Nat /\ L + 1 <= a /\ b = L + 1 /\ L \in Nat
    OBVIOUS
  <1>3. \A i \in s..m : x[i] \notin {"cr", "lf"}
    <2>1. s \in Nat /\ m \in Int
      BY <1>2
    <2> QED BY <1>1, <2>1, NoBreakInField
  <1> HIDE DEF a, b
  <1>4. s \in 1..a /\ s \in 1..b
    BY <1>2
  <1>5. m \in s - 1..a - 2 /\ m \in s - 1..b - 2
    BY <1>2
  <1>6. m + 1 \in 1..L + 1 /\ m + 1 + 1 \in 1..L + 1
    BY <1>2
  <1>7. \A i \in s..m : i \in 1..L + 1
    BY <1>2
  <1>8. LineEnd(x, s, m)
    <2>1. \A i \in s..m : ~CrLfAt(x, i)
      BY <1>3 DEF CrLfAt
    <2> QED BY <1>1, <1>5, <2>1, Zenon DEF LineEnd, a
  <1>9. LineEnd(y, s, m)
    <2>1. \A i \in s..m : y[i] # "cr"
      BY <1>3, <1>7
    <2>2. \A i \in s..m : ~CrLfAt(y, i)
      BY <2>1, Zenon DEF CrLfAt
    <2>3. CrLfAt(y, m + 1)
      BY <1>1, <1>6, Zenon DEF CrLfAt
    <2> QED BY <1>5, <2>2, <2>3, Zenon DEF LineEnd, b
  <1>10. LineAt(x, s) = SubSeq(x, s, m) /\ LineAt(y, s) = SubSeq(y, s, m)
    BY <1>4, <1>5, <1>8, <1>9, LineAtIs DEF a, b
  <1>11. SubSeq(x, s, m) = SubSeq(y, s, m)
    <2>1. \A i \in 1..L + 1 : x[i] = y[i]
      OBVIOUS
    <2>2. L + 1 \in Nat /\ L + 1 <= a /\ L + 1 <= b
      BY <1>2
    <2>3. s \in 1..L + 1 + 1 /\ m \in s - 1..L + 1
      BY <1>2
    <2> QED BY <2>1, <2>2, <2>3, PartAgrees DEF a, b
  <1> QED BY <1>10, <1>11

LEMMA MeaningIs ==
  ASSUME NEW x \in Seq(Chars), NEW L \in Nat \ {0}, L + 1 <= Len(x), NEW r, SaysLines(x, L - 1, r),
         x[L] = "cr", x[L + 1] = "lf", r.headers_ \in Headers
  PROVE  Told(r, Meaning(SubSeq(x, 1, L + 1)))
  <1> DEFINE y == SubSeq(x, 1, L + 1)
             h == r.headers_
             S == Starts(x, L - 1)
             N(s) == NameOf(LineAt(x, s))
             V(s) == ValueOf(LineAt(x, s))
  <1>1. y \in Seq(Chars) /\ Len(y) = L + 1 /\ \A i \in 1..L + 1 : y[i] = x[i]
    <2>1. /\ 1 \in 1..Len(x) + 1 /\ L + 1 \in 1 - 1..Len(x) /\ (L + 1) - 1 + 1 = L + 1
          /\ \A i \in 1..L + 1 : 1 + i - 1 = i
      OBVIOUS
    <2> QED BY <2>1, Part
  <1>2. LinesTo(x, L - 1) /\ SaysHeaders(x, L - 1, h)
    BY Zenon DEF SaysLines
  <1>3. PICK e \in Nat : SaysMinor(x, 1, e, r) /\ CrLfAt(x, e + 1) /\ e + 2 <= L - 1
    BY Zenon DEF SaysLines
  <1> HIDE DEF y
  <1>4. SaysMinor(y, 1, e, r) /\ CrLfAt(y, e + 1) /\ e + 2 <= Len(y)
    <2>1. e <= Len(x) /\ e <= Len(y) /\ \A i \in 1..e : x[i] = y[i]
      BY <1>1, <1>3
    <2>2. SaysMinor(y, 1, e, r)
      BY <1>1, <1>3, <2>1, SaysMinorAgrees
    <2>3. e + 1 \in 1..L + 1 /\ e + 2 \in 1..L + 1 /\ e + 1 + 1 = e + 2
      BY <1>3
    <2>4. CrLfAt(y, e + 1)
      BY <1>1, <1>3, <2>3 DEF CrLfAt
    <2> QED BY <1>1, <1>3, <2>2, <2>4
  <1>5. HeaderStarts(y) = S
    <2>1. ASSUME NEW s \in 3..L - 1 PROVE SubSeq(y, s - 2, s - 1) = CrLf <=> CrLfAt(x, s - 2)
      <3>1. s - 2 \in 1..Len(y) - 1 /\ s - 1 = s - 2 + 1 /\ s - 2 \in 1..L + 1 /\ s - 2 + 1 \in 1..L + 1
        BY <1>1
      <3>2. SubSeq(y, s - 2, s - 2 + 1) = CrLf <=> CrLfAt(y, s - 2)
        BY <1>1, <3>1, CrLfIs
      <3> QED BY <1>1, <3>1, <3>2 DEF CrLfAt
    <2>2. Len(y) - 2 = L - 1
      BY <1>1
    <2> QED BY <2>1, <2>2 DEF HeaderStarts, Starts
  <1>6. S \in SUBSET (0..L)
    BY DEF Starts
  <1>7. ASSUME NEW s \in S PROVE LineAt(y, s) = LineAt(x, s)
    <2>1. s \in 3..L - 1 /\ CrLfAt(x, s - 2)
      BY DEF Starts
    <2> QED BY <1>1, <1>2, <2>1, LineOfPart
  <1>8. /\ DOMAIN h = {N(s) : s \in S}
        /\ \A s \in S : (\A n \in S : N(n) = N(s) => n <= s) => h[N(s)] = V(s)
    BY <1>2, Zenon DEF SaysHeaders
  <1>9. {NameOf(LineAt(y, s)) : s \in HeaderStarts(y)} = DOMAIN h
    <2>1. \A s \in S : NameOf(LineAt(y, s)) = N(s)
      BY <1>7
    <2> HIDE DEF S, h, N
    <2> QED BY <1>5, <1>8, <2>1
  <1>10. ASSUME NEW k \in DOMAIN h PROVE ValueOf(LineAt(y, Max(Lines(y, k)))) = h[k]
    <2> DEFINE K == {s \in S : N(s) = k}
    <2>1. Lines(y, k) = K
      <3>1. \A s \in S : NameOf(LineAt(y, s)) = N(s)
        BY <1>7
      <3> HIDE DEF S, h, N
      <3> QED BY <1>5, <3>1 DEF Lines
    <2> HIDE DEF S, h, N, V
    <2>2. K \in SUBSET (0..L) /\ K # {}
      BY <1>6, <1>8
    <2>3. Max(K) \in K /\ \A s \in K : Max(K) >= s
      BY <2>2, MaxGreatest
    <2> DEFINE m == Max(K)
    <2> HIDE DEF m
    <2>4. m \in S /\ N(m) = k /\ \A n \in S : N(n) = N(m) => n <= m
      <3>1. m \in K /\ \A s \in K : m >= s
        BY <2>3 DEF m
      <3>2. m \in S /\ N(m) = k
        BY <3>1
      <3>3. ASSUME NEW n \in S, N(n) = N(m) PROVE n <= m
        <4>1. n \in K /\ n \in 0..L /\ m \in 0..L
          BY <1>6, <3>2, <3>3
        <4> QED BY <3>1, <4>1
      <3> QED BY <3>2, <3>3
    <2>5. h[k] = V(m)
      BY <1>8, <2>4
    <2>6. ValueOf(LineAt(y, m)) = V(m)
      BY <1>7, <2>4 DEF V
    <2> QED BY <2>1, <2>5, <2>6 DEF m
  <1>11. Meaning(y).headers_ = h
    <2>1. PICK K \in SUBSET Seq(Chars) : h \in [K -> Seq(Chars)]
      BY DEF Headers
    <2>2. h = [k \in DOMAIN h |-> h[k]]
      BY <2>1
    <2>3. Meaning(y).headers_ =
            [k \in {NameOf(LineAt(y, s)) : s \in HeaderStarts(y)} |->
               ValueOf(LineAt(y, Max(Lines(y, k))))]
      BY DEF Meaning
    <2> HIDE DEF h
    <2> QED BY <1>9, <1>10, <2>2, <2>3, Zenon
  <1> DEFINE version == VersionOf(LineAt(y, 1))
             dot == Min(Where(version, "."))
  <1>12. /\ UriOf(LineAt(y, 1)) = r.uri_
         /\ Counts(r.major, NumberOf(SubSeq(version, 6, dot - 1)))
         /\ Counts(r.minor, NumberOf(After(version, dot)))
    BY <1>1, <1>4, LineSays
  <1>13. /\ Meaning(y).uri_ = UriOf(LineAt(y, 1)) /\ Meaning(y).major = NumberOf(SubSeq(version, 6, dot - 1))
         /\ Meaning(y).minor = NumberOf(After(version, dot))
    BY DEF Meaning
  <1> HIDE DEF version, dot
  <1> QED BY <1>11, <1>12, <1>13 DEF y, Told, Counts

-----------------------------------------------------------------------------
(* What the automaton has filled in when it is in one of its states.       *)

SaysName(x, L, r, k, v) ==
  \E p \in 1..L - 1 :
    SaysLines(x, p, r) /\ NamesIn(x, p + 1, L) /\ k = SubSeq(x, p + 1, L) /\ v = <<>>
SaysColon(x, L, r, k, v) ==
  \E p \in 1..L - 2 :
    /\ SaysLines(x, p, r) /\ NamesIn(x, p + 1, L - 1) /\ x[L] = ":"
    /\ k = SubSeq(x, p + 1, L - 1) /\ v = <<>>
SaysFold(x, L, r, k, v) ==
  \E p \in 1..L - 1 : SaysLines(x, p, r) /\ BlanksIn(x, p + 1, L) /\ k = <<>> /\ v = <<>>
SaysValue(x, L, r, k, v) ==
  \E p \in 1..L - 1 : SaysLines(x, p, r) /\ FieldSays(x, p + 1, L, k, v) /\ ~BlanksIn(x, p + 1, L)
SaysFieldEnd(x, L, r, k, v) ==
  \E p \in 1..L - 2 : SaysLines(x, p, r) /\ FieldSays(x, p + 1, L - 1, k, v) /\ x[L] = "cr"

Filled(st, x, L, r, k, v) ==
  /\ st \in {"method_start", "method"} => r.uri_ = <<>>
  /\ st = "uri" => SaysUri(x, L, r)
  /\ st = "http_version_h" => SaysHttp(x, 0, L, r)
  /\ st = "http_version_t_1" => SaysHttp(x, 1, L, r)
  /\ st = "http_version_t_2" => SaysHttp(x, 2, L, r)
  /\ st = "http_version_p" => SaysHttp(x, 3, L, r)
  /\ st = "http_version_slash" => SaysHttp(x, 4, L, r)
  /\ st = "http_version_major_start" => SaysMajor(x, 0, L, r)
  /\ st = "http_version_major" => SaysMajor(x, 1, L, r)
  /\ st = "http_version_minor_start" => SaysMinor(x, 0, L, r)
  /\ st = "http_version_minor" => SaysMinor(x, 1, L, r)
  /\ st = "expecting_newline_1" => L >= 1 /\ SaysMinor(x, 1, L - 1, r) /\ x[L] = "cr"
  /\ st = "header_line_start" => SaysLines(x, L, r) /\ k = <<>> /\ v = <<>>
  /\ st = "header_name" => SaysName(x, L, r, k, v)
  /\ st = "space_before_header_value" => SaysColon(x, L, r, k, v)
  /\ st = "header_lws" => SaysFold(x, L, r, k, v)
  /\ st = "header_value" => SaysValue(x, L, r, k, v)
  /\ st = "expecting_newline_2" => SaysFieldEnd(x, L, r, k, v)
  /\ st = "expecting_newline_3" => L >= 1 /\ SaysLines(x, L - 1, r) /\ x[L] = "cr"

LEMMA FilledIs ==
  ASSUME NEW x, NEW L, NEW r, NEW k, NEW v
  PROVE  /\ Filled("method_start", x, L, r, k, v) <=> r.uri_ = <<>>
         /\ Filled("method", x, L, r, k, v) <=> r.uri_ = <<>>
         /\ Filled("uri", x, L, r, k, v) <=> SaysUri(x, L, r)
         /\ Filled("http_version_h", x, L, r, k, v) <=> SaysHttp(x, 0, L, r)
         /\ Filled("http_version_t_1", x, L, r, k, v) <=> SaysHttp(x, 1, L, r)
         /\ Filled("http_version_t_2", x, L, r, k, v) <=> SaysHttp(x, 2, L, r)
         /\ Filled("http_version_p", x, L, r, k, v) <=> SaysHttp(x, 3, L, r)
         /\ Filled("http_version_slash", x, L, r, k, v) <=> SaysHttp(x, 4, L, r)
         /\ Filled("http_version_major_start", x, L, r, k, v) <=> SaysMajor(x, 0, L, r)
         /\ Filled("http_version_major", x, L, r, k, v) <=> SaysMajor(x, 1, L, r)
         /\ Filled("http_version_minor_start", x, L, r, k, v) <=> SaysMinor(x, 0, L, r)
         /\ Filled("http_version_minor", x, L, r, k, v) <=> SaysMinor(x, 1, L, r)
         /\ Filled("expecting_newline_1", x, L, r, k, v) <=>
              (L >= 1 /\ SaysMinor(x, 1, L - 1, r) /\ x[L] = "cr")
         /\ Filled("header_line_start", x, L, r, k, v) <=> (SaysLines(x, L, r) /\ k = <<>> /\ v = <<>>)
         /\ Filled("header_name", x, L, r, k, v) <=> SaysName(x, L, r, k, v)
         /\ Filled("space_before_header_value", x, L, r, k, v) <=> SaysColon(x, L, r, k, v)
         /\ Filled("header_lws", x, L, r, k, v) <=> SaysFold(x, L, r, k, v)
         /\ Filled("header_value", x, L, r, k, v) <=> SaysValue(x, L, r, k, v)
         /\ Filled("expecting_newline_2", x, L, r, k, v) <=> SaysFieldEnd(x, L, r, k, v)
         /\ Filled("expecting_newline_3", x, L, r, k, v) <=>
              (L >= 1 /\ SaysLines(x, L - 1, r) /\ x[L] = "cr")
  BY Zenon DEF Filled

\* The name of a header.
LEMMA SayName ==
  ASSUME NEW x \in Seq(Chars), NEW L \in 0..Len(x) - 1, NEW r, NEW k, NEW v
  PROVE  /\ SaysLines(x, L, r) /\ k = <<>> /\ v = <<>> /\ IsName(x[L + 1]) =>
              SaysName(x, L + 1, r, Append(k, x[L + 1]), v)
         /\ SaysName(x, L, r, k, v) /\ IsName(x[L + 1]) => SaysName(x, L + 1, r, Append(k, x[L + 1]), v)
         /\ SaysName(x, L, r, k, v) /\ x[L + 1] = ":" => SaysColon(x, L + 1, r, k, v)
         /\ SaysColon(x, L, r, k, v) /\ x[L + 1] = "sp" => SaysValue(x, L + 1, r, k, v)
  <1>1. ASSUME SaysLines(x, L, r), k = <<>>, v = <<>>, IsName(x[L + 1])
        PROVE  SaysName(x, L + 1, r, Append(k, x[L + 1]), v)
    <2>1. L >= 2
      <3>1. LinesTo(x, L)
        BY <1>1, Zenon DEF SaysLines
      <3> QED BY <3>1, LinesEnd
    <2>2. L \in 1..(L + 1) - 1 /\ NamesIn(x, L + 1, L + 1)
      BY <1>1, <2>1
    <2>3. SubSeq(x, L + 1, L + 1) = Append(k, x[L + 1])
      <3>1. L + 1 \in 1..Len(x) /\ L \in (L + 1) - 1..Len(x) - 1 /\ L + 1 \in 1..Len(x) + 1
            /\ (L + 1) - 1 = L
        OBVIOUS
      <3>2. SubSeq(x, L + 1, L) = <<>>
        BY <3>1, PartEmpty
      <3>3. SubSeq(x, L + 1, L + 1) = Append(SubSeq(x, L + 1, L), x[L + 1])
        BY <3>1, PartGrows
      <3> QED BY <1>1, <3>2, <3>3
    <2> QED BY <1>1, <2>2, <2>3, Zenon DEF SaysName
  <1>2. ASSUME SaysName(x, L, r, k, v)
        PROVE  \E p \in 1..L - 1 :
                 SaysLines(x, p, r) /\ NamesIn(x, p + 1, L) /\ k = SubSeq(x, p + 1, L) /\ v = <<>>
    BY <1>2, Zenon DEF SaysName
  <1>3. ASSUME SaysName(x, L, r, k, v), IsName(x[L + 1])
        PROVE  SaysName(x, L + 1, r, Append(k, x[L + 1]), v)
    <2>1. PICK p \in 1..L - 1 :
            SaysLines(x, p, r) /\ NamesIn(x, p + 1, L) /\ k = SubSeq(x, p + 1, L) /\ v = <<>>
      BY <1>2, <1>3
    <2>2. SubSeq(x, p + 1, L + 1) = Append(SubSeq(x, p + 1, L), x[L + 1])
      <3>1. p + 1 \in 1..Len(x) /\ L \in (p + 1) - 1..Len(x) - 1
        OBVIOUS
      <3> QED BY <3>1, PartGrows
    <2>3. NamesIn(x, p + 1, L + 1) /\ p \in 1..(L + 1) - 1
      BY <1>3, <2>1
    <2> QED BY <2>1, <2>2, <2>3, Zenon DEF SaysName
  <1>4. ASSUME SaysName(x, L, r, k, v), x[L + 1] = ":" PROVE SaysColon(x, L + 1, r, k, v)
    <2>1. PICK p \in 1..L - 1 :
            SaysLines(x, p, r) /\ NamesIn(x, p + 1, L) /\ k = SubSeq(x, p + 1, L) /\ v = <<>>
      BY <1>2, <1>4
    <2>2. (L + 1) - 1 = L /\ p \in 1..(L + 1) - 2
      OBVIOUS
    <2> QED BY <1>4, <2>1, <2>2, Zenon DEF SaysColon
  <1>5. ASSUME SaysColon(x, L, r, k, v), x[L + 1] = "sp" PROVE SaysValue(x, L + 1, r, k, v)
    <2>1. PICK p \in 1..L - 2 :
            /\ SaysLines(x, p, r) /\ NamesIn(x, p + 1, L - 1) /\ x[L] = ":"
            /\ k = SubSeq(x, p + 1, L - 1) /\ v = <<>>
      BY <1>5, Zenon DEF SaysColon
    <2>2. /\ L \in (p + 1) + 1..(L + 1) - 1 /\ p \in 1..(L + 1) - 1 /\ L + 2 \in 1..Len(x) + 1
          /\ (L + 2) - 1 = L + 1
      OBVIOUS
    <2>3. SubSeq(x, L + 2, L + 1) = <<>>
      BY <2>2, PartEmpty
    <2>4. PlainIn(x, L + 2, L + 1)
      OBVIOUS
    <2>5. FieldSays(x, p + 1, L + 1, k, v)
      BY <1>5, <2>1, <2>2, <2>3, <2>4, Zenon DEF FieldSays
    <2>6. ~BlanksIn(x, p + 1, L + 1)
      <3>1. p + 1 \in p + 1..L - 1 /\ p + 1 \in p + 1..L + 1
        OBVIOUS
      <3>2. IsName(x[p + 1])
        BY <2>1, <3>1
      <3>3. ~IsBlank(x[p + 1])
        BY <3>2, Classes
      <3> QED BY <3>1, <3>3
    <2> QED BY <2>1, <2>2, <2>5, <2>6, Zenon DEF SaysValue
  <1> QED BY <1>1, <1>3, <1>4, <1>5, Zenon

\* A continuation line.
LEMMA SayFold ==
  ASSUME NEW x \in Seq(Chars), NEW L \in 0..Len(x) - 1, NEW r, NEW k, NEW v
  PROVE  /\ SaysLines(x, L, r) /\ k = <<>> /\ v = <<>> /\ IsBlank(x[L + 1]) => SaysFold(x, L + 1, r, k, v)
         /\ SaysFold(x, L, r, k, v) /\ IsBlank(x[L + 1]) => SaysFold(x, L + 1, r, k, v)
         /\ SaysFold(x, L, r, k, v) /\ x[L + 1] = "cr" => SaysFieldEnd(x, L + 1, r, k, v)
         /\ SaysFold(x, L, r, k, v) /\ ~IsBlank(x[L + 1]) /\ x[L + 1] \notin Ctl =>
              SaysValue(x, L + 1, r, k, Append(v, x[L + 1]))
  <1>1. ASSUME SaysLines(x, L, r), k = <<>>, v = <<>>, IsBlank(x[L + 1])
        PROVE  SaysFold(x, L + 1, r, k, v)
    <2>1. L >= 2
      <3>1. LinesTo(x, L)
        BY <1>1, Zenon DEF SaysLines
      <3> QED BY <3>1, LinesEnd
    <2>2. L \in 1..(L + 1) - 1 /\ BlanksIn(x, L + 1, L + 1)
      BY <1>1, <2>1
    <2> QED BY <1>1, <2>2, Zenon DEF SaysFold
  <1>2. ASSUME SaysFold(x, L, r, k, v)
        PROVE  \E p \in 1..L - 1 : SaysLines(x, p, r) /\ BlanksIn(x, p + 1, L) /\ k = <<>> /\ v = <<>>
    BY <1>2, Zenon DEF SaysFold
  <1>3. ASSUME SaysFold(x, L, r, k, v), IsBlank(x[L + 1]) PROVE SaysFold(x, L + 1, r, k, v)
    <2>1. PICK p \in 1..L - 1 : SaysLines(x, p, r) /\ BlanksIn(x, p + 1, L) /\ k = <<>> /\ v = <<>>
      BY <1>2, <1>3
    <2>2. BlanksIn(x, p + 1, L + 1) /\ p \in 1..(L + 1) - 1
      BY <1>3, <2>1
    <2> QED BY <2>1, <2>2, Zenon DEF SaysFold
  <1>4. SubSeq(x, L + 1, L) = <<>>
    <2>1. L + 1 \in 1..Len(x) + 1 /\ (L + 1) - 1 = L
      OBVIOUS
    <2> QED BY <2>1, PartEmpty
  <1>5. ASSUME SaysFold(x, L, r, k, v), x[L + 1] = "cr" PROVE SaysFieldEnd(x, L + 1, r, k, v)
    <2>1. PICK p \in 1..L - 1 : SaysLines(x, p, r) /\ BlanksIn(x, p + 1, L) /\ k = <<>> /\ v = <<>>
      BY <1>2, <1>5
    <2>2. L \in p + 1..L /\ p \in 1..(L + 1) - 2 /\ (L + 1) - 1 = L /\ PlainIn(x, L + 1, L)
      OBVIOUS
    <2>3. FieldSays(x, p + 1, L, k, v)
      BY <1>4, <2>1, <2>2, Zenon DEF FieldSays
    <2> QED BY <1>5, <2>1, <2>2, <2>3, Zenon DEF SaysFieldEnd
  <1>6. ASSUME SaysFold(x, L, r, k, v), ~IsBlank(x[L + 1]), x[L + 1] \notin Ctl
        PROVE  SaysValue(x, L + 1, r, k, Append(v, x[L + 1]))
    <2>1. PICK p \in 1..L - 1 : SaysLines(x, p, r) /\ BlanksIn(x, p + 1, L) /\ k = <<>> /\ v = <<>>
      BY <1>2, <1>6
    <2>2. L \in p + 1..L + 1 /\ p \in 1..(L + 1) - 1 /\ PlainIn(x, L + 1, L + 1) /\ L + 1 \in p + 1..L + 1
      BY <1>6 DEF IsPlain
    <2>3. SubSeq(x, L + 1, L + 1) = Append(v, x[L + 1])
      <3>1. L + 1 \in 1..Len(x) /\ L \in (L + 1) - 1..Len(x) - 1
        OBVIOUS
      <3>2. SubSeq(x, L + 1, L + 1) = Append(SubSeq(x, L + 1, L), x[L + 1])
        BY <3>1, PartGrows
      <3> QED BY <1>4, <2>1, <3>2
    <2>4. FieldSays(x, p + 1, L + 1, k, Append(v, x[L + 1]))
      BY <1>6, <2>1, <2>2, <2>3, Zenon DEF FieldSays
    <2>5. ~BlanksIn(x, p + 1, L + 1)
      BY <1>6, <2>2
    <2> QED BY <2>1, <2>2, <2>4, <2>5, Zenon DEF SaysValue
  <1> QED BY <1>1, <1>3, <1>5, <1>6, Zenon

\* The text of a value.
LEMMA SayValue ==
  ASSUME NEW x \in Seq(Chars), NEW L \in 0..Len(x) - 1, NEW r, NEW k, NEW v, SaysValue(x, L, r, k, v)
  PROVE  /\ x[L + 1] \notin Ctl => SaysValue(x, L + 1, r, k, Append(v, x[L + 1]))
         /\ x[L + 1] = "cr" => SaysFieldEnd(x, L + 1, r, k, v)
  <1> DEFINE c == x[L + 1]
  <1>1. PICK p \in 1..L - 1 :
          SaysLines(x, p, r) /\ FieldSays(x, p + 1, L, k, v) /\ ~BlanksIn(x, p + 1, L)
    BY Zenon DEF SaysValue
  <1>2. p \in 1..(L + 1) - 2 /\ (L + 1) - 1 = L /\ p \in 1..(L + 1) - 1
    OBVIOUS
  <1>3. c = "cr" => SaysFieldEnd(x, L + 1, r, k, v)
    BY <1>1, <1>2, Zenon DEF SaysFieldEnd
  <1>4. ~BlanksIn(x, p + 1, L + 1)
    BY <1>1
  <1>5. ASSUME NEW n \in 0..L PROVE SubSeq(x, n + 1, L + 1) = Append(SubSeq(x, n + 1, L), c)
    <2>1. n + 1 \in 1..Len(x) /\ L \in (n + 1) - 1..Len(x) - 1
      OBVIOUS
    <2> QED BY <2>1, PartGrows
  <1>6. ASSUME c \notin Ctl PROVE FieldSays(x, p + 1, L + 1, k, Append(v, c))
    <2>1. CASE \E n \in (p + 1) + 1..L - 1 :
                 /\ NamesIn(x, p + 1, n - 1) /\ x[n] = ":" /\ x[n + 1] = "sp" /\ PlainIn(x, n + 2, L)
                 /\ k = SubSeq(x, p + 1, n - 1) /\ v = SubSeq(x, n + 2, L)
      <3>1. PICK n \in (p + 1) + 1..L - 1 :
              /\ NamesIn(x, p + 1, n - 1) /\ x[n] = ":" /\ x[n + 1] = "sp" /\ PlainIn(x, n + 2, L)
              /\ k = SubSeq(x, p + 1, n - 1) /\ v = SubSeq(x, n + 2, L)
        BY <2>1, Zenon
      <3>2. n \in (p + 1) + 1..(L + 1) - 1 /\ n + 1 \in 0..L /\ (n + 1) + 1 = n + 2
        OBVIOUS
      <3>3. PlainIn(x, n + 2, L + 1)
        <4>1. \A i \in n + 2..L + 1 : i \in n + 2..L \/ i = L + 1
          OBVIOUS
        <4>2. IsPlain(c)
          BY <1>6 DEF IsPlain
        <4> QED BY <3>1, <4>1, <4>2
      <3>4. Append(v, c) = SubSeq(x, n + 2, L + 1)
        BY <1>5, <3>1, <3>2
      <3> QED BY <3>1, <3>2, <3>3, <3>4, Zenon DEF FieldSays
    <2>2. CASE \E n \in p + 1..L :
                 /\ BlanksIn(x, p + 1, n) /\ PlainIn(x, n + 1, L) /\ (n = L \/ ~IsBlank(x[n + 1]))
                 /\ k = <<>> /\ v = SubSeq(x, n + 1, L)
      <3>1. PICK n \in p + 1..L :
              /\ BlanksIn(x, p + 1, n) /\ PlainIn(x, n + 1, L) /\ (n = L \/ ~IsBlank(x[n + 1]))
              /\ k = <<>> /\ v = SubSeq(x, n + 1, L)
        BY <2>2, Zenon
      <3>2. n \in p + 1..L + 1 /\ n \in 0..L /\ n # L
        BY <1>1, <3>1
      <3>3. PlainIn(x, n + 1, L + 1)
        BY <1>6, <3>1 DEF IsPlain
      <3>4. Append(v, c) = SubSeq(x, n + 1, L + 1)
        BY <1>5, <3>1, <3>2
      <3> QED BY <3>1, <3>2, <3>3, <3>4, Zenon DEF FieldSays
    <2> QED BY <1>1, <2>1, <2>2, Zenon DEF FieldSays
  <1>7. c \notin Ctl => SaysValue(x, L + 1, r, k, Append(v, c))
    BY <1>1, <1>2, <1>4, <1>6, Zenon DEF SaysValue
  <1> QED BY <1>3, <1>7

\* The line of a header that was read is the field that was filled in.
LEMMA SayLine ==
  ASSUME NEW x \in Seq(Chars), NEW L \in Nat, L + 1 <= Len(x), NEW r, NEW k, NEW v,
         SaysFieldEnd(x, L, r, k, v), AtFieldEnd(x, L), x[L + 1] = "lf",
         NEW q, q.uri_ = r.uri_, q.major = r.major, q.minor = r.minor,
         q.headers_ = PutHeader(r.headers_, k, v)
  PROVE  SaysLines(x, L + 1, q)
  <1>1. PICK p \in 1..L - 2 : SaysLines(x, p, r) /\ FieldSays(x, p + 1, L - 1, k, v) /\ x[L] = "cr"
    BY Zenon DEF SaysFieldEnd
  <1>2. PICK n \in 1..L - 2 : LinesTo(x, n) /\ FieldTo(x, n + 1, L - 1)
    BY Zenon DEF AtFieldEnd
  <1>3. x[p] = "lf" /\ x[n] = "lf"
    <2>1. LinesTo(x, p)
      BY <1>1, Zenon DEF SaysLines
    <2> QED BY <1>2, <2>1, LinesEnd
  <1>4. \A i \in n + 1..L - 1 : x[i] # "lf"
    <2>1. n + 1 \in Nat /\ L - 1 \in Int
      OBVIOUS
    <2> QED BY <1>2, <2>1, NoBreakInField
  <1>5. \A i \in p + 1..L - 1 : x[i] # "lf"
    <2>1. CASE \E m \in (p + 1) + 1..(L - 1) - 1 :
                 /\ NamesIn(x, p + 1, m - 1) /\ x[m] = ":" /\ x[m + 1] = "sp" /\ PlainIn(x, m + 2, L - 1)
      <3>1. PICK m \in (p + 1) + 1..(L - 1) - 1 :
              /\ NamesIn(x, p + 1, m - 1) /\ x[m] = ":" /\ x[m + 1] = "sp" /\ PlainIn(x, m + 2, L - 1)
        BY <2>1, Zenon
      <3> TAKE i \in p + 1..L - 1
      <3>2. i \in p + 1..m - 1 \/ i = m \/ i = m + 1 \/ i \in m + 2..L - 1
        OBVIOUS
      <3> QED BY <3>1, <3>2, Classes
    <2>2. CASE \E m \in p + 1..L - 1 : BlanksIn(x, p + 1, m) /\ PlainIn(x, m + 1, L - 1)
      <3>1. PICK m \in p + 1..L - 1 : BlanksIn(x, p + 1, m) /\ PlainIn(x, m + 1, L - 1)
        BY <2>2, Zenon
      <3> TAKE i \in p + 1..L - 1
      <3>2. i \in p + 1..m \/ i \in m + 1..L - 1
        OBVIOUS
      <3> QED BY <3>1, <3>2, Classes
    <2> QED BY <1>1, <2>1, <2>2, Zenon DEF FieldSays
  <1>6. n = p
    BY <1>3, <1>4, <1>5
  <1> QED BY <1>1, <1>2, <1>6, SayField

-----------------------------------------------------------------------------
(* What is parsed when the bytes that were read do not end a line. *)

\* The last part of a sequence ends its concatenation.
LEMMA FlattenIs ==
  ASSUME NEW f \in Seq(Seq(Chars)), NEW n \in Nat, n = Len(f), n # 0
  PROVE  IF n = 1 THEN FlattenSeq(f) = f[1]
                  ELSE \E w \in Seq(Chars) : FlattenSeq(f) = w \o f[n]
  <1> DEFINE e == SubSeq(f, 1, n - 1)
  <1>1. /\ e \in Seq(Seq(Chars)) /\ Len(f) = Len(e) + 1 /\ Len(e) = n - 1
        /\ \A i \in 1..Len(e) : e[i] = f[i]
    OBVIOUS
  <1>2. FlattenSeq(f) = FlattenSeq(e) \o f[n] /\ FlattenSeq(e) \in Seq(Chars) /\ f[n] \in Seq(Chars)
    <2> HIDE DEF e
    <2>1. f[n] \in Seq(Chars)
      OBVIOUS
    <2> QED BY <1>1, <2>1, FlattenLast, FlattenType
  <1>3. n = 1 => FlattenSeq(e) = <<>>
    <2> HIDE DEF e
    <2> SUFFICES ASSUME n = 1 PROVE FlattenSeq(e) = <<>>
      OBVIOUS
    <2>1. Len(e) = 0 /\ e = <<>>
      BY <1>1
    <2> QED BY <2>1, FlattenEmpty
  <1>4. n = 1 => FlattenSeq(f) = f[1]
    <2> HIDE DEF e
    <2> QED BY <1>2, <1>3
  <1> QED BY <1>2, <1>4

\* Truncated leaves a text that ends in a line feed, or one character.
LEMMA TruncatedIs ==
  ASSUME NEW b \in Seq(Chars), b # <<>>
  PROVE  /\ Truncated(b) \in Seq(Chars) /\ Len(Truncated(b)) >= 1
         /\ Truncated(b)[Len(Truncated(b))] = "lf" \/ Len(Truncated(b)) = 1
  <1> DEFINE W == Where(b, "lf")
  <1>1. W \in SUBSET (1..Len(b)) /\ \A n \in W : b[n] = "lf"
    BY DEF Where
  <1>2. Len(b) >= 1 /\ Len(b) \in Nat
    OBVIOUS
  <1> HIDE DEF W
  <1>3. CASE W = {}
    <2>1. Truncated(b) = SubSeq(b, 1, 1)
      BY <1>3 DEF Truncated, W
    <2> QED BY <2>1, <1>2, Part
  <1>4. CASE W # {}
    <2> DEFINE m == Max(W)
    <2>1. W \in SUBSET (0..Len(b))
      BY <1>1
    <2>2. m \in W
      BY <1>2, <1>4, <2>1, MaxGreatest
    <2>3. Truncated(b) = SubSeq(b, 1, m)
      BY <1>4 DEF Truncated, W
    <2> HIDE DEF m
    <2>4. m \in 1..Len(b) /\ b[m] = "lf"
      BY <1>1, <2>2
    <2>5. /\ SubSeq(b, 1, m) \in Seq(Chars) /\ Len(SubSeq(b, 1, m)) = m
          /\ SubSeq(b, 1, m)[m] = b[m]
      <3>1. 1 \in 1..Len(b) + 1 /\ m \in 1 - 1..Len(b) /\ m - 1 + 1 = m /\ 1 + m - 1 = m
        BY <2>4
      <3>2. m \in 1..m - 1 + 1
        BY <2>4
      <3> QED BY <3>1, <3>2, Part
    <2> QED BY <2>3, <2>4, <2>5
  <1> QED BY <1>3, <1>4

LEMMA WithLineEnd ==
  ASSUME NEW w \in Seq(Chars)
  PROVE  /\ w \o CrLf \in Seq(Chars) /\ Len(w \o CrLf) = Len(w) + 2
         /\ \A i \in 1..Len(w) : (w \o CrLf)[i] = w[i]
         /\ (w \o CrLf)[Len(w) + 1] = "cr" /\ (w \o CrLf)[Len(w) + 2] = "lf"
  <1>1. CrLf \in Seq(Chars) /\ Len(CrLf) = 2 /\ CrLf[1] = "cr" /\ CrLf[2] = "lf"
    BY Classes DEF CrLf
  <1>2. /\ w \o CrLf \in Seq(Chars) /\ Len(w \o CrLf) = Len(w) + Len(CrLf)
        /\ \A i \in 1..Len(w) + Len(CrLf) :
             (w \o CrLf)[i] = IF i <= Len(w) THEN w[i] ELSE CrLf[i - Len(w)]
    BY <1>1, ConcatProperties
  <1>3. Len(w) \in Nat
    OBVIOUS
  <1> DEFINE n == Len(w)
             u == w \o CrLf
  <1> HIDE DEF n, u
  <1>4. n \in Nat /\ Len(u) = n + 2 /\ \A i \in 1..n + 2 : u[i] = IF i <= n THEN w[i] ELSE CrLf[i - n]
    BY <1>1, <1>2, <1>3 DEF n, u
  <1>5. u[n + 1] = CrLf[1] /\ u[n + 2] = CrLf[2]
    <2>1. /\ n + 1 \in 1..n + 2 /\ ~(n + 1 <= n) /\ (n + 1) - n = 1
          /\ n + 2 \in 1..n + 2 /\ ~(n + 2 <= n) /\ (n + 2) - n = 2
      BY <1>4
    <2> QED BY <2>1, <1>4
  <1>6. \A i \in 1..n : u[i] = w[i]
    BY <1>4
  <1> QED BY <1>1, <1>2, <1>4, <1>5, <1>6 DEF n, u

\* Formatted text ends in a line end, and in an empty line when the text it
\* comes from ended in a line feed.
LEMMA FormattedIs ==
  ASSUME NEW b \in Seq(Chars), b # <<>>, b[Len(b)] = "lf" \/ Len(b) = 1
  PROVE  /\ Formatted(b) \in Seq(Chars) /\ Len(Formatted(b)) >= 1
         /\ Formatted(b)[Len(Formatted(b))] = "lf"
         /\ ~LinesTo(Formatted(b), Len(Formatted(b)))
  <1> DEFINE f == [n \in DOMAIN b |-> IF b[n] = "lf" THEN CrLf ELSE <<b[n]>>]
             n == Len(b)
             F == Formatted(b)
  <1>1. n \in Nat /\ n # 0 /\ n >= 1
    OBVIOUS
  <1>2. CrLf \in Seq(Chars) /\ Len(CrLf) = 2 /\ CrLf[1] = "cr" /\ CrLf[2] = "lf"
    BY Classes DEF CrLf
  <1>3. \A i \in 1..n : f[i] \in Seq(Chars) /\ (b[i] = "lf" => f[i] = CrLf) /\ (b[i] # "lf" => f[i] = <<b[i]>>)
    BY <1>2
  <1>4. n = Len(f)
    OBVIOUS
  <1>5. f \in Seq(Seq(Chars))
    <2>1. f = [i \in 1..n |-> f[i]]
      OBVIOUS
    <2> HIDE DEF f, n
    <2> QED BY <1>1, <1>3, <2>1
  <1>6. F = FlattenSeq(f) \o CrLf
    BY DEF Formatted
  <1> HIDE DEF f, n, F
  <1>7. IF n = 1 THEN FlattenSeq(f) = f[1]
                 ELSE \E w \in Seq(Chars) : FlattenSeq(f) = w \o f[n]
    BY <1>1, <1>4, <1>5, FlattenIs
  <1>8. CASE b[n] = "lf"
    <2>1. f[n] = CrLf /\ (n = 1 => f[1] = CrLf)
      BY <1>1, <1>3, <1>8
    <2>2. PICK w \in Seq(Chars) : FlattenSeq(f) = w \o CrLf
      <3>1. CASE n = 1
        <4>1. FlattenSeq(f) = <<>> \o CrLf /\ <<>> \in Seq(Chars)
          BY <1>2, <1>7, <2>1, <3>1
        <4> QED BY <4>1
      <3>2. CASE n # 1
        BY <1>7, <2>1, <3>2
      <3> QED BY <3>1, <3>2
    <2>3. F = (w \o CrLf) \o CrLf
      BY <1>6, <2>2
    <2> DEFINE k == Len(w)
    <2>4. /\ F \in Seq(Chars) /\ Len(F) = k + 4 /\ k \in Nat
          /\ F[k + 1] = "cr" /\ F[k + 2] = "lf" /\ F[k + 3] = "cr" /\ F[k + 4] = "lf"
      <3> DEFINE u == w \o CrLf
      <3>1. /\ u \in Seq(Chars) /\ Len(u) = k + 2 /\ u[k + 1] = "cr" /\ u[k + 2] = "lf"
        BY WithLineEnd
      <3> HIDE DEF u
      <3>2. F = u \o CrLf
        BY <2>3 DEF u
      <3>3. /\ F \in Seq(Chars) /\ Len(F) = Len(u) + 2 /\ \A i \in 1..Len(u) : F[i] = u[i]
            /\ F[Len(u) + 1] = "cr" /\ F[Len(u) + 2] = "lf"
        BY <3>1, <3>2, WithLineEnd
      <3>4. k \in Nat
        OBVIOUS
      <3> HIDE DEF k
      <3>5. k + 1 \in 1..Len(u) /\ k + 2 \in 1..Len(u) /\ Len(u) + 2 = k + 4 /\ Len(u) + 1 = k + 3
        BY <3>1, <3>4
      <3> QED BY <3>1, <3>3, <3>4, <3>5
    <2> HIDE DEF k
    <2>5. CrLfAt(F, Len(F) - 3)
      <3>1. Len(F) - 3 = k + 1 /\ (k + 1) + 1 = k + 2
        BY <2>4
      <3> QED BY <3>1, <2>4 DEF CrLfAt
    <2>6. ~LinesTo(F, Len(F))
      <3>1. Len(F) \in Nat /\ Len(F) >= 4
        BY <2>4
      <3> QED BY <3>1, <2>5, NoLineAfterEmpty
    <2> QED BY <2>4, <2>6 DEF F
  <1>9. CASE b[n] # "lf"
    <2>1. n = 1 /\ b[1] \in Chars /\ f[1] = <<b[1]>>
      BY <1>1, <1>3, <1>9 DEF n
    <2>2. F = <<b[1]>> \o CrLf
      BY <1>6, <1>7, <2>1
    <2>3. F \in Seq(Chars) /\ Len(F) = 3 /\ F[3] = "lf"
      <3>1. <<b[1]>> \in Seq(Chars) /\ Len(<<b[1]>>) = 1 /\ 1 + 2 = 3
        BY <2>1
      <3> DEFINE w == <<b[1]>>
      <3> HIDE DEF w
      <3>2. w \in Seq(Chars) /\ Len(w) = 1 /\ F = w \o CrLf
        BY <3>1, <2>2 DEF w
      <3>3. w \o CrLf \in Seq(Chars) /\ Len(w \o CrLf) = Len(w) + 2 /\ (w \o CrLf)[Len(w) + 2] = "lf"
        BY <3>2, WithLineEnd
      <3> QED BY <3>1, <3>2, <3>3
    <2>4. ~LinesTo(F, 3)
      <3> SUFFICES ASSUME LinesTo(F, 3) PROVE FALSE
        OBVIOUS
      <3>1. PICK e \in Nat : RequestLineTo(F, e) /\ e + 2 <= 3
        BY Zenon DEF LinesTo
      <3>2. e > 8
        BY <3>1, NoBreakInRequestLine
      <3> QED BY <3>1, <3>2
    <2> QED BY <2>3, <2>4 DEF F
  <1> QED BY <1>8, <1>9

-----------------------------------------------------------------------------
(* The inductive invariant: what the automaton has read, and what a reject  *)
(* has decided.                                                            *)

Request == [uri_ : Seq(Chars), headers_ : Headers, major : Int, minor : Int]

TypeOK ==
  /\ raw \in Seq(Chars) /\ raw # <<>>
  /\ text \in Seq(Chars) /\ pos \in 0..Len(text)
  /\ passes \in 0..2 /\ phase \in {"read", "parse", "done", "thrown"}
  /\ state_ \in States /\ result \in {"indeterminate", "good", "bad"}
  /\ req \in Request /\ temp_key \in Seq(Chars) /\ temp_value \in Seq(Chars)

\* The bytes that are parsed.
TextOf(b) == IF EndsLine(b) THEN b ELSE Formatted(Truncated(b))

\* No text that begins with the first L characters of x is a request.
Dead(x, L) ==
  \A y \in Seq(Chars) : Len(y) >= L /\ (\A i \in 1..L : y[i] = x[i]) => ~RequestAll(y)

\* The line that the Lth character of x is in, or that follows it, starts after p.
LineStart(x, p, L) == p \in 0..L /\ (p = 0 \/ x[p] = "lf") /\ \A i \in p + 1..L : x[i] # "lf"

\* A header is stored exactly when a header line was read before this one.
HeadersSeen ==
  /\ \A p \in 0..pos : LineStart(text, p, pos) => (DOMAIN req.headers_ # {} <=> Later(text, p))
  /\ state_ = "header_line_start" => temp_key = <<>>

Unread ==
  passes = 0 =>
    /\ phase \in {"read", "thrown"} /\ data_ = raw
    /\ state_ = "method_start" /\ req = NoRequest /\ result = "indeterminate"
    /\ temp_key = <<>> /\ temp_value = <<>>

BeingRead ==
  passes >= 1 =>
    /\ phase # "thrown" /\ text = TextOf(raw)
    /\ EndsLine(raw) => data_ = raw
    /\ phase = "done" => result # "indeterminate"
    /\ phase = "read" => passes = 1 /\ EndsLine(raw) /\ pos = Len(text) /\ result = "indeterminate"

FirstPass ==
  passes = 1 =>
    /\ result = "indeterminate" => Viable(state_, text, pos) /\ HeadersSeen
    /\ result = "good" => RequestAll(Consumed)
    /\ result = "bad" => Dead(text, pos)

\* The second pass takes the method for the name of a header, and fails at the
\* blank that ends it.
SecondPass ==
  passes = 2 =>
    /\ EndsLine(raw) /\ result # "good"
    /\ \E a \in 1..Len(text) :
         /\ MethodTo(text, a)
         /\ result = "indeterminate" =>
              /\ pos < a
              /\ state_ = IF pos = 0 THEN "header_line_start" ELSE "header_name"

Inv == TypeOK /\ Unread /\ BeingRead /\ FirstPass /\ SecondPass

-----------------------------------------------------------------------------
(* What a step of the automaton does. *)

LEMMA TwoNumbers ==
  ASSUME NEW r \in Request, NEW u, NEW w
  PROVE  [r EXCEPT !.major = u, !.minor = w] =
           [uri_ |-> r.uri_, headers_ |-> r.headers_, major |-> u, minor |-> w]
  <1> DEFINE s == [r EXCEPT !.major = u]
  <1>1. s = [uri_ |-> r.uri_, headers_ |-> r.headers_, major |-> u, minor |-> r.minor]
    BY DEF Request
  <1> HIDE DEF s
  <1>2. [s EXCEPT !.minor = w] =
          [uri_ |-> r.uri_, headers_ |-> r.headers_, major |-> u, minor |-> w]
    BY <1>1
  <1> QED BY <1>2 DEF s

LEMMA RequestFields ==
  ASSUME NEW r \in Request, NEW v, NEW u, NEW w
  PROVE  /\ r.uri_ \in Seq(Chars) /\ r.headers_ \in Headers /\ r.major \in Int /\ r.minor \in Int
         /\ r = [uri_ |-> r.uri_, headers_ |-> r.headers_, major |-> r.major, minor |-> r.minor]
         /\ [r EXCEPT !.uri_ = v] =
              [uri_ |-> v, headers_ |-> r.headers_, major |-> r.major, minor |-> r.minor]
         /\ [r EXCEPT !.headers_ = v] =
              [uri_ |-> r.uri_, headers_ |-> v, major |-> r.major, minor |-> r.minor]
         /\ [r EXCEPT !.major = v] =
              [uri_ |-> r.uri_, headers_ |-> r.headers_, major |-> v, minor |-> r.minor]
         /\ [r EXCEPT !.minor = v] =
              [uri_ |-> r.uri_, headers_ |-> r.headers_, major |-> r.major, minor |-> v]
         /\ [r EXCEPT !.major = u, !.minor = w] =
              [uri_ |-> r.uri_, headers_ |-> r.headers_, major |-> u, minor |-> w]
  <1>1. r.uri_ \in Seq(Chars) /\ r.headers_ \in Headers /\ r.major \in Int /\ r.minor \in Int
    BY DEF Request
  <1>2. r = [uri_ |-> r.uri_, headers_ |-> r.headers_, major |-> r.major, minor |-> r.minor]
    BY DEF Request
  <1>3. [r EXCEPT !.uri_ = v] =
          [uri_ |-> v, headers_ |-> r.headers_, major |-> r.major, minor |-> r.minor]
    BY DEF Request
  <1>4. [r EXCEPT !.headers_ = v] =
          [uri_ |-> r.uri_, headers_ |-> v, major |-> r.major, minor |-> r.minor]
    BY DEF Request
  <1>5. [r EXCEPT !.major = v] =
          [uri_ |-> r.uri_, headers_ |-> r.headers_, major |-> v, minor |-> r.minor]
    BY DEF Request
  <1>6. [r EXCEPT !.minor = v] =
          [uri_ |-> r.uri_, headers_ |-> r.headers_, major |-> r.major, minor |-> v]
    BY DEF Request
  <1>7. [r EXCEPT !.major = u, !.minor = w] =
          [uri_ |-> r.uri_, headers_ |-> r.headers_, major |-> u, minor |-> w]
    BY TwoNumbers
  <1> QED BY <1>1, <1>2, <1>3, <1>4, <1>5, <1>6, <1>7, Zenon

LEMMA ConsumeMoves ==
  ASSUME NEW c \in Chars, state_ \in States, result = "indeterminate", consume(c)
  PROVE  /\ state_' \in States
         /\ \/ result' = "indeterminate" /\ Moves(state_, c, DOMAIN req.headers_ # {}, state_')
            \/ result' = "good" /\ state_ = "expecting_newline_3" /\ c = "lf"
            \/ result' = "bad" /\ ~Wanted(state_, c, DOMAIN req.headers_ # {})
  <1> DEFINE later == DOMAIN req.headers_ # {}
  <1> HIDE DEF later
  <1> SUFFICES /\ state_' \in States
               /\ \/ result' = "indeterminate" /\ Moves(state_, c, later, state_')
                  \/ result' = "good" /\ state_ = "expecting_newline_3" /\ c = "lf"
                  \/ result' = "bad" /\ ~Wanted(state_, c, later)
    BY DEF later
  <1>1. CASE Method(c)
    BY <1>1 DEF Method, Go, Reject, Moves, Wanted, States
  <1>2. CASE Uri(c)
    BY <1>2, Literals DEF Uri, Go, Reject, Moves, Wanted, States
  <1>3. CASE ExpectLiteral(c)
    <2>1. CASE c = Literal[state_] /\ Go(AfterLiteral[state_])
      <3>1. AfterLiteral[state_] \in States
        BY <1>3, Literals DEF ExpectLiteral, States
      <3> QED BY <1>3, <2>1, <3>1 DEF ExpectLiteral, Go, Moves
    <2>2. CASE c # Literal[state_] /\ Reject
      <3>1. ~Wanted(state_, c, later)
        BY <1>3, <2>2, Literals DEF ExpectLiteral, Wanted
      <3> QED BY <2>2, <3>1 DEF Reject
    <2> QED BY <1>3, <2>1, <2>2 DEF ExpectLiteral
  <1>4. CASE Major(c)
    BY <1>4 DEF Major, Go, Reject, Moves, Wanted, States
  <1>5. CASE Minor(c)
    BY <1>5, Literals DEF Minor, Go, Reject, Moves, Wanted, States
  <1>6. CASE HeaderLineStart(c)
    BY <1>6 DEF HeaderLineStart, Go, Reject, Moves, Wanted, States, later
  <1>7. CASE HeaderName(c)
    BY <1>7, Literals DEF HeaderName, Go, Reject, Moves, Wanted, States
  <1>8. CASE HeaderText(c)
    BY <1>8, Literals DEF HeaderText, Go, Reject, Moves, Wanted, States
  <1>9. CASE ExpectNewline3(c)
    <2>1. state_' = state_ /\ state_ = "expecting_newline_3"
          /\ result' = IF c = "lf" THEN "good" ELSE "bad"
      BY <1>9 DEF ExpectNewline3
    <2>2. c # "lf" => ~Wanted(state_, c, later)
      BY <2>1 DEF Wanted
    <2> QED BY <2>1, <2>2
  <1> QED BY <1>1, <1>2, <1>3, <1>4, <1>5, <1>6, <1>7, <1>8, <1>9 DEF consume

LEMMA PutHeaderIs ==
  ASSUME NEW h \in Headers, NEW k \in Seq(Chars), NEW v \in Seq(Chars)
  PROVE  PutHeader(h, k, v) \in Headers /\ DOMAIN PutHeader(h, k, v) = DOMAIN h \cup {k}
  <1>1. PICK K \in SUBSET Seq(Chars) : h \in [K -> Seq(Chars)]
    BY DEF Headers
  <1>2. PutHeader(h, k, v) \in [K \cup {k} -> Seq(Chars)] /\ K \cup {k} \in SUBSET Seq(Chars)
    BY <1>1 DEF PutHeader
  <1> QED BY <1>1, <1>2 DEF Headers

LEMMA ConsumeTypes ==
  ASSUME NEW c \in Chars, TypeOK, consume(c)
  PROVE  /\ result' \in {"indeterminate", "good", "bad"} /\ req' \in Request
         /\ temp_key' \in Seq(Chars) /\ temp_value' \in Seq(Chars)
         /\ state_ = "expecting_newline_2" /\ result' = "indeterminate" => DOMAIN req'.headers_ # {}
         /\ state_ # "expecting_newline_2" /\ (state_ = "header_line_start" => temp_key = <<>>) =>
              req'.headers_ = req.headers_
         /\ state_ \in {"expecting_newline_1", "expecting_newline_2"} /\ result' = "indeterminate" =>
              temp_key' = <<>>
  <1>1. /\ req \in Request /\ temp_key \in Seq(Chars) /\ temp_value \in Seq(Chars)
        /\ state_ \in States /\ result \in {"indeterminate", "good", "bad"}
    BY DEF TypeOK
  <1>2. /\ req.uri_ \in Seq(Chars) /\ req.headers_ \in Headers /\ req.major \in Int /\ req.minor \in Int
    BY <1>1, RequestFields
  <1>3. Append(temp_key, c) \in Seq(Chars) /\ Append(temp_value, c) \in Seq(Chars)
        /\ Append(req.uri_, c) \in Seq(Chars) /\ <<>> \in Seq(Chars)
    BY <1>1, <1>2
  <1>4. /\ PutHeader(req.headers_, temp_key, temp_value) \in Headers
        /\ DOMAIN PutHeader(req.headers_, temp_key, temp_value) = DOMAIN req.headers_ \cup {temp_key}
    BY <1>1, <1>2, PutHeaderIs
  <1>5. ASSUME NEW n \in Int, IsDigit(c) PROVE Accumulated(n, c) \in Int
    <2>1. DigitValue[c] \in 0..9 /\ MaxInt \in Nat
      BY <1>5, ParserAssumption DEF IsDigit, ParserAssumption
    <2> QED BY <2>1 DEF Accumulated
  <1> DEFINE Fields(r) == r \in Request /\ r.headers_ = req.headers_
  <1>6. Fields(req)
    BY <1>1
  <1>7. CASE Method(c)
    BY <1>1, <1>6, <1>7 DEF Method, Go, Reject, Keep
  <1>8. CASE Uri(c)
    <2>1. ASSUME req' = [req EXCEPT !.uri_ = Append(@, c)] PROVE Fields(req')
      BY <1>1, <1>2, <1>3, <2>1, RequestFields DEF Request
    <2> HIDE DEF Fields
    <2>2. Fields(req')
      BY <1>6, <1>8, <2>1 DEF Uri, Keep, Reject
    <2> USE DEF Fields
    <2> QED BY <1>1, <1>8, <2>2 DEF Uri, Go, Reject, Keep
  <1>9. CASE ExpectLiteral(c)
    <2>1. CASE c # Literal[state_] /\ Reject
      BY <1>1, <1>6, <2>1 DEF Reject
    <2>2. CASE c = Literal[state_] /\ Go(AfterLiteral[state_]) /\ OnLiteral
      <3>1. result' = "indeterminate" /\ OnLiteral
        BY <2>2 DEF Go
      <3>2. CASE state_ = "http_version_slash"
        <4>1. req' = [req EXCEPT !.major = 0, !.minor = 0] /\ UNCHANGED <<temp_key, temp_value>>
          BY <3>1, <3>2 DEF OnLiteral
        <4>2. Fields(req')
          <5>1. req' = [uri_ |-> req.uri_, headers_ |-> req.headers_, major |-> 0, minor |-> 0]
            BY <1>1, <4>1, RequestFields, Zenon
          <5>2. 0 \in Int
            OBVIOUS
          <5> QED BY <1>2, <5>1, <5>2 DEF Request
        <4> QED BY <1>1, <3>1, <3>2, <4>1, <4>2
      <3>3. CASE state_ = "expecting_newline_1"
        <4>1. UNCHANGED req /\ temp_key' = <<>> /\ temp_value' = <<>>
          BY <3>1, <3>3 DEF OnLiteral
        <4> QED BY <1>1, <1>3, <1>6, <3>1, <3>3, <4>1
      <3>4. CASE state_ = "expecting_newline_2"
        <4>1. req' = [req EXCEPT !.headers_ = PutHeader(@, temp_key, temp_value)]
              /\ temp_key' = <<>> /\ temp_value' = <<>>
          BY <3>1, <3>4 DEF OnLiteral
        <4>2. req' \in Request /\ DOMAIN req'.headers_ # {}
          BY <1>1, <1>2, <1>4, <4>1, RequestFields DEF Request
        <4> QED BY <1>1, <1>3, <3>1, <3>4, <4>1, <4>2
      <3>5. CASE state_ \notin {"http_version_slash", "expecting_newline_1", "expecting_newline_2"}
        <4>1. Keep
          BY <3>1, <3>5 DEF OnLiteral
        <4> QED BY <1>1, <1>6, <3>1, <3>5, <4>1 DEF Keep
      <3> QED BY <3>2, <3>3, <3>4, <3>5
    <2> QED BY <1>9, <2>1, <2>2 DEF ExpectLiteral
  <1>10. CASE Major(c)
    <2>1. ASSUME IsDigit(c), req' = [req EXCEPT !.major = Accumulated(@, c)] PROVE Fields(req')
      <3>1. Accumulated(req.major, c) \in Int
        BY <1>2, <1>5, <2>1
      <3> QED BY <1>1, <1>2, <2>1, <3>1, RequestFields DEF Request
    <2> HIDE DEF Fields
    <2>2. Fields(req')
      BY <1>6, <1>10, <2>1 DEF Major, Keep, Reject
    <2> USE DEF Fields
    <2> QED BY <1>1, <1>10, <2>2 DEF Major, Go, Reject, Keep
  <1>11. CASE Minor(c)
    <2>1. ASSUME IsDigit(c), req' = [req EXCEPT !.minor = Accumulated(@, c)] PROVE Fields(req')
      <3>1. Accumulated(req.minor, c) \in Int
        BY <1>2, <1>5, <2>1
      <3> QED BY <1>1, <1>2, <2>1, <3>1, RequestFields DEF Request
    <2> HIDE DEF Fields
    <2>2. Fields(req')
      BY <1>6, <1>11, <2>1 DEF Minor, Keep, Reject
    <2> USE DEF Fields
    <2> QED BY <1>1, <1>11, <2>2 DEF Minor, Go, Reject, Keep
  <1>12. CASE HeaderLineStart(c)
    <2>1. CASE temp_key # <<>> /\ c = "cr"
      <3>1. req' = [req EXCEPT !.headers_ = PutHeader(@, temp_key, temp_value)]
            /\ temp_key' = <<>> /\ temp_value' = <<>> /\ result' = "indeterminate"
            /\ state_ = "header_line_start"
        BY <1>12, <2>1, Classes DEF HeaderLineStart, Go
      <3>2. req' \in Request
        BY <1>1, <1>2, <1>4, <3>1, RequestFields DEF Request
      <3> QED BY <1>3, <2>1, <3>1, <3>2
    <2>2. CASE ~(temp_key # <<>> /\ c = "cr")
      BY <1>1, <1>3, <1>6, <1>12, <2>2, Classes DEF HeaderLineStart, Go, Reject, Keep
    <2> QED BY <2>1, <2>2
  <1>13. CASE HeaderName(c)
    BY <1>1, <1>3, <1>6, <1>13 DEF HeaderName, Go, Reject, Keep
  <1>14. CASE HeaderText(c)
    BY <1>1, <1>3, <1>6, <1>14 DEF HeaderText, Go, Reject, Keep
  <1>15. CASE ExpectNewline3(c)
    BY <1>1, <1>6, <1>15 DEF ExpectNewline3, Keep
  <1> QED BY <1>7, <1>8, <1>9, <1>10, <1>11, <1>12, <1>13, <1>14, <1>15 DEF consume

-----------------------------------------------------------------------------
(* The invariant is inductive. *)

LEMMA TextOfIs ==
  ASSUME NEW b \in Seq(Chars), b # <<>>
  PROVE  /\ TextOf(b) \in Seq(Chars) /\ Len(TextOf(b)) >= 1 /\ TextOf(b)[Len(TextOf(b))] = "lf"
         /\ EndsLine(b) \/ ~LinesTo(TextOf(b), Len(TextOf(b)))
  <1>1. CASE EndsLine(b)
    <2>1. TextOf(b) = b /\ Len(b) \in Nat /\ Len(b) >= 2 /\ Len(b) - 1 \in 1..Len(b) - 1
          /\ (Len(b) - 1) + 1 = Len(b)
      BY <1>1 DEF TextOf, EndsLine
    <2>2. SubSeq(b, Len(b) - 1, (Len(b) - 1) + 1) = CrLf
      BY <1>1, <2>1 DEF EndsLine
    <2>3. CrLfAt(b, Len(b) - 1)
      BY <2>1, <2>2, CrLfIs
    <2>4. b[Len(b)] = "lf"
      BY <2>1, <2>3 DEF CrLfAt
    <2> QED BY <1>1, <2>1, <2>4
  <1>2. CASE ~EndsLine(b)
    <2>1. TextOf(b) = Formatted(Truncated(b))
      BY <1>2 DEF TextOf
    <2>2. /\ Truncated(b) \in Seq(Chars) /\ Len(Truncated(b)) >= 1
          /\ Truncated(b)[Len(Truncated(b))] = "lf" \/ Len(Truncated(b)) = 1
      BY TruncatedIs
    <2> DEFINE u == Truncated(b)
    <2> HIDE DEF u
    <2>3. u \in Seq(Chars) /\ u # <<>> /\ (u[Len(u)] = "lf" \/ Len(u) = 1)
      BY <2>2 DEF u
    <2>4. /\ Formatted(u) \in Seq(Chars) /\ Len(Formatted(u)) >= 1
          /\ Formatted(u)[Len(Formatted(u))] = "lf"
          /\ ~LinesTo(Formatted(u), Len(Formatted(u)))
      BY <2>3, FormattedIs
    <2> QED BY <2>1, <2>4 DEF u
  <1> QED BY <1>1, <1>2

LEMMA NoRequestType == NoRequest \in Request /\ DOMAIN NoRequest.headers_ = {}
  <1>1. <<>> \in Headers
    <2>1. <<>> \in [{} -> Seq(Chars)]
      OBVIOUS
    <2>2. {} \in SUBSET Seq(Chars)
      OBVIOUS
    <2> QED BY <2>1, <2>2 DEF Headers
  <1> QED BY <1>1 DEF NoRequest, Request

LEMMA InitInv == Init => Inv
  <1> SUFFICES ASSUME Init PROVE Inv
    OBVIOUS
  <1>1. TypeOK
    <2>1. raw \in Seq(Chars) /\ raw # <<>>
      BY ReadAssumption DEF Init, ReadAssumption
    <2>2. text \in Seq(Chars) /\ pos \in 0..Len(text) /\ passes \in 0..2
      BY DEF Init
    <2>3. state_ \in States /\ req \in Request /\ temp_key \in Seq(Chars) /\ temp_value \in Seq(Chars)
          /\ result = "indeterminate" /\ phase = "read"
      BY NoRequestType DEF Init, InitParser, States
    <2> QED BY <2>1, <2>2, <2>3 DEF TypeOK
  <1>2. Unread
    BY DEF Init, InitParser, Unread
  <1>3. passes = 0
    BY DEF Init
  <1> QED BY <1>1, <1>2, <1>3 DEF Inv, BeingRead, FirstPass, SecondPass

LEMMA HandleRead == Inv /\ handle_read => Inv'
  <1> SUFFICES ASSUME Inv, handle_read PROVE Inv'
    OBVIOUS
  <1>1. TypeOK /\ Unread /\ BeingRead /\ FirstPass
    BY DEF Inv
  <1>2. /\ phase = "read" /\ pos' = 0 /\ passes' = passes + 1 /\ phase' = "parse"
        /\ raw' = raw /\ parser' = parser
    BY DEF handle_read
  <1>3. /\ state_' = state_ /\ req' = req /\ temp_key' = temp_key /\ temp_value' = temp_value
        /\ result' = result
    BY <1>2 DEF parser
  <1>4. passes \in {0, 1} /\ data_ = raw
    BY <1>1, <1>2 DEF TypeOK, Unread, BeingRead
  <1>5. SubSeq(data_, 1, Len(raw)) = raw
    <2>1. raw \in Seq(Chars)
      BY <1>1 DEF TypeOK
    <2> QED BY <1>4, <2>1
  <1>6. text' = TextOf(raw) /\ (EndsLine(raw) => data_' = raw)
    BY <1>4, <1>5 DEF handle_read, TextOf
  <1>7. /\ text' \in Seq(Chars) /\ Len(text') >= 1 /\ text'[Len(text')] = "lf"
    BY <1>1, <1>6, TextOfIs DEF TypeOK
  <1>8. TypeOK'
    BY <1>1, <1>2, <1>3, <1>4, <1>7 DEF TypeOK
  <1>9. CASE passes = 0
    <2>1. /\ state_ = "method_start" /\ req = NoRequest /\ result = "indeterminate"
          /\ temp_key = <<>>
      BY <1>1, <1>9 DEF Unread
    <2>2. Viable(state_', text', pos')
      BY <1>2, <1>3, <2>1 DEF Viable
    <2>3. HeadersSeen'
      <3>1. \A p \in 0..pos' : ~Later(text', p)
        BY <1>2 DEF Later
      <3>2. DOMAIN req'.headers_ = {}
        BY <1>3, <2>1, NoRequestType
      <3> QED BY <1>2, <1>3, <2>1, <3>1, <3>2 DEF HeadersSeen
    <2> QED BY <1>2, <1>3, <1>6, <1>8, <1>9, <2>1, <2>2, <2>3
            DEF Inv, Unread, BeingRead, FirstPass, SecondPass
  <1>10. CASE passes = 1
    <2>1. EndsLine(raw) /\ pos = Len(text) /\ result = "indeterminate" /\ text = TextOf(raw)
      BY <1>1, <1>2, <1>10 DEF BeingRead
    <2>2. text' = text /\ text \in Seq(Chars) /\ Len(text) >= 1 /\ text[Len(text)] = "lf"
      BY <1>6, <1>7, <2>1
    <2>3. Viable(state_, text, Len(text))
      BY <1>1, <1>10, <2>1 DEF FirstPass
    <2>4. state_ = "header_line_start"
      <3>1. Len(text) \in Nat \ {0} /\ state_ \in States
        BY <1>1, <2>2 DEF TypeOK
      <3> QED BY <2>2, <2>3, <3>1, AfterLineFeed
    <2>5. LinesTo(text, Len(text))
      BY <2>3, <2>4 DEF Viable
    <2>6. PICK e \in Nat : RequestLineTo(text, e) /\ e + 2 <= Len(text)
      BY <2>5, Zenon DEF LinesTo
    <2>7. PICK a, b, d \in Nat :
            MethodTo(text, a) /\ UriTo(text, a, b) /\ MajorTo(text, b, d) /\ DigitsIn(text, d + 1, e)
      BY <2>6, Zenon DEF RequestLineTo
    <2>8. a > 1 /\ a < b /\ b + 6 <= d - 1 /\ d + 1 <= e
      BY <2>7 DEF MethodTo, UriTo, MajorTo, DigitsIn
    <2>9. a \in 1..Len(text)
      BY <2>2, <2>6, <2>8
    <2> QED BY <1>2, <1>3, <1>6, <1>8, <1>10, <2>1, <2>2, <2>4, <2>7, <2>9
            DEF Inv, Unread, BeingRead, FirstPass, SecondPass
  <1> QED BY <1>4, <1>9, <1>10

\* Whether a header is stored matters at the start of a line only.
LEMMA MovesLater ==
  ASSUME NEW st, NEW c, NEW m \in BOOLEAN, NEW n \in BOOLEAN, st = "header_line_start" => (m <=> n), NEW nx
  PROVE  (Moves(st, c, m, nx) => Moves(st, c, n, nx)) /\ (Wanted(st, c, m) => Wanted(st, c, n))
  BY DEF Moves, Wanted

\* What a line feed ends.
LEMMA LineFeedMoves ==
  ASSUME NEW st, NEW m, Moves(st, "lf", m, "header_line_start")
  PROVE  st \in {"expecting_newline_1", "expecting_newline_2"}
  BY Literals DEF Moves

LEMMA LaterAgrees ==
  ASSUME NEW x, NEW y, NEW L \in Nat, \A i \in 1..L : x[i] = y[i]
  PROVE  Later(x, L) <=> Later(y, L)
  <1> SUFFICES ASSUME NEW r \in 3..L PROVE CrLfAt(x, r - 2) <=> CrLfAt(y, r - 2)
    BY DEF Later
  <1>1. r - 2 \in 1..L /\ (r - 2) + 1 \in 1..L
    OBVIOUS
  <1> QED BY <1>1 DEF CrLfAt

\* On the first pass, a character that is taken.
LEMMA FirstPassTakes ==
  ASSUME TypeOK, pos < Len(text), Viable(state_, text, pos), HeadersSeen,
         consume(text[pos + 1]), result = "indeterminate", result' = "indeterminate",
         pos' = pos + 1, text' = text
  PROVE  Viable(state_', text', pos') /\ HeadersSeen'
  <1> DEFINE c == text[pos + 1]
             stored == DOMAIN req.headers_ # {}
  <1>1. pos \in Nat /\ pos + 1 \in 1..Len(text) /\ text \in Seq(Chars) /\ c \in Chars
        /\ state_ \in States
    BY DEF TypeOK
  <1>2. Moves(state_, c, stored, state_') /\ state_' \in States
    BY <1>1, ConsumeMoves
  <1>3. state_ = "header_line_start" => (stored <=> Later(text, pos))
    <2> SUFFICES ASSUME state_ = "header_line_start" PROVE stored <=> Later(text, pos)
      OBVIOUS
    <2>1. LinesTo(text, pos)
      BY DEF Viable
    <2>2. text[pos] = "lf"
      BY <1>1, <2>1, LinesEnd
    <2>3. pos \in 0..pos /\ LineStart(text, pos, pos)
      BY <1>1, <2>2 DEF LineStart
    <2> QED BY <2>3 DEF HeadersSeen
  <1>4. Moves(state_, c, Later(text, pos), state_')
    <2>1. stored \in BOOLEAN /\ Later(text, pos) \in BOOLEAN
      BY DEF Later
    <2> HIDE DEF stored, c
    <2> QED BY <1>2, <1>3, <2>1, MovesLater
  <1>5. Viable(state_', text, pos + 1)
    BY <1>1, <1>4, Step
  <1>6. /\ state_ = "expecting_newline_2" => DOMAIN req'.headers_ # {}
        /\ state_ # "expecting_newline_2" => req'.headers_ = req.headers_
        /\ state_ \in {"expecting_newline_1", "expecting_newline_2"} => temp_key' = <<>>
    <2>1. state_ = "header_line_start" => temp_key = <<>>
      BY DEF HeadersSeen
    <2> QED BY <1>1, <2>1, ConsumeTypes
  <1>7. c = "lf" => state_' = "header_line_start"
    <2>1. pos + 1 \in Nat \ {0}
      BY <1>1
    <2> QED BY <1>2, <1>5, <2>1, AfterLineFeed
  <1>8. state_' = "header_line_start" => c = "lf" /\ temp_key' = <<>>
    <2> SUFFICES ASSUME state_' = "header_line_start" PROVE c = "lf" /\ temp_key' = <<>>
      OBVIOUS
    <2>1. LinesTo(text, pos + 1) /\ pos + 1 \in Nat
      BY <1>1, <1>5 DEF Viable
    <2>2. c = "lf"
      BY <2>1, LinesEnd
    <2> QED BY <1>2, <1>6, <2>2, LineFeedMoves
  <1>9. ASSUME NEW p \in 0..pos + 1, LineStart(text, p, pos + 1)
        PROVE  DOMAIN req'.headers_ # {} <=> Later(text, p)
    <2>1. CASE c # "lf"
      <3>1. p \in 0..pos /\ LineStart(text, p, pos)
        BY <1>1, <1>9, <2>1 DEF LineStart
      <3>2. state_ # "expecting_newline_2"
        BY <1>2, <2>1, Literals DEF Moves
      <3> QED BY <1>6, <3>1, <3>2 DEF HeadersSeen
    <2>2. CASE c = "lf"
      <3>1. p = pos + 1
        BY <1>1, <1>9, <2>2 DEF LineStart
      <3>2. state_ \in {"expecting_newline_1", "expecting_newline_2"}
        BY <1>2, <1>7, <2>2, LineFeedMoves
      <3>3. CASE state_ = "expecting_newline_1"
        <4>1. pos >= 1 /\ RequestLineTo(text, pos - 1) /\ text[pos] = "cr"
          BY <3>3 DEF Viable
        <4>2. ~Later(text, pos + 1)
          <5>1. \A r \in 3..pos + 1 : ~CrLfAt(text, r - 2)
            BY <1>1, <2>2, <4>1, StepFirstLine
          <5> QED BY <5>1 DEF Later
        <4>3. LineStart(text, 0, pos)
          <5>1. pos - 1 \in Nat
            BY <1>1, <4>1
          <5>2. \A i \in 1..pos - 1 : text[i] \notin {"cr", "lf"}
            BY <4>1, <5>1, NoBreakInRequestLine
          <5>3. \A i \in 0 + 1..pos : i \in 1..pos - 1 \/ i = pos
            BY <1>1
          <5> QED BY <1>1, <4>1, <5>2, <5>3 DEF LineStart
        <4>4. ~Later(text, 0)
          BY DEF Later
        <4>5. ~stored
          BY <1>1, <4>3, <4>4 DEF HeadersSeen
        <4> QED BY <1>6, <3>1, <3>3, <4>2, <4>5
      <3>4. CASE state_ = "expecting_newline_2"
        <4>1. PICK q \in 1..pos - 2 : LinesTo(text, q) /\ FieldTo(text, q + 1, pos - 1) /\ text[pos] = "cr"
          BY <3>4, Zenon DEF Viable, AtFieldEnd
        <4>2. CrLfAt(text, q - 1) /\ q >= 2
          BY <1>1, <4>1, LinesEnd
        <4>3. q + 1 \in 3..pos + 1 /\ (q + 1) - 2 = q - 1
          BY <1>1, <4>1, <4>2
        <4>4. Later(text, pos + 1)
          BY <4>2, <4>3 DEF Later
        <4> QED BY <1>6, <3>1, <3>4, <4>4
      <3> QED BY <3>2, <3>3, <3>4
    <2> QED BY <2>1, <2>2
  <1>10. HeadersSeen'
    BY <1>8, <1>9 DEF HeadersSeen
  <1> QED BY <1>5, <1>10

\* On the first pass, a character that is not.
LEMMA FirstPassRejects ==
  ASSUME TypeOK, pos < Len(text), Viable(state_, text, pos), HeadersSeen,
         consume(text[pos + 1]), result = "indeterminate", result' = "bad"
  PROVE  Dead(text, pos + 1)
  <1> DEFINE c == text[pos + 1]
             stored == DOMAIN req.headers_ # {}
  <1>1. pos \in Nat /\ pos + 1 \in 1..Len(text) /\ text \in Seq(Chars) /\ c \in Chars
        /\ state_ \in States
    BY DEF TypeOK
  <1>2. ~Wanted(state_, c, stored)
    BY <1>1, ConsumeMoves
  <1> SUFFICES ASSUME NEW y \in Seq(Chars), Len(y) >= pos + 1, \A i \in 1..pos + 1 : y[i] = text[i],
                      RequestAll(y)
               PROVE  FALSE
    BY DEF Dead
  <1>3. /\ \A i \in 1..pos : text[i] = y[i]
        /\ y[pos + 1] = c /\ pos \in 0..Len(y) - 1
    BY <1>1
  <1>4. Viable(state_, y, pos)
    BY <1>1, <1>3, ViableAgrees
  <1>5. Wanted(state_, c, Later(y, pos))
    BY <1>3, <1>4, Taken
  <1>6. state_ = "header_line_start" => (Later(y, pos) <=> stored)
    <2> SUFFICES ASSUME state_ = "header_line_start" PROVE Later(y, pos) <=> stored
      OBVIOUS
    <2>1. LinesTo(text, pos)
      BY DEF Viable
    <2>2. text[pos] = "lf"
      BY <1>1, <2>1, LinesEnd
    <2>3. pos \in 0..pos /\ LineStart(text, pos, pos)
      BY <1>1, <2>2 DEF LineStart
    <2>4. stored <=> Later(text, pos)
      BY <2>3 DEF HeadersSeen
    <2>5. Later(text, pos) <=> Later(y, pos)
      BY <1>1, <1>3, LaterAgrees
    <2> QED BY <2>4, <2>5
  <1>7. stored \in BOOLEAN /\ Later(y, pos) \in BOOLEAN
    BY DEF Later
  <1> HIDE DEF stored, c
  <1> QED BY <1>2, <1>5, <1>6, <1>7, MovesLater

\* On the first pass, the line feed of the empty line.
LEMMA FirstPassAccepts ==
  ASSUME TypeOK, pos < Len(text), Viable("expecting_newline_3", text, pos), text[pos + 1] = "lf"
  PROVE  RequestAll(SubSeq(text, 1, pos + 1))
  <1>1. pos \in Nat /\ pos + 1 \in 1 - 1..Len(text) /\ text \in Seq(Chars) /\ 1 \in 1..Len(text) + 1
    BY DEF TypeOK
  <1>2. pos >= 1 /\ LinesTo(text, pos - 1) /\ text[pos] = "cr"
    BY DEF Viable
  <1> DEFINE y == SubSeq(text, 1, pos + 1)
  <1>3. y \in Seq(Chars) /\ Len(y) = pos + 1 /\ \A i \in 1..pos + 1 : y[i] = text[i]
    <2>1. y \in Seq(Chars) /\ Len(y) = (pos + 1) - 1 + 1
      BY <1>1, Part
    <2>2. \A i \in 1..pos + 1 : SubSeq(text, 1, pos + 1)[i - 1 + 1] = text[i]
      BY <1>1, PartAt
    <2> HIDE DEF y
    <2>3. (pos + 1) - 1 + 1 = pos + 1 /\ \A i \in 1..pos + 1 : i - 1 + 1 = i
      BY <1>1
    <2> QED BY <2>1, <2>2, <2>3 DEF y
  <1> HIDE DEF y
  <1>4. pos - 1 \in Nat /\ \A i \in 1..pos - 1 : text[i] = y[i]
    BY <1>1, <1>2, <1>3
  <1>5. LinesTo(y, pos - 1)
    BY <1>2, <1>4, LinesAgree
  <1>6. y[pos] = "cr" /\ y[pos + 1] = "lf"
    BY <1>1, <1>2, <1>3
  <1>7. RequestAll(y)
    BY <1>1, <1>2, <1>3, <1>5, <1>6, Done
  <1> QED BY <1>7 DEF y

LEMMA ParseStep == Inv /\ parse => Inv'
  <1> SUFFICES ASSUME Inv, parse PROVE Inv'
    OBVIOUS
  <1>1. TypeOK /\ Unread /\ BeingRead /\ FirstPass /\ SecondPass
    BY DEF Inv
  <1>2. /\ phase = "parse" /\ result = "indeterminate" /\ pos < Len(text) /\ consume(text[pos + 1])
        /\ pos' = pos + 1 /\ raw' = raw /\ data_' = data_ /\ text' = text /\ passes' = passes
        /\ phase' = phase
    BY DEF parse
  <1>3. /\ passes \in {1, 2} /\ pos \in Nat /\ pos + 1 \in 1..Len(text) /\ text[pos + 1] \in Chars
        /\ state_ \in States
    BY <1>1, <1>2 DEF TypeOK, Unread
  <1>4. /\ state_' \in States
        /\ \/ /\ result' = "indeterminate"
              /\ Moves(state_, text[pos + 1], DOMAIN req.headers_ # {}, state_')
           \/ result' = "good" /\ state_ = "expecting_newline_3" /\ text[pos + 1] = "lf"
           \/ result' = "bad"
    BY <1>2, <1>3, ConsumeMoves
  <1>5. TypeOK'
    <2>1. /\ result' \in {"indeterminate", "good", "bad"} /\ req' \in Request
          /\ temp_key' \in Seq(Chars) /\ temp_value' \in Seq(Chars)
      BY <1>1, <1>2, <1>3, ConsumeTypes
    <2>2. pos' \in 0..Len(text')
      BY <1>2, <1>3
    <2> QED BY <1>1, <1>2, <1>4, <2>1, <2>2 DEF TypeOK
  <1>6. Unread' /\ BeingRead'
    BY <1>1, <1>2, <1>3 DEF Unread, BeingRead
  <1>7. FirstPass'
    <2> SUFFICES ASSUME passes = 1 PROVE FirstPass'
      BY <1>2 DEF FirstPass
    <2>1. Viable(state_, text, pos) /\ HeadersSeen
      BY <1>1, <1>2 DEF FirstPass
    <2>2. CASE result' = "indeterminate"
      <3>1. Viable(state_', text', pos') /\ HeadersSeen'
        BY <1>1, <1>2, <2>1, <2>2, FirstPassTakes
      <3> QED BY <2>2, <3>1 DEF FirstPass
    <2>3. CASE result' = "good"
      <3>1. Viable("expecting_newline_3", text, pos) /\ text[pos + 1] = "lf"
        BY <1>4, <2>1, <2>3
      <3>2. RequestAll(SubSeq(text, 1, pos + 1))
        BY <1>1, <1>2, <3>1, FirstPassAccepts
      <3> QED BY <1>2, <2>3, <3>2 DEF FirstPass, Consumed
    <2>4. CASE result' = "bad"
      <3>1. Dead(text, pos + 1)
        BY <1>1, <1>2, <2>1, <2>4, FirstPassRejects
      <3> QED BY <1>2, <2>4, <3>1 DEF FirstPass
    <2> QED BY <1>4, <2>2, <2>3, <2>4
  <1>8. SecondPass'
    <2> SUFFICES ASSUME passes = 2 PROVE SecondPass'
      BY <1>2 DEF SecondPass
    <2>1. EndsLine(raw) /\ result # "good"
      BY <1>1 DEF SecondPass
    <2>2. PICK a \in 1..Len(text) :
            /\ MethodTo(text, a) /\ pos < a
            /\ state_ = IF pos = 0 THEN "header_line_start" ELSE "header_name"
      BY <1>1, <1>2 DEF SecondPass
    <2>3. a > 1 /\ (\A i \in 1..a - 1 : IsName(text[i])) /\ text[a] = "sp"
      BY <2>2 DEF MethodTo, NamesIn
    <2>4. result' # "good"
      BY <1>4, <2>2
    <2>5. ASSUME result' = "indeterminate" PROVE pos + 1 < a /\ state_' = "header_name"
      <3>1. CASE pos + 1 < a
        <4>1. IsName(text[pos + 1])
          BY <1>3, <2>3, <3>1
        <4>2. state_' = "header_name"
          BY <1>4, <2>2, <2>5, <4>1, Classes, Literals DEF Moves
        <4> QED BY <3>1, <4>2
      <3>2. CASE pos + 1 = a
        <4>1. text[pos + 1] = "sp" /\ state_ = "header_name"
          BY <1>3, <2>2, <2>3, <3>2
        <4>2. ~IsName("sp") /\ ~Moves("header_name", "sp", DOMAIN req.headers_ # {}, state_')
          BY Classes, Literals DEF Moves
        <4> QED BY <1>4, <2>5, <4>1, <4>2
      <3> QED BY <1>3, <2>2, <3>1, <3>2
    <2>6. pos' # 0 /\ MethodTo(text', a) /\ a \in 1..Len(text')
      BY <1>2, <1>3, <2>2
    <2> QED BY <1>2, <2>1, <2>4, <2>5, <2>6 DEF SecondPass
  <1> QED BY <1>5, <1>6, <1>7, <1>8 DEF Inv

LEMMA AgainStep == Inv /\ Again => Inv'
  <1> SUFFICES ASSUME Inv, Again PROVE Inv'
    OBVIOUS
  <1>1. TypeOK /\ Unread /\ BeingRead /\ FirstPass /\ SecondPass
    BY DEF Inv
  <1>2. /\ phase = "parse" /\ result = "indeterminate" /\ pos = Len(text) /\ phase' = "read"
        /\ raw' = raw /\ data_' = data_ /\ text' = text /\ pos' = pos /\ passes' = passes
        /\ parser' = parser
    BY DEF Again
  <1>3. /\ state_' = state_ /\ req' = req /\ temp_key' = temp_key /\ temp_value' = temp_value
        /\ result' = result
    BY <1>2 DEF parser
  <1>4. passes = 1
    <2>1. passes # 0
      BY <1>1, <1>2 DEF Unread
    <2>2. passes # 2
      BY <1>1, <1>2 DEF SecondPass, TypeOK
    <2> QED BY <1>1, <2>1, <2>2 DEF TypeOK
  <1>5. EndsLine(raw)
    <2> SUFFICES ASSUME ~EndsLine(raw) PROVE FALSE
      OBVIOUS
    <2>1. text = TextOf(raw) /\ raw \in Seq(Chars) /\ raw # <<>>
      BY <1>1, <1>4 DEF BeingRead, TypeOK
    <2>2. text \in Seq(Chars) /\ Len(text) >= 1 /\ text[Len(text)] = "lf" /\ ~LinesTo(text, Len(text))
      BY <2>1, TextOfIs
    <2>3. Viable(state_, text, Len(text)) /\ state_ \in States
      BY <1>1, <1>2, <1>4 DEF FirstPass, TypeOK
    <2>4. Len(text) \in Nat \ {0}
      BY <2>2
    <2>5. state_ = "header_line_start"
      BY <2>2, <2>3, <2>4, AfterLineFeed
    <2> QED BY <2>2, <2>3, <2>5 DEF Viable
  <1>6. TypeOK'
    BY <1>1, <1>2, <1>3 DEF TypeOK
  <1>7. Unread' /\ BeingRead'
    BY <1>1, <1>2, <1>3, <1>4, <1>5 DEF Unread, BeingRead
  <1>8. FirstPass'
    BY <1>1, <1>2, <1>3 DEF FirstPass, HeadersSeen, Consumed
  <1>9. SecondPass'
    BY <1>2, <1>4 DEF SecondPass
  <1> QED BY <1>6, <1>7, <1>8, <1>9 DEF Inv

LEMMA VerdictSteps == Inv /\ (TooShort \/ Good \/ Bad) => Inv'
  <1> SUFFICES ASSUME Inv, TooShort \/ Good \/ Bad PROVE Inv'
    OBVIOUS
  <1>1. TypeOK /\ Unread /\ BeingRead /\ FirstPass /\ SecondPass
    BY DEF Inv
  <1>2. /\ raw' = raw /\ data_' = data_ /\ text' = text /\ pos' = pos /\ passes' = passes
        /\ state_' = state_ /\ temp_key' = temp_key /\ temp_value' = temp_value /\ result' = result
    BY DEF TooShort, Good, Bad, parser
  <1>3. CASE TooShort
    <2>1. phase = "read" /\ Len(raw) < 2 /\ phase' = "thrown" /\ req' = req
      BY <1>3 DEF TooShort, parser
    <2>2. passes = 0
      BY <1>1, <2>1 DEF BeingRead, EndsLine, TypeOK
    <2>3. TypeOK'
      BY <1>1, <1>2, <2>1 DEF TypeOK
    <2> QED BY <1>1, <1>2, <2>1, <2>2, <2>3 DEF Inv, Unread, BeingRead, FirstPass, SecondPass
  <1>4. CASE Good \/ Bad
    <2>1. phase = "parse" /\ result \in {"good", "bad"} /\ phase' = "done"
      BY <1>4 DEF Good, Bad
    <2>2. req' \in Request
      <3>1. req \in Request /\ BadRequestUri \in Seq(Chars)
        BY <1>1, ReadAssumption DEF TypeOK, ReadAssumption
      <3>2. /\ [req EXCEPT !.uri_ = BadRequestUri] =
                 [uri_ |-> BadRequestUri, headers_ |-> req.headers_, major |-> req.major, minor |-> req.minor]
            /\ req.headers_ \in Headers /\ req.major \in Int /\ req.minor \in Int
        BY <3>1, RequestFields
      <3>3. [req EXCEPT !.uri_ = BadRequestUri] \in Request
        BY <3>1, <3>2 DEF Request
      <3> QED BY <1>4, <3>1, <3>3 DEF Good, Bad, parser
    <2>3. TypeOK'
      BY <1>1, <1>2, <2>1, <2>2 DEF TypeOK
    <2>4. passes # 0
      BY <1>1, <2>1 DEF Unread
    <2>5. Unread' /\ BeingRead'
      BY <1>1, <1>2, <2>1, <2>4 DEF Unread, BeingRead
    <2>6. FirstPass'
      BY <1>1, <1>2, <2>1 DEF FirstPass, Consumed
    <2>7. SecondPass'
      BY <1>1, <1>2, <2>1 DEF SecondPass
    <2> QED BY <2>3, <2>5, <2>6, <2>7 DEF Inv
  <1> QED BY <1>3, <1>4

LEMMA NextInv == Inv /\ [Next]_vars => Inv'
  <1>1. Inv /\ UNCHANGED vars => Inv'
    BY DEF vars, parser, Inv, TypeOK, Unread, BeingRead, FirstPass, HeadersSeen, SecondPass, Consumed
  <1> QED BY <1>1, HandleRead, ParseStep, AgainStep, VerdictSteps DEF Next, Returned

\* InvHolds: on the first pass the parser stands where the grammar says the
\* characters read so far can go on, and on the second it fails inside the method
\* (session.cc:36-130, request_parser.cc:60-244).
THEOREM InvHolds == Spec => []Inv
  BY InitInv, NextInv, PTL DEF Spec

-----------------------------------------------------------------------------
(* What the invariant says of the verdicts. *)

LEMMA ConsumedIs ==
  ASSUME TypeOK
  PROVE  /\ Consumed \in Seq(Chars) /\ Len(Consumed) = pos /\ pos \in Nat
         /\ \A i \in 1..pos : Consumed[i] = text[i]
  <1>1. /\ pos \in Nat /\ pos \in 1 - 1..Len(text) /\ text \in Seq(Chars) /\ 1 \in 1..Len(text) + 1
        /\ pos - 1 + 1 = pos
    BY DEF TypeOK
  <1>2. Consumed \in Seq(Chars) /\ Len(Consumed) = pos
    BY <1>1, Part DEF Consumed
  <1>3. \A i \in 1..pos : SubSeq(text, 1, pos)[i - 1 + 1] = text[i]
    BY <1>1, PartAt
  <1>4. \A i \in 1..pos : i - 1 + 1 = i
    BY <1>1
  <1> QED BY <1>1, <1>2, <1>3, <1>4 DEF Consumed

\* The verdict of consume, said of every text that may follow.
Decided ==
  phase = "parse" /\ passes = 1 =>
    /\ result = "good" <=> IsRequest(Consumed)
    /\ result = "bad" => \A c \in Seq(Chars) : ~IsRequest(Consumed \o c)
    /\ result = "indeterminate" => \E c \in Seq(Chars) : IsRequest(Consumed \o c)

LEMMA InvDecided == Inv => Decided
  <1> SUFFICES ASSUME Inv, phase = "parse", passes = 1
               PROVE  /\ result = "good" <=> IsRequest(Consumed)
                      /\ result = "bad" => \A c \in Seq(Chars) : ~IsRequest(Consumed \o c)
                      /\ result = "indeterminate" => \E c \in Seq(Chars) : IsRequest(Consumed \o c)
    BY DEF Decided
  <1> DEFINE w == Consumed
  <1>1. TypeOK /\ FirstPass
    BY DEF Inv
  <1>2. /\ w \in Seq(Chars) /\ Len(w) = pos /\ pos \in Nat /\ \A i \in 1..pos : w[i] = text[i]
        /\ state_ \in States /\ result \in {"indeterminate", "good", "bad"}
    BY <1>1, ConsumedIs DEF TypeOK
  <1>3. IsRequest(w) <=> RequestAll(w)
    BY <1>2, RequestIs
  <1>4. ASSUME NEW c \in Seq(Chars)
        PROVE  /\ w \o c \in Seq(Chars) /\ Len(w \o c) >= pos /\ \A i \in 1..pos : (w \o c)[i] = text[i]
               /\ IsRequest(w \o c) <=> RequestAll(w \o c)
    <2> HIDE DEF w
    <2>1. /\ w \o c \in Seq(Chars) /\ Len(w \o c) = Len(w) + Len(c)
          /\ \A i \in 1..Len(w) + Len(c) :
               (w \o c)[i] = IF i <= Len(w) THEN w[i] ELSE c[i - Len(w)]
      BY <1>2, ConcatProperties
    <2>2. Len(c) \in Nat
      OBVIOUS
    <2>3. \A i \in 1..pos : i \in 1..Len(w) + Len(c) /\ i <= Len(w)
      BY <1>2, <2>2
    <2>4. Len(w \o c) >= pos /\ \A i \in 1..pos : (w \o c)[i] = text[i]
      BY <1>2, <2>1, <2>2, <2>3
    <2>5. IsRequest(w \o c) <=> RequestAll(w \o c)
      BY <2>1, RequestIs
    <2> QED BY <2>1, <2>4, <2>5
  <1>5. CASE result = "indeterminate"
    <2>1. Viable(state_, text, pos)
      BY <1>1, <1>5 DEF FirstPass
    <2>2. Viable(state_, w, Len(w))
      <3>1. \A i \in 1..pos : text[i] = w[i]
        BY <1>2
      <3> HIDE DEF w
      <3> QED BY <1>2, <2>1, <3>1, ViableAgrees
    <2>3. ~RequestAll(w)
      BY <1>2, <2>2, NotYet
    <2>4. Completable(w)
      BY <1>2, <2>2, EveryState DEF Fine
    <2>5. PICK c \in Seq(Chars) : RequestAll(w \o c)
      BY <2>4 DEF Completable
    <2> QED BY <1>3, <1>4, <1>5, <2>3, <2>5
  <1>6. CASE result = "good"
    BY <1>1, <1>3, <1>6 DEF FirstPass
  <1>7. CASE result = "bad"
    <2>1. Dead(text, pos)
      BY <1>1, <1>7 DEF FirstPass
    <2>2. ~RequestAll(w)
      BY <1>2, <2>1 DEF Dead
    <2>3. \A c \in Seq(Chars) : ~IsRequest(w \o c)
      BY <1>4, <2>1 DEF Dead
    <2> QED BY <1>3, <1>7, <2>2, <2>3
  <1> QED BY <1>2, <1>5, <1>6, <1>7

\* DecidedHolds: after every character of the first pass consume says "good"
\* exactly for a request, "bad" only when no text at all that follows makes one,
\* and "indeterminate" only when some text does (request_parser.h:36-39).
THEOREM DecidedHolds == Spec => []Decided
  BY InvHolds, InvDecided, PTL

\* VerdictHolds: the same said as the run checks it, when every text may follow.
THEOREM VerdictHolds ==
  ASSUME Completions = Seq(Chars)
  PROVE  Spec => []Verdict
  <1>1. Decided => Verdict
    BY DEF Decided, Verdict
  <1> QED BY <1>1, DecidedHolds, PTL

\* TypeOKHolds: every step of handle_read and of consume keeps the types; the
\* verdict is one of the three, and handle_read is called twice at most.
THEOREM TypeOKHolds == Spec => []TypeOK
  <1>1. Inv => TypeOK
    BY DEF Inv
  <1> QED BY <1>1, InvHolds, PTL

\* SecondPassRejectsHolds: handle_read calls itself on the same bytes once at
\* most, when they end a line, and the second parse rejects them: the parser takes
\* the method for a header's name and fails at its blank (session.cc:124).
THEOREM SecondPassRejectsHolds == Spec => []SecondPassRejects
  <1>1. Inv => SecondPassRejects
    BY DEF Inv, TypeOK, BeingRead, SecondPass, SecondPassRejects
  <1> QED BY <1>1, InvHolds, PTL

-----------------------------------------------------------------------------
(* What the request holds while it is read. *)

LEMMA FieldsOf ==
  ASSUME NEW r \in Request, NEW v, NEW u, NEW w
  PROVE  /\ [r EXCEPT !.uri_ = v].uri_ = v
         /\ [r EXCEPT !.major = v].uri_ = r.uri_ /\ [r EXCEPT !.major = v].major = v
         /\ [r EXCEPT !.major = v].minor = r.minor
         /\ [r EXCEPT !.minor = v].uri_ = r.uri_ /\ [r EXCEPT !.minor = v].major = r.major
         /\ [r EXCEPT !.minor = v].minor = v
         /\ [r EXCEPT !.major = u, !.minor = w].uri_ = r.uri_
         /\ [r EXCEPT !.major = u, !.minor = w].major = u
         /\ [r EXCEPT !.major = u, !.minor = w].minor = w
         /\ [r EXCEPT !.headers_ = v].uri_ = r.uri_ /\ [r EXCEPT !.headers_ = v].major = r.major
         /\ [r EXCEPT !.headers_ = v].minor = r.minor /\ [r EXCEPT !.headers_ = v].headers_ = v
  <1>1. [r EXCEPT !.uri_ = v] = [uri_ |-> v, headers_ |-> r.headers_, major |-> r.major, minor |-> r.minor]
    BY RequestFields, Zenon
  <1>2. [r EXCEPT !.major = v] = [uri_ |-> r.uri_, headers_ |-> r.headers_, major |-> v, minor |-> r.minor]
    BY RequestFields, Zenon
  <1>3. [r EXCEPT !.minor = v] = [uri_ |-> r.uri_, headers_ |-> r.headers_, major |-> r.major, minor |-> v]
    BY RequestFields, Zenon
  <1>4. [r EXCEPT !.major = u, !.minor = w] =
          [uri_ |-> r.uri_, headers_ |-> r.headers_, major |-> u, minor |-> w]
    BY TwoNumbers
  <1>5. [r EXCEPT !.headers_ = v] = [uri_ |-> r.uri_, headers_ |-> v, major |-> r.major, minor |-> r.minor]
    BY RequestFields, Zenon
  <1> QED BY <1>1, <1>2, <1>3, <1>4, <1>5

\* A character of the request line.
LEMMA FilledInRequestLine ==
  ASSUME TypeOK, pos < Len(text), Viable(state_, text, pos),
         Filled(state_, text, pos, req, temp_key, temp_value),
         Method(text[pos + 1]) \/ Uri(text[pos + 1]) \/ Major(text[pos + 1]) \/ Minor(text[pos + 1]),
         result' = "indeterminate"
  PROVE  Filled(state_', text, pos + 1, req', temp_key', temp_value')
  <1> DEFINE c == text[pos + 1]
             F(s) == Filled(s, text, pos + 1, req', temp_key', temp_value')
  <1>1. /\ text \in Seq(Chars) /\ pos \in 0..Len(text) - 1 /\ c \in Chars
        /\ req \in Request /\ req.major \in Int /\ req.minor \in Int
    <2>1. req \in Request
      BY DEF TypeOK
    <2>2. req.major \in Int /\ req.minor \in Int
      BY <2>1, RequestFields
    <2>3. text \in Seq(Chars) /\ pos \in 0..Len(text)
      BY DEF TypeOK
    <2>4. pos \in 0..Len(text) - 1 /\ c \in Chars
      BY <2>3
    <2> QED BY <2>1, <2>2, <2>3, <2>4
  <1> HIDE DEF c
  <1>2. CASE Method(c)
    <2>1. /\ req' = req
          /\ state_' = "method" \/ (c = "sp" /\ state_ = "method" /\ state_' = "uri")
          /\ state_ \in {"method_start", "method"}
      BY <1>2 DEF Method, Go, Reject, Keep
    <2>2. req.uri_ = <<>>
      BY <2>1 DEF Filled
    <2>3. CASE state_' = "method"
      <3>1. F("method")
        BY <2>1, <2>2, FilledIs
      <3> QED BY <2>3, <3>1
    <2>4. CASE c = "sp" /\ state_ = "method" /\ state_' = "uri"
      <3>1. NamesIn(text, 1, pos) /\ pos >= 1
        BY <2>4 DEF Viable
      <3>2. SaysUri(text, pos + 1, req)
        BY <1>1, <2>2, <2>4, <3>1, SayUri DEF c
      <3>3. F("uri")
        BY <2>1, <3>2, FilledIs
      <3> QED BY <2>4, <3>3
    <2> QED BY <2>1, <2>3, <2>4
  <1>3. CASE Uri(c)
    <2>1. /\ state_ = "uri"
          /\ \/ c = "sp" /\ state_' = "http_version_h" /\ req' = req
             \/ /\ c # "sp" /\ c \notin Ctl /\ state_' = "uri"
                /\ req' = [req EXCEPT !.uri_ = Append(@, c)]
      BY <1>3 DEF Uri, Go, Reject, Keep
    <2>2. SaysUri(text, pos, req)
      BY <2>1 DEF Filled
    <2>3. CASE c = "sp" /\ state_' = "http_version_h" /\ req' = req
      <3>1. SaysHttp(text, 0, pos + 1, req)
        BY <1>1, <2>2, <2>3, SayUri DEF c
      <3>2. F("http_version_h")
        BY <2>3, <3>1, FilledIs
      <3> QED BY <2>3, <3>2
    <2>4. CASE /\ c # "sp" /\ c \notin Ctl /\ state_' = "uri"
               /\ req' = [req EXCEPT !.uri_ = Append(@, c)]
      <3>1. req'.uri_ = Append(req.uri_, c)
        BY <1>1, <2>4, FieldsOf
      <3>2. SaysUri(text, pos + 1, req')
        BY <1>1, <2>2, <2>4, <3>1, SayUri DEF c
      <3>3. F("uri")
        BY <3>2, FilledIs
      <3> QED BY <2>4, <3>3
    <2> QED BY <2>1, <2>3, <2>4
  <1>4. CASE Major(c)
    <2>1. /\ state_ \in {"http_version_major_start", "http_version_major"}
          /\ \/ /\ IsDigit(c) /\ state_' = "http_version_major"
                /\ req' = [req EXCEPT !.major = Accumulated(@, c)]
             \/ c = "." /\ state_ = "http_version_major" /\ state_' = "http_version_minor_start" /\ req' = req
      BY <1>4 DEF Major, Go, Reject, Keep
    <2>2. /\ state_ = "http_version_major_start" => SaysMajor(text, 0, pos, req)
          /\ state_ = "http_version_major" => SaysMajor(text, 1, pos, req)
      BY DEF Filled
    <2>3. PICK n \in {0, 1} : SaysMajor(text, n, pos, req)
      BY <2>1, <2>2
    <2>4. CASE /\ IsDigit(c) /\ state_' = "http_version_major"
               /\ req' = [req EXCEPT !.major = Accumulated(@, c)]
      <3>1. /\ req'.uri_ = req.uri_ /\ req'.minor = req.minor
            /\ req'.major = Accumulated(req.major, c)
        BY <1>1, <2>4, FieldsOf
      <3>3. SaysMajor(text, 1, pos + 1, req')
        BY <1>1, <2>3, <2>4, <3>1, SayMajor DEF c
      <3>4. F("http_version_major")
        BY <3>3, FilledIs
      <3> QED BY <2>4, <3>4
    <2>5. CASE c = "." /\ state_ = "http_version_major" /\ state_' = "http_version_minor_start" /\ req' = req
      <3>1. SaysMajor(text, 1, pos, req)
        BY <2>2, <2>5
      <3>2. SaysMinor(text, 0, pos + 1, req)
        BY <1>1, <2>5, <3>1, SayMajor DEF c
      <3>3. F("http_version_minor_start")
        BY <2>5, <3>2, FilledIs
      <3> QED BY <2>5, <3>3
    <2> QED BY <2>1, <2>4, <2>5
  <1>5. CASE Minor(c)
    <2>1. /\ state_ \in {"http_version_minor_start", "http_version_minor"}
          /\ \/ /\ IsDigit(c) /\ state_' = "http_version_minor"
                /\ req' = [req EXCEPT !.minor = Accumulated(@, c)]
             \/ c = "cr" /\ state_ = "http_version_minor" /\ state_' = "expecting_newline_1" /\ req' = req
      BY <1>5 DEF Minor, Go, Reject, Keep
    <2>2. /\ state_ = "http_version_minor_start" => SaysMinor(text, 0, pos, req)
          /\ state_ = "http_version_minor" => SaysMinor(text, 1, pos, req)
      BY DEF Filled
    <2>3. PICK n \in {0, 1} : SaysMinor(text, n, pos, req)
      BY <2>1, <2>2
    <2>4. CASE /\ IsDigit(c) /\ state_' = "http_version_minor"
               /\ req' = [req EXCEPT !.minor = Accumulated(@, c)]
      <3>1. /\ req'.uri_ = req.uri_ /\ req'.major = req.major
            /\ req'.minor = Accumulated(req.minor, c)
        BY <1>1, <2>4, FieldsOf
      <3>3. SaysMinor(text, 1, pos + 1, req')
        BY <1>1, <2>3, <2>4, <3>1, SayMinor DEF c
      <3>4. F("http_version_minor")
        BY <3>3, FilledIs
      <3> QED BY <2>4, <3>4
    <2>5. CASE c = "cr" /\ state_ = "http_version_minor" /\ state_' = "expecting_newline_1" /\ req' = req
      <3>1. SaysMinor(text, 1, pos, req) /\ pos + 1 >= 1 /\ (pos + 1) - 1 = pos
        BY <1>1, <2>2, <2>5
      <3>2. F("expecting_newline_1")
        BY <2>5, <3>1, FilledIs DEF c
      <3> QED BY <2>5, <3>2
    <2> QED BY <2>1, <2>4, <2>5
  <1> QED BY <1>2, <1>3, <1>4, <1>5 DEF c

\* The first header is read after the first line, when none is stored.
LEMMA FirstLineEnds ==
  ASSUME TypeOK, pos < Len(text), HeadersSeen, pos >= 1, RequestLineTo(text, pos - 1),
         text[pos] = "cr", text[pos + 1] = "lf"
  PROVE  /\ DOMAIN req.headers_ = {} /\ \A s \in 3..pos + 1 : ~CrLfAt(text, s - 2)
         /\ CrLfAt(text, pos)
  <1>1. pos \in Nat
    BY DEF TypeOK
  <1>2. LineStart(text, 0, pos)
    <2>1. pos - 1 \in Nat
      BY <1>1
    <2>2. \A i \in 1..pos - 1 : text[i] \notin {"cr", "lf"}
      BY <2>1, NoBreakInRequestLine
    <2>3. \A i \in 0 + 1..pos : i \in 1..pos - 1 \/ i = pos
      BY <1>1
    <2> QED BY <1>1, <2>2, <2>3 DEF LineStart
  <1>3. ~Later(text, 0)
    BY DEF Later
  <1>4. DOMAIN req.headers_ = {}
    BY <1>1, <1>2, <1>3 DEF HeadersSeen
  <1>5. \A s \in 3..pos + 1 : ~CrLfAt(text, s - 2)
    BY <1>1, StepFirstLine
  <1> QED BY <1>4, <1>5 DEF CrLfAt

\* A character that a state expects.
LEMMA FilledAfterLiteral ==
  ASSUME TypeOK, pos < Len(text), Viable(state_, text, pos), HeadersSeen,
         Filled(state_, text, pos, req, temp_key, temp_value),
         ExpectLiteral(text[pos + 1]), result' = "indeterminate"
  PROVE  Filled(state_', text, pos + 1, req', temp_key', temp_value')
  <1> DEFINE c == text[pos + 1]
             F(s) == Filled(s, text, pos + 1, req', temp_key', temp_value')
  <1>1. /\ text \in Seq(Chars) /\ pos \in 0..Len(text) - 1 /\ pos \in Nat /\ req \in Request
        /\ pos + 1 <= Len(text) /\ pos + 1 \in 0..Len(text) /\ 0 \in 0..4 /\ 1 \in 0..4 /\ 2 \in 0..4
        /\ 3 \in 0..4 /\ 4 \in 0..4
    BY DEF TypeOK
  <1> HIDE DEF c
  <1>2. state_ \in DOMAIN Literal /\ c = Literal[state_] /\ state_' = AfterLiteral[state_] /\ OnLiteral
    BY DEF ExpectLiteral, Go, Reject, c
  <1>3. state_ \notin {"http_version_slash", "expecting_newline_1", "expecting_newline_2"} =>
          req' = req /\ temp_key' = temp_key /\ temp_value' = temp_value
    BY <1>2 DEF OnLiteral, Keep
  <1>4. Http[0 + 1] = "H" /\ Http[1 + 1] = "T" /\ Http[2 + 1] = "T" /\ Http[3 + 1] = "P" /\ Http[4 + 1] = "slash"
    BY DEF Http
  <1>5. CASE state_ = "http_version_h"
    <2>1. c = "H" /\ state_' = "http_version_t_1" /\ req' = req /\ SaysHttp(text, 0, pos, req)
      BY <1>2, <1>3, <1>5, Literals, FilledIs
    <2>2. SaysHttp(text, 0 + 1, pos + 1, req)
      BY <1>1, <1>4, <2>1, SayHttp DEF c
    <2>3. F("http_version_t_1")
      BY <2>1, <2>2, FilledIs
    <2> QED BY <2>1, <2>3
  <1>6. CASE state_ = "http_version_t_1"
    <2>1. c = "T" /\ state_' = "http_version_t_2" /\ req' = req /\ SaysHttp(text, 1, pos, req)
      BY <1>2, <1>3, <1>6, Literals, FilledIs
    <2>2. SaysHttp(text, 1 + 1, pos + 1, req)
      BY <1>1, <1>4, <2>1, SayHttp DEF c
    <2>3. F("http_version_t_2")
      BY <2>1, <2>2, FilledIs
    <2> QED BY <2>1, <2>3
  <1>7. CASE state_ = "http_version_t_2"
    <2>1. c = "T" /\ state_' = "http_version_p" /\ req' = req /\ SaysHttp(text, 2, pos, req)
      BY <1>2, <1>3, <1>7, Literals, FilledIs
    <2>2. SaysHttp(text, 2 + 1, pos + 1, req)
      BY <1>1, <1>4, <2>1, SayHttp DEF c
    <2>3. F("http_version_p")
      BY <2>1, <2>2, FilledIs
    <2> QED BY <2>1, <2>3
  <1>8. CASE state_ = "http_version_p"
    <2>1. c = "P" /\ state_' = "http_version_slash" /\ req' = req /\ SaysHttp(text, 3, pos, req)
      BY <1>2, <1>3, <1>8, Literals, FilledIs
    <2>2. SaysHttp(text, 3 + 1, pos + 1, req)
      BY <1>1, <1>4, <2>1, SayHttp DEF c
    <2>3. F("http_version_slash")
      BY <2>1, <2>2, FilledIs
    <2> QED BY <2>1, <2>3
  <1>9. CASE state_ = "http_version_slash"
    <2>1. c = "slash" /\ state_' = "http_version_major_start" /\ SaysHttp(text, 4, pos, req)
      BY <1>2, <1>9, Literals, FilledIs
    <2>2. req' = [req EXCEPT !.major = 0, !.minor = 0]
      BY <1>2, <1>9 DEF OnLiteral
    <2>3. req'.uri_ = req.uri_ /\ req'.major = 0 /\ req'.minor = 0
      BY <1>1, <2>2, FieldsOf
    <2>4. SaysHttp(text, 4 + 1, pos + 1, req')
      BY <1>1, <1>4, <2>1, <2>3, SayHttp DEF c
    <2>5. SaysMajor(text, 0, pos + 1, req')
      BY <1>1, <2>3, <2>4, SayVersion
    <2>6. F("http_version_major_start")
      BY <2>5, FilledIs
    <2> QED BY <2>1, <2>6
  <1>10. CASE state_ = "expecting_newline_1"
    <2>1. c = "lf" /\ state_' = "header_line_start" /\ req' = req /\ temp_key' = <<>> /\ temp_value' = <<>>
      BY <1>2, <1>10, Literals DEF OnLiteral
    <2>2. pos >= 1 /\ SaysMinor(text, 1, pos - 1, req) /\ text[pos] = "cr" /\ RequestLineTo(text, pos - 1)
      BY <1>10, FilledIs DEF Viable
    <2>3. DOMAIN req.headers_ = {} /\ (\A s \in 3..pos + 1 : ~CrLfAt(text, s - 2)) /\ CrLfAt(text, pos)
      BY <2>1, <2>2, FirstLineEnds DEF c
    <2>4. LinesTo(text, pos + 1)
      BY <1>1, <2>1, <2>2, StepFirstLine DEF c
    <2>5. SaysLines(text, pos + 1, req)
      BY <1>1, <2>2, <2>3, <2>4, SayFirstLine
    <2>6. F("header_line_start")
      BY <2>1, <2>5, FilledIs
    <2> QED BY <2>1, <2>6
  <1>11. CASE state_ = "space_before_header_value"
    <2>1. /\ c = "sp" /\ state_' = "header_value" /\ req' = req /\ temp_key' = temp_key
          /\ temp_value' = temp_value /\ SaysColon(text, pos, req, temp_key, temp_value)
      BY <1>2, <1>3, <1>11, Literals, FilledIs
    <2>2. SaysValue(text, pos + 1, req, temp_key, temp_value)
      BY <1>1, <2>1, SayName DEF c
    <2>3. F("header_value")
      BY <2>1, <2>2, FilledIs
    <2> QED BY <2>1, <2>3
  <1>12. CASE state_ = "expecting_newline_2"
    <2>1. /\ c = "lf" /\ state_' = "header_line_start" /\ temp_key' = <<>> /\ temp_value' = <<>>
          /\ SaysFieldEnd(text, pos, req, temp_key, temp_value)
      BY <1>2, <1>12, Literals, FilledIs DEF OnLiteral
    <2>2. req' = [req EXCEPT !.headers_ = PutHeader(@, temp_key, temp_value)]
      BY <1>2, <1>12 DEF OnLiteral
    <2>3. /\ req'.uri_ = req.uri_ /\ req'.major = req.major /\ req'.minor = req.minor
          /\ req'.headers_ = PutHeader(req.headers_, temp_key, temp_value)
      BY <1>1, <2>2, FieldsOf
    <2>4. AtFieldEnd(text, pos)
      BY <1>12 DEF Viable
    <2>5. SaysLines(text, pos + 1, req')
      BY <1>1, <2>1, <2>3, <2>4, SayLine DEF c
    <2>6. F("header_line_start")
      BY <2>1, <2>5, FilledIs
    <2> QED BY <2>1, <2>6
  <1> QED BY <1>2, <1>5, <1>6, <1>7, <1>8, <1>9, <1>10, <1>11, <1>12, Literals

\* A character of a header line.
LEMMA FilledInHeader ==
  ASSUME TypeOK, pos < Len(text), Filled(state_, text, pos, req, temp_key, temp_value),
         HeaderLineStart(text[pos + 1]) \/ HeaderName(text[pos + 1]) \/ HeaderText(text[pos + 1]),
         result' = "indeterminate"
  PROVE  Filled(state_', text, pos + 1, req', temp_key', temp_value')
  <1> DEFINE c == text[pos + 1]
             F(s) == Filled(s, text, pos + 1, req', temp_key', temp_value')
  <1>1. text \in Seq(Chars) /\ pos \in 0..Len(text) - 1 /\ pos \in Nat /\ (pos + 1) - 1 = pos /\ pos + 1 >= 1
    BY DEF TypeOK
  <1> HIDE DEF c
  <1>2. CASE HeaderLineStart(c)
    <2>1. SaysLines(text, pos, req) /\ temp_key = <<>> /\ temp_value = <<>>
      BY <1>2 DEF HeaderLineStart, Filled
    <2>2. /\ req' = req /\ temp_value' = temp_value
          /\ \/ c = "cr" /\ state_' = "expecting_newline_3" /\ temp_key' = temp_key
             \/ IsBlank(c) /\ state_' = "header_lws" /\ temp_key' = temp_key
             \/ IsName(c) /\ state_' = "header_name" /\ temp_key' = Append(temp_key, c)
      BY <1>2, <2>1 DEF HeaderLineStart, Go, Reject, Keep
    <2>3. CASE c = "cr" /\ state_' = "expecting_newline_3" /\ temp_key' = temp_key
      <3>1. F("expecting_newline_3")
        BY <1>1, <2>1, <2>2, <2>3, FilledIs DEF c
      <3> QED BY <2>3, <3>1
    <2>4. CASE IsBlank(c) /\ state_' = "header_lws" /\ temp_key' = temp_key
      <3>1. SaysFold(text, pos + 1, req, temp_key, temp_value)
        BY <1>1, <2>1, <2>4, SayFold DEF c
      <3>2. F("header_lws")
        BY <2>2, <2>4, <3>1, FilledIs
      <3> QED BY <2>4, <3>2
    <2>5. CASE IsName(c) /\ state_' = "header_name" /\ temp_key' = Append(temp_key, c)
      <3>1. SaysName(text, pos + 1, req, Append(temp_key, c), temp_value)
        BY <1>1, <2>1, <2>5, SayName DEF c
      <3>2. F("header_name")
        BY <2>2, <2>5, <3>1, FilledIs
      <3> QED BY <2>5, <3>2
    <2> QED BY <2>2, <2>3, <2>4, <2>5
  <1>3. CASE HeaderName(c)
    <2>1. SaysName(text, pos, req, temp_key, temp_value)
      BY <1>3 DEF HeaderName, Filled
    <2>2. /\ req' = req /\ temp_value' = temp_value
          /\ \/ c = ":" /\ state_' = "space_before_header_value" /\ temp_key' = temp_key
             \/ IsName(c) /\ state_' = "header_name" /\ temp_key' = Append(temp_key, c)
      BY <1>3 DEF HeaderName, Go, Reject, Keep
    <2>3. CASE c = ":" /\ state_' = "space_before_header_value" /\ temp_key' = temp_key
      <3>1. SaysColon(text, pos + 1, req, temp_key, temp_value)
        BY <1>1, <2>1, <2>3, SayName DEF c
      <3>2. F("space_before_header_value")
        BY <2>2, <2>3, <3>1, FilledIs
      <3> QED BY <2>3, <3>2
    <2>4. CASE IsName(c) /\ state_' = "header_name" /\ temp_key' = Append(temp_key, c)
      <3>1. SaysName(text, pos + 1, req, Append(temp_key, c), temp_value)
        BY <1>1, <2>1, <2>4, SayName DEF c
      <3>2. F("header_name")
        BY <2>2, <2>4, <3>1, FilledIs
      <3> QED BY <2>4, <3>2
    <2> QED BY <2>2, <2>3, <2>4
  <1>4. CASE HeaderText(c)
    <2>1. /\ state_ = "header_lws" => SaysFold(text, pos, req, temp_key, temp_value)
          /\ state_ = "header_value" => SaysValue(text, pos, req, temp_key, temp_value)
      BY DEF Filled
    <2>2. /\ state_ \in {"header_lws", "header_value"} /\ req' = req /\ temp_key' = temp_key
          /\ \/ c = "cr" /\ state_' = "expecting_newline_2" /\ temp_value' = temp_value
             \/ IsBlank(c) /\ state_ = "header_lws" /\ state_' = "header_lws" /\ temp_value' = temp_value
             \/ /\ c \notin Ctl /\ ~(IsBlank(c) /\ state_ = "header_lws")
                /\ state_' = "header_value" /\ temp_value' = Append(temp_value, c)
      BY <1>4 DEF HeaderText, Go, Reject, Keep
    <2>3. CASE c = "cr" /\ state_' = "expecting_newline_2" /\ temp_value' = temp_value
      <3>1. SaysFieldEnd(text, pos + 1, req, temp_key, temp_value)
        BY <1>1, <2>1, <2>2, <2>3, SayFold, SayValue DEF c
      <3>2. F("expecting_newline_2")
        BY <2>2, <2>3, <3>1, FilledIs
      <3> QED BY <2>3, <3>2
    <2>4. CASE IsBlank(c) /\ state_ = "header_lws" /\ state_' = "header_lws" /\ temp_value' = temp_value
      <3>1. SaysFold(text, pos + 1, req, temp_key, temp_value)
        BY <1>1, <2>1, <2>4, SayFold DEF c
      <3>2. F("header_lws")
        BY <2>2, <2>4, <3>1, FilledIs
      <3> QED BY <2>4, <3>2
    <2>5. CASE /\ c \notin Ctl /\ ~(IsBlank(c) /\ state_ = "header_lws")
               /\ state_' = "header_value" /\ temp_value' = Append(temp_value, c)
      <3>1. SaysValue(text, pos + 1, req, temp_key, Append(temp_value, c))
        <4>1. CASE state_ = "header_lws"
          BY <1>1, <2>1, <2>5, <4>1, SayFold DEF c
        <4>2. CASE state_ = "header_value"
          BY <1>1, <2>1, <2>5, <4>2, SayValue DEF c
        <4> QED BY <2>2, <4>1, <4>2
      <3>2. F("header_value")
        BY <2>2, <2>5, <3>1, FilledIs
      <3> QED BY <2>5, <3>2
    <2> QED BY <2>2, <2>3, <2>4, <2>5
  <1> QED BY <1>2, <1>3, <1>4 DEF c

-----------------------------------------------------------------------------
(* The second invariant: on the first pass the request holds what the      *)
(* characters read so far have said.                                       *)

FilledIn ==
  /\ passes = 1 /\ result = "indeterminate" => Filled(state_, text, pos, req, temp_key, temp_value)
  /\ Faithful

LEMMA FilledInit == Init => FilledIn
  BY DEF Init, InitParser, FilledIn, Faithful

LEMMA FilledNext == Inv /\ Inv' /\ FilledIn /\ [Next]_vars => FilledIn'
  <1> SUFFICES ASSUME Inv, Inv', FilledIn, [Next]_vars PROVE FilledIn'
    OBVIOUS
  <1>1. TypeOK /\ Unread /\ BeingRead /\ FirstPass /\ SecondPass
    BY DEF Inv
  <1>2. CASE handle_read
    <2>1. /\ passes' = passes + 1 /\ pos' = 0 /\ state_' = state_ /\ req' = req /\ result' = result
          /\ temp_key' = temp_key /\ temp_value' = temp_value /\ phase = "read"
      BY <1>2 DEF handle_read, parser
    <2>2. result' = "indeterminate"
      BY <1>1, <2>1 DEF Unread, BeingRead, TypeOK
    <2>3. CASE passes = 0
      <3>1. state_ = "method_start" /\ req.uri_ = <<>>
        BY <1>1, <2>3 DEF Unread, NoRequest
      <3>2. Filled("method_start", text', pos', req', temp_key', temp_value')
        BY <2>1, <3>1, FilledIs
      <3>3. Filled(state_', text', pos', req', temp_key', temp_value')
        BY <2>1, <3>1, <3>2
      <3> QED BY <2>2, <3>3 DEF FilledIn, Faithful
    <2>4. CASE passes # 0
      <3>1. passes' # 1
        BY <1>1, <2>1, <2>4 DEF TypeOK
      <3> QED BY <2>2, <3>1 DEF FilledIn, Faithful
    <2> QED BY <2>3, <2>4
  <1>3. CASE parse
    <2>1. /\ result = "indeterminate" /\ pos < Len(text) /\ consume(text[pos + 1])
          /\ pos' = pos + 1 /\ text' = text /\ passes' = passes /\ phase' = phase /\ phase = "parse"
      BY <1>3 DEF parse
    <2>2. CASE passes = 1
      <3>1. /\ Viable(state_, text, pos) /\ HeadersSeen
            /\ Filled(state_, text, pos, req, temp_key, temp_value)
        BY <1>1, <2>1, <2>2 DEF FirstPass, FilledIn
      <3>2. CASE ExpectNewline3(text[pos + 1])
        <4>1. /\ state_ = "expecting_newline_3" /\ req' = req
              /\ result' = IF text[pos + 1] = "lf" THEN "good" ELSE "bad"
          BY <3>2 DEF ExpectNewline3, Keep
        <4>2. pos >= 1 /\ SaysLines(text, pos - 1, req) /\ text[pos] = "cr"
          BY <3>1, <4>1 DEF Filled
        <4>3. ASSUME text[pos + 1] = "lf" PROVE Told(req', Meaning(SubSeq(text, 1, pos + 1)))
          <5>1. text \in Seq(Chars) /\ pos \in Nat \ {0} /\ pos + 1 <= Len(text) /\ req \in Request
            BY <1>1, <2>1, <4>2 DEF TypeOK
          <5>2. req.headers_ \in Headers
            BY <5>1, RequestFields
          <5> QED BY <4>1, <4>2, <4>3, <5>1, <5>2, MeaningIs
        <4> QED BY <2>1, <4>1, <4>3 DEF FilledIn, Faithful, Consumed
      <3>3. CASE ~ExpectNewline3(text[pos + 1])
        <4>1. result' \in {"indeterminate", "bad"}
          BY <2>1, <3>3 DEF consume, Method, Uri, ExpectLiteral, Major, Minor, HeaderLineStart, HeaderName,
                            HeaderText, Go, Reject
        <4>2. ASSUME result' = "indeterminate"
              PROVE  Filled(state_', text, pos + 1, req', temp_key', temp_value')
          BY <1>1, <2>1, <3>1, <3>3, <4>2, FilledInRequestLine, FilledAfterLiteral, FilledInHeader DEF consume
        <4> QED BY <2>1, <4>1, <4>2 DEF FilledIn, Faithful
      <3> QED BY <3>2, <3>3
    <2>3. CASE passes # 1
      <3>1. passes = 2
        BY <1>1, <2>1, <2>3 DEF Unread, TypeOK
      <3>2. result' # "good"
        BY <2>1, <3>1 DEF Inv, SecondPass
      <3> QED BY <2>1, <2>3, <3>2 DEF FilledIn, Faithful
    <2> QED BY <2>2, <2>3
  <1>4. CASE Good \/ TooShort \/ Again \/ Returned \/ UNCHANGED vars
    <2>1. /\ text' = text /\ pos' = pos /\ passes' = passes /\ state_' = state_ /\ req' = req
          /\ temp_key' = temp_key /\ temp_value' = temp_value /\ result' = result
      BY <1>4 DEF Good, TooShort, Again, Returned, vars, parser
    <2> QED BY <2>1 DEF FilledIn, Faithful, Consumed
  <1>5. CASE Bad
    BY <1>5 DEF Bad, FilledIn, Faithful
  <1> QED BY <1>2, <1>3, <1>4, <1>5 DEF Next

\* FaithfulHolds: a request that is accepted has the URI and the headers that its text
\* says, and each version number of it that fits into an int (request_parser.cc:60-244).
THEOREM FaithfulHolds == Spec => []Faithful
  <1>1. FilledIn => Faithful
    BY DEF FilledIn
  <1>2. Spec => []FilledIn
    BY InvHolds, FilledInit, FilledNext, PTL DEF Spec
  <1> QED BY <1>1, <1>2, PTL
=============================================================================
