--------------------------- MODULE RequestGrammar ---------------------------
(***************************************************************************)
(* What a request is, line by line: the reference that the automaton of    *)
(* RequestParser is compared with.                                         *)
(***************************************************************************)
EXTENDS RequestParser, FiniteSetsExt, SequencesExt

Before(t, n) == SubSeq(t, 1, n - 1)
After(t, n)  == SubSeq(t, n + 1, Len(t))
All(t, P(_)) == \A n \in DOMAIN t : P(t[n])
Where(t, c)  == {n \in DOMAIN t : t[n] = c}

IsPlain(c)   == c \notin Ctl
IsNumber(t)  == t # <<>> /\ All(t, IsDigit)
NumberOf(t)  == FoldLeft(LAMBDA n, d : 10 * n + DigitValue[d], 0, t)

\* "HTTP/" major "." minor
IsVersion(t) ==
  /\ Len(t) > 5 /\ SubSeq(t, 1, 5) = <<"H", "T", "T", "P", "slash">>
  /\ \E n \in Where(t, ".") : IsNumber(SubSeq(t, 6, n - 1)) /\ IsNumber(After(t, n))

\* method SP uri SP version; the URI may be empty.
FirstSpace(t)  == Min(Where(t, "sp"))
SecondSpace(t) == Min(Where(t, "sp") \ {FirstSpace(t)})
UriOf(t)       == SubSeq(t, FirstSpace(t) + 1, SecondSpace(t) - 1)
VersionOf(t)   == After(t, SecondSpace(t))
IsRequestLine(t) ==
  /\ Cardinality(Where(t, "sp")) >= 2
  /\ FirstSpace(t) > 1 /\ All(Before(t, FirstSpace(t)), IsName)
  /\ All(UriOf(t), IsPlain)
  /\ IsVersion(VersionOf(t))

\* name ":" SP value
IsHeader(t) ==
  \E n \in Where(t, ":") :
    /\ 1 < n /\ n < Len(t) /\ t[n + 1] = "sp"
    /\ All(Before(t, n), IsName) /\ All(After(t, n + 1), IsPlain)

\* Blanks, then more of a value: a line that continues the one before.  The
\* automaton keeps its value under the empty name.
IsContinuation(t) ==
  \E n \in DOMAIN t :
    /\ All(SubSeq(t, 1, n), IsBlank) /\ All(After(t, n), IsPlain)
    /\ n = Len(t) \/ ~IsBlank(t[n + 1])

NameOf(t)  == IF IsBlank(t[1]) THEN <<>> ELSE Before(t, Min(Where(t, ":")))
ValueOf(t) == IF IsBlank(t[1])
              THEN After(t, Max({n \in DOMAIN t : All(SubSeq(t, 1, n), IsBlank)}))
              ELSE After(t, Min(Where(t, ":")) + 1)

-----------------------------------------------------------------------------
\* The line that starts at s, and where the header lines of t start.
CrLf == <<"cr", "lf">>
LineAt(t, s) == SubSeq(t, s, Min({n \in s - 1..Len(t) - 2 : SubSeq(t, n + 1, n + 2) = CrLf}))
HeaderStarts(t) == {s \in 3..Len(t) - 2 : SubSeq(t, s - 2, s - 1) = CrLf}

\* t is one request: a request line, header lines, and the empty line.
IsRequest(t) ==
  /\ Len(t) > 4 /\ SubSeq(t, Len(t) - 3, Len(t)) = CrLf \o CrLf
  /\ IsRequestLine(LineAt(t, 1))
  /\ \A s \in HeaderStarts(t) :
       \/ IsHeader(LineAt(t, s))
       \/ IsContinuation(LineAt(t, s)) /\ \E r \in HeaderStarts(t) : r < s

\* What a request says.  Of two lines with one name, the later counts.
Lines(t, k) == {s \in HeaderStarts(t) : NameOf(LineAt(t, s)) = k}
Meaning(t) ==
  LET line == LineAt(t, 1)
      version == VersionOf(line)
      dot == Min(Where(version, "."))
  IN  [uri_ |-> UriOf(line),
       major |-> NumberOf(SubSeq(version, 6, dot - 1)),
       minor |-> NumberOf(After(version, dot)),
       headers_ |-> [k \in {NameOf(LineAt(t, s)) : s \in HeaderStarts(t)} |->
                       ValueOf(LineAt(t, Max(Lines(t, k))))]]
=============================================================================
