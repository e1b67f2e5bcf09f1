--------------------------- MODULE MCSessionRead ---------------------------
(***************************************************************************)
(* Reads for SessionRead: a request with no header, and one whose second   *)
(* header line continues the first and whose third repeats its name; with  *)
(* either kind of line end; reads that differ from one of them by one      *)
(* character lost, added or replaced; every part of them that a first read *)
(* could deliver; reads with a body; and one with a version number that is *)
(* more than MaxInt beside one that is not.                                *)
(***************************************************************************)
EXTENDS SessionRead

MCChars == {"G", "H", "T", "P", ".", "1", "slash", ":", "sp", "tab", "cr", "lf", "hi"}
MCBad == <<"slash", "1">>
MCDigits == [d \in {"1"} |-> 1]

Line    == <<"G", "sp", "slash", "sp", "H", "T", "T", "P", "slash", "1", ".", "1">>
Wide    == <<"G", "sp", "sp", "H", "T", "T", "P", "slash", "1", "1", ".", "1", "1", "1">>
Header  == <<"G", ":", "sp", "T">>
Header2 == <<"G", ":", "sp", "1">>
Folded  == <<"tab", "1">>

\* The lines of a request, each followed by the line end eol.
Text(lines, eol) == FlattenSeq([n \in DOMAIN lines |-> lines[n] \o eol])
Short(eol) == Text(<<Line, <<>>>>, eol)
Long(eol)  == Text(<<Line, Header, Folded, Header2, <<>>>>, eol)

Lost(t)     == {Before(t, n) \o After(t, n) : n \in DOMAIN t}
Replaced(t) == {[t EXCEPT ![n] = c] : n \in DOMAIN t, c \in MCChars}
Added(t)    == {Before(t, n) \o <<c>> \o SubSeq(t, n, Len(t)) : n \in DOMAIN t, c \in MCChars}
Parts(t)    == {SubSeq(t, 1, n) : n \in DOMAIN t}
WithBody(t) == {t \o <<"G">>, t \o <<"G", "lf">>, t \o <<"G", "cr", "lf">>}

MCReads ==
  UNION {Replaced(Long(CrLf)), Lost(Long(CrLf)), Parts(Long(CrLf)), WithBody(Long(CrLf)),
         Added(Short(CrLf)), Added(Long(CrLf)), Parts(Short(CrLf)), WithBody(Short(CrLf)),
         Lost(Long(<<"lf">>)), Parts(Long(<<"lf">>)), WithBody(Short(<<"lf">>)),
         {Text(<<Wide, <<>>>>, CrLf)}}

\* From every state of the automaton that rejects nothing yet, some suffix of
\* this request completes the part that was read.
MCCompletions ==
  LET whole == Text(<<<<"G">> \o Line, Header, <<>>>>, CrLf)
  IN  {SubSeq(whole, n, Len(whole)) : n \in DOMAIN whole}
=============================================================================
