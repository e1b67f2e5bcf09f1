------------------------------- MODULE Maddy -------------------------------
(***************************************************************************)
(* maddy, the Markdown parser the server is built with                     *)
(* (src/include/maddy/parser.h and the block parsers beside it).           *)
(*                                                                         *)
(* A block parser is a record.  A parser has at most one child, so those   *)
(* that are open are a chain: a sequence, each the child of the one before *)
(* it.  A line is a sequence of tokens: what the                           *)
(* block parsers look at ("1.", ">", " ", ...), words that stand for the   *)
(* text between, and the tags they write.  A line handed down to a child   *)
(* carries the tags its parents put in front of it, and a list ends when   *)
(* it finds its parent's tags in the line.                                 *)
(*                                                                         *)
(* Lines hold at most one "*" and no other inline mark but three back      *)
(* quotes ("fence"), so the inline parsers leave them alone except where   *)
(* runLineParser says.                                                     *)
(***************************************************************************)
EXTENDS Naturals, SequencesExt

CONSTANTS
  Documents,  \* what may be parsed: [shapes |-> lines with "w" for a word,
              \*                      length |-> how many of them (a bound)]
  Words,      \* Words[n] is the word of the n-th line
  Tokens      \* the tokens the lines consist of

ASSUME MaddyAssumption ==
  /\ Words \in Seq(Tokens)
  /\ \A d \in Documents :
       /\ d.length \in Nat /\ d.length <= Len(Words)
       /\ d.shapes \subseteq Seq(Tokens \cup {"w"})

VARIABLES
  doc,     \* the document, of which the lines are chosen as they are read
  read,    \* the lines std::getline has delivered
  block,   \* currentBlockParser and the parsers nested in it, outermost first
  output,  \* result, the HTML so far
  phase    \* "reading", "returned", or "undefined" (past the end of a vector)

vars == <<doc, read, block, output, phase>>

\* The order in which getBlockParserForLine tries the parsers.  (HtmlParser is
\* never made: the server passes no configuration.)
Order == <<"code", "headline", "hr", "quote", "table", "checklist",
           "ordered", "unordered", "paragraph">>
Kinds == ToSet(Order)

NewParser(kind) ==
  [kind |-> kind, started |-> FALSE, finished |-> FALSE, result |-> <<>>,
   table |-> <<>>, currentBlock |-> 0]

\* The elements the parsers write, by their tags.
Open ==
  [p |-> "<p>", ul |-> "<ul>", ol |-> "<ol>", li |-> "<li>", label |-> "<label>",
   blockquote |-> "<blockquote>", pre |-> "<pre>", code |-> "<code>", table |-> "<table>",
   thead |-> "<thead>", tbody |-> "<tbody>", tfoot |-> "<tfoot>", tr |-> "<tr>", th |-> "<th>",
   td |-> "<td>", h1 |-> "<h1>", h2 |-> "<h2>", h3 |-> "<h3>", h4 |-> "<h4>", h5 |-> "<h5>",
   h6 |-> "<h6>"]
Close ==
  [p |-> "</p>", ul |-> "</ul>", ol |-> "</ol>", li |-> "</li>", label |-> "</label>",
   blockquote |-> "</blockquote>", pre |-> "</pre>", code |-> "</code>", table |-> "</table>",
   thead |-> "</thead>", tbody |-> "</tbody>", tfoot |-> "</tfoot>", tr |-> "</tr>", th |-> "</th>",
   td |-> "</td>", h1 |-> "</h1>", h2 |-> "</h2>", h3 |-> "</h3>", h4 |-> "</h4>", h5 |-> "</h5>",
   h6 |-> "</h6>"]
Tags == DOMAIN Open
TagTokens == {Open[t] : t \in Tags} \cup {Close[t] : t \in Tags}
Element(tag, content) == <<Open[tag]>> \o content \o <<Close[tag]>>

Separator == <<"-", " ", "|", " ", "-", " ", "|", " ", "-">>

\* What the parsers look for in a line, and what they write that is no tag.
Marks == {" ", "cr", "1.", "*", "-", "+", "#", ">", "|", "[x]", "[ ]", "[", "]", "fence", "---",
          "table>", "<table", "\n", "tick", "<br>", "<hr/>", "<input/>"}

\* A word is none of them, and the text has no HTML of its own.
ASSUME TextAssumption ==
  /\ \A i \in DOMAIN Words : Words[i] \notin Marks
  /\ Tokens \cap TagTokens = {}

-----------------------------------------------------------------------------
(* The regular expressions. *)

\* "." matches no carriage return, so no pattern that ends in ".*" matches a
\* line with one behind the mark.
Matches(mark, line) ==
  IsPrefix(mark, line) /\ ~Contains(SubSeq(line, Len(mark) + 1, Len(line)), "cr")

Strip(mark, line) ==
  IF IsPrefix(mark, line) THEN SubSeq(line, Len(mark) + 1, Len(line)) ELSE line

Finds(part, line) ==
  \E i \in 0 .. Len(line) - Len(part) : SubSeq(line, i + 1, i + Len(part)) = part

Hashes(n) == [i \in 1 .. n + 1 |-> IF i <= n THEN "#" ELSE " "]

\* The box may be barred too ([x| ] is a set of three), but no box is written for it.
Boxes   == {"[x]", "[ ]"}
Checks  == {<<"-", " ", b, " ">> : b \in Boxes} \cup {<<"-", " ", "[", "|", "]", " ">>}
Bullets == {<<"+", " ">>, <<"*", " ">>, <<"-", " ">>}

IsStartingLine(kind, line) ==
  CASE kind = "code"      -> line = <<"fence">>
    [] kind = "headline"  -> \E n \in 1 .. 6 : Matches(Hashes(n), line)
    [] kind = "hr"        -> line = <<"---">>
    [] kind = "quote"     -> Matches(<<">">>, line)
    [] kind = "table"     -> line = <<"|", "table>">>
    [] kind = "checklist" -> \E m \in Checks : Matches(m, line)
    [] kind = "ordered"   -> Matches(<<"1.", " ">>, line)
    [] kind = "unordered" -> \E m \in Bullets : Matches(m, line)
    [] kind = "paragraph" -> line # <<>>

\* Which blocks may open inside one of the given kind: the callbacks given to
\* the block parsers, and isInlineBlockAllowed.
ChildKinds(kind) ==
  CASE kind = "quote"     -> Kinds
    [] kind = "checklist" -> {"checklist"}
    [] kind \in {"ordered", "unordered"} -> {"ordered", "unordered"}
    [] OTHER -> {}

getBlockParserForLine(kinds, line) ==
  LET able == {i \in DOMAIN Order : Order[i] \in kinds /\ IsStartingLine(Order[i], line)}
  IN  IF able = {} THEN <<>> ELSE <<NewParser(Order[Min(able)])>>

\* isLineParserAllowed, and the inline parsers: a carriage return is a <br>;
\* three back quotes are read as an empty inline code and one more.
LineParsed == Kinds \ {"code", "headline", "hr"}

runLineParser(line) ==
  FlattenSeq([i \in DOMAIN line |->
    CASE line[i] = "cr"  -> <<"<br>">>
      [] line[i] = "fence" -> Element("code", <<>>) \o <<"tick">>
      [] OTHER           -> <<line[i]>>])

-----------------------------------------------------------------------------
(* Lists. *)

OpenList(kind) ==
  CASE kind = "checklist" -> <<"<ul>", "<li>", "<label>">>
    [] kind = "ordered"   -> <<"<ol>", "<li>">>
    [] kind = "unordered" -> <<"<ul>", "<li>">>

NextItem(kind) ==
  IF kind = "checklist" THEN <<"</label>", "</li>", "<li>", "<label>">>
                        ELSE <<"</li>", "<li>">>

CloseList(kind) ==
  CASE kind = "checklist" -> <<"</label>", "</li>", "</ul>">>
    [] kind = "ordered"   -> <<"</li>", "</ol>">>
    [] kind = "unordered" -> <<"</li>", "</ul>">>

\* The parents' tags that end a list.
\* Faulty variant: a list is ended by the tags of its own kind only.
OwnEnds(kind) == {NextItem(kind), CloseList(kind)}
Ends(kind) ==
  IF kind = "checklist" THEN {NextItem(kind), CloseList(kind)}
  ELSE {NextItem(kind), CloseList("ordered"), CloseList("unordered")}

\* std::isspace holds of a carriage return too.
Indentation(line) ==
  LET text == {i \in DOMAIN line : line[i] \notin {" ", "cr"}}
  IN  IF text = {} THEN Len(line) ELSE (CHOOSE i \in text : \A j \in text : i <= j) - 1

isStartOfNewListItem(kind, line) ==
  IF kind = "ordered" THEN Matches(<<"1.", " ">>, line) \/ Matches(<<"*", " ">>, line)
                      ELSE IsStartingLine(kind, line)

Box(line) ==
  IF line # <<>> /\ line[1] \in Boxes THEN <<"<input/>">> \o Tail(line) ELSE line

Unmarked(kind, line) ==
  CASE kind = "checklist" -> Box(Strip(<<"-", " ">>, line))
    [] kind = "ordered"   -> Strip(<<"*", " ">>, Strip(<<"1.", " ">>, line))
    [] kind = "unordered" -> IF \E m \in Bullets : IsPrefix(m, line)
                             THEN SubSeq(line, 3, Len(line)) ELSE line

parseList(p, line) ==
  LET text == Unmarked(p.kind, line) IN
  CASE ~p.started ->
         [p |-> [p EXCEPT !.started = TRUE], line |-> OpenList(p.kind) \o text]
    [] p.started /\ Indentation(line) >= 2 ->
         [p |-> p, line |-> SubSeq(text, 3, Len(text))]
    [] p.started /\ Indentation(line) < 2
         /\ (text = <<>> \/ \E e \in Ends(p.kind) : Finds(e, text)) ->
         [p |-> [p EXCEPT !.finished = TRUE], line |-> CloseList(p.kind) \o text]
    [] OTHER ->
         [p |-> p, line |-> IF isStartOfNewListItem(p.kind, line)
                            THEN NextItem(p.kind) \o text ELSE text]

-----------------------------------------------------------------------------
(* The other blocks. *)

parseCode(p, line) ==
  CASE line # <<"fence">> -> [p |-> p, line |-> Append(line, "\n")]
    [] line = <<"fence">> /\ ~p.started ->
         [p |-> [p EXCEPT !.started = TRUE], line |-> <<"<pre>", "<code>", "\n">>]
    [] line = <<"fence">> /\ p.started ->
         [p |-> [p EXCEPT !.started = FALSE, !.finished = TRUE],
          line |-> <<"</code>", "</pre>">>]

Headings == <<"h1", "h2", "h3", "h4", "h5", "h6">>

\* One line long: IsFinished is always true.
parseHeadline(p, line) ==
  LET n == CHOOSE n \in 1 .. 6 : IsPrefix(Hashes(n), line)
  IN  [p |-> [p EXCEPT !.finished = TRUE],
       line |-> Element(Headings[n], Strip(Hashes(n), line))]

parseHorizontalLine(p, line) == [p |-> [p EXCEPT !.finished = TRUE], line |-> <<"<hr/>">>]

parseParagraph(p, line) ==
  CASE ~p.started ->
         [p |-> [p EXCEPT !.started = TRUE], line |-> <<"<p>">> \o line \o <<" ">>]
    [] p.started /\ line = <<>> ->
         [p |-> [p EXCEPT !.finished = TRUE], line |-> <<"</p>">>]
    [] OTHER -> [p |-> p, line |-> Append(line, " ")]

\* "> " and then a ">" that this leaves in front are taken off.
\* Faulty variant: the blank is added to an empty line too.
parseQuoteBlank(p, line) ==
  [p |-> [p EXCEPT !.started = TRUE,
                   !.result = IF p.started THEN @ ELSE <<"<blockquote>">>],
   line |-> Append(Strip(<<">">>, Strip(<<">", " ">>, line)), " ")]

parseQuote(p, line) ==
  LET text == Strip(<<">">>, Strip(<<">", " ">>, line))
  IN  [p |-> [p EXCEPT !.started = TRUE,
                       !.result = IF p.started THEN @ ELSE <<"<blockquote>">>],
       line |-> IF text = <<>> THEN text ELSE Append(text, " ")]

-----------------------------------------------------------------------------
(* Tables. *)

Split(segments, tok) ==
  IF tok = "|" THEN Append(segments, <<>>)
               ELSE [segments EXCEPT ![Len(segments)] = Append(@, tok)]

SplitAtBars(line) ==
  LET segments[n \in 0 .. Len(line)] ==
        IF n = 0 THEN << <<>> >> ELSE Split(segments[n - 1], line[n])
  IN  segments[Len(line)]

\* std::getline with '|': a last segment that is empty is not delivered.
\* Faulty variant: the last segment is never delivered.
AllButLast(line) == Front(SplitAtBars(line))
Segments(line) ==
  LET segments == SplitAtBars(line)
  IN  IF Last(segments) = <<>> THEN Front(segments) ELSE segments

\* One block is pushed when the table is too short, whatever currentBlock is.
\* Faulty variant: one row late.
GrownLate(p) == IF Len(p.table) < p.currentBlock THEN Append(p.table, <<>>) ELSE p.table
Grown(p) == IF Len(p.table) < p.currentBlock + 1 THEN Append(p.table, <<>>) ELSE p.table

\* The line is a row, and table[currentBlock] is past the end.
IsRow(p, line) ==
  p.kind = "table" /\ p.started /\ line \notin {Separator, <<"|", "<table">>}
OutOfRange(p, line) == IsRow(p, line) /\ p.currentBlock >= Len(Grown(p))

Section(table, i) ==
  LET tag  == CASE i = 1 /\ Len(table) > 1            -> "thead"
                [] i = Len(table) /\ Len(table) >= 3  -> "tfoot"
                [] OTHER                              -> "tbody"
      cell == IF tag = "thead" THEN "th" ELSE "td"
      Row(row) == Element("tr", FlattenSeq([c \in DOMAIN row |-> Element(cell, row[c])]))
  IN  Element(tag, FlattenSeq([r \in DOMAIN table[i] |-> Row(table[i][r])]))

Table(table) == Element("table", FlattenSeq([i \in DOMAIN table |-> Section(table, i)]))

AddTableLine(p, line) ==
  CASE ~p.started -> [p EXCEPT !.started = TRUE]
    [] p.started /\ line = Separator -> [p EXCEPT !.currentBlock = @ + 1]
    [] p.started /\ line = <<"|", "<table">> ->
         [p EXCEPT !.result = Table(p.table), !.finished = TRUE]
    [] OTHER ->
         LET segments == Segments(line)
             row == [i \in DOMAIN segments |-> runLineParser(segments[i])]
         IN  [p EXCEPT !.table = [Grown(p) EXCEPT ![p.currentBlock + 1] = Append(@, row)]]

-----------------------------------------------------------------------------
(* BlockParser::AddLine, with the overrides of QuoteParser and TableParser. *)

\* A table's lines go into its rows, and nothing is left to write.
parseBlock(p, line) ==
  CASE p.kind = "code"      -> parseCode(p, line)
    [] p.kind = "headline"  -> parseHeadline(p, line)
    [] p.kind = "hr"        -> parseHorizontalLine(p, line)
    [] p.kind = "quote"     -> parseQuote(p, line)
    [] p.kind = "paragraph" -> parseParagraph(p, line)
    [] p.kind = "table"     -> [p |-> AddTableLine(p, line), line |-> <<>>]
    [] OTHER                -> parseList(p, line)

\* A line on its way down the chain: the parsers that have had it, the line the
\* last of them was given, and what that one has made of it.
Hand(way, p) ==
  LET b == parseBlock(p, way.line)
  IN  [chain |-> Append(way.chain, b.p), given |-> way.line, line |-> b.line]

\* The child of the last one: empty if it has none and opens none.
Child(chain, way) ==
  IF Len(way.chain) < Len(chain) THEN <<chain[Len(way.chain) + 1]>>
  ELSE getBlockParserForLine(ChildKinds(Last(way.chain).kind), way.line)

\* A child that is opened takes a mark off the line, so that no more parsers
\* than Depth get one.
Depth(chain, line) == Len(chain) + Len(line) + 1

HandedDown(chain, line) ==
  LET way[n \in 0 .. Depth(chain, line)] ==
        IF n = 0 THEN [chain |-> <<>>, given |-> line, line |-> line]
        ELSE LET before == way[n - 1]
                 child  == Child(chain, before)
             IN  IF child = <<>> THEN before ELSE Hand(before, child[1])
  IN  way[Depth(chain, line)]

\* The innermost parser writes what is left of the line.
Written(way) ==
  LET p    == Last(way.chain)
      text == IF p.kind \in LineParsed THEN runLineParser(way.line) ELSE way.line
  IN  IF p.kind = "quote" /\ way.given = <<>>
      THEN [p EXCEPT !.result = Append(@, "</blockquote>"), !.finished = TRUE]
      ELSE [p EXCEPT !.result = @ \o text]

\* A finished child's result goes to its parent, an unfinished one stays.
Adopt(p, below) ==
  IF below # <<>> /\ below[1].finished THEN <<[p EXCEPT !.result = @ \o below[1].result]>>
                                       ELSE <<p>> \o below

Adopted(chain) ==
  LET below[n \in 0 .. Len(chain)] ==
        IF n = 0 THEN <<>> ELSE Adopt(chain[Len(chain) - n + 1], below[n - 1])
  IN  below[Len(chain)]

AddLine(chain, line) ==
  LET way == HandedDown(chain, line)
  IN  Adopted([way.chain EXCEPT ![Len(way.chain)] = Written(way)])

-----------------------------------------------------------------------------
(* Parser::Parse. *)

Init ==
  /\ doc \in Documents
  /\ read = <<>> /\ block = <<>> /\ output = <<>>
  /\ phase = "reading"

Numbered(shape) ==
  [i \in DOMAIN shape |-> IF shape[i] = "w" THEN Words[Len(read) + 1] ELSE shape[i]]

\* The block after AddLine: its result is taken when it is finished.
Take(chain) ==
  IF chain[1].finished THEN output' = output \o chain[1].result /\ block' = <<>>
                       ELSE output' = output /\ block' = chain

ReadLine(line) ==
  /\ phase = "reading" /\ Len(read) < doc.length
  /\ read' = Append(read, line)
  /\ LET chain == IF block = <<>> THEN getBlockParserForLine(Kinds, line) ELSE block IN
     \/ /\ chain = <<>>
        /\ UNCHANGED <<block, output, phase>>
     \/ /\ chain # <<>> /\ ~OutOfRange(chain[1], line)
        /\ Take(AddLine(chain, line))
        /\ UNCHANGED phase
     \/ /\ chain # <<>> /\ OutOfRange(chain[1], line)
        /\ phase' = "undefined"
        /\ UNCHANGED <<block, output>>
  /\ UNCHANGED doc

\* There are no more lines: the open block is given one empty line more.
EndOfInput ==
  /\ phase = "reading"
  /\ \/ /\ block = <<>>
        /\ phase' = "returned"
        /\ UNCHANGED <<block, output>>
     \/ /\ block # <<>> /\ ~OutOfRange(block[1], <<>>)
        /\ Take(AddLine(block, <<>>))
        /\ phase' = "returned"
     \/ /\ block # <<>> /\ OutOfRange(block[1], <<>>)
        /\ phase' = "undefined"
        /\ UNCHANGED <<block, output>>
  /\ UNCHANGED <<doc, read>>

Done == phase # "reading" /\ UNCHANGED vars

Next == (\E s \in doc.shapes : ReadLine(Numbered(s))) \/ EndOfInput \/ Done
Spec == Init /\ [][Next]_vars

-----------------------------------------------------------------------------
(* Properties. *)

\* Balanced: whatever was nested in whatever and however it was ended, every
\* tag the result opens is closed, in the reverse order.  A list is closed by
\* finding in the line the tags its parent has just put there.
Nest(stack, tok) ==
  IF \E t \in Tags : tok = Open[t] THEN Append(stack, tok)
  ELSE IF \E t \in Tags : tok = Close[t]
       THEN IF stack # <<>> /\ \E t \in Tags : tok = Close[t] /\ Last(stack) = Open[t]
            THEN Front(stack) ELSE Append(stack, tok)
       ELSE stack

Balanced == FoldLeft(Nest, <<>>, output) = <<>>

\* TextKept: the words of the lines read are in the result and in the open
\* block, once each and in their order.  After the end of the input the open
\* block is what is lost; nothing else is.
Pending == FlattenSeq([i \in DOMAIN block |->
                         block[i].result \o FlattenSeq(FlattenSeq(FlattenSeq(block[i].table)))])

WordsOf(tokens) ==
  FlattenSeq([i \in DOMAIN tokens |->
                IF Contains(Words, tokens[i]) THEN <<tokens[i]>> ELSE <<>>])

TextKept ==
  phase # "undefined" =>
    WordsOf(output) \o WordsOf(Pending) = WordsOf(FlattenSeq(read))

\* EmptyLineEnds: an empty line within the document ends every paragraph and
\* every list, however deep they are nested; what it leaves open is a code block,
\* a table, or quotes alone.
EmptyLineEnds ==
  phase = "reading" /\ read # <<>> /\ Last(read) = <<>> =>
    \/ \A i \in DOMAIN block : block[i].kind = "quote"
    \/ Len(block) = 1 /\ block[1].kind \in {"code", "table"}

\* AllFinished: "make sure, that all parsers are finished" (parser.h:105): no block
\* is open when Parse returns, so the result holds all that was read.
AllFinished == phase = "returned" => block = <<>>

\* RowsFirst: a table is read past its end only when one of its separators
\* has no row before it.
RowsFirst ==
  phase = "undefined" =>
    \E i \in 2 .. Len(read) : /\ read[i] = Separator
                              /\ read[i - 1] \in {Separator, <<"|", "table>">>}
=============================================================================
