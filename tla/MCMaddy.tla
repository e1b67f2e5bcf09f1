------------------------------ MODULE MCMaddy ------------------------------
(***************************************************************************)
(* Small documents for Maddy, by what nests: lists in lists, checklists,   *)
(* quotes with everything in them, tables, and any block after any other.  *)
(***************************************************************************)
EXTENDS Maddy

MCWords == <<"w1", "w2", "w3", "w4", "w5", "w6", "w7">>

Empty  == <<>>
Text   == <<"w">>
Indent == <<" ", " ">>
Item   == <<"1.", " ", "w">>
Star   == <<"*", " ", "w">>
Dash   == <<"-", " ", "w">>
Check  == <<"-", " ", "[x]", " ", "w">>
Unchecked == <<"-", " ", "[ ]", " ", "w">>
Barred == <<"-", " ", "[", "|", "]", " ", "w">>
Quote(line) == <<">">> \o line
SpacedQuote(line) == <<">", " ">> \o line
Headline(n) == Hashes(n) \o <<"w">>
Return == <<"w", "cr">>
TableStart == <<"|", "table>">>
TableEnd   == <<"|", "<table">>
Cells      == <<"w", "|", "w">>

Lists == [shapes |-> {Empty, Text, Item, Star, Dash, Indent \o Item, Indent \o Dash},
          length |-> 5]
Checklists == [shapes |-> {Empty, Text, Dash, Check, Barred, Indent \o Unchecked, Indent \o Check},
               length |-> 5]
Quotes == [shapes |-> {Empty, Text, SpacedQuote(Text), Quote(Quote(Text)), SpacedQuote(Item),
                       SpacedQuote(Headline(2)), Indent \o Dash, SpacedQuote(Check)},
           length |-> 5]
Tables == [shapes |-> {TableStart, Cells, Separator, TableEnd}, length |-> 7]
Mixed  == [shapes |-> {Empty, Text, <<"fence">>, <<"---">>, Headline(1), Headline(7), Item, Star,
                       Check, SpacedQuote(Text), Separator, TableStart, TableEnd, Return,
                       Item \o <<"cr">>, <<"cr">>, SpacedQuote(<<"fence">>)},
           length |-> 4]

MCTokens == ToSet(MCWords) \cup
          {" ", "1.", "*", "-", "#", ">", "|", "[x]", "[ ]", "[", "]", "cr", "fence", "---", "table>", "<table"}

MCDocuments == {Lists, Checklists, Quotes, Tables, Mixed}

\* No marks that are left unclosed: a text and a quote, and what may end them.
QuoteDocuments == {[shapes |-> {Empty, Text, SpacedQuote(Text), Headline(2)}, length |-> 4]}
=============================================================================
