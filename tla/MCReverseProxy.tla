--------------------------- MODULE MCReverseProxy ---------------------------
(***************************************************************************)
(* A site of a few targets for ReverseProxy, fewer than MaxCalls.  Its     *)
(* responses redirect (to itself, to another target, to another host, to   *)
(* nowhere, or with the host name in a path) or carry a page, plain or     *)
(* compressed; the malformed ones are the parts of one.                    *)
(***************************************************************************)
EXTENDS ReverseProxy

ASSUME MCFewTargets == FewTargets

MCChars == {"v", "1", ".", "2", "3", "0", "4", "sp", "tab", "cr", "lf", ":", "slash", "a", "u", "D", "E",
            "h", "Location", "Content-Encoding", "Content-Length", "gzip", "gz", "href", "src"}

Status(digits) == <<"v", "1", ".", "1", "sp">> \o digits \o <<"sp", "a">>
Message(digits, code, lines, body) ==
  [status |-> Status(digits), code |-> code, lines |-> lines, body |-> body]
Ok(lines, body) == Message(<<"2", "0", "0">>, 200, lines, body)

Page     == <<"href", "slash", "a", "src", "slash", "href", "u">>
Encoding == <<<<"Content-Encoding">>, <<"sp", "gzip">>>>
Locations == {<<"D", "slash", "a">>, <<"h", ":", "slash", "slash", "D">>, <<"h", ":", "D", "slash">>,
              <<"D", "slash", "u", "slash", "u">>, <<"E", "slash">>,
              <<"D", "slash", "a", "D", "slash", "u">>, <<"E", "slash", "D", "slash", "a">>}

MCMessages ==
  {Message(<<"3", "0", "2">>, 302, <<<<<<"Location">>, <<"sp">> \o l \o <<"sp">>>>>>, <<>>) : l \in Locations}
    \cup {Message(<<"3", "0", "1">>, 301, <<>>, <<"a">>),
          Message(<<"4", "0", "4">>, 404, <<<<<<"a">>, <<":", "a", ":", "tab">>>>, <<<<"a">>, <<>>>>>>, Page),
          Ok(<<>>, Page), Ok(<<<<<<"a", "sp">>, <<"a", ":", "1">>>>, <<<<"Content-Length">>, <<"1">>>>, Encoding>>, <<"gz">> \o Page),
          Ok(<<Encoding>>, <<>>), Ok(<<Encoding>>, <<"a">>), Ok(<<Encoding>>, <<"a", "a">>), Ok(<<Encoding>>, <<"gz">>)}

Whole == Text(Ok(<<<<<<"a">>, <<"a">>>>>>, <<"a">>))
MCMalformed == {SubSeq(Whole, 1, n) : n \in 0..Len(Whole) - 4}
                 \cup {<<"cr", "lf">>, <<"cr", "lf", "a">>, <<"cr", "lf", "a", "cr">>}

U == <<"slash", "u">>
MCUris == {U, U \o <<"slash">>, U \o <<"slash", "a">>, U \o U, U \o <<"a">>}
=============================================================================
