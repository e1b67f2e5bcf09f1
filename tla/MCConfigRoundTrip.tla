------------------------- MODULE MCConfigRoundTrip -------------------------
(***************************************************************************)
(* Files for ConfigRoundTrip: every text of at most four characters, and   *)
(* every sequence of at most four pieces of longer files.                  *)
(***************************************************************************)
EXTENDS ConfigRoundTrip

MCChars == {"p", "1", "9", " ", "tab", "lf", "cr", ";", "{", "}", "#", "\"", "'"}
MCKey == <<"p">>
\* 9 stands for a port that a short cannot hold.
MCStoi == [t \in {<<"1">>, <<"9">>, <<"1", "cr">>} |-> IF t = <<"9">> THEN 40000 ELSE 80]

Pieces == {<<"p", " ", "1", ";">>, <<"p", " ", "9", ";", "lf">>, <<"1", "{">>, <<"p", " ", "1", " ", "{">>,
           <<"}">>, <<"'", ";", "'">>, <<"\"", " ", "\"">>, <<"#", "{", "cr">>}

Texts(n) == UNION {[1..k -> {"p", "1", "lf", "cr", ";", "{", "}", "#", "\""}] : k \in 0..n}
MCFiles ==
  Texts(4) \cup {FlattenSeq(s) : s \in UNION {[1..k -> Pieces] : k \in 0..4}}
=============================================================================
