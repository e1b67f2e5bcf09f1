---------------------------- MODULE MCDispatcher ----------------------------
(***************************************************************************)
(* A small alphabet of paths for Dispatcher: "/", "/a" with and without a  *)
(* slash at its end, "/ab", which has "/a" as a prefix of characters but   *)
(* not of segments, the empty path, and "/r" for "/badrequest".            *)
(***************************************************************************)
EXTENDS Dispatcher

MCChars == {"/", "a", "b", "r", "*"}

A   == <<"/", "a">>
AS  == <<"/", "a", "/">>
AB  == <<"/", "a", "b">>
Bad == <<"/", "r">>

Location(paths, types) ==
  [location : {TRUE}, path : paths, type : types, null : {FALSE}]

MCStatements ==
  Location({Root, A, AS, AB, Bad}, {"echo", "missing", "bad"})
    \cup Location({<<>>}, {"echo"})
    \cup [location : {TRUE}, path : {A, AB}, type : {"reverse"}, null : {TRUE}]
    \cup [location : {FALSE}, path : {A}, type : {"echo"}, null : {FALSE}]
    \cup [location : {TRUE}, path : {A}, type : {"unknown"}, null : {FALSE}]

MCUris == {<<>>, Root, A, AS, AB, Bad, <<"/", "a", "/", "b">>, <<"/", "b", "/", "/">>, <<"*">>}
=============================================================================
