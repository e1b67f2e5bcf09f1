------------------------------ MODULE MCServer ------------------------------
(***************************************************************************)
(* Small instances of Server for TLC: a few threads and sessions, one URI  *)
(* per case of dispatch, and the reads that matter to each run.            *)
(***************************************************************************)
EXTENDS Server, TLC

(* The shape of the shipped configuration: "/" catches what nothing else   *)
(* matches, "/badrequest" is served by the bad request handler.            *)
MCUris == {"/static", "/status", "/badrequest"}
Shipped == "/static" :> "static" @@ "/status" :> "status" @@ "/badrequest" :> "badrequest"

(* With a reverse proxy, and the static handler at "/", which "/badrequest" *)
(* then reaches too.                                                        *)
ProxyUris == {"/proxy", "/status", "/badrequest"}
Proxying  == "/proxy" :> "proxy" @@ "/status" :> "status" @@ "/badrequest" :> "static"

(* A configuration with neither NotFoundHandler nor BadRequestHandler: some *)
(* URIs match no location.                                                  *)
BareUris == {"/status", "/proxy", "/badrequest"}
Bare == "/status" :> "status" @@ "/proxy" :> "proxy" @@ "/badrequest" :> NULL

(* Reads.  A request that is not well formed may have left any URI behind. *)
Good(uris) == [result : {"good"}, uri : uris]
Other(results) == [result : results, uri : {"/status"}]

ProxyInputs   == Good({"/proxy", "/status"}) \cup Other({"indeterminate", "error"})
AllInputs     == Good({"/status", "/proxy"})
                   \cup Other({"bad", "indeterminate", "short", "error"})
WholeInputs   == Good({"/static", "/status"}) \cup Other({"bad", "error"})
BareInputs    == Good({"/status"}) \cup Other({"bad"})

(* Sessions are interchangeable, but symmetry is not sound where a liveness *)
(* property is checked: they are used in this order instead.                *)
Named   == <<"s1", "s2", "s3", "s4">>
InOrder == \A i \in 2 .. Cardinality(Sessions) :
             op[Named[i]] # "unborn" => op[Named[i - 1]] # "unborn"

(* Only start_accept takes a fresh session, so the order is asked of Continue. *)
OrderedInit == Init /\ InOrder
OrderedNext ==
  \/ \E s \in Sessions : Environment(s)
  \/ \E t \in Threads, s \in Sessions : Dequeue(t, s)
  \/ \E t \in Threads : (Continue(t) /\ InOrder') \/ Crash(t)
  \/ Rest

OrderedSpec == OrderedInit /\ [][OrderedNext]_vars /\ Fairness
=============================================================================
