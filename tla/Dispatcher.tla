----------------------------- MODULE Dispatcher -----------------------------
(***************************************************************************)
(* RequestHandlerDispatcher (src/src/request_handler/dispatcher.cc): the   *)
(* constructor registers one handler per location statement of the         *)
(* configuration, in order; dispatch then scans the registered prefixes    *)
(* for the longest one that begins the request's URI.                      *)
(*                                                                         *)
(* Paths and URIs are sequences of characters, because prefixes of them    *)
(* are what this component is about.  A handler is the number of the       *)
(* statement it was created for, or NULL when Init returned a null pointer *)
(* (ReverseProxyHandler::Init, given a port that is not a number).         *)
(***************************************************************************)
EXTENDS Naturals, Sequences, FiniteSets

CONSTANTS
  Chars,       \* the characters of paths and URIs
  Statements,  \* the statements a server block may hold
  MaxLength,   \* statements in a server block, at most (a bound)
  Uris,        \* URIs of requests
  BadPath,     \* "/badrequest"
  NULL

Root == <<"/">>
Types == {"bad", "echo", "health", "markdown", "missing", "redirect", "reverse",
          "static", "status"}

ASSUME DispatcherAssumption ==
  /\ "/" \in Chars
  /\ \A st \in Statements :
       /\ st.path \in Seq(Chars) /\ st.type \in Types \cup {"unknown"}
       /\ st.location \in BOOLEAN   \* tokens_[0] is "location", the path is quoted
       /\ st.null \in BOOLEAN       \* Init returns a null pointer
  /\ Uris \subseteq Seq(Chars)
  /\ BadPath \in Seq(Chars) /\ BadPath # Root
  /\ NULL \notin Nat \cup Seq(Chars)

VARIABLES
  config,               \* the statements of the server block
  i,                    \* the next statement to create a handler for
  handlers_,            \* path -> handler
  request_handler_uri,  \* path -> type, what the status page shows
  num_handlers,
  uri,                  \* the stripped URI being dispatched, or NULL
  iter,                 \* the keys of handlers_ the loop has still to visit
  req_handler, longest_match

table == <<handlers_, request_handler_uri, num_handlers>>
loop  == <<uri, iter, req_handler, longest_match>>
vars  == <<config, i, table, loop>>

\* Trailing slashes are removed while more than one character is left.
KeptLength(p) ==
  CHOOSE n \in 1..Len(p) : /\ n = 1 \/ p[n] # "/"
                           /\ \A m \in n + 1 .. Len(p) : p[m] = "/"
Stripped(p) == IF p = <<>> THEN p ELSE SubSeq(p, 1, KeptLength(p))

\* iter->first == path_uri.substr(0, iter->first.length())
ProperPrefixOf(k, u) == Len(k) < Len(u) /\ SubSeq(u, 1, Len(k)) = k  \* a faulty variant
PrefixOf(k, u) == Len(k) <= Len(u) /\ SubSeq(u, 1, Len(k)) = k

\* std::map operator[] and assignment.
Put(f, k, v) == [x \in DOMAIN f \cup {k} |-> IF x = k THEN v ELSE f[x]]

\* The key a handler is stored under: two types ignore the path they are given.
HandlerKey(st) ==
  CASE st.type = "missing" -> Root
    [] st.type = "bad"     -> BadPath
    [] OTHER               -> Stripped(st.path)

\* The key its type is shown under: the bad request handler's is the path.
TableKeyAsAsked(st) == Stripped(st.path)  \* a faulty variant
TableKey(st) == IF st.type = "missing" THEN Root ELSE Stripped(st.path)

Init ==
  /\ config \in UNION {[1..n -> Statements] : n \in 0..MaxLength}
  /\ i = 1
  /\ handlers_ = <<>> /\ request_handler_uri = <<>> /\ num_handlers = 0
  /\ uri = NULL /\ iter = {} /\ req_handler = NULL /\ longest_match = 0

-----------------------------------------------------------------------------
\* A statement that is no location, has no quoted path, names no known handler,
\* or whose path is taken, is passed over.
SkipsNone(st) == ~st.location \/ st.type = "unknown"  \* a faulty variant
SkipsUntyped(st) == ~st.location \/ Stripped(st.path) \in DOMAIN handlers_  \* likewise
Skips(st) == \/ ~st.location \/ st.type = "unknown"
             \/ Stripped(st.path) \in DOMAIN handlers_

(* createHandler, for the constructor's next statement. *)
createHandler ==
  /\ i <= Len(config)
  /\ i' = i + 1
  /\ IF Skips(config[i])
     THEN UNCHANGED table
     ELSE /\ handlers_' = Put(handlers_, HandlerKey(config[i]),
                              IF config[i].null THEN NULL ELSE i)
          /\ request_handler_uri' =
               Put(request_handler_uri, TableKey(config[i]), config[i].type)
          /\ num_handlers' = num_handlers + 1
  /\ UNCHANGED <<config, loop>>

(* dispatch, up to the loop. *)
dispatch(u) ==
  /\ i > Len(config) /\ uri = NULL
  /\ uri' = Stripped(u)
  /\ iter' = DOMAIN handlers_
  /\ req_handler' = NULL /\ longest_match' = 0
  /\ UNCHANGED <<config, i, table>>

\* iter->first.length() > longest_match
BetterOrEqual(k) == Len(k) >= longest_match  \* a faulty variant
Better(k) == Len(k) > longest_match

(* One iteration. *)
Visit(k) ==
  /\ uri # NULL /\ k \in iter
  /\ iter' = iter \ {k}
  /\ IF PrefixOf(k, uri) /\ Better(k)
     THEN req_handler' = handlers_[k] /\ longest_match' = Len(k)
     ELSE UNCHANGED <<req_handler, longest_match>>
  /\ UNCHANGED <<config, i, table, uri>>

(* The return. *)
Return ==
  /\ uri # NULL /\ iter = {}
  /\ uri' = NULL /\ req_handler' = NULL /\ longest_match' = 0
  /\ UNCHANGED <<config, i, table, iter>>

Next ==
  \/ createHandler
  \/ \E u \in Uris : dispatch(u)
  \/ \E k \in iter : Visit(k)
  \/ Return

Spec == Init /\ [][Next]_vars

-----------------------------------------------------------------------------
(* Properties. *)

Keys == Seq(Chars)

\* Types of the variables.
TypeOK ==
  /\ config \in Seq(Statements) /\ i \in 1..Len(config) + 1
  /\ DOMAIN handlers_ \subseteq Keys
  /\ \A k \in DOMAIN handlers_ : handlers_[k] \in 1..Len(config) \cup {NULL}
  /\ DOMAIN request_handler_uri \subseteq Keys
  /\ \A k \in DOMAIN request_handler_uri : request_handler_uri[k] \in Types
  /\ num_handlers \in Nat
  /\ uri \in Keys \cup {NULL} /\ iter \subseteq DOMAIN handlers_
  /\ req_handler \in 1..Len(config) \cup {NULL} /\ longest_match \in Nat

\* Statements before the n-th that ask for a handler at exactly path k.
Askers(n, k) == {j \in 1..n - 1 : /\ config[j].location
                                  /\ config[j].type \notin {"unknown", "missing", "bad"}
                                  /\ Stripped(config[j].path) = k}
Handler(j) == IF config[j].null THEN NULL ELSE j
Fixed == {Root, BadPath}

\* dispatcher.cc:94-97: at every path but the two fixed ones, the handler is
\* that of the first statement that asked for it, whatever came later.
FirstAsked ==
  \A k \in Keys \cap ({Stripped(st.path) : st \in Statements} \ Fixed) :
    IF Askers(i, k) = {}
    THEN k \notin DOMAIN handlers_
    ELSE /\ k \in DOMAIN handlers_
         /\ \E j \in Askers(i, k) :
              (\A m \in Askers(i, k) : j <= m) /\ handlers_[k] = Handler(j)

\* dispatcher.h:22, for every path but "/badrequest": the status page shows for
\* a registered prefix the type of the statement that was registered there.
TableAgrees ==
  \A k \in DOMAIN handlers_ \ {BadPath} :
    /\ k \in DOMAIN request_handler_uri
    /\ handlers_[k] # NULL => config[handlers_[k]].type = request_handler_uri[k]

\* dispatcher.cc:58-70: in whatever order the map is walked, the handler
\* returned is that of the longest registered prefix of the stripped URI, and
\* NULL when there is none.  The empty prefix never counts.
Matches == {k \in DOMAIN handlers_ : PrefixOf(k, uri) /\ k # <<>>}
LongestPrefix ==
  uri # NULL /\ iter = {} =>
    IF Matches = {}
    THEN req_handler = NULL
    ELSE \E k \in Matches : (\A m \in Matches : Len(m) <= Len(k)) /\ req_handler = handlers_[k]

\* dispatcher.cc:91-97 and 117: a location at "/" of any type but "bad" (it
\* may be written with more slashes, or be the second one there) answers every
\* URI that begins with "/": dispatch returns no null pointer, which session.cc
\* would dereference, if every Init succeeded.
AtRoot(st) == st.location /\ st.type \in Types \ {"bad"} /\ Stripped(st.path) = Root
CatchAll ==
  /\ uri \notin {NULL, <<>>} /\ iter = {} /\ uri[1] = "/"
  /\ \E j \in DOMAIN config : AtRoot(config[j])
  /\ \A j \in DOMAIN config : ~config[j].null
  => req_handler # NULL
=============================================================================
