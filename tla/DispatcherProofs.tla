-------------------------- MODULE DispatcherProofs --------------------------
(***************************************************************************)
(* Proofs about Dispatcher, for every set of statements, every length of   *)
(* the configuration and every set of URIs.  IInv is the inductive         *)
(* invariant; LoopInv is the invariant of the loop in dispatch.            *)
(***************************************************************************)
EXTENDS Dispatcher, SequenceTheorems, WellFoundedInduction, TLAPS

(* The matching prefixes the loop has visited. *)
Seen == Matches \ iter

(* The candidate is the handler of a longest prefix among those visited.   *)
LoopInv ==
  uri # NULL =>
    IF Seen = {}
    THEN req_handler = NULL /\ longest_match = 0
    ELSE \E k \in Seen : /\ \A m \in Seen : Len(m) <= Len(k)
                         /\ req_handler = handlers_[k] /\ longest_match = Len(k)

(* Nothing is dispatched before the constructor is done.                   *)
BuiltFirst == uri # NULL => i > Len(config)

IInv == TypeOK /\ FirstAsked /\ TableAgrees /\ BuiltFirst /\ LoopInv

-----------------------------------------------------------------------------
(* The loop that removes slashes stops at a character it keeps: of the     *)
(* positions it may stop at, the last one has only slashes after it.       *)
LEMMA KeptLengthExists ==
  ASSUME NEW p \in Seq(Chars), p # <<>>
  PROVE  KeptLength(p) \in 1..Len(p)
<1> DEFINE Keep == {n \in 1..Len(p) : n = 1 \/ p[n] # "/"}
           Dist == {d \in Nat : \E n \in Keep : d = Len(p) - n}
<1>1. Len(p) \in Nat /\ 1 \in Keep
  OBVIOUS
<1>2. Dist \subseteq Nat /\ Dist # {}
  <2>1. Len(p) - 1 \in Dist
    BY <1>1
  <2> QED BY <2>1
<1>3. PICK d \in Dist : \A e \in Dist : ~(<<e, d>> \in OpToRel(<, Nat))
  <2> HIDE DEF Dist
  <2> QED BY <1>2, WFMin, NatLessThanWellFounded, Zenon
<1>4. \A e \in Dist : ~(e < d)
  BY <1>2, <1>3 DEF OpToRel
<1>5. PICK n \in Keep : d = Len(p) - n
  OBVIOUS
<1>6. ASSUME NEW m \in n + 1 .. Len(p) PROVE p[m] = "/"
  <2>1. SUFFICES ASSUME p[m] # "/" PROVE FALSE
    OBVIOUS
  <2>2. m \in Keep
    BY <1>1, <1>5, <2>1
  <2>3. Len(p) - m \in Dist /\ Len(p) - m < d
    BY <1>1, <1>5, <2>2
  <2> QED BY <1>4, <2>3
<1> QED
  BY <1>1, <1>5, <1>6 DEF KeptLength

(* Stripping keeps a path a path. *)
LEMMA StrippedType ==
  ASSUME NEW p \in Seq(Chars)
  PROVE  Stripped(p) \in Keys
<1>1. CASE p = <<>>
  BY <1>1 DEF Stripped, Keys
<1>2. CASE p # <<>>
  <2>1. KeptLength(p) \in 1..Len(p)
    BY <1>2, KeptLengthExists
  <2> QED BY <1>2, <2>1 DEF Stripped, Keys
<1> QED BY <1>1, <1>2

(* The keys of the two maps are paths, and only a statement of type "bad"  *)
(* has different ones in them.                                             *)
LEMMA KeyTypes ==
  ASSUME NEW st \in Statements
  PROVE  /\ HandlerKey(st) \in Keys /\ TableKey(st) \in Keys
         /\ st.type # "bad" => HandlerKey(st) = TableKey(st)
<1>1. Stripped(st.path) \in Keys
  BY StrippedType, DispatcherAssumption
<1>2. Root \in Keys /\ BadPath \in Keys
  BY DispatcherAssumption DEF Root, Keys
<1> QED
  BY <1>1, <1>2 DEF HandlerKey, TableKey

LEMMA InitIInv == Init => IInv
<1> SUFFICES ASSUME Init PROVE IInv
  OBVIOUS
<1>1. TypeOK
  <2>1. config \in Seq(Statements) /\ Len(config) \in Nat
    BY DEF Init
  <2> QED BY <2>1 DEF Init, TypeOK
<1>2. TableAgrees /\ BuiltFirst /\ LoopInv
  BY DEF Init, TableAgrees, BuiltFirst, LoopInv
<1>3. FirstAsked
  <2>1. i = 1 /\ DOMAIN handlers_ = {}
    BY DEF Init
  <2>2. \A k : Askers(i, k) = {}
    BY <2>1 DEF Askers
  <2> QED BY <2>1, <2>2 DEF FirstAsked
<1> QED BY <1>1, <1>2, <1>3 DEF IInv

-----------------------------------------------------------------------------
(* The statements that ask for path k, before and after one more is read.  *)
Asks(st, k) == /\ st.location /\ st.type \notin {"unknown", "missing", "bad"}
               /\ Stripped(st.path) = k

LEMMA AskersStep ==
  ASSUME TypeOK, createHandler, NEW k
  PROVE  Askers(i, k)' = IF Asks(config[i], k) THEN Askers(i, k) \cup {i} ELSE Askers(i, k)
<1>1. i \in Nat /\ i >= 1 /\ i' = i + 1 /\ config' = config
  BY DEF TypeOK, createHandler
<1>2. 1..(i + 1) - 1 = (1..i - 1) \cup {i}
  BY <1>1
<1> QED BY <1>1, <1>2 DEF Askers, Asks

(* createHandler, when it registers: the two maps stay in step, and a path *)
(* that an earlier statement asked for is not taken again.                 *)
LEMMA RegisterStep ==
  ASSUME IInv, createHandler, ~Skips(config[i])
  PROVE  TypeOK' /\ FirstAsked' /\ TableAgrees'
<1> DEFINE st == config[i]
<1>1. /\ config \in Seq(Statements) /\ Len(config) \in Nat
      /\ i \in 1..Len(config) /\ st \in Statements
      /\ config' = config /\ i' = i + 1
      /\ UNCHANGED loop
  BY DEF IInv, TypeOK, createHandler
<1>2. st.location /\ st.type \in Types /\ Stripped(st.path) \notin DOMAIN handlers_
  BY <1>1, DispatcherAssumption DEF Skips
<1>3. PICK hk \in Keys, tk \in Keys, ty \in Types, v \in 1..Len(config) \cup {NULL} :
        /\ ty = st.type
        /\ hk = HandlerKey(st) /\ tk = TableKey(st) /\ (st.type # "bad" => hk = tk)
        /\ v = IF st.null THEN NULL ELSE i
  BY <1>1, <1>2, KeyTypes
<1>4. /\ handlers_' = Put(handlers_, hk, v)
      /\ request_handler_uri' = Put(request_handler_uri, tk, ty)
      /\ num_handlers' = num_handlers + 1
  BY <1>3 DEF createHandler
<1>5. /\ DOMAIN handlers_' = DOMAIN handlers_ \cup {hk} /\ handlers_'[hk] = v
      /\ \A k \in DOMAIN handlers_ : k # hk => handlers_'[k] = handlers_[k]
  BY <1>4 DEF Put
<1>6. /\ DOMAIN request_handler_uri' = DOMAIN request_handler_uri \cup {tk}
      /\ request_handler_uri'[tk] = ty
      /\ \A k \in DOMAIN request_handler_uri :
           k # tk => request_handler_uri'[k] = request_handler_uri[k]
  BY <1>4 DEF Put
<1>7. TypeOK'
  <2>1. /\ DOMAIN handlers_' \subseteq Keys
        /\ \A k \in DOMAIN handlers_' : handlers_'[k] \in 1..Len(config) \cup {NULL}
        /\ DOMAIN handlers_ \subseteq DOMAIN handlers_'
    BY <1>5 DEF IInv, TypeOK
  <2>2. /\ DOMAIN request_handler_uri' \subseteq Keys
        /\ \A k \in DOMAIN request_handler_uri' : request_handler_uri'[k] \in Types
    <3>1. /\ DOMAIN request_handler_uri \subseteq Keys
          /\ \A k \in DOMAIN request_handler_uri : request_handler_uri[k] \in Types
      BY DEF IInv, TypeOK
    <3> QED BY <1>6, <3>1
  <2>3. i' \in 1..Len(config') + 1 /\ num_handlers' \in Nat
    BY <1>1, <1>4 DEF IInv, TypeOK
  <2> QED BY <1>1, <2>1, <2>2, <2>3 DEF IInv, TypeOK, loop
<1>8. TableAgrees'
  <2> SUFFICES ASSUME NEW k \in DOMAIN handlers_', k # BadPath
               PROVE  /\ k \in DOMAIN request_handler_uri'
                      /\ handlers_'[k] # NULL =>
                           config[handlers_'[k]].type = request_handler_uri'[k]
    BY <1>1 DEF TableAgrees
  <2>1. CASE k = hk
    <3>1. st.type # "bad"
      BY <1>3, <2>1 DEF HandlerKey
    <3>2. v # NULL => config[v].type = ty
      BY <1>3
    <3>3. k = tk /\ k \in DOMAIN request_handler_uri' /\ request_handler_uri'[k] = ty
      BY <1>3, <1>6, <2>1, <3>1
    <3>4. handlers_'[k] = v
      BY <1>5, <2>1
    <3> QED BY <3>2, <3>3, <3>4
  <2>2. CASE k # hk
    <3>1. k \in DOMAIN handlers_ /\ handlers_'[k] = handlers_[k]
      BY <1>5, <2>2
    <3>2. tk # k
      BY <1>2, <1>3, <2>2, <3>1 DEF TableKey
    <3>3. /\ k \in DOMAIN request_handler_uri
          /\ handlers_[k] # NULL => config[handlers_[k]].type = request_handler_uri[k]
      BY <3>1 DEF IInv, TableAgrees
    <3> QED BY <1>6, <3>1, <3>2, <3>3
  <2> QED BY <2>1, <2>2
<1>9. FirstAsked'
  <2> SUFFICES ASSUME NEW k \in Keys \cap ({Stripped(x.path) : x \in Statements} \ Fixed)
               PROVE  IF Askers(i, k)' = {}
                      THEN k \notin DOMAIN handlers_'
                      ELSE /\ k \in DOMAIN handlers_'
                           /\ \E j \in Askers(i, k)' :
                                /\ \A m \in Askers(i, k)' : j <= m
                                /\ handlers_'[k] = Handler(j)
    BY <1>1 DEF FirstAsked, Handler
  <2>1. k \notin {Root, BadPath}
    BY DEF Fixed
  <2>2. TypeOK /\ Askers(i, k) \subseteq 1..i - 1
    BY DEF IInv, Askers
  <2>3. CASE Asks(st, k)
    <3>1. k = hk /\ k \notin DOMAIN handlers_
      BY <1>2, <1>3, <2>3 DEF Asks, HandlerKey
    <3>2. Askers(i, k) = {}
      BY <3>1 DEF IInv, FirstAsked
    <3>3. Askers(i, k)' = {i}
      BY <2>2, <2>3, <3>2, AskersStep
    <3>4. i <= i /\ v = Handler(i)
      BY <1>1, <1>3 DEF Handler
    <3> QED BY <1>5, <3>1, <3>3, <3>4
  <2>4. CASE ~Asks(st, k)
    <3>1. k # hk
      <4>1. hk \in {Root, BadPath} \/ (hk = Stripped(st.path) /\ st.type \notin {"missing", "bad"})
        BY <1>3 DEF HandlerKey
      <4>2. st.type # "unknown"
        BY <1>2 DEF Types
      <4> QED BY <1>2, <2>1, <2>4, <4>1, <4>2 DEF Asks
    <3>2. /\ k \in DOMAIN handlers_' <=> k \in DOMAIN handlers_
          /\ k \in DOMAIN handlers_ => handlers_'[k] = handlers_[k]
      BY <1>5, <3>1
    <3>3. Askers(i, k)' = Askers(i, k)
      BY <2>2, <2>4, AskersStep
    <3> QED BY <3>2, <3>3 DEF IInv, FirstAsked
  <2> QED BY <2>3, <2>4
<1> QED BY <1>7, <1>8, <1>9

(* createHandler, when it passes over a statement. *)
LEMMA SkipStep ==
  ASSUME IInv, createHandler, Skips(config[i])
  PROVE  TypeOK' /\ FirstAsked' /\ TableAgrees'
<1> DEFINE st == config[i]
<1>1. /\ config \in Seq(Statements) /\ Len(config) \in Nat
      /\ i \in 1..Len(config) /\ st \in Statements
      /\ config' = config /\ i' = i + 1
      /\ UNCHANGED <<table, loop>>
  BY DEF IInv, TypeOK, createHandler
<1>2. TypeOK' /\ TableAgrees'
  BY <1>1 DEF IInv, TypeOK, TableAgrees, table, loop
<1>3. FirstAsked'
  <2> SUFFICES ASSUME NEW k \in Keys \cap ({Stripped(x.path) : x \in Statements} \ Fixed)
               PROVE  IF Askers(i, k)' = {}
                      THEN k \notin DOMAIN handlers_
                      ELSE /\ k \in DOMAIN handlers_
                           /\ \E j \in Askers(i, k)' :
                                /\ \A m \in Askers(i, k)' : j <= m
                                /\ handlers_[k] = Handler(j)
    BY <1>1 DEF FirstAsked, Handler, table
  <2>1. TypeOK /\ Askers(i, k) \subseteq 1..i - 1
    BY DEF IInv, Askers
  <2>2. CASE Asks(st, k)
    <3>1. k \in DOMAIN handlers_
      BY <1>1, <2>2, DispatcherAssumption DEF Asks, Skips
    <3>2. PICK j \in Askers(i, k) :
            (\A m \in Askers(i, k) : j <= m) /\ handlers_[k] = Handler(j)
      BY <3>1 DEF IInv, FirstAsked
    <3>3. Askers(i, k)' = Askers(i, k) \cup {i}
      BY <2>1, <2>2, AskersStep
    <3>4. j <= i
      BY <1>1, <2>1, <3>2
    <3> QED BY <3>1, <3>2, <3>3, <3>4
  <2>3. CASE ~Asks(st, k)
    <3>1. Askers(i, k)' = Askers(i, k)
      BY <2>1, <2>3, AskersStep
    <3> QED BY <3>1 DEF IInv, FirstAsked
  <2> QED BY <2>2, <2>3
<1> QED BY <1>2, <1>3

(* createHandler does not touch the loop, which has not begun.              *)
LEMMA CreateStep ==
  ASSUME IInv, createHandler
  PROVE  IInv'
<1>1. i \in Nat /\ Len(config) \in Nat /\ i <= Len(config)
  BY DEF IInv, TypeOK, createHandler
<1>2. uri = NULL /\ uri' = NULL
  BY <1>1 DEF IInv, BuiltFirst, createHandler, loop
<1>3. BuiltFirst' /\ LoopInv'
  BY <1>2 DEF BuiltFirst, LoopInv
<1> QED BY <1>3, RegisterStep, SkipStep DEF IInv

-----------------------------------------------------------------------------
(* A step that leaves the configuration and the two maps alone.             *)
LEMMA TableUnchanged ==
  ASSUME IInv, UNCHANGED <<config, i, table>>
  PROVE  FirstAsked' /\ TableAgrees'
<1>1. \A k : Askers(i, k)' = Askers(i, k)
  BY DEF Askers
<1> QED BY <1>1 DEF IInv, FirstAsked, Handler, TableAgrees, table

LEMMA DispatchStep ==
  ASSUME IInv, NEW u \in Uris, dispatch(u)
  PROVE  IInv'
<1>1. UNCHANGED <<config, i, table>> /\ i > Len(config)
  BY DEF dispatch
<1>2. uri' \in Keys
  BY DispatcherAssumption, StrippedType DEF dispatch
<1>3. TypeOK' /\ BuiltFirst'
  BY <1>1, <1>2 DEF IInv, TypeOK, BuiltFirst, dispatch, table
<1>4. Seen' = {}
  BY <1>1 DEF dispatch, Seen, Matches, table
<1>5. LoopInv'
  BY <1>4 DEF LoopInv, dispatch
<1> QED BY <1>1, <1>3, <1>5, TableUnchanged DEF IInv

LEMMA VisitStep ==
  ASSUME IInv, NEW k \in iter, Visit(k)
  PROVE  IInv'
<1>1. UNCHANGED <<config, i, table, uri>> /\ uri # NULL /\ iter' = iter \ {k}
  BY DEF Visit
<1>2. /\ k \in DOMAIN handlers_ /\ k \in Seq(Chars)
      /\ Len(k) \in Nat /\ (k # <<>> <=> Len(k) > 0)
      /\ longest_match \in Nat
      /\ \A m \in Seen : Len(m) \in Nat /\ Len(m) > 0
  BY DEF IInv, TypeOK, Keys, Seen, Matches
<1>3. handlers_[k] \in 1..Len(config) \cup {NULL}
  BY <1>2 DEF IInv, TypeOK
<1>4. TypeOK' /\ BuiltFirst'
  BY <1>1, <1>2, <1>3 DEF IInv, TypeOK, BuiltFirst, Visit, table
<1>5. Seen' = IF PrefixOf(k, uri) /\ k # <<>> THEN Seen \cup {k} ELSE Seen
  BY <1>1, <1>2 DEF Seen, Matches, PrefixOf, table
<1>6. IF Seen = {}
      THEN req_handler = NULL /\ longest_match = 0
      ELSE \E c \in Seen : /\ \A m \in Seen : Len(m) <= Len(c)
                           /\ req_handler = handlers_[c] /\ longest_match = Len(c)
  BY <1>1 DEF IInv, LoopInv
<1>7. handlers_' = handlers_
  BY <1>1 DEF table
<1>8. LoopInv'
  <2>1. CASE PrefixOf(k, uri) /\ Better(k)
    <3>1. k # <<>> /\ Len(k) > longest_match
      BY <1>2, <2>1 DEF Better
    <3>2. Seen' = Seen \cup {k} /\ req_handler' = handlers_[k] /\ longest_match' = Len(k)
      BY <1>5, <2>1, <3>1 DEF Visit
    <3>3. \A m \in Seen : Len(m) <= Len(k)
      BY <1>2, <1>6, <3>1
    <3>4. Len(k) <= Len(k)
      BY <1>2
    <3> QED BY <1>7, <3>2, <3>3, <3>4 DEF LoopInv
  <2>2. CASE ~(PrefixOf(k, uri) /\ Better(k))
    <3>1. UNCHANGED <<req_handler, longest_match>>
      BY <2>2 DEF Visit
    <3>2. CASE Seen' = Seen
      BY <1>6, <1>7, <3>1, <3>2 DEF LoopInv
    <3>3. CASE Seen' # Seen
      <4>1. Seen' = Seen \cup {k} /\ Len(k) <= longest_match /\ Len(k) > 0
        BY <1>2, <1>5, <2>2, <3>3 DEF Better
      <4>2. PICK c \in Seen : /\ \A m \in Seen : Len(m) <= Len(c)
                              /\ req_handler = handlers_[c] /\ longest_match = Len(c)
        BY <1>2, <1>6, <4>1
      <4> QED BY <1>7, <3>1, <4>1, <4>2 DEF LoopInv
    <3> QED BY <3>2, <3>3
  <2> QED BY <2>1, <2>2
<1> QED BY <1>1, <1>4, <1>8, TableUnchanged DEF IInv

LEMMA ReturnStep ==
  ASSUME IInv, Return
  PROVE  IInv'
<1>1. UNCHANGED <<config, i, table, iter>> /\ uri' = NULL
  BY DEF Return
<1>2. TypeOK' /\ BuiltFirst' /\ LoopInv'
  BY <1>1 DEF IInv, TypeOK, BuiltFirst, LoopInv, Return, table
<1> QED BY <1>1, <1>2, TableUnchanged DEF IInv

-----------------------------------------------------------------------------
(* Every step preserves the invariant. *)
LEMMA NextIInv == IInv /\ [Next]_vars => IInv'
<1> SUFFICES ASSUME IInv, [Next]_vars PROVE IInv'
  OBVIOUS
<1>1. CASE UNCHANGED vars
  <2>1. UNCHANGED <<config, i, table>> /\ UNCHANGED loop
    BY <1>1 DEF vars
  <2>2. TypeOK' /\ BuiltFirst'
    BY <2>1 DEF IInv, TypeOK, BuiltFirst, table, loop
  <2>3. Seen' = Seen
    BY <2>1 DEF Seen, Matches, table, loop
  <2>4. LoopInv'
    BY <2>1, <2>3 DEF IInv, LoopInv, table, loop
  <2> QED BY <2>1, <2>2, <2>4, TableUnchanged DEF IInv
<1>2. CASE createHandler
  BY <1>2, CreateStep
<1>3. ASSUME NEW u \in Uris, dispatch(u) PROVE IInv'
  BY <1>3, DispatchStep
<1>4. ASSUME NEW k \in iter, Visit(k) PROVE IInv'
  BY <1>4, VisitStep
<1>5. CASE Return
  BY <1>5, ReturnStep
<1> QED BY <1>1, <1>2, <1>3, <1>4, <1>5 DEF Next

THEOREM Invariance == Spec => []IInv
<1> QED BY InitIInv, NextIInv, PTL DEF Spec

(* The variables keep their types: what dispatcher.cc:15-148 builds and    *)
(* walks is well formed for every configuration.                           *)
THEOREM TypeCorrect == Spec => []TypeOK
<1>1. IInv => TypeOK
  BY DEF IInv
<1> QED BY <1>1, Invariance, PTL

(* dispatcher.cc:94-97: a path goes to the first statement that asked.     *)
THEOREM FirstStatementWins == Spec => []FirstAsked
<1>1. IInv => FirstAsked
  BY DEF IInv
<1> QED BY <1>1, Invariance, PTL

(* dispatcher.h:22: the status page names the registered handler's type.   *)
THEOREM TableIsTrue == Spec => []TableAgrees
<1>1. IInv => TableAgrees
  BY DEF IInv
<1> QED BY <1>1, Invariance, PTL

(* dispatcher.cc:58-70: in whatever order the map is walked, the loop ends *)
(* with the handler of the longest registered prefix.                      *)
THEOREM LongestPrefixWins == Spec => []LongestPrefix
<1>1. IInv => LongestPrefix
  <2> SUFFICES ASSUME IInv, uri # NULL, iter = {} PROVE LongestPrefix
    BY DEF LongestPrefix
  <2>1. Seen = Matches
    BY DEF Seen
  <2> QED BY <2>1 DEF IInv, LoopInv, LongestPrefix
<1> QED BY <1>1, Invariance, PTL

-----------------------------------------------------------------------------
(* A handler is registered at the root once a statement asked for one      *)
(* there, and no handler is null if no Init returned a null pointer.       *)
RootInv ==
  /\ (\E j \in DOMAIN config : j < i /\ AtRoot(config[j])) => Root \in DOMAIN handlers_
  /\ (\A j \in DOMAIN config : ~config[j].null) =>
       \A k \in DOMAIN handlers_ : handlers_[k] # NULL

(* Registering keeps what is there, and the root is not passed over.       *)
LEMMA CreateRoot ==
  ASSUME TypeOK, RootInv, createHandler
  PROVE  RootInv'
<1> DEFINE st == config[i]
<1>1. /\ config' = config /\ i' = i + 1 /\ i \in Nat
      /\ DOMAIN config = 1..Len(config) /\ i \in DOMAIN config
  BY DEF createHandler, TypeOK
<1>2. DOMAIN handlers_ \subseteq DOMAIN handlers_'
  BY DEF createHandler, table, Put
<1>3. ASSUME AtRoot(st) PROVE Root \in DOMAIN handlers_'
  <2>1. CASE Skips(st)
    BY <1>2, <1>3, <2>1 DEF AtRoot, Skips, Types
  <2>2. CASE ~Skips(st)
    BY <1>3, <2>2 DEF AtRoot, HandlerKey, createHandler, Put
  <2> QED BY <2>1, <2>2
<1>4. ASSUME \A j \in DOMAIN config : ~config[j].null, NEW k \in DOMAIN handlers_'
      PROVE  handlers_'[k] # NULL
  <2>1. i # NULL
    BY <1>1, DispatcherAssumption
  <2> QED BY <1>1, <1>4, <2>1 DEF createHandler, RootInv, Put, table
<1>5. \A j \in DOMAIN config : j < i + 1 => j < i \/ j = i
  BY <1>1
<1> QED BY <1>1, <1>2, <1>3, <1>4, <1>5 DEF RootInv

LEMMA NextRoot == TypeOK /\ RootInv /\ [Next]_vars => RootInv'
<1> SUFFICES ASSUME TypeOK, RootInv, [Next]_vars PROVE RootInv'
  OBVIOUS
<1>1. CASE createHandler
  BY <1>1, CreateRoot
<1>2. CASE UNCHANGED <<config, i, handlers_>>
  BY <1>2 DEF RootInv
<1> QED
  BY <1>1, <1>2 DEF Next, dispatch, Visit, Return, vars, table

(* dispatcher.cc:91-97, 117 and session.cc:113: with a location at "/"     *)
(* every URI that begins with it gets a handler, so the null pointer is    *)
(* not met, whatever else is configured and in whatever order.             *)
THEOREM CatchesAll == Spec => []CatchAll
<1>1. Init => RootInv
  BY DEF Init, RootInv
<1>2. IInv /\ RootInv => CatchAll
  <2> SUFFICES ASSUME IInv, RootInv, uri \notin {NULL, <<>>}, iter = {}, uri[1] = "/",
                      NEW j \in DOMAIN config, AtRoot(config[j]),
                      \A n \in DOMAIN config : ~config[n].null
               PROVE  req_handler # NULL
    BY DEF CatchAll
  <2>1. uri \in Seq(Chars)
    BY DEF IInv, TypeOK, Keys
  <2>2. PrefixOf(Root, uri) /\ Root # <<>>
    <3>1. Len(uri) \in Nat /\ 1 <= Len(uri) /\ Len(Root) = 1
      BY <2>1 DEF Root
    <3>2. SubSeq(uri, 1, 1) \in Seq(Chars) /\ Root \in Seq(Chars)
      BY <2>1, <3>1, DispatcherAssumption DEF Root
    <3>3. /\ Len(SubSeq(uri, 1, 1)) = 1 /\ SubSeq(uri, 1, 1)[1] = uri[1]
          /\ Root[1] = uri[1]
      BY <2>1, <3>1 DEF Root
    <3>4. SubSeq(uri, 1, 1) = Root
      BY <3>1, <3>2, <3>3, SeqEqual
    <3> QED BY <3>1, <3>4 DEF PrefixOf, Root
  <2>3. j < i
    BY DEF IInv, BuiltFirst, TypeOK
  <2>4. Root \in Matches
    BY <2>2, <2>3 DEF RootInv, Matches
  <2>5. Seen = Matches
    BY DEF Seen
  <2>6. PICK k \in Matches : req_handler = handlers_[k]
    BY <2>4, <2>5 DEF IInv, LoopInv
  <2> QED BY <2>6 DEF Matches, RootInv
<1>3. IInv => TypeOK
  BY DEF IInv
<1> QED BY <1>1, <1>2, <1>3, NextRoot, Invariance, PTL DEF Spec
=============================================================================
