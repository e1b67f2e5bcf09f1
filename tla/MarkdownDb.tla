----------------------------- MODULE MarkdownDb -----------------------------
(***************************************************************************)
(* The markdown pages, the database behind them and the process around     *)
(* them: main starts the threads, each thread serves the form (with the    *)
(* last posts) or stores and shows a post, through the one connection pool *)
(* of db_instance, and every one of them logs, holding a client or not     *)
(* (src/src/request_handler/markdown_handler.cc, src/src/db/db_handler.cc, *)
(* src/src/db/db_instance.cc, src/src/server_main.cc, src/src/server.cc).  *)
(*                                                                         *)
(* The locking is Logger's; a log call is its Call action, and the thread  *)
(* goes on when its frame is out of the logger again.  Log calls with      *)
(* nothing between them but local work are one call.  What MongoDB does is *)
(* external: a sequence of posts that can be read whole and appended to.   *)
(***************************************************************************)
EXTENDS Logger, Sequences, FiniteSets

CONSTANTS
  PoolSize,    \* maxPoolSize of the connection string
  Ten,         \* how many posts the form shows
  Earlier,     \* how many posts the database has when the server starts
  MaxRequests  \* how many requests come in (a bound)

Workers == Threads \ {Main}

ASSUME MarkdownAssumption ==
  PoolSize \in Nat \ {0} /\ Ten \in Nat /\ Earlier \in Nat /\ MaxRequests \in Nat

VARIABLES
  pc,       \* pc[t]: where the code of thread t is, when it is not logging
  kind,     \* kind[t]: "form" or "view", the request t serves
  post,     \* post[t]: what a view stores, numbered by its request
              \* (the posts stored earlier are numbered 0)
  made,     \* pools made; the last of them is m_client_pool, 0 is null
  target,   \* target[t]: the pool t waits at or has a client of, 0 if none
  holding,  \* the threads that have a client
  store,    \* the posts in the database
  page,     \* page[t]: the posts on the page t builds
  poolDestroyed,  \* exit has destroyed the static db_instance
  served,   \* requests that have come in
  from,     \* history: from[t], the number of posts when the form t serves was
            \* asked for
  failed,   \* history: failed[t], the posts could not be read
  overlapped  \* history: two threads were creating the pool at once

dbVars == <<pc, kind, post, made, target, holding, store, page, poolDestroyed,
            served, from, failed, overlapped>>
vars   == <<loggerVars, dbVars>>

Init ==
  /\ LoggerInit
  /\ pc = [t \in Threads |-> IF t = Main THEN "boot" ELSE "unborn"]
  /\ kind = [t \in Threads |-> "form"]
  /\ post = [t \in Threads |-> 0]
  /\ made = 0 /\ target = [t \in Threads |-> 0] /\ holding = {}
  /\ store = [i \in 1 .. Earlier |-> 0] /\ page = [t \in Threads |-> <<>>]
  /\ poolDestroyed = FALSE
  /\ served = 0
  /\ from = [t \in Threads |-> 0] /\ failed = [t \in Threads |-> FALSE]
  /\ overlapped = FALSE

\* The code of t is at l and can go on.
At(t, l) == pc[t] = l /\ Runs(Code(t)) /\ at[Code(t)] = "out"
Goto(t, l) == pc' = [pc EXCEPT ![t] = l]

request  == <<kind, post, served, from>>
pools    == <<made, target, holding, poolDestroyed, overlapped>>
posts    == <<store, page, failed>>
database == <<pools, posts>>

-----------------------------------------------------------------------------
(* main and server::run. *)

Boot ==
  /\ At(Main, "boot") /\ Call(Main)
  /\ Goto(Main, "install")
  /\ UNCHANGED <<request, database>>

InstallHandler ==
  /\ At(Main, "install") /\ Install
  /\ Goto(Main, "listen")
  /\ UNCHANGED <<request, database>>

Listen ==
  /\ At(Main, "listen") /\ Call(Main)
  /\ Goto(Main, "run")
  /\ UNCHANGED <<request, database>>

\* A thread is made, which serves at once, and main logs that it was.  When
\* there are no more to make, main is left in join.
Spawn(t) ==
  /\ At(Main, "run") /\ pc[t] = "unborn" /\ Call(Main)
  /\ Goto(t, "idle")
  /\ UNCHANGED <<request, database>>

-----------------------------------------------------------------------------
(* MarkdownHandler::HandleRequest. *)

\* A request comes in and is logged.
HandleRequest(t, k) ==
  /\ At(t, "idle") /\ served < MaxRequests /\ Call(t)
  /\ served' = served + 1
  /\ kind' = [kind EXCEPT ![t] = k]
  /\ post' = [post EXCEPT ![t] = IF k = "view" THEN served + 1 ELSE 0]
  /\ from' = [from EXCEPT ![t] = IF k = "form" THEN Len(store) ELSE 0]
  /\ Goto(t, "pool")
  /\ UNCHANGED database

\* The request's variables go out of scope.
Forget(t) ==
  /\ kind' = [kind EXCEPT ![t] = "form"]
  /\ post' = [post EXCEPT ![t] = 0]
  /\ page' = [page EXCEPT ![t] = <<>>]
  /\ from' = [from EXCEPT ![t] = 0]
  /\ failed' = [failed EXCEPT ![t] = FALSE]

\* createForm: the form's file cannot be read: 500, and no page.
NoForm(t) ==
  /\ At(t, "pool") /\ kind[t] = "form"
  /\ Forget(t)
  /\ Goto(t, "idle")
  /\ UNCHANGED <<loggerVars, pools, store, served>>

\* db_instance::createPool, from the constructor of db_handler: the check ...
\* Faulty variant: there is none.
AlwaysCreate(t) ==
  /\ At(t, "pool") /\ ~poolDestroyed
  /\ overlapped' = (overlapped \/ \E u \in Workers : pc[u] = "create")
  /\ Goto(t, "create")
  /\ UNCHANGED <<loggerVars, request, made, target, holding, poolDestroyed, posts>>

CheckPool(t) ==
  /\ At(t, "pool") /\ ~poolDestroyed
  /\ overlapped' = (overlapped \/ (made = 0 /\ \E u \in Workers : pc[u] = "create"))
  /\ Goto(t, IF made = 0 THEN "create" ELSE "connect")
  /\ UNCHANGED <<loggerVars, request, made, target, holding, poolDestroyed, posts>>

\* ... and the assignment, which destroys the pool it replaces.
CreatePool(t) ==
  /\ At(t, "create") /\ ~poolDestroyed
  /\ made' = made + 1
  /\ Goto(t, "connect")
  /\ UNCHANGED <<loggerVars, request, target, holding, poolDestroyed, overlapped, posts>>

\* insertMarkdown and getTenMarkdowns log before they acquire a client.
LogAccess(t) ==
  /\ At(t, "connect") /\ Call(t)
  /\ Goto(t, "acquire")
  /\ UNCHANGED <<request, database>>

\* getClientFromPool loads the pointer; the pool makes the caller wait ...
EnterPool(t) ==
  /\ At(t, "acquire") /\ ~poolDestroyed
  /\ target' = [target EXCEPT ![t] = made]
  /\ Goto(t, "wait")
  /\ UNCHANGED <<loggerVars, request, made, holding, poolDestroyed, overlapped, posts>>

\* The pool t waits at or has a client of exists no longer, or never did.
Dangling(t) == poolDestroyed \/ target[t] # made \/ made = 0

\* ... until it has a client to give.
Acquire(t) ==
  /\ At(t, "wait") /\ ~Dangling(t)
  /\ Cardinality({u \in holding : target[u] = target[t]}) < PoolSize
  /\ holding' = holding \cup {t}
  /\ Goto(t, "access")
  /\ UNCHANGED <<loggerVars, request, made, target, poolDestroyed, overlapped, posts>>

\* The last Ten of the posts read.
\* Faulty variant: one too few.
LastTooFew(mds) == SubSeq(mds, IF Len(mds) >= Ten THEN Len(mds) - Ten + 2 ELSE 1, Len(mds))
LastTen(mds) == SubSeq(mds, IF Len(mds) > Ten THEN Len(mds) - Ten + 1 ELSE 1, Len(mds))

\* DBHelper: all posts are read, or an operation_exception leaves none; the
\* outcome is logged while the client is held.
DBHelper(t) ==
  /\ At(t, "access") /\ kind[t] = "form" /\ ~Dangling(t) /\ Call(t)
  /\ \E ok \in BOOLEAN :
       /\ page' = [page EXCEPT ![t] = IF ok THEN LastTen(store) ELSE <<>>]
       /\ failed' = [failed EXCEPT ![t] = ~ok]
  /\ Goto(t, "release")
  /\ UNCHANGED <<request, pools, store>>

\* insert: the post is stored, or the error is logged and ignored.
insert(t) ==
  /\ At(t, "access") /\ kind[t] = "view" /\ ~Dangling(t) /\ Call(t)
  /\ store' \in {store, Append(store, post[t])}
  /\ Goto(t, "release")
  /\ UNCHANGED <<request, pools, page, failed>>

\* The local client, a pool::entry, goes out of scope and back to its pool.
\* Faulty variant: something keeps it.
LeakClient(t) ==
  /\ At(t, "release") /\ ~Dangling(t)
  /\ Goto(t, "respond")
  /\ UNCHANGED <<loggerVars, request, database>>

Release(t) ==
  /\ At(t, "release") /\ ~Dangling(t)
  /\ holding' = holding \ {t}
  /\ target' = [target EXCEPT ![t] = 0]
  /\ Goto(t, "respond")
  /\ UNCHANGED <<loggerVars, request, made, poolDestroyed, overlapped, posts>>

\* The reply is put together, 200 whatever the database did, and logged.
Respond(t) ==
  /\ At(t, "respond") /\ Call(t)
  /\ Forget(t)
  /\ Goto(t, "idle")
  /\ UNCHANGED <<pools, store, served>>

\* What throws where nothing catches it: exists() of the form's file, mongocxx's
\* constructor, to_json of a post that is no UTF-8 (db_handler.cc:31), get_utf8 of
\* a document without "md" (db_handler.cc:63), and maddy while the reply is put
\* together (which may also index past a vector's end).
Throws(t) ==
  /\ \/ At(t, "pool") /\ kind[t] = "form"
     \/ At(t, "create") /\ ~poolDestroyed
     \/ At(t, "acquire") /\ kind[t] = "view"
     \/ At(t, "access") /\ kind[t] = "form" /\ ~Dangling(t)
     \/ At(t, "respond")
  /\ Terminate(t)
  /\ UNCHANGED dbVars

\* A destroyed pool is asked for a client, used through one or given one
\* back, or db_instance itself is used after its end: undefined behaviour, which
\* may end the process, or leave the thread where it is for good.
UseDangling(t) ==
  /\ \/ poolDestroyed /\ \E l \in {"pool", "create", "acquire"} : At(t, l)
     \/ Dangling(t) /\ \E l \in {"wait", "access", "release"} : At(t, l)
  /\ Terminate(t)
  /\ Goto(t, "undefined")
  /\ UNCHANGED <<request, database>>

-----------------------------------------------------------------------------
(* exit destroys what was made last first: db_instance, then the Logger. *)

DestroyPool(t) ==
  /\ phase = "exiting" /\ at[Handler(t)] = "exit" /\ ~poolDestroyed
  /\ poolDestroyed' = TRUE
  /\ UNCHANGED <<loggerVars, pc, request, made, target, holding, overlapped, posts>>

ExitProcess(t) == poolDestroyed /\ ExitStep(t) /\ UNCHANGED dbVars

\* Nothing more happens: the process is gone, a handler waits for its own
\* thread, or every request has been served.
Hung   == \E t \in Threads : SelfBlocked(t)
Halted ==
  /\ \/ phase = "gone" \/ Hung
     \/ served = MaxRequests /\ \A t \in Workers : pc[t] = "idle"
  /\ UNCHANGED vars

\* t goes on with its request.
Work(t) ==
  \/ NoForm(t) \/ CheckPool(t) \/ CreatePool(t)
  \/ LogAccess(t) \/ EnterPool(t) \/ Acquire(t)
  \/ DBHelper(t) \/ insert(t) \/ Release(t)
  \/ Respond(t) \/ Throws(t)

Step(t) == (\E k \in {"form", "view"} : HandleRequest(t, k)) \/ Work(t) \/ UseDangling(t)

MainStep == Boot \/ InstallHandler \/ Listen \/ \E t \in Workers : Spawn(t)

Signal == (KillEarly \/ \E t \in Threads : Interrupt(t)) /\ UNCHANGED dbVars

\* What thread t does next, in its own code or in the handler on top of it.
Log(t) == (LogStep(Code(t)) \/ LogStep(Handler(t))) /\ UNCHANGED dbVars

Next ==
  \/ MainStep \/ Signal \/ Halted
  \/ \E t \in Workers : Step(t)
  \/ \E t \in Threads : Log(t) \/ DestroyPool(t) \/ ExitProcess(t)

Spec == Init /\ [][Next]_vars

\* A thread that can go on does, in a handler too; a call to MongoDB returns
\* (the driver times out).  Nobody has to send a request or a signal, and a
\* thread at a pool that was destroyed need not do anything.
LiveSpec ==
  /\ Spec
  /\ WF_vars(MainStep \/ Log(Main) \/ DestroyPool(Main) \/ ExitProcess(Main))
  /\ \A t \in Workers :
       WF_vars(Work(t) \/ Log(t) \/ DestroyPool(t) \/ ExitProcess(t))

-----------------------------------------------------------------------------
(* Properties. *)

Pcs == {"boot", "install", "listen", "run", "unborn", "idle", "pool", "create",
        "connect", "acquire", "wait", "access", "release", "respond", "undefined"}

\* The type of the state; a thread that has a client is where it may have one.
TypeOK ==
  /\ LoggerTypeOK
  /\ pc \in [Threads -> Pcs]
  /\ kind \in [Threads -> {"form", "view"}]
  /\ post \in [Threads -> 0 .. MaxRequests]
  /\ made \in Nat /\ target \in [Threads -> 0 .. made]
  /\ holding \subseteq {t \in Workers : pc[t] \in {"access", "release", "undefined"}}
  /\ store \in Seq(0 .. MaxRequests) /\ page \in [Threads -> Seq(0 .. MaxRequests)]
  /\ poolDestroyed \in BOOLEAN
  /\ served \in 0 .. MaxRequests
  /\ from \in [Threads -> 0 .. Len(store)] /\ failed \in [Threads -> BOOLEAN]
  /\ overlapped \in BOOLEAN

\* PageRecent: the form shows the last Ten posts, all of them when there are
\* fewer, as of some moment since its request came in; so a post that was
\* stored before that is missing only behind Ten newer ones.
PageRecent ==
  \A t \in Workers :
    (kind[t] = "form" /\ pc[t] \in {"release", "respond"} /\ ~failed[t]) =>
      \E n \in from[t] .. Len(store) :
        /\ Len(page[t]) = IF n < Ten THEN n ELSE Ten
        /\ \A i \in DOMAIN page[t] : page[t][i] = store[n - Len(page[t]) + i]

\* PoolOutlivesUse: there is one pool, which is not used before it is made or
\* after its end, unless two requests were creating it at once or the process
\* is exiting.
PoolOutlivesUse ==
  /\ made > 1 => overlapped
  /\ (\E t \in Workers : pc[t] = "undefined") => overlapped \/ poolDestroyed

\* SignalEnds: a SIGINT ends the process, unless the thread it interrupts
\* holds the logger's mutex, in whose wait for itself it then ends.
SignalEnds == (\E t \in Threads : Interrupted(t)) ~> (phase = "gone" \/ Hung)

\* The pool t waits at or has a client of was replaced by another.
Stranded(t) == target[t] \notin {0, made}

\* Served: every request is answered, however few clients the pool has and
\* whoever logs while it has one, unless the process ends or hangs.  A thread
\* whose pool was replaced under it (db_instance.cc:22) may wait forever, but
\* holds up no one else.
Served ==
  \A t \in Workers :
    (pc[t] # "unborn") ~> (pc[t] = "idle" \/ phase = "gone" \/ Hung \/ Stranded(t))
=============================================================================
