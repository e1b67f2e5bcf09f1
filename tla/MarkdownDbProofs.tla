-------------------------- MODULE MarkdownDbProofs --------------------------
(***************************************************************************)
(* Proofs about Logger and MarkdownDb, for any threads, pool, page size    *)
(* and number of requests and signals.                                     *)
(***************************************************************************)
EXTENDS MarkdownDb, TLAPS

-----------------------------------------------------------------------------
(* Logger. *)

\* A handler's frame and the code's frame of a thread are frames, and differ.
LEMMA FrameFacts ==
  \A t \in Threads : Code(t) \in Frames /\ Handler(t) \in Frames /\ Code(t) # Handler(t)
BY DEF Frames, Code, Handler

\* LoggerTypeCorrect: every step of the logger keeps its variables in their
\* types (logger.cc, server_main.cc).
THEOREM LoggerTypeCorrect == LoggerSpec => []LoggerTypeOK
<1>1. LoggerInit => LoggerTypeOK
  <2>1. LoggerInit => at \in [Frames -> Places]
    BY DEF LoggerInit, Places
  <2>2. LoggerInit => signals \in 0 .. MaxSignals
    BY LoggerAssumption DEF LoggerInit
  <2> QED BY <2>1, <2>2 DEF LoggerInit, LoggerTypeOK
<1>2. LoggerTypeOK /\ [LoggerNext]_loggerVars => LoggerTypeOK'
  <2> SUFFICES ASSUME LoggerTypeOK, [LoggerNext]_loggerVars PROVE LoggerTypeOK'
    OBVIOUS
  <2>1. CASE UNCHANGED loggerVars
    BY <2>1 DEF LoggerTypeOK, loggerVars
  <2>2. ASSUME NEW t \in Threads, Call(t) \/ Interrupt(t) \/ Terminate(t) \/ ExitStep(t)
        PROVE  LoggerTypeOK'
    <3>1. Code(t) \in Frames /\ Handler(t) \in Frames
      BY FrameFacts
    <3>2. CASE Call(t)
      BY <3>1, <3>2 DEF LoggerTypeOK, Places, Call
    <3>3. CASE Interrupt(t)
      BY <3>1, <3>3, LoggerAssumption DEF LoggerTypeOK, Places, Interrupt
    <3>4. CASE Terminate(t)
      BY <3>4 DEF LoggerTypeOK, Terminate
    <3>5. CASE ExitStep(t)
      BY <3>5 DEF LoggerTypeOK, ExitStep, DestroyLogger, Exit
    <3> QED BY <2>2, <3>2, <3>3, <3>4, <3>5
  <2>3. ASSUME NEW f \in Frames, LogStep(f) PROVE LoggerTypeOK'
    BY <2>3 DEF LoggerTypeOK, Places, LogStep, Lock, Unlock, WriteDestroyed
  <2>4. CASE Install \/ KillEarly
    BY <2>4, LoggerAssumption DEF LoggerTypeOK, Install, KillEarly
  <2> QED BY <2>1, <2>2, <2>3, <2>4 DEF LoggerNext
<1> QED BY <1>1, <1>2, PTL DEF LoggerSpec

\* MutualExclusion: one frame at most is in the critical section of the
\* logger, the one that holds g_pages_mutex (logger.cc:50, 72, 92).
THEOREM MutualExclusion == LoggerSpec => []Exclusive
<1>1. LoggerInit => Exclusive
  BY LoggerAssumption DEF LoggerInit, Exclusive
<1>2. LoggerTypeOK /\ Exclusive /\ [LoggerNext]_loggerVars => Exclusive'
  <2> SUFFICES ASSUME LoggerTypeOK, Exclusive, [LoggerNext]_loggerVars PROVE Exclusive'
    OBVIOUS
  <2>1. CASE UNCHANGED loggerVars
    BY <2>1 DEF Exclusive, loggerVars
  <2>2. ASSUME NEW t \in Threads, Call(t) \/ Interrupt(t) \/ Terminate(t) \/ ExitStep(t)
        PROVE  Exclusive'
    BY <2>2, FrameFacts
       DEF LoggerTypeOK, Exclusive, Call, Interrupt, Interrupted, Terminate, ExitStep,
           DestroyLogger, Exit
  <2>3. ASSUME NEW f \in Frames, LogStep(f) PROVE Exclusive'
    BY <2>3, LoggerAssumption
       DEF LoggerTypeOK, Exclusive, LogStep, Lock, Unlock, WriteDestroyed
  <2>4. CASE Install \/ KillEarly
    BY <2>4 DEF Exclusive, Install, KillEarly
  <2> QED BY <2>1, <2>2, <2>3, <2>4 DEF LoggerNext
<1> QED BY <1>1, <1>2, LoggerTypeCorrect, PTL DEF LoggerSpec

\* A frame that may unlock or enter the logger is not one of a thread whose
\* handler waits for the thread itself.
LEMMA HeldStep ==
  ASSUME LoggerTypeOK, Exclusive, NEW u \in Threads, SelfBlocked(u), LoggerNext
  PROVE  mutex' = mutex /\ \A f \in Frames : at[f] # "exit" => at'[f] # "exit"
<1>1. mutex = Code(u) /\ at[Handler(u)] = "locking" /\ mutex # NULL
  BY LoggerAssumption, FrameFacts DEF SelfBlocked
<1>2. ~Runs(Code(u))
  BY <1>1 DEF Runs, Code, Interrupted
<1>3. ASSUME NEW t \in Threads, Call(t) \/ Interrupt(t) \/ Terminate(t) \/ ExitStep(t)
      PROVE  mutex' = mutex /\ \A f \in Frames : at[f] # "exit" => at'[f] # "exit"
  BY <1>3, FrameFacts DEF LoggerTypeOK, Call, Interrupt, Terminate, ExitStep, DestroyLogger, Exit
<1>4. ASSUME NEW f \in Frames, LogStep(f)
      PROVE  mutex' = mutex /\ \A g \in Frames : at[g] # "exit" => at'[g] # "exit"
  <2>1. ~Lock(f)
    BY <1>1 DEF Lock
  <2>2. ~Unlock(f)
    BY <1>1, <1>2 DEF Unlock, Exclusive
  <2> QED BY <1>4, <2>1, <2>2 DEF LogStep, WriteDestroyed
<1>5. CASE Install \/ KillEarly
  BY <1>5 DEF Install, KillEarly
<1> QED BY <1>3, <1>4, <1>5 DEF LoggerNext

\* NoWayOut: a SIGINT that interrupts the holder of the mutex stops the
\* logger for good, and with it every thread that logs (server_main.cc:25).
THEOREM NoWayOut == LoggerSpec => HangIsFinal
<1>1. LoggerTypeOK /\ Exclusive /\ [LoggerNext]_loggerVars =>
        [(\E t \in Threads : SelfBlocked(t)) =>
           /\ mutex' = mutex
           /\ \A f \in Frames : at[f] # "exit" => at'[f] # "exit"]_loggerVars
  BY HeldStep DEF loggerVars
<1> QED BY <1>1, LoggerTypeCorrect, MutualExclusion, PTL DEF LoggerSpec, HangIsFinal

-----------------------------------------------------------------------------
(* MarkdownDb implements Logger. *)

\* A step of a worker's code is a call, the end of the process, or no step of
\* the logger.
LEMMA StepLogs ==
  ASSUME NEW t \in Workers, Step(t)
  PROVE  Call(t) \/ Terminate(t) \/ UNCHANGED loggerVars
BY DEF Step, Work, HandleRequest, NoForm, CheckPool, CreatePool, Throws, LogAccess, EnterPool,
       Acquire, DBHelper, insert, Release, Respond, UseDangling

\* Every step of the whole is a step of the logger, or none.
LEMMA NextLogs == ASSUME [Next]_vars PROVE [LoggerNext]_loggerVars
<1>1. CASE UNCHANGED vars
  BY <1>1 DEF vars, loggerVars
<1>2. CASE MainStep
  BY <1>2, LoggerAssumption
     DEF MainStep, Boot, InstallHandler, Listen, Spawn, LoggerNext
<1>3. CASE Signal
  BY <1>3 DEF Signal, LoggerNext
<1>4. CASE Halted
  BY <1>4 DEF Halted, vars, loggerVars
<1>5. ASSUME NEW t \in Workers, Step(t) PROVE [LoggerNext]_loggerVars
  BY <1>5, StepLogs DEF LoggerNext, Workers
<1>6. ASSUME NEW t \in Threads, Log(t) \/ DestroyPool(t) \/ ExitProcess(t)
      PROVE  [LoggerNext]_loggerVars
  BY <1>6, FrameFacts DEF Log, DestroyPool, ExitProcess, LoggerNext
<1> QED BY <1>1, <1>2, <1>3, <1>4, <1>5, <1>6 DEF Next

\* Implementation: the server's threads, the pages they serve and the way the
\* process starts and ends use the logger as Logger says.
THEOREM Implementation == Spec => LoggerSpec
<1>1. Init => LoggerInit
  BY DEF Init
<1> QED BY <1>1, NextLogs, PTL DEF Spec, LoggerSpec

\* LogExclusive: mutual exclusion holds of the composition.
THEOREM LogExclusive == Spec => []Exclusive
BY Implementation, MutualExclusion, PTL

\* HangFinal: so does it that a self-blocked handler stops the server for good.
THEOREM HangFinal == Spec => HangIsFinal
BY Implementation, NoWayOut, PTL

-----------------------------------------------------------------------------
(* The inductive invariant of MarkdownDb. *)

\* TypeOK without LoggerTypeOK, in parts: where the threads are, the pool,
\* and the posts.
PcOK ==
  /\ pc \in [Threads -> Pcs]
  /\ holding \subseteq {t \in Workers : pc[t] \in {"access", "release", "undefined"}}

PoolOK ==
  /\ made \in Nat /\ target \in [Threads -> 0 .. made]
  /\ poolDestroyed \in BOOLEAN /\ overlapped \in BOOLEAN

RequestOK ==
  /\ kind \in [Threads -> {"form", "view"}]
  /\ post \in [Threads -> 0 .. MaxRequests]
  /\ served \in 0 .. MaxRequests
  /\ failed \in [Threads -> BOOLEAN]

PostsOK ==
  /\ store \in Seq(0 .. MaxRequests)
  /\ page \in [Threads -> Seq(0 .. MaxRequests)]
  /\ from \in [Threads -> 0 .. Len(store)]

DbTypeOK == PcOK /\ PoolOK /\ RequestOK /\ PostsOK

\* As long as no two creations overlapped: whoever creates the pool is alone
\* and the first, and whoever is past the check finds the one pool.
PoolInv ==
  ~overlapped =>
    /\ made <= 1
    /\ \A t, u \in Workers : pc[t] = "create" => made = 0 /\ (pc[u] = "create" => u = t)
    /\ \A t \in Workers : pc[t] \in {"connect", "acquire", "wait", "access", "release"} => made = 1
    /\ \A t \in Workers : pc[t] \in {"wait", "access", "release"} => target[t] = 1
    /\ \A t \in Workers : pc[t] = "undefined" => poolDestroyed

IInv == DbTypeOK /\ PoolInv /\ PageRecent

\* LastTen returns the last Ten posts, or all of them.
LEMMA LastTenFacts ==
  ASSUME NEW S, NEW mds \in Seq(S)
  PROVE  /\ LastTen(mds) \in Seq(S)
         /\ Len(LastTen(mds)) = IF Len(mds) < Ten THEN Len(mds) ELSE Ten
         /\ \A i \in DOMAIN LastTen(mds) :
              LastTen(mds)[i] = mds[Len(mds) - Len(LastTen(mds)) + i]
<1>1. Ten \in Nat /\ Len(mds) \in Nat
  BY MarkdownAssumption
<1>2. CASE Len(mds) > Ten
  <2>1. LastTen(mds) = SubSeq(mds, Len(mds) - Ten + 1, Len(mds))
    BY <1>2 DEF LastTen
  <2> QED BY <1>1, <1>2, <2>1
<1>3. CASE ~(Len(mds) > Ten)
  <2>1. LastTen(mds) = SubSeq(mds, 1, Len(mds))
    BY <1>3 DEF LastTen
  <2> QED BY <1>1, <1>3, <2>1
<1> QED BY <1>2, <1>3

LEMMA InitIInv == Init => IInv
<1> SUFFICES ASSUME Init PROVE IInv
  OBVIOUS
<1>1. PcOK
  BY DEF Init, PcOK, Pcs
<1>2. PoolOK
  <2>1. made \in Nat /\ 0 \in 0 .. made
    BY DEF Init
  <2> QED BY <2>1 DEF Init, PoolOK
<1>3. RequestOK
  <2>1. 0 \in 0 .. MaxRequests
    BY MarkdownAssumption
  <2> QED BY <2>1 DEF Init, RequestOK
<1>4. PostsOK
  <2>1. store \in Seq(0 .. MaxRequests) /\ Len(store) \in Nat
    BY MarkdownAssumption DEF Init
  <2>2. from \in [Threads -> 0 .. Len(store)]
    <3>1. 0 \in 0 .. Len(store)
      BY <2>1
    <3> QED BY <3>1 DEF Init
  <2>3. page \in [Threads -> Seq(0 .. MaxRequests)]
    BY DEF Init
  <2> QED BY <2>1, <2>2, <2>3 DEF PostsOK
<1>5. PoolInv
  BY DEF Init, PoolInv, Workers
<1>6. PageRecent
  BY DEF Init, PageRecent, Workers
<1> QED BY <1>1, <1>2, <1>3, <1>4, <1>5, <1>6 DEF IInv, DbTypeOK

-----------------------------------------------------------------------------
(* Each step keeps the parts of DbTypeOK. *)

\* What main, a signal, the logger and exit leave alone.
LEMMA Outside ==
  ASSUME NEW t \in Threads,
         MainStep \/ Signal \/ Halted \/ Log(t) \/ DestroyPool(t) \/ ExitProcess(t)
  PROVE  /\ UNCHANGED <<request, posts, made, target, holding, overlapped>>
         /\ UNCHANGED pc \/ MainStep
         /\ poolDestroyed' \in {poolDestroyed, TRUE}
BY DEF MainStep, Signal, Halted, Log, DestroyPool, ExitProcess, Boot, InstallHandler, Listen,
       Spawn, request, posts, pools, database, dbVars, vars

LEMMA PcMain == ASSUME PcOK, MainStep PROVE PcOK'
<1>1. CASE Boot \/ InstallHandler \/ Listen
  BY <1>1, LoggerAssumption
     DEF PcOK, Pcs, Boot, InstallHandler, Listen, At, Goto, Workers, pools, database
<1>2. ASSUME NEW t \in Workers, Spawn(t) PROVE PcOK'
  BY <1>2 DEF PcOK, Pcs, Spawn, At, Goto, Workers, pools, database
<1> QED BY <1>1, <1>2 DEF MainStep

LEMMA PcWorker == ASSUME PcOK, NEW t \in Workers, Step(t) PROVE PcOK'
<1>1. ASSUME NEW k \in {"form", "view"}, HandleRequest(t, k) PROVE PcOK'
  BY <1>1 DEF PcOK, Pcs, HandleRequest, At, Goto, Workers, pools, database
<1>2. CASE NoForm(t) \/ Respond(t)
  BY <1>2 DEF PcOK, Pcs, NoForm, Respond, At, Goto, Workers, pools
<1>3. CASE CheckPool(t) \/ CreatePool(t) \/ EnterPool(t)
  BY <1>3 DEF PcOK, Pcs, CheckPool, CreatePool, EnterPool, At, Goto, Workers
<1>4. CASE LogAccess(t) \/ UseDangling(t)
  BY <1>4 DEF PcOK, Pcs, LogAccess, UseDangling, At, Goto, Workers, pools, database
<1>5. CASE Acquire(t) \/ Release(t)
  BY <1>5 DEF PcOK, Pcs, Acquire, Release, At, Goto, Workers
<1>6. CASE DBHelper(t) \/ insert(t)
  BY <1>6 DEF PcOK, Pcs, DBHelper, insert, At, Goto, Workers, pools
<1>7. CASE Throws(t)
  BY <1>7 DEF PcOK, Throws, dbVars
<1> QED BY <1>1, <1>2, <1>3, <1>4, <1>5, <1>6, <1>7 DEF Step, Work

LEMMA PoolWorker == ASSUME PoolOK, NEW t \in Workers, Step(t) PROVE PoolOK'
<1> USE DEF PoolOK, request, posts, pools, database
<1>1. ASSUME NEW k \in {"form", "view"}, HandleRequest(t, k) PROVE PoolOK'
  BY <1>1 DEF HandleRequest
<1>2. CASE NoForm(t) \/ Respond(t) \/ LogAccess(t) \/ UseDangling(t)
  BY <1>2 DEF NoForm, Respond, LogAccess, UseDangling
<1>3. CASE CheckPool(t)
  BY <1>3 DEF CheckPool
<1>4. CASE CreatePool(t)
  <2>1. made' = made + 1 /\ made' \in Nat /\ UNCHANGED <<target, poolDestroyed, overlapped>>
    BY <1>4 DEF CreatePool
  <2>2. \A u \in Threads : target[u] \in 0 .. made'
    BY <2>1
  <2> QED BY <2>1, <2>2
<1>5. CASE EnterPool(t)
  <2>1. made \in 0 .. made /\ target' = [target EXCEPT ![t] = made]
        /\ UNCHANGED <<made, poolDestroyed, overlapped>>
    BY <1>5 DEF EnterPool
  <2> QED BY <2>1
<1>6. CASE Acquire(t)
  BY <1>6 DEF Acquire
<1>7. CASE Release(t)
  <2>1. 0 \in 0 .. made /\ target' = [target EXCEPT ![t] = 0]
        /\ UNCHANGED <<made, poolDestroyed, overlapped>>
    BY <1>7 DEF Release
  <2> QED BY <2>1
<1>8. CASE DBHelper(t) \/ insert(t)
  BY <1>8 DEF DBHelper, insert
<1>9. CASE Throws(t)
  BY <1>9 DEF Throws, dbVars
<1> QED BY <1>1, <1>2, <1>3, <1>4, <1>5, <1>6, <1>7, <1>8, <1>9 DEF Step, Work

LEMMA RequestWorker == ASSUME RequestOK, NEW t \in Workers, Step(t) PROVE RequestOK'
<1> USE DEF RequestOK, request, posts, pools, database
<1>0. 0 \in 0 .. MaxRequests
  BY MarkdownAssumption
<1>1. ASSUME NEW k \in {"form", "view"}, HandleRequest(t, k) PROVE RequestOK'
  <2>1. served + 1 \in 0 .. MaxRequests
    BY <1>1, MarkdownAssumption DEF HandleRequest
  <2>2. post' \in [Threads -> 0 .. MaxRequests]
    BY <1>0, <1>1, <2>1 DEF HandleRequest
  <2>3. kind' \in [Threads -> {"form", "view"}]
    BY <1>1 DEF HandleRequest
  <2> QED BY <1>1, <2>1, <2>2, <2>3 DEF HandleRequest
<1>2. CASE NoForm(t) \/ Respond(t)
  <2>1. Forget(t) /\ UNCHANGED served
    BY <1>2 DEF NoForm, Respond
  <2> QED BY <1>0, <2>1 DEF Forget
<1>3. CASE CheckPool(t) \/ CreatePool(t) \/ EnterPool(t) \/ Acquire(t) \/ Release(t)
  BY <1>3 DEF CheckPool, CreatePool, EnterPool, Acquire, Release
<1>4. CASE LogAccess(t) \/ UseDangling(t)
  BY <1>4 DEF LogAccess, UseDangling
<1>5. CASE DBHelper(t)
  BY <1>5 DEF DBHelper
<1>6. CASE insert(t)
  BY <1>6 DEF insert
<1>7. CASE Throws(t)
  BY <1>7 DEF Throws, dbVars
<1> QED BY <1>1, <1>2, <1>3, <1>4, <1>5, <1>6, <1>7 DEF Step, Work

\* Posts are only ever appended.
LEMMA StoreGrows ==
  ASSUME PostsOK, RequestOK, NEW t \in Workers, Step(t)
  PROVE  /\ store' \in Seq(0 .. MaxRequests)
         /\ Len(store) \in Nat /\ Len(store') \in Nat /\ Len(store) <= Len(store')
         /\ \A i \in 1 .. Len(store) : store'[i] = store[i]
<1>1. UNCHANGED store \/ insert(t)
  BY DEF Step, Work, HandleRequest, NoForm, CheckPool, CreatePool, Throws, LogAccess, EnterPool,
         Acquire, DBHelper, Release, Respond, UseDangling, dbVars, posts, database
<1>2. CASE UNCHANGED store
  BY <1>2 DEF PostsOK
<1>3. CASE store' = Append(store, post[t])
  <2>1. post[t] \in 0 .. MaxRequests
    BY DEF RequestOK, Workers
  <2> QED BY <1>3, <2>1 DEF PostsOK
<1> QED BY <1>1, <1>2, <1>3 DEF insert

LEMMA PostsWorker ==
  ASSUME PostsOK, RequestOK, NEW t \in Workers, Step(t) PROVE PostsOK'
<1> USE DEF request, posts, pools, database
<1>1. store' \in Seq(0 .. MaxRequests) /\ Len(store) \in Nat /\ Len(store') \in Nat
      /\ Len(store) <= Len(store')
  BY StoreGrows
<1>2. from' \in [Threads -> 0 .. Len(store')]
  <2>1. \/ UNCHANGED from
        \/ from' = [from EXCEPT ![t] = 0] \/ from' = [from EXCEPT ![t] = Len(store)]
    BY DEF Step, Work, HandleRequest, NoForm, CheckPool, CreatePool, Throws, LogAccess,
           EnterPool, Acquire, DBHelper, insert, Release, Respond, UseDangling, dbVars, Forget
  <2>2. from \in [Threads -> 0 .. Len(store')]
    <3>1. from \in [Threads -> 0 .. Len(store)] /\ 0 .. Len(store) \subseteq 0 .. Len(store')
      BY <1>1 DEF PostsOK
    <3> QED BY <3>1
  <2>3. 0 \in 0 .. Len(store') /\ Len(store) \in 0 .. Len(store')
    BY <1>1
  <2> QED BY <2>1, <2>2, <2>3
<1>3. page' \in [Threads -> Seq(0 .. MaxRequests)]
  <2>1. \/ UNCHANGED page
        \/ page' = [page EXCEPT ![t] = <<>>] \/ page' = [page EXCEPT ![t] = LastTen(store)]
    BY DEF Step, Work, HandleRequest, NoForm, CheckPool, CreatePool, Throws, LogAccess,
           EnterPool, Acquire, DBHelper, insert, Release, Respond, UseDangling, dbVars, Forget
  <2>2. LastTen(store) \in Seq(0 .. MaxRequests) /\ <<>> \in Seq(0 .. MaxRequests)
    BY LastTenFacts DEF PostsOK
  <2> QED BY <2>1, <2>2 DEF PostsOK
<1> QED BY <1>1, <1>2, <1>3 DEF PostsOK

\* TypeStep: every step keeps DbTypeOK.
LEMMA TypeStep == ASSUME DbTypeOK, [Next]_vars PROVE DbTypeOK'
<1>1. CASE UNCHANGED vars
  BY <1>1 DEF vars, dbVars, DbTypeOK, PcOK, PoolOK, RequestOK, PostsOK
<1>2. ASSUME NEW t \in Workers, Step(t) PROVE DbTypeOK'
  BY <1>2, PcWorker, PoolWorker, RequestWorker, PostsWorker DEF DbTypeOK
<1>3. ASSUME NEW t \in Threads,
             MainStep \/ Signal \/ Halted \/ Log(t) \/ DestroyPool(t) \/ ExitProcess(t)
      PROVE  DbTypeOK'
  <2>1. UNCHANGED <<kind, post, served, from, store, page, failed, made, target, holding, overlapped>>
        /\ (UNCHANGED pc \/ MainStep) /\ poolDestroyed' \in {poolDestroyed, TRUE}
    BY <1>3, Outside DEF request, posts
  <2>2. PcOK'
    BY <2>1, PcMain DEF DbTypeOK, PcOK
  <2>3. PoolOK' /\ RequestOK' /\ PostsOK'
    BY <2>1 DEF DbTypeOK, PoolOK, RequestOK, PostsOK
  <2> QED BY <2>2, <2>3 DEF DbTypeOK
<1> QED BY <1>1, <1>2, <1>3, LoggerAssumption DEF Next

-----------------------------------------------------------------------------
(* The pool. *)

\* A worker's step keeps PoolInv.
LEMMA PoolInvWorker == ASSUME DbTypeOK, PoolInv, NEW t \in Workers, Step(t) PROVE PoolInv'
<1> USE DEF PoolInv, DbTypeOK, PcOK, PoolOK, Workers, request, posts, pools, database
<1>1. ASSUME NEW k \in {"form", "view"}, HandleRequest(t, k) PROVE PoolInv'
  BY <1>1 DEF HandleRequest, Goto
<1>2. CASE NoForm(t) \/ Respond(t)
  BY <1>2 DEF NoForm, Respond, Goto
<1>3. CASE CheckPool(t)
  <2>1. SUFFICES ASSUME ~overlapped' PROVE PoolInv'
    OBVIOUS
  <2>2. ~overlapped /\ (made = 0 => \A u \in Workers : pc[u] # "create")
    BY <1>3, <2>1 DEF CheckPool
  <2>3. UNCHANGED <<made, target, poolDestroyed>>
        /\ pc' = [pc EXCEPT ![t] = IF made = 0 THEN "create" ELSE "connect"]
    BY <1>3 DEF CheckPool, Goto
  <2>4. CASE made = 0
    BY <2>2, <2>3, <2>4
  <2>5. CASE made # 0
    BY <2>2, <2>3, <2>5
  <2> QED BY <2>4, <2>5
<1>4. CASE CreatePool(t)
  BY <1>4 DEF CreatePool, At, Goto
<1>5. CASE LogAccess(t)
  BY <1>5 DEF LogAccess, At, Goto
<1>6. CASE EnterPool(t)
  BY <1>6 DEF EnterPool, At, Goto
<1>7. CASE Acquire(t)
  BY <1>7 DEF Acquire, At, Goto
<1>8. CASE DBHelper(t) \/ insert(t)
  BY <1>8 DEF DBHelper, insert, At, Goto
<1>9. CASE Release(t)
  BY <1>9 DEF Release, At, Goto
<1>10. CASE UseDangling(t)
  BY <1>10 DEF UseDangling, Dangling, At, Goto
<1>11. CASE Throws(t)
  BY <1>11 DEF Throws, dbVars
<1> QED BY <1>1, <1>2, <1>3, <1>4, <1>5, <1>6, <1>7, <1>8, <1>9, <1>10, <1>11 DEF Step, Work

LEMMA PoolInvStep == ASSUME DbTypeOK, PoolInv, [Next]_vars PROVE PoolInv'
<1>1. CASE UNCHANGED vars
  BY <1>1 DEF vars, dbVars, PoolInv
<1>2. ASSUME NEW t \in Workers, Step(t) PROVE PoolInv'
  BY <1>2, PoolInvWorker
<1>3. CASE MainStep
  <2>1. UNCHANGED <<made, target, poolDestroyed, overlapped>>
    BY <1>3 DEF MainStep, Boot, InstallHandler, Listen, Spawn, pools, database
  <2>2. \A t \in Workers : pc'[t] = pc[t] \/ pc'[t] = "idle"
    BY <1>3 DEF MainStep, Boot, InstallHandler, Listen, Spawn, Goto, DbTypeOK, PcOK, Workers
  <2> QED BY <2>1, <2>2 DEF PoolInv
<1>4. ASSUME NEW t \in Threads,
             Signal \/ Halted \/ Log(t) \/ DestroyPool(t) \/ ExitProcess(t)
      PROVE  PoolInv'
  BY <1>4 DEF Signal, Halted, Log, DestroyPool, ExitProcess, vars, dbVars, PoolInv
<1> QED BY <1>1, <1>2, <1>3, <1>4, LoggerAssumption DEF Next

-----------------------------------------------------------------------------
(* The page. *)

\* The page of u, when it is built, is the posts up to the n-th.
Shows(u, n) ==
  /\ Len(page[u]) = IF n < Ten THEN n ELSE Ten
  /\ \A i \in DOMAIN page[u] : page[u][i] = store[n - Len(page[u]) + i]

Built(u) == kind[u] = "form" /\ pc[u] \in {"release", "respond"} /\ ~failed[u]

\* The pages of the threads that do not take the step are still right when
\* the step stores a post.
LEMMA PageOfOther ==
  ASSUME DbTypeOK, NEW u \in Workers, NEW n \in from[u] .. Len(store), Shows(u, n),
         store' \in Seq(0 .. MaxRequests), Len(store') \in Nat, Len(store) <= Len(store'),
         \A i \in 1 .. Len(store) : store'[i] = store[i],
         page'[u] = page[u], from'[u] = from[u]
  PROVE  n \in from'[u] .. Len(store') /\ Shows(u, n)'
<1>1. Len(store) \in Nat /\ from[u] \in 0 .. Len(store) /\ page[u] \in Seq(0 .. MaxRequests)
  BY DEF DbTypeOK, PostsOK, Workers
<1>2. n \in Nat /\ n <= Len(store) /\ n \in from'[u] .. Len(store')
  BY <1>1
<1>3. Len(page[u]) \in Nat /\ Len(page[u]) <= n /\ DOMAIN page[u] = 1 .. Len(page[u])
  BY <1>1, <1>2, MarkdownAssumption DEF Shows
<1>4. ASSUME NEW i \in DOMAIN page[u]
      PROVE  page[u][i] = store'[n - Len(page[u]) + i]
  <2>1. n - Len(page[u]) + i \in 1 .. Len(store)
    BY <1>1, <1>2, <1>3
  <2> QED BY <2>1 DEF Shows
<1> QED BY <1>2, <1>4 DEF Shows

LEMMA PageWorker == ASSUME DbTypeOK, PageRecent, NEW t \in Workers, Step(t) PROVE PageRecent'
<1>1. SUFFICES ASSUME NEW u \in Workers, Built(u)'
               PROVE  \E n \in from'[u] .. Len(store') : Shows(u, n)'
  BY DEF PageRecent, Built, Shows
<1>2. /\ store' \in Seq(0 .. MaxRequests)
      /\ Len(store) \in Nat /\ Len(store') \in Nat /\ Len(store) <= Len(store')
      /\ \A i \in 1 .. Len(store) : store'[i] = store[i]
  BY StoreGrows DEF DbTypeOK
<1>3. CASE Built(u) /\ page'[u] = page[u] /\ from'[u] = from[u]
  <2>1. PICK n \in from[u] .. Len(store) : Shows(u, n)
    BY <1>3 DEF PageRecent, Built, Shows
  <2> QED BY <1>2, <1>3, <2>1, PageOfOther
<1>4. CASE u = t /\ DBHelper(t) /\ ~failed'[t]
  <2>1. page'[t] = LastTen(store) /\ store' = store /\ from' = from
    BY <1>4 DEF DBHelper, DbTypeOK, PostsOK, RequestOK, Workers, request
  <2>2. from[t] \in 0 .. Len(store)
    BY DEF DbTypeOK, PostsOK, Workers
  <2>3. Len(store) \in from'[u] .. Len(store')
    BY <1>2, <1>4, <2>1, <2>2
  <2>4. ASSUME NEW n \in from'[u] .. Len(store'), n = Len(store) PROVE Shows(u, n)'
    BY <1>2, <1>4, <2>1, <2>4, LastTenFacts DEF Shows, DbTypeOK, PostsOK
  <2> QED BY <2>3, <2>4
<1>5. CASE u # t
  <2>1. pc'[u] = pc[u] /\ kind'[u] = kind[u] /\ failed'[u] = failed[u]
        /\ page'[u] = page[u] /\ from'[u] = from[u]
    BY <1>5 DEF Step, Work, HandleRequest, NoForm, CheckPool, CreatePool, Throws, LogAccess,
         EnterPool, Acquire, DBHelper, insert, Release, Respond, UseDangling, Forget, Goto,
         request, posts, pools, database, dbVars, DbTypeOK, PcOK, RequestOK, PostsOK, Workers
  <2> QED BY <1>3, <2>1, <1>1 DEF Built
<1>6. CASE u = t
  <2>1. CASE Release(t)
    BY <1>1, <1>3, <1>6, <2>1 DEF Built, Release, request, posts, At
  <2>2. CASE DBHelper(t)
    BY <1>1, <1>4, <1>6, <2>2 DEF Built
  <2>3. CASE insert(t)
    BY <1>1, <1>6, <2>3 DEF Built, insert, request
  <2>4. CASE Throws(t)
    BY <1>1, <1>3, <1>6, <2>4 DEF Built, Throws, dbVars
  <2>5. ASSUME ~Release(t), ~DBHelper(t), ~insert(t), ~Throws(t) PROVE FALSE
    <3>1. pc'[t] \in {"idle", "pool", "create", "connect", "acquire", "wait", "access", "undefined"}
      BY <2>5 DEF Step, Work, HandleRequest, NoForm, CheckPool, CreatePool, LogAccess, EnterPool,
           Acquire, Respond, UseDangling, Goto, DbTypeOK, PcOK, Workers
    <3> QED BY <1>1, <1>6, <3>1 DEF Built
  <2> QED BY <2>1, <2>2, <2>3, <2>4, <2>5
<1> QED BY <1>5, <1>6

LEMMA PageStep == ASSUME DbTypeOK, PageRecent, [Next]_vars PROVE PageRecent'
<1>1. CASE UNCHANGED vars
  BY <1>1 DEF vars, dbVars, PageRecent
<1>2. ASSUME NEW t \in Workers, Step(t) PROVE PageRecent'
  BY <1>2, PageWorker
<1>3. CASE MainStep
  <2>1. UNCHANGED <<kind, from, failed, store, page>>
    BY <1>3 DEF MainStep, Boot, InstallHandler, Listen, Spawn, request, posts, database
  <2>2. \A t \in Workers : pc'[t] = pc[t] \/ pc'[t] = "idle"
    BY <1>3 DEF MainStep, Boot, InstallHandler, Listen, Spawn, Goto, DbTypeOK, PcOK, Workers
  <2> QED BY <2>1, <2>2 DEF PageRecent
<1>4. ASSUME NEW t \in Threads,
             Signal \/ Halted \/ Log(t) \/ DestroyPool(t) \/ ExitProcess(t)
      PROVE  PageRecent'
  BY <1>4 DEF Signal, Halted, Log, DestroyPool, ExitProcess, request, posts, vars, dbVars, PageRecent
<1> QED BY <1>1, <1>2, <1>3, <1>4, LoggerAssumption DEF Next

-----------------------------------------------------------------------------
(* The theorems. *)

LEMMA Inductive == Spec => []IInv
<1>1. IInv /\ [Next]_vars => IInv'
  BY TypeStep, PoolInvStep, PageStep DEF IInv
<1> QED BY <1>1, InitIInv, PTL DEF Spec

\* TypeCorrect: every step of the server's threads keeps the types, and a
\* thread that has a client of the pool is where the code may have one.
THEOREM TypeCorrect == Spec => []TypeOK
<1>1. LoggerTypeOK /\ IInv => TypeOK
  BY DEF IInv, DbTypeOK, PcOK, PoolOK, RequestOK, PostsOK, TypeOK
<1> QED BY <1>1, Implementation, LoggerTypeCorrect, Inductive, PTL

\* OnePool: but for two requests that create it at once, or the process's end,
\* the one pool of db_instance is made before any use and used before its end
\* (db_instance.cc:20-30).
THEOREM OnePool == Spec => []PoolOutlivesUse
<1>1. IInv => PoolOutlivesUse
  BY DEF IInv, DbTypeOK, PoolOK, PoolInv, PoolOutlivesUse
<1> QED BY <1>1, Inductive, PTL

\* FormRecent: the form shows the last Ten posts as of some moment since it
\* was asked for, whatever is stored meanwhile (db_handler.cc, markdown_handler.cc).
THEOREM FormRecent == Spec => []PageRecent
<1>1. IInv => PageRecent
  BY DEF IInv
<1> QED BY <1>1, Inductive, PTL
=============================================================================
