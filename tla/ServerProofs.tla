---------------------------- MODULE ServerProofs ----------------------------
(***************************************************************************)
(* Proofs about Server, for every set of threads and sessions, every       *)
(* dispatch and every set of inputs: IInv is the inductive invariant; then *)
(* what holds of one thread (OneInv), and the refinement of Connections    *)
(* (RInv).                                                                 *)
(***************************************************************************)
EXTENDS Server, TLAPS

Inside == Pcs \ {"idle", "rearm"}

(* A thread is inside handle_read exactly while it has a session, that     *)
(* session is "running", and no other thread has it.                       *)
CurInv ==
  /\ \A t \in Threads : cur[t] = NULL <=> pc[t] \in {"idle", "rearm"}
  /\ SessionConfined

(* The handler's reply exists once the handler returned, and for as long   *)
(* as a write may read it.                                                 *)
ReplyInv ==
  /\ \A t \in Threads :
       pc[t] \in {"load", "record", "reply", "statusPop"} => rep[cur[t]] # NULL
  /\ \A s \in Sessions : op[s] = "writing" => rep[s] # NULL

(* The loaded num_requests is older than the read that will increment it.  *)
CountInv ==
  /\ CountNeverOvershoots
  /\ \A t \in Threads : pc[t] = "count" => reg[t] < received + reparsed

IInv == TypeOK /\ CurInv /\ ReplyInv /\ AcceptArmed /\ CountInv

-----------------------------------------------------------------------------
(* What Codes returns is a sequence of codes. *)
LEMMA CodesType ==
  ASSUME TypeOK, NEW u \in Uris
  PROVE  Codes(u) \in Seq(Nat)
BY DEF Codes, TypeOK

(* Every code a handler replies with is a number. *)
LEMMA ReplyCodesType ==
  ASSUME NEW kind \in Kinds
  PROVE  ReplyCodes(kind) \subseteq Nat
BY ServerAssumption
   DEF ReplyCodes, Kinds, EchoCodes, HealthCodes, StatusCodes, StaticCodes, RedirectCodes,
       NotFoundCodes, BadRequestCodes, MarkdownCodes

(* Dropping the last element of a nonempty sequence of codes. *)
LEMMA PopType ==
  ASSUME NEW v \in Seq(Nat), v # <<>>
  PROVE  SubSeq(v, 1, Len(v) - 1) \in Seq(Nat)
OBVIOUS

(* The initial states satisfy the invariant. *)
LEMMA InitIInv == Init => IInv
<1> SUFFICES ASSUME Init PROVE IInv
  OBVIOUS
<1>1. PICK s0 \in Sessions :
        op = [x \in Sessions |-> IF x = s0 THEN "accepting" ELSE "unborn"]
  BY DEF Init
<1>2. TypeOK
  <2>1. op \in [Sessions -> Ops] /\ data_ \in [Sessions -> Data]
    BY <1>1, ServerAssumption DEF Init, Ops, Data, Results
  <2>2. /\ pc \in [Threads -> Pcs]
        /\ reg \in [Threads -> Nat]
        /\ vec \in [Threads -> Seq(Nat)]
        /\ todo \in [Threads -> SUBSET Uris]
    BY DEF Init, Pcs
  <2>3. /\ rep \in [Sessions -> Reply \cup {NULL}]
        /\ cur \in [Threads -> Sessions \cup {NULL}]
        /\ fds \subseteq Sessions
        /\ num_requests \in Nat /\ received \in Nat /\ reparsed \in Nat
        /\ crashed \in BOOLEAN
    BY DEF Init
  <2>4. /\ request_code_received_ \in [Uris -> Seq(Nat) \cup {NULL}]
        /\ request_info \in [Uris -> Seq(Nat)]
        /\ answered \in [Uris -> Seq(Nat)]
    BY DEF Init
  <2> QED
    BY <2>1, <2>2, <2>3, <2>4 DEF TypeOK
<1>3. CurInv /\ ReplyInv /\ CountInv
  BY <1>1 DEF Init, CurInv, SessionConfined, ReplyInv, CountInv, CountNeverOvershoots
<1>4. AcceptArmed
  BY <1>1 DEF Init, AcceptArmed, Arming, Rearming
<1> QED
  BY <1>2, <1>3, <1>4 DEF IInv

-----------------------------------------------------------------------------
(* Steps inside handle_read that touch neither an operation nor cur.       *)

(* A thread that moves inside its handler keeps its session and leaves the *)
(* acceptor alone.                                                         *)
LEMMA InnerStep ==
  ASSUME TypeOK, CurInv, AcceptArmed, UNCHANGED <<op, cur>>,
         NEW t \in Threads, pc[t] \in Inside, NEW l \in Inside, Goto(t, l)
  PROVE  CurInv' /\ AcceptArmed'
<1>1. pc' = [pc EXCEPT ![t] = l] /\ pc \in [Threads -> Pcs]
  BY DEF Goto, TypeOK
<1>2. \A x \in Threads : pc'[x] \in {"idle", "rearm"} <=> pc[x] \in {"idle", "rearm"}
  BY <1>1 DEF Inside
<1>3. Rearming' = Rearming
  BY <1>1 DEF Rearming, Inside
<1>4. Arming' = Arming
  BY DEF Arming
<1> QED
  BY <1>2, <1>3, <1>4 DEF CurInv, SessionConfined, AcceptArmed

(* The session of a thread inside handle_read.                             *)
LEMMA InsideSession ==
  ASSUME TypeOK, CurInv, NEW t \in Threads, pc[t] \in Inside
  PROVE  /\ cur[t] \in Sessions
         /\ op[cur[t]] = "running"
         /\ Uri(t) \in Uris /\ Result(t) \in Results
         /\ Kind(t) \in Kinds \cup {NULL}
<1>1. cur[t] \in Sessions /\ op[cur[t]] = "running"
  BY DEF TypeOK, CurInv, SessionConfined, Inside
<1>2. data_[cur[t]] \in Data
  BY <1>1 DEF TypeOK
<1> QED
  BY <1>1, <1>2, ServerAssumption DEF Uri, Result, Kind, Data

(* Count: the store of num_requests. *)
LEMMA CountStep ==
  ASSUME IInv, NEW t \in Threads, Count(t), UNCHANGED crashed
  PROVE  IInv'
<1> USE DEF IInv
<1>1. CurInv' /\ AcceptArmed'
  BY InnerStep DEF Count, Inside, Pcs, sess
<1>2. TypeOK'
  BY DEF TypeOK, Count, Counted, Goto, Pcs, sess, regs, history
<1>3. ReplyInv'
  BY DEF ReplyInv, TypeOK, Count, Goto, sess
<1>4. CountInv'
  BY DEF CountInv, CountNeverOvershoots, TypeOK, Count, Counted, Goto, regs, history
<1> QED
  BY <1>1, <1>2, <1>3, <1>4

(* Reparse: the recursive call loads the counter again. *)
LEMMA ReparseStep ==
  ASSUME IInv, NEW t \in Threads, Reparse(t), UNCHANGED crashed
  PROVE  IInv'
<1> USE DEF IInv
<1>1. cur[t] \in Sessions /\ pc[t] \in Inside
  BY InsideSession DEF Reparse, Inside, Pcs
<1>2. CurInv' /\ AcceptArmed'
  BY <1>1, InnerStep DEF Reparse, Inside, Pcs
<1>3. TypeOK'
  <2>1. data_' \in [Sessions -> Data]
    <3> DEFINE d == [data_[cur[t]] EXCEPT !.result = "bad"]
    <3>1. data_ \in [Sessions -> Data] /\ d \in Data
      BY <1>1 DEF TypeOK, Data, Results
    <3>2. data_' = [data_ EXCEPT ![cur[t]] = d]
      BY <1>1, <3>1 DEF Reparse
    <3> QED
      BY <3>1, <3>2
  <2>2. reg' \in [Threads -> Nat] /\ reparsed' \in Nat /\ pc' \in [Threads -> Pcs]
    BY DEF TypeOK, Reparse, Goto, Pcs
  <2> QED
    BY <2>1, <2>2 DEF TypeOK, Reparse, shared
<1>4. ReplyInv'
  BY DEF ReplyInv, TypeOK, Reparse, Goto
<1>5. CountInv'
  BY DEF CountInv, CountNeverOvershoots, TypeOK, Reparse, Goto, shared
<1> QED
  BY <1>2, <1>3, <1>4, <1>5

(* Parsed: the URI that will be served is chosen. *)
LEMMA ParsedStep ==
  ASSUME IInv, NEW t \in Threads, Parsed(t), UNCHANGED crashed
  PROVE  IInv'
<1> USE DEF IInv
<1>1. cur[t] \in Sessions /\ pc[t] \in Inside /\ Served(t) \in Uris
  BY InsideSession, ServerAssumption DEF Parsed, Inside, Pcs, Served
<1>2. CurInv' /\ AcceptArmed'
  BY <1>1, InnerStep DEF Parsed, Inside, Pcs
<1>3. TypeOK'
  BY <1>1 DEF TypeOK, Parsed, Goto, Pcs, Data, shared, regs, history
<1>4. ReplyInv' /\ CountInv'
  BY DEF ReplyInv, CountInv, CountNeverOvershoots, TypeOK, Parsed, Goto, shared, regs, history
<1> QED
  BY <1>2, <1>3, <1>4

(* HandleRequest: a handler other than the status handler answers. *)
LEMMA HandleRequestStep ==
  ASSUME IInv, NEW t \in Threads, HandleRequest(t), UNCHANGED crashed
  PROVE  IInv'
<1> USE DEF IInv
<1>1. pc[t] \in Inside /\ pc[t] = "handle"
  BY DEF HandleRequest, Inside, Pcs
<1>2. cur[t] \in Sessions /\ op[cur[t]] = "running" /\ Kind(t) \in Kinds \cup {NULL}
  BY <1>1, InsideSession
<1>3. PICK c \in Nat :
        rep' = [rep EXCEPT ![cur[t]] = [code |-> c, rows |-> NULL, total |-> 0]]
  <2> DEFINE codes == IF Kind(t) = NULL THEN {StockCode(Result(t))} ELSE ReplyCodes(Kind(t))
  <2>1. codes \subseteq Nat
    BY <1>2, ReplyCodesType DEF StockCode
  <2> QED
    BY <2>1 DEF HandleRequest
<1>4. [code |-> c, rows |-> NULL, total |-> 0] \in Reply
  BY DEF Reply
<1>5. AfterHandler(t) \in {"load", "reply"}
  BY DEF AfterHandler
<1>6. CurInv' /\ AcceptArmed'
  BY <1>1, <1>5, InnerStep DEF HandleRequest, Inside, Pcs
<1>7. TypeOK'
  BY <1>2, <1>3, <1>4, <1>5 DEF TypeOK, HandleRequest, Goto, Pcs, shared, regs, history
<1>8. ReplyInv'
  <2>1. \A s \in Sessions : rep'[s] = rep[s] \/ rep'[s] # NULL
    BY <1>2, <1>3, <1>4, ServerAssumption DEF TypeOK
  <2>2. rep'[cur[t]] # NULL
    BY <1>2, <1>3, <1>4, ServerAssumption DEF TypeOK
  <2> QED
    BY <2>1, <2>2 DEF ReplyInv, TypeOK, CurInv, HandleRequest, Goto
<1>9. CountInv'
  BY <1>5 DEF CountInv, CountNeverOvershoots, TypeOK, HandleRequest, Goto, shared, regs, history
<1> QED
  BY <1>6, <1>7, <1>8, <1>9

-----------------------------------------------------------------------------
(* Steps on the code map and on the status page.                           *)

(* Such a step leaves the sessions and the counter alone; it may enter a   *)
(* part of the handler that needs the reply only if there is one.          *)
LEMMA BoardStep ==
  ASSUME IInv, UNCHANGED <<sess, cur, reg, num_requests, history>>,
         NEW t \in Threads, pc[t] \in Inside,
         NEW l \in Inside \ {"count"}, Goto(t, l),
         l \in {"load", "record", "reply", "statusPop"} => rep[cur[t]] # NULL
  PROVE  CurInv' /\ ReplyInv' /\ AcceptArmed' /\ CountInv'
<1> USE DEF IInv
<1>1. CurInv' /\ AcceptArmed'
  BY InnerStep DEF sess
<1>2. ReplyInv'
  BY DEF ReplyInv, TypeOK, Goto, sess
<1>3. CountInv'
  BY DEF CountInv, CountNeverOvershoots, TypeOK, Goto, history
<1> QED
  BY <1>1, <1>2, <1>3

LEMMA LoadStep ==
  ASSUME IInv, NEW t \in Threads, Load(t), UNCHANGED crashed
  PROVE  IInv'
<1> USE DEF IInv
<1>1. pc[t] = "load" /\ pc[t] \in Inside /\ Uri(t) \in Uris
  BY InsideSession DEF Load, Inside, Pcs
<1>2. TypeOK'
  <2>1. Codes(Uri(t)) \in Seq(Nat)
    BY <1>1, CodesType
  <2> QED
    BY <2>1 DEF TypeOK, Load, Goto, Pcs, sess, shared, history
<1>3. CurInv' /\ ReplyInv' /\ AcceptArmed' /\ CountInv'
  BY <1>1, BoardStep DEF Load, ReplyInv, Inside, Pcs, shared
<1> QED
  BY <1>2, <1>3

LEMMA RecordStep ==
  ASSUME IInv, NEW t \in Threads, Record(t), UNCHANGED crashed
  PROVE  IInv'
<1> USE DEF IInv
<1>1. pc[t] = "record" /\ pc[t] \in Inside /\ Uri(t) \in Uris /\ cur[t] \in Sessions
  BY InsideSession DEF Record, Inside, Pcs
<1>2. TypeOK'
  <2>1. rep[cur[t]] \in Reply
    BY <1>1 DEF TypeOK, ReplyInv
  <2>2. Append(vec[t], rep[cur[t]].code) \in Seq(Nat)
    BY <2>1 DEF TypeOK, Reply
  <2> QED
    BY <1>1, <2>2 DEF TypeOK, Record, Store, Goto, Pcs, sess, regs, history
<1>3. CurInv' /\ ReplyInv' /\ AcceptArmed' /\ CountInv'
  BY <1>1, BoardStep DEF Record, ReplyInv, Inside, Pcs, regs
<1> QED
  BY <1>2, <1>3

LEMMA StatusLoadStep ==
  ASSUME IInv, NEW t \in Threads, StatusLoad(t), UNCHANGED crashed
  PROVE  IInv'
<1> USE DEF IInv
<1>1. pc[t] \in Inside /\ Uri(t) \in Uris
  BY InsideSession DEF StatusLoad, Inside, Pcs
<1>2. TypeOK'
  <2>1. Codes(Uri(t)) \in Seq(Nat)
    BY <1>1, CodesType
  <2> QED
    BY <2>1 DEF TypeOK, StatusLoad, Goto, Pcs, sess, shared, history
<1>3. CurInv' /\ ReplyInv' /\ AcceptArmed' /\ CountInv'
  BY <1>1, BoardStep DEF StatusLoad, Inside, Pcs, shared
<1> QED
  BY <1>2, <1>3

LEMMA StatusPushStep ==
  ASSUME IInv, NEW t \in Threads, StatusPush(t), UNCHANGED crashed
  PROVE  IInv'
<1> USE DEF IInv
<1>1. pc[t] \in Inside
  BY DEF StatusPush, Inside, Pcs
<1>2. TypeOK'
  <2>1. Append(vec[t], 200) \in Seq(Nat)
    BY DEF TypeOK
  <2> QED
    BY <2>1 DEF TypeOK, StatusPush, Store, Goto, Pcs, sess, regs, history
<1>3. CurInv' /\ ReplyInv' /\ AcceptArmed' /\ CountInv'
  BY <1>1, BoardStep DEF StatusPush, Inside, Pcs, regs
<1> QED
  BY <1>2, <1>3

LEMMA StatusClearStep ==
  ASSUME IInv, NEW t \in Threads, StatusClear(t), UNCHANGED crashed
  PROVE  IInv'
<1> USE DEF IInv
<1>1. pc[t] \in Inside
  BY DEF StatusClear, Inside, Pcs
<1>2. TypeOK'
  <2>1. request_info' \in [Uris -> Seq(Nat)]
    BY DEF StatusClear, Cleared
  <2>2. todo' \in [Threads -> SUBSET Uris]
    BY DEF TypeOK, StatusClear
  <2> QED
    BY <2>1, <2>2 DEF TypeOK, StatusClear, Goto, Pcs, sess, history
<1>3. CurInv' /\ ReplyInv' /\ AcceptArmed' /\ CountInv'
  BY <1>1, BoardStep DEF StatusClear, Inside, Pcs
<1> QED
  BY <1>2, <1>3

LEMMA StatusScanStep ==
  ASSUME IInv, NEW t \in Threads, StatusScan(t), UNCHANGED crashed
  PROVE  IInv'
<1> USE DEF IInv
<1>1. pc[t] = "statusScan" /\ pc[t] \in Inside \ {"count"}
  BY DEF StatusScan, Inside, Pcs
<1>2. PICK u \in todo[t] :
        /\ request_info' = [request_info EXCEPT ![u] = request_info[u] \o Codes(u)]
        /\ todo' = [todo EXCEPT ![t] = todo[t] \ {u}]
  BY DEF StatusScan
<1>3. TypeOK'
  <2>1. u \in Uris
    BY DEF TypeOK
  <2>2. request_info[u] \o Codes(u) \in Seq(Nat)
    BY <2>1, CodesType DEF TypeOK
  <2> QED
    BY <1>2, <2>2 DEF TypeOK, StatusScan, sess, history
<1>4. Goto(t, pc[t])
  BY DEF TypeOK, StatusScan, Goto
<1>5. CurInv' /\ ReplyInv' /\ AcceptArmed' /\ CountInv'
  BY <1>1, <1>4, BoardStep DEF StatusScan
<1> QED
  BY <1>3, <1>5

LEMMA StatusBuildStep ==
  ASSUME IInv, NEW t \in Threads, StatusBuild(t), UNCHANGED crashed
  PROVE  IInv'
<1> USE DEF IInv
<1> DEFINE page == [code |-> 200, rows |-> request_info, total |-> num_requests]
<1>1. pc[t] \in Inside /\ Uri(t) \in Uris /\ cur[t] \in Sessions
  BY InsideSession DEF StatusBuild, Inside, Pcs
<1>2. page \in Reply /\ page # NULL
  BY ServerAssumption DEF TypeOK, Reply
<1>3. Codes(Uri(t)) \in Seq(Nat)
  BY <1>1, CodesType
<1>4. TypeOK'
  BY <1>1, <1>2, <1>3 DEF TypeOK, StatusBuild, Goto, Pcs, shared, history
<1>5. CurInv' /\ AcceptArmed'
  BY <1>1, InnerStep DEF StatusBuild, Inside, Pcs
<1>6. ReplyInv'
  BY <1>1, <1>2 DEF ReplyInv, TypeOK, CurInv, StatusBuild, Goto
<1>7. CountInv'
  BY DEF CountInv, CountNeverOvershoots, TypeOK, StatusBuild, Goto, shared, history
<1> QED
  BY <1>4, <1>5, <1>6, <1>7

LEMMA StatusPopStep ==
  ASSUME IInv, NEW t \in Threads, StatusPop(t), UNCHANGED crashed
  PROVE  IInv'
<1> USE DEF IInv
<1>1. pc[t] = "statusPop" /\ pc[t] \in Inside
  BY DEF StatusPop, Inside, Pcs
<1>2. AfterHandler(t) \in {"load", "reply"}
  BY DEF AfterHandler
<1>3. TypeOK'
  <2>1. SubSeq(vec[t], 1, Len(vec[t]) - 1) \in Seq(Nat)
    BY PopType DEF TypeOK, StatusPop
  <2> QED
    BY <1>2, <2>1 DEF TypeOK, StatusPop, Store, Goto, Pcs, sess, regs, history
<1>4. CurInv' /\ ReplyInv' /\ AcceptArmed' /\ CountInv'
  BY <1>1, <1>2, BoardStep DEF StatusPop, ReplyInv, Inside, Pcs, regs
<1> QED
  BY <1>3, <1>4

-----------------------------------------------------------------------------
(* Steps that begin or end a handler, or complete an operation.            *)

(* The session of one thread inside handle_read is left: no other thread   *)
(* has it, and it was not part of the acceptor's cycle.                    *)
LEMMA LeaveStep ==
  ASSUME IInv, NEW t \in Threads, pc[t] \in Inside,
         NEW o \in {"writing", "dead"}, op' = [op EXCEPT ![cur[t]] = o],
         cur' = [cur EXCEPT ![t] = NULL], Goto(t, "idle"),
         UNCHANGED rep, o = "writing" => rep[cur[t]] # NULL
  PROVE  CurInv' /\ ReplyInv' /\ AcceptArmed'
<1> USE DEF IInv
<1>1. cur[t] \in Sessions /\ op[cur[t]] = "running"
  BY InsideSession
<1>2. CurInv'
  BY <1>1 DEF CurInv, SessionConfined, TypeOK, Goto, Inside
<1>3. ReplyInv'
  BY <1>1 DEF ReplyInv, CurInv, SessionConfined, TypeOK, Goto, Inside
<1>4. Arming' = Arming /\ Rearming' = Rearming
  BY <1>1 DEF Arming, Rearming, TypeOK, Goto, Inside
<1> QED
  BY <1>2, <1>3, <1>4 DEF AcceptArmed

LEMMA ReadFailedStep ==
  ASSUME IInv, NEW t \in Threads, ReadFailed(t), UNCHANGED crashed
  PROVE  IInv'
<1> USE DEF IInv
<1>1. pc[t] \in Inside /\ cur[t] \in Sessions
  BY InsideSession DEF ReadFailed, Inside, Pcs
<1>2. TypeOK'
  BY <1>1 DEF TypeOK, ReadFailed, Goto, Pcs, Ops, regs, shared, history
<1>3. CurInv' /\ ReplyInv' /\ AcceptArmed'
  BY <1>1, LeaveStep DEF ReadFailed
<1>4. CountInv'
  BY DEF CountInv, CountNeverOvershoots, TypeOK, ReadFailed, Goto, regs, shared, history
<1> QED
  BY <1>2, <1>3, <1>4

LEMMA SendReplyStep ==
  ASSUME IInv, NEW t \in Threads, SendReply(t), UNCHANGED crashed
  PROVE  IInv'
<1> USE DEF IInv
<1>1. /\ pc[t] \in Inside /\ cur[t] \in Sessions /\ Uri(t) \in Uris
      /\ rep[cur[t]] # NULL
  BY InsideSession DEF SendReply, Inside, Pcs, ReplyInv
<1>2. TypeOK'
  <2>1. answered' \in [Uris -> Seq(Nat)]
    <3>1. rep[cur[t]].code \in Nat
      BY <1>1 DEF TypeOK, Reply
    <3>2. Append(answered[Uri(t)], rep[cur[t]].code) \in Seq(Nat)
      BY <1>1, <3>1 DEF TypeOK
    <3> QED
      BY <1>1, <3>2 DEF TypeOK, SendReply
  <2>2. op' \in [Sessions -> Ops] /\ pc' \in [Threads -> Pcs]
    BY <1>1 DEF TypeOK, SendReply, Goto, Pcs, Ops
  <2> QED
    BY <2>1, <2>2 DEF TypeOK, SendReply, regs, shared
<1>3. CurInv' /\ ReplyInv' /\ AcceptArmed'
  BY <1>1, LeaveStep DEF SendReply
<1>4. CountInv'
  BY DEF CountInv, CountNeverOvershoots, TypeOK, SendReply, Goto, regs, shared
<1> QED
  BY <1>2, <1>3, <1>4

LEMMA handle_readStep ==
  ASSUME IInv, NEW t \in Threads, NEW s \in Sessions, handle_read(t, s),
         UNCHANGED crashed
  PROVE  IInv'
<1> USE DEF IInv
<1>1. TypeOK'
  BY DEF TypeOK, handle_read, Goto, Pcs, Ops, shared
<1>2. CurInv'
  BY ServerAssumption DEF CurInv, SessionConfined, TypeOK, handle_read, Goto
<1>3. ReplyInv'
  BY DEF ReplyInv, TypeOK, handle_read, Goto
<1>4. AcceptArmed'
  <2>1. Arming' = Arming /\ Rearming' = Rearming
    BY DEF Arming, Rearming, TypeOK, handle_read, Goto
  <2> QED
    BY <2>1 DEF AcceptArmed
<1>5. CountInv'
  BY DEF CountInv, CountNeverOvershoots, TypeOK, handle_read, Goto, shared
<1> QED
  BY <1>1, <1>2, <1>3, <1>4, <1>5

(* The acceptor's cycle: the completed accept leaves, the thread owes one. *)
LEMMA handle_acceptStep ==
  ASSUME IInv, NEW t \in Threads, NEW s \in Sessions, handle_accept(t, s),
         UNCHANGED crashed
  PROVE  IInv'
<1> USE DEF IInv
<1>1. TypeOK'
  BY DEF TypeOK, handle_accept, Goto, Pcs, Ops, regs, shared, history
<1>2. CurInv'
  BY DEF CurInv, SessionConfined, TypeOK, handle_accept, Goto
<1>3. ReplyInv'
  BY DEF ReplyInv, TypeOK, handle_accept, Goto
<1>4. AcceptArmed'
  <2>1. s \in Arming /\ Arming = {s} /\ Rearming = {}
    BY DEF Arming, AcceptArmed, handle_accept
  <2>2. Arming' = {}
    BY <2>1 DEF Arming, TypeOK, handle_accept
  <2>3. Rearming' = {t}
    BY <2>1 DEF Rearming, TypeOK, handle_accept, Goto
  <2> QED
    BY <2>2, <2>3 DEF AcceptArmed
<1>5. CountInv'
  BY DEF CountInv, CountNeverOvershoots, TypeOK, handle_accept, Goto, regs, shared, history
<1> QED
  BY <1>1, <1>2, <1>3, <1>4, <1>5

LEMMA start_acceptStep ==
  ASSUME IInv, NEW t \in Threads, start_accept(t), UNCHANGED crashed
  PROVE  IInv'
<1> USE DEF IInv
<1>1. PICK s \in Sessions : op[s] = "unborn" /\ op' = [op EXCEPT ![s] = "accepting"]
  BY DEF start_accept
<1>2. TypeOK'
  BY <1>1 DEF TypeOK, start_accept, Goto, Pcs, Ops, regs, shared, history
<1>3. CurInv'
  BY <1>1 DEF CurInv, SessionConfined, TypeOK, start_accept, Goto
<1>4. ReplyInv'
  BY <1>1 DEF ReplyInv, TypeOK, start_accept, Goto
<1>5. AcceptArmed'
  <2>1. t \in Rearming /\ Rearming = {t} /\ Arming = {}
    BY DEF Rearming, AcceptArmed, start_accept
  <2>2. Arming' = {s}
    BY <1>1, <2>1 DEF Arming, TypeOK
  <2>3. Rearming' = {}
    BY <2>1 DEF Rearming, TypeOK, start_accept, Goto
  <2> QED
    BY <2>2, <2>3 DEF AcceptArmed
<1>6. CountInv'
  BY DEF CountInv, CountNeverOvershoots, TypeOK, start_accept, Goto, regs, shared, history
<1> QED
  BY <1>2, <1>3, <1>4, <1>5, <1>6

(* handle_write and the environment move one session's operation, neither  *)
(* to nor from "running", and keep it in or out of the acceptor's cycle.   *)
LEMMA OperationStep ==
  ASSUME IInv, UNCHANGED <<rep, pc, cur, regs, shared, history>>,
         NEW s \in Sessions, NEW o \in Ops \ {"running", "writing"},
         op[s] # "running", op' = [op EXCEPT ![s] = o],
         o \in {"accepting", "accepted", "acceptFailed"} <=> s \in Arming
  PROVE  CurInv' /\ ReplyInv' /\ AcceptArmed' /\ CountInv'
<1> USE DEF IInv
<1>1. CurInv' /\ ReplyInv'
  BY DEF CurInv, SessionConfined, ReplyInv, TypeOK
<1>2. Arming' = Arming /\ Rearming' = Rearming
  BY DEF Arming, Rearming, TypeOK
<1>3. CountInv'
  BY DEF CountInv, CountNeverOvershoots, regs, shared, history
<1> QED
  BY <1>1, <1>2, <1>3 DEF AcceptArmed

LEMMA handle_writeStep ==
  ASSUME IInv, NEW t \in Threads, NEW s \in Sessions, handle_write(t, s),
         UNCHANGED crashed
  PROVE  IInv'
<1> USE DEF IInv
<1>1. TypeOK'
  BY DEF TypeOK, handle_write, Ops, regs, shared, history
<1>2. CurInv' /\ ReplyInv' /\ AcceptArmed' /\ CountInv'
  BY OperationStep DEF handle_write, Ops, Arming
<1> QED
  BY <1>1, <1>2

LEMMA EnvironmentStep ==
  ASSUME IInv, NEW s \in Sessions, Environment(s)
  PROVE  IInv'
<1> USE DEF IInv, Environment
<1>1. CASE Connect(s)
  <2>1. TypeOK'
    BY <1>1 DEF TypeOK, Connect, Ops, regs, shared, history
  <2> QED
    BY <1>1, <2>1, OperationStep DEF Connect, Ops, Arming
<1>2. CASE AcceptError(s)
  <2>1. TypeOK'
    BY <1>2 DEF TypeOK, AcceptError, Ops, regs, shared, history
  <2> QED
    BY <1>2, <2>1, OperationStep DEF AcceptError, Ops, Arming
<1>3. ASSUME NEW d \in Inputs, Receive(s, d) PROVE IInv'
  <2>1. TypeOK'
    BY <1>3, ServerAssumption DEF TypeOK, Receive, Ops, regs, shared, history
  <2> QED
    BY <1>3, <2>1, OperationStep DEF Receive, Ops, Arming
<1>4. ASSUME NEW o \in {"written", "writeFailed"}, WriteComplete(s, o) PROVE IInv'
  <2>1. TypeOK'
    BY <1>4 DEF TypeOK, WriteComplete, Ops, regs, shared, history
  <2> QED
    BY <1>4, <2>1, OperationStep DEF WriteComplete, Ops, Arming
<1> QED
  BY <1>1, <1>2, <1>3, <1>4

(* A step that changes nothing but crashed. *)
LEMMA StopStep ==
  ASSUME IInv, UNCHANGED <<sess, pc, cur, regs, shared, history>>, crashed' \in BOOLEAN
  PROVE  IInv'
<1> USE DEF IInv, sess, regs, shared, history
<1>1. TypeOK'
  BY DEF TypeOK
<1>2. CurInv' /\ ReplyInv' /\ CountInv'
  BY DEF CurInv, SessionConfined, ReplyInv, CountInv, CountNeverOvershoots
<1>3. AcceptArmed'
  BY DEF AcceptArmed, Arming, Rearming
<1> QED
  BY <1>1, <1>2, <1>3

-----------------------------------------------------------------------------
(* Every step preserves the invariant. *)
LEMMA NextIInv == IInv /\ [Next]_vars => IInv'
<1> SUFFICES ASSUME IInv, [Next]_vars PROVE IInv'
  OBVIOUS
<1>1. ASSUME NEW s \in Sessions, Environment(s) PROVE IInv'
  BY <1>1, EnvironmentStep
<1>2. ASSUME NEW t \in Threads, NEW s \in Sessions, Dequeue(t, s) PROVE IInv'
  BY <1>2, handle_acceptStep, handle_readStep, handle_writeStep DEF Dequeue
<1>3. ASSUME NEW t \in Threads, Continue(t) PROVE IInv'
  <2>1. CASE start_accept(t) \/ Count(t) \/ ReadFailed(t) \/ Reparse(t) \/ Parsed(t)
    BY <1>3, <2>1, start_acceptStep, CountStep, ReadFailedStep, ReparseStep, ParsedStep
       DEF Continue
  <2>2. CASE HandleRequest(t) \/ Load(t) \/ Record(t) \/ SendReply(t)
    BY <1>3, <2>2, HandleRequestStep, LoadStep, RecordStep, SendReplyStep DEF Continue
  <2>3. CASE StatusLoad(t) \/ StatusPush(t) \/ StatusClear(t)
    BY <1>3, <2>3, StatusLoadStep, StatusPushStep, StatusClearStep DEF Continue
  <2>4. CASE StatusScan(t) \/ StatusBuild(t) \/ StatusPop(t)
    BY <1>3, <2>4, StatusScanStep, StatusBuildStep, StatusPopStep DEF Continue
  <2> QED
    BY <1>3, <2>1, <2>2, <2>3, <2>4 DEF Continue
<1>4. ASSUME NEW t \in Threads, Crash(t) PROVE IInv'
  BY <1>4, StopStep DEF Crash
<1>5. CASE UNCHANGED vars
  BY <1>5, StopStep DEF vars, IInv, TypeOK
<1> QED
  BY <1>1, <1>2, <1>3, <1>4, <1>5 DEF Next, Rest

THEOREM Invariance == Spec => []IInv
<1> QED
  BY InitIInv, NextIInv, PTL DEF Spec

(* Every variable keeps its type, for any threads, sessions and inputs. *)
THEOREM TypeCorrect == Spec => []TypeOK
<1>1. IInv => TypeOK
  BY DEF IInv
<1> QED
  BY <1>1, Invariance, PTL

(* server.cc:57: the acceptor is armed exactly once at all times. *)
THEOREM AlwaysArmed == Spec => []AcceptArmed
<1>1. IInv => AcceptArmed
  BY DEF IInv
<1> QED
  BY <1>1, Invariance, PTL

(* session.cc: no two threads ever run handle_read of one session, so the  *)
(* session's members need no lock.                                         *)
THEOREM Confinement == Spec => []SessionConfined
<1>1. IInv => SessionConfined
  BY DEF IInv, CurInv
<1> QED
  BY <1>1, Invariance, PTL

(* session.cc:38: however the threads interleave, num_requests is at most  *)
(* the number of reads and recursive calls.                                *)
THEOREM NoOvercount == Spec => []CountNeverOvershoots
<1>1. IInv => CountNeverOvershoots
  BY DEF IInv, CountInv
<1> QED
  BY <1>1, Invariance, PTL

-----------------------------------------------------------------------------
(* Only the handler of a running session changes the session's reply. *)
LEMMA ReplyChange ==
  ASSUME IInv, Next, NEW s \in Sessions, op[s] # "running"
  PROVE  rep'[s] = rep[s]
<1> USE DEF IInv
<1>1. ASSUME NEW x \in Sessions, Environment(x) PROVE rep' = rep
  BY <1>1 DEF Environment, Connect, AcceptError, Receive, WriteComplete
<1>2. ASSUME NEW t \in Threads, NEW x \in Sessions, Dequeue(t, x) PROVE rep' = rep
  BY <1>2 DEF Dequeue, handle_accept, handle_read, handle_write
<1>3. ASSUME NEW t \in Threads, HandleRequest(t) \/ StatusBuild(t)
      PROVE  rep'[s] = rep[s]
  <2>1. cur[t] # s
    BY <1>3, InsideSession DEF HandleRequest, StatusBuild, Inside, Pcs
  <2> QED
    BY <1>3, <2>1 DEF HandleRequest, StatusBuild, TypeOK
<1>4. ASSUME NEW t \in Threads, Continue(t), ~HandleRequest(t), ~StatusBuild(t)
      PROVE  rep' = rep
  BY <1>4 DEF Continue, start_accept, Count, ReadFailed, Reparse, Parsed, Load, Record,
     SendReply, StatusLoad, StatusPush, StatusClear, StatusScan, StatusPop, sess
<1>5. ASSUME NEW t \in Threads, Crash(t) PROVE rep' = rep
  BY <1>5 DEF Crash, sess
<1>6. CASE Rest
  BY <1>6 DEF Rest, vars, sess
<1> QED
  BY <1>1, <1>2, <1>3, <1>4, <1>5, <1>6 DEF Next

(* reply.h:52-54: while a write is outstanding the reply whose buffers it  *)
(* was given exists and does not change, whatever the other threads do.    *)
THEOREM ReplyUnchanged == Spec => ReplyStable
<1>1. ASSUME IInv, [Next]_vars
      PROVE  [\A s \in Sessions : op[s] = "writing" => rep[s] # NULL /\ rep'[s] = rep[s]]_vars
  <2>1. CASE UNCHANGED vars
    BY <2>1
  <2>2. CASE Next
    <3>1. \A s \in Sessions : op[s] = "writing" => rep'[s] = rep[s]
      BY <1>1, <2>2, ReplyChange
    <3>2. \A s \in Sessions : op[s] = "writing" => rep[s] # NULL
      BY <1>1 DEF IInv, ReplyInv
    <3> QED
      BY <3>1, <3>2
  <2> QED
    BY <1>1, <2>1, <2>2
<1> QED
  BY <1>1, Invariance, PTL DEF Spec, ReplyStable

-----------------------------------------------------------------------------
(***************************************************************************)
(* One thread in the pool: then the unlocked statics are exact, and so is  *)
(* every status page, for every set of sessions, every dispatch and every  *)
(* set of inputs.  OneInv says what the statics hold at each point of the  *)
(* one thread's handler.                                                   *)
(***************************************************************************)

(* The entry that the thread has put into the code map and that is not yet *)
(* a code sent: the status page's own, or that of the reply to be sent.    *)
Expected(t, u) ==
  IF u = Uri(t) /\ pc[t] \in {"statusClear", "statusScan", "statusPop"}
  THEN Append(answered[u], 200)
  ELSE IF u = Uri(t) /\ pc[t] = "reply" /\ Result(t) = "good"
       THEN Append(answered[u], rep[cur[t]].code)
       ELSE answered[u]

BoardOne(t) ==
  /\ \A u \in Uris : Codes(u) = Expected(t, u)
  /\ pc[t] \in {"statusPush", "statusPop", "record"} => vec[t] = Codes(Uri(t))
  /\ pc[t] \in {"load", "record"} => Result(t) = "good"

(* The rows of the page listed so far.                                     *)
PageOne(t) ==
  /\ pc[t] = "statusScan" =>
       \A u \in Uris : request_info[u] = IF u \in todo[t] THEN <<>> ELSE Codes(u)
  /\ pc[t] = "statusPop" => \A u \in Uris : rep[cur[t]].rows[u] = Codes(u)

(* The loaded counter is the counter, one behind while it is being stored. *)
CountOne(t) ==
  IF pc[t] = "count"
  THEN reg[t] = num_requests /\ num_requests + 1 = received + reparsed
  ELSE num_requests = received + reparsed

OneInv == \A t \in Threads : BoardOne(t) /\ PageOne(t) /\ CountOne(t)

-----------------------------------------------------------------------------
(* pop_back takes off what push_back put on. *)
LEMMA PushPop ==
  ASSUME NEW v \in Seq(Nat), NEW x \in Nat
  PROVE  SubSeq(Append(v, x), 1, Len(Append(v, x)) - 1) = v
OBVIOUS

LEMMA InitOne == Init => OneInv
BY DEF Init, OneInv, BoardOne, PageOne, CountOne, Expected, Codes

-----------------------------------------------------------------------------
(* The counter. *)

Still == <<num_requests, received, reparsed, reg>>

LEMMA CountKept ==
  ASSUME NEW t \in Threads, CountOne(t), UNCHANGED Still, pc[t] # "count", pc'[t] # "count"
  PROVE  CountOne(t)'
BY DEF CountOne, Still

LEMMA CountLoaded ==
  ASSUME NEW t \in Threads, IInv, CountOne(t), pc[t] # "count",
         \/ \E s \in Sessions : handle_read(t, s)
         \/ Reparse(t)
  PROVE  CountOne(t)'
BY DEF CountOne, IInv, TypeOK, handle_read, Reparse, Goto, shared

LEMMA CountStored ==
  ASSUME NEW t \in Threads, IInv, CountOne(t), Count(t)
  PROVE  CountOne(t)'
BY DEF CountOne, IInv, TypeOK, Count, Counted, Goto, regs, history

-----------------------------------------------------------------------------
(* The code map and the page. *)

(* While the thread is at one of these, nothing is pending in the map.     *)
Quiet == {"idle", "rearm", "count", "parse", "handle"}

LEMMA QuietStep ==
  ASSUME NEW t \in Threads, BoardOne(t), pc[t] \in Quiet, pc'[t] \in Quiet,
         UNCHANGED <<request_code_received_, answered>>
  PROVE  BoardOne(t)' /\ PageOne(t)'
BY DEF BoardOne, PageOne, Expected, Codes, Quiet

(* The thread does not move, and its session's request is left alone.      *)
LEMMA FrameStep ==
  ASSUME NEW t \in Threads, BoardOne(t), PageOne(t),
         UNCHANGED <<rep, pc, cur, regs, shared, history>>,
         pc[t] \in Inside => data_'[cur[t]] = data_[cur[t]]
  PROVE  BoardOne(t)' /\ PageOne(t)'
<1> USE DEF regs, shared, history
<1>1. CASE pc[t] \notin Inside
  BY <1>1 DEF BoardOne, PageOne, Expected, Codes, Inside, Pcs
<1>2. CASE pc[t] \in Inside
  <2>1. Uri(t)' = Uri(t) /\ Result(t)' = Result(t)
    BY <1>2 DEF Uri, Result
  <2> QED BY <2>1 DEF BoardOne, PageOne, Expected, Codes
<1> QED BY <1>1, <1>2

(* The reply is built. *)
LEMMA HandleRequestOne ==
  ASSUME NEW t \in Threads, IInv, BoardOne(t), HandleRequest(t)
  PROVE  BoardOne(t)' /\ PageOne(t)'
<1>1. pc[t] = "handle" /\ pc'[t] = AfterHandler(t)
  BY DEF HandleRequest, Goto, IInv, TypeOK
<1>2. Uri(t)' = Uri(t) /\ Result(t)' = Result(t)
  BY DEF HandleRequest, Uri, Result
<1>3. UNCHANGED <<request_code_received_, answered>>
  BY DEF HandleRequest, shared, history
<1> QED BY <1>1, <1>2, <1>3 DEF BoardOne, PageOne, Expected, Codes, AfterHandler

(* Its code is loaded with the others of the URI, and stored. *)
LEMMA LoadOne ==
  ASSUME NEW t \in Threads, IInv, BoardOne(t), Load(t)
  PROVE  BoardOne(t)' /\ PageOne(t)'
<1>1. pc[t] = "load" /\ pc'[t] = "record" /\ vec'[t] = Codes(Uri(t))
  BY DEF Load, Goto, IInv, TypeOK
<1>2. Uri(t)' = Uri(t) /\ Result(t)' = Result(t)
  BY DEF Load, Uri, Result, sess
<1>3. UNCHANGED <<request_code_received_, answered>>
  BY DEF Load, shared, history
<1> QED BY <1>1, <1>2, <1>3 DEF BoardOne, PageOne, Expected, Codes

(* What Store does to the codes. *)
LEMMA StoreCodes ==
  ASSUME TypeOK, NEW u \in Uris, NEW v \in Seq(Nat), Store(u, v)
  PROVE  \A x \in Uris : Codes(x)' = IF x = u THEN v ELSE Codes(x)
<1>1. v # NULL
  BY ServerAssumption
<1> QED BY <1>1 DEF Store, Codes, TypeOK

LEMMA RecordOne ==
  ASSUME NEW t \in Threads, IInv, BoardOne(t), Record(t)
  PROVE  BoardOne(t)' /\ PageOne(t)'
<1>1. pc[t] = "record" /\ pc'[t] = "reply" /\ pc[t] \in Inside
  BY DEF Record, Goto, IInv, TypeOK, Inside, Pcs
<1>2. Uri(t)' = Uri(t) /\ Result(t)' = Result(t) /\ cur' = cur /\ rep' = rep
  BY DEF Record, Uri, Result, sess
<1>3. UNCHANGED answered
  BY DEF Record, history
<1>4. Uri(t) \in Uris /\ cur[t] \in Sessions
  BY <1>1, InsideSession DEF IInv
<1>5. Append(vec[t], rep[cur[t]].code) \in Seq(Nat)
  <2>1. rep[cur[t]] \in Reply
    BY <1>1, <1>4 DEF IInv, TypeOK, ReplyInv
  <2> QED BY <2>1 DEF IInv, TypeOK, Reply
<1>6. \A x \in Uris : Codes(x)' = IF x = Uri(t) THEN Append(vec[t], rep[cur[t]].code)
                                                ELSE Codes(x)
  BY <1>4, <1>5, StoreCodes DEF IInv, Record
<1>7. vec[t] = answered[Uri(t)] /\ \A x \in Uris : Codes(x) = answered[x]
  BY <1>1, <1>4 DEF BoardOne, Expected
<1> QED BY <1>1, <1>2, <1>3, <1>6, <1>7 DEF BoardOne, PageOne, Expected

(* The reply is sent: its code is among those answered. *)
LEMMA SendReplyOne ==
  ASSUME NEW t \in Threads, IInv, BoardOne(t), SendReply(t)
  PROVE  BoardOne(t)' /\ PageOne(t)'
<1>1. pc[t] = "reply" /\ pc'[t] = "idle" /\ pc[t] \in Inside
  BY DEF SendReply, Goto, IInv, TypeOK, Inside, Pcs
<1>2. \A u \in Uris : Codes(u)' = Codes(u)
  BY DEF SendReply, shared, Codes
<1>3. \A u \in Uris : answered'[u] = Expected(t, u)
  BY <1>1 DEF SendReply, Expected, IInv, TypeOK
<1> QED BY <1>1, <1>2, <1>3 DEF BoardOne, PageOne, Expected

-----------------------------------------------------------------------------
(* The status page. *)

LEMMA StatusLoadOne ==
  ASSUME NEW t \in Threads, IInv, BoardOne(t), StatusLoad(t)
  PROVE  BoardOne(t)' /\ PageOne(t)'
<1>1. pc[t] = "handle" /\ pc'[t] = "statusPush" /\ vec'[t] = Codes(Uri(t))
  BY DEF StatusLoad, Goto, IInv, TypeOK
<1>2. Uri(t)' = Uri(t)
  BY DEF StatusLoad, Uri, sess
<1>3. UNCHANGED <<request_code_received_, answered>>
  BY DEF StatusLoad, shared, history
<1> QED BY <1>1, <1>2, <1>3 DEF BoardOne, PageOne, Expected, Codes

LEMMA StatusPushOne ==
  ASSUME NEW t \in Threads, IInv, BoardOne(t), StatusPush(t)
  PROVE  BoardOne(t)' /\ PageOne(t)'
<1>1. pc[t] = "statusPush" /\ pc'[t] = "statusClear" /\ pc[t] \in Inside
  BY DEF StatusPush, Goto, IInv, TypeOK, Inside, Pcs
<1>2. Uri(t)' = Uri(t) /\ Uri(t) \in Uris
  BY <1>1, InsideSession DEF StatusPush, Uri, sess, IInv
<1>3. UNCHANGED answered
  BY DEF StatusPush, history
<1>4. Append(vec[t], 200) \in Seq(Nat)
  BY DEF IInv, TypeOK
<1>5. \A x \in Uris : Codes(x)' = IF x = Uri(t) THEN Append(vec[t], 200) ELSE Codes(x)
  BY <1>2, <1>4, StoreCodes DEF IInv, StatusPush
<1>6. vec[t] = answered[Uri(t)] /\ \A x \in Uris : Codes(x) = answered[x]
  BY <1>1, <1>2 DEF BoardOne, Expected
<1> QED BY <1>1, <1>2, <1>3, <1>5, <1>6 DEF BoardOne, PageOne, Expected

(* The keys the page will not list have no codes. *)
LEMMA StatusClearOne ==
  ASSUME NEW t \in Threads, IInv, BoardOne(t), StatusClear(t)
  PROVE  BoardOne(t)' /\ PageOne(t)'
<1>1. pc[t] = "statusClear" /\ pc'[t] = "statusScan"
  BY DEF StatusClear, Goto, IInv, TypeOK
<1>2. Uri(t)' = Uri(t) /\ \A u \in Uris : Codes(u)' = Codes(u)
  BY DEF StatusClear, Uri, Codes, sess
<1>3. UNCHANGED answered
  BY DEF StatusClear, history
<1>4. \A u \in Uris : request_info'[u] = <<>> /\ (u \notin todo'[t] => Codes(u) = <<>>)
  BY DEF StatusClear, Cleared, Codes, IInv, TypeOK
<1> QED BY <1>1, <1>2, <1>3, <1>4 DEF BoardOne, PageOne, Expected

LEMMA StatusScanOne ==
  ASSUME NEW t \in Threads, IInv, BoardOne(t), PageOne(t), StatusScan(t)
  PROVE  BoardOne(t)' /\ PageOne(t)'
<1>1. pc[t] = "statusScan" /\ pc'[t] = "statusScan"
  BY DEF StatusScan
<1>2. Uri(t)' = Uri(t) /\ \A u \in Uris : Codes(u)' = Codes(u)
  BY DEF StatusScan, Uri, Codes, sess
<1>3. UNCHANGED answered
  BY DEF StatusScan, history
<1>4. PICK u \in todo[t] :
        /\ request_info' = [request_info EXCEPT ![u] = request_info[u] \o Codes(u)]
        /\ todo' = [todo EXCEPT ![t] = todo[t] \ {u}]
  BY DEF StatusScan
<1>5. u \in Uris /\ Codes(u) \in Seq(Nat)
  BY CodesType DEF IInv, TypeOK
<1>6. request_info'[u] = Codes(u)
  <2>1. request_info[u] = <<>>
    BY <1>1, <1>5 DEF PageOne
  <2> QED BY <1>4, <1>5, <2>1 DEF IInv, TypeOK
<1>7. \A x \in Uris : request_info'[x] = IF x \in todo'[t] THEN <<>> ELSE Codes(x)
  BY <1>1, <1>4, <1>5, <1>6 DEF PageOne, IInv, TypeOK
<1> QED BY <1>1, <1>2, <1>3, <1>7 DEF BoardOne, PageOne, Expected

LEMMA StatusBuildOne ==
  ASSUME NEW t \in Threads, IInv, BoardOne(t), PageOne(t), StatusBuild(t)
  PROVE  BoardOne(t)' /\ PageOne(t)'
<1>1. pc[t] = "statusScan" /\ pc'[t] = "statusPop" /\ pc[t] \in Inside
      /\ vec'[t] = Codes(Uri(t))
  BY DEF StatusBuild, Goto, IInv, TypeOK, Inside, Pcs
<1>2. Uri(t)' = Uri(t) /\ \A u \in Uris : Codes(u)' = Codes(u)
  BY DEF StatusBuild, Uri, Codes, shared
<1>3. UNCHANGED answered
  BY DEF StatusBuild, history
<1>4. cur[t] \in Sessions /\ Uri(t) \in Uris
  BY <1>1, InsideSession DEF IInv
<1>5. rep'[cur'[t]].rows = request_info
  BY <1>4 DEF StatusBuild, IInv, TypeOK
<1>6. \A u \in Uris : request_info[u] = Codes(u)
  BY <1>1 DEF PageOne, StatusBuild
<1> QED BY <1>1, <1>2, <1>3, <1>4, <1>5, <1>6 DEF BoardOne, PageOne, Expected

LEMMA StatusPopOne ==
  ASSUME NEW t \in Threads, IInv, BoardOne(t), StatusPop(t)
  PROVE  BoardOne(t)' /\ PageOne(t)'
<1> DEFINE v == SubSeq(vec[t], 1, Len(vec[t]) - 1)
<1>1. pc[t] = "statusPop" /\ pc'[t] = AfterHandler(t) /\ pc[t] \in Inside
  BY DEF StatusPop, Goto, IInv, TypeOK, Inside, Pcs
<1>2. Uri(t)' = Uri(t) /\ Result(t)' = Result(t) /\ Uri(t) \in Uris
  BY <1>1, InsideSession DEF StatusPop, Uri, Result, sess, IInv
<1>3. UNCHANGED answered
  BY DEF StatusPop, history
<1>4. answered[Uri(t)] \in Seq(Nat) /\ vec[t] = Append(answered[Uri(t)], 200)
  BY <1>1, <1>2 DEF BoardOne, Expected, IInv, TypeOK
<1>5. v = answered[Uri(t)]
  BY <1>4, PushPop
<1>6. \A x \in Uris : Codes(x)' = IF x = Uri(t) THEN v ELSE Codes(x)
  <2>1. Store(Uri(t), v) /\ v \in Seq(Nat)
    BY <1>4, <1>5 DEF StatusPop
  <2> QED BY <1>2, <2>1, StoreCodes DEF IInv
<1>7. \A x \in Uris : x # Uri(t) => Codes(x) = answered[x]
  BY <1>1 DEF BoardOne, Expected
<1>8. \A x \in Uris : Codes(x)' = answered'[x]
  BY <1>3, <1>5, <1>6, <1>7
<1> QED
  BY <1>1, <1>2, <1>3, <1>8 DEF BoardOne, PageOne, Expected, AfterHandler

-----------------------------------------------------------------------------
(* Every step of the one thread, and of the environment around it. *)

LEMMA EnvironmentOne ==
  ASSUME NEW t \in Threads, IInv, OneInv, NEW s \in Sessions, Environment(s)
  PROVE  BoardOne(t)' /\ PageOne(t)' /\ CountOne(t)'
<1>1. UNCHANGED <<rep, pc, cur, regs, shared, history>>
  BY DEF Environment, Connect, AcceptError, Receive, WriteComplete
<1>2. ASSUME pc[t] \in Inside PROVE data_'[cur[t]] = data_[cur[t]]
  <2>1. cur[t] \in Sessions /\ op[cur[t]] = "running"
    BY <1>2, InsideSession DEF IInv
  <2> QED
    BY <2>1 DEF Environment, Connect, AcceptError, Receive, WriteComplete, IInv, TypeOK
<1>3. CountOne(t)'
  BY <1>1 DEF OneInv, CountOne, regs, shared, history
<1> QED BY <1>1, <1>2, <1>3, FrameStep DEF OneInv

LEMMA DequeueOne ==
  ASSUME NEW t \in Threads, IInv, OneInv, NEW s \in Sessions, Dequeue(t, s)
  PROVE  BoardOne(t)' /\ PageOne(t)' /\ CountOne(t)'
<1> USE DEF OneInv
<1>1. CASE handle_accept(t, s)
  <2>1. pc[t] = "idle" /\ pc'[t] = "rearm"
    BY <1>1 DEF handle_accept, Goto, IInv, TypeOK
  <2> QED
    BY <1>1, <2>1, QuietStep, CountKept
       DEF handle_accept, Quiet, Still, regs, shared, history
<1>2. CASE handle_read(t, s)
  <2>1. pc[t] = "idle" /\ pc'[t] = "count"
    BY <1>2 DEF handle_read, Goto, IInv, TypeOK
  <2> QED
    BY <1>2, <2>1, QuietStep, CountLoaded DEF handle_read, Quiet, shared
<1>3. CASE handle_write(t, s)
  BY <1>3, QuietStep, CountKept DEF handle_write, Quiet, Still, regs, shared, history
<1> QED BY <1>1, <1>2, <1>3 DEF Dequeue

LEMMA ContinueOne ==
  ASSUME NEW t \in Threads, IInv, OneInv, Continue(t)
  PROVE  BoardOne(t)' /\ PageOne(t)' /\ CountOne(t)'
<1> USE DEF OneInv
<1>1. CASE start_accept(t) \/ ReadFailed(t) \/ Parsed(t)
  <2>1. pc[t] \in {"rearm", "parse"} /\ pc'[t] \in {"idle", "handle"}
    BY <1>1 DEF start_accept, ReadFailed, Parsed, Goto, IInv, TypeOK
  <2>2. UNCHANGED <<regs, shared, history>>
    BY <1>1 DEF start_accept, ReadFailed, Parsed
  <2> QED
    BY <2>1, <2>2, QuietStep, CountKept DEF Quiet, Still, regs, shared, history
<1>2. CASE Count(t)
  <2>1. pc[t] = "count" /\ pc'[t] = "parse"
    BY <1>2 DEF Count, Goto, IInv, TypeOK
  <2> QED BY <1>2, <2>1, QuietStep, CountStored DEF Count, Quiet, history
<1>3. CASE Reparse(t)
  <2>1. pc[t] = "parse" /\ pc'[t] = "count"
    BY <1>3 DEF Reparse, Goto, IInv, TypeOK
  <2> QED BY <1>3, <2>1, QuietStep, CountLoaded DEF Reparse, Quiet, shared
<1>4. CASE HandleRequest(t) \/ StatusLoad(t) \/ Load(t)
  <2>1. CountOne(t)'
    BY <1>4, CountKept DEF HandleRequest, StatusLoad, Load, AfterHandler, Goto, Still, IInv,
       TypeOK, regs, shared, history
  <2> QED BY <1>4, <2>1, HandleRequestOne, StatusLoadOne, LoadOne
<1>5. CASE Record(t) \/ SendReply(t) \/ StatusPush(t)
  <2>1. CountOne(t)'
    BY <1>5, CountKept DEF Record, SendReply, StatusPush, Goto, Still, IInv, TypeOK,
       regs, shared, history
  <2> QED BY <1>5, <2>1, RecordOne, SendReplyOne, StatusPushOne
<1>6. CASE StatusClear(t) \/ StatusScan(t) \/ StatusBuild(t) \/ StatusPop(t)
  <2>1. CountOne(t)'
    BY <1>6, CountKept DEF StatusClear, StatusScan, StatusBuild, StatusPop, AfterHandler,
       Goto, Still, IInv, TypeOK, regs, shared, history
  <2> QED BY <1>6, <2>1, StatusClearOne, StatusScanOne, StatusBuildOne, StatusPopOne
<1> QED BY <1>1, <1>2, <1>3, <1>4, <1>5, <1>6 DEF Continue

(* A step that changes nothing but crashed. *)
LEMMA StopOne ==
  ASSUME OneInv, UNCHANGED <<sess, pc, cur, regs, shared, history>>
  PROVE  OneInv'
BY DEF OneInv, BoardOne, PageOne, CountOne, Expected, Codes, Uri, Result,
   sess, regs, shared, history

LEMMA NextOne ==
  ASSUME NEW t \in Threads, Threads = {t}, IInv, OneInv, [Next]_vars
  PROVE  OneInv'
<1>1. ASSUME NEW s \in Sessions, Environment(s) PROVE OneInv'
  BY <1>1, EnvironmentOne DEF OneInv
<1>2. ASSUME NEW s \in Sessions, Dequeue(t, s) PROVE OneInv'
  BY <1>2, DequeueOne DEF OneInv
<1>3. CASE Continue(t)
  BY <1>3, ContinueOne DEF OneInv
<1>4. CASE Crash(t)
  BY <1>4, StopOne DEF Crash
<1>5. CASE UNCHANGED vars
  BY <1>5, StopOne DEF vars
<1> QED BY <1>1, <1>2, <1>3, <1>4, <1>5 DEF Next, Rest

THEOREM OneThread ==
  ASSUME NEW t \in Threads, Threads = {t}
  PROVE  Spec => [](IInv /\ OneInv)
<1>1. Init => IInv /\ OneInv
  BY InitIInv, InitOne
<1>2. IInv /\ OneInv /\ [Next]_vars => (IInv /\ OneInv)'
  BY NextIInv, NextOne
<1> QED BY <1>1, <1>2, PTL DEF Spec

(* session.cc:38, 124: one thread loses no increment of num_requests.      *)
THEOREM OneThreadCounts ==
  ASSUME NEW t \in Threads, Threads = {t}
  PROVE  Spec => []CountExact
<1>1. IInv /\ OneInv => CountExact
  BY DEF OneInv, CountOne, CountExact
<1> QED BY <1>1, OneThread, PTL

(* README.md:82: with one thread the map behind the status page holds the  *)
(* codes sent, whatever was requested and however its handlers answered.   *)
THEOREM OneThreadBoard ==
  ASSUME NEW t \in Threads, Threads = {t}
  PROVE  Spec => []BoardExact
<1>1. IInv /\ OneInv => BoardExact
  BY DEF OneInv, BoardOne, Expected, BoardExact, IInv, CurInv
<1> QED BY <1>1, OneThread, PTL

(* status_handler.cc:26-59: with one thread every status page lists the    *)
(* replies sent before it and its own.                                     *)
THEOREM OneThreadPage ==
  ASSUME NEW t \in Threads, Threads = {t}
  PROVE  Spec => []PageExact
<1>1. IInv /\ OneInv => PageExact
  <2> SUFFICES ASSUME IInv, OneInv, pc[t] = "statusPop", NEW u \in Uris
               PROVE  rep[cur[t]].rows[u] = IF u = Uri(t) THEN Append(answered[u], 200)
                                                         ELSE answered[u]
    BY DEF PageExact
  <2>1. BoardOne(t) /\ PageOne(t)
    BY DEF OneInv
  <2>2. rep[cur[t]].rows[u] = Codes(u)
    BY <2>1 DEF PageOne
  <2>3. Codes(u) = Expected(t, u)
    BY <2>1 DEF BoardOne
  <2> QED BY <2>2, <2>3 DEF Expected
<1> QED BY <1>1, OneThread, PTL

-----------------------------------------------------------------------------
(* What does not end the process. *)

(* Every URI has a location, and no read delivers a single byte.           *)
Located == \A u \in Uris : dispatch[u] # NULL
NoShort == \A d \in Inputs : d.result # "short"

StopInv == NeverCrashes /\ \A s \in Sessions : data_[s].result # "short"

LEMMA NextStop ==
  ASSUME NEW t \in Threads, Threads = {t}, Located, NoShort,
         IInv, OneInv, StopInv, [Next]_vars
  PROVE  StopInv'
<1>1. ASSUME crashed, Next PROVE UNCHANGED vars
  BY <1>1 DEF Next, Environment, Dequeue, Continue, Crash, Rest
<1>2. CASE UNCHANGED vars
  BY <1>2 DEF vars, sess, StopInv, NeverCrashes, HandlerThrows, Kind, Uri
<1>3. CASE ~crashed /\ Crash(t)
  <2>1. ~ShortRead(t) /\ ~NullHandler(t)
    BY InsideSession DEF ShortRead, NullHandler, Result, Kind, Located, StopInv, IInv,
       Inside, Pcs
  <2>2. ~PopEmpty(t)
    <3> SUFFICES ASSUME pc[t] = "statusPop" PROVE vec[t] # <<>>
      BY DEF PopEmpty
    <3>1. Uri(t) \in Uris
      BY InsideSession DEF IInv, Inside, Pcs
    <3>2. answered[Uri(t)] \in Seq(Nat) /\ vec[t] = Append(answered[Uri(t)], 200)
      BY <3>1 DEF OneInv, BoardOne, Expected, IInv, TypeOK
    <3> QED BY <3>2
  <2>3. ~Race(t)
    BY DEF Race
  <2>4. HandlerThrows(t)
    BY <1>3, <2>1, <2>2, <2>3 DEF Crash, Doomed
  <2> QED
    BY <1>3, <2>4 DEF Crash, StopInv, NeverCrashes, HandlerThrows, Kind, Uri, sess
<1>4. ASSUME ~crashed, NEW s \in Sessions, Environment(s) PROVE StopInv'
  <2>1. ~crashed'
    BY <1>4 DEF Environment
  <2>2. \A x \in Sessions : data_'[x].result # "short"
    <3>1. CASE \E d \in Inputs : Receive(s, d)
      <4>1. PICK d \in Inputs : data_' = [data_ EXCEPT ![s] = d]
        BY <3>1 DEF Receive
      <4>2. data_ \in [Sessions -> Data] /\ d.result # "short"
        BY DEF NoShort, IInv, TypeOK
      <4> QED
        BY <4>1, <4>2 DEF StopInv
    <3>2. CASE UNCHANGED data_
      BY <3>2 DEF StopInv
    <3> QED
      BY <1>4, <3>1, <3>2 DEF Environment, Connect, AcceptError, WriteComplete
  <2> QED BY <2>1, <2>2 DEF StopInv, NeverCrashes
<1>5. ASSUME ~crashed, NEW s \in Sessions, Dequeue(t, s) PROVE StopInv'
  BY <1>5 DEF Dequeue, handle_accept, handle_read, handle_write, StopInv, NeverCrashes
<1>6. ASSUME ~crashed, Continue(t) PROVE StopInv'
  <2>1. ~crashed'
    BY <1>6 DEF Continue
  <2>2. CASE Reparse(t) \/ Parsed(t)
    <3>1. cur[t] \in Sessions /\ data_[cur[t]] \in Data
      BY <2>2, InsideSession DEF Reparse, Parsed, IInv, TypeOK, Inside, Pcs
    <3>2. data_'[cur[t]].result # "short"
      BY <2>2, <3>1 DEF Reparse, Parsed, StopInv, IInv, TypeOK, Data
    <3>3. \A x \in Sessions : x # cur[t] => data_'[x] = data_[x]
      BY <2>2, <3>1 DEF Reparse, Parsed, IInv, TypeOK
    <3> QED BY <2>1, <3>2, <3>3 DEF StopInv, NeverCrashes
  <2>3. CASE ~(Reparse(t) \/ Parsed(t))
    <3>1. data_' = data_
      BY <1>6, <2>3 DEF Continue, start_accept, Count, ReadFailed, HandleRequest, Load, Record,
         SendReply, StatusLoad, StatusPush, StatusClear, StatusScan, StatusBuild, StatusPop,
         sess
    <3> QED BY <2>1, <3>1 DEF StopInv, NeverCrashes
  <2> QED BY <2>2, <2>3
<1>7. CASE ~crashed /\ Next
  <2>1. ASSUME NEW x \in Threads PROVE x = t
    OBVIOUS
  <2> QED BY <1>2, <1>3, <1>4, <1>5, <1>6, <1>7, <2>1 DEF Next, Rest
<1> QED BY <1>1, <1>2, <1>7

(* session.cc:75-86, 106-113 and status_handler.cc:59: one thread, a       *)
(* location for every URI and no read of a single byte leave only the      *)
(* handlers that read files or talk to another host to end the process.    *)
THEOREM OneThreadLives ==
  ASSUME NEW t \in Threads, Threads = {t}, Located, NoShort
  PROVE  Spec => []NeverCrashes
<1>1. Init => StopInv
  BY DEF Init, StopInv, NeverCrashes
<1>2. IInv /\ OneInv /\ StopInv /\ [Next]_vars => StopInv'
  BY NextStop
<1>3. StopInv => NeverCrashes
  BY DEF StopInv
<1> QED BY <1>1, <1>2, <1>3, OneThread, PTL DEF Spec

-----------------------------------------------------------------------------
(***************************************************************************)
(* Server implements Connections: a client cannot tell the thread pool and *)
(* its lost updates from a server with no threads at all.                  *)
(***************************************************************************)

Undecided == {"count", "parse"}
Decided   == Inside \ Undecided
Replied   == {"load", "record", "reply"}
StatusPcs == {"statusPush", "statusClear", "statusScan", "statusPop"}
Early     == {"unborn", "accepting", "accepted", "acceptFailed", "reading"}

(* Before it is read a session has no data, before it is run no reply. *)
EarlyInv ==
  /\ \A s \in Sessions : op[s] \in Early => data_[s].result = "error"
  /\ \A s \in Sessions : op[s] \in Early \cup {"readDone"} => rep[s] = NULL

(* A thread that went past the parser serves the URI of the abstract       *)
(* target, and the reply it built is one of that URI's handler.            *)
Serves(t) ==
  /\ pc[t] \in Undecided => rep[cur[t]] = NULL
  /\ pc[t] \in Decided => /\ Result(t) \in {"good", "bad"}
                          /\ Uri(t) = TargetOf(data_[cur[t]])
  /\ pc[t] \in StatusPcs => Kind(t) = "status"
  /\ pc[t] = "statusPop" => rep[cur[t]].code = 200
  /\ pc[t] \in Replied /\ Kind(t) # NULL => rep[cur[t]].code \in ReplyCodes(Kind(t))

RInv == IInv /\ EarlyInv /\ (\A t \in Threads : Serves(t))

-----------------------------------------------------------------------------
LEMMA InitRInv == Init => RInv
BY InitIInv DEF Init, RInv, EarlyInv, Serves, Undecided, Decided, Replied, StatusPcs,
   Early, Inside, Pcs

(* A step of one thread, or of the environment, does not disturb what      *)
(* another thread is serving.                                              *)
LEMMA ServesFrame ==
  ASSUME IInv, NEW t \in Threads, Serves(t), pc'[t] = pc[t], cur'[t] = cur[t],
         pc[t] \in Inside => /\ data_'[cur[t]] = data_[cur[t]]
                             /\ rep'[cur[t]] = rep[cur[t]]
  PROVE  Serves(t)'
<1>1. CASE pc[t] \in Inside
  BY <1>1 DEF Serves, Uri, Result, Kind, Undecided, Decided, Replied, StatusPcs
<1>2. CASE pc[t] \notin Inside
  BY <1>2 DEF Serves, Undecided, Decided, Replied, StatusPcs, Inside, IInv, TypeOK, Pcs
<1> QED
  BY <1>1, <1>2

(* Steps of thread t inside its handler that change at most the session's  *)
(* data and reply: what is left to show is that t itself still serves.     *)
LEMMA InsideServes ==
  ASSUME RInv, UNCHANGED <<op, cur>>, NEW t \in Threads, pc[t] \in Inside,
         \A x \in Threads \ {t} : pc'[x] = pc[x],
         \A s \in Sessions \ {cur[t]} : data_'[s] = data_[s] /\ rep'[s] = rep[s],
         Serves(t)'
  PROVE  EarlyInv' /\ (\A x \in Threads : Serves(x)')
<1> USE DEF RInv
<1>1. EarlyInv'
  BY InsideSession DEF IInv, EarlyInv, Early
<1>2. ASSUME NEW x \in Threads \ {t} PROVE Serves(x)'
  <2>1. pc[x] \in Inside => cur[x] \in Sessions \ {cur[t]}
    BY InsideSession DEF IInv, CurInv, SessionConfined, TypeOK, Inside
  <2> QED
    BY <2>1, ServesFrame
<1> QED
  BY <1>1, <1>2

(* Steps of thread t inside its handler that touch only the shared statics *)
(* and its own registers, and move it on without a new reply.              *)
LEMMA BoardServes ==
  ASSUME RInv, UNCHANGED <<op, cur, data_, rep>>, NEW t \in Threads, pc[t] \in Inside,
         NEW l \in Inside, Goto(t, l), Serves(t)'
  PROVE  EarlyInv' /\ (\A x \in Threads : Serves(x)')
<1>1. \A x \in Threads \ {t} : pc'[x] = pc[x]
  BY DEF Goto, RInv, IInv, TypeOK
<1> QED
  BY <1>1, InsideServes

(* The steps inside a handler that leave the client's view alone. *)
Silent(t) ==
  \/ Count(t) \/ Reparse(t) \/ Parsed(t) \/ HandleRequest(t) \/ Load(t) \/ Record(t)
  \/ StatusLoad(t) \/ StatusPush(t) \/ StatusClear(t) \/ StatusScan(t)
  \/ StatusBuild(t) \/ StatusPop(t)

LEMMA CountServes ==
  ASSUME RInv, NEW t \in Threads, Count(t)
  PROVE  Serves(t)'
BY DEF RInv, IInv, TypeOK, Count, Goto, Serves, Undecided, Decided, Replied, StatusPcs, sess

LEMMA ReparseServes ==
  ASSUME RInv, NEW t \in Threads, Reparse(t)
  PROVE  Serves(t)'
BY DEF RInv, IInv, TypeOK, Reparse, Goto, Serves, Undecided, Decided, Replied, StatusPcs

LEMMA ParsedServes ==
  ASSUME RInv, NEW t \in Threads, Parsed(t)
  PROVE  Serves(t)'
<1> USE DEF RInv, IInv
<1>1. cur[t] \in Sessions /\ pc'[t] = "handle" /\ cur' = cur
  BY InsideSession DEF Parsed, Goto, TypeOK, Inside, Pcs
<1>2. /\ data_'[cur[t]].result = data_[cur[t]].result
      /\ data_'[cur[t]].uri = Served(t)
  BY <1>1 DEF Parsed, TypeOK, Data
<1>3. Result(t)' \in {"good", "bad"} /\ Uri(t)' = TargetOf(data_[cur[t]])'
  BY <1>1, <1>2 DEF Parsed, Served, Result, Uri, TargetOf
<1> QED
  BY <1>1, <1>3 DEF Serves, Undecided, Decided, Replied, StatusPcs

LEMMA HandleRequestServes ==
  ASSUME RInv, NEW t \in Threads, HandleRequest(t)
  PROVE  Serves(t)'
<1> USE DEF RInv, IInv
<1>1. cur[t] \in Sessions /\ pc[t] = "handle" /\ cur' = cur /\ data_' = data_
  BY InsideSession DEF HandleRequest, Inside, Pcs
<1>2. pc'[t] \in {"load", "reply"}
  BY DEF HandleRequest, Goto, AfterHandler, TypeOK
<1>3. Kind(t) # NULL => rep'[cur[t]].code \in ReplyCodes(Kind(t))
  BY <1>1 DEF HandleRequest, TypeOK
<1>4. UNCHANGED <<Result(t), Uri(t), Kind(t), TargetOf(data_[cur[t]])>>
  BY <1>1 DEF Result, Uri, Kind
<1> QED
  BY <1>1, <1>2, <1>3, <1>4 DEF Serves, Undecided, Decided, Replied, StatusPcs, Inside, Pcs

(* A step that keeps the session's data and reply, to a place that asks    *)
(* nothing new of them.                                                    *)
LEMMA KeepServes ==
  ASSUME RInv, UNCHANGED <<cur, data_, rep>>, NEW t \in Threads, pc[t] \in Decided,
         NEW l \in Decided, Goto(t, l),
         l \in StatusPcs => Kind(t) = "status",
         l # "statusPop",
         l \in Replied /\ Kind(t) # NULL => rep[cur[t]].code \in ReplyCodes(Kind(t))
  PROVE  Serves(t)'
<1>1. pc'[t] = l
  BY DEF Goto, RInv, IInv, TypeOK
<1>2. UNCHANGED <<Result(t), Uri(t), Kind(t), TargetOf(data_[cur[t]])>>
  BY DEF Result, Uri, Kind
<1> QED
  BY <1>1, <1>2 DEF RInv, Serves, Undecided, Decided

LEMMA RecordServes ==
  ASSUME RInv, NEW t \in Threads, Load(t) \/ Record(t)
  PROVE  Serves(t)'
BY KeepServes DEF RInv, Load, Record, Serves, Decided, Undecided, Replied, StatusPcs,
   Inside, Pcs, sess

LEMMA StatusServes ==
  ASSUME RInv, NEW t \in Threads, StatusLoad(t) \/ StatusPush(t) \/ StatusClear(t)
  PROVE  Serves(t)'
BY KeepServes DEF RInv, StatusLoad, StatusPush, StatusClear, Serves, Decided, Undecided,
   Replied, StatusPcs, Inside, Pcs, sess

LEMMA StatusScanServes ==
  ASSUME RInv, NEW t \in Threads, StatusScan(t)
  PROVE  Serves(t)'
BY ServesFrame DEF RInv, StatusScan, sess

LEMMA StatusBuildServes ==
  ASSUME RInv, NEW t \in Threads, StatusBuild(t)
  PROVE  Serves(t)'
<1> USE DEF RInv, IInv
<1>1. cur[t] \in Sessions /\ pc[t] = "statusScan" /\ cur' = cur /\ data_' = data_
  BY InsideSession DEF StatusBuild, Inside, Pcs
<1>2. pc'[t] = "statusPop" /\ rep'[cur[t]].code = 200
  BY <1>1 DEF StatusBuild, Goto, TypeOK
<1>3. UNCHANGED <<Result(t), Uri(t), Kind(t), TargetOf(data_[cur[t]])>>
  BY <1>1 DEF Result, Uri, Kind
<1> QED
  BY <1>1, <1>2, <1>3 DEF Serves, Undecided, Decided, Replied, StatusPcs, Inside, Pcs

LEMMA StatusPopServes ==
  ASSUME RInv, NEW t \in Threads, StatusPop(t)
  PROVE  Serves(t)'
<1>1. AfterHandler(t) \in {"load", "reply"}
  BY DEF AfterHandler
<1>2. pc[t] = "statusPop" /\ Serves(t)
  BY DEF RInv, StatusPop
<1>3. rep[cur[t]].code \in ReplyCodes(Kind(t))
  BY <1>2 DEF Serves, StatusPcs, ReplyCodes, StatusCodes
<1> QED
  BY <1>1, <1>2, <1>3, KeepServes DEF StatusPop, Decided, Undecided, Replied, StatusPcs,
     Inside, Pcs, sess

LEMMA SilentRInv ==
  ASSUME RInv, NEW t \in Threads, Silent(t)
  PROVE  EarlyInv' /\ (\A x \in Threads : Serves(x)')
<1> USE DEF RInv
<1>1. Serves(t)'
  BY CountServes, ReparseServes, ParsedServes, HandleRequestServes, RecordServes,
     StatusServes, StatusScanServes, StatusBuildServes, StatusPopServes DEF Silent
<1>2. pc[t] \in Inside /\ UNCHANGED <<op, cur>>
  BY DEF Silent, Count, Reparse, Parsed, HandleRequest, Load, Record, StatusLoad, StatusPush,
     StatusClear, StatusScan, StatusBuild, StatusPop, Inside, Pcs, sess
<1>3. \A x \in Threads \ {t} : pc'[x] = pc[x]
  BY DEF Silent, Count, Reparse, Parsed, HandleRequest, Load, Record, StatusLoad, StatusPush,
     StatusClear, StatusScan, StatusBuild, StatusPop, Goto, IInv, TypeOK
<1>4. \A s \in Sessions \ {cur[t]} : data_'[s] = data_[s] /\ rep'[s] = rep[s]
  BY DEF Silent, Count, Reparse, Parsed, HandleRequest, Load, Record, StatusLoad, StatusPush,
     StatusClear, StatusScan, StatusBuild, StatusPop, IInv, TypeOK, sess
<1> QED
  BY <1>1, <1>2, <1>3, <1>4, InsideServes

-----------------------------------------------------------------------------
(* Steps that begin or end a handler, and the environment's. *)

LEMMA EndServes ==
  ASSUME RInv, NEW t \in Threads,
         ReadFailed(t) \/ SendReply(t) \/ start_accept(t)
  PROVE  EarlyInv' /\ (\A x \in Threads : Serves(x)')
<1> USE DEF RInv, IInv
<1>1. data_' = data_ /\ rep' = rep /\ pc' = [pc EXCEPT ![t] = "idle"]
  BY DEF ReadFailed, SendReply, start_accept, Goto
<1>2. EarlyInv'
  <2>1. CASE start_accept(t)
    BY <1>1, <2>1 DEF start_accept, EarlyInv, Early, TypeOK
  <2>2. CASE ReadFailed(t) \/ SendReply(t)
    BY <1>1, <2>2 DEF ReadFailed, SendReply, EarlyInv, Early, TypeOK
  <2> QED
    BY <2>1, <2>2
<1>3. Serves(t)'
  BY <1>1 DEF TypeOK, Serves, Undecided, Decided, Replied, StatusPcs, Inside
<1>4. ASSUME NEW x \in Threads \ {t} PROVE Serves(x)'
  BY <1>1, ServesFrame DEF ReadFailed, SendReply, start_accept, TypeOK
<1> QED
  BY <1>2, <1>3, <1>4

LEMMA DequeueServes ==
  ASSUME RInv, NEW t \in Threads, NEW s \in Sessions, Dequeue(t, s)
  PROVE  EarlyInv' /\ (\A x \in Threads : Serves(x)')
<1> USE DEF RInv, IInv
<1>1. data_' = data_ /\ rep' = rep
  BY DEF Dequeue, handle_accept, handle_read, handle_write
<1>2. EarlyInv'
  BY <1>1 DEF Dequeue, handle_accept, handle_read, handle_write, EarlyInv, Early, TypeOK
<1>3. ASSUME NEW x \in Threads, pc'[x] = pc[x], cur'[x] = cur[x] PROVE Serves(x)'
  BY <1>1, <1>3, ServesFrame
<1>4. \A x \in Threads \ {t} : pc'[x] = pc[x] /\ cur'[x] = cur[x]
  BY DEF Dequeue, handle_accept, handle_read, handle_write, Goto, TypeOK
<1>5. Serves(t)'
  <2>1. CASE handle_read(t, s)
    <3>1. rep'[cur'[t]] = NULL
      BY <1>1, <2>1 DEF handle_read, EarlyInv, TypeOK
    <3>2. pc'[t] = "count"
      BY <2>1 DEF handle_read, Goto, TypeOK
    <3> QED
      BY <3>1, <3>2 DEF Serves, Decided, Undecided, Replied, StatusPcs
  <2>2. CASE handle_accept(t, s)
    <3>1. pc'[t] = "rearm"
      BY <2>2 DEF handle_accept, Goto, TypeOK
    <3> QED
      BY <3>1 DEF Serves, Undecided, Decided, Replied, StatusPcs, Inside
  <2>3. CASE handle_write(t, s)
    BY <1>3, <2>3 DEF handle_write
  <2> QED
    BY <2>1, <2>2, <2>3 DEF Dequeue
<1> QED
  BY <1>2, <1>3, <1>4, <1>5

LEMMA EnvironmentServes ==
  ASSUME RInv, NEW s \in Sessions, Environment(s)
  PROVE  EarlyInv' /\ (\A x \in Threads : Serves(x)')
<1> USE DEF RInv, IInv
<1>1. pc' = pc /\ cur' = cur /\ rep' = rep /\ op[s] # "running"
  BY DEF Environment, Connect, AcceptError, Receive, WriteComplete
<1>2. EarlyInv'
  BY <1>1, ServerAssumption DEF Environment, Connect, AcceptError, Receive, WriteComplete,
     EarlyInv, Early, TypeOK
<1>3. \A x \in Sessions : x # s => data_'[x] = data_[x]
  BY DEF Environment, Connect, AcceptError, Receive, WriteComplete, TypeOK
<1>4. ASSUME NEW x \in Threads PROVE Serves(x)'
  <2>1. pc[x] \in Inside => cur[x] \in Sessions \ {s}
    BY <1>1, InsideSession
  <2> QED
    BY <1>1, <1>3, <2>1, ServesFrame
<1> QED
  BY <1>2, <1>4

LEMMA NextRInv == RInv /\ [Next]_vars => RInv'
<1> SUFFICES ASSUME RInv, [Next]_vars PROVE RInv'
  OBVIOUS
<1>1. IInv'
  BY NextIInv DEF RInv
<1>2. ASSUME UNCHANGED <<op, data_, rep, pc, cur>>
      PROVE  EarlyInv' /\ (\A x \in Threads : Serves(x)')
  BY <1>2, ServesFrame DEF RInv, EarlyInv
<1>3. EarlyInv' /\ (\A x \in Threads : Serves(x)')
  <2>1. ASSUME NEW s \in Sessions, Environment(s)
        PROVE  EarlyInv' /\ (\A x \in Threads : Serves(x)')
    BY <2>1, EnvironmentServes
  <2>2. ASSUME NEW t \in Threads, NEW s \in Sessions, Dequeue(t, s)
        PROVE  EarlyInv' /\ (\A x \in Threads : Serves(x)')
    BY <2>2, DequeueServes
  <2>3. ASSUME NEW t \in Threads, Continue(t)
        PROVE  EarlyInv' /\ (\A x \in Threads : Serves(x)')
    BY <2>3, EndServes, SilentRInv DEF Continue, Silent
  <2>4. ASSUME NEW t \in Threads, Crash(t)
        PROVE  EarlyInv' /\ (\A x \in Threads : Serves(x)')
    BY <1>2, <2>4 DEF Crash, sess
  <2>5. CASE UNCHANGED vars
    BY <1>2, <2>5 DEF vars, sess
  <2> QED
    BY <2>1, <2>2, <2>3, <2>4, <2>5 DEF Next, Rest
<1> QED
  BY <1>1, <1>3 DEF RInv

LEMMA RInvariance == Spec => []RInv
<1> QED
  BY InitRInv, NextRInv, PTL DEF Spec

-----------------------------------------------------------------------------
(* The refinement.  The client's view of a session changes with its        *)
(* operation, its data and its reply only.                                 *)
View == <<Phases, Targets, Sent>>

LEMMA PhaseView ==
  ASSUME TypeOK, NEW s \in Sessions, NEW o, op' = [op EXCEPT ![s] = o]
  PROVE  Phases' = [Phases EXCEPT ![s] = PhaseOf(o)]
BY DEF Phases, TypeOK

LEMMA SamePhase ==
  ASSUME TypeOK, NEW s \in Sessions, NEW o, op' = [op EXCEPT ![s] = o],
         PhaseOf(o) = PhaseOf(op[s])
  PROVE  Phases' = Phases
<1>1. Phases' = [Phases EXCEPT ![s] = Phases[s]]
  BY PhaseView DEF Phases
<1> QED
  BY <1>1 DEF Phases

(* A step that takes session s alone to operation o, with nothing else to  *)
(* see, takes its phase there.                                             *)
LEMMA MoveView ==
  ASSUME TypeOK, NEW s \in Sessions, NEW o \in Ops, op' = [op EXCEPT ![s] = o],
         \A x \in Sessions : UNCHANGED <<TargetOf(data_[x]), CodeOf(x)>>
  PROVE  /\ Phases' = [Phases EXCEPT ![s] = PhaseOf(o)]
         /\ UNCHANGED <<Targets, Sent>>
BY DEF Phases, Targets, Sent, TypeOK

LEMMA InitRefines == Init => Abstract!Init
<1> SUFFICES ASSUME Init PROVE Abstract!Init
  OBVIOUS
<1>1. PICK s0 \in Sessions :
        op = [x \in Sessions |-> IF x = s0 THEN "accepting" ELSE "unborn"]
  BY DEF Init
<1>2. Phases = [x \in Sessions |-> IF x = s0 THEN "listening" ELSE "unborn"]
  BY <1>1 DEF Phases, PhaseOf
<1>3. Targets = [s \in Sessions |-> NULL] /\ Sent = [s \in Sessions |-> NULL]
  BY DEF Init, Targets, TargetOf, Sent, CodeOf
<1> QED
  BY <1>2, <1>3 DEF Abstract!Init

LEMMA EnvironmentRefines ==
  ASSUME RInv, NEW s \in Sessions, Environment(s)
  PROVE  [Abstract!Next]_(Abstract!cvars)
<1> USE DEF RInv, IInv
<1>1. rep' = rep
  BY DEF Environment, Connect, AcceptError, Receive, WriteComplete
<1>2. CASE Connect(s) \/ AcceptError(s)
  <2>1. PICK o \in {"accepted", "acceptFailed"} :
          op[s] = "accepting" /\ op' = [op EXCEPT ![s] = o] /\ data_' = data_
    BY <1>2 DEF Connect, AcceptError
  <2>2. \A x \in Sessions : UNCHANGED <<TargetOf(data_[x]), CodeOf(x)>>
    BY <1>1, <2>1 DEF CodeOf, TypeOK
  <2>3. /\ Phases' = [Phases EXCEPT ![s] = PhaseOf(o)]
        /\ UNCHANGED <<Targets, Sent>>
    BY <2>1, <2>2, MoveView DEF Ops
  <2>4. Phases[s] = "listening" /\ PhaseOf(o) = "arrived"
    BY <2>1 DEF Phases, PhaseOf
  <2>5. Abstract!Arrive(s)
    BY <2>3, <2>4 DEF Abstract!Arrive, Abstract!Move
  <2> QED
    BY <2>5 DEF Abstract!Next
<1>3. ASSUME NEW d \in Inputs, Receive(s, d) PROVE [Abstract!Next]_(Abstract!cvars)
  <2>1. /\ op[s] = "reading" /\ op' = [op EXCEPT ![s] = "readDone"]
        /\ data_' = [data_ EXCEPT ![s] = d] /\ d \in Data
    BY <1>3, ServerAssumption DEF Receive
  <2>2. Phases' = [Phases EXCEPT ![s] = "asked"] /\ Phases[s] = "open"
    <3>1. PhaseOf("readDone") = "asked" /\ Phases[s] = "open"
      BY <2>1 DEF PhaseOf, Phases
    <3> QED
      BY <2>1, <3>1, PhaseView
  <2>3. Targets' = [Targets EXCEPT ![s] = TargetOf(d)]
    BY <2>1 DEF Targets, TypeOK
  <2>4. TargetOf(d) \in Uris \cup {NULL}
    BY <2>1, ServerAssumption DEF TargetOf, Data, Results
  <2>5. Sent' = Sent
    BY <1>1, <2>1 DEF Sent, CodeOf, TypeOK
  <2>6. Abstract!Ask(s)
    BY <2>2, <2>3, <2>4, <2>5 DEF Abstract!Ask, Abstract!Move
  <2> QED
    BY <2>6 DEF Abstract!Next
<1>4. ASSUME NEW o \in {"written", "writeFailed"}, WriteComplete(s, o)
      PROVE  [Abstract!Next]_(Abstract!cvars)
  <2>1. op[s] = "writing" /\ op' = [op EXCEPT ![s] = o] /\ data_' = data_
    BY <1>4 DEF WriteComplete
  <2>2. Phases' = Phases
    BY <2>1, SamePhase DEF PhaseOf
  <2>3. Targets' = Targets /\ Sent' = Sent
    BY <1>1, <2>1 DEF Targets, Sent, CodeOf, TypeOK
  <2> QED
    BY <2>2, <2>3 DEF Abstract!cvars
<1> QED
  BY <1>2, <1>3, <1>4 DEF Environment

LEMMA DequeueRefines ==
  ASSUME RInv, NEW t \in Threads, NEW s \in Sessions, Dequeue(t, s)
  PROVE  [Abstract!Next]_(Abstract!cvars)
<1> USE DEF RInv, IInv
<1>1. rep' = rep /\ data_' = data_
  BY DEF Dequeue, handle_accept, handle_read, handle_write
<1>2. CASE handle_accept(t, s)
  <2>1. PICK o \in {"reading", "dead"} :
          op[s] \in {"accepted", "acceptFailed"} /\ op' = [op EXCEPT ![s] = o]
    BY <1>2 DEF handle_accept
  <2>2. \A x \in Sessions : UNCHANGED <<TargetOf(data_[x]), CodeOf(x)>>
    BY <1>1, <2>1 DEF CodeOf, TypeOK
  <2>3. /\ Phases' = [Phases EXCEPT ![s] = PhaseOf(o)]
        /\ UNCHANGED <<Targets, Sent>>
    BY <2>1, <2>2, MoveView DEF Ops
  <2>4. Phases[s] = "arrived" /\ PhaseOf(o) \in {"open", "gone"}
    BY <2>1 DEF Phases, PhaseOf
  <2>5. Abstract!Open(s)
    BY <2>3, <2>4 DEF Abstract!Open, Abstract!Move
  <2> QED
    BY <2>5 DEF Abstract!Next
<1>3. CASE handle_read(t, s)
  <2>1. op[s] = "readDone" /\ op' = [op EXCEPT ![s] = "running"] /\ rep[s] = NULL
    BY <1>3 DEF handle_read, EarlyInv
  <2>2. Phases' = Phases
    BY <2>1, SamePhase DEF PhaseOf
  <2>3. Targets' = Targets /\ Sent' = Sent
    BY <1>1, <2>1 DEF Targets, Sent, CodeOf, TypeOK
  <2> QED
    BY <2>2, <2>3 DEF Abstract!cvars
<1>4. CASE handle_write(t, s)
  <2>1. PICK o \in {"closed", "dead"} :
          op[s] \in {"written", "writeFailed"} /\ op' = [op EXCEPT ![s] = o]
    BY <1>4 DEF handle_write
  <2>2. \A x \in Sessions : UNCHANGED <<TargetOf(data_[x]), CodeOf(x)>>
    BY <1>1, <2>1 DEF CodeOf, TypeOK
  <2>3. /\ Phases' = [Phases EXCEPT ![s] = PhaseOf(o)]
        /\ UNCHANGED <<Targets, Sent>>
    BY <2>1, <2>2, MoveView DEF Ops
  <2>4. Phases[s] = "answered" /\ PhaseOf(o) = "gone"
    BY <2>1 DEF Phases, PhaseOf
  <2>5. Abstract!Leave(s)
    BY <2>3, <2>4 DEF Abstract!Leave, Abstract!Move
  <2> QED
    BY <2>5 DEF Abstract!Next
<1> QED
  BY <1>2, <1>3, <1>4 DEF Dequeue

LEMMA EndRefines ==
  ASSUME RInv, NEW t \in Threads, ReadFailed(t) \/ SendReply(t) \/ start_accept(t)
  PROVE  [Abstract!Next]_(Abstract!cvars)
<1> USE DEF RInv, IInv
<1>1. rep' = rep /\ data_' = data_
  BY DEF ReadFailed, SendReply, start_accept
<1>2. CASE ReadFailed(t)
  <2>1. /\ cur[t] \in Sessions /\ op[cur[t]] = "running"
        /\ op' = [op EXCEPT ![cur[t]] = "dead"]
        /\ rep[cur[t]] = NULL /\ data_[cur[t]].result = "error"
    BY <1>2, InsideSession DEF ReadFailed, Serves, Undecided, Inside, Pcs, Result
  <2>2. \A x \in Sessions : UNCHANGED <<TargetOf(data_[x]), CodeOf(x)>>
    BY <1>1, <2>1 DEF CodeOf, TypeOK
  <2>3. /\ Phases' = [Phases EXCEPT ![cur[t]] = "gone"]
        /\ UNCHANGED <<Targets, Sent>>
    BY <2>1, <2>2, MoveView DEF Ops, PhaseOf
  <2>4. Phases[cur[t]] = "asked" /\ Targets[cur[t]] = NULL
    BY <2>1 DEF Phases, PhaseOf, Targets, TargetOf
  <2>5. Abstract!Leave(cur[t])
    BY <2>1, <2>3, <2>4 DEF Abstract!Leave, Abstract!Move
  <2> QED
    BY <2>1, <2>5 DEF Abstract!Next
<1>3. CASE SendReply(t)
  <2> DEFINE s == cur[t]
             c == rep[s].code
  <2>1. /\ s \in Sessions /\ op[s] = "running" /\ op' = [op EXCEPT ![s] = "writing"]
        /\ rep[s] # NULL /\ Uri(t) \in Uris /\ Kind(t) # NULL
        /\ Uri(t) = TargetOf(data_[s]) /\ c \in ReplyCodes(Kind(t))
    BY <1>3, InsideSession DEF SendReply, Serves, Undecided, Decided, Replied, Inside, Pcs,
       ReplyInv
  <2>2. Phases' = [Phases EXCEPT ![s] = "answered"] /\ Phases[s] = "asked"
    <3>1. PhaseOf("writing") = "answered" /\ Phases[s] = "asked"
      BY <2>1 DEF PhaseOf, Phases
    <3>2. Phases' = [Phases EXCEPT ![s] = PhaseOf("writing")]
      BY <2>1, PhaseView
    <3> QED
      BY <3>1, <3>2
  <2>3. Targets' = Targets /\ Targets[s] = Uri(t)
    BY <1>1, <2>1 DEF Targets
  <2>4. Sent' = [Sent EXCEPT ![s] = c]
    BY <1>1, <2>1 DEF Sent, CodeOf, TypeOK
  <2>5. Targets[s] # NULL /\ c \in Allowed[Targets[s]]
    BY <2>1, <2>3, ServerAssumption DEF Allowed, Kind
  <2>6. Abstract!Answer(s)
    BY <2>2, <2>3, <2>4, <2>5 DEF Abstract!Answer, Abstract!Move
  <2> QED
    BY <2>1, <2>6 DEF Abstract!Next
<1>4. CASE start_accept(t)
  <2>1. PICK s \in Sessions : op[s] = "unborn" /\ op' = [op EXCEPT ![s] = "accepting"]
    BY <1>4 DEF start_accept
  <2>2. \A x \in Sessions : UNCHANGED <<TargetOf(data_[x]), CodeOf(x)>>
    BY <1>1, <2>1 DEF CodeOf, TypeOK
  <2>3. /\ Phases' = [Phases EXCEPT ![s] = "listening"]
        /\ UNCHANGED <<Targets, Sent>>
    BY <2>1, <2>2, MoveView DEF Ops, PhaseOf
  <2>4. Arming = {}
    BY <1>4 DEF start_accept, AcceptArmed, Rearming
  <2>5. Phases[s] = "unborn"
        /\ \A x \in Sessions : Phases[x] \notin {"listening", "arrived"}
    BY <2>1, <2>4 DEF Phases, PhaseOf, Arming, TypeOK, Ops
  <2>6. Abstract!Listen(s)
    BY <2>3, <2>5 DEF Abstract!Listen, Abstract!Move
  <2> QED
    BY <2>6 DEF Abstract!Next
<1> QED
  BY <1>2, <1>3, <1>4

(* Inside a handler nothing changes that a client could see. *)
LEMMA SilentRefines ==
  ASSUME RInv, NEW t \in Threads, Silent(t)
  PROVE  UNCHANGED Abstract!cvars
<1> USE DEF RInv, IInv
<1>1. pc[t] \in Inside /\ op' = op
  BY DEF Silent, Count, Reparse, Parsed, HandleRequest, Load, Record, StatusLoad, StatusPush,
     StatusClear, StatusScan, StatusBuild, StatusPop, Inside, Pcs, sess
<1>2. \A s \in Sessions \ {cur[t]} : data_'[s] = data_[s] /\ rep'[s] = rep[s]
  BY DEF Silent, Count, Reparse, Parsed, HandleRequest, Load, Record, StatusLoad, StatusPush,
     StatusClear, StatusScan, StatusBuild, StatusPop, TypeOK, sess
<1>3. cur[t] \in Sessions /\ op[cur[t]] = "running"
  BY <1>1, InsideSession
<1>4. TargetOf(data_[cur[t]])' = TargetOf(data_[cur[t]])
  <2>1. CASE Reparse(t)
    BY <1>3, <2>1 DEF Reparse, TargetOf, Result, TypeOK, Data
  <2>2. CASE Parsed(t)
    BY <1>3, <2>2 DEF Parsed, Served, TargetOf, Result, Uri, TypeOK, Data
  <2>3. CASE ~Reparse(t) /\ ~Parsed(t)
    <3>1. data_' = data_ /\ cur' = cur
      BY <2>3 DEF Silent, Count, HandleRequest, Load, Record, StatusLoad, StatusPush,
         StatusClear, StatusScan, StatusBuild, StatusPop, sess
    <3> QED
      BY <3>1
  <2> QED
    BY <2>1, <2>2, <2>3
<1>5. Phases' = Phases
  BY <1>1 DEF Phases
<1>6. Targets' = Targets
  <2>1. cur' = cur
    BY DEF Silent, Count, Reparse, Parsed, HandleRequest, Load, Record, StatusLoad, StatusPush,
       StatusClear, StatusScan, StatusBuild, StatusPop
  <2> QED
    BY <1>2, <1>4, <2>1 DEF Targets
<1>7. Sent' = Sent
  BY <1>1, <1>2, <1>3 DEF Sent, CodeOf
<1> QED
  BY <1>5, <1>6, <1>7 DEF Abstract!cvars

LEMMA NextRefines == RInv /\ [Next]_vars => [Abstract!Next]_(Abstract!cvars)
<1> SUFFICES ASSUME RInv, [Next]_vars PROVE [Abstract!Next]_(Abstract!cvars)
  OBVIOUS
<1>1. ASSUME UNCHANGED <<op, data_, rep>> PROVE UNCHANGED Abstract!cvars
  BY <1>1 DEF Abstract!cvars, Phases, Targets, Sent, CodeOf
<1>2. ASSUME NEW s \in Sessions, Environment(s) PROVE [Abstract!Next]_(Abstract!cvars)
  BY <1>2, EnvironmentRefines
<1>3. ASSUME NEW t \in Threads, NEW s \in Sessions, Dequeue(t, s)
      PROVE  [Abstract!Next]_(Abstract!cvars)
  BY <1>3, DequeueRefines
<1>4. ASSUME NEW t \in Threads, Continue(t) PROVE [Abstract!Next]_(Abstract!cvars)
  BY <1>4, EndRefines, SilentRefines DEF Continue, Silent
<1>5. ASSUME NEW t \in Threads, Crash(t) PROVE UNCHANGED Abstract!cvars
  BY <1>1, <1>5 DEF Crash, sess
<1>6. CASE UNCHANGED vars
  BY <1>1, <1>6 DEF vars, sess
<1> QED
  BY <1>2, <1>3, <1>4, <1>5, <1>6 DEF Next, Rest

(* README.md:94-95: for any number of threads and sessions, any dispatch   *)
(* and any input, what the clients see of the server is a behaviour of     *)
(* Connections.                                                            *)
THEOREM Refinement == Spec => ImplementsConnections
<1> QED
  BY InitRefines, RInvariance, NextRefines, PTL
     DEF Spec, ImplementsConnections, Abstract!Spec
=============================================================================
