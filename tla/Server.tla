------------------------------- MODULE Server -------------------------------
(***************************************************************************)
(* The server process: one acceptor that is armed again and again, a pool  *)
(* of threads that all run the io_service, one session object per          *)
(* connection, and the statics of RequestHandlerDispatcher that every      *)
(* thread reads and writes without a lock (src/src/server.cc,              *)
(* src/src/session.cc, src/src/request_handler/status_handler.cc).         *)
(*                                                                         *)
(* A thread executes one completion handler at a time.  Each access to an  *)
(* unsynchronised static that takes a load and a store is two steps here,  *)
(* so another thread may run between them.  What a request says is         *)
(* abstracted to the parser's verdict on it and its URI; which handler a   *)
(* URI reaches is the constant function dispatch.                          *)
(***************************************************************************)
EXTENDS Naturals, Sequences, FiniteSets

CONSTANTS
  Threads,        \* the threads of server::run
  Sessions,       \* the session objects that can be allocated (a bound)
  Uris,           \* request URIs, one per case dispatch tells apart
  BadRequestUri,  \* "/badrequest"
  dispatch,       \* the dispatcher's answer for each URI: a kind or NULL
  Inputs,         \* what a read may deliver
  ProxyCodes,     \* 500, and the codes the proxied site may answer with
  MaxFds,         \* file descriptors the process may hold for connections
  NULL

Kinds == {"echo", "health", "static", "redirect", "notfound", "badrequest",
          "markdown", "proxy", "status"}
Results == {"good", "bad", "indeterminate", "short", "error"}
Data == [result : Results, uri : Uris]

VARIABLES
  op,        \* op[s]: the asynchronous operation session s is in
  data_,     \* data_[s]: what the read delivered, and the URI being served
  rep,       \* rep[s]: the session's reply, NULL before it is built
  fds,       \* sessions whose socket holds a file descriptor
  pc,        \* pc[t]: where thread t is inside a completion handler
  cur,       \* cur[t]: the session whose handle_read t executes, or NULL
  reg,       \* reg[t]: num_requests as t loaded it
  vec,       \* vec[t]: the vector of codes as t loaded it
  todo,      \* todo[t]: the URIs t's status page has still to list
  num_requests, request_code_received_,  \* the dispatcher's statics
  request_info,  \* a member of the status handler, which all threads share
  crashed,   \* the process has terminated
  received,  \* history: reads handed to handle_read
  reparsed,  \* history: recursive calls of handle_read
  answered   \* history: answered[u], codes sent for well-formed requests to u

sess    == <<op, data_, rep, fds>>
regs    == <<reg, vec, todo>>
shared  == <<num_requests, request_code_received_, request_info>>
history == <<received, reparsed, answered>>
vars    == <<sess, pc, cur, regs, shared, crashed, history>>

Ops == {"unborn", "accepting", "accepted", "acceptFailed", "reading", "readDone",
        "running", "writing", "written", "writeFailed", "closed", "dead"}
Pcs == {"idle", "rearm", "count", "parse", "handle", "load", "record", "reply",
        "statusPush", "statusClear", "statusScan", "statusPop"}
Reply == [code : Nat, rows : [Uris -> Seq(Nat)] \cup {NULL}, total : Nat]

ASSUME ServerAssumption ==
  /\ BadRequestUri \in Uris
  /\ dispatch \in [Uris -> Kinds \cup {NULL}]
  /\ Inputs \subseteq Data
  /\ ProxyCodes \subseteq Nat /\ 500 \in ProxyCodes
  /\ MaxFds \in Nat
  /\ NULL \notin Sessions \cup Uris \cup Kinds \cup Reply \cup Seq(Nat)

(* The codes each handler's HandleRequest can put in its reply. *)
EchoCodes       == {200}
HealthCodes     == {200}
StatusCodes     == {200}
StaticCodes     == {200, 404}  \* 404: there is no such file
RedirectCodes   == {302}
NotFoundCodes   == {404}
BadRequestCodes == {400}
MarkdownCodes   == {200, 500}  \* 500: the form's page cannot be read

ReplyCodes(kind) ==
  CASE kind = "echo"       -> EchoCodes
    [] kind = "health"     -> HealthCodes
    [] kind = "status"     -> StatusCodes
    [] kind = "static"     -> StaticCodes
    [] kind = "redirect"   -> RedirectCodes
    [] kind = "notfound"   -> NotFoundCodes
    [] kind = "badrequest" -> BadRequestCodes
    [] kind = "markdown"   -> MarkdownCodes
    [] kind = "proxy"      -> ProxyCodes

(* The stock reply built when dispatch returned NULL. *)
StockCode(result) == IF result = "good" THEN 404 ELSE 400

Init ==
  /\ \E s \in Sessions : op = [x \in Sessions |-> IF x = s THEN "accepting" ELSE "unborn"]
  /\ data_ = [s \in Sessions |-> [result |-> "error", uri |-> BadRequestUri]]
  /\ rep = [s \in Sessions |-> NULL]
  /\ fds = {}
  /\ pc = [t \in Threads |-> "idle"]
  /\ cur = [t \in Threads |-> NULL]
  /\ reg = [t \in Threads |-> 0]
  /\ vec = [t \in Threads |-> <<>>]
  /\ todo = [t \in Threads |-> {}]
  /\ num_requests = 0
  /\ request_code_received_ = [u \in Uris |-> NULL]
  /\ request_info = [u \in Uris |-> <<>>]
  /\ crashed = FALSE
  /\ received = 0 /\ reparsed = 0
  /\ answered = [u \in Uris |-> <<>>]

-----------------------------------------------------------------------------
(* Helpers. *)

\* Session objects left: each handle_accept needs one more, so the model lets
\* an accept complete only while there is one (bound of the model).
Spare == \E s \in Sessions : op[s] = "unborn"

Goto(t, l) == pc' = [pc EXCEPT ![t] = l]

Uri(t)    == data_[cur[t]].uri
Result(t) == data_[cur[t]].result
Kind(t)   == dispatch[Uri(t)]

\* The URI that is dispatched.
\* Faulty variant: a rejected request keeps the URI it came with.
ServedAsSent(t) == Uri(t)
Served(t) == IF Result(t) = "good" THEN Uri(t) ELSE BadRequestUri

\* num_requests++.
\* Faulty variant: failed reads are not counted.
CountedIfRead(t) == IF Result(t) = "error" THEN reg[t] ELSE reg[t] + 1
\* Faulty variant: rejected requests count twice.
CountedTwice(t) == IF Result(t) = "bad" THEN reg[t] + 2 ELSE reg[t] + 1
Counted(t) == reg[t] + 1

\* request_code_received_[u]: operator[] makes an absent key an empty vector.
\* Faulty variant: an absent key is not made.
CodesAt(u) == request_code_received_[u]
Codes(u) == IF request_code_received_[u] = NULL THEN <<>> ELSE request_code_received_[u]

Store(u, codes) ==
  request_code_received_' = [request_code_received_ EXCEPT ![u] = codes]

\* Only replies to well-formed requests are recorded.
\* Faulty variant: rejected requests are recorded too.
AlwaysRecord(t) == "load"
\* Faulty variant: the handler returns before it sends.
ReturnEarly(t) == "idle"
AfterHandler(t) == IF Result(t) = "good" THEN "load" ELSE "reply"

-----------------------------------------------------------------------------
(* The environment: the kernel completes the operations that were started. *)

\* async_accept completes with a connection ...
Connect(s) ==
  /\ op[s] = "accepting" /\ Spare /\ Cardinality(fds) < MaxFds
  /\ op' = [op EXCEPT ![s] = "accepted"]
  /\ fds' = fds \cup {s}
  /\ UNCHANGED <<data_, rep>>

\* ... or with an error.
AcceptError(s) ==
  /\ op[s] = "accepting" /\ Spare
  /\ op' = [op EXCEPT ![s] = "acceptFailed"]
  /\ UNCHANGED <<data_, rep, fds>>

\* async_read_some completes, with bytes or with an error.
Receive(s, d) ==
  /\ op[s] = "reading"
  /\ op' = [op EXCEPT ![s] = "readDone"]
  /\ data_' = [data_ EXCEPT ![s] = d]
  /\ UNCHANGED <<rep, fds>>

\* async_write completes: everything was written, or an error.
WriteComplete(s, outcome) ==
  /\ op[s] = "writing"
  /\ op' = [op EXCEPT ![s] = outcome]
  /\ UNCHANGED <<data_, rep, fds>>

-----------------------------------------------------------------------------
(* server::handle_accept: start the session's read, then arm again. *)
\* Faulty variant: a failed accept is not followed by another.
RearmIfOpen(t, s) ==
  /\ pc[t] = "idle" /\ op[s] \in {"accepted", "acceptFailed"}
  /\ op' = [op EXCEPT ![s] = IF op[s] = "accepted" THEN "reading" ELSE "dead"]
  /\ Goto(t, IF op[s] = "accepted" THEN "rearm" ELSE "idle")
  /\ UNCHANGED <<data_, rep, fds, cur, regs, shared, history>>

handle_accept(t, s) ==
  /\ pc[t] = "idle" /\ op[s] \in {"accepted", "acceptFailed"}
  /\ op' = [op EXCEPT ![s] = IF op[s] = "accepted" THEN "reading" ELSE "dead"]
  /\ Goto(t, "rearm")
  /\ UNCHANGED <<data_, rep, fds, cur, regs, shared, history>>

(* server::start_accept: allocate a session and accept into its socket. *)
start_accept(t) ==
  /\ pc[t] = "rearm"
  /\ \E s \in Sessions : op[s] = "unborn" /\ op' = [op EXCEPT ![s] = "accepting"]
  /\ Goto(t, "idle")
  /\ UNCHANGED <<data_, rep, fds, cur, regs, shared, history>>

(* session::handle_write: shut the connection down.  The socket keeps its   *)
(* descriptor: nothing closes it and the session object is never deleted.   *)
handle_write(t, s) ==
  /\ pc[t] = "idle" /\ op[s] \in {"written", "writeFailed"}
  /\ op' = [op EXCEPT ![s] = IF op[s] = "written" THEN "closed" ELSE "dead"]
  /\ UNCHANGED <<data_, rep, fds, pc, cur, regs, shared, history>>

-----------------------------------------------------------------------------
(* session::handle_read, from its first line to the return. *)

\* A thread takes the completed read and loads num_requests to increment it.
\* Faulty variant: the completed read is left for others to take.
ReadTwice(t, s) ==
  /\ pc[t] = "idle" /\ op[s] = "readDone"
  /\ cur' = [cur EXCEPT ![t] = s]
  /\ Goto(t, "parse")
  /\ UNCHANGED <<sess, regs, shared, history>>

handle_read(t, s) ==
  /\ pc[t] = "idle" /\ op[s] = "readDone"
  /\ op' = [op EXCEPT ![s] = "running"]
  /\ cur' = [cur EXCEPT ![t] = s]
  /\ reg' = [reg EXCEPT ![t] = num_requests]
  /\ received' = received + 1
  /\ Goto(t, "count")
  /\ UNCHANGED <<data_, rep, fds, vec, todo, shared, reparsed, answered>>

\* The store of num_requests++.
Count(t) ==
  /\ pc[t] = "count"
  /\ num_requests' = Counted(t)
  /\ Goto(t, "parse")
  /\ UNCHANGED <<sess, cur, regs, request_code_received_, request_info, history>>

\* A read error is logged and the session is left behind.
ReadFailed(t) ==
  /\ pc[t] = "parse" /\ Result(t) = "error"
  /\ op' = [op EXCEPT ![cur[t]] = "dead"]
  /\ cur' = [cur EXCEPT ![t] = NULL]
  /\ Goto(t, "idle")
  /\ UNCHANGED <<data_, rep, fds, regs, shared, history>>

\* An indeterminate parse: handle_read calls itself on the same bytes, with
\* the parser left where it was.  The bytes ended a line, so the parser now
\* takes the method for a header name and rejects the space that ends it.
Reparse(t) ==
  /\ pc[t] = "parse" /\ Result(t) = "indeterminate"
  /\ data_' = [data_ EXCEPT ![cur[t]].result = "bad"]
  /\ reg' = [reg EXCEPT ![t] = num_requests]
  /\ reparsed' = reparsed + 1
  /\ Goto(t, "count")
  /\ UNCHANGED <<op, rep, fds, cur, vec, todo, shared, received, answered>>

\* A decided parse: serve the request's URI, or "/badrequest".
Parsed(t) ==
  /\ pc[t] = "parse" /\ Result(t) \in {"good", "bad"}
  /\ data_' = [data_ EXCEPT ![cur[t]].uri = Served(t)]
  /\ Goto(t, "handle")
  /\ UNCHANGED <<op, rep, fds, cur, regs, shared, history>>

\* dispatch found no handler (a stock reply), or one whose HandleRequest
\* touches no shared state.
HandleRequest(t) ==
  /\ pc[t] = "handle" /\ Kind(t) # "status"
  /\ \E c \in IF Kind(t) = NULL THEN {StockCode(Result(t))} ELSE ReplyCodes(Kind(t)) :
       rep' = [rep EXCEPT ![cur[t]] = [code |-> c, rows |-> NULL, total |-> 0]]
  /\ Goto(t, AfterHandler(t))
  /\ UNCHANGED <<op, data_, fds, cur, regs, shared, history>>

\* request_code_received_[uri].push_back(rep->code_): the load ...
Load(t) ==
  /\ pc[t] = "load"
  /\ vec' = [vec EXCEPT ![t] = Codes(Uri(t))]
  /\ Goto(t, "record")
  /\ UNCHANGED <<sess, cur, reg, todo, shared, history>>

\* ... and the store.
Record(t) ==
  /\ pc[t] = "record"
  /\ Store(Uri(t), Append(vec[t], rep[cur[t]].code))
  /\ Goto(t, "reply")
  /\ UNCHANGED <<sess, cur, regs, num_requests, request_info, history>>

\* logMetrics, then async_write is started and handle_read returns.
\* Faulty variant: the reply is dropped once its write is started.
SendReplyReset(t) ==
  /\ pc[t] = "reply" /\ Kind(t) # NULL
  /\ op' = [op EXCEPT ![cur[t]] = "writing"]
  /\ rep' = [rep EXCEPT ![cur[t]] = NULL]
  /\ cur' = [cur EXCEPT ![t] = NULL]
  /\ Goto(t, "idle")
  /\ UNCHANGED <<data_, fds, regs, shared, history>>

SendReply(t) ==
  /\ pc[t] = "reply" /\ Kind(t) # NULL
  /\ op' = [op EXCEPT ![cur[t]] = "writing"]
  /\ answered' = IF Result(t) = "good"
                 THEN [answered EXCEPT ![Uri(t)] = Append(@, rep[cur[t]].code)]
                 ELSE answered
  /\ cur' = [cur EXCEPT ![t] = NULL]
  /\ Goto(t, "idle")
  /\ UNCHANGED <<data_, rep, fds, regs, shared, received, reparsed>>

-----------------------------------------------------------------------------
(* StatusRequestHandler::HandleRequest. *)

\* push_back of the page's own 200: the load ...
StatusLoad(t) ==
  /\ pc[t] = "handle" /\ Kind(t) = "status"
  /\ vec' = [vec EXCEPT ![t] = Codes(Uri(t))]
  /\ Goto(t, "statusPush")
  /\ UNCHANGED <<sess, cur, reg, todo, shared, history>>

\* ... and the store.
\* Faulty variant: the page's own code is not pushed.
StatusPushLost(t) ==
  /\ pc[t] = "statusPush"
  /\ Goto(t, "statusClear")
  /\ UNCHANGED <<sess, cur, regs, shared, history>>

StatusPush(t) ==
  /\ pc[t] = "statusPush"
  /\ Store(Uri(t), Append(vec[t], 200))
  /\ Goto(t, "statusClear")
  /\ UNCHANGED <<sess, cur, regs, num_requests, request_info, history>>

\* request_info = "", and the iterator is put at the first key.
\* Faulty variant: the last page is kept.
NotCleared == request_info
Cleared == [u \in Uris |-> <<>>]

StatusClear(t) ==
  /\ pc[t] = "statusClear"
  /\ request_info' = Cleared
  /\ todo' = [todo EXCEPT ![t] = {u \in Uris : request_code_received_[u] # NULL}]
  /\ Goto(t, "statusScan")
  /\ UNCHANGED <<sess, cur, reg, vec, num_requests, request_code_received_, history>>

\* The rows of one key are appended to request_info.
StatusScan(t) ==
  /\ pc[t] = "statusScan"
  /\ \E u \in todo[t] :
       /\ request_info' = [request_info EXCEPT ![u] = @ \o Codes(u)]
       /\ todo' = [todo EXCEPT ![t] = @ \ {u}]
  /\ UNCHANGED <<sess, pc, cur, reg, vec, num_requests, request_code_received_, history>>

\* request_handler_info, the other shared string, is cleared and filled from a
\* table nobody writes any more (two threads there race as in request_info), and
\* the page is put together; then pop_back: the load ...
StatusBuild(t) ==
  /\ pc[t] = "statusScan" /\ todo[t] = {}
  /\ rep' = [rep EXCEPT ![cur[t]] =
               [code |-> 200, rows |-> request_info, total |-> num_requests]]
  /\ vec' = [vec EXCEPT ![t] = Codes(Uri(t))]
  /\ Goto(t, "statusPop")
  /\ UNCHANGED <<op, data_, fds, cur, reg, todo, shared, history>>

\* ... and the store.
StatusPop(t) ==
  /\ pc[t] = "statusPop" /\ vec[t] # <<>>
  /\ Store(Uri(t), SubSeq(vec[t], 1, Len(vec[t]) - 1))
  /\ Goto(t, AfterHandler(t))
  /\ UNCHANGED <<sess, cur, regs, num_requests, request_info, history>>

-----------------------------------------------------------------------------
(* What ends the process. *)

\* One byte was read: substr(size() - 2) throws and nothing catches it.
ShortRead(t) == pc[t] = "parse" /\ Result(t) = "short"

\* Two handlers talk to another host, and wait for it as long as it takes.
Outbound == {"proxy", "markdown"}
Waits(t) == pc[t] = "handle" /\ Kind(t) \in Outbound

\* These two may throw, and nothing catches it: the reverse proxy's connect, the
\* markdown handler's database.  So may the static handler: exists of a name
\* that is too long or in a directory that cannot be searched, and maddy on a
\* file of Markdown, which may also index past a vector's end (as it may in the
\* markdown handler).
Throwing == Outbound \cup {"static"}
HandlerThrows(t) == pc[t] = "handle" /\ Kind(t) \in Throwing

\* The arguments of logMetrics read handler->name through a null pointer.
NullHandler(t) == pc[t] = "reply" /\ Kind(t) = NULL

\* Undefined behaviour.  t is between the load and the store of a vector of
\* the code map while another thread accesses that vector, or the tree of the
\* map when t inserts its key; two threads are in one request_info string; or
\* pop_back meets an empty vector.  (The other outcome of an overlap, a lost
\* update, is what the load and store steps produce.)
Updating(t) == pc[t] \in {"statusPush", "statusPop", "record"}

PopEmpty(t) == pc[t] = "statusPop" /\ vec[t] = <<>>

Race(t) ==
  \E t2 \in Threads \ {t} :
    \/ /\ Updating(t)
       /\ \/ Updating(t2) /\ Uri(t2) = Uri(t)
          \/ pc[t2] = "statusScan" /\ Uri(t) \in todo[t2]
          \/ /\ Updating(t2) \/ pc[t2] = "statusScan"
             /\ request_code_received_[Uri(t)] = NULL
    \/ {pc[t], pc[t2]} \subseteq {"statusClear", "statusScan"}

\* The handler cannot go on.
Doomed(t) == ShortRead(t) \/ NullHandler(t) \/ PopEmpty(t)

Crash(t) ==
  /\ ~crashed /\ (Doomed(t) \/ HandlerThrows(t) \/ Race(t))
  /\ crashed' = TRUE
  /\ UNCHANGED <<sess, pc, cur, regs, shared, history>>

-----------------------------------------------------------------------------
Environment(s) ==
  /\ ~crashed
  /\ \/ Connect(s) \/ AcceptError(s)
     \/ \E d \in Inputs : Receive(s, d)
     \/ \E outcome \in {"written", "writeFailed"} : WriteComplete(s, outcome)
  /\ UNCHANGED <<pc, cur, regs, shared, crashed, history>>

\* A thread takes the next completion from the io_service.
Dequeue(t, s) ==
  /\ ~crashed
  /\ handle_accept(t, s) \/ handle_read(t, s) \/ handle_write(t, s)
  /\ UNCHANGED crashed

\* A thread goes on with the handler it is executing.
Continue(t) ==
  /\ ~crashed
  /\ \/ start_accept(t) \/ Count(t) \/ ReadFailed(t) \/ Reparse(t) \/ Parsed(t)
     \/ HandleRequest(t) \/ Load(t) \/ Record(t) \/ SendReply(t)
     \/ StatusLoad(t) \/ StatusPush(t) \/ StatusClear(t) \/ StatusScan(t)
     \/ StatusBuild(t) \/ StatusPop(t)
  /\ UNCHANGED crashed

\* The process is gone, or every session was used and none has work left.
Rest ==
  /\ \/ crashed
     \/ /\ ~Spare
        /\ \A t \in Threads : pc[t] = "idle"
        /\ \A s \in Sessions : op[s] \in {"accepting", "closed", "dead"}
  /\ UNCHANGED vars

Next ==
  \/ \E s \in Sessions : Environment(s)
  \/ \E t \in Threads, s \in Sessions : Dequeue(t, s)
  \/ \E t \in Threads : Continue(t) \/ Crash(t)
  \/ Rest

Spec == Init /\ [][Next]_vars

\* Threads are scheduled, and the io_service queue is first in first out, so
\* a completion is taken if threads keep coming back for one.  Nothing is
\* assumed of clients, nor of the handlers that wait for another host.
Fairness ==
  /\ \A t \in Threads : WF_vars(/\ ~Waits(t)
                                /\ Continue(t) \/ (Doomed(t) /\ Crash(t)))
  /\ \A s \in Sessions : SF_vars(\E t \in Threads : Dequeue(t, s))

LiveSpec == Spec /\ Fairness
-----------------------------------------------------------------------------
(* Properties. *)

\* Types of the variables.
TypeOK ==
  /\ op \in [Sessions -> Ops]
  /\ data_ \in [Sessions -> Data]
  /\ rep \in [Sessions -> Reply \cup {NULL}]
  /\ fds \subseteq Sessions
  /\ pc \in [Threads -> Pcs]
  /\ cur \in [Threads -> Sessions \cup {NULL}]
  /\ reg \in [Threads -> Nat]
  /\ vec \in [Threads -> Seq(Nat)]
  /\ todo \in [Threads -> SUBSET Uris]
  /\ num_requests \in Nat
  /\ request_code_received_ \in [Uris -> Seq(Nat) \cup {NULL}]
  /\ request_info \in [Uris -> Seq(Nat)]
  /\ crashed \in BOOLEAN
  /\ received \in Nat /\ reparsed \in Nat
  /\ answered \in [Uris -> Seq(Nat)]

\* server.cc:57: whatever happens to a connection, the acceptor is armed once:
\* an accept is outstanding or completed, or one thread is about to start it,
\* and there are never two of these.
Arming == {s \in Sessions : op[s] \in {"accepting", "accepted", "acceptFailed"}}
Rearming == {t \in Threads : pc[t] = "rearm"}
AcceptArmed ==
  /\ Arming = {} => Rearming # {}
  /\ Arming # {} => Rearming = {}
  /\ \A s1, s2 \in Arming : s1 = s2
  /\ \A t1, t2 \in Rearming : t1 = t2

\* session.cc has no lock: its members are safe because a session has at most
\* one operation or running handler at any time, so no two threads share one.
SessionConfined ==
  /\ \A t1, t2 \in Threads : cur[t1] # NULL /\ cur[t1] = cur[t2] => t1 = t2
  /\ \A t \in Threads : cur[t] # NULL => op[cur[t]] = "running"

\* reply.h:52-54: the buffers of a reply refer to the reply, which "must remain
\* valid and not be changed until the write operation has completed".
ReplyStable ==
  [][\A s \in Sessions : op[s] = "writing" => rep[s] # NULL /\ rep'[s] = rep[s]]_vars

\* num_requests (session.cc:38) may lose increments, but never counts more
\* than the reads and the recursive calls that were made.
CountNeverOvershoots == num_requests <= received + reparsed

\* session.cc:38 and 124: with one thread no increment is lost.  The recursive
\* calls count too, so this is more than the "number of requests received" of
\* README.md:82 wherever a request came in two reads.
CountExact ==
  (\A t \in Threads : pc[t] # "count") => num_requests = received + reparsed

\* README.md:82: when no handler runs, the map behind the status page holds the
\* codes sent for the well-formed requests to each URI, in order, and nothing
\* is left of the entries the status handler pushes and pops for its own page.
BoardExact ==
  (\A t \in Threads : cur[t] = NULL) => \A u \in Uris : Codes(u) = answered[u]

\* The page a status request is answered with lists exactly the replies sent
\* before it and the page's own 200 (status_handler.cc:26-59).
PageExact ==
  \A t \in Threads : pc[t] = "statusPop" =>
    \A u \in Uris : rep[cur[t]].rows[u] =
      IF u = Uri(t) THEN Append(answered[u], 200) ELSE answered[u]

\* session.cc:75-86, 106-113 and status_handler.cc:59: once a handler has given
\* its reply, recording it, logging it and sending it cannot end the process,
\* nor can the status handler anywhere in its page: the process ends only
\* inside a handler that reads files or talks to another host.
NeverCrashes == crashed => \E t \in Threads : HandlerThrows(t)

\* A handler that talks to another host waits for it, and a thread with it.
AllWait == \A t \in Threads : Waits(t)

\* README.md:95: a session that received bytes ends up "writing the reply back
\* to the client", unless the process ends first or its handler waits for
\* another host.  The waiting of others holds it up only when every thread of
\* the pool waits (reverse_proxy_handler.cc:122).
Answered ==
  \A s \in Sessions :
    op[s] = "readDone" /\ data_[s].result # "error" ~>
      \/ op[s] = "writing" \/ crashed \/ AllWait
      \/ \E t \in Threads : cur[t] = s /\ Waits(t)

\* server.cc:57: the server always gets back to accepting, unless every thread
\* waits for another host.
Listening == []<>(crashed \/ AllWait \/ \E s \in Sessions : op[s] = "accepting")

-----------------------------------------------------------------------------
(* The server implements Connections: threads, statics and lost updates are *)
(* invisible to a client.                                                   *)
PhaseOf(o) ==
  CASE o = "unborn"                             -> "unborn"
    [] o = "accepting"                          -> "listening"
    [] o \in {"accepted", "acceptFailed"}        -> "arrived"
    [] o = "reading"                             -> "open"
    [] o \in {"readDone", "running"}             -> "asked"
    [] o \in {"writing", "written", "writeFailed"} -> "answered"
    [] o \in {"closed", "dead"}                  -> "gone"

TargetOf(d) ==
  CASE d.result = "good"                       -> d.uri
    [] d.result \in {"bad", "indeterminate"}   -> BadRequestUri
    [] d.result \in {"short", "error"}         -> NULL

\* A reply exists for the client once its write was started.
CodeOf(s) == IF op[s] = "running" \/ rep[s] = NULL THEN NULL ELSE rep[s].code

Phases  == [s \in Sessions |-> PhaseOf(op[s])]
Targets == [s \in Sessions |-> TargetOf(data_[s])]
Sent    == [s \in Sessions |-> CodeOf(s)]
Allowed == [u \in Uris |-> IF dispatch[u] = NULL THEN {} ELSE ReplyCodes(dispatch[u])]

Abstract == INSTANCE Connections WITH
  codes <- Allowed, phase <- Phases, target <- Targets, code <- Sent

\* README.md:94-95: seen from its clients, the server takes each connection
\* through the steps of Connections, whatever the threads do.
ImplementsConnections == Abstract!Spec
=============================================================================
