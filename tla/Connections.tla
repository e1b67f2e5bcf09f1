----------------------------- MODULE Connections -----------------------------
(***************************************************************************)
(* What the server promises its clients, with no threads in it: it listens *)
(* with one acceptor at a time, a connection is answered at most once, and *)
(* the answer is one that the handler of the connection's request can      *)
(* give.  A connection whose read was decided on is never left unanswered; *)
(* the process may stop, and then nothing happens any more.                *)
(***************************************************************************)
CONSTANTS Sessions, Uris, codes, NULL  \* codes[u]: the codes u's handler gives

VARIABLES phase, target, code
cvars == <<phase, target, code>>

Init ==
  /\ \E s \in Sessions : phase = [x \in Sessions |-> IF x = s THEN "listening" ELSE "unborn"]
  /\ target = [s \in Sessions |-> NULL]
  /\ code = [s \in Sessions |-> NULL]

Move(s, from, to) == phase[s] = from /\ phase' = [phase EXCEPT ![s] = to]

Listen(s) ==
  /\ Move(s, "unborn", "listening")
  /\ \A x \in Sessions : phase[x] \notin {"listening", "arrived"}
  /\ UNCHANGED <<target, code>>

Arrive(s) == Move(s, "listening", "arrived") /\ UNCHANGED <<target, code>>

Open(s) ==
  /\ Move(s, "arrived", "open") \/ Move(s, "arrived", "gone")
  /\ UNCHANGED <<target, code>>

\* The client's bytes choose the URI to serve, or NULL: there were none.
Ask(s) ==
  /\ Move(s, "open", "asked")
  /\ \E u \in Uris \cup {NULL} : target' = [target EXCEPT ![s] = u]
  /\ UNCHANGED code

Answer(s) ==
  /\ Move(s, "asked", "answered") /\ target[s] # NULL
  /\ \E c \in codes[target[s]] : code' = [code EXCEPT ![s] = c]
  /\ UNCHANGED target

Leave(s) ==
  /\ Move(s, "answered", "gone") \/ (target[s] = NULL /\ Move(s, "asked", "gone"))
  /\ UNCHANGED <<target, code>>

Next == \E s \in Sessions :
  Listen(s) \/ Arrive(s) \/ Open(s) \/ Ask(s) \/ Answer(s) \/ Leave(s)

Spec == Init /\ [][Next]_cvars
=============================================================================
