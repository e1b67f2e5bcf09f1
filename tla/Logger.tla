------------------------------- MODULE Logger -------------------------------
(***************************************************************************)
(* The logger, its mutex, and the SIGINT handler that logs too             *)
(* (src/src/logger/logger.cc, src/src/server_main.cc).                     *)
(*                                                                         *)
(* A thread has two frames that may be in the logger: its own code, and    *)
(* the signal handler when it has interrupted that code.  g_pages_mutex is *)
(* not recursive, so the two compete for it like strangers, but the code   *)
(* beneath a handler does not run before the handler returns, and this one *)
(* never returns: it calls exit.                                           *)
(***************************************************************************)
EXTENDS Naturals

CONSTANTS
  Threads,     \* the main thread and those of server::run
  Main,
  MaxSignals,  \* how many SIGINTs are sent (a bound)
  NULL

Frames  == Threads \X {"code", "handler"}
Code(t) == <<t, "code">>
Handler(t) == <<t, "handler">>

ASSUME LoggerAssumption ==
  /\ Main \in Threads
  /\ MaxSignals \in Nat
  /\ NULL \notin Frames

VARIABLES
  at,        \* at[f]: where frame f is: "out" of the logger, "locking",
             \* "inside" the critical section, or (a handler) in "exit"
  mutex,     \* g_pages_mutex: the frame that holds it, or NULL
  phase,     \* "starting" until sigaction, "running", "exiting", "gone"
  destroyed, \* exit has destroyed the static Logger
  signals    \* SIGINTs sent

loggerVars == <<at, mutex, phase, destroyed, signals>>

Places == {"out", "locking", "inside", "exit"}

LoggerInit ==
  /\ at = [f \in Frames |-> "out"]
  /\ mutex = NULL
  /\ phase = "starting"
  /\ destroyed = FALSE
  /\ signals = 0

\* The handler is on top of thread t's stack.
Interrupted(t) == at[Handler(t)] # "out"

\* The frame's next instruction may run.
Runs(f) == phase # "gone" /\ (f[2] = "code" => ~Interrupted(f[1]))

\* log, logRequest or logMetrics is called, from the code of a thread.
Call(t) ==
  /\ Runs(Code(t)) /\ at[Code(t)] = "out"
  /\ phase = "starting" => t = Main
  /\ at' = [at EXCEPT ![Code(t)] = "locking"]
  /\ UNCHANGED <<mutex, phase, destroyed, signals>>

\* The constructor of the lock_guard.
\* Faulty variant: the mutex lets its owner's thread in again.
LockAgain(f) ==
  /\ Runs(f) /\ at[f] = "locking"
  /\ mutex \in {NULL, Code(f[1]), Handler(f[1])}
  /\ at' = [at EXCEPT ![f] = "inside"]
  /\ mutex' = f
  /\ UNCHANGED <<phase, destroyed, signals>>

Lock(f) ==
  /\ Runs(f) /\ at[f] = "locking" /\ mutex = NULL
  /\ at' = [at EXCEPT ![f] = "inside"]
  /\ mutex' = f
  /\ UNCHANGED <<phase, destroyed, signals>>

\* Faulty variant: the handler does not exit.
UnlockReturn(f) ==
  /\ Runs(f) /\ at[f] = "inside"
  /\ at' = [at EXCEPT ![f] = IF f[2] = "handler" THEN "exit" ELSE "out"]
  /\ mutex' = NULL
  /\ UNCHANGED <<phase, destroyed, signals>>

\* The record is written, or remote_endpoint throws; either way the guard is
\* destroyed.  The handler goes on to exit.
Unlock(f) ==
  /\ Runs(f) /\ at[f] = "inside"
  /\ at' = [at EXCEPT ![f] = IF f[2] = "handler" THEN "exit" ELSE "out"]
  /\ mutex' = NULL
  /\ phase' = IF f[2] = "handler" THEN "exiting" ELSE phase
  /\ UNCHANGED <<destroyed, signals>>

\* sigaction, after main's first log line.
Install ==
  /\ phase = "starting" /\ at[Code(Main)] = "out"
  /\ phase' = "running"
  /\ UNCHANGED <<at, mutex, destroyed, signals>>

\* SIGINT before that: the default action.
KillEarly ==
  /\ phase = "starting" /\ signals < MaxSignals
  /\ signals' = signals + 1
  /\ phase' = "gone"
  /\ UNCHANGED <<at, mutex, destroyed>>

\* SIGINT is delivered to some thread, whatever it is doing; it is blocked
\* only in a thread that is in the handler.
Interrupt(t) ==
  /\ phase \in {"running", "exiting"} /\ ~Interrupted(t) /\ signals < MaxSignals
  /\ signals' = signals + 1
  /\ at' = [at EXCEPT ![Handler(t)] = "locking"]
  /\ UNCHANGED <<mutex, phase, destroyed>>

\* exit destroys the Logger, while the other threads go on ...
DestroyLogger(t) ==
  /\ phase = "exiting" /\ at[Handler(t)] = "exit" /\ ~destroyed
  /\ destroyed' = TRUE
  /\ UNCHANGED <<at, mutex, phase, signals>>

\* ... and ends the process.
Exit(t) ==
  /\ phase = "exiting" /\ at[Handler(t)] = "exit" /\ destroyed
  /\ phase' = "gone"
  /\ UNCHANGED <<at, mutex, destroyed, signals>>

\* A record written through the destroyed Logger is undefined behaviour: it
\* may end the process there and then (or be written, as in Unlock).
WriteDestroyed(f) ==
  /\ Runs(f) /\ at[f] = "inside" /\ destroyed
  /\ phase' = "gone"
  /\ UNCHANGED <<at, mutex, destroyed, signals>>

\* The code of a thread ends the process: an exception that nothing catches,
\* or undefined behaviour elsewhere in the server.
Terminate(t) ==
  /\ Runs(Code(t)) /\ at[Code(t)] = "out" /\ phase # "starting"
  /\ phase' = "gone"
  /\ UNCHANGED <<at, mutex, destroyed, signals>>

LogStep(f)  == Lock(f) \/ Unlock(f) \/ WriteDestroyed(f)
ExitStep(t) == DestroyLogger(t) \/ Exit(t)

LoggerNext ==
  \/ \E t \in Threads : Call(t) \/ Interrupt(t) \/ Terminate(t) \/ ExitStep(t)
  \/ \E f \in Frames : LogStep(f)
  \/ Install \/ KillEarly

LoggerSpec == LoggerInit /\ [][LoggerNext]_loggerVars

-----------------------------------------------------------------------------
(* Properties. *)

LoggerTypeOK ==
  /\ at \in [Frames -> Places]
  /\ mutex \in Frames \cup {NULL}
  /\ phase \in {"starting", "running", "exiting", "gone"}
  /\ destroyed \in BOOLEAN
  /\ signals \in 0 .. MaxSignals

\* Exclusive: the frame in the critical section is the one that holds the
\* mutex (so there is one at most), whatever signal interrupts whatever
\* thread, and whatever the logger's calls throw.
Exclusive == \A f \in Frames : at[f] = "inside" <=> mutex = f

\* The handler waits for the mutex that the code it interrupted holds.
SelfBlocked(t) == mutex = Code(t) /\ at[Handler(t)] = "locking"

\* HangIsFinal: once a handler waits for its own thread, no frame is ever in
\* the logger again and no further exit begins: a second SIGINT does not help.
HangIsFinal ==
  [][(\E t \in Threads : SelfBlocked(t)) =>
       /\ mutex' = mutex
       /\ \A f \in Frames : at[f] # "exit" => at'[f] # "exit"]_loggerVars
=============================================================================
