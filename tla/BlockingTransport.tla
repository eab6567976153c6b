------------------------- MODULE BlockingTransport -------------------------
(***************************************************************************)
(* examples/transports/graceful_shutdown.cpp: a transport whose receive    *)
(* blocks on a condition variable until close, the thread that receives,   *)
(* and a main program that stops the service and joins the thread.  No     *)
(* operation fills incoming_: the predicate of the wait is closed_.        *)
(***************************************************************************)
EXTENDS Naturals

CONSTANTS Receivers,   \* the threads that receive (one in the program)
          Main,        \* the thread of main
          Free,        \* no owner
          MaxSpurious  \* bound on the wake-ups that nobody caused

ASSUME BlockingTransportAssumption ==
  /\ Main \notin Receivers /\ Free \notin Receivers \cup {Main}
  /\ MaxSpurious \in Nat

VARIABLES mutex,    \* the owner of mutex_
          closed,   \* closed_
          receiver, \* where each receiver is
          main,     \* where main is
          token,    \* the service's token is cancelled
          spurious  \* the number of wake-ups that nobody caused
vars == <<mutex, closed, receiver, main, token, spurious>>

-----------------------------------------------------------------------------
(* receive, called by the loop of the service.                             *)

\* std::unique_lock, before the wait and at its end.
Lock(r) ==
  /\ receiver[r] \in {"receive", "woken"} /\ mutex = Free
  /\ mutex' = r
  /\ receiver' = [receiver EXCEPT ![r] = "holds"]
  /\ UNCHANGED <<closed, main, token, spurious>>

\* The predicate holds: nullopt is returned, and the loop ends.
Leave(r) ==
  /\ receiver[r] = "holds" /\ closed
  /\ mutex' = Free
  /\ receiver' = [receiver EXCEPT ![r] = "ended"]
  /\ UNCHANGED <<closed, main, token, spurious>>

\* Mutant of Decide: the mutex is released before the thread waits.
Decide_unlocked(r) ==
  /\ receiver[r] = "holds" /\ ~closed
  /\ receiver' = [receiver EXCEPT ![r] = "decided"]
  /\ mutex' = Free
  /\ UNCHANGED <<closed, main, token, spurious>>

\* The predicate does not hold ...
Decide(r) ==
  /\ receiver[r] = "holds" /\ ~closed
  /\ receiver' = [receiver EXCEPT ![r] = "decided"]
  /\ UNCHANGED <<mutex, closed, main, token, spurious>>

\* ... and the thread waits as it releases the mutex.
Wait(r) ==
  /\ receiver[r] = "decided"
  /\ receiver' = [receiver EXCEPT ![r] = "waits"]
  /\ mutex' = Free
  /\ UNCHANGED <<closed, main, token, spurious>>

Wake(r) ==
  /\ receiver[r] = "waits" /\ spurious < MaxSpurious
  /\ receiver' = [receiver EXCEPT ![r] = "woken"]
  /\ spurious' = spurious + 1
  /\ UNCHANGED <<mutex, closed, main, token>>

-----------------------------------------------------------------------------
(* main: RunningService::stop cancels the token, closes the transport and  *)
(* joins the thread.                                                       *)

Stop ==
  /\ main = "running"
  /\ token' = TRUE
  /\ main' = "stopping"
  /\ UNCHANGED <<mutex, closed, receiver, spurious>>

CloseLock ==
  /\ main = "stopping" /\ mutex = Free
  /\ mutex' = Main
  /\ main' = "closing"
  /\ UNCHANGED <<closed, receiver, token, spurious>>

\* Mutant of CloseSet: the receivers are notified before the flag is set, and
\* not afterwards.
CloseSet_notified ==
  /\ main = "closing"
  /\ closed' = TRUE /\ mutex' = Free
  /\ main' = "joining"
  /\ UNCHANGED <<receiver, token, spurious>>

CloseSet ==
  /\ main = "closing"
  /\ closed' = TRUE /\ mutex' = Free
  /\ main' = "notifying"
  /\ UNCHANGED <<receiver, token, spurious>>

\* notify_all, after the mutex is released.
CloseNotify ==
  /\ main = "notifying"
  /\ receiver' = [r \in Receivers |->
                    IF receiver[r] = "waits" THEN "woken" ELSE receiver[r]]
  /\ main' = "joining"
  /\ UNCHANGED <<mutex, closed, token, spurious>>

\* Mutant of Join: the thread is not joined.
Join_detached ==
  /\ main = "joining"
  /\ main' = "stopped"
  /\ UNCHANGED <<mutex, closed, receiver, token, spurious>>

Join ==
  /\ main = "joining" /\ \A r \in Receivers : receiver[r] = "ended"
  /\ main' = "stopped"
  /\ UNCHANGED <<mutex, closed, receiver, token, spurious>>

Init ==
  /\ mutex = Free /\ closed = FALSE
  /\ receiver = [r \in Receivers |-> "receive"]
  /\ main = "running" /\ token = FALSE
  /\ spurious = 0

Receive(r) == Lock(r) \/ Leave(r) \/ Decide(r) \/ Wait(r)
Close == CloseLock \/ CloseSet \/ CloseNotify \/ Join
Next == \/ \E r \in Receivers : Receive(r) \/ Wake(r)
        \/ Stop \/ Close

\* The threads run; nobody has to stop the service or to be woken.
Spec == /\ Init /\ [][Next]_vars
        /\ \A r \in Receivers : WF_vars(Receive(r))
        /\ WF_vars(Close)

-----------------------------------------------------------------------------
(* What closing the transport promises.                                    *)

TypeOK ==
  /\ mutex \in Receivers \cup {Main, Free}
  /\ closed \in BOOLEAN /\ token \in BOOLEAN
  /\ receiver \in [Receivers ->
                     {"receive", "holds", "decided", "waits", "woken", "ended"}]
  /\ main \in {"running", "stopping", "closing", "notifying", "joining", "stopped"}
  /\ spurious \in 0 .. MaxSpurious
  /\ \A r \in Receivers : (mutex = r) <=> receiver[r] \in {"holds", "decided"}
  /\ (mutex = Main) <=> (main = "closing")

\* No wake-up is lost: once the notification is out, nobody waits and nobody is
\* about to wait (receive tests closed_ and waits under the mutex that close
\* sets it under, and close notifies afterwards).
NoLostWakeup ==
  main \in {"joining", "stopped"} =>
    /\ closed
    /\ \A r \in Receivers : receiver[r] \notin {"decided", "waits"}

\* The service runs until main stops it: no receive returns before the token is
\* cancelled (the predicate of receive), and stop returns when all have, because
\* RunningService, of the SDK, joins them.  main requires both.
RunsUntilStopped ==
  /\ (\E r \in Receivers : receiver[r] = "ended") => token /\ closed
  /\ main = "stopped" => token /\ \A r \in Receivers : receiver[r] = "ended"

\* A stop that has begun ends: neither close nor the join blocks forever.
StopEnds == main = "stopping" ~> main = "stopped"
=============================================================================
