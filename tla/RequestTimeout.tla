--------------------------- MODULE RequestTimeout ---------------------------
(***************************************************************************)
(* The slow requests of examples/clients/timeout_cancellation_client.cpp   *)
(* and validation/matrices/async_request_matrix.cpp: one times out, one is *)
(* cancelled by its token, and both are still being sent by the workers of *)
(* the request executor when main goes on.  The transport belongs to main  *)
(* and dies with it; the executor does not.  Time is in ticks of 10 ms: a  *)
(* countdown runs to 0, when its step is due, and on to -Lateness at most. *)
(***************************************************************************)
EXTENDS Integers, Sequences

CONSTANTS Workers,  \* the workers of the executor (2)
          Sending,  \* the ticks transport.send takes (100 ms)
          Timeout,  \* the timeout of the first request (10 ms)
          Rest,     \* the sleep at the end of main (250 ms)
          Lateness  \* the bound on how late a thread runs: a timeout that
          \* is late still comes before its answer, and main, however
          \* early, rests longer than a send that began late

VARIABLES main,     \* where main is, and the countdown to its next step
          queue,    \* the requests no worker has taken, with countdowns
          worker,   \* the request each worker sends, and its countdown
          handle,   \* the outcome of each request
          expires,  \* the countdown of the timeout of each request
          notified  \* the requests a cancelled notification was sent for
vars == <<main, queue, worker, handle, expires, notified>>

Requests == {"slow", "cancelled"}
Off == 1000    \* a countdown that does not run
Idle == [sends |-> "none", in |-> Off]
Open(r) == handle[r] = "none"
Awaited == CASE main.at = "await_slow"      -> "slow"
             [] main.at = "await_cancelled" -> "cancelled"
             [] OTHER -> "none"

\* A handle is resolved; main learns of it if it waits.
Resolve(r, outcome) ==
  /\ handle' = [handle EXCEPT ![r] = outcome]
  /\ expires' = [expires EXCEPT ![r] = Off]
  /\ main' = IF Awaited = r THEN [main EXCEPT !.in = 0] ELSE main
Goto(step, ticks) == main' = [at |-> step, in |-> ticks]
At(step) == main.at = step /\ main.in <= 0

-----------------------------------------------------------------------------
(* The executor and the handles of the SDK, as the two programs use them:  *)
(* nothing is claimed of what they do with an answer that comes too late.  *)

\* A worker takes a request; one that is resolved by then it may drop.
Take(w) ==
  /\ worker[w] = Idle /\ queue # <<>>
  /\ queue' = Tail(queue)
  /\ LET r == Head(queue).request IN
       \/ worker' = [worker EXCEPT ![w] = [sends |-> r, in |-> Sending]]
       \/ ~Open(r) /\ UNCHANGED worker
  /\ UNCHANGED <<main, handle, expires, notified>>

\* transport.send returns; the answer counts if the request is still open, which
\* is the handle's to decide.
Answer(w) ==
  /\ worker[w] # Idle /\ worker[w].in <= 0
  /\ worker' = [worker EXCEPT ![w] = Idle]
  /\ IF Open(worker[w].sends) THEN Resolve(worker[w].sends, "value")
     ELSE UNCHANGED <<main, handle, expires>>
  /\ UNCHANGED <<queue, notified>>

\* Mutant of Expire: the handle is resolved without a notification.
Expire_silent(r) ==
  /\ expires[r] <= 0 /\ Open(r)
  /\ Resolve(r, "timeout")
  /\ UNCHANGED <<queue, worker, notified>>

\* The timeout: the peer is notified first, then the handle is resolved.
Expire(r) ==
  /\ expires[r] <= 0 /\ Open(r)
  /\ IF r \notin notified
     THEN notified' = notified \cup {r} /\ UNCHANGED <<main, handle, expires>>
     ELSE Resolve(r, "timeout") /\ UNCHANGED notified
  /\ UNCHANGED <<queue, worker>>

-----------------------------------------------------------------------------
(* main                                                                    *)

request_async(r, timeout) ==
  /\ queue' = Append(queue, [request |-> r, in |-> 0])
  /\ expires' = [expires EXCEPT ![r] = timeout]

SendSlow ==
  /\ At("send_slow") /\ request_async("slow", Timeout)
  /\ Goto("await_slow", Off)
  /\ UNCHANGED <<worker, handle, notified>>

\* await_response returns, and main requires what it expects.
Await(step, next, expected) ==
  /\ At(step) /\ ~Open(Awaited)
  /\ Goto(IF expected THEN next ELSE "failed", 0)
  /\ UNCHANGED <<queue, worker, handle, expires, notified>>

AwaitSlow == Await("await_slow", "send_cancelled",
                   handle["slow"] # "value" /\ "slow" \in notified)

SendCancelled ==
  /\ At("send_cancelled") /\ request_async("cancelled", Off)
  /\ Goto("cancel", 0)
  /\ UNCHANGED <<worker, handle, notified>>

\* Mutant of Cancel: a request that no worker sends yet is not resolved.
Cancel_running ==
  /\ At("cancel")
  /\ LET open == Open("cancelled") /\ \E w \in Workers : worker[w].sends = "cancelled" IN
       /\ handle' = [handle EXCEPT !["cancelled"] = IF open THEN "cancelled" ELSE @]
       /\ notified' = IF open THEN notified \cup {"cancelled"} ELSE notified
  /\ Goto("await_cancelled", IF handle'["cancelled"] = "none" THEN Off ELSE 0)
  /\ UNCHANGED <<queue, worker, expires>>

\* cancellation.cancel(): an open request is resolved and its peer notified.
\* main goes on to await_response, which does not block.
Cancel ==
  /\ At("cancel")
  /\ handle' = [handle EXCEPT !["cancelled"] = IF @ = "none" THEN "cancelled" ELSE @]
  /\ notified' = IF Open("cancelled") THEN notified \cup {"cancelled"} ELSE notified
  /\ Goto("await_cancelled", 0)
  /\ UNCHANGED <<queue, worker, expires>>

AwaitCancelled == Await("await_cancelled", "cancel_again",
                        handle["cancelled"] # "value")

\* Mutant of CancelAgain: main does not sleep.
CancelAgain_noRest ==
  /\ At("cancel_again")
  /\ Goto("leave", 0)
  /\ UNCHANGED <<queue, worker, handle, expires, notified>>

\* handle.cancel on a resolved request changes nothing.  The sleep follows.
CancelAgain ==
  /\ At("cancel_again")
  /\ Goto("leave", Rest)
  /\ UNCHANGED <<queue, worker, handle, expires, notified>>

\* The peer and its transport are destroyed as main leaves their block.
Leave ==
  /\ At("leave")
  /\ Goto("left", Off)
  /\ UNCHANGED <<queue, worker, handle, expires, notified>>

-----------------------------------------------------------------------------
Down(n) == IF n = Off THEN Off ELSE n - 1
Countdowns == {main.in} \cup {queue[i].in : i \in DOMAIN queue}
              \cup {worker[w].in : w \in Workers} \cup {expires[r] : r \in Requests}

Tick ==
  /\ \E n \in Countdowns : n # Off
  /\ \A n \in Countdowns : n > -Lateness
  /\ main' = [main EXCEPT !.in = Down(@)]
  /\ queue' = [i \in DOMAIN queue |-> [queue[i] EXCEPT !.in = Down(@)]]
  /\ worker' = [w \in Workers |-> [worker[w] EXCEPT !.in = Down(@)]]
  /\ expires' = [r \in Requests |-> Down(expires[r])]
  /\ UNCHANGED <<handle, notified>>

Init ==
  /\ main = [at |-> "send_slow", in |-> 0]
  /\ queue = <<>>
  /\ worker = [w \in Workers |-> Idle]
  /\ handle = [r \in Requests |-> "none"]
  /\ expires = [r \in Requests |-> Off]
  /\ notified = {}

Next ==
  \/ SendSlow \/ AwaitSlow \/ SendCancelled \/ Cancel \/ AwaitCancelled
  \/ CancelAgain \/ Leave
  \/ \E w \in Workers : Take(w) \/ Answer(w)
  \/ \E r \in Requests : Expire(r)
  \/ Tick
Spec == Init /\ [][Next]_vars /\ WF_vars(Next)

-----------------------------------------------------------------------------
(* What the two programs rely on when requests are given up.               *)

\* The types of the variables; a worker that has a request is sending it.
TypeOK ==
  /\ \A n \in Countdowns : n \in -Lateness .. Rest \cup {Sending, Timeout, Off}
  /\ main.at \in {"send_slow", "await_slow", "send_cancelled", "cancel",
                  "await_cancelled", "cancel_again", "leave", "left", "failed"}
  /\ Len(queue) <= 2
  /\ \A w \in Workers : \/ worker[w] = Idle
                        \/ worker[w].sends \in Requests /\ worker[w].in # Off
  /\ \A r \in Requests : handle[r] \in {"none", "value", "timeout", "cancelled"}
  /\ notified \subseteq Requests

\* No requirement of main fails: neither request yields a value, and by the
\* time main has learnt of the timeout the notification is out.
RequirementsHold == main.at # "failed"

\* A worker uses the transport only while main keeps it: the sleep at the end
\* of main outlasts both requests.
TransportOutlivesSends ==
  main.at = "left" => queue = <<>> /\ \A w \in Workers : worker[w] = Idle

\* main ends, and every request that was sent is over.
ProgramEnds == <>[](main.at = "left" /\ \A n \in Countdowns : n = Off)
=============================================================================
