------------------------ MODULE InboundCancellation ------------------------
(***************************************************************************)
(* validation/matrices/client_inbound_cancellation_matrix.cpp: a second    *)
(* thread dispatches a request whose handler takes 500 ms; main polls      *)
(* until the handler has started and dispatches the cancelled notification *)
(* of the request, which the handler does not look at.  The peer, the flag *)
(* and the future are locals of main's try block.  Time is in ticks of     *)
(* 10 ms: a countdown runs to 0, when its step is due, and on to -Lateness *)
(* at most; only the start of the thread may take any time.                *)
(***************************************************************************)
EXTENDS Integers

CONSTANTS Attempts, \* the attempts of the loop (100)
          Poll,     \* the ticks between two of them (10 ms)
          Handling, \* the ticks the handler sleeps (500 ms)
          Lateness  \* the bound on how late a thread runs: a poll that is late
          \* still comes while the handler sleeps

VARIABLES main,            \* where main is, and the countdown to its next step
          attempt,         \* attempt
          handler,         \* where the second thread is, and its countdown
          handler_started, \* handler_started
          notified,        \* where the handler was when the notification came
          pending,         \* the future: "empty", "ready" or "taken"
          scope            \* the locals of the block that are alive
vars == <<main, attempt, handler, handler_started, notified, pending, scope>>

Off == 1000    \* a countdown that does not run
Locals == {"peer", "handler_started", "pending"}
Goto(step, ticks) == main' = [at |-> step, in |-> ticks]
At(step) == main.at = step /\ main.in <= 0
Rests == UNCHANGED <<handler, pending>>

\* std::async: the thread exists; when it runs is up to the system.
Launch ==
  /\ At("launch")
  /\ scope' = Locals
  /\ handler' = [at |-> "launched", in |-> Off]
  /\ Goto("poll", 0)
  /\ UNCHANGED <<attempt, handler_started, notified, pending>>

\* Mutant of PollStarted: one attempt too many.
PollStarted_over ==
  /\ At("poll")
  /\ \/ /\ attempt <= Attempts /\ ~handler_started
        /\ attempt' = attempt + 1 /\ Goto("poll", Poll)
     \/ /\ attempt > Attempts \/ handler_started
        /\ Goto(IF handler_started THEN "notify" ELSE "unwind", 0)
        /\ UNCHANGED attempt
  /\ UNCHANGED <<handler_started, notified, scope>> /\ Rests

\* One turn of the loop, or its end and the requirement behind it, which reads
\* the flag again; when it does not hold, the stack is unwound.
PollStarted ==
  /\ At("poll")
  /\ \/ /\ attempt < Attempts /\ ~handler_started
        /\ attempt' = attempt + 1 /\ Goto("poll", Poll)
     \/ /\ attempt = Attempts \/ handler_started
        /\ Goto(IF handler_started THEN "notify" ELSE "unwind", 0)
        /\ UNCHANGED attempt
  /\ UNCHANGED <<handler_started, notified, scope>> /\ Rests

\* Mutant of Notify: main does not wait for the handler to start.
Notify_early ==
  /\ At("notify") \/ (At("poll") /\ ~handler_started)
  /\ notified' = handler.at
  /\ Goto("await", 0)
  /\ UNCHANGED <<attempt, handler_started, scope>> /\ Rests

\* dispatch_message of the notification, while the handler may be running.
Notify ==
  /\ At("notify")
  /\ notified' = handler.at
  /\ Goto("await", 0)
  /\ UNCHANGED <<attempt, handler_started, scope>> /\ Rests

\* pending.get() blocks; then the response is required to be complete.
Await ==
  /\ At("await") /\ pending = "ready"
  /\ pending' = "taken"
  /\ Goto("unwind", 0)
  /\ UNCHANGED <<attempt, handler_started, notified, scope, handler>>

\* Mutant of Unwind: the future of a detached thread, which does not wait.
Unwind_detached ==
  /\ At("unwind")
  /\ scope' = {}
  /\ Goto("left", Off)
  /\ UNCHANGED <<attempt, handler_started, notified>> /\ Rests

\* The block is left, also by an exception: the locals are destroyed in the
\* reverse of their order, and the destructor of a future that std::async made
\* waits for its thread.
Unwind ==
  /\ At("unwind") /\ ("pending" \in scope => handler.at = "done")
  /\ \/ /\ "pending" \in scope
        /\ scope' = scope \ {"pending"} /\ UNCHANGED main
     \/ /\ "pending" \notin scope
        /\ scope' = {} /\ Goto("left", Off)
  /\ UNCHANGED <<attempt, handler_started, notified>> /\ Rests

-----------------------------------------------------------------------------
\* dispatch_message calls the handler, which says so and sleeps.
Start ==
  /\ handler.at = "launched"
  /\ handler_started' = TRUE
  /\ handler' = [at |-> "handling", in |-> Handling]
  /\ UNCHANGED <<main, attempt, notified, pending, scope>>

\* Mutant of Complete: a cancelled request gets no response.
Complete_cancelled ==
  /\ handler.at = "handling" /\ handler.in <= 0
  /\ handler' = [at |-> "done", in |-> Off]
  /\ pending' = IF notified = "nowhere" THEN "ready" ELSE pending
  /\ UNCHANGED <<main, attempt, handler_started, notified, scope>>

\* The handler returns, cancelled or not, and the future has the response.
Complete ==
  /\ handler.at = "handling" /\ handler.in <= 0
  /\ handler' = [at |-> "done", in |-> Off]
  /\ pending' = "ready"
  /\ UNCHANGED <<main, attempt, handler_started, notified, scope>>

Down(n) == IF n = Off THEN Off ELSE n - 1
Waits == \/ main.at = "await" /\ pending # "ready"
         \/ main.at = "unwind" /\ "pending" \in scope /\ handler.at # "done"

\* A countdown of main does not run while it is blocked.
Tick ==
  /\ \E n \in {main.in, handler.in} : n # Off
  /\ (main.in > -Lateness \/ Waits) /\ handler.in > -Lateness
  /\ main' = [main EXCEPT !.in = IF Waits THEN 0 ELSE Down(@)]
  /\ handler' = [handler EXCEPT !.in = Down(@)]
  /\ UNCHANGED <<attempt, handler_started, notified, pending, scope>>

Init ==
  /\ main = [at |-> "launch", in |-> 0] /\ attempt = 0
  /\ handler = [at |-> "nowhere", in |-> Off] /\ handler_started = FALSE
  /\ notified = "nowhere" /\ pending = "empty" /\ scope = {}

Next ==
  Launch \/ PollStarted \/ Notify \/ Await \/ Unwind \/ Start \/ Complete \/ Tick
Spec == Init /\ [][Next]_vars /\ WF_vars(Next) /\ WF_vars(Start)

-----------------------------------------------------------------------------
(* What the matrix relies on when a request is cancelled under its handler. *)

\* The types; the loop makes no more attempts than it may.
TypeOK ==
  /\ main.at \in {"launch", "poll", "notify", "await", "unwind", "left"}
  /\ main.in \in -Lateness .. Poll \cup {Off}
  /\ attempt \in 0 .. Attempts
  /\ handler.at \in {"nowhere", "launched", "handling", "done"}
  /\ handler.in \in -Lateness .. Handling \cup {Off}
  /\ handler_started \in BOOLEAN /\ pending \in {"empty", "ready", "taken"}
  /\ notified \in {"nowhere", "launched", "handling", "done"}
  /\ scope \subseteq Locals

\* The notification comes while the handler runs, which is what the matrix is
\* there for: never before it has started, nor after its 500 ms.
CancelsUnderTheHandler == notified \in {"nowhere", "handling"}

\* The thread that dispatches uses the peer and the flag only while they are
\* alive, also when the handler starts so late that main has given up.
LocalsOutliveTheThread ==
  handler.at \in {"launched", "handling"} => Locals \subseteq scope

\* main leaves the block with the response or with the failed requirement, and
\* the handler has run to its end whether it was cancelled or not.
MatrixEnds == <>[](main.at = "left" /\ handler.at = "done" /\ pending # "empty")
=============================================================================
