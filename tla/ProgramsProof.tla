---------------------------- MODULE ProgramsProof ----------------------------
(***************************************************************************)
(* The safety of the programs that Programs composes, for any number of    *)
(* threads that receive and that send and any times that TimesAssumption   *)
(* allows: one inductive invariant per program, one lemma per step, and    *)
(* the theorems at the end.                                                *)
(***************************************************************************)
EXTENDS Programs, SequenceTheorems, TLAPS

-----------------------------------------------------------------------------
(* The shutdown example.                                                   *)

\* Close sets the flag under the mutex, so that a thread that has decided to
\* wait is waiting by the time of the notification.
DecidedUnclosed ==
  /\ closed <=> main \in {"notifying", "joining", "stopped"}
  /\ closed => \A r \in Receivers : receiver[r] # "decided"
  /\ main \in {"joining", "stopped"} => \A r \in Receivers : receiver[r] # "waits"

StoppedInv ==
  /\ token <=> main # "running"
  /\ \A r \in Receivers : receiver[r] = "ended" => closed
  /\ main = "stopped" => \A r \in Receivers : receiver[r] = "ended"

IInv == TypeOK /\ DecidedUnclosed /\ StoppedInv

\* The initial state satisfies the inductive invariant.
LEMMA InitIInv == Init => IInv
<1> SUFFICES ASSUME Init PROVE IInv
  OBVIOUS
<1>1. TypeOK
  <2>1. spurious \in 0 .. MaxSpurious
    BY BlockingTransportAssumption DEF BlockingTransportAssumption, Init
  <2>2. \A r \in Receivers : mutex # r
    BY BlockingTransportAssumption DEF BlockingTransportAssumption, Init
  <2>3. mutex # Main
    BY BlockingTransportAssumption DEF BlockingTransportAssumption, Init
  <2> QED BY <2>1, <2>2, <2>3 DEF Init, TypeOK
<1>2. DecidedUnclosed
  BY DEF Init, DecidedUnclosed
<1>3. StoppedInv
  BY DEF Init, StoppedInv
<1> QED BY <1>1, <1>2, <1>3 DEF IInv

\* A step of a receiver (receive) keeps the inductive invariant.
LEMMA ReceiveKeepsIInv ==
  ASSUME IInv, NEW r \in Receivers, Receive(r) \/ Wake(r)
  PROVE  IInv'
<1> USE BlockingTransportAssumption DEF BlockingTransportAssumption, IInv,
       TypeOK, DecidedUnclosed, StoppedInv
<1>1. CASE Lock(r)
  BY <1>1 DEF Lock
<1>2. CASE Leave(r)
  BY <1>2 DEF Leave
<1>3. CASE Decide(r)
  BY <1>3 DEF Decide
<1>4. CASE Wait(r)
  BY <1>4 DEF Wait
<1>5. CASE Wake(r)
  BY <1>5 DEF Wake
<1> QED BY <1>1, <1>2, <1>3, <1>4, <1>5 DEF Receive

\* A step of main (stop, close, the join) keeps the inductive invariant.
LEMMA MainKeepsIInv ==
  ASSUME IInv, Stop \/ Close
  PROVE  IInv'
<1> USE BlockingTransportAssumption DEF BlockingTransportAssumption, IInv,
       TypeOK, DecidedUnclosed, StoppedInv
<1>1. CASE Stop
  BY <1>1 DEF Stop
<1>2. CASE CloseLock
  BY <1>2 DEF CloseLock
<1>3. CASE CloseSet
  BY <1>3 DEF CloseSet
<1>4. CASE CloseNotify
  BY <1>4 DEF CloseNotify
<1>5. CASE Join
  BY <1>5 DEF Join
<1> QED BY <1>1, <1>2, <1>3, <1>4, <1>5 DEF Close

\* Every step keeps it, and so do stuttering steps.
LEMMA NextKeepsIInv == IInv /\ [Next]_vars => IInv'
<1> SUFFICES ASSUME IInv, [Next]_vars PROVE IInv'
  OBVIOUS
<1>1. CASE \E r \in Receivers : Receive(r) \/ Wake(r)
  BY <1>1, ReceiveKeepsIInv
<1>2. CASE Stop \/ Close
  BY <1>2, MainKeepsIInv
<1>3. CASE UNCHANGED vars
  BY <1>3 DEF vars, IInv, TypeOK, DecidedUnclosed, StoppedInv
<1> QED BY <1>1, <1>2, <1>3 DEF Next

\* The inductive invariant holds in every reachable state.
LEMMA IInvAlways == Spec => []IInv
BY InitIInv, NextKeepsIInv, PTL DEF Spec

\* Types, and the owner of mutex_, are as the threads' places say.
THEOREM TypeCorrect == Spec => []TypeOK
<1>1. IInv => TypeOK
  BY DEF IInv
<1> QED BY <1>1, IInvAlways, PTL

\* close loses no wake-up, however many threads receive.
THEOREM NoWakeupIsLost == Spec => []NoLostWakeup
<1>1. IInv => NoLostWakeup
  BY DEF IInv, TypeOK, DecidedUnclosed, NoLostWakeup
<1> QED BY <1>1, IInvAlways, PTL

\* No receive returns before the service is stopped, and stop returns after all.
THEOREM StopIsOrderly == Spec => []RunsUntilStopped
<1>1. IInv => RunsUntilStopped
  BY DEF IInv, TypeOK, DecidedUnclosed, StoppedInv, RunsUntilStopped
<1> QED BY <1>1, IInvAlways, PTL

-----------------------------------------------------------------------------
(* Requests that time out or are cancelled (RequestTimeout).               *)

MainPlaces == {"send_slow", "await_slow", "send_cancelled", "cancel",
               "await_cancelled", "cancel_again", "leave", "left", "failed"}

\* The types and the range of each countdown.
TimeoutTypes ==
  /\ tMain \in [at : MainPlaces, in : Int]
  /\ tQueue \in Seq([request : TIMEOUT!Requests, in : Int])
  /\ tWorker \in [Workers -> [sends : TIMEOUT!Requests \cup {"none"}, in : Int]]
  /\ tHandle \in [TIMEOUT!Requests -> {"none", "value", "timeout", "cancelled"}]
  /\ tExpires \in [TIMEOUT!Requests -> Int]
  /\ tNotified \subseteq TIMEOUT!Requests

TimeoutCountdowns ==
  /\ \A i \in DOMAIN tQueue : tQueue[i].in \in -SendLateness .. 0
  /\ \A w \in Workers :
       \/ tWorker[w] = TIMEOUT!Idle
       \/ tWorker[w].sends \in TIMEOUT!Requests
          /\ tWorker[w].in \in -SendLateness .. Sending
  /\ tExpires["cancelled"] = 1000
  /\ tExpires["slow"] \in -SendLateness .. Timeout \cup {1000}
  /\ tMain.at = "leave" => tMain.in \in -SendLateness .. Rest
  /\ tMain.at = "left" => tMain.in = 1000
  /\ tMain.at = "await_slow" /\ tHandle["slow"] = "none" => tMain.in = 1000
  /\ tMain.at \notin {"leave", "left"} =>
       \/ tMain.at = "await_slow" /\ tHandle["slow"] = "none"
       \/ tMain.in \in -SendLateness .. 0

\* What has been sent and resolved by the time main is at a place.
TimeoutPlaces ==
  /\ tMain.at = "send_slow" =>
       tQueue = <<>> /\ \A w \in Workers : tWorker[w] = TIMEOUT!Idle
  /\ tMain.at \in {"await_slow", "send_cancelled"} => Len(tQueue) <= 1
  /\ Len(tQueue) <= 2
  /\ tMain.at \in {"send_slow", "await_slow", "send_cancelled"} =>
       /\ tHandle["cancelled"] = "none"
       /\ \A i \in DOMAIN tQueue : tQueue[i].request = "slow"
       /\ \A w \in Workers : tWorker[w].sends # "cancelled"
  /\ tMain.at # "failed"
  /\ tHandle["slow"] \in {"none", "timeout"}
  /\ tHandle["cancelled"] \in {"none", "cancelled"}
  /\ tHandle["slow"] = "timeout" => "slow" \in tNotified
  /\ tMain.at = "send_slow" => tHandle["slow"] = "none" /\ tExpires["slow"] = 1000
  /\ tMain.at \notin {"send_slow", "await_slow"} => tHandle["slow"] = "timeout"
  /\ tMain.at \in {"await_cancelled", "cancel_again", "leave", "left"} =>
       tHandle["cancelled"] = "cancelled"
  /\ tMain.at = "left" =>
       tQueue = <<>> /\ \A w \in Workers : tWorker[w] = TIMEOUT!Idle

\* Which of two countdowns runs out first.
TimeoutRaces ==
  /\ tHandle["slow"] = "none" =>
       /\ \A i \in DOMAIN tQueue :
            tQueue[i].request = "slow" => tExpires["slow"] = Timeout + tQueue[i].in
       /\ \A w \in Workers :
            tWorker[w].sends = "slow" =>
              tExpires["slow"] <= tWorker[w].in + Timeout - Sending
  /\ tMain.at = "cancel" =>
       \A w \in Workers :
         tWorker[w].sends = "cancelled" => tWorker[w].in - tMain.in >= Sending
  /\ tMain.at = "leave" =>
       /\ \A i \in DOMAIN tQueue : tQueue[i].in - tMain.in <= -Rest
       /\ \A w \in Workers :
            tWorker[w].sends # "none" =>
              tWorker[w].in - tMain.in <= Sending + SendLateness - Rest

TimeoutInv == TimeoutTypes /\ TimeoutCountdowns /\ TimeoutPlaces /\ TimeoutRaces

\* Nothing has been sent at the start.
LEMMA TimeoutInit == TIMEOUT!Init => TimeoutInv
<1> SUFFICES ASSUME TIMEOUT!Init PROVE TimeoutInv
  OBVIOUS
<1> USE TimesAssumption DEF TimesAssumption, TIMEOUT!Init, TIMEOUT!Off,
       TIMEOUT!Idle, TIMEOUT!Requests
<1>1. TimeoutTypes
  BY DEF TimeoutTypes, MainPlaces
<1>2. TimeoutCountdowns
  BY DEF TimeoutCountdowns
<1>3. TimeoutPlaces
  BY DEF TimeoutPlaces
<1>4. TimeoutRaces
  BY DEF TimeoutRaces
<1> QED BY <1>1, <1>2, <1>3, <1>4 DEF TimeoutInv

\* request_async of the request that times out starts its clock.
LEMMA SendSlowKeeps ==
  ASSUME TimeoutInv, TIMEOUT!SendSlow
  PROVE  TimeoutInv'
<1> USE TimesAssumption DEF TimesAssumption, TIMEOUT!Off, TIMEOUT!Idle,
       TIMEOUT!Requests, TIMEOUT!At, TIMEOUT!Goto, TIMEOUT!Open, MainPlaces
<1> USE DEF TimeoutInv
<1>1. TimeoutTypes'
  BY DEF TIMEOUT!SendSlow, TIMEOUT!request_async, TimeoutTypes,
     TimeoutCountdowns, TimeoutPlaces, TimeoutRaces
<1>2. TimeoutCountdowns'
  BY DEF TIMEOUT!SendSlow, TIMEOUT!request_async, TimeoutTypes,
     TimeoutCountdowns, TimeoutPlaces, TimeoutRaces
<1>3. TimeoutPlaces'
  BY DEF TIMEOUT!SendSlow, TIMEOUT!request_async, TimeoutTypes,
     TimeoutCountdowns, TimeoutPlaces, TimeoutRaces
<1>4. TimeoutRaces'
  BY DEF TIMEOUT!SendSlow, TIMEOUT!request_async, TimeoutTypes,
     TimeoutCountdowns, TimeoutPlaces, TimeoutRaces
<1> QED BY <1>1, <1>2, <1>3, <1>4

\* await of a request that has been resolved returns.
LEMMA AwaitSlowKeeps ==
  ASSUME TimeoutInv, TIMEOUT!AwaitSlow
  PROVE  TimeoutInv'
<1> USE DEF TimeoutInv
<1>1. /\ tMain.at = "await_slow" /\ tMain' = [at |-> "send_cancelled", in |-> 0]
      /\ UNCHANGED <<tQueue, tWorker, tHandle, tExpires, tNotified>>
      /\ tHandle["slow"] = "timeout"
  BY DEF TIMEOUT!AwaitSlow, TIMEOUT!Await, TIMEOUT!Awaited, TIMEOUT!At,
     TIMEOUT!Goto, TIMEOUT!Open, TimeoutPlaces, TimeoutTypes
<1> USE TimesAssumption DEF TimesAssumption, TIMEOUT!Off, TIMEOUT!Idle,
       TIMEOUT!Requests, TIMEOUT!At, TIMEOUT!Goto, TIMEOUT!Open, MainPlaces
<1>2. TimeoutTypes'
  BY <1>1 DEF TimeoutTypes
<1>3. TimeoutCountdowns'
  BY <1>1 DEF TimeoutCountdowns
<1>4. TimeoutPlaces'
  BY <1>1 DEF TimeoutPlaces
<1>5. TimeoutRaces'
  BY <1>1 DEF TimeoutRaces
<1> QED BY <1>2, <1>3, <1>4, <1>5

\* request_async of the request that will be cancelled.
LEMMA SendCancelledKeeps ==
  ASSUME TimeoutInv, TIMEOUT!SendCancelled
  PROVE  TimeoutInv'
<1> USE TimesAssumption DEF TimesAssumption, TIMEOUT!Off, TIMEOUT!Idle,
       TIMEOUT!Requests, TIMEOUT!At, TIMEOUT!Goto, TIMEOUT!Open, MainPlaces
<1> USE DEF TimeoutInv
<1>1. TimeoutTypes'
  BY DEF TIMEOUT!SendCancelled, TIMEOUT!request_async, TimeoutTypes,
     TimeoutCountdowns, TimeoutPlaces, TimeoutRaces
<1>2. TimeoutCountdowns'
  BY DEF TIMEOUT!SendCancelled, TIMEOUT!request_async, TimeoutTypes,
     TimeoutCountdowns, TimeoutPlaces, TimeoutRaces
<1>3. TimeoutPlaces'
  BY DEF TIMEOUT!SendCancelled, TIMEOUT!request_async, TimeoutTypes,
     TimeoutCountdowns, TimeoutPlaces, TimeoutRaces
<1>4. TimeoutRaces'
  BY DEF TIMEOUT!SendCancelled, TIMEOUT!request_async, TimeoutTypes,
     TimeoutCountdowns, TimeoutPlaces, TimeoutRaces
<1> QED BY <1>1, <1>2, <1>3, <1>4

\* cancel resolves its request before a worker can answer it.
LEMMA CancelKeeps ==
  ASSUME TimeoutInv, TIMEOUT!Cancel
  PROVE  TimeoutInv'
<1> USE TimesAssumption DEF TimesAssumption, TIMEOUT!Off, TIMEOUT!Idle,
       TIMEOUT!Requests, TIMEOUT!At, TIMEOUT!Goto, TIMEOUT!Open, MainPlaces
<1> USE DEF TimeoutInv
<1>1. TimeoutTypes'
  BY DEF TIMEOUT!Cancel, TimeoutTypes, TimeoutCountdowns, TimeoutPlaces,
     TimeoutRaces
<1>2. TimeoutCountdowns'
  BY DEF TIMEOUT!Cancel, TimeoutTypes, TimeoutCountdowns, TimeoutPlaces,
     TimeoutRaces
<1>3. TimeoutPlaces'
  BY DEF TIMEOUT!Cancel, TimeoutTypes, TimeoutCountdowns, TimeoutPlaces,
     TimeoutRaces
<1>4. TimeoutRaces'
  BY DEF TIMEOUT!Cancel, TimeoutTypes, TimeoutCountdowns, TimeoutPlaces,
     TimeoutRaces
<1> QED BY <1>1, <1>2, <1>3, <1>4

\* await of the cancelled request returns once it is resolved.
LEMMA AwaitCancelledKeeps ==
  ASSUME TimeoutInv, TIMEOUT!AwaitCancelled
  PROVE  TimeoutInv'
<1> USE DEF TimeoutInv
<1>1. /\ tMain.at = "await_cancelled" /\ tMain' = [at |-> "cancel_again", in |-> 0]
      /\ UNCHANGED <<tQueue, tWorker, tHandle, tExpires, tNotified>>
      /\ tHandle["slow"] = "timeout" /\ tHandle["cancelled"] = "cancelled"
  BY DEF TIMEOUT!AwaitCancelled, TIMEOUT!Await, TIMEOUT!Awaited, TIMEOUT!At,
     TIMEOUT!Goto, TIMEOUT!Open, TimeoutPlaces, TimeoutTypes
<1> USE TimesAssumption DEF TimesAssumption, TIMEOUT!Off, TIMEOUT!Idle,
       TIMEOUT!Requests, TIMEOUT!At, TIMEOUT!Goto, TIMEOUT!Open, MainPlaces
<1>2. TimeoutTypes'
  BY <1>1 DEF TimeoutTypes
<1>3. TimeoutCountdowns'
  BY <1>1 DEF TimeoutCountdowns
<1>4. TimeoutPlaces'
  BY <1>1 DEF TimeoutPlaces
<1>5. TimeoutRaces'
  BY <1>1 DEF TimeoutRaces
<1> QED BY <1>2, <1>3, <1>4, <1>5

\* cancel of a request that is resolved changes nothing.
LEMMA CancelAgainKeeps ==
  ASSUME TimeoutInv, TIMEOUT!CancelAgain
  PROVE  TimeoutInv'
<1> USE TimesAssumption DEF TimesAssumption, TIMEOUT!Off, TIMEOUT!Idle,
       TIMEOUT!Requests, TIMEOUT!At, TIMEOUT!Goto, TIMEOUT!Open, MainPlaces
<1> USE DEF TimeoutInv
<1>1. TimeoutTypes'
  BY DEF TIMEOUT!CancelAgain, TimeoutTypes, TimeoutCountdowns, TimeoutPlaces,
     TimeoutRaces
<1>2. TimeoutCountdowns'
  BY DEF TIMEOUT!CancelAgain, TimeoutTypes, TimeoutCountdowns, TimeoutPlaces,
     TimeoutRaces
<1>3. TimeoutPlaces'
  BY DEF TIMEOUT!CancelAgain, TimeoutTypes, TimeoutCountdowns, TimeoutPlaces,
     TimeoutRaces
<1>4. TimeoutRaces'
  <2>1. /\ tMain.at = "cancel_again" /\ tMain' = [at |-> "leave", in |-> Rest]
        /\ UNCHANGED <<tQueue, tWorker, tHandle>>
    BY DEF TIMEOUT!CancelAgain
  <2>2. tHandle["slow"] = "timeout"
    BY <2>1 DEF TimeoutPlaces
  <2>3. \A i \in DOMAIN tQueue : tQueue[i].in - Rest <= -Rest
    BY DEF TimeoutCountdowns
  <2>4. \A w \in Workers :
          tWorker[w].sends # "none" =>
            tWorker[w].in - Rest <= Sending + SendLateness - Rest
    BY DEF TimeoutCountdowns
  <2> HIDE DEF TimeoutInv
  <2> QED BY <2>1, <2>2, <2>3, <2>4 DEF TimeoutRaces
<1> QED BY <1>1, <1>2, <1>3, <1>4

\* When main leaves, the sleep has outlasted every sender: none is left behind.
LEMMA LeaveKeeps ==
  ASSUME TimeoutInv, TIMEOUT!Leave
  PROVE  TimeoutInv'
<1> USE DEF TimeoutInv
<1>1. /\ tMain.at = "leave" /\ tMain.in <= 0 /\ tMain' = [at |-> "left", in |-> 1000]
      /\ UNCHANGED <<tQueue, tWorker, tHandle, tExpires, tNotified>>
  BY DEF TIMEOUT!Leave, TIMEOUT!At, TIMEOUT!Goto, TIMEOUT!Off
<1> USE TimesAssumption DEF TimesAssumption, TIMEOUT!Off, TIMEOUT!Idle,
       TIMEOUT!Requests, TIMEOUT!At, TIMEOUT!Goto, TIMEOUT!Open, MainPlaces
<1>2. tQueue = <<>>
  <2>1. ASSUME 1 \in DOMAIN tQueue PROVE FALSE
    <3>1. tQueue[1].in \in Int /\ tQueue[1].in >= -SendLateness
      BY <2>1 DEF TimeoutCountdowns
    <3>2. tMain.in \in Int /\ tQueue[1].in - tMain.in <= -Rest
      BY <1>1, <2>1 DEF TimeoutTypes, TimeoutRaces
    <3> QED BY <1>1, <3>1, <3>2
  <2> QED BY <2>1 DEF TimeoutTypes
<1>3. \A w \in Workers : tWorker[w] = TIMEOUT!Idle
  BY <1>1 DEF TimeoutTypes, TimeoutCountdowns, TimeoutRaces
<1>4. TimeoutTypes'
  BY <1>1 DEF TimeoutTypes
<1>5. TimeoutCountdowns'
  BY <1>1 DEF TimeoutTypes, TimeoutCountdowns
<1>6. TimeoutPlaces'
  BY <1>1, <1>2, <1>3 DEF TimeoutTypes, TimeoutPlaces
<1>7. TimeoutRaces'
  BY <1>1 DEF TimeoutTypes, TimeoutRaces
<1> QED BY <1>4, <1>5, <1>6, <1>7

\* A worker takes a request off the queue; its countdown starts where the limits
\* on the answer put it.
LEMMA TakeKeeps ==
  ASSUME TimeoutInv, NEW w \in Workers, TIMEOUT!Take(w)
  PROVE  TimeoutInv'
<1> DEFINE R == [request : TIMEOUT!Requests, in : Int]
           first == tQueue[1]
<1>1. tQueue \in Seq(R) /\ tQueue # <<>> /\ tQueue' = Tail(tQueue)
  BY DEF TIMEOUT!Take, TimeoutInv, TimeoutTypes
<1> HIDE DEF R
<1>2. /\ 1 \in DOMAIN tQueue /\ first \in R /\ first = Head(tQueue)
      /\ tQueue' \in Seq(R) /\ Len(tQueue') = Len(tQueue) - 1
      /\ Len(tQueue) \in Nat /\ Len(tQueue') \in Nat
  BY <1>1
<1>3. \A i \in DOMAIN tQueue' : i + 1 \in DOMAIN tQueue /\ tQueue'[i] = tQueue[i + 1]
  BY <1>1
<1>4. \/ tWorker' = [tWorker EXCEPT ![w] = [sends |-> first.request, in |-> Sending]]
      \/ tWorker' = tWorker
  BY <1>2 DEF TIMEOUT!Take
<1>5. tWorker[w] = TIMEOUT!Idle /\ UNCHANGED <<tMain, tHandle, tExpires, tNotified>>
  BY DEF TIMEOUT!Take
<1>6. first.request \in TIMEOUT!Requests /\ first.in \in -SendLateness .. 0
  BY <1>2 DEF R, TimeoutInv, TimeoutCountdowns
<1>7. Sending \in Nat /\ SendLateness \in Nat /\ Timeout \in Nat
  BY TimesAssumption DEF TimesAssumption
<1>8. /\ tWorker \in [Workers -> [sends : TIMEOUT!Requests \cup {"none"}, in : Int]]
      /\ tWorker' \in [Workers -> [sends : TIMEOUT!Requests \cup {"none"}, in : Int]]
  <2> DEFINE W == [sends : TIMEOUT!Requests \cup {"none"}, in : Int]
  <2>1. tWorker \in [Workers -> W]
    BY DEF TimeoutInv, TimeoutTypes
  <2>2. [sends |-> first.request, in |-> Sending] \in W
    BY <1>6, <1>7
  <2> HIDE DEF W
  <2>3. tWorker' \in [Workers -> W]
    BY <1>4, <2>1, <2>2
  <2> QED BY <2>1, <2>3 DEF W
<1>9. \A x \in Workers :
        \/ tWorker'[x] = tWorker[x]
        \/ tWorker'[x].sends = first.request /\ tWorker'[x].in = Sending
  BY <1>4, <1>8
<1>10. TimeoutTypes'
  BY <1>2, <1>5, <1>8 DEF R, TimeoutInv, TimeoutTypes
<1>11. TimeoutCountdowns'
  <2>1. \A i \in DOMAIN tQueue' : tQueue'[i].in \in -SendLateness .. 0
    BY <1>3 DEF TimeoutInv, TimeoutCountdowns
  <2>2. \A x \in Workers :
          \/ tWorker'[x] = TIMEOUT!Idle
          \/ tWorker'[x].sends \in TIMEOUT!Requests
             /\ tWorker'[x].in \in -SendLateness .. Sending
    BY <1>6, <1>7, <1>9 DEF TimeoutInv, TimeoutCountdowns
  <2> QED BY <1>5, <2>1, <2>2 DEF TimeoutInv, TimeoutCountdowns
<1>12. TimeoutPlaces'
  <2>1. tMain.at \notin {"send_slow", "left"}
    BY <1>1 DEF TimeoutInv, TimeoutPlaces
  <2>2. tMain.at \in {"send_slow", "await_slow", "send_cancelled"} =>
          /\ \A i \in DOMAIN tQueue' : tQueue'[i].request = "slow"
          /\ \A x \in Workers : tWorker'[x].sends # "cancelled"
    BY <1>2, <1>3, <1>9 DEF TimeoutInv, TimeoutPlaces
  <2>3. /\ tMain.at \in {"await_slow", "send_cancelled"} => Len(tQueue') <= 1
        /\ Len(tQueue') <= 2
    BY <1>2 DEF TimeoutInv, TimeoutPlaces
  <2> QED BY <1>5, <2>1, <2>2, <2>3 DEF TimeoutInv, TimeoutPlaces
<1>13. TimeoutRaces'
  <2>1. tHandle["slow"] = "none" =>
          \A i \in DOMAIN tQueue' :
            tQueue'[i].request = "slow" => tExpires["slow"] = Timeout + tQueue'[i].in
    BY <1>3 DEF TimeoutInv, TimeoutRaces
  <2>2. ASSUME NEW x \in Workers, tHandle["slow"] = "none", tWorker'[x].sends = "slow"
        PROVE  tExpires["slow"] <= tWorker'[x].in + Timeout - Sending
    <3>1. first.request = "slow" => tExpires["slow"] = Timeout + first.in
      BY <1>2, <2>2 DEF TimeoutInv, TimeoutRaces
    <3>2. CASE tWorker'[x] = tWorker[x]
      BY <2>2, <3>2 DEF TimeoutInv, TimeoutRaces
    <3>3. CASE tWorker'[x].sends = first.request /\ tWorker'[x].in = Sending
      BY <1>6, <1>7, <2>2, <3>1, <3>3
    <3> QED BY <1>9, <3>2, <3>3
  <2>3. ASSUME NEW x \in Workers, tMain.at = "cancel", tWorker'[x].sends = "cancelled"
        PROVE  tWorker'[x].in - tMain.in >= Sending
    <3>1. tMain.in \in -SendLateness .. 0
      BY <2>3 DEF TimeoutInv, TimeoutCountdowns
    <3>2. CASE tWorker'[x] = tWorker[x]
      BY <2>3, <3>2 DEF TimeoutInv, TimeoutRaces
    <3>3. CASE tWorker'[x].sends = first.request /\ tWorker'[x].in = Sending
      BY <1>7, <3>1, <3>3
    <3> QED BY <1>9, <3>2, <3>3
  <2>4. ASSUME tMain.at = "leave"
        PROVE  /\ \A i \in DOMAIN tQueue' : tQueue'[i].in - tMain.in <= -Rest
               /\ \A x \in Workers : tWorker'[x].sends # "none" =>
                    tWorker'[x].in - tMain.in <= Sending + SendLateness - Rest
    <3>1. tMain.in \in Int /\ Rest \in Nat /\ first.in - tMain.in <= -Rest
      BY <1>2, <2>4, TimesAssumption DEF TimesAssumption, TimeoutInv,
         TimeoutTypes, TimeoutRaces
    <3>2. Sending - tMain.in <= Sending + SendLateness - Rest
      BY <1>6, <1>7, <3>1
    <3>3. \A x \in Workers : tWorker'[x].sends # "none" =>
            tWorker'[x].in - tMain.in <= Sending + SendLateness - Rest
      BY <1>9, <2>4, <3>2 DEF TimeoutInv, TimeoutRaces
    <3>4. \A i \in DOMAIN tQueue' : tQueue'[i].in - tMain.in <= -Rest
      BY <1>3, <2>4 DEF TimeoutInv, TimeoutRaces
    <3> QED BY <3>3, <3>4
  <2> QED BY <1>5, <2>1, <2>2, <2>3, <2>4 DEF TimeoutRaces
<1> QED BY <1>10, <1>11, <1>12, <1>13 DEF TimeoutInv

\* A worker answers a request only when it is no longer open: the races say that
\* its time has run out or that it was cancelled.
LEMMA AnswerKeeps ==
  ASSUME TimeoutInv, NEW w \in Workers, TIMEOUT!Answer(w)
  PROVE  TimeoutInv'
<1> USE DEF TimeoutInv
<1>1. /\ tWorker' = [tWorker EXCEPT ![w] = TIMEOUT!Idle]
      /\ tWorker[w].sends \in TIMEOUT!Requests /\ tWorker[w].in <= 0
      /\ UNCHANGED <<tQueue, tNotified>>
  BY DEF TIMEOUT!Answer, TimeoutCountdowns
<1>2. ~TIMEOUT!Open(tWorker[w].sends)
  <2>1. CASE tWorker[w].sends = "slow"
    BY <1>1, <2>1, TimesAssumption DEF TimesAssumption, TIMEOUT!Open,
       TimeoutRaces, TimeoutTypes, TimeoutCountdowns, TIMEOUT!Requests
  <2>2. CASE tWorker[w].sends = "cancelled"
    <3>1. tMain.at \notin {"send_slow", "await_slow", "send_cancelled", "failed"}
      BY <2>2 DEF TimeoutPlaces
    <3>2. tMain.at # "cancel"
      <4>1. SUFFICES ASSUME tMain.at = "cancel" PROVE FALSE
        OBVIOUS
      <4>2. tMain.in \in -SendLateness .. 0
        BY <4>1 DEF TimeoutCountdowns
      <4>3. tWorker[w].in \in Int /\ tWorker[w].in - tMain.in >= Sending
        BY <2>2, <4>1 DEF TimeoutTypes, TimeoutRaces
      <4> QED BY <1>1, <4>2, <4>3, TimesAssumption DEF TimesAssumption
    <3>3. tHandle["cancelled"] = "cancelled"
      BY <3>1, <3>2 DEF TimeoutPlaces, TimeoutTypes, MainPlaces
    <3> QED BY <2>2, <3>3 DEF TIMEOUT!Open
  <2> QED BY <1>1, <2>1, <2>2 DEF TIMEOUT!Requests
<1>3. UNCHANGED <<tMain, tHandle, tExpires>>
  BY <1>2 DEF TIMEOUT!Answer
<1> USE TimesAssumption DEF TimesAssumption, TIMEOUT!Off, TIMEOUT!Idle,
       TIMEOUT!Requests, TIMEOUT!At, TIMEOUT!Goto, TIMEOUT!Open, MainPlaces
<1>4. TimeoutTypes'
  BY <1>1, <1>3 DEF TimeoutTypes
<1>5. TimeoutCountdowns'
  BY <1>1, <1>3 DEF TimeoutTypes, TimeoutCountdowns
<1>6. TimeoutPlaces'
  BY <1>1, <1>3 DEF TimeoutTypes, TimeoutPlaces
<1>7. TimeoutRaces'
  BY <1>1, <1>3 DEF TimeoutTypes, TimeoutCountdowns, TimeoutRaces
<1> QED BY <1>4, <1>5, <1>6, <1>7

\* Only the slow request expires, and main awaits it then.
LEMMA ExpireKeeps ==
  ASSUME TimeoutInv, NEW r \in TIMEOUT!Requests, TIMEOUT!Expire(r)
  PROVE  TimeoutInv'
<1> USE DEF TimeoutInv
<1>1. r = "slow" /\ tHandle["slow"] = "none" /\ UNCHANGED <<tQueue, tWorker>>
  BY DEF TIMEOUT!Expire, TIMEOUT!Requests, TIMEOUT!Open, TimeoutCountdowns
<1>2. tMain.at \in {"send_slow", "await_slow"}
  BY <1>1 DEF TimeoutPlaces
<1>3. CASE "slow" \notin tNotified
  <2>1. tNotified' = tNotified \cup {"slow"} /\ UNCHANGED <<tMain, tHandle, tExpires>>
    BY <1>1, <1>3 DEF TIMEOUT!Expire
  <2> QED BY <1>1, <2>1 DEF TimeoutTypes, TimeoutCountdowns, TimeoutPlaces,
             TimeoutRaces, TIMEOUT!Requests
<1>4. CASE "slow" \in tNotified
  <2>1. /\ tHandle' = [tHandle EXCEPT !["slow"] = "timeout"]
        /\ tExpires' = [tExpires EXCEPT !["slow"] = 1000]
        /\ tNotified' = tNotified
    BY <1>1, <1>4 DEF TIMEOUT!Expire, TIMEOUT!Resolve, TIMEOUT!Off
  <2>2. tMain.at = "await_slow"
    BY <1>1, <1>2 DEF TIMEOUT!Expire, TimeoutPlaces
  <2>3. tMain' = [tMain EXCEPT !.in = 0]
    BY <1>1, <1>4, <2>2 DEF TIMEOUT!Expire, TIMEOUT!Resolve, TIMEOUT!Awaited
  <2>4. /\ tMain'.at = "await_slow" /\ tMain'.in = 0
        /\ tMain' \in [at : MainPlaces, in : Int]
        /\ tHandle'["slow"] = "timeout" /\ tHandle'["cancelled"] = tHandle["cancelled"]
        /\ tExpires'["slow"] = 1000 /\ tExpires'["cancelled"] = 1000
    BY <2>1, <2>2, <2>3 DEF TimeoutTypes, TimeoutCountdowns, TIMEOUT!Requests
  <2>5. TimeoutTypes'
    <3>1. tHandle' \in [TIMEOUT!Requests -> {"none", "value", "timeout", "cancelled"}]
      BY <2>1 DEF TimeoutTypes
    <3>2. tExpires' \in [TIMEOUT!Requests -> Int]
      <4>1. tExpires \in [TIMEOUT!Requests -> Int] /\ 1000 \in Int
        BY DEF TimeoutTypes
      <4> HIDE DEF TimeoutInv
      <4> QED BY <2>1, <4>1, Zenon
    <3> QED BY <1>1, <2>1, <2>4, <3>1, <3>2 DEF TimeoutTypes
  <2>6. TimeoutCountdowns'
    BY <1>1, <2>4, TimesAssumption DEF TimeoutCountdowns, TimesAssumption
  <2>7. TimeoutPlaces'
    BY <1>1, <1>4, <2>1, <2>2, <2>4 DEF TimeoutPlaces
  <2>8. TimeoutRaces'
    BY <2>4 DEF TimeoutRaces
  <2> QED BY <2>5, <2>6, <2>7, <2>8
<1> QED BY <1>3, <1>4

\* Time passes for all countdowns alike, so that the differences the races are
\* about stay as they are.
LEMMA TickKeeps ==
  ASSUME TimeoutInv, TIMEOUT!Tick
  PROVE  TimeoutInv'
<1>1. /\ tMain.in > -SendLateness
      /\ \A i \in DOMAIN tQueue : tQueue[i].in > -SendLateness
      /\ \A w \in Workers : tWorker[w].in > -SendLateness
      /\ \A r \in TIMEOUT!Requests : tExpires[r] > -SendLateness
  BY DEF TIMEOUT!Tick, TIMEOUT!Countdowns
<1>2. UNCHANGED <<tHandle, tNotified>>
  BY DEF TIMEOUT!Tick
<1>3. /\ tMain \in [at : MainPlaces, in : Int]
      /\ tQueue \in Seq([request : TIMEOUT!Requests, in : Int])
      /\ tWorker \in [Workers -> [sends : TIMEOUT!Requests \cup {"none"}, in : Int]]
      /\ tExpires \in [TIMEOUT!Requests -> Int]
  BY DEF TimeoutInv, TimeoutTypes
<1>4. /\ SendLateness \in Nat /\ Sending \in Nat /\ Timeout \in Nat /\ Rest \in Nat
      /\ Sending < 1000 /\ Timeout < 1000 /\ Rest < 1000
      /\ Timeout + SendLateness < Sending
  BY TimesAssumption DEF TimesAssumption
<1>5. /\ \A n \in Int : TIMEOUT!Down(n) \in Int
      /\ \A n \in Int : n # 1000 => TIMEOUT!Down(n) = n - 1
      /\ TIMEOUT!Down(1000) = 1000
  BY DEF TIMEOUT!Down, TIMEOUT!Off
<1>6. /\ tMain'.at = tMain.at /\ tMain'.in = TIMEOUT!Down(tMain.in)
      /\ tMain' \in [at : MainPlaces, in : Int]
  <2>1. tMain' = [tMain EXCEPT !.in = TIMEOUT!Down(@)]
    BY DEF TIMEOUT!Tick
  <2>2. tMain.in \in Int /\ TIMEOUT!Down(tMain.in) \in Int
    BY <1>3, <1>5
  <2> HIDE DEF MainPlaces
  <2> QED BY <1>3, <2>1, <2>2
<1>7. /\ tQueue' \in Seq([request : TIMEOUT!Requests, in : Int])
      /\ Len(tQueue') = Len(tQueue) /\ DOMAIN tQueue' = DOMAIN tQueue
      /\ \A i \in DOMAIN tQueue :
           tQueue'[i] = [request |-> tQueue[i].request, in |-> tQueue[i].in - 1]
  <2> DEFINE down(q) == [q EXCEPT !.in = TIMEOUT!Down(@)]
             R == [request : TIMEOUT!Requests, in : Int]
  <2>1. tQueue \in Seq(R)
    BY <1>3
  <2>2. Len(tQueue) \in Nat /\ DOMAIN tQueue = 1 .. Len(tQueue)
    BY <2>1
  <2>3. tQueue' = [i \in 1 .. Len(tQueue) |-> down(tQueue[i])]
    BY <2>2 DEF TIMEOUT!Tick
  <2>4. ASSUME NEW i \in 1 .. Len(tQueue)
        PROVE  /\ down(tQueue[i]) \in R
               /\ down(tQueue[i]) =
                    [request |-> tQueue[i].request, in |-> tQueue[i].in - 1]
    <3>1. tQueue[i] \in R
      BY <2>1, <2>2, ElementOfSeq
    <3>2. tQueue[i].in \in -SendLateness .. 0
      BY <2>2 DEF TimeoutInv, TimeoutCountdowns
    <3>3. TIMEOUT!Down(tQueue[i].in) = tQueue[i].in - 1
      <4>1. tQueue[i].in \in Int /\ tQueue[i].in # 1000
        BY <1>4, <3>2
      <4> QED BY <4>1 DEF TIMEOUT!Down, TIMEOUT!Off
    <3> QED BY <3>1, <3>3
  <2> HIDE DEF down, R
  <2>5. tQueue' \in Seq(R)
    BY <2>2, <2>3, <2>4, IsASeq
  <2>6. Len(tQueue') = Len(tQueue) /\ DOMAIN tQueue' = DOMAIN tQueue
    BY <2>2, <2>3, <2>5, LenProperties
  <2> QED BY <2>2, <2>3, <2>4, <2>5, <2>6 DEF R
<1> DEFINE down(q) == [q EXCEPT !.in = TIMEOUT!Down(@)]
           W == [sends : TIMEOUT!Requests \cup {"none"}, in : Int]
<1>14. tWorker' = [w \in Workers |-> down(tWorker[w])]
  BY DEF TIMEOUT!Tick
<1>15. ASSUME NEW w \in Workers
       PROVE  /\ down(tWorker[w]) \in W
              /\ tWorker[w] = TIMEOUT!Idle => down(tWorker[w]) = TIMEOUT!Idle
              /\ down(tWorker[w]).sends = tWorker[w].sends
              /\ down(tWorker[w]).in = TIMEOUT!Down(tWorker[w].in)
  <2>1. tWorker[w] \in W
    BY <1>3
  <2>2. TIMEOUT!Down(tWorker[w].in) \in Int
    BY <1>5, <2>1
  <2>3. tWorker[w] = TIMEOUT!Idle => TIMEOUT!Down(tWorker[w].in) = 1000
    BY <1>5 DEF TIMEOUT!Idle, TIMEOUT!Off
  <2> QED BY <2>1, <2>2, <2>3 DEF TIMEOUT!Idle, TIMEOUT!Off
<1> HIDE DEF down
<1>8. \A w \in Workers : /\ tWorker[w] = TIMEOUT!Idle => tWorker'[w] = TIMEOUT!Idle
                         /\ tWorker'[w].sends = tWorker[w].sends
                         /\ tWorker'[w].in = TIMEOUT!Down(tWorker[w].in)
  BY <1>14, <1>15
<1>16. tWorker' \in [Workers -> W]
  <2> HIDE DEF W
  <2> QED BY <1>14, <1>15
<1>9. /\ tExpires' \in [TIMEOUT!Requests -> Int]
      /\ \A r \in TIMEOUT!Requests : tExpires'[r] = TIMEOUT!Down(tExpires[r])
  BY <1>3, <1>5 DEF TIMEOUT!Tick
<1>10. TimeoutTypes'
  BY <1>2, <1>6, <1>7, <1>9, <1>16 DEF TimeoutInv, TimeoutTypes
<1>11. TimeoutCountdowns'
  <2>1. \A i \in DOMAIN tQueue' : tQueue'[i].in \in -SendLateness .. 0
    BY <1>1, <1>4, <1>7 DEF TimeoutInv, TimeoutCountdowns
  <2>2. ASSUME NEW w \in Workers
        PROVE  \/ tWorker'[w] = TIMEOUT!Idle
               \/ tWorker'[w].sends \in TIMEOUT!Requests
                  /\ tWorker'[w].in \in -SendLateness .. Sending
    <3>1. CASE tWorker[w] = TIMEOUT!Idle
      BY <1>8, <3>1
    <3>2. CASE tWorker[w].sends \in TIMEOUT!Requests
               /\ tWorker[w].in \in -SendLateness .. Sending
      <4>1. tWorker[w].in \in Int /\ tWorker[w].in # 1000
            /\ tWorker[w].in > -SendLateness
        BY <1>1, <1>4, <3>2
      <4>2. tWorker'[w].in = tWorker[w].in - 1 /\ tWorker'[w].sends = tWorker[w].sends
        BY <1>5, <1>8, <4>1
      <4> QED BY <1>4, <3>2, <4>1, <4>2
    <3> QED BY <3>1, <3>2 DEF TimeoutInv, TimeoutCountdowns
  <2>3. "slow" \in TIMEOUT!Requests /\ "cancelled" \in TIMEOUT!Requests
    BY DEF TIMEOUT!Requests
  <2>4. tExpires'["cancelled"] = 1000
    BY <1>5, <1>9, <2>3 DEF TimeoutInv, TimeoutCountdowns
  <2>5. tExpires'["slow"] \in -SendLateness .. Timeout \cup {1000}
    <3>1. tExpires["slow"] \in -SendLateness .. Timeout \cup {1000}
          /\ tExpires["slow"] > -SendLateness
      BY <1>1, <2>3 DEF TimeoutInv, TimeoutCountdowns
    <3>2. CASE tExpires["slow"] = 1000
      BY <1>5, <1>9, <2>3, <3>2
    <3>3. CASE tExpires["slow"] \in -SendLateness .. Timeout
      BY <1>4, <1>5, <1>9, <2>3, <3>1, <3>3
    <3> QED BY <3>1, <3>2, <3>3
  <2>6. /\ \A n \in -SendLateness .. 0 : n > -SendLateness =>
             TIMEOUT!Down(n) \in -SendLateness .. 0
        /\ \A n \in -SendLateness .. Rest : n > -SendLateness =>
             TIMEOUT!Down(n) \in -SendLateness .. Rest
    BY <1>4, <1>5
  <2> QED
    BY <1>1, <1>2, <1>5, <1>6, <2>1, <2>2, <2>4, <2>5, <2>6 DEF TimeoutInv,
       TimeoutCountdowns
<1>12. TimeoutPlaces'
  <2>1. tExpires["slow"] = 1000 => tExpires'["slow"] = 1000
    BY <1>5, <1>9 DEF TIMEOUT!Requests
  <2>2. tQueue = <<>> => tQueue' = <<>>
    BY <1>3, <1>7, EmptySeq
  <2>3. \A i \in DOMAIN tQueue' : i \in DOMAIN tQueue
        /\ tQueue'[i].request = tQueue[i].request
    BY <1>7
  <2>4. \A w \in Workers : /\ tWorker[w] = TIMEOUT!Idle => tWorker'[w] = TIMEOUT!Idle
                           /\ tWorker'[w].sends = tWorker[w].sends
    BY <1>8
  <2>5. tMain'.at = tMain.at /\ Len(tQueue') = Len(tQueue)
    BY <1>6, <1>7
  <2> QED BY <1>2, <2>1, <2>2, <2>3, <2>4, <2>5 DEF TimeoutInv, TimeoutPlaces
<1>13. TimeoutRaces'
  <2>1. ASSUME NEW w \in Workers, tWorker'[w].sends # "none"
        PROVE  tWorker[w].in \in Int /\ tWorker'[w].in = tWorker[w].in - 1
    <3>1. tWorker[w] # TIMEOUT!Idle
      BY <1>8, <2>1 DEF TIMEOUT!Idle
    <3>2. tWorker[w].in \in -SendLateness .. Sending
      BY <3>1 DEF TimeoutInv, TimeoutCountdowns
    <3>3. tWorker[w].in \in Int /\ tWorker[w].in # 1000
      BY <1>4, <3>2
    <3> QED BY <1>5, <1>8, <3>3
  <2>2. ASSUME tHandle["slow"] = "none", NEW i \in DOMAIN tQueue,
               tQueue[i].request = "slow"
        PROVE  tExpires'["slow"] = Timeout + tQueue'[i].in
    <3>1. tQueue[i].in \in -SendLateness .. 0
          /\ tExpires["slow"] = Timeout + tQueue[i].in
      BY <2>2 DEF TimeoutInv, TimeoutCountdowns, TimeoutRaces
    <3>2. tExpires'["slow"] = tExpires["slow"] - 1
      BY <1>4, <1>5, <1>9, <3>1 DEF TIMEOUT!Requests
    <3> QED BY <1>4, <1>7, <3>1, <3>2
  <2>3. ASSUME tHandle["slow"] = "none", NEW w \in Workers, tWorker'[w].sends = "slow"
        PROVE  tExpires'["slow"] <= tWorker'[w].in + Timeout - Sending
    <3>1. tWorker[w].in \in -SendLateness .. Sending
      BY <1>8, <2>3 DEF TimeoutInv, TimeoutCountdowns, TIMEOUT!Idle
    <3> tWorker[w].sends = "slow"
      BY <1>8, <2>3
    <3>2. tExpires["slow"] <= tWorker[w].in + Timeout - Sending
      BY <2>3 DEF TimeoutInv, TimeoutRaces
    <3>3. tExpires["slow"] \in Int /\ tExpires'["slow"] = TIMEOUT!Down(tExpires["slow"])
      BY <1>3, <1>9 DEF TIMEOUT!Requests
    <3>4. tExpires'["slow"] = tExpires["slow"] - 1
      BY <1>4, <1>5, <3>1, <3>2, <3>3
    <3> QED BY <1>4, <2>1, <2>3, <3>1, <3>2, <3>3, <3>4
  <2>4. ASSUME tMain.at = "cancel", NEW w \in Workers, tWorker'[w].sends = "cancelled"
        PROVE  tWorker'[w].in - tMain'.in >= Sending
    <3> tWorker[w].sends = "cancelled"
      BY <1>8, <2>4
    <3>1. tMain.in \in -SendLateness .. 0 /\ tWorker[w].in - tMain.in >= Sending
      BY <2>4 DEF TimeoutInv, TimeoutCountdowns, TimeoutRaces
    <3>2. tMain'.in = tMain.in - 1
      BY <1>4, <1>5, <1>6, <3>1
    <3> QED BY <1>4, <2>1, <2>4, <3>1, <3>2
  <2>5. ASSUME tMain.at = "leave"
        PROVE  /\ \A i \in DOMAIN tQueue : tQueue'[i].in - tMain'.in <= -Rest
               /\ \A w \in Workers : tWorker'[w].sends # "none" =>
                    tWorker'[w].in - tMain'.in <= Sending + SendLateness - Rest
    <3>1. tMain.in \in -SendLateness .. Rest
      BY <2>5 DEF TimeoutInv, TimeoutCountdowns
    <3>2. tMain'.in = tMain.in - 1
      BY <1>4, <1>5, <1>6, <3>1
    <3>3. ASSUME NEW i \in DOMAIN tQueue PROVE tQueue'[i].in - tMain'.in <= -Rest
      <4>1. tQueue[i].in \in -SendLateness .. 0 /\ tQueue[i].in - tMain.in <= -Rest
        BY <2>5 DEF TimeoutInv, TimeoutCountdowns, TimeoutRaces
      <4>2. tQueue'[i].in = tQueue[i].in - 1
        BY <1>7
      <4> QED BY <1>4, <3>1, <3>2, <4>1, <4>2
    <3>4. ASSUME NEW w \in Workers, tWorker'[w].sends # "none"
          PROVE  tWorker'[w].in - tMain'.in <= Sending + SendLateness - Rest
      <4> tWorker[w].sends # "none"
        BY <1>8, <3>4
      <4>1. tWorker[w].in - tMain.in <= Sending + SendLateness - Rest
        BY <2>5 DEF TimeoutInv, TimeoutRaces
      <4> QED BY <1>4, <2>1, <3>1, <3>2, <3>4, <4>1
    <3> QED BY <3>3, <3>4
  <2> QED BY <1>2, <1>6, <1>7, <2>2, <2>3, <2>4, <2>5 DEF TimeoutRaces
<1> QED BY <1>10, <1>11, <1>12, <1>13 DEF TimeoutInv

\* Every step of the example keeps its invariant.
LEMMA TimeoutStepKeeps == ASSUME TimeoutInv, TIMEOUT!Next PROVE TimeoutInv'
  BY SendSlowKeeps, AwaitSlowKeeps, SendCancelledKeeps, CancelKeeps,
     AwaitCancelledKeeps, CancelAgainKeeps, LeaveKeeps, TakeKeeps, AnswerKeeps,
     ExpireKeeps, TickKeeps DEF TIMEOUT!Next

\* The invariant says how each request ends.
LEMMA TimeoutInvShowsRequests == TimeoutInv => RequestsAreGivenUp
<1> SUFFICES ASSUME TimeoutInv PROVE RequestsAreGivenUp
  OBVIOUS
<1>1. TIMEOUT!TypeOK
  <2> DEFINE Ticks == -SendLateness .. Rest \cup {Sending, Timeout, TIMEOUT!Off}
  <2>1. /\ SendLateness \in Nat /\ Sending \in Nat /\ Timeout \in Nat /\ Rest \in Nat
        /\ Timeout < Sending /\ Sending < Rest /\ Rest < 1000
    BY TimesAssumption DEF TimesAssumption
  <2>2. /\ 1000 \in Ticks
        /\ \A n \in -SendLateness .. 0 : n \in Ticks
        /\ \A n \in -SendLateness .. Timeout : n \in Ticks
        /\ \A n \in -SendLateness .. Sending : n \in Ticks /\ n # 1000
        /\ \A n \in -SendLateness .. Rest : n \in Ticks
    BY <2>1 DEF TIMEOUT!Off
  <2>3. tMain.in \in -SendLateness .. Rest \cup {1000}
    BY <2>1 DEF TimeoutInv, TimeoutTypes, TimeoutCountdowns, TimeoutPlaces,
       MainPlaces
  <2> HIDE DEF Ticks
  <2>4. tMain.in \in Ticks
    BY <2>2, <2>3
  <2>5. \A i \in DOMAIN tQueue : tQueue[i].in \in Ticks
    BY <2>2 DEF TimeoutInv, TimeoutCountdowns
  <2>6. ASSUME NEW w \in Workers
        PROVE  /\ tWorker[w].in \in Ticks
               /\ \/ tWorker[w] = TIMEOUT!Idle
                  \/ tWorker[w].sends \in TIMEOUT!Requests
                     /\ tWorker[w].in # TIMEOUT!Off
    <3>1. CASE tWorker[w] = TIMEOUT!Idle
      BY <2>2, <3>1 DEF TIMEOUT!Idle, TIMEOUT!Off
    <3>2. CASE /\ tWorker[w].sends \in TIMEOUT!Requests
               /\ tWorker[w].in \in -SendLateness .. Sending
      BY <2>2, <3>2 DEF TIMEOUT!Off
    <3> QED BY <3>1, <3>2 DEF TimeoutInv, TimeoutCountdowns
  <2>7. \A r \in TIMEOUT!Requests : tExpires[r] \in Ticks
    BY <2>2 DEF TimeoutInv, TimeoutCountdowns, TIMEOUT!Requests
  <2>8. \A n \in TIMEOUT!Countdowns : n \in Ticks
    BY <2>4, <2>5, <2>6, <2>7 DEF TIMEOUT!Countdowns
  <2>9. /\ tMain.at \in {"send_slow", "await_slow", "send_cancelled", "cancel",
                  "await_cancelled", "cancel_again", "leave", "left", "failed"}
        /\ Len(tQueue) <= 2
        /\ tNotified \subseteq TIMEOUT!Requests
        /\ \A r \in TIMEOUT!Requests : tHandle[r] \in
             {"none", "value", "timeout", "cancelled"}
    BY DEF TimeoutInv, TimeoutTypes, TimeoutPlaces, MainPlaces
  <2> QED BY <2>6, <2>8, <2>9 DEF TIMEOUT!TypeOK, Ticks
<1>2. TIMEOUT!RequirementsHold
  BY DEF TIMEOUT!RequirementsHold, TimeoutInv, TimeoutPlaces
<1>3. TIMEOUT!TransportOutlivesSends
  BY DEF TIMEOUT!TransportOutlivesSends, TimeoutInv, TimeoutPlaces
<1> QED BY <1>1, <1>2, <1>3 DEF RequestsAreGivenUp

-----------------------------------------------------------------------------
(* The request that is cancelled under its handler (InboundCancellation).  *)

\* What the clocks say: the handler, once started, has slept no longer than
\* main has been on its way to the notification.
InboundClocks ==
  /\ iMain.at = "poll" /\ iStarted =>
       iHandler.at = "handling" /\ iHandler.in - iMain.in >= Handling - Poll
  /\ iMain.at = "notify" =>
       /\ iHandler.at = "handling"
       /\ iHandler.in - iMain.in >= Handling - Poll - PollLateness

InboundPlaces ==
  /\ iMain.at = "launch" <=> iHandler.at = "nowhere"
  /\ iStarted <=> iHandler.at \in {"handling", "done"}
  /\ iMain.at \in {"launch", "poll", "notify"} => iNotified = "nowhere"
  /\ iMain.at \in {"poll", "notify", "await"} => iScope = INBOUND!Locals
  /\ iMain.at = "unwind" =>
       \/ iScope = INBOUND!Locals
       \/ iScope = INBOUND!Locals \ {"pending"} /\ iHandler.at = "done"
  /\ iMain.at = "left" => iScope = {} /\ iHandler.at = "done"

InboundCountdowns ==
  /\ iMain \in [at : {"launch", "poll", "notify", "await", "unwind", "left"}, in : Int]
  /\ iMain.in \in -PollLateness .. Poll \/ (iMain.in = 1000 /\ iMain.at = "left")
  /\ iHandler \in [at : {"nowhere", "launched", "handling", "done"}, in : Int]
  /\ IF iHandler.at = "handling" THEN iHandler.in \in -PollLateness .. Handling
     ELSE iHandler.in = 1000

InboundInv ==
  INBOUND!TypeOK /\ INBOUND!CancelsUnderTheHandler /\ InboundClocks /\ InboundPlaces
  /\ InboundCountdowns

\* The handler has not started and main is about to launch it.
LEMMA InboundInit == INBOUND!Init => InboundInv
<1> SUFFICES ASSUME INBOUND!Init PROVE InboundInv
  OBVIOUS
<1> USE TimesAssumption DEF TimesAssumption, INBOUND!Init, INBOUND!Off
<1>1. INBOUND!TypeOK
  <2>1. iMain.in \in -PollLateness .. Poll /\ iHandler.in = INBOUND!Off
    OBVIOUS
  <2>2. iAttempt \in 0 .. Attempts
    OBVIOUS
  <2>4. iStarted \in BOOLEAN
    OBVIOUS
  <2>5.  iScope \subseteq INBOUND!Locals
    OBVIOUS
  <2>3. iMain.at = "launch" /\ iHandler.at = "nowhere"
    OBVIOUS
  <2> QED BY <2>1, <2>2, <2>3,<2>4,<2>5 DEF INBOUND!TypeOK
<1>2. InboundClocks
  BY DEF InboundClocks
<1>3. InboundPlaces
  BY DEF InboundPlaces
<1>4. InboundCountdowns
  BY DEF InboundCountdowns
<1>5. INBOUND!CancelsUnderTheHandler
  BY DEF INBOUND!CancelsUnderTheHandler
<1> QED BY <1>1, <1>2, <1>3, <1>4, <1>5 DEF InboundInv

\* Every step of main, the handler and the clock keeps the invariant: it is
\* inductive as the properties state it, with the ranges of the clocks.
LEMMA InboundStepKeeps == ASSUME InboundInv, INBOUND!Next PROVE InboundInv'
<1> USE TimesAssumption DEF TimesAssumption, InboundInv, INBOUND!TypeOK,
       INBOUND!CancelsUnderTheHandler, InboundClocks, InboundPlaces,
       InboundCountdowns, INBOUND!Off, INBOUND!Locals, INBOUND!At, INBOUND!Goto,
       INBOUND!Rests
<1>1. CASE INBOUND!Launch
  BY <1>1 DEF INBOUND!Launch
<1>2. CASE INBOUND!PollStarted
  BY <1>2 DEF INBOUND!PollStarted
<1>3. CASE INBOUND!Notify
  BY <1>3 DEF INBOUND!Notify
<1>4. CASE INBOUND!Await
  BY <1>4 DEF INBOUND!Await
<1>5. CASE INBOUND!Unwind
  BY <1>5 DEF INBOUND!Unwind
<1>6. CASE INBOUND!Start
  BY <1>6 DEF INBOUND!Start
<1>7. CASE INBOUND!Complete
  BY <1>7 DEF INBOUND!Complete
<1>8. CASE INBOUND!Tick
  BY <1>8 DEF INBOUND!Tick, INBOUND!Down, INBOUND!Waits
<1> QED BY <1>1, <1>2, <1>3, <1>4, <1>5, <1>6, <1>7, <1>8 DEF INBOUND!Next

-----------------------------------------------------------------------------
(* The programs together.                                                  *)

\* Each program is in a reachable state of its own; all but the one that the
\* behaviour is of stay as they begin.
ProgramInv == IInv /\ TimeoutInv /\ InboundInv

\* The initial states satisfy the invariants of all programs.
LEMMA ProgramInitInv == ProgramInit => ProgramInv
BY InitIInv, TimeoutInit, InboundInit DEF ProgramInit, ProgramInv

\* A program that does not run stays in its state: the shutdown example ...
LEMMA ShutdownStays == ASSUME IInv, UNCHANGED vars PROVE IInv'
BY NextKeepsIInv

\* ... the requests that time out ...
LEMMA TimeoutStays == ASSUME TimeoutInv, UNCHANGED tVars PROVE TimeoutInv'
<1>1. UNCHANGED <<tMain, tQueue, tWorker, tHandle, tExpires, tNotified>>
  BY DEF tVars
<1>2. TimeoutTypes'
  BY <1>1 DEF TimeoutInv, TimeoutTypes
<1>3. TimeoutCountdowns'
  BY <1>1 DEF TimeoutInv, TimeoutCountdowns
<1>4. TimeoutPlaces'
  BY <1>1 DEF TimeoutInv, TimeoutPlaces
<1>5. TimeoutRaces'
  BY <1>1 DEF TimeoutInv, TimeoutRaces
<1> QED BY <1>2, <1>3, <1>4, <1>5 DEF TimeoutInv

\* ... and the request that is cancelled under its handler.
LEMMA InboundStays == ASSUME InboundInv, UNCHANGED iVars PROVE InboundInv'
<1>1. UNCHANGED <<iMain, iAttempt, iHandler, iStarted, iNotified, iPending, iScope>>
  BY DEF iVars
<1> QED
  BY <1>1 DEF InboundInv, INBOUND!TypeOK, INBOUND!CancelsUnderTheHandler,
     InboundClocks, InboundPlaces, InboundCountdowns

\* Every step of a program keeps the invariants of all.
LEMMA ProgramStepInv == ProgramInv /\ [ProgramNext]_all => ProgramInv'
<1> SUFFICES ASSUME ProgramInv, [ProgramNext]_all PROVE ProgramInv'
  OBVIOUS
<1> USE ShutdownStays, TimeoutStays, InboundStays DEF ProgramInv
<1>1. CASE ShutdownStep
  BY <1>1, NextKeepsIInv DEF ShutdownStep
<1>2. CASE TimeoutStep
  BY <1>2, TimeoutStepKeeps DEF TimeoutStep
<1>3. CASE InboundStep
  BY <1>3, InboundStepKeeps DEF InboundStep
<1>4. CASE UNCHANGED all
  BY <1>4 DEF all
<1> QED BY <1>1, <1>2, <1>3, <1>4 DEF ProgramNext

\* The invariants hold in every reachable state.
LEMMA ProgramInvAlways == ProgramSpec => []ProgramInv
BY ProgramInitInv, ProgramStepInv, PTL DEF ProgramSpec

\* The stop of the shutdown example is orderly in the composition, too.
THEOREM ShutdownIsSafe == ProgramSpec => [](NoLostWakeup /\ RunsUntilStopped)
<1>1. ProgramInv => NoLostWakeup /\ RunsUntilStopped
  BY DEF ProgramInv, IInv, TypeOK, DecidedUnclosed, StoppedInv, NoLostWakeup,
     RunsUntilStopped
<1> QED BY <1>1, ProgramInvAlways, PTL

\* Requests time out and are cancelled as main requires, and the transport
\* outlives every send, for any number of workers and any times that leave the
\* margins of TimesAssumption.
THEOREM RequestsGivenUp == ProgramSpec => []RequestsAreGivenUp
<1>1. ProgramInv => RequestsAreGivenUp
  BY TimeoutInvShowsRequests DEF ProgramInv
<1> QED BY <1>1, ProgramInvAlways, PTL

\* The notification meets the running handler and the locals of main outlive
\* the thread, also when the handler starts after main has given up.
THEOREM HandlersCancelled == ProgramSpec => []HandlersAreCancelled
<1>1. ProgramInv => HandlersAreCancelled
  BY DEF ProgramInv, InboundInv, InboundPlaces, HandlersAreCancelled,
     INBOUND!TypeOK, INBOUND!LocalsOutliveTheThread, INBOUND!Locals
<1> QED BY <1>1, ProgramInvAlways, PTL
=============================================================================
