------------------------------ MODULE Programs ------------------------------
(* The programs whose threads interleave: the shutdown example and the two   *)
(* that give requests up.  They share nothing, so that a behaviour is one of *)
(* one of them and the others stay as they begin.  Times are in ticks of     *)
(* 10 ms.                                                                    *)
EXTENDS BlockingTransport, Integers

CONSTANTS Workers, Sending, Timeout, Rest,  \* of RequestTimeout
          SendLateness,                     \* its Lateness
          Attempts, Poll, Handling,         \* of InboundCancellation
          PollLateness                      \* its Lateness

\* What the sleeps of the two programs have to outlast: a send is later than
\* the timeout it races, the sleep at the end of main than two sends that began
\* late; a poll and the notification are out while the handler sleeps.  A
\* countdown that does not run is no number of ticks that one begins with.
ASSUME TimesAssumption ==
  /\ \E v, w \in Workers : v # w
  /\ Sending \in Nat /\ Timeout \in Nat /\ Rest \in Nat /\ SendLateness \in Nat
  /\ Timeout + SendLateness < Sending
  /\ Sending + 2 * SendLateness < Rest
  /\ Attempts \in Nat /\ Poll \in Nat /\ Handling \in Nat /\ PollLateness \in Nat
  /\ Poll + 2 * PollLateness < Handling
  /\ Rest < 1000 /\ Handling < 1000

VARIABLES program, \* the program the behaviour is one of
          tMain, tQueue, tWorker, tHandle, tExpires, tNotified,
          iMain, iAttempt, iHandler, iStarted, iNotified, iPending, iScope

-----------------------------------------------------------------------------
TIMEOUT == INSTANCE RequestTimeout WITH
  Lateness <- SendLateness,
  main <- tMain, queue <- tQueue, worker <- tWorker, handle <- tHandle,
  expires <- tExpires, notified <- tNotified

INBOUND == INSTANCE InboundCancellation WITH
  Lateness <- PollLateness,
  main <- iMain, attempt <- iAttempt, handler <- iHandler,
  handler_started <- iStarted, notified <- iNotified, pending <- iPending,
  scope <- iScope

Programs == {"shutdown", "timeout", "inbound"}
tVars == <<tMain, tQueue, tWorker, tHandle, tExpires, tNotified>>
iVars == <<iMain, iAttempt, iHandler, iStarted, iNotified, iPending, iScope>>
all == <<program, vars, tVars, iVars>>

-----------------------------------------------------------------------------
ProgramInit ==
  /\ program \in Programs
  /\ Init /\ TIMEOUT!Init /\ INBOUND!Init

ShutdownStep == /\ program = "shutdown" /\ Next
                /\ UNCHANGED <<program, tVars, iVars>>
TimeoutStep == /\ program = "timeout" /\ TIMEOUT!Next
               /\ UNCHANGED <<program, vars, iVars>>
InboundStep == /\ program = "inbound" /\ INBOUND!Next
               /\ UNCHANGED <<program, vars, tVars>>
ProgramNext == ShutdownStep \/ TimeoutStep \/ InboundStep

\* The fairness of each program.
ProgramSpec ==
  /\ ProgramInit /\ [][ProgramNext]_all
  /\ \A r \in Receivers : WF_vars(program = "shutdown" /\ Receive(r))
  /\ WF_vars(program = "shutdown" /\ Close)
  /\ WF_tVars(program = "timeout" /\ TIMEOUT!Next)
  /\ WF_iVars(program = "inbound" /\ INBOUND!Next)
  /\ WF_iVars(program = "inbound" /\ INBOUND!Start)

-----------------------------------------------------------------------------
\* The margins of the sleeps hold: no requirement of main fails and nobody
\* uses the transport once main has left (RequestTimeout).
RequestsAreGivenUp ==
  TIMEOUT!TypeOK /\ TIMEOUT!RequirementsHold /\ TIMEOUT!TransportOutlivesSends

\* The notification meets the running handler, and the locals of main outlive
\* the thread (InboundCancellation).
HandlersAreCancelled ==
  /\ INBOUND!TypeOK /\ INBOUND!CancelsUnderTheHandler
  /\ INBOUND!LocalsOutliveTheThread

\* Stopping the service ends, and the two programs that give requests up end
\* with all their threads done.
EverythingEnds ==
  /\ StopEnds
  /\ program = "timeout" => TIMEOUT!ProgramEnds
  /\ program = "inbound" => INBOUND!MatrixEnds
=============================================================================
