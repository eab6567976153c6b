------------------------ MODULE TaskStoreProperties ------------------------
(* What the task store of the everything server promises its clients, and  *)
(* what its unlocked accesses rely on.                                     *)
EXTENDS TaskStore

\* Once tasks/cancel has been acknowledged on a live task, the task can no
\* longer complete or fail, whatever the worker was doing: the guards of
\* task_complete and task_fail, the result of wait_for_inputs and the order in
\* which its predicate is evaluated all take part.
CancelledNeverSettles ==
  \A t \in Ids : cancel_requested[t] => status[t] \notin {"completed", "failed"}

\* A task carries a result exactly when it is completed and an error exactly
\* when it is failed, also while a cancellation races task_complete: what
\* detailed_task_json shows is never half of an outcome.
OutcomeMatchesStatus ==
  \A t \in Ids : /\ status[t] = "completed" <=> result[t] # "null"
                 /\ status[t] = "failed" <=> error[t] # "null"

\* Once a client was told that a task completed or failed, that is its status
\* for ever: no late tasks/cancel, tasks/update or worker step takes it back.
ReportedOutcomeIsFinal ==
  \A t \in Ids : seen[t] \in {"completed", "failed"} => status[t] = seen[t]

\* run_task reads input_responses without the mutex (line 763). It may: when
\* it does every prompt has its answer and none is pending, so no tasks/update
\* writes the answers at the same time.
UnlockedReadIsSafe ==
  \A t \in Ids : pc[t] = "resumed" =>
    /\ input_requests[t] = {}
    /\ \A k \in Prompts(tool[t]) : input_responses[t][k] # "null"

\* confirm_delete reports a deletion only if the confirmation on record is
\* "accept"; an update that comes after the worker read it changes neither.
DeletedOnlyIfAccepted ==
  \A t \in Ids : result[t] = "deleted" => input_responses[t]["confirm"] = "accept"

\* The process is only ever terminated by a payload of the wrong type, sent by
\* a client: no interleaving makes a worker read an answer that is not there.
OnlyPayloadsTerminate ==
  ~up => \E t \in Ids :
           \/ tool[t] \in ArgumentReaders /\ arguments[t] = "ill-typed"
           \/ /\ tool[t] = "confirm_delete"
              /\ input_responses[t]["confirm"] = "malformed"

\* The answer a prompt received first stands: tasks/update drops a repeated,
\* late or early answer instead of overwriting or storing it.
FirstAnswerStands ==
  [][\A t \in Ids, k \in Keys :
       /\ input_responses[t][k] # "null"
            => input_responses'[t][k] = input_responses[t][k]
       /\ input_responses'[t][k] # input_responses[t][k]
            => k \in input_requests[t]]_vars

\* A cancelled task's worker stops, wherever it was, and leaves the status
\* cancelled: the notification of tasks/cancel is never lost.
CancelStopsWorker ==
  \A t \in Ids :
    cancel_requested[t] /\ pc[t] # "none"
      ~> (pc[t] = "done" /\ status[t] = "cancelled") \/ ~up

\* A task whose last prompt was answered settles: the worker that waits for
\* inputs is woken by the tasks/update that emptied input_requests.
AnsweredTaskSettles ==
  \A t \in Ids :
    pc[t] \in {"wait", "blocked"} /\ input_requests[t] = {}
      ~> task_is_terminal(status[t]) \/ ~up

\* A client that was told "cancelled" is never told, or could never be told,
\* anything else. task_is_terminal counts "cancelled" as terminal and
\* task_complete and task_fail respect that; the prompting branches of
\* run_task do not.
ReportedCancelIsFinal ==
  \A t \in Ids : seen[t] = "cancelled" => status[t] = "cancelled"
=============================================================================
