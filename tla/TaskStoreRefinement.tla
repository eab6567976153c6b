------------------------ MODULE TaskStoreRefinement ------------------------
(***************************************************************************)
(* The task store implements the lifecycle, whose states are the statuses  *)
(* but for one: a worker that prompts after the cancellation shows         *)
(* "input_required" for a while, which the lifecycle takes for cancelled.  *)
(* The prompts of a cancelled task stay on record and count as gone.       *)
(***************************************************************************)
EXTENDS TaskStoreProperties

StateOf(t) == IF t \notin g_tasks THEN "absent"
              ELSE IF cancel_requested[t] /\ status[t] = "input_required"
                   THEN "cancelled"
              ELSE status[t]
AsksOf(t) == t \in g_tasks /\ tool[t] \in PromptTools
PendingOf(t) == IF cancel_requested[t] THEN {} ELSE input_requests[t]

effectiveState == [t \in Ids |-> StateOf(t)]
effectiveAsks == [t \in Ids |-> AsksOf(t)]
effectivePending == [t \in Ids |-> PendingOf(t)]

Lifecycle == INSTANCE TaskLifecycle
               WITH PromptNames <- Keys, state <- effectiveState,
                    asks <- effectiveAsks, pending <- effectivePending

\* Every behaviour of the workers and handlers is one of the lifecycle: no
\* interleaving skips a prompt, settles a cancelled task or revives a settled
\* one (run_task, task_complete, task_fail and handle_tasks_method).
ImplementsLifecycle == Lifecycle!Spec

-----------------------------------------------------------------------------
(* The inductive invariant behind the safety properties.                   *)

Prompting == {"wait", "blocked", "resumed", "finish"}

\* Which steps of the creator and of the worker a task can be between.
Progress(t) ==
  /\ t > g_task_seq => create[t] = "idle"
  /\ create[t] \in {"idle", "allocated"} => ~cancel_requested[t]
  /\ create[t] \notin {"spawned", "replied"} => pc[t] = "none"
  /\ pc[t] = "sleep" => tool[t] \in SleepTools
  /\ pc[t] \in Prompting => tool[t] \in PromptTools
  /\ arguments[t] = "ill-typed" => tool[t] \in ArgumentReaders

\* What the status says of the worker.
StatusFollowsWorker(t) ==
  /\ pc[t] \in {"none", "begin", "sleep"} => status[t] \in {"working", "cancelled"}
  /\ pc[t] \in Prompting => status[t] \in {"input_required", "cancelled"}
  /\ pc[t] = "mark" => cancel_requested[t]
  /\ pc[t] = "done" => task_is_terminal(status[t])

\* The flag is what decides: a raised flag with another status than cancelled
\* is a worker that prompted too late, and that will mark the task cancelled.
FlagFollowsCancel(t) ==
  /\ status[t] = "cancelled" => cancel_requested[t]
  /\ cancel_requested[t] /\ status[t] # "cancelled" =>
       pc[t] \in {"wait", "blocked", "mark"} /\ status[t] = "input_required"

\* A prompt is pending, answered, or not yet asked.
PromptsAccounted(t) ==
  /\ pc[t] \in {"none", "begin", "sleep"} =>
       /\ input_requests[t] = {}
       /\ \A k \in Keys : input_responses[t][k] = "null"
  /\ \A k \in Keys : input_responses[t][k] # "null" => k \notin input_requests[t]
  /\ pc[t] \in Prompting => \A k \in Prompts(tool[t]) :
       k \in input_requests[t] \/ input_responses[t][k] # "null"
  /\ pc[t] \in {"resumed", "finish"} => input_requests[t] = {}
  /\ pc[t] = "finish" /\ tool[t] = "confirm_delete" =>
       action[t] = input_responses[t]["confirm"]

Outcomes(t) ==
  /\ status[t] = "completed" <=> result[t] # "null"
  /\ status[t] = "failed" <=> error[t] # "null"
  /\ seen[t] \in {"completed", "failed"} => status[t] = seen[t]
  /\ result[t] = "deleted" => input_responses[t]["confirm"] = "accept"

TaskInv(t) == /\ Progress(t)
              /\ StatusFollowsWorker(t)
              /\ FlagFollowsCancel(t)
              /\ PromptsAccounted(t)
              /\ Outcomes(t)

\* What holds in every state of the task store, and is kept by every step.
IInv == TypeOK /\ (\A t \in Ids : TaskInv(t)) /\ OnlyPayloadsTerminate
=============================================================================
