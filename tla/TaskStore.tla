----------------------------- MODULE TaskStore -----------------------------
(***************************************************************************)
(* The task store of the everything server                                 *)
(* (validation/conformance/conformance_everything_server.cpp): TaskRecord, *)
(* the registry g_tasks, the worker thread of each task (run_task), the    *)
(* tools/call path that creates a task (start_task) and the handlers of    *)
(* tasks/get, tasks/update and tasks/cancel (handle_tasks_method).         *)
(*                                                                         *)
(* Every section of the code that holds a task's mutex is one action.      *)
(* What the code does between two such sections is an action of its own,   *)
(* so handlers of any number of requests interleave with the workers.      *)
(***************************************************************************)
EXTENDS Integers, FiniteSets

CONSTANTS MaxTasks,   \* how many tasks are started; bounds g_task_seq
          MaxSlices,  \* the longest slow_compute, in slices of 100 ms
          Tools,      \* the tools clients call as tasks
          Answers     \* the answers clients give to a prompt

Ids == 1..MaxTasks

SleepTools == {"slow_compute", "failing_job", "protocol_error_job",
               "test_tool_with_task"}
PromptTools == {"confirm_delete", "multi_input"}
TaskTools == SleepTools \cup PromptTools

ASSUME BoundsAssumption == MaxTasks \in Nat \ {0} /\ MaxSlices \in Nat

\* The tools whose worker reads its JSON arguments with a typed accessor.
ArgumentReaders == {"slow_compute", "confirm_delete"}

Keys == {"confirm", "first", "second"}
\* "accept" and "decline" are objects whose action is, or is not, accept;
\* "malformed" is any JSON value but an object, or an object whose action is
\* not a string.
AllAnswers == {"accept", "decline", "malformed"}

ASSUME InputsAssumption == Tools \subseteq TaskTools /\ Answers \subseteq AllAnswers

Statuses == {"working", "input_required", "completed", "failed", "cancelled"}
Results == {"computed", "execution error", "deleted", "declined",
            "all inputs", "named"}

VARIABLES
  g_task_seq,        \* the atomic counter behind the task ids
  create,            \* progress of the handler that creates the task
  tool, arguments,   \* TaskRecord: fixed when the task is created
  status, result, error, input_requests, input_responses, cancel_requested,
  pc, slices, action, \* the task's worker thread and its local variables
  seen,              \* the last status a client was told
  up                 \* FALSE once an exception left a worker (std::terminate)

jobVars == <<g_task_seq, tool, arguments>>
recordVars == <<status, result, error, input_requests, input_responses,
                cancel_requested>>
workerVars == <<pc, slices, action>>
vars == <<jobVars, create, recordVars, workerVars, seen, up>>

\* The registry: a task can be found once its creator has inserted it; no
\* code removes one.
g_tasks == {t \in Ids : create[t] \notin {"idle", "allocated"}}

\* Mutant of task_is_terminal: "completed" is forgotten.
task_is_terminal_forgetful(s) == s \in {"failed", "cancelled"}

task_is_terminal(s) == s \in {"completed", "failed", "cancelled"}

TypeOK ==
  /\ g_task_seq \in 0..MaxTasks
  /\ create \in [Ids -> {"idle", "allocated", "inserted", "spawned",
                         "replied", "threw"}]
  /\ tool \in [Ids -> TaskTools]
  /\ arguments \in [Ids -> {"ok", "ill-typed"}]
  /\ status \in [Ids -> Statuses]
  /\ result \in [Ids -> Results \cup {"null"}]
  /\ error \in [Ids -> {"null", "internal failure"}]
  /\ input_requests \in [Ids -> SUBSET Keys]
  /\ input_responses \in [Ids -> [Keys -> AllAnswers \cup {"null"}]]
  /\ cancel_requested \in [Ids -> BOOLEAN]
  /\ pc \in [Ids -> {"none", "begin", "sleep", "wait", "blocked", "resumed",
                     "finish", "mark", "done"}]
  /\ slices \in [Ids -> Nat]
  /\ action \in [Ids -> {"null", "accept", "decline"}]
  /\ seen \in [Ids -> Statuses \cup {"never", "torn"}]
  /\ up \in BOOLEAN

\* The record of an id not yet allocated holds the defaults of TaskRecord; its
\* tool and arguments are placeholders that AllocateTask replaces.
Init ==
  /\ g_task_seq = 0
  /\ create = [t \in Ids |-> "idle"]
  /\ tool = [t \in Ids |-> "slow_compute"]
  /\ arguments = [t \in Ids |-> "ok"]
  /\ status = [t \in Ids |-> "working"]
  /\ result = [t \in Ids |-> "null"]
  /\ error = [t \in Ids |-> "null"]
  /\ input_requests = [t \in Ids |-> {}]
  /\ input_responses = [t \in Ids |-> [k \in Keys |-> "null"]]
  /\ cancel_requested = [t \in Ids |-> FALSE]
  /\ pc = [t \in Ids |-> "none"]
  /\ slices = [t \in Ids |-> 0]
  /\ action = [t \in Ids |-> "null"]
  /\ seen = [t \in Ids |-> "never"]
  /\ up = TRUE

-----------------------------------------------------------------------------
(* start_task, run by the handler of a tools/call request.                 *)

\* A fresh id and a record that only this handler can reach.
AllocateTask(t, tl, args) ==
  /\ t = g_task_seq + 1
  /\ args = "ok" \/ tl \in ArgumentReaders
  /\ g_task_seq' = t
  /\ tool' = [tool EXCEPT ![t] = tl]
  /\ arguments' = [arguments EXCEPT ![t] = args]
  /\ create' = [create EXCEPT ![t] = "allocated"]
  /\ UNCHANGED <<recordVars, workerVars, seen, up>>

InsertTask(t) ==
  /\ create[t] = "allocated"
  /\ create' = [create EXCEPT ![t] = "inserted"]
  /\ UNCHANGED <<jobVars, recordVars, workerVars, seen, up>>

SpawnWorker(t) ==
  /\ create[t] = "inserted"
  /\ create' = [create EXCEPT ![t] = "spawned"]
  /\ pc' = [pc EXCEPT ![t] = "begin"]
  /\ UNCHANGED <<jobVars, recordVars, slices, action, seen, up>>

\* The constructor of std::thread may throw std::system_error: the handler
\* fails, and the registry keeps a record that no thread works on.
SpawnFails(t) ==
  /\ create[t] = "inserted"
  /\ create' = [create EXCEPT ![t] = "threw"]
  /\ UNCHANGED <<jobVars, recordVars, workerVars, seen, up>>

\* A thread that may assign the status at the same time as the creator reads
\* it: a worker about to do so, or a tasks/cancel, possible until the status
\* is terminal.
StatusWriterReady(t) ==
  ~task_is_terminal(status[t]) \/ pc[t] \in {"begin", "mark"}

\* create_task_result_json reads the status without the task's mutex.
CreateReply(t) ==
  /\ create[t] = "spawned"
  /\ create' = [create EXCEPT ![t] = "replied"]
  /\ \E s \in {status[t]} \cup IF StatusWriterReady(t) THEN {"torn"} ELSE {} :
       seen' = [seen EXCEPT ![t] = s]
  /\ UNCHANGED <<jobVars, recordVars, workerVars, up>>

-----------------------------------------------------------------------------
(* run_task, the worker thread of task t.                                  *)

\* The number of 100 ms slices the tool sleeps. seconds * 10 is a signed
\* multiplication: a negative or an overflowing product sleeps for none or
\* for some, which the range of slow_compute covers.
Slices(tl) == CASE tl = "slow_compute"        -> 0..MaxSlices
                [] tl = "failing_job"         -> {10}
                [] tl = "protocol_error_job"  -> {1}
                [] tl = "test_tool_with_task" -> {2}

BeginSleep(t) ==
  /\ pc[t] = "begin" /\ arguments[t] = "ok" /\ tool[t] \in SleepTools
  /\ pc' = [pc EXCEPT ![t] = "sleep"]
  /\ \E n \in Slices(tool[t]) : slices' = [slices EXCEPT ![t] = n]
  /\ UNCHANGED <<jobVars, create, recordVars, action, seen, up>>

task_cancel_requested(t) == cancel_requested[t] \/ status[t] = "cancelled"

\* Mutant of SlicesLeft: i <= tenths_of_second.
SlicesLeft_offByOne(t) == slices[t] >= 0

SlicesLeft(t) == slices[t] > 0

\* One turn of the loop of sleep_slice.
SleepSlice(t) ==
  /\ pc[t] = "sleep" /\ SlicesLeft(t)
  /\ pc' = [pc EXCEPT ![t] = IF task_cancel_requested(t) THEN "mark" ELSE @]
  /\ slices' = [slices EXCEPT ![t] = IF task_cancel_requested(t) THEN @ ELSE @ - 1]
  /\ UNCHANGED <<jobVars, create, recordVars, action, seen, up>>

Prompts(tl) == IF tl = "confirm_delete" THEN {"confirm"} ELSE {"first", "second"}

\* The worker asks for its inputs. It does not look at the status first.
BeginPrompt(t) ==
  /\ pc[t] = "begin" /\ arguments[t] = "ok" /\ tool[t] \in PromptTools
  /\ pc' = [pc EXCEPT ![t] = "wait"]
  /\ status' = [status EXCEPT ![t] = "input_required"]
  /\ input_requests' = [input_requests EXCEPT ![t] = Prompts(tool[t])]
  /\ UNCHANGED <<jobVars, create, result, error, input_responses,
                 cancel_requested, slices, action, seen, up>>

\* Json::value throws on arguments of another type; nothing in the detached
\* thread catches it, and std::terminate ends the process.
BadArguments(t) ==
  /\ pc[t] = "begin" /\ arguments[t] = "ill-typed"
  /\ up' = FALSE
  /\ UNCHANGED <<jobVars, create, recordVars, workerVars, seen>>

\* Mutants of WaitOutcome: the answers are looked at before the cancel flag;
\* the wait has no predicate.
WaitOutcome_inputsFirst(t) == IF input_requests[t] = {} THEN "resumed"
                              ELSE IF cancel_requested[t] THEN "mark" ELSE "blocked"
WaitOutcome_noPredicate(t) == IF cancel_requested[t] THEN "mark" ELSE "resumed"

\* The predicate of the wait, and what the caller does with the return value.
WaitOutcome(t) == IF cancel_requested[t] THEN "mark"
                  ELSE IF input_requests[t] = {} THEN "resumed" ELSE "blocked"

\* wait_for_inputs: evaluate the predicate under the mutex; block, or return.
WaitForInputs(t) ==
  /\ pc[t] = "wait"
  /\ pc' = [pc EXCEPT ![t] = WaitOutcome(t)]
  /\ UNCHANGED <<jobVars, create, recordVars, slices, action, seen, up>>

SpuriousWake(t) ==
  /\ pc[t] = "blocked"
  /\ pc' = [pc EXCEPT ![t] = "wait"]
  /\ UNCHANGED <<jobVars, create, recordVars, slices, action, seen, up>>

\* Json::value throws on an answer that is not an object, and on the null
\* that stands for a missing one.
AnswerThrows(t) == /\ tool[t] = "confirm_delete"
                   /\ input_responses[t]["confirm"] \in {"malformed", "null"}

\* Reads input_responses without the mutex.
ReadAnswers(t) ==
  /\ pc[t] = "resumed" /\ ~AnswerThrows(t)
  /\ pc' = [pc EXCEPT ![t] = "finish"]
  /\ action' = [action EXCEPT ![t] = IF tool[t] = "confirm_delete"
                                     THEN input_responses[t]["confirm"] ELSE @]
  /\ UNCHANGED <<jobVars, create, recordVars, slices, seen, up>>

BadAnswer(t) ==
  /\ pc[t] = "resumed" /\ AnswerThrows(t)
  /\ up' = FALSE
  /\ UNCHANGED <<jobVars, create, recordVars, workerVars, seen>>

Outcome(t) == CASE tool[t] = "slow_compute"        -> "computed"
                [] tool[t] = "failing_job"         -> "execution error"
                [] tool[t] = "test_tool_with_task" -> "named"
                [] tool[t] = "multi_input"         -> "all inputs"
                [] tool[t] = "confirm_delete" ->
                     IF action[t] = "accept" THEN "deleted" ELSE "declined"

\* task_complete and task_fail leave a cancelled task alone.
Settle(t, final, res, err) ==
  \/ status[t] = "cancelled" /\ UNCHANGED recordVars
  \/ /\ status[t] # "cancelled"
     /\ status' = [status EXCEPT ![t] = final]
     /\ result' = [result EXCEPT ![t] = res]
     /\ error' = [error EXCEPT ![t] = err]
     /\ input_requests' = [input_requests EXCEPT ![t] = {}]
     /\ UNCHANGED <<input_responses, cancel_requested>>

Finish(t) ==
  /\ pc[t] = "finish" \/ (pc[t] = "sleep" /\ slices[t] = 0)
  /\ \/ /\ tool[t] = "protocol_error_job"
        /\ Settle(t, "failed", result[t], "internal failure")
     \/ /\ tool[t] # "protocol_error_job"
        /\ Settle(t, "completed", Outcome(t), error[t])
  /\ pc' = [pc EXCEPT ![t] = "done"]
  /\ UNCHANGED <<jobVars, create, slices, action, seen, up>>

\* mark_cancelled assigns the status whatever it was.
MarkCancelled(t) ==
  /\ pc[t] = "mark"
  /\ status' = [status EXCEPT ![t] = "cancelled"]
  /\ pc' = [pc EXCEPT ![t] = "done"]
  /\ UNCHANGED <<jobVars, create, result, error, input_requests,
                 input_responses, cancel_requested, slices, action, seen, up>>

-----------------------------------------------------------------------------
(* handle_tasks_method. The registry only grows and find_task returns a     *)
(* shared pointer, so looking a task up and locking it are one action. An   *)
(* unknown id is answered with an error and changes nothing.                *)

\* Mutant of NotifyWorker: the notification is forgotten.
NotifyWorker_lost(t) == UNCHANGED pc

\* cv.notify_all: the worker, if blocked, evaluates its predicate again.
NotifyWorker(t) == pc' = [pc EXCEPT ![t] = IF @ = "blocked" THEN "wait" ELSE @]

Responses == UNION {[K -> Answers] : K \in SUBSET Keys}

\* Mutant of Answered: every response is stored, asked for or not.
Answered_unasked(t, responses) == DOMAIN responses

\* The keys of the update that some prompt is waiting for.
Answered(t, responses) == input_requests[t] \cap DOMAIN responses

TasksUpdate(t, responses) ==
  LET answered == Answered(t, responses)
  IN /\ t \in g_tasks
     /\ ~task_is_terminal(status[t])
     /\ input_responses' = [input_responses EXCEPT ![t] =
          [k \in Keys |-> IF k \in answered THEN responses[k] ELSE @[k]]]
     /\ input_requests' = [input_requests EXCEPT ![t] = @ \ answered]
     /\ NotifyWorker(t)
     /\ UNCHANGED <<jobVars, create, status, result, error, cancel_requested,
                    slices, action, seen, up>>

TasksCancel(t) ==
  /\ t \in g_tasks
  /\ ~task_is_terminal(status[t])
  /\ cancel_requested' = [cancel_requested EXCEPT ![t] = TRUE]
  /\ status' = [status EXCEPT ![t] = "cancelled"]
  /\ NotifyWorker(t)
  /\ UNCHANGED <<jobVars, create, result, error, input_requests,
                 input_responses, slices, action, seen, up>>

\* detailed_task_json, of which the client keeps the status.
TasksGet(t) ==
  /\ t \in g_tasks
  /\ seen' = [seen EXCEPT ![t] = status[t]]
  /\ UNCHANGED <<jobVars, create, recordVars, workerVars, up>>

-----------------------------------------------------------------------------

Creator(t) == InsertTask(t) \/ SpawnWorker(t) \/ SpawnFails(t) \/ CreateReply(t)

Worker(t) == \/ BeginSleep(t) \/ SleepSlice(t)
             \/ BeginPrompt(t) \/ BadArguments(t) \/ WaitForInputs(t)
             \/ ReadAnswers(t) \/ BadAnswer(t) \/ Finish(t) \/ MarkCancelled(t)

Client(t) == \/ \E tl \in Tools, args \in {"ok", "ill-typed"} :
                  AllocateTask(t, tl, args)
             \/ \E responses \in Responses : TasksUpdate(t, responses)
             \/ TasksCancel(t)
             \/ TasksGet(t)

\* A terminated process takes no step.
Terminated == ~up /\ UNCHANGED vars

Next == \/ /\ up
           /\ \E t \in Ids : Creator(t) \/ Worker(t) \/ SpuriousWake(t) \/ Client(t)
        \/ Terminated

\* The scheduler runs every thread the process has started; what clients ask,
\* and spurious wakeups, are left to chance.
Fairness == \A t \in Ids : /\ WF_vars(up /\ Creator(t))
                           /\ WF_vars(up /\ Worker(t))

Spec == Init /\ [][Next]_vars /\ Fairness
=============================================================================
