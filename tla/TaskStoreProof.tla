-------------------------- MODULE TaskStoreProof --------------------------
(* The safety properties of the task store, for any number of tasks, tools *)
(* and answers.                                                            *)
EXTENDS TaskStoreRefinement, TLAPS

\* What TypeOK says of one task.
LEMMA TaskTypes ==
  ASSUME TypeOK, NEW t \in Ids
  PROVE  /\ tool[t] \in TaskTools
         /\ status[t] \in Statuses
         /\ result[t] \in Results \cup {"null"}
         /\ error[t] \in {"null", "internal failure"}
         /\ input_requests[t] \in SUBSET Keys
         /\ input_responses[t] \in [Keys -> AllAnswers \cup {"null"}]
         /\ input_responses[t]["confirm"] \in AllAnswers \cup {"null"}
         /\ slices[t] \in Nat
         /\ action[t] \in {"null", "accept", "decline"}
<1>1. input_responses[t] \in [Keys -> AllAnswers \cup {"null"}]
  BY DEF TypeOK
<1>2. input_responses[t]["confirm"] \in AllAnswers \cup {"null"}
  BY <1>1 DEF Keys
<1> QED
  BY <1>1, <1>2 DEF TypeOK

\* What a task's tool yields when its worker gets to the end.
LEMMA OutcomeType ==
  ASSUME TypeOK, NEW t \in Ids, tool[t] # "protocol_error_job"
  PROVE  Outcome(t) \in Results
<1>1. tool[t] \in {"slow_compute", "failing_job", "protocol_error_job",
                  "test_tool_with_task", "confirm_delete", "multi_input"}
  BY TaskTypes DEF TaskTools, SleepTools, PromptTools
<1>2. CASE tool[t] = "confirm_delete"
  BY <1>2 DEF Outcome, Results
<1> QED
  BY <1>1, <1>2 DEF Outcome, Results

\* A tool that reports a deletion is confirm_delete, told to accept.
LEMMA OutcomeDeleted ==
  ASSUME TypeOK, NEW t \in Ids, tool[t] # "protocol_error_job",
         Outcome(t) = "deleted"
  PROVE  tool[t] = "confirm_delete" /\ action[t] = "accept"
<1>1. tool[t] \in {"slow_compute", "failing_job", "protocol_error_job",
                  "test_tool_with_task", "confirm_delete", "multi_input"}
  BY TaskTypes DEF TaskTools, SleepTools, PromptTools
<1>2. CASE tool[t] = "confirm_delete"
  BY <1>2 DEF Outcome
<1> QED
  BY <1>1, <1>2 DEF Outcome

\* A task settles with status f, result r and error e.
SettledAs(t, f, r, e) ==
  /\ status' = [status EXCEPT ![t] = f]
  /\ result' = [result EXCEPT ![t] = r]
  /\ error' = [error EXCEPT ![t] = e]
  /\ input_requests' = [input_requests EXCEPT ![t] = {}]
  /\ UNCHANGED <<input_responses, cancel_requested>>
  /\ \/ /\ f = "completed" /\ r \in Results /\ e = error[t]
        /\ r = "deleted" =>
             tool[t] = "confirm_delete" /\ action[t] = "accept"
     \/ f = "failed" /\ r = result[t] /\ e = "internal failure"

\* What Finish does to a task that was not cancelled.
LEMMA FinishEffect ==
  ASSUME TypeOK, NEW t \in Ids, Finish(t), status[t] # "cancelled"
  PROVE  \E f \in {"completed", "failed"}, r \in Results \cup {"null"},
             e \in {"null", "internal failure"} :
           SettledAs(t, f, r, e)
<1>1. CASE tool[t] = "protocol_error_job"
  BY <1>1, TaskTypes DEF Finish, Settle, SettledAs
<1>2. CASE tool[t] # "protocol_error_job"
  <2>1. Settle(t, "completed", Outcome(t), error[t])
    BY <1>2 DEF Finish
  <2>2. /\ Outcome(t) \in Results /\ error[t] \in {"null", "internal failure"}
        /\ Outcome(t) = "deleted" =>
             tool[t] = "confirm_delete" /\ action[t] = "accept"
    BY <1>2, TaskTypes, OutcomeType, OutcomeDeleted
  <2> QED
    BY <2>1, <2>2 DEF Settle, SettledAs
<1> QED
  BY <1>1, <1>2

\* A cancelled task keeps its record when its worker ends.
LEMMA FinishCancelled ==
  ASSUME NEW t \in Ids, Finish(t), status[t] = "cancelled"
  PROVE  UNCHANGED recordVars
BY DEF Finish, Settle

\* The values every action computes are of the type of their variable.
LEMMA TypeStep == TypeOK /\ [Next]_vars => TypeOK'
<1> SUFFICES ASSUME TypeOK, [Next]_vars
             PROVE  TypeOK'
  OBVIOUS
<1>1. ASSUME NEW t \in Ids, Creator(t)
      PROVE  TypeOK'
  <2>1. CASE InsertTask(t)
    BY <2>1 DEF InsertTask, TypeOK, recordVars, workerVars, jobVars
  <2>2. CASE SpawnWorker(t)
    BY <2>2 DEF SpawnWorker, TypeOK, recordVars, jobVars
  <2>3. CASE SpawnFails(t)
    BY <2>3 DEF SpawnFails, TypeOK, recordVars, workerVars, jobVars
  <2>4. CASE CreateReply(t)
    <3>1. PICK s \in Statuses \cup {"torn"} : seen' = [seen EXCEPT ![t] = s]
      BY <2>4 DEF CreateReply, TypeOK
    <3> QED
      BY <2>4, <3>1 DEF CreateReply, TypeOK, recordVars, workerVars, jobVars
  <2> QED
    BY <1>1, <2>1, <2>2, <2>3, <2>4 DEF Creator
<1>2. ASSUME NEW t \in Ids, Worker(t)
      PROVE  TypeOK'
  <2>1. CASE BeginSleep(t)
    <3>1. \A tl \in SleepTools : Slices(tl) \subseteq Nat
      BY BoundsAssumption DEF Slices, SleepTools
    <3>2. PICK n \in Nat : slices' = [slices EXCEPT ![t] = n]
      BY <2>1, <3>1 DEF BeginSleep
    <3> QED
      BY <2>1, <3>2 DEF BeginSleep, TypeOK, recordVars, jobVars
  <2>2. CASE SleepSlice(t)
    <3>1. pc' \in [Ids -> {"none", "begin", "sleep", "wait", "blocked",
                          "resumed", "finish", "mark", "done"}]
      BY <2>2 DEF SleepSlice, TypeOK
    <3>2. slices[t] \in Nat /\ slices[t] > 0
      BY <2>2, TaskTypes DEF SleepSlice, SlicesLeft
    <3>3. slices[t] - 1 \in Nat
      BY <3>2
    <3>4. slices' \in [Ids -> Nat]
      <4>1. CASE task_cancel_requested(t)
        BY <2>2, <4>1 DEF SleepSlice, TypeOK
      <4>2. CASE ~task_cancel_requested(t)
        BY <2>2, <3>3, <4>2 DEF SleepSlice, TypeOK
      <4> QED
        BY <4>1, <4>2
    <3> QED
      BY <2>2, <3>1, <3>4 DEF SleepSlice, TypeOK, recordVars, jobVars
  <2>3. CASE BeginPrompt(t)
    <3>1. Prompts(tool[t]) \in SUBSET Keys /\ "input_required" \in Statuses
      BY DEF Prompts, Keys, Statuses
    <3> QED
      BY <2>3, <3>1 DEF BeginPrompt, TypeOK, jobVars
  <2>4. CASE BadArguments(t)
    BY <2>4 DEF BadArguments, TypeOK, recordVars, workerVars, jobVars
  <2>5. CASE WaitForInputs(t)
    BY <2>5 DEF WaitForInputs, WaitOutcome, TypeOK, recordVars, jobVars
  <2>6. CASE ReadAnswers(t)
    <3>1. tool[t] = "confirm_delete" => input_responses[t]["confirm"] \in {"accept", "decline"}
      BY <2>6, TaskTypes DEF ReadAnswers, AnswerThrows, AllAnswers
    <3>2. action' \in [Ids -> {"null", "accept", "decline"}]
      BY <2>6, <3>1 DEF ReadAnswers, TypeOK
    <3> QED
      BY <2>6, <3>2 DEF ReadAnswers, TypeOK, recordVars, jobVars
  <2>7. CASE Finish(t)
    <3>1. CASE status[t] = "cancelled"
      <4>1. UNCHANGED recordVars
        BY <2>7, <3>1, FinishCancelled
      <4> QED
        BY <2>7, <4>1 DEF Finish, TypeOK, recordVars, jobVars
    <3>2. CASE status[t] # "cancelled"
      <4>1. PICK f \in {"completed", "failed"}, r \in Results \cup {"null"},
                 e \in {"null", "internal failure"} :
              SettledAs(t, f, r, e)
        BY <2>7, <3>2, FinishEffect
      <4>2. f \in Statuses
        BY DEF Statuses
      <4> QED
        BY <2>7, <4>1, <4>2 DEF Finish, SettledAs, TypeOK, jobVars
    <3> QED
      BY <3>1, <3>2
  <2>8. CASE MarkCancelled(t)
    BY <2>8 DEF MarkCancelled, Statuses, TypeOK, jobVars
  <2>9. CASE BadAnswer(t)
    BY <2>9 DEF BadAnswer, TypeOK, recordVars, workerVars, jobVars
  <2> QED
    BY <1>2, <2>1, <2>2, <2>3, <2>4, <2>5, <2>6, <2>7, <2>8, <2>9 DEF Worker
<1>3. ASSUME NEW t \in Ids, SpuriousWake(t)
      PROVE  TypeOK'
  BY <1>3 DEF SpuriousWake, TypeOK, recordVars, jobVars
<1>4. ASSUME NEW t \in Ids, Client(t)
      PROVE  TypeOK'
  <2>1. ASSUME NEW tl \in Tools, NEW args \in {"ok", "ill-typed"},
               AllocateTask(t, tl, args)
        PROVE  TypeOK'
    <3>1. g_task_seq' \in 0..MaxTasks
      BY <2>1, BoundsAssumption DEF AllocateTask, Ids
    <3>2. tool' \in [Ids -> TaskTools]
      BY <2>1, InputsAssumption DEF AllocateTask, TypeOK
    <3> QED
      BY <2>1, <3>1, <3>2 DEF AllocateTask, TypeOK, recordVars, workerVars
  <2>2. ASSUME NEW responses \in Responses, TasksUpdate(t, responses)
        PROVE  TypeOK'
    <3>1. \A k \in DOMAIN responses : responses[k] \in AllAnswers
      BY <2>2, InputsAssumption DEF Responses
    <3>2. [k \in Keys |-> IF k \in Answered(t, responses)
                         THEN responses[k] ELSE input_responses[t][k]]
            \in [Keys -> AllAnswers \cup {"null"}]
      BY <3>1, TaskTypes DEF Answered
    <3>4. input_responses' \in [Ids -> [Keys -> AllAnswers \cup {"null"}]]
      BY <2>2, <3>2 DEF TasksUpdate, TypeOK
    <3>3. input_requests' \in [Ids -> SUBSET Keys]
      BY <2>2, TaskTypes DEF TasksUpdate, TypeOK
    <3> QED
      BY <2>2, <3>3, <3>4 DEF TasksUpdate, NotifyWorker, TypeOK, jobVars
  <2>3. CASE TasksCancel(t)
    BY <2>3 DEF TasksCancel, NotifyWorker, Statuses, TypeOK, jobVars
  <2>4. CASE TasksGet(t)
    <3>1. status[t] \in Statuses \cup {"never", "torn"}
      BY DEF TypeOK
    <3> QED
      BY <2>4, <3>1 DEF TasksGet, TypeOK, recordVars, workerVars, jobVars
  <2> QED
    BY <1>4, <2>1, <2>2, <2>3, <2>4 DEF Client
<1>5. CASE UNCHANGED vars
  BY <1>5 DEF vars, TypeOK, recordVars, workerVars, jobVars
<1> QED
  BY <1>1, <1>2, <1>3, <1>4, <1>5 DEF Next, Terminated

\* The initial states are of the types.
LEMMA InitType == Init => TypeOK
BY BoundsAssumption
DEF Init, TypeOK, TaskTools, SleepTools, Statuses, AllAnswers

\* Every record, worker and handler keeps to its type, whatever the clients ask.
THEOREM TypeCorrect == Spec => []TypeOK
BY InitType, TypeStep, PTL DEF Spec

-----------------------------------------------------------------------------
(* The inductive invariant: every step keeps TaskInv of every task.        *)

\* All that TaskInv says of task u is as it was.
Kept(u) ==
  /\ u > g_task_seq' => u > g_task_seq
  /\ create'[u] = create[u] /\ tool'[u] = tool[u] /\ arguments'[u] = arguments[u]
  /\ status'[u] = status[u] /\ result'[u] = result[u] /\ error'[u] = error[u]
  /\ input_requests'[u] = input_requests[u]
  /\ input_responses'[u] = input_responses[u]
  /\ cancel_requested'[u] = cancel_requested[u]
  /\ pc'[u] = pc[u] /\ action'[u] = action[u] /\ seen'[u] = seen[u]

LEMMA KeptInv ==
  ASSUME NEW u \in Ids, TaskInv(u), Kept(u)
  PROVE  TaskInv(u)'
<1>1. Progress(u)' /\ StatusFollowsWorker(u)' /\ FlagFollowsCancel(u)'
  BY DEF Kept, TaskInv, Progress, StatusFollowsWorker, FlagFollowsCancel, Prompting
<1>2. PromptsAccounted(u)' /\ Outcomes(u)'
  BY DEF Kept, TaskInv, PromptsAccounted, Outcomes, Prompting
<1> QED
  BY <1>1, <1>2 DEF TaskInv

\* Every variable of the tasks has a value for each of them.
LEMMA Domains ==
  ASSUME TypeOK
  PROVE  /\ DOMAIN create = Ids /\ DOMAIN tool = Ids /\ DOMAIN arguments = Ids
         /\ DOMAIN status = Ids /\ DOMAIN result = Ids /\ DOMAIN error = Ids
         /\ DOMAIN input_requests = Ids /\ DOMAIN input_responses = Ids
         /\ DOMAIN cancel_requested = Ids /\ DOMAIN pc = Ids
         /\ DOMAIN action = Ids /\ DOMAIN seen = Ids
BY DEF TypeOK

\* A handler or a worker of one task keeps its hands off every other task.
LEMMA OtherTasks ==
  ASSUME TypeOK, NEW t \in Ids, NEW u \in Ids, u # t,
         Creator(t) \/ Worker(t) \/ SpuriousWake(t) \/ Client(t)
  PROVE  Kept(u)
<1>1. CASE Creator(t)
  BY <1>1, Domains DEF Creator, InsertTask, SpawnWorker, SpawnFails,
     CreateReply, Kept, jobVars, recordVars, workerVars
<1>2. CASE BeginSleep(t) \/ SleepSlice(t) \/ BadArguments(t) \/ BadAnswer(t)
  BY <1>2, Domains DEF BeginSleep, SleepSlice, BadArguments, BadAnswer, Kept,
     jobVars, recordVars, workerVars
<1>3. CASE BeginPrompt(t) \/ MarkCancelled(t)
  BY <1>3, Domains DEF BeginPrompt, MarkCancelled, Kept, jobVars
<1>4. CASE WaitForInputs(t) \/ SpuriousWake(t) \/ ReadAnswers(t)
  BY <1>4, Domains DEF WaitForInputs, SpuriousWake, ReadAnswers, Kept, jobVars,
     recordVars
<1>5. CASE Finish(t)
  <2>1. /\ pc' = [pc EXCEPT ![t] = "done"]
        /\ UNCHANGED <<jobVars, create, action, seen>>
    BY <1>5 DEF Finish
  <2>2. CASE status[t] = "cancelled"
    BY <1>5, <2>1, <2>2, FinishCancelled, Domains DEF Kept, jobVars, recordVars
  <2>3. CASE status[t] # "cancelled"
    <3>1. PICK f \in {"completed", "failed"}, r \in Results \cup {"null"},
               e \in {"null", "internal failure"} :
            SettledAs(t, f, r, e)
      BY <1>5, <2>3, FinishEffect
    <3> QED
      BY <2>1, <3>1, Domains DEF SettledAs, Kept, jobVars
  <2> QED
    BY <2>2, <2>3
<1>6. ASSUME NEW tl \in Tools, NEW args \in {"ok", "ill-typed"},
             AllocateTask(t, tl, args)
      PROVE  Kept(u)
  <2>1. u > g_task_seq' => u > g_task_seq
    <3>1. g_task_seq \in 0..MaxTasks /\ g_task_seq' = g_task_seq + 1
      BY <1>6 DEF AllocateTask, TypeOK
    <3> QED
      BY <3>1, BoundsAssumption DEF Ids
  <2> QED
    BY <1>6, <2>1, Domains DEF AllocateTask, Kept, recordVars, workerVars
<1>7. ASSUME NEW responses \in Responses, TasksUpdate(t, responses)
      PROVE  Kept(u)
  BY <1>7, Domains DEF TasksUpdate, NotifyWorker, Kept, jobVars
<1>8. CASE TasksCancel(t) \/ TasksGet(t)
  BY <1>8, Domains DEF TasksCancel, TasksGet, NotifyWorker, Kept, jobVars,
     recordVars, workerVars
<1> QED
  BY <1>1, <1>2, <1>3, <1>4, <1>5, <1>6, <1>7, <1>8 DEF Worker, Client

\* The handler that creates a task.
LEMMA CreatorKeepsTaskInv ==
  ASSUME TypeOK, NEW t \in Ids, TaskInv(t), Creator(t)
  PROVE  TaskInv(t)'
<1>1. CASE InsertTask(t) \/ SpawnFails(t)
  <2>1. /\ create[t] \in {"allocated", "inserted"}
        /\ create'[t] \in {"inserted", "threw"}
        /\ UNCHANGED <<jobVars, recordVars, workerVars, seen>>
    BY <1>1 DEF InsertTask, SpawnFails, TypeOK
  <2>2. Progress(t)'
    BY <2>1 DEF TaskInv, Progress, Prompting, jobVars, recordVars, workerVars
  <2> QED
    BY <2>1, <2>2 DEF TaskInv, StatusFollowsWorker, FlagFollowsCancel,
       PromptsAccounted, Outcomes, Prompting, task_is_terminal,
       jobVars, recordVars, workerVars
<1>2. CASE SpawnWorker(t)
  <2>1. /\ create[t] = "inserted" /\ create'[t] = "spawned" /\ pc'[t] = "begin"
        /\ UNCHANGED <<jobVars, recordVars, action, seen>>
    BY <1>2 DEF SpawnWorker, TypeOK
  <2>2. Progress(t)' /\ pc[t] = "none"
    BY <2>1 DEF TaskInv, Progress, Prompting, jobVars, recordVars
  <2> QED
    BY <2>1, <2>2 DEF TaskInv, StatusFollowsWorker, FlagFollowsCancel,
       PromptsAccounted, Outcomes, Prompting, task_is_terminal,
       jobVars, recordVars
<1>3. CASE CreateReply(t)
  <2>1. /\ create[t] = "spawned" /\ create'[t] = "replied"
        /\ seen'[t] \in {status[t], "torn"}
        /\ UNCHANGED <<jobVars, recordVars, workerVars>>
    BY <1>3, Domains DEF CreateReply
  <2>2. Progress(t)'
    BY <2>1 DEF TaskInv, Progress, Prompting, jobVars, recordVars, workerVars
  <2> QED
    BY <2>1, <2>2 DEF TaskInv, StatusFollowsWorker, FlagFollowsCancel,
       PromptsAccounted, Outcomes, Prompting, task_is_terminal,
       jobVars, recordVars, workerVars
<1> QED
  BY <1>1, <1>2, <1>3 DEF Creator

\* The worker, up to the end of its tool.
LEMMA WorkerKeepsTaskInv ==
  ASSUME TypeOK, NEW t \in Ids, TaskInv(t), Worker(t) \/ SpuriousWake(t), ~Finish(t)
  PROVE  TaskInv(t)'
<1>1. CASE BeginSleep(t)
  <2>1. /\ pc[t] = "begin" /\ pc'[t] = "sleep" /\ tool[t] \in SleepTools
        /\ UNCHANGED <<jobVars, create, recordVars, action, seen>>
    BY <1>1 DEF BeginSleep, TypeOK
  <2>2. Progress(t)'
    BY <2>1 DEF TaskInv, Progress, Prompting, jobVars, recordVars
  <2> QED
    BY <2>1, <2>2 DEF TaskInv, StatusFollowsWorker, FlagFollowsCancel,
       PromptsAccounted, Outcomes, Prompting, task_is_terminal,
       jobVars, recordVars
<1>2. CASE SleepSlice(t)
  <2>1. /\ pc[t] = "sleep" /\ UNCHANGED <<jobVars, create, recordVars, action, seen>>
        /\ \/ pc'[t] = "sleep"
           \/ /\ pc'[t] = "mark"
              /\ cancel_requested[t] \/ status[t] = "cancelled"
    BY <1>2 DEF SleepSlice, TypeOK, task_cancel_requested
  <2>2. Progress(t)'
    BY <2>1 DEF TaskInv, Progress, Prompting, jobVars, recordVars
  <2> QED
    BY <2>1, <2>2 DEF TaskInv, StatusFollowsWorker, FlagFollowsCancel,
       PromptsAccounted, Outcomes, Prompting, task_is_terminal,
       jobVars, recordVars
<1>3. CASE BeginPrompt(t)
  <2>1. /\ pc[t] = "begin" /\ pc'[t] = "wait" /\ status'[t] = "input_required"
        /\ input_requests'[t] = Prompts(tool[t]) /\ tool[t] \in PromptTools
        /\ UNCHANGED <<jobVars, create, result, error, input_responses,
                       cancel_requested, action, seen>>
    BY <1>3 DEF BeginPrompt, TypeOK
  <2>2. Progress(t)'
    BY <2>1 DEF TaskInv, Progress, Prompting, jobVars
  <2>3. StatusFollowsWorker(t)' /\ FlagFollowsCancel(t)'
    BY <2>1 DEF TaskInv, StatusFollowsWorker, FlagFollowsCancel, Prompting,
       task_is_terminal
  <2>4. PromptsAccounted(t)'
    BY <2>1 DEF TaskInv, PromptsAccounted, Prompting, jobVars
  <2>5. Outcomes(t)'
    BY <2>1 DEF TaskInv, StatusFollowsWorker, Outcomes
  <2> QED
    BY <2>2, <2>3, <2>4, <2>5 DEF TaskInv
<1>4. CASE BadArguments(t) \/ BadAnswer(t)
  <2>1. UNCHANGED <<jobVars, create, recordVars, workerVars, seen>>
    BY <1>4 DEF BadArguments, BadAnswer
  <2> QED
    BY <2>1, KeptInv DEF Kept, jobVars, recordVars, workerVars
<1>5. CASE WaitForInputs(t) \/ SpuriousWake(t)
  <2>1. /\ pc[t] \in {"wait", "blocked"}
        /\ \/ pc'[t] \in {"wait", "blocked"}
           \/ pc'[t] = "mark" /\ cancel_requested[t]
           \/ pc'[t] = "resumed" /\ input_requests[t] = {} /\ ~cancel_requested[t]
        /\ UNCHANGED <<jobVars, create, recordVars, action, seen>>
    BY <1>5, Domains DEF WaitForInputs, SpuriousWake, WaitOutcome
  <2>2. Progress(t)'
    BY <2>1 DEF TaskInv, Progress, Prompting, jobVars, recordVars
  <2> QED
    BY <2>1, <2>2 DEF TaskInv, StatusFollowsWorker, FlagFollowsCancel,
       PromptsAccounted, Outcomes, Prompting, task_is_terminal,
       jobVars, recordVars
<1>6. CASE ReadAnswers(t)
  <2>1. /\ pc[t] = "resumed" /\ pc'[t] = "finish"
        /\ tool[t] = "confirm_delete" => action'[t] = input_responses[t]["confirm"]
        /\ UNCHANGED <<jobVars, create, recordVars, seen>>
    BY <1>6 DEF ReadAnswers, TypeOK
  <2>2. Progress(t)'
    BY <2>1 DEF TaskInv, Progress, Prompting, jobVars, recordVars
  <2> QED
    BY <2>1, <2>2 DEF TaskInv, StatusFollowsWorker, FlagFollowsCancel,
       PromptsAccounted, Outcomes, Prompting, task_is_terminal,
       jobVars, recordVars
<1>7. CASE MarkCancelled(t)
  <2>1. /\ pc[t] = "mark" /\ pc'[t] = "done" /\ status'[t] = "cancelled"
        /\ UNCHANGED <<jobVars, create, result, error, input_requests,
                       input_responses, cancel_requested, action, seen>>
    BY <1>7 DEF MarkCancelled, TypeOK
  <2>2. cancel_requested[t] /\ status[t] \notin {"completed", "failed"}
    BY <2>1 DEF TaskInv, StatusFollowsWorker, FlagFollowsCancel
  <2>3. Progress(t)'
    BY <2>1 DEF TaskInv, Progress, Prompting, jobVars
  <2> QED
    BY <2>1, <2>2, <2>3 DEF TaskInv, StatusFollowsWorker, FlagFollowsCancel,
       PromptsAccounted, Outcomes, Prompting, task_is_terminal,
       jobVars
<1> QED
  BY <1>1, <1>2, <1>3, <1>4, <1>5, <1>6, <1>7 DEF Worker

\* tasks/cancel and tasks/get.
LEMMA ClientKeepsTaskInv ==
  ASSUME TypeOK, NEW t \in Ids, TaskInv(t), TasksCancel(t) \/ TasksGet(t)
  PROVE  TaskInv(t)'
<1>1. CASE TasksCancel(t)
  <2>1. /\ create[t] \notin {"idle", "allocated"}
        /\ status[t] \notin {"completed", "failed", "cancelled"}
        /\ status'[t] = "cancelled" /\ cancel_requested'[t] = TRUE
        /\ pc'[t] = pc[t] \/ (pc[t] = "blocked" /\ pc'[t] = "wait")
        /\ UNCHANGED <<jobVars, create, result, error, input_requests,
                       input_responses, action, seen>>
    BY <1>1 DEF TasksCancel, NotifyWorker, g_tasks, task_is_terminal, TypeOK
  <2>2. Progress(t)'
    BY <2>1 DEF TaskInv, Progress, Prompting, jobVars
  <2> QED
    BY <2>1, <2>2 DEF TaskInv, StatusFollowsWorker, FlagFollowsCancel,
       PromptsAccounted, Outcomes, Prompting, task_is_terminal,
       jobVars
<1>2. CASE TasksGet(t)
  <2>1. seen'[t] = status[t] /\ UNCHANGED <<jobVars, create, recordVars, workerVars>>
    BY <1>2 DEF TasksGet, TypeOK
  <2>2. Progress(t)'
    BY <2>1 DEF TaskInv, Progress, Prompting, jobVars, recordVars, workerVars
  <2> QED
    BY <2>1, <2>2 DEF TaskInv, StatusFollowsWorker, FlagFollowsCancel,
       PromptsAccounted, Outcomes, Prompting, task_is_terminal,
       jobVars, recordVars, workerVars
<1> QED
  BY <1>1, <1>2

\* The worker settles its task, unless it was cancelled.
LEMMA FinishKeepsTaskInv ==
  ASSUME TypeOK, NEW t \in Ids, TaskInv(t), Finish(t)
  PROVE  TaskInv(t)'
<1>1. /\ pc[t] \in {"finish", "sleep"} /\ pc'[t] = "done"
      /\ UNCHANGED <<jobVars, create, action, seen>>
  BY DEF Finish, TypeOK
<1>2. CASE status[t] = "cancelled"
  <2>1. UNCHANGED recordVars
    BY <1>2, FinishCancelled
  <2>2. Progress(t)'
    BY <1>1, <2>1 DEF TaskInv, Progress, Prompting, jobVars, recordVars
  <2> QED
    BY <1>1, <1>2, <2>1, <2>2 DEF TaskInv, StatusFollowsWorker, FlagFollowsCancel,
       PromptsAccounted, Outcomes, Prompting, task_is_terminal,
       jobVars, recordVars
<1>3. CASE status[t] # "cancelled"
  <2>1. PICK f \in {"completed", "failed"}, r \in Results \cup {"null"},
             e \in {"null", "internal failure"} :
          SettledAs(t, f, r, e)
    BY <1>3, FinishEffect
  <2>2. /\ status'[t] = f /\ result'[t] = r /\ error'[t] = e
        /\ input_requests'[t] = {} /\ UNCHANGED <<input_responses, cancel_requested>>
    BY <2>1, Domains DEF SettledAs
  <2>3. status[t] \in {"working", "input_required"} /\ ~cancel_requested[t]
    BY <1>1, <1>3 DEF TaskInv, StatusFollowsWorker, FlagFollowsCancel, Prompting
  <2>4. Progress(t)'
    BY <1>1, <2>2 DEF TaskInv, Progress, Prompting, jobVars
  <2>5. StatusFollowsWorker(t)' /\ FlagFollowsCancel(t)'
    BY <1>1, <2>2, <2>3 DEF StatusFollowsWorker, FlagFollowsCancel, Prompting,
       task_is_terminal
  <2>6. PromptsAccounted(t)'
    BY <1>1, <2>2 DEF TaskInv, PromptsAccounted, Prompting, jobVars
  <2>7. Outcomes(t)'
    <3>1. /\ error[t] = "null" /\ result[t] = "null"
          /\ seen[t] \notin {"completed", "failed"}
      BY <2>3 DEF TaskInv, Outcomes
    <3>2. r = "deleted" => input_responses[t]["confirm"] = "accept"
      BY <1>1, <2>1, <3>1 DEF SettledAs, TaskInv, Progress, PromptsAccounted, SleepTools
    <3>3. "null" \notin Results
      BY DEF Results
    <3> QED
      BY <1>1, <2>1, <2>2, <3>1, <3>2, <3>3 DEF SettledAs, Outcomes
  <2> QED
    BY <2>4, <2>5, <2>6, <2>7 DEF TaskInv
<1> QED
  BY <1>2, <1>3

\* A fresh task.
LEMMA AllocateKeepsTaskInv ==
  ASSUME TypeOK, NEW t \in Ids, TaskInv(t), NEW tl \in Tools,
         NEW args \in {"ok", "ill-typed"}, AllocateTask(t, tl, args)
  PROVE  TaskInv(t)'
<1>1. /\ t = g_task_seq + 1 /\ g_task_seq' = t
      /\ tool'[t] = tl /\ arguments'[t] = args /\ create'[t] = "allocated"
      /\ args = "ok" \/ tl \in ArgumentReaders
      /\ UNCHANGED <<recordVars, workerVars, seen>>
  BY DEF AllocateTask, TypeOK
<1>2. ~(t > g_task_seq') /\ t > g_task_seq
  <2>1. g_task_seq \in 0..MaxTasks
    BY DEF TypeOK
  <2> QED
    BY <1>1, <2>1, BoundsAssumption DEF Ids
<1>3. pc[t] = "none" /\ ~cancel_requested[t]
  BY <1>2 DEF TaskInv, Progress
<1>4. Progress(t)'
  BY <1>1, <1>2, <1>3 DEF Progress, Prompting, recordVars, workerVars
<1> QED
  BY <1>1, <1>3, <1>4 DEF TaskInv, StatusFollowsWorker, FlagFollowsCancel,
       PromptsAccounted, Outcomes, Prompting, task_is_terminal,
     recordVars, workerVars

\* The answers of a tasks/update, each to a prompt that is pending.
LEMMA UpdateKeepsTaskInv ==
  ASSUME TypeOK, NEW t \in Ids, TaskInv(t),
         NEW responses \in Responses, TasksUpdate(t, responses)
  PROVE  TaskInv(t)'
<1> DEFINE answered == Answered(t, responses)
<1>1. /\ UNCHANGED <<jobVars, create, status, result, error, cancel_requested,
                     action, seen>>
      /\ pc'[t] = pc[t] \/ (pc[t] = "blocked" /\ pc'[t] = "wait")
  BY DEF TasksUpdate, NotifyWorker, TypeOK
<1>2. \A k \in Keys : input_responses'[t][k] =
         IF k \in answered THEN responses[k] ELSE input_responses[t][k]
  BY DEF TasksUpdate, TypeOK
<1>3. \A k \in answered : k \in input_requests[t] /\ responses[k] # "null"
  BY InputsAssumption DEF Answered, Responses, AllAnswers
<1>4. input_requests'[t] = input_requests[t] \ answered
  BY DEF TasksUpdate, TypeOK
<1> HIDE DEF answered
<1>5. Progress(t)'
  BY <1>1 DEF TaskInv, Progress, Prompting, jobVars
<1>6. StatusFollowsWorker(t)' /\ FlagFollowsCancel(t)'
  BY <1>1 DEF TaskInv, StatusFollowsWorker, FlagFollowsCancel, Prompting,
     task_is_terminal
<1>7. PromptsAccounted(t)'
  <2>1. \A k \in Keys : input_responses'[t][k] # "null" => k \notin input_requests'[t]
    BY <1>2, <1>3, <1>4 DEF TaskInv, PromptsAccounted
  <2>2. pc'[t] \in {"none", "begin", "sleep"} =>
          /\ input_requests'[t] = {}
          /\ \A k \in Keys : input_responses'[t][k] = "null"
    BY <1>1, <1>2, <1>3, <1>4 DEF TaskInv, PromptsAccounted
  <2>3. pc'[t] \in Prompting => \A k \in Prompts(tool[t]) :
          k \in input_requests'[t] \/ input_responses'[t][k] # "null"
    <3>1. \A k \in Prompts(tool[t]) : k \in Keys
      BY DEF Prompts, Keys
    <3> QED
      BY <1>1, <1>2, <1>3, <1>4, <3>1 DEF TaskInv, PromptsAccounted, Prompting
  <2>4. pc'[t] \in {"resumed", "finish"} => input_requests'[t] = {}
    BY <1>1, <1>4 DEF TaskInv, PromptsAccounted
  <2>5. pc'[t] = "finish" /\ tool[t] = "confirm_delete" =>
           action[t] = input_responses'[t]["confirm"]
    BY <1>1, <1>2, <1>3 DEF TaskInv, PromptsAccounted, Keys
  <2> QED
    BY <1>1, <2>1, <2>2, <2>3, <2>4, <2>5 DEF PromptsAccounted, jobVars
<1>8. Outcomes(t)'
  BY <1>1, <1>2, <1>3 DEF TaskInv, PromptsAccounted, Outcomes, Keys
<1> QED
  BY <1>5, <1>6, <1>7, <1>8 DEF TaskInv

\* Nothing but a payload of the wrong type ends the process.
LEMMA TerminationStep ==
  ASSUME TypeOK, up, NEW t \in Ids, TaskInv(t),
         Creator(t) \/ Worker(t) \/ SpuriousWake(t) \/ Client(t)
  PROVE  OnlyPayloadsTerminate'
<1>1. CASE BadArguments(t)
  <2>1. tool'[t] \in ArgumentReaders /\ arguments'[t] = "ill-typed"
    BY <1>1 DEF BadArguments, TaskInv, Progress, jobVars
  <2> QED
    BY <2>1 DEF OnlyPayloadsTerminate
<1>2. CASE BadAnswer(t)
  <2>1. tool[t] = "confirm_delete" /\ input_responses[t]["confirm"] = "malformed"
    <3>1. input_responses[t]["confirm"] # "null"
      BY <1>2 DEF BadAnswer, AnswerThrows, TaskInv, PromptsAccounted, Prompting,
         Prompts
    <3> QED
      BY <1>2, <3>1 DEF BadAnswer, AnswerThrows
  <2>2. tool' = tool /\ input_responses' = input_responses
    BY <1>2 DEF BadAnswer, jobVars, recordVars
  <2> QED
    BY <2>1, <2>2 DEF OnlyPayloadsTerminate
<1>3. CASE ~BadArguments(t) /\ ~BadAnswer(t)
  <2>1. up' = up
    BY <1>3 DEF Creator, Worker, Client, InsertTask, SpawnWorker, SpawnFails,
       CreateReply, BeginSleep, SleepSlice, BeginPrompt, WaitForInputs,
       ReadAnswers, Finish, MarkCancelled, SpuriousWake, AllocateTask,
       TasksUpdate, TasksCancel, TasksGet
  <2> QED
    BY <2>1 DEF OnlyPayloadsTerminate
<1> QED
  BY <1>1, <1>2, <1>3

\* The steps of Next, and stuttering, keep the invariant.
LEMMA InvStep == IInv /\ [Next]_vars => IInv'
<1> SUFFICES ASSUME IInv, [Next]_vars
             PROVE  IInv'
  OBVIOUS
<1>1. TypeOK /\ TypeOK'
  BY TypeStep DEF IInv
<1>2. CASE up /\ \E t \in Ids : Creator(t) \/ Worker(t) \/ SpuriousWake(t) \/ Client(t)
  <2>1. PICK t \in Ids : Creator(t) \/ Worker(t) \/ SpuriousWake(t) \/ Client(t)
    BY <1>2
  <2>2. ASSUME NEW u \in Ids
        PROVE  TaskInv(u)'
    <3>1. TaskInv(u)
      BY DEF IInv
    <3>2. CASE u # t
      BY <1>1, <2>1, <3>1, <3>2, OtherTasks, KeptInv
    <3>3. CASE u = t
      <4>1. CASE Creator(t)
        BY <1>1, <3>1, <3>3, <4>1, CreatorKeepsTaskInv
      <4>2. CASE Worker(t) \/ SpuriousWake(t)
        BY <1>1, <3>1, <3>3, <4>2, WorkerKeepsTaskInv, FinishKeepsTaskInv
      <4>3. CASE Client(t)
        BY <1>1, <3>1, <3>3, <4>3, ClientKeepsTaskInv, AllocateKeepsTaskInv,
           UpdateKeepsTaskInv DEF Client
      <4> QED
        BY <2>1, <4>1, <4>2, <4>3
    <3> QED
      BY <3>2, <3>3
  <2>3. OnlyPayloadsTerminate'
    BY <1>1, <1>2, <2>1, TerminationStep DEF IInv
  <2> QED
    BY <1>1, <2>2, <2>3 DEF IInv
<1>3. CASE UNCHANGED vars
  <2>1. ASSUME NEW u \in Ids
        PROVE  TaskInv(u)'
    <3>1. TaskInv(u)
      BY DEF IInv
    <3> QED
      BY <1>3, <3>1 DEF vars, jobVars, recordVars, workerVars, TaskInv, Progress,
         StatusFollowsWorker, FlagFollowsCancel, PromptsAccounted, Outcomes
  <2>2. OnlyPayloadsTerminate'
    BY <1>3 DEF IInv, OnlyPayloadsTerminate, vars, jobVars, recordVars
  <2> QED
    BY <1>1, <2>1, <2>2 DEF IInv
<1> QED
  BY <1>2, <1>3 DEF Next, Terminated

\* The initial states satisfy the invariant.
LEMMA InitInv == Init => IInv
<1> SUFFICES ASSUME Init
             PROVE  IInv
  OBVIOUS
<1>1. TypeOK
  BY InitType
<1>2. ASSUME NEW u \in Ids
      PROVE  TaskInv(u)
  BY DEF Init, TaskInv, Progress, StatusFollowsWorker, FlagFollowsCancel,
     PromptsAccounted, Outcomes, Prompting
<1>3. OnlyPayloadsTerminate
  BY DEF Init, OnlyPayloadsTerminate
<1> QED
  BY <1>1, <1>2, <1>3 DEF IInv

\* The invariant holds in every interleaving of the handlers and the workers,
\* for any number of tasks and any answers.
THEOREM Invariance == Spec => []IInv
  BY InitInv, InvStep, PTL DEF Spec

-----------------------------------------------------------------------------
(* What follows from the invariant.                                        *)

\* A cancelled task never completes or fails (task_complete, task_fail,
\* wait_for_inputs).
THEOREM CancelledStaysOpen == Spec => []CancelledNeverSettles
<1>1. IInv => CancelledNeverSettles
  BY DEF IInv, TaskInv, FlagFollowsCancel, CancelledNeverSettles
<1> QED
  BY <1>1, Invariance, PTL

\* detailed_task_json never shows half of an outcome.
THEOREM OutcomesMatch == Spec => []OutcomeMatchesStatus
<1>1. IInv => OutcomeMatchesStatus
  BY DEF IInv, TaskInv, Outcomes, OutcomeMatchesStatus
<1> QED
  BY <1>1, Invariance, PTL

\* A completion or a failure that a client was told of is never taken back.
THEOREM ReportsAreFinal == Spec => []ReportedOutcomeIsFinal
<1>1. IInv => ReportedOutcomeIsFinal
  BY DEF IInv, TaskInv, Outcomes, ReportedOutcomeIsFinal
<1> QED
  BY <1>1, Invariance, PTL

\* run_task may read input_responses without the mutex.
THEOREM UnlockedRead == Spec => []UnlockedReadIsSafe
<1>1. IInv => UnlockedReadIsSafe
  BY DEF IInv, TaskInv, PromptsAccounted, Prompting, UnlockedReadIsSafe
<1> QED
  BY <1>1, Invariance, PTL

\* confirm_delete reports a deletion only if it was told to accept.
THEOREM DeletionsAreConfirmed == Spec => []DeletedOnlyIfAccepted
<1>1. IInv => DeletedOnlyIfAccepted
  BY DEF IInv, TaskInv, Outcomes, DeletedOnlyIfAccepted
<1> QED
  BY <1>1, Invariance, PTL

\* No interleaving of well-typed requests ends the process.
THEOREM Termination == Spec => []OnlyPayloadsTerminate
<1>1. IInv => OnlyPayloadsTerminate
  BY DEF IInv
<1> QED
  BY <1>1, Invariance, PTL

-----------------------------------------------------------------------------
(* The task store implements the lifecycle of TaskLifecycle, and keeps the  *)
(* first answer to a prompt.                                                *)

\* A function that differs from another at one point.
LEMMA ChangedAt ==
  ASSUME NEW f, NEW g, NEW v, NEW t \in Ids,
         f = [u \in Ids |-> f[u]], g = [u \in Ids |-> g[u]],
         g[t] = v, \A u \in Ids : u # t => g[u] = f[u]
  PROVE  g = [f EXCEPT ![t] = v]
OBVIOUS

\* What a task is to a client is unchanged, or is unchanged but for t.
SameTask(u) == StateOf(u)' = StateOf(u) /\ AsksOf(u)' = AsksOf(u)
               /\ PendingOf(u)' = PendingOf(u)

LEMMA AllSame ==
  ASSUME \A u \in Ids : SameTask(u)
  PROVE  UNCHANGED <<effectiveState, effectiveAsks, effectivePending>>
BY DEF SameTask, effectiveState, effectiveAsks, effectivePending

LEMMA OneChanged ==
  ASSUME NEW t \in Ids, \A u \in Ids : u # t => SameTask(u)
  PROVE  /\ effectiveState' = [effectiveState EXCEPT ![t] = StateOf(t)']
         /\ effectiveAsks' = [effectiveAsks EXCEPT ![t] = AsksOf(t)']
         /\ effectivePending' = [effectivePending EXCEPT ![t] = PendingOf(t)']
         /\ effectiveState[t] = StateOf(t)
         /\ effectiveAsks[t] = AsksOf(t)
         /\ effectivePending[t] = PendingOf(t)
         /\ AsksOf(t)' = AsksOf(t) => effectiveAsks' = effectiveAsks
         /\ PendingOf(t)' = PendingOf(t) => effectivePending' = effectivePending
BY ChangedAt DEF SameTask, effectiveState, effectiveAsks, effectivePending

\* Which of the lifecycle's variables a step of another task's handler keeps.
LEMMA OthersSame ==
  ASSUME TypeOK, NEW t \in Ids, NEW u \in Ids, u # t,
         Creator(t) \/ Worker(t) \/ SpuriousWake(t) \/ Client(t)
  PROVE  SameTask(u)
<1>1. Kept(u)
  BY OtherTasks
<1> QED
  BY <1>1 DEF Kept, SameTask, StateOf, AsksOf, PendingOf, g_tasks

-----------------------------------------------------------------------------
(* Each step of the store is one of the lifecycle, or changes nothing there. *)

StutterOrStep == \/ Lifecycle!Next
                 \/ UNCHANGED <<effectiveState, effectiveAsks, effectivePending>>

\* The steps that leave what a task is to a client as it is.
LEMMA QuietSteps ==
  ASSUME TypeOK, NEW t \in Ids, TaskInv(t),
         \/ SpawnWorker(t) \/ SpawnFails(t) \/ CreateReply(t) \/ BeginSleep(t)
         \/ SleepSlice(t) \/ BadArguments(t) \/ WaitForInputs(t) \/ ReadAnswers(t)
         \/ BadAnswer(t) \/ SpuriousWake(t) \/ MarkCancelled(t) \/ TasksGet(t)
  PROVE  SameTask(t)
<1>1. CASE MarkCancelled(t)
  <2>1. cancel_requested[t] /\ status[t] \in {"input_required", "cancelled"}
    BY <1>1 DEF MarkCancelled, TaskInv, StatusFollowsWorker, FlagFollowsCancel
  <2>2. /\ UNCHANGED <<create, tool, cancel_requested, input_requests>>
        /\ status'[t] = "cancelled"
    BY <1>1, Domains DEF MarkCancelled, jobVars
  <2> QED
    BY <2>1, <2>2 DEF SameTask, StateOf, AsksOf, PendingOf, g_tasks
<1>2. CASE SpawnWorker(t) \/ SpawnFails(t) \/ CreateReply(t)
  <2>1. (t \in g_tasks) /\ (t \in g_tasks)'
    BY <1>2, Domains DEF SpawnWorker, SpawnFails, CreateReply, g_tasks
  <2>2. UNCHANGED <<tool, status, cancel_requested, input_requests>>
    BY <1>2 DEF SpawnWorker, SpawnFails, CreateReply, jobVars, recordVars
  <2> QED
    BY <2>1, <2>2 DEF SameTask, StateOf, AsksOf, PendingOf
<1>3. CASE BeginSleep(t) \/ SleepSlice(t) \/ BadArguments(t) \/ WaitForInputs(t)
           \/ ReadAnswers(t) \/ BadAnswer(t) \/ SpuriousWake(t) \/ TasksGet(t)
  <2>1. UNCHANGED <<create, tool, status, cancel_requested, input_requests>>
    BY <1>3 DEF BeginSleep, SleepSlice, BadArguments, WaitForInputs, ReadAnswers,
       BadAnswer, SpuriousWake, TasksGet, jobVars, recordVars
  <2> QED
    BY <2>1 DEF SameTask, StateOf, AsksOf, PendingOf, g_tasks
<1> QED
  BY <1>1, <1>2, <1>3

\* A task a client can know of has been created, and a cancelled one too.
LEMMA Known ==
  ASSUME TypeOK, NEW t \in Ids, TaskInv(t)
  PROVE  /\ pc[t] # "none" => t \in g_tasks
         /\ t \notin g_tasks => /\ ~cancel_requested[t] /\ status[t] = "working"
                                /\ pc[t] = "none" /\ input_requests[t] = {}
<1>1. t \notin g_tasks => pc[t] = "none" /\ ~cancel_requested[t]
  BY DEF g_tasks, TaskInv, Progress
<1> QED
  BY <1>1 DEF TaskInv, StatusFollowsWorker, FlagFollowsCancel, PromptsAccounted

LEMMA AllocateRefines ==
  ASSUME TypeOK, NEW t \in Ids, TaskInv(t), NEW tl \in Tools,
         NEW args \in {"ok", "ill-typed"}, AllocateTask(t, tl, args)
  PROVE  SameTask(t)
<1>1. t \notin g_tasks /\ (t \notin g_tasks)'
  <2>1. t > g_task_seq
    <3>1. g_task_seq \in 0..MaxTasks /\ t = g_task_seq + 1
      BY DEF AllocateTask, TypeOK
    <3> QED
      BY <3>1, BoundsAssumption
  <2>2. create[t] = "idle"
    BY <2>1 DEF TaskInv, Progress
  <2>3. create'[t] = "allocated"
    BY DEF AllocateTask, TypeOK
  <2> QED
    BY <2>2, <2>3 DEF g_tasks
<1>2. UNCHANGED <<cancel_requested, input_requests>>
  BY DEF AllocateTask, recordVars
<1> QED
  BY <1>1, <1>2 DEF SameTask, StateOf, AsksOf, PendingOf

LEMMA InsertRefines ==
  ASSUME TypeOK, NEW t \in Ids, TaskInv(t), InsertTask(t),
         \A u \in Ids : u # t => SameTask(u)
  PROVE  Lifecycle!Create(t)
<1>1. t \notin g_tasks /\ (t \in g_tasks)'
  BY DEF InsertTask, g_tasks, TypeOK
<1>2. UNCHANGED <<tool, status, cancel_requested, input_requests>>
  BY DEF InsertTask, jobVars, recordVars
<1>3. /\ StateOf(t) = "absent" /\ StateOf(t)' = "working"
      /\ AsksOf(t)' \in BOOLEAN /\ PendingOf(t)' = PendingOf(t)
  BY <1>1, <1>2, Known DEF StateOf, AsksOf, PendingOf
<1> QED
  BY <1>3, OneChanged DEF Lifecycle!Create

LEMMA PromptRefines ==
  ASSUME TypeOK, NEW t \in Ids, TaskInv(t), BeginPrompt(t),
         \A u \in Ids : u # t => SameTask(u)
  PROVE  SameTask(t) \/ \E prompts \in SUBSET Keys : Lifecycle!Ask(t, prompts)
<1>1. t \in g_tasks /\ tool[t] \in PromptTools
  BY Known DEF BeginPrompt
<1>2. /\ UNCHANGED <<create, tool, cancel_requested>>
      /\ status'[t] = "input_required" /\ input_requests'[t] = Prompts(tool[t])
  BY DEF BeginPrompt, TypeOK, jobVars
<1>3. CASE cancel_requested[t]
  <2>1. status[t] = "cancelled"
    BY <1>3 DEF BeginPrompt, TaskInv, FlagFollowsCancel
  <2> QED
    BY <1>1, <1>2, <1>3, <2>1 DEF SameTask, StateOf, AsksOf, PendingOf, g_tasks
<1>4. CASE ~cancel_requested[t]
  <2>1. status[t] = "working"
    BY <1>4 DEF BeginPrompt, TaskInv, StatusFollowsWorker, FlagFollowsCancel
  <2>2. Prompts(tool[t]) \in SUBSET Keys /\ Prompts(tool[t]) # {}
    BY DEF Prompts, Keys
  <2>3. /\ StateOf(t) = "working" /\ StateOf(t)' = "input_required"
        /\ AsksOf(t) = TRUE /\ AsksOf(t)' = AsksOf(t)
        /\ PendingOf(t)' = Prompts(tool[t])
    BY <1>1, <1>2, <1>4, <2>1 DEF StateOf, AsksOf, PendingOf, g_tasks
  <2>4. Lifecycle!Ask(t, Prompts(tool[t]))
    BY <2>2, <2>3, OneChanged DEF Lifecycle!Ask
  <2> QED
    BY <2>2, <2>4
<1> QED
  BY <1>3, <1>4

LEMMA FinishRefines ==
  ASSUME TypeOK, NEW t \in Ids, TaskInv(t), Finish(t),
         \A u \in Ids : u # t => SameTask(u)
  PROVE  SameTask(t) \/ \E f \in {"completed", "failed"} : Lifecycle!Settle(t, f)
<1>1. /\ UNCHANGED <<create, tool>> /\ pc[t] \in {"finish", "sleep"}
      /\ t \in g_tasks
  BY Known DEF Finish, jobVars
<1>2. CASE status[t] = "cancelled"
  BY <1>1, <1>2, FinishCancelled DEF recordVars, SameTask, StateOf, AsksOf,
     PendingOf, g_tasks
<1>3. CASE status[t] # "cancelled"
  <2>1. PICK f \in {"completed", "failed"}, r \in Results \cup {"null"},
             e \in {"null", "internal failure"} :
          SettledAs(t, f, r, e)
    BY <1>3, FinishEffect
  <2>2. ~cancel_requested[t] /\ input_requests[t] = {}
    BY <1>1, <1>3 DEF TaskInv, FlagFollowsCancel, PromptsAccounted
  <2>3. \/ status[t] = "working" /\ tool[t] \notin PromptTools
        \/ status[t] = "input_required"
    <3>1. SleepTools \cap PromptTools = {}
      BY DEF SleepTools, PromptTools
    <3> QED
      BY <1>1, <1>3, <3>1 DEF TaskInv, Progress, StatusFollowsWorker, Prompting
  <2>4. status'[t] = f /\ input_requests'[t] = {} /\ ~cancel_requested'[t]
    BY <2>1, <2>2, Domains DEF SettledAs
  <2>5. t \in g_tasks /\ (t \in g_tasks)'
    BY <1>1 DEF g_tasks
  <2>6. /\ StateOf(t) = status[t] /\ StateOf(t)' = f
        /\ tool[t] \notin PromptTools => ~AsksOf(t)
        /\ AsksOf(t)' = AsksOf(t)
        /\ PendingOf(t) = {} /\ PendingOf(t)' = {}
    BY <1>1, <2>2, <2>4, <2>5 DEF StateOf, AsksOf, PendingOf
  <2>7. Lifecycle!Settle(t, f)
    BY <2>3, <2>6, OneChanged DEF Lifecycle!Settle, Lifecycle!CanSettle
  <2> QED
    BY <2>7
<1> QED
  BY <1>2, <1>3

LEMMA UpdateRefines ==
  ASSUME TypeOK, NEW t \in Ids, TaskInv(t), NEW responses \in Responses,
         TasksUpdate(t, responses), \A u \in Ids : u # t => SameTask(u)
  PROVE  SameTask(t) \/ \E prompts \in SUBSET Keys : Lifecycle!Answer(t, prompts)
<1> DEFINE answered == Answered(t, responses)
<1>1. /\ t \in g_tasks /\ UNCHANGED <<create, tool, status, cancel_requested>>
      /\ input_requests'[t] = input_requests[t] \ answered
      /\ status[t] \in {"working", "input_required", "cancelled"}
      /\ status[t] # "cancelled"
  BY TaskTypes DEF TasksUpdate, TypeOK, jobVars, task_is_terminal, Statuses
<1>2. answered \in SUBSET Keys
  BY TaskTypes DEF Answered
<1> HIDE DEF answered
<1>3. CASE cancel_requested[t]
  BY <1>1, <1>3 DEF SameTask, StateOf, AsksOf, PendingOf, g_tasks
<1>4. CASE ~cancel_requested[t] /\ status[t] = "working"
  <2>1. input_requests[t] = {}
    BY <1>4, TaskTypes DEF TaskInv, StatusFollowsWorker, PromptsAccounted, Prompting,
       task_is_terminal, TypeOK
  <2> QED
    BY <1>1, <2>1 DEF SameTask, StateOf, AsksOf, PendingOf, g_tasks
<1>5. CASE ~cancel_requested[t] /\ status[t] = "input_required"
  <2>1. /\ StateOf(t) = "input_required" /\ StateOf(t)' = StateOf(t)
        /\ AsksOf(t)' = AsksOf(t) /\ PendingOf(t)' = PendingOf(t) \ answered
    BY <1>1, <1>5 DEF StateOf, AsksOf, PendingOf, g_tasks
  <2>2. effectiveState' = effectiveState
    BY <2>1, \A u \in Ids : u # t => SameTask(u) DEF SameTask, effectiveState
  <2>3. Lifecycle!Answer(t, answered)
    BY <2>1, <2>2, OneChanged DEF Lifecycle!Answer
  <2> QED
    BY <1>2, <2>3
<1> QED
  BY <1>1, <1>3, <1>4, <1>5

LEMMA CancelRefines ==
  ASSUME TypeOK, NEW t \in Ids, TaskInv(t), TasksCancel(t),
         \A u \in Ids : u # t => SameTask(u)
  PROVE  SameTask(t) \/ Lifecycle!Cancel(t)
<1>1. /\ t \in g_tasks /\ UNCHANGED <<create, tool, input_requests>>
      /\ status[t] \in {"working", "input_required"}
      /\ cancel_requested'[t] = TRUE /\ status'[t] = "cancelled"
  BY TaskTypes, Domains DEF TasksCancel, jobVars, task_is_terminal, Statuses
<1>2. CASE cancel_requested[t]
  <2>1. status[t] = "input_required"
    BY <1>1, <1>2 DEF TaskInv, FlagFollowsCancel
  <2> QED
    BY <1>1, <1>2, <2>1 DEF SameTask, StateOf, AsksOf, PendingOf, g_tasks
<1>3. CASE ~cancel_requested[t]
  <2>1. /\ StateOf(t) \in {"working", "input_required"}
        /\ StateOf(t)' = "cancelled" /\ AsksOf(t)' = AsksOf(t)
        /\ PendingOf(t)' = {}
    BY <1>1, <1>3 DEF StateOf, AsksOf, PendingOf, g_tasks
  <2> QED
    BY <2>1, OneChanged DEF Lifecycle!Cancel
<1> QED
  BY <1>2, <1>3

\* A step of the store is a step of the lifecycle or changes nothing there.
LEMMA StepRefines ==
  IInv /\ [Next]_vars => [Lifecycle!Next]_(Lifecycle!lifecycleVars)
<1> SUFFICES ASSUME IInv, [Next]_vars
             PROVE  StutterOrStep
  BY DEF StutterOrStep, Lifecycle!lifecycleVars
<1>1. CASE up /\ \E t \in Ids : Creator(t) \/ Worker(t) \/ SpuriousWake(t) \/ Client(t)
  <2>1. PICK t \in Ids : Creator(t) \/ Worker(t) \/ SpuriousWake(t) \/ Client(t)
    BY <1>1
  <2>2. TypeOK /\ TaskInv(t)
    BY DEF IInv
  <2>3. \A u \in Ids : u # t => SameTask(u)
    BY <2>1, <2>2, OthersSame
  <2>4. SameTask(t) => StutterOrStep
    BY <2>3, AllSame DEF StutterOrStep
  <2>5. CASE Creator(t)
    BY <2>2, <2>3, <2>4, <2>5, QuietSteps, InsertRefines
    DEF Creator, StutterOrStep, Lifecycle!Next
  <2>6. CASE Worker(t) \/ SpuriousWake(t)
    <3>1. CASE BeginPrompt(t)
      BY <2>2, <2>3, <2>4, <3>1, PromptRefines DEF StutterOrStep, Lifecycle!Next
    <3>2. CASE Finish(t)
      BY <2>2, <2>3, <2>4, <3>2, FinishRefines DEF StutterOrStep, Lifecycle!Next
    <3> QED
      BY <2>2, <2>4, <2>6, <3>1, <3>2, QuietSteps DEF Worker
  <2>7. CASE Client(t)
    <3>1. ASSUME NEW responses \in Responses, TasksUpdate(t, responses)
          PROVE  StutterOrStep
      BY <2>2, <2>3, <2>4, <3>1, UpdateRefines DEF StutterOrStep, Lifecycle!Next
    <3>2. CASE TasksCancel(t)
      BY <2>2, <2>3, <2>4, <3>2, CancelRefines DEF StutterOrStep, Lifecycle!Next
    <3> QED
      BY <2>2, <2>4, <2>7, <3>1, <3>2, QuietSteps, AllocateRefines DEF Client
  <2> QED
    BY <2>1, <2>5, <2>6, <2>7
<1>2. CASE UNCHANGED vars
  <2>1. \A u \in Ids : SameTask(u)
    BY <1>2 DEF vars, jobVars, recordVars, SameTask, StateOf, AsksOf, PendingOf,
       g_tasks
  <2> QED
    BY <2>1, AllSame DEF StutterOrStep
<1> QED
  BY <1>1, <1>2 DEF Next, Terminated

LEMMA InitRefines == Init => Lifecycle!Init
<1> SUFFICES ASSUME Init
             PROVE  Lifecycle!Init
  OBVIOUS
<1>1. ASSUME NEW t \in Ids
      PROVE  StateOf(t) = "absent" /\ AsksOf(t) = FALSE /\ PendingOf(t) = {}
  BY DEF Init, StateOf, AsksOf, PendingOf, g_tasks
<1> QED
  BY <1>1 DEF Lifecycle!Init, effectiveState, effectiveAsks, effectivePending

\* Whatever the interleaving of the workers and the handlers, a client sees a
\* lifecycle: no prompt is skipped, no settled or cancelled task revived.
THEOREM Refinement == Spec => ImplementsLifecycle
BY StepRefines, InitRefines, Invariance, PTL
DEF Spec, ImplementsLifecycle, Lifecycle!Spec

-----------------------------------------------------------------------------
(* The first answer to a prompt stands.                                     *)

AnswersStand == \A t \in Ids, k \in Keys :
                  /\ input_responses[t][k] # "null"
                       => input_responses'[t][k] = input_responses[t][k]
                  /\ input_responses'[t][k] # input_responses[t][k]
                       => k \in input_requests[t]

LEMMA AnswersStep == IInv /\ [Next]_vars => AnswersStand
<1> SUFFICES ASSUME IInv, [Next]_vars
             PROVE  AnswersStand
  OBVIOUS
<1>1. CASE input_responses' = input_responses
  BY <1>1 DEF AnswersStand
<1>2. CASE \E t \in Ids, responses \in Responses : TasksUpdate(t, responses)
  <2>1. PICK t \in Ids, responses \in Responses : TasksUpdate(t, responses)
    BY <1>2
  <2>2. TypeOK /\ TaskInv(t)
    BY DEF IInv
  <2>3. \A u \in Ids : u # t => input_responses'[u] = input_responses[u]
    BY <2>1, <2>2 DEF TasksUpdate, TypeOK
  <2>4. \A k \in Keys : input_responses'[t][k] =
           IF k \in Answered(t, responses) THEN responses[k] ELSE input_responses[t][k]
    BY <2>1, <2>2 DEF TasksUpdate, TypeOK
  <2>5. \A k \in Answered(t, responses) : k \in input_requests[t]
    BY DEF Answered
  <2>6. \A k \in Keys : input_responses[t][k] # "null" => k \notin input_requests[t]
    BY <2>2 DEF TaskInv, PromptsAccounted
  <2> QED
    BY <2>3, <2>4, <2>5, <2>6 DEF AnswersStand
<1>3. ASSUME NEW t \in Ids, Creator(t) \/ Worker(t) \/ SpuriousWake(t)
      PROVE  input_responses' = input_responses
  <2>1. CASE Creator(t)
    BY <2>1 DEF Creator, InsertTask, SpawnWorker, SpawnFails, CreateReply, recordVars
  <2>2. CASE Finish(t)
    BY <2>2 DEF Finish, Settle, recordVars
  <2>3. CASE (Worker(t) /\ ~Finish(t)) \/ SpuriousWake(t)
    BY <2>3 DEF Worker, BeginSleep, SleepSlice, BeginPrompt, BadArguments,
       WaitForInputs, ReadAnswers, BadAnswer, MarkCancelled, SpuriousWake, recordVars
  <2> QED
    BY <1>3, <2>1, <2>2, <2>3
<1>4. ASSUME NEW t \in Ids, Client(t), input_responses' # input_responses
      PROVE  \E responses \in Responses : TasksUpdate(t, responses)
  BY <1>4 DEF Client, AllocateTask, TasksCancel, TasksGet, recordVars
<1>5. UNCHANGED vars => input_responses' = input_responses
  BY DEF vars, recordVars
<1> QED
  BY <1>1, <1>2, <1>3, <1>4, <1>5 DEF Next, Terminated

\* tasks/update never overwrites an answer, nor stores one that no prompt asks.
THEOREM FirstAnswer == Spec => FirstAnswerStands
<1>1. IInv /\ [Next]_vars => [AnswersStand]_vars
  BY AnswersStep
<1> QED
  BY <1>1, Invariance, PTL DEF Spec, FirstAnswerStands, AnswersStand
=============================================================================
