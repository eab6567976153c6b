--------------------------- MODULE TaskLifecycle ---------------------------
(***************************************************************************)
(* What a task of the everything server is to a client, without threads,   *)
(* locks or flags: it is created working; a task that needs input asks for *)
(* it, and completes only when every prompt is answered; a live task can   *)
(* be cancelled at any time; completed, failed and cancelled are final.    *)
(***************************************************************************)
CONSTANTS Ids, PromptNames   \* the tasks, and the prompts a task may ask

VARIABLES state,   \* the status of each task, "absent" before it is created
          asks,    \* whether the task cannot complete without asking
          pending  \* the prompts asked and not yet answered

lifecycleVars == <<state, asks, pending>>

Init == /\ state = [t \in Ids |-> "absent"]
        /\ asks = [t \in Ids |-> FALSE]
        /\ pending = [t \in Ids |-> {}]

Create(t) == /\ state[t] = "absent"
             /\ state' = [state EXCEPT ![t] = "working"]
             /\ \E b \in BOOLEAN : asks' = [asks EXCEPT ![t] = b]
             /\ UNCHANGED pending

Ask(t, prompts) == /\ state[t] = "working" /\ asks[t] /\ prompts # {}
                   /\ state' = [state EXCEPT ![t] = "input_required"]
                   /\ pending' = [pending EXCEPT ![t] = prompts]
                   /\ UNCHANGED asks

Answer(t, prompts) == /\ state[t] = "input_required"
                      /\ pending' = [pending EXCEPT ![t] = @ \ prompts]
                      /\ UNCHANGED <<state, asks>>

CanSettle(t) == \/ state[t] = "working" /\ ~asks[t]
                \/ state[t] = "input_required" /\ pending[t] = {}

Settle(t, final) == /\ CanSettle(t)
                    /\ state' = [state EXCEPT ![t] = final]
                    /\ UNCHANGED <<asks, pending>>

Cancel(t) == /\ state[t] \in {"working", "input_required"}
             /\ state' = [state EXCEPT ![t] = "cancelled"]
             /\ pending' = [pending EXCEPT ![t] = {}]
             /\ UNCHANGED asks

Next == \E t \in Ids :
          \/ Create(t)
          \/ \E prompts \in SUBSET PromptNames : Ask(t, prompts) \/ Answer(t, prompts)
          \/ \E final \in {"completed", "failed"} : Settle(t, final)
          \/ Cancel(t)

Spec == Init /\ [][Next]_lifecycleVars
=============================================================================
