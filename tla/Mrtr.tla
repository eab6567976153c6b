------------------------------- MODULE Mrtr -------------------------------
(***************************************************************************)
(* Multi-round tool calls of the everything server                         *)
(* (handle_raw_request in                                                  *)
(* validation/conformance/conformance_everything_server.cpp).  A tool that *)
(* needs input replies "input_required" with its prompts and, for some     *)
(* tools, a signed requestState; the client calls the tool again with      *)
(* inputResponses and the state echoed.  The server keeps nothing between  *)
(* the rounds, so the only memory of a conversation is what a client sends *)
(* back: each handler is an operator on the request.                       *)
(*                                                                         *)
(* Tools are named by the last part of their names                         *)
(* (test_input_required_result_multi_round is "multi_round").              *)
(***************************************************************************)
EXTENDS FiniteSets

CONSTANTS Calls,       \* the tools (and the prompt) the client calls
          AnswerKinds  \* the answers a client can give to a prompt

StateTools == {"request_state", "multiple_inputs", "tampered_state"}
RequiredTaskTools == {"with_task", "failing_job"}
OptionalTaskTools == {"slow_compute", "confirm_delete", "multi_input",
                      "protocol_error_job"}

\* The prompts a call may ask, and the method of each.
PromptsOf(tool) ==
  CASE tool \in {"elicitation", "with_task"}       -> {"user_name"}
    [] tool = "sampling"                           -> {"capital_question"}
    [] tool = "list_roots"                         -> {"client_roots"}
    [] tool \in {"request_state", "tampered_state"} -> {"confirm"}
    [] tool = "multiple_inputs" -> {"user_name", "greeting", "client_roots"}
    [] tool = "multi_round"     -> {"step1", "step2"}
    [] tool = "capabilities"    -> {"capital_question", "user_name"}
    [] tool = "prompt"          -> {"user_context"}
    [] OTHER                    -> {}

AllCalls == StateTools \cup RequiredTaskTools \cup OptionalTaskTools \cup
  {"elicitation", "sampling", "list_roots", "multi_round", "capabilities",
   "prompt", "missing_capability", "streaming_elicitation"}
Elicitations == {"user_name", "confirm", "step1", "step2", "user_context"}

\* "scalar" is a JSON value that is no object; "odd" an object with a member of
\* a type the typed accessors throw on.
AllAnswerKinds == {"accept", "decline", "scalar", "odd"}

ASSUME CallsAssumption == Calls \subseteq AllCalls /\ AnswerKinds \subseteq AllAnswerKinds

Capabilities == {"sampling", "elicitation", "tasks"}

\* What the server signs. A requestState is "", one of these under a valid
\* signature, or "forged": anything else.
Data == {"round1", "round2", "multi", "tampered-test", "with-task"}

RequestStates == Data \cup {"", "forged"}

VARIABLES declared,  \* the capabilities in the _meta of the client's calls
          held,      \* the signed states the client has received
          last,      \* the last request and the server's reply to it
          lost       \* whether that reply was lost on its way
vars == <<declared, held, last, lost>>

-----------------------------------------------------------------------------
(* The replies.                                                            *)

Reply(kind) == [kind |-> kind, prompts |-> {}, token |-> ""]
Ask(prompts, token) == [kind |-> "ask", prompts |-> prompts, token |-> token]
Complete == Reply("complete")
InvalidParams == Reply("InvalidParams")
MissingCapability == Reply("MissingCapability")
TaskStarted == Reply("task")
\* An accessor throws; the raw handler has no try block.
Throws == Reply("throws")
\* No raw handler answers: the registry's synchronous handler does.
NotHandled == Reply("not handled")

\* Mutants of verify_state: the signature is not compared; no signature is
\* ever accepted.
verify_state_unsigned(s) == s # ""
verify_state_never(s) == FALSE

\* The signature is a hash with a constant secret, so the server recognises
\* what it signed, and nothing else, without storing it.
verify_state(s) == s \in Data

\* get_input_response: the answer is there and is an object.
IsObject(q, k) == k \in DOMAIN q.answers /\ q.answers[k] # "scalar"

Objects(q, prompts) == \A k \in prompts : IsObject(q, k)

-----------------------------------------------------------------------------
(* The handlers.                                                           *)

\* A1 and the prompt: only an accepted elicitation completes the call.
AcceptedElicitation(q, prompt) ==
  IF ~IsObject(q, prompt) THEN Ask({prompt}, "")
  ELSE CASE q.answers[prompt] = "odd"    -> Throws
         [] q.answers[prompt] = "accept" -> Complete
         [] OTHER                        -> Ask({prompt}, "")

\* A2, A3: any object completes the call; what is read of it may throw.
AnyObject(q, prompt) ==
  IF ~IsObject(q, prompt) THEN Ask({prompt}, "")
  ELSE IF q.answers[prompt] = "odd" THEN Throws ELSE Complete

\* A4, A5, A12: all answers and a state; the state must carry the server's
\* signature, but may be of any tool and round.
WithState(q, token) ==
  IF ~Objects(q, PromptsOf(q.tool)) \/ q.state = "" THEN Ask(PromptsOf(q.tool), token)
  ELSE IF verify_state(q.state) THEN Complete ELSE InvalidParams

\* Mutant of TokenOf: the data is handed out without its signature.
TokenOf_unsigned(tool) == "forged"

TokenOf(tool) == CASE tool = "request_state"   -> "round1"
                   [] tool = "multiple_inputs" -> "multi"
                   [] tool = "tampered_state"  -> "tampered-test"

\* Mutant of MultiRound: the second round is not told from the last.
MultiRound_skipsRound(q) ==
  IF ~verify_state(q.state) THEN Ask({"step1"}, "round1")
  ELSE IF q.state \in {"round1", "round2"} THEN Complete ELSE InvalidParams

\* A6: the state alone says which round it is; the answers are not looked at.
MultiRound(q) ==
  IF ~verify_state(q.state) THEN Ask({"step1"}, "round1")
  ELSE CASE q.state = "round1" -> Ask({"step2"}, "round2")
         [] q.state = "round2" -> Complete
         [] OTHER              -> InvalidParams

\* A13: asks, whatever was answered; the elicitation only if it was declared.
CapabilityCheck == Ask({"capital_question"} \cup
                       IF "elicitation" \in declared THEN {"user_name"} ELSE {}, "")

\* Diagnostic fixtures that want one client capability.
Gated(capability) == IF capability \in declared THEN Complete ELSE MissingCapability

\* taskSupport=required. The first round of with_task comes before the
\* extension is looked at; its requestState is never verified.
RequiredTask(q) ==
  IF q.tool = "with_task" /\ ~q.given THEN Ask({"user_name"}, "with-task")
  ELSE IF "tasks" \notin declared THEN MissingCapability
  ELSE IF q.tool = "with_task" /\ IsObject(q, "user_name")
          /\ q.answers["user_name"] = "odd" THEN Throws
  ELSE TaskStarted

\* taskSupport=optional.
OptionalTask == IF "tasks" \in declared THEN TaskStarted ELSE NotHandled

handle_raw_request(q) ==
  CASE q.tool = "elicitation"            -> AcceptedElicitation(q, "user_name")
    [] q.tool = "prompt"                 -> AcceptedElicitation(q, "user_context")
    [] q.tool = "sampling"               -> AnyObject(q, "capital_question")
    [] q.tool = "list_roots"             -> AnyObject(q, "client_roots")
    [] q.tool \in StateTools             -> WithState(q, TokenOf(q.tool))
    [] q.tool = "multi_round"            -> MultiRound(q)
    [] q.tool = "capabilities"           -> CapabilityCheck
    [] q.tool = "missing_capability"     -> Gated("sampling")
    [] q.tool = "streaming_elicitation"  -> Gated("elicitation")
    [] q.tool \in RequiredTaskTools      -> RequiredTask(q)
    [] q.tool \in OptionalTaskTools      -> OptionalTask

-----------------------------------------------------------------------------
(* The client.                                                             *)

NoAnswers == [k \in {} |-> "accept"]
FirstCall(tool) == [tool |-> tool, given |-> FALSE, state |-> "", answers |-> NoAnswers]

ReplyKinds == {"none", "ask", "complete", "InvalidParams", "MissingCapability",
               "task", "throws", "not handled"}

TypeOK == /\ declared \in SUBSET Capabilities
          /\ held \in SUBSET Data
          /\ last.request.tool \in AllCalls
          /\ last.request.given \in BOOLEAN
          /\ last.request.state \in RequestStates
          /\ DOMAIN last.request.answers \subseteq PromptsOf(last.request.tool)
          /\ \A k \in DOMAIN last.request.answers :
               last.request.answers[k] \in AllAnswerKinds
          /\ last.reply.kind \in ReplyKinds
          /\ last.reply.prompts \in SUBSET PromptsOf(last.request.tool)
          /\ last.reply.token \in Data \cup {""}
          /\ lost \in BOOLEAN

Init == /\ declared \in SUBSET Capabilities
        /\ held = {}
        /\ \E tool \in Calls :
             last = [request |-> FirstCall(tool), reply |-> Reply("none")]
        /\ lost = FALSE

\* The server answers a request, and the answer reaches the client or not.
Exchange(q, isLost) ==
  /\ last' = [request |-> q, reply |-> handle_raw_request(q)]
  /\ lost' = isLost
  /\ held' = IF isLost THEN held ELSE held \cup ({last'.reply.token} \ {""})
  /\ UNCHANGED declared

Answerable == last.reply.prompts \subseteq Elicitations
InConversation == ~lost /\ last.reply.kind = "ask" /\ Answerable

Start(isLost) ==
  /\ ~lost /\ ~InConversation
  /\ \E tool \in Calls : Exchange(FirstCall(tool), isLost)

\* make_mrtr_input_responses accepts every elicitation and answers nothing
\* else; run_mrtr_client echoes the requestState it was given.
FollowUpRequest ==
  [tool |-> last.request.tool, given |-> TRUE, state |-> last.reply.token,
   answers |-> [k \in last.reply.prompts \cap Elicitations |-> "accept"]]

FollowUp(isLost) == /\ ~lost /\ last.reply.kind = "ask"
                    /\ Exchange(FollowUpRequest, isLost)

\* A client that got no reply sends the request again.
Retry(isLost) == lost /\ Exchange(last.request, isLost)

\* A client that keeps to no round: answers of some kind to any of the prompts,
\* and any state it holds, none, or one the server did not sign.
Deviate(tool, K, kind, s) ==
  /\ ~lost
  /\ K \subseteq PromptsOf(tool)
  /\ s = "" \/ tool \in StateTools \cup {"multi_round"}
  /\ Exchange([tool |-> tool, given |-> TRUE, state |-> s,
               answers |-> [k \in K |-> kind]], FALSE)

ByTheBook == \E isLost \in BOOLEAN : Start(isLost) \/ FollowUp(isLost) \/ Retry(isLost)

Next == \/ ByTheBook
        \/ \E tool \in Calls, kind \in AnswerKinds, s \in held \cup {"", "forged"} :
             \E K \in SUBSET PromptsOf(tool) : Deviate(tool, K, kind, s)

Spec == Init /\ [][Next]_vars

\* A client that keeps at a conversation, over a network that does not lose
\* every reply.
BookSpec == Init /\ [][ByTheBook]_vars /\ WF_vars(FollowUp(FALSE) \/ Retry(FALSE))
=============================================================================
