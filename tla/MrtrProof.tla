----------------------------- MODULE MrtrProof -----------------------------
(***************************************************************************)
(* Forgetting is safe: for every set of calls and answers, a conversation  *)
(* completes only with states the server signed, in the order it handed    *)
(* them out.                                                               *)
(***************************************************************************)
EXTENDS MrtrProperties, TLAPS

\* What the handlers reply: only the prompts of the tool, which completion needs
\* which state, and which request is answered with "round2".
LEMMA RepliesToStates ==
  ASSUME NEW q, q.tool \in AllCalls
  PROVE  LET r == handle_raw_request(q) IN
           /\ r.token \in Data \cup {""}
           /\ r.kind = "complete" => r.token = ""
           /\ r.kind = "complete" /\ q.tool = "multi_round" => q.state = "round2"
           /\ r.kind = "complete" /\ q.tool \in StateTools => q.state \in Data
           /\ r.token = "round2" => q.state = "round1"
           /\ q.tool = "multi_round" => r.token \in {"", "round1", "round2"}
           /\ r.kind \in ReplyKinds /\ r.prompts \in SUBSET PromptsOf(q.tool)
<1> USE DEF StateTools, RequiredTaskTools, OptionalTaskTools
<1> DEFINE r == handle_raw_request(q)
<1>a. SUFFICES /\ r.token \in Data \cup {""}
               /\ r.kind = "complete" => r.token = ""
               /\ r.kind = "complete" /\ q.tool = "multi_round" => q.state = "round2"
               /\ r.kind = "complete" /\ q.tool \in StateTools => q.state \in Data
               /\ r.token = "round2" => q.state = "round1"
               /\ q.tool = "multi_round" => r.token \in {"", "round1", "round2"}
               /\ r.kind \in ReplyKinds /\ r.prompts \in SUBSET PromptsOf(q.tool)
  OBVIOUS
<1>1. CASE q.tool = "elicitation"
  <2>1. r = AcceptedElicitation(q, "user_name")
    BY <1>1 DEF handle_raw_request
  <2> HIDE DEF r
  <2> QED
    BY <1>1, <2>1 DEF AcceptedElicitation, Reply, Ask, Complete,
                    InvalidParams, MissingCapability, Throws, Data,
                    PromptsOf, ReplyKinds
<1>2. CASE q.tool = "prompt"
  <2>1. r = AcceptedElicitation(q, "user_context")
    BY <1>2 DEF handle_raw_request
  <2> HIDE DEF r
  <2> QED
    BY <1>2, <2>1 DEF AcceptedElicitation, Reply, Ask, Complete,
                    InvalidParams, MissingCapability, Throws, Data,
                    PromptsOf, ReplyKinds
<1>3. CASE q.tool = "sampling"
  <2>1. r = AnyObject(q, "capital_question")
    BY <1>3 DEF handle_raw_request
  <2> HIDE DEF r
  <2> QED
    BY <1>3, <2>1 DEF AnyObject, Reply, Ask, Complete,
                    InvalidParams, MissingCapability, Throws, Data,
                    PromptsOf, ReplyKinds
<1>4. CASE q.tool = "list_roots"
  <2>1. r = AnyObject(q, "client_roots")
    BY <1>4 DEF handle_raw_request
  <2> HIDE DEF r
  <2> QED
    BY <1>4, <2>1 DEF AnyObject, Reply, Ask, Complete,
                    InvalidParams, MissingCapability, Throws, Data,
                    PromptsOf, ReplyKinds
<1>5. CASE q.tool \in StateTools
  <2>1. r = WithState(q, TokenOf(q.tool))
    BY <1>5 DEF handle_raw_request
  <2> HIDE DEF r
  <2> QED
    BY <1>5, <2>1 DEF WithState, TokenOf, verify_state, Reply, Ask, Complete,
                    InvalidParams, MissingCapability, Throws, Data,
                    PromptsOf, ReplyKinds
<1>6. CASE q.tool = "multi_round"
  <2>1. r = MultiRound(q)
    BY <1>6 DEF handle_raw_request
  <2> HIDE DEF r
  <2> QED
    BY <1>6, <2>1 DEF MultiRound, verify_state, Reply, Ask, Complete,
                    InvalidParams, MissingCapability, Throws, Data,
                    PromptsOf, ReplyKinds
<1>7. CASE q.tool = "capabilities"
  <2>1. r = CapabilityCheck
    BY <1>7 DEF handle_raw_request
  <2> HIDE DEF r
  <2> QED
    BY <1>7, <2>1 DEF CapabilityCheck, Reply, Ask, Complete,
                    InvalidParams, MissingCapability, Throws, Data,
                    PromptsOf, ReplyKinds
<1>8. CASE q.tool = "missing_capability"
  <2>1. r = Gated("sampling")
    BY <1>8 DEF handle_raw_request
  <2> HIDE DEF r
  <2> QED
    BY <1>8, <2>1 DEF Gated, Reply, Ask, Complete,
                    InvalidParams, MissingCapability, Throws, Data,
                    PromptsOf, ReplyKinds
<1>9. CASE q.tool = "streaming_elicitation"
  <2>1. r = Gated("elicitation")
    BY <1>9 DEF handle_raw_request
  <2> HIDE DEF r
  <2> QED
    BY <1>9, <2>1 DEF Gated, Reply, Ask, Complete,
                    InvalidParams, MissingCapability, Throws, Data,
                    PromptsOf, ReplyKinds
<1>10. CASE q.tool \in RequiredTaskTools
  <2>1. r = RequiredTask(q)
    BY <1>10 DEF handle_raw_request
  <2> HIDE DEF r
  <2> QED
    BY <1>10, <2>1 DEF RequiredTask, TaskStarted, Reply, Ask, Complete,
                    InvalidParams, MissingCapability, Throws, Data,
                    PromptsOf, ReplyKinds
<1>11. CASE q.tool \in OptionalTaskTools
  <2>1. r = OptionalTask
    BY <1>11 DEF handle_raw_request
  <2> HIDE DEF r
  <2> QED
    BY <1>11, <2>1 DEF OptionalTask, TaskStarted, NotHandled, Reply, Ask, Complete,
                    InvalidParams, MissingCapability, Throws, Data,
                    PromptsOf, ReplyKinds
<1> QED
  BY <1>1, <1>2, <1>3, <1>4, <1>5, <1>6, <1>7, <1>8, <1>9, <1>10, <1>11 DEF AllCalls

\* Whatever request a client makes from what it holds, the invariant is kept.
LEMMA ExchangeKeepsGrants ==
  ASSUME GrantInv, NEW q, NEW isLost \in BOOLEAN,
         q.tool \in AllCalls, q.state \in held \cup {"", "forged"},
         Exchange(q, isLost)
  PROVE  GrantInv'
<1> DEFINE r == handle_raw_request(q)
<1>1. last'.request = q /\ last'.reply = r /\ lost' = isLost
  BY DEF Exchange
<1>2. held' = IF isLost THEN held ELSE held \cup ({r.token} \ {""})
  BY <1>1 DEF Exchange
<1>3. /\ r.token \in Data \cup {""}
      /\ r.kind = "complete" => r.token = ""
      /\ r.kind = "complete" /\ q.tool = "multi_round" => q.state = "round2"
      /\ r.kind = "complete" /\ q.tool \in StateTools => q.state \in Data
      /\ r.token = "round2" => q.state = "round1"
      /\ q.tool = "multi_round" => r.token \in {"", "round1", "round2"}
  BY RepliesToStates
<1> HIDE DEF r
<1>4. StatesAreHeld' /\ RoundsAreItsOwn'
  BY <1>1, <1>2, <1>3 DEF GrantInv, StatesAreHeld, RoundsAreItsOwn
<1>5. "round2" \in held' => "round1" \in held'
  BY <1>2, <1>3 DEF GrantInv, CompletionWasGranted
<1>6. Completed({"multi_round"})' => {"round1", "round2"} \subseteq held'
  BY <1>1, <1>2, <1>3 DEF GrantInv, CompletionWasGranted, Completed
<1>7. Completed(StateTools)' => held' # {} /\ last'.request.state \in held'
  BY <1>1, <1>2, <1>3 DEF Completed, Data
<1> QED
  BY <1>4, <1>5, <1>6, <1>7 DEF GrantInv, CompletionWasGranted

LEMMA GrantStep == GrantInv /\ [Next]_vars => GrantInv'
<1> SUFFICES ASSUME GrantInv, [Next]_vars PROVE GrantInv'
  OBVIOUS
<1>1. ASSUME NEW isLost \in BOOLEAN, NEW tool \in Calls,
             Exchange(FirstCall(tool), isLost)
      PROVE  GrantInv'
  BY <1>1, ExchangeKeepsGrants, CallsAssumption DEF FirstCall
<1>2. ASSUME NEW isLost \in BOOLEAN, FollowUp(isLost) PROVE GrantInv'
  <2>1. /\ FollowUpRequest.tool \in AllCalls
        /\ FollowUpRequest.state \in held \cup {"", "forged"}
    BY <1>2 DEF FollowUp, FollowUpRequest, GrantInv, StatesAreHeld
  <2> QED
    BY <1>2, <2>1, ExchangeKeepsGrants DEF FollowUp
<1>3. ASSUME NEW isLost \in BOOLEAN, Retry(isLost) PROVE GrantInv'
  BY <1>3, ExchangeKeepsGrants DEF Retry, GrantInv, StatesAreHeld
<1>4. ASSUME NEW tool \in Calls, NEW kind \in AnswerKinds,
             NEW s \in held \cup {"", "forged"},
             NEW K \in SUBSET PromptsOf(tool), Deviate(tool, K, kind, s)
      PROVE  GrantInv'
  BY <1>4, ExchangeKeepsGrants, CallsAssumption DEF Deviate
<1>5. CASE UNCHANGED vars
  BY <1>5 DEF vars, GrantInv, StatesAreHeld, RoundsAreItsOwn, CompletionWasGranted,
              Completed
<1> QED
  BY <1>1, <1>2, <1>3, <1>4, <1>5 DEF Next, ByTheBook, Start

\* A client holds what it was sent and presents what it holds or a forgery.
THEOREM GrantInvariance == Spec => []GrantInv
<1>1. Init => GrantInv
  <2> SUFFICES ASSUME Init PROVE GrantInv
    OBVIOUS
  <2>1. PICK tool \in Calls :
          last = [request |-> FirstCall(tool), reply |-> Reply("none")]
    BY DEF Init
  <2>2. /\ last.request.tool \in AllCalls /\ last.request.state = ""
        /\ last.reply.kind = "none" /\ last.reply.token = ""
    BY <2>1, CallsAssumption DEF FirstCall, Reply
  <2> QED
    BY <2>2 DEF Init, GrantInv, StatesAreHeld, RoundsAreItsOwn,
                CompletionWasGranted, Completed
<1> QED
  BY <1>1, GrantStep, PTL DEF Spec

\* No call of handle_raw_request completes a round that the server did not
\* grant to that client before, whatever the client sends and whichever
\* replies are lost.
THEOREM Grants == Spec => []CompletionWasGranted
<1>1. GrantInv => CompletionWasGranted
  BY DEF GrantInv
<1> QED
  BY <1>1, GrantInvariance, PTL

\* A well-formed request leaves a well-formed state.
LEMMA ExchangeIsTyped ==
  ASSUME TypeOK, NEW q, NEW isLost \in BOOLEAN,
         q.tool \in AllCalls, q.given \in BOOLEAN, q.state \in RequestStates,
         DOMAIN q.answers \subseteq PromptsOf(q.tool),
         \A k \in DOMAIN q.answers : q.answers[k] \in AllAnswerKinds,
         Exchange(q, isLost)
  PROVE  TypeOK'
<1> DEFINE r == handle_raw_request(q)
<1>1. last'.request = q /\ last'.reply = r /\ lost' = isLost /\ UNCHANGED declared
  BY DEF Exchange
<1>2. held' = IF isLost THEN held ELSE held \cup ({r.token} \ {""})
  BY <1>1 DEF Exchange
<1>3. /\ r.token \in Data \cup {""} /\ r.kind \in ReplyKinds
      /\ r.prompts \in SUBSET PromptsOf(q.tool)
  BY RepliesToStates
<1> HIDE DEF r
<1>4. held' \in SUBSET Data
  BY <1>2, <1>3 DEF TypeOK
<1> QED BY <1>1, <1>3, <1>4 DEF TypeOK

\* Every answer names a prompt of the tool that was called, and every state in
\* a reply is one the server signs, whatever the client sends.
THEOREM TypeCorrect == Spec => []TypeOK
<1>1. Init => TypeOK
  <2> SUFFICES ASSUME Init PROVE TypeOK
    OBVIOUS
  <2>1. PICK tool \in Calls :
          last = [request |-> FirstCall(tool), reply |-> Reply("none")]
    BY DEF Init
  <2>2. /\ last.request.tool \in AllCalls /\ last.request.given = FALSE
        /\ last.request.state = "" /\ DOMAIN last.request.answers = {}
    BY <2>1, CallsAssumption DEF FirstCall, NoAnswers
  <2>3. last.reply.kind = "none" /\ last.reply.prompts = {} /\ last.reply.token = ""
    BY <2>1 DEF Reply
  <2> QED
    BY <2>2, <2>3 DEF Init, TypeOK, RequestStates, ReplyKinds
<1>2. TypeOK /\ [Next]_vars => TypeOK'
  <2> SUFFICES ASSUME TypeOK, [Next]_vars PROVE TypeOK'
    OBVIOUS
  <2>1. ASSUME NEW isLost \in BOOLEAN, NEW tool \in Calls,
               Exchange(FirstCall(tool), isLost)
        PROVE  TypeOK'
    <3> DEFINE q == FirstCall(tool)
    <3>1. /\ q.tool \in AllCalls /\ q.given \in BOOLEAN
          /\ q.state \in RequestStates /\ DOMAIN q.answers = {}
      BY CallsAssumption DEF FirstCall, NoAnswers, RequestStates
    <3> HIDE DEF q
    <3> QED BY <2>1, <3>1, ExchangeIsTyped DEF q
  <2>2. ASSUME NEW isLost \in BOOLEAN, FollowUp(isLost) PROVE TypeOK'
    <3> DEFINE q == FollowUpRequest
    <3>1. /\ q.tool = last.request.tool /\ q.given = TRUE
          /\ q.state = last.reply.token
          /\ DOMAIN q.answers = last.reply.prompts \cap Elicitations
          /\ \A k \in DOMAIN q.answers : q.answers[k] = "accept"
      BY DEF FollowUpRequest
    <3>2. Exchange(q, isLost)
      BY <2>2 DEF FollowUp
    <3> HIDE DEF q
    <3>3. /\ q.tool \in AllCalls /\ q.given \in BOOLEAN
          /\ q.state \in RequestStates
          /\ DOMAIN q.answers \subseteq PromptsOf(q.tool)
          /\ \A k \in DOMAIN q.answers : q.answers[k] \in AllAnswerKinds
      BY <3>1 DEF TypeOK, RequestStates, AllAnswerKinds
    <3> QED BY <3>2, <3>3, ExchangeIsTyped
  <2>3. ASSUME NEW isLost \in BOOLEAN, Retry(isLost) PROVE TypeOK'
    BY <2>3, ExchangeIsTyped DEF Retry, TypeOK
  <2>4. ASSUME NEW tool \in Calls, NEW kind \in AnswerKinds,
               NEW s \in held \cup {"", "forged"},
               NEW K \in SUBSET PromptsOf(tool), Deviate(tool, K, kind, s)
        PROVE  TypeOK'
    <3> DEFINE q == [tool |-> tool, given |-> TRUE, state |-> s,
                     answers |-> [k \in K |-> kind]]
    <3>1. Exchange(q, FALSE)
      BY <2>4 DEF Deviate
    <3>2. /\ q.tool \in AllCalls /\ q.given \in BOOLEAN /\ q.state \in RequestStates
          /\ DOMAIN q.answers \subseteq PromptsOf(q.tool)
          /\ \A k \in DOMAIN q.answers : q.answers[k] \in AllAnswerKinds
      BY CallsAssumption DEF TypeOK, RequestStates
    <3> HIDE DEF q
    <3> QED BY <3>1, <3>2, ExchangeIsTyped
  <2>5. CASE UNCHANGED vars
    BY <2>5 DEF vars, TypeOK
  <2> QED
    BY <2>1, <2>2, <2>3, <2>4, <2>5 DEF Next, ByTheBook, Start
<1> QED
  BY <1>1, <1>2, PTL DEF Spec

-----------------------------------------------------------------------------
\* A client that accepts what it is asked and echoes the state of the question
\* gets an answer its tool gives to a client in the conversation.
LEMMA FollowUpsAreAccepted ==
  ASSUME TypeOK, RoundsAreItsOwn
  PROVE  handle_raw_request(FollowUpRequest).kind \notin {"InvalidParams", "throws"}
<1> USE DEF StateTools, RequiredTaskTools, OptionalTaskTools
<1> DEFINE q == FollowUpRequest
           r == handle_raw_request(q)
<1>1. /\ q.tool = last.request.tool /\ q.given = TRUE /\ q.state = last.reply.token
      /\ DOMAIN q.answers = last.reply.prompts \cap Elicitations
      /\ \A k \in DOMAIN q.answers : q.answers[k] = "accept"
  BY DEF FollowUpRequest
<1>2. /\ q.tool \in AllCalls /\ q.state \in Data \cup {""}
      /\ q.tool = "multi_round" => q.state \in {"", "round1", "round2"}
  BY <1>1 DEF TypeOK, RoundsAreItsOwn
<1>3. \A k : IsObject(q, k) => q.answers[k] = "accept"
  BY <1>1 DEF IsObject
<1> HIDE DEF q
<1>4. SUFFICES r.kind \notin {"InvalidParams", "throws"}
  BY DEF q
<1>5. ASSUME NEW prompt, r = AcceptedElicitation(q, prompt) \/ r = AnyObject(q, prompt)
      PROVE  r.kind \notin {"InvalidParams", "throws"}
  <2>1. r = Ask({prompt}, "") \/ r = Complete
    BY <1>3, <1>5 DEF AcceptedElicitation, AnyObject
  <2>2. Ask({prompt}, "").kind = "ask" /\ Complete.kind = "complete"
    BY DEF Ask, Complete, Reply
  <2> HIDE DEF r
  <2> QED
    BY <2>1, <2>2
<1>6. CASE q.tool \in {"elicitation", "prompt", "sampling", "list_roots"}
  BY <1>5, <1>6 DEF handle_raw_request
<1>7. CASE q.tool \in StateTools
  <2>1. r = WithState(q, TokenOf(q.tool))
    BY <1>7 DEF handle_raw_request
  <2> HIDE DEF r
  <2> QED
    BY <1>2, <2>1 DEF WithState, verify_state, Ask, Complete, Reply
<1>8. CASE q.tool = "multi_round"
  <2>1. r = MultiRound(q)
    BY <1>8 DEF handle_raw_request
  <2> HIDE DEF r
  <2> QED
    BY <1>2, <1>8, <2>1 DEF MultiRound, verify_state, Data, Ask, Complete, Reply
<1>9. CASE q.tool \in RequiredTaskTools
  <2>1. r = RequiredTask(q)
    BY <1>9 DEF handle_raw_request
  <2> HIDE DEF r
  <2> QED
    BY <1>3, <2>1 DEF RequiredTask, TaskStarted, MissingCapability, Ask, Reply
<1>10. CASE q.tool \in {"capabilities", "missing_capability", "streaming_elicitation"}
            \cup OptionalTaskTools
  <2>1. \/ r = CapabilityCheck
        \/ r = Gated("sampling")
        \/ r = Gated("elicitation")
        \/ r = OptionalTask
    BY <1>10 DEF handle_raw_request
  <2>2. /\ CapabilityCheck.kind = "ask"
        /\ \A c : Gated(c).kind \in {"complete", "MissingCapability"}
        /\ OptionalTask.kind \in {"task", "not handled"}
    BY DEF CapabilityCheck, Gated, OptionalTask, TaskStarted, NotHandled,
           MissingCapability, Ask, Complete, Reply
  <2> HIDE DEF r
  <2> QED
    BY <2>1, <2>2
<1> QED
  BY <1>2, <1>6, <1>7, <1>8, <1>9, <1>10 DEF AllCalls

\* Every step is an exchange.
LEMMA StepsAreExchanges ==
  ASSUME Next PROVE last'.reply = handle_raw_request(last'.request)
<1>1. ASSUME NEW q, NEW isLost, Exchange(q, isLost)
      PROVE  last'.reply = handle_raw_request(last'.request)
  <2>1. last'.request = q /\ last'.reply = handle_raw_request(q)
    BY <1>1 DEF Exchange
  <2> QED
    BY <2>1
<1> QED
  BY <1>1 DEF Next, ByTheBook, Start, FollowUp, Retry, Deviate

\* A client that answers what it is asked and echoes the state it was last given
\* is neither rejected nor does it make handle_raw_request throw, whatever it
\* called before, and whatever states of other calls it holds.
THEOREM ByTheBookAccepted == Spec => ByTheBookIsAccepted
<1>1. GrantInv /\ TypeOK /\ [Next]_vars =>
        [last'.request = FollowUpRequest /\ last.reply.kind = "ask" /\ ~lost
           => last'.reply.kind \notin {"InvalidParams", "throws"}]_vars
  <2> SUFFICES ASSUME GrantInv, TypeOK, Next, last'.request = FollowUpRequest
               PROVE  last'.reply.kind \notin {"InvalidParams", "throws"}
    OBVIOUS
  <2>1. last'.reply = handle_raw_request(FollowUpRequest)
    BY StepsAreExchanges
  <2> QED
    BY <2>1, FollowUpsAreAccepted DEF GrantInv
<1> QED
  BY <1>1, GrantInvariance, TypeCorrect, PTL DEF Spec, ByTheBookIsAccepted
=============================================================================
