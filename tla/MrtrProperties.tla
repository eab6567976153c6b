--------------------------- MODULE MrtrProperties ---------------------------
(* What the stateless rounds of the everything server promise a client.    *)
EXTENDS Mrtr

Completed(tools) == last.reply.kind = "complete" /\ last.request.tool \in tools

\* The rounds of a conversation cannot be skipped although the server forgets
\* them: multi_round completes only for a client that was given the states of
\* both rounds, and the other tools with a state only for one that was given a
\* signed state; a forged state never completes anything.
CompletionWasGranted ==
  /\ Completed({"multi_round"}) => {"round1", "round2"} \subseteq held
  /\ "round2" \in held => "round1" \in held
  /\ Completed(StateTools) => held # {} /\ last.request.state \in held

\* A client that answers what it is asked and echoes the state it was last
\* given never has its state rejected, whatever it called before.
ByTheBookIsAccepted ==
  [][last'.request = FollowUpRequest /\ last.reply.kind = "ask" /\ ~lost
       => last'.reply.kind \notin {"InvalidParams", "throws"}]_vars

\* A conversation whose prompts are all elicitations ends: the call completes,
\* starts its task or is refused for a missing capability, although replies get
\* lost and requests are sent again.
ConversationsEnd ==
  InConversation ~> last.reply.kind \in {"complete", "task", "MissingCapability"}

\* "taskSupport=required: clients without the extension get -32021."
RequiredTaskIsRefused ==
  last.request.tool \in RequiredTaskTools /\ "tasks" \notin declared
    => last.reply.kind \in {"none", "MissingCapability"}

\* "Round 1 of the MRTR->tasks composition: gather the name first."
NameIsGatheredFirst ==
  last.reply.kind = "task" /\ last.request.tool = "with_task"
    => IsObject(last.request, "user_name")

-----------------------------------------------------------------------------
(* The inductive invariant behind CompletionWasGranted and                 *)
(* ByTheBookIsAccepted.                                                    *)

\* A client holds what it was sent and sends what it holds, so nothing it
\* presents can be signed unless a reply brought it.
StatesAreHeld ==
  /\ held \subseteq Data
  /\ last.request.state \in held \cup {"", "forged"}
  /\ last.request.tool \in AllCalls
  /\ ~lost => last.reply.token \in held \cup {""}

\* multi_round hands out no state but those of its own rounds: a state of
\* another tool would verify, and be refused.
RoundsAreItsOwn ==
  last.request.tool = "multi_round" => last.reply.token \in {"", "round1", "round2"}

GrantInv == StatesAreHeld /\ RoundsAreItsOwn /\ CompletionWasGranted
=============================================================================
