----------------------- MODULE CommandToolsProperties -----------------------
(* What the command tools promise.                                         *)
EXTENDS CommandTools

Bytes(n) == [i \in 1 .. n |-> i]

TypeOK ==
  /\ presets \in PresetSizes
  /\ pc \in {"idle", "launch", "reading", "close", "presets", "replied"}
  /\ request \in Requests \cup {NoRequest}
  /\ command \in [rows : Nat, fails : BOOLEAN]
  /\ bytes \in Int /\ fate \in Fates
  /\ printed \in Nat /\ output \in Seq(Nat)
  /\ truncated \in BOOLEAN /\ broken \in BOOLEAN
  /\ reply \in [kind : {"none", "refused", "not launched", "result", "presets"},
                output : Seq(Nat), truncated : BOOLEAN, is_error : BOOLEAN]

\* The output is the beginning of what was printed, whole up to the limit, and
\* marked as truncated as soon as a byte was dropped (run_command: the limit is
\* applied chunk by chunk, the truncation is noticed separately).
OutputIsPrefix ==
  /\ output = Bytes(Least(printed, limit))
  /\ ~broken => (truncated <=> printed > limit)

\* No reply lacks a byte of the command's output or of the presets file without
\* saying so, and none says so without cause (run_command, read_bounded).
LossIsReported ==
  reply.kind \in {"result", "presets"} =>
    /\ bytes > Len(reply.output) => reply.truncated
    /\ reply.truncated => bytes > Len(reply.output) \/ broken

\* A result is an error exactly if the command failed, however it ended and
\* however little of its output is kept: the pipe is drained behind the limit,
\* so a long output does not kill the command, and a command killed by a signal
\* is no success (run_command, decode_exit_code, make_result).
VerdictIsTheCommands ==
  reply.kind = "result" /\ ~broken => (reply.is_error <=> fate # Exited(0))

\* A query that succeeds returns no more rows than max_rows if it is one SELECT
\* that has the words " LIMIT " nowhere and no comment behind it; if it ends in a
\* semicolon, or has a limit that with_limit does not see, the clause makes it
\* fail, not escape.  Of the other queries with_limit promises nothing.
AnsweredQueryIsLimited ==
  /\ reply.kind = "result" /\ ~reply.is_error /\ ~broken
  /\ request.tool = "sqlite.query" /\ request.sql.first = "select"
  /\ request.sql.limit \in {"none", "newline"}
  /\ request.sql.tail \in {"none", "semicolon"}
  => /\ bytes <= clamp(request.rows, 1, LargestRows)
     /\ request.sql = Plain

-----------------------------------------------------------------------------
(* The inductive invariant: how far a request has come.                    *)

\* Nothing is read before the command is launched, and the reply comes last.
StepsInOrder ==
  /\ pc # "idle" => request \in Requests
  /\ pc \in {"idle", "launch", "presets"} =>
       printed = 0 /\ output = <<>> /\ ~truncated /\ ~broken
  /\ pc = "reading" => ~broken
  /\ pc # "replied" => reply = NoReply
  /\ broken => truncated

\* The command prints no more than it was asked for, and is read to its end.
CommandIsDrained ==
  /\ pc \in {"reading", "close"} =>
       /\ bytes \in 0 .. command.rows /\ printed <= bytes
       /\ command.fails => fate # Exited(0)
  /\ pc = "close" => broken \/ printed = bytes
  /\ pc \in {"launch", "reading", "close"} /\ request.tool = "sqlite.query" =>
       command = with_limit(request.sql, request.rows)

ReplyIsTheResult ==
  reply.kind = "result" =>
    /\ reply.output = output /\ reply.truncated = truncated
    /\ broken \/ printed = bytes

IInv ==
  /\ TypeOK /\ StepsInOrder /\ CommandIsDrained /\ ReplyIsTheResult
  /\ OutputIsPrefix /\ LossIsReported /\ VerdictIsTheCommands
  /\ AnsweredQueryIsLimited

-----------------------------------------------------------------------------
\* A request that is to be answered, whatever the command prints and whether its
\* output ends on a full buffer or not (the loop of run_command).
Busy == pc # "idle"
Served == pc = "replied"
=============================================================================
