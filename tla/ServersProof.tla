---------------------------- MODULE ServersProof ----------------------------
(***************************************************************************)
(* What the servers over changing files promise holds for every log, tree, *)
(* limit and number of changes.  LogInv says how far a reply about the log *)
(* has come; WorkspaceInv what a walk has handled and, by the frontier of  *)
(* what it is still going to visit, that it visits nothing twice and       *)
(* leaves nothing out.  The bounded commands keep their promises for any   *)
(* limits, buffer and output.                                              *)
(***************************************************************************)
EXTENDS CommandToolsProperties, Servers, SequenceTheorems, FiniteSetTheorems, TLAPS

-----------------------------------------------------------------------------
(* The bounded commands: what is kept is the beginning of the output, a    *)
(* loss is reported, and the verdict is the command's.                     *)

\* The constants are numbers.
LEMMA Constants ==
  /\ Chunk \in Nat \ {0} /\ LargestBytes \in Nat \ {0}
  /\ LargestRows \in Nat \ {0} /\ MaxPrinted \in Nat
  /\ ByteLimits \subseteq Int /\ RowLimits \subseteq Int
BY CommandAssumption DEF CommandAssumption

\* What the clients ask.
LEMMA RequestFields ==
  ASSUME NEW r \in Requests
  PROVE  r.tool \in Tools /\ r.max_bytes \in Int /\ r.rows \in Int
<1>1. CASE r \in GitRequests
  <2>1. CASE r \in Asks({"git.status", "git.diff"}, {0}, {Plain}, {FALSE})
    <3>1. r.tool \in {"git.status", "git.diff"} /\ r.max_bytes \in ByteLimits /\ r.rows \in {0}
      BY <2>1 DEF Asks
    <3>2. r.tool \in Tools
      BY <3>1 DEF Tools, GitTools
    <3>3. r.max_bytes \in Int
      BY <3>1, Constants
    <3>4. r.rows \in Int
      BY <3>1, Constants
    <3> QED BY <3>2, <3>3, <3>4
  <2>2. CASE r \in Asks({"git.log"}, RowLimits, {Plain}, {FALSE})
    <3>1. r.tool \in {"git.log"} /\ r.max_bytes \in ByteLimits /\ r.rows \in RowLimits
      BY <2>2 DEF Asks
    <3>2. r.tool \in Tools
      BY <3>1 DEF Tools, GitTools
    <3>3. r.max_bytes \in Int
      BY <3>1, Constants
    <3>4. r.rows \in Int
      BY <3>1, Constants
    <3> QED BY <3>2, <3>3, <3>4
  <2> QED BY <1>1, <2>1, <2>2 DEF GitRequests
<1>2. CASE r \in SqliteRequests
  <2>1. CASE r \in Asks({"sqlite.schema", "sqlite.tables"}, {0}, {Plain}, {FALSE})
    <3>1. r.tool \in {"sqlite.schema", "sqlite.tables"} /\ r.max_bytes \in ByteLimits /\ r.rows \in {0}
      BY <2>1 DEF Asks
    <3>2. r.tool \in Tools
      BY <3>1 DEF Tools, SqliteTools
    <3>3. r.max_bytes \in Int
      BY <3>1, Constants
    <3>4. r.rows \in Int
      BY <3>1, Constants
    <3> QED BY <3>2, <3>3, <3>4
  <2>2. CASE r \in Asks({"sqlite.query"}, RowLimits, Queries, {FALSE})
    <3>1. r.tool \in {"sqlite.query"} /\ r.max_bytes \in ByteLimits /\ r.rows \in RowLimits
      BY <2>2 DEF Asks
    <3>2. r.tool \in Tools
      BY <3>1 DEF Tools, SqliteTools
    <3>3. r.max_bytes \in Int
      BY <3>1, Constants
    <3>4. r.rows \in Int
      BY <3>1, Constants
    <3> QED BY <3>2, <3>3, <3>4
  <2> QED BY <1>2, <2>1, <2>2 DEF SqliteRequests
<1>3. CASE r \in CTestRequests
  <2>1. CASE r \in Asks({"cmake.presets", "ctest.list"}, {0}, {Plain}, {FALSE})
    <3>1. r.tool \in {"cmake.presets", "ctest.list"} /\ r.max_bytes \in ByteLimits /\ r.rows \in {0}
      BY <2>1 DEF Asks
    <3>2. r.tool \in Tools
      BY <3>1 DEF Tools, CTestTools
    <3>3. r.max_bytes \in Int
      BY <3>1, Constants
    <3>4. r.rows \in Int
      BY <3>1, Constants
    <3> QED BY <3>2, <3>3, <3>4
  <2>2. CASE r \in Asks({"ctest.run"}, {0}, {Plain}, BOOLEAN)
    <3>1. r.tool \in {"ctest.run"} /\ r.max_bytes \in ByteLimits /\ r.rows \in {0}
      BY <2>2 DEF Asks
    <3>2. r.tool \in Tools
      BY <3>1 DEF Tools, CTestTools
    <3>3. r.max_bytes \in Int
      BY <3>1, Constants
    <3>4. r.rows \in Int
      BY <3>1, Constants
    <3> QED BY <3>2, <3>3, <3>4
  <2> QED BY <1>3, <2>1, <2>2 DEF CTestRequests
<1> QED BY <1>1, <1>2, <1>3 DEF Requests

\* The statements are of the kinds there are.
LEMMA QueriesAsked ==
  ASSUME NEW r \in Requests
  PROVE  r.sql \in Statements
<1>1. r.sql \in {Plain} \cup Queries
  BY DEF Requests, GitRequests, SqliteRequests, CTestRequests, Asks
<1>2. Plain \in Statements
  BY DEF Plain, Statements
<1> QED BY <1>1, <1>2, CommandAssumption DEF CommandAssumption

\* A limit is a positive number, whatever a client sends.
LEMMA LimitIsPositive ==
  ASSUME request \in Requests
  PROVE  limit \in Nat \ {0}
<1>1. request.max_bytes \in Int
  BY RequestFields
<1> QED BY <1>1, Constants DEF limit, clamp

\* A limit on the rows of a query is one, too.
LEMMA CommandIsTyped ==
  ASSUME NEW r \in Requests, NEW path, NEW file
  PROVE  /\ Handler(r, path, file).command \in [rows : Nat, fails : BOOLEAN]
         /\ r.tool = "sqlite.query" =>
              Handler(r, path, file).command = with_limit(r.sql, r.rows)
<1>1. r.rows \in Int /\ r.tool \in Tools
  BY RequestFields
<1>2. clamp(r.rows, 1, LargestRows) \in Nat
  BY <1>1, Constants DEF clamp
<1>3. /\ with_limit(r.sql, r.rows) \in [rows : Nat, fails : BOOLEAN]
      /\ Unlimited \in [rows : Nat, fails : BOOLEAN]
  BY <1>2, Constants DEF with_limit, Appended, Failing, Unlimited
<1> QED
  BY <1>1, <1>2, <1>3 DEF Handler, git_status, git_log, git_diff, sqlite_schema,
     sqlite_tables, sqlite_query, ctest_list, ctest_run, cmake_presets,
     Tools, GitTools, SqliteTools, CTestTools

\* The beginning of the output is put together chunk by chunk.
LEMMA BytesJoin ==
  ASSUME NEW n \in Nat, NEW k \in Nat
  PROVE  Bytes(n) \o [i \in 1 .. k |-> n + i] = Bytes(n + k)
<1> DEFINE s == Bytes(n)
<1> DEFINE t == [i \in 1 .. k |-> n + i]
<1>1. s \in Seq(Nat) /\ Len(s) = n /\ \A i \in 1 .. n : s[i] = i
  BY DEF Bytes
<1>2. t \in Seq(Nat) /\ Len(t) = k /\ \A i \in 1 .. k : t[i] = n + i
  OBVIOUS
<1> HIDE DEF s, t
<1>3. /\ s \o t \in Seq(Nat) /\ Len(s \o t) = n + k
      /\ \A i \in 1 .. n + k :
           (s \o t)[i] = IF i <= n THEN s[i] ELSE t[i - n]
  BY <1>1, <1>2, ConcatProperties, ZenonT(60)
<1>4. ASSUME NEW i \in 1 .. n + k
      PROVE  (s \o t)[i] = i
  BY <1>1, <1>2, <1>3
<1>5. /\ Bytes(n + k) \in Seq(Nat) /\ Len(Bytes(n + k)) = n + k
      /\ \A i \in 1 .. n + k : Bytes(n + k)[i] = i
  BY DEF Bytes
<1>6. s \o t = Bytes(n + k)
  BY <1>3, <1>4, <1>5, SeqEqual
<1> QED BY <1>6 DEF s, t

LEMMA NothingJoined ==
  ASSUME NEW s \in Seq(Nat), NEW n \in Nat
  PROVE  s \o [i \in 1 .. 0 |-> n + i] = s
<1>1. [i \in 1 .. 0 |-> n + i] = <<>>
  OBVIOUS
<1> QED BY <1>1

LEMMA BytesAreASequence ==
  ASSUME NEW n \in Nat
  PROVE  Bytes(n) \in Seq(Nat) /\ Len(Bytes(n)) = n
BY DEF Bytes

\* The bytes read are kept up to the limit, whatever the sizes of the chunks.
LEMMA TakesAPrefix ==
  ASSUME IInv, request \in Requests, UNCHANGED request, NEW read \in Nat, Take(read)
  PROVE  /\ printed' = printed + read /\ printed' \in Nat
         /\ output' = Bytes(Least(printed', limit)) /\ output' \in Seq(Nat)
         /\ limit' = limit /\ limit \in Nat
         /\ read > Remaining <=> printed' > limit /\ read > 0
<1>1. printed \in Nat /\ output = Bytes(Least(printed, limit)) /\ output \in Seq(Nat)
  BY DEF IInv, TypeOK, OutputIsPrefix
<1>2. limit \in Nat \ {0} /\ limit' = limit
  BY LimitIsPositive DEF limit
<1>3. /\ printed' = printed + read
      /\ output' = output \o [i \in 1 .. Least(read, Remaining) |-> printed + i]
  BY DEF Take
<1>4. CASE printed <= limit
  <2>1. Least(printed, limit) = printed /\ Len(output) = printed
    BY <1>1, <1>2, <1>4, BytesAreASequence DEF Least
  <2>2. Remaining = limit - printed
    BY <1>1, <1>2, <1>4, <2>1 DEF Remaining
  <2>3. /\ Least(read, Remaining) \in Nat
        /\ printed + Least(read, Remaining) = Least(printed + read, limit)
    BY <1>1, <1>2, <1>4, <2>2 DEF Least
  <2>4. output' = Bytes(Least(printed', limit))
    BY <1>1, <1>3, <2>1, <2>3, BytesJoin
  <2>5. Least(printed', limit) \in Nat
    BY <1>1, <1>2, <1>3 DEF Least
  <2>6. output' \in Seq(Nat)
    BY <2>4, <2>5, BytesAreASequence
  <2>7. read > Remaining <=> printed + read > limit /\ read > 0
    BY <1>1, <1>2, <1>4, <2>2
  <2>8. printed + read \in Nat
    BY <1>1
  <2> QED BY <1>2, <1>3, <2>4, <2>6, <2>7, <2>8
<1>5. CASE printed > limit
  <2>1. Least(printed, limit) = limit /\ Len(output) = limit
    BY <1>1, <1>2, <1>5, BytesAreASequence DEF Least
  <2>2. Remaining = 0 /\ Least(read, Remaining) = 0
    BY <1>2, <2>1 DEF Remaining, Least
  <2>3. output' = output
    BY <1>1, <1>3, <2>2, NothingJoined
  <2>4. Least(printed', limit) = limit
    BY <1>1, <1>2, <1>3, <1>5 DEF Least
  <2>5. read > Remaining <=> printed + read > limit /\ read > 0
    BY <1>1, <1>2, <1>5, <2>2
  <2>6. printed + read \in Nat
    BY <1>1
  <2>7. output' = Bytes(Least(printed', limit)) /\ output' \in Seq(Nat)
    BY <1>1, <2>1, <2>3, <2>4
  <2> QED BY <1>2, <1>3, <2>5, <2>6, <2>7
<1> QED BY <1>1, <1>2, <1>4, <1>5

\* Before anything is read.
LEMMA NothingRead ==
  ASSUME NEW m \in Int
  PROVE  /\ Least(0, clamp(m, 1, LargestBytes)) = 0
         /\ ~(0 > clamp(m, 1, LargestBytes)) /\ Bytes(0) = <<>>
BY Constants DEF Least, clamp, Bytes

\* A reply that is no result promises nothing.
LEMMA NoResult ==
  ASSUME reply'.kind \notin {"result", "presets"}
  PROVE  /\ ReplyIsTheResult' /\ LossIsReported' /\ VerdictIsTheCommands'
         /\ AnsweredQueryIsLimited'
BY DEF ReplyIsTheResult, LossIsReported, VerdictIsTheCommands, AnsweredQueryIsLimited

LEMMA RepliesAreTyped ==
  /\ NoReply \in [kind : {"none", "refused", "not launched", "result", "presets"},
                  output : Seq(Nat), truncated : BOOLEAN, is_error : BOOLEAN]
  /\ error_result \in [kind : {"none", "refused", "not launched", "result", "presets"},
                  output : Seq(Nat), truncated : BOOLEAN, is_error : BOOLEAN]
BY DEF NoReply, error_result

LEMMA Starts == Init => IInv
<1> SUFFICES ASSUME Init PROVE IInv
  OBVIOUS
<1>1. TypeOK
  <2>1. presets \in PresetSizes
    BY Constants DEF Init, PresetSizes
  <2>2. command \in [rows : Nat, fails : BOOLEAN] /\ fate \in Fates
    BY DEF Init, Refused, Fates
  <2>3. /\ pc = "idle" /\ request = NoRequest /\ bytes = 0
        /\ printed = 0 /\ output = <<>> /\ reply = NoReply
        /\ truncated = FALSE /\ broken = FALSE
    BY DEF Init
  <2>4. reply \in [kind : {"none", "refused", "not launched", "result", "presets"},
                 output : Seq(Nat), truncated : BOOLEAN, is_error : BOOLEAN]
    BY <2>3, RepliesAreTyped
  <2>5. bytes \in Int /\ printed \in Nat /\ output \in Seq(Nat)
    BY <2>3
  <2>6. truncated \in BOOLEAN /\ broken \in BOOLEAN
    BY <2>3
  <2>7. pc = "idle" /\ request = NoRequest
    BY <2>3
  <2> QED BY <2>1, <2>2, <2>4, <2>5, <2>6, <2>7 DEF TypeOK
<1>2. OutputIsPrefix
  <2>1. request.max_bytes = 0
    BY DEF Init, NoRequest
  <2> QED BY <2>1, NothingRead DEF Init, OutputIsPrefix, limit
<1>3. reply.kind = "none"
  BY DEF Init, NoReply
<1>4. /\ ReplyIsTheResult /\ LossIsReported /\ VerdictIsTheCommands
      /\ AnsweredQueryIsLimited
  BY <1>3 DEF ReplyIsTheResult, LossIsReported, VerdictIsTheCommands,
              AnsweredQueryIsLimited
<1>5. StepsInOrder /\ CommandIsDrained
  BY DEF Init, StepsInOrder, CommandIsDrained
<1> QED BY <1>1, <1>2, <1>4, <1>5 DEF IInv

LEMMA Returns ==
  ASSUME IInv, Return
  PROVE  IInv'
<1>1. TypeOK'
  <2>1. presets' \in PresetSizes
    BY Constants DEF Return, PresetSizes
  <2>2. command' \in [rows : Nat, fails : BOOLEAN] /\ fate' \in Fates
    BY DEF Return, Refused, Fates
  <2>3. /\ pc' = "idle" /\ request' = NoRequest /\ bytes' = 0
        /\ printed' = 0 /\ output' = <<>> /\ reply' = NoReply
        /\ truncated' = FALSE /\ broken' = FALSE
    BY DEF Return
  <2>4. reply' \in [kind : {"none", "refused", "not launched", "result", "presets"},
                 output : Seq(Nat), truncated : BOOLEAN, is_error : BOOLEAN]
    BY <2>3, RepliesAreTyped
  <2>5. bytes' \in Int /\ printed' \in Nat /\ output' \in Seq(Nat)
    BY <2>3
  <2>6. truncated' \in BOOLEAN /\ broken' \in BOOLEAN
    BY <2>3
  <2>7. pc' = "idle" /\ request' = NoRequest
    BY <2>3
  <2> QED BY <2>1, <2>2, <2>4, <2>5, <2>6, <2>7 DEF TypeOK
<1>2. OutputIsPrefix'
  <2>1. request'.max_bytes = 0
    BY DEF Return, NoRequest
  <2> QED BY <2>1, NothingRead DEF Return, OutputIsPrefix, limit
<1>3. reply'.kind = "none"
  BY DEF Return, NoReply
<1>4. StepsInOrder' /\ CommandIsDrained'
  BY DEF Return, StepsInOrder, CommandIsDrained
<1> QED BY <1>1, <1>2, <1>3, <1>4, NoResult DEF IInv

LEMMA Calling ==
  ASSUME IInv, Call
  PROVE  IInv'
<1>1. PICK r \in Requests, path \in Paths, file \in PresetSizes :
        LET h == Handler(r, path, file) IN
        /\ request' = r
        /\ presets' = IF path = "directory" THEN file ELSE -1
        /\ \/ /\ h.ok
              /\ pc' = IF r.tool = "cmake.presets" THEN "presets" ELSE "launch"
              /\ command' = h.command
              /\ UNCHANGED reply
           \/ /\ ~h.ok
              /\ pc' = "replied" /\ reply' = error_result
              /\ UNCHANGED command
  BY DEF Call
<1> DEFINE asked == Handler(r, path, file).command
<1>2. pc = "idle" /\ UNCHANGED <<bytes, fate, printed, output, truncated, broken>>
  BY DEF Call, pipe
<1>3. /\ TypeOK /\ reply = NoReply
      /\ printed = 0 /\ output = <<>> /\ ~truncated /\ ~broken
  BY <1>2 DEF IInv, StepsInOrder
<1>4. /\ asked \in [rows : Nat, fails : BOOLEAN]
      /\ r.tool = "sqlite.query" => asked = with_limit(r.sql, r.rows)
  BY CommandIsTyped
<1>5. /\ request' = r /\ presets' = IF path = "directory" THEN file ELSE -1
      /\ \/ /\ pc' \in {"presets", "launch"} /\ command' = asked /\ reply' = reply
         \/ pc' = "replied" /\ reply' = error_result /\ UNCHANGED command
  BY <1>1
<1> HIDE DEF asked
<1>6. presets' \in PresetSizes
  BY <1>5, Constants DEF PresetSizes
<1>7. command' \in [rows : Nat, fails : BOOLEAN]
  BY <1>3, <1>4, <1>5 DEF TypeOK
<1>8. reply' \in {NoReply, error_result} /\ reply'.kind \notin {"result", "presets"}
  BY <1>3, <1>5 DEF NoReply, error_result
<1>9. pc' \in {"presets", "launch", "replied"}
  BY <1>5
<1>10. TypeOK'
  BY <1>2, <1>3, <1>5, <1>6, <1>7, <1>8, <1>9, RepliesAreTyped DEF TypeOK
<1>11. StepsInOrder'
  BY <1>2, <1>3, <1>5, <1>9 DEF StepsInOrder
<1>12. CommandIsDrained'
  BY <1>4, <1>5, <1>9 DEF CommandIsDrained
<1>13. OutputIsPrefix'
  <2>1. r.max_bytes \in Int
    BY RequestFields
  <2> QED BY <2>1, <1>2, <1>3, <1>5, NothingRead DEF OutputIsPrefix, limit
<1> QED BY <1>8, <1>10, <1>11, <1>12, <1>13, NoResult DEF IInv

LEMMA Launches ==
  ASSUME IInv, NEW tools, Launch(tools) \/ LaunchFails(tools)
  PROVE  IInv'
<1>1. /\ pc = "launch" /\ UNCHANGED <<presets, request, command>>
      /\ UNCHANGED <<printed, output, truncated, broken>>
  BY DEF Launch, LaunchFails, process, pipe
<1>2. /\ TypeOK /\ reply = NoReply /\ request \in Requests
      /\ printed = 0 /\ output = <<>> /\ ~truncated /\ ~broken
      /\ request.tool = "sqlite.query" => command = with_limit(request.sql, request.rows)
  BY <1>1 DEF IInv, StepsInOrder, CommandIsDrained
<1>3. OutputIsPrefix'
  BY <1>1 DEF IInv, OutputIsPrefix, limit
<1>4. CASE Launch(tools)
  <2>1. /\ pc' = "reading" /\ bytes' \in 0 .. command.rows /\ fate' \in Fates
        /\ command.fails => fate' # Exited(0)
        /\ reply' = reply
    BY <1>4 DEF Launch
  <2>2. command.rows \in Nat
    BY <1>2 DEF TypeOK
  <2>3. TypeOK'
    <3>1. bytes' \in Int
      BY <2>1, <2>2
    <3> QED BY <1>1, <1>2, <2>1, <3>1 DEF TypeOK
  <2>4. StepsInOrder'
    BY <1>1, <1>2, <2>1 DEF StepsInOrder
  <2>5. CommandIsDrained'
    BY <1>1, <1>2, <2>1, <2>2 DEF CommandIsDrained
  <2>6. reply'.kind = "none"
    BY <1>2, <2>1 DEF NoReply
  <2> QED BY <1>3, <2>3, <2>4, <2>5, <2>6, NoResult DEF IInv
<1>5. CASE LaunchFails(tools)
  <2>1. /\ pc' = "replied" /\ UNCHANGED <<bytes, fate>>
        /\ reply' = [kind |-> "not launched", output |-> <<>>, truncated |-> FALSE,
                     is_error |-> TRUE]
    BY <1>5 DEF LaunchFails, process
  <2>2. reply' \in [kind : {"none", "refused", "not launched", "result", "presets"},
                    output : Seq(Nat), truncated : BOOLEAN, is_error : BOOLEAN]
    <3>1. <<>> \in Seq(Nat)
      OBVIOUS
    <3> QED BY <2>1, <3>1
  <2>3. TypeOK'
    BY <1>1, <1>2, <2>1, <2>2 DEF TypeOK
  <2>4. StepsInOrder'
    BY <1>1, <1>2, <2>1 DEF StepsInOrder
  <2>5. CommandIsDrained'
    BY <2>1 DEF CommandIsDrained
  <2>6. reply'.kind = "not launched"
    BY <2>1
  <2> QED BY <1>3, <2>3, <2>4, <2>5, <2>6, NoResult DEF IInv
<1> QED BY <1>4, <1>5

\* A read, of a full buffer, of the rest, or of what came before the failure.
LEMMA Reading ==
  ASSUME IInv, NEW tools,
         ReadFull(tools) \/ ReadLast(tools) \/ ReadFails(tools)
  PROVE  IInv'
<1>1. /\ pc = "reading" /\ pc' \in {"reading", "close"}
      /\ UNCHANGED <<presets, request, command, bytes, fate, reply>>
  BY DEF ReadFull, ReadLast, ReadFails, process
<1>2. /\ TypeOK /\ reply = NoReply /\ request \in Requests /\ ~broken
      /\ command.rows \in Nat /\ bytes \in 0 .. command.rows
      /\ printed \in Nat /\ printed <= bytes /\ bytes \in Nat
      /\ command.fails => fate # Exited(0)
      /\ request.tool = "sqlite.query" => command = with_limit(request.sql, request.rows)
  <2>1. TypeOK /\ StepsInOrder /\ CommandIsDrained
    BY DEF IInv
  <2>2. command.rows \in Nat /\ printed \in Nat
    BY <2>1 DEF TypeOK
  <2>3. request \in Requests /\ reply = NoReply /\ ~broken
    BY <1>1, <2>1 DEF StepsInOrder
  <2> QED BY <1>1, <2>1, <2>2, <2>3 DEF CommandIsDrained
<1>3. OutputIsPrefix /\ limit' = limit
  BY <1>1 DEF IInv, limit
<1>4. PICK read \in Nat :
        /\ Take(read) /\ printed + read <= bytes
        /\ \/ truncated' = (truncated \/ read > Remaining) /\ UNCHANGED broken
           \/ truncated' /\ broken'
        /\ truncated' \in BOOLEAN /\ broken' \in BOOLEAN
        /\ pc' = "close" => broken' \/ printed + read = bytes
        /\ pc' = "reading" => ~broken'
  <2>1. CASE ReadFull(tools)
    <3>1. Chunk \in Nat
      BY Constants
    <3> QED BY <2>1, <3>1, <1>2 DEF ReadFull, Keep, TypeOK
  <2>2. CASE ReadLast(tools)
    <3>1. bytes - printed \in Nat /\ printed + (bytes - printed) = bytes
      BY <1>2
    <3>2. /\ Take(bytes - printed) /\ pc' = "close" /\ UNCHANGED broken
          /\ truncated' = (truncated \/ bytes - printed > Remaining)
      BY <2>2 DEF ReadLast, Keep
    <3>3. truncated' \in BOOLEAN /\ broken' \in BOOLEAN
      BY <3>2, <1>2 DEF TypeOK
    <3>4. printed + (bytes - printed) <= bytes
      BY <1>2
    <3> QED BY <3>1, <3>2, <3>3, <3>4
  <2>3. CASE ReadFails(tools)
    <3>1. PICK read \in 0 .. Chunk - 1 : printed + read <= bytes /\ Take(read)
      BY <2>3 DEF ReadFails
    <3>2. read \in Nat
      BY <3>1, Constants
    <3> QED BY <2>3, <3>1, <3>2 DEF ReadFails
  <2> QED BY <2>1, <2>2, <2>3
<1>5. /\ printed' = printed + read /\ printed' \in Nat
      /\ output' = Bytes(Least(printed', limit)) /\ output' \in Seq(Nat)
      /\ limit \in Nat
      /\ read > Remaining <=> printed' > limit /\ read > 0
  BY <1>1, <1>2, <1>4, TakesAPrefix
<1>6. TypeOK'
  BY <1>1, <1>2, <1>4, <1>5 DEF TypeOK
<1>7. StepsInOrder'
  <2>1. broken' => truncated'
    BY <1>2, <1>4
  <2> QED BY <1>1, <1>2, <1>4, <2>1 DEF StepsInOrder
<1>8. CommandIsDrained'
  BY <1>1, <1>2, <1>4, <1>5 DEF CommandIsDrained
<1>9. OutputIsPrefix'
  <2>1. ASSUME ~broken'
        PROVE  truncated' <=> printed' > limit
    <3>1. truncated' = (truncated \/ read > Remaining)
      BY <1>4, <2>1
    <3>2. truncated <=> printed > limit
      BY <1>2, <1>3 DEF OutputIsPrefix
    <3>3. printed' > limit <=> printed > limit \/ (printed' > limit /\ read > 0)
      BY <1>2, <1>5
    <3> QED BY <3>1, <3>2, <3>3, <1>5
  <2> QED BY <1>3, <1>5, <2>1 DEF OutputIsPrefix
<1>10. reply'.kind = "none"
  BY <1>1, <1>2 DEF NoReply
<1> QED BY <1>6, <1>7, <1>8, <1>9, <1>10, NoResult DEF IInv

\* The verdict of a command that was read to its end is its own.
LEMMA Decoded ==
  ASSUME NEW status \in Fates
  PROVE  decode_exit_code(status) # 0 <=> status # Exited(0)
BY DEF Fates, Exited, decode_exit_code

LEMMA Closes ==
  ASSUME IInv, NEW tools, Close(tools)
  PROVE  IInv'
<1> DEFINE status == IF printed < bytes THEN SIGPIPE ELSE fate
<1>1. /\ pc = "close" /\ pc' = "replied"
      /\ reply' = make_result(decode_exit_code(status))
      /\ UNCHANGED <<presets, request, command, bytes, fate>>
      /\ UNCHANGED <<printed, output, truncated, broken>>
  BY DEF Close, process, pipe
<1>2. /\ TypeOK /\ request \in Requests /\ printed \in Nat /\ bytes \in Nat
      /\ output \in Seq(Nat) /\ truncated \in BOOLEAN /\ fate \in Fates
      /\ command.rows \in Nat /\ bytes <= command.rows
      /\ broken \/ printed = bytes
      /\ command.fails => fate # Exited(0)
      /\ broken => truncated
      /\ request.tool = "sqlite.query" => command = with_limit(request.sql, request.rows)
  <2>1. TypeOK /\ StepsInOrder /\ CommandIsDrained
    BY DEF IInv
  <2>2. /\ command.rows \in Nat /\ printed \in Nat
        /\ output \in Seq(Nat) /\ truncated \in BOOLEAN /\ fate \in Fates
    BY <2>1 DEF TypeOK
  <2>3. request \in Requests /\ (broken => truncated)
    BY <1>1, <2>1 DEF StepsInOrder
  <2>4. /\ bytes \in 0 .. command.rows
        /\ broken \/ printed = bytes
        /\ command.fails => fate # Exited(0)
        /\ request.tool = "sqlite.query" =>
             command = with_limit(request.sql, request.rows)
    BY <1>1, <2>1 DEF CommandIsDrained
  <2> QED BY <2>1, <2>2, <2>3, <2>4
<1>3. output = Bytes(Least(printed, limit)) /\ (~broken => (truncated <=> printed > limit))
  BY DEF IInv, OutputIsPrefix
<1>4. limit \in Nat
  BY <1>2, LimitIsPositive
<1>5. Len(output) = Least(printed, limit) /\ Least(printed, limit) \in Nat
  <2>1. Least(printed, limit) \in Nat
    BY <1>2, <1>4 DEF Least
  <2> QED BY <1>3, <2>1, BytesAreASequence
<1>6. /\ reply'.kind = "result" /\ reply'.output = output
      /\ reply'.truncated = truncated
      /\ reply'.is_error = (decode_exit_code(status) # 0)
  BY <1>1 DEF make_result
<1>7. reply' \in [kind : {"none", "refused", "not launched", "result", "presets"},
                  output : Seq(Nat), truncated : BOOLEAN, is_error : BOOLEAN]
  BY <1>1, <1>2 DEF make_result
<1>8. ~broken => (reply'.is_error <=> fate # Exited(0))
  <2>1. ~broken => status = fate
    BY <1>2
  <2> QED BY <1>2, <1>6, <2>1, Decoded
<1> HIDE DEF status
<1>9. TypeOK'
  BY <1>1, <1>2, <1>7 DEF TypeOK
<1>10. StepsInOrder' /\ CommandIsDrained'
  BY <1>1, <1>2 DEF StepsInOrder, CommandIsDrained
<1>11. ReplyIsTheResult'
  BY <1>1, <1>2, <1>6 DEF ReplyIsTheResult
<1>12. OutputIsPrefix'
  BY <1>1 DEF IInv, OutputIsPrefix, limit
<1>13. LossIsReported'
  <2>1. bytes > Len(output) => truncated
    BY <1>2, <1>3, <1>4, <1>5 DEF Least
  <2>2. truncated => bytes > Len(output) \/ broken
    BY <1>2, <1>3, <1>4, <1>5 DEF Least
  <2> QED BY <1>1, <1>6, <2>1, <2>2 DEF LossIsReported
<1>14. VerdictIsTheCommands'
  BY <1>1, <1>8 DEF VerdictIsTheCommands
<1>15. AnsweredQueryIsLimited'
  <2> SUFFICES ASSUME ~reply'.is_error, request.tool = "sqlite.query",
                      ~broken, request.sql.first = "select",
                      request.sql.limit \in {"none", "newline"},
                      request.sql.tail \in {"none", "semicolon"}
               PROVE  /\ bytes <= clamp(request.rows, 1, LargestRows)
                      /\ request.sql = Plain
    BY <1>1 DEF AnsweredQueryIsLimited
  <2>1. ~command.fails /\ command = with_limit(request.sql, request.rows)
    BY <1>2, <1>8
  <2>2. request.sql.tail = "none" /\ request.sql.limit = "none"
    <3>1. command = Appended(request.sql, request.rows)
      BY <2>1 DEF with_limit
    <3>2. Failing.fails
      BY DEF Failing
    <3>3. request.sql.tail # "semicolon"
      <4> SUFFICES ASSUME request.sql.tail = "semicolon" PROVE FALSE
        OBVIOUS
      <4>1. command = Failing
        BY <3>1 DEF Appended
      <4> QED BY <2>1, <3>2, <4>1
    <3>4. request.sql.limit # "newline"
      <4> SUFFICES ASSUME request.sql.limit = "newline" PROVE FALSE
        OBVIOUS
      <4>1. command = Failing
        BY <3>1, <3>3 DEF Appended
      <4> QED BY <2>1, <3>2, <4>1
    <3> QED BY <3>3, <3>4
  <2>3. command.rows = clamp(request.rows, 1, LargestRows)
    BY <2>1, <2>2 DEF with_limit, Appended
  <2>4. request.sql \in Statements
    BY <1>2, QueriesAsked
  <2>5. request.sql = [first |-> request.sql.first, limit |-> request.sql.limit,
                       tail |-> request.sql.tail]
    BY <2>4 DEF Statements
  <2>6. request.sql = Plain
    BY <2>2, <2>5 DEF Plain
  <2> QED BY <1>2, <2>3, <2>6
<1> QED BY <1>9, <1>10, <1>11, <1>12, <1>13, <1>14, <1>15 DEF IInv

LEMMA ReadsPresets ==
  ASSUME IInv, ReadPresets
  PROVE  IInv'
<1> DEFINE file == read_bounded(presets, request.max_bytes)
<1>1. /\ pc = "presets" /\ pc' = "replied" /\ bytes' = presets
      /\ reply' = [kind |-> "presets", output |-> file.text,
                   truncated |-> file.truncated, is_error |-> FALSE]
      /\ UNCHANGED <<presets, request, command, fate>>
      /\ UNCHANGED <<printed, output, truncated, broken>>
  BY DEF ReadPresets, pipe
<1>2. /\ TypeOK /\ request \in Requests /\ presets \in Int
      /\ printed = 0 /\ output = <<>> /\ ~truncated /\ ~broken
  <2>1. TypeOK /\ StepsInOrder
    BY DEF IInv
  <2>2. presets \in Int
    <3>1. presets \in PresetSizes
      BY <2>1 DEF TypeOK
    <3> QED BY <3>1, Constants DEF PresetSizes
  <2>3. request \in Requests
    BY <1>1, <2>1 DEF StepsInOrder
  <2>4. printed = 0 /\ output = <<>> /\ ~truncated /\ ~broken
    BY <1>1, <2>1 DEF StepsInOrder
  <2> QED BY <2>1, <2>2, <2>3, <2>4
<1>3. /\ file.text \in Seq(Nat) /\ file.truncated \in BOOLEAN
      /\ file.truncated <=> presets > Len(file.text)
  <2>1. CASE presets < 0
    <3>1. file = [text |-> <<>>, truncated |-> FALSE]
      BY <2>1 DEF read_bounded
    <3> HIDE DEF file
    <3> QED BY <2>1, <3>1, <1>2
  <2>2. CASE ~(presets < 0)
    <3> DEFINE read == Least(presets, clamp(request.max_bytes, 1, LargestBytes))
    <3>1. file = [text |-> Bytes(read), truncated |-> presets > read]
      BY <2>2 DEF read_bounded, Bytes
    <3>2. read \in Nat
      BY <2>2, <1>2, LimitIsPositive DEF limit, Least
    <3>3. Bytes(read) \in Seq(Nat) /\ Len(Bytes(read)) = read
      BY <3>2, BytesAreASequence
    <3>4. presets \in Int /\ read \in Int
      BY <1>2, <3>2
    <3> HIDE DEF file, read
    <3>5. (presets > read) \in BOOLEAN
      OBVIOUS
    <3>6. file.text = Bytes(read) /\ file.truncated = (presets > read)
      BY <3>1
    <3> QED BY <3>3, <3>5, <3>6
  <2> QED BY <2>1, <2>2
<1> HIDE DEF file
<1>4. reply' \in [kind : {"none", "refused", "not launched", "result", "presets"},
                  output : Seq(Nat), truncated : BOOLEAN, is_error : BOOLEAN]
  BY <1>1, <1>3
<1>5. /\ reply'.kind = "presets" /\ reply'.output = file.text
      /\ reply'.truncated = file.truncated
  BY <1>1
<1>6. TypeOK'
  BY <1>1, <1>2, <1>4 DEF TypeOK
<1>7. StepsInOrder' /\ CommandIsDrained'
  BY <1>1, <1>2 DEF StepsInOrder, CommandIsDrained
<1>8. OutputIsPrefix'
  BY <1>1 DEF IInv, OutputIsPrefix, limit
<1>9. LossIsReported'
  BY <1>1, <1>3, <1>5 DEF LossIsReported
<1>10. ReplyIsTheResult' /\ VerdictIsTheCommands' /\ AnsweredQueryIsLimited'
  BY <1>5 DEF ReplyIsTheResult, VerdictIsTheCommands, AnsweredQueryIsLimited
<1> QED BY <1>6, <1>7, <1>8, <1>9, <1>10 DEF IInv

\* The presets file matters to nothing but the read.
LEMMA Undisturbed ==
  ASSUME IInv, Disturb \/ UNCHANGED vars
  PROVE  IInv'
<1>1. /\ UNCHANGED <<pc, request, command, bytes, fate, reply>>
      /\ UNCHANGED <<printed, output, truncated, broken>>
      /\ presets' \in PresetSizes
  BY DEF Disturb, vars, process, pipe, IInv, TypeOK
<1>2. TypeOK' /\ StepsInOrder' /\ CommandIsDrained'
  <2>1. TypeOK /\ StepsInOrder /\ CommandIsDrained
    BY DEF IInv
  <2>2. TypeOK'
    BY <1>1, <2>1, ZenonT(60) DEF TypeOK
  <2>3. StepsInOrder'
    BY <1>1, <2>1 DEF StepsInOrder
  <2>4. CommandIsDrained'
    BY <1>1, <2>1 DEF CommandIsDrained
  <2> QED BY <2>2, <2>3, <2>4
<1>3. OutputIsPrefix' /\ ReplyIsTheResult' /\ LossIsReported'
  BY <1>1 DEF IInv, OutputIsPrefix, limit, ReplyIsTheResult, LossIsReported
<1>4. VerdictIsTheCommands' /\ AnsweredQueryIsLimited'
  BY <1>1 DEF IInv, VerdictIsTheCommands, AnsweredQueryIsLimited
<1> QED BY <1>2, <1>3, <1>4 DEF IInv

\* Every step keeps what is known of the output of a request.
LEMMA StepKeeps ==
  ASSUME IInv, [Next]_vars
  PROVE  IInv'
<1>1. ASSUME NEW tools, run_command(tools)
      PROVE  IInv'
  <2>1. CASE Launch(tools) \/ LaunchFails(tools)
    BY <2>1, Launches
  <2>2. CASE ReadFull(tools) \/ ReadLast(tools) \/ ReadFails(tools)
    BY <2>2, Reading
  <2>3. CASE Close(tools)
    BY <2>3, Closes
  <2> QED BY <1>1, <2>1, <2>2, <2>3 DEF run_command, Progress
<1> QED
  BY <1>1, Calling, ReadsPresets, Undisturbed, Returns
  DEF Next, git_run_command, sqlite_run_command, ctest_run_command

\* How far a request has come decides what is known of its output.
THEOREM Invariance == Spec => []IInv
BY Starts, StepKeeps, PTL DEF Spec

\* The types, among them that what is read of a command or a file is a number of
\* bytes whatever a client asks.
THEOREM TypeCorrect == Spec => []TypeOK
<1>1. IInv => TypeOK
  BY DEF IInv
<1> QED BY <1>1, Invariance, PTL

\* The chunks are cut and joined to the beginning of the output.
THEOREM KeepsAPrefix == Spec => []OutputIsPrefix
<1>1. IInv => OutputIsPrefix
  BY DEF IInv
<1> QED BY <1>1, Invariance, PTL

\* No reply lacks output without saying so.
THEOREM ReportsLosses == Spec => []LossIsReported
<1>1. IInv => LossIsReported
  BY DEF IInv
<1> QED BY <1>1, Invariance, PTL

\* A result is an error exactly if the command failed.
THEOREM PassesTheVerdict == Spec => []VerdictIsTheCommands
<1>1. IInv => VerdictIsTheCommands
  BY DEF IInv
<1> QED BY <1>1, Invariance, PTL

\* A query that succeeds keeps to the limit on its rows, if its text is of the
\* kind that with_limit can limit.
THEOREM LimitsQueries == Spec => []AnsweredQueryIsLimited
<1>1. IInv => AnsweredQueryIsLimited
  BY DEF IInv
<1> QED BY <1>1, Invariance, PTL

-----------------------------------------------------------------------------
(* The log that is being written.                                          *)

\* The text of a sample, or of the reply about a log that cannot be opened.
Texts == Seq(Words \cup {"unable_to_open"})
Shown == [line : Nat, text : Texts]

LogTypes ==
  /\ lLog \in Seq(Seq(Words)) /\ Len(lLog) \in 1 .. MaxLines
  /\ \A i \in DOMAIN lLog : Len(lLog[i]) <= MaxWords
  /\ lPc \in {"idle", "digest", "digested", "find", "found", "threw"}
  /\ lEof \in BOOLEAN /\ lTruncated \in BOOLEAN
  /\ lLine_no \in 0 .. Len(lLog)
  /\ lCounts \in [LOG!Severities -> Nat]
  /\ \A s \in LOG!Severities : lCounts[s] <= lLine_no
  /\ lShown \in Seq(Shown)
  /\ \A i \in DOMAIN lShown : Len(lShown[i].text) <= MaxText

\* Without the end of the file every line that was read had ended.
LogPlaces ==
  /\ lRequest.limit \in Int /\ lRequest.ended \in 0 .. Len(lLog) - 1
  /\ lRequest.opened \in BOOLEAN
  /\ lPc \in {"digest", "find"} => lRequest.opened
  /\ lPc \in {"digest", "digested", "find", "found"} => lRequest.limit >= 1
  /\ ~lEof => lLine_no <= Len(lLog) - 1
  /\ lEof => lLine_no > lRequest.ended
  /\ lPc \in {"digest", "digested"} => Len(lShown) <= MaxSamples
  
\* The lines that had ended when they were read.
LinesRead == IF lEof THEN lLine_no - 1 ELSE lLine_no
Of(s) == {i \in 1 .. LinesRead : LOG!severity_for(lLog[i]) = s}

DigestInv ==
  lPc \in {"digest", "digested"} /\ lRequest.opened =>
    /\ \A s \in LOG!Severities :
         lCounts[s] - Cardinality(Of(s)) \in IF lEof THEN {0, 1} ELSE {0}
    /\ lCounts["fatal"] + lCounts["error"] + lCounts["warning"] + lCounts["info"]
         + lCounts["debug"] + lCounts["unknown"] = lLine_no
    /\ lPc = "digested" => lLine_no >= lRequest.limit \/ lLine_no >= lRequest.ended

\* Each sample is the beginning of a severe line, and those left out follow.
SamplesInv ==
  lPc \in {"digest", "digested"} /\ lRequest.opened /\ ~lEof =>
    /\ \A i \in DOMAIN lShown :
         /\ lShown[i].line \in LOG!SevereLines(lLine_no)
         /\ LOG!IsPrefix(lShown[i].text, lLog[lShown[i].line])
    /\ \A i, j \in DOMAIN lShown : i < j => lShown[i].line < lShown[j].line
    /\ \A k \in LOG!SevereLines(lLine_no) \ LOG!ShownLines :
         Len(lShown) = MaxSamples /\ \A j \in LOG!ShownLines : j < k

Matching == {i \in 1 .. Len(lLog) : lRequest.pattern \in LOG!ToSet(lLog[i])}

FindInv ==
  lPc \in {"find", "found"} /\ lRequest.opened =>
    /\ LOG!ShownLines \subseteq Matching
    /\ \A i \in Matching : i <= LinesRead => i \in LOG!ShownLines
    /\ lPc = "find" => Len(lShown) < lRequest.limit /\ ~lTruncated
    /\ lTruncated => Len(lShown) = lRequest.limit /\ lLine_no \in LOG!ShownLines
    /\ ~lTruncated => Len(lShown) < lRequest.limit
    /\ lPc = "found" /\ ~lTruncated => LinesRead >= lRequest.ended

LogInv == LogTypes /\ LogPlaces /\ DigestInv /\ SamplesInv /\ FindInv

\* The community modules count as the standard one.
LEMMA SameCardinality ==
  \A S : LOG!Cardinality(S) = Cardinality(S)
BY DEF LOG!Cardinality, Cardinality

\* What a sequence is after one more element.
LEMMA AppendGrows ==
  ASSUME NEW S, NEW s \in Seq(S), NEW x \in S
  PROVE  /\ Append(s, x) \in Seq(S) /\ Len(s) \in Nat
         /\ DOMAIN s = 1 .. Len(s) /\ Len(Append(s, x)) = Len(s) + 1
         /\ DOMAIN Append(s, x) = (1 .. Len(s)) \cup {Len(s) + 1}
         /\ \A i \in 1 .. Len(s) : Append(s, x)[i] = s[i]
         /\ Append(s, x)[Len(s) + 1] = x
<1>1. /\ Append(s, x) \in Seq(S) /\ Len(s) \in Nat /\ DOMAIN s = 1 .. Len(s)
      /\ Len(Append(s, x)) = Len(s) + 1
      /\ \A i \in 1 .. Len(s) : Append(s, x)[i] = s[i]
      /\ Append(s, x)[Len(s) + 1] = x
  BY AppendProperties, LenProperties
<1>2. DOMAIN Append(s, x) = 1 .. Len(s) + 1
  BY <1>1, LenProperties
<1>3. 1 .. Len(s) + 1 = (1 .. Len(s)) \cup {Len(s) + 1}
  BY <1>1
<1> QED BY <1>1, <1>2, <1>3

\* What is shown of a line is its beginning.
LEMMA ShownIsPrefix ==
  ASSUME LogTypes, NEW line \in Seq(Words)
  PROVE  /\ LOG!Show(line) \in Shown /\ LOG!Show(line).line = lLine_no + 1
         /\ Len(LOG!Show(line).text) <= MaxText
         /\ LOG!IsPrefix(LOG!Show(line).text, line)
<1> DEFINE m == IF MaxText < Len(line) THEN MaxText ELSE Len(line)
           text == SubSeq(line, 1, m)
<1>1. Len(line) \in Nat /\ MaxText \in Nat /\ \A i \in 1 .. Len(line) : line[i] \in Words
  BY LenProperties, LogAssumption DEF LogAssumption
<1>2. \A a, b \in Int : LOG!Min({a, b}) = IF a < b THEN a ELSE b
  BY DEF LOG!Min
<1>3. LOG!Show(line) = [line |-> lLine_no + 1, text |-> text]
  <2>1. LOG!Min({MaxText, Len(line)}) = m
    BY <1>1, <1>2
  <2> HIDE DEF m
  <2> QED BY <2>1 DEF LOG!Show
<1>4. m \in Nat /\ m <= MaxText /\ m <= Len(line)
  BY <1>1
<1> HIDE DEF m
<1>5. /\ text \in Seq(Words) /\ Len(text) = m /\ \A i \in 1 .. m : text[i] = line[i]
  BY <1>1, <1>4, SubSeqProperties
<1>6. SubSeq(text, 1, Len(text)) = text
  BY <1>5, SubSeqFull
<1>7. text \in Texts
  BY <1>5, SeqMonotonic DEF Texts
<1> HIDE DEF text
<1>8. LOG!IsPrefix(text, line)
  BY <1>4, <1>5, <1>6 DEF LOG!IsPrefix, text
<1>9. lLine_no + 1 \in Nat
  BY DEF LogTypes
<1> QED BY <1>3, <1>4, <1>5, <1>7, <1>8, <1>9 DEF Shown

\* A call has read nothing yet.
LEMMA LogCallKeeps ==
  ASSUME LogInv, NEW next \in {"digest", "digested", "find", "found", "threw"},
         NEW most \in Nat \ {0}, NEW pattern, NEW opened \in BOOLEAN,
         next \in {"digest", "find"} => opened,
         next \in {"digested", "found"} => ~opened,
         LOG!Call(next, most, pattern, opened)
  PROVE  LogInv'
<1>1. /\ lLog \in Seq(Seq(Words)) /\ Len(lLog) \in 1 .. MaxLines
      /\ \A i \in DOMAIN lLog : Len(lLog[i]) <= MaxWords
  BY DEF LogInv, LogTypes
<1>2. /\ lLog' = lLog /\ lPc' = next /\ lEof' = FALSE /\ lLine_no' = 0
      /\ lTruncated' = FALSE
      /\ lRequest'.limit = most /\ lRequest'.opened = opened
      /\ lRequest'.ended = Len(lLog) - 1
  BY DEF LOG!Call, LOG!Ended
<1>3. lShown' = IF opened THEN <<>> ELSE LOG!Unopened
  BY DEF LOG!Call
<1>4. lCounts' \in [LOG!Severities -> Nat] /\ \A s \in LOG!Severities : lCounts'[s] = 0
  BY DEF LOG!Call
<1>5. opened => lShown' \in Seq(Shown) /\ Len(lShown') = 0 /\ DOMAIN lShown' = {}
  <2>1. \A S : <<>> \in Seq(S) /\ Len(<<>>) = 0 /\ DOMAIN <<>> = {}
    OBVIOUS
  <2> QED BY <1>3, <2>1
<1>6. ASSUME ~opened
      PROVE  /\ lShown' \in Seq(Shown) /\ Len(lShown') = 1
             /\ \A i \in DOMAIN lShown' : Len(lShown'[i].text) = 1
  <2> DEFINE text == <<"unable_to_open">>
             result == [line |-> 0, text |-> text]
  <2>1. \A S : \A x \in S : /\ <<x>> \in Seq(S) /\ Len(<<x>>) = 1 /\ <<x>>[1] = x
                            /\ DOMAIN <<x>> = {1}
    OBVIOUS
  <2>2. text \in Texts /\ Len(text) = 1
    BY <2>1 DEF Texts
  <2> HIDE DEF text
  <2>3. result \in Shown /\ result.text = text
    BY <2>2 DEF Shown
  <2>4. lShown' = <<result>>
    BY <1>3, <1>6 DEF LOG!Unopened, text
  <2> HIDE DEF result
  <2>5. /\ lShown' \in Seq(Shown) /\ Len(lShown') = 1 /\ lShown'[1] = result
        /\ DOMAIN lShown' = {1}
    BY <2>1, <2>3, <2>4, Zenon
  <2> QED BY <2>2, <2>3, <2>5
<1>7. LogTypes'
  <2>1. \A i \in DOMAIN lShown' : Len(lShown'[i].text) <= MaxText
    <3>1. MaxText \in Int /\ 1 <= MaxText
      BY LogAssumption DEF LogAssumption
    <3>2. CASE opened
      BY <1>5, <3>2
    <3>3. CASE ~opened
      <4>1. \A i \in DOMAIN lShown' : Len(lShown'[i].text) = 1
        BY <1>6, <3>3
      <4> QED BY <3>1, <4>1
    <3> QED BY <3>2, <3>3
  <2>2. lShown' \in Seq(Shown)
    BY <1>5, <1>6
  <2>3. lLine_no' \in 0 .. Len(lLog') /\ lEof' \in BOOLEAN /\ lTruncated' \in BOOLEAN
    <3>1. 0 \in 0 .. Len(lLog)
      BY <1>1
    <3> QED BY <1>2, <3>1
  <2> QED BY <1>1, <1>2, <1>4, <2>1, <2>2, <2>3 DEF LogTypes
<1>8. LogPlaces'
  <2>1. /\ Len(lLog) - 1 \in 0 .. Len(lLog) - 1 /\ 0 <= Len(lLog) - 1
        /\ most \in Int /\ most >= 1
    BY <1>1
  <2>2. Len(lShown') <= MaxSamples
    <3>1. MaxSamples \in Int /\ 1 <= MaxSamples
      BY LogAssumption DEF LogAssumption
    <3>2. CASE opened
      <4>1. Len(lShown') = 0
        BY <1>5, <3>2
      <4> QED BY <3>1, <4>1
    <3>3. CASE ~opened
      <4>1. Len(lShown') = 1
        BY <1>6, <3>3
      <4> QED BY <3>1, <4>1
    <3> QED BY <3>2, <3>3
  <2> QED BY <1>2, <2>1, <2>2 DEF LogPlaces
<1>9. DigestInv'
  <2>1. \A s : Cardinality(Of(s)') = 0
    <3>1. 1 .. LinesRead' = {}
      BY <1>2 DEF LinesRead
    <3> QED BY <3>1, FS_EmptySet DEF Of
  <2>2. opened => next \notin {"digested", "found"}
    OBVIOUS
  <2>3. \A s \in LOG!Severities : lCounts'[s] - Cardinality(Of(s)') = 0
    BY <1>4, <2>1
  <2>4. lCounts'["fatal"] + lCounts'["error"] + lCounts'["warning"] + lCounts'["info"]
         + lCounts'["debug"] + lCounts'["unknown"] = 0
    BY <1>4 DEF LOG!Severities
  <2> QED BY <1>2, <2>2, <2>3, <2>4 DEF DigestInv
<1>10. SamplesInv'
  <2>1. LOG!SevereLines(0)' = {}
    BY DEF LOG!SevereLines
  <2> QED BY <1>2, <1>5, <2>1 DEF SamplesInv
<1>11. FindInv'
  <2>1. opened => LOG!ShownLines' = {}
    BY <1>5 DEF LOG!ShownLines
  <2>2. \A i \in Matching' : ~(i <= LinesRead')
    BY <1>2 DEF Matching, LinesRead
  <2>3. opened => next \notin {"digested", "found"}
    OBVIOUS
  <2> QED BY <1>2, <1>5, <2>1, <2>2, <2>3 DEF FindInv
<1> QED BY <1>7, <1>8, <1>9, <1>10, <1>11 DEF LogInv

\* What is asked is brought to the bounds of the code.
LEMMA ClampIsPositive ==
  ASSUME NEW n \in Int, NEW high \in Nat \ {0}
  PROVE  LOG!clamp(n, 1, high) \in Nat \ {0}
BY DEF LOG!clamp

\* Both calls begin with what LogCallKeeps assumes.
LEMMA LogCallsKeep ==
  ASSUME LogInv, LOG!digest_log \/ LOG!find_log
  PROVE  LogInv'
<1>1. ASSUME LOG!digest_log PROVE LogInv'
  <2>1. PICK n \in LineLimits, opened \in BOOLEAN :
          LOG!Call(IF opened THEN "digest" ELSE "digested",
                   LOG!clamp(n, 1, LargestLines), "", opened)
    BY <1>1 DEF LOG!digest_log
  <2>2. LOG!clamp(n, 1, LargestLines) \in Nat \ {0}
    BY ClampIsPositive, LogAssumption DEF LogAssumption
  <2> QED BY <2>1, <2>2, LogCallKeeps
<1>2. ASSUME LOG!find_log PROVE LogInv'
  <2>1. PICK n \in FindLimits, pattern \in Patterns, opened \in BOOLEAN :
          LOG!Call(IF ~opened THEN "found" ELSE IF pattern = "(" THEN "threw" ELSE "find",
                   LOG!clamp(n, 1, LargestMatches), pattern, opened)
    BY <1>2 DEF LOG!find_log
  <2>2. LOG!clamp(n, 1, LargestMatches) \in Nat \ {0}
    BY ClampIsPositive, LogAssumption DEF LogAssumption
  <2> QED BY <2>1, <2>2, LogCallKeeps
<1> QED BY <1>1, <1>2

\* Before the first call there is an empty line and no request.
LEMMA LogInit == LOG!Init => LogInv
<1> SUFFICES ASSUME LOG!Init PROVE LogInv
  OBVIOUS
<1>1. /\ lLog \in Seq(Seq(Words)) /\ Len(lLog) = 1 /\ lLog[1] = <<>>
      /\ DOMAIN lLog = 1 .. 1
  <2>1. \A S : \A x \in S : /\ <<x>> \in Seq(S) /\ Len(<<x>>) = 1 /\ <<x>>[1] = x
                            /\ DOMAIN <<x>> = 1 .. 1
    OBVIOUS
  <2>2. <<>> \in Seq(Words)
    OBVIOUS
  <2>3. lLog = << <<>> >>
    BY DEF LOG!Init
  <2> QED BY <2>1, <2>2, <2>3
<1>2. lShown \in Seq(Shown) /\ Len(lShown) = 0 /\ DOMAIN lShown = {}
  <2>1. \A S : <<>> \in Seq(S) /\ Len(<<>>) = 0 /\ DOMAIN <<>> = {}
    OBVIOUS
  <2> QED BY <2>1 DEF LOG!Init
<1>3. /\ lPc = "idle" /\ ~lEof /\ ~lTruncated /\ lLine_no = 0 /\ lEof \in BOOLEAN
      /\ lTruncated \in BOOLEAN
      /\ lRequest.limit = 0 /\ ~lRequest.opened /\ lRequest.ended = 0
      /\ lRequest.opened \in BOOLEAN
  BY DEF LOG!Init, LOG!NoRequest
<1>4. lCounts \in [LOG!Severities -> Nat] /\ \A s \in LOG!Severities : lCounts[s] <= 0
  BY DEF LOG!Init
<1> HIDE DEF LOG!Init
<1>5. LogTypes
  <2>1. Len(lLog) \in 1 .. MaxLines /\ MaxWords \in Nat
    BY <1>1, LogAssumption DEF LogAssumption
  <2>2. \A i \in DOMAIN lLog : Len(lLog[i]) <= MaxWords
    BY <1>1, <2>1
  <2>3. lLine_no \in 0 .. Len(lLog)
    BY <1>1, <1>3
  <2>4. lPc \in {"idle", "digest", "digested", "find", "found", "threw"}
    BY <1>3
  <2> QED BY <1>1, <1>2, <1>3, <1>4, <2>1, <2>2, <2>3, <2>4 DEF LogTypes
<1>6. LogPlaces
  <2>1. 0 \in 0 .. Len(lLog) - 1 /\ 0 <= Len(lLog) - 1
    BY <1>1
  <2> QED BY <1>3, <2>1 DEF LogPlaces
<1>7. DigestInv /\ SamplesInv /\ FindInv
  BY <1>3 DEF DigestInv, SamplesInv, FindInv
<1> QED BY <1>5, <1>6, <1>7 DEF LogInv

\* The lines of a severity can be counted.
LEMMA OfIsFinite ==
  ASSUME LogTypes, NEW s
  PROVE  IsFiniteSet(Of(s)) /\ Cardinality(Of(s)) \in Nat
<1>1. LinesRead \in Int
  BY DEF LogTypes, LinesRead
<1>2. IsFiniteSet(1 .. LinesRead)
  BY <1>1, FS_Interval
<1>3. Of(s) \in SUBSET (1 .. LinesRead)
  BY DEF Of
<1> QED BY <1>2, <1>3, FS_Subset, FS_CardinalityType

\* The line that is read next.
LEMMA LineIsThere ==
  ASSUME LogInv, LOG!More
  PROVE  /\ ~lEof /\ lLine_no \in Nat /\ Len(lLog) \in Nat
         /\ lLine_no + 1 \in 1 .. Len(lLog) /\ lLog[lLine_no + 1] \in Seq(Words)
         /\ LinesRead = lLine_no /\ lRequest.ended \in 0 .. Len(lLog) - 1
<1>1. ~lEof
  BY DEF LOG!More
<1>2. /\ lLine_no \in Nat /\ Len(lLog) \in Nat /\ lLog \in Seq(Seq(Words))
      /\ lLine_no <= Len(lLog) - 1 /\ lRequest.ended \in 0 .. Len(lLog) - 1
  BY <1>1 DEF LogInv, LogTypes, LogPlaces
<1>3. lLine_no + 1 \in 1 .. Len(lLog)
  BY <1>2
<1> QED BY <1>1, <1>2, <1>3, ElementOfSeq DEF LinesRead

\* A digest counts the line it reads and may show it.
LEMMA DigestLineKeeps ==
  ASSUME LogInv, LOG!DigestLine
  PROVE  LogInv'
<1> DEFINE n == lLine_no + 1
           line == lLog[n]
           severity == LOG!severity_for(line)
<1>1. /\ ~lEof /\ lLine_no \in Nat /\ Len(lLog) \in Nat /\ n \in 1 .. Len(lLog)
      /\ line \in Seq(Words) /\ LinesRead = lLine_no
      /\ lRequest.ended \in 0 .. Len(lLog) - 1
  BY LineIsThere DEF LOG!DigestLine
<1>2. /\ lPc = "digest" /\ lLine_no' = n /\ (lEof' <=> n = Len(lLog))
      /\ lEof' \in BOOLEAN
      /\ UNCHANGED <<lLog, lPc, lRequest, lTruncated>>
  <2>1. lEof' = (lLine_no = Len(lLog) - 1)
    BY DEF LOG!DigestLine, LOG!Ended
  <2>2. lLine_no = Len(lLog) - 1 <=> n = Len(lLog)
    BY <1>1
  <2> HIDE DEF n
  <2>3. /\ lPc = "digest" /\ lLine_no' = n
        /\ UNCHANGED <<lLog, lPc, lRequest, lTruncated>>
    BY DEF LOG!DigestLine, n
  <2> QED BY <2>1, <2>2, <2>3
<1>3. lCounts' = [lCounts EXCEPT ![severity] = @ + 1]
  BY DEF LOG!DigestLine
<1>4. lShown' = LOG!Sampled(line)
  BY DEF LOG!DigestLine
<1>5. severity \in LOG!Severities
  BY DEF LOG!severity_for, LOG!Severities
<1>6. lRequest.opened
  BY <1>2 DEF LogInv, LogPlaces
<1>7. lShown \in Seq(Shown) /\ Len(lShown) <= MaxSamples /\ MaxSamples \in Nat
  BY <1>2, LogAssumption DEF LogInv, LogTypes, LogPlaces, LogAssumption
<1> HIDE DEF line, severity
<1>8. /\ lCounts \in [LOG!Severities -> Nat] /\ lCounts' \in [LOG!Severities -> Nat]
      /\ \A s \in LOG!Severities :
           lCounts'[s] = IF s = severity THEN lCounts[s] + 1 ELSE lCounts[s]
  BY <1>3, <1>5 DEF LogInv, LogTypes
<1> DEFINE show == LOG!Show(line)
<1>9. /\ show \in Shown /\ show.line = n /\ Len(show.text) <= MaxText
      /\ LOG!IsPrefix(show.text, line)
  BY <1>1, ShownIsPrefix DEF LogInv
<1> HIDE DEF show
<1>10. \/ /\ LOG!severe(severity) /\ Len(lShown) < MaxSamples
         /\ lShown' = Append(lShown, show)
      \/ /\ ~(LOG!severe(severity) /\ Len(lShown) < MaxSamples)
         /\ lShown' = lShown
  BY <1>4 DEF LOG!Sampled, show, severity
<1>11. LET longer == Append(lShown, show) IN
         /\ longer \in Seq(Shown) /\ Len(lShown) \in Nat
         /\ DOMAIN lShown = 1 .. Len(lShown) /\ Len(longer) = Len(lShown) + 1
         /\ DOMAIN longer = (1 .. Len(lShown)) \cup {Len(lShown) + 1}
         /\ \A i \in 1 .. Len(lShown) : longer[i] = lShown[i]
         /\ longer[Len(lShown) + 1] = show
  BY <1>7, <1>9, AppendGrows
<1>12. LogTypes'
  <2>1. lShown' \in Seq(Shown)
    BY <1>7, <1>10, <1>11
  <2>2. \A i \in DOMAIN lShown' : Len(lShown'[i].text) <= MaxText
    <3>1. \A i \in DOMAIN lShown : Len(lShown[i].text) <= MaxText
      BY DEF LogInv, LogTypes
    <3> QED BY <1>9, <1>10, <1>11, <3>1
  <2>3. lLine_no' \in 0 .. Len(lLog') /\ lEof' \in BOOLEAN
    BY <1>1, <1>2
  <2>4. \A s \in LOG!Severities : lCounts'[s] <= lLine_no'
    <3>1. \A s \in LOG!Severities : lCounts[s] \in Nat /\ lCounts[s] <= lLine_no
      BY DEF LogInv, LogTypes
    <3> QED BY <1>1, <1>2, <1>8, <3>1
  <2> QED BY <1>2, <1>8, <2>1, <2>2, <2>3, <2>4 DEF LogInv, LogTypes
<1>13. LogPlaces'
  <2>1. Len(lShown') <= MaxSamples
    BY <1>7, <1>10, <1>11
  <2>2. ~lEof' => lLine_no' <= Len(lLog) - 1
    BY <1>1, <1>2
  <2>3. lEof' => lLine_no' > lRequest.ended
    BY <1>1, <1>2
  <2> QED BY <1>2, <2>1, <2>2, <2>3 DEF LogInv, LogPlaces
<1>14. DigestInv'
  <2>1. /\ \A s \in LOG!Severities : lCounts[s] = Cardinality(Of(s))
        /\ lCounts["fatal"] + lCounts["error"] + lCounts["warning"] + lCounts["info"]
             + lCounts["debug"] + lCounts["unknown"] = lLine_no
    <3>1. \A s \in LOG!Severities : IsFiniteSet(Of(s)) /\ Cardinality(Of(s)) \in Nat
      BY OfIsFinite DEF LogInv
    <3>2. \A s \in LOG!Severities : lCounts[s] \in Nat /\ lCounts[s] - Cardinality(Of(s)) = 0
      BY <1>1, <1>2, <1>6, <1>8 DEF LogInv, DigestInv
    <3>3. \A s \in LOG!Severities : lCounts[s] = Cardinality(Of(s))
      BY <3>1, <3>2
    <3> QED BY <1>1, <1>2, <1>6, <3>3 DEF LogInv, DigestInv
  <2>2. lCounts'["fatal"] + lCounts'["error"] + lCounts'["warning"] + lCounts'["info"]
         + lCounts'["debug"] + lCounts'["unknown"] = n
    <3> DEFINE one(s) == IF s = severity THEN 1 ELSE 0
               of(s) == /\ lCounts[s] \in Int /\ one(s) \in Int
                        /\ lCounts'[s] = lCounts[s] + one(s)
    <3>1. one("fatal") + one("error") + one("warning") + one("info") + one("debug")
            + one("unknown") = 1
      BY <1>5 DEF LOG!Severities
    <3>2. \A s \in LOG!Severities : of(s)
      BY <1>8
    <3> HIDE DEF one
    <3>3. /\ of("fatal") /\ of("error") /\ of("warning") /\ of("info")
          /\ of("debug") /\ of("unknown")
      <4> HIDE DEF of
      <4> QED BY <3>2 DEF LOG!Severities
    <3>4. lLine_no \in Int /\ lCounts["fatal"] + lCounts["error"] + lCounts["warning"]
             + lCounts["info"] + lCounts["debug"] + lCounts["unknown"] = lLine_no
      BY <1>1, <2>1
    <3> DEFINE f == lCounts["fatal"] e == lCounts["error"] w == lCounts["warning"]
               i == lCounts["info"] d == lCounts["debug"] u == lCounts["unknown"]
    <3>5. /\ f \in Int /\ e \in Int /\ w \in Int /\ i \in Int /\ d \in Int /\ u \in Int
          /\ f + e + w + i + d + u = lLine_no
      BY <3>3, <3>4
    <3>6. /\ one("fatal") \in Int /\ one("error") \in Int /\ one("warning") \in Int
          /\ one("info") \in Int /\ one("debug") \in Int /\ one("unknown") \in Int
      BY <3>3
    <3>7. /\ lCounts'["fatal"] = f + one("fatal") /\ lCounts'["error"] = e + one("error")
          /\ lCounts'["warning"] = w + one("warning")
          /\ lCounts'["info"] = i + one("info") /\ lCounts'["debug"] = d + one("debug")
          /\ lCounts'["unknown"] = u + one("unknown")
      BY <3>3
    <3> HIDE DEF f, e, w, i, d, u
    <3>8. (f + one("fatal")) + (e + one("error")) + (w + one("warning")) + (i + one("info"))
            + (d + one("debug")) + (u + one("unknown")) = lLine_no + 1
      BY <3>1, <3>4, <3>5, <3>6
    <3> QED BY <3>7, <3>8
  <2>3. ASSUME NEW s \in LOG!Severities
        PROVE  lCounts'[s] - Cardinality(Of(s)') \in IF lEof' THEN {0, 1} ELSE {0}
    <3>1. lCounts[s] \in Nat /\ lCounts[s] = Cardinality(Of(s))
      BY <1>8, <2>1
    <3>2. CASE lEof'
      <4>1. LinesRead' = lLine_no
        BY <1>1, <1>2, <3>2 DEF LinesRead
      <4>2. Of(s)' = Of(s)
        BY <1>1, <1>2, <4>1 DEF Of
      <4> QED BY <1>8, <3>1, <3>2, <4>2
    <3>3. CASE ~lEof'
      <4>1. LinesRead' = n /\ 1 .. n = (1 .. lLine_no) \cup {n} /\ n \notin 1 .. lLine_no
        BY <1>1, <1>2, <3>3 DEF LinesRead
      <4>2. Of(s)' = {i \in (1 .. lLine_no) \cup {n} : LOG!severity_for(lLog[i]) = s}
        BY <1>2, <4>1 DEF Of
      <4>3. CASE s = severity
        <5>1. Of(s)' = Of(s) \cup {n} /\ n \notin Of(s)
          BY <1>1, <4>1, <4>2, <4>3 DEF Of, severity, line
        <5>2. IsFiniteSet(Of(s))
          BY OfIsFinite DEF LogInv
        <5>3. Cardinality(Of(s)') = Cardinality(Of(s)) + 1
          BY <5>1, <5>2, FS_AddElement
        <5> QED BY <1>8, <3>1, <3>3, <4>3, <5>3
      <4>4. CASE s # severity
        <5>1. Of(s)' = Of(s)
          BY <1>1, <4>1, <4>2, <4>4 DEF Of, severity, line
        <5> QED BY <1>8, <3>1, <3>3, <4>4, <5>1
      <4> QED BY <4>3, <4>4
    <3> QED BY <3>2, <3>3
  <2> QED BY <1>2, <2>2, <2>3 DEF DigestInv
<1>15. SamplesInv'
  <2>1. SUFFICES ASSUME ~lEof' PROVE SamplesInv'
    BY DEF SamplesInv
  <2> DEFINE old == LOG!SevereLines(lLine_no)
             new == IF LOG!severe(severity) THEN old \cup {n} ELSE old
             shownLines == LOG!ShownLines
  <2>2. LOG!SevereLines(lLine_no)' = new
    <3>1. 1 .. n = (1 .. lLine_no) \cup {n}
      BY <1>1
    <3> QED BY <1>2, <3>1 DEF LOG!SevereLines, severity, line
  <2>3. /\ \A k \in old : k \in Int /\ k < n
        /\ old \subseteq new
        /\ \A k \in new : k \in old \/ (k = n /\ LOG!severe(severity))
    BY <1>1 DEF LOG!SevereLines
  <2>4. /\ \A i \in DOMAIN lShown :
              /\ lShown[i].line \in old
              /\ LOG!IsPrefix(lShown[i].text, lLog[lShown[i].line])
        /\ \A i, j \in DOMAIN lShown : i < j => lShown[i].line < lShown[j].line
        /\ \A k \in old \ shownLines :
              Len(lShown) = MaxSamples /\ \A j \in shownLines : j < k
    BY <1>1, <1>2, <1>6 DEF LogInv, SamplesInv
  <2>5. \A j \in shownLines : j \in old
    BY <2>4 DEF LOG!ShownLines
  <2> HIDE DEF old, n
  <2>6. CASE lShown' = lShown /\ ~(LOG!severe(severity) /\ Len(lShown) < MaxSamples)
    <3>1. LOG!ShownLines' = shownLines
      BY <2>6 DEF LOG!ShownLines
    <3>2. \A i \in DOMAIN lShown' :
            /\ lShown'[i].line \in new
            /\ LOG!IsPrefix(lShown'[i].text, lLog'[lShown'[i].line])
      BY <1>2, <2>3, <2>4, <2>6
    <3>3. \A i, j \in DOMAIN lShown' : i < j => lShown'[i].line < lShown'[j].line
      BY <2>4, <2>6
    <3> HIDE DEF shownLines
    <3>4. ASSUME NEW k \in new, k \notin shownLines
          PROVE  Len(lShown) = MaxSamples /\ \A j \in shownLines : j < k
      <4>1. CASE k \in old
        BY <2>4, <3>4, <4>1
      <4>2. CASE k = n /\ LOG!severe(severity)
        <5>1. Len(lShown) \in Nat
          BY <1>11
        <5> QED BY <1>7, <2>3, <2>5, <2>6, <4>2, <5>1
      <4> QED BY <2>3, <4>1, <4>2
    <3> HIDE DEF new
    <3> QED BY <1>2, <2>2, <2>6, <3>1, <3>2, <3>3, <3>4 DEF SamplesInv
  <2>7. CASE /\ LOG!severe(severity) /\ Len(lShown) < MaxSamples
             /\ lShown' = Append(lShown, show)
    <3>1. /\ DOMAIN lShown' = DOMAIN lShown \cup {Len(lShown) + 1}
          /\ \A i \in DOMAIN lShown : lShown'[i] = lShown[i]
          /\ lShown'[Len(lShown) + 1] = show
          /\ \A i \in DOMAIN lShown : i \in Int /\ i < Len(lShown) + 1
          /\ Len(lShown) \in Nat
      BY <1>11, <2>7
    <3>2. /\ n \in new /\ old \subseteq new
          /\ \A k \in new \ {n} : k \in old
      BY <2>3, <2>7
    <3>3. n \in Int /\ lLine_no' = n
      BY <1>1, <1>2 DEF n
    <3>4. LOG!IsPrefix(show.text, lLog[n])
      BY <1>9 DEF line
    <3> HIDE DEF new
    <3>5. \A i \in DOMAIN lShown' :
            /\ lShown'[i].line \in new
            /\ LOG!IsPrefix(lShown'[i].text, lLog'[lShown'[i].line])
      BY <1>2, <1>9, <2>4, <3>1, <3>2, <3>4
    <3>6. ASSUME NEW i \in DOMAIN lShown', NEW j \in DOMAIN lShown', i < j
          PROVE  lShown'[i].line < lShown'[j].line
      <4>1. i \in DOMAIN lShown
        BY <3>1, <3>6
      <4>2. CASE j \in DOMAIN lShown
        BY <2>4, <3>1, <3>6, <4>1, <4>2
      <4>3. CASE j = Len(lShown) + 1
        <5>1. lShown'[j].line = n
          BY <1>9, <3>1, <4>3
        <5>2. lShown'[i].line \in old
          BY <2>4, <3>1, <4>1
        <5> QED BY <2>3, <5>1, <5>2
      <4> QED BY <3>1, <4>2, <4>3
    <3>7. shownLines \subseteq LOG!ShownLines' /\ n \in LOG!ShownLines'
      BY <1>9, <3>1 DEF LOG!ShownLines
    <3> HIDE DEF shownLines
    <3>8. ASSUME NEW k \in new, k \notin LOG!ShownLines' PROVE FALSE
      <4>1. k \in old /\ k \notin shownLines
        BY <3>2, <3>7, <3>8
      <4>2. Len(lShown) = MaxSamples
        BY <2>4, <4>1
      <4> QED BY <1>7, <2>7, <3>1, <4>2
    <3> QED BY <2>2, <3>5, <3>6, <3>8 DEF SamplesInv
  <2> QED BY <1>10, <2>6, <2>7
<1>16. FindInv'
  BY <1>2 DEF FindInv
<1> QED BY <1>12, <1>13, <1>14, <1>15, <1>16 DEF LogInv

\* A digest ends at its limit or at the end of the file, which it may meet in
\* the middle of a line.
LEMMA DigestEndKeeps ==
  ASSUME LogInv, LOG!DigestEnd
  PROVE  LogInv'
<1>1. /\ lPc = "digest" /\ lPc' = "digested"
      /\ UNCHANGED <<lLog, lRequest, lEof, lLine_no, lCounts, lShown, lTruncated>>
  BY DEF LOG!DigestEnd
<1>2. lRequest.opened
  BY <1>1 DEF LogInv, LogPlaces
<1>3. lLine_no >= lRequest.limit \/ lLine_no >= lRequest.ended
  <2>1. /\ lLine_no \in Int /\ lRequest.limit \in Int /\ lRequest.ended \in Int
        /\ Len(lLog) \in Int /\ lRequest.ended <= Len(lLog) - 1
    BY DEF LogInv, LogTypes, LogPlaces
  <2>2. lLine_no >= lRequest.limit \/ ~LOG!More
    BY DEF LOG!DigestEnd
  <2>3. CASE ~LOG!More
    <3>1. lEof \/ ~(lLine_no < Len(lLog) - 1)
      BY <2>3 DEF LOG!More, LOG!Ended
    <3>2. lEof => lLine_no > lRequest.ended
      BY DEF LogInv, LogPlaces
    <3> QED BY <2>1, <3>1, <3>2
  <2> QED BY <2>2, <2>3
<1>4. LogTypes' /\ LogPlaces'
  <2>1. LogTypes /\ LogPlaces
    BY DEF LogInv
  <2>2. LogTypes'
    BY <1>1, <2>1 DEF LogTypes
  <2> QED BY <1>1, <2>1, <2>2 DEF LogPlaces
<1>5. DigestInv'
  <2>1. \A s : Of(s)' = Of(s)
    BY <1>1 DEF Of, LinesRead
  <2>2. DigestInv
    BY DEF LogInv
  <2> QED BY <1>1, <1>2, <1>3, <2>1, <2>2 DEF DigestInv
<1>6. SamplesInv'
  <2>1. /\ SamplesInv /\ LOG!SevereLines(lLine_no)' = LOG!SevereLines(lLine_no)
        /\ LOG!ShownLines' = LOG!ShownLines
    BY <1>1 DEF LogInv, LOG!SevereLines, LOG!ShownLines
  <2> QED BY <1>1, <2>1 DEF SamplesInv
<1>7. FindInv'
  BY <1>1 DEF FindInv
<1> QED BY <1>4, <1>5, <1>6, <1>7 DEF LogInv

\* A search of the log ends at the end of the file.
LEMMA FindEndKeeps ==
  ASSUME LogInv, LOG!FindEnd
  PROVE  LogInv'
<1>1. /\ lPc = "find" /\ lPc' = "found"
      /\ UNCHANGED <<lLog, lRequest, lEof, lLine_no, lCounts, lShown, lTruncated>>
  BY DEF LOG!FindEnd
<1>2. lRequest.opened
  BY <1>1 DEF LogInv, LogPlaces
<1>3. LinesRead >= lRequest.ended
  <2>1. /\ lLine_no \in Int /\ lRequest.ended \in Int
        /\ Len(lLog) \in Int /\ lRequest.ended <= Len(lLog) - 1
    BY DEF LogInv, LogTypes, LogPlaces
  <2>2. lEof \/ ~(lLine_no < Len(lLog) - 1)
    BY DEF LOG!FindEnd, LOG!More, LOG!Ended
  <2>3. lEof => lLine_no > lRequest.ended
    BY DEF LogInv, LogPlaces
  <2> QED BY <2>1, <2>2, <2>3 DEF LinesRead
<1>4. LogTypes' /\ LogPlaces'
  <2>1. LogTypes /\ LogPlaces
    BY DEF LogInv
  <2>2. LogTypes'
    BY <1>1, <2>1 DEF LogTypes
  <2> QED BY <1>1, <2>1, <2>2 DEF LogPlaces
<1>5. DigestInv' /\ SamplesInv'
  BY <1>1 DEF DigestInv, SamplesInv
<1>6. FindInv'
  <2>1. /\ FindInv /\ Matching' = Matching /\ LinesRead' = LinesRead
        /\ LOG!ShownLines' = LOG!ShownLines
    BY <1>1 DEF LogInv, Matching, LinesRead, LOG!ShownLines
  <2> QED BY <1>1, <1>2, <1>3, <2>1 DEF FindInv
<1> QED BY <1>4, <1>5, <1>6 DEF LogInv

\* A search keeps the line it reads if it matches, and stops at its limit.
LEMMA FindLineKeeps ==
  ASSUME LogInv, LOG!FindLine
  PROVE  LogInv'
<1> DEFINE n == lLine_no + 1
           line == lLog[n]
           matches == lRequest.pattern \in LOG!ToSet(line)
<1>1. /\ ~lEof /\ lLine_no \in Nat /\ Len(lLog) \in Nat /\ n \in 1 .. Len(lLog)
      /\ line \in Seq(Words) /\ LinesRead = lLine_no
      /\ lRequest.ended \in 0 .. Len(lLog) - 1
  BY LineIsThere DEF LOG!FindLine
<1>2. /\ lPc = "find" /\ lLine_no' = n /\ (lEof' <=> n = Len(lLog))
      /\ lEof' \in BOOLEAN
      /\ UNCHANGED <<lLog, lRequest, lCounts>>
  <2>1. lEof' = (lLine_no = Len(lLog) - 1)
    BY DEF LOG!FindLine, LOG!Ended
  <2>2. lLine_no = Len(lLog) - 1 <=> n = Len(lLog)
    BY <1>1
  <2> HIDE DEF n
  <2>3. lPc = "find" /\ lLine_no' = n /\ UNCHANGED <<lLog, lRequest, lCounts>>
    BY DEF LOG!FindLine, n
  <2> QED BY <2>1, <2>2, <2>3
<1>3. lShown' = IF matches THEN Append(lShown, LOG!Show(line)) ELSE lShown
  BY DEF LOG!FindLine
<1>4. /\ lTruncated' = (matches /\ Len(lShown') >= lRequest.limit)
      /\ lPc' = IF lTruncated' THEN "found" ELSE lPc
  BY DEF LOG!FindLine, LOG!AtLimit
<1>5. lRequest.opened
  BY <1>2 DEF LogInv, LogPlaces
<1>6. /\ lShown \in Seq(Shown) /\ Len(lShown) \in Nat /\ lRequest.limit \in Int
      /\ Len(lShown) < lRequest.limit
  BY <1>2, <1>5 DEF LogInv, LogTypes, LogPlaces, FindInv
<1> DEFINE show == LOG!Show(line)
<1>7. show \in Shown /\ show.line = n /\ Len(show.text) <= MaxText
  BY <1>1, ShownIsPrefix DEF LogInv
<1> HIDE DEF line, show, matches
<1>8. LET longer == Append(lShown, show) IN
        /\ longer \in Seq(Shown)
        /\ DOMAIN lShown = 1 .. Len(lShown) /\ Len(longer) = Len(lShown) + 1
        /\ DOMAIN longer = (1 .. Len(lShown)) \cup {Len(lShown) + 1}
        /\ \A i \in 1 .. Len(lShown) : longer[i] = lShown[i]
        /\ longer[Len(lShown) + 1] = show
  BY <1>6, <1>7, AppendGrows
<1>9. /\ lTruncated' \in BOOLEAN
      /\ lTruncated' <=> matches /\ Len(lShown') >= lRequest.limit
  BY <1>4
<1>10. lShown' = IF matches THEN Append(lShown, show) ELSE lShown
  BY <1>3 DEF show
<1>11. LogTypes'
  <2>1. lShown' \in Seq(Shown)
    BY <1>6, <1>8, <1>10
  <2>2. \A i \in DOMAIN lShown' : Len(lShown'[i].text) <= MaxText
    <3>1. \A i \in DOMAIN lShown : Len(lShown[i].text) <= MaxText
      BY DEF LogInv, LogTypes
    <3> QED BY <1>7, <1>8, <1>10, <3>1
  <2>3. lLine_no' \in 0 .. Len(lLog') /\ lEof' \in BOOLEAN
    BY <1>1, <1>2
  <2>4. \A s \in LOG!Severities : lCounts'[s] <= lLine_no'
    <3>1. \A s \in LOG!Severities : lCounts[s] \in Nat /\ lCounts[s] <= lLine_no
      BY DEF LogInv, LogTypes
    <3> QED BY <1>1, <1>2, <3>1
  <2>5. lPc' \in {"find", "found"}
    BY <1>2, <1>4
  <2> QED BY <1>2, <1>9, <2>1, <2>2, <2>3, <2>4, <2>5 DEF LogInv, LogTypes
<1>12. lPc' \in {"find", "found"} /\ (lPc' = "found" <=> lTruncated')
  BY <1>2, <1>4, <1>9
<1>13. LogPlaces'
  <2>1. ~lEof' => lLine_no' <= Len(lLog) - 1
    BY <1>1, <1>2
  <2>2. lEof' => lLine_no' > lRequest.ended
    BY <1>1, <1>2
  <2> QED BY <1>2, <1>12, <2>1, <2>2 DEF LogInv, LogPlaces
<1>14. DigestInv' /\ SamplesInv'
  BY <1>12 DEF DigestInv, SamplesInv
<1>15. FindInv'
  <2>1. /\ LOG!ShownLines \subseteq Matching
        /\ \A i \in Matching : i <= lLine_no => i \in LOG!ShownLines
    BY <1>1, <1>2, <1>5 DEF LogInv, FindInv
  <2>2. Matching' = Matching /\ Matching \subseteq Int /\ (matches <=> n \in Matching)
    BY <1>1, <1>2 DEF Matching, matches, line
  <2>3. LOG!ShownLines' = IF matches THEN LOG!ShownLines \cup {n} ELSE LOG!ShownLines
    <3>1. CASE matches
      <4>1. lShown' = Append(lShown, show)
        BY <1>10, <3>1
      <4>2. /\ DOMAIN lShown' = DOMAIN lShown \cup {Len(lShown) + 1}
            /\ \A i \in DOMAIN lShown : lShown'[i] = lShown[i]
            /\ lShown'[Len(lShown) + 1].line = n
        BY <1>7, <1>8, <4>1
      <4> HIDE DEF n
      <4> QED BY <3>1, <4>2 DEF LOG!ShownLines
    <3>2. CASE ~matches
      BY <1>10, <3>2 DEF LOG!ShownLines
    <3> QED BY <3>1, <3>2
  <2>4. LinesRead' <= n
    BY <1>1, <1>2 DEF LinesRead
  <2>5. LOG!ShownLines' \subseteq Matching'
    BY <2>1, <2>2, <2>3
  <2>6. \A i \in Matching' : i <= LinesRead' => i \in LOG!ShownLines'
    <3>1. \A i \in Matching : i <= n => i <= lLine_no \/ i = n
      BY <1>1, <2>2
    <3>2. LinesRead' \in Int /\ n \in Int
      BY <1>1, <1>2 DEF LinesRead
    <3>3. \A i \in Matching : i <= LinesRead' => i <= n
      BY <2>2, <2>4, <3>2
    <3> QED BY <2>1, <2>2, <2>3, <3>1, <3>3
  <2>7. Len(lShown') = (IF matches THEN Len(lShown) + 1 ELSE Len(lShown))
    BY <1>8, <1>10
  <2>8. lTruncated' => Len(lShown') = lRequest.limit /\ n \in LOG!ShownLines'
    BY <1>6, <1>9, <2>3, <2>7
  <2>9. ~lTruncated' => Len(lShown') < lRequest.limit
    BY <1>6, <1>9, <2>7
  <2> QED BY <1>2, <1>12, <2>5, <2>6, <2>8, <2>9 DEF FindInv
<1> QED BY <1>11, <1>13, <1>14, <1>15 DEF LogInv

\* Nothing outlives a call.
LEMMA LogReturnKeeps ==
  ASSUME LogInv, LOG!Return
  PROVE  LogInv'
<1>1. /\ lLog' = lLog /\ lPc' = "idle" /\ lEof' = FALSE /\ lLine_no' = 0
      /\ lTruncated' = FALSE /\ lShown' = <<>>
      /\ lRequest'.limit = 0 /\ lRequest'.opened = FALSE /\ lRequest'.ended = 0
  BY DEF LOG!Return, LOG!NoRequest
<1>2. lCounts' \in [LOG!Severities -> Nat] /\ \A s \in LOG!Severities : lCounts'[s] = 0
  BY DEF LOG!Return
<1>3. lLog \in Seq(Seq(Words)) /\ Len(lLog) \in 1 .. MaxLines
      /\ \A i \in DOMAIN lLog : Len(lLog[i]) <= MaxWords
  BY DEF LogInv, LogTypes
<1> HIDE DEF LogInv
<1>4. LogTypes'
  <2>1. \A S : <<>> \in Seq(S) /\ DOMAIN <<>> = {}
    OBVIOUS
  <2>2. lShown' \in Seq(Shown) /\ DOMAIN lShown' = {}
    BY <1>1, <2>1
  <2>3. lLine_no' \in 0 .. Len(lLog') /\ lEof' \in BOOLEAN /\ lTruncated' \in BOOLEAN
    <3>1. 0 \in 0 .. Len(lLog)
      BY <1>3
    <3> QED BY <1>1, <3>1
  <2>4. /\ lLog' \in Seq(Seq(Words)) /\ Len(lLog') \in 1 .. MaxLines
        /\ \A i \in DOMAIN lLog' : Len(lLog'[i]) <= MaxWords
    BY <1>1, <1>3
  <2>5. /\ \A s \in LOG!Severities : lCounts'[s] <= lLine_no'
        /\ lPc' \in {"idle", "digest", "digested", "find", "found", "threw"}
    BY <1>1, <1>2
  <2>6. \A i \in DOMAIN lShown' : Len(lShown'[i].text) <= MaxText
    BY <2>2
  <2> QED BY <1>2, <2>2, <2>3, <2>4, <2>5, <2>6 DEF LogTypes
<1>5. LogPlaces'
  <2>1. 0 \in 0 .. Len(lLog') - 1 /\ 0 <= Len(lLog') - 1
    BY <1>1, <1>3
  <2>2. /\ lRequest'.limit \in Int /\ lRequest'.ended \in 0 .. Len(lLog') - 1
        /\ lRequest'.opened \in BOOLEAN
    <3>1. lRequest'.limit \in Int
      BY <1>1
    <3>2. lRequest'.opened \in BOOLEAN
      BY <1>1
    <3>3. lRequest'.ended \in 0 .. Len(lLog') - 1
      BY <1>1, <2>1, Zenon
    <3> QED BY <3>1, <3>2, <3>3
  <2> QED BY <1>1, <2>1, <2>2 DEF LogPlaces
<1>6. DigestInv' /\ SamplesInv' /\ FindInv'
  BY <1>1 DEF DigestInv, SamplesInv, FindInv
<1> QED BY <1>4, <1>5, <1>6 DEF LogInv

\* The lines that have ended do not change.
LEMMA WrittenLog ==
  ASSUME LogInv, LOG!Write
  PROVE  /\ lLog' \in Seq(Seq(Words)) /\ Len(lLog') \in 1 .. MaxLines
         /\ Len(lLog) \in Nat /\ Len(lLog) <= Len(lLog')
         /\ \A i \in DOMAIN lLog' : Len(lLog'[i]) <= MaxWords
         /\ \A i \in 1 .. Len(lLog) - 1 : lLog'[i] = lLog[i]
         /\ LOG!ToSet(lLog[Len(lLog)]) \subseteq LOG!ToSet(lLog'[Len(lLog)])
<1>1. /\ lLog \in Seq(Seq(Words)) /\ Len(lLog) \in 1 .. MaxLines /\ Len(lLog) \in Nat
      /\ MaxLines \in Nat /\ MaxWords \in Nat
      /\ DOMAIN lLog = 1 .. Len(lLog) /\ Len(lLog) \in 1 .. Len(lLog)
      /\ \A i \in 1 .. Len(lLog) : lLog[i] \in Seq(Words) /\ Len(lLog[i]) <= MaxWords
  <2>1. /\ lLog \in Seq(Seq(Words)) /\ Len(lLog) \in 1 .. MaxLines
        /\ \A i \in DOMAIN lLog : Len(lLog[i]) <= MaxWords
    BY DEF LogInv, LogTypes
  <2>2. MaxLines \in Nat /\ MaxWords \in Nat
    BY LogAssumption DEF LogAssumption
  <2>3. Len(lLog) \in Nat /\ DOMAIN lLog = 1 .. Len(lLog) /\ Len(lLog) \in 1 .. Len(lLog)
    BY <2>1
  <2> QED BY <2>1, <2>2, <2>3, ElementOfSeq
<1> DEFINE last == Len(lLog)
<1>2. ASSUME NEW word \in Words, Len(LOG!Last(lLog)) < MaxWords,
             lLog' = [lLog EXCEPT ![Len(lLog)] = Append(@, word)]
      PROVE  /\ lLog' \in Seq(Seq(Words)) /\ Len(lLog') = last
             /\ \A i \in DOMAIN lLog' : Len(lLog'[i]) <= MaxWords
             /\ \A i \in 1 .. last - 1 : lLog'[i] = lLog[i]
             /\ LOG!ToSet(lLog[last]) \subseteq LOG!ToSet(lLog'[last])
  <2> DEFINE line == lLog[last]
             longer == Append(line, word)
  <2>1. line \in Seq(Words) /\ Len(line) < MaxWords
    BY <1>1, <1>2 DEF LOG!Last
  <2> HIDE DEF line
  <2>2. /\ longer \in Seq(Words) /\ Len(line) \in Nat
        /\ DOMAIN line = 1 .. Len(line) /\ Len(longer) = Len(line) + 1
        /\ DOMAIN longer = (1 .. Len(line)) \cup {Len(line) + 1}
        /\ \A i \in 1 .. Len(line) : longer[i] = line[i]
    BY <1>2, <2>1, AppendGrows
  <2>3. LOG!ToSet(line) \subseteq LOG!ToSet(longer)
    <3> HIDE DEF longer
    <3> QED BY <2>2 DEF LOG!ToSet
  <2>4. lLog' = [lLog EXCEPT ![last] = longer]
    BY <1>2 DEF line
  <2> HIDE DEF longer
  <2>5. /\ lLog' \in Seq(Seq(Words)) /\ Len(lLog') = last
        /\ \A i \in 1 .. last : i # last => lLog'[i] = lLog[i]
        /\ lLog'[last] = longer
    <3> HIDE DEF last
    <3>2. last \in 1 .. Len(lLog) /\ last = Len(lLog)
      BY <1>1 DEF last
    <3>3. lLog \in Seq(Seq(Words)) /\ longer \in Seq(Words)
      BY <1>1, <2>2
    <3>4. /\ lLog' \in Seq(Seq(Words)) /\ Len(lLog') = Len(lLog)
          /\ \A j \in 1 .. Len(lLog) :
               lLog'[j] = IF j = last THEN longer ELSE lLog[j]
      BY <2>4, <3>2, <3>3, ExceptSeq
    <3> QED BY <3>2, <3>4
  <2>6. Len(longer) <= MaxWords
    BY <1>1, <2>1, <2>2
  <2>7. DOMAIN lLog' = 1 .. last
    BY <2>5
  <2> HIDE DEF last
  <2>8. \A i \in 1 .. last - 1 : i \in 1 .. last /\ i # last
    <3>1. last \in Nat
      BY <1>1 DEF last
    <3> QED BY <3>1
  <2>9. /\ \A i \in DOMAIN lLog' : Len(lLog'[i]) <= MaxWords
        /\ \A i \in 1 .. last - 1 : lLog'[i] = lLog[i]
    <3>1. \A i \in 1 .. last : i # last => Len(lLog[i]) <= MaxWords
      BY <1>1 DEF last
    <3>2. \A i \in DOMAIN lLog' : i # last => Len(lLog'[i]) <= MaxWords
      BY <2>5, <2>7, <3>1
    <3>3. \A i \in DOMAIN lLog' : Len(lLog'[i]) <= MaxWords
      <4>1. lLog'[last] = longer
        BY <2>5
      <4>2. Len(lLog'[last]) <= MaxWords
        BY <2>6, <4>1
      <4> QED BY <3>2, <4>2
    <3>4. \A i \in 1 .. last - 1 : lLog'[i] = lLog[i]
      BY <2>5, <2>8
    <3> QED BY <3>3, <3>4
  <2>10. LOG!ToSet(lLog[last]) \subseteq LOG!ToSet(lLog'[last])
    <3>1. longer = lLog'[last]
      BY <2>5
    <3>2. line = lLog[last]
      BY DEF line
    <3> QED BY <2>3, <3>1, <3>2
  <2> QED BY <2>5, <2>9, <2>10
<1>3. ASSUME last < MaxLines, lLog' = Append(lLog, <<>>)
      PROVE  /\ lLog' \in Seq(Seq(Words)) /\ Len(lLog') = last + 1
             /\ \A i \in DOMAIN lLog' : Len(lLog'[i]) <= MaxWords
             /\ \A i \in 1 .. last : lLog'[i] = lLog[i]
  <2>1. <<>> \in Seq(Words) /\ Len(<<>>) = 0
    OBVIOUS
  <2>2. /\ lLog' \in Seq(Seq(Words)) /\ Len(lLog') = last + 1
        /\ DOMAIN lLog' = (1 .. last) \cup {last + 1}
        /\ \A i \in 1 .. last : lLog'[i] = lLog[i]
        /\ lLog'[last + 1] = <<>>
    <3> DEFINE blank == <<>>
    <3>1. blank \in Seq(Words)
      BY <2>1
    <3>2. lLog' = Append(lLog, blank)
      BY <1>3
    <3> HIDE DEF blank
    <3>3. /\ lLog' \in Seq(Seq(Words)) /\ Len(lLog') = last + 1
          /\ DOMAIN lLog' = (1 .. last) \cup {last + 1}
          /\ \A i \in 1 .. last : lLog'[i] = lLog[i]
          /\ lLog'[last + 1] = blank
      BY <1>1, <3>1, <3>2, AppendGrows
    <3> QED BY <3>3 DEF blank
  <2>3. Len(lLog'[last + 1]) <= MaxWords
    BY <1>1, <2>1, <2>2
  <2> QED BY <1>1, <2>2, <2>3
<1>4. \/ \E word \in Words : /\ Len(LOG!Last(lLog)) < MaxWords
                             /\ lLog' = [lLog EXCEPT ![Len(lLog)] = Append(@, word)]
      \/ Len(lLog) < MaxLines /\ lLog' = Append(lLog, <<>>)
  BY DEF LOG!Write
<1>5. CASE \E word \in Words : /\ Len(LOG!Last(lLog)) < MaxWords
                               /\ lLog' = [lLog EXCEPT ![Len(lLog)] = Append(@, word)]
  <2>1. /\ lLog' \in Seq(Seq(Words)) /\ Len(lLog') = last
        /\ \A i \in DOMAIN lLog' : Len(lLog'[i]) <= MaxWords
        /\ \A i \in 1 .. last - 1 : lLog'[i] = lLog[i]
        /\ LOG!ToSet(lLog[last]) \subseteq LOG!ToSet(lLog'[last])
    BY <1>2, <1>5
  <2> QED BY <1>1, <2>1
<1>6. CASE Len(lLog) < MaxLines /\ lLog' = Append(lLog, <<>>)
  <2>1. /\ lLog' \in Seq(Seq(Words)) /\ Len(lLog') = last + 1
        /\ \A i \in DOMAIN lLog' : Len(lLog'[i]) <= MaxWords
        /\ \A i \in 1 .. last : lLog'[i] = lLog[i]
    BY <1>3, <1>6
  <2>2. \A i \in 1 .. last - 1 : i \in 1 .. last
    BY <1>1
  <2>3. last + 1 \in 1 .. MaxLines /\ last <= last + 1
    BY <1>1, <1>6
  <2> QED BY <1>1, <2>1, <2>2, <2>3
<1> QED BY <1>4, <1>5, <1>6

\* The log grows under a call: what is known is of lines that had ended.
LEMMA LogWriteKeeps ==
  ASSUME LogInv, LOG!Write
  PROVE  LogInv'
<1>1. UNCHANGED <<lPc, lRequest, lEof, lLine_no, lCounts, lShown, lTruncated>>
  BY DEF LOG!Write
<1>2. /\ lLog' \in Seq(Seq(Words)) /\ Len(lLog') \in 1 .. MaxLines
      /\ Len(lLog) \in Nat /\ Len(lLog') \in Nat /\ Len(lLog) <= Len(lLog')
      /\ \A i \in DOMAIN lLog' : Len(lLog'[i]) <= MaxWords
      /\ \A i \in 1 .. Len(lLog) - 1 : lLog'[i] = lLog[i]
      /\ LOG!ToSet(lLog[Len(lLog)]) \subseteq LOG!ToSet(lLog'[Len(lLog)])
  BY WrittenLog
<1>3. LogTypes /\ LogPlaces /\ DigestInv /\ SamplesInv /\ FindInv
  BY DEF LogInv
<1>4. LogTypes'
  <2>1. lLine_no' \in 0 .. Len(lLog')
    BY <1>1, <1>2, <1>3 DEF LogTypes
  <2> QED BY <1>1, <1>2, <1>3, <2>1 DEF LogTypes
<1>5. LogPlaces'
  <2>1. lRequest.ended \in 0 .. Len(lLog) - 1 /\ lLine_no \in Int
    BY <1>3 DEF LogTypes, LogPlaces
  <2>2. lRequest.ended \in 0 .. Len(lLog') - 1
        /\ (lLine_no <= Len(lLog) - 1 => lLine_no <= Len(lLog') - 1)
    BY <1>2, <2>1
  <2> QED BY <1>1, <1>3, <2>2 DEF LogPlaces
<1>6. LinesRead \in Int /\ LinesRead <= Len(lLog) - 1 /\ LinesRead' = LinesRead
  <2>1. lLine_no \in 0 .. Len(lLog) /\ (~lEof => lLine_no <= Len(lLog) - 1)
    BY <1>3 DEF LogTypes, LogPlaces
  <2> QED BY <1>1, <1>2, <2>1 DEF LinesRead
<1>7. \A i \in 1 .. LinesRead : i \in 1 .. Len(lLog) - 1 /\ lLog'[i] = lLog[i]
  BY <1>2, <1>6
<1>8. DigestInv'
  <2>1. \A s : Of(s)' = Of(s)
    BY <1>6, <1>7 DEF Of
  <2> QED BY <1>1, <1>3, <2>1 DEF DigestInv
<1>9. SamplesInv'
  <2>1. SUFFICES ASSUME ~lEof PROVE SamplesInv'
    BY <1>1 DEF SamplesInv
  <2>2. \A i \in 1 .. lLine_no : lLog'[i] = lLog[i]
    BY <1>7, <2>1 DEF LinesRead
  <2>3. /\ LOG!SevereLines(lLine_no)' = LOG!SevereLines(lLine_no)
        /\ LOG!ShownLines' = LOG!ShownLines
    BY <1>1, <2>2 DEF LOG!SevereLines, LOG!ShownLines
  <2>4. \A i \in LOG!SevereLines(lLine_no) : lLog'[i] = lLog[i]
    BY <2>2 DEF LOG!SevereLines
  <2> QED BY <1>1, <1>3, <2>3, <2>4 DEF SamplesInv
<1>10. FindInv'
  <2>1. Matching \subseteq Matching'
    <3>1. ASSUME NEW i \in 1 .. Len(lLog)
          PROVE  i \in 1 .. Len(lLog') /\ LOG!ToSet(lLog[i]) \subseteq LOG!ToSet(lLog'[i])
      <4>1. i \in 1 .. Len(lLog')
        BY <1>2
      <4>2. CASE i = Len(lLog)
        BY <1>2, <4>1, <4>2
      <4>3. CASE i # Len(lLog)
        <5>1. i \in 1 .. Len(lLog) - 1
          BY <1>2, <4>3
        <5> QED BY <1>2, <4>1, <5>1
      <4> QED BY <4>2, <4>3
    <3> QED BY <1>1, <3>1 DEF Matching
  <2>2. \A i \in Matching' : i <= LinesRead => i \in Matching
    <3>1. \A i \in Matching' : i <= LinesRead => i \in 1 .. LinesRead /\ i \in 1 .. Len(lLog)
      BY <1>2, <1>6 DEF Matching
    <3> QED BY <1>1, <1>7, <3>1 DEF Matching
  <2>3. LOG!ShownLines' = LOG!ShownLines
    BY <1>1 DEF LOG!ShownLines
  <2> QED BY <1>1, <1>3, <1>6, <2>1, <2>2, <2>3 DEF FindInv
<1> QED BY <1>4, <1>5, <1>8, <1>9, <1>10 DEF LogInv

\* The steps of the other servers change nothing of this one.
LEMMA LogStays == LogInv /\ UNCHANGED logVars => LogInv'
<1> SUFFICES ASSUME LogInv, UNCHANGED logVars PROVE LogInv'
  OBVIOUS
<1> USE DEF logVars
<1>1. /\ \A s : Of(s)' = Of(s)
      /\ LOG!SevereLines(lLine_no)' = LOG!SevereLines(lLine_no)
      /\ LOG!ShownLines' = LOG!ShownLines /\ Matching' = Matching
      /\ LinesRead' = LinesRead
  BY DEF Of, LinesRead, LOG!SevereLines, LOG!ShownLines, Matching
<1>2. LogTypes' /\ LogPlaces'
  BY DEF LogInv, LogTypes, LogPlaces
<1>3. DigestInv' /\ SamplesInv' /\ FindInv'
  BY <1>1 DEF LogInv, DigestInv, SamplesInv, FindInv
<1> QED BY <1>2, <1>3 DEF LogInv

\* LogInv is inductive.
LEMMA LogStepKeeps == LogInv /\ LOG!Next => LogInv'
BY LogCallsKeep, DigestLineKeeps, DigestEndKeeps, FindLineKeeps, FindEndKeeps,
   LogReturnKeeps, LogWriteKeeps DEF LOG!Next

\* What the replies promise follows.
LEMMA LogInvShows == LogInv => LogIsReported
<1> SUFFICES ASSUME LogInv PROVE LogIsReported
  OBVIOUS
<1> USE DEF LogInv
<1>1. LOG!TypeOK
  <2>1. \A i \in DOMAIN lLog : LOG!ToSet(lLog[i]) \subseteq Words
    <3>1. \A line \in Seq(Words) : LOG!ToSet(line) \subseteq Words
      BY DEF LOG!ToSet
    <3> QED BY <3>1 DEF LogTypes
  <2>2. \A s \in LOG!Severities : lCounts[s] <= MaxLines
    <3>1. lLine_no \in Int /\ lLine_no <= MaxLines /\ MaxLines \in Int
      BY LogAssumption DEF LogTypes, LogAssumption
    <3>2. \A s \in LOG!Severities : lCounts[s] \in Nat /\ lCounts[s] <= lLine_no
      BY DEF LogTypes
    <3> QED BY <3>1, <3>2
  <2> QED BY <2>1, <2>2 DEF LOG!TypeOK, LogTypes, LogPlaces
<1>2. LOG!DigestIsOfTheFirstLines
  BY SameCardinality DEF LOG!DigestIsOfTheFirstLines, LOG!Digested, DigestInv,
     Of, LinesRead
<1>3. LOG!SamplesAreTheFirstSevere
  BY DEF LOG!SamplesAreTheFirstSevere, LOG!Digested, SamplesInv, LOG!ShownLines
<1>4. LOG!MatchesAreComplete
  <2>1. SUFFICES ASSUME LOG!Found
                 PROVE  /\ LOG!ShownLines \subseteq Matching
                        /\ lTruncated <=> Len(lShown) = lRequest.limit
                        /\ \A i \in Matching \ LOG!ShownLines :
                             i > IF lTruncated THEN lLine_no ELSE lRequest.ended
    BY DEF LOG!MatchesAreComplete, Matching
  <2>2. FindInv /\ lPc = "found" /\ lRequest.opened
    BY <2>1 DEF LOG!Found
  <2>3. lLine_no \in Int /\ lRequest.ended \in Int /\ Matching \subseteq Int
        /\ Len(lShown) \in Int /\ lRequest.limit \in Int /\ lTruncated \in BOOLEAN
    BY DEF LogTypes, LogPlaces, Matching
  <2>4. ASSUME NEW i \in Matching \ LOG!ShownLines
        PROVE  i > IF lTruncated THEN lLine_no ELSE lRequest.ended
    BY <2>2, <2>3, <2>4 DEF FindInv, LinesRead
  <2>5. /\ LOG!ShownLines \subseteq Matching
        /\ lTruncated <=> Len(lShown) = lRequest.limit
    BY <2>2, <2>3 DEF FindInv
  <2> QED BY <2>4, <2>5
<1> QED BY <1>1, <1>2, <1>3, <1>4 DEF LogIsReported

-----------------------------------------------------------------------------
(* The tree that changes under a walk.                                     *)

Leq(p, q) == WORKSPACE!IsPrefix(p, q)
Above(p) == {SubSeq(p, 1, n) : n \in 1 .. Len(p) - 1}
Places == WORKSPACE!Paths
NoPlace == WORKSPACE!NoPath

\* Leq is the order of the paths: one leads to the other.
LEMMA Prefixes ==
  ASSUME NEW S, NEW p \in Seq(S), NEW q \in Seq(S)
  PROVE  Leq(p, q) <=> Len(p) <= Len(q) /\ \A i \in 1 .. Len(p) : p[i] = q[i]
<1>1. Len(p) \in Nat /\ Len(q) \in Nat /\ SubSeq(p, 1, Len(p)) = p
  BY LenProperties, SubSeqFull
<1>2. CASE Len(p) <= Len(q)
  <2> DEFINE r == SubSeq(q, 1, Len(p))
  <2>1. r \in Seq(S) /\ Len(r) = Len(p) /\ \A i \in 1 .. Len(p) : r[i] = q[i]
    <3>1. \A i \in 1 .. Len(p) : i \in 1 .. Len(q)
      BY <1>1, <1>2
    <3>2. \A i \in 1 .. Len(p) : q[i] \in S
      BY <3>1, ElementOfSeq
    <3>3. Len(r) = Len(p) /\ \A i \in 1 .. Len(p) : r[i] = q[i]
      BY <1>1, <1>2, SubSeqProperties
    <3>4. r \in Seq(S)
      BY <1>1, <1>2, SubSeqProperties
    <3> QED BY <3>3, <3>4
  <2>2. p = r <=> \A i \in 1 .. Len(p) : p[i] = r[i]
    <3> HIDE DEF r
    <3> QED BY <2>1, SeqEqual
  <2>3. Leq(p, q) <=> p = r
    BY <1>1, <1>2 DEF Leq, WORKSPACE!IsPrefix
  <2> HIDE DEF r
  <2> QED BY <1>2, <2>1, <2>2, <2>3
<1>3. CASE ~(Len(p) <= Len(q))
  BY <1>3 DEF Leq, WORKSPACE!IsPrefix
<1> QED BY <1>2, <1>3

\* It is an order, and what leads to the same path is ordered.
LEMMA PrefixOrder ==
  ASSUME NEW S
  PROVE  /\ \A p \in Seq(S) : Leq(p, p)
         /\ \A p, q \in Seq(S) : Leq(p, q) /\ Leq(q, p) => p = q
         /\ \A p, q, r \in Seq(S) : Leq(p, q) /\ Leq(q, r) => Leq(p, r)
         /\ \A p, q, r \in Seq(S) : Leq(p, r) /\ Leq(q, r) => Leq(p, q) \/ Leq(q, p)
<1>1. \A p \in Seq(S) : Leq(p, p)
  BY Prefixes, LenProperties
<1>2. ASSUME NEW p \in Seq(S), NEW q \in Seq(S), Leq(p, q), Leq(q, p)
      PROVE  p = q
  <2>1. Len(p) \in Nat /\ Len(q) \in Nat
    BY LenProperties
  <2>2. Len(p) = Len(q) /\ \A i \in 1 .. Len(p) : p[i] = q[i]
    BY <1>2, <2>1, Prefixes
  <2> QED BY <2>2, SeqEqual
<1>3. ASSUME NEW p \in Seq(S), NEW q \in Seq(S), NEW r \in Seq(S), Leq(p, q), Leq(q, r)
      PROVE  Leq(p, r)
  <2>1. Len(p) \in Nat /\ Len(q) \in Nat /\ Len(r) \in Nat
    BY LenProperties
  <2>2. /\ Len(p) <= Len(q) /\ \A i \in 1 .. Len(p) : p[i] = q[i]
        /\ Len(q) <= Len(r) /\ \A i \in 1 .. Len(q) : q[i] = r[i]
    BY <1>3, Prefixes
  <2>3. Len(p) <= Len(r) /\ \A i \in 1 .. Len(p) : p[i] = r[i]
    BY <2>1, <2>2
  <2> QED BY <2>3, Prefixes
<1>4. ASSUME NEW p \in Seq(S), NEW q \in Seq(S), NEW r \in Seq(S), Leq(p, r), Leq(q, r)
      PROVE  Leq(p, q) \/ Leq(q, p)
  <2>1. Len(p) \in Nat /\ Len(q) \in Nat /\ Len(r) \in Nat
    BY LenProperties
  <2>2. /\ Len(p) <= Len(r) /\ \A i \in 1 .. Len(p) : p[i] = r[i]
        /\ Len(q) <= Len(r) /\ \A i \in 1 .. Len(q) : q[i] = r[i]
    BY <1>4, Prefixes
  <2>3. \/ Len(p) <= Len(q) /\ \A i \in 1 .. Len(p) : p[i] = q[i]
        \/ Len(q) <= Len(p) /\ \A i \in 1 .. Len(q) : q[i] = p[i]
    BY <2>1, <2>2
  <2> QED BY <2>3, Prefixes
<1> QED BY <1>1, <1>2, <1>3, <1>4

\* The path is below each of its beginnings, and there are no others.
LEMMA Beginnings ==
  ASSUME NEW S, NEW p \in Seq(S)
  PROVE  /\ \A n \in 0 .. Len(p) : /\ SubSeq(p, 1, n) \in Seq(S)
                                   /\ Len(SubSeq(p, 1, n)) = n
                                   /\ Leq(SubSeq(p, 1, n), p)
         /\ \A r \in Seq(S) : Leq(r, p) => r = SubSeq(p, 1, Len(r)) /\ Len(r) \in 0 .. Len(p)
<1>1. Len(p) \in Nat
  BY LenProperties
<1>2. ASSUME NEW n \in 0 .. Len(p)
      PROVE  /\ SubSeq(p, 1, n) \in Seq(S) /\ Len(SubSeq(p, 1, n)) = n
             /\ \A i \in 1 .. n : SubSeq(p, 1, n)[i] = p[i]
  <2>1. \A i \in 1 .. n : i \in 1 .. Len(p)
    BY <1>1
  <2>2. \A i \in 1 .. n : p[i] \in S
    BY <2>1, ElementOfSeq
  <2>3. n \in Int /\ 1 \in Int /\ n <= Len(p) /\ 0 <= n
    BY <1>1
  <2>4. Len(SubSeq(p, 1, n)) = n /\ \A i \in 1 .. n : SubSeq(p, 1, n)[i] = p[i]
    BY <1>1, <2>3, SubSeqProperties
  <2>5. SubSeq(p, 1, n) \in Seq(S)
    BY <1>1, <2>3, SubSeqProperties
  <2> QED BY <2>4, <2>5
<1>3. ASSUME NEW n \in 0 .. Len(p) PROVE Leq(SubSeq(p, 1, n), p)
  <2> DEFINE r == SubSeq(p, 1, n)
  <2>1. /\ r \in Seq(S) /\ Len(r) = n /\ \A i \in 1 .. n : r[i] = p[i]
        /\ n <= Len(p)
    BY <1>1, <1>2
  <2> HIDE DEF r
  <2>2. Leq(r, p)
    BY <2>1, Prefixes
  <2> QED BY <2>2 DEF r
<1>4. ASSUME NEW r \in Seq(S), Leq(r, p)
      PROVE  r = SubSeq(p, 1, Len(r)) /\ Len(r) \in 0 .. Len(p)
  <2>1. Len(r) \in 0 .. Len(p) /\ \A i \in 1 .. Len(r) : r[i] = p[i]
    BY <1>1, <1>4, LenProperties, Prefixes
  <2> DEFINE s == SubSeq(p, 1, Len(r))
  <2>2. s \in Seq(S) /\ Len(s) = Len(r) /\ \A i \in 1 .. Len(r) : s[i] = p[i]
    BY <1>2, <2>1
  <2> HIDE DEF s
  <2>3. r = s
    BY <2>1, <2>2, SeqEqual
  <2> QED BY <2>1, <2>3 DEF s
<1> QED BY <1>2, <1>3, <1>4

\* Above(p): the paths that lead to p.
LEMMA AbovePath ==
  ASSUME NEW S, NEW p \in Seq(S), NEW r \in Seq(S)
  PROVE  r \in Above(p) <=> r # <<>> /\ r # p /\ Leq(r, p)
<1>1. Len(p) \in Nat /\ Len(r) \in Nat
  BY LenProperties
<1>2. ASSUME r \in Above(p) PROVE r # <<>> /\ r # p /\ Leq(r, p)
  <2>1. PICK n \in 1 .. Len(p) - 1 : r = SubSeq(p, 1, n)
    BY <1>2 DEF Above
  <2>2. n \in 0 .. Len(p) /\ n # 0 /\ n # Len(p)
    BY <1>1
  <2>3. Len(r) = n /\ Leq(r, p)
    BY <2>1, <2>2, Beginnings
  <2>4. r # <<>>
    <3>1. Len(<<>>) = 0
      OBVIOUS
    <3> QED BY <2>2, <2>3, <3>1
  <2> QED BY <2>2, <2>3, <2>4
<1>3. ASSUME r # <<>>, r # p, Leq(r, p) PROVE r \in Above(p)
  <2>1. r = SubSeq(p, 1, Len(r)) /\ Len(r) \in 0 .. Len(p)
    BY <1>3, Beginnings
  <2>2. Len(r) # 0
    BY <1>3, EmptySeq
  <2>3. Len(r) # Len(p)
    BY <1>3, <2>1, SubSeqFull
  <2>4. Len(r) \in 1 .. Len(p) - 1
    BY <1>1, <2>1, <2>2, <2>3
  <2> QED BY <2>1, <2>4 DEF Above
<1> QED BY <1>2, <1>3

\* The entry of a directory on the way to what is below it.
LEMMA NextOnTheWay ==
  ASSUME NEW S, NEW d \in Seq(S), NEW p \in Seq(S), Leq(d, p), d # p
  PROVE  \E c \in Seq(S) : /\ Leq(d, c) /\ Leq(c, p) /\ Len(c) = Len(d) + 1
                           /\ c = SubSeq(p, 1, Len(c)) /\ Len(c) \in 1 .. Len(p)
<1>1. Len(d) \in Nat /\ Len(p) \in Nat
  BY LenProperties
<1>2. d = SubSeq(p, 1, Len(d)) /\ Len(d) \in 0 .. Len(p)
  BY Beginnings
<1>3. Len(d) # Len(p)
  BY <1>2, SubSeqFull
<1> DEFINE n == Len(d) + 1
           c == SubSeq(p, 1, n)
<1>4. n \in 0 .. Len(p) /\ n \in 1 .. Len(p)
  BY <1>1, <1>2, <1>3
<1>5. c \in Seq(S) /\ Len(c) = n /\ Leq(c, p)
  BY <1>4, Beginnings
<1>6. Leq(d, c)
  <2>1. Leq(d, c) \/ Leq(c, d)
    BY <1>5, PrefixOrder
  <2>2. ~Leq(c, d)
    <3>1. ~(Len(c) <= Len(d))
      BY <1>1, <1>5
    <3> QED BY <1>5, <3>1, Prefixes
  <2> QED BY <2>1, <2>2
<1>7. c = SubSeq(p, 1, Len(c))
  BY <1>5
<1> HIDE DEF c
<1> QED BY <1>4, <1>5, <1>6, <1>7

\* What is above an entry of a directory: the directory and what is above it.
LEMMA AboveEntry ==
  ASSUME NEW S, NEW d \in Seq(S), NEW c \in Seq(S), Leq(d, c), Len(c) = Len(d) + 1
  PROVE  /\ d # c /\ ~Leq(c, d)
         /\ \A r \in Seq(S) : Leq(r, c) => r = c \/ Leq(r, d)
<1>1. Len(d) \in Nat /\ Len(c) \in Nat
  BY LenProperties
<1>2. ~(Len(c) <= Len(d))
  BY <1>1
<1>3. d # c /\ ~Leq(c, d)
  BY <1>1, <1>2, Prefixes
<1>4. ASSUME NEW r \in Seq(S), Leq(r, c), r # c PROVE Leq(r, d)
  <2>1. Leq(r, d) \/ Leq(d, r)
    BY <1>4, PrefixOrder
  <2>2. ASSUME Leq(d, r) PROVE r = d
    <3>1. Len(r) \in Nat /\ Len(d) <= Len(r)
      BY <2>2, Prefixes, LenProperties
    <3>2. r = SubSeq(c, 1, Len(r)) /\ Len(r) \in 0 .. Len(c)
      BY <1>4, Beginnings
    <3>3. Len(r) # Len(c)
      BY <1>4, <3>2, SubSeqFull
    <3>4. Len(r) = Len(d)
      <4>1. Len(r) \in 0 .. Len(c) /\ Len(c) = Len(d) + 1
        BY <3>2
      <4> QED BY <1>1, <3>1, <3>3, <4>1
    <3>5. r = SubSeq(c, 1, Len(d)) /\ d = SubSeq(c, 1, Len(d))
      BY <3>2, <3>4, Beginnings
    <3> QED BY <3>5
  <2> QED BY <2>1, <2>2, PrefixOrder
<1> QED BY <1>3, <1>4

-----------------------------------------------------------------------------
\* The levels of a stack share nothing.
Apart(s) == \A i, j \in 1 .. Len(s) : i # j => s[i] \cap s[j] = {}
Union(s) == UNION {s[i] : i \in 1 .. Len(s)}

\* A directory is opened: its entries become a level of the stack.
LEMMA PushLevel ==
  ASSUME NEW S, NEW s \in Seq(SUBSET S), NEW X \in SUBSET S,
         Apart(s), X \cap Union(s) = {}
  PROVE  /\ Append(s, X) \in Seq(SUBSET S) /\ Append(s, X) # <<>>
         /\ Apart(Append(s, X)) /\ Union(Append(s, X)) = Union(s) \cup X
<1> DEFINE t == Append(s, X)
<1>1. /\ t \in Seq(SUBSET S) /\ Len(s) \in Nat /\ Len(t) = Len(s) + 1
      /\ \A i \in 1 .. Len(s) : t[i] = s[i]
      /\ t[Len(s) + 1] = X
  BY AppendProperties, LenProperties
<1>2. t # <<>>
  BY <1>1, EmptySeq
<1> HIDE DEF t
<1>3. \A i \in 1 .. Len(s) : s[i] \cap X = {}
  BY DEF Union
<1>4. 1 .. Len(t) = (1 .. Len(s)) \cup {Len(s) + 1}
  BY <1>1
<1>5. Union(t) = Union(s) \cup X
  BY <1>1, <1>4 DEF Union
<1>6. Apart(t)
  BY <1>1, <1>3, <1>4 DEF Apart
<1> QED BY <1>1, <1>2, <1>5, <1>6 DEF t

\* A level that is exhausted is left.
LEMMA LastLevel ==
  ASSUME NEW S, NEW s \in Seq(SUBSET S), s # <<>>, Apart(s)
  PROVE  LET front == WORKSPACE!Front(s)
             last == WORKSPACE!Last(s)
         IN /\ front \in Seq(SUBSET S) /\ last \in SUBSET S /\ Apart(front)
            /\ last \cap Union(front) = {}
            /\ Union(s) = Union(front) \cup last
<1> DEFINE front == WORKSPACE!Front(s)
           last == WORKSPACE!Last(s)
<1>1. Len(s) \in Nat \ {0}
  BY EmptySeq
<1>2. last = s[Len(s)]
  BY DEF WORKSPACE!Last
<1>3. last \in SUBSET S
  BY <1>1, <1>2, ElementOfSeq
<1>4. /\ front \in Seq(SUBSET S) /\ Len(front) = Len(s) - 1
      /\ \A i \in 1 .. Len(s) - 1 : front[i] = s[i]
  <2>1. \A i \in 1 .. Len(s) - 1 : i \in 1 .. Len(s)
    BY <1>1
  <2>2. \A i \in 1 .. Len(s) - 1 : s[i] \in SUBSET S
    BY <2>1, ElementOfSeq
  <2>3. front = SubSeq(s, 1, Len(s) - 1)
    BY DEF WORKSPACE!Front
  <2>4. 1 \in Int /\ Len(s) - 1 \in Int
    BY <1>1
  <2>5. front \in Seq(SUBSET S)
    BY <2>2, <2>3, <2>4, SubSeqProperties
  <2>6. Len(front) = IF 1 <= Len(s) - 1 THEN Len(s) - 1 - 1 + 1 ELSE 0
    BY <2>2, <2>3, <2>4, SubSeqProperties
  <2>7. \A i \in 1 .. Len(s) - 1 - 1 + 1 : front[i] = s[1 + i - 1]
    BY <2>2, <2>3, <2>4, SubSeqProperties
  <2> HIDE DEF front
  <2>8. Len(front) = Len(s) - 1
    <3> DEFINE n == Len(s)
    <3>1. n \in Int /\ n >= 1 /\ Len(front) = IF 1 <= n - 1 THEN n - 1 - 1 + 1 ELSE 0
      BY <1>1, <2>6
    <3> HIDE DEF n
    <3>2. Len(front) = n - 1
      BY <3>1
    <3> QED BY <3>2 DEF n
  <2>9. \A i \in 1 .. Len(s) - 1 : front[i] = s[i]
    BY <1>1, <2>7
  <2> QED BY <2>5, <2>8, <2>9
<1> HIDE DEF front, last
<1>5. 1 .. Len(s) = (1 .. Len(front)) \cup {Len(s)} /\ Len(s) \notin 1 .. Len(front)
  BY <1>1, <1>4
<1>6. \A i \in 1 .. Len(front) : front[i] = s[i]
  BY <1>4
<1>7. Apart(front)
  BY <1>5, <1>6 DEF Apart
<1>8. last \cap Union(front) = {}
  BY <1>2, <1>5, <1>6 DEF Apart, Union
<1>9. Union(s) = Union(front) \cup last
  BY <1>2, <1>5, <1>6 DEF Union
<1> QED BY <1>3, <1>4, <1>7, <1>8, <1>9 DEF front, last

\* An entry of the deepest level is taken.
LEMMA TakeFromLevel ==
  ASSUME NEW S, NEW s \in Seq(SUBSET S), s # <<>>, Apart(s),
         NEW p \in WORKSPACE!Last(s)
  PROVE  LET t == Append(WORKSPACE!Front(s), WORKSPACE!Last(s) \ {p})
         IN /\ t \in Seq(SUBSET S) /\ t # <<>> /\ Apart(t)
            /\ p \in Union(s) /\ Union(t) = Union(s) \ {p}
<1> DEFINE front == WORKSPACE!Front(s)
           last == WORKSPACE!Last(s)
           rest == last \ {p}
<1>1. /\ front \in Seq(SUBSET S) /\ last \in SUBSET S /\ Apart(front)
      /\ last \cap Union(front) = {}
      /\ Union(s) = Union(front) \cup last
  BY LastLevel
<1>2. p \in last
  OBVIOUS
<1> HIDE DEF front, last
<1>3. rest \in SUBSET S /\ rest \cap Union(front) = {}
  BY <1>1
<1>4. Union(front) \cup rest = Union(s) \ {p} /\ p \in Union(s)
  BY <1>1, <1>2
<1> HIDE DEF rest
<1>5. front \in Seq(SUBSET S) /\ Apart(front)
  BY <1>1
<1>6. /\ Append(front, rest) \in Seq(SUBSET S) /\ Append(front, rest) # <<>>
      /\ Apart(Append(front, rest)) /\ Union(Append(front, rest)) = Union(front) \cup rest
  <2>1. Append(front, rest) \in Seq(SUBSET S)
    BY <1>3, <1>5, PushLevel
  <2>2. Append(front, rest) # <<>>
    BY <1>3, <1>5, PushLevel
  <2>3. Apart(Append(front, rest))
    BY <1>3, <1>5, PushLevel
  <2>4. Union(Append(front, rest)) = Union(front) \cup rest
    BY <1>3, <1>5, PushLevel
  <2> QED BY <2>1, <2>2, <2>3, <2>4
<1> QED BY <1>4, <1>6 DEF front, last, rest

-----------------------------------------------------------------------------

Matches == [path : Places, line : Nat]
Results == [truncated : BOOLEAN, warned : BOOLEAN, thrown : BOOLEAN, files : Nat,
            directories : Nat, bytes : Nat,
            extensions : [WORKSPACE!Extensions -> Nat \X Nat],
            listed : SUBSET WORKSPACE!Extensions, found : SUBSET Places,
            matches : Seq(Matches)]
Tasks == [tool : {"none", "scan", "search", "read_file"}, limit : Nat,
          include_hidden : BOOLEAN, root : WORKSPACE!Roots]
Closed(paths) == \A p \in paths : \A r \in Places : Leq(r, p) => r \in paths

Entries == [step : {"none", "kind", "size", "open", "read"},
            path : Places \cup {NoPlace}, rel : Places \cup {NoPlace}]

WalkTypes ==
  /\ wAlive \subseteq Places /\ Closed(wAlive) /\ wChanges \in 0 .. MaxChanges
  /\ wPc \in {"idle", "scan", "search", "done"}
  /\ wRequest \in Tasks
  /\ wRequest.tool \in {"scan", "search"} => wRequest.limit \in 1 .. LargestLimit
  /\ wPc \in {"scan", "search"} => wRequest.tool = wPc
  /\ wStack \in Seq(SUBSET Places) /\ wPending \in Places \cup {NoPlace}
  /\ wResult \in Results
  /\ wSince \subseteq wAlive /\ Closed(wSince) /\ wEver \subseteq Places
  /\ wPc # "idle" => wAlive \subseteq wEver
  /\ wPc = "idle" => wStack = <<>> /\ wPending = NoPlace

Walks == wPc \in {"scan", "search"}

\* The entry being handled: it is of the tree, and what was learned of it holds
\* still if it did not change since.
EntryInv ==
  /\ wAt \in Entries
  /\ wAt.step = "none" => wAt = WORKSPACE!NoEntry
  /\ wAt.step # "none" =>
       /\ Walks /\ wPending = NoPlace /\ wStack # <<>>
       /\ wAt.step \in (IF wPc = "scan" THEN {"kind", "size"}
                        ELSE {"kind", "size", "open", "read"})
       /\ wAt.path \in Places /\ wAt.rel \in WORKSPACE!Names(wAt.path)
  /\ wAt.step \in {"size", "open", "read"} =>
       wAt.path \in WORKSPACE!VisibleOf(wEver) /\ wAt.rel \in WORKSPACE!ShownAs(wAt.path)
  /\ wAt.step \in {"open", "read"} /\ Rel[wAt.path] \in wSince =>
       Tree[Rel[wAt.path]].size <= MaxFileBytes
  /\ wAt.step = "read" /\ Rel[wAt.path] \in wSince => Tree[Rel[wAt.path]].readable

\* What the walk is going to visit: the entries left, the directory that is
\* opened next and the entry being handled, unless it is counted already.
Sizing == wPc = "scan" /\ wAt.step = "size"
Frontier == Union(wStack) \cup ({wPending} \ {NoPlace})
              \cup (IF Sizing THEN {} ELSE {wAt.path} \ {NoPlace})

\* Nothing is visited twice: no path of the frontier leads to another one, or
\* to what was found.
Passable(f) == \A r \in Above(f) : Tree[r].readable
WalkFrontier ==
  Walks =>
    /\ Frontier \subseteq wEver /\ Apart(wStack)
    /\ \A f \in Frontier : Passable(f)
    /\ \A f, g \in Frontier : Leq(f, g) => f = g
    /\ wPending # NoPlace =>
         /\ Tree[wPending].kind = "directory" /\ wStack # <<>>
         /\ wPending \notin Union(wStack)
    /\ ~Sizing => wAt.path \notin Union(wStack)

\* Nothing is left out: what is not handled yet is below the frontier.
Handled(q) ==
  IF wRequest.tool = "scan" THEN q \in wResult.found
  ELSE WORKSPACE!MatchesOf({q}) \subseteq WORKSPACE!ToSet(wResult.matches)
Ahead(q) == \E f \in Frontier : Leq(f, q)
WalkCovers ==
  Walks =>
    /\ ~wResult.truncated /\ ~wResult.thrown
    /\ ~wResult.warned /\ wRequest.root = "open" =>
         \A q \in WORKSPACE!WantedOf(wSince) : Handled(q) \/ Ahead(q)

Scanned == wRequest.tool = "scan" /\ wPc \in {"scan", "done"}
ScanInv ==
  Scanned =>
    /\ wResult.found \subseteq WORKSPACE!VisibleOf(wEver)
    /\ wResult.files = Cardinality(wResult.found) /\ wResult.files <= wRequest.limit
    /\ wPc = "scan" => \A f \in Frontier : \A q \in wResult.found : ~Leq(f, q)
    /\ Sizing => wAt.path \in wResult.found
    /\ wResult.truncated =>
         /\ wResult.files = wRequest.limit
         /\ WORKSPACE!VisibleOf(wEver) \ wResult.found # {}
    /\ wPc = "done" /\ WORKSPACE!Complete =>
         WORKSPACE!WantedOf(wSince) \subseteq wResult.found

\* One size for each file that was counted.
Sized == wResult.found \ (IF Sizing THEN {wAt.path} ELSE {})
OfExtension(e, paths) == {p \in paths : Tree[p].extension = e}
SizedAs(sizes) ==
  /\ \A p \in Sized : WORKSPACE!Kept(p) => sizes[p] = Tree[Rel[p]].size
  /\ wResult.bytes = WORKSPACE!Size(Sized, sizes)
  /\ \A e \in WORKSPACE!Extensions :
       wResult.extensions[e] = <<Cardinality(OfExtension(e, Sized)),
                                 WORKSPACE!Size(OfExtension(e, Sized), sizes)>>
TotalsInv == Scanned => \E sizes \in [Sized -> 0 .. MaxSize] : SizedAs(sizes)

Searched == wRequest.tool = "search" /\ wPc \in {"search", "done"}
SearchInv ==
  Searched =>
    /\ WORKSPACE!ToSet(wResult.matches)
           \subseteq WORKSPACE!MatchesOf(WORKSPACE!VisibleOf(wEver))
    /\ Len(wResult.matches) <= wRequest.limit
    /\ ~wResult.truncated => Len(wResult.matches) < wRequest.limit
    /\ wPc = "done" /\ WORKSPACE!Complete =>
         WORKSPACE!MatchesOf(WORKSPACE!WantedOf(wSince))
             \subseteq WORKSPACE!ToSet(wResult.matches)

\* A scan has no matches and a search no files.
Unused ==
  /\ ~Scanned => wResult.files = 0
  /\ ~Searched => wResult.matches = <<>>

WalkInv ==
  /\ WalkTypes /\ EntryInv /\ WalkFrontier /\ WalkCovers
  /\ ScanInv /\ TotalsInv /\ SearchInv
WorkspaceInv == WalkInv /\ Unused

-----------------------------------------------------------------------------
\* What the assumption says of the tree.
LEMMA TreePlaces ==
  /\ IsFiniteSet(Places) /\ Places \subseteq Seq(STRING)
  /\ <<>> \notin Places /\ NoPlace \notin Places
  /\ \A p \in Places : \A r \in Seq(STRING) : Leq(r, p) /\ r # <<>> => r \in Places
  /\ \A p \in Places :
       /\ Tree[p].kind \in {"file", "directory", "file_link", "directory_link"}
       /\ Tree[p].readable \in BOOLEAN
       /\ Tree[p].size \in 0 .. MaxSize /\ Tree[p].hits \in Seq(1 .. MaxSize)
  /\ \A p \in Places : \A r \in Above(p) : Tree[r].kind = "directory"
  /\ MaxSize \in Nat /\ MaxFileBytes \in Nat
<1>1. /\ IsFiniteSet(Places) /\ Places \subseteq Seq(STRING) \ {<<>>, <<"none">>}
      /\ \A p \in Places : \A n \in 1 .. Len(p) : SubSeq(p, 1, n) \in Places
  BY WorkspaceAssumption DEF WorkspaceAssumption, Places, WORKSPACE!Paths
<1>2. NoPlace = <<"none">>
  BY DEF NoPlace, WORKSPACE!NoPath
<1>3. <<>> \notin Places /\ NoPlace \notin Places
  BY <1>1, <1>2
<1>4. ASSUME NEW p \in Places, NEW r \in Seq(STRING), Leq(r, p), r # <<>>
      PROVE  r \in Places
  <2>1. p \in Seq(STRING)
    BY <1>1
  <2>2. r = SubSeq(p, 1, Len(r)) /\ Len(r) \in 0 .. Len(p)
    BY <1>4, <2>1, Beginnings
  <2>3. Len(r) \in Nat \ {0}
    BY <1>4, EmptySeq
  <2>4. Len(r) \in 1 .. Len(p)
    <3>1. Len(r) \in 0 .. Len(p) /\ Len(p) \in Nat
      BY <2>1, <2>2, LenProperties
    <3> QED BY <2>3, <3>1
  <2>5. SubSeq(p, 1, Len(r)) \in Places
    BY <1>1, <2>4
  <2> QED BY <2>2, <2>5
<1>5. IsFiniteSet(Places) /\ Places \subseteq Seq(STRING)
  BY <1>1
<1>6. \A p \in Places :
        /\ Tree[p].kind \in {"file", "directory", "file_link", "directory_link"}
        /\ Tree[p].readable \in BOOLEAN
  BY WorkspaceAssumption DEF WorkspaceAssumption, Places, WORKSPACE!Paths
<1>7. \A p \in Places : Tree[p].size \in 0 .. MaxSize /\ Tree[p].hits \in Seq(1 .. MaxSize)
  BY WorkspaceAssumption DEF WorkspaceAssumption, Places, WORKSPACE!Paths
<1>8. \A p \in Places : \A r \in Above(p) : Tree[r].kind = "directory"
  <2>1. \A p \in Places : \A n \in 1 .. Len(p) - 1 :
          Tree[SubSeq(p, 1, n)].kind = "directory"
    BY WorkspaceAssumption DEF WorkspaceAssumption, Places, WORKSPACE!Paths
  <2> QED BY <2>1 DEF Above
<1>9. MaxSize \in Nat /\ MaxFileBytes \in Nat
  BY WorkspaceAssumption DEF WorkspaceAssumption
<1> QED BY <1>3, <1>4, <1>5, <1>6, <1>7, <1>8, <1>9

\* What a link leads to.
LEMMA LinkPlaces ==
  \A p \in Places :
    /\ Rel[p] \in Places
    /\ Tree[p].kind \in {"file", "directory"} => Rel[p] = p
BY WorkspaceAssumption DEF WorkspaceAssumption, Places, WORKSPACE!Paths

\* None of these changes.
LEMMA Fixed ==
  /\ Places' = Places /\ NoPlace' = NoPlace /\ Matches' = Matches
  /\ Results' = Results /\ Tasks' = Tasks /\ Entries' = Entries
  /\ WORKSPACE!NoEntry' = WORKSPACE!NoEntry
  /\ WORKSPACE!Extensions' = WORKSPACE!Extensions
  /\ \A p : /\ Above(p)' = Above(p) /\ Passable(p)' = Passable(p)
            /\ WORKSPACE!IsFile(p)' = WORKSPACE!IsFile(p)
            /\ WORKSPACE!Reached(p)' = WORKSPACE!Reached(p)
  /\ \A p, q : Leq(p, q)' = Leq(p, q)
  /\ \A s : Apart(s)' = Apart(s) /\ Union(s)' = Union(s)
  /\ \A paths : Closed(paths)' = Closed(paths)
BY DEF Places, WORKSPACE!Paths, NoPlace, WORKSPACE!NoPath, Matches, Results,
   Tasks, Entries, WORKSPACE!NoEntry, WORKSPACE!Extensions, WORKSPACE!Roots, Above,
   Passable, WORKSPACE!IsFile, WORKSPACE!Reached, Leq, WORKSPACE!IsPrefix,
   Apart, Union, Closed

\* The order on the paths of the tree.
LEMMA PlacesOrder ==
  /\ \A p \in Places : Leq(p, p)
  /\ \A p, q \in Places : Leq(p, q) /\ Leq(q, p) => p = q
  /\ \A p, q, r \in Places : Leq(p, q) /\ Leq(q, r) => Leq(p, r)
  /\ \A p, q, r \in Places : Leq(p, r) /\ Leq(q, r) => Leq(p, q) \/ Leq(q, p)
<1>1. Places \subseteq Seq(STRING)
  BY TreePlaces
<1>2. /\ \A p \in Seq(STRING) : Leq(p, p)
      /\ \A p, q \in Seq(STRING) : Leq(p, q) /\ Leq(q, p) => p = q
      /\ \A p, q, r \in Seq(STRING) : Leq(p, q) /\ Leq(q, r) => Leq(p, r)
      /\ \A p, q, r \in Seq(STRING) : Leq(p, r) /\ Leq(q, r) => Leq(p, q) \/ Leq(q, p)
  BY PrefixOrder
<1>3. \A p \in Places : Leq(p, p)
  BY <1>1, <1>2
<1>4. \A p, q \in Places : Leq(p, q) /\ Leq(q, p) => p = q
  BY <1>1, <1>2
<1>5. \A p, q, r \in Places : Leq(p, q) /\ Leq(q, r) => Leq(p, r)
  BY <1>1, <1>2
<1>6. \A p, q, r \in Places : Leq(p, r) /\ Leq(q, r) => Leq(p, q) \/ Leq(q, p)
  BY <1>1, <1>2
<1> QED BY <1>3, <1>4, <1>5, <1>6

\* The paths above one of the tree are in the tree.
LEMMA PlacesAbove ==
  \A p \in Places : /\ Above(p) \subseteq Places
                    /\ \A r \in Places : r \in Above(p) <=> r # p /\ Leq(r, p)
<1> SUFFICES ASSUME NEW p \in Places
             PROVE  /\ Above(p) \subseteq Places
                    /\ \A r \in Places : r \in Above(p) <=> r # p /\ Leq(r, p)
  OBVIOUS
<1>1. Places \subseteq Seq(STRING) /\ <<>> \notin Places /\ p \in Seq(STRING)
  BY TreePlaces
<1>2. ASSUME NEW r \in Above(p) PROVE r \in Places
  <2>1. PICK n \in 1 .. Len(p) - 1 : r = SubSeq(p, 1, n)
    BY <1>2 DEF Above
  <2>2. n \in 0 .. Len(p)
    BY <1>1, LenProperties
  <2>3. r \in Seq(STRING)
    BY <1>1, <2>1, <2>2, Beginnings
  <2>4. r # <<>> /\ Leq(r, p)
    BY <1>1, <1>2, <2>3, AbovePath
  <2> QED BY <2>3, <2>4, TreePlaces
<1>3. ASSUME NEW r \in Places PROVE r \in Above(p) <=> r # p /\ Leq(r, p)
  <2>1. r \in Seq(STRING) /\ r # <<>>
    BY <1>1
  <2> QED BY <1>1, <2>1, AbovePath
<1> QED BY <1>2, <1>3

\* The entries of a directory, and what is below them.
LEMMA ChildrenOfAPlace ==
  ASSUME NEW d \in Places, WalkTypes
  PROVE  /\ WORKSPACE!Children(d) \subseteq wAlive
         /\ \A c \in WORKSPACE!Children(d) :
              /\ Leq(d, c) /\ d # c /\ ~Leq(c, d)
              /\ \A r \in Places : Leq(r, c) => r = c \/ Leq(r, d)
         /\ \A q \in wAlive : Leq(d, q) /\ d # q =>
              \E c \in WORKSPACE!Children(d) : Leq(c, q)
<1>1. Places \subseteq Seq(STRING) /\ d \in Seq(STRING)
  BY TreePlaces
<1>2. wAlive \subseteq Places /\ Closed(wAlive)
  BY DEF WalkTypes
<1>3. \A c : c \in WORKSPACE!Children(d) <=> c \in wAlive /\ Len(c) = Len(d) + 1 /\ Leq(d, c)
  BY DEF WORKSPACE!Children, Leq
<1>4. ASSUME NEW c \in WORKSPACE!Children(d)
      PROVE  /\ Leq(d, c) /\ d # c /\ ~Leq(c, d)
             /\ \A r \in Places : Leq(r, c) => r = c \/ Leq(r, d)
  <2>1. c \in Seq(STRING) /\ Leq(d, c) /\ Len(c) = Len(d) + 1
    BY <1>1, <1>2, <1>3
  <2>2. d # c /\ ~Leq(c, d)
    BY <1>1, <2>1, AboveEntry
  <2>3. \A r \in Seq(STRING) : Leq(r, c) => r = c \/ Leq(r, d)
    BY <1>1, <2>1, AboveEntry
  <2> QED BY <1>1, <2>1, <2>2, <2>3
<1>5. ASSUME NEW q \in wAlive, Leq(d, q), d # q
      PROVE  \E c \in WORKSPACE!Children(d) : Leq(c, q)
  <2>1. q \in Seq(STRING) /\ q \in Places
    BY <1>1, <1>2
  <2>2. PICK c \in Seq(STRING) : Leq(d, c) /\ Leq(c, q) /\ Len(c) = Len(d) + 1
    BY <1>1, <1>5, <2>1, NextOnTheWay
  <2>3. c # <<>>
    <3>1. Len(d) \in Nat
      BY <1>1, LenProperties
    <3>2. Len(<<>>) = 0
      OBVIOUS
    <3> QED BY <2>2, <3>1, <3>2
  <2>4. c \in Places
    BY <2>1, <2>2, <2>3, TreePlaces
  <2>5. c \in wAlive
    BY <1>2, <2>2, <2>4 DEF Closed
  <2> QED BY <1>3, <2>2, <2>5
<1> QED BY <1>3, <1>4, <1>5

\* The same of the root, which is no path of the tree.
LEMMA ChildrenOfTheRoot ==
  ASSUME WalkTypes
  PROVE  /\ WORKSPACE!Children(<<>>) \subseteq wAlive
         /\ \A c \in WORKSPACE!Children(<<>>) : \A r \in Places : Leq(r, c) => r = c
         /\ \A q \in wAlive : \E c \in WORKSPACE!Children(<<>>) : Leq(c, q)
<1> DEFINE d == <<>>
<1>1. Places \subseteq Seq(STRING) /\ d \in Seq(STRING) /\ Len(d) = 0 /\ d \notin Places
  BY TreePlaces, EmptySeq
<1>2. wAlive \subseteq Places /\ Closed(wAlive)
  BY DEF WalkTypes
<1>3. \A c : c \in WORKSPACE!Children(d) <=> c \in wAlive /\ Len(c) = Len(d) + 1 /\ Leq(d, c)
  BY DEF WORKSPACE!Children, Leq
<1> HIDE DEF d
<1>4. ASSUME NEW c \in WORKSPACE!Children(d), NEW r \in Places, Leq(r, c)
      PROVE  r = c
  <2>1. c \in Seq(STRING) /\ Leq(d, c) /\ Len(c) = Len(d) + 1 /\ r \in Seq(STRING)
    BY <1>1, <1>2, <1>3
  <2>2. r = c \/ Leq(r, d)
    BY <1>1, <1>4, <2>1, AboveEntry
  <2>3. ~Leq(r, d)
    <3>1. r # <<>>
      BY <1>1 DEF d
    <3>2. Len(r) \in Nat \ {0}
      BY <2>1, <3>1, EmptySeq
    <3>3. ~(Len(r) <= Len(d))
      BY <1>1, <3>2
    <3> QED BY <1>1, <2>1, <3>3, Prefixes
  <2> QED BY <2>2, <2>3
<1>5. ASSUME NEW q \in wAlive
      PROVE  \E c \in WORKSPACE!Children(d) : Leq(c, q)
  <2>1. q \in Seq(STRING) /\ q \in Places
    BY <1>1, <1>2
  <2>2. Leq(d, q) /\ d # q
    <3>1. Len(d) <= Len(q) /\ \A i \in 1 .. Len(d) : d[i] = q[i]
      BY <1>1, <2>1, LenProperties
    <3> QED BY <1>1, <2>1, <3>1, Prefixes
  <2>3. PICK c \in Seq(STRING) : Leq(d, c) /\ Leq(c, q) /\ Len(c) = Len(d) + 1
    <3>1. d \in Seq(STRING) /\ q \in Seq(STRING) /\ Leq(d, q) /\ d # q
      BY <1>1, <2>1, <2>2
    <3> QED BY <3>1, NextOnTheWay
  <2>4. c # <<>>
    <3>1. Len(<<>>) = 0
      OBVIOUS
    <3> QED BY <1>1, <2>3, <3>1
  <2>5. c \in Places
    BY <2>1, <2>3, <2>4, TreePlaces
  <2>6. c \in wAlive
    BY <1>2, <2>3, <2>5 DEF Closed
  <2> QED BY <1>3, <2>3, <2>6
<1>6. WORKSPACE!Children(d) \subseteq wAlive
  BY <1>3
<1> QED BY <1>4, <1>5, <1>6 DEF d
\* What is visible and what is wanted, by the paths above it.
LEMMA VisibleMeans ==
  \A S : \A q \in Places :
    /\ q \in WORKSPACE!VisibleOf(S) <=>
         /\ q \in S /\ Rel[q] \in S /\ Tree[q].kind \in {"file", "file_link"}
         /\ Passable(q) /\ WORKSPACE!ShownAs(q) # {}
    /\ q \in WORKSPACE!WantedOf(S) <=>
         /\ q \in S /\ Rel[q] \in S /\ Tree[q].kind \in {"file", "file_link"}
         /\ Passable(q) /\ ~WORKSPACE!Hidden(Rel[q])
         /\ \A r \in Above(q) : ~WORKSPACE!Hidden(r)
<1>1. \A q : WORKSPACE!Reached(q) <=> Passable(q)
  BY DEF WORKSPACE!Reached, Passable, Above
<1>2. \A q : (\A r \in Above(q) : ~WORKSPACE!Hidden(r))
               <=> \A n \in 1 .. Len(q) - 1 : ~WORKSPACE!Hidden(SubSeq(q, 1, n))
  BY DEF Above
<1> QED BY <1>1, <1>2 DEF WORKSPACE!VisibleOf, WORKSPACE!WantedOf, WORKSPACE!IsFile

\* A file that is wanted was there all the time, and so were the directories that
\* lead to it.
LEMMA WantedPath ==
  ASSUME WalkTypes, NEW q \in WORKSPACE!WantedOf(wSince)
  PROVE  /\ q \in Places /\ q \in wSince /\ q \in wAlive
         /\ Rel[q] \in Places /\ Rel[q] \in wSince
         /\ Tree[q].kind \in {"file", "file_link"}
         /\ WORKSPACE!There(q) /\ WORKSPACE!Kept(q)
         /\ WORKSPACE!Names(q) = {Rel[q]} /\ WORKSPACE!ShownAs(q) = {Rel[q]}
         /\ ~WORKSPACE!Hidden(Rel[q]) /\ q \in WORKSPACE!VisibleOf(wSince)
         /\ \A p \in Places : Leq(p, q) /\ p # q =>
              /\ p \in wSince /\ p \in wAlive /\ Rel[p] = p
              /\ Tree[p].kind = "directory" /\ Tree[p].readable
              /\ WORKSPACE!There(p) /\ WORKSPACE!Names(p) = {p} /\ ~WORKSPACE!Hidden(p)
<1>1. wSince \subseteq wAlive /\ wAlive \subseteq Places /\ Closed(wSince)
  BY DEF WalkTypes
<1>2. q \in wSince /\ q \in Places
  BY <1>1 DEF WORKSPACE!WantedOf
<1>3. /\ Rel[q] \in wSince /\ Tree[q].kind \in {"file", "file_link"}
      /\ Passable(q) /\ ~WORKSPACE!Hidden(Rel[q])
      /\ \A r \in Above(q) : ~WORKSPACE!Hidden(r)
  BY <1>2, VisibleMeans
<1>4. /\ WORKSPACE!There(q) /\ WORKSPACE!Kept(q)
      /\ WORKSPACE!Names(q) = {Rel[q]} /\ WORKSPACE!ShownAs(q) = {Rel[q]}
  BY <1>1, <1>2, <1>3 DEF WORKSPACE!There, WORKSPACE!Kept, WORKSPACE!Names,
     WORKSPACE!ShownAs
<1>5. q \in WORKSPACE!VisibleOf(wSince)
  BY <1>2, <1>3, <1>4, VisibleMeans
<1>6. ASSUME NEW p \in Places, Leq(p, q), p # q
      PROVE  /\ p \in wSince /\ p \in wAlive /\ Rel[p] = p
             /\ Tree[p].kind = "directory" /\ Tree[p].readable
             /\ WORKSPACE!There(p) /\ WORKSPACE!Names(p) = {p} /\ ~WORKSPACE!Hidden(p)
  <2>1. p \in Above(q) /\ p \in wSince
    BY <1>1, <1>2, <1>6, PlacesAbove DEF Closed
  <2>2. Tree[p].kind = "directory" /\ Tree[p].readable /\ ~WORKSPACE!Hidden(p)
    BY <1>2, <1>3, <2>1, TreePlaces DEF Passable
  <2>3. Rel[p] = p
    BY <2>2, LinkPlaces
  <2> QED BY <1>1, <2>1, <2>2, <2>3 DEF WORKSPACE!There, WORKSPACE!Names,
             WORKSPACE!Kept
<1> QED BY <1>1, <1>2, <1>3, <1>4, <1>5, <1>6

\* What an entry may be taken for, and when it is opened.
LEMMA AnswersAndPendings ==
  ASSUME NEW p \in Places, NEW kind \in WORKSPACE!Answers(p)
  PROVE  /\ kind # "gone" => kind = Tree[p].kind
         /\ WORKSPACE!There(p) => kind = Tree[p].kind
         /\ kind \in {"file", "file_link"} => Rel[p] = p \/ Rel[p] \in wAlive
         /\ \A next \in WORKSPACE!Pendings(p, kind) :
              /\ next \in {p, NoPlace}
              /\ next = p => Tree[p].kind = "directory"
              /\ kind = "directory" => next = p
<1>1. /\ kind # "gone" => kind = Tree[p].kind
      /\ WORKSPACE!There(p) => kind = Tree[p].kind
      /\ kind = "file_link" => WORKSPACE!There(p)
  BY DEF WORKSPACE!Answers
<1>2. Tree[p].kind # "gone"
  BY TreePlaces
<1>3. p # NoPlace
  BY TreePlaces
<1>4. ASSUME NEW next \in WORKSPACE!Pendings(p, kind)
      PROVE  /\ next \in {p, NoPlace}
             /\ next = p => Tree[p].kind = "directory"
             /\ kind = "directory" => next = p
  <2>1. CASE kind = "directory"
    BY <1>1, <2>1 DEF WORKSPACE!Pendings
  <2>2. CASE kind = "gone"
    BY <1>3, <2>2 DEF WORKSPACE!Pendings, NoPlace
  <2>3. CASE kind # "directory" /\ kind # "gone"
    BY <1>3, <2>3 DEF WORKSPACE!Pendings, NoPlace
  <2> QED BY <2>1, <2>2, <2>3
<1>5. kind \in {"file", "file_link"} => Rel[p] = p \/ Rel[p] \in wAlive
  BY <1>1, LinkPlaces DEF WORKSPACE!There
<1> QED BY <1>1, <1>4, <1>5

-----------------------------------------------------------------------------
\* A step that only looks at the tree.
OnlyLooks == UNCHANGED <<wAlive, wChanges, wSince, wEver, wRequest>>

\* What may be shown depends on the request and on what changed.
LEMMA SameShown ==
  ASSUME OnlyLooks
  PROVE  /\ \A q : /\ WORKSPACE!Hidden(q)' <=> WORKSPACE!Hidden(q)
                   /\ WORKSPACE!Kept(q)' <=> WORKSPACE!Kept(q)
                   /\ WORKSPACE!Names(q)' = WORKSPACE!Names(q)
                   /\ WORKSPACE!ShownAs(q)' = WORKSPACE!ShownAs(q)
                   /\ WORKSPACE!LinesOf(q)' = WORKSPACE!LinesOf(q)
         /\ \A S : /\ WORKSPACE!VisibleOf(S)' = WORKSPACE!VisibleOf(S)
                   /\ WORKSPACE!WantedOf(S)' = WORKSPACE!WantedOf(S)
                   /\ WORKSPACE!MatchesOf(S)' = WORKSPACE!MatchesOf(S)
         /\ WORKSPACE!VisibleOf(wEver)' = WORKSPACE!VisibleOf(wEver)
         /\ WORKSPACE!WantedOf(wSince)' = WORKSPACE!WantedOf(wSince)
         /\ WORKSPACE!MatchesOf(WORKSPACE!VisibleOf(wEver))'
              = WORKSPACE!MatchesOf(WORKSPACE!VisibleOf(wEver))
         /\ WORKSPACE!MatchesOf(WORKSPACE!WantedOf(wSince))'
              = WORKSPACE!MatchesOf(WORKSPACE!WantedOf(wSince))
<1>1. \A q : /\ WORKSPACE!Hidden(q)' <=> WORKSPACE!Hidden(q)
             /\ WORKSPACE!Kept(q)' <=> WORKSPACE!Kept(q)
             /\ WORKSPACE!IsFile(q)' <=> WORKSPACE!IsFile(q)
             /\ WORKSPACE!Reached(q)' <=> WORKSPACE!Reached(q)
             /\ WORKSPACE!LinesOf(q)' = WORKSPACE!LinesOf(q)
  BY DEF OnlyLooks, WORKSPACE!Hidden, WORKSPACE!hidden_path, WORKSPACE!Kept,
     WORKSPACE!IsFile, WORKSPACE!Reached, WORKSPACE!LinesOf, WORKSPACE!ToSet
<1>2. \A q : /\ WORKSPACE!Names(q)' = WORKSPACE!Names(q)
             /\ WORKSPACE!ShownAs(q)' = WORKSPACE!ShownAs(q)
  BY <1>1 DEF WORKSPACE!Names, WORKSPACE!ShownAs
<1>3. /\ \A S : /\ WORKSPACE!VisibleOf(S)' = WORKSPACE!VisibleOf(S)
                /\ WORKSPACE!WantedOf(S)' = WORKSPACE!WantedOf(S)
                /\ WORKSPACE!MatchesOf(S)' = WORKSPACE!MatchesOf(S)
      /\ WORKSPACE!VisibleOf(wEver)' = WORKSPACE!VisibleOf(wEver)
      /\ WORKSPACE!WantedOf(wSince)' = WORKSPACE!WantedOf(wSince)
  BY <1>1, <1>2 DEF OnlyLooks, WORKSPACE!VisibleOf, WORKSPACE!WantedOf,
     WORKSPACE!MatchesOf
<1>4. /\ WORKSPACE!MatchesOf(WORKSPACE!VisibleOf(wEver))'
           = WORKSPACE!MatchesOf(WORKSPACE!VisibleOf(wEver))
      /\ WORKSPACE!MatchesOf(WORKSPACE!WantedOf(wSince))'
           = WORKSPACE!MatchesOf(WORKSPACE!WantedOf(wSince))
  BY <1>1, <1>2, <1>3 DEF WORKSPACE!MatchesOf
<1> QED BY <1>1, <1>2, <1>3, <1>4

\* The frontier is of the tree.
LEMMA FrontierPlaces ==
  ASSUME WalkTypes, WalkFrontier, Walks
  PROVE  /\ Frontier \subseteq Places /\ wStack \in Seq(SUBSET Places)
         /\ Frontier \subseteq wEver /\ Apart(wStack)
         /\ \A f \in Frontier : Passable(f)
         /\ \A f, g \in Frontier : Leq(f, g) => f = g
         /\ wPending # NoPlace => wPending \in Frontier /\ wPending \in Places
BY DEF WalkTypes, WalkFrontier, Frontier

\* A frontier that only shrinks is one.
LEMMA FrontierShrinks ==
  ASSUME WalkTypes, WalkFrontier, Walks, wEver' = wEver,
         Frontier' \subseteq Frontier, Apart(wStack'),
         wPending' # NoPlace =>
           /\ Tree[wPending'].kind = "directory" /\ wStack' # <<>>
           /\ wPending' \notin Union(wStack'),
         ~Sizing' => wAt'.path \notin Union(wStack')
  PROVE  WalkFrontier'
<1>1. /\ Frontier' \subseteq wEver
      /\ \A f \in Frontier' : Passable(f)
      /\ \A f, g \in Frontier' : Leq(f, g) => f = g
  BY FrontierPlaces
<1>2. /\ (\A f \in Frontier : Passable(f))' <=> \A f \in Frontier' : Passable(f)
      /\ (\A f, g \in Frontier : Leq(f, g) => f = g)'
           <=> \A f, g \in Frontier' : Leq(f, g) => f = g
      /\ NoPlace' = NoPlace /\ Union(wStack)' = Union(wStack')
      /\ Apart(wStack)' = Apart(wStack')
  BY DEF Passable, Above, Leq, WORKSPACE!IsPrefix, NoPlace, WORKSPACE!NoPath,
     Union, Apart
<1> QED BY <1>1, <1>2 DEF WalkFrontier

\* The next entry is taken: it is handled from now on.
LEMMA TakeKeeps ==
  ASSUME WalkTypes, EntryInv, WalkFrontier, NEW p, WORKSPACE!Take(p)
  PROVE  /\ wStack' \in Seq(SUBSET Places) /\ WalkFrontier' /\ Frontier' = Frontier
         /\ EntryInv' /\ ~Sizing /\ ~Sizing'
<1>1. /\ Walks /\ wStack # <<>> /\ wPending = NoPlace /\ p \in WORKSPACE!Last(wStack)
      /\ wAt = WORKSPACE!NoEntry /\ OnlyLooks /\ wPc' = wPc /\ wPending' = wPending
      /\ wStack' = Append(WORKSPACE!Front(wStack), WORKSPACE!Last(wStack) \ {p})
      /\ wAt' = [step |-> "kind", path |-> p, rel |-> WORKSPACE!relative_to(p)]
  BY DEF WORKSPACE!Take, WORKSPACE!Walking, Walks, NoPlace, OnlyLooks, WORKSPACE!tree
<1>2. wStack \in Seq(SUBSET Places) /\ Apart(wStack)
  BY <1>1, FrontierPlaces
<1>3. wStack' \in Seq(SUBSET Places)
  BY <1>1, <1>2, TakeFromLevel
<1>4. wStack' # <<>>
  BY <1>1, <1>2, TakeFromLevel
<1>5. Apart(wStack')
  BY <1>1, <1>2, TakeFromLevel
<1>6. p \in Union(wStack)
  BY <1>1, <1>2, TakeFromLevel
<1>7. Union(wStack') = Union(wStack) \ {p}
  BY <1>1, <1>2, TakeFromLevel
<1>8. wAt.path = NoPlace /\ wAt.step = "none" /\ wAt'.path = p /\ wAt'.step = "kind"
  BY <1>1 DEF WORKSPACE!NoEntry, NoPlace
<1>9. ~Sizing /\ ~Sizing'
  BY <1>8 DEF Sizing
<1>10. p \in Places /\ p # NoPlace /\ p \in Frontier
  BY <1>1, <1>6, FrontierPlaces, TreePlaces DEF Frontier
<1>11. NoPlace' = NoPlace /\ Union(wStack)' = Union(wStack')
  BY DEF NoPlace, WORKSPACE!NoPath, Union
<1>12. Frontier' = Frontier
  <2>1. Frontier = Union(wStack)
    BY <1>1, <1>8, <1>9 DEF Frontier
  <2>2. Frontier' = Union(wStack') \cup {p}
    BY <1>1, <1>8, <1>9, <1>10, <1>11 DEF Frontier
  <2> QED BY <1>6, <1>7, <2>1, <2>2
<1>13. WalkFrontier'
  BY <1>1, <1>5, <1>7, <1>8, <1>12, FrontierShrinks DEF OnlyLooks
<1>14. EntryInv'
  <2>1. wAt'.rel \in WORKSPACE!Names(p)'
    <3>1. wAt'.rel \in WORKSPACE!Names(p)
      <4>1. wSince \subseteq wAlive
        BY DEF WalkTypes
      <4>2. wAt'.rel = IF WORKSPACE!There(p) THEN Rel[p] ELSE p
        BY <1>1 DEF WORKSPACE!relative_to
      <4> QED BY <4>1, <4>2 DEF WORKSPACE!Names, WORKSPACE!Kept, WORKSPACE!There
    <3> QED BY <1>1, <3>1, SameShown
  <2>2. WORKSPACE!Names(wAt.path)' = WORKSPACE!Names(p)'
    BY <1>8 DEF WORKSPACE!Names, WORKSPACE!Kept
  <2>3. wAt' \in Entries
    BY <1>1, <1>10, LinkPlaces DEF Entries, WORKSPACE!relative_to
  <2> QED BY <1>1, <1>4, <1>8, <1>10, <1>11, <2>1, <2>2, <2>3, Fixed DEF EntryInv, Walks
<1> QED BY <1>3, <1>9, <1>12, <1>13, <1>14

\* An entry is left: it is opened next, or it leaves the frontier.
LEMMA LeaveKeeps ==
  ASSUME WalkTypes, EntryInv, WalkFrontier, OnlyLooks, wAt.step # "none",
         WORKSPACE!Leave, wStack' = wStack, wPending' \in {wAt.path, NoPlace},
         wPending' = wAt.path => Tree[wAt.path].kind = "directory" /\ ~Sizing
  PROVE  /\ WalkFrontier' /\ EntryInv' /\ ~Sizing' /\ wAt.path \in Places
         /\ wPending' \in Places \cup {NoPlace}
         /\ Frontier' = IF wPending' = wAt.path \/ Sizing THEN Frontier
                        ELSE Frontier \ {wAt.path}
<1>1. /\ Walks /\ wPending = NoPlace /\ wStack # <<>> /\ wAt.path \in Places
  BY DEF EntryInv
<1>2. wAt' = WORKSPACE!NoEntry /\ wAt'.path = NoPlace /\ wAt'.step = "none"
  BY DEF WORKSPACE!Leave, WORKSPACE!NoEntry, NoPlace
<1>3. ~Sizing' /\ EntryInv'
  <2>1. wAt' \in Entries
    BY <1>2 DEF Entries, WORKSPACE!NoEntry, NoPlace
  <2> QED BY <1>2, <2>1, Fixed DEF Sizing, EntryInv
<1>4. wAt.path # NoPlace /\ NoPlace \notin Places
  BY <1>1, TreePlaces
<1>5. ~Sizing => wAt.path \notin Union(wStack)
  BY <1>1 DEF WalkFrontier
<1>6. NoPlace' = NoPlace /\ Union(wStack)' = Union(wStack)
  BY DEF NoPlace, WORKSPACE!NoPath, Union
<1>7. /\ Frontier = Union(wStack) \cup (IF Sizing THEN {} ELSE {wAt.path})
      /\ Frontier' = Union(wStack) \cup ({wPending'} \ {NoPlace})
  BY <1>1, <1>2, <1>3, <1>4, <1>6 DEF Frontier
<1>8. Frontier' = IF wPending' = wAt.path \/ Sizing THEN Frontier
                  ELSE Frontier \ {wAt.path}
  BY <1>4, <1>5, <1>7
<1>9. Frontier \subseteq Places /\ Apart(wStack') /\ Union(wStack') = Union(wStack)
  BY <1>1, FrontierPlaces
<1>10. wAt'.path \notin Union(wStack')
  BY <1>2, <1>4, <1>7, <1>9
<1>11. WalkFrontier'
  BY <1>1, <1>4, <1>5, <1>8, <1>9, <1>10, FrontierShrinks DEF OnlyLooks
<1> QED BY <1>1, <1>3, <1>8, <1>11

\* One more question about the entry.
LEMMA AskKeeps ==
  ASSUME WalkTypes, EntryInv, WalkFrontier, OnlyLooks, wAt.step # "none", wPc' = wPc,
         NEW step \in {"size", "open", "read"}, WORKSPACE!Ask(step), ~Sizing,
         wStack' = wStack, wPending' = wPending
  PROVE  /\ WalkFrontier' /\ wAt.path \in Places /\ wAt' \in Entries
         /\ Sizing' = (wPc = "scan" /\ step = "size")
         /\ wAt'.path = wAt.path /\ wAt'.step = step /\ wAt'.rel = wAt.rel
         /\ Frontier' = IF Sizing' THEN Frontier \ {wAt.path} ELSE Frontier
<1>1. /\ Walks /\ wPending = NoPlace /\ wStack # <<>> /\ wAt.path \in Places
  BY DEF EntryInv
<1>2. wAt' = [wAt EXCEPT !.step = step] /\ wAt \in Entries
  BY DEF WORKSPACE!Ask, EntryInv
<1>3. /\ wAt'.path = wAt.path /\ wAt'.step = step /\ wAt'.rel = wAt.rel
      /\ wAt' \in Entries
  BY <1>2 DEF Entries
<1>4. Sizing' = (wPc = "scan" /\ step = "size")
  BY <1>3 DEF Sizing
<1>5. wAt.path # NoPlace /\ NoPlace' = NoPlace /\ Union(wStack)' = Union(wStack)
  BY <1>1, TreePlaces DEF NoPlace, WORKSPACE!NoPath, Union
<1>6. wAt.path \notin Union(wStack)
  BY <1>1 DEF WalkFrontier
<1>7. /\ Frontier = Union(wStack) \cup {wAt.path}
      /\ Frontier' = Union(wStack) \cup (IF Sizing' THEN {} ELSE {wAt.path})
  BY <1>1, <1>3, <1>5 DEF Frontier
<1>8. Frontier' = IF Sizing' THEN Frontier \ {wAt.path} ELSE Frontier
  BY <1>6, <1>7
<1>9. Apart(wStack') /\ Union(wStack') = Union(wStack)
  BY <1>1, FrontierPlaces
<1>10. WalkFrontier'
  BY <1>1, <1>3, <1>6, <1>8, <1>9, FrontierShrinks DEF OnlyLooks
<1> QED BY <1>1, <1>3, <1>4, <1>8, <1>10

\* Leaving a directory changes nothing of what is still to be visited.
LEMMA AscendKeeps ==
  ASSUME WalkTypes, EntryInv, WalkFrontier, WORKSPACE!Ascend
  PROVE  /\ wStack' \in Seq(SUBSET Places) /\ WalkFrontier' /\ Frontier' = Frontier
         /\ EntryInv' /\ wPending' = NoPlace
<1>1. /\ Walks /\ wStack # <<>> /\ wPending = NoPlace /\ WORKSPACE!Last(wStack) = {}
      /\ wAt = WORKSPACE!NoEntry /\ wAt' = wAt /\ OnlyLooks /\ wPc' = wPc
      /\ wStack' = WORKSPACE!Front(wStack) /\ wPending' = NoPlace
  BY DEF WORKSPACE!Ascend, WORKSPACE!Walking, Walks, NoPlace, WORKSPACE!tree, OnlyLooks
<1>2. wStack \in Seq(SUBSET Places) /\ Apart(wStack)
  BY <1>1, FrontierPlaces
<1>3. wStack' \in Seq(SUBSET Places)
  BY <1>1, <1>2, LastLevel
<1>4. Apart(wStack')
  BY <1>1, <1>2, LastLevel
<1>5. Union(wStack) = Union(wStack') \cup {}
  BY <1>1, <1>2, LastLevel
<1>6. NoPlace' = NoPlace /\ Union(wStack)' = Union(wStack')
  BY DEF NoPlace, WORKSPACE!NoPath, Union
<1>7. wAt.path = NoPlace /\ wAt.step = "none" /\ wAt \in Entries
  BY <1>1 DEF WORKSPACE!NoEntry, NoPlace, EntryInv
<1>8. ~Sizing /\ ~Sizing' /\ EntryInv'
  BY <1>1, <1>7, Fixed DEF Sizing, EntryInv
<1>9. Frontier' = Frontier
  BY <1>1, <1>5, <1>6, <1>7 DEF Frontier, Sizing
<1>10. wAt'.path \notin Union(wStack')
  BY <1>1, <1>5, <1>7, <1>8 DEF WalkFrontier
<1>11. WalkFrontier'
  BY <1>1, <1>4, <1>9, <1>10, FrontierShrinks DEF OnlyLooks
<1> QED BY <1>1, <1>3, <1>8, <1>9, <1>11

\* The directory gives way to its entries, is passed over or ends the walk.
LEMMA DescendKeeps ==
  ASSUME WalkTypes, EntryInv, WalkFrontier, WORKSPACE!Descend
  PROVE  /\ wStack' \in Seq(SUBSET Places) /\ WalkFrontier' /\ EntryInv'
         /\ wPending \in Frontier /\ wPending \in Places
         /\ Tree[wPending].kind = "directory" /\ wPending' = NoPlace
         /\ wPending \in wAlive /\ Tree[wPending].readable =>
              Frontier' = (Frontier \ {wPending}) \cup WORKSPACE!Children(wPending)
         /\ wPending \in wAlive /\ ~Tree[wPending].readable =>
              Frontier' = Frontier \ {wPending}
         /\ wPending \notin wAlive => Frontier' = {}
<1>1. /\ Walks /\ wStack # <<>> /\ wPending # NoPlace /\ wPending' = NoPlace
      /\ wAt = WORKSPACE!NoEntry /\ wAt' = wAt /\ OnlyLooks /\ wPc' = wPc
      /\ wPending \in wAlive /\ Tree[wPending].readable =>
           wStack' = Append(wStack, WORKSPACE!Children(wPending))
      /\ wPending \in wAlive /\ ~Tree[wPending].readable => wStack' = wStack
      /\ wPending \notin wAlive => wStack' = <<>>
  BY DEF WORKSPACE!Descend, WORKSPACE!Walking, Walks, NoPlace, WORKSPACE!tree, OnlyLooks
<1>2. /\ Frontier \subseteq Places /\ wStack \in Seq(SUBSET Places)
      /\ Frontier \subseteq wEver /\ Apart(wStack)
      /\ \A f \in Frontier : Passable(f)
      /\ \A f, g \in Frontier : Leq(f, g) => f = g
      /\ wPending \in Frontier /\ wPending \in Places
  BY <1>1, FrontierPlaces
<1>3. /\ wAlive \subseteq wEver /\ wAlive \subseteq Places /\ wEver \subseteq Places
      /\ Tree[wPending].kind = "directory" /\ wPending \notin Union(wStack)
  BY <1>1 DEF WalkTypes, Walks, WalkFrontier
<1>4. wAt.path = NoPlace /\ wAt.step = "none" /\ wAt \in Entries /\ NoPlace \notin Places
  BY <1>1, TreePlaces DEF WORKSPACE!NoEntry, NoPlace, EntryInv
<1>5. ~Sizing /\ ~Sizing' /\ EntryInv'
  BY <1>1, <1>4, Fixed DEF Sizing, EntryInv
<1>6. NoPlace' = NoPlace /\ Union(wStack)' = Union(wStack')
  BY DEF NoPlace, WORKSPACE!NoPath, Union
<1>7. Frontier = Union(wStack) \cup {wPending} /\ Frontier' = Union(wStack')
  BY <1>1, <1>4, <1>5, <1>6 DEF Frontier
<1>8. CASE wPending \in wAlive /\ Tree[wPending].readable
  <2> DEFINE entries == WORKSPACE!Children(wPending)
  <2>1. /\ entries \subseteq wAlive
        /\ \A c \in entries :
             /\ Leq(wPending, c) /\ wPending # c /\ ~Leq(c, wPending)
             /\ \A r \in Places : Leq(r, c) => r = c \/ Leq(r, wPending)
    BY <1>2, ChildrenOfAPlace
  <2>2. entries \in SUBSET Places
    BY <1>3, <2>1
  <2>3. entries \cap Union(wStack) = {}
    BY <1>2, <1>7, <2>1
  <2>4. wStack' = Append(wStack, entries)
    BY <1>1, <1>8
  <2> HIDE DEF entries
  <2>5. wStack' \in Seq(SUBSET Places)
    BY <1>2, <2>2, <2>3, <2>4, PushLevel
  <2>6. Apart(wStack')
    BY <1>2, <2>2, <2>3, <2>4, PushLevel
  <2>7. Union(wStack') = Union(wStack) \cup entries
    BY <1>2, <2>2, <2>3, <2>4, PushLevel
  <2>8. Frontier' = (Frontier \ {wPending}) \cup entries
    BY <1>3, <1>7, <2>7
  <2>9. Frontier' \subseteq wEver
    BY <1>2, <1>3, <2>1, <2>8
  <2>10. ASSUME NEW f \in Frontier', NEW r \in Above(f)
         PROVE  Tree[r].readable
    <3>1. CASE f \in Frontier
      BY <1>2, <2>10, <3>1 DEF Passable
    <3>2. CASE f \in entries
      <4>1. f \in Places /\ r \in Places /\ r # f /\ Leq(r, f)
        BY <2>2, <2>10, <3>2, PlacesAbove
      <4>2. Leq(r, wPending)
        BY <2>1, <3>2, <4>1
      <4>3. r = wPending \/ r \in Above(wPending)
        BY <1>2, <4>1, <4>2, PlacesAbove
      <4> QED BY <1>2, <1>8, <4>3 DEF Passable
    <3> QED BY <2>8, <2>10, <3>1, <3>2
  <2>11. ASSUME NEW f \in Frontier', NEW g \in Frontier', Leq(f, g)
         PROVE  f = g
    <3>1. /\ f \in Places /\ g \in Places
          /\ f \in Frontier \ {wPending} \/ f \in entries
          /\ g \in Frontier \ {wPending} \/ g \in entries
      BY <1>2, <2>2, <2>8
    <3>2. CASE f \in Frontier \ {wPending} /\ g \in Frontier \ {wPending}
      BY <1>2, <2>11, <3>2
    <3>3. CASE f \in Frontier \ {wPending} /\ g \in entries
      BY <1>2, <2>1, <2>11, <3>1, <3>3
    <3>4. CASE f \in entries /\ g \in Frontier \ {wPending}
      <4>1. Leq(wPending, f)
        BY <2>1, <3>4
      <4>2. Leq(wPending, g)
        BY <1>2, <2>11, <3>1, <4>1, PlacesOrder
      <4> QED BY <1>2, <3>4, <4>2
    <3>5. CASE f \in entries /\ g \in entries
      BY <2>1, <2>11, <3>1, <3>5
    <3> QED BY <3>1, <3>2, <3>3, <3>4, <3>5
  <2>12. wAt'.path \notin Union(wStack')
    <3>1. Union(wStack') \subseteq Places
      BY <1>2, <1>7, <2>2, <2>7
    <3> QED BY <1>1, <1>4, <3>1
  <2>13. WalkFrontier'
    <3>1. (\A f \in Frontier : Passable(f))'
      BY <2>10 DEF Passable, Above
    <3>2. (\A f, g \in Frontier : Leq(f, g) => f = g)'
      BY <2>11 DEF Leq, WORKSPACE!IsPrefix
    <3>3. Apart(wStack)'
      BY <2>6 DEF Apart
    <3> QED BY <1>1, <1>6, <2>9, <2>12, <3>1, <3>2, <3>3 DEF WalkFrontier, OnlyLooks
  <2> QED BY <1>1, <1>2, <1>3, <1>5, <1>8, <2>5, <2>8, <2>13 DEF entries
<1>9. CASE wPending \in wAlive /\ ~Tree[wPending].readable
  <2>1. wStack' = wStack
    BY <1>1, <1>9
  <2>2. Frontier' = Frontier \ {wPending}
    BY <1>3, <1>7, <2>1
  <2>3. Apart(wStack') /\ wAt'.path \notin Union(wStack')
    BY <1>1, <1>2, <1>4, <1>7, <2>1
  <2>4. WalkFrontier'
    BY <1>1, <2>2, <2>3, FrontierShrinks DEF OnlyLooks
  <2> QED BY <1>1, <1>2, <1>3, <1>5, <1>9, <2>1, <2>2, <2>4
<1>10. CASE wPending \notin wAlive
  <2>1. wStack' = <<>> /\ <<>> \in Seq(SUBSET Places) /\ Len(<<>>) = 0
    BY <1>1, <1>10
  <2>2. Apart(wStack') /\ Union(wStack') = {}
    BY <2>1 DEF Apart, Union
  <2>3. Frontier' = {}
    BY <1>7, <2>2
  <2>4. WalkFrontier'
    BY <1>1, <2>2, <2>3, FrontierShrinks DEF OnlyLooks
  <2> QED BY <1>1, <1>2, <1>3, <1>5, <1>10, <2>1, <2>3, <2>4
<1> QED BY <1>8, <1>9, <1>10


-----------------------------------------------------------------------------
\* A step of the walk keeps the types.
LEMMA TypesStay ==
  ASSUME WalkTypes, OnlyLooks, Walks, wPc' \in {wPc, "done"},
         wStack' \in Seq(SUBSET Places), wPending' \in Places \cup {NoPlace},
         wResult' \in Results
  PROVE  WalkTypes'
<1>1. /\ Closed(wAlive)' = Closed(wAlive) /\ Closed(wSince)' = Closed(wSince)
      /\ Places' = Places /\ NoPlace' = NoPlace /\ Results' = Results
      /\ Tasks' = Tasks
  BY Fixed DEF OnlyLooks, Closed, Leq, WORKSPACE!IsPrefix
<1>2. wPc' \in {"scan", "search", "done"} /\ (wPc' # "done" => wPc' = wPc)
  BY DEF Walks
<1> QED BY <1>1, <1>2 DEF WalkTypes, OnlyLooks, Walks

\* What the walk knows of its result.
LEMMA WalkingResult ==
  ASSUME WalkInv, Walks
  PROVE  /\ wResult \in Results /\ wResult.truncated = FALSE /\ wResult.thrown = FALSE
         /\ wPc = "scan" <=> Scanned
         /\ wPc = "search" <=> Searched
         /\ wRequest.tool = wPc /\ wRequest.limit \in 1 .. LargestLimit
         /\ WORKSPACE!WantedOf(wSince) \subseteq Places
BY DEF WalkInv, Walks, WalkTypes, WalkCovers, Results, Scanned, Searched,
   WORKSPACE!WantedOf

\* What is handled depends on what was found.
LEMMA SameHandled ==
  ASSUME OnlyLooks, wResult'.found = wResult.found,
         wResult'.matches = wResult.matches
  PROVE  \A q : Handled(q)' <=> Handled(q)
<1>1. WORKSPACE!ToSet(wResult.matches)' = WORKSPACE!ToSet(wResult.matches)
  BY DEF WORKSPACE!ToSet
<1>2. \A q : WORKSPACE!MatchesOf({q})' = WORKSPACE!MatchesOf({q})
  BY SameShown DEF WORKSPACE!MatchesOf
<1> QED BY <1>1, <1>2 DEF Handled, OnlyLooks

\* What was to be visited is handled, or it is still to be visited.
LEMMA CoversStay ==
  ASSUME WalkInv, OnlyLooks, Walks, wPc' = wPc, wResult'.truncated = FALSE,
         wResult'.thrown = FALSE, ~wResult'.warned => ~wResult.warned,
         \A q \in WORKSPACE!WantedOf(wSince) : Handled(q) => Handled(q)',
         \A q \in WORKSPACE!WantedOf(wSince) : \A f \in Frontier :
           Leq(f, q) /\ ~wResult'.warned =>
             Handled(q)' \/ \E g \in Frontier' : Leq(g, q)
  PROVE  WalkCovers'
<1>1. SUFFICES ASSUME ~wResult'.warned, wRequest.root = "open",
                      NEW q \in WORKSPACE!WantedOf(wSince)
               PROVE  Handled(q)' \/ \E g \in Frontier' : Leq(g, q)
  <2>1. \A q : Ahead(q)' <=> \E g \in Frontier' : Leq(g, q)
    BY DEF Ahead, Leq, WORKSPACE!IsPrefix
  <2>2. WORKSPACE!WantedOf(wSince)' = WORKSPACE!WantedOf(wSince)
    BY SameShown
  <2> QED BY <2>1, <2>2 DEF WalkCovers, OnlyLooks
<1>2. Handled(q) \/ \E f \in Frontier : Leq(f, q)
  BY <1>1 DEF WalkInv, WalkCovers, Ahead
<1> QED BY <1>1, <1>2

\* What was found, counted or matched so far stays, and the walk goes on.
LEMMA ReportStays ==
  ASSUME WalkInv, OnlyLooks, Walks, wPc' = wPc, ~Sizing, ~Sizing',
         wResult'.found = wResult.found, wResult'.files = wResult.files,
         wResult'.truncated = wResult.truncated, wResult'.bytes = wResult.bytes,
         wResult'.extensions = wResult.extensions, wResult'.matches = wResult.matches,
         Frontier' \subseteq Places,
         \A f \in Frontier' : \E g \in Frontier : Leq(g, f)
  PROVE  ScanInv' /\ TotalsInv' /\ SearchInv'
<1>1. /\ wRequest' = wRequest /\ wSince' = wSince /\ wEver' = wEver
      /\ wPc \in {"scan", "search"} /\ wResult.truncated = FALSE
  BY WalkingResult DEF OnlyLooks, Walks
<1>2. /\ WORKSPACE!VisibleOf(wEver)' = WORKSPACE!VisibleOf(wEver)
      /\ WORKSPACE!MatchesOf(WORKSPACE!VisibleOf(wEver))'
            = WORKSPACE!MatchesOf(WORKSPACE!VisibleOf(wEver))
  BY SameShown
<1>3. ScanInv'
  <2>1. SUFFICES ASSUME Scanned PROVE ScanInv'
    BY <1>1 DEF ScanInv, Scanned
  <2>2. ASSUME NEW f \in Frontier', NEW q \in wResult.found PROVE ~Leq(f, q)
    <3>1. PICK g \in Frontier : Leq(g, f)
      BY <2>2
    <3>2. ~Leq(g, q)
      BY <1>1, <2>1, <2>2 DEF WalkInv, ScanInv, Scanned
    <3>3. g \in Places /\ f \in Places /\ q \in Places
      BY <1>1, <2>2, FrontierPlaces DEF WalkInv, WalkTypes, Walks, Results
    <3> QED BY <3>1, <3>2, <3>3, PlacesOrder
  <2>3. (\A f \in Frontier : \A q \in wResult.found : ~Leq(f, q))'
    BY <2>2 DEF Leq, WORKSPACE!IsPrefix
  <2>4. /\ wResult.found \subseteq WORKSPACE!VisibleOf(wEver)
        /\ wResult.files = Cardinality(wResult.found) /\ wResult.files <= wRequest.limit
    BY <2>1 DEF WalkInv, ScanInv
  <2>5. wPc' # "done" /\ ~wResult'.truncated
    BY <1>1
  <2> QED BY <1>1, <1>2, <2>3, <2>4, <2>5 DEF ScanInv
<1>4. TotalsInv'
  <2>1. SUFFICES ASSUME Scanned PROVE TotalsInv'
    BY <1>1 DEF TotalsInv, Scanned
  <2>2. PICK sizes \in [Sized -> 0 .. MaxSize] : SizedAs(sizes)
    BY <2>1 DEF WalkInv, TotalsInv
  <2>3. Sized' = Sized
    BY DEF Sized
  <2>4. SizedAs(sizes)'
    BY <2>2, <2>3, SameShown DEF SizedAs, OfExtension, WORKSPACE!Size,
       WORKSPACE!Extensions, WORKSPACE!Paths
  <2> QED BY <2>2, <2>3, <2>4 DEF TotalsInv
<1>5. SearchInv'
  <2>1. SUFFICES ASSUME Searched PROVE SearchInv'
    BY <1>1 DEF SearchInv, Searched
  <2>2. /\ WORKSPACE!ToSet(wResult.matches)
               \subseteq WORKSPACE!MatchesOf(WORKSPACE!VisibleOf(wEver))
        /\ Len(wResult.matches) <= wRequest.limit
        /\ ~wResult.truncated => Len(wResult.matches) < wRequest.limit
    BY <2>1 DEF WalkInv, SearchInv
  <2>3. WORKSPACE!ToSet(wResult.matches)' = WORKSPACE!ToSet(wResult.matches)
    BY DEF WORKSPACE!ToSet
  <2>4. wPc' # "done"
    BY <1>1
  <2> QED BY <1>1, <1>2, <2>2, <2>3, <2>4 DEF SearchInv
<1> QED BY <1>3, <1>4, <1>5

\* A step that neither counts nor matches: the frontier still leads to all that
\* is wanted and not handled.
LEMMA QuietStep ==
  ASSUME WalkInv, OnlyLooks, Walks, wPc' = wPc, ~Sizing, ~Sizing',
         wStack' \in Seq(SUBSET Places), wPending' \in Places \cup {NoPlace},
         EntryInv', WalkFrontier', wResult' \in Results,
         wResult'.found = wResult.found, wResult'.files = wResult.files,
         wResult'.truncated = wResult.truncated, wResult'.thrown = wResult.thrown,
         wResult'.bytes = wResult.bytes, wResult'.extensions = wResult.extensions,
         wResult'.matches = wResult.matches, ~wResult'.warned => ~wResult.warned,
         \A f \in Frontier' : \E g \in Frontier : Leq(g, f),
         \A q \in WORKSPACE!WantedOf(wSince) : \A f \in Frontier :
           Leq(f, q) /\ ~wResult'.warned =>
             Handled(q) \/ \E g \in Frontier' : Leq(g, q)
  PROVE  WalkInv'
<1>1. WalkTypes'
  BY TypesStay DEF WalkInv
<1>2. Frontier' \subseteq Places
  <2>1. Walks'
    BY DEF Walks
  <2> QED BY <2>1 DEF WalkInv, WalkTypes, WalkFrontier, OnlyLooks
<1>3. ScanInv' /\ TotalsInv' /\ SearchInv'
  BY <1>2, ReportStays
<1>4. WalkCovers'
  BY SameHandled, WalkingResult, CoversStay
<1> QED BY <1>1, <1>3, <1>4 DEF WalkInv


-----------------------------------------------------------------------------
\* The next entry is taken.
LEMMA WorkspaceTakeKeeps ==
  ASSUME WalkInv, NEW p, WORKSPACE!Take(p)
  PROVE  WalkInv'
<1>1. /\ WalkTypes /\ EntryInv /\ WalkFrontier /\ OnlyLooks /\ Walks /\ wPc' = wPc
      /\ wResult' = wResult /\ wPending' = wPending
  BY DEF WalkInv, WORKSPACE!Take, WORKSPACE!Walking, WORKSPACE!tree, OnlyLooks, Walks
<1>2. /\ wStack' \in Seq(SUBSET Places) /\ WalkFrontier' /\ Frontier' = Frontier
      /\ EntryInv' /\ ~Sizing /\ ~Sizing'
  BY <1>1, TakeKeeps
<1>3. /\ wPending' \in Places \cup {NoPlace} /\ wResult' \in Results
      /\ Frontier \subseteq Places
  BY <1>1, FrontierPlaces DEF WalkTypes
<1>4. \A f \in Frontier' : \E g \in Frontier : Leq(g, f)
  BY <1>2, <1>3, PlacesOrder
<1> QED BY <1>1, <1>2, <1>3, <1>4, QuietStep

\* A directory is left.
LEMMA WorkspaceAscendKeeps ==
  ASSUME WalkInv, WORKSPACE!Ascend
  PROVE  WalkInv'
<1>1. /\ WalkTypes /\ EntryInv /\ WalkFrontier /\ OnlyLooks /\ Walks /\ wPc' = wPc
      /\ wResult' = wResult /\ wAt = WORKSPACE!NoEntry /\ wAt' = wAt
  BY DEF WalkInv, WORKSPACE!Ascend, WORKSPACE!Walking, WORKSPACE!tree, OnlyLooks, Walks
<1>2. /\ wStack' \in Seq(SUBSET Places) /\ WalkFrontier' /\ Frontier' = Frontier
      /\ EntryInv' /\ wPending' = NoPlace
  BY <1>1, AscendKeeps
<1>3. /\ wPending' \in Places \cup {NoPlace} /\ wResult' \in Results
      /\ Frontier \subseteq Places /\ ~Sizing /\ ~Sizing'
  BY <1>1, <1>2, FrontierPlaces DEF WalkTypes, Sizing, WORKSPACE!NoEntry
<1>4. \A f \in Frontier' : \E g \in Frontier : Leq(g, f)
  BY <1>2, <1>3, PlacesOrder
<1> QED BY <1>1, <1>2, <1>3, <1>4, QuietStep

\* A directory is opened, passed over because it may not be, or it has vanished
\* and the walk ends with a warning.
LEMMA WorkspaceDescendKeeps ==
  ASSUME WalkInv, WORKSPACE!Descend
  PROVE  WalkInv'
<1>1. /\ WalkTypes /\ EntryInv /\ WalkFrontier /\ OnlyLooks /\ Walks /\ wPc' = wPc
      /\ wAt = WORKSPACE!NoEntry /\ wAt' = wAt
      /\ wPending \in wAlive => wResult' = wResult
      /\ wPending \notin wAlive => wResult' = [wResult EXCEPT !.warned = TRUE]
  BY DEF WalkInv, WORKSPACE!Descend, WORKSPACE!Walking, WORKSPACE!tree, OnlyLooks, Walks
<1>2. /\ wStack' \in Seq(SUBSET Places) /\ WalkFrontier' /\ EntryInv'
      /\ wPending \in Frontier /\ wPending \in Places
      /\ Tree[wPending].kind = "directory" /\ wPending' = NoPlace
      /\ wPending \in wAlive /\ Tree[wPending].readable =>
           Frontier' = (Frontier \ {wPending}) \cup WORKSPACE!Children(wPending)
      /\ wPending \in wAlive /\ ~Tree[wPending].readable =>
           Frontier' = Frontier \ {wPending}
      /\ wPending \notin wAlive => Frontier' = {}
  BY <1>1, DescendKeeps
<1>3. /\ wResult' \in Results
      /\ wResult'.found = wResult.found /\ wResult'.files = wResult.files
      /\ wResult'.truncated = wResult.truncated /\ wResult'.thrown = wResult.thrown
      /\ wResult'.bytes = wResult.bytes /\ wResult'.extensions = wResult.extensions
      /\ wResult'.matches = wResult.matches
      /\ ~wResult'.warned => ~wResult.warned /\ wPending \in wAlive
  <2>1. wResult \in Results
    BY <1>1, WalkingResult
  <2>2. CASE wPending \in wAlive
    BY <1>1, <2>1, <2>2
  <2>3. CASE wPending \notin wAlive
    BY <1>1, <2>1, <2>3 DEF Results
  <2> QED BY <2>2, <2>3
<1>4. /\ Frontier \subseteq Places /\ wAlive \subseteq Places /\ ~Sizing /\ ~Sizing'
      /\ wPending' \in Places \cup {NoPlace}
  BY <1>1, <1>2, FrontierPlaces DEF WalkTypes, Sizing, WORKSPACE!NoEntry
<1>5. /\ WORKSPACE!Children(wPending) \subseteq wAlive
      /\ \A c \in WORKSPACE!Children(wPending) : Leq(wPending, c)
      /\ \A q \in wAlive : Leq(wPending, q) /\ wPending # q =>
           \E c \in WORKSPACE!Children(wPending) : Leq(c, q)
  BY <1>1, <1>2, ChildrenOfAPlace
<1>6. \A f \in Frontier' : \E g \in Frontier : Leq(g, f)
  BY <1>2, <1>4, <1>5, PlacesOrder
<1>7. ASSUME NEW q \in WORKSPACE!WantedOf(wSince), NEW f \in Frontier, Leq(f, q),
             ~wResult'.warned
      PROVE  \E g \in Frontier' : Leq(g, q)
  <2>1. wPending \in wAlive
    BY <1>3, <1>7
  <2>2. q \in wAlive /\ q \in Places /\ Tree[q].kind \in {"file", "file_link"}
    BY <1>1, <1>7, WantedPath
  <2>3. CASE f # wPending
    BY <1>2, <1>7, <2>1, <2>3
  <2>4. CASE f = wPending
    <3>1. q # wPending
      BY <1>2, <2>2
    <3>2. Tree[wPending].readable
      BY <1>1, <1>2, <1>7, <2>4, <3>1, WantedPath
    <3> QED BY <1>2, <1>5, <1>7, <2>1, <2>2, <2>4, <3>1, <3>2
  <2> QED BY <2>3, <2>4
<1> QED BY <1>1, <1>2, <1>3, <1>4, <1>6, <1>7, QuietStep

\* An entry that leads to what is wanted is there and not hidden.
LEMMA OnTheWay ==
  ASSUME WalkTypes, EntryInv, wAt.step # "none",
         NEW q \in WORKSPACE!WantedOf(wSince), Leq(wAt.path, q)
  PROVE  /\ ~WORKSPACE!Hidden(wAt.rel) /\ WORKSPACE!There(wAt.path)
         /\ wAt.path # q => Tree[wAt.path].kind = "directory"
         /\ Tree[q].kind \in {"file", "file_link"} /\ Rel[q] \in wSince
         /\ wAt.path = q => wAt.rel = Rel[q]
<1>1. wAt.path \in Places /\ wAt.rel \in WORKSPACE!Names(wAt.path)
  BY DEF EntryInv
<1>2. /\ Tree[q].kind \in {"file", "file_link"} /\ Rel[q] \in wSince
      /\ WORKSPACE!There(q) /\ WORKSPACE!Names(q) = {Rel[q]} /\ ~WORKSPACE!Hidden(Rel[q])
      /\ wAt.path # q =>
           /\ Tree[wAt.path].kind = "directory" /\ WORKSPACE!There(wAt.path)
           /\ WORKSPACE!Names(wAt.path) = {wAt.path} /\ ~WORKSPACE!Hidden(wAt.path)
  BY <1>1, WantedPath
<1>3. CASE wAt.path = q
  <2>1. wAt.rel = Rel[q]
    BY <1>1, <1>2, <1>3
  <2> QED BY <1>2, <1>3, <2>1
<1>4. CASE wAt.path # q
  <2>1. wAt.rel = wAt.path
    BY <1>1, <1>2, <1>4
  <2> QED BY <1>2, <1>4, <2>1
<1> QED BY <1>3, <1>4

\* A hidden entry is passed over, and nothing below it is wanted.
LEMMA WorkspaceSkipKeeps ==
  ASSUME WalkInv, WORKSPACE!Skip
  PROVE  WalkInv'
<1>1. /\ WalkTypes /\ EntryInv /\ WalkFrontier /\ OnlyLooks /\ wPc' = wPc
      /\ wResult' = wResult /\ wStack' = wStack /\ WORKSPACE!Leave
      /\ wAt.step = "kind" /\ wAt.step # "none" /\ WORKSPACE!Hidden(wAt.rel)
  BY DEF WalkInv, WORKSPACE!Skip, WORKSPACE!tree, OnlyLooks
<1>2. Walks /\ wAt.path \in Places /\ ~Sizing
  BY <1>1 DEF EntryInv, Sizing
<1>3. /\ wPending' \in {wAt.path, NoPlace}
      /\ wPending' = wAt.path => Tree[wAt.path].kind = "directory"
  <2>1. PICK kind \in WORKSPACE!Answers(wAt.path) :
          wPending' \in IF kind = "directory" THEN {NoPlace}
                        ELSE WORKSPACE!Pendings(wAt.path, kind)
    BY DEF WORKSPACE!Skip, NoPlace
  <2>2. \A next \in WORKSPACE!Pendings(wAt.path, kind) :
          /\ next \in {wAt.path, NoPlace}
          /\ next = wAt.path => Tree[wAt.path].kind = "directory"
    BY <1>2, AnswersAndPendings
  <2>3. wAt.path # NoPlace
    BY <1>2, TreePlaces
  <2> QED BY <2>1, <2>2, <2>3
<1>4. /\ WalkFrontier' /\ EntryInv' /\ ~Sizing'
      /\ wPending' \in Places \cup {NoPlace}
      /\ Frontier' = Frontier \/ Frontier' = Frontier \ {wAt.path}
  BY <1>1, <1>2, <1>3, LeaveKeeps
<1>5. /\ Frontier \subseteq Places /\ wStack' \in Seq(SUBSET Places)
      /\ wResult' \in Results
  BY <1>1, <1>2, FrontierPlaces DEF WalkTypes
<1>6. \A f \in Frontier' : \E g \in Frontier : Leq(g, f)
  BY <1>4, <1>5, PlacesOrder
<1>7. ASSUME NEW q \in WORKSPACE!WantedOf(wSince), NEW f \in Frontier, Leq(f, q)
      PROVE  f \in Frontier'
  BY <1>1, <1>4, <1>7, OnTheWay
<1> QED BY <1>1, <1>2, <1>4, <1>5, <1>6, <1>7, QuietStep

\* What is no file is passed: a directory is opened next.
LEMMA PassKeeps ==
  ASSUME WalkInv, OnlyLooks, wPc' = wPc, wStack' = wStack, WORKSPACE!Leave,
         wAt.step = "kind", NEW kind \in WORKSPACE!Answers(wAt.path),
         kind \notin {"file", "file_link"},
         wPending' \in WORKSPACE!Pendings(wAt.path, kind),
         wResult' \in {wResult, [wResult EXCEPT !.directories = @ + 1]}
  PROVE  WalkInv'
<1>1. /\ WalkTypes /\ EntryInv /\ WalkFrontier /\ wAt.step # "none"
      /\ Walks /\ wAt.path \in Places /\ ~Sizing
  BY DEF WalkInv, EntryInv, Sizing
<1>2. /\ wPending' \in {wAt.path, NoPlace}
      /\ wPending' = wAt.path => Tree[wAt.path].kind = "directory"
      /\ kind = "directory" => wPending' = wAt.path
      /\ WORKSPACE!There(wAt.path) => kind = Tree[wAt.path].kind
  BY <1>1, AnswersAndPendings
<1>3. /\ WalkFrontier' /\ EntryInv' /\ ~Sizing'
      /\ wPending' \in Places \cup {NoPlace}
      /\ Frontier' = IF wPending' = wAt.path THEN Frontier ELSE Frontier \ {wAt.path}
  BY <1>1, <1>2, LeaveKeeps
<1>4. /\ Frontier \subseteq Places /\ wStack' \in Seq(SUBSET Places)
  BY <1>1, FrontierPlaces
<1>5. /\ wResult' \in Results
      /\ wResult'.found = wResult.found /\ wResult'.files = wResult.files
      /\ wResult'.truncated = wResult.truncated /\ wResult'.thrown = wResult.thrown
      /\ wResult'.bytes = wResult.bytes /\ wResult'.extensions = wResult.extensions
      /\ wResult'.matches = wResult.matches /\ wResult'.warned = wResult.warned
  <2>1. wResult \in Results /\ wResult.directories + 1 \in Nat
    BY <1>1, WalkingResult DEF Results
  <2> QED BY <2>1 DEF Results
<1>6. \A f \in Frontier' : \E g \in Frontier : Leq(g, f)
  BY <1>3, <1>4, PlacesOrder
<1>7. ASSUME NEW q \in WORKSPACE!WantedOf(wSince), NEW f \in Frontier, Leq(f, q)
      PROVE  f \in Frontier'
  <2>1. CASE f # wAt.path
    BY <1>3, <1>7, <2>1
  <2>2. CASE f = wAt.path
    <3>1. kind = Tree[wAt.path].kind /\ kind = "directory"
      BY <1>1, <1>2, <1>7, <2>2, OnTheWay
    <3> QED BY <1>2, <1>3, <2>2, <3>1
  <2> QED BY <2>1, <2>2
<1> QED BY <1>1, <1>3, <1>4, <1>5, <1>6, <1>7, QuietStep

\* An entry that is taken for a file and not hidden is one a walk may show.
LEMMA VisitedIsVisible ==
  ASSUME WalkTypes, EntryInv, WalkFrontier, wAt.step = "kind",
         NEW kind \in WORKSPACE!Answers(wAt.path), kind \in {"file", "file_link"},
         ~WORKSPACE!Hidden(wAt.rel)
  PROVE  /\ wAt.path \in Places /\ wAt.path \in Frontier
         /\ wAt.path \in WORKSPACE!VisibleOf(wEver)
         /\ wAt.rel \in WORKSPACE!ShownAs(wAt.path)
<1>1. /\ Walks /\ ~Sizing /\ wAt.path \in Places
      /\ wAt.rel \in WORKSPACE!Names(wAt.path)
  BY DEF EntryInv, Sizing
<1>2. wAt.path \in Frontier
  BY <1>1, TreePlaces DEF Frontier
<1>3. wAt.path \in wEver /\ Passable(wAt.path) /\ wAlive \subseteq wEver
  BY <1>1, <1>2, FrontierPlaces DEF WalkTypes, Walks
<1>4. /\ Tree[wAt.path].kind \in {"file", "file_link"}
      /\ Rel[wAt.path] = wAt.path \/ Rel[wAt.path] \in wAlive
  BY <1>1, AnswersAndPendings
<1>5. wAt.rel \in WORKSPACE!ShownAs(wAt.path)
  BY <1>1 DEF WORKSPACE!ShownAs
<1>6. Rel[wAt.path] \in wEver
  BY <1>3, <1>4
<1>7. wAt.path \in WORKSPACE!VisibleOf(wEver)
  BY <1>1, <1>3, <1>4, <1>5, <1>6, VisibleMeans
<1> QED BY <1>1, <1>2, <1>5, <1>7

\* What is known of an entry that the next question is about.
LEMMA AskedEntry ==
  ASSUME EntryInv, OnlyLooks, wPc' = wPc, wAt.step # "none",
         NEW step \in {"size", "open", "read"}, step = "size" \/ wPc = "search",
         WORKSPACE!Ask(step), wStack' = wStack, wPending' = wPending,
         wAt.path \in WORKSPACE!VisibleOf(wEver), wAt.rel \in WORKSPACE!ShownAs(wAt.path),
         step # "size" /\ Rel[wAt.path] \in wSince =>
           Tree[Rel[wAt.path]].size <= MaxFileBytes,
         step = "read" /\ Rel[wAt.path] \in wSince => Tree[Rel[wAt.path]].readable
  PROVE  EntryInv'
<1> DEFINE p == wAt.path
<1>1. /\ Walks /\ wPending = NoPlace /\ wStack # <<>> /\ p \in Places
      /\ wAt.rel \in WORKSPACE!Names(p) /\ wAt \in Entries
  BY DEF EntryInv
<1>2. /\ wAt'.path = p /\ wAt'.step = step /\ wAt'.rel = wAt.rel /\ wAt' \in Entries
  BY <1>1 DEF Entries, WORKSPACE!Ask
<1>3. /\ WORKSPACE!ShownAs(wAt.path)' = WORKSPACE!ShownAs(p)
      /\ WORKSPACE!Names(wAt.path)' = WORKSPACE!Names(p)
      /\ WORKSPACE!VisibleOf(wEver)' = WORKSPACE!VisibleOf(wEver)
  BY <1>2, SameShown DEF WORKSPACE!ShownAs, WORKSPACE!Names, WORKSPACE!Hidden,
     WORKSPACE!Kept, WORKSPACE!hidden_path, OnlyLooks
<1>4. /\ Walks' /\ wPending' = NoPlace' /\ wStack' # <<>> /\ wSince' = wSince
      /\ step \in (IF wPc' = "scan" THEN {"kind", "size"}
                   ELSE {"kind", "size", "open", "read"})
  BY <1>1, Fixed DEF Walks, OnlyLooks
<1> HIDE DEF p
<1>5. Rel[wAt.path]' = Rel[p] /\ Tree[Rel[wAt.path]]' = Tree[Rel[p]]
  BY <1>2
<1> QED BY <1>1, <1>2, <1>3, <1>4, <1>5, Fixed DEF EntryInv, p


-----------------------------------------------------------------------------
BytesOf(p, sizes) == {p} \X (1 .. sizes[p])
AllBytes(paths, sizes) == UNION {BytesOf(p, sizes) : p \in paths}

\* One more file adds its bytes.
LEMMA SizeGrows ==
  ASSUME NEW A \in SUBSET Places, NEW p \in Places \ A, NEW s, NEW t,
         \A a \in A : s[a] \in Nat /\ t[a] = s[a], t[p] \in Nat
  PROVE  /\ WORKSPACE!Size(A, s) \in Nat
         /\ WORKSPACE!Size(A \cup {p}, t) = WORKSPACE!Size(A, s) + t[p]
<1>1. \A B, u : WORKSPACE!Size(B, u) = Cardinality(AllBytes(B, u))
  BY DEF WORKSPACE!Size, WORKSPACE!Cardinality, Cardinality, AllBytes, BytesOf
<1>2. ASSUME NEW a \in A \cup {p}
      PROVE  IsFiniteSet(BytesOf(a, t)) /\ Cardinality(BytesOf(a, t)) = t[a]
  <2>1. t[a] \in Nat
    BY <1>2
  <2> DEFINE n == t[a]
             positions == 1 .. n
  <2>2. IsFiniteSet(positions) /\ Cardinality(positions) = n
    <3>1. 1 \in Int /\ n \in Int /\ n \in Nat
      BY <2>1
    <3> HIDE DEF n
    <3>2. /\ IsFiniteSet(1 .. n)
          /\ Cardinality(1 .. n) = IF 1 > n THEN 0 ELSE n - 1 + 1
      BY <3>1, FS_Interval
    <3> QED BY <3>1, <3>2
  <2>3. IsFiniteSet({a}) /\ Cardinality({a}) = 1
    BY FS_Singleton
  <2> HIDE DEF positions
  <2>4. /\ IsFiniteSet({a} \X positions)
        /\ Cardinality({a} \X positions) = Cardinality({a}) * Cardinality(positions)
    BY <2>2, <2>3, FS_Product
  <2>5. BytesOf(a, t) = {a} \X positions
    BY DEF BytesOf, positions
  <2>6. 1 * n = n
    BY <2>1
  <2> QED BY <2>2, <2>3, <2>4, <2>5, <2>6
<1>3. IsFiniteSet(A)
  BY TreePlaces, FS_Subset
<1>4. AllBytes(A, s) = AllBytes(A, t)
  BY DEF AllBytes, BytesOf
<1>5. IsFiniteSet(AllBytes(A, t))
  <2> DEFINE images == {BytesOf(a, t) : a \in A}
             f == [a \in A |-> BytesOf(a, t)]
  <2>1. f \in Surjection(A, images)
    BY DEF Surjection
  <2>2. IsFiniteSet(images)
    <3> HIDE DEF f, images
    <3> QED BY <1>3, <2>1, FS_Surjection
  <2>3. \A T \in images : IsFiniteSet(T)
    BY <1>2
  <2>4. IsFiniteSet(UNION images)
    <3> HIDE DEF images
    <3> QED BY <2>2, <2>3, FS_UNION
  <2> QED BY <2>4 DEF AllBytes
<1>6. Cardinality(AllBytes(A, t)) \in Nat
  BY <1>5, FS_CardinalityType
<1>7. Cardinality(AllBytes(A \cup {p}, t)) = Cardinality(AllBytes(A, t)) + t[p]
  <2>1. AllBytes(A \cup {p}, t) = AllBytes(A, t) \cup BytesOf(p, t)
    BY DEF AllBytes
  <2>2. AllBytes(A, t) \cap BytesOf(p, t) = {}
    <3>1. \A b \in AllBytes(A, t) : b[1] \in A
      BY DEF AllBytes, BytesOf
    <3>2. \A b \in BytesOf(p, t) : b[1] = p
      BY DEF BytesOf
    <3> QED BY <3>1, <3>2
  <2>3. /\ IsFiniteSet(BytesOf(p, t)) /\ Cardinality(BytesOf(p, t)) = t[p]
        /\ t[p] \in Nat
    BY <1>2
  <2>4. Cardinality(AllBytes(A, t) \cup BytesOf(p, t)) =
          Cardinality(AllBytes(A, t)) + Cardinality(BytesOf(p, t))
            - Cardinality(AllBytes(A, t) \cap BytesOf(p, t))
    BY <1>5, <2>3, FS_Union
  <2>5. Cardinality(AllBytes(A, t) \cap BytesOf(p, t)) = 0
    BY <2>2, FS_EmptySet
  <2> DEFINE old == Cardinality(AllBytes(A, t))
             one == Cardinality(BytesOf(p, t))
             both == Cardinality(AllBytes(A, t) \cap BytesOf(p, t))
             new == Cardinality(AllBytes(A, t) \cup BytesOf(p, t))
  <2>6. old \in Nat /\ one \in Nat /\ both = 0 /\ new = old + one - both
    BY <1>6, <2>3, <2>4, <2>5
  <2> HIDE DEF old, one, both, new
  <2>7. new = old + one
    BY <2>6
  <2> QED BY <2>1, <2>3, <2>7 DEF old, one, new
<1> QED BY <1>1, <1>4, <1>6, <1>7

\* Sizes that agree give the same.
LEMMA SameSize ==
  ASSUME NEW A, NEW s, NEW t, \A a \in A : t[a] = s[a]
  PROVE  WORKSPACE!Size(A, t) = WORKSPACE!Size(A, s)
BY DEF WORKSPACE!Size

\* No files have no bytes.
LEMMA NoBytes == \A s : WORKSPACE!Size({}, s) = 0
<1>1. \A s : AllBytes({}, s) = {}
  BY DEF AllBytes
<1>2. \A s : WORKSPACE!Size({}, s) = Cardinality(AllBytes({}, s))
  BY DEF WORKSPACE!Size, WORKSPACE!Cardinality, Cardinality, AllBytes, BytesOf
<1> QED BY <1>1, <1>2, FS_EmptySet

\* What adding the size of a file changes of the result.
LEMMA CountedIsTyped ==
  ASSUME wResult \in Results, NEW p \in Places, NEW size \in {-1} \cup (0 .. MaxSize)
  PROVE  LET known == IF size = -1 THEN 0 ELSE size
             ext == Tree[p].extension
             new == WORKSPACE!Counted(p, size)
         IN /\ new \in Results
            /\ new.found = wResult.found /\ new.files = wResult.files
            /\ new.bytes = wResult.bytes + known
            /\ new.truncated = wResult.truncated /\ new.warned = wResult.warned
            /\ new.thrown = wResult.thrown /\ new.matches = wResult.matches
            /\ ext \in WORKSPACE!Extensions
            /\ \A e \in WORKSPACE!Extensions :
                 new.extensions[e] = IF e = ext THEN <<wResult.extensions[e][1] + 1,
                                                       wResult.extensions[e][2] + known>>
                                     ELSE wResult.extensions[e]
<1> DEFINE known == IF size = -1 THEN 0 ELSE size
           ext == Tree[p].extension
           new == WORKSPACE!Counted(p, size)
           old == wResult.extensions
           exts == WORKSPACE!Extensions
           extensions == [old EXCEPT ![ext] = <<@[1] + 1, @[2] + known>>]
<1>1. known \in Nat
  BY TreePlaces
<1>2. ext \in exts
  BY DEF WORKSPACE!Extensions, Places
<1>3. old \in [exts -> Nat \X Nat] /\ wResult.bytes \in Nat
  BY DEF Results
<1>4. new = [wResult EXCEPT !.bytes = @ + known, !.extensions = extensions]
  BY DEF WORKSPACE!Counted
<1> HIDE DEF known, ext, exts
<1>5. /\ extensions \in [exts -> Nat \X Nat]
      /\ \A e \in exts : extensions[e] = IF e = ext THEN <<old[e][1] + 1, old[e][2] + known>>
                                         ELSE old[e]
  <2>1. \A e \in exts : old[e] \in Nat \X Nat
    BY <1>3
  <2>2. \A e \in exts : <<old[e][1] + 1, old[e][2] + known>> \in Nat \X Nat
    BY <1>1, <2>1
  <2> QED BY <1>2, <1>3, <2>2
<1> HIDE DEF extensions, new
<1>6. /\ new.found = wResult.found /\ new.files = wResult.files
      /\ new.bytes = wResult.bytes + known /\ new.extensions = extensions
      /\ new.truncated = wResult.truncated /\ new.warned = wResult.warned
      /\ new.thrown = wResult.thrown /\ new.matches = wResult.matches
  BY <1>4 DEF Results
<1>7. new \in Results
  <2>1. wResult.bytes + known \in Nat
    BY <1>1, <1>3
  <2> QED BY <1>4, <1>5, <2>1 DEF Results, exts
<1> QED BY <1>2, <1>5, <1>6, <1>7 DEF known, ext, exts, new

\* The totals are kept by a step that adds no size.
LEMMA TotalsStay ==
  ASSUME WalkInv, OnlyLooks, Scanned, Sized' = Sized,
         wResult'.bytes = wResult.bytes, wResult'.extensions = wResult.extensions
  PROVE  TotalsInv'
<1>1. PICK sizes \in [Sized -> 0 .. MaxSize] : SizedAs(sizes)
  BY DEF WalkInv, TotalsInv
<1>2. SizedAs(sizes)'
  BY <1>1, SameShown DEF SizedAs, OfExtension, WORKSPACE!Size,
     WORKSPACE!Extensions, WORKSPACE!Paths
<1> QED BY <1>1, <1>2 DEF TotalsInv
-----------------------------------------------------------------------------
\* The scan is full, and the file that it met is left out.
LEMMA ScanStops ==
  ASSUME WalkInv, OnlyLooks, wPc = "scan", wPc' = "done", wAt.step = "kind",
         ~WORKSPACE!Hidden(wAt.rel), NEW kind \in WORKSPACE!Answers(wAt.path),
         kind \in {"file", "file_link"}, WORKSPACE!AtMax,
         wResult' = [wResult EXCEPT !.truncated = TRUE],
         wStack' = wStack, wPending' = wPending, WORKSPACE!Leave
  PROVE  WalkInv'
<1>1. /\ WalkTypes /\ EntryInv /\ WalkFrontier /\ Walks /\ wPending = NoPlace
      /\ wAt.step # "none" /\ ~Sizing
  BY DEF WalkInv, Walks, EntryInv, Sizing
<1>2. /\ wAt.path \in Places /\ wAt.path \in Frontier
      /\ wAt.path \in WORKSPACE!VisibleOf(wEver)
  BY <1>1, VisitedIsVisible
<1>3. EntryInv' /\ ~Sizing' /\ wPending' \in Places \cup {NoPlace}
  <2>1. wPending' \in {wAt.path, NoPlace} /\ wPending' # wAt.path
    BY <1>1, <1>2, TreePlaces
  <2> QED BY <1>1, <2>1, LeaveKeeps
<1>4. /\ wResult \in Results /\ wResult.truncated = FALSE /\ Scanned
      /\ wRequest.limit \in 1 .. LargestLimit /\ wRequest.tool = "scan"
  BY <1>1, WalkingResult
<1>5. /\ wResult' \in Results
      /\ wResult'.found = wResult.found /\ wResult'.files = wResult.files
      /\ wResult'.truncated = TRUE /\ wResult'.bytes = wResult.bytes
      /\ wResult'.extensions = wResult.extensions
  BY <1>4 DEF Results
<1>6. WalkTypes'
  <2>1. wStack' \in Seq(SUBSET Places)
    BY <1>1, FrontierPlaces
  <2> QED BY <1>1, <1>3, <1>5, <2>1, TypesStay
<1>7. ~Walks' /\ ~Searched'
  BY <1>4 DEF Walks, Searched, OnlyLooks
<1>8. WalkFrontier' /\ WalkCovers' /\ SearchInv'
  BY <1>7 DEF WalkFrontier, WalkCovers, SearchInv
<1>9. ScanInv'
  <2>1. /\ wResult.found \subseteq WORKSPACE!VisibleOf(wEver)
        /\ wResult.files = Cardinality(wResult.found) /\ wResult.files <= wRequest.limit
        /\ \A f \in Frontier : \A q \in wResult.found : ~Leq(f, q)
    BY <1>4 DEF WalkInv, ScanInv
  <2>2. wResult.files = wRequest.limit
    <3>1. wResult.files \in Nat /\ wRequest.limit \in Nat
      BY <1>4 DEF Results
    <3>2. wResult.files >= wRequest.limit
      BY DEF WORKSPACE!AtMax
    <3> QED BY <2>1, <3>1, <3>2
  <2>3. wAt.path \notin wResult.found
    BY <1>2, <2>1, PlacesOrder
  <2>4. WORKSPACE!VisibleOf(wEver)' = WORKSPACE!VisibleOf(wEver)
    BY SameShown
  <2>5. ~WORKSPACE!Complete'
    BY <1>5 DEF WORKSPACE!Complete
  <2> QED BY <1>2, <1>3, <1>5, <2>1, <2>2, <2>3, <2>4, <2>5 DEF ScanInv, OnlyLooks
<1>10. TotalsInv'
  <2>1. Sized' = Sized
    BY <1>1, <1>3, <1>5 DEF Sized
  <2> QED BY <1>4, <1>5, <2>1, TotalsStay
<1> QED BY <1>3, <1>6, <1>8, <1>9, <1>10 DEF WalkInv

\* The scan meets a file that it has not met before; its size is asked next.
LEMMA ScanMeets ==
  ASSUME WalkInv, OnlyLooks, wPc = "scan", wPc' = wPc, wAt.step = "kind",
         ~WORKSPACE!Hidden(wAt.rel), NEW kind \in WORKSPACE!Answers(wAt.path),
         kind \in {"file", "file_link"}, ~WORKSPACE!AtMax,
         wResult' = [wResult EXCEPT !.files = @ + 1, !.found = @ \cup {wAt.path}],
         wStack' = wStack, wPending' = wPending, WORKSPACE!Ask("size")
  PROVE  WalkInv'
<1>1. /\ WalkTypes /\ EntryInv /\ WalkFrontier /\ Walks /\ wPending = NoPlace
      /\ wAt.step # "none" /\ ~Sizing
  BY DEF WalkInv, Walks, EntryInv, Sizing
<1> DEFINE p == wAt.path
<1>2. /\ p \in Places /\ p \in Frontier /\ p \in WORKSPACE!VisibleOf(wEver)
      /\ wAt.rel \in WORKSPACE!ShownAs(p)
  BY <1>1, VisitedIsVisible
<1>3. /\ WalkFrontier' /\ wAt' \in Entries /\ Sizing'
      /\ wAt'.path = p /\ wAt'.step = "size" /\ wAt'.rel = wAt.rel
      /\ Frontier' = Frontier \ {p}
  <2>1. "size" \in {"size", "open", "read"}
    OBVIOUS
  <2> QED BY <1>1, <2>1, AskKeeps
<1>4. /\ wResult \in Results /\ wResult.truncated = FALSE /\ wResult.thrown = FALSE
      /\ Scanned /\ wRequest.limit \in 1 .. LargestLimit /\ wRequest.tool = "scan"
  BY <1>1, WalkingResult
<1>5. /\ wResult' \in Results
      /\ wResult'.found = wResult.found \cup {p} /\ wResult'.files = wResult.files + 1
      /\ wResult'.truncated = FALSE /\ wResult'.thrown = FALSE
      /\ wResult'.bytes = wResult.bytes /\ wResult'.extensions = wResult.extensions
      /\ wResult'.warned = wResult.warned
  <2>1. wResult.files + 1 \in Nat /\ wResult.found \cup {p} \in SUBSET Places
    BY <1>2, <1>4 DEF Results
  <2> QED BY <1>4, <2>1 DEF Results
<1>6. WalkTypes'
  <2>1. wStack' \in Seq(SUBSET Places) /\ wPending' \in Places \cup {NoPlace}
    BY <1>1, FrontierPlaces
  <2> QED BY <1>1, <1>5, <2>1, TypesStay
<1>7. EntryInv'
  <2>1. "size" \in {"size", "open", "read"}
    OBVIOUS
  <2> QED BY <1>1, <1>2, <2>1, AskedEntry
<1>8. /\ wResult.found \subseteq WORKSPACE!VisibleOf(wEver)
      /\ wResult.files = Cardinality(wResult.found) /\ wResult.files <= wRequest.limit
      /\ \A f \in Frontier : \A q \in wResult.found : ~Leq(f, q)
  BY <1>4 DEF WalkInv, ScanInv
<1>9. p \notin wResult.found
  BY <1>2, <1>8, PlacesOrder
<1> HIDE DEF p
<1>10. ScanInv'
  <2>1. wResult'.found \subseteq WORKSPACE!VisibleOf(wEver)'
    BY <1>2, <1>5, <1>8, SameShown
  <2>2. wResult'.files = Cardinality(wResult'.found) /\ wResult'.files <= wRequest.limit
    <3>1. wResult.files \in Nat /\ wRequest.limit \in Nat /\ IsFiniteSet(wResult.found)
      BY <1>4, TreePlaces, FS_Subset DEF Results
    <3>2. ~(wResult.files >= wRequest.limit)
      BY DEF WORKSPACE!AtMax
    <3>3. Cardinality(wResult.found \cup {p}) = Cardinality(wResult.found) + 1
      BY <1>9, <3>1, FS_AddElement
    <3> QED BY <1>5, <1>8, <3>1, <3>2, <3>3
  <2>3. ASSUME NEW f \in Frontier', NEW q \in wResult'.found PROVE ~Leq(f, q)
    <3>1. f \in Frontier /\ f # p
      BY <1>3, <2>3
    <3>2. \A g \in Frontier : Leq(f, g) => f = g
      BY <1>1, <3>1 DEF WalkFrontier
    <3> QED BY <1>2, <1>5, <1>8, <2>3, <3>1, <3>2
  <2>4. (\A f \in Frontier : \A q \in wResult.found : ~Leq(f, q))'
    BY <2>3 DEF Leq, WORKSPACE!IsPrefix
  <2>5. wPc' # "done" /\ wAt'.path \in wResult'.found
    BY <1>3, <1>5
  <2> QED BY <1>5, <2>1, <2>2, <2>4, <2>5 DEF ScanInv, OnlyLooks
<1>11. TotalsInv'
  <2>1. Sized' = Sized
    BY <1>1, <1>3, <1>5, <1>9 DEF Sized
  <2> QED BY <1>4, <1>5, <2>1, TotalsStay
<1>12. SearchInv'
  BY <1>4 DEF SearchInv, Searched, OnlyLooks
<1>13. WalkCovers'
  <2>1. \A q : /\ Handled(q)' <=> q \in wResult'.found
               /\ Handled(q) <=> q \in wResult.found
    BY <1>4 DEF Handled, OnlyLooks
  <2>2. ASSUME NEW q \in WORKSPACE!WantedOf(wSince), NEW f \in Frontier, Leq(f, q)
        PROVE  Handled(q)' \/ f \in Frontier'
    <3>1. CASE f # p
      BY <1>3, <2>2, <3>1
    <3>2. CASE f = p
      <4>1. p # q => Tree[p].kind = "directory"
        BY <1>1, <2>2, <3>2, OnTheWay DEF p
      <4>2. Tree[p].kind \in {"file", "file_link"}
        BY <1>2, VisibleMeans
      <4> QED BY <1>5, <2>1, <4>1, <4>2
    <3> QED BY <3>1, <3>2
  <2> QED BY <1>1, <1>5, <2>1, <2>2, CoversStay
<1> QED BY <1>3, <1>6, <1>7, <1>10, <1>11, <1>12, <1>13 DEF WalkInv


\* The size of the file is added: its own, if it did not change.
LEMMA ScanSizeKeeps ==
  ASSUME WalkInv, WORKSPACE!ScanSize
  PROVE  WalkInv'
<1> DEFINE p == wAt.path
<1>1. /\ OnlyLooks /\ wPc = "scan" /\ wPc' = wPc /\ wAt.step = "size"
      /\ wStack' = wStack /\ wPending' = wPending /\ WORKSPACE!Leave
      /\ WalkTypes /\ EntryInv /\ WalkFrontier /\ Walks
  BY DEF WORKSPACE!ScanSize, WORKSPACE!Asked, WORKSPACE!tree, OnlyLooks, WalkInv, Walks
<1>2. PICK size \in WORKSPACE!Sizes(p) : wResult' = WORKSPACE!Counted(p, size)
  BY DEF WORKSPACE!ScanSize
<1>3. p \in Places /\ wPending = NoPlace /\ wAt.step # "none" /\ Sizing
  BY <1>1 DEF EntryInv, Sizing
<1>4. /\ EntryInv' /\ WalkFrontier' /\ ~Sizing' /\ Frontier' = Frontier
      /\ wPending' \in Places \cup {NoPlace}
  <2>1. wPending' \in {p, NoPlace} /\ wPending' # p
    BY <1>1, <1>3, TreePlaces
  <2> QED BY <1>1, <1>3, <2>1, LeaveKeeps
<1> DEFINE known == IF size = -1 THEN 0 ELSE size
           ext == Tree[p].extension
           exts == WORKSPACE!Extensions
           of(e, paths) == OfExtension(e, paths)
\* What the size may be.
<1>5. size \in {-1} \cup (0 .. MaxSize) /\ known \in 0 .. MaxSize
  <2>1. Rel[p] \in Places /\ MaxSize \in Nat
    BY <1>3, LinkPlaces, TreePlaces
  <2>2. Tree[Rel[p]].size \in 0 .. MaxSize
    BY <2>1, TreePlaces
  <2>3. size \in {-1} \cup (0 .. MaxSize)
    BY <2>2 DEF WORKSPACE!Sizes
  <2> QED BY <2>1, <2>3
<1>6. WORKSPACE!Kept(p) => known = Tree[Rel[p]].size
  <2>1. ASSUME WORKSPACE!Kept(p) PROVE known = Tree[Rel[p]].size
    <3>1. WORKSPACE!There(p) /\ Rel[p] \in wSince
      BY <1>1, <2>1 DEF WORKSPACE!Kept, WORKSPACE!There, WalkTypes
    <3>2. size = Tree[Rel[p]].size
      BY <3>1 DEF WORKSPACE!Sizes
    <3>3. Tree[Rel[p]].size \in 0 .. MaxSize /\ MaxSize \in Nat
      BY <1>3, LinkPlaces, TreePlaces
    <3> QED BY <3>2, <3>3
  <2> QED BY <2>1
<1>7. /\ wResult \in Results /\ wResult.truncated = FALSE /\ wResult.thrown = FALSE
      /\ Scanned /\ wRequest.tool = "scan"
  BY <1>1, WalkingResult
<1>8. /\ wResult' \in Results
      /\ wResult'.found = wResult.found /\ wResult'.files = wResult.files
      /\ wResult'.bytes = wResult.bytes + known
      /\ wResult'.truncated = FALSE /\ wResult'.warned = wResult.warned
      /\ wResult'.thrown = FALSE
      /\ ext \in exts
      /\ \A e \in exts :
           wResult'.extensions[e] = IF e = ext THEN <<wResult.extensions[e][1] + 1,
                                                      wResult.extensions[e][2] + known>>
                                    ELSE wResult.extensions[e]
  BY <1>2, <1>3, <1>5, <1>7, CountedIsTyped
<1> HIDE DEF known, ext
<1>9. WalkTypes'
  <2>1. wStack' \in Seq(SUBSET Places)
    BY <1>1, FrontierPlaces
  <2> QED BY <1>1, <1>4, <1>8, <2>1, TypesStay
<1>10. ScanInv' /\ SearchInv'
  <2>1. /\ wResult.found \subseteq WORKSPACE!VisibleOf(wEver)
        /\ wResult.files = Cardinality(wResult.found) /\ wResult.files <= wRequest.limit
        /\ \A f \in Frontier : \A q \in wResult.found : ~Leq(f, q)
    BY <1>1, <1>7 DEF WalkInv, ScanInv
  <2>2. (\A f \in Frontier : \A q \in wResult.found : ~Leq(f, q))'
    BY <1>4, <1>8, <2>1 DEF Leq, WORKSPACE!IsPrefix
  <2>3. WORKSPACE!VisibleOf(wEver)' = WORKSPACE!VisibleOf(wEver)
    BY <1>1, SameShown
  <2>4. wPc' # "done" /\ wRequest' = wRequest
    BY <1>1 DEF OnlyLooks
  <2> QED BY <1>4, <1>7, <1>8, <2>1, <2>2, <2>3, <2>4 DEF ScanInv, SearchInv, Searched
<1>11. WalkCovers'
  <2>1. \A q : Handled(q)' <=> Handled(q)
    BY <1>1, <1>7, <1>8 DEF Handled, OnlyLooks
  <2> QED BY <1>1, <1>4, <1>8, <2>1, CoversStay
<1>12. TotalsInv'
  <2>1. PICK sizes \in [Sized -> 0 .. MaxSize] : SizedAs(sizes)
    BY <1>7 DEF WalkInv, TotalsInv
  <2>2. /\ p \in wResult.found /\ Sized = wResult.found \ {p} /\ Sized' = wResult.found
        /\ wResult.found \subseteq Places
    BY <1>3, <1>4, <1>7, <1>8 DEF WalkInv, ScanInv, Sized, Results
  <2>3. /\ Sized \in SUBSET Places /\ p \in Places \ Sized /\ Sized' = Sized \cup {p}
        /\ IsFiniteSet(Sized)
    BY <1>3, <2>2, TreePlaces, FS_Subset
  <2>4. PICK more \in [Sized \cup {p} -> 0 .. MaxSize] :
          /\ more[p] = known
          /\ \A q \in Sized : more[q] = sizes[q] /\ sizes[q] \in Nat
    <3> DEFINE new == [q \in Sized \cup {p} |-> IF q = p THEN known ELSE sizes[q]]
    <3>1. \A q \in Sized : sizes[q] \in 0 .. MaxSize
      BY <2>1
    <3>2. MaxSize \in Nat
      BY TreePlaces
    <3>3. /\ new \in [Sized \cup {p} -> 0 .. MaxSize] /\ new[p] = known
          /\ \A q \in Sized : new[q] = sizes[q] /\ sizes[q] \in Nat
      BY <1>5, <2>3, <3>1, <3>2
    <3> QED BY <3>3
  <2>5. \A q \in Sized' : WORKSPACE!Kept(q) => more[q] = Tree[Rel[q]].size
    BY <1>6, <2>1, <2>3, <2>4 DEF SizedAs
  <2>6. \A B \in SUBSET Sized :
          /\ WORKSPACE!Size(B, sizes) \in Nat
          /\ WORKSPACE!Size(B \cup {p}, more) = WORKSPACE!Size(B, sizes) + known
    <3>1. SUFFICES ASSUME NEW B \in SUBSET Sized
                   PROVE  /\ WORKSPACE!Size(B, sizes) \in Nat
                          /\ WORKSPACE!Size(B \cup {p}, more) = WORKSPACE!Size(B, sizes) + known
      OBVIOUS
    <3>2. B \in SUBSET Places /\ p \in Places \ B
      BY <2>3
    <3>3. \A a \in B : sizes[a] \in Nat /\ more[a] = sizes[a]
      BY <2>4
    <3>4. more[p] \in Nat /\ more[p] = known
      BY <1>5, <2>4
    <3>5. /\ WORKSPACE!Size(B, sizes) \in Nat
          /\ WORKSPACE!Size(B \cup {p}, more) = WORKSPACE!Size(B, sizes) + more[p]
      <4> HIDE DEF p, known
      <4>1. /\ B \in SUBSET Places /\ p \in Places \ B /\ more[p] \in Nat
            /\ \A a \in B : sizes[a] \in Nat /\ more[a] = sizes[a]
        BY <3>2, <3>3, <3>4
      <4>2. WORKSPACE!Size(B, sizes) \in Nat
        BY <4>1, SizeGrows
      <4>3. WORKSPACE!Size(B \cup {p}, more) = WORKSPACE!Size(B, sizes) + more[p]
        BY <4>1, SizeGrows
      <4> QED BY <4>2, <4>3
    <3> QED BY <3>4, <3>5
  <2>7. wResult'.bytes = WORKSPACE!Size(Sized \cup {p}, more)
    <3>1. wResult.bytes = WORKSPACE!Size(Sized, sizes)
      BY <2>1 DEF SizedAs
    <3> QED BY <1>8, <2>6, <3>1
  <2>8. ASSUME NEW e \in exts
        PROVE  wResult'.extensions[e] =
                 <<Cardinality(of(e, Sized \cup {p})), WORKSPACE!Size(of(e, Sized \cup {p}), more)>>
    <3>1. wResult.extensions[e] =
            <<Cardinality(of(e, Sized)), WORKSPACE!Size(of(e, Sized), sizes)>>
      BY <2>1, <2>8 DEF SizedAs
    <3>2. CASE e # ext
      <4>1. of(e, Sized \cup {p}) = of(e, Sized) /\ of(e, Sized) \subseteq Sized
        BY <3>2 DEF OfExtension, ext
      <4>2. WORKSPACE!Size(of(e, Sized), more) = WORKSPACE!Size(of(e, Sized), sizes)
        <5> HIDE DEF of
        <5>1. \A a \in of(e, Sized) : more[a] = sizes[a]
          BY <2>4, <4>1
        <5> QED BY <5>1, SameSize
      <4> QED BY <1>8, <2>8, <3>1, <3>2, <4>1, <4>2
    <3>3. CASE e = ext
      <4> DEFINE some == of(e, Sized)
                 a == Cardinality(some)
                 b == WORKSPACE!Size(some, sizes)
      <4>1. /\ of(e, Sized \cup {p}) = some \cup {p} /\ some \in SUBSET Sized
            /\ p \notin some
        BY <2>3, <3>3 DEF OfExtension, ext
      <4>2. Cardinality(some \cup {p}) = a + 1
        <5>1. IsFiniteSet(some)
          BY <2>3, <4>1, FS_Subset
        <5> HIDE DEF some
        <5> QED BY <4>1, <5>1, FS_AddElement
      <4>3. WORKSPACE!Size(some \cup {p}, more) = b + known
        BY <2>6, <4>1
      <4>4. wResult.extensions[e] = <<a, b>>
        BY <3>1
      <4>5. wResult'.extensions[e] = <<wResult.extensions[e][1] + 1,
                                       wResult.extensions[e][2] + known>>
        BY <1>8, <2>8, <3>3
      <4> HIDE DEF a, b, some, of
      <4>6. wResult'.extensions[e] = <<a + 1, b + known>>
        BY <4>4, <4>5
      <4> QED BY <4>1, <4>2, <4>3, <4>6
    <3> QED BY <3>2, <3>3
  <2>9. SizedAs(more)'
    <3>1. /\ \A q \in Sized' : WORKSPACE!Kept(q) => more[q] = Tree[Rel[q]].size
          /\ wResult'.bytes = WORKSPACE!Size(Sized', more)
          /\ \A e \in exts : wResult'.extensions[e] =
               <<Cardinality(of(e, Sized')), WORKSPACE!Size(of(e, Sized'), more)>>
      BY <2>3, <2>5, <2>7, <2>8
    <3>2. \A q : WORKSPACE!Kept(q)' <=> WORKSPACE!Kept(q)
      BY <1>1, SameShown
    <3> QED BY <3>1, <3>2 DEF SizedAs, OfExtension, WORKSPACE!Size,
               WORKSPACE!Extensions, WORKSPACE!Paths
  <2>10. more \in [Sized' -> 0 .. MaxSize]
    BY <2>3, <2>4
  <2> QED BY <2>9, <2>10 DEF TotalsInv
<1> QED BY <1>4, <1>9, <1>10, <1>11, <1>12 DEF WalkInv

\* What the entry is, in a scan.
LEMMA ScanKindKeeps ==
  ASSUME WalkInv, WORKSPACE!ScanKind
  PROVE  WalkInv'
<1>1. /\ OnlyLooks /\ wPc = "scan" /\ wAt.step = "kind" /\ ~WORKSPACE!Hidden(wAt.rel)
      /\ wStack' = wStack
  BY DEF WORKSPACE!ScanKind, WORKSPACE!Asked, WORKSPACE!tree, OnlyLooks
<1>2. PICK kind \in WORKSPACE!Answers(wAt.path) :
       \/ /\ kind \in {"directory", "directory_link"}
          /\ wResult' = [wResult EXCEPT !.directories = @ + 1]
          /\ wPending' \in WORKSPACE!Pendings(wAt.path, kind)
          /\ WORKSPACE!Leave /\ UNCHANGED wPc
       \/ /\ kind \in {"file", "file_link"} /\ WORKSPACE!AtMax
          /\ wResult' = [wResult EXCEPT !.truncated = TRUE]
          /\ wPc' = "done" /\ WORKSPACE!Leave /\ UNCHANGED wPending
       \/ /\ kind \in {"file", "file_link"} /\ ~WORKSPACE!AtMax
          /\ wResult' = [wResult EXCEPT !.files = @ + 1, !.found = @ \cup {wAt.path}]
          /\ WORKSPACE!Ask("size") /\ UNCHANGED <<wPc, wPending>>
       \/ /\ kind = "gone"
          /\ wPending' \in WORKSPACE!Pendings(wAt.path, kind)
          /\ WORKSPACE!Leave /\ UNCHANGED <<wPc, wResult>>
  BY DEF WORKSPACE!ScanKind
<1>3. CASE /\ kind \in {"directory", "directory_link"}
           /\ wResult' = [wResult EXCEPT !.directories = @ + 1]
           /\ wPending' \in WORKSPACE!Pendings(wAt.path, kind)
           /\ WORKSPACE!Leave /\ UNCHANGED wPc
  <2>1. kind \notin {"file", "file_link"} /\ wPc' = wPc
    BY <1>3
  <2> QED BY <1>1, <1>3, <2>1, PassKeeps
<1>4. CASE /\ kind \in {"file", "file_link"} /\ WORKSPACE!AtMax
           /\ wResult' = [wResult EXCEPT !.truncated = TRUE]
           /\ wPc' = "done" /\ WORKSPACE!Leave /\ UNCHANGED wPending
  <2>1. wPending' = wPending
    BY <1>4
  <2> QED BY <1>1, <1>4, <2>1, ScanStops
<1>5. CASE /\ kind \in {"file", "file_link"} /\ ~WORKSPACE!AtMax
           /\ wResult' = [wResult EXCEPT !.files = @ + 1, !.found = @ \cup {wAt.path}]
           /\ WORKSPACE!Ask("size") /\ UNCHANGED <<wPc, wPending>>
  <2>1. wPending' = wPending /\ wPc' = wPc
    BY <1>5
  <2> QED BY <1>1, <1>5, <2>1, ScanMeets
<1>6. CASE /\ kind = "gone"
           /\ wPending' \in WORKSPACE!Pendings(wAt.path, kind)
           /\ WORKSPACE!Leave /\ UNCHANGED <<wPc, wResult>>
  <2>1. kind \notin {"file", "file_link"} /\ wPc' = wPc /\ wResult' = wResult
    BY <1>6
  <2> QED BY <1>1, <1>6, <2>1, PassKeeps
<1> QED BY <1>2, <1>3, <1>4, <1>5, <1>6

\* At the end of the walk nothing is left to be visited.
LEMMA NothingIsLeft ==
  ASSUME WalkInv, Walks, wStack = <<>>
  PROVE  /\ wAt = WORKSPACE!NoEntry /\ ~Sizing
         /\ ~wResult.warned /\ wRequest.root = "open" =>
              \A q \in WORKSPACE!WantedOf(wSince) : Handled(q)
<1>1. wPending = NoPlace /\ wAt = WORKSPACE!NoEntry /\ wAt.step = "none"
  BY DEF WalkInv, WalkFrontier, EntryInv
<1>2. wAt.path = NoPlace /\ ~Sizing
  BY <1>1 DEF WORKSPACE!NoEntry, NoPlace, Sizing
<1>3. Len(<<>>) = 0
  OBVIOUS
<1>4. Frontier = {}
  BY <1>1, <1>2, <1>3 DEF Frontier, Union
<1> QED BY <1>1, <1>2, <1>4 DEF WalkInv, WalkCovers, Ahead

\* A scan that visited everything has what was there all the time.
LEMMA ScanEndKeeps ==
  ASSUME WalkInv, WORKSPACE!ScanEnd
  PROVE  WalkInv'
<1>1. /\ OnlyLooks /\ wPc = "scan" /\ wPc' = "done" /\ wStack = <<>> /\ Walks
      /\ wStack' = wStack /\ wPending' = wPending /\ wAt' = wAt
      /\ WalkTypes /\ EntryInv
  BY DEF WORKSPACE!ScanEnd, WORKSPACE!tree, OnlyLooks, WalkInv, Walks
<1>2. PICK listed \in SUBSET WORKSPACE!Extensions :
          wResult' = [wResult EXCEPT !.listed = listed]
  BY DEF WORKSPACE!ScanEnd
<1>3. /\ wResult \in Results /\ wResult.truncated = FALSE /\ wResult.thrown = FALSE
      /\ Scanned /\ wRequest.tool = "scan"
  BY <1>1, WalkingResult
<1>4. /\ wResult' \in Results
      /\ wResult'.found = wResult.found /\ wResult'.files = wResult.files
      /\ wResult'.truncated = wResult.truncated /\ wResult'.bytes = wResult.bytes
      /\ wResult'.extensions = wResult.extensions /\ wResult'.warned = wResult.warned
  BY <1>2, <1>3 DEF Results
<1>5. WalkTypes'
  <2>1. wStack' \in Seq(SUBSET Places) /\ wPending' \in Places \cup {NoPlace}
    BY <1>1 DEF WalkTypes
  <2> QED BY <1>1, <1>4, <2>1, TypesStay
<1>6. /\ wAt = WORKSPACE!NoEntry /\ ~Sizing
      /\ ~wResult.warned /\ wRequest.root = "open" =>
           \A q \in WORKSPACE!WantedOf(wSince) : Handled(q)
  BY <1>1, NothingIsLeft
<1>7. EntryInv' /\ ~Sizing'
  BY <1>1, <1>6, Fixed DEF EntryInv, Sizing, WORKSPACE!NoEntry
<1>8. ~Searched' /\ ~Walks'
  BY <1>1, <1>3 DEF Searched, Walks, OnlyLooks
<1>9. WalkFrontier' /\ WalkCovers' /\ SearchInv'
  BY <1>8 DEF WalkFrontier, WalkCovers, SearchInv
<1>10. ScanInv'
  <2>1. /\ wResult.found \subseteq WORKSPACE!VisibleOf(wEver)
        /\ wResult.files = Cardinality(wResult.found) /\ wResult.files <= wRequest.limit
    BY <1>3 DEF WalkInv, ScanInv
  <2>2. ~wResult.warned /\ wRequest.root = "open" =>
          WORKSPACE!WantedOf(wSince) \subseteq wResult.found
    BY <1>3, <1>6 DEF Handled
  <2>3. /\ WORKSPACE!VisibleOf(wEver)' = WORKSPACE!VisibleOf(wEver)
        /\ WORKSPACE!WantedOf(wSince)' = WORKSPACE!WantedOf(wSince)
    BY <1>1, SameShown
  <2>4. WORKSPACE!Complete' => ~wResult.warned /\ wRequest.root = "open"
    BY <1>1, <1>4 DEF WORKSPACE!Complete, OnlyLooks
  <2>5. wPc' # "scan" /\ wRequest' = wRequest
    BY <1>1 DEF OnlyLooks
  <2> QED BY <1>3, <1>4, <1>7, <2>1, <2>2, <2>3, <2>4, <2>5 DEF ScanInv
<1>11. TotalsInv'
  <2>1. Sized' = Sized
    BY <1>4, <1>6, <1>7 DEF Sized
  <2> QED BY <1>1, <1>3, <1>4, <2>1, TotalsStay
<1> QED BY <1>5, <1>7, <1>9, <1>10, <1>11 DEF WalkInv

-----------------------------------------------------------------------------
\* What the entry is, in a search.
LEMMA SearchKindKeeps ==
  ASSUME WalkInv, WORKSPACE!SearchKind
  PROVE  WalkInv'
<1>1. /\ OnlyLooks /\ wPc = "search" /\ wPc' = wPc /\ wAt.step = "kind"
      /\ wAt.step # "none" /\ ~WORKSPACE!Hidden(wAt.rel)
      /\ wStack' = wStack /\ wResult' = wResult
      /\ WalkTypes /\ EntryInv /\ WalkFrontier /\ Walks /\ ~Sizing
  BY DEF WORKSPACE!SearchKind, WORKSPACE!Asked, WORKSPACE!tree, OnlyLooks, WalkInv,
     Walks, Sizing
<1>2. PICK kind \in WORKSPACE!Answers(wAt.path) :
       \/ /\ kind \in {"file", "file_link"} /\ WORKSPACE!Ask("size")
          /\ UNCHANGED wPending
       \/ /\ kind \notin {"file", "file_link"}
          /\ wPending' \in WORKSPACE!Pendings(wAt.path, kind) /\ WORKSPACE!Leave
  BY DEF WORKSPACE!SearchKind
<1>3. CASE /\ kind \in {"file", "file_link"} /\ WORKSPACE!Ask("size")
           /\ UNCHANGED wPending
  <2>1. /\ wAt.path \in WORKSPACE!VisibleOf(wEver)
        /\ wAt.rel \in WORKSPACE!ShownAs(wAt.path)
    BY <1>1, <1>3, VisitedIsVisible
  <2>2. "size" \in {"size", "open", "read"} /\ wPending' = wPending
    BY <1>3
  <2>3. EntryInv'
    BY <1>1, <1>3, <2>1, <2>2, AskedEntry
  <2>4. WalkFrontier' /\ ~Sizing' /\ Frontier' = Frontier
    BY <1>1, <1>3, <2>2, AskKeeps
  <2>5. /\ Frontier \subseteq Places /\ wStack' \in Seq(SUBSET Places)
        /\ wPending' \in Places \cup {NoPlace} /\ wResult' \in Results
    BY <1>1, <2>2, FrontierPlaces, WalkingResult DEF WalkTypes
  <2>6. \A f \in Frontier' : \E g \in Frontier : Leq(g, f)
    BY <2>4, <2>5, PlacesOrder
  <2> QED BY <1>1, <2>3, <2>4, <2>5, <2>6, QuietStep
<1>4. CASE /\ kind \notin {"file", "file_link"}
           /\ wPending' \in WORKSPACE!Pendings(wAt.path, kind) /\ WORKSPACE!Leave
  BY <1>1, <1>4, PassKeeps
<1> QED BY <1>2, <1>3, <1>4

\* The matches of some paths are those of each of them.
LEMMA MatchesAreOfPaths ==
  /\ \A S : \A x : x \in WORKSPACE!MatchesOf(S) <=>
       \E p \in S : x \in WORKSPACE!MatchesOf({p})
  /\ \A S, T : S \subseteq T => WORKSPACE!MatchesOf(S) \subseteq WORKSPACE!MatchesOf(T)
  /\ \A p : WORKSPACE!MatchesOf({p})
              = [path : WORKSPACE!ShownAs(p), line : WORKSPACE!LinesOf(p)]
<1> DEFINE of(p) == [path : WORKSPACE!ShownAs(p), line : WORKSPACE!LinesOf(p)]
<1>1. \A S : WORKSPACE!MatchesOf(S) = UNION {of(p) : p \in S}
  BY DEF WORKSPACE!MatchesOf
<1> HIDE DEF of
<1>2. \A S : \A x : x \in WORKSPACE!MatchesOf(S) <=> \E p \in S : x \in of(p)
  BY <1>1
<1>3. \A p : WORKSPACE!MatchesOf({p}) = of(p)
  BY <1>1
<1>4. \A S : \A x : x \in WORKSPACE!MatchesOf(S) <=>
        \E p \in S : x \in WORKSPACE!MatchesOf({p})
  <2>1. \A p : \A x : x \in WORKSPACE!MatchesOf({p}) <=> x \in of(p)
    BY <1>2
  <2> QED BY <1>2, <2>1
<1>5. \A S, T : S \subseteq T => WORKSPACE!MatchesOf(S) \subseteq WORKSPACE!MatchesOf(T)
  BY <1>2
<1> QED BY <1>3, <1>4, <1>5 DEF of

\* A file in which nothing is searched is left: it has no matches to report.
LEMMA SearchLeaves ==
  ASSUME WalkInv, OnlyLooks, wPc = "search", wPc' = wPc, WORKSPACE!Leave,
         wAt.step \in {"size", "open"}, wStack' = wStack, wPending' = wPending,
         wResult' = wResult,
         WORKSPACE!There(wAt.path) /\ Rel[wAt.path] \in wSince =>
           ~(Tree[Rel[wAt.path]].size <= MaxFileBytes /\ Tree[Rel[wAt.path]].readable)
  PROVE  WalkInv'
<1>1. /\ WalkTypes /\ EntryInv /\ WalkFrontier /\ Walks /\ wAt.step # "none"
      /\ ~Sizing
  BY DEF WalkInv, Walks, Sizing
<1>2. /\ wAt.path \in Places /\ wPending = NoPlace
      /\ wAt.path \in WORKSPACE!VisibleOf(wEver)
  BY <1>1 DEF EntryInv
<1>3. wPending' \in {wAt.path, NoPlace} /\ wPending' # wAt.path
  BY <1>2, TreePlaces
<1>4. /\ WalkFrontier' /\ EntryInv' /\ ~Sizing'
      /\ wPending' \in Places \cup {NoPlace} /\ Frontier' = Frontier \ {wAt.path}
  BY <1>1, <1>3, LeaveKeeps
<1>5. /\ Frontier \subseteq Places /\ wStack' \in Seq(SUBSET Places)
      /\ wResult' \in Results /\ wRequest.tool = "search"
  BY <1>1, FrontierPlaces, WalkingResult
<1>6. \A f \in Frontier' : \E g \in Frontier : Leq(g, f)
  BY <1>4, <1>5, PlacesOrder
<1>7. ASSUME NEW q \in WORKSPACE!WantedOf(wSince), NEW f \in Frontier, Leq(f, q)
      PROVE  Handled(q) \/ f \in Frontier'
  <2>1. CASE f # wAt.path
    BY <1>4, <1>7, <2>1
  <2>2. CASE f = wAt.path
    <3>1. /\ WORKSPACE!There(wAt.path) /\ Rel[q] \in wSince
          /\ wAt.path # q => Tree[wAt.path].kind = "directory"
      BY <1>1, <1>7, <2>2, OnTheWay
    <3>2. Tree[wAt.path].kind \in {"file", "file_link"}
      BY <1>2, VisibleMeans
    <3>3. wAt.path = q
      BY <3>1, <3>2
    <3>4. WORKSPACE!LinesOf(q) = {}
      BY <3>1, <3>3 DEF WORKSPACE!LinesOf
    <3>5. WORKSPACE!MatchesOf({q}) = {}
      <4>1. \A S : [path : S, line : {}] = {}
        OBVIOUS
      <4> QED BY <3>4, <4>1, MatchesAreOfPaths
    <3> QED BY <1>5, <3>5 DEF Handled
  <2> QED BY <2>1, <2>2
<1> QED BY <1>1, <1>4, <1>5, <1>6, <1>7, QuietStep

\* A file that is small enough is opened, one that can be opened is read.
LEMMA SearchGoesOn ==
  ASSUME WalkInv, OnlyLooks, wPc = "search", wPc' = wPc,
         NEW step \in {"open", "read"}, WORKSPACE!Ask(step),
         wAt.step \in {"size", "open"}, wStack' = wStack, wPending' = wPending,
         wResult' = wResult,
         Rel[wAt.path] \in wSince => Tree[Rel[wAt.path]].size <= MaxFileBytes,
         step = "read" /\ Rel[wAt.path] \in wSince => Tree[Rel[wAt.path]].readable
  PROVE  WalkInv'
<1>1. /\ WalkTypes /\ EntryInv /\ WalkFrontier /\ Walks /\ wAt.step # "none"
      /\ ~Sizing /\ step \in {"size", "open", "read"}
  BY DEF WalkInv, Walks, Sizing
<1>2. /\ wAt.path \in WORKSPACE!VisibleOf(wEver)
      /\ wAt.rel \in WORKSPACE!ShownAs(wAt.path)
  BY <1>1 DEF EntryInv
<1>3. EntryInv'
  BY <1>1, <1>2, AskedEntry
<1>4. WalkFrontier' /\ ~Sizing' /\ Frontier' = Frontier
  BY <1>1, AskKeeps
<1>5. /\ Frontier \subseteq Places /\ wStack' \in Seq(SUBSET Places)
      /\ wPending' \in Places \cup {NoPlace} /\ wResult' \in Results
  BY <1>1, FrontierPlaces, WalkingResult DEF WalkTypes
<1>6. \A f \in Frontier' : \E g \in Frontier : Leq(g, f)
  BY <1>4, <1>5, PlacesOrder
<1> QED BY <1>1, <1>3, <1>4, <1>5, <1>6, QuietStep

\* The file is measured.
LEMMA SearchSizeKeeps ==
  ASSUME WalkInv, WORKSPACE!SearchSize
  PROVE  WalkInv'
<1>1. /\ OnlyLooks /\ wPc = "search" /\ wPc' = wPc /\ wAt.step = "size"
      /\ wAt.step \in {"size", "open"}
      /\ wStack' = wStack /\ wPending' = wPending /\ wResult' = wResult
  BY DEF WORKSPACE!SearchSize, WORKSPACE!Asked, WORKSPACE!tree, OnlyLooks
<1>2. PICK size \in WORKSPACE!Sizes(wAt.path) :
        IF WORKSPACE!Small(size) THEN WORKSPACE!Ask("open") ELSE WORKSPACE!Leave
  BY DEF WORKSPACE!SearchSize
<1>3. /\ wAt.path \in Places /\ Rel[wAt.path] \in Places
      /\ Tree[Rel[wAt.path]].size \in Nat /\ MaxFileBytes \in Nat
  <2>1. wAt.path \in Places
    BY <1>1 DEF WalkInv, EntryInv
  <2>2. Rel[wAt.path] \in Places
    BY <2>1, LinkPlaces
  <2>3. Tree[Rel[wAt.path]].size \in 0 .. MaxSize /\ MaxSize \in Nat /\ MaxFileBytes \in Nat
    BY <2>2, TreePlaces
  <2> QED BY <2>1, <2>2, <2>3
<1>4. CASE WORKSPACE!Small(size)
  <2>1. Rel[wAt.path] \in wSince => Tree[Rel[wAt.path]].size <= MaxFileBytes
    <3>1. size \in 0 .. MaxFileBytes
      BY <1>4 DEF WORKSPACE!Small
    <3>2. Rel[wAt.path] \in wSince => size = -1 \/ size = Tree[Rel[wAt.path]].size
      BY DEF WORKSPACE!Sizes
    <3> QED BY <1>3, <3>1, <3>2
  <2>2. WORKSPACE!Ask("open") /\ "open" \in {"open", "read"} /\ "open" # "read"
    BY <1>2, <1>4
  <2> QED BY <1>1, <2>1, <2>2, SearchGoesOn
<1>5. CASE ~WORKSPACE!Small(size)
  <2>1. ASSUME WORKSPACE!There(wAt.path), Rel[wAt.path] \in wSince
        PROVE  ~(Tree[Rel[wAt.path]].size <= MaxFileBytes)
    <3>1. size = Tree[Rel[wAt.path]].size
      BY <2>1 DEF WORKSPACE!Sizes
    <3> QED BY <1>3, <1>5, <3>1 DEF WORKSPACE!Small
  <2>2. WORKSPACE!Leave
    BY <1>2, <1>5
  <2> QED BY <1>1, <2>1, <2>2, SearchLeaves
<1> QED BY <1>4, <1>5

\* The file is opened.
LEMMA SearchOpenKeeps ==
  ASSUME WalkInv, WORKSPACE!SearchOpen
  PROVE  WalkInv'
<1>1. /\ OnlyLooks /\ wPc = "search" /\ wPc' = wPc /\ wAt.step = "open"
      /\ wAt.step \in {"size", "open"} /\ wAt.step \in {"open", "read"}
      /\ wStack' = wStack /\ wPending' = wPending /\ wResult' = wResult
  BY DEF WORKSPACE!SearchOpen, WORKSPACE!Asked, WORKSPACE!tree, OnlyLooks
<1>2. PICK opens \in WORKSPACE!Opens(wAt.path) :
        IF opens THEN WORKSPACE!Ask("read") ELSE WORKSPACE!Leave
  BY DEF WORKSPACE!SearchOpen
<1>3. Rel[wAt.path] \in wSince => Tree[Rel[wAt.path]].size <= MaxFileBytes
  <2>1. EntryInv
    BY DEF WalkInv
  <2>2. /\ wAt.path \in WORKSPACE!VisibleOf(wEver)
        /\ Rel[wAt.path] \in wSince => Tree[Rel[wAt.path]].size <= MaxFileBytes
    BY <1>1, <2>1 DEF EntryInv
  <2> QED BY <2>2
<1>4. CASE opens
  <2>1. Rel[wAt.path] \in wSince => Tree[Rel[wAt.path]].readable
    BY <1>2, <1>4 DEF WORKSPACE!Opens
  <2>2. WORKSPACE!Ask("read") /\ "read" \in {"open", "read"}
    BY <1>2, <1>4
  <2> QED BY <1>1, <1>3, <2>1, <2>2, SearchGoesOn
<1>5. CASE ~opens
  <2>1. WORKSPACE!There(wAt.path) /\ Rel[wAt.path] \in wSince =>
          ~Tree[Rel[wAt.path]].readable
    BY <1>2, <1>5 DEF WORKSPACE!Opens
  <2>2. WORKSPACE!Leave
    BY <1>2, <1>5
  <2> QED BY <1>1, <2>1, <2>2, SearchLeaves
<1> QED BY <1>4, <1>5


-----------------------------------------------------------------------------
\* What a file adds to the matches: the lines read from it, cut at the limit.
LEMMA HitsOfAFile ==
  ASSUME WalkTypes, wAt.rel \in Places, Len(wResult.matches) <= wRequest.limit,
         NEW read \in Seq(1 .. MaxSize)
  PROVE  LET room == wRequest.limit - Len(wResult.matches)
             lines == {[path |-> wAt.rel, line |-> read[i]] : i \in DOMAIN read}
             hits == WORKSPACE!Hits(read)
         IN /\ hits \in Seq(Matches) /\ Len(hits) \in Nat /\ Len(hits) <= room
            /\ WORKSPACE!ToSet(hits) \subseteq lines
            /\ Len(hits) < room => lines \subseteq WORKSPACE!ToSet(hits)
<1> DEFINE room == wRequest.limit - Len(wResult.matches)
           line(i) == [path |-> wAt.rel, line |-> read[i]]
           lines == {line(i) : i \in DOMAIN read}
           all == [i \in DOMAIN read |-> line(i)]
           n == Len(read)
           m == IF n < room THEN n ELSE room
           hits == WORKSPACE!Hits(read)
<1>1. /\ n \in Nat /\ DOMAIN read = 1 .. n
      /\ \A i \in 1 .. n : read[i] \in Nat
  <2>1. MaxSize \in Nat
    BY TreePlaces
  <2>2. read \in Seq(Nat)
    BY <2>1
  <2> QED BY <2>2, LenProperties, ElementOfSeq
<1>2. \A i \in 1 .. n : line(i) \in Matches
  BY <1>1 DEF Matches
<1>3. room \in Nat
  <2>1. wRequest.limit \in Nat /\ wResult.matches \in Seq(Matches)
    BY DEF WalkTypes, Results, Tasks
  <2>2. Len(wResult.matches) \in Nat
    BY <2>1, LenProperties
  <2> QED BY <2>1, <2>2
<1>4. /\ all \in Seq(Matches) /\ Len(all) = n /\ \A i \in 1 .. n : all[i] = line(i)
  <2> HIDE DEF line, n
  <2>1. all = [i \in 1 .. n |-> line(i)]
    BY <1>1
  <2> HIDE DEF all
  <2>2. all \in Seq(Matches)
    BY <1>1, <1>2, <2>1
  <2>3. Len(all) = n
    BY <1>1, <2>1
  <2>4. \A i \in 1 .. n : all[i] = line(i)
    BY <2>1
  <2> QED BY <2>2, <2>3, <2>4
<1>5. hits = SubSeq(all, 1, m)
  <2>1. \A a, b \in Int : WORKSPACE!Min({a, b}) = IF a < b THEN a ELSE b
    BY DEF WORKSPACE!Min
  <2>2. n \in Int /\ room \in Int
    BY <1>1, <1>3
  <2>3. WORKSPACE!Min({n, room}) = m
    <3> HIDE DEF n, room
    <3> QED BY <2>1, <2>2
  <2>4. hits = SubSeq(all, 1, WORKSPACE!Min({n, room}))
    BY DEF WORKSPACE!Hits
  <2> QED BY <2>3, <2>4
<1> HIDE DEF n, room
<1>6. m \in Nat /\ m <= n /\ m <= room /\ (m < room => m = n)
  BY <1>1, <1>3
<1> HIDE DEF m, all, hits, line
<1>7. /\ hits \in Seq(Matches) /\ Len(hits) = m
      /\ \A i \in 1 .. m : hits[i] = line(i)
  <2>1. \A i \in 1 .. m : i \in 1 .. n
    BY <1>1, <1>6
  <2>2. \A i \in 1 .. m : all[i] \in Matches
    BY <1>2, <1>4, <2>1
  <2>3. 1 \in Int /\ m \in Int
    BY <1>6
  <2>4. hits \in Seq(Matches)
    BY <1>5, <2>2, <2>3, SubSeqProperties
  <2>5. Len(hits) = IF 1 <= m THEN m - 1 + 1 ELSE 0
    BY <1>5, <2>2, <2>3, SubSeqProperties
  <2>6. \A i \in 1 .. m - 1 + 1 : hits[i] = all[1 + i - 1]
    BY <1>5, <2>2, <2>3, SubSeqProperties
  <2>7. Len(hits) = m
    BY <1>6, <2>5
  <2>8. \A i \in 1 .. m : hits[i] = all[i]
    BY <1>6, <2>6
  <2> QED BY <1>4, <2>1, <2>4, <2>7, <2>8
<1>8. DOMAIN hits = 1 .. m
  BY <1>7, LenProperties
<1>9. WORKSPACE!ToSet(hits) = {line(i) : i \in 1 .. m}
  BY <1>7, <1>8 DEF WORKSPACE!ToSet
<1>10. WORKSPACE!ToSet(hits) \subseteq lines
  <2>1. \A i \in 1 .. m : i \in 1 .. n
    BY <1>1, <1>6
  <2> QED BY <1>1, <1>9, <2>1
<1>11. Len(hits) < room => lines \subseteq WORKSPACE!ToSet(hits)
  <2>1. Len(hits) < room => m = n
    BY <1>6, <1>7
  <2>2. lines = {line(i) : i \in 1 .. n}
    BY <1>1
  <2> QED BY <1>9, <2>1, <2>2
<1>12. Len(hits) \in Nat /\ Len(hits) <= room
  BY <1>6, <1>7
<1> QED BY <1>7, <1>10, <1>11, <1>12 DEF hits, room, line

\* The matches of a file are added to the others.
LEMMA JoinedMatches ==
  ASSUME NEW S, NEW a \in Seq(S), NEW b \in Seq(S)
  PROVE  /\ a \o b \in Seq(S) /\ Len(a \o b) = Len(a) + Len(b)
         /\ WORKSPACE!ToSet(a \o b) = WORKSPACE!ToSet(a) \cup WORKSPACE!ToSet(b)
<1> DEFINE c == a \o b
<1>1. Len(a) \in Nat /\ Len(b) \in Nat
  BY LenProperties
<1>2. c \in Seq(S) /\ Len(c) = Len(a) + Len(b)
  BY ConcatProperties
<1>3. \A i \in 1 .. Len(a) + Len(b) : c[i] = IF i <= Len(a) THEN a[i] ELSE b[i - Len(a)]
  BY ConcatProperties
<1> HIDE DEF c
<1>4. DOMAIN c = 1 .. Len(a) + Len(b) /\ DOMAIN a = 1 .. Len(a) /\ DOMAIN b = 1 .. Len(b)
  BY <1>2, LenProperties
<1> DEFINE m == Len(a) n == Len(b)
<1>5. m \in Nat /\ n \in Nat
  BY <1>1
<1>6. /\ \A i \in 1 .. m + n : c[i] = IF i <= m THEN a[i] ELSE b[i - m]
      /\ DOMAIN c = 1 .. m + n /\ DOMAIN a = 1 .. m /\ DOMAIN b = 1 .. n
  BY <1>3, <1>4
<1> HIDE DEF m, n
<1>7. \A i \in DOMAIN c : \/ i \in DOMAIN a /\ c[i] = a[i]
                          \/ i - m \in DOMAIN b /\ c[i] = b[i - m]
  BY <1>5, <1>6
<1>8. \A i \in DOMAIN a : i \in DOMAIN c /\ c[i] = a[i]
  BY <1>5, <1>6
<1>9. ASSUME NEW i \in DOMAIN b PROVE \E j \in DOMAIN c : c[j] = b[i]
  <2> DEFINE j == i + m
  <2>1. j \in 1 .. m + n /\ ~(j <= m) /\ j - m = i
    BY <1>5, <1>6
  <2> HIDE DEF j
  <2>2. c[j] = b[j - m]
    BY <1>6, <2>1
  <2> QED BY <1>6, <2>1, <2>2
<1>10. WORKSPACE!ToSet(c) = WORKSPACE!ToSet(a) \cup WORKSPACE!ToSet(b)
  BY <1>7, <1>8, <1>9 DEF WORKSPACE!ToSet
<1> QED BY <1>2, <1>10 DEF c

\* The lines that are read are matches of the file, and all of them unless it
\* changed.
LEMMA ReadMatches ==
  ASSUME WalkTypes, EntryInv, wPc = "search", wAt.step = "read",
         NEW read \in WORKSPACE!Contents(wAt.path)
  PROVE  LET all == {[path |-> wAt.rel, line |-> read[i]] : i \in DOMAIN read}
             p == wAt.path
         IN /\ wAt.rel \in Places /\ read \in Seq(1 .. MaxSize)
            /\ all \subseteq WORKSPACE!MatchesOf({p})
            /\ Rel[p] \in wSince /\ wAt.rel = Rel[p]
                 /\ WORKSPACE!ShownAs(p) = {Rel[p]} =>
                 WORKSPACE!MatchesOf({p}) \subseteq all
<1> DEFINE all == {[path |-> wAt.rel, line |-> read[i]] : i \in DOMAIN read}
           p == wAt.path
<1>1. /\ p \in Places /\ wAt.rel \in WORKSPACE!ShownAs(p)
      /\ Rel[p] \in wSince => /\ Tree[Rel[p]].size <= MaxFileBytes
                              /\ Tree[Rel[p]].readable
  BY DEF EntryInv
<1>2. Rel[p] \in Places
  BY <1>1, LinkPlaces
<1>3. wAt.rel \in Places
  BY <1>1, <1>2 DEF WORKSPACE!ShownAs, WORKSPACE!Names
<1>4. /\ Rel[p] \in wSince => read = Tree[Rel[p]].hits
      /\ Rel[p] \notin wSince =>
           read \in UNION {[1 .. n -> 1 .. MaxSize] : n \in 0 .. MaxSize}
  BY DEF WORKSPACE!Contents
<1>5. read \in Seq(1 .. MaxSize)
  <2>1. CASE Rel[p] \in wSince
    BY <1>2, <1>4, <2>1, TreePlaces
  <2>2. CASE Rel[p] \notin wSince
    <3>1. PICK n \in 0 .. MaxSize : read \in [1 .. n -> 1 .. MaxSize]
      BY <1>4, <2>2
    <3>2. n \in Nat
      BY <3>1, TreePlaces
    <3> QED BY <3>1, <3>2, SeqDef
  <2> QED BY <2>1, <2>2
<1>6. \A i \in DOMAIN read : read[i] \in 1 .. MaxSize
  <2>1. DOMAIN read = 1 .. Len(read)
    BY <1>5, LenProperties
  <2> QED BY <1>5, <2>1, ElementOfSeq
<1>7. WORKSPACE!LinesOf(p) = IF Rel[p] \in wSince THEN {read[i] : i \in DOMAIN read}
                             ELSE 1 .. MaxSize
  BY <1>1, <1>4 DEF WORKSPACE!LinesOf, WORKSPACE!ToSet
<1>8. WORKSPACE!MatchesOf({p}) = [path : WORKSPACE!ShownAs(p), line : WORKSPACE!LinesOf(p)]
  BY MatchesAreOfPaths
<1> HIDE DEF p
<1>9. all \subseteq WORKSPACE!MatchesOf({p})
  <2>1. \A i \in DOMAIN read : read[i] \in WORKSPACE!LinesOf(p)
    BY <1>6, <1>7
  <2> QED BY <1>1, <1>8, <2>1
<1>10. ASSUME Rel[p] \in wSince, wAt.rel = Rel[p], WORKSPACE!ShownAs(p) = {Rel[p]}
       PROVE  WORKSPACE!MatchesOf({p}) \subseteq all
  <2>1. SUFFICES ASSUME NEW x \in WORKSPACE!MatchesOf({p}) PROVE x \in all
    OBVIOUS
  <2>2. x \in [path : {wAt.rel}, line : {read[i] : i \in DOMAIN read}]
    BY <1>7, <1>8, <1>10, <2>1
  <2>3. PICK i \in DOMAIN read : x.line = read[i]
    BY <2>2
  <2>4. x = [path |-> wAt.rel, line |-> read[i]]
    BY <2>2, <2>3
  <2> QED BY <2>4
<1> QED BY <1>3, <1>5, <1>9, <1>10 DEF p


\* A search adds what it reads in a file, and stops at its limit.
LEMMA SearchReadKeeps ==
  ASSUME WalkInv, WORKSPACE!SearchRead
  PROVE  WalkInv'
<1>1. /\ OnlyLooks /\ wPc = "search" /\ wAt.step = "read" /\ wAt.step # "none"
      /\ WORKSPACE!Leave /\ wStack' = wStack /\ wPending' = wPending
      /\ WalkTypes /\ EntryInv /\ WalkFrontier /\ Walks /\ ~Sizing
  BY DEF WORKSPACE!SearchRead, WORKSPACE!Asked, WORKSPACE!tree, OnlyLooks, WalkInv,
     Walks, Sizing
<1>2. PICK read \in WORKSPACE!Contents(wAt.path) :
        LET matches == wResult.matches \o WORKSPACE!Hits(read)
            full == Len(matches) >= wRequest.limit
        IN /\ wResult' = [wResult EXCEPT !.matches = matches, !.truncated = full]
           /\ wPc' = IF full THEN "done" ELSE wPc
  BY DEF WORKSPACE!SearchRead
<1> DEFINE p == wAt.path
           old == wResult.matches
           hits == WORKSPACE!Hits(read)
           new == old \o hits
           full == Len(new) >= wRequest.limit
           lines == WORKSPACE!MatchesOf({p})
           all == {[path |-> wAt.rel, line |-> read[i]] : i \in DOMAIN read}
<1>3. /\ wAt.rel \in Places /\ read \in Seq(1 .. MaxSize)
      /\ all \subseteq lines
      /\ Rel[p] \in wSince /\ wAt.rel = Rel[p] /\ WORKSPACE!ShownAs(p) = {Rel[p]} =>
           lines \subseteq all
  BY <1>1, ReadMatches
<1>4. /\ p \in Places /\ p \in WORKSPACE!VisibleOf(wEver) /\ wPending = NoPlace
      /\ Tree[p].kind \in {"file", "file_link"}
  <2>1. p \in Places /\ p \in WORKSPACE!VisibleOf(wEver) /\ wPending = NoPlace
    BY <1>1 DEF EntryInv
  <2> QED BY <2>1, VisibleMeans
<1>5. /\ WalkFrontier' /\ EntryInv' /\ ~Sizing'
      /\ wPending' \in Places \cup {NoPlace} /\ Frontier' = Frontier \ {p}
  <2>1. wPending' \in {p, NoPlace} /\ wPending' # p
    BY <1>1, <1>4, TreePlaces
  <2> QED BY <1>1, <2>1, LeaveKeeps
<1>6. /\ wResult \in Results /\ wResult.truncated = FALSE /\ wResult.thrown = FALSE
      /\ Searched /\ wRequest.tool = "search" /\ wRequest.limit \in Nat
      /\ old \in Seq(Matches)
  <2>1. /\ wResult \in Results /\ wResult.truncated = FALSE /\ wResult.thrown = FALSE
        /\ Searched /\ wRequest.tool = "search" /\ wRequest.limit \in 1 .. LargestLimit
    BY <1>1, WalkingResult
  <2>2. wRequest.limit \in Nat
    BY <2>1
  <2>3. wResult.matches \in Seq(Matches)
    BY <2>1 DEF Results
  <2> QED BY <2>1, <2>2, <2>3
<1>7. /\ WORKSPACE!ToSet(old) \subseteq WORKSPACE!MatchesOf(WORKSPACE!VisibleOf(wEver))
      /\ Len(old) < wRequest.limit /\ Len(old) <= wRequest.limit /\ Len(old) \in Nat
  <2>1. Len(old) \in Nat
    BY <1>6, LenProperties
  <2>2. /\ WORKSPACE!ToSet(old) \subseteq WORKSPACE!MatchesOf(WORKSPACE!VisibleOf(wEver))
        /\ Len(old) < wRequest.limit
    BY <1>6 DEF WalkInv, SearchInv
  <2> QED BY <1>6, <2>1, <2>2
<1>8. /\ hits \in Seq(Matches) /\ Len(hits) \in Nat
      /\ Len(hits) <= wRequest.limit - Len(old)
      /\ WORKSPACE!ToSet(hits) \subseteq all
      /\ Len(hits) < wRequest.limit - Len(old) => all \subseteq WORKSPACE!ToSet(hits)
  <2> HIDE DEF hits, all
  <2>1. WalkTypes /\ wAt.rel \in Places /\ Len(wResult.matches) <= wRequest.limit
    BY <1>1, <1>3, <1>7
  <2> QED BY <1>3, <2>1, HitsOfAFile DEF hits, all
<1>9. /\ wResult' = [wResult EXCEPT !.matches = new, !.truncated = full]
      /\ wPc' = IF full THEN "done" ELSE wPc
  BY <1>2
<1> HIDE DEF p, hits, lines, all
<1>10. /\ new \in Seq(Matches) /\ Len(new) = Len(old) + Len(hits)
       /\ WORKSPACE!ToSet(new) = WORKSPACE!ToSet(old) \cup WORKSPACE!ToSet(hits)
  BY <1>6, <1>8, JoinedMatches
<1> HIDE DEF new
<1>11. full \in BOOLEAN /\ Len(new) <= wRequest.limit /\ Len(new) \in Nat
  BY <1>6, <1>7, <1>8, <1>10
<1>12. ~full => Len(new) < wRequest.limit /\ Len(hits) < wRequest.limit - Len(old)
  BY <1>6, <1>7, <1>8, <1>10
<1> HIDE DEF full
<1>13. /\ wResult' \in Results /\ wResult'.matches = new
       /\ wResult'.truncated = full /\ wResult'.thrown = FALSE
       /\ wResult'.warned = wResult.warned
  BY <1>6, <1>9, <1>10, <1>11 DEF Results
<1>14. WalkTypes'
  <2>1. wPc' \in {wPc, "done"} /\ wStack' \in Seq(SUBSET Places)
    BY <1>1, <1>9, FrontierPlaces
  <2> QED BY <1>1, <1>5, <1>13, <2>1, TypesStay
<1>15. ScanInv' /\ TotalsInv'
  <2>1. ~Scanned'
    BY <1>1, <1>6 DEF Scanned, OnlyLooks
  <2> QED BY <2>1 DEF ScanInv, TotalsInv
<1>16. /\ WORKSPACE!ToSet(wResult.matches)' = WORKSPACE!ToSet(new)
       /\ WORKSPACE!ToSet(hits) \subseteq lines
  BY <1>3, <1>8, <1>13 DEF WORKSPACE!ToSet
<1>17. SearchInv'
  <2>1. WORKSPACE!ToSet(new) \subseteq WORKSPACE!MatchesOf(WORKSPACE!VisibleOf(wEver))
    <3>1. {p} \subseteq WORKSPACE!VisibleOf(wEver)
      BY <1>4
    <3>2. lines \subseteq WORKSPACE!MatchesOf(WORKSPACE!VisibleOf(wEver))
      BY <3>1, MatchesAreOfPaths DEF lines
    <3> QED BY <1>7, <1>10, <1>16, <3>2
  <2>2. WORKSPACE!MatchesOf(WORKSPACE!VisibleOf(wEver))'
            = WORKSPACE!MatchesOf(WORKSPACE!VisibleOf(wEver))
    BY <1>1, SameShown
  <2>3. ~(wPc' = "done" /\ WORKSPACE!Complete')
    BY <1>1, <1>9, <1>13 DEF WORKSPACE!Complete
  <2>4. /\ Len(wResult'.matches) <= wRequest'.limit
        /\ ~wResult'.truncated => Len(wResult'.matches) < wRequest'.limit
    BY <1>1, <1>11, <1>12, <1>13 DEF OnlyLooks
  <2> QED BY <1>16, <2>1, <2>2, <2>3, <2>4 DEF SearchInv
<1>18. WalkCovers'
  <2>1. CASE full
    <3>1. ~Walks'
      BY <1>9, <2>1 DEF Walks
    <3> QED BY <3>1 DEF WalkCovers
  <2>2. CASE ~full
    <3>1. wPc' = wPc /\ wResult'.truncated = FALSE
      BY <1>9, <1>11, <1>13, <2>2
    <3>2. \A q : /\ Handled(q)' <=>
                      WORKSPACE!MatchesOf({q}) \subseteq WORKSPACE!ToSet(new)
                 /\ Handled(q) <=>
                      WORKSPACE!MatchesOf({q}) \subseteq WORKSPACE!ToSet(old)
      <4>1. \A q : WORKSPACE!MatchesOf({q})' = WORKSPACE!MatchesOf({q})
        BY <1>1, SameShown DEF WORKSPACE!MatchesOf
      <4>2. wRequest'.tool = "search"
        BY <1>1, <1>6 DEF OnlyLooks
      <4>3. \A q : Handled(q)' <=>
                     WORKSPACE!MatchesOf({q})' \subseteq WORKSPACE!ToSet(wResult.matches)'
        BY <4>2 DEF Handled
      <4>4. \A q : Handled(q) <=>
                     WORKSPACE!MatchesOf({q}) \subseteq WORKSPACE!ToSet(old)
        BY <1>6 DEF Handled
      <4> QED BY <1>16, <4>1, <4>3, <4>4
    <3>3. \A q : Handled(q) => Handled(q)'
      BY <1>10, <3>2
    <3>4. ASSUME NEW q \in WORKSPACE!WantedOf(wSince), NEW f \in Frontier, Leq(f, q)
          PROVE  Handled(q)' \/ f \in Frontier'
      <4>1. CASE f # p
        BY <1>5, <3>4, <4>1
      <4>2. CASE f = p
        <5>1. /\ p # q => Tree[p].kind = "directory"
              /\ Rel[q] \in wSince /\ p = q => wAt.rel = Rel[q]
          BY <1>1, <3>4, <4>2, OnTheWay DEF p
        <5>2. p = q /\ WORKSPACE!ShownAs(q) = {Rel[q]} /\ Rel[q] \in wSince
          BY <1>1, <1>4, <3>4, <5>1, WantedPath
        <5>3. lines \subseteq WORKSPACE!ToSet(hits)
          BY <1>3, <1>8, <1>12, <2>2, <5>1, <5>2
        <5> QED BY <1>10, <3>2, <5>2, <5>3 DEF lines
      <4> QED BY <4>1, <4>2
    <3> QED BY <1>1, <1>13, <3>1, <3>3, <3>4, CoversStay
  <2> QED BY <2>1, <2>2
<1> QED BY <1>5, <1>14, <1>15, <1>17, <1>18 DEF WalkInv

\* A search that visited everything has the matches of what was there all the
\* time.
LEMMA SearchEndKeeps ==
  ASSUME WalkInv, WORKSPACE!SearchEnd
  PROVE  WalkInv'
<1>1. /\ OnlyLooks /\ wPc = "search" /\ wPc' = "done" /\ wStack = <<>> /\ Walks
      /\ wStack' = wStack /\ wPending' = wPending /\ wAt' = wAt /\ wResult' = wResult
      /\ WalkTypes /\ EntryInv
  BY DEF WORKSPACE!SearchEnd, WORKSPACE!tree, OnlyLooks, WalkInv, Walks
<1>2. /\ wResult \in Results /\ wResult.truncated = FALSE
      /\ Searched /\ wRequest.tool = "search"
  BY <1>1, WalkingResult
<1>3. WalkTypes'
  <2>1. wStack' \in Seq(SUBSET Places) /\ wPending' \in Places \cup {NoPlace}
    BY <1>1 DEF WalkTypes
  <2> QED BY <1>1, <1>2, <2>1, TypesStay
<1>4. /\ wAt = WORKSPACE!NoEntry
      /\ ~wResult.warned /\ wRequest.root = "open" =>
           \A q \in WORKSPACE!WantedOf(wSince) : Handled(q)
  BY <1>1, NothingIsLeft
<1>5. EntryInv'
  BY <1>1, <1>4, Fixed DEF EntryInv, WORKSPACE!NoEntry
<1>6. ~Scanned' /\ ~Walks'
  BY <1>1, <1>2 DEF Scanned, Walks, OnlyLooks
<1>7. WalkFrontier' /\ WalkCovers' /\ ScanInv' /\ TotalsInv'
  BY <1>6 DEF WalkFrontier, WalkCovers, ScanInv, TotalsInv
<1>8. SearchInv'
  <2>1. /\ WORKSPACE!ToSet(wResult.matches)
               \subseteq WORKSPACE!MatchesOf(WORKSPACE!VisibleOf(wEver))
        /\ Len(wResult.matches) <= wRequest.limit
        /\ ~wResult.truncated => Len(wResult.matches) < wRequest.limit
    BY <1>2 DEF WalkInv, SearchInv
  <2>2. ASSUME ~wResult.warned, wRequest.root = "open"
        PROVE  WORKSPACE!MatchesOf(WORKSPACE!WantedOf(wSince))
                   \subseteq WORKSPACE!ToSet(wResult.matches)
    <3>1. \A q \in WORKSPACE!WantedOf(wSince) :
            WORKSPACE!MatchesOf({q}) \subseteq WORKSPACE!ToSet(wResult.matches)
      BY <1>2, <1>4, <2>2 DEF Handled
    <3> QED BY <3>1, MatchesAreOfPaths
  <2>3. /\ WORKSPACE!MatchesOf(WORKSPACE!VisibleOf(wEver))'
               = WORKSPACE!MatchesOf(WORKSPACE!VisibleOf(wEver))
        /\ WORKSPACE!MatchesOf(WORKSPACE!WantedOf(wSince))'
               = WORKSPACE!MatchesOf(WORKSPACE!WantedOf(wSince))
    BY <1>1, SameShown
  <2>4. /\ WORKSPACE!ToSet(wResult.matches)' = WORKSPACE!ToSet(wResult.matches)
        /\ wResult'.matches = wResult.matches /\ wResult'.truncated = wResult.truncated
        /\ wRequest' = wRequest
    BY <1>1 DEF WORKSPACE!ToSet, OnlyLooks
  <2>5. WORKSPACE!Complete' => ~wResult.warned /\ wRequest.root = "open"
    BY <1>1, <2>4 DEF WORKSPACE!Complete
  <2> QED BY <2>1, <2>2, <2>3, <2>4, <2>5 DEF SearchInv
<1> QED BY <1>3, <1>5, <1>7, <1>8 DEF WalkInv

-----------------------------------------------------------------------------
\* A stack of one level.
LEMMA OneLevel ==
  ASSUME NEW S, NEW X \in SUBSET S
  PROVE  /\ <<X>> \in Seq(SUBSET S) /\ <<X>> # <<>>
         /\ Apart(<<X>>) /\ Union(<<X>>) = X
<1>1. <<X>> \in Seq(SUBSET S) /\ Len(<<X>>) = 1 /\ <<X>>[1] = X
  OBVIOUS
<1>2. <<X>> # <<>>
  BY <1>1, EmptySeq
<1> DEFINE t == <<X>>
<1>3. Len(t) = 1 /\ t[1] = X
  BY <1>1
<1> HIDE DEF t
<1>4. 1 .. Len(t) = {1}
  BY <1>3
<1>5. Apart(t) /\ Union(t) = X
  BY <1>3, <1>4 DEF Apart, Union
<1> QED BY <1>1, <1>2, <1>5 DEF t

\* The result a call begins with.
LEMMA NothingFound ==
  /\ WORKSPACE!NoResult \in Results
  /\ WORKSPACE!NoResult.truncated = FALSE
  /\ WORKSPACE!NoResult.files = 0 /\ WORKSPACE!NoResult.bytes = 0
  /\ WORKSPACE!NoResult.found = {} /\ WORKSPACE!NoResult.matches = <<>>
  /\ \A e \in WORKSPACE!Extensions : WORKSPACE!NoResult.extensions[e] = <<0, 0>>
<1>1. <<>> \in Seq(Matches)
  OBVIOUS
<1>2. [e \in WORKSPACE!Extensions |-> <<0, 0>>] \in [WORKSPACE!Extensions -> Nat \X Nat]
  OBVIOUS
<1>3. WORKSPACE!NoResult \in Results
  BY <1>1, <1>2 DEF WORKSPACE!NoResult, Results
<1> QED BY <1>3 DEF WORKSPACE!NoResult

\* A reply that has not begun: no file, no byte and no line.
LEMMA EmptyReport ==
  ASSUME wResult'.found = {}, wResult'.files = 0, wResult'.bytes = 0,
         wResult'.matches = <<>>, wResult'.truncated = FALSE,
         \A e \in WORKSPACE!Extensions : wResult'.extensions[e] = <<0, 0>>,
         wPc' = "done" => wResult'.thrown, ~Sizing',
         wRequest'.limit \in Nat \ {0}
  PROVE  ScanInv' /\ TotalsInv' /\ SearchInv'
<1>1. Cardinality({}) = 0
  BY FS_EmptySet
<1>2. wPc' = "done" => ~WORKSPACE!Complete'
  BY DEF WORKSPACE!Complete
<1>3. ScanInv'
  BY <1>1, <1>2 DEF ScanInv
<1>4. TotalsInv'
  <2>1. Sized' = {}
    BY DEF Sized
  <2>2. PICK sizes \in [{} -> 0 .. MaxSize] : TRUE
    <3>1. [p \in {} |-> 0] \in [{} -> 0 .. MaxSize]
      OBVIOUS
    <3> QED BY <3>1
  <2>3. SizedAs(sizes)'
    <3>1. \A e : OfExtension(e, {}) = {}
      BY DEF OfExtension
    <3>2. \A e \in WORKSPACE!Extensions :
            wResult'.extensions[e] = <<Cardinality(OfExtension(e, {})),
                                       WORKSPACE!Size(OfExtension(e, {}), sizes)>>
      BY <1>1, <3>1, NoBytes
    <3>3. (\A e \in WORKSPACE!Extensions :
            wResult.extensions[e] = <<Cardinality(OfExtension(e, Sized)),
                                      WORKSPACE!Size(OfExtension(e, Sized), sizes)>>)'
      BY <2>1, <3>2 DEF OfExtension, WORKSPACE!Size, WORKSPACE!Extensions,
         WORKSPACE!Paths
    <3>4. (wResult.bytes = WORKSPACE!Size(Sized, sizes))'
      BY <2>1, NoBytes DEF WORKSPACE!Size
    <3> QED BY <2>1, <3>3, <3>4 DEF SizedAs
  <2> QED BY <2>1, <2>2, <2>3 DEF TotalsInv
<1>5. SearchInv'
  <2>1. Len(<<>>) = 0 /\ WORKSPACE!ToSet(<<>>) = {}
    BY DEF WORKSPACE!ToSet
  <2>2. WORKSPACE!ToSet(wResult.matches)' = {} /\ Len(wResult'.matches) = 0
    BY <2>1 DEF WORKSPACE!ToSet
  <2>3. 0 <= wRequest'.limit /\ 0 < wRequest'.limit
    OBVIOUS
  <2>4. (WORKSPACE!ToSet(wResult.matches)
           \subseteq WORKSPACE!MatchesOf(WORKSPACE!VisibleOf(wEver)))'
    BY <2>2
  <2> QED BY <1>2, <2>2, <2>3, <2>4 DEF SearchInv
<1> QED BY <1>3, <1>4, <1>5

\* The walk begins with the entries of the root, or with none if it may not be
\* opened; the call may throw before it.
LEMMA BeginKeeps ==
  ASSUME WalkInv, NEW tool \in {"scan", "search"}, NEW most \in 1 .. LargestLimit,
         NEW include_hidden \in BOOLEAN, NEW root \in WORKSPACE!Roots,
         NEW throws \in BOOLEAN,
         WORKSPACE!Begin(tool, most, include_hidden, root, throws)
  PROVE  WorkspaceInv'
<1> DEFINE level == WORKSPACE!Children(<<>>)
<1>1. /\ wPc = "idle" /\ wPc' = (IF throws THEN "done" ELSE tool)
      /\ wRequest' = [tool |-> tool, limit |-> most,
                      include_hidden |-> include_hidden, root |-> root]
      /\ wStack' = (IF root = "open" THEN <<level>> ELSE <<>>)
      /\ wResult' = [WORKSPACE!NoResult EXCEPT !.warned = ~throws /\ root = "absent",
                                               !.thrown = throws]
      /\ wSince' = wAlive /\ wEver' = wAlive /\ wAlive' = wAlive /\ wChanges' = wChanges
      /\ wPending' = wPending /\ wAt' = wAt
  BY DEF WORKSPACE!Begin
<1>2. WalkTypes /\ EntryInv /\ LargestLimit \in Nat
  BY WorkspaceAssumption DEF WalkInv, WorkspaceAssumption
<1>3. /\ wPending' = NoPlace /\ wAt' = WORKSPACE!NoEntry /\ ~Sizing'
      /\ wAt'.step = "none" /\ wAt'.path = NoPlace
  <2>1. wPending = NoPlace /\ wAt = WORKSPACE!NoEntry
    BY <1>1, <1>2 DEF WalkTypes, EntryInv, Walks
  <2> QED BY <1>1, <2>1 DEF Sizing, WORKSPACE!NoEntry, NoPlace
<1>4. /\ wResult' \in Results /\ wResult'.found = {} /\ wResult'.files = 0
      /\ wResult'.bytes = 0 /\ wResult'.matches = <<>> /\ wResult'.truncated = FALSE
      /\ \A e \in WORKSPACE!Extensions : wResult'.extensions[e] = <<0, 0>>
      /\ wResult'.thrown = throws
  <2> DEFINE warned == ~throws /\ root = "absent"
             none == WORKSPACE!NoResult
  <2>1. warned \in BOOLEAN
    OBVIOUS
  <2>2. wResult' = [none EXCEPT !.warned = warned, !.thrown = throws]
    BY <1>1
  <2>3. /\ none \in Results /\ none.truncated = FALSE
        /\ none.files = 0 /\ none.bytes = 0 /\ none.found = {} /\ none.matches = <<>>
        /\ \A e \in WORKSPACE!Extensions : none.extensions[e] = <<0, 0>>
    BY NothingFound
  <2> HIDE DEF warned, none
  <2>4. wResult' \in Results /\ wResult'.thrown = throws
    BY <2>1, <2>2, <2>3 DEF Results
  <2>5. /\ wResult'.found = none.found /\ wResult'.files = none.files
        /\ wResult'.bytes = none.bytes /\ wResult'.matches = none.matches
        /\ wResult'.truncated = none.truncated /\ wResult'.extensions = none.extensions
    BY <2>2, <2>3 DEF Results
  <2> QED BY <2>3, <2>4, <2>5
<1>5. /\ level \subseteq wAlive /\ wAlive \subseteq Places
      /\ \A c \in level : \A r \in Places : Leq(r, c) => r = c
      /\ \A q \in wAlive : \E c \in level : Leq(c, q)
  BY <1>2, ChildrenOfTheRoot DEF WalkTypes
<1> HIDE DEF level
<1>6. /\ <<level>> \in Seq(SUBSET Places) /\ <<level>> # <<>>
      /\ Apart(<<level>>) /\ Union(<<level>>) = level
  <2>1. level \in SUBSET Places
    BY <1>5
  <2> QED BY <2>1, OneLevel
<1>7. /\ wStack' \in Seq(SUBSET Places) /\ Apart(wStack')
      /\ Union(wStack') = IF root = "open" THEN level ELSE {}
  <2>1. <<>> \in Seq(SUBSET Places) /\ Len(<<>>) = 0
    OBVIOUS
  <2>2. CASE root = "open"
    BY <1>1, <1>6, <2>2
  <2>3. CASE root # "open"
    BY <1>1, <2>1, <2>3 DEF Apart, Union
  <2> QED BY <2>2, <2>3
<1>8. /\ wPc' \in {"scan", "search", "done"}
      /\ (wPc' # "done" => wPc' = tool) /\ (wPc' = "done" => throws)
  BY <1>1
<1>9. /\ wRequest'.tool = tool /\ wRequest'.limit = most /\ wRequest'.root = root
      /\ wRequest' \in Tasks /\ most \in Nat \ {0}
  <2>1. most \in Nat \ {0}
    BY <1>2
  <2> QED BY <1>1, <2>1 DEF Tasks
<1>10. WalkTypes'
  <2>1. /\ Closed(wAlive)' = Closed(wAlive) /\ Closed(wSince)' = Closed(wAlive)
    BY <1>1 DEF Closed, Leq, WORKSPACE!IsPrefix, Places, WORKSPACE!Paths
  <2>2. wRequest'.tool \in {"scan", "search"} => wRequest'.limit \in 1 .. LargestLimit
    BY <1>9
  <2>3. wPc' \in {"scan", "search"} => wRequest'.tool = wPc'
    BY <1>8, <1>9
  <2>4. wChanges' \in 0 .. MaxChanges /\ Closed(wAlive) /\ wAlive \subseteq Places
    BY <1>1, <1>2 DEF WalkTypes
  <2>5. wPc' # "idle" /\ wPending' \in Places \cup {NoPlace} /\ wEver' \subseteq Places
    BY <1>1, <1>3, <1>8, <2>4
  <2> QED BY <1>1, <1>4, <1>7, <1>8, <1>9, <2>1, <2>2, <2>3, <2>4, <2>5, Fixed
          DEF WalkTypes
<1>11. EntryInv'
  <2>1. wAt' \in Entries
    BY <1>3 DEF Entries, WORKSPACE!NoEntry, NoPlace
  <2> QED BY <1>3, <2>1, Fixed DEF EntryInv
<1>12. Frontier' = IF root = "open" THEN level ELSE {}
  <2>1. NoPlace' = NoPlace /\ Union(wStack)' = Union(wStack')
    BY DEF NoPlace, WORKSPACE!NoPath, Union
  <2>2. Frontier' = Union(wStack') \cup ({wPending'} \ {NoPlace})
                      \cup (IF Sizing' THEN {} ELSE {wAt'.path} \ {NoPlace})
    BY <2>1 DEF Frontier
  <2> QED BY <1>3, <1>7, <2>2
<1>13. WalkFrontier'
  <2>1. SUFFICES ASSUME Walks' PROVE WalkFrontier'
    BY DEF WalkFrontier
  <2>2. Frontier' \subseteq level /\ Frontier' \subseteq wEver'
    BY <1>1, <1>5, <1>12
  <2>3. \A f \in level : Above(f) = {}
    BY <1>5, PlacesAbove
  <2>4. \A f, g \in level : Leq(f, g) => f = g
    BY <1>5
  <2>5. /\ wPending' = NoPlace' /\ Apart(wStack)' = Apart(wStack')
        /\ (\A f \in Frontier : Passable(f))' <=> \A f \in Frontier' : Passable(f)
        /\ (\A f, g \in Frontier : Leq(f, g) => f = g)'
             <=> \A f, g \in Frontier' : Leq(f, g) => f = g
        /\ Union(wStack)' = Union(wStack')
    BY <1>3 DEF Apart, Passable, Above, Leq, WORKSPACE!IsPrefix, NoPlace,
       WORKSPACE!NoPath, Union
  <2>6. \A f \in Frontier' : Passable(f)
    BY <2>2, <2>3 DEF Passable
  <2>7. \A f, g \in Frontier' : Leq(f, g) => f = g
    BY <2>2, <2>4
  <2>8. wAt'.path \notin Union(wStack')
    BY <1>3, <1>5, <1>7, TreePlaces
  <2> QED BY <1>7, <2>2, <2>5, <2>6, <2>7, <2>8 DEF WalkFrontier
<1>14. WalkCovers'
  <2>1. SUFFICES ASSUME Walks' PROVE WalkCovers'
    BY DEF WalkCovers
  <2>2. wResult'.truncated = FALSE /\ wResult'.thrown = FALSE
    BY <1>1, <1>4, <2>1 DEF Walks
  <2>3. ASSUME root = "open", NEW q \in wAlive PROVE Ahead(q)'
    <3>1. \E f \in Frontier' : Leq(f, q)
      BY <1>5, <1>12, <2>3
    <3> QED BY <3>1 DEF Ahead, Leq, WORKSPACE!IsPrefix
  <2>4. WORKSPACE!WantedOf(wSince)' \subseteq wAlive
    BY <1>1 DEF WORKSPACE!WantedOf
  <2> QED BY <1>9, <2>2, <2>3, <2>4 DEF WalkCovers
<1>15. ScanInv' /\ TotalsInv' /\ SearchInv'
  <2>1. wPc' = "done" => wResult'.thrown
    BY <1>4, <1>8
  <2>2. wRequest'.limit \in Nat \ {0}
    BY <1>9
  <2> QED BY <1>3, <1>4, <2>1, <2>2, EmptyReport
<1> QED BY <1>4, <1>10, <1>11, <1>13, <1>14, <1>15 DEF WalkInv, WorkspaceInv, Unused
-----------------------------------------------------------------------------
\* Nothing of a walk is left when none goes on.
LEMMA NoWalk ==
  ASSUME wAt' = WORKSPACE!NoEntry, ~Walks', ~Scanned', ~Searched'
  PROVE  /\ EntryInv' /\ WalkFrontier' /\ WalkCovers'
         /\ ScanInv' /\ TotalsInv' /\ SearchInv'
<1>1. EntryInv'
  <2>1. wAt' \in Entries /\ wAt'.step = "none"
    BY DEF Entries, WORKSPACE!NoEntry, NoPlace
  <2> QED BY <2>1, Fixed DEF EntryInv
<1> QED BY <1>1 DEF WalkFrontier, WalkCovers, ScanInv, TotalsInv, SearchInv

\* A file is read in one step.
LEMMA WorkspaceReadKeeps ==
  ASSUME WalkInv, WORKSPACE!read_file
  PROVE  WorkspaceInv'
<1> DEFINE held(p) == IF /\ WORKSPACE!There(p) /\ Tree[Rel[p]].kind = "file"
                         /\ Tree[Rel[p]].readable
                      THEN Tree[Rel[p]].size ELSE 0
<1>1. PICK max_bytes \in ReadLimits, p \in Places :
        LET bound == WORKSPACE!clamp(max_bytes, 1, LargestLimit)
        IN /\ wRequest' = [WORKSPACE!NoRequest EXCEPT !.tool = "read_file",
                                                      !.limit = bound]
           /\ wResult' = [WORKSPACE!NoResult EXCEPT
                            !.bytes = WORKSPACE!Min({bound, held(p)}),
                            !.truncated = held(p) > bound]
  BY DEF WORKSPACE!read_file, Places
<1> DEFINE most == WORKSPACE!clamp(max_bytes, 1, LargestLimit)
           size == held(p)
           read == WORKSPACE!Min({most, size})
           cut == size > most
<1>2. /\ wPc = "idle" /\ wPc' = "done" /\ wSince' = wAlive /\ wEver' = wAlive
      /\ wAlive' = wAlive /\ wChanges' = wChanges /\ wStack' = wStack
      /\ wPending' = wPending /\ wAt' = wAt
  BY DEF WORKSPACE!read_file
<1>3. WalkTypes /\ EntryInv /\ LargestLimit \in Nat \ {0} /\ max_bytes \in Int
  BY WorkspaceAssumption DEF WalkInv, WorkspaceAssumption
<1>4. most \in Nat
  BY <1>3 DEF WORKSPACE!clamp
<1>5. size \in Nat
  <2>1. Rel[p] \in Places
    BY LinkPlaces
  <2>2. Tree[Rel[p]].size \in 0 .. MaxSize /\ MaxSize \in Nat
    BY <2>1, TreePlaces
  <2> QED BY <2>2
<1>6. /\ wRequest' = [WORKSPACE!NoRequest EXCEPT !.tool = "read_file", !.limit = most]
      /\ wResult' = [WORKSPACE!NoResult EXCEPT !.bytes = read, !.truncated = cut]
  BY <1>1
<1> HIDE DEF most, size, held
<1>7. read \in Nat /\ cut \in BOOLEAN
  BY <1>4, <1>5 DEF WORKSPACE!Min
<1> HIDE DEF read, cut
<1>8. wResult' \in Results /\ wResult'.files = 0 /\ wResult'.matches = <<>>
  <2> DEFINE none == WORKSPACE!NoResult
  <2>1. none \in Results /\ none.files = 0 /\ none.matches = <<>>
    BY NothingFound
  <2>2. wResult' = [none EXCEPT !.bytes = read, !.truncated = cut]
    BY <1>6
  <2> HIDE DEF none
  <2> QED BY <1>7, <2>1, <2>2 DEF Results
<1>9. wRequest' \in Tasks /\ wRequest'.tool = "read_file"
  BY <1>4, <1>6 DEF WORKSPACE!NoRequest, Tasks, WORKSPACE!Roots
<1>10. WalkTypes'
  <2>1. Closed(wAlive)' = Closed(wAlive) /\ Closed(wSince)' = Closed(wAlive)
    BY <1>2 DEF Closed, Leq, WORKSPACE!IsPrefix, Places, WORKSPACE!Paths
  <2> QED BY <1>2, <1>3, <1>8, <1>9, <2>1, Fixed DEF WalkTypes
<1>11. wAt' = WORKSPACE!NoEntry
  BY <1>2, <1>3 DEF EntryInv, Walks
<1>12. ~Walks' /\ ~Scanned' /\ ~Searched'
  BY <1>2, <1>9 DEF Walks, Scanned, Searched
<1> QED BY <1>8, <1>10, <1>11, <1>12, NoWalk DEF WalkInv, WorkspaceInv, Unused

\* Between two calls nothing is known but the tree.
LEMMA IdleKeeps ==
  ASSUME wPc' = "idle", wRequest' = WORKSPACE!NoRequest, wResult' = WORKSPACE!NoResult,
         wStack' = <<>>, wPending' = NoPlace, wAt' = WORKSPACE!NoEntry,
         wSince' = {}, wEver' = {},
         wAlive' \subseteq Places, Closed(wAlive'), wChanges' \in 0 .. MaxChanges
  PROVE  WorkspaceInv'
<1>1. wRequest' \in Tasks /\ wRequest'.tool = "none"
  BY DEF WORKSPACE!NoRequest, Tasks, WORKSPACE!Roots
<1>2. wResult' \in Results /\ wResult'.files = 0 /\ wResult'.matches = <<>>
  BY NothingFound
<1>3. Closed(wAlive)' = Closed(wAlive') /\ Closed(wSince)'
  BY DEF Closed, Leq, WORKSPACE!IsPrefix, Places, WORKSPACE!Paths
<1>4. wStack' \in Seq(SUBSET Places)
  OBVIOUS
<1>5. WalkTypes'
  BY <1>1, <1>2, <1>3, <1>4, Fixed DEF WalkTypes
<1>6. ~Walks' /\ ~Scanned' /\ ~Searched'
  BY <1>1 DEF Walks, Scanned, Searched
<1> QED BY <1>2, <1>5, <1>6, NoWalk DEF WalkInv, WorkspaceInv, Unused

\* Nothing of a call outlives it.
LEMMA WorkspaceReturnKeeps ==
  ASSUME WalkInv, WORKSPACE!Return
  PROVE  WorkspaceInv'
<1>1. wAlive' = wAlive /\ wChanges' = wChanges
  BY DEF WORKSPACE!Return
<1>2. /\ wAlive' \subseteq Places /\ wChanges' \in 0 .. MaxChanges
      /\ Closed(wAlive')
  BY <1>1 DEF WalkInv, WalkTypes, Closed
<1>3. /\ wPc' = "idle" /\ wRequest' = WORKSPACE!NoRequest /\ wResult' = WORKSPACE!NoResult
      /\ wStack' = <<>> /\ wPending' = NoPlace /\ wSince' = {} /\ wEver' = {}
      /\ wAt' = WORKSPACE!NoEntry
  BY DEF WORKSPACE!Return, WORKSPACE!Leave, NoPlace
<1> QED BY <1>2, <1>3, IdleKeeps


\* The tree changes under a call: less was there all the time, and more was there
\* for a while or may hold anything.
LEMMA ShownOutlivesChange ==
  ASSUME wRequest' = wRequest, wSince' \subseteq wSince, wSince \subseteq Places
  PROVE  /\ \A p : WORKSPACE!Hidden(p)' <=> WORKSPACE!Hidden(p)
         /\ \A p : WORKSPACE!Kept(p)' => WORKSPACE!Kept(p)
         /\ \A p : /\ WORKSPACE!Names(p) \subseteq WORKSPACE!Names(p)'
                   /\ WORKSPACE!ShownAs(p) \subseteq WORKSPACE!ShownAs(p)'
         /\ \A p \in Places : /\ WORKSPACE!LinesOf(p) \subseteq WORKSPACE!LinesOf(p)'
                              /\ WORKSPACE!MatchesOf({p}) \subseteq WORKSPACE!MatchesOf({p})'
         /\ WORKSPACE!WantedOf(wSince)' \subseteq WORKSPACE!WantedOf(wSince)
         /\ \A p \in WORKSPACE!WantedOf(wSince)' :
              WORKSPACE!MatchesOf({p})' = WORKSPACE!MatchesOf({p})
<1>1. \A p : /\ WORKSPACE!Hidden(p)' <=> WORKSPACE!Hidden(p)
             /\ WORKSPACE!Kept(p)' => WORKSPACE!Kept(p)
  BY DEF WORKSPACE!Hidden, WORKSPACE!hidden_path, WORKSPACE!Kept
<1>2. \A p : /\ WORKSPACE!Names(p) \subseteq WORKSPACE!Names(p)'
             /\ WORKSPACE!ShownAs(p) \subseteq WORKSPACE!ShownAs(p)'
             /\ WORKSPACE!Kept(p)' => WORKSPACE!ShownAs(p)' = WORKSPACE!ShownAs(p)
  BY <1>1 DEF WORKSPACE!Names, WORKSPACE!ShownAs
<1>3. \A p \in Places : /\ WORKSPACE!LinesOf(p) \subseteq WORKSPACE!LinesOf(p)'
                        /\ Rel[p] \in wSince' =>
                             WORKSPACE!LinesOf(p)' = WORKSPACE!LinesOf(p)
  <2>1. SUFFICES ASSUME NEW p \in Places
                 PROVE  /\ WORKSPACE!LinesOf(p) \subseteq WORKSPACE!LinesOf(p)'
                        /\ Rel[p] \in wSince' =>
                             WORKSPACE!LinesOf(p)' = WORKSPACE!LinesOf(p)
    OBVIOUS
  <2>2. WORKSPACE!ToSet(Tree[Rel[p]].hits) \subseteq 1 .. MaxSize
    <3>1. Tree[Rel[p]].hits \in Seq(1 .. MaxSize)
      BY LinkPlaces, TreePlaces
    <3>2. /\ DOMAIN Tree[Rel[p]].hits = 1 .. Len(Tree[Rel[p]].hits)
          /\ \A i \in 1 .. Len(Tree[Rel[p]].hits) : Tree[Rel[p]].hits[i] \in 1 .. MaxSize
      BY <3>1, LenProperties, ElementOfSeq
    <3> QED BY <3>2 DEF WORKSPACE!ToSet
  <2> DEFINE own == IF Tree[Rel[p]].size <= MaxFileBytes /\ Tree[Rel[p]].readable
                    THEN WORKSPACE!ToSet(Tree[Rel[p]].hits) ELSE {}
  <2>3. own \subseteq 1 .. MaxSize
    BY <2>2
  <2>4. /\ WORKSPACE!LinesOf(p) = IF Rel[p] \notin wSince THEN 1 .. MaxSize ELSE own
        /\ WORKSPACE!LinesOf(p)' = IF Rel[p] \notin wSince' THEN 1 .. MaxSize ELSE own
    BY DEF WORKSPACE!LinesOf, WORKSPACE!ToSet
  <2> HIDE DEF own
  <2> QED BY <2>3, <2>4
<1>4. \A p : WORKSPACE!MatchesOf({p})'
               = [path : WORKSPACE!ShownAs(p)', line : WORKSPACE!LinesOf(p)']
  <2> DEFINE of(p) == [path : WORKSPACE!ShownAs(p)', line : WORKSPACE!LinesOf(p)']
  <2>1. \A p : WORKSPACE!MatchesOf({p})' = UNION {of(q) : q \in {p}}
    BY DEF WORKSPACE!MatchesOf
  <2> HIDE DEF of
  <2>2. \A p : WORKSPACE!MatchesOf({p})' = of(p)
    BY <2>1
  <2> QED BY <2>2 DEF of
<1>5. \A p \in Places : WORKSPACE!MatchesOf({p}) \subseteq WORKSPACE!MatchesOf({p})'
  <2>1. SUFFICES ASSUME NEW p \in Places
                 PROVE  WORKSPACE!MatchesOf({p}) \subseteq WORKSPACE!MatchesOf({p})'
    OBVIOUS
  <2>2. /\ WORKSPACE!ShownAs(p) \subseteq WORKSPACE!ShownAs(p)'
        /\ WORKSPACE!LinesOf(p) \subseteq WORKSPACE!LinesOf(p)'
    BY <1>2, <1>3
  <2>3. /\ WORKSPACE!MatchesOf({p})
             = [path : WORKSPACE!ShownAs(p), line : WORKSPACE!LinesOf(p)]
        /\ WORKSPACE!MatchesOf({p})'
             = [path : WORKSPACE!ShownAs(p)', line : WORKSPACE!LinesOf(p)']
    BY <1>4, MatchesAreOfPaths
  <2>4. PICK A, B, C, D : /\ A = WORKSPACE!ShownAs(p) /\ B = WORKSPACE!LinesOf(p)
                           /\ C = WORKSPACE!ShownAs(p)' /\ D = WORKSPACE!LinesOf(p)'
    OBVIOUS
  <2>5. A \subseteq C /\ B \subseteq D
    BY <2>2, <2>4
  <2>6. [path : A, line : B] \subseteq [path : C, line : D]
    BY <2>5
  <2> QED BY <2>3, <2>4, <2>6
<1>6. WORKSPACE!WantedOf(wSince)' \subseteq WORKSPACE!WantedOf(wSince)
  BY <1>1 DEF WORKSPACE!WantedOf, WORKSPACE!IsFile, WORKSPACE!Reached
<1>7. ASSUME NEW p \in WORKSPACE!WantedOf(wSince)'
      PROVE  WORKSPACE!MatchesOf({p})' = WORKSPACE!MatchesOf({p})
  <2>1. p \in wSince' /\ Rel[p] \in wSince' /\ p \in Places
    BY <1>7 DEF WORKSPACE!WantedOf
  <2>2. WORKSPACE!Kept(p)'
    BY <2>1 DEF WORKSPACE!Kept
  <2>3. /\ WORKSPACE!ShownAs(p)' = WORKSPACE!ShownAs(p)
        /\ WORKSPACE!LinesOf(p)' = WORKSPACE!LinesOf(p)
    BY <1>2, <1>3, <2>1, <2>2
  <2> QED BY <1>4, <2>3, MatchesAreOfPaths
<1> QED BY <1>1, <1>2, <1>3, <1>5, <1>6, <1>7

\* What was visible is so still.
LEMMA VisibleOutlivesChange ==
  ASSUME wRequest' = wRequest, wSince' \subseteq wSince, wSince \subseteq Places,
         wEver \subseteq wEver', wEver \subseteq Places
  PROVE  /\ WORKSPACE!VisibleOf(wEver) \subseteq WORKSPACE!VisibleOf(wEver)'
         /\ WORKSPACE!MatchesOf(WORKSPACE!VisibleOf(wEver))
              \subseteq WORKSPACE!MatchesOf(WORKSPACE!VisibleOf(wEver))'
<1>1. /\ \A p : WORKSPACE!ShownAs(p) \subseteq WORKSPACE!ShownAs(p)'
      /\ \A p \in Places :
           WORKSPACE!MatchesOf({p}) \subseteq WORKSPACE!MatchesOf({p})'
  BY ShownOutlivesChange
<1>2. WORKSPACE!VisibleOf(wEver) \subseteq WORKSPACE!VisibleOf(wEver)'
  BY <1>1 DEF WORKSPACE!VisibleOf, WORKSPACE!IsFile, WORKSPACE!Reached
<1>3. WORKSPACE!VisibleOf(wEver) \subseteq Places
  BY DEF WORKSPACE!VisibleOf
<1> DEFINE of(p) == [path : WORKSPACE!ShownAs(p), line : WORKSPACE!LinesOf(p)]'
           V == WORKSPACE!VisibleOf(wEver)'
<1>4. /\ WORKSPACE!MatchesOf(WORKSPACE!VisibleOf(wEver))' = UNION {of(p) : p \in V}
      /\ \A p : WORKSPACE!MatchesOf({p})' = UNION {of(q) : q \in {p}}
  BY DEF WORKSPACE!MatchesOf
<1> HIDE DEF of, V
<1>5. \A p \in V : WORKSPACE!MatchesOf({p})'
                     \subseteq WORKSPACE!MatchesOf(WORKSPACE!VisibleOf(wEver))'
  BY <1>4
<1>6. \A p \in WORKSPACE!VisibleOf(wEver) : p \in V /\ p \in Places
  BY <1>2, <1>3 DEF V
<1>7. \A p \in WORKSPACE!VisibleOf(wEver) : WORKSPACE!MatchesOf({p})
         \subseteq WORKSPACE!MatchesOf(WORKSPACE!VisibleOf(wEver))'
  BY <1>1, <1>5, <1>6
<1>8. ASSUME NEW x \in WORKSPACE!MatchesOf(WORKSPACE!VisibleOf(wEver))
      PROVE  x \in WORKSPACE!MatchesOf(WORKSPACE!VisibleOf(wEver))'
  <2>1. PICK p \in WORKSPACE!VisibleOf(wEver) : x \in WORKSPACE!MatchesOf({p})
    BY <1>8, MatchesAreOfPaths
  <2> QED BY <1>7, <2>1
<1> QED BY <1>2, <1>8

\* The report holds all the same.
LEMMA ReportOutlivesChange ==
  ASSUME WorkspaceInv, UNCHANGED <<wPc, wRequest, wStack, wPending, wAt, wResult>>,
         wSince' \subseteq wSince, wPc # "idle" => wEver \subseteq wEver'
  PROVE  /\ EntryInv' /\ WalkFrontier' /\ WalkCovers'
         /\ ScanInv' /\ TotalsInv' /\ SearchInv' /\ Unused'
<1>1. /\ WalkTypes /\ EntryInv /\ WalkFrontier /\ WalkCovers /\ ScanInv /\ TotalsInv
      /\ SearchInv /\ Unused
  BY DEF WorkspaceInv, WalkInv
<1>2. wSince \subseteq Places /\ wEver \subseteq Places
  BY <1>1 DEF WalkTypes
<1>3. /\ \A p : WORKSPACE!Kept(p)' => WORKSPACE!Kept(p)
      /\ \A p : /\ WORKSPACE!Names(p) \subseteq WORKSPACE!Names(p)'
                /\ WORKSPACE!ShownAs(p) \subseteq WORKSPACE!ShownAs(p)'
      /\ WORKSPACE!WantedOf(wSince)' \subseteq WORKSPACE!WantedOf(wSince)
      /\ \A p \in WORKSPACE!WantedOf(wSince)' :
           WORKSPACE!MatchesOf({p})' = WORKSPACE!MatchesOf({p})
  BY <1>2, ShownOutlivesChange
<1>4. wPc # "idle" =>
        /\ WORKSPACE!VisibleOf(wEver) \subseteq WORKSPACE!VisibleOf(wEver)'
        /\ WORKSPACE!MatchesOf(WORKSPACE!VisibleOf(wEver))
             \subseteq WORKSPACE!MatchesOf(WORKSPACE!VisibleOf(wEver))'
  BY <1>2, VisibleOutlivesChange
<1>5. /\ Walks' <=> Walks
      /\ Scanned' <=> Scanned
      /\ Searched' <=> Searched
      /\ Walks \/ Scanned \/ Searched => wPc # "idle" /\ wEver \subseteq wEver'
      /\ Sizing' <=> Sizing
  BY DEF Walks, Scanned, Searched, Sizing
<1>6. /\ Frontier' = Frontier /\ NoPlace' = NoPlace /\ Union(wStack)' = Union(wStack)
      /\ Apart(wStack)' = Apart(wStack) /\ Sized' = Sized
      /\ WORKSPACE!ToSet(wResult.matches)' = WORKSPACE!ToSet(wResult.matches)
  BY <1>5 DEF Frontier, NoPlace, WORKSPACE!NoPath, Union, Apart, Sized,
     WORKSPACE!ToSet
<1>7. EntryInv'
  <2>1. /\ WORKSPACE!Names(wAt.path) \subseteq WORKSPACE!Names(wAt.path)'
        /\ WORKSPACE!ShownAs(wAt.path) \subseteq WORKSPACE!ShownAs(wAt.path)'
    <3>1. PICK p : p = wAt.path
      OBVIOUS
    <3>2. /\ WORKSPACE!Names(wAt.path)' = WORKSPACE!Names(p)'
          /\ WORKSPACE!ShownAs(wAt.path)' = WORKSPACE!ShownAs(p)'
      BY <3>1 DEF WORKSPACE!Names, WORKSPACE!ShownAs, WORKSPACE!Hidden,
         WORKSPACE!Kept, WORKSPACE!hidden_path
    <3> QED BY <1>3, <3>1, <3>2
  <2>2. wAt'.path = wAt.path /\ wAt'.rel = wAt.rel /\ wAt'.step = wAt.step
    OBVIOUS
  <2>3. wAt.step # "none" => Walks
    BY <1>1 DEF EntryInv
  <2>4. wAt.step \in {"size", "open", "read"} =>
          /\ wAt.path \in WORKSPACE!VisibleOf(wEver)'
          /\ wAt.rel \in WORKSPACE!ShownAs(wAt.path)'
    BY <1>1, <1>4, <1>5, <2>1, <2>3 DEF EntryInv
  <2>5. wAt.step # "none" => wAt.rel \in WORKSPACE!Names(wAt.path)'
    BY <1>1, <2>1 DEF EntryInv
  <2>6. wAt \in Entries /\ (wAt.step = "none" => wAt = WORKSPACE!NoEntry)
    BY <1>1 DEF EntryInv
  <2>7. wAt.step # "none" =>
          /\ Walks /\ wPending = NoPlace /\ wStack # <<>> /\ wAt.path \in Places
          /\ wAt.step \in (IF wPc = "scan" THEN {"kind", "size"}
                           ELSE {"kind", "size", "open", "read"})
    BY <1>1 DEF EntryInv
  <2>8. /\ wAt.step \in {"open", "read"} /\ Rel[wAt.path] \in wSince' =>
             Tree[Rel[wAt.path]].size <= MaxFileBytes
        /\ wAt.step = "read" /\ Rel[wAt.path] \in wSince' =>
             Tree[Rel[wAt.path]].readable
    BY <1>1 DEF EntryInv
  <2> QED BY <1>5, <2>2, <2>4, <2>5, <2>6, <2>7, <2>8, Fixed DEF EntryInv
<1>8. WalkFrontier'
  BY <1>1, <1>5, <1>6, Fixed DEF WalkFrontier
<1>9. WalkCovers'
  <2>1. SUFFICES ASSUME Walks PROVE WalkCovers'
    BY <1>5 DEF WalkCovers
  <2>2. \A q \in WORKSPACE!WantedOf(wSince)' : Handled(q)' <=> Handled(q)
    BY <1>3, <1>6 DEF Handled
  <2>3. \A q : Ahead(q)' <=> Ahead(q)
    BY <1>6 DEF Ahead, Leq, WORKSPACE!IsPrefix
  <2> QED BY <1>1, <1>3, <2>1, <2>2, <2>3 DEF WalkCovers
<1>10. ScanInv'
  <2>1. SUFFICES ASSUME Scanned PROVE ScanInv'
    BY <1>5 DEF ScanInv
  <2>2. /\ wResult.found \subseteq WORKSPACE!VisibleOf(wEver)'
        /\ WORKSPACE!VisibleOf(wEver) \ wResult.found # {} =>
             WORKSPACE!VisibleOf(wEver)' \ wResult.found # {}
    BY <1>1, <1>4, <1>5, <2>1 DEF ScanInv
  <2>3. (\A f \in Frontier : \A q \in wResult.found : ~Leq(f, q))'
          <=> \A f \in Frontier : \A q \in wResult.found : ~Leq(f, q)
    BY <1>6 DEF Leq, WORKSPACE!IsPrefix
  <2>4. WORKSPACE!Complete' <=> WORKSPACE!Complete
    BY DEF WORKSPACE!Complete
  <2> QED BY <1>1, <1>3, <1>5, <2>1, <2>2, <2>3, <2>4 DEF ScanInv
<1>11. TotalsInv'
  <2>1. SUFFICES ASSUME Scanned PROVE TotalsInv'
    BY <1>5 DEF TotalsInv
  <2>2. PICK sizes \in [Sized -> 0 .. MaxSize] : SizedAs(sizes)
    BY <1>1, <2>1 DEF TotalsInv
  <2>3. SizedAs(sizes)'
    BY <1>3, <1>6, <2>2 DEF SizedAs, OfExtension, WORKSPACE!Size,
       WORKSPACE!Extensions, WORKSPACE!Paths
  <2> QED BY <1>6, <2>2, <2>3 DEF TotalsInv
<1>12. SearchInv'
  <2>1. SUFFICES ASSUME Searched PROVE SearchInv'
    BY <1>5 DEF SearchInv
  <2>2. WORKSPACE!ToSet(wResult.matches)
          \subseteq WORKSPACE!MatchesOf(WORKSPACE!VisibleOf(wEver))'
    BY <1>1, <1>4, <1>5, <2>1 DEF SearchInv
  <2>3. WORKSPACE!MatchesOf(WORKSPACE!WantedOf(wSince))'
          \subseteq WORKSPACE!MatchesOf(WORKSPACE!WantedOf(wSince))
    <3> DEFINE of(p) == [path : WORKSPACE!ShownAs(p), line : WORKSPACE!LinesOf(p)]'
               V == WORKSPACE!WantedOf(wSince)'
    <3>1. /\ WORKSPACE!MatchesOf(WORKSPACE!WantedOf(wSince))' = UNION {of(p) : p \in V}
          /\ \A p : WORKSPACE!MatchesOf({p})' = UNION {of(q) : q \in {p}}
      BY DEF WORKSPACE!MatchesOf
    <3>2. /\ V \subseteq WORKSPACE!WantedOf(wSince)
          /\ \A p \in V : WORKSPACE!MatchesOf({p})' = WORKSPACE!MatchesOf({p})
      BY <1>3
    <3> HIDE DEF of, V
    <3>3. \A x \in WORKSPACE!MatchesOf(WORKSPACE!WantedOf(wSince))' :
            \E p \in V : x \in WORKSPACE!MatchesOf({p})'
      BY <3>1
    <3>4. \A x \in WORKSPACE!MatchesOf(WORKSPACE!WantedOf(wSince))' :
            \E p \in WORKSPACE!WantedOf(wSince) : x \in WORKSPACE!MatchesOf({p})
      BY <3>2, <3>3
    <3> QED BY <3>4, MatchesAreOfPaths
  <2>4. WORKSPACE!Complete' <=> WORKSPACE!Complete
    BY DEF WORKSPACE!Complete
  <2>5. /\ Len(wResult.matches) <= wRequest.limit
        /\ ~wResult.truncated => Len(wResult.matches) < wRequest.limit
        /\ wPc = "done" /\ WORKSPACE!Complete =>
             WORKSPACE!MatchesOf(WORKSPACE!WantedOf(wSince))
                 \subseteq WORKSPACE!ToSet(wResult.matches)
    BY <1>1, <2>1 DEF SearchInv
  <2> QED BY <1>6, <2>2, <2>3, <2>4, <2>5 DEF SearchInv
<1>13. Unused'
  BY <1>1, <1>5 DEF Unused
<1> QED BY <1>7, <1>8, <1>9, <1>10, <1>11, <1>12, <1>13


\* Another program removes what is at a path, with all below it, puts something
\* there or writes to a file.
LEMMA ChangeKeeps ==
  ASSUME WorkspaceInv, WORKSPACE!Change
  PROVE  WorkspaceInv'
<1>1. /\ UNCHANGED <<wPc, wRequest, wStack, wPending, wAt, wResult>>
      /\ wChanges < MaxChanges /\ wChanges' = wChanges + 1
  BY DEF WORKSPACE!Change
<1>2. PICK p \in Places :
        \/ /\ p \in wAlive
           /\ wAlive' = {q \in wAlive : ~Leq(p, q)}
           /\ wSince' = wSince \cap wAlive' /\ wEver' = wEver
        \/ /\ p \notin wAlive /\ (Len(p) = 1 \/ WORKSPACE!Front(p) \in wAlive)
           /\ wAlive' = wAlive \cup {p}
           /\ wEver' = (IF wPc = "idle" THEN {} ELSE wEver \cup {p})
           /\ wSince' = wSince
        \/ /\ p \in wSince /\ Tree[p].kind = "file"
           /\ wSince' = wSince \ {p} /\ wAlive' = wAlive /\ wEver' = wEver
  BY DEF WORKSPACE!Change, Places, Leq
<1>3. WalkTypes
  BY DEF WorkspaceInv, WalkInv
<1>4. /\ wAlive \subseteq Places /\ Closed(wAlive) /\ Closed(wSince)
      /\ wSince \subseteq wAlive /\ wEver \subseteq Places
      /\ wPc # "idle" => wAlive \subseteq wEver
  BY <1>3 DEF WalkTypes
<1>5. /\ wAlive' \subseteq Places /\ Closed(wAlive') /\ Closed(wSince')
      /\ wSince' \subseteq wAlive' /\ wEver' \subseteq Places
      /\ wPc # "idle" => wAlive' \subseteq wEver'
      /\ wSince' \subseteq wSince /\ (wPc # "idle" => wEver \subseteq wEver')
  <2>1. CASE /\ p \in wAlive
             /\ wAlive' = {q \in wAlive : ~Leq(p, q)}
             /\ wSince' = wSince \cap wAlive' /\ wEver' = wEver
    <3>1. Closed(wAlive')
      <4>1. SUFFICES ASSUME NEW q \in wAlive', NEW r \in Places, Leq(r, q)
                     PROVE  r \in wAlive'
        BY DEF Closed
      <4>2. q \in wAlive /\ ~Leq(p, q) /\ r \in wAlive
        BY <1>4, <2>1, <4>1 DEF Closed
      <4>3. ~Leq(p, r)
        BY <1>4, <4>1, <4>2, PlacesOrder
      <4> QED BY <2>1, <4>2, <4>3
    <3>2. Closed(wSince')
      BY <1>4, <2>1, <3>1 DEF Closed
    <3> QED BY <1>4, <2>1, <3>1, <3>2
  <2>2. CASE /\ p \notin wAlive /\ (Len(p) = 1 \/ WORKSPACE!Front(p) \in wAlive)
             /\ wAlive' = wAlive \cup {p}
             /\ wEver' = (IF wPc = "idle" THEN {} ELSE wEver \cup {p})
             /\ wSince' = wSince
    <3>1. ASSUME NEW r \in Places, Leq(r, p) PROVE r = p \/ r \in wAlive
      <4>1. p \in Seq(STRING) /\ r \in Seq(STRING) /\ p # <<>> /\ r # <<>>
        BY TreePlaces
      <4>2. Len(p) \in Nat \ {0} /\ Len(r) \in Nat \ {0}
        BY <4>1, EmptySeq
      <4> DEFINE d == SubSeq(p, 1, Len(p) - 1)
      <4>3. d \in Seq(STRING) /\ Len(d) = Len(p) - 1 /\ Leq(d, p)
        <5>1. Len(p) - 1 \in 0 .. Len(p)
          BY <4>2
        <5> QED BY <4>1, <5>1, Beginnings
      <4>4. d = WORKSPACE!Front(p)
        BY DEF WORKSPACE!Front
      <4> HIDE DEF d
      <4>5. Len(p) = Len(d) + 1
        BY <4>2, <4>3
      <4>6. r = p \/ Leq(r, d)
        BY <3>1, <4>1, <4>3, <4>5, AboveEntry
      <4>7. CASE Len(p) = 1
        <5>1. ~(Len(r) <= Len(d))
          <6>1. Len(d) = 0
            BY <4>3, <4>7
          <6> QED BY <4>2, <6>1
        <5>2. ~Leq(r, d)
          BY <4>1, <4>3, <5>1, Prefixes
        <5> QED BY <4>6, <5>2
      <4>8. CASE d \in wAlive
        BY <1>4, <4>6, <4>8 DEF Closed
      <4> QED BY <2>2, <4>4, <4>7, <4>8
    <3>2. Closed(wAlive')
      BY <1>4, <2>2, <3>1 DEF Closed
    <3>3. Closed(wSince')
      BY <1>4, <2>2 DEF Closed
    <3> QED BY <1>4, <2>2, <3>2, <3>3
  <2>3. CASE /\ p \in wSince /\ Tree[p].kind = "file"
             /\ wSince' = wSince \ {p} /\ wAlive' = wAlive /\ wEver' = wEver
    <3>1. Closed(wSince')
      <4>1. SUFFICES ASSUME NEW q \in wSince', NEW r \in Places, Leq(r, q)
                     PROVE  r \in wSince'
        BY DEF Closed
      <4>2. q \in wSince /\ q # p /\ r \in wSince /\ q \in Places
        BY <1>4, <2>3, <4>1 DEF Closed
      <4>3. r # q => Tree[r].kind = "directory"
        BY <4>1, <4>2, PlacesAbove, TreePlaces
      <4>4. r # p
        BY <2>3, <4>2, <4>3
      <4> QED BY <2>3, <4>2, <4>4
    <3>2. Closed(wAlive')
      BY <1>4, <2>3
    <3> QED BY <1>4, <2>3, <3>1, <3>2
  <2> QED BY <1>2, <2>1, <2>2, <2>3
<1>6. wChanges' \in 0 .. MaxChanges
  <2>1. MaxChanges \in Nat /\ wChanges \in 0 .. MaxChanges
    BY <1>3, WorkspaceAssumption DEF WalkTypes, WorkspaceAssumption
  <2> QED BY <1>1, <2>1
<1>7. WalkTypes'
  <2>1. Closed(wAlive)' = Closed(wAlive') /\ Closed(wSince)' = Closed(wSince')
    BY DEF Closed, Leq, WORKSPACE!IsPrefix, Places, WORKSPACE!Paths
  <2> QED BY <1>1, <1>3, <1>5, <1>6, <2>1, Fixed DEF WalkTypes
<1>8. /\ EntryInv' /\ WalkFrontier' /\ WalkCovers'
      /\ ScanInv' /\ TotalsInv' /\ SearchInv' /\ Unused'
  BY <1>1, <1>5, ReportOutlivesChange
<1> QED BY <1>7, <1>8 DEF WorkspaceInv, WalkInv

\* The steps of the other servers change nothing of this one.
LEMMA WorkspaceStays == WorkspaceInv /\ UNCHANGED workspaceVars => WorkspaceInv'
<1> SUFFICES ASSUME WorkspaceInv, UNCHANGED workspaceVars PROVE WorkspaceInv'
  OBVIOUS
<1>1. /\ UNCHANGED <<wAlive, wChanges, wPc, wRequest, wStack, wPending, wAt, wResult>>
      /\ wSince' = wSince /\ wEver' = wEver
  BY DEF workspaceVars
<1>2. WalkTypes'
  <2>1. WalkTypes
    BY DEF WorkspaceInv, WalkInv
  <2>2. Closed(wAlive)' = Closed(wAlive) /\ Closed(wSince)' = Closed(wSince)
    BY <1>1 DEF Closed, Leq, WORKSPACE!IsPrefix, Places, WORKSPACE!Paths
  <2> QED BY <1>1, <2>1, <2>2, Fixed DEF WalkTypes
<1>3. /\ EntryInv' /\ WalkFrontier' /\ WalkCovers'
      /\ ScanInv' /\ TotalsInv' /\ SearchInv' /\ Unused'
  <2>1. wSince' \subseteq wSince /\ (wPc # "idle" => wEver \subseteq wEver')
    BY <1>1
  <2> QED BY <1>1, <2>1, ReportOutlivesChange
<1> QED BY <1>2, <1>3 DEF WorkspaceInv, WalkInv

\* Before the first call the whole tree is there.
LEMMA WorkspaceInit == WORKSPACE!Init => WorkspaceInv
<1> SUFFICES ASSUME WORKSPACE!Init PROVE WorkspaceInv
  OBVIOUS
<1>1. /\ wAlive = Places /\ wChanges = 0 /\ wPc = "idle"
      /\ wRequest = WORKSPACE!NoRequest /\ wResult = WORKSPACE!NoResult
      /\ wStack = <<>> /\ wPending = NoPlace /\ wAt = WORKSPACE!NoEntry
      /\ wSince = {} /\ wEver = {}
  BY DEF WORKSPACE!Init, Places, NoPlace
<1>2. wRequest \in Tasks /\ wRequest.tool = "none"
  BY <1>1 DEF WORKSPACE!NoRequest, Tasks, WORKSPACE!Roots
<1>3. wResult \in Results /\ wResult.files = 0 /\ wResult.matches = <<>>
  BY <1>1, NothingFound
<1>4. wStack \in Seq(SUBSET Places) /\ Closed(wAlive) /\ Closed(wSince)
  BY <1>1 DEF Closed
<1>5. wChanges \in 0 .. MaxChanges
  BY <1>1, WorkspaceAssumption DEF WorkspaceAssumption
<1>6. WalkTypes
  BY <1>1, <1>2, <1>3, <1>4, <1>5 DEF WalkTypes
<1>7. ~Walks /\ ~Scanned /\ ~Searched
  BY <1>1 DEF Walks, Scanned, Searched
<1>8. EntryInv
  BY <1>1 DEF EntryInv, Entries, WORKSPACE!NoEntry, NoPlace
<1>9. WalkFrontier /\ WalkCovers /\ ScanInv /\ TotalsInv /\ SearchInv
  BY <1>7 DEF WalkFrontier, WalkCovers, ScanInv, TotalsInv, SearchInv
<1> QED BY <1>3, <1>6, <1>8, <1>9 DEF WalkInv, WorkspaceInv, Unused

\* A scan leaves the matches alone, and a search the files.
LEMMA UnusedStays ==
  ASSUME WorkspaceInv, OnlyLooks, Walks, wPc' \in {wPc, "done"},
         wPc = "scan" => wResult'.matches = wResult.matches,
         wPc = "search" => wResult'.files = wResult.files
  PROVE  Unused'
<1>1. wRequest.tool = wPc /\ wPc \in {"scan", "search"} /\ wRequest' = wRequest
  BY DEF WorkspaceInv, WalkInv, WalkTypes, Walks, OnlyLooks
<1>2. CASE wPc = "scan"
  <2>1. Scanned' /\ ~Searched' /\ ~Searched
    BY <1>1, <1>2 DEF Scanned, Searched
  <2> QED BY <1>2, <2>1 DEF WorkspaceInv, Unused
<1>3. CASE wPc = "search"
  <2>1. Searched' /\ ~Scanned' /\ ~Scanned
    BY <1>1, <1>3 DEF Scanned, Searched
  <2> QED BY <1>3, <2>1 DEF WorkspaceInv, Unused
<1> QED BY <1>1, <1>2, <1>3

\* So does every step of a walk.
LEMMA WalkKeepsUnused ==
  ASSUME WorkspaceInv, WORKSPACE!Walk
  PROVE  Unused'
<1>1. wResult \in Results /\ EntryInv
  BY DEF WorkspaceInv, WalkInv, WalkTypes
<1>2. wAt.step = "kind" => Walks
  BY <1>1 DEF EntryInv
<1>3. /\ OnlyLooks /\ Walks /\ wPc' \in {wPc, "done"}
      /\ \/ /\ wPc = "scan" \/ wResult'.files = wResult.files
            /\ wResult'.matches = wResult.matches
         \/ wPc = "search" /\ wResult'.files = wResult.files
  <2>1. CASE WORKSPACE!Descend \/ WORKSPACE!Ascend \/ \E p \in Places : WORKSPACE!Take(p)
    <3>1. /\ OnlyLooks /\ Walks /\ wPc' = wPc
          /\ wResult' = wResult \/ wResult' = [wResult EXCEPT !.warned = TRUE]
      BY <2>1 DEF WORKSPACE!Descend, WORKSPACE!Ascend, WORKSPACE!Take,
         WORKSPACE!Walking, WORKSPACE!tree, OnlyLooks, Walks
    <3> QED BY <1>1, <3>1 DEF Results
  <2>2. CASE WORKSPACE!Skip
    <3>1. OnlyLooks /\ wAt.step = "kind" /\ wPc' = wPc /\ wResult' = wResult
      BY <2>2 DEF WORKSPACE!Skip, WORKSPACE!tree, OnlyLooks
    <3> QED BY <1>2, <3>1
  <2>3. CASE WORKSPACE!ScanKind
    <3>1. /\ OnlyLooks /\ wPc = "scan" /\ wPc' \in {wPc, "done"}
          /\ \/ wResult' = wResult
             \/ wResult' = [wResult EXCEPT !.directories = @ + 1]
             \/ wResult' = [wResult EXCEPT !.truncated = TRUE]
             \/ wResult' = [wResult EXCEPT !.files = @ + 1,
                                           !.found = @ \cup {wAt.path}]
      BY <2>3 DEF WORKSPACE!ScanKind, WORKSPACE!Asked, WORKSPACE!tree, OnlyLooks
    <3> QED BY <1>1, <3>1 DEF Results, Walks
  <2>4. CASE WORKSPACE!ScanSize
    <3>1. /\ OnlyLooks /\ wPc = "scan" /\ wPc' = wPc
          /\ \E size : wResult' = WORKSPACE!Counted(wAt.path, size)
      BY <2>4 DEF WORKSPACE!ScanSize, WORKSPACE!Asked, WORKSPACE!tree, OnlyLooks
    <3>2. wResult'.matches = wResult.matches
      BY <1>1, <3>1 DEF WORKSPACE!Counted, Results
    <3> QED BY <3>1, <3>2 DEF Walks
  <2>5. CASE WORKSPACE!ScanEnd
    <3>1. /\ OnlyLooks /\ wPc = "scan" /\ wPc' = "done"
          /\ \E listed : wResult' = [wResult EXCEPT !.listed = listed]
      BY <2>5 DEF WORKSPACE!ScanEnd, WORKSPACE!tree, OnlyLooks
    <3> QED BY <1>1, <3>1 DEF Results, Walks
  <2>6. CASE WORKSPACE!SearchKind \/ WORKSPACE!SearchSize \/ WORKSPACE!SearchOpen
               \/ WORKSPACE!SearchEnd
    <3>1. /\ OnlyLooks /\ wPc = "search" /\ wPc' \in {wPc, "done"} /\ wResult' = wResult
      BY <2>6 DEF WORKSPACE!SearchKind, WORKSPACE!SearchSize, WORKSPACE!SearchOpen,
         WORKSPACE!SearchEnd, WORKSPACE!Asked, WORKSPACE!tree, OnlyLooks
    <3> QED BY <3>1 DEF Walks
  <2>7. CASE WORKSPACE!SearchRead
    <3>1. /\ OnlyLooks /\ wPc = "search" /\ wPc' \in {wPc, "done"}
          /\ \E matches, full :
               wResult' = [wResult EXCEPT !.matches = matches, !.truncated = full]
      BY <2>7 DEF WORKSPACE!SearchRead, WORKSPACE!Asked, WORKSPACE!tree, OnlyLooks
    <3> QED BY <1>1, <3>1 DEF Results, Walks
  <2> QED BY <2>1, <2>2, <2>3, <2>4, <2>5, <2>6, <2>7 DEF WORKSPACE!Walk, Places
<1> QED BY <1>3, UnusedStays

\* Every step of a walk keeps the invariant.
LEMMA WalkKeeps == WorkspaceInv /\ WORKSPACE!Walk => WorkspaceInv'
<1> SUFFICES ASSUME WorkspaceInv, WORKSPACE!Walk PROVE WorkspaceInv'
  OBVIOUS
<1>1. WalkInv /\ Unused'
  BY WalkKeepsUnused DEF WorkspaceInv
<1>2. WalkInv'
  BY <1>1, WorkspaceDescendKeeps, WorkspaceAscendKeeps, WorkspaceTakeKeeps,
     WorkspaceSkipKeeps, ScanKindKeeps, ScanSizeKeeps, ScanEndKeeps,
     SearchKindKeeps, SearchSizeKeeps, SearchOpenKeeps, SearchReadKeeps,
     SearchEndKeeps DEF WORKSPACE!Walk
<1> QED BY <1>1, <1>2 DEF WorkspaceInv

\* WorkspaceInv is inductive.
LEMMA WorkspaceStepKeeps == WorkspaceInv /\ WORKSPACE!Next => WorkspaceInv'
<1> SUFFICES ASSUME WorkspaceInv, WORKSPACE!Next PROVE WorkspaceInv'
  OBVIOUS
<1>1. WalkInv
  BY DEF WorkspaceInv
<1>2. \A n \in Int : WORKSPACE!clamp(n, 1, LargestLimit) \in 1 .. LargestLimit
  BY WorkspaceAssumption DEF WorkspaceAssumption, WORKSPACE!clamp
<1>3. FileLimits \subseteq Int /\ SearchLimits \subseteq Int
  BY WorkspaceAssumption DEF WorkspaceAssumption
<1>4. CASE WORKSPACE!scan_workspace
  <2>1. PICK n \in FileLimits, include_hidden \in BOOLEAN, root \in WORKSPACE!Roots :
          WORKSPACE!Begin("scan", WORKSPACE!clamp(n, 1, LargestLimit), include_hidden,
                          root, root = "unreachable")
    BY <1>4 DEF WORKSPACE!scan_workspace
  <2>2. WORKSPACE!clamp(n, 1, LargestLimit) \in 1 .. LargestLimit
    BY <1>2, <1>3
  <2>3. (root = "unreachable") \in BOOLEAN
    OBVIOUS
  <2> QED BY <1>1, <2>1, <2>2, <2>3, BeginKeeps
<1>5. CASE WORKSPACE!search_workspace
  <2>1. PICK n \in SearchLimits, include_hidden \in BOOLEAN, root \in WORKSPACE!Roots,
             throws \in BOOLEAN :
          WORKSPACE!Begin("search", WORKSPACE!clamp(n, 1, LargestLimit), include_hidden,
                          root, throws)
    BY <1>5 DEF WORKSPACE!search_workspace
  <2>2. WORKSPACE!clamp(n, 1, LargestLimit) \in 1 .. LargestLimit
    BY <1>2, <1>3
  <2> QED BY <1>1, <2>1, <2>2, BeginKeeps
<1>6. WORKSPACE!Walk => WorkspaceInv'
  BY WalkKeeps
<1> QED
  BY <1>1, <1>4, <1>5, <1>6, WorkspaceReadKeeps, WorkspaceReturnKeeps,
     ChangeKeeps DEF WORKSPACE!Next

\* What the replies promise follows.
LEMMA WorkspaceInvShows == WorkspaceInv => WorkspaceIsReported
<1> SUFFICES ASSUME WorkspaceInv PROVE WorkspaceIsReported
  OBVIOUS
<1>1. /\ WalkTypes /\ EntryInv /\ ScanInv /\ TotalsInv /\ SearchInv /\ Unused
  BY DEF WorkspaceInv, WalkInv
<1>2. WORKSPACE!TypeOK
  <2>1. \A i \in DOMAIN wStack : wStack[i] \subseteq Places
    BY <1>1 DEF WalkTypes
  <2>2. wResult.bytes >= 0
    BY <1>1 DEF WalkTypes, Results
  <2>3. Len(wResult.matches) <= LargestLimit
    <3>1. CASE Searched
      <4>1. wRequest.limit \in 1 .. LargestLimit /\ Len(wResult.matches) <= wRequest.limit
        BY <1>1, <3>1 DEF WalkTypes, SearchInv, Searched
      <4>2. Len(wResult.matches) \in Nat /\ LargestLimit \in Nat
        BY <1>1, LenProperties, WorkspaceAssumption DEF WalkTypes, Results,
           WorkspaceAssumption
      <4> QED BY <4>1, <4>2
    <3>2. CASE ~Searched
      <4>1. Len(<<>>) = 0
        OBVIOUS
      <4> QED BY <1>1, <3>2, <4>1, WorkspaceAssumption DEF Unused,
                 WorkspaceAssumption
    <3> QED BY <3>1, <3>2
  <2>4. wResult.files <= WORKSPACE!Cardinality(Places)
    <3>1. IsFiniteSet(Places) /\ WORKSPACE!Cardinality(Places) = Cardinality(Places)
      BY TreePlaces DEF WORKSPACE!Cardinality, Cardinality
    <3>2. Cardinality(Places) \in Nat
      BY <3>1, FS_CardinalityType
    <3>3. CASE Scanned
      <4>1. wResult.found \subseteq Places /\ wResult.files = Cardinality(wResult.found)
        BY <1>1, <3>3 DEF WalkTypes, Results, ScanInv
      <4>2. Cardinality(wResult.found) <= Cardinality(Places)
        BY <3>1, <4>1, FS_Subset
      <4> QED BY <3>1, <4>1, <4>2
    <3>4. CASE ~Scanned
      BY <1>1, <3>1, <3>2, <3>4 DEF Unused
    <3> QED BY <3>3, <3>4
  <2>5. /\ wAt.path \in Places \cup {NoPlace}
        /\ wAt.step \in {"none", "kind", "size", "open", "read"}
    BY <1>1 DEF EntryInv, Entries
  <2>6. wRequest.tool \in {"none", "scan", "search", "read_file"}
    BY <1>1 DEF WalkTypes, Tasks
  <2> QED BY <1>1, <2>1, <2>2, <2>3, <2>4, <2>5, <2>6 DEF WORKSPACE!TypeOK, WalkTypes,
             Places, NoPlace
<1>3. WORKSPACE!ScanIsComplete
  <2>1. SUFFICES ASSUME wPc = "done", wRequest.tool = "scan"
                 PROVE  WORKSPACE!ScanIsComplete
    BY DEF WORKSPACE!ScanIsComplete, WORKSPACE!Done
  <2>2. Scanned
    BY <2>1 DEF Scanned
  <2>3. WORKSPACE!Cardinality(wResult.found) = Cardinality(wResult.found)
    BY DEF WORKSPACE!Cardinality, Cardinality
  <2> QED BY <1>1, <2>1, <2>2, <2>3 DEF ScanInv, WORKSPACE!ScanIsComplete
<1>4. WORKSPACE!TotalsAgree
  <2>1. SUFFICES ASSUME wPc = "done", wRequest.tool = "scan"
                 PROVE  WORKSPACE!TotalsAgree
    BY DEF WORKSPACE!TotalsAgree, WORKSPACE!Done
  <2>2. Sized = wResult.found /\ wResult.found \subseteq Places
    BY <1>1, <2>1 DEF Sized, Sizing, WalkTypes, Results
  <2>3. PICK sizes \in [wResult.found -> 0 .. MaxSize] : SizedAs(sizes)
    BY <1>1, <2>1, <2>2 DEF TotalsInv, Scanned
  <2> DEFINE changed == {p \in wResult.found : ~WORKSPACE!Kept(p)}
             looked == [p \in changed |-> sizes[p]]
             those == [p \in wResult.found |-> IF p \in DOMAIN looked THEN looked[p]
                                               ELSE Tree[Rel[p]].size]
  <2>4. looked \in [changed -> 0 .. MaxSize]
    BY <2>3
  <2>5. those = sizes
    <3>1. \A p \in wResult.found : those[p] = sizes[p]
      BY <2>2, <2>3 DEF SizedAs
    <3> QED BY <2>3, <3>1
  <2>6. \A s : WORKSPACE!Cardinality(s) = Cardinality(s)
    BY DEF WORKSPACE!Cardinality, Cardinality
  <2>7. /\ wResult.bytes = WORKSPACE!Size(wResult.found, sizes)
        /\ \A e \in WORKSPACE!Extensions :
             LET of == {p \in wResult.found : Tree[p].extension = e} IN
             wResult.extensions[e] = <<WORKSPACE!Cardinality(of), WORKSPACE!Size(of, sizes)>>
    BY <2>2, <2>3, <2>6 DEF SizedAs, OfExtension
  <2>8. /\ wResult.bytes = WORKSPACE!Size(wResult.found, those)
        /\ \A e \in WORKSPACE!Extensions :
             LET of == {p \in wResult.found : Tree[p].extension = e} IN
             wResult.extensions[e] = <<WORKSPACE!Cardinality(of), WORKSPACE!Size(of, those)>>
    <3> HIDE DEF those
    <3> QED BY <2>5, <2>7
  <2> QED BY <2>4, <2>8 DEF WORKSPACE!TotalsAgree
<1>5. WORKSPACE!SearchIsComplete
  <2>1. SUFFICES ASSUME wPc = "done", wRequest.tool = "search"
                 PROVE  WORKSPACE!SearchIsComplete
    BY DEF WORKSPACE!SearchIsComplete, WORKSPACE!Done
  <2>2. Searched
    BY <2>1 DEF Searched
  <2> QED BY <1>1, <2>1, <2>2 DEF SearchInv, WORKSPACE!SearchIsComplete,
             WORKSPACE!Complete
<1> QED BY <1>2, <1>3, <1>4, <1>5 DEF WorkspaceIsReported

-----------------------------------------------------------------------------
(* The servers together: a step of one leaves the others as they are.        *)

\* A run of a command tool goes on as in CommandTools.
THEOREM CommandInvariance == ServerSpec => []IInv
<1>1. ServerInit => IInv
  BY Starts DEF ServerInit
<1>2. IInv /\ [ServerNext]_allVars => IInv'
  BY StepKeeps DEF ServerNext, CommandStep, LogStep, WorkspaceStep, allVars
<1> QED BY <1>1, <1>2, PTL DEF ServerSpec

\* What a digest or a search of a log replies is right while the log is being
\* written: the counts are those of the first lines, the samples the first
\* severe ones and the matches complete (digest_log, find_matches).
THEOREM LogReported == ServerSpec => []LogIsReported
<1>1. ServerInit => LogInv
  BY LogInit DEF ServerInit
<1>2. LogInv /\ [ServerNext]_allVars => LogInv'
  BY LogStepKeeps, LogStays DEF ServerNext, CommandStep, LogStep, WorkspaceStep,
     allVars
<1> QED BY <1>1, <1>2, LogInvShows, PTL DEF ServerSpec

\* What a scan or a search of a workspace replies is right while the tree
\* changes: no file twice and none that was never there; without a flag none is
\* left out but what is hidden, lies below a directory that may not be opened or,
\* in a search, is too large or unreadable; and the totals agree (scan_workspace,
\* search_workspace).
THEOREM WorkspaceReported == ServerSpec => []WorkspaceIsReported
<1>1. ServerInit => WorkspaceInv
  BY WorkspaceInit DEF ServerInit
<1>2. WorkspaceInv /\ [ServerNext]_allVars => WorkspaceInv'
  BY WorkspaceStepKeeps, WorkspaceStays DEF ServerNext, CommandStep, LogStep,
     WorkspaceStep, allVars
<1> QED BY <1>1, <1>2, WorkspaceInvShows, PTL DEF ServerSpec
=============================================================================
