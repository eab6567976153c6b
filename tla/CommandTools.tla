---------------------------- MODULE CommandTools ----------------------------
(***************************************************************************)
(* The servers that run a command and return a bounded part of what it     *)
(* prints (examples/servers/git_server.cpp, sqlite_server.cpp and          *)
(* cmake_ctest_server.cpp).  Each handler checks its path, and for         *)
(* sqlite.query and ctest.run the request, builds a command line and hands *)
(* it to run_command, of which each server has its own copy.  The file     *)
(* system and the command are the environment: a path may change between   *)
(* the check and the read, and a command whose pipe is closed before it    *)
(* has printed everything dies of SIGPIPE.                                 *)
(*                                                                         *)
(* The bytes a command prints are numbered 1, 2, ...; a row of a query and *)
(* a commit of a log are one byte.                                         *)
(***************************************************************************)
EXTENDS Integers, Sequences

CONSTANTS Chunk,        \* bytes per fread (4096 in the code)
          LargestBytes, \* the largest byte limit (1024 * 1024)
          LargestRows,  \* the largest row limit (1000, 200 commits)
          MaxPrinted,   \* bound on the bytes a command prints
          ByteLimits,   \* the values of max_bytes clients send
          RowLimits,    \* the values of max_rows and max_commits they send
          Queries       \* the statements they send

\* What the text of a query says that the server and sqlite3 look at:
\*   first  what it begins with;
\*   limit  whether the words " LIMIT " state its limit ("own"), stand where they
\*          limit nothing, in a literal, a comment or a subquery ("elsewhere"), or
\*          state it with another white space than the server looks for ("newline");
\*   tail   what follows the statement: a semicolon, a comment up to the end, or
\*          a semicolon and another statement.
Statements == [first : {"select", "explain", "write"},
               limit : {"none", "own", "elsewhere", "newline"},
               tail : {"none", "semicolon", "comment", "second"}]
Plain == [first |-> "select", limit |-> "none", tail |-> "none"]

ASSUME CommandAssumption ==
  /\ Chunk \in Nat \ {0} /\ LargestBytes \in Nat \ {0}
  /\ LargestRows \in Nat \ {0} /\ MaxPrinted \in Nat
  /\ ByteLimits \subseteq Int /\ RowLimits \subseteq Int
  /\ Queries \subseteq Statements

GitTools == {"git.status", "git.log", "git.diff"}
SqliteTools == {"sqlite.schema", "sqlite.tables", "sqlite.query"}
CTestTools == {"cmake.presets", "ctest.list", "ctest.run"}
Tools == GitTools \cup SqliteTools \cup CTestTools

Asks(tools, rows, statements, runs) ==
  [tool : tools, max_bytes : ByteLimits, rows : rows, sql : statements,
   allow_run : runs]

GitRequests ==
  Asks({"git.status", "git.diff"}, {0}, {Plain}, {FALSE}) \cup
  Asks({"git.log"}, RowLimits, {Plain}, {FALSE})
SqliteRequests ==
  Asks({"sqlite.schema", "sqlite.tables"}, {0}, {Plain}, {FALSE}) \cup
  Asks({"sqlite.query"}, RowLimits, Queries, {FALSE})
CTestRequests ==
  Asks({"cmake.presets", "ctest.list"}, {0}, {Plain}, {FALSE}) \cup
  Asks({"ctest.run"}, {0}, {Plain}, BOOLEAN)
Requests == GitRequests \cup SqliteRequests \cup CTestRequests

\* What a path names, and the presets file in a directory: absent (-1), or its
\* length.
Paths == {"missing", "directory", "file"}
PresetSizes == -1 .. MaxPrinted

VARIABLES presets,   \* the CMakePresets.json in the directory of the request
          pc,        \* "idle", "launch", "reading", "close", "presets", "replied"
          request,   \* the request being handled
          command,   \* bound on the rows the command prints, and whether it fails
          bytes,     \* what the command would print ...
          fate,      \* ... and the status it would end with
          printed,   \* the bytes read from the pipe
          output,    \* result.output
          truncated, \* result.truncated
          broken,    \* whether a read failed
          reply      \* the reply
vars == <<presets, pc, request, command, bytes, fate, printed, output,
          truncated, broken, reply>>

process == <<command, bytes, fate>>
pipe == <<printed, output, truncated, broken>>

\* Mutant of clamp: no lower bound.
clamp_above(n, low, high) == IF n > high THEN high ELSE n

clamp(n, low, high) == IF n < low THEN low ELSE IF n > high THEN high ELSE n
Least(a, b) == IF a < b THEN a ELSE b

-----------------------------------------------------------------------------
(* The checks and the command lines.                                       *)

valid_repo_path(path) == path = "directory"
valid_database(path) == path = "file"
valid_directory(path) == path = "directory"

\* read_only_sql looks at the first word alone; against another statement behind
\* it there is only sqlite3 -readonly.
read_only_sql(sql) == sql.first \in {"select", "explain"}

Unlimited == [rows |-> MaxPrinted, fails |-> FALSE]
Failing == [rows |-> MaxPrinted, fails |-> TRUE]

\* Mutant of with_limit: a statement's own limit is not looked for, the
\* clause is left out.
with_limit_never(sql, max_rows) == Unlimited

\* What sqlite3 does with "LIMIT n" behind the statement: it is refused behind a
\* limit that stands there, and behind a semicolon, where it is a statement of its
\* own and the first has been run; it is of no effect in a comment, limits the
\* last statement only and not the listing of an EXPLAIN.
Appended(sql, max_rows) ==
  CASE sql.tail = "semicolon" -> Failing
    [] sql.tail = "none" /\ sql.limit = "newline" -> Failing
    [] sql.tail = "none" /\ sql.limit # "newline" /\ sql.first = "select" ->
         [rows |-> clamp(max_rows, 1, LargestRows), fails |-> FALSE]
    [] OTHER -> Unlimited

\* with_limit: nothing is appended if the words " LIMIT " are anywhere.
with_limit(sql, max_rows) ==
  IF sql.limit \in {"own", "elsewhere"} THEN Unlimited ELSE Appended(sql, max_rows)

Refused == [rows |-> 0, fails |-> TRUE]

git_status(r, path) == [ok |-> valid_repo_path(path), command |-> Unlimited]
git_log(r, path) ==
  [ok |-> valid_repo_path(path),
   command |-> [rows |-> clamp(r.rows, 1, LargestRows), fails |-> FALSE]]
git_diff(r, path) == [ok |-> valid_repo_path(path), command |-> Unlimited]
sqlite_schema(r, path) == [ok |-> valid_database(path), command |-> Unlimited]
sqlite_tables(r, path) == [ok |-> valid_database(path), command |-> Unlimited]
sqlite_query(r, path) == [ok |-> valid_database(path) /\ read_only_sql(r.sql),
                          command |-> with_limit(r.sql, r.rows)]
ctest_list(r, path) == [ok |-> valid_directory(path), command |-> Unlimited]
ctest_run(r, path) == [ok |-> valid_directory(path) /\ r.allow_run,
                       command |-> Unlimited]
cmake_presets(r, path, file) == [ok |-> valid_directory(path) /\ file >= 0,
                                 command |-> Unlimited]

Handler(r, path, file) ==
  CASE r.tool = "git.status"    -> git_status(r, path)
    [] r.tool = "git.log"       -> git_log(r, path)
    [] r.tool = "git.diff"      -> git_diff(r, path)
    [] r.tool = "sqlite.schema" -> sqlite_schema(r, path)
    [] r.tool = "sqlite.tables" -> sqlite_tables(r, path)
    [] r.tool = "sqlite.query"  -> sqlite_query(r, path)
    [] r.tool = "ctest.list"    -> ctest_list(r, path)
    [] r.tool = "ctest.run"     -> ctest_run(r, path)
    [] OTHER                    -> cmake_presets(r, path, file)

NoReply == [kind |-> "none", output |-> <<>>, truncated |-> FALSE, is_error |-> FALSE]
error_result == [kind |-> "refused", output |-> <<>>, truncated |-> FALSE,
                 is_error |-> TRUE]
make_result(exit_code) == [kind |-> "result", output |-> output,
                           truncated |-> truncated, is_error |-> exit_code # 0]

\* A request: its checks, or the refusal.
Call ==
  /\ pc = "idle"
  /\ \E r \in Requests, path \in Paths, file \in PresetSizes :
       LET h == Handler(r, path, file) IN
       /\ request' = r
       /\ presets' = IF path = "directory" THEN file ELSE -1
       /\ \/ /\ h.ok
             /\ pc' = IF r.tool = "cmake.presets" THEN "presets" ELSE "launch"
             /\ command' = h.command
             /\ UNCHANGED reply
          \/ /\ ~h.ok
             /\ pc' = "replied" /\ reply' = error_result
             /\ UNCHANGED command
  /\ UNCHANGED <<bytes, fate, pipe>>

-----------------------------------------------------------------------------
(* run_command.                                                            *)

\* A wait status holds a signal in its low seven bits or an exit code above.
Exited(code) == 256 * code
SIGPIPE == 13
Fates == {Exited(0), Exited(1), 9}

\* Mutant of decode_exit_code: WEXITSTATUS without WIFEXITED.
decode_exit_code_unchecked(status) == status \div 256

decode_exit_code(status) ==
  IF status % 128 = 0 THEN status \div 256 ELSE status

limit == clamp(request.max_bytes, 1, LargestBytes)

\* popen succeeds.  The command prints and ends as it likes, also because its
\* path has changed since the check.
Launch(tools) ==
  /\ pc = "launch" /\ request.tool \in tools
  /\ pc' = "reading"
  /\ bytes' \in 0 .. command.rows
  /\ fate' \in Fates
  /\ command.fails => fate' # Exited(0)
  /\ UNCHANGED <<presets, request, command, pipe, reply>>

\* popen fails; the output is a message.
LaunchFails(tools) ==
  /\ pc = "launch" /\ request.tool \in tools
  /\ pc' = "replied"
  /\ reply' = [kind |-> "not launched", output |-> <<>>, truncated |-> FALSE,
               is_error |-> TRUE]
  /\ UNCHANGED <<presets, request, process, pipe>>

Remaining == IF Len(output) < limit THEN limit - Len(output) ELSE 0

\* The first bytes of the chunk that fit are kept.
Take(read) ==
  /\ output' = output \o [i \in 1 .. Least(read, Remaining) |-> printed + i]
  /\ printed' = printed + read

\* Mutant of Keep: the limit is applied to each chunk.
Keep_perChunk(read) ==
  /\ output' = output \o [i \in 1 .. Least(read, limit) |-> printed + i]
  /\ printed' = printed + read
  /\ truncated' = (truncated \/ read > limit)

Keep(read) == Take(read) /\ truncated' = (truncated \/ read > Remaining)

\* fread fills the buffer: the loop goes on, also when nothing more is kept.
ReadFull(tools) ==
  /\ pc = "reading" /\ request.tool \in tools
  /\ printed + Chunk <= bytes
  /\ Keep(Chunk)
  /\ UNCHANGED <<presets, pc, request, process, broken, reply>>

\* Mutant of ReadLast: the end of the pipe is noticed only with bytes before it.
ReadLast_notEmpty(tools) ==
  /\ pc = "reading" /\ request.tool \in tools
  /\ printed < bytes /\ printed + Chunk > bytes
  /\ Keep(bytes - printed)
  /\ pc' = "close"
  /\ UNCHANGED <<presets, request, process, broken, reply>>

\* fread returns the rest, possibly nothing, and feof.
ReadLast(tools) ==
  /\ pc = "reading" /\ request.tool \in tools
  /\ printed + Chunk > bytes
  /\ Keep(bytes - printed)
  /\ pc' = "close"
  /\ UNCHANGED <<presets, request, process, broken, reply>>

\* Mutant of ReadFails: truncated is not set.
ReadFails_silent(tools) ==
  /\ pc = "reading" /\ request.tool \in tools
  /\ \E read \in 0 .. Chunk - 1 : printed + read <= bytes /\ Keep(read)
  /\ broken' = TRUE
  /\ pc' = "close"
  /\ UNCHANGED <<presets, request, process, reply>>

\* fread returns less than the buffer holds, and ferror.
ReadFails(tools) ==
  /\ pc = "reading" /\ request.tool \in tools
  /\ \E read \in 0 .. Chunk - 1 : printed + read <= bytes /\ Take(read)
  /\ truncated' = TRUE
  /\ broken' = TRUE
  /\ pc' = "close"
  /\ UNCHANGED <<presets, request, process, reply>>

\* pclose waits for the command; make_result.
Close(tools) ==
  /\ pc = "close" /\ request.tool \in tools
  /\ pc' = "replied"
  /\ reply' = make_result(decode_exit_code(
                IF printed < bytes THEN SIGPIPE ELSE fate))
  /\ UNCHANGED <<presets, request, process, pipe>>

\* The steps that need no error.
Progress(tools) ==
  Launch(tools) \/ ReadFull(tools) \/ ReadLast(tools) \/ Close(tools)

run_command(tools) == Progress(tools) \/ LaunchFails(tools) \/ ReadFails(tools)

\* The three copies.
git_run_command == run_command(GitTools)
sqlite_run_command == run_command(SqliteTools)
ctest_run_command == run_command(CTestTools)

\* read_bounded: a file that can no longer be opened reads as empty.
read_bounded(size, max_bytes) ==
  LET read == Least(size, clamp(max_bytes, 1, LargestBytes)) IN
  IF size < 0 THEN [text |-> <<>>, truncated |-> FALSE]
  ELSE [text |-> [i \in 1 .. read |-> i], truncated |-> size > read]

\* The presets file is read some time after it was found; make_text_result.
ReadPresets ==
  /\ pc = "presets"
  /\ pc' = "replied"
  /\ LET file == read_bounded(presets, request.max_bytes) IN
     /\ reply' = [kind |-> "presets", output |-> file.text,
                  truncated |-> file.truncated, is_error |-> FALSE]
     /\ bytes' = presets
  /\ UNCHANGED <<presets, request, command, fate, pipe>>

-----------------------------------------------------------------------------
\* Another program writes, truncates or removes the presets file.
Disturb ==
  /\ pc = "presets"
  /\ presets' \in PresetSizes
  /\ UNCHANGED <<pc, request, process, pipe, reply>>

NoRequest == [tool |-> "none", max_bytes |-> 0, rows |-> 0, sql |-> Plain,
              allow_run |-> FALSE]

Init ==
  /\ presets = -1 /\ pc = "idle" /\ request = NoRequest
  /\ command = Refused /\ bytes = 0 /\ fate = Exited(0)
  /\ printed = 0 /\ output = <<>> /\ truncated = FALSE /\ broken = FALSE
  /\ reply = NoReply

\* The reply is sent; no state outlives a request.
Return ==
  /\ pc = "replied"
  /\ presets' = -1 /\ pc' = "idle" /\ request' = NoRequest
  /\ command' = Refused /\ bytes' = 0 /\ fate' = Exited(0)
  /\ printed' = 0 /\ output' = <<>> /\ truncated' = FALSE /\ broken' = FALSE
  /\ reply' = NoReply

Next ==
  \/ Call \/ git_run_command \/ sqlite_run_command \/ ctest_run_command
  \/ ReadPresets \/ Disturb \/ Return

\* The server's thread runs, and a command goes on until it ends.
Spec == Init /\ [][Next]_vars /\ WF_vars(Progress(Tools) \/ ReadPresets)
=============================================================================
