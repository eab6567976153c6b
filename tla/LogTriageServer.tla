-------------------------- MODULE LogTriageServer --------------------------
(***************************************************************************)
(* examples/servers/log_triage_server.cpp: logs.digest and logs.find of a  *)
(* log that a program keeps writing while its lines are read.  A line is a *)
(* sequence of words, a word a whole of the letters that severity_for or a *)
(* pattern looks for.  The last line of the log is open: its end is not    *)
(* written yet.                                                            *)
(***************************************************************************)
EXTENDS Integers, Sequences, SequencesExt, FiniteSetsExt, TLC

CONSTANTS Words,          \* what is written to the log
          Patterns,       \* the patterns: a word, or "(", no expression
          MaxLines,       \* bound on the lines of the log
          MaxWords,       \* bound on the words of a line
          LineLimits,     \* the values of max_lines
          MatchLimits,    \* the values of max_matches
          LargestLines,   \* the largest max_lines (500000)
          LargestMatches, \* the largest max_matches (2000)
          MaxSamples,     \* the samples of a digest (20)
          MaxText         \* the words of a sample or match (260 bytes)

VARIABLES log,      \* the lines of the log, the last one open
          pc,       \* "idle", "digest", "find"; "digested", "found",
          \* "threw": replied
          request,  \* the arguments, clamped; and the log at the call (history)
          eof,      \* eofbit of the stream: the open line was read
          line_no,  \* scanned_lines, line_no
          counts,   \* counts: the lines of each severity
          shown,    \* samples, matches
          truncated \* truncated of find
vars == <<log, pc, request, eof, line_no, counts, shown, truncated>>

clamp(n, low, high) == IF n < low THEN low ELSE IF n > high THEN high ELSE n

Severities == {"fatal", "error", "warning", "info", "debug", "unknown"}

\* The word that decides is the most severe, wherever it stands in the line.
\* EXCEPTION and TRACE are as ERROR and DEBUG.
severity_for(line) ==
  LET has(word) == word \in ToSet(line) IN
  IF has("FATAL") THEN "fatal"
  ELSE IF has("ERROR") THEN "error"
  ELSE IF has("WARN") THEN "warning"
  ELSE IF has("INFO") THEN "info"
  ELSE IF has("DEBUG") THEN "debug"
  ELSE "unknown"

severe(severity) == severity \in {"fatal", "error", "warning"}

\* Mutant of Show: the line is not cut.
Show_whole(line) == [line |-> line_no + 1, text |-> line]

Show(line) ==
  [line |-> line_no + 1, text |-> SubSeq(line, 1, Min({MaxText, Len(line)}))]
Unopened == <<[line |-> 0, text |-> <<"unable_to_open">>]>>
NoRequest == [limit |-> 0, pattern |-> "", opened |-> FALSE, ended |-> 0]
Ended == Len(log) - 1    \* the number of lines that have ended

\* Mutant of More: the stream is cleared at the end and read on.
More_cleared == line_no < Ended \/ (line_no = Ended /\ log[line_no + 1] # <<>>)

\* std::getline succeeds: there is a line that has ended, or a part of one.
More == ~eof /\ (line_no < Ended \/ log[line_no + 1] # <<>>)

Call(next, limit, pattern, opened) ==
  /\ pc = "idle"
  /\ pc' = next
  /\ request' = [limit |-> limit, pattern |-> pattern, opened |-> opened,
                 ended |-> Ended]
  /\ shown' = IF opened THEN <<>> ELSE Unopened
  /\ eof' = FALSE /\ line_no' = 0 /\ truncated' = FALSE
  /\ counts' = [s \in Severities |-> 0]
  /\ UNCHANGED log

\* Whether the log can be opened is up to the path.
digest_log ==
  \E max_lines \in LineLimits, opened \in BOOLEAN :
    Call(IF opened THEN "digest" ELSE "digested",
         clamp(max_lines, 1, LargestLines), "", opened)

\* A pattern that is no regular expression throws, after the log is opened.
find_log ==
  \E max_matches \in MatchLimits, pattern \in Patterns, opened \in BOOLEAN :
    Call(IF ~opened THEN "found" ELSE IF pattern = "(" THEN "threw" ELSE "find",
         clamp(max_matches, 1, LargestMatches), pattern, opened)

\* Mutant of Sampled: the last lines are kept.
Sampled_last(line) ==
  IF ~severe(severity_for(line)) THEN shown
  ELSE IF Len(shown) < MaxSamples THEN Append(shown, Show(line))
  ELSE Append(Tail(shown), Show(line))

Sampled(line) ==
  IF severe(severity_for(line)) /\ Len(shown) < MaxSamples
  THEN Append(shown, Show(line)) ELSE shown

DigestLine ==
  /\ pc = "digest" /\ line_no < request.limit /\ More
  /\ LET line == log[line_no + 1] IN
       /\ counts' = [counts EXCEPT ![severity_for(line)] = @ + 1]
       /\ shown' = Sampled(line)
  /\ eof' = (line_no = Ended)
  /\ line_no' = line_no + 1
  /\ UNCHANGED <<log, pc, request, truncated>>

\* Mutant of DigestEnd: below the limit the log is read again for more lines.
DigestEnd_again ==
  /\ pc = "digest" /\ (line_no >= request.limit \/ ~More)
  /\ pc' = IF line_no >= request.limit THEN "digested" ELSE pc
  /\ eof' = FALSE /\ line_no' = 0 /\ counts' = [s \in Severities |-> 0]
  /\ shown' = <<>>
  /\ UNCHANGED <<log, request, truncated>>

DigestEnd ==
  /\ pc = "digest" /\ (line_no >= request.limit \/ ~More)
  /\ pc' = "digested"
  /\ UNCHANGED <<log, request, eof, line_no, counts, shown, truncated>>

\* Mutant of AtLimit: one match too many.
AtLimit_over(matches) == Len(matches) > request.limit

AtLimit(matches) == Len(matches) >= request.limit

FindLine ==
  /\ pc = "find" /\ More
  /\ LET line == log[line_no + 1]
         found == request.pattern \in ToSet(line)
     IN /\ shown' = IF found THEN Append(shown, Show(line)) ELSE shown
        /\ truncated' = (found /\ AtLimit(shown'))
        /\ pc' = IF truncated' THEN "found" ELSE pc
  /\ eof' = (line_no = Ended)
  /\ line_no' = line_no + 1
  /\ UNCHANGED <<log, request, counts>>

FindEnd ==
  /\ pc = "find" /\ ~More
  /\ pc' = "found"
  /\ UNCHANGED <<log, request, eof, line_no, counts, shown, truncated>>

\* No state outlives a call.
Return ==
  /\ pc \in {"digested", "found", "threw"}
  /\ pc' = "idle"
  /\ request' = NoRequest
  /\ eof' = FALSE /\ line_no' = 0 /\ shown' = <<>> /\ truncated' = FALSE
  /\ counts' = [s \in Severities |-> 0]
  /\ UNCHANGED log

\* The program writes a word, or the end of the line.
Write ==
  /\ \/ \E word \in Words :
          /\ Len(Last(log)) < MaxWords
          /\ log' = [log EXCEPT ![Len(log)] = Append(@, word)]
     \/ /\ Len(log) < MaxLines
        /\ log' = Append(log, <<>>)
  /\ UNCHANGED <<pc, request, eof, line_no, counts, shown, truncated>>

Init ==
  /\ log = <<<<>>>> /\ pc = "idle" /\ request = NoRequest
  /\ eof = FALSE /\ line_no = 0 /\ shown = <<>> /\ truncated = FALSE
  /\ counts = [s \in Severities |-> 0]

Next == \/ digest_log \/ DigestLine \/ DigestEnd
        \/ find_log \/ FindLine \/ FindEnd
        \/ Return \/ Write
Spec == Init /\ [][Next]_vars /\ WF_vars(DigestLine \/ DigestEnd)
=============================================================================
