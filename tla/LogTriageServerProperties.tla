--------------------- MODULE LogTriageServerProperties ---------------------
(* What logs.digest and logs.find promise of a log that is being written.  *)
EXTENDS LogTriageServer

Digested == pc = "digested" /\ request.opened
Found == pc = "found" /\ request.opened
SevereLines(n) == {i \in 1 .. n : severe(severity_for(log[i]))}
ShownLines == {shown[i].line : i \in DOMAIN shown}

TypeOK ==
  /\ Len(log) \in 1 .. MaxLines
  /\ \A i \in DOMAIN log : Len(log[i]) <= MaxWords /\ ToSet(log[i]) \subseteq Words
  /\ pc \in {"idle", "digest", "digested", "find", "found", "threw"}
  /\ eof \in BOOLEAN /\ truncated \in BOOLEAN
  /\ line_no \in 0 .. Len(log)
  /\ counts \in [Severities -> 0 .. MaxLines]
  /\ \A i \in DOMAIN shown : Len(shown[i].text) <= MaxText
  /\ pc \in {"digest", "digested"} => Len(shown) <= MaxSamples

\* A digest misses no line that had ended when it was called unless it stopped
\* at max_lines, and every line it read is counted once.  Only a line that was
\* open when it was read can be counted with a severity it no longer has
\* (digest_log while the log is written).
DigestIsOfTheFirstLines ==
  Digested =>
    LET ended == IF eof THEN line_no - 1 ELSE line_no
        of(s) == Cardinality({i \in 1 .. ended : severity_for(log[i]) = s})
    IN /\ line_no >= request.limit \/ line_no >= request.ended
       /\ \A s \in Severities : counts[s] - of(s) \in IF eof THEN {0, 1} ELSE {0}
       /\ counts["fatal"] + counts["error"] + counts["warning"] + counts["info"]
            + counts["debug"] + counts["unknown"] = line_no

\* The samples of a digest are the first severe lines, in order, each under its
\* own number and with the words the log has there (digest_log).
SamplesAreTheFirstSevere ==
  (Digested /\ ~eof) =>
    /\ \A i \in DOMAIN shown : IsPrefix(shown[i].text, log[shown[i].line])
    /\ \A i, j \in DOMAIN shown : i < j => shown[i].line < shown[j].line
    /\ ShownLines \subseteq SevereLines(line_no)
    /\ \A i \in SevereLines(line_no) \ ShownLines :
         Len(shown) = MaxSamples /\ \A j \in ShownLines : j < i

\* The reply of find holds every matching line that had ended at the call,
\* unless it is marked truncated; it is marked exactly at the limit, though
\* nothing may follow (find_log while the log is written).
MatchesAreComplete ==
  Found =>
    LET matching == {i \in 1 .. Len(log) : request.pattern \in ToSet(log[i])} IN
    /\ ShownLines \subseteq matching
    /\ truncated <=> Len(shown) = request.limit
    /\ \A i \in matching \ ShownLines :
         i > IF truncated THEN line_no ELSE request.ended

\* A digest that is to end: max_lines bounds it however fast the log grows
\* (digest_log).
Busy == pc = "digest"
Served == pc = "digested"
=============================================================================
