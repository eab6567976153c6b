----------------------- MODULE CompileCommandsServer -----------------------
(***************************************************************************)
(* examples/servers/compile_commands_server.cpp: compile_commands.summary  *)
(* and compile_commands.find of a compilation database that a build has    *)
(* written.  A database is its root and the sequence of its entries, an    *)
(* entry NotAnObject or a record; a member that is missing or no string    *)
(* reads as "".  Each entry takes one byte, as does the end of the array;  *)
(* behind it may be white space and other text.                            *)
(***************************************************************************)
EXTENDS FileText

CONSTANTS Sources,       \* the values of "file"
          Directories,   \* the values of "directory"
          MaxEntries,    \* bound on the entries of a database
          MaxSpace,      \* bound on the white space and on the text behind it
          ByteLimits,    \* the values of max_bytes
          SampleLimits,  \* the values of sample
          ResultLimits,  \* the values of max_results
          LargestBytes,  \* the largest byte limit (64 * 1024 * 1024)
          LargestSample, \* the largest sample (100)
          LargestResult  \* the largest number of results (1000)

VARIABLES file,  \* what the path names, the database, where it and its white
                 \* space end, and the size
          reply  \* the call being handled and its reply
vars == <<file, reply>>

NotAnObject == [file |-> "", directory |-> "", object |-> FALSE]
Entries == {NotAnObject} \cup
  [file : Sources \cup {""}, directory : Directories \cup {""}, object : {TRUE}]
Malformed == [root |-> "malformed", entries |-> <<>>]
Databases == {Malformed, [root |-> "object", entries |-> <<>>]} \cup
  [root : {"array"}, entries : BoundedSeq(Entries, MaxEntries)]

\* Mutant of IsArray: whatever parses is taken for an array.
IsArray_any(database) == database.root # "malformed"

IsArray(database) == database.root = "array"
DatabaseBytes(database) == Len(database.entries) + 1

read_bounded(max_bytes) ==
  ReadBounded([kind |-> file.kind, bytes |-> [i \in 1 .. file.size |-> i]],
              max_bytes, LargestBytes)

\* Json::parse: an array or an object that is cut or followed by other text than
\* white space is malformed.
Parse(text) ==
  IF Len(text) \in DatabaseBytes(file.database) .. file.end THEN file.database
  ELSE Malformed

NoReply == [tool |-> "none"]
error_result(tool) == [tool |-> tool, ok |-> FALSE]
IsObject(item) == item.object

\* The directory "" is not counted: no entry of directories is of that name.
Counted(directories, item) ==
  [d \in Directories |-> directories[d] + IF d = item.directory THEN 1 ELSE 0]

\* Mutant of Tally: the sample ends the loop.
Tally_stops(s, item, sample) ==
  IF Len(s.sample) >= sample \/ ~IsObject(item) THEN s
  ELSE [directories |-> Counted(s.directories, item), sample |-> Append(s.sample, item)]

\* One turn of the loop of compile_commands_summary.
Tally(s, item, sample) ==
  IF ~IsObject(item) THEN s
  ELSE [directories |-> Counted(s.directories, item),
        sample |-> IF Len(s.sample) < sample THEN Append(s.sample, item) ELSE s.sample]

\* The loop after each entry.
TallyScan(entries, sample) ==
  LET scan[i \in 0 .. Len(entries)] ==
        IF i = 0 THEN [directories |-> [d \in Directories |-> 0], sample |-> <<>>]
        ELSE Tally(scan[i - 1], entries[i], sample)
  IN scan

compile_commands_summary ==
  /\ reply = NoReply
  /\ \E max_bytes \in ByteLimits, sample \in SampleLimits :
       LET read == read_bounded(max_bytes)
           parsed == Parse(read.text)
           limit == clamp(sample, 0, LargestSample)
           tally == TallyScan(parsed.entries, limit)[Len(parsed.entries)]
       IN reply' =
            IF read.error # "" \/ ~IsArray(parsed)
            THEN error_result("compile_commands.summary")
            ELSE [tool |-> "compile_commands.summary", ok |-> TRUE, limit |-> limit,
                  entries |-> Len(parsed.entries), directories |-> tally.directories,
                  sample |-> tally.sample, inputTruncated |-> read.truncated]
  /\ UNCHANGED file

\* file_contains: "" or a source; a path contains itself only.
Matches(item, file_contains) ==
  IsObject(item) /\ file_contains \in {"", item.file}

\* Mutant of Collect: nothing ends the loop.
Collect_all(s, item, file_contains, max_results) ==
  IF ~Matches(item, file_contains) THEN s
  ELSE [s EXCEPT !.matches = Append(@, item)]

\* Mutant of Collect: the bound is tested before the match is kept.
Collect_early(s, item, file_contains, max_results) ==
  IF s.done \/ ~Matches(item, file_contains) THEN s
  ELSE IF Len(s.matches) + 1 >= max_results THEN [s EXCEPT !.done = TRUE]
  ELSE [s EXCEPT !.matches = Append(@, item)]

\* One turn of the loop of compile_commands_find; it leaves at the limit.
Collect(s, item, file_contains, max_results) ==
  IF s.done \/ ~Matches(item, file_contains) THEN s
  ELSE [matches |-> Append(s.matches, item),
        done |-> Len(s.matches) + 1 >= max_results]

\* The loop after each entry.
CollectScan(entries, file_contains, max_results) ==
  LET scan[i \in 0 .. Len(entries)] ==
        IF i = 0 THEN [matches |-> <<>>, done |-> FALSE]
        ELSE Collect(scan[i - 1], entries[i], file_contains, max_results)
  IN scan

compile_commands_find ==
  /\ reply = NoReply
  /\ \E max_bytes \in ByteLimits, max_results \in ResultLimits,
        file_contains \in Sources \cup {""} :
       LET read == read_bounded(max_bytes)
           parsed == Parse(read.text)
           limit == clamp(max_results, 1, LargestResult)
           found == CollectScan(parsed.entries, file_contains, limit)[Len(parsed.entries)]
       IN reply' =
            IF read.error # "" \/ ~IsArray(parsed)
            THEN error_result("compile_commands.find")
            ELSE [tool |-> "compile_commands.find", ok |-> TRUE, limit |-> limit,
                  fileContains |-> file_contains, matches |-> found.matches,
                  inputTruncated |-> read.truncated]
  /\ UNCHANGED file

\* No state outlives a call.
Return ==
  /\ reply # NoReply
  /\ reply' = NoReply
  /\ UNCHANGED file

Init ==
  /\ \E kind \in FileKinds, database \in Databases, space, text \in 0 .. MaxSpace :
       file = [kind |-> kind, database |-> database,
               end |-> DatabaseBytes(database) + space,
               size |-> DatabaseBytes(database) + space + text]
  /\ reply = NoReply

Next == compile_commands_summary \/ compile_commands_find \/ Return
Spec == Init /\ [][Next]_vars
=============================================================================
