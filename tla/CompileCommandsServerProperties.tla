------------------ MODULE CompileCommandsServerProperties ------------------
(* What compile_commands.summary and compile_commands.find promise.        *)
EXTENDS CompileCommandsServer

Answered(tool) == reply # NoReply /\ reply.ok /\ reply.tool = tool
\* The entries at the places of a set, in the order of the database.
Chosen(places) == Picked(file.database.entries, places)
Objects == {i \in DOMAIN file.database.entries : IsObject(file.database.entries[i])}

TypeOK ==
  /\ file.kind \in FileKinds
  /\ Len(file.database.entries) <= MaxEntries
  /\ ToSet(file.database.entries) \subseteq Entries
  /\ reply # NoReply =>
       reply.tool \in {"compile_commands.summary", "compile_commands.find"}
  /\ Answered("compile_commands.summary") => Len(reply.sample) <= reply.limit
  /\ Answered("compile_commands.find") => Len(reply.matches) <= reply.limit

\* An answer is about the whole database: a database that the input limit cuts
\* is refused, so the limit never makes an answer incomplete; what inputTruncated
\* reports is white space, or other text that makes the file no database, which
\* is never hidden without it (read_bounded, Json::parse).
AnswersAreWhole ==
  (reply # NoReply /\ reply.ok) =>
    /\ file.database.root = "array" /\ file.kind = "file"
    /\ reply.inputTruncated => file.size > DatabaseBytes(file.database)
    /\ file.size > file.end => reply.inputTruncated
    /\ reply.tool = "compile_commands.summary" =>
         reply.entries = Len(file.database.entries)

\* The directories are counted over all entries, also those the sample leaves
\* out, and the sample is the first ones (compile_commands_summary).
CountsAreNotSampled ==
  Answered("compile_commands.summary") =>
    /\ \A d \in Directories :
         reply.directories[d]
           = Cardinality({i \in Objects : file.database.entries[i].directory = d})
    /\ reply.sample = SubSeq(Chosen(Objects), 1, Min({reply.limit, Cardinality(Objects)}))

\* find has no flag for its limit: a client may take fewer matches than the
\* limit to be all of them, and exactly the limit to be the first ones
\* (compile_commands_find).
ShortAnswersAreComplete ==
  Answered("compile_commands.find") =>
    LET all == Chosen({i \in Objects :
                         Matches(file.database.entries[i], reply.fileContains)})
    IN /\ IsPrefix(reply.matches, all)
       /\ Len(reply.matches) < reply.limit => reply.matches = all
=============================================================================
