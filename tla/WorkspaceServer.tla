-------------------------- MODULE WorkspaceServer --------------------------
(***************************************************************************)
(* examples/servers/workspace_server.cpp: workspace.scan, workspace.search *)
(* and workspace.read_file over a directory tree that other programs       *)
(* change between any two looks of the walk.  A path is a sequence of      *)
(* names below the root.  An entry of the tree is a file, a directory or a *)
(* link to one of them; Tree says what it holds when a call begins.        *)
(***************************************************************************)
EXTENDS Integers, Sequences, SequencesExt, FiniteSetsExt, TLC

CONSTANTS Tree,          \* what each path is when it exists
          Rel,           \* what a link leads to, and any other path itself
          DotNames,      \* the names that start with "."
          FileLimits,    \* the values of max_files
          MatchLimits,   \* the values of max_matches
          ByteLimits,    \* the values of max_bytes
          LargestLimit,  \* the largest of each (100000, 1000, 1024 * 1024)
          MaxFileBytes,  \* max_file_bytes of a search
          MaxExtensions, \* the extensions listed (20)
          MaxSize,       \* bound on the lines and the bytes of a changed file
          MaxChanges     \* bound on the changes made to the tree

VARIABLES alive,   \* the paths that exist
          changes, \* the number of changes
          pc,      \* "idle", "scan", "search" or "done"
          request, \* the call, its limit and what its root is
          stack,   \* the recursive_directory_iterator: entries left, by depth
          pending, \* the directory the next increment opens, or NoPath
          at,      \* the entry being handled and what is asked of it next
          result,  \* the result being built
          since,   \* paths that have been there, unchanged, since the call (history)
          ever     \* paths that have existed since the call, or for a while
vars == <<alive, changes, pc, request, stack, pending, at, result, since, ever>>

tree == <<alive, changes, since, ever>>

clamp(n, low, high) == IF n < low THEN low ELSE IF n > high THEN high ELSE n

NoPath == <<"none">>
Paths == DOMAIN Tree
Extensions == {Tree[p].extension : p \in Paths}
Children(p) == {q \in alive : Len(q) = Len(p) + 1 /\ IsPrefix(p, q)}

\* Mutant of There: a link is taken for what it once led to.
There_unfollowed(p) == p \in alive
\* A link to what is gone is no file, no directory, and relative to itself.
There(p) == p \in alive /\ Rel[p] \in alive
relative_to(p) == IF There(p) THEN Rel[p] ELSE p

hidden_path(rel) == ToSet(rel) \cap DotNames # {}
Hidden(rel) == ~request.include_hidden /\ hidden_path(rel)

\* What is_directory and is_regular_file say of an entry that was listed: the
\* listing itself may answer for a file or a directory that has vanished.
Answers(p) ==
  IF There(p) THEN {Tree[p].kind}
  ELSE {"gone"} \cup ({Tree[p].kind} \cap {"file", "directory"})

\* Whether the next increment opens the entry.  Links are not followed.
Pendings(p, kind) ==
  CASE kind = "directory" -> {p}
    [] kind = "gone" /\ Tree[p].kind = "directory" -> {p, NoPath}
    [] OTHER -> {NoPath}

\* What file_size says of a file, -1 for an error; whether it can be opened; the
\* lines of it that match.  A file that has changed may hold anything.
Sizes(p) ==
  (IF There(p) THEN {} ELSE {-1})
    \cup (IF Rel[p] \in since THEN {Tree[Rel[p]].size} ELSE 0 .. MaxSize)
Opens(p) == IF ~There(p) THEN {FALSE}
            ELSE IF Rel[p] \in since THEN {Tree[Rel[p]].readable} ELSE BOOLEAN
Ascending(s) == \A i, j \in DOMAIN s : i < j => s[i] < s[j]
Contents(p) ==
  IF Rel[p] \in since THEN {Tree[Rel[p]].hits}
  ELSE {s \in UNION {[1 .. n -> 1 .. MaxSize] : n \in 0 .. MaxSize} : Ascending(s)}

NoRequest == [tool |-> "none", limit |-> 0, include_hidden |-> FALSE, root |-> "open"]
NoEntry == [step |-> "none", path |-> NoPath, rel |-> NoPath]
NoResult == [truncated |-> FALSE, warned |-> FALSE, thrown |-> FALSE,
             files |-> 0, directories |-> 0, bytes |-> 0,
             extensions |-> [e \in Extensions |-> <<0, 0>>],
             listed |-> {}, found |-> {}, matches |-> <<>>]

-----------------------------------------------------------------------------
(* The walk that scan and search share.                                    *)

\* A root can be opened; or be looked at only; or not even that, for a directory
\* above it; or it is no directory.
Roots == {"open", "denied", "unreachable", "absent"}

\* The iterator is built.  A root that may not be opened is an empty walk, and
\* only one that is no directory is warned of.
Begin(tool, limit, include_hidden, root, throws) ==
  /\ pc = "idle"
  /\ request' = [tool |-> tool, limit |-> limit, include_hidden |-> include_hidden,
                 root |-> root]
  /\ pc' = IF throws THEN "done" ELSE tool
  /\ stack' = IF root = "open" THEN <<Children(<<>>)>> ELSE <<>>
  /\ result' = [NoResult EXCEPT !.warned = ~throws /\ root = "absent",
                                !.thrown = throws]
  /\ since' = alive /\ ever' = alive
  /\ UNCHANGED <<alive, changes, pending, at>>

Walking == pc \in {"scan", "search"} /\ stack # <<>> /\ at = NoEntry

\* Mutant of Descend: an error ends the walk and is not reported.
Descend_silent ==
  /\ Walking /\ pending # NoPath
  /\ stack' = CASE pending \notin alive -> <<>>
                [] pending \in alive /\ Tree[pending].readable ->
                     Append(stack, Children(pending))
                [] OTHER -> stack
  /\ pending' = NoPath
  /\ UNCHANGED <<tree, pc, request, at, result>>

\* it.increment(ec) opens the directory just visited.  If it has vanished the
\* error ends the loop; if it may not be opened it is passed over without a word
\* (skip_permission_denied).
Descend ==
  /\ Walking /\ pending # NoPath
  /\ \/ /\ pending \in alive /\ Tree[pending].readable
        /\ stack' = Append(stack, Children(pending)) /\ UNCHANGED result
     \/ /\ pending \in alive /\ ~Tree[pending].readable
        /\ UNCHANGED <<stack, result>>
     \/ /\ pending \notin alive
        /\ stack' = <<>> /\ result' = [result EXCEPT !.warned = TRUE]
  /\ pending' = NoPath
  /\ UNCHANGED <<tree, pc, request, at>>

\* Mutant of Ascend: a directory that is exhausted is not left.
Ascend_stays ==
  /\ Walking /\ pending = NoPath /\ Last(stack) = {}
  /\ UNCHANGED vars

Ascend ==
  /\ Walking /\ pending = NoPath /\ Last(stack) = {}
  /\ stack' = Front(stack)
  /\ UNCHANGED <<tree, pc, request, pending, at, result>>

\* The next entry, and its path relative to the root.
Take(p) ==
  /\ Walking /\ pending = NoPath /\ p \in Last(stack)
  /\ stack' = Append(Front(stack), Last(stack) \ {p})
  /\ at' = [step |-> "kind", path |-> p, rel |-> relative_to(p)]
  /\ UNCHANGED <<tree, pc, request, pending, result>>

\* The question `step` about the entry is answered.
Asked(tool, step) == pc = tool /\ at.step = step
Leave == at' = NoEntry
Ask(step) == at' = [at EXCEPT !.step = step]

\* A hidden entry is passed over, and a directory is not entered.
Skip ==
  /\ at.step = "kind" /\ Hidden(at.rel)
  /\ \E kind \in Answers(at.path) :
       pending' \in IF kind = "directory" THEN {NoPath} ELSE Pendings(at.path, kind)
  /\ Leave
  /\ UNCHANGED <<tree, pc, request, stack, result>>

-----------------------------------------------------------------------------
(* workspace.scan                                                          *)

\* fs::exists throws when it may not look at the root.
scan_workspace ==
  \E max_files \in FileLimits, include_hidden \in BOOLEAN, root \in Roots :
    Begin("scan", clamp(max_files, 1, LargestLimit), include_hidden, root,
          root = "unreachable")

AtMax == result.files >= request.limit

\* is_directory answers for a directory, is_regular_file for a file.
ScanKind ==
  /\ Asked("scan", "kind") /\ ~Hidden(at.rel)
  /\ \E kind \in Answers(at.path) :
       \/ /\ kind \in {"directory", "directory_link"}
          /\ result' = [result EXCEPT !.directories = @ + 1]
          /\ pending' \in Pendings(at.path, kind) /\ Leave /\ UNCHANGED pc
       \/ /\ kind \in {"file", "file_link"} /\ AtMax
          /\ result' = [result EXCEPT !.truncated = TRUE]
          /\ pc' = "done" /\ Leave /\ UNCHANGED pending
       \/ /\ kind \in {"file", "file_link"} /\ ~AtMax
          /\ result' = [result EXCEPT !.files = @ + 1, !.found = @ \cup {at.path}]
          /\ Ask("size") /\ UNCHANGED <<pc, pending>>
       \/ /\ kind = "gone"
          /\ pending' \in Pendings(at.path, kind) /\ Leave /\ UNCHANGED <<pc, result>>
  /\ UNCHANGED <<tree, request, stack>>

\* Mutant of Counted: the size is added without a look at the error.
Counted_unchecked(p, size) ==
  LET e == Tree[p].extension IN
  [result EXCEPT !.bytes = @ + size, !.extensions[e] = <<@[1] + 1, @[2] + size>>]

\* A file whose size cannot be had (-1) counts without its bytes.
Counted(p, size) ==
  LET e == Tree[p].extension
      known == IF size = -1 THEN 0 ELSE size
  IN [result EXCEPT !.bytes = @ + known, !.extensions[e] = <<@[1] + 1, @[2] + known>>]

ScanSize ==
  /\ Asked("scan", "size")
  /\ \E size \in Sizes(at.path) : result' = Counted(at.path, size)
  /\ Leave
  /\ UNCHANGED <<tree, pc, request, stack, pending>>

\* The extensions with the most bytes are listed.
ScanEnd ==
  /\ pc = "scan" /\ stack = <<>>
  /\ \E listed \in SUBSET {e \in Extensions : result.extensions[e][1] > 0} :
       /\ Cardinality(listed) = Min({MaxExtensions,
            Cardinality({e \in Extensions : result.extensions[e][1] > 0})})
       /\ \A e \in listed, f \in Extensions \ listed :
            result.extensions[e][2] >= result.extensions[f][2]
       /\ result' = [result EXCEPT !.listed = listed]
  /\ pc' = "done"
  /\ UNCHANGED <<tree, request, stack, pending, at>>

-----------------------------------------------------------------------------
(* workspace.search                                                        *)

\* A pattern that is no regular expression throws before the walk.
search_workspace ==
  \E max_matches \in MatchLimits, include_hidden \in BOOLEAN, root \in Roots,
     throws \in BOOLEAN :
    Begin("search", clamp(max_matches, 1, LargestLimit), include_hidden, root, throws)

SearchKind ==
  /\ Asked("search", "kind") /\ ~Hidden(at.rel)
  /\ \E kind \in Answers(at.path) :
       \/ kind \in {"file", "file_link"} /\ Ask("size") /\ UNCHANGED pending
       \/ /\ kind \notin {"file", "file_link"}
          /\ pending' \in Pendings(at.path, kind) /\ Leave
  /\ UNCHANGED <<tree, pc, request, stack, result>>

\* Mutant of Small: the size of a file does not matter.
Small_any(size) == size # -1
\* An error is the largest number there is.
Small(size) == size \in 0 .. MaxFileBytes

\* A file that is too large or cannot be opened is passed over without a word.
SearchSize ==
  /\ Asked("search", "size")
  /\ \E size \in Sizes(at.path) : IF Small(size) THEN Ask("open") ELSE Leave
  /\ UNCHANGED <<tree, pc, request, stack, pending, result>>

SearchOpen ==
  /\ Asked("search", "open")
  /\ \E opens \in Opens(at.path) : IF opens THEN Ask("read") ELSE Leave
  /\ UNCHANGED <<tree, pc, request, stack, pending, result>>

\* The matching lines as they are reported, up to the limit.
Hits(lines) ==
  SubSeq([i \in DOMAIN lines |-> [path |-> at.rel, line |-> lines[i]]],
         1, Min({Len(lines), request.limit - Len(result.matches)}))

\* All lines are read, of a file that may have grown since it was measured.
SearchRead ==
  /\ Asked("search", "read")
  /\ \E lines \in Contents(at.path) :
       LET matches == result.matches \o Hits(lines)
           full == Len(matches) >= request.limit
       IN /\ result' = [result EXCEPT !.matches = matches, !.truncated = full]
          /\ pc' = IF full THEN "done" ELSE pc
  /\ Leave
  /\ UNCHANGED <<tree, request, stack, pending>>

SearchEnd ==
  /\ pc = "search" /\ stack = <<>>
  /\ pc' = "done"
  /\ UNCHANGED <<tree, request, stack, pending, at, result>>

-----------------------------------------------------------------------------
(* workspace.read_file                                                     *)

\* What cannot be read has an empty text, and no flag says so.
read_file ==
  /\ pc = "idle"
  /\ \E max_bytes \in ByteLimits, p \in Paths :
       LET limit == clamp(max_bytes, 1, LargestLimit)
           bytes == IF There(p) /\ Tree[Rel[p]].kind = "file" /\ Tree[Rel[p]].readable
                    THEN Tree[Rel[p]].size ELSE 0
       IN /\ request' = [NoRequest EXCEPT !.tool = "read_file", !.limit = limit]
          /\ result' = [NoResult EXCEPT !.bytes = Min({limit, bytes}),
                                        !.truncated = bytes > limit]
  /\ pc' = "done"
  /\ since' = alive /\ ever' = alive
  /\ UNCHANGED <<alive, changes, stack, pending, at>>

-----------------------------------------------------------------------------
\* No state outlives a call.
Return ==
  /\ pc = "done"
  /\ pc' = "idle" /\ request' = NoRequest /\ result' = NoResult
  /\ stack' = <<>> /\ pending' = NoPath /\ Leave
  /\ since' = {} /\ ever' = {}
  /\ UNCHANGED <<alive, changes>>

\* Another program removes what is at a path, puts it there or, while a call
\* goes on, writes to a file.
Change ==
  /\ changes < MaxChanges
  /\ changes' = changes + 1
  /\ \E p \in Paths :
       \/ /\ p \in alive
          /\ alive' = {q \in alive : ~IsPrefix(p, q)}
          /\ since' = since \cap alive' /\ UNCHANGED ever
       \/ /\ p \notin alive /\ (Len(p) = 1 \/ Front(p) \in alive)
          /\ alive' = alive \cup {p}
          /\ ever' = (IF pc = "idle" THEN {} ELSE ever \cup {p}) /\ UNCHANGED since
       \/ /\ p \in since /\ Tree[p].kind = "file"
          /\ since' = since \ {p} /\ UNCHANGED <<alive, ever>>
  /\ UNCHANGED <<pc, request, stack, pending, at, result>>

Init ==
  /\ alive = Paths /\ changes = 0
  /\ pc = "idle" /\ request = NoRequest /\ result = NoResult
  /\ stack = <<>> /\ pending = NoPath /\ at = NoEntry
  /\ since = {} /\ ever = {}

Walk == Descend \/ Ascend \/ (\E p \in Paths : Take(p)) \/ Skip
        \/ ScanKind \/ ScanSize \/ ScanEnd
        \/ SearchKind \/ SearchSize \/ SearchOpen \/ SearchRead \/ SearchEnd
Next == scan_workspace \/ search_workspace \/ read_file \/ Walk \/ Return \/ Change
Spec == Init /\ [][Next]_vars /\ WF_vars(Walk)
=============================================================================
