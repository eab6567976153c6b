--------------------- MODULE WorkspaceServerProperties ---------------------
(* What the walks over a changing workspace promise.                       *)
EXTENDS WorkspaceServer

Done(tool) == pc = "done" /\ request.tool = tool

\* A reply without a flag about a root that the walk may open.
Complete == /\ request.root = "open"
            /\ ~result.truncated /\ ~result.warned /\ ~result.thrown

\* It was there all the time, and so was what it leads to.
Kept(p) == {p, Rel[p]} \subseteq since

\* The relative paths an entry can have: a link has its own while it leads to
\* nothing.
Names(p) == {Rel[p]} \cup (IF Kept(p) THEN {} ELSE {p})
ShownAs(p) == {rel \in Names(p) : ~Hidden(rel)}

\* A walk lists no directory that it may not open.
Reached(p) == \A n \in 1 .. Len(p) - 1 : Tree[SubSeq(p, 1, n)].readable
IsFile(p) == Tree[p].kind \in {"file", "file_link"}

\* The files a walk may show.
VisibleOf(paths) ==
  {p \in paths : IsFile(p) /\ Rel[p] \in paths /\ Reached(p) /\ ShownAs(p) # {}}

\* Those it is meant to show: neither they nor a directory above them is hidden.
\* A hidden directory is entered all the same if it is gone when the walk asks
\* what it is and back when the walk goes on; a link below it to what is not
\* hidden is then visible.
WantedOf(paths) ==
  {p \in paths : /\ IsFile(p) /\ Rel[p] \in paths /\ Reached(p) /\ ~Hidden(Rel[p])
                 /\ \A n \in 1 .. Len(p) - 1 : ~Hidden(SubSeq(p, 1, n))}

TypeOK ==
  /\ alive \subseteq Paths /\ since \subseteq alive /\ changes \in 0 .. MaxChanges
  /\ pc \in {"idle", "scan", "search", "done"}
  /\ request.tool \in {"none", "scan", "search", "read_file"}
  /\ \A i \in DOMAIN stack : stack[i] \subseteq Paths
  /\ pending \in Paths \cup {NoPath} /\ at.path \in Paths \cup {NoPath}
  /\ at.step \in {"none", "kind", "size", "open", "read"}
  /\ result.bytes >= 0
  /\ Len(result.matches) <= LargestLimit
  /\ result.files <= Cardinality(Paths)

\* A scan without a flag has counted every file that it is meant to show and
\* that was there all the time, and no file that was never there; a truncated
\* one left a file out that it met (scan_workspace while the tree changes).
ScanIsComplete ==
  Done("scan") =>
    /\ result.found \subseteq VisibleOf(ever)
    /\ Cardinality(result.found) = result.files
    /\ Complete => WantedOf(since) \subseteq result.found
    /\ result.truncated => /\ result.files = request.limit
                           /\ VisibleOf(ever) \ result.found # {}

\* The bytes of files of these sizes: each byte of each path once.
Size(paths, sizes) == Cardinality(UNION {{p} \X (1 .. sizes[p]) : p \in paths})

\* The totals and the extensions agree on one size for each file, which is that
\* of a file that did not change; a file that vanished may count as empty
\* (scan_workspace, the shared error code).
TotalsAgree ==
  Done("scan") =>
    \E looked \in [{p \in result.found : ~Kept(p)} -> 0 .. MaxSize] :
      LET sizes == [p \in result.found |->
                      IF p \in DOMAIN looked THEN looked[p] ELSE Tree[Rel[p]].size]
      IN /\ result.bytes = Size(result.found, sizes)
         /\ \A e \in Extensions :
              LET of == {p \in result.found : Tree[p].extension = e} IN
              result.extensions[e] = <<Cardinality(of), Size(of, sizes)>>

\* The matches a search may report of the paths: those of a file that did not
\* change, unless it is too large or may not be read; of a changed one, any.
LinesOf(p) ==
  IF Rel[p] \notin since THEN 1 .. MaxSize
  ELSE IF Tree[Rel[p]].size <= MaxFileBytes /\ Tree[Rel[p]].readable
       THEN ToSet(Tree[Rel[p]].hits) ELSE {}
MatchesOf(paths) ==
  UNION {[path : ShownAs(p), line : LinesOf(p)] : p \in paths}

\* A search without a flag has all the matches of the files it may read that
\* were there all the time, each under the path of what it read; and a file that
\* is too large when it is measured is searched only if it changed before it was
\* read (search_workspace).
SearchIsComplete ==
  Done("search") =>
    /\ ToSet(result.matches) \subseteq MatchesOf(VisibleOf(ever))
    /\ Complete => /\ MatchesOf(WantedOf(since)) \subseteq ToSet(result.matches)
                   /\ Len(result.matches) < request.limit

\* A walk that is to end (the loops over the iterator).
Busy == pc \in {"scan", "search"}
Served == pc = "done"
=============================================================================
