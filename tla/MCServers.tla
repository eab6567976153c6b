----------------------------- MODULE MCServers -----------------------------
(* The composed servers for TLC, with a small log and a small tree.        *)
EXTENDS Servers, TLC

\* A buffer of three bytes; limits below, at and above the sizes of buffers
\* and outputs.
MCByteLimits == {-1, 3, 4, 9}
MCRowLimits == {-1, 2, 9}

\* A plain query, one of each kind that differs from it, and two that differ twice.
Query(word, clause, end) == [first |-> word, limit |-> clause, tail |-> end]
MCQueries ==
  {Plain, Query("write", "none", "none"), Query("explain", "none", "none"),
   Query("select", "own", "none"), Query("select", "elsewhere", "none"),
   Query("select", "newline", "none"), Query("select", "none", "semicolon"),
   Query("select", "none", "comment"), Query("select", "none", "second"),
   Query("select", "newline", "semicolon"), Query("explain", "newline", "comment")}

\* A directory, a hidden one with a link out of it, one that may not be opened, a
\* link to a file; a file that is too large to be searched.
Directory == [kind |-> "directory", extension |-> "", size |-> 0,
              readable |-> TRUE, hits |-> <<>>]
File(extension, size, hits) ==
  [kind |-> "file", extension |-> extension, size |-> size, readable |-> TRUE,
   hits |-> hits]
MCTree ==
  (<<"src">> :> Directory)
  @@ (<<"src", "a.cpp">> :> File(".cpp", 2, <<1, 2>>))
  @@ (<<"src", "own">> :> [Directory EXCEPT !.readable = FALSE])
  @@ (<<"src", "own", "e">> :> File("<none>", 1, <<1>>))
  @@ (<<".git">> :> Directory)
  @@ (<<".git", "c">> :> File("<none>", 3, <<1>>))
  @@ (<<".git", "lib">> :> [Directory EXCEPT !.kind = "directory_link"])
  @@ (<<"d.txt">> :> [File(".txt", 0, <<>>) EXCEPT !.kind = "file_link"])
MCRel ==
  [p \in DOMAIN MCTree |-> CASE p = <<".git", "lib">> -> <<"src">>
                             [] p = <<"d.txt">>       -> <<"src", "a.cpp">>
                             [] OTHER                 -> p]
=============================================================================
