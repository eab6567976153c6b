---------------------------- MODULE MCDataTools ----------------------------
(* The programs that read byte by byte for TLC, with small files and payloads *)
(* of up to two blocks.                                                       *)
EXTENDS DataTools, TLC

MCCsvCharacters ==
  {<<"a">>, <<",">>, <<"\"">>, <<"\n">>, <<"\r">>, <<"lead">>, <<"lead", "trail">>}
MCJsonlCharacters ==
  {<<"1">>, <<"\"">>, <<"{", "k">>, <<"{">>, <<"}">>, <<"\n">>, <<"lead">>, <<"lead", "trail">>}
MCDelimiters == {<<>>, <<"lead", "trail">>}
MCErrorLimits == {-1, 1, 9}

\* Keys that need escapes, keys that look like indices, the empty key.
MCDocuments ==
  LET at(path, type) == path :> type IN
  {at(<<>>, "object") @@ at(<<<<"~">>>>, "null") @@ at(<<<<"/">>>>, "number")
     @@ at(<<<<"~", "1">>>>, "string") @@ at(<<<<>>>>, "object")
     @@ at(<<<<>>, <<>>>>, "number") @@ at(<<<<"0">>>>, "array")
     @@ at(<<<<"0">>, <<"0">>>>, "string") @@ at(<<<<"0">>, <<"1">>>>, "array"),
   at(<<>>, "array") @@ at(<<<<"0">>>>, "object") @@ at(<<<<"1">>>>, "boolean")
     @@ at(<<<<"0">>, <<"a">>>>, "string"),
   at(<<>>, "number"), at(<<>>, "string")}
MCPointers == UNION {[1 .. n -> {"/", "~", "0", "1", "a"}] : n \in 0 .. 4}

MCLiterals == {<<79>>}
=============================================================================
