------------------------------ MODULE DataTools ------------------------------
(* The code that reads files, headers and messages byte by byte: the servers *)
(* of the file tools, the decoding of a parameter header and the padding of  *)
(* SHA-256.  They are programs that share nothing, so that a behaviour is    *)
(* one of one of them and the others stay as they begin; the file servers,   *)
(* of which none or one runs, have their variables in common.                *)
EXTENDS Sha256Properties, FiniteSets

CONSTANTS CsvCharacters, JsonlCharacters, MaxFile, ByteLimits, RowLimits,
          Delimiters, ErrorLimits,                  \* what is in the files and
          JsonDocuments, JsonPointers, JsonByteLimits, ChildLimits,
          Sources, Directories, MaxEntries, MaxSpace, SampleLimits,
          ResultLimits,                             \* what the clients send
          LargestBytes, LargestRows, LargestErrors, JsonLargestBytes,
          LargestOutput, LargestChildren, LargestIndex, LargestSample,
          LargestResult,                            \* the limits of the servers
          Sextets, MaxPayload, Literals             \* of the header

VARIABLES program, \* the program the behaviour is one of
          file, reply,                 \* of the file servers
          payload, headers, token, echo \* of the header

fileVars == <<file, reply>>
headerVars == <<payload, headers, token, echo>>
dataVars == <<program, fileVars, headerVars, vars>>

FileServers == {"csv", "jsonl", "json file", "compile commands"}
Programs == FileServers \cup {"header", "sha256"}

-----------------------------------------------------------------------------
CSV == INSTANCE CsvServer WITH Characters <- CsvCharacters

JSONL == INSTANCE JsonlServer WITH
  Characters <- JsonlCharacters, LineLimits <- RowLimits,
  LargestLines <- LargestRows

JSON == INSTANCE JsonFileServer WITH
  Documents <- JsonDocuments, Pointers <- JsonPointers,
  ByteLimits <- JsonByteLimits, LargestBytes <- JsonLargestBytes

COMPILE == INSTANCE CompileCommandsServerProperties

HEADER == INSTANCE ParamHeaderProperties WITH reply <- echo

-----------------------------------------------------------------------------
\* The limits of the code are positive; what the clients send is any integer.
ASSUME LimitsAssumption ==
  /\ MaxFile \in Nat /\ MaxEntries \in Nat /\ MaxSpace \in Nat
  /\ ByteLimits \subseteq Int /\ RowLimits \subseteq Int
  /\ ErrorLimits \subseteq Int /\ JsonByteLimits \subseteq Int
  /\ ChildLimits \subseteq Int /\ SampleLimits \subseteq Int
  /\ ResultLimits \subseteq Int
  /\ {LargestBytes, LargestRows, LargestErrors, JsonLargestBytes, LargestOutput,
      LargestChildren, LargestIndex, LargestSample, LargestResult} \subseteq Nat \ {0}

\* A file is any sequence of bytes.
ASSUME TextAssumption ==
  CsvCharacters \cup JsonlCharacters \cup Delimiters \subseteq Seq(STRING)

\* The values of a document are in objects and arrays of it, and the elements of
\* an array are numbered from zero, without leading zeros.
IsDocument(doc) ==
  /\ IsFiniteSet(DOMAIN doc) /\ <<>> \in DOMAIN doc
  /\ DOMAIN doc \subseteq Seq(Seq(STRING))
  /\ \A p \in DOMAIN doc :
       /\ doc[p] \in {"object", "array", "string", "number", "boolean", "null"}
       /\ p # <<>> => /\ SubSeq(p, 1, Len(p) - 1) \in DOMAIN doc
                      /\ doc[SubSeq(p, 1, Len(p) - 1)] \in {"object", "array"}
       /\ doc[p] = "array" =>
            LET elements == JSON!Children(doc, p) IN
            /\ Cardinality(elements) <= LargestIndex + 1
            /\ \A e \in elements :
                 /\ JSON!non_negative_integer(e[Len(e)])
                 /\ Len(e[Len(e)]) > 1 => Head(e[Len(e)]) # "0"
                 /\ JSON!Index(e[Len(e)]) < Cardinality(elements)
            /\ \A i \in 0 .. Cardinality(elements) - 1 :
                 \E e \in elements : JSON!Index(e[Len(e)]) = i
ASSUME DocumentAssumption ==
  /\ \A doc \in JsonDocuments : IsDocument(doc)
  /\ JsonPointers \subseteq Seq(STRING)

ASSUME EntriesAssumption == "" \notin Sources \cup Directories

ASSUME HeaderAssumption ==
  Sextets \subseteq 0 .. 63 /\ Literals \subseteq Seq(0 .. 255) /\ MaxPayload \in Nat

-----------------------------------------------------------------------------
DataInit ==
  /\ program \in Programs
  /\ program = "csv" => CSV!Init
  /\ program = "jsonl" => JSONL!Init
  /\ program = "json file" => JSON!Init
  /\ program = "compile commands" => COMPILE!Init
  /\ program \notin FileServers => file = "none" /\ reply = "none"
  /\ HEADER!Init
  /\ Init

FileStep ==
  /\ \/ program = "csv" /\ CSV!Next
     \/ program = "jsonl" /\ JSONL!Next
     \/ program = "json file" /\ JSON!Next
     \/ program = "compile commands" /\ COMPILE!Next
  /\ UNCHANGED <<program, headerVars, vars>>
HeaderStep ==
  program = "header" /\ HEADER!Next /\ UNCHANGED <<program, fileVars, vars>>
HashStep ==
  program = "sha256" /\ Next /\ UNCHANGED <<program, fileVars, headerVars>>

DataNext == FileStep \/ HeaderStep \/ HashStep
DataSpec == DataInit /\ [][DataNext]_dataVars

-----------------------------------------------------------------------------
\* What csv.summary and csv.sample reply is what the file says, as far as the
\* limits let them read it (CsvServer).
CsvRepliesAreTheFiles ==
  program = "csv" =>
    /\ CSV!TypeOK /\ CSV!RowsAreFirstLines
    /\ CSV!FieldsFollowTheQuotes /\ CSV!FieldsComeBack
    /\ CSV!RendersUnlessCut

\* jsonl.summary counts every line once, a limit changes at most the verdict on
\* the line it cuts, and no value makes a call fail (JsonlServer).
JsonlRepliesAreTheFiles ==
  program = "jsonl" =>
    /\ JSONL!TypeOK /\ JSONL!LinesAreFirstLines
    /\ JSONL!CountsAddUp /\ JSONL!OnlyTheCutLineIsMisjudged
    /\ JSONL!RendersUnlessCut

\* json.pointer reaches every value and only the value that is named, and
\* json.summary is of the whole document (JsonFileServer).
JsonRepliesAreTheFiles ==
  program = "json file" =>
    /\ JSON!TypeOK /\ JSON!EveryValueIsReached
    /\ JSON!OnlyTheNamedValue /\ JSON!SummaryIsTheFiles

\* A database is counted as a whole or refused, and the limits of the replies
\* leave out only the last entries (CompileCommandsServerProperties).
CompileCommandsRepliesAreTheFiles ==
  program = "compile commands" =>
    /\ COMPILE!TypeOK /\ COMPILE!AnswersAreWhole
    /\ COMPILE!CountsAreNotSampled /\ COMPILE!ShortAnswersAreComplete

\* What is decoded are the payloads of the alphabet and the padding of RFC 4648,
\* whatever the bits behind the last byte, to what they encode without these; and
\* who sends his token is echoed it (ParamHeaderProperties).
HeadersAreDecoded ==
  program = "header" =>
    HEADER!TypeOK /\ HEADER!DecodesExactly /\ HEADER!EchoesTheToken
=============================================================================
