------------------------------ MODULE Servers ------------------------------
(* The servers that work on what changes under them: the tools that run      *)
(* commands, the digests of a log that is being written and the walks over a *)
(* tree that others change.  They share nothing, so that a behaviour is one  *)
(* of one of them and the others stay as they begin.                         *)
EXTENDS CommandToolsProperties, FiniteSets

CONSTANTS Words, Patterns, MaxLines, MaxWords, LineLimits, FindLimits,
          LargestLines, LargestMatches, MaxSamples, MaxText, \* of LogTriageServer
          Tree, Rel, DotNames, FileLimits, SearchLimits, ReadLimits,
          LargestLimit, MaxFileBytes, MaxExtensions, MaxSize, MaxChanges
                                                             \* of WorkspaceServer

\* The limits of the code are positive; what the clients send is any integer.
ASSUME LogAssumption ==
  /\ MaxLines \in Nat \ {0} /\ MaxWords \in Nat
  /\ LineLimits \subseteq Int /\ FindLimits \subseteq Int
  /\ LargestLines \in Nat \ {0} /\ LargestMatches \in Nat \ {0}
  /\ MaxSamples \in Nat \ {0} /\ MaxText \in Nat \ {0}

\* A tree is finite, and every path in it is below the root and below the
\* directories that lead to it; a link leads to a file or a directory of it.
ASSUME WorkspaceAssumption ==
  /\ IsFiniteSet(DOMAIN Tree) /\ DOMAIN Tree \subseteq Seq(STRING) \ {<<>>, <<"none">>}
  /\ \A p \in DOMAIN Tree : \A n \in 1 .. Len(p) : SubSeq(p, 1, n) \in DOMAIN Tree
  /\ \A p \in DOMAIN Tree : \A n \in 1 .. Len(p) - 1 :
       Tree[SubSeq(p, 1, n)].kind = "directory"
  /\ \A p \in DOMAIN Tree :
       /\ Tree[p].kind \in {"file", "directory", "file_link", "directory_link"}
       /\ Tree[p].readable \in BOOLEAN
       /\ Tree[p].size \in 0 .. MaxSize /\ Tree[p].hits \in Seq(1 .. MaxSize)
       /\ Rel[p] \in DOMAIN Tree
       /\ Tree[p].kind \in {"file", "directory"} => Rel[p] = p
       /\ Tree[p].kind = "file_link" => Tree[Rel[p]].kind = "file"
       /\ Tree[p].kind = "directory_link" => Tree[Rel[p]].kind = "directory"
  /\ FileLimits \subseteq Int /\ SearchLimits \subseteq Int /\ ReadLimits \subseteq Int
  /\ LargestLimit \in Nat \ {0} /\ MaxFileBytes \in Nat
  /\ MaxSize \in Nat /\ MaxChanges \in Nat

VARIABLES server, \* the server the behaviour is one of
          lLog, lPc, lRequest, lEof, lLine_no, lCounts, lShown, lTruncated,
          wAlive, wChanges, wPc, wRequest, wStack, wPending, wAt, wResult,
          wSince, wEver

-----------------------------------------------------------------------------
LOG == INSTANCE LogTriageServerProperties WITH
  MatchLimits <- FindLimits,
  log <- lLog, pc <- lPc, request <- lRequest, eof <- lEof,
  line_no <- lLine_no, counts <- lCounts, shown <- lShown,
  truncated <- lTruncated

WORKSPACE == INSTANCE WorkspaceServerProperties WITH
  MatchLimits <- SearchLimits, ByteLimits <- ReadLimits,
  alive <- wAlive, changes <- wChanges, pc <- wPc, request <- wRequest,
  stack <- wStack, pending <- wPending, at <- wAt, result <- wResult,
  since <- wSince, ever <- wEver

logVars == <<lLog, lPc, lRequest, lEof, lLine_no, lCounts, lShown, lTruncated>>
workspaceVars == <<wAlive, wChanges, wPc, wRequest, wStack, wPending, wAt,
                   wResult, wSince, wEver>>
allVars == <<server, vars, logVars, workspaceVars>>

-----------------------------------------------------------------------------
ServerInit ==
  /\ server \in {"commands", "log", "workspace"}
  /\ Init /\ LOG!Init /\ WORKSPACE!Init

CommandStep == /\ server = "commands" /\ Next
               /\ UNCHANGED <<server, logVars, workspaceVars>>
LogStep == /\ server = "log" /\ LOG!Next
           /\ UNCHANGED <<server, vars, workspaceVars>>
WorkspaceStep == /\ server = "workspace" /\ WORKSPACE!Next
                 /\ UNCHANGED <<server, vars, logVars>>
ServerNext == CommandStep \/ LogStep \/ WorkspaceStep

\* The fairness of each server.
ServerSpec ==
  /\ ServerInit /\ [][ServerNext]_allVars
  /\ WF_vars(server = "commands" /\ (Progress(Tools) \/ ReadPresets))
  /\ WF_logVars(server = "log" /\ (LOG!DigestLine \/ LOG!DigestEnd))
  /\ WF_workspaceVars(server = "workspace" /\ WORKSPACE!Walk)

-----------------------------------------------------------------------------
\* The replies about a log that is being written (LogTriageServerProperties).
LogIsReported ==
  /\ LOG!TypeOK /\ LOG!DigestIsOfTheFirstLines
  /\ LOG!SamplesAreTheFirstSevere /\ LOG!MatchesAreComplete

\* The replies about files that come and go (WorkspaceServerProperties).
WorkspaceIsReported ==
  /\ WORKSPACE!TypeOK /\ WORKSPACE!ScanIsComplete
  /\ WORKSPACE!TotalsAgree /\ WORKSPACE!SearchIsComplete

\* Every call of a command tool is answered, and every digest of a growing log
\* and every walk over a changing tree ends.  Only one server is ever busy.
ServersAnswer ==
  (Busy \/ LOG!Busy \/ WORKSPACE!Busy) ~> (Served \/ LOG!Served \/ WORKSPACE!Served)
=============================================================================
