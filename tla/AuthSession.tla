---------------------------- MODULE AuthSession ----------------------------
(***************************************************************************)
(* The authorization session of the everything client                      *)
(* (validation/conformance/conformance_everything_client.cpp):             *)
(* ConformanceAuthSession, the callback the SDK asks for a token whenever  *)
(* the resource server refuses a request, and run_auth_scenario, which     *)
(* sends the requests one after the other.                                 *)
(*                                                                         *)
(* The session is one thread, so what it does between two HTTP exchanges   *)
(* is one action. What happens meanwhile in the world is the environment:  *)
(* the resource moves to another authorization server or revokes a token,  *)
(* and answers may be missing, late or from elsewhere.                     *)
(***************************************************************************)
EXTENDS Integers

CONSTANTS AuthServers,     \* the authorization servers
          Scenarios,       \* the scenarios the client is run in
          Advertisements,  \* what the servers may advertise
          Faults,          \* whether exchanges may fail or be mixed up
          MaxDisturbances, \* bounds moves and revocations
          MaxRefreshes     \* after how many refreshes the SDK gives a request up

Features == {"iss", "dpop", "cimd"}
DirectGrants == {"client-credentials-basic", "client-credentials-jwt", "wif-jwt-bearer"}
LegacyScenarios == {"2025-03-26-oauth-metadata-backcompat",
                    "2025-03-26-oauth-endpoint-fallback"}
AllScenarios ==
  DirectGrants \cup LegacyScenarios \cup
  {"enterprise-managed-authorization", "authorization-server-migration",
   "basic-cimd", "other"}

ASSUME ServersAssumption ==
  AuthServers \cap {"none", "given", "cimd", "absent", "empty"} = {}
ASSUME WorldAssumption == /\ Scenarios \subseteq AllScenarios
                          /\ Advertisements \subseteq [AuthServers -> SUBSET Features]
                          /\ Faults \in BOOLEAN
ASSUME LimitsAssumption == MaxDisturbances \in Nat /\ MaxRefreshes \in Nat

VARIABLES
  scenario, context, openssl, advertises, \* fixed for a run
  named, accepted, disturbances,          \* the resource server
  redirects, authorizations,              \* answers of authorization endpoints
  pc, calls, refreshes,                   \* run_auth_scenario and the SDK
  decision,                               \* what the last challenge asks for
  configured_, preconfigured_client_, dpop_enabled_, state_counter_,
  servers,                                \* protected_resource_.authorization_servers
  authorization_server_, issuer, metadata, \* the metadata of the session
  client,                                 \* the client manager_ is configured with
  code, nonce,                            \* the exchange in progress
  tokenBy, tokenBound, tokenScope,        \* the last token returned to the SDK
  namedSince                              \* the servers named since the challenge

world == <<scenario, context, openssl, advertises>>
resource == <<named, accepted, disturbances>>
answers == <<redirects, authorizations>>
session == <<configured_, preconfigured_client_, dpop_enabled_, servers,
             authorization_server_, issuer, metadata, client>>
exchange == <<code, nonce>>
token == <<tokenBy, tokenBound, tokenScope>>
request == <<calls, refreshes, decision, namedSince>>
vars == <<world, resource, answers, pc, request, session, state_counter_,
          exchange, token>>

\* "for" is the authorization an answer belongs to, which only the servers know.
Redirects == [by : AuthServers, state : Nat, iss : AuthServers \cup {"absent"}, for : Nat]
NoCode == [by |-> "none", state |-> 0, iss |-> "absent", for |-> 0]

WorldType ==
  /\ scenario \in AllScenarios /\ context \in SUBSET {"client_id", "grant"}
  /\ advertises \in [AuthServers -> SUBSET Features]
FlagsType ==
  /\ openssl \in BOOLEAN /\ accepted \in BOOLEAN /\ tokenBound \in BOOLEAN
  /\ configured_ \in BOOLEAN /\ preconfigured_client_ \in BOOLEAN
  /\ dpop_enabled_ \in BOOLEAN
ResourceType == named \in AuthServers /\ disturbances \in Nat
AnswersType ==
  redirects \in SUBSET Redirects /\ authorizations \in Nat /\ state_counter_ \in Nat
PcType ==
  pc \in {"calling", "challenged", "discover", "grant", "authorize", "post",
          "passed", "failed"}
RequestType ==
  /\ calls \in 0..4 /\ refreshes \in Nat
  /\ decision \in {"none", "authorization", "scope upgrade"}
  /\ namedSince \in SUBSET AuthServers
SessionType ==
  /\ servers \in SUBSET AuthServers
  /\ authorization_server_ \in AuthServers \cup {"none"}
  /\ issuer \in AuthServers \cup {"empty"} /\ metadata \in SUBSET Features
  /\ client \in AuthServers \cup {"none", "given", "cimd"}
ExchangeType == code \in Redirects \cup {NoCode} /\ nonce \in 0..2
TokenType ==
  tokenBy \in AuthServers \cup {"none"} /\ tokenScope \in {"some", "all"}

TypeOK == /\ WorldType /\ FlagsType /\ ResourceType /\ AnswersType /\ PcType
          /\ RequestType /\ SessionType /\ ExchangeType /\ TokenType

\* The context names a client, carries what a grant needs (a key, a JWT, an ID
\* token), both or neither. A stateless client sends two requests, another four.
Init ==
  /\ scenario \in Scenarios /\ context \in SUBSET {"client_id", "grant"}
  /\ openssl \in BOOLEAN /\ advertises \in Advertisements
  /\ named \in AuthServers /\ accepted = TRUE /\ disturbances = 0
  /\ redirects = {} /\ authorizations = 0
  /\ pc = "calling" /\ calls \in {2, 4} /\ refreshes = 0
  /\ decision = "none"
  /\ configured_ = FALSE /\ preconfigured_client_ = FALSE
  /\ dpop_enabled_ = FALSE /\ state_counter_ = 0
  /\ servers = {} /\ authorization_server_ = "none" /\ issuer = "empty" /\ metadata = {}
  /\ client = "none" /\ code = NoCode /\ nonce = 0
  /\ tokenBy = "none" /\ tokenBound = FALSE /\ tokenScope = "some"
  /\ namedSince = {}

-----------------------------------------------------------------------------
(* The resource server, and what goes on around the session (external).     *)

Disturb == disturbances < MaxDisturbances /\ disturbances' = disturbances + 1

Ended == pc \in {"passed", "failed"}

\* The resource server turns to another authorization server.
Move ==
  /\ ~Ended /\ Disturb
  /\ \E as \in AuthServers \ {named} :
       named' = as /\ namedSince' = namedSince \cup {as}
  /\ UNCHANGED <<world, accepted, answers, pc, calls, refreshes, decision,
                 session, state_counter_, exchange, token>>

\* The resource server no longer accepts the token it was shown.
Revoke ==
  /\ ~Ended /\ Disturb /\ accepted /\ tokenBy # "none"
  /\ accepted' = FALSE
  /\ UNCHANGED <<world, named, answers, pc, request, session, state_counter_,
                 exchange, token>>

\* dpop_request_signer: a request with a token carries a proof when DPoP is on.
Signed == dpop_enabled_ /\ tokenBy # "none"

TokenAccepted == tokenBy = named /\ accepted /\ (tokenBound => Signed)

\* Mutant of LastCall: the count is taken after the decrement.
LastCall_late == calls = 0

LastCall == calls = 1

\* run_auth_scenario goes on to its next request, or ends.
CallAnswered ==
  /\ pc = "calling" /\ TokenAccepted
  /\ calls' = calls - 1 /\ refreshes' = 0
  /\ pc' = IF LastCall THEN "passed" ELSE "calling"
  /\ UNCHANGED <<world, resource, answers, decision, session, state_counter_,
                 exchange, token, namedSince>>

\* analyze: a 401, or a 403 that asks for more scope. The SDK calls refresh.
Challenge ==
  /\ pc = "calling" /\ refreshes < MaxRefreshes
  /\ \/ ~TokenAccepted /\ decision' = "authorization"
     \/ TokenAccepted /\ tokenScope # "all" /\ decision' = "scope upgrade"
  /\ pc' = "challenged" /\ refreshes' = refreshes + 1
  /\ namedSince' = {named}
  /\ UNCHANGED <<world, resource, answers, calls, session, state_counter_,
                 exchange, token>>

\* The SDK gives the request up; unwrap throws.
GiveUp ==
  /\ pc = "calling" /\ refreshes >= MaxRefreshes
  /\ ~TokenAccepted \/ tokenScope # "all"
  /\ pc' = "failed"
  /\ UNCHANGED <<world, resource, answers, request, session, state_counter_,
                 exchange, token>>

\* An exchange fails, or the resource refuses for a reason no token helps
\* against: fail throws in refresh, unwrap in run_auth_scenario.
ExchangeFails ==
  /\ Faults /\ pc \in {"calling", "discover", "grant", "authorize", "post"}
  /\ pc' = "failed"
  /\ UNCHANGED <<world, resource, answers, request, session, state_counter_,
                 exchange, token>>

-----------------------------------------------------------------------------
(* refresh and configure.                                                   *)

\* Mutant of should_rediscover: the session stays with the server it knows.
should_rediscover_never == FALSE

should_rediscover ==
  scenario = "authorization-server-migration" /\ decision = "authorization"

\* Mutants of Reset: what it should forget it keeps.
Reset_dpopKept ==
  /\ configured_' = FALSE /\ preconfigured_client_' = FALSE /\ client' = "none"
  /\ dpop_enabled_' = dpop_enabled_
Reset_clientKept ==
  /\ configured_' = FALSE /\ preconfigured_client_' = (client # "none")
  /\ client' = client /\ dpop_enabled_' = FALSE

\* What configure does first in a session that looks again.
Reset ==
  /\ configured_' = FALSE /\ preconfigured_client_' = FALSE /\ client' = "none"
  /\ dpop_enabled_' = FALSE

Reconfigure ==
  /\ pc = "challenged" /\ configured_ /\ should_rediscover
  /\ pc' = "discover" /\ Reset
  /\ UNCHANGED <<world, resource, answers, request, servers, authorization_server_,
                 issuer, metadata, state_counter_, exchange, token>>

Configure ==
  /\ pc = "challenged" /\ ~configured_
  /\ pc' = "discover"
  /\ UNCHANGED <<world, resource, answers, request, session, state_counter_,
                 exchange, token>>

StayConfigured ==
  /\ pc = "challenged" /\ configured_ /\ ~should_rediscover
  /\ pc' = "grant"
  /\ UNCHANGED <<world, resource, answers, request, session, state_counter_,
                 exchange, token>>

\* The issuers the metadata of a server may state.
Issuers(as) == {as} \cup IF Faults THEN AuthServers \cup {"empty"} ELSE {}

\* What discover returns: the servers the resource lists, and the issuer and the
\* features the metadata states that was fetched for one of them.
Listed(as) ==
  [servers : {{as}} \cup IF Faults THEN {{}, AuthServers} ELSE {},
   issuer : Issuers(as), features : {advertises[as]}]

\* discover_legacy_2025_03_26, for a server that lists none: the metadata at the
\* origin of the resource is taken for that of the server it states itself, and
\* without metadata a server without features is assumed there.
Legacy(as) ==
  CASE scenario = "2025-03-26-oauth-metadata-backcompat" ->
         {[servers |-> {IF i = "empty" THEN as ELSE i}, issuer |-> i,
           features |-> advertises[as]] : i \in Issuers(as)}
    [] scenario = "2025-03-26-oauth-endpoint-fallback" ->
         {[servers |-> {as}, issuer |-> as, features |-> {}]}
    [] OTHER -> {}
Discovered(as) == Listed(as) \cup Legacy(as)

\* Mutant of IssuerListed: the list is not looked at.
IssuerListed_any(d) == TRUE

\* validate_authorization_server_issuer.
IssuerListed(d) ==
  d.issuer = "empty" \/ d.servers = {} \/ d.issuer \in d.servers

PreconfiguredClient(features) ==
  IF "client_id" \in context THEN "given"
  ELSE IF scenario = "basic-cimd" /\ "cimd" \in features THEN "cimd"
  ELSE "none"

\* The rest of configure, once the metadata is there.
Discover ==
  /\ pc = "discover"
  /\ \E d \in Discovered(named) :
       /\ IssuerListed(d)
       /\ servers' = d.servers /\ authorization_server_' = named
       /\ issuer' = d.issuer /\ metadata' = d.features
       /\ dpop_enabled_' = (dpop_enabled_ \/ (openssl /\ "dpop" \in d.features))
       /\ preconfigured_client_' =
            (preconfigured_client_ \/ PreconfiguredClient(d.features) # "none")
       /\ client' = IF PreconfiguredClient(d.features) = "none" THEN client
                    ELSE PreconfiguredClient(d.features)
  /\ configured_' = TRUE /\ pc' = "grant"
  /\ UNCHANGED <<world, resource, answers, request, state_counter_, exchange,
                 token>>

IssuerMismatch ==
  /\ pc = "discover" /\ \E d \in Discovered(named) : ~IssuerListed(d)
  /\ pc' = "failed"
  /\ UNCHANGED <<world, resource, answers, request, session, state_counter_,
                 exchange, token>>

-----------------------------------------------------------------------------
(* The grants of refresh.                                                   *)

DirectScenario == scenario \in DirectGrants \cup {"enterprise-managed-authorization"}

\* What the direct grants need before they post to the token endpoint.
\* authenticate_enterprise_managed first trades the ID token at the identity
\* provider, which is not the token endpoint and so gets no proof.
GrantReady ==
  /\ scenario # "client-credentials-basic" => "grant" \in context
  /\ scenario = "client-credentials-jwt" => openssl

DirectGrant ==
  /\ pc = "grant" /\ DirectScenario
  /\ pc' = IF GrantReady THEN "post" ELSE "failed"
  /\ UNCHANGED <<world, resource, answers, request, session, state_counter_,
                 exchange, token>>

\* Mutant of NextState: the counter is not incremented.
NextState_stuck == IF state_counter_ = 0 THEN 1 ELSE state_counter_

NextState == state_counter_ + 1

\* A fresh state, and the GET of an authorization URL that carries it.
Authorize ==
  /\ pc' = "authorize" /\ state_counter_' = NextState
  /\ authorizations' = authorizations + 1
  /\ UNCHANGED <<world, resource, redirects, request, configured_,
                 preconfigured_client_, dpop_enabled_, servers,
                 authorization_server_, issuer, metadata, exchange, token>>

\* authorize, with the client configure has set up.
StartAuthorization ==
  /\ pc = "grant" /\ ~DirectScenario /\ decision = "authorization"
  /\ preconfigured_client_
  /\ Authorize /\ UNCHANGED client

\* authorize, with a client that start_session registers.
StartSession ==
  /\ pc = "grant" /\ ~DirectScenario /\ decision = "authorization"
  /\ ~preconfigured_client_
  /\ Authorize /\ client' = authorization_server_

RequestScopeUpgrade ==
  /\ pc = "grant" /\ ~DirectScenario /\ decision = "scope upgrade"
  /\ client # "none"
  /\ Authorize /\ UNCHANGED client

\* The iss a server puts into its answers is its own name, if there is one.
StatedIss(as) == {IF "iss" \in advertises[as] THEN as ELSE "absent"} \cup
                   IF Faults THEN {as, "absent"} ELSE {}

\* The answers of the servers to the authorization in progress.
FreshAnswers ==
  UNION {{[by |-> as, state |-> state_counter_, iss |-> i, for |-> authorizations] :
            i \in StatedIss(as)} :
         as \in {authorization_server_} \cup IF Faults THEN AuthServers ELSE {}}

\* Mutant of IssAccepted: an answer without iss is good enough.
IssAccepted_optional(r) == r.iss # "absent" => r.iss = issuer

IssAccepted(r) == /\ "iss" \in metadata => r.iss # "absent"
                  /\ r.iss # "absent" => r.iss = issuer

\* complete_authorization: a server answers, but what arrives may be an earlier
\* answer.
AnswerArrives(fresh, r) ==
  /\ pc = "authorize"
  /\ r = fresh \/ (Faults /\ r \in redirects)
  /\ redirects' = redirects \cup {fresh}

TakeAnswer(fresh, r) ==
  /\ AnswerArrives(fresh, r) /\ r.state = state_counter_ /\ IssAccepted(r)
  /\ pc' = "post" /\ code' = r
  /\ UNCHANGED <<world, resource, authorizations, request, session,
                 state_counter_, nonce, token>>

RefuseAnswer(fresh, r) ==
  /\ AnswerArrives(fresh, r) /\ ~(r.state = state_counter_ /\ IssAccepted(r))
  /\ pc' = "failed"
  /\ UNCHANGED <<world, resource, authorizations, request, session,
                 state_counter_, exchange, token>>

\* authorization_server_ is set whenever an authorization is in progress.
CompleteAuthorization ==
  /\ pc = "authorize"
  /\ \E fresh \in FreshAnswers : \E r \in {fresh} \cup redirects :
       TakeAnswer(fresh, r) \/ RefuseAnswer(fresh, r)

\* Mutant of RetryWithNonce: the request is sent again as often as it is asked.
RetryWithNonce_always == dpop_enabled_

RetryWithNonce == dpop_enabled_ /\ nonce = 0

\* post_token_endpoint_request: the server wants its nonce in the proof.
NonceDemanded ==
  /\ pc = "post" /\ "dpop" \in advertises[authorization_server_] /\ RetryWithNonce
  /\ \E n \in {1, 2} \ {nonce} : nonce' = n
  /\ UNCHANGED <<world, resource, answers, pc, request, session, state_counter_,
                 code, token>>

\* The token endpoint grants; refresh returns the token and the SDK repeats its
\* request. A server redeems its own codes only.
TokenGranted ==
  /\ pc = "post" /\ code.by \in {"none", authorization_server_}
  /\ tokenBy' = authorization_server_
  /\ tokenBound' = (dpop_enabled_ /\ "dpop" \in advertises[authorization_server_])
  /\ tokenScope' \in IF decision = "scope upgrade" /\ ~DirectScenario THEN {"all"}
                     ELSE {"some", "all"}
  /\ accepted' = TRUE
  /\ pc' = "calling" /\ code' = NoCode /\ nonce' = 0
  /\ UNCHANGED <<world, named, disturbances, answers, request, session,
                 state_counter_>>

-----------------------------------------------------------------------------

Environment == Move \/ Revoke

Session ==
  \/ CallAnswered \/ Challenge \/ GiveUp \/ ExchangeFails
  \/ Reconfigure \/ Configure \/ StayConfigured \/ Discover \/ IssuerMismatch
  \/ DirectGrant \/ StartAuthorization \/ StartSession \/ RequestScopeUpgrade
  \/ CompleteAuthorization \/ NonceDemanded \/ TokenGranted

Next == Environment \/ Session \/ (Ended /\ UNCHANGED vars)

\* The session's thread runs, and every exchange is answered or fails: the HTTP
\* client has timeouts.
Spec == Init /\ [][Next]_vars /\ WF_vars(Session)
=============================================================================
