------------------------- MODULE AuthSessionProof -------------------------
(* What the authorization session owes the servers, for any servers, any   *)
(* advertisements and any number of challenges.                            *)
EXTENDS AuthSessionProperties, TLAPS

\* What a step leaves alone keeps its type.
LEMMA TypesKept ==
  ASSUME TypeOK
  PROVE  /\ UNCHANGED world => WorldType'
         /\ UNCHANGED resource => ResourceType'
         /\ UNCHANGED <<answers, state_counter_>> => AnswersType'
         /\ UNCHANGED pc => PcType'
         /\ UNCHANGED request => RequestType'
         /\ UNCHANGED session => SessionType'
         /\ UNCHANGED exchange => ExchangeType'
         /\ UNCHANGED token => TokenType'
<1>1. UNCHANGED world => WorldType'
  BY DEF TypeOK, WorldType, world
<1>2. UNCHANGED resource => ResourceType'
  BY DEF TypeOK, ResourceType, resource
<1>3. UNCHANGED <<answers, state_counter_>> => AnswersType'
  BY DEF TypeOK, AnswersType, answers
<1>4. UNCHANGED pc => PcType'
  BY DEF TypeOK, PcType
<1>5. UNCHANGED request => RequestType'
  BY DEF TypeOK, RequestType, request
<1>6. UNCHANGED session => SessionType'
  BY DEF TypeOK, SessionType, session
<1>7. UNCHANGED exchange => ExchangeType'
  BY DEF TypeOK, ExchangeType, exchange
<1>8. UNCHANGED token => TokenType'
  BY DEF TypeOK, TokenType, token
<1> QED
  BY <1>1, <1>2, <1>3, <1>4, <1>5, <1>6, <1>7, <1>8

\* The answers of the servers are answers, one per server and iss.
LEMMA FreshTypes ==
  ASSUME TypeOK, pc = "authorize", configured_, authorization_server_ # "none",
         NEW fresh \in FreshAnswers
  PROVE  /\ fresh \in Redirects
         /\ fresh.state = state_counter_ /\ fresh.for = authorizations
         /\ fresh.iss \in {fresh.by, "absent"}
<1>1. PICK as \in {authorization_server_} \cup (IF Faults THEN AuthServers ELSE {}) :
        \E i \in StatedIss(as) :
          fresh = [by |-> as, state |-> state_counter_, iss |-> i, for |->
          authorizations]
  BY DEF FreshAnswers
<1>5. PICK i \in StatedIss(as) :
        fresh = [by |-> as, state |-> state_counter_, iss |-> i, for |-> authorizations]
  BY <1>1
<1>2. as \in AuthServers
  BY DEF TypeOK, SessionType
<1>3. i \in {as, "absent"}
  BY DEF StatedIss
<1>4. state_counter_ \in Nat /\ authorizations \in Nat
  BY DEF TypeOK, AnswersType
<1> QED
  BY <1>2, <1>3, <1>4, <1>5 DEF Redirects

\* Whatever is discovered, its servers are servers, and its features those of
\* the server or none.
LEMMA DiscoveryTypes ==
  ASSUME TypeOK, NEW d \in Discovered(named)
  PROVE  /\ d.servers \in SUBSET AuthServers
         /\ d.issuer \in AuthServers \cup {"empty"}
         /\ d.features \in {advertises[named], {}}
<1>1. named \in AuthServers
  BY DEF TypeOK, ResourceType
<1>2. Issuers(named) \subseteq AuthServers \cup {"empty"}
  BY <1>1 DEF Issuers
<1>3. CASE d \in Listed(named)
  <2>1. /\ d.servers \in {{named}, {}, AuthServers} /\ d.issuer \in Issuers(named)
        /\ d.features = advertises[named]
    BY <1>3 DEF Listed
  <2> QED
    BY <1>1, <1>2, <2>1
<1>4. CASE d \in Legacy(named)
  <2>1. CASE scenario = "2025-03-26-oauth-metadata-backcompat"
    <3>1. PICK i \in Issuers(named) :
            d = [servers |-> {IF i = "empty" THEN named ELSE i}, issuer |-> i,
                 features |-> advertises[named]]
      BY <1>4, <2>1 DEF Legacy
    <3> QED
      BY <1>1, <1>2, <3>1
  <2>2. CASE scenario = "2025-03-26-oauth-endpoint-fallback"
    BY <1>1, <1>4, <2>2 DEF Legacy
  <2> QED
    BY <1>4, <2>1, <2>2 DEF Legacy
<1> QED
  BY <1>3, <1>4 DEF Discovered

\* The flags stay flags.
LEMMA FlagsStep == ASSUME TypeOK, [Next]_vars PROVE FlagsType'
<1>0. FlagsType
  BY DEF TypeOK
<1>1. CASE Move
  BY <1>0, <1>1 DEF FlagsType, Move, world, session, token
<1>2. CASE Revoke
  BY <1>0, <1>2 DEF FlagsType, Revoke, world, session, token
<1>3. CASE CallAnswered
  BY <1>0, <1>3 DEF FlagsType, CallAnswered, world, resource, session, token
<1>4. CASE Challenge
  BY <1>0, <1>4 DEF FlagsType, Challenge, world, resource, session, token
<1>5. CASE GiveUp
  BY <1>0, <1>5 DEF FlagsType, GiveUp, world, resource, session, token
<1>6. CASE ExchangeFails
  BY <1>0, <1>6 DEF FlagsType, ExchangeFails, world, resource, session, token
<1>7. CASE Reconfigure
  BY <1>0, <1>7 DEF FlagsType, Reconfigure, Reset, world, resource, token
<1>8. CASE Configure
  BY <1>0, <1>8 DEF FlagsType, Configure, world, resource, session, token
<1>9. CASE StayConfigured
  BY <1>0, <1>9 DEF FlagsType, StayConfigured, world, resource, session, token
<1>10. CASE Discover
  BY <1>0, <1>10 DEF FlagsType, Discover, world, resource, token
<1>11. CASE IssuerMismatch
  BY <1>0, <1>11 DEF FlagsType, IssuerMismatch, world, resource, session, token
<1>12. CASE DirectGrant
  BY <1>0, <1>12 DEF FlagsType, DirectGrant, world, resource, session, token
<1>13. CASE StartAuthorization
  BY <1>0, <1>13 DEF FlagsType, StartAuthorization, Authorize, world, resource, token
<1>14. CASE StartSession
  BY <1>0, <1>14 DEF FlagsType, StartSession, Authorize, world, resource, token
<1>15. CASE RequestScopeUpgrade
  BY <1>0, <1>15 DEF FlagsType, RequestScopeUpgrade, Authorize, world, resource, token
<1>16. CASE NonceDemanded
  BY <1>0, <1>16 DEF FlagsType, NonceDemanded, world, resource, session, token
<1>17. CASE TokenGranted
  BY <1>0, <1>17 DEF FlagsType, TokenGranted, world, session
<1>18. CASE UNCHANGED vars
  BY <1>0, <1>18 DEF FlagsType, vars, world, resource, session, token
<1>19. CASE CompleteAuthorization
  BY <1>0, <1>19 DEF FlagsType, CompleteAuthorization, TakeAnswer, RefuseAnswer,
     world, resource, session, token
<1> QED
  BY <1>1, <1>2, <1>3, <1>4, <1>5, <1>6, <1>7, <1>8, <1>9,
     <1>10, <1>11, <1>12, <1>13, <1>14, <1>15, <1>16, <1>17, <1>18, <1>19 DEF Next,
     Session, Environment

\* A new authorization is numbered.
LEMMA AuthorizeTypes == ASSUME TypeOK, Authorize PROVE AnswersType'
<1>1. authorizations \in Nat /\ state_counter_ \in Nat /\ redirects \in SUBSET Redirects
  BY DEF TypeOK, AnswersType
<1>2. /\ authorizations' = authorizations + 1 /\ state_counter_' = state_counter_ + 1
      /\ redirects' = redirects
  BY DEF Authorize, NextState
<1> QED
  BY <1>1, <1>2 DEF AnswersType

\* The values every action computes are of the type of their variable.
LEMMA TypeStep == ASSUME IInv, [Next]_vars PROVE TypeOK'
<1>0. TypeOK /\ CallsLeft /\ SessionIsOfOneServer /\ FlagsType'
  BY FlagsStep DEF IInv, Consistent
<1>1. CASE Move
  <2>1. disturbances' = disturbances + 1 /\ named' \in AuthServers
        /\ namedSince' = namedSince \cup {named'}
    BY <1>1 DEF Move, Disturb
  <2>2. disturbances \in Nat
    BY <1>0 DEF TypeOK, ResourceType
  <2>3. ResourceType'
    BY <2>1, <2>2 DEF ResourceType
  <2>4. RequestType'
    BY <1>0, <1>1, <2>1 DEF Move, TypeOK, RequestType
  <2> QED
    BY <1>0, <1>1, <2>3, <2>4, TypesKept DEF Move, TypeOK
<1>2. CASE Revoke
  <2>1. disturbances' = disturbances + 1 /\ named' = named
    BY <1>2 DEF Revoke, Disturb
  <2>2. named \in AuthServers /\ disturbances \in Nat
    BY <1>0 DEF TypeOK, ResourceType
  <2>3. ResourceType'
    BY <2>1, <2>2 DEF ResourceType
  <2> QED
    BY <1>0, <1>2, <2>3, TypesKept DEF Revoke, TypeOK
<1>3. CASE CallAnswered
  <2>1. calls' = calls - 1 /\ refreshes' = 0 /\ calls > 0
        /\ UNCHANGED <<decision, namedSince>>
    BY <1>0, <1>3 DEF CallAnswered, CallsLeft, Ended
  <2>2. calls \in 0..4 /\ decision \in {"none", "authorization", "scope upgrade"}
        /\ namedSince \in SUBSET AuthServers
    BY <1>0 DEF TypeOK, RequestType
  <2>7. calls' = calls - 1 /\ refreshes' = 0 /\ calls > 0 /\ calls \in 0..4
    BY <2>1, <2>2
  <2>4. calls' \in 0..4 /\ refreshes' \in Nat
    BY <2>7
  <2>5. namedSince' \in SUBSET AuthServers
    BY <2>1, <2>2
  <2>6. decision' \in {"none", "authorization", "scope upgrade"}
    BY <2>1, <2>2
  <2>3. RequestType'
    BY <2>4, <2>5, <2>6 DEF RequestType
  <2> QED
    BY <1>0, <1>3, <2>3, TypesKept DEF CallAnswered, TypeOK, PcType
<1>4. CASE Challenge
  <2>1. refreshes' = refreshes + 1 /\ calls' = calls /\ namedSince' = {named}
        /\ decision' \in {"authorization", "scope upgrade"}
    BY <1>4 DEF Challenge
  <2>2. refreshes \in Nat /\ calls \in 0..4 /\ named \in AuthServers
    BY <1>0 DEF TypeOK, RequestType, ResourceType
  <2>7. calls' = calls /\ refreshes' = refreshes + 1 /\ calls \in 0..4 /\ refreshes \in Nat
    BY <2>1, <2>2
  <2>4. calls' \in 0..4 /\ refreshes' \in Nat
    BY <2>7
  <2>5. namedSince' \in SUBSET AuthServers
    BY <2>1, <2>2
  <2>6. decision' \in {"none", "authorization", "scope upgrade"}
    BY <2>1, <2>2
  <2>3. RequestType'
    BY <2>4, <2>5, <2>6 DEF RequestType
  <2> QED
    BY <1>0, <1>4, <2>3, TypesKept DEF Challenge, TypeOK, PcType
<1>5. CASE GiveUp
  BY <1>0, <1>5, TypesKept DEF GiveUp, TypeOK, PcType
<1>6. CASE ExchangeFails
  BY <1>0, <1>6, TypesKept DEF ExchangeFails, TypeOK, PcType
<1>7. CASE Reconfigure
  BY <1>0, <1>7, TypesKept DEF Reconfigure, Reset, TypeOK, PcType, SessionType
<1>8. CASE Configure
  BY <1>0, <1>8, TypesKept DEF Configure, TypeOK, PcType
<1>9. CASE StayConfigured
  BY <1>0, <1>9, TypesKept DEF StayConfigured, TypeOK, PcType
<1>10. CASE Discover
  <2>1. PICK d \in Discovered(named) :
          /\ servers' = d.servers /\ authorization_server_' = named
          /\ issuer' = d.issuer /\ metadata' = d.features
          /\ client' = IF PreconfiguredClient(d.features) = "none" THEN client
                       ELSE PreconfiguredClient(d.features)
    BY <1>10 DEF Discover
  <2>2. /\ named \in AuthServers /\ advertises[named] \in SUBSET Features
        /\ client \in AuthServers \cup {"none", "given", "cimd"}
    BY <1>0 DEF TypeOK, WorldType, ResourceType, SessionType
  <2>3. client' \in AuthServers \cup {"none", "given", "cimd"}
    BY <2>1, <2>2 DEF PreconfiguredClient
  <2>4. SessionType'
    BY <1>0, <2>1, <2>2, <2>3, DiscoveryTypes DEF SessionType
  <2> QED
    BY <1>0, <1>10, <2>4, TypesKept DEF Discover, TypeOK, PcType
<1>11. CASE IssuerMismatch
  BY <1>0, <1>11, TypesKept DEF IssuerMismatch, TypeOK, PcType
<1>12. CASE DirectGrant
  BY <1>0, <1>12, TypesKept DEF DirectGrant, TypeOK, PcType
<1>13. CASE StartAuthorization
  <2>1. Authorize /\ client' = client
    BY <1>13 DEF StartAuthorization
  <2> QED
    BY <1>0, <2>1, AuthorizeTypes, TypesKept DEF Authorize, TypeOK, PcType, SessionType
<1>14. CASE StartSession
  <2>1. Authorize /\ client' = authorization_server_
    BY <1>14 DEF StartSession
  <2> QED
    BY <1>0, <2>1, AuthorizeTypes, TypesKept DEF Authorize, TypeOK, PcType, SessionType
<1>15. CASE RequestScopeUpgrade
  <2>1. Authorize /\ client' = client
    BY <1>15 DEF RequestScopeUpgrade
  <2> QED
    BY <1>0, <2>1, AuthorizeTypes, TypesKept DEF Authorize, TypeOK, PcType, SessionType
<1>16. CASE NonceDemanded
  BY <1>0, <1>16, TypesKept DEF NonceDemanded, RetryWithNonce, TypeOK, ExchangeType
<1>17. CASE TokenGranted
  <2>1. TokenType'
    BY <1>0, <1>17 DEF TokenGranted, TypeOK, SessionType, TokenType
  <2>2. ResourceType'
    BY <1>0, <1>17, TypesKept DEF TokenGranted, TypeOK, ResourceType
  <2>3. code' = NoCode /\ nonce' = 0 /\ pc' = "calling"
    BY <1>17 DEF TokenGranted
  <2>4. ExchangeType' /\ PcType'
    BY <2>3 DEF ExchangeType, PcType
  <2> QED
    BY <1>0, <1>17, <2>1, <2>2, <2>4, TypesKept DEF TokenGranted, TypeOK
<1>18. CASE UNCHANGED vars
  BY <1>0, <1>18, TypesKept DEF vars, TypeOK, PcType
<1>19. CASE CompleteAuthorization
  <2>1. PICK fresh \in FreshAnswers : \E r \in {fresh} \cup redirects :
          TakeAnswer(fresh, r) \/ RefuseAnswer(fresh, r)
    BY <1>19 DEF CompleteAuthorization
  <2>2. PICK r \in {fresh} \cup redirects :
          TakeAnswer(fresh, r) \/ RefuseAnswer(fresh, r)
    BY <2>1
  <2>3. fresh \in Redirects
    BY <1>0, <1>19, FreshTypes DEF CompleteAuthorization, SessionIsOfOneServer
  <2>4. AnswersType'
    BY <1>0, <2>2, <2>3 DEF TakeAnswer, RefuseAnswer, AnswerArrives, TypeOK, AnswersType
  <2>5. r \in Redirects
    BY <1>0, <2>3 DEF TypeOK, AnswersType
  <2>6. ExchangeType'
    BY <1>0, <2>2, <2>5, TypesKept DEF TakeAnswer, RefuseAnswer, TypeOK,
       ExchangeType, exchange
  <2> QED
    BY <1>0, <2>2, <2>4, <2>6, TypesKept DEF TakeAnswer, RefuseAnswer, TypeOK, PcType
<1> QED
  BY <1>1, <1>2, <1>3, <1>4, <1>5, <1>6, <1>7, <1>8, <1>9,
     <1>10, <1>11, <1>12, <1>13, <1>14, <1>15, <1>16, <1>17, <1>18, <1>19 DEF Next,
     Session, Environment

\* Every step keeps what the parts of the session know of each other consistent.
LEMMA ConsistentStep == ASSUME IInv, [Next]_vars PROVE Consistent'
<1>0. TypeOK /\ Consistent /\ TypeOK'
  BY TypeStep DEF IInv
<1>1. CASE Move
  BY <1>0, <1>1 DEF Consistent, Move, CallsLeft, StatesAreFresh,
     CodeIsSpent, SessionIsOfOneServer, TokenIsOfThatServer, Following,
     RedeemedWhereIssued, ProofsMatchToken, FollowsTheResource, world, answers,
     session, exchange, token, Signed
<1>2. CASE Revoke
  BY <1>0, <1>2 DEF Consistent, Revoke, CallsLeft, StatesAreFresh,
     CodeIsSpent, SessionIsOfOneServer, TokenIsOfThatServer, Following,
     RedeemedWhereIssued, ProofsMatchToken, FollowsTheResource, world, answers,
     request, session, exchange, token, Signed
<1>3. CASE CallAnswered
  <2>1. CallsLeft'
    <3>1. calls' = calls - 1 /\ calls > 0 /\ calls \in 0..4
          /\ (pc' = "calling" => calls # 1)
          /\ pc' \in {"passed", "calling"}
      BY <1>0, <1>3 DEF CallAnswered, LastCall, Consistent, CallsLeft, Ended,
         TypeOK, RequestType
    <3>2. pc' = "calling" => calls' > 0
      BY <3>1
    <3> QED
      BY <3>1, <3>2 DEF CallsLeft, Ended
  <2>2. /\ UNCHANGED <<resource, answers, session, state_counter_, exchange, token, namedSince>>
        /\ pc' \in {"passed", "calling"} /\ pc = "calling"
    BY <1>3 DEF CallAnswered
  <2>3. code' = NoCode /\ code = NoCode
    BY <1>0, <2>2 DEF Consistent, CodeIsSpent, exchange
  <2>4. StatesAreFresh' /\ CodeIsSpent' /\ Following' /\ RedeemedWhereIssued' /\ FollowsTheResource'
    BY <1>0, <2>2, <2>3 DEF Consistent, StatesAreFresh, CodeIsSpent, Following,
       RedeemedWhereIssued, FollowsTheResource, answers
  <2>5. SessionIsOfOneServer' /\ TokenIsOfThatServer' /\ ProofsMatchToken'
    BY <1>0, <1>3, <2>2 DEF CallAnswered, Consistent, SessionIsOfOneServer,
       TokenIsOfThatServer,
       ProofsMatchToken, Signed, world, session, token
  <2> QED
    BY <2>1, <2>4, <2>5 DEF Consistent
<1>4. CASE Challenge
  <2>1. /\ pc = "calling" /\ pc' = "challenged" /\ namedSince' = {named}
        /\ UNCHANGED <<world, resource, answers, calls, session, state_counter_, exchange, token>>
    BY <1>4 DEF Challenge
  <2>2. decision' # "authorization" => TokenAccepted
    BY <1>4 DEF Challenge
  <2>3. tokenBy = named => authorization_server_ = named
    BY <1>0, <2>1, ServersAssumption
       DEF Consistent, TokenIsOfThatServer, TypeOK, ResourceType
  <2>4. Following'
    BY <2>1, <2>2, <2>3 DEF Following, TokenAccepted, resource, session
  <2>5. CallsLeft' /\ StatesAreFresh' /\ CodeIsSpent'
    BY <1>0, <2>1 DEF Consistent, CallsLeft, Ended, StatesAreFresh, CodeIsSpent,
       answers, exchange
  <2>6. SessionIsOfOneServer'
    BY <1>0, <2>1 DEF Consistent, SessionIsOfOneServer, world, session
  <2>7. TokenIsOfThatServer' /\ RedeemedWhereIssued' /\ ProofsMatchToken' /\ FollowsTheResource'
    BY <2>1 DEF TokenIsOfThatServer, RedeemedWhereIssued, ProofsMatchToken,
       FollowsTheResource
  <2> QED
    BY <2>4, <2>5, <2>6, <2>7 DEF Consistent
<1>5. CASE GiveUp
  BY <1>0, <1>5 DEF Consistent, GiveUp, CallsLeft, StatesAreFresh,
     CodeIsSpent, SessionIsOfOneServer, TokenIsOfThatServer, Following,
     RedeemedWhereIssued, ProofsMatchToken, FollowsTheResource, world, answers,
     session, Ended
<1>6. CASE ExchangeFails
  BY <1>0, <1>6 DEF Consistent, ExchangeFails, CallsLeft, StatesAreFresh,
     CodeIsSpent, SessionIsOfOneServer, TokenIsOfThatServer, Following,
     RedeemedWhereIssued, ProofsMatchToken, FollowsTheResource, world, answers,
     session, Ended
<1>7. CASE Reconfigure
  BY <1>0, <1>7, ServersAssumption DEF Consistent, Reconfigure, Reset,
     CallsLeft, StatesAreFresh, CodeIsSpent, SessionIsOfOneServer,
     TokenIsOfThatServer, Following, RedeemedWhereIssued, ProofsMatchToken,
     FollowsTheResource, resource, answers, request, exchange, Ended
<1>8. CASE Configure
  BY <1>0, <1>8 DEF Consistent, Configure, CallsLeft, StatesAreFresh,
     CodeIsSpent, SessionIsOfOneServer, TokenIsOfThatServer, Following,
     RedeemedWhereIssued, ProofsMatchToken, FollowsTheResource, resource,
     answers, request, session, exchange, Ended
<1>9. CASE StayConfigured
  BY <1>0, <1>9 DEF Consistent, StayConfigured, CallsLeft, StatesAreFresh,
     CodeIsSpent, SessionIsOfOneServer, TokenIsOfThatServer, Following,
     RedeemedWhereIssued, ProofsMatchToken, FollowsTheResource, world, answers,
     request, session, exchange, Ended, should_rediscover
<1>10. CASE Discover
  <2>1. PICK d \in Discovered(named) :
          /\ IssuerListed(d)
          /\ servers' = d.servers /\ authorization_server_' = named
          /\ issuer' = d.issuer /\ metadata' = d.features
          /\ dpop_enabled_' = (dpop_enabled_ \/ (openssl /\ "dpop" \in d.features))
          /\ client' = IF PreconfiguredClient(d.features) = "none" THEN client
                       ELSE PreconfiguredClient(d.features)
    BY <1>10 DEF Discover
  <2>2. /\ pc = "discover" /\ pc' = "grant" /\ configured_' = TRUE
        /\ UNCHANGED <<world, resource, answers, request, state_counter_, exchange, token>>
    BY <1>10 DEF Discover
  <2>3. ~configured_
    BY <1>0, <2>2 DEF Consistent, SessionIsOfOneServer
  <2>4. ~dpop_enabled_ /\ client \notin AuthServers
    BY <1>0, <2>3 DEF Consistent, SessionIsOfOneServer
  <2>5. client' \notin AuthServers
    BY <2>1, <2>4, ServersAssumption DEF PreconfiguredClient
  <2>6. d.features \in {advertises[named], {}}
    BY <1>0, DiscoveryTypes
  <2>7. dpop_enabled_' => "dpop" \in advertises[named]
    BY <2>1, <2>4, <2>6
  <2>8. named \in AuthServers /\ named # "none"
    BY <1>0, ServersAssumption DEF TypeOK, ResourceType
  <2>9. SessionIsOfOneServer'
    BY <2>1, <2>2, <2>5, <2>7, <2>8 DEF SessionIsOfOneServer, IssuerListed, world
  <2>10. CallsLeft' /\ StatesAreFresh' /\ CodeIsSpent'
    BY <1>0, <2>2 DEF Consistent, CallsLeft, Ended, StatesAreFresh, CodeIsSpent,
       answers, request, exchange
  <2>11. Following'
    BY <1>0, <2>1, <2>2 DEF Consistent, Following, request, world
  <2>12. /\ TokenIsOfThatServer' /\ RedeemedWhereIssued' /\ ProofsMatchToken'
         /\ FollowsTheResource'
    BY <2>2 DEF TokenIsOfThatServer, RedeemedWhereIssued, ProofsMatchToken,
       FollowsTheResource
  <2> QED
    BY <2>9, <2>10, <2>11, <2>12 DEF Consistent
<1>11. CASE IssuerMismatch
  BY <1>0, <1>11 DEF Consistent, IssuerMismatch, CallsLeft, StatesAreFresh,
     CodeIsSpent, SessionIsOfOneServer, TokenIsOfThatServer, Following,
     RedeemedWhereIssued, ProofsMatchToken, FollowsTheResource, answers,
     session, Ended
<1>12. CASE DirectGrant
  <2>1. /\ DirectScenario /\ pc = "grant" /\ pc' \in {"post", "failed"}
        /\ UNCHANGED <<world, resource, answers, request, session, state_counter_, exchange, token>>
    BY <1>12 DEF DirectGrant
  <2>2. scenario' # "authorization-server-migration"
    BY <2>1 DEF DirectScenario, DirectGrants, world
  <2>3. code' = NoCode
    BY <1>0, <2>1 DEF Consistent, CodeIsSpent, exchange
  <2>4. CallsLeft' /\ StatesAreFresh' /\ CodeIsSpent'
    BY <1>0, <2>1, <2>3 DEF Consistent, CallsLeft, Ended, StatesAreFresh,
       CodeIsSpent, answers, request
  <2>5. SessionIsOfOneServer'
    BY <1>0, <2>1 DEF Consistent, SessionIsOfOneServer, world, session
  <2>6. TokenIsOfThatServer' /\ Following' /\ RedeemedWhereIssued' /\ ProofsMatchToken'
        /\ FollowsTheResource'
    BY <2>1, <2>2, <2>3 DEF TokenIsOfThatServer, Following, RedeemedWhereIssued,
       ProofsMatchToken,
       FollowsTheResource
  <2> QED
    BY <2>4, <2>5, <2>6 DEF Consistent
<1>13. CASE StartAuthorization
  BY <1>0, <1>13 DEF Consistent, StartAuthorization, Authorize, NextState,
     CallsLeft, StatesAreFresh, CodeIsSpent, SessionIsOfOneServer,
     TokenIsOfThatServer, Following, RedeemedWhereIssued, ProofsMatchToken,
     FollowsTheResource, world, request, exchange, Ended
<1>14. CASE StartSession
  BY <1>0, <1>14 DEF Consistent, StartSession, Authorize, NextState,
     CallsLeft, StatesAreFresh, CodeIsSpent, SessionIsOfOneServer,
     TokenIsOfThatServer, Following, RedeemedWhereIssued, ProofsMatchToken,
     FollowsTheResource, world, request, exchange, Ended
<1>15. CASE RequestScopeUpgrade
  BY <1>0, <1>15 DEF Consistent, RequestScopeUpgrade, Authorize, NextState,
     CallsLeft, StatesAreFresh, CodeIsSpent, SessionIsOfOneServer,
     TokenIsOfThatServer, Following, RedeemedWhereIssued, ProofsMatchToken,
     FollowsTheResource, world, request, exchange, Ended
<1>16. CASE NonceDemanded
  BY <1>0, <1>16 DEF Consistent, NonceDemanded, CallsLeft, StatesAreFresh,
     CodeIsSpent, SessionIsOfOneServer, TokenIsOfThatServer, Following,
     RedeemedWhereIssued, ProofsMatchToken, FollowsTheResource, world, answers,
     request, session, Ended
<1>17. CASE TokenGranted
  <2>1. /\ pc = "post" /\ pc' = "calling" /\ code' = NoCode
        /\ tokenBy' = authorization_server_
        /\ tokenBound' = (dpop_enabled_ /\ "dpop" \in advertises[authorization_server_])
        /\ UNCHANGED <<world, answers, request, session, state_counter_>>
    BY <1>17 DEF TokenGranted
  <2>2. configured_ /\ (dpop_enabled_ => "dpop" \in advertises[authorization_server_])
    BY <1>0, <2>1 DEF Consistent, SessionIsOfOneServer
  <2>3. TokenIsOfThatServer' /\ ProofsMatchToken'
    BY <2>1, <2>2 DEF TokenIsOfThatServer, ProofsMatchToken, Signed, session
  <2>4. SessionIsOfOneServer'
    BY <1>0, <2>1 DEF Consistent, SessionIsOfOneServer, world, session
  <2>5. /\ CallsLeft' /\ StatesAreFresh' /\ CodeIsSpent' /\ Following'
        /\ RedeemedWhereIssued' /\ FollowsTheResource'
    BY <1>0, <2>1 DEF Consistent, CallsLeft, Ended, StatesAreFresh, CodeIsSpent,
       Following,
       RedeemedWhereIssued, FollowsTheResource, answers, request
  <2> QED
    BY <2>3, <2>4, <2>5 DEF Consistent
<1>18. CASE UNCHANGED vars
  BY <1>0, <1>18 DEF Consistent, vars, CallsLeft, StatesAreFresh,
     CodeIsSpent, SessionIsOfOneServer, TokenIsOfThatServer, Following,
     RedeemedWhereIssued, ProofsMatchToken, FollowsTheResource, world,
     resource, answers, request, session, exchange, token, Ended, Signed
<1>19. CASE CompleteAuthorization
  <2>1. PICK fresh \in FreshAnswers : \E r \in {fresh} \cup redirects :
          TakeAnswer(fresh, r) \/ RefuseAnswer(fresh, r)
    BY <1>19 DEF CompleteAuthorization
  <2>2. PICK r \in {fresh} \cup redirects :
          TakeAnswer(fresh, r) \/ RefuseAnswer(fresh, r)
    BY <2>1
  <2>3. /\ pc = "authorize" /\ pc' \in {"post", "failed"} /\ redirects' = redirects \cup {fresh}
        /\ UNCHANGED <<world, resource, authorizations, request, session, state_counter_, token>>
    BY <2>2 DEF TakeAnswer, RefuseAnswer, AnswerArrives
  <2>4. /\ configured_ /\ authorization_server_ # "none"
        /\ issuer = "empty" \/ servers = {} \/ issuer \in servers
    BY <1>0, <2>3 DEF Consistent, SessionIsOfOneServer
  <2>5. /\ fresh \in Redirects /\ fresh.state = state_counter_ /\ fresh.for = authorizations
        /\ fresh.iss \in {fresh.by, "absent"}
    BY <1>0, <2>3, <2>4, FreshTypes
  <2>6. state_counter_ = authorizations
        /\ \A q \in redirects : q.state = q.for /\ q.iss \in {q.by, "absent"}
    BY <1>0 DEF Consistent, StatesAreFresh
  <2>7. StatesAreFresh'
    BY <2>3, <2>5, <2>6 DEF StatesAreFresh
  <2>8. /\ r.state = r.for /\ r.iss \in {r.by, "absent"} /\ r.by \in AuthServers
    <3>1. r \in Redirects
      BY <1>0, <2>5 DEF TypeOK, AnswersType
    <3> QED
      BY <2>5, <2>6, <3>1 DEF Redirects
  <2>9. ASSUME TakeAnswer(fresh, r) PROVE RedeemedWhereIssued' /\ CodeIsSpent'
    <3>1. code' = r /\ pc' = "post" /\ r.state = state_counter_ /\ IssAccepted(r)
      BY <2>9 DEF TakeAnswer
    <3>2. "iss" \in metadata =>
            /\ r.by = issuer
            /\ servers = {authorization_server_} => r.by = authorization_server_
      BY <2>4, <2>8, <3>1, ServersAssumption DEF IssAccepted
    <3>3. RedeemedWhereIssued' /\ CodeIsSpent'
      BY <2>3, <2>6, <2>8, <3>1, <3>2 DEF RedeemedWhereIssued, CodeIsSpent, session
    <3> QED
      BY <3>3
  <2>10. ASSUME RefuseAnswer(fresh, r) PROVE RedeemedWhereIssued' /\ CodeIsSpent'
    BY <2>10 DEF RefuseAnswer, RedeemedWhereIssued, CodeIsSpent
  <2>11. RedeemedWhereIssued' /\ CodeIsSpent'
    BY <2>2, <2>9, <2>10
  <2>12. CallsLeft'
    BY <1>0, <2>3 DEF Consistent, CallsLeft, Ended, request
  <2>13. SessionIsOfOneServer'
    BY <1>0, <2>3 DEF Consistent, SessionIsOfOneServer, world, session
  <2>14. FollowsTheResource'
    BY <1>0, <2>3 DEF Consistent, FollowsTheResource, world, session, request
  <2>15. TokenIsOfThatServer' /\ Following' /\ ProofsMatchToken'
    BY <2>3 DEF TokenIsOfThatServer, Following, ProofsMatchToken
  <2> QED
    BY <2>7, <2>11, <2>12, <2>13, <2>14, <2>15 DEF Consistent
<1> QED
  BY <1>1, <1>2, <1>3, <1>4, <1>5, <1>6, <1>7, <1>8, <1>9,
     <1>10, <1>11, <1>12, <1>13, <1>14, <1>15, <1>16, <1>17, <1>18, <1>19 DEF Next,
     Session, Environment

\* What holds of the session at every step (type of every variable included).
THEOREM Invariant == Spec => []IInv
<1>1. Init => IInv
  <2>1. SUFFICES ASSUME Init PROVE IInv
    OBVIOUS
  <2>2. WorldType /\ FlagsType /\ ResourceType /\ AnswersType /\ PcType
    BY <2>1, WorldAssumption
       DEF Init, WorldType, FlagsType, ResourceType, AnswersType, PcType
  <2>3. RequestType /\ SessionType /\ ExchangeType /\ TokenType
    BY <2>1 DEF Init, RequestType, SessionType, ExchangeType, TokenType
  <2>4. Consistent
    BY <2>1, ServersAssumption DEF Init, Consistent, CallsLeft,
       StatesAreFresh, CodeIsSpent, SessionIsOfOneServer, TokenIsOfThatServer,
       Following, RedeemedWhereIssued, ProofsMatchToken, FollowsTheResource
  <2> QED
    BY <2>2, <2>3, <2>4 DEF IInv, TypeOK
<1>2. IInv /\ [Next]_vars => IInv'
  BY TypeStep, ConsistentStep DEF IInv
<1> QED
  BY <1>1, <1>2, PTL DEF Spec

\* Every variable keeps its type.
THEOREM TypeCorrect == Spec => []TypeOK
<1>1. IInv => TypeOK
  BY DEF IInv
<1> QED
  BY <1>1, Invariant, PTL

\* A code is redeemed for the authorization in progress only and, if the server
\* announces that it names itself, only if it comes from the server that the
\* metadata names; that is the one that is asked, if the resource lists no other.
THEOREM RedeemsWhereIssued == Spec => []RedeemedWhereIssued
<1>1. IInv => RedeemedWhereIssued
  BY DEF IInv, Consistent
<1> QED
  BY <1>1, Invariant, PTL

\* No server is shown a client identifier that another one registered.
THEOREM KeepsRegistrationsApart == Spec => []RegisteredThere
<1>1. IInv => RegisteredThere
  BY DEF IInv, Consistent, SessionIsOfOneServer, RegisteredThere
<1> QED
  BY <1>1, Invariant, PTL

\* Requests carry a proof exactly if their token is bound to the key.
THEOREM SignsBoundTokens == Spec => []ProofsMatchToken
<1>1. IInv => ProofsMatchToken
  BY DEF IInv, Consistent
<1> QED
  BY <1>1, Invariant, PTL

\* In the migration scenario tokens are asked only of servers the resource has
\* named since it refused the last one.
THEOREM MovesWithTheResource == Spec => []FollowsTheResource
<1>1. IInv => FollowsTheResource
  BY DEF IInv, Consistent
<1> QED
  BY <1>1, Invariant, PTL
=============================================================================
