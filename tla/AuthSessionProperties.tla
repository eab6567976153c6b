----------------------- MODULE AuthSessionProperties -----------------------
(* What the authorization session owes the authorization servers, the      *)
(* resource and the user of the client.                                    *)
EXTENDS AuthSession

\* A code is only ever sent to the token endpoint for the authorization it was
\* issued for, and, where the server announces that it states its name, only
\* if it comes from the server that the metadata of the session names: the one
\* whose endpoints are used, if the resource lists no other. A list may name
\* several, may be missing, or (2025-03-26-oauth-metadata-backcompat) be made of
\* what the metadata says of itself. Late answers and answers of another server
\* are told apart by the state and the iss parameter (complete_authorization,
\* validate_authorization_server_issuer).
RedeemedWhereIssued ==
  pc = "post" /\ code # NoCode =>
    /\ code.for = authorizations
    /\ "iss" \in metadata =>
         /\ code.by = issuer
         /\ servers = {authorization_server_} => code.by = authorization_server_

\* A client identifier that one server has registered is not used at another,
\* also after the session has moved on (CONFORMANCE_STATUS.md, line 121).
RegisteredThere ==
  pc \in {"authorize", "post"} /\ client \in AuthServers =>
    client = authorization_server_

\* A request carries a proof exactly if its token is bound to the session's
\* key: the flag that dpop_request_signer reads when a request is sent agrees
\* with what it was when the token was granted.
ProofsMatchToken ==
  pc = "calling" /\ tokenBy # "none" => (Signed <=> tokenBound)

\* In the migration scenario the session asks no server for a token that the
\* resource has left before the challenge: a 401 makes it look again, a 403
\* need not.
FollowsTheResource ==
  scenario = "authorization-server-migration" /\ pc \in {"authorize", "post"} =>
    authorization_server_ \in namedSince

\* Neither challenges, nor nonces, nor migrations keep the client busy for ever.
SessionEnds == <>Ended

\* Whatever the migrations and revocations, the client gets its requests through
\* when it can follow the resource and nothing fails for good.
MigrationPasses ==
  scenario = "authorization-server-migration" ~> pc = "passed"

-----------------------------------------------------------------------------
(* The inductive invariant.                                                 *)

\* A client that is not done has a request to send.
CallsLeft == ~Ended => calls > 0

\* Every authorization has its own state, every answer on its way is of one of
\* them, and states the name of its server or none.
StatesAreFresh ==
  /\ state_counter_ = authorizations
  /\ \A r \in redirects : r.state = r.for /\ r.iss \in {r.by, "absent"}

\* A code is held only until it is redeemed.
CodeIsSpent == code # NoCode => pc \in {"post", "failed"}

\* What the session knows belongs to the server it is configured for.
SessionIsOfOneServer ==
  /\ pc \in {"grant", "authorize", "post"} => configured_
  /\ configured_ => /\ authorization_server_ # "none"
                    /\ issuer = "empty" \/ servers = {} \/ issuer \in servers
                    /\ dpop_enabled_ => "dpop" \in advertises[authorization_server_]
  /\ client \in AuthServers => configured_ /\ client = authorization_server_
  /\ ~configured_ => ~dpop_enabled_
  /\ pc = "discover" => ~configured_

\* The token the SDK shows is one of that server's.
TokenIsOfThatServer ==
  pc = "calling" /\ tokenBy # "none" =>
    configured_ /\ tokenBy = authorization_server_

\* Where a session that moves with the resource stands since the challenge.
Following ==
  /\ pc \in {"challenged", "discover"} => named \in namedSince
  /\ pc = "challenged" /\ decision # "authorization" =>
       authorization_server_ \in namedSince
  /\ scenario = "authorization-server-migration" /\ pc = "grant" =>
       authorization_server_ \in namedSince

Consistent ==
  /\ CallsLeft /\ StatesAreFresh /\ CodeIsSpent
  /\ SessionIsOfOneServer /\ TokenIsOfThatServer /\ Following
  /\ RedeemedWhereIssued /\ ProofsMatchToken /\ FollowsTheResource

IInv == TypeOK /\ Consistent
=============================================================================
