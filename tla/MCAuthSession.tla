--------------------------- MODULE MCAuthSession ---------------------------
EXTENDS AuthSessionProperties

Servers == {"A", "B"}

\* Servers that differ in all they may advertise; the resource starts at either.
MixedAdvertisements ==
  {[as \in Servers |-> IF as = "A" THEN {"iss", "dpop"} ELSE {"cimd"}],
   [as \in Servers |-> IF as = "A" THEN {"iss"} ELSE {"dpop"}]}

\* For the runs with faults, the first of them.
OneAdvertisement ==
  {[as \in Servers |-> IF as = "A" THEN {"iss", "dpop"} ELSE {"cimd"}]}

\* The scenarios left out do what one of these does.
DistinctScenarios ==
  AllScenarios \ {"client-credentials-basic", "wif-jwt-bearer", "other"}
=============================================================================
