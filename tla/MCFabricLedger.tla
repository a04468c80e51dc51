--------------------------- MODULE MCFabricLedger ---------------------------
(* FabricLedger with two agencies.  The submissions compete for one query  *)
(* id and for one match key; the match also depends on the query.          *)
EXTENDS FabricLedger

CONSTANTS police, rab, q, purpose

Query(targets) ==
    [msp |-> police, recordType |-> "QueryRequest",
     input |-> [queryId |-> q, requesterOrg |-> police,
                purposeCode |-> purpose, targetOrganizations |-> targets]]

Match(result) ==
    [msp |-> rab, recordType |-> "MatchAttestation",
     input |-> [queryId |-> q, providerOrg |-> rab, result |-> result]]

MCSubmissions ==
    {Query({rab}), Query({police}), Match("MATCH"), Match("NO_MATCH")}
=============================================================================
