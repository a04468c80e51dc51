---------------------------- MODULE MCDisclosure ----------------------------
(* Disclosure between police, who asks, and RAB, about one query.          *)
EXTENDS Disclosure, TLC

CONSTANTS police, rab, q, purpose, a1, identity, contact, discovery

(* RAB's record has every field, or not.                                   *)
MCAllFields == [p \in Orgs |-> Scopes]
MCFields == [p \in Orgs |-> {identity}]
MCPayloads == SUBSET Scopes

MCSymmetry == Permutations(Decisions) \cup Permutations(Disclosures)

(* The query and RAB's match.                                              *)
MCSubmissions ==
    {[msp |-> police, recordType |-> "QueryRequest",
      input |-> [queryId |-> q, requesterOrg |-> police,
                 purposeCode |-> purpose, targetOrganizations |-> {rab}]],
     [msp |-> rab, recordType |-> "MatchAttestation",
      input |-> [queryId |-> q, providerOrg |-> rab, result |-> "MATCH"]]}

Ask(org, provider) ==
    [org |-> org, queryId |-> q, providerOrg |-> provider,
     requestedScopes |-> Scopes]

Decide(org, decision, scopes) ==
    [org |-> org, requestId |-> a1, decision |-> decision,
     approvedScopes |-> scopes]

Disclose(org, route, id) == [org |-> org, route |-> route, id |-> id]

MCAccessForms == {Ask(police, rab)}

(* The handlers refuse a provider that is not in this mode.                *)
MCAnyAccess == {Ask(police, rab), Ask(police, police)}

(* The officers disagree, and police is no provider in this mode.          *)
MCDisagreement ==
    {Decide(rab, "PARTIAL", {identity}), Decide(rab, "DENY", {}),
     Decide(police, "DENY", {})}

(* Decisions of the wrong agency, or whose scopes do not fit; in the answer*)
(* to APPROVE the scopes sent along are ignored.                           *)
MCAnyDecision ==
    {Decide(rab, "PARTIAL", {identity}), Decide(rab, "APPROVE", {identity}),
     Decide(rab, "PARTIAL", Scopes), Decide(police, "DENY", {})}

MCPartial == {Decide(rab, "PARTIAL", {identity})}

MCByEitherRoute ==
    {Disclose(police, "query", q), Disclose(police, "request", a1)}

MCByRequest == {Disclose(police, "request", a1)}

(* Calls of the wrong agency, too.                                         *)
MCAnyDisclosure ==
    {Disclose(org, route[1], route[2]) :
        org \in Orgs, route \in {<<"query", q>>, <<"request", a1>>}}
=============================================================================
