----------------------------- MODULE MCDiscovery -----------------------------
(* Discovery with the providers RAB and BGB, a police investigator and an  *)
(* officer of RAB.                                                         *)
EXTENDS Discovery, TLC

CONSTANTS police, rab, bgb, alice, bob, held, other, q1

MCOrgOf == [u \in Users |-> IF u = alice THEN police ELSE rab]

(* Both tokens are in RAB's records, one in BGB's.                         *)
MCHeld == [p \in Orgs |-> CASE p = rab -> {held, other}
                             [] p = bgb -> {held}
                             [] OTHER -> {}]

QueryFor(targets) ==
    [user |-> alice, caseError |-> 0, token |-> held, targets |-> targets]

RetryFor(token, targets) ==
    [user |-> alice, query |-> q1, token |-> token, targets |-> targets]

(* One well-formed query.                                                  *)
MCQueryForms == {QueryFor(<<rab, bgb>>)}

(* Retries of both providers, of one twice, of another identifier.         *)
MCRetryForms ==
    {RetryFor(held, <<bgb, rab>>), RetryFor(held, <<rab, rab>>),
     RetryFor(other, <<bgb>>)}

(* Inputs the handlers refuse, too.                                        *)
MCBudgetForms ==
    {QueryFor(<<rab>>), [QueryFor(<<rab>>) EXCEPT !.caseError = 403],
     QueryFor(<<police>>), [QueryFor(<<police>>) EXCEPT !.user = bob]}

MCRefusedRetries ==
    {RetryFor(held, <<police>>), [RetryFor(held, <<rab>>) EXCEPT !.user = bob]}

MCAllForms == MCQueryForms \cup MCBudgetForms
MCAllRetries == MCRetryForms \cup MCRefusedRetries
=============================================================================
