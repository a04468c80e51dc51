--------------------------- MODULE MCProviderDesk ---------------------------
(* Three requests: two in queries of their own, one of which asks for a    *)
(* single scope, and one of another provider, in the query of the first.   *)
EXTENDS ProviderDesk, TLC

CONSTANTS r1, r2, foreign, q1, q2, d1, d2, client

MCQueryOf == (r1 :> q1) @@ (r2 :> q2) @@ (foreign :> q1)
MCRequested == (r1 :> <<"name", "phone">>) @@ (r2 :> <<"phone">>)
               @@ (foreign :> <<"name">>)

MCPost(r, decision, scopes) ==
    [request |-> r, body |-> [decision |-> decision, approvedScopes |-> scopes]]

(* A call for every way to go wrong, and one for another provider.         *)
MCCalls ==
    {MCPost(r1, "APPROVE", <<"other">>),
     MCPost(r1, "PARTIAL", <<"name", "phone">>),
     MCPost(r2, "PARTIAL", <<"phone", "phone">>),
     MCPost(foreign, "APPROVE", <<"name">>)}

SameDesks == Permutations({d1, d2})
=============================================================================
