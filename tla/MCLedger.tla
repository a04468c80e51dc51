------------------------------ MODULE MCLedger ------------------------------
(* Ledger on small instances.  Its constants are interchangeable: no guard *)
(* names a particular organization, purpose, scope or id.                  *)
EXTENDS Ledger, TLC

MCSymmetry ==
    Permutations(Orgs) \cup Permutations(Purposes) \cup Permutations(Scopes)
        \cup Permutations(QueryIds) \cup Permutations(RequestIds)
=============================================================================
