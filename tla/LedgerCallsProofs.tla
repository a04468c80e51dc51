------------------------- MODULE LedgerCallsProofs -------------------------
(* The callers of submit, whatever they are told, only ever cause chaincode*)
(* transactions: LedgerCalls implements Ledger, and so has its invariants. *)
EXTENDS LedgerCalls, LedgerProofs

(* The proposal of a call that was made is well formed.                    *)
ProposalOK ==
    \A t \in TxIds : phase[t] # "idle" =>
        /\ proposal[t].msp \in Orgs
        /\ proposal[t].record \in LedgerRecord

CallsInv ==
    /\ phase \in [TxIds -> {"idle", "open", "ok", "failed"}]
    /\ DOMAIN proposal = TxIds
    /\ ProposalOK

LEMMA CallsInvariance == CallsSpec => []CallsInv
<1>1. CallsInit => CallsInv
  BY DEF CallsInit, CallsInv, ProposalOK
<1>2. CallsInv /\ [CallsNext]_callVars => CallsInv'
  <2> SUFFICES ASSUME CallsInv, [CallsNext]_callVars PROVE CallsInv'
    OBVIOUS
  <2>1. ASSUME NEW t \in TxIds, Invoke(t) PROVE CallsInv'
    <3>1. PICK s \in Submissions, ts \in Timestamps :
              proposal' = [proposal EXCEPT ![t] =
                              [msp |-> s.msp, record |-> RecordFor(s, t, ts)]]
      BY <2>1 DEF Invoke
    <3>2. s.msp \in Orgs /\ RecordFor(s, t, ts) \in LedgerRecord
      BY SubmissionsAssumption
    <3> QED
      BY <2>1, <3>1, <3>2 DEF Invoke, CallsInv, ProposalOK
  <2>2. ASSUME NEW t \in TxIds, TakeEffect(t) PROVE CallsInv'
    BY <2>2 DEF TakeEffect, CallsInv, ProposalOK
  <2>3. ASSUME NEW t \in TxIds, Return(t) PROVE CallsInv'
    BY <2>3 DEF Return, CallsInv, ProposalOK
  <2>4. ASSUME NEW t \in TxIds, Throw(t) PROVE CallsInv'
    BY <2>4 DEF Throw, CallsInv, ProposalOK
  <2>5. CASE UNCHANGED callVars
    BY <2>5 DEF callVars, CallsInv, ProposalOK
  <2> QED
    BY <2>1, <2>2, <2>3, <2>4, <2>5 DEF CallsNext
<1> QED
  BY <1>1, <1>2, PTL DEF CallsSpec

(* Whatever the callers do, the ledger moves by chaincode transactions.    *)
THEOREM CallsAreTransactions == CallsSpec => OnlyTransactions
<1>1. CallsInit => Init
  BY DEF CallsInit
<1>2. CallsInv /\ [CallsNext]_callVars => [Next]_state
  <2> SUFFICES ASSUME CallsInv, NEW t \in TxIds, TakeEffect(t) PROVE Next
    BY DEF CallsNext, callVars, Invoke, Return, Throw
  <2>1. proposal[t].msp \in Orgs /\ proposal[t].record \in LedgerRecord
    BY DEF TakeEffect, CallsInv, ProposalOK
  <2> QED
    BY <2>1, AcceptedIsTransaction DEF TakeEffect
<1> QED
  BY <1>1, <1>2, CallsInvariance, PTL
     DEF CallsSpec, OnlyTransactions, Spec
=============================================================================
