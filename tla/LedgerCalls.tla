---------------------------- MODULE LedgerCalls ----------------------------
(***************************************************************************)
(* What FabricClient.submit promises the services that call it: a call     *)
(* that returns a record has put it on the ledger, in one atomic step of   *)
(* Ledger between invocation and return; a call that throws may have been  *)
(* refused, may be recorded already, and may even be recorded later.       *)
(* Every error reaches the caller as BLOCKCHAIN_UNAVAILABLE_OR_REJECTED,   *)
(* so these cases look the same to it.                                     *)
(***************************************************************************)
EXTENDS Ledger

CONSTANTS
    Submissions,  \* what clients may submit: msp, recordType and input
    NoProposal    \* the proposal of a call that was not made

RecordFor(s, t, ts) ==
    [recordType |-> s.recordType, input |-> s.input, txId |-> t,
     ledgerTimestamp |-> ts]

ASSUME SubmissionsAssumption ==
    \A s \in Submissions :
        /\ s.msp \in Orgs
        /\ \A t \in TxIds, ts \in Timestamps : RecordFor(s, t, ts) \in LedgerRecord

VARIABLES
    phase,     \* of each call: "idle", "open", "ok" or "failed"
    proposal   \* of each call: the caller's msp and the record asked for

callVars == <<state, phase, proposal>>

Recorded(S, p) == p.record \in S

CallsInit ==
    /\ Init
    /\ phase = [t \in TxIds |-> "idle"]
    /\ proposal = [t \in TxIds |-> NoProposal]

(* The transaction id and the timestamp are the client's.                  *)
Invoke(t) ==
    /\ phase[t] = "idle"
    /\ \E s \in Submissions, ts \in Timestamps :
          proposal' = [proposal EXCEPT ![t] =
                          [msp |-> s.msp, record |-> RecordFor(s, t, ts)]]
    /\ phase' = [phase EXCEPT ![t] = "open"]
    /\ UNCHANGED state

TakeEffect(t) ==
    /\ phase[t] \in {"open", "failed"}
    /\ Accepted(state, proposal[t].msp, proposal[t].record)
    /\ state' = PutState(state, proposal[t].record)
    /\ UNCHANGED <<phase, proposal>>

Return(t) ==
    /\ phase[t] = "open"
    /\ Recorded(state, proposal[t])
    /\ phase' = [phase EXCEPT ![t] = "ok"]
    /\ UNCHANGED <<state, proposal>>

Throw(t) ==
    /\ phase[t] = "open"
    /\ phase' = [phase EXCEPT ![t] = "failed"]
    /\ UNCHANGED <<state, proposal>>

CallsNext ==
    \E t \in TxIds : Invoke(t) \/ TakeEffect(t) \/ Return(t) \/ Throw(t)

CallsSpec == CallsInit /\ [][CallsNext]_callVars

-----------------------------------------------------------------------------
(* Whatever calls are made, and whatever their callers are told, the       *)
(* ledger moves by the transactions of the chaincode.                      *)
OnlyTransactions == Spec
=============================================================================
