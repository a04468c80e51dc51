---------------------------- MODULE FabricLedger ----------------------------
(***************************************************************************)
(* How a chaincode transaction reaches the ledger.  FabricClient.submit    *)
(* proposes it to the caller's own peer, which runs the chaincode on its   *)
(* copy of the world state and returns the reads and the write; the client *)
(* hands this envelope to the ordering service; each peer later applies    *)
(* the block, in which the transaction is valid only if what it read is    *)
(* unchanged.  The client waits for its own peer's verdict, and each of    *)
(* the three waits has a deadline.                                         *)
(*                                                                         *)
(* The endorsement policy is an OR over the member peers, so one           *)
(* endorsement suffices.  A block holds one transaction here: since a peer *)
(* may be any number of blocks behind, larger blocks add no new outcome.   *)
(***************************************************************************)
EXTENDS Integers, Sequences, FiniteSets

CONSTANTS Orgs, Purposes, Scopes, QueryIds, RequestIds, PayloadHashes,
          Timestamps, TxIds, Submissions, NoProposal

VARIABLES
    stage,     \* of each call: how far submitTransaction has come
    proposal,  \* of each call: the caller's msp and the record to write
    reads,     \* of each call: what the endorsing peer held at the keys read
    pending,   \* calls whose envelope the ordering service holds
    chain,     \* the blocks: txId, verdict, and the world state after it
    height     \* of each org's peer: how many blocks it has applied

vars == <<stage, proposal, reads, pending, chain, height>>

WorldAt(n) == IF n = 0 THEN {} ELSE chain[n].world

World == WorldAt(Len(chain))

(* A call is open for its caller until submit returns or throws.           *)
Phase ==
    [t \in TxIds |->
        IF stage[t] \in {"proposed", "endorsed", "sent"} THEN "open"
                                                         ELSE stage[t]]

Calls == INSTANCE LedgerCalls WITH state <- World, phase <- Phase

ASSUME SubmissionsWellFormed ==
    \A s \in Submissions :
        /\ s.msp \in Orgs
        /\ \A t \in TxIds, ts \in Timestamps :
              Calls!RecordFor(s, t, ts) \in Calls!LedgerRecord

ASSUME InstantsAreNumbers == Timestamps \subseteq Int

-----------------------------------------------------------------------------
(* Variant: the write is blind, the key written is not in the read set.    *)
ReadKeysBlindWrite(r) ==
    CASE r.recordType = "QueryRequest" -> {}
      [] r.recordType = "MatchAttestation" ->
            {Calls!QueryKey(r.input.queryId)}
      [] r.recordType = "AccessRequest" ->
            {Calls!QueryKey(r.input.queryId),
             Calls!MatchKey(r.input.queryId, r.input.providerOrg)}
      [] r.recordType = "AuthorizationDecision" ->
            {Calls!AccessKey(r.input.requestId)}
      [] r.recordType = "DisclosureReceipt" ->
            {Calls!AccessKey(r.input.requestId),
             Calls!DecisionKey(r.input.requestId)}

(* The keys the transaction that writes r passes to getState.              *)
ReadKeys(r) ==
    {Calls!Key(r)} \cup
    CASE r.recordType = "QueryRequest" -> {}
      [] r.recordType = "MatchAttestation" ->
            {Calls!QueryKey(r.input.queryId)}
      [] r.recordType = "AccessRequest" ->
            {Calls!QueryKey(r.input.queryId),
             Calls!MatchKey(r.input.queryId, r.input.providerOrg)}
      [] r.recordType = "AuthorizationDecision" ->
            {Calls!AccessKey(r.input.requestId)}
      [] r.recordType = "DisclosureReceipt" ->
            {Calls!AccessKey(r.input.requestId),
             Calls!DecisionKey(r.input.requestId)}

(* The read set of r's transaction run on world state S.                   *)
ReadSet(S, r) == {x \in S : Calls!Key(x) \in ReadKeys(r)}

Init ==
    /\ stage = [t \in TxIds |-> "idle"]
    /\ proposal = [t \in TxIds |-> NoProposal]
    /\ reads = [t \in TxIds |-> {}]
    /\ pending = {}
    /\ chain = <<>>
    /\ height = [o \in Orgs |-> 0]

(* The client makes the proposal: transaction id and timestamp are fixed.  *)
Propose(t) ==
    /\ stage[t] = "idle"
    /\ \E s \in Submissions, ts \in Timestamps :
          proposal' = [proposal EXCEPT ![t] =
              [msp |-> s.msp, record |-> Calls!RecordFor(s, t, ts)]]
    /\ stage' = [stage EXCEPT ![t] = "proposed"]
    /\ UNCHANGED <<reads, pending, chain, height>>

(* The caller's peer runs the chaincode on the blocks it has applied.      *)
Endorse(t) ==
    /\ stage[t] = "proposed"
    /\ LET p == proposal[t]
           S == WorldAt(height[p.msp])
       IN  /\ Calls!Accepted(S, p.msp, p.record)
           /\ reads' = [reads EXCEPT ![t] = ReadSet(S, p.record)]
    /\ stage' = [stage EXCEPT ![t] = "endorsed"]
    /\ UNCHANGED <<proposal, pending, chain, height>>

(* The chaincode throws: no envelope exists.                               *)
Refuse(t) ==
    /\ stage[t] = "proposed"
    /\ LET p == proposal[t]
       IN  ~Calls!Accepted(WorldAt(height[p.msp]), p.msp, p.record)
    /\ stage' = [stage EXCEPT ![t] = "failed"]
    /\ UNCHANGED <<proposal, reads, pending, chain, height>>

Broadcast(t) ==
    /\ stage[t] = "endorsed"
    /\ pending' = pending \cup {t}
    /\ stage' = [stage EXCEPT ![t] = "sent"]
    /\ UNCHANGED <<proposal, reads, chain, height>>

(* An orderer fails before it has replicated the envelope.                 *)
Drop(t) ==
    /\ t \in pending
    /\ pending' = pending \ {t}
    /\ UNCHANGED <<stage, proposal, reads, chain, height>>

(* Variant: validation without the read-conflict check.                    *)
ValidUnchecked(t) == TRUE

(* What the transaction read is still what the world state holds.          *)
Valid(t) == ReadSet(World, proposal[t].record) = reads[t]

(* The next block; an invalid transaction is in it and writes nothing.     *)
CommitBlock(t) ==
    /\ t \in pending
    /\ pending' = pending \ {t}
    /\ chain' = Append(chain,
           [txId |-> t, valid |-> Valid(t),
            world |-> IF Valid(t)
                      THEN Calls!PutState(World, proposal[t].record)
                      ELSE World])
    /\ UNCHANGED <<stage, proposal, reads, height>>

(* Variant: a peer goes on to a block that is not there yet.               *)
DeliverAhead(o) ==
    /\ height' = [height EXCEPT ![o] = @ + 1]
    /\ UNCHANGED <<stage, proposal, reads, pending, chain>>

(* A peer applies the next block it has not applied.                       *)
Deliver(o) ==
    /\ height[o] < Len(chain)
    /\ height' = [height EXCEPT ![o] = @ + 1]
    /\ UNCHANGED <<stage, proposal, reads, pending, chain>>

(* Variant: the client returns on the orderer's acknowledgement, without   *)
(* waiting for the commit status.                                          *)
CommitStatusOnAck(t) ==
    /\ stage[t] = "sent"
    /\ stage' = [stage EXCEPT ![t] = "ok"]
    /\ UNCHANGED <<proposal, reads, pending, chain, height>>

(* The caller's peer tells the verdict once it has applied the block;      *)
(* submitTransaction throws on any verdict but VALID.                      *)
CommitStatus(t) ==
    /\ stage[t] = "sent"
    /\ \E n \in 1..height[proposal[t].msp] :
          /\ chain[n].txId = t
          /\ stage' = [stage EXCEPT ![t] =
                          IF chain[n].valid THEN "ok" ELSE "failed"]
    /\ UNCHANGED <<proposal, reads, pending, chain, height>>

(* Variant: no deadline on the commit status.                              *)
DeadlinePassesBeforeSend(t) ==
    /\ stage[t] \in {"proposed", "endorsed"}
    /\ stage' = [stage EXCEPT ![t] = "failed"]
    /\ UNCHANGED <<proposal, reads, pending, chain, height>>

(* A deadline of 15 s (endorse), 5 s (submit) or 60 s (commit status), a   *)
(* broken connection, or a crash of the calling service.                   *)
DeadlinePasses(t) ==
    /\ stage[t] \in {"proposed", "endorsed", "sent"}
    /\ stage' = [stage EXCEPT ![t] = "failed"]
    /\ UNCHANGED <<proposal, reads, pending, chain, height>>

Next ==
    \/ \E t \in TxIds :
          \/ Propose(t) \/ Endorse(t) \/ Refuse(t) \/ Broadcast(t)
          \/ Drop(t) \/ CommitBlock(t) \/ CommitStatus(t) \/ DeadlinePasses(t)
    \/ \E o \in Orgs : Deliver(o)

Spec == Init /\ [][Next]_vars

(* Deadlines are timers of the client library, they do pass.  Nothing is   *)
(* assumed of the peers or the ordering service.                           *)
FairSpec == Spec /\ \A t \in TxIds : WF_vars(DeadlinePasses(t))

-----------------------------------------------------------------------------
(* Properties.                                                             *)

Block == [txId : TxIds, valid : BOOLEAN, world : SUBSET Calls!LedgerRecord]

TypeOK ==
    /\ stage \in [TxIds -> {"idle", "proposed", "endorsed", "sent", "ok",
                            "failed"}]
    /\ \A t \in TxIds : stage[t] # "idle" =>
          /\ proposal[t].msp \in Orgs
          /\ proposal[t].record \in Calls!LedgerRecord
          /\ proposal[t].record.txId = t
    /\ DOMAIN proposal = TxIds
    /\ reads \in [TxIds -> SUBSET Calls!LedgerRecord]
    /\ pending \subseteq TxIds
    /\ chain \in Seq(Block)
    /\ height \in [Orgs -> 0..Len(chain)]

(* The services may treat submit as an atomic, possibly unacknowledged     *)
(* transaction of the chaincode: stale endorsements, lagging peers and     *)
(* lost envelopes never show in the ledger.                                *)
ImplementsCalls == Calls!CallsSpec

(* What is on the ledger of lagging peers and late envelopes is what some  *)
(* run of the chaincode's transactions, one after the other, leaves.       *)
OnlyTransactions == Calls!OnlyTransactions

(* A record the caller was told of is on the ledger and readable at the    *)
(* caller's own peer from then on.                                         *)
AcknowledgedIsReadable ==
    \A t \in TxIds : stage[t] = "ok" =>
        proposal[t].record \in WorldAt(height[proposal[t].msp])

(* Of concurrent calls that claim the same key, at most one is told that   *)
(* it succeeded, whichever peers endorsed them.                            *)
OneWinnerPerKey ==
    \A t, u \in TxIds :
        /\ stage[t] = "ok"
        /\ stage[u] = "ok"
        /\ Calls!Key(proposal[t].record) = Calls!Key(proposal[u].record)
        => t = u

(* Peers that lag disagree about how much is on the ledger, never about    *)
(* what: of two peers one has everything the other has.                    *)
PeersAgree ==
    \A o, p \in Orgs : height[o] <= height[p] =>
        WorldAt(height[o]) \subseteq WorldAt(height[p])

(* No call waits for ever, even when its envelope is lost.                 *)
EveryCallReturns ==
    \A t \in TxIds : stage[t] = "proposed" ~> stage[t] \in {"ok", "failed"}
=============================================================================
