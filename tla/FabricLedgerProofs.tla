------------------------- MODULE FabricLedgerProofs -------------------------
(***************************************************************************)
(* FabricLedger implements LedgerCalls for any number of peers, calls and  *)
(* submissions, however far the peers lag and whatever envelopes are lost. *)
(*                                                                         *)
(* The argument: an envelope's read set determines whether the chaincode   *)
(* accepts it (ReadSetDecides), so a transaction that validates against    *)
(* the head of the chain would be accepted there too, although it was      *)
(* endorsed on an older world state.  A block therefore either writes what *)
(* the atomic chaincode could write now, or nothing.                       *)
(***************************************************************************)
EXTENDS FabricLedger, TLAPS

(* An envelope was made by a run of the chaincode on some earlier block.   *)
Endorsed(t) ==
    \E n \in 0..Len(chain) :
        /\ Calls!Accepted(WorldAt(n), proposal[t].msp, proposal[t].record)
        /\ reads[t] = ReadSet(WorldAt(n), proposal[t].record)

InFlight(t) == stage[t] \in {"endorsed", "sent"} \/ t \in pending

EnvelopesEndorsed ==
    \A t \in TxIds : InFlight(t) => stage[t] # "idle" /\ Endorsed(t)

(* A pending call is not settled for its caller, unless it gave up.        *)
PendingIsUnsettled ==
    \A t \in pending :
        /\ stage[t] \in {"sent", "failed"}
        /\ \A n \in 1..Len(chain) : chain[n].txId # t

(* A block belongs to a call that sent its envelope, and holds its record  *)
(* when it is valid.                                                       *)
BlocksOfCalls ==
    \A n \in 1..Len(chain) :
        /\ stage[chain[n].txId] \in {"sent", "ok", "failed"}
        /\ chain[n].valid => proposal[chain[n].txId].record \in chain[n].world

(* The world state only grows along the chain.                             *)
ChainGrows ==
    \A m, n \in 0..Len(chain) : m <= n => WorldAt(m) \subseteq WorldAt(n)

KeysUnique ==
    \A x, y \in World : Calls!Key(x) = Calls!Key(y) => x = y

(* A call that returned has a valid block that its peer has applied.       *)
OkIsCommitted ==
    \A t \in TxIds : stage[t] = "ok" =>
        \E n \in 1..height[proposal[t].msp] :
            chain[n].txId = t /\ chain[n].valid

Inv ==
    /\ TypeOK
    /\ EnvelopesEndorsed
    /\ PendingIsUnsettled
    /\ BlocksOfCalls
    /\ ChainGrows
    /\ KeysUnique
    /\ OkIsCommitted

-----------------------------------------------------------------------------
(* Two world states that agree on the keys a transaction reads give it the *)
(* same answer.                                                            *)
LEMMA ReadSetDecides ==
    ASSUME NEW S, NEW T, NEW r \in Calls!LedgerRecord, NEW msp,
           ReadSet(S, r) = ReadSet(T, r), Calls!Accepted(S, msp, r)
    PROVE  Calls!Accepted(T, msp, r)
<1>1. \A k \in ReadKeys(r) : Calls!Get(S, k) = Calls!Get(T, k)
  BY DEF ReadSet, Calls!Get
<1>2. Calls!KeyFree(T, r)
  BY <1>1 DEF ReadKeys, Calls!Accepted, Calls!KeyFree
<1>3. CASE r.recordType = "QueryRequest"
  BY <1>2, <1>3 DEF Calls!Accepted, Calls!QueryAccepted
<1>4. CASE r.recordType = "MatchAttestation"
  <2>1. Calls!QueryKey(r.input.queryId) \in ReadKeys(r)
    BY <1>4 DEF ReadKeys
  <2> QED
    BY <1>1, <1>2, <1>4, <2>1 DEF Calls!Accepted, Calls!MatchAccepted
<1>5. CASE r.recordType = "AccessRequest"
  <2>1. /\ Calls!QueryKey(r.input.queryId) \in ReadKeys(r)
        /\ Calls!MatchKey(r.input.queryId, r.input.providerOrg) \in ReadKeys(r)
    BY <1>5 DEF ReadKeys
  <2> QED
    BY <1>1, <1>2, <1>5, <2>1 DEF Calls!Accepted, Calls!AccessAccepted
<1>6. CASE r.recordType = "AuthorizationDecision"
  <2>1. Calls!AccessKey(r.input.requestId) \in ReadKeys(r)
    BY <1>6 DEF ReadKeys
  <2> QED
    BY <1>1, <1>2, <1>6, <2>1 DEF Calls!Accepted, Calls!DecisionAccepted
<1>7. CASE r.recordType = "DisclosureReceipt"
  <2>1. /\ Calls!AccessKey(r.input.requestId) \in ReadKeys(r)
        /\ Calls!DecisionKey(r.input.requestId) \in ReadKeys(r)
    BY <1>7 DEF ReadKeys
  <2> QED
    BY <1>1, <1>2, <1>7, <2>1 DEF Calls!Accepted, Calls!ReceiptAccepted
<1> QED
  BY <1>3, <1>4, <1>5, <1>6, <1>7
     DEF Calls!LedgerRecord, Calls!QueryRequest, Calls!MatchAttestation,
         Calls!AccessRequest, Calls!AuthorizationDecision,
         Calls!DisclosureReceipt, Calls!RecordOf

(* A valid transaction is accepted by the chaincode at the head of the     *)
(* chain, whatever block it was endorsed on.                               *)
LEMMA ValidIsAccepted ==
    ASSUME Inv, NEW t \in pending, Valid(t)
    PROVE  /\ stage[t] # "idle"
           /\ Calls!Accepted(World, proposal[t].msp, proposal[t].record)
<1>1. t \in TxIds /\ stage[t] # "idle" /\ Endorsed(t)
  BY DEF Inv, TypeOK, EnvelopesEndorsed, InFlight
<1>2. PICK n \in 0..Len(chain) :
          /\ Calls!Accepted(WorldAt(n), proposal[t].msp, proposal[t].record)
          /\ reads[t] = ReadSet(WorldAt(n), proposal[t].record)
  BY <1>1 DEF Endorsed
<1>3. proposal[t].record \in Calls!LedgerRecord
  BY <1>1 DEF Inv, TypeOK
<1> QED
  BY <1>1, <1>2, <1>3, ReadSetDecides DEF Valid

LEMMA ChainTyped ==
    ASSUME TypeOK
    PROVE  /\ Len(chain) \in Nat
           /\ \A n \in 1..Len(chain) : /\ chain[n] \in Block
                                       /\ chain[n].txId \in TxIds
           /\ \A n \in 0..Len(chain) : WorldAt(n) \subseteq Calls!LedgerRecord
<1>1. chain \in Seq(Block)
  BY DEF TypeOK
<1>2. Len(chain) \in Nat /\ \A n \in 1..Len(chain) : chain[n] \in Block
  BY <1>1
<1>3. \A b \in Block : b.txId \in TxIds /\ b.world \subseteq Calls!LedgerRecord
  BY DEF Block
<1>4. \A n \in 0..Len(chain) : WorldAt(n) \subseteq Calls!LedgerRecord
  <2> SUFFICES ASSUME NEW n \in 0..Len(chain)
               PROVE  WorldAt(n) \subseteq Calls!LedgerRecord
    OBVIOUS
  <2>1. CASE n = 0
    BY <2>1 DEF WorldAt
  <2>2. CASE n \in 1..Len(chain)
    BY <1>2, <1>3, <2>2 DEF WorldAt
  <2> QED
    BY <1>2, <2>1, <2>2
<1> QED
  BY <1>2, <1>3, <1>4

LEMMA PutFresh ==
    ASSUME NEW S, NEW r, Calls!KeyFree(S, r)
    PROVE  Calls!PutState(S, r) = S \cup {r}
BY DEF Calls!KeyFree, Calls!PutState, Calls!Get

-----------------------------------------------------------------------------
(* What a block adds: nothing, or one record under a free key.             *)
LEMMA BlockAppends ==
    ASSUME Inv, NEW t \in TxIds, CommitBlock(t)
    PROVE  /\ Len(chain') = Len(chain) + 1
           /\ \A n \in 1..Len(chain) : chain'[n] = chain[n]
           /\ chain'[Len(chain) + 1] \in Block
           /\ chain'[Len(chain) + 1].txId = t
           /\ chain' \in Seq(Block)
           /\ \A n \in 0..Len(chain) : WorldAt(n)' = WorldAt(n)
           /\ World' = chain'[Len(chain) + 1].world
           /\ \/ /\ chain'[Len(chain) + 1].valid = FALSE
                 /\ World' = World
              \/ /\ chain'[Len(chain) + 1].valid = TRUE
                 /\ Calls!Accepted(World, proposal[t].msp, proposal[t].record)
                 /\ World' = World \cup {proposal[t].record}
<1> DEFINE b == [txId |-> t, valid |-> Valid(t),
                 world |-> IF Valid(t)
                           THEN Calls!PutState(World, proposal[t].record)
                           ELSE World]
<1>1. chain' = Append(chain, b) /\ t \in pending
  BY DEF CommitBlock
<1>2. chain \in Seq(Block) /\ Len(chain) \in Nat
  BY DEF Inv, TypeOK, Block
<1>3. World \subseteq Calls!LedgerRecord
  BY <1>2, ChainTyped DEF Inv, World
<1>4. ASSUME Valid(t)
      PROVE  /\ Calls!Accepted(World, proposal[t].msp, proposal[t].record)
             /\ b.world = World \cup {proposal[t].record}
             /\ proposal[t].record \in Calls!LedgerRecord
  <2>1. /\ stage[t] # "idle"
        /\ Calls!Accepted(World, proposal[t].msp, proposal[t].record)
    BY <1>1, <1>4, ValidIsAccepted
  <2>2. Calls!KeyFree(World, proposal[t].record)
    BY <2>1 DEF Calls!Accepted
  <2>3. proposal[t].record \in Calls!LedgerRecord
    BY <2>1 DEF Inv, TypeOK
  <2> QED
    BY <1>4, <2>1, <2>2, <2>3, PutFresh
<1>5. Valid(t) \in BOOLEAN
  BY DEF Valid
<1>6. b \in Block
  <2>1. b.world \subseteq Calls!LedgerRecord
    BY <1>3, <1>4
  <2> QED
    BY <1>5, <2>1 DEF Block
<1> HIDE DEF b
<1>7. /\ Len(chain') = Len(chain) + 1
      /\ chain'[Len(chain) + 1] = b
      /\ chain' \in Seq(Block)
      /\ \A n \in 1..Len(chain) : chain'[n] = chain[n]
  BY <1>1, <1>2, <1>6
<1>8. \A n \in 0..Len(chain) : WorldAt(n)' = WorldAt(n)
  BY <1>2, <1>7 DEF WorldAt
<1>9. World' = b.world
  BY <1>2, <1>7 DEF World, WorldAt
<1>10. b.txId = t /\ b.valid = Valid(t) /\ (~Valid(t) => b.world = World)
  BY DEF b
<1> QED
  BY <1>4, <1>5, <1>6, <1>7, <1>8, <1>9, <1>10

-----------------------------------------------------------------------------
(* A step of one call before its envelope exists, or after: the chain and  *)
(* the peers stay as they are.                                             *)
LEMMA SameChainSameWorlds ==
    ASSUME chain' = chain
    PROVE  /\ \A n : WorldAt(n)' = WorldAt(n)
           /\ World' = World
           /\ Len(chain)' = Len(chain)
BY DEF World, WorldAt

LEMMA ProposeKeepsInv ==
    ASSUME Inv, NEW t \in TxIds, Propose(t)
    PROVE  Inv'
<1>1. PICK s \in Submissions, ts \in Timestamps :
          proposal' = [proposal EXCEPT ![t] =
              [msp |-> s.msp, record |-> Calls!RecordFor(s, t, ts)]]
  BY DEF Propose
<1>2. /\ s.msp \in Orgs
      /\ Calls!RecordFor(s, t, ts) \in Calls!LedgerRecord
      /\ Calls!RecordFor(s, t, ts).txId = t
  BY SubmissionsWellFormed DEF Calls!RecordFor
<1>3. /\ stage[t] = "idle"
      /\ stage' = [stage EXCEPT ![t] = "proposed"]
      /\ UNCHANGED <<reads, pending, chain, height>>
  BY DEF Propose
<1>4. TypeOK'
  BY <1>1, <1>2, <1>3 DEF Inv, TypeOK
<1>5. t \notin pending
  BY <1>3 DEF Inv, PendingIsUnsettled
<1>6. \A u \in TxIds : u # t => stage'[u] = stage[u] /\ proposal'[u] = proposal[u]
  BY <1>1, <1>3 DEF Inv, TypeOK
<1>7. stage'[t] = "proposed"
  BY <1>3 DEF Inv, TypeOK
<1>8. EnvelopesEndorsed'
  BY <1>3, <1>5, <1>6, <1>7, SameChainSameWorlds
     DEF Inv, EnvelopesEndorsed, InFlight, Endorsed, ReadSet
<1>9. PendingIsUnsettled'
  BY <1>3, <1>5, <1>6 DEF Inv, TypeOK, PendingIsUnsettled
<1>10. BlocksOfCalls'
  <2>1. \A n \in 1..Len(chain) : chain[n].txId \in TxIds /\ chain[n].txId # t
    BY <1>3, ChainTyped DEF Inv, BlocksOfCalls
  <2> QED
    BY <1>3, <1>6, <2>1 DEF Inv, BlocksOfCalls
<1>11. ChainGrows' /\ KeysUnique'
  BY <1>3, SameChainSameWorlds DEF Inv, ChainGrows, KeysUnique
<1>12. OkIsCommitted'
  BY <1>3, <1>6, <1>7 DEF Inv, OkIsCommitted
<1> QED
  BY <1>4, <1>8, <1>9, <1>10, <1>11, <1>12 DEF Inv

(* A step that only moves the stage of one call on.                        *)
LEMMA StageKeepsInv ==
    ASSUME Inv, NEW t \in TxIds, NEW s \in {"sent", "ok", "failed"},
           stage[t] # "idle", stage' = [stage EXCEPT ![t] = s],
           s = "sent" => stage[t] = "endorsed",
           s \in {"ok", "failed"} => stage[t] \in {"proposed", "endorsed", "sent"},
           s = "ok" => /\ stage[t] = "sent"
                       /\ \E n \in 1..height[proposal[t].msp] :
                             chain[n].txId = t /\ chain[n].valid,
           pending' = pending \/ (s = "sent" /\ pending' = pending \cup {t}),
           UNCHANGED <<proposal, reads, chain, height>>
    PROVE  Inv'
<1>1. \A u \in TxIds : u # t => stage'[u] = stage[u]
  BY DEF Inv, TypeOK
<1>2. stage'[t] = s
  BY DEF Inv, TypeOK
<1>3. \A n \in 1..Len(chain) : chain[n].txId \in TxIds
  BY ChainTyped DEF Inv
<1>4. stage[t] = "endorsed" => \A n \in 1..Len(chain) : chain[n].txId # t
  BY DEF Inv, BlocksOfCalls
<1>5. TypeOK'
  BY <1>1, <1>2 DEF Inv, TypeOK
<1>6. EnvelopesEndorsed'
  BY <1>1, <1>2, SameChainSameWorlds
     DEF Inv, EnvelopesEndorsed, InFlight, Endorsed, ReadSet
<1>7. PendingIsUnsettled'
  <2>1. s = "ok" => t \notin pending
    <3> SUFFICES ASSUME s = "ok", t \in pending PROVE FALSE
      OBVIOUS
    <3>1. PICK n \in 1..height[proposal[t].msp] : chain[n].txId = t
      OBVIOUS
    <3>2. n \in 1..Len(chain)
      BY DEF Inv, TypeOK
    <3> QED
      BY <3>1, <3>2 DEF Inv, PendingIsUnsettled
  <2> QED
    BY <1>1, <1>2, <1>4, <2>1 DEF Inv, TypeOK, PendingIsUnsettled
<1>8. BlocksOfCalls'
  BY <1>1, <1>2, <1>3 DEF Inv, BlocksOfCalls
<1>9. ChainGrows' /\ KeysUnique'
  BY SameChainSameWorlds DEF Inv, ChainGrows, KeysUnique
<1>10. OkIsCommitted'
  BY <1>1, <1>2 DEF Inv, OkIsCommitted
<1> QED
  BY <1>5, <1>6, <1>7, <1>8, <1>9, <1>10 DEF Inv

LEMMA EndorseKeepsInv ==
    ASSUME Inv, NEW t \in TxIds, Endorse(t)
    PROVE  Inv'
<1> DEFINE h == height[proposal[t].msp]
<1>1. /\ stage[t] = "proposed"
      /\ Calls!Accepted(WorldAt(h), proposal[t].msp, proposal[t].record)
      /\ reads' = [reads EXCEPT ![t] = ReadSet(WorldAt(h), proposal[t].record)]
      /\ stage' = [stage EXCEPT ![t] = "endorsed"]
      /\ UNCHANGED <<proposal, pending, chain, height>>
  BY DEF Endorse
<1>2. h \in 0..Len(chain) /\ h \in Nat
  BY <1>1 DEF Inv, TypeOK
<1>3. /\ \A u \in TxIds : u # t => stage'[u] = stage[u] /\ reads'[u] = reads[u]
      /\ stage'[t] = "endorsed"
      /\ reads'[t] = ReadSet(WorldAt(h), proposal[t].record)
  BY <1>1 DEF Inv, TypeOK
<1>4. WorldAt(h) \subseteq Calls!LedgerRecord
  BY <1>2, ChainTyped DEF Inv
<1>5. TypeOK'
  <2>1. ReadSet(WorldAt(h), proposal[t].record) \subseteq Calls!LedgerRecord
    BY <1>4 DEF ReadSet
  <2> QED
    BY <1>1, <1>3, <2>1 DEF Inv, TypeOK
<1>6. Endorsed(t)'
  BY <1>1, <1>2, <1>3, SameChainSameWorlds DEF Endorsed, ReadSet
<1>7. EnvelopesEndorsed'
  BY <1>1, <1>3, <1>6, SameChainSameWorlds
     DEF Inv, EnvelopesEndorsed, InFlight, Endorsed, ReadSet
<1>8. t \notin pending /\ \A n \in 1..Len(chain) : chain[n].txId # t
  BY <1>1 DEF Inv, PendingIsUnsettled, BlocksOfCalls
<1>9. PendingIsUnsettled'
  BY <1>1, <1>3, <1>8 DEF Inv, TypeOK, PendingIsUnsettled
<1>10. BlocksOfCalls'
  <2>1. \A n \in 1..Len(chain) : chain[n].txId \in TxIds
    BY ChainTyped DEF Inv
  <2> QED
    BY <1>1, <1>3, <1>8, <2>1 DEF Inv, BlocksOfCalls
<1>11. ChainGrows' /\ KeysUnique'
  BY <1>1, SameChainSameWorlds DEF Inv, ChainGrows, KeysUnique
<1>12. OkIsCommitted'
  BY <1>1, <1>3 DEF Inv, OkIsCommitted
<1> QED
  BY <1>5, <1>7, <1>9, <1>10, <1>11, <1>12 DEF Inv

LEMMA DropKeepsInv ==
    ASSUME Inv, NEW t \in TxIds, Drop(t)
    PROVE  Inv'
<1>1. pending' \subseteq pending /\ UNCHANGED <<stage, proposal, reads, chain, height>>
  BY DEF Drop
<1>2. TypeOK'
  BY <1>1 DEF Inv, TypeOK
<1>3. EnvelopesEndorsed'
  BY <1>1, SameChainSameWorlds
     DEF Inv, EnvelopesEndorsed, InFlight, Endorsed, ReadSet
<1>4. PendingIsUnsettled' /\ BlocksOfCalls' /\ OkIsCommitted'
  BY <1>1 DEF Inv, PendingIsUnsettled, BlocksOfCalls, OkIsCommitted
<1>5. ChainGrows' /\ KeysUnique'
  BY <1>1, SameChainSameWorlds DEF Inv, ChainGrows, KeysUnique
<1> QED
  BY <1>2, <1>3, <1>4, <1>5 DEF Inv

LEMMA DeliverKeepsInv ==
    ASSUME Inv, NEW o \in Orgs, Deliver(o)
    PROVE  Inv'
<1>1. /\ height[o] < Len(chain)
      /\ height' = [height EXCEPT ![o] = @ + 1]
      /\ UNCHANGED <<stage, proposal, reads, pending, chain>>
  BY DEF Deliver
<1>2. height \in [Orgs -> 0..Len(chain)] /\ Len(chain) \in Nat
  BY DEF Inv, TypeOK
<1>3. /\ height' \in [Orgs -> 0..Len(chain)]
      /\ \A p \in Orgs : height[p] <= height'[p]
  BY <1>1, <1>2
<1>4. TypeOK'
  BY <1>1, <1>3 DEF Inv, TypeOK
<1>5. EnvelopesEndorsed'
  BY <1>1, SameChainSameWorlds
     DEF Inv, EnvelopesEndorsed, InFlight, Endorsed, ReadSet
<1>6. PendingIsUnsettled' /\ BlocksOfCalls'
  BY <1>1 DEF Inv, PendingIsUnsettled, BlocksOfCalls
<1>7. ChainGrows' /\ KeysUnique'
  BY <1>1, SameChainSameWorlds DEF Inv, ChainGrows, KeysUnique
<1>8. OkIsCommitted'
  <2> SUFFICES ASSUME NEW t \in TxIds, stage[t] = "ok"
               PROVE  \E n \in 1..height'[proposal[t].msp] :
                         chain[n].txId = t /\ chain[n].valid
    BY <1>1 DEF OkIsCommitted
  <2>1. PICK n \in 1..height[proposal[t].msp] : chain[n].txId = t /\ chain[n].valid
    BY DEF Inv, OkIsCommitted
  <2>2. proposal[t].msp \in Orgs
    BY DEF Inv, TypeOK
  <2> QED
    BY <1>2, <1>3, <2>1, <2>2
<1> QED
  BY <1>4, <1>5, <1>6, <1>7, <1>8 DEF Inv

LEMMA CommitBlockKeepsInv ==
    ASSUME Inv, NEW t \in TxIds, CommitBlock(t)
    PROVE  Inv'
<1>0. PICK L \in Nat : L = Len(chain)
  BY ChainTyped DEF Inv
<1>1. /\ t \in pending
      /\ pending' = pending \ {t}
      /\ UNCHANGED <<stage, proposal, reads, height>>
  BY DEF CommitBlock
<1>2. /\ Len(chain') = L + 1
      /\ \A n \in 1..L : chain'[n] = chain[n]
      /\ chain'[L + 1].txId = t
      /\ chain' \in Seq(Block)
      /\ \A n \in 0..L : WorldAt(n)' = WorldAt(n)
      /\ World' = chain'[L + 1].world
  BY <1>0, BlockAppends
<1>3. \/ chain'[L + 1].valid = FALSE /\ World' = World
      \/ /\ chain'[L + 1].valid = TRUE
         /\ Calls!Accepted(World, proposal[t].msp, proposal[t].record)
         /\ World' = World \cup {proposal[t].record}
  BY <1>0, BlockAppends
<1>4. L \in Nat /\ L + 1 \in Nat /\ 0..L \subseteq 0..(L + 1)
  BY <1>0
<1>5. World = WorldAt(L) /\ World' = WorldAt(L + 1)'
  BY <1>0, <1>2 DEF World
<1>6. stage[t] \in {"sent", "failed"}
  BY <1>1 DEF Inv, PendingIsUnsettled
<1>7. TypeOK'
  BY <1>0, <1>1, <1>2, <1>4 DEF Inv, TypeOK
<1>8. EnvelopesEndorsed'
  <2> SUFFICES ASSUME NEW u \in TxIds, InFlight(u)' PROVE stage[u] # "idle" /\ Endorsed(u)'
    BY <1>1 DEF EnvelopesEndorsed
  <2>1. stage[u] # "idle" /\ Endorsed(u)
    BY <1>1 DEF Inv, EnvelopesEndorsed, InFlight
  <2>2. PICK n \in 0..L :
            /\ Calls!Accepted(WorldAt(n), proposal[u].msp, proposal[u].record)
            /\ reads[u] = ReadSet(WorldAt(n), proposal[u].record)
    BY <1>0, <2>1 DEF Endorsed
  <2>3. n \in 0..Len(chain') /\ WorldAt(n)' = WorldAt(n)
    BY <1>2, <1>4
  <2> QED
    BY <1>1, <2>1, <2>2, <2>3 DEF Endorsed, ReadSet
<1>9. PendingIsUnsettled'
  BY <1>0, <1>1, <1>2, <1>4 DEF Inv, PendingIsUnsettled
<1>10. BlocksOfCalls'
  <2>1. chain'[L + 1].valid =>
            proposal[t].record \in chain'[L + 1].world
    BY <1>2, <1>3
  <2>2. \A n \in 1..Len(chain') : n \in 1..L \/ n = L + 1
    BY <1>2, <1>4
  <2> QED
    BY <1>0, <1>1, <1>2, <1>6, <2>1, <2>2 DEF Inv, BlocksOfCalls
<1>11. ChainGrows'
  <2>1. World \subseteq World'
    BY <1>3
  <2> SUFFICES ASSUME NEW m \in 0..(L + 1), NEW n \in 0..(L + 1), m <= n
               PROVE  WorldAt(m)' \subseteq WorldAt(n)'
    BY <1>2 DEF ChainGrows
  <2>2. CASE n \in 0..L
    BY <1>0, <1>2, <1>4, <2>2 DEF Inv, ChainGrows
  <2>3. CASE n = L + 1 /\ m \in 0..L
    <3>1. WorldAt(m) \subseteq World
      BY <1>0, <1>4, <1>5, <2>3 DEF Inv, ChainGrows
    <3> QED
      BY <1>2, <1>5, <2>1, <2>3, <3>1
  <2>4. CASE n = L + 1 /\ m = L + 1
    BY <2>4
  <2> QED
    BY <1>4, <2>2, <2>3, <2>4
<1>12. KeysUnique'
  <2>1. CASE World' = World
    BY <2>1 DEF Inv, KeysUnique
  <2>2. CASE /\ Calls!Accepted(World, proposal[t].msp, proposal[t].record)
             /\ World' = World \cup {proposal[t].record}
    BY <2>2 DEF Inv, KeysUnique, Calls!Accepted, Calls!KeyFree, Calls!Get
  <2> QED
    BY <1>3, <2>1, <2>2
<1>13. OkIsCommitted'
  <2> SUFFICES ASSUME NEW u \in TxIds, stage[u] = "ok"
               PROVE  \E n \in 1..height[proposal[u].msp] :
                         chain'[n].txId = u /\ chain'[n].valid
    BY <1>1 DEF OkIsCommitted
  <2>1. PICK n \in 1..height[proposal[u].msp] : chain[n].txId = u /\ chain[n].valid
    BY DEF Inv, OkIsCommitted
  <2>2. n \in 1..L
    BY <1>0 DEF Inv, TypeOK
  <2> QED
    BY <1>2, <2>1, <2>2
<1> QED
  BY <1>7, <1>8, <1>9, <1>10, <1>11, <1>12, <1>13 DEF Inv

(* The verdict of a block that the caller's peer has applied.              *)
LEMMA CommitStatusMoves ==
    ASSUME Inv, NEW t \in TxIds, CommitStatus(t)
    PROVE  /\ stage[t] = "sent"
           /\ UNCHANGED <<proposal, reads, pending, chain, height>>
           /\ \/ stage' = [stage EXCEPT ![t] = "failed"]
              \/ /\ stage' = [stage EXCEPT ![t] = "ok"]
                 /\ \E n \in 1..height[proposal[t].msp] :
                       chain[n].txId = t /\ chain[n].valid
<1>1. PICK n \in 1..height[proposal[t].msp] :
          /\ chain[n].txId = t
          /\ stage' = [stage EXCEPT ![t] = IF chain[n].valid THEN "ok" ELSE "failed"]
  BY DEF CommitStatus
<1>2. CASE chain[n].valid
  BY <1>1, <1>2 DEF CommitStatus
<1>3. CASE ~chain[n].valid
  BY <1>1, <1>3 DEF CommitStatus
<1> QED
  BY <1>2, <1>3

LEMMA NextKeepsInv == Inv /\ [Next]_vars => Inv'
<1> SUFFICES ASSUME Inv, [Next]_vars PROVE Inv'
  OBVIOUS
<1>1. ASSUME NEW t \in TxIds, Propose(t) PROVE Inv'
  BY <1>1, ProposeKeepsInv
<1>2. ASSUME NEW t \in TxIds, Endorse(t) PROVE Inv'
  BY <1>2, EndorseKeepsInv
<1>3. ASSUME NEW t \in TxIds, Refuse(t) PROVE Inv'
  BY <1>3, StageKeepsInv DEF Refuse
<1>4. ASSUME NEW t \in TxIds, Broadcast(t) PROVE Inv'
  BY <1>4, StageKeepsInv DEF Broadcast
<1>5. ASSUME NEW t \in TxIds, Drop(t) PROVE Inv'
  BY <1>5, DropKeepsInv
<1>6. ASSUME NEW t \in TxIds, CommitBlock(t) PROVE Inv'
  BY <1>6, CommitBlockKeepsInv
<1>7. ASSUME NEW t \in TxIds, CommitStatus(t) PROVE Inv'
  BY <1>7, CommitStatusMoves, StageKeepsInv
<1>8. ASSUME NEW t \in TxIds, DeadlinePasses(t) PROVE Inv'
  BY <1>8, StageKeepsInv DEF DeadlinePasses
<1>9. ASSUME NEW o \in Orgs, Deliver(o) PROVE Inv'
  BY <1>9, DeliverKeepsInv
<1>10. CASE UNCHANGED vars
  <2>1. UNCHANGED <<stage, proposal, reads, pending, chain, height>>
    BY <1>10 DEF vars
  <2> QED
    BY <2>1
       DEF Inv, TypeOK, EnvelopesEndorsed, InFlight, Endorsed, ReadSet,
           PendingIsUnsettled, BlocksOfCalls, ChainGrows, KeysUnique,
           OkIsCommitted, World, WorldAt
<1> QED
  BY <1>1, <1>2, <1>3, <1>4, <1>5, <1>6, <1>7, <1>8, <1>9, <1>10 DEF Next

LEMMA Invariance == Spec => []Inv
<1>1. Init => Inv
  <2> SUFFICES ASSUME Init PROVE Inv
    OBVIOUS
  <2>1. chain = <<>> /\ Len(chain) = 0 /\ World = {}
    BY DEF Init, World, WorldAt
  <2>2. TypeOK
    BY <2>1 DEF Init, TypeOK
  <2>3. EnvelopesEndorsed /\ PendingIsUnsettled /\ BlocksOfCalls
          /\ KeysUnique /\ OkIsCommitted
    BY <2>1
       DEF Init, EnvelopesEndorsed, InFlight, PendingIsUnsettled,
           BlocksOfCalls, KeysUnique, OkIsCommitted
  <2>4. ChainGrows
    BY <2>1 DEF ChainGrows
  <2> QED
    BY <2>2, <2>3, <2>4 DEF Inv
<1> QED
  BY <1>1, NextKeepsInv, PTL DEF Spec

-----------------------------------------------------------------------------
(* Every state the program reaches is well formed.                         *)
THEOREM TypeCorrect == Spec => []TypeOK
BY Invariance, PTL DEF Inv

(* A call that returned put its record where its caller can read it.       *)
LEMMA InvGivesReadable == Inv => AcknowledgedIsReadable
<1> SUFFICES ASSUME Inv, NEW t \in TxIds, stage[t] = "ok"
             PROVE  proposal[t].record \in WorldAt(height[proposal[t].msp])
  BY DEF AcknowledgedIsReadable
<1>1. PICK n \in 1..height[proposal[t].msp] : chain[n].txId = t /\ chain[n].valid
  BY DEF Inv, OkIsCommitted
<1>2. /\ height[proposal[t].msp] \in 0..Len(chain)
      /\ Len(chain) \in Nat
  BY ChainTyped DEF Inv, TypeOK
<1>3. n \in 1..Len(chain) /\ n <= height[proposal[t].msp]
  BY <1>2
<1>4. proposal[t].record \in WorldAt(n)
  BY <1>1, <1>3 DEF Inv, BlocksOfCalls, WorldAt
<1> QED
  BY <1>2, <1>3, <1>4 DEF Inv, ChainGrows

THEOREM AcknowledgedRecordsAreReadable == Spec => []AcknowledgedIsReadable
BY Invariance, InvGivesReadable, PTL

(* Of the calls that claim one key at most one returns.                    *)
LEMMA InvGivesOneWinner == Inv => OneWinnerPerKey
<1> SUFFICES ASSUME Inv, NEW t \in TxIds, NEW u \in TxIds,
                    stage[t] = "ok", stage[u] = "ok",
                    Calls!Key(proposal[t].record) = Calls!Key(proposal[u].record)
             PROVE  t = u
  BY DEF OneWinnerPerKey
<1>1. ASSUME NEW o \in Orgs PROVE WorldAt(height[o]) \subseteq World
  <2>1. height[o] \in 0..Len(chain) /\ Len(chain) \in Nat
    BY ChainTyped DEF Inv, TypeOK
  <2>2. Len(chain) \in 0..Len(chain) /\ height[o] <= Len(chain)
    BY <2>1
  <2> QED
    BY <2>1, <2>2 DEF Inv, ChainGrows, World
<1>2. proposal[t].record \in World /\ proposal[u].record \in World
  BY <1>1, InvGivesReadable DEF AcknowledgedIsReadable, Inv, TypeOK
<1>3. proposal[t].record = proposal[u].record
  BY <1>2 DEF Inv, KeysUnique
<1> QED
  BY <1>3 DEF Inv, TypeOK

THEOREM AtMostOneWinner == Spec => []OneWinnerPerKey
BY Invariance, InvGivesOneWinner, PTL

(* No two peers ever hold contradicting ledgers.                           *)
THEOREM PeersNeverDisagree == Spec => []PeersAgree
<1>1. Inv => PeersAgree
  BY DEF Inv, TypeOK, ChainGrows, PeersAgree
<1> QED
  BY <1>1, Invariance, PTL

-----------------------------------------------------------------------------
(* What a valid block wrote is still in the world state.                   *)
LEMMA BlockInWorld ==
    ASSUME Inv, NEW n \in 1..Len(chain), chain[n].valid
    PROVE  proposal[chain[n].txId].record \in World
<1>1. Len(chain) \in Nat
  BY ChainTyped DEF Inv
<1>2. proposal[chain[n].txId].record \in WorldAt(n)
  BY <1>1 DEF Inv, BlocksOfCalls, WorldAt
<1>3. n \in 0..Len(chain) /\ Len(chain) \in 0..Len(chain) /\ n <= Len(chain)
  BY <1>1
<1> QED
  BY <1>2, <1>3 DEF Inv, ChainGrows, World

(* What a step looks like to the caller of submit.                         *)
LEMMA PhaseMoves ==
    ASSUME TypeOK, NEW t \in TxIds, NEW s, NEW p,
           stage' = [stage EXCEPT ![t] = s],
           p = IF s \in {"proposed", "endorsed", "sent"} THEN "open" ELSE s
    PROVE  Phase' = [Phase EXCEPT ![t] = p]
BY DEF TypeOK, Phase

LEMMA StepsRefine == Inv /\ [Next]_vars => [Calls!CallsNext]_(Calls!callVars)
<1> SUFFICES ASSUME Inv, [Next]_vars
             PROVE  Calls!CallsNext \/ UNCHANGED Calls!callVars
  BY DEF Calls!callVars
<1>1. ASSUME NEW t \in TxIds, Propose(t) PROVE Calls!Invoke(t)
  <2>1. Phase[t] = "idle" /\ Phase' = [Phase EXCEPT ![t] = "open"]
    BY <1>1, PhaseMoves DEF Inv, Propose, Phase
  <2>2. World' = World
    BY <1>1, SameChainSameWorlds DEF Propose
  <2> QED
    BY <1>1, <2>1, <2>2 DEF Propose, Calls!Invoke
<1>2. ASSUME NEW t \in TxIds, Endorse(t) \/ Broadcast(t) \/ Drop(t)
      PROVE  UNCHANGED Calls!callVars
  <2>1. World' = World /\ proposal' = proposal
    BY <1>2, SameChainSameWorlds DEF Endorse, Broadcast, Drop
  <2>2. Phase' = Phase
    BY <1>2 DEF Inv, TypeOK, Endorse, Broadcast, Drop, Phase
  <2> QED
    BY <2>1, <2>2 DEF Calls!callVars
<1>3. ASSUME NEW t \in TxIds, Refuse(t) \/ DeadlinePasses(t)
      PROVE  Calls!Throw(t)
  <2>1. Phase[t] = "open" /\ Phase' = [Phase EXCEPT ![t] = "failed"]
    BY <1>3, PhaseMoves DEF Inv, Refuse, DeadlinePasses, Phase
  <2>2. World' = World /\ proposal' = proposal
    BY <1>3, SameChainSameWorlds DEF Refuse, DeadlinePasses
  <2> QED
    BY <2>1, <2>2 DEF Calls!Throw
<1>4. ASSUME NEW t \in TxIds, CommitBlock(t)
      PROVE  Calls!TakeEffect(t) \/ UNCHANGED Calls!callVars
  <2>1. Phase' = Phase /\ proposal' = proposal
    BY <1>4 DEF CommitBlock, Phase
  <2>2. CASE Valid(t)
    <3>1. /\ stage[t] # "idle"
          /\ Calls!Accepted(World, proposal[t].msp, proposal[t].record)
      BY <1>4, <2>2, ValidIsAccepted DEF CommitBlock
    <3>2. Phase[t] \in {"open", "failed"}
      BY <1>4 DEF CommitBlock, Inv, PendingIsUnsettled, Phase
    <3>3. World' = Calls!PutState(World, proposal[t].record)
      <4>1. chain' = Append(chain,
                [txId |-> t, valid |-> Valid(t),
                 world |-> Calls!PutState(World, proposal[t].record)])
        BY <1>4, <2>2 DEF CommitBlock
      <4>2. World' = chain'[Len(chain) + 1].world
        BY <1>4, BlockAppends
      <4>3. chain \in Seq(Block)
        BY DEF Inv, TypeOK
      <4> QED
        BY <4>1, <4>2, <4>3
    <3> QED
      BY <2>1, <3>1, <3>2, <3>3 DEF Calls!TakeEffect
  <2>3. CASE ~Valid(t)
    <3>1. chain' = Append(chain,
              [txId |-> t, valid |-> Valid(t), world |-> World])
      BY <1>4, <2>3 DEF CommitBlock
    <3>2. World' = chain'[Len(chain) + 1].world
      BY <1>4, BlockAppends
    <3>3. chain \in Seq(Block)
      BY DEF Inv, TypeOK
    <3>4. World' = World
      BY <3>1, <3>2, <3>3
    <3> QED
      BY <2>1, <3>4 DEF Calls!callVars
  <2> QED
    BY <2>2, <2>3
<1>5. ASSUME NEW t \in TxIds, CommitStatus(t)
      PROVE  Calls!Return(t) \/ Calls!Throw(t)
  <2>1. /\ stage[t] = "sent"
        /\ UNCHANGED <<proposal, reads, pending, chain, height>>
        /\ \/ stage' = [stage EXCEPT ![t] = "failed"]
           \/ /\ stage' = [stage EXCEPT ![t] = "ok"]
              /\ \E n \in 1..height[proposal[t].msp] :
                    chain[n].txId = t /\ chain[n].valid
    BY <1>5, CommitStatusMoves
  <2>2. World' = World /\ proposal' = proposal
    BY <2>1, SameChainSameWorlds
  <2>3. Phase[t] = "open"
    BY <2>1 DEF Phase
  <2>4. CASE stage' = [stage EXCEPT ![t] = "failed"]
    <3>1. Phase' = [Phase EXCEPT ![t] = "failed"]
      BY <2>4, PhaseMoves DEF Inv
    <3> QED
      BY <2>2, <2>3, <3>1 DEF Calls!Throw
  <2>5. CASE /\ stage' = [stage EXCEPT ![t] = "ok"]
             /\ \E n \in 1..height[proposal[t].msp] :
                   chain[n].txId = t /\ chain[n].valid
    <3>1. Phase' = [Phase EXCEPT ![t] = "ok"]
      BY <2>5, PhaseMoves DEF Inv
    <3>2. PICK n \in 1..height[proposal[t].msp] :
              chain[n].txId = t /\ chain[n].valid
      BY <2>5
    <3>3. n \in 1..Len(chain)
      BY <2>1, ChainTyped DEF Inv, TypeOK
    <3>4. proposal[t].record \in World
      BY <3>2, <3>3, BlockInWorld DEF Inv
    <3> QED
      BY <2>2, <2>3, <3>1, <3>4 DEF Calls!Return, Calls!Recorded
  <2> QED
    BY <2>1, <2>4, <2>5
<1>6. ASSUME NEW o \in Orgs, Deliver(o) PROVE UNCHANGED Calls!callVars
  BY <1>6, SameChainSameWorlds DEF Deliver, Calls!callVars, Phase
<1>7. CASE UNCHANGED vars
  BY <1>7, SameChainSameWorlds DEF vars, Calls!callVars, Phase
<1> QED
  BY <1>1, <1>2, <1>3, <1>4, <1>5, <1>6, <1>7 DEF Next, Calls!CallsNext

(* The services may treat submit as an atomic, possibly unacknowledged     *)
(* transaction.                                                            *)
THEOREM FabricImplementsCalls == Spec => ImplementsCalls
<1>1. Init => Calls!CallsInit
  BY DEF Init, Calls!CallsInit, Calls!Init, Phase, World, WorldAt
<1> QED
  BY <1>1, StepsRefine, Invariance, PTL
     DEF Spec, ImplementsCalls, Calls!CallsSpec

-----------------------------------------------------------------------------
(* What the chaincode guarantees of its ledger, it guarantees of a chain.  *)

Facts == INSTANCE LedgerProofs WITH state <- World

LEMMA SameRecords == Facts!LedgerRecord = Calls!LedgerRecord
  BY DEF Facts!LedgerRecord, Facts!QueryRequest, Facts!MatchAttestation,
         Facts!AccessRequest, Facts!AuthorizationDecision,
         Facts!DisclosureReceipt, Facts!RecordOf, Facts!QueryInput,
         Facts!MatchInput, Facts!AccessInput, Facts!DecisionInput,
         Facts!ReceiptInput, Facts!NonEmptySubsets,
         Calls!LedgerRecord, Calls!QueryRequest, Calls!MatchAttestation,
         Calls!AccessRequest, Calls!AuthorizationDecision,
         Calls!DisclosureReceipt, Calls!RecordOf, Calls!QueryInput,
         Calls!MatchInput, Calls!AccessInput, Calls!DecisionInput,
         Calls!ReceiptInput, Calls!NonEmptySubsets

LEMMA SameGuards ==
    ASSUME NEW S, NEW msp, NEW r
    PROVE  /\ Facts!Accepted(S, msp, r) = Calls!Accepted(S, msp, r)
           /\ Facts!PutState(S, r) = Calls!PutState(S, r)
  BY DEF Facts!Accepted, Facts!QueryAccepted, Facts!MatchAccepted,
         Facts!AccessAccepted, Facts!DecisionAccepted, Facts!ReceiptAccepted,
         Facts!ScopesFit, Facts!KeyFree, Facts!PutState, Facts!Get, Facts!Key,
         Facts!QueryKey, Facts!MatchKey, Facts!AccessKey, Facts!DecisionKey,
         Facts!ReceiptKey,
         Calls!Accepted, Calls!QueryAccepted, Calls!MatchAccepted,
         Calls!AccessAccepted, Calls!DecisionAccepted, Calls!ReceiptAccepted,
         Calls!ScopesFit, Calls!KeyFree, Calls!PutState, Calls!Get, Calls!Key,
         Calls!QueryKey, Calls!MatchKey, Calls!AccessKey, Calls!DecisionKey,
         Calls!ReceiptKey

LEMMA SameTransactions == Facts!Next = Calls!Next
  BY DEF Facts!Next, Facts!CreateQueryRequest, Facts!CreateMatchAttestation,
         Facts!CreateAccessRequest, Facts!RecordAuthorizationDecision,
         Facts!RecordDisclosureReceipt, Facts!PutImmutable,
         Facts!QueryRequest, Facts!MatchAttestation, Facts!AccessRequest,
         Facts!AuthorizationDecision, Facts!DisclosureReceipt, Facts!RecordOf,
         Facts!QueryInput, Facts!MatchInput, Facts!AccessInput,
         Facts!DecisionInput, Facts!ReceiptInput, Facts!NonEmptySubsets,
         Facts!QueryAccepted, Facts!MatchAccepted, Facts!AccessAccepted,
         Facts!DecisionAccepted, Facts!ReceiptAccepted, Facts!ScopesFit,
         Facts!KeyFree, Facts!PutState, Facts!Get, Facts!Key, Facts!QueryKey,
         Facts!MatchKey, Facts!AccessKey, Facts!DecisionKey, Facts!ReceiptKey,
         Calls!Next, Calls!CreateQueryRequest, Calls!CreateMatchAttestation,
         Calls!CreateAccessRequest, Calls!RecordAuthorizationDecision,
         Calls!RecordDisclosureReceipt, Calls!PutImmutable,
         Calls!QueryRequest, Calls!MatchAttestation, Calls!AccessRequest,
         Calls!AuthorizationDecision, Calls!DisclosureReceipt, Calls!RecordOf,
         Calls!QueryInput, Calls!MatchInput, Calls!AccessInput,
         Calls!DecisionInput, Calls!ReceiptInput, Calls!NonEmptySubsets,
         Calls!QueryAccepted, Calls!MatchAccepted, Calls!AccessAccepted,
         Calls!DecisionAccepted, Calls!ReceiptAccepted, Calls!ScopesFit,
         Calls!KeyFree, Calls!PutState, Calls!Get, Calls!Key, Calls!QueryKey,
         Calls!MatchKey, Calls!AccessKey, Calls!DecisionKey, Calls!ReceiptKey

(* A block is a transaction of the chaincode, or writes nothing.           *)
LEMMA BlocksAreTransactions == Inv /\ [Next]_vars => [Calls!Next]_World
<1> SUFFICES ASSUME Inv, [Calls!CallsNext]_(Calls!callVars)
             PROVE  [Calls!Next]_World
  BY StepsRefine
<1>1. ASSUME NEW t \in TxIds, Calls!TakeEffect(t) PROVE Calls!Next
  <2>1. stage[t] # "idle"
    BY <1>1 DEF Calls!TakeEffect, Phase
  <2>2. /\ proposal[t].msp \in Orgs
        /\ proposal[t].record \in Facts!LedgerRecord
    BY <2>1, SameRecords DEF Inv, TypeOK
  <2>3. /\ Facts!Accepted(World, proposal[t].msp, proposal[t].record)
        /\ World' = Facts!PutState(World, proposal[t].record)
    BY <1>1, SameGuards DEF Calls!TakeEffect
  <2> QED
    BY <2>2, <2>3, Facts!AcceptedIsTransaction, InstantsAreNumbers,
       SameTransactions
<1> QED
  BY <1>1 DEF Calls!CallsNext, Calls!callVars, Calls!Invoke, Calls!Return,
              Calls!Throw

(* However peers lag and envelopes are lost or late, the head of the chain *)
(* is what some run of the chaincode's transactions leaves.                *)
THEOREM FabricIsTransactions == Spec => OnlyTransactions
<1>1. Init => Calls!Init
  BY DEF Init, Calls!Init, World, WorldAt
<1> QED
  BY <1>1, BlocksAreTransactions, Invariance, PTL
     DEF Spec, OnlyTransactions, Calls!OnlyTransactions, Calls!Spec

LEMMA SamePromises ==
    /\ Facts!Init = Calls!Init
    /\ Facts!EveryRecordBacked = Calls!EveryRecordBacked
    /\ Facts!ChainOfCustody = Calls!ChainOfCustody
  BY DEF Facts!Init, Facts!EveryRecordBacked, Facts!ChainOfCustody,
         Facts!MatchBacked, Facts!AccessBacked, Facts!DecisionBacked,
         Facts!ReceiptBacked, Calls!Init, Calls!EveryRecordBacked,
         Calls!ChainOfCustody, Calls!MatchBacked, Calls!AccessBacked,
         Calls!DecisionBacked, Calls!ReceiptBacked

(* The chaincode's promises hold of what endorsements on lagging peers put *)
(* on the chain: every record is backed, every receipt has its custody,    *)
(* and a denial stays one.                                                 *)
THEOREM ChainKeepsPromises ==
    Spec => /\ []Calls!EveryRecordBacked
            /\ []Calls!ChainOfCustody
            /\ Calls!DenialIsFinal
<1>1. Spec => Facts!Spec
  <2>1. Calls!Init => Facts!Init
    BY SamePromises
  <2>2. [Calls!Next]_World => [Facts!Next]_World
    BY SameTransactions
  <2> QED
    BY <2>1, <2>2, FabricIsTransactions, PTL
       DEF OnlyTransactions, Calls!OnlyTransactions, Calls!Spec, Facts!Spec
<1>2. Facts!Spec => /\ []Facts!EveryRecordBacked
                    /\ []Facts!ChainOfCustody
                    /\ Facts!DenialIsFinal
  BY Facts!EveryRecordIsBacked, Facts!CustodyHolds, Facts!DenialStands,
     InstantsAreNumbers
<1>3. Facts!DenialIsFinal => Calls!DenialIsFinal
  BY DEF Facts!DenialIsFinal, Calls!DenialIsFinal
<1>4. /\ Facts!EveryRecordBacked => Calls!EveryRecordBacked
      /\ Facts!ChainOfCustody => Calls!ChainOfCustody
  BY SamePromises
<1> QED
  BY <1>1, <1>2, <1>3, <1>4, PTL
=============================================================================
