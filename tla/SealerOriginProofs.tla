-------------------------- MODULE SealerOriginProofs --------------------------
(***************************************************************************)
(* Proofs about the epochs and the cross-chain batches of CanonicalSealer, *)
(* for every value of its constants: where they stand in the blocks, and   *)
(* that no origin and no lane slice is skipped or repeated.                *)
(***************************************************************************)
EXTENDS CanonicalSealerProofs, FiniteSetTheorems

-----------------------------------------------------------------------------
(* What a step does to the origins: it only moves the clock, it relays a   *)
(* record of the open block, or it closes the open block and relays an     *)
(* epoch or a batch.                                                       *)

KeepsOpenBlock == UNCHANGED <<blockNumber, lastBoundaryCount, sealed>>

ClosesBlock ==
    /\ blockNumber' = blockNumber + 1
    /\ lastBoundaryCount' = canonicalCount
    /\ \E b : /\ b.block = blockNumber /\ b.origin = l1Origin
              /\ sealed' = sealed \cup {b}

Extends(new) ==
    /\ canonical' = canonical \cup {new}
    /\ new.index = canonicalCount /\ new.block = blockNumber'

OnlyClock ==
    /\ UNCHANGED <<l1Origin, remoteOrigins, canonical>>
    /\ KeepsOpenBlock \/ ClosesBlock

RelaysInBlock ==
    /\ UNCHANGED <<l1Origin, remoteOrigins>>
    /\ KeepsOpenBlock
    /\ \E new : Extends(new) /\ new.kind \in {"tx", "void"}

OpensBlock ==
    \/ ClosesBlock
    \/ KeepsOpenBlock /\ canonicalCount <= lastBoundaryCount

AdoptsEpoch(epoch) ==
    /\ OriginVerdict(epoch) = "RELAYED"
    /\ OpensBlock
    /\ l1Origin' = epoch.origin /\ UNCHANGED remoteOrigins
    /\ \E new : Extends(new) /\ new.kind = "epoch" /\ new.item = epoch

AdoptsBatch(batch) ==
    /\ RemoteOriginVerdict(batch) = "RELAYED"
    /\ OpensBlock
    /\ remoteOrigins' = [remoteOrigins EXCEPT ![batch.peer] =
                            [anchor |-> batch.anchor, next |-> batch.last + 1]]
    /\ UNCHANGED l1Origin
    /\ \E new : Extends(new) /\ new.kind = "batch" /\ new.item = batch

LEMMA SealCloses ==
    ASSUME NEW ms, NEW held, Seal(ms, held)
    PROVE  ClosesBlock
<1> DEFINE b == [block |-> blockNumber, end |-> canonicalCount,
                 ts |-> NextL2Timestamp(ms), origin |-> l1Origin]
<1>1. b.block = blockNumber /\ b.origin = l1Origin
  OBVIOUS
<1>2. /\ sealed' = sealed \cup {b} /\ blockNumber' = blockNumber + 1
      /\ lastBoundaryCount' = canonicalCount
  BY DEF Seal
<1> HIDE DEF b
<1> QED BY <1>1, <1>2 DEF ClosesBlock

LEMMA CloseOpens ==
    ASSUME TypeOK, NEW ms, NEW held, CloseOpenBlock(ms, held)
    PROVE  OpensBlock
<1>1. canonicalCount \in Nat /\ lastBoundaryCount \in Nat
  BY DEF TypeOK
<1>2. CASE canonicalCount > lastBoundaryCount
  BY <1>2, SealCloses DEF CloseOpenBlock, OpensBlock
<1>3. CASE ~(canonicalCount > lastBoundaryCount)
  BY <1>1, <1>3 DEF CloseOpenBlock, OpensBlock, KeepsOpenBlock, clockVars
<1> QED BY <1>2, <1>3

LEMMA RelayExtends ==
    ASSUME NEW n, NEW kind, NEW item, NEW deadline, Relay(kind, item, n, deadline)
    PROVE  \E new : Extends(new) /\ new.kind = kind /\ new.item = item
<1> DEFINE new == [kind |-> kind, index |-> canonicalCount, slots |-> n,
                   block |-> blockNumber', item |-> item, deadline |-> deadline]
<1>1. canonical' = canonical \cup {new}
  BY DEF Relay
<1>2. new.index = canonicalCount /\ new.block = blockNumber' /\ new.kind = kind /\ new.item = item
  OBVIOUS
<1> HIDE DEF new
<1> QED BY <1>1, <1>2 DEF Extends

LEMMA OriginStep ==
    ASSUME TypeOK, [Next]_vars
    PROVE  \/ OnlyClock
           \/ RelaysInBlock
           \/ \E epoch \in Epochs : AdoptsEpoch(epoch)
           \/ \E batch \in Batches : AdoptsBatch(batch)
<1>1. ASSUME NEW tx \in Txs, NEW d, OnRecord(tx, d) PROVE OnlyClock \/ RelaysInBlock
  <2>1. CASE RefuseRecord(tx, d)
    BY <1>1, <2>1 DEF OnRecord, RefuseRecord, OnlyClock, KeepsOpenBlock, clockVars, orderVars,
                      originVars
  <2>2. CASE RelayRecord(tx, d)
    <3>1. \E new : Extends(new) /\ new.kind = "tx"
      BY <2>2, RelayExtends DEF RelayRecord
    <3> QED BY <1>1, <2>2, <3>1 DEF OnRecord, RelayRecord, RelaysInBlock, KeepsOpenBlock,
                                    clockVars, originVars
  <2> QED BY <1>1, <2>1, <2>2 DEF OnRecord
<1>2. ASSUME NEW ms \in Clocks, OnTick(ms) PROVE OnlyClock
  BY <1>2, SealCloses DEF OnTick, OnlyClock, originVars, orderVars
<1>3. ASSUME NEW epoch \in Epochs, NEW ms \in Clocks, OnOriginRecord(epoch, ms)
      PROVE  OnlyClock \/ AdoptsEpoch(epoch)
  <2>1. CASE UNCHANGED vars
    BY <2>1 DEF vars, OnlyClock, KeepsOpenBlock, clockVars, orderVars, originVars
  <2>2. CASE OriginVerdict(epoch) = "RELAYED"
    <3>1. \E new : Extends(new) /\ new.kind = "epoch" /\ new.item = epoch
      BY <1>3, <2>2, RelayExtends DEF OnOriginRecord
    <3>2. OpensBlock
      BY <1>3, <2>2, CloseOpens DEF OnOriginRecord
    <3> QED BY <1>3, <2>2, <3>1, <3>2 DEF OnOriginRecord, AdoptsEpoch
  <2> QED BY <1>3, <2>1, <2>2 DEF OnOriginRecord
<1>4. ASSUME NEW batch \in Batches, NEW ms \in Clocks, OnRemoteOriginRecord(batch, ms)
      PROVE  OnlyClock \/ AdoptsBatch(batch)
  <2>1. CASE UNCHANGED vars
    BY <2>1 DEF vars, OnlyClock, KeepsOpenBlock, clockVars, orderVars, originVars
  <2>2. CASE RemoteOriginVerdict(batch) = "RELAYED"
    <3>1. \E new : Extends(new) /\ new.kind = "batch" /\ new.item = batch
      BY <1>4, <2>2, RelayExtends DEF OnRemoteOriginRecord
    <3>2. OpensBlock
      BY <1>4, <2>2, CloseOpens DEF OnRemoteOriginRecord
    <3> QED BY <1>4, <2>2, <3>1, <3>2 DEF OnRemoteOriginRecord, AdoptsBatch
  <2> QED BY <1>4, <2>1, <2>2 DEF OnRemoteOriginRecord
<1>5. ASSUME \/ \E head \in Posted : OnPostedCursor(head)
             \/ \E c \in Recorded : OnRecordedCursor(c[1], c[2])
             \/ UNCHANGED vars
      PROVE  OnlyClock
  BY <1>5 DEF OnPostedCursor, OnRecordedCursor, OnlyClock, KeepsOpenBlock, vars, clockVars,
              orderVars, originVars
<1>6. ASSUME NEW v, NEW i, NEW id, OnVoidRequest(v, i, id) PROVE OnlyClock \/ RelaysInBlock
  <2>1. CASE UNCHANGED <<window, dedup, nonceVars, clockVars, orderVars>>
    BY <1>6, <2>1 DEF OnVoidRequest, OnlyClock, KeepsOpenBlock, clockVars, orderVars, originVars
  <2>2. ASSUME NEW e, AppendVoid(e) PROVE RelaysInBlock
    <3>1. \E new : Extends(new) /\ new.kind = "void"
      BY <2>2, RelayExtends DEF AppendVoid
    <3> QED BY <1>6, <2>2, <3>1 DEF OnVoidRequest, AppendVoid, RelaysInBlock, KeepsOpenBlock,
                                    clockVars, originVars
  <2> QED BY <1>6, <2>1, <2>2 DEF OnVoidRequest
<1> QED BY <1>1, <1>2, <1>3, <1>4, <1>5, <1>6 DEF Next, Offer

-----------------------------------------------------------------------------
(* The inductive invariant                                                 *)
(*                                                                         *)
(* Neither property is inductive.  The handlers read l1Origin and the      *)
(* lanes, so the invariant ties them to the newest adopted records, and    *)
(* lastBoundaryCount to the first record of the open block.                *)

\* The open block holds only records from the last boundary on.
OpenBlockInv == \A q \in canonical : q.block = blockNumber => lastBoundaryCount <= q.index

\* l1Origin is the origin of the last adopted epoch.
EpochInv ==
    /\ \A r \in canonical : r.kind = "epoch" => r.item.origin <= l1Origin
    /\ l1Origin > 0 =>
          \E r \in canonical :
             /\ r.kind = "epoch" /\ r.item.origin = l1Origin
             /\ \A q \in canonical : q.kind = "epoch" => q.index <= r.index

\* A lane expects the sequence number after the last slice of its peer.
LaneInv ==
    /\ \A r \in canonical :
          r.kind = "batch" => /\ r.item.peer \in Peers
                              /\ r.item.last < remoteOrigins[r.item.peer].next
    /\ \A p \in Peers :
          remoteOrigins[p].next # Absent =>
             \E r \in canonical : /\ r.kind = "batch" /\ r.item.peer = p
                                  /\ r.item.last = remoteOrigins[p].next - 1

\* The parts of the two properties.
Leads ==
    \A q, r \in canonical :
        r.kind \in {"epoch", "batch"} /\ q.block = r.block => r.index <= q.index

CarriesOrigin(b) ==
    \/ b.origin = 0 /\ \A r \in canonical : r.kind = "epoch" => r.block > b.block
    \/ \E r \in canonical :
          /\ r.kind = "epoch" /\ r.block <= b.block /\ b.origin = r.item.origin
          /\ \A q \in canonical : q.kind = "epoch" /\ q.block <= b.block => q.index <= r.index

EpochsContiguous ==
    \A q, r \in canonical :
        q.kind = "epoch" /\ r.kind = "epoch" /\ q.index < r.index =>
            /\ q.item.origin < r.item.origin
            /\ r.item.origin > q.item.origin + 1 =>
                  \E m \in canonical : m.kind = "epoch" /\ m.item.origin = r.item.origin - 1

LanesContiguous ==
    \A q, r \in canonical :
        (/\ q.kind = "batch" /\ r.kind = "batch" /\ q.index < r.index
         /\ q.item.peer = r.item.peer) =>
            /\ q.item.last < r.item.first
            /\ r.item.first > q.item.last + 1 =>
                  \E m \in canonical : m.kind = "batch" /\ m.item.peer = r.item.peer
                                       /\ m.item.last = r.item.first - 1

OriginInv ==
    /\ OpenBlockInv /\ EpochInv /\ LaneInv
    /\ Leads /\ \A b \in sealed : CarriesOrigin(b)
    /\ EpochsContiguous /\ LanesContiguous

LEMMA OriginNumbers ==
    ASSUME TypeOK
    PROVE  /\ canonicalCount \in Nat /\ blockNumber \in Nat /\ lastBoundaryCount \in Nat
           /\ lastBoundaryCount <= canonicalCount /\ l1Origin \in Nat
           /\ \A r \in canonical : /\ r.index \in Nat /\ r.block \in Nat
                                   /\ r.kind = "epoch" => r.item.origin \in Nat \ {0}
                                   /\ r.kind = "batch" => /\ r.item.first \in Nat
                                                          /\ r.item.last \in Nat
           /\ \A p \in Peers : remoteOrigins[p].next \in Nat \cup {Absent}
           /\ \A b \in sealed : b.block \in Nat
<1>1. \A r \in canonical : /\ r.index \in Nat /\ r.block \in Nat
                           /\ r.kind = "epoch" => r.item \in Epochs
                           /\ r.kind = "batch" => r.item \in Batches
  BY DEF TypeOK, Relayed
<1>2. \A e \in Epochs : e.origin \in Nat \ {0}
  BY InputAssumption DEF EpochRecord
<1>3. \A b \in Batches : b.first \in Nat /\ b.last \in Nat
  BY InputAssumption DEF BatchRecord
<1>4. \A b \in sealed : b.block \in Nat
  BY DEF TypeOK, Boundary
<1>5. \A p \in Peers : remoteOrigins[p].next \in Nat \cup {Absent}
  BY DEF TypeOK
<1>6. canonicalCount \in Nat /\ blockNumber \in Nat /\ lastBoundaryCount \in Nat
      /\ lastBoundaryCount <= canonicalCount /\ l1Origin \in Nat
  BY DEF TypeOK
<1> QED BY <1>1, <1>2, <1>3, <1>4, <1>5, <1>6

\* The places of the old records, before a step and in the block after it.
LEMMA OldRecords ==
    ASSUME TypeOK, OrderInv
    PROVE  /\ \A r \in canonical : r.index < canonicalCount /\ r.block <= blockNumber
           /\ \A b \in sealed : b.block < blockNumber
<1>1. \A r \in canonical : r.index \in Nat /\ r.slots \in Nat \ {0}
  BY RecordNumbers
<1>2. canonicalCount \in Nat
  BY DEF TypeOK
<1> QED BY <1>1, <1>2 DEF OrderInv

\* At most one record is new, in the block that is open after the step.
Grows == canonical' = canonical \/ \E new : Extends(new)

LEMMA OpenBlockStep ==
    ASSUME TypeOK, OrderInv, OpenBlockInv, KeepsOpenBlock \/ ClosesBlock, Grows
    PROVE  OpenBlockInv'
<1> SUFFICES ASSUME NEW q \in canonical', q.block = blockNumber'
             PROVE  lastBoundaryCount' <= q.index
  BY DEF OpenBlockInv
<1>1. CASE q \in canonical
  <2>1. CASE KeepsOpenBlock
    BY <1>1, <2>1 DEF KeepsOpenBlock, OpenBlockInv
  <2>2. CASE ClosesBlock
    BY <1>1, <2>2, OldRecords, OriginNumbers DEF ClosesBlock
  <2> QED BY <2>1, <2>2
<1>2. CASE q \notin canonical
  <2>1. q.index = canonicalCount
    BY <1>2 DEF Grows, Extends
  <2> QED BY <2>1, OriginNumbers DEF KeepsOpenBlock, ClosesBlock
<1> QED BY <1>1, <1>2

\* A boundary keeps the epochs it saw: what is relayed later is in a later block.
LEMMA CarryStep ==
    ASSUME TypeOK, OrderInv, EpochInv, \A b \in sealed : CarriesOrigin(b),
           KeepsOpenBlock \/ ClosesBlock, Grows, NEW b \in sealed'
    PROVE  CarriesOrigin(b)'
<1>1. /\ b.block \in Nat /\ b.block < blockNumber' /\ blockNumber' >= blockNumber
      /\ blockNumber' \in Nat
  BY OldRecords, OriginNumbers DEF KeepsOpenBlock, ClosesBlock
<1>2. \A r \in canonical' : r \in canonical \/ r.block > b.block
  BY <1>1 DEF Grows, Extends
<1>3. canonical \subseteq canonical'
  BY DEF Grows, Extends
<1>4. \A r \in canonical : r.block \in Nat
  BY OriginNumbers
<1>5. CarriesOrigin(b)
  <2>1. CASE b \in sealed
    BY <2>1
  <2>2. CASE b \notin sealed
    <3>1. b.block = blockNumber /\ b.origin = l1Origin
      BY <2>2 DEF KeepsOpenBlock, ClosesBlock
    <3>2. CASE l1Origin = 0
      <4>1. \A r \in canonical : r.kind # "epoch"
        BY <3>2, OriginNumbers DEF EpochInv
      <4> QED BY <3>1, <3>2, <4>1 DEF CarriesOrigin
    <3>3. CASE l1Origin > 0
      <4>1. PICK r \in canonical :
                /\ r.kind = "epoch" /\ r.item.origin = l1Origin
                /\ \A q \in canonical : q.kind = "epoch" => q.index <= r.index
        BY <3>3 DEF EpochInv
      <4>2. r.block <= b.block
        BY <3>1, OldRecords
      <4> QED BY <3>1, <4>1, <4>2 DEF CarriesOrigin
    <3> QED BY <3>2, <3>3, OriginNumbers
  <2> QED BY <2>1, <2>2
<1>6. CASE b.origin = 0 /\ \A r \in canonical : r.kind = "epoch" => r.block > b.block
  BY <1>2, <1>6 DEF CarriesOrigin
<1>7. CASE \E r \in canonical :
              /\ r.kind = "epoch" /\ r.block <= b.block /\ b.origin = r.item.origin
              /\ \A q \in canonical : q.kind = "epoch" /\ q.block <= b.block => q.index <= r.index
  <2>1. PICK r \in canonical :
              /\ r.kind = "epoch" /\ r.block <= b.block /\ b.origin = r.item.origin
              /\ \A q \in canonical : q.kind = "epoch" /\ q.block <= b.block => q.index <= r.index
    BY <1>7
  <2>2. \A q \in canonical' : q.kind = "epoch" /\ q.block <= b.block => q.index <= r.index
    <3> SUFFICES ASSUME NEW q \in canonical', q.kind = "epoch", q.block <= b.block
                 PROVE  q.index <= r.index
      OBVIOUS
    <3>1. q \in canonical
      <4>1. CASE q \notin canonical
        <5>1. q.block = blockNumber'
          BY <4>1 DEF Grows, Extends
        <5> QED BY <5>1, <1>1
      <4> QED BY <4>1
    <3> QED BY <3>1, <2>1
  <2>3. r \in canonical'
    BY <1>3
  <2> QED BY <2>1, <2>2, <2>3 DEF CarriesOrigin
<1> QED BY <1>5, <1>6, <1>7 DEF CarriesOrigin

\* A record that is no origin record only comes after what leads its block; an
\* origin record finds the block empty.
LEMMA LeadsStep ==
    ASSUME TypeOK, OrderInv, OpenBlockInv, Leads, KeepsOpenBlock \/ ClosesBlock,
           \/ canonical' = canonical
           \/ \E new : Extends(new) /\ (new.kind \in {"epoch", "batch"} => OpensBlock)
    PROVE  Leads'
<1> SUFFICES ASSUME NEW q \in canonical', NEW r \in canonical', r.kind \in {"epoch", "batch"},
                    q.block = r.block
             PROVE  r.index <= q.index
  BY DEF Leads
<1>1. \A p \in canonical' :
         p \in canonical \/ (p.index = canonicalCount /\ p.block = blockNumber')
  BY DEF Extends
<1>2. CASE q \in canonical /\ r \in canonical
  BY <1>2 DEF Leads
<1>3. CASE q \notin canonical /\ r \in canonical
  BY <1>1, <1>3, OldRecords, OriginNumbers
<1>4. CASE r \notin canonical /\ q \notin canonical
  BY <1>1, <1>4, OriginNumbers
<1>5. CASE r \notin canonical /\ q \in canonical
  <2>1. OpensBlock /\ q.block = blockNumber'
    BY <1>1, <1>5 DEF Extends
  <2>2. q.block <= blockNumber /\ q.index < canonicalCount /\ q.block \in Nat
    BY <1>5, OldRecords, OriginNumbers
  <2>3. ~ClosesBlock
    BY <2>1, <2>2, OriginNumbers DEF ClosesBlock
  <2>4. canonicalCount <= lastBoundaryCount /\ q.block = blockNumber
    BY <2>1, <2>3 DEF OpensBlock, KeepsOpenBlock
  <2>5. lastBoundaryCount <= q.index
    BY <1>5, <2>4 DEF OpenBlockInv
  <2> QED BY <1>5, <2>2, <2>4, <2>5, OriginNumbers
<1> QED BY <1>2, <1>3, <1>4, <1>5

\* A step that adopts no epoch leaves the epochs and l1Origin as they are.
LEMMA EpochKept ==
    ASSUME EpochInv, EpochsContiguous, l1Origin' = l1Origin, canonical \subseteq canonical',
           \A r \in canonical' : r.kind = "epoch" => r \in canonical
    PROVE  EpochInv' /\ EpochsContiguous'
<1>1. EpochInv'
  <2>1. l1Origin > 0 =>
          \E r \in canonical' :
             /\ r.kind = "epoch" /\ r.item.origin = l1Origin
             /\ \A q \in canonical' : q.kind = "epoch" => q.index <= r.index
    BY DEF EpochInv
  <2>2. \A r \in canonical' : r.kind = "epoch" => r.item.origin <= l1Origin
    BY DEF EpochInv
  <2> QED BY <2>1, <2>2 DEF EpochInv
<1>2. EpochsContiguous'
  <2> SUFFICES ASSUME NEW q \in canonical', NEW r \in canonical', q.kind = "epoch",
                      r.kind = "epoch", q.index < r.index
               PROVE  /\ q.item.origin < r.item.origin
                      /\ r.item.origin > q.item.origin + 1 =>
                            \E m \in canonical' : m.kind = "epoch"
                                                  /\ m.item.origin = r.item.origin - 1
    BY DEF EpochsContiguous
  <2>1. q \in canonical /\ r \in canonical
    OBVIOUS
  <2>2. /\ q.item.origin < r.item.origin
        /\ r.item.origin > q.item.origin + 1 =>
              \E m \in canonical : m.kind = "epoch" /\ m.item.origin = r.item.origin - 1
    BY <2>1 DEF EpochsContiguous
  <2> QED BY <2>2
<1> QED BY <1>1, <1>2

\* An adopted epoch is the first, or follows the last adopted one.
LEMMA EpochAdopted ==
    ASSUME TypeOK, OrderInv, EpochInv, EpochsContiguous, NEW epoch \in Epochs, AdoptsEpoch(epoch)
    PROVE  EpochInv' /\ EpochsContiguous'
<1>1. PICK new : Extends(new) /\ new.kind = "epoch" /\ new.item = epoch
  BY DEF AdoptsEpoch
<1>2. canonical' = canonical \cup {new} /\ new.index = canonicalCount
  BY <1>1 DEF Extends
<1>3. /\ epoch.origin \in Nat \ {0} /\ l1Origin \in Nat /\ epoch.origin > l1Origin
      /\ l1Origin > 0 => epoch.origin = l1Origin + 1
  <2>1. epoch.origin \in Nat \ {0}
    BY InputAssumption DEF EpochRecord
  <2> QED BY <2>1, OriginNumbers DEF AdoptsEpoch, OriginVerdict
<1>4. l1Origin' = epoch.origin
  BY DEF AdoptsEpoch
<1>5. \A r \in canonical : r.kind = "epoch" => /\ r.item.origin \in Nat \ {0}
                                               /\ r.item.origin <= l1Origin
  BY OriginNumbers DEF EpochInv
<1>6. \A r \in canonical : r.index < canonicalCount /\ r.index \in Nat
  BY OldRecords, OriginNumbers
<1>7. canonicalCount \in Nat
  BY OriginNumbers
<1>8. EpochInv'
  <2>1. \A r \in canonical' : r.kind = "epoch" => r.item.origin <= l1Origin'
    BY <1>1, <1>2, <1>3, <1>4, <1>5
  <2>2. \A q \in canonical' : q.kind = "epoch" => q.index <= new.index
    BY <1>2, <1>6, <1>7
  <2>3. new \in canonical' /\ new.kind = "epoch" /\ new.item.origin = l1Origin'
    BY <1>1, <1>2, <1>4
  <2> QED BY <2>1, <2>2, <2>3 DEF EpochInv
<1>9. EpochsContiguous'
  <2> SUFFICES ASSUME NEW q \in canonical', NEW r \in canonical', q.kind = "epoch",
                      r.kind = "epoch", q.index < r.index
               PROVE  /\ q.item.origin < r.item.origin
                      /\ r.item.origin > q.item.origin + 1 =>
                            \E m \in canonical' : m.kind = "epoch"
                                                  /\ m.item.origin = r.item.origin - 1
    BY DEF EpochsContiguous
  <2>1. q \in canonical
    <3>1. CASE q = new
      BY <3>1, <1>2, <1>6, <1>7
    <3> QED BY <3>1, <1>2
  <2>2. CASE r \in canonical
    <3>1. /\ q.item.origin < r.item.origin
          /\ r.item.origin > q.item.origin + 1 =>
                \E m \in canonical : m.kind = "epoch" /\ m.item.origin = r.item.origin - 1
      BY <2>1, <2>2 DEF EpochsContiguous
    <3> QED BY <3>1, <1>2
  <2>3. CASE r = new
    <3>1. l1Origin > 0
      BY <2>1, <1>3, <1>5
    <3>2. PICK m \in canonical : m.kind = "epoch" /\ m.item.origin = l1Origin
      BY <3>1 DEF EpochInv
    <3>3. r.item.origin = l1Origin + 1 /\ q.item.origin <= l1Origin /\ q.item.origin \in Nat
      BY <1>1, <1>3, <1>5, <2>1, <2>3, <3>1
    <3>4. m \in canonical' /\ m.item.origin = r.item.origin - 1
      BY <3>2, <3>3, <1>2, <1>3
    <3> QED BY <3>2, <3>3, <3>4, <1>3
  <2> QED BY <2>2, <2>3, <1>2
<1> QED BY <1>8, <1>9

LEMMA LaneKept ==
    ASSUME LaneInv, LanesContiguous, remoteOrigins' = remoteOrigins, canonical \subseteq canonical',
           \A r \in canonical' : r.kind = "batch" => r \in canonical
    PROVE  LaneInv' /\ LanesContiguous'
<1>1. LaneInv'
  BY DEF LaneInv
<1>2. LanesContiguous'
  <2> SUFFICES ASSUME NEW q \in canonical', NEW r \in canonical', q.kind = "batch",
                      r.kind = "batch", q.index < r.index, q.item.peer = r.item.peer
               PROVE  /\ q.item.last < r.item.first
                      /\ r.item.first > q.item.last + 1 =>
                            \E m \in canonical' : /\ m.kind = "batch" /\ m.item.peer = r.item.peer
                                                  /\ m.item.last = r.item.first - 1
    BY DEF LanesContiguous
  <2>1. q \in canonical /\ r \in canonical
    OBVIOUS
  <2>2. /\ q.item.last < r.item.first
        /\ r.item.first > q.item.last + 1 =>
              \E m \in canonical : /\ m.kind = "batch" /\ m.item.peer = r.item.peer
                                   /\ m.item.last = r.item.first - 1
    BY <2>1 DEF LanesContiguous
  <2> QED BY <2>2
<1> QED BY <1>1, <1>2

\* An adopted batch starts its lane, or continues it where the last one ended.
LEMMA LaneAdopted ==
    ASSUME TypeOK, OrderInv, LaneInv, LanesContiguous, NEW batch \in Batches, AdoptsBatch(batch)
    PROVE  LaneInv' /\ LanesContiguous'
<1>1. PICK new : Extends(new) /\ new.kind = "batch" /\ new.item = batch
  BY DEF AdoptsBatch
<1>2. canonical' = canonical \cup {new} /\ new.index = canonicalCount
  BY <1>1 DEF Extends
<1> DEFINE peer == batch.peer
           expected == remoteOrigins[peer].next
<1>3. /\ peer \in Peers /\ batch.first \in Nat /\ batch.last \in Nat
      /\ batch.first <= batch.last /\ expected \in {Absent, batch.first}
  <2>1. batch.first \in Nat /\ batch.last \in Nat
    BY InputAssumption DEF BatchRecord
  <2> QED BY <2>1 DEF AdoptsBatch, RemoteOriginVerdict
<1>4. /\ remoteOrigins'[peer].next = batch.last + 1
      /\ \A p \in Peers : p # peer => remoteOrigins'[p] = remoteOrigins[p]
  BY <1>3 DEF AdoptsBatch, TypeOK
<1>5. \A r \in canonical : r.kind = "batch" =>
         /\ r.item.last \in Nat /\ r.item.peer \in Peers
         /\ r.item.last < remoteOrigins[r.item.peer].next
  BY OriginNumbers DEF LaneInv
<1>6. \A r \in canonical : r.index < canonicalCount /\ r.index \in Nat
  BY OldRecords, OriginNumbers
<1>7. \A r \in canonical : r.kind = "batch" /\ r.item.peer = peer =>
         expected = batch.first /\ r.item.last < batch.first
  BY <1>3, <1>5 DEF Absent
<1> HIDE DEF peer, expected
<1>8. LaneInv'
  <2>1. ASSUME NEW r \in canonical', r.kind = "batch"
        PROVE  r.item.peer \in Peers /\ r.item.last < remoteOrigins'[r.item.peer].next
    <3>1. CASE r = new
      BY <3>1, <1>1, <1>3, <1>4 DEF peer
    <3>2. CASE r \in canonical /\ r.item.peer = peer
      BY <3>2, <2>1, <1>3, <1>4, <1>5, <1>7
    <3>3. CASE r \in canonical /\ r.item.peer # peer
      BY <3>3, <2>1, <1>4, <1>5
    <3> QED BY <3>1, <3>2, <3>3, <1>2
  <2>2. ASSUME NEW p \in Peers, remoteOrigins'[p].next # Absent
        PROVE  \E r \in canonical' : /\ r.kind = "batch" /\ r.item.peer = p
                                     /\ r.item.last = remoteOrigins'[p].next - 1
    <3>1. CASE p = peer
      <4>1. new.item.last = remoteOrigins'[p].next - 1 /\ new.item.peer = p
        BY <3>1, <1>1, <1>3, <1>4 DEF peer
      <4> QED BY <4>1, <1>1, <1>2
    <3>2. CASE p # peer
      <4>1. remoteOrigins'[p] = remoteOrigins[p]
        BY <3>2, <1>4
      <4>2. \E r \in canonical : /\ r.kind = "batch" /\ r.item.peer = p
                                 /\ r.item.last = remoteOrigins[p].next - 1
        BY <2>2, <4>1 DEF LaneInv
      <4> QED BY <4>1, <4>2, <1>2
    <3> QED BY <3>1, <3>2
  <2> QED BY <2>1, <2>2 DEF LaneInv
<1>9. LanesContiguous'
  <2> SUFFICES ASSUME NEW q \in canonical', NEW r \in canonical', q.kind = "batch",
                      r.kind = "batch", q.index < r.index, q.item.peer = r.item.peer
               PROVE  /\ q.item.last < r.item.first
                      /\ r.item.first > q.item.last + 1 =>
                            \E m \in canonical' : /\ m.kind = "batch" /\ m.item.peer = r.item.peer
                                                  /\ m.item.last = r.item.first - 1
    BY DEF LanesContiguous
  <2>1. q \in canonical
    <3>1. CASE q = new
      BY <3>1, <1>2, <1>6, OriginNumbers
    <3> QED BY <3>1, <1>2
  <2>2. CASE r \in canonical
    <3>1. /\ q.item.last < r.item.first
          /\ r.item.first > q.item.last + 1 =>
                \E m \in canonical : /\ m.kind = "batch" /\ m.item.peer = r.item.peer
                                     /\ m.item.last = r.item.first - 1
      BY <2>1, <2>2 DEF LanesContiguous
    <3> QED BY <3>1, <1>2
  <2>3. CASE r = new
    <3>1. r.item = batch /\ q.item.peer = peer
      BY <2>3, <1>1 DEF peer
    <3>2. expected = batch.first /\ q.item.last < batch.first
      BY <3>1, <2>1, <1>7
    <3>3. PICK m \in canonical : /\ m.kind = "batch" /\ m.item.peer = peer
                                 /\ m.item.last = expected - 1
      BY <3>2, <1>3 DEF LaneInv, expected, Absent
    <3> QED BY <3>1, <3>2, <3>3, <1>2 DEF peer
  <2> QED BY <2>2, <2>3, <1>2
<1> QED BY <1>8, <1>9

LEMMA OriginInvStep ==
    ASSUME TypeOK, OrderInv, OriginInv, [Next]_vars
    PROVE  OriginInv'
<1>1. ASSUME KeepsOpenBlock \/ ClosesBlock, Grows
      PROVE  OpenBlockInv' /\ \A b \in sealed' : CarriesOrigin(b)'
  BY <1>1, OpenBlockStep, CarryStep DEF OriginInv
<1>2. CASE OnlyClock
  <2>1. (KeepsOpenBlock \/ ClosesBlock) /\ canonical' = canonical /\ Grows
    BY <1>2 DEF OnlyClock, Grows
  <2>2. Leads'
    BY <2>1, LeadsStep DEF OriginInv
  <2>3. EpochInv' /\ EpochsContiguous'
    BY <1>2, EpochKept DEF OnlyClock, OriginInv
  <2>4. LaneInv' /\ LanesContiguous'
    BY <1>2, LaneKept DEF OnlyClock, OriginInv
  <2> QED BY <1>1, <2>1, <2>2, <2>3, <2>4 DEF OriginInv
<1>3. CASE RelaysInBlock
  <2>1. KeepsOpenBlock /\ l1Origin' = l1Origin /\ remoteOrigins' = remoteOrigins
    BY <1>3 DEF RelaysInBlock
  <2>2. PICK new : Extends(new) /\ new.kind \in {"tx", "void"}
    BY <1>3 DEF RelaysInBlock
  <2>3. /\ canonical' = canonical \cup {new} /\ new.kind # "epoch" /\ new.kind # "batch"
        /\ Grows
    BY <2>2 DEF Extends, Grows
  <2>4. Leads'
    BY <2>1, <2>2, <2>3, LeadsStep DEF OriginInv
  <2>5. EpochInv' /\ EpochsContiguous'
    BY <2>1, <2>3, EpochKept DEF OriginInv
  <2>6. LaneInv' /\ LanesContiguous'
    BY <2>1, <2>3, LaneKept DEF OriginInv
  <2> QED BY <1>1, <2>1, <2>3, <2>4, <2>5, <2>6 DEF OriginInv
<1>4. ASSUME NEW epoch \in Epochs, AdoptsEpoch(epoch) PROVE OriginInv'
  <2>1. OpensBlock /\ (KeepsOpenBlock \/ ClosesBlock) /\ remoteOrigins' = remoteOrigins
    BY <1>4 DEF AdoptsEpoch, OpensBlock
  <2>2. PICK new : Extends(new) /\ new.kind = "epoch"
    BY <1>4 DEF AdoptsEpoch
  <2>3. canonical' = canonical \cup {new} /\ new.kind # "batch" /\ Grows
    BY <2>2 DEF Extends, Grows
  <2>4. Leads'
    BY <2>1, <2>2, LeadsStep DEF OriginInv
  <2>5. EpochInv' /\ EpochsContiguous'
    BY <1>4, EpochAdopted DEF OriginInv
  <2>6. LaneInv' /\ LanesContiguous'
    BY <2>1, <2>3, LaneKept DEF OriginInv
  <2> QED BY <1>1, <2>1, <2>3, <2>4, <2>5, <2>6 DEF OriginInv
<1>5. ASSUME NEW batch \in Batches, AdoptsBatch(batch) PROVE OriginInv'
  <2>1. OpensBlock /\ (KeepsOpenBlock \/ ClosesBlock) /\ l1Origin' = l1Origin
    BY <1>5 DEF AdoptsBatch, OpensBlock
  <2>2. PICK new : Extends(new) /\ new.kind = "batch"
    BY <1>5 DEF AdoptsBatch
  <2>3. canonical' = canonical \cup {new} /\ new.kind # "epoch" /\ Grows
    BY <2>2 DEF Extends, Grows
  <2>4. Leads'
    BY <2>1, <2>2, LeadsStep DEF OriginInv
  <2>5. EpochInv' /\ EpochsContiguous'
    BY <2>1, <2>3, EpochKept DEF OriginInv
  <2>6. LaneInv' /\ LanesContiguous'
    BY <1>5, LaneAdopted DEF OriginInv
  <2> QED BY <1>1, <2>1, <2>3, <2>4, <2>5, <2>6 DEF OriginInv
<1> QED BY <1>2, <1>3, <1>4, <1>5, OriginStep

LEMMA OriginInvariant == Spec => [](TypeOK /\ OrderInv /\ OriginInv)
<1>1. Init => OriginInv
  BY DEF Init, OriginInv, OpenBlockInv, EpochInv, LaneInv, Leads, EpochsContiguous,
         LanesContiguous, Unseeded
<1>2. TypeOK /\ OrderInv /\ OriginInv /\ [Next]_vars => OriginInv'
  BY OriginInvStep
<1> QED BY <1>1, <1>2, TypeCorrect, OrderInvariant, PTL DEF Spec

\* However ticks, records, epochs and batches interleave, an epoch or a batch
\* is the first record of its block, and every boundary carries the origin of
\* the last epoch at or before it.
THEOREM OriginsLeadBlocks == Spec => []OriginLeadsBlock
<1>1. TypeOK /\ OriginInv => OriginLeadsBlock
  <2> SUFFICES ASSUME TypeOK, OriginInv PROVE OriginLeadsBlock
    OBVIOUS
  <2>1. ASSUME NEW b \in sealed
        PROVE  LET adopted == {r \in canonical : r.kind = "epoch" /\ r.block <= b.block}
               IN  IF adopted = {} THEN b.origin = 0
                   ELSE \E r \in adopted : /\ b.origin = r.item.origin
                                           /\ \A q \in adopted : q.index <= r.index
    <3>1. b.block \in Nat /\ \A r \in canonical : r.block \in Nat
      BY OriginNumbers
    <3>2. CarriesOrigin(b)
      BY DEF OriginInv
    <3> QED BY <3>1, <3>2 DEF CarriesOrigin
  <2> QED BY <2>1 DEF OriginInv, Leads, OriginLeadsBlock
<1> QED BY <1>1, OriginInvariant, PTL

\* The origins of the adopted epochs go up by one from the first, and the
\* slices of each lane follow each other without a hole, also after the id of
\* an epoch or a batch left the dedup window.
THEOREM OriginsAreContiguous == Spec => []OriginsContiguous
<1>1. OriginInv => OriginsContiguous
  BY DEF OriginInv, EpochsContiguous, LanesContiguous, OriginsContiguous
<1> QED BY <1>1, OriginInvariant, PTL

-----------------------------------------------------------------------------
(* The size of the dedup window                                            *)
(*                                                                         *)
(* The handlers of epochs and batches do not look at the cap.  What bounds *)
(* their markers is that each leads a block of its own: the markers that   *)
(* no prune has dropped belong to different blocks of the last Horizon + 1.*)

Markers == Epochs \cup Batches

HeldIds == {i \in Ids : Held(i)}
HeldTxs == {t \in Txs : Held(t.id)}
HeldMarkers == {m \in Markers : Held(m.id)}

\* The block of a held marker is recent, and its deadline is no later than the
\* horizon after it.
MarkerRecord(m, r) ==
    /\ r.kind \in {"epoch", "batch"} /\ r.item = m
    /\ dedup[m.id] <= r.block + Horizon
    /\ r.block + Horizon >= blockNumber

WindowInv ==
    /\ IsFiniteSet(HeldIds)
    /\ IsFiniteSet(HeldTxs) /\ Cardinality(HeldTxs) <= DedupCapacity
    /\ \A m \in HeldMarkers : \E r \in canonical : MarkerRecord(m, r)

LEMMA InputIds ==
    /\ \A t \in Txs : t.id \in Ids
    /\ \A m \in Markers : m.id \in Ids
    /\ \A t \in Txs, m \in Markers : t.id # m.id
    /\ \A t, u \in Txs : t.id = u.id => t = u
    /\ \A m, n \in Markers : m.id = n.id => m = n
<1>1. \A t \in Txs : t.id \in Ids /\ DOMAIN t = {"id", "sender", "nonce"}
  BY InputAssumption DEF TxRecord
<1>2. \A m \in Epochs : m.id \in Ids /\ "slots" \in DOMAIN m
  BY InputAssumption DEF EpochRecord
<1>3. \A m \in Batches : m.id \in Ids /\ "slots" \in DOMAIN m
  BY InputAssumption DEF BatchRecord
<1>4. \A t \in Txs, m \in Markers : t.id # m.id
  <2> SUFFICES ASSUME NEW t \in Txs, NEW m \in Markers, t.id = m.id PROVE FALSE
    OBVIOUS
  <2>1. t = m
    BY HashAssumption DEF Markers
  <2>2. "slots" \in DOMAIN m
    BY <1>2, <1>3 DEF Markers
  <2> QED BY <1>1, <2>1, <2>2
<1> QED BY <1>1, <1>2, <1>3, <1>4, HashAssumption DEF Markers

\* What a step does to the window.
Drops == \A i \in Ids : dedup'[i] \in {Absent, dedup[i]}

InsertsTx(tx) ==
    /\ ~(WindowSize >= DedupCapacity)
    /\ \A i \in Ids : i # tx.id => dedup'[i] = dedup[i]

InsertsMarker(m) ==
    /\ \A i \in Ids : i # m.id => dedup'[i] \in {Absent, dedup[i]}
    /\ dedup'[m.id] <= blockNumber + Horizon
    /\ \E new : Extends(new) /\ new.kind \in {"epoch", "batch"} /\ new.item = m

PrunesAtSeal ==
    \/ blockNumber' = blockNumber
    \/ /\ blockNumber' = blockNumber + 1
       /\ \A i \in Ids : dedup'[i] = Absent \/ dedup'[i] >= blockNumber'

LEMMA SealWindow ==
    ASSUME TypeOK, NEW ms, NEW held \in [Ids -> Nat \cup {Absent}], Seal(ms, held)
    PROVE  PrunesAtSeal /\ \A i \in Ids : dedup'[i] \in {Absent, held[i]}
BY DEF TypeOK, Seal, PruneExpired, PrunesAtSeal, Absent

LEMMA MarkerWindow ==
    ASSUME TypeOK, NEW m \in Markers, NEW ms, NEW n, NEW kind \in {"epoch", "batch"},
           CloseOpenBlock(ms, InsertFresh(m.id, AssignedDeadline)),
           Relay(kind, m, n, Absent)
    PROVE  InsertsMarker(m) /\ PrunesAtSeal
<1> DEFINE held == InsertFresh(m.id, AssignedDeadline)
<1>1. /\ m.id \in Ids /\ AssignedDeadline \in Nat /\ AssignedDeadline <= blockNumber + Horizon
      /\ held \in [Ids -> Nat \cup {Absent}]
  BY InputIds, Arithmetic
<1>2. /\ held[m.id] = AssignedDeadline
      /\ \A i \in Ids : i # m.id => held[i] = dedup[i]
  BY <1>1 DEF InsertFresh, Lesser, TypeOK
<1> HIDE DEF held
<1>3. CloseOpenBlock(ms, held)
  BY DEF held
<1>4. PrunesAtSeal /\ \A i \in Ids : dedup'[i] \in {Absent, held[i]}
  <2>1. CASE canonicalCount > lastBoundaryCount
    BY <2>1, <1>1, <1>3, SealWindow DEF CloseOpenBlock
  <2>2. CASE ~(canonicalCount > lastBoundaryCount)
    BY <2>2, <1>3 DEF CloseOpenBlock, PrunesAtSeal, clockVars
  <2> QED BY <2>1, <2>2
<1>5. dedup'[m.id] <= blockNumber + Horizon
  BY <1>1, <1>2, <1>4, SettingsAssumption DEF Absent, TypeOK
<1>6. \E new : Extends(new) /\ new.kind = kind /\ new.item = m
  BY RelayExtends
<1> QED BY <1>2, <1>4, <1>5, <1>6 DEF InsertsMarker

LEMMA WindowStep ==
    ASSUME TypeOK, [Next]_vars
    PROVE  /\ PrunesAtSeal
           /\ Drops \/ (\E tx \in Txs : InsertsTx(tx)) \/ (\E m \in Markers : InsertsMarker(m))
<1> DEFINE Goal == /\ PrunesAtSeal
                   /\ \/ Drops
                      \/ \E tx \in Txs : InsertsTx(tx)
                      \/ \E m \in Markers : InsertsMarker(m)
<1>1. ASSUME NEW tx \in Txs, NEW d, OnRecord(tx, d) PROVE Goal
  <2>1. CASE RefuseRecord(tx, d)
    BY <2>1 DEF RefuseRecord, PrunesAtSeal, Drops, clockVars
  <2>2. CASE RelayRecord(tx, d)
    <3>1. ~(WindowSize >= DedupCapacity)
      BY <2>2 DEF RelayRecord, RecordVerdict
    <3>2. \A i \in Ids : i # tx.id => dedup'[i] = dedup[i]
      BY <2>2 DEF RelayRecord, InsertFresh, TypeOK
    <3>3. PrunesAtSeal
      BY <2>2 DEF RelayRecord, PrunesAtSeal, clockVars
    <3> QED BY <3>1, <3>2, <3>3 DEF InsertsTx
  <2> QED BY <1>1, <2>1, <2>2 DEF OnRecord
<1>2. ASSUME NEW ms \in Clocks, OnTick(ms) PROVE Goal
  <2>1. dedup \in [Ids -> Nat \cup {Absent}] /\ Seal(ms, dedup)
    BY <1>2 DEF OnTick, TypeOK
  <2> QED BY <2>1, SealWindow DEF Drops
<1>3. ASSUME NEW epoch \in Epochs, NEW ms \in Clocks, OnOriginRecord(epoch, ms) PROVE Goal
  <2>1. CASE UNCHANGED vars
    BY <2>1 DEF vars, PrunesAtSeal, Drops, clockVars
  <2>2. CASE OriginVerdict(epoch) = "RELAYED"
    <3>1. /\ CloseOpenBlock(ms, InsertFresh(epoch.id, AssignedDeadline))
          /\ Relay("epoch", epoch, epoch.slots, Absent) /\ epoch \in Markers
      BY <1>3, <2>2 DEF OnOriginRecord, Markers
    <3> QED BY <3>1, MarkerWindow
  <2> QED BY <1>3, <2>1, <2>2 DEF OnOriginRecord
<1>4. ASSUME NEW batch \in Batches, NEW ms \in Clocks, OnRemoteOriginRecord(batch, ms) PROVE Goal
  <2>1. CASE UNCHANGED vars
    BY <2>1 DEF vars, PrunesAtSeal, Drops, clockVars
  <2>2. CASE RemoteOriginVerdict(batch) = "RELAYED"
    <3>1. /\ CloseOpenBlock(ms, InsertFresh(batch.id, AssignedDeadline))
          /\ Relay("batch", batch, batch.slots, Absent) /\ batch \in Markers
      BY <1>4, <2>2 DEF OnRemoteOriginRecord, Markers
    <3> QED BY <3>1, MarkerWindow
  <2> QED BY <1>4, <2>1, <2>2 DEF OnRemoteOriginRecord
<1>5. ASSUME \/ \E head \in Posted : OnPostedCursor(head)
             \/ \E c \in Recorded : OnRecordedCursor(c[1], c[2])
             \/ UNCHANGED vars
      PROVE  Goal
  BY <1>5 DEF OnPostedCursor, OnRecordedCursor, PrunesAtSeal, Drops, vars, clockVars
<1>6. ASSUME NEW v, NEW i, NEW id, OnVoidRequest(v, i, id) PROVE Goal
  <2>1. CASE UNCHANGED <<window, dedup, nonceVars, clockVars, orderVars>>
    BY <2>1 DEF PrunesAtSeal, Drops, clockVars
  <2>2. ASSUME NEW e, AppendVoid(e) PROVE Goal
    BY <2>2 DEF AppendVoid, PrunesAtSeal, Drops, clockVars, TypeOK
  <2> QED BY <1>6, <2>1, <2>2 DEF OnVoidRequest
<1> QED BY <1>1, <1>2, <1>3, <1>4, <1>5, <1>6 DEF Next, Offer

\* The transactions in the window are no more than its ids.
LEMMA HeldTxsFit ==
    ASSUME WindowInv
    PROVE  Cardinality(HeldTxs) <= WindowSize /\ WindowSize \in Nat
<1> DEFINE f == [t \in HeldTxs |-> t.id]
<1>1. f \in [HeldTxs -> HeldIds]
  BY InputIds DEF HeldTxs, HeldIds
<1>2. \A t, u \in HeldTxs : f[t] = f[u] => t = u
  BY InputIds DEF HeldTxs
<1>3. f \in Injection(HeldTxs, HeldIds)
  BY <1>1, <1>2 DEF Injection, IsInjective
<1>4. IsFiniteSet(HeldIds)
  BY DEF WindowInv
<1> HIDE DEF f
<1>5. Cardinality(HeldTxs) <= Cardinality(HeldIds)
  BY <1>3, <1>4, FS_Injection
<1>6. Cardinality(HeldIds) \in Nat
  BY <1>4, FS_CardinalityType
<1> QED BY <1>5, <1>6 DEF WindowSize, HeldIds

LEMMA WindowInvStep ==
    ASSUME TypeOK, WindowInv, [Next]_vars
    PROVE  WindowInv'
<1>1. DedupCapacity \in Nat /\ Horizon \in Nat /\ blockNumber \in Nat
  BY SettingsAssumption DEF TypeOK
<1>2. TypeOK'
  BY TypeStep
<1>3. canonical \subseteq canonical'
  BY AppendsByKind
<1>4. ASSUME NEW x \in Ids, \A i \in Ids : i # x => dedup'[i] \in {Absent, dedup[i]}
      PROVE  IsFiniteSet(HeldIds')
  <2>1. HeldIds' \subseteq HeldIds \cup {x}
    BY <1>4 DEF HeldIds, Held
  <2>2. IsFiniteSet(HeldIds \cup {x})
    BY FS_AddElement DEF WindowInv
  <2> QED BY <2>1, <2>2, FS_Subset
<1>5. ASSUME \A t \in Txs : dedup'[t.id] \in {Absent, dedup[t.id]}
      PROVE  IsFiniteSet(HeldTxs') /\ Cardinality(HeldTxs') <= DedupCapacity
  <2>1. HeldTxs' \subseteq HeldTxs
    BY <1>5 DEF HeldTxs, Held
  <2>2. /\ IsFiniteSet(HeldTxs') /\ Cardinality(HeldTxs') <= Cardinality(HeldTxs)
    BY <2>1, FS_Subset DEF WindowInv
  <2>3. Cardinality(HeldTxs') \in Nat /\ Cardinality(HeldTxs) \in Nat
    BY <2>2, FS_CardinalityType DEF WindowInv
  <2> QED BY <2>2, <2>3, <1>1 DEF WindowInv
<1>6. ASSUME NEW m \in Markers, Held(m.id)', dedup'[m.id] = dedup[m.id]
      PROVE  \E r \in canonical' : MarkerRecord(m, r)'
  <2>1. m \in HeldMarkers
    BY <1>6 DEF HeldMarkers, Held
  <2>2. PICK r \in canonical : MarkerRecord(m, r)
    BY <2>1 DEF WindowInv
  <2>3. r.block \in Nat /\ m.id \in Ids /\ dedup[m.id] \in Nat
    BY <1>6, <2>1, InputIds, RecordNumbers DEF TypeOK, HeldMarkers, Held
  <2>4. r.block + Horizon >= blockNumber'
    <3>1. CASE blockNumber' = blockNumber
      BY <2>2, <3>1 DEF MarkerRecord
    <3>2. CASE dedup'[m.id] >= blockNumber' /\ blockNumber' = blockNumber + 1
      BY <1>1, <1>6, <2>2, <2>3, <3>2 DEF MarkerRecord
    <3> QED BY <1>6, <2>3, <3>1, <3>2, WindowStep DEF PrunesAtSeal, Held
  <2> QED BY <1>3, <1>6, <2>2, <2>4 DEF MarkerRecord
<1>7. CASE Drops
  <2>1. ASSUME NEW m \in HeldMarkers' PROVE \E r \in canonical' : MarkerRecord(m, r)'
    BY <2>1, <1>6, <1>7, InputIds DEF HeldMarkers, Held, Drops
  <2>2. IsFiniteSet(HeldIds')
    <3>1. HeldIds' \subseteq HeldIds
      BY <1>7 DEF HeldIds, Held, Drops
    <3> QED BY <3>1, FS_Subset DEF WindowInv
  <2>3. IsFiniteSet(HeldTxs') /\ Cardinality(HeldTxs') <= DedupCapacity
    BY <1>5, <1>7, InputIds DEF Drops
  <2> QED BY <2>1, <2>2, <2>3, SettingsAssumption DEF WindowInv
<1>8. ASSUME NEW tx \in Txs, InsertsTx(tx) PROVE WindowInv'
  <2>1. tx.id \in Ids /\ \A i \in Ids : i # tx.id => dedup'[i] = dedup[i]
    BY <1>8, InputIds DEF InsertsTx
  <2>2. IsFiniteSet(HeldIds')
    BY <2>1, <1>4
  <2>3. HeldTxs' \subseteq HeldTxs \cup {tx}
    BY <2>1, InputIds DEF HeldTxs, Held
  <2>4. /\ IsFiniteSet(HeldTxs \cup {tx})
        /\ Cardinality(HeldTxs \cup {tx}) <= Cardinality(HeldTxs) + 1
    <3>1. IsFiniteSet(HeldTxs) /\ Cardinality(HeldTxs) \in Nat
      BY FS_CardinalityType DEF WindowInv
    <3> QED BY <3>1, FS_AddElement
  <2>5. /\ IsFiniteSet(HeldTxs')
        /\ Cardinality(HeldTxs') <= Cardinality(HeldTxs \cup {tx})
    BY <2>3, <2>4, FS_Subset
  <2>6. /\ Cardinality(HeldTxs') \in Nat /\ Cardinality(HeldTxs) \in Nat
        /\ Cardinality(HeldTxs \cup {tx}) \in Nat
    BY <2>4, <2>5, FS_CardinalityType DEF WindowInv
  <2>7. Cardinality(HeldTxs) < DedupCapacity
    BY <1>1, <1>8, <2>6, HeldTxsFit DEF InsertsTx
  <2>8. Cardinality(HeldTxs') <= DedupCapacity
    BY <1>1, <2>4, <2>5, <2>6, <2>7
  <2>9. ASSUME NEW m \in HeldMarkers' PROVE \E r \in canonical' : MarkerRecord(m, r)'
    BY <2>1, <2>9, <1>6, InputIds DEF HeldMarkers
  <2> QED BY <2>2, <2>5, <2>8, <2>9, SettingsAssumption DEF WindowInv
<1>9. ASSUME NEW m \in Markers, InsertsMarker(m) PROVE WindowInv'
  <2>1. /\ m.id \in Ids /\ \A i \in Ids : i # m.id => dedup'[i] \in {Absent, dedup[i]}
        /\ dedup'[m.id] <= blockNumber + Horizon
    BY <1>9, InputIds DEF InsertsMarker
  <2>2. IsFiniteSet(HeldIds')
    BY <2>1, <1>4
  <2>3. IsFiniteSet(HeldTxs') /\ Cardinality(HeldTxs') <= DedupCapacity
    BY <2>1, <1>5, InputIds
  <2>4. PICK new : Extends(new) /\ new.kind \in {"epoch", "batch"} /\ new.item = m
    BY <1>9 DEF InsertsMarker
  <2>5. /\ new \in canonical' /\ new.block = blockNumber'
    BY <2>4 DEF Extends
  <2>6. blockNumber' \in Nat /\ blockNumber' >= blockNumber /\ dedup'[m.id] \in Nat \cup {Absent}
    BY <1>1, <1>2, <2>1, WindowStep DEF PrunesAtSeal, TypeOK
  <2>7. MarkerRecord(m, new)'
    BY <1>1, <2>1, <2>4, <2>5, <2>6, SettingsAssumption DEF MarkerRecord, Absent
  <2>8. ASSUME NEW k \in HeldMarkers' PROVE \E r \in canonical' : MarkerRecord(k, r)'
    <3>1. CASE k = m
      BY <2>5, <2>7, <3>1
    <3>2. CASE k # m
      BY <2>1, <2>8, <3>2, <1>6, InputIds DEF HeldMarkers, Held
    <3> QED BY <3>1, <3>2
  <2> QED BY <2>2, <2>3, <2>8, SettingsAssumption DEF WindowInv
<1> QED BY <1>7, <1>8, <1>9, WindowStep

\* The held markers are in different blocks of the last Horizon + 1.
LEMMA MarkersFit ==
    ASSUME TypeOK, OrderInv, OriginInv, WindowInv
    PROVE  Cardinality(HeldMarkers) <= Horizon + 1
<1>1. Horizon \in Nat /\ blockNumber \in Nat
  BY SettingsAssumption DEF TypeOK
<1> DEFINE of(m) == CHOOSE r \in canonical : MarkerRecord(m, r)
           blocks == (blockNumber - Horizon)..blockNumber
           f == [m \in HeldMarkers |-> of(m).block]
<1>2. \A m \in HeldMarkers : of(m) \in canonical /\ MarkerRecord(m, of(m))
  BY DEF WindowInv
<1> HIDE DEF of
<1>3. f \in [HeldMarkers -> blocks]
  <2> SUFFICES ASSUME NEW m \in HeldMarkers PROVE of(m).block \in blocks
    OBVIOUS
  <2>1. /\ of(m).block \in Nat /\ of(m).block <= blockNumber
        /\ of(m).block + Horizon >= blockNumber
    BY <1>2, OldRecords, OriginNumbers DEF MarkerRecord
  <2> QED BY <1>1, <2>1
<1>4. ASSUME NEW m \in HeldMarkers, NEW n \in HeldMarkers, f[m] = f[n] PROVE m = n
  <2>1. /\ of(m) \in canonical /\ of(n) \in canonical /\ of(m).block = of(n).block
        /\ of(m).kind \in {"epoch", "batch"} /\ of(n).kind \in {"epoch", "batch"}
        /\ of(m).item = m /\ of(n).item = n
    BY <1>2, <1>4 DEF MarkerRecord
  <2>2. of(m).index <= of(n).index /\ of(n).index <= of(m).index
    BY <2>1 DEF OriginInv, Leads
  <2>3. /\ of(m).index \in Nat /\ of(m).slots \in Nat \ {0}
        /\ of(n).index \in Nat /\ of(n).slots \in Nat \ {0}
    BY <2>1, RecordNumbers
  <2>4. \/ of(m) = of(n)
        \/ of(m).index + of(m).slots <= of(n).index
        \/ of(n).index + of(n).slots <= of(m).index
    BY <2>1 DEF OrderInv, SlotsDense
  <2>5. of(m) = of(n)
    BY <2>2, <2>3, <2>4
  <2> QED BY <2>1, <2>5
<1>5. f \in Injection(HeldMarkers, blocks)
  BY <1>3, <1>4 DEF Injection, IsInjective
<1>6. IsFiniteSet(blocks) /\ Cardinality(blocks) = Horizon + 1
  BY <1>1, FS_Interval
<1> HIDE DEF f, blocks
<1> QED BY <1>5, <1>6, FS_Injection

\* Epochs and batches skip the window cap, and still the window is bounded:
\* the transactions by the cap, the markers by the horizon.
THEOREM WindowIsBounded == Spec => []WindowBounded
<1>1. Init => WindowInv
  <2> SUFFICES ASSUME Init PROVE WindowInv
    OBVIOUS
  <2>1. HeldIds = {} /\ HeldTxs = {} /\ HeldMarkers = {}
    BY InputIds DEF Init, HeldIds, HeldTxs, HeldMarkers, Held
  <2> QED BY <2>1, FS_EmptySet, SettingsAssumption DEF WindowInv
<1>2. TypeOK /\ WindowInv /\ [Next]_vars => WindowInv'
  BY WindowInvStep
<1>3. TypeOK /\ OrderInv /\ OriginInv /\ WindowInv => WindowBounded
  BY MarkersFit DEF WindowBounded, WindowInv, HeldTxs, HeldMarkers, Markers
<1> QED BY <1>1, <1>2, <1>3, OriginInvariant, PTL DEF Spec

=============================================================================
