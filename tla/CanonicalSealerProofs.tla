------------------------ MODULE CanonicalSealerProofs ------------------------
(***************************************************************************)
(* Proofs about CanonicalSealer, for every value of its constants.         *)
(***************************************************************************)
EXTENDS CanonicalSealer, TLAPS

-----------------------------------------------------------------------------
(* The nonce map *)

LEMMA ReplacedShape ==
    ASSUME recency \in Seq(Senders), NEW at \in 1..Len(recency), NEW s \in Senders
    PROVE  /\ Replaced(at, s) \in Seq(Senders)
           /\ Len(Replaced(at, s)) = Len(recency)
<1>1. Len(recency) \in Nat /\ \A i \in 1..Len(recency) : recency[i] \in Senders
  OBVIOUS
<1>2. Replaced(at, s) \in [1..Len(recency) -> Senders]
  BY <1>1 DEF Replaced
<1> QED BY <1>1, <1>2

\* An access keeps the senders of the map.
LEMMA TouchedOK ==
    ASSUME MapOK(expectedNonce, recency), NEW s \in Senders, expectedNonce[s] # Absent,
           NEW map \in [Senders -> Nat \cup {Absent}],
           \A r \in Senders : map[r] # Absent <=> expectedNonce[r] # Absent
    PROVE  MapOK(map, Touched(s))
<1> DEFINE n == Len(recency)
           at == CHOOSE i \in 1..n : recency[i] = s
<1>1. /\ recency \in Seq(Senders) /\ n \in Nat
      /\ \A i \in 1..n : recency[i] \in Senders
      /\ \A i, j \in 1..n : recency[i] = recency[j] => i = j
      /\ \A r \in Senders : expectedNonce[r] # Absent <=> \E i \in 1..n : recency[i] = r
  BY DEF MapOK
<1>2. at \in 1..n /\ recency[at] = s
  BY <1>1
<1> DEFINE q == Replaced(at, s)
<1>3. Touched(s) = q
  BY DEF Touched
<1> HIDE DEF at
<1>4. q \in Seq(Senders) /\ Len(q) = n
  BY <1>1, <1>2, ReplacedShape
<1>5. \A i \in 1..n : q[i] = IF i < at THEN recency[i]
                             ELSE IF i < n THEN recency[i + 1] ELSE s
  BY <1>1 DEF Replaced
<1> HIDE DEF q
<1>6. \A i, j \in 1..n : q[i] = q[j] => i = j
  BY <1>1, <1>2, <1>5
<1>7. ASSUME NEW r \in Senders
      PROVE  (\E i \in 1..n : q[i] = r) <=> (\E i \in 1..n : recency[i] = r)
  <2>1. ASSUME NEW i \in 1..n PROVE \E j \in 1..n : recency[j] = q[i]
    <3>1. CASE i < at
      BY <3>1, <1>5
    <3>2. CASE i >= at /\ i < n
      <4>1. i + 1 \in 1..n /\ q[i] = recency[i + 1]
        BY <3>2, <1>1, <1>2, <1>5
      <4> QED BY <4>1
    <3>3. CASE i = n
      BY <3>3, <1>1, <1>2, <1>5
    <3> QED BY <3>1, <3>2, <3>3, <1>1, <1>2
  <2>2. ASSUME NEW i \in 1..n PROVE \E j \in 1..n : q[j] = recency[i]
    <3>1. CASE i < at
      BY <3>1, <1>5
    <3>2. CASE i = at
      <4>1. q[n] = s
        BY <1>1, <1>2, <1>5
      <4> QED BY <3>2, <4>1, <1>1, <1>2
    <3>3. CASE i > at
      <4>1. i - 1 \in 1..n /\ q[i - 1] = recency[i]
        BY <3>3, <1>1, <1>2, <1>5, SMTT(30)
      <4> QED BY <4>1
    <3> QED BY <3>1, <3>2, <3>3, <1>1, <1>2
  <2>3. (\E i \in 1..n : q[i] = r) => (\E i \in 1..n : recency[i] = r)
    BY <2>1
  <2>4. (\E i \in 1..n : recency[i] = r) => (\E i \in 1..n : q[i] = r)
    BY <2>2
  <2> QED BY <2>3, <2>4
<1>8. MapOK(map, q)
  BY <1>1, <1>4, <1>6, <1>7 DEF MapOK
<1> QED BY <1>3, <1>8

\* A write keeps the order and the map together, also when it pushes the
\* eldest sender out.
LEMMA PutNonceOK ==
    ASSUME MapOK(expectedNonce, recency), evicted \subseteq Senders,
           NEW s \in Senders, NEW m \in Nat, PutNonce(s, m)
    PROVE  MapOK(expectedNonce, recency)' /\ evicted' \subseteq Senders
<1> DEFINE n == Len(recency)
<1>1. /\ recency \in Seq(Senders) /\ n \in Nat
      /\ \A i \in 1..n : recency[i] \in Senders
      /\ \A i, j \in 1..n : recency[i] = recency[j] => i = j
      /\ \A r \in Senders : expectedNonce[r] # Absent <=> \E i \in 1..n : recency[i] = r
      /\ expectedNonce \in [Senders -> Nat \cup {Absent}]
  BY DEF MapOK
<1>2. m # Absent
  BY DEF Absent
<1>3. CASE expectedNonce[s] # Absent
  <2>1. /\ expectedNonce' \in [Senders -> Nat \cup {Absent}]
        /\ \A r \in Senders : expectedNonce'[r] # Absent <=> expectedNonce[r] # Absent
    BY <1>1, <1>2, <1>3 DEF PutNonce
  <2>2. recency' = Touched(s) /\ evicted' = evicted
    BY <1>3 DEF PutNonce
  <2>3. MapOK(expectedNonce', Touched(s))
    BY <1>3, <2>1, TouchedOK
  <2> QED BY <2>2, <2>3 DEF MapOK
<1>4. CASE expectedNonce[s] = Absent /\ n < DedupCapacity
  <2>1. /\ expectedNonce' = [r \in Senders |-> IF r = s THEN m ELSE expectedNonce[r]]
        /\ recency' = Append(recency, s) /\ evicted' = evicted
    BY <1>1, <1>4, SettingsAssumption DEF PutNonce
  <2>2. /\ recency' \in Seq(Senders) /\ Len(recency') = n + 1
        /\ \A i \in 1..n : recency'[i] = recency[i]
        /\ recency'[n + 1] = s
    BY <2>1, <1>1
  <2>3. \A i \in 1..n : recency[i] # s
    BY <1>1, <1>4
  <2>4. \A i, j \in 1..(n + 1) : recency'[i] = recency'[j] => i = j
    BY <2>2, <2>3, <1>1
  <2>5. \A r \in Senders : expectedNonce'[r] # Absent
                            <=> \E i \in 1..(n + 1) : recency'[i] = r
    BY <2>1, <2>2, <1>1, <1>2
  <2> QED BY <2>1, <2>2, <2>4, <2>5, <1>1 DEF MapOK
<1>5. CASE expectedNonce[s] = Absent /\ n >= DedupCapacity
  <2>1. /\ expectedNonce' = [r \in Senders |-> IF r = s THEN m
                                                ELSE IF r = recency[1] THEN Absent
                                                ELSE expectedNonce[r]]
        /\ recency' = Replaced(1, s) /\ evicted' = evicted \cup {recency[1]}
    BY <1>1, <1>5, SettingsAssumption DEF PutNonce
  <2>2. 1 \in 1..n /\ recency[1] \in Senders
    BY <1>1, <1>5, SettingsAssumption
  <2>3. recency' \in Seq(Senders) /\ Len(recency') = n
    BY <2>1, <2>2, <1>1, ReplacedShape
  <2>4. \A i \in 1..n : recency'[i] = IF i < n THEN recency[i + 1] ELSE s
    BY <2>1, <1>1 DEF Replaced
  <2>5. \A i \in 1..n : recency[i] # s
    BY <1>1, <1>5
  <2>6. \A i, j \in 1..n : recency'[i] = recency'[j] => i = j
    BY <2>4, <2>5, <1>1
  <2>7. ASSUME NEW r \in Senders
        PROVE  expectedNonce'[r] # Absent <=> \E i \in 1..n : recency'[i] = r
    <3>1. CASE r = s
      BY <3>1, <2>1, <2>2, <2>4, <1>1, <1>2
    <3>2. CASE r = recency[1]
      BY <3>2, <2>1, <2>2, <2>4, <2>5, <1>1
    <3>3. CASE r # s /\ r # recency[1]
      <4>1. (\E i \in 1..n : recency[i] = r) => \E i \in 1..n : recency'[i] = r
        <5>1. ASSUME NEW i \in 1..n, recency[i] = r PROVE recency'[i - 1] = r /\ i - 1 \in 1..n
          BY <5>1, <3>3, <2>4, <1>1, SMTT(30)
        <5> QED BY <5>1
      <4>2. (\E i \in 1..n : recency'[i] = r) => \E i \in 1..n : recency[i] = r
        BY <3>3, <2>4, <1>1
      <4> QED BY <4>1, <4>2, <3>3, <2>1, <1>1
    <3> QED BY <3>1, <3>2, <3>3
  <2> QED BY <2>1, <2>2, <2>3, <2>6, <2>7, <1>1 DEF MapOK
<1> QED BY <1>1, <1>3, <1>4, <1>5, SettingsAssumption

-----------------------------------------------------------------------------
(* Type correctness *)

\* The numbers that the handlers compute stay numbers.
LEMMA Arithmetic ==
    ASSUME TypeOK
    PROVE  /\ AssignedDeadline \in Nat /\ AssignedDeadline <= blockNumber + Horizon
           /\ \A seen \in 0..SealedHead : InclusionDeadline(seen) \in Nat
           /\ \A id \in Ids, d \in Nat : InsertFresh(id, d) \in [Ids -> Nat \cup {Absent}]
           /\ \A held \in [Ids -> Nat \cup {Absent}], open \in Nat :
                 PruneExpired(held, open) \in [Ids -> Nat \cup {Absent}]
           /\ SealedHead \in Nat /\ blockNumber = SealedHead + 1
<1>1. AssignedDeadline \in Nat /\ AssignedDeadline <= blockNumber + Horizon
  BY SettingsAssumption DEF TypeOK, AssignedDeadline, Lesser
<1>2. SealedHead \in Nat /\ blockNumber = SealedHead + 1
  BY DEF TypeOK, SealedHead
<1>3. \A seen \in 0..SealedHead : InclusionDeadline(seen) \in Nat
  BY <1>2, SettingsAssumption DEF InclusionDeadline, Lesser
<1>4. \A d \in Nat : Lesser(d, AssignedDeadline) \in Nat
  BY <1>1 DEF Lesser
<1>5. \A id \in Ids, d \in Nat : InsertFresh(id, d) \in [Ids -> Nat \cup {Absent}]
  BY <1>4 DEF TypeOK, InsertFresh
<1>6. \A held \in [Ids -> Nat \cup {Absent}], open \in Nat :
         PruneExpired(held, open) \in [Ids -> Nat \cup {Absent}]
  BY DEF PruneExpired
<1> QED BY <1>1, <1>2, <1>3, <1>5, <1>6

LEMMA NextTimestamp ==
    ASSUME TypeOK, NEW ms \in Clocks
    PROVE  NextL2Timestamp(ms) \in Nat /\ NextL2Timestamp(ms) > lastL2Timestamp
<1>1. ms \in Nat /\ TickMs \in Nat \ {0} /\ lastL2Timestamp \in Nat
  BY SettingsAssumption DEF TypeOK
<1>2. ms \div TickMs \in Nat
  BY <1>1
<1>3. (ms \div TickMs) * TickMs \in Nat
  BY <1>1, <1>2
<1> QED BY <1>1, <1>3 DEF NextL2Timestamp, Greater

\* The fields of a boundary and of the window over which it prunes.
ClockTyped ==
    /\ blockNumber' \in Nat \ {0}
    /\ lastBoundaryCount' \in 0..canonicalCount
    /\ lastL2Timestamp' \in Nat
    /\ dedup' \in [Ids -> Nat \cup {Absent}]
    /\ sealed' \subseteq Boundary

LEMMA SealTyped ==
    ASSUME TypeOK, NEW ms \in Clocks, NEW held \in [Ids -> Nat \cup {Absent}], Seal(ms, held)
    PROVE  ClockTyped
<1>1. NextL2Timestamp(ms) \in Nat
  BY NextTimestamp
<1>2. blockNumber + 1 \in Nat \ {0}
  BY DEF TypeOK
<1>3. PruneExpired(held, blockNumber + 1) \in [Ids -> Nat \cup {Absent}]
  BY <1>2, Arithmetic
<1>4. sealed' \subseteq Boundary
  BY <1>1 DEF Seal, TypeOK, Boundary
<1>5. lastBoundaryCount' \in 0..canonicalCount
  BY DEF Seal, TypeOK
<1> QED BY <1>1, <1>2, <1>3, <1>4, <1>5 DEF ClockTyped, Seal

LEMMA CloseOpenBlockTyped ==
    ASSUME TypeOK, NEW ms \in Clocks, NEW held \in [Ids -> Nat \cup {Absent}],
           CloseOpenBlock(ms, held)
    PROVE  ClockTyped
<1>1. CASE canonicalCount > lastBoundaryCount
  BY <1>1, SealTyped DEF CloseOpenBlock
<1>2. CASE ~(canonicalCount > lastBoundaryCount)
  BY <1>2 DEF CloseOpenBlock, ClockTyped, TypeOK, clockVars
<1> QED BY <1>1, <1>2

LEMMA RelayTyped ==
    ASSUME TypeOK, blockNumber' \in Nat, NEW n \in Nat, NEW kind, NEW item, NEW deadline,
           \A i, b \in Nat : [kind |-> kind, index |-> i, slots |-> n, block |-> b,
                              item |-> item, deadline |-> deadline] \in Relayed,
           Relay(kind, item, n, deadline)
    PROVE  canonicalCount' = canonicalCount + n /\ canonical' \subseteq Relayed
BY DEF Relay, TypeOK

LEMMA RecordTyped ==
    ASSUME TypeOK, NEW tx \in Txs, NEW deadline \in Nat, OnRecord(tx, deadline)
    PROVE  TypeOK'
<1>1. tx.id \in Ids /\ tx.sender \in Senders \cup {ZeroSender} /\ tx.nonce \in Nat
  BY InputAssumption DEF TxRecord
<1>2. CASE RefuseRecord(tx, deadline)
  <2>1. UNCHANGED <<expectedNonce, evicted, voidVars, dedup, clockVars, orderVars,
                    originVars, cursorVars>>
    BY <1>2 DEF OnRecord, RefuseRecord, RelayRecord
  <2>2. MapOK(expectedNonce, recency)'
    <3>1. CASE RecordVerdict(tx, deadline) = "CONTIGUITY_REJECT"
      <4>1. tx.sender \in Senders /\ expectedNonce[tx.sender] # Absent
        BY <3>1, <1>1 DEF RecordVerdict, NotNextNonce
      <4>2. MapOK(expectedNonce, Touched(tx.sender))
        BY <4>1, TouchedOK DEF TypeOK, MapOK
      <4>3. recency' = Touched(tx.sender) /\ expectedNonce' = expectedNonce
        BY <3>1, <1>2 DEF RefuseRecord
      <4> QED BY <4>2, <4>3 DEF MapOK
    <3>2. CASE RecordVerdict(tx, deadline) # "CONTIGUITY_REJECT"
      BY <3>2, <1>2 DEF RefuseRecord, TypeOK, MapOK
    <3> QED BY <3>1, <3>2
  <2> QED BY <2>1, <2>2 DEF TypeOK, voidVars, clockVars, orderVars, originVars, cursorVars
<1>3. CASE RelayRecord(tx, deadline)
  <2>1. UNCHANGED <<clockVars, originVars, cursorVars>>
    BY <1>3 DEF OnRecord, RelayRecord
  <2>2. MapOK(expectedNonce, recency)' /\ evicted' \subseteq Senders
    <3>1. CASE tx.sender # ZeroSender
      <4>1. PutNonce(tx.sender, tx.nonce + 1)
        BY <3>1, <1>3 DEF RelayRecord
      <4>2. tx.sender \in Senders /\ tx.nonce + 1 \in Nat
        BY <3>1, <1>1
      <4> QED BY <4>1, <4>2, PutNonceOK DEF TypeOK
    <3>2. CASE tx.sender = ZeroSender
      BY <3>2, <1>3 DEF RelayRecord, nonceVars, TypeOK, MapOK
    <3> QED BY <3>1, <3>2
  <2>3. window' \subseteq WindowEntry /\ votes' \subseteq Nat \X Voters /\ UNCHANGED asked
    BY <1>3 DEF RelayRecord, WithReference, WindowEntry, voidVars, TypeOK
  <2>4. dedup' \in [Ids -> Nat \cup {Absent}]
    BY <1>1, <1>3, Arithmetic DEF RelayRecord
  <2>5. canonicalCount' = canonicalCount + 1 /\ canonical' \subseteq Relayed
    <3>1. \A i, b \in Nat : [kind |-> "tx", index |-> i, slots |-> 1, block |-> b,
                             item |-> tx, deadline |-> deadline] \in Relayed
      BY DEF Relayed
    <3>2. blockNumber' \in Nat
      BY <2>1 DEF TypeOK, clockVars
    <3>3. Relay("tx", tx, 1, deadline)
      BY <1>3 DEF RelayRecord
    <3> QED BY <3>1, <3>2, <3>3, RelayTyped
  <2> QED BY <2>1, <2>2, <2>3, <2>4, <2>5 DEF TypeOK, clockVars, originVars, cursorVars
<1> QED BY <1>2, <1>3 DEF OnRecord

LEMMA TickTyped ==
    ASSUME TypeOK, NEW ms \in Clocks, OnTick(ms)
    PROVE  TypeOK'
<1>1. ClockTyped
  BY SealTyped DEF OnTick, TypeOK
<1>2. UNCHANGED <<nonceVars, voidVars, originVars, cursorVars, orderVars>>
  BY DEF OnTick
<1> QED BY <1>1, <1>2 DEF TypeOK, ClockTyped, MapOK, nonceVars, voidVars, originVars,
                          cursorVars, orderVars

LEMMA OriginTyped ==
    ASSUME TypeOK, NEW epoch \in Epochs, NEW ms \in Clocks, OnOriginRecord(epoch, ms)
    PROVE  TypeOK'
<1>1. epoch.id \in Ids /\ epoch.origin \in Nat /\ epoch.slots \in Nat \ {0}
  BY InputAssumption DEF EpochRecord
<1>2. CASE UNCHANGED vars
  BY <1>2 DEF TypeOK, MapOK, vars, nonceVars, voidVars, originVars, cursorVars, orderVars,
              clockVars
<1>3. CASE OriginVerdict(epoch) = "RELAYED"
  <2>1. /\ CloseOpenBlock(ms, InsertFresh(epoch.id, AssignedDeadline))
        /\ l1Origin' = epoch.origin
        /\ Relay("epoch", epoch, epoch.slots, Absent)
        /\ UNCHANGED <<nonceVars, voidVars, remoteOrigins, cursorVars>>
    BY <1>3 DEF OnOriginRecord
  <2>2. ClockTyped
    BY <2>1, <1>1, Arithmetic, CloseOpenBlockTyped
  <2>3. canonicalCount' = canonicalCount + epoch.slots /\ canonical' \subseteq Relayed
    <3>1. \A i, b \in Nat : [kind |-> "epoch", index |-> i, slots |-> epoch.slots, block |-> b,
                             item |-> epoch, deadline |-> Absent] \in Relayed
      BY <1>1 DEF Relayed
    <3> QED BY <3>1, <2>1, <2>2, <1>1, RelayTyped DEF ClockTyped
  <2> QED BY <2>1, <2>2, <2>3, <1>1, SMTT(30) DEF TypeOK, ClockTyped, MapOK, nonceVars, voidVars,
                                        cursorVars
<1> QED BY <1>2, <1>3 DEF OnOriginRecord

LEMMA RemoteOriginTyped ==
    ASSUME TypeOK, NEW batch \in Batches, NEW ms \in Clocks, OnRemoteOriginRecord(batch, ms)
    PROVE  TypeOK'
<1>1. /\ batch.id \in Ids /\ batch.anchor \in Nat /\ batch.first \in Nat
      /\ batch.last \in Nat /\ batch.slots \in Nat
  BY InputAssumption DEF BatchRecord
<1>2. CASE UNCHANGED vars
  BY <1>2 DEF TypeOK, MapOK, vars, nonceVars, voidVars, originVars, cursorVars, orderVars,
              clockVars
<1>3. CASE RemoteOriginVerdict(batch) = "RELAYED"
  <2>1. /\ CloseOpenBlock(ms, InsertFresh(batch.id, AssignedDeadline))
        /\ remoteOrigins' = [remoteOrigins EXCEPT ![batch.peer] =
                                [anchor |-> batch.anchor, next |-> batch.last + 1]]
        /\ Relay("batch", batch, batch.slots, Absent)
        /\ UNCHANGED <<nonceVars, voidVars, l1Origin, cursorVars>>
    BY <1>3 DEF OnRemoteOriginRecord
  <2>2. batch.slots \in Nat \ {0} /\ batch.peer \in Peers
    BY <1>1, <1>3 DEF RemoteOriginVerdict
  <2>3. ClockTyped
    BY <2>1, <1>1, Arithmetic, CloseOpenBlockTyped
  <2>4. canonicalCount' = canonicalCount + batch.slots /\ canonical' \subseteq Relayed
    <3>1. \A i, b \in Nat : [kind |-> "batch", index |-> i, slots |-> batch.slots, block |-> b,
                             item |-> batch, deadline |-> Absent] \in Relayed
      BY <2>2 DEF Relayed
    <3> QED BY <3>1, <2>1, <2>3, <1>1, RelayTyped DEF ClockTyped
  <2>5. remoteOrigins' \in [Peers -> [anchor : Nat \cup {Absent}, next : Nat \cup {Absent}]]
    <3> DEFINE Origin == [anchor : Nat \cup {Absent}, next : Nat \cup {Absent}]
    <3>1. [anchor |-> batch.anchor, next |-> batch.last + 1] \in Origin
      BY <1>1
    <3>2. remoteOrigins \in [Peers -> Origin]
      BY DEF TypeOK
    <3> HIDE DEF Origin
    <3>3. remoteOrigins' \in [Peers -> Origin]
      BY <3>1, <3>2, <2>1
    <3> QED BY <3>3 DEF Origin
  <2>6. MapOK(expectedNonce, recency)' /\ evicted' \subseteq Senders
    BY <2>1 DEF TypeOK, MapOK, nonceVars
  <2> QED BY <2>1, <2>3, <2>4, <2>5, <2>6, <1>1 DEF TypeOK, ClockTyped, voidVars, cursorVars
<1> QED BY <1>2, <1>3 DEF OnRemoteOriginRecord

LEMMA CursorTyped ==
    ASSUME TypeOK,
           \/ \E head \in Posted : OnPostedCursor(head)
           \/ \E c \in Recorded : OnRecordedCursor(c[1], c[2])
    PROVE  TypeOK'
<1>1. CASE \E head \in Posted : OnPostedCursor(head)
  BY <1>1, SettingsAssumption DEF OnPostedCursor, TypeOK, MapOK, clockVars, nonceVars, voidVars,
                                  originVars, orderVars
<1>2. ASSUME NEW c \in Recorded, OnRecordedCursor(c[1], c[2])
      PROVE  TypeOK'
  <2>1. c[2] \in Nat
    BY SettingsAssumption
  <2>2. bestRecorded' \in Nat \cup {Absent}
    BY <1>2, <2>1 DEF OnRecordedCursor, Greater, Absent, TypeOK
  <2>3. UNCHANGED <<clockVars, nonceVars, voidVars, originVars, postedHead, orderVars, dedup>>
    BY <1>2 DEF OnRecordedCursor
  <2> QED BY <2>2, <2>3 DEF TypeOK, MapOK, clockVars, nonceVars, voidVars, originVars, orderVars
<1> QED BY <1>1, <1>2

LEMMA VoidTyped ==
    ASSUME TypeOK, NEW voter, NEW index \in Nat, NEW id, OnVoidRequest(voter, index, id)
    PROVE  TypeOK'
<1>1. KeptVotes \subseteq Nat \X Voters
  BY DEF KeptVotes, TypeOK
<1>2. CASE /\ VoteVerdict(voter, index, id) # "DECIDED"
           /\ UNCHANGED <<window, dedup, nonceVars, clockVars, orderVars>>
  <2>1. votes' \subseteq Nat \X Voters /\ asked' \subseteq Nat \X Voters
    <3>1. CASE VoteVerdict(voter, index, id) = "REFUSED"
      BY <3>1, <1>1 DEF OnVoidRequest, TypeOK
    <3>2. CASE VoteVerdict(voter, index, id) = "COUNTED"
      <4>1. voter \in Voters
        BY <3>2 DEF VoteVerdict
      <4> QED BY <4>1, <3>2, <1>1 DEF OnVoidRequest, TypeOK
    <3> QED BY <3>1, <3>2, <1>2 DEF OnVoidRequest
  <2>2. UNCHANGED <<originVars, cursorVars>>
    BY DEF OnVoidRequest
  <2> QED BY <2>1, <2>2, <1>2 DEF TypeOK, MapOK, nonceVars, clockVars, originVars, cursorVars,
                                  orderVars
<1>3. CASE VoteVerdict(voter, index, id) = "DECIDED"
  <2>1. /\ votes' = {p \in KeptVotes : p[1] # index}
        /\ window' = window \ NamedBy(index, id)
        /\ UNCHANGED <<originVars, cursorVars>>
    BY <1>3 DEF OnVoidRequest, Taken
  <2>2. PICK e \in NamedBy(index, id) : AppendVoid(e)
    BY <1>3 DEF OnVoidRequest
  <2>3. e \in WindowEntry
    BY <2>2 DEF NamedBy, TypeOK
  <2>4. e.tx \in Txs /\ e.tx.id \in Ids /\ e.tx.nonce \in Nat
    BY <2>3, InputAssumption DEF WindowEntry, TxRecord
  <2>5. UNCHANGED clockVars
    BY <2>2 DEF AppendVoid
  <2>6. dedup' \in [Ids -> Nat \cup {Absent}]
    BY <2>2, <2>4 DEF AppendVoid, TypeOK
  <2>7. MapOK(expectedNonce, recency)' /\ evicted' \subseteq Senders
    <3>1. CASE e.tx.sender \in Senders /\ expectedNonce[e.tx.sender] # Absent
      <4> DEFINE lowest == Lesser(expectedNonce[e.tx.sender], e.tx.nonce)
      <4>1. lowest \in Nat /\ lowest # Absent
        BY <3>1, <2>4 DEF Lesser, Absent, TypeOK, MapOK
      <4>2. /\ expectedNonce' = [expectedNonce EXCEPT ![e.tx.sender] = lowest]
            /\ recency' = Touched(e.tx.sender) /\ evicted' = evicted
        BY <3>1, <2>2 DEF AppendVoid, ReopenedNonce
      <4> HIDE DEF lowest
      <4>3. /\ expectedNonce' \in [Senders -> Nat \cup {Absent}]
            /\ \A r \in Senders : expectedNonce'[r] # Absent <=> expectedNonce[r] # Absent
        BY <4>1, <4>2, <3>1 DEF TypeOK, MapOK
      <4>4. MapOK(expectedNonce', Touched(e.tx.sender))
        BY <4>3, <3>1, TouchedOK DEF TypeOK
      <4> QED BY <4>2, <4>4 DEF TypeOK, MapOK
    <3>2. CASE ~(e.tx.sender \in Senders /\ expectedNonce[e.tx.sender] # Absent)
      BY <3>2, <2>2 DEF AppendVoid, TypeOK, MapOK, nonceVars
    <3> QED BY <3>1, <3>2
  <2>8. canonicalCount' = canonicalCount + 1 /\ canonical' \subseteq Relayed
    <3>1. \A i, b \in Nat : [kind |-> "void", index |-> i, slots |-> 1, block |-> b,
                             item |-> e, deadline |-> Absent] \in Relayed
      BY <2>3 DEF Relayed
    <3>2. blockNumber' \in Nat
      BY <2>5 DEF TypeOK, clockVars
    <3>3. Relay("void", e, 1, Absent)
      BY <2>2 DEF AppendVoid
    <3> QED BY <3>1, <3>2, <3>3, RelayTyped
  <2>9. window' \subseteq WindowEntry /\ votes' \subseteq Nat \X Voters
    BY <2>1, <1>1 DEF TypeOK
  <2>10. asked' \subseteq Nat \X Voters
    <3>1. voter \in Voters
      BY <1>3 DEF VoteVerdict
    <3> QED BY <3>1, <1>3 DEF OnVoidRequest, TypeOK
  <2> QED BY <2>1, <2>5, <2>6, <2>7, <2>8, <2>9, <2>10
         DEF TypeOK, clockVars, originVars, cursorVars
<1> QED BY <1>2, <1>3 DEF OnVoidRequest

LEMMA TypeStep ==
    ASSUME TypeOK, [Next]_vars
    PROVE  TypeOK'
<1>1. ASSUME NEW tx \in Txs, NEW seen \in 0..SealedHead, Offer(tx, seen) PROVE TypeOK'
  BY <1>1, Arithmetic, RecordTyped DEF Offer
<1>2. CASE \E ms \in Clocks : OnTick(ms)
  BY <1>2, TickTyped
<1>3. CASE \E epoch \in Epochs, ms \in Clocks : OnOriginRecord(epoch, ms)
  BY <1>3, OriginTyped
<1>4. CASE \E batch \in Batches, ms \in Clocks : OnRemoteOriginRecord(batch, ms)
  BY <1>4, RemoteOriginTyped
<1>5. CASE \/ \E head \in Posted : OnPostedCursor(head)
           \/ \E c \in Recorded : OnRecordedCursor(c[1], c[2])
  BY <1>5, CursorTyped
<1>6. ASSUME NEW v \in Voters \cup Strangers, NEW i \in 0..canonicalCount, NEW t \in Txs,
             OnVoidRequest(v, i, t.id)
      PROVE  TypeOK'
  <2>1. i \in Nat
    BY DEF TypeOK
  <2> QED BY <2>1, <1>6, VoidTyped
<1>7. CASE UNCHANGED vars
  BY <1>7 DEF TypeOK, MapOK, vars, nonceVars, voidVars, originVars, cursorVars, orderVars,
              clockVars
<1> QED BY <1>1, <1>2, <1>3, <1>4, <1>5, <1>6, <1>7 DEF Next

\* Every field of CanonicalSealerState keeps its type, and the access order
\* of the nonce map holds exactly its senders, through every operation.
THEOREM TypeCorrect == Spec => []TypeOK
<1>1. Init => TypeOK
  BY SettingsAssumption DEF Init, TypeOK, MapOK, Unseeded, Absent
<1>2. TypeOK /\ [Next]_vars => TypeOK'
  BY TypeStep
<1> QED BY <1>1, <1>2, PTL DEF Spec

-----------------------------------------------------------------------------
(* The dedup window is exact                                               *)
(*                                                                         *)
(* ReofferAbsorbed is not inductive: a prune could drop an id that nothing *)
(* in it says is held.  The strengthening says that the window holds every *)
(* standing id at least until the deadline of its envelope, and that       *)
(* indices are given out in order, so that a void always follows what it   *)
(* removes.                                                                *)

Covered(r) == blockNumber > r.deadline \/ dedup[r.item.id] >= r.deadline

DedupInv ==
    /\ \A r \in canonical : r.index < canonicalCount
    /\ \A r \in canonical : Standing(r) => Covered(r)

LEMMA TxFields ==
    ASSUME TypeOK, NEW r \in canonical, r.kind = "tx"
    PROVE  r.item \in Txs /\ r.item.id \in Ids /\ r.deadline \in Nat /\ r.index \in Nat
BY InputAssumption DEF TypeOK, Relayed, TxRecord

\* A record that stands after a step stood before it: no void is withdrawn.
LEMMA StandingBefore ==
    ASSUME canonical \subseteq canonical', NEW r \in canonical, Standing(r)'
    PROVE  Standing(r) /\ r.kind = "tx"
BY DEF Standing

\* A seal moves the open block past every deadline that it prunes.
LEMMA PruneCovered ==
    ASSUME TypeOK, NEW id \in Ids, NEW d \in Nat, NEW ms, NEW held \in [Ids -> Nat \cup {Absent}],
           Seal(ms, held), blockNumber > d \/ held[id] >= d
    PROVE  blockNumber' > d \/ dedup'[id] >= d
BY DEF Seal, PruneExpired, TypeOK, Absent

LEMMA CloseCovered ==
    ASSUME TypeOK, NEW id \in Ids, NEW d \in Nat, NEW ms, NEW held \in [Ids -> Nat \cup {Absent}],
           CloseOpenBlock(ms, held), blockNumber > d \/ held[id] >= d
    PROVE  blockNumber' > d \/ dedup'[id] >= d
BY PruneCovered DEF CloseOpenBlock, clockVars, TypeOK

\* An id that is not held is covered only by its deadline, so a later insert
\* of that id, whatever record brings it, uncovers nothing.
LEMMA InsertCovered ==
    ASSUME TypeOK, NEW id \in Ids, NEW d \in Nat, NEW x \in Ids, NEW e \in Nat, ~Held(x),
           blockNumber > d \/ dedup[id] >= d
    PROVE  blockNumber > d \/ InsertFresh(x, e)[id] >= d
BY DEF InsertFresh, Held, TypeOK, Absent

\* An origin record: both kinds insert an id, may seal, and relay no transaction.
LEMMA OriginCovered ==
    ASSUME TypeOK, DedupInv, NEW ms, NEW x \in Ids, ~Held(x), NEW n \in Nat \ {0},
           NEW kind \in {"epoch", "batch"}, NEW item,
           CloseOpenBlock(ms, InsertFresh(x, AssignedDeadline)),
           Relay(kind, item, n, Absent)
    PROVE  DedupInv'
<1>1. /\ canonicalCount' = canonicalCount + n
      /\ canonical' = canonical \cup {[kind |-> kind, index |-> canonicalCount, slots |-> n,
                                       block |-> blockNumber', item |-> item, deadline |-> Absent]}
  BY DEF Relay
<1>2. ASSUME NEW r \in canonical' PROVE r.index < canonicalCount'
  BY <1>1 DEF TypeOK, DedupInv, Relayed
<1>3. ASSUME NEW r \in canonical', Standing(r)' PROVE Covered(r)'
  <2>1. r.kind = "tx"
    BY <1>3 DEF Standing
  <2>2. r \in canonical
    BY <2>1, <1>1
  <2>3. Standing(r)
    BY <1>1, <1>3, <2>2, StandingBefore
  <2>4. r.item.id \in Ids /\ r.deadline \in Nat
    BY <2>1, <2>2, TxFields
  <2>5. blockNumber > r.deadline \/ dedup[r.item.id] >= r.deadline
    BY <2>2, <2>3 DEF DedupInv, Covered
  <2> DEFINE held == InsertFresh(x, AssignedDeadline)
  <2>6. held \in [Ids -> Nat \cup {Absent}] /\ AssignedDeadline \in Nat
    BY Arithmetic
  <2>7. blockNumber > r.deadline \/ held[r.item.id] >= r.deadline
    BY <2>4, <2>5, <2>6, InsertCovered
  <2> HIDE DEF held
  <2>8. CloseOpenBlock(ms, held)
    BY DEF held
  <2> QED BY <2>4, <2>6, <2>7, <2>8, CloseCovered DEF Covered
<1> QED BY <1>2, <1>3 DEF DedupInv

LEMMA RecordCovered ==
    ASSUME TypeOK, DedupInv, NEW tx \in Txs, NEW d \in Nat, d <= AssignedDeadline,
           OnRecord(tx, d)
    PROVE  DedupInv'
<1>1. CASE RefuseRecord(tx, d)
  BY <1>1 DEF RefuseRecord, DedupInv, Standing, Covered, orderVars, clockVars
<1>2. CASE RelayRecord(tx, d)
  <2>1. tx.id \in Ids
    BY InputAssumption DEF TxRecord
  <2>2. ~Held(tx.id)
    BY <1>2 DEF RelayRecord, RecordVerdict
  <2>3. dedup' = [dedup EXCEPT ![tx.id] = d] /\ blockNumber' = blockNumber
    <3>1. Lesser(d, AssignedDeadline) = d
      BY Arithmetic DEF Lesser
    <3> QED BY <3>1, <1>2 DEF RelayRecord, InsertFresh, clockVars
  <2>4. PICK new : /\ canonicalCount' = canonicalCount + 1 /\ canonical' = canonical \cup {new}
                   /\ new.index = canonicalCount /\ new.item = tx /\ new.deadline = d
    <3> DEFINE rec == [kind |-> "tx", index |-> canonicalCount, slots |-> 1,
                       block |-> blockNumber', item |-> tx, deadline |-> d]
    <3>1. canonicalCount' = canonicalCount + 1 /\ canonical' = canonical \cup {rec}
      BY <1>2 DEF RelayRecord, Relay
    <3>2. rec.index = canonicalCount /\ rec.item = tx /\ rec.deadline = d
      OBVIOUS
    <3> HIDE DEF rec
    <3> QED BY <3>1, <3>2
  <2>5. ASSUME NEW r \in canonical' PROVE r.index < canonicalCount'
    BY <2>4 DEF TypeOK, DedupInv, Relayed
  <2>6. Covered(new)'
    BY <2>1, <2>3, <2>4 DEF Covered, TypeOK
  <2>7. ASSUME NEW r \in canonical, Standing(r)' PROVE Covered(r)'
    <3>1. Standing(r) /\ r.kind = "tx"
      BY <2>4, <2>7, StandingBefore
    <3>2. r.item.id \in Ids /\ r.deadline \in Nat
      BY <3>1, TxFields
    <3>3. blockNumber > r.deadline \/ dedup[r.item.id] >= r.deadline
      BY <3>1 DEF DedupInv, Covered
    <3> QED BY <3>2, <3>3, <2>1, <2>2, <2>3 DEF Covered, Held, Absent, TypeOK
  <2> QED BY <2>4, <2>5, <2>6, <2>7 DEF DedupInv
<1> QED BY <1>1, <1>2 DEF OnRecord

LEMMA VoidCovered ==
    ASSUME TypeOK, DedupInv, NEW voter, NEW index \in Nat, NEW id, OnVoidRequest(voter, index, id)
    PROVE  DedupInv'
<1>1. CASE UNCHANGED <<window, dedup, nonceVars, clockVars, orderVars>>
  BY <1>1 DEF DedupInv, Standing, Covered, orderVars, clockVars
<1>2. ASSUME NEW e \in NamedBy(index, id), AppendVoid(e) PROVE DedupInv'
  <2>1. e.tx \in Txs /\ e.tx.id \in Ids
    BY InputAssumption DEF NamedBy, TypeOK, WindowEntry, TxRecord
  <2> DEFINE new == [kind |-> "void", index |-> canonicalCount, slots |-> 1,
                     block |-> blockNumber', item |-> e, deadline |-> Absent]
  <2>2. /\ dedup' = [dedup EXCEPT ![e.tx.id] = Absent] /\ blockNumber' = blockNumber
        /\ canonicalCount' = canonicalCount + 1 /\ canonical' = canonical \cup {new}
    BY <1>2 DEF AppendVoid, Relay, clockVars
  <2>3. ASSUME NEW r \in canonical' PROVE r.index < canonicalCount'
    BY <2>2 DEF TypeOK, DedupInv, Relayed
  <2>4. ASSUME NEW r \in canonical', Standing(r)' PROVE Covered(r)'
    <3>1. r \in canonical
      BY <2>4, <2>2 DEF Standing
    <3>2. Standing(r) /\ r.kind = "tx"
      BY <3>1, <2>2, <2>4, StandingBefore
    <3>3. r.item \in Txs /\ r.item.id \in Ids /\ r.deadline \in Nat
      BY <3>1, <3>2, TxFields
    <3>4. new.kind = "void" /\ new.index > r.index /\ new.item.tx = e.tx
      BY <3>1 DEF DedupInv, TypeOK, Relayed
    <3>5. e.tx # r.item
      BY <3>4, <2>2, <2>4 DEF Standing
    <3>6. e.tx.id # r.item.id
      BY <3>3, <3>5, <2>1, HashAssumption
    <3> QED BY <3>1, <3>2, <3>3, <3>6, <2>1, <2>2 DEF DedupInv, Covered, TypeOK
  <2> HIDE DEF new
  <2> QED BY <2>3, <2>4 DEF DedupInv
<1> QED BY <1>1, <1>2 DEF OnVoidRequest

LEMMA DedupInvStep ==
    ASSUME ~FreshProxies, TypeOK, DedupInv, [Next]_vars
    PROVE  DedupInv'
<1>1. ASSUME NEW tx \in Txs, NEW seen \in 0..SealedHead, Offer(tx, seen) PROVE DedupInv'
  <2>1. seen # 0 /\ seen <= blockNumber - 1
    BY <1>1 DEF Offer, SealedHead, TypeOK
  <2>2. InclusionDeadline(seen) \in Nat /\ InclusionDeadline(seen) <= AssignedDeadline
    BY <2>1, SettingsAssumption DEF InclusionDeadline, AssignedDeadline, Lesser, TypeOK
  <2> QED BY <1>1, <2>2, RecordCovered DEF Offer
<1>2. ASSUME NEW ms \in Clocks, OnTick(ms) PROVE DedupInv'
  <2>1. Seal(ms, dedup) /\ UNCHANGED <<canonicalCount, canonical>>
    BY <1>2 DEF OnTick, orderVars
  <2>2. dedup \in [Ids -> Nat \cup {Absent}]
    BY DEF TypeOK
  <2>3. ASSUME NEW r \in canonical', Standing(r)' PROVE Covered(r)'
    <3>1. r \in canonical /\ Standing(r) /\ r.kind = "tx"
      BY <2>1, <2>3 DEF Standing
    <3>2. r.item.id \in Ids /\ r.deadline \in Nat
      BY <3>1, TxFields
    <3>3. blockNumber > r.deadline \/ dedup[r.item.id] >= r.deadline
      BY <3>1 DEF DedupInv, Covered
    <3> QED BY <3>2, <3>3, <2>1, <2>2, PruneCovered DEF Covered
  <2> QED BY <2>1, <2>3 DEF DedupInv
<1>3. ASSUME NEW epoch \in Epochs, NEW ms \in Clocks, OnOriginRecord(epoch, ms) PROVE DedupInv'
  <2>1. epoch.id \in Ids /\ epoch.slots \in Nat \ {0}
    BY InputAssumption DEF EpochRecord
  <2>2. CASE UNCHANGED vars
    BY <2>2 DEF DedupInv, Standing, Covered, vars, orderVars, clockVars
  <2>3. CASE OriginVerdict(epoch) = "RELAYED"
    <3>1. ~Held(epoch.id)
      BY <2>3 DEF OriginVerdict
    <3>2. /\ CloseOpenBlock(ms, InsertFresh(epoch.id, AssignedDeadline))
          /\ Relay("epoch", epoch, epoch.slots, Absent)
      BY <2>3, <1>3 DEF OnOriginRecord
    <3> QED BY <3>1, <3>2, <2>1, OriginCovered
  <2> QED BY <1>3, <2>2, <2>3 DEF OnOriginRecord
<1>4. ASSUME NEW batch \in Batches, NEW ms \in Clocks, OnRemoteOriginRecord(batch, ms)
      PROVE  DedupInv'
  <2>1. /\ batch.id \in Ids /\ batch.slots \in Nat /\ batch.first \in Nat /\ batch.last \in Nat
    BY InputAssumption DEF BatchRecord
  <2>2. CASE UNCHANGED vars
    BY <2>2 DEF DedupInv, Standing, Covered, vars, orderVars, clockVars
  <2>3. CASE RemoteOriginVerdict(batch) = "RELAYED"
    <3>1. ~Held(batch.id) /\ batch.slots \in Nat \ {0}
      BY <2>1, <2>3 DEF RemoteOriginVerdict
    <3>2. /\ CloseOpenBlock(ms, InsertFresh(batch.id, AssignedDeadline))
          /\ Relay("batch", batch, batch.slots, Absent)
      BY <2>3, <1>4 DEF OnRemoteOriginRecord
    <3> QED BY <3>1, <3>2, <2>1, OriginCovered
  <2> QED BY <1>4, <2>2, <2>3 DEF OnRemoteOriginRecord
<1>5. ASSUME \/ \E head \in Posted : OnPostedCursor(head)
             \/ \E c \in Recorded : OnRecordedCursor(c[1], c[2])
             \/ UNCHANGED vars
      PROVE  DedupInv'
  BY <1>5 DEF OnPostedCursor, OnRecordedCursor, DedupInv, Standing, Covered, vars, orderVars,
              clockVars
<1>6. ASSUME NEW v \in Voters \cup Strangers, NEW i \in 0..canonicalCount, NEW t \in Txs,
             OnVoidRequest(v, i, t.id)
      PROVE  DedupInv'
  <2>1. i \in Nat
    BY DEF TypeOK
  <2> QED BY <2>1, <1>6, VoidCovered
<1> QED BY <1>1, <1>2, <1>3, <1>4, <1>5, <1>6 DEF Next

\* The dedup window is exact, whatever the capacity and the horizon: when
\* every proxy has seen a boundary before it stamps, another offer of an
\* ordered envelope is a duplicate or past its deadline for ever, unless a
\* void took its id out.
THEOREM ReofferSafe ==
    ASSUME ~FreshProxies
    PROVE  Spec => []ReofferAbsorbed
<1>1. Init => DedupInv
  BY DEF Init, DedupInv
<1>2. TypeOK /\ DedupInv /\ [Next]_vars => DedupInv'
  BY DedupInvStep
<1>3. TypeOK /\ DedupInv => ReofferAbsorbed
  <2> SUFFICES ASSUME TypeOK, DedupInv, NEW r \in canonical, Standing(r)
               PROVE  RecordVerdict(r.item, r.deadline) \in {"DUPLICATE", "PAST_DEADLINE"}
    BY DEF ReofferAbsorbed
  <2>1. r.item.id \in Ids /\ r.deadline \in Nat
    BY TxFields DEF Standing
  <2>2. blockNumber > r.deadline \/ Held(r.item.id)
    BY <2>1 DEF DedupInv, Covered, Held, Absent, TypeOK
  <2> QED BY <2>2 DEF RecordVerdict
<1> QED BY <1>1, <1>2, <1>3, TypeCorrect, PTL DEF Spec

-----------------------------------------------------------------------------
(* The order and the boundaries                                            *)
(*                                                                         *)
(* What any step does to the order, whichever handler it runs: it may      *)
(* stamp one boundary, and then it may relay one record.                   *)

Stamps ==
    \E ts \in Nat :
        /\ ts > lastL2Timestamp /\ lastL2Timestamp' = ts
        /\ blockNumber' = blockNumber + 1
        /\ sealed' = sealed \cup {[block |-> blockNumber, end |-> canonicalCount,
                                   ts |-> ts, origin |-> l1Origin]}

Appends ==
    \E n \in Nat \ {0} :
        /\ canonicalCount' = canonicalCount + n
        /\ \E new : /\ new.index = canonicalCount /\ new.slots = n /\ new.block = blockNumber'
                    /\ canonical' = canonical \cup {new}

KeepsClock == UNCHANGED <<blockNumber, lastL2Timestamp, sealed>>
KeepsOrder == UNCHANGED <<canonicalCount, canonical>>

LEMMA SealStamps ==
    ASSUME TypeOK, NEW ms \in Clocks, NEW held, Seal(ms, held)
    PROVE  Stamps
BY NextTimestamp DEF Seal, Stamps

LEMMA CloseStamps ==
    ASSUME TypeOK, NEW ms \in Clocks, NEW held, CloseOpenBlock(ms, held)
    PROVE  Stamps \/ KeepsClock
BY SealStamps DEF CloseOpenBlock, KeepsClock, clockVars

LEMMA RelayAppends ==
    ASSUME NEW n \in Nat \ {0}, NEW kind, NEW item, NEW deadline, Relay(kind, item, n, deadline)
    PROVE  Appends
<1> DEFINE new == [kind |-> kind, index |-> canonicalCount, slots |-> n,
                   block |-> blockNumber', item |-> item, deadline |-> deadline]
<1>1. canonicalCount' = canonicalCount + n /\ canonical' = canonical \cup {new}
  BY DEF Relay
<1>2. new.index = canonicalCount /\ new.slots = n /\ new.block = blockNumber'
  OBVIOUS
<1> HIDE DEF new
<1> QED BY <1>1, <1>2 DEF Appends

LEMMA StepShape ==
    ASSUME TypeOK, [Next]_vars
    PROVE  (Stamps \/ KeepsClock) /\ (Appends \/ KeepsOrder)
<1>1. ASSUME NEW tx \in Txs, NEW d, OnRecord(tx, d)
      PROVE  KeepsClock /\ (Appends \/ KeepsOrder)
  <2>1. CASE RefuseRecord(tx, d)
    BY <2>1 DEF RefuseRecord, KeepsClock, KeepsOrder, clockVars, orderVars
  <2>2. CASE RelayRecord(tx, d)
    BY <2>2, RelayAppends DEF RelayRecord, KeepsClock, clockVars
  <2> QED BY <1>1, <2>1, <2>2 DEF OnRecord
<1>2. ASSUME NEW ms \in Clocks, OnTick(ms) PROVE Stamps /\ KeepsOrder
  BY <1>2, SealStamps DEF OnTick, KeepsOrder, orderVars
<1>3. ASSUME NEW epoch \in Epochs, NEW ms \in Clocks, OnOriginRecord(epoch, ms)
      PROVE  (Stamps \/ KeepsClock) /\ (Appends \/ KeepsOrder)
  <2>1. epoch.slots \in Nat \ {0}
    BY InputAssumption DEF EpochRecord
  <2>2. CASE UNCHANGED vars
    BY <2>2 DEF KeepsClock, KeepsOrder, vars, clockVars, orderVars
  <2>3. CASE OriginVerdict(epoch) = "RELAYED"
    BY <1>3, <2>1, <2>3, CloseStamps, RelayAppends DEF OnOriginRecord
  <2> QED BY <1>3, <2>2, <2>3 DEF OnOriginRecord
<1>4. ASSUME NEW batch \in Batches, NEW ms \in Clocks, OnRemoteOriginRecord(batch, ms)
      PROVE  (Stamps \/ KeepsClock) /\ (Appends \/ KeepsOrder)
  <2>1. batch.slots \in Nat /\ batch.first \in Nat /\ batch.last \in Nat
    BY InputAssumption DEF BatchRecord
  <2>2. CASE UNCHANGED vars
    BY <2>2 DEF KeepsClock, KeepsOrder, vars, clockVars, orderVars
  <2>3. CASE RemoteOriginVerdict(batch) = "RELAYED"
    <3>1. batch.slots \in Nat \ {0}
      BY <2>1, <2>3 DEF RemoteOriginVerdict
    <3> QED BY <1>4, <3>1, <2>3, CloseStamps, RelayAppends DEF OnRemoteOriginRecord
  <2> QED BY <1>4, <2>2, <2>3 DEF OnRemoteOriginRecord
<1>5. ASSUME \/ \E head \in Posted : OnPostedCursor(head)
             \/ \E c \in Recorded : OnRecordedCursor(c[1], c[2])
             \/ UNCHANGED vars
      PROVE  KeepsClock /\ KeepsOrder
  BY <1>5 DEF OnPostedCursor, OnRecordedCursor, KeepsClock, KeepsOrder, vars, clockVars, orderVars
<1>6. ASSUME NEW v, NEW i, NEW id, OnVoidRequest(v, i, id)
      PROVE  KeepsClock /\ (Appends \/ KeepsOrder)
  <2>1. CASE UNCHANGED <<window, dedup, nonceVars, clockVars, orderVars>>
    BY <2>1 DEF KeepsClock, KeepsOrder, clockVars, orderVars
  <2>2. ASSUME NEW e, AppendVoid(e) PROVE KeepsClock /\ Appends
    BY <2>2, RelayAppends DEF AppendVoid, KeepsClock, clockVars
  <2> QED BY <1>6, <2>1, <2>2 DEF OnVoidRequest
<1> QED BY <1>1, <1>2, <1>3, <1>4, <1>5, <1>6 DEF Next, Offer

\* Neither property is inductive: a new boundary must end at or after every
\* record, a new record must start at or after every boundary, and a new time
\* must pass every earlier one.
OrderInv ==
    /\ \A r \in canonical : r.index + r.slots <= canonicalCount /\ r.block <= blockNumber
    /\ \A b \in sealed : /\ b.block < blockNumber /\ b.end <= canonicalCount
                         /\ b.ts <= lastL2Timestamp
    /\ SlotsDense
    /\ BoundariesOrdered

LEMMA RecordNumbers ==
    ASSUME TypeOK
    PROVE  /\ \A r \in canonical : r.index \in Nat /\ r.slots \in Nat \ {0} /\ r.block \in Nat
           /\ \A b \in sealed : b.block \in Nat /\ b.end \in Nat /\ b.ts \in Nat
BY DEF TypeOK, Relayed, Boundary

\* The two halves of a step, one after the other: first the boundary.
LEMMA StampKeepsOrder ==
    ASSUME TypeOK, OrderInv, Stamps
    PROVE  /\ \A r \in canonical : r.block <= blockNumber'
           /\ \A b \in sealed' : /\ b.block < blockNumber' /\ b.end <= canonicalCount
                                 /\ b.ts <= lastL2Timestamp'
           /\ \A r \in canonical, b \in sealed' :
                 IF r.block <= b.block THEN r.index + r.slots <= b.end ELSE b.end <= r.index
           /\ BoundariesOrdered'
<1>1. PICK ts \in Nat : /\ ts > lastL2Timestamp /\ lastL2Timestamp' = ts
                        /\ blockNumber' = blockNumber + 1
                        /\ sealed' = sealed \cup {[block |-> blockNumber, end |-> canonicalCount,
                                                   ts |-> ts, origin |-> l1Origin]}
  BY DEF Stamps
<1>2. PICK new : /\ new.block = blockNumber /\ new.end = canonicalCount /\ new.ts = ts
                 /\ sealed' = sealed \cup {new}
  <2> DEFINE b == [block |-> blockNumber, end |-> canonicalCount, ts |-> ts, origin |-> l1Origin]
  <2>1. b.block = blockNumber /\ b.end = canonicalCount /\ b.ts = ts /\ sealed' = sealed \cup {b}
    BY <1>1
  <2> HIDE DEF b
  <2> QED BY <2>1
<1>3. /\ blockNumber \in Nat \ {0} /\ canonicalCount \in Nat /\ lastL2Timestamp \in Nat
      /\ \A r \in canonical : r.index \in Nat /\ r.slots \in Nat \ {0} /\ r.block \in Nat
      /\ \A b \in sealed : b.block \in Nat /\ b.end \in Nat /\ b.ts \in Nat
  BY RecordNumbers DEF TypeOK
<1>4. \A r \in canonical : r.block <= blockNumber'
  BY <1>1, <1>3 DEF OrderInv
<1>5. \A b \in sealed' : /\ b.block < blockNumber' /\ b.end <= canonicalCount
                         /\ b.ts <= lastL2Timestamp'
  BY <1>1, <1>2, <1>3 DEF OrderInv
<1>6. \A r \in canonical, b \in sealed' :
         IF r.block <= b.block THEN r.index + r.slots <= b.end ELSE b.end <= r.index
  BY <1>2, <1>3 DEF OrderInv, SlotsDense
<1>7. BoundariesOrdered'
  <2>1. {b.block : b \in sealed'} = 1..(blockNumber' - 1)
    <3>1. {b.block : b \in sealed} = 1..(blockNumber - 1)
      BY DEF OrderInv, BoundariesOrdered
    <3>2. {b.block : b \in sealed'} = {b.block : b \in sealed} \cup {blockNumber}
      BY <1>2
    <3>3. 1..(blockNumber' - 1) = 1..(blockNumber - 1) \cup {blockNumber}
      BY <1>1, <1>3
    <3> QED BY <3>1, <3>2, <3>3
  <2>2. ASSUME NEW b \in sealed', NEW c \in sealed', b.block < c.block
        PROVE  b.ts < c.ts /\ b.end <= c.end
    BY <2>2, <1>1, <1>2, <1>3 DEF OrderInv, BoundariesOrdered
  <2>3. ASSUME NEW b \in sealed', NEW c \in sealed', b.block = c.block
        PROVE  b = c
    BY <2>3, <1>2, <1>3 DEF OrderInv, BoundariesOrdered
  <2> QED BY <2>1, <2>2, <2>3 DEF BoundariesOrdered
<1> QED BY <1>4, <1>5, <1>6, <1>7

LEMMA OrderInvStep ==
    ASSUME TypeOK, OrderInv, [Next]_vars
    PROVE  OrderInv'
<1>1. /\ blockNumber \in Nat \ {0} /\ canonicalCount \in Nat /\ lastL2Timestamp \in Nat
      /\ \A r \in canonical : r.index \in Nat /\ r.slots \in Nat \ {0} /\ r.block \in Nat
      /\ \A b \in sealed : b.block \in Nat /\ b.end \in Nat /\ b.ts \in Nat
  BY RecordNumbers DEF TypeOK
<1>2. TypeOK'
  BY TypeStep
<1>3. /\ \A r \in canonical : r.block <= blockNumber'
      /\ \A b \in sealed' : /\ b.block < blockNumber' /\ b.end <= canonicalCount
                            /\ b.ts <= lastL2Timestamp'
      /\ \A r \in canonical, b \in sealed' :
            IF r.block <= b.block THEN r.index + r.slots <= b.end ELSE b.end <= r.index
      /\ BoundariesOrdered'
  <2>1. CASE Stamps
    BY <2>1, StampKeepsOrder
  <2>2. CASE KeepsClock
    BY <2>2 DEF KeepsClock, OrderInv, SlotsDense, BoundariesOrdered
  <2> QED BY <2>1, <2>2, StepShape
<1>4. CASE KeepsOrder
  BY <1>3, <1>4 DEF KeepsOrder, OrderInv, SlotsDense
<1>5. CASE Appends
  <2>a. PICK n \in Nat \ {0} :
            /\ canonicalCount' = canonicalCount + n
            /\ \E new : /\ new.index = canonicalCount /\ new.slots = n /\ new.block = blockNumber'
                        /\ canonical' = canonical \cup {new}
    BY <1>5 DEF Appends
  <2>b. PICK new :
            /\ new.index = canonicalCount /\ new.slots = n /\ new.block = blockNumber'
            /\ canonical' = canonical \cup {new}
    BY <2>a
  <2>1. /\ canonicalCount' = canonicalCount + n
        /\ new.index = canonicalCount /\ new.slots = n /\ new.block = blockNumber'
        /\ canonical' = canonical \cup {new}
    BY <2>a, <2>b
  <2>2. /\ blockNumber' \in Nat /\ \A b \in sealed' : b.block \in Nat /\ b.end \in Nat
    BY <1>2, RecordNumbers DEF TypeOK, Boundary
  <2>3. \A r \in canonical' : r.index + r.slots <= canonicalCount' /\ r.block <= blockNumber'
    BY <2>1, <2>2, <1>1, <1>3 DEF OrderInv
  <2>4. \A b \in sealed' : /\ b.block < blockNumber' /\ b.end <= canonicalCount'
                           /\ b.ts <= lastL2Timestamp'
    BY <2>1, <2>2, <1>1, <1>3
  <2>5. SlotsDense'
    <3>1. ASSUME NEW i \in 0..(canonicalCount' - 1)
          PROVE  \E r \in canonical' : r.index <= i /\ i < r.index + r.slots
      <4>1. CASE i < canonicalCount
        BY <4>1, <2>1, <1>1 DEF OrderInv, SlotsDense
      <4>2. CASE i >= canonicalCount
        BY <4>2, <2>1, <1>1
      <4> QED BY <4>1, <4>2, <1>1
    <3>2. ASSUME NEW q \in canonical', NEW r \in canonical'
          PROVE  q = r \/ q.index + q.slots <= r.index \/ r.index + r.slots <= q.index
      BY <2>1, <1>1 DEF OrderInv, SlotsDense
    <3>3. ASSUME NEW r \in canonical', NEW b \in sealed'
          PROVE  IF r.block <= b.block THEN r.index + r.slots <= b.end ELSE b.end <= r.index
      BY <2>1, <2>2, <1>1, <1>3
    <3> QED BY <3>1, <3>2, <3>3 DEF SlotsDense
  <2> QED BY <2>3, <2>4, <2>5, <1>3 DEF OrderInv
<1> QED BY <1>4, <1>5, StepShape

LEMMA OrderInvariant == Spec => []OrderInv
<1>1. Init => OrderInv
  BY DEF Init, OrderInv, SlotsDense, BoundariesOrdered
<1>2. TypeOK /\ OrderInv /\ [Next]_vars => OrderInv'
  BY OrderInvStep
<1> QED BY <1>1, <1>2, TypeCorrect, PTL DEF Spec

\* The consumers' dense cursor, for every mix of records, epochs and batches:
\* the relayed records tile the indices below the count without a hole or an
\* overlap, and every boundary falls between two of them.
THEOREM SlotsAreDense == Spec => []SlotsDense
<1>1. OrderInv => SlotsDense
  BY DEF OrderInv
<1> QED BY <1>1, OrderInvariant, PTL

\* Boundaries are numbered from 1 without a gap, each number once, and their
\* times strictly increase whatever the clocks of the leaders say.
THEOREM BoundariesAreOrdered == Spec => []BoundariesOrdered
<1>1. OrderInv => BoundariesOrdered
  BY DEF OrderInv
<1> QED BY <1>1, OrderInvariant, PTL

-----------------------------------------------------------------------------
(* What a step adds to the order, by kind *)

\* A new transaction was admitted by the verdict, in the open block; a new
\* void was decided, and its entry left the void window with it.
Admits(new) ==
    /\ new.kind = "tx" /\ new.block = blockNumber
    /\ \E d : RecordVerdict(new.item, d) = "RELAYED"
    /\ \/ window' = WithReference(canonicalCount, new.item)
       \/ window' = window

Decides(new) ==
    \E voter, id :
        /\ new.kind = "void" /\ new.item \in NamedBy(new.item.index, id)
        /\ VoteVerdict(voter, new.item.index, id) = "DECIDED"
        /\ window' = window \ NamedBy(new.item.index, id)

LEMMA AppendsByKind ==
    ASSUME TypeOK, [Next]_vars
    PROVE  \/ canonicalCount' = canonicalCount /\ UNCHANGED <<canonical, window>>
           \/ \E new : /\ canonical' = canonical \cup {new} /\ new.index = canonicalCount
                       /\ canonicalCount' > canonicalCount
                       /\ \/ Admits(new)
                          \/ Decides(new)
                          \/ new.kind \in {"epoch", "batch"} /\ UNCHANGED window
<1> DEFINE Record(kind, item, n, d) ==
              [kind |-> kind, index |-> canonicalCount, slots |-> n,
               block |-> blockNumber', item |-> item, deadline |-> d]
           Goal == \/ canonicalCount' = canonicalCount /\ UNCHANGED <<canonical, window>>
                   \/ \E new : /\ canonical' = canonical \cup {new} /\ new.index = canonicalCount
                               /\ canonicalCount' > canonicalCount
                               /\ \/ Admits(new)
                                  \/ Decides(new)
                                  \/ new.kind \in {"epoch", "batch"} /\ UNCHANGED window
<1>0. canonicalCount \in Nat
  BY DEF TypeOK
<1>1. ASSUME NEW tx \in Txs, NEW d, OnRecord(tx, d) PROVE Goal
  <2>1. CASE RefuseRecord(tx, d)
    BY <2>1 DEF RefuseRecord, orderVars, voidVars
  <2>2. CASE RelayRecord(tx, d)
    <3> DEFINE new == Record("tx", tx, 1, d)
    <3>1. canonical' = canonical \cup {new} /\ canonicalCount' = canonicalCount + 1
      BY <2>2 DEF RelayRecord, Relay
    <3>2. /\ new.kind = "tx" /\ new.block = blockNumber /\ new.item = tx
          /\ new.index = canonicalCount
      BY <2>2 DEF RelayRecord, clockVars
    <3>3. RecordVerdict(tx, d) = "RELAYED"
      BY <2>2 DEF RelayRecord
    <3>4. window' = WithReference(canonicalCount, tx) \/ window' = window
      BY <2>2 DEF RelayRecord, voidVars
    <3> HIDE DEF new
    <3>5. Admits(new)
      BY <3>2, <3>3, <3>4 DEF Admits
    <3> QED BY <3>1, <3>2, <3>5, <1>0
  <2> QED BY <1>1, <2>1, <2>2 DEF OnRecord
<1>2. ASSUME NEW ms \in Clocks, OnTick(ms) PROVE Goal
  BY <1>2 DEF OnTick, orderVars, voidVars
<1>3. ASSUME NEW kind \in {"epoch", "batch"}, NEW item, NEW n \in Nat \ {0},
             Relay(kind, item, n, Absent), UNCHANGED window
      PROVE  Goal
  <2> DEFINE new == Record(kind, item, n, Absent)
  <2>1. /\ canonical' = canonical \cup {new} /\ canonicalCount' = canonicalCount + n
    BY <1>3 DEF Relay
  <2>2. new.kind = kind /\ new.index = canonicalCount
    OBVIOUS
  <2> HIDE DEF new
  <2> QED BY <1>3, <2>1, <2>2, <1>0
<1>4. ASSUME NEW epoch \in Epochs, NEW ms \in Clocks, OnOriginRecord(epoch, ms) PROVE Goal
  <2>1. epoch.slots \in Nat \ {0}
    BY InputAssumption DEF EpochRecord
  <2>2. \/ UNCHANGED vars
        \/ Relay("epoch", epoch, epoch.slots, Absent) /\ UNCHANGED voidVars
    BY <1>4 DEF OnOriginRecord
  <2> QED BY <2>1, <2>2, <1>3 DEF vars, orderVars, voidVars
<1>5. ASSUME NEW batch \in Batches, NEW ms \in Clocks, OnRemoteOriginRecord(batch, ms)
      PROVE  Goal
  <2>1. batch.slots \in Nat /\ batch.first \in Nat /\ batch.last \in Nat
    BY InputAssumption DEF BatchRecord
  <2>2. \/ UNCHANGED vars
        \/ /\ batch.slots # 0
           /\ Relay("batch", batch, batch.slots, Absent) /\ UNCHANGED voidVars
    BY <1>5, <2>1 DEF OnRemoteOriginRecord, RemoteOriginVerdict
  <2> QED BY <2>1, <2>2, <1>3 DEF vars, orderVars, voidVars
<1>6. ASSUME \/ \E head \in Posted : OnPostedCursor(head)
             \/ \E c \in Recorded : OnRecordedCursor(c[1], c[2])
             \/ UNCHANGED vars
      PROVE  Goal
  BY <1>6 DEF OnPostedCursor, OnRecordedCursor, vars, orderVars, voidVars
<1>7. ASSUME NEW v, NEW i, NEW id, OnVoidRequest(v, i, id) PROVE Goal
  <2>1. CASE UNCHANGED <<window, dedup, nonceVars, clockVars, orderVars>>
    BY <2>1 DEF orderVars
  <2>2. CASE VoteVerdict(v, i, id) = "DECIDED"
    <3>1. PICK e \in NamedBy(i, id) : AppendVoid(e)
      BY <1>7, <2>2 DEF OnVoidRequest
    <3> DEFINE new == Record("void", e, 1, Absent)
    <3>2. /\ canonical' = canonical \cup {new} /\ canonicalCount' = canonicalCount + 1
      BY <3>1 DEF AppendVoid, Relay
    <3>3. new.kind = "void" /\ new.index = canonicalCount /\ new.item = e
      OBVIOUS
    <3> HIDE DEF new
    <3>4. e.index = i /\ window' = window \ NamedBy(i, id)
      BY <1>7, <2>2, <3>1 DEF OnVoidRequest, Taken, NamedBy
    <3>5. Decides(new)
      BY <2>2, <3>1, <3>3, <3>4 DEF Decides
    <3> QED BY <3>2, <3>3, <3>5, <1>0
  <2> QED BY <1>7, <2>1, <2>2 DEF OnVoidRequest
<1> QED BY <1>1, <1>2, <1>4, <1>5, <1>6, <1>7 DEF Next, Offer

-----------------------------------------------------------------------------
(* The DA-lag guard *)

LEMMA PostedHeadRises ==
    ASSUME TypeOK, [Next]_vars
    PROVE  postedHead' \in Nat /\ postedHead' >= postedHead
<1>1. ASSUME NEW head \in Posted, OnPostedCursor(head)
      PROVE  postedHead' \in Nat /\ postedHead' >= postedHead
  BY <1>1, SettingsAssumption DEF OnPostedCursor, TypeOK
<1>2. (\E head \in Posted : OnPostedCursor(head)) \/ UNCHANGED postedHead
  BY DEF Next, Offer, OnRecord, OnTick, OnOriginRecord, OnRemoteOriginRecord, OnRecordedCursor,
         OnVoidRequest, vars, cursorVars
<1> QED BY <1>1, <1>2 DEF TypeOK

LEMMA PostedIsSealed ==
    ASSUME TypeOK, postedHead <= SealedHead, [Next]_vars
    PROVE  (postedHead <= SealedHead)'
<1>1. blockNumber \in Nat /\ blockNumber' \in Nat /\ blockNumber' >= blockNumber
  BY StepShape DEF TypeOK, Stamps, KeepsClock
<1>2. ASSUME NEW head \in Posted, OnPostedCursor(head)
      PROVE  postedHead' <= SealedHead /\ postedHead' \in Nat
  BY <1>2, SettingsAssumption DEF OnPostedCursor, TypeOK, SealedHead
<1>3. postedHead' <= blockNumber - 1 /\ postedHead' \in Nat
  <2>1. (\E head \in Posted : OnPostedCursor(head)) \/ UNCHANGED postedHead
    BY DEF Next, Offer, OnRecord, OnTick, OnOriginRecord, OnRemoteOriginRecord,
           OnRecordedCursor, OnVoidRequest, vars, cursorVars
  <2> QED BY <1>2, <2>1 DEF TypeOK, SealedHead
<1>4. postedHead' <= blockNumber' - 1
  <2> DEFINE b == blockNumber  c == blockNumber'  p == postedHead'
  <2>1. b \in Nat /\ c \in Nat /\ p \in Nat /\ c >= b /\ p <= b - 1
    BY <1>1, <1>3
  <2> HIDE DEF b, c, p
  <2>2. p <= c - 1
    BY <2>1
  <2> QED BY <2>2 DEF c, p
<1> QED BY <1>4 DEF SealedHead

LEMMA RecordsWithinBudget ==
    ASSUME TypeOK, DaLagBounded, [Next]_vars, DaLagBudget > 0, NEW r \in canonical',
           r.kind = "tx", r.item.sender # ZeroSender
    PROVE  r.block <= postedHead' + DaLagBudget + 1
<1>1. /\ postedHead \in Nat /\ postedHead' \in Nat /\ postedHead' >= postedHead
      /\ blockNumber \in Nat /\ DaLagBudget \in Nat
  BY PostedHeadRises, SettingsAssumption DEF TypeOK
<1>2. CASE r \in canonical
  <2>1. r.block <= postedHead + DaLagBudget + 1 /\ r.block \in Nat
    BY <1>2, RecordNumbers DEF DaLagBounded
  <2> QED BY <1>1, <2>1
<1>3. CASE r \notin canonical
  <2>1. Admits(r)
    BY <1>3, AppendsByKind DEF Decides
  <2>2. ~DaLagHalted /\ r.block = blockNumber
    BY <2>1 DEF Admits, RecordVerdict
  <2>3. blockNumber - 1 - postedHead <= DaLagBudget
    BY <1>1, <2>2 DEF DaLagHalted, SealedHead
  <2>4. blockNumber <= postedHead' + DaLagBudget + 1
    <3> DEFINE b == blockNumber  p == postedHead  q == postedHead'  g == DaLagBudget
    <3>1. b \in Nat /\ p \in Nat /\ q \in Nat /\ g \in Nat /\ q >= p /\ b - 1 - p <= g
      BY <1>1, <2>3
    <3> HIDE DEF b, p, q, g
    <3>2. b <= q + g + 1
      BY <3>1
    <3> QED BY <3>2 DEF b, q, g
  <2> QED BY <2>2, <2>4
<1> QED BY <1>2, <1>3

\* The budget bounds the user records for every order of ticks, forced
\* boundaries, cursors and offers: none is in a block more than the budget
\* past the block after the posted head, and that head is a sealed block.
THEOREM DaLagIsBounded == Spec => []DaLagBounded
<1>1. Init => DaLagBounded
  BY DEF Init, DaLagBounded, SealedHead
<1>2. TypeOK /\ DaLagBounded /\ [Next]_vars => DaLagBounded'
  <2> SUFFICES ASSUME TypeOK, DaLagBounded, [Next]_vars
               PROVE  DaLagBounded'
    OBVIOUS
  <2>1. (postedHead <= SealedHead)'
    BY PostedIsSealed DEF DaLagBounded
  <2>2. DaLagBudget > 0 =>
           \A r \in canonical' :
              r.kind = "tx" /\ r.item.sender # ZeroSender =>
                 r.block <= postedHead' + DaLagBudget + 1
    BY RecordsWithinBudget
  <2> QED BY <2>1, <2>2 DEF DaLagBounded
<1> QED BY <1>1, <1>2, TypeCorrect, PTL DEF Spec

-----------------------------------------------------------------------------
(* The void ledger *)

\* Why a void cannot repeat: the window names each ordered index at most
\* once, and never one that a void took out.
LedgerInv ==
    /\ \A e \in window : e.index < canonicalCount
    /\ \A e, f \in window : e.index = f.index => e = f
    /\ \A v \in canonical :
          v.kind = "void" => /\ v.item.index < canonicalCount
                             /\ \A e \in window : e.index # v.item.index
    /\ VoidedOnce

LEMMA VoidNumbers ==
    ASSUME TypeOK
    PROVE  /\ canonicalCount \in Nat
           /\ \A e \in window : e.index \in Nat
           /\ \A v \in canonical : v.index \in Nat
                                   /\ (v.kind = "void" => v.item.index \in Nat)
BY DEF TypeOK, WindowEntry, Relayed

LEMMA LedgerInvStep ==
    ASSUME TypeOK, LedgerInv, [Next]_vars
    PROVE  LedgerInv'
<1>1. CASE canonicalCount' = canonicalCount /\ UNCHANGED <<canonical, window>>
  BY <1>1 DEF LedgerInv, VoidedOnce
<1>2. ASSUME NEW new, canonical' = canonical \cup {new}, new.index = canonicalCount,
             canonicalCount' > canonicalCount, canonicalCount' \in Nat,
             \/ Admits(new)
             \/ new.kind \in {"epoch", "batch"} /\ UNCHANGED window
      PROVE  LedgerInv'
  <2>1. \A e \in window' : e \in window \/ e.index = canonicalCount
    BY <1>2 DEF Admits, WithReference
  <2>2. \A e, f \in window' : e \notin window /\ f \notin window => e = f
    BY <1>2 DEF Admits, WithReference
  <2>3. new.kind # "void"
    BY <1>2 DEF Admits
  <2>4. \A e \in window' : e.index < canonicalCount'
    BY <2>1, <1>2, VoidNumbers DEF LedgerInv
  <2>5. \A e, f \in window' : e.index = f.index => e = f
    BY <2>1, <2>2, VoidNumbers DEF LedgerInv
  <2>6. \A v \in canonical' :
           v.kind = "void" => /\ v.item.index < canonicalCount'
                              /\ \A e \in window' : e.index # v.item.index
    BY <2>1, <2>3, <1>2, VoidNumbers DEF LedgerInv
  <2>7. VoidedOnce'
    BY <2>3, <1>2 DEF LedgerInv, VoidedOnce
  <2> QED BY <2>4, <2>5, <2>6, <2>7 DEF LedgerInv
<1>3. ASSUME NEW new, canonical' = canonical \cup {new}, new.index = canonicalCount,
             canonicalCount' > canonicalCount, canonicalCount' \in Nat, Decides(new)
      PROVE  LedgerInv'
  <2>1. /\ new.item \in window
        /\ window' \subseteq window
        /\ \A e \in window' : e # new.item
    BY <1>3 DEF Decides, NamedBy
  <2>2. \A e \in window' : e.index < canonicalCount'
    BY <2>1, <1>3, VoidNumbers DEF LedgerInv
  <2>3. \A e, f \in window' : e.index = f.index => e = f
    BY <2>1 DEF LedgerInv
  <2>4. \A v \in canonical' :
           v.kind = "void" => /\ v.item.index < canonicalCount'
                              /\ \A e \in window' : e.index # v.item.index
    BY <2>1, <1>3, VoidNumbers DEF LedgerInv
  <2>5. VoidedOnce'
    BY <2>1, <1>3 DEF LedgerInv, VoidedOnce
  <2> QED BY <2>2, <2>3, <2>4, <2>5 DEF LedgerInv
<1>4. canonicalCount' \in Nat
  BY TypeStep DEF TypeOK
<1> QED BY <1>1, <1>2, <1>3, <1>4, AppendsByKind

\* However many voters there are and however they repeat and race, no
\* transaction is voided twice.
THEOREM VoidsAreUnique == Spec => []VoidedOnce
<1>1. Init => LedgerInv
  BY DEF Init, LedgerInv, VoidedOnce
<1>2. TypeOK /\ LedgerInv /\ [Next]_vars => LedgerInv'
  BY LedgerInvStep
<1>3. LedgerInv => VoidedOnce
  BY DEF LedgerInv
<1> QED BY <1>1, <1>2, <1>3, TypeCorrect, PTL DEF Spec

\* With two voters or more a void names one of the newest VoidWindow indices.
\* The window check itself does not say so: the first vote of the other voter
\* must still be open, and dropVotesBelow has aged it out when it is too old.
\* With one voter nothing is left to age out (see MCMembersSingleVoter).
THEOREM VoidsAreRecent ==
    ASSUME \E v, w \in Voters : v # w
    PROVE  Spec => []VoidInWindow
<1>1. Init => VoidInWindow
  BY DEF Init, VoidInWindow
<1>2. TypeOK /\ VoidInWindow /\ [Next]_vars => VoidInWindow'
  <2> SUFFICES ASSUME TypeOK, VoidInWindow, [Next]_vars, NEW v \in canonical', v.kind = "void"
               PROVE  v.item.index >= v.index - VoidCapacity
    BY DEF VoidInWindow
  <2>1. CASE v \in canonical
    BY <2>1 DEF VoidInWindow
  <2>2. CASE v \notin canonical
    <3>1. Decides(v) /\ v.index = canonicalCount
      BY <2>2, AppendsByKind DEF Admits
    <3>2. PICK voter, id : VoteVerdict(voter, v.item.index, id) = "DECIDED"
      BY <3>1 DEF Decides
    <3>3. Voters \subseteq {p[2] : p \in {q \in KeptVotes : q[1] = v.item.index}} \cup {voter}
      BY <3>2 DEF VoteVerdict
    <3>4. PICK p \in KeptVotes : p[1] = v.item.index
      BY <3>3
    <3> QED BY <3>1, <3>4 DEF KeptVotes
  <2> QED BY <2>1, <2>2
<1> QED BY <1>1, <1>2, TypeCorrect, PTL DEF Spec

\* Why a decision counts every voter: a vote that is still open was counted, so
\* the votes that dropVotesBelow keeps and the one at hand are all in `asked`.
QuorumInv == votes \subseteq asked /\ VoidsUnanimous

LEMMA QuorumStep ==
    ASSUME TypeOK, QuorumInv, [Next]_vars
    PROVE  QuorumInv'
<1>1. CASE UNCHANGED <<votes, asked>> /\ \A v \in canonical' : v.kind = "void" => v \in canonical
  BY <1>1 DEF QuorumInv, VoidsUnanimous
<1>2. ASSUME NEW voter, NEW index, NEW id, OnVoidRequest(voter, index, id)
      PROVE  QuorumInv'
  <2>1. /\ asked \subseteq asked'
        /\ votes' \subseteq asked'
    BY <1>2 DEF OnVoidRequest, KeptVotes, QuorumInv
  <2>2. ASSUME NEW v \in canonical', v.kind = "void", NEW u \in Voters
        PROVE  <<v.item.index, u>> \in asked'
    <3>1. CASE v \in canonical
      BY <2>1, <2>2, <3>1 DEF QuorumInv, VoidsUnanimous
    <3>2. CASE v \notin canonical
      <4>1. VoteVerdict(voter, index, id) = "DECIDED"
        BY <1>2, <3>2 DEF OnVoidRequest, orderVars
      <4>2. PICK e \in NamedBy(index, id) : AppendVoid(e)
        BY <1>2, <4>1 DEF OnVoidRequest
      <4>3. v.item = e
        BY <3>2, <4>2 DEF AppendVoid, Relay
      <4>4. v.item.index = index
        BY <4>2, <4>3 DEF NamedBy
      <4>5. u \in {p[2] : p \in {q \in KeptVotes : q[1] = index}} \cup {voter}
        BY <4>1 DEF VoteVerdict
      <4>6. CASE u = voter
        BY <1>2, <4>1, <4>4, <4>6 DEF OnVoidRequest
      <4>7. CASE \E p \in KeptVotes : p[1] = index /\ p[2] = u
        <5>1. PICK p \in votes : p[1] = index /\ p[2] = u
          BY <4>7 DEF KeptVotes
        <5>2. p = <<index, u>>
          BY <5>1 DEF TypeOK
        <5> QED BY <2>1, <4>4, <5>1, <5>2 DEF QuorumInv
      <4> QED BY <4>5, <4>6, <4>7
    <3> QED BY <3>1, <3>2
  <2> QED BY <2>1, <2>2 DEF QuorumInv, VoidsUnanimous
<1>3. ASSUME NEW tx, NEW d, OnRecord(tx, d) PROVE QuorumInv'
  <2>1. CASE RefuseRecord(tx, d)
    BY <1>1, <2>1 DEF RefuseRecord, voidVars, orderVars
  <2>2. CASE RelayRecord(tx, d)
    BY <1>1, <2>2 DEF RelayRecord, Relay, voidVars
  <2> QED BY <1>3, <2>1, <2>2 DEF OnRecord
<1>4. CASE \/ \E epoch \in Epochs, ms \in Clocks : OnOriginRecord(epoch, ms)
           \/ \E batch \in Batches, ms \in Clocks : OnRemoteOriginRecord(batch, ms)
  <2>1. CASE UNCHANGED vars
    BY <1>1, <2>1 DEF vars, voidVars, orderVars
  <2>2. CASE /\ UNCHANGED voidVars
             /\ \E item : Relay("epoch", item, item.slots, Absent)
                          \/ Relay("batch", item, item.slots, Absent)
    BY <1>1, <2>2 DEF Relay, voidVars
  <2> QED BY <1>4, <2>1, <2>2 DEF OnOriginRecord, OnRemoteOriginRecord
<1>5. CASE \/ \E ms \in Clocks : OnTick(ms)
           \/ \E head \in Posted : OnPostedCursor(head)
           \/ \E c \in Recorded : OnRecordedCursor(c[1], c[2])
           \/ UNCHANGED vars
  BY <1>1, <1>5 DEF OnTick, OnPostedCursor, OnRecordedCursor, vars, voidVars, orderVars
<1> QED BY <1>2, <1>3, <1>4, <1>5 DEF Next, Offer

\* A void has a counted vote of every configured voter for its index, however
\* many voters there are and however their votes repeat and age out.
THEOREM VoidsAreUnanimous == Spec => []VoidsUnanimous
<1>1. Init => QuorumInv
  BY DEF Init, QuorumInv, VoidsUnanimous
<1>2. TypeOK /\ QuorumInv /\ [Next]_vars => QuorumInv'
  BY QuorumStep
<1>3. QuorumInv => VoidsUnanimous
  BY DEF QuorumInv
<1> QED BY <1>1, <1>2, <1>3, TypeCorrect, PTL DEF Spec

=============================================================================
