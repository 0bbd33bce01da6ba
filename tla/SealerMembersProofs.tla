-------------------------- MODULE SealerMembersProofs --------------------------
(***************************************************************************)
(* Proofs about SealerMembers, for every value of its constants: a member  *)
(* that restarts from its snapshot at any log position relays the records  *)
(* and stamps the boundaries of a member that never stopped.               *)
(***************************************************************************)
EXTENDS SealerMembers, CanonicalSealerProofs

-----------------------------------------------------------------------------
(* The relation between the two members *)

\* The fields that a snapshot carries whole.
SameState ==
    /\ rCanonicalCount = canonicalCount
    /\ rBlockNumber = blockNumber
    /\ rLastBoundaryCount = lastBoundaryCount
    /\ rLastL2Timestamp = lastL2Timestamp
    /\ rL1Origin = l1Origin
    /\ rRemoteOrigins = remoteOrigins
    /\ rDedup = dedup
    /\ rExpectedNonce = expectedNonce
    /\ rRecency = recency
    /\ rPostedHead = postedHead
    /\ rCanonical = canonical
    /\ rSealed = sealed
    /\ rEvicted = evicted

\* heldIndices leaves the references out that a vote can no longer decide.
SameWindow ==
    /\ rWindow \subseteq window
    /\ \A e \in window : e.index >= canonicalCount - VoidCapacity => e \in rWindow

\* The votes agree once dropVotesBelow has run.
SameVotes ==
    /\ rVotes \subseteq Nat \X Voters
    /\ R!KeptVotes = KeptVotes

Agreement == SameState /\ SameWindow /\ SameVotes

\* No id is held past the deadline that insertFresh would give it now, so a
\* restore through insertFresh keeps every deadline.
DedupBound == \A i \in Ids : dedup[i] <= AssignedDeadline

\* The settings that a member starts with: no record-lag guard (a snapshot
\* holds no recorded cursor), and no void voter or more than one.
Settings ==
    /\ RecordLagBudget = 0
    /\ Voters = {} \/ \E v, w \in Voters : v # w

-----------------------------------------------------------------------------
(* The first member *)

LEMMA FirstMember == ASSUME [MNext]_memberVars PROVE [Next]_vars
<1>1. CASE Apply
  BY <1>1 DEF Apply, Next
<1>2. CASE Restart
  BY <1>2 DEF Restart
<1>3. CASE UNCHANGED memberVars
  BY <1>3 DEF memberVars
<1> QED BY <1>1, <1>2, <1>3 DEF MNext

LEMMA BoundAfterPrune ==
    ASSUME TypeOK, NEW held \in [Ids -> Nat \cup {Absent}],
           \A i \in Ids : held[i] <= AssignedDeadline
    PROVE  \A i \in Ids : PruneExpired(held, blockNumber + 1)[i]
                             <= Lesser(blockNumber + 1 + Horizon, NoDeadline)
<1>1. /\ AssignedDeadline \in Nat
      /\ AssignedDeadline <= Lesser(blockNumber + 1 + Horizon, NoDeadline)
      /\ Lesser(blockNumber + 1 + Horizon, NoDeadline) \in Nat
  BY SettingsAssumption DEF AssignedDeadline, Lesser, TypeOK
<1> HIDE DEF AssignedDeadline, Lesser
<1> QED BY <1>1 DEF PruneExpired, Absent

LEMMA InsertBound ==
    ASSUME TypeOK, DedupBound, NEW id \in Ids, NEW d \in Nat
    PROVE  \A i \in Ids : InsertFresh(id, d)[i] <= AssignedDeadline
<1>1. AssignedDeadline \in Nat /\ Lesser(d, AssignedDeadline) <= AssignedDeadline
  BY Arithmetic DEF Lesser
<1> QED BY <1>1 DEF InsertFresh, DedupBound, TypeOK

LEMMA SealBound ==
    ASSUME TypeOK, NEW held \in [Ids -> Nat \cup {Absent}], NEW ms,
           \A i \in Ids : held[i] <= AssignedDeadline, Seal(ms, held)
    PROVE  DedupBound'
<1>1. AssignedDeadline' = Lesser(blockNumber + 1 + Horizon, NoDeadline)
  BY DEF Seal, AssignedDeadline
<1> QED BY <1>1, BoundAfterPrune DEF Seal, DedupBound

LEMMA DedupBoundStep ==
    ASSUME TypeOK, DedupBound, [Next]_vars
    PROVE  DedupBound'
<1> USE DEF vars, clockVars
<1>1. ASSUME NEW tx \in Txs, NEW seen \in 0..SealedHead, Offer(tx, seen) PROVE DedupBound'
  <2>1. tx.id \in Ids /\ InclusionDeadline(seen) \in Nat
    BY Arithmetic, InputAssumption DEF TxRecord
  <2>2. blockNumber' = blockNumber
    BY <1>1 DEF Offer, OnRecord, RefuseRecord, RelayRecord
  <2>3. dedup' = dedup \/ dedup' = InsertFresh(tx.id, InclusionDeadline(seen))
    BY <1>1 DEF Offer, OnRecord, RefuseRecord, RelayRecord
  <2> QED BY <2>1, <2>2, <2>3, InsertBound DEF DedupBound, AssignedDeadline
<1>2. ASSUME NEW ms \in Clocks, OnTick(ms) PROVE DedupBound'
  BY <1>2, SealBound DEF OnTick, TypeOK, DedupBound
<1>3. ASSUME NEW id \in Ids, NEW ms, CloseOpenBlock(ms, InsertFresh(id, AssignedDeadline))
      PROVE  DedupBound'
  <2>1. /\ InsertFresh(id, AssignedDeadline) \in [Ids -> Nat \cup {Absent}]
        /\ \A i \in Ids : InsertFresh(id, AssignedDeadline)[i] <= AssignedDeadline
    BY Arithmetic, InsertBound
  <2>2. CASE canonicalCount > lastBoundaryCount
    BY <1>3, <2>1, <2>2, SealBound DEF CloseOpenBlock
  <2>3. CASE ~(canonicalCount > lastBoundaryCount)
    BY <1>3, <2>1, <2>3 DEF CloseOpenBlock, DedupBound, AssignedDeadline
  <2> QED BY <2>2, <2>3
<1>4. ASSUME NEW epoch \in Epochs, NEW ms \in Clocks, OnOriginRecord(epoch, ms) PROVE DedupBound'
  <2>1. epoch.id \in Ids
    BY InputAssumption DEF EpochRecord
  <2> QED BY <1>3, <1>4, <2>1 DEF OnOriginRecord, DedupBound, AssignedDeadline
<1>5. ASSUME NEW batch \in Batches, NEW ms \in Clocks, OnRemoteOriginRecord(batch, ms)
      PROVE  DedupBound'
  <2>1. batch.id \in Ids
    BY InputAssumption DEF BatchRecord
  <2> QED BY <1>3, <1>5, <2>1 DEF OnRemoteOriginRecord, DedupBound, AssignedDeadline
<1>6. ASSUME \/ \E head \in Posted : OnPostedCursor(head)
             \/ \E c \in Recorded : OnRecordedCursor(c[1], c[2])
             \/ UNCHANGED vars
      PROVE  DedupBound'
  BY <1>6 DEF OnPostedCursor, OnRecordedCursor, DedupBound, AssignedDeadline
<1>7. ASSUME NEW v, NEW i, NEW id, OnVoidRequest(v, i, id) PROVE DedupBound'
  <2>1. blockNumber' = blockNumber
    BY <1>7 DEF OnVoidRequest, AppendVoid
  <2>2. AssignedDeadline \in Nat
    BY Arithmetic
  <2>3. dedup' = dedup \/ \E e : dedup' = [dedup EXCEPT ![e.tx.id] = Absent]
    BY <1>7 DEF OnVoidRequest, AppendVoid
  <2> QED BY <2>1, <2>2, <2>3 DEF DedupBound, AssignedDeadline, Absent, TypeOK
<1> QED BY <1>1, <1>2, <1>4, <1>5, <1>6, <1>7 DEF Next

-----------------------------------------------------------------------------
(* What the members compute from the same state *)

\* The record-lag guard is the one verdict that reads more than SameState.
LEMMA SameVerdicts ==
    ASSUME SameState, RecordLagBudget = 0
    PROVE  /\ \A tx, d : R!RecordVerdict(tx, d) = RecordVerdict(tx, d)
           /\ \A epoch : R!OriginVerdict(epoch) = OriginVerdict(epoch)
           /\ \A batch : R!RemoteOriginVerdict(batch) = RemoteOriginVerdict(batch)
<1>1. rDedup = dedup /\ rBlockNumber = blockNumber /\ rPostedHead = postedHead
      /\ rExpectedNonce = expectedNonce /\ rL1Origin = l1Origin
      /\ rRemoteOrigins = remoteOrigins
  BY DEF SameState
<1>2. \A id : R!Held(id) <=> Held(id)
  BY <1>1 DEF Held, R!Held, Absent, R!Absent
<1>3. R!WindowSize = WindowSize
  <2>1. {i \in Ids : R!Held(i)} = {i \in Ids : Held(i)}
    BY <1>2
  <2> QED BY <2>1 DEF WindowSize, R!WindowSize, Cardinality, R!Cardinality
<1>4. ~RecordLagHalted /\ ~R!RecordLagHalted
  BY DEF RecordLagHalted, R!RecordLagHalted
<1>5. R!DaLagHalted <=> DaLagHalted
  BY <1>1 DEF DaLagHalted, R!DaLagHalted, SealedHead, R!SealedHead
<1>6. \A tx : R!NotNextNonce(tx) <=> NotNextNonce(tx)
  BY <1>1 DEF NotNextNonce, R!NotNextNonce, Absent, R!Absent
<1>7. \A tx, d : R!RecordVerdict(tx, d) = RecordVerdict(tx, d)
  <2> TAKE tx, d
  <2> QED BY <1>1, <1>2, <1>3, <1>4, <1>5, <1>6 DEF RecordVerdict, R!RecordVerdict
<1>8. \A epoch : R!OriginVerdict(epoch) = OriginVerdict(epoch)
  <2> TAKE epoch
  <2> QED BY <1>1, <1>2 DEF OriginVerdict, R!OriginVerdict
<1>9. \A batch : R!RemoteOriginVerdict(batch) = RemoteOriginVerdict(batch)
  <2> TAKE batch
  <2> QED BY <1>1, <1>2 DEF RemoteOriginVerdict, R!RemoteOriginVerdict, Absent, R!Absent
<1> QED BY <1>7, <1>8, <1>9

LEMMA SameValues ==
    ASSUME SameState
    PROVE  /\ \A id, d : R!InsertFresh(id, d) = InsertFresh(id, d)
           /\ R!AssignedDeadline = AssignedDeadline
           /\ \A s : R!Touched(s) = Touched(s)
           /\ \A i, s : R!Replaced(i, s) = Replaced(i, s)
           /\ \A ms : R!NextL2Timestamp(ms) = NextL2Timestamp(ms)
           /\ \A held, open : R!PruneExpired(held, open) = PruneExpired(held, open)
           /\ R!VoidCapacity = VoidCapacity
           /\ \A seen : R!InclusionDeadline(seen) = InclusionDeadline(seen)
           /\ R!SealedHead = SealedHead
<1>1. rDedup = dedup /\ rBlockNumber = blockNumber /\ rRecency = recency
      /\ rLastL2Timestamp = lastL2Timestamp
  BY DEF SameState
<1>2. R!AssignedDeadline = AssignedDeadline
  BY <1>1 DEF AssignedDeadline, R!AssignedDeadline, Lesser, R!Lesser
<1>3. \A id, d : R!InsertFresh(id, d) = InsertFresh(id, d)
  <2> TAKE id, d
  <2>1. R!Lesser(d, AssignedDeadline) = Lesser(d, AssignedDeadline)
    BY DEF Lesser, R!Lesser
  <2> QED BY <1>1, <1>2, <2>1 DEF InsertFresh, R!InsertFresh
<1>4. \A i, s : R!Replaced(i, s) = Replaced(i, s)
  <2> TAKE i, s
  <2> QED BY <1>1 DEF Replaced, R!Replaced
<1>5. \A s : R!Touched(s) = Touched(s)
  <2> TAKE s
  <2>1. (CHOOSE i \in 1..Len(rRecency) : rRecency[i] = s)
           = CHOOSE i \in 1..Len(recency) : recency[i] = s
    BY <1>1
  <2> QED BY <1>4, <2>1 DEF Touched, R!Touched
<1>6. \A ms : R!NextL2Timestamp(ms) = NextL2Timestamp(ms)
  BY <1>1 DEF NextL2Timestamp, R!NextL2Timestamp, Greater, R!Greater
<1>7. \A held, open : R!PruneExpired(held, open) = PruneExpired(held, open)
  BY DEF PruneExpired, R!PruneExpired, Absent, R!Absent
<1>8. R!VoidCapacity = VoidCapacity
  BY DEF VoidCapacity, R!VoidCapacity
<1>9. \A seen : R!InclusionDeadline(seen) = InclusionDeadline(seen)
  BY DEF InclusionDeadline, R!InclusionDeadline, Lesser, R!Lesser
<1>10. R!SealedHead = SealedHead
  BY <1>1 DEF SealedHead, R!SealedHead
<1> QED BY <1>2, <1>3, <1>4, <1>5, <1>6, <1>7, <1>8, <1>9, <1>10

LEMMA CapacityTyped == VoidCapacity \in Nat
BY SettingsAssumption DEF VoidCapacity

\* A step that moves the count up and leaves the votes alone: more of them are
\* stale, the same ones at both members.
LEMMA VotesAgree ==
    ASSUME TypeOK, Agreement, SameState', UNCHANGED <<votes, rVotes>>,
           canonicalCount' \in Nat, canonicalCount' >= canonicalCount
    PROVE  SameVotes'
<1>1. /\ canonicalCount \in Nat /\ VoidCapacity \in Nat
      /\ votes \subseteq Nat \X Voters /\ rVotes \subseteq Nat \X Voters
  BY CapacityTyped, VoidNumbers DEF TypeOK, Agreement, SameVotes
<1>2. /\ R!VoidCapacity = VoidCapacity
      /\ rCanonicalCount = canonicalCount /\ rCanonicalCount' = canonicalCount'
  BY SameValues DEF Agreement, SameState
<1>3. R!KeptVotes = {p \in rVotes : p[1] >= canonicalCount - VoidCapacity}
  BY <1>2 DEF R!KeptVotes
<1>4. R!KeptVotes' = {p \in rVotes : p[1] >= canonicalCount' - VoidCapacity}
  BY <1>2 DEF R!KeptVotes, R!VoidCapacity
<1>5. KeptVotes' = {p \in votes : p[1] >= canonicalCount' - VoidCapacity}
  BY DEF KeptVotes, VoidCapacity
<1>6. R!KeptVotes' = KeptVotes'
  BY <1>1, <1>3, <1>4, <1>5 DEF Agreement, SameVotes, KeptVotes
<1> QED BY <1>1, <1>6 DEF SameVotes

LEMMA LedgerAgrees ==
    ASSUME TypeOK, Agreement, SameState', UNCHANGED <<window, votes, rWindow, rVotes>>,
           canonicalCount' \in Nat, canonicalCount' >= canonicalCount
    PROVE  Agreement'
<1>1. /\ canonicalCount \in Nat /\ VoidCapacity \in Nat
      /\ \A e \in window : e.index \in Nat
  BY CapacityTyped, VoidNumbers
<1>2. SameWindow'
  BY <1>1 DEF Agreement, SameWindow, VoidCapacity
<1> QED BY <1>2, VotesAgree DEF Agreement

LEMMA SameRelay ==
    ASSUME SameState, NEW kind, NEW item, NEW n, NEW d, rBlockNumber' = blockNumber',
           Relay(kind, item, n, d), R!Relay(kind, item, n, d)
    PROVE  rCanonicalCount' = canonicalCount' /\ rCanonical' = canonical'
BY DEF SameState, Relay, R!Relay

LEMMA SamePut ==
    ASSUME SameState, NEW s, NEW n, PutNonce(s, n), R!PutNonce(s, n)
    PROVE  rExpectedNonce' = expectedNonce' /\ rRecency' = recency' /\ rEvicted' = evicted'
<1>1. rExpectedNonce = expectedNonce /\ rRecency = recency /\ rEvicted = evicted
  BY DEF SameState
<1>2. R!Touched(s) = Touched(s) /\ R!Replaced(1, s) = Replaced(1, s)
  BY SameValues
<1>3. CASE expectedNonce[s] # Absent
  BY <1>1, <1>2, <1>3 DEF PutNonce, R!PutNonce, Absent, R!Absent
<1>4. CASE expectedNonce[s] = Absent
  BY <1>1, <1>2, <1>4 DEF PutNonce, R!PutNonce, Absent, R!Absent
<1> QED BY <1>3, <1>4

LEMMA SameSeal ==
    ASSUME SameState, NEW ms, NEW held, Seal(ms, held), R!Seal(ms, held)
    PROVE  /\ rBlockNumber' = blockNumber' /\ rDedup' = dedup' /\ rSealed' = sealed'
           /\ rLastBoundaryCount' = lastBoundaryCount'
           /\ rLastL2Timestamp' = lastL2Timestamp'
BY SameValues DEF SameState, Seal, R!Seal

LEMMA SameClose ==
    ASSUME SameState, NEW ms, NEW held, CloseOpenBlock(ms, held), R!CloseOpenBlock(ms, held)
    PROVE  /\ rBlockNumber' = blockNumber' /\ rDedup' = dedup' /\ rSealed' = sealed'
           /\ rLastBoundaryCount' = lastBoundaryCount'
           /\ rLastL2Timestamp' = lastL2Timestamp'
<1>1. CASE canonicalCount > lastBoundaryCount
  BY <1>1, SameSeal DEF CloseOpenBlock, R!CloseOpenBlock, SameState
<1>2. CASE ~(canonicalCount > lastBoundaryCount)
  BY <1>2 DEF CloseOpenBlock, R!CloseOpenBlock, SameState, clockVars, R!clockVars
<1> QED BY <1>1, <1>2

-----------------------------------------------------------------------------
(* One log message at both members *)

\* The whole state but the order and the nonce map, which each step moves.
LEMMA RefuseAgrees ==
    ASSUME TypeOK, Agreement, RecordLagBudget = 0, NEW tx, NEW d,
           RefuseRecord(tx, d), R!RefuseRecord(tx, d),
           UNCHANGED <<originVars, cursorVars>>, UNCHANGED <<R!originVars, R!cursorVars>>
    PROVE  Agreement'
<1>1. SameState
  BY DEF Agreement
<1>2. R!RecordVerdict(tx, d) = RecordVerdict(tx, d) /\ R!Touched(tx.sender) = Touched(tx.sender)
  BY <1>1, SameVerdicts, SameValues
<1>3. rRecency' = recency'
  BY <1>1, <1>2 DEF RefuseRecord, R!RefuseRecord, SameState
<1>4. SameState'
  BY <1>1, <1>3 DEF RefuseRecord, R!RefuseRecord, SameState, clockVars, orderVars, originVars,
                    cursorVars, R!clockVars, R!orderVars, R!originVars, R!cursorVars
<1>5. canonicalCount' = canonicalCount /\ UNCHANGED <<window, votes, rWindow, rVotes>>
  BY DEF RefuseRecord, R!RefuseRecord, orderVars, voidVars, R!voidVars
<1> QED BY <1>4, <1>5, LedgerAgrees DEF TypeOK

LEMMA RelayAgrees ==
    ASSUME TypeOK, Agreement, RecordLagBudget = 0, NEW tx \in Txs, NEW d \in Nat,
           RelayRecord(tx, d), R!RelayRecord(tx, d),
           UNCHANGED <<originVars, cursorVars>>, UNCHANGED <<R!originVars, R!cursorVars>>
    PROVE  Agreement'
<1>1. SameState
  BY DEF Agreement
<1>2. rBlockNumber' = blockNumber' /\ rDedup' = dedup' /\ rSealed' = sealed'
      /\ rLastBoundaryCount' = lastBoundaryCount' /\ rLastL2Timestamp' = lastL2Timestamp'
  BY <1>1, SameValues DEF SameState, RelayRecord, R!RelayRecord, clockVars, R!clockVars
<1>3. rCanonicalCount' = canonicalCount' /\ rCanonical' = canonical'
  BY <1>1, <1>2, SameRelay DEF RelayRecord, R!RelayRecord
<1>4. rExpectedNonce' = expectedNonce' /\ rRecency' = recency' /\ rEvicted' = evicted'
  <2>1. CASE tx.sender # ZeroSender
    BY <1>1, <2>1, SamePut DEF RelayRecord, R!RelayRecord
  <2>2. CASE tx.sender = ZeroSender
    BY <1>1, <2>2 DEF RelayRecord, R!RelayRecord, SameState, nonceVars, R!nonceVars
  <2> QED BY <2>1, <2>2
<1>5. SameState'
  BY <1>1, <1>2, <1>3, <1>4 DEF SameState, originVars, cursorVars, R!originVars, R!cursorVars
<1>6. canonicalCount' = canonicalCount + 1 /\ canonicalCount \in Nat
  BY DEF RelayRecord, Relay, TypeOK
<1>7. CASE tx.sender = ZeroSender
  BY <1>5, <1>6, <1>7, LedgerAgrees DEF RelayRecord, R!RelayRecord, voidVars, R!voidVars
<1>8. CASE tx.sender # ZeroSender
  <2>1. UNCHANGED <<votes, rVotes>>
    BY <1>8 DEF RelayRecord, R!RelayRecord
  <2>2. SameVotes'
    BY <1>5, <1>6, <2>1, VotesAgree
  <2>3. SameWindow'
    <3>1. /\ window' = WithReference(canonicalCount, tx)
          /\ rWindow' = R!WithReference(canonicalCount, tx)
      BY <1>1, <1>8 DEF RelayRecord, R!RelayRecord, SameState
    <3>2. R!VoidCapacity = VoidCapacity /\ VoidCapacity \in Nat
      BY <1>1, SameValues, CapacityTyped
    <3>3. \A e \in window : e.index \in Nat
      BY VoidNumbers
    <3>4. \A e \in window : e.index >= canonicalCount + 1 - VoidCapacity
                              => e.index >= canonicalCount - VoidCapacity
      BY <1>6, <3>2, <3>3
    <3>5. VoidCapacity' = VoidCapacity
      BY DEF VoidCapacity
    <3>6. CASE VoidCapacity = 0
      BY <1>6, <3>1, <3>2, <3>4, <3>5, <3>6
         DEF WithReference, R!WithReference, Agreement, SameWindow
    <3>7. CASE VoidCapacity # 0
      <4>1. /\ window' = {e \in window : e.index % VoidCapacity # canonicalCount % VoidCapacity}
                            \cup {[index |-> canonicalCount, tx |-> tx]}
            /\ rWindow' = {e \in rWindow : e.index % VoidCapacity # canonicalCount % VoidCapacity}
                            \cup {[index |-> canonicalCount, tx |-> tx]}
        BY <3>1, <3>2, <3>7 DEF WithReference, R!WithReference
      <4>2. /\ rWindow \subseteq window
            /\ \A e \in window : e.index >= canonicalCount - VoidCapacity => e \in rWindow
        BY DEF Agreement, SameWindow
      <4>3. rWindow' \subseteq window'
        BY <4>1, <4>2
      <4>4. ASSUME NEW e \in window', e.index >= canonicalCount + 1 - VoidCapacity
            PROVE  e \in rWindow'
        BY <3>4, <4>1, <4>2, <4>4
      <4>5. \A e \in window' : e.index >= canonicalCount' - VoidCapacity => e \in rWindow'
        BY <1>6, <3>2, <4>4
      <4> QED BY <4>3, <4>5 DEF SameWindow, VoidCapacity
    <3> QED BY <3>6, <3>7
  <2> QED BY <1>5, <2>2, <2>3 DEF Agreement
<1> QED BY <1>7, <1>8

LEMMA OfferAgrees ==
    ASSUME TypeOK, Agreement, RecordLagBudget = 0, NEW tx \in Txs, NEW seen \in 0..SealedHead,
           Offer(tx, seen), R!Offer(tx, seen)
    PROVE  Agreement'
<1> DEFINE d == InclusionDeadline(seen)
<1>1. SameState /\ d \in Nat
  BY Arithmetic DEF Agreement
<1>2. R!InclusionDeadline(seen) = d
  BY <1>1, SameValues
<1> HIDE DEF d
<1>3. /\ RefuseRecord(tx, d) \/ RelayRecord(tx, d)
      /\ R!RefuseRecord(tx, d) \/ R!RelayRecord(tx, d)
      /\ UNCHANGED <<originVars, cursorVars>> /\ UNCHANGED <<R!originVars, R!cursorVars>>
  BY <1>2 DEF Offer, R!Offer, OnRecord, R!OnRecord, d
<1>4. R!RecordVerdict(tx, d) = RecordVerdict(tx, d)
  BY <1>1, SameVerdicts
<1>5. \/ RefuseRecord(tx, d) /\ R!RefuseRecord(tx, d)
      \/ RelayRecord(tx, d) /\ R!RelayRecord(tx, d)
  BY <1>3, <1>4 DEF RefuseRecord, R!RefuseRecord, RelayRecord, R!RelayRecord
<1> QED BY <1>1, <1>3, <1>5, RefuseAgrees, RelayAgrees

LEMMA TickAgrees ==
    ASSUME TypeOK, Agreement, NEW ms, OnTick(ms), R!OnTick(ms)
    PROVE  Agreement'
<1>1. SameState
  BY DEF Agreement
<1>2. rBlockNumber' = blockNumber' /\ rDedup' = dedup' /\ rSealed' = sealed'
      /\ rLastBoundaryCount' = lastBoundaryCount' /\ rLastL2Timestamp' = lastL2Timestamp'
  <2>1. Seal(ms, dedup) /\ R!Seal(ms, dedup)
    BY <1>1 DEF OnTick, R!OnTick, SameState
  <2> QED BY <1>1, <2>1, SameSeal
<1>3. SameState'
  BY <1>1, <1>2 DEF OnTick, R!OnTick, SameState, nonceVars, originVars, cursorVars, orderVars,
                    R!nonceVars, R!originVars, R!cursorVars, R!orderVars
<1>4. canonicalCount' = canonicalCount /\ UNCHANGED <<window, votes, rWindow, rVotes>>
  BY DEF OnTick, R!OnTick, orderVars, voidVars, R!voidVars
<1> QED BY <1>3, <1>4, LedgerAgrees DEF TypeOK

LEMMA StillAgrees ==
    ASSUME TypeOK, Agreement, UNCHANGED vars, UNCHANGED R!vars
    PROVE  Agreement'
<1>1. SameState'
  BY DEF Agreement, SameState, vars, clockVars, nonceVars, originVars, cursorVars, orderVars,
         R!vars, R!clockVars, R!nonceVars, R!originVars, R!cursorVars, R!orderVars
<1>2. canonicalCount' = canonicalCount /\ UNCHANGED <<window, votes, rWindow, rVotes>>
  BY DEF vars, orderVars, voidVars, R!vars, R!voidVars
<1> QED BY <1>1, <1>2, LedgerAgrees DEF TypeOK

\* An origin record: the forced boundary, then the record, at both members.
LEMMA CloseAndRelayAgree ==
    ASSUME TypeOK, Agreement, NEW ms, NEW held, NEW kind, NEW item, NEW n \in Nat,
           CloseOpenBlock(ms, held), R!CloseOpenBlock(ms, held),
           Relay(kind, item, n, Absent), R!Relay(kind, item, n, Absent),
           rL1Origin' = l1Origin', rRemoteOrigins' = remoteOrigins',
           UNCHANGED <<nonceVars, voidVars, cursorVars>>,
           UNCHANGED <<R!nonceVars, R!voidVars, R!cursorVars>>
    PROVE  Agreement'
<1>1. SameState
  BY DEF Agreement
<1>2. rBlockNumber' = blockNumber' /\ rDedup' = dedup' /\ rSealed' = sealed'
      /\ rLastBoundaryCount' = lastBoundaryCount' /\ rLastL2Timestamp' = lastL2Timestamp'
  BY <1>1, SameClose
<1>3. rCanonicalCount' = canonicalCount' /\ rCanonical' = canonical'
  BY <1>1, <1>2, SameRelay
<1>4. SameState'
  BY <1>1, <1>2, <1>3 DEF SameState, nonceVars, cursorVars, R!nonceVars, R!cursorVars
<1>5. canonicalCount' = canonicalCount + n /\ canonicalCount \in Nat
  BY DEF Relay, TypeOK
<1>6. UNCHANGED <<window, votes, rWindow, rVotes>>
  BY DEF voidVars, R!voidVars
<1> QED BY <1>4, <1>5, <1>6, LedgerAgrees

LEMMA OriginAgrees ==
    ASSUME TypeOK, Agreement, RecordLagBudget = 0, NEW epoch \in Epochs, NEW ms,
           OnOriginRecord(epoch, ms), R!OnOriginRecord(epoch, ms)
    PROVE  Agreement'
<1> DEFINE held == InsertFresh(epoch.id, AssignedDeadline)
<1>1. SameState /\ epoch.slots \in Nat
  BY InputAssumption DEF Agreement, EpochRecord
<1>2. R!OriginVerdict(epoch) = OriginVerdict(epoch)
  BY <1>1, SameVerdicts
<1>3. R!InsertFresh(epoch.id, R!AssignedDeadline) = held
  BY <1>1, SameValues
<1>4. CASE OriginVerdict(epoch) # "RELAYED"
  BY <1>2, <1>4, StillAgrees DEF OnOriginRecord, R!OnOriginRecord
<1>5. CASE OriginVerdict(epoch) = "RELAYED"
  <2>1. /\ CloseOpenBlock(ms, held) /\ R!CloseOpenBlock(ms, held)
        /\ Relay("epoch", epoch, epoch.slots, Absent) /\ R!Relay("epoch", epoch, epoch.slots, Absent)
        /\ UNCHANGED <<nonceVars, voidVars, cursorVars>>
        /\ UNCHANGED <<R!nonceVars, R!voidVars, R!cursorVars>>
    BY <1>2, <1>3, <1>5 DEF OnOriginRecord, R!OnOriginRecord, Absent, R!Absent
  <2>2. rL1Origin' = l1Origin' /\ rRemoteOrigins' = remoteOrigins'
    BY <1>1, <1>2, <1>5 DEF OnOriginRecord, R!OnOriginRecord, SameState
  <2> HIDE DEF held
  <2> QED BY <1>1, <2>1, <2>2, CloseAndRelayAgree
<1> QED BY <1>4, <1>5

LEMMA RemoteOriginAgrees ==
    ASSUME TypeOK, Agreement, RecordLagBudget = 0, NEW batch \in Batches, NEW ms,
           OnRemoteOriginRecord(batch, ms), R!OnRemoteOriginRecord(batch, ms)
    PROVE  Agreement'
<1> DEFINE held == InsertFresh(batch.id, AssignedDeadline)
<1>1. SameState /\ batch.slots \in Nat
  BY InputAssumption DEF Agreement, BatchRecord
<1>2. R!RemoteOriginVerdict(batch) = RemoteOriginVerdict(batch)
  BY <1>1, SameVerdicts
<1>3. R!InsertFresh(batch.id, R!AssignedDeadline) = held
  BY <1>1, SameValues
<1>4. CASE RemoteOriginVerdict(batch) # "RELAYED"
  BY <1>2, <1>4, StillAgrees DEF OnRemoteOriginRecord, R!OnRemoteOriginRecord
<1>5. CASE RemoteOriginVerdict(batch) = "RELAYED"
  <2>1. /\ CloseOpenBlock(ms, held) /\ R!CloseOpenBlock(ms, held)
        /\ Relay("batch", batch, batch.slots, Absent) /\ R!Relay("batch", batch, batch.slots, Absent)
        /\ UNCHANGED <<nonceVars, voidVars, cursorVars>>
        /\ UNCHANGED <<R!nonceVars, R!voidVars, R!cursorVars>>
    BY <1>2, <1>3, <1>5 DEF OnRemoteOriginRecord, R!OnRemoteOriginRecord, Absent, R!Absent
  <2>2. rL1Origin' = l1Origin' /\ rRemoteOrigins' = remoteOrigins'
    BY <1>1, <1>2, <1>5 DEF OnRemoteOriginRecord, R!OnRemoteOriginRecord, SameState
  <2> HIDE DEF held
  <2> QED BY <1>1, <2>1, <2>2, CloseAndRelayAgree
<1> QED BY <1>4, <1>5

LEMMA CursorAgrees ==
    ASSUME TypeOK, Agreement,
           \/ \E head \in Posted : OnPostedCursor(head) /\ R!OnPostedCursor(head)
           \/ \E c \in Recorded : OnRecordedCursor(c[1], c[2]) /\ R!OnRecordedCursor(c[1], c[2])
    PROVE  Agreement'
<1> USE DEF clockVars, nonceVars, voidVars, originVars, orderVars, R!clockVars, R!nonceVars,
            R!voidVars, R!originVars, R!orderVars
<1>1. SameState /\ R!SealedHead = SealedHead
  BY SameValues DEF Agreement
<1>2. rPostedHead' = postedHead'
  BY <1>1 DEF OnPostedCursor, R!OnPostedCursor, OnRecordedCursor, R!OnRecordedCursor, SameState
<1>3. SameState'
  BY <1>1, <1>2 DEF SameState, OnPostedCursor, R!OnPostedCursor, OnRecordedCursor,
                    R!OnRecordedCursor
<1>4. canonicalCount' = canonicalCount /\ UNCHANGED <<window, votes, rWindow, rVotes>>
  BY DEF OnPostedCursor, R!OnPostedCursor, OnRecordedCursor, R!OnRecordedCursor
<1> QED BY <1>3, <1>4, LedgerAgrees DEF TypeOK

\* The verdict of a vote differs in one case only: the first member still holds
\* a reference that the snapshot left out, and counts a vote that is stale.
LEMMA VoteVerdictsAgree ==
    ASSUME TypeOK, Agreement, Settings, NEW v, NEW i \in Nat, NEW id
    PROVE  /\ \/ R!VoteVerdict(v, i, id) = VoteVerdict(v, i, id)
              \/ /\ VoteVerdict(v, i, id) = "COUNTED" /\ R!VoteVerdict(v, i, id) = "REFUSED"
                 /\ i < canonicalCount - VoidCapacity
           /\ VoteVerdict(v, i, id) = "DECIDED" => i >= canonicalCount - VoidCapacity
<1> DEFINE open == {p[1] : p \in KeptVotes}
           others == {p[2] : p \in {q \in KeptVotes : q[1] = i}}
           after == others \cup {v}
           full == i \notin open /\ Cardinality(open) >= MaxOpenVotes
           named == NamedBy(i, id) # {}
           rNamed == R!NamedBy(i, id) # {}
<1>1. R!KeptVotes = KeptVotes /\ canonicalCount \in Nat /\ VoidCapacity \in Nat
  BY CapacityTyped DEF Agreement, SameVotes, TypeOK
<1>2. VoteVerdict(v, i, id) = IF v \notin Voters \/ ~named \/ full THEN "REFUSED"
                              ELSE IF Voters \subseteq after THEN "DECIDED" ELSE "COUNTED"
  BY DEF VoteVerdict
<1>3. R!Cardinality(open) = Cardinality(open)
  BY DEF Cardinality, R!Cardinality
<1>4. R!VoteVerdict(v, i, id) = IF v \notin Voters \/ ~rNamed \/ full THEN "REFUSED"
                                ELSE IF Voters \subseteq after THEN "DECIDED" ELSE "COUNTED"
  <2>1. R!VoteVerdict(v, i, id) =
           IF v \notin Voters \/ R!NamedBy(i, id) = {}
                \/ (i \notin open /\ R!Cardinality(open) >= MaxOpenVotes)
           THEN "REFUSED" ELSE IF Voters \subseteq after THEN "DECIDED" ELSE "COUNTED"
    BY <1>1 DEF R!VoteVerdict
  <2> HIDE DEF open, after
  <2> QED BY <1>3, <2>1
<1>5. rNamed => named
  BY DEF Agreement, SameWindow, NamedBy, R!NamedBy
<1>6. named /\ ~rNamed => i < canonicalCount - VoidCapacity
  BY <1>1 DEF Agreement, SameWindow, NamedBy, R!NamedBy
<1>7. v \in Voters /\ Voters \subseteq after => i >= canonicalCount - VoidCapacity
  <2> SUFFICES ASSUME v \in Voters, Voters \subseteq after
               PROVE  i >= canonicalCount - VoidCapacity
    OBVIOUS
  <2>1. PICK w \in Voters : w # v
    BY DEF Settings
  <2>2. w \in others
    BY <2>1
  <2>3. PICK p \in KeptVotes : p[1] = i
    BY <2>2
  <2> QED BY <2>3 DEF KeptVotes
<1> HIDE DEF named, rNamed, full, after
<1> QED BY <1>1, <1>2, <1>4, <1>5, <1>6, <1>7

LEMMA KeptOnce ==
    ASSUME TypeOK, canonicalCount' = canonicalCount, NEW i \in Nat, NEW v
    PROVE  /\ votes' = KeptVotes => KeptVotes' = KeptVotes
           /\ votes' = KeptVotes \cup {<<i, v>>} =>
                 KeptVotes' = IF i >= canonicalCount - VoidCapacity
                              THEN KeptVotes \cup {<<i, v>>} ELSE KeptVotes
<1>1. KeptVotes' = {p \in votes' : p[1] >= canonicalCount - VoidCapacity}
  BY DEF KeptVotes, VoidCapacity
<1>2. \A p \in KeptVotes : p[1] >= canonicalCount - VoidCapacity
  BY DEF KeptVotes
<1> HIDE DEF KeptVotes
<1> QED BY <1>1, <1>2

LEMMA RKeptOnce ==
    ASSUME Agreement, rCanonicalCount' = rCanonicalCount, NEW i \in Nat, NEW v
    PROVE  /\ rVotes' = KeptVotes => R!KeptVotes' = KeptVotes
           /\ rVotes' = KeptVotes \cup {<<i, v>>} =>
                 R!KeptVotes' = IF i >= canonicalCount - VoidCapacity
                                THEN KeptVotes \cup {<<i, v>>} ELSE KeptVotes
<1>1. rCanonicalCount = canonicalCount /\ R!VoidCapacity = VoidCapacity
  BY SameValues DEF Agreement, SameState
<1>2. R!KeptVotes' = {p \in rVotes' : p[1] >= canonicalCount - VoidCapacity}
  BY <1>1 DEF R!KeptVotes, R!VoidCapacity
<1>3. \A p \in KeptVotes : p[1] >= canonicalCount - VoidCapacity
  BY DEF KeptVotes
<1> HIDE DEF KeptVotes, R!KeptVotes
<1> QED BY <1>2, <1>3

\* A vote that decides nothing.
LEMMA VoteAgrees ==
    ASSUME TypeOK, Agreement, Settings, NEW v, NEW i \in Nat, NEW id,
           OnVoidRequest(v, i, id), R!OnVoidRequest(v, i, id),
           VoteVerdict(v, i, id) # "DECIDED"
    PROVE  Agreement'
<1> DEFINE K == KeptVotes
<1>1. R!VoteVerdict(v, i, id) # "DECIDED"
  BY VoteVerdictsAgree
<1>2. /\ UNCHANGED <<window, dedup, nonceVars, clockVars, orderVars, originVars, cursorVars>>
      /\ UNCHANGED <<rWindow, rDedup, R!nonceVars, R!clockVars, R!orderVars, R!originVars,
                     R!cursorVars>>
  BY <1>1 DEF OnVoidRequest, R!OnVoidRequest
<1>3. SameState'
  BY <1>2 DEF Agreement, SameState, nonceVars, clockVars, orderVars, originVars, cursorVars,
              R!nonceVars, R!clockVars, R!orderVars, R!originVars, R!cursorVars
<1>4. canonicalCount' = canonicalCount /\ rCanonicalCount' = rCanonicalCount
  BY <1>2 DEF orderVars, R!orderVars
<1>5. SameWindow'
  BY <1>2, <1>4 DEF Agreement, SameWindow, VoidCapacity
<1>6. R!KeptVotes = K /\ K \subseteq Nat \X Voters
  BY DEF Agreement, SameVotes, KeptVotes, TypeOK
<1>7. /\ VoteVerdict(v, i, id) = "REFUSED" => votes' = K
      /\ VoteVerdict(v, i, id) = "COUNTED" => votes' = K \cup {<<i, v>>}
      /\ R!VoteVerdict(v, i, id) = "REFUSED" => rVotes' = K
      /\ R!VoteVerdict(v, i, id) = "COUNTED" => rVotes' = K \cup {<<i, v>>} /\ v \in Voters
      /\ VoteVerdict(v, i, id) \in {"REFUSED", "COUNTED"}
      /\ R!VoteVerdict(v, i, id) \in {"REFUSED", "COUNTED"}
  <2>1. R!VoteVerdict(v, i, id) = "COUNTED" => v \in Voters
    BY DEF R!VoteVerdict
  <2> QED BY <1>1, <1>6, <2>1 DEF OnVoidRequest, R!OnVoidRequest
<1> HIDE DEF K
<1>8. \/ votes' = K /\ rVotes' = K
      \/ votes' = K \cup {<<i, v>>} /\ rVotes' = K \cup {<<i, v>>} /\ v \in Voters
      \/ /\ votes' = K \cup {<<i, v>>} /\ rVotes' = K
         /\ ~(i >= canonicalCount - VoidCapacity)
  <2>1. canonicalCount \in Nat /\ VoidCapacity \in Nat
    BY CapacityTyped DEF TypeOK
  <2>2. i < canonicalCount - VoidCapacity => ~(i >= canonicalCount - VoidCapacity)
    BY <2>1
  <2> QED BY <1>7, <2>2, VoteVerdictsAgree
<1>9. R!KeptVotes' = KeptVotes' /\ rVotes' \subseteq Nat \X Voters
  <2> DEFINE fresh == i >= canonicalCount - VoidCapacity
  <2>1. /\ votes' = K => KeptVotes' = K
        /\ votes' = K \cup {<<i, v>>} => KeptVotes' = IF fresh THEN K \cup {<<i, v>>} ELSE K
    BY <1>4, KeptOnce DEF K
  <2>2. /\ rVotes' = K => R!KeptVotes' = K
        /\ rVotes' = K \cup {<<i, v>>} => R!KeptVotes' = IF fresh THEN K \cup {<<i, v>>} ELSE K
    BY <1>4, RKeptOnce DEF K
  <2>3. R!KeptVotes' = KeptVotes'
    BY <1>8, <2>1, <2>2
  <2>4. rVotes' \subseteq Nat \X Voters
    BY <1>6, <1>8
  <2> QED BY <2>3, <2>4
<1> QED BY <1>3, <1>5, <1>9 DEF Agreement, SameVotes

\* The vote that completes a void: the index is fresh, so both members hold the
\* same reference and take it.
LEMMA DecisionAgrees ==
    ASSUME TypeOK, LedgerInv, Agreement, Settings, NEW v, NEW i \in Nat, NEW id,
           OnVoidRequest(v, i, id), R!OnVoidRequest(v, i, id),
           VoteVerdict(v, i, id) = "DECIDED"
    PROVE  Agreement'
<1>1. /\ R!VoteVerdict(v, i, id) = "DECIDED"
      /\ i >= canonicalCount - VoidCapacity
  BY VoteVerdictsAgree
<1>2. SameState
  BY DEF Agreement
<1>3. R!NamedBy(i, id) = NamedBy(i, id)
  BY <1>1 DEF Agreement, SameWindow, NamedBy, R!NamedBy
<1>4. PICK e \in NamedBy(i, id) : AppendVoid(e)
  BY DEF OnVoidRequest
<1>5. R!AppendVoid(e)
  <2>1. PICK f \in R!NamedBy(i, id) : R!AppendVoid(f)
    BY <1>1 DEF R!OnVoidRequest
  <2>2. f = e
    BY <1>3, <1>4, <2>1 DEF NamedBy, LedgerInv
  <2> QED BY <2>1, <2>2
<1>6. rBlockNumber' = blockNumber' /\ rDedup' = dedup' /\ rSealed' = sealed'
      /\ rLastBoundaryCount' = lastBoundaryCount' /\ rLastL2Timestamp' = lastL2Timestamp'
  BY <1>2, <1>4, <1>5 DEF SameState, AppendVoid, R!AppendVoid, clockVars, R!clockVars, Absent,
                          R!Absent
<1>7. rCanonicalCount' = canonicalCount' /\ rCanonical' = canonical'
  BY <1>2, <1>4, <1>5, <1>6, SameRelay DEF AppendVoid, R!AppendVoid, Absent, R!Absent
<1>8. rExpectedNonce' = expectedNonce' /\ rRecency' = recency' /\ rEvicted' = evicted'
  <2>1. R!Touched(e.tx.sender) = Touched(e.tx.sender)
    BY <1>2, SameValues
  <2>2. R!ReopenedNonce(e.tx.sender, e.tx.nonce) = ReopenedNonce(e.tx.sender, e.tx.nonce)
    BY <1>2 DEF SameState, ReopenedNonce, R!ReopenedNonce, Lesser, R!Lesser
  <2> QED BY <1>2, <1>4, <1>5, <2>1, <2>2
          DEF SameState, AppendVoid, R!AppendVoid, nonceVars, R!nonceVars, Absent, R!Absent
<1>9. SameState'
  BY <1>2, <1>6, <1>7, <1>8 DEF SameState, OnVoidRequest, R!OnVoidRequest, originVars, cursorVars,
                                R!originVars, R!cursorVars
<1>10. /\ canonicalCount' = canonicalCount + 1 /\ canonicalCount \in Nat /\ VoidCapacity \in Nat
       /\ \A f \in window : f.index \in Nat
  BY <1>4, CapacityTyped, VoidNumbers DEF AppendVoid, Relay
<1>11. window' = window \ NamedBy(i, id) /\ rWindow' = rWindow \ NamedBy(i, id)
  BY <1>1, <1>3 DEF OnVoidRequest, R!OnVoidRequest, Taken, R!Taken
<1>12. SameWindow'
  <2>1. \A f \in window : f.index >= canonicalCount' - VoidCapacity => f \in rWindow
    BY <1>10 DEF Agreement, SameWindow
  <2>2. rWindow \subseteq window
    BY DEF Agreement, SameWindow
  <2> QED BY <1>11, <2>1, <2>2 DEF SameWindow, VoidCapacity
<1>13. SameVotes'
  <2> DEFINE left == {p \in KeptVotes : p[1] # i}
  <2>1. votes' = left /\ rVotes' = left
    BY <1>1 DEF OnVoidRequest, R!OnVoidRequest, Agreement, SameVotes
  <2>2. left \subseteq Nat \X Voters
    BY DEF KeptVotes, TypeOK
  <2> HIDE DEF left
  <2>3. KeptVotes' = {p \in left : p[1] >= canonicalCount' - VoidCapacity}
    BY <2>1 DEF KeptVotes, VoidCapacity
  <2>4. R!KeptVotes' = {p \in left : p[1] >= canonicalCount' - VoidCapacity}
    BY <1>7, <2>1 DEF R!KeptVotes, R!VoidCapacity, VoidCapacity
  <2> QED BY <2>1, <2>2, <2>3, <2>4 DEF SameVotes
<1> QED BY <1>9, <1>12, <1>13 DEF Agreement

-----------------------------------------------------------------------------
(* The restart *)

\* The restored state differs from the one before it only where it may.
LEMMA RestartAgrees ==
    ASSUME TypeOK, DedupBound, LedgerInv, Agreement, Restart
    PROVE  Agreement'
<1>1. SameState /\ R!AssignedDeadline = AssignedDeadline
  BY SameValues DEF Agreement
<1>2. RestoredDedup = dedup
  <2>1. /\ dedup \in [Ids -> Nat \cup {Absent}] /\ AssignedDeadline \in Nat
        /\ \A i \in Ids : dedup[i] <= AssignedDeadline
    BY Arithmetic DEF TypeOK, DedupBound
  <2>2. \A i \in Ids : R!Held(i) <=> dedup[i] # Absent
    BY <1>1 DEF R!Held, R!Absent, Absent, SameState
  <2>3. ASSUME NEW i \in Ids
        PROVE  (IF R!Held(i) THEN Lesser(rDedup[i], R!AssignedDeadline) ELSE Absent) = dedup[i]
    <3>1. CASE dedup[i] = Absent
      BY <2>2, <3>1
    <3>2. CASE dedup[i] # Absent
      <4>1. dedup[i] \in Nat /\ dedup[i] <= AssignedDeadline
        BY <2>1, <3>2
      <4>2. Lesser(dedup[i], AssignedDeadline) = dedup[i]
        BY <2>1, <4>1 DEF Lesser
      <4> QED BY <1>1, <2>2, <3>2, <4>2 DEF SameState
    <3> QED BY <3>1, <3>2
  <2>4. RestoredDedup = [i \in Ids |-> dedup[i]]
    BY <2>3 DEF RestoredDedup
  <2> QED BY <2>1, <2>4
<1>3. SameState'
  BY <1>1, <1>2 DEF Restart, SameState, RestoredRecency, vars, clockVars, nonceVars, originVars,
                    cursorVars, orderVars
<1>4. canonicalCount' = canonicalCount /\ window' = window /\ votes' = votes
  BY DEF Restart, vars, orderVars, voidVars
<1>5. SameWindow'
  <2>1. rWindow' = {e \in rWindow : e.index >= canonicalCount - VoidCapacity
                                     /\ e.index < canonicalCount}
    BY <1>1 DEF Restart, RestoredWindow, SameState
  <2>2. \A e \in window : e.index < canonicalCount
    BY DEF LedgerInv
  <2>3. /\ rWindow' \subseteq window'
        /\ \A e \in window' : e.index >= canonicalCount' - VoidCapacity => e \in rWindow'
    BY <1>4, <2>1, <2>2 DEF Agreement, SameWindow
  <2> QED BY <2>3 DEF SameWindow, VoidCapacity
<1>6. SameVotes'
  <2>1. rVotes' = rVotes /\ rVotes \subseteq Nat \X Voters
    BY DEF Restart, RestoredVotes, Agreement, SameVotes
  <2> QED BY <1>3, <1>4, <2>1, VotesAgree DEF TypeOK
<1> QED BY <1>3, <1>5, <1>6 DEF Agreement

-----------------------------------------------------------------------------
(* The theorems *)

LEMMA AgreementStep ==
    ASSUME TypeOK, LedgerInv, DedupBound, Agreement, Settings, [MNext]_memberVars
    PROVE  Agreement'
<1>1. RecordLagBudget = 0
  BY DEF Settings
<1>2. CASE Apply
  <2>1. ASSUME NEW v, NEW i \in 0..canonicalCount, NEW id,
               OnVoidRequest(v, i, id), R!OnVoidRequest(v, i, id)
        PROVE  Agreement'
    <3>1. i \in Nat
      BY DEF TypeOK
    <3> QED BY <2>1, <3>1, VoteAgrees, DecisionAgrees
  <2> QED BY <1>1, <1>2, <2>1, OfferAgrees, TickAgrees, OriginAgrees, RemoteOriginAgrees,
             CursorAgrees DEF Apply
<1>3. CASE Restart
  BY <1>3, RestartAgrees
<1>4. CASE UNCHANGED memberVars
  BY <1>4, StillAgrees DEF memberVars
<1> QED BY <1>2, <1>3, <1>4 DEF MNext

LEMMA AgreementInvariant == ASSUME Settings PROVE MSpec => []Agreement
<1>1. MInit => TypeOK /\ LedgerInv /\ DedupBound /\ Agreement
  <2> SUFFICES ASSUME MInit PROVE TypeOK /\ LedgerInv /\ DedupBound /\ Agreement
    OBVIOUS
  <2>1. Init /\ R!Init
    BY DEF MInit
  <2>2. TypeOK
    BY <2>1, SettingsAssumption DEF Init, TypeOK, MapOK, Unseeded, Absent
  <2>3. LedgerInv
    BY <2>1 DEF Init, LedgerInv, VoidedOnce
  <2>4. DedupBound
    <3>1. AssignedDeadline \in Nat
      BY <2>2, Arithmetic
    <3> QED BY <2>1, <3>1 DEF Init, DedupBound, Absent
  <2>5. Agreement
    BY <2>1 DEF Init, R!Init, Agreement, SameState, SameWindow, SameVotes, KeptVotes, R!KeptVotes,
                Absent, R!Absent, Unseeded, R!Unseeded
  <2> QED BY <2>2, <2>3, <2>4, <2>5
<1>2. [MNext]_memberVars => [Next]_vars
  BY FirstMember
<1>3. TypeOK /\ [Next]_vars => TypeOK'
  BY TypeStep
<1>4. TypeOK /\ LedgerInv /\ [Next]_vars => LedgerInv'
  BY LedgerInvStep
<1>5. TypeOK /\ DedupBound /\ [Next]_vars => DedupBound'
  BY DedupBoundStep
<1>6. TypeOK /\ LedgerInv /\ DedupBound /\ Agreement /\ [MNext]_memberVars => Agreement'
  BY AgreementStep
<1> QED BY <1>1, <1>2, <1>3, <1>4, <1>5, <1>6, PTL DEF MSpec

\* load: a member that restarts from its snapshot, with votes, voids and
\* expiring ids in flight, relays the records and stamps the boundaries of a
\* member that never stopped.  It needs the record-lag guard off, which the
\* node enforces while snapshots hold no recorded cursor, and a void that takes
\* more than one vote: MCMembersSingleVoter shows the members part with one.
THEOREM MembersStayInStep == ASSUME Settings PROVE MSpec => []MembersAgree
<1>1. Agreement => MembersAgree
  BY DEF Agreement, SameState, MembersAgree
<1> QED BY <1>1, AgreementInvariant, PTL

\* Under the same settings both members hold the same ids up to the same
\* blocks, expect the same nonces and evict the same sender next.
THEOREM MembersAdmitAlike == ASSUME Settings PROVE MSpec => []AdmissionAgrees
<1>1. Agreement => AdmissionAgrees
  BY DEF Agreement, SameState, AdmissionAgrees
<1> QED BY <1>1, AgreementInvariant, PTL

================================================================================
