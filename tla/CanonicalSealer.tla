--------------------------- MODULE CanonicalSealer ---------------------------
(***************************************************************************)
(* The replicated state machine of the sealer cluster at decision version  *)
(* 3 (CanonicalSealerState with VoidLedger and RecordedCursors): which     *)
(* offered records enter the canonical order, at which index, and where    *)
(* the block boundaries fall.                                              *)
(*                                                                         *)
(* One variable per field of CanonicalSealerState.  Every operation is a   *)
(* total handler: it applies one committed log message, and a refused      *)
(* message changes no more than the code changes for it.  A verdict        *)
(* operator gives the answer of the handler, in the code's check order.    *)
(*                                                                         *)
(* Data abstraction.  A canonical id is a model value.  A transaction, an  *)
(* epoch and a cross-chain batch are records of the fields the sealer      *)
(* reads.  Payload bytes and log lines are left out.                       *)
(*                                                                         *)
(* History variables, which no handler reads: canonical (every record      *)
(* relayed), sealed (every boundary stamped), evicted (the senders that    *)
(* the nonce map has dropped) and asked (every vote that counted).         *)
(***************************************************************************)
EXTENDS Integers, Sequences, FiniteSets

CONSTANTS
    Ids,              \* canonical ids
    Senders,          \* the senders that the contiguity guard tracks
    ZeroSender,       \* the all-zero sender, which every guard exempts
    Chains,           \* the chains that cross-chain batches name
    Peers,            \* the remote-origin allowlist
    Txs,              \* transactions [id, sender, nonce]
    Epochs,           \* L1 epochs [id, origin, slots]
    Batches,          \* cross-chain batches [id, peer, anchor, first, last, slots]
    DedupCapacity,    \* hard cap of the dedup window, and of the nonce map
    Horizon,          \* inclusionHorizonBlocks
    NoDeadline,       \* the largest signed 64-bit value
    DaLagBudget,      \* daLagBudgetBlocks, 0 for off
    RecordLagBudget,  \* recordLagRecords, 0 for off
    Voters,           \* the configured void voters
    Strangers,        \* voter ids that are not configured
    Recorded,         \* the recorded cursors that executors send, <<id, index>>
    Posted,           \* the heads that the batcher may confirm
    VoidWindow,       \* how many of the newest indices a void can name
    MaxOpenVotes,     \* the most indices with an open vote
    TickMs,           \* TICK_INTERVAL_MS
    Clocks,           \* the readings the leader's clock may give
    FreshProxies,     \* whether a proxy may stamp before it saw a boundary
    MaxCount,         \* bound: canonical indices below it
    MaxBlock          \* bound: block numbers up to it

Absent == -1

TxRecord == [id : Ids, sender : Senders \cup {ZeroSender}, nonce : Nat]
EpochRecord == [id : Ids, origin : Nat \ {0}, slots : Nat \ {0}]
BatchRecord == [id : Ids, peer : Chains, anchor : Nat, first : Nat, last : Nat, slots : Nat]

ASSUME SettingsAssumption ==
    /\ DedupCapacity \in Nat \ {0}
    /\ Horizon \in Nat \ {0}
    /\ NoDeadline \in Nat
    /\ DaLagBudget \in Nat
    /\ RecordLagBudget \in Nat
    /\ VoidWindow \in Nat \ {0}
    /\ MaxOpenVotes \in Nat
    /\ TickMs \in Nat \ {0}
    /\ Clocks \subseteq Nat
    /\ Posted \subseteq Nat
    /\ Recorded \subseteq (Voters \cup Strangers) \X Nat
    /\ FreshProxies \in BOOLEAN
    /\ MaxCount \in Nat
    /\ MaxBlock \in Nat

ASSUME InputAssumption ==
    /\ Txs \subseteq TxRecord
    /\ Epochs \subseteq EpochRecord
    /\ Batches \subseteq BatchRecord
    /\ ZeroSender \notin Senders
    /\ Peers \subseteq Chains

\* A canonical id is a hash of the record, so two records never share one.
ASSUME HashAssumption ==
    \A r, s \in Txs \cup Epochs \cup Batches : r.id = s.id => r = s

VARIABLES
    canonicalCount,    \* the next canonical index
    blockNumber,       \* the open block
    lastBoundaryCount, \* canonicalCount at the last boundary
    lastL2Timestamp,   \* time of the last boundary
    l1Origin,          \* L1 block of the last adopted epoch
    remoteOrigins,     \* per peer: adopted anchor and next lane seq
    dedup,             \* per id: the block up to which it is held, or Absent
    expectedNonce,     \* per sender: the nonce it must offer next, or Absent
    recency,           \* the senders of expectedNonce, eldest access first
    postedHead,        \* the last block the batcher confirmed on L1
    bestRecorded,      \* the best recorded cursor of the executors
    window,            \* VoidLedger: the references a void can still name
    votes,             \* VoidLedger: open votes as <<index, voter>> pairs
    canonical,         \* history: the relayed records
    sealed,            \* history: the boundaries
    evicted,           \* history: senders that left the nonce map
    asked              \* history: the votes that counted, as <<index, voter>> pairs

clockVars == <<blockNumber, lastBoundaryCount, lastL2Timestamp, sealed>>
nonceVars == <<expectedNonce, recency, evicted>>
voidVars == <<window, votes, asked>>
originVars == <<l1Origin, remoteOrigins>>
cursorVars == <<postedHead, bestRecorded>>
orderVars == <<canonicalCount, canonical>>
vars == <<clockVars, nonceVars, voidVars, originVars, cursorVars, orderVars,
          dedup>>

Unseeded == [anchor |-> Absent, next |-> Absent]

Init ==
    /\ canonicalCount = 0
    /\ blockNumber = 1
    /\ lastBoundaryCount = 0
    /\ lastL2Timestamp = 0
    /\ l1Origin = 0
    /\ remoteOrigins = [p \in Peers |-> Unseeded]
    /\ dedup = [i \in Ids |-> Absent]
    /\ expectedNonce = [s \in Senders |-> Absent]
    /\ recency = <<>>
    /\ postedHead = 0
    /\ bestRecorded = Absent
    /\ window = {}
    /\ votes = {}
    /\ canonical = {}
    /\ sealed = {}
    /\ evicted = {}
    /\ asked = {}

-----------------------------------------------------------------------------
(* The dedup window *)

Lesser(a, b) == IF a < b THEN a ELSE b
Greater(a, b) == IF a < b THEN b ELSE a

Held(id) == dedup[id] # Absent

WindowSize == Cardinality({i \in Ids : Held(i)})

\* assignedDeadline: saturatingAdd(blockNumber, inclusionHorizonBlocks).
AssignedDeadline == Lesser(blockNumber + Horizon, NoDeadline)

\* insertFresh: hold the id until its deadline, clamped to the horizon.
InsertFresh(id, deadline) ==
    [dedup EXCEPT ![id] = Lesser(deadline, AssignedDeadline)]

\* Mutants: the prune takes the ids of the open block too, or is a block late.
PruneExpiredEarly(held, open) ==
    [i \in Ids |-> IF held[i] <= open THEN Absent ELSE held[i]]

PruneExpiredLate(held, open) ==
    [i \in Ids |-> IF held[i] < open - 1 THEN Absent ELSE held[i]]

\* pruneExpired: drop every id whose deadline is below the open block.
PruneExpired(held, open) ==
    [i \in Ids |-> IF held[i] < open THEN Absent ELSE held[i]]

-----------------------------------------------------------------------------
(* The lag guards *)

SealedHead == blockNumber - 1

DaLagHalted == DaLagBudget > 0 /\ SealedHead - postedHead > DaLagBudget

RecordLagHalted ==
    /\ RecordLagBudget > 0
    /\ bestRecorded # Absent
    /\ canonicalCount - 1 - bestRecorded > RecordLagBudget

-----------------------------------------------------------------------------
(* The per-sender nonce map: an access-ordered LRU map of DedupCapacity     *)
(* senders.  Any read or write of a sender makes it the youngest.           *)

\* The entry at position i leaves, the younger ones close up, and s is youngest.
Replaced(i, s) ==
    [j \in 1..Len(recency) |-> IF j < i THEN recency[j]
                               ELSE IF j < Len(recency) THEN recency[j + 1] ELSE s]

\* Mutant: an access adds the sender again.
TouchedTwice(s) == Append(recency, s)

Touched(s) == Replaced(CHOOSE i \in 1..Len(recency) : recency[i] = s, s)

\* put: a new sender may push the eldest one out.
PutNonce(s, n) ==
    LET full == Len(recency) >= DedupCapacity
        eldest == recency[1]
    IN  IF expectedNonce[s] # Absent
        THEN /\ expectedNonce' = [expectedNonce EXCEPT ![s] = n]
             /\ recency' = Touched(s)
             /\ UNCHANGED evicted
        ELSE /\ expectedNonce' =
                   [r \in Senders |-> IF r = s THEN n
                                      ELSE IF full /\ r = eldest THEN Absent
                                      ELSE expectedNonce[r]]
             /\ recency' = IF full THEN Replaced(1, s) ELSE Append(recency, s)
             /\ evicted' = IF full THEN evicted \cup {eldest} ELSE evicted

\* Mutants: the guard stops only the nonces behind, or only those ahead.
NonceBehind(tx) == expectedNonce[tx.sender] > tx.nonce
NonceAhead(tx) == expectedNonce[tx.sender] # Absent /\ expectedNonce[tx.sender] < tx.nonce

\* The contiguity guard: a known sender must offer its expected nonce.
NotNextNonce(tx) == expectedNonce[tx.sender] \notin {Absent, tx.nonce}

-----------------------------------------------------------------------------
(* Ordering and sealing *)

\* Mutant: a record of several slots moves the count by one.
RelayOneSlot(kind, item, n, deadline) ==
    /\ canonicalCount' = canonicalCount + 1
    /\ canonical' = canonical \cup
          {[kind |-> kind, index |-> canonicalCount, slots |-> n,
            block |-> blockNumber', item |-> item, deadline |-> deadline]}

\* The record takes the next index and n slots in the block open after it.
Relay(kind, item, n, deadline) ==
    /\ canonicalCount' = canonicalCount + n
    /\ canonical' = canonical \cup
          {[kind |-> kind, index |-> canonicalCount, slots |-> n,
            block |-> blockNumber', item |-> item, deadline |-> deadline]}

\* Mutant: the time is the window of the leader's clock.
NextL2TimestampAligned(ms) == (ms \div TickMs) * TickMs

NextL2Timestamp(ms) == Greater((ms \div TickMs) * TickMs, lastL2Timestamp + 1)

\* onTick, over a window that may hold one id more than dedup.
Seal(ms, held) ==
    /\ sealed' = sealed \cup
          {[block |-> blockNumber, end |-> canonicalCount,
            ts |-> NextL2Timestamp(ms), origin |-> l1Origin]}
    /\ blockNumber' = blockNumber + 1
    /\ dedup' = PruneExpired(held, blockNumber + 1)
    /\ lastL2Timestamp' = NextL2Timestamp(ms)
    /\ lastBoundaryCount' = canonicalCount

\* Mutant: an origin record joins the open block.
CloseOpenBlockNever(ms, held) == dedup' = held /\ UNCHANGED clockVars

\* The forced boundary of an origin record: only a block with records closes.
CloseOpenBlock(ms, held) ==
    IF canonicalCount > lastBoundaryCount
    THEN Seal(ms, held)
    ELSE dedup' = held /\ UNCHANGED clockVars

-----------------------------------------------------------------------------
(* The void ledger *)

\* Config: no voters means no window.
VoidCapacity == IF Voters = {} THEN 0 ELSE VoidWindow

\* onReference: the newest reference of a slot replaces the one it held.
WithReference(index, tx) ==
    IF VoidCapacity = 0 THEN window
    ELSE {e \in window : e.index % VoidCapacity # index % VoidCapacity}
            \cup {[index |-> index, tx |-> tx]}

\* Mutant: votes never age out.
KeptVotesAll == votes

\* dropVotesBelow(canonicalCount - capacity), the first step of every vote.
KeptVotes == {p \in votes : p[1] >= canonicalCount - VoidCapacity}

\* holds: the slot of the index holds that index, with that hash.
NamedBy(index, id) == {e \in window : e.index = index /\ e.tx.id = id}

\* Mutant: a decided entry stays in the window.
TakenNothing(index, id) == window

\* take: the entry leaves the window with the decision.
Taken(index, id) == window \ NamedBy(index, id)

\* Mutant: the votes are counted, whoever cast them.
VoteVerdictCounting(voter, index, id) ==
    LET open == {p[1] : p \in KeptVotes}
        after == {p[2] : p \in {q \in KeptVotes : q[1] = index}} \cup {voter}
    IN  IF \/ NamedBy(index, id) = {}
           \/ index \notin open /\ Cardinality(open) >= MaxOpenVotes
        THEN "REFUSED"
        ELSE IF Cardinality(after) >= Cardinality(Voters) THEN "DECIDED" ELSE "COUNTED"

VoteVerdict(voter, index, id) ==
    LET open == {p[1] : p \in KeptVotes}
        after == {p[2] : p \in {q \in KeptVotes : q[1] = index}} \cup {voter}
    IN  IF \/ voter \notin Voters
           \/ NamedBy(index, id) = {}
           \/ index \notin open /\ Cardinality(open) >= MaxOpenVotes
        THEN "REFUSED"
        ELSE IF Voters \subseteq after THEN "DECIDED" ELSE "COUNTED"

\* Mutant: the last voided nonce wins over a lower one.
ReopenedNonceLast(s, n) == n

\* expectedNonce.computeIfPresent(sender, min): the lowest voided nonce stays open.
ReopenedNonce(s, n) == Lesser(expectedNonce[s], n)

\* appendVoid: forget the id, open the nonce again, relay a void record.
AppendVoid(e) ==
    /\ dedup' = [dedup EXCEPT ![e.tx.id] = Absent]
    /\ IF e.tx.sender \in Senders /\ expectedNonce[e.tx.sender] # Absent
       THEN /\ expectedNonce' =
                   [expectedNonce EXCEPT ![e.tx.sender] =
                                             ReopenedNonce(e.tx.sender, e.tx.nonce)]
            /\ recency' = Touched(e.tx.sender)
            /\ UNCHANGED evicted
       ELSE UNCHANGED nonceVars
    /\ UNCHANGED clockVars
    /\ Relay("void", e, 1, Absent)

OnVoidRequest(voter, index, id) ==
    /\ \/ /\ VoteVerdict(voter, index, id) = "REFUSED"
          /\ votes' = KeptVotes
          /\ UNCHANGED <<asked, window, dedup, nonceVars, clockVars, orderVars>>
       \/ /\ VoteVerdict(voter, index, id) = "COUNTED"
          /\ votes' = KeptVotes \cup {<<index, voter>>}
          /\ asked' = asked \cup {<<index, voter>>}
          /\ UNCHANGED <<window, dedup, nonceVars, clockVars, orderVars>>
       \/ /\ VoteVerdict(voter, index, id) = "DECIDED"
          /\ votes' = {p \in KeptVotes : p[1] # index}
          /\ asked' = asked \cup {<<index, voter>>}
          /\ window' = Taken(index, id)
          /\ \E e \in NamedBy(index, id) : AppendVoid(e)
    /\ UNCHANGED <<originVars, cursorVars>>

-----------------------------------------------------------------------------
(* Operations *)

\* A proxy that has seen the boundaries up to block `seen` stamps a deadline.
\* Block 0 means it has seen none, and its envelope never expires.
InclusionDeadline(seen) ==
    IF seen = 0 THEN NoDeadline ELSE Lesser(seen + Horizon, NoDeadline)

\* The answer of onRecord, in the order of its checks.
RecordVerdict(tx, deadline) ==
    LET user == tx.sender # ZeroSender
    IN  IF Held(tx.id) THEN "DUPLICATE"
        ELSE IF blockNumber > deadline THEN "PAST_DEADLINE"
        ELSE IF user /\ RecordLagHalted THEN "RECORD_LAG_REJECT"
        ELSE IF user /\ DaLagHalted THEN "DA_LAG_REJECT"
        ELSE IF WindowSize >= DedupCapacity THEN "WINDOW_FULL"
        ELSE IF user /\ NotNextNonce(tx) THEN "CONTIGUITY_REJECT"
        ELSE "RELAYED"

\* A refused record moves nothing, but the contiguity check reads the map.
RefuseRecord(tx, deadline) ==
    /\ RecordVerdict(tx, deadline) # "RELAYED"
    /\ IF RecordVerdict(tx, deadline) = "CONTIGUITY_REJECT"
       THEN recency' = Touched(tx.sender)
       ELSE UNCHANGED recency
    /\ UNCHANGED <<expectedNonce, evicted, voidVars, dedup, clockVars, orderVars>>

RelayRecord(tx, deadline) ==
    /\ RecordVerdict(tx, deadline) = "RELAYED"
    /\ IF tx.sender # ZeroSender
       THEN /\ PutNonce(tx.sender, tx.nonce + 1)
            /\ window' = WithReference(canonicalCount, tx)
            /\ UNCHANGED <<votes, asked>>
       ELSE UNCHANGED <<nonceVars, voidVars>>
    /\ dedup' = InsertFresh(tx.id, deadline)
    /\ UNCHANGED clockVars
    /\ Relay("tx", tx, 1, deadline)

OnRecord(tx, deadline) ==
    /\ RefuseRecord(tx, deadline) \/ RelayRecord(tx, deadline)
    /\ UNCHANGED <<originVars, cursorVars>>

\* An offer of an envelope that some proxy stamped when it had seen the block
\* `seen`.  Racing and retrying sequencers offer it at any time, in any order
\* and any number of times, and a client may submit one transaction through
\* several proxies, so every past stamp stays on offer.
Offer(tx, seen) ==
    /\ seen = 0 => FreshProxies
    /\ OnRecord(tx, InclusionDeadline(seen))

OnTick(ms) ==
    /\ Seal(ms, dedup)
    /\ UNCHANGED <<nonceVars, voidVars, originVars, cursorVars, orderVars>>

\* Mutant: an epoch may skip L1 blocks.
OriginVerdictNoGap(epoch) ==
    IF Held(epoch.id) THEN "DUPLICATE"
    ELSE IF epoch.origin <= l1Origin THEN "MALFORMED"
    ELSE "RELAYED"

\* A regressed origin throws in the state, and the service drops the frame.
OriginVerdict(epoch) ==
    IF Held(epoch.id) THEN "DUPLICATE"
    ELSE IF epoch.origin <= l1Origin THEN "MALFORMED"
    ELSE IF l1Origin > 0 /\ epoch.origin # l1Origin + 1 THEN "GAP"
    ELSE "RELAYED"

OnOriginRecord(epoch, ms) ==
    \/ /\ OriginVerdict(epoch) # "RELAYED"
       /\ UNCHANGED vars
    \/ /\ OriginVerdict(epoch) = "RELAYED"
       /\ CloseOpenBlock(ms, InsertFresh(epoch.id, AssignedDeadline))
       /\ l1Origin' = epoch.origin
       /\ Relay("epoch", epoch, epoch.slots, Absent)
       /\ UNCHANGED <<nonceVars, voidVars, remoteOrigins, cursorVars>>

RemoteOriginVerdict(batch) ==
    IF Held(batch.id) THEN "DUPLICATE"
    ELSE IF batch.peer \notin Peers THEN "UNKNOWN_ORIGIN"
    ELSE IF batch.last < batch.first THEN "BAD_RANGE"
    ELSE IF batch.slots # batch.last - batch.first + 2 THEN "SLOT_COUNT_MISMATCH"
    ELSE IF remoteOrigins[batch.peer].next \notin {Absent, batch.first} THEN "SEQ_MISMATCH"
    ELSE IF batch.anchor <= remoteOrigins[batch.peer].anchor THEN "ANCHOR_REGRESSED"
    ELSE "RELAYED"

OnRemoteOriginRecord(batch, ms) ==
    \/ /\ RemoteOriginVerdict(batch) # "RELAYED"
       /\ UNCHANGED vars
    \/ /\ RemoteOriginVerdict(batch) = "RELAYED"
       /\ CloseOpenBlock(ms, InsertFresh(batch.id, AssignedDeadline))
       /\ remoteOrigins' = [remoteOrigins EXCEPT ![batch.peer] =
                               [anchor |-> batch.anchor, next |-> batch.last + 1]]
       /\ Relay("batch", batch, batch.slots, Absent)
       /\ UNCHANGED <<nonceVars, voidVars, l1Origin, cursorVars>>

\* Mutant: the last cursor wins, also an older one.
OnPostedCursorLast(head) ==
    /\ postedHead' = IF head <= SealedHead THEN head ELSE postedHead
    /\ UNCHANGED <<clockVars, nonceVars, voidVars, originVars, bestRecorded,
                   orderVars, dedup>>

\* The head moves up only, and never past the sealed head.
OnPostedCursor(head) ==
    /\ postedHead' = IF head \in postedHead..SealedHead THEN head ELSE postedHead
    /\ UNCHANGED <<clockVars, nonceVars, voidVars, originVars, bestRecorded,
                   orderVars, dedup>>

OnRecordedCursor(executor, through) ==
    /\ bestRecorded' = IF executor \in Voters /\ through < canonicalCount
                       THEN Greater(bestRecorded, through) ELSE bestRecorded
    /\ UNCHANGED <<clockVars, nonceVars, voidVars, originVars, postedHead,
                   orderVars, dedup>>

WithinBounds == canonicalCount <= MaxCount /\ blockNumber <= MaxBlock

Next ==
    /\ \/ \E tx \in Txs, seen \in 0..SealedHead : Offer(tx, seen)
       \/ \E ms \in Clocks : OnTick(ms)
       \/ \E epoch \in Epochs, ms \in Clocks : OnOriginRecord(epoch, ms)
       \/ \E batch \in Batches, ms \in Clocks : OnRemoteOriginRecord(batch, ms)
       \/ \E head \in Posted : OnPostedCursor(head)
       \/ \E c \in Recorded : OnRecordedCursor(c[1], c[2])
       \/ \E v \in Voters \cup Strangers, i \in 0..canonicalCount, t \in Txs :
             OnVoidRequest(v, i, t.id)
    /\ WithinBounds'

Spec == Init /\ [][Next]_vars

-----------------------------------------------------------------------------
(* Type invariant *)

WindowEntry == [index : Nat, tx : Txs]
Boundary == [block : Nat, end : Nat, ts : Nat, origin : Nat]
Relayed ==
    [kind : {"tx"}, index : Nat, slots : {1}, block : Nat, item : Txs, deadline : Nat]
    \cup [kind : {"epoch"}, index : Nat, slots : Nat \ {0}, block : Nat,
          item : Epochs, deadline : {Absent}]
    \cup [kind : {"batch"}, index : Nat, slots : Nat \ {0}, block : Nat,
          item : Batches, deadline : {Absent}]
    \cup [kind : {"void"}, index : Nat, slots : {1}, block : Nat,
          item : WindowEntry, deadline : {Absent}]

\* The access order holds each sender of the nonce map, once.
MapOK(map, order) ==
    /\ map \in [Senders -> Nat \cup {Absent}]
    /\ order \in Seq(Senders)
    /\ \A i, j \in 1..Len(order) : order[i] = order[j] => i = j
    /\ \A s \in Senders : map[s] # Absent <=> \E i \in 1..Len(order) : order[i] = s

\* Every field of the sealer state has its type, and the nonce map and its
\* access order agree.
TypeOK ==
    /\ canonicalCount \in Nat
    /\ blockNumber \in Nat \ {0}
    /\ lastBoundaryCount \in 0..canonicalCount
    /\ lastL2Timestamp \in Nat
    /\ l1Origin \in Nat
    /\ remoteOrigins \in [Peers -> [anchor : Nat \cup {Absent}, next : Nat \cup {Absent}]]
    /\ dedup \in [Ids -> Nat \cup {Absent}]
    /\ MapOK(expectedNonce, recency)
    /\ postedHead \in Nat
    /\ bestRecorded \in Nat \cup {Absent}
    /\ window \subseteq WindowEntry
    /\ votes \subseteq Nat \X Voters
    /\ canonical \subseteq Relayed
    /\ sealed \subseteq Boundary
    /\ evicted \subseteq Senders
    /\ asked \subseteq Nat \X Voters

-----------------------------------------------------------------------------
(* Safety *)

\* A transaction in the order that no void record removed.
Live(r) ==
    /\ r.kind = "tx"
    /\ \A v \in canonical : v.kind = "void" => v.item.index # r.index

\* No void took the id of this record out of the window after the record: a
\* void of any copy of a transaction forgets its id, also for a newer copy.
Standing(r) ==
    /\ r.kind = "tx"
    /\ \A v \in canonical : v.kind = "void" /\ v.index > r.index => v.item.tx # r.item

\* firstSeen/pruneExpired: "a stalled replica's re-offer can never be read as
\* fresh".  While an ordered record stands, another offer of its envelope is
\* absorbed as a duplicate or expires, through every prune and eviction.
ReofferAbsorbed ==
    \A r \in canonical :
        Standing(r) =>
            RecordVerdict(r.item, r.deadline) \in {"DUPLICATE", "PAST_DEADLINE"}

\* The same claim in its literal form, which an envelope without a deadline
\* breaks: the window holds its id for the horizon only (insertFresh), while
\* admission reads the raw deadline.
ReofferNeverFresh ==
    \A r \in canonical :
        Standing(r) => RecordVerdict(r.item, r.deadline) # "RELAYED"

\* The contiguity guard never lets a canonical nonce gap in: a record of a
\* sender that was never evicted is its first, or at most one nonce past an
\* earlier one.  A gap would stop every executor with NonceTooHigh.
NoNonceGap ==
    \A r \in canonical :
        r.kind = "tx" /\ r.item.sender \in Senders \ evicted =>
            LET earlier == {q \in canonical : /\ q.kind = "tx" /\ q.index < r.index
                                              /\ q.item.sender = r.item.sender}
            IN  earlier = {} \/ \E q \in earlier : r.item.nonce <= q.item.nonce + 1

\* appendVoid keeps the lowest voided nonce open: below the expected nonce of
\* a sender that was never evicted every nonce, from its first on, has a live
\* record.  Otherwise that nonce is never filled and the sender is stuck.
NonceFillable ==
    \A s \in Senders \ evicted :
        \A r \in canonical :
            r.kind = "tx" /\ r.item.sender = s =>
                \A n \in r.item.nonce..(expectedNonce[s] - 1) :
                    \E q \in canonical : Live(q) /\ q.item.sender = s /\ q.item.nonce = n

\* Racing replicas, resubmits and replacement transactions give one nonce one
\* live record.  Only a void at or below that nonce, after the first of the
\* two, opens it again (the first one gets a skip receipt).
OneLivePerNonce ==
    \A q, r \in canonical :
        (/\ Live(q) /\ Live(r) /\ q.index < r.index
         /\ q.item.sender = r.item.sender /\ q.item.sender \in Senders \ evicted
         /\ q.item.nonce = r.item.nonce)
        => \E v \in canonical :
              /\ v.kind = "void" /\ q.index < v.index /\ v.index < r.index
              /\ v.item.tx.sender = q.item.sender
              /\ v.item.tx.nonce <= q.item.nonce

\* The consumers' dense cursor: the records tile the indices below the count,
\* and the boundaries cut them into blocks at record edges.
SlotsDense ==
    /\ \A i \in 0..(canonicalCount - 1) :
          \E r \in canonical : r.index <= i /\ i < r.index + r.slots
    /\ \A q, r \in canonical :
          q = r \/ q.index + q.slots <= r.index \/ r.index + r.slots <= q.index
    /\ \A r \in canonical, b \in sealed :
          IF r.block <= b.block THEN r.index + r.slots <= b.end ELSE b.end <= r.index

\* The DA-lag guard: no user record sits more than the budget past the block
\* after the posted head, whatever the order of ticks, cursors and offers, and
\* the posted head is a sealed block: no cursor opens the guard ahead of time.
DaLagBounded ==
    /\ postedHead <= SealedHead
    /\ DaLagBudget > 0 =>
        \A r \in canonical :
            r.kind = "tx" /\ r.item.sender # ZeroSender =>
                r.block <= postedHead + DaLagBudget + 1

\* take: no index is voided twice.  The voters send a vote again at an interval,
\* also after the decision, and the same transaction may be ordered again.
VoidedOnce ==
    \A v, w \in canonical :
        v.kind = "void" /\ w.kind = "void" /\ v.item.index = w.item.index => v = w

\* onVote: a void needs a vote of every configured voter for that very index,
\* however the votes repeat, age out or are cleared by a decision in between.
VoidsUnanimous ==
    \A v \in canonical : v.kind = "void" => \A u \in Voters : <<v.item.index, u>> \in asked

\* A void names one of the newest VoidWindow indices, also when its votes were
\* cast long before: the consumers need no older record to apply it.
VoidInWindow ==
    \A v \in canonical : v.kind = "void" => v.item.index >= v.index - VoidCapacity

\* onOriginRecord closes the open block first: an epoch or a batch leads its
\* block, and the boundary of each block carries the origin of the last epoch
\* at or before it.
OriginLeadsBlock ==
    /\ \A q, r \in canonical :
          r.kind \in {"epoch", "batch"} /\ q.block = r.block => r.index <= q.index
    /\ \A b \in sealed :
          LET adopted == {r \in canonical : r.kind = "epoch" /\ r.block <= b.block}
          IN  IF adopted = {} THEN b.origin = 0
              ELSE \E r \in adopted : /\ b.origin = r.item.origin
                                      /\ \A q \in adopted : q.index <= r.index

\* No epoch is skipped or ordered twice, also after its id left the window:
\* the origins go up by one from the first.  The lane of each peer is
\* contiguous in the same way.
OriginsContiguous ==
    /\ \A q, r \in canonical :
          q.kind = "epoch" /\ r.kind = "epoch" /\ q.index < r.index =>
             /\ q.item.origin < r.item.origin
             /\ r.item.origin > q.item.origin + 1 =>
                   \E m \in canonical : m.kind = "epoch" /\ m.item.origin = r.item.origin - 1
    /\ \A q, r \in canonical :
          (/\ q.kind = "batch" /\ r.kind = "batch" /\ q.index < r.index
           /\ q.item.peer = r.item.peer) =>
             /\ q.item.last < r.item.first
             /\ r.item.first > q.item.last + 1 =>
                   \E m \in canonical : m.kind = "batch" /\ m.item.peer = r.item.peer
                                        /\ m.item.last = r.item.first - 1

\* Boundaries are numbered without a gap and their times strictly increase,
\* also when a forced boundary or a new leader's clock repeats a window.
BoundariesOrdered ==
    /\ {b.block : b \in sealed} = 1..(blockNumber - 1)
    /\ \A b, c \in sealed : b.block < c.block => b.ts < c.ts /\ b.end <= c.end
    /\ \A b, c \in sealed : b.block = c.block => b = c

\* Epochs and batches skip the window cap.  Each one forces the next to seal
\* a block, so the markers in the window stay within the horizon, and the
\* transactions within the cap.
WindowBounded ==
    /\ Cardinality({t \in Txs : Held(t.id)}) <= DedupCapacity
    /\ Cardinality({m \in Epochs \cup Batches : Held(m.id)}) <= Horizon + 1

=============================================================================
