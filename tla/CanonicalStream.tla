--------------------------- MODULE CanonicalStream ---------------------------
(***************************************************************************)
(* How a consumer reads the canonical stream: the retained frames and the  *)
(* replay answers of the sealer service (SealerEgress, HeapFrames,         *)
(* SessionBacklogs), the session thread of the client (SessionLoop,        *)
(* SessionDriver) and the delivery cursor of the reader (Reorder).         *)
(*                                                                         *)
(* The sealer emits records and boundaries with dense indices and block    *)
(* numbers, which CanonicalSealer shows.  What the service does here is    *)
(* driven by the replicated log, so one copy of it stands for all members. *)
(*                                                                         *)
(* Three actors interleave: the leader, which offers frames to the session *)
(* in order (the backlog and the network are one FIFO, `link`), the        *)
(* session thread, which moves them to the channel of the reader           *)
(* (`inbox`), and the reader.  A session ends at any point with the loss   *)
(* of what is in `link`, and the cursor that a replay request carries is   *)
(* two atomics that the reader moves on meanwhile.                         *)
(*                                                                         *)
(* `faults` counts the losses, crashes, preemptions and early resends that *)
(* have happened.  Its bound also says that the faults end, which the      *)
(* liveness property needs.                                                *)
(***************************************************************************)
EXTENDS Integers, Sequences, FiniteSets

CONSTANTS
    Widths,          \* the slot counts that a record may have
    RetentionCap,    \* retentionCap: frames that always stay
    WindowOnly,      \* windowOnly: a frame past the cap leaves at any posted head
    Posted,          \* the heads that the batcher may confirm
    MaxPending,      \* MAX_PENDING of Reorder
    OtherConsumers,  \* whether other sessions are announced as consumers
    FaultKinds,      \* the faults that happen
    LossyFailovers,  \* whether a leader change may lose frames in flight
    MaxFrames,       \* bound: frames of the stream
    MaxFaults        \* bound: faults of any kind

ASSUME StreamAssumption ==
    /\ Widths \subseteq Nat \ {0}
    /\ RetentionCap \in Nat
    /\ WindowOnly \in BOOLEAN
    /\ Posted \subseteq Nat
    /\ MaxPending \in Nat \ {0}
    /\ OtherConsumers \in BOOLEAN
    /\ FaultKinds \subseteq {"egress", "failover", "publish", "resend", "preemption", "crash"}
    /\ LossyFailovers \in BOOLEAN
    /\ MaxFrames \in Nat
    /\ MaxFaults \in Nat

VARIABLES
    \* the sealer service
    stream,          \* every frame emitted, in order
    canonicalCount,  \* the next record index
    blockNumber,     \* the open block
    postedHead,      \* the last posted block
    evictions,       \* how many frames left the retention
    firstRetainedIndex,
    firstRetainedBlock,
    \* the session
    connected,       \* the client holds a session
    alive,           \* its egress still reaches the client
    consumer,        \* the service knows it as a consumer
    link,            \* frames on the way to the client
    requests,        \* replay requests on the way to the service
    answered,        \* ReplayAsk.answered
    loadedIndex,     \* next_index of a half-read cursor, or -1
    \* the reader
    inbox,           \* the consumer channel
    nextIndex,
    nextBlock,
    pendingRecords,
    pendingBoundaries,
    catchingUp,
    failed,          \* why the reader stopped, or "no"
    oldestBlock,     \* the floor block that a refused replay named, or 0
    delivered,       \* history: the frames applied
    durable,         \* how many of them the state database holds
    faults

serviceVars == <<stream, canonicalCount, blockNumber, postedHead, evictions,
                 firstRetainedIndex, firstRetainedBlock>>
sessionVars == <<connected, alive, consumer, link, requests, answered, loadedIndex>>
cursorVars == <<nextIndex, nextBlock>>
pendingVars == <<pendingRecords, pendingBoundaries, catchingUp>>
readerVars == <<inbox, cursorVars, pendingVars, failed, oldestBlock, delivered, durable>>
vars == <<serviceVars, sessionVars, readerVars, faults>>

Record(index, slots) == [kind |-> "record", key |-> index, slots |-> slots]
Boundary(block, end) == [kind |-> "boundary", key |-> block, end |-> end]
Done(index, block) == [kind |-> "done", key |-> index, block |-> block]
Ahead(index, block) == [kind |-> "ahead", key |-> index, block |-> block]
Unavailable(index, block) == [kind |-> "unavailable", key |-> index, block |-> block]
SessionStart == [kind |-> "start"]

Answers == {"done", "ahead", "unavailable"}

Init ==
    /\ stream = <<>> /\ canonicalCount = 0 /\ blockNumber = 1
    /\ postedHead = 0 /\ evictions = 0
    /\ firstRetainedIndex = 0 /\ firstRetainedBlock = 1
    /\ connected = FALSE /\ alive = FALSE /\ consumer = FALSE
    /\ link = <<>> /\ requests = <<>> /\ answered = FALSE /\ loadedIndex = -1
    /\ inbox = <<>> /\ nextIndex = 0 /\ nextBlock = 1
    /\ pendingRecords = {} /\ pendingBoundaries = {} /\ catchingUp = FALSE
    /\ failed = "no" /\ oldestBlock = 0 /\ delivered = <<>> /\ durable = 0
    /\ faults = 0

Fault(kind) == kind \in FaultKinds /\ faults < MaxFaults /\ faults' = faults + 1

-----------------------------------------------------------------------------
(* The retention of the service *)

Retained == SubSeq(stream, evictions + 1, Len(stream))

\* The floors after the first n frames of `frames` left: evictFront moves the
\* floor of the frame's axis past its key.
FloorAfter(frames, n, kind, start) ==
    LET keys == {frames[i].key : i \in {j \in 1..n : frames[j].kind = kind}}
    IN  IF keys = {} THEN start ELSE 1 + CHOOSE k \in keys : \A m \in keys : m <= k

\* Mutant: a record at the front counts for the block before the floor.
OldestIsPostedEarly(frames, n, head) ==
    LET front == frames[n + 1]
        block == IF front.kind = "boundary" THEN front.key
                 ELSE FloorAfter(frames, n, "boundary", 1) - 1
    IN  block <= head

\* oldestIsPosted: a record at the front belongs to the block of the floor.
OldestIsPosted(frames, n, head) ==
    LET front == frames[n + 1]
        block == IF front.kind = "boundary" THEN front.key
                 ELSE FloorAfter(frames, n, "boundary", 1)
    IN  block <= head

\* The loop of prune: how many frames have left when it stops.
Pruned(frames, from, head) ==
    CHOOSE n \in from..Len(frames) :
        LET MayLeave(m) == /\ Len(frames) - m > RetentionCap
                           /\ WindowOnly \/ OldestIsPosted(frames, m, head)
        IN  ~MayLeave(n) /\ \A m \in from..(n - 1) : MayLeave(m)

Prune(frames, head) ==
    /\ evictions' = Pruned(frames, evictions, head)
    /\ firstRetainedIndex' = FloorAfter(frames, evictions', "record", 0)
    /\ firstRetainedBlock' = FloorAfter(frames, evictions', "boundary", 1)

\* boundaryEnd: the end of a retained boundary, or -1.
BoundaryEnd(block) ==
    LET ends == {Retained[i].end : i \in {j \in 1..Len(Retained) :
                    Retained[j].kind = "boundary" /\ Retained[j].key = block}}
    IN  IF ends = {} THEN -1 ELSE CHOOSE e \in ends : TRUE

CursorInsideBlock(index, block) ==
    /\ BoundaryEnd(block - 1) < 0 \/ index >= BoundaryEnd(block - 1)
    /\ BoundaryEnd(block) < 0 \/ index <= BoundaryEnd(block)

ReplayVerdict(index, block) ==
    IF index > canonicalCount \/ block > blockNumber THEN "AHEAD"
    ELSE IF ~CursorInsideBlock(index, block) THEN "REFUSED"
    ELSE IF index < firstRetainedIndex \/ block < firstRetainedBlock THEN "REFUSED"
    ELSE "SERVE"

\* Mutant: one axis selects both kinds of frames.
WantedPastIndex(index, block) ==
    SelectSeq(Retained, LAMBDA f : IF f.kind = "boundary" THEN f.end > index
                                   ELSE f.key >= index)

\* wanted: the retained frames at or after the cursor, each on its own axis, in
\* the order of the stream.
Wanted(index, block) ==
    LET places == {i \in (evictions + 1)..Len(stream) :
                      stream[i].key >= IF stream[i].kind = "boundary" THEN block ELSE index}
        Rank(i) == Cardinality({j \in places : j <= i})
    IN  [k \in 1..Cardinality(places) |-> stream[CHOOSE i \in places : Rank(i) = k]]

\* handleReplayRequest: the frames go to the session, and a marker ends them.
ReplayAnswer(index, block) ==
    LET verdict == ReplayVerdict(index, block)
    IN  IF verdict = "AHEAD" THEN <<Ahead(canonicalCount, blockNumber)>>
        ELSE IF verdict = "REFUSED" THEN <<Unavailable(firstRetainedIndex, firstRetainedBlock)>>
        ELSE Append(Wanted(index, block), Done(canonicalCount, blockNumber))

-----------------------------------------------------------------------------
(* Actions of the service *)

\* A frame reaches the session while its egress lives.
Offered(frames) == IF connected /\ alive THEN link \o frames ELSE link

\* offerRelayed: to the announced consumers, or to every session while none
\* is announced.
EmitRecord(slots) ==
    LET frame == Record(canonicalCount, slots)
    IN  /\ Len(stream) < MaxFrames
        /\ stream' = Append(stream, frame)
        /\ canonicalCount' = canonicalCount + slots
        /\ Prune(stream', postedHead)
        /\ link' = IF consumer \/ ~OtherConsumers THEN Offered(<<frame>>) ELSE link
        /\ UNCHANGED <<blockNumber, postedHead, connected, alive, consumer, requests,
                       answered, loadedIndex, readerVars, faults>>

\* offerBoundary: to every session.
EmitBoundary ==
    LET frame == Boundary(blockNumber, canonicalCount)
    IN  /\ Len(stream) < MaxFrames
        /\ stream' = Append(stream, frame)
        /\ blockNumber' = blockNumber + 1
        /\ Prune(stream', postedHead)
        /\ link' = Offered(<<frame>>)
        /\ UNCHANGED <<canonicalCount, postedHead, connected, alive, consumer, requests,
                       answered, loadedIndex, readerVars, faults>>

\* Mutant: a head past the sealed blocks is adopted.
SetPostedHeadAny(head) ==
    /\ head > postedHead
    /\ postedHead' = head
    /\ Prune(stream, head)
    /\ UNCHANGED <<stream, canonicalCount, blockNumber, sessionVars, readerVars, faults>>

SetPostedHead(head) ==
    /\ head > postedHead /\ head < blockNumber
    /\ postedHead' = head
    /\ Prune(stream, head)
    /\ UNCHANGED <<stream, canonicalCount, blockNumber, sessionVars, readerVars, faults>>

\* The service reads the oldest request.  A request announces a consumer too.
HandleReplayRequest ==
    /\ requests # <<>>
    /\ requests' = Tail(requests)
    /\ consumer' = TRUE
    /\ link' = Offered(ReplayAnswer(Head(requests)[1], Head(requests)[2]))
    /\ UNCHANGED <<serviceVars, connected, alive, answered, loadedIndex, readerVars, faults>>

-----------------------------------------------------------------------------
(* Actions of the session *)

\* Mutants: no marker goes ahead of the new session, or the ask stays answered.
ConnectUnmarked ==
    /\ ~connected /\ failed = "no"
    /\ connected' = TRUE /\ alive' = TRUE /\ consumer' = FALSE
    /\ link' = <<>> /\ requests' = <<>> /\ answered' = FALSE /\ loadedIndex' = -1
    /\ UNCHANGED <<serviceVars, readerVars, faults>>

ConnectAnswered ==
    /\ ~connected /\ failed = "no"
    /\ connected' = TRUE /\ alive' = TRUE /\ consumer' = FALSE
    /\ link' = <<>> /\ requests' = <<>> /\ loadedIndex' = -1
    /\ inbox' = Append(inbox, SessionStart)
    /\ UNCHANGED <<serviceVars, answered, cursorVars, pendingVars, failed, oldestBlock,
                   delivered, durable, faults>>

\* Connected: the ask is armed again and the marker goes ahead of every frame
\* of the new session.
Connect ==
    /\ ~connected /\ failed = "no"
    /\ connected' = TRUE /\ alive' = TRUE /\ consumer' = FALSE
    /\ link' = <<>> /\ requests' = <<>> /\ answered' = FALSE /\ loadedIndex' = -1
    /\ inbox' = Append(inbox, SessionStart)
    /\ UNCHANGED <<serviceVars, cursorVars, pendingVars, failed, oldestBlock, delivered,
                   durable, faults>>

\* The announcement reaches the service.
Subscribe ==
    /\ connected /\ alive /\ ~consumer
    /\ consumer' = TRUE
    /\ UNCHANGED <<serviceVars, connected, alive, link, requests, answered, loadedIndex,
                   readerVars, faults>>

\* An answer to an earlier request of this session is still on its way.
Outstanding == requests # <<>> \/ \E i \in 1..Len(link) : link[i].kind \in Answers

\* ReplayAsk.due: no answer has come for this session.
AskIsDue == connected /\ ~answered /\ loadedIndex = -1

\* publish_replay_request of a cursor.
PublishRequest(index, block) ==
    /\ requests' = Append(requests, <<index, block>>)
    /\ loadedIndex' = -1
    /\ UNCHANGED <<serviceVars, connected, alive, consumer, link, answered, readerVars>>

SendReplay ==
    /\ AskIsDue /\ ~Outstanding
    /\ PublishRequest(nextIndex, nextBlock)
    /\ UNCHANGED faults

\* The resend timer fires while the answer is still on its way.
ResendEarly ==
    /\ AskIsDue /\ Outstanding
    /\ PublishRequest(nextIndex, nextBlock)
    /\ Fault("resend")

\* The publish fails, and the gate resends later.
PublishFails ==
    /\ AskIsDue
    /\ Fault("publish")
    /\ UNCHANGED <<serviceVars, sessionVars, readerVars>>

\* The thread is preempted between the two loads of the cursor.
LoadIndex ==
    /\ AskIsDue
    /\ loadedIndex' = nextIndex
    /\ Fault("preemption")
    /\ UNCHANGED <<serviceVars, connected, alive, consumer, link, requests, answered, readerVars>>

LoadBlock ==
    /\ connected /\ loadedIndex # -1
    /\ PublishRequest(loadedIndex, nextBlock)
    /\ UNCHANGED faults

\* One frame moves on to the reader.  An answer ends the resends.
Receive ==
    /\ connected /\ link # <<>> /\ loadedIndex = -1
    /\ link' = Tail(link)
    /\ inbox' = Append(inbox, Head(link))
    /\ answered' = (answered \/ Head(link).kind \in Answers)
    /\ UNCHANGED <<serviceVars, connected, alive, consumer, requests, loadedIndex,
                   cursorVars, pendingVars, failed, oldestBlock, delivered, durable, faults>>

\* The backlog is dropped and the session closed, or its image dies: what is
\* on the way is lost, and nothing more arrives.
EgressDies ==
    /\ connected /\ alive
    /\ alive' = FALSE
    /\ link' = <<>>
    /\ Fault("egress")
    /\ UNCHANGED <<serviceVars, connected, consumer, requests, answered, loadedIndex, readerVars>>

\* A close event or the silence watchdog ends the session.
ResetSession ==
    /\ connected /\ ~alive
    /\ connected' = FALSE
    /\ requests' = <<>> /\ loadedIndex' = -1
    /\ UNCHANGED <<serviceVars, alive, consumer, link, answered, readerVars, faults>>

\* A leader change.  The session goes on under the new leader (on_new_leader
\* only points the ingress at it).  What the old leader had not sent, and the
\* requests it had not logged, are gone.
Failover ==
    /\ connected /\ alive
    /\ LossyFailovers \/ link = <<>>
    /\ link' = <<>> /\ requests' = <<>>
    /\ Fault("failover")
    /\ UNCHANGED <<serviceVars, connected, alive, consumer, answered, loadedIndex, readerVars>>

-----------------------------------------------------------------------------
(* Actions of the reader *)

BoundaryIsNext ==
    \E b \in pendingBoundaries : b.key = nextBlock /\ b.end <= nextIndex

\* Mutant: a record is next also in catch-up.
RecordIsNextLive ==
    /\ ~BoundaryIsNext
    /\ \E r \in pendingRecords : r.key = nextIndex
    /\ \A b \in pendingBoundaries : b.key = nextBlock => b.end > nextIndex

\* A boundary proves the place of a record.  In live mode, a boundary that is
\* not there is a later one.
RecordIsNext ==
    /\ ~BoundaryIsNext
    /\ \E r \in pendingRecords : r.key = nextIndex
    /\ IF \E b \in pendingBoundaries : b.key = nextBlock
       THEN \E b \in pendingBoundaries : b.key = nextBlock /\ b.end > nextIndex
       ELSE ~catchingUp

DeliverBoundary ==
    /\ failed = "no" /\ BoundaryIsNext
    /\ \E b \in pendingBoundaries :
          /\ b.key = nextBlock
          /\ pendingBoundaries' = pendingBoundaries \ {b}
          /\ delivered' = Append(delivered, b)
    /\ nextBlock' = nextBlock + 1
    /\ UNCHANGED <<serviceVars, sessionVars, inbox, nextIndex, pendingRecords, catchingUp,
                   failed, oldestBlock, durable, faults>>

DeliverRecord ==
    /\ failed = "no" /\ RecordIsNext
    /\ \E r \in pendingRecords :
          /\ r.key = nextIndex
          /\ pendingRecords' = pendingRecords \ {r}
          /\ delivered' = Append(delivered, r)
          /\ nextIndex' = nextIndex + r.slots
    /\ UNCHANGED <<serviceVars, sessionVars, inbox, nextBlock, pendingBoundaries, catchingUp,
                   failed, oldestBlock, durable, faults>>

Overflows(records, boundaries) ==
    Cardinality(records) > MaxPending \/ Cardinality(boundaries) > MaxPending

IngestRecord(r) ==
    IF r.key < nextIndex THEN UNCHANGED <<pendingVars, failed>>
    ELSE /\ catchingUp' = (catchingUp \/ r.key > nextIndex)
         /\ pendingRecords' = pendingRecords \cup {r}
         /\ failed' = IF Overflows(pendingRecords', pendingBoundaries) THEN "overflow" ELSE "no"
         /\ UNCHANGED pendingBoundaries

\* A boundary still owed that ends below the cursor stops the reader.
IngestBoundary(b) ==
    IF b.key < nextBlock THEN UNCHANGED <<pendingVars, failed>>
    ELSE IF b.end < nextIndex THEN failed' = "misaligned" /\ UNCHANGED pendingVars
    ELSE /\ catchingUp' = (catchingUp \/ b.key > nextBlock)
         /\ pendingBoundaries' = pendingBoundaries \cup {b}
         /\ failed' = IF Overflows(pendingRecords, pendingBoundaries') THEN "overflow" ELSE "no"
         /\ UNCHANGED pendingRecords

EndReplay(d) ==
    IF d.key < nextIndex \/ d.block < nextBlock
    THEN failed' = "behind" /\ UNCHANGED pendingVars
    ELSE catchingUp' = FALSE /\ UNCHANGED <<pendingRecords, pendingBoundaries, failed>>

\* next(): take a frame off the channel when nothing can be delivered.
Ingest ==
    /\ failed = "no" /\ ~BoundaryIsNext /\ ~RecordIsNext
    /\ inbox # <<>>
    /\ inbox' = Tail(inbox)
    /\ \/ Head(inbox).kind = "record" /\ IngestRecord(Head(inbox))
       \/ Head(inbox).kind = "boundary" /\ IngestBoundary(Head(inbox))
       \/ Head(inbox).kind = "done" /\ EndReplay(Head(inbox))
       \/ /\ Head(inbox).kind = "start"
          /\ catchingUp' = TRUE
          /\ UNCHANGED <<pendingRecords, pendingBoundaries, failed>>
       \/ Head(inbox).kind = "ahead" /\ failed' = "behind" /\ UNCHANGED pendingVars
       \/ Head(inbox).kind = "unavailable" /\ failed' = "unavailable" /\ UNCHANGED pendingVars
    /\ oldestBlock' = IF Head(inbox).kind = "unavailable" THEN Head(inbox).block ELSE 0
    /\ UNCHANGED <<serviceVars, sessionVars, cursorVars, delivered, durable, faults>>

\* The cursor of a reader that has applied the first n frames of the stream.
IndexAt(n) == LET last == {i \in 1..n : stream[i].kind = "record"}
              IN  IF last = {} THEN 0
                  ELSE LET i == CHOOSE j \in last : \A k \in last : k <= j
                       IN  stream[i].key + stream[i].slots
BlockAt(n) == 1 + Cardinality({i \in 1..n : stream[i].kind = "boundary"})

BlockEnds == {0} \cup {n \in 1..Len(stream) : stream[n].kind = "boundary"}

\* A new process at the end of block position n.  Its session is new too.
Resume(n) ==
    /\ durable' = n
    /\ delivered' = SubSeq(stream, 1, n)
    /\ nextIndex' = IndexAt(n) /\ nextBlock' = BlockAt(n)
    /\ pendingRecords' = {} /\ pendingBoundaries' = {} /\ catchingUp' = FALSE
    /\ failed' = "no" /\ oldestBlock' = 0 /\ inbox' = <<>>
    /\ connected' = FALSE /\ alive' = FALSE /\ consumer' = FALSE
    /\ link' = <<>> /\ requests' = <<>> /\ answered' = FALSE /\ loadedIndex' = -1
    /\ UNCHANGED serviceVars

\* The state database holds some of the blocks that were delivered.
OwnState == {n \in BlockEnds : n >= durable /\ n <= Len(delivered)}

\* stage_peer_checkpoint: the checkpoint of a peer, of the floor block or above.
PeerState(floor) == {n \in BlockEnds : BlockAt(n) - 1 >= floor}

Crash == Fault("crash") /\ \E n \in OwnState : Resume(n)

\* The process exits on its error, and the supervisor starts it again.
Restart ==
    /\ failed # "no"
    /\ \E n \in OwnState : Resume(n)
    /\ UNCHANGED faults

\* A refused replay sends the process to a checkpoint of a peer first.
AdoptCheckpoint ==
    /\ failed = "unavailable"
    /\ \E n \in PeerState(oldestBlock) : Resume(n)
    /\ UNCHANGED faults

-----------------------------------------------------------------------------

Next ==
    \/ \E slots \in Widths : EmitRecord(slots)
    \/ EmitBoundary
    \/ \E head \in Posted : SetPostedHead(head)
    \/ HandleReplayRequest
    \/ Connect \/ Subscribe \/ Receive
    \/ SendReplay \/ ResendEarly \/ PublishFails \/ LoadIndex \/ LoadBlock
    \/ EgressDies \/ ResetSession \/ Failover
    \/ DeliverBoundary \/ DeliverRecord \/ Ingest
    \/ Crash \/ Restart \/ AdoptCheckpoint

Spec == Init /\ [][Next]_vars

\* Every thread keeps running: the leader reads its log, the session thread
\* connects, asks and drains, the watchdog fires on a dead session, the reader
\* polls and a failed process starts again.  A peer with a checkpoint above
\* the floor is reached in the end.  Nothing says that the sealer emits.
Fairness ==
    /\ WF_vars(HandleReplayRequest)
    /\ WF_vars(Connect)
    /\ WF_vars(SendReplay)
    /\ WF_vars(LoadBlock)
    /\ WF_vars(Receive)
    /\ WF_vars(ResetSession)
    /\ WF_vars(DeliverBoundary)
    /\ WF_vars(DeliverRecord)
    /\ WF_vars(Ingest)
    /\ WF_vars(Restart)
    /\ SF_vars(AdoptCheckpoint)

FairSpec == Spec /\ Fairness

-----------------------------------------------------------------------------
(* Properties *)

Frames ==
    [kind : {"record"}, key : Nat, slots : Nat \ {0}] \cup [kind : {"boundary"}, key : Nat, end : Nat]
Controls == [kind : Answers, key : Nat, block : Nat]

\* Every variable has its type, and the retention is a suffix of the stream.
TypeOK ==
    /\ stream \in Seq(Frames) /\ delivered \in Seq(Frames)
    /\ canonicalCount \in Nat /\ blockNumber \in Nat \ {0}
    /\ postedHead \in 0..(blockNumber - 1)
    /\ evictions \in 0..Len(stream)
    /\ firstRetainedIndex \in 0..canonicalCount /\ firstRetainedBlock \in 1..blockNumber
    /\ connected \in BOOLEAN /\ alive \in BOOLEAN /\ consumer \in BOOLEAN
    /\ answered \in BOOLEAN /\ catchingUp \in BOOLEAN
    /\ link \in Seq(Frames \cup Controls)
    /\ inbox \in Seq(Frames \cup Controls \cup {SessionStart})
    /\ requests \in Seq(Nat \X Nat)
    /\ loadedIndex \in Nat \cup {-1}
    /\ nextIndex \in Nat /\ nextBlock \in Nat \ {0}
    /\ pendingRecords \subseteq Frames /\ pendingBoundaries \subseteq Frames
    /\ failed \in {"no", "overflow", "misaligned", "behind", "unavailable"}
    /\ oldestBlock \in Nat /\ durable \in Nat /\ faults \in 0..MaxFaults

Reader == INSTANCE LogReader WITH log <- stream, read <- delivered

\* Through lost sessions, torn cursors, resends, crashes and evictions, the
\* reader applies the frames of the stream one by one, with no gap, no repeat
\* and every record in the block that the sealer put it in.
ReadsTheLog == Reader!Spec

\* The same claim on states: what was applied is a prefix of the stream.
DeliveredInOrder == delivered = SubSeq(stream, 1, Len(delivered))

\* ingest_boundary: the markers and the catch-up keep a boundary from coming
\* after a record that follows it, and the sealer never seems to lose what the
\* reader applied.  Both stop the reader.
NeverMisaligned == failed \notin {"misaligned", "behind"}

\* "Nothing a batcher has not confirmed on L1 is dropped, so the batcher can
\* always replay from its cursor": a cursor at or above the first block that
\* is not posted is served, with exactly the frames after it, although a
\* request names the two axes apart.
UnpostedReplayable ==
    \A n \in 0..Len(stream) :
        LET index == IndexAt(n)
            block == BlockAt(n)
            rest == SubSeq(stream, n + 1, Len(stream))
        IN  /\ ReplayVerdict(index, block) = "SERVE" => Wanted(index, block) = rest
            /\ ~WindowOnly /\ block > postedHead => ReplayVerdict(index, block) = "SERVE"

\* cursorInsideBlock: "A cold start sends the lower end exactly. A reconnect
\* inside an open block sends an index between the two."  So a request always
\* names one point of the stream, and none is refused as skewed.
RequestsNameOnePoint ==
    \A i \in 1..Len(requests) :
        \E n \in 0..Len(stream) : requests[i] = <<IndexAt(n), BlockAt(n)>>

\* Once the faults and the emissions end, the reader applies the whole stream.
\* Only a reader below the retention may stay behind, and only while no block
\* at or above the floor is sealed: there is no checkpoint that it may adopt.
CatchesUp ==
    LET belowFloor == nextIndex < firstRetainedIndex \/ nextBlock < firstRetainedBlock
    IN  <>[](delivered = stream \/ (belowFloor /\ PeerState(firstRetainedBlock) = {}))

=============================================================================
