--------------------------- MODULE StreamReaderProofs ---------------------------
(***************************************************************************)
(* Proofs about the reader of CanonicalStream, for every value of its      *)
(* constants but one: while a leader change loses no frame in flight, the  *)
(* reader applies the stream, frame by frame, and never finds it           *)
(* misaligned.                                                             *)
(***************************************************************************)
EXTENDS StreamServiceProofs

-----------------------------------------------------------------------------
(* Types *)

SessionTypes ==
    /\ connected \in BOOLEAN /\ alive \in BOOLEAN /\ consumer \in BOOLEAN /\ answered \in BOOLEAN
    /\ link \in Seq(Frames \cup Controls)
    /\ requests \in Seq(Nat \X Nat)
    /\ loadedIndex \in Nat \cup {-1}

ReaderTypes ==
    /\ delivered \in Seq(Frames)
    /\ inbox \in Seq(Frames \cup Controls \cup {SessionStart})
    /\ nextIndex \in Nat /\ nextBlock \in Nat \ {0}
    /\ pendingRecords \subseteq {f \in Frames : f.kind = "record"}
    /\ pendingBoundaries \subseteq {f \in Frames : f.kind = "boundary"}
    /\ catchingUp \in BOOLEAN
    /\ failed \in {"no", "overflow", "misaligned", "behind", "unavailable"}
    /\ oldestBlock \in Nat /\ durable \in Nat

Types == SessionTypes /\ ReaderTypes /\ faults \in 0..MaxFaults

LEMMA TypesAreOK == ServiceInv /\ Types => TypeOK
<1> SUFFICES ASSUME ServiceInv, Types PROVE TypeOK
  OBVIOUS
<1>1. /\ stream \in Seq(Frames) /\ canonicalCount \in Nat /\ blockNumber \in Nat \ {0}
      /\ postedHead \in 0..(blockNumber - 1) /\ evictions \in 0..Len(stream)
  BY ServiceFacts DEF ServiceInv
<1>2. firstRetainedIndex \in 0..canonicalCount /\ firstRetainedBlock \in 1..blockNumber
  <2>1. evictions <= Len(stream) /\ Len(stream) \in 0..Len(stream)
    BY <1>1
  <2>2. /\ IndexOf(stream, evictions) <= canonicalCount
        /\ BlockOf(stream, evictions) <= blockNumber
    BY <1>1, <2>1, ServiceFacts DEF Rising
  <2>3. IndexOf(stream, evictions) \in Nat /\ BlockOf(stream, evictions) \in Nat \ {0}
    BY <1>1, ServiceFacts
  <2> QED BY <1>1, <2>2, <2>3, ServiceFacts
<1> QED BY <1>1, <1>2 DEF Types, SessionTypes, ReaderTypes, TypeOK

LEMMA EmptyTyped ==
    /\ <<>> \in Seq(Frames) /\ <<>> \in Seq(Frames \cup Controls)
    /\ <<>> \in Seq(Frames \cup Controls \cup {SessionStart}) /\ <<>> \in Seq(Nat \X Nat)
OBVIOUS

LEMMA OfferedTyped ==
    ASSUME SessionTypes, NEW frames \in Seq(Frames \cup Controls)
    PROVE  Offered(frames) \in Seq(Frames \cup Controls)
<1>1. link \in Seq(Frames \cup Controls)
  BY DEF SessionTypes
<1>2. link \o frames \in Seq(Frames \cup Controls)
  BY <1>1
<1> QED BY <1>1, <1>2 DEF Offered

LEMMA WantedTyped ==
    ASSUME ServiceInv, NEW index, NEW block
    PROVE  Wanted(index, block) \in Seq(Frames)
<1> DEFINE P == WantedPlaces(index, block)
<1>1. stream \in Seq(Frames) /\ Len(stream) \in Nat /\ evictions \in Nat
  BY ServiceFacts
<1>2. P \in SUBSET (1..Len(stream))
  BY <1>1 DEF WantedPlaces
<1> HIDE DEF P
<1>3. /\ Cardinality(P) \in Nat
      /\ Picked(stream, P) = [k \in 1..Cardinality(P) |-> Picked(stream, P)[k]]
      /\ \A k \in 1..Cardinality(P) : \E i \in P : Picked(stream, P)[k] = stream[i]
  BY <1>1, <1>2, PickedFrames
<1>4. \A k \in 1..Cardinality(P) : Picked(stream, P)[k] \in Frames
  BY <1>1, <1>2, <1>3
<1>5. Picked(stream, P) \in [1..Cardinality(P) -> Frames]
  BY <1>3, <1>4
<1>6. Picked(stream, P) \in Seq(Frames)
  BY <1>3, <1>5
<1> QED BY <1>6, WantedIsPicked DEF P

LEMMA AnswerTyped ==
    ASSUME ServiceInv, NEW index, NEW block
    PROVE  ReplayAnswer(index, block) \in Seq(Frames \cup Controls)
<1>1. /\ canonicalCount \in Nat /\ blockNumber \in Nat
      /\ firstRetainedIndex \in Nat /\ firstRetainedBlock \in Nat
  <2>1. IndexOf(stream, evictions) \in Nat
    BY ServiceFacts
  <2> QED BY <2>1, ServiceFacts
<1>2. /\ Ahead(canonicalCount, blockNumber) \in Controls
      /\ Unavailable(firstRetainedIndex, firstRetainedBlock) \in Controls
      /\ Done(canonicalCount, blockNumber) \in Controls
  BY <1>1 DEF Ahead, Unavailable, Done, Controls, Answers
<1>3. Append(Wanted(index, block), Done(canonicalCount, blockNumber)) \in Seq(Frames \cup Controls)
  <2>1. Wanted(index, block) \in Seq(Frames \cup Controls)
    BY WantedTyped
  <2> QED BY <1>2, <2>1
<1>4. /\ <<Ahead(canonicalCount, blockNumber)>> \in Seq(Frames \cup Controls)
      /\ <<Unavailable(firstRetainedIndex, firstRetainedBlock)>> \in Seq(Frames \cup Controls)
  BY <1>2
<1> QED BY <1>3, <1>4 DEF ReplayAnswer

LEMMA TypesStep ==
    ASSUME ServiceInv, Types, [Next]_vars
    PROVE  Types'
<1> USE DEF Types
<1>1. ASSUME NEW slots \in Widths, EmitRecord(slots) PROVE Types'
  <2>1. Record(canonicalCount, slots) \in Frames
    BY ServiceFacts, StreamAssumption DEF Record, Frames
  <2>2. link' \in Seq(Frames \cup Controls)
    <3>1. <<Record(canonicalCount, slots)>> \in Seq(Frames \cup Controls)
      BY <2>1
    <3>2. link \in Seq(Frames \cup Controls)
      BY DEF SessionTypes
    <3> QED BY <1>1, <3>1, <3>2, OfferedTyped DEF EmitRecord
  <2> QED BY <1>1, <2>2 DEF EmitRecord, SessionTypes, ReaderTypes, readerVars, cursorVars,
                            pendingVars
<1>2. ASSUME EmitBoundary PROVE Types'
  <2>1. Boundary(blockNumber, canonicalCount) \in Frames
    BY ServiceFacts DEF Boundary, Frames
  <2>2. link' \in Seq(Frames \cup Controls)
    <3>1. <<Boundary(blockNumber, canonicalCount)>> \in Seq(Frames \cup Controls)
      BY <2>1
    <3> QED BY <1>2, <3>1, OfferedTyped DEF EmitBoundary
  <2> QED BY <1>2, <2>2 DEF EmitBoundary, SessionTypes, ReaderTypes, readerVars, cursorVars,
                            pendingVars
<1>3. ASSUME NEW head \in Posted, SetPostedHead(head) PROVE Types'
  BY <1>3 DEF SetPostedHead, SessionTypes, ReaderTypes, sessionVars, readerVars, cursorVars,
              pendingVars
<1>4. ASSUME HandleReplayRequest PROVE Types'
  <2>1. ReplayAnswer(Head(requests)[1], Head(requests)[2]) \in Seq(Frames \cup Controls)
    BY AnswerTyped
  <2>2. link' \in Seq(Frames \cup Controls)
    BY <1>4, <2>1, OfferedTyped DEF HandleReplayRequest
  <2> QED BY <1>4, <2>2 DEF HandleReplayRequest, SessionTypes, ReaderTypes, readerVars,
                            cursorVars, pendingVars
<1>5. ASSUME Connect \/ Subscribe \/ Receive PROVE Types'
  <2>1. CASE Connect
    <3>1. SessionTypes'
      BY <2>1, EmptyTyped DEF Connect, SessionTypes
    <3> QED BY <2>1, <3>1 DEF Connect, ReaderTypes, cursorVars, pendingVars
  <2>2. CASE Subscribe
    BY <2>2 DEF Subscribe, SessionTypes, ReaderTypes, readerVars, cursorVars, pendingVars
  <2>3. CASE Receive
    <3>1. answered' \in BOOLEAN
      BY <2>3 DEF Receive, SessionTypes
    <3> QED BY <2>3, <3>1 DEF Receive, SessionTypes, ReaderTypes, cursorVars, pendingVars
  <2> QED BY <1>5, <2>1, <2>2, <2>3
<1>6. ASSUME SendReplay \/ ResendEarly \/ PublishFails \/ LoadIndex \/ LoadBlock PROVE Types'
  <2>1. ASSUME NEW index \in Nat, NEW block \in Nat, PublishRequest(index, block)
        PROVE  SessionTypes' /\ ReaderTypes'
    BY <2>1 DEF PublishRequest, SessionTypes, ReaderTypes, readerVars, cursorVars, pendingVars
  <2>2. ASSUME NEW kind, Fault(kind) PROVE faults' \in 0..MaxFaults
    BY <2>2, StreamAssumption DEF Fault
  <2>3. CASE SendReplay
    BY <2>1, <2>3 DEF SendReplay, ReaderTypes
  <2>4. CASE ResendEarly
    BY <2>1, <2>2, <2>4 DEF ResendEarly, ReaderTypes
  <2>5. CASE PublishFails
    BY <2>2, <2>5 DEF PublishFails, SessionTypes, ReaderTypes, sessionVars, readerVars, cursorVars,
                      pendingVars
  <2>6. CASE LoadIndex
    BY <2>2, <2>6 DEF LoadIndex, SessionTypes, ReaderTypes, readerVars, cursorVars, pendingVars
  <2>7. CASE LoadBlock
    <3>1. loadedIndex \in Nat /\ nextBlock \in Nat
      BY <2>7 DEF LoadBlock, SessionTypes, ReaderTypes
    <3> QED BY <2>1, <2>7, <3>1 DEF LoadBlock
  <2> QED BY <1>6, <2>3, <2>4, <2>5, <2>6, <2>7
<1>7. ASSUME EgressDies \/ ResetSession \/ Failover PROVE Types'
  <2>1. ASSUME NEW kind, Fault(kind) PROVE faults' \in 0..MaxFaults
    BY <2>1, StreamAssumption DEF Fault
  <2>2. SessionTypes'
    BY <1>7, EmptyTyped DEF EgressDies, ResetSession, Failover, SessionTypes
  <2> QED BY <1>7, <2>1, <2>2 DEF EgressDies, ResetSession, Failover, ReaderTypes, readerVars,
                                  cursorVars, pendingVars
<1>8. ASSUME DeliverBoundary \/ DeliverRecord PROVE Types'
  <2>1. CASE DeliverBoundary
    BY <2>1 DEF DeliverBoundary, SessionTypes, ReaderTypes, sessionVars
  <2>2. CASE DeliverRecord
    <3>1. \A r \in pendingRecords : r.slots \in Nat
      BY DEF ReaderTypes, Frames
    <3> QED BY <2>2, <3>1 DEF DeliverRecord, SessionTypes, ReaderTypes, sessionVars
  <2> QED BY <1>8, <2>1, <2>2
<1>9. ASSUME Ingest PROVE Types'
  <2> DEFINE h == Head(inbox)
  <2>1. h \in Frames \cup Controls \cup {SessionStart} /\ inbox' = Tail(inbox)
        /\ inbox' \in Seq(Frames \cup Controls \cup {SessionStart})
    BY <1>9 DEF Ingest, ReaderTypes
  <2>2. /\ h.kind \in {"record", "boundary"} => h \in Frames
        /\ h.kind = "unavailable" => h.block \in Nat
    BY <2>1 DEF Frames, Controls, Answers, SessionStart
  <2>3. oldestBlock' \in Nat
    BY <1>9, <2>2 DEF Ingest
  <2>4. /\ pendingRecords' \subseteq {f \in Frames : f.kind = "record"}
        /\ pendingBoundaries' \subseteq {f \in Frames : f.kind = "boundary"}
    BY <1>9, <2>2 DEF Ingest, IngestRecord, IngestBoundary, EndReplay, pendingVars, ReaderTypes
  <2>5. catchingUp' \in BOOLEAN
    BY <1>9 DEF Ingest, IngestRecord, IngestBoundary, EndReplay, pendingVars, ReaderTypes
  <2>6. failed' \in {"no", "overflow", "misaligned", "behind", "unavailable"}
    BY <1>9 DEF Ingest, IngestRecord, IngestBoundary, EndReplay, pendingVars, ReaderTypes
  <2> QED BY <1>9, <2>1, <2>3, <2>4, <2>5, <2>6
          DEF Ingest, SessionTypes, ReaderTypes, sessionVars, cursorVars
<1>10. ASSUME Crash \/ Restart \/ AdoptCheckpoint PROVE Types'
  <2>1. ASSUME NEW n \in BlockEnds, Resume(n) PROVE SessionTypes' /\ ReaderTypes'
    <3>1. /\ stream \in Seq(Frames) /\ n \in 0..Len(stream) /\ n \in Nat
          /\ IndexOf(stream, n) \in Nat /\ BlockOf(stream, n) \in Nat \ {0}
      BY ServiceFacts DEF BlockEnds
    <3>2. SubSeq(stream, 1, n) \in Seq(Frames)
      BY <3>1
    <3>3. IndexAt(n) \in Nat /\ BlockAt(n) \in Nat \ {0}
      BY <3>1, CursorOfStream
    <3>4. SessionTypes'
      BY <2>1, EmptyTyped DEF Resume, SessionTypes
    <3>5. ReaderTypes'
      BY <2>1, <3>1, <3>2, <3>3, EmptyTyped DEF Resume, ReaderTypes
    <3> QED BY <3>4, <3>5
  <2>2. CASE Crash
    BY <2>1, <2>2, StreamAssumption DEF Crash, Fault, OwnState
  <2>3. CASE Restart
    BY <2>1, <2>3 DEF Restart, OwnState
  <2>4. CASE AdoptCheckpoint
    BY <2>1, <2>4 DEF AdoptCheckpoint, PeerState
  <2> QED BY <1>10, <2>2, <2>3, <2>4
<1>11. ASSUME UNCHANGED vars PROVE Types'
  BY <1>11 DEF vars, SessionTypes, ReaderTypes, sessionVars, readerVars, cursorVars, pendingVars
<1> QED BY <1>1, <1>2, <1>3, <1>4, <1>5, <1>6, <1>7, <1>8, <1>9, <1>10, <1>11 DEF Next

LEMMA TypesInvariant == Spec => [](ServiceInv /\ Types)
<1>1. Init => Types
  <2> SUFFICES ASSUME Init PROVE Types
    OBVIOUS
  <2>1. SessionTypes
    BY EmptyTyped DEF Init, SessionTypes
  <2>2. ReaderTypes
    <3>1. inbox = <<>> /\ delivered = <<>>
      BY DEF Init
    <3>2. /\ nextIndex \in Nat /\ nextBlock \in Nat \ {0} /\ oldestBlock \in Nat /\ durable \in Nat
      BY DEF Init
    <3>3. /\ pendingRecords = {} /\ pendingBoundaries = {} /\ catchingUp \in BOOLEAN
          /\ failed = "no"
      BY DEF Init
    <3> QED BY <3>1, <3>2, <3>3, EmptyTyped DEF ReaderTypes
  <2>3. faults \in 0..MaxFaults
    BY StreamAssumption DEF Init
  <2> QED BY <2>1, <2>2, <2>3 DEF Types
<1>2. ServiceInv /\ Types /\ [Next]_vars => Types'
  BY TypesStep
<1> QED BY <1>1, <1>2, ServiceInvariant, PTL DEF Spec

\* The types of CanonicalStream, with the retention a suffix of the stream and
\* its floors within what has been emitted, for every value of the constants.
THEOREM TypeCorrect == Spec => []TypeOK
BY TypesInvariant, TypesAreOK, PTL

-----------------------------------------------------------------------------
(* The channel of the reader *)

\* What is on its way to the reader, in the order in which it will take it.
Queue == inbox \o link

Pending == pendingRecords \cup pendingBoundaries

Emits(s) == {s[i] : i \in 1..Len(s)}

\* A reader that has applied n frames of s and holds those of P has the frame
\* at place i, or takes it from the first k entries of its queue q.
Has(s, n, P, q, i, k) ==
    \/ i <= n
    \/ s[i] \in P
    \/ \E m \in 1..k : q[m] = s[i]

\* The reader is in live mode when it comes to the entry e of q.
NoStart(q, k, m) == \A i \in k..m : q[i].kind # "start"
LiveAt(q, catching, e) ==
    \/ ~catching /\ NoStart(q, 1, e - 1)
    \/ \E d \in 1..(e - 1) : q[d].kind = "done" /\ NoStart(q, d + 1, e - 1)

\* A frame that comes in live mode comes after all the frames before it.
InOrder(s, n, P, q, catching, e) ==
    \A j \in 1..Len(s) :
        LiveAt(q, catching, e) /\ q[e] = s[j] => \A i \in 1..(j - 1) : Has(s, n, P, q, i, e - 1)

\* The end of a replay names a point p of the stream that the reader is not
\* past: what has come before is at or below p, and all that is at or below p
\* has come.
EndsAt(s, n, P, q, d, p) ==
    /\ q[d].key = IndexOf(s, p) /\ q[d].block = BlockOf(s, p)
    /\ \A i \in 1..Len(s) : s[i] \in P \/ (\E m \in 1..(d - 1) : q[m] = s[i]) => i <= p
    /\ \A i \in 1..p : Has(s, n, P, q, i, d - 1)

EntryOk(s, n, P, q, catching, e) ==
    /\ q[e].kind # "ahead"
    /\ q[e].kind \in {"record", "boundary"} => q[e] \in Emits(s)
    /\ InOrder(s, n, P, q, catching, e)
    /\ q[e].kind = "done" => \E p \in n..Len(s) : EndsAt(s, n, P, q, e, p)

\* The frames held are frames of the stream, and in live mode a record is held
\* only with all the frames before it.
HeldOk(s, n, R, B, catching) ==
    /\ \A f \in R : f \in Emits(s) /\ f.kind = "record"
    /\ \A f \in B : f \in Emits(s) /\ f.kind = "boundary"
    /\ ~catching => \A j \in 1..Len(s) : s[j] \in R =>
                        \A i \in 1..(j - 1) : i <= n \/ s[i] \in R \cup B

\* What an entry says depends on the queue up to it.
LEMMA LivePrefix ==
    ASSUME NEW q, NEW r, NEW catching, NEW e \in Nat, \A m \in 1..(e - 1) : q[m] = r[m],
           LiveAt(q, catching, e)
    PROVE  LiveAt(r, catching, e)
BY DEF LiveAt, NoStart

LEMMA HasPrefix ==
    ASSUME NEW s, NEW n, NEW P, NEW q, NEW r, NEW i, NEW k, \A m \in 1..k : q[m] = r[m],
           Has(s, n, P, q, i, k)
    PROVE  Has(s, n, P, r, i, k)
BY DEF Has

LEMMA EntryPrefix ==
    ASSUME NEW s, NEW n, NEW P, NEW q, NEW r, NEW catching, NEW e \in Nat \ {0},
           \A m \in 1..e : q[m] = r[m], EntryOk(s, n, P, q, catching, e)
    PROVE  EntryOk(s, n, P, r, catching, e)
<1>1. q[e] = r[e] /\ \A m \in 1..(e - 1) : q[m] = r[m] /\ r[m] = q[m]
  OBVIOUS
<1>2. InOrder(s, n, P, r, catching, e)
  <2> SUFFICES ASSUME NEW j \in 1..Len(s), LiveAt(r, catching, e), r[e] = s[j],
                      NEW i \in 1..(j - 1)
               PROVE  Has(s, n, P, r, i, e - 1)
    BY DEF InOrder
  <2>1. LiveAt(q, catching, e)
    BY <1>1, LivePrefix
  <2>2. Has(s, n, P, q, i, e - 1)
    BY <1>1, <2>1 DEF EntryOk, InOrder
  <2> QED BY <1>1, <2>2, HasPrefix
<1>3. ASSUME NEW p \in n..Len(s), EndsAt(s, n, P, q, e, p) PROVE EndsAt(s, n, P, r, e, p)
  <2>1. \A i \in 1..p : Has(s, n, P, r, i, e - 1)
    BY <1>1, <1>3, HasPrefix DEF EndsAt
  <2> QED BY <1>1, <1>3, <2>1 DEF EndsAt
<1> QED BY <1>1, <1>2, <1>3 DEF EntryOk

\* A new frame of the stream changes nothing for what came before it.
LEMMA EntryEmit ==
    ASSUME NEW s, Len(s) \in Nat, NEW t, Len(t) = Len(s) + 1,
           \A i \in 1..Len(s) : t[i] = s[i], t[Len(t)] \notin Emits(s),
           t[Len(t)].kind \in {"record", "boundary"},
           NEW n \in Nat, NEW P, P \subseteq Emits(s), NEW q, NEW catching, NEW e \in Nat \ {0},
           \A m \in 1..e : EntryOk(s, n, P, q, catching, m)
    PROVE  EntryOk(t, n, P, q, catching, e)
<1> DEFINE last == Len(t)
<1>1. last \in Nat /\ \A i \in 1..last : i = last \/ i \in 1..Len(s)
  OBVIOUS
<1>2. t[last] \notin P /\ \A m \in 1..e : q[m] # t[last]
  BY DEF EntryOk
<1>3. EntryOk(s, n, P, q, catching, e)
  OBVIOUS
<1>4. \A k : \A i \in 1..Len(s) : Has(s, n, P, q, i, k) => Has(t, n, P, q, i, k)
  BY DEF Has
<1>5. InOrder(t, n, P, q, catching, e)
  <2> SUFFICES ASSUME NEW j \in 1..last, LiveAt(q, catching, e), q[e] = t[j],
                      NEW i \in 1..(j - 1)
               PROVE  Has(t, n, P, q, i, e - 1)
    BY DEF InOrder
  <2>1. j # last
    BY <1>2
  <2>2. j \in 1..Len(s) /\ i \in 1..Len(s) /\ q[e] = s[j]
    BY <1>1, <2>1
  <2>3. Has(s, n, P, q, i, e - 1)
    BY <1>3, <2>2 DEF EntryOk, InOrder
  <2> QED BY <1>4, <2>2, <2>3
<1>6. ASSUME NEW p \in n..Len(s), EndsAt(s, n, P, q, e, p)
      PROVE  p \in n..last /\ EndsAt(t, n, P, q, e, p)
  <2>1. p \in Nat /\ p <= Len(s) /\ p \in n..last
    BY <1>1, <1>6
  <2>2. IndexOf(t, p) = IndexOf(s, p) /\ BlockOf(t, p) = BlockOf(s, p)
    <3>1. \A i \in 1..p : t[i] = s[i]
      BY <2>1
    <3> QED BY <2>1, <3>1, CursorOfPrefix
  <2>3. ASSUME NEW i \in 1..last, t[i] \in P \/ \E m \in 1..(e - 1) : q[m] = t[i]
        PROVE  i <= p
    <3>1. i # last
      BY <1>2, <2>3
    <3>2. i \in 1..Len(s) /\ t[i] = s[i]
      BY <1>1, <3>1
    <3> QED BY <1>6, <2>3, <3>2 DEF EndsAt
  <2>4. \A i \in 1..p : Has(t, n, P, q, i, e - 1)
    <3> TAKE i \in 1..p
    <3>1. i \in 1..Len(s)
      BY <2>1
    <3> QED BY <1>4, <1>6, <3>1 DEF EndsAt
  <2>5. q[e].key = IndexOf(s, p) /\ q[e].block = BlockOf(s, p)
    BY <1>6 DEF EndsAt
  <2> QED BY <2>1, <2>2, <2>3, <2>4, <2>5 DEF EndsAt
<1>7. q[e].kind \in {"record", "boundary"} => q[e] \in Emits(t)
  BY <1>1, <1>3 DEF EntryOk, Emits
<1> QED BY <1>3, <1>5, <1>6, <1>7 DEF EntryOk

\* The reader applies a frame that it holds: the next one.
LEMMA HasDeliver ==
    ASSUME NEW s, Len(s) \in Nat, \A i, j \in 1..Len(s) : s[i] = s[j] => i = j,
           NEW n \in Nat, n + 1 \in 1..Len(s), NEW P, NEW q, NEW i \in 1..Len(s), NEW k,
           Has(s, n, P, q, i, k)
    PROVE  Has(s, n + 1, P \ {s[n + 1]}, q, i, k)
<1>1. CASE s[i] \in P
  BY <1>1 DEF Has
<1>2. CASE i <= n
  BY <1>2 DEF Has
<1> QED BY <1>1, <1>2 DEF Has

LEMMA EntryDeliver ==
    ASSUME NEW s, Len(s) \in Nat, \A i, j \in 1..Len(s) : s[i] = s[j] => i = j,
           NEW n \in Nat, n + 1 \in 1..Len(s), NEW P, s[n + 1] \in P,
           NEW q, NEW catching, NEW e \in Nat, EntryOk(s, n, P, q, catching, e)
    PROVE  EntryOk(s, n + 1, P \ {s[n + 1]}, q, catching, e)
<1> DEFINE Q == P \ {s[n + 1]}
<1>1. \A k : \A i \in 1..Len(s) : Has(s, n, P, q, i, k) => Has(s, n + 1, Q, q, i, k)
  BY HasDeliver
<1>2. InOrder(s, n + 1, Q, q, catching, e)
  <2> SUFFICES ASSUME NEW j \in 1..Len(s), LiveAt(q, catching, e), q[e] = s[j],
                      NEW i \in 1..(j - 1)
               PROVE  Has(s, n + 1, Q, q, i, e - 1)
    BY DEF InOrder
  <2>1. i \in 1..Len(s) /\ Has(s, n, P, q, i, e - 1)
    BY DEF EntryOk, InOrder
  <2> QED BY <1>1, <2>1
<1>3. ASSUME NEW p \in n..Len(s), EndsAt(s, n, P, q, e, p)
      PROVE  p \in (n + 1)..Len(s) /\ EndsAt(s, n + 1, Q, q, e, p)
  <2>1. n + 1 <= p /\ p \in Int
    BY <1>3 DEF EndsAt
  <2>2. \A i \in 1..p : Has(s, n + 1, Q, q, i, e - 1)
    <3> TAKE i \in 1..p
    <3>1. i \in 1..Len(s)
      BY <1>3
    <3> QED BY <1>1, <1>3, <3>1 DEF EndsAt
  <2>3. \A i \in 1..Len(s) : s[i] \in Q \/ (\E m \in 1..(e - 1) : q[m] = s[i]) => i <= p
    BY <1>3 DEF EndsAt
  <2>4. p \in (n + 1)..Len(s) /\ q[e].key = IndexOf(s, p) /\ q[e].block = BlockOf(s, p)
    BY <1>3, <2>1 DEF EndsAt
  <2> QED BY <2>2, <2>3, <2>4 DEF EndsAt
<1> QED BY <1>2, <1>3 DEF EntryOk

\* The reader takes the first entry, and holds it when it still needs it.
LEMMA HasTake ==
    ASSUME NEW s, NEW n \in Nat, NEW P, NEW Q, NEW q, NEW r, NEW k \in Nat \ {0},
           \A m \in 1..(k - 1) : r[m] = q[m + 1], NEW i,
           s[i] \in P \/ q[1] = s[i] => i <= n \/ s[i] \in Q,
           Has(s, n, P, q, i, k)
    PROVE  Has(s, n, Q, r, i, k - 1)
<1>1. ASSUME NEW m \in 1..k, q[m] = s[i] PROVE Has(s, n, Q, r, i, k - 1)
  <2>1. CASE m = 1
    BY <1>1, <2>1 DEF Has
  <2>2. CASE m # 1
    <3>1. m - 1 \in 1..(k - 1) /\ r[m - 1] = q[(m - 1) + 1] /\ (m - 1) + 1 = m
      BY <1>1, <2>2
    <3> QED BY <1>1, <3>1 DEF Has
  <2> QED BY <2>1, <2>2
<1> QED BY <1>1 DEF Has

LEMMA LiveTake ==
    ASSUME NEW q, NEW r, NEW e \in Nat \ {0}, NEW catching, NEW catching2,
           \A m \in 1..(e - 1) : r[m] = q[m + 1],
           ~catching2 => (~catching /\ q[1].kind # "start") \/ q[1].kind = "done",
           LiveAt(r, catching2, e)
    PROVE  LiveAt(q, catching, e + 1)
<1>0. ASSUME NEW k \in 1..e, NoStart(r, k, e - 1) PROVE NoStart(q, k + 1, e)
  <2> SUFFICES ASSUME NEW i \in (k + 1)..e PROVE q[i].kind # "start"
    BY DEF NoStart
  <2>1. i - 1 \in k..(e - 1) /\ i - 1 \in 1..e /\ (i - 1) + 1 = i
    BY <1>0
  <2> QED BY <1>0, <2>1 DEF NoStart
<1>1. ASSUME ~catching2, NoStart(r, 1, e - 1) PROVE LiveAt(q, catching, e + 1)
  <2>1. NoStart(q, 2, e)
    BY <1>0, <1>1
  <2>2. CASE q[1].kind = "done"
    BY <2>1, <2>2 DEF LiveAt
  <2>3. CASE ~catching /\ q[1].kind # "start"
    <3>1. NoStart(q, 1, e)
      BY <2>1, <2>3 DEF NoStart
    <3> QED BY <2>3, <3>1 DEF LiveAt
  <2> QED BY <1>1, <2>2, <2>3
<1>2. ASSUME NEW d \in 1..(e - 1), r[d].kind = "done", NoStart(r, d + 1, e - 1)
      PROVE  LiveAt(q, catching, e + 1)
  <2>1. d + 1 \in 1..e /\ q[d + 1].kind = "done"
    BY <1>2
  <2>2. NoStart(q, (d + 1) + 1, e)
    BY <1>0, <1>2, <2>1
  <2> QED BY <2>1, <2>2 DEF LiveAt
<1> QED BY <1>1, <1>2 DEF LiveAt

LEMMA EntryTake ==
    ASSUME NEW s, Len(s) \in Nat, NEW n \in Nat, NEW P, NEW Q, NEW q, NEW r, NEW e \in Nat \ {0},
           NEW catching, NEW catching2,
           \A m \in 1..e : r[m] = q[m + 1],
           \A i \in 1..Len(s) : s[i] \in P \/ q[1] = s[i] => i <= n \/ s[i] \in Q,
           \A i \in 1..Len(s) : s[i] \in Q => s[i] \in P \/ q[1] = s[i],
           ~catching2 => (~catching /\ q[1].kind # "start") \/ q[1].kind = "done",
           EntryOk(s, n, P, q, catching, e + 1)
    PROVE  EntryOk(s, n, Q, r, catching2, e)
<1>1. ASSUME NEW i \in 1..Len(s), Has(s, n, P, q, i, e) PROVE Has(s, n, Q, r, i, e - 1)
  <2>1. s[i] \in P \/ q[1] = s[i] => i <= n \/ s[i] \in Q
    BY <1>1
  <2>2. \A m \in 1..(e - 1) : r[m] = q[m + 1]
    OBVIOUS
  <2> QED BY <1>1, <2>1, <2>2, HasTake
<1>2. ASSUME LiveAt(r, catching2, e) PROVE LiveAt(q, catching, e + 1)
  <2>1. \A m \in 1..(e - 1) : r[m] = q[m + 1]
    OBVIOUS
  <2> QED BY <1>2, <2>1, LiveTake
<1>3. r[e] = q[e + 1]
  OBVIOUS
<1>4. InOrder(s, n, Q, r, catching2, e)
  <2> SUFFICES ASSUME NEW j \in 1..Len(s), LiveAt(r, catching2, e), r[e] = s[j],
                      NEW i \in 1..(j - 1)
               PROVE  Has(s, n, Q, r, i, e - 1)
    BY DEF InOrder
  <2>1. Has(s, n, P, q, i, (e + 1) - 1)
    <3>1. LiveAt(q, catching, e + 1) /\ q[e + 1] = s[j] /\ InOrder(s, n, P, q, catching, e + 1)
      BY <1>2, <1>3 DEF EntryOk
    <3> QED BY <3>1 DEF InOrder
  <2>2. i \in 1..Len(s) /\ (e + 1) - 1 = e
    OBVIOUS
  <2> QED BY <1>1, <2>1, <2>2
<1>5. ASSUME NEW p \in n..Len(s), EndsAt(s, n, P, q, e + 1, p) PROVE EndsAt(s, n, Q, r, e, p)
  <2>1. ASSUME NEW i \in 1..Len(s), s[i] \in Q \/ \E m \in 1..(e - 1) : r[m] = s[i]
        PROVE  i <= p
    <3>1. s[i] \in P \/ \E m \in 1..((e + 1) - 1) : q[m] = s[i]
      <4>1. CASE s[i] \in Q
        BY <4>1
      <4>2. ASSUME NEW m \in 1..(e - 1), r[m] = s[i] PROVE \E k \in 1..((e + 1) - 1) : q[k] = s[i]
        <5>1. m + 1 \in 1..((e + 1) - 1) /\ q[m + 1] = s[i]
          BY <4>2
        <5> QED BY <5>1
      <4> QED BY <2>1, <4>1, <4>2
    <3> QED BY <1>5, <3>1 DEF EndsAt
  <2>2. \A i \in 1..p : Has(s, n, Q, r, i, e - 1)
    <3> TAKE i \in 1..p
    <3>0. p \in Int /\ p <= Len(s)
      BY <1>5
    <3>1. i \in 1..Len(s) /\ (e + 1) - 1 = e
      BY <3>0
    <3>2. Has(s, n, P, q, i, (e + 1) - 1)
      BY <1>5 DEF EndsAt
    <3> QED BY <1>1, <3>1, <3>2
  <2> QED BY <1>3, <1>5, <2>1, <2>2 DEF EndsAt
<1> QED BY <1>3, <1>4, <1>5 DEF EntryOk

\* Only the end of a replay makes the reader live again.
LEMMA LiveSkip ==
    ASSUME NEW q, NEW r, NEW catching, NEW k \in Nat, NEW e \in Nat, e > k,
           \A m \in 1..k : r[m] = q[m], \A m \in (k + 1)..(e - 1) : r[m].kind # "done",
           LiveAt(r, catching, e)
    PROVE  LiveAt(q, catching, k + 1)
<1>0. (k + 1) - 1 = k
  OBVIOUS
<1>1. ASSUME NEW d \in 1..(k + 1), NoStart(r, d, e - 1) PROVE NoStart(q, d, k)
  <2> SUFFICES ASSUME NEW i \in d..k PROVE q[i].kind # "start"
    BY DEF NoStart
  <2>1. i \in d..(e - 1) /\ i \in 1..k
    BY <1>1
  <2> QED BY <1>1, <2>1 DEF NoStart
<1>2. ASSUME ~catching, NoStart(r, 1, e - 1) PROVE LiveAt(q, catching, k + 1)
  <2>1. NoStart(q, 1, k)
    BY <1>1, <1>2
  <2> QED BY <1>0, <1>2, <2>1 DEF LiveAt
<1>3. ASSUME NEW d \in 1..(e - 1), r[d].kind = "done", NoStart(r, d + 1, e - 1)
      PROVE  LiveAt(q, catching, k + 1)
  <2>1. d \in 1..k
    BY <1>3
  <2>2. NoStart(q, d + 1, k) /\ q[d].kind = "done"
    BY <1>1, <1>3, <2>1
  <2> QED BY <1>0, <2>1, <2>2 DEF LiveAt
<1> QED BY <1>2, <1>3 DEF LiveAt

LEMMA HasMore ==
    ASSUME NEW s, NEW n, NEW P, NEW q, NEW r, NEW i, NEW k \in Nat, NEW l \in Nat, k <= l,
           \A m \in 1..k : r[m] = q[m], Has(s, n, P, q, i, k)
    PROVE  Has(s, n, P, r, i, l)
<1>1. \A m \in 1..k : m \in 1..l
  OBVIOUS
<1> QED BY <1>1 DEF Has

\* A frame is emitted and offered to a session.
LEMMA QueueEmit ==
    ASSUME NEW s, Len(s) \in Nat, NEW t, Len(t) = Len(s) + 1,
           \A i \in 1..Len(s) : t[i] = s[i], t[Len(t)] \notin Emits(s),
           t[Len(t)].kind \in {"record", "boundary"},
           NEW n \in Nat, NEW P, P \subseteq Emits(s), NEW catching, NEW q, Len(q) \in Nat,
           \A e \in 1..Len(q) : EntryOk(s, n, P, q, catching, e),
           LiveAt(q, catching, Len(q) + 1) =>
               \A i \in 1..Len(s) : Has(s, n, P, q, i, Len(q)),
           NEW r, \A m \in 1..Len(q) : r[m] = q[m], r[Len(q) + 1] = t[Len(t)]
    PROVE  /\ \A e \in 1..(Len(q) + 1) : EntryOk(t, n, P, r, catching, e)
           /\ LiveAt(r, catching, Len(q) + 2) =>
                  \A i \in 1..Len(t) : Has(t, n, P, r, i, Len(q) + 1)
<1> DEFINE k == Len(q)
           last == Len(t)
<1>0. k \in Nat /\ k + 1 \in Nat /\ last \in Nat /\ \A i \in 1..last : i = last \/ i \in 1..Len(s)
  OBVIOUS
<1>1. ASSUME NEW e \in 1..k PROVE EntryOk(t, n, P, r, catching, e)
  <2>1. e \in Nat \ {0} /\ \A m \in 1..e : m \in 1..k
    BY <1>0, <1>1
  <2>2. \A m \in 1..e : EntryOk(s, n, P, q, catching, m)
    BY <2>1
  <2>3. EntryOk(t, n, P, q, catching, e)
    BY <2>1, <2>2, EntryEmit
  <2>4. \A m \in 1..e : q[m] = r[m]
    BY <2>1
  <2> QED BY <2>1, <2>3, <2>4, EntryPrefix
<1>2. ASSUME LiveAt(q, catching, k + 1), NEW i \in 1..Len(s), NEW l \in Nat, k <= l
      PROVE  Has(t, n, P, r, i, l)
  <2>1. Has(s, n, P, q, i, k)
    BY <1>2
  <2>2. Has(s, n, P, r, i, l)
    BY <1>0, <1>2, <2>1, HasMore
  <2> QED BY <1>2, <2>2 DEF Has
<1>3. EntryOk(t, n, P, r, catching, k + 1)
  <2> DEFINE f == t[last]
  <2>1. r[k + 1] = f /\ f \in Emits(t)
    BY <1>0 DEF Emits
  <2>2. InOrder(t, n, P, r, catching, k + 1)
    <3> SUFFICES ASSUME NEW j \in 1..last, LiveAt(r, catching, k + 1), r[k + 1] = t[j],
                        NEW i \in 1..(j - 1)
                 PROVE  Has(t, n, P, r, i, (k + 1) - 1)
      BY DEF InOrder
    <3>1. (k + 1) - 1 = k /\ k <= k
      BY <1>0
    <3>2. LiveAt(q, catching, k + 1)
      <4>1. \A m \in 1..((k + 1) - 1) : r[m] = q[m]
        BY <3>1
      <4> QED BY <1>0, <4>1, LivePrefix
    <3>3. i \in 1..Len(s)
      BY <1>0
    <3> QED BY <1>0, <1>2, <3>1, <3>2, <3>3
  <2>3. f.kind \in {"record", "boundary"}
    OBVIOUS
  <2> HIDE DEF f
  <2> QED BY <2>1, <2>2, <2>3 DEF EntryOk
<1>4. ASSUME LiveAt(r, catching, k + 2), NEW i \in 1..last PROVE Has(t, n, P, r, i, k + 1)
  <2>1. LiveAt(q, catching, k + 1)
    <3>1. \A m \in (k + 1)..((k + 2) - 1) : r[m].kind # "done"
      BY <1>0
    <3>2. k + 2 \in Nat /\ k + 2 > k
      BY <1>0
    <3> QED BY <1>0, <1>4, <3>1, <3>2, LiveSkip
  <2>2. CASE i = last
    <3>1. k + 1 \in 1..(k + 1)
      BY <1>0
    <3> QED BY <2>2, <3>1 DEF Has
  <2>3. CASE i \in 1..Len(s)
    BY <1>0, <1>2, <2>1, <2>3
  <2> QED BY <1>0, <1>4, <2>2, <2>3
<1>5. \A e \in 1..(k + 1) : e = k + 1 \/ e \in 1..k
  BY <1>0
<1> QED BY <1>1, <1>3, <1>4, <1>5

\* The queue r is q with a replay behind it: its frames and its end.
Replayed(s, n, q, r, l) ==
    /\ \A m \in 1..Len(q) : r[m] = q[m]
    /\ \A m \in (Len(q) + 1)..(l - 1) : r[m] \in Emits(s)
    /\ \A i \in (n + 1)..Len(s) : \E m \in (Len(q) + 1)..(l - 1) : r[m] = s[i]
    /\ r[l].kind = "done"
    /\ r[l].key = IndexOf(s, Len(s)) /\ r[l].block = BlockOf(s, Len(s))

LEMMA QueueReplay ==
    ASSUME NEW s, Len(s) \in Nat, \A j \in 1..Len(s) : s[j].kind \in {"record", "boundary"},
           NEW n \in 0..Len(s), NEW P, P \subseteq Emits(s), NEW catching, NEW q, Len(q) \in Nat,
           \A e \in 1..Len(q) : EntryOk(s, n, P, q, catching, e),
           LiveAt(q, catching, Len(q) + 1) =>
               \A i \in 1..Len(s) : Has(s, n, P, q, i, Len(q)),
           NEW l \in Nat, l > Len(q), NEW r, Replayed(s, n, q, r, l)
    PROVE  /\ \A e \in 1..l : EntryOk(s, n, P, r, catching, e)
           /\ \A i \in 1..Len(s) : Has(s, n, P, r, i, l)
<1> DEFINE k == Len(q)
<1>0. k \in Nat /\ n \in Nat /\ l - 1 \in Nat /\ k <= l - 1
  OBVIOUS
<1> USE DEF Replayed
<1>1. ASSUME NEW e \in 1..k PROVE EntryOk(s, n, P, r, catching, e)
  <2>1. e \in Nat \ {0} /\ \A m \in 1..e : q[m] = r[m]
    BY <1>0, <1>1
  <2> QED BY <1>1, <2>1, EntryPrefix
<1>2. \A m \in (k + 1)..(l - 1) : r[m].kind \in {"record", "boundary"}
  BY DEF Emits
<1>3. ASSUME NEW e \in (k + 1)..(l - 1) PROVE EntryOk(s, n, P, r, catching, e)
  <2>1. e \in Nat /\ e > k /\ e - 1 \in Nat /\ k <= e - 1
    BY <1>0, <1>3
  <2>2. InOrder(s, n, P, r, catching, e)
    <3> SUFFICES ASSUME NEW j \in 1..Len(s), LiveAt(r, catching, e), NEW i \in 1..(j - 1)
                 PROVE  Has(s, n, P, r, i, e - 1)
      BY DEF InOrder
    <3>1. \A m \in (k + 1)..(e - 1) : r[m].kind # "done"
      <4> TAKE m \in (k + 1)..(e - 1)
      <4>1. m \in (k + 1)..(l - 1)
        BY <1>0, <1>3, <2>1
      <4> QED BY <1>2, <4>1
    <3>2. LiveAt(q, catching, k + 1)
      BY <1>0, <2>1, <3>1, LiveSkip
    <3>3. i \in 1..Len(s)
      BY <1>0
    <3>4. Has(s, n, P, q, i, k)
      BY <3>2, <3>3
    <3> QED BY <1>0, <2>1, <3>4, HasMore
  <2> QED BY <1>2, <1>3, <2>2 DEF EntryOk
<1>4. ASSUME NEW i \in 1..Len(s) PROVE Has(s, n, P, r, i, l - 1)
  <2>1. CASE i <= n
    BY <2>1 DEF Has
  <2>2. CASE i > n
    <3>1. i \in (n + 1)..Len(s)
      BY <1>0, <1>4, <2>2
    <3>2. PICK m \in (k + 1)..(l - 1) : r[m] = s[i]
      BY <3>1
    <3>3. m \in 1..(l - 1)
      BY <1>0
    <3> QED BY <3>2, <3>3 DEF Has
  <2> QED BY <1>0, <1>4, <2>1, <2>2
<1>5. EntryOk(s, n, P, r, catching, l)
  <2>1. InOrder(s, n, P, r, catching, l)
    BY DEF InOrder
  <2>2. \E p \in n..Len(s) : EndsAt(s, n, P, r, l, p)
    <3>1. Len(s) \in n..Len(s) /\ \A i \in 1..Len(s) : i <= Len(s)
      BY <1>0
    <3>2. EndsAt(s, n, P, r, l, Len(s))
      BY <1>4, <3>1 DEF EndsAt
    <3> QED BY <3>1, <3>2
  <2> QED BY <2>1, <2>2 DEF EntryOk
<1>6. \A i \in 1..Len(s) : Has(s, n, P, r, i, l)
  BY <1>0, <1>4, HasMore, SMTT(30)
<1>7. \A e \in 1..l : e \in 1..k \/ e \in (k + 1)..(l - 1) \/ e = l
  BY <1>0
<1> QED BY <1>1, <1>3, <1>5, <1>6, <1>7

\* Any other control entry at the end of the queue.
LEMMA QueueControl ==
    ASSUME NEW s, Len(s) \in Nat, \A j \in 1..Len(s) : s[j].kind \in {"record", "boundary"},
           NEW n \in Nat, NEW P, NEW catching, NEW q, Len(q) \in Nat,
           \A e \in 1..Len(q) : EntryOk(s, n, P, q, catching, e),
           NEW r, \A m \in 1..Len(q) : r[m] = q[m],
           r[Len(q) + 1].kind \in {"start", "unavailable"}
    PROVE  /\ \A e \in 1..(Len(q) + 1) : EntryOk(s, n, P, r, catching, e)
           /\ LiveAt(r, catching, Len(q) + 2) =>
                  /\ r[Len(q) + 1].kind # "start"
                  /\ LiveAt(q, catching, Len(q) + 1)
<1> DEFINE k == Len(q)
<1>0. k \in Nat
  OBVIOUS
<1>1. ASSUME NEW e \in 1..k PROVE EntryOk(s, n, P, r, catching, e)
  <2>1. e \in Nat \ {0} /\ \A m \in 1..e : q[m] = r[m]
    BY <1>0, <1>1
  <2> QED BY <1>1, <2>1, EntryPrefix
<1>2. EntryOk(s, n, P, r, catching, k + 1)
  <2>1. InOrder(s, n, P, r, catching, k + 1)
    BY DEF InOrder
  <2> QED BY <2>1 DEF EntryOk
<1>3. ASSUME LiveAt(r, catching, k + 2)
      PROVE  r[k + 1].kind # "start" /\ LiveAt(q, catching, k + 1)
  <2>1. \A m \in (k + 1)..((k + 2) - 1) : m = k + 1
    BY <1>0
  <2>2. LiveAt(q, catching, k + 1)
    <3>1. \A m \in (k + 1)..((k + 2) - 1) : r[m].kind # "done"
      BY <2>1
    <3>2. k + 2 \in Nat /\ k + 2 > k
      BY <1>0
    <3> QED BY <1>0, <1>3, <3>1, <3>2, LiveSkip
  <2>3. r[k + 1].kind # "start"
    <3>1. k + 1 \in 1..((k + 2) - 1)
      BY <1>0
    <3>2. \A d \in 1..((k + 2) - 1) : d = k + 1 \/ k + 1 \in (d + 1)..((k + 2) - 1)
      BY <1>0
    <3> QED BY <1>3, <3>1, <3>2 DEF LiveAt, NoStart
  <2> QED BY <2>2, <2>3
<1>4. \A e \in 1..(k + 1) : e = k + 1 \/ e \in 1..k
  BY <1>0
<1> QED BY <1>1, <1>2, <1>3, <1>4

-----------------------------------------------------------------------------
(* The invariant of the reader *)

CursorInv ==
    /\ Len(delivered) <= Len(stream)
    /\ delivered = SubSeq(stream, 1, Len(delivered))
    /\ nextIndex = IndexOf(stream, Len(delivered))
    /\ nextBlock = BlockOf(stream, Len(delivered))

ChannelInv ==
    /\ HeldOk(stream, Len(delivered), pendingRecords, pendingBoundaries, catchingUp)
    /\ \A e \in 1..Len(Queue) : EntryOk(stream, Len(delivered), Pending, Queue, catchingUp, e)

\* A live session that the reader takes in live mode misses nothing.
OpenInv ==
    connected /\ alive /\ LiveAt(Queue, catchingUp, Len(Queue) + 1) =>
        /\ consumer
        /\ \A i \in 1..Len(stream) : Has(stream, Len(delivered), Pending, Queue, i, Len(Queue))

\* A request never names a point past the reader, also when it is torn.
RequestInv ==
    /\ \A k \in 1..Len(requests) : requests[k][1] <= nextIndex /\ requests[k][2] <= nextBlock
    /\ loadedIndex <= nextIndex

SessionInv ==
    /\ alive => connected
    /\ ~alive => link = <<>>

ReaderInv ==
    CursorInv /\ ChannelInv /\ OpenInv /\ RequestInv /\ SessionInv /\ NeverMisaligned

Entries == Frames \cup Controls \cup {SessionStart}

LEMMA QueueFacts ==
    ASSUME Types
    PROVE  /\ inbox \in Seq(Entries) /\ link \in Seq(Entries) /\ Queue \in Seq(Entries)
           /\ Len(Queue) = Len(inbox) + Len(link)
           /\ \A m \in 1..Len(inbox) : Queue[m] = inbox[m]
           /\ \A m \in 1..Len(link) : Queue[Len(inbox) + m] = link[m]
           /\ Len(inbox) \in Nat /\ Len(link) \in Nat /\ Len(Queue) \in Nat
<1>1. inbox \in Seq(Entries) /\ link \in Seq(Entries)
  BY DEF Types, SessionTypes, ReaderTypes, Entries
<1> QED BY <1>1 DEF Queue

\* What the invariants say of the cursor, in one place.
LEMMA ReaderFacts ==
    ASSUME ServiceInv, Types, CursorInv
    PROVE  /\ Len(delivered) \in Nat /\ Len(delivered) \in 0..Len(stream)
           /\ nextIndex = IndexOf(stream, Len(delivered)) /\ nextIndex \in Nat
           /\ nextBlock = BlockOf(stream, Len(delivered)) /\ nextBlock \in Nat
<1>1. delivered \in Seq(Frames) /\ nextIndex \in Nat /\ nextBlock \in Nat
  BY DEF Types, ReaderTypes
<1> QED BY <1>1, ServiceFacts DEF CursorInv

LEMMA FramesDistinct ==
    ASSUME ServiceInv
    PROVE  \A i, j \in 1..Len(stream) : stream[i] = stream[j] => i = j
<1>1. ASSUME NEW i \in 1..Len(stream), NEW j \in 1..Len(stream), i < j PROVE stream[i] # stream[j]
  <2>1. i \in 0..Len(stream) /\ i \in Int /\ j \in Int
    BY ServiceFacts
  <2>2. /\ stream[j].kind = "record" => stream[j].key >= IndexOf(stream, i)
        /\ stream[j].kind = "boundary" => stream[j].key >= BlockOf(stream, i)
        /\ stream[j].kind \in {"record", "boundary"}
    BY <1>1, <2>1, FrameSides
  <2>3. /\ stream[i].kind = "record" => ~(stream[i].key >= IndexOf(stream, i))
        /\ stream[i].kind = "boundary" => ~(stream[i].key >= BlockOf(stream, i))
    BY <2>1, FrameSides
  <2> QED BY <2>2, <2>3
<1>2. \A i, j \in 1..Len(stream) : i < j \/ j < i \/ i = j
  OBVIOUS
<1> QED BY <1>1, <1>2

\* A replay from a cursor at or below the reader, torn or not, brings every frame
\* that the reader does not have.
LEMMA ReplayIsWhole ==
    ASSUME ServiceInv, NEW n \in 0..Len(stream), NEW index \in Nat, NEW block \in Nat,
           index <= IndexOf(stream, n), block <= BlockOf(stream, n),
           ReplayVerdict(index, block) = "SERVE"
    PROVE  /\ \A k \in 1..Len(Wanted(index, block)) : Wanted(index, block)[k] \in Emits(stream)
           /\ \A i \in (n + 1)..Len(stream) :
                 \E k \in 1..Len(Wanted(index, block)) : Wanted(index, block)[k] = stream[i]
<1> DEFINE P == WantedPlaces(index, block)
           w == Wanted(index, block)
<1>1. /\ Len(stream) \in Nat /\ evictions \in 0..Len(stream) /\ evictions \in Nat /\ n \in Nat
      /\ IndexOf(stream, n) \in Nat /\ BlockOf(stream, n) \in Nat
      /\ firstRetainedIndex \in Nat /\ firstRetainedBlock \in Nat
      /\ firstRetainedBlock = BlockOf(stream, evictions)
  <2>1. IndexOf(stream, evictions) \in Nat
    BY ServiceFacts
  <2> QED BY <2>1, ServiceFacts
<1>2. index >= firstRetainedIndex /\ block >= firstRetainedBlock
  BY <1>1 DEF ReplayVerdict
<1>3. P \in SUBSET (1..Len(stream))
  BY <1>1 DEF WantedPlaces
<1>4. ASSUME NEW i \in (n + 1)..Len(stream) PROVE i \in P
  <2>1. i \in 1..Len(stream) /\ i > n /\ i \in Int
    BY <1>1, <1>4
  <2>2. /\ stream[i].key \in Nat /\ stream[i].kind \in {"record", "boundary"}
        /\ stream[i].kind = "record" => stream[i].key >= IndexOf(stream, n)
        /\ stream[i].kind = "boundary" => stream[i].key >= BlockOf(stream, n)
    BY <2>1, FrameSides
  <2>3. stream[i].key >= IF stream[i].kind = "boundary" THEN block ELSE index
    BY <1>1, <2>2
  <2>4. i > evictions
    <3> SUFFICES ASSUME i <= evictions PROVE FALSE
      BY <1>1, <2>1
    <3>1. CASE stream[i].kind = "record"
      <4>1. stream[i].key < firstRetainedIndex
        BY <1>1, <2>1, <3>1, ServiceFacts
      <4> QED BY <1>1, <1>2, <2>2, <2>3, <3>1, <4>1
    <3>2. CASE stream[i].kind = "boundary"
      <4>1. ~(stream[i].key >= BlockOf(stream, evictions))
        BY <1>1, <2>1, <3>2, FrameSides
      <4> QED BY <1>1, <1>2, <2>2, <2>3, <3>2, <4>1
    <3> QED BY <2>2, <3>1, <3>2
  <2> QED BY <1>1, <2>1, <2>3, <2>4 DEF WantedPlaces
<1> HIDE DEF P
<1>5. /\ Cardinality(P) \in Nat
      /\ Picked(stream, P) = [k \in 1..Cardinality(P) |-> Picked(stream, P)[k]]
      /\ \A k \in 1..Cardinality(P) : \E i \in P : Picked(stream, P)[k] = stream[i]
      /\ \A i \in P : \E k \in 1..Cardinality(P) : Picked(stream, P)[k] = stream[i]
  BY <1>1, <1>3, PickedFrames
<1>6. w = Picked(stream, P)
  BY WantedIsPicked DEF P
<1>7. Len(w) = Cardinality(P)
  <2>1. w \in Seq(Frames)
    BY WantedTyped
  <2>2. DOMAIN w = 1..Len(w) /\ Len(w) \in Nat
    BY <2>1
  <2>3. DOMAIN w = 1..Cardinality(P)
    BY <1>5, <1>6
  <2> HIDE DEF w
  <2> QED BY <1>5, <2>2, <2>3
<1> HIDE DEF w
<1>8. \A k \in 1..Len(w) : w[k] \in Emits(stream)
  BY <1>3, <1>5, <1>6, <1>7 DEF Emits
<1>9. \A i \in (n + 1)..Len(stream) : \E k \in 1..Len(w) : w[k] = stream[i]
  BY <1>4, <1>5, <1>6, <1>7
<1> QED BY <1>8, <1>9 DEF w

-----------------------------------------------------------------------------
(* The steps of the service and of the session *)

\* A step that leaves the stream, the reader and its queue alone.
LEMMA QuietStep ==
    ASSUME ReaderInv, UNCHANGED <<stream, delivered, nextIndex, nextBlock>>,
           UNCHANGED <<pendingRecords, pendingBoundaries, catchingUp, failed>>, Queue' = Queue,
           RequestInv', SessionInv',
           connected' /\ alive' => connected /\ alive /\ (consumer => consumer')
    PROVE  ReaderInv'
<1>1. CursorInv'
  BY DEF ReaderInv, CursorInv
<1>2. ChannelInv'
  BY DEF ReaderInv, ChannelInv, Pending
<1>3. OpenInv'
  BY DEF ReaderInv, OpenInv, Pending
<1>4. NeverMisaligned'
  BY DEF ReaderInv, NeverMisaligned
<1> QED BY <1>1, <1>2, <1>3, <1>4 DEF ReaderInv

LEMMA HeldEmit ==
    ASSUME NEW s, Len(s) \in Nat, NEW t, Len(t) = Len(s) + 1,
           \A i \in 1..Len(s) : t[i] = s[i], t[Len(t)] \notin Emits(s),
           NEW n, NEW R, NEW B, NEW catching, HeldOk(s, n, R, B, catching)
    PROVE  HeldOk(t, n, R, B, catching)
<1>1. \A i \in 1..Len(t) : i = Len(t) \/ i \in 1..Len(s)
  OBVIOUS
<1>2. Emits(s) \subseteq Emits(t)
  BY <1>1 DEF Emits
<1>3. ASSUME ~catching, NEW j \in 1..Len(t), t[j] \in R, NEW i \in 1..(j - 1)
      PROVE  i <= n \/ t[i] \in R \cup B
  <2>1. j # Len(t)
    BY <1>3 DEF HeldOk
  <2>2. j \in 1..Len(s)
    BY <1>1, <1>3, <2>1
  <2>3. i \in 1..Len(s) /\ t[i] = s[i] /\ t[j] = s[j]
    BY <1>3, <2>2
  <2> QED BY <1>3, <2>2, <2>3 DEF HeldOk
<1> QED BY <1>2, <1>3 DEF HeldOk

LEMMA EmitKeepsReader ==
    ASSUME ServiceInv, Types, ReaderInv, NEW f \in Frames, stream' = Append(stream, f),
           \/ f.kind = "record" /\ f.key = canonicalCount
           \/ f.kind = "boundary" /\ f.key = blockNumber,
           link' = Offered(<<f>>) \/ (~consumer /\ link' = link),
           UNCHANGED <<connected, alive, consumer, requests, loadedIndex, readerVars>>
    PROVE  ReaderInv' /\ Reader!Write
<1> DEFINE n == Len(delivered)
           s == stream
           t == stream'
           q == Queue
<1>1. /\ s \in Seq(Frames) /\ Len(s) \in Nat /\ Len(t) = Len(s) + 1 /\ t[Len(t)] = f
      /\ \A i \in 1..Len(s) : t[i] = s[i]
  BY ServiceFacts
<1>2. n \in Nat /\ n \in 0..Len(s) /\ nextIndex = IndexOf(s, n) /\ nextBlock = BlockOf(s, n)
  BY ReaderFacts DEF ReaderInv
<1>3. f \notin Emits(s)
  <2> SUFFICES ASSUME NEW i \in 1..Len(s), s[i] = f PROVE FALSE
    BY DEF Emits
  <2>1. Len(s) \in 0..Len(s) /\ ~(i > Len(s)) /\ f.key >= f.key
    <3>1. f.key \in Nat
      BY ServiceFacts
    <3> QED BY <1>1, <3>1
  <2> QED BY <2>1, FrameSides, ServiceFacts
<1>4. UNCHANGED <<delivered, nextIndex, nextBlock, inbox>>
      /\ UNCHANGED <<pendingRecords, pendingBoundaries, catchingUp, failed>>
  BY DEF readerVars, cursorVars, pendingVars
<1>5. f.kind \in {"record", "boundary"} /\ t[Len(t)].kind \in {"record", "boundary"}
  BY <1>1
<1>6. CursorInv'
  <2>1. \A i \in 1..n : t[i] = s[i]
    BY <1>1, <1>2
  <2>2. IndexOf(t, n) = IndexOf(s, n) /\ BlockOf(t, n) = BlockOf(s, n)
    BY <1>2, <2>1, CursorOfPrefix
  <2>3. SubSeq(t, 1, n) = SubSeq(s, 1, n)
    BY <1>1, <1>2
  <2>4. delivered = SubSeq(s, 1, n)
    BY DEF ReaderInv, CursorInv
  <2>5. n <= Len(t)
    BY <1>1, <1>2
  <2> QED BY <1>2, <1>4, <2>2, <2>3, <2>4, <2>5 DEF CursorInv
<1>7. HeldOk(t, n, pendingRecords, pendingBoundaries, catchingUp)
  BY <1>1, <1>3, HeldEmit DEF ReaderInv, ChannelInv
<1>8. Pending \subseteq Emits(s)
  BY DEF ReaderInv, ChannelInv, HeldOk, Pending
<1>9. \A e \in 1..Len(q) : EntryOk(s, n, Pending, q, catchingUp, e)
  BY DEF ReaderInv, ChannelInv
<1>10. RequestInv' /\ SessionInv' /\ NeverMisaligned'
  <2>1. RequestInv' /\ NeverMisaligned'
    BY <1>4 DEF ReaderInv, RequestInv, NeverMisaligned
  <2>2. SessionInv'
    BY DEF ReaderInv, SessionInv, Offered
  <2> QED BY <2>1, <2>2
<1>11. Pending' = Pending
  BY <1>4 DEF Pending
<1>12. ChannelInv' /\ OpenInv'
  <2>1. CASE link' = link /\ (connected /\ alive => ~consumer)
    <3>1. Queue' = Queue
      BY <1>4, <2>1 DEF Queue
    <3>2. ASSUME NEW e \in 1..Len(q) PROVE EntryOk(t, n, Pending, q, catchingUp, e)
      <4>1. e \in Nat \ {0} /\ \A m \in 1..e : m \in 1..Len(q)
        BY <3>2, QueueFacts
      <4>2. \A m \in 1..e : EntryOk(s, n, Pending, q, catchingUp, m)
        BY <1>9, <4>1
      <4>3. t[Len(t)] \notin Emits(s)
        BY <1>1, <1>3
      <4> QED BY <1>1, <1>2, <1>5, <1>8, <4>1, <4>2, <4>3, EntryEmit
    <3>3. ChannelInv'
      BY <1>4, <1>7, <1>11, <3>1, <3>2 DEF ChannelInv
    <3>4. OpenInv'
      BY <1>4, <2>1, <3>1 DEF ReaderInv, OpenInv
    <3> QED BY <3>3, <3>4
  <2>2. CASE connected /\ alive /\ link' = link \o <<f>>
    <3>1. f \in Entries
      BY DEF Entries
    <3>2. /\ Queue' \in Seq(Entries) /\ Len(Queue') = Len(q) + 1 /\ Queue'[Len(q) + 1] = f
          /\ \A m \in 1..Len(q) : Queue'[m] = q[m]
      BY <1>4, <2>2, <3>1, QueueFacts DEF Queue
    <3>3. LiveAt(q, catchingUp, Len(q) + 1) =>
              /\ consumer
              /\ \A i \in 1..Len(s) : Has(s, n, Pending, q, i, Len(q))
      BY <2>2 DEF ReaderInv, OpenInv
    <3>4. Len(q) \in Nat
      BY QueueFacts
    <3>5. /\ \A e \in 1..(Len(q) + 1) : EntryOk(t, n, Pending, Queue', catchingUp, e)
          /\ LiveAt(Queue', catchingUp, Len(q) + 2) =>
                 \A i \in 1..Len(t) : Has(t, n, Pending, Queue', i, Len(q) + 1)
      <4>1. t[Len(t)] \notin Emits(s) /\ Queue'[Len(q) + 1] = t[Len(t)]
        BY <1>1, <1>3, <3>2
      <4> HIDE DEF q, s, t
      <4> QED BY <1>1, <1>2, <1>5, <1>8, <1>9, <3>2, <3>3, <3>4, <4>1, QueueEmit
    <3>6. ChannelInv'
      BY <1>4, <1>7, <1>11, <3>2, <3>5 DEF ChannelInv
    <3>7. OpenInv'
      <4>1. (Len(q) + 1) + 1 = Len(q) + 2
        BY <3>4
      <4>2. LiveAt(Queue', catchingUp, Len(q) + 2) => consumer
        <5>1. \A m \in (Len(q) + 1)..((Len(q) + 2) - 1) : Queue'[m].kind # "done"
          BY <1>5, <3>2, <3>4
        <5>2. Len(q) + 2 \in Nat /\ Len(q) + 2 > Len(q)
          BY <3>4
        <5>3. LiveAt(Queue', catchingUp, Len(q) + 2) => LiveAt(q, catchingUp, Len(q) + 1)
          BY <3>2, <3>4, <5>1, <5>2, LiveSkip
        <5> QED BY <3>3, <5>3
      <4> QED BY <1>4, <1>11, <3>2, <3>5, <4>1, <4>2 DEF OpenInv
    <3> QED BY <3>6, <3>7
  <2> QED BY <2>1, <2>2 DEF Offered
<1>13. Reader!Write
  <2>1. SubSeq(t, 1, Len(s)) = s
    BY <1>1
  <2> QED BY <1>1, <1>4, <2>1 DEF Reader!Write
<1> QED BY <1>6, <1>10, <1>12, <1>13 DEF ReaderInv

LEMMA ConcatAssociative ==
    ASSUME NEW E, NEW a \in Seq(E), NEW b \in Seq(E), NEW c \in Seq(E)
    PROVE  a \o (b \o c) = (a \o b) \o c
OBVIOUS

LEMMA ReplayKeepsReader ==
    ASSUME ServiceInv, Types, ReaderInv, HandleReplayRequest
    PROVE  ReaderInv'
<1> DEFINE n == Len(delivered)
           index == Head(requests)[1]
           block == Head(requests)[2]
           k == Len(Queue)
<1>1. /\ requests # <<>> /\ requests' = Tail(requests) /\ consumer' = TRUE
      /\ link' = Offered(ReplayAnswer(index, block))
      /\ UNCHANGED <<stream, connected, alive, loadedIndex, delivered, nextIndex, nextBlock, inbox>>
      /\ UNCHANGED <<pendingRecords, pendingBoundaries, catchingUp, failed>>
  BY DEF HandleReplayRequest, serviceVars, readerVars, cursorVars, pendingVars
<1>2. n \in Nat /\ n \in 0..Len(stream) /\ nextIndex = IndexOf(stream, n)
      /\ nextBlock = BlockOf(stream, n) /\ nextIndex \in Nat /\ nextBlock \in Nat
  BY ReaderFacts DEF ReaderInv
<1>3. /\ requests \in Seq(Nat \X Nat) /\ Len(requests) \in Nat /\ 1 \in 1..Len(requests)
      /\ Head(requests) = requests[1]
  BY <1>1 DEF Types, SessionTypes
<1>4. index \in Nat /\ block \in Nat /\ index <= nextIndex /\ block <= nextBlock
  BY <1>3 DEF ReaderInv, RequestInv
<1>5. RequestInv'
  <2>1. \A j \in 1..Len(Tail(requests)) : Tail(requests)[j] = requests[j + 1]
                                          /\ j + 1 \in 1..Len(requests)
    BY <1>1, <1>3
  <2> QED BY <1>1, <2>1 DEF ReaderInv, RequestInv
<1>6. SessionInv'
  BY <1>1 DEF ReaderInv, SessionInv, Offered
<1>7. Len(stream) \in Nat /\ \A j \in 1..Len(stream) : stream[j].kind \in {"record", "boundary"}
  BY FrameKinds, ServiceFacts
<1>8. Pending \subseteq Emits(stream) /\ Pending' = Pending
  BY <1>1 DEF ReaderInv, ChannelInv, HeldOk, Pending
<1>9. \A e \in 1..k : EntryOk(stream, n, Pending, Queue, catchingUp, e)
  BY DEF ReaderInv, ChannelInv
<1>10. k \in Nat
  BY QueueFacts
<1>11. CASE ~(connected /\ alive)
  <2>1. Queue' = Queue
    BY <1>1, <1>11 DEF Queue, Offered
  <2> QED BY <1>1, <1>5, <1>6, <1>11, <2>1, QuietStep
<1>12. CASE connected /\ alive
  <2> DEFINE w == ReplayAnswer(index, block)
  <2>1. w \in Seq(Entries)
    <3>1. w \in Seq(Frames \cup Controls)
      BY AnswerTyped
    <3> HIDE DEF w
    <3> QED BY <3>1 DEF Entries
  <2>2. Queue' = inbox \o (link \o w)
    BY <1>1, <1>12 DEF Queue, Offered
  <2> HIDE DEF w
  <2>3. /\ Queue' \in Seq(Entries) /\ Len(w) \in Nat /\ Len(Queue') = k + Len(w)
        /\ \A m \in 1..k : Queue'[m] = Queue[m]
        /\ \A m \in 1..Len(w) : Queue'[k + m] = w[m]
    <3>1. Queue' = Queue \o w
      BY <2>1, <2>2, QueueFacts, ConcatAssociative, SMTT(30) DEF Queue
    <3>2. Queue \in Seq(Entries)
      BY QueueFacts
    <3> QED BY <2>1, <3>1, <3>2
  <2>4. LiveAt(Queue, catchingUp, k + 1) =>
            \A i \in 1..Len(stream) : Has(stream, n, Pending, Queue, i, k)
    BY <1>12 DEF ReaderInv, OpenInv
  <2>5. ReplayVerdict(index, block) # "AHEAD"
    <3>1. Len(stream) \in 0..Len(stream) /\ n <= Len(stream)
      BY <1>2, <1>7
    <3>2. nextIndex <= canonicalCount /\ nextBlock <= blockNumber
      BY <1>2, <3>1, ServiceFacts DEF Rising
    <3>3. canonicalCount \in Nat /\ blockNumber \in Nat
      BY <3>1, ServiceFacts
    <3>4. ~(index > canonicalCount \/ block > blockNumber)
      BY <1>2, <1>4, <3>2, <3>3
    <3> QED BY <3>4 DEF ReplayVerdict
  <2>6. ASSUME \A e \in 1..Len(Queue') : EntryOk(stream, n, Pending, Queue', catchingUp, e),
               LiveAt(Queue', catchingUp, Len(Queue') + 1) =>
                   \A i \in 1..Len(stream) : Has(stream, n, Pending, Queue', i, Len(Queue'))
        PROVE  ReaderInv'
    <3>1. CursorInv' /\ NeverMisaligned'
      BY <1>1 DEF ReaderInv, CursorInv, NeverMisaligned
    <3>2. ChannelInv'
      BY <1>1, <1>8, <2>6 DEF ReaderInv, ChannelInv
    <3>3. OpenInv'
      BY <1>1, <1>8, <2>6 DEF OpenInv
    <3> QED BY <1>5, <1>6, <3>1, <3>2, <3>3 DEF ReaderInv
  <2>7. CASE ReplayVerdict(index, block) = "REFUSED"
    <3>1. w = <<Unavailable(firstRetainedIndex, firstRetainedBlock)>>
      BY <2>7 DEF w, ReplayAnswer
    <3>2. Len(w) = 1 /\ w[1].kind = "unavailable"
      BY <3>1 DEF Unavailable
    <3>3. Len(Queue') = k + 1 /\ Queue'[k + 1].kind = "unavailable"
      BY <2>3, <3>2
    <3>4. /\ \A e \in 1..(k + 1) : EntryOk(stream, n, Pending, Queue', catchingUp, e)
          /\ LiveAt(Queue', catchingUp, k + 2) => LiveAt(Queue, catchingUp, k + 1)
      BY <1>2, <1>7, <1>9, <1>10, <2>3, <3>3, QueueControl
    <3>5. (k + 1) + 1 = k + 2 /\ k + 1 \in Nat /\ k <= k + 1
      BY <1>10
    <3>6. ASSUME LiveAt(Queue', catchingUp, k + 2), NEW i \in 1..Len(stream)
          PROVE  Has(stream, n, Pending, Queue', i, k + 1)
      <4>1. Has(stream, n, Pending, Queue, i, k)
        BY <2>4, <3>4, <3>6
      <4> QED BY <1>10, <2>3, <3>5, <4>1, HasMore
    <3> QED BY <2>6, <3>3, <3>4, <3>5, <3>6
  <2>8. CASE ReplayVerdict(index, block) = "SERVE"
    <3> DEFINE x == Wanted(index, block)
               done == Done(canonicalCount, blockNumber)
    <3>1. w = Append(x, done)
      BY <2>8 DEF w, ReplayAnswer
    <3>2. x \in Seq(Frames)
      BY WantedTyped
    <3>3. /\ \A m \in 1..Len(x) : x[m] \in Emits(stream)
          /\ \A i \in (n + 1)..Len(stream) : \E m \in 1..Len(x) : x[m] = stream[i]
      BY <1>2, <1>4, <2>8, ReplayIsWhole
    <3> HIDE DEF x
    <3>4. done.kind = "done" /\ done.key = canonicalCount /\ done.block = blockNumber
      BY DEF Done
    <3> HIDE DEF done
    <3>5. Len(x) \in Nat /\ Len(w) = Len(x) + 1 /\ w[Len(x) + 1] = done
          /\ \A m \in 1..Len(x) : w[m] = x[m]
      BY <3>1, <3>2
    <3> DEFINE l == k + Len(w)
    <3>6. l \in Nat /\ l > k /\ l = k + (Len(x) + 1) /\ l - 1 = k + Len(x)
          /\ Len(x) + 1 \in 1..Len(w)
      BY <1>10, <3>5
    <3>7. Queue'[l] = done
      BY <2>3, <3>5, <3>6
    <3>8. ASSUME NEW m \in 1..Len(x) PROVE k + m \in (k + 1)..(l - 1) /\ Queue'[k + m] = x[m]
      <4>1. m \in 1..Len(w)
        BY <3>5, <3>8
      <4> QED BY <1>10, <2>3, <3>5, <3>6, <3>8, <4>1
    <3>9. ASSUME NEW m \in (k + 1)..(l - 1) PROVE Queue'[m] \in Emits(stream)
      <4>1. m - k \in 1..Len(x) /\ k + (m - k) = m
        BY <1>10, <3>5, <3>6, <3>9
      <4> QED BY <3>3, <3>8, <4>1
    <3>10. \A i \in (n + 1)..Len(stream) : \E m \in (k + 1)..(l - 1) : Queue'[m] = stream[i]
      BY <3>3, <3>8
    <3>11. /\ Queue'[l].kind = "done" /\ Queue'[l].key = IndexOf(stream, Len(stream))
           /\ Queue'[l].block = BlockOf(stream, Len(stream))
      BY <3>4, <3>7, ServiceFacts
    <3>12. /\ \A e \in 1..l : EntryOk(stream, n, Pending, Queue', catchingUp, e)
           /\ \A i \in 1..Len(stream) : Has(stream, n, Pending, Queue', i, l)
      <4>1. Replayed(stream, n, Queue, Queue', l)
        BY <2>3, <3>9, <3>10, <3>11 DEF Replayed
      <4>2. /\ Len(Queue) \in Nat /\ l \in Nat /\ l > Len(Queue) /\ n \in 0..Len(stream)
            /\ \A e \in 1..Len(Queue) : EntryOk(stream, n, Pending, Queue, catchingUp, e)
            /\ LiveAt(Queue, catchingUp, Len(Queue) + 1) =>
                   \A i \in 1..Len(stream) : Has(stream, n, Pending, Queue, i, Len(Queue))
        BY <1>2, <1>9, <1>10, <2>4, <3>6
      <4> HIDE DEF l, n
      <4> QED BY ONLY <1>7, <1>8, <4>1, <4>2, QueueReplay
    <3> QED BY <2>3, <2>6, <3>12
  <2> QED BY <2>5, <2>7, <2>8 DEF ReplayVerdict
<1> QED BY <1>11, <1>12

LEMMA SessionKeepsReader ==
    ASSUME ServiceInv, Types, ReaderInv,
           \/ Connect \/ Subscribe \/ Receive
           \/ SendReplay \/ ResendEarly \/ PublishFails \/ LoadIndex \/ LoadBlock
           \/ EgressDies \/ ResetSession \/ (Failover /\ ~LossyFailovers)
    PROVE  ReaderInv'
<1> DEFINE n == Len(delivered)
           k == Len(Queue)
<1>1. UNCHANGED <<stream, delivered, nextIndex, nextBlock>>
      /\ UNCHANGED <<pendingRecords, pendingBoundaries, catchingUp, failed>>
  BY DEF Connect, Subscribe, Receive, SendReplay, ResendEarly, PublishFails, LoadIndex, LoadBlock,
         PublishRequest, EgressDies, ResetSession, Failover, serviceVars, readerVars, cursorVars,
         pendingVars
<1>2. n \in Nat /\ nextIndex \in Nat /\ nextBlock \in Nat /\ k \in Nat
  BY ReaderFacts, QueueFacts DEF ReaderInv
<1>3. RequestInv /\ SessionInv
  BY DEF ReaderInv
<1>4. Pending' = Pending
  BY <1>1 DEF Pending
<1>5. CASE Connect
  <2>1. /\ ~connected /\ connected' /\ alive' /\ link' = <<>> /\ requests' = <<>>
        /\ loadedIndex' = -1 /\ inbox' = Append(inbox, SessionStart)
    BY <1>5 DEF Connect
  <2>2. link = <<>>
    BY <1>3, <2>1 DEF SessionInv
  <2>3. /\ Len(Queue') = k + 1 /\ Queue'[k + 1] = SessionStart
        /\ \A m \in 1..k : Queue'[m] = Queue[m]
    <3>1. SessionStart \in Entries
      BY DEF Entries
    <3> QED BY <2>1, <2>2, <3>1, QueueFacts DEF Queue
  <2>4. /\ \A e \in 1..(k + 1) : EntryOk(stream, n, Pending, Queue', catchingUp, e)
        /\ ~LiveAt(Queue', catchingUp, k + 2)
    <3>1. Len(stream) \in Nat /\ \A j \in 1..Len(stream) : stream[j].kind \in {"record", "boundary"}
      BY FrameKinds, ServiceFacts
    <3>2. \A e \in 1..k : EntryOk(stream, n, Pending, Queue, catchingUp, e)
      BY DEF ReaderInv, ChannelInv
    <3>3. Queue'[k + 1].kind = "start"
      BY <2>3 DEF SessionStart
    <3>4. /\ \A e \in 1..(k + 1) : EntryOk(stream, n, Pending, Queue', catchingUp, e)
          /\ LiveAt(Queue', catchingUp, k + 2) =>
                 Queue'[k + 1].kind # "start" /\ LiveAt(Queue, catchingUp, k + 1)
      <4>1. Queue'[k + 1].kind \in {"start", "unavailable"}
        BY <3>3
      <4> QED BY <1>2, <2>3, <3>1, <3>2, <4>1, QueueControl
    <3> QED BY <3>3, <3>4
  <2>5. (k + 1) + 1 = k + 2
    BY <1>2
  <2>6. ChannelInv' /\ OpenInv'
    BY <1>1, <1>4, <2>3, <2>4, <2>5 DEF ReaderInv, ChannelInv, OpenInv
  <2>7. RequestInv' /\ SessionInv'
    BY <1>1, <1>2, <2>1 DEF RequestInv, SessionInv
  <2>8. CursorInv' /\ NeverMisaligned'
    BY <1>1 DEF ReaderInv, CursorInv, NeverMisaligned
  <2> QED BY <2>6, <2>7, <2>8 DEF ReaderInv
<1>6. CASE Subscribe
  <2>1. RequestInv' /\ SessionInv' /\ Queue' = Queue /\ connected' = connected /\ alive' = alive
        /\ consumer'
    BY <1>1, <1>3, <1>6 DEF Subscribe, RequestInv, SessionInv, Queue, readerVars
  <2> QED BY <1>1, <2>1, QuietStep
<1>7. CASE Receive
  <2>1. Queue' = Queue
    <3>1. link # <<>> /\ link' = Tail(link) /\ inbox' = Append(inbox, Head(link))
      BY <1>7 DEF Receive
    <3>2. inbox \in Seq(Entries) /\ link \in Seq(Entries)
      BY QueueFacts
    <3>3. Append(inbox, Head(link)) \o Tail(link) = inbox \o link
      BY <3>1, <3>2
    <3> QED BY <3>1, <3>3 DEF Queue
  <2>2. RequestInv' /\ SessionInv' /\ connected' = connected /\ alive' = alive
        /\ consumer' = consumer
    <3>1. link # <<>> /\ UNCHANGED <<connected, alive, consumer, requests, loadedIndex>>
      BY <1>7 DEF Receive
    <3> QED BY <1>1, <1>3, <3>1 DEF RequestInv, SessionInv
  <2> QED BY <1>1, <2>1, <2>2, QuietStep
<1>8. CASE SendReplay \/ ResendEarly \/ PublishFails \/ LoadIndex \/ LoadBlock
  <2>1. UNCHANGED <<connected, alive, consumer, link, inbox>>
    BY <1>8 DEF SendReplay, ResendEarly, PublishFails, LoadIndex, LoadBlock, PublishRequest,
                sessionVars, readerVars
  <2>2. SessionInv' /\ Queue' = Queue
    BY <1>3, <2>1 DEF SessionInv, Queue
  <2>3. ASSUME NEW index \in Nat, NEW block \in Nat, index <= nextIndex, block <= nextBlock,
               PublishRequest(index, block)
        PROVE  RequestInv'
    <3>1. requests \in Seq(Nat \X Nat) /\ <<index, block>> \in Nat \X Nat
      BY DEF Types, SessionTypes
    <3>2. requests' = Append(requests, <<index, block>>) /\ loadedIndex' = -1
      BY <2>3 DEF PublishRequest
    <3>3. ASSUME NEW j \in 1..Len(requests')
          PROVE  requests'[j][1] <= nextIndex /\ requests'[j][2] <= nextBlock
      <4>1. CASE j \in 1..Len(requests)
        BY <1>3, <3>1, <3>2, <4>1 DEF RequestInv
      <4>2. CASE j = Len(requests) + 1
        <5>1. requests'[j] = <<index, block>>
          BY <3>1, <3>2, <4>2
        <5> QED BY <2>3, <5>1
      <4> QED BY <3>1, <3>2, <3>3, <4>1, <4>2, SMTT(30)
    <3> QED BY <1>1, <1>2, <3>2, <3>3 DEF RequestInv
  <2>4. RequestInv'
    <3>1. CASE SendReplay \/ ResendEarly
      <4>1. PublishRequest(nextIndex, nextBlock)
        BY <3>1 DEF SendReplay, ResendEarly
      <4> QED BY <1>2, <2>3, <4>1
    <3>2. CASE PublishFails
      BY <1>1, <1>3, <3>2 DEF PublishFails, sessionVars, RequestInv
    <3>3. CASE LoadIndex
      BY <1>1, <1>2, <1>3, <3>3 DEF LoadIndex, RequestInv
    <3>4. CASE LoadBlock
      <4>1. PublishRequest(loadedIndex, nextBlock) /\ loadedIndex \in Nat
        BY <3>4 DEF LoadBlock, Types, SessionTypes
      <4> QED BY <1>2, <1>3, <2>3, <4>1 DEF RequestInv
    <3> QED BY <1>8, <3>1, <3>2, <3>3, <3>4
  <2> QED BY <1>1, <2>1, <2>2, <2>4, QuietStep
<1>9. CASE EgressDies
  <2>1. ~alive' /\ link' = <<>> /\ UNCHANGED <<connected, requests, loadedIndex, inbox>>
    BY <1>9 DEF EgressDies, readerVars
  <2>2. Queue' = inbox /\ Len(inbox) \in Nat /\ Len(inbox) <= k
        /\ \A m \in 1..Len(inbox) : Queue[m] = Queue'[m]
    BY <2>1, QueueFacts DEF Queue
  <2>3. ASSUME NEW e \in 1..Len(Queue') PROVE EntryOk(stream, n, Pending, Queue', catchingUp, e)
    <3>1. e \in Nat \ {0} /\ e \in 1..k /\ \A m \in 1..e : Queue[m] = Queue'[m]
      BY <1>2, <2>2, <2>3
    <3>2. EntryOk(stream, n, Pending, Queue, catchingUp, e)
      BY <3>1 DEF ReaderInv, ChannelInv
    <3> QED BY <3>1, <3>2, EntryPrefix
  <2>4. ChannelInv' /\ OpenInv'
    BY <1>1, <1>4, <2>1, <2>3 DEF ReaderInv, ChannelInv, OpenInv
  <2>5. RequestInv' /\ SessionInv'
    BY <1>1, <1>3, <2>1 DEF RequestInv, SessionInv
  <2>6. CursorInv' /\ NeverMisaligned'
    BY <1>1 DEF ReaderInv, CursorInv, NeverMisaligned
  <2> QED BY <2>4, <2>5, <2>6 DEF ReaderInv
<1>10. CASE ResetSession
  <2>1. /\ ~connected' /\ ~alive /\ requests' = <<>> /\ loadedIndex' = -1
        /\ UNCHANGED <<alive, link, inbox>>
    BY <1>10 DEF ResetSession, readerVars
  <2>2. RequestInv' /\ SessionInv' /\ Queue' = Queue
    BY <1>1, <1>2, <1>3, <2>1 DEF RequestInv, SessionInv, Queue
  <2> QED BY <1>1, <2>1, <2>2, QuietStep
<1>11. CASE Failover /\ ~LossyFailovers
  <2>1. /\ link = <<>> /\ link' = <<>> /\ requests' = <<>>
        /\ UNCHANGED <<connected, alive, consumer, loadedIndex, inbox>>
    BY <1>11 DEF Failover, readerVars
  <2>2. RequestInv' /\ SessionInv' /\ Queue' = Queue
    BY <1>1, <1>2, <1>3, <2>1 DEF RequestInv, SessionInv, Queue
  <2> QED BY <1>1, <2>1, <2>2, QuietStep
<1> QED BY <1>5, <1>6, <1>7, <1>8, <1>9, <1>10, <1>11

-----------------------------------------------------------------------------
(* The steps of the reader *)

\* Only one frame is at a point of the stream on either axis, and a boundary that
\* ends at the point, on both axes, is the next frame.
LEMMA NextBoundary ==
    ASSUME ServiceInv, NEW n \in 0..Len(stream), NEW j \in 1..Len(stream),
           stream[j].kind = "boundary", stream[j].key = BlockOf(stream, n),
           stream[j].end <= IndexOf(stream, n)
    PROVE  j = n + 1
<1>1. /\ stream \in Seq(Frames) /\ Len(stream) \in Nat /\ Dense(stream) /\ Rising(stream)
      /\ \A m \in 0..Len(stream) : IndexOf(stream, m) \in Nat /\ BlockOf(stream, m) \in Nat
      /\ n \in Int /\ j \in Int
  BY ServiceFacts
<1>2. j > n
  <2>1. stream[j].key >= BlockOf(stream, n)
    BY <1>1
  <2> QED BY <2>1, FrameSides
<1>3. /\ stream[j].end = IndexOf(stream, j - 1) /\ stream[j].key = BlockOf(stream, j - 1)
  BY <1>1, BoundaryPlace
<1>4. ASSUME n + 1 < j PROVE FALSE
  <2>1. n + 1 \in 1..Len(stream) /\ j - 1 \in 0..Len(stream) /\ ~(n + 1 > j - 1)
    BY <1>1, <1>2, <1>4
  <2>2. /\ stream[n + 1].kind \in {"record", "boundary"} /\ stream[n + 1].key \in Nat
        /\ stream[n + 1].kind = "record" =>
              /\ stream[n + 1].key >= IndexOf(stream, n)
              /\ ~(stream[n + 1].key >= IndexOf(stream, j - 1))
        /\ stream[n + 1].kind = "boundary" =>
              /\ stream[n + 1].key >= BlockOf(stream, n)
              /\ ~(stream[n + 1].key >= BlockOf(stream, j - 1))
    <3>1. n + 1 > n
      BY <1>1
    <3> QED BY <2>1, <3>1, FrameSides
  <2>3. IndexOf(stream, n) \in Nat /\ BlockOf(stream, n) \in Nat
        /\ IndexOf(stream, j - 1) \in Nat /\ BlockOf(stream, j - 1) \in Nat
    BY <1>1, <2>1
  <2> QED BY <1>3, <2>2, <2>3
<1> QED BY <1>1, <1>2, <1>4

\* The reader applies the next frame of the stream, which it holds.
LEMMA DeliverKeepsReader ==
    ASSUME ServiceInv, Types, ReaderInv,
           Len(delivered) + 1 \in 1..Len(stream),
           LET f == stream[Len(delivered) + 1]
           IN  /\ f \in Pending
               /\ delivered' = Append(delivered, f)
               /\ \/ /\ f.kind = "boundary"
                     /\ pendingBoundaries' = pendingBoundaries \ {f}
                     /\ nextBlock' = nextBlock + 1 /\ UNCHANGED <<nextIndex, pendingRecords>>
                  \/ /\ f.kind = "record"
                     /\ pendingRecords' = pendingRecords \ {f}
                     /\ nextIndex' = nextIndex + f.slots /\ UNCHANGED <<nextBlock, pendingBoundaries>>,
           UNCHANGED <<serviceVars, sessionVars, inbox, catchingUp, failed>>
    PROVE  ReaderInv' /\ Reader!Read
<1> DEFINE n == Len(delivered)
           f == stream[n + 1]
           s == stream
<1>1. /\ s \in Seq(Frames) /\ Len(s) \in Nat /\ Dense(s) /\ n \in Nat
      /\ nextIndex = IndexOf(s, n) /\ nextBlock = BlockOf(s, n)
      /\ nextIndex \in Nat /\ nextBlock \in Nat
      /\ delivered \in Seq(Frames) /\ delivered = SubSeq(s, 1, n)
  BY ServiceFacts, ReaderFacts DEF ReaderInv, CursorInv, Types, ReaderTypes
<1>2. /\ UNCHANGED <<stream, inbox, catchingUp, failed, connected, alive, consumer, link>>
      /\ UNCHANGED <<requests, loadedIndex>>
  BY DEF serviceVars, sessionVars
<1>3. Len(delivered') = n + 1 /\ f \in Frames /\ delivered' = SubSeq(s, 1, n + 1)
  <2>1. f \in Frames /\ delivered' = Append(delivered, f)
    BY <1>1
  <2>2. Len(delivered') = n + 1
    BY <1>1, <2>1
  <2>3. Append(SubSeq(s, 1, n), s[n + 1]) = SubSeq(s, 1, n + 1)
    BY <1>1
  <2> QED BY <1>1, <2>1, <2>2, <2>3
<1>4. \A i, j \in 1..Len(s) : s[i] = s[j] => i = j
  BY FramesDistinct
<1>5. HeldOk(s, n, pendingRecords, pendingBoundaries, catchingUp)
  BY DEF ReaderInv, ChannelInv
<1>6. Pending' = Pending \ {f}
  <2>1. CASE f.kind = "boundary"
    <3>1. f \notin pendingRecords
      BY <1>5, <2>1 DEF HeldOk
    <3> QED BY <2>1, <3>1 DEF Pending
  <2>2. CASE f.kind = "record"
    <3>1. f \notin pendingBoundaries
      BY <1>5, <2>2 DEF HeldOk
    <3> QED BY <2>2, <3>1 DEF Pending
  <2> QED BY <2>1, <2>2
<1>7. CursorInv'
  <2>1. nextIndex' = IndexOf(s, n + 1) /\ nextBlock' = BlockOf(s, n + 1)
    <3>1. (n + 1) - 1 = n
      BY <1>1
    <3>2. CASE f.kind = "boundary"
      <4>1. /\ f.key = BlockOf(s, (n + 1) - 1) /\ BlockOf(s, n + 1) = f.key + 1
            /\ IndexOf(s, n + 1) = IndexOf(s, (n + 1) - 1)
        BY <1>1, <3>2, BoundaryPlace
      <4> QED BY <1>1, <3>1, <3>2, <4>1
    <3>3. CASE f.kind = "record"
      <4>1. /\ f.key = IndexOf(s, (n + 1) - 1) /\ IndexOf(s, n + 1) = f.key + f.slots
            /\ BlockOf(s, n + 1) = BlockOf(s, (n + 1) - 1)
        BY <1>1, <3>3, RecordPlace
      <4> QED BY <1>1, <3>1, <3>3, <4>1
    <3> QED BY <3>2, <3>3
  <2>2. n + 1 <= Len(s)
    BY <1>1
  <2> QED BY <1>2, <1>3, <2>1, <2>2 DEF CursorInv
<1>8. Queue' = Queue
  BY <1>2 DEF Queue
<1>9. ChannelInv'
  <2>1. ASSUME NEW e \in 1..Len(Queue) PROVE EntryOk(s, n + 1, Pending \ {f}, Queue, catchingUp, e)
    <3>1. EntryOk(s, n, Pending, Queue, catchingUp, e) /\ e \in Nat
      BY <2>1, QueueFacts DEF ReaderInv, ChannelInv
    <3> QED BY <1>1, <1>4, <3>1, EntryDeliver
  <2>2. HeldOk(s, n + 1, pendingRecords', pendingBoundaries', catchingUp)
    <3>1. pendingRecords' \subseteq pendingRecords /\ pendingBoundaries' \subseteq pendingBoundaries
      OBVIOUS
    <3>2. ASSUME ~catchingUp, NEW j \in 1..Len(s), s[j] \in pendingRecords', NEW i \in 1..(j - 1)
          PROVE  i <= n + 1 \/ s[i] \in pendingRecords' \cup pendingBoundaries'
      <4>1. i \in 1..Len(s) /\ i \in Int
        BY <1>1, <3>2
      <4>2. i <= n \/ s[i] \in Pending
        BY <1>5, <3>1, <3>2 DEF HeldOk, Pending
      <4>3. CASE i <= n
        BY <1>1, <4>1, <4>3
      <4>4. CASE s[i] \in Pending
        <5>1. s[i] = f => i <= n + 1
          BY <1>1, <1>4, <4>1
        <5>2. s[i] # f => s[i] \in Pending'
          BY <1>6, <4>4
        <5> QED BY <5>1, <5>2 DEF Pending
      <4> QED BY <4>2, <4>3, <4>4
    <3> QED BY <1>5, <3>1, <3>2 DEF HeldOk
  <2> QED BY <1>2, <1>3, <1>6, <1>8, <2>1, <2>2 DEF ChannelInv
<1>10. OpenInv'
  <2> SUFFICES ASSUME connected, alive, LiveAt(Queue, catchingUp, Len(Queue) + 1)
               PROVE  /\ consumer
                      /\ \A i \in 1..Len(s) : Has(s, n + 1, Pending \ {f}, Queue, i, Len(Queue))
    BY <1>2, <1>3, <1>6, <1>8 DEF OpenInv
  <2>1. consumer /\ \A i \in 1..Len(s) : Has(s, n, Pending, Queue, i, Len(Queue))
    BY DEF ReaderInv, OpenInv
  <2>2. \A i \in 1..Len(s) : Has(s, n + 1, Pending \ {f}, Queue, i, Len(Queue))
    BY <1>1, <1>4, <2>1, HasDeliver
  <2> QED BY <2>1, <2>2
<1>11. RequestInv'
  <2>1. nextIndex' \in Nat /\ nextIndex' >= nextIndex /\ nextBlock' \in Nat /\ nextBlock' >= nextBlock
    <3>1. f.kind = "record" => f.slots \in Nat
      BY <1>3 DEF Frames
    <3> QED BY <1>1, <3>1
  <2>2. requests \in Seq(Nat \X Nat) /\ loadedIndex \in Int
    BY DEF Types, SessionTypes
  <2>3. ASSUME NEW j \in 1..Len(requests)
        PROVE  requests[j][1] <= nextIndex' /\ requests[j][2] <= nextBlock'
    <3>1. requests[j][1] \in Nat /\ requests[j][2] \in Nat
      BY <2>2, <2>3
    <3>2. requests[j][1] <= nextIndex /\ requests[j][2] <= nextBlock
      BY <2>3 DEF ReaderInv, RequestInv
    <3> QED BY <1>1, <2>1, <3>1, <3>2, SMTT(30)
  <2>4. loadedIndex <= nextIndex'
    <3>1. loadedIndex <= nextIndex
      BY DEF ReaderInv, RequestInv
    <3> QED BY <1>1, <2>1, <2>2, <3>1
  <2> QED BY <1>2, <2>3, <2>4 DEF RequestInv
<1>12. SessionInv' /\ NeverMisaligned'
  BY <1>2 DEF ReaderInv, SessionInv, NeverMisaligned
<1>13. Reader!Read
  <2>1. n < Len(s)
    BY <1>1
  <2> QED BY <1>2, <2>1 DEF Reader!Read
<1> QED BY <1>7, <1>9, <1>10, <1>11, <1>12, <1>13 DEF ReaderInv

LEMMA BoundaryKeepsReader ==
    ASSUME ServiceInv, Types, ReaderInv, DeliverBoundary
    PROVE  ReaderInv' /\ Reader!Read
<1> DEFINE n == Len(delivered)
<1>1. n \in 0..Len(stream) /\ n \in Nat /\ nextIndex = IndexOf(stream, n)
      /\ nextBlock = BlockOf(stream, n)
  BY ReaderFacts DEF ReaderInv
<1>2. ASSUME NEW b \in pendingBoundaries
      PROVE  \E j \in 1..Len(stream) : b = stream[j] /\ stream[j].kind = "boundary"
  BY <1>2 DEF ReaderInv, ChannelInv, HeldOk, Emits
<1>3. PICK c \in pendingBoundaries : c.key = nextBlock /\ c.end <= nextIndex
  BY DEF DeliverBoundary, BoundaryIsNext
<1>4. PICK j \in 1..Len(stream) : c = stream[j] /\ stream[j].kind = "boundary"
  BY <1>2
<1>5. j = n + 1
  BY <1>1, <1>3, <1>4, NextBoundary
<1>6. PICK b \in pendingBoundaries :
          /\ b.key = nextBlock
          /\ pendingBoundaries' = pendingBoundaries \ {b}
          /\ delivered' = Append(delivered, b)
  BY DEF DeliverBoundary
<1>7. b = c
  <2>1. PICK i \in 1..Len(stream) : b = stream[i] /\ stream[i].kind = "boundary"
    BY <1>2
  <2>2. i = j
    <3>1. /\ stream \in Seq(Frames) /\ Len(stream) \in Nat /\ Dense(stream)
          /\ \A m \in 0..Len(stream) : BlockOf(stream, m) \in Nat
      BY ServiceFacts
    <3>2. ASSUME NEW k \in 1..Len(stream), NEW l \in 1..Len(stream), stream[k].kind = "boundary",
                 stream[l].kind = "boundary", k < l
          PROVE  stream[k].key # stream[l].key
      <4>1. k \in 0..Len(stream) /\ ~(k > k)
        BY <3>1
      <4>2. stream[l].key >= BlockOf(stream, k) /\ ~(stream[k].key >= BlockOf(stream, k))
        BY <3>2, <4>1, FrameSides
      <4> QED BY <4>2
    <3>3. i < j \/ j < i \/ i = j
      BY <3>1
    <3> QED BY <1>3, <1>4, <1>6, <2>1, <3>2, <3>3
  <2> QED BY <1>4, <2>1, <2>2
<1>8. /\ n + 1 \in 1..Len(stream) /\ c = stream[n + 1] /\ c \in Pending /\ c.kind = "boundary"
  BY <1>3, <1>4, <1>5 DEF Pending
<1>9. /\ nextBlock' = nextBlock + 1 /\ UNCHANGED <<nextIndex, pendingRecords>>
      /\ UNCHANGED <<serviceVars, sessionVars, inbox, catchingUp, failed>>
  BY DEF DeliverBoundary
<1> QED BY <1>6, <1>7, <1>8, <1>9, DeliverKeepsReader

\* A record at the cursor is the next frame: a boundary before it would be held.
LEMMA RecordKeepsReader ==
    ASSUME ServiceInv, Types, ReaderInv, DeliverRecord
    PROVE  ReaderInv' /\ Reader!Read
<1> DEFINE n == Len(delivered)
<1>1. n \in 0..Len(stream) /\ n \in Nat /\ nextIndex = IndexOf(stream, n)
      /\ nextBlock = BlockOf(stream, n) /\ nextIndex \in Nat /\ nextBlock \in Nat
  BY ReaderFacts DEF ReaderInv
<1>2. /\ stream \in Seq(Frames) /\ Len(stream) \in Nat /\ Dense(stream)
      /\ \A m \in 0..Len(stream) : IndexOf(stream, m) \in Nat
  BY ServiceFacts
<1>3. HeldOk(stream, n, pendingRecords, pendingBoundaries, catchingUp)
  BY DEF ReaderInv, ChannelInv
<1>4. PICK r \in pendingRecords :
          /\ r.key = nextIndex
          /\ pendingRecords' = pendingRecords \ {r}
          /\ delivered' = Append(delivered, r)
          /\ nextIndex' = nextIndex + r.slots
  BY DEF DeliverRecord
<1>5. PICK j \in 1..Len(stream) : r = stream[j] /\ stream[j].kind = "record"
  BY <1>3, <1>4 DEF HeldOk, Emits
<1>6. j > n
  <2>1. stream[j].key >= IndexOf(stream, n)
    BY <1>1, <1>4, <1>5
  <2> QED BY <1>1, <1>5, <2>1, FrameSides
<1>7. ASSUME n + 1 < j PROVE FALSE
  <2> DEFINE f == stream[n + 1]
  <2>1. n + 1 \in 1..Len(stream) /\ n + 1 \in 1..(j - 1) /\ ~(n + 1 <= n) /\ (n + 1) - 1 = n
        /\ n + 1 > n /\ j - 1 \in 0..Len(stream) /\ ~(n + 1 > j - 1)
    BY <1>1, <1>2, <1>7
  <2>2. f.kind = "boundary"
    <3>1. stream[j].key = IndexOf(stream, j - 1)
      BY <1>2, <1>5, RecordPlace
    <3>2. f.kind = "record" => /\ f.key >= IndexOf(stream, n)
                               /\ ~(f.key >= IndexOf(stream, j - 1))
      BY <1>1, <2>1, FrameSides
    <3>3. f.kind \in {"record", "boundary"}
      BY <2>1, FrameSides
    <3> QED BY <1>1, <1>4, <1>5, <3>1, <3>2, <3>3
  <2>3. f.key = nextBlock /\ f.end = nextIndex
    <3>1. f.key = BlockOf(stream, (n + 1) - 1) /\ f.end = IndexOf(stream, (n + 1) - 1)
      BY <1>2, <2>1, <2>2, BoundaryPlace
    <3> QED BY <1>1, <2>1, <3>1
  <2>4. f \notin pendingBoundaries
    <3>1. ~BoundaryIsNext
      BY DEF DeliverRecord, RecordIsNext
    <3>2. f.end <= nextIndex
      BY <1>1, <2>3
    <3> QED BY <2>3, <3>1, <3>2 DEF BoundaryIsNext
  <2>5. \A b \in pendingBoundaries : b.key = nextBlock => b = f
    <3> SUFFICES ASSUME NEW b \in pendingBoundaries, b.key = nextBlock PROVE b = f
      OBVIOUS
    <3>1. PICK i \in 1..Len(stream) : b = stream[i] /\ stream[i].kind = "boundary"
      BY <1>3 DEF HeldOk, Emits
    <3>2. i > n
      <4>1. stream[i].key >= BlockOf(stream, n)
        BY <1>1, <3>1
      <4> QED BY <1>1, <3>1, <4>1, FrameSides
    <3>3. ~(i > n + 1)
      <4>1. n + 1 \in 0..Len(stream) /\ ~(n + 1 > n + 1)
        BY <2>1, <1>1
      <4>2. i > n + 1 => stream[i].key >= BlockOf(stream, n + 1)
        BY <3>1, <4>1, FrameSides
      <4>3. ~(f.key >= BlockOf(stream, n + 1))
        BY <2>1, <2>2, <4>1, FrameSides
      <4> QED BY <2>3, <3>1, <4>2, <4>3
    <3>4. i = n + 1
      BY <1>1, <1>2, <3>2, <3>3
    <3> QED BY <3>1, <3>4
  <2>6. ~catchingUp
    BY <2>4, <2>5 DEF DeliverRecord, RecordIsNext
  <2>7. f \in pendingRecords \cup pendingBoundaries
    BY <1>3, <1>4, <1>5, <2>1, <2>6 DEF HeldOk
  <2> QED BY <1>3, <2>2, <2>4, <2>7 DEF HeldOk
<1>8. j = n + 1
  BY <1>1, <1>2, <1>6, <1>7
<1>9. /\ n + 1 \in 1..Len(stream) /\ r = stream[n + 1] /\ r \in Pending /\ r.kind = "record"
  BY <1>4, <1>5, <1>8 DEF Pending
<1>10. /\ UNCHANGED <<nextBlock, pendingBoundaries>>
       /\ UNCHANGED <<serviceVars, sessionVars, inbox, catchingUp, failed>>
  BY DEF DeliverRecord
<1> QED BY <1>4, <1>9, <1>10, DeliverKeepsReader

\* The reader takes the first entry of its queue.
LEMMA TakeKeepsReader ==
    ASSUME ServiceInv, Types, ReaderInv, inbox # <<>>, inbox' = Tail(inbox),
           UNCHANGED <<stream, sessionVars, delivered, nextIndex, nextBlock>>,
           \A i \in 1..Len(stream) : stream[i] \in Pending \/ Queue[1] = stream[i] =>
                                         i <= Len(delivered) \/ stream[i] \in Pending',
           \A i \in 1..Len(stream) : stream[i] \in Pending' =>
                                         stream[i] \in Pending \/ Queue[1] = stream[i],
           ~catchingUp' => (~catchingUp /\ Queue[1].kind # "start") \/ Queue[1].kind = "done",
           HeldOk(stream, Len(delivered), pendingRecords', pendingBoundaries', catchingUp'),
           NeverMisaligned'
    PROVE  ReaderInv'
<1> DEFINE n == Len(delivered)
           k == Len(Queue)
<1>1. /\ UNCHANGED <<stream, delivered, nextIndex, nextBlock, connected, alive, consumer, link>>
      /\ UNCHANGED <<requests, loadedIndex>>
  BY DEF sessionVars
<1>2. n \in Nat /\ Len(stream) \in Nat
  BY ReaderFacts, ServiceFacts DEF ReaderInv
<1>3. /\ k \in Nat \ {0} /\ Len(Queue') = k - 1 /\ \A m \in 1..(k - 1) : Queue'[m] = Queue[m + 1]
  <2>1. inbox \in Seq(Entries) /\ link \in Seq(Entries) /\ Len(inbox) \in Nat \ {0}
    BY QueueFacts
  <2>2. Tail(inbox) \in Seq(Entries) /\ Len(Tail(inbox)) = Len(inbox) - 1
        /\ \A m \in 1..(Len(inbox) - 1) : Tail(inbox)[m] = inbox[m + 1]
    BY <2>1
  <2>3. Queue' = Tail(inbox) \o link
    BY <1>1 DEF Queue
  <2> QED BY <2>1, <2>2, <2>3, QueueFacts DEF Queue
<1>4. ASSUME NEW e \in 1..(k - 1) PROVE EntryOk(stream, n, Pending', Queue', catchingUp', e)
  <2>1. e \in Nat \ {0} /\ e + 1 \in 1..k /\ \A m \in 1..e : m \in 1..(k - 1)
    BY <1>3, <1>4
  <2>2. EntryOk(stream, n, Pending, Queue, catchingUp, e + 1)
    BY <2>1 DEF ReaderInv, ChannelInv
  <2>3. \A m \in 1..e : Queue'[m] = Queue[m + 1]
    BY <1>3, <2>1
  <2> QED BY <1>2, <2>1, <2>2, <2>3, EntryTake
<1>5. ChannelInv'
  BY <1>1, <1>3, <1>4 DEF ChannelInv
<1>6. OpenInv'
  <2> SUFFICES ASSUME connected, alive, LiveAt(Queue', catchingUp', k)
               PROVE  /\ consumer
                      /\ \A i \in 1..Len(stream) : Has(stream, n, Pending', Queue', i, k - 1)
    <3>1. (k - 1) + 1 = k
      BY <1>3
    <3> QED BY <1>1, <1>3, <3>1 DEF OpenInv
  <2>1. LiveAt(Queue, catchingUp, k + 1)
    BY <1>3, LiveTake
  <2>2. consumer /\ \A i \in 1..Len(stream) : Has(stream, n, Pending, Queue, i, k)
    BY <2>1 DEF ReaderInv, OpenInv
  <2>3. ASSUME NEW i \in 1..Len(stream) PROVE Has(stream, n, Pending', Queue', i, k - 1)
    <3>1. Has(stream, n, Pending, Queue, i, k)
      BY <2>2
    <3>2. stream[i] \in Pending \/ Queue[1] = stream[i] => i <= n \/ stream[i] \in Pending'
      OBVIOUS
    <3> QED BY <1>2, <1>3, <3>1, <3>2, HasTake
  <2> QED BY <2>2, <2>3
<1>7. CursorInv' /\ RequestInv' /\ SessionInv'
  BY <1>1 DEF ReaderInv, CursorInv, RequestInv, SessionInv
<1> QED BY <1>5, <1>6, <1>7 DEF ReaderInv

LEMMA IngestKeepsReader ==
    ASSUME ServiceInv, Types, ReaderInv, Ingest
    PROVE  ReaderInv'
<1> DEFINE n == Len(delivered)
           h == Head(inbox)
           s == stream
<1>1. /\ inbox # <<>> /\ inbox' = Tail(inbox) /\ failed = "no"
      /\ UNCHANGED <<stream, sessionVars, delivered, nextIndex, nextBlock>>
  BY DEF Ingest, serviceVars, cursorVars
<1>2. h = Queue[1] /\ 1 \in 1..Len(Queue)
  <2>1. inbox \in Seq(Entries) /\ 1 \in 1..Len(inbox) /\ h = inbox[1]
    BY <1>1, QueueFacts
  <2> QED BY <2>1, QueueFacts
<1>3. /\ n \in Nat /\ n \in 0..Len(s) /\ nextIndex = IndexOf(s, n) /\ nextBlock = BlockOf(s, n)
      /\ nextIndex \in Nat /\ nextBlock \in Nat /\ Len(s) \in Nat
  BY ReaderFacts, ServiceFacts DEF ReaderInv
<1>4. EntryOk(s, n, Pending, Queue, catchingUp, 1)
  BY <1>2 DEF ReaderInv, ChannelInv
<1>5. HeldOk(s, n, pendingRecords, pendingBoundaries, catchingUp)
  BY DEF ReaderInv, ChannelInv
<1>6. \A j \in 1..Len(s) : s[j].kind \in {"record", "boundary"} /\ s[j].key \in Nat
  BY <1>3, FrameSides
<1>7. \A i, j \in 1..Len(s) : s[i] = s[j] => i = j
  BY FramesDistinct
\* The entry is dropped: it is no frame, or one that the reader has applied.
<1>9. ASSUME UNCHANGED <<pendingRecords, pendingBoundaries>>,
             \A j \in 1..Len(s) : h = s[j] => j <= n,
             ~catchingUp' => (~catchingUp /\ h.kind # "start") \/ h.kind = "done",
             HeldOk(s, n, pendingRecords, pendingBoundaries, catchingUp'), NeverMisaligned'
      PROVE  ReaderInv'
  <2>1. Pending' = Pending
    BY <1>9 DEF Pending
  <2>2. \A i \in 1..Len(s) : s[i] \in Pending \/ Queue[1] = s[i] => i <= n \/ s[i] \in Pending'
    BY <1>2, <1>9, <2>1
  <2>3. \A i \in 1..Len(s) : s[i] \in Pending' => s[i] \in Pending \/ Queue[1] = s[i]
    BY <2>1
  <2>4. HeldOk(s, n, pendingRecords', pendingBoundaries', catchingUp')
    BY <1>9
  <2>5. ~catchingUp' => (~catchingUp /\ Queue[1].kind # "start") \/ Queue[1].kind = "done"
    BY <1>2, <1>9
  <2> QED BY <1>1, <1>9, <2>2, <2>3, <2>4, <2>5, TakeKeepsReader
<1>10. CASE h.kind \in {"record", "boundary"}
  <2>1. PICK j \in 1..Len(s) : h = s[j]
    BY <1>2, <1>4, <1>10 DEF EntryOk, Emits
  <2>2. \A i \in 1..Len(s) : h = s[i] => i = j
    BY <1>7, <2>1
  <2>3. ASSUME j <= n, UNCHANGED <<pendingVars, failed>> PROVE ReaderInv'
    <3>1. UNCHANGED <<pendingRecords, pendingBoundaries, catchingUp>> /\ NeverMisaligned'
      BY <2>3 DEF pendingVars, ReaderInv, NeverMisaligned
    <3>2. h.kind # "start"
      BY <1>10
    <3> QED BY <1>5, <1>9, <2>2, <2>3, <3>1, <3>2
  <2>4. ASSUME Pending' = Pending \cup {h}, ~catchingUp' => ~catchingUp,
               HeldOk(s, n, pendingRecords', pendingBoundaries', catchingUp'), NeverMisaligned'
        PROVE  ReaderInv'
    <3>1. \A i \in 1..Len(s) : s[i] \in Pending \/ Queue[1] = s[i] => i <= n \/ s[i] \in Pending'
      BY <1>2, <2>4
    <3>2. \A i \in 1..Len(s) : s[i] \in Pending' => s[i] \in Pending \/ Queue[1] = s[i]
      BY <1>2, <2>4
    <3>3. ~catchingUp' => (~catchingUp /\ Queue[1].kind # "start") \/ Queue[1].kind = "done"
      BY <1>2, <1>10, <2>4
    <3> QED BY <1>1, <2>4, <3>1, <3>2, <3>3, TakeKeepsReader
  <2>5. CASE h.kind = "record"
    <3>1. IngestRecord(h)
      BY <2>5 DEF Ingest
    <3>2. CASE h.key < nextIndex
      <4>1. j <= n
        <5>1. ~(s[j].key >= IndexOf(s, n))
          BY <1>3, <1>6, <2>1, <3>2
        <5> QED BY <1>3, <2>1, <2>5, <5>1, FrameSides
      <4>2. UNCHANGED <<pendingVars, failed>>
        BY <3>1, <3>2 DEF IngestRecord
      <4> QED BY <2>3, <4>1, <4>2
    <3>3. CASE ~(h.key < nextIndex)
      <4>1. /\ catchingUp' = (catchingUp \/ h.key > nextIndex)
            /\ pendingRecords' = pendingRecords \cup {h} /\ UNCHANGED pendingBoundaries
            /\ failed' \in {"overflow", "no"}
        BY <3>1, <3>3 DEF IngestRecord
      <4>2. Pending' = Pending \cup {h} /\ NeverMisaligned'
        BY <4>1 DEF Pending, NeverMisaligned
      <4>3. ~catchingUp' => ~catchingUp
        BY <4>1
      <4>4. HeldOk(s, n, pendingRecords', pendingBoundaries', catchingUp')
        <5>1. h \in Emits(s)
          BY <2>1 DEF Emits
        <5>2. ASSUME ~catchingUp', NEW l \in 1..Len(s), s[l] \in pendingRecords',
                     NEW i \in 1..(l - 1)
              PROVE  i <= n \/ s[i] \in pendingRecords' \cup pendingBoundaries'
          <6>1. CASE s[l] \in pendingRecords
            BY <1>5, <4>1, <4>3, <5>2, <6>1 DEF HeldOk
          <6>2. CASE s[l] = h
            <7>1. LiveAt(Queue, catchingUp, 1)
              BY <4>3, <5>2 DEF LiveAt, NoStart
            <7>2. Has(s, n, Pending, Queue, i, 1 - 1)
              BY <1>2, <1>4, <5>2, <6>2, <7>1 DEF EntryOk, InOrder
            <7>3. i <= n \/ s[i] \in Pending
              BY <7>2 DEF Has
            <7> QED BY <4>1, <7>3 DEF Pending
          <6> QED BY <4>1, <5>2, <6>1, <6>2
        <5> QED BY <1>5, <2>5, <4>1, <5>1, <5>2 DEF HeldOk
      <4> QED BY <2>4, <4>2, <4>3, <4>4
    <3> QED BY <3>2, <3>3
  <2>6. CASE h.kind = "boundary"
    <3>1. IngestBoundary(h)
      BY <2>6 DEF Ingest
    <3>2. CASE h.key < nextBlock
      <4>1. j <= n
        <5>1. ~(s[j].key >= BlockOf(s, n))
          BY <1>3, <1>6, <2>1, <3>2
        <5> QED BY <1>3, <2>1, <2>6, <5>1, FrameSides
      <4>2. UNCHANGED <<pendingVars, failed>>
        BY <3>1, <3>2 DEF IngestBoundary
      <4> QED BY <2>3, <4>1, <4>2
    <3>3. CASE ~(h.key < nextBlock)
      <4>0. ~(h.end < nextIndex)
        <5>1. j > n
          <6>1. s[j].key >= BlockOf(s, n)
            BY <1>3, <1>6, <2>1, <3>3
          <6> QED BY <1>3, <2>1, <2>6, <6>1, FrameSides
        <5>2. h.end = IndexOf(s, j - 1) /\ j - 1 \in 0..Len(s) /\ n <= j - 1
          <6>1. j - 1 \in 0..Len(s) /\ n <= j - 1
            BY <1>3, <5>1
          <6> QED BY <2>1, <2>6, <6>1, BoundaryPlace, ServiceFacts
        <5>3. IndexOf(s, n) <= IndexOf(s, j - 1) /\ IndexOf(s, j - 1) \in Nat
          BY <1>3, <5>2, ServiceFacts DEF Rising
        <5> QED BY <1>3, <5>2, <5>3
      <4>1. /\ catchingUp' = (catchingUp \/ h.key > nextBlock)
            /\ pendingBoundaries' = pendingBoundaries \cup {h} /\ UNCHANGED pendingRecords
            /\ failed' \in {"overflow", "no"}
        BY <3>1, <3>3, <4>0 DEF IngestBoundary
      <4>2. Pending' = Pending \cup {h} /\ NeverMisaligned'
        BY <4>1 DEF Pending, NeverMisaligned
      <4>3. ~catchingUp' => ~catchingUp
        BY <4>1
      <4>4. HeldOk(s, n, pendingRecords', pendingBoundaries', catchingUp')
        <5>1. h \in Emits(s)
          BY <2>1 DEF Emits
        <5> QED BY <1>5, <2>6, <4>1, <4>3, <5>1 DEF HeldOk
      <4> QED BY <2>4, <4>2, <4>3, <4>4
    <3> QED BY <3>2, <3>3
  <2> QED BY <1>10, <2>5, <2>6
<1>11. CASE h.kind \notin {"record", "boundary"}
  <2>1. \A j \in 1..Len(s) : h = s[j] => j <= n
    BY <1>6, <1>11
  <2>2. h.kind # "ahead"
    BY <1>2, <1>4 DEF EntryOk
  <2>3. CASE h.kind = "done"
    <3>1. PICK p \in n..Len(s) : EndsAt(s, n, Pending, Queue, 1, p)
      BY <1>2, <1>4, <2>3 DEF EntryOk
    <3>2. h.key = IndexOf(s, p) /\ h.block = BlockOf(s, p)
      BY <1>2, <3>1 DEF EndsAt
    <3>3. ~(h.key < nextIndex \/ h.block < nextBlock)
      <4>1. p \in 0..Len(s) /\ n <= p
        BY <1>3
      <4>2. /\ IndexOf(s, n) <= IndexOf(s, p) /\ BlockOf(s, n) <= BlockOf(s, p)
            /\ IndexOf(s, p) \in Nat /\ BlockOf(s, p) \in Nat
        BY <1>3, <4>1, ServiceFacts DEF Rising
      <4> QED BY <1>3, <3>2, <4>2
    <3>4. ~catchingUp' /\ UNCHANGED <<pendingRecords, pendingBoundaries, failed>>
      BY <2>3, <3>3 DEF Ingest, EndReplay
    <3>5. HeldOk(s, n, pendingRecords, pendingBoundaries, catchingUp')
      <4>1. ASSUME NEW l \in 1..Len(s), s[l] \in pendingRecords, NEW i \in 1..(l - 1)
            PROVE  i <= n \/ s[i] \in pendingRecords \cup pendingBoundaries
        <5>1. l <= p
          BY <3>1, <4>1 DEF EndsAt, Pending
        <5>2. i \in 1..p
          BY <1>3, <4>1, <5>1
        <5>3. Has(s, n, Pending, Queue, i, 1 - 1)
          BY <3>1, <5>2 DEF EndsAt
        <5> QED BY <5>3 DEF Has, Pending
      <4> QED BY <1>5, <4>1 DEF HeldOk
    <3>6. NeverMisaligned'
      BY <3>4 DEF ReaderInv, NeverMisaligned
    <3> QED BY <1>9, <2>1, <2>3, <3>4, <3>5, <3>6
  <2>4. CASE h.kind = "start"
    <3>1. catchingUp' /\ UNCHANGED <<pendingRecords, pendingBoundaries, failed>>
      BY <2>4 DEF Ingest
    <3>2. HeldOk(s, n, pendingRecords, pendingBoundaries, catchingUp')
      BY <1>5, <3>1 DEF HeldOk
    <3>3. NeverMisaligned'
      BY <3>1 DEF ReaderInv, NeverMisaligned
    <3> QED BY <1>9, <2>1, <3>1, <3>2, <3>3
  <2>5. CASE h.kind = "unavailable"
    <3>1. UNCHANGED <<pendingRecords, pendingBoundaries, catchingUp>> /\ failed' = "unavailable"
      BY <2>5 DEF Ingest, pendingVars
    <3>2. NeverMisaligned'
      BY <3>1 DEF NeverMisaligned
    <3>3. h.kind # "start"
      BY <2>5
    <3> QED BY <1>5, <1>9, <2>1, <3>1, <3>2, <3>3
  <2> QED BY <1>11, <2>2, <2>3, <2>4, <2>5 DEF Ingest
<1> QED BY <1>10, <1>11

\* A new process starts at the end of a block.
LEMMA ResumeKeepsReader ==
    ASSUME ServiceInv, NEW n \in BlockEnds, Resume(n)
    PROVE  ReaderInv' /\ n \in 0..Len(stream) /\ Reader!Resume(n)
<1>1. /\ stream \in Seq(Frames) /\ Len(stream) \in Nat /\ n \in 0..Len(stream) /\ n \in Nat
      /\ n = 0 \/ stream[n].kind = "boundary"
      /\ IndexOf(stream, n) \in Nat
  BY ServiceFacts DEF BlockEnds
<1>2. /\ UNCHANGED stream /\ delivered' = SubSeq(stream, 1, n)
      /\ nextIndex' = IndexOf(stream, n) /\ nextBlock' = BlockOf(stream, n)
      /\ pendingRecords' = {} /\ pendingBoundaries' = {} /\ inbox' = <<>> /\ link' = <<>>
      /\ failed' = "no" /\ ~connected' /\ ~alive' /\ requests' = <<>> /\ loadedIndex' = -1
  BY CursorOfStream DEF Resume, serviceVars
<1>3. Len(delivered') = n
  BY <1>1, <1>2
<1>4. Queue' = <<>> /\ Len(Queue') = 0
  BY <1>2 DEF Queue
<1>5. CursorInv'
  BY <1>1, <1>2, <1>3 DEF CursorInv
<1>6. ChannelInv'
  <2>1. HeldOk(stream', n, {}, {}, catchingUp')
    BY DEF HeldOk
  <2>2. \A e \in 1..Len(Queue') : FALSE
    BY <1>4
  <2>3. HeldOk(stream', Len(delivered'), pendingRecords', pendingBoundaries', catchingUp')
    BY <1>2, <1>3, <2>1
  <2> QED BY <2>2, <2>3 DEF ChannelInv
<1>7. OpenInv' /\ RequestInv' /\ SessionInv' /\ NeverMisaligned'
  BY <1>1, <1>2 DEF OpenInv, RequestInv, SessionInv, NeverMisaligned
<1>8. Reader!Resume(n)
  BY <1>1, <1>2 DEF Reader!Resume, Reader!Prefix
<1> QED BY <1>1, <1>5, <1>6, <1>7, <1>8 DEF ReaderInv

-----------------------------------------------------------------------------
(* The theorems *)

LEMMA ReaderStep ==
    ASSUME ~LossyFailovers, ServiceInv, Types, ReaderInv, [Next]_vars
    PROVE  ReaderInv' /\ [Reader!Next]_<<stream, delivered>>
<1>1. ASSUME NEW slots \in Widths, EmitRecord(slots) PROVE ReaderInv' /\ Reader!Write
  <2> DEFINE f == Record(canonicalCount, slots)
  <2>1. f \in Frames /\ f.kind = "record" /\ f.key = canonicalCount
    BY ServiceFacts, StreamAssumption DEF Record, Frames
  <2>2. /\ stream' = Append(stream, f)
        /\ link' = Offered(<<f>>) \/ (~consumer /\ link' = link)
        /\ UNCHANGED <<connected, alive, consumer, requests, loadedIndex, readerVars>>
    BY <1>1 DEF EmitRecord
  <2> HIDE DEF f
  <2> QED BY <2>1, <2>2, EmitKeepsReader
<1>2. ASSUME EmitBoundary PROVE ReaderInv' /\ Reader!Write
  <2> DEFINE f == Boundary(blockNumber, canonicalCount)
  <2>1. f \in Frames /\ f.kind = "boundary" /\ f.key = blockNumber
    BY ServiceFacts DEF Boundary, Frames
  <2>2. /\ stream' = Append(stream, f) /\ link' = Offered(<<f>>)
        /\ UNCHANGED <<connected, alive, consumer, requests, loadedIndex, readerVars>>
    BY <1>2 DEF EmitBoundary
  <2> HIDE DEF f
  <2> QED BY <2>1, <2>2, EmitKeepsReader
<1>3. ASSUME (\E head \in Posted : SetPostedHead(head)) \/ UNCHANGED vars
      PROVE  ReaderInv' /\ UNCHANGED <<stream, delivered>>
  <2>1. UNCHANGED <<stream, sessionVars, readerVars>>
    BY <1>3 DEF SetPostedHead, vars, serviceVars
  <2>2. /\ UNCHANGED <<stream, delivered, nextIndex, nextBlock, inbox, link, requests, loadedIndex>>
        /\ UNCHANGED <<pendingRecords, pendingBoundaries, catchingUp, failed>>
        /\ UNCHANGED <<connected, alive, consumer>>
    BY <2>1 DEF sessionVars, readerVars, cursorVars, pendingVars
  <2>3. RequestInv' /\ SessionInv' /\ Queue' = Queue
    BY <2>2 DEF ReaderInv, RequestInv, SessionInv, Queue
  <2>4. ReaderInv'
    BY <2>2, <2>3, QuietStep
  <2> QED BY <2>2, <2>4
<1>4. ASSUME HandleReplayRequest PROVE ReaderInv' /\ UNCHANGED <<stream, delivered>>
  BY <1>4, ReplayKeepsReader DEF HandleReplayRequest, serviceVars, readerVars
<1>5. ASSUME \/ Connect \/ Subscribe \/ Receive
             \/ SendReplay \/ ResendEarly \/ PublishFails \/ LoadIndex \/ LoadBlock
             \/ EgressDies \/ ResetSession \/ Failover
      PROVE  ReaderInv' /\ UNCHANGED <<stream, delivered>>
  <2>1. ReaderInv'
    BY <1>5, SessionKeepsReader
  <2>2. UNCHANGED <<stream, delivered>>
    BY <1>5 DEF Connect, Subscribe, Receive, SendReplay, ResendEarly, PublishFails, LoadIndex,
                LoadBlock, PublishRequest, EgressDies, ResetSession, Failover, serviceVars,
                readerVars
  <2> QED BY <2>1, <2>2
<1>6. ASSUME DeliverBoundary \/ DeliverRecord PROVE ReaderInv' /\ Reader!Read
  BY <1>6, BoundaryKeepsReader, RecordKeepsReader
<1>7. ASSUME Ingest PROVE ReaderInv' /\ UNCHANGED <<stream, delivered>>
  BY <1>7, IngestKeepsReader DEF Ingest, serviceVars
<1>8. ASSUME Crash \/ Restart \/ AdoptCheckpoint
      PROVE  ReaderInv' /\ \E n \in 0..Len(stream) : Reader!Resume(n)
  <2>1. PICK n \in BlockEnds : Resume(n)
    BY <1>8 DEF Crash, Restart, AdoptCheckpoint, OwnState, PeerState
  <2> QED BY <2>1, ResumeKeepsReader
<1> QED BY <1>1, <1>2, <1>3, <1>4, <1>5, <1>6, <1>7, <1>8 DEF Next, Reader!Next

LEMMA ReaderInit == Init => ReaderInv /\ Reader!Init
<1> SUFFICES ASSUME Init PROVE ReaderInv /\ Reader!Init
  OBVIOUS
<1>1. /\ stream = <<>> /\ delivered = <<>> /\ Len(stream) = 0 /\ Len(delivered) = 0
      /\ inbox = <<>> /\ link = <<>> /\ requests = <<>> /\ Len(requests) = 0
      /\ nextIndex = 0 /\ nextBlock = 1 /\ loadedIndex = -1
      /\ pendingRecords = {} /\ pendingBoundaries = {} /\ failed = "no"
  BY DEF Init
<1>2. ~connected /\ ~alive
  BY DEF Init
<1>3. CursorInv
  <2>1. IndexOf(stream, 0) = 0 /\ BlockOf(stream, 0) = 1
    BY CursorAtStart
  <2>2. SubSeq(stream, 1, 0) = <<>>
    BY <1>1
  <2> QED BY <1>1, <2>1, <2>2 DEF CursorInv
<1>4. ChannelInv
  <2>1. Len(Queue) = 0
    BY <1>1 DEF Queue
  <2>2. \A e \in 1..Len(Queue) : FALSE
    BY <2>1
  <2> QED BY <1>1, <2>2 DEF ChannelInv, HeldOk
<1>5. OpenInv /\ RequestInv /\ SessionInv /\ NeverMisaligned
  BY <1>1, <1>2 DEF OpenInv, RequestInv, SessionInv, NeverMisaligned
<1> QED BY <1>1, <1>3, <1>4, <1>5 DEF ReaderInv, Reader!Init

LEMMA ReaderInvariant ==
    ASSUME ~LossyFailovers
    PROVE  Spec => [](ServiceInv /\ Types /\ ReaderInv)
<1>1. Init => ReaderInv
  BY ReaderInit
<1>2. ServiceInv /\ Types /\ ReaderInv /\ [Next]_vars => ReaderInv'
  BY ReaderStep
<1> QED BY <1>1, <1>2, TypesInvariant, PTL DEF Spec

\* ingest_boundary, end_replay: no boundary comes after a record that follows it,
\* and no replay ends before the cursor, for every pattern of lost sessions,
\* torn cursors, resends, crashes and evictions.  A leader change that loses
\* frames in flight is excluded: the run MCFailover shows what it does.
THEOREM ReaderStaysAligned ==
    ASSUME ~LossyFailovers
    PROVE  Spec => []NeverMisaligned
<1>1. ReaderInv => NeverMisaligned
  BY DEF ReaderInv
<1> QED BY <1>1, ReaderInvariant, PTL

\* The refinement: under the same condition, the stream and what the reader has
\* applied behave as the one log and the reader of LogReader.
THEOREM StreamImplementsLog ==
    ASSUME ~LossyFailovers
    PROVE  Spec => ReadsTheLog
<1>1. Init => Reader!Init
  BY ReaderInit
<1>2. ServiceInv /\ Types /\ ReaderInv /\ [Next]_vars => [Reader!Next]_<<stream, delivered>>
  BY ReaderStep
<1> QED BY <1>1, <1>2, ReaderInvariant, PTL DEF Spec, ReadsTheLog, Reader!Spec

================================================================================
