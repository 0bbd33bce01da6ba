---------------------------- MODULE SealerMembers ----------------------------
(***************************************************************************)
(* Two members of the sealer cluster that apply the same committed log.    *)
(* The first runs without a break.  The second restarts at any log         *)
(* position from the snapshot of that position (takeSnapshot, load), and   *)
(* applies the same messages after it.  The consensus module delivers one  *)
(* log with one timestamp per message, so the members move in lockstep:    *)
(* what the model leaves out is only how far a member lags.                *)
(***************************************************************************)
EXTENDS CanonicalSealer

VARIABLES
    rCanonicalCount, rBlockNumber, rLastBoundaryCount, rLastL2Timestamp,
    rL1Origin, rRemoteOrigins, rDedup, rExpectedNonce, rRecency, rPostedHead,
    rBestRecorded, rWindow, rVotes, rCanonical, rSealed, rEvicted, rAsked,
    restarts   \* how often the second member restarted

CONSTANT MaxRestarts   \* bound: restarts of the second member

ASSUME RestartsAssumption == MaxRestarts \in Nat

R == INSTANCE CanonicalSealer WITH
        canonicalCount <- rCanonicalCount, blockNumber <- rBlockNumber,
        lastBoundaryCount <- rLastBoundaryCount, lastL2Timestamp <- rLastL2Timestamp,
        l1Origin <- rL1Origin, remoteOrigins <- rRemoteOrigins, dedup <- rDedup,
        expectedNonce <- rExpectedNonce, recency <- rRecency,
        postedHead <- rPostedHead, bestRecorded <- rBestRecorded,
        window <- rWindow, votes <- rVotes, canonical <- rCanonical,
        sealed <- rSealed, evicted <- rEvicted, asked <- rAsked

memberVars == <<vars, R!vars, restarts>>

MInit == Init /\ R!Init /\ restarts = 0

-----------------------------------------------------------------------------
(* The snapshot of the second member, as load restores it *)

\* Each id carries its deadline, and load puts it back through insertFresh.
RestoredDedup ==
    [i \in Ids |-> IF R!Held(i) THEN Lesser(rDedup[i], R!AssignedDeadline) ELSE Absent]

\* Mutant: the snapshot lists the youngest sender first.
RestoredRecencyReversed == [i \in 1..Len(rRecency) |-> rRecency[Len(rRecency) + 1 - i]]

\* The senders in iteration order, eldest first, so a restore rebuilds the
\* same eviction order.
RestoredRecency == rRecency

\* heldIndices: only the indices that the void window still covers.
RestoredWindow ==
    {e \in rWindow : e.index >= rCanonicalCount - VoidCapacity /\ e.index < rCanonicalCount}

\* Mutant: the snapshot holds no open vote.
RestoredVotesNone == {}

\* restoreVote: only the votes of configured voters.
RestoredVotes == {p \in rVotes : p[2] \in Voters}

\* Versions 14 to 18 hold no recorded cursor.
RestoredBest == Absent

Restart ==
    /\ restarts < MaxRestarts
    /\ restarts' = restarts + 1
    /\ rDedup' = RestoredDedup
    /\ rRecency' = RestoredRecency
    /\ rWindow' = RestoredWindow
    /\ rVotes' = RestoredVotes
    /\ rBestRecorded' = RestoredBest
    /\ UNCHANGED <<vars, rCanonicalCount, rBlockNumber, rLastBoundaryCount,
                   rLastL2Timestamp, rL1Origin, rRemoteOrigins, rExpectedNonce,
                   rPostedHead, rCanonical, rSealed, rEvicted, rAsked>>

-----------------------------------------------------------------------------
(* One log message, applied by both members *)

Apply ==
    /\ \/ \E tx \in Txs, seen \in 0..SealedHead : Offer(tx, seen) /\ R!Offer(tx, seen)
       \/ \E ms \in Clocks : OnTick(ms) /\ R!OnTick(ms)
       \/ \E epoch \in Epochs, ms \in Clocks :
             OnOriginRecord(epoch, ms) /\ R!OnOriginRecord(epoch, ms)
       \/ \E batch \in Batches, ms \in Clocks :
             OnRemoteOriginRecord(batch, ms) /\ R!OnRemoteOriginRecord(batch, ms)
       \/ \E head \in Posted : OnPostedCursor(head) /\ R!OnPostedCursor(head)
       \/ \E c \in Recorded : OnRecordedCursor(c[1], c[2]) /\ R!OnRecordedCursor(c[1], c[2])
       \/ \E v \in Voters \cup Strangers, i \in 0..canonicalCount, t \in Txs :
             OnVoidRequest(v, i, t.id) /\ R!OnVoidRequest(v, i, t.id)
    /\ WithinBounds'
    /\ UNCHANGED restarts

MNext == Restart \/ Apply

MSpec == MInit /\ [][MNext]_memberVars

-----------------------------------------------------------------------------
(* Properties *)

\* "Later behavior matches the snapshotted instance exactly" (load): both
\* members relay the same records at the same indices and stamp the same
\* boundaries, whatever is in flight when the second one restarts.
MembersAgree == rCanonical = canonical /\ rSealed = sealed

\* The members also agree on what they will admit: the same window, the same
\* expected nonces and the same eviction order.
AdmissionAgrees ==
    /\ rDedup = dedup
    /\ rExpectedNonce = expectedNonce
    /\ rRecency = recency

=============================================================================
