------------------------------- MODULE Sequencer -------------------------------
(***************************************************************************)
(* One sequencer replica of a shard, one sender of that shard, the nonce   *)
(* guard of the sealer, the twin replica and the receipts of the           *)
(* executors.                                                              *)
(*                                                                         *)
(* The replicas of a shard read the same ingress stream and race to offer  *)
(* references to the sealer.  An offer is not a commit: it can vanish with *)
(* a leader, the sealer can refuse it, and the answer or the receipt can   *)
(* be lost.  A replica keeps three things against that: the nonce floor    *)
(* with the transactions that wait (PartitionState), the published         *)
(* references that no receipt has confirmed (UnconfirmedLedger), and the   *)
(* floor that receipts prove (ResyncController).                           *)
(*                                                                         *)
(* The state of the replica is one record, and a method of the code is an  *)
(* operator from records to records.  One pass of the loop (run_once) is   *)
(* one action.  What a drain of the pass finds in its channel is what has  *)
(* arrived so far: any prefix of what was sent.                            *)
(*                                                                         *)
(* Abstraction.  Senders share nothing but batches, so one is enough.  A   *)
(* transaction is a nonce and a copy number; its hash and its deadline are *)
(* those of the pair.  Whatever has a deadline may pass it at any moment.  *)
(* The twin touches this replica only through the sealer: it may get any   *)
(* ingress transaction ordered that the guard takes.                       *)
(***************************************************************************)
EXTENDS Integers, Sequences, FiniteSets, SequencesExt

CONSTANTS
    Txs,          \* transactions [nonce, copy] the client may submit
    MaxPending,   \* max_pending_per_sender
    FirstNonce,   \* the account nonce at the start
    MaxInFlight,  \* references the publication takes before it pushes back
    FaultKinds,   \* the faults that may happen
    MaxFaults,    \* bound: how many faults happen
    MaxAnswers    \* bound: answers that wait in the two channels

ASSUME SequencerAssumption ==
    /\ Txs \subseteq [nonce : Nat, copy : Nat]
    /\ IsFiniteSet(Txs)
    /\ MaxPending \in Nat \ {0}
    /\ FirstNonce \in Nat \ {0}
    /\ MaxInFlight \in Nat \ {0}
    /\ MaxFaults \in Nat
    /\ MaxAnswers \in Nat \ {0}

VARIABLES
    ingress,    \* the tx_data stream of the shard
    pos,        \* how much of ingress the replica has read
    rep,        \* the state of the replica
    offers,     \* references in flight to the sealer
    answers,    \* the rewind channel
    refusals,   \* the channel of terminal refusals
    guard,      \* the nonce the sealer expects
    ordered,    \* the canonical references, in order
    late,       \* transactions past their inclusion deadline
    receipts,   \* the receipts of the ordered references
    chain,      \* the account nonce on the chain
    read,       \* how much of receipts the replica has read
    faults      \* faults so far

channelVars == <<offers, answers, refusals>>
sealerVars == <<guard, ordered, late>>
executorVars == <<receipts, chain>>
vars == <<ingress, pos, rep, channelVars, sealerVars, executorVars, read, faults>>

Absent == -1
NoTx == [nonce |-> Absent, copy |-> Absent]
NoSlot == [tx |-> NoTx, ttl |-> FALSE]
Nonces == {t.nonce : t \in Txs}

Larger(a, b) == IF a < b THEN b ELSE a
Smaller(a, b) == IF a < b THEN a ELSE b

\* A started replica knows no floor and no transaction.
FreshReplica ==
    [next    |-> Absent,                          \* PartitionState::next
     pending |-> [n \in Nonces |-> NoSlot],       \* parked or rebuffered
     refused |-> {},                              \* nonces the sealer refused
     ledger  |-> <<>>,                            \* unconfirmed, oldest publish first
     floor   |-> Absent,                          \* ResyncController::floor
     owed    |-> {},                              \* history: accepted and not settled
     stale   |-> FALSE]                           \* history: it offered an executed nonce again

Init ==
    /\ ingress = <<>>
    /\ pos = 0
    /\ rep = FreshReplica
    /\ offers = <<>>
    /\ answers = <<>>
    /\ refusals = <<>>
    /\ chain = FirstNonce
    /\ guard = FirstNonce
    /\ ordered = <<>>
    /\ late = {}
    /\ receipts = <<>>
    /\ read = 0
    /\ faults = 0

\* The faults of one step, within the budget of the run.
Possible(kinds) == kinds \subseteq FaultKinds /\ faults + Cardinality(kinds) <= MaxFaults
Faults(kinds) == Possible(kinds) /\ faults' = faults + Cardinality(kinds)
Fault(kind) == Faults({kind})

\* The elements of a sequence that are in `kept`, in their order.
Only(seq, kept) ==
    FoldLeft(LAMBDA r, u : IF u \in kept THEN Append(r, u) ELSE r, <<>>, seq)

-----------------------------------------------------------------------------
(* PartitionState *)

NextNonce(s) == Larger(s.next, 0)
Holds(s, n) == n \in Nonces /\ s.pending[n] # NoSlot
Published(s, n) == \E i \in DOMAIN s.ledger : s.ledger[i].nonce = n
Parked(s) == {n \in Nonces : Holds(s, n)}

\* The client of nonce n hears of it: nothing is owed unless a copy is held.
Told(s, n) ==
    IF Holds(s, n) \/ Published(s, n) THEN s ELSE [s EXCEPT !.owed = @ \ {n}]

Emptied(s, gone) ==
    [s EXCEPT !.pending = [n \in Nonces |-> IF n \in gone THEN NoSlot ELSE @[n]]]

RewindFloor(s, n) ==
    [s EXCEPT !.next = IF @ = Absent THEN n ELSE Smaller(@, n)]

\* Mutant: a rewind sets the floor to its own nonce.
ReinsertForRetryRaising(s, t) ==
    [s EXCEPT !.next = t.nonce, !.pending[t.nonce] = [tx |-> t, ttl |-> FALSE]]

\* reinsert_for_retry: unbounded, without a deadline, and the floor only goes down.
ReinsertForRetry(s, t) ==
    [RewindFloor(s, t.nonce) EXCEPT !.pending[t.nonce] = [tx |-> t, ttl |-> FALSE]]

MarkRefused(s, n) == IF n < NextNonce(s) THEN [s EXCEPT !.refused = @ \cup {n}] ELSE s

\* park, for a nonce above the floor: the lowest MaxPending nonces stay.
Park(s, t) ==
    LET held == Parked(s)
        furthest == CHOOSE n \in held : \A m \in held : m <= n
        slot == [tx |-> t, ttl |-> TRUE]
        full == t.nonce \notin held /\ Cardinality(held) >= MaxPending
        took == [s EXCEPT !.pending[t.nonce] = slot,
                          !.owed = @ \cup {t.nonce}]
    IN  IF ~full THEN took
        ELSE IF t.nonce > furthest THEN Told(s, t.nonce)
        ELSE Told(Emptied(took, {furthest}), furthest)

\* The buffered run that starts at nonce n, as a sequence of transactions.
RunFrom(s, n) ==
    LET end == CHOOSE m \in n..(n + Cardinality(Nonces)) :
                   ~Holds(s, m) /\ \A k \in n..(m - 1) : Holds(s, k)
    IN  [i \in 1..(end - n) |-> s.pending[n + i - 1].tx]

\* Take the run out of the buffer: the floor moves past it.
Drained(s, run) ==
    [Emptied(s, {run[i].nonce : i \in DOMAIN run}) EXCEPT !.next = Last(run).nonce + 1]

\* advance_floor: every nonce below the floor executed, so what waits there drops.
AdvanceFloor(s, floor) ==
    IF floor <= NextNonce(s) THEN s
    ELSE LET below == {n \in Parked(s) : n < floor}
         IN  [Emptied(s, below) EXCEPT !.next = floor,
                                       !.refused = {n \in @ : n >= floor},
                                       !.owed = @ \ below]

\* Mutant: a skip receipt leaves the floor above the chain.
ReleaseFloorNever(s, n) == s

\* release_floor: a skipped transaction used no nonce, the floor goes back to it.
ReleaseFloor(s, n) ==
    IF s.next > n THEN [s EXCEPT !.next = n, !.refused = {m \in @ : m < n}] ELSE s

-----------------------------------------------------------------------------
(* UnconfirmedLedger *)

RecordPublished(s, t) ==
    [s EXCEPT !.ledger = Append(Only(@, {u \in Txs : u.nonce # t.nonce}), t),
              !.refused = @ \ {t.nonce}]

\* confirm_through: a receipt at nonce n settles every published nonce up to n.
ConfirmThrough(s, n) ==
    [s EXCEPT !.ledger = Only(@, {u \in Txs : u.nonce > n}),
              !.owed = {m \in @ : m > n \/ Holds(s, m)}]

\* Remove the ledger entries in `taken`, a set of transactions.
Unrecord(s, taken) == [s EXCEPT !.ledger = Only(@, Txs \ taken)]

LedgerFrom(s, n) == {s.ledger[i] : i \in {j \in DOMAIN s.ledger : s.ledger[j].nonce >= n}}

\* rewind_for_republish: the taken references go back to the buffer.
RewindForRepublish(s, taken) ==
    FoldLeft(ReinsertForRetry, Unrecord(s, taken), Only(s.ledger, taken))

-----------------------------------------------------------------------------
(* Receipts *)

\* Outcome::released: the nonce the chain expects after a skip, or Absent.
Released(c, floor) ==
    IF c.kind = "executed" \/ c.nonce < floor THEN Absent
    ELSE IF c.kind = "high" THEN floor ELSE c.nonce

\* fold_floor_update, with the lists of one drain in d.
FoldReceipt(d, c) ==
    LET release == Released(c, Larger(d.floor, 0))
        raise == IF c.kind = "executed" /\ c.nonce + 1 > d.floor THEN c.nonce + 1 ELSE Absent
    IN  [floor     |-> Larger(d.floor, raise),
         confirmed |-> Append(d.confirmed, c.nonce),
         released  |-> IF release = Absent THEN d.released ELSE Append(d.released, release),
         raised    |-> IF raise = Absent THEN d.raised ELSE Append(d.raised, raise)]

\* apply_receipt_drain: the confirmations, then the releases, then the raises.
ApplyReceiptDrain(s, cs) ==
    LET d == FoldLeft(FoldReceipt, [floor |-> s.floor, confirmed |-> <<>>,
                                    released |-> <<>>, raised |-> <<>>], cs)
        confirmed == FoldLeft(ConfirmThrough, [s EXCEPT !.floor = d.floor], d.confirmed)
    IN  FoldLeft(AdvanceFloor, FoldLeft(ReleaseFloor, confirmed, d.released), d.raised)

-----------------------------------------------------------------------------
(* The answers of the sealer *)

\* Mutant: the client is told, and the refused reference stays in the ledger.
ApplyRefusalKeeping(s, f) == Told(s, f.nonce)

\* Mutant: the refusal takes whatever copy the ledger holds at its nonce.
ApplyRefusalAnyCopy(s, f) ==
    LET held == {t \in LedgerFrom(s, 0) : t.nonce = f.nonce}
    IN  Told(IF held = {} THEN s ELSE MarkRefused(Unrecord(s, held), f.nonce), f.nonce)

\* take_refused and report_refusal: only a named copy leaves, and its nonce is
\* marked.  A refusal by a lag guard names no copy (its tx is NoTx).  named_by
\* compares the deadlines: a resubmit has a later one, and copies that share one
\* are late together, so a late refusal that names one is true of each of them.
ApplyRefusal(s, f) ==
    LET named == {t \in Txs : t.nonce = f.nonce /\ f.tx \in {t, NoTx}}
        inLedger == named \cap LedgerFrom(s, 0)
        slot == s.pending[f.nonce]
        taken == IF inLedger # {} THEN MarkRefused(Unrecord(s, inLedger), f.nonce)
                 ELSE IF slot.ttl /\ slot.tx \in named
                 THEN MarkRefused(Emptied(s, {f.nonce}), f.nonce)
                 ELSE s
    IN  Told(taken, f.nonce)

\* apply_past_reject: the ledger's reference at the nonce is refused.
ApplyPastReject(s, a) ==
    IF Published(s, a.nonce) THEN ApplyRefusal(s, [nonce |-> a.nonce, tx |-> NoTx]) ELSE s

\* Mutant: every later reference is filed under the freed nonce.
FreeNonceMisfiled(s, n) ==
    LET later == LedgerFrom(s, n)
        freed == RewindFloor(Unrecord(s, later), n)
    IN  [freed EXCEPT !.refused = {m \in @ : m < n},
                      !.pending[n] = IF later = {} THEN @
                                     ELSE [tx |-> CHOOSE t \in later : TRUE, ttl |-> TRUE]]

\* free_nonce: only the client can sign the nonce again; the later refs park.
FreeNonce(s, n) ==
    LET later == LedgerFrom(s, n)
        freed == RewindFloor(Unrecord(s, later), n)
    IN  [freed EXCEPT
            !.refused = {m \in @ : m < n},
            !.pending = [m \in Nonces |-> IF \E t \in later : t.nonce = m
                                          THEN [tx |-> CHOOSE t \in later : t.nonce = m,
                                                ttl |-> TRUE]
                                          ELSE @[m]]]

ApplyGap(s, expected) ==
    IF Published(s, expected) \/ Holds(s, expected)
    THEN RewindForRepublish(s, LedgerFrom(s, expected))
    ELSE FreeNonce(s, expected)

\* republish_held: the window was full, the reference and the later ones go again.
RepublishHeld(s, a) ==
    IF Published(s, a.nonce) THEN RewindForRepublish(s, LedgerFrom(s, a.nonce)) ELSE s

\* Mutant: a reject that waited in the channel keeps the nonce it names.
RaisedToFloorNever(s, a) == a.expected

\* fold_answer: the expected nonce of a reject is raised to the receipt floor.
RaisedToFloor(s, a) == Larger(a.expected, s.floor)

\* apply_sealer_answers: drops, then the lowest gap, then the window-full answers.
ApplySealerAnswers(s, as) ==
    LET rejects == {a \in ToSet(as) : a.kind = "reject"}
        drops == {a \in rejects : a.nonce < RaisedToFloor(s, a)}
        gaps == {RaisedToFloor(s, a) : a \in rejects \ drops}
        full == {a \in ToSet(as) : a.kind = "full"}
        dropped == FoldLeft(ApplyPastReject, s, Only(as, drops))
        healed == IF gaps = {} THEN dropped
                  ELSE ApplyGap(dropped, CHOOSE g \in gaps : \A h \in gaps : g <= h)
    IN  FoldLeft(RepublishHeld, healed, Only(as, full))

-----------------------------------------------------------------------------
(* The loop of a replica *)

\* Mutant: the tail that the publication refused is dropped.
RebufferNothing(s, t) == s

\* rebuffer_one: a re-offer of a refused nonce is reported, the rest waits.
Rebuffer(s, t) ==
    IF t.nonce \in s.refused THEN Told(s, t.nonce) ELSE ReinsertForRetry(s, t)

\* flush_drained: offer the run, record what the publication took, rebuffer
\* the rest in reverse.  It takes all it has room for, or pushes back earlier.
Flush(s, run, mishaps) ==
    LET room == Smaller(Len(run), MaxInFlight - Len(offers))
    IN  \E k \in 0..room :
          /\ Faults(mishaps \cup IF k < room THEN {"pushback"} ELSE {})
          /\ offers' = offers \o SubSeq(run, 1, k)
          /\ LET sent == FoldLeft(RecordPublished, s, SubSeq(run, 1, k))
                 rest == Reverse(SubSeq(run, k + 1, Len(run)))
             IN  rep' = FoldLeft(Rebuffer, sent, rest)

\* run_once, when nothing waits at the floor: process one envelope of ingress.
Ingest(old, mishaps) ==
    LET t == ingress[pos + 1]
        n == t.nonce
        s == [old EXCEPT !.next = NextNonce(old)]
        took == [s EXCEPT !.owed = @ \cup {n}]
        run == <<t>> \o RunFrom(s, n + 1)
        Keep(r) == rep' = r /\ UNCHANGED offers /\ Faults(mishaps)
        again == [took EXCEPT !.stale = @ \/ n < s.floor]
    IN  \/ n < s.next /\ n \in s.refused /\ Flush(again, <<t>>, mishaps)
        \/ n < s.next /\ n \notin s.refused /\ Keep(s)
        \/ n > s.next /\ Keep(Park(s, t))
        \/ n = s.next /\ Flush(Drained(took, run), run, mishaps)

\* run_once after the bookkeeping: flush what waits at the floor, or else poll.
FlushOrPoll(s, mishaps) ==
    LET run == RunFrom(s, NextNonce(s))
    IN  \/ run # <<>> /\ Flush(Drained(s, run), run, mishaps) /\ UNCHANGED pos
        \/ run = <<>> /\ pos < Len(ingress) /\ Ingest(s, mishaps) /\ pos' = pos + 1
        \/ /\ run = <<>>
           /\ rep' = s
           /\ Faults(mishaps)
           /\ UNCHANGED <<pos, offers>>

\* The entries of a floor drain that are no new receipts: the answer to the lookup
\* that the first park asks for, which is the committed nonce of some height, or
\* the receipt of an executor that lags.
OtherEvidence ==
    {[of |-> "none", drain |-> <<>>]}
    \cup {[of |-> "lookup", drain |-> <<[nonce |-> c - 1, kind |-> "executed"]>>] :
              c \in IF rep.floor = Absent /\ rep.next # Absent THEN 1..chain ELSE {}}
    \cup {[of |-> "old", drain |-> <<receipts[i]>>] : i \in 1..read}

\* sweep_confirm_timeouts: the k oldest publishes have timed out.
SweepConfirmTimeouts(s, k) == RewindForRepublish(s, ToSet(SubSeq(s.ledger, 1, k)))

\* expiry_tick: entries that wait on a nonce gap outlive their deadline.
Expirable(s) == {n \in Nonces : s.pending[n].ttl /\ n > NextNonce(s)}
SweepExpired(s, gone) ==
    [Emptied(s, gone) EXCEPT !.owed = {n \in @ : n \in gone => Published(s, n)}]

\* One pass of the loop: resync_tick with the receipts, refusals and answers that
\* have arrived, the two sweeps, then the flush or the poll.  The confirm timeout
\* is longer than a round trip to the sealer, so a sweep that comes before an
\* answer is a fault.
RunOnce ==
    /\ \E c \in read..Len(receipts), f \in 0..Len(refusals), a \in 0..Len(answers),
          other \in OtherEvidence :
          LET lag == IF other.of = "old" THEN {"old"} ELSE {}
              rush == IF offers # <<>> \/ f < Len(refusals) \/ a < Len(answers)
                      THEN {"early"} ELSE {}
              proven == ApplyReceiptDrain(rep, other.drain \o SubSeq(receipts, read + 1, c))
              told == FoldLeft(ApplyRefusal, proven, SubSeq(refusals, 1, f))
              healed == ApplySealerAnswers(told, SubSeq(answers, 1, a))
          IN  /\ Possible(lag)
              /\ read' = c
              /\ refusals' = SubSeq(refusals, f + 1, Len(refusals))
              /\ answers' = SubSeq(answers, a + 1, Len(answers))
              /\ \E k \in 0..Len(healed.ledger) :
                    LET swept == SweepConfirmTimeouts(healed, k)
                        mishaps == lag \cup IF k > 0 THEN rush ELSE {}
                    IN  /\ Possible(mishaps)
                        /\ \E gone \in SUBSET Expirable(swept) :
                              FlushOrPoll(SweepExpired(swept, gone), mishaps)
    /\ UNCHANGED <<ingress, sealerVars, executorVars>>

\* The process restarts: nothing is on disk, and every stream is joined live.
Restart ==
    /\ Fault("restart")
    /\ rep' = FreshReplica
    /\ pos' = Len(ingress)
    /\ read' = Len(receipts)
    /\ offers' = <<>>
    /\ answers' = <<>>
    /\ refusals' = <<>>
    /\ UNCHANGED <<ingress, sealerVars, executorVars>>

-----------------------------------------------------------------------------
(* The channels, the sealer, the executors and the client *)

\* A leader change voids the references in flight.
LoseOffers ==
    /\ Fault("offers")
    /\ offers # <<>>
    /\ offers' = <<>>
    /\ UNCHANGED <<ingress, pos, rep, answers, refusals, sealerVars,
                   executorVars, read>>

\* forward_answer and forward_refusal drop into a full channel.
LoseAnswer ==
    /\ Fault("answers")
    /\ \/ /\ answers # <<>>
          /\ answers' = Tail(answers)
          /\ UNCHANGED refusals
       \/ /\ refusals # <<>>
          /\ refusals' = Tail(refusals)
          /\ UNCHANGED answers
    /\ UNCHANGED <<ingress, pos, rep, offers, sealerVars, executorVars, read>>

\* forward_one_receipt drops into a full channel.
LoseReceipt ==
    /\ Fault("receipts")
    /\ read < Len(receipts)
    /\ read' = read + 1
    /\ UNCHANGED <<ingress, pos, rep, channelVars, sealerVars, executorVars>>

\* The answer of CanonicalSealerState.onRecord.  An id stays in the dedup
\* window until its deadline passes.
Verdict(t) ==
    IF t \in ToSet(ordered) /\ t \notin late THEN "duplicate"
    ELSE IF t \in late THEN "late"
    ELSE IF guard # t.nonce THEN "reject"
    ELSE "relayed"

Order(t) == guard' = t.nonce + 1 /\ ordered' = Append(ordered, t)

SealerTakes ==
    /\ offers # <<>>
    /\ Len(answers) + Len(refusals) < MaxAnswers
    /\ offers' = Tail(offers)
    /\ LET t == Head(offers)
           n == t.nonce
           Answer(a) == answers' = Append(answers, a) /\ UNCHANGED refusals
           Refuse(f) == refusals' = Append(refusals, f) /\ UNCHANGED answers
       IN  \/ /\ Verdict(t) = "duplicate"
              /\ UNCHANGED <<answers, refusals, guard, ordered, faults>>
           \/ /\ Verdict(t) = "late"
              /\ Refuse([nonce |-> n, tx |-> t])
              /\ UNCHANGED <<guard, ordered, faults>>
           \/ /\ Verdict(t) \in {"reject", "relayed"}
              /\ Fault("lag")
              /\ Refuse([nonce |-> n, tx |-> NoTx])
              /\ UNCHANGED <<guard, ordered>>
           \/ /\ Verdict(t) \in {"reject", "relayed"}
              /\ Fault("full")
              /\ Answer([kind |-> "full", nonce |-> n, expected |-> Absent])
              /\ UNCHANGED <<guard, ordered>>
           \/ /\ Verdict(t) = "reject"
              /\ Answer([kind |-> "reject", nonce |-> n, expected |-> guard])
              /\ UNCHANGED <<guard, ordered, faults>>
           \/ /\ Verdict(t) = "relayed"
              /\ Order(t)
              /\ UNCHANGED <<answers, refusals, faults>>
    /\ UNCHANGED <<ingress, pos, rep, late, executorVars, read>>

\* flush_drained in the twin, or in a process of this replica that is gone: its
\* reference was in flight and the guard takes it.  The twin offers in its own order
\* and only what it holds; here it may offer whatever the shard has received.
TwinOrders ==
    /\ \E t \in ToSet(ingress) : Verdict(t) = "relayed" /\ Order(t)
    /\ UNCHANGED <<ingress, pos, rep, channelVars, late, executorVars, read, faults>>

\* The open block passes an inclusion deadline.  A proxy that lags stamps an
\* earlier one, so the deadlines pass in any order.
PassDeadline ==
    /\ \E t \in ToSet(ingress) \ late : late' = late \cup {t}
    /\ UNCHANGED <<ingress, pos, rep, channelVars, guard, ordered, executorVars, read, faults>>

\* The executors run the next reference: it uses its nonce, or it is skipped.
Execute ==
    /\ Len(receipts) < Len(ordered)
    /\ LET n == ordered[Len(receipts) + 1].nonce
           Emit(kind) == receipts' = Append(receipts, [nonce |-> n, kind |-> kind])
       IN  \/ n = chain /\ Emit("executed") /\ chain' = chain + 1 /\ UNCHANGED faults
           \/ n = chain /\ Fault("skip") /\ Emit("skipped") /\ UNCHANGED chain
           \/ n > chain /\ Emit("high") /\ UNCHANGED <<chain, faults>>
    /\ UNCHANGED <<ingress, pos, rep, channelVars, sealerVars, read>>

\* The client submits a transaction, in any order of nonces.
Submit ==
    /\ \E t \in Txs \ ToSet(ingress) :
          /\ \A u \in Txs : u.nonce = t.nonce /\ u.copy < t.copy => u \in ToSet(ingress)
          /\ ingress' = Append(ingress, t)
    /\ UNCHANGED <<pos, rep, channelVars, sealerVars, executorVars, read, faults>>

-----------------------------------------------------------------------------

Next ==
    \/ RunOnce \/ Restart
    \/ LoseOffers \/ LoseAnswer \/ LoseReceipt
    \/ SealerTakes \/ TwinOrders \/ PassDeadline \/ Execute \/ Submit

Spec == Init /\ [][Next]_vars

\* What a pass has to do does not wait forever.
LoopRuns ==
    /\ []<>(read = Len(receipts))
    /\ []<>(refusals = <<>> /\ answers = <<>>)
    /\ []<>(rep.ledger = <<>> \/ offers # <<>> \/ refusals # <<>> \/ answers # <<>>)
    /\ []<>(Expirable(rep) = {})
    /\ []<>(Holds(rep, NextNonce(rep)) => Len(offers) = MaxInFlight)
    /\ []<>(pos < Len(ingress) => Holds(rep, NextNonce(rep)))

\* The loop runs, the sealer takes offers, the executors keep up, and no
\* transaction stays before its deadline forever.
FairSpec ==
    /\ Spec /\ LoopRuns /\ WF_vars(SealerTakes)
    /\ []<>(Len(receipts) = Len(ordered))
    /\ []<>(late = ToSet(ingress))

-----------------------------------------------------------------------------
(* Properties *)

\* The variables have the types that the declarations give them.
TypeOK ==
    /\ ingress \in Seq(Txs) /\ ordered \in Seq(Txs)
    /\ late \subseteq Txs
    /\ chain \in Nat /\ guard \in Nat
    /\ offers \in Seq(Txs) /\ Len(offers) <= MaxInFlight
    /\ rep.next \in Nat \cup {Absent} /\ rep.floor \in Nat \cup {Absent}
    /\ rep.ledger \in Seq(Txs)
    /\ rep.refused \subseteq Nonces /\ rep.owed \subseteq Nonces
    /\ \A n \in Parked(rep) : rep.pending[n].tx.nonce = n

\* PartitionState::refs_below_floor: no transaction waits below the floor of its
\* sender, where no drain, no expiry and no submit would ever reach it.
NoneBelowFloor == \A n \in Parked(rep) : n >= NextNonce(rep)

\* flush_drained, the rewinds and free_nonce: a nonce that the replica accepted
\* stays in its buffer or its ledger until a receipt settles it or its client is
\* told.
NothingDropped == \A n \in rep.owed : Holds(rep, n) \/ Published(rep, n)

\* mark_refused and release_floor: a nonce from the one that the chain expects up to
\* the floor is in the ledger, where the sweep reaches it, or marked, so that a submit
\* of it is taken.  Otherwise the sender would wait for good.
NotWedged == \A m \in chain..(rep.next - 1) : m \in rep.refused \/ Published(rep, m)

\* fold_answer and apply_one_floor_update: the floor is not below what the receipts
\* prove, or the next nonce would park.  The exception is the re-offer of a nonce
\* whose mark outlived the receipt that proves it: the sweep rewinds the floor to it.
FloorCurrent == rep.stale \/ NextNonce(rep) >= rep.floor

\* The replica has this copy, published or waiting.
HasCopy(s, t) == t \in LedgerFrom(s, 0) \/ s.pending[t.nonce].tx = t

\* Why a copy that the replica held may be gone: the process restarted, another copy
\* stands at its nonce, it was parked with a deadline, a receipt
\* or a reject settles its nonce, a lag guard refused the nonce, or it is itself late.
MayLeave(t) ==
    \/ rep' = FreshReplica
    \/ Holds(rep', t.nonce) \/ Published(rep', t.nonce)
    \/ rep.pending[t.nonce] = [tx |-> t, ttl |-> TRUE]
    \/ \E a \in ToSet(answers) : a.kind = "reject" /\ a.nonce = t.nonce
    \/ \E c \in ToSet(receipts) : c.nonce >= t.nonce
    \/ [nonce |-> t.nonce, tx |-> NoTx] \in ToSet(refusals)
    \/ t \in late

\* take_refused and RefMetadata::named_by: a refusal that comes late, or twice, for
\* an earlier copy of a nonce never takes the copy that the client sent after it.
OnlyNamedLeave ==
    [][\A t \in Txs : HasCopy(rep, t) /\ ~HasCopy(rep', t) => MayLeave(t)]_vars

\* A transaction without a deadline that waits for a nonce only the client can
\* submit.
Stranded(s) ==
    {n \in Parked(s) : /\ ~s.pending[n].ttl
                       /\ \E m \in NextNonce(s)..(n - 1) : ~Holds(s, m)}

\* UnconfirmedLedger and the two sweeps: a nonce that the replica accepted is
\* settled in the end, unless it is stranded (see NoneStranded).
Settles == \A n \in Nonces : n \in rep.owed ~> n \notin rep.owed \/ n \in Stranded(rep)

\* The comment of PendingBuffer::reinsert: a rebuffered entry has no deadline, for
\* it does not wait on a nonce gap, only on the publisher.
NoneStranded == Stranded(rep) = {}
================================================================================
