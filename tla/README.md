# TLA+ models of Kardamom

Kardamom is an Ethereum rollup. Rust services talk over Aeron, and a Java
Aeron Cluster service, the *sealer*, decides the canonical order of the
transactions. This directory models the part that everything else relies on:
the sealer's replicated state machine, its snapshot and restart, and the way a
consumer (executor, validator, batcher) reads the canonical stream through
lost sessions, leader changes, evictions and crashes. Before the sealer it
models the publish loop of a sequencer replica, which must bring every accepted
transaction to the sealer or tell its client.

Paths below are relative to the repository. `PROJECT.json` maps each
definition to the lines it translates.

- [Inventory](#inventory)
- [Modules and how they correspond to the code](#modules-and-how-they-correspond-to-the-code)
- [Runs](#runs)
- [Bounds](#bounds)
- [Fairness](#fairness)
- [Proofs](#proofs)
- [Where the code and its documents differ](#where-the-code-and-its-documents-differ)
- [What is not modelled](#what-is-not-modelled)
- [Plan](#plan)

## Inventory

The data path: a client sends a transaction to an **ingress** proxy, which
stamps an inclusion deadline. Several **sequencer** replicas order the
transactions of each sender by nonce and race to offer a reference to the
**sealer** cluster. The sealer gives each accepted record a canonical index,
closes blocks on a timer, and emits records and boundaries to its sessions.
The **executor** and the **validator** join the references with the payloads,
execute them and commit state; the **batcher** posts the stream to L1 and
confirms the posted head to the sealer. The **da-watcher** feeds finalized L1
epochs back as records of several slots.

| Component | State | Operations | Interacts with | What is hard | What makes it correct |
|---|---|---|---|---|---|
| Sealer core, `CanonicalSealerState` | canonical count, open block, dedup window, nonce map (LRU), L1 and remote origins, posted head | `onRecord`, `onTick`, `onOriginRecord`, `onRemoteOriginRecord`, `onPostedCursor`, `onRecordedCursor`, `onVoidRequest`, snapshot and load | sequencers, da-watcher, batcher and executors, through the log | racing and late re-offers, LRU eviction, prunes, forced boundaries, repeated clocks, restart | exact dedup, no nonce gap, dense order, ordered boundaries, members agree |
| `VoidLedger` | references by slot, open votes | reference, vote, decide, drop old votes | executors vote when a payload never arrives | old votes, old references, bounded votes, snapshot | each void is unanimous, unique, recent, and leaves a nonce that can be filled |
| `RecordedCursors` | best recorded index | cursor, halt test | executors | a stranger's or a future cursor | guard stops only while the executors lag |
| Versions 4 and 5: `VersionSwitch`, `SessionWindows`, `DecisionRules` | activations, per-image replay windows | activate, accept a carried reference | operators, sequencers | late activations, eviction of a silent image | members switch at one log position; a reference is fresh once |
| `OrderingWindow` | records held for a short time | hold, release in fee order | sequencers | timers, snapshots with held records | a permutation of what was offered |
| Sealer service (`SealerClusteredService`) | timers, sessions | dispatch, boundary timer, roles | Aeron consensus module | timer lost at an election | one live boundary clock |
| Egress (`SealerEgress`, `HeapFrames`, `SessionBacklogs`) | retained frames, floors, consumers, backlogs | emit, prune, replay | consumers' sessions | eviction against the posted head, two-axis cursors, slow sessions | what is not posted can be replayed; a replay is exactly the rest |
| Session thread (`session_loop.rs`) and driver (`cluster-client`) | session, replay ask, watch | connect, announce, ask, drain, reset | sealer, reader | resends, silence, leader changes, torn cursor | every session is caught up |
| Reader (`reorder.rs`, `reader/cluster`) | cursor, pending maps, catch-up flag | ingest, deliver, fail-stop | session thread, engine | live frames before replayed ones, missing boundaries | applies the stream in order |
| Cursors at start (`bin_support.rs`) | durable state, checkpoints | resume, fetch a peer checkpoint | state database, peers | crash, cursor below the retention | resumes at a point of the stream |
| Sequencer (`sequencer.rs`, `state`, `unconfirmed.rs`, `resync`) | nonce floor and buffer of a sender, refused marks, unconfirmed ledger, receipt floor | park, drain, publish, rebuffer, rewind, free, confirm, release, expire | sealer answers (two channels), receipts, nonce lookup, the twin replica | rewinds, sweeps, refusals and receipts race; lost offers and answers; skips; restart without state | every accepted transaction settles; the floor never wedges a sender |
| Sequencer, v2 loop and epoch pumps | account states, epoch cursor | admit, offer epochs | executors, sealer | stale account state | as above |
| Engine, executor, state | join buffers, hazards, libMDBX | join, execute, commit, receipts | reader, archives | crash between durable state and receipts | no receipt lost or contradicted |
| Batcher, da-watcher, l1-indexer | posted head, L1 cursor | post, confirm, tail | L1, sealer | L1 reorganisation, refused offers | blocks and epochs posted once, in order |
| Validator, Block-STM, exec-core | state, schedule | re-execute | stream | parallel execution | equal to serial execution |
| Contracts, ZK guest | L1 and L2 storage | proofs, messages | L1 | replay of messages | each message once |

Tooling (deployer, benches, chaos, e2e, fault proxy, canary, formats,
reconstruct), transport (`log`) and projections (notifier, egress, cache,
state-mirror) hold no protocol that decides the order.

## Modules and how they correspond to the code

| Module | Models |
|---|---|
| `CanonicalSealer` | `CanonicalSealerState`, `VoidLedger` and `RecordedCursors` at decision version 3; the deadline that an ingress proxy stamps |
| `SealerMembers` | two members on one log; the second restarts from its snapshot (`takeSnapshot`, `load`) at any position |
| `LogReader` | abstract: a log that grows and a reader that takes it frame by frame |
| `CanonicalStream` | `SealerEgress`, `HeapFrames`, `SessionBacklogs`, the session thread, `Reorder`, the cursors at start and the peer checkpoint |
| `Sequencer` | the publish loop of one replica with `PartitionState`, `UnconfirmedLedger` and `ResyncController`, for one sender; the sealer's nonce guard, the twin, the executors and the client around it |
| `CanonicalSealerProofs` | theorems about `CanonicalSealer`: types, dedup, order, lag, voids |
| `SealerOriginProofs`, `SealerNonceProofs` | theorems about its origins and window, and about its nonces |
| `SealerMembersProofs` | theorems about `SealerMembers` |
| `StreamServiceProofs`, `StreamReaderProofs` | theorems about `CanonicalStream`: the retention, and the reader up to the refinement of `LogReader` |
| `SequencerFolds`, `SequencerProofs` | induction along the folds of `Sequencer`, and the theorems about it |
| `MCAdmission`, `MCVoids`, `MCOrigins`, `MCMembers`, `MCStream`, `MCSequencer` | small instances for TLC |

**`CanonicalSealer`.** One variable for each field of the state, one total
action for each log message. The consensus module hands every member the same
messages one at a time, so an action is atomic, and refused messages are steps
too: a contiguity reject, for example, moves the sender in the access order of
the nonce map. `RecordVerdict`, `OriginVerdict`, `RemoteOriginVerdict` and
`VoteVerdict` return the answer in the order of the code's checks. An id is a
model value, and a transaction is its id, sender and nonce. `Offer(tx, seen)`
is the environment: any proxy that has seen the boundaries up to `seen` stamps
`seen + Horizon`, and any sequencer offers any stamped envelope at any time and
any number of times, so the model covers racing, stalled and retrying replicas
without a model of the sequencer. A proxy that has seen no boundary stamps no
deadline; `FreshProxies` says whether that happens. `canonical`, `sealed`,
`evicted` and `asked` (the votes that were counted) are history and are read by
no handler.

**`SealerMembers`.** `EXTENDS` one copy of the sealer, `INSTANCE`s a second
one, and applies each message to both. `Restart` replaces each field of the
second copy by what a snapshot writes and `load` reads back: ids go through
`insertFresh` again, the ledger keeps only the references inside the window,
the recorded cursor is lost (snapshot versions 14 to 18 do not carry it).

**`CanonicalStream`.** Three actors: the service, the session thread and the
reader. `link` is the backlog and the network of one session (one FIFO), and
`inbox` the channel between the session thread and the reader. A retained
frame is a member of the suffix of `stream` after `evictions`. The floors
follow `evictFront`. A replay request carries the cursor of the reader; the
code reads it as two atomics, so `LoadIndex` and `LoadBlock` are two steps, and
`SendReplay` is the case where nothing moves between them. `EgressDies` is a
session that the service closes or that dies silently; what is in flight is
lost, and the watchdog (`ResetSession`) later ends it. `Failover` is a leader
change that keeps the session, as `on_new_leader` does. `Crash` and `Restart`
resume from the last durable block; `AdoptCheckpoint` resumes from a peer's
checkpoint at or above the floor block that the refused replay named.

**`LogReader`.** `Reader == INSTANCE LogReader WITH log <- stream,
read <- delivered`. `ReadsTheLog == Reader!Spec`: each step of the stream model
is a write, a read of the next frame, a resume at a block end, or a stutter.
What is delivered includes the boundaries, so the refinement also says that
each record is applied in the block in which the sealer put it.

**`Sequencer`.** The replica is one record `rep`: `next`, `pending` and
`refused` are the fields of `PartitionState`, `ledger` is the unconfirmed
ledger in the order of its expiry queue, `floor` is the receipt floor. `owed`
and `stale` are history. Each method is an operator from records to records,
and one pass of the loop is one action, `RunOnce`: receipts, refusals, answers,
the two sweeps, then either a flush of the run at the floor or one envelope of
ingress, in the order of `resync_tick` and `run_once`. A drain takes any prefix
of its channel, because each channel has its own task in front of it. `Flush`
offers a run; the publication takes what it has room for, or pushes back
earlier, and the rest goes back to the buffer in reverse. Around the replica,
`SealerTakes` answers as `onRecord` does (duplicate, past deadline, lag, full,
reject, relayed), `TwinOrders` is the other replica of the shard, which runs the
same loop on the same input and reaches this one only through the sealer's guard
(here it may get any received transaction ordered that the guard takes, more than
its own loop would offer), `Execute`
emits the receipts, with skips that use no nonce, and `PassDeadline` lets the
inclusion deadlines pass in any order. The faults are `LoseOffers` (a dead
leader), `LoseAnswer` and `LoseReceipt` (full channels), `Restart` (nothing is on
disk), a receipt of an executor that lags, and a confirm timeout that runs out
before the answer. Senders share nothing but batches, so one sender is enough;
a transaction is its nonce and a copy number, and two copies of one nonce are a
replacement or a resubmit.

## Runs

`tlc -config <cfg> <module>`; the passing runs explore every state within the bounds.

| Run | Module, cfg | Distinct states | Shows |
|---|---|---|---|
| admission | `MCAdmission` | 215 k | Three senders share a nonce map of two, with a replacement, a zero-sender record, ticks and posted cursors. `ReofferAbsorbed`: an offer of an ordered envelope is a duplicate or expired. `OneLivePerNonce`: one live record for each nonce of a sender that was not evicted. `DaLagBounded`: the posted head is a sealed block, and no user record is ordered past the budget after it. `TypeOK`. |
| voids | `MCVoids` | 121 k | Two voters and a stranger against three nonces. `NoNonceGap`, `NonceFillable` (after voids in any order, the lowest voided nonce is the expected one), `OneLivePerNonce`, `ReofferAbsorbed`, `VoidsUnanimous` (each configured voter has voted for a voided index, whatever repeats and strangers add), `VoidedOnce` (a vote after the decision voids nothing again), `VoidInWindow`. |
| origins | `MCOrigins` | 157 k | Epochs and batches, valid and invalid, with a clock that stands still, jumps and turns back. `SlotsDense`, `OriginLeadsBlock`, `OriginsContiguous`, `BoundariesOrdered`, `WindowBounded`. |
| members | `MCMembers` | 294 k | Two voters, one restart anywhere. `MembersAgree`, `AdmissionAgrees`. |
| stream | `MCStream` | 264 k | One fault of any kind. `ReadsTheLog` (refinement), `CatchesUp` (liveness), `NeverMisaligned`, `UnpostedReplayable`, `TypeOK`. |
| reconnects | `MCStream`, `MCReconnects.cfg` | 2.2 M | Two lost sessions on a stream of four frames, a retention without the posted-head guard, other announced consumers. `ReadsTheLog`, `NeverMisaligned`. |
| sequencing | `MCSequencer` | 286 k | Two nonces, one with two copies, one fault of any kind. `NoneBelowFloor` (the program exports this count as a gauge that must stay zero), `NothingDropped` (an accepted nonce is in the buffer or in the ledger until it settles), `NotWedged` (each nonce from the chain's up to the floor is in the ledger or marked), `FloorCurrent` (the floor is not below what the receipts prove), `OnlyNamedLeave` (a refusal of an earlier copy never takes the copy that the client sent after it), `Settles` (liveness), `TypeOK`. |
| members_single_voter | `MCMembers` | violated | see finding 1 |
| fresh_proxy | `MCAdmission` | violated | see finding 2 |
| failover | `MCStream` | violated | see finding 3 |
| torn_cursor | `MCStream` | violated | see finding 4 |
| rebuffered_gap | `MCSequencer` | violated | see finding 5 |

Deadlock checking is off: the bounds on indices, blocks and frames end every
behaviour, and the system itself may stay idle. Each property has a mutant (an
operator named after the plausible bug, next to the definition that it
replaces) which TLC shows to violate it.

`ReofferAbsorbed` and `NonceFillable` speak of records that no void has
touched, and of senders that the nonce map has not evicted. These are the
limits of what the code promises: a void takes an id out by hash, so it also
takes it out for a newer copy of the same transaction (`Standing`), and an
evicted sender is trusted at first sight again.

## Bounds

`MaxCount`, `MaxBlock`, `MaxRestarts`, `MaxFrames` and `MaxFaults` bound the
runs; the other constants are the program's own settings at small values.

- `DedupCapacity` is 2 with three senders, so that the nonce map evicts and
  the window fills. `Horizon` is 2 in `MCAdmission`, because with 1 an early
  prune falls together with the deadline check; `MaxBlock` 5 lets a stamped
  deadline pass and the id be pruned.
- `VoidWindow` is below `MaxCount`, so that references and votes leave it.
  `MaxOpenVotes` is 1 in `MCVoids`, so that it refuses votes. `RecordLagBudget`
  is 2 there: the core supports the guard and its unit tests use it, although
  `ClusterNode` refuses a budget above 0 with the present snapshot version.
  `MCMembers` uses 0 for that reason.
- `MCOrigins` uses `DedupCapacity` 1 and `Horizon` 1, so that markers exceed
  the cap and re-offered epochs find their id pruned; the time windows hold
  `TickMs` 2 with the readings 0 and 5.
- Records of the stream have two slots, so that an index is not a frame
  number. `RetentionCap` 1 (2) with 3 (4) frames evicts in the middle of a
  block. Three frames hold the orders that matter for one fault: a record
  before and after a boundary, and an empty block. `MaxPending` 9 is never
  reached: a bounded stream cannot overflow the maps.

- `MCSequencer` has `MaxPending` 1, so that a park evicts and rejects;
  `MaxInFlight` 2, so that a run of two is taken whole, in part or not at all;
  `MaxAnswers` 2, so that a refusal and a reject wait at the same time.
  `FirstNonce` is 1: the account exists and the sealer's nonce map holds it,
  while a started replica seeds it at 0 and must learn. `MaxFaults` 1 with ten
  kinds of fault; with a budget of two and one answer at a time the properties
  also held. A lookup answers only while no receipt has proved a floor. An
  answer that comes later is a receipt read early; a run that allows it at any
  time also passed, and is left out for its length.

No symmetry is declared: the model values of the transactions differ in
sender or nonce, and `CatchesUp` is a liveness property.

## Fairness

`CatchesUp` of `CanonicalStream`: `FairSpec`
assumes weak fairness of each loop that the program runs for ever: the service
reads its log (`HandleReplayRequest`), the session thread connects, asks,
drains and watches (`Connect`, `SendReplay`, `LoadBlock`, `Receive`,
`ResetSession`), the reader polls (`Ingest`, `DeliverBoundary`,
`DeliverRecord`), and a supervisor starts a failed process again (`Restart`).
`AdoptCheckpoint` is strongly fair: the process tries its peers on every
refused replay, and each attempt reaches a peer or falls back to its own state.
Nothing is assumed about the emissions of the sealer, and faults end because
`MaxFaults` bounds them, which stands for a period without faults.

A consumer whose cursor is below the retention while no block at or above the
floor is sealed has no checkpoint to adopt. `CatchesUp` names that case and
allows no other one.

`Settles` of `Sequencer`: an accepted nonce is settled in the end. A receipt
confirms it, a receipt floor drops it, or its client is told. The replica's
thread loops for ever, so what a pass has to do does not wait for ever.
`LoopRuns` states it for each duty of a pass, because weak fairness of the
whole action would be met by passes that do nothing: the receipts, refusals and
answers are drained, a ledger entry meets its timeout, a parked one its
deadline, a run at the floor is offered, and an envelope is read. The sealer
takes offers (`WF`), the executors keep up, and the open block passes every
inclusion deadline, which the boundary clock of the cluster guarantees. The
client need not submit anything.

## Proofs

Twenty-five theorems hold for every value of the constants. They rest on the named
assumptions of the modules: the types of the settings and inputs, and
`HashAssumption` (two records do not share an id). TLC evaluates the
assumptions in each run. A theorem that needs more says so in its statement.

| Theorem | Statement | Argument |
|---|---|---|
| `CanonicalSealerProofs` | | |
| `TypeCorrect` | `Spec => []TypeOK` | One lemma for each action. The nonce map needs `TouchedOK` and `PutNonceOK`: an access permutes the order, and an insert replaces the eldest, so that map and order name the same senders. |
| `ReofferSafe` | `~FreshProxies` gives `Spec => []ReofferAbsorbed` | `ReofferAbsorbed` is not inductive: it says that an id is held, but not for how long. `DedupInv` adds that the window holds the id of a standing record at least until the deadline of its envelope. A stamp of a proxy is at most the sealed head plus the horizon, so the clamp in `insertFresh` does not cut it; with a fresh proxy it does (finding 2). |
| `SlotsAreDense`, `BoundariesAreOrdered` | `Spec => []SlotsDense`, `Spec => []BoundariesOrdered` | Every step is at most one boundary followed by at most one record (`StepShape`). `OrderInv` adds that all records and boundaries lie below the count, the open block and the last time. |
| `DaLagIsBounded` | `Spec => []DaLagBounded` | The posted head only rises (`PostedHeadRises`) and never past the sealed head (`PostedIsSealed`), and a user record is admitted only within the budget (`RecordsWithinBudget`). |
| `VoidsAreUnique` | `Spec => []VoidedOnce` | `LedgerInv`: the window names an ordered index at most once and never one that a void has removed. |
| `VoidsAreUnanimous` | `Spec => []VoidsUnanimous` | `QuorumInv`: an open vote was counted. The formula alone is not inductive: a decision takes the missing vote together with those that the ledger keeps, and only the invariant says that these were cast for the same index. |
| `VoidsAreRecent` | at least two voters give `Spec => []VoidInWindow` | A decision needs a kept vote of another voter, and `dropVotesBelow` keeps only votes for recent indices. With one voter nothing is left to age out (finding 1). |
| `SealerOriginProofs` | | |
| `OriginsLeadBlocks` | `Spec => []OriginLeadsBlock` | A marker is ordered right after the boundary that it forces, or into a block that is still empty, and the current origin is the one of the last epoch. |
| `OriginsAreContiguous` | `Spec => []OriginsContiguous` | The last origin, and the last one of each peer, are those of the newest marker of the lane. The ids play no part, so an id that has left the window does no harm. |
| `WindowIsBounded` | `Spec => []WindowBounded` | Transactions are counted against the cap. For the markers the invariant maps each held one to the block in which it was ordered: no two share a block, and the deadline keeps only `Horizon + 1` blocks. |
| `SealerNonceProofs` | | |
| `NonceGapsAreExcluded`, `NoncesStayFillable`, `NoncesAreLiveOnce` | `Spec => []NoNonceGap`, `[]NonceFillable`, `[]OneLivePerNonce` | The three need each other and four parts more (`NonceInv`): a reference in the void window names the record that it came from, a sender that was never evicted is in the map once it has a record, its expected nonce is at most one past a record, and a live record at or above the expected nonce has a later void at or below its nonce. `appendVoid` lowers the expected nonce and never raises it. |
| `SealerMembersProofs` | | |
| `MembersStayInStep`, `MembersAdmitAlike` | `Settings` give `Spec => []MembersAgree`, `[]AdmissionAgrees` | `Agreement`: the fields are equal, the restarted window lacks only references that no vote can name, and the votes are equal once the old ones are dropped. `DedupBound` shows that a restore through `insertFresh` keeps each deadline. `Settings` says: no record-lag guard, because a snapshot does not carry the recorded cursor, and not exactly one voter (finding 1). |
| `StreamServiceProofs` | | |
| `UnpostedIsReplayable` | `Spec => []UnpostedReplayable` | `ServiceInv`: the two axes of the stream are dense and rising, the posted head is below the open block, and the floors name exactly what `evictFront` has dropped, which is posted. So a cursor of two axes picks out one suffix. |
| `StreamReaderProofs` | | |
| `TypeCorrect` | `Spec => []TypeOK` | One lemma for each action. |
| `ReaderStaysAligned` | `~LossyFailovers` gives `Spec => []NeverMisaligned` | `ReaderInv`, in five parts. What is delivered is a prefix of the stream, and the cursor is its end. Each entry of the two queues and of the pending maps is an emitted frame; a live frame comes after all of its predecessors that the reader lacks; a replay end names the point up to which everything is delivered, pending or queued before it. A session taken in live mode misses nothing. A torn request is never past the reader. |
| `StreamImplementsLog` | `~LossyFailovers` gives `Spec => ReadsTheLog` | With `ReaderInv`, `Emit` is a write, a delivery is the read of the next frame, `Crash`, `Restart` and `AdoptCheckpoint` resume at a block end at most at the end of the log, and each other step leaves log and reader alone. |
| `SequencerProofs` | | |
| `TypeCorrect`, `NothingWaitsBelowFloor`, `AcceptedIsKept` | `Spec => []TypeOK`, `[]NoneBelowFloor`, `[]NothingDropped` | `SequencerInv`: a transaction waits at its own nonce, not below the floor, and only once the floor is known. Without the last part the first rewind could set the floor above it. `Sound(hand)` is the same in the middle of a pass: what is owed is held, published or in hand, and the hand is empty again when the pass ends. Each operator of the pass has a lemma that takes `Sound` to `Sound`. |
| `FloorIsReachable`, `FloorIsCurrent` | `Spec => []NotWedged`, `[]FloorCurrent` | `FloorInv`: each receipt is true of the chain, the receipt floor is at most the chain's nonce, and the floor fits both (`Fit`): a nonce from the chain's up to the floor is marked, published or in hand, and unless the replica is stale, nothing published lies below the receipt floor. The last part is why a rewind to a published nonce keeps `FloorCurrent`. A replica that knows no floor has nothing under way. |

With `LossyFailovers` the theorems `ReaderStaysAligned` and
`StreamImplementsLog` are false: the run `failover` is the counterexample
(finding 3).

A pass of the sequencer folds over drains of any length. A lemma cannot take an
operator as a parameter that the provers could instantiate, so `SequencerFolds`
states induction for sets and functions, and proves once for each folded
operator that the fold is a path from state to state, one element at a time.
The proofs then only look at one element.

Only model-checked: liveness (`CatchesUp`, `Settles`), which is out of the
prover's reach, and the action property `OnlyNamedLeave`. The invariant of
`SequencerProofs` follows a nonce through the folds of a pass; this property
needs it for each copy of a nonce, which is not proved yet. The properties of the runs that expect a violation are false
and so are not proved.

## Where the code and its documents differ

1. **A stale reference can be voided when one voter is configured**
   (`VoidLedger.java:167`, run `members_single_voter`). `docs/failure-modes.md:382`:
   "The newest indices that a void can name. An older entry cannot be removed."
   The ledger compares the index and the hash of a slot, and never the age. A
   reference older than the window stays in its slot while the newer indices of
   that slot belong to epochs, voids or zero-sender records. A snapshot leaves
   it out, so after a restart the members answer the same vote differently.
2. **An envelope without a deadline can be ordered twice**
   (`CanonicalSealerState.java:794`, run `fresh_proxy`). The comment at line
   703 says that "a stalled replica's re-offer can never be read as fresh". The
   window holds such an id for the horizon only, and then only the nonce map
   stands in the way, until it evicts the sender.
3. **A leader change does not lead to a replay** (`cluster-client`
   `session/mod.rs:278`, run `failover`). `docs/failure-modes.md:505`: "The
   cluster client re-establishes the session and sends `REPLAY_FROM` from the
   delivery cursor." The driver keeps the session and the ask stays answered.
   When the frames that the old leader did not send include a boundary, the
   reader in live mode applies the next record in the wrong block.
4. **A replay cursor can be torn** (`session_loop.rs:622`, run `torn_cursor`).
   `SealerEgress.java:361`: "A cold start sends the lower end exactly. A
   reconnect inside an open block sends an index between the two." Two relaxed
   loads around a delivery give a cursor outside its block, which the service
   refuses. The `stream` run shows that the order survives: the reader stops
   and starts again.

5. **A rebuffered transaction can wait on a nonce gap for ever**
   (`state/mod.rs:555`, run `rebuffered_gap`).
   `docs/specs/dynamic-sequencer-sizing.md:176`: "No entry that waits on a nonce
   gap outlives `tx_ttl`." The comment at `pending.rs:157` says of an entry
   without a deadline: "It does not wait on a nonce gap. It waits on the
   publisher". Nonce 1 is published and nonce 2 goes back to the buffer under
   back-pressure, without a deadline. Execution skips nonce 1, and the skip
   receipt lowers the floor to 1. Nonce 2 now waits for a resubmit of nonce 1,
   does not expire, and its client hears nothing. `Settles` names this case
   (`Stranded`) and allows no other one.

`FloorCurrent` has one exception, `rep.stale`, which needs no fault and is a
difference of the same kind without a run of its own. The comment in
`receipt_floor.rs:111` says that "floors drain before any publish action is
computed, so the state machine's floor is always current when `process` runs",
and that "a proven-stale incoming envelope takes the ordinary
`Past`/DuplicatedTx path". `advance_floor` (`state/mod.rs:531`) returns early when
the floor is not above the expected nonce, and then keeps the refused marks below
the floor. A mark so outlives the receipt that proves its nonce: the twin's copy
of nonce 1 is ordered, this replica's is rejected and marked, the receipt of
nonce 1 arrives, and the next copy of nonce 1 is published instead of being
answered as a duplicate. It enters the ledger, and a confirm-timeout sweep takes
the floor back to it, below the receipt floor. TLC gives this trace for the
invariant `~rep.stale` of `MCSequencer` with `MaxFaults` 0. The sealer's answer to
the copy usually ends the case first.

## What is not modelled

- Decision versions 4 and 5 (carried references, `SessionWindows`,
  `VersionSwitch`), the seed epoch, the ordering window.
- The boundary timer across leadership terms and its revival.
- The retained file and the member feed: they serve the frames of the heap
  retention in another form.
- The byte and pass limits of the backlogs: a session at its limit is closed,
  which is `EgressDies`.
- A session that only subscribes. Any boundary confirms its announcement,
  although boundaries also reach sessions that were never announced.
- Of the sequencer: the v2 loop with its account admission, the epoch pumps,
  shadow mode and resize, the pause and fee gates, rollbacks of an executor,
  voids (they lower the sealer's guard; `CanonicalSealer` covers that side) and
  a sender that the sealer's nonce map does not hold: the guard then takes any
  nonce, which the `admission` run covers from the sealer's side.
- Engine behind the reader, batcher, da-watcher, validator,
  Block-STM, contracts, ZK guest: see the plan.
- 64-bit overflow: indices and blocks stay small. Only the saturating deadline
  is kept (`Lesser(.., NoDeadline)`).
- Transport, storage and formats.

## Plan

In this order, the most important behaviour first.

1. `CanonicalSealer`, its runs and theorems. *Done and proved.*
2. `SealerMembers`: snapshot and restart. *Done and proved.*
3. `CanonicalStream` with `LogReader`. *Done and proved, but for liveness.*
4. `SessionWindows` and `VersionSwitch` (versions 4 and 5): a reference is
   fresh once per image, late activations are refused, members switch at one
   log position.
5. The boundary clock: timers lost at elections, re-arm and revival; liveness
   of sealing and at most one live timer.
6. `Sequencer`: unconfirmed ledger, gap rewinds, sweeps and receipts; liveness
   of an accepted transaction. *Done for one sender at a known nonce.* *Proved,
   but for liveness.* To add: rollbacks and voids, and a proof
   of `OnlyNamedLeave`.
7. Engine: join, commit thread and recovery; receipts against durable state.
8. Batcher and da-watcher: posted cursor, the lag guard and a refused offer.
9. Block-STM schedule, interop lanes of the contracts.
