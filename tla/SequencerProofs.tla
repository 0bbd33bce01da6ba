--------------------------- MODULE SequencerProofs ---------------------------
(***************************************************************************)
(* Proofs about Sequencer, for every value of its constants: whatever a    *)
(* pass of its loop reads, a replica never holds a transaction below the   *)
(* floor of its sender, never loses one that it accepted, and keeps the    *)
(* floor in step with the chain.                                           *)
(***************************************************************************)
EXTENDS SequencerFolds, FiniteSetTheorems

-----------------------------------------------------------------------------
(* The states of a replica *)

Level == Nat \cup {Absent}
Slot == [tx : Txs, ttl : BOOLEAN]

Replicas ==
    [next : Level, pending : [Nonces -> Slot \cup {NoSlot}], refused : SUBSET Nonces,
     ledger : Seq(Txs), floor : Level, owed : SUBSET Nonces, stale : BOOLEAN]

\* A transaction waits at its own nonce and not below the floor, and only once
\* the floor is known: the first rewind would otherwise set the floor above it.
InPlace(r) ==
    \A n \in Parked(r) : r.pending[n].tx.nonce = n /\ r.next # Absent /\ r.next <= n

\* What is owed is held or published, but for the nonces that a step has in hand.
Kept(r, hand) == \A n \in r.owed : Holds(r, n) \/ Published(r, n) \/ n \in hand

Sound(hand) == {r \in Replicas : InPlace(r) /\ Kept(r, hand)}

LEMMA Inputs ==
    /\ Nonces \subseteq Nat
    /\ \A t \in Txs : t.nonce \in Nonces /\ t.nonce \in Nat
    /\ NoSlot \notin Slot
    /\ \A t \in Txs : \A b \in BOOLEAN : [tx |-> t, ttl |-> b] \in Slot
    /\ NoTx \notin Txs
<1>1. \A t \in Txs : t.nonce \in Nat
  BY SequencerAssumption
<1>2. NoTx \notin Txs
  BY <1>1 DEF NoTx, Absent
<1>3. NoSlot \notin Slot
  BY <1>2 DEF Slot, NoSlot
<1> QED BY <1>1, <1>2, <1>3 DEF Nonces, Slot

LEMMA EmptiedFields ==
    ASSUME NEW s \in Replicas, NEW gone
    PROVE  /\ Emptied(s, gone) \in Replicas
           /\ \A n \in Nonces : Emptied(s, gone).pending[n] =
                                   IF n \in gone THEN NoSlot ELSE s.pending[n]
           /\ Emptied(s, gone).next = s.next /\ Emptied(s, gone).refused = s.refused
           /\ Emptied(s, gone).ledger = s.ledger /\ Emptied(s, gone).floor = s.floor
           /\ Emptied(s, gone).owed = s.owed /\ Emptied(s, gone).stale = s.stale
BY DEF Emptied, Replicas

LEMMA ToldSound ==
    ASSUME NEW n, NEW hand, NEW s \in Sound(hand \cup {n})
    PROVE  Told(s, n) \in Sound(hand)
<1> DEFINE r == Told(s, n)
<1>1. s \in Replicas /\ InPlace(s) /\ Kept(s, hand \cup {n})
  BY DEF Sound
<1>2. CASE Holds(s, n) \/ Published(s, n)
  BY <1>1, <1>2 DEF Told, Sound, Kept
<1>3. CASE ~(Holds(s, n) \/ Published(s, n))
  <2>1. /\ r \in Replicas /\ r.pending = s.pending /\ r.next = s.next /\ r.ledger = s.ledger
        /\ r.owed = s.owed \ {n}
    BY <1>1, <1>3 DEF Told, Replicas
  <2> HIDE DEF r
  <2>2. InPlace(r)
    BY <1>1, <2>1 DEF InPlace, Parked, Holds
  <2>3. Kept(r, hand)
    BY <1>1, <2>1 DEF Kept, Holds, Published
  <2> QED BY <2>1, <2>2, <2>3 DEF Sound, r
<1> QED BY <1>2, <1>3

LEMMA ReinsertSound ==
    ASSUME NEW t \in Txs, NEW hand, NEW s \in Sound(hand \cup {t.nonce})
    PROVE  ReinsertForRetry(s, t) \in Sound(hand)
<1> DEFINE r == ReinsertForRetry(s, t)
           low == IF s.next = Absent THEN t.nonce ELSE Smaller(s.next, t.nonce)
<1>1. s \in Replicas /\ InPlace(s) /\ Kept(s, hand \cup {t.nonce})
  BY DEF Sound
<1>2. t.nonce \in Nonces /\ t.nonce \in Nat /\ [tx |-> t, ttl |-> FALSE] \in Slot
  BY Inputs
<1>3. s.next \in Level /\ low \in Nat /\ low <= t.nonce /\ (s.next # Absent => low <= s.next)
  BY <1>1, <1>2 DEF Replicas, Level, Smaller, Absent
<1> HIDE DEF low
<1>4. /\ r \in Replicas /\ r.next = low /\ r.ledger = s.ledger /\ r.owed = s.owed
      /\ r.pending = [s.pending EXCEPT ![t.nonce] = [tx |-> t, ttl |-> FALSE]]
  BY <1>1, <1>2, <1>3 DEF ReinsertForRetry, RewindFloor, Replicas, Level, low
<1> HIDE DEF r
<1>5. /\ r.pending[t.nonce] = [tx |-> t, ttl |-> FALSE]
      /\ \A n \in Nonces : n # t.nonce => r.pending[n] = s.pending[n]
  BY <1>1, <1>2, <1>4 DEF Replicas
<1>6. InPlace(r)
  <2> SUFFICES ASSUME NEW n \in Nonces, Holds(r, n)
               PROVE  r.pending[n].tx.nonce = n /\ r.next # Absent /\ r.next <= n
    BY DEF InPlace, Parked
  <2>1. n \in Nat
    BY Inputs
  <2>2. CASE n = t.nonce
    BY <1>2, <1>3, <1>4, <1>5, <2>2 DEF Absent
  <2>3. CASE n # t.nonce
    <3>1. Holds(s, n) /\ r.pending[n] = s.pending[n]
      BY <1>5, <2>3 DEF Holds
    <3>2. s.pending[n].tx.nonce = n /\ s.next # Absent /\ s.next <= n
      BY <1>1, <3>1 DEF InPlace, Parked
    <3> QED BY <1>3, <1>4, <2>1, <3>1, <3>2 DEF Absent, Level
  <2> QED BY <2>2, <2>3
<1>7. Kept(r, hand)
  <2> SUFFICES ASSUME NEW n \in r.owed
               PROVE  Holds(r, n) \/ Published(r, n) \/ n \in hand
    BY DEF Kept
  <2>1. CASE n = t.nonce
    BY <1>2, <1>5, <2>1, Inputs DEF Holds
  <2>2. CASE n # t.nonce
    BY <1>1, <1>4, <1>5, <2>2 DEF Kept, Holds, Published
  <2> QED BY <2>1, <2>2
<1> QED BY <1>4, <1>6, <1>7 DEF Sound, r

LEMMA RebufferSound ==
    ASSUME NEW t \in Txs, NEW hand, NEW s \in Sound(hand \cup {t.nonce})
    PROVE  Rebuffer(s, t) \in Sound(hand)
BY ReinsertSound, ToldSound DEF Rebuffer

\* A change of the ledger, the floor marks and the debts alone.
LEMMA LedgerSound ==
    ASSUME NEW s \in Replicas, InPlace(s), NEW r \in Replicas, NEW hand,
           r.pending = s.pending, r.next = s.next,
           \A n \in r.owed : Holds(s, n) \/ Published(r, n) \/ n \in hand
    PROVE  r \in Sound(hand)
<1>1. InPlace(r)
  BY DEF InPlace, Parked, Holds
<1>2. Kept(r, hand)
  BY DEF Kept, Holds
<1> QED BY <1>1, <1>2 DEF Sound

LEMMA Trimmed ==
    ASSUME NEW q \in Seq(Txs), NEW kept, NEW rest, rest = Only(q, kept)
    PROVE  /\ rest \in Seq(Txs)
           /\ \A i \in DOMAIN rest : rest[i] \in kept /\ \E j \in DOMAIN q : q[j] = rest[i]
           /\ \A j \in DOMAIN q : q[j] \in kept => \E i \in DOMAIN rest : rest[i] = q[j]
BY OnlyKeeps

LEMMA RecordSound ==
    ASSUME NEW t \in Txs, NEW hand, NEW s \in Sound(hand \cup {t.nonce})
    PROVE  RecordPublished(s, t) \in Sound(hand)
<1> DEFINE r == RecordPublished(s, t)
           others == {u \in Txs : u.nonce # t.nonce}
           rest == Only(s.ledger, others)
<1>1. s \in Replicas /\ InPlace(s) /\ Kept(s, hand \cup {t.nonce}) /\ s.ledger \in Seq(Txs)
  BY DEF Sound, Replicas
<1>2. /\ rest \in Seq(Txs)
      /\ \A j \in DOMAIN s.ledger : s.ledger[j] \in others =>
            \E i \in DOMAIN rest : rest[i] = s.ledger[j]
  <2> HIDE DEF others
  <2> QED BY <1>1, Trimmed
<1> HIDE DEF others, rest
<1>3. /\ r \in Replicas /\ r.pending = s.pending /\ r.next = s.next /\ r.owed = s.owed
      /\ r.ledger = Append(rest, t)
  <2>0. Append(rest, t) \in Seq(Txs)
    BY <1>2
  <2>1. PICK led \in Seq(Txs) : led = Append(rest, t)
    BY <2>0
  <2>2. r = [s EXCEPT !.ledger = led, !.refused = @ \ {t.nonce}]
    BY <2>1 DEF RecordPublished, others, rest
  <2> HIDE DEF r
  <2> QED BY <1>1, <2>1, <2>2 DEF Replicas
<1> HIDE DEF r
<1>4. /\ Append(rest, t)[Len(rest) + 1] = t /\ Len(rest) + 1 \in DOMAIN Append(rest, t)
      /\ \A i \in DOMAIN rest : i \in DOMAIN Append(rest, t) /\ Append(rest, t)[i] = rest[i]
  BY <1>2
<1>5. ASSUME NEW n, Published(s, n) PROVE Published(r, n)
  <2>1. PICK j \in DOMAIN s.ledger : s.ledger[j].nonce = n
    BY <1>5 DEF Published
  <2>2. CASE n = t.nonce
    BY <1>3, <1>4, <2>2 DEF Published
  <2>3. CASE n # t.nonce
    <3>1. s.ledger[j] \in others
      BY <1>1, <2>1, <2>3 DEF others
    <3>2. PICK i \in DOMAIN rest : rest[i] = s.ledger[j]
      BY <1>2, <3>1
    <3> QED BY <1>3, <1>4, <2>1, <3>2 DEF Published
  <2> QED BY <2>2, <2>3
<1>6. Published(r, t.nonce)
  BY <1>3, <1>4 DEF Published
<1>7. \A n \in r.owed : Holds(s, n) \/ Published(r, n) \/ n \in hand
  BY <1>1, <1>3, <1>5, <1>6 DEF Kept
<1>8. r \in Sound(hand)
  BY <1>1, <1>3, <1>7, LedgerSound
<1> QED BY <1>8 DEF r

LEMMA ConfirmSound ==
    ASSUME NEW hand, NEW s \in Sound(hand), NEW n \in Nat
    PROVE  ConfirmThrough(s, n) \in Sound(hand)
<1> DEFINE r == ConfirmThrough(s, n)
           above == {u \in Txs : u.nonce > n}
           rest == Only(s.ledger, above)
<1>1. s \in Replicas /\ InPlace(s) /\ Kept(s, hand) /\ s.ledger \in Seq(Txs)
      /\ s.owed \subseteq Nonces
  BY DEF Sound, Replicas
<1>2. /\ rest \in Seq(Txs)
      /\ \A j \in DOMAIN s.ledger : s.ledger[j] \in above =>
            \E i \in DOMAIN rest : rest[i] = s.ledger[j]
  <2> HIDE DEF above
  <2> QED BY <1>1, Trimmed
<1> HIDE DEF above, rest
<1>3. /\ r \in Replicas /\ r.pending = s.pending /\ r.next = s.next /\ r.ledger = rest
      /\ r.owed = {m \in s.owed : m > n \/ Holds(s, m)}
  BY <1>1, <1>2 DEF ConfirmThrough, Replicas, above, rest
<1> HIDE DEF r
<1>4. ASSUME NEW m \in r.owed, Published(s, m), ~Holds(s, m) PROVE Published(r, m)
  <2>1. PICK j \in DOMAIN s.ledger : s.ledger[j].nonce = m
    BY <1>4 DEF Published
  <2>2. s.ledger[j] \in above
    BY <1>1, <1>3, <1>4, <2>1 DEF above
  <2> QED BY <1>2, <1>3, <2>1, <2>2 DEF Published
<1>5. \A m \in r.owed : Holds(s, m) \/ Published(r, m) \/ m \in hand
  BY <1>1, <1>3, <1>4 DEF Kept
<1>6. r \in Sound(hand)
  BY <1>1, <1>3, <1>5, LedgerSound
<1> QED BY <1>6 DEF r

LEMMA ReleaseSound ==
    ASSUME NEW hand, NEW s \in Sound(hand), NEW n \in Nat
    PROVE  ReleaseFloor(s, n) \in Sound(hand)
<1> DEFINE r == ReleaseFloor(s, n)
<1>1. s \in Replicas /\ InPlace(s) /\ Kept(s, hand)
  BY DEF Sound
<1>2. CASE s.next > n
  <2>1. /\ r \in Replicas /\ r.pending = s.pending /\ r.next = n /\ r.ledger = s.ledger
        /\ r.owed = s.owed
    BY <1>1, <1>2 DEF ReleaseFloor, Replicas, Level
  <2> HIDE DEF r
  <2>2. InPlace(r)
    <3> SUFFICES ASSUME NEW m \in Nonces, Holds(r, m)
                 PROVE  r.pending[m].tx.nonce = m /\ r.next # Absent /\ r.next <= m
      BY DEF InPlace, Parked
    <3>1. m \in Nat /\ s.next \in Int
      BY <1>1, Inputs DEF Replicas, Level, Absent
    <3>2. s.pending[m].tx.nonce = m /\ s.next <= m
      BY <1>1, <2>1 DEF InPlace, Parked, Holds
    <3> QED BY <1>2, <2>1, <3>1, <3>2 DEF Absent
  <2>3. Kept(r, hand)
    BY <1>1, <2>1 DEF Kept, Holds, Published
  <2> QED BY <2>1, <2>2, <2>3 DEF Sound, r
<1>3. CASE ~(s.next > n)
  BY <1>3 DEF ReleaseFloor
<1> QED BY <1>2, <1>3

LEMMA AdvanceSound ==
    ASSUME NEW hand, NEW s \in Sound(hand), NEW floor \in Nat
    PROVE  AdvanceFloor(s, floor) \in Sound(hand)
<1> DEFINE r == AdvanceFloor(s, floor)
           below == {n \in Parked(s) : n < floor}
           e == Emptied(s, below)
<1>1. s \in Replicas /\ InPlace(s) /\ Kept(s, hand)
  BY DEF Sound
<1>2. CASE floor <= NextNonce(s)
  BY <1>2 DEF AdvanceFloor
<1>3. CASE ~(floor <= NextNonce(s))
  <2>1. /\ e \in Replicas /\ e.ledger = s.ledger /\ e.owed = s.owed
        /\ \A n \in Nonces : e.pending[n] = IF n \in below THEN NoSlot ELSE s.pending[n]
    BY <1>1, EmptiedFields
  <2>2. r = [e EXCEPT !.next = floor, !.refused = {n \in @ : n >= floor}, !.owed = @ \ below]
    BY <1>3 DEF AdvanceFloor
  <2> HIDE DEF r, e, below
  <2>3. /\ r \in Replicas /\ r.pending = e.pending /\ r.next = floor /\ r.ledger = s.ledger
        /\ r.owed = s.owed \ below
    BY <2>1, <2>2 DEF Replicas, Level
  <2>4. ASSUME NEW n \in Nonces
        PROVE  r.pending[n] = IF n \in below THEN NoSlot ELSE s.pending[n]
    BY <2>1, <2>3
  <2>5. InPlace(r)
    <3> SUFFICES ASSUME NEW m \in Nonces, Holds(r, m)
                 PROVE  r.pending[m].tx.nonce = m /\ r.next # Absent /\ r.next <= m
      BY DEF InPlace, Parked
    <3>1. m \in Nat
      BY Inputs
    <3>2. m \notin below /\ r.pending[m] = s.pending[m]
      BY <2>4 DEF Holds
    <3>3. m \in Parked(s)
      BY <3>2 DEF Parked, Holds
    <3>4. ~(m < floor)
      BY <3>2, <3>3 DEF below
    <3>5. s.pending[m].tx.nonce = m
      BY <1>1, <3>3 DEF InPlace
    <3> QED BY <2>3, <3>1, <3>2, <3>4, <3>5 DEF Absent
  <2>6. Kept(r, hand)
    <3> SUFFICES ASSUME NEW m \in r.owed
                 PROVE  Holds(r, m) \/ Published(r, m) \/ m \in hand
      BY DEF Kept
    <3>1. m \in s.owed /\ m \notin below
      BY <2>3
    <3>2. Holds(s, m) => Holds(r, m)
      BY <2>4, <3>1 DEF Holds
    <3>3. Published(s, m) => Published(r, m)
      BY <2>3 DEF Published
    <3> QED BY <1>1, <3>1, <3>2, <3>3 DEF Kept
  <2>7. r \in Sound(hand)
    BY <2>3, <2>5, <2>6 DEF Sound
  <2> QED BY <2>7 DEF r
<1> QED BY <1>2, <1>3

LEMMA UnrecordSound ==
    ASSUME NEW hand, NEW s \in Sound(hand), NEW taken, NEW more,
           \A j \in DOMAIN s.ledger : s.ledger[j] \in taken => s.ledger[j].nonce \in more
    PROVE  Unrecord(s, taken) \in Sound(hand \cup more)
<1> DEFINE r == Unrecord(s, taken)
           others == Txs \ taken
           rest == Only(s.ledger, others)
<1>1. s \in Replicas /\ InPlace(s) /\ Kept(s, hand) /\ s.ledger \in Seq(Txs)
  BY DEF Sound, Replicas
<1>2. /\ rest \in Seq(Txs)
      /\ \A j \in DOMAIN s.ledger : s.ledger[j] \in others =>
            \E i \in DOMAIN rest : rest[i] = s.ledger[j]
  <2> HIDE DEF others
  <2> QED BY <1>1, Trimmed
<1> HIDE DEF others, rest
<1>3. /\ r \in Replicas /\ r.pending = s.pending /\ r.next = s.next /\ r.owed = s.owed
      /\ r.ledger = rest
  BY <1>1, <1>2 DEF Unrecord, Replicas, others, rest
<1> HIDE DEF r
<1>4. ASSUME NEW n, Published(s, n) PROVE Published(r, n) \/ n \in more
  <2>1. PICK j \in DOMAIN s.ledger : s.ledger[j].nonce = n
    BY <1>4 DEF Published
  <2>2. CASE s.ledger[j] \in taken
    BY <2>1, <2>2
  <2>3. CASE s.ledger[j] \notin taken
    <3>1. s.ledger[j] \in others
      BY <1>1, <2>3 DEF others
    <3> QED BY <1>2, <1>3, <2>1, <3>1 DEF Published
  <2> QED BY <2>2, <2>3
<1>5. \A n \in r.owed : Holds(s, n) \/ Published(r, n) \/ n \in hand \cup more
  BY <1>1, <1>3, <1>4 DEF Kept
<1>6. r \in Sound(hand \cup more)
  <2>1. PICK both : both = hand \cup more
    OBVIOUS
  <2> QED BY <1>1, <1>3, <1>5, <2>1, LedgerSound
<1> QED BY <1>6 DEF r

LEMMA MarkSound ==
    ASSUME NEW hand, NEW s \in Sound(hand), NEW n \in Nonces
    PROVE  MarkRefused(s, n) \in Sound(hand)
<1>1. s \in Replicas /\ InPlace(s) /\ Kept(s, hand)
  BY DEF Sound
<1>2. CASE n < NextNonce(s)
  <2> DEFINE r == MarkRefused(s, n)
  <2>1. /\ r \in Replicas /\ r.pending = s.pending /\ r.next = s.next /\ r.ledger = s.ledger
        /\ r.owed = s.owed
    BY <1>1, <1>2 DEF MarkRefused, Replicas
  <2> HIDE DEF r
  <2>2. \A m \in r.owed : Holds(s, m) \/ Published(r, m) \/ m \in hand
    BY <1>1, <2>1 DEF Kept, Published
  <2>3. r \in Sound(hand)
    BY <1>1, <2>1, <2>2, LedgerSound
  <2> QED BY <2>3 DEF r
<1>3. CASE ~(n < NextNonce(s))
  BY <1>3 DEF MarkRefused
<1> QED BY <1>2, <1>3

\* Taking entries out of the buffer puts their nonces in hand.
LEMMA EmptiedSound ==
    ASSUME NEW hand, NEW s \in Sound(hand), NEW gone
    PROVE  Emptied(s, gone) \in Sound(hand \cup gone)
<1> DEFINE r == Emptied(s, gone)
<1>1. s \in Replicas /\ InPlace(s) /\ Kept(s, hand)
  BY DEF Sound
<1>2. /\ r \in Replicas /\ r.next = s.next /\ r.ledger = s.ledger /\ r.owed = s.owed
      /\ \A n \in Nonces : r.pending[n] = IF n \in gone THEN NoSlot ELSE s.pending[n]
  BY <1>1, EmptiedFields
<1> HIDE DEF r
<1>3. InPlace(r)
  BY <1>1, <1>2 DEF InPlace, Parked, Holds
<1>4. Kept(r, hand \cup gone)
  BY <1>1, <1>2 DEF Kept, Holds, Published
<1> QED BY <1>2, <1>3, <1>4 DEF Sound, r

LEMMA SoundGrows ==
    ASSUME NEW hand, NEW more, hand \subseteq more, NEW s \in Sound(hand)
    PROVE  s \in Sound(more)
BY DEF Sound, Kept

-----------------------------------------------------------------------------
(* The messages that a replica reads *)

Receipts == [nonce : Nat, kind : {"executed", "skipped", "high"}]
Refusals == [nonce : Nonces, tx : Txs \cup {NoTx}]
Answers == {a \in [kind : {"reject", "full"}, nonce : Nonces, expected : Level] :
               a.kind = "reject" => a.expected \in Nat}

LEMMA RefusalSound ==
    ASSUME NEW hand, NEW s \in Sound(hand), NEW f \in Refusals
    PROVE  ApplyRefusal(s, f) \in Sound(hand)
<1> DEFINE named == {t \in Txs : t.nonce = f.nonce /\ f.tx \in {t, NoTx}}
           inLedger == named \cap LedgerFrom(s, 0)
           slot == s.pending[f.nonce]
           taken == IF inLedger # {} THEN MarkRefused(Unrecord(s, inLedger), f.nonce)
                    ELSE IF slot.ttl /\ slot.tx \in named
                    THEN MarkRefused(Emptied(s, {f.nonce}), f.nonce)
                    ELSE s
           more == hand \cup {f.nonce}
<1>1. f.nonce \in Nonces
  BY DEF Refusals
<1>2. Unrecord(s, inLedger) \in Sound(more)
  <2>1. \A j \in DOMAIN s.ledger : s.ledger[j] \in inLedger => s.ledger[j].nonce \in {f.nonce}
    OBVIOUS
  <2> HIDE DEF inLedger
  <2> QED BY <2>1, UnrecordSound
<1>3. Emptied(s, {f.nonce}) \in Sound(more)
  BY EmptiedSound
<1>4. s \in Sound(more)
  BY SoundGrows
<1> HIDE DEF more, named, inLedger, slot
<1>5. taken \in Sound(more)
  BY <1>1, <1>2, <1>3, <1>4, MarkSound
<1> HIDE DEF taken
<1>6. Told(taken, f.nonce) \in Sound(hand)
  BY <1>5, ToldSound DEF more
<1> QED BY <1>6 DEF ApplyRefusal, taken, slot, inLedger, named

LEMMA PastRejectSound ==
    ASSUME NEW hand, NEW s \in Sound(hand), NEW a \in Answers
    PROVE  ApplyPastReject(s, a) \in Sound(hand)
<1>1. [nonce |-> a.nonce, tx |-> NoTx] \in Refusals
  BY DEF Refusals, Answers
<1>2. ApplyRefusal(s, [nonce |-> a.nonce, tx |-> NoTx]) \in Sound(hand)
  BY <1>1, RefusalSound
<1> QED BY <1>2 DEF ApplyPastReject

\* free_nonce: what goes back to the buffer was in the ledger, at or above the
\* nonce to which the floor falls.
LEMMA FreeSound ==
    ASSUME NEW hand, NEW s \in Sound(hand), NEW n \in Nat
    PROVE  FreeNonce(s, n) \in Sound(hand)
<1> DEFINE r == FreeNonce(s, n)
           later == LedgerFrom(s, n)
           more == {t.nonce : t \in later}
           u == Unrecord(s, later)
           low == IF s.next = Absent THEN n ELSE Smaller(s.next, n)
           parked == [m \in Nonces |-> IF \E t \in later : t.nonce = m
                                       THEN [tx |-> CHOOSE t \in later : t.nonce = m, ttl |-> TRUE]
                                       ELSE s.pending[m]]
<1>1. s \in Replicas /\ s.ledger \in Seq(Txs) /\ s.next \in Level
  BY DEF Sound, Replicas
<1>2. \A t \in later : t \in Txs /\ t.nonce >= n
  BY <1>1 DEF LedgerFrom
<1>3. u \in Sound(hand \cup more)
  <2>1. \A j \in DOMAIN s.ledger : s.ledger[j] \in later => s.ledger[j].nonce \in more
    OBVIOUS
  <2> HIDE DEF later, more
  <2> QED BY <2>1, UnrecordSound
<1>4. u.next = s.next /\ u.pending = s.pending
  BY <1>1 DEF Unrecord, Replicas
<1>5. low \in Nat /\ low <= n /\ (s.next # Absent => low <= s.next)
  BY <1>1 DEF Level, Smaller, Absent
<1>6. u \in Replicas /\ InPlace(u) /\ Kept(u, hand \cup more)
  BY <1>3 DEF Sound
<1> HIDE DEF u, low
<1>7. r = [u EXCEPT !.next = low, !.refused = {m \in @ : m < n}, !.pending = parked]
  <2>1. RewindFloor(u, n) = [u EXCEPT !.next = low]
    BY <1>4 DEF RewindFloor, low
  <2>2. [u EXCEPT !.next = low].pending = s.pending
    BY <1>4, <1>6 DEF Replicas
  <2> QED BY <2>1, <2>2 DEF FreeNonce, u
<1>8. ASSUME NEW m \in Nonces
      PROVE  /\ m \in more => /\ parked[m] \in Slot /\ parked[m] # NoSlot
                              /\ parked[m].tx.nonce = m /\ n <= m
             /\ m \notin more => parked[m] = s.pending[m]
  <2>1. CASE m \in more
    <3>1. PICK t \in later : t.nonce = m
      BY <2>1
    <3>2. PICK c : c = CHOOSE x \in later : x.nonce = m
      OBVIOUS
    <3>3. c \in later /\ c.nonce = m
      BY <3>1, <3>2
    <3>4. parked[m] = [tx |-> c, ttl |-> TRUE]
      BY <1>8, <3>1, <3>2
    <3>5. c \in Txs /\ n <= m /\ m \in Nat
      BY <1>2, <1>8, <3>3, Inputs
    <3> QED BY <2>1, <3>3, <3>4, <3>5, Inputs
  <2>2. CASE m \notin more
    BY <1>8, <2>2
  <2> QED BY <2>1, <2>2
<1>9. parked \in [Nonces -> Slot \cup {NoSlot}]
  <2>1. \A m \in Nonces : s.pending[m] \in Slot \cup {NoSlot}
    BY <1>1 DEF Replicas
  <2>2. \A m \in Nonces : parked[m] \in Slot \cup {NoSlot}
    BY <1>8, <2>1
  <2> QED BY <2>2
<1> HIDE DEF parked, more, later, r
<1>10. /\ r \in Replicas /\ r.next = low /\ r.pending = parked /\ r.ledger = u.ledger
       /\ r.owed = u.owed
  BY <1>5, <1>6, <1>7, <1>9 DEF Replicas, Level
<1>11. InPlace(r)
  <2> SUFFICES ASSUME NEW m \in Nonces, Holds(r, m)
               PROVE  r.pending[m].tx.nonce = m /\ r.next # Absent /\ r.next <= m
    BY DEF InPlace, Parked
  <2>1. m \in Nat /\ low # Absent
    BY <1>5, Inputs DEF Absent
  <2>2. CASE m \in more
    BY <1>5, <1>8, <1>10, <2>1, <2>2
  <2>3. CASE m \notin more
    <3>1. r.pending[m] = s.pending[m] /\ Holds(u, m)
      BY <1>4, <1>8, <1>10, <2>3 DEF Holds
    <3>2. s.pending[m].tx.nonce = m /\ s.next # Absent /\ s.next <= m
      BY <1>4, <1>6, <3>1 DEF InPlace, Parked
    <3> QED BY <1>1, <1>5, <1>10, <2>1, <3>1, <3>2 DEF Level, Absent
  <2> QED BY <2>2, <2>3
<1>12. Kept(r, hand)
  <2> SUFFICES ASSUME NEW m \in r.owed PROVE Holds(r, m) \/ Published(r, m) \/ m \in hand
    BY DEF Kept
  <2>1. m \in Nonces
    BY <1>10 DEF Replicas
  <2>2. CASE m \in more
    BY <1>8, <1>10, <2>1, <2>2 DEF Holds
  <2>3. CASE m \notin more
    <3>1. Holds(u, m) => Holds(r, m)
      BY <1>4, <1>8, <1>10, <2>1, <2>3 DEF Holds
    <3>2. Published(u, m) => Published(r, m)
      BY <1>10 DEF Published
    <3> QED BY <1>6, <1>10, <2>3, <3>1, <3>2 DEF Kept
  <2> QED BY <2>2, <2>3
<1>13. r \in Sound(hand)
  BY <1>10, <1>11, <1>12 DEF Sound
<1> QED BY <1>13 DEF r

-----------------------------------------------------------------------------
(* The folds of a pass *)

\* The nonces of q after the first i.
Rest(q, i) == {q[j].nonce : j \in (i + 1)..Len(q)}

\* A step that takes one nonce at a time ends with none in hand.
LEMMA HandsRunOut ==
    ASSUME NEW q \in Seq(Txs), NEW hand, NEW h, h[0] \in Sound(hand \cup Rest(q, 0)),
           \A i \in 1..Len(q) : \A more :
               h[i - 1] \in Sound(more \cup {q[i].nonce}) => h[i] \in Sound(more)
    PROVE  h[Len(q)] \in Sound(hand)
<1> DEFINE n == Len(q)
           G == [i \in 0..n |-> Sound(hand \cup Rest(q, i))]
<1>1. n \in Nat
  OBVIOUS
<1>2. h[0] \in G[0]
  BY <1>1
<1>3. ASSUME NEW i \in 1..n, h[i - 1] \in G[i - 1] PROVE h[i] \in G[i]
  <2>1. i \in 0..n /\ i - 1 \in 0..n /\ (i - 1) + 1 = i
    BY <1>1
  <2>2. Rest(q, i - 1) = Rest(q, i) \cup {q[i].nonce}
    BY <1>1, <2>1 DEF Rest
  <2>3. hand \cup Rest(q, i - 1) = (hand \cup Rest(q, i)) \cup {q[i].nonce}
    BY <2>2
  <2>4. h[i - 1] \in Sound((hand \cup Rest(q, i)) \cup {q[i].nonce})
    BY <1>3, <2>1, <2>3
  <2>5. h[i] \in Sound(hand \cup Rest(q, i))
    BY <1>3, <2>4
  <2> QED BY <2>1, <2>5
<1>4. h[n] \in G[n]
  <2> HIDE DEF G, n
  <2>1. \A i \in 0..n : h[i] \in G[i]
    BY <1>1, <1>2, <1>3, PathInduction
  <2> QED BY <1>1, <2>1
<1>5. Rest(q, n) = {}
  BY <1>1 DEF Rest
<1>6. hand \cup Rest(q, n) = hand
  BY <1>5
<1> QED BY <1>1, <1>4, <1>6

LEMMA AllInHand ==
    ASSUME NEW hand
    PROVE  Sound(hand) \subseteq Sound(Nonces)
BY DEF Sound, Kept, Replicas

LEMMA ReinsertAllSound ==
    ASSUME NEW q \in Seq(Txs), NEW hand, NEW s \in Sound(hand \cup Rest(q, 0))
    PROVE  ReinsertAll(s, q) \in Sound(hand)
<1> DEFINE A == Sound(Nonces)
<1>1. s \in A
  BY AllInHand
<1>2. \A r \in A, t \in Txs : ReinsertForRetry(r, t) \in A
  <2> SUFFICES ASSUME NEW r \in A, NEW t \in Txs PROVE ReinsertForRetry(r, t) \in A
    OBVIOUS
  <2>1. Nonces = Nonces \cup {t.nonce}
    BY Inputs
  <2> QED BY <2>1, ReinsertSound
<1> HIDE DEF A
<1>3. PICK h : /\ h[0] = s /\ h[Len(q)] = ReinsertAll(s, q)
               /\ \A i \in 0..Len(q) : h[i] \in A
               /\ \A i \in 1..Len(q) : h[i] = ReinsertForRetry(h[i - 1], q[i])
  BY <1>1, <1>2, ReinsertPath
<1>4. ASSUME NEW i \in 1..Len(q), NEW more, h[i - 1] \in Sound(more \cup {q[i].nonce})
      PROVE  h[i] \in Sound(more)
  <2>1. q[i] \in Txs
    BY <1>4
  <2>2. ReinsertForRetry(h[i - 1], q[i]) \in Sound(more)
    BY <1>4, <2>1, ReinsertSound
  <2> QED BY <1>3, <2>2
<1> QED BY <1>3, <1>4, HandsRunOut

LEMMA RebufferAllSound ==
    ASSUME NEW q \in Seq(Txs), NEW hand, NEW s \in Sound(hand \cup Rest(q, 0))
    PROVE  RebufferAll(s, q) \in Sound(hand)
<1> DEFINE A == Sound(Nonces)
<1>1. s \in A
  BY AllInHand
<1>2. \A r \in A, t \in Txs : Rebuffer(r, t) \in A
  <2> SUFFICES ASSUME NEW r \in A, NEW t \in Txs PROVE Rebuffer(r, t) \in A
    OBVIOUS
  <2>1. Nonces = Nonces \cup {t.nonce}
    BY Inputs
  <2> QED BY <2>1, RebufferSound
<1> HIDE DEF A
<1>3. PICK h : /\ h[0] = s /\ h[Len(q)] = RebufferAll(s, q)
               /\ \A i \in 0..Len(q) : h[i] \in A
               /\ \A i \in 1..Len(q) : h[i] = Rebuffer(h[i - 1], q[i])
  BY <1>1, <1>2, RebufferPath
<1>4. ASSUME NEW i \in 1..Len(q), NEW more, h[i - 1] \in Sound(more \cup {q[i].nonce})
      PROVE  h[i] \in Sound(more)
  <2>1. q[i] \in Txs
    BY <1>4
  <2>2. Rebuffer(h[i - 1], q[i]) \in Sound(more)
    BY <1>4, <2>1, RebufferSound
  <2> QED BY <1>3, <2>2
<1> QED BY <1>3, <1>4, HandsRunOut

LEMMA RecordAllSound ==
    ASSUME NEW q \in Seq(Txs), NEW hand, NEW s \in Sound(hand \cup Rest(q, 0))
    PROVE  RecordAll(s, q) \in Sound(hand)
<1> DEFINE A == Sound(Nonces)
<1>1. s \in A
  BY AllInHand
<1>2. \A r \in A, t \in Txs : RecordPublished(r, t) \in A
  <2> SUFFICES ASSUME NEW r \in A, NEW t \in Txs PROVE RecordPublished(r, t) \in A
    OBVIOUS
  <2>1. Nonces = Nonces \cup {t.nonce}
    BY Inputs
  <2> QED BY <2>1, RecordSound
<1> HIDE DEF A
<1>3. PICK h : /\ h[0] = s /\ h[Len(q)] = RecordAll(s, q)
               /\ \A i \in 0..Len(q) : h[i] \in A
               /\ \A i \in 1..Len(q) : h[i] = RecordPublished(h[i - 1], q[i])
  BY <1>1, <1>2, RecordPath
<1>4. ASSUME NEW i \in 1..Len(q), NEW more, h[i - 1] \in Sound(more \cup {q[i].nonce})
      PROVE  h[i] \in Sound(more)
  <2>1. q[i] \in Txs
    BY <1>4
  <2>2. RecordPublished(h[i - 1], q[i]) \in Sound(more)
    BY <1>4, <2>1, RecordSound
  <2> QED BY <1>3, <2>2
<1> QED BY <1>3, <1>4, HandsRunOut

LEMMA RewindSound ==
    ASSUME NEW hand, NEW s \in Sound(hand), NEW taken
    PROVE  RewindForRepublish(s, taken) \in Sound(hand)
<1> DEFINE q == Only(s.ledger, taken)
<1>1. s.ledger \in Seq(Txs)
  BY DEF Sound, Replicas
<1>2. /\ q \in Seq(Txs)
      /\ \A j \in DOMAIN s.ledger : s.ledger[j] \in taken =>
            \E i \in DOMAIN q : q[i] = s.ledger[j]
  BY <1>1, Trimmed
<1> HIDE DEF q
<1>3. \A j \in DOMAIN s.ledger : s.ledger[j] \in taken => s.ledger[j].nonce \in Rest(q, 0)
  <2> SUFFICES ASSUME NEW j \in DOMAIN s.ledger, s.ledger[j] \in taken
               PROVE  s.ledger[j].nonce \in Rest(q, 0)
    OBVIOUS
  <2>1. PICK i \in DOMAIN q : q[i] = s.ledger[j]
    BY <1>2
  <2>2. i \in (0 + 1)..Len(q)
    BY <1>2, <2>1
  <2> QED BY <2>1, <2>2 DEF Rest
<1>4. Unrecord(s, taken) \in Sound(hand \cup Rest(q, 0))
  BY <1>3, UnrecordSound
<1>5. ReinsertAll(Unrecord(s, taken), q) \in Sound(hand)
  BY <1>2, <1>4, ReinsertAllSound
<1> QED BY <1>5 DEF RewindForRepublish, ReinsertAll, q

\* The lists of a floor drain.
Drains == [floor : Level, confirmed : Seq(Nat), released : Seq(Nat), raised : Seq(Nat)]

LEMMA FoldReceiptType ==
    ASSUME NEW d \in Drains, NEW c \in Receipts
    PROVE  FoldReceipt(d, c) \in Drains
<1> DEFINE release == Released(c, Larger(d.floor, 0))
           raise == IF c.kind = "executed" /\ c.nonce + 1 > d.floor THEN c.nonce + 1 ELSE Absent
<1>1. c.nonce \in Nat /\ d.floor \in Level
  BY DEF Receipts, Drains
<1>2. release \in Level /\ raise \in Level /\ Larger(d.floor, raise) \in Level
  BY <1>1 DEF Released, Larger, Level, Absent
<1>3. d.confirmed \in Seq(Nat) /\ d.released \in Seq(Nat) /\ d.raised \in Seq(Nat)
  BY DEF Drains
<1>4. FoldReceipt(d, c) =
        [floor     |-> Larger(d.floor, raise),
         confirmed |-> Append(d.confirmed, c.nonce),
         released  |-> IF release = Absent THEN d.released ELSE Append(d.released, release),
         raised    |-> IF raise = Absent THEN d.raised ELSE Append(d.raised, raise)]
  BY DEF FoldReceipt
<1> HIDE DEF release, raise
<1>5. Append(d.confirmed, c.nonce) \in Seq(Nat)
  BY <1>1, <1>3
<1>6. (IF release = Absent THEN d.released ELSE Append(d.released, release)) \in Seq(Nat)
  BY <1>2, <1>3 DEF Level
<1>7. (IF raise = Absent THEN d.raised ELSE Append(d.raised, raise)) \in Seq(Nat)
  BY <1>2, <1>3 DEF Level
<1> QED BY <1>2, <1>4, <1>5, <1>6, <1>7 DEF Drains

LEMMA FoldReceiptsType ==
    ASSUME NEW d \in Drains, NEW cs \in Seq(Receipts)
    PROVE  FoldReceipts(d, cs) \in Drains
<1>1. \A r \in Drains, c \in Receipts : FoldReceipt(r, c) \in Drains
  BY FoldReceiptType
<1>2. PICK h : h[Len(cs)] = FoldReceipts(d, cs) /\ \A i \in 0..Len(cs) : h[i] \in Drains
  BY <1>1, FoldReceiptPath
<1>3. Len(cs) \in 0..Len(cs)
  OBVIOUS
<1> QED BY <1>2, <1>3

LEMMA ConfirmAllSound ==
    ASSUME NEW s \in Sound({}), NEW ns \in Seq(Nat)
    PROVE  ConfirmAll(s, ns) \in Sound({})
<1>1. \A r \in Sound({}), n \in Nat : ConfirmThrough(r, n) \in Sound({})
  BY ConfirmSound
<1>2. PICK h : h[Len(ns)] = ConfirmAll(s, ns) /\ \A i \in 0..Len(ns) : h[i] \in Sound({})
  BY <1>1, ConfirmPath
<1>3. Len(ns) \in 0..Len(ns)
  OBVIOUS
<1> QED BY <1>2, <1>3

LEMMA ReleaseAllSound ==
    ASSUME NEW s \in Sound({}), NEW ns \in Seq(Nat)
    PROVE  ReleaseAll(s, ns) \in Sound({})
<1>1. \A r \in Sound({}), n \in Nat : ReleaseFloor(r, n) \in Sound({})
  BY ReleaseSound
<1>2. PICK h : h[Len(ns)] = ReleaseAll(s, ns) /\ \A i \in 0..Len(ns) : h[i] \in Sound({})
  BY <1>1, ReleasePath
<1>3. Len(ns) \in 0..Len(ns)
  OBVIOUS
<1> QED BY <1>2, <1>3

LEMMA AdvanceAllSound ==
    ASSUME NEW s \in Sound({}), NEW ns \in Seq(Nat)
    PROVE  AdvanceAll(s, ns) \in Sound({})
<1>1. \A r \in Sound({}), n \in Nat : AdvanceFloor(r, n) \in Sound({})
  BY AdvanceSound
<1>2. PICK h : h[Len(ns)] = AdvanceAll(s, ns) /\ \A i \in 0..Len(ns) : h[i] \in Sound({})
  BY <1>1, AdvancePath
<1>3. Len(ns) \in 0..Len(ns)
  OBVIOUS
<1> QED BY <1>2, <1>3

LEMMA ReceiptsSound ==
    ASSUME NEW s \in Sound({}), NEW cs \in Seq(Receipts)
    PROVE  ApplyReceiptDrain(s, cs) \in Sound({})
<1> DEFINE d0 == [floor |-> s.floor, confirmed |-> <<>>, released |-> <<>>, raised |-> <<>>]
           d == FoldReceipts(d0, cs)
           t == [s EXCEPT !.floor = d.floor]
           confirmed == ConfirmAll(t, d.confirmed)
           released == ReleaseAll(confirmed, d.released)
<1>1. s \in Replicas /\ InPlace(s) /\ Kept(s, {}) /\ s.floor \in Level
  BY DEF Sound, Replicas
<1>2. d0 \in Drains
  <2>1. <<>> \in Seq(Nat)
    OBVIOUS
  <2> QED BY <1>1, <2>1 DEF Drains
<1> HIDE DEF d0
<1>3. d \in Drains
  BY <1>2, FoldReceiptsType
<1>4. /\ d.floor \in Level /\ d.confirmed \in Seq(Nat) /\ d.released \in Seq(Nat)
      /\ d.raised \in Seq(Nat)
  BY <1>3 DEF Drains
<1> HIDE DEF d
<1>5. t \in Sound({})
  <2>1. /\ t \in Replicas /\ t.pending = s.pending /\ t.next = s.next /\ t.owed = s.owed
        /\ t.ledger = s.ledger
    BY <1>1, <1>4 DEF Replicas
  <2> HIDE DEF t
  <2>2. \A n \in t.owed : Holds(s, n) \/ Published(t, n) \/ n \in {}
    BY <1>1, <2>1 DEF Kept, Published
  <2> QED BY <1>1, <2>1, <2>2, LedgerSound
<1> HIDE DEF t
<1>6. confirmed \in Sound({})
  BY <1>4, <1>5, ConfirmAllSound
<1>7. released \in Sound({})
  <2> HIDE DEF confirmed
  <2> QED BY <1>4, <1>6, ReleaseAllSound
<1> HIDE DEF confirmed, released
<1>8. AdvanceAll(released, d.raised) \in Sound({})
  BY <1>4, <1>7, AdvanceAllSound
<1>9. ApplyReceiptDrain(s, cs) = AdvanceAll(released, d.raised)
  BY Zenon DEF ApplyReceiptDrain, AdvanceAll, released, ReleaseAll, confirmed, ConfirmAll,
               t, d, FoldReceipts, d0
<1> QED BY <1>8, <1>9

LEMMA RefuseAllSound ==
    ASSUME NEW s \in Sound({}), NEW fs \in Seq(Refusals)
    PROVE  RefuseAll(s, fs) \in Sound({})
<1>1. \A r \in Sound({}), f \in Refusals : ApplyRefusal(r, f) \in Sound({})
  BY RefusalSound
<1>2. PICK h : h[Len(fs)] = RefuseAll(s, fs) /\ \A i \in 0..Len(fs) : h[i] \in Sound({})
  BY <1>1, RefusalPath
<1>3. Len(fs) \in 0..Len(fs)
  OBVIOUS
<1> QED BY <1>2, <1>3

LEMMA PastRejectAllSound ==
    ASSUME NEW s \in Sound({}), NEW al \in Seq(Answers)
    PROVE  PastRejectAll(s, al) \in Sound({})
<1>1. \A r \in Sound({}), a \in Answers : ApplyPastReject(r, a) \in Sound({})
  BY PastRejectSound
<1>2. PICK h : h[Len(al)] = PastRejectAll(s, al) /\ \A i \in 0..Len(al) : h[i] \in Sound({})
  BY <1>1, PastRejectPath
<1>3. Len(al) \in 0..Len(al)
  OBVIOUS
<1> QED BY <1>2, <1>3

LEMMA RepublishAllSound ==
    ASSUME NEW s \in Sound({}), NEW al \in Seq(Answers)
    PROVE  RepublishAll(s, al) \in Sound({})
<1>1. \A r \in Sound({}), a \in Answers : RepublishHeld(r, a) \in Sound({})
  BY RewindSound DEF RepublishHeld
<1>2. PICK h : h[Len(al)] = RepublishAll(s, al) /\ \A i \in 0..Len(al) : h[i] \in Sound({})
  BY <1>1, HeldPath
<1>3. Len(al) \in 0..Len(al)
  OBVIOUS
<1> QED BY <1>2, <1>3

LEMMA GapSound ==
    ASSUME NEW s \in Sound({}), NEW n \in Nat
    PROVE  ApplyGap(s, n) \in Sound({})
BY RewindSound, FreeSound DEF ApplyGap

LEMMA OnlyAnswers ==
    ASSUME NEW al \in Seq(Answers), NEW kept
    PROVE  Only(al, kept) \in Seq(Answers)
BY OnlyKeeps

LEMMA AnswersSound ==
    ASSUME NEW s \in Sound({}), NEW al \in Seq(Answers)
    PROVE  ApplySealerAnswers(s, al) \in Sound({})
<1> DEFINE rejects == {a \in ToSet(al) : a.kind = "reject"}
           drops == {a \in rejects : a.nonce < RaisedToFloor(s, a)}
           gaps == {RaisedToFloor(s, a) : a \in rejects \ drops}
           full == {a \in ToSet(al) : a.kind = "full"}
           dropped == PastRejectAll(s, Only(al, drops))
           least == CHOOSE g \in gaps : \A h \in gaps : g <= h
           healed == IF gaps = {} THEN dropped ELSE ApplyGap(dropped, least)
<1>1. \A a \in rejects : a.expected \in Nat
  BY DEF ToSet, Answers
<1>2. gaps \subseteq Nat
  <2>1. s.floor \in Level
    BY DEF Sound, Replicas
  <2>2. \A a \in rejects : RaisedToFloor(s, a) \in Nat
    BY <1>1, <2>1 DEF RaisedToFloor, Larger, Level, Absent
  <2> QED BY <2>2
<1> HIDE DEF rejects
<1>3. dropped \in Sound({})
  BY OnlyAnswers, PastRejectAllSound
<1> HIDE DEF drops, dropped
<1>4. healed \in Sound({})
  <2>1. CASE gaps = {}
    BY <1>3, <2>1
  <2>2. CASE gaps # {}
    <3> HIDE DEF gaps
    <3>1. \E g \in gaps : \A h \in gaps : g <= h
      BY <1>2, <2>2, LeastNatural
    <3>2. least \in gaps
      BY <3>1
    <3> HIDE DEF least
    <3>3. ApplyGap(dropped, least) \in Sound({})
      BY <1>2, <1>3, <3>2, GapSound
    <3> QED BY <2>2, <3>3
  <2> QED BY <2>1, <2>2
<1> HIDE DEF healed, full
<1>5. RepublishAll(healed, Only(al, full)) \in Sound({})
  BY <1>4, OnlyAnswers, RepublishAllSound
<1>6. ApplySealerAnswers(s, al) = RepublishAll(healed, Only(al, full))
  BY Zenon DEF ApplySealerAnswers, RepublishAll, healed, dropped, PastRejectAll, full, gaps,
               drops, rejects, least
<1> QED BY <1>5, <1>6

-----------------------------------------------------------------------------
(* The sweeps, the buffer and the flush *)

LEMMA ExpirySound ==
    ASSUME NEW s \in Sound({}), NEW gone
    PROVE  SweepExpired(s, gone) \in Sound({})
<1> DEFINE e == Emptied(s, gone)
           r == SweepExpired(s, gone)
<1>1. s \in Replicas /\ InPlace(s) /\ Kept(s, {})
  BY DEF Sound
<1>2. /\ e \in Replicas /\ e.next = s.next /\ e.ledger = s.ledger /\ e.owed = s.owed
      /\ \A n \in Nonces : e.pending[n] = IF n \in gone THEN NoSlot ELSE s.pending[n]
  BY <1>1, EmptiedFields
<1>3. r = [e EXCEPT !.owed = {n \in @ : n \in gone => Published(s, n)}]
  BY DEF SweepExpired
<1> HIDE DEF e, r
<1>4. /\ r \in Replicas /\ r.next = s.next /\ r.ledger = s.ledger /\ r.pending = e.pending
      /\ r.owed = {n \in s.owed : n \in gone => Published(s, n)}
  BY <1>2, <1>3 DEF Replicas
<1>5. InPlace(r)
  BY <1>1, <1>2, <1>4 DEF InPlace, Parked, Holds
<1>6. Kept(r, {})
  <2> SUFFICES ASSUME NEW n \in r.owed PROVE Holds(r, n) \/ Published(r, n)
    BY DEF Kept
  <2>1. Published(s, n) => Published(r, n)
    BY <1>4 DEF Published
  <2>2. n \notin gone /\ Holds(s, n) => Holds(r, n)
    BY <1>2, <1>4 DEF Holds
  <2> QED BY <1>1, <1>4, <2>1, <2>2 DEF Kept
<1> QED BY <1>4, <1>5, <1>6 DEF Sound, r

\* process: the floor becomes known before the envelope is looked at.
LEMMA StartSound ==
    ASSUME NEW old \in Sound({}), NEW s, s = [old EXCEPT !.next = NextNonce(old)]
    PROVE  s \in Sound({}) /\ s.next \in Nat /\ s.next = NextNonce(old)
           /\ s.pending = old.pending /\ s.refused = old.refused
<1>1. old \in Replicas /\ InPlace(old) /\ Kept(old, {}) /\ old.next \in Level
  BY DEF Sound, Replicas
<1>2. NextNonce(old) \in Nat /\ (old.next # Absent => NextNonce(old) = old.next)
  BY <1>1 DEF NextNonce, Larger, Level, Absent
<1>3. /\ s \in Replicas /\ s.next = NextNonce(old) /\ s.pending = old.pending
      /\ s.ledger = old.ledger /\ s.owed = old.owed /\ s.refused = old.refused
  BY <1>1, <1>2 DEF Replicas, Level
<1>4. InPlace(s)
  BY <1>1, <1>2, <1>3 DEF InPlace, Parked, Holds, Absent
<1>5. Kept(s, {})
  BY <1>1, <1>3 DEF Kept, Holds, Published
<1> QED BY <1>2, <1>3, <1>4, <1>5 DEF Sound

\* The replica accepts a nonce: it is in hand until it is parked or published.
LEMMA AcceptSound ==
    ASSUME NEW hand, NEW s \in Sound(hand), NEW n \in Nonces, NEW r,
           r = [s EXCEPT !.owed = @ \cup {n}]
    PROVE  r \in Sound(hand \cup {n}) /\ r.next = s.next /\ r.pending = s.pending
<1>1. s \in Replicas /\ InPlace(s) /\ Kept(s, hand)
  BY DEF Sound
<1>2. /\ r \in Replicas /\ r.next = s.next /\ r.pending = s.pending /\ r.ledger = s.ledger
      /\ r.owed = s.owed \cup {n}
  BY <1>1 DEF Replicas
<1>3. InPlace(r)
  BY <1>1, <1>2 DEF InPlace, Parked, Holds
<1>4. Kept(r, hand \cup {n})
  BY <1>1, <1>2 DEF Kept, Holds, Published
<1> QED BY <1>2, <1>3, <1>4 DEF Sound

LEMMA ParkSound ==
    ASSUME NEW s \in Sound({}), s.next \in Nat, NEW t \in Txs, t.nonce > s.next
    PROVE  Park(s, t) \in Sound({})
<1> DEFINE held == Parked(s)
           furthest == CHOOSE n \in held : \A m \in held : m <= n
           slot == [tx |-> t, ttl |-> TRUE]
           took == [s EXCEPT !.pending[t.nonce] = slot, !.owed = @ \cup {t.nonce}]
<1>1. s \in Replicas /\ InPlace(s) /\ Kept(s, {})
  BY DEF Sound
<1>2. t.nonce \in Nonces /\ t.nonce \in Nat /\ slot \in Slot /\ slot # NoSlot
  BY Inputs
<1>3. /\ took \in Replicas /\ took.next = s.next /\ took.ledger = s.ledger
      /\ took.owed = s.owed \cup {t.nonce}
      /\ took.pending = [s.pending EXCEPT ![t.nonce] = slot]
  <2> HIDE DEF slot
  <2> QED BY <1>1, <1>2 DEF Replicas
<1>4. /\ took.pending[t.nonce] = slot
      /\ \A n \in Nonces : n # t.nonce => took.pending[n] = s.pending[n]
  <2> HIDE DEF slot, took
  <2> QED BY <1>1, <1>2, <1>3 DEF Replicas
<1>5. slot.tx.nonce = t.nonce
  OBVIOUS
<1> HIDE DEF slot, took, held, furthest
<1>6. took \in Sound({})
  <2>1. InPlace(took)
    <3> SUFFICES ASSUME NEW n \in Nonces, Holds(took, n)
                 PROVE  took.pending[n].tx.nonce = n /\ took.next # Absent /\ took.next <= n
      BY DEF InPlace, Parked
    <3>1. n \in Nat /\ s.next # Absent
      BY Inputs DEF Absent
    <3>2. CASE n = t.nonce
      BY <1>2, <1>3, <1>4, <1>5, <3>1, <3>2
    <3>3. CASE n # t.nonce
      BY <1>1, <1>3, <1>4, <3>1, <3>3 DEF InPlace, Parked, Holds
    <3> QED BY <3>2, <3>3
  <2>2. Kept(took, {})
    <3> SUFFICES ASSUME NEW n \in took.owed PROVE Holds(took, n) \/ Published(took, n)
      BY DEF Kept
    <3>1. CASE n = t.nonce
      BY <1>2, <1>4, <3>1 DEF Holds
    <3>2. CASE n # t.nonce
      BY <1>1, <1>3, <1>4, <3>2 DEF Kept, Holds, Published
    <3> QED BY <3>1, <3>2
  <2> QED BY <1>3, <2>1, <2>2 DEF Sound
<1>7. Told(s, t.nonce) \in Sound({})
  <2>1. s \in Sound({} \cup {t.nonce})
    BY SoundGrows
  <2> QED BY <2>1, ToldSound
<1>8. Told(Emptied(took, {furthest}), furthest) \in Sound({})
  BY <1>6, EmptiedSound, ToldSound
<1> QED BY <1>6, <1>7, <1>8, Zenon DEF Park, took, slot, furthest, held

LEMMA FiniteNonces == IsFiniteSet(Nonces) /\ Cardinality(Nonces) \in Nat
<1> DEFINE f == [t \in Txs |-> t.nonce]
<1>1. f \in Surjection(Txs, Nonces)
  BY DEF Surjection, Nonces
<1>2. IsFiniteSet(Nonces)
  <2> HIDE DEF f
  <2> QED BY <1>1, SequencerAssumption, FS_Surjection
<1> QED BY <1>2, FS_CardinalityType

\* A run ends at the first nonce that is not held.
LEMMA RunEnds ==
    ASSUME NEW s, NEW n \in Nat
    PROVE  \E m \in n..(n + Cardinality(Nonces)) :
               ~Holds(s, m) /\ \A k \in n..(m - 1) : Holds(s, k)
<1> DEFINE c == Cardinality(Nonces)
           T == {m \in Nat : m >= n /\ ~Holds(s, m)}
<1>1. c \in Nat
  BY FiniteNonces
<1>2. \E m \in n..(n + c) : ~Holds(s, m)
  <2> SUFFICES ASSUME \A m \in n..(n + c) : Holds(s, m) PROVE FALSE
    OBVIOUS
  <2>1. n..(n + c) \subseteq Nonces
    BY DEF Holds
  <2>2. Cardinality(n..(n + c)) <= c
    BY <2>1, FiniteNonces, FS_Subset
  <2>3. n \in Int /\ n + c \in Int /\ ~(n > n + c)
    BY <1>1
  <2>4. Cardinality(n..(n + c)) = (n + c) - n + 1
    BY <2>3, FS_Interval
  <2> QED BY <1>1, <2>2, <2>4
<1>3. PICK m \in T : \A k \in T : m <= k
  <2>1. T # {} /\ T \subseteq Nat
    BY <1>1, <1>2
  <2> QED BY <2>1, LeastNatural
<1>4. m \in n..(n + c)
  BY <1>1, <1>2, <1>3
<1>5. ASSUME NEW k \in n..(m - 1) PROVE Holds(s, k)
  BY <1>3, <1>5
<1> QED BY <1>3, <1>4, <1>5

LEMMA RunFromIs ==
    ASSUME NEW hand, NEW s \in Sound(hand), NEW n \in Nat
    PROVE  /\ RunFrom(s, n) \in Seq(Txs)
           /\ \A i \in 1..Len(RunFrom(s, n)) : RunFrom(s, n)[i].nonce = n + i - 1
<1> DEFINE end == CHOOSE m \in n..(n + Cardinality(Nonces)) :
                      ~Holds(s, m) /\ \A k \in n..(m - 1) : Holds(s, k)
           run == [i \in 1..(end - n) |-> s.pending[n + i - 1].tx]
<1>1. end \in n..(n + Cardinality(Nonces)) /\ \A k \in n..(end - 1) : Holds(s, k)
  BY RunEnds
<1>2. end \in Nat /\ end >= n
  BY <1>1, FiniteNonces
<1> HIDE DEF end
<1>3. ASSUME NEW i \in 1..(end - n)
      PROVE  s.pending[n + i - 1].tx \in Txs /\ s.pending[n + i - 1].tx.nonce = n + i - 1
  <2>1. PICK k : k = n + i - 1
    OBVIOUS
  <2>2. k \in n..(end - 1)
    BY <1>2, <2>1
  <2>3. Holds(s, k) /\ k \in Nonces
    BY <1>1, <2>2 DEF Holds
  <2>4. s.pending[k] \in Slot
    BY <2>3 DEF Sound, Replicas, Holds
  <2>5. s.pending[k].tx.nonce = k
    BY <2>3 DEF Sound, InPlace, Parked
  <2> QED BY <2>1, <2>4, <2>5 DEF Slot
<1>4. RunFrom(s, n) = run
  BY DEF RunFrom, end
<1>5. end - n \in Nat
  BY <1>2
<1>6. run \in Seq(Txs) /\ Len(run) = end - n
  BY <1>3, <1>5
<1> QED BY <1>3, <1>4, <1>6

LEMMA DrainedSound ==
    ASSUME NEW hand, NEW s \in Sound(hand), NEW n \in Nat, \A m \in Parked(s) : n <= m,
           NEW run \in Seq(Txs), run # <<>>, \A i \in 1..Len(run) : run[i].nonce = n + i - 1
    PROVE  Drained(s, run) \in Sound(hand \cup Rest(run, 0))
<1> DEFINE gone == {run[i].nonce : i \in DOMAIN run}
           e == Emptied(s, gone)
           r == Drained(s, run)
           z == n + Len(run)
<1>1. s \in Replicas /\ InPlace(s) /\ Kept(s, hand)
  BY DEF Sound
<1>2. Len(run) \in Nat \ {0} /\ DOMAIN run = 1..Len(run) /\ z \in Nat
  OBVIOUS
<1>3. Last(run).nonce + 1 = z
  <2>1. Len(run) \in 1..Len(run)
    BY <1>2
  <2> QED BY <1>2, <2>1 DEF Last
<1>4. gone = Rest(run, 0)
  BY <1>2 DEF Rest
<1>5. \A m \in Nat : n <= m /\ m < z => m \in gone
  <2> SUFFICES ASSUME NEW m \in Nat, n <= m, m < z PROVE m \in gone
    OBVIOUS
  <2>1. m - n + 1 \in 1..Len(run) /\ n + (m - n + 1) - 1 = m
    BY <1>2
  <2>2. run[m - n + 1].nonce = m
    BY <2>1
  <2> QED BY <1>2, <2>1, <2>2
<1>6. /\ e \in Replicas /\ e.ledger = s.ledger /\ e.owed = s.owed
      /\ \A m \in Nonces : e.pending[m] = IF m \in gone THEN NoSlot ELSE s.pending[m]
  BY <1>1, EmptiedFields
<1>7. r = [e EXCEPT !.next = z]
  <2> HIDE DEF z
  <2> QED BY <1>3 DEF Drained
<1> HIDE DEF e, r, gone, z
<1>8. /\ r \in Replicas /\ r.next = z /\ r.pending = e.pending /\ r.ledger = s.ledger
      /\ r.owed = s.owed
  BY <1>2, <1>6, <1>7 DEF Replicas, Level
<1>9. InPlace(r)
  <2> SUFFICES ASSUME NEW m \in Nonces, Holds(r, m)
               PROVE  r.pending[m].tx.nonce = m /\ r.next # Absent /\ r.next <= m
    BY DEF InPlace, Parked
  <2>1. m \in Nat /\ z # Absent
    BY <1>2, Inputs DEF Absent
  <2>2. m \notin gone /\ r.pending[m] = s.pending[m]
    BY <1>6, <1>8 DEF Holds
  <2>3. m \in Parked(s)
    BY <2>2 DEF Parked, Holds
  <2>4. n <= m /\ ~(m < z)
    BY <1>5, <2>1, <2>2, <2>3
  <2>5. s.pending[m].tx.nonce = m
    BY <1>1, <2>3 DEF InPlace
  <2> QED BY <1>2, <1>8, <2>1, <2>2, <2>4, <2>5
<1>10. Kept(r, hand \cup gone)
  <2> SUFFICES ASSUME NEW m \in r.owed
               PROVE  Holds(r, m) \/ Published(r, m) \/ m \in hand \cup gone
    BY DEF Kept
  <2>1. Published(s, m) => Published(r, m)
    BY <1>8 DEF Published
  <2>2. m \notin gone /\ Holds(s, m) => Holds(r, m)
    BY <1>6, <1>8 DEF Holds
  <2> QED BY <1>1, <1>8, <2>1, <2>2 DEF Kept
<1>11. r \in Sound(hand \cup gone)
  BY <1>8, <1>9, <1>10 DEF Sound
<1> QED BY <1>4, <1>11 DEF r

\* Flush splits a run in two, and each nonce of the run is in one of the parts.
LEMMA FlushParts ==
    ASSUME NEW run \in Seq(Txs), NEW k \in 0..Len(run)
    PROVE  LET sent == SubSeq(run, 1, k)
               rest == Reverse(SubSeq(run, k + 1, Len(run)))
           IN  /\ sent \in Seq(Txs) /\ rest \in Seq(Txs)
               /\ Rest(run, 0) = Rest(rest, 0) \cup Rest(sent, 0)
<1> DEFINE n == Len(run)
           sent == SubSeq(run, 1, k)
           tail == SubSeq(run, k + 1, n)
           rest == Reverse(tail)
<1>1. n \in Nat /\ k \in Nat /\ k <= n
  OBVIOUS
<1>2. sent \in Seq(Txs) /\ Len(sent) = k /\ \A i \in 1..k : sent[i] = run[i]
  BY <1>1
<1>3. tail \in Seq(Txs) /\ Len(tail) = n - k /\ \A i \in 1..(n - k) : tail[i] = run[k + i]
  BY <1>1
<1>4. /\ rest \in Seq(Txs) /\ Len(rest) = n - k
      /\ \A i \in 1..(n - k) : rest[i] = tail[n - k - i + 1]
  <2> HIDE DEF tail
  <2>1. PICK m \in Nat : m = n - k
    BY <1>1
  <2>2. rest = [i \in 1..m |-> tail[m - i + 1]]
    BY <1>3, <2>1 DEF Reverse
  <2>3. \A i \in 1..m : tail[m - i + 1] \in Txs
    BY <1>3, <2>1
  <2> HIDE DEF rest
  <2>4. rest \in Seq(Txs) /\ Len(rest) = m /\ \A i \in 1..m : rest[i] = tail[m - i + 1]
    BY <2>2, <2>3
  <2> QED BY <2>1, <2>4
<1> HIDE DEF sent, tail, rest
<1>5. Rest(run, 0) \subseteq Rest(rest, 0) \cup Rest(sent, 0)
  <2> SUFFICES ASSUME NEW j \in (0 + 1)..n
               PROVE  run[j].nonce \in Rest(rest, 0) \cup Rest(sent, 0)
    BY DEF Rest
  <2>1. j \in Nat /\ 1 <= j /\ j <= n
    BY <1>1
  <2>2. CASE j <= k
    <3>1. j \in (0 + 1)..Len(sent) /\ sent[j] = run[j]
      BY <1>1, <1>2, <2>1, <2>2
    <3> QED BY <3>1 DEF Rest
  <2>3. CASE j > k
    <3>1. PICK i : i = n - j + 1
      OBVIOUS
    <3>2. /\ i \in 1..(n - k) /\ i \in (0 + 1)..Len(rest)
          /\ n - k - i + 1 = j - k /\ j - k \in 1..(n - k) /\ k + (j - k) = j
      BY <1>1, <1>4, <2>1, <2>3, <3>1
    <3>3. rest[i] = run[j]
      BY <1>3, <1>4, <3>2
    <3> QED BY <3>2, <3>3 DEF Rest
  <2> QED BY <1>1, <2>1, <2>2, <2>3
<1>6. Rest(sent, 0) \subseteq Rest(run, 0)
  <2> SUFFICES ASSUME NEW j \in (0 + 1)..Len(sent) PROVE sent[j].nonce \in Rest(run, 0)
    BY DEF Rest
  <2>1. j \in (0 + 1)..n /\ sent[j] = run[j]
    BY <1>1, <1>2
  <2> QED BY <2>1 DEF Rest
<1>7. Rest(rest, 0) \subseteq Rest(run, 0)
  <2> SUFFICES ASSUME NEW i \in (0 + 1)..Len(rest) PROVE rest[i].nonce \in Rest(run, 0)
    BY DEF Rest
  <2>1. PICK j : j = n - i + 1
    OBVIOUS
  <2>2. /\ i \in 1..(n - k) /\ j \in (0 + 1)..n
        /\ n - k - i + 1 = j - k /\ j - k \in 1..(n - k) /\ k + (j - k) = j
    BY <1>1, <1>4, <2>1
  <2>3. rest[i] = run[j]
    BY <1>3, <1>4, <2>2
  <2> QED BY <2>2, <2>3 DEF Rest
<1>8. /\ sent \in Seq(Txs) /\ rest \in Seq(Txs)
      /\ Rest(run, 0) = Rest(rest, 0) \cup Rest(sent, 0)
  BY <1>2, <1>4, <1>5, <1>6, <1>7
<1> QED BY <1>8, Zenon DEF sent, rest, tail

\* What Flush leaves in the replica: the prefix is in the ledger, the rest waits.
LEMMA SentSound ==
    ASSUME NEW run \in Seq(Txs), NEW s \in Sound(Rest(run, 0)), NEW k \in 0..Len(run)
    PROVE  FoldLeft(Rebuffer, FoldLeft(RecordPublished, s, SubSeq(run, 1, k)),
                    Reverse(SubSeq(run, k + 1, Len(run)))) \in Sound({})
<1> DEFINE sent == SubSeq(run, 1, k)
           rest == Reverse(SubSeq(run, k + 1, Len(run)))
<1>1. sent \in Seq(Txs) /\ rest \in Seq(Txs) /\ Rest(run, 0) = Rest(rest, 0) \cup Rest(sent, 0)
  BY FlushParts, Zenon
<1> HIDE DEF sent, rest
<1>2. s \in Sound(Rest(rest, 0) \cup Rest(sent, 0))
  BY <1>1
<1>3. RecordAll(s, sent) \in Sound(Rest(rest, 0))
  BY <1>1, <1>2, RecordAllSound
<1>4. {} \cup Rest(rest, 0) = Rest(rest, 0)
  OBVIOUS
<1>5. RebufferAll(RecordAll(s, sent), rest) \in Sound({})
  BY <1>1, <1>3, <1>4, RebufferAllSound
<1> QED BY <1>5, Zenon DEF RebufferAll, RecordAll, rest, sent

-----------------------------------------------------------------------------
(* The invariant *)

\* What every variable holds: what the channels carry is well formed.
Wires ==
    /\ ingress \in Seq(Txs) /\ ordered \in Seq(Txs) /\ late \subseteq Txs
    /\ chain \in Nat /\ guard \in Nat
    /\ pos \in 0..Len(ingress)
    /\ receipts \in Seq(Receipts) /\ read \in 0..Len(receipts)
    /\ refusals \in Seq(Refusals) /\ answers \in Seq(Answers)
    /\ offers \in Seq(Txs) /\ Len(offers) <= MaxInFlight

SequencerInv == Wires /\ rep \in Sound({})

LEMMA FlushSound ==
    ASSUME offers \in Seq(Txs), Len(offers) <= MaxInFlight,
           NEW run \in Seq(Txs), NEW s \in Sound(Rest(run, 0)), NEW mishaps,
           Flush(s, run, mishaps)
    PROVE  rep' \in Sound({}) /\ offers' \in Seq(Txs) /\ Len(offers') <= MaxInFlight
<1> DEFINE room == Smaller(Len(run), MaxInFlight - Len(offers))
<1>1. room \in Nat /\ room <= Len(run) /\ room <= MaxInFlight - Len(offers)
  BY SequencerAssumption DEF Smaller
<1>2. PICK k \in 0..room :
         /\ offers' = offers \o SubSeq(run, 1, k)
         /\ rep' = FoldLeft(Rebuffer, FoldLeft(RecordPublished, s, SubSeq(run, 1, k)),
                            Reverse(SubSeq(run, k + 1, Len(run))))
  BY Zenon DEF Flush
<1>3. k \in 0..Len(run)
  BY <1>1, <1>2
<1>4. rep' \in Sound({})
  BY <1>2, <1>3, SentSound, Zenon
<1>5. SubSeq(run, 1, k) \in Seq(Txs) /\ Len(SubSeq(run, 1, k)) = k
  BY <1>3
<1>6. offers' \in Seq(Txs) /\ Len(offers') = Len(offers) + k
  BY <1>2, <1>5
<1> QED BY <1>1, <1>2, <1>4, <1>6, SequencerAssumption, SMTT(30)

\* process, for the nonce at the floor: the envelope and the run that waits behind
\* it leave together.
LEMMA RunAtFloor ==
    ASSUME NEW s \in Sound({}), s.next \in Nat, NEW t \in Txs, t.nonce = s.next,
           NEW took \in Sound({t.nonce}), took.next = s.next, took.pending = s.pending
    PROVE  LET run == <<t>> \o RunFrom(s, t.nonce + 1)
           IN  /\ run \in Seq(Txs) /\ run # <<>>
               /\ \A i \in 1..Len(run) : run[i].nonce = t.nonce + i - 1
               /\ Drained(took, run) \in Sound(Rest(run, 0))
<1> DEFINE n == t.nonce
           run == <<t>> \o RunFrom(s, n + 1)
<1>0. t \in Txs /\ n \in Nonces /\ n \in Nat
  BY Inputs
<1>1. PICK more \in Seq(Txs) : more = RunFrom(s, n + 1)
  BY <1>0, RunFromIs
<1>2. \A i \in 1..Len(more) : more[i].nonce = (n + 1) + i - 1
  BY <1>0, <1>1, RunFromIs
<1>3. /\ run \in Seq(Txs) /\ run # <<>> /\ Len(run) = 1 + Len(more) /\ run[1] = t
      /\ \A i \in 2..Len(run) : run[i] = more[i - 1]
  BY <1>0, <1>1
<1> HIDE DEF run
<1>4. \A i \in 1..Len(run) : run[i].nonce = n + i - 1
  <2> SUFFICES ASSUME NEW i \in 1..Len(run) PROVE run[i].nonce = n + i - 1
    OBVIOUS
  <2>1. CASE i = 1
    BY <1>0, <1>3, <2>1
  <2>2. CASE i # 1
    <3>1. i \in 2..Len(run) /\ i - 1 \in 1..Len(more)
      BY <1>1, <1>3, <2>2
    <3>2. more[i - 1].nonce = (n + 1) + (i - 1) - 1
      BY <1>2, <3>1
    <3>3. run[i] = more[i - 1]
      BY <1>3, <3>1
    <3>4. (n + 1) + (i - 1) - 1 = n + i - 1
      BY <1>0
    <3> QED BY <3>2, <3>3, <3>4
  <2> QED BY <2>1, <2>2
<1>5. \A m \in Parked(took) : n <= m
  BY DEF Sound, InPlace
<1>6. Drained(took, run) \in Sound({n} \cup Rest(run, 0))
  <2>1. took \in Sound({n})
    OBVIOUS
  <2> HIDE DEF n
  <2> QED BY <1>0, <1>3, <1>4, <1>5, <2>1, DrainedSound
<1>7. {n} \cup Rest(run, 0) = Rest(run, 0)
  <2>1. 1 \in (0 + 1)..Len(run) /\ run[1].nonce = n
    BY <1>1, <1>3
  <2>2. n \in Rest(run, 0)
    BY <2>1 DEF Rest
  <2> QED BY <2>2
<1>8. Drained(took, run) \in Sound(Rest(run, 0))
  BY <1>6, <1>7
<1>9. /\ run \in Seq(Txs) /\ run # <<>> /\ \A i \in 1..Len(run) : run[i].nonce = n + i - 1
      /\ Drained(took, run) \in Sound(Rest(run, 0))
  BY <1>3, <1>4, <1>8
<1> QED BY <1>9, Zenon DEF run, n

\* The history variable of a re-offer is no part of what is kept.
LEMMA StaleSound ==
    ASSUME NEW hand, NEW s \in Sound(hand), NEW b \in BOOLEAN, NEW r, r = [s EXCEPT !.stale = b]
    PROVE  r \in Sound(hand)
<1>1. s \in Replicas /\ InPlace(s) /\ Kept(s, hand)
  BY DEF Sound
<1>2. /\ r \in Replicas /\ r.next = s.next /\ r.pending = s.pending /\ r.ledger = s.ledger
      /\ r.owed = s.owed
  BY <1>1 DEF Replicas
<1>3. \A m \in r.owed : Holds(s, m) \/ Published(r, m) \/ m \in hand
  BY <1>1, <1>2 DEF Kept, Published
<1> QED BY <1>1, <1>2, <1>3, LedgerSound

LEMMA IngestSound ==
    ASSUME Wires, pos < Len(ingress), NEW old \in Sound({}), RunFrom(old, NextNonce(old)) = <<>>,
           NEW mishaps, Ingest(old, mishaps)
    PROVE  rep' \in Sound({}) /\ offers' \in Seq(Txs) /\ Len(offers') <= MaxInFlight
<1> DEFINE t == ingress[pos + 1]
           n == t.nonce
           s == [old EXCEPT !.next = NextNonce(old)]
           took == [s EXCEPT !.owed = @ \cup {n}]
           run == <<t>> \o RunFrom(s, n + 1)
           again == [took EXCEPT !.stale = @ \/ n < s.floor]
<1>1. t \in Txs /\ n \in Nonces /\ n \in Nat
  <2>1. t \in Txs
    BY DEF Wires
  <2> QED BY <2>1, Inputs
<1>2. offers \in Seq(Txs) /\ Len(offers) <= MaxInFlight
  BY DEF Wires
<1>3. s \in Sound({}) /\ s.next \in Nat
  BY StartSound
<1> HIDE DEF t, s
<1>4. took \in Sound({n}) /\ took.next = s.next /\ took.pending = s.pending
  <2>1. {} \cup {n} = {n}
    OBVIOUS
  <2> HIDE DEF n
  <2> QED BY <1>1, <1>3, <2>1, AcceptSound
<1> HIDE DEF took
<1>5. CASE Flush(again, <<t>>, mishaps)
  <2>1. again \in Sound({n})
    <3>1. (took.stale \/ n < s.floor) \in BOOLEAN
      OBVIOUS
    <3> HIDE DEF n
    <3> QED BY <1>4, <3>1, StaleSound
  <2>2. <<t>> \in Seq(Txs) /\ Rest(<<t>>, 0) = {n}
    BY <1>1 DEF Rest
  <2> HIDE DEF again, n
  <2> QED BY <1>2, <1>5, <2>1, <2>2, FlushSound
<1>6. CASE rep' = s /\ UNCHANGED offers
  BY <1>2, <1>3, <1>6
<1>7. CASE n > s.next /\ rep' = Park(s, t) /\ UNCHANGED offers
  BY <1>1, <1>2, <1>3, <1>7, ParkSound
<1>8. CASE n = s.next /\ Flush(Drained(took, run), run, mishaps)
  <2>1. /\ run \in Seq(Txs) /\ Drained(took, run) \in Sound(Rest(run, 0))
    BY <1>1, <1>3, <1>4, <1>8, RunAtFloor, Zenon
  <2> HIDE DEF run
  <2> QED BY <1>2, <1>8, <2>1, FlushSound
<1> QED BY <1>5, <1>6, <1>7, <1>8, Zenon DEF Ingest, again, run, took, s, n, t

LEMMA FlushOrPollSound ==
    ASSUME Wires, NEW s \in Sound({}), NEW mishaps, FlushOrPoll(s, mishaps)
    PROVE  /\ rep' \in Sound({}) /\ offers' \in Seq(Txs) /\ Len(offers') <= MaxInFlight
           /\ pos' \in 0..Len(ingress)
<1> DEFINE run == RunFrom(s, NextNonce(s))
<1>1. /\ offers \in Seq(Txs) /\ Len(offers) <= MaxInFlight /\ pos \in 0..Len(ingress)
      /\ Len(ingress) \in Nat
  BY DEF Wires
<1>2. s.next \in Level /\ InPlace(s)
  BY DEF Sound, Replicas
<1>3. NextNonce(s) \in Nat /\ \A m \in Parked(s) : NextNonce(s) <= m
  BY <1>2, Inputs DEF NextNonce, Larger, Level, InPlace, Parked, Absent
<1>4. run \in Seq(Txs) /\ \A i \in 1..Len(run) : run[i].nonce = NextNonce(s) + i - 1
  BY <1>3, RunFromIs
<1>5. CASE run # <<>> /\ Flush(Drained(s, run), run, mishaps) /\ UNCHANGED pos
  <2> HIDE DEF run
  <2>1. Drained(s, run) \in Sound({} \cup Rest(run, 0))
    BY <1>3, <1>4, <1>5, DrainedSound
  <2>2. Drained(s, run) \in Sound(Rest(run, 0))
    <3>1. {} \cup Rest(run, 0) = Rest(run, 0)
      OBVIOUS
    <3> QED BY <2>1, <3>1
  <2> QED BY <1>1, <1>4, <1>5, <2>2, FlushSound
<1>6. CASE run = <<>> /\ pos < Len(ingress) /\ Ingest(s, mishaps) /\ pos' = pos + 1
  <2>1. pos' \in 0..Len(ingress)
    BY <1>1, <1>6
  <2> QED BY <1>6, <2>1, IngestSound
<1>7. CASE rep' = s /\ UNCHANGED <<pos, offers>>
  BY <1>1, <1>7
<1> QED BY <1>5, <1>6, <1>7 DEF FlushOrPoll

LEMMA EvidenceType ==
    ASSUME Wires, NEW other \in OtherEvidence
    PROVE  other.drain \in Seq(Receipts)
<1>1. receipts \in Seq(Receipts) /\ read \in 0..Len(receipts) /\ chain \in Nat
  BY DEF Wires
<1>2. CASE other = [of |-> "none", drain |-> <<>>]
  BY <1>2
<1>3. ASSUME NEW c \in 1..chain,
             other = [of |-> "lookup", drain |-> <<[nonce |-> c - 1, kind |-> "executed"]>>]
      PROVE  other.drain \in Seq(Receipts)
  <2>1. [nonce |-> c - 1, kind |-> "executed"] \in Receipts
    BY <1>1, <1>3 DEF Receipts
  <2>2. <<[nonce |-> c - 1, kind |-> "executed"]>> \in Seq(Receipts)
    BY <2>1
  <2> QED BY <1>3, <2>2
<1>4. ASSUME NEW i \in 1..read, other = [of |-> "old", drain |-> <<receipts[i]>>]
      PROVE  other.drain \in Seq(Receipts)
  <2>1. receipts[i] \in Receipts
    BY <1>1, <1>4
  <2>2. <<receipts[i]>> \in Seq(Receipts)
    BY <2>1
  <2> QED BY <1>4, <2>2
<1> QED BY <1>2, <1>3, <1>4 DEF OtherEvidence

LEMMA Suffix ==
    ASSUME NEW X, NEW q \in Seq(X), NEW k \in 0..Len(q)
    PROVE  SubSeq(q, k + 1, Len(q)) \in Seq(X) /\ SubSeq(q, 1, k) \in Seq(X)
OBVIOUS

\* What one pass reads and does, as the composition of its parts.
LEMMA PassParts ==
    ASSUME RunOnce
    PROVE  \E c \in read..Len(receipts), f \in 0..Len(refusals), a \in 0..Len(answers),
              other \in OtherEvidence :
              /\ read' = c
              /\ refusals' = SubSeq(refusals, f + 1, Len(refusals))
              /\ answers' = SubSeq(answers, a + 1, Len(answers))
              /\ LET proven == ApplyReceiptDrain(rep, other.drain \o SubSeq(receipts, read + 1, c))
                     told == RefuseAll(proven, SubSeq(refusals, 1, f))
                     healed == ApplySealerAnswers(told, SubSeq(answers, 1, a))
                 IN  \E k, gone, mishaps :
                        FlushOrPoll(SweepExpired(SweepConfirmTimeouts(healed, k), gone), mishaps)
<1>1. PICK c \in read..Len(receipts), f \in 0..Len(refusals), a \in 0..Len(answers),
           other \in OtherEvidence :
        LET lag == IF other.of = "old" THEN {"old"} ELSE {}
            rush == IF offers # <<>> \/ f < Len(refusals) \/ a < Len(answers)
                    THEN {"early"} ELSE {}
            proven == ApplyReceiptDrain(rep, other.drain \o SubSeq(receipts, read + 1, c))
            told == FoldLeft(ApplyRefusal, proven, SubSeq(refusals, 1, f))
            healed == ApplySealerAnswers(told, SubSeq(answers, 1, a))
        IN  /\ Possible(lag)
            /\ read' = c
            /\ refusals' = SubSeq(refusals, f + 1, Len(refusals))
            /\ answers' = SubSeq(answers, a + 1, Len(answers))
            /\ \E k \in 0..Len(healed.ledger) :
                  LET swept == SweepConfirmTimeouts(healed, k)
                      mishaps == lag \cup IF k > 0 THEN rush ELSE {}
                  IN  /\ Possible(mishaps)
                      /\ \E gone \in SUBSET Expirable(swept) :
                            FlushOrPoll(SweepExpired(swept, gone), mishaps)
  BY Zenon DEF RunOnce
<1> QED BY <1>1, Zenon DEF RefuseAll

LEMMA RunOnceSound ==
    ASSUME SequencerInv, RunOnce
    PROVE  SequencerInv'
<1>1. PICK c \in read..Len(receipts), f \in 0..Len(refusals), a \in 0..Len(answers),
           other \in OtherEvidence :
        /\ read' = c
        /\ refusals' = SubSeq(refusals, f + 1, Len(refusals))
        /\ answers' = SubSeq(answers, a + 1, Len(answers))
        /\ LET proven == ApplyReceiptDrain(rep, other.drain \o SubSeq(receipts, read + 1, c))
               told == RefuseAll(proven, SubSeq(refusals, 1, f))
               healed == ApplySealerAnswers(told, SubSeq(answers, 1, a))
           IN  \E k, gone, mishaps :
                  FlushOrPoll(SweepExpired(SweepConfirmTimeouts(healed, k), gone), mishaps)
  BY PassParts, Zenon
<1> DEFINE proven == ApplyReceiptDrain(rep, other.drain \o SubSeq(receipts, read + 1, c))
           told == RefuseAll(proven, SubSeq(refusals, 1, f))
           healed == ApplySealerAnswers(told, SubSeq(answers, 1, a))
<1>2. /\ read' = c
      /\ refusals' = SubSeq(refusals, f + 1, Len(refusals))
      /\ answers' = SubSeq(answers, a + 1, Len(answers))
  BY <1>1, Zenon
<1>3. \E k, gone, mishaps : FlushOrPoll(SweepExpired(SweepConfirmTimeouts(healed, k), gone), mishaps)
  BY <1>1, Zenon
<1>4. Wires /\ rep \in Sound({})
  BY DEF SequencerInv
<1>5. /\ receipts \in Seq(Receipts) /\ read \in Nat /\ read <= Len(receipts)
      /\ refusals \in Seq(Refusals) /\ answers \in Seq(Answers)
  BY <1>4 DEF Wires
<1>6. proven \in Sound({})
  <2>1. SubSeq(receipts, read + 1, c) \in Seq(Receipts)
    BY <1>5
  <2>2. other.drain \in Seq(Receipts)
    BY <1>4, EvidenceType
  <2>3. other.drain \o SubSeq(receipts, read + 1, c) \in Seq(Receipts)
    BY <2>1, <2>2
  <2> QED BY <1>4, <2>3, ReceiptsSound
<1> HIDE DEF proven
<1>7. told \in Sound({})
  BY <1>5, <1>6, Suffix, RefuseAllSound
<1> HIDE DEF told
<1>8. healed \in Sound({})
  BY <1>5, <1>7, Suffix, AnswersSound
<1> HIDE DEF healed
<1>9. PICK k, gone, mishaps :
         FlushOrPoll(SweepExpired(SweepConfirmTimeouts(healed, k), gone), mishaps)
  BY <1>3
<1>10. SweepExpired(SweepConfirmTimeouts(healed, k), gone) \in Sound({})
  BY <1>8, RewindSound, ExpirySound DEF SweepConfirmTimeouts
<1>11. /\ rep' \in Sound({}) /\ offers' \in Seq(Txs) /\ Len(offers') <= MaxInFlight
       /\ pos' \in 0..Len(ingress)
  BY <1>4, <1>9, <1>10, FlushOrPollSound
<1>12. refusals' \in Seq(Refusals) /\ answers' \in Seq(Answers)
  BY <1>2, <1>5, Suffix
<1>13. read' \in 0..Len(receipts)
  BY <1>1, <1>2, <1>5
<1>14. UNCHANGED <<ingress, guard, ordered, late, receipts, chain>>
  BY DEF RunOnce, sealerVars, executorVars
<1> QED BY <1>4, <1>11, <1>12, <1>13, <1>14 DEF SequencerInv, Wires

\* A process that starts again holds nothing and owes nothing.
LEMMA FreshSound == FreshReplica \in Sound({})
<1> DEFINE r == FreshReplica
<1>1. <<>> \in Seq(Txs)
  OBVIOUS
<1>2. /\ r \in Replicas /\ r.pending = [n \in Nonces |-> NoSlot] /\ r.owed = {}
  BY <1>1 DEF FreshReplica, Replicas, Level
<1>3. Parked(r) = {}
  BY <1>2 DEF Parked, Holds
<1> QED BY <1>2, <1>3 DEF Sound, InPlace, Kept

LEMMA InitSound ==
    ASSUME Init
    PROVE  SequencerInv
<1>1. /\ <<>> \in Seq(Txs) /\ <<>> \in Seq(Receipts)
      /\ <<>> \in Seq(Refusals) /\ <<>> \in Seq(Answers)
  OBVIOUS
<1>2. Wires
  BY <1>1, SequencerAssumption DEF Init, Wires
<1> QED BY <1>2, FreshSound DEF Init, SequencerInv

LEMMA RestartSound ==
    ASSUME SequencerInv, Restart
    PROVE  SequencerInv'
<1>1. /\ <<>> \in Seq(Txs) /\ <<>> \in Seq(Refusals) /\ <<>> \in Seq(Answers)
  OBVIOUS
<1>2. Wires'
  BY <1>1, SequencerAssumption DEF SequencerInv, Wires, Restart, sealerVars, executorVars
<1>3. rep' \in Sound({})
  BY FreshSound DEF Restart
<1> QED BY <1>2, <1>3 DEF SequencerInv

LEMMA LossSound ==
    ASSUME SequencerInv, LoseOffers \/ LoseAnswer \/ LoseReceipt
    PROVE  SequencerInv'
<1>1. <<>> \in Seq(Txs)
  OBVIOUS
<1>2. CASE LoseOffers
  BY <1>1, <1>2, SequencerAssumption
  DEF SequencerInv, Wires, LoseOffers, sealerVars, executorVars
<1>3. CASE LoseAnswer
  <2>1. refusals \in Seq(Refusals) /\ answers \in Seq(Answers)
    BY DEF SequencerInv, Wires
  <2>2. /\ refusals # <<>> => Tail(refusals) \in Seq(Refusals)
        /\ answers # <<>> => Tail(answers) \in Seq(Answers)
    BY <2>1
  <2>3. refusals' \in Seq(Refusals) /\ answers' \in Seq(Answers)
    BY <1>3, <2>1, <2>2, Zenon DEF LoseAnswer
  <2> QED BY <1>3, <2>3 DEF SequencerInv, Wires, LoseAnswer, sealerVars, executorVars
<1>4. CASE LoseReceipt
  BY <1>4 DEF SequencerInv, Wires, LoseReceipt, channelVars, sealerVars, executorVars
<1> QED BY <1>2, <1>3, <1>4

LEMMA OrderType ==
    ASSUME Wires, NEW t \in Txs, Order(t)
    PROVE  guard' \in Nat /\ ordered' \in Seq(Txs)
<1>1. t.nonce \in Nat
  BY Inputs
<1> QED BY <1>1 DEF Wires, Order

\* The sealer puts one well-formed message on a channel, or orders the reference.
LEMMA SealerTakesSound ==
    ASSUME SequencerInv, SealerTakes
    PROVE  SequencerInv'
<1> DEFINE t == Head(offers)
           f == [nonce |-> t.nonce, tx |-> t]
           g == [nonce |-> t.nonce, tx |-> NoTx]
           u == [kind |-> "full", nonce |-> t.nonce, expected |-> Absent]
           a == [kind |-> "reject", nonce |-> t.nonce, expected |-> guard]
<1>1. Wires /\ rep \in Sound({})
  BY DEF SequencerInv
<1>2. /\ offers' = Tail(offers) /\ offers # <<>>
      /\ UNCHANGED <<ingress, pos, rep, late, receipts, chain, read>>
  BY DEF SealerTakes, executorVars
<1>3. t \in Txs /\ offers' \in Seq(Txs) /\ Len(offers') <= MaxInFlight
  BY <1>1, <1>2, SequencerAssumption DEF Wires
<1>4. t.nonce \in Nonces /\ guard \in Nat
  BY <1>1, <1>3, Inputs DEF Wires
<1>5. f \in Refusals /\ g \in Refusals /\ u \in Answers /\ a \in Answers
  BY <1>3, <1>4 DEF Refusals, Answers, Level
<1>6. \/ UNCHANGED <<answers, refusals, guard, ordered>>
      \/ /\ refusals' \in {Append(refusals, f), Append(refusals, g)}
         /\ UNCHANGED <<answers, guard, ordered>>
      \/ /\ answers' \in {Append(answers, u), Append(answers, a)}
         /\ UNCHANGED <<refusals, guard, ordered>>
      \/ Order(t) /\ UNCHANGED <<answers, refusals>>
  BY DEF SealerTakes
<1> HIDE DEF t, f, g, u, a
<1>7. refusals' \in Seq(Refusals) /\ answers' \in Seq(Answers)
  <2>1. refusals \in Seq(Refusals) /\ answers \in Seq(Answers)
    BY <1>1 DEF Wires
  <2>2. Append(refusals, f) \in Seq(Refusals) /\ Append(refusals, g) \in Seq(Refusals)
    BY <1>5, <2>1
  <2>3. Append(answers, u) \in Seq(Answers) /\ Append(answers, a) \in Seq(Answers)
    BY <1>5, <2>1
  <2> QED BY <1>6, <2>1, <2>2, <2>3
<1>8. guard' \in Nat /\ ordered' \in Seq(Txs)
  BY <1>1, <1>3, <1>6, OrderType DEF Wires
<1> QED BY <1>1, <1>2, <1>3, <1>7, <1>8 DEF SequencerInv, Wires

LEMMA OutsideSound ==
    ASSUME SequencerInv, TwinOrders \/ PassDeadline \/ Execute \/ Submit
    PROVE  SequencerInv'
<1>1. Wires /\ rep \in Sound({})
  BY DEF SequencerInv
<1>2. ToSet(ingress) \subseteq Txs
  BY <1>1 DEF Wires, ToSet
<1>3. CASE TwinOrders
  <2>1. guard' \in Nat /\ ordered' \in Seq(Txs)
    BY <1>1, <1>2, <1>3, OrderType DEF TwinOrders
  <2> QED BY <1>1, <1>3, <2>1
          DEF SequencerInv, Wires, TwinOrders, channelVars, executorVars
<1>4. CASE PassDeadline
  BY <1>1, <1>2, <1>4 DEF SequencerInv, Wires, PassDeadline, channelVars, executorVars
<1>5. CASE Execute
  <2> DEFINE n == ordered[Len(receipts) + 1].nonce
  <2>1. ordered[Len(receipts) + 1] \in Txs
    BY <1>1, <1>5 DEF Wires, Execute
  <2>2. n \in Nat
    BY <2>1, Inputs
  <2>3. /\ \E kind \in {"executed", "skipped", "high"} :
              receipts' = Append(receipts, [nonce |-> n, kind |-> kind])
        /\ chain' \in {chain, chain + 1}
        /\ UNCHANGED <<ingress, pos, rep, offers, answers, refusals, guard, ordered, late, read>>
    BY <1>5 DEF Execute, channelVars, sealerVars
  <2> HIDE DEF n
  <2>4. PICK c \in Receipts : receipts' = Append(receipts, c)
    BY <2>2, <2>3 DEF Receipts
  <2>5. receipts' \in Seq(Receipts) /\ read' \in 0..Len(receipts')
    BY <1>1, <2>3, <2>4 DEF Wires
  <2>6. chain' \in Nat
    BY <1>1, <2>3 DEF Wires
  <2> QED BY <1>1, <2>3, <2>5, <2>6 DEF SequencerInv, Wires
<1>6. CASE Submit
  <2>1. PICK t \in Txs : ingress' = Append(ingress, t)
    BY <1>6 DEF Submit
  <2>2. ingress' \in Seq(Txs) /\ pos \in 0..Len(ingress')
    BY <1>1, <2>1 DEF Wires
  <2> QED BY <1>1, <1>6, <2>2
          DEF SequencerInv, Wires, Submit, channelVars, sealerVars, executorVars
<1> QED BY <1>3, <1>4, <1>5, <1>6

LEMMA StepSound ==
    ASSUME SequencerInv, [Next]_vars
    PROVE  SequencerInv'
<1>1. CASE UNCHANGED vars
  BY <1>1 DEF SequencerInv, Wires, vars, channelVars, sealerVars, executorVars
<1> QED BY <1>1, RunOnceSound, RestartSound, LossSound, SealerTakesSound, OutsideSound DEF Next

LEMMA InvariantHolds == Spec => []SequencerInv
BY InitSound, StepSound, PTL DEF Spec

-----------------------------------------------------------------------------
(* The floor, the chain and the receipts *)

\* The nonces of the unconfirmed ledger.
Out(r) == {r.ledger[i].nonce : i \in DOMAIN r.ledger}

\* The replicas whose floor fits the chain, which expects nonce c, and the receipt
\* floor fl: a nonce from c up to the floor of the sender is marked, published or
\* in hand, and unless the replica offered an executed nonce again, nothing lies
\* below what the receipts prove.  A replica that knows no floor has published
\* nothing, and low is 0 for a replica that must know its floor.
Fit(hand, c, fl, low) ==
    {r \in Replicas :
        /\ r.floor = fl /\ low <= r.next
        /\ r.next = Absent => hand = {} /\ Out(r) = {}
        /\ \A m \in Nat : c <= m /\ m < r.next => m \in r.refused \cup Out(r) \cup hand
        /\ r.stale = FALSE => fl <= NextNonce(r) /\ \A m \in Out(r) \cup hand : fl <= m}

LEMMA OutNonces ==
    ASSUME NEW s \in Replicas
    PROVE  Out(s) \subseteq Nonces /\ Out(s) \subseteq Nat
           /\ \A m : Published(s, m) <=> m \in Out(s)
<1>1. \A i \in DOMAIN s.ledger : s.ledger[i] \in Txs
  BY DEF Replicas
<1> QED BY <1>1, Inputs DEF Out, Published

\* A step that does not raise the floor, and gives up a nonce below it only for a
\* mark, a place in the ledger or in the hand.
LEMMA FitMoves ==
    ASSUME NEW c \in Nat, NEW fl, NEW low \in {Absent, 0}, NEW held, NEW hand,
           NEW s \in Fit(held, c, fl, low), NEW r \in Replicas,
           r.floor = s.floor, r.stale = s.stale,
           r.next <= s.next, r.next = Absent => s.next = Absent,
           s.stale = FALSE => fl <= NextNonce(r),
           Out(r) \cup hand \subseteq Out(s) \cup held,
           \A m \in Nat : m < r.next /\ m \in s.refused \cup Out(s) \cup held
                             => m \in r.refused \cup Out(r) \cup hand
    PROVE  r \in Fit(hand, c, fl, low)
<1>1. s \in Replicas /\ s.next \in Level /\ r.next \in Level
  BY DEF Fit, Replicas
<1>2. low <= r.next
  BY <1>1 DEF Fit, Level, Absent
<1>3. r.next = Absent => hand = {} /\ Out(r) = {}
  BY DEF Fit
<1>4. ASSUME NEW m \in Nat, c <= m, m < r.next PROVE m \in r.refused \cup Out(r) \cup hand
  <2>1. m < s.next
    BY <1>1, <1>4 DEF Level, Absent
  <2>2. m \in s.refused \cup Out(s) \cup held
    BY <1>4, <2>1 DEF Fit
  <2> QED BY <1>4, <2>2
<1>5. s.stale = FALSE => \A m \in Out(s) \cup held : fl <= m
  BY DEF Fit
<1>6. r.floor = fl
  BY DEF Fit
<1> QED BY <1>2, <1>3, <1>4, <1>5, <1>6 DEF Fit

\* A step that leaves the floor, the marks and the ledger alone.
LEMMA FitStays ==
    ASSUME NEW c \in Nat, NEW fl, NEW low \in {Absent, 0}, NEW hand,
           NEW s \in Fit(hand, c, fl, low), NEW r \in Replicas,
           r.floor = s.floor, r.stale = s.stale, r.next = s.next, r.refused = s.refused,
           r.ledger = s.ledger
    PROVE  r \in Fit(hand, c, fl, low)
<1>1. Out(r) = Out(s) /\ NextNonce(r) = NextNonce(s)
  BY DEF Out, NextNonce
<1> QED BY <1>1 DEF Fit

LEMMA ReinsertFit ==
    ASSUME NEW c \in Nat, NEW fl, NEW low \in {Absent, 0}, NEW hand, NEW t \in Txs,
           NEW s \in Fit(hand \cup {t.nonce}, c, fl, low)
    PROVE  ReinsertForRetry(s, t) \in Fit(hand, c, fl, low)
<1> DEFINE r == ReinsertForRetry(s, t)
           held == hand \cup {t.nonce}
<1>1. s \in Replicas /\ s.next \in Level /\ s.next # Absent /\ s.floor = fl /\ fl \in Level
  BY DEF Fit, Replicas
<1>2. t.nonce \in Nonces /\ t.nonce \in Nat /\ [tx |-> t, ttl |-> FALSE] \in Slot
  BY Inputs
<1>3. PICK n \in Nat : n = Smaller(s.next, t.nonce) /\ n <= s.next /\ n <= t.nonce
                       /\ n \in {s.next, t.nonce}
  BY <1>1, <1>2 DEF Smaller, Level
<1>4. /\ r \in Replicas /\ r.next = n /\ r.ledger = s.ledger /\ r.floor = s.floor
      /\ r.refused = s.refused /\ r.stale = s.stale
  BY <1>1, <1>2, <1>3 DEF ReinsertForRetry, RewindFloor, Replicas, Level
<1> HIDE DEF r
<1>5. Out(r) = Out(s)
  BY <1>4 DEF Out
<1>6. s.stale = FALSE => fl <= NextNonce(r)
  <2>1. s.stale = FALSE => fl <= NextNonce(s) /\ fl <= t.nonce
    BY DEF Fit
  <2> QED BY <1>1, <1>3, <1>4, <2>1 DEF NextNonce, Larger, Level, Absent
<1>7. Out(r) \cup hand \subseteq Out(s) \cup held
  BY <1>5
<1>8. \A m \in Nat : m < r.next /\ m \in s.refused \cup Out(s) \cup held
                        => m \in r.refused \cup Out(r) \cup hand
  BY <1>2, <1>3, <1>4, <1>5
<1>9. r.next <= s.next /\ r.next # Absent
  BY <1>3, <1>4 DEF Absent
<1>10. s \in Fit(held, c, fl, low)
  OBVIOUS
<1> HIDE DEF held
<1>11. r \in Fit(hand, c, fl, low)
  BY <1>4, <1>6, <1>7, <1>8, <1>9, <1>10, FitMoves
<1> QED BY <1>11 DEF r

LEMMA ToldFit ==
    ASSUME NEW c \in Nat, NEW fl, NEW low \in {Absent, 0}, NEW hand,
           NEW s \in Fit(hand, c, fl, low), NEW n
    PROVE  Told(s, n) \in Fit(hand, c, fl, low)
<1> DEFINE r == Told(s, n)
<1>1. s \in Replicas
  BY DEF Fit
<1>2. /\ r \in Replicas /\ r.floor = s.floor /\ r.stale = s.stale /\ r.next = s.next
      /\ r.refused = s.refused /\ r.ledger = s.ledger
  BY <1>1 DEF Told, Replicas
<1> HIDE DEF r
<1>3. r \in Fit(hand, c, fl, low)
  BY <1>2, FitStays
<1> QED BY <1>3 DEF r

LEMMA RebufferFit ==
    ASSUME NEW c \in Nat, NEW fl, NEW low \in {Absent, 0}, NEW hand, NEW t \in Txs,
           NEW s \in Fit(hand \cup {t.nonce}, c, fl, low)
    PROVE  Rebuffer(s, t) \in Fit(hand, c, fl, low)
<1>1. CASE t.nonce \in s.refused
  <2>1. s \in Replicas
    BY DEF Fit
  <2>2. s \in Fit(hand, c, fl, low)
    <3>1. PICK held : held = hand \cup {t.nonce}
      OBVIOUS
    <3>2. s \in Fit(held, c, fl, low) /\ s.next # Absent
      BY <3>1 DEF Fit
    <3>3. s.stale = FALSE => fl <= NextNonce(s)
      BY DEF Fit
    <3>4. s.next <= s.next
      BY <2>1 DEF Replicas, Level, Absent
    <3>5. /\ Out(s) \cup hand \subseteq Out(s) \cup held
          /\ \A m \in Nat : m < s.next /\ m \in s.refused \cup Out(s) \cup held
                               => m \in s.refused \cup Out(s) \cup hand
      BY <1>1, <3>1
    <3> QED BY <2>1, <3>2, <3>3, <3>4, <3>5, FitMoves
  <2>3. Told(s, t.nonce) \in Fit(hand, c, fl, low)
    BY <2>2, ToldFit
  <2> QED BY <1>1, <2>3 DEF Rebuffer
<1>2. CASE t.nonce \notin s.refused
  BY <1>2, ReinsertFit DEF Rebuffer
<1> QED BY <1>1, <1>2

LEMMA RecordFit ==
    ASSUME NEW c \in Nat, NEW fl, NEW low \in {Absent, 0}, NEW hand, NEW t \in Txs,
           NEW s \in Fit(hand \cup {t.nonce}, c, fl, low)
    PROVE  RecordPublished(s, t) \in Fit(hand, c, fl, low)
<1> DEFINE r == RecordPublished(s, t)
           others == {u \in Txs : u.nonce # t.nonce}
           rest == Only(s.ledger, others)
           held == hand \cup {t.nonce}
<1>1. s \in Replicas /\ s.ledger \in Seq(Txs) /\ s.next \in Level /\ s.next # Absent
  BY DEF Fit, Replicas
<1>2. /\ rest \in Seq(Txs)
      /\ \A i \in DOMAIN rest : \E j \in DOMAIN s.ledger : s.ledger[j] = rest[i]
      /\ \A j \in DOMAIN s.ledger : s.ledger[j] \in others =>
            \E i \in DOMAIN rest : rest[i] = s.ledger[j]
  <2> HIDE DEF others
  <2> QED BY <1>1, Trimmed
<1> HIDE DEF others, rest
<1>3. /\ r \in Replicas /\ r.next = s.next /\ r.floor = s.floor /\ r.stale = s.stale
      /\ r.refused = s.refused \ {t.nonce} /\ r.ledger = Append(rest, t)
  <2>0. Append(rest, t) \in Seq(Txs)
    BY <1>2
  <2>1. PICK led \in Seq(Txs) : led = Append(rest, t)
    BY <2>0
  <2>2. r = [s EXCEPT !.ledger = led, !.refused = @ \ {t.nonce}]
    BY <2>1 DEF RecordPublished, others, rest
  <2> HIDE DEF r
  <2> QED BY <1>1, <2>1, <2>2 DEF Replicas
<1> HIDE DEF r
<1>4. /\ Append(rest, t)[Len(rest) + 1] = t
      /\ DOMAIN Append(rest, t) = DOMAIN rest \cup {Len(rest) + 1}
      /\ \A i \in DOMAIN rest : Append(rest, t)[i] = rest[i]
  BY <1>2
<1>5. Out(r) = {rest[i].nonce : i \in DOMAIN rest} \cup {t.nonce}
  <2>1. PICK led : led = Append(rest, t)
    OBVIOUS
  <2> QED BY <1>3, <1>4, <2>1 DEF Out
<1>6. Out(r) \subseteq Out(s) \cup {t.nonce}
  <2>1. ASSUME NEW i \in DOMAIN rest PROVE rest[i].nonce \in Out(s)
    BY <1>2, <2>1 DEF Out
  <2> QED BY <1>5, <2>1
<1>7. Out(s) \cup {t.nonce} \subseteq Out(r)
  <2>1. ASSUME NEW j \in DOMAIN s.ledger, s.ledger[j].nonce # t.nonce
        PROVE  s.ledger[j].nonce \in Out(r)
    <3>1. s.ledger[j] \in others
      BY <1>1, <2>1 DEF others
    <3>2. PICK i \in DOMAIN rest : rest[i] = s.ledger[j]
      BY <1>2, <3>1
    <3> QED BY <1>5, <3>2
  <2> QED BY <1>5, <2>1 DEF Out
<1>8. Out(r) \cup hand \subseteq Out(s) \cup held
  BY <1>6
<1>9. \A m \in Nat : m < r.next /\ m \in s.refused \cup Out(s) \cup held
                        => m \in r.refused \cup Out(r) \cup hand
  BY <1>3, <1>7
<1>10. s.stale = FALSE => fl <= NextNonce(r)
  BY <1>3 DEF Fit, NextNonce
<1>11. s \in Fit(held, c, fl, low) /\ r.next <= s.next
  BY <1>1, <1>3 DEF Level, Absent
<1> HIDE DEF held
<1>12. r \in Fit(hand, c, fl, low)
  BY <1>3, <1>8, <1>9, <1>10, <1>11, FitMoves, ZenonT(40)
<1> QED BY <1>12 DEF r

LEMMA UnrecordFit ==
    ASSUME NEW c \in Nat, NEW fl, NEW low \in {Absent, 0}, NEW s \in Fit({}, c, fl, low),
           NEW taken, NEW more, more \subseteq Out(s),
           \A j \in DOMAIN s.ledger : s.ledger[j] \in taken => s.ledger[j].nonce \in more
    PROVE  Unrecord(s, taken) \in Fit(more, c, fl, low)
<1> DEFINE r == Unrecord(s, taken)
           others == Txs \ taken
           rest == Only(s.ledger, others)
<1>1. s \in Replicas /\ s.ledger \in Seq(Txs) /\ s.next \in Level
  BY DEF Fit, Replicas
<1>2. /\ rest \in Seq(Txs)
      /\ \A i \in DOMAIN rest : \E j \in DOMAIN s.ledger : s.ledger[j] = rest[i]
      /\ \A j \in DOMAIN s.ledger : s.ledger[j] \in others =>
            \E i \in DOMAIN rest : rest[i] = s.ledger[j]
  <2> HIDE DEF others
  <2> QED BY <1>1, Trimmed
<1> HIDE DEF others, rest
<1>3. /\ r \in Replicas /\ r.next = s.next /\ r.floor = s.floor /\ r.stale = s.stale
      /\ r.refused = s.refused /\ r.ledger = rest
  BY <1>1, <1>2 DEF Unrecord, Replicas, others, rest
<1> HIDE DEF r
<1>4. Out(r) \subseteq Out(s)
  BY <1>2, <1>3 DEF Out
<1>5. Out(s) \subseteq Out(r) \cup more
  <2>1. ASSUME NEW j \in DOMAIN s.ledger, s.ledger[j] \notin taken
        PROVE  s.ledger[j].nonce \in Out(r)
    <3>1. s.ledger[j] \in others
      BY <1>1, <2>1 DEF others
    <3> QED BY <1>2, <1>3, <3>1 DEF Out
  <2> QED BY <2>1 DEF Out
<1>6. s.stale = FALSE => fl <= NextNonce(r)
  BY <1>3 DEF Fit, NextNonce
<1>7. r.next <= s.next
  BY <1>1, <1>3 DEF Level, Absent
<1>8. /\ Out(r) \cup more \subseteq Out(s) \cup {}
      /\ \A m \in Nat : m < r.next /\ m \in s.refused \cup Out(s) \cup {}
                           => m \in r.refused \cup Out(r) \cup more
  BY <1>3, <1>4, <1>5
<1>9. r \in Fit(more, c, fl, low)
  BY <1>3, <1>6, <1>7, <1>8, FitMoves
<1> QED BY <1>9 DEF r

LEMMA MarkFit ==
    ASSUME NEW c \in Nat, NEW fl, NEW low \in {Absent, 0}, NEW n \in Nonces,
           NEW more, more \subseteq {n}, NEW s \in Fit(more, c, fl, low)
    PROVE  MarkRefused(s, n) \in Fit({}, c, fl, low)
<1> DEFINE r == MarkRefused(s, n)
<1>1. s \in Replicas /\ s.next \in Level /\ n \in Nat
  BY Inputs DEF Fit, Replicas
<1>2. /\ r \in Replicas /\ r.next = s.next /\ r.floor = s.floor /\ r.stale = s.stale
      /\ r.ledger = s.ledger
      /\ r.refused = IF n < NextNonce(s) THEN s.refused \cup {n} ELSE s.refused
  BY <1>1 DEF MarkRefused, Replicas
<1> HIDE DEF r
<1>3. Out(r) = Out(s)
  BY <1>2 DEF Out
<1>4. \A m \in Nat : m < r.next /\ m \in s.refused \cup Out(s) \cup more
                        => m \in r.refused \cup Out(r) \cup {}
  BY <1>1, <1>2, <1>3 DEF NextNonce, Larger, Level, Absent
<1>5. s.stale = FALSE => fl <= NextNonce(r)
  BY <1>2 DEF Fit, NextNonce
<1>6. r.next <= s.next /\ Out(r) \cup {} \subseteq Out(s) \cup more
  BY <1>1, <1>2, <1>3 DEF Level, Absent
<1>7. PICK none : none = {}
  OBVIOUS
<1>8. /\ Out(r) \cup none \subseteq Out(s) \cup more
      /\ \A m \in Nat : m < r.next /\ m \in s.refused \cup Out(s) \cup more
                           => m \in r.refused \cup Out(r) \cup none
  BY <1>4, <1>6, <1>7
<1>9. r \in Fit(none, c, fl, low)
  BY <1>2, <1>5, <1>6, <1>8, FitMoves
<1> QED BY <1>7, <1>9 DEF r

LEMMA EmptiedFit ==
    ASSUME NEW c \in Nat, NEW fl, NEW low \in {Absent, 0}, NEW hand,
           NEW s \in Fit(hand, c, fl, low), NEW gone
    PROVE  Emptied(s, gone) \in Fit(hand, c, fl, low)
<1> DEFINE r == Emptied(s, gone)
<1>1. s \in Replicas
  BY DEF Fit
<1>2. /\ r \in Replicas /\ r.floor = s.floor /\ r.stale = s.stale /\ r.next = s.next
      /\ r.refused = s.refused /\ r.ledger = s.ledger
  BY <1>1, EmptiedFields
<1> HIDE DEF r
<1>3. r \in Fit(hand, c, fl, low)
  BY <1>2, FitStays
<1> QED BY <1>3 DEF r

LEMMA RefusalFit ==
    ASSUME NEW c \in Nat, NEW fl, NEW low \in {Absent, 0}, NEW s \in Fit({}, c, fl, low),
           NEW f \in Refusals
    PROVE  ApplyRefusal(s, f) \in Fit({}, c, fl, low)
<1> DEFINE named == {t \in Txs : t.nonce = f.nonce /\ f.tx \in {t, NoTx}}
           inLedger == named \cap LedgerFrom(s, 0)
           slot == s.pending[f.nonce]
           taken == IF inLedger # {} THEN MarkRefused(Unrecord(s, inLedger), f.nonce)
                    ELSE IF slot.ttl /\ slot.tx \in named
                    THEN MarkRefused(Emptied(s, {f.nonce}), f.nonce)
                    ELSE s
<1>1. f.nonce \in Nonces
  BY DEF Refusals
<1>2. inLedger # {} => MarkRefused(Unrecord(s, inLedger), f.nonce) \in Fit({}, c, fl, low)
  <2> SUFFICES ASSUME inLedger # {}
               PROVE  MarkRefused(Unrecord(s, inLedger), f.nonce) \in Fit({}, c, fl, low)
    OBVIOUS
  <2>1. \A j \in DOMAIN s.ledger : s.ledger[j] \in inLedger => s.ledger[j].nonce \in {f.nonce}
    OBVIOUS
  <2>2. f.nonce \in Out(s)
    BY DEF LedgerFrom, Out
  <2> HIDE DEF inLedger
  <2>3. {f.nonce} \subseteq Out(s)
    BY <2>2
  <2>4. Unrecord(s, inLedger) \in Fit({f.nonce}, c, fl, low)
    BY <2>1, <2>3, UnrecordFit
  <2> QED BY <1>1, <2>4, MarkFit
<1>3. MarkRefused(Emptied(s, {f.nonce}), f.nonce) \in Fit({}, c, fl, low)
  <2>1. Emptied(s, {f.nonce}) \in Fit({}, c, fl, low)
    BY EmptiedFit
  <2> QED BY <1>1, <2>1, MarkFit
<1> HIDE DEF named, inLedger, slot
<1>4. taken \in Fit({}, c, fl, low)
  BY <1>2, <1>3
<1> HIDE DEF taken
<1>5. Told(taken, f.nonce) \in Fit({}, c, fl, low)
  BY <1>4, ToldFit
<1> QED BY <1>5 DEF ApplyRefusal, taken, slot, inLedger, named

LEMMA PastRejectFit ==
    ASSUME NEW c \in Nat, NEW fl, NEW low \in {Absent, 0}, NEW s \in Fit({}, c, fl, low),
           NEW a \in Answers
    PROVE  ApplyPastReject(s, a) \in Fit({}, c, fl, low)
<1>1. [nonce |-> a.nonce, tx |-> NoTx] \in Refusals
  BY DEF Refusals, Answers
<1>2. ApplyRefusal(s, [nonce |-> a.nonce, tx |-> NoTx]) \in Fit({}, c, fl, low)
  BY <1>1, RefusalFit
<1> QED BY <1>2 DEF ApplyPastReject

LEMMA HandsRunOutFit ==
    ASSUME NEW c \in Nat, NEW fl, NEW low \in {Absent, 0}, NEW q \in Seq(Txs), NEW hand, NEW h,
           h[0] \in Fit(hand \cup Rest(q, 0), c, fl, low),
           \A i \in 1..Len(q) : \A more :
               h[i - 1] \in Fit(more \cup {q[i].nonce}, c, fl, low) => h[i] \in Fit(more, c, fl, low)
    PROVE  h[Len(q)] \in Fit(hand, c, fl, low)
<1> DEFINE n == Len(q)
           G == [i \in 0..n |-> Fit(hand \cup Rest(q, i), c, fl, low)]
<1>1. n \in Nat
  OBVIOUS
<1>2. h[0] \in G[0]
  BY <1>1
<1>3. ASSUME NEW i \in 1..n, h[i - 1] \in G[i - 1] PROVE h[i] \in G[i]
  <2>1. i \in 0..n /\ i - 1 \in 0..n /\ (i - 1) + 1 = i
    BY <1>1
  <2>2. Rest(q, i - 1) = Rest(q, i) \cup {q[i].nonce}
    BY <1>1, <2>1 DEF Rest
  <2>3. hand \cup Rest(q, i - 1) = (hand \cup Rest(q, i)) \cup {q[i].nonce}
    BY <2>2
  <2>4. h[i - 1] \in Fit((hand \cup Rest(q, i)) \cup {q[i].nonce}, c, fl, low)
    BY <1>3, <2>1, <2>3
  <2>5. h[i] \in Fit(hand \cup Rest(q, i), c, fl, low)
    BY <1>3, <2>4
  <2> QED BY <2>1, <2>5
<1>4. h[n] \in G[n]
  <2> HIDE DEF G, n
  <2>1. \A i \in 0..n : h[i] \in G[i]
    BY <1>1, <1>2, <1>3, PathInduction
  <2> QED BY <1>1, <2>1
<1>5. hand \cup Rest(q, n) = hand
  BY <1>1 DEF Rest
<1>6. h[n] \in Fit(hand \cup Rest(q, n), c, fl, low)
  BY <1>1, <1>4
<1> QED BY <1>5, <1>6

LEMMA ReinsertAllFit ==
    ASSUME NEW c \in Nat, NEW fl, NEW low \in {Absent, 0}, NEW q \in Seq(Txs), NEW hand,
           NEW s \in Fit(hand \cup Rest(q, 0), c, fl, low) \cap Sound(Nonces)
    PROVE  ReinsertAll(s, q) \in Fit(hand, c, fl, low)
<1>1. \A r \in Sound(Nonces), t \in Txs : ReinsertForRetry(r, t) \in Sound(Nonces)
  <2> SUFFICES ASSUME NEW r \in Sound(Nonces), NEW t \in Txs PROVE ReinsertForRetry(r, t) \in Sound(Nonces)
    OBVIOUS
  <2>1. Nonces = Nonces \cup {t.nonce}
    BY Inputs
  <2> QED BY <2>1, ReinsertSound
<1>2. PICK h : /\ h[0] = s /\ h[Len(q)] = ReinsertAll(s, q)
               /\ \A i \in 1..Len(q) : h[i] = ReinsertForRetry(h[i - 1], q[i])
  BY <1>1, ReinsertPath
<1>3. ASSUME NEW i \in 1..Len(q), NEW more, h[i - 1] \in Fit(more \cup {q[i].nonce}, c, fl, low)
      PROVE  h[i] \in Fit(more, c, fl, low)
  <2>1. q[i] \in Txs
    BY <1>3
  <2>2. ReinsertForRetry(h[i - 1], q[i]) \in Fit(more, c, fl, low)
    BY <1>3, <2>1, ReinsertFit
  <2> QED BY <1>2, <2>2
<1>4. h[0] \in Fit(hand \cup Rest(q, 0), c, fl, low)
  BY <1>2
<1>5. h[Len(q)] \in Fit(hand, c, fl, low)
  BY <1>3, <1>4, HandsRunOutFit
<1> QED BY <1>2, <1>5

LEMMA RebufferAllFit ==
    ASSUME NEW c \in Nat, NEW fl, NEW low \in {Absent, 0}, NEW q \in Seq(Txs), NEW hand,
           NEW s \in Fit(hand \cup Rest(q, 0), c, fl, low) \cap Sound(Nonces)
    PROVE  RebufferAll(s, q) \in Fit(hand, c, fl, low)
<1>1. \A r \in Sound(Nonces), t \in Txs : Rebuffer(r, t) \in Sound(Nonces)
  <2> SUFFICES ASSUME NEW r \in Sound(Nonces), NEW t \in Txs PROVE Rebuffer(r, t) \in Sound(Nonces)
    OBVIOUS
  <2>1. Nonces = Nonces \cup {t.nonce}
    BY Inputs
  <2> QED BY <2>1, RebufferSound
<1>2. PICK h : /\ h[0] = s /\ h[Len(q)] = RebufferAll(s, q)
               /\ \A i \in 1..Len(q) : h[i] = Rebuffer(h[i - 1], q[i])
  BY <1>1, RebufferPath
<1>3. ASSUME NEW i \in 1..Len(q), NEW more, h[i - 1] \in Fit(more \cup {q[i].nonce}, c, fl, low)
      PROVE  h[i] \in Fit(more, c, fl, low)
  <2>1. q[i] \in Txs
    BY <1>3
  <2>2. Rebuffer(h[i - 1], q[i]) \in Fit(more, c, fl, low)
    BY <1>3, <2>1, RebufferFit
  <2> QED BY <1>2, <2>2
<1>4. h[0] \in Fit(hand \cup Rest(q, 0), c, fl, low)
  BY <1>2
<1>5. h[Len(q)] \in Fit(hand, c, fl, low)
  BY <1>3, <1>4, HandsRunOutFit
<1> QED BY <1>2, <1>5

LEMMA RecordAllFit ==
    ASSUME NEW c \in Nat, NEW fl, NEW low \in {Absent, 0}, NEW q \in Seq(Txs), NEW hand,
           NEW s \in Fit(hand \cup Rest(q, 0), c, fl, low) \cap Sound(Nonces)
    PROVE  RecordAll(s, q) \in Fit(hand, c, fl, low)
<1>1. \A r \in Sound(Nonces), t \in Txs : RecordPublished(r, t) \in Sound(Nonces)
  <2> SUFFICES ASSUME NEW r \in Sound(Nonces), NEW t \in Txs PROVE RecordPublished(r, t) \in Sound(Nonces)
    OBVIOUS
  <2>1. Nonces = Nonces \cup {t.nonce}
    BY Inputs
  <2> QED BY <2>1, RecordSound
<1>2. PICK h : /\ h[0] = s /\ h[Len(q)] = RecordAll(s, q)
               /\ \A i \in 1..Len(q) : h[i] = RecordPublished(h[i - 1], q[i])
  BY <1>1, RecordPath
<1>3. ASSUME NEW i \in 1..Len(q), NEW more, h[i - 1] \in Fit(more \cup {q[i].nonce}, c, fl, low)
      PROVE  h[i] \in Fit(more, c, fl, low)
  <2>1. q[i] \in Txs
    BY <1>3
  <2>2. RecordPublished(h[i - 1], q[i]) \in Fit(more, c, fl, low)
    BY <1>3, <2>1, RecordFit
  <2> QED BY <1>2, <2>2
<1>4. h[0] \in Fit(hand \cup Rest(q, 0), c, fl, low)
  BY <1>2
<1>5. h[Len(q)] \in Fit(hand, c, fl, low)
  BY <1>3, <1>4, HandsRunOutFit
<1> QED BY <1>2, <1>5

LEMMA RewindFit ==
    ASSUME NEW c \in Nat, NEW fl, NEW low \in {Absent, 0}, NEW s \in Fit({}, c, fl, low) \cap Sound({}),
           NEW taken
    PROVE  RewindForRepublish(s, taken) \in Fit({}, c, fl, low)
<1> DEFINE q == Only(s.ledger, taken)
<1>1. s.ledger \in Seq(Txs)
  BY DEF Sound, Replicas
<1>2. /\ q \in Seq(Txs)
      /\ \A i \in DOMAIN q : \E j \in DOMAIN s.ledger : s.ledger[j] = q[i]
      /\ \A j \in DOMAIN s.ledger : s.ledger[j] \in taken =>
            \E i \in DOMAIN q : q[i] = s.ledger[j]
  BY <1>1, Trimmed
<1> HIDE DEF q
<1>3. \A j \in DOMAIN s.ledger : s.ledger[j] \in taken => s.ledger[j].nonce \in Rest(q, 0)
  <2> SUFFICES ASSUME NEW j \in DOMAIN s.ledger, s.ledger[j] \in taken
               PROVE  s.ledger[j].nonce \in Rest(q, 0)
    OBVIOUS
  <2>1. PICK i \in DOMAIN q : q[i] = s.ledger[j]
    BY <1>2
  <2>2. i \in (0 + 1)..Len(q)
    BY <1>2, <2>1
  <2> QED BY <2>1, <2>2 DEF Rest
<1>4. Rest(q, 0) \subseteq Out(s)
  <2> SUFFICES ASSUME NEW i \in (0 + 1)..Len(q) PROVE q[i].nonce \in Out(s)
    BY DEF Rest
  <2>1. i \in DOMAIN q
    BY <1>2
  <2> QED BY <1>2, <2>1 DEF Out
<1>5. Unrecord(s, taken) \in Fit(Rest(q, 0), c, fl, low)
  BY <1>3, <1>4, UnrecordFit
<1>6. Unrecord(s, taken) \in Fit({} \cup Rest(q, 0), c, fl, low)
  <2>1. {} \cup Rest(q, 0) = Rest(q, 0)
    OBVIOUS
  <2> QED BY <1>5, <2>1
<1>7. Unrecord(s, taken) \in Sound(Nonces)
  <2>1. s \in Sound(Nonces)
    BY AllInHand
  <2>2. \A j \in DOMAIN s.ledger : s.ledger[j] \in taken => s.ledger[j].nonce \in Nonces
    BY <1>1, Inputs
  <2>3. Unrecord(s, taken) \in Sound(Nonces \cup Nonces)
    BY <2>1, <2>2, UnrecordSound
  <2>4. Nonces \cup Nonces = Nonces
    OBVIOUS
  <2> QED BY <2>3, <2>4
<1>8. ReinsertAll(Unrecord(s, taken), q) \in Fit({}, c, fl, low)
  BY <1>2, <1>6, <1>7, ReinsertAllFit
<1> QED BY <1>8 DEF RewindForRepublish, ReinsertAll, q

\* free_nonce: what stays in the ledger and what stays marked is below the nonce.
LEMMA FreeFit ==
    ASSUME NEW c \in Nat, NEW fl, NEW s \in Fit({}, c, fl, 0) \cap Sound({}), NEW n \in Nat, fl <= n
    PROVE  FreeNonce(s, n) \in Fit({}, c, fl, 0)
<1> DEFINE r == FreeNonce(s, n)
           later == LedgerFrom(s, n)
           more == {t.nonce : t \in later}
           u == Unrecord(s, later)
<1>1. s \in Replicas /\ s.ledger \in Seq(Txs) /\ s.next \in Nat /\ fl \in Level
  BY DEF Fit, Replicas, Level, Absent
<1>2. \A t \in later : t \in Txs /\ t.nonce >= n
  BY <1>1 DEF LedgerFrom
<1>3. u \in Fit(more, c, fl, 0)
  <2>1. \A j \in DOMAIN s.ledger : s.ledger[j] \in later => s.ledger[j].nonce \in more
    OBVIOUS
  <2>2. more \subseteq Out(s)
    BY DEF LedgerFrom, Out
  <2> HIDE DEF later, more
  <2> QED BY <2>1, <2>2, UnrecordFit
<1>4. u \in Replicas /\ u.next = s.next
  BY <1>1, <1>3 DEF Fit, Unrecord, Replicas
<1>5. PICK low \in Nat : low = Smaller(s.next, n) /\ low <= n /\ low <= s.next /\ low \in {n, s.next}
  BY <1>1 DEF Smaller
<1>6. r \in Replicas
  BY FreeSound DEF Sound
<1>7. /\ r.next = low /\ r.floor = u.floor /\ r.stale = u.stale /\ r.ledger = u.ledger
      /\ r.refused = {m \in u.refused : m < n}
  <2>1. RewindFloor(u, n) = [u EXCEPT !.next = low]
    <3>1. u.next # Absent
      BY <1>1, <1>4 DEF Absent
    <3> QED BY <1>4, <1>5, <3>1 DEF RewindFloor
  <2>2. PICK parked : r = [u EXCEPT !.next = low, !.refused = {m \in @ : m < n}, !.pending = parked]
    BY <2>1 DEF FreeNonce, u
  <2> HIDE DEF r, u
  <2> QED BY <1>4, <2>2 DEF Replicas
<1> HIDE DEF r, u
<1>8. Out(r) = Out(u)
  BY <1>7 DEF Out
<1>9. \A m \in more : m \in Nat /\ n <= m
  BY <1>2, Inputs
<1> HIDE DEF more
<1>10. \A m \in Nat : m < r.next /\ m \in u.refused \cup Out(u) \cup more
                         => m \in r.refused \cup Out(r) \cup {}
  BY <1>5, <1>7, <1>8, <1>9
<1>11. u.stale = FALSE => fl <= NextNonce(r)
  <2>1. u.stale = FALSE => fl <= NextNonce(u)
    BY <1>3 DEF Fit
  <2> QED BY <1>1, <1>4, <1>5, <1>7, <2>1 DEF NextNonce, Larger, Level, Absent
<1>12. PICK none : none = {}
  OBVIOUS
<1>13. /\ r.next <= u.next /\ Out(r) \cup none \subseteq Out(u) \cup more /\ r.next # Absent
       /\ \A m \in Nat : m < r.next /\ m \in u.refused \cup Out(u) \cup more
                         => m \in r.refused \cup Out(r) \cup none
  BY <1>4, <1>5, <1>7, <1>8, <1>10, <1>12 DEF Absent
<1>14. r \in Fit(none, c, fl, 0)
  BY <1>3, <1>6, <1>7, <1>11, <1>13, FitMoves
<1> QED BY <1>12, <1>14 DEF r

LEMMA GapFit ==
    ASSUME NEW c \in Nat, NEW fl, NEW s \in Fit({}, c, fl, 0) \cap Sound({}), NEW n \in Nat, fl <= n
    PROVE  ApplyGap(s, n) \in Fit({}, c, fl, 0)
<1>1. RewindForRepublish(s, LedgerFrom(s, n)) \in Fit({}, c, fl, 0)
  BY RewindFit
<1>2. FreeNonce(s, n) \in Fit({}, c, fl, 0)
  BY FreeFit
<1> QED BY <1>1, <1>2 DEF ApplyGap

LEMMA RefuseAllFit ==
    ASSUME NEW c \in Nat, NEW fl, NEW low \in {Absent, 0}, NEW s \in Fit({}, c, fl, low) \cap Sound({}),
           NEW q \in Seq(Refusals)
    PROVE  RefuseAll(s, q) \in Fit({}, c, fl, low)
<1> DEFINE A == Fit({}, c, fl, low) \cap Sound({})
<1>1. \A r \in A, a \in Refusals : ApplyRefusal(r, a) \in A
  BY RefusalFit, RefusalSound
<1>2. s \in A
  OBVIOUS
<1> HIDE DEF A
<1>3. PICK h : h[Len(q)] = RefuseAll(s, q) /\ \A i \in 0..Len(q) : h[i] \in A
  BY <1>1, <1>2, RefusalPath
<1>4. Len(q) \in 0..Len(q)
  OBVIOUS
<1> QED BY <1>3, <1>4 DEF A

LEMMA PastRejectAllFit ==
    ASSUME NEW c \in Nat, NEW fl, NEW low \in {Absent, 0}, NEW s \in Fit({}, c, fl, low) \cap Sound({}),
           NEW q \in Seq(Answers)
    PROVE  PastRejectAll(s, q) \in Fit({}, c, fl, low)
<1> DEFINE A == Fit({}, c, fl, low) \cap Sound({})
<1>1. \A r \in A, a \in Answers : ApplyPastReject(r, a) \in A
  BY PastRejectFit, PastRejectSound
<1>2. s \in A
  OBVIOUS
<1> HIDE DEF A
<1>3. PICK h : h[Len(q)] = PastRejectAll(s, q) /\ \A i \in 0..Len(q) : h[i] \in A
  BY <1>1, <1>2, PastRejectPath
<1>4. Len(q) \in 0..Len(q)
  OBVIOUS
<1> QED BY <1>3, <1>4 DEF A

LEMMA HeldFit ==
    ASSUME NEW c \in Nat, NEW fl, NEW low \in {Absent, 0}, NEW s \in Fit({}, c, fl, low) \cap Sound({}),
           NEW a \in Answers
    PROVE  RepublishHeld(s, a) \in Fit({}, c, fl, low)
<1>1. RewindForRepublish(s, LedgerFrom(s, a.nonce)) \in Fit({}, c, fl, low)
  BY RewindFit
<1> QED BY <1>1 DEF RepublishHeld

LEMMA HeldSound ==
    ASSUME NEW hand, NEW s \in Sound(hand), NEW a \in Answers
    PROVE  RepublishHeld(s, a) \in Sound(hand)
BY RewindSound DEF RepublishHeld

LEMMA RepublishAllFit ==
    ASSUME NEW c \in Nat, NEW fl, NEW low \in {Absent, 0}, NEW s \in Fit({}, c, fl, low) \cap Sound({}),
           NEW q \in Seq(Answers)
    PROVE  RepublishAll(s, q) \in Fit({}, c, fl, low)
<1> DEFINE A == Fit({}, c, fl, low) \cap Sound({})
<1>1. \A r \in A, a \in Answers : RepublishHeld(r, a) \in A
  BY HeldFit, HeldSound
<1>2. s \in A
  OBVIOUS
<1> HIDE DEF A
<1>3. PICK h : h[Len(q)] = RepublishAll(s, q) /\ \A i \in 0..Len(q) : h[i] \in A
  BY <1>1, <1>2, HeldPath
<1>4. Len(q) \in 0..Len(q)
  OBVIOUS
<1> QED BY <1>3, <1>4 DEF A


\* The receipts that the executors can have sent while the chain expects nonce c.
Known(c) ==
    {x \in Receipts : (x.kind = "executed" => x.nonce < c) /\ (x.kind = "skipped" => x.nonce <= c)}

\* The lists of a floor drain that began at the floor f: the last raise is the new
\* floor, and a receipt confirmed the nonce below it; a release lies between the
\* old floor and the chain; and without a release every confirmed nonce is used.
Learned(c, f) ==
    {d \in Drains :
        /\ f <= d.floor /\ d.floor <= c
        /\ \A x \in ToSet(d.released) : f <= x /\ x <= c
        /\ \A x \in ToSet(d.raised) : x <= c
        /\ d.floor # f => d.floor \in ToSet(d.raised) /\ d.floor - 1 \in ToSet(d.confirmed)
        /\ d.released = <<>> => \A x \in ToSet(d.confirmed) : x < c}

LEMMA ToSetOf ==
    ASSUME NEW q \in Seq(Nat), NEW x \in Nat
    PROVE  ToSet(Append(q, x)) = ToSet(q) \cup {x} /\ Append(q, x) # <<>>
<1>0. Append(q, x) # <<>>
  <2>1. Len(Append(q, x)) = Len(q) + 1 /\ Len(q) \in Nat
    OBVIOUS
  <2> QED BY <2>1
<1>1. PICK z : z = Append(q, x)
  OBVIOUS
<1>2. /\ DOMAIN z = DOMAIN q \cup {Len(q) + 1} /\ z[Len(q) + 1] = x
      /\ \A i \in DOMAIN q : z[i] = q[i]
  BY <1>1
<1>3. ToSet(z) = ToSet(q) \cup {x}
  BY <1>2 DEF ToSet
<1> QED BY <1>0, <1>1, <1>3

LEMMA FoldReceiptLearned ==
    ASSUME NEW c \in Nat, NEW f \in Level, NEW d \in Learned(c, f), NEW x \in Known(c)
    PROVE  FoldReceipt(d, x) \in Learned(c, f)
<1> DEFINE r == FoldReceipt(d, x)
           release == Released(x, Larger(d.floor, 0))
           raise == IF x.kind = "executed" /\ x.nonce + 1 > d.floor THEN x.nonce + 1 ELSE Absent
<1>1. /\ x \in Receipts /\ x.nonce \in Nat /\ d \in Drains /\ d.floor \in Level
      /\ f <= d.floor /\ d.floor <= c
      /\ d.confirmed \in Seq(Nat) /\ d.released \in Seq(Nat) /\ d.raised \in Seq(Nat)
  BY DEF Known, Receipts, Learned, Drains
<1>2. release = Absent => x.nonce < c
  BY <1>1 DEF Known, Receipts, Released, Larger, Level, Absent
<1>3. release # Absent => release \in Nat /\ f <= release /\ release <= c
  BY <1>1 DEF Known, Receipts, Released, Larger, Level, Absent
<1>4. raise # Absent => /\ raise \in Nat /\ raise <= c /\ raise - 1 = x.nonce
                        /\ f <= raise /\ Larger(d.floor, raise) = raise
  <2> SUFFICES ASSUME raise # Absent
               PROVE  /\ raise \in Nat /\ raise <= c /\ raise - 1 = x.nonce
                      /\ f <= raise /\ Larger(d.floor, raise) = raise
    OBVIOUS
  <2>1. raise = x.nonce + 1 /\ x.nonce + 1 > d.floor /\ x.kind = "executed"
    BY <1>1
  <2>2. x.nonce < c
    BY <2>1 DEF Known
  <2>3. PICK n \in Nat : n = x.nonce
    BY <1>1
  <2>4. d.floor \in Int /\ f \in Int
    BY <1>1 DEF Level, Absent
  <2> HIDE DEF raise
  <2>5. raise = n + 1 /\ d.floor < n + 1 /\ n < c /\ f <= d.floor
    BY <1>1, <2>1, <2>2, <2>3, <2>4
  <2>6. Larger(d.floor, raise) = raise
    BY <2>5 DEF Larger
  <2> QED BY <2>3, <2>4, <2>5, <2>6
<1>5. raise = Absent => Larger(d.floor, raise) = d.floor
  BY <1>1 DEF Larger, Level, Absent
<1>6. /\ r \in Drains /\ r.floor = Larger(d.floor, raise)
      /\ r.confirmed = Append(d.confirmed, x.nonce)
      /\ r.released = (IF release = Absent THEN d.released ELSE Append(d.released, release))
      /\ r.raised = (IF raise = Absent THEN d.raised ELSE Append(d.raised, raise))
  BY <1>1, FoldReceiptType DEF FoldReceipt
<1> HIDE DEF r, release, raise
<1>7. ToSet(r.confirmed) = ToSet(d.confirmed) \cup {x.nonce}
  BY <1>1, <1>6, ToSetOf
<1>8. /\ release = Absent => r.released = d.released
      /\ release # Absent => ToSet(r.released) = ToSet(d.released) \cup {release} /\ r.released # <<>>
  BY <1>1, <1>3, <1>6, ToSetOf
<1>9. /\ raise = Absent => r.raised = d.raised
      /\ raise # Absent => ToSet(r.raised) = ToSet(d.raised) \cup {raise}
  BY <1>1, <1>4, <1>6, ToSetOf
<1>10. /\ f <= r.floor /\ r.floor <= c
       /\ r.floor # f => r.floor \in ToSet(r.raised) /\ r.floor - 1 \in ToSet(r.confirmed)
  <2>1. d.floor # f => d.floor \in ToSet(d.raised) /\ d.floor - 1 \in ToSet(d.confirmed)
    BY DEF Learned
  <2>2. CASE raise = Absent
    BY <1>1, <1>5, <1>6, <1>7, <1>9, <2>1, <2>2
  <2>3. CASE raise # Absent
    BY <1>4, <1>6, <1>7, <1>9, <2>3
  <2> QED BY <2>2, <2>3
<1>11. \A y \in ToSet(r.released) : f <= y /\ y <= c
  BY <1>3, <1>8 DEF Learned
<1>12. \A y \in ToSet(r.raised) : y <= c
  BY <1>4, <1>9 DEF Learned
<1>13. r.released = <<>> => \A y \in ToSet(r.confirmed) : y < c
  BY <1>2, <1>7, <1>8 DEF Learned
<1>14. r \in Learned(c, f)
  BY <1>6, <1>10, <1>11, <1>12, <1>13 DEF Learned
<1> QED BY <1>14 DEF r

LEMMA FoldReceiptsLearned ==
    ASSUME NEW c \in Nat, NEW f \in Level, f <= c, NEW cs \in Seq(Known(c))
    PROVE  FoldReceipts([floor |-> f, confirmed |-> <<>>, released |-> <<>>, raised |-> <<>>], cs)
              \in Learned(c, f)
<1> DEFINE d == [floor |-> f, confirmed |-> <<>>, released |-> <<>>, raised |-> <<>>]
<1>1. d \in Learned(c, f)
  <2>1. <<>> \in Seq(Nat) /\ ToSet(<<>>) = {} /\ f <= f
    BY DEF ToSet, Level, Absent
  <2> QED BY <2>1 DEF Learned, Drains
<1> HIDE DEF d
<1>2. \A r \in Learned(c, f), x \in Known(c) : FoldReceipt(r, x) \in Learned(c, f)
  BY FoldReceiptLearned
<1>3. PICK h : h[Len(cs)] = FoldReceipts(d, cs) /\ \A i \in 0..Len(cs) : h[i] \in Learned(c, f)
  BY <1>1, <1>2, FoldReceiptPath
<1>4. Len(cs) \in 0..Len(cs)
  OBVIOUS
<1>5. FoldReceipts(d, cs) \in Learned(c, f)
  BY <1>3, <1>4
<1> QED BY <1>5 DEF d

LEMMA ConfirmOut ==
    ASSUME NEW s \in Replicas, NEW n \in Nat, NEW r, r = ConfirmThrough(s, n)
    PROVE  /\ r.next = s.next /\ r.floor = s.floor /\ r.stale = s.stale /\ r.refused = s.refused
           /\ Out(r) = {m \in Out(s) : m > n}
<1> DEFINE above == {u \in Txs : u.nonce > n}
           rest == Only(s.ledger, above)
<1>1. s.ledger \in Seq(Txs)
  BY DEF Replicas
<1>2. /\ rest \in Seq(Txs)
      /\ \A i \in DOMAIN rest : rest[i] \in above /\ \E j \in DOMAIN s.ledger : s.ledger[j] = rest[i]
      /\ \A j \in DOMAIN s.ledger : s.ledger[j] \in above =>
            \E i \in DOMAIN rest : rest[i] = s.ledger[j]
  <2> HIDE DEF above
  <2> QED BY <1>1, Trimmed
<1> HIDE DEF rest
<1>3. /\ r.next = s.next /\ r.floor = s.floor /\ r.stale = s.stale /\ r.refused = s.refused
      /\ r.ledger = rest
  BY DEF ConfirmThrough, Replicas, rest
<1>4. \A i \in DOMAIN rest : rest[i].nonce \in Out(s) /\ rest[i].nonce > n
  BY <1>2 DEF Out
<1>5. \A j \in DOMAIN s.ledger : s.ledger[j].nonce > n => s.ledger[j].nonce \in Out(r)
  <2> SUFFICES ASSUME NEW j \in DOMAIN s.ledger, s.ledger[j].nonce > n
               PROVE  s.ledger[j].nonce \in Out(r)
    OBVIOUS
  <2>1. s.ledger[j] \in above
    BY <1>1
  <2>2. PICK i \in DOMAIN rest : rest[i] = s.ledger[j]
    BY <1>2, <2>1
  <2> QED BY <1>3, <2>2 DEF Out
<1>6. Out(r) \subseteq {m \in Out(s) : m > n}
  BY <1>3, <1>4 DEF Out
<1>7. {m \in Out(s) : m > n} \subseteq Out(r)
  BY <1>5 DEF Out
<1> QED BY <1>3, <1>6, <1>7

LEMMA ConfirmSteps ==
    ASSUME NEW s \in Sound({}), NEW ns \in Seq(Nat)
    PROVE  \E h : /\ h[0] = s /\ h[Len(ns)] = ConfirmAll(s, ns)
                  /\ \A i \in 0..Len(ns) : h[i] \in Sound({})
                  /\ \A i \in 1..Len(ns) : h[i] = ConfirmThrough(h[i - 1], ns[i])
<1>1. PICK A : A = Sound({})
  OBVIOUS
<1>2. PICK X : X = Nat
  OBVIOUS
<1>3. s \in A /\ ns \in Seq(X)
  BY <1>1, <1>2
<1>4. \A p \in A, x \in X : ConfirmThrough(p, x) \in A
  BY <1>1, <1>2, ConfirmSound
<1>5. \E h : /\ h[0] = s /\ h[Len(ns)] = ConfirmAll(s, ns)
             /\ \A i \in 0..Len(ns) : h[i] \in A
             /\ \A i \in 1..Len(ns) : h[i] = ConfirmThrough(h[i - 1], ns[i])
  BY <1>3, <1>4, ConfirmPath
<1> QED BY <1>1, <1>5

LEMMA ConfirmAllOut ==
    ASSUME NEW s \in Sound({}), NEW ns \in Seq(Nat), NEW r, r = ConfirmAll(s, ns)
    PROVE  /\ r.next = s.next /\ r.floor = s.floor /\ r.stale = s.stale /\ r.refused = s.refused
           /\ Out(r) = {m \in Out(s) : \A x \in ToSet(ns) : m > x}
<1> DEFINE n == Len(ns)
           G == [i \in 0..n |->
                   {p \in Replicas : /\ p.next = s.next /\ p.floor = s.floor /\ p.stale = s.stale
                                     /\ p.refused = s.refused
                                     /\ Out(p) = {m \in Out(s) : \A j \in 1..i : m > ns[j]}}]
<1>0. n \in Nat
  OBVIOUS
<1>2. PICK h : /\ h[0] = s /\ h[Len(ns)] = ConfirmAll(s, ns)
               /\ \A i \in 0..Len(ns) : h[i] \in Sound({})
               /\ \A i \in 1..Len(ns) : h[i] = ConfirmThrough(h[i - 1], ns[i])
  BY ConfirmSteps
<1>3. h[0] \in G[0]
  <2>1. s \in Replicas /\ 0 \in 0..Len(ns)
    BY DEF Sound
  <2>2. Out(s) = {m \in Out(s) : \A j \in 1..0 : m > ns[j]}
    OBVIOUS
  <2> QED BY <1>2, <2>1, <2>2
<1>4. ASSUME NEW i \in 1..n, h[i - 1] \in G[i - 1] PROVE h[i] \in G[i]
  <2>1. i - 1 \in 0..Len(ns) /\ i \in 0..Len(ns) /\ ns[i] \in Nat
    BY <1>4
  <2>2. PICK p : p = h[i - 1]
    OBVIOUS
  <2>3. /\ p \in Replicas /\ p.next = s.next /\ p.floor = s.floor /\ p.stale = s.stale
        /\ p.refused = s.refused /\ Out(p) = {m \in Out(s) : \A j \in 1..(i - 1) : m > ns[j]}
    BY <1>4, <2>1, <2>2
  <2>4. PICK z : z = h[i] /\ z = ConfirmThrough(p, ns[i])
    BY <1>2, <2>2
  <2>5. /\ z.next = p.next /\ z.floor = p.floor /\ z.stale = p.stale /\ z.refused = p.refused
        /\ Out(z) = {m \in Out(p) : m > ns[i]}
    BY <2>1, <2>3, <2>4, ConfirmOut
  <2>6. 1..i = (1..(i - 1)) \cup {i}
    BY <2>1
  <2>7. Out(z) = {m \in Out(s) : \A j \in 1..i : m > ns[j]}
    BY <2>3, <2>5, <2>6
  <2>8. z \in Replicas
    BY <1>2, <2>1, <2>4 DEF Sound
  <2> QED BY <2>1, <2>3, <2>4, <2>5, <2>7, <2>8
<1>5. h[n] \in G[n]
  <2> HIDE DEF G, n
  <2>1. \A i \in 0..n : h[i] \in G[i]
    BY <1>0, <1>3, <1>4, PathInduction
  <2> QED BY <1>0, <2>1
<1>6. /\ r.next = s.next /\ r.floor = s.floor /\ r.stale = s.stale /\ r.refused = s.refused
      /\ Out(r) = {m \in Out(s) : \A j \in 1..Len(ns) : m > ns[j]}
  <2>1. r \in G[Len(ns)] /\ Len(ns) \in 0..Len(ns)
    BY <1>2, <1>5
  <2> QED BY <2>1
<1>8. \A m : (\A j \in 1..Len(ns) : m > ns[j]) <=> (\A x \in ToSet(ns) : m > x)
  BY DEF ToSet
<1> QED BY <1>6, <1>8

LEMMA ReleaseSteps ==
    ASSUME NEW s \in Sound({}), NEW ns \in Seq(Nat)
    PROVE  \E h : /\ h[0] = s /\ h[Len(ns)] = ReleaseAll(s, ns)
                  /\ \A i \in 0..Len(ns) : h[i] \in Sound({})
                  /\ \A i \in 1..Len(ns) : h[i] = ReleaseFloor(h[i - 1], ns[i])
<1>1. PICK A : A = Sound({})
  OBVIOUS
<1>2. PICK X : X = Nat
  OBVIOUS
<1>3. s \in A /\ ns \in Seq(X)
  BY <1>1, <1>2
<1>4. \A p \in A, x \in X : ReleaseFloor(p, x) \in A
  BY <1>1, <1>2, ReleaseSound
<1>5. \E h : /\ h[0] = s /\ h[Len(ns)] = ReleaseAll(s, ns)
             /\ \A i \in 0..Len(ns) : h[i] \in A
             /\ \A i \in 1..Len(ns) : h[i] = ReleaseFloor(h[i - 1], ns[i])
  BY <1>3, <1>4, ReleasePath
<1> QED BY <1>1, <1>5

\* The releases of a drain lower the floor, and not below the receipt floor f.
LEMMA ReleaseAllOut ==
    ASSUME NEW s \in Sound({}), NEW c \in Nat, NEW f \in Level, NEW ns \in Seq(Nat),
           \A x \in ToSet(ns) : f <= x /\ x <= c, NEW r, r = ReleaseAll(s, ns)
    PROVE  /\ r \in Replicas
           /\ r.floor = s.floor /\ r.stale = s.stale /\ Out(r) = Out(s)
           /\ r.next = s.next \/ r.next \in Nat
           /\ f <= NextNonce(s) => f <= NextNonce(r)
           /\ ns = <<>> => r = s
           /\ ns # <<>> => r.next <= c
<1> DEFINE n == Len(ns)
           G == [i \in 0..n |->
                   {p \in Replicas : /\ p.floor = s.floor /\ p.stale = s.stale /\ Out(p) = Out(s)
                                     /\ p.next = s.next \/ p.next \in Nat
                                     /\ f <= NextNonce(s) => f <= NextNonce(p)
                                     /\ i = 0 => p = s
                                     /\ i # 0 => p.next <= c}]
<1>0. n \in Nat /\ \A i \in 1..n : ns[i] \in Nat /\ ns[i] \in ToSet(ns)
  BY DEF ToSet
<1>3. PICK h : /\ h[0] = s /\ h[Len(ns)] = ReleaseAll(s, ns)
               /\ \A i \in 0..Len(ns) : h[i] \in Sound({})
               /\ \A i \in 1..Len(ns) : h[i] = ReleaseFloor(h[i - 1], ns[i])
  BY ReleaseSteps
<1>4. h[0] \in G[0]
  <2>1. s \in Replicas /\ 0 \in 0..n
    BY <1>0 DEF Sound
  <2> QED BY <1>3, <2>1
<1>5. ASSUME NEW i \in 1..n, h[i - 1] \in G[i - 1] PROVE h[i] \in G[i]
  <2>1. /\ i - 1 \in 0..n /\ i \in 0..n /\ i # 0 /\ ns[i] \in Nat
        /\ f <= ns[i] /\ ns[i] <= c
    BY <1>0, <1>5
  <2>2. PICK p : p = h[i - 1]
    OBVIOUS
  <2>3. /\ p \in Replicas /\ p.floor = s.floor /\ p.stale = s.stale /\ Out(p) = Out(s)
        /\ p.next = s.next \/ p.next \in Nat
        /\ f <= NextNonce(s) => f <= NextNonce(p)
    BY <1>5, <2>1, <2>2
  <2>4. PICK z : z = h[i] /\ z = ReleaseFloor(p, ns[i])
    BY <1>3, <2>2
  <2>5. z \in Replicas /\ p.next \in Level
    BY <1>3, <2>1, <2>3, <2>4 DEF Sound, Replicas
  <2>6. CASE p.next > ns[i]
    <3>1. /\ z.floor = p.floor /\ z.stale = p.stale /\ z.ledger = p.ledger /\ z.next = ns[i]
      BY <2>3, <2>4, <2>6 DEF ReleaseFloor, Replicas
    <3>2. Out(z) = Out(p)
      BY <3>1 DEF Out
    <3>3. NextNonce(z) = ns[i]
      BY <2>1, <3>1 DEF NextNonce, Larger
    <3> QED BY <2>1, <2>3, <2>4, <2>5, <3>1, <3>2, <3>3
  <2>7. CASE ~(p.next > ns[i])
    <3>1. z = p
      BY <2>4, <2>7 DEF ReleaseFloor
    <3>2. p.next <= c
      BY <2>1, <2>5, <2>7 DEF Level, Absent
    <3> QED BY <2>1, <2>3, <2>4, <3>1, <3>2
  <2> QED BY <2>6, <2>7
<1>6. h[n] \in G[n]
  <2> HIDE DEF G, n
  <2>1. \A i \in 0..n : h[i] \in G[i]
    BY <1>0, <1>4, <1>5, PathInduction
  <2> QED BY <1>0, <2>1
<1>7. r \in G[n] /\ n \in 0..n /\ (ns = <<>> <=> n = 0)
  BY <1>0, <1>3, <1>6
<1> QED BY <1>7

LEMMA AdvanceSteps ==
    ASSUME NEW s \in Sound({}), NEW ns \in Seq(Nat)
    PROVE  \E h : /\ h[0] = s /\ h[Len(ns)] = AdvanceAll(s, ns)
                  /\ \A i \in 0..Len(ns) : h[i] \in Sound({})
                  /\ \A i \in 1..Len(ns) : h[i] = AdvanceFloor(h[i - 1], ns[i])
<1>1. PICK A : A = Sound({})
  OBVIOUS
<1>2. PICK X : X = Nat
  OBVIOUS
<1>3. s \in A /\ ns \in Seq(X)
  BY <1>1, <1>2
<1>4. \A p \in A, x \in X : AdvanceFloor(p, x) \in A
  BY <1>1, <1>2, AdvanceSound
<1>5. \E h : /\ h[0] = s /\ h[Len(ns)] = AdvanceAll(s, ns)
             /\ \A i \in 0..Len(ns) : h[i] \in A
             /\ \A i \in 1..Len(ns) : h[i] = AdvanceFloor(h[i - 1], ns[i])
  BY <1>3, <1>4, AdvancePath
<1> QED BY <1>1, <1>5

\* The raises of a drain lift the floor to each of them, and not above the chain.
LEMMA AdvanceAllOut ==
    ASSUME NEW s \in Sound({}), NEW c \in Nat, NEW ns \in Seq(Nat),
           \A x \in ToSet(ns) : x <= c, NEW r, r = AdvanceAll(s, ns)
    PROVE  /\ r \in Replicas
           /\ r.floor = s.floor /\ r.stale = s.stale /\ Out(r) = Out(s)
           /\ s.next <= r.next /\ NextNonce(s) <= NextNonce(r)
           /\ (r.next = s.next /\ r.refused = s.refused) \/ r.next <= c
           /\ \A x \in ToSet(ns) : x <= NextNonce(r)
<1> DEFINE n == Len(ns)
           G == [i \in 0..n |->
                   {p \in Replicas : /\ p.floor = s.floor /\ p.stale = s.stale /\ Out(p) = Out(s)
                                     /\ s.next <= p.next /\ NextNonce(s) <= NextNonce(p)
                                     /\ (p.next = s.next /\ p.refused = s.refused) \/ p.next <= c
                                     /\ \A j \in 1..i : ns[j] <= NextNonce(p)}]
<1>0. n \in Nat /\ \A i \in 1..n : ns[i] \in Nat /\ ns[i] \in ToSet(ns)
  BY DEF ToSet
<1>3. PICK h : /\ h[0] = s /\ h[Len(ns)] = AdvanceAll(s, ns)
               /\ \A i \in 0..Len(ns) : h[i] \in Sound({})
               /\ \A i \in 1..Len(ns) : h[i] = AdvanceFloor(h[i - 1], ns[i])
  BY AdvanceSteps
<1>4. h[0] \in G[0]
  <2>1. s \in Replicas /\ 0 \in 0..n /\ s.next \in Level
    BY <1>0 DEF Sound, Replicas
  <2>2. s.next <= s.next /\ NextNonce(s) <= NextNonce(s)
    BY <2>1 DEF NextNonce, Larger, Level, Absent
  <2> QED BY <1>3, <2>1, <2>2
<1>5. ASSUME NEW i \in 1..n, h[i - 1] \in G[i - 1] PROVE h[i] \in G[i]
  <2>1. /\ i - 1 \in 0..n /\ i \in 0..n /\ ns[i] \in Nat /\ ns[i] <= c
        /\ 1..i = (1..(i - 1)) \cup {i} /\ \A j \in 1..i : ns[j] \in Nat
    BY <1>0, <1>5
  <2>2. PICK p : p = h[i - 1]
    OBVIOUS
  <2>3. /\ p \in Replicas /\ p.floor = s.floor /\ p.stale = s.stale /\ Out(p) = Out(s)
        /\ s.next <= p.next /\ NextNonce(s) <= NextNonce(p)
        /\ (p.next = s.next /\ p.refused = s.refused) \/ p.next <= c
        /\ \A j \in 1..(i - 1) : ns[j] <= NextNonce(p)
    BY <1>5, <2>1, <2>2
  <2>4. PICK z : z = h[i] /\ z = AdvanceFloor(p, ns[i])
    BY <1>3, <2>2
  <2>5. z \in Replicas /\ p.next \in Level /\ s.next \in Level
    BY <1>3, <2>1, <2>3, <2>4 DEF Sound, Replicas
  <2>6. CASE ns[i] <= NextNonce(p)
    <3>1. z = p
      BY <2>4, <2>6 DEF AdvanceFloor
    <3>2. \A j \in 1..i : ns[j] <= NextNonce(p)
      BY <2>1, <2>3, <2>6
    <3> QED BY <2>1, <2>3, <2>4, <3>1, <3>2
  <2>7. CASE ~(ns[i] <= NextNonce(p))
    <3> DEFINE below == {m \in Parked(p) : m < ns[i]}
               e == Emptied(p, below)
    <3>1. e \in Replicas /\ e.ledger = p.ledger /\ e.floor = p.floor /\ e.stale = p.stale
      BY <2>3, EmptiedFields
    <3>2. z = [e EXCEPT !.next = ns[i], !.refused = {m \in @ : m >= ns[i]}, !.owed = @ \ below]
      BY <2>4, <2>7 DEF AdvanceFloor
    <3> HIDE DEF e, below
    <3>3. z.floor = p.floor /\ z.stale = p.stale /\ z.ledger = p.ledger /\ z.next = ns[i]
      BY <3>1, <3>2 DEF Replicas
    <3>4. Out(z) = Out(p)
      BY <3>3 DEF Out
    <3>5. NextNonce(z) = ns[i] /\ NextNonce(p) \in Nat /\ NextNonce(p) < ns[i] /\ p.next <= ns[i]
      BY <2>1, <2>5, <2>7, <3>3 DEF NextNonce, Larger, Level, Absent
    <3>6. s.next <= z.next /\ NextNonce(s) <= NextNonce(z) /\ z.next <= c
      <4>1. NextNonce(s) \in Nat
        BY <2>5 DEF NextNonce, Larger, Level, Absent
      <4> QED BY <2>1, <2>3, <2>5, <3>3, <3>5, <4>1, SMTT(30) DEF Level, Absent
    <3>7. \A j \in 1..i : ns[j] <= NextNonce(z)
      BY <2>1, <2>3, <3>5
    <3> QED BY <2>1, <2>3, <2>4, <2>5, <3>3, <3>4, <3>6, <3>7
  <2> QED BY <2>6, <2>7
<1>6. h[n] \in G[n]
  <2> HIDE DEF G, n
  <2>1. \A i \in 0..n : h[i] \in G[i]
    BY <1>0, <1>4, <1>5, PathInduction
  <2> QED BY <1>0, <2>1
<1>7. r \in G[n] /\ n \in 0..n
  BY <1>0, <1>3, <1>6
<1>8. \A x \in ToSet(ns) : \E j \in 1..n : ns[j] = x
  BY DEF ToSet
<1> QED BY <1>7, <1>8

\* One drain of receipts: the floor ends between what the receipts prove and what
\* the marks and the ledger cover.
LEMMA ReceiptsFit ==
    ASSUME NEW c \in Nat, NEW fl, fl <= c, NEW low \in {Absent, 0},
           NEW s \in Fit({}, c, fl, low) \cap Sound({}), NEW cs \in Seq(Known(c))
    PROVE  \E new : new <= c /\ ApplyReceiptDrain(s, cs) \in Fit({}, c, new, low)
<1> DEFINE d0 == [floor |-> s.floor, confirmed |-> <<>>, released |-> <<>>, raised |-> <<>>]
           d == FoldReceipts(d0, cs)
           t == [s EXCEPT !.floor = d.floor]
           confirmed == ConfirmAll(t, d.confirmed)
           released == ReleaseAll(confirmed, d.released)
           p == AdvanceAll(released, d.raised)
<1>1. s \in Replicas /\ InPlace(s) /\ Kept(s, {}) /\ s.floor = fl /\ fl \in Level /\ s.next \in Level
  BY DEF Fit, Sound, Replicas
<1>2. d \in Learned(c, fl)
  BY <1>1, FoldReceiptsLearned
<1>3. /\ d.floor \in Level /\ d.confirmed \in Seq(Nat) /\ d.released \in Seq(Nat)
      /\ d.raised \in Seq(Nat)
  BY <1>2 DEF Learned, Drains
<1> HIDE DEF d0, d
<1>4. /\ t \in Replicas /\ t.pending = s.pending /\ t.next = s.next /\ t.owed = s.owed
      /\ t.ledger = s.ledger /\ t.floor = d.floor /\ t.stale = s.stale /\ t.refused = s.refused
  BY <1>1, <1>3 DEF Replicas
<1> HIDE DEF t
<1>5. t \in Sound({}) /\ Out(t) = Out(s)
  <2>1. \A n \in t.owed : Holds(s, n) \/ Published(t, n) \/ n \in {}
    BY <1>1, <1>4 DEF Kept, Published
  <2>2. t \in Sound({})
    BY <1>1, <1>4, <2>1, LedgerSound
  <2> QED BY <1>4, <2>2 DEF Out
<1>6. /\ confirmed.next = s.next /\ confirmed.floor = d.floor /\ confirmed.stale = s.stale
      /\ confirmed.refused = s.refused
      /\ Out(confirmed) = {m \in Out(s) : \A x \in ToSet(d.confirmed) : m > x}
  BY <1>3, <1>4, <1>5, ConfirmAllOut
<1>7. confirmed \in Sound({})
  BY <1>3, <1>5, ConfirmAllSound
<1> HIDE DEF confirmed
<1>8. /\ released.floor = d.floor /\ released.stale = s.stale /\ Out(released) = Out(confirmed)
      /\ released.next = s.next \/ released.next \in Nat
      /\ fl <= NextNonce(confirmed) => fl <= NextNonce(released)
      /\ d.released = <<>> => released = confirmed
      /\ d.released # <<>> => released.next <= c
  <2>1. \A x \in ToSet(d.released) : fl <= x /\ x <= c
    BY <1>2 DEF Learned
  <2> QED BY <1>1, <1>3, <1>6, <1>7, <2>1, ReleaseAllOut
<1>9. released \in Sound({})
  BY <1>3, <1>7, ReleaseAllSound
<1> HIDE DEF released
<1>10. /\ p \in Replicas
       /\ p.floor = d.floor /\ p.stale = s.stale /\ Out(p) = Out(confirmed)
       /\ released.next <= p.next /\ NextNonce(released) <= NextNonce(p)
       /\ (p.next = released.next /\ p.refused = released.refused) \/ p.next <= c
       /\ \A x \in ToSet(d.raised) : x <= NextNonce(p)
  <2>1. \A x \in ToSet(d.raised) : x <= c
    BY <1>2 DEF Learned
  <2> QED BY <1>3, <1>8, <1>9, <2>1, AdvanceAllOut
<1> HIDE DEF p
<1>11. released.next \in Level /\ p.next \in Level
  BY <1>9, <1>10 DEF Sound, Replicas
<1>12. low <= p.next /\ (p.next = Absent => s.next = Absent)
  <2>1. low <= s.next
    BY DEF Fit
  <2> QED BY <1>1, <1>8, <1>10, <1>11, <2>1 DEF Level, Absent
<1>13. p.next = Absent => {} = {} /\ Out(p) = {}
  <2>1. s.next = Absent => Out(s) = {}
    BY DEF Fit
  <2> QED BY <1>6, <1>10, <1>12, <2>1
<1>14. ASSUME NEW m \in Nat, c <= m, m < p.next PROVE m \in p.refused \cup Out(p) \cup {}
  <2>1. ~(p.next <= c)
    BY <1>11, <1>14 DEF Level, Absent
  <2>2. p.next = released.next /\ p.refused = released.refused
    BY <1>10, <2>1
  <2>3. d.released = <<>>
    BY <1>8, <2>1, <2>2
  <2>4. p.next = s.next /\ p.refused = s.refused
    BY <1>6, <1>8, <2>2, <2>3
  <2>5. m \in s.refused \cup Out(s) \cup {}
    BY <1>14, <2>4 DEF Fit
  <2>6. \A x \in ToSet(d.confirmed) : x < c
    BY <1>2, <2>3 DEF Learned
  <2>7. \A x \in ToSet(d.confirmed) : x \in Nat
    BY <1>3 DEF ToSet
  <2>8. \A x \in ToSet(d.confirmed) : m > x
    BY <1>14, <2>6, <2>7
  <2> QED BY <1>6, <1>10, <2>4, <2>5, <2>8
<1>15. ASSUME p.stale = FALSE
       PROVE  d.floor <= NextNonce(p) /\ \A m \in Out(p) \cup {} : d.floor <= m
  <2>1. fl <= NextNonce(s) /\ \A m \in Out(s) : fl <= m
    BY <1>10, <1>15 DEF Fit
  <2>2. NextNonce(s) = NextNonce(confirmed)
    BY <1>6 DEF NextNonce
  <2>3. NextNonce(released) \in Nat /\ NextNonce(p) \in Nat
    BY <1>11 DEF NextNonce, Larger, Level, Absent
  <2>4. fl <= NextNonce(p)
    BY <1>1, <1>8, <1>10, <2>1, <2>2, <2>3 DEF Level, Absent
  <2>5. d.floor # fl => d.floor \in ToSet(d.raised) /\ d.floor - 1 \in ToSet(d.confirmed)
    BY <1>2 DEF Learned
  <2>6. d.floor <= NextNonce(p)
    BY <1>10, <2>4, <2>5
  <2>7. ASSUME NEW m \in Out(p) PROVE d.floor <= m
    <3>1. m \in Out(s) /\ \A x \in ToSet(d.confirmed) : m > x
      BY <1>6, <1>10, <2>7
    <3>2. m \in Nat
      BY <1>1, <3>1, OutNonces
    <3>3. CASE d.floor = fl
      BY <2>1, <3>1, <3>3
    <3>4. CASE d.floor # fl
      <4>1. m > d.floor - 1
        BY <2>5, <3>1, <3>4
      <4> QED BY <1>3, <3>2, <4>1 DEF Level, Absent
    <3> QED BY <3>3, <3>4
  <2> QED BY <2>6, <2>7
<1>16. p \in Fit({}, c, d.floor, low)
  BY <1>10, <1>12, <1>13, <1>14, <1>15 DEF Fit
<1>17. ApplyReceiptDrain(s, cs) = p
  BY Zenon DEF ApplyReceiptDrain, p, AdvanceAll, released, ReleaseAll, confirmed, ConfirmAll,
               t, d, FoldReceipts, d0
<1>18. d.floor <= c
  BY <1>2 DEF Learned
<1> QED BY <1>16, <1>17, <1>18

\* The answers: a gap is healed only for a replica that knows its floor, and at or
\* above what the receipts prove.
LEMMA AnswersFit ==
    ASSUME NEW c \in Nat, NEW fl, NEW low \in {Absent, 0},
           NEW s \in Fit({}, c, fl, low) \cap Sound({}),
           NEW al \in Seq(Answers), al # <<>> => low = 0
    PROVE  ApplySealerAnswers(s, al) \in Fit({}, c, fl, low)
<1> DEFINE rejects == {a \in ToSet(al) : a.kind = "reject"}
           drops == {a \in rejects : a.nonce < RaisedToFloor(s, a)}
           gaps == {RaisedToFloor(s, a) : a \in rejects \ drops}
           full == {a \in ToSet(al) : a.kind = "full"}
           dropped == PastRejectAll(s, Only(al, drops))
           least == CHOOSE g \in gaps : \A h \in gaps : g <= h
           healed == IF gaps = {} THEN dropped ELSE ApplyGap(dropped, least)
           A == Fit({}, c, fl, low) \cap Sound({})
<1>1. \A a \in rejects : a.expected \in Nat
  BY DEF ToSet, Answers
<1>2. \A g \in gaps : g \in Nat /\ fl <= g
  <2>1. s.floor \in Level /\ s.floor = fl
    BY DEF Fit, Sound, Replicas
  <2>2. \A a \in rejects : RaisedToFloor(s, a) \in Nat /\ fl <= RaisedToFloor(s, a)
    BY <1>1, <2>1 DEF RaisedToFloor, Larger, Level, Absent
  <2> QED BY <2>2
<1>3. gaps # {} => al # <<>>
  BY DEF ToSet
<1> HIDE DEF rejects
<1>4. dropped \in A
  <2>1. Only(al, drops) \in Seq(Answers)
    BY OnlyAnswers
  <2>2. dropped \in Sound({})
    BY <2>1, PastRejectAllSound
  <2>3. dropped \in Fit({}, c, fl, low)
    BY <2>1, PastRejectAllFit
  <2> QED BY <2>2, <2>3
<1> HIDE DEF drops, dropped
<1>5. healed \in A
  <2>1. CASE gaps = {}
    BY <1>4, <2>1
  <2>2. CASE gaps # {}
    <3>1. low = 0
      BY <1>3, <2>2
    <3> HIDE DEF gaps
    <3>2. \E g \in gaps : \A h \in gaps : g <= h
      <4>1. gaps \subseteq Nat
        BY <1>2
      <4> QED BY <2>2, <4>1, LeastNatural
    <3>3. least \in gaps
      BY <3>2
    <3> HIDE DEF least
    <3>4. least \in Nat /\ fl <= least
      BY <1>2, <3>3
    <3>5. ApplyGap(dropped, least) \in Sound({})
      BY <1>4, <3>4, GapSound
    <3>6. ApplyGap(dropped, least) \in Fit({}, c, fl, 0)
      BY <1>4, <3>1, <3>4, GapFit
    <3> QED BY <2>2, <3>1, <3>5, <3>6
  <2> QED BY <2>1, <2>2
<1> HIDE DEF healed, full
<1>6. RepublishAll(healed, Only(al, full)) \in Fit({}, c, fl, low)
  BY <1>5, OnlyAnswers, RepublishAllFit
<1>7. ApplySealerAnswers(s, al) = RepublishAll(healed, Only(al, full))
  BY Zenon DEF ApplySealerAnswers, RepublishAll, healed, dropped, PastRejectAll, full, gaps,
               drops, rejects, least
<1> QED BY <1>6, <1>7

LEMMA ExpiryFit ==
    ASSUME NEW c \in Nat, NEW fl, NEW low \in {Absent, 0}, NEW s \in Fit({}, c, fl, low), NEW gone
    PROVE  SweepExpired(s, gone) \in Fit({}, c, fl, low)
<1> DEFINE e == Emptied(s, gone)
           r == SweepExpired(s, gone)
<1>1. s \in Replicas
  BY DEF Fit
<1>2. /\ e \in Replicas /\ e.floor = s.floor /\ e.stale = s.stale /\ e.next = s.next
      /\ e.refused = s.refused /\ e.ledger = s.ledger
  BY <1>1, EmptiedFields
<1>3. r = [e EXCEPT !.owed = {n \in @ : n \in gone => Published(s, n)}]
  BY DEF SweepExpired
<1> HIDE DEF e, r
<1>4. /\ r \in Replicas /\ r.floor = s.floor /\ r.stale = s.stale /\ r.next = s.next
      /\ r.refused = s.refused /\ r.ledger = s.ledger
  BY <1>2, <1>3 DEF Replicas
<1>5. r \in Fit({}, c, fl, low)
  BY <1>4, FitStays
<1> QED BY <1>5 DEF r

LEMMA SentFit ==
    ASSUME NEW c \in Nat, NEW fl, NEW low \in {Absent, 0}, NEW run \in Seq(Txs),
           NEW s \in Fit(Rest(run, 0), c, fl, low) \cap Sound(Rest(run, 0)), NEW k \in 0..Len(run)
    PROVE  FoldLeft(Rebuffer, FoldLeft(RecordPublished, s, SubSeq(run, 1, k)),
                    Reverse(SubSeq(run, k + 1, Len(run)))) \in Fit({}, c, fl, low)
<1> DEFINE sent == SubSeq(run, 1, k)
           rest == Reverse(SubSeq(run, k + 1, Len(run)))
<1>1. sent \in Seq(Txs) /\ rest \in Seq(Txs) /\ Rest(run, 0) = Rest(rest, 0) \cup Rest(sent, 0)
  BY FlushParts, Zenon
<1> HIDE DEF sent, rest
<1>2. s \in Fit(Rest(rest, 0) \cup Rest(sent, 0), c, fl, low)
  BY <1>1
<1>3. s \in Sound(Rest(rest, 0) \cup Rest(sent, 0)) /\ s \in Sound(Nonces)
  BY <1>1, AllInHand
<1>4. RecordAll(s, sent) \in Fit(Rest(rest, 0), c, fl, low)
  BY <1>1, <1>2, <1>3, RecordAllFit
<1>5. RecordAll(s, sent) \in Sound(Nonces)
  <2>1. RecordAll(s, sent) \in Sound(Rest(rest, 0))
    BY <1>1, <1>3, RecordAllSound
  <2> QED BY <2>1, AllInHand
<1>6. {} \cup Rest(rest, 0) = Rest(rest, 0)
  OBVIOUS
<1>7. RecordAll(s, sent) \in Fit({} \cup Rest(rest, 0), c, fl, low)
  BY <1>4, <1>6
<1>8. RebufferAll(RecordAll(s, sent), rest) \in Fit({}, c, fl, low)
  BY <1>1, <1>5, <1>7, RebufferAllFit
<1> QED BY <1>8, Zenon DEF RebufferAll, RecordAll, rest, sent

LEMMA FlushFit ==
    ASSUME offers \in Seq(Txs), Len(offers) <= MaxInFlight,
           NEW c \in Nat, NEW fl, NEW low \in {Absent, 0}, NEW run \in Seq(Txs),
           NEW s \in Fit(Rest(run, 0), c, fl, low) \cap Sound(Rest(run, 0)), NEW mishaps,
           Flush(s, run, mishaps)
    PROVE  rep' \in Fit({}, c, fl, low)
<1> DEFINE room == Smaller(Len(run), MaxInFlight - Len(offers))
<1>1. room \in Nat /\ room <= Len(run)
  BY SequencerAssumption DEF Smaller
<1>2. PICK k \in 0..room :
         rep' = FoldLeft(Rebuffer, FoldLeft(RecordPublished, s, SubSeq(run, 1, k)),
                         Reverse(SubSeq(run, k + 1, Len(run))))
  BY Zenon DEF Flush
<1>3. k \in 0..Len(run)
  BY <1>1, <1>2
<1> QED BY <1>2, <1>3, SentFit, Zenon

\* The run leaves the buffer: its nonces are in hand, and the floor is past them.
LEMMA DrainedFit ==
    ASSUME NEW c \in Nat, NEW fl, NEW low \in {Absent, 0}, NEW s \in Fit({}, c, fl, low),
           NEW run \in Seq(Txs), run # <<>>,
           \A i \in 1..Len(run) : run[i].nonce = NextNonce(s) + i - 1
    PROVE  Drained(s, run) \in Fit(Rest(run, 0), c, fl, 0)
<1> DEFINE gone == {run[i].nonce : i \in DOMAIN run}
           e == Emptied(s, gone)
           r == Drained(s, run)
           n == NextNonce(s)
           z == n + Len(run)
<1>1. s \in Replicas /\ s.next \in Level /\ s.floor = fl /\ fl \in Level
  BY DEF Fit, Replicas
<1>2. n \in Nat /\ s.next <= n /\ (s.next # Absent => n = s.next) /\ (s.next = Absent => n = 0)
  BY <1>1 DEF NextNonce, Larger, Level, Absent
<1> HIDE DEF n
<1>3. Len(run) \in Nat \ {0} /\ DOMAIN run = 1..Len(run) /\ z \in Nat
  BY <1>2
<1>4. Last(run).nonce + 1 = z
  <2>1. Len(run) \in 1..Len(run)
    BY <1>3
  <2>2. run[Len(run)].nonce = n + Len(run) - 1
    BY <2>1 DEF n
  <2> QED BY <1>2, <1>3, <2>2 DEF Last
<1>5. gone = Rest(run, 0)
  BY <1>3 DEF Rest
<1>6. \A m \in Nat : n <= m /\ m < z => m \in gone
  <2> SUFFICES ASSUME NEW m \in Nat, n <= m, m < z PROVE m \in gone
    OBVIOUS
  <2>1. m - n + 1 \in 1..Len(run) /\ n + (m - n + 1) - 1 = m
    BY <1>2, <1>3
  <2>2. run[m - n + 1].nonce = m
    BY <2>1 DEF n
  <2> QED BY <1>3, <2>1, <2>2
<1>7. \A m \in gone : m \in Nat /\ n <= m
  <2> SUFFICES ASSUME NEW i \in 1..Len(run) PROVE run[i].nonce \in Nat /\ n <= run[i].nonce
    BY <1>3
  <2>1. run[i].nonce = n + i - 1
    BY DEF n
  <2> QED BY <1>2, <2>1
<1>8. /\ e \in Replicas /\ e.ledger = s.ledger /\ e.floor = s.floor /\ e.stale = s.stale
      /\ e.refused = s.refused
  BY <1>1, EmptiedFields
<1>9. r = [e EXCEPT !.next = z]
  <2> HIDE DEF z
  <2> QED BY <1>4 DEF Drained
<1> HIDE DEF e, r, gone, z
<1>10. /\ r \in Replicas /\ r.next = z /\ r.ledger = s.ledger /\ r.floor = s.floor
       /\ r.stale = s.stale /\ r.refused = s.refused
  BY <1>3, <1>8, <1>9 DEF Replicas, Level
<1>11. Out(r) = Out(s)
  BY <1>10 DEF Out
<1>12. 0 <= r.next /\ r.next # Absent
  BY <1>3, <1>10 DEF Absent
<1>13. ASSUME NEW m \in Nat, c <= m, m < r.next PROVE m \in r.refused \cup Out(r) \cup gone
  <2>1. CASE n <= m
    BY <1>6, <1>10, <1>13, <2>1
  <2>2. CASE ~(n <= m)
    <3>1. m < s.next
      BY <1>1, <1>2, <2>2 DEF Level, Absent
    <3>2. m \in s.refused \cup Out(s) \cup {}
      BY <1>13, <3>1 DEF Fit
    <3> QED BY <1>10, <1>11, <3>2
  <2> QED BY <2>1, <2>2
<1>14. ASSUME r.stale = FALSE
       PROVE  fl <= NextNonce(r) /\ \A m \in Out(r) \cup gone : fl <= m
  <2>1. fl <= n /\ \A m \in Out(s) : fl <= m
    BY <1>10, <1>14 DEF Fit, n
  <2>2. NextNonce(r) = z /\ n <= z
    BY <1>2, <1>3, <1>10 DEF NextNonce, Larger, z
  <2>3. fl <= NextNonce(r)
    BY <1>1, <1>2, <1>3, <2>1, <2>2 DEF Level, Absent
  <2>4. \A m \in gone : fl <= m
    BY <1>1, <1>2, <1>7, <2>1 DEF Level, Absent
  <2> QED BY <1>11, <2>1, <2>3, <2>4
<1>15. r \in Fit(gone, c, fl, 0)
  BY <1>1, <1>10, <1>12, <1>13, <1>14 DEF Fit
<1> QED BY <1>5, <1>15 DEF r

LEMMA StartFit ==
    ASSUME NEW c \in Nat, NEW fl, NEW low \in {Absent, 0}, NEW old \in Fit({}, c, fl, low),
           NEW s \in Replicas, s = [old EXCEPT !.next = NextNonce(old)]
    PROVE  s \in Fit({}, c, fl, 0) /\ s.next \in Nat
<1>1. old \in Replicas /\ old.next \in Level
  BY DEF Fit, Replicas
<1>2. NextNonce(old) \in Nat /\ (old.next # Absent => NextNonce(old) = old.next)
      /\ (old.next = Absent => NextNonce(old) = 0)
  BY <1>1 DEF NextNonce, Larger, Level, Absent
<1>3. /\ s.next = NextNonce(old) /\ s.ledger = old.ledger /\ s.floor = old.floor
      /\ s.stale = old.stale /\ s.refused = old.refused
  BY <1>1 DEF Replicas
<1>4. Out(s) = Out(old) /\ NextNonce(s) = NextNonce(old)
  BY <1>2, <1>3 DEF Out, NextNonce, Larger
<1>5. 0 <= s.next /\ s.next # Absent
  BY <1>2, <1>3 DEF Absent
<1>6. \A m \in Nat : c <= m /\ m < s.next => m \in s.refused \cup Out(s) \cup {}
  <2>1. \A m \in Nat : c <= m /\ m < old.next => m \in old.refused \cup Out(old) \cup {}
    BY DEF Fit
  <2> QED BY <1>2, <1>3, <1>4, <2>1
<1> QED BY <1>2, <1>3, <1>4, <1>5, <1>6 DEF Fit

LEMMA ParkFit ==
    ASSUME NEW c \in Nat, NEW fl, NEW s \in Fit({}, c, fl, 0), NEW t \in Txs
    PROVE  Park(s, t) \in Fit({}, c, fl, 0)
<1> DEFINE held == Parked(s)
           furthest == CHOOSE n \in held : \A m \in held : m <= n
           slot == [tx |-> t, ttl |-> TRUE]
           took == [s EXCEPT !.pending[t.nonce] = slot, !.owed = @ \cup {t.nonce}]
<1>1. s \in Replicas /\ t.nonce \in Nonces /\ slot \in Slot
  BY Inputs DEF Fit
<1>2. took \in Fit({}, c, fl, 0)
  <2> HIDE DEF slot
  <2>1. /\ took \in Replicas /\ took.floor = s.floor /\ took.stale = s.stale
        /\ took.next = s.next /\ took.refused = s.refused /\ took.ledger = s.ledger
    BY <1>1 DEF Replicas
  <2> HIDE DEF took
  <2> QED BY <2>1, FitStays
<1> HIDE DEF slot, took, held, furthest
<1>3. Told(s, t.nonce) \in Fit({}, c, fl, 0)
  BY ToldFit
<1>4. Told(Emptied(took, {furthest}), furthest) \in Fit({}, c, fl, 0)
  BY <1>2, EmptiedFit, ToldFit
<1> QED BY <1>2, <1>3, <1>4, Zenon DEF Park, took, slot, furthest, held

LEMMA IngestFit ==
    ASSUME Wires, pos < Len(ingress), NEW c \in Nat, NEW fl, NEW low \in {Absent, 0},
           NEW old \in Fit({}, c, fl, low) \cap Sound({}), NEW mishaps, Ingest(old, mishaps)
    PROVE  rep' \in Fit({}, c, fl, 0)
<1> DEFINE t == ingress[pos + 1]
           n == t.nonce
           s == [old EXCEPT !.next = NextNonce(old)]
           took == [s EXCEPT !.owed = @ \cup {n}]
           run == <<t>> \o RunFrom(s, n + 1)
           again == [took EXCEPT !.stale = @ \/ n < s.floor]
<1>1. t \in Txs /\ n \in Nonces /\ n \in Nat
  <2>1. t \in Txs
    BY DEF Wires
  <2> QED BY <2>1, Inputs
<1>2. offers \in Seq(Txs) /\ Len(offers) <= MaxInFlight
  BY DEF Wires
<1>3. s \in Sound({}) /\ s.next \in Nat
  BY StartSound
<1>4. s \in Replicas /\ s \in Fit({}, c, fl, 0)
  <2>1. s \in Replicas
    BY <1>3 DEF Sound
  <2> QED BY <2>1, StartFit
<1> HIDE DEF t, s
<1>5. took \in Sound({n}) /\ took.next = s.next /\ took.pending = s.pending
  <2>1. {} \cup {n} = {n}
    OBVIOUS
  <2> HIDE DEF n
  <2> QED BY <1>1, <1>3, <2>1, AcceptSound
<1>6. /\ took \in Replicas /\ took.floor = s.floor /\ took.stale = s.stale /\ took.next = s.next
      /\ took.refused = s.refused /\ took.ledger = s.ledger
  <2> HIDE DEF n
  <2> QED BY <1>1, <1>4 DEF Replicas
<1> HIDE DEF took
<1>7. took \in Fit({}, c, fl, 0)
  BY <1>4, <1>6, FitStays
<1>8. CASE Flush(again, <<t>>, mishaps)
  <2>0. PICK b \in BOOLEAN : b = (took.stale \/ n < s.floor)
    OBVIOUS
  <2>1. again = [took EXCEPT !.stale = b]
    BY <2>0
  <2>2. b = FALSE => took.stale = FALSE /\ ~(n < s.floor)
    <3>1. took.stale \in BOOLEAN
      BY <1>6 DEF Replicas
    <3> QED BY <2>0, <3>1
  <2> HIDE DEF again, n
  <2>3. again \in Sound({n})
    BY <1>5, <2>1, StaleSound
  <2>4. /\ again \in Replicas /\ again.next = took.next /\ again.floor = took.floor
        /\ again.ledger = took.ledger /\ again.refused = took.refused /\ again.stale = b
    BY <1>6, <2>1 DEF Replicas
  <2>5. Out(again) = Out(took) /\ NextNonce(again) = NextNonce(took)
    BY <2>4 DEF Out, NextNonce
  <2>6. fl \in Level /\ s.floor = fl
    BY <1>4 DEF Fit, Replicas
  <2>7. again \in Fit({n}, c, fl, 0)
    <3>1. again.floor = fl /\ 0 <= again.next /\ again.next # Absent
      BY <1>3, <1>6, <2>4, <2>6 DEF Absent
    <3>2. \A m \in Nat : c <= m /\ m < again.next => m \in again.refused \cup Out(again) \cup {n}
      BY <1>7, <2>4, <2>5 DEF Fit
    <3>3. ASSUME again.stale = FALSE
          PROVE  fl <= NextNonce(again) /\ \A m \in Out(again) \cup {n} : fl <= m
      <4>1. fl <= NextNonce(took) /\ \A m \in Out(took) : fl <= m
        BY <1>7, <2>2, <2>4, <3>3 DEF Fit
      <4>2. fl <= n
        BY <1>1, <2>2, <2>4, <2>6, <3>3 DEF Level, Absent
      <4> QED BY <2>5, <4>1, <4>2
    <3> QED BY <2>4, <3>1, <3>2, <3>3 DEF Fit
  <2>8. <<t>> \in Seq(Txs) /\ Rest(<<t>>, 0) = {n}
    BY <1>1 DEF Rest, n
  <2> QED BY <1>2, <1>8, <2>3, <2>7, <2>8, FlushFit
<1>9. CASE rep' = s
  BY <1>4, <1>9
<1>10. CASE rep' = Park(s, t)
  BY <1>1, <1>4, <1>10, ParkFit
<1>11. CASE n = s.next /\ Flush(Drained(took, run), run, mishaps)
  <2>1. /\ run \in Seq(Txs) /\ run # <<>> /\ \A i \in 1..Len(run) : run[i].nonce = n + i - 1
        /\ Drained(took, run) \in Sound(Rest(run, 0))
    BY <1>1, <1>3, <1>5, <1>11, RunAtFloor, Zenon
  <2>2. NextNonce(took) = n
    BY <1>3, <1>5, <1>11 DEF NextNonce, Larger
  <2> HIDE DEF run, n
  <2>3. \A i \in 1..Len(run) : run[i].nonce = NextNonce(took) + i - 1
    BY <2>1, <2>2
  <2>4. Drained(took, run) \in Fit(Rest(run, 0), c, fl, 0)
    BY <1>7, <2>1, <2>3, DrainedFit
  <2> QED BY <1>2, <1>11, <2>1, <2>4, FlushFit
<1> QED BY <1>8, <1>9, <1>10, <1>11, Zenon DEF Ingest, again, run, took, s, n, t

LEMMA FlushOrPollFit ==
    ASSUME Wires, NEW c \in Nat, NEW fl, NEW low \in {Absent, 0},
           NEW s \in Fit({}, c, fl, low) \cap Sound({}), NEW mishaps, FlushOrPoll(s, mishaps)
    PROVE  rep' \in Fit({}, c, fl, 0) \/ (rep' \in Fit({}, c, fl, low) /\ UNCHANGED offers)
<1> DEFINE run == RunFrom(s, NextNonce(s))
<1>1. offers \in Seq(Txs) /\ Len(offers) <= MaxInFlight
  BY DEF Wires
<1>2. s.next \in Level /\ InPlace(s)
  BY DEF Sound, Replicas
<1>3. NextNonce(s) \in Nat /\ \A m \in Parked(s) : NextNonce(s) <= m
  BY <1>2, Inputs DEF NextNonce, Larger, Level, InPlace, Parked, Absent
<1>4. run \in Seq(Txs) /\ \A i \in 1..Len(run) : run[i].nonce = NextNonce(s) + i - 1
  BY <1>3, RunFromIs
<1>5. CASE run # <<>> /\ Flush(Drained(s, run), run, mishaps) /\ UNCHANGED pos
  <2> HIDE DEF run
  <2>1. Drained(s, run) \in Sound({} \cup Rest(run, 0))
    BY <1>3, <1>4, <1>5, DrainedSound
  <2>2. Drained(s, run) \in Sound(Rest(run, 0))
    <3>1. {} \cup Rest(run, 0) = Rest(run, 0)
      OBVIOUS
    <3> QED BY <2>1, <3>1
  <2>3. Drained(s, run) \in Fit(Rest(run, 0), c, fl, 0)
    BY <1>4, <1>5, DrainedFit
  <2> QED BY <1>1, <1>4, <1>5, <2>2, <2>3, FlushFit
<1>6. CASE run = <<>> /\ pos < Len(ingress) /\ Ingest(s, mishaps) /\ pos' = pos + 1
  BY <1>6, IngestFit
<1>7. CASE rep' = s /\ UNCHANGED <<pos, offers>>
  BY <1>7
<1> QED BY <1>5, <1>6, <1>7 DEF FlushOrPoll

\* What the receipts say is true of the chain, the floor fits both, and a replica
\* that knows no floor has nothing under way.
FloorInv ==
    /\ \A i \in 1..Len(receipts) : receipts[i] \in Known(chain)
    /\ rep.floor <= chain
    /\ rep \in Fit({}, chain, rep.floor, Absent)
    /\ rep.next = Absent => offers = <<>> /\ answers = <<>>

LEMMA EvidenceKnown ==
    ASSUME Wires, FloorInv, NEW other \in OtherEvidence
    PROVE  other.drain \in Seq(Known(chain))
<1>1. chain \in Nat /\ read \in 0..Len(receipts) /\ \A i \in 1..Len(receipts) : receipts[i] \in Known(chain)
  BY DEF Wires, FloorInv
<1>2. CASE other = [of |-> "none", drain |-> <<>>]
  <2>1. <<>> \in Seq(Known(chain))
    OBVIOUS
  <2> QED BY <1>2, <2>1
<1>3. ASSUME NEW c \in 1..chain,
             other = [of |-> "lookup", drain |-> <<[nonce |-> c - 1, kind |-> "executed"]>>]
      PROVE  other.drain \in Seq(Known(chain))
  <2>1. c - 1 \in Nat /\ c - 1 < chain
    BY <1>1, <1>3
  <2>2. [nonce |-> c - 1, kind |-> "executed"] \in Known(chain)
    BY <2>1 DEF Known, Receipts
  <2>3. <<[nonce |-> c - 1, kind |-> "executed"]>> \in Seq(Known(chain))
    BY <2>2
  <2> QED BY <1>3, <2>3
<1>4. ASSUME NEW i \in 1..read, other = [of |-> "old", drain |-> <<receipts[i]>>]
      PROVE  other.drain \in Seq(Known(chain))
  <2>1. receipts[i] \in Known(chain)
    BY <1>1, <1>4
  <2>2. <<receipts[i]>> \in Seq(Known(chain))
    BY <2>1
  <2> QED BY <1>4, <2>2
<1> QED BY <1>2, <1>3, <1>4 DEF OtherEvidence

LEMMA RunOnceFit ==
    ASSUME SequencerInv, FloorInv, RunOnce
    PROVE  FloorInv'
<1>1. PICK c \in read..Len(receipts), f \in 0..Len(refusals), a \in 0..Len(answers),
           other \in OtherEvidence :
        /\ read' = c
        /\ refusals' = SubSeq(refusals, f + 1, Len(refusals))
        /\ answers' = SubSeq(answers, a + 1, Len(answers))
        /\ LET proven == ApplyReceiptDrain(rep, other.drain \o SubSeq(receipts, read + 1, c))
               told == RefuseAll(proven, SubSeq(refusals, 1, f))
               healed == ApplySealerAnswers(told, SubSeq(answers, 1, a))
           IN  \E k, gone, mishaps :
                  FlushOrPoll(SweepExpired(SweepConfirmTimeouts(healed, k), gone), mishaps)
  BY PassParts, Zenon
<1> DEFINE proven == ApplyReceiptDrain(rep, other.drain \o SubSeq(receipts, read + 1, c))
           told == RefuseAll(proven, SubSeq(refusals, 1, f))
           healed == ApplySealerAnswers(told, SubSeq(answers, 1, a))
<1>2. answers' = SubSeq(answers, a + 1, Len(answers))
  BY <1>1, Zenon
<1>3. PICK k, gone, mishaps :
         FlushOrPoll(SweepExpired(SweepConfirmTimeouts(healed, k), gone), mishaps)
  BY <1>1, Zenon
<1>4. Wires /\ rep \in Sound({})
  BY DEF SequencerInv
<1>5. /\ receipts \in Seq(Receipts) /\ read \in Nat /\ read <= Len(receipts) /\ chain \in Nat
      /\ refusals \in Seq(Refusals) /\ answers \in Seq(Answers)
  BY <1>4 DEF Wires
<1>6. PICK low \in {Absent, 0} : low = IF rep.next = Absent THEN Absent ELSE 0
  OBVIOUS
<1>7. rep \in Fit({}, chain, rep.floor, low) /\ rep.floor <= chain
  <2>1. rep.next \in Level
    BY <1>4 DEF Sound, Replicas
  <2>2. low <= rep.next
    BY <1>6, <2>1 DEF Level, Absent
  <2> QED BY <2>2 DEF FloorInv, Fit
<1>8. proven \in Sound({}) /\ \E fl : fl <= chain /\ proven \in Fit({}, chain, fl, low)
  <2>1. SubSeq(receipts, read + 1, c) \in Seq(Known(chain))
    <3>1. receipts \in Seq(Known(chain))
      BY <1>5 DEF FloorInv
    <3> QED BY <1>1, <1>5, <3>1
  <2>2. other.drain \in Seq(Known(chain))
    BY <1>4, EvidenceKnown
  <2>3. other.drain \o SubSeq(receipts, read + 1, c) \in Seq(Known(chain))
    BY <2>1, <2>2
  <2>4. SubSeq(receipts, read + 1, c) \in Seq(Receipts)
    BY <1>5
  <2>5. other.drain \in Seq(Receipts)
    BY <1>4, EvidenceType
  <2>6. other.drain \o SubSeq(receipts, read + 1, c) \in Seq(Receipts)
    BY <2>4, <2>5
  <2>7. PICK cs : cs = other.drain \o SubSeq(receipts, read + 1, c)
    OBVIOUS
  <2>8. ApplyReceiptDrain(rep, cs) \in Sound({})
    BY <1>4, <2>6, <2>7, ReceiptsSound
  <2>9. \E fl : fl <= chain /\ ApplyReceiptDrain(rep, cs) \in Fit({}, chain, fl, low)
    BY <1>4, <1>5, <1>7, <2>3, <2>7, ReceiptsFit
  <2> QED BY <2>7, <2>8, <2>9
<1> HIDE DEF proven
<1>9. PICK fl : fl <= chain /\ proven \in Fit({}, chain, fl, low)
  BY <1>8
<1>10. told \in Sound({}) /\ told \in Fit({}, chain, fl, low)
  <2>1. SubSeq(refusals, 1, f) \in Seq(Refusals)
    BY <1>5, Suffix
  <2> QED BY <1>5, <1>8, <1>9, <2>1, RefuseAllSound, RefuseAllFit
<1> HIDE DEF told
<1>11. healed \in Sound({}) /\ healed \in Fit({}, chain, fl, low)
  <2>1. SubSeq(answers, 1, a) \in Seq(Answers)
    BY <1>5, Suffix
  <2>2. SubSeq(answers, 1, a) # <<>> => low = 0
    <3>1. answers = <<>> => SubSeq(answers, 1, a) = <<>>
      BY <1>1, <1>5
    <3>2. answers # <<>> => rep.next # Absent
      BY DEF FloorInv
    <3> QED BY <1>6, <3>1, <3>2
  <2>3. healed \in Sound({})
    BY <1>10, <2>1, AnswersSound
  <2>4. healed \in Fit({}, chain, fl, low)
    BY <1>5, <1>10, <2>1, <2>2, AnswersFit
  <2> QED BY <2>3, <2>4
<1> HIDE DEF healed
<1>12. PICK s \in Fit({}, chain, fl, low) \cap Sound({}) : FlushOrPoll(s, mishaps)
  <2>1. /\ SweepConfirmTimeouts(healed, k) \in Sound({})
        /\ SweepConfirmTimeouts(healed, k) \in Fit({}, chain, fl, low)
    BY <1>5, <1>11, RewindSound, RewindFit DEF SweepConfirmTimeouts
  <2>2. /\ SweepExpired(SweepConfirmTimeouts(healed, k), gone) \in Sound({})
        /\ SweepExpired(SweepConfirmTimeouts(healed, k), gone) \in Fit({}, chain, fl, low)
    BY <1>5, <2>1, ExpirySound, ExpiryFit
  <2> QED BY <1>3, <2>2
<1>13. \/ rep' \in Fit({}, chain, fl, 0)
       \/ rep' \in Fit({}, chain, fl, low) /\ UNCHANGED offers
  BY <1>4, <1>5, <1>12, FlushOrPollFit
<1>14. rep' \in Replicas /\ rep'.next \in Level /\ rep'.floor = fl
  BY <1>13 DEF Fit, Replicas
<1>15. rep' \in Fit({}, chain, fl, Absent)
  BY <1>13, <1>14 DEF Fit, Level, Absent
<1>16. rep'.next = Absent => offers' = <<>> /\ answers' = <<>>
  <2> SUFFICES ASSUME rep'.next = Absent PROVE offers' = <<>> /\ answers' = <<>>
    OBVIOUS
  <2>1. ~(0 <= rep'.next)
    BY DEF Absent
  <2>2. rep' \notin Fit({}, chain, fl, 0)
    BY <2>1 DEF Fit
  <2>3. rep' \in Fit({}, chain, fl, low) /\ UNCHANGED offers
    BY <1>13, <2>2
  <2>4. low # 0
    BY <2>2, <2>3
  <2>5. offers = <<>> /\ answers = <<>>
    BY <1>6, <2>4 DEF FloorInv
  <2>6. SubSeq(answers, a + 1, Len(answers)) = <<>>
    BY <1>1, <1>5, <2>5
  <2> QED BY <1>2, <2>3, <2>5, <2>6
<1>17. UNCHANGED <<receipts, chain>>
  BY DEF RunOnce, executorVars
<1> QED BY <1>9, <1>14, <1>15, <1>16, <1>17 DEF FloorInv

\* The chain moves on: less is left to cover.
LEMMA FitLater ==
    ASSUME NEW c \in Nat, NEW fl, NEW s \in Fit({}, c, fl, Absent)
    PROVE  s \in Fit({}, c + 1, fl, Absent)
<1>1. \A m \in Nat : c + 1 <= m => c <= m
  OBVIOUS
<1> QED BY <1>1 DEF Fit

LEMMA FreshFit == FreshReplica \in Fit({}, FirstNonce, Absent, Absent)
<1> DEFINE r == FreshReplica
<1>1. r \in Replicas
  BY FreshSound DEF Sound
<1>2. r.next = Absent /\ r.floor = Absent /\ r.ledger = <<>>
  BY DEF FreshReplica
<1> HIDE DEF r
<1>3. Out(r) = {}
  BY <1>2 DEF Out
<1>4. NextNonce(r) = 0
  BY <1>2 DEF NextNonce, Larger, Absent
<1>5. r \in Fit({}, FirstNonce, Absent, Absent)
  BY <1>1, <1>2, <1>3, <1>4 DEF Fit, Absent
<1> QED BY <1>5 DEF r

LEMMA FreshFits ==
    ASSUME NEW c \in Nat, rep' = FreshReplica, offers' = <<>>, answers' = <<>>
    PROVE  /\ rep'.floor <= c /\ rep' \in Fit({}, c, rep'.floor, Absent)
           /\ rep'.next = Absent => offers' = <<>> /\ answers' = <<>>
<1>1. FreshReplica.floor = Absent /\ FreshReplica.next = Absent
  BY DEF FreshReplica
<1>2. FreshReplica \in Fit({}, c, Absent, Absent)
  BY <1>1, FreshFit DEF Fit, Absent
<1> QED BY <1>1, <1>2 DEF Absent

LEMMA FloorInit ==
    ASSUME Init
    PROVE  FloorInv
<1>1. FreshReplica.floor = Absent /\ FreshReplica.next = Absent
  BY DEF FreshReplica
<1>2. Absent <= FirstNonce
  BY SequencerAssumption DEF Absent
<1> QED BY <1>1, <1>2, FreshFit DEF Init, FloorInv

LEMMA FloorStep ==
    ASSUME SequencerInv, FloorInv, [Next]_vars
    PROVE  FloorInv'
<1>1. CASE RunOnce
  BY <1>1, RunOnceFit
<1>2. CASE Restart
  <2>1. chain \in Nat /\ UNCHANGED <<receipts, chain>>
    BY <1>2 DEF SequencerInv, Wires, Restart, executorVars
  <2>2. /\ rep'.floor <= chain /\ rep' \in Fit({}, chain, rep'.floor, Absent)
        /\ rep'.next = Absent => offers' = <<>> /\ answers' = <<>>
    BY <1>2, <2>1, FreshFits DEF Restart
  <2> QED BY <2>1, <2>2 DEF FloorInv
<1>3. CASE LoseOffers \/ LoseAnswer \/ LoseReceipt
  <2>1. UNCHANGED <<rep, receipts, chain>>
    BY <1>3 DEF LoseOffers, LoseAnswer, LoseReceipt, executorVars
  <2>2. (offers = <<>> => offers' = <<>>) /\ (answers = <<>> => answers' = <<>>)
    BY <1>3 DEF LoseOffers, LoseAnswer, LoseReceipt, channelVars
  <2> QED BY <2>1, <2>2 DEF FloorInv
<1>4. CASE SealerTakes
  <2>1. offers # <<>> /\ UNCHANGED <<rep, receipts, chain>>
    BY <1>4 DEF SealerTakes, executorVars
  <2> QED BY <2>1 DEF FloorInv
<1>5. CASE TwinOrders \/ PassDeadline \/ Submit
  <2>1. UNCHANGED <<rep, receipts, chain, offers, answers>>
    BY <1>5 DEF TwinOrders, PassDeadline, Submit, channelVars, executorVars
  <2> QED BY <2>1 DEF FloorInv
<1>6. CASE Execute
  <2> DEFINE n == ordered[Len(receipts) + 1].nonce
  <2>1. chain \in Nat /\ receipts \in Seq(Receipts) /\ ordered[Len(receipts) + 1] \in Txs
    BY <1>6 DEF SequencerInv, Wires, Execute
  <2>2. n \in Nat
    BY <2>1, Inputs
  <2>3. /\ \/ /\ n = chain /\ chain' = chain + 1
              /\ receipts' = Append(receipts, [nonce |-> n, kind |-> "executed"])
           \/ /\ n = chain /\ chain' = chain
              /\ receipts' = Append(receipts, [nonce |-> n, kind |-> "skipped"])
           \/ /\ chain' = chain
              /\ receipts' = Append(receipts, [nonce |-> n, kind |-> "high"])
        /\ UNCHANGED <<rep, offers, answers>>
    BY <1>6 DEF Execute, channelVars
  <2> HIDE DEF n
  <2>4. PICK x : receipts' = Append(receipts, x) /\ x \in Known(chain')
    <3>1. /\ chain' = chain + 1 => [nonce |-> chain, kind |-> "executed"] \in Known(chain')
          /\ chain' = chain => /\ [nonce |-> chain, kind |-> "skipped"] \in Known(chain')
                               /\ [nonce |-> n, kind |-> "high"] \in Known(chain')
      BY <2>1, <2>2 DEF Known, Receipts
    <3> QED BY <2>3, <3>1
  <2>5. Known(chain) \subseteq Known(chain')
    BY <2>1, <2>3 DEF Known, Receipts
  <2>6. \A i \in 1..Len(receipts') : receipts'[i] \in Known(chain')
    <3>1. \A i \in 1..Len(receipts) : receipts[i] \in Known(chain')
      BY <2>5 DEF FloorInv
    <3>2. /\ Len(receipts') = Len(receipts) + 1 /\ receipts'[Len(receipts) + 1] = x
          /\ \A i \in 1..Len(receipts) : receipts'[i] = receipts[i]
      BY <2>1, <2>4
    <3>3. Len(receipts) \in Nat
      BY <2>1
    <3> QED BY <2>4, <3>1, <3>2, <3>3
  <2>7. rep \in Fit({}, chain', rep.floor, Absent) /\ rep.floor <= chain'
    <3>1. rep \in Fit({}, chain, rep.floor, Absent) /\ rep.floor <= chain /\ rep.floor \in Level
      BY DEF FloorInv, Fit, Replicas
    <3>2. rep \in Fit({}, chain + 1, rep.floor, Absent)
      BY <2>1, <3>1, FitLater
    <3>3. rep.floor <= chain + 1
      BY <2>1, <3>1 DEF Level, Absent
    <3> QED BY <2>3, <3>1, <3>2, <3>3
  <2>8. rep.next = Absent => offers = <<>> /\ answers = <<>>
    BY DEF FloorInv
  <2> QED BY <2>3, <2>6, <2>7, <2>8 DEF FloorInv
<1>7. CASE UNCHANGED vars
  BY <1>7 DEF FloorInv, vars, channelVars, executorVars
<1> QED BY <1>1, <1>2, <1>3, <1>4, <1>5, <1>6, <1>7 DEF Next

LEMMA FloorHolds == Spec => []FloorInv
<1>1. SequencerInv /\ FloorInv /\ [Next]_vars => FloorInv'
  BY FloorStep
<1> QED BY <1>1, FloorInit, InvariantHolds, PTL DEF Spec

-----------------------------------------------------------------------------
(* The theorems *)

\* The variables keep their types in every reachable state: the channels carry
\* transactions the client submitted, no more references are in flight than the
\* publication takes, and each slot of the pending buffer (PendingBuffer) holds a
\* transaction of its own nonce.
THEOREM TypeCorrect == Spec => []TypeOK
<1>1. SequencerInv => TypeOK
  BY DEF SequencerInv, Wires, Sound, Replicas, Level, InPlace, TypeOK
<1> QED BY <1>1, InvariantHolds, PTL

\* PartitionState::refs_below_floor: whatever receipts, refusals, answers, timeouts
\* and envelopes one pass of run_once reads, and in whatever order they arrive, no
\* transaction is left waiting below the floor of its sender.
THEOREM NothingWaitsBelowFloor == Spec => []NoneBelowFloor
<1>1. SequencerInv => NoneBelowFloor
  <2> SUFFICES ASSUME SequencerInv, NEW n \in Parked(rep)
               PROVE  n >= NextNonce(rep)
    BY DEF NoneBelowFloor
  <2>1. rep.next \in Level /\ rep.next # Absent /\ rep.next <= n
    BY DEF SequencerInv, Sound, Replicas, InPlace
  <2> QED BY <2>1 DEF NextNonce, Larger, Level
<1> QED BY <1>1, InvariantHolds, PTL

\* flush_drained, the rewinds, free_nonce and the refusals: a nonce the replica
\* accepted stays in its pending buffer or its unconfirmed ledger until a receipt
\* settles it or its client is told, through every interleaving of the passes with
\* lost offers, lost answers and pushback.
THEOREM AcceptedIsKept == Spec => []NothingDropped
<1>1. SequencerInv => NothingDropped
  BY DEF SequencerInv, Sound, Kept, NothingDropped
<1> QED BY <1>1, InvariantHolds, PTL

\* mark_refused, release_floor and confirm_through: each nonce from the one that the
\* chain expects up to the floor of the sender is in the unconfirmed ledger, where
\* the sweep reaches it, or is marked, so that a submit of it is taken again.  No
\* order of receipts, refusals, rejects and timeouts leaves a nonce out.
THEOREM FloorIsReachable == Spec => []NotWedged
<1>1. SequencerInv /\ FloorInv => NotWedged
  <2> SUFFICES ASSUME SequencerInv, FloorInv, NEW m \in chain..(rep.next - 1)
               PROVE  m \in rep.refused \/ Published(rep, m)
    BY DEF NotWedged
  <2>1. chain \in Nat /\ rep \in Replicas /\ rep.next \in Level
    BY DEF SequencerInv, Wires, Sound, Replicas
  <2>2. m \in Nat /\ chain <= m /\ m < rep.next
    BY <2>1 DEF Level, Absent
  <2>3. m \in rep.refused \cup Out(rep) \cup {}
    BY <2>2 DEF FloorInv, Fit
  <2> QED BY <2>1, <2>3, OutNonces
<1> QED BY <1>1, InvariantHolds, FloorHolds, PTL

\* fold_answer and apply_one_floor_update: the floor of the sender is never below
\* what the receipts prove, unless the replica offered an executed nonce again: a
\* reject that waited in its channel, a late window-full answer and a sweep all
\* rewind to nonces that no receipt has settled.
THEOREM FloorIsCurrent == Spec => []FloorCurrent
<1>1. SequencerInv /\ FloorInv => FloorCurrent
  <2> SUFFICES ASSUME SequencerInv, FloorInv, ~rep.stale
               PROVE  NextNonce(rep) >= rep.floor
    BY DEF FloorCurrent
  <2>1. rep \in Replicas /\ rep.next \in Level /\ rep.floor \in Level /\ rep.stale \in BOOLEAN
    BY DEF SequencerInv, Sound, Replicas
  <2>2. rep.stale = FALSE
    BY <2>1
  <2>3. rep.floor <= NextNonce(rep)
    BY <2>2 DEF FloorInv, Fit
  <2> QED BY <2>1, <2>3 DEF NextNonce, Larger, Level, Absent
<1> QED BY <1>1, InvariantHolds, FloorHolds, PTL
==============================================================================
