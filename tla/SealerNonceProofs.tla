--------------------------- MODULE SealerNonceProofs ---------------------------
(***************************************************************************)
(* Proofs about the contiguity guard of CanonicalSealer, for every value   *)
(* of its constants: what the nonce map promises about the order of a      *)
(* sender that it has not evicted, with voids at any moment.               *)
(***************************************************************************)
EXTENDS CanonicalSealerProofs

-----------------------------------------------------------------------------
(* What a step does to the nonces *)

Adds(new) == canonical' = canonical \cup {new} /\ new.index = canonicalCount

KeepsNonces == UNCHANGED <<expectedNonce, evicted>>

Nothing == KeepsNonces /\ UNCHANGED <<canonical, window>>

\* A record that no nonce belongs to: an origin record or one of the zero sender.
AddsExempt ==
    /\ KeepsNonces /\ UNCHANGED window
    /\ \E new : /\ Adds(new) /\ new.kind # "void"
                /\ new.kind = "tx" => new.item.sender \notin Senders

\* A transaction passes the guard, and the map may push another sender out.
AddsTx(tx) ==
    /\ tx.sender \in Senders
    /\ expectedNonce[tx.sender] \in {Absent, tx.nonce}
    /\ expectedNonce'[tx.sender] = tx.nonce + 1
    /\ \A s \in Senders : \/ s = tx.sender
                          \/ expectedNonce'[s] = expectedNonce[s]
                          \/ s \in evicted'
    /\ evicted \subseteq evicted'
    /\ \A e \in window' : e \in window \/ (e.index = canonicalCount /\ e.tx = tx)
    /\ \E new : Adds(new) /\ new.kind = "tx" /\ new.item = tx

\* A void removes the transaction of a window entry and opens its nonce again.
AddsVoid(e) ==
    /\ e \in window /\ window' \subseteq window
    /\ UNCHANGED evicted
    /\ \A s \in Senders :
          expectedNonce'[s] = IF s = e.tx.sender /\ expectedNonce[s] # Absent
                              THEN Lesser(expectedNonce[s], e.tx.nonce)
                              ELSE expectedNonce[s]
    /\ \E new : Adds(new) /\ new.kind = "void" /\ new.item = e

LEMMA RelayAdds ==
    ASSUME NEW n, NEW kind, NEW item, NEW deadline, Relay(kind, item, n, deadline)
    PROVE  \E new : Adds(new) /\ new.kind = kind /\ new.item = item
<1> DEFINE new == [kind |-> kind, index |-> canonicalCount, slots |-> n,
                   block |-> blockNumber', item |-> item, deadline |-> deadline]
<1>1. canonical' = canonical \cup {new}
  BY DEF Relay
<1>2. new.index = canonicalCount /\ new.kind = kind /\ new.item = item
  OBVIOUS
<1> HIDE DEF new
<1> QED BY <1>1, <1>2 DEF Adds

\* A write gives the sender its nonce and takes at most the eldest one out.
LEMMA PutNonceStep ==
    ASSUME TypeOK, NEW s \in Senders, NEW n \in Nat, PutNonce(s, n)
    PROVE  /\ expectedNonce'[s] = n
           /\ \A r \in Senders : \/ r = s
                                 \/ expectedNonce'[r] = expectedNonce[r]
                                 \/ r \in evicted'
           /\ evicted \subseteq evicted'
<1>1. expectedNonce \in [Senders -> Nat \cup {Absent}]
  BY DEF TypeOK, MapOK
<1> QED BY <1>1 DEF PutNonce

LEMMA RecordNonces ==
    ASSUME TypeOK, NEW tx \in Txs, NEW d, RelayRecord(tx, d)
    PROVE  AddsExempt \/ AddsTx(tx)
<1>1. tx.sender \in Senders \cup {ZeroSender} /\ tx.nonce \in Nat /\ ZeroSender \notin Senders
  BY InputAssumption DEF TxRecord
<1>2. \E new : Adds(new) /\ new.kind = "tx" /\ new.item = tx
  BY RelayAdds DEF RelayRecord
<1>3. CASE tx.sender = ZeroSender
  BY <1>1, <1>2, <1>3 DEF RelayRecord, AddsExempt, KeepsNonces, nonceVars, voidVars
<1>4. CASE tx.sender # ZeroSender
  <2>1. tx.sender \in Senders
    BY <1>1, <1>4
  <2>2. expectedNonce[tx.sender] \in {Absent, tx.nonce}
    BY <1>4 DEF RelayRecord, RecordVerdict, NotNextNonce
  <2>3. PutNonce(tx.sender, tx.nonce + 1) /\ tx.nonce + 1 \in Nat
    BY <1>1, <1>4 DEF RelayRecord
  <2>4. \A e \in window' : e \in window \/ (e.index = canonicalCount /\ e.tx = tx)
    BY <1>4 DEF RelayRecord, WithReference
  <2> QED BY <1>2, <2>1, <2>2, <2>3, <2>4, PutNonceStep DEF AddsTx
<1> QED BY <1>3, <1>4

LEMMA VoidNonces ==
    ASSUME TypeOK, NEW i, NEW id, NEW e \in NamedBy(i, id), AppendVoid(e),
           window' = window \ NamedBy(i, id)
    PROVE  AddsVoid(e)
<1>1. e \in window
  BY DEF NamedBy
<1>2. \E new : Adds(new) /\ new.kind = "void" /\ new.item = e
  BY RelayAdds DEF AppendVoid
<1>3. expectedNonce \in [Senders -> Nat \cup {Absent}]
  BY DEF TypeOK, MapOK
<1>4. UNCHANGED evicted
  BY DEF AppendVoid, nonceVars
<1>5. \A s \in Senders :
          expectedNonce'[s] = IF s = e.tx.sender /\ expectedNonce[s] # Absent
                              THEN Lesser(expectedNonce[s], e.tx.nonce)
                              ELSE expectedNonce[s]
  <2>1. CASE e.tx.sender \in Senders /\ expectedNonce[e.tx.sender] # Absent
    BY <1>3, <2>1 DEF AppendVoid, ReopenedNonce
  <2>2. CASE ~(e.tx.sender \in Senders /\ expectedNonce[e.tx.sender] # Absent)
    BY <2>2 DEF AppendVoid, nonceVars
  <2> QED BY <2>1, <2>2
<1> QED BY <1>1, <1>2, <1>4, <1>5 DEF AddsVoid

LEMMA NonceStep ==
    ASSUME TypeOK, [Next]_vars
    PROVE  \/ Nothing
           \/ AddsExempt
           \/ \E tx \in Txs : AddsTx(tx)
           \/ \E e : AddsVoid(e)
<1>1. ASSUME NEW tx \in Txs, NEW d, OnRecord(tx, d) PROVE Nothing \/ AddsExempt \/ AddsTx(tx)
  <2>1. CASE RefuseRecord(tx, d)
    BY <2>1 DEF RefuseRecord, Nothing, KeepsNonces, orderVars, voidVars
  <2> QED BY <1>1, <2>1, RecordNonces DEF OnRecord
<1>2. ASSUME NEW ms \in Clocks, OnTick(ms) PROVE Nothing
  BY <1>2 DEF OnTick, Nothing, KeepsNonces, nonceVars, voidVars, orderVars
<1>3. ASSUME NEW kind \in {"epoch", "batch"}, NEW item, NEW n, Relay(kind, item, n, Absent),
             UNCHANGED <<nonceVars, voidVars>>
      PROVE  AddsExempt
  <2>1. \E new : Adds(new) /\ new.kind = kind
    BY <1>3, RelayAdds
  <2> QED BY <1>3, <2>1 DEF AddsExempt, KeepsNonces, nonceVars, voidVars
<1>4. ASSUME NEW epoch \in Epochs, NEW ms \in Clocks, OnOriginRecord(epoch, ms)
      PROVE  Nothing \/ AddsExempt
  BY <1>3, <1>4 DEF OnOriginRecord, Nothing, KeepsNonces, vars, nonceVars, voidVars, orderVars
<1>5. ASSUME NEW batch \in Batches, NEW ms \in Clocks, OnRemoteOriginRecord(batch, ms)
      PROVE  Nothing \/ AddsExempt
  BY <1>3, <1>5 DEF OnRemoteOriginRecord, Nothing, KeepsNonces, vars, nonceVars, voidVars,
                    orderVars
<1>6. ASSUME \/ \E head \in Posted : OnPostedCursor(head)
             \/ \E c \in Recorded : OnRecordedCursor(c[1], c[2])
             \/ UNCHANGED vars
      PROVE  Nothing
  BY <1>6 DEF OnPostedCursor, OnRecordedCursor, Nothing, KeepsNonces, vars, nonceVars, voidVars,
              orderVars
<1>7. ASSUME NEW v, NEW i, NEW id, OnVoidRequest(v, i, id) PROVE Nothing \/ \E e : AddsVoid(e)
  <2>1. CASE UNCHANGED <<window, dedup, nonceVars, clockVars, orderVars>>
    BY <2>1 DEF Nothing, KeepsNonces, nonceVars, orderVars
  <2>2. CASE VoteVerdict(v, i, id) = "DECIDED"
    BY <1>7, <2>2, VoidNonces DEF OnVoidRequest, Taken
  <2> QED BY <1>7, <2>1, <2>2 DEF OnVoidRequest
<1> QED BY <1>1, <1>2, <1>4, <1>5, <1>6, <1>7 DEF Next, Offer

-----------------------------------------------------------------------------
(* The inductive invariant *)

TxOf(r, s) == r.kind = "tx" /\ r.item.sender = s

\* Every window entry stands for a transaction of the order.
Refs ==
    \A e \in window : \E r \in canonical : r.kind = "tx" /\ r.index = e.index /\ r.item = e.tx

\* The map knows each sender with a record, and expects at most the nonce
\* after one of its records.
Known ==
    \A s \in Senders \ evicted :
        \A r \in canonical : TxOf(r, s) => expectedNonce[s] # Absent

Reached ==
    \A s \in Senders \ evicted :
        expectedNonce[s] # Absent =>
            \E q \in canonical : TxOf(q, s) /\ expectedNonce[s] <= q.item.nonce + 1

\* The map is past each nonce of the order, or a later void came back to it.
Passed ==
    \A s \in Senders \ evicted :
        \A q \in canonical :
            TxOf(q, s) =>
                \/ expectedNonce[s] > q.item.nonce
                \/ \E v \in canonical : /\ v.kind = "void" /\ v.index > q.index
                                        /\ v.item.tx.sender = s
                                        /\ v.item.tx.nonce <= q.item.nonce

NonceInv ==
    /\ Refs /\ Known /\ Reached /\ Passed
    /\ NoNonceGap /\ NonceFillable /\ OneLivePerNonce

\* A record is at its index alone.
LEMMA IndexUnique ==
    ASSUME TypeOK, OrderInv, NEW q \in canonical, NEW r \in canonical, q.index = r.index
    PROVE  q = r
<1>1. /\ q.index \in Nat /\ q.slots \in Nat \ {0}
      /\ r.index \in Nat /\ r.slots \in Nat \ {0}
  BY RecordNumbers
<1> QED BY <1>1 DEF OrderInv, SlotsDense

LEMMA IndexBelow ==
    ASSUME TypeOK, OrderInv, NEW r \in canonical
    PROVE  r.index \in Nat /\ r.index < canonicalCount
<1>1. r.index \in Nat /\ r.slots \in Nat \ {0}
  BY RecordNumbers
<1> QED BY <1>1 DEF OrderInv, TypeOK

LEMMA TxNumbers ==
    ASSUME TypeOK, NEW r \in canonical, r.kind = "tx"
    PROVE  r.item \in Txs /\ r.item.nonce \in Nat
<1>1. r.item \in Txs
  BY DEF TypeOK, Relayed
<1> QED BY <1>1, InputAssumption DEF TxRecord

LEMMA NonceValues ==
    ASSUME TypeOK
    PROVE  /\ \A s \in Senders : expectedNonce[s] \in Nat \cup {Absent}
           /\ \A tx \in Txs : tx.nonce \in Nat
           /\ canonicalCount \in Nat
<1>1. \A tx \in Txs : tx.nonce \in Nat
  BY InputAssumption DEF TxRecord
<1> QED BY <1>1 DEF TypeOK, MapOK

\* A step that leaves the map alone and adds at most an exempt record.
LEMMA QuietKeepsNonces ==
    ASSUME TypeOK, OrderInv, NonceInv, Nothing \/ AddsExempt
    PROVE  NonceInv'
<1>1. KeepsNonces /\ window' = window /\ canonical \subseteq canonical'
  BY DEF Nothing, AddsExempt, Adds
<1>2. \A r \in canonical' :
         \/ r \in canonical
         \/ r.kind # "void" /\ r.index = canonicalCount /\ \A s \in Senders : ~TxOf(r, s)
  BY DEF Nothing, AddsExempt, Adds, TxOf
<1>3. \A r \in canonical' : r.kind = "void" => r \in canonical
  BY <1>2
<1>4. \A r \in canonical', s \in Senders : TxOf(r, s) => r \in canonical
  BY <1>2
<1>5. \A r \in canonical : Live(r) => Live(r)'
  BY <1>3 DEF Live
<1>6. \A r \in canonical' : Live(r)' => r.kind = "tx" /\ (r \in canonical => Live(r))
  BY <1>1 DEF Live
<1>7. Refs'
  BY <1>1 DEF NonceInv, Refs
<1>8. Known' /\ Reached'
  BY <1>1, <1>4 DEF NonceInv, Known, Reached, KeepsNonces
<1>9. Passed'
  BY <1>1, <1>4 DEF NonceInv, Passed, KeepsNonces
<1>10. NoNonceGap'
  <2> SUFFICES ASSUME NEW r \in canonical', r.kind = "tx", r.item.sender \in Senders \ evicted',
                      NEW q \in canonical', TxOf(q, r.item.sender), q.index < r.index
               PROVE  \E p \in canonical' : /\ p.kind = "tx" /\ p.index < r.index
                                            /\ p.item.sender = r.item.sender
                                            /\ r.item.nonce <= p.item.nonce + 1
    BY DEF NoNonceGap, TxOf
  <2>1. r \in canonical /\ q \in canonical /\ r.item.sender \notin evicted
    BY <1>1, <1>4 DEF TxOf, KeepsNonces
  <2> QED BY <1>1, <2>1 DEF NonceInv, NoNonceGap, TxOf
<1>11. NonceFillable'
  <2> SUFFICES ASSUME NEW s \in Senders \ evicted', NEW r \in canonical', TxOf(r, s),
                      NEW n \in r.item.nonce..(expectedNonce'[s] - 1)
               PROVE  \E q \in canonical' : Live(q)' /\ q.item.sender = s /\ q.item.nonce = n
    BY DEF NonceFillable, TxOf
  <2>1. r \in canonical /\ s \in Senders \ evicted /\ expectedNonce' = expectedNonce
    BY <1>1, <1>4 DEF KeepsNonces
  <2>2. PICK q \in canonical : Live(q) /\ q.item.sender = s /\ q.item.nonce = n
    BY <2>1 DEF NonceInv, NonceFillable, TxOf
  <2> QED BY <1>1, <1>5, <2>2
<1>12. OneLivePerNonce'
  <2> SUFFICES ASSUME NEW q \in canonical', NEW r \in canonical', Live(q)', Live(r)',
                      q.index < r.index, q.item.sender = r.item.sender,
                      q.item.sender \in Senders \ evicted', q.item.nonce = r.item.nonce
               PROVE  \E v \in canonical' : /\ v.kind = "void" /\ q.index < v.index
                                            /\ v.index < r.index
                                            /\ v.item.tx.sender = q.item.sender
                                            /\ v.item.tx.nonce <= q.item.nonce
    BY DEF OneLivePerNonce
  <2>1. q \in canonical /\ r \in canonical /\ Live(q) /\ Live(r) /\ q.item.sender \notin evicted
    BY <1>1, <1>4, <1>6 DEF TxOf, KeepsNonces
  <2> QED BY <1>1, <2>1 DEF NonceInv, OneLivePerNonce
<1> QED BY <1>7, <1>8, <1>9, <1>10, <1>11, <1>12 DEF NonceInv

\* A transaction that the guard lets in continues its sender's nonces.
LEMMA TxKeepsNonces ==
    ASSUME TypeOK, OrderInv, LedgerInv, NonceInv, NEW tx \in Txs, AddsTx(tx)
    PROVE  NonceInv'
<1>1. PICK new : Adds(new) /\ new.kind = "tx" /\ new.item = tx
  BY DEF AddsTx
<1>2. /\ canonical' = canonical \cup {new} /\ new.index = canonicalCount
      /\ new.kind = "tx" /\ new.item = tx
  BY <1>1 DEF Adds
<1>3. /\ tx.sender \in Senders /\ expectedNonce[tx.sender] \in {Absent, tx.nonce}
      /\ expectedNonce'[tx.sender] = tx.nonce + 1 /\ tx.nonce \in Nat
      /\ canonicalCount \in Nat
  BY NonceValues DEF AddsTx
<1>4. \A s \in Senders \ evicted' :
         s \in Senders \ evicted /\ (s # tx.sender => expectedNonce'[s] = expectedNonce[s])
  BY DEF AddsTx
<1>5. \A r \in canonical : r.index \in Nat /\ r.index < canonicalCount
  BY IndexBelow
<1>6. \A r \in canonical : r.kind = "tx" => r.item.nonce \in Nat
  BY TxNumbers
\* No void names an index that is not given yet.
<1>7. \A r \in canonical' : Live(r)' <=> (r = new \/ Live(r))
  <2>1. \A v \in canonical : v.kind = "void" => v.item.index \in Nat /\ v.item.index < canonicalCount
    BY VoidNumbers DEF LedgerInv
  <2>2. \A v \in canonical' : v.kind = "void" <=> v \in canonical /\ v.kind = "void"
    BY <1>2
  <2>3. ASSUME NEW r \in canonical' PROVE Live(r)' <=> Live(r)
    BY <1>2, <2>2 DEF Live
  <2>4. Live(new)
    BY <1>2, <1>3, <2>1 DEF Live
  <2> QED BY <2>3, <2>4
<1> HIDE DEF Live
\* A sender with a record that is not evicted offers the nonce the map expects.
<1>8. ASSUME NEW q \in canonical, TxOf(q, tx.sender), tx.sender \notin evicted
      PROVE  expectedNonce[tx.sender] = tx.nonce
  BY <1>3, <1>8 DEF NonceInv, Known
<1>9. Refs'
  <2> SUFFICES ASSUME NEW e \in window'
               PROVE  \E r \in canonical' : r.kind = "tx" /\ r.index = e.index /\ r.item = e.tx
    BY DEF Refs
  <2>1. CASE e \in window
    BY <1>2, <2>1 DEF NonceInv, Refs
  <2>2. CASE e.index = canonicalCount /\ e.tx = tx
    BY <1>2, <2>2
  <2> QED BY <2>1, <2>2 DEF AddsTx
<1>10. Known'
  <2> SUFFICES ASSUME NEW s \in Senders \ evicted', NEW r \in canonical', TxOf(r, s)
               PROVE  expectedNonce'[s] # Absent
    BY DEF Known
  <2>1. CASE s = tx.sender
    BY <1>3, <2>1 DEF Absent
  <2>2. CASE s # tx.sender
    BY <1>2, <1>4, <2>2 DEF TxOf, NonceInv, Known
  <2> QED BY <2>1, <2>2
<1>11. Reached'
  <2> SUFFICES ASSUME NEW s \in Senders \ evicted', expectedNonce'[s] # Absent
               PROVE  \E q \in canonical' : TxOf(q, s) /\ expectedNonce'[s] <= q.item.nonce + 1
    BY DEF Reached
  <2>1. CASE s = tx.sender
    BY <1>2, <1>3, <2>1 DEF TxOf
  <2>2. CASE s # tx.sender
    BY <1>2, <1>4, <2>2 DEF NonceInv, Reached
  <2> QED BY <2>1, <2>2
<1>12. Passed'
  <2> SUFFICES ASSUME NEW s \in Senders \ evicted', NEW q \in canonical', TxOf(q, s)
               PROVE  \/ expectedNonce'[s] > q.item.nonce
                      \/ \E v \in canonical' : /\ v.kind = "void" /\ v.index > q.index
                                               /\ v.item.tx.sender = s
                                               /\ v.item.tx.nonce <= q.item.nonce
    BY DEF Passed
  <2>1. CASE q = new
    BY <1>2, <1>3, <2>1 DEF TxOf
  <2>2. CASE q \in canonical /\ s # tx.sender
    BY <1>2, <1>4, <2>2 DEF NonceInv, Passed
  <2>3. CASE q \in canonical /\ s = tx.sender
    <3>1. expectedNonce[s] = tx.nonce
      BY <1>4, <1>8, <2>3
    <3>2. CASE expectedNonce[s] > q.item.nonce
      <4>1. q.item.nonce \in Nat
        BY <1>6, <2>3 DEF TxOf
      <4> QED BY <1>3, <2>3, <3>1, <3>2, <4>1
    <3>3. CASE ~(expectedNonce[s] > q.item.nonce)
      BY <1>2, <1>4, <2>3, <3>3 DEF NonceInv, Passed
    <3> QED BY <3>2, <3>3
  <2> QED BY <1>2, <2>1, <2>2, <2>3
<1>13. NoNonceGap'
  <2> SUFFICES ASSUME NEW r \in canonical', r.kind = "tx", r.item.sender \in Senders \ evicted',
                      NEW q \in canonical', TxOf(q, r.item.sender), q.index < r.index
               PROVE  \E p \in canonical' : /\ p.kind = "tx" /\ p.index < r.index
                                            /\ p.item.sender = r.item.sender
                                            /\ r.item.nonce <= p.item.nonce + 1
    BY DEF NoNonceGap, TxOf
  <2>1. CASE r = new
    <3>1. q \in canonical
      BY <1>2, <1>3, <2>1
    <3>2. expectedNonce[tx.sender] = tx.nonce /\ tx.sender \in Senders \ evicted
      BY <1>2, <1>4, <1>8, <2>1, <3>1
    <3>3. PICK p \in canonical : TxOf(p, tx.sender) /\ tx.nonce <= p.item.nonce + 1
      <4>1. tx.nonce # Absent
        BY <1>3 DEF Absent
      <4> QED BY <3>2, <4>1 DEF NonceInv, Reached
    <3> QED BY <1>2, <1>5, <2>1, <3>3 DEF TxOf
  <2>2. CASE r \in canonical
    <3>1. q \in canonical
      BY <1>2, <1>3, <1>5, <2>2
    <3> QED BY <1>2, <1>4, <2>2, <3>1 DEF NonceInv, NoNonceGap, TxOf
  <2> QED BY <1>2, <2>1, <2>2
<1>14. NonceFillable'
  <2> SUFFICES ASSUME NEW s \in Senders \ evicted', NEW r \in canonical', TxOf(r, s),
                      NEW n \in r.item.nonce..(expectedNonce'[s] - 1)
               PROVE  \E q \in canonical' : Live(q)' /\ q.item.sender = s /\ q.item.nonce = n
    BY DEF NonceFillable, TxOf
  <2>1. CASE s = tx.sender /\ n = tx.nonce
    BY <1>2, <1>7, <2>1
  <2>2. CASE r \in canonical /\ ~(s = tx.sender /\ n = tx.nonce)
    <3>1. n \in r.item.nonce..(expectedNonce[s] - 1)
      <4>1. r.item.nonce \in Nat
        BY <1>6, <2>2 DEF TxOf
      <4>2. CASE s = tx.sender
        <5>1. expectedNonce[s] = tx.nonce
          BY <1>4, <1>8, <2>2, <4>2
        <5>2. expectedNonce'[s] = tx.nonce + 1
          BY <1>3, <4>2
        <5> QED BY <1>3, <2>2, <4>1, <4>2, <5>1, <5>2
      <4>3. CASE s # tx.sender
        BY <1>4, <4>3
      <4> QED BY <4>2, <4>3
    <3>2. PICK q \in canonical : Live(q) /\ q.item.sender = s /\ q.item.nonce = n
      BY <1>4, <2>2, <3>1 DEF NonceInv, NonceFillable, TxOf
    <3> QED BY <1>2, <1>7, <3>2
  <2>3. CASE r = new /\ ~(s = tx.sender /\ n = tx.nonce)
    BY <1>2, <1>3, <2>3 DEF TxOf
  <2> QED BY <1>2, <2>1, <2>2, <2>3
<1>15. OneLivePerNonce'
  <2> SUFFICES ASSUME NEW q \in canonical', NEW r \in canonical', Live(q)', Live(r)',
                      q.index < r.index, q.item.sender = r.item.sender,
                      q.item.sender \in Senders \ evicted', q.item.nonce = r.item.nonce
               PROVE  \E v \in canonical' : /\ v.kind = "void" /\ q.index < v.index
                                            /\ v.index < r.index
                                            /\ v.item.tx.sender = q.item.sender
                                            /\ v.item.tx.nonce <= q.item.nonce
    BY DEF OneLivePerNonce
  <2>1. q \in canonical
    BY <1>2, <1>3, <1>5
  <2>2. Live(q) /\ q.item.sender \in Senders \ evicted
    BY <1>3, <1>4, <1>5, <1>7, <1>2, <2>1
  <2>3. CASE r = new
    <3>1. TxOf(q, tx.sender)
      BY <1>2, <2>2, <2>3 DEF TxOf, Live
    <3>2. expectedNonce[tx.sender] = tx.nonce
      BY <1>2, <1>8, <2>1, <2>2, <2>3, <3>1
    <3>3. ~(expectedNonce[tx.sender] > q.item.nonce)
      BY <1>2, <1>3, <2>3, <3>2
    <3>4. PICK v \in canonical : /\ v.kind = "void" /\ v.index > q.index
                                 /\ v.item.tx.sender = tx.sender
                                 /\ v.item.tx.nonce <= q.item.nonce
      BY <1>2, <2>1, <2>2, <2>3, <3>1, <3>3 DEF NonceInv, Passed
    <3> QED BY <1>2, <1>5, <2>1, <2>3, <3>4
  <2>4. CASE r # new
    BY <1>2, <1>7, <2>1, <2>2, <2>4 DEF NonceInv, OneLivePerNonce
  <2> QED BY <2>3, <2>4
<1> QED BY <1>9, <1>10, <1>11, <1>12, <1>13, <1>14, <1>15 DEF NonceInv

\* A void removes one record and opens its nonce; every nonce below stays filled.
LEMMA VoidKeepsNonces ==
    ASSUME TypeOK, OrderInv, NonceInv, NEW e, AddsVoid(e)
    PROVE  NonceInv'
<1>1. PICK new : Adds(new) /\ new.kind = "void" /\ new.item = e
  BY DEF AddsVoid
<1>2. /\ canonical' = canonical \cup {new} /\ new.index = canonicalCount
      /\ new.kind = "void" /\ new.item = e
  BY <1>1 DEF Adds
<1>3. /\ e \in window /\ window' \subseteq window /\ evicted' = evicted
      /\ canonicalCount \in Nat /\ e.tx.nonce \in Nat
  <2>1. e.tx \in Txs
    BY DEF TypeOK, WindowEntry, AddsVoid
  <2> QED BY <2>1, NonceValues DEF AddsVoid
<1>4. \A s \in Senders :
         /\ expectedNonce[s] \in Nat \cup {Absent}
         /\ expectedNonce'[s] = IF s = e.tx.sender /\ expectedNonce[s] # Absent
                                THEN Lesser(expectedNonce[s], e.tx.nonce)
                                ELSE expectedNonce[s]
  BY NonceValues DEF AddsVoid
<1>5. \A s \in Senders : /\ expectedNonce'[s] <= expectedNonce[s]
                         /\ expectedNonce'[s] = Absent <=> expectedNonce[s] = Absent
                         /\ \/ expectedNonce'[s] = expectedNonce[s]
                            \/ s = e.tx.sender /\ expectedNonce'[s] = e.tx.nonce
                         /\ expectedNonce'[s] \in Int
  BY <1>3, <1>4 DEF Lesser, Absent
<1>6. \A r \in canonical : r.index \in Nat /\ r.index < canonicalCount
  BY IndexBelow
<1>7. \A r \in canonical : r.kind = "tx" => r.item.nonce \in Nat
  BY TxNumbers
<1>8. PICK gone \in canonical : gone.kind = "tx" /\ gone.index = e.index /\ gone.item = e.tx
  BY <1>3 DEF NonceInv, Refs
<1>9. \A r \in canonical : Live(r) /\ r # gone => Live(r)'
  <2> SUFFICES ASSUME NEW r \in canonical, Live(r), r # gone, NEW v \in canonical',
                      v.kind = "void"
               PROVE  v.item.index # r.index
    BY DEF Live
  <2>1. CASE v \in canonical
    BY <2>1 DEF Live
  <2>2. CASE v = new
    BY <1>2, <1>8, <2>2, IndexUnique
  <2> QED BY <1>2, <2>1, <2>2
<1>10. \A r \in canonical' : Live(r)' => r \in canonical /\ Live(r)
  BY <1>2 DEF Live
<1>11. \A s : \A r \in canonical' : TxOf(r, s) => r \in canonical
  BY <1>2 DEF TxOf
<1> HIDE DEF Live
<1>12. Refs'
  BY <1>2, <1>3 DEF NonceInv, Refs
<1>13. Known'
  BY <1>3, <1>5, <1>11 DEF NonceInv, Known
<1>14. Reached'
  <2> SUFFICES ASSUME NEW s \in Senders \ evicted, expectedNonce'[s] # Absent
               PROVE  \E q \in canonical' : TxOf(q, s) /\ expectedNonce'[s] <= q.item.nonce + 1
    BY <1>3 DEF Reached
  <2>1. expectedNonce[s] # Absent
    BY <1>5
  <2>2. PICK q \in canonical : TxOf(q, s) /\ expectedNonce[s] <= q.item.nonce + 1
    BY <2>1 DEF NonceInv, Reached
  <2>3. q.item.nonce \in Nat
    BY <1>7, <2>2 DEF TxOf
  <2>4. expectedNonce'[s] <= q.item.nonce + 1
    BY <1>4, <1>5, <2>1, <2>2, <2>3
  <2> QED BY <1>2, <2>2, <2>4
<1>15. Passed'
  <2> SUFFICES ASSUME NEW s \in Senders \ evicted, NEW q \in canonical, TxOf(q, s)
               PROVE  \/ expectedNonce'[s] > q.item.nonce
                      \/ \E v \in canonical' : /\ v.kind = "void" /\ v.index > q.index
                                               /\ v.item.tx.sender = s
                                               /\ v.item.tx.nonce <= q.item.nonce
    BY <1>3, <1>11 DEF Passed
  <2>1. CASE expectedNonce'[s] = expectedNonce[s]
    BY <1>2, <2>1 DEF NonceInv, Passed
  <2>2. CASE s = e.tx.sender /\ expectedNonce'[s] = e.tx.nonce
    <3>1. q.item.nonce \in Nat /\ canonicalCount > q.index
      BY <1>3, <1>6, <1>7 DEF TxOf
    <3>2. CASE e.tx.nonce > q.item.nonce
      BY <2>2, <3>2
    <3>3. CASE e.tx.nonce <= q.item.nonce
      <4>1. /\ new \in canonical' /\ new.kind = "void" /\ new.index > q.index
            /\ new.item.tx.sender = s /\ new.item.tx.nonce <= q.item.nonce
        BY <1>2, <2>2, <3>1, <3>3
      <4> QED BY <4>1
    <3> QED BY <1>3, <3>1, <3>2, <3>3
  <2> QED BY <1>5, <2>1, <2>2
<1>16. NoNonceGap'
  <2> SUFFICES ASSUME NEW r \in canonical', r.kind = "tx", r.item.sender \in Senders \ evicted,
                      NEW q \in canonical', TxOf(q, r.item.sender), q.index < r.index
               PROVE  \E p \in canonical' : /\ p.kind = "tx" /\ p.index < r.index
                                            /\ p.item.sender = r.item.sender
                                            /\ r.item.nonce <= p.item.nonce + 1
    BY <1>3 DEF NoNonceGap, TxOf
  <2>1. r \in canonical /\ q \in canonical
    BY <1>2, <1>11
  <2> QED BY <1>2, <2>1 DEF NonceInv, NoNonceGap, TxOf
<1>17. NonceFillable'
  <2> SUFFICES ASSUME NEW s \in Senders \ evicted, NEW r \in canonical, TxOf(r, s),
                      NEW n \in r.item.nonce..(expectedNonce'[s] - 1)
               PROVE  \E q \in canonical' : Live(q)' /\ q.item.sender = s /\ q.item.nonce = n
    BY <1>3, <1>11 DEF NonceFillable, TxOf
  <2>1. r.item.nonce \in Nat
    BY <1>7 DEF TxOf
  <2>2. n \in r.item.nonce..(expectedNonce[s] - 1)
    BY <1>4, <1>5, <2>1 DEF Absent
  <2>3. PICK q \in canonical : Live(q) /\ q.item.sender = s /\ q.item.nonce = n
    BY <2>2 DEF NonceInv, NonceFillable, TxOf
  <2>4. q # gone
    <3> SUFFICES ASSUME s = e.tx.sender PROVE n # e.tx.nonce
      BY <1>8, <2>3
    <3>1. expectedNonce'[s] <= e.tx.nonce
      BY <1>3, <1>4 DEF Lesser, Absent
    <3> QED BY <1>3, <1>5, <2>1, <3>1
  <2> QED BY <1>2, <1>9, <2>3, <2>4
<1>18. OneLivePerNonce'
  BY <1>2, <1>3, <1>10 DEF NonceInv, OneLivePerNonce
<1> QED BY <1>12, <1>13, <1>14, <1>15, <1>16, <1>17, <1>18 DEF NonceInv

-----------------------------------------------------------------------------
(* The theorems *)

LEMMA NonceInvariant == Spec => []NonceInv
<1>1. Init => LedgerInv /\ NonceInv
  BY DEF Init, LedgerInv, VoidedOnce, NonceInv, Refs, Known, Reached, Passed, NoNonceGap,
         NonceFillable, OneLivePerNonce
<1>2. TypeOK /\ LedgerInv /\ [Next]_vars => LedgerInv'
  BY LedgerInvStep
<1>3. TypeOK /\ OrderInv /\ LedgerInv /\ NonceInv /\ [Next]_vars => NonceInv'
  BY NonceStep, QuietKeepsNonces, TxKeepsNonces, VoidKeepsNonces
<1> QED BY <1>1, <1>2, <1>3, TypeCorrect, OrderInvariant, PTL DEF Spec

\* The contiguity guard of onRecord never lets a nonce gap into the canonical
\* order: a record of a sender that the map has not evicted is its first one,
\* or at most one nonce past an earlier one, also after voids have opened
\* lower nonces again.
THEOREM NonceGapsAreExcluded == Spec => []NoNonceGap
<1>1. NonceInv => NoNonceGap
  BY DEF NonceInv
<1> QED BY <1>1, NonceInvariant, PTL

\* appendVoid keeps the lowest voided nonce open: below the expected nonce of
\* a sender that was not evicted every nonce from its first on has a live
\* record, whatever the order of the voids and of the records between them.
THEOREM NoncesStayFillable == Spec => []NonceFillable
<1>1. NonceInv => NonceFillable
  BY DEF NonceInv
<1> QED BY <1>1, NonceInvariant, PTL

\* One nonce of a sender that was not evicted has one live record, unless a
\* void at or below it came between the two.
THEOREM NoncesAreLiveOnce == Spec => []OneLivePerNonce
<1>1. NonceInv => OneLivePerNonce
  BY DEF NonceInv
<1> QED BY <1>1, NonceInvariant, PTL

================================================================================
