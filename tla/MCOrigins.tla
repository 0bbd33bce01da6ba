------------------------------ MODULE MCOrigins ------------------------------
(***************************************************************************)
(* Epochs and cross-chain batches against one sender: a run of L1 blocks,  *)
(* a second epoch for one of them, slices of one lane with a bad range, a  *)
(* wrong width, a hole and a low anchor, and a chain outside the allowlist.*)
(* The clock may stand still, go back or jump.                             *)
(***************************************************************************)
EXTENDS CanonicalSealer

CONSTANTS alice, peer, other, a0, e5, e6, e6x, e7, e8, m1, m2, m3, m4, m5, m6

MCTxs == {[id |-> a0, sender |-> alice, nonce |-> 0]}

MCEpochs ==
    { [id |-> e5, origin |-> 5, slots |-> 1], [id |-> e6, origin |-> 6, slots |-> 2],
      [id |-> e6x, origin |-> 6, slots |-> 1], [id |-> e7, origin |-> 7, slots |-> 1],
      [id |-> e8, origin |-> 8, slots |-> 1] }

Batch(i, p, a, f, l, n) ==
    [id |-> i, peer |-> p, anchor |-> a, first |-> f, last |-> l, slots |-> n]

MCBatches ==
    { Batch(m1, peer, 3, 0, 1, 3), Batch(m2, peer, 4, 2, 2, 2), Batch(m3, peer, 3, 2, 3, 3),
      Batch(m4, peer, 5, 3, 2, 2), Batch(m5, peer, 5, 3, 3, 1), Batch(m6, other, 1, 0, 0, 2) }

MCClocks == {0, 5}
=============================================================================
