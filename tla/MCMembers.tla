------------------------------ MODULE MCMembers ------------------------------
(***************************************************************************)
(* The members on a log of transactions of three senders that share a      *)
(* nonce map of two, an epoch, a batch, ticks, posted and recorded        *)
(* cursors and void votes.                                                *)
(***************************************************************************)
EXTENDS SealerMembers

CONSTANTS alice, bob, carol, a0, b0, c0, e5, m1, peer, v1, v2

MCTxs ==
    { [id |-> a0, sender |-> alice, nonce |-> 0], [id |-> b0, sender |-> bob, nonce |-> 0],
      [id |-> c0, sender |-> carol, nonce |-> 0] }

MCEpochs == {[id |-> e5, origin |-> 5, slots |-> 2]}

MCBatches == {[id |-> m1, peer |-> peer, anchor |-> 1, first |-> 0, last |-> 0, slots |-> 2]}

MCRecorded == {<<v1, 0>>}

MCClocks == {0}
=============================================================================
