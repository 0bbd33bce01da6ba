----------------------------- MODULE MCAdmission -----------------------------
(***************************************************************************)
(* Transactions only: three senders that share a nonce map of two, a       *)
(* replacement transaction, a record of the zero sender, ticks and the     *)
(* posted cursor.  MCUserTxs leaves the zero sender out.                   *)
(***************************************************************************)
EXTENDS CanonicalSealer

CONSTANTS alice, bob, carol, a0, a1, a1x, b0, c0, z0, zero

MCTxs ==
    { [id |-> a0, sender |-> alice, nonce |-> 0],
      [id |-> a1, sender |-> alice, nonce |-> 1],
      [id |-> a1x, sender |-> alice, nonce |-> 1],
      [id |-> b0, sender |-> bob, nonce |-> 0],
      [id |-> c0, sender |-> carol, nonce |-> 0],
      [id |-> z0, sender |-> zero, nonce |-> 0] }

MCUserTxs == {t \in MCTxs : t.sender # zero}

MCClocks == {0}
=============================================================================
