------------------------------- MODULE MCVoids -------------------------------
(***************************************************************************)
(* Voids: one sender with three nonces, a replacement of the second, and   *)
(* two voters that vote in any order, repeat votes and name old indices.   *)
(***************************************************************************)
EXTENDS CanonicalSealer

CONSTANTS alice, a0, a1, a1x, a2, v1, v2, v3

MCTxs ==
    { [id |-> a0, sender |-> alice, nonce |-> 0],
      [id |-> a1, sender |-> alice, nonce |-> 1],
      [id |-> a1x, sender |-> alice, nonce |-> 1],
      [id |-> a2, sender |-> alice, nonce |-> 2] }

MCRecorded == {<<v1, 0>>, <<v3, 1>>}

MCClocks == {0}
=============================================================================
