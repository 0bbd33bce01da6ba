----------------------------- MODULE MCSequencer -----------------------------
(* Model-checking instances of Sequencer. *)
EXTENDS Sequencer

Tx(n, c) == [nonce |-> n, copy |-> c]
MCTxs == {Tx(1, 1), Tx(1, 2), Tx(2, 1)}
AllFaults == {"pushback", "old", "early", "restart", "offers", "answers",
              "receipts", "lag", "full", "skip"}
==============================================================================
