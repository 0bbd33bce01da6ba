------------------------------ MODULE LogReader ------------------------------
(***************************************************************************)
(* What the canonical stream promises a consumer: one log that only grows, *)
(* and a reader that takes its frames one by one, in order and with no     *)
(* gap.  A reader that restarts goes back to, or adopts, a state at the    *)
(* end of a block: a prefix of the same log.                               *)
(***************************************************************************)
EXTENDS Naturals, Sequences

VARIABLES
    log,    \* the frames emitted so far
    read    \* the frames the reader has applied

Prefix(n) == SubSeq(log, 1, n)

Init == log = <<>> /\ read = <<>>

Write ==
    /\ Len(log') = Len(log) + 1
    /\ SubSeq(log', 1, Len(log)) = log
    /\ read' = read

Read ==
    /\ Len(read) < Len(log)
    /\ read' = Append(read, log[Len(read) + 1])
    /\ log' = log

Resume(n) ==
    /\ n = 0 \/ log[n].kind = "boundary"
    /\ read' = Prefix(n)
    /\ log' = log

Next == Write \/ Read \/ \E n \in 0..Len(log) : Resume(n)

Spec == Init /\ [][Next]_<<log, read>>

=============================================================================
