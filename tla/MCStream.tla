------------------------------ MODULE MCStream ------------------------------
(***************************************************************************)
(* One consumer of a stream of a few frames, with a retention below the    *)
(* length of the stream, and the faults that a run lets happen.            *)
(***************************************************************************)
EXTENDS CanonicalStream

LostSessions == {"egress"}

AllFaults == {"egress", "failover", "publish", "resend", "preemption", "crash"}

=============================================================================
