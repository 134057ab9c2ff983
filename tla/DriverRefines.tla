---------------------------- MODULE DriverRefines ----------------------------
(* The Driver implements the TurnContract.                                 *)
EXTENDS Driver

PhaseOf(l) == CASE l = "idle" -> "new"
                [] l = "attempt" -> "ready"
                [] l \in {"dial", "body", "read", "frames", "ended"} -> "calling"
                [] l = "strategy" -> "called"
                [] l = "done" -> "over"

(* A call is counted from the dial on, its StreamEnd record comes last.    *)
CallsOf(l, ends) == IF l \in {"dial", "body", "read", "frames"} THEN ends + 1 ELSE ends

OutcomeOf(v) == IF v.type = "open" THEN "none" ELSE v.type

phase   == [s \in Streams |-> PhaseOf(pc[s])]
calls   == [s \in Streams |-> CallsOf(pc[s], records[s].ends)]
outcome == [s \in Streams |-> OutcomeOf(verdict[s])]

Contract == INSTANCE TurnContract WITH
  Turns <- Streams, Slots <- Buckets, free <- send_buckets, asked <- cancelled

(* Everything a caller can see of concurrent turns is allowed by the       *)
(* contract: calls made, slots held, and the verdict with its conditions.  *)
ImplementsContract == Contract!Spec
=============================================================================
