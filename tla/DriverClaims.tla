----------------------------- MODULE DriverClaims -----------------------------
(***************************************************************************)
(* What the documentation says of the driver and the code does not do.     *)
(* Its run's counterexample is a finding.                                  *)
(***************************************************************************)
EXTENDS Driver

(* README.md:185: a peer that closes without any content is told apart     *)
(* from one that cuts an answer, in each attempt.                          *)
NoContentIsDistinct ==
  \A s \in Streams : pc[s] = "ended" /\ records[s].last_end = "peer_closed" =>
    \E i \in 1..Len(heard[s]) : CarriesText(heard[s][i])

=============================================================================
