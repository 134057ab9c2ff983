-------------------------- MODULE DriverRefinesProofs --------------------------
(***************************************************************************)
(* The Driver implements the TurnContract for every set of turns, every    *)
(* pool and every allowance, step by step.  Beside the type invariant the  *)
(* steps need the ledger of each turn, which bounds the calls, and that    *)
(* a cancelled exit was asked for.                                         *)
(***************************************************************************)
EXTENDS DriverRefines, DriverProofs

-----------------------------------------------------------------------------
(* Nobody's attempt ends as cancelled who was not asked to stop.           *)

WasAsked == \A s \in Streams : records[s].last_end = "cancelled" => cancelled[s]

LEMMA InitAsked == Init => WasAsked
  BY DEF Init, WasAsked, NoTestimony

LEMMA StepAsked ==
  ASSUME TypeOK, WasAsked, [Next]_vars
  PROVE  WasAsked'
  <1> USE DEF WasAsked
  <1>1. ASSUME NEW s \in Streams,
               BeginTurn(s) \/ Admit(s) \/ Deny(s) \/ ReturnBucket(s) \/ Strategy(s)
        PROVE  WasAsked'
    BY <1>1 DEF BeginTurn, Admit, Deny, ReturnBucket, Strategy, Commit, GiveUpCancelled, Retry,
                Failover, GiveUp, Conclude
  <1>2. ASSUME NEW s \in Streams, Inner(s)
        PROVE  WasAsked'
    BY <1>2 DEF Inner
  <1>3. ASSUME NEW s \in Streams, Exit(s)
        PROVE  WasAsked'
    <2>1. records'[s].last_end = "cancelled" => cancelled[s]
      BY <1>3 DEF Exit, ExitWith
    <2> QED BY <1>3, <2>1 DEF Exit
  <1>4. Quiet => WasAsked'
    <2>1. ASSUME NEW s \in Streams, Cancel(s), Quiet
          PROVE  WasAsked'
      BY <2>1 DEF Cancel, Quiet, TypeOK
    <2> QED BY <2>1 DEF Quiet
  <1> QED BY <1>1, <1>2, <1>3, <1>4, StepShapes

LEMMA Asked == Spec => []WasAsked
  BY Typed, InitAsked, StepAsked, PTL DEF Spec

-----------------------------------------------------------------------------
(* What a step of one turn comes to under the mapping.                     *)

LEMMA PhaseStep ==
  ASSUME TypeOK, NEW s \in Streams, NEW l \in PC, GoTo(s, l)
  PROVE  phase' = [phase EXCEPT ![s] = PhaseOf(l)] /\ phase[s] = PhaseOf(pc[s])
  BY DEF GoTo, TypeOK, phase

LEMMA CallsStep ==
  ASSUME TypeOK, NEW s \in Streams, NEW l \in PC, GoTo(s, l),
         \A t \in Streams \ {s} : records'[t].ends = records[t].ends
  PROVE  calls' = [calls EXCEPT ![s] = CallsOf(l, records'[s].ends)]
  <1>1. pc'[s] = l /\ \A t \in Streams \ {s} : pc'[t] = pc[t]
    BY DEF GoTo, TypeOK
  <1> QED BY <1>1 DEF calls

LEMMA CallsSame ==
  ASSUME TypeOK, NEW s \in Streams, NEW l \in PC, GoTo(s, l),
         \A t \in Streams \ {s} : records'[t].ends = records[t].ends,
         CallsOf(l, records'[s].ends) = CallsOf(pc[s], records[s].ends)
  PROVE  calls' = calls
  <1>1. pc'[s] = l /\ \A t \in Streams \ {s} : pc'[t] = pc[t]
    BY DEF GoTo, TypeOK
  <1> QED BY <1>1 DEF calls

LEMMA OutcomeStep ==
  ASSUME TypeOK, NEW s \in Streams, NEW v, verdict' = [verdict EXCEPT ![s] = v]
  PROVE  outcome' = [outcome EXCEPT ![s] = OutcomeOf(v)]
  BY DEF TypeOK, outcome

LEMMA OutcomeSame == verdict' = verdict => outcome' = outcome
  BY DEF outcome

-----------------------------------------------------------------------------

LEMMA InitRefines == Init => Contract!Init
  <1> SUFFICES ASSUME Init PROVE Contract!Init
    OBVIOUS
  <1>1. phase = [s \in Streams |-> "new"]
    BY DEF Init, phase, PhaseOf
  <1>2. calls = [s \in Streams |-> 0]
    BY DEF Init, calls, CallsOf, NoTestimony
  <1>3. outcome = [s \in Streams |-> "none"]
    BY DEF Init, outcome, OutcomeOf, Open
  <1> QED BY <1>1, <1>2, <1>3 DEF Init, Contract!Init

(* The state a step of the Driver starts from.                             *)
Sound == TypeOK /\ HasEnd /\ Ledgers /\ CancelsNoted /\ WasAsked

LEMMA StartRefines ==
  ASSUME Sound, NEW s \in Streams, BeginTurn(s)
  PROVE  Contract!Start(s)
  <1>1. /\ pc[s] = "idle" /\ "attempt" \in PC /\ GoTo(s, "attempt") /\ TypeOK
        /\ UNCHANGED <<send_buckets, cancelled, verdict, records>>
    BY DEF Sound, BeginTurn, At, PC
  <1>2. phase' = [phase EXCEPT ![s] = "ready"] /\ phase[s] = "new"
    BY <1>1, PhaseStep DEF PhaseOf
  <1>3. calls' = calls
    BY <1>1, CallsSame DEF CallsOf
  <1> QED BY <1>1, <1>2, <1>3, OutcomeSame DEF Contract!Start, Contract!Move

LEMMA CallRefines ==
  ASSUME Sound, NEW s \in Streams, Admit(s)
  PROVE  Contract!Call(s)
  <1>1. /\ pc[s] = "attempt" /\ "dial" \in PC /\ GoTo(s, "dial") /\ TypeOK
        /\ AcquireSendBucket /\ UNCHANGED <<cancelled, verdict, records>>
    BY DEF Sound, Admit, At, PC, Suspended
  <1>2. phase' = [phase EXCEPT ![s] = "calling"] /\ phase[s] = "ready"
    BY <1>1, PhaseStep DEF PhaseOf
  <1>3. calls[s] = records[s].ends /\ calls' = [calls EXCEPT ![s] = records[s].ends + 1]
    BY <1>1, CallsStep DEF CallsOf, calls
  <1>4. calls' = [calls EXCEPT ![s] = calls[s] + 1]
    BY <1>3
  <1>5. records[s].ends =< Allowance
    <2>1. /\ st[s].attempt \in Nat /\ remaining[s] \in Nat /\ Allowance \in Nat
      BY <1>1, StrategyAssumption DEF TypeOK, StreamState
    <2>2. Ledger(s)
      BY DEF Sound, Ledgers
    <2> QED BY <1>1, <2>1, <2>2 DEF Ledger
  <1>6. send_buckets > 0 /\ send_buckets' = send_buckets - 1
    BY <1>1 DEF AcquireSendBucket
  <1> QED BY <1>1, <1>2, <1>3, <1>4, <1>5, <1>6, OutcomeSame DEF Contract!Call, Contract!Move

LEMMA RefuseRefines ==
  ASSUME Sound, NEW s \in Streams, Deny(s)
  PROVE  Contract!Refuse(s)
  <1> DEFINE v == [type |-> "failed", fault |-> "admission_denied"]
  <1>1. /\ pc[s] = "attempt" /\ "done" \in PC /\ GoTo(s, "done") /\ TypeOK
        /\ verdict' = [verdict EXCEPT ![s] = v]
        /\ send_buckets = 0 /\ UNCHANGED <<send_buckets, cancelled, records>>
    BY DEF Sound, Deny, DenySendBucket, At, PC, Suspended
  <1>2. phase' = [phase EXCEPT ![s] = "over"] /\ phase[s] = "ready"
    BY <1>1, PhaseStep DEF PhaseOf
  <1>3. calls' = calls
    BY <1>1, CallsSame DEF CallsOf
  <1>4. OutcomeOf(v) = "failed"
    BY DEF OutcomeOf
  <1>5. outcome' = [outcome EXCEPT ![s] = "failed"]
    <2> HIDE DEF v
    <2> QED BY <1>1, <1>4, OutcomeStep
  <1> QED BY <1>1, <1>2, <1>3, <1>5 DEF Contract!Refuse, Contract!Move, Contract!Give

(* Steps inside an attempt, its exit included, are stuttering: the caller  *)
(* learns nothing before the slot is back.                                 *)
LEMMA InnerRefines ==
  ASSUME Sound, NEW s \in Streams, Inner(s) \/ Exit(s)
  PROVE  UNCHANGED Contract!vars
  <1>1. TypeOK /\ pc[s] \in InFlight /\ UNCHANGED <<send_buckets, cancelled, verdict>>
    BY DEF Sound, Inner, Exit
  <1>2. PICK l \in InFlight \cup {"ended"} :
          /\ GoTo(s, l)
          /\ records'[s].ends = IF l = "ended" THEN records[s].ends + 1 ELSE records[s].ends
    BY DEF Inner, Exit, ExitWith, InFlight
  <1>3. \A t \in Streams \ {s} : records'[t].ends = records[t].ends
    BY DEF Inner, Exit
  <1>4. l \in PC /\ PhaseOf(l) = PhaseOf(pc[s])
    BY <1>1 DEF PC, Suspended, InFlight, PhaseOf
  <1>5. phase' = phase
    <2>1. phase' = [phase EXCEPT ![s] = phase[s]]
      BY <1>1, <1>2, <1>4, PhaseStep
    <2> QED BY <2>1 DEF phase
  <1>6. calls' = calls
    <2>1. CallsOf(l, records'[s].ends) = CallsOf(pc[s], records[s].ends)
      BY <1>1, <1>2 DEF CallsOf, InFlight
    <2> QED BY <1>1, <1>2, <1>3, <1>4, <2>1, CallsSame
  <1> QED BY <1>1, <1>5, <1>6, OutcomeSame DEF Contract!vars

LEMMA HangUpRefines ==
  ASSUME Sound, NEW s \in Streams, ReturnBucket(s)
  PROVE  Contract!HangUp(s)
  <1>1. /\ pc[s] = "ended" /\ "strategy" \in PC /\ GoTo(s, "strategy") /\ TypeOK
        /\ send_buckets' = send_buckets + 1 /\ UNCHANGED <<cancelled, verdict, records>>
    BY DEF Sound, ReturnBucket, ReturnSendBucket, At, PC
  <1>2. phase' = [phase EXCEPT ![s] = "called"] /\ phase[s] = "calling"
    BY <1>1, PhaseStep DEF PhaseOf
  <1>3. calls' = calls
    BY <1>1, CallsSame DEF CallsOf
  <1> QED BY <1>1, <1>2, <1>3, OutcomeSame DEF Contract!HangUp, Contract!Move

(* At the strategy the ledger says how many calls have been made.          *)
LEMMA CallsAtStrategy ==
  ASSUME Sound, NEW s \in Streams, pc[s] = "strategy"
  PROVE  /\ calls[s] = records[s].ends
         /\ calls[s] + remaining[s] = Allowance + 1
         /\ calls[s] \in Nat /\ remaining[s] \in Nat /\ Allowance \in Nat
  <1>1. Ledger(s) /\ records[s].ends \in Nat /\ remaining[s] \in Nat /\ Allowance \in Nat
    BY StrategyAssumption DEF Sound, Ledgers, TypeOK, Testimony
  <1>2. calls[s] = records[s].ends
    BY DEF calls, CallsOf
  <1> QED BY <1>1, <1>2 DEF Ledger

LEMMA CallAgainRefines ==
  ASSUME Sound, NEW s \in Streams, Retry(s)
  PROVE  Contract!CallAgain(s)
  <1>1. /\ pc[s] = "strategy" /\ "attempt" \in PC /\ GoTo(s, "attempt") /\ TypeOK
        /\ UNCHANGED <<send_buckets, cancelled, verdict, records>>
    BY DEF Sound, Retry, Consults, At, PC
  <1>2. phase' = [phase EXCEPT ![s] = "ready"] /\ phase[s] = "called"
    BY <1>1, PhaseStep DEF PhaseOf
  <1>3. calls' = calls
    BY <1>1, CallsSame DEF CallsOf
  <1>4. remaining[s] > 0
    BY DEF Retry, OnWireFault
  <1>5. calls[s] =< Allowance
    BY <1>1, <1>4, CallsAtStrategy
  <1> QED BY <1>1, <1>2, <1>3, <1>5, OutcomeSame DEF Contract!CallAgain, Contract!Move

(* A verdict of the strategy ends the turn.                                *)
LEMMA ConcludeRefines ==
  ASSUME Sound, NEW s \in Streams, NEW v, Conclude(s, v), pc[s] = "strategy"
  PROVE  Contract!Move(s, "called", "over") /\ Contract!Give(s, OutcomeOf(v))
  <1>1. /\ "done" \in PC /\ GoTo(s, "done") /\ TypeOK
        /\ verdict' = [verdict EXCEPT ![s] = v]
        /\ UNCHANGED <<send_buckets, cancelled, records>>
    BY DEF Sound, Conclude, PC, Suspended
  <1>2. phase' = [phase EXCEPT ![s] = "over"] /\ phase[s] = "called"
    BY <1>1, PhaseStep DEF PhaseOf
  <1>3. calls' = calls
    BY <1>1, CallsSame DEF CallsOf
  <1>4. outcome' = [outcome EXCEPT ![s] = OutcomeOf(v)]
    BY <1>1, OutcomeStep
  <1> QED BY <1>1, <1>2, <1>3, <1>4 DEF Contract!Move, Contract!Give

LEMMA VerdictRefines ==
  ASSUME Sound, NEW s \in Streams, Commit(s) \/ GiveUpCancelled(s) \/ Failover(s) \/ GiveUp(s)
  PROVE  Contract!Commit(s) \/ Contract!Withdraw(s) \/ Contract!Exhaust(s, KnowsFailover)
  <1>1. pc[s] = "strategy"
    BY DEF Commit, GiveUpCancelled, Failover, GiveUp, Consults, At
  <1>2. CASE Commit(s)
    <2>1. PICK v : Conclude(s, v) /\ OutcomeOf(v) = "committed"
      BY <1>2 DEF Commit, OutcomeOf
    <2>2. Contract!Move(s, "called", "over") /\ Contract!Give(s, "committed")
      BY <1>1, <2>1, ConcludeRefines
    <2> QED BY <2>2 DEF Contract!Commit
  <1>3. CASE GiveUpCancelled(s)
    <2>1. PICK v : Conclude(s, v) /\ OutcomeOf(v) = "failed"
      BY <1>3 DEF GiveUpCancelled, OutcomeOf
    <2>2. Contract!Move(s, "called", "over") /\ Contract!Give(s, "failed")
      BY <1>1, <2>1, ConcludeRefines
    <2>3. cancelled[s]
      BY <1>1, <1>3 DEF GiveUpCancelled, Sound, CancelsNoted, CancelNoted, WasAsked
    <2> QED BY <2>2, <2>3 DEF Contract!Withdraw
  <1>4. ASSUME NEW v, Conclude(s, v), remaining[s] = 0,
               OutcomeOf(v) = IF KnowsFailover THEN "failover" ELSE "failed"
        PROVE  Contract!Exhaust(s, KnowsFailover)
    <2>1. calls[s] = Allowance + 1
      BY <1>1, <1>4, CallsAtStrategy
    <2>2. /\ Contract!Move(s, "called", "over")
          /\ Contract!Give(s, IF KnowsFailover THEN "failover" ELSE "failed")
      BY <1>1, <1>4, ConcludeRefines
    <2> QED BY <2>1, <2>2 DEF Contract!Exhaust
  <1>5. remaining[s] \in Nat
    BY DEF Sound, TypeOK
  <1>6. CASE Failover(s)
    <2>1. KnowsFailover /\ remaining[s] = 0
      BY <1>5, <1>6 DEF Failover, OnWireFault
    <2>2. PICK v : Conclude(s, v) /\ OutcomeOf(v) = "failover"
      BY <1>6 DEF Failover, OutcomeOf
    <2> QED BY <1>4, <2>1, <2>2
  <1>7. CASE GiveUp(s)
    <2>1. ~KnowsFailover /\ remaining[s] = 0
      BY <1>5, <1>7 DEF GiveUp, OnWireFault
    <2>2. PICK v : Conclude(s, v) /\ OutcomeOf(v) = "failed"
      BY <1>7 DEF GiveUp, OutcomeOf
    <2> QED BY <1>4, <2>1, <2>2
  <1> QED BY <1>2, <1>3, <1>6, <1>7

LEMMA QuietRefines ==
  ASSUME Sound, Quiet
  PROVE  (\E s \in Streams : Contract!Ask(s)) \/ UNCHANGED Contract!vars
  <1>1. phase' = phase /\ calls' = calls /\ outcome' = outcome /\ send_buckets' = send_buckets
    BY DEF Quiet, phase, calls, outcome
  <1>2. CASE UNCHANGED cancelled
    BY <1>1, <1>2 DEF Contract!vars
  <1>3. ASSUME NEW s \in Streams, Cancel(s)
        PROVE  Contract!Ask(s)
    <2>1. pc[s] \in PC /\ pc[s] # "done" /\ cancelled' = [cancelled EXCEPT ![s] = TRUE]
      BY <1>3 DEF Sound, TypeOK, Cancel
    <2>2. phase[s] # "over"
      BY <2>1 DEF phase, PhaseOf, PC, Suspended
    <2> QED BY <1>1, <2>1, <2>2 DEF Contract!Ask
  <1> QED BY <1>2, <1>3 DEF Quiet

LEMMA StepRefines ==
  ASSUME Sound, [Next]_vars
  PROVE  [Contract!Next]_(Contract!vars)
  <1>1. TypeOK
    BY DEF Sound
  <1>2. ASSUME NEW s \in Streams, Strategy(s)
        PROVE  \/ Contract!CallAgain(s) \/ Contract!Commit(s) \/ Contract!Withdraw(s)
               \/ Contract!Exhaust(s, KnowsFailover)
    BY <1>2, CallAgainRefines, VerdictRefines DEF Strategy
  <1>3. ASSUME NEW s \in Streams,
               BeginTurn(s) \/ Admit(s) \/ Deny(s) \/ ReturnBucket(s) \/ Strategy(s)
        PROVE  Contract!Next
    BY <1>2, <1>3, StartRefines, CallRefines, RefuseRefines, HangUpRefines DEF Contract!Next
  <1>4. Quiet => Contract!Next \/ UNCHANGED Contract!vars
    BY QuietRefines DEF Contract!Next
  <1> QED BY <1>1, <1>3, <1>4, InnerRefines, StepShapes

(* The Driver implements the contract of a turn: whatever the peer, the    *)
(* network, the clocks and the canceller do to concurrent turns, a caller  *)
(* sees bounded calls, one slot per call, and a verdict whose conditions   *)
(* hold.                                                                   *)
THEOREM Implements == Spec => ImplementsContract
  <1>1. Spec => [](TypeOK /\ HasEnd /\ Ledgers /\ CancelsNoted /\ WasAsked)
    BY Typed, LedgerSafe, CancelsSafe, Asked, PTL
  <1> QED BY <1>1, InitRefines, StepRefines, PTL DEF Spec, ImplementsContract, Contract!Spec, Sound

=============================================================================
