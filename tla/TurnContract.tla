----------------------------- MODULE TurnContract -----------------------------
(***************************************************************************)
(* What execute_turn and the Wire Strategy promise to a caller, with the   *)
(* wire left out: each turn makes a bounded number of calls, each call     *)
(* holds one slot of a shared pool, and the turn ends with one of three    *)
(* verdicts, whose conditions are the contract.  The Driver implements it  *)
(* (DriverRefines); ChatSession relies on it.                              *)
(***************************************************************************)
EXTENDS Naturals

CONSTANTS Turns,          \* the turns
          Allowance,      \* calls a turn may add to its first
          Slots,          \* size of the pool
          KnowsFailover   \* an exhausted turn is handed on, not failed

VARIABLES free,     \* slots nobody holds
          phase,    \* what each turn is doing
          calls,    \* calls each turn has made
          asked,    \* the caller has asked for the turn to be cancelled
          outcome   \* the verdict, "none" until it is given

vars == <<free, phase, calls, asked, outcome>>

Phase == {"new", "ready", "calling", "called", "over"}

Outcomes == {"none", "committed", "failover", "failed"}

Init == /\ free = Slots
        /\ phase = [t \in Turns |-> "new"]
        /\ calls = [t \in Turns |-> 0]
        /\ asked = [t \in Turns |-> FALSE]
        /\ outcome = [t \in Turns |-> "none"]

Move(t, from, to) == phase[t] = from /\ phase' = [phase EXCEPT ![t] = to]

Start(t) == Move(t, "new", "ready") /\ UNCHANGED <<free, calls, asked, outcome>>

Ask(t) == /\ phase[t] # "over"
          /\ asked' = [asked EXCEPT ![t] = TRUE]
          /\ UNCHANGED <<free, phase, calls, outcome>>

Call(t) == /\ Move(t, "ready", "calling")
           /\ free > 0 /\ free' = free - 1
           /\ calls[t] =< Allowance
           /\ calls' = [calls EXCEPT ![t] = @ + 1]
           /\ UNCHANGED <<asked, outcome>>

HangUp(t) == /\ Move(t, "calling", "called")
             /\ free' = free + 1
             /\ UNCHANGED <<calls, asked, outcome>>

CallAgain(t) == /\ Move(t, "called", "ready")
                /\ calls[t] =< Allowance
                /\ UNCHANGED <<free, calls, asked, outcome>>

Give(t, o) == /\ outcome' = [outcome EXCEPT ![t] = o]
              /\ UNCHANGED <<free, calls, asked>>

Refuse(t) == free = 0 /\ Move(t, "ready", "over") /\ Give(t, "failed")

Commit(t) == Move(t, "called", "over") /\ Give(t, "committed")

Exhaust(t, handed_on) == /\ Move(t, "called", "over")
                         /\ calls[t] = Allowance + 1
                         /\ Give(t, IF handed_on THEN "failover" ELSE "failed")

Withdraw(t) == asked[t] /\ Move(t, "called", "over") /\ Give(t, "failed")

Next == \E t \in Turns : \/ Start(t) \/ Ask(t) \/ Call(t) \/ HangUp(t) \/ CallAgain(t)
                         \/ Refuse(t) \/ Commit(t) \/ Exhaust(t, KnowsFailover) \/ Withdraw(t)

Spec == Init /\ [][Next]_vars
=============================================================================
