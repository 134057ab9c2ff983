--------------------------- MODULE ReadClocksProofs ---------------------------
(***************************************************************************)
(* The bounds the clocks keep, for every value of the constants.           *)
(***************************************************************************)
EXTENDS ReadClocks, Integers, TLAPS

(* What one attempt may take.                                              *)
Budget == Backstop + Larger(Overall, Stall) + 2 * Lag

Types == /\ now \in Nat /\ attempt \in Nat
         /\ at \in {"headers", "body", "reading", "over"}
         /\ began \in Nat /\ turn_start \in Nat /\ last_read_at \in Nat /\ heard_at \in Nat

(* The read loop knows when bytes came last, and no deadline has passed by *)
(* more than Lag.                                                          *)
ReadInTime ==
  at = "reading" =>
    /\ heard_at = last_read_at
    /\ now =< StallDeadline + Lag
    /\ now =< OverallEnd + Lag

(* What an attempt may still take at each point is within the budget of    *)
(* the attempts so far.                                                    *)
WithinBudget ==
  /\ at = "headers" => now =< began + Backstop + Lag /\ began + Budget =< attempt * Budget
  /\ at = "body" => /\ now =< began + Stall + Lag
                    /\ began + Larger(Overall, Stall) + Lag =< attempt * Budget
  /\ at = "reading" => turn_start + Larger(Overall, Stall) + Lag =< attempt * Budget
  /\ at = "over" => now =< attempt * Budget

IInv == Types /\ ReadInTime /\ WithinBudget

LEMMA BudgetType == Budget \in Nat /\ Larger(Overall, Stall) \in Nat
                    /\ Overall =< Larger(Overall, Stall) /\ Stall =< Larger(Overall, Stall)
BY ClockAssumption DEF ClockAssumption, Budget, Larger

LEMMA OneMore == ASSUME NEW n \in Nat, NEW k \in Nat PROVE (n + 1) * k = n * k + k /\ n * k \in Nat
OBVIOUS

(* However an attempt ends, the time so far is within the budget of the    *)
(* attempts so far.                                                        *)
LEMMA EndsWithin == ASSUME IInv PROVE now =< attempt * Budget
<1>. USE BudgetType, ClockAssumption DEF ClockAssumption, IInv, Types
<1>1. attempt * Budget \in Nat
  BY OneMore
<1>2. CASE at = "headers"
  BY <1>1, <1>2 DEF WithinBudget, Budget
<1>3. CASE at = "body"
  BY <1>1, <1>3 DEF WithinBudget
<1>4. CASE at = "reading"
  BY <1>1, <1>4 DEF WithinBudget, ReadInTime, OverallEnd
<1>5. CASE at = "over"
  BY <1>5 DEF WithinBudget
<1>. QED BY <1>2, <1>3, <1>4, <1>5

LEMMA ConcludeKeeps ==
  ASSUME IInv, NEW c, NEW to \in {"headers", "over"}, Conclude(c, to),
         \/ to = "headers" /\ attempt' = attempt + 1 /\ began' = now
         \/ to = "over" /\ UNCHANGED <<attempt, began>>
  PROVE  IInv'
<1>. USE BudgetType, ClockAssumption DEF ClockAssumption
<1>1. Types'
  BY DEF IInv, Types, Conclude, Locals
<1>2. ReadInTime'
  BY DEF ReadInTime, Conclude
<1>3. now =< attempt * Budget /\ now' = now /\ at' = to
  BY EndsWithin DEF Conclude
<1>4. CASE to = "headers" /\ attempt' = attempt + 1 /\ began' = now
  <2>1. attempt' * Budget = attempt * Budget + Budget /\ attempt * Budget \in Nat
    BY <1>4, OneMore DEF IInv, Types
  <2>2. WithinBudget'
    BY <1>3, <1>4, <2>1 DEF WithinBudget, IInv, Types
  <2>. QED BY <1>1, <1>2, <2>2 DEF IInv
<1>5. CASE to = "over" /\ UNCHANGED <<attempt, began>>
  <2>1. WithinBudget'
    BY <1>3, <1>5 DEF WithinBudget
  <2>. QED BY <1>1, <1>2, <2>1 DEF IInv
<1>. QED BY <1>1, <1>2, <1>4, <1>5 DEF IInv

LEMMA EndAttemptKeeps == ASSUME IInv, NEW c, EndAttempt(c) PROVE IInv'
<1>1. CASE attempt =< Allowance
  BY <1>1, ConcludeKeeps DEF EndAttempt
<1>2. CASE ~(attempt =< Allowance)
  BY <1>2, ConcludeKeeps DEF EndAttempt
<1>. QED BY <1>1, <1>2

LEMMA InitHolds == Init => IInv
<1>. SUFFICES ASSUME Init PROVE IInv
  OBVIOUS
<1>1. 1 * Budget = Budget
  BY BudgetType
<1>. QED BY <1>1, BudgetType, ClockAssumption
         DEF ClockAssumption, Init, IInv, Types, ReadInTime, WithinBudget

LEMMA ElapseKeeps == ASSUME IInv, Elapse PROVE IInv'
<1>. USE BudgetType, ClockAssumption DEF ClockAssumption
<1>1. Types'
  BY DEF IInv, Types, Elapse, clocks, histories
<1>2. /\ at' = at /\ now' = now + 1 /\ attempt' = attempt /\ began' = began
      /\ turn_start' = turn_start /\ last_read_at' = last_read_at /\ heard_at' = heard_at
      /\ first_byte_at' = first_byte_at /\ at # "over"
  BY DEF Elapse, clocks, histories
<1>3. CASE at = "headers"
  <2>1. now < began + Backstop + Lag
    BY <1>3 DEF Elapse, Deadlines
  <2>. QED BY <1>1, <1>2, <1>3, <2>1 DEF IInv, Types, ReadInTime, WithinBudget
<1>4. CASE at = "body"
  <2>1. now < began + Stall + Lag
    BY <1>4 DEF Elapse, Deadlines
  <2>. QED BY <1>1, <1>2, <1>4, <2>1 DEF IInv, Types, ReadInTime, WithinBudget
<1>5. CASE at = "reading"
  <2>1. now < StallDeadline + Lag /\ now < OverallEnd + Lag
    BY <1>5 DEF Elapse, Deadlines
  <2>2. StallDeadline' = StallDeadline /\ OverallEnd' = OverallEnd
    BY <1>2 DEF StallDeadline, StallWindow, OverallEnd
  <2>3. StallDeadline \in Nat /\ OverallEnd \in Nat
    BY DEF IInv, Types, StallDeadline, StallWindow, OverallEnd
  <2>4. ReadInTime'
    BY <1>2, <1>5, <2>1, <2>2, <2>3 DEF IInv, Types, ReadInTime
  <2>. QED BY <1>1, <1>2, <1>5, <2>4 DEF IInv, Types, WithinBudget
<1>. QED BY <1>2, <1>3, <1>4, <1>5 DEF IInv, Types

LEMMA HeadersKeep == ASSUME IInv, HeadersArrive PROVE IInv'
<1>. USE BudgetType, ClockAssumption DEF ClockAssumption
<1>1. /\ at = "headers" /\ at' = "reading" /\ now' = now /\ attempt' = attempt /\ began' = began
      /\ turn_start' = now /\ last_read_at' = now /\ heard_at' = now
  BY DEF HeadersArrive, Locals
<1>2. Types'
  BY <1>1 DEF IInv, Types
<1>3. ReadInTime'
  BY <1>1 DEF IInv, Types, ReadInTime, StallDeadline, StallWindow, OverallEnd
<1>4. now =< began + Backstop + Lag /\ began + Budget =< attempt * Budget
  BY <1>1 DEF IInv, WithinBudget
<1>5. attempt * Budget \in Nat
  BY OneMore DEF IInv, Types
<1>6. turn_start' + Larger(Overall, Stall) + Lag =< attempt * Budget
  BY <1>1, <1>4, <1>5 DEF IInv, Types, Budget
<1>. QED BY <1>1, <1>2, <1>3, <1>6 DEF IInv, WithinBudget

LEMMA BodyKeeps == ASSUME IInv, OtherResponse PROVE IInv'
<1>. USE BudgetType, ClockAssumption DEF ClockAssumption
<1>1. /\ at = "headers" /\ at' = "body" /\ now' = now /\ attempt' = attempt /\ began' = now
  BY DEF OtherResponse
<1>2. Types'
  BY <1>1 DEF OtherResponse, IInv, Types, clocks, histories
<1>3. now =< began + Backstop + Lag /\ began + Budget =< attempt * Budget
  BY <1>1 DEF IInv, WithinBudget
<1>4. attempt * Budget \in Nat
  BY OneMore DEF IInv, Types
<1>5. now + Larger(Overall, Stall) + Lag =< attempt * Budget
  BY <1>3, <1>4 DEF IInv, Types, Budget
<1>. QED BY <1>1, <1>2, <1>5 DEF IInv, Types, WithinBudget, ReadInTime

LEMMA ReadKeeps == ASSUME IInv, NEW content \in Credits, Read(content) PROVE IInv'
<1>. USE ClockAssumption DEF ClockAssumption
<1>1. /\ at = "reading" /\ at' = at /\ now' = now /\ attempt' = attempt /\ began' = began
      /\ turn_start' = turn_start /\ last_read_at' = now /\ heard_at' = now
  BY DEF Read
<1>2. Types'
  BY <1>1 DEF IInv, Types
<1>3. ReadInTime'
  BY <1>1 DEF IInv, Types, ReadInTime, StallDeadline, StallWindow, OverallEnd
<1>. QED BY <1>1, <1>2, <1>3 DEF IInv, WithinBudget

LEMMA TickKeeps == ASSUME IInv, Tick PROVE IInv'
<1>1. /\ at' = at /\ now' = now /\ attempt' = attempt /\ began' = began
      /\ turn_start' = turn_start /\ last_read_at' = last_read_at /\ heard_at' = heard_at
      /\ first_byte_at' = first_byte_at
  BY DEF Tick
<1>. QED BY <1>1 DEF IInv, Types, ReadInTime, WithinBudget, StallDeadline, StallWindow, OverallEnd

LEMMA StepKeeps == IInv /\ [Next]_vars => IInv'
<1>. SUFFICES ASSUME IInv, [Next]_vars PROVE IInv'
  OBVIOUS
<1>1. CASE Elapse
  BY <1>1, ElapseKeeps
<1>2. CASE HeadersArrive
  BY <1>2, HeadersKeep
<1>3. CASE OtherResponse
  BY <1>3, BodyKeeps
<1>4. CASE HeaderBackstop \/ ConnectError \/ BodyCollected \/ PeerFails
  BY <1>4, EndAttemptKeeps DEF HeaderBackstop, ConnectError, BodyCollected, PeerFails
<1>5. CASE Starved \/ OverallDeadline \/ StallTimeout
  BY <1>5, EndAttemptKeeps DEF Starved, OverallDeadline, StallTimeout
<1>6. CASE \E content \in Credits : Read(content)
  BY <1>6, ReadKeeps
<1>7. CASE Tick
  BY <1>7, TickKeeps
<1>8. CASE Answered
  BY <1>8, ConcludeKeeps DEF Answered
<1>9. CASE UNCHANGED vars \/ Over
  BY <1>9 DEF Over, vars, clocks, histories, IInv, Types, ReadInTime, WithinBudget,
              StallDeadline, StallWindow, OverallEnd
<1>. QED BY <1>1, <1>2, <1>3, <1>4, <1>5, <1>6, <1>7, <1>8, <1>9 DEF Next

(* While an attempt reads, the gap after the last bytes never exceeds the  *)
(* window of openai.rs:271 by more than the delay of the executor.         *)
THEOREM StallSafe == Spec => []StallBounded
<1>1. IInv => StallBounded
  BY ClockAssumption DEF ClockAssumption, IInv, Types, ReadInTime, StallBounded, StallDeadline,
                         StallWindow
<1>. QED BY <1>1, InitHolds, StepKeeps, PTL DEF Spec

(* Reads end with the overall deadline of their attempt, and a turn with   *)
(* all its retries within a bound that depends on the configuration only.  *)
THEOREM TurnSafe == Spec => []TurnBounded
<1>1. IInv => TurnBounded
  <2>1. SUFFICES ASSUME IInv PROVE TurnBounded
    OBVIOUS
  <2>2. now =< attempt * Budget
    BY <2>1, EndsWithin
  <2>. QED BY <2>1, <2>2, ClockAssumption
           DEF ClockAssumption, IInv, Types, ReadInTime, OverallEnd, TurnBounded, Budget
<1>. QED BY <1>1, InitHolds, StepKeeps, PTL DEF Spec

-----------------------------------------------------------------------------
(* Starvation.  While an attempt reads, its tick is later than any that    *)
(* saw a rich second, and the clock of the starvation runs from a later    *)
(* tick still; when it has ended as starved, that clock has run out.       *)

RichIsPast ==
  /\ next_tick \in Nat /\ ema \in Nat /\ content_bytes_this_sec \in Nat
  /\ starved_since \subseteq Nat
  /\ \A f \in fast : f < next_tick
  /\ \A f \in fast, s \in starved_since : f < s

SInv == /\ Types
        /\ fast \subseteq 0..now
        /\ at = "reading" => RichIsPast /\ cause = "none"
        /\ StarvedIsSlow

(* The average after a rich second is at least the floor, whatever it was. *)
LEMMA RichRepairs ==
  ASSUME NEW e \in Nat, NEW c \in Nat, NEW F \in Nat, NEW S \in Nat, 2 * c >= 5 * F
  PROVE  (3 * e + 2 * S * c) \div 5 >= F * S
<1>. DEFINE d == 2 * c - 5 * F
            p == F * S
            q == S * d
            x == 3 * e + 2 * S * c
<1>1. d \in Nat /\ p \in Nat
  OBVIOUS
<1>2. q \in Nat
  BY <1>1
<1>3. 2 * S * c = 5 * p + q
  <2>1. 2 * S * c = S * (2 * c)
    OBVIOUS
  <2>2. 2 * c = 5 * F + d
    OBVIOUS
  <2>3. S * (5 * F + d) = 5 * (F * S) + S * d
    BY <1>1
  <2>. QED BY <2>1, <2>2, <2>3
<1>4. x \in Nat /\ x >= 5 * p
  BY <1>1, <1>2, <1>3
<1>. HIDE DEF p, q, x
<1>5. x \div 5 >= p
  BY <1>1, <1>4
<1>. QED BY <1>5 DEF p, x

LEMMA AverageIsNatural ==
  ASSUME NEW e \in Nat, NEW c \in Nat, NEW S \in Nat
  PROVE  (3 * e + 2 * S * c) \div 5 \in Nat
<1>. DEFINE x == 3 * e + 2 * S * c
<1>1. x \in Nat
  OBVIOUS
<1>. HIDE DEF x
<1>2. x \div 5 \in Nat
  BY <1>1
<1>. QED BY <1>2 DEF x

(* The tick that is scheduled next lies ahead, by a second at most.        *)
LEMMA NextTickBound ==
  ASSUME now \in Nat, next_tick \in Nat
  PROVE  NextTick \in Nat /\ NextTick > now /\ NextTick =< now + Second
<1>1. Second \in Nat /\ Second > 0
  BY ClockAssumption DEF ClockAssumption
<1>2. (now - next_tick) % Second \in 0..(Second - 1)
  BY <1>1
<1>. QED BY <1>1, <1>2 DEF NextTick

LEMMA SinceType ==
  ASSUME Types, RichIsPast
  PROVE  /\ NewAverage \in Nat
         /\ StarvedSince \in {{}, starved_since, {now}}
         /\ RepairsAverage => StarvedSince = {}
<1>. USE ClockAssumption DEF ClockAssumption
<1>1. NewAverage \in Nat
  BY AverageIsNatural DEF RichIsPast, NewAverage
<1>2. StarvedSince \in {{}, starved_since, {now}}
  BY DEF StarvedSince
<1>3. ASSUME RepairsAverage PROVE StarvedSince = {}
  <2>1. NewAverage >= Floor * Scale
    BY <1>3, RichRepairs DEF RichIsPast, RepairsAverage, NewAverage
  <2>. QED BY <2>1 DEF StarvedSince
<1>. QED BY <1>1, <1>2, <1>3

LEMMA StarvedOnlyNow ==
  ASSUME SInv, NEW c, NEW to \in {"headers", "over"}, Conclude(c, to),
         \/ to = "headers" /\ attempt' = attempt + 1 /\ began' = now
         \/ to = "over" /\ UNCHANGED <<attempt, began>>,
         c = "throughput_starved" => \A f \in fast : now - f > Sustained
  PROVE  SInv'
<1>1. Types'
  BY DEF SInv, Types, Conclude, Locals
<1>2. now' = now /\ fast' = fast /\ cause' = c /\ at' # "reading"
  BY DEF Conclude
<1>. QED BY <1>1, <1>2 DEF SInv, StarvedIsSlow

LEMMA StarvedEnd ==
  ASSUME SInv, NEW c, EndAttempt(c),
         c = "throughput_starved" => \A f \in fast : now - f > Sustained
  PROVE  SInv'
<1>1. CASE attempt =< Allowance
  BY <1>1, StarvedOnlyNow DEF EndAttempt
<1>2. CASE ~(attempt =< Allowance)
  BY <1>2, StarvedOnlyNow DEF EndAttempt
<1>. QED BY <1>1, <1>2

LEMMA StarvedSlow == ASSUME SInv, Starved PROVE \A f \in fast : now - f > Sustained
<1>. USE ClockAssumption DEF ClockAssumption
<1>1. at = "reading" /\ RichIsPast /\ Types /\ fast \subseteq Nat /\ now >= next_tick
  BY DEF Starved, TickDue, SInv, Types
<1>2. PICK since \in StarvedSince : now - since >= Sustained
  BY DEF Starved, IsStarved
<1>. SUFFICES ASSUME NEW f \in fast PROVE now - f > Sustained
  OBVIOUS
<1>3. now \in Nat /\ next_tick \in Nat /\ f \in Nat /\ f < next_tick
  BY <1>1 DEF Types, RichIsPast
<1>4. CASE since \in starved_since
  <2>1. since \in Nat /\ f < since
    BY <1>1, <1>4 DEF RichIsPast
  <2>. QED BY <1>2, <1>3, <2>1
<1>5. CASE since = now
  BY <1>1, <1>2, <1>3, <1>5
<1>. QED BY <1>1, <1>2, <1>4, <1>5, SinceType

LEMMA StarvedTick == ASSUME SInv, Tick PROVE SInv'
<1>1. /\ at = "reading" /\ RichIsPast /\ Types /\ fast \subseteq 0..now /\ now >= next_tick
      /\ cause = "none"
  BY DEF Tick, TickDue, SInv
<1>2. /\ at' = at /\ now' = now /\ cause' = cause /\ next_tick' = NextTick
      /\ Types'
  BY <1>1 DEF Tick, Types
<1>3. now \in Nat /\ next_tick \in Nat /\ next_tick' \in Nat /\ next_tick' > now
  BY <1>1, <1>2, NextTickBound DEF Types, RichIsPast
<1>4. CASE first_byte_at = {}
  <2>1. UNCHANGED <<average, fast>>
    BY <1>4 DEF Tick
  <2>2. RichIsPast'
    BY <1>1, <1>2, <1>3, <2>1 DEF RichIsPast, average
  <2>. QED BY <1>1, <1>2, <2>1, <2>2 DEF SInv, StarvedIsSlow
<1>5. CASE first_byte_at # {}
  <2>1. /\ ema' = NewAverage /\ starved_since' = StarvedSince /\ content_bytes_this_sec' = 0
        /\ fast' = IF RepairsAverage THEN {now} ELSE fast
    BY <1>5 DEF Tick, Evaluate
  <2>2. fast' \subseteq 0..now
    BY <1>1, <1>3, <2>1
  <2>3. ema' \in Nat /\ starved_since' \subseteq Nat
    BY <1>1, <1>3, <2>1, SinceType DEF RichIsPast
  <2>4. \A f \in fast' : f < next_tick'
    BY <1>3, <2>2
  <2>5. ASSUME NEW f \in fast', NEW s \in starved_since' PROVE f < s
    <3>1. ~RepairsAverage /\ f \in fast
      BY <1>1, <2>1, <2>5, SinceType
    <3>2. CASE s \in starved_since
      BY <1>1, <3>1, <3>2 DEF RichIsPast
    <3>3. CASE s = now
      BY <1>1, <1>3, <3>1, <3>3 DEF RichIsPast
    <3>. QED BY <1>1, <2>1, <2>5, <3>2, <3>3, SinceType
  <2>6. RichIsPast'
    BY <1>3, <2>1, <2>3, <2>4, <2>5 DEF RichIsPast
  <2>. QED BY <1>1, <1>2, <2>2, <2>6 DEF SInv, StarvedIsSlow
<1>. QED BY <1>4, <1>5

LEMMA StarvedRead == ASSUME SInv, NEW content \in Credits, Read(content) PROVE SInv'
<1>1. /\ at = "reading" /\ at' = at /\ now' = now /\ cause' = cause /\ fast' = fast
      /\ UNCHANGED <<attempt, began, turn_start, next_tick, ema, starved_since>>
      /\ last_read_at' = now /\ heard_at' = now
      /\ content_bytes_this_sec' = content_bytes_this_sec + content
  BY DEF Read, Credit
<1>2. content \in Nat
  BY ClockAssumption DEF ClockAssumption
<1>3. Types'
  BY <1>1 DEF SInv, Types
<1>4. RichIsPast'
  BY <1>1, <1>2 DEF SInv, RichIsPast
<1>. QED BY <1>1, <1>3, <1>4 DEF SInv, StarvedIsSlow

LEMMA StarvedHeaders == ASSUME SInv, HeadersArrive PROVE SInv'
<1>1. /\ now' = now /\ cause' = "none" /\ fast' = {} /\ next_tick' = now /\ ema' = 0
      /\ starved_since' = {} /\ content_bytes_this_sec' = 0 /\ at' = "reading"
      /\ UNCHANGED <<attempt, began>> /\ turn_start' = now /\ last_read_at' = now /\ heard_at' = now
  BY DEF HeadersArrive, Locals
<1>2. Types'
  BY <1>1 DEF SInv, Types
<1>3. RichIsPast'
  BY <1>1 DEF SInv, Types, RichIsPast
<1>. QED BY <1>1, <1>2, <1>3 DEF SInv, StarvedIsSlow

LEMMA StarvedElapse == ASSUME SInv, Elapse PROVE SInv'
<1>1. /\ now' = now + 1 /\ at' = at /\ cause' = cause /\ fast' = fast
      /\ UNCHANGED <<attempt, began, turn_start, last_read_at, heard_at>>
      /\ UNCHANGED <<next_tick, ema, starved_since, content_bytes_this_sec>>
  BY DEF Elapse, clocks, average, histories
<1>2. Types' /\ now \in Nat /\ fast' \subseteq 0..now'
  BY <1>1 DEF SInv, Types
<1>3. RichIsPast' = RichIsPast
  BY <1>1 DEF RichIsPast
<1>4. StarvedIsSlow'
  BY <1>1, <1>2, ClockAssumption DEF ClockAssumption, SInv, StarvedIsSlow
<1>. QED BY <1>1, <1>2, <1>3, <1>4 DEF SInv

LEMMA StarvedBody == ASSUME SInv, OtherResponse PROVE SInv'
<1>1. /\ at' = "body" /\ began' = now
      /\ UNCHANGED <<now, attempt, cause, fast, turn_start, last_read_at, heard_at>>
  BY DEF OtherResponse, clocks, histories
<1>2. Types'
  BY <1>1 DEF SInv, Types
<1>. QED BY <1>1, <1>2 DEF SInv, StarvedIsSlow

LEMMA StarvedInit == Init => SInv
BY DEF Init, SInv, Types, StarvedIsSlow

LEMMA StarvedKeeps == SInv /\ [Next]_vars => SInv'
<1>. SUFFICES ASSUME SInv, [Next]_vars PROVE SInv'
  OBVIOUS
<1>1. CASE Elapse
  BY <1>1, StarvedElapse
<1>2. CASE HeadersArrive
  BY <1>2, StarvedHeaders
<1>3. CASE OtherResponse
  BY <1>3, StarvedBody
<1>4. CASE HeaderBackstop \/ ConnectError \/ BodyCollected \/ PeerFails
  BY <1>4, StarvedEnd DEF HeaderBackstop, ConnectError, BodyCollected, PeerFails
<1>5. CASE Starved
  BY <1>5, StarvedSlow, StarvedEnd DEF Starved
<1>6. CASE OverallDeadline \/ StallTimeout
  BY <1>6, StarvedEnd DEF OverallDeadline, StallTimeout
<1>7. CASE \E content \in Credits : Read(content)
  BY <1>7, StarvedRead
<1>8. CASE Tick
  BY <1>8, StarvedTick
<1>9. CASE Answered
  BY <1>9, StarvedOnlyNow DEF Answered
<1>10. CASE UNCHANGED vars \/ Over
  BY <1>10 DEF Over, vars, clocks, average, histories, SInv, Types, RichIsPast, StarvedIsSlow
<1>. QED BY <1>1, <1>2, <1>3, <1>4, <1>5, <1>6, <1>7, <1>8, <1>9, <1>10 DEF Next

(* For every floor, scale and sustained time: an attempt that is ended as  *)
(* starved has had no second of two and a half times the floor within the  *)
(* sustained time (eval_throughput).                                       *)
THEOREM StarvationSafe == Spec => []StarvedIsSlow
<1>1. SInv => StarvedIsSlow
  BY DEF SInv
<1>. QED BY <1>1, StarvedInit, StarvedKeeps, PTL DEF Spec

-----------------------------------------------------------------------------
(* Comments only.  The average is zero from the first tick on, so the      *)
(* tick that sees the warm-up complete starts the clock of the starvation, *)
(* and no tick passes once that clock has run out: the next tick is always *)
(* scheduled before it, and is not late by more than Lag.                  *)

Ticking ==
  /\ now =< next_tick + Lag /\ next_tick =< now + Second
  /\ first_byte_at = {} => starved_since = {}

Silent ==
  /\ ema = 0 /\ content_bytes_this_sec = 0
  /\ \A fb \in first_byte_at :
       /\ starved_since = {} => next_tick < fb + 2 * Second
       /\ \A s \in starved_since : /\ s < fb + 2 * Second + Lag
                                   /\ next_tick < s + Second + Sustained

Instants == /\ now \in Nat /\ next_tick \in Nat
            /\ first_byte_at \subseteq Nat /\ starved_since \subseteq Nat

QInv == /\ Instants
        /\ at = "reading" => Ticking /\ (Floor > 0 /\ ~spoke => Silent)

LEMMA Positive == ASSUME NEW a \in Nat \ {0}, NEW b \in Nat \ {0} PROVE a * b > 0
OBVIOUS

(* Nothing came: the clock runs from the first tick after the warm-up.     *)
LEMMA SilentSince ==
  ASSUME ema = 0, content_bytes_this_sec = 0, Floor > 0
  PROVE  /\ NewAverage = 0
         /\ StarvedSince = IF ~Warmed THEN {} ELSE IF starved_since # {} THEN starved_since ELSE {now}
<1>. USE ClockAssumption DEF ClockAssumption
<1>1. 2 * Scale * 0 = 0
  OBVIOUS
<1>2. NewAverage = 0
  BY <1>1 DEF NewAverage
<1>3. Floor * Scale > 0
  BY Positive
<1>4. ~(NewAverage >= Floor * Scale)
  BY <1>2, <1>3
<1>. QED BY <1>2, <1>4 DEF StarvedSince

LEMMA SilentTick ==
  ASSUME QInv, Tick, Floor > 0, ~spoke, first_byte_at # {}
  PROVE  Silent'
<1>. USE ClockAssumption DEF ClockAssumption
<1>1. at = "reading" /\ Instants /\ Ticking /\ Silent
  BY DEF Tick, TickDue, QInv
<1>2. /\ ema' = NewAverage /\ starved_since' = StarvedSince /\ content_bytes_this_sec' = 0
      /\ next_tick' = NextTick /\ first_byte_at' = first_byte_at /\ ~IsStarved
  BY DEF Tick, Evaluate
<1>3. /\ NewAverage = 0
      /\ StarvedSince = IF ~Warmed THEN {} ELSE IF starved_since # {} THEN starved_since ELSE {now}
  BY <1>1, SilentSince DEF Silent
<1>4. now \in Nat /\ next_tick \in Nat /\ NextTick \in Nat /\ NextTick =< now + Second
  BY <1>1, NextTickBound DEF Instants
<1>. SUFFICES ASSUME NEW fb \in first_byte_at
              PROVE  /\ starved_since' = {} => next_tick' < fb + 2 * Second
                     /\ \A s \in starved_since' : /\ s < fb + 2 * Second + Lag
                                                  /\ next_tick' < s + Second + Sustained
  BY <1>2, <1>3 DEF Silent
<1>5. fb \in Nat
  BY <1>1 DEF Instants
<1>6. CASE ~Warmed
  <2>1. now - fb < Second
    BY <1>4, <1>5, <1>6 DEF Warmed
  <2>. QED BY <1>2, <1>3, <1>4, <1>5, <1>6, <2>1
<1>7. ASSUME Warmed, NEW s \in StarvedSince
      PROVE  s \in Nat /\ s < fb + 2 * Second + Lag /\ NextTick < s + Second + Sustained
  <2>1. s \in Nat /\ s < fb + 2 * Second + Lag
    <3>1. CASE s \in starved_since
      BY <1>1, <3>1 DEF Instants, Silent
    <3>2. CASE starved_since = {} /\ s = now
      BY <1>1, <1>4, <1>5, <3>2 DEF Ticking, Silent
    <3>. QED BY <1>3, <1>7, <3>1, <3>2
  <2>2. ~(now - s >= Sustained)
    BY <1>2, <1>7 DEF IsStarved
  <2>. QED BY <1>4, <2>1, <2>2
<1>8. CASE Warmed
  <2>1. StarvedSince # {}
    BY <1>3, <1>8
  <2>. QED BY <1>2, <1>7, <1>8, <2>1
<1>. QED BY <1>6, <1>8

LEMMA QuietTick == ASSUME QInv, Tick PROVE QInv'
<1>1. /\ at = "reading" /\ Instants /\ Ticking /\ (Floor > 0 /\ ~spoke => Silent)
      /\ now >= next_tick
  BY DEF Tick, TickDue, QInv
<1>2. /\ now' = now /\ at' = at /\ spoke' = spoke /\ first_byte_at' = first_byte_at
      /\ next_tick' = NextTick
  BY DEF Tick
<1>3. now \in Nat /\ NextTick \in Nat /\ NextTick > now /\ NextTick =< now + Second /\ Lag \in Nat
  BY <1>1, NextTickBound, ClockAssumption DEF Instants, ClockAssumption
<1>4. CASE first_byte_at = {}
  <2>1. UNCHANGED average
    BY <1>4 DEF Tick
  <2>2. Instants' /\ Ticking'
    BY <1>1, <1>2, <1>3, <2>1 DEF Instants, Ticking, average
  <2>3. Floor > 0 /\ ~spoke => Silent'
    BY <1>1, <1>2, <1>4, <2>1 DEF Silent, average
  <2>. QED BY <1>2, <2>2, <2>3 DEF QInv
<1>5. CASE first_byte_at # {}
  <2>1. starved_since' = StarvedSince
    BY <1>5 DEF Tick, Evaluate
  <2>2. starved_since' \subseteq Nat
    BY <1>1, <1>3, <2>1 DEF StarvedSince, Instants
  <2>3. Instants'
    BY <1>1, <1>2, <1>3, <2>2 DEF Instants
  <2>4. Ticking'
    BY <1>2, <1>3, <1>5 DEF Ticking
  <2>5. Floor > 0 /\ ~spoke => Silent'
    BY <1>5, SilentTick
  <2>. QED BY <1>2, <2>3, <2>4, <2>5 DEF QInv
<1>. QED BY <1>4, <1>5

LEMMA QuietRead == ASSUME QInv, NEW content \in Credits, Read(content) PROVE QInv'
<1>. USE ClockAssumption DEF ClockAssumption
<1>1. at = "reading" /\ Instants /\ Ticking /\ (Floor > 0 /\ ~spoke => Silent)
  BY DEF Read, QInv
<1>2. /\ now' = now /\ at' = at /\ next_tick' = next_tick /\ ema' = ema
      /\ starved_since' = starved_since
      /\ first_byte_at' = IF first_byte_at = {} THEN {now} ELSE first_byte_at
      /\ content_bytes_this_sec' = content_bytes_this_sec + content
      /\ spoke' = (spoke \/ content > 0)
  BY DEF Read, Credit
<1>3. content \in Nat
  OBVIOUS
<1>4. Instants' /\ Ticking'
  BY <1>1, <1>2 DEF Instants, Ticking
<1>5. ASSUME Floor > 0, ~spoke' PROVE Silent'
  <2>1. ~(spoke \/ content > 0)
    BY <1>2, <1>5, Zenon
  <2>2. ~spoke /\ content = 0
    BY <1>3, <2>1
  <2>3. Silent
    BY <1>1, <1>5, <2>2, Zenon
  <2>4. ema' = 0 /\ content_bytes_this_sec' = 0
    BY <1>2, <2>2, <2>3 DEF Silent
  <2>5. CASE first_byte_at # {}
    BY <1>2, <2>3, <2>4, <2>5 DEF Silent
  <2>6. CASE first_byte_at = {}
    <3>1. first_byte_at' = {now} /\ starved_since' = {} /\ next_tick' =< now + Second
      BY <1>1, <1>2, <2>6 DEF Ticking
    <3>2. next_tick' < now + 2 * Second
      BY <1>1, <1>2, <3>1 DEF Instants
    <3>. QED BY <2>4, <3>1, <3>2 DEF Silent
  <2>. QED BY <2>5, <2>6
<1>. QED BY <1>2, <1>4, <1>5 DEF QInv

LEMMA QuietElapse == ASSUME QInv, Elapse PROVE QInv'
<1>. USE ClockAssumption DEF ClockAssumption
<1>1. /\ now' = now + 1 /\ at' = at
      /\ UNCHANGED <<next_tick, first_byte_at, ema, starved_since, content_bytes_this_sec, spoke>>
  BY DEF Elapse, clocks, average, histories
<1>2. Instants'
  BY <1>1 DEF QInv, Instants
<1>3. ASSUME at = "reading" PROVE Ticking'
  <2>1. now < next_tick + Lag
    BY <1>3 DEF Elapse, Deadlines
  <2>. QED BY <1>1, <1>3, <2>1 DEF QInv, Instants, Ticking
<1>4. Silent' = Silent
  BY <1>1 DEF Silent
<1>. QED BY <1>1, <1>2, <1>3, <1>4 DEF QInv

LEMMA QuietEnd ==
  ASSUME QInv, NEW c, NEW to \in {"headers", "over"}, Conclude(c, to)
  PROVE  QInv'
<1>1. /\ now' = now /\ next_tick' = 0 /\ first_byte_at' = {} /\ starved_since' = {}
      /\ at' # "reading"
  BY DEF Conclude, Locals
<1>. QED BY <1>1 DEF QInv, Instants

LEMMA QuietStep == QInv /\ [Next]_vars => QInv'
<1>. SUFFICES ASSUME QInv, [Next]_vars PROVE QInv'
  OBVIOUS
<1>1. CASE HeadersArrive
  <2>1. /\ now' = now /\ at' = "reading" /\ next_tick' = now /\ first_byte_at' = {}
        /\ ema' = 0 /\ starved_since' = {} /\ content_bytes_this_sec' = 0
    BY <1>1 DEF HeadersArrive, Locals
  <2>. QED BY <2>1, ClockAssumption DEF ClockAssumption, QInv, Instants, Ticking, Silent
<1>2. CASE OtherResponse
  <2>1. now' = now /\ at' = "body" /\ UNCHANGED <<next_tick, first_byte_at, starved_since>>
    BY <1>2 DEF OtherResponse, clocks, average
  <2>. QED BY <2>1 DEF QInv, Instants
<1>3. ASSUME NEW c, EndAttempt(c) PROVE QInv'
  BY <1>3, QuietEnd DEF EndAttempt
<1>4. CASE HeaderBackstop \/ ConnectError \/ BodyCollected \/ PeerFails
  BY <1>3, <1>4 DEF HeaderBackstop, ConnectError, BodyCollected, PeerFails
<1>5. CASE Starved \/ OverallDeadline \/ StallTimeout
  BY <1>3, <1>5 DEF Starved, OverallDeadline, StallTimeout
<1>6. CASE Answered
  BY <1>6, QuietEnd DEF Answered
<1>7. CASE UNCHANGED vars \/ Over
  BY <1>7 DEF Over, vars, clocks, average, histories, QInv, Instants, Ticking, Silent
<1>. QED BY <1>1, <1>2, <1>4, <1>5, <1>6, <1>7, QuietTick, QuietRead, QuietElapse DEF Next

(* README.md:161, for every floor above zero and all delays of the         *)
(* executor: an attempt that hears comments only is read for less than     *)
(* three seconds and the sustained time after its first byte.              *)
THEOREM CommentsSafe == Spec => []CommentsStarve
<1>1. Init => QInv
  BY DEF Init, QInv, Instants
<1>2. QInv => CommentsStarve
  <2>. SUFFICES ASSUME QInv, at = "reading", ~spoke, Floor > 0, NEW fb \in first_byte_at
                PROVE  now - fb < 3 * Second + Sustained + 2 * Lag
    BY DEF CommentsStarve
  <2>. USE ClockAssumption DEF ClockAssumption
  <2>1. Instants /\ Ticking /\ Silent /\ fb \in Nat
    BY DEF QInv, Instants
  <2>2. CASE starved_since = {}
    BY <2>1, <2>2 DEF Instants, Ticking, Silent
  <2>3. ASSUME NEW s \in starved_since PROVE now - fb < 3 * Second + Sustained + 2 * Lag
    BY <2>1, <2>3 DEF Instants, Ticking, Silent
  <2>. QED BY <2>2, <2>3
<1>. QED BY <1>1, <1>2, QuietStep, PTL DEF Spec

-----------------------------------------------------------------------------
(* Types.  The content of a second is at most what one read per instant    *)
(* brings since the last tick, and that one was at most a second before    *)
(* the next; the average does not exceed it; and ticks stay at whole       *)
(* seconds because a late one skips whole seconds.                         *)

Credited ==
  /\ content_bytes_this_sec \in Nat
  /\ first_byte_at = {} => content_bytes_this_sec = 0
  /\ content_bytes_this_sec # 0
       => content_bytes_this_sec =< ((last_read_at + 1 + Second) - next_tick) * Richest

Scheduled == /\ now =< next_tick + Lag
             /\ (next_tick - turn_start) % Second = 0

Causes == {"none", "first_byte_backstop", "connect_error", "http_error", "peer",
           "throughput_starved", "overall_deadline", "stall_timeout", "answered"}

Shape == /\ now \in Nat /\ began \in 0..now
         /\ at \in {"headers", "body", "reading", "over"}
         /\ attempt \in 1..(Allowance + 1)
         /\ turn_start \in 0..now /\ last_read_at \in 0..now /\ heard_at \in 0..now
         /\ Option(first_byte_at) /\ Option(starved_since) /\ Option(fast)
         /\ next_tick \in Nat /\ next_tick =< now + Second
         /\ ema \in 0..(Scale * MostInATick)
         /\ cause \in Causes
         /\ spoke \in BOOLEAN

TInv == /\ Shape
        /\ at = "reading" => Scheduled /\ Credited
        /\ at # "reading" => content_bytes_this_sec = 0

LEMMA RichestRead == Richest \in Nat /\ \A c \in Credits : c =< Richest
<1>1. \E c \in Credits : \A d \in Credits : d =< c
  BY ClockAssumption DEF ClockAssumption
<1>2. Richest \in Credits /\ \A c \in Credits : c =< Richest
  BY <1>1 DEF Richest
<1>. QED BY <1>2, ClockAssumption DEF ClockAssumption

LEMMA MostType == MostInATick \in Nat /\ Scale * MostInATick \in Nat
<1>1. MostInATick \in Nat
  BY RichestRead, ClockAssumption DEF ClockAssumption, MostInATick
<1>. QED BY <1>1, ClockAssumption DEF ClockAssumption

LEMMA Monotone ==
  ASSUME NEW r \in Nat, NEW a \in Int, NEW b \in Int, a =< b
  PROVE  a * r =< b * r
<1>1. (b - a) * r \in Nat /\ b - a \in Nat
  OBVIOUS
<1>2. b * r = a * r + (b - a) * r
  OBVIOUS
<1>. QED BY <1>1, <1>2

LEMMA Quotient ==
  ASSUME NEW m \in Nat \ {0}, NEW x \in Int
  PROVE  \E k \in Int : x = m * k + (x % m)
<1>. x = m * (x \div m) + (x % m) /\ x \div m \in Int
  OBVIOUS
<1>. QED OBVIOUS

(* Whole seconds later is at a whole second again.                         *)
LEMMA WholeSeconds ==
  ASSUME NEW m \in Nat \ {0}, NEW a \in Int, NEW x \in Int, a % m = 0
  PROVE  ((a + m) + (x - (x % m))) % m = 0
<1>1. PICK k \in Int : a = m * k
  BY Quotient
<1>2. PICK l \in Int : x = m * l + (x % m)
  BY Quotient
<1>3. x - (x % m) = m * l
  <2>1. m * l \in Int /\ x % m \in Int
    OBVIOUS
  <2>. QED BY <1>2, <2>1
<1>4. (a + m) + m * l = m * (k + 1 + l)
  BY <1>1
<1>5. (m * (k + 1 + l)) % m = 0
  OBVIOUS
<1>. QED BY <1>3, <1>4, <1>5, Zenon

(* An average of what is within a bound is within the bound.               *)
LEMMA AverageBound ==
  ASSUME NEW S \in Nat, NEW M \in Nat, NEW e \in 0..(S * M), NEW c \in 0..M
  PROVE  (3 * e + 2 * S * c) \div 5 \in 0..(S * M)
<1>. DEFINE p == S * M
            x == 3 * e + 2 * S * c
<1>1. p \in Nat /\ S * c \in Nat
  OBVIOUS
<1>2. S * c =< p
  <2>1. c * S =< M * S
    BY Monotone
  <2>. QED BY <2>1
<1>3. 2 * S * c = 2 * (S * c)
  OBVIOUS
<1>4. x \in Nat /\ x =< 5 * p
  BY <1>1, <1>2, <1>3
<1>. HIDE DEF p, x
<1>5. x \div 5 \in 0..p
  BY <1>1, <1>4
<1>. QED BY <1>5 DEF p, x

(* What the content of a second comes to.                                  *)
LEMMA CreditBound ==
  ASSUME Shape, Scheduled, Credited
  PROVE  content_bytes_this_sec \in 0..MostInATick
<1>. USE ClockAssumption DEF ClockAssumption
<1>. DEFINE span == (last_read_at + 1 + Second) - next_tick
            most == Second + Lag + 1
<1>1. span \in Int /\ most \in Int /\ span =< most
  BY DEF Shape, Scheduled
<1>. HIDE DEF span, most
<1>2. span * Richest =< most * Richest
  BY <1>1, RichestRead, Monotone
<1>3. span * Richest \in Int /\ most * Richest \in Int
  BY <1>1, RichestRead
<1>4. most * Richest = MostInATick
  BY DEF MostInATick, most
<1>5. content_bytes_this_sec # 0 => content_bytes_this_sec =< span * Richest
  BY DEF Credited, span
<1>6. content_bytes_this_sec \in Nat
  BY DEF Credited
<1>. QED BY <1>2, <1>3, <1>4, <1>5, <1>6, MostType

LEMMA TypeTick == ASSUME TInv, Tick PROVE TInv'
<1>. USE ClockAssumption DEF ClockAssumption
<1>1. at = "reading" /\ Shape /\ Scheduled /\ Credited /\ now >= next_tick
  BY DEF Tick, TickDue, TInv
<1>2. /\ next_tick' = NextTick
      /\ UNCHANGED <<now, at, attempt, began, turn_start, last_read_at, first_byte_at, cause,
                     heard_at, spoke>>
  BY DEF Tick
<1>3. /\ NextTick \in Nat /\ NextTick > now /\ NextTick =< now + Second
      /\ now \in Nat /\ next_tick \in Nat /\ turn_start \in Nat
  BY <1>1, NextTickBound DEF Shape
<1>4. (next_tick' - turn_start') % Second = 0
  <2>. DEFINE a == next_tick - turn_start
              x == now - next_tick
  <2>1. a \in Int /\ x \in Int /\ a % Second = 0 /\ x % Second \in Int
    BY <1>1, <1>3 DEF Scheduled
  <2>2. ((a + Second) + (x - (x % Second))) % Second = 0
    BY <2>1, WholeSeconds
  <2>3. NextTick = (now + Second) - (x % Second)
    BY DEF NextTick
  <2>4. \A y \in Int : ((now + Second) - y) - turn_start = (a + Second) + (x - y)
    BY <1>3
  <2>5. next_tick' - turn_start' = (a + Second) + (x - (x % Second))
    BY <1>2, <2>1, <2>3, <2>4
  <2>. QED BY <2>2, <2>5, Zenon
<1>5. Scheduled'
  BY <1>2, <1>3, <1>4 DEF Scheduled
<1>6. CASE first_byte_at = {}
  <2>1. UNCHANGED <<ema, starved_since, content_bytes_this_sec, fast>>
    BY <1>6 DEF Tick, average
  <2>2. Shape'
    BY <1>1, <1>2, <1>3, <2>1 DEF Shape
  <2>3. Credited'
    BY <1>1, <1>2, <1>6, <2>1 DEF Credited
  <2>. QED BY <1>1, <1>2, <1>5, <2>2, <2>3 DEF TInv
<1>7. CASE first_byte_at # {}
  <2>1. /\ ema' = NewAverage /\ starved_since' = StarvedSince /\ content_bytes_this_sec' = 0
        /\ fast' = IF RepairsAverage THEN {now} ELSE fast
    BY <1>7 DEF Tick, Evaluate
  <2>2. NewAverage \in 0..(Scale * MostInATick)
    BY <1>1, CreditBound, AverageBound, MostType DEF NewAverage, Shape
  <2>3. Option(starved_since') /\ Option(fast')
    BY <1>1, <1>3, <2>1 DEF Shape, Option, StarvedSince
  <2>4. Shape'
    BY <1>1, <1>2, <1>3, <2>1, <2>2, <2>3 DEF Shape
  <2>5. Credited'
    BY <2>1 DEF Credited
  <2>. QED BY <1>1, <1>2, <1>5, <2>4, <2>5 DEF TInv
<1>. QED BY <1>6, <1>7

LEMMA TypeRead == ASSUME TInv, NEW content \in Credits, Read(content) PROVE TInv'
<1>. USE ClockAssumption DEF ClockAssumption
<1>1. /\ at = "reading" /\ Shape /\ Scheduled /\ Credited
      /\ last_read_at < now \/ first_byte_at = {}
  BY DEF Read, TInv
<1>2. /\ UNCHANGED <<now, at, attempt, began, turn_start, next_tick, ema, starved_since, cause, fast>>
      /\ last_read_at' = now /\ heard_at' = now
      /\ first_byte_at' = IF first_byte_at = {} THEN {now} ELSE first_byte_at
      /\ content_bytes_this_sec' = content_bytes_this_sec + content
      /\ spoke' \in BOOLEAN
  BY DEF Read, Credit
<1>3. content \in Nat /\ content =< Richest /\ Richest \in Nat
  BY RichestRead
<1>4. now \in Nat /\ next_tick \in Nat /\ last_read_at \in Nat /\ next_tick =< now + Second
  BY <1>1 DEF Shape
<1>5. Shape'
  <2>1. Option(first_byte_at')
    BY <1>1, <1>2, <1>4 DEF Shape, Option
  <2>. QED BY <1>1, <1>2, <1>4, <2>1 DEF Shape
<1>6. Scheduled'
  BY <1>1, <1>2 DEF Scheduled
<1>. DEFINE before == (last_read_at + 1 + Second) - next_tick
            span == (now + 1 + Second) - next_tick
<1>7. before \in Int /\ span \in Int /\ 1 =< span /\ (last_read_at < now => before + 1 =< span)
  BY <1>4
<1>8. content_bytes_this_sec \in Nat
      /\ (content_bytes_this_sec # 0 => last_read_at < now /\ content_bytes_this_sec =< before * Richest)
  BY <1>1 DEF Credited
<1>. HIDE DEF before, span
<1>9. content_bytes_this_sec + content =< span * Richest
  <2>1. 1 * Richest = Richest /\ (before + 1) * Richest = before * Richest + Richest
        /\ before * Richest \in Int /\ span * Richest \in Int
    BY <1>3, <1>7
  <2>2. CASE content_bytes_this_sec = 0
    <3>1. 1 * Richest =< span * Richest
      BY <1>3, <1>7, Monotone
    <3>. QED BY <1>3, <2>1, <2>2, <3>1
  <2>3. CASE content_bytes_this_sec # 0
    <3>1. (before + 1) * Richest =< span * Richest
      BY <1>3, <1>7, <1>8, <2>3, Monotone
    <3>. QED BY <1>3, <1>8, <2>1, <2>3, <3>1
  <2>. QED BY <2>2, <2>3
<1>10. Credited'
  <2>1. first_byte_at' # {}
    BY <1>2
  <2>. QED BY <1>2, <1>3, <1>8, <1>9, <2>1 DEF Credited, span
<1>. QED BY <1>1, <1>2, <1>5, <1>6, <1>10 DEF TInv

LEMMA TypeElapse == ASSUME TInv, Elapse PROVE TInv'
<1>. USE ClockAssumption DEF ClockAssumption
<1>1. /\ now' = now + 1
      /\ UNCHANGED <<at, attempt, began, turn_start, last_read_at, next_tick, first_byte_at, ema,
                     starved_since, content_bytes_this_sec, cause, heard_at, spoke, fast>>
  BY DEF Elapse, clocks, average, histories
<1>2. Shape'
  BY <1>1 DEF TInv, Shape
<1>3. ASSUME at = "reading" PROVE Scheduled' /\ Credited'
  <2>1. now < next_tick + Lag
    BY <1>3 DEF Elapse, Deadlines
  <2>2. Scheduled /\ Credited /\ now \in Nat /\ next_tick \in Nat
    BY <1>3 DEF TInv, Shape
  <2>3. Scheduled'
    BY <1>1, <2>1, <2>2 DEF Scheduled
  <2>. QED BY <1>1, <2>2, <2>3 DEF Credited
<1>. QED BY <1>1, <1>2, <1>3 DEF TInv

LEMMA TypeEnd ==
  ASSUME TInv, NEW c \in Causes, NEW to \in {"headers", "over"}, Conclude(c, to),
         \/ attempt =< Allowance /\ attempt' = attempt + 1 /\ began' = now
         \/ UNCHANGED <<attempt, began>>
  PROVE  TInv'
<1>. USE ClockAssumption DEF ClockAssumption
<1>1. /\ now' = now /\ at' = to /\ cause' = c /\ fast' = fast /\ heard_at' = 0 /\ spoke' = FALSE
      /\ turn_start' = 0 /\ last_read_at' = 0 /\ next_tick' = 0 /\ first_byte_at' = {}
      /\ ema' = 0 /\ starved_since' = {} /\ content_bytes_this_sec' = 0
  BY DEF Conclude, Locals
<1>2. attempt' \in 1..(Allowance + 1) /\ began' \in 0..now
  BY DEF TInv, Shape
<1>3. Option({})
  BY DEF Option
<1>4. now \in Nat /\ Option(fast) /\ 0 \in 0..(Scale * MostInATick) /\ Second \in Nat
  BY MostType DEF TInv, Shape
<1>5. Option(first_byte_at') /\ Option(starved_since') /\ Option(fast')
  BY <1>1, <1>3, <1>4, Zenon
<1>6. now' = now /\ began' \in 0..now /\ attempt' \in 1..(Allowance + 1)
  BY <1>1, <1>2
<1>7. ema' \in 0..(Scale * MostInATick)
  BY <1>1, <1>4
<1>8. next_tick' \in Nat /\ next_tick' =< now + Second
  BY <1>1, <1>4
<1>9. turn_start' \in 0..now /\ last_read_at' \in 0..now /\ heard_at' \in 0..now
  BY <1>1, <1>4
<1>10. Shape'
  BY <1>1, <1>4, <1>5, <1>6, <1>7, <1>8, <1>9 DEF Shape
<1>. QED BY <1>1, <1>10 DEF TInv

LEMMA TypeStep == TInv /\ [Next]_vars => TInv'
<1>. USE ClockAssumption DEF ClockAssumption
<1>. SUFFICES ASSUME TInv, [Next]_vars PROVE TInv'
  OBVIOUS
<1>1. CASE HeadersArrive
  <2>1. /\ now' = now /\ at' = "reading" /\ cause' = "none" /\ fast' = {} /\ heard_at' = now
        /\ turn_start' = now /\ last_read_at' = now /\ next_tick' = now /\ first_byte_at' = {}
        /\ ema' = 0 /\ starved_since' = {} /\ content_bytes_this_sec' = 0
        /\ UNCHANGED <<attempt, began, spoke>>
    BY <1>1 DEF HeadersArrive, Locals
  <2>2. Option({})
    BY DEF Option
  <2>3. Shape'
    BY <2>1, <2>2, MostType DEF TInv, Shape, Causes
  <2>4. (now - now) % Second = 0
    <3>1. now - now = 0
      BY DEF TInv, Shape
    <3>. QED BY <3>1
  <2>5. Scheduled' /\ Credited'
    BY <2>1, <2>4 DEF TInv, Shape, Scheduled, Credited
  <2>. QED BY <2>1, <2>3, <2>5 DEF TInv
<1>2. CASE OtherResponse
  <2>1. /\ now' = now /\ at' = "body" /\ began' = now /\ at # "reading"
        /\ UNCHANGED <<attempt, turn_start, last_read_at, next_tick, first_byte_at, ema,
                       starved_since, content_bytes_this_sec, cause, heard_at, spoke, fast>>
    BY <1>2 DEF OtherResponse, clocks, average, histories
  <2>2. Shape'
    BY <2>1 DEF TInv, Shape
  <2>. QED BY <2>1, <2>2 DEF TInv
<1>3. ASSUME NEW c \in Causes, EndAttempt(c) PROVE TInv'
  <2>1. CASE attempt =< Allowance
    BY <1>3, <2>1, TypeEnd DEF EndAttempt
  <2>2. CASE ~(attempt =< Allowance)
    BY <1>3, <2>2, TypeEnd DEF EndAttempt
  <2>. QED BY <2>1, <2>2
<1>4. CASE HeaderBackstop \/ ConnectError \/ BodyCollected \/ PeerFails
  BY <1>3, <1>4 DEF HeaderBackstop, ConnectError, BodyCollected, PeerFails, Causes
<1>5. CASE Starved \/ OverallDeadline \/ StallTimeout
  BY <1>3, <1>5 DEF Starved, OverallDeadline, StallTimeout, Causes
<1>6. CASE Answered
  BY <1>6, TypeEnd DEF Answered, Causes
<1>7. CASE UNCHANGED vars \/ Over
  BY <1>7 DEF Over, vars, clocks, average, histories, TInv, Shape, Scheduled, Credited
<1>. QED BY <1>1, <1>2, <1>4, <1>5, <1>6, <1>7, TypeTick, TypeRead, TypeElapse DEF Next

(* Every variable has its type: no counter of a second and no average      *)
(* exceeds what the reads can bring, and ticks stay at whole seconds after *)
(* the headers however late the executor comes round.                      *)
THEOREM TypeCorrect == Spec => []TypeOK
<1>1. Init => TInv
  <2>. SUFFICES ASSUME Init PROVE TInv
    OBVIOUS
  <2>1. 0 \in 0..(Scale * MostInATick) /\ 1 \in 1..(Allowance + 1) /\ Second \in Nat
    BY ClockAssumption, MostType DEF ClockAssumption
  <2>2. Option(first_byte_at) /\ Option(starved_since) /\ Option(fast)
    BY DEF Init, Option
  <2>3. ema \in 0..(Scale * MostInATick) /\ attempt \in 1..(Allowance + 1)
    BY <2>1 DEF Init
  <2>4. now = 0 /\ next_tick = 0 /\ next_tick =< now + Second
    BY <2>1 DEF Init
  <2>5. began \in 0..now /\ turn_start \in 0..now /\ last_read_at \in 0..now /\ heard_at \in 0..now
    BY DEF Init
  <2>6. at \in {"headers", "body", "reading", "over"} /\ cause \in Causes /\ spoke \in BOOLEAN
    BY DEF Init, Causes
  <2>7. now \in Nat /\ next_tick \in Nat
    BY <2>4
  <2>8. Shape
    BY <2>2, <2>3, <2>4, <2>5, <2>6, <2>7 DEF Shape
  <2>. QED BY <2>8 DEF Init, TInv
<1>2. TInv => TypeOK
  <2>. SUFFICES ASSUME TInv PROVE TypeOK
    OBVIOUS
  <2>1. content_bytes_this_sec \in 0..MostInATick
    BY CreditBound, MostType DEF TInv
  <2>. QED BY <2>1 DEF TInv, Shape, Scheduled, TypeOK, Causes
<1>. QED BY <1>1, <1>2, TypeStep, PTL DEF Spec

=============================================================================
