------------------------------ MODULE ReadClocks ------------------------------
(***************************************************************************)
(* openai.rs: the clocks of one turn.  Each attempt waits for headers,     *)
(* then reads against a stall deadline, a throughput tick and an overall   *)
(* deadline, which are rebuilt on every wakeup; a clock that fires ends    *)
(* the attempt and the turn may retry.  What the Driver leaves to chance,  *)
(* when a clock may fire, is computed here.                                *)
(*                                                                         *)
(* Time is counted in instants.  It does not pass over an arm of the       *)
(* select that has been ready for Lag instants: select polls fairly, and   *)
(* the executor comes round.  The average is scaled to be an integer.      *)
(***************************************************************************)
EXTENDS Naturals

CONSTANTS Second,      \* instants in a second
          Backstop,    \* first_byte_backstop
          Stall,       \* stall_timeout
          Overall,     \* overall_deadline
          Floor,       \* throughput_floor_bps
          Sustained,   \* throughput_sustained
          Allowance,   \* retry allowance
          Credits,     \* what content one read may bring, in bytes
          Lag,         \* bound on how long a ready arm waits
          Scale        \* of the average, so that its fractions are exact

ASSUME ClockAssumption ==
  /\ \A c \in {Second, Scale} : c \in Nat \ {0}
  /\ \A c \in {Backstop, Stall, Overall, Floor, Sustained, Allowance, Lag} : c \in Nat
  /\ Credits \subseteq Nat
  /\ \E c \in Credits : \A d \in Credits : d =< c

VARIABLES now,             \* instants since execute_turn was called
          at,              \* what the attempt awaits
          attempt,
          began,           \* when the wait for headers or for a body began
          turn_start,      \* when the headers were there (the code's name)
          last_read_at,
          first_byte_at,   \* an option is a set of at most one instant
          next_tick,       \* of throughput_tick
          ema,             \* ema_bps * Scale
          starved_since,
          content_bytes_this_sec,
          cause,           \* why the last attempt ended
          heard_at,        \* history: when bytes came last, or could first
          spoke,           \* history: this attempt has brought content
          fast             \* history: the last tick of the attempt that saw
                           \* so much content that the average was repaired

clocks == <<turn_start, last_read_at, next_tick>>
average == <<ema, starved_since, content_bytes_this_sec>>
histories == <<heard_at, spoke, fast>>
vars == <<now, at, attempt, began, clocks, first_byte_at, average, cause, histories>>

(* The locals of run_attempt, when the loop is entered at instant t.       *)
Locals(t) == /\ turn_start' = t /\ last_read_at' = t /\ next_tick' = t
             /\ first_byte_at' = {}
             /\ ema' = 0 /\ starved_since' = {} /\ content_bytes_this_sec' = 0

Init == /\ now = 0 /\ at = "headers" /\ attempt = 1 /\ began = 0
        /\ turn_start = 0 /\ last_read_at = 0 /\ next_tick = 0
        /\ first_byte_at = {}
        /\ ema = 0 /\ starved_since = {} /\ content_bytes_this_sec = 0
        /\ cause = "none" /\ heard_at = 0 /\ spoke = FALSE /\ fast = {}

-----------------------------------------------------------------------------
(* Deadlines.                                                              *)

StallWindow == IF first_byte_at = {} THEN Backstop ELSE Stall

StallDeadline == last_read_at + StallWindow

(* Mutant of OverallEnd: the ceiling is measured from the last read.       *)
OverallEndMoves == last_read_at + Overall

(* sleep(overall_remaining), however often it is rebuilt.                  *)
OverallEnd == turn_start + Overall

Deadlines == CASE at = "headers" -> {began + Backstop}
               [] at = "body"    -> {began + Stall}
               [] at = "reading" -> {StallDeadline, OverallEnd, next_tick}
               [] at = "over"    -> {now}

Elapse ==
  /\ at # "over"
  /\ \A d \in Deadlines : now < d + Lag
  /\ now' = now + 1
  /\ UNCHANGED <<at, attempt, began, clocks, first_byte_at, average, cause, histories>>

-----------------------------------------------------------------------------
(* The end of an attempt; its locals are gone.                             *)

Conclude(c, to) ==
  /\ cause' = c /\ at' = to
  /\ Locals(0)
  /\ spoke' = FALSE /\ heard_at' = 0
  /\ UNCHANGED <<now, fast>>

(* execute_turn draws on the allowance and dials again at once, or ends.   *)
EndAttempt(c) ==
  IF attempt =< Allowance
  THEN Conclude(c, "headers") /\ attempt' = attempt + 1 /\ began' = now
  ELSE Conclude(c, "over") /\ UNCHANGED <<attempt, began>>

(* Waiting for headers: the peer answers, in time or just when the clock   *)
(* has run out, or not at all.                                             *)
HeadersArrive ==
  /\ at = "headers" /\ at' = "reading"
  /\ Locals(now)
  /\ cause' = "none" /\ fast' = {} /\ heard_at' = now
  /\ UNCHANGED <<now, attempt, began, spoke>>

(* A status or a content type that is not an event stream's: the body is   *)
(* collected under the stall timeout.                                      *)
OtherResponse ==
  /\ at = "headers" /\ at' = "body"
  /\ began' = now
  /\ UNCHANGED <<now, attempt, clocks, first_byte_at, average, cause, histories>>

HeaderBackstop ==
  /\ at = "headers" /\ now >= began + Backstop
  /\ EndAttempt("first_byte_backstop")

ConnectError == at = "headers" /\ EndAttempt("connect_error")

BodyCollected == at = "body" /\ EndAttempt("http_error")

-----------------------------------------------------------------------------
(* The read loop.                                                          *)

(* Mutant of Credit: whatever arrives counts, a comment too.               *)
CreditEverything(content) == content_bytes_this_sec + (IF content = 0 THEN 2 ELSE content)

Credit(content) == content_bytes_this_sec + content

(* One read per instant.  Without content it is a comment, or a fragment   *)
(* of a frame.                                                             *)
Read(content) ==
  /\ at = "reading" /\ (last_read_at < now \/ first_byte_at = {})
  /\ last_read_at' = now
  /\ first_byte_at' = IF first_byte_at = {} THEN {now} ELSE first_byte_at
  /\ content_bytes_this_sec' = Credit(content)
  /\ spoke' = (spoke \/ content > 0) /\ heard_at' = now
  /\ UNCHANGED <<now, at, attempt, began, turn_start, next_tick, ema, starved_since, cause, fast>>

NewAverage == (3 * ema + 2 * Scale * content_bytes_this_sec) \div 5

Warmed == \E fb \in first_byte_at : now - fb >= Second

(* Mutant of StarvedSince: a recovery does not reset the clock.            *)
StarvedSinceFirst ==
  IF starved_since # {} THEN starved_since
  ELSE IF Warmed /\ NewAverage < Floor * Scale THEN {now} ELSE {}

(* eval_throughput: since when the average has been below the floor.       *)
StarvedSince ==
  IF ~Warmed \/ NewAverage >= Floor * Scale THEN {}
  ELSE IF starved_since # {} THEN starved_since
  ELSE {now}

IsStarved == \E since \in StarvedSince : now - since >= Sustained

(* Mutant of NextTick: a late tick delays the later ones.                  *)
NextTickDelayed == now + Second

(* MissedTickBehavior::Skip: the next multiple of a second that is still   *)
(* to come.                                                                *)
NextTick == (now + Second) - ((now - next_tick) % Second)

RepairsAverage == 2 * content_bytes_this_sec >= 5 * Floor

Evaluate ==
  /\ ema' = NewAverage
  /\ starved_since' = StarvedSince
  /\ content_bytes_this_sec' = 0
  /\ fast' = IF RepairsAverage THEN {now} ELSE fast

TickDue == at = "reading" /\ now >= next_tick

(* Mutant of Tick: the wakeup restarts the stall clock (the regression     *)
(* openai.rs:274 speaks of).                                               *)
TickRestartsStall ==
  /\ TickDue /\ ~(first_byte_at # {} /\ IsStarved)
  /\ next_tick' = NextTick
  /\ IF first_byte_at = {} THEN UNCHANGED <<average, fast>> ELSE Evaluate
  /\ last_read_at' = now
  /\ UNCHANGED <<now, at, attempt, began, turn_start, first_byte_at, cause, heard_at, spoke>>

(* A tick before the first byte is only consumed.                          *)
Tick ==
  /\ TickDue /\ ~(first_byte_at # {} /\ IsStarved)
  /\ next_tick' = NextTick
  /\ IF first_byte_at = {} THEN UNCHANGED <<average, fast>> ELSE Evaluate
  /\ UNCHANGED <<now, at, attempt, began, turn_start, last_read_at, first_byte_at, cause, heard_at, spoke>>

Starved == TickDue /\ first_byte_at # {} /\ IsStarved /\ EndAttempt("throughput_starved")

OverallDeadline == at = "reading" /\ now >= OverallEnd /\ EndAttempt("overall_deadline")

StallTimeout ==
  /\ at = "reading" /\ now >= StallDeadline
  /\ EndAttempt(IF first_byte_at = {} THEN "first_byte_backstop" ELSE "stall_timeout")

(* A transport error, an overflow, a rejected installment, or a close      *)
(* without an answer.                                                      *)
PeerFails == at = "reading" /\ EndAttempt("peer")

Answered ==
  /\ at = "reading" /\ Conclude("answered", "over")
  /\ UNCHANGED <<attempt, began>>

Over == at = "over" /\ UNCHANGED vars

Next == \/ Elapse
        \/ HeadersArrive \/ OtherResponse \/ HeaderBackstop \/ ConnectError \/ BodyCollected
        \/ \E content \in Credits : Read(content)
        \/ Tick \/ Starved \/ OverallDeadline \/ StallTimeout
        \/ PeerFails \/ Answered \/ Over

Spec == Init /\ [][Next]_vars

-----------------------------------------------------------------------------

Larger(a, b) == IF a > b THEN a ELSE b

Richest == CHOOSE c \in Credits : \A d \in Credits : d =< c

(* No second holds more reads than instants, its late tick included.       *)
MostInATick == (Second + Lag + 1) * Richest

Option(S) == \A x \in S : x \in Nat /\ S = {x}

(* Every variable has its type; an average does not exceed what it is the  *)
(* average of; ticks come at whole seconds after the headers.              *)
TypeOK == /\ now \in Nat /\ began \in 0..now
          /\ at \in {"headers", "body", "reading", "over"}
          /\ attempt \in 1..(Allowance + 1)
          /\ turn_start \in 0..now /\ last_read_at \in 0..now /\ heard_at \in 0..now
          /\ Option(first_byte_at) /\ Option(starved_since) /\ Option(fast)
          /\ next_tick =< now + Second
          /\ at = "reading" => (next_tick - turn_start) % Second = 0
          /\ ema \in 0..(Scale * MostInATick)
          /\ content_bytes_this_sec \in 0..MostInATick
          /\ cause \in {"none", "first_byte_backstop", "connect_error", "http_error", "peer",
                        "throughput_starved", "overall_deadline", "stall_timeout", "answered"}
          /\ spoke \in BOOLEAN

(* openai.rs:272: the gap after the last read never exceeds the window,    *)
(* though the throughput tick wakes the loop in between and every timer is *)
(* built anew.                                                             *)
StallBounded == at = "reading" => now - heard_at =< StallWindow + Lag

(* README.md:163, as far as it holds: reads of an attempt end with the     *)
(* overall deadline however steadily the peer sends, and a turn is over    *)
(* after so many attempts of which each waits once for the headers.  The   *)
(* "absolute turn ceiling" is Allowance + 1 times the documented one.      *)
TurnBounded ==
  /\ at = "reading" => now - turn_start =< Overall + Lag
  /\ now =< attempt * (Backstop + Larger(Overall, Stall) + 2 * Lag)

(* README.md:161: a stream of comments only "fails as starved": after the  *)
(* second of warm-up, the next tick, the sustained time and the tick that  *)
(* sees it, it is gone, although each comment is a read.                   *)
CommentsStarve ==
  at = "reading" /\ ~spoke /\ Floor > 0
    => \A fb \in first_byte_at : now - fb < 3 * Second + Sustained + 2 * Lag

(* eval_throughput: nobody is starved who brought two and a half times the *)
(* floor in a second of the sustained time or just before it: a second so  *)
(* rich repairs the average whatever was before, and restarts the clock.   *)
StarvedIsSlow ==
  cause = "throughput_starved" => \A tick \in fast : now - tick > Sustained

=============================================================================
