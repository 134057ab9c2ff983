-------------------------------- MODULE Driver --------------------------------
(***************************************************************************)
(* openai.rs: concurrent turns on one endpoint.  execute_turn acquires a   *)
(* slot of the send bucket pool for each attempt, run_attempt dials, reads *)
(* and frames until one of its exits, and the Wire Strategy decides what   *)
(* follows.  The peer, the network, the clocks and whoever holds the       *)
(* cancellation token are nondeterministic; every exit of run_attempt is   *)
(* an action.                                                              *)
(*                                                                         *)
(* pc is where a turn stands.  At dial, body and read the task is          *)
(* suspended in an await; all other steps run without suspending.          *)
(***************************************************************************)
EXTENDS EventHandler, FiniteSets

CONSTANTS Streams,       \* the turns, by stream id
          Payloads,      \* the data payloads a peer may send
          MaxFrames,     \* bound on the frames completed by one read
          MaxHeard,      \* bound on the data installments of one attempt
          SingleThread   \* the runtime has the current_thread flavor

ASSUME DriverAssumption == /\ IsFiniteSet(Streams)
                           /\ Payloads \subseteq Payload
                           /\ MaxFrames \in Nat
                           /\ MaxHeard \in Nat
                           /\ SingleThread \in BOOLEAN

VARIABLES pc,         \* where each turn stands
          st,         \* the StreamState of each turn
          remaining,  \* retry allowance left
          cancelled,  \* the turn's cancellation token has been triggered
          frames,     \* frames of the last read still to be handled
          read_any,   \* read_seq > 0 in this attempt
          heard,      \* history: payloads given to the handler in this attempt
          end,        \* how run_attempt returned
          verdict,    \* what execute_turn returned
          records     \* what the bus was told of each turn

attemptVars == <<frames, read_any, heard>>
vars == <<send_buckets, pc, st, remaining, cancelled, attemptVars, end, verdict, records>>

-----------------------------------------------------------------------------
(* What the driver distinguishes.                                          *)

Frame == [kind : {"comment", "undecodable"}] \cup [kind : {"data"}, payload : Payload]

PeerFrames == [kind : {"comment", "undecodable"}] \cup [kind : {"data"}, payload : Payloads]

DataIn(fs) == Cardinality({i \in DOMAIN fs : fs[i].kind = "data"})

Reads == UNION {[1..n -> PeerFrames] : n \in 0..MaxFrames}

NoTail == [kind |-> "none"]

BodyCause == {"http_error", "not_an_event_stream"}

WireCause == BodyCause \cup
  {"cancelled", "connect_error", "first_byte_backstop", "stall_timeout",
   "overall_deadline", "throughput_starved", "buffer_overflow", "transport_error"}

FinalizedCause == {"done_sentinel_consumed", "protocol_error", "peer_closed",
                   "closed_with_no_content"}

WireFault(c) ==
  CASE c \in {"stall_timeout", "first_byte_backstop", "throughput_starved", "overall_deadline"}
         -> "stalled"
    [] c = "buffer_overflow" -> "buffer_overflow"
    [] OTHER -> "protocol"

FaultName == {"admission_denied", "cancelled", "aborted", "truncated", "empty_stream",
              "stalled", "buffer_overflow", "protocol"}

AttemptEnd == [type : {"running"}] \cup [type : {"wire"}, cause : WireCause]
                \cup [type : {"complete"}, res : Outcome \cup MachineFault]

Running == [type |-> "running"]

Verdict == [type : {"open"}] \cup [type : {"committed"}, outcome : Outcome]
             \cup [type : {"failover"}, attempts_here : Nat]
             \cup [type : {"failed"}, fault : FaultName]

Open == [type |-> "open"]

(* What is emitted for a turn: how many StreamEnd records and the cause of *)
(* the last one, how many NormalizationError records, and, in order, what  *)
(* became of each TextDelta: a fragment that the channel accepted is on    *)
(* its way to the terminal, None stands for one that was dropped.          *)
Testimony == [ends : Nat, last_end : WireCause \cup FinalizedCause \cup {"none"},
              norm_errors : Nat, shown : Seq(Text \cup {None})]

NoTestimony == [ends |-> 0, last_end |-> "none", norm_errors |-> 0, shown |-> <<>>]

(* What may become of the text of an installment.  Which records find the  *)
(* channel full or closed is a matter of the bus (EmissionBus); here it    *)
(* may be any.                                                             *)
TrySend(text) == IF text = None THEN {<<>>} ELSE {<<text>>, <<None>>}

EmitStreamEnd(s, cause, errors, taken) ==
  records' = [records EXCEPT ![s] = [ends        |-> @.ends + 1,
                                     last_end    |-> cause,
                                     norm_errors |-> @.norm_errors + errors,
                                     shown       |-> @.shown \o taken]]

EmitText(s, taken) == records' = [records EXCEPT ![s].shown = @ \o taken]

-----------------------------------------------------------------------------
(* On the current_thread flavor a task runs until its next await; on       *)
(* multi_thread, steps of different tasks interleave freely.               *)

(* Mutant of Suspended: a retry awaits a backoff before it asks for a slot. *)
SuspendedForBackoff == {"idle", "dial", "body", "read", "done", "attempt"}

Suspended == {"idle", "dial", "body", "read", "done"}

CanRun(s) == SingleThread => \A t \in Streams \ {s} : pc[t] \in Suspended

At(s, l) == pc[s] = l /\ CanRun(s)

GoTo(s, l) == pc' = [pc EXCEPT ![s] = l]

Init == /\ send_buckets = Buckets
        /\ pc = [s \in Streams |-> "idle"]
        /\ st = [s \in Streams |-> NewStream]
        /\ remaining = [s \in Streams |-> Allowance]
        /\ cancelled = [s \in Streams |-> FALSE]
        /\ frames = [s \in Streams |-> <<>>]
        /\ read_any = [s \in Streams |-> FALSE]
        /\ heard = [s \in Streams |-> <<>>]
        /\ end = [s \in Streams |-> Running]
        /\ verdict = [s \in Streams |-> Open]
        /\ records = [s \in Streams |-> NoTestimony]

-----------------------------------------------------------------------------
(* execute_turn, up to the dial.                                           *)

BeginTurn(s) ==
  /\ At(s, "idle")
  /\ GoTo(s, "attempt")
  /\ st' = [st EXCEPT ![s] = NewStream]
  /\ remaining' = [remaining EXCEPT ![s] = Allowance]
  /\ UNCHANGED <<send_buckets, cancelled, attemptVars, end, verdict, records>>

Admit(s) ==
  /\ At(s, "attempt")
  /\ AcquireSendBucket
  /\ GoTo(s, "dial")
  /\ st' = [st EXCEPT ![s] = BeginAttempt(@)]
  /\ heard' = [heard EXCEPT ![s] = <<>>]
  /\ UNCHANGED <<remaining, cancelled, frames, read_any, end, verdict, records>>

(* Zero-bucket rule: the turn fails at once, it never waits for a slot.    *)
Deny(s) ==
  /\ At(s, "attempt")
  /\ DenySendBucket
  /\ GoTo(s, "done")
  /\ st' = [st EXCEPT ![s] = BeginAttempt(@)]
  /\ verdict' = [verdict EXCEPT ![s] = [type |-> "failed", fault |-> "admission_denied"]]
  /\ UNCHANGED <<remaining, cancelled, attemptVars, end, records>>

(* Another task triggers the token.                                        *)
Cancel(s) ==
  /\ SingleThread => \A t \in Streams : pc[t] \in Suspended
  /\ pc[s] # "done" /\ ~cancelled[s]
  /\ cancelled' = [cancelled EXCEPT ![s] = TRUE]
  /\ UNCHANGED <<send_buckets, pc, st, remaining, attemptVars, end, verdict, records>>

-----------------------------------------------------------------------------
(* Exits of run_attempt that do not finalize: one StreamEnd, and the       *)
(* machine is left as it is.                                               *)

WireExit(s, c) ==
  /\ GoTo(s, "ended")
  /\ end' = [end EXCEPT ![s] = [type |-> "wire", cause |-> c]]
  /\ EmitStreamEnd(s, c, 0, <<>>)
  /\ UNCHANGED <<send_buckets, st, remaining, cancelled, attemptVars, verdict>>

DialCancelled(s) == At(s, "dial") /\ cancelled[s] /\ WireExit(s, "cancelled")

HeaderBackstop(s) == At(s, "dial") /\ WireExit(s, "first_byte_backstop")

ConnectError(s) == At(s, "dial") /\ WireExit(s, "connect_error")

(* Headers arrive: an event stream is read, the body of anything else is   *)
(* collected for the record.                                               *)
Respond(s, next) ==
  /\ At(s, "dial")
  /\ GoTo(s, next)
  /\ UNCHANGED <<send_buckets, st, remaining, cancelled, attemptVars, end, verdict, records>>

(* The body has been read or its own timeout has passed; the token is not  *)
(* looked at here.                                                         *)
BodyRead(s, c) == At(s, "body") /\ WireExit(s, c)

ReadCancelled(s) == At(s, "read") /\ cancelled[s] /\ WireExit(s, "cancelled")

(* Mutant of OverallDeadline: data disarm the clock.                       *)
OverallDeadlineDisarmed(s) ==
  At(s, "read") /\ ~read_any[s] /\ WireExit(s, "overall_deadline")

OverallDeadline(s) == At(s, "read") /\ WireExit(s, "overall_deadline")

(* The content rate is only evaluated after the first byte.                *)
Starved(s) == At(s, "read") /\ read_any[s] /\ WireExit(s, "throughput_starved")

(* Mutant of StallCause: the two names are swapped.                        *)
StallCauseSwapped(s) == IF read_any[s] THEN "first_byte_backstop" ELSE "stall_timeout"

StallCause(s) == IF read_any[s] THEN "stall_timeout" ELSE "first_byte_backstop"

Stall(s) == At(s, "read") /\ WireExit(s, StallCause(s))

TransportError(s) == At(s, "read") /\ WireExit(s, "transport_error")

(* Mutant of Overflow: the exit emits no StreamEnd.                        *)
OverflowUnrecorded(s) ==
  /\ At(s, "read")
  /\ GoTo(s, "ended")
  /\ end' = [end EXCEPT ![s] = [type |-> "wire", cause |-> "buffer_overflow"]]
  /\ UNCHANGED <<send_buckets, st, remaining, cancelled, attemptVars, verdict, records>>

(* An unterminated frame grows beyond the limit; push returns the error    *)
(* and no frames.                                                          *)
Overflow(s) == At(s, "read") /\ WireExit(s, "buffer_overflow")

-----------------------------------------------------------------------------
(* Reading and handling.                                                   *)

(* A read that completes the frames fs, possibly none.                     *)
Read(s, fs) ==
  /\ At(s, "read")
  /\ Len(heard[s]) + DataIn(fs) =< MaxHeard
  /\ GoTo(s, IF fs = <<>> THEN "read" ELSE "frames")
  /\ frames' = [frames EXCEPT ![s] = fs]
  /\ read_any' = [read_any EXCEPT ![s] = TRUE]
  /\ UNCHANGED <<send_buckets, st, remaining, cancelled, heard, end, verdict, records>>

NextFrame(s) ==
  /\ frames' = [frames EXCEPT ![s] = Tail(@)]
  /\ GoTo(s, IF Len(frames[s]) = 1 THEN "read" ELSE "frames")

AtFrame(s) == At(s, "frames") /\ frames[s] # <<>>

(* Comments and undecodable frames are recorded and passed over.           *)
PassFrame(s) ==
  /\ AtFrame(s)
  /\ Head(frames[s]).kind # "data"
  /\ NextFrame(s)
  /\ UNCHANGED <<send_buckets, st, remaining, cancelled, read_any, heard, end, verdict, records>>

HandleContinue(s) ==
  /\ AtFrame(s)
  /\ Head(frames[s]).kind = "data"
  /\ LET p == Head(frames[s]).payload
         r == OnInstallment(st[s], p)
     IN  /\ r.directive = "continue"
         /\ st' = [st EXCEPT ![s] = r.st]
         /\ heard' = [heard EXCEPT ![s] = Append(@, p)]
         /\ \E taken \in TrySend(r.text) : EmitText(s, taken)
  /\ NextFrame(s)
  /\ UNCHANGED <<send_buckets, remaining, cancelled, read_any, end, verdict>>

Finalized(s, new, cause) ==
  /\ st' = [st EXCEPT ![s] = Consumed(new)]
  /\ end' = [end EXCEPT ![s] = [type |-> "complete", res |-> Finalize(new.machine, cause)]]
  /\ GoTo(s, "ended")

(* The sentinel ends the attempt at once: frames behind it in the same     *)
(* read stay unhandled.                                                    *)
HandleDone(s) ==
  /\ AtFrame(s)
  /\ Head(frames[s]).kind = "data"
  /\ LET p == Head(frames[s]).payload
         r == OnInstallment(st[s], p)
     IN  /\ r.directive = "stop_complete"
         /\ Finalized(s, r.st, "stream_ended")
         /\ heard' = [heard EXCEPT ![s] = Append(@, p)]
         /\ EmitStreamEnd(s, "done_sentinel_consumed", 0, <<>>)
  /\ frames' = [frames EXCEPT ![s] = Tail(@)]
  /\ UNCHANGED <<send_buckets, remaining, cancelled, read_any, verdict>>

(* A fault of the handler ends the attempt as an abort.                    *)
HandleFault(s) ==
  /\ AtFrame(s)
  /\ Head(frames[s]).kind = "data"
  /\ LET p == Head(frames[s]).payload
         r == OnInstallment(st[s], p)
     IN  /\ r.directive = "fault"
         /\ Finalized(s, r.st, "handler_abort")
         /\ heard' = [heard EXCEPT ![s] = Append(@, p)]
         /\ EmitStreamEnd(s, "protocol_error", 1, <<>>)
  /\ frames' = [frames EXCEPT ![s] = Tail(@)]
  /\ UNCHANGED <<send_buckets, remaining, cancelled, read_any, verdict>>

CloseCause(new) == IF new.saw_any_content THEN "peer_closed" ELSE "closed_with_no_content"

(* The peer closes with no unfinished frame, or with one that is not data. *)
PeerCloses(s) ==
  /\ At(s, "read")
  /\ Finalized(s, st[s], "stream_ended")
  /\ EmitStreamEnd(s, CloseCause(st[s]), 0, <<>>)
  /\ UNCHANGED <<send_buckets, remaining, cancelled, attemptVars, verdict>>

(* Mutant of PeerClosesOnTail: the text of a recovered tail is not emitted. *)
PeerClosesOnTailUnshown(s, p) ==
  /\ At(s, "read")
  /\ read_any[s] /\ Len(heard[s]) < MaxHeard
  /\ LET r == OnInstallment(st[s], p)
     IN  /\ Finalized(s, r.st, "stream_ended")
         /\ EmitStreamEnd(s, CloseCause(r.st), IF r.directive = "fault" THEN 1 ELSE 0, <<>>)
  /\ heard' = [heard EXCEPT ![s] = Append(@, p)]
  /\ UNCHANGED <<send_buckets, remaining, cancelled, frames, read_any, verdict>>

(* The peer closes on an unterminated data frame, which is recovered and   *)
(* handled; a directive or a fault of the handler is ignored.              *)
PeerClosesOnTail(s, p) ==
  /\ At(s, "read")
  /\ read_any[s] /\ Len(heard[s]) < MaxHeard
  /\ LET r == OnInstallment(st[s], p)
     IN  /\ Finalized(s, r.st, "stream_ended")
         /\ \E taken \in TrySend(r.text) :
              EmitStreamEnd(s, CloseCause(r.st), IF r.directive = "fault" THEN 1 ELSE 0, taken)
  /\ heard' = [heard EXCEPT ![s] = Append(@, p)]
  /\ UNCHANGED <<send_buckets, remaining, cancelled, frames, read_any, verdict>>

-----------------------------------------------------------------------------
(* execute_turn, after run_attempt.                                        *)

IsCommit(e) == e.type = "complete" /\ e.res.type = "outcome"

(* Mutant of IsCancel: a cancelled attempt is a wire fault like the rest.  *)
CancelIsWireFault(e) == FALSE

IsCancel(e) == e.type = "wire" /\ e.cause = "cancelled"

(* Mutant of ReturnBucket: the exit for a cancelled attempt comes before   *)
(* the return of its slot.                                                 *)
ReturnBucketUnlessCancelled(s) ==
  /\ At(s, "ended")
  /\ IF IsCancel(end[s]) THEN UNCHANGED send_buckets ELSE ReturnSendBucket
  /\ GoTo(s, "strategy")
  /\ frames' = [frames EXCEPT ![s] = <<>>]
  /\ read_any' = [read_any EXCEPT ![s] = FALSE]
  /\ UNCHANGED <<st, remaining, cancelled, heard, end, verdict, records>>

(* run_attempt has returned, and its parser and its counters are gone.     *)
ReturnBucket(s) ==
  /\ At(s, "ended")
  /\ ReturnSendBucket
  /\ GoTo(s, "strategy")
  /\ frames' = [frames EXCEPT ![s] = <<>>]
  /\ read_any' = [read_any EXCEPT ![s] = FALSE]
  /\ UNCHANGED <<st, remaining, cancelled, heard, end, verdict, records>>

Conclude(s, v) ==
  /\ GoTo(s, "done")
  /\ verdict' = [verdict EXCEPT ![s] = v]
  /\ end' = [end EXCEPT ![s] = Running]
  /\ UNCHANGED <<send_buckets, st, cancelled, attemptVars, records>>

Commit(s) ==
  /\ At(s, "strategy")
  /\ IsCommit(end[s])
  /\ Conclude(s, [type |-> "committed", outcome |-> end[s].res])
  /\ UNCHANGED remaining

GiveUpCancelled(s) ==
  /\ At(s, "strategy")
  /\ IsCancel(end[s])
  /\ Conclude(s, [type |-> "failed", fault |-> "cancelled"])
  /\ UNCHANGED remaining

(* Both kinds of fault consult the strategy.                               *)
Consults(s) == At(s, "strategy") /\ ~IsCommit(end[s]) /\ ~IsCancel(end[s])

(* Mutant of Retry: every retry renews the allowance.                      *)
RetryRenewed(s) ==
  /\ Consults(s)
  /\ OnWireFault(remaining[s]).directive = "retry"
  /\ remaining' = [remaining EXCEPT ![s] = Allowance]
  /\ GoTo(s, "attempt")
  /\ end' = [end EXCEPT ![s] = Running]
  /\ UNCHANGED <<send_buckets, st, cancelled, attemptVars, verdict, records>>

Retry(s) ==
  /\ Consults(s)
  /\ LET d == OnWireFault(remaining[s])
     IN  /\ d.directive = "retry"
         /\ remaining' = [remaining EXCEPT ![s] = d.remaining]
  /\ GoTo(s, "attempt")
  /\ end' = [end EXCEPT ![s] = Running]
  /\ UNCHANGED <<send_buckets, st, cancelled, attemptVars, verdict, records>>

Failover(s) ==
  /\ Consults(s)
  /\ OnWireFault(remaining[s]).directive = "failover"
  /\ Conclude(s, [type |-> "failover", attempts_here |-> st[s].attempt])
  /\ UNCHANGED remaining

GiveUp(s) ==
  /\ Consults(s)
  /\ OnWireFault(remaining[s]).directive = "give_up"
  /\ Conclude(s, [type  |-> "failed",
                  fault |-> IF end[s].type = "wire" THEN WireFault(end[s].cause)
                                                    ELSE end[s].res.fault])
  /\ UNCHANGED remaining

-----------------------------------------------------------------------------

AllDone == (\A s \in Streams : pc[s] = "done") /\ UNCHANGED vars

(* Steps the task takes without suspending.                                *)
Own(s) == \/ Admit(s) \/ Deny(s)
          \/ PassFrame(s) \/ HandleContinue(s) \/ HandleDone(s) \/ HandleFault(s)
          \/ ReturnBucket(s)
          \/ Commit(s) \/ GiveUpCancelled(s) \/ Retry(s) \/ Failover(s) \/ GiveUp(s)

(* Exits a clock of the driver forces sooner or later.                     *)
Clock(s) == \/ HeaderBackstop(s)
            \/ \E c \in BodyCause : BodyRead(s, c)
            \/ OverallDeadline(s)

(* What only the peer, the network or the canceller may do.                *)
Environment(s) ==
  \/ BeginTurn(s) \/ Cancel(s) \/ DialCancelled(s) \/ ConnectError(s)
  \/ \E next \in {"body", "read"} : Respond(s, next)
  \/ ReadCancelled(s) \/ Starved(s) \/ Stall(s) \/ TransportError(s) \/ Overflow(s)
  \/ \E fs \in Reads : Read(s, fs)
  \/ PeerCloses(s) \/ \E p \in Payloads : PeerClosesOnTail(s, p)

Next == (\E s \in Streams : Own(s) \/ Clock(s) \/ Environment(s)) \/ AllDone

Spec == Init /\ [][Next]_vars

(* A runnable task is run.  A timer that has expired stays expired, and an *)
(* unbiased select polls its arm on every wakeup, so strong fairness.      *)
Fairness == \A s \in Streams : WF_vars(Own(s)) /\ SF_vars(Clock(s))

FairSpec == Spec /\ Fairness

-----------------------------------------------------------------------------

PC == Suspended \cup {"attempt", "frames", "ended", "strategy"}

(* Every variable has its type at every step of every turn; the pool never *)
(* goes below zero.                                                        *)
TypeOK == /\ send_buckets \in Nat
          /\ pc \in [Streams -> PC]
          /\ st \in [Streams -> StreamState]
          /\ remaining \in [Streams -> Nat]
          /\ cancelled \in [Streams -> BOOLEAN]
          /\ frames \in [Streams -> Seq(Frame)]
          /\ read_any \in [Streams -> BOOLEAN]
          /\ heard \in [Streams -> Seq(Payload)]
          /\ end \in [Streams -> AttemptEnd]
          /\ verdict \in [Streams -> Verdict]
          /\ records \in [Streams -> Testimony]

Holders == {s \in Streams : pc[s] \in {"dial", "body", "read", "frames", "ended"}}

(* Send buckets are neither lost nor minted: whatever the exits taken by   *)
(* concurrent attempts, the free slots and the attempts in flight always   *)
(* add up to the size of the pool.                                         *)
PoolConserved == send_buckets + Cardinality(Holders) = Buckets

(* The pool has a floor: however many turns contend and whatever they do   *)
(* between taking a slot and giving it back, the attempts on the wire are  *)
(* never more than the slots.  A test apart from the subtraction breaks    *)
(* this and leaves PoolConserved true.                                     *)
NeverOversubscribed == Cardinality(Holders) =< Buckets

(* Zero-bucket rule on the current_thread flavor: a turn that was admitted *)
(* once keeps its place.  Between the return of its slot and the next      *)
(* acquisition nothing suspends, so only a first attempt can be refused.   *)
OnlyFirstAdmissionDenied ==
  \A s \in Streams : verdict[s] = [type |-> "failed", fault |-> "admission_denied"]
                       => records[s].ends = 0

(* What a payload adds to the answer; a violation adds nothing.            *)
CarriesText(p) == ~IsViolation(p) /\ Normalize(p).events.text # None
CarriesFinish(p) == ~IsViolation(p) /\ Normalize(p).events.finish # None
CarriesUsage(p) == ~IsViolation(p) /\ Normalize(p).events.usage # None

(* `at` places the fragments of content c among the payloads ps: in order, *)
(* each at a payload that carried it, and none that carried text left out. *)
Transcribes(c, ps, at) ==
  /\ \A i, j \in 1..Len(c) : i < j => at[i] < at[j]
  /\ \A i \in 1..Len(c) : CarriesText(ps[at[i]]) /\ c[i] = Normalize(ps[at[i]]).events.text
  /\ \A k \in 1..Len(ps) : CarriesText(ps[k]) => \E i \in 1..Len(c) : at[i] = k

IsTextOf(c, ps) == \E at \in [1..Len(c) -> 1..Len(ps)] : Transcribes(c, ps, at)

IsFirstFinish(r, ps) == \E i \in 1..Len(ps) : /\ CarriesFinish(ps[i])
                                              /\ Normalize(ps[i]).events.finish = r
                                              /\ \A j \in 1..(i - 1) : ~CarriesFinish(ps[j])

IsLastUsage(u, ps) ==
  \/ u = None /\ \A i \in 1..Len(ps) : ~CarriesUsage(ps[i])
  \/ \E i \in 1..Len(ps) : /\ CarriesUsage(ps[i])
                           /\ Normalize(ps[i]).events.usage = u
                           /\ \A j \in (i + 1)..Len(ps) : ~CarriesUsage(ps[j])

(* INV-CHAT-04 and INV-CHAT-05 across retries: what a turn commits is the  *)
(* text of the committing attempt alone, all of it and nothing of an       *)
(* abandoned attempt, with the first finish reason this attempt heard and  *)
(* the last usage it heard, none if it heard none.                         *)
CommitIsThisAttempt ==
  \A s \in Streams : verdict[s].type = "committed" =>
    /\ IsTextOf(verdict[s].outcome.content, heard[s])
    /\ IsFirstFinish(verdict[s].outcome.finish_reason, heard[s])
    /\ IsLastUsage(verdict[s].outcome.usage, heard[s])

(* b ends with a, but that any entry of b may have been dropped.           *)
EndsWith(b, a) == /\ Len(a) =< Len(b)
                  /\ \A i \in 1..Len(a) : b[Len(b) - Len(a) + i] \in {a[i], None}

(* ports.rs:15, a single path to the screen, recovered tail included: the  *)
(* answer that enters the history is what was emitted for the terminal     *)
(* last, behind the text of abandoned attempts, fragment by fragment and   *)
(* with nothing in between.  All that the terminal is not given of it are  *)
(* fragments the channel dropped (what was accepted: RecordsAccounted).    *)
ScreenLacksOnlyDrops ==
  \A s \in Streams : verdict[s].type = "committed" =>
    EndsWith(records[s].shown, verdict[s].outcome.content)

Spent(s) == records[s].ends

IsDenied(v) == v.type = "failed" /\ v.fault = "admission_denied"

IsCancelled(v) == v.type = "failed" /\ v.fault = "cancelled"

(* INV-CHAT-11: the allowance is one ledger per turn.  No turn dials more  *)
(* than 1 + Allowance times; failover is directed only by a handler that   *)
(* knows of one, giving up is for one that does not, and either only after *)
(* every attempt of the ledger has been dialed and has ended.              *)
AllowanceExact ==
  \A s \in Streams :
    /\ Spent(s) =< Allowance + 1
    /\ verdict[s].type = "failover" =>
         KnowsFailover /\ Spent(s) = Allowance + 1 /\ verdict[s].attempts_here = Spent(s)
    /\ verdict[s].type = "failed" /\ ~IsDenied(verdict[s]) /\ ~IsCancelled(verdict[s]) =>
         ~KnowsFailover /\ Spent(s) = Allowance + 1

(* Each attempt that got a slot leaves exactly one StreamEnd, so that the  *)
(* trailer's attempt count (and one less for a refused attempt) is the     *)
(* number of StreamEnd records of the turn.                                *)
EveryAttemptTestified ==
  \A s \in Streams :
    pc[s] = "done" => Spent(s) = st[s].attempt - (IF IsDenied(verdict[s]) THEN 1 ELSE 0)

(* Cancellation is never retried: a cancelled attempt is the turn's last,  *)
(* and it is the verdict of the turn exactly when it ended the turn.       *)
CancelledIsFinal ==
  \A s \in Streams :
    /\ records[s].last_end = "cancelled" => pc[s] \in {"ended", "strategy", "done"}
    /\ pc[s] = "done" =>
         (IsCancelled(verdict[s]) <=> records[s].last_end = "cancelled")

(* What the last payload heard, or all of them, must be for each cause.    *)
CauseHonest(s) ==
  pc[s] = "ended" =>
    LET cause == records[s].last_end
        last  == heard[s][Len(heard[s])]
    IN  /\ cause = "done_sentinel_consumed" => heard[s] # <<>> /\ last.type = "done"
        /\ cause = "protocol_error" => heard[s] # <<>> /\ IsViolation(last)
        /\ cause \in {"first_byte_backstop", "connect_error"} \cup BodyCause => heard[s] = <<>>
        /\ cause = "closed_with_no_content" =>
             \A i \in 1..Len(heard[s]) : ~CarriesText(heard[s][i])

(* A StreamEnd cause tells what this attempt heard: the sentinel, a fault  *)
(* of the handler, silence, or no content.                                 *)
EndCauseHonest == \A s \in Streams : CauseHonest(s)

(* INV-CHAT-09: every turn that began is eventually over, whatever the     *)
(* peer, the network and the other turns do: timers force every wait.      *)
TurnEnds == \A s \in Streams : pc[s] # "idle" ~> pc[s] = "done"

=============================================================================
