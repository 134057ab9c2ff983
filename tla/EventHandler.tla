----------------------------- MODULE EventHandler -----------------------------
(***************************************************************************)
(* event_handler.rs: refinement of installments and the Wire Strategy.     *)
(* The send bucket pool is the one piece of state all streams share; the   *)
(* rest of the handler works on the StreamState record a stream owns.      *)
(*                                                                         *)
(* A payload is what one data installment says once its JSON is read.      *)
(* Two choices stand for any number above one, which is all the code       *)
(* tells apart.  Unhandled channels (tool_calls) only add a note to the    *)
(* capture and are left out.                                               *)
(***************************************************************************)
EXTENDS StreamMachine

CONSTANTS Allowance,      \* retry allowance minted for each turn
          Buckets,        \* initial size of the send bucket pool
          KnowsFailover   \* the handler was told an alternative exists

ASSUME StrategyAssumption == /\ Allowance \in Nat
                             /\ Buckets \in Nat
                             /\ KnowsFailover \in BOOLEAN

VARIABLE send_buckets     \* free slots of the pool, an AtomicU32

-----------------------------------------------------------------------------
(* Normalization.                                                          *)

Chunk == {c \in [type : {"chunk"}, error : BOOLEAN, choices : 0..2,
                  content : Text \cup {None}, finish : Reason \cup {None},
                  usage : Usage \cup {None}] :
            c.choices = 0 => c.content = None /\ c.finish = None}

Payload == Chunk \cup [type : {"done"}] \cup [type : {"unparseable"}]

(* The event vector of a payload always has the order text, finish, usage, *)
(* done, so it is given by which of the four it holds.                     *)
NoEvents == [text |-> None, finish |-> None, usage |-> None, done |-> FALSE]

Normalize(p) ==
  CASE p.type = "done" ->
         [ok |-> TRUE, multiple |-> FALSE, events |-> [NoEvents EXCEPT !.done = TRUE]]
    [] p.type = "chunk" /\ ~p.error ->
         [ok |-> TRUE, multiple |-> p.choices > 1,
          events |-> [text |-> p.content, finish |-> p.finish,
                      usage |-> p.usage, done |-> FALSE]]
    [] p.type = "unparseable" \/ (p.type = "chunk" /\ p.error) ->
         [ok |-> FALSE, multiple |-> FALSE, events |-> NoEvents]

(* A payload the handler answers with a protocol fault.                    *)
IsViolation(p) == LET n == Normalize(p) IN ~n.ok \/ n.multiple

-----------------------------------------------------------------------------
(* Refinement of one data installment.                                     *)

StreamState == [attempt : Nat, machine : Machine, norm_errors : Nat,
                saw_any_content : BOOLEAN]

NewStream == [attempt |-> 0, machine |-> NewMachine, norm_errors |-> 0,
              saw_any_content |-> FALSE]

(* Mutant of BeginAttempt: the machine of the last attempt goes on.        *)
BeginAttemptStale(st) == [st EXCEPT !.attempt = @ + 1]

(* Only the machine is renewed for an attempt; the other fields live as    *)
(* long as the turn.                                                       *)
BeginAttempt(st) == [st EXCEPT !.attempt = @ + 1, !.machine = NewMachine]

FeedEvents(m, e) ==
  LET afterText   == IF e.text = None THEN m ELSE FeedText(m, e.text)
      afterFinish == IF e.finish = None THEN afterText ELSE FeedFinish(afterText, e.finish)
      afterUsage  == IF e.usage = None THEN afterFinish ELSE FeedUsage(afterFinish, e.usage)
  IN  IF e.done THEN FeedDone(afterUsage) ELSE afterUsage

(* The new stream state, the directive to the driver ("fault" for an Err), *)
(* and the text shown to the observers, None if no TextDelta was emitted.  *)
(* A "fault" also emits one NormalizationError record.                     *)
OnInstallment(st, p) ==
  LET n == Normalize(p)
  IN  CASE ~n.ok ->
             [st |-> [st EXCEPT !.norm_errors = @ + 1], directive |-> "fault", text |-> None]
        [] n.ok /\ n.multiple ->
             [st |-> st, directive |-> "fault", text |-> None]
        [] n.ok /\ ~n.multiple ->
             [st |-> [st EXCEPT !.machine = FeedEvents(@, n.events),
                                !.saw_any_content = @ \/ n.events.text # None],
              directive |-> IF n.events.done THEN "stop_complete" ELSE "continue",
              text |-> n.events.text]

(* finalize_attempt takes the machine out of the stream state.             *)
Consumed(st) == [st EXCEPT !.machine = NewMachine]

-----------------------------------------------------------------------------
(* Wire Strategy.                                                          *)

(* Mutant of AcquireSendBucket: the slot is taken without a look.          *)
AcquireUnguarded == send_buckets' = send_buckets - 1

AcquireSendBucket == send_buckets > 0 /\ send_buckets' = send_buckets - 1

DenySendBucket == send_buckets = 0 /\ UNCHANGED send_buckets

ReturnSendBucket == send_buckets' = send_buckets + 1

(* Mutants of OnWireFault: the last retry is never used; the allowance is  *)
(* never seen to be used up.                                               *)
OnWireFaultEarly(remaining) ==
  IF remaining > 1
    THEN [directive |-> "retry", remaining |-> remaining - 1]
    ELSE [directive |-> IF KnowsFailover THEN "failover" ELSE "give_up",
          remaining |-> remaining]

OnWireFaultUnbounded(remaining) == [directive |-> "retry", remaining |-> remaining - 1]

OnWireFault(remaining) ==
  IF remaining > 0
    THEN [directive |-> "retry", remaining |-> remaining - 1]
    ELSE [directive |-> IF KnowsFailover THEN "failover" ELSE "give_up",
          remaining |-> remaining]

=============================================================================
