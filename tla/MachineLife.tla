----------------------------- MODULE MachineLife -----------------------------
(***************************************************************************)
(* One StreamMachine fed any sequence of events and then finalized once    *)
(* (machine.rs: feed takes &mut self, finalize consumes the machine).  The *)
(* public methods put no order on the events, and the unit tests use       *)
(* orders that no well-behaved peer sends, so every order is explored.     *)
(***************************************************************************)
EXTENDS StreamMachine, FiniteSets

CONSTANT MaxEvents  \* bound on the events of one attempt

ASSUME MaxEventsAssumption == MaxEvents \in Nat

VARIABLES machine,  \* the machine
          fed,      \* history: the events fed so far, in order
          ended,    \* history: the cause finalize was given, "open" before
          verdict   \* what finalize returned, Pending while the machine lives

vars == <<machine, fed, ended, verdict>>

Pending == [type |-> "pending"]

Init == machine = NewMachine /\ fed = <<>> /\ ended = "open" /\ verdict = Pending

FeedEvent(e) ==
  /\ verdict = Pending
  /\ Len(fed) < MaxEvents
  /\ machine' = Feed(machine, e)
  /\ fed' = Append(fed, e)
  /\ UNCHANGED <<ended, verdict>>

FinalizeWith(cause) ==
  /\ verdict = Pending
  /\ ended' = cause
  /\ verdict' = Finalize(machine, cause)
  /\ UNCHANGED <<machine, fed>>

Consumed == verdict # Pending /\ UNCHANGED vars

Next == \/ \E e \in Event : FeedEvent(e)
        \/ \E cause \in EndCause : FinalizeWith(cause)
        \/ Consumed

Spec == Init /\ [][Next]_vars

-----------------------------------------------------------------------------

(* Machine, history and verdict have their types at every point of a life. *)
TypeOK == /\ machine \in Machine
          /\ fed \in Seq(Event)
          /\ ended \in EndCause \cup {"open"}
          /\ verdict \in Outcome \cup MachineFault \cup {Pending}

IsText(i) == fed[i].ev = "text_delta"
IsFinish(i) == fed[i].ev = "finish"
FinishFed == \E i \in DOMAIN fed : IsFinish(i)

(* `at` places the fragments of content c in the history: in order, each   *)
(* at a text event that carried it, and no text event left out.            *)
Places(c, at) ==
  /\ \A i, j \in 1..Len(c) : i < j => at[i] < at[j]
  /\ \A i \in 1..Len(c) : IsText(at[i]) /\ c[i] = fed[at[i]].v
  /\ \A k \in 1..Len(fed) : IsText(k) => \E i \in 1..Len(c) : at[i] = k

(* INV-CHAT-05: the content is the concatenation, in order, of exactly the *)
(* text deltas fed: nothing edited, dropped, repeated or reordered,        *)
(* whatever finish reasons, usages and sentinels came in between.          *)
ContentIsTestimony ==
  \E at \in [1..Len(machine.content) -> 1..Len(fed)] : Places(machine.content, at)

(* INV-CHAT-04 and DEC-CHAT-04: there is an outcome exactly when the       *)
(* stream ended and a finish reason had been fed, whatever was said of     *)
(* [DONE] and however much text came; it carries the whole content and the *)
(* first finish reason fed.  A fault has the name the history calls for.   *)
VerdictFollowsHistory ==
  verdict # Pending =>
    /\ verdict.type = "outcome" <=> ended = "stream_ended" /\ FinishFed
    /\ verdict.type = "outcome" =>
         /\ verdict.content = machine.content
         /\ \E i \in DOMAIN fed : /\ IsFinish(i)
                                  /\ fed[i].v = verdict.finish_reason
                                  /\ \A j \in 1..(i - 1) : ~IsFinish(j)
    /\ verdict.type = "fault" =>
         /\ verdict.fault = "aborted" <=> ended = "handler_abort"
         /\ verdict.fault = "truncated" => \E i \in DOMAIN fed : IsText(i)
         /\ verdict.fault = "empty_stream" => \A i \in DOMAIN fed : ~IsText(i)

(* DEC-CHAT-05: every text and every finish reason that came after the     *)
(* completion criterion was met leaves one anomaly, nothing else does.     *)
OddEvents == {i \in DOMAIN fed : /\ IsText(i) \/ IsFinish(i)
                                 /\ \E j \in 1..(i - 1) : IsFinish(j)}
OddityKeepsEvidence == Len(machine.anomalies) = Cardinality(OddEvents)

=============================================================================
