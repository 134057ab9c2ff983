------------------------------ MODULE ChatSession ------------------------------
(***************************************************************************)
(* main.rs: the terminal loop.  One line at a time is put to the primary   *)
(* endpoint and, when its verdict is Failover, to the alternative; the     *)
(* history is extended only by a Committed outcome.  Both drivers are      *)
(* given the same EventHandler, so their turns are turns of one            *)
(* TurnContract: one pool, one allowance rule and one knowledge of a       *)
(* failover.                                                               *)
(***************************************************************************)
EXTENDS Startup

CONSTANTS Lines,        \* what the user may type
          System,       \* the system prompt is configured
          Allowance,    \* retry allowance
          Buckets,      \* send buckets
          MaxLines      \* bound on the lines typed

ASSUME SessionAssumption == /\ System \in BOOLEAN
                            /\ Allowance \in Nat
                            /\ Buckets \in Nat
                            /\ MaxLines \in Nat

VARIABLES has_failover,  \* an alternative is configured; set at the start
          at,         \* where the loop stands
          history,    \* the messages sent with every request
          stream_id,  \* id of the last turn executed
          typed,      \* history: the line of each turn, by stream id
          spent,      \* history: number of lines typed so far
          free, phase, calls, asked, outcome   \* of the TurnContract

contractVars == <<free, phase, calls, asked, outcome>>
settled == <<has_failover, startVars>>
unmoved == <<settled, contractVars>>
vars == <<at, history, stream_id, typed, spent, unmoved>>

StreamIds == 1..(2 * MaxLines)

(* KnowsFailover is used by Turn!Next alone.  The loop takes the actions   *)
(* one by one and gives Exhaust what this run is configured with.          *)
Turn == INSTANCE TurnContract WITH Turns <- StreamIds, Slots <- Buckets,
                                   KnowsFailover <- TRUE

Message(role, by) == [role |-> role, by |-> by]

Fresh == IF System THEN <<Message("system", 0)>> ELSE <<>>

Init == /\ StartInit
        /\ has_failover = FALSE
        /\ at = "starting"
        /\ history = Fresh
        /\ stream_id = 0
        /\ typed = <<>>
        /\ spent = 0
        /\ Turn!Init

-----------------------------------------------------------------------------

(* The configuration is read, then the loop begins.                        *)
ReadConfig ==
  /\ at = "starting" /\ StartNext
  /\ UNCHANGED <<has_failover, contractVars, at, history, stream_id, typed, spent>>

BeginLoop ==
  /\ at = "starting" /\ at' = "prompt"
  /\ has_failover' = HasFailover
  /\ Start
  /\ UNCHANGED <<contractVars, history, stream_id, typed, spent>>

(* Mutant of Execute: the counter of streams is not advanced.              *)
ExecuteStaleId(line, endpoint) ==
  /\ UNCHANGED stream_id
  /\ typed' = Append(typed, line)
  /\ Turn!Start(stream_id + 1)
  /\ at' = endpoint
  /\ UNCHANGED settled

(* A turn of the contract begins; its line is remembered.                  *)
Execute(line, endpoint) ==
  /\ stream_id' = stream_id + 1
  /\ typed' = Append(typed, line)
  /\ Turn!Start(stream_id + 1)
  /\ at' = endpoint
  /\ UNCHANGED settled

(* A user message is named by the stream it was first put to.              *)
Submit(line) ==
  /\ at = "prompt" /\ spent < MaxLines
  /\ spent' = spent + 1
  /\ history' = Append(history, Message("user", stream_id + 1))
  /\ Execute(line, "primary")

(* retain: the messages of one role, in the order they have.               *)
Retain(role) ==
  LET places == {i \in DOMAIN history : history[i].role = role}
      nth(k) == CHOOSE i \in places : Cardinality({j \in places : j =< i}) = k
  IN  [k \in 1..Cardinality(places) |-> history[nth(k)]]

(* Mutant of Reset: a reset drops the turn it finds running.               *)
ResetAnytime ==
  /\ at \in {"prompt", "primary"} /\ at' = "prompt"
  /\ history' = Retain("system")
  /\ UNCHANGED <<stream_id, typed, spent, unmoved>>

Reset ==
  /\ at = "prompt"
  /\ history' = Retain("system")
  /\ UNCHANGED <<at, stream_id, typed, spent, unmoved>>

(* /quit, /exit, the end of the input, or an I/O error of the terminal.    *)
Leave ==
  /\ at = "prompt"
  /\ at' = "left"
  /\ UNCHANGED <<history, stream_id, typed, spent, unmoved>>

(* The terminal cannot be flushed behind the new line: main returns with   *)
(* the line in the history and no turn begun.                              *)
LeaveSubmitting(line) ==
  /\ at = "prompt" /\ spent < MaxLines
  /\ spent' = spent + 1
  /\ history' = Append(history, Message("user", stream_id + 1))
  /\ at' = "left"
  /\ UNCHANGED <<stream_id, typed, unmoved>>

(* The awaited turn; the token of main.rs is never triggered.              *)
TurnStep ==
  /\ at \in {"primary", "alternative"}
  /\ \/ Turn!Call(stream_id) \/ Turn!HangUp(stream_id) \/ Turn!CallAgain(stream_id)
     \/ Turn!Refuse(stream_id) \/ Turn!Commit(stream_id) \/ Turn!Exhaust(stream_id, has_failover)
  /\ UNCHANGED <<settled, at, history, stream_id, typed, spent>>

Returned(o) == at \in {"primary", "alternative"} /\ outcome[stream_id] = o

CommitAnswer ==
  /\ Returned("committed")
  /\ history' = Append(history, Message("assistant", stream_id))
  /\ at' = "prompt"
  /\ UNCHANGED <<stream_id, typed, spent, unmoved>>

(* Mutants of DropLine: the line of a failed turn stays in the history;    *)
(* the loop does not return to the prompt.                                 *)
DropLineKeeps ==
  /\ Returned("failed")
  /\ at' = "prompt"
  /\ UNCHANGED <<history, stream_id, typed, spent, unmoved>>

DropLineStays == Returned("failed") /\ UNCHANGED vars

(* Failed, on either endpoint.  Failover without an alternative would be   *)
(* answered in the same way, but a handler never directs it then.          *)
DropLine ==
  /\ Returned("failed")
  /\ history' = Front(history)
  /\ at' = "prompt"
  /\ UNCHANGED <<stream_id, typed, spent, unmoved>>

TakeFailover ==
  /\ Returned("failover") /\ at = "primary"
  /\ Execute(typed[stream_id], "alternative")
  /\ UNCHANGED <<history, spent>>

(* The terminal cannot be flushed on the way to the alternative.           *)
LeaveFailingOver ==
  /\ Returned("failover") /\ at = "primary"
  /\ at' = "left"
  /\ UNCHANGED <<history, stream_id, typed, spent, unmoved>>

(* A second Failover reaches the arm that main.rs declares unreachable.    *)
Panic ==
  /\ Returned("failover") /\ at = "alternative"
  /\ at' = "panicked"
  /\ UNCHANGED <<history, stream_id, typed, spent, unmoved>>

Stopped == /\ at \in {"left", "panicked"} \/ stage \in {"helped", "refused", "panicked"}
           /\ UNCHANGED vars

Next == \/ ReadConfig \/ BeginLoop
        \/ \E line \in Lines : Submit(line) \/ LeaveSubmitting(line)
        \/ Reset \/ Leave \/ TurnStep
        \/ CommitAnswer \/ DropLine \/ TakeFailover \/ LeaveFailingOver \/ Panic \/ Stopped

Spec == Init /\ [][Next]_vars

(* The loop runs on while a turn is open; that the turn itself makes       *)
(* progress is TurnEnds of the Driver.                                     *)
FairSpec == Spec /\ WF_vars(TurnStep \/ CommitAnswer \/ DropLine \/ TakeFailover \/ Panic)

-----------------------------------------------------------------------------

Stage == {"starting", "prompt", "primary", "alternative", "panicked", "left"}

(* Every variable has its type while lines are typed and turns executed.   *)
TypeOK == /\ has_failover \in BOOLEAN
          /\ at = "starting" <=> stage # "started"
          /\ at \in Stage
          /\ history \in Seq([role : {"system", "user", "assistant"}, by : 0..(2 * MaxLines)])
          /\ stream_id \in 0..(2 * MaxLines)
          /\ typed \in Seq(Lines) /\ Len(typed) = stream_id
          /\ spent \in 0..MaxLines

Dialogue == IF System THEN Tail(history) ELSE history

(* History-commit policy (DEC-CHAT-11): at the prompt the history is the   *)
(* system message followed by pairs of a line and the answer a committed   *)
(* turn gave to that very line, on either endpoint.  No failed line, no    *)
(* orphan answer stays behind, whatever failed or was reset before.        *)
HistoryIsCommitted ==
  at = "prompt" =>
    /\ Len(Dialogue) % 2 = 0
    /\ System => history[1].role = "system"
    /\ \A i \in 1..(Len(Dialogue) \div 2) :
         LET line == Dialogue[2 * i - 1]
             answer == Dialogue[2 * i]
         IN  /\ line.role = "user" /\ answer.role = "assistant"
             /\ answer.by \in {line.by, line.by + 1}
             /\ typed[answer.by] = typed[line.by]
             /\ outcome[answer.by] = "committed"

(* While the user is at the prompt no attempt holds a slot, so with at     *)
(* least one bucket a line is never refused admission.                     *)
NeverRefused ==
  /\ at = "prompt" => free = Buckets
  /\ Buckets > 0 => \A i \in 1..stream_id : outcome[i] = "failed" => calls[i] > 0

(* main.rs:100: by the time the verdict is matched, Failover has been      *)
(* resolved.                                                               *)
FailoverResolved == at # "panicked"

(* A line put to the primary is answered or dropped, and the user is back  *)
(* at the prompt, unless the terminal fails on the way to the alternative  *)
(* or the arm of main.rs:100 is reached.                                   *)
LineResolved == at = "primary" ~> at \in {"prompt", "left", "panicked"}

=============================================================================
