------------------------------ MODULE EmissionBus ------------------------------
(***************************************************************************)
(* emission.rs and ports.rs: turns emit records into a bounded channel     *)
(* without waiting; one writer task hands them to the sinks.  main.rs      *)
(* drops every sender at exit and waits for the writer for a while.        *)
(*                                                                         *)
(* A sink may block in a write for as long as it likes, or panic.  The     *)
(* process may be killed at any time.  Tasks are scheduled as the flavor   *)
(* of the runtime allows: on current_thread one task runs until its next   *)
(* await, on multi_thread there is a worker for every task.                *)
(***************************************************************************)
EXTENDS Naturals, Sequences, FiniteSets

CONSTANTS Turns,        \* the turns that emit
          TurnLength,   \* records of a turn, the last one is its trailer
          Capacity,     \* of the channel
          SampleEvery,  \* emits between two latency samples
          FlushEvery    \* records between two flushes of the capture file

ASSUME BusAssumption == /\ IsFiniteSet(Turns) /\ {"bus", "writer", "none"} \cap Turns = {}
                        /\ TurnLength \in Nat \ {0}
                        /\ Capacity \in Nat \ {0}
                        /\ SampleEvery \in Nat \ {0}
                        /\ FlushEvery \in Nat \ {0}

VARIABLES single_thread,     \* the flavor of the runtime
          task,              \* what each turn is doing
          emitted,           \* records each turn has emitted
          queue,             \* the channel
          dropped,           \* the counter of dropped records
          emit_count,        \* the counter that paces latency samples
          writer,            \* what the writer task is doing
          rec,               \* the record the writer has received
          last_drop_report,  \* the counter when it was reported last
          wedged,            \* a write of a sink does not return
          flushed,           \* how much of `written` is surely in the capture file
          since_flush,       \* of the capture sink
          main,              \* what the main task is doing
          sent,              \* history: what the channel has accepted
          known,             \* history: the counter after the last drop of each turn
          ahead,             \* history: for every record of sent, what its sender knew
          written            \* history: what the sinks were given

turnVars == <<task, emitted>>
busVars == <<queue, dropped, emit_count, sent, known, ahead>>
writerVars == <<writer, rec, last_drop_report>>
sinkVars == <<wedged, written, flushed, since_flush>>
vars == <<single_thread, turnVars, busVars, writerVars, sinkVars, main>>

Record(t, n) == [by |-> t, n |-> n]

IsTrailer(r) == r.by \in Turns /\ r.n = TurnLength

Sample == [by |-> "bus", n |-> 0]

CaptureDrop(d) == [by |-> "writer", n |-> d]

NoRecord == [by |-> "none", n |-> 0]

Init == /\ single_thread \in BOOLEAN
        /\ task = [t \in Turns |-> "waiting"] /\ emitted = [t \in Turns |-> 0]
        /\ queue = <<>> /\ dropped = 0 /\ emit_count = 0
        /\ sent = <<>> /\ known = [t \in Turns |-> 0] /\ ahead = <<>>
        /\ writer = "recv" /\ rec = NoRecord /\ last_drop_report = 0
        /\ wedged = FALSE /\ written = <<>> /\ flushed = 0 /\ since_flush = 0
        /\ main = "chatting"

-----------------------------------------------------------------------------
(* Scheduling.  A turn that is "waiting" awaits the network, the writer at *)
(* "recv" awaits the channel (recv also yields when it has had its share), *)
(* the main task awaits the turns and then the writer.                     *)

Alive == main \notin {"exited", "drained", "killed"}

WriterEnded == writer \in {"ended", "panicked"}

TurnsSuspended(T) == \A t \in T : task[t] \in {"waiting", "over"}

WriterSuspended == writer = "recv" \/ WriterEnded

CanRun(t) == Alive /\ (single_thread => TurnsSuspended(Turns \ {t}) /\ WriterSuspended)

WriterCanRun == Alive /\ (single_thread => TurnsSuspended(Turns))

MainCanRun == Alive /\ (single_thread => TurnsSuspended(Turns) /\ WriterSuspended)

TaskStep(t, from, to) ==
  /\ CanRun(t) /\ task[t] = from /\ task' = [task EXCEPT ![t] = to]
  /\ UNCHANGED <<single_thread, writerVars, sinkVars, main>>

(* A read or a timer wakes a turn; the turn then emits one record or more. *)
Wake(t) ==
  /\ main = "chatting"
  /\ TaskStep(t, "waiting", "running")
  /\ UNCHANGED <<emitted, busVars>>

AwaitRead(t) ==
  /\ TaskStep(t, "emitted", IF emitted[t] = TurnLength THEN "over" ELSE "waiting")
  /\ UNCHANGED <<emitted, busVars>>

EmitAgain(t) ==
  /\ emitted[t] < TurnLength
  /\ TaskStep(t, "emitted", "running")
  /\ UNCHANGED <<emitted, busVars>>

-----------------------------------------------------------------------------
(* emit.                                                                   *)

HasRoom == Len(queue) < Capacity /\ ~WriterEnded

Accept(t, r) == /\ queue' = Append(queue, r)
                /\ sent' = Append(sent, r) /\ ahead' = Append(ahead, known[t])

Refuse == UNCHANGED <<queue, sent, ahead>>

(* Mutant of TrySend: a full channel makes the sender wait in its place.   *)
SendOrWait(t) ==
  /\ HasRoom
  /\ TaskStep(t, "running", "counting")
  /\ Accept(t, Record(t, emitted[t] + 1))
  /\ emitted' = [emitted EXCEPT ![t] = @ + 1]
  /\ UNCHANGED <<dropped, emit_count, known>>

(* The record is dropped when the channel is full or the receiver is gone. *)
TrySend(t) ==
  /\ IF HasRoom
     THEN TaskStep(t, "running", "counting") /\ Accept(t, Record(t, emitted[t] + 1))
     ELSE TaskStep(t, "running", "dropping") /\ Refuse
  /\ emitted' = [emitted EXCEPT ![t] = @ + 1]
  /\ UNCHANGED <<dropped, emit_count, known>>

(* Mutant of CountDrop: the counter is a flag.                             *)
CountDropOnce(t) ==
  /\ TaskStep(t, "dropping", "counting")
  /\ dropped' = 1 /\ known' = [known EXCEPT ![t] = dropped']
  /\ UNCHANGED <<emitted, queue, emit_count, sent, ahead>>

CountDrop(t) ==
  /\ TaskStep(t, "dropping", "counting")
  /\ dropped' = dropped + 1 /\ known' = [known EXCEPT ![t] = dropped']
  /\ UNCHANGED <<emitted, queue, emit_count, sent, ahead>>

(* Mutant of CountEmit: the sample is sent whether there is room or not.   *)
CountEmitUnbounded(t) ==
  /\ TaskStep(t, "counting", "emitted")
  /\ emit_count' = emit_count + 1
  /\ IF emit_count' % SampleEvery = 0 THEN Accept(t, Sample) ELSE Refuse
  /\ UNCHANGED <<emitted, dropped, known>>

(* Every SampleEvery emits a latency sample follows; when the channel has  *)
(* no room it is lost and not counted.                                     *)
CountEmit(t) ==
  /\ TaskStep(t, "counting", "emitted")
  /\ emit_count' = emit_count + 1
  /\ IF emit_count' % SampleEvery = 0 /\ HasRoom THEN Accept(t, Sample) ELSE Refuse
  /\ UNCHANGED <<emitted, dropped, known>>

-----------------------------------------------------------------------------
(* The writer task and its sinks.                                          *)

Receive ==
  /\ WriterCanRun /\ writer = "recv" /\ queue # <<>>
  /\ rec' = Head(queue)
  /\ queue' = Tail(queue)
  /\ writer' = "write"
  /\ UNCHANGED <<single_thread, turnVars, dropped, emit_count, sent, known, ahead, last_drop_report,
                 sinkVars, main>>

(* Mutant of SinkWrite: the capture sink counts records only, and a        *)
(* trailer waits for its turn.                                             *)
SinkWriteNoBoundary(r) ==
  /\ ~wedged
  /\ written' = Append(written, r)
  /\ IF since_flush + 1 >= FlushEvery
     THEN flushed' = Len(written') /\ since_flush' = 0
     ELSE since_flush' = since_flush + 1 /\ UNCHANGED flushed

(* Every sink is given the record.  The capture sink flushes at a trailer  *)
(* and every FlushEvery records.                                           *)
SinkWrite(r) ==
  /\ ~wedged
  /\ written' = Append(written, r)
  /\ IF IsTrailer(r) \/ since_flush + 1 >= FlushEvery
     THEN flushed' = Len(written') /\ since_flush' = 0
     ELSE since_flush' = since_flush + 1 /\ UNCHANGED flushed

Write ==
  /\ WriterCanRun /\ writer = "write"
  /\ SinkWrite(rec)
  /\ rec' = NoRecord
  /\ writer' = "check"
  /\ UNCHANGED <<single_thread, turnVars, busVars, last_drop_report, wedged, main>>

(* Mutant of CheckDrops: a single new drop is not worth a record.          *)
CheckDropsOffByOne ==
  /\ WriterCanRun /\ writer = "check"
  /\ IF dropped > last_drop_report + 1
     THEN last_drop_report' = dropped /\ writer' = "report"
     ELSE writer' = "recv" /\ UNCHANGED last_drop_report
  /\ UNCHANGED <<single_thread, turnVars, busVars, rec, sinkVars, main>>

Received == 1..(Len(sent) - Len(queue))

(* The load is relaxed: on multi_thread it may miss the latest drops, but  *)
(* none that the sender of a received record had counted before it sent    *)
(* that record, for the channel orders the two.                            *)
CheckDrops ==
  /\ WriterCanRun /\ writer = "check"
  /\ \E d \in IF single_thread THEN {dropped}
             ELSE {n \in last_drop_report..dropped : \A i \in Received : ahead[i] =< n} :
       IF d # last_drop_report THEN last_drop_report' = d /\ writer' = "report"
                               ELSE writer' = "recv" /\ UNCHANGED last_drop_report
  /\ UNCHANGED <<single_thread, turnVars, busVars, rec, sinkVars, main>>

ReportDrops ==
  /\ WriterCanRun /\ writer = "report"
  /\ SinkWrite(CaptureDrop(last_drop_report))
  /\ writer' = "recv"
  /\ UNCHANGED <<single_thread, turnVars, busVars, rec, last_drop_report, wedged, main>>

InSink == Alive /\ writer \in {"write", "report"}

(* A terminal nobody reads, a disk that hangs.                             *)
Wedge(to) ==
  /\ InSink /\ wedged # to /\ wedged' = to
  /\ UNCHANGED <<single_thread, turnVars, busVars, writerVars, written, flushed, since_flush, main>>

(* print! panics when it cannot write.  The task unwinds: the receiver     *)
(* goes with all it holds, and the capture sink flushes as it is dropped.  *)
SinkPanics ==
  /\ InSink /\ ~wedged
  /\ writer' = "panicked" /\ rec' = NoRecord /\ queue' = <<>>
  /\ flushed' = Len(written)
  /\ UNCHANGED <<single_thread, turnVars, dropped, emit_count, sent, known, ahead, last_drop_report,
                 wedged, written, since_flush, main>>

(* recv returns None once every sender is gone and the channel is empty.   *)
WriterEnds ==
  /\ WriterCanRun /\ writer = "recv" /\ queue = <<>> /\ main \in {"draining", "leaving"}
  /\ writer' = "ended"
  /\ flushed' = Len(written)
  /\ UNCHANGED <<single_thread, turnVars, busVars, rec, last_drop_report, wedged, written,
                 since_flush, main>>

-----------------------------------------------------------------------------
(* The main task.                                                          *)

(* Between two turns: none is under way.                                   *)
AtPrompt == /\ main = "chatting"
            /\ \A t \in Turns : task[t] = "over" \/ (task[t] = "waiting" /\ emitted[t] = 0)

MainStep(to) ==
  /\ MainCanRun /\ main' = to
  /\ UNCHANGED <<single_thread, turnVars, busVars, writerVars, wedged, written, since_flush>>

(* The end of the session drops every sender; an error of the terminal     *)
(* returns from main at once, which drops them too.                        *)
DropSenders == AtPrompt /\ MainStep("draining") /\ UNCHANGED flushed

ReturnEarly == AtPrompt /\ MainStep("leaving") /\ UNCHANGED flushed

(* Mutant of WriterAwaited: main does not wait for the writer.             *)
WriterNotAwaited == main = "draining" /\ MainStep("drained") /\ UNCHANGED flushed

WriterAwaited == main = "draining" /\ WriterEnded /\ MainStep("drained") /\ UNCHANGED flushed

(* The five seconds are over.                                              *)
DrainTimesOut == main = "draining" /\ ~WriterEnded /\ MainStep("leaving") /\ UNCHANGED flushed

(* The runtime is dropped: it waits until the writer is at an await, then  *)
(* drops the task with what it has not received.                           *)
RuntimeDropped ==
  /\ main = "leaving" /\ WriterSuspended
  /\ MainStep("exited")
  /\ flushed' = Len(written)

(* A signal.  What is in memory is lost.                                   *)
Kill ==
  /\ Alive /\ main' = "killed"
  /\ UNCHANGED <<single_thread, turnVars, busVars, writerVars, sinkVars>>

Gone == ~Alive /\ UNCHANGED vars

TurnStep(t) == AwaitRead(t) \/ EmitAgain(t) \/ TrySend(t) \/ CountDrop(t) \/ CountEmit(t)

WriterStep == Receive \/ Write \/ CheckDrops \/ ReportDrops \/ WriterEnds

Next == \/ \E t \in Turns : Wake(t) \/ TurnStep(t)
        \/ WriterStep \/ \E to \in BOOLEAN : Wedge(to)
        \/ SinkPanics
        \/ DropSenders \/ ReturnEarly \/ WriterAwaited \/ DrainTimesOut \/ RuntimeDropped
        \/ Kill \/ Gone

Spec == Init /\ [][Next]_vars

(* A runnable task is run: a turn that runs goes on, one that waits is     *)
(* woken by its own timers at the latest (INV-CHAT-09).  Nothing forces a  *)
(* wedged sink to return.                                                  *)
FairSpec == /\ Spec
            /\ \A t \in Turns : WF_vars(TurnStep(t)) /\ SF_vars(Wake(t))
            /\ SF_vars(WriterStep)

-----------------------------------------------------------------------------

AnyRecord == [by : Turns \cup {"bus", "writer"}, n : Nat]

(* Every variable has its type; the channel never holds more than its      *)
(* capacity, whoever sends.                                                *)
TypeOK == /\ single_thread \in BOOLEAN
          /\ task \in [Turns -> {"waiting", "running", "dropping", "counting", "emitted", "over"}]
          /\ emitted \in [Turns -> 0..TurnLength]
          /\ queue \in Seq(AnyRecord) /\ Len(queue) =< Capacity
          /\ sent \in Seq(AnyRecord) /\ written \in Seq(AnyRecord)
          /\ known \in [Turns -> Nat] /\ ahead \in Seq(Nat)
          /\ dropped \in Nat /\ emit_count \in Nat /\ last_drop_report \in Nat
          /\ writer \in {"recv", "write", "check", "report", "ended", "panicked"}
          /\ rec \in AnyRecord \cup {NoRecord}
          /\ wedged \in BOOLEAN /\ flushed \in Nat /\ since_flush \in 0..(FlushEvery - 1)
          /\ main \in {"chatting", "draining", "leaving", "exited", "drained", "killed"}

(* The places of a log where a record of one of S stands.                  *)
Of(S, log) == {i \in DOMAIN log : log[i].by \in S}

Senders == Turns \cup {"bus"}

Emissions == {r \in [by : Turns, n : 1..TurnLength] : r.n =< emitted[r.by]}

Delivered == Of(Senders, written)

(* The how-manieth delivery it is that stands at i.                        *)
Rank(i) == Cardinality({j \in Delivered : j =< i})

DeliveredInOrder == \A i \in Delivered : Rank(i) \in DOMAIN sent /\ written[i] = sent[Rank(i)]

Held == (IF rec = NoRecord THEN <<>> ELSE <<rec>>) \o queue

(* What is held is what was accepted after the first n records.            *)
HeldInOrder(n) == \A i \in DOMAIN Held : n + i \in DOMAIN sent /\ Held[i] = sent[n + i]

Dropping == {t \in Turns : task[t] = "dropping"}

Counted == Cardinality(Emissions) = Cardinality(Of(Turns, sent)) + dropped + Cardinality(Dropping)

SentInOrder ==
  \A i, j \in Of(Turns, sent) : i < j /\ sent[i].by = sent[j].by => sent[i].n < sent[j].n

(* emission.rs:181: every record a turn emitted is accepted or counted as  *)
(* dropped, and what was accepted is in the sinks, in the writer's hand or *)
(* in the channel, in the order of acceptance; only a panic of a sink      *)
(* takes what the channel held.  And no text of a turn overtakes another.  *)
RecordsAccounted ==
  /\ Counted /\ SentInOrder
  /\ DeliveredInOrder /\ HeldInOrder(Cardinality(Delivered))
  /\ writer # "panicked" => Len(sent) = Cardinality(Delivered) + Len(Held)

Reported(d) == \E i \in Of({"writer"}, written) : written[i].n = d

CaughtUp == writer \in {"recv", "ended"} /\ queue = <<>>

(* README.md:173, "surfaced as `capture_drop`": when the writer has caught *)
(* up it has reported every drop a turn had counted before it sent a       *)
(* record that was accepted, its trailer for one.  On current_thread it    *)
(* has then reported every drop there is; on multi_thread a drop behind    *)
(* the last record accepted can be missed.                                 *)
DropsReported ==
  /\ last_drop_report =< dropped
  /\ CaughtUp
       => /\ \A i \in DOMAIN ahead : ahead[i] =< last_drop_report
          /\ last_drop_report > 0 => Reported(last_drop_report)
          /\ single_thread /\ TurnsSuspended(Turns) => last_drop_report = dropped

(* ports.rs:73: whenever the process is killed, the capture file lacks     *)
(* fewer than FlushEvery of the records the sinks were given, and a turn   *)
(* whose trailer was written is there as far as its trailer.               *)
KillLosesLittle ==
  /\ Len(written) - flushed < FlushEvery
  /\ \A i \in (flushed + 1)..Len(written) : ~IsTrailer(written[i])

(* main.rs:105: a session that has waited for its writer leaves nothing in *)
(* the channel, and everything accepted is in the capture file.            *)
DrainDelivers ==
  main = "drained" /\ writer # "panicked"
    => Cardinality(Delivered) = Len(sent) /\ DeliveredInOrder /\ flushed = Len(written)

(* INV-CHAT-17 as far as it holds: turns go on to their end while a sink   *)
(* is slow or panics, and even while it is wedged forever if the runtime   *)
(* has threads to spare.                                                   *)
WireFlows ==
  <>[](single_thread /\ wedged) \/ \A t \in Turns : task[t] = "running" ~> (task[t] = "over" \/ ~Alive)

(* README.md:174: a wedged sink "can never back-pressure the wire".        *)
WireNeverBlocked ==
  \A t \in Turns : task[t] = "running" ~> (task[t] = "over" \/ ~Alive)

=============================================================================
