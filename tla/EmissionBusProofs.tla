--------------------------- MODULE EmissionBusProofs ---------------------------
(***************************************************************************)
(* What holds of the bus for any number of turns and any capacity: its     *)
(* types, what a kill can take from the capture file, what is said of      *)
(* dropped records, and where every record is until the drain is over.     *)
(***************************************************************************)
EXTENDS EmissionBus, SequenceTheorems, FiniteSetTheorems, TLAPS

(* A turn that may still emit has a record left; the writer writes what    *)
(* it has received.                                                        *)
EmitsItsRecords ==
  /\ \A t \in Turns : task[t] \in {"waiting", "running"} => emitted[t] < TurnLength
  /\ writer = "write" => rec \in AnyRecord

(* The capture sink counts what it has not flushed, and a trailer does not *)
(* wait.                                                                   *)
FlushCounted ==
  /\ flushed =< Len(written) /\ Len(written) - flushed =< since_flush
  /\ \A i \in (flushed + 1)..Len(written) : ~IsTrailer(written[i])

IInv == TypeOK /\ EmitsItsRecords /\ FlushCounted

LEMMA Records == \A t \in Turns, n \in Nat :
                   Record(t, n) \in AnyRecord /\ Sample \in AnyRecord /\ CaptureDrop(n) \in AnyRecord
BY DEF Record, Sample, CaptureDrop, AnyRecord

LEMMA InitHolds == Init => IInv
<1>. SUFFICES ASSUME Init PROVE IInv
  OBVIOUS
<1>. USE BusAssumption DEF BusAssumption
<1>1. <<>> \in Seq(AnyRecord) /\ Len(<<>>) = 0
  OBVIOUS
<1>2. TypeOK
  <2>1. /\ task \in [Turns -> {"waiting", "running", "dropping", "counting", "emitted", "over"}]
        /\ emitted \in [Turns -> 0..TurnLength]
    BY DEF Init
  <2>2. /\ queue \in Seq(AnyRecord) /\ Len(queue) =< Capacity
        /\ sent \in Seq(AnyRecord) /\ written \in Seq(AnyRecord)
    BY <1>1 DEF Init
  <2>5. known \in [Turns -> Nat] /\ ahead \in Seq(Nat)
    BY DEF Init
  <2>3. /\ dropped \in Nat /\ emit_count \in Nat /\ last_drop_report \in Nat
        /\ flushed \in Nat /\ since_flush \in 0..(FlushEvery - 1)
    BY DEF Init
  <2>4. /\ single_thread \in BOOLEAN /\ wedged \in BOOLEAN
        /\ writer \in {"recv", "write", "check", "report", "ended", "panicked"}
        /\ rec \in AnyRecord \cup {NoRecord}
        /\ main \in {"chatting", "draining", "leaving", "exited", "drained", "killed"}
    BY DEF Init
  <2>. QED BY <2>1, <2>2, <2>3, <2>4, <2>5 DEF TypeOK
<1>3. EmitsItsRecords
  BY DEF Init, EmitsItsRecords
<1>4. FlushCounted
  BY <1>1 DEF Init, FlushCounted
<1>. QED BY <1>2, <1>3, <1>4 DEF IInv

(* A step of a turn or of the main task that leaves the sinks alone.       *)
LEMMA SinksAlone ==
  ASSUME FlushCounted, UNCHANGED sinkVars PROVE FlushCounted'
BY DEF FlushCounted, sinkVars, IsTrailer

(* Whatever ends the writer or the process in order flushes all.           *)
LEMMA FlushAll ==
  ASSUME IInv, flushed' = Len(written), UNCHANGED <<written, since_flush>>
  PROVE  FlushCounted' /\ flushed' \in Nat
BY LenProperties DEF IInv, TypeOK, FlushCounted

LEMMA SinkWriteKeeps ==
  ASSUME IInv, NEW r \in AnyRecord, SinkWrite(r)
  PROVE  /\ FlushCounted' /\ written' \in Seq(AnyRecord)
         /\ flushed' \in Nat /\ since_flush' \in 0..(FlushEvery - 1)
<1>. USE BusAssumption DEF BusAssumption
<1>1. /\ written \in Seq(AnyRecord) /\ flushed \in Nat /\ since_flush \in 0..(FlushEvery - 1)
      /\ Len(written) \in Nat
  BY LenProperties DEF IInv, TypeOK
<1>2. /\ written' = Append(written, r) /\ written' \in Seq(AnyRecord)
      /\ Len(written') = Len(written) + 1
      /\ \A i \in 1..Len(written) : written'[i] = written[i]
      /\ written'[Len(written) + 1] = r
  BY <1>1, AppendProperties DEF SinkWrite
<1>3. CASE IsTrailer(r) \/ since_flush + 1 >= FlushEvery
  <2>1. flushed' = Len(written') /\ since_flush' = 0
    BY <1>3 DEF SinkWrite
  <2>. QED BY <1>1, <1>2, <2>1 DEF FlushCounted
<1>4. CASE ~(IsTrailer(r) \/ since_flush + 1 >= FlushEvery)
  <2>1. flushed' = flushed /\ since_flush' = since_flush + 1
    BY <1>4 DEF SinkWrite
  <2>2. flushed' =< Len(written') /\ Len(written') - flushed' =< since_flush'
    BY <1>1, <1>2, <2>1 DEF IInv, FlushCounted
  <2>3. ASSUME NEW i \in (flushed' + 1)..Len(written') PROVE ~IsTrailer(written'[i])
    <3>1. CASE i = Len(written) + 1
      BY <1>2, <1>4, <3>1
    <3>2. CASE i # Len(written) + 1
      <4>1. i \in (flushed + 1)..Len(written) /\ i \in 1..Len(written)
        BY <1>1, <1>2, <2>1, <2>3, <3>2
      <4>2. ~IsTrailer(written[i])
        BY <4>1 DEF IInv, FlushCounted
      <4>. QED BY <1>2, <4>1, <4>2
    <3>. QED BY <3>1, <3>2
  <2>4. FlushCounted'
    BY <2>2, <2>3 DEF FlushCounted, IsTrailer
  <2>. QED BY <1>1, <1>2, <1>4, <2>1, <2>4
<1>. QED BY <1>3, <1>4

(* What the channel accepts when it has room.                              *)
LEMMA AcceptKeeps ==
  ASSUME TypeOK, NEW t \in Turns, NEW r \in AnyRecord, HasRoom, Accept(t, r)
  PROVE  /\ queue' \in Seq(AnyRecord) /\ Len(queue') =< Capacity
         /\ sent' \in Seq(AnyRecord) /\ ahead' \in Seq(Nat)
<1>1. /\ queue \in Seq(AnyRecord) /\ sent \in Seq(AnyRecord) /\ Len(queue) \in Nat
      /\ ahead \in Seq(Nat) /\ known[t] \in Nat
  BY LenProperties DEF TypeOK
<1>2. queue' \in Seq(AnyRecord) /\ Len(queue') = Len(queue) + 1 /\ sent' \in Seq(AnyRecord)
  BY <1>1, AppendProperties DEF Accept
<1>3. ahead' \in Seq(Nat)
  BY <1>1, AppendProperties DEF Accept
<1>. QED BY <1>1, <1>2, <1>3, BusAssumption DEF HasRoom, BusAssumption

LEMMA WakeKeeps == ASSUME IInv, NEW t \in Turns, Wake(t) PROVE IInv'
<1>1. FlushCounted'
  BY SinksAlone DEF IInv, Wake, TaskStep
<1>2. TypeOK'
  BY DEF IInv, Wake, TaskStep, TypeOK, busVars, writerVars, sinkVars
<1>3. EmitsItsRecords'
  BY DEF IInv, Wake, TaskStep, TypeOK, EmitsItsRecords, busVars, writerVars, sinkVars
<1>. QED BY <1>1, <1>2, <1>3 DEF IInv

LEMMA AwaitReadKeeps == ASSUME IInv, NEW t \in Turns, AwaitRead(t) PROVE IInv'
<1>1. FlushCounted'
  BY SinksAlone DEF IInv, AwaitRead, TaskStep
<1>2. TypeOK'
  BY DEF IInv, AwaitRead, TaskStep, TypeOK, busVars, writerVars, sinkVars
<1>3. EmitsItsRecords'
  BY BusAssumption
     DEF BusAssumption, IInv, AwaitRead, TaskStep, TypeOK, EmitsItsRecords, busVars, writerVars
<1>. QED BY <1>1, <1>2, <1>3 DEF IInv

LEMMA EmitAgainKeeps == ASSUME IInv, NEW t \in Turns, EmitAgain(t) PROVE IInv'
<1>1. FlushCounted'
  BY SinksAlone DEF IInv, EmitAgain, TaskStep
<1>2. TypeOK'
  BY DEF IInv, EmitAgain, TaskStep, TypeOK, busVars, writerVars, sinkVars
<1>3. EmitsItsRecords'
  BY DEF IInv, EmitAgain, TaskStep, TypeOK, EmitsItsRecords, busVars, writerVars
<1>. QED BY <1>1, <1>2, <1>3 DEF IInv

LEMMA TrySendKeeps == ASSUME IInv, NEW t \in Turns, TrySend(t) PROVE IInv'
<1>. USE BusAssumption DEF BusAssumption
<1>1. /\ task[t] = "running" /\ emitted[t] < TurnLength /\ emitted[t] \in 0..TurnLength
      /\ emitted' = [emitted EXCEPT ![t] = @ + 1]
      /\ \E to \in {"counting", "dropping"} : task' = [task EXCEPT ![t] = to]
      /\ UNCHANGED <<single_thread, writerVars, sinkVars, main, dropped, emit_count, known>>
  BY DEF TrySend, TaskStep, IInv, EmitsItsRecords, TypeOK
<1>2. FlushCounted'
  BY <1>1, SinksAlone DEF IInv
<1>3. /\ queue' \in Seq(AnyRecord) /\ Len(queue') =< Capacity
      /\ sent' \in Seq(AnyRecord) /\ ahead' \in Seq(Nat)
  <2>1. CASE HasRoom
    <3>1. Record(t, emitted[t] + 1) \in AnyRecord
      BY <1>1, Records
    <3>. QED BY <2>1, <3>1, AcceptKeeps DEF TrySend, IInv
  <2>2. CASE ~HasRoom
    BY <2>2 DEF TrySend, Refuse, IInv, TypeOK
  <2>. QED BY <2>1, <2>2
<1>6. /\ task' \in [Turns -> {"waiting", "running", "dropping", "counting", "emitted", "over"}]
      /\ emitted' \in [Turns -> 0..TurnLength]
  BY <1>1 DEF IInv, TypeOK
<1>4. TypeOK'
  BY <1>1, <1>3, <1>6, Zenon DEF IInv, TypeOK, writerVars, sinkVars
<1>5. EmitsItsRecords'
  BY <1>1 DEF IInv, TypeOK, EmitsItsRecords, writerVars
<1>. QED BY <1>2, <1>4, <1>5 DEF IInv

LEMMA CountDropKeeps == ASSUME IInv, NEW t \in Turns, CountDrop(t) PROVE IInv'
<1>1. FlushCounted'
  BY SinksAlone DEF IInv, CountDrop, TaskStep
<1>2. TypeOK'
  BY DEF IInv, CountDrop, TaskStep, TypeOK, writerVars, sinkVars
<1>3. EmitsItsRecords'
  BY DEF IInv, CountDrop, TaskStep, TypeOK, EmitsItsRecords, writerVars
<1>. QED BY <1>1, <1>2, <1>3 DEF IInv

LEMMA CountEmitKeeps == ASSUME IInv, NEW t \in Turns, CountEmit(t) PROVE IInv'
<1>1. FlushCounted'
  BY SinksAlone DEF IInv, CountEmit, TaskStep
<1>2. /\ queue' \in Seq(AnyRecord) /\ Len(queue') =< Capacity
      /\ sent' \in Seq(AnyRecord) /\ ahead' \in Seq(Nat)
  <2>1. CASE HasRoom /\ Accept(t, Sample)
    BY <2>1, Records, AcceptKeeps DEF IInv
  <2>2. CASE Refuse
    BY <2>2 DEF Refuse, IInv, TypeOK
  <2>. QED BY <2>1, <2>2 DEF CountEmit
<1>3. TypeOK'
  BY <1>2 DEF IInv, CountEmit, TaskStep, TypeOK, writerVars, sinkVars
<1>4. EmitsItsRecords'
  BY DEF IInv, CountEmit, TaskStep, TypeOK, EmitsItsRecords, writerVars
<1>. QED BY <1>1, <1>3, <1>4 DEF IInv

LEMMA ReceiveKeeps == ASSUME IInv, Receive PROVE IInv'
<1>1. FlushCounted'
  BY SinksAlone DEF IInv, Receive
<1>2. /\ queue \in Seq(AnyRecord) /\ queue # <<>>
      /\ rec' = Head(queue) /\ queue' = Tail(queue) /\ writer' = "write"
  BY DEF IInv, Receive, TypeOK
<1>3. rec' \in AnyRecord /\ queue' \in Seq(AnyRecord) /\ Len(queue') = Len(queue) - 1
  BY <1>2, HeadTailProperties
<1>4. Len(queue) \in Nat
  BY <1>2, LenProperties
<1>5. TypeOK'
  BY <1>2, <1>3, <1>4, BusAssumption DEF BusAssumption, IInv, Receive, TypeOK, turnVars, sinkVars
<1>6. EmitsItsRecords'
  BY <1>3 DEF IInv, Receive, EmitsItsRecords, turnVars
<1>. QED BY <1>1, <1>5, <1>6 DEF IInv

LEMMA WriteKeeps == ASSUME IInv, Write PROVE IInv'
<1>1. rec \in AnyRecord
  BY DEF IInv, Write, EmitsItsRecords
<1>2. /\ FlushCounted' /\ written' \in Seq(AnyRecord)
      /\ flushed' \in Nat /\ since_flush' \in 0..(FlushEvery - 1)
  BY <1>1, SinkWriteKeeps DEF Write
<1>3. TypeOK'
  BY <1>2 DEF IInv, Write, TypeOK, turnVars, busVars
<1>4. EmitsItsRecords'
  BY DEF IInv, Write, EmitsItsRecords, turnVars
<1>. QED BY <1>2, <1>3, <1>4 DEF IInv

LEMMA ReportDropsKeeps == ASSUME IInv, ReportDrops PROVE IInv'
<1>1. CaptureDrop(last_drop_report) \in AnyRecord
  BY DEF IInv, TypeOK, CaptureDrop, AnyRecord
<1>2. /\ FlushCounted' /\ written' \in Seq(AnyRecord)
      /\ flushed' \in Nat /\ since_flush' \in 0..(FlushEvery - 1)
  BY <1>1, SinkWriteKeeps DEF ReportDrops
<1>3. TypeOK'
  BY <1>2 DEF IInv, ReportDrops, TypeOK, turnVars, busVars
<1>4. EmitsItsRecords'
  BY DEF IInv, ReportDrops, EmitsItsRecords, turnVars
<1>. QED BY <1>2, <1>3, <1>4 DEF IInv

LEMMA CheckDropsKeeps == ASSUME IInv, CheckDrops PROVE IInv'
<1>1. FlushCounted'
  BY SinksAlone DEF IInv, CheckDrops
<1>2. last_drop_report' \in Nat /\ writer' \in {"report", "recv"}
  BY DEF IInv, TypeOK, CheckDrops
<1>3. TypeOK'
  BY <1>2 DEF IInv, CheckDrops, TypeOK, turnVars, busVars, sinkVars
<1>4. EmitsItsRecords'
  BY <1>2 DEF IInv, CheckDrops, EmitsItsRecords, turnVars
<1>. QED BY <1>1, <1>3, <1>4 DEF IInv

LEMMA WedgeKeeps == ASSUME IInv, NEW to \in BOOLEAN, Wedge(to) PROVE IInv'
<1>1. FlushCounted'
  BY DEF IInv, Wedge, FlushCounted, IsTrailer
<1>2. TypeOK'
  BY DEF IInv, Wedge, TypeOK, turnVars, busVars, writerVars
<1>3. EmitsItsRecords'
  BY DEF IInv, Wedge, EmitsItsRecords, turnVars, writerVars
<1>. QED BY <1>1, <1>2, <1>3 DEF IInv

LEMMA PanicKeeps == ASSUME IInv, SinkPanics PROVE IInv'
<1>1. FlushCounted' /\ flushed' \in Nat
  BY FlushAll DEF SinkPanics
<1>2. queue' = <<>> /\ queue' \in Seq(AnyRecord) /\ Len(queue') = 0
  BY DEF SinkPanics
<1>3. TypeOK'
  BY <1>1, <1>2, BusAssumption DEF BusAssumption, IInv, SinkPanics, TypeOK, turnVars
<1>4. EmitsItsRecords'
  BY DEF IInv, SinkPanics, EmitsItsRecords, turnVars
<1>. QED BY <1>1, <1>3, <1>4 DEF IInv

LEMMA WriterEndsKeeps == ASSUME IInv, WriterEnds PROVE IInv'
<1>1. FlushCounted' /\ flushed' \in Nat
  BY FlushAll DEF WriterEnds
<1>2. TypeOK'
  BY <1>1 DEF IInv, WriterEnds, TypeOK, turnVars, busVars
<1>3. EmitsItsRecords'
  BY DEF IInv, WriterEnds, EmitsItsRecords, turnVars
<1>. QED BY <1>1, <1>2, <1>3 DEF IInv

(* The main task changes nothing of the bus but, at the very end, what has *)
(* been flushed.                                                           *)
LEMMA MainKeeps ==
  ASSUME IInv, NEW to \in {"draining", "leaving", "drained", "exited"}, MainStep(to),
         flushed' = flushed \/ flushed' = Len(written)
  PROVE  IInv'
<1>1. FlushCounted' /\ flushed' \in Nat
  <2>1. CASE flushed' = flushed
    BY <2>1 DEF IInv, TypeOK, MainStep, FlushCounted, IsTrailer
  <2>2. CASE flushed' = Len(written)
    BY <2>2, FlushAll DEF MainStep
  <2>. QED BY <2>1, <2>2
<1>2. TypeOK'
  BY <1>1 DEF IInv, MainStep, TypeOK, turnVars, busVars, writerVars
<1>3. EmitsItsRecords'
  BY DEF IInv, MainStep, EmitsItsRecords, turnVars, writerVars
<1>. QED BY <1>1, <1>2, <1>3 DEF IInv

LEMMA KillKeeps == ASSUME IInv, Kill PROVE IInv'
<1>1. FlushCounted'
  BY SinksAlone DEF IInv, Kill
<1>2. TypeOK'
  BY DEF IInv, Kill, TypeOK, turnVars, busVars, writerVars, sinkVars
<1>3. EmitsItsRecords'
  BY DEF IInv, Kill, EmitsItsRecords, turnVars, writerVars
<1>. QED BY <1>1, <1>2, <1>3 DEF IInv

LEMMA StepKeeps == IInv /\ [Next]_vars => IInv'
<1>. SUFFICES ASSUME IInv, [Next]_vars PROVE IInv'
  OBVIOUS
<1>1. CASE \E t \in Turns : Wake(t) \/ TurnStep(t)
  BY <1>1, WakeKeeps, AwaitReadKeeps, EmitAgainKeeps, TrySendKeeps, CountDropKeeps, CountEmitKeeps
     DEF TurnStep
<1>2. CASE WriterStep
  BY <1>2, ReceiveKeeps, WriteKeeps, CheckDropsKeeps, ReportDropsKeeps, WriterEndsKeeps
     DEF WriterStep
<1>3. CASE \E to \in BOOLEAN : Wedge(to)
  BY <1>3, WedgeKeeps
<1>4. CASE SinkPanics
  BY <1>4, PanicKeeps
<1>5. CASE DropSenders \/ ReturnEarly \/ WriterAwaited \/ DrainTimesOut \/ RuntimeDropped
  BY <1>5, MainKeeps DEF DropSenders, ReturnEarly, WriterAwaited, DrainTimesOut, RuntimeDropped
<1>6. CASE Kill
  BY <1>6, KillKeeps
<1>7. CASE Gone \/ UNCHANGED vars
  BY <1>7 DEF Gone, vars, turnVars, busVars, writerVars, sinkVars,
              IInv, TypeOK, EmitsItsRecords, FlushCounted, IsTrailer
<1>. QED BY <1>1, <1>2, <1>3, <1>4, <1>5, <1>6, <1>7 DEF Next

(* Every variable of the bus keeps its type, and the channel its capacity, *)
(* whoever sends and however the writer, its sinks or the process end.     *)
THEOREM TypeCorrect == Spec => []TypeOK
<1>1. IInv => TypeOK
  BY DEF IInv
<1>. QED BY <1>1, InitHolds, StepKeeps, PTL DEF Spec

(* However many turns write, a kill takes fewer than FlushEvery records    *)
(* from the capture file, and never a trailer that was written             *)
(* (ports.rs:73).                                                          *)
THEOREM KillSafe == Spec => []KillLosesLittle
<1>1. IInv => KillLosesLittle
  BY LenProperties, BusAssumption
     DEF BusAssumption, IInv, TypeOK, FlushCounted, KillLosesLittle
<1>. QED BY <1>1, InitHolds, StepKeeps, PTL DEF Spec

-----------------------------------------------------------------------------
(* Drops, reports and the end of the writer.                               *)

(* On one thread a turn and the writer are never both in the middle of     *)
(* their work.                                                             *)
OneAtATime == single_thread => TurnsSuspended(Turns) \/ WriterSuspended

(* The main task leaves the chat between two turns only.                   *)
QuietAtExit == Alive /\ main # "chatting" => TurnsSuspended(Turns)

(* The writer holds a record only until it has written it, ends with       *)
(* nothing left, and is what the drain has waited for.                     *)
EndsEmpty ==
  /\ writer # "write" => rec = NoRecord
  /\ writer = "ended" => queue = <<>> /\ flushed = Len(written) /\ main # "chatting"
  /\ main = "drained" => WriterEnded

(* On one thread drops happen while the channel is full, and the writer    *)
(* looks at the counter after the last record it finds there.              *)
LooksAgain ==
  /\ \A t \in Turns : task[t] = "dropping" => writer = "panicked" \/ (writer = "recv" /\ queue # <<>>)
  /\ last_drop_report # dropped /\ writer \in {"recv", "ended"} => queue # <<>>
  /\ writer = "report" => last_drop_report = dropped

DropsSeen ==
  /\ last_drop_report =< dropped
  /\ last_drop_report > 0 /\ writer \notin {"report", "panicked"} => Reported(last_drop_report)
  /\ single_thread => LooksAgain

Ends == OneAtATime /\ QuietAtExit /\ EndsEmpty /\ DropsSeen

(* A report stays in the log.                                              *)
LEMMA ReportStays ==
  ASSUME TypeOK, NEW r \in AnyRecord, written' = Append(written, r)
  PROVE  /\ \A d : Reported(d) => Reported(d)'
         /\ r.by = "writer" => Reported(r.n)'
<1>1. /\ Len(written) \in Nat /\ Len(written') = Len(written) + 1
      /\ DOMAIN written = 1..Len(written) /\ DOMAIN written' = 1..(Len(written) + 1)
      /\ \A i \in 1..Len(written) : written'[i] = written[i]
      /\ written'[Len(written) + 1] = r
  BY LenProperties, AppendProperties DEF TypeOK
<1>2. ASSUME NEW d, Reported(d) PROVE Reported(d)'
  <2>1. PICK i \in 1..Len(written) : written[i].by \in {"writer"} /\ written[i].n = d
    BY <1>1, <1>2 DEF Reported, Of
  <2>2. i \in DOMAIN written' /\ written'[i].by \in {"writer"} /\ written'[i].n = d
    BY <1>1, <2>1
  <2>. QED BY <2>2 DEF Reported, Of
<1>3. ASSUME r.by = "writer" PROVE Reported(r.n)'
  <2>1. Len(written) + 1 \in DOMAIN written'
    BY <1>1
  <2>. QED BY <1>1, <1>3, <2>1 DEF Reported, Of
<1>. QED BY <1>2, <1>3

LEMMA InitEnds == Init => Ends
BY DEF Init, Ends, OneAtATime, QuietAtExit, EndsEmpty, DropsSeen, LooksAgain, TurnsSuspended,
       WriterSuspended, WriterEnded, NoRecord

(* A turn's step disturbs neither the writer nor the sinks.                *)
LEMMA TurnEnds ==
  ASSUME IInv, Ends, NEW t \in Turns, Wake(t) \/ TurnStep(t) PROVE Ends'
<1>. USE DEF IInv, TypeOK
<1>1. /\ CanRun(t) /\ UNCHANGED <<single_thread, writer, rec, last_drop_report, wedged, written,
                                  flushed, since_flush, main>>
      /\ \E to \in {"waiting", "running", "dropping", "counting", "emitted", "over"} :
            task' = [task EXCEPT ![t] = to]
  BY DEF Wake, TurnStep, AwaitRead, EmitAgain, TrySend, CountDrop, CountEmit, TaskStep,
         writerVars, sinkVars
<1>2. Alive /\ main = "chatting"
  BY DEF Wake, TurnStep, AwaitRead, EmitAgain, TrySend, CountDrop, CountEmit, TaskStep, CanRun,
         Alive, Ends, QuietAtExit, TurnsSuspended
<1>3. writer # "ended"
  BY <1>2 DEF Ends, EndsEmpty
<1>4. single_thread => writer \in {"recv", "panicked"}
  BY <1>1, <1>3 DEF CanRun, WriterSuspended, WriterEnded
<1>5. OneAtATime' /\ QuietAtExit' /\ EndsEmpty'
  BY <1>1, <1>2, <1>3, <1>4
     DEF Ends, OneAtATime, QuietAtExit, EndsEmpty, WriterSuspended, WriterEnded, Alive
<1>6. Reported(last_drop_report) => Reported(last_drop_report)'
  BY <1>1 DEF Reported, Of
<1>7. dropped' \in Nat /\ dropped' >= dropped
  BY DEF Wake, TurnStep, AwaitRead, EmitAgain, TrySend, CountDrop, CountEmit, TaskStep, busVars
<1>8. queue # <<>> => queue' # <<>>
  BY AppendProperties
     DEF Wake, TurnStep, AwaitRead, EmitAgain, TrySend, CountDrop, CountEmit, Accept, Refuse, busVars
<1>9. ASSUME single_thread PROVE LooksAgain'
  <2>1. LooksAgain /\ writer \in {"recv", "panicked"} /\ UNCHANGED <<writer, last_drop_report>>
    BY <1>1, <1>4, <1>9 DEF Ends, DropsSeen
  <2>2. CASE TrySend(t) /\ ~HasRoom
    <3>1. /\ task' = [task EXCEPT ![t] = "dropping"] /\ UNCHANGED <<queue, dropped>>
          /\ writer = "panicked" \/ Len(queue) >= Capacity
      BY <1>3, <2>2, BusAssumption, LenProperties
         DEF TrySend, Refuse, TaskStep, HasRoom, WriterEnded, BusAssumption
    <3>2. queue = <<>> => Len(queue) = 0
      OBVIOUS
    <3>3. writer = "panicked" \/ (writer = "recv" /\ queue # <<>>)
      BY <2>1, <3>1, <3>2, BusAssumption DEF BusAssumption
    <3>. QED BY <2>1, <3>1, <3>3 DEF LooksAgain
  <2>3. CASE CountDrop(t)
    <3>1. /\ task[t] = "dropping" /\ task' = [task EXCEPT ![t] = "counting"] /\ UNCHANGED queue
      BY <2>3 DEF CountDrop, TaskStep
    <3>. QED BY <2>1, <3>1 DEF LooksAgain
  <2>4. CASE ~(TrySend(t) /\ ~HasRoom) /\ ~CountDrop(t)
    <3>1. /\ \E to \in {"waiting", "running", "counting", "emitted", "over"} :
                task' = [task EXCEPT ![t] = to]
          /\ UNCHANGED dropped
      BY <2>4 DEF Wake, TurnStep, AwaitRead, EmitAgain, TrySend, CountEmit, TaskStep, busVars
    <3>. QED BY <1>8, <2>1, <3>1 DEF LooksAgain
  <2>. QED BY <2>2, <2>3, <2>4
<1>10. DropsSeen'
  BY <1>1, <1>6, <1>7, <1>9 DEF Ends, DropsSeen
<1>. QED BY <1>5, <1>10 DEF Ends

(* A step of the writer: what it needs of the others.                      *)
LEMMA WriterAlone ==
  ASSUME IInv, Ends, WriterCanRun, ~WriterEnded,
         UNCHANGED <<single_thread, turnVars, main>>
  PROVE  /\ OneAtATime' /\ QuietAtExit' /\ main # "drained"
         /\ single_thread => TurnsSuspended(Turns) /\ TurnsSuspended(Turns)'
BY DEF Ends, OneAtATime, QuietAtExit, EndsEmpty, TurnsSuspended, WriterCanRun, Alive, turnVars

LEMMA ReceiveEnds == ASSUME IInv, Ends, Receive PROVE Ends'
<1>1. OneAtATime' /\ QuietAtExit' /\ main # "drained" /\ (single_thread => TurnsSuspended(Turns)')
  BY WriterAlone DEF Receive, WriterEnded
<1>2. EndsEmpty'
  BY <1>1 DEF Receive, EndsEmpty
<1>3. DropsSeen'
  BY <1>1 DEF Receive, Ends, DropsSeen, LooksAgain, TurnsSuspended, Reported, Of, sinkVars
<1>. QED BY <1>1, <1>2, <1>3 DEF Ends

LEMMA WriteEnds == ASSUME IInv, Ends, Write PROVE Ends'
<1>1. OneAtATime' /\ QuietAtExit' /\ main # "drained" /\ (single_thread => TurnsSuspended(Turns)')
  BY WriterAlone DEF Write, WriterEnded
<1>2. EndsEmpty'
  BY <1>1 DEF Write, EndsEmpty
<1>3. rec \in AnyRecord /\ written' = Append(written, rec)
  BY DEF IInv, EmitsItsRecords, Write, SinkWrite
<1>4. Reported(last_drop_report) => Reported(last_drop_report)'
  BY <1>3, ReportStays DEF IInv, Write, Reported
<1>5. DropsSeen'
  BY <1>1, <1>4 DEF Write, Ends, DropsSeen, LooksAgain, TurnsSuspended, busVars
<1>. QED BY <1>1, <1>2, <1>5 DEF Ends

LEMMA CheckDropsEnds == ASSUME IInv, Ends, CheckDrops PROVE Ends'
<1>1. OneAtATime' /\ QuietAtExit' /\ main # "drained" /\ (single_thread => TurnsSuspended(Turns)')
  BY WriterAlone DEF CheckDrops, WriterEnded
<1>2. EndsEmpty'
  BY <1>1 DEF CheckDrops, Ends, EndsEmpty
<1>3. PICK d \in IF single_thread THEN {dropped}
                ELSE {n \in last_drop_report..dropped : \A i \in Received : ahead[i] =< n} :
         IF d # last_drop_report THEN last_drop_report' = d /\ writer' = "report"
                                 ELSE writer' = "recv" /\ UNCHANGED last_drop_report
  BY DEF CheckDrops
<1>4. last_drop_report' = d /\ d =< dropped' /\ (single_thread => d = dropped')
  BY <1>3 DEF CheckDrops, busVars, IInv, TypeOK
<1>5. DropsSeen'
  BY <1>1, <1>3, <1>4
     DEF CheckDrops, Ends, DropsSeen, LooksAgain, TurnsSuspended, Reported, Of, sinkVars, busVars
<1>. QED BY <1>1, <1>2, <1>5 DEF Ends

LEMMA ReportDropsEnds == ASSUME IInv, Ends, ReportDrops PROVE Ends'
<1>1. OneAtATime' /\ QuietAtExit' /\ main # "drained" /\ (single_thread => TurnsSuspended(Turns)')
  BY WriterAlone DEF ReportDrops, WriterEnded
<1>2. EndsEmpty'
  BY <1>1 DEF ReportDrops, Ends, EndsEmpty
<1>3. /\ CaptureDrop(last_drop_report) \in AnyRecord
      /\ CaptureDrop(last_drop_report).by = "writer"
      /\ CaptureDrop(last_drop_report).n = last_drop_report
      /\ written' = Append(written, CaptureDrop(last_drop_report))
  BY DEF ReportDrops, SinkWrite, IInv, TypeOK, CaptureDrop, AnyRecord
<1>4. Reported(last_drop_report)'
  <2>1. PICK r \in AnyRecord : r = CaptureDrop(last_drop_report)
    BY <1>3
  <2>2. r.by = "writer" /\ r.n = last_drop_report /\ written' = Append(written, r)
    BY <1>3, <2>1
  <2>3. Reported(r.n)'
    BY <2>2, ReportStays DEF IInv
  <2>4. last_drop_report' = r.n
    BY <2>2 DEF ReportDrops
  <2>. QED BY <2>3, <2>4 DEF Reported
<1>5. DropsSeen'
  <2>1. /\ UNCHANGED <<single_thread, task, dropped, last_drop_report, queue>>
        /\ writer = "report" /\ writer' = "recv" /\ DropsSeen
    BY DEF ReportDrops, busVars, turnVars, Ends
  <2>2. single_thread => \A t \in Turns : task[t] # "dropping"
    BY <1>1, <2>1 DEF TurnsSuspended
  <2>3. single_thread => LooksAgain'
    BY <2>1, <2>2 DEF DropsSeen, LooksAgain
  <2>. QED BY <1>4, <2>1, <2>3 DEF DropsSeen
<1>. QED BY <1>1, <1>2, <1>5 DEF Ends

LEMMA WriterEndsEnds == ASSUME IInv, Ends, WriterEnds PROVE Ends'
<1>1. OneAtATime' /\ QuietAtExit' /\ main # "drained" /\ (single_thread => TurnsSuspended(Turns)')
  BY WriterAlone DEF WriterEnds, WriterEnded
<1>2. EndsEmpty'
  BY <1>1 DEF WriterEnds, Ends, EndsEmpty, busVars
<1>3. DropsSeen'
  BY <1>1 DEF WriterEnds, Ends, DropsSeen, LooksAgain, TurnsSuspended, Reported, Of, busVars
<1>. QED BY <1>1, <1>2, <1>3 DEF Ends

LEMMA PanicEnds == ASSUME IInv, Ends, SinkPanics PROVE Ends'
<1>1. OneAtATime' /\ QuietAtExit' /\ EndsEmpty'
  BY DEF SinkPanics, Ends, OneAtATime, QuietAtExit, EndsEmpty, WriterSuspended, WriterEnded,
         TurnsSuspended, Alive, turnVars
<1>2. DropsSeen'
  BY DEF SinkPanics, Ends, DropsSeen, LooksAgain, turnVars
<1>. QED BY <1>1, <1>2 DEF Ends

(* The main task, a wedge and a kill leave turns, bus and writer alone.    *)
LEMMA OthersEnd ==
  ASSUME IInv, Ends,
         UNCHANGED <<single_thread, turnVars, busVars, writerVars, written>>,
         \/ UNCHANGED <<flushed, main>>
         \/ main' = "killed" /\ UNCHANGED flushed
         \/ main' \in {"draining", "leaving"} /\ (AtPrompt \/ main = "draining") /\ UNCHANGED flushed
         \/ main' = "drained" /\ main = "draining" /\ WriterEnded /\ UNCHANGED flushed
         \/ main' = "exited" /\ main = "leaving" /\ flushed' = Len(written)
  PROVE  Ends'
<1>1. OneAtATime' /\ QuietAtExit'
  BY DEF Ends, OneAtATime, QuietAtExit, AtPrompt, TurnsSuspended, WriterSuspended, WriterEnded,
         Alive, turnVars, writerVars
<1>2. EndsEmpty'
  BY DEF Ends, EndsEmpty, WriterEnded, writerVars, busVars, AtPrompt
<1>3. DropsSeen'
  BY DEF Ends, DropsSeen, LooksAgain, Reported, Of, turnVars, busVars, writerVars
<1>. QED BY <1>1, <1>2, <1>3 DEF Ends

LEMMA StepEnds == IInv /\ Ends /\ [Next]_vars => Ends'
<1>. SUFFICES ASSUME IInv, Ends, [Next]_vars PROVE Ends'
  OBVIOUS
<1>1. CASE \E t \in Turns : Wake(t) \/ TurnStep(t)
  BY <1>1, TurnEnds
<1>2. CASE WriterStep
  BY <1>2, ReceiveEnds, WriteEnds, CheckDropsEnds, ReportDropsEnds, WriterEndsEnds DEF WriterStep
<1>3. CASE SinkPanics
  BY <1>3, PanicEnds
<1>4. CASE \/ \E to \in BOOLEAN : Wedge(to)
           \/ Kill \/ Gone \/ UNCHANGED vars
  <2>1. /\ UNCHANGED <<single_thread, turnVars, busVars, writerVars, written, flushed>>
        /\ main' \in {main, "killed"}
    BY <1>4 DEF Wedge, Kill, Gone, vars, sinkVars
  <2>. QED BY <2>1, OthersEnd
<1>5. CASE DropSenders \/ ReturnEarly \/ WriterAwaited \/ DrainTimesOut \/ RuntimeDropped
  BY <1>5, OthersEnd
     DEF DropSenders, ReturnEarly, WriterAwaited, DrainTimesOut, RuntimeDropped, MainStep
<1>. QED BY <1>1, <1>2, <1>3, <1>4, <1>5 DEF Next

(* Nobody knows of more drops than there are, and what the writer has      *)
(* reported last covers what the senders of the received records knew.     *)
AheadSeen ==
  /\ Len(ahead) = Len(sent) /\ Len(queue) =< Len(sent)
  /\ \A t \in Turns : known[t] =< dropped
  /\ \A i \in DOMAIN ahead : ahead[i] =< dropped
  /\ writer \in {"recv", "report", "ended"} => \A i \in Received : ahead[i] =< last_drop_report

LEMMA InitAhead == Init => AheadSeen
<1>1. Len(<<>>) = 0 /\ DOMAIN <<>> = {}
  OBVIOUS
<1>. QED BY <1>1 DEF Init, AheadSeen, Received

(* A record that is accepted is not received yet.                          *)
LEMMA AcceptAhead ==
  ASSUME IInv, AheadSeen, NEW t \in Turns, NEW r \in AnyRecord, Accept(t, r),
         UNCHANGED <<dropped, known, writer, last_drop_report>>
  PROVE  AheadSeen'
<1>1. /\ queue \in Seq(AnyRecord) /\ sent \in Seq(AnyRecord) /\ ahead \in Seq(Nat)
      /\ known[t] \in Nat /\ known[t] =< dropped
  BY DEF IInv, TypeOK, AheadSeen
<1>2. /\ Len(queue) \in Nat /\ Len(sent) \in Nat /\ Len(ahead) = Len(sent)
      /\ Len(queue') = Len(queue) + 1 /\ Len(sent') = Len(sent) + 1 /\ Len(queue) =< Len(sent)
  BY <1>1, LenProperties, AppendProperties DEF Accept, AheadSeen
<1>3. /\ Len(ahead') = Len(ahead) + 1
      /\ DOMAIN ahead = 1..Len(ahead) /\ DOMAIN ahead' = 1..(Len(ahead) + 1)
      /\ \A i \in 1..Len(ahead) : ahead'[i] = ahead[i]
      /\ ahead'[Len(ahead) + 1] = known[t]
  BY <1>1, LenProperties, AppendProperties DEF Accept
<1>4. Received' = Received /\ Received \subseteq 1..Len(ahead)
  BY <1>2 DEF Received
<1>7. \A i \in 1..Len(ahead) : ahead[i] =< dropped
  BY <1>3 DEF AheadSeen
<1>5. \A i \in DOMAIN ahead' : ahead'[i] =< dropped'
  <2>. SUFFICES ASSUME NEW i \in 1..(Len(ahead) + 1) PROVE ahead'[i] =< dropped
    BY <1>3
  <2>1. CASE i = Len(ahead) + 1
    BY <1>1, <1>3, <2>1
  <2>2. CASE i # Len(ahead) + 1
    <3>1. i \in 1..Len(ahead)
      BY <1>2, <2>2
    <3>. QED BY <1>3, <1>7, <3>1
  <2>. QED BY <2>1, <2>2
<1>6. writer' \in {"recv", "report", "ended"} => \A i \in Received' : ahead'[i] =< last_drop_report'
  BY <1>3, <1>4 DEF AheadSeen
<1>. QED BY <1>2, <1>3, <1>5, <1>6 DEF AheadSeen

LEMMA TurnAhead ==
  ASSUME IInv, AheadSeen, NEW t \in Turns, Wake(t) \/ TurnStep(t) PROVE AheadSeen'
<1>1. UNCHANGED <<writer, last_drop_report>>
  BY DEF Wake, TurnStep, AwaitRead, EmitAgain, TrySend, CountDrop, CountEmit, TaskStep, writerVars
<1>2. CASE Wake(t) \/ AwaitRead(t) \/ EmitAgain(t)
  BY <1>1, <1>2 DEF Wake, AwaitRead, EmitAgain, busVars, AheadSeen, Received
<1>3. CASE TrySend(t)
  <2>1. Record(t, emitted[t] + 1) \in AnyRecord
    BY BusAssumption DEF BusAssumption, IInv, TypeOK, Record, AnyRecord
  <2>2. UNCHANGED <<dropped, known>>
    BY <1>3 DEF TrySend
  <2>3. CASE Accept(t, Record(t, emitted[t] + 1))
    BY <1>1, <2>1, <2>2, <2>3, AcceptAhead
  <2>4. CASE Refuse
    BY <1>1, <2>2, <2>4 DEF Refuse, AheadSeen, Received
  <2>. QED BY <1>3, <2>3, <2>4 DEF TrySend
<1>4. CASE CountDrop(t)
  <2>1. /\ dropped \in Nat /\ dropped' = dropped + 1 /\ known' = [known EXCEPT ![t] = dropped']
        /\ known \in [Turns -> Nat] /\ UNCHANGED <<queue, sent, ahead>>
        /\ \A i \in DOMAIN ahead : ahead[i] \in Nat
    BY <1>4 DEF CountDrop, IInv, TypeOK
  <2>2. \A u \in Turns : known'[u] =< dropped'
    BY <2>1 DEF AheadSeen
  <2>3. \A i \in DOMAIN ahead' : ahead'[i] =< dropped'
    BY <2>1 DEF AheadSeen
  <2>. QED BY <1>1, <2>1, <2>2, <2>3 DEF AheadSeen, Received
<1>5. CASE CountEmit(t)
  <2>1. Sample \in AnyRecord /\ UNCHANGED <<dropped, known>>
    BY <1>5 DEF CountEmit, Sample, AnyRecord
  <2>2. CASE Accept(t, Sample)
    BY <1>1, <2>1, <2>2, AcceptAhead
  <2>3. CASE Refuse
    BY <1>1, <2>1, <2>3 DEF Refuse, AheadSeen, Received
  <2>. QED BY <1>5, <2>2, <2>3 DEF CountEmit
<1>. QED BY <1>2, <1>3, <1>4, <1>5 DEF TurnStep

(* What the writer reports next covers all it has received.                *)
LEMMA CheckDropsAhead == ASSUME IInv, AheadSeen, CheckDrops PROVE AheadSeen'
<1>1. UNCHANGED <<queue, sent, ahead, known, dropped>>
  BY DEF CheckDrops, busVars
<1>2. PICK d \in IF single_thread THEN {dropped}
                ELSE {n \in last_drop_report..dropped : \A i \in Received : ahead[i] =< n} :
         IF d # last_drop_report THEN last_drop_report' = d /\ writer' = "report"
                                 ELSE writer' = "recv" /\ UNCHANGED last_drop_report
  BY DEF CheckDrops
<1>3. Received \subseteq DOMAIN ahead
  <2>1. Len(queue) \in Nat /\ Len(sent) \in Nat /\ DOMAIN ahead = 1..Len(sent)
    BY LenProperties DEF IInv, TypeOK, AheadSeen
  <2>. QED BY <2>1 DEF Received
<1>4. \A i \in Received : ahead[i] =< d
  BY <1>2, <1>3 DEF AheadSeen
<1>5. last_drop_report' = d
  BY <1>2
<1>. QED BY <1>1, <1>4, <1>5 DEF AheadSeen, Received

LEMMA StepAhead == IInv /\ AheadSeen /\ [Next]_vars => AheadSeen'
<1>. SUFFICES ASSUME IInv, AheadSeen, [Next]_vars PROVE AheadSeen'
  OBVIOUS
<1>1. CASE \E t \in Turns : Wake(t) \/ TurnStep(t)
  BY <1>1, TurnAhead
<1>2. CASE CheckDrops
  BY <1>2, CheckDropsAhead
<1>3. CASE Receive
  <2>1. /\ queue \in Seq(AnyRecord) /\ queue # <<>> /\ queue' = Tail(queue) /\ writer' = "write"
        /\ UNCHANGED <<sent, ahead, known, dropped>>
    BY <1>3 DEF Receive, IInv, TypeOK
  <2>2. Len(queue') = Len(queue) - 1 /\ Len(queue) \in Nat /\ Len(sent) \in Nat
    BY <2>1, HeadTailProperties, LenProperties DEF IInv, TypeOK
  <2>. QED BY <2>1, <2>2 DEF AheadSeen
<1>4. CASE SinkPanics
  <2>1. /\ queue' = <<>> /\ Len(queue') = 0 /\ writer' = "panicked"
        /\ UNCHANGED <<sent, ahead, known, dropped>> /\ Len(sent) \in Nat
    BY <1>4, LenProperties DEF SinkPanics, IInv, TypeOK
  <2>. QED BY <2>1 DEF AheadSeen
<1>5. CASE Write
  BY <1>5 DEF Write, busVars, AheadSeen
<1>6. CASE \/ ReportDrops \/ WriterEnds
           \/ \E to \in BOOLEAN : Wedge(to)
           \/ Kill \/ Gone \/ UNCHANGED vars
           \/ DropSenders \/ ReturnEarly \/ WriterAwaited \/ DrainTimesOut \/ RuntimeDropped
  <2>1. /\ UNCHANGED <<queue, sent, ahead, known, dropped, last_drop_report>>
        /\ writer' = writer \/ writer \in {"report", "recv"}
    BY <1>6
       DEF ReportDrops, WriterEnds, Wedge, Kill, Gone, vars, DropSenders, ReturnEarly,
           WriterAwaited, DrainTimesOut, RuntimeDropped, MainStep, busVars, writerVars
  <2>. QED BY <2>1 DEF AheadSeen, Received
<1>. QED BY <1>1, <1>2, <1>3, <1>4, <1>5, <1>6 DEF Next, WriterStep

(* README.md:173, for every channel and any number of turns: no drop in    *)
(* front of an accepted record goes unreported once the writer has caught  *)
(* up, and on one thread none at all.                                      *)
THEOREM ReportSafe == Spec => []DropsReported
<1>1. IInv /\ Ends /\ AheadSeen => DropsReported
  <2>. SUFFICES ASSUME IInv, Ends, AheadSeen PROVE DropsReported
    OBVIOUS
  <2>1. last_drop_report =< dropped
    BY DEF Ends, DropsSeen
  <2>2. ASSUME CaughtUp PROVE \A i \in DOMAIN ahead : ahead[i] =< last_drop_report
    <3>1. DOMAIN ahead = 1..Len(sent) /\ Len(sent) \in Nat /\ Len(queue) = 0
      BY <2>2, LenProperties DEF IInv, TypeOK, AheadSeen, CaughtUp
    <3>2. Received = DOMAIN ahead
      BY <3>1 DEF Received
    <3>. QED BY <2>2, <3>2 DEF AheadSeen, CaughtUp
  <2>3. ASSUME CaughtUp, last_drop_report > 0 PROVE Reported(last_drop_report)
    BY <2>3 DEF Ends, DropsSeen, CaughtUp
  <2>4. ASSUME CaughtUp, single_thread PROVE last_drop_report = dropped
    BY <2>4 DEF Ends, DropsSeen, LooksAgain, CaughtUp
  <2>. QED BY <2>1, <2>2, <2>3, <2>4 DEF DropsReported
<1>. QED BY <1>1, InitHolds, StepKeeps, InitEnds, StepEnds, InitAhead, StepAhead, PTL DEF Spec

-----------------------------------------------------------------------------
(* Where every record is.                                                  *)

(* What the channel accepts comes from a turn or is a sample, and a turn's *)
(* record has been emitted.                                                *)
SentIsEmitted ==
  \A i \in DOMAIN sent : /\ sent[i] \in AnyRecord /\ sent[i].by \in Senders
                         /\ sent[i].by \in Turns => sent[i].n =< emitted[sent[i].by]

Accounted == RecordsAccounted /\ SentIsEmitted /\ IsFiniteSet(Emissions)

(* The places of a log are counted by its length at most.                  *)
LEMMA OfFinite ==
  ASSUME NEW S, NEW log \in Seq(AnyRecord)
  PROVE  /\ Of(S, log) \subseteq 1..Len(log)
         /\ IsFiniteSet(Of(S, log)) /\ Cardinality(Of(S, log)) \in Nat
<1>1. Of(S, log) \subseteq 1..Len(log)
  BY LenProperties DEF Of
<1>2. IsFiniteSet(1..Len(log))
  BY LenProperties, FS_Interval
<1>. QED BY <1>1, <1>2, FS_Subset, FS_CardinalityType

(* A record appended to a log takes a new place of it.                     *)
LEMMA OfAppend ==
  ASSUME NEW S, NEW log \in Seq(AnyRecord), NEW r \in AnyRecord
  PROVE  /\ r.by \in S => /\ Of(S, Append(log, r)) = Of(S, log) \cup {Len(log) + 1}
                          /\ Cardinality(Of(S, Append(log, r))) = Cardinality(Of(S, log)) + 1
         /\ r.by \notin S => Of(S, Append(log, r)) = Of(S, log)
<1>1. /\ Len(log) \in Nat /\ DOMAIN log = 1..Len(log)
      /\ DOMAIN Append(log, r) = 1..(Len(log) + 1)
      /\ \A i \in 1..Len(log) : Append(log, r)[i] = log[i]
      /\ Append(log, r)[Len(log) + 1] = r
  BY LenProperties, AppendProperties
<1>2. r.by \in S => Of(S, Append(log, r)) = Of(S, log) \cup {Len(log) + 1}
  BY <1>1 DEF Of
<1>3. r.by \notin S => Of(S, Append(log, r)) = Of(S, log)
  BY <1>1 DEF Of
<1>4. Len(log) + 1 \notin Of(S, log)
  BY <1>1, OfFinite
<1>. QED BY <1>2, <1>3, <1>4, OfFinite, FS_AddElement

(* What is held, place by place.                                           *)
Hold(r, q) == (IF r = NoRecord THEN <<>> ELSE <<r>>) \o q

LEMMA HoldPlaces ==
  ASSUME NEW q \in Seq(AnyRecord), NEW r \in AnyRecord \cup {NoRecord}
  PROVE  /\ DOMAIN Hold(r, q) = 1..Len(Hold(r, q)) /\ Len(Hold(r, q)) \in Nat
         /\ r = NoRecord => Hold(r, q) = q
         /\ r # NoRecord => /\ Len(Hold(r, q)) = Len(q) + 1
                            /\ Hold(r, q)[1] = r
                            /\ \A i \in 1..Len(q) : Hold(r, q)[i + 1] = q[i]
<1>1. q \in Seq(AnyRecord \cup {NoRecord}) /\ Len(q) \in Nat /\ DOMAIN q = 1..Len(q)
  BY LenProperties
<1>2. ASSUME r = NoRecord PROVE Hold(r, q) = q
  BY <1>1, <1>2, ConcatEmptySeq DEF Hold
<1>3. ASSUME r # NoRecord
      PROVE  /\ DOMAIN Hold(r, q) = 1..Len(Hold(r, q)) /\ Len(Hold(r, q)) = Len(q) + 1
             /\ Hold(r, q)[1] = r
             /\ \A i \in 1..Len(q) : Hold(r, q)[i + 1] = q[i]
  <2>1. Hold(r, q) = <<r>> \o q
    BY <1>3 DEF Hold
  <2>2. <<r>> \in Seq(AnyRecord \cup {NoRecord}) /\ Len(<<r>>) = 1 /\ <<r>>[1] = r
    OBVIOUS
  <2>3. /\ Len(Hold(r, q)) = 1 + Len(q) /\ Hold(r, q) \in Seq(AnyRecord \cup {NoRecord})
        /\ \A i \in 1..(1 + Len(q)) :
              Hold(r, q)[i] = IF i =< 1 THEN <<r>>[i] ELSE q[i - 1]
    BY <1>1, <2>1, <2>2, ConcatProperties
  <2>. QED BY <1>1, <2>2, <2>3, LenProperties
<1>. QED BY <1>1, <1>2, <1>3

(* What is appended is held behind the rest.                               *)
LEMMA HoldAppend ==
  ASSUME NEW q \in Seq(AnyRecord), NEW r \in AnyRecord \cup {NoRecord}, NEW x \in AnyRecord
  PROVE  /\ Len(Hold(r, Append(q, x))) = Len(Hold(r, q)) + 1
         /\ \A i \in 1..Len(Hold(r, q)) : Hold(r, Append(q, x))[i] = Hold(r, q)[i]
         /\ Hold(r, Append(q, x))[Len(Hold(r, q)) + 1] = x
<1>. DEFINE p == Append(q, x)
<1>1. /\ Len(q) \in Nat /\ p \in Seq(AnyRecord) /\ Len(p) = Len(q) + 1
      /\ \A i \in 1..Len(q) : p[i] = q[i]
      /\ p[Len(q) + 1] = x
  BY LenProperties, AppendProperties
<1>. HIDE DEF p
<1>2. CASE r = NoRecord
  BY <1>1, <1>2, HoldPlaces DEF p
<1>3. CASE r # NoRecord
  <2>1. /\ Len(Hold(r, q)) = Len(q) + 1 /\ Hold(r, q)[1] = r
        /\ \A i \in 1..Len(q) : Hold(r, q)[i + 1] = q[i]
    BY <1>3, HoldPlaces
  <2>2. /\ Len(Hold(r, p)) = Len(p) + 1 /\ Hold(r, p)[1] = r
        /\ \A i \in 1..Len(p) : Hold(r, p)[i + 1] = p[i]
    BY <1>1, <1>3, HoldPlaces
  <2>3. ASSUME NEW i \in 1..Len(Hold(r, q)) PROVE Hold(r, p)[i] = Hold(r, q)[i]
    <3>1. CASE i = 1
      BY <2>1, <2>2, <3>1
    <3>2. CASE i # 1
      <4>1. i - 1 \in 1..Len(q) /\ i - 1 \in 1..Len(p) /\ (i - 1) + 1 = i
        BY <1>1, <2>1, <2>3, <3>2
      <4>. QED BY <1>1, <2>1, <2>2, <4>1
    <3>. QED BY <3>1, <3>2
  <2>4. Hold(r, p)[Len(Hold(r, q)) + 1] = x
    BY <1>1, <2>1, <2>2
  <2>. QED BY <1>1, <2>1, <2>2, <2>3, <2>4 DEF p
<1>. QED BY <1>2, <1>3

LEMMA Names == /\ NoRecord \notin AnyRecord /\ "writer" \notin Senders
               /\ \A n \in Nat, t \in Turns : /\ Record(t, n).by = t /\ Record(t, n).n = n
                                              /\ t \in Senders
                                              /\ CaptureDrop(n).by = "writer"
               /\ Sample.by \in Senders /\ Sample.by \notin Turns
BY BusAssumption DEF BusAssumption, NoRecord, AnyRecord, Senders, Record, CaptureDrop, Sample

LEMMA InitAccounted == Init => Accounted
<1>. SUFFICES ASSUME Init PROVE Accounted
  OBVIOUS
<1>1. Emissions = {} /\ Dropping = {} /\ Of(Turns, sent) = {} /\ Delivered = {} /\ DOMAIN sent = {}
  BY BusAssumption DEF BusAssumption, Init, Emissions, Dropping, Delivered, Of
<1>2. Held = <<>> /\ Len(Held) = 0 /\ DOMAIN Held = {} /\ Len(sent) = 0
  BY ConcatEmptySeq DEF Init, Held
<1>3. IsFiniteSet({}) /\ Cardinality({}) = 0
  BY FS_EmptySet
<1>4. Counted
  <2>1. dropped = 0 /\ Cardinality(Emissions) = 0 /\ Cardinality(Dropping) = 0
        /\ Cardinality(Of(Turns, sent)) = 0
    BY <1>1, <1>3, Zenon DEF Init
  <2>. QED BY <2>1 DEF Counted
<1>7. SentInOrder
  BY <1>1 DEF SentInOrder
<1>5. DeliveredInOrder /\ HeldInOrder(Cardinality(Delivered))
  BY <1>1, <1>2 DEF DeliveredInOrder, HeldInOrder
<1>6. SentIsEmitted
  BY <1>1 DEF SentIsEmitted
<1>. QED BY <1>1, <1>2, <1>3, <1>4, <1>5, <1>6, <1>7 DEF Accounted, RecordsAccounted

(* A step that moves no record.                                            *)
LEMMA NothingMoves ==
  ASSUME Accounted, UNCHANGED <<emitted, sent, written, rec, queue, dropped, Dropping>>,
         writer' # "panicked" => writer # "panicked"
  PROVE  Accounted'
<1>1. UNCHANGED <<Emissions, Delivered, Held>> /\ \A i : Rank(i)' = Rank(i)
  BY DEF Emissions, Delivered, Of, Held, Rank
<1>2. Counted' /\ SentInOrder' /\ SentIsEmitted'
  BY <1>1 DEF Accounted, RecordsAccounted, Counted, SentInOrder, SentIsEmitted, Of, Dropping
<1>3. DeliveredInOrder' /\ HeldInOrder(Cardinality(Delivered))'
  BY <1>1 DEF Accounted, RecordsAccounted, DeliveredInOrder, HeldInOrder
<1>. QED BY <1>1, <1>2, <1>3 DEF Accounted, RecordsAccounted

(* The channel end: what is accepted is held, behind what was.             *)
LEMMA AcceptHeld ==
  ASSUME IInv, Accounted, NEW t \in Turns, NEW r \in AnyRecord, HasRoom, Accept(t, r),
         UNCHANGED <<written, rec, writer>>
  PROVE  /\ DeliveredInOrder' /\ HeldInOrder(Cardinality(Delivered))'
         /\ Len(sent)' = Cardinality(Delivered)' + Len(Held)'
<1>1. TypeOK /\ writer # "panicked"
  BY DEF IInv, HasRoom, WriterEnded
<1>2. /\ Len(sent) \in Nat /\ DOMAIN sent = 1..Len(sent)
      /\ Len(sent') = Len(sent) + 1 /\ DOMAIN sent' = 1..(Len(sent) + 1)
      /\ \A i \in 1..Len(sent) : sent'[i] = sent[i]
      /\ sent'[Len(sent) + 1] = r
  BY <1>1, LenProperties, AppendProperties DEF TypeOK, Accept
<1>4. UNCHANGED Delivered /\ \A i : Rank(i)' = Rank(i)
  BY DEF Delivered, Of, Rank
<1>5. DeliveredInOrder'
  BY <1>2, <1>4 DEF Accounted, RecordsAccounted, DeliveredInOrder
<1>6. /\ Held = Hold(rec, queue) /\ Held' = Hold(rec, Append(queue, r))
      /\ queue \in Seq(AnyRecord) /\ rec \in AnyRecord \cup {NoRecord}
      /\ Append(queue, r) \in Seq(AnyRecord)
  BY <1>1, AppendProperties DEF Held, Hold, Accept, TypeOK
<1>7. /\ Len(Held) \in Nat /\ DOMAIN Held = 1..Len(Held)
      /\ Len(Held') = Len(Held) + 1 /\ DOMAIN Held' = 1..(Len(Held) + 1)
      /\ \A i \in 1..Len(Held) : Held'[i] = Held[i]
      /\ Held'[Len(Held) + 1] = r
  BY <1>6, HoldPlaces, HoldAppend
<1>8. /\ Cardinality(Delivered) \in Nat /\ Len(sent) = Cardinality(Delivered) + Len(Held)
  BY <1>1, OfFinite DEF TypeOK, Delivered, Accounted, RecordsAccounted
<1>9. HeldInOrder(Cardinality(Delivered))'
  <2>. SUFFICES ASSUME NEW i \in DOMAIN Held'
                PROVE  /\ Cardinality(Delivered) + i \in DOMAIN sent'
                       /\ Held'[i] = sent'[Cardinality(Delivered) + i]
    BY <1>4 DEF HeldInOrder
  <2>1. CASE i = Len(Held) + 1
    BY <1>2, <1>7, <1>8, <2>1
  <2>2. CASE i # Len(Held) + 1
    <3>1. i \in DOMAIN Held /\ i \in 1..Len(Held)
      BY <1>7, <2>2
    <3>2. Cardinality(Delivered) + i \in 1..Len(sent) /\ Held[i] = sent[Cardinality(Delivered) + i]
      BY <1>2, <3>1 DEF Accounted, RecordsAccounted, HeldInOrder
    <3>. QED BY <1>2, <1>7, <3>1, <3>2
  <2>. QED BY <2>1, <2>2
<1>. QED BY <1>2, <1>4, <1>5, <1>7, <1>8, <1>9

(* A turn emits its next record: it is new, and behind its earlier ones.   *)
LEMMA EmissionAdded ==
  ASSUME IInv, Accounted, NEW t \in Turns, emitted[t] < TurnLength,
         emitted' = [emitted EXCEPT ![t] = @ + 1]
  PROVE  /\ IsFiniteSet(Emissions') /\ Cardinality(Emissions') = Cardinality(Emissions) + 1
         /\ \A u \in Turns : emitted[u] =< emitted'[u]
<1>. USE BusAssumption DEF BusAssumption
<1>. DEFINE r == Record(t, emitted[t] + 1)
<1>1. emitted \in [Turns -> 0..TurnLength]
  BY DEF IInv, TypeOK
<1>2. /\ emitted[t] \in Nat /\ emitted[t] + 1 \in 1..TurnLength
      /\ emitted'[t] = emitted[t] + 1
      /\ \A u \in Turns : u # t => emitted'[u] = emitted[u]
  BY <1>1
<1>3. r \in [by : Turns, n : 1..TurnLength] /\ r.by = t /\ r.n = emitted[t] + 1
  BY <1>2 DEF Record
<1>4. r \notin Emissions
  BY <1>2, <1>3 DEF Emissions
<1>5. ASSUME NEW x \in [by : Turns, n : 1..TurnLength]
      PROVE  x.n =< emitted'[x.by] <=> x.n =< emitted[x.by] \/ x = r
  <2>1. PICK u \in Turns, k \in 1..TurnLength : x = [by |-> u, n |-> k]
    OBVIOUS
  <2>2. x = r <=> u = t /\ k = emitted[t] + 1
    BY <2>1 DEF Record
  <2>. QED BY <1>1, <1>2, <2>1, <2>2
<1>6. Emissions' = Emissions \cup {r}
  BY <1>3, <1>5 DEF Emissions
<1>7. IsFiniteSet(Emissions)
  BY DEF Accounted
<1>. QED BY <1>1, <1>2, <1>4, <1>6, <1>7, FS_AddElement

(* A record that is accepted: all that concerns the channel's end.         *)
LEMMA AcceptSent ==
  ASSUME IInv, Accounted, NEW t \in Turns, NEW r \in AnyRecord, r.by \in Senders, Accept(t, r),
         r.by \in Turns => emitted[r.by] < r.n /\ r.n =< emitted'[r.by],
         emitted' \in [Turns -> 0..TurnLength], \A u \in Turns : emitted[u] =< emitted'[u]
  PROVE  SentInOrder' /\ SentIsEmitted'
<1>. USE BusAssumption DEF BusAssumption
<1>1. /\ Len(sent) \in Nat /\ DOMAIN sent = 1..Len(sent)
      /\ DOMAIN sent' = 1..(Len(sent) + 1)
      /\ \A i \in 1..Len(sent) : sent'[i] = sent[i]
      /\ sent'[Len(sent) + 1] = r
  BY LenProperties, AppendProperties DEF IInv, TypeOK, Accept
<1>2. emitted \in [Turns -> 0..TurnLength] /\ SentIsEmitted /\ SentInOrder
  BY DEF IInv, TypeOK, Accounted, RecordsAccounted
<1>3. SentIsEmitted'
  <2>. SUFFICES ASSUME NEW i \in DOMAIN sent'
                PROVE  /\ sent'[i] \in AnyRecord /\ sent'[i].by \in Senders
                       /\ sent'[i].by \in Turns => sent'[i].n =< emitted'[sent'[i].by]
    BY DEF SentIsEmitted, AnyRecord, Senders
  <2>1. CASE i = Len(sent) + 1
    BY <1>1, <2>1
  <2>2. CASE i # Len(sent) + 1
    <3>1. i \in DOMAIN sent /\ sent'[i] = sent[i]
      BY <1>1, <2>2
    <3>2. /\ sent[i] \in AnyRecord /\ sent[i].by \in Senders
          /\ sent[i].by \in Turns => sent[i].n =< emitted[sent[i].by]
      BY <1>2, <3>1 DEF SentIsEmitted
    <3>3. sent[i].n \in Nat
      BY <3>2 DEF AnyRecord
    <3>. QED BY <1>2, <3>1, <3>2, <3>3
  <2>. QED BY <2>1, <2>2
<1>4. SentInOrder'
  <2>. SUFFICES ASSUME NEW i \in Of(Turns, sent)', NEW j \in Of(Turns, sent)',
                       i < j, sent'[i].by = sent'[j].by
                PROVE  sent'[i].n < sent'[j].n
    BY DEF SentInOrder
  <2>1. /\ i \in 1..(Len(sent) + 1) /\ j \in 1..(Len(sent) + 1)
        /\ sent'[i].by \in Turns /\ sent'[j].by \in Turns
    BY <1>1 DEF Of
  <2>2. i \in 1..Len(sent) /\ i \in Of(Turns, sent) /\ sent'[i] = sent[i]
    BY <1>1, <2>1 DEF Of
  <2>3. CASE j = Len(sent) + 1
    <3>1. sent'[j] = r /\ sent[i].by = r.by /\ r.by \in Turns
      BY <1>1, <2>1, <2>2, <2>3
    <3>2. sent[i].n =< emitted[sent[i].by] /\ sent[i].n \in Nat
      BY <1>1, <1>2, <2>2, <3>1 DEF SentIsEmitted, AnyRecord
    <3>3. r.n \in Nat /\ emitted[r.by] \in Nat
      BY <1>2, <3>1 DEF AnyRecord
    <3>. QED BY <2>2, <3>1, <3>2, <3>3
  <2>4. CASE j # Len(sent) + 1
    <3>1. j \in Of(Turns, sent) /\ sent'[j] = sent[j]
      BY <1>1, <2>1, <2>4 DEF Of
    <3>. QED BY <1>2, <2>2, <3>1 DEF SentInOrder
  <2>. QED BY <2>3, <2>4
<1>. QED BY <1>3, <1>4

LEMMA TrySendAccounts == ASSUME IInv, Accounted, NEW t \in Turns, TrySend(t) PROVE Accounted'
<1>. DEFINE r == Record(t, emitted[t] + 1)
<1>1. /\ task[t] = "running" /\ emitted[t] < TurnLength /\ emitted[t] \in Nat
      /\ emitted' = [emitted EXCEPT ![t] = @ + 1]
      /\ emitted \in [Turns -> 0..TurnLength] /\ emitted' \in [Turns -> 0..TurnLength]
      /\ UNCHANGED <<dropped, written, rec, writer>>
  <2>1. /\ task[t] = "running" /\ emitted' = [emitted EXCEPT ![t] = @ + 1]
        /\ UNCHANGED <<dropped, written, rec, writer>>
    BY DEF TrySend, TaskStep, writerVars, sinkVars
  <2>2. emitted[t] < TurnLength /\ emitted \in [Turns -> 0..TurnLength]
    BY <2>1 DEF IInv, EmitsItsRecords, TypeOK
  <2>3. emitted[t] \in Nat /\ emitted[t] + 1 \in 0..TurnLength
    BY <2>2, BusAssumption DEF BusAssumption
  <2>. QED BY <2>1, <2>2, <2>3
<1>2. /\ IsFiniteSet(Emissions') /\ Cardinality(Emissions') = Cardinality(Emissions) + 1
      /\ \A u \in Turns : emitted[u] =< emitted'[u]
  BY <1>1, EmissionAdded
<1>3. r \in AnyRecord /\ r.by = t /\ r.n = emitted[t] + 1 /\ r.by \in Senders /\ emitted'[t] = r.n
  BY <1>1, Records, Names
<1>4. /\ sent \in Seq(AnyRecord) /\ task \in [Turns -> {"waiting", "running", "dropping", "counting", "emitted", "over"}]
      /\ dropped \in Nat /\ Counted /\ IsFiniteSet(Dropping)
      /\ Cardinality(Dropping) \in Nat /\ Cardinality(Of(Turns, sent)) \in Nat
  BY BusAssumption, FS_Subset, FS_CardinalityType, OfFinite
     DEF BusAssumption, IInv, TypeOK, Accounted, RecordsAccounted, Dropping
<1>5. CASE HasRoom
  <2>1. Accept(t, r) /\ task' = [task EXCEPT ![t] = "counting"] /\ Dropping' = Dropping
    BY <1>1, <1>4, <1>5 DEF TrySend, TaskStep, Dropping
  <2>2. Cardinality(Of(Turns, sent')) = Cardinality(Of(Turns, sent)) + 1
    BY <1>3, <1>4, <2>1, OfAppend DEF Accept
  <2>3. Counted'
    BY <1>1, <1>2, <1>4, <2>1, <2>2 DEF Counted
  <2>4. SentInOrder' /\ SentIsEmitted'
    <3>1. r.by \in Turns => emitted[r.by] < r.n /\ r.n =< emitted'[r.by]
      BY <1>1, <1>3
    <3>. QED BY <1>1, <1>2, <1>3, <2>1, <3>1, AcceptSent
  <2>5. /\ DeliveredInOrder' /\ HeldInOrder(Cardinality(Delivered))'
        /\ Len(sent)' = Cardinality(Delivered)' + Len(Held)'
    BY <1>1, <1>3, <1>5, <2>1, AcceptHeld
  <2>. QED BY <1>2, <2>3, <2>4, <2>5 DEF Accounted, RecordsAccounted
<1>6. CASE ~HasRoom
  <2>1. task' = [task EXCEPT ![t] = "dropping"] /\ UNCHANGED <<queue, sent>>
    BY <1>6 DEF TrySend, Refuse, TaskStep
  <2>2. Dropping' = Dropping \cup {t} /\ t \notin Dropping
    BY <1>1, <1>4, <2>1 DEF Dropping
  <2>3. Cardinality(Dropping') = Cardinality(Dropping) + 1
    BY <1>4, <2>2, FS_AddElement
  <2>4. Counted'
    BY <1>1, <1>2, <1>4, <2>1, <2>3 DEF Counted
  <2>5. SentInOrder' /\ UNCHANGED <<Delivered, Held>> /\ \A i : Rank(i)' = Rank(i)
    BY <1>1, <2>1 DEF Accounted, RecordsAccounted, SentInOrder, Of, Delivered, Held, Rank
  <2>6. SentIsEmitted'
    <3>. SUFFICES ASSUME NEW i \in DOMAIN sent, sent[i].by \in Turns
                  PROVE  sent[i].n =< emitted'[sent[i].by]
      BY <2>1 DEF Accounted, SentIsEmitted
    <3>1. sent[i].n =< emitted[sent[i].by] /\ sent[i].n \in Nat
      BY DEF Accounted, SentIsEmitted, AnyRecord
    <3>. QED BY <1>1, <1>2, <3>1
  <2>7. DeliveredInOrder' /\ HeldInOrder(Cardinality(Delivered))'
    BY <1>1, <2>1, <2>5 DEF Accounted, RecordsAccounted, DeliveredInOrder, HeldInOrder
  <2>. QED BY <1>1, <1>2, <2>1, <2>4, <2>5, <2>6, <2>7 DEF Accounted, RecordsAccounted
<1>. QED BY <1>5, <1>6

LEMMA CountDropAccounts == ASSUME IInv, Accounted, NEW t \in Turns, CountDrop(t) PROVE Accounted'
<1>1. /\ task[t] = "dropping" /\ task' = [task EXCEPT ![t] = "counting"] /\ dropped' = dropped + 1
      /\ UNCHANGED <<emitted, sent, written, rec, queue, writer>>
  BY DEF CountDrop, TaskStep, writerVars, sinkVars
<1>2. /\ dropped \in Nat /\ Counted /\ IsFiniteSet(Dropping) /\ Cardinality(Dropping) \in Nat
      /\ task \in [Turns -> {"waiting", "running", "dropping", "counting", "emitted", "over"}]
      /\ Cardinality(Of(Turns, sent)) \in Nat
  BY BusAssumption, FS_Subset, FS_CardinalityType, OfFinite
     DEF BusAssumption, IInv, TypeOK, Accounted, RecordsAccounted, Dropping
<1>3. Dropping' = Dropping \ {t} /\ t \in Dropping
  BY <1>1, <1>2 DEF Dropping
<1>4. Cardinality(Dropping') = Cardinality(Dropping) - 1
  BY <1>2, <1>3, FS_RemoveElement
<1>5. UNCHANGED <<Emissions, Delivered, Held>> /\ \A i : Rank(i)' = Rank(i)
  BY <1>1 DEF Emissions, Delivered, Of, Held, Rank
<1>6. Counted'
  BY <1>1, <1>2, <1>4, <1>5 DEF Counted
<1>7. SentInOrder' /\ SentIsEmitted'
  BY <1>1 DEF Accounted, RecordsAccounted, SentInOrder, SentIsEmitted, Of
<1>8. DeliveredInOrder' /\ HeldInOrder(Cardinality(Delivered))'
  BY <1>1, <1>5 DEF Accounted, RecordsAccounted, DeliveredInOrder, HeldInOrder
<1>. QED BY <1>1, <1>5, <1>6, <1>7, <1>8 DEF Accounted, RecordsAccounted

LEMMA CountEmitAccounts == ASSUME IInv, Accounted, NEW t \in Turns, CountEmit(t) PROVE Accounted'
<1>1. /\ UNCHANGED <<emitted, written, rec, writer, dropped, Dropping>>
  BY DEF CountEmit, TaskStep, writerVars, sinkVars, Dropping, IInv, TypeOK
<1>2. CASE UNCHANGED <<queue, sent>>
  BY <1>1, <1>2, NothingMoves
<1>3. CASE HasRoom /\ Accept(t, Sample)
  <2>1. Sample \in AnyRecord /\ sent \in Seq(AnyRecord) /\ emitted \in [Turns -> 0..TurnLength]
    BY DEF Sample, AnyRecord, IInv, TypeOK
  <2>2. \A u \in Turns : emitted[u] =< emitted'[u]
    BY <1>1, <2>1, BusAssumption DEF BusAssumption
  <2>3. Emissions' = Emissions /\ Of(Turns, sent') = Of(Turns, sent)
    BY <1>1, <1>3, <2>1, Names, OfAppend DEF Accept, Emissions
  <2>4. Counted'
    BY <1>1, <2>3 DEF Counted, Accounted, RecordsAccounted
  <2>5. SentInOrder' /\ SentIsEmitted'
    BY <1>1, <1>3, <2>1, <2>2, Names, AcceptSent
  <2>6. /\ DeliveredInOrder' /\ HeldInOrder(Cardinality(Delivered))'
        /\ Len(sent)' = Cardinality(Delivered)' + Len(Held)'
    BY <1>1, <1>3, <2>1, AcceptHeld
  <2>. QED BY <2>3, <2>4, <2>5, <2>6 DEF Accounted, RecordsAccounted
<1>. QED BY <1>2, <1>3 DEF CountEmit, Refuse

(* From the channel into the writer's hand.                                *)
LEMMA ReceiveAccounts == ASSUME IInv, Ends, Accounted, Receive PROVE Accounted'
<1>1. /\ queue \in Seq(AnyRecord) /\ queue # <<>> /\ rec = NoRecord
      /\ rec' = Head(queue) /\ queue' = Tail(queue)
      /\ UNCHANGED <<emitted, sent, written, dropped, Dropping>> /\ writer' = "write"
      /\ writer # "panicked"
  BY DEF Receive, IInv, TypeOK, Ends, EndsEmpty, turnVars, sinkVars, Dropping
<1>2. /\ Len(queue) \in Nat \ {0} /\ DOMAIN queue = 1..Len(queue)
      /\ rec' \in AnyRecord /\ rec' = queue[1]
      /\ queue' \in Seq(AnyRecord) /\ Len(queue') = Len(queue) - 1
      /\ \A i \in 1..Len(queue') : queue'[i] = queue[i + 1]
  BY <1>1, HeadTailProperties, LenProperties, EmptySeq
<1>3. /\ Held = queue /\ Held' = Hold(rec', queue') /\ rec' # NoRecord
  BY <1>1, <1>2, Names, HoldPlaces DEF Held, Hold
<1>4. /\ DOMAIN Held' = 1..Len(Held') /\ Len(Held') = Len(queue') + 1 /\ Held'[1] = rec'
      /\ \A i \in 1..Len(queue') : Held'[i + 1] = queue'[i]
  <2>1. rec' \in AnyRecord \cup {NoRecord} /\ queue' \in Seq(AnyRecord)
    BY <1>2
  <2>2. /\ DOMAIN Hold(rec', queue') = 1..Len(Hold(rec', queue'))
        /\ Len(Hold(rec', queue')) = Len(queue') + 1 /\ Hold(rec', queue')[1] = rec'
        /\ \A i \in 1..Len(queue') : Hold(rec', queue')[i + 1] = queue'[i]
    BY <1>3, <2>1, HoldPlaces
  <2>. QED BY <1>3, <2>2
<1>5. DOMAIN Held' = 1..Len(queue) /\ Len(Held') = Len(queue)
  BY <1>2, <1>4
<1>6. ASSUME NEW i \in 1..Len(queue) PROVE Held'[i] = Held[i]
  <2>1. CASE i = 1
    BY <1>2, <1>3, <1>4, <2>1
  <2>2. CASE i # 1
    <3>1. i - 1 \in 1..Len(queue') /\ (i - 1) + 1 = i
      BY <1>2, <1>6, <2>2
    <3>. QED BY <1>2, <1>3, <1>4, <3>1
  <2>. QED BY <2>1, <2>2
<1>7. UNCHANGED <<Emissions, Delivered>> /\ \A i : Rank(i)' = Rank(i)
  BY <1>1 DEF Emissions, Delivered, Of, Rank
<1>8. Counted' /\ SentInOrder' /\ SentIsEmitted' /\ DeliveredInOrder'
  BY <1>1, <1>7
     DEF Accounted, RecordsAccounted, Counted, SentInOrder, SentIsEmitted, DeliveredInOrder, Of
<1>9. HeldInOrder(Cardinality(Delivered))'
  BY <1>1, <1>2, <1>3, <1>5, <1>6, <1>7 DEF Accounted, RecordsAccounted, HeldInOrder
<1>. QED BY <1>1, <1>3, <1>5, <1>7, <1>8, <1>9 DEF Accounted, RecordsAccounted

(* From the writer's hand into the sinks: the next one, in order.          *)
LEMMA WriteAccounts == ASSUME IInv, Accounted, Write PROVE Accounted'
<1>1. /\ rec \in AnyRecord /\ queue \in Seq(AnyRecord) /\ written \in Seq(AnyRecord)
      /\ sent \in Seq(AnyRecord)
      /\ written' = Append(written, rec) /\ rec' = NoRecord
      /\ UNCHANGED <<emitted, sent, queue, dropped, Dropping>> /\ writer' = "check"
      /\ writer # "panicked"
  BY DEF Write, SinkWrite, IInv, TypeOK, EmitsItsRecords, turnVars, busVars, Dropping
<1>. DEFINE n == Cardinality(Delivered)
<1>2. /\ DOMAIN Held = 1..Len(Held) /\ Len(Held) = Len(queue) + 1 /\ Held[1] = rec
      /\ \A i \in 1..Len(queue) : Held[i + 1] = queue[i]
      /\ Len(queue) \in Nat /\ DOMAIN queue = 1..Len(queue) /\ Held' = queue
      /\ Len(sent) \in Nat /\ DOMAIN sent = 1..Len(sent)
  <2>1. rec # NoRecord /\ Held = Hold(rec, queue)
    BY <1>1, Names DEF Held, Hold
  <2>2. Held' = queue
    BY <1>1, ConcatEmptySeq DEF Held
  <2>3. /\ DOMAIN Held = 1..Len(Held) /\ Len(Held) = Len(queue) + 1 /\ Held[1] = rec
        /\ \A i \in 1..Len(queue) : Held[i + 1] = queue[i]
    <3>1. queue \in Seq(AnyRecord) /\ rec \in AnyRecord \cup {NoRecord}
      BY <1>1
    <3>2. /\ DOMAIN Hold(rec, queue) = 1..Len(Hold(rec, queue))
          /\ Len(Hold(rec, queue)) = Len(queue) + 1 /\ Hold(rec, queue)[1] = rec
          /\ \A i \in 1..Len(queue) : Hold(rec, queue)[i + 1] = queue[i]
      BY <2>1, <3>1, HoldPlaces
    <3>. QED BY <2>1, <3>2
  <2>4. /\ Len(queue) \in Nat /\ DOMAIN queue = 1..Len(queue)
        /\ Len(sent) \in Nat /\ DOMAIN sent = 1..Len(sent)
    BY <1>1, LenProperties
  <2>. QED BY <2>2, <2>3, <2>4
<1>3. /\ n \in Nat /\ HeldInOrder(n) /\ Len(sent) = n + Len(Held)
      /\ DeliveredInOrder /\ SentIsEmitted
  BY <1>1, OfFinite DEF Accounted, RecordsAccounted, Delivered
<1>4. n + 1 \in DOMAIN sent /\ rec = sent[n + 1] /\ rec.by \in Senders
  BY <1>2, <1>3 DEF HeldInOrder, SentIsEmitted
<1>5. Delivered' = Delivered \cup {Len(written) + 1} /\ Cardinality(Delivered') = n + 1
  BY <1>1, <1>4, OfAppend DEF Delivered
<1>6. /\ Len(written) \in Nat /\ Delivered \subseteq 1..Len(written)
      /\ \A i \in 1..Len(written) : written'[i] = written[i]
      /\ written'[Len(written) + 1] = rec
  BY <1>1, OfFinite, LenProperties, AppendProperties DEF Delivered
<1>7. DeliveredInOrder'
  <2>. SUFFICES ASSUME NEW i \in Delivered'
                PROVE  Rank(i)' \in DOMAIN sent' /\ written'[i] = sent'[Rank(i)']
    BY DEF DeliveredInOrder
  <2>1. CASE i = Len(written) + 1
    <3>1. \A j \in Delivered' : j =< i
      BY <1>5, <1>6, <2>1
    <3>2. {j \in Delivered' : j =< i} = Delivered'
      BY <3>1
    <3>3. Rank(i)' = n + 1
      BY <1>5, <3>2 DEF Rank
    <3>. QED BY <1>1, <1>4, <1>6, <2>1, <3>3
  <2>2. CASE i # Len(written) + 1
    <3>1. i \in Delivered /\ i \in 1..Len(written)
      BY <1>5, <1>6, <2>2
    <3>2. {j \in Delivered' : j =< i} = {j \in Delivered : j =< i}
      BY <1>5, <1>6, <3>1
    <3>3. Rank(i)' = Rank(i)
      BY <3>2 DEF Rank
    <3>. QED BY <1>1, <1>3, <1>6, <3>1, <3>3 DEF DeliveredInOrder
  <2>. QED BY <2>1, <2>2
<1>8. HeldInOrder(Cardinality(Delivered))'
  <2>. SUFFICES ASSUME NEW i \in DOMAIN Held'
                PROVE  /\ n + 1 + i \in DOMAIN sent
                       /\ Held'[i] = sent[n + 1 + i]
    BY <1>1, <1>5 DEF HeldInOrder
  <2>1. i \in 1..Len(queue) /\ Held'[i] = queue[i]
    BY <1>2
  <2>2. i + 1 \in DOMAIN Held /\ Held'[i] = Held[i + 1]
    BY <1>2, <2>1
  <2>3. n + (i + 1) = n + 1 + i
    BY <1>2, <1>3, <2>1
  <2>4. \A k \in DOMAIN Held : n + k \in DOMAIN sent /\ Held[k] = sent[n + k]
    BY <1>3 DEF HeldInOrder
  <2>5. n + (i + 1) \in DOMAIN sent /\ Held[i + 1] = sent[n + (i + 1)]
    BY <2>2, <2>4
  <2>. QED BY <2>2, <2>3, <2>5
<1>9. Counted' /\ SentInOrder' /\ SentIsEmitted' /\ UNCHANGED Emissions
  BY <1>1
     DEF Accounted, RecordsAccounted, Counted, SentInOrder, SentIsEmitted, Of, Emissions
<1>10. Len(sent') = Cardinality(Delivered') + Len(Held')
  BY <1>1, <1>2, <1>3, <1>5
<1>. QED BY <1>7, <1>8, <1>9, <1>10 DEF Accounted, RecordsAccounted

(* A report is no delivery.                                                *)
LEMMA ReportDropsAccounts == ASSUME IInv, Accounted, ReportDrops PROVE Accounted'
<1>. DEFINE r == CaptureDrop(last_drop_report)
<1>1. /\ r \in AnyRecord /\ r.by = "writer" /\ r.by \notin Senders
      /\ written \in Seq(AnyRecord) /\ written' = Append(written, r)
      /\ UNCHANGED <<emitted, sent, queue, rec, dropped, Dropping>> /\ writer # "panicked"
  BY Names
     DEF ReportDrops, SinkWrite, IInv, TypeOK, turnVars, busVars, Dropping, CaptureDrop, AnyRecord
<1>2. UNCHANGED <<Delivered, Held, Emissions>> /\ Delivered \subseteq 1..Len(written)
  BY <1>1, OfAppend, OfFinite DEF Delivered, Held, Emissions
<1>3. \A i : Rank(i)' = Rank(i)
  BY <1>2 DEF Rank
<1>4. \A i \in Delivered : written'[i] = written[i]
  BY <1>1, <1>2, AppendProperties
<1>5. DeliveredInOrder' /\ HeldInOrder(Cardinality(Delivered))'
  BY <1>1, <1>2, <1>3, <1>4 DEF Accounted, RecordsAccounted, DeliveredInOrder, HeldInOrder
<1>6. Counted' /\ SentInOrder' /\ SentIsEmitted'
  BY <1>1, <1>2 DEF Accounted, RecordsAccounted, Counted, SentInOrder, SentIsEmitted, Of
<1>. QED BY <1>1, <1>2, <1>5, <1>6 DEF Accounted, RecordsAccounted

(* What a panic takes is what was held.                                    *)
LEMMA PanicAccounts == ASSUME IInv, Accounted, SinkPanics PROVE Accounted'
<1>1. /\ UNCHANGED <<emitted, sent, written, dropped, Dropping>>
      /\ queue' = <<>> /\ rec' = NoRecord /\ writer' = "panicked"
  BY DEF SinkPanics, turnVars, Dropping
<1>2. UNCHANGED <<Emissions, Delivered>> /\ \A i : Rank(i)' = Rank(i)
  BY <1>1 DEF Emissions, Delivered, Of, Rank
<1>3. DOMAIN Held' = {}
  <2>1. Held' = <<>>
    BY <1>1, ConcatEmptySeq DEF Held
  <2>. QED BY <2>1
<1>4. Counted' /\ SentInOrder' /\ SentIsEmitted' /\ DeliveredInOrder'
  BY <1>1, <1>2
     DEF Accounted, RecordsAccounted, Counted, SentInOrder, SentIsEmitted, DeliveredInOrder, Of
<1>5. HeldInOrder(Cardinality(Delivered))'
  BY <1>3 DEF HeldInOrder
<1>. QED BY <1>1, <1>2, <1>4, <1>5 DEF Accounted, RecordsAccounted

LEMMA StepAccounts == IInv /\ Ends /\ Accounted /\ [Next]_vars => Accounted'
<1>. SUFFICES ASSUME IInv, Ends, Accounted, [Next]_vars PROVE Accounted'
  OBVIOUS
<1>1. ASSUME NEW t \in Turns, Wake(t) \/ TurnStep(t) PROVE Accounted'
  <2>1. CASE Wake(t) \/ AwaitRead(t) \/ EmitAgain(t)
    <3>1. UNCHANGED <<emitted, sent, written, rec, queue, dropped, Dropping, writer>>
      BY <2>1 DEF Wake, AwaitRead, EmitAgain, TaskStep, busVars, writerVars, sinkVars, Dropping,
                  IInv, TypeOK
    <3>. QED BY <3>1, NothingMoves
  <2>. QED BY <1>1, <2>1, TrySendAccounts, CountDropAccounts, CountEmitAccounts DEF TurnStep
<1>2. CASE WriterStep
  <2>1. CASE CheckDrops \/ WriterEnds
    <3>1. /\ UNCHANGED <<emitted, sent, written, rec, queue, dropped, Dropping>>
          /\ writer # "panicked"
      BY <2>1 DEF CheckDrops, WriterEnds, turnVars, busVars, sinkVars, Dropping
    <3>. QED BY <3>1, NothingMoves
  <2>. QED BY <1>2, <2>1, ReceiveAccounts, WriteAccounts, ReportDropsAccounts DEF WriterStep
<1>3. CASE SinkPanics
  BY <1>3, PanicAccounts
<1>4. CASE \/ \E to \in BOOLEAN : Wedge(to)
           \/ Kill \/ Gone \/ UNCHANGED vars
           \/ DropSenders \/ ReturnEarly \/ WriterAwaited \/ DrainTimesOut \/ RuntimeDropped
  <2>1. UNCHANGED <<emitted, sent, written, rec, queue, dropped, Dropping, writer>>
    BY <1>4
       DEF Wedge, Kill, Gone, vars, DropSenders, ReturnEarly, WriterAwaited, DrainTimesOut,
           RuntimeDropped, MainStep, turnVars, busVars, writerVars, sinkVars, Dropping
  <2>. QED BY <2>1, NothingMoves
<1>. QED BY <1>1, <1>2, <1>3, <1>4 DEF Next

(* emission.rs:181, for every channel and any number of turns: each record *)
(* is accepted or counted, and the accepted ones reach the sinks in order. *)
THEOREM AccountsSafe == Spec => []RecordsAccounted
<1>1. Accounted => RecordsAccounted
  BY DEF Accounted
<1>. QED BY <1>1, InitHolds, StepKeeps, InitEnds, StepEnds, InitAccounted, StepAccounts, PTL DEF Spec

(* main.rs:105: a drain that was waited for has delivered everything.      *)
THEOREM DrainSafe == Spec => []DrainDelivers
<1>1. IInv /\ Ends /\ Accounted => DrainDelivers
  <2>. SUFFICES ASSUME IInv, Ends, Accounted, main = "drained", writer # "panicked"
                PROVE  /\ Cardinality(Delivered) = Len(sent)
                       /\ DeliveredInOrder /\ flushed = Len(written)
    BY DEF DrainDelivers
  <2>1. /\ writer = "ended" /\ queue = <<>> /\ rec = NoRecord /\ flushed = Len(written)
    BY DEF Ends, EndsEmpty, WriterEnded
  <2>2. Len(Held) = 0
    BY <2>1, ConcatEmptySeq DEF Held
  <2>3. Cardinality(Delivered) \in Nat
    BY OfFinite DEF IInv, TypeOK, Delivered
  <2>. QED BY <2>1, <2>2, <2>3 DEF Accounted, RecordsAccounted
<1>. QED BY <1>1, InitHolds, StepKeeps, InitEnds, StepEnds, InitAccounted, StepAccounts, PTL DEF Spec

=============================================================================
