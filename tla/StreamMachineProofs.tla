-------------------------- MODULE StreamMachineProofs --------------------------
(* Lemmas about the operators of StreamMachine, for the proofs about       *)
(* MachineLife and the Driver.                                             *)
EXTENDS StreamMachine, TLAPS

(* Every event is one of the four that feed tells apart.                   *)
LEMMA EventCases ==
  ASSUME NEW e \in Event
  PROVE  \/ e.ev = "text_delta" /\ e.v \in Text
         \/ e.ev = "finish" /\ e.v \in Reason
         \/ e.ev = "usage" /\ e.v \in Usage
         \/ e.ev = "done"
  BY DEF Event

LEMMA NewMachineType == NewMachine \in Machine
  BY DEF NewMachine, Machine

(* The methods of the machine keep its type.                               *)
LEMMA FeedTextType ==
  ASSUME NEW m \in Machine, NEW t \in Text
  PROVE  FeedText(m, t) \in Machine
  <1>1. Append(m.content, t) \in Seq(Text)
    BY DEF Machine
  <1>2. Append(m.anomalies, "late_text") \in Seq(Oddity) /\ m.anomalies \in Seq(Oddity)
    <2>1. m.anomalies \in Seq(Oddity) /\ "late_text" \in Oddity
      BY DEF Machine, Oddity
    <2> QED BY <2>1
  <1> QED BY <1>1, <1>2 DEF FeedText, Machine, IsCompletable

LEMMA FeedFinishType ==
  ASSUME NEW m \in Machine, NEW r \in Reason
  PROVE  FeedFinish(m, r) \in Machine
  <1>1. Append(m.anomalies, "second_finish") \in Seq(Oddity)
    <2>1. m.anomalies \in Seq(Oddity) /\ "second_finish" \in Oddity
      BY DEF Machine, Oddity
    <2> QED BY <2>1
  <1> QED BY <1>1 DEF FeedFinish, Machine

LEMMA FeedUsageType ==
  ASSUME NEW m \in Machine, NEW u \in Usage
  PROVE  FeedUsage(m, u) \in Machine
  BY DEF FeedUsage, Machine

LEMMA FeedDoneType ==
  ASSUME NEW m \in Machine
  PROVE  FeedDone(m) \in Machine
  BY DEF FeedDone, Machine

LEMMA FeedType ==
  ASSUME NEW m \in Machine, NEW e \in Event
  PROVE  Feed(m, e) \in Machine
  <1>1. CASE e.ev = "text_delta" /\ e.v \in Text
    BY <1>1, FeedTextType DEF Feed
  <1>2. CASE e.ev = "finish" /\ e.v \in Reason
    BY <1>2, FeedFinishType DEF Feed
  <1>3. CASE e.ev = "usage" /\ e.v \in Usage
    BY <1>3, FeedUsageType DEF Feed
  <1>4. CASE e.ev = "done"
    BY <1>4, FeedDoneType DEF Feed
  <1> QED BY <1>1, <1>2, <1>3, <1>4, EventCases

(* The verdict of a machine: an outcome exactly for a finished machine at  *)
(* the end of its stream, with what the machine holds; else a fault whose  *)
(* name the cause and the content determine.                               *)
LEMMA FinalizeVerdict ==
  ASSUME NEW m \in Machine, NEW cause \in EndCause
  PROVE  /\ Finalize(m, cause) \in Outcome \cup MachineFault
         /\ Finalize(m, cause).type = "outcome" <=> cause = "stream_ended" /\ IsCompletable(m)
         /\ Finalize(m, cause).type = "outcome" =>
              /\ Finalize(m, cause).content = m.content
              /\ Finalize(m, cause).finish_reason = m.finish_reason
              /\ Finalize(m, cause).usage = m.usage
         /\ Finalize(m, cause).type = "fault" =>
              /\ Finalize(m, cause).fault = "aborted" <=> cause = "handler_abort"
              /\ Finalize(m, cause).fault = "truncated" => m.content # <<>>
              /\ Finalize(m, cause).fault = "empty_stream" => m.content = <<>>
  <1>1. CASE cause = "handler_abort"
    BY <1>1 DEF Finalize, Fault, Machine, MachineFault
  <1>2. CASE cause = "stream_ended" /\ IsCompletable(m)
    <2>1. Finalize(m, cause) = [type |-> "outcome", content |-> m.content,
                                finish_reason |-> m.finish_reason, usage |-> m.usage]
      BY <1>2 DEF Finalize
    <2>2. m.finish_reason \in Reason
      BY <1>2 DEF IsCompletable, Machine
    <2> QED BY <1>2, <2>1, <2>2 DEF Machine, Outcome
  <1>3. CASE cause = "stream_ended" /\ ~IsCompletable(m)
    BY <1>3 DEF Finalize, Fault, Machine, MachineFault
  <1> QED BY <1>1, <1>2, <1>3 DEF EndCause

=============================================================================
