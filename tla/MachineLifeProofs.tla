--------------------------- MODULE MachineLifeProofs ---------------------------
(***************************************************************************)
(* The completion rules hold for every event sequence, of any length and   *)
(* over any text, finish reasons and usages.                               *)
(***************************************************************************)
EXTENDS MachineLife, StreamMachineProofs, FiniteSetTheorems

(* The machine's finish reason is that of the first finish event fed.      *)
FirstFinish(r) == \E i \in 1..Len(fed) : /\ IsFinish(i)
                                         /\ fed[i].v = r
                                         /\ \A j \in 1..(i - 1) : ~IsFinish(j)

FinishHeard ==
  /\ IsCompletable(machine) => FirstFinish(machine.finish_reason)
  /\ ~IsCompletable(machine) => \A i \in 1..Len(fed) : ~IsFinish(i)

(* A verdict is what finalize makes of the machine as it stands.           *)
Settled == /\ verdict = Pending => ended = "open"
           /\ verdict # Pending => ended \in EndCause /\ verdict = Finalize(machine, ended)

IInv == TypeOK /\ FinishHeard /\ ContentIsTestimony /\ Settled

-----------------------------------------------------------------------------

LEMMA InitIInv == Init => IInv
  <1> SUFFICES ASSUME Init PROVE IInv
    OBVIOUS
  <1>1. TypeOK
    BY NewMachineType DEF Init, TypeOK
  <1>2. FinishHeard
    BY DEF Init, FinishHeard, NewMachine, IsCompletable
  <1>3. ContentIsTestimony
    <2>1. /\ machine.content = <<>> /\ Len(machine.content) = 0
          /\ fed = <<>> /\ Len(fed) = 0
      BY DEF Init, NewMachine
    <2> DEFINE at == [i \in 1..Len(machine.content) |-> 1]
    <2>2. at \in [1..Len(machine.content) -> 1..Len(fed)]
      BY <2>1
    <2>3. Places(machine.content, at)
      BY <2>1 DEF Places
    <2> QED BY <2>2, <2>3 DEF ContentIsTestimony
  <1>4. Settled
    BY DEF Init, Settled
  <1> QED BY <1>1, <1>2, <1>3, <1>4 DEF IInv

-----------------------------------------------------------------------------
(* What feeding one event does to the finish reason and to the content.    *)

LEMMA FeedEffect ==
  ASSUME NEW m \in Machine, NEW e \in Event
  PROVE  /\ Feed(m, e).content = IF e.ev = "text_delta" THEN Append(m.content, e.v)
                                                        ELSE m.content
         /\ Feed(m, e).finish_reason = IF e.ev = "finish" /\ ~IsCompletable(m)
                                         THEN e.v ELSE m.finish_reason
  <1>1. CASE e.ev = "text_delta"
    BY <1>1 DEF Feed, FeedText, Machine
  <1>2. CASE e.ev = "finish"
    BY <1>2 DEF Feed, FeedFinish, Machine
  <1>3. CASE e.ev = "usage"
    BY <1>3 DEF Feed, FeedUsage, Machine
  <1>4. CASE e.ev = "done"
    BY <1>4 DEF Feed, FeedDone, Machine
  <1> QED BY <1>1, <1>2, <1>3, <1>4, EventCases

LEMMA FeedEventIInv ==
  ASSUME IInv, NEW e \in Event, FeedEvent(e)
  PROVE  IInv'
  <1>1. /\ machine \in Machine /\ fed \in Seq(Event) /\ verdict = Pending
        /\ machine' = Feed(machine, e) /\ fed' = Append(fed, e)
        /\ ended' = ended /\ verdict' = verdict
    BY DEF IInv, TypeOK, FeedEvent
  <1>2. TypeOK'
    BY <1>1, FeedType DEF IInv, TypeOK
  <1>3. /\ Len(fed) \in Nat /\ Len(fed') = Len(fed) + 1
        /\ fed'[Len(fed) + 1] = e
        /\ \A i \in 1..Len(fed) : fed'[i] = fed[i]
    BY <1>1
  <1>4. FinishHeard'
    <2>1. /\ IsCompletable(machine) => FirstFinish(machine.finish_reason)
          /\ ~IsCompletable(machine) => \A i \in 1..Len(fed) : ~IsFinish(i)
      BY DEF IInv, FinishHeard
    <2>2. CASE IsCompletable(machine)
      <3>1. machine'.finish_reason = machine.finish_reason
        BY <1>1, <2>2, FeedEffect
      <3>2. FirstFinish(machine.finish_reason)
        BY <2>1, <2>2
      <3>3. PICK i \in 1..Len(fed) : /\ IsFinish(i)
                                     /\ fed[i].v = machine.finish_reason
                                     /\ \A j \in 1..(i - 1) : ~IsFinish(j)
        BY <3>2 DEF FirstFinish
      <3>4. i \in 1..Len(fed') /\ fed'[i] = fed[i]
        BY <1>3
      <3>5. \A j \in 1..(i - 1) : fed'[j] = fed[j]
        BY <1>3
      <3>6. FirstFinish(machine.finish_reason)'
        BY <3>1, <3>3, <3>4, <3>5 DEF FirstFinish, IsFinish
      <3> QED BY <2>2, <3>1, <3>6 DEF FinishHeard, IsCompletable
    <2>3. CASE ~IsCompletable(machine) /\ e.ev = "finish"
      <3>1. machine'.finish_reason = e.v
        BY <1>1, <2>3, FeedEffect
      <3>2. e.v \in Reason
        BY <2>3, EventCases
      <3>3. IsCompletable(machine')
        BY <3>1, <3>2, NoneAssumption DEF IsCompletable
      <3>4. \A j \in 1..Len(fed) : ~IsFinish(j)'
        BY <1>3, <2>1, <2>3 DEF IsFinish
      <3>5. FirstFinish(machine.finish_reason)'
        <4>1. /\ Len(fed) + 1 \in 1..Len(fed')
              /\ fed'[Len(fed) + 1].ev = "finish" /\ fed'[Len(fed) + 1].v = machine'.finish_reason
              /\ \A j \in 1..((Len(fed) + 1) - 1) : fed'[j].ev # "finish"
          BY <1>3, <2>3, <3>1, <3>4 DEF IsFinish
        <4> QED BY <4>1 DEF FirstFinish, IsFinish
      <3> QED BY <3>3, <3>5 DEF FinishHeard
    <2>4. CASE ~IsCompletable(machine) /\ e.ev # "finish"
      <3>1. machine'.finish_reason = machine.finish_reason
        BY <1>1, <2>4, FeedEffect
      <3>2. \A i \in 1..Len(fed') : ~IsFinish(i)'
        BY <1>3, <2>1, <2>4 DEF IsFinish
      <3> QED BY <2>4, <3>1, <3>2 DEF FinishHeard, IsCompletable
    <2> QED BY <2>2, <2>3, <2>4
  <1>5. ContentIsTestimony'
    <2> DEFINE c == machine.content
               n == Len(c)
    <2>1. PICK at \in [1..n -> 1..Len(fed)] : Places(c, at)
      BY DEF IInv, ContentIsTestimony
    <2>2. /\ c \in Seq(Text) /\ n \in Nat
          /\ \A i, j \in 1..n : i < j => at[i] < at[j]
          /\ \A i \in 1..n : at[i] \in 1..Len(fed) /\ IsText(at[i]) /\ c[i] = fed[at[i]].v
          /\ \A k \in 1..Len(fed) : IsText(k) => \E i \in 1..n : at[i] = k
      BY <1>1, <2>1 DEF Machine, Places
    <2>3. CASE e.ev = "text_delta"
      <3>1. machine'.content = Append(c, e.v) /\ e.v \in Text
        BY <1>1, <2>3, FeedEffect, EventCases
      <3>2. /\ Len(machine'.content) = n + 1
            /\ machine'.content[n + 1] = e.v
            /\ \A i \in 1..n : machine'.content[i] = c[i]
        BY <2>2, <3>1
      <3>3. PICK new \in [1..(n + 1) -> 1..(Len(fed) + 1)] :
              new[n + 1] = Len(fed) + 1 /\ \A i \in 1..n : new[i] = at[i]
        <4> DEFINE ext == [i \in 1..(n + 1) |-> IF i = n + 1 THEN Len(fed) + 1 ELSE at[i]]
        <4> HIDE DEF c, n
        <4>1. /\ ext[n + 1] = Len(fed) + 1
              /\ \A i \in 1..n : ext[i] = at[i] /\ ext[i] \in 1..Len(fed)
              /\ \A i \in 1..(n + 1) : i \in 1..n \/ i = n + 1
          BY <2>2
        <4>2. ext \in [1..(n + 1) -> 1..(Len(fed) + 1)]
          BY <1>3, <2>2, <4>1
        <4> QED BY <4>1, <4>2
      <3> HIDE DEF c, n
      <3>4. \A i \in 1..(n + 1) : i \in 1..n \/ i = n + 1
        BY <2>2
      <3>5. ASSUME NEW i \in 1..(n + 1), NEW j \in 1..(n + 1), i < j
            PROVE  new[i] < new[j]
        <4>1. i \in 1..n /\ new[i] = at[i] /\ at[i] \in 1..Len(fed)
          BY <2>2, <3>3, <3>5
        <4>2. CASE j \in 1..n
          BY <2>2, <3>3, <3>5, <4>1, <4>2
        <4>3. CASE j = n + 1
          BY <1>3, <3>3, <4>1, <4>3
        <4> QED BY <3>4, <4>2, <4>3
      <3>6. ASSUME NEW i \in 1..(n + 1)
            PROVE  fed'[new[i]].ev = "text_delta" /\ machine'.content[i] = fed'[new[i]].v
        <4>1. CASE i \in 1..n
          <5>1. new[i] = at[i] /\ at[i] \in 1..Len(fed) /\ IsText(at[i]) /\ c[i] = fed[at[i]].v
            BY <2>2, <3>3, <4>1
          <5>2. fed'[at[i]] = fed[at[i]] /\ machine'.content[i] = c[i]
            BY <1>3, <3>2, <4>1, <5>1
          <5> QED BY <5>1, <5>2 DEF IsText
        <4>2. CASE i = n + 1
          BY <1>3, <2>3, <3>2, <3>3, <4>2
        <4> QED BY <3>4, <4>1, <4>2
      <3>7. ASSUME NEW k \in 1..(Len(fed) + 1), fed'[k].ev = "text_delta"
            PROVE  \E i \in 1..(n + 1) : new[i] = k
        <4>1. CASE k = Len(fed) + 1
          BY <2>2, <3>3, <4>1
        <4>2. CASE k \in 1..Len(fed)
          <5>1. IsText(k)
            BY <1>3, <3>7, <4>2 DEF IsText
          <5>2. PICK i \in 1..n : at[i] = k
            BY <2>2, <4>2, <5>1
          <5> QED BY <2>2, <3>3, <5>2
        <4> QED BY <1>3, <4>1, <4>2
      <3>8. Places(machine.content, new)'
        BY <1>3, <3>2, <3>5, <3>6, <3>7 DEF Places, IsText
      <3> QED BY <1>3, <3>2, <3>3, <3>8 DEF ContentIsTestimony
    <2>4. CASE e.ev # "text_delta"
      <3>1. machine'.content = c
        BY <1>1, <2>4, FeedEffect
      <3> HIDE DEF c, n
      <3>2. at \in [1..n -> 1..Len(fed')]
        BY <1>3, <2>1, <2>2
      <3>3. \A i \in 1..n : IsText(at[i])' /\ c[i] = fed'[at[i]].v
        BY <1>3, <2>2 DEF IsText
      <3>4. \A k \in 1..Len(fed') : IsText(k)' => \E i \in 1..n : at[i] = k
        BY <1>3, <2>2, <2>4 DEF IsText
      <3>5. n = Len(machine'.content)
        BY <3>1 DEF n
      <3> QED BY <2>2, <3>1, <3>2, <3>3, <3>4, <3>5 DEF ContentIsTestimony, Places
    <2> QED BY <2>3, <2>4
  <1>6. Settled'
    BY <1>1 DEF IInv, Settled
  <1> QED BY <1>2, <1>4, <1>5, <1>6 DEF IInv

LEMMA FinalizeIInv ==
  ASSUME IInv, NEW cause \in EndCause, FinalizeWith(cause)
  PROVE  IInv'
  <1>1. /\ machine \in Machine /\ machine' = machine /\ fed' = fed
        /\ ended' = cause /\ verdict' = Finalize(machine, cause)
    BY DEF IInv, TypeOK, FinalizeWith
  <1>2. verdict' \in Outcome \cup MachineFault
    BY <1>1, FinalizeVerdict
  <1>3. TypeOK'
    BY <1>1, <1>2 DEF IInv, TypeOK
  <1>4. FinishHeard'
    BY <1>1 DEF IInv, FinishHeard, FirstFinish, IsFinish
  <1>5. ContentIsTestimony'
    BY <1>1 DEF IInv, ContentIsTestimony, Places, IsText
  <1>6. verdict' # Pending
    BY <1>2 DEF Outcome, MachineFault, Pending
  <1>7. Settled'
    BY <1>1, <1>6 DEF Settled
  <1> QED BY <1>3, <1>4, <1>5, <1>7 DEF IInv

LEMMA StutterIInv == IInv /\ UNCHANGED vars => IInv'
  BY DEF IInv, vars, TypeOK, FinishHeard, FirstFinish, IsFinish, ContentIsTestimony, Places,
         IsText, Settled

LEMMA StepIInv == IInv /\ [Next]_vars => IInv'
  BY FeedEventIInv, FinalizeIInv, StutterIInv DEF Next, Consumed

(* The inductive invariant holds throughout every life of a machine.       *)
THEOREM Inductive == Spec => []IInv
  BY InitIInv, StepIInv, PTL DEF Spec

-----------------------------------------------------------------------------

(* The type invariant of MachineLife.                                      *)
THEOREM TypeCorrect == Spec => []TypeOK
  <1>1. IInv => TypeOK
    BY DEF IInv
  <1> QED BY <1>1, Inductive, PTL

(* INV-CHAT-05: the machine never edits testimony.                         *)
THEOREM Testimony == Spec => []ContentIsTestimony
  <1>1. IInv => ContentIsTestimony
    BY DEF IInv
  <1> QED BY <1>1, Inductive, PTL

(* INV-CHAT-04: only a finish reason makes an outcome.                     *)
THEOREM Completion == Spec => []VerdictFollowsHistory
  <1>1. IInv => VerdictFollowsHistory
    <2> SUFFICES ASSUME IInv, verdict # Pending
                 PROVE  VerdictFollowsHistory
      BY DEF VerdictFollowsHistory
    <2>1. /\ machine \in Machine /\ fed \in Seq(Event) /\ ended \in EndCause
          /\ verdict = Finalize(machine, ended)
      BY DEF IInv, TypeOK, Settled
    <2>2. DOMAIN fed = 1..Len(fed)
      BY <2>1
    <2>3. FinishFed <=> IsCompletable(machine)
      BY <2>2 DEF IInv, FinishHeard, FirstFinish, FinishFed
    <2>4. verdict.type = "outcome" <=> ended = "stream_ended" /\ FinishFed
      BY <2>1, <2>3, FinalizeVerdict
    <2>5. ASSUME verdict.type = "outcome"
          PROVE  /\ verdict.content = machine.content
                 /\ FirstFinish(verdict.finish_reason)
      BY <2>1, <2>3, <2>4, <2>5, FinalizeVerdict DEF IInv, FinishHeard
    <2>6. PICK at \in [1..Len(machine.content) -> 1..Len(fed)] : Places(machine.content, at)
      BY DEF IInv, ContentIsTestimony
    <2>7. machine.content # <<>> => \E i \in 1..Len(fed) : IsText(i)
      <3>1. machine.content \in Seq(Text)
        BY <2>1 DEF Machine
      <3>2. machine.content # <<>> => 1 \in 1..Len(machine.content)
        BY <3>1
      <3> QED BY <2>6, <3>2 DEF Places
    <2>8. machine.content = <<>> => \A i \in 1..Len(fed) : ~IsText(i)
      BY <2>6 DEF Places
    <2>9. ASSUME verdict.type = "fault"
          PROVE  /\ verdict.fault = "aborted" <=> ended = "handler_abort"
                 /\ verdict.fault = "truncated" => \E i \in DOMAIN fed : IsText(i)
                 /\ verdict.fault = "empty_stream" => \A i \in DOMAIN fed : ~IsText(i)
      BY <2>1, <2>2, <2>7, <2>8, <2>9, FinalizeVerdict
    <2> QED BY <2>2, <2>4, <2>5, <2>9 DEF VerdictFollowsHistory, FirstFinish
  <1> QED BY <1>1, Inductive, PTL

-----------------------------------------------------------------------------
(* Anomalies.  An event leaves one exactly when it is text or a finish     *)
(* reason and the machine is already completable.                          *)

Odd(m, e) == e.ev \in {"text_delta", "finish"} /\ IsCompletable(m)

LEMMA FeedAnomalies ==
  ASSUME NEW m \in Machine, NEW e \in Event
  PROVE  Len(Feed(m, e).anomalies) = IF Odd(m, e) THEN Len(m.anomalies) + 1
                                                  ELSE Len(m.anomalies)
  <1>1. m.anomalies \in Seq(Oddity)
    BY DEF Machine
  <1>2. CASE e.ev = "text_delta"
    <2>1. Feed(m, e).anomalies = IF Odd(m, e) THEN Append(m.anomalies, "late_text")
                                              ELSE m.anomalies
      BY <1>2 DEF Feed, FeedText, Odd, Machine
    <2> QED BY <1>1, <2>1
  <1>3. CASE e.ev = "finish"
    <2>1. Feed(m, e).anomalies = IF Odd(m, e) THEN Append(m.anomalies, "second_finish")
                                              ELSE m.anomalies
      BY <1>3 DEF Feed, FeedFinish, Odd, Machine
    <2> QED BY <1>1, <2>1
  <1>4. CASE e.ev = "usage"
    BY <1>4 DEF Feed, FeedUsage, Odd, Machine
  <1>5. CASE e.ev = "done"
    BY <1>5 DEF Feed, FeedDone, Odd, Machine
  <1> QED BY <1>2, <1>3, <1>4, <1>5, EventCases

LEMMA OddFinite == fed \in Seq(Event) => IsFiniteSet(OddEvents) /\ OddEvents \subseteq 1..Len(fed)
  <1> SUFFICES ASSUME fed \in Seq(Event) PROVE IsFiniteSet(OddEvents) /\ OddEvents \subseteq 1..Len(fed)
    OBVIOUS
  <1>1. OddEvents \subseteq 1..Len(fed)
    BY DEF OddEvents
  <1>2. IsFiniteSet(1..Len(fed))
    BY FS_Interval
  <1> QED BY <1>1, <1>2, FS_Subset

LEMMA FeedEventOddity ==
  ASSUME IInv, OddityKeepsEvidence, NEW e \in Event, FeedEvent(e)
  PROVE  OddityKeepsEvidence'
  <1> DEFINE n == Len(fed)
  <1>1. /\ machine \in Machine /\ fed \in Seq(Event)
        /\ machine' = Feed(machine, e) /\ fed' = Append(fed, e)
    BY DEF IInv, TypeOK, FeedEvent
  <1>2. /\ n \in Nat /\ Len(fed') = n + 1 /\ fed'[n + 1] = e
        /\ DOMAIN fed = 1..n /\ DOMAIN fed' = 1..(n + 1)
        /\ \A i \in 1..n : fed'[i] = fed[i]
    BY <1>1
  <1>3. IsCompletable(machine) <=> \E i \in 1..n : IsFinish(i)
    BY DEF IInv, FinishHeard, FirstFinish
  <1> HIDE DEF n
  <1>4. ASSUME NEW i \in 1..n
        PROVE  i \in OddEvents' <=> i \in OddEvents
    <2>1. /\ i \in 1..n /\ i \in 1..(n + 1) /\ fed'[i] = fed[i]
          /\ \A j \in 1..(i - 1) : j \in 1..n /\ fed'[j] = fed[j]
      BY <1>2, <1>4
    <2> QED BY <1>2, <2>1 DEF OddEvents, IsText, IsFinish
  <1>5. n + 1 \in OddEvents' <=> Odd(machine, e)
    <2>1. (n + 1) - 1 = n /\ n + 1 \in 1..(n + 1)
      BY <1>2
    <2>2. (\E j \in 1..n : fed'[j].ev = "finish") <=> IsCompletable(machine)
      BY <1>2, <1>3 DEF IsFinish
    <2> QED BY <1>2, <2>1, <2>2 DEF OddEvents, IsText, IsFinish, Odd
  <1>6. /\ OddEvents' \subseteq 1..(n + 1)
        /\ IsFiniteSet(OddEvents) /\ OddEvents \subseteq 1..n
        /\ n + 1 \notin 1..n
        /\ \A i \in 1..(n + 1) : i \in 1..n \/ i = n + 1
    <2>1. OddEvents' \subseteq 1..(n + 1)
      BY <1>2 DEF OddEvents
    <2> QED BY <1>1, <1>2, <2>1, OddFinite DEF n
  <1>7. CASE Odd(machine, e)
    <2>1. OddEvents' = OddEvents \cup {n + 1} /\ n + 1 \notin OddEvents
      BY <1>2, <1>4, <1>5, <1>6, <1>7
    <2>2. Cardinality(OddEvents') = Cardinality(OddEvents) + 1
      BY <1>6, <2>1, FS_AddElement
    <2> QED BY <1>1, <1>7, <2>2, FeedAnomalies DEF OddityKeepsEvidence
  <1>8. CASE ~Odd(machine, e)
    <2>1. OddEvents' = OddEvents
      BY <1>4, <1>5, <1>6, <1>8
    <2> QED BY <1>1, <1>8, <2>1, FeedAnomalies DEF OddityKeepsEvidence
  <1> QED BY <1>7, <1>8

(* DEC-CHAT-05 for every event sequence: the machine keeps one anomaly for *)
(* each text and each finish reason that came too late, and no other.      *)
THEOREM Evidence == Spec => []OddityKeepsEvidence
  <1>1. Init => OddityKeepsEvidence
    <2> SUFFICES ASSUME Init PROVE OddityKeepsEvidence
      OBVIOUS
    <2>1. OddEvents = {} /\ Len(machine.anomalies) = 0
      BY DEF Init, OddEvents, NewMachine
    <2> QED BY <2>1, FS_EmptySet DEF OddityKeepsEvidence
  <1>2. IInv /\ OddityKeepsEvidence /\ [Next]_vars => OddityKeepsEvidence'
    <2>1. ASSUME OddityKeepsEvidence, UNCHANGED <<machine, fed>>
          PROVE  OddityKeepsEvidence'
      BY <2>1 DEF OddityKeepsEvidence, OddEvents, IsText, IsFinish
    <2> QED BY <2>1, FeedEventOddity DEF Next, FinalizeWith, Consumed, vars
  <1> QED BY <1>1, <1>2, Inductive, PTL DEF Spec

=============================================================================
