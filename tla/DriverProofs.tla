----------------------------- MODULE DriverProofs -----------------------------
(***************************************************************************)
(* Properties of the Driver for every set of streams, every pool, every    *)
(* allowance and every vocabulary of payloads.                             *)
(***************************************************************************)
EXTENDS Driver, StreamMachineProofs, FiniteSetTheorems

-----------------------------------------------------------------------------
(* The handler's operators.                                                *)

LEMMA FeedEventsType ==
  ASSUME NEW m \in Machine,
         NEW e \in [text : Text \cup {None}, finish : Reason \cup {None},
                    usage : Usage \cup {None}, done : BOOLEAN]
  PROVE  FeedEvents(m, e) \in Machine
  <1> DEFINE afterText   == IF e.text = None THEN m ELSE FeedText(m, e.text)
             afterFinish == IF e.finish = None THEN afterText ELSE FeedFinish(afterText, e.finish)
             afterUsage  == IF e.usage = None THEN afterFinish ELSE FeedUsage(afterFinish, e.usage)
  <1>1. afterText \in Machine
    BY FeedTextType
  <1>2. afterFinish \in Machine
    <2> HIDE DEF afterText
    <2> QED BY <1>1, FeedFinishType
  <1>3. afterUsage \in Machine
    <2> HIDE DEF afterFinish
    <2> QED BY <1>2, FeedUsageType
  <1>4. FeedEvents(m, e) = IF e.done THEN FeedDone(afterUsage) ELSE afterUsage
    BY DEF FeedEvents
  <1> HIDE DEF afterUsage
  <1> QED BY <1>3, <1>4, FeedDoneType

LEMMA NormalizeType ==
  ASSUME NEW p \in Payload
  PROVE  /\ Normalize(p).ok \in BOOLEAN
         /\ Normalize(p).multiple \in BOOLEAN
         /\ Normalize(p).events \in [text : Text \cup {None}, finish : Reason \cup {None},
                                     usage : Usage \cup {None}, done : BOOLEAN]
  <1>1. CASE p.type = "done"
    BY <1>1 DEF Normalize, NoEvents
  <1>2. CASE p.type = "chunk" /\ ~p.error
    <2>1. p \in Chunk
      BY <1>2 DEF Payload
    <2>2. Normalize(p) = [ok |-> TRUE, multiple |-> p.choices > 1,
                          events |-> [text |-> p.content, finish |-> p.finish,
                                      usage |-> p.usage, done |-> FALSE]]
      BY <1>2 DEF Normalize
    <2> QED BY <2>1, <2>2 DEF Chunk
  <1>3. CASE p.type = "unparseable" \/ (p.type = "chunk" /\ p.error)
    BY <1>3 DEF Normalize, NoEvents
  <1>4. \/ p.type = "done"
        \/ p.type = "chunk" /\ p \in Chunk
        \/ p.type = "unparseable"
    BY DEF Payload, Chunk
  <1>5. p.type = "chunk" => p.error \in BOOLEAN
    BY <1>4 DEF Chunk
  <1> QED BY <1>1, <1>2, <1>3, <1>4, <1>5

LEMMA BeginAttemptType ==
  ASSUME NEW x \in StreamState
  PROVE  BeginAttempt(x) \in StreamState /\ BeginAttempt(x).attempt = x.attempt + 1
  <1>1. BeginAttempt(x) = [x EXCEPT !.attempt = x.attempt + 1, !.machine = NewMachine]
    BY DEF BeginAttempt
  <1>2. x.attempt + 1 \in Nat /\ NewMachine \in Machine
    BY NewMachineType DEF StreamState
  <1> QED BY <1>1, <1>2 DEF StreamState

(* on_installment keeps the stream state well-formed, never touches the    *)
(* attempt number and answers with one of three directives.                *)
LEMMA OnInstallmentType ==
  ASSUME NEW x \in StreamState, NEW p \in Payload
  PROVE  /\ OnInstallment(x, p).st \in StreamState
         /\ OnInstallment(x, p).st.attempt = x.attempt
         /\ OnInstallment(x, p).text \in Text \cup {None}
         /\ OnInstallment(x, p).directive \in {"continue", "stop_complete", "fault"}
  <1> DEFINE n == Normalize(p)
  <1>1. /\ n.ok \in BOOLEAN /\ n.multiple \in BOOLEAN
        /\ n.events \in [text : Text \cup {None}, finish : Reason \cup {None},
                         usage : Usage \cup {None}, done : BOOLEAN]
    BY NormalizeType
  <1>2. FeedEvents(x.machine, n.events) \in Machine
    <2> HIDE DEF n
    <2> QED BY <1>1, FeedEventsType DEF StreamState
  <1>3. CASE ~n.ok
    <2>1. OnInstallment(x, p) = [st |-> [x EXCEPT !.norm_errors = x.norm_errors + 1],
                                 directive |-> "fault", text |-> None]
      BY <1>3 DEF OnInstallment
    <2> QED BY <2>1 DEF StreamState
  <1>4. CASE n.ok /\ n.multiple
    <2>1. OnInstallment(x, p) = [st |-> x, directive |-> "fault", text |-> None]
      BY <1>4 DEF OnInstallment
    <2> QED BY <2>1
  <1>5. CASE n.ok /\ ~n.multiple
    <2>1. OnInstallment(x, p) =
            [st |-> [x EXCEPT !.machine = FeedEvents(x.machine, n.events),
                              !.saw_any_content = x.saw_any_content \/ n.events.text # None],
             directive |-> IF n.events.done THEN "stop_complete" ELSE "continue",
             text |-> n.events.text]
      BY <1>5 DEF OnInstallment
    <2> DEFINE saw == x.saw_any_content \/ n.events.text # None
               fed == FeedEvents(x.machine, n.events)
    <2>2. saw \in BOOLEAN /\ fed \in Machine /\ n.events.text \in Text \cup {None}
      BY <1>1, <1>2
    <2>3. OnInstallment(x, p) =
            [st |-> [x EXCEPT !.machine = fed, !.saw_any_content = saw],
             directive |-> IF n.events.done THEN "stop_complete" ELSE "continue",
             text |-> n.events.text]
      BY <2>1
    <2> HIDE DEF n, saw, fed
    <2>4. [x EXCEPT !.machine = fed, !.saw_any_content = saw] \in StreamState
      BY <2>2 DEF StreamState
    <2>5. [x EXCEPT !.machine = fed, !.saw_any_content = saw].attempt = x.attempt
      BY DEF StreamState
    <2>6. /\ OnInstallment(x, p).st = [x EXCEPT !.machine = fed, !.saw_any_content = saw]
          /\ OnInstallment(x, p).text = n.events.text
          /\ OnInstallment(x, p).directive \in {"continue", "stop_complete"}
      BY <2>3
    <2> QED BY <2>2, <2>4, <2>5, <2>6
  <1> QED BY <1>1, <1>3, <1>4, <1>5

-----------------------------------------------------------------------------
(* Type correctness, one lemma per group of exits and one step per action. *)

LEMMA TrySendType ==
  ASSUME NEW text \in Text \cup {None}, NEW taken \in TrySend(text)
  PROVE  taken \in Seq(Text \cup {None})
  <1> DEFINE S == Text \cup {None}
  <1>1. taken \in {<<>>, <<text>>, <<None>>}
    BY DEF TrySend
  <1>2. text \in S /\ None \in S
    OBVIOUS
  <1> HIDE DEF S
  <1>3. <<>> \in Seq(S) /\ <<text>> \in Seq(S) /\ <<None>> \in Seq(S)
    BY <1>2
  <1> QED BY <1>1, <1>3 DEF S

LEMMA EmitStreamEndType ==
  ASSUME records \in [Streams -> Testimony], NEW s \in Streams,
         NEW cause \in WireCause \cup FinalizedCause, NEW errors \in Nat,
         NEW taken \in Seq(Text \cup {None}), EmitStreamEnd(s, cause, errors, taken)
  PROVE  records' \in [Streams -> Testimony]
  <1> DEFINE r == records[s]
             new == [ends |-> r.ends + 1, last_end |-> cause,
                     norm_errors |-> r.norm_errors + errors, shown |-> r.shown \o taken]
  <1>1. r \in Testimony
    OBVIOUS
  <1>2. r.shown \o taken \in Seq(Text \cup {None})
    <2>1. r.shown \in Seq(Text \cup {None})
      BY <1>1 DEF Testimony
    <2> QED BY <2>1
  <1>3. new \in Testimony
    BY <1>1, <1>2 DEF Testimony
  <1>4. records' = [records EXCEPT ![s] = new]
    BY DEF EmitStreamEnd
  <1> HIDE DEF new
  <1> QED BY <1>3, <1>4

LEMMA EmitTextType ==
  ASSUME records \in [Streams -> Testimony], NEW s \in Streams,
         NEW taken \in Seq(Text \cup {None}), EmitText(s, taken)
  PROVE  records' \in [Streams -> Testimony]
  <1> DEFINE r == records[s]
             new == [r EXCEPT !.shown = r.shown \o taken]
  <1>1. r \in Testimony /\ r.shown \in Seq(Text \cup {None})
    BY DEF Testimony
  <1>2. r.shown \o taken \in Seq(Text \cup {None})
    BY <1>1
  <1>3. new \in Testimony
    BY <1>1, <1>2 DEF Testimony
  <1>4. records' = [records EXCEPT ![s] = new]
    BY DEF EmitText
  <1> HIDE DEF new
  <1> QED BY <1>3, <1>4

LEMMA WireExitType ==
  ASSUME TypeOK, NEW s \in Streams, NEW c \in WireCause, WireExit(s, c)
  PROVE  TypeOK'
  <1>1. records' \in [Streams -> Testimony]
    <2>1. EmitStreamEnd(s, c, 0, <<>>) /\ records \in [Streams -> Testimony]
      BY DEF WireExit, TypeOK
    <2>2. <<>> \in Seq(Text \cup {None}) /\ c \in WireCause \cup FinalizedCause /\ 0 \in Nat
      OBVIOUS
    <2> QED BY <2>1, <2>2, EmitStreamEndType
  <1>2. [type |-> "wire", cause |-> c] \in AttemptEnd
    BY DEF AttemptEnd
  <1>3. end' \in [Streams -> AttemptEnd]
    BY <1>2 DEF WireExit, TypeOK
  <1>4. pc' \in [Streams -> PC]
    BY DEF WireExit, GoTo, TypeOK, PC
  <1> QED BY <1>1, <1>3, <1>4 DEF WireExit, TypeOK, attemptVars

(* Exits that finalize: the machine is taken, the verdict of finalize and  *)
(* a fresh machine are left.                                               *)
LEMMA FinalizedType ==
  ASSUME TypeOK, NEW s \in Streams, NEW new \in StreamState, NEW cause \in EndCause,
         Finalized(s, new, cause)
  PROVE  /\ st' \in [Streams -> StreamState]
         /\ end' \in [Streams -> AttemptEnd]
         /\ pc' \in [Streams -> PC]
  <1>1. Consumed(new) \in StreamState
    BY NewMachineType DEF Consumed, StreamState
  <1>2. [type |-> "complete", res |-> Finalize(new.machine, cause)] \in AttemptEnd
    <2>1. new.machine \in Machine
      BY DEF StreamState
    <2>2. Finalize(new.machine, cause) \in Outcome \cup MachineFault
      BY <2>1, FinalizeVerdict
    <2> QED BY <2>2 DEF AttemptEnd
  <1> QED BY <1>1, <1>2 DEF Finalized, GoTo, TypeOK, PC

LEMMA NextFrameType ==
  ASSUME TypeOK, NEW s \in Streams, NextFrame(s), frames[s] # <<>>
  PROVE  frames' \in [Streams -> Seq(Frame)] /\ pc' \in [Streams -> PC]
  <1>1. frames[s] \in Seq(Frame) /\ Tail(frames[s]) \in Seq(Frame)
    BY DEF TypeOK
  <1> QED BY <1>1 DEF NextFrame, GoTo, TypeOK, PC, Suspended

(* The payload of a data frame at the head of the queue.                   *)
LEMMA HeadPayload ==
  ASSUME TypeOK, NEW s \in Streams, frames[s] # <<>>, Head(frames[s]).kind = "data"
  PROVE  Head(frames[s]).payload \in Payload
  <1>1. Head(frames[s]) \in Frame
    BY DEF TypeOK
  <1> QED BY <1>1 DEF Frame

LEMMA HeardType ==
  ASSUME TypeOK, NEW s \in Streams, NEW p \in Payload,
         heard' = [heard EXCEPT ![s] = Append(heard[s], p)]
  PROVE  heard' \in [Streams -> Seq(Payload)]
  <1>1. Append(heard[s], p) \in Seq(Payload)
    BY DEF TypeOK
  <1> QED BY <1>1 DEF TypeOK

LEMMA ConcludeType ==
  ASSUME TypeOK, NEW s \in Streams, NEW v \in Verdict, Conclude(s, v),
         remaining' = remaining
  PROVE  TypeOK'
  <1>1. end' \in [Streams -> AttemptEnd]
    BY DEF Conclude, Running, AttemptEnd, TypeOK
  <1>2. pc' \in [Streams -> PC]
    BY DEF Conclude, GoTo, TypeOK, PC, Suspended
  <1>3. verdict' \in [Streams -> Verdict]
    BY DEF Conclude, TypeOK
  <1> QED BY <1>1, <1>2, <1>3 DEF Conclude, TypeOK, attemptVars

LEMMA InitType == Init => TypeOK
  <1> SUFFICES ASSUME Init PROVE TypeOK
    OBVIOUS
  <1>1. NewStream \in StreamState
    BY NewMachineType DEF NewStream, StreamState
  <1>2. Running \in AttemptEnd /\ Open \in Verdict /\ NoTestimony \in Testimony
    BY DEF Running, AttemptEnd, Open, Verdict, NoTestimony, Testimony
  <1>3. "idle" \in PC
    BY DEF PC, Suspended
  <1> QED BY <1>1, <1>2, <1>3, StrategyAssumption DEF Init, TypeOK

(* Steps that handle one data payload or the tail, whose exit finalizes.   *)
LEMMA HandleType ==
  ASSUME TypeOK, NEW s \in Streams, HandleContinue(s) \/ HandleDone(s) \/ HandleFault(s)
  PROVE  TypeOK'
  <1> DEFINE p == Head(frames[s]).payload
             r == OnInstallment(st[s], p)
  <1>1. frames[s] # <<>> /\ Head(frames[s]).kind = "data"
    BY DEF HandleContinue, HandleDone, HandleFault, AtFrame
  <1>2. p \in Payload
    BY <1>1, HeadPayload
  <1>3. st[s] \in StreamState
    BY DEF TypeOK
  <1>4. r.st \in StreamState /\ r.text \in Text \cup {None}
    <2> HIDE DEF p
    <2> QED BY <1>2, <1>3, OnInstallmentType
  <1>5. Tail(frames[s]) \in Seq(Frame)
    BY <1>1 DEF TypeOK
  <1>6. CASE HandleContinue(s)
    <2>1. /\ st' = [st EXCEPT ![s] = r.st]
          /\ heard' = [heard EXCEPT ![s] = Append(heard[s], p)]
          /\ NextFrame(s)
          /\ UNCHANGED <<send_buckets, remaining, cancelled, read_any, end, verdict>>
          /\ \E taken \in TrySend(r.text) : EmitText(s, taken)
      BY <1>6 DEF HandleContinue
    <2>2. heard' \in [Streams -> Seq(Payload)]
      <3> HIDE DEF p
      <3> QED BY <1>2, <2>1, HeardType
    <2>3. records' \in [Streams -> Testimony]
      <3> HIDE DEF r
      <3>1. PICK taken \in TrySend(r.text) : EmitText(s, taken)
        BY <2>1
      <3>2. taken \in Seq(Text \cup {None}) /\ records \in [Streams -> Testimony]
        BY <1>4, TrySendType DEF TypeOK
      <3> QED BY <3>1, <3>2, EmitTextType
    <2>4. frames' \in [Streams -> Seq(Frame)] /\ pc' \in [Streams -> PC]
      BY <1>1, <2>1, NextFrameType
    <2>5. st' \in [Streams -> StreamState]
      <3> HIDE DEF r
      <3> QED BY <1>4, <2>1 DEF TypeOK
    <2> QED BY <2>1, <2>2, <2>3, <2>4, <2>5 DEF TypeOK
  <1>7. CASE HandleDone(s) \/ HandleFault(s)
    <2>1. PICK cause \in EndCause, c \in FinalizedCause, errors \in {0, 1} :
            /\ Finalized(s, r.st, cause)
            /\ EmitStreamEnd(s, c, errors, <<>>)
      BY <1>7 DEF HandleDone, HandleFault, EndCause, FinalizedCause
    <2>2. /\ heard' = [heard EXCEPT ![s] = Append(heard[s], p)]
          /\ frames' = [frames EXCEPT ![s] = Tail(frames[s])]
          /\ UNCHANGED <<send_buckets, remaining, cancelled, read_any, verdict>>
      BY <1>7 DEF HandleDone, HandleFault
    <2>3. heard' \in [Streams -> Seq(Payload)]
      <3> HIDE DEF p
      <3> QED BY <1>2, <2>2, HeardType
    <2>4. records' \in [Streams -> Testimony]
      <3>1. records \in [Streams -> Testimony] /\ <<>> \in Seq(Text \cup {None}) /\ errors \in Nat
        BY DEF TypeOK
      <3> QED BY <2>1, <3>1, EmitStreamEndType
    <2>5. /\ st' \in [Streams -> StreamState] /\ end' \in [Streams -> AttemptEnd]
          /\ pc' \in [Streams -> PC]
      <3> HIDE DEF r
      <3> QED BY <1>4, <2>1, FinalizedType
    <2>6. frames' \in [Streams -> Seq(Frame)]
      BY <1>5, <2>2 DEF TypeOK
    <2> QED BY <2>2, <2>3, <2>4, <2>5, <2>6 DEF TypeOK
  <1> QED BY <1>6, <1>7

LEMMA CloseCauseType ==
  ASSUME NEW x \in StreamState PROVE CloseCause(x) \in WireCause \cup FinalizedCause
  BY DEF CloseCause, FinalizedCause

LEMMA PeerClosesType ==
  ASSUME TypeOK, NEW s \in Streams, PeerCloses(s) \/ \E p \in Payloads : PeerClosesOnTail(s, p)
  PROVE  TypeOK'
  <1>1. st[s] \in StreamState /\ records \in [Streams -> Testimony]
    BY DEF TypeOK
  <1>2. "stream_ended" \in EndCause
    BY DEF EndCause
  <1>3. CASE PeerCloses(s)
    <2>1. /\ Finalized(s, st[s], "stream_ended")
          /\ EmitStreamEnd(s, CloseCause(st[s]), 0, <<>>)
          /\ UNCHANGED <<send_buckets, remaining, cancelled, attemptVars, verdict>>
      BY <1>3 DEF PeerCloses
    <2>2. records' \in [Streams -> Testimony]
      <3>1. <<>> \in Seq(Text \cup {None}) /\ 0 \in Nat /\ CloseCause(st[s]) \in WireCause \cup FinalizedCause
        BY <1>1, CloseCauseType
      <3> QED BY <1>1, <2>1, <3>1, EmitStreamEndType
    <2>3. /\ st' \in [Streams -> StreamState] /\ end' \in [Streams -> AttemptEnd]
          /\ pc' \in [Streams -> PC]
      BY <1>1, <1>2, <2>1, FinalizedType
    <2> QED BY <2>1, <2>2, <2>3 DEF TypeOK, attemptVars
  <1>4. ASSUME NEW p \in Payloads, PeerClosesOnTail(s, p)
        PROVE  TypeOK'
    <2> DEFINE r == OnInstallment(st[s], p)
               errors == IF r.directive = "fault" THEN 1 ELSE 0
    <2>1. p \in Payload
      BY DriverAssumption
    <2>2. r.st \in StreamState /\ r.text \in Text \cup {None}
      BY <1>1, <2>1, OnInstallmentType
    <2>3. PICK taken \in TrySend(r.text) :
            /\ Finalized(s, r.st, "stream_ended")
            /\ EmitStreamEnd(s, CloseCause(r.st), errors, taken)
            /\ heard' = [heard EXCEPT ![s] = Append(heard[s], p)]
            /\ UNCHANGED <<send_buckets, remaining, cancelled, frames, read_any, verdict>>
      BY <1>4 DEF PeerClosesOnTail
    <2>4. errors \in Nat
      OBVIOUS
    <2> HIDE DEF errors, r
    <2>5. records' \in [Streams -> Testimony]
      <3>1. taken \in Seq(Text \cup {None}) /\ CloseCause(r.st) \in WireCause \cup FinalizedCause
        BY <2>2, TrySendType, CloseCauseType
      <3> QED BY <1>1, <2>3, <2>4, <3>1, EmitStreamEndType
    <2>6. /\ st' \in [Streams -> StreamState] /\ end' \in [Streams -> AttemptEnd]
          /\ pc' \in [Streams -> PC]
      BY <1>2, <2>2, <2>3, FinalizedType
    <2>7. heard' \in [Streams -> Seq(Payload)]
      BY <2>1, <2>3, HeardType
    <2> QED BY <2>3, <2>5, <2>6, <2>7 DEF TypeOK
  <1> QED BY <1>3, <1>4

(* The verdicts the strategy gives.                                        *)
LEMMA CommitVerdict ==
  ASSUME TypeOK, NEW s \in Streams, IsCommit(end[s])
  PROVE  [type |-> "committed", outcome |-> end[s].res] \in Verdict
  <1>1. end[s] \in AttemptEnd
    BY DEF TypeOK
  <1>2. end[s].type = "complete" /\ end[s].res.type = "outcome"
    BY DEF IsCommit
  <1>3. end[s].res \in Outcome \cup MachineFault
    BY <1>1, <1>2 DEF AttemptEnd
  <1>4. end[s].res \in Outcome
    BY <1>2, <1>3 DEF MachineFault
  <1> QED BY <1>4 DEF Verdict

(* Once run_attempt has returned, how it returned is known.                *)
HasEnd == \A s \in Streams : pc[s] \in {"ended", "strategy"} => end[s].type # "running"

LEMMA GiveUpFault ==
  ASSUME TypeOK, HasEnd, NEW s \in Streams, GiveUp(s)
  PROVE  (IF end[s].type = "wire" THEN WireFault(end[s].cause) ELSE end[s].res.fault)
           \in FaultName \ {"admission_denied", "cancelled"}
  <1>1. CASE end[s].type = "wire"
    <2>1. WireFault(end[s].cause) \in FaultName \ {"admission_denied", "cancelled"}
      BY DEF WireFault, FaultName
    <2> QED BY <1>1, <2>1
  <1>2. CASE end[s].type = "complete"
    <2>1. end[s].res \in MachineFault
      BY <1>2 DEF GiveUp, Consults, IsCommit, TypeOK, AttemptEnd, Outcome
    <2> QED BY <1>2, <2>1 DEF MachineFault, FaultName
  <1>3. end[s].type # "running"
    BY DEF GiveUp, Consults, At, HasEnd
  <1> QED BY <1>1, <1>2, <1>3 DEF TypeOK, AttemptEnd

LEMMA StepType ==
  ASSUME TypeOK, HasEnd, [Next]_vars
  PROVE  TypeOK'
  <1>1. ASSUME NEW s \in Streams, Own(s)
        PROVE  TypeOK'
    <2>1. ASSUME Admit(s) \/ Deny(s)
          PROVE  TypeOK'
      <3>1. BeginAttempt(st[s]) \in StreamState
        <4>1. st[s] \in StreamState
          BY DEF TypeOK
        <4> QED BY <4>1, BeginAttemptType
      <3>2. st' = [st EXCEPT ![s] = BeginAttempt(st[s])]
        BY <2>1 DEF Admit, Deny
      <3>3. st' \in [Streams -> StreamState]
        BY <3>1, <3>2 DEF TypeOK
      <3>4. pc' \in [Streams -> PC]
        BY <2>1 DEF Admit, Deny, GoTo, TypeOK, PC, Suspended
      <3>5. CASE Admit(s)
        BY <3>3, <3>4, <3>5 DEF Admit, AcquireSendBucket, TypeOK
      <3>6. CASE Deny(s)
        <4>1. [type |-> "failed", fault |-> "admission_denied"] \in Verdict
          BY DEF Verdict, FaultName
        <4> QED BY <3>3, <3>4, <3>6, <4>1 DEF Deny, DenySendBucket, TypeOK, attemptVars
      <3> QED BY <2>1, <3>5, <3>6
    <2>2. ASSUME PassFrame(s)
          PROVE  TypeOK'
      <3>1. frames[s] # <<>> /\ NextFrame(s)
        BY <2>2 DEF PassFrame, AtFrame
      <3>2. frames' \in [Streams -> Seq(Frame)] /\ pc' \in [Streams -> PC]
        BY <3>1, NextFrameType
      <3> QED BY <2>2, <3>2 DEF PassFrame, TypeOK
    <2>3. ASSUME ReturnBucket(s)
          PROVE  TypeOK'
      <3>1. pc' \in [Streams -> PC]
        BY <2>3 DEF ReturnBucket, GoTo, TypeOK, PC
      <3>2. <<>> \in Seq(Frame) /\ frames' \in [Streams -> Seq(Frame)]
        BY <2>3 DEF ReturnBucket, TypeOK
      <3>3. read_any' \in [Streams -> BOOLEAN]
        BY <2>3 DEF ReturnBucket, TypeOK
      <3>4. send_buckets' \in Nat
        BY <2>3 DEF ReturnBucket, ReturnSendBucket, TypeOK
      <3> QED BY <2>3, <3>1, <3>2, <3>3, <3>4 DEF ReturnBucket, TypeOK
    <2>4. ASSUME Commit(s)
          PROVE  TypeOK'
      BY <2>4, CommitVerdict, ConcludeType DEF Commit
    <2>5. ASSUME GiveUpCancelled(s)
          PROVE  TypeOK'
      <3>1. [type |-> "failed", fault |-> "cancelled"] \in Verdict
        BY DEF Verdict, FaultName
      <3> QED BY <2>5, <3>1, ConcludeType DEF GiveUpCancelled
    <2>6. ASSUME Retry(s)
          PROVE  TypeOK'
      <3>1. end' \in [Streams -> AttemptEnd]
        BY <2>6 DEF Retry, Running, AttemptEnd, TypeOK
      <3>2. pc' \in [Streams -> PC]
        BY <2>6 DEF Retry, GoTo, TypeOK, PC
      <3>3. remaining' \in [Streams -> Nat]
        BY <2>6 DEF Retry, OnWireFault, TypeOK
      <3> QED BY <2>6, <3>1, <3>2, <3>3 DEF Retry, TypeOK, attemptVars
    <2>7. ASSUME Failover(s)
          PROVE  TypeOK'
      <3>1. [type |-> "failover", attempts_here |-> st[s].attempt] \in Verdict
        BY DEF Verdict, TypeOK, StreamState
      <3> QED BY <2>7, <3>1, ConcludeType DEF Failover
    <2>8. ASSUME GiveUp(s)
          PROVE  TypeOK'
      <3> DEFINE fault == IF end[s].type = "wire" THEN WireFault(end[s].cause)
                                                  ELSE end[s].res.fault
      <3>1. fault \in FaultName
        BY <2>8, GiveUpFault
      <3>2. [type |-> "failed", fault |-> fault] \in Verdict
        <4> HIDE DEF fault
        <4> QED BY <3>1 DEF Verdict
      <3> QED BY <2>8, <3>2, ConcludeType DEF GiveUp
    <2> QED BY <1>1, <2>1, <2>2, <2>3, <2>4, <2>5, <2>6, <2>7, <2>8, HandleType DEF Own
  <1>2. ASSUME NEW s \in Streams, Clock(s)
        PROVE  TypeOK'
    <2>1. \E c \in WireCause : WireExit(s, c)
      BY <1>2 DEF Clock, HeaderBackstop, BodyRead, OverallDeadline, WireCause, BodyCause
    <2> QED BY <2>1, WireExitType
  <1>3. ASSUME NEW s \in Streams, Environment(s)
        PROVE  TypeOK'
    <2>1. CASE BeginTurn(s)
      <3>1. NewStream \in StreamState
        BY NewMachineType DEF NewStream, StreamState
      <3> QED BY <2>1, <3>1, StrategyAssumption DEF BeginTurn, GoTo, TypeOK, PC, attemptVars
    <2>2. CASE Cancel(s)
      BY <2>2 DEF Cancel, TypeOK, attemptVars
    <2>3. CASE \E next \in {"body", "read"} : Respond(s, next)
      BY <2>3 DEF Respond, GoTo, TypeOK, PC, Suspended, attemptVars
    <2>4. CASE \/ DialCancelled(s) \/ ConnectError(s) \/ ReadCancelled(s) \/ Starved(s)
               \/ Stall(s) \/ TransportError(s) \/ Overflow(s)
      <3>1. \E c \in WireCause : WireExit(s, c)
        BY <2>4 DEF DialCancelled, ConnectError, ReadCancelled, Starved, Stall, StallCause,
                    TransportError, Overflow, WireCause
      <3> QED BY <3>1, WireExitType
    <2>5. CASE \E fs \in Reads : Read(s, fs)
      <3>1. PICK fs \in Reads : Read(s, fs)
        BY <2>5
      <3>2. fs \in Seq(Frame)
        <4>1. PICK n \in 0..MaxFrames : fs \in [1..n -> PeerFrames]
          BY DEF Reads
        <4>2. PeerFrames \subseteq Frame
          BY DriverAssumption DEF PeerFrames, Frame
        <4>3. n \in Nat /\ fs \in [1..n -> Frame]
          BY <4>1, <4>2, DriverAssumption
        <4> QED BY <4>3
      <3>3. frames' \in [Streams -> Seq(Frame)]
        BY <3>1, <3>2 DEF Read, TypeOK
      <3>4. pc' \in [Streams -> PC]
        BY <3>1 DEF Read, GoTo, TypeOK, PC, Suspended
      <3> QED BY <3>1, <3>3, <3>4 DEF Read, TypeOK
    <2> QED BY <1>3, <2>1, <2>2, <2>3, <2>4, <2>5, PeerClosesType DEF Environment
  <1>4. ASSUME UNCHANGED vars
        PROVE  TypeOK'
    BY <1>4 DEF vars, attemptVars, TypeOK
  <1> QED BY <1>1, <1>2, <1>3, <1>4 DEF Next, AllDone

LEMMA StepHasEnd ==
  ASSUME TypeOK, HasEnd, [Next]_vars
  PROVE  HasEnd'
  <1> USE DEF TypeOK, HasEnd, GoTo, attemptVars
  <1>1. ASSUME NEW s \in Streams, Own(s)
        PROVE  HasEnd'
    <2>1. CASE Admit(s) \/ Deny(s) \/ PassFrame(s) \/ HandleContinue(s)
      BY <2>1 DEF Admit, Deny, PassFrame, HandleContinue, NextFrame, Conclude
    <2>2. CASE HandleDone(s) \/ HandleFault(s)
      <3>1. PICK new, cause : Finalized(s, new, cause)
        BY <2>2 DEF HandleDone, HandleFault
      <3> QED BY <3>1 DEF Finalized
    <2>3. CASE ReturnBucket(s)
      BY <2>3 DEF ReturnBucket, At
    <2>4. CASE Commit(s) \/ GiveUpCancelled(s) \/ Retry(s) \/ Failover(s) \/ GiveUp(s)
      BY <2>4 DEF Commit, GiveUpCancelled, Retry, Failover, GiveUp, Conclude
    <2> QED BY <1>1, <2>1, <2>2, <2>3, <2>4 DEF Own
  <1>2. ASSUME NEW s \in Streams, NEW c \in WireCause, WireExit(s, c)
        PROVE  HasEnd'
    BY <1>2 DEF WireExit
  <1>3. ASSUME NEW s \in Streams, Clock(s)
        PROVE  HasEnd'
    <2>1. \E c \in WireCause : WireExit(s, c)
      BY <1>3 DEF Clock, HeaderBackstop, BodyRead, OverallDeadline, WireCause, BodyCause
    <2> QED BY <1>2, <2>1
  <1>4. ASSUME NEW s \in Streams, Environment(s)
        PROVE  HasEnd'
    <2>1. CASE BeginTurn(s) \/ Cancel(s)
      BY <2>1 DEF BeginTurn, Cancel
    <2>2. CASE \E next \in {"body", "read"} : Respond(s, next)
      BY <2>2 DEF Respond
    <2>3. CASE \/ DialCancelled(s) \/ ConnectError(s) \/ ReadCancelled(s) \/ Starved(s)
               \/ Stall(s) \/ TransportError(s) \/ Overflow(s)
      <3>1. \E c \in WireCause : WireExit(s, c)
        BY <2>3 DEF DialCancelled, ConnectError, ReadCancelled, Starved, Stall, StallCause,
                    TransportError, Overflow, WireCause
      <3> QED BY <1>2, <3>1
    <2>4. CASE \E fs \in Reads : Read(s, fs)
      BY <2>4 DEF Read
    <2>5. CASE PeerCloses(s) \/ \E p \in Payloads : PeerClosesOnTail(s, p)
      <3>1. PICK new, cause : Finalized(s, new, cause)
        BY <2>5 DEF PeerCloses, PeerClosesOnTail
      <3> QED BY <3>1 DEF Finalized
    <2> QED BY <1>4, <2>1, <2>2, <2>3, <2>4, <2>5 DEF Environment
  <1>5. ASSUME UNCHANGED vars
        PROVE  HasEnd'
    BY <1>5 DEF vars
  <1> QED BY <1>1, <1>3, <1>4, <1>5 DEF Next, AllDone

LEMMA Typed == Spec => [](TypeOK /\ HasEnd)
  <1>1. Init => HasEnd
    BY DEF Init, HasEnd
  <1> QED BY <1>1, InitType, StepType, StepHasEnd, PTL DEF Spec

(* The type invariant of the Driver.                                       *)
THEOREM TypeCorrect == Spec => []TypeOK
  BY Typed, PTL

-----------------------------------------------------------------------------
(* For control, every step is one of a few shapes: a step inside an        *)
(* attempt, an exit of run_attempt, a step of execute_turn, or one that    *)
(* only the canceller notices.                                             *)

InFlight == {"dial", "body", "read", "frames"}

SameAttempts == \A t \in Streams : st'[t].attempt = st[t].attempt

Inner(s) ==
  /\ CanRun(s)
  /\ pc[s] \in InFlight
  /\ \E l \in InFlight : GoTo(s, l)
  /\ UNCHANGED <<send_buckets, remaining, cancelled, end, verdict>>
  /\ SameAttempts
  /\ \A t \in Streams : /\ records'[t].ends = records[t].ends
                        /\ records'[t].last_end = records[t].last_end

ExitWith(s, e, c) ==
  /\ e \in AttemptEnd /\ e.type # "running"
  /\ IsCancel(e) <=> c = "cancelled"
  /\ c = "cancelled" => cancelled[s]
  /\ end' = [end EXCEPT ![s] = e]
  /\ records'[s].ends = records[s].ends + 1
  /\ records'[s].last_end = c

Exit(s) ==
  /\ CanRun(s)
  /\ pc[s] \in InFlight
  /\ GoTo(s, "ended")
  /\ UNCHANGED <<send_buckets, remaining, cancelled, verdict>>
  /\ SameAttempts
  /\ \E e, c : ExitWith(s, e, c)
  /\ \A t \in Streams \ {s} : records'[t] = records[t]

Strategy(s) == Commit(s) \/ GiveUpCancelled(s) \/ Retry(s) \/ Failover(s) \/ GiveUp(s)

Quiet == /\ UNCHANGED <<send_buckets, pc, st, remaining, end, verdict, records>>
         /\ UNCHANGED cancelled \/ \E s \in Streams : Cancel(s)

LEMMA WireExitShape ==
  ASSUME TypeOK, NEW s \in Streams, NEW c \in WireCause, WireExit(s, c),
         CanRun(s), pc[s] \in InFlight, c = "cancelled" => cancelled[s]
  PROVE  Exit(s)
  <1> DEFINE e == [type |-> "wire", cause |-> c]
  <1>1. e \in AttemptEnd /\ e.type # "running" /\ (IsCancel(e) <=> c = "cancelled")
    BY DEF AttemptEnd, IsCancel
  <1>2. end' = [end EXCEPT ![s] = e]
    BY DEF WireExit
  <1>3. /\ records'[s].ends = records[s].ends + 1
        /\ records'[s].last_end = c
        /\ \A t \in Streams \ {s} : records'[t] = records[t]
    BY DEF WireExit, EmitStreamEnd, TypeOK
  <1> HIDE DEF e
  <1>4. ExitWith(s, e, c)
    BY <1>1, <1>2, <1>3 DEF ExitWith
  <1> QED BY <1>3, <1>4 DEF Exit, WireExit, SameAttempts

(* The exits that finalize, given the stream state they finalize.          *)
LEMMA FinalizedShape ==
  ASSUME TypeOK, NEW s \in Streams, NEW new \in StreamState, NEW cause \in EndCause,
         NEW c \in FinalizedCause, NEW errors \in Nat, NEW taken,
         Finalized(s, new, cause), EmitStreamEnd(s, c, errors, taken),
         new.attempt = st[s].attempt, CanRun(s), pc[s] \in InFlight,
         UNCHANGED <<send_buckets, remaining, cancelled, verdict>>
  PROVE  Exit(s)
  <1> DEFINE e == [type |-> "complete", res |-> Finalize(new.machine, cause)]
  <1>1. e \in AttemptEnd
    <2>1. new.machine \in Machine
      BY DEF StreamState
    <2>2. Finalize(new.machine, cause) \in Outcome \cup MachineFault
      BY <2>1, FinalizeVerdict
    <2> QED BY <2>2 DEF AttemptEnd
  <1>2. e.type # "running" /\ (IsCancel(e) <=> c = "cancelled") /\ c # "cancelled"
    BY DEF IsCancel, FinalizedCause
  <1>3. end' = [end EXCEPT ![s] = e] /\ GoTo(s, "ended")
    BY DEF Finalized
  <1>4. /\ records'[s].ends = records[s].ends + 1
        /\ records'[s].last_end = c
        /\ \A t \in Streams \ {s} : records'[t] = records[t]
    BY DEF EmitStreamEnd, TypeOK
  <1>5. SameAttempts
    <2>1. Consumed(new).attempt = st[s].attempt
      BY DEF Consumed, StreamState
    <2>2. st' = [st EXCEPT ![s] = Consumed(new)]
      BY DEF Finalized
    <2> QED BY <2>1, <2>2 DEF SameAttempts, TypeOK
  <1> HIDE DEF e
  <1>6. ExitWith(s, e, c)
    BY <1>1, <1>2, <1>3, <1>4 DEF ExitWith
  <1> QED BY <1>3, <1>4, <1>5, <1>6 DEF Exit

LEMMA HandleShape ==
  ASSUME TypeOK, NEW s \in Streams, HandleContinue(s) \/ HandleDone(s) \/ HandleFault(s)
  PROVE  Inner(s) \/ Exit(s)
  <1> DEFINE p == Head(frames[s]).payload
             r == OnInstallment(st[s], p)
  <1>1. CanRun(s) /\ pc[s] = "frames" /\ frames[s] # <<>> /\ Head(frames[s]).kind = "data"
    BY DEF HandleContinue, HandleDone, HandleFault, AtFrame, At
  <1>2. p \in Payload
    BY <1>1, HeadPayload
  <1>3. st[s] \in StreamState
    BY DEF TypeOK
  <1>4. r.st \in StreamState /\ r.st.attempt = st[s].attempt
    <2> HIDE DEF p
    <2> QED BY <1>2, <1>3, OnInstallmentType
  <1>5. CASE HandleContinue(s)
    <2>1. /\ st' = [st EXCEPT ![s] = r.st]
          /\ NextFrame(s) /\ UNCHANGED <<send_buckets, remaining, cancelled, end, verdict>>
          /\ \E taken : EmitText(s, taken)
      BY <1>5 DEF HandleContinue
    <2> HIDE DEF r
    <2>2. SameAttempts
      BY <1>4, <2>1 DEF SameAttempts, TypeOK
    <2>3. \A t \in Streams : /\ records'[t].ends = records[t].ends
                             /\ records'[t].last_end = records[t].last_end
      <3>1. records[s] \in Testimony
        BY DEF TypeOK
      <3> QED BY <2>1, <3>1 DEF EmitText, TypeOK, Testimony
    <2>4. \E l \in InFlight : GoTo(s, l)
      BY <2>1 DEF NextFrame, InFlight
    <2> QED BY <1>1, <2>1, <2>2, <2>3, <2>4 DEF Inner, InFlight
  <1>6. CASE HandleDone(s) \/ HandleFault(s)
    <2>1. PICK cause \in EndCause, c \in FinalizedCause, errors \in Nat :
            Finalized(s, r.st, cause) /\ EmitStreamEnd(s, c, errors, <<>>)
      BY <1>6 DEF HandleDone, HandleFault, EndCause, FinalizedCause
    <2>2. UNCHANGED <<send_buckets, remaining, cancelled, verdict>>
      BY <1>6 DEF HandleDone, HandleFault
    <2>3. pc[s] \in InFlight
      BY <1>1 DEF InFlight
    <2> HIDE DEF r
    <2> QED BY <1>1, <1>4, <2>1, <2>2, <2>3, FinalizedShape
  <1> QED BY <1>5, <1>6

LEMMA PeerClosesShape ==
  ASSUME TypeOK, NEW s \in Streams, PeerCloses(s) \/ \E p \in Payloads : PeerClosesOnTail(s, p)
  PROVE  Exit(s)
  <1>1. CanRun(s) /\ pc[s] \in InFlight /\ st[s] \in StreamState
    BY DEF PeerCloses, PeerClosesOnTail, At, InFlight, TypeOK
  <1>2. "stream_ended" \in EndCause /\ 0 \in Nat /\ 1 \in Nat
    BY DEF EndCause
  <1>3. \A x : CloseCause(x) \in FinalizedCause
    BY DEF CloseCause, FinalizedCause
  <1>4. CASE PeerCloses(s)
    BY <1>1, <1>2, <1>3, <1>4, FinalizedShape DEF PeerCloses
  <1>5. ASSUME NEW p \in Payloads, PeerClosesOnTail(s, p)
        PROVE  Exit(s)
    <2> DEFINE r == OnInstallment(st[s], p)
               errors == IF r.directive = "fault" THEN 1 ELSE 0
    <2>1. p \in Payload
      BY DriverAssumption
    <2>2. r.st \in StreamState /\ r.st.attempt = st[s].attempt
      BY <1>1, <2>1, OnInstallmentType
    <2>3. PICK taken :
            /\ Finalized(s, r.st, "stream_ended")
            /\ EmitStreamEnd(s, CloseCause(r.st), errors, taken)
            /\ UNCHANGED <<send_buckets, remaining, cancelled, verdict>>
      BY <1>5 DEF PeerClosesOnTail
    <2>4. errors \in Nat
      OBVIOUS
    <2> HIDE DEF errors, r
    <2>5. CloseCause(r.st) \in FinalizedCause
      BY <1>3
    <2> QED BY <1>1, <1>2, <2>2, <2>3, <2>4, <2>5, FinalizedShape
  <1> QED BY <1>4, <1>5

LEMMA StepShapes ==
  ASSUME TypeOK, [Next]_vars
  PROVE  \/ \E s \in Streams : \/ BeginTurn(s) \/ Admit(s) \/ Deny(s) \/ Inner(s) \/ Exit(s)
                               \/ ReturnBucket(s) \/ Strategy(s)
         \/ Quiet
  <1>1. ASSUME NEW s \in Streams, PassFrame(s)
        PROVE  Inner(s)
    BY <1>1 DEF PassFrame, AtFrame, At, NextFrame, Inner, InFlight, SameAttempts
  <1>2. ASSUME NEW s \in Streams, Own(s)
        PROVE  \/ Admit(s) \/ Deny(s) \/ Inner(s) \/ Exit(s) \/ ReturnBucket(s) \/ Strategy(s)
    BY <1>1, <1>2, HandleShape DEF Own, Strategy
  <1>3. ASSUME NEW s \in Streams, Clock(s)
        PROVE  Exit(s)
    <2>1. PICK c \in WireCause : WireExit(s, c) /\ c # "cancelled" /\ CanRun(s) /\ pc[s] \in InFlight
      BY <1>3 DEF Clock, HeaderBackstop, BodyRead, OverallDeadline, WireCause, BodyCause, At,
                  InFlight
    <2> QED BY <2>1, WireExitShape
  <1>4. ASSUME NEW s \in Streams, Environment(s)
        PROVE  BeginTurn(s) \/ Inner(s) \/ Exit(s) \/ Quiet
    <2>1. CASE BeginTurn(s)
      BY <2>1
    <2>2. CASE Cancel(s)
      BY <2>2 DEF Cancel, Quiet
    <2>3. CASE \E next \in {"body", "read"} : Respond(s, next)
      BY <2>3 DEF Respond, At, Inner, InFlight, SameAttempts, attemptVars
    <2>4. CASE \/ DialCancelled(s) \/ ConnectError(s) \/ ReadCancelled(s) \/ Starved(s)
               \/ Stall(s) \/ TransportError(s) \/ Overflow(s)
      <3>1. PICK c \in WireCause : /\ WireExit(s, c) /\ (c = "cancelled" => cancelled[s])
                                   /\ CanRun(s) /\ pc[s] \in InFlight
        BY <2>4 DEF DialCancelled, ConnectError, ReadCancelled, Starved, Stall, StallCause,
                    TransportError, Overflow, WireCause, At, InFlight
      <3> QED BY <3>1, WireExitShape
    <2>5. CASE \E fs \in Reads : Read(s, fs)
      BY <2>5 DEF Read, At, Inner, InFlight, SameAttempts
    <2> QED BY <1>4, <2>1, <2>2, <2>3, <2>4, <2>5, PeerClosesShape DEF Environment
  <1>5. UNCHANGED vars => Quiet
    BY DEF vars, Quiet
  <1> QED BY <1>2, <1>3, <1>4, <1>5 DEF Next, AllDone

-----------------------------------------------------------------------------
(* The pool: only an admission and a return move a slot.                   *)

LEMMA HoldersFinite == IsFiniteSet(Holders)
  BY FS_Subset, DriverAssumption DEF Holders

LEMMA InitPool == Init => PoolConserved
  <1> SUFFICES ASSUME Init PROVE PoolConserved
    OBVIOUS
  <1>1. Holders = {}
    BY DEF Init, Holders
  <1>2. Cardinality(Holders) = 0
    BY <1>1, FS_EmptySet
  <1> QED BY <1>2, StrategyAssumption DEF Init, PoolConserved

LEMMA StepPool ==
  ASSUME TypeOK, PoolConserved, [Next]_vars
  PROVE  PoolConserved'
  <1> USE DEF TypeOK
  <1>1. ASSUME NEW s \in Streams, Admit(s)
        PROVE  PoolConserved'
    <2>1. s \notin Holders /\ Holders' = Holders \cup {s}
      BY <1>1 DEF Admit, At, GoTo, Holders
    <2>2. Cardinality(Holders') = Cardinality(Holders) + 1
      BY <2>1, HoldersFinite, FS_AddElement
    <2>3. Cardinality(Holders) \in Nat
      BY HoldersFinite, FS_CardinalityType
    <2>4. send_buckets' = send_buckets - 1
      BY <1>1 DEF Admit, AcquireSendBucket
    <2> QED BY <2>2, <2>3, <2>4 DEF PoolConserved
  <1>2. ASSUME NEW s \in Streams, ReturnBucket(s)
        PROVE  PoolConserved'
    <2>1. s \in Holders /\ Holders' = Holders \ {s}
      BY <1>2 DEF ReturnBucket, At, GoTo, Holders
    <2>2. Cardinality(Holders') = Cardinality(Holders) - 1
      BY <2>1, HoldersFinite, FS_RemoveElement
    <2>3. Cardinality(Holders) \in Nat
      BY HoldersFinite, FS_CardinalityType
    <2>4. send_buckets' = send_buckets + 1
      BY <1>2 DEF ReturnBucket, ReturnSendBucket
    <2> QED BY <2>2, <2>3, <2>4 DEF PoolConserved
  <1>3. ASSUME NEW s \in Streams,
               BeginTurn(s) \/ Deny(s) \/ Inner(s) \/ Exit(s) \/ Strategy(s) \/ Quiet
        PROVE  PoolConserved'
    <2>1. send_buckets' = send_buckets
      BY <1>3 DEF BeginTurn, Deny, DenySendBucket, Inner, Exit, Strategy, Commit, GiveUpCancelled,
                  Retry, Failover, GiveUp, Conclude, Quiet
    <2>2. Holders' = Holders
      <3>1. CASE BeginTurn(s) \/ Deny(s) \/ Strategy(s)
        BY <3>1 DEF BeginTurn, Deny, Strategy, Commit, GiveUpCancelled, Retry, Failover, GiveUp,
                    Consults, Conclude, At, GoTo, Holders
      <3>2. CASE Inner(s) \/ Exit(s)
        BY <3>2 DEF Inner, Exit, GoTo, InFlight, Holders
      <3>3. CASE Quiet
        BY <3>3 DEF Quiet, Holders
      <3> QED BY <1>3, <3>1, <3>2, <3>3
    <2> QED BY <2>1, <2>2 DEF PoolConserved
  <1>4. Quiet => PoolConserved'
    BY DEF Quiet, PoolConserved, Holders
  <1> QED BY <1>1, <1>2, <1>3, <1>4, StepShapes

(* No exit of run_attempt loses a slot of the pool or mints one.           *)
THEOREM PoolSafe == Spec => []PoolConserved
  BY Typed, InitPool, StepPool, PTL DEF Spec

(* Never more attempts on the wire than the pool has slots: what the sum   *)
(* alone does not say, as its free slots could go below zero.              *)
THEOREM FloorSafe == Spec => []NeverOversubscribed
  <1>1. TypeOK /\ PoolConserved => NeverOversubscribed
    <2>1. Cardinality(Holders) \in Nat
      BY HoldersFinite, FS_CardinalityType
    <2> QED BY <2>1, StrategyAssumption DEF TypeOK, PoolConserved, NeverOversubscribed
  <1> QED BY <1>1, TypeCorrect, PoolSafe, PTL

-----------------------------------------------------------------------------
(* The ledger of a turn, point by point: what has been spent and what is   *)
(* left always come to the allowance, and the StreamEnd records follow the *)
(* attempts.                                                               *)

DoneLedger(s) ==
  LET spent == records[s].ends
  IN  IF IsDenied(verdict[s])
        THEN spent + 1 = st[s].attempt /\ spent =< Allowance
        ELSE /\ spent = st[s].attempt /\ spent =< Allowance + 1
             /\ verdict[s].type = "failover" =>
                  KnowsFailover /\ spent = Allowance + 1 /\ verdict[s].attempts_here = spent
             /\ verdict[s].type = "failed" /\ ~IsCancelled(verdict[s]) =>
                  ~KnowsFailover /\ spent = Allowance + 1

Ledger(s) ==
  LET spent == records[s].ends
      tried == st[s].attempt
  IN  /\ pc[s] # "done" => verdict[s].type = "open"
      /\ pc[s] = "idle" => spent = 0 /\ tried = 0
      /\ pc[s] = "attempt" => tried + remaining[s] = Allowance /\ spent = tried
      /\ pc[s] \in InFlight => tried + remaining[s] = Allowance + 1 /\ spent + 1 = tried
      /\ pc[s] \in {"ended", "strategy"} => tried + remaining[s] = Allowance + 1 /\ spent = tried
      /\ pc[s] = "done" => DoneLedger(s)

Ledgers == \A s \in Streams : Ledger(s)

LEMMA InitLedger == Init => Ledgers
  BY DEF Init, Ledgers, Ledger, InFlight, NewStream, NoTestimony, Open

(* What the ledger of a turn looks at is as it was.                        *)
SameLedger(s) == /\ pc'[s] = pc[s] /\ remaining'[s] = remaining[s] /\ verdict'[s] = verdict[s]
                 /\ st'[s].attempt = st[s].attempt /\ records'[s].ends = records[s].ends

LEMMA LedgerKept ==
  ASSUME Ledgers, NEW s \in Streams, SameLedger(s)
  PROVE  Ledger(s)'
  BY DEF Ledgers, Ledger, DoneLedger, SameLedger

(* So a step of one turn only has to account for that turn.                *)
LEMMA LedgerOfOne ==
  ASSUME Ledgers, NEW s \in Streams, Ledger(s)', \A t \in Streams \ {s} : SameLedger(t)
  PROVE  Ledgers'
  BY LedgerKept DEF Ledgers

LEMMA StepLedger ==
  ASSUME TypeOK, HasEnd, Ledgers, [Next]_vars
  PROVE  Ledgers'
  <1>1. \A t \in Streams : /\ st[t].attempt \in Nat /\ records[t].ends \in Nat
                           /\ remaining[t] \in Nat /\ Allowance \in Nat
    BY StrategyAssumption DEF TypeOK, StreamState, Testimony
  <1>2. ASSUME NEW s \in Streams, BeginTurn(s)
        PROVE  Ledgers'
    BY <1>1, <1>2 DEF BeginTurn, At, GoTo, NewStream, Ledgers, Ledger, DoneLedger, InFlight, TypeOK
  <1>3. ASSUME NEW s \in Streams, Admit(s) \/ Deny(s)
        PROVE  Ledgers'
    <2>1. st'[s].attempt = st[s].attempt + 1 /\ \A t \in Streams \ {s} : st'[t] = st[t]
      <3>1. st' = [st EXCEPT ![s] = BeginAttempt(st[s])] /\ st[s] \in StreamState
        BY <1>3 DEF Admit, Deny, TypeOK
      <3> QED BY <3>1, BeginAttemptType DEF TypeOK
    <2>2. Ledger(s) /\ pc[s] = "attempt"
      BY <1>3 DEF Admit, Deny, At, Ledgers
    <2>3. CASE Admit(s)
      <3>1. /\ pc'[s] = "dial" /\ remaining' = remaining /\ records' = records
            /\ verdict' = verdict /\ \A t \in Streams \ {s} : pc'[t] = pc[t]
        BY <2>3 DEF Admit, GoTo, TypeOK
      <3>2. Ledger(s)'
        BY <1>1, <2>1, <2>2, <3>1 DEF Ledger, InFlight
      <3>3. \A t \in Streams \ {s} : SameLedger(t)
        BY <2>1, <3>1 DEF SameLedger
      <3> QED BY <3>2, <3>3, LedgerOfOne
    <2>4. CASE Deny(s)
      <3>1. /\ pc'[s] = "done" /\ remaining' = remaining /\ records' = records
            /\ verdict'[s] = [type |-> "failed", fault |-> "admission_denied"]
            /\ \A t \in Streams \ {s} : pc'[t] = pc[t] /\ verdict'[t] = verdict[t]
        BY <2>4 DEF Deny, GoTo, TypeOK
      <3>2. IsDenied(verdict[s])'
        BY <3>1 DEF IsDenied
      <3>3. records[s].ends + 1 = st'[s].attempt /\ records[s].ends =< Allowance
        BY <1>1, <2>1, <2>2 DEF Ledger, InFlight
      <3>4. Ledger(s)'
        BY <1>1, <3>1, <3>2, <3>3 DEF Ledger, DoneLedger, InFlight
      <3>5. \A t \in Streams \ {s} : SameLedger(t)
        BY <2>1, <3>1 DEF SameLedger
      <3> QED BY <3>4, <3>5, LedgerOfOne
    <2> QED BY <1>3, <2>3, <2>4
  <1>4. ASSUME NEW s \in Streams, Inner(s)
        PROVE  Ledgers'
    <2>1. /\ pc[s] \in InFlight /\ pc'[s] \in InFlight /\ Ledger(s)
          /\ \A t \in Streams \ {s} : pc'[t] = pc[t]
      BY <1>4 DEF Inner, GoTo, Ledgers, TypeOK
    <2>2. /\ remaining' = remaining /\ verdict' = verdict
          /\ \A t \in Streams : /\ st'[t].attempt = st[t].attempt
                                /\ records'[t].ends = records[t].ends
      BY <1>4 DEF Inner, SameAttempts
    <2>3. Ledger(s)'
      BY <1>1, <2>1, <2>2 DEF Ledger, InFlight
    <2>4. \A t \in Streams \ {s} : SameLedger(t)
      BY <2>1, <2>2 DEF SameLedger
    <2> QED BY <2>3, <2>4, LedgerOfOne
  <1>5. ASSUME NEW s \in Streams, Exit(s)
        PROVE  Ledgers'
    <2>1. /\ pc[s] \in InFlight /\ pc'[s] = "ended" /\ Ledger(s)
          /\ \A t \in Streams \ {s} : pc'[t] = pc[t]
      BY <1>5 DEF Exit, GoTo, Ledgers, TypeOK
    <2>2. /\ remaining' = remaining /\ verdict' = verdict
          /\ \A t \in Streams : st'[t].attempt = st[t].attempt
          /\ records'[s].ends = records[s].ends + 1
          /\ \A t \in Streams \ {s} : records'[t] = records[t]
      BY <1>5 DEF Exit, ExitWith, SameAttempts
    <2>3. Ledger(s)'
      BY <1>1, <2>1, <2>2 DEF Ledger, InFlight
    <2>4. \A t \in Streams \ {s} : SameLedger(t)
      BY <2>1, <2>2 DEF SameLedger
    <2> QED BY <2>3, <2>4, LedgerOfOne
  <1>6. ASSUME NEW s \in Streams, ReturnBucket(s)
        PROVE  Ledgers'
    BY <1>1, <1>6 DEF ReturnBucket, At, GoTo, Ledgers, Ledger, DoneLedger, InFlight, TypeOK
  <1>7. ASSUME NEW s \in Streams, Retry(s)
        PROVE  Ledgers'
    <2>1. /\ pc[s] = "strategy" /\ pc'[s] = "attempt" /\ Ledger(s)
          /\ \A t \in Streams \ {s} : pc'[t] = pc[t]
      BY <1>7 DEF Retry, Consults, At, GoTo, Ledgers, TypeOK
    <2>2. /\ remaining'[s] = remaining[s] - 1
          /\ \A t \in Streams \ {s} : remaining'[t] = remaining[t]
      BY <1>1, <1>7 DEF Retry, OnWireFault, TypeOK
    <2>3. verdict' = verdict /\ st' = st /\ records' = records
      BY <1>7 DEF Retry
    <2>4. Ledger(s)'
      BY <1>1, <2>1, <2>2, <2>3 DEF Ledger, InFlight
    <2>5. \A t \in Streams \ {s} : SameLedger(t)
      BY <2>1, <2>2, <2>3 DEF SameLedger
    <2> QED BY <2>4, <2>5, LedgerOfOne
  <1>8. ASSUME NEW s \in Streams, NEW v \in Verdict, Conclude(s, v), pc[s] = "strategy",
               remaining' = remaining, ~IsDenied(v),
               v.type = "failover" => /\ KnowsFailover /\ remaining[s] = 0
                                      /\ v.attempts_here = st[s].attempt,
               v.type = "failed" /\ ~IsCancelled(v) => ~KnowsFailover /\ remaining[s] = 0
        PROVE  Ledgers'
    <2>1. ASSUME NEW t \in Streams \ {s}
          PROVE  Ledger(t)'
      BY <1>8 DEF Conclude, GoTo, Ledgers, Ledger, DoneLedger, TypeOK
    <2>2. Ledger(s)'
      <3>1. /\ pc'[s] = "done" /\ verdict'[s] = v /\ st' = st /\ records' = records
        BY <1>8 DEF Conclude, GoTo, TypeOK
      <3>2. st[s].attempt + remaining[s] = Allowance + 1 /\ records[s].ends = st[s].attempt
        BY <1>8 DEF Ledgers, Ledger
      <3>3. DoneLedger(s)'
        BY <1>1, <1>8, <3>1, <3>2 DEF DoneLedger
      <3> QED BY <3>1, <3>3 DEF Ledger, InFlight
    <2> QED BY <2>1, <2>2 DEF Ledgers
  <1>9. ASSUME NEW s \in Streams, Commit(s)
        PROVE  Ledgers'
    <2> DEFINE v == [type |-> "committed", outcome |-> end[s].res]
    <2>1. v \in Verdict
      BY <1>9, CommitVerdict DEF Commit
    <2>2. v.type # "failed" /\ v.type # "failover" /\ ~IsDenied(v)
      BY DEF IsDenied
    <2> HIDE DEF v
    <2>3. Conclude(s, v) /\ pc[s] = "strategy" /\ remaining' = remaining
      BY <1>9 DEF Commit, At, v
    <2> QED BY <1>8, <2>1, <2>2, <2>3
  <1>10. ASSUME NEW s \in Streams, GiveUpCancelled(s)
         PROVE  Ledgers'
    <2> DEFINE v == [type |-> "failed", fault |-> "cancelled"]
    <2>1. v \in Verdict /\ IsCancelled(v) /\ ~IsDenied(v) /\ v.type # "failover"
      BY DEF Verdict, FaultName, IsCancelled, IsDenied
    <2> HIDE DEF v
    <2>2. Conclude(s, v) /\ pc[s] = "strategy" /\ remaining' = remaining
      BY <1>10 DEF GiveUpCancelled, At, v
    <2> QED BY <1>8, <2>1, <2>2
  <1>11. ASSUME NEW s \in Streams, Failover(s)
         PROVE  Ledgers'
    <2> DEFINE v == [type |-> "failover", attempts_here |-> st[s].attempt]
    <2>1. /\ v \in Verdict /\ v.type = "failover" /\ ~IsDenied(v)
          /\ v.attempts_here = st[s].attempt
      BY <1>1 DEF Verdict, IsDenied
    <2> HIDE DEF v
    <2>2. Conclude(s, v) /\ pc[s] = "strategy" /\ remaining' = remaining
      BY <1>11 DEF Failover, Consults, At, v
    <2>3. KnowsFailover /\ remaining[s] = 0
      BY <1>1, <1>11 DEF Failover, OnWireFault
    <2> QED BY <1>8, <2>1, <2>2, <2>3
  <1>12. ASSUME NEW s \in Streams, GiveUp(s)
         PROVE  Ledgers'
    <2>1. PICK fault \in FaultName \ {"admission_denied", "cancelled"} :
            Conclude(s, [type |-> "failed", fault |-> fault])
      BY <1>12, GiveUpFault DEF GiveUp
    <2> DEFINE v == [type |-> "failed", fault |-> fault]
    <2>2. v \in Verdict /\ v.type = "failed" /\ ~IsDenied(v)
      BY DEF Verdict, IsDenied
    <2>3. ~KnowsFailover /\ remaining[s] = 0
      BY <1>1, <1>12 DEF GiveUp, OnWireFault
    <2>4. pc[s] = "strategy" /\ remaining' = remaining
      BY <1>12 DEF GiveUp, Consults, At
    <2> HIDE DEF v
    <2>5. Conclude(s, v)
      BY <2>1 DEF v
    <2> QED BY <1>8, <2>2, <2>3, <2>4, <2>5
  <1>13. Quiet => Ledgers'
    BY DEF Quiet, Ledgers, Ledger, DoneLedger
  <1> QED BY <1>2, <1>3, <1>4, <1>5, <1>6, <1>7, <1>9, <1>10, <1>11, <1>12, <1>13, StepShapes
             DEF Strategy

LEMMA LedgerSafe == Spec => []Ledgers
  BY Typed, InitLedger, StepLedger, PTL DEF Spec

(* INV-CHAT-11 for every allowance: no turn makes more than one attempt    *)
(* beyond it, and the strategy gives up or fails over only when it is all  *)
(* spent.                                                                  *)
THEOREM AllowanceSafe == Spec => []AllowanceExact
  <1>1. TypeOK /\ Ledgers => AllowanceExact
    <2> SUFFICES ASSUME TypeOK, Ledgers, NEW s \in Streams
                 PROVE  /\ Spent(s) =< Allowance + 1
                        /\ verdict[s].type = "failover" =>
                             /\ KnowsFailover /\ Spent(s) = Allowance + 1
                             /\ verdict[s].attempts_here = Spent(s)
                        /\ verdict[s].type = "failed" /\ ~IsDenied(verdict[s])
                             /\ ~IsCancelled(verdict[s]) =>
                                  ~KnowsFailover /\ Spent(s) = Allowance + 1
      BY DEF AllowanceExact
    <2>1. /\ st[s].attempt \in Nat /\ records[s].ends \in Nat
          /\ remaining[s] \in Nat /\ Allowance \in Nat /\ pc[s] \in PC
      BY StrategyAssumption DEF TypeOK, StreamState, Testimony
    <2>2. Ledger(s)
      BY DEF Ledgers
    <2>3. CASE pc[s] = "done"
      BY <2>1, <2>2, <2>3 DEF Ledger, DoneLedger, Spent, IsDenied
    <2>4. CASE pc[s] # "done"
      BY <2>1, <2>2, <2>4 DEF Ledger, Spent, PC, Suspended, InFlight
    <2> QED BY <2>3, <2>4
  <1> QED BY <1>1, Typed, LedgerSafe, PTL

(* Every attempt that was dialed leaves one StreamEnd.                     *)
THEOREM TestimonySafe == Spec => []EveryAttemptTestified
  <1>1. TypeOK /\ Ledgers => EveryAttemptTestified
    <2> SUFFICES ASSUME TypeOK, Ledgers PROVE EveryAttemptTestified
      OBVIOUS
    <2>1. \A s \in Streams : st[s].attempt \in Nat /\ records[s].ends \in Nat
      BY DEF TypeOK, StreamState, Testimony
    <2> QED BY <2>1 DEF Ledgers, Ledger, DoneLedger, EveryAttemptTestified, Spent
  <1> QED BY <1>1, Typed, LedgerSafe, PTL

-----------------------------------------------------------------------------
(* Cancellation.  The record of the last exit and the way run_attempt      *)
(* returned agree until the strategy has looked at it.                     *)

CancelNoted(s) ==
  LET last == records[s].last_end = "cancelled"
  IN  /\ last => pc[s] \in {"ended", "strategy", "done"}
      /\ pc[s] \in {"ended", "strategy"} => (IsCancel(end[s]) <=> last)
      /\ pc[s] = "done" => (IsCancelled(verdict[s]) <=> last)

CancelsNoted == \A s \in Streams : CancelNoted(s)

LEMMA InitCancel == Init => CancelsNoted
  BY DEF Init, CancelsNoted, CancelNoted, NoTestimony

SameCancel(s) == /\ pc'[s] = pc[s] /\ end'[s] = end[s] /\ verdict'[s] = verdict[s]
                 /\ records'[s].last_end = records[s].last_end

LEMMA CancelOfOne ==
  ASSUME CancelsNoted, NEW s \in Streams, CancelNoted(s)',
         \A t \in Streams \ {s} : SameCancel(t)
  PROVE  CancelsNoted'
  <1>1. ASSUME NEW t \in Streams \ {s}
        PROVE  CancelNoted(t)'
    BY <1>1 DEF CancelsNoted, CancelNoted, SameCancel, IsCancel, IsCancelled
  <1> QED BY <1>1 DEF CancelsNoted

LEMMA StepCancel ==
  ASSUME TypeOK, HasEnd, CancelsNoted, [Next]_vars
  PROVE  CancelsNoted'
  <1>1. ASSUME NEW s \in Streams, BeginTurn(s) \/ Admit(s) \/ ReturnBucket(s) \/ Retry(s)
        PROVE  CancelsNoted'
    <2>1. /\ records' = records /\ verdict' = verdict /\ CancelNoted(s)
          /\ \A t \in Streams \ {s} : pc'[t] = pc[t] /\ end'[t] = end[t]
      BY <1>1 DEF BeginTurn, Admit, ReturnBucket, Retry, GoTo, CancelsNoted, TypeOK
    <2>2. \A t \in Streams \ {s} : SameCancel(t)
      BY <2>1 DEF SameCancel
    <2>3. CASE BeginTurn(s) \/ Admit(s)
      <3>1. pc[s] \in {"idle", "attempt"} /\ pc'[s] \in {"attempt", "dial"}
        BY <2>3 DEF BeginTurn, Admit, At, GoTo, TypeOK
      <3>2. CancelNoted(s)'
        BY <2>1, <3>1 DEF CancelNoted
      <3> QED BY <2>2, <3>2, CancelOfOne
    <2>4. CASE ReturnBucket(s)
      <3>1. pc[s] = "ended" /\ pc'[s] = "strategy" /\ end' = end
        BY <2>4 DEF ReturnBucket, At, GoTo, TypeOK
      <3>2. CancelNoted(s)'
        BY <2>1, <3>1 DEF CancelNoted, IsCancel
      <3> QED BY <2>2, <3>2, CancelOfOne
    <2>5. CASE Retry(s)
      <3>1. pc[s] = "strategy" /\ ~IsCancel(end[s]) /\ pc'[s] = "attempt"
        BY <2>5 DEF Retry, Consults, At, GoTo, TypeOK
      <3>2. CancelNoted(s)'
        BY <2>1, <3>1 DEF CancelNoted
      <3> QED BY <2>2, <3>2, CancelOfOne
    <2> QED BY <1>1, <2>3, <2>4, <2>5
  <1>2. ASSUME NEW s \in Streams, Inner(s)
        PROVE  CancelsNoted'
    <2>1. /\ pc[s] \in InFlight /\ pc'[s] \in InFlight /\ CancelNoted(s)
          /\ \A t \in Streams \ {s} : pc'[t] = pc[t]
      BY <1>2 DEF Inner, GoTo, CancelsNoted, TypeOK
    <2>2. /\ end' = end /\ verdict' = verdict
          /\ \A t \in Streams : records'[t].last_end = records[t].last_end
      BY <1>2 DEF Inner
    <2>3. CancelNoted(s)'
      BY <2>1, <2>2 DEF CancelNoted, InFlight
    <2>4. \A t \in Streams \ {s} : SameCancel(t)
      BY <2>1, <2>2 DEF SameCancel
    <2> QED BY <2>3, <2>4, CancelOfOne
  <1>3. ASSUME NEW s \in Streams, Exit(s)
        PROVE  CancelsNoted'
    <2>1. PICK e, c : ExitWith(s, e, c)
      BY <1>3 DEF Exit
    <2>2. /\ pc'[s] = "ended" /\ end'[s] = e /\ records'[s].last_end = c
          /\ IsCancel(e) <=> c = "cancelled"
          /\ \A t \in Streams \ {s} : /\ pc'[t] = pc[t] /\ end'[t] = end[t]
                                      /\ verdict'[t] = verdict[t] /\ records'[t] = records[t]
      BY <1>3, <2>1 DEF Exit, ExitWith, GoTo, TypeOK
    <2>3. CancelNoted(s)'
      BY <2>2 DEF CancelNoted, IsCancel
    <2>4. \A t \in Streams \ {s} : SameCancel(t)
      BY <2>2 DEF SameCancel
    <2> QED BY <2>3, <2>4, CancelOfOne
  <1>4. ASSUME NEW s \in Streams, NEW v \in Verdict,
               pc'[s] = "done", verdict' = [verdict EXCEPT ![s] = v], records' = records,
               IsCancelled(v) <=> records[s].last_end = "cancelled",
               \A t \in Streams \ {s} : pc'[t] = pc[t] /\ end'[t] = end[t]
        PROVE  CancelsNoted'
    <2>1. verdict'[s] = v /\ \A t \in Streams \ {s} : verdict'[t] = verdict[t]
      BY <1>4 DEF TypeOK
    <2>2. CancelNoted(s)'
      BY <1>4, <2>1 DEF CancelNoted, IsCancelled
    <2>3. \A t \in Streams \ {s} : SameCancel(t)
      BY <1>4, <2>1 DEF SameCancel
    <2> QED BY <2>2, <2>3, CancelOfOne
  <1>5. ASSUME NEW s \in Streams, Deny(s)
        PROVE  CancelsNoted'
    <2> DEFINE v == [type |-> "failed", fault |-> "admission_denied"]
    <2>1. v \in Verdict /\ ~IsCancelled(v)
      BY DEF Verdict, FaultName, IsCancelled
    <2>2. records[s].last_end # "cancelled"
      BY <1>5 DEF Deny, At, CancelsNoted, CancelNoted
    <2>3. /\ pc'[s] = "done" /\ verdict' = [verdict EXCEPT ![s] = v]
          /\ records' = records /\ \A t \in Streams \ {s} : pc'[t] = pc[t] /\ end'[t] = end[t]
      BY <1>5 DEF Deny, GoTo, TypeOK
    <2> HIDE DEF v
    <2> QED BY <1>4, <2>1, <2>2, <2>3
  <1>6. ASSUME NEW s \in Streams, NEW v \in Verdict, Conclude(s, v), pc[s] = "strategy",
               IsCancelled(v) <=> IsCancel(end[s])
        PROVE  CancelsNoted'
    <2>1. /\ pc'[s] = "done" /\ verdict' = [verdict EXCEPT ![s] = v]
          /\ records' = records /\ \A t \in Streams \ {s} : pc'[t] = pc[t] /\ end'[t] = end[t]
      BY <1>6 DEF Conclude, GoTo, TypeOK
    <2>2. IsCancel(end[s]) <=> records[s].last_end = "cancelled"
      BY <1>6 DEF CancelsNoted, CancelNoted
    <2> QED BY <1>4, <1>6, <2>1, <2>2
  <1>7. ASSUME NEW s \in Streams, Commit(s)
        PROVE  CancelsNoted'
    <2> DEFINE v == [type |-> "committed", outcome |-> end[s].res]
    <2>1. v \in Verdict /\ ~IsCancelled(v) /\ ~IsCancel(end[s])
      BY <1>7, CommitVerdict DEF Commit, IsCommit, IsCancel, IsCancelled
    <2>2. Conclude(s, v) /\ pc[s] = "strategy"
      BY <1>7 DEF Commit, At
    <2> HIDE DEF v
    <2> QED BY <1>6, <2>1, <2>2
  <1>8. ASSUME NEW s \in Streams, GiveUpCancelled(s)
        PROVE  CancelsNoted'
    <2> DEFINE v == [type |-> "failed", fault |-> "cancelled"]
    <2>1. v \in Verdict /\ IsCancelled(v) /\ IsCancel(end[s])
      BY <1>8 DEF GiveUpCancelled, Verdict, FaultName, IsCancelled
    <2>2. Conclude(s, v) /\ pc[s] = "strategy"
      BY <1>8 DEF GiveUpCancelled, At
    <2> HIDE DEF v
    <2> QED BY <1>6, <2>1, <2>2
  <1>9. ASSUME NEW s \in Streams, Failover(s)
        PROVE  CancelsNoted'
    <2> DEFINE v == [type |-> "failover", attempts_here |-> st[s].attempt]
    <2>1. v \in Verdict /\ ~IsCancelled(v) /\ ~IsCancel(end[s])
      BY <1>9 DEF Failover, Consults, Verdict, IsCancelled, TypeOK, StreamState
    <2>2. Conclude(s, v) /\ pc[s] = "strategy"
      BY <1>9 DEF Failover, Consults, At
    <2> HIDE DEF v
    <2> QED BY <1>6, <2>1, <2>2
  <1>10. ASSUME NEW s \in Streams, GiveUp(s)
         PROVE  CancelsNoted'
    <2>1. PICK fault \in FaultName \ {"admission_denied", "cancelled"} :
            Conclude(s, [type |-> "failed", fault |-> fault])
      BY <1>10, GiveUpFault DEF GiveUp
    <2> DEFINE v == [type |-> "failed", fault |-> fault]
    <2>2. v \in Verdict /\ ~IsCancelled(v)
      BY DEF Verdict, IsCancelled
    <2>3. pc[s] = "strategy" /\ ~IsCancel(end[s])
      BY <1>10 DEF GiveUp, Consults, At
    <2> HIDE DEF v
    <2>4. Conclude(s, v)
      BY <2>1 DEF v
    <2> QED BY <1>6, <2>2, <2>3, <2>4
  <1>11. Quiet => CancelsNoted'
    BY DEF Quiet, CancelsNoted, CancelNoted, IsCancel, IsCancelled
  <1> QED BY <1>1, <1>2, <1>3, <1>5, <1>7, <1>8, <1>9, <1>10, <1>11, StepShapes DEF Strategy

LEMMA CancelsSafe == Spec => []CancelsNoted
  BY Typed, InitCancel, StepCancel, PTL DEF Spec

(* A cancelled attempt is never retried, whatever exits race with the      *)
(* token: it is the turn's last, and the turn says so.                     *)
THEOREM CancelSafe == Spec => []CancelledIsFinal
  <1>1. CancelsNoted => CancelledIsFinal
    BY DEF CancelsNoted, CancelNoted, CancelledIsFinal
  <1> QED BY <1>1, CancelsSafe, PTL

-----------------------------------------------------------------------------
(* A place in the pool on the current_thread flavor.  Only one turn at a   *)
(* time is between two awaits, so nobody else takes the slot a turn has    *)
(* just returned before the turn asks for it again.                        *)

OneRuns == \A s \in Streams : \A t \in Streams \ {s} :
             pc[s] \in Suspended \/ pc[t] \in Suspended

KeepsPlace(s) ==
  /\ pc[s] = "strategy" => send_buckets > 0
  /\ pc[s] = "attempt" /\ records[s].ends > 0 => send_buckets > 0
  /\ verdict[s] = [type |-> "failed", fault |-> "admission_denied"] => records[s].ends = 0

Placed == SingleThread => OneRuns /\ \A s \in Streams : KeepsPlace(s)

LEMMA InitPlaced == Init => Placed
  BY DEF Init, Placed, OneRuns, KeepsPlace, Suspended, Open

(* A step of turn s on the current_thread flavor: the others are suspended *)
(* and stay so.                                                            *)
LEMMA PlacedOfOne ==
  ASSUME Placed, SingleThread, NEW s \in Streams, CanRun(s), KeepsPlace(s)',
         \A t \in Streams \ {s} : /\ pc'[t] = pc[t] /\ verdict'[t] = verdict[t]
                                  /\ records'[t].ends = records[t].ends
  PROVE  Placed'
  <1>1. \A t \in Streams \ {s} : pc[t] \in Suspended
    BY DEF CanRun
  <1>2. OneRuns'
    BY <1>1 DEF OneRuns, Suspended
  <1>3. ASSUME NEW t \in Streams \ {s}
        PROVE  KeepsPlace(t)'
    BY <1>1, <1>3 DEF Placed, KeepsPlace, Suspended
  <1> QED BY <1>2, <1>3 DEF Placed

LEMMA StepPlaced ==
  ASSUME TypeOK, HasEnd, Ledgers, Placed, [Next]_vars
  PROVE  Placed'
  <1> SUFFICES ASSUME SingleThread PROVE Placed'
    BY DEF Placed
  <1>1. \A s \in Streams : /\ KeepsPlace(s) /\ Ledger(s) /\ send_buckets \in Nat
                           /\ records[s].ends \in Nat
    BY DEF Placed, Ledgers, TypeOK, Testimony
  <1>2. ASSUME NEW s \in Streams, BeginTurn(s)
        PROVE  Placed'
    <2>1. /\ CanRun(s) /\ pc[s] = "idle" /\ pc'[s] = "attempt"
          /\ verdict' = verdict /\ records' = records
          /\ \A t \in Streams \ {s} : pc'[t] = pc[t]
      BY <1>2 DEF BeginTurn, At, GoTo, TypeOK
    <2>2. records[s].ends = 0
      BY <1>1, <2>1 DEF Ledger
    <2>3. KeepsPlace(s)'
      BY <1>1, <2>1, <2>2 DEF KeepsPlace
    <2> QED BY <2>1, <2>3, PlacedOfOne
  <1>3. ASSUME NEW s \in Streams, Admit(s)
        PROVE  Placed'
    <2>1. /\ CanRun(s) /\ pc'[s] = "dial" /\ verdict' = verdict /\ records' = records
          /\ \A t \in Streams \ {s} : pc'[t] = pc[t]
      BY <1>3 DEF Admit, At, GoTo, TypeOK
    <2>2. KeepsPlace(s)'
      BY <1>1, <2>1 DEF KeepsPlace
    <2> QED BY <2>1, <2>2, PlacedOfOne
  <1>4. ASSUME NEW s \in Streams, Deny(s)
        PROVE  Placed'
    <2>1. /\ CanRun(s) /\ pc[s] = "attempt" /\ send_buckets = 0
          /\ pc'[s] = "done" /\ records' = records
          /\ \A t \in Streams \ {s} : pc'[t] = pc[t] /\ verdict'[t] = verdict[t]
      BY <1>4 DEF Deny, DenySendBucket, At, GoTo, TypeOK
    <2>2. records[s].ends = 0
      BY <1>1, <2>1 DEF KeepsPlace
    <2>3. KeepsPlace(s)'
      BY <2>1, <2>2 DEF KeepsPlace
    <2> QED BY <2>1, <2>3, PlacedOfOne
  <1>5. ASSUME NEW s \in Streams, Inner(s) \/ Exit(s)
        PROVE  Placed'
    <2>1. /\ CanRun(s) /\ pc[s] \in InFlight /\ pc'[s] \in InFlight \cup {"ended"}
          /\ verdict' = verdict
          /\ \A t \in Streams \ {s} : pc'[t] = pc[t] /\ records'[t].ends = records[t].ends
      BY <1>5 DEF Inner, Exit, GoTo, TypeOK
    <2>2. verdict[s].type = "open"
      BY <1>1, <2>1 DEF Ledger, InFlight
    <2>3. KeepsPlace(s)'
      BY <2>1, <2>2 DEF KeepsPlace, InFlight
    <2> QED BY <2>1, <2>3, PlacedOfOne
  <1>6. ASSUME NEW s \in Streams, ReturnBucket(s)
        PROVE  Placed'
    <2>1. /\ CanRun(s) /\ pc'[s] = "strategy" /\ send_buckets' = send_buckets + 1
          /\ verdict' = verdict /\ records' = records
          /\ \A t \in Streams \ {s} : pc'[t] = pc[t]
      BY <1>6 DEF ReturnBucket, ReturnSendBucket, At, GoTo, TypeOK
    <2>2. KeepsPlace(s)'
      BY <1>1, <2>1 DEF KeepsPlace
    <2> QED BY <2>1, <2>2, PlacedOfOne
  <1>7. ASSUME NEW s \in Streams, Retry(s)
        PROVE  Placed'
    <2>1. /\ CanRun(s) /\ pc[s] = "strategy" /\ pc'[s] = "attempt"
          /\ send_buckets' = send_buckets /\ verdict' = verdict /\ records' = records
          /\ \A t \in Streams \ {s} : pc'[t] = pc[t]
      BY <1>7 DEF Retry, Consults, At, GoTo, TypeOK
    <2>2. KeepsPlace(s)'
      BY <1>1, <2>1 DEF KeepsPlace
    <2> QED BY <2>1, <2>2, PlacedOfOne
  <1>8. ASSUME NEW s \in Streams, NEW v \in Verdict, Conclude(s, v), CanRun(s), ~IsDenied(v)
        PROVE  Placed'
    <2>1. /\ pc'[s] = "done" /\ verdict'[s] = v /\ records' = records
          /\ \A t \in Streams \ {s} : pc'[t] = pc[t] /\ verdict'[t] = verdict[t]
      BY <1>8 DEF Conclude, GoTo, TypeOK
    <2>2. v # [type |-> "failed", fault |-> "admission_denied"]
      BY <1>8 DEF IsDenied
    <2>3. KeepsPlace(s)'
      BY <2>1, <2>2 DEF KeepsPlace
    <2> QED BY <1>8, <2>1, <2>3, PlacedOfOne
  <1>9. ASSUME NEW s \in Streams, Commit(s) \/ GiveUpCancelled(s) \/ Failover(s) \/ GiveUp(s)
        PROVE  Placed'
    <2>1. CanRun(s)
      BY <1>9 DEF Commit, GiveUpCancelled, Failover, GiveUp, Consults, At
    <2>2. \E v \in Verdict : Conclude(s, v) /\ ~IsDenied(v)
      <3>1. CASE Commit(s)
        BY <3>1, CommitVerdict DEF Commit, IsDenied
      <3>2. CASE GiveUpCancelled(s)
        BY <3>2 DEF GiveUpCancelled, Verdict, FaultName, IsDenied
      <3>3. CASE Failover(s)
        <4>1. st[s].attempt \in Nat
          BY DEF TypeOK, StreamState
        <4> QED BY <3>3, <4>1 DEF Failover, Verdict, IsDenied
      <3>4. CASE GiveUp(s)
        BY <3>4, GiveUpFault DEF GiveUp, Verdict, IsDenied
      <3> QED BY <1>9, <3>1, <3>2, <3>3, <3>4
    <2> QED BY <1>8, <2>1, <2>2
  <1>10. Quiet => Placed'
    BY DEF Quiet, Placed, OneRuns, KeepsPlace, Suspended
  <1> QED BY <1>2, <1>3, <1>4, <1>5, <1>6, <1>7, <1>9, <1>10, StepShapes DEF Strategy

(* Zero-bucket rule, for every pool and every number of turns: on the      *)
(* current_thread flavor no retry is ever refused a slot.                  *)
THEOREM PlaceSafe == Spec => [](SingleThread => OnlyFirstAdmissionDenied)
  <1>1. Placed => (SingleThread => OnlyFirstAdmissionDenied)
    BY DEF Placed, KeepsPlace, OnlyFirstAdmissionDenied
  <1> QED BY <1>1, Typed, LedgerSafe, InitPlaced, StepPlaced, PTL DEF Spec

-----------------------------------------------------------------------------
(* What the operators make of one payload: of the answer, of the finish    *)
(* reason, of the usage, of the screen.                                    *)

TextIn(p) == Normalize(p).events.text
FinishIn(p) == Normalize(p).events.finish
UsageIn(p) == Normalize(p).events.usage

LEMMA CarriedType ==
  ASSUME NEW p \in Payload
  PROVE  /\ CarriesText(p) => TextIn(p) \in Text
         /\ CarriesFinish(p) => FinishIn(p) \in Reason
         /\ CarriesUsage(p) => UsageIn(p) \in Usage
         /\ p.type = "done" => ~CarriesText(p)
  <1>1. /\ TextIn(p) \in Text \cup {None} /\ FinishIn(p) \in Reason \cup {None}
        /\ UsageIn(p) \in Usage \cup {None}
    BY NormalizeType DEF TextIn, FinishIn, UsageIn
  <1>2. p.type = "done" => TextIn(p) = None
    BY DEF TextIn, Normalize, NoEvents
  <1> QED BY <1>1, <1>2 DEF CarriesText, CarriesFinish, CarriesUsage, TextIn, FinishIn, UsageIn

(* A payload's events are fed in order, but none of text, finish reason    *)
(* and usage depends on what else it carries.                              *)
LEMMA FeedEventsEffect ==
  ASSUME NEW m \in Machine,
         NEW e \in [text : Text \cup {None}, finish : Reason \cup {None},
                    usage : Usage \cup {None}, done : BOOLEAN]
  PROVE  /\ FeedEvents(m, e).content = IF e.text = None THEN m.content
                                                        ELSE Append(m.content, e.text)
         /\ FeedEvents(m, e).finish_reason = IF e.finish # None /\ ~IsCompletable(m)
                                               THEN e.finish ELSE m.finish_reason
         /\ FeedEvents(m, e).usage = IF e.usage = None THEN m.usage ELSE e.usage
  <1> DEFINE afterText   == IF e.text = None THEN m ELSE FeedText(m, e.text)
             afterFinish == IF e.finish = None THEN afterText ELSE FeedFinish(afterText, e.finish)
             afterUsage  == IF e.usage = None THEN afterFinish ELSE FeedUsage(afterFinish, e.usage)
  <1>1. /\ afterText \in Machine
        /\ afterText.content = IF e.text = None THEN m.content ELSE Append(m.content, e.text)
        /\ afterText.finish_reason = m.finish_reason
        /\ afterText.usage = m.usage
    BY FeedTextType DEF FeedText, Machine
  <1>2. /\ afterFinish \in Machine
        /\ afterFinish.content = afterText.content
        /\ afterFinish.finish_reason = IF e.finish # None /\ ~IsCompletable(afterText)
                                         THEN e.finish ELSE afterText.finish_reason
        /\ afterFinish.usage = afterText.usage
    <2> HIDE DEF afterText
    <2> QED BY <1>1, FeedFinishType DEF FeedFinish, Machine
  <1>3. /\ afterUsage \in Machine
        /\ afterUsage.content = afterFinish.content
        /\ afterUsage.finish_reason = afterFinish.finish_reason
        /\ afterUsage.usage = IF e.usage = None THEN afterFinish.usage ELSE e.usage
    <2> HIDE DEF afterFinish
    <2> QED BY <1>2, FeedUsageType DEF FeedUsage, Machine
  <1>4. FeedEvents(m, e) = IF e.done THEN FeedDone(afterUsage) ELSE afterUsage
    BY DEF FeedEvents
  <1>5. /\ FeedEvents(m, e).content = afterUsage.content
        /\ FeedEvents(m, e).finish_reason = afterUsage.finish_reason
        /\ FeedEvents(m, e).usage = afterUsage.usage
    <2> HIDE DEF afterUsage
    <2> QED BY <1>3, <1>4 DEF FeedDone, Machine
  <1> HIDE DEF afterText, afterFinish, afterUsage
  <1> QED BY <1>1, <1>2, <1>3, <1>5 DEF IsCompletable

LEMMA OnInstallmentEffect ==
  ASSUME NEW x \in StreamState, NEW p \in Payload
  PROVE  LET r == OnInstallment(x, p)
             m == x.machine
         IN  /\ r.text = IF CarriesText(p) THEN TextIn(p) ELSE None
             /\ r.st.machine.content = IF CarriesText(p) THEN Append(m.content, TextIn(p))
                                                         ELSE m.content
             /\ r.st.machine.finish_reason = IF CarriesFinish(p) /\ ~IsCompletable(m)
                                               THEN FinishIn(p) ELSE m.finish_reason
             /\ r.st.machine.usage = IF CarriesUsage(p) THEN UsageIn(p) ELSE m.usage
             /\ r.st.saw_any_content = (x.saw_any_content \/ CarriesText(p))
             /\ r.directive = "fault" <=> IsViolation(p)
             /\ r.directive = "stop_complete" => p.type = "done"
  <1> DEFINE n == Normalize(p)
             m == x.machine
             fed == FeedEvents(m, n.events)
             saw == x.saw_any_content \/ n.events.text # None
  <1>1. /\ n.ok \in BOOLEAN /\ n.multiple \in BOOLEAN /\ m \in Machine
        /\ x.saw_any_content \in BOOLEAN
        /\ n.events \in [text : Text \cup {None}, finish : Reason \cup {None},
                         usage : Usage \cup {None}, done : BOOLEAN]
    BY NormalizeType DEF StreamState
  <1>2. IsViolation(p) <=> ~n.ok \/ n.multiple
    BY DEF IsViolation
  <1>3. CASE ~n.ok
    <2>1. OnInstallment(x, p) = [st |-> [x EXCEPT !.norm_errors = x.norm_errors + 1],
                                 directive |-> "fault", text |-> None]
      BY <1>3 DEF OnInstallment
    <2> QED BY <1>1, <1>2, <1>3, <2>1
           DEF StreamState, CarriesText, CarriesFinish, CarriesUsage
  <1>4. CASE n.ok /\ n.multiple
    <2>1. OnInstallment(x, p) = [st |-> x, directive |-> "fault", text |-> None]
      BY <1>4 DEF OnInstallment
    <2> QED BY <1>1, <1>2, <1>4, <2>1 DEF CarriesText, CarriesFinish, CarriesUsage
  <1>5. CASE n.ok /\ ~n.multiple
    <2>1. OnInstallment(x, p) =
            [st |-> [x EXCEPT !.machine = fed, !.saw_any_content = saw],
             directive |-> IF n.events.done THEN "stop_complete" ELSE "continue",
             text |-> n.events.text]
      BY <1>5 DEF OnInstallment
    <2>2. /\ fed.content = IF n.events.text = None THEN m.content
                                                   ELSE Append(m.content, n.events.text)
          /\ fed.finish_reason = IF n.events.finish # None /\ ~IsCompletable(m)
                                   THEN n.events.finish ELSE m.finish_reason
          /\ fed.usage = IF n.events.usage = None THEN m.usage ELSE n.events.usage
      <3> HIDE DEF n, m
      <3> QED BY <1>1, FeedEventsEffect
    <2>3. /\ CarriesText(p) <=> n.events.text # None
          /\ CarriesFinish(p) <=> n.events.finish # None
          /\ CarriesUsage(p) <=> n.events.usage # None
          /\ TextIn(p) = n.events.text /\ FinishIn(p) = n.events.finish
          /\ UsageIn(p) = n.events.usage
      BY <1>2, <1>5 DEF CarriesText, CarriesFinish, CarriesUsage, TextIn, FinishIn, UsageIn
    <2>4. n.events.done => p.type = "done"
      BY DEF Normalize, NoEvents, Payload, Chunk
    <2> DEFINE y == [x EXCEPT !.machine = fed, !.saw_any_content = saw]
    <2>5. y.machine = fed /\ y.saw_any_content = saw
      BY DEF StreamState
    <2>6. /\ OnInstallment(x, p).st = y
          /\ OnInstallment(x, p).text = n.events.text
          /\ OnInstallment(x, p).directive = IF n.events.done THEN "stop_complete" ELSE "continue"
      BY <2>1
    <2> HIDE DEF n, fed, y, m
    <2> QED BY <1>2, <1>5, <2>2, <2>3, <2>4, <2>5, <2>6 DEF m
  <1> QED BY <1>1, <1>3, <1>4, <1>5

LEMMA TextOfNothing == IsTextOf(<<>>, <<>>)
  <1> DEFINE at == [i \in 1..Len(<<>>) |-> 1]
  <1>1. at \in [1..Len(<<>>) -> 1..Len(<<>>)] /\ Transcribes(<<>>, <<>>, at)
    BY DEF Transcribes
  <1> QED BY <1>1 DEF IsTextOf

(* One more payload: the content grows by the text it carries, if any.     *)
LEMMA TextOfExtends ==
  ASSUME NEW c \in Seq(Text), NEW ps \in Seq(Payload), NEW p \in Payload, IsTextOf(c, ps)
  PROVE  IsTextOf(IF CarriesText(p) THEN Append(c, TextIn(p)) ELSE c, Append(ps, p))
  <1> DEFINE n == Len(c)
             k == Len(ps)
             qs == Append(ps, p)
  <1>1. PICK at \in [1..n -> 1..k] : Transcribes(c, ps, at)
    BY DEF IsTextOf
  <1>2. /\ n \in Nat /\ k \in Nat /\ Len(qs) = k + 1 /\ qs[k + 1] = p
        /\ \A i \in 1..k : qs[i] = ps[i]
        /\ \A i \in 1..(k + 1) : i \in 1..k \/ i = k + 1
    OBVIOUS
  <1>3. /\ \A i, j \in 1..n : i < j => at[i] < at[j]
        /\ \A i \in 1..n : at[i] \in 1..k /\ CarriesText(ps[at[i]]) /\ c[i] = TextIn(ps[at[i]])
        /\ \A l \in 1..k : CarriesText(ps[l]) => \E i \in 1..n : at[i] = l
    BY <1>1 DEF Transcribes, TextIn
  <1>4. CASE CarriesText(p)
    <2> DEFINE d == Append(c, TextIn(p))
               new == [i \in 1..(n + 1) |-> IF i = n + 1 THEN k + 1 ELSE at[i]]
    <2>1. /\ Len(d) = n + 1 /\ d[n + 1] = TextIn(p) /\ \A i \in 1..n : d[i] = c[i]
      BY <1>4, CarriedType
    <2>2. /\ \A i \in 1..(n + 1) : i \in 1..n \/ i = n + 1
          /\ n + 1 \notin 1..n /\ k + 1 \notin 1..k /\ n + 1 \in 1..(n + 1) /\ k + 1 \in 1..(k + 1)
          /\ 1..n \subseteq 1..(n + 1) /\ 1..k \subseteq 1..(k + 1)
      BY <1>2
    <2>3. new[n + 1] = k + 1 /\ \A i \in 1..n : new[i] = at[i]
      <3> HIDE DEF n, k
      <3> QED BY <2>2
    <2>4. new \in [1..(n + 1) -> 1..(k + 1)]
      <3> HIDE DEF n, k
      <3> QED BY <1>3, <2>2
    <2> HIDE DEF n, k, d, qs, new
    <2>5. ASSUME NEW i \in 1..(n + 1), NEW j \in 1..(n + 1), i < j
          PROVE  new[i] < new[j]
      <3>1. i \in 1..n
        BY <1>2, <2>5
      <3>2. new[i] = at[i] /\ at[i] \in 1..k
        BY <1>3, <2>3, <3>1
      <3>3. CASE j \in 1..n
        BY <1>3, <2>3, <2>5, <3>1, <3>2, <3>3
      <3>4. CASE j = n + 1
        BY <1>2, <2>3, <3>2, <3>4
      <3> QED BY <2>2, <3>3, <3>4
    <2>6. ASSUME NEW i \in 1..(n + 1)
          PROVE  CarriesText(qs[new[i]]) /\ d[i] = TextIn(qs[new[i]])
      <3>1. CASE i \in 1..n
        BY <1>2, <1>3, <2>1, <2>3, <3>1
      <3>2. CASE i = n + 1
        BY <1>2, <1>4, <2>1, <2>3, <3>2
      <3> QED BY <2>2, <3>1, <3>2
    <2>7. ASSUME NEW l \in 1..(k + 1), CarriesText(qs[l])
          PROVE  \E i \in 1..(n + 1) : new[i] = l
      <3>1. CASE l \in 1..k
        <4>1. PICK i \in 1..n : at[i] = l
          BY <1>2, <1>3, <2>7, <3>1
        <4> QED BY <2>2, <2>3, <4>1
      <3>2. CASE l = k + 1
        BY <2>2, <2>3, <3>2
      <3> QED BY <1>2, <3>1, <3>2
    <2>8. Transcribes(d, qs, new)
      BY <1>2, <2>1, <2>5, <2>6, <2>7 DEF Transcribes, TextIn
    <2>9. IsTextOf(d, qs)
      BY <1>2, <2>1, <2>4, <2>8 DEF IsTextOf
    <2> QED BY <1>4, <2>9 DEF d, qs
  <1>5. CASE ~CarriesText(p)
    <2> HIDE DEF n, k, qs
    <2>1. at \in [1..n -> 1..(k + 1)]
      BY <1>2, <1>3
    <2>2. \A i \in 1..n : qs[at[i]] = ps[at[i]]
      BY <1>2, <1>3
    <2>3. \A l \in 1..(k + 1) : CarriesText(qs[l]) => l \in 1..k /\ CarriesText(ps[l])
      BY <1>2, <1>5
    <2>4. Transcribes(c, qs, at)
      BY <1>2, <1>3, <2>2, <2>3 DEF Transcribes, TextIn, n
    <2>5. IsTextOf(c, qs)
      BY <1>2, <2>1, <2>4 DEF IsTextOf, n
    <2> QED BY <1>5, <2>5 DEF qs
  <1> QED BY <1>4, <1>5

(* One more payload: its usage, if it carries one, is the last.            *)
LEMMA UsageExtends ==
  ASSUME NEW u, NEW ps \in Seq(Payload), NEW p \in Payload, IsLastUsage(u, ps)
  PROVE  IsLastUsage(IF CarriesUsage(p) THEN UsageIn(p) ELSE u, Append(ps, p))
  <1> DEFINE k == Len(ps)
             qs == Append(ps, p)
  <1>1. /\ k \in Nat /\ Len(qs) = k + 1 /\ qs[k + 1] = p /\ \A i \in 1..k : qs[i] = ps[i]
        /\ \A i \in 1..(k + 1) : i \in 1..k \/ i = k + 1
        /\ k + 1 \in 1..(k + 1) /\ \A j \in ((k + 1) + 1)..(k + 1) : FALSE
        /\ \A i \in 1..k : i \in 1..(k + 1)
        /\ \A i \in 1..k : \A j \in (i + 1)..(k + 1) : j \in (i + 1)..k \/ j = k + 1
        /\ \A i \in 1..k : \A j \in (i + 1)..k : j \in 1..k
    OBVIOUS
  <1>2. \/ u = None /\ \A i \in 1..k : ~CarriesUsage(ps[i])
        \/ \E i \in 1..k : /\ CarriesUsage(ps[i]) /\ UsageIn(ps[i]) = u
                            /\ \A j \in (i + 1)..k : ~CarriesUsage(ps[j])
    BY DEF IsLastUsage, UsageIn
  <1> HIDE DEF k, qs
  <1>3. CASE CarriesUsage(p)
    <2>1. IsLastUsage(UsageIn(p), qs)
      BY <1>1, <1>3 DEF IsLastUsage, UsageIn
    <2> QED BY <1>3, <2>1 DEF qs
  <1>4. CASE ~CarriesUsage(p) /\ u = None /\ \A i \in 1..k : ~CarriesUsage(ps[i])
    <2>1. \A i \in 1..(k + 1) : ~CarriesUsage(qs[i])
      BY <1>1, <1>4
    <2>2. IsLastUsage(u, qs)
      BY <1>1, <1>4, <2>1 DEF IsLastUsage
    <2> QED BY <1>4, <2>2 DEF qs
  <1>5. ASSUME ~CarriesUsage(p), NEW i \in 1..k, CarriesUsage(ps[i]), UsageIn(ps[i]) = u,
               \A j \in (i + 1)..k : ~CarriesUsage(ps[j])
        PROVE  IsLastUsage(IF CarriesUsage(p) THEN UsageIn(p) ELSE u, qs)
    <2>1. i \in 1..(k + 1) /\ CarriesUsage(qs[i]) /\ UsageIn(qs[i]) = u
      BY <1>1, <1>5
    <2>2. \A j \in (i + 1)..(k + 1) : ~CarriesUsage(qs[j])
      BY <1>1, <1>5
    <2>3. IsLastUsage(u, qs)
      BY <1>1, <2>1, <2>2 DEF IsLastUsage, UsageIn
    <2> QED BY <1>5, <2>3
  <1> QED BY <1>2, <1>3, <1>4, <1>5 DEF qs

(* A machine that has been told exactly the payloads ps.                   *)
Follows(m, ps) ==
  /\ IsTextOf(m.content, ps)
  /\ IsCompletable(m) => IsFirstFinish(m.finish_reason, ps)
  /\ ~IsCompletable(m) => \A i \in 1..Len(ps) : ~CarriesFinish(ps[i])
  /\ IsLastUsage(m.usage, ps)

LEMMA NewFollows == Follows(NewMachine, <<>>)
  BY TextOfNothing DEF Follows, NewMachine, IsCompletable, IsLastUsage

LEMMA FollowsExtends ==
  ASSUME NEW x \in StreamState, NEW ps \in Seq(Payload), NEW p \in Payload,
         Follows(x.machine, ps)
  PROVE  Follows(OnInstallment(x, p).st.machine, Append(ps, p))
  <1> DEFINE m == x.machine
             new == OnInstallment(x, p).st.machine
             k == Len(ps)
             qs == Append(ps, p)
  <1>1. /\ new.content = IF CarriesText(p) THEN Append(m.content, TextIn(p)) ELSE m.content
        /\ new.finish_reason = IF CarriesFinish(p) /\ ~IsCompletable(m) THEN FinishIn(p)
                                                                        ELSE m.finish_reason
        /\ new.usage = IF CarriesUsage(p) THEN UsageIn(p) ELSE m.usage
    BY OnInstallmentEffect
  <1>2. m.content \in Seq(Text)
    BY DEF StreamState, Machine
  <1>3. /\ k \in Nat /\ Len(qs) = k + 1 /\ qs[k + 1] = p /\ \A i \in 1..k : qs[i] = ps[i]
        /\ \A i \in 1..(k + 1) : i \in 1..k \/ i = k + 1
        /\ k + 1 \in 1..(k + 1) /\ (k + 1) - 1 = k
        /\ \A i \in 1..k : i \in 1..(k + 1) /\ \A j \in 1..(i - 1) : j \in 1..k
    OBVIOUS
  <1> HIDE DEF new, m, k, qs
  <1>4. IsTextOf(new.content, qs) /\ IsLastUsage(new.usage, qs)
    <2>1. IsTextOf(m.content, ps) /\ IsLastUsage(m.usage, ps)
      BY DEF Follows, m
    <2> QED BY <1>1, <1>2, <2>1, TextOfExtends, UsageExtends DEF qs
  <1>5. /\ IsCompletable(m) => IsFirstFinish(m.finish_reason, ps)
        /\ ~IsCompletable(m) => \A i \in 1..k : ~CarriesFinish(ps[i])
    BY DEF Follows, m, k
  <1>6. CASE IsCompletable(m)
    <2>1. PICK i \in 1..k : /\ CarriesFinish(ps[i]) /\ FinishIn(ps[i]) = m.finish_reason
                            /\ \A j \in 1..(i - 1) : ~CarriesFinish(ps[j])
      BY <1>5, <1>6 DEF IsFirstFinish, FinishIn, k
    <2>2. /\ i \in 1..(k + 1) /\ CarriesFinish(qs[i]) /\ FinishIn(qs[i]) = m.finish_reason
          /\ \A j \in 1..(i - 1) : ~CarriesFinish(qs[j])
      BY <1>3, <2>1
    <2>3. IsFirstFinish(m.finish_reason, qs)
      BY <1>3, <2>2 DEF IsFirstFinish, FinishIn
    <2> QED BY <1>1, <1>4, <1>6, <2>3 DEF Follows, IsCompletable, new, m, qs
  <1>7. CASE ~IsCompletable(m) /\ CarriesFinish(p)
    <2>1. new.finish_reason = FinishIn(p) /\ FinishIn(p) # None
      BY <1>1, <1>7 DEF CarriesFinish, FinishIn
    <2>2. \A j \in 1..((k + 1) - 1) : ~CarriesFinish(qs[j])
      BY <1>3, <1>5, <1>7
    <2>3. IsFirstFinish(FinishIn(p), qs)
      BY <1>3, <1>7, <2>2 DEF IsFirstFinish, FinishIn
    <2> QED BY <1>4, <2>1, <2>3 DEF Follows, IsCompletable, new, qs
  <1>8. CASE ~IsCompletable(m) /\ ~CarriesFinish(p)
    <2>1. new.finish_reason = m.finish_reason
      BY <1>1, <1>8
    <2>2. \A j \in 1..(k + 1) : ~CarriesFinish(qs[j])
      BY <1>3, <1>5, <1>8
    <2> QED BY <1>3, <1>4, <1>8, <2>1, <2>2 DEF Follows, IsCompletable, new, m, qs
  <1> QED BY <1>6, <1>7, <1>8

(* An outcome is the transcript of the attempt whose machine issues it.    *)
Answers(o, ps) == /\ IsTextOf(o.content, ps)
                  /\ IsFirstFinish(o.finish_reason, ps)
                  /\ IsLastUsage(o.usage, ps)

LEMMA OutcomeAnswers ==
  ASSUME NEW m \in Machine, NEW cause \in EndCause, NEW ps, Follows(m, ps),
         Finalize(m, cause).type = "outcome"
  PROVE  Answers(Finalize(m, cause), ps)
  BY FinalizeVerdict DEF Follows, Answers

LEMMA EndsWithNothing == ASSUME NEW b \in Seq(Text \cup {None}) PROVE EndsWith(b, <<>>)
  BY DEF EndsWith

LEMMA EndsWithExtends ==
  ASSUME NEW b \in Seq(Text \cup {None}), NEW x \in StreamState, NEW p \in Payload,
         EndsWith(b, x.machine.content), NEW taken \in TrySend(OnInstallment(x, p).text)
  PROVE  EndsWith(b \o taken, OnInstallment(x, p).st.machine.content)
  <1> DEFINE a == x.machine.content
             t == TextIn(p)
  <1>1. a \in Seq(Text)
    BY DEF StreamState, Machine
  <1>2. CASE CarriesText(p)
    <2>1. t \in Text /\ t # None
      BY <1>2, CarriedType DEF CarriesText, TextIn
    <2>2. /\ OnInstallment(x, p).text = t
          /\ OnInstallment(x, p).st.machine.content = Append(a, t)
      BY <1>2, OnInstallmentEffect
    <2>3. PICK y \in {t, None} : taken = <<y>>
      BY <2>1, <2>2 DEF TrySend
    <2> HIDE DEF a, t
    <2>4. EndsWith(b, a)
      BY DEF a
    <2> DEFINE d == Append(a, t)
               e == b \o <<y>>
               n == Len(a)
               k == Len(b)
    <2>5. /\ n \in Nat /\ k \in Nat /\ Len(d) = n + 1 /\ Len(e) = k + 1 /\ n =< k
          /\ d[n + 1] = t /\ e[k + 1] = y
          /\ \A i \in 1..n : d[i] = a[i]
          /\ \A i \in 1..k : e[i] = b[i]
          /\ \A i \in 1..n : b[k - n + i] \in {a[i], None}
      BY <1>1, <2>1, <2>4 DEF EndsWith
    <2> HIDE DEF d, e, n, k
    <2>6. ASSUME NEW i \in 1..(n + 1)
          PROVE  e[(k + 1) - (n + 1) + i] \in {d[i], None}
      <3>1. CASE i \in 1..n
        <4>1. k - n + i \in 1..k /\ (k + 1) - (n + 1) + i = k - n + i
          BY <2>5, <3>1
        <4> QED BY <2>5, <3>1, <4>1
      <3>2. CASE i = n + 1
        <4>1. (k + 1) - (n + 1) + i = k + 1
          BY <2>5, <3>2
        <4> QED BY <2>3, <2>5, <3>2, <4>1
      <3> QED BY <2>5, <3>1, <3>2
    <2>7. EndsWith(e, d)
      BY <2>5, <2>6 DEF EndsWith
    <2> QED BY <2>2, <2>3, <2>7 DEF d, e
  <1>3. CASE ~CarriesText(p)
    <2>1. OnInstallment(x, p).text = None /\ OnInstallment(x, p).st.machine.content = a
      BY <1>3, OnInstallmentEffect
    <2>2. taken = <<>> /\ b \o <<>> = b
      BY <2>1 DEF TrySend
    <2> QED BY <2>1, <2>2
  <1> QED BY <1>2, <1>3

-----------------------------------------------------------------------------
(* What a step does to the tale of a turn: what its attempt has heard,     *)
(* what its machine holds, what the screen shows and how run_attempt       *)
(* returned.                                                               *)

SameTale(s) ==
  /\ pc'[s] = pc[s] /\ st'[s] = st[s] /\ read_any'[s] = read_any[s] /\ heard'[s] = heard[s]
  /\ end'[s] = end[s] /\ verdict'[s] = verdict[s] /\ records'[s] = records[s]

(* A new machine: the beginning of a turn, an admission, a refusal.        *)
Fresh(s) ==
  /\ UNCHANGED <<read_any, end, records>>
  /\ st'[s].machine = NewMachine
  /\ \/ /\ pc[s] = "idle" /\ pc'[s] = "attempt"
        /\ heard' = heard /\ verdict' = verdict
     \/ /\ pc[s] = "attempt" /\ pc'[s] = "dial"
        /\ heard'[s] = <<>> /\ verdict' = verdict
        /\ st'[s].saw_any_content = st[s].saw_any_content
     \/ /\ pc[s] = "attempt" /\ pc'[s] = "done"
        /\ heard' = heard /\ verdict'[s].type = "failed"
        /\ st'[s].saw_any_content = st[s].saw_any_content

(* A step of an attempt in which the handler is given nothing.             *)
Waits(s) ==
  /\ UNCHANGED <<st, heard, end, verdict, records>>
  /\ \/ pc[s] = "dial" /\ pc'[s] \in {"body", "read"} /\ read_any' = read_any
     \/ pc[s] = "read" /\ pc'[s] \in {"read", "frames"} /\ read_any'[s] = TRUE
     \/ pc[s] = "frames" /\ pc'[s] \in {"read", "frames"} /\ read_any' = read_any

(* The handler is given payload p, and the attempt goes on or is over.     *)
Hears(s, p) ==
  /\ pc[s] = "frames" \/ (pc[s] = "read" /\ read_any[s])
  /\ heard'[s] = Append(heard[s], p)
  /\ \E taken \in TrySend(OnInstallment(st[s], p).text) :
       records'[s].shown = records[s].shown \o taken
  /\ UNCHANGED <<read_any, verdict>>

HearsOn(s, p) ==
  /\ Hears(s, p)
  /\ pc[s] = "frames" /\ pc'[s] \in {"read", "frames"}
  /\ st'[s] = OnInstallment(st[s], p).st
  /\ UNCHANGED end

(* An exit that finalizes the stream state `last`.                         *)
Finishes(s, last, cause) ==
  /\ pc'[s] = "ended"
  /\ st'[s] = Consumed(last)
  /\ end'[s] = [type |-> "complete", res |-> Finalize(last.machine, cause)]
  /\ records'[s].last_end = "closed_with_no_content" => ~last.saw_any_content

HearsLast(s, p, cause) ==
  /\ Hears(s, p)
  /\ Finishes(s, OnInstallment(st[s], p).st, cause)
  /\ \/ records'[s].last_end = "done_sentinel_consumed" /\ p.type = "done"
     \/ records'[s].last_end = "protocol_error" /\ IsViolation(p)
     \/ records'[s].last_end \in {"peer_closed", "closed_with_no_content"}

Closes(s) ==
  /\ pc[s] = "read" /\ UNCHANGED <<read_any, heard, verdict>>
  /\ Finishes(s, st[s], "stream_ended")
  /\ records'[s].shown = records[s].shown
  /\ records'[s].last_end \in {"peer_closed", "closed_with_no_content"}

BreaksOff(s) ==
  /\ pc[s] \in InFlight /\ pc'[s] = "ended"
  /\ UNCHANGED <<st, read_any, heard, verdict>>
  /\ end'[s].type = "wire"
  /\ records'[s].shown = records[s].shown
  /\ records'[s].last_end \in WireCause
  /\ records'[s].last_end \in {"first_byte_backstop", "connect_error"} \cup BodyCause =>
       pc[s] \in {"dial", "body"} \/ ~read_any[s]

(* execute_turn after run_attempt.                                         *)
Decides(s) ==
  /\ UNCHANGED <<st, heard, records>>
  /\ \/ /\ pc[s] = "ended" /\ pc'[s] = "strategy"
        /\ end' = end /\ verdict' = verdict /\ read_any'[s] = FALSE
     \/ /\ pc[s] = "strategy" /\ pc'[s] = "attempt"
        /\ verdict' = verdict /\ read_any' = read_any
     \/ /\ pc[s] = "strategy" /\ pc'[s] = "done" /\ read_any' = read_any
        /\ verdict'[s].type = "committed" =>
             IsCommit(end[s]) /\ verdict'[s].outcome = end[s].res

Tells(s) ==
  \/ Fresh(s) \/ Waits(s) \/ Closes(s) \/ BreaksOff(s) \/ Decides(s)
  \/ \E p \in Payload : HearsOn(s, p) \/ \E cause \in EndCause : HearsLast(s, p, cause)

LEMMA FreshTale ==
  ASSUME TypeOK, NEW s \in Streams, BeginTurn(s) \/ Admit(s) \/ Deny(s)
  PROVE  Fresh(s)
  <1>1. CASE BeginTurn(s)
    BY <1>1 DEF BeginTurn, At, GoTo, NewStream, Fresh, TypeOK, attemptVars
  <1>2. CASE Admit(s) \/ Deny(s)
    <2>1. st'[s] = [st[s] EXCEPT !.attempt = st[s].attempt + 1, !.machine = NewMachine]
      BY <1>2 DEF Admit, Deny, BeginAttempt, TypeOK
    <2>2. st[s] \in StreamState
      BY DEF TypeOK
    <2>3. st'[s].machine = NewMachine /\ st'[s].saw_any_content = st[s].saw_any_content
      BY <2>1, <2>2 DEF StreamState
    <2> QED BY <1>2, <2>3 DEF Admit, Deny, At, GoTo, Fresh, TypeOK, attemptVars
  <1> QED BY <1>1, <1>2

LEMMA BreaksOffTale ==
  ASSUME TypeOK, NEW s \in Streams, NEW c \in WireCause, WireExit(s, c), pc[s] \in InFlight,
         c \in {"first_byte_backstop", "connect_error"} \cup BodyCause =>
           pc[s] \in {"dial", "body"} \/ ~read_any[s]
  PROVE  BreaksOff(s)
  <1>1. /\ pc'[s] = "ended" /\ end'[s].type = "wire"
        /\ UNCHANGED <<st, read_any, heard, verdict>>
    BY DEF WireExit, GoTo, TypeOK, attemptVars
  <1>2. records'[s].last_end = c /\ records'[s].shown = records[s].shown \o <<>>
    BY DEF WireExit, EmitStreamEnd, TypeOK
  <1>3. records[s].shown \o <<>> = records[s].shown
    <2>1. records[s].shown \in Seq(Text \cup {None})
      BY DEF TypeOK, Testimony
    <2> QED BY <2>1
  <1> QED BY <1>1, <1>2, <1>3 DEF BreaksOff

LEMMA WireTale ==
  ASSUME TypeOK, NEW s \in Streams,
         \/ Clock(s) \/ DialCancelled(s) \/ ConnectError(s) \/ ReadCancelled(s) \/ Starved(s)
         \/ Stall(s) \/ TransportError(s) \/ Overflow(s)
  PROVE  BreaksOff(s)
  <1>1. ASSUME NEW c \in WireCause, At(s, "dial") \/ At(s, "body"), WireExit(s, c)
        PROVE  BreaksOff(s)
    BY <1>1, BreaksOffTale DEF At, InFlight
  <1>2. ASSUME NEW c \in WireCause, At(s, "read"), WireExit(s, c),
               c \in {"first_byte_backstop", "connect_error"} \cup BodyCause => ~read_any[s]
        PROVE  BreaksOff(s)
    BY <1>2, BreaksOffTale DEF At, InFlight
  <1>3. CASE \/ HeaderBackstop(s) \/ DialCancelled(s) \/ ConnectError(s)
             \/ \E c \in BodyCause : BodyRead(s, c)
    BY <1>1, <1>3 DEF HeaderBackstop, DialCancelled, ConnectError, BodyRead, WireCause
  <1>4. CASE Stall(s)
    <2>1. StallCause(s) \in WireCause /\ (StallCause(s) \in {"first_byte_backstop",
             "connect_error"} \cup BodyCause => ~read_any[s])
      BY DEF StallCause, WireCause, BodyCause
    <2> QED BY <1>2, <1>4, <2>1 DEF Stall
  <1>5. CASE \/ OverallDeadline(s) \/ ReadCancelled(s) \/ Starved(s) \/ TransportError(s)
             \/ Overflow(s)
    <2>1. PICK c \in {"overall_deadline", "cancelled", "throughput_starved", "transport_error",
                      "buffer_overflow"} : At(s, "read") /\ WireExit(s, c)
      BY <1>5 DEF OverallDeadline, ReadCancelled, Starved, TransportError, Overflow
    <2>2. c \in WireCause /\ c \notin {"first_byte_backstop", "connect_error"} \cup BodyCause
      BY DEF WireCause, BodyCause
    <2> QED BY <1>2, <2>1, <2>2
  <1> QED BY <1>3, <1>4, <1>5 DEF Clock

(* An exit that finalizes, with the record it leaves.                      *)
LEMMA FinishesTale ==
  ASSUME TypeOK, NEW s \in Streams, NEW last \in StreamState, NEW cause, NEW c, NEW errors,
         NEW taken, Finalized(s, last, cause), EmitStreamEnd(s, c, errors, taken),
         c = "closed_with_no_content" => ~last.saw_any_content
  PROVE  /\ Finishes(s, last, cause)
         /\ records'[s].last_end = c /\ records'[s].shown = records[s].shown \o taken
  <1>1. records'[s].last_end = c /\ records'[s].shown = records[s].shown \o taken
    BY DEF EmitStreamEnd, TypeOK
  <1> QED BY <1>1 DEF Finishes, Finalized, GoTo, TypeOK

LEMMA HandleTale ==
  ASSUME TypeOK, NEW s \in Streams, HandleContinue(s) \/ HandleDone(s) \/ HandleFault(s)
  PROVE  \E p \in Payload : HearsOn(s, p) \/ \E cause \in EndCause : HearsLast(s, p, cause)
  <1>1. PICK p \in Payload : p = Head(frames[s]).payload
    <2>1. frames[s] # <<>> /\ Head(frames[s]).kind = "data"
      BY DEF HandleContinue, HandleDone, HandleFault, AtFrame
    <2> QED BY <2>1, HeadPayload
  <1> DEFINE r == OnInstallment(st[s], p)
  <1>2. st[s] \in StreamState /\ records[s].shown \in Seq(Text \cup {None})
    BY DEF TypeOK, Testimony
  <1>3. /\ r.st \in StreamState
        /\ r.directive = "fault" <=> IsViolation(p)
        /\ r.directive = "stop_complete" => p.type = "done"
        /\ r.directive # "continue" => r.text = None
    <2>1. p.type = "done" \/ IsViolation(p) => ~CarriesText(p)
      BY CarriedType DEF CarriesText
    <2> QED BY <1>2, <2>1, OnInstallmentType, OnInstallmentEffect
  <1>4. /\ pc[s] = "frames" /\ heard'[s] = Append(heard[s], p) /\ UNCHANGED <<read_any, verdict>>
    BY <1>1 DEF HandleContinue, HandleDone, HandleFault, AtFrame, At, TypeOK
  <1>5. CASE HandleContinue(s)
    <2>1. PICK taken \in TrySend(r.text) :
            st' = [st EXCEPT ![s] = r.st] /\ EmitText(s, taken) /\ NextFrame(s) /\ end' = end
      BY <1>1, <1>5 DEF HandleContinue
    <2> HIDE DEF r
    <2>2. st'[s] = r.st /\ pc'[s] \in {"read", "frames"}
      BY <2>1 DEF NextFrame, GoTo, TypeOK
    <2>3. records'[s].shown = records[s].shown \o taken
      <3>1. records[s] \in Testimony
        BY DEF TypeOK
      <3> QED BY <2>1, <3>1 DEF EmitText, TypeOK, Testimony
    <2> QED BY <1>4, <2>1, <2>2, <2>3 DEF HearsOn, Hears, r
  <1>6. CASE HandleDone(s) \/ HandleFault(s)
    <2>1. PICK cause \in EndCause, c \in {"done_sentinel_consumed", "protocol_error"}, errors \in {0, 1} :
            /\ Finalized(s, r.st, cause) /\ EmitStreamEnd(s, c, errors, <<>>)
            /\ \/ c = "done_sentinel_consumed" /\ r.directive = "stop_complete"
               \/ c = "protocol_error" /\ r.directive = "fault"
      BY <1>1, <1>6 DEF HandleDone, HandleFault, EndCause
    <2>2. r.text = None
      BY <1>3, <2>1
    <2> HIDE DEF r
    <2>3. /\ Finishes(s, r.st, cause)
          /\ records'[s].last_end = c /\ records'[s].shown = records[s].shown \o <<>>
      BY <1>3, <2>1, FinishesTale
    <2>4. <<>> \in TrySend(r.text)
      BY <2>2 DEF TrySend
    <2>5. Hears(s, p)
      BY <1>4, <2>3, <2>4 DEF Hears, r
    <2>6. HearsLast(s, p, cause)
      BY <1>3, <2>1, <2>3, <2>5 DEF HearsLast, r
    <2> QED BY <2>6
  <1> QED BY <1>5, <1>6

LEMMA PeerClosesTale ==
  ASSUME TypeOK, NEW s \in Streams, PeerCloses(s) \/ \E p \in Payloads : PeerClosesOnTail(s, p)
  PROVE  Closes(s) \/ \E p \in Payload : HearsLast(s, p, "stream_ended")
  <1>1. st[s] \in StreamState /\ records[s].shown \in Seq(Text \cup {None})
    BY DEF TypeOK, Testimony
  <1>2. ASSUME NEW last \in StreamState
        PROVE  /\ CloseCause(last) = "closed_with_no_content" => ~last.saw_any_content
               /\ CloseCause(last) \in {"peer_closed", "closed_with_no_content"}
    BY DEF CloseCause
  <1>3. CASE PeerCloses(s)
    <2>1. /\ Finalized(s, st[s], "stream_ended")
          /\ EmitStreamEnd(s, CloseCause(st[s]), 0, <<>>)
          /\ pc[s] = "read" /\ UNCHANGED <<read_any, heard, verdict>>
      BY <1>3 DEF PeerCloses, At, attemptVars
    <2>2. /\ Finishes(s, st[s], "stream_ended")
          /\ records'[s].last_end = CloseCause(st[s])
          /\ records'[s].shown = records[s].shown \o <<>>
      BY <1>1, <1>2, <2>1, FinishesTale
    <2>3. records[s].shown \o <<>> = records[s].shown
      BY <1>1
    <2> QED BY <1>1, <1>2, <2>1, <2>2, <2>3 DEF Closes
  <1>4. ASSUME NEW p \in Payloads, PeerClosesOnTail(s, p)
        PROVE  p \in Payload /\ HearsLast(s, p, "stream_ended")
    <2> DEFINE r == OnInstallment(st[s], p)
               errors == IF r.directive = "fault" THEN 1 ELSE 0
    <2>1. p \in Payload
      BY DriverAssumption
    <2>2. r.st \in StreamState
      BY <1>1, <2>1, OnInstallmentType
    <2>3. PICK taken \in TrySend(r.text) :
            /\ Finalized(s, r.st, "stream_ended")
            /\ EmitStreamEnd(s, CloseCause(r.st), errors, taken)
            /\ pc[s] = "read" /\ read_any[s] /\ UNCHANGED <<read_any, verdict>>
            /\ heard' = [heard EXCEPT ![s] = Append(heard[s], p)]
      BY <1>4 DEF PeerClosesOnTail, At
    <2> HIDE DEF r, errors
    <2>4. /\ Finishes(s, r.st, "stream_ended")
          /\ records'[s].last_end = CloseCause(r.st)
          /\ records'[s].shown = records[s].shown \o taken
      BY <1>2, <2>2, <2>3, FinishesTale
    <2>5. Hears(s, p)
      BY <2>3, <2>4 DEF Hears, TypeOK, r
    <2> QED BY <1>2, <2>1, <2>2, <2>4, <2>5 DEF HearsLast, r
  <1> QED BY <1>3, <1>4

LEMMA OthersTale ==
  ASSUME TypeOK, NEW s \in Streams, Own(s) \/ Clock(s) \/ Environment(s),
         NEW t \in Streams \ {s}
  PROVE  SameTale(t)
  <1> USE DEF TypeOK, GoTo, attemptVars, SameTale
  <1>1. ASSUME NEW c, WireExit(s, c)
        PROVE  SameTale(t)
    BY <1>1 DEF WireExit, EmitStreamEnd
  <1>2. ASSUME NEW last, NEW cause, NEW c, NEW errors, NEW taken, Finalized(s, last, cause),
               EmitStreamEnd(s, c, errors, taken),
               \A u \in Streams \ {s} : heard'[u] = heard[u],
               UNCHANGED <<read_any, verdict>>
        PROVE  SameTale(t)
    BY <1>2 DEF Finalized, EmitStreamEnd
  <1>3. CASE BeginTurn(s) \/ Cancel(s) \/ Admit(s) \/ Deny(s)
    BY <1>3 DEF BeginTurn, Cancel, Admit, Deny
  <1>4. CASE Clock(s)
    BY <1>1, <1>4 DEF Clock, HeaderBackstop, BodyRead, OverallDeadline
  <1>5. CASE \/ DialCancelled(s) \/ ConnectError(s) \/ ReadCancelled(s) \/ Starved(s)
             \/ Stall(s) \/ TransportError(s) \/ Overflow(s)
    BY <1>1, <1>5 DEF DialCancelled, ConnectError, ReadCancelled, Starved, Stall, TransportError,
                      Overflow
  <1>6. CASE \/ \E next \in {"body", "read"} : Respond(s, next)
             \/ \E fs \in Reads : Read(s, fs)
             \/ PassFrame(s)
    BY <1>6 DEF Respond, Read, PassFrame, NextFrame
  <1>7. CASE HandleContinue(s)
    BY <1>7 DEF HandleContinue, EmitText, NextFrame
  <1>8. CASE HandleDone(s) \/ HandleFault(s)
    <2>1. /\ \A u \in Streams \ {s} : heard'[u] = heard[u]
          /\ UNCHANGED <<read_any, verdict>>
      BY <1>8 DEF HandleDone, HandleFault
    <2>2. \E last, cause, c, errors, taken :
            Finalized(s, last, cause) /\ EmitStreamEnd(s, c, errors, taken)
      BY <1>8 DEF HandleDone, HandleFault
    <2> QED BY <1>2, <2>1, <2>2
  <1>9. CASE PeerCloses(s) \/ \E p \in Payloads : PeerClosesOnTail(s, p)
    <2>1. /\ \A u \in Streams \ {s} : heard'[u] = heard[u]
          /\ UNCHANGED <<read_any, verdict>>
      BY <1>9 DEF PeerCloses, PeerClosesOnTail
    <2>2. \E last, cause, c, errors, taken :
            Finalized(s, last, cause) /\ EmitStreamEnd(s, c, errors, taken)
      BY <1>9 DEF PeerCloses, PeerClosesOnTail
    <2> QED BY <1>2, <2>1, <2>2
  <1>10. CASE ReturnBucket(s) \/ Retry(s)
    BY <1>10 DEF ReturnBucket, Retry
  <1>11. CASE Commit(s) \/ GiveUpCancelled(s) \/ Failover(s) \/ GiveUp(s)
    BY <1>11 DEF Commit, GiveUpCancelled, Failover, GiveUp, Conclude
  <1> QED BY <1>3, <1>4, <1>5, <1>6, <1>7, <1>8, <1>9, <1>10, <1>11 DEF Own, Environment

(* Every step is one turn telling something, or tells nothing at all.      *)
LEMMA StepTale ==
  ASSUME TypeOK, [Next]_vars
  PROVE  \/ \E s \in Streams : (Tells(s) \/ SameTale(s)) /\ \A t \in Streams \ {s} : SameTale(t)
         \/ \A s \in Streams : SameTale(s)
  <1>1. ASSUME NEW s \in Streams, Own(s)
        PROVE  Tells(s)
    <2>1. CASE PassFrame(s)
      BY <2>1 DEF PassFrame, AtFrame, At, NextFrame, GoTo, Waits, Tells, TypeOK
    <2>2. CASE ReturnBucket(s) \/ Retry(s)
      BY <2>2 DEF ReturnBucket, Retry, Consults, At, GoTo, Decides, Tells, TypeOK, attemptVars
    <2>3. CASE Commit(s) \/ GiveUpCancelled(s) \/ Failover(s) \/ GiveUp(s)
      BY <2>3 DEF Commit, GiveUpCancelled, Failover, GiveUp, Consults, Conclude, At, GoTo, Decides,
                  Tells, TypeOK, attemptVars
    <2> QED BY <1>1, <2>1, <2>2, <2>3, FreshTale, HandleTale DEF Own, Tells
  <1>2. ASSUME NEW s \in Streams, Environment(s)
        PROVE  Tells(s) \/ SameTale(s)
    <2>1. CASE Cancel(s)
      BY <2>1 DEF Cancel, SameTale, attemptVars
    <2>2. CASE \E next \in {"body", "read"} : Respond(s, next)
      BY <2>2 DEF Respond, At, GoTo, Waits, Tells, TypeOK, attemptVars
    <2>3. CASE \E fs \in Reads : Read(s, fs)
      BY <2>3 DEF Read, At, GoTo, Waits, Tells, TypeOK
    <2>4. CASE PeerCloses(s) \/ \E p \in Payloads : PeerClosesOnTail(s, p)
      BY <2>4, PeerClosesTale DEF Tells, EndCause
    <2> QED BY <1>2, <2>1, <2>2, <2>3, <2>4, FreshTale, WireTale DEF Environment, Tells
  <1>3. ASSUME NEW s \in Streams, Clock(s)
        PROVE  Tells(s)
    BY <1>3, WireTale DEF Tells
  <1>4. UNCHANGED vars => \A s \in Streams : SameTale(s)
    BY DEF vars, attemptVars, SameTale
  <1> QED BY <1>1, <1>2, <1>3, <1>4, OthersTale DEF Next, AllDone

-----------------------------------------------------------------------------
(* The answer.  While an attempt runs its machine has been told exactly    *)
(* what this attempt has heard; from its return on the outcome stands for  *)
(* it, until it is the verdict.                                            *)

Returned(s) == pc[s] \in {"ended", "strategy"} /\ IsCommit(end[s])

Told(s) ==
  /\ pc[s] \in InFlight => Follows(st[s].machine, heard[s])
  /\ Returned(s) => Answers(end[s].res, heard[s])
  /\ verdict[s].type = "committed" => Answers(verdict[s].outcome, heard[s])

(* What was emitted for the screen ends with what the machine, the outcome *)
(* or the verdict has.                                                     *)
ShownLast(s) ==
  /\ EndsWith(records[s].shown, st[s].machine.content)
  /\ Returned(s) => EndsWith(records[s].shown, end[s].res.content)
  /\ verdict[s].type = "committed" => EndsWith(records[s].shown, verdict[s].outcome.content)

NoText(ps) == \A i \in 1..Len(ps) : ~CarriesText(ps[i])

(* What the driver's flags say of what this attempt has heard.             *)
Listened(s) ==
  /\ pc[s] \in {"idle", "dial", "body"} => heard[s] = <<>>
  /\ pc[s] \notin {"read", "frames", "ended"} => ~read_any[s]
  /\ pc[s] = "read" /\ ~read_any[s] => heard[s] = <<>>
  /\ pc[s] = "frames" => read_any[s]
  /\ ~st[s].saw_any_content => NoText(heard[s])

Tale(s) == Told(s) /\ ShownLast(s) /\ Listened(s) /\ CauseHonest(s)

Tales == \A s \in Streams : Tale(s)

LEMMA InitTales == Init => Tales
  <1> SUFFICES ASSUME Init, NEW s \in Streams PROVE Tale(s)
    BY DEF Tales
  <1>1. /\ pc[s] = "idle" /\ st[s] = NewStream /\ heard[s] = <<>> /\ ~read_any[s]
        /\ verdict[s].type = "open" /\ records[s].shown = <<>>
    BY DEF Init, NoTestimony, Open
  <1>2. st[s].machine.content = <<>>
    BY <1>1 DEF NewStream, NewMachine
  <1>3. EndsWith(<<>>, <<>>)
    BY DEF EndsWith
  <1> QED BY <1>1, <1>2, <1>3 DEF Tale, Told, ShownLast, Returned, Listened, NoText, CauseHonest,
                                  InFlight

LEMMA SameTaleKept ==
  ASSUME NEW s \in Streams, Tale(s), SameTale(s)
  PROVE  Tale(s)'
  BY DEF Tale, Told, ShownLast, Returned, Listened, CauseHonest, SameTale, NoText

LEMMA TellsTold ==
  ASSUME TypeOK, Ledgers, NEW s \in Streams, Told(s), Tells(s)
  PROVE  Told(s)'
  <1>1. st[s] \in StreamState /\ st[s].machine \in Machine /\ heard[s] \in Seq(Payload)
    BY DEF TypeOK, StreamState
  <1>2. pc[s] # "done" => verdict[s].type # "committed"
    BY DEF Ledgers, Ledger
  <1>3. CASE Fresh(s)
    BY <1>2, <1>3, NewFollows DEF Fresh, Told, Returned, InFlight
  <1>4. CASE Waits(s)
    BY <1>2, <1>4 DEF Waits, Told, Returned, InFlight
  <1>5. ASSUME NEW last \in StreamState, NEW cause \in EndCause, Finishes(s, last, cause),
               Follows(last.machine, heard'[s]), verdict'[s].type # "committed"
        PROVE  Told(s)'
    <2>1. Returned(s)' => Answers(Finalize(last.machine, cause), heard'[s])
      <3>1. last.machine \in Machine
        BY DEF StreamState
      <3> QED BY <1>5, <3>1, OutcomeAnswers DEF Finishes, Returned, IsCommit
    <2> QED BY <1>5, <2>1 DEF Finishes, Told, InFlight
  <1>6. ASSUME NEW p \in Payload, Hears(s, p)
        PROVE  /\ OnInstallment(st[s], p).st \in StreamState
               /\ Follows(OnInstallment(st[s], p).st.machine, heard'[s])
               /\ verdict'[s].type # "committed"
    <2>1. pc[s] \in InFlight /\ heard'[s] = Append(heard[s], p) /\ verdict' = verdict
      BY <1>6 DEF Hears, InFlight
    <2>2. Follows(st[s].machine, heard[s])
      BY <2>1 DEF Told
    <2> QED BY <1>1, <1>2, <2>1, <2>2, FollowsExtends, OnInstallmentType DEF InFlight
  <1>7. ASSUME NEW p \in Payload, HearsOn(s, p)
        PROVE  Told(s)'
    BY <1>6, <1>7 DEF HearsOn, Told, Returned
  <1>8. ASSUME NEW p \in Payload, NEW cause \in EndCause, HearsLast(s, p, cause)
        PROVE  Told(s)'
    BY <1>5, <1>6, <1>8 DEF HearsLast
  <1>9. CASE Closes(s)
    <2>1. /\ Follows(st[s].machine, heard'[s]) /\ verdict'[s].type # "committed"
          /\ Finishes(s, st[s], "stream_ended") /\ "stream_ended" \in EndCause
      BY <1>2, <1>9 DEF Closes, Told, InFlight, EndCause
    <2> QED BY <1>1, <1>5, <2>1
  <1>10. CASE BreaksOff(s)
    BY <1>2, <1>10 DEF BreaksOff, Told, Returned, IsCommit, InFlight
  <1>11. CASE Decides(s)
    BY <1>2, <1>11 DEF Decides, Told, Returned, InFlight
  <1> QED BY <1>3, <1>4, <1>7, <1>8, <1>9, <1>10, <1>11 DEF Tells

LEMMA TellsShown ==
  ASSUME TypeOK, Ledgers, NEW s \in Streams, ShownLast(s), Tells(s)
  PROVE  ShownLast(s)'
  <1>1. /\ st[s] \in StreamState /\ st[s].machine \in Machine
        /\ records[s].shown \in Seq(Text \cup {None})
    BY DEF TypeOK, StreamState, Testimony
  <1>2. pc[s] # "done" => verdict[s].type # "committed"
    BY DEF Ledgers, Ledger
  <1>3. NewMachine.content = <<>>
    BY DEF NewMachine
  <1>4. CASE Fresh(s)
    <2>1. EndsWith(records[s].shown, <<>>)
      BY <1>1, EndsWithNothing
    <2> QED BY <1>2, <1>3, <1>4, <2>1 DEF Fresh, ShownLast, Returned
  <1>5. CASE Waits(s)
    BY <1>2, <1>5 DEF Waits, ShownLast, Returned
  <1>6. ASSUME NEW last \in StreamState, NEW cause \in EndCause, Finishes(s, last, cause),
               records'[s].shown \in Seq(Text \cup {None}),
               EndsWith(records'[s].shown, last.machine.content), verdict'[s].type # "committed"
        PROVE  ShownLast(s)'
    <2>1. Returned(s)' => EndsWith(records'[s].shown, Finalize(last.machine, cause).content)
      <3>1. last.machine \in Machine
        BY DEF StreamState
      <3> QED BY <1>6, <3>1, FinalizeVerdict DEF Finishes, Returned, IsCommit
    <2>2. st'[s].machine.content = <<>>
      BY <1>3, <1>6 DEF Finishes, Consumed, StreamState
    <2>3. EndsWith(records'[s].shown, <<>>)
      BY <1>6, EndsWithNothing
    <2> QED BY <1>6, <2>1, <2>2, <2>3 DEF Finishes, ShownLast
  <1>7. ASSUME NEW p \in Payload, Hears(s, p)
        PROVE  /\ OnInstallment(st[s], p).st \in StreamState
               /\ records'[s].shown \in Seq(Text \cup {None})
               /\ EndsWith(records'[s].shown, OnInstallment(st[s], p).st.machine.content)
               /\ verdict'[s].type # "committed"
    <2> DEFINE r == OnInstallment(st[s], p)
    <2>1. PICK taken \in TrySend(r.text) :
            /\ records'[s].shown = records[s].shown \o taken
            /\ verdict' = verdict /\ pc[s] # "done"
      BY <1>7 DEF Hears
    <2>2. r.st \in StreamState /\ taken \in Seq(Text \cup {None})
      BY <1>1, OnInstallmentType, TrySendType
    <2>3. EndsWith(records[s].shown \o taken, r.st.machine.content)
      BY <1>1, EndsWithExtends DEF ShownLast
    <2> HIDE DEF r
    <2>4. records[s].shown \o taken \in Seq(Text \cup {None})
      BY <1>1, <2>2
    <2> QED BY <1>2, <2>1, <2>2, <2>3, <2>4 DEF r
  <1>8. ASSUME NEW p \in Payload, HearsOn(s, p)
        PROVE  ShownLast(s)'
    BY <1>7, <1>8 DEF HearsOn, ShownLast, Returned
  <1>9. ASSUME NEW p \in Payload, NEW cause \in EndCause, HearsLast(s, p, cause)
        PROVE  ShownLast(s)'
    BY <1>6, <1>7, <1>9 DEF HearsLast
  <1>10. CASE Closes(s)
    <2>1. /\ EndsWith(records'[s].shown, st[s].machine.content) /\ verdict'[s].type # "committed"
          /\ records'[s].shown \in Seq(Text \cup {None})
          /\ Finishes(s, st[s], "stream_ended") /\ "stream_ended" \in EndCause
      BY <1>1, <1>2, <1>10 DEF Closes, ShownLast, EndCause
    <2> QED BY <1>1, <1>6, <2>1
  <1>11. CASE BreaksOff(s)
    BY <1>2, <1>11 DEF BreaksOff, ShownLast, Returned, IsCommit, InFlight
  <1>12. CASE Decides(s)
    BY <1>2, <1>12 DEF Decides, ShownLast, Returned
  <1> QED BY <1>4, <1>5, <1>8, <1>9, <1>10, <1>11, <1>12 DEF Tells

LEMMA NoTextExtends ==
  ASSUME NEW ps \in Seq(Payload), NEW p \in Payload, NoText(ps), ~CarriesText(p)
  PROVE  NoText(Append(ps, p))
  BY DEF NoText

LEMMA TellsListened ==
  ASSUME TypeOK, NEW s \in Streams, Listened(s), Tells(s)
  PROVE  Listened(s)' /\ CauseHonest(s)'
  <1>1. /\ st[s] \in StreamState /\ heard[s] \in Seq(Payload)
        /\ \A x \in StreamState : Consumed(x).saw_any_content = x.saw_any_content
    BY DEF TypeOK, StreamState, Consumed
  <1>2. NoText(<<>>)
    BY DEF NoText
  <1>3. CASE Fresh(s)
    BY <1>2, <1>3 DEF Fresh, Listened, CauseHonest
  <1>4. CASE Waits(s)
    BY <1>4 DEF Waits, Listened, CauseHonest
  <1>5. ASSUME NEW p \in Payload, Hears(s, p)
        PROVE  /\ read_any'[s] /\ heard'[s] = Append(heard[s], p) /\ heard'[s] # <<>>
               /\ heard'[s][Len(heard'[s])] = p
               /\ OnInstallment(st[s], p).st \in StreamState
               /\ ~OnInstallment(st[s], p).st.saw_any_content => NoText(heard'[s])
    <2>1. /\ heard'[s] = Append(heard[s], p) /\ read_any'[s]
      BY <1>5 DEF Hears, Listened
    <2>2. Append(heard[s], p) # <<>> /\ Append(heard[s], p)[Len(Append(heard[s], p))] = p
      BY <1>1
    <2>3. OnInstallment(st[s], p).st.saw_any_content = (st[s].saw_any_content \/ CarriesText(p))
      BY <1>1, OnInstallmentEffect
    <2> QED BY <1>1, <2>1, <2>2, <2>3, NoTextExtends, OnInstallmentType DEF Listened
  <1>6. ASSUME NEW p \in Payload, HearsOn(s, p)
        PROVE  Listened(s)' /\ CauseHonest(s)'
    BY <1>5, <1>6 DEF HearsOn, Listened, CauseHonest
  <1>7. ASSUME NEW p \in Payload, NEW cause \in EndCause, HearsLast(s, p, cause)
        PROVE  Listened(s)' /\ CauseHonest(s)'
    <2> DEFINE last == OnInstallment(st[s], p).st
    <2>1. /\ last \in StreamState /\ heard'[s] # <<>> /\ heard'[s][Len(heard'[s])] = p
          /\ ~last.saw_any_content => NoText(heard'[s])
      BY <1>5, <1>7 DEF HearsLast
    <2>2. /\ Finishes(s, last, cause)
          /\ \/ records'[s].last_end = "done_sentinel_consumed" /\ p.type = "done"
             \/ records'[s].last_end = "protocol_error" /\ IsViolation(p)
             \/ records'[s].last_end \in {"peer_closed", "closed_with_no_content"}
      BY <1>7 DEF HearsLast
    <2> HIDE DEF last
    <2>3. pc'[s] = "ended" /\ st'[s].saw_any_content = last.saw_any_content
      BY <1>1, <2>1, <2>2 DEF Finishes
    <2>4. Listened(s)'
      BY <2>1, <2>3 DEF Listened
    <2>5. CauseHonest(s)'
      BY <2>1, <2>2 DEF CauseHonest, Finishes, NoText, BodyCause
    <2> QED BY <2>4, <2>5
  <1>8. CASE Closes(s)
    BY <1>1, <1>8 DEF Closes, Finishes, Listened, CauseHonest, NoText, BodyCause
  <1>9. CASE BreaksOff(s)
    <2>1. records'[s].last_end \in {"first_byte_backstop", "connect_error"} \cup BodyCause =>
            heard[s] = <<>>
      BY <1>9 DEF BreaksOff, Listened, InFlight
    <2>2. records'[s].last_end \notin {"done_sentinel_consumed", "protocol_error",
                                       "closed_with_no_content"}
      BY <1>9 DEF BreaksOff, WireCause, BodyCause
    <2> QED BY <1>9, <2>1, <2>2 DEF BreaksOff, Listened, CauseHonest
  <1>10. CASE Decides(s)
    BY <1>10 DEF Decides, Listened, CauseHonest
  <1> QED BY <1>3, <1>4, <1>6, <1>7, <1>8, <1>9, <1>10 DEF Tells

LEMMA StepTales ==
  ASSUME TypeOK, Ledgers, Tales, [Next]_vars
  PROVE  Tales'
  <1>1. ASSUME NEW s \in Streams, Tells(s)
        PROVE  Tale(s)'
    BY <1>1, TellsTold, TellsShown, TellsListened DEF Tales, Tale
  <1>2. ASSUME NEW s \in Streams, SameTale(s)
        PROVE  Tale(s)'
    BY <1>2, SameTaleKept DEF Tales
  <1> QED BY <1>1, <1>2, StepTale DEF Tales

LEMMA TalesSafe == Spec => []Tales
  BY Typed, LedgerSafe, InitTales, StepTales, PTL DEF Spec

(* INV-CHAT-04 and INV-CHAT-05 across retries, for every sequence of       *)
(* payloads and every allowance: a verdict is the testimony of the         *)
(* committing attempt.                                                     *)
THEOREM CommitSafe == Spec => []CommitIsThisAttempt
  <1>1. Tales => CommitIsThisAttempt
    BY DEF Tales, Tale, Told, Answers, CommitIsThisAttempt
  <1> QED BY <1>1, TalesSafe, PTL

(* A committed answer was emitted for the terminal last and in one piece;  *)
(* whichever records the channel drops, the screen lacks nothing else.     *)
THEOREM ShownSafe == Spec => []ScreenLacksOnlyDrops
  <1>1. Tales => ScreenLacksOnlyDrops
    BY DEF Tales, Tale, ShownLast, ScreenLacksOnlyDrops
  <1> QED BY <1>1, TalesSafe, PTL

(* The cause a StreamEnd record names is what the attempt has heard.       *)
THEOREM CauseSafe == Spec => []EndCauseHonest
  <1>1. Tales => EndCauseHonest
    BY DEF Tales, Tale, EndCauseHonest
  <1> QED BY <1>1, TalesSafe, PTL

=============================================================================
