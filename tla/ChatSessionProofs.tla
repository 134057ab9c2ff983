--------------------------- MODULE ChatSessionProofs ---------------------------
(***************************************************************************)
(* What the terminal loop keeps, for every set of lines, every allowance,  *)
(* every pool and with or without a system prompt.  The history is open,   *)
(* one line longer than its pairs, exactly while a turn runs, and only the *)
(* turn that runs holds a slot; both survive the failover, where one line  *)
(* is put to a second turn.                                                *)
(***************************************************************************)
EXTENDS ChatSession, FiniteSetTheorems, SequenceTheorems, TLAPS

Messages == [role : {"system", "user", "assistant"}, by : 0..(2 * MaxLines)]

Running == at \in {"primary", "alternative"}

Types == /\ has_failover \in BOOLEAN
         /\ at = "starting" <=> stage # "started"
         /\ at \in Stage
         /\ history \in Seq(Messages)
         /\ stream_id \in Nat /\ spent \in 0..MaxLines
         /\ typed \in Seq(Lines) /\ Len(typed) = stream_id

(* Two turns at most for each line, so that the ids suffice.               *)
Numbered == /\ stream_id =< 2 * spent
            /\ at = "primary" => stream_id < 2 * spent /\ stream_id > 0
            /\ at = "alternative" => stream_id > 1

(* The turns of the contract: those that are over have an outcome, those   *)
(* to come are new, and a slot is held by the running turn only.           *)
Contracts ==
  /\ phase \in [StreamIds -> {"new", "ready", "calling", "called", "over"}]
  /\ calls \in [StreamIds -> Nat]
  /\ outcome \in [StreamIds -> {"none", "committed", "failover", "failed"}]
  /\ \A t \in StreamIds : phase[t] # "over" => outcome[t] = "none"
  /\ \A t \in StreamIds : t > stream_id => phase[t] = "new"
  /\ Running => IF phase[stream_id] = "calling" THEN free \in Nat /\ free + 1 = Buckets
                                                 ELSE free = Buckets
  /\ ~Running => free = Buckets
  /\ Buckets > 0 => \A t \in StreamIds : outcome[t] = "failed" => calls[t] > 0

-----------------------------------------------------------------------------
(* The history.                                                            *)

Base == IF System THEN 1 ELSE 0

(* The k-th pair is a line and the answer of a committed turn to it.       *)
Paired(k) ==
  LET line == history[Base + 2 * k - 1]
      answer == history[Base + 2 * k]
  IN  /\ line.role = "user" /\ answer.role = "assistant"
      /\ line.by \in 1..stream_id /\ answer.by \in 1..stream_id
      /\ answer.by \in {line.by, line.by + 1}
      /\ typed[answer.by] = typed[line.by]
      /\ outcome[answer.by] = "committed"

(* n pairs, and the line of the running turn behind them.                  *)
Holds(n) ==
  /\ Len(history) = Base + 2 * n + (IF Running THEN 1 ELSE 0)
  /\ \A k \in 1..n : Paired(k)

OpenLine ==
  Running => /\ history[Len(history)].role = "user"
             /\ history[Len(history)].by = IF at = "primary" THEN stream_id ELSE stream_id - 1
             /\ typed[stream_id] = typed[history[Len(history)].by]

OnlyFirst == \A i \in 1..Len(history) : history[i].role = "system" <=> System /\ i = 1

Dialog == at \notin {"left", "panicked"} => OnlyFirst /\ OpenLine /\ \E n \in Nat : Holds(n)

IInv == Types /\ Numbered /\ Contracts /\ Dialog

-----------------------------------------------------------------------------
(* Sequences.                                                              *)

LEMMA Appended ==
  ASSUME NEW S, NEW s \in Seq(S), NEW e \in S
  PROVE  /\ Append(s, e) \in Seq(S) /\ Len(Append(s, e)) = Len(s) + 1 /\ Len(s) \in Nat
         /\ \A i \in 1..Len(s) : Append(s, e)[i] = s[i] /\ s[i] \in S
         /\ Append(s, e)[Len(s) + 1] = e
<1>1. Len(s) \in Nat /\ \A i \in 1..Len(s) : s[i] \in S
  BY ElementOfSeq, LenProperties
<1>2. /\ Append(s, e) \in Seq(S) /\ Len(Append(s, e)) = Len(s) + 1
      /\ Append(s, e)[Len(s) + 1] = e
  BY AppendProperties
<1>3. \A i \in 1..Len(s) : Append(s, e)[i] = s[i]
  BY AppendProperties
<1>. QED BY <1>1, <1>2, <1>3, Zenon

LEMMA Shortened ==
  ASSUME NEW S, NEW s \in Seq(S), Len(s) > 0
  PROVE  /\ Front(s) \in Seq(S) /\ Len(Front(s)) = Len(s) - 1
         /\ \A i \in 1..(Len(s) - 1) : Front(s)[i] = s[i]
<1>1. Len(s) \in Nat /\ \A i \in 1..Len(s) : s[i] \in S
  BY ElementOfSeq, LenProperties
<1>2. PICK n \in Nat : n = Len(s) - 1
  BY <1>1
<1>3. 1 \in Int /\ n \in Int /\ \A i \in 1..n : s[i] \in S
  BY <1>1, <1>2
<1>4. /\ SubSeq(s, 1, n) \in Seq(S) /\ Len(SubSeq(s, 1, n)) = (IF 1 <= n THEN n - 1 + 1 ELSE 0)
      /\ \A i \in 1..(n - 1 + 1) : SubSeq(s, 1, n)[i] = s[1 + i - 1]
  BY <1>3, SubSeqProperties
<1>5. Front(s) = SubSeq(s, 1, n)
  BY <1>2 DEF Front
<1>6. /\ (IF 1 <= n THEN n - 1 + 1 ELSE 0) = n /\ n - 1 + 1 = n
      /\ \A i \in 1..n : 1 + i - 1 = i
  OBVIOUS
<1>. QED BY <1>2, <1>4, <1>5, <1>6

(* What /reset retains is the system prompt, if there is one.              *)
LEMMA RetainSystem ==
  ASSUME Types, OnlyFirst, Len(history) >= Base
  PROVE  /\ Retain("system") \in Seq(Messages) /\ Len(Retain("system")) = Base
         /\ \A i \in 1..Base : Retain("system")[i].role = "system" /\ System
<1>. DEFINE places == {i \in DOMAIN history : history[i].role = "system"}
            nth(k) == CHOOSE i \in places : Cardinality({j \in places : j =< i}) = k
<1>1. Retain("system") = [k \in 1..Cardinality(places) |-> history[nth(k)]]
  BY DEF Retain
<1>2. DOMAIN history = 1..Len(history) /\ Len(history) \in Nat
      /\ \A i \in 1..Len(history) : history[i] \in Messages
  BY DEF Types
<1>3. CASE System
  <2>1. places = {1}
    BY <1>2, <1>3 DEF OnlyFirst, Base
  <2>2. Cardinality(places) = 1
    BY <2>1, FS_Singleton
  <2>3. {j \in places : j =< 1} = places
    BY <2>1
  <2>4. nth(1) = 1
    BY <2>1, <2>2, <2>3
  <2>5. 1 \in 1..Len(history)
    BY <1>2, <1>3 DEF Base
  <2>. HIDE DEF nth, places
  <2>6. Retain("system") = [k \in 1..1 |-> history[nth(k)]]
    BY <1>1, <2>2
  <2>7. Retain("system") \in Seq(Messages) /\ Len(Retain("system")) = 1 /\ Retain("system")[1] = history[1]
    <3>1. \A k \in 1..1 : nth(k) = 1
      BY <2>4
    <3>2. Retain("system") = [k \in 1..1 |-> history[1]]
      BY <2>6, <3>1
    <3>3. history[1] \in Messages
      BY <1>2, <2>5
    <3>4. \A e \in Messages : [k \in 1..1 |-> e] = <<e>>
      OBVIOUS
    <3>5. Retain("system") = <<history[1]>>
      BY <3>2, <3>3, <3>4
    <3>6. \A e \in Messages : <<e>> \in Seq(Messages) /\ Len(<<e>>) = 1 /\ <<e>>[1] = e
      OBVIOUS
    <3>7. /\ <<history[1]>> \in Seq(Messages) /\ Len(<<history[1]>>) = 1
          /\ <<history[1]>>[1] = history[1]
      BY <3>3, <3>6
    <3>. QED BY <3>5, <3>7, Zenon
  <2>8. history[1].role = "system"
    BY <1>3, <2>5 DEF OnlyFirst
  <2>9. Base = 1 /\ \A i \in 1..1 : i = 1
    BY <1>3 DEF Base
  <2>. QED BY <1>3, <2>7, <2>8, <2>9
<1>4. CASE ~System
  <2>1. places = {}
    BY <1>2, <1>4 DEF OnlyFirst
  <2>2. Cardinality(places) = 0
    BY <2>1, FS_EmptySet
  <2>. HIDE DEF nth, places
  <2>3. Retain("system") = [k \in 1..0 |-> history[nth(k)]]
    BY <1>1, <2>2
  <2>4. Retain("system") = <<>>
    BY <2>3
  <2>5. Base = 0 /\ \A i \in 1..0 : FALSE
    BY <1>4 DEF Base
  <2>6. <<>> \in Seq(Messages) /\ Len(<<>>) = 0
    OBVIOUS
  <2>. QED BY <2>4, <2>5, <2>6
<1>. QED BY <1>3, <1>4

-----------------------------------------------------------------------------
(* The turns of the contract.                                              *)

(* What one step of the running turn may do to the turns.                  *)
LEMMA OneTurn ==
  ASSUME Types, Numbered, Contracts, TurnStep
  PROVE  /\ Contracts'
         /\ \A t \in StreamIds : outcome[t] # "none" => outcome'[t] = outcome[t]
<1>. USE SessionAssumption DEF SessionAssumption
<1>. DEFINE t == stream_id
<1>1. /\ Running /\ Running' /\ stream_id' = stream_id /\ t \in StreamIds
      /\ phase[t] = "calling" => free \in Nat /\ free + 1 = Buckets
      /\ phase[t] # "calling" => free = Buckets
  BY DEF TurnStep, Running, Types, Numbered, Contracts, StreamIds
<1>2. /\ phase \in [StreamIds -> {"new", "ready", "calling", "called", "over"}]
      /\ calls \in [StreamIds -> Nat]
      /\ outcome \in [StreamIds -> {"none", "committed", "failover", "failed"}]
      /\ \A i \in StreamIds : phase[i] # "over" => outcome[i] = "none"
      /\ \A i \in StreamIds : i > stream_id => phase[i] = "new"
      /\ Buckets > 0 => \A i \in StreamIds : outcome[i] = "failed" => calls[i] > 0
  BY DEF Contracts
<1>3. ~(t > t)
  BY DEF Types
<1>. HIDE DEF t
<1>4. ASSUME NEW to \in {"ready", "calling", "called"}, phase[t] # "over",
             phase' = [phase EXCEPT ![t] = to], UNCHANGED outcome,
             calls' \in [StreamIds -> Nat], \A i \in StreamIds : calls[i] > 0 => calls'[i] > 0,
             IF to = "calling" THEN free' \in Nat /\ free' + 1 = Buckets ELSE free' = Buckets
      PROVE  Contracts' /\ \A i \in StreamIds : outcome[i] # "none" => outcome'[i] = outcome[i]
  <2>1. /\ phase' \in [StreamIds -> {"new", "ready", "calling", "called", "over"}]
        /\ phase'[t] = to /\ \A i \in StreamIds : i # t => phase'[i] = phase[i]
    BY <1>1, <1>2, <1>4
  <2>2. \A i \in StreamIds : phase'[i] # "over" => outcome'[i] = "none"
    BY <1>2, <1>4, <2>1
  <2>3. \A i \in StreamIds : i > stream_id' => phase'[i] = "new"
    BY <1>1, <1>2, <1>3, <2>1 DEF t
  <2>4. Buckets > 0 => \A i \in StreamIds : outcome'[i] = "failed" => calls'[i] > 0
    BY <1>2, <1>4
  <2>5. IF phase'[stream_id'] = "calling" THEN free' \in Nat /\ free' + 1 = Buckets ELSE free' = Buckets
    BY <1>1, <1>4, <2>1 DEF t
  <2>. QED BY <1>1, <1>2, <1>4, <2>1, <2>2, <2>3, <2>4, <2>5 DEF Contracts
<1>5. ASSUME NEW o \in {"committed", "failover", "failed"}, phase[t] \in {"ready", "called"},
             phase' = [phase EXCEPT ![t] = "over"], outcome' = [outcome EXCEPT ![t] = o],
             UNCHANGED <<free, calls>>, o = "failed" /\ Buckets > 0 => calls[t] > 0
      PROVE  Contracts' /\ \A i \in StreamIds : outcome[i] # "none" => outcome'[i] = outcome[i]
  <2>1. /\ phase' \in [StreamIds -> {"new", "ready", "calling", "called", "over"}]
        /\ phase'[t] = "over" /\ \A i \in StreamIds : i # t => phase'[i] = phase[i]
    BY <1>1, <1>2, <1>5
  <2>2. /\ outcome' \in [StreamIds -> {"none", "committed", "failover", "failed"}]
        /\ outcome'[t] = o /\ \A i \in StreamIds : i # t => outcome'[i] = outcome[i]
    BY <1>1, <1>2, <1>5
  <2>3. \A i \in StreamIds : phase'[i] # "over" => outcome'[i] = "none"
    BY <1>2, <2>1, <2>2
  <2>4. \A i \in StreamIds : i > stream_id' => phase'[i] = "new"
    BY <1>1, <1>2, <1>3, <2>1 DEF t
  <2>5. Buckets > 0 => \A i \in StreamIds : outcome'[i] = "failed" => calls'[i] > 0
    BY <1>2, <1>5, <2>2
  <2>6. free' = Buckets /\ phase'[stream_id'] # "calling"
    BY <1>1, <1>5, <2>1 DEF t
  <2>7. outcome[t] = "none"
    BY <1>1, <1>2, <1>5
  <2>. QED BY <1>1, <1>2, <1>5, <2>1, <2>2, <2>3, <2>4, <2>5, <2>6, <2>7 DEF Contracts
<1>6. CASE Turn!Call(stream_id)
  <2>1. /\ phase[t] = "ready" /\ phase' = [phase EXCEPT ![t] = "calling"]
        /\ free > 0 /\ free' = free - 1 /\ calls' = [calls EXCEPT ![t] = @ + 1] /\ UNCHANGED outcome
    BY <1>6 DEF Turn!Call, Turn!Move, t
  <2>2. free' \in Nat /\ free' + 1 = Buckets
    BY <1>1, <2>1
  <2>3. calls' \in [StreamIds -> Nat] /\ \A i \in StreamIds : calls[i] > 0 => calls'[i] > 0
    BY <1>1, <1>2, <2>1
  <2>. QED BY <1>4, <2>1, <2>2, <2>3
<1>7. CASE Turn!HangUp(stream_id)
  <2>1. /\ phase[t] = "calling" /\ phase' = [phase EXCEPT ![t] = "called"]
        /\ free' = free + 1 /\ UNCHANGED <<calls, outcome>>
    BY <1>7 DEF Turn!HangUp, Turn!Move, t
  <2>. QED BY <1>1, <1>2, <1>4, <2>1
<1>8. CASE Turn!CallAgain(stream_id)
  <2>1. /\ phase[t] = "called" /\ phase' = [phase EXCEPT ![t] = "ready"]
        /\ UNCHANGED <<free, calls, outcome>>
    BY <1>8 DEF Turn!CallAgain, Turn!Move, t
  <2>. QED BY <1>1, <1>2, <1>4, <2>1
<1>9. CASE Turn!Refuse(stream_id)
  <2>1. /\ phase[t] = "ready" /\ phase' = [phase EXCEPT ![t] = "over"] /\ free = 0
        /\ outcome' = [outcome EXCEPT ![t] = "failed"] /\ UNCHANGED <<free, calls>>
    BY <1>9 DEF Turn!Refuse, Turn!Give, Turn!Move, t
  <2>. QED BY <1>1, <1>5, <2>1
<1>10. CASE Turn!Commit(stream_id)
  <2>1. /\ phase[t] = "called" /\ phase' = [phase EXCEPT ![t] = "over"]
        /\ outcome' = [outcome EXCEPT ![t] = "committed"] /\ UNCHANGED <<free, calls>>
    BY <1>10 DEF Turn!Commit, Turn!Give, Turn!Move, t
  <2>. QED BY <1>5, <2>1
<1>11. CASE Turn!Exhaust(stream_id, has_failover)
  <2>1. /\ phase[t] = "called" /\ phase' = [phase EXCEPT ![t] = "over"] /\ calls[t] = Allowance + 1
        /\ outcome' = [outcome EXCEPT ![t] = IF has_failover THEN "failover" ELSE "failed"]
        /\ UNCHANGED <<free, calls>>
    BY <1>11 DEF Turn!Exhaust, Turn!Give, Turn!Move, t
  <2>2. PICK o \in {"failover", "failed"} : o = IF has_failover THEN "failover" ELSE "failed"
    OBVIOUS
  <2>3. calls[t] > 0
    BY <2>1
  <2>. QED BY <1>5, <2>1, <2>2, <2>3
<1>. QED BY <1>6, <1>7, <1>8, <1>9, <1>10, <1>11 DEF TurnStep

(* A turn begins when no other runs.                                       *)
LEMMA BeginTurn ==
  ASSUME Types, Contracts, free = Buckets, NEW n \in StreamIds, n = stream_id + 1,
         stream_id' = n, at' \in {"primary", "alternative"}, Turn!Start(n)
  PROVE  Contracts' /\ UNCHANGED outcome
<1>1. /\ phase[n] = "new" /\ phase' = [phase EXCEPT ![n] = "ready"]
      /\ UNCHANGED <<free, calls, outcome>>
  BY DEF Turn!Start, Turn!Move
<1>2. /\ phase \in [StreamIds -> {"new", "ready", "calling", "called", "over"}]
      /\ calls \in [StreamIds -> Nat]
      /\ outcome \in [StreamIds -> {"none", "committed", "failover", "failed"}]
      /\ \A i \in StreamIds : phase[i] # "over" => outcome[i] = "none"
      /\ \A i \in StreamIds : i > stream_id => phase[i] = "new"
      /\ Buckets > 0 => \A i \in StreamIds : outcome[i] = "failed" => calls[i] > 0
  BY DEF Contracts
<1>3. /\ phase' \in [StreamIds -> {"new", "ready", "calling", "called", "over"}]
      /\ phase'[n] = "ready" /\ \A i \in StreamIds : i # n => phase'[i] = phase[i]
  BY <1>1, <1>2
<1>4. \A i \in StreamIds : i > n => phase'[i] = "new"
  BY <1>2, <1>3 DEF Types, StreamIds
<1>5. \A i \in StreamIds : phase'[i] # "over" => outcome'[i] = "none"
  BY <1>1, <1>2, <1>3
<1>6. Running' /\ phase'[stream_id'] = "ready" /\ free' = Buckets /\ UNCHANGED outcome
  BY <1>1, <1>3 DEF Running
<1>. QED BY <1>1, <1>2, <1>3, <1>4, <1>5, <1>6 DEF Contracts

(* A verdict is taken.                                                     *)
LEMMA TakeVerdict ==
  ASSUME Types, Numbered, Contracts, NEW o \in {"committed", "failover", "failed"}, Returned(o)
  PROVE  free = Buckets /\ outcome[stream_id] = o /\ stream_id \in StreamIds /\ Running
<1>. USE SessionAssumption DEF SessionAssumption
<1>1. Running /\ stream_id \in StreamIds /\ outcome[stream_id] = o
  BY DEF Returned, Running, Types, Numbered, StreamIds
<1>2. phase[stream_id] = "over"
  BY <1>1 DEF Contracts
<1>. QED BY <1>1, <1>2 DEF Contracts

LEMMA SameTurns ==
  ASSUME Types, Contracts, UNCHANGED <<stream_id, contractVars>>, ~Running', free = Buckets
  PROVE  Contracts'
<1>1. UNCHANGED <<stream_id, free, phase, calls, outcome>>
  BY DEF contractVars
<1>. QED BY <1>1 DEF Contracts

-----------------------------------------------------------------------------
(* The pairs and the line behind them.                                     *)

(* What a turn has answered stays answered.                                *)
LEMMA PairStays ==
  ASSUME Types, NEW k \in Nat, k > 0, Paired(k),
         history'[Base + 2 * k - 1] = history[Base + 2 * k - 1],
         history'[Base + 2 * k] = history[Base + 2 * k],
         stream_id' \in Nat, stream_id =< stream_id',
         \A t \in 1..stream_id : typed'[t] = typed[t] /\ (outcome[t] = "committed" => outcome'[t] = "committed")
  PROVE  Paired(k)'
<1>. DEFINE line == history[Base + 2 * k - 1]
            answer == history[Base + 2 * k]
<1>1. /\ line.role = "user" /\ answer.role = "assistant"
      /\ line.by \in 1..stream_id /\ answer.by \in 1..stream_id
      /\ answer.by \in {line.by, line.by + 1}
      /\ typed[answer.by] = typed[line.by]
      /\ outcome[answer.by] = "committed"
  BY DEF Paired
<1>2. line' = line /\ answer' = answer /\ stream_id \in Nat
  BY DEF Types, Base
<1>. HIDE DEF line, answer
<1>3. line.by \in 1..stream_id' /\ answer.by \in 1..stream_id'
  BY <1>1, <1>2
<1>4. typed'[answer.by] = typed'[line.by] /\ outcome'[answer.by] = "committed"
  BY <1>1
<1>5. /\ line'.role = "user" /\ answer'.role = "assistant"
      /\ line'.by \in 1..stream_id' /\ answer'.by \in 1..stream_id'
      /\ answer'.by \in {line'.by, line'.by + 1}
      /\ typed'[answer'.by] = typed'[line'.by]
      /\ outcome'[answer'.by] = "committed"
  BY <1>1, <1>2, <1>3, <1>4, Zenon
<1>. QED BY <1>5 DEF Paired, line, answer

LEMMA BaseType == Base \in {0, 1}
  BY DEF Base

(* The turn takes a step: nothing is added or taken away.                  *)
LEMMA TurnStepKeeps == ASSUME IInv, TurnStep PROVE IInv'
<1>1. /\ UNCHANGED <<has_failover, startVars, at, history, stream_id, typed, spent>>
      /\ Running /\ Types /\ Numbered /\ Contracts /\ Dialog /\ at \notin {"left", "panicked"}
  BY DEF TurnStep, settled, IInv, Running
<1>2. Types' /\ Numbered'
  BY <1>1 DEF Types, Numbered, startVars
<1>3. Contracts' /\ \A t \in StreamIds : outcome[t] # "none" => outcome'[t] = outcome[t]
  BY <1>1, OneTurn
<1>4. \A t \in 1..stream_id : t \in StreamIds
  BY <1>1, SessionAssumption DEF SessionAssumption, Types, Numbered, StreamIds
<1>5. PICK n \in Nat : Holds(n)
  BY <1>1 DEF Dialog
<1>6. ASSUME NEW k \in 1..n PROVE Paired(k)'
  <2>1. Paired(k) /\ k \in Nat /\ k > 0
    BY <1>5 DEF Holds
  <2>2. \A t \in 1..stream_id : typed'[t] = typed[t] /\ (outcome[t] = "committed" => outcome'[t] = "committed")
    BY <1>1, <1>3, <1>4
  <2>3. stream_id' \in Nat /\ stream_id =< stream_id'
    BY <1>1 DEF Types
  <2>. QED BY <1>1, <2>1, <2>2, <2>3, PairStays
<1>7. Holds(n)'
  BY <1>1, <1>5, <1>6 DEF Holds, Running, Base
<1>8. OnlyFirst' /\ OpenLine'
  BY <1>1 DEF Dialog, OnlyFirst, OpenLine, Running
<1>. QED BY <1>2, <1>3, <1>7, <1>8 DEF IInv, Dialog

(* Nothing moves but the place where the loop stands.                      *)
LEMMA IdleKeeps ==
  ASSUME IInv, at \in {"starting", "prompt"}, at' \in {"starting", "prompt", "left"},
         UNCHANGED <<contractVars, history, stream_id, typed, spent>>,
         has_failover' \in BOOLEAN, at' = "starting" <=> stage' # "started"
  PROVE  IInv'
<1>1. /\ UNCHANGED <<free, phase, calls, outcome, history, stream_id, typed, spent>>
      /\ ~Running /\ ~Running' /\ Types /\ Numbered /\ Contracts /\ Dialog
      /\ at \notin {"left", "panicked"} /\ free = Buckets
  BY DEF contractVars, Running, IInv, Contracts
<1>2. Types' /\ Numbered'
  BY <1>1 DEF Types, Numbered, Stage
<1>3. Contracts'
  BY <1>1 DEF Contracts
<1>4. PICK n \in Nat : Holds(n)
  BY <1>1 DEF Dialog
<1>5. Holds(n)'
  BY <1>1, <1>4 DEF Holds, Paired, Base
<1>6. OnlyFirst' /\ OpenLine'
  BY <1>1 DEF Dialog, OnlyFirst, OpenLine
<1>. QED BY <1>2, <1>3, <1>5, <1>6 DEF IInv, Dialog

LEMMA ReadConfigKeeps == ASSUME IInv, ReadConfig PROVE IInv'
<1>1. stage' # "started" /\ stage # "started"
  BY DEF ReadConfig, StartNext, Help, ProcessOnly, FromFile, Unreadable, LoadLine, MalformedLine,
         Loaded, RefuseConfig, PanicAtStart, Configure, Loading
<1>2. at = "starting" /\ has_failover \in BOOLEAN
  BY DEF ReadConfig, IInv, Types
<1>. QED BY <1>1, <1>2, IdleKeeps DEF ReadConfig

LEMMA BeginLoopKeeps == ASSUME IInv, BeginLoop PROVE IInv'
<1>1. stage' = "started" /\ at = "starting" /\ at' = "prompt" /\ has_failover' = HasFailover
  BY DEF BeginLoop, Start
<1>2. HasFailover \in BOOLEAN
  BY DEF HasFailover, IsSet
<1>3. has_failover' \in BOOLEAN
  BY <1>1, <1>2, Zenon
<1>. QED BY <1>1, <1>3, IdleKeeps DEF BeginLoop

LEMMA LeaveKeeps == ASSUME IInv, Leave PROVE IInv'
<1>1. /\ UNCHANGED <<has_failover, stage, contractVars, history, stream_id, typed, spent>>
      /\ at = "prompt" /\ at' = "left" /\ Types
  BY DEF Leave, unmoved, settled, startVars, IInv
<1>2. has_failover' \in BOOLEAN /\ stage' = "started"
  BY <1>1 DEF Types
<1>. QED BY <1>1, <1>2, IdleKeeps

(* A turn has returned and the loop does not go on: its slot is free.      *)
LEMMA BreaksOff ==
  ASSUME IInv, Returned("failover"), at' \in {"left", "panicked"},
         UNCHANGED <<history, stream_id, typed, spent, unmoved>>
  PROVE  IInv'
<1>1. /\ UNCHANGED <<has_failover, stage, free, phase, calls, outcome, history, stream_id, typed, spent>>
      /\ UNCHANGED contractVars
      /\ Returned("failover") /\ Types /\ Numbered /\ Contracts
  BY DEF unmoved, settled, startVars, contractVars, IInv
<1>2. free = Buckets /\ at \in {"primary", "alternative"}
  BY <1>1, TakeVerdict DEF Returned
<1>3. Types' /\ Numbered'
  BY <1>1, <1>2 DEF Types, Numbered, Stage
<1>4. ~Running'
  BY <1>1 DEF Running
<1>5. Contracts'
  BY <1>1, <1>2, <1>4, SameTurns
<1>. QED BY <1>1, <1>3, <1>5 DEF IInv, Dialog

LEMMA PanicKeeps == ASSUME IInv, Panic PROVE IInv'
BY BreaksOff DEF Panic

LEMMA LeaveFailingOverKeeps == ASSUME IInv, LeaveFailingOver PROVE IInv'
BY BreaksOff DEF LeaveFailingOver

(* The line is in the history and no turn answers it.                      *)
LEMMA LeaveSubmittingKeeps == ASSUME IInv, NEW line \in Lines, LeaveSubmitting(line) PROVE IInv'
<1>. USE SessionAssumption DEF SessionAssumption
<1>1. /\ UNCHANGED <<has_failover, stage, free, phase, calls, outcome, stream_id, typed>>
      /\ UNCHANGED contractVars
      /\ at = "prompt" /\ at' = "left" /\ spent < MaxLines /\ spent' = spent + 1
      /\ history' = Append(history, Message("user", stream_id + 1))
      /\ Types /\ Numbered /\ Contracts /\ ~Running /\ ~Running' /\ free = Buckets
  BY DEF LeaveSubmitting, unmoved, settled, startVars, contractVars, IInv, Running, Contracts
<1>2. stream_id \in Nat /\ stream_id + 1 \in StreamIds /\ spent \in Nat /\ stream_id =< 2 * spent
  BY <1>1 DEF Types, Numbered, StreamIds
<1>3. Message("user", stream_id + 1) \in Messages
  BY <1>2 DEF Message, Messages, StreamIds
<1>4. history' \in Seq(Messages)
  BY <1>1, <1>3, Appended DEF Types
<1>5. Types'
  BY <1>1, <1>2, <1>4 DEF Types, Stage
<1>6. Numbered'
  BY <1>1, <1>2 DEF Numbered
<1>7. Contracts'
  BY <1>1, SameTurns
<1>. QED BY <1>1, <1>5, <1>6, <1>7 DEF IInv, Dialog

LEMMA ResetKeeps == ASSUME IInv, Reset PROVE IInv'
<1>1. /\ UNCHANGED <<has_failover, stage, free, phase, calls, outcome, stream_id, typed, spent, at>>
      /\ UNCHANGED contractVars
      /\ at = "prompt" /\ history' = Retain("system")
      /\ Types /\ Numbered /\ Contracts /\ Dialog /\ ~Running /\ ~Running' /\ free = Buckets
  BY DEF Reset, unmoved, settled, startVars, contractVars, IInv, Running, Contracts
<1>2. PICK n \in Nat : Holds(n)
  BY <1>1 DEF Dialog
<1>3. OnlyFirst /\ Len(history) >= Base
  BY <1>1, <1>2, BaseType DEF Dialog, Holds
<1>4. /\ history' \in Seq(Messages) /\ Len(history') = Base
      /\ \A i \in 1..Base : history'[i].role = "system" /\ System
  BY <1>1, <1>3, RetainSystem
<1>5. Types' /\ Numbered'
  BY <1>1, <1>4 DEF Types, Numbered
<1>6. Contracts'
  BY <1>1, SameTurns
<1>7. Holds(0)'
  BY <1>1, <1>4, BaseType DEF Holds
<1>8. OnlyFirst'
  BY <1>4 DEF OnlyFirst, Base
<1>. QED BY <1>1, <1>5, <1>6, <1>7, <1>8 DEF IInv, Dialog, OpenLine

(* The line is put to a turn, and is the open line of the history.         *)
LEMMA SubmitKeeps == ASSUME IInv, NEW line \in Lines, Submit(line) PROVE IInv'
<1>. USE SessionAssumption DEF SessionAssumption
<1>1. /\ at = "prompt" /\ at' = "primary" /\ spent < MaxLines /\ spent' = spent + 1
      /\ history' = Append(history, Message("user", stream_id + 1))
      /\ stream_id' = stream_id + 1 /\ typed' = Append(typed, line)
      /\ Turn!Start(stream_id + 1) /\ UNCHANGED <<has_failover, stage>>
      /\ Types /\ Numbered /\ Contracts /\ Dialog /\ ~Running /\ Running' /\ free = Buckets
  BY DEF Submit, Execute, settled, startVars, IInv, Running, Contracts
<1>2. stream_id \in Nat /\ stream_id + 1 \in StreamIds /\ spent \in Nat /\ stream_id =< 2 * spent
  BY <1>1 DEF Types, Numbered, StreamIds
<1>3. PICK new \in StreamIds : new = stream_id + 1
  BY <1>2
<1>4. Contracts' /\ UNCHANGED outcome
  BY <1>1, <1>3, BeginTurn
<1>5. Message("user", stream_id + 1) \in Messages
  BY <1>2 DEF Message, Messages, StreamIds
<1>6. /\ history' \in Seq(Messages) /\ Len(history') = Len(history) + 1 /\ Len(history) \in Nat
      /\ \A i \in 1..Len(history) : history'[i] = history[i]
      /\ history'[Len(history) + 1] = Message("user", stream_id + 1)
  BY <1>1, <1>5, Appended DEF Types
<1>7. /\ typed' \in Seq(Lines) /\ Len(typed') = stream_id + 1
      /\ \A i \in 1..stream_id : typed'[i] = typed[i]
  BY <1>1, Appended DEF Types
<1>8. Types'
  BY <1>1, <1>2, <1>6, <1>7 DEF Types, Stage
<1>9. Numbered'
  BY <1>1, <1>2 DEF Numbered
<1>10. PICK n \in Nat : Holds(n)
  BY <1>1 DEF Dialog
<1>11. Len(history) = Base + 2 * n
  BY <1>1, <1>10, BaseType DEF Holds
<1>12. ASSUME NEW k \in 1..n PROVE Paired(k)'
  <2>1. Paired(k) /\ k \in Nat /\ k > 0
    BY <1>10 DEF Holds
  <2>2. Base + 2 * k - 1 \in 1..Len(history) /\ Base + 2 * k \in 1..Len(history)
    BY <1>11, BaseType
  <2>3. \A t \in 1..stream_id : typed'[t] = typed[t] /\ (outcome[t] = "committed" => outcome'[t] = "committed")
    BY <1>4, <1>7
  <2>4. stream_id' \in Nat /\ stream_id =< stream_id'
    BY <1>1, <1>2
  <2>. QED BY <1>1, <1>6, <2>1, <2>2, <2>3, <2>4, PairStays
<1>13. Holds(n)'
  BY <1>1, <1>6, <1>11, <1>12, BaseType DEF Holds, Base
<1>14. history'[Len(history')] = Message("user", stream_id')
  BY <1>1, <1>6
<1>15. OpenLine'
  <2>1. Message("user", stream_id').role = "user" /\ Message("user", stream_id').by = stream_id'
    BY DEF Message
  <2>2. /\ history'[Len(history')].role = "user"
        /\ history'[Len(history')].by = stream_id'
    BY <1>14, <2>1, Zenon
  <2>. QED BY <1>1, <2>2, Zenon DEF OpenLine
<1>16. OnlyFirst'
  <2>1. ASSUME NEW i \in 1..Len(history) PROVE history'[i].role = "system" <=> System /\ i = 1
    BY <1>1, <1>6 DEF Dialog, OnlyFirst
  <2>2. history'[Len(history) + 1].role # "system" /\ ~(System /\ Len(history) + 1 = 1)
    BY <1>6, <1>11 DEF Message, Base
  <2>3. \A i \in 1..(Len(history) + 1) : i \in 1..Len(history) \/ i = Len(history) + 1
    BY <1>6
  <2>. QED BY <1>6, <2>1, <2>2, <2>3 DEF OnlyFirst
<1>. QED BY <1>4, <1>8, <1>9, <1>13, <1>15, <1>16 DEF IInv, Dialog

(* The same line is put to a second turn.                                  *)
LEMMA TakeFailoverKeeps == ASSUME IInv, TakeFailover PROVE IInv'
<1>. USE SessionAssumption DEF SessionAssumption
<1>1. /\ Returned("failover") /\ at = "primary" /\ at' = "alternative"
      /\ stream_id' = stream_id + 1 /\ typed' = Append(typed, typed[stream_id])
      /\ Turn!Start(stream_id + 1) /\ UNCHANGED <<has_failover, stage, history, spent>>
      /\ Types /\ Numbered /\ Contracts /\ Dialog /\ Running /\ Running'
  BY DEF TakeFailover, Execute, settled, startVars, IInv, Running
<1>2. /\ stream_id \in Nat /\ stream_id + 1 \in StreamIds /\ spent \in Nat
      /\ stream_id < 2 * spent /\ stream_id > 0
  BY <1>1 DEF Types, Numbered, StreamIds
<1>3. PICK new \in StreamIds : new = stream_id + 1
  BY <1>2
<1>4. free = Buckets
  BY <1>1, TakeVerdict
<1>5. Contracts' /\ UNCHANGED outcome
  BY <1>1, <1>3, <1>4, BeginTurn
<1>6. /\ typed' \in Seq(Lines) /\ Len(typed') = stream_id + 1
      /\ \A i \in 1..stream_id : typed'[i] = typed[i]
      /\ typed'[stream_id + 1] = typed[stream_id]
  <2>1. typed \in Seq(Lines) /\ Len(typed) = stream_id /\ stream_id \in 1..Len(typed)
    BY <1>1, <1>2 DEF Types
  <2>2. typed[stream_id] \in Lines
    BY <2>1, ElementOfSeq
  <2>. QED BY <1>1, <2>1, <2>2, Appended
<1>7. Types'
  BY <1>1, <1>2, <1>6 DEF Types, Stage
<1>8. Numbered'
  BY <1>1, <1>2 DEF Numbered
<1>9. PICK n \in Nat : Holds(n)
  BY <1>1 DEF Dialog
<1>10. ASSUME NEW k \in 1..n PROVE Paired(k)'
  <2>1. Paired(k) /\ k \in Nat /\ k > 0
    BY <1>9 DEF Holds
  <2>2. \A t \in 1..stream_id : typed'[t] = typed[t] /\ (outcome[t] = "committed" => outcome'[t] = "committed")
    BY <1>5, <1>6
  <2>3. stream_id' \in Nat /\ stream_id =< stream_id'
    BY <1>1, <1>2
  <2>. QED BY <1>1, <2>1, <2>2, <2>3, PairStays
<1>11. Holds(n)'
  BY <1>1, <1>9, <1>10 DEF Holds, Base
<1>12. OpenLine'
  <2>. DEFINE last == history[Len(history)]
  <2>1. last.role = "user" /\ last.by = stream_id /\ typed[stream_id] = typed[last.by]
    BY <1>1 DEF Dialog, OpenLine
  <2>2. last' = last /\ stream_id' - 1 = stream_id
    BY <1>1, <1>2
  <2>3. typed'[stream_id'] = typed'[stream_id]
    BY <1>1, <1>2, <1>6
  <2>4. typed'[stream_id'] = typed'[last'.by]
    BY <2>1, <2>2, <2>3, Zenon
  <2>. QED BY <1>1, <2>1, <2>2, <2>4 DEF OpenLine
<1>13. OnlyFirst'
  BY <1>1 DEF Dialog, OnlyFirst
<1>. QED BY <1>1, <1>5, <1>7, <1>8, <1>11, <1>12, <1>13 DEF IInv, Dialog

(* The answer closes the open line.                                        *)
LEMMA CommitKeeps == ASSUME IInv, CommitAnswer PROVE IInv'
<1>. USE SessionAssumption DEF SessionAssumption
<1>1. /\ Returned("committed") /\ at \in {"primary", "alternative"} /\ at' = "prompt"
      /\ history' = Append(history, Message("assistant", stream_id))
      /\ UNCHANGED <<has_failover, stage, stream_id, typed, spent, outcome>> /\ UNCHANGED contractVars
      /\ Types /\ Numbered /\ Contracts /\ Dialog /\ Running /\ ~Running'
  BY DEF CommitAnswer, Returned, unmoved, settled, startVars, contractVars, IInv, Running
<1>2. free = Buckets /\ outcome[stream_id] = "committed" /\ stream_id \in StreamIds
  BY <1>1, TakeVerdict
<1>3. stream_id \in Nat /\ stream_id > 0 /\ (at = "alternative" => stream_id > 1)
  BY <1>1 DEF Types, Numbered
<1>4. Message("assistant", stream_id) \in Messages
  BY <1>2 DEF Message, Messages, StreamIds
<1>5. /\ history' \in Seq(Messages) /\ Len(history') = Len(history) + 1 /\ Len(history) \in Nat
      /\ \A i \in 1..Len(history) : history'[i] = history[i]
      /\ history'[Len(history) + 1] = Message("assistant", stream_id)
  BY <1>1, <1>4, Appended DEF Types
<1>6. Types' /\ Numbered'
  BY <1>1, <1>5 DEF Types, Numbered, Stage
<1>7. Contracts'
  BY <1>1, <1>2, SameTurns
<1>8. PICK n \in Nat : Holds(n)
  BY <1>1 DEF Dialog
<1>9. Len(history) = Base + 2 * n + 1
  BY <1>1, <1>8, BaseType DEF Holds
<1>10. PICK m \in Nat : m = n + 1
  OBVIOUS
<1>11. ASSUME NEW k \in 1..n PROVE Paired(k)'
  <2>1. Paired(k) /\ k \in Nat /\ k > 0
    BY <1>8 DEF Holds
  <2>2. Base + 2 * k - 1 \in 1..Len(history) /\ Base + 2 * k \in 1..Len(history)
    BY <1>9, BaseType
  <2>3. \A t \in 1..stream_id : typed'[t] = typed[t] /\ (outcome[t] = "committed" => outcome'[t] = "committed")
    BY <1>1
  <2>4. stream_id' \in Nat /\ stream_id =< stream_id'
    BY <1>1, <1>3
  <2>. QED BY <1>1, <1>5, <2>1, <2>2, <2>3, <2>4, PairStays
<1>12. Paired(m)'
  <2>. DEFINE line == history[Len(history)]
              answer == Message("assistant", stream_id)
  <2>1. line.role = "user" /\ typed[stream_id] = typed[line.by]
        /\ line.by = IF at = "primary" THEN stream_id ELSE stream_id - 1
    BY <1>1 DEF Dialog, OpenLine
  <2>2. Base + 2 * m - 1 = Len(history) /\ Base + 2 * m = Len(history) + 1 /\ Len(history) \in 1..Len(history)
    BY <1>9, <1>10, BaseType
  <2>3. history'[Base + 2 * m - 1] = line /\ history'[Base + 2 * m] = answer
    BY <1>5, <2>2
  <2>4. answer.role = "assistant" /\ answer.by = stream_id
    BY DEF Message
  <2>5. line.by \in 1..stream_id /\ stream_id \in {line.by, line.by + 1}
    BY <1>1, <1>3, <2>1
  <2>6. stream_id \in 1..stream_id
    BY <1>3
  <2>. HIDE DEF line, answer
  <2>. QED BY <1>1, <1>2, <2>1, <2>3, <2>4, <2>5, <2>6 DEF Paired, Base
<1>13. Holds(m)'
  <2>1. \A k \in 1..m : k \in 1..n \/ k = m
    BY <1>10
  <2>2. \A k \in 1..m : Paired(k)'
    BY <1>11, <1>12, <2>1
  <2>3. Len(history') = Base + 2 * m + 0
    BY <1>5, <1>9, <1>10, BaseType
  <2>. QED BY <1>1, <2>2, <2>3 DEF Holds, Base
<1>14. OnlyFirst'
  <2>1. ASSUME NEW i \in 1..Len(history) PROVE history'[i].role = "system" <=> System /\ i = 1
    BY <1>1, <1>5 DEF Dialog, OnlyFirst
  <2>2. history'[Len(history) + 1].role # "system" /\ Len(history) + 1 # 1
    BY <1>5, <1>9, BaseType DEF Message
  <2>3. \A i \in 1..(Len(history) + 1) : i \in 1..Len(history) \/ i = Len(history) + 1
    BY <1>5
  <2>. QED BY <1>5, <2>1, <2>2, <2>3 DEF OnlyFirst
<1>15. OpenLine'
  BY <1>1 DEF OpenLine
<1>. QED BY <1>6, <1>7, <1>13, <1>14, <1>15 DEF IInv, Dialog

(* The open line is dropped.                                               *)
LEMMA DropKeeps == ASSUME IInv, DropLine PROVE IInv'
<1>. USE SessionAssumption DEF SessionAssumption
<1>1. /\ Returned("failed") /\ at \in {"primary", "alternative"} /\ at' = "prompt"
      /\ history' = Front(history)
      /\ UNCHANGED <<has_failover, stage, stream_id, typed, spent, outcome>> /\ UNCHANGED contractVars
      /\ Types /\ Numbered /\ Contracts /\ Dialog /\ Running /\ ~Running'
  BY DEF DropLine, Returned, unmoved, settled, startVars, contractVars, IInv, Running
<1>2. free = Buckets
  BY <1>1, TakeVerdict
<1>3. PICK n \in Nat : Holds(n)
  BY <1>1 DEF Dialog
<1>4. Len(history) = Base + 2 * n + 1 /\ Len(history) > 0
  BY <1>1, <1>3, BaseType DEF Holds
<1>5. /\ history' \in Seq(Messages) /\ Len(history') = Len(history) - 1
      /\ \A i \in 1..(Len(history) - 1) : history'[i] = history[i]
  BY <1>1, <1>4, Shortened DEF Types
<1>6. Types' /\ Numbered'
  BY <1>1, <1>5 DEF Types, Numbered, Stage
<1>7. Contracts'
  BY <1>1, <1>2, SameTurns
<1>8. ASSUME NEW k \in 1..n PROVE Paired(k)'
  <2>1. Paired(k) /\ k \in Nat /\ k > 0
    BY <1>3 DEF Holds
  <2>2. Base + 2 * k - 1 \in 1..(Len(history) - 1) /\ Base + 2 * k \in 1..(Len(history) - 1)
    BY <1>4, BaseType
  <2>3. \A t \in 1..stream_id : typed'[t] = typed[t] /\ (outcome[t] = "committed" => outcome'[t] = "committed")
    BY <1>1
  <2>4. stream_id' \in Nat /\ stream_id =< stream_id'
    BY <1>1 DEF Types
  <2>. QED BY <1>1, <1>5, <2>1, <2>2, <2>3, <2>4, PairStays
<1>9. Holds(n)'
  BY <1>1, <1>4, <1>5, <1>8, BaseType DEF Holds, Base
<1>10. OnlyFirst'
  BY <1>1, <1>4, <1>5, BaseType DEF Dialog, OnlyFirst
<1>11. OpenLine'
  BY <1>1 DEF OpenLine
<1>. QED BY <1>6, <1>7, <1>9, <1>10, <1>11 DEF IInv, Dialog

-----------------------------------------------------------------------------

LEMMA InitHolds == Init => IInv
<1>. SUFFICES ASSUME Init PROVE IInv
  OBVIOUS
<1>. USE SessionAssumption DEF SessionAssumption
<1>1. /\ stage = "arguments" /\ has_failover = FALSE /\ at = "starting" /\ history = Fresh
      /\ stream_id = 0 /\ typed = <<>> /\ spent = 0
      /\ free = Buckets /\ phase = [t \in StreamIds |-> "new"] /\ calls = [t \in StreamIds |-> 0]
      /\ outcome = [t \in StreamIds |-> "none"]
  BY DEF Init, StartInit, Turn!Init
<1>2. /\ history \in Seq(Messages) /\ Len(history) = Base
      /\ \A i \in 1..Base : history[i].role = "system" /\ System
  <2>1. CASE System
    <3>1. Message("system", 0) \in Messages /\ Message("system", 0).role = "system"
      BY DEF Message, Messages
    <3>2. \A e \in Messages : <<e>> \in Seq(Messages) /\ Len(<<e>>) = 1 /\ <<e>>[1] = e
      OBVIOUS
    <3>3. history = <<Message("system", 0)>>
      BY <1>1, <2>1 DEF Fresh
    <3>4. Base = 1 /\ \A i \in 1..1 : i = 1
      BY <2>1 DEF Base
    <3>5. history \in Seq(Messages) /\ Len(history) = 1 /\ history[1] = Message("system", 0)
      BY <3>1, <3>2, <3>3
    <3>. QED BY <2>1, <3>1, <3>4, <3>5
  <2>2. CASE ~System
    BY <1>1, <2>2, EmptySeq DEF Fresh, Base
  <2>. QED BY <2>1, <2>2
<1>3. Types
  <2>1. typed \in Seq(Lines) /\ Len(typed) = 0
    BY <1>1, EmptySeq
  <2>2. spent \in 0..MaxLines /\ stream_id \in Nat /\ Len(typed) = stream_id
    BY <1>1, <2>1
  <2>. QED BY <1>1, <1>2, <2>1, <2>2 DEF Types, Stage
<1>4. Numbered
  BY <1>1 DEF Numbered
<1>5. Contracts
  BY <1>1 DEF Contracts, Running, StreamIds
<1>6. Holds(0) /\ OnlyFirst /\ OpenLine
  BY <1>1, <1>2, BaseType DEF Holds, OnlyFirst, OpenLine, Running, Base
<1>. QED BY <1>3, <1>4, <1>5, <1>6 DEF IInv, Dialog

LEMMA StepKeeps == IInv /\ [Next]_vars => IInv'
<1>. SUFFICES ASSUME IInv, [Next]_vars PROVE IInv'
  OBVIOUS
<1>1. CASE UNCHANGED vars \/ Stopped
  <2>1. UNCHANGED <<has_failover, stage, free, phase, calls, outcome, at, history, stream_id, typed, spent>>
    BY <1>1 DEF Stopped, vars, unmoved, settled, startVars, contractVars
  <2>2. Types' /\ Numbered' /\ Contracts'
    BY <2>1 DEF IInv, Types, Numbered, Contracts, Running
  <2>3. Dialog'
    BY <2>1 DEF IInv, Dialog, Holds, Paired, Base, OnlyFirst, OpenLine, Running
  <2>. QED BY <2>2, <2>3 DEF IInv
<1>. QED BY <1>1, ReadConfigKeeps, BeginLoopKeeps, SubmitKeeps, ResetKeeps, LeaveKeeps,
            TurnStepKeeps, CommitKeeps, DropKeeps, TakeFailoverKeeps, PanicKeeps,
            LeaveSubmittingKeeps, LeaveFailingOverKeeps DEF Next

(* Every variable has its type, and the ids of the streams suffice.        *)
THEOREM TypeCorrect == Spec => []TypeOK
<1>1. IInv => TypeOK
  BY SessionAssumption DEF SessionAssumption, IInv, Types, Numbered, TypeOK, Messages
<1>. QED BY <1>1, InitHolds, StepKeeps, PTL DEF Spec

(* DEC-CHAT-11: at the prompt the history is the system message and pairs  *)
(* of a line and the committed answer to that line, however many lines     *)
(* were typed, failed, failed over or were reset before.                   *)
THEOREM HistorySafe == Spec => []HistoryIsCommitted
<1>1. IInv => HistoryIsCommitted
  <2>. SUFFICES ASSUME IInv, at = "prompt" PROVE HistoryIsCommitted
    BY DEF HistoryIsCommitted
  <2>1. ~Running /\ Types /\ OnlyFirst
    BY DEF Running, IInv, Dialog
  <2>2. PICK n \in Nat : Holds(n)
    BY DEF IInv, Dialog
  <2>3. Len(history) = Base + 2 * n /\ \A k \in 1..n : Paired(k)
    BY <2>1, <2>2, BaseType DEF Holds
  <2>4. /\ Len(Dialogue) = 2 * n
        /\ \A j \in 1..(2 * n) : Dialogue[j] = history[Base + j]
        /\ System => history[1].role = "system"
    <3>1. CASE System
      <4>1. Base = 1 /\ Len(history) = 1 + 2 * n /\ history \in Seq(Messages)
        BY <2>1, <2>3, <3>1 DEF Base, Types
      <4>2. history # <<>> /\ 1 \in 1..Len(history)
        BY <4>1, EmptySeq
      <4>3. /\ Len(Tail(history)) = Len(history) - 1
            /\ \A j \in 1..Len(Tail(history)) : Tail(history)[j] = history[j + 1]
        BY <4>1, <4>2, HeadTailProperties
      <4>4. Len(Tail(history)) = 2 * n /\ \A j \in 1..(2 * n) : j + 1 = Base + j
        BY <4>1, <4>3
      <4>5. history[1].role = "system"
        BY <2>1, <3>1, <4>2 DEF OnlyFirst
      <4>. QED BY <3>1, <4>3, <4>4, <4>5 DEF Dialogue
    <3>2. CASE ~System
      BY <2>3, <3>2 DEF Dialogue, Base
    <3>. QED BY <3>1, <3>2
  <2>5. (2 * n) % 2 = 0 /\ (2 * n) \div 2 = n
    OBVIOUS
  <2>6. ASSUME NEW i \in 1..n
        PROVE  /\ Dialogue[2 * i - 1] = history[Base + 2 * i - 1]
               /\ Dialogue[2 * i] = history[Base + 2 * i] /\ Paired(i)
    <3>1. /\ 2 * i - 1 \in 1..(2 * n) /\ 2 * i \in 1..(2 * n)
          /\ Base + (2 * i - 1) = Base + 2 * i - 1
      BY BaseType
    <3>. QED BY <2>3, <2>4, <3>1
  <2>7. \A i \in 1..n :
          LET line == Dialogue[2 * i - 1]
              answer == Dialogue[2 * i]
          IN  /\ line.role = "user" /\ answer.role = "assistant"
              /\ answer.by \in {line.by, line.by + 1}
              /\ typed[answer.by] = typed[line.by]
              /\ outcome[answer.by] = "committed"
    BY <2>6 DEF Paired
  <2>. QED BY <2>4, <2>5, <2>7 DEF HistoryIsCommitted
<1>. QED BY <1>1, InitHolds, StepKeeps, PTL DEF Spec

(* At the prompt no slot is outstanding, whatever happened before, so a    *)
(* pool of at least one bucket never turns a line away.                    *)
THEOREM AdmissionSafe == Spec => []NeverRefused
<1>1. IInv => NeverRefused
  <2>. SUFFICES ASSUME IInv PROVE NeverRefused
    OBVIOUS
  <2>1. at = "prompt" => free = Buckets
    BY DEF IInv, Contracts, Running
  <2>2. \A i \in 1..stream_id : i \in StreamIds
    BY SessionAssumption DEF SessionAssumption, IInv, Types, Numbered, StreamIds
  <2>. QED BY <2>1, <2>2 DEF IInv, Contracts, NeverRefused
<1>. QED BY <1>1, InitHolds, StepKeeps, PTL DEF Spec

-----------------------------------------------------------------------------
(* The lines of the env file.                                              *)

Line == Seq(Tokens)

(* Least and greatest.                                                     *)
LEMMA MinIs ==
  ASSUME NEW S \in SUBSET Int, NEW m \in S, \A x \in S : m =< x
  PROVE  Min(S) = m
<1>1. m \in S /\ \A y \in S : m =< y
  OBVIOUS
<1>2. Min(S) \in S /\ \A y \in S : Min(S) =< y
  BY <1>1 DEF Min
<1>3. Min(S) =< m /\ m =< Min(S) /\ Min(S) \in Int /\ m \in Int
  BY <1>1, <1>2
<1>. QED BY <1>3

LEMMA MaxIs ==
  ASSUME NEW S \in SUBSET Int, NEW m \in S, \A x \in S : x =< m
  PROVE  Max(S) = m
<1>1. m \in S /\ \A y \in S : m >= y
  OBVIOUS
<1>2. Max(S) \in S /\ \A y \in S : Max(S) >= y
  BY <1>1 DEF Max
<1>3. Max(S) =< m /\ m =< Max(S) /\ Max(S) \in Int /\ m \in Int
  BY <1>1, <1>2
<1>. QED BY <1>3

(* Every set of places has a first one and a last one.                     *)
LEMMA LeastPlace ==
  ASSUME NEW n \in Nat, NEW S \in SUBSET (1..n), S # {}
  PROVE  Min(S) \in S /\ \A x \in S : Min(S) =< x
<1>1. S \in SUBSET Nat /\ S \in SUBSET Int
  OBVIOUS
<1>2. PICK m \in S : \A x \in S : ~(<<x, m>> \in OpToRel(<, Nat))
  BY <1>1, NatLessThanWellFounded, WFMin
<1>3. \A x \in S : ~(x < m)
  BY <1>1, <1>2 DEF OpToRel
<1>4. \A x \in S : m =< x
  BY <1>1, <1>3
<1>5. Min(S) = m
  BY <1>1, <1>4, MinIs
<1>. QED BY <1>4, <1>5

LEMMA GreatestPlace ==
  ASSUME NEW n \in Nat, NEW S \in SUBSET (1..n), S # {}
  PROVE  Max(S) \in S /\ \A x \in S : x =< Max(S)
<1>. DEFINE left == {d \in 0..n : n - d \in S}
<1>1. PICK s \in S : TRUE
  OBVIOUS
<1>2. n - s \in left
  BY <1>1
<1>3. \A d \in left : d \in Nat
  OBVIOUS
<1>. HIDE DEF left
<1>4. PICK d \in left : \A e \in left : ~(<<e, d>> \in OpToRel(<, Nat))
  BY <1>2, <1>3, NatLessThanWellFounded, WFMin
<1>5. \A e \in left : ~(e < d)
  BY <1>3, <1>4 DEF OpToRel
<1>6. n - d \in S /\ d \in 0..n
  BY <1>4 DEF left
<1>7. ASSUME NEW x \in S PROVE x =< n - d
  <2>1. n - x \in 0..n /\ n - (n - x) = x
    OBVIOUS
  <2>2. n - x \in left
    BY <2>1 DEF left
  <2>. QED BY <1>5, <1>6, <2>2
<1>8. S \in SUBSET Int
  OBVIOUS
<1>9. Max(S) = n - d
  BY <1>6, <1>7, <1>8, MaxIs
<1>. QED BY <1>6, <1>7, <1>9

(* A part of a line, token by token.                                       *)
LEMMA PartOf ==
  ASSUME NEW s \in Line, NEW a \in Nat, NEW b \in Nat, 1 =< a, a =< b + 1, b =< Len(s)
  PROVE  /\ SubSeq(s, a, b) \in Line /\ Len(SubSeq(s, a, b)) = b + 1 - a
         /\ \A i \in 1..(b + 1 - a) : SubSeq(s, a, b)[i] = s[a + i - 1]
<1>1. \A i \in a..b : s[i] \in Tokens
  BY ElementOfSeq DEF Line
<1>2. a \in Int /\ b \in Int /\ b + 1 - a = b - a + 1
  OBVIOUS
<1>3. /\ SubSeq(s, a, b) \in Line /\ Len(SubSeq(s, a, b)) = IF a <= b THEN b - a + 1 ELSE 0
      /\ \A i \in 1..(b - a + 1) : SubSeq(s, a, b)[i] = s[a + i - 1]
  BY <1>1, <1>2, SubSeqProperties DEF Line
<1>. QED BY <1>2, <1>3

LEMMA Joined ==
  ASSUME NEW s, NEW t, s \in Line, t \in Line
  PROVE  /\ s \o t \in Line /\ Len(s \o t) = Len(s) + Len(t)
         /\ Len(s) \in Nat /\ Len(t) \in Nat
         /\ \A i \in 1..Len(s) : (s \o t)[i] = s[i]
         /\ \A i \in 1..Len(t) : (s \o t)[Len(s) + i] = t[i]
<1>1. Len(s) \in Nat /\ Len(t) \in Nat
  BY LenProperties DEF Line
<1>2. s \o t \in Line /\ Len(s \o t) = Len(s) + Len(t)
      /\ \A i \in 1..(Len(s) + Len(t)) : (s \o t)[i] = IF i <= Len(s) THEN s[i] ELSE t[i - Len(s)]
  BY ConcatProperties DEF Line
<1>3. \A i \in 1..Len(t) : /\ Len(s) + i \in 1..(Len(s) + Len(t)) /\ ~(Len(s) + i <= Len(s))
                           /\ (Len(s) + i) - Len(s) = i
  BY <1>1
<1>4. \A i \in 1..Len(s) : i \in 1..(Len(s) + Len(t)) /\ i <= Len(s)
  BY <1>1
<1>. QED BY <1>1, <1>2, <1>3, <1>4

LEMMA Single ==
  ASSUME NEW x \in Tokens
  PROVE  <<x>> \in Line /\ Len(<<x>>) = 1 /\ <<x>>[1] = x
<1>1. \A S : \A e \in S : <<e>> \in Seq(S) /\ Len(<<e>>) = 1 /\ <<e>>[1] = e
  OBVIOUS
<1>. QED BY <1>1 DEF Line

LEMMA WordPlaces ==
  ASSUME NEW s \in Line
  PROVE  Len(s) \in Nat /\ DOMAIN s = 1..Len(s) /\ Words(s) \subseteq 1..Len(s)
BY LenProperties DEF Words, Line

(* trim gives the part from the first token that is no blank to the last.  *)
LEMMA TrimIsPart ==
  ASSUME NEW s \in Line, Words(s) # {}
  PROVE  \E a, b \in Words(s) :
           /\ \A i \in Words(s) : a =< i /\ i =< b
           /\ Trim(s) = SubSeq(s, a, b) /\ TrimStart(s) = SubSeq(s, a, Len(s))
<1>1. /\ Min(Words(s)) \in Words(s) /\ \A x \in Words(s) : Min(Words(s)) =< x
      /\ Max(Words(s)) \in Words(s) /\ \A x \in Words(s) : x =< Max(Words(s))
  BY WordPlaces, LeastPlace, GreatestPlace
<1>. QED BY <1>1 DEF Trim, TrimStart

USE DEF Spaces

IsBlank(s) == s \in Line /\ \A i \in 1..Len(s) : s[i] \in Spaces

(* A text that neither begins nor ends with a blank.                       *)
IsTight(c) == c \in Line /\ (c # <<>> => c[1] \notin Spaces /\ c[Len(c)] \notin Spaces)

LEMMA TrimRight ==
  ASSUME NEW c, NEW d, IsTight(c), IsBlank(d)
  PROVE  Trim(c \o d) = c
<1>. DEFINE s == c \o d
<1>1. c \in Line /\ d \in Line /\ Len(c) \in Nat /\ Len(d) \in Nat
  BY LenProperties DEF IsTight, IsBlank, Line
<1>2. s \in Line /\ Len(s) = Len(c) + Len(d)
      /\ \A i \in 1..(Len(c) + Len(d)) : s[i] = IF i <= Len(c) THEN c[i] ELSE d[i - Len(c)]
  BY <1>1, ConcatProperties DEF Line
<1>3. \A i \in 1..Len(s) : i > Len(c) => s[i] \in Spaces
  BY <1>1, <1>2 DEF IsBlank
<1>4. \A i \in 1..Len(c) : s[i] = c[i]
  BY <1>1, <1>2
<1>. HIDE DEF s
<1>5. CASE c = <<>>
  <2>1. Words(s) = {}
    BY <1>2, <1>3, <1>5, WordPlaces, EmptySeq DEF Words
  <2>. QED BY <1>5, <2>1 DEF Trim, s
<1>6. CASE c # <<>>
  <2>1. Len(c) >= 1
    BY <1>1, <1>6, EmptySeq
  <2>2. 1 \in Words(s) /\ Len(c) \in Words(s)
    BY <1>1, <1>2, <1>4, <1>6, <2>1, WordPlaces DEF Words, IsTight
  <2>3. \A i \in Words(s) : 1 =< i /\ i =< Len(c)
    BY <1>1, <1>2, <1>3, WordPlaces DEF Words
  <2>4. Words(s) \in SUBSET Int
    BY <1>2, WordPlaces
  <2>5. Min(Words(s)) = 1 /\ Max(Words(s)) = Len(c)
    BY <2>2, <2>3, <2>4, MinIs, MaxIs
  <2>6. Trim(s) = SubSeq(s, 1, Len(c))
    BY <2>2, <2>5 DEF Trim
  <2>7. /\ SubSeq(s, 1, Len(c)) \in Line /\ Len(SubSeq(s, 1, Len(c))) = Len(c) + 1 - 1
        /\ \A i \in 1..(Len(c) + 1 - 1) : SubSeq(s, 1, Len(c))[i] = s[1 + i - 1]
    BY <1>1, <1>2, <2>1, PartOf
  <2>8. \A i \in 1..Len(c) : SubSeq(s, 1, Len(c))[i] = c[i]
    BY <1>1, <1>4, <2>7
  <2>9. SubSeq(s, 1, Len(c)) = c
    BY <1>1, <2>7, <2>8, SeqEqual DEF Line
  <2>. QED BY <2>6, <2>9 DEF s
<1>. QED BY <1>5, <1>6

LEMMA TrimLeft ==
  ASSUME NEW d, NEW c, IsBlank(d), c \in Line, c # <<>>, c[1] \notin Spaces
  PROVE  TrimStart(d \o c) = c /\ Trim(d \o c) = Trim(c)
<1>. DEFINE s == d \o c
<1>1. d \in Line /\ Len(c) \in Nat /\ Len(d) \in Nat /\ Len(c) >= 1
  BY LenProperties, EmptySeq DEF IsBlank, Line
<1>2. s \in Line /\ Len(s) = Len(d) + Len(c)
      /\ \A i \in 1..(Len(d) + Len(c)) : s[i] = IF i <= Len(d) THEN d[i] ELSE c[i - Len(d)]
  BY <1>1, ConcatProperties DEF Line
<1>3. \A i \in 1..Len(d) : s[i] \in Spaces
  BY <1>1, <1>2 DEF IsBlank
<1>4. \A i \in 1..Len(c) : s[Len(d) + i] = c[i]
  BY <1>1, <1>2
<1>. HIDE DEF s
<1>5. \A i \in Int : i \in Words(c) <=> Len(d) + i \in Words(s) /\ i > 0
  BY <1>1, <1>2, <1>4, WordPlaces DEF Words
<1>6. \A i \in Words(s) : i - Len(d) \in Words(c) /\ i = Len(d) + (i - Len(d))
  BY <1>1, <1>2, <1>3, <1>4, WordPlaces DEF Words
<1>7. 1 \in Words(c)
  BY <1>1, WordPlaces DEF Words
<1>8. PICK a, b \in Words(c) :
        /\ \A i \in Words(c) : a =< i /\ i =< b
        /\ Trim(c) = SubSeq(c, a, b) /\ TrimStart(c) = SubSeq(c, a, Len(c))
  BY <1>7, TrimIsPart
<1>9. a = 1 /\ b \in 1..Len(c)
  BY <1>7, <1>8, WordPlaces
<1>10. /\ Words(s) \in SUBSET Int /\ Len(d) + 1 \in Words(s) /\ Len(d) + b \in Words(s)
       /\ \A i \in Words(s) : Len(d) + 1 =< i /\ i =< Len(d) + b
  <2>1. Words(s) \in SUBSET Int
    BY <1>2, WordPlaces
  <2>2. Len(d) + 1 \in Words(s) /\ Len(d) + b \in Words(s)
    BY <1>5, <1>7, <1>9
  <2>3. ASSUME NEW i \in Words(s) PROVE Len(d) + 1 =< i /\ i =< Len(d) + b
    <3>1. a =< i - Len(d) /\ i - Len(d) =< b /\ i \in Int
      BY <1>6, <1>8, <2>1
    <3>. QED BY <1>1, <1>9, <3>1
  <2>. QED BY <2>1, <2>2, <2>3
<1>11. Min(Words(s)) = Len(d) + 1 /\ Max(Words(s)) = Len(d) + b
  BY <1>10, MinIs, MaxIs
<1>12. ASSUME NEW e \in 1..Len(c)
       PROVE  SubSeq(s, Len(d) + 1, Len(d) + e) = SubSeq(c, 1, e)
  <2>1. Len(d) + 1 \in Len(d)+1 .. Len(d)+Len(c) /\ Len(d) + e \in Len(d)+1 .. Len(d)+Len(c)
        /\ (Len(d) + 1) - Len(d) = 1 /\ (Len(d) + e) - Len(d) = e
    BY <1>1
  <2>. QED BY <1>1, <2>1, SubSeqOfConcat2 DEF Line, s
<1>13. Trim(s) = SubSeq(s, Len(d) + 1, Len(d) + b) /\ TrimStart(s) = SubSeq(s, Len(d) + 1, Len(d) + Len(c))
  BY <1>2, <1>10, <1>11 DEF Trim, TrimStart
<1>14. SubSeq(c, 1, Len(c)) = c
  BY SubSeqFull DEF Line
<1>. QED BY <1>1, <1>8, <1>9, <1>12, <1>13, <1>14 DEF s

(* split_once.                                                             *)
LEMMA SplitFirst ==
  ASSUME NEW k \in Line, NEW v \in Line, \A i \in 1..Len(k) : k[i] # "="
  PROVE  LET s == k \o (<<"=">> \o v)
         IN  /\ s \in Line /\ Equals(s) # {} /\ SplitAt(s) = Len(k) + 1
             /\ SubSeq(s, 1, SplitAt(s) - 1) = k
             /\ SubSeq(s, SplitAt(s) + 1, Len(s)) = v
<1>. DEFINE w == <<"=">> \o v
            s == k \o w
<1>1. <<"=">> \in Line /\ Len(<<"=">>) = 1 /\ <<"=">>[1] = "="
  <2>1. "=" \in Tokens
    BY EntriesAssumption DEF EntriesAssumption
  <2>. QED BY <2>1, Single
<1>2. /\ w \in Line /\ Len(w) = 1 + Len(v) /\ w[1] = "=" /\ \A i \in 1..Len(v) : w[1 + i] = v[i]
      /\ Len(v) \in Nat
  BY <1>1, Joined
<1>. HIDE DEF w
<1>3. /\ s \in Line /\ Len(s) = Len(k) + Len(w)
      /\ Len(k) \in Nat /\ Len(w) \in Nat
      /\ \A i \in 1..Len(k) : s[i] = k[i]
      /\ \A i \in 1..Len(w) : s[Len(k) + i] = w[i]
  <2>1. w \in Line
    BY <1>2
  <2>. QED BY <2>1, Joined
<1>. HIDE DEF s
<1>4. /\ s[Len(k) + 1] = "="
      /\ \A i \in 1..Len(v) : s[Len(k) + 1 + i] = v[i]
  <2>1. \A i \in 1..Len(v) : Len(k) + (1 + i) = Len(k) + 1 + i /\ 1 + i \in 1..Len(w)
    BY <1>2, <1>3
  <2>. QED BY <1>2, <1>3, <2>1
<1>5. Equals(s) \in SUBSET Int /\ Len(k) + 1 \in Equals(s) /\ \A i \in Equals(s) : Len(k) + 1 =< i
  <2>1. DOMAIN s = 1..Len(s) /\ Len(k) + 1 \in 1..Len(s)
    BY <1>2, <1>3, WordPlaces
  <2>2. ASSUME NEW i \in Equals(s) PROVE Len(k) + 1 =< i
    BY <1>3, <2>1 DEF Equals
  <2>. QED BY <1>4, <2>1, <2>2 DEF Equals
<1>6. SplitAt(s) = Len(k) + 1
  BY <1>5, MinIs DEF SplitAt
<1>7. /\ SubSeq(s, 1, Len(k)) \in Line /\ Len(SubSeq(s, 1, Len(k))) = Len(k) + 1 - 1
      /\ \A i \in 1..(Len(k) + 1 - 1) : SubSeq(s, 1, Len(k))[i] = s[1 + i - 1]
  BY <1>1, <1>2, <1>3, PartOf
<1>8. Len(k) + 1 - 1 = Len(k) /\ \A i \in 1..Len(k) : 1 + i - 1 = i
  BY <1>1
<1>9. SubSeq(s, 1, Len(k)) = k
  BY <1>3, <1>7, <1>8, SeqEqual DEF Line
<1>10. /\ SubSeq(s, Len(k) + 2, Len(s)) \in Line
       /\ Len(SubSeq(s, Len(k) + 2, Len(s))) = Len(s) + 1 - (Len(k) + 2)
       /\ \A i \in 1..(Len(s) + 1 - (Len(k) + 2)) : SubSeq(s, Len(k) + 2, Len(s))[i] = s[Len(k) + 2 + i - 1]
  BY <1>1, <1>2, <1>3, PartOf
<1>11. Len(s) + 1 - (Len(k) + 2) = Len(v) /\ \A i \in 1..Len(v) : Len(k) + 2 + i - 1 = Len(k) + 1 + i
  BY <1>1, <1>2, <1>3
<1>12. SubSeq(s, Len(k) + 2, Len(s)) = v
  <2>1. \A i \in 1..Len(v) : SubSeq(s, Len(k) + 2, Len(s))[i] = v[i]
    BY <1>4, <1>10, <1>11
  <2>2. Len(SubSeq(s, Len(k) + 2, Len(s))) = Len(v)
    BY <1>10, <1>11
  <2>. QED BY <1>10, <2>1, <2>2, SeqEqual DEF Line
<1>13. (Len(k) + 1) - 1 = Len(k) /\ (Len(k) + 1) + 1 = Len(k) + 2
  BY <1>1
<1>. QED BY <1>3, <1>5, <1>6, <1>9, <1>12, <1>13 DEF s, w

(* The value as written: quoted, or bare.                                  *)
LEMMA Unquoted ==
  ASSUME NEW quote \in {<<>>} \cup {<<m>> : m \in Marks}, NEW value, IsValue(quote, value)
  PROVE  LET v == quote \o value \o quote
         IN  IsTight(v) /\ StripMatchingQuotes(v) = value
<1>1. value \in Line /\ Len(value) \in Nat /\ <<>> \in Line
  BY LenProperties, EmptySeq DEF IsValue, Line
<1>2. CASE quote = <<>>
  <2>1. quote \o value \o quote = value
    BY <1>1, <1>2, ConcatEmptySeq DEF Line
  <2>2. IsTight(value)
    BY <1>1, <1>2 DEF IsTight, IsValue
  <2>3. value # <<>> => Len(value) >= 1
    BY <1>1, EmptySeq DEF Line
  <2>4. ~(Len(value) >= 2 /\ value[1] \in Marks /\ value[Len(value)] = value[1])
    <3>1. CASE value = <<>>
      BY <3>1, EmptySeq
    <3>2. CASE value # <<>>
      BY <1>1, <1>2, <3>2 DEF IsValue
    <3>. QED BY <3>1, <3>2
  <2>. QED BY <2>1, <2>2, <2>4 DEF StripMatchingQuotes
<1>3. ASSUME NEW m \in Marks, quote = <<m>>
      PROVE  IsTight(quote \o value \o quote) /\ StripMatchingQuotes(quote \o value \o quote) = value
  <2>. DEFINE v == quote \o value \o quote
              n == Len(value)
  <2>1. m \in Tokens /\ m \notin Spaces
    BY EntriesAssumption DEF EntriesAssumption, Marks, Spaces
  <2>2. quote \in Line /\ Len(quote) = 1 /\ quote[1] = m
    BY <1>3, <2>1, Single
  <2>3. /\ quote \o value \in Line /\ Len(quote \o value) = 1 + n
        /\ (quote \o value)[1] = m /\ \A i \in 1..n : (quote \o value)[1 + i] = value[i]
    <3>1. /\ quote \o value \in Line /\ Len(quote \o value) = Len(quote) + n
          /\ \A i \in 1..Len(quote) : (quote \o value)[i] = quote[i]
          /\ \A i \in 1..n : (quote \o value)[Len(quote) + i] = value[i]
      <4>1. quote \in Line /\ value \in Line
        BY <1>1, <2>2
      <4>. QED BY <4>1, Joined
    <3>. QED BY <2>2, <3>1
  <2>4. /\ v \in Line /\ Len(v) = 1 + n + 1 /\ v[1 + n + 1] = m
        /\ \A i \in 1..(1 + n) : v[i] = (quote \o value)[i]
    BY <2>2, <2>3, Joined
  <2>. HIDE DEF v
  <2>5. v[1] = m /\ v[n + 2] = m /\ \A i \in 1..n : v[1 + i] = value[i]
    <3>1. 1 + n + 1 = n + 2 /\ 1 \in 1..(1 + n) /\ \A i \in 1..n : 1 + i \in 1..(1 + n)
      BY <1>1
    <3>. QED BY <2>3, <2>4, <3>1
  <2>6. Len(v) = n + 2 /\ Len(v) >= 2 /\ Len(v) - 1 = n + 1
    BY <1>1, <2>4
  <2>7. IsTight(v)
    BY <2>1, <2>4, <2>5, <2>6 DEF IsTight
  <2>8. StripMatchingQuotes(v) = SubSeq(v, 2, n + 1)
    BY <2>5, <2>6 DEF StripMatchingQuotes
  <2>9. /\ SubSeq(v, 2, n + 1) \in Line /\ Len(SubSeq(v, 2, n + 1)) = (n + 1) + 1 - 2
        /\ \A i \in 1..((n + 1) + 1 - 2) : SubSeq(v, 2, n + 1)[i] = v[2 + i - 1]
    BY <1>1, <2>4, <2>6, PartOf
  <2>10. (n + 1) + 1 - 2 = n /\ \A i \in 1..n : 2 + i - 1 = 1 + i
    BY <1>1
  <2>11. SubSeq(v, 2, n + 1) = value
    BY <1>1, <2>5, <2>9, <2>10, SeqEqual DEF Line
  <2>. QED BY <2>7, <2>8, <2>11 DEF v
<1>. QED BY <1>2, <1>3

(* A pair without blanks in front: a name, the sign, what is given.        *)
Assigned(k, t) == k \o (<<"=">> \o t)

LEMMA AssignedShape ==
  ASSUME NEW k, NEW t, k \in Line, t \in Line
  PROVE  /\ Assigned(k, t) \in Line /\ <<"=">> \in Line /\ <<"=">> \o t \in Line
         /\ Len(Assigned(k, t)) = Len(k) + 1 + Len(t)
         /\ Len(k) \in Nat /\ Len(t) \in Nat
         /\ \A i \in 1..Len(k) : Assigned(k, t)[i] = k[i]
         /\ Assigned(k, t)[Len(k) + 1] = "="
         /\ \A i \in 1..Len(t) : Assigned(k, t)[Len(k) + 1 + i] = t[i]
<1>. DEFINE w == <<"=">> \o t
<1>1. <<"=">> \in Line /\ Len(<<"=">>) = 1 /\ <<"=">>[1] = "="
  <2>1. "=" \in Tokens
    BY EntriesAssumption DEF EntriesAssumption
  <2>. QED BY <2>1, Single
<1>2. /\ w \in Line /\ Len(w) = 1 + Len(t) /\ w[1] = "=" /\ \A i \in 1..Len(t) : w[1 + i] = t[i]
      /\ Len(t) \in Nat
  BY <1>1, Joined
<1>. HIDE DEF w
<1>3. /\ k \o w \in Line /\ Len(k \o w) = Len(k) + Len(w)
      /\ Len(k) \in Nat /\ Len(w) \in Nat
      /\ \A i \in 1..Len(k) : (k \o w)[i] = k[i]
      /\ \A i \in 1..Len(w) : (k \o w)[Len(k) + i] = w[i]
  <2>1. w \in Line
    BY <1>2
  <2>. QED BY <2>1, Joined
<1>4. Assigned(k, t) = k \o w
  BY DEF Assigned, w
<1>5. \A i \in 1..Len(t) : Len(k) + (1 + i) = Len(k) + 1 + i /\ 1 + i \in 1..Len(w)
  BY <1>2, <1>3
<1>6. Len(k) + Len(w) = Len(k) + 1 + Len(t) /\ 1 \in 1..Len(w)
  BY <1>2, <1>3
<1>7. w = <<"=">> \o t
  BY DEF w
<1>. QED BY <1>1, <1>2, <1>3, <1>4, <1>5, <1>6, <1>7

LEMMA TrimTight == ASSUME NEW c, IsTight(c) PROVE Trim(c) = c
<1>1. <<>> \in Line /\ c \o <<>> = c /\ IsBlank(<<>>)
  BY EmptySeq, ConcatEmptySeq DEF IsTight, IsBlank, Line
<1>. QED BY <1>1, TrimRight

LEMMA TrimBlanks == ASSUME NEW d, IsBlank(d) PROVE Trim(d) = <<>>
<1>1. <<>> \in Line /\ <<>> \o d = d /\ IsTight(<<>>)
  BY EmptySeq, ConcatEmptySeq DEF IsTight, IsBlank, Line
<1>. QED BY <1>1, TrimRight

LEMMA Associative ==
  ASSUME NEW a, NEW b, NEW c, a \in Line, b \in Line, c \in Line
  PROVE  (a \o b) \o c = a \o (b \o c)
BY ConcatAssociative DEF Line

LEMMA BlankBlank == ASSUME NEW d, NEW e, IsBlank(d), IsBlank(e) PROVE IsBlank(d \o e)
<1>1. d \in Line /\ e \in Line
  BY DEF IsBlank
<1>2. /\ d \o e \in Line /\ Len(d \o e) = Len(d) + Len(e) /\ Len(d) \in Nat /\ Len(e) \in Nat
      /\ \A i \in 1..Len(d) : (d \o e)[i] = d[i]
      /\ \A i \in 1..Len(e) : (d \o e)[Len(d) + i] = e[i]
  BY <1>1, Joined
<1>3. ASSUME NEW i \in 1..(Len(d) + Len(e)) PROVE (d \o e)[i] \in Spaces
  <2>1. CASE i =< Len(d)
    BY <1>2, <2>1 DEF IsBlank
  <2>2. CASE i > Len(d)
    <3>1. i - Len(d) \in 1..Len(e) /\ i = Len(d) + (i - Len(d))
      BY <1>2, <2>2
    <3>. QED BY <1>2, <3>1 DEF IsBlank
  <2>. QED BY <1>2, <2>1, <2>2
<1>. QED BY <1>2, <1>3 DEF IsBlank

Apart(p, k, d, e) == (p \o Assigned(k, d)) \o e = (p \o Assigned(k, <<>>)) \o (d \o e)

LEMMA BlanksApart ==
  ASSUME NEW p, NEW k, NEW d, NEW e, p \in Line, k \in Line, d \in Line, e \in Line
  PROVE  Apart(p, k, d, e)
<1>1. PICK q \in Line : q = <<"=">>
  BY AssignedShape
<1>2. PICK kq \in Line : kq = k \o q
  BY <1>1, Joined
<1>3. PICK pkq \in Line : pkq = p \o kq
  BY Joined
<1>4. q \o <<>> = q
  BY ConcatEmptySeq DEF Line
<1>5. Assigned(k, d) = kq \o d /\ Assigned(k, <<>>) = kq
  <2>1. (k \o q) \o d = k \o (q \o d)
    BY Associative
  <2>. QED BY <1>1, <1>2, <1>4, <2>1 DEF Assigned
<1>6. p \o (kq \o d) = pkq \o d
  <2>1. (p \o kq) \o d = p \o (kq \o d)
    BY Associative
  <2>. QED BY <1>3, <2>1
<1>7. (pkq \o d) \o e = pkq \o (d \o e)
  BY Associative
<1>. QED BY <1>3, <1>5, <1>6, <1>7 DEF Apart

(* What stands behind the sign loses its blanks on the right, or all.      *)
LEMMA TrimEntry ==
  ASSUME NEW p, NEW k, NEW d, NEW e, NEW v, p \in Line, k \in Line,
         IsBlank(d), IsBlank(e), IsTight(v),
         p \o k # <<>>, (p \o k)[1] \notin Spaces
  PROVE  \E t \in Line : /\ Trim(t) = v
                         /\ Trim((p \o Assigned(k, d \o v)) \o e) = p \o Assigned(k, t)
<1>1. d \in Line /\ e \in Line /\ v \in Line /\ <<>> \in Line /\ p \o k \in Line /\ Len(p \o k) \in Nat /\ Len(p \o k) >= 1
  BY Joined, LenProperties, EmptySeq DEF IsBlank, IsTight, Line
<1>2. ASSUME NEW t \in Line
      PROVE  /\ p \o Assigned(k, t) \in Line /\ p \o Assigned(k, t) # <<>>
             /\ (p \o Assigned(k, t))[1] \notin Spaces
             /\ (p \o Assigned(k, t))[Len(p \o Assigned(k, t))] = IF t = <<>> THEN "=" ELSE t[Len(t)]
  <2>. DEFINE s == Assigned(p \o k, t)
  <2>1. s = p \o Assigned(k, t)
    <3>1. PICK w \in Line : w = <<"=">> \o t
      BY AssignedShape, <1>1
    <3>2. (p \o k) \o w = p \o (k \o w)
      BY Associative
    <3>3. Assigned(p \o k, t) = (p \o k) \o w /\ Assigned(k, t) = k \o w
      BY <3>1 DEF Assigned
    <3>. QED BY <3>2, <3>3
  <2>2. /\ s \in Line /\ Len(s) = Len(p \o k) + 1 + Len(t)
        /\ Len(p \o k) \in Nat /\ Len(t) \in Nat
        /\ \A i \in 1..Len(p \o k) : s[i] = (p \o k)[i]
        /\ s[Len(p \o k) + 1] = "="
        /\ \A i \in 1..Len(t) : s[Len(p \o k) + 1 + i] = t[i]
    <3>1. PICK q \in Line : q = p \o k
      BY <1>1
    <3>2. /\ Assigned(q, t) \in Line
          /\ Len(Assigned(q, t)) = Len(q) + 1 + Len(t)
          /\ Len(q) \in Nat /\ Len(t) \in Nat
          /\ \A i \in 1..Len(q) : Assigned(q, t)[i] = q[i]
          /\ Assigned(q, t)[Len(q) + 1] = "="
          /\ \A i \in 1..Len(t) : Assigned(q, t)[Len(q) + 1 + i] = t[i]
      BY AssignedShape
    <3>. QED BY <3>1, <3>2
  <2>. HIDE DEF s
  <2>3. s # <<>> /\ s[1] \notin Spaces
    BY <1>1, <2>2, EmptySeq
  <2>4. s[Len(s)] = IF t = <<>> THEN "=" ELSE t[Len(t)]
    <3>1. CASE t = <<>>
      BY <1>1, <2>2, <3>1, EmptySeq
    <3>2. CASE t # <<>>
      <4>1. Len(t) \in 1..Len(t)
        BY <2>2, <3>2, EmptySeq DEF Line
      <4>. QED BY <2>2, <3>2, <4>1
    <3>. QED BY <3>1, <3>2
  <2>. QED BY <2>1, <2>2, <2>3, <2>4
<1>3. CASE v = <<>>
  <2>1. d \o v = d
    BY <1>1, <1>3, ConcatEmptySeq DEF Line
  <2>2. IsTight(p \o Assigned(k, <<>>))
    BY <1>1, <1>2 DEF IsTight
  <2>3. (p \o Assigned(k, d)) \o e = (p \o Assigned(k, <<>>)) \o (d \o e)
    <3>1. p \in Line /\ k \in Line /\ d \in Line /\ e \in Line
      BY <1>1
    <3>2. Apart(p, k, d, e)
      BY <3>1, BlanksApart
    <3>. QED BY <3>2 DEF Apart
  <2>4. Trim((p \o Assigned(k, <<>>)) \o (d \o e)) = p \o Assigned(k, <<>>)
    BY <2>2, BlankBlank, TrimRight
  <2>5. Trim(<<>>) = v
    BY <1>1, <1>3, TrimTight DEF IsTight
  <2>. QED BY <1>1, <2>1, <2>3, <2>4, <2>5
<1>4. CASE v # <<>>
  <2>1. v[1] \notin Spaces /\ v[Len(v)] \notin Spaces
    BY <1>4 DEF IsTight
  <2>2. Trim(d \o v) = v
    BY <1>1, <1>4, <2>1, TrimLeft, TrimTight
  <2>3. d \o v \in Line /\ d \o v # <<>> /\ (d \o v)[Len(d \o v)] = v[Len(v)]
    <3>1. /\ d \o v \in Line /\ Len(d \o v) = Len(d) + Len(v)
          /\ Len(d) \in Nat /\ Len(v) \in Nat
          /\ \A i \in 1..Len(d) : (d \o v)[i] = d[i]
          /\ \A i \in 1..Len(v) : (d \o v)[Len(d) + i] = v[i]
      BY <1>1, Joined
    <3>2. Len(v) \in 1..Len(v)
      BY <1>1, <1>4, <3>1, EmptySeq DEF Line
    <3>3. d \o v # <<>>
      BY <3>1, <3>2, EmptySeq
    <3>. QED BY <3>1, <3>2, <3>3
  <2>4. IsTight(p \o Assigned(k, d \o v))
    BY <1>2, <2>1, <2>3 DEF IsTight
  <2>. QED BY <2>2, <2>3, <2>4, TrimRight
<1>. QED BY <1>3, <1>4

-----------------------------------------------------------------------------
(* How LoadLine reads the three kinds of lines.                            *)

LEMMA NameShape ==
  ASSUME NEW key, IsName(key)
  PROVE  /\ key \in Line /\ key # <<>> /\ Len(key) \in Nat \ {0} /\ DOMAIN key = 1..Len(key)
         /\ IsTight(key) /\ key[1] # "#"
         /\ \A i \in 1..Len(key) : key[i] \notin Spaces /\ key[i] # "="
         /\ ~(key[1] = "export" /\ Len(key) = 1)
<1>1. key \in Line /\ key # <<>> /\ key # <<"export">>
  BY DEF IsName, Line
<1>2. Len(key) \in Nat \ {0} /\ DOMAIN key = 1..Len(key)
  BY <1>1, LenProperties, EmptySeq DEF Line
<1>3. key[1] # "#" /\ \A i \in 1..Len(key) : key[i] \notin Spaces /\ key[i] # "="
  BY <1>2 DEF IsName
<1>4. ASSUME key[1] = "export", Len(key) = 1 PROVE FALSE
  <2>1. "export" \in Tokens
    BY EntriesAssumption DEF EntriesAssumption
  <2>2. <<"export">> \in Line /\ Len(<<"export">>) = 1 /\ <<"export">>[1] = "export"
    BY <2>1, Single
  <2>3. key = <<"export">>
    BY <1>1, <1>4, <2>2, SeqEqual DEF Line
  <2>. QED BY <1>1, <2>3
<1>5. IsTight(key)
  BY <1>1, <1>2, <1>3 DEF IsTight
<1>. QED BY <1>1, <1>2, <1>3, <1>4, <1>5

(* A name with its value, once blanks in front and the word export are     *)
(* away.                                                                   *)
LEMMA PairRead ==
  ASSUME NEW key, IsName(key), NEW d, IsBlank(d), NEW t \in Line, NEW line,
         Pair(line) = Assigned(key \o d, t)
  PROVE  IsPair(line) /\ KeyOf(line) = key /\ ValueOf(line) = StripMatchingQuotes(Trim(t))
<1>. DEFINE k == key \o d
<1>1. k \in Line /\ \A i \in 1..Len(k) : k[i] # "="
  <2>1. key \in Line /\ d \in Line
    BY NameShape DEF IsBlank
  <2>2. /\ k \in Line /\ Len(k) = Len(key) + Len(d)
        /\ Len(key) \in Nat /\ Len(d) \in Nat
        /\ \A i \in 1..Len(key) : k[i] = key[i]
        /\ \A i \in 1..Len(d) : k[Len(key) + i] = d[i]
    BY <2>1, Joined
  <2>3. ASSUME NEW i \in 1..(Len(key) + Len(d)) PROVE k[i] # "="
    <3>1. CASE i =< Len(key)
      BY <2>2, <3>1, NameShape
    <3>2. CASE i > Len(key)
      <4>1. i - Len(key) \in 1..Len(d) /\ i = Len(key) + (i - Len(key))
        BY <2>2, <3>2
      <4>. QED BY <2>2, <4>1 DEF IsBlank
    <3>. QED BY <2>2, <3>1, <3>2
  <2>. QED BY <2>2, <2>3
<1>2. Trim(k) = key
  BY NameShape, TrimRight
<1>. HIDE DEF k
<1>3. /\ Equals(Assigned(k, t)) # {}
      /\ SubSeq(Assigned(k, t), 1, SplitAt(Assigned(k, t)) - 1) = k
      /\ SubSeq(Assigned(k, t), SplitAt(Assigned(k, t)) + 1, Len(Assigned(k, t))) = t
  BY <1>1, SplitFirst DEF Assigned
<1>4. Pair(line) = Assigned(k, t)
  BY DEF k
<1>5. KeyOf(line) = key /\ ValueOf(line) = StripMatchingQuotes(Trim(t))
  BY <1>2, <1>3, <1>4 DEF KeyOf, ValueOf
<1>6. key # <<>> /\ ToSet(key) \cap Spaces = {}
  BY NameShape DEF ToSet
<1>. QED BY <1>3, <1>4, <1>5, <1>6 DEF IsPair

(* Text that begins with a name keeps its beginning.                       *)
LEMMA NoExport ==
  ASSUME NEW key, IsName(key), NEW d, IsBlank(d), NEW t \in Line
  PROVE  LET s == Assigned(key \o d, t)
         IN  /\ s \in Line /\ s # <<>> /\ s[1] \notin Spaces /\ s[1] # "#"
             /\ WithoutExport(s) = s
<1>. DEFINE k == key \o d
            s == Assigned(k, t)
<1>1. key \in Line /\ d \in Line
  BY NameShape DEF IsBlank
<1>2. /\ k \in Line /\ Len(k) = Len(key) + Len(d)
      /\ Len(key) \in Nat /\ Len(d) \in Nat
      /\ \A i \in 1..Len(key) : k[i] = key[i]
      /\ \A i \in 1..Len(d) : k[Len(key) + i] = d[i]
  BY <1>1, Joined
<1>. HIDE DEF k
<1>3. k \in Line
  BY <1>2
<1>4. /\ s \in Line
      /\ Len(s) = Len(k) + 1 + Len(t)
      /\ Len(k) \in Nat /\ Len(t) \in Nat
      /\ \A i \in 1..Len(k) : s[i] = k[i]
      /\ s[Len(k) + 1] = "="
      /\ \A i \in 1..Len(t) : s[Len(k) + 1 + i] = t[i]
  BY <1>3, AssignedShape
<1>. HIDE DEF s
<1>5. s[1] = key[1] /\ 1 \in 1..Len(key) /\ s # <<>>
  BY <1>2, <1>4, NameShape, EmptySeq
<1>6. ASSUME IsPrefix(<<"export", "ws">>, s) PROVE FALSE
  <2>1. s[1] = "export" /\ s[2] = "ws"
    <3>1. Len(<<"export", "ws">>) = 2 /\ SubSeq(<<"export", "ws">>, 1, 2) = SubSeq(s, 1, 2) /\ 2 =< Len(s)
      BY <1>6 DEF IsPrefix
    <3>2. SubSeq(<<"export", "ws">>, 1, 2)[1] = "export" /\ SubSeq(<<"export", "ws">>, 1, 2)[2] = "ws"
      OBVIOUS
    <3>3. \A i \in 1..(2 + 1 - 1) : SubSeq(s, 1, 2)[i] = s[1 + i - 1]
      BY <1>4, <3>1, PartOf
    <3>. QED BY <3>1, <3>2, <3>3
  <2>2. Len(key) # 1
    BY <1>5, <2>1, NameShape
  <2>3. 2 \in 1..Len(key) /\ 2 \in 1..Len(k)
    <3>1. Len(key) \in Nat /\ Len(d) \in Nat /\ Len(k) = Len(key) + Len(d) /\ 1 =< Len(key)
      BY <1>2, <1>5
    <3>2. 2 =< Len(key)
      <4>1. \A n \in Nat : n # 1 /\ 1 =< n => 2 =< n
        OBVIOUS
      <4>. QED BY <2>2, <3>1, <4>1
    <3>3. Len(k) \in Nat /\ 2 =< Len(k)
      BY <3>1, <3>2
    <3>. QED BY <3>1, <3>2, <3>3
  <2>4. s[2] = key[2]
    BY <1>2, <1>4, <2>3
  <2>. QED BY <2>1, <2>3, <2>4, NameShape
<1>7. WithoutExport(s) = s
  BY <1>6 DEF WithoutExport
<1>8. s[1] \notin Spaces /\ s[1] # "#"
  BY <1>5, NameShape
<1>. QED BY <1>4, <1>5, <1>7, <1>8 DEF s, k

LEMMA Two ==
  ASSUME NEW S, NEW x \in S, NEW y \in S
  PROVE  <<x, y>> \in Seq(S) /\ Len(<<x, y>>) = 2 /\ <<x, y>>[1] = x /\ <<x, y>>[2] = y
OBVIOUS

LEMMA ExportWord ==
  \E word \in Line : word = <<"export", "ws">> /\ Len(word) = 2 /\ word[1] = "export" /\ word[2] = "ws"
<1>1. "export" \in Tokens /\ "ws" \in Tokens
  BY EntriesAssumption DEF EntriesAssumption
<1>2. /\ <<"export", "ws">> \in Seq(Tokens) /\ Len(<<"export", "ws">>) = 2
      /\ <<"export", "ws">>[1] = "export" /\ <<"export", "ws">>[2] = "ws"
  BY <1>1, Two
<1>. QED BY <1>2 DEF Line

(* The word export and the blanks behind it are taken away.                *)
LEMMA Exported ==
  ASSUME NEW d, IsBlank(d), NEW a, a \in Line, a # <<>>, a[1] \notin Spaces
  PROVE  LET s == (<<"export", "ws">> \o d) \o a
         IN  <<"export", "ws">> \in Line /\ s \in Line /\ s # <<>> /\ s[1] = "export" /\ WithoutExport(s) = a
<1>1. PICK word \in Line : word = <<"export", "ws">> /\ Len(word) = 2 /\ word[1] = "export" /\ word[2] = "ws"
  BY ExportWord
<1>2. PICK rest \in Line : rest = d \o a
  BY Joined DEF IsBlank
<1>3. (word \o d) \o a = word \o rest
  <2>1. d \in Line
    BY DEF IsBlank
  <2>2. (word \o d) \o a = word \o (d \o a)
    BY <2>1, Associative
  <2>. QED BY <1>2, <2>2
<1>4. TrimStart(rest) = a
  BY <1>2, TrimLeft
<1>. DEFINE s == word \o rest
<1>5. /\ s \in Line /\ Len(s) = Len(word) + Len(rest)
      /\ Len(word) \in Nat /\ Len(rest) \in Nat
      /\ \A i \in 1..Len(word) : s[i] = word[i]
      /\ \A i \in 1..Len(rest) : s[Len(word) + i] = rest[i]
  BY Joined
<1>. HIDE DEF s
<1>6. Len(s) = 2 + Len(rest) /\ s[1] = "export" /\ s # <<>>
  BY <1>1, <1>5, EmptySeq
<1>7. IsPrefix(<<"export", "ws">>, s)
  <2>1. /\ SubSeq(word, 1, 2) \in Line /\ Len(SubSeq(word, 1, 2)) = 2 + 1 - 1
        /\ \A i \in 1..(2 + 1 - 1) : SubSeq(word, 1, 2)[i] = word[1 + i - 1]
    <3>1. 1 \in Nat /\ 2 \in Nat /\ 1 =< 1 /\ 1 =< 2 + 1 /\ 2 =< Len(word)
      BY <1>1
    <3>. QED BY <3>1, PartOf
  <2>2. /\ SubSeq(s, 1, 2) \in Line /\ Len(SubSeq(s, 1, 2)) = 2 + 1 - 1
        /\ \A i \in 1..(2 + 1 - 1) : SubSeq(s, 1, 2)[i] = s[1 + i - 1]
    BY <1>5, <1>6, PartOf
  <2>3. \A i \in 1..2 : SubSeq(word, 1, 2)[i] = SubSeq(s, 1, 2)[i]
    BY <1>1, <1>5, <2>1, <2>2
  <2>4. SubSeq(word, 1, 2) = SubSeq(s, 1, 2)
    BY <2>1, <2>2, <2>3, SeqEqual DEF Line
  <2>. QED BY <1>1, <1>5, <1>6, <2>4 DEF IsPrefix
<1>8. SubSeq(s, 3, Len(s)) = rest
  <2>1. /\ SubSeq(s, 3, Len(s)) \in Line /\ Len(SubSeq(s, 3, Len(s))) = Len(s) + 1 - 3
        /\ \A i \in 1..(Len(s) + 1 - 3) : SubSeq(s, 3, Len(s))[i] = s[3 + i - 1]
    BY <1>5, <1>6, PartOf
  <2>2. Len(s) + 1 - 3 = Len(rest) /\ \A i \in 1..Len(rest) : 3 + i - 1 = Len(word) + i
    BY <1>1, <1>5
  <2>3. Len(SubSeq(s, 3, Len(s))) = Len(rest) /\ \A i \in 1..Len(rest) : SubSeq(s, 3, Len(s))[i] = rest[i]
    BY <1>5, <2>1, <2>2
  <2>. QED BY <2>1, <2>3, SeqEqual DEF Line
<1>9. WithoutExport(s) = a
  BY <1>4, <1>7, <1>8 DEF WithoutExport
<1>10. s = (<<"export", "ws">> \o d) \o a
  BY <1>1, <1>3 DEF s
<1>. QED BY <1>1, <1>5, <1>6, <1>9, <1>10

LEMMA TrimBefore ==
  ASSUME NEW e, IsBlank(e), NEW d, IsBlank(d), NEW x, x \in Line, x # <<>>, x[1] \notin Spaces
  PROVE  Trim((e \o x) \o d) = Trim(x \o d)
<1>1. e \in Line /\ d \in Line
  BY DEF IsBlank
<1>2. /\ x \o d \in Line /\ Len(x \o d) = Len(x) + Len(d)
      /\ Len(x) \in Nat /\ Len(d) \in Nat
      /\ \A i \in 1..Len(x) : (x \o d)[i] = x[i]
  BY <1>1, Joined
<1>3. 1 \in 1..Len(x)
  BY <1>2, EmptySeq DEF Line
<1>4. x \o d # <<>> /\ (x \o d)[1] \notin Spaces
  BY <1>2, <1>3, EmptySeq
<1>5. PICK y \in Line : y = x \o d
  BY <1>2
<1>6. Trim(e \o y) = Trim(y)
  BY <1>4, <1>5, TrimLeft
<1>7. (e \o x) \o d = e \o (x \o d)
  BY <1>1, Associative
<1>. QED BY <1>5, <1>6, <1>7

LEMMA BlankOf == ASSUME NEW line \in Line, NEW s \in BlanksIn(line) PROVE IsBlank(s)
<1>1. PICK i \in 0..Len(line), j \in 0..Len(line) : s = SubSeq(line, i + 1, j)
  BY DEF BlanksIn, SubSeqs
<1>2. Len(line) \in Nat /\ \A k \in (i + 1)..j : line[k] \in Tokens
  BY WordPlaces, ElementOfSeq DEF Line
<1>3. s \in Line
  BY <1>1, <1>2, SubSeqProperties DEF Line
<1>4. Words(s) = {} /\ DOMAIN s = 1..Len(s)
  BY <1>3, WordPlaces DEF BlanksIn
<1>. QED BY <1>3, <1>4 DEF IsBlank, Words

(* An entry, its value as it is written.                                   *)
Whole(export, b1, b2, b3, b4, b5, key, v) ==
  LET word == IF export THEN <<"export", "ws">> ELSE <<>>
  IN  (b1 \o (word \o (b2 \o ((key \o b3) \o (<<"=">> \o (b4 \o v)))))) \o b5

Trims(export, b1, b2, b3, b4, b5, key, v) ==
  \E t \in Line :
    /\ Trim(t) = v
    /\ Trim(Whole(export, b1, b2, b3, b4, b5, key, v)) =
         IF export THEN (<<"export", "ws">> \o b2) \o Assigned(key \o b3, t)
                   ELSE Assigned(key \o b3, t)

(* Behind the trim, an entry is the pair, or the word export before it.    *)
LEMMA RenderTrimmed ==
  ASSUME NEW export \in BOOLEAN, NEW b1, NEW b2, NEW b3, NEW b4, NEW b5, NEW key, NEW v,
         IsBlank(b1), IsBlank(b2), IsBlank(b3), IsBlank(b4), IsBlank(b5), IsName(key), IsTight(v)
  PROVE  Trims(export, b1, b2, b3, b4, b5, key, v)
<1>. SUFFICES \E t \in Line :
       /\ Trim(t) = v
       /\ Trim(Whole(export, b1, b2, b3, b4, b5, key, v)) =
            IF export THEN (<<"export", "ws">> \o b2) \o Assigned(key \o b3, t)
                      ELSE Assigned(key \o b3, t)
  BY DEF Trims
<1>1. /\ b1 \in Line /\ b2 \in Line /\ b3 \in Line /\ b4 \in Line /\ b5 \in Line
      /\ v \in Line /\ key \in Line /\ <<>> \in Line
  BY NameShape, EmptySeq DEF IsBlank, IsTight, Line
<1>2. PICK k \in Line : k = key \o b3
  BY <1>1, Joined
<1>3. PICK g \in Line : g = b4 \o v
  BY <1>1, Joined
<1>4. PICK a \in Line : a = Assigned(k, g) /\ a # <<>> /\ a[1] \notin Spaces
  BY <1>2, NoExport
<1>5. a = (key \o b3) \o (<<"=">> \o (b4 \o v))
  BY <1>2, <1>3, <1>4 DEF Assigned
<1>6. k # <<>> /\ k[1] \notin Spaces
  <2>1. /\ key \o b3 \in Line /\ Len(key \o b3) = Len(key) + Len(b3)
        /\ Len(key) \in Nat /\ Len(b3) \in Nat
        /\ \A i \in 1..Len(key) : (key \o b3)[i] = key[i]
    BY <1>1, Joined
  <2>2. 1 \in 1..Len(key) /\ key[1] \notin Spaces
    BY NameShape
  <2>. QED BY <1>2, <2>1, <2>2, EmptySeq
<1>7. ASSUME NEW p \in Line, p \o k # <<>>, (p \o k)[1] \notin Spaces
      PROVE  \E t \in Line : Trim(t) = v /\ Trim((p \o a) \o b5) = p \o Assigned(k, t)
  <2>1. \E t \in Line : /\ Trim(t) = v
                       /\ Trim((p \o Assigned(k, b4 \o v)) \o b5) = p \o Assigned(k, t)
    <3>1. p \in Line /\ k \in Line /\ IsBlank(b4) /\ IsBlank(b5) /\ IsTight(v)
      OBVIOUS
    <3>. QED BY <1>7, <3>1, TrimEntry, SMTT(30)
  <2>. QED BY <1>3, <1>4, <2>1
<1>8. CASE export
  <2>1. PICK word \in Line : word = <<"export", "ws">>
    BY <1>4, Exported
  <2>2. PICK p \in Line : p = word \o b2
    BY <1>1, Joined
  <2>3. p \o a \in Line /\ p \o a # <<>> /\ (p \o a)[1] = "export"
    BY <1>4, <2>1, <2>2, Exported
  <2>4. word \o (b2 \o a) = p \o a
    <3>1. (word \o b2) \o a = word \o (b2 \o a)
      BY <1>1, Associative
    <3>. QED BY <2>2, <3>1
  <2>5. Trim((b1 \o (p \o a)) \o b5) = Trim((p \o a) \o b5)
    <3>1. PICK x \in Line : x = p \o a
      BY <2>3
    <3>2. x # <<>> /\ x[1] \notin Spaces
      BY <2>3, <3>1
    <3>. QED BY <3>1, <3>2, TrimBefore
  <2>6. p \o k # <<>> /\ (p \o k)[1] \notin Spaces
    BY <1>6, <2>1, <2>2, Exported
  <2>7. \E t \in Line : Trim(t) = v /\ Trim((p \o a) \o b5) = p \o Assigned(k, t)
    BY <1>7, <2>6
  <2>. QED BY <1>2, <1>5, <1>8, <2>1, <2>2, <2>4, <2>5, <2>7 DEF Whole
<1>9. CASE ~export
  <2>1. PICK e \in Line : e = b1 \o b2 /\ IsBlank(e)
    BY BlankBlank DEF IsBlank
  <2>2. b1 \o (<<>> \o (b2 \o a)) = e \o a
    <3>1. PICK b \in Line : b = b2 \o a
      BY <1>1, Joined
    <3>2. <<>> \o b = b
      BY ConcatEmptySeq DEF Line
    <3>3. (b1 \o b2) \o a = b1 \o (b2 \o a)
      BY <1>1, Associative
    <3>. QED BY <2>1, <3>1, <3>2, <3>3
  <2>3. Trim((e \o a) \o b5) = Trim(a \o b5)
    BY <1>4, <2>1, TrimBefore
  <2>4. <<>> \o k = k /\ \A b \in Line : <<>> \o b = b
    BY ConcatEmptySeq DEF Line
  <2>5. PICK p \in Line : p = <<>>
    BY <1>1
  <2>6. p \o k # <<>> /\ (p \o k)[1] \notin Spaces
    BY <1>6, <2>4, <2>5
  <2>7. PICK t \in Line : Trim(t) = v /\ Trim((p \o a) \o b5) = p \o Assigned(k, t)
    BY <1>7, <2>6
  <2>8. p \o a = a /\ p \o Assigned(k, t) = Assigned(k, t)
    <3>1. Assigned(k, t) \in Line
      BY AssignedShape
    <3>. QED BY <2>4, <2>5, <3>1
  <2>9. Trim((b1 \o (<<>> \o (b2 \o a))) \o b5) = Assigned(k, t)
    BY <2>2, <2>3, <2>7, <2>8
  <2>. QED BY <1>2, <1>5, <1>9, <2>7, <2>9 DEF Whole
<1>. QED BY <1>8, <1>9

LEMMA EntryRead ==
  ASSUME NEW line, NEW says, line \in Line, IsEntry(line, says)
  PROVE  ~IsSkipped(line) /\ IsPair(line) /\ says = {[key |-> KeyOf(line), value |-> ValueOf(line)]}
<1>1. PICK pair \in says :
        /\ says = {pair} /\ pair \in [key : Line, value : Line] /\ IsName(pair.key)
        /\ \E export \in BOOLEAN, quote \in {<<>>} \cup {<<m>> : m \in Marks},
             gaps \in [1..5 -> BlanksIn(line)] :
             /\ IsValue(quote, pair.value)
             /\ line = Render(export, gaps, quote, pair.key, pair.value)
  BY DEF IsEntry, Line
<1>2. PICK export \in BOOLEAN, quote \in {<<>>} \cup {<<m>> : m \in Marks},
        gaps \in [1..5 -> BlanksIn(line)] :
        /\ IsValue(quote, pair.value)
        /\ line = Render(export, gaps, quote, pair.key, pair.value)
  BY <1>1
<1>4. PICK b1, b2, b3, b4, b5 :
        b1 = gaps[1] /\ b2 = gaps[2] /\ b3 = gaps[3] /\ b4 = gaps[4] /\ b5 = gaps[5]
  OBVIOUS
<1>5. IsBlank(b1) /\ IsBlank(b2) /\ IsBlank(b3) /\ IsBlank(b4) /\ IsBlank(b5)
  <2>1. \A i \in 1..5 : IsBlank(gaps[i])
    BY BlankOf
  <2>. QED BY <1>4, <2>1
<1>6. PICK v : v = quote \o pair.value \o quote /\ IsTight(v) /\ StripMatchingQuotes(v) = pair.value
  BY <1>2, Unquoted
<1>7. PICK key : key = pair.key /\ IsName(key)
  BY <1>1
<1>8. line = Whole(export, b1, b2, b3, b4, b5, key, v)
  BY <1>2, <1>4, <1>6, <1>7 DEF Render, Whole
<1>9. PICK t \in Line :
        /\ Trim(t) = v
        /\ Trim(line) = IF export THEN (<<"export", "ws">> \o b2) \o Assigned(key \o b3, t)
                                  ELSE Assigned(key \o b3, t)
  <2>1. /\ IsBlank(b1) /\ IsBlank(b2) /\ IsBlank(b3) /\ IsBlank(b4) /\ IsBlank(b5)
        /\ IsName(key) /\ IsTight(v) /\ export \in BOOLEAN
    BY <1>5, <1>6, <1>7
  <2>2. Trims(export, b1, b2, b3, b4, b5, key, v)
    BY <2>1, RenderTrimmed
  <2>. QED BY <1>8, <2>2 DEF Trims
<1>10. PICK a \in Line : /\ a = Assigned(key \o b3, t) /\ a # <<>> /\ a[1] \notin Spaces /\ a[1] # "#"
                        /\ WithoutExport(a) = a
  BY <1>5, <1>7, NoExport
<1>11. /\ Pair(line) = a
       /\ Trim(line) \in Line /\ Trim(line) # <<>> /\ Trim(line)[1] # "#"
  <2>1. CASE export
    <3>1. Trim(line) = (<<"export", "ws">> \o b2) \o a
      BY <1>9, <1>10, <2>1
    <3>. QED BY <1>5, <1>10, <3>1, Exported DEF Pair
  <2>2. CASE ~export
    BY <1>9, <1>10, <2>2 DEF Pair
  <2>. QED BY <2>1, <2>2
<1>12. Head(Trim(line)) = Trim(line)[1]
  BY <1>11 DEF Line
<1>13. IsPair(line) /\ KeyOf(line) = key /\ ValueOf(line) = pair.value
  <2>1. Pair(line) = Assigned(key \o b3, t)
    BY <1>10, <1>11
  <2>2. IsPair(line) /\ KeyOf(line) = key /\ ValueOf(line) = StripMatchingQuotes(Trim(t))
    <3>1. IsName(key) /\ IsBlank(b3) /\ t \in Line
      BY <1>5, <1>7
    <3>. QED BY <2>1, <3>1, PairRead
  <2>. QED BY <1>6, <1>9, <2>2
<1>14. pair = [key |-> KeyOf(line), value |-> ValueOf(line)]
  BY <1>1, <1>7, <1>13
<1>. QED BY <1>1, <1>11, <1>12, <1>13, <1>14 DEF IsSkipped

(* What stands between two places of a part of a line is part of the line. *)
LEMMA PartOfPart ==
  ASSUME NEW s \in Line, NEW a \in Nat, NEW b \in Nat, 1 =< a, a =< b + 1, b =< Len(s),
         NEW x \in Nat, NEW y \in Nat, 1 =< x, x =< y + 1, y =< b + 1 - a
  PROVE  SubSeq(SubSeq(s, a, b), x, y) = SubSeq(s, a + x - 1, a + y - 1)
<1>1. PICK r \in Line : /\ r = SubSeq(s, a, b) /\ Len(r) = b + 1 - a
                       /\ \A i \in 1..(b + 1 - a) : r[i] = s[a + i - 1]
  <2>1. /\ SubSeq(s, a, b) \in Line /\ Len(SubSeq(s, a, b)) = b + 1 - a
        /\ \A i \in 1..(b + 1 - a) : SubSeq(s, a, b)[i] = s[a + i - 1]
    BY PartOf
  <2>. QED BY <2>1
<1>2. PICK p \in Line : /\ p = SubSeq(r, x, y) /\ Len(p) = y + 1 - x
                       /\ \A i \in 1..(y + 1 - x) : p[i] = r[x + i - 1]
  <2>1. r \in Line /\ x \in Nat /\ y \in Nat /\ 1 =< x /\ x =< y + 1 /\ y =< Len(r)
    BY <1>1
  <2>2. /\ SubSeq(r, x, y) \in Line /\ Len(SubSeq(r, x, y)) = y + 1 - x
        /\ \A i \in 1..(y + 1 - x) : SubSeq(r, x, y)[i] = r[x + i - 1]
    BY <2>1, PartOf
  <2>. QED BY <2>2
<1>. DEFINE u == a + x - 1
            w == a + y - 1
<1>3. u \in Nat /\ w \in Nat /\ 1 =< u /\ u =< w + 1 /\ Len(s) \in Nat /\ w =< Len(s) /\ w + 1 - u = y + 1 - x
  <2>1. Len(s) \in Nat
    BY WordPlaces
  <2>. QED BY <2>1
<1>. HIDE DEF u, w
<1>4. PICK q \in Line : /\ q = SubSeq(s, u, w) /\ Len(q) = w + 1 - u
                       /\ \A i \in 1..(w + 1 - u) : q[i] = s[u + i - 1]
  <2>1. /\ SubSeq(s, u, w) \in Line /\ Len(SubSeq(s, u, w)) = w + 1 - u
        /\ \A i \in 1..(w + 1 - u) : SubSeq(s, u, w)[i] = s[u + i - 1]
    BY <1>3, PartOf
  <2>. QED BY <2>1
<1>5. ASSUME NEW i \in 1..(y + 1 - x) PROVE p[i] = q[i]
  <2>1. x + i - 1 \in 1..(b + 1 - a) /\ a + (x + i - 1) - 1 = u + i - 1
    BY DEF u
  <2>2. p[i] = r[x + i - 1]
    BY <1>2
  <2>3. r[x + i - 1] = s[a + (x + i - 1) - 1]
    BY <1>1, <2>1
  <2>4. q[i] = s[u + i - 1]
    BY <1>3, <1>4
  <2>. QED BY <2>1, <2>2, <2>3, <2>4
<1>6. p = q
  BY <1>2, <1>3, <1>4, <1>5, SeqEqual DEF Line
<1>. QED BY <1>1, <1>2, <1>4, <1>6 DEF u, w

LEMMA PrefixRead ==
  ASSUME NEW s \in Line
  PROVE  IsPrefix(<<"export", "ws">>, s) <=> Len(s) >= 2 /\ s[1] = "export" /\ s[2] = "ws"
<1>1. PICK word \in Line : word = <<"export", "ws">> /\ Len(word) = 2 /\ word[1] = "export" /\ word[2] = "ws"
  BY ExportWord
<1>2. /\ SubSeq(word, 1, 2) \in Line /\ Len(SubSeq(word, 1, 2)) = 2 + 1 - 1
      /\ \A i \in 1..(2 + 1 - 1) : SubSeq(word, 1, 2)[i] = word[1 + i - 1]
  <2>1. 1 \in Nat /\ 2 \in Nat /\ 1 =< 1 /\ 1 =< 2 + 1 /\ 2 =< Len(word)
    BY <1>1
  <2>. QED BY <2>1, PartOf
<1>3. SubSeq(word, 1, 2)[1] = "export" /\ SubSeq(word, 1, 2)[2] = "ws"
  BY <1>1, <1>2
<1>4. CASE Len(s) >= 2
  <2>1. /\ SubSeq(s, 1, 2) \in Line /\ Len(SubSeq(s, 1, 2)) = 2 + 1 - 1
        /\ \A i \in 1..(2 + 1 - 1) : SubSeq(s, 1, 2)[i] = s[1 + i - 1]
    <3>1. 1 \in Nat /\ 2 \in Nat /\ 1 =< 1 /\ 1 =< 2 + 1 /\ 2 =< Len(s)
      BY <1>4, WordPlaces
    <3>. QED BY <3>1, PartOf
  <2>2. SubSeq(s, 1, 2)[1] = s[1] /\ SubSeq(s, 1, 2)[2] = s[2]
    BY <2>1
  <2>3. SubSeq(word, 1, 2) = SubSeq(s, 1, 2) <=> s[1] = "export" /\ s[2] = "ws"
    <3>1. ASSUME s[1] = "export", s[2] = "ws" PROVE SubSeq(word, 1, 2) = SubSeq(s, 1, 2)
      <4>1. \A i \in 1..2 : SubSeq(word, 1, 2)[i] = SubSeq(s, 1, 2)[i]
        BY <1>3, <2>2, <3>1
      <4>. QED BY <1>2, <2>1, <4>1, SeqEqual DEF Line
    <3>. QED BY <1>3, <2>2, <3>1
  <2>. QED BY <1>1, <1>4, <2>3 DEF IsPrefix
<1>5. CASE ~(Len(s) >= 2)
  <2>1. ~(2 =< Len(s))
    BY <1>5, WordPlaces
  <2>. QED BY <1>1, <1>5, <2>1 DEF IsPrefix
<1>. QED BY <1>4, <1>5

LEMMA BlanksBefore ==
  ASSUME NEW s \in Line, NEW a \in 1..Len(s), \A i \in Words(s) : a =< i
  PROVE  \A j \in 1..(a - 1) : s[j] \in Spaces
<1>. SUFFICES ASSUME NEW j \in 1..(a - 1) PROVE s[j] \in Spaces
  OBVIOUS
<1>1. Len(s) \in Nat /\ DOMAIN s = 1..Len(s)
  BY WordPlaces
<1>2. j \in DOMAIN s /\ ~(a =< j)
  BY <1>1
<1>. QED BY <1>2 DEF Words

LEMMA RemarkRead ==
  ASSUME NEW line \in Line
  PROVE  IsRemark(line) <=> IsSkipped(line)
<1>1. CASE Words(line) = {}
  BY <1>1 DEF IsRemark, IsSkipped, Trim
<1>2. CASE Words(line) # {}
  <2>1. PICK a, b \in Words(line) :
          /\ \A i \in Words(line) : a =< i /\ i =< b
          /\ Trim(line) = SubSeq(line, a, b) /\ TrimStart(line) = SubSeq(line, a, Len(line))
    BY <1>2, TrimIsPart
  <2>2. a \in 1..Len(line) /\ b \in 1..Len(line) /\ a =< b /\ Len(line) \in Nat
    BY <2>1, WordPlaces
  <2>3. PICK r \in Line : /\ r = SubSeq(line, a, b) /\ Len(r) = b + 1 - a
                         /\ \A i \in 1..(b + 1 - a) : r[i] = line[a + i - 1]
    <3>1. a \in Nat /\ b \in Nat /\ 1 =< a /\ a =< b + 1 /\ b =< Len(line)
      BY <2>2
    <3>2. /\ SubSeq(line, a, b) \in Line /\ Len(SubSeq(line, a, b)) = b + 1 - a
          /\ \A i \in 1..(b + 1 - a) : SubSeq(line, a, b)[i] = line[a + i - 1]
      BY <3>1, PartOf
    <3>. QED BY <3>2
  <2>4. 1 \in 1..(b + 1 - a) /\ a + 1 - 1 = a
    BY <2>2
  <2>5. r # <<>> /\ r[1] = line[a]
    <3>1. r[1] = line[a]
      BY <2>3, <2>4
    <3>2. Len(r) # 0
      BY <2>2, <2>3
    <3>. QED BY <3>1, <3>2, EmptySeq
  <2>6. Head(r) = r[1]
    BY <2>5 DEF Line
  <2>7. IsSkipped(line) <=> line[a] = "#"
    BY <2>1, <2>3, <2>5, <2>6 DEF IsSkipped
  <2>8. \A j \in 1..(a - 1) : line[j] \in Spaces
    BY <2>1, <2>2, BlanksBefore
  <2>9. ASSUME NEW i \in Words(line), \A j \in 1..(i - 1) : line[j] \in Spaces PROVE i = a
    <3>1. a =< i /\ i \in Nat /\ line[a] \notin Spaces
      BY <2>1, WordPlaces DEF Words
    <3>. QED BY <2>2, <2>9, <3>1
  <2>. QED BY <1>2, <2>7, <2>8, <2>9 DEF IsRemark
<1>. QED BY <1>1, <1>2

(* Of a line that is no remark the pair is what stands between two words,  *)
(* and only the word export can stand in front of it.                      *)
IsFirst(line, i) == \A j \in 1..(i - 1) : line[j] \in Spaces

IsExport(line, i) ==
  line[i] = "export" /\ IsFirst(line, i) /\ i < Len(line) /\ line[i + 1] = "ws"

LEMMA PairPlace ==
  ASSUME NEW line \in Line, Words(line) # {}
  PROVE  \E c, b \in Words(line) :
           /\ c =< b /\ \A i \in Words(line) : i =< b /\ (i < c => IsExport(line, i))
           /\ Pair(line) = SubSeq(line, c, b)
           /\ c < b => ~IsExport(line, c)
<1>1. PICK a, b \in Words(line) :
        /\ \A i \in Words(line) : a =< i /\ i =< b
        /\ Trim(line) = SubSeq(line, a, b) /\ TrimStart(line) = SubSeq(line, a, Len(line))
  BY TrimIsPart
<1>2. a \in 1..Len(line) /\ b \in 1..Len(line) /\ a =< b /\ Len(line) \in Nat
  BY <1>1, WordPlaces
<1>3. PICK r \in Line : /\ r = SubSeq(line, a, b) /\ Len(r) = b + 1 - a
                       /\ \A i \in 1..(b + 1 - a) : r[i] = line[a + i - 1]
  <2>1. a \in Nat /\ b \in Nat /\ 1 =< a /\ a =< b + 1 /\ b =< Len(line)
    BY <1>2
  <2>2. /\ SubSeq(line, a, b) \in Line /\ Len(SubSeq(line, a, b)) = b + 1 - a
        /\ \A i \in 1..(b + 1 - a) : SubSeq(line, a, b)[i] = line[a + i - 1]
    BY <2>1, PartOf
  <2>. QED BY <2>2
<1>4. IsFirst(line, a)
  BY <1>1, <1>2, BlanksBefore DEF IsFirst
<1>5. line[a] \notin Spaces /\ line[b] \notin Spaces
  BY <1>1 DEF Words
<1>6. CASE IsPrefix(<<"export", "ws">>, r)
  <2>1. Len(r) >= 2 /\ r[1] = "export" /\ r[2] = "ws"
    BY <1>6, PrefixRead
  <2>2. a + 1 =< b /\ line[a] = "export" /\ line[a + 1] = "ws"
    <3>1. 1 \in 1..(b + 1 - a) /\ 2 \in 1..(b + 1 - a) /\ a + 1 - 1 = a /\ a + 2 - 1 = a + 1
      BY <1>2, <1>3, <2>1
    <3>. QED BY <1>2, <1>3, <2>1, <3>1
  <2>3. a + 2 =< b
    <3>1. b # a + 1
      BY <1>5, <2>2
    <3>. QED BY <1>2, <2>2, <3>1
  <2>4. SubSeq(r, 3, Len(r)) = SubSeq(line, a + 2, b)
    <3>1. /\ a \in Nat /\ b \in Nat /\ 1 =< a /\ a =< b + 1 /\ b =< Len(line)
          /\ 3 \in Nat /\ b + 1 - a \in Nat /\ 1 =< 3 /\ 3 =< (b + 1 - a) + 1 /\ b + 1 - a =< b + 1 - a
      BY <1>2, <2>3
    <3>2. SubSeq(SubSeq(line, a, b), 3, b + 1 - a) = SubSeq(line, a + 3 - 1, a + (b + 1 - a) - 1)
      BY <3>1, PartOfPart
    <3>3. a + 3 - 1 = a + 2 /\ a + (b + 1 - a) - 1 = b
      BY <1>2
    <3>. QED BY <1>3, <3>2, <3>3
  <2>5. PICK q \in Line : /\ q = SubSeq(line, a + 2, b) /\ Len(q) = b + 1 - (a + 2)
                         /\ \A i \in 1..(b + 1 - (a + 2)) : q[i] = line[(a + 2) + i - 1]
    <3>1. a + 2 \in Nat /\ b \in Nat /\ 1 =< a + 2 /\ a + 2 =< b + 1 /\ b =< Len(line)
      BY <1>2, <2>3
    <3>2. /\ SubSeq(line, a + 2, b) \in Line /\ Len(SubSeq(line, a + 2, b)) = b + 1 - (a + 2)
          /\ \A i \in 1..(b + 1 - (a + 2)) : SubSeq(line, a + 2, b)[i] = line[(a + 2) + i - 1]
      BY <3>1, PartOf
    <3>. QED BY <3>2
  <2>6. \A i \in (a + 2)..b : i - a - 1 \in 1..Len(q) /\ q[i - a - 1] = line[i]
    <3>1. ASSUME NEW i \in (a + 2)..b
          PROVE  i - a - 1 \in 1..(b + 1 - (a + 2)) /\ (a + 2) + (i - a - 1) - 1 = i
      BY <1>2, <2>3
    <3>. QED BY <2>5, <3>1
  <2>7. \A i \in (a + 2)..b : i - a - 1 \in Words(q) <=> line[i] \notin Spaces
    BY <2>6, WordPlaces DEF Words
  <2>8. b - a - 1 \in Words(q)
    BY <1>2, <1>5, <2>3, <2>7
  <2>9. PICK f, l \in Words(q) :
          /\ \A i \in Words(q) : f =< i /\ i =< l
          /\ Trim(q) = SubSeq(q, f, l) /\ TrimStart(q) = SubSeq(q, f, Len(q))
    BY <2>8, TrimIsPart
  <2>10. f \in 1..Len(q) /\ Len(q) = b - a - 1
    <3>1. f \in 1..Len(q)
      BY <2>9, WordPlaces
    <3>. QED BY <1>2, <2>5, <3>1
  <2>. DEFINE c == a + f + 1
  <2>11. c \in (a + 2)..b /\ c - a - 1 = f /\ c \in Nat
    BY <1>2, <2>3, <2>10
  <2>12. TrimStart(q) = SubSeq(line, c, b)
    <3>1. /\ a + 2 \in Nat /\ b \in Nat /\ 1 =< a + 2 /\ a + 2 =< b + 1 /\ b =< Len(line)
          /\ f \in Nat /\ Len(q) \in Nat /\ 1 =< f /\ f =< Len(q) + 1 /\ Len(q) =< b + 1 - (a + 2)
      BY <1>2, <2>3, <2>10
    <3>2. SubSeq(SubSeq(line, a + 2, b), f, Len(q)) = SubSeq(line, (a + 2) + f - 1, (a + 2) + Len(q) - 1)
      BY <3>1, PartOfPart
    <3>3. (a + 2) + f - 1 = c /\ (a + 2) + Len(q) - 1 = b
      BY <1>2, <2>10
    <3>. QED BY <2>5, <2>9, <3>2, <3>3
  <2>. HIDE DEF c
  <2>13. Pair(line) = SubSeq(line, c, b)
    BY <1>1, <1>3, <1>6, <2>4, <2>5, <2>12 DEF Pair, WithoutExport
  <2>14. c \in Words(line) /\ ~IsFirst(line, c)
    <3>1. line[c] \notin Spaces
      BY <2>7, <2>9, <2>11
    <3>2. c \in 1..Len(line) /\ a \in 1..(c - 1)
      BY <1>2, <2>11
    <3>. QED BY <1>5, <3>1, <3>2, WordPlaces DEF Words, IsFirst
  <2>15. IsExport(line, a)
    BY <1>2, <1>4, <2>2, <2>3 DEF IsExport
  <2>16. ASSUME NEW i \in Words(line), i < c PROVE i = a
    <3>1. i \in 1..Len(line) /\ a =< i /\ line[i] \notin Spaces
      BY <1>1, WordPlaces DEF Words
    <3>2. i # a + 1
      BY <2>2, <3>1
    <3>3. ASSUME i >= a + 2 PROVE FALSE
      <4>1. i \in (a + 2)..b
        BY <1>2, <2>11, <2>16, <3>1, <3>3
      <4>2. i - a - 1 \in Words(q)
        BY <2>7, <3>1, <4>1
      <4>3. f =< i - a - 1
        BY <2>9, <4>2
      <4>. QED BY <1>2, <2>11, <2>16, <4>1, <4>3
    <3>. QED BY <1>2, <3>1, <3>2, <3>3
  <2>17. ~IsExport(line, c)
    BY <2>14 DEF IsExport
  <2>18. c =< b
    BY <1>2, <2>11
  <2>. QED BY <1>1, <2>13, <2>14, <2>15, <2>16, <2>17, <2>18
<1>7. CASE ~IsPrefix(<<"export", "ws">>, r)
  <2>1. Pair(line) = SubSeq(line, a, b)
    BY <1>1, <1>3, <1>7 DEF Pair, WithoutExport
  <2>2. \A i \in Words(line) : ~(i < a)
    BY <1>1, <1>2, WordPlaces
  <2>3. ASSUME a < b, IsExport(line, a) PROVE FALSE
    <3>1. 1 \in 1..(b + 1 - a) /\ 2 \in 1..(b + 1 - a) /\ a + 1 - 1 = a /\ a + 2 - 1 = a + 1
      BY <1>2, <2>3
    <3>2. r[1] = "export" /\ r[2] = "ws"
      BY <1>3, <2>3, <3>1 DEF IsExport
    <3>3. Len(r) >= 2
      BY <1>2, <1>3, <2>3
    <3>. QED BY <1>7, <3>2, <3>3, PrefixRead
  <2>. QED BY <1>1, <1>2, <2>1, <2>2, <2>3
<1>. QED BY <1>6, <1>7

(* A line without a sign, without a name or with a blank in its name is no *)
(* pair.                                                                   *)
LEMMA TypoRead ==
  ASSUME NEW line \in Line, IsTypo(line)
  PROVE  ~IsSkipped(line) /\ ~IsPair(line)
<1>1. ~IsRemark(line) /\ Words(line) # {}
  BY DEF IsTypo, IsRemark
<1>2. PICK c, b \in Words(line) :
        /\ c =< b /\ \A i \in Words(line) : i =< b /\ (i < c => IsExport(line, i))
        /\ Pair(line) = SubSeq(line, c, b)
        /\ c < b => ~IsExport(line, c)
  BY <1>1, PairPlace
<1>3. c \in 1..Len(line) /\ b \in 1..Len(line) /\ Len(line) \in Nat /\ DOMAIN line = 1..Len(line)
  BY WordPlaces
<1>4. PICK r \in Line : /\ r = SubSeq(line, c, b) /\ Len(r) = b + 1 - c
                       /\ \A i \in 1..(b + 1 - c) : r[i] = line[c + i - 1]
  <2>1. c \in Nat /\ b \in Nat /\ 1 =< c /\ c =< b + 1 /\ b =< Len(line)
    BY <1>2, <1>3
  <2>2. /\ SubSeq(line, c, b) \in Line /\ Len(SubSeq(line, c, b)) = b + 1 - c
        /\ \A i \in 1..(b + 1 - c) : SubSeq(line, c, b)[i] = line[c + i - 1]
    BY <2>1, PartOf
  <2>. QED BY <2>2
<1>5. ASSUME IsPair(line) PROVE FALSE
  <2>1. Equals(r) # {} /\ KeyOf(line) = Trim(SubSeq(r, 1, SplitAt(r) - 1))
        /\ KeyOf(line) # <<>> /\ ToSet(KeyOf(line)) \cap Spaces = {}
    BY <1>2, <1>4, <1>5 DEF IsPair, KeyOf
  <2>2. SplitAt(r) \in Equals(r) /\ \A i \in Equals(r) : SplitAt(r) =< i
    <3>1. Len(r) \in Nat /\ Equals(r) \in SUBSET (1..Len(r))
      BY WordPlaces DEF Equals
    <3>. QED BY <2>1, <3>1, LeastPlace DEF SplitAt
  <2>3. PICK e \in 1..Len(r) : e = SplitAt(r) /\ r[e] = "=" /\ \A i \in 1..(e - 1) : r[i] # "="
    <3>1. Len(r) \in Nat /\ DOMAIN r = 1..Len(r)
      BY WordPlaces
    <3>2. SplitAt(r) \in 1..Len(r) /\ r[SplitAt(r)] = "="
      BY <2>2, <3>1 DEF Equals
    <3>3. ASSUME NEW i \in 1..(SplitAt(r) - 1) PROVE r[i] # "="
      <4>1. i \in 1..Len(r) /\ ~(SplitAt(r) =< i)
        BY <3>1, <3>2
      <4>. QED BY <2>2, <3>1, <4>1 DEF Equals
    <3>. QED BY <3>2, <3>3
  <2>. DEFINE g == c + e - 1
  <2>4. g \in c..b /\ g \in Nat /\ line[g] = "=" /\ e \in Nat /\ e >= 1 /\ e = g + 1 - c
    <3>1. e \in 1..(b + 1 - c)
      BY <1>4
    <3>2. line[g] = "="
      BY <1>4, <2>3, <3>1
    <3>. QED BY <1>3, <3>1, <3>2
  <2>. HIDE DEF g
  <2>5. ASSUME NEW j \in 1..(g - 1) PROVE line[j] # "="
    <3>1. CASE j < c
      <4>1. j \in Words(line) => line[j] = "export"
        BY <1>2, <3>1 DEF IsExport
      <4>2. j \notin Words(line) => line[j] \in Spaces
        BY <1>3, <3>1 DEF Words
      <4>. QED BY <4>1, <4>2
    <3>2. CASE j >= c
      <4>1. j + 1 - c \in 1..(e - 1) /\ j + 1 - c \in 1..(b + 1 - c) /\ c + (j + 1 - c) - 1 = j
        BY <1>3, <2>4, <3>2
      <4>. QED BY <1>4, <2>3, <4>1
    <3>. QED BY <1>3, <2>4, <3>1, <3>2
  <2>6. PICK k \in Line : /\ k = SubSeq(r, 1, e - 1) /\ Len(k) = (e - 1) + 1 - 1
                         /\ \A i \in 1..((e - 1) + 1 - 1) : k[i] = r[1 + i - 1]
    <3>1. 1 \in Nat /\ e - 1 \in Nat /\ 1 =< 1 /\ 1 =< (e - 1) + 1 /\ e - 1 =< Len(r)
      BY <1>3, <1>4, <2>4
    <3>2. /\ SubSeq(r, 1, e - 1) \in Line /\ Len(SubSeq(r, 1, e - 1)) = (e - 1) + 1 - 1
          /\ \A i \in 1..((e - 1) + 1 - 1) : SubSeq(r, 1, e - 1)[i] = r[1 + i - 1]
      BY <3>1, PartOf
    <3>. QED BY <3>2
  <2>7. Len(k) = e - 1 /\ \A i \in 1..(e - 1) : k[i] = line[c + i - 1]
    <3>1. (e - 1) + 1 - 1 = e - 1
      BY <2>4
    <3>2. ASSUME NEW i \in 1..(e - 1) PROVE 1 + i - 1 = i /\ i \in 1..(b + 1 - c)
      BY <1>3, <2>4
    <3>. QED BY <1>4, <2>6, <3>1, <3>2
  <2>8. Trim(k) # <<>> /\ ToSet(Trim(k)) \cap Spaces = {}
    BY <2>1, <2>3, <2>6
  <2>9. Words(k) # {}
    BY <2>8 DEF Trim
  <2>10. c < b
    <3>1. PICK x \in Words(k) : TRUE
      BY <2>9
    <3>2. x \in 1..(e - 1)
      BY <2>7, WordPlaces
    <3>. QED BY <1>3, <2>4, <3>2
  <2>11. ~IsExport(line, c)
    BY <1>2, <2>10
  <2>12. \A x \in Words(k) : x \in 1..(e - 1) /\ c + x - 1 \in Words(line) /\ c + x - 1 \in c..(g - 1)
    <3>1. ASSUME NEW x \in Words(k)
          PROVE  x \in 1..(e - 1) /\ c + x - 1 \in Words(line) /\ c + x - 1 \in c..(g - 1)
      <4>1. x \in 1..(e - 1) /\ k[x] \notin Spaces
        BY <2>7, WordPlaces DEF Words
      <4>2. c + x - 1 \in c..(g - 1) /\ c + x - 1 \in 1..Len(line)
        BY <1>3, <2>4, <4>1
      <4>. QED BY <1>3, <2>7, <4>1, <4>2 DEF Words
    <3>. QED BY <3>1
  <2>13. \A i \in c..(g - 1) : i + 1 - c \in 1..(e - 1) /\ k[i + 1 - c] = line[i]
    <3>1. ASSUME NEW i \in c..(g - 1) PROVE i + 1 - c \in 1..(e - 1) /\ c + (i + 1 - c) - 1 = i
      BY <1>3, <2>4
    <3>. QED BY <2>7, <3>1
  <2>14. NamePlaces(line) = {i \in Words(line) : (\A j \in 1..i : line[j] # "=") /\ ~IsExport(line, i)}
    BY DEF NamePlaces, IsExport, IsFirst
  <2>15. CASE \A i \in DOMAIN line : line[i] # "="
    <3>1. g \in DOMAIN line
      BY <1>3, <2>4
    <3>. QED BY <2>4, <2>15, <3>1
  <2>16. CASE NamePlaces(line) = {}
    <3>1. PICK x \in Words(k) : TRUE
      BY <2>9
    <3>2. PICK i \in c..(g - 1) : i \in Words(line)
      BY <2>12, <3>1
    <3>3. \A j \in 1..i : line[j] # "="
      <4>1. \A j \in 1..i : j \in 1..(g - 1)
        BY <1>3, <2>4
      <4>. QED BY <2>5, <4>1
    <3>4. ~IsExport(line, i)
      <4>1. CASE i = c
        BY <2>11, <4>1
      <4>2. CASE i # c
        <5>1. c \in 1..(i - 1) /\ line[c] \notin Spaces
          BY <1>3, <2>4, <4>2 DEF Words
        <5>. QED BY <5>1 DEF IsExport, IsFirst
      <4>. QED BY <4>1, <4>2
    <3>. QED BY <2>14, <2>16, <3>2, <3>3, <3>4
  <2>17. ASSUME NEW i \in NamePlaces(line), NEW m \in NamePlaces(line), NEW j \in i..m, line[j] \in Spaces
         PROVE  FALSE
    <3>1. /\ i \in Words(line) /\ m \in Words(line) /\ ~IsExport(line, i)
          /\ \A h \in 1..m : line[h] # "="
      BY <2>14
    <3>2. i \in 1..Len(line) /\ m \in 1..Len(line) /\ line[i] \notin Spaces /\ line[m] \notin Spaces
      BY <3>1, WordPlaces DEF Words
    <3>3. i >= c
      BY <1>2, <1>3, <3>1, <3>2
    <3>4. m < g
      <4>1. ~(g \in 1..m)
        BY <2>4, <3>1
      <4>. QED BY <1>3, <2>4, <3>2, <4>1
    <3>5. i \in c..(g - 1) /\ m \in c..(g - 1) /\ j \in c..(g - 1) /\ i =< j /\ j =< m
      BY <1>3, <2>4, <3>2, <3>3, <3>4
    <3>6. /\ i + 1 - c \in Words(k) /\ m + 1 - c \in Words(k)
          /\ k[j + 1 - c] \in Spaces
      BY <2>7, <2>13, <2>17, <3>2, <3>5, WordPlaces DEF Words
    <3>7. PICK f, l \in Words(k) :
            /\ \A x \in Words(k) : f =< x /\ x =< l
            /\ Trim(k) = SubSeq(k, f, l) /\ TrimStart(k) = SubSeq(k, f, Len(k))
      BY <2>9, TrimIsPart
    <3>8. f \in 1..Len(k) /\ l \in 1..Len(k) /\ Len(k) \in Nat /\ f =< i + 1 - c /\ m + 1 - c =< l
      BY <3>6, <3>7, WordPlaces
    <3>9. j + 1 - c \in f..l /\ f =< l
      BY <1>3, <3>2, <3>5, <3>8
    <3>10. /\ SubSeq(k, f, l) \in Line /\ Len(SubSeq(k, f, l)) = l + 1 - f
           /\ \A x \in 1..(l + 1 - f) : SubSeq(k, f, l)[x] = k[f + x - 1]
      <4>1. f \in Nat /\ l \in Nat /\ 1 =< f /\ f =< l + 1 /\ l =< Len(k)
        BY <3>8, <3>9
      <4>. QED BY <4>1, PartOf
    <3>11. PICK x \in 1..(l + 1 - f) : f + x - 1 = j + 1 - c
      <4>1. (j + 1 - c) + 1 - f \in 1..(l + 1 - f) /\ f + ((j + 1 - c) + 1 - f) - 1 = j + 1 - c
        BY <1>3, <3>2, <3>5, <3>8, <3>9
      <4>. QED BY <4>1
    <3>12. Trim(k)[x] \in Spaces /\ x \in DOMAIN Trim(k)
      <4>1. DOMAIN SubSeq(k, f, l) = 1..(l + 1 - f)
        BY <3>10, WordPlaces
      <4>. QED BY <3>6, <3>7, <3>10, <3>11, <4>1
    <3>. QED BY <2>8, <3>12 DEF ToSet
  <2>. QED BY <2>15, <2>16, <2>17 DEF IsTypo
<1>. QED BY <1>1, <1>5, RemarkRead

-----------------------------------------------------------------------------
(* The start.  What is loaded is what the lines read so far say, the last  *)
(* one for each key, and none of them is a typo.                           *)

Asked == {ApiKey, Model, FailoverUrl, FailoverModel} \cup IntegerKeys

LoadedSays ==
  \A key \in Asked :
    /\ key \in DOMAIN file_entries <=> Written(key) # {}
    /\ Written(key) # {} => [key |-> key, value |-> file_entries[key]] \in file[Max(Written(key))].says

LoadedSound == \A i \in 1..line_no : file[i].sound

(* How far the file is read, and what main has looked at.                  *)
Stages ==
  /\ file \in Seq(Entries) /\ line_no \in Nat /\ line_no =< Len(file)
  /\ stage = "arguments" => line_no = 0
  /\ stage \in {"configure", "configured"} => line_no \in {0, Len(file)}
  /\ stage = "configured" => IsSet(ApiKey) /\ IsSet(Model) /\ (HasFailover => IsSet(FailoverModel))

LInv == Stages /\ LoadedSays /\ LoadedSound

(* What LoadLine does with each kind of line.                              *)
LEMMA LineRead ==
  ASSUME NEW entry \in Entries
  PROVE  \/ /\ entry.sound /\ ~IsSkipped(entry.line) /\ IsPair(entry.line)
            /\ entry.says = {[key |-> KeyOf(entry.line), value |-> ValueOf(entry.line)]}
         \/ entry.sound /\ IsSkipped(entry.line) /\ entry.says = {}
         \/ ~entry.sound /\ ~IsSkipped(entry.line) /\ ~IsPair(entry.line)
<1>1. PICK line \in Line : line = entry.line
  BY EntriesAssumption DEF EntriesAssumption, Line
<1>2. PICK says : says = entry.says
  OBVIOUS
<1>3. \/ entry.sound /\ IsEntry(line, says)
      \/ entry.sound /\ says = {} /\ IsRemark(line)
      \/ ~entry.sound /\ IsTypo(line)
  BY <1>1, <1>2, EntriesAssumption DEF EntriesAssumption
<1>4. IsEntry(line, says) =>
        ~IsSkipped(line) /\ IsPair(line) /\ says = {[key |-> KeyOf(line), value |-> ValueOf(line)]}
  BY EntryRead
<1>5. IsRemark(line) => IsSkipped(line)
  BY RemarkRead
<1>6. IsTypo(line) => ~IsSkipped(line) /\ ~IsPair(line)
  BY TypoRead
<1>. QED BY <1>1, <1>2, <1>3, <1>4, <1>5, <1>6

(* Nothing is read.                                                        *)
LEMMA SameLoaded ==
  ASSUME LInv, UNCHANGED <<file, line_no, file_entries>>
  PROVE  LoadedSays' /\ LoadedSound'
<1>1. \A key : Written(key)' = Written(key)
  BY DEF Written
<1>2. LoadedSays'
  BY <1>1 DEF LInv, LoadedSays, Asked, ApiKey, Model, FailoverUrl, FailoverModel, IntegerKeys, BusCapacity
<1>. QED BY <1>2 DEF LInv, LoadedSound

LEMMA LoadLineKeeps == ASSUME LInv, LoadLine PROVE LInv'
<1>1. /\ line_no < Len(file) /\ line_no' = line_no + 1 /\ file' = file /\ stage = "load" /\ stage' = "load"
      /\ file \in Seq(Entries) /\ line_no \in Nat /\ Len(file) \in Nat
  BY LenProperties DEF LoadLine, Loading, LInv, Stages
<1>2. PICK n \in 1..Len(file) : n = line_no + 1
  BY <1>1
<1>3. PICK entry \in Entries : entry = file[n]
  BY <1>1, ElementOfSeq
<1>4. PICK line : line = entry.line
  OBVIOUS
<1>5. /\ entry.sound
      /\ \/ /\ ~IsSkipped(line) /\ entry.says = {[key |-> KeyOf(line), value |-> ValueOf(line)]}
            /\ file_entries' = Inserted(KeyOf(line), ValueOf(line))
         \/ IsSkipped(line) /\ entry.says = {} /\ file_entries' = file_entries
  <2>1. IF IsSkipped(line) THEN file_entries' = file_entries
        ELSE IsPair(line) /\ file_entries' = Inserted(KeyOf(line), ValueOf(line))
    BY <1>2, <1>3, <1>4 DEF LoadLine
  <2>. QED BY <1>4, <2>1, LineRead
<1>6. LoadedSound'
  <2>1. \A i \in 1..n : i = n \/ i \in 1..line_no
    BY <1>1, <1>2
  <2>. QED BY <1>1, <1>2, <1>3, <1>5, <2>1 DEF LInv, LoadedSound
<1>7. ASSUME NEW key \in Asked
      PROVE  Written(key)' = Written(key) \cup (IF \E pair \in entry.says : pair.key = key THEN {n} ELSE {})
  <2>1. \A i : i \in 1..line_no' <=> i \in 1..line_no \/ i = n
    BY <1>1, <1>2
  <2>2. n \notin 1..line_no
    BY <1>1, <1>2
  <2>. QED BY <1>1, <1>3, <2>1, <2>2 DEF Written
<1>8. LoadedSays'
  <2>. SUFFICES ASSUME NEW key \in Asked
                PROVE  /\ key \in DOMAIN file_entries' <=> Written(key)' # {}
                       /\ Written(key)' # {}
                            => [key |-> key, value |-> file_entries'[key]] \in file'[Max(Written(key)')].says
    BY DEF LoadedSays, Asked, ApiKey, Model, FailoverUrl, FailoverModel, IntegerKeys, BusCapacity
  <2>1. /\ key \in DOMAIN file_entries <=> Written(key) # {}
        /\ Written(key) # {} => [key |-> key, value |-> file_entries[key]] \in file[Max(Written(key))].says
    BY DEF LInv, LoadedSays
  <2>2. CASE \A pair \in entry.says : pair.key # key
    <3>1. Written(key)' = Written(key)
      BY <1>7, <2>2
    <3>2. (key \in DOMAIN file_entries' <=> key \in DOMAIN file_entries)
          /\ (key \in DOMAIN file_entries => file_entries'[key] = file_entries[key])
      <4>1. CASE IsSkipped(line)
        BY <1>5, <4>1
      <4>2. CASE ~IsSkipped(line)
        <5>1. PICK pair \in entry.says : pair = [key |-> KeyOf(line), value |-> ValueOf(line)]
          BY <1>5, <4>2
        <5>2. pair.key = KeyOf(line)
          BY <5>1
        <5>3. key # KeyOf(line)
          BY <2>2, <5>2
        <5>. QED BY <1>5, <4>2, <5>3 DEF Inserted
      <4>. QED BY <4>1, <4>2
    <3>. QED BY <1>1, <2>1, <3>1, <3>2
  <2>3. CASE \E pair \in entry.says : pair.key = key
    <3>1. /\ key = KeyOf(line) /\ file_entries' = Inserted(KeyOf(line), ValueOf(line))
          /\ entry.says = {[key |-> key, value |-> ValueOf(line)]}
      BY <1>5, <2>3
    <3>2. key \in DOMAIN file_entries' /\ file_entries'[key] = ValueOf(line)
      BY <3>1 DEF Inserted
    <3>3. PICK w : w = Written(key)'
      OBVIOUS
    <3>4. w = Written(key) \cup {n}
      BY <1>7, <2>3, <3>3
    <3>5. w \in SUBSET Int /\ n \in w /\ \A i \in w : i =< n
      BY <1>1, <1>2, <3>4 DEF Written
    <3>6. Max(w) = n
      BY <3>5, MaxIs
    <3>. QED BY <1>1, <1>3, <3>1, <3>2, <3>3, <3>5, <3>6
  <2>. QED BY <2>2, <2>3
<1>9. Stages'
  BY <1>1, <1>2 DEF Stages
<1>. QED BY <1>6, <1>8, <1>9 DEF LInv

LEMMA InitLoads == Init => LInv
<1>. SUFFICES ASSUME Init PROVE LInv
  OBVIOUS
<1>1. file \in Files /\ line_no = 0 /\ file_entries = Empty /\ stage = "arguments"
  BY DEF Init, StartInit
<1>2. file \in Seq(Entries) /\ Len(file) \in Nat
  <2>1. PICK n \in 0..MaxFile : file \in [1..n -> Entries]
    BY <1>1 DEF Files
  <2>. QED BY <2>1
<1>3. \A key : Written(key) = {} /\ key \notin DOMAIN file_entries
  BY <1>1 DEF Written, Empty
<1>4. Stages
  BY <1>1, <1>2 DEF Stages
<1>. QED BY <1>1, <1>3, <1>4 DEF LInv, LoadedSays, LoadedSound

LEMMA StartKeeps == ASSUME LInv, StartNext PROVE LInv'
<1>1. ASSUME Help \/ ProcessOnly \/ FromFile \/ Unreadable \/ MalformedLine \/ Loaded PROVE LInv'
  <2>1. /\ UNCHANGED <<file, line_no, file_entries, environment>>
        /\ stage' \in {"helped", "configure", "load", "refused"}
        /\ stage' = "configure" => line_no \in {0, Len(file)}
    BY <1>1 DEF Help, ProcessOnly, FromFile, Unreadable, MalformedLine, Loaded, Loading, LInv, Stages
  <2>2. Stages'
    BY <2>1 DEF LInv, Stages
  <2>. QED BY <2>1, <2>2, SameLoaded DEF LInv
<1>2. ASSUME RefuseConfig \/ PanicAtStart PROVE LInv'
  <2>1. UNCHANGED sourceVars /\ stage' \in {"refused", "panicked"}
    BY <1>2 DEF RefuseConfig, PanicAtStart
  <2>2. Stages'
    BY <2>1 DEF LInv, Stages, sourceVars
  <2>. QED BY <2>1, <2>2, SameLoaded DEF LInv, sourceVars
<1>3. ASSUME Configure PROVE LInv'
  <2>1. UNCHANGED sourceVars /\ stage = "configure" /\ stage' = "configured" /\ ~ConfigError
    BY <1>3 DEF Configure
  <2>2. Stages'
    BY <2>1 DEF LInv, Stages, sourceVars, ConfigError, IsSet, HasFailover
  <2>. QED BY <2>1, <2>2, SameLoaded DEF LInv, sourceVars
<1>. QED BY <1>1, <1>2, <1>3, LoadLineKeeps DEF StartNext

(* The loop has forgotten the source.                                      *)
LEMMA BeginLoads == ASSUME BeginLoop PROVE LInv'
<1>1. file' = <<>> /\ line_no' = 0 /\ file_entries' = Empty /\ stage' = "started"
  BY DEF BeginLoop, Start
<1>2. \A key : Written(key)' = {} /\ key \notin DOMAIN file_entries'
  BY <1>1 DEF Written, Empty
<1>3. Stages'
  BY <1>1, EmptySeq DEF Stages
<1>. QED BY <1>1, <1>2, <1>3 DEF LInv, LoadedSays, LoadedSound

LEMMA StepLoads == LInv /\ [Next]_vars => LInv'
<1>. SUFFICES ASSUME LInv, [Next]_vars PROVE LInv'
  OBVIOUS
<1>1. CASE ReadConfig
  BY <1>1, StartKeeps DEF ReadConfig
<1>2. CASE BeginLoop
  BY <1>2, BeginLoads
<1>3. CASE ~ReadConfig /\ ~BeginLoop
  <2>1. UNCHANGED startVars
    BY <1>3 DEF Next, vars, unmoved, settled, Submit, Execute, Reset, Leave, TurnStep, CommitAnswer,
                DropLine, TakeFailover, LeaveSubmitting, LeaveFailingOver, Panic, Stopped
  <2>2. UNCHANGED <<file, line_no, file_entries, environment, stage>>
    BY <2>1 DEF startVars, sourceVars
  <2>3. Stages'
    BY <2>2 DEF LInv, Stages, IsSet, HasFailover
  <2>. QED BY <2>2, <2>3, SameLoaded DEF LInv
<1>. QED BY <1>1, <1>2, <1>3

(* INV-CHAT-02, DEC-CHAT-02: a lookup gives what was written last for the  *)
(* key, and the process environment only where the file is silent, for     *)
(* every file of entries, remarks and typos, of any length.                *)
THEOREM LookupSafe == Spec => []WhatIsWritten
<1>1. LInv => WhatIsWritten
  BY DEF LInv, LoadedSays, Asked, WhatIsWritten, IsSet, Get
<1>. QED BY <1>1, InitLoads, StepLoads, PTL DEF Spec

(* A file with a typo never starts a session, nor an alternative endpoint  *)
(* without a model of its own.                                             *)
THEOREM StartSafe == Spec => []OnlySoundStarts
<1>1. LInv => OnlySoundStarts
  <2>. SUFFICES ASSUME LInv, stage = "configured" PROVE OnlySoundStarts
    BY DEF OnlySoundStarts
  <2>1. /\ IsSet(ApiKey) /\ IsSet(Model) /\ (HasFailover => IsSet(FailoverModel))
        /\ line_no \in {0, Len(file)} /\ \A i \in 1..line_no : file[i].sound
    BY DEF LInv, Stages, LoadedSound
  <2>2. \A key \in Asked : IsSet(key) <=> Written(key) # {} \/ key \in DOMAIN environment
    BY DEF LInv, LoadedSays, IsSet
  <2>3. ApiKey \in Asked /\ Model \in Asked /\ FailoverUrl \in Asked /\ FailoverModel \in Asked
    BY DEF Asked
  <2>. QED BY <2>1, <2>2, <2>3 DEF OnlySoundStarts, HasFailover
<1>. QED BY <1>1, InitLoads, StepLoads, PTL DEF Spec

=============================================================================
