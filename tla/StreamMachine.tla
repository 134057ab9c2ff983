---------------------------- MODULE StreamMachine ----------------------------
(***************************************************************************)
(* The completion rules of machine.rs, as operators on a machine record.   *)
(* The machine folds the events of one attempt and, at the end of the      *)
(* attempt, issues either an outcome or a typed fault.  It does no I/O, so *)
(* its methods are functions here; MachineLife feeds them arbitrary event  *)
(* sequences and the Driver feeds them what a peer sends.                  *)
(*                                                                         *)
(* A text fragment is a member of Text.  Fragments are never empty (the    *)
(* normaliser drops empty ones), so a content has no characters exactly    *)
(* when it has no fragments, and counts of characters become counts of     *)
(* fragments.                                                              *)
(***************************************************************************)
EXTENDS Naturals, Sequences

CONSTANTS Text,    \* fragments of assistant text
          Reason,  \* finish reasons: "stop", "length", ...
          Usage,   \* token accountings
          None     \* the absent value of an Option

ASSUME NoneAssumption == None \notin Text \cup Reason \cup Usage

-----------------------------------------------------------------------------

Event == [ev : {"text_delta"}, v : Text] \cup [ev : {"finish"}, v : Reason]
           \cup [ev : {"usage"}, v : Usage] \cup [ev : {"done"}]

EndCause == {"stream_ended", "handler_abort"}

Oddity == {"late_text", "second_finish"}

Machine == [content       : Seq(Text),
            finish_reason : Reason \cup {None},
            usage         : Usage \cup {None},
            saw_done      : BOOLEAN,
            anomalies     : Seq(Oddity)]

Outcome == [type : {"outcome"}, content : Seq(Text), finish_reason : Reason,
            usage : Usage \cup {None}]

(* Faults a machine can issue; `partial` counts the discarded fragments.   *)
MachineFault == [type : {"fault"}, fault : {"aborted", "truncated", "empty_stream"},
                 partial : Nat]

NewMachine == [content |-> <<>>, finish_reason |-> None, usage |-> None,
               saw_done |-> FALSE, anomalies |-> <<>>]

-----------------------------------------------------------------------------

(* Mutant of IsCompletable: the sentinel completes an answer.              *)
CompletableBySentinel(m) == m.finish_reason # None \/ m.saw_done

IsCompletable(m) == m.finish_reason # None

(* Mutant of FeedText: late text is flagged and dropped.                   *)
FeedTextDropsLate(m, t) ==
  IF IsCompletable(m) THEN [m EXCEPT !.anomalies = Append(@, "late_text")]
                      ELSE [m EXCEPT !.content = Append(@, t)]

(* Late text is kept and flagged (DEC-CHAT-05).                            *)
FeedText(m, t) ==
  [m EXCEPT !.content = Append(@, t),
            !.anomalies = IF IsCompletable(m) THEN Append(@, "late_text") ELSE @]

(* Mutants of FeedFinish: the last reason wins; a second one leaves no     *)
(* anomaly.                                                                *)
FeedFinishLast(m, r) ==
  [m EXCEPT !.finish_reason = r,
            !.anomalies = IF IsCompletable(m) THEN Append(@, "second_finish") ELSE @]

FeedFinishSilent(m, r) == IF IsCompletable(m) THEN m ELSE [m EXCEPT !.finish_reason = r]

(* The first finish reason is kept, a second one is only flagged.          *)
FeedFinish(m, r) ==
  IF IsCompletable(m) THEN [m EXCEPT !.anomalies = Append(@, "second_finish")]
                      ELSE [m EXCEPT !.finish_reason = r]

FeedUsage(m, u) == [m EXCEPT !.usage = u]

FeedDone(m) == [m EXCEPT !.saw_done = TRUE]

Feed(m, e) == CASE e.ev = "text_delta" -> FeedText(m, e.v)
                [] e.ev = "finish"     -> FeedFinish(m, e.v)
                [] e.ev = "usage"      -> FeedUsage(m, e.v)
                [] e.ev = "done"       -> FeedDone(m)

Fault(f, m) == [type |-> "fault", fault |-> f, partial |-> Len(m.content)]

(* The verdict: an abort is always a fault; at the end of the stream only  *)
(* a finish reason makes an outcome, never the [DONE] sentinel.            *)
Finalize(m, cause) ==
  CASE cause = "handler_abort" -> Fault("aborted", m)
    [] cause = "stream_ended" /\ IsCompletable(m) ->
         [type |-> "outcome", content |-> m.content,
          finish_reason |-> m.finish_reason, usage |-> m.usage]
    [] cause = "stream_ended" /\ ~IsCompletable(m) /\ m.content = <<>> ->
         Fault("empty_stream", m)
    [] cause = "stream_ended" /\ ~IsCompletable(m) /\ m.content # <<>> ->
         Fault("truncated", m)

=============================================================================
