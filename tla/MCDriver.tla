------------------------------ MODULE MCDriver ------------------------------
(* Payload vocabularies for model-checking the Driver.                     *)
EXTENDS DriverRefines, DriverClaims

CONSTANTS t1, t2, stop, length, u1, u2, a, b

Chunked(choices, content, finish, usage) ==
  [type |-> "chunk", error |-> FALSE, choices |-> choices, content |-> content,
   finish |-> finish, usage |-> usage]

TextAndUsage == Chunked(1, t2, None, u2)
FinishAndUsage == Chunked(1, None, length, u1)
TextAndFinish == Chunked(1, t1, stop, None)
TwoChoices == Chunked(2, t1, None, None)
ServerError == [type |-> "chunk", error |-> TRUE, choices |-> 0, content |-> None,
                finish |-> None, usage |-> None]
Unparseable == [type |-> "unparseable"]
Sentinel == [type |-> "done"]

AllPayloads == {TextAndUsage, FinishAndUsage, TextAndFinish, TwoChoices, ServerError,
                Unparseable, Sentinel}
FewPayloads == {FinishAndUsage, Unparseable}
NoPayloads == {Sentinel}

OneStream == {a}
TwoStreams == {a, b}
=============================================================================
