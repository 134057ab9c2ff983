---------------------------- MODULE MCChatSession ----------------------------
(* Instances of the ChatSession for TLC.  The lines of the env file are one *)
(* of each kind: written tight or with blanks, with export or without,      *)
(* quoted, empty, with signs and blanks inside, comments, and typos, one of *)
(* them a tab behind export.                                                *)
EXTENDS ChatSession
CONSTANTS l1, l2

Entry(export, gaps, quote, key, value) ==
  [line |-> Render(export, gaps, quote, key, value), sound |-> TRUE,
   says |-> {[key |-> key, value |-> value]}]

Remark(line) == [line |-> line, sound |-> TRUE, says |-> {}]

Typo(line) == [line |-> line, sound |-> FALSE, says |-> {}]

Plain == <<>>
Space == <<"ws">>
Tab == <<"tab">>

Tight == <<Plain, Plain, Plain, Plain, Plain>>
Blanks == <<Space, Tab, Space, Space, Space>>
Uneven == <<Plain, <<"ws", "ws">>, Plain, <<"tab", "ws", "ws">>, Tab>>

MCEntries ==
  {Entry(FALSE, Tight, Plain, ApiKey, <<"secret", "=", "=">>),
   Entry(TRUE, Blanks, <<"dq">>, Model, <<"ws", "m", "=", "sq">>),
   Entry(TRUE, Uneven, <<"sq">>, Model, <<"dq", "m", "dq">>),
   Entry(FALSE, Blanks, Plain, Model, <<"dq", "m">>),
   Entry(FALSE, Tight, Plain, FailoverUrl, <<>>),
   Entry(FALSE, Blanks, <<"sq">>, FailoverModel, <<"m", "ws", "#">>),
   Entry(FALSE, Tight, Plain, BusCapacity, <<"0">>),
   Entry(TRUE, Tight, Plain, BusCapacity, <<"1">>),
   Entry(FALSE, Blanks, Plain, <<"OPENAI_STALL_SECS">>, <<"1", "#">>),
   Remark(<<"ws", "tab">>), Remark(<<"tab", "#", "OPENAI_MODEL", "=", "x">>),
   Typo(<<"OPENAI_MODEL">>), Typo(<<"export", "ws", "=", "m">>),
   Typo(<<"export", "tab", "OPENAI_MODEL", "=", "m">>),
   Typo(<<"OPENAI", "ws", "MODEL", "=", "m">>)}

MCTokens == {"ws", "tab", "=", "#", "export", "dq", "sq", "0", "1", "m", "x", "secret",
             "OPENAI", "MODEL", "OPENAI_STALL_SECS"}
              \cup {ApiKey[1], Model[1], FailoverUrl[1], FailoverModel[1], BusCapacity[1]}

MCEnvironments ==
  {Empty, ApiKey :> <<"k">> @@ Model :> <<"n">>,
   ApiKey :> <<"k">> @@ Model :> <<"n">> @@ FailoverUrl :> <<"u">> @@ BusCapacity :> <<"1">>}

MCSomeEntries == {Entry(FALSE, Tight, Plain, FailoverModel, <<"m">>)}
=============================================================================
