-------------------------------- MODULE Startup --------------------------------
(***************************************************************************)
(* env_file.rs, OpenAiConfig and the first lines of main.rs: the env file  *)
(* is loaded line by line, values are looked up in it and then in the      *)
(* process environment, and a session starts only on a sound               *)
(* configuration.  A line is a sequence of tokens: the space "ws", any     *)
(* other blank "tab", "=", "#", "export", the two quotes "dq" and "sq",    *)
(* and words.                                                              *)
(***************************************************************************)
EXTENDS Naturals, Sequences, SequencesExt

CONSTANTS Tokens,         \* what lines are made of
          Entries,        \* what a line of the env file may hold: the line as tokens,
                          \* whether it is sound, and what it says (if anything)
          MaxFile,        \* bound on the lines of the file
          Environments    \* what the process environment may hold

VARIABLES file,           \* the env file
          line_no,        \* how many of them are loaded
          file_entries,
          environment,
          stage           \* where main stands before its loop

sourceVars == <<file, line_no, file_entries, environment>>
startVars == <<sourceVars, stage>>

ApiKey == <<"OPENAI_API_KEY">>
Model == <<"OPENAI_MODEL">>
FailoverUrl == <<"FAILOVER_OPENAI_BASE_URL">>
FailoverModel == <<"FAILOVER_OPENAI_MODEL">>
BusCapacity == <<"OPENAI_BUS_CAPACITY">>

(* The values that are parsed as integers; one of the clocks stands for    *)
(* all of them.                                                            *)
IntegerKeys == {<<"OPENAI_STALL_SECS">>, BusCapacity}

Empty == [key \in {} |-> <<>>]

Files == UNION {[1..n -> Entries] : n \in 0..MaxFile}

StartInit == /\ file \in Files
             /\ environment \in Environments
             /\ line_no = 0 /\ file_entries = Empty
             /\ stage = "arguments"

-----------------------------------------------------------------------------
(* The lines of an env file (DEC-CHAT-02).  An entry says what its line    *)
(* assigns, a remark and a typo say nothing, and a typo is not sound.      *)

Spaces == {"ws", "tab"}

Words(s) == {i \in DOMAIN s : s[i] \notin Spaces}

BlanksIn(line) == {s \in SubSeqs(line) : Words(s) = {}}

(* How an operator may write an entry, with blanks in five places.  Right  *)
(* behind export there is a space.                                         *)
Render(export, gaps, quote, key, value) ==
  LET word == IF export THEN <<"export", "ws">> ELSE <<>>
      named == key \o gaps[3]
      given == gaps[4] \o (quote \o value \o quote)
  IN  (gaps[1] \o (word \o (gaps[2] \o (named \o (<<"=">> \o given))))) \o gaps[5]

IsName(key) ==
  /\ key \in Seq(Tokens) \ {<<>>, <<"export">>}
  /\ key[1] # "#" /\ \A i \in DOMAIN key : key[i] \notin Spaces \cup {"="}

Marks == {"dq", "sq"}

(* Between quotes anything may stand.  Without them the value ends in no   *)
(* blank, and in no quote like the one it begins with.                     *)
IsValue(quote, value) ==
  /\ value \in Seq(Tokens)
  /\ quote = <<>> /\ value # <<>> =>
       /\ {value[1], value[Len(value)]} \cap Spaces = {}
       /\ Len(value) > 1 => value[1] \notin Marks \/ value[Len(value)] # value[1]

IsEntry(line, says) ==
  \E pair \in says :
    /\ says = {pair} /\ pair \in [key : Seq(Tokens), value : Seq(Tokens)]
    /\ IsName(pair.key)
    /\ \E export \in BOOLEAN, quote \in {<<>>} \cup {<<m>> : m \in Marks},
          gaps \in [1..5 -> BlanksIn(line)] :
         /\ IsValue(quote, pair.value)
         /\ line = Render(export, gaps, quote, pair.key, pair.value)

IsRemark(line) ==
  Words(line) = {} \/ \E i \in Words(line) : line[i] = "#" /\ \A j \in 1..(i - 1) : line[j] \in Spaces

(* The places in front of the first sign that are no blank, nor the word   *)
(* export with a space behind it.                                          *)
NamePlaces(line) ==
  {i \in Words(line) :
     /\ \A j \in 1..i : line[j] # "="
     /\ ~(/\ line[i] = "export" /\ \A j \in 1..(i - 1) : line[j] \in Spaces
          /\ i < Len(line) /\ line[i + 1] = "ws")}

(* No sign, no name in front of it, or one with a blank inside.            *)
IsTypo(line) ==
  /\ ~IsRemark(line)
  /\ \/ \A i \in DOMAIN line : line[i] # "="
     \/ NamePlaces(line) = {}
     \/ \E i, k \in NamePlaces(line) : \E j \in i..k : line[j] \in Spaces

(* Every line is one of the three, and says what it is.                    *)
ASSUME EntriesAssumption ==
  /\ {"=", "#", "export"} \cup Spaces \cup Marks \subseteq Tokens
  /\ \A entry \in Entries :
       /\ entry.line \in Seq(Tokens)
       /\ \/ entry.sound /\ IsEntry(entry.line, entry.says)
          \/ entry.sound /\ entry.says = {} /\ IsRemark(entry.line)
          \/ ~entry.sound /\ entry.says = {} /\ IsTypo(entry.line)

-----------------------------------------------------------------------------
(* from_file.                                                              *)

TrimStart(s) == IF Words(s) = {} THEN <<>> ELSE SubSeq(s, Min(Words(s)), Len(s))

Trim(s) == IF Words(s) = {} THEN <<>> ELSE SubSeq(s, Min(Words(s)), Max(Words(s)))

IsSkipped(line) == Trim(line) = <<>> \/ Head(Trim(line)) = "#"

(* The line without the word export and the space behind it; with another  *)
(* blank behind it the word stays, and makes the key malformed.            *)
WithoutExport(line) ==
  IF IsPrefix(<<"export", "ws">>, line) THEN TrimStart(SubSeq(line, 3, Len(line))) ELSE line

Equals(s) == {i \in DOMAIN s : s[i] = "="}

(* split_once: the first sign splits, later ones belong to the value.      *)
SplitAt(s) == Min(Equals(s))

StripMatchingQuotes(v) ==
  IF Len(v) >= 2 /\ v[1] \in Marks /\ v[Len(v)] = v[1]
  THEN SubSeq(v, 2, Len(v) - 1)
  ELSE v

Pair(line) == WithoutExport(Trim(line))

KeyOf(line) == Trim(SubSeq(Pair(line), 1, SplitAt(Pair(line)) - 1))

ValueOf(line) ==
  StripMatchingQuotes(Trim(SubSeq(Pair(line), SplitAt(Pair(line)) + 1, Len(Pair(line)))))

IsPair(line) ==
  Equals(Pair(line)) # {} /\ KeyOf(line) # <<>> /\ ToSet(KeyOf(line)) \cap Spaces = {}

Loading(from, to) ==
  /\ stage = from /\ stage' = to
  /\ UNCHANGED <<file, environment>>

(* --help prints and returns; without an argument there is no file.        *)
Help == Loading("arguments", "helped") /\ UNCHANGED <<line_no, file_entries>>

ProcessOnly ==
  /\ Loading("arguments", "configure")
  /\ UNCHANGED <<line_no, file_entries>>

FromFile == Loading("arguments", "load") /\ UNCHANGED <<line_no, file_entries>>

Unreadable == Loading("arguments", "refused") /\ UNCHANGED <<line_no, file_entries>>

(* insert: a later entry takes the place of an earlier one.                *)
Inserted(key, value) ==
  [k \in DOMAIN file_entries \cup {key} |-> IF k = key THEN value ELSE file_entries[k]]

(* Mutant of LoadLine: a malformed line is passed over.                    *)
LoadLineLenient ==
  /\ line_no < Len(file)
  /\ LET line == file[line_no + 1].line
     IN  file_entries' = IF IsSkipped(line) \/ ~IsPair(line) THEN file_entries
                         ELSE Inserted(KeyOf(line), ValueOf(line))
  /\ line_no' = line_no + 1
  /\ Loading("load", "load")

LoadLine ==
  /\ line_no < Len(file)
  /\ LET line == file[line_no + 1].line
     IN  IF IsSkipped(line) THEN UNCHANGED file_entries
         ELSE /\ IsPair(line)
              /\ file_entries' = Inserted(KeyOf(line), ValueOf(line))
  /\ line_no' = line_no + 1
  /\ Loading("load", "load")

MalformedLine ==
  /\ line_no < Len(file)
  /\ ~IsSkipped(file[line_no + 1].line) /\ ~IsPair(file[line_no + 1].line)
  /\ Loading("load", "refused")
  /\ UNCHANGED <<line_no, file_entries>>

Loaded ==
  /\ line_no = Len(file)
  /\ Loading("load", "configure")
  /\ UNCHANGED <<line_no, file_entries>>

-----------------------------------------------------------------------------
(* get, OpenAiConfig::from_source_prefixed and main.                       *)

IsSet(key) == key \in DOMAIN file_entries \cup DOMAIN environment

(* Mutant of Get: the process environment comes first.                     *)
GetEnvironmentFirst(key) ==
  IF key \in DOMAIN environment THEN environment[key] ELSE file_entries[key]

Get(key) == IF key \in DOMAIN file_entries THEN file_entries[key] ELSE environment[key]

IsInteger(value) == value \in {<<"0">>, <<"1">>}

HasFailover == IsSet(FailoverUrl)

(* The key of the alternative falls back to the primary's, its model does  *)
(* not.  Every error returns from main.                                    *)
ConfigError ==
  \/ ~IsSet(ApiKey) \/ ~IsSet(Model)
  \/ HasFailover /\ ~IsSet(FailoverModel)
  \/ \E key \in IntegerKeys : IsSet(key) /\ ~IsInteger(Get(key))

(* mpsc::channel does not accept a capacity of zero.                       *)
NoCapacity == IsSet(BusCapacity) /\ Get(BusCapacity) = <<"0">>

(* Also when the capture file cannot be created.                           *)
RefuseConfig ==
  /\ stage = "configure" /\ stage' = "refused"
  /\ UNCHANGED sourceVars

PanicAtStart ==
  /\ stage = "configure" /\ ~ConfigError /\ NoCapacity
  /\ stage' = "panicked"
  /\ UNCHANGED sourceVars

Configure ==
  /\ stage = "configure" /\ ~ConfigError /\ ~NoCapacity
  /\ stage' = "configured"
  /\ UNCHANGED sourceVars

(* The loop begins; the source is not read again.                          *)
Start ==
  /\ stage = "configured" /\ stage' = "started"
  /\ file' = <<>> /\ line_no' = 0 /\ file_entries' = Empty /\ environment' = Empty

StartNext == \/ Help \/ ProcessOnly \/ FromFile \/ Unreadable
             \/ LoadLine \/ MalformedLine \/ Loaded
             \/ RefuseConfig \/ PanicAtStart \/ Configure

-----------------------------------------------------------------------------

(* The loaded lines that give `key` a value.                               *)
Written(key) == {i \in 1..line_no : \E entry \in file[i].says : entry.key = key}

(* INV-CHAT-02 and DEC-CHAT-02: a lookup gives what was written last for   *)
(* the key, however it was written, with quotes, blanks and signs inside   *)
(* the value, and the process environment only where the file is silent.   *)
WhatIsWritten ==
  \A key \in {ApiKey, Model, FailoverUrl, FailoverModel} \cup IntegerKeys :
    IF Written(key) = {}
    THEN /\ IsSet(key) <=> key \in DOMAIN environment
         /\ IsSet(key) => Get(key) = environment[key]
    ELSE /\ IsSet(key)
         /\ [key |-> key, value |-> Get(key)] \in file[Max(Written(key))].says

(* env_file.rs:25: a typo in the file never makes a session with another   *)
(* configuration than the one intended, and an alternative endpoint never  *)
(* runs on the primary's model.                                            *)
OnlySoundStarts ==
  stage = "configured" =>
    /\ \A i \in 1..line_no : file[i].sound
    /\ line_no > 0 => line_no = Len(file)
    /\ \A key \in {ApiKey, Model} : Written(key) # {} \/ key \in DOMAIN environment
    /\ Written(FailoverUrl) # {} \/ FailoverUrl \in DOMAIN environment
         => Written(FailoverModel) # {} \/ FailoverModel \in DOMAIN environment

=============================================================================
