------------------------------- MODULE SseParser -------------------------------
(***************************************************************************)
(* sse.rs: reassembly of server-sent-event frames from network reads that  *)
(* may cut the wire anywhere.  One iteration of push's loop is one step.   *)
(* A byte is one of the few kinds framing and decoding tell apart: "data"  *)
(* stands for the field name `data:`, "hi" and "lo" for the two bytes of a *)
(* character, the rest for themselves.                                     *)
(***************************************************************************)
EXTENDS Naturals, Sequences, FiniteSets

CONSTANTS Limit,      \* limit_bytes
          MaxChunk,   \* bound on the bytes of one read
          MaxWire     \* bound on the bytes of one stream

ASSUME SseAssumption == Limit \in Nat /\ MaxChunk \in Nat /\ MaxWire \in Nat

VARIABLES buf,      \* the reassembly buffer
          out,      \* frames the running push has completed
          at,       \* where the parser stands
          residue,  \* what finish_with_residue returned as residue
          wire,     \* history: every byte received
          blocks,   \* history: the blocks drained, as positions in the wire
          got       \* history: the frames handed to the driver

histories == <<wire, blocks>>
vars == <<buf, out, at, residue, histories, got>>

Byte == {"lf", "cr", "colon", "data", "hi", "lo"}

(* What one read may bring while the stream stays within its bound.        *)
Chunks == UNION {[1..n -> Byte] : n \in {k \in 1..MaxChunk : Len(wire) + k =< MaxWire}}

Init == /\ buf = <<>> /\ out = <<>> /\ at = "idle" /\ residue = <<>>
        /\ wire = <<>> /\ blocks = <<>> /\ got = <<>>

-----------------------------------------------------------------------------
(* parse_block.                                                            *)

Decodable(b) ==
  \A i \in DOMAIN b : /\ b[i] = "hi" => i < Len(b) /\ b[i + 1] = "lo"
                      /\ b[i] = "lo" => i > 1 /\ b[i - 1] = "hi"

DataLines(b) == {i \in DOMAIN b : b[i] = "data" /\ (i = 1 \/ b[i - 1] = "lf")}

(* The last position of the line that begins at i: before LF or CRLF, or   *)
(* the end of the block, where a lone CR belongs to the line.              *)
LineEnd(b, i) ==
  IF \A j \in i..Len(b) : b[j] # "lf" THEN Len(b)
  ELSE LET j == CHOOSE j \in i..Len(b) : b[j] = "lf" /\ \A k \in i..(j - 1) : b[k] # "lf"
       IN  IF b[j - 1] = "cr" THEN j - 2 ELSE j - 1

(* The values of the data lines, which are joined in this order.           *)
DataOf(b) == [i \in DataLines(b) |-> SubSeq(b, i + 1, LineEnd(b, i))]

SseEvent(kind, b, values) == [kind |-> kind, raw_byte_len |-> Len(b), values |-> values]

(* At most one frame: a decodable block without a data line leaves none.   *)
ParseBlock(b) ==
  IF ~Decodable(b) THEN <<SseEvent("undecodable", b, <<>>)>>
  ELSE IF b # <<>> /\ b[1] = "colon" THEN <<SseEvent("comment", b, <<>>)>>
  ELSE IF DataLines(b) = {} THEN <<>>
  ELSE <<SseEvent("data", b, DataOf(b))>>

-----------------------------------------------------------------------------
(* push.                                                                   *)

Terminators == {<<"lf", "lf">>, <<"cr", "lf", "cr", "lf">>}

TerminatorAt(b, p, sep) ==
  p + Len(sep) - 1 =< Len(b) /\ SubSeq(b, p, p + Len(sep) - 1) = sep

(* find, for one kind of terminator: every place where it begins.          *)
Places(b, sep) == {p \in DOMAIN b : TerminatorAt(b, p, sep)}

Terminated(b) == \E sep \in Terminators : Places(b, sep) # {}

(* Mutant of EndsBlock: LF-LF is preferred wherever it is.                 *)
EndsBlockLfFirst(p, sep) ==
  /\ p \in Places(buf, sep)
  /\ \A q \in Places(buf, sep) : p =< q
  /\ sep # <<"lf", "lf">> => Places(buf, <<"lf", "lf">>) = {}

(* The terminator that begins first, of either kind.                       *)
EndsBlock(p, sep) ==
  /\ p \in Places(buf, sep)
  /\ \A other \in Terminators : \A q \in Places(buf, other) : p =< q

(* Mutants of Push: every read is decoded on its own, with replacement     *)
(* characters; the bound is tested before frames are drained.              *)
PushDecodesReads(chunk) ==
  /\ at = "idle"
  /\ buf' = buf \o (IF Decodable(chunk) THEN chunk ELSE [i \in DOMAIN chunk |-> "replaced"])
  /\ wire' = wire \o chunk
  /\ at' = "scan"
  /\ UNCHANGED <<out, residue, blocks, got>>

PushTestsFirst(chunk) ==
  /\ at = "idle"
  /\ buf' = buf \o chunk
  /\ wire' = wire \o chunk
  /\ at' = IF Len(buf') > Limit THEN "overflow" ELSE "scan"
  /\ UNCHANGED <<out, residue, blocks, got>>

Push(chunk) ==
  /\ at = "idle"
  /\ buf' = buf \o chunk
  /\ wire' = wire \o chunk
  /\ at' = "scan"
  /\ UNCHANGED <<out, residue, blocks, got>>

Drained == Len(wire) - Len(buf)

(* Mutant of Drain: both terminators are drained as if they had two bytes. *)
DrainTwo(p, sep) ==
  /\ buf' = SubSeq(buf, p + 2, Len(buf))
  /\ blocks' = Append(blocks, [first |-> Drained + 1, last |-> Drained + p - 1,
                               next |-> Drained + p + Len(sep)])

Drain(p, sep) ==
  /\ buf' = SubSeq(buf, p + Len(sep), Len(buf))
  /\ blocks' = Append(blocks, [first |-> Drained + 1, last |-> Drained + p - 1,
                               next |-> Drained + p + Len(sep)])

CutBlock ==
  /\ at = "scan"
  /\ \E sep \in Terminators : \E p \in Places(buf, sep) :
       /\ EndsBlock(p, sep)
       /\ Drain(p, sep)
       /\ out' = out \o ParseBlock(SubSeq(buf, 1, p - 1))
  /\ UNCHANGED <<at, residue, wire, got>>

(* Mutant of PushReturns: the frames stay in the parser as well.           *)
PushReturnsTwice ==
  /\ at = "scan" /\ ~Terminated(buf) /\ Len(buf) =< Limit
  /\ at' = "idle"
  /\ got' = got \o out
  /\ UNCHANGED <<buf, out, residue, histories>>

PushReturns ==
  /\ at = "scan" /\ ~Terminated(buf) /\ Len(buf) =< Limit
  /\ at' = "idle"
  /\ got' = got \o out
  /\ out' = <<>>
  /\ UNCHANGED <<buf, residue, histories>>

(* The error takes the place of the frames this push had completed.        *)
PushOverflows ==
  /\ at = "scan" /\ ~Terminated(buf) /\ Len(buf) > Limit
  /\ at' = "overflow"
  /\ out' = <<>>
  /\ UNCHANGED <<buf, residue, histories, got>>

-----------------------------------------------------------------------------

(* finish_with_residue: the unterminated rest is a frame, or is residue.   *)
FinishWithResidue ==
  /\ at = "idle"
  /\ LET tail == ParseBlock(buf)
     IN  /\ got' = got \o tail
         /\ residue' = IF tail = <<>> THEN buf ELSE <<>>
  /\ buf' = <<>>
  /\ at' = "closed"
  /\ UNCHANGED <<out, histories>>

(* The driver drops the parser after an overflow and after the close.      *)
Dropped == at \in {"overflow", "closed"} /\ UNCHANGED vars

Next == \/ \E chunk \in Chunks : Push(chunk)
        \/ CutBlock \/ PushReturns \/ PushOverflows
        \/ FinishWithResidue \/ Dropped

Spec == Init /\ [][Next]_vars

-----------------------------------------------------------------------------

IsEvent(ev) ==
  /\ ev.kind \in {"comment", "data", "undecodable"}
  /\ ev.raw_byte_len \in Nat
  /\ DOMAIN ev.values \subseteq Nat
  /\ \A i \in DOMAIN ev.values : ev.values[i] \in Seq(Byte)

Block == [first : Nat, last : Nat, next : Nat]

(* Buffer, frames and positions have their types; the buffer holds bytes   *)
(* of the wire and nothing made from them.                                 *)
TypeOK == /\ buf \in Seq(Byte)
          /\ wire \in Seq(Byte)
          /\ residue \in Seq(Byte)
          /\ at \in {"idle", "scan", "overflow", "closed"}
          /\ blocks \in Seq(Block)
          /\ \A i \in DOMAIN out : IsEvent(out[i])
          /\ \A i \in DOMAIN got : IsEvent(got[i])

Rest == IF blocks = <<>> THEN 1 ELSE blocks[Len(blocks)].next

(* Blocks, terminators and the buffer tile the wire, whatever the reads:   *)
(* each block begins where the terminator before it ends, and what is not  *)
(* drained is in the buffer, or was handed out when the peer closed.       *)
WireIsTiled ==
  /\ \A i \in DOMAIN blocks :
       blocks[i].first = IF i = 1 THEN 1 ELSE blocks[i - 1].next
  /\ at # "closed" => buf = SubSeq(wire, Rest, Len(wire))
  /\ at = "closed" => residue \in {<<>>, SubSeq(wire, Rest, Len(wire))}

(* A terminator of either kind begins at p of the wire.                    *)
Begins(p) == \E sep \in Terminators : TerminatorAt(wire, p, sep)

(* DEC-CHAT-06: the blocks are those of the wire alone.  Each one ends at  *)
(* the first terminator of either kind the whole wire has behind the       *)
(* block's beginning: where reads were cut, also inside a terminator, and  *)
(* what arrived later make no difference.                                  *)
BlocksByWireAlone ==
  /\ \A i \in DOMAIN blocks :
       /\ \A p \in blocks[i].first..blocks[i].last : ~Begins(p)
       /\ \E sep \in Terminators : /\ TerminatorAt(wire, blocks[i].last + 1, sep)
                                   /\ blocks[i].next = blocks[i].last + 1 + Len(sep)
  /\ at # "scan" => \A p \in Rest..Len(wire) : ~Begins(p)

(* The blocks of the wire, and the tail behind them after the close.       *)
Pieces == IF at = "closed" THEN 1..(Len(blocks) + 1) ELSE 1..Len(blocks)

Piece(i) == IF i =< Len(blocks) THEN SubSeq(wire, blocks[i].first, blocks[i].last)
                                ELSE SubSeq(wire, Rest, Len(wire))

Framed == {i \in Pieces : ParseBlock(Piece(i)) # <<>>}

(* The how-manieth frame it is that is made of piece i.                    *)
Rank(i) == Cardinality({j \in Framed : j =< i})

(* INV-CHAT-07 and sse.rs:179: what the driver was given are the frames of *)
(* the wire's blocks, decoded whole, in order and once each, with the      *)
(* unterminated tail after the peer's close.  An overflow takes away the   *)
(* frames of its own push only, so that a prefix was given.                *)
FramesByWireAlone ==
  /\ Len(got) =< Cardinality(Framed)
  /\ \A i \in Framed : Rank(i) =< Len(got) => ParseBlock(Piece(i)) = <<got[Rank(i)]>>
  /\ at \in {"idle", "closed"} => Len(got) = Cardinality(Framed)

(* INV-CHAT-06 and sse.rs:152: between two reads the buffer is within the  *)
(* bound, and only a rest longer than the bound in which no frame ends     *)
(* trips it, not the amount of frames that arrived in one read.            *)
OnlyFramelessOverflows ==
  /\ at = "idle" => Len(buf) =< Limit
  /\ at = "overflow" => Len(wire) - Rest + 1 > Limit /\ ~Terminated(buf)

(* DEC-CHAT-07, sse.rs:22: data lines are surfaced.  A block that the      *)
(* driver is told is a comment has none.                                   *)
DataIsSurfaced ==
  \A i \in DOMAIN blocks :
    LET b == SubSeq(wire, blocks[i].first, blocks[i].last)
    IN  \A j \in DOMAIN ParseBlock(b) : ParseBlock(b)[j].kind = "comment" => DataLines(b) = {}

=============================================================================
