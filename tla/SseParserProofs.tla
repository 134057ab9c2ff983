--------------------------- MODULE SseParserProofs ---------------------------
(***************************************************************************)
(* What holds of the parser for every wire, however long, every division   *)
(* into reads and every limit.                                             *)
(***************************************************************************)
EXTENDS SseParser, SequenceTheorems, FiniteSetTheorems, WellFoundedInduction, TLAPS

-----------------------------------------------------------------------------
(* Sequences of bytes.                                                     *)

LEMMA Cut ==
  ASSUME NEW s \in Seq(Byte), NEW m \in 1..(Len(s) + 1), NEW n \in (m - 1)..Len(s)
  PROVE  /\ SubSeq(s, m, n) \in Seq(Byte) /\ Len(SubSeq(s, m, n)) = n - m + 1
         /\ \A i \in 1..(n - m + 1) : SubSeq(s, m, n)[i] = s[m + i - 1]
<1>1. Len(s) \in Nat /\ m \in Int /\ n \in Int /\ \A i \in 1..Len(s) : s[i] \in Byte
  BY LenProperties, ElementOfSeq
<1>2. \A i \in m..n : s[i] \in Byte
  BY <1>1
<1>. QED BY <1>1, <1>2, SubSeqProperties

LEMMA Joined ==
  ASSUME NEW s \in Seq(Byte), NEW c \in Seq(Byte)
  PROVE  /\ s \o c \in Seq(Byte) /\ Len(s \o c) = Len(s) + Len(c)
         /\ \A i \in 1..Len(s) : (s \o c)[i] = s[i]
         /\ \A i \in 1..Len(c) : (s \o c)[Len(s) + i] = c[i]
<1>1. Len(s) \in Nat /\ Len(c) \in Nat
  BY LenProperties
<1>. QED BY <1>1, ConcatProperties

(* What is cut out of a wire stays the same when the wire grows.           *)
LEMMA CutJoined ==
  ASSUME NEW s \in Seq(Byte), NEW c \in Seq(Byte), NEW m \in 1..(Len(s) + 1), NEW n \in (m - 1)..Len(s)
  PROVE  SubSeq(s \o c, m, n) = SubSeq(s, m, n)
<1>1. Len(s) \in Nat /\ Len(c) \in Nat /\ s \o c \in Seq(Byte)
      /\ m \in 1..(Len(s \o c) + 1) /\ n \in (m - 1)..Len(s \o c)
      /\ \A i \in 1..Len(s) : (s \o c)[i] = s[i]
  BY Joined, LenProperties
<1>2. /\ SubSeq(s, m, n) \in Seq(Byte) /\ Len(SubSeq(s, m, n)) = n - m + 1
      /\ \A i \in 1..(n - m + 1) : SubSeq(s, m, n)[i] = s[m + i - 1]
  BY Cut
<1>3. /\ SubSeq(s \o c, m, n) \in Seq(Byte) /\ Len(SubSeq(s \o c, m, n)) = n - m + 1
      /\ \A i \in 1..(n - m + 1) : SubSeq(s \o c, m, n)[i] = (s \o c)[m + i - 1]
  BY <1>1, Cut
<1>4. \A i \in 1..(n - m + 1) : m + i - 1 \in 1..Len(s)
  BY <1>1
<1>. QED BY <1>1, <1>2, <1>3, <1>4, SeqEqual

(* A terminator, byte by byte.                                             *)
LEMMA TerminatorBytes ==
  ASSUME NEW sep \in Terminators
  PROVE  /\ sep \in Seq(Byte) /\ Len(sep) \in {2, 4}
         /\ Len(sep) = 2 => sep[1] = "lf" /\ sep[2] = "lf"
         /\ Len(sep) = 4 => sep[1] = "cr" /\ sep[2] = "lf" /\ sep[3] = "cr" /\ sep[4] = "lf"
<1>1. CASE sep = <<"lf", "lf">>
  BY <1>1 DEF Byte
<1>2. CASE sep = <<"cr", "lf", "cr", "lf">>
  BY <1>2 DEF Byte
<1>. QED BY <1>1, <1>2 DEF Terminators

LEMMA TerminatorPlaces ==
  ASSUME NEW b \in Seq(Byte), NEW p \in Nat \ {0}, NEW sep \in Terminators
  PROVE  TerminatorAt(b, p, sep) <=> /\ p + Len(sep) - 1 =< Len(b)
                                     /\ \A k \in 1..Len(sep) : b[p + k - 1] = sep[k]
<1>1. sep \in Seq(Byte) /\ Len(sep) \in {2, 4} /\ Len(b) \in Nat
  BY TerminatorBytes, LenProperties
<1>2. CASE p + Len(sep) - 1 =< Len(b)
  <2>. DEFINE n == p + Len(sep) - 1
  <2>1. /\ p \in 1..(Len(b) + 1) /\ n \in (p - 1)..Len(b) /\ n - p + 1 = Len(sep)
    BY <1>1, <1>2
  <2>2. /\ SubSeq(b, p, n) \in Seq(Byte) /\ Len(SubSeq(b, p, n)) = Len(sep)
        /\ \A i \in 1..Len(sep) : SubSeq(b, p, n)[i] = b[p + i - 1]
    BY <2>1, Cut
  <2>3. SubSeq(b, p, n) = sep <=> \A i \in 1..Len(sep) : SubSeq(b, p, n)[i] = sep[i]
    BY <1>1, <2>2, SeqEqual
  <2>. QED BY <1>2, <2>2, <2>3 DEF TerminatorAt
<1>3. CASE ~(p + Len(sep) - 1 =< Len(b))
  BY <1>3 DEF TerminatorAt
<1>. QED BY <1>2, <1>3

(* A terminator that begins before another one does not end after it: so   *)
(* no byte that arrives later can put one in front.                        *)
LEMMA NoneInFront ==
  ASSUME NEW b \in Seq(Byte), NEW p \in Nat \ {0}, NEW sep \in Terminators, TerminatorAt(b, p, sep),
         NEW q \in Nat \ {0}, NEW other \in Terminators, TerminatorAt(b, q, other), q < p
  PROVE  q + Len(other) =< p + Len(sep)
<1>1. /\ Len(sep) \in {2, 4} /\ Len(other) \in {2, 4}
      /\ \A k \in 1..Len(sep) : b[p + k - 1] = sep[k]
      /\ \A k \in 1..Len(other) : b[q + k - 1] = other[k]
  BY TerminatorBytes, TerminatorPlaces
<1>2. CASE Len(sep) = 4 \/ Len(other) = 2 \/ q < p - 1
  <2>1. \A x, y \in {2, 4} : x = 4 \/ y = 2 \/ q < p - 1 => q + y =< p + x
    OBVIOUS
  <2>. QED BY <1>1, <1>2, <2>1
<1>3. CASE Len(sep) = 2 /\ Len(other) = 4 /\ q = p - 1
  <2>1. b[p + 2 - 1] = "lf"
    BY <1>1, <1>3, TerminatorBytes
  <2>2. b[q + 3 - 1] = "cr"
    BY <1>1, <1>3, TerminatorBytes
  <2>3. q + 3 - 1 = p + 2 - 1
    BY <1>3
  <2>. QED BY <2>1, <2>2, <2>3
<1>. QED BY <1>1, <1>2, <1>3

(* Every set of naturals that is not empty has a least one.                *)
LEMMA SmallestOfNat ==
  ASSUME NEW T \in SUBSET Nat, T # {} PROVE \E m \in T : \A k \in T : m =< k
<1>1. PICK m \in T : \A k \in T : ~(<<k, m>> \in OpToRel(<, Nat))
  BY NatLessThanWellFounded, WFMin
<1>2. \A k \in T : ~(k < m)
  BY <1>1 DEF OpToRel
<1>. QED BY <1>2

-----------------------------------------------------------------------------
(* What parse_block makes of a block.                                      *)

Events == {ParseBlock(b)[1] : b \in {c \in Seq(Byte) : ParseBlock(c) # <<>>}}

LEMMA OneFrame ==
  ASSUME NEW b \in Seq(Byte)
  PROVE  ParseBlock(b) = <<>> \/ \E ev \in Events : ParseBlock(b) = <<ev>>
<1>1. ParseBlock(b) = <<>> \/ \E ev : ParseBlock(b) = <<ev>>
  BY DEF ParseBlock
<1>. QED BY <1>1 DEF Events

LEMMA FrameSeq == ASSUME NEW b \in Seq(Byte) PROVE ParseBlock(b) \in Seq(Events)
<1>1. <<>> \in Seq(Events) /\ \A ev \in Events : <<ev>> \in Seq(Events)
  OBVIOUS
<1>. QED BY <1>1, OneFrame

LEMMA DataTypes ==
  ASSUME NEW b \in Seq(Byte), NEW i \in DataLines(b)
  PROVE  i \in Nat /\ SubSeq(b, i + 1, LineEnd(b, i)) \in Seq(Byte)
<1>1. /\ i \in 1..Len(b) /\ b[i] = "data" /\ Len(b) \in Nat
      /\ \A k \in 1..Len(b) : b[k] \in Byte
  BY LenProperties, ElementOfSeq DEF DataLines
<1>2. LineEnd(b, i) \in i..Len(b)
  <2>1. CASE \A j \in i..Len(b) : b[j] # "lf"
    BY <1>1, <2>1 DEF LineEnd
  <2>2. CASE \E j \in i..Len(b) : b[j] = "lf"
    <3>. DEFINE First(j) == b[j] = "lf" /\ \A k \in i..(j - 1) : b[k] # "lf"
                J == CHOOSE j \in i..Len(b) : First(j)
    <3>1. \E j \in i..Len(b) : First(j)
      <4>. DEFINE L == {j \in Nat : j \in i..Len(b) /\ b[j] = "lf"}
      <4>1. L # {} /\ L \in SUBSET Nat
        BY <1>1, <2>2
      <4>2. PICK m \in L : \A k \in L : m =< k
        BY <4>1, SmallestOfNat
      <4>. QED BY <1>1, <4>2
    <3>2. J \in i..Len(b) /\ First(J)
      BY <3>1
    <3>3. J # i /\ (b[J - 1] = "cr" => J - 1 # i)
      BY <1>1, <3>2
    <3>4. LineEnd(b, i) = IF b[J - 1] = "cr" THEN J - 2 ELSE J - 1
      BY <2>2 DEF LineEnd
    <3>5. J \in Nat /\ i \in Nat /\ J - 1 \in i..Len(b) /\ (b[J - 1] = "cr" => J - 2 \in i..Len(b))
      BY <1>1, <3>2, <3>3
    <3>. QED BY <3>4, <3>5
  <2>. QED BY <2>1, <2>2
<1>3. i + 1 \in 1..(Len(b) + 1) /\ LineEnd(b, i) \in (i + 1 - 1)..Len(b)
  BY <1>1, <1>2
<1>. QED BY <1>1, <1>3, Cut

LEMMA EventTypes == \A ev \in Events : IsEvent(ev)
<1>. SUFFICES ASSUME NEW b \in Seq(Byte), ParseBlock(b) # <<>> PROVE IsEvent(ParseBlock(b)[1])
  BY DEF Events
<1>1. Len(b) \in Nat
  BY LenProperties
<1>2. DOMAIN <<>> = {}
  OBVIOUS
<1>3. DOMAIN DataOf(b) = DataLines(b) /\ \A i \in DataLines(b) : i \in Nat /\ DataOf(b)[i] \in Seq(Byte)
  BY DataTypes DEF DataOf
<1>4. \A kind, values : /\ SseEvent(kind, b, values).kind = kind
                        /\ SseEvent(kind, b, values).raw_byte_len = Len(b)
                        /\ SseEvent(kind, b, values).values = values
  BY DEF SseEvent
<1>5. \/ ParseBlock(b)[1] = SseEvent("undecodable", b, <<>>)
      \/ ParseBlock(b)[1] = SseEvent("comment", b, <<>>)
      \/ ParseBlock(b)[1] = SseEvent("data", b, DataOf(b))
  BY DEF ParseBlock
<1>. QED BY <1>1, <1>2, <1>3, <1>4, <1>5 DEF IsEvent

-----------------------------------------------------------------------------
(* The wire, tile by tile.                                                 *)

Types == /\ buf \in Seq(Byte) /\ wire \in Seq(Byte) /\ residue \in Seq(Byte)
         /\ at \in {"idle", "scan", "overflow", "closed"}
         /\ blocks \in Seq(Block)

(* Blocks lie within the wire, each behind the one before it, and the      *)
(* buffer holds what is behind the last terminator.                        *)
Tiles ==
  /\ \A i \in DOMAIN blocks :
       /\ blocks[i].first = IF i = 1 THEN 1 ELSE blocks[i - 1].next
       /\ 1 =< blocks[i].first /\ blocks[i].first =< blocks[i].last + 1
       /\ blocks[i].last < blocks[i].next /\ blocks[i].next =< Len(wire) + 1
  /\ at # "closed" => /\ Len(buf) = Len(wire) + 1 - Rest
                      /\ \A k \in 1..Len(buf) : buf[k] = wire[Rest + k - 1]
  /\ at = "closed" => residue \in {<<>>, SubSeq(wire, Rest, Len(wire))}

Bounded ==
  /\ at = "idle" => Len(buf) =< Limit
  /\ at = "overflow" => Len(buf) > Limit /\ ~Terminated(buf)

IInv == Types /\ Tiles /\ Bounded /\ BlocksByWireAlone

LEMMA RestInWire ==
  ASSUME Types, Tiles
  PROVE  Rest \in 1..(Len(wire) + 1) /\ Len(wire) \in Nat /\ Len(blocks) \in Nat
         /\ DOMAIN blocks = 1..Len(blocks) /\ Len(buf) \in Nat
         /\ \A i \in 1..Len(blocks) : /\ blocks[i] \in Block
                                      /\ blocks[i].first \in 1..(Len(wire) + 1)
                                      /\ blocks[i].last \in (blocks[i].first - 1)..Len(wire)
                                      /\ blocks[i].next \in 1..(Len(wire) + 1)
<1>1. /\ Len(wire) \in Nat /\ Len(blocks) \in Nat /\ DOMAIN blocks = 1..Len(blocks) /\ Len(buf) \in Nat
  BY LenProperties DEF Types
<1>2. ASSUME NEW i \in 1..Len(blocks)
      PROVE  /\ blocks[i] \in Block
             /\ blocks[i].first \in 1..(Len(wire) + 1)
             /\ blocks[i].last \in (blocks[i].first - 1)..Len(wire)
             /\ blocks[i].next \in 1..(Len(wire) + 1)
  <2>1. blocks[i] \in Block
    BY <1>1, ElementOfSeq DEF Types
  <2>2. blocks[i].first \in Nat /\ blocks[i].last \in Nat /\ blocks[i].next \in Nat
    BY <2>1 DEF Block
  <2>3. /\ 1 =< blocks[i].first /\ blocks[i].first =< blocks[i].last + 1
        /\ blocks[i].last < blocks[i].next /\ blocks[i].next =< Len(wire) + 1
    BY <1>1 DEF Tiles
  <2>. QED BY <1>1, <2>1, <2>2, <2>3
<1>3. Rest \in 1..(Len(wire) + 1)
  <2>1. CASE blocks = <<>>
    BY <1>1, <2>1 DEF Rest
  <2>2. CASE blocks # <<>>
    <3>1. Len(blocks) \in 1..Len(blocks)
      BY <1>1, <2>2, EmptySeq DEF Types
    <3>. QED BY <1>2, <2>2, <3>1 DEF Rest
  <2>. QED BY <2>1, <2>2
<1>. QED BY <1>1, <1>2, <1>3

(* What is not drained is the rest of the wire.                            *)
LEMMA BufferIsRest ==
  ASSUME Types, Tiles, at # "closed"
  PROVE  buf = SubSeq(wire, Rest, Len(wire))
<1>1. Rest \in 1..(Len(wire) + 1) /\ Len(wire) \in (Rest - 1)..Len(wire) /\ Len(wire) \in Nat
  BY RestInWire
<1>2. /\ SubSeq(wire, Rest, Len(wire)) \in Seq(Byte)
      /\ Len(SubSeq(wire, Rest, Len(wire))) = Len(wire) - Rest + 1
      /\ \A i \in 1..(Len(wire) - Rest + 1) : SubSeq(wire, Rest, Len(wire))[i] = wire[Rest + i - 1]
  BY <1>1, Cut DEF Types
<1>3. /\ Len(buf) = Len(wire) - Rest + 1 /\ buf \in Seq(Byte)
      /\ \A k \in 1..Len(buf) : buf[k] = wire[Rest + k - 1]
  BY <1>1 DEF Tiles, Types
<1>. QED BY <1>2, <1>3, SeqEqual

(* A terminator of the buffer is one of the wire.                          *)
LEMMA BufferTerminators ==
  ASSUME Types, Tiles, at # "closed", NEW p \in Nat \ {0}, NEW sep \in Terminators
  PROVE  TerminatorAt(buf, p, sep) <=> TerminatorAt(wire, Rest + p - 1, sep)
<1>1. /\ Rest \in 1..(Len(wire) + 1) /\ Len(wire) \in Nat /\ Len(buf) = Len(wire) + 1 - Rest
      /\ \A k \in 1..Len(buf) : buf[k] = wire[Rest + k - 1]
  BY RestInWire DEF Tiles
<1>. DEFINE q == Rest + p - 1
            n == Len(sep)
<1>2. q \in Nat \ {0} /\ n \in {2, 4}
  BY <1>1, TerminatorBytes
<1>3. TerminatorAt(buf, p, sep) <=> p + n - 1 =< Len(buf) /\ \A k \in 1..n : buf[p + k - 1] = sep[k]
  BY TerminatorPlaces DEF Types
<1>4. TerminatorAt(wire, q, sep) <=> q + n - 1 =< Len(wire) /\ \A k \in 1..n : wire[q + k - 1] = sep[k]
  BY <1>2, TerminatorPlaces DEF Types
<1>5. p + n - 1 =< Len(buf) <=> q + n - 1 =< Len(wire)
  BY <1>1, <1>2
<1>6. ASSUME p + n - 1 =< Len(buf), NEW k \in 1..n PROVE buf[p + k - 1] = wire[q + k - 1]
  <2>1. p + k - 1 \in 1..Len(buf) /\ Rest + (p + k - 1) - 1 = q + k - 1
    BY <1>1, <1>2, <1>6
  <2>. QED BY <1>1, <2>1
<1>. HIDE DEF q, n
<1>7. TerminatorAt(buf, p, sep) <=> TerminatorAt(wire, q, sep)
  BY <1>3, <1>4, <1>5, <1>6
<1>. QED BY <1>7 DEF q

(* A buffer in which nothing terminates is a rest in which nothing begins. *)
LEMMA NothingBegins ==
  ASSUME Types, Tiles, at # "closed", ~Terminated(buf)
  PROVE  \A p \in Rest..Len(wire) : ~Begins(p)
<1>. SUFFICES ASSUME NEW p \in Rest..Len(wire), NEW sep \in Terminators, TerminatorAt(wire, p, sep)
              PROVE  Terminated(buf)
  BY DEF Begins
<1>1. Rest \in 1..(Len(wire) + 1) /\ Len(wire) \in Nat /\ Len(buf) = Len(wire) + 1 - Rest
  BY RestInWire DEF Tiles
<1>. DEFINE q == p - Rest + 1
<1>2. q \in Nat \ {0} /\ q \in 1..Len(buf) /\ Rest + q - 1 = p
  BY <1>1
<1>. HIDE DEF q
<1>3. TerminatorAt(buf, q, sep)
  BY <1>2, BufferTerminators
<1>4. DOMAIN buf = 1..Len(buf)
  BY LenProperties DEF Types
<1>. QED BY <1>2, <1>3, <1>4 DEF Terminated, Places

(* A terminator of a wire stays one when the wire grows.                   *)
LEMMA TerminatorsStay ==
  ASSUME NEW s \in Seq(Byte), NEW c \in Seq(Byte), NEW p \in Nat \ {0}, NEW sep \in Terminators,
         p + Len(sep) - 1 =< Len(s)
  PROVE  TerminatorAt(s \o c, p, sep) <=> TerminatorAt(s, p, sep)
<1>. DEFINE n == Len(sep)
<1>1. /\ n \in {2, 4} /\ Len(s) \in Nat /\ Len(c) \in Nat /\ s \o c \in Seq(Byte)
      /\ Len(s \o c) = Len(s) + Len(c) /\ \A i \in 1..Len(s) : (s \o c)[i] = s[i]
  BY TerminatorBytes, Joined, LenProperties
<1>2. TerminatorAt(s, p, sep) <=> p + n - 1 =< Len(s) /\ \A k \in 1..n : s[p + k - 1] = sep[k]
  BY TerminatorPlaces
<1>3. TerminatorAt(s \o c, p, sep) <=> /\ p + n - 1 =< Len(s \o c)
                                       /\ \A k \in 1..n : (s \o c)[p + k - 1] = sep[k]
  BY <1>1, TerminatorPlaces
<1>4. p + n - 1 =< Len(s) /\ p + n - 1 =< Len(s \o c)
  BY <1>1
<1>5. ASSUME NEW k \in 1..n PROVE (s \o c)[p + k - 1] = s[p + k - 1]
  <2>1. p + k - 1 \in 1..Len(s)
    BY <1>1, <1>4
  <2>. QED BY <1>1, <2>1
<1>. QED BY <1>2, <1>3, <1>4, <1>5

-----------------------------------------------------------------------------
(* The steps.                                                              *)

LEMMA InitHolds == Init => IInv
<1>. SUFFICES ASSUME Init PROVE IInv
  OBVIOUS
<1>1. <<>> \in Seq(Byte) /\ <<>> \in Seq(Block) /\ Len(<<>>) = 0 /\ DOMAIN <<>> = {}
  OBVIOUS
<1>2. Types /\ Rest = 1 /\ Len(wire) = 0 /\ Len(buf) = 0 /\ DOMAIN blocks = {} /\ at = "idle"
  BY <1>1 DEF Init, Types, Rest
<1>3. Tiles
  BY <1>2 DEF Tiles
<1>4. Bounded
  BY <1>2, SseAssumption DEF Bounded, SseAssumption
<1>5. BlocksByWireAlone
  BY <1>2 DEF BlocksByWireAlone
<1>. QED BY <1>2, <1>3, <1>4, <1>5 DEF IInv

LEMMA ChunkBytes == ASSUME NEW c \in Chunks PROVE c \in Seq(Byte)
BY SeqDef DEF Chunks

LEMMA PushKeeps == ASSUME IInv, NEW c \in Chunks, Push(c) PROVE IInv'
<1>1. /\ c \in Seq(Byte) /\ at = "idle" /\ at' = "scan" /\ buf' = buf \o c /\ wire' = wire \o c
      /\ UNCHANGED <<out, residue, blocks, got>> /\ Types /\ Tiles
  BY ChunkBytes DEF Push, IInv
<1>2. /\ Rest' = Rest /\ Rest \in 1..(Len(wire) + 1) /\ Len(wire) \in Nat /\ Len(buf) \in Nat
      /\ DOMAIN blocks = 1..Len(blocks) /\ Len(c) \in Nat
      /\ \A i \in 1..Len(blocks) : /\ blocks[i].first \in 1..(Len(wire) + 1)
                                   /\ blocks[i].last \in (blocks[i].first - 1)..Len(wire)
                                   /\ blocks[i].next \in 1..(Len(wire) + 1)
  BY <1>1, RestInWire, LenProperties DEF Rest
<1>3. /\ wire' \in Seq(Byte) /\ Len(wire') = Len(wire) + Len(c)
      /\ \A i \in 1..Len(wire) : wire'[i] = wire[i]
      /\ \A i \in 1..Len(c) : wire'[Len(wire) + i] = c[i]
      /\ buf' \in Seq(Byte) /\ Len(buf') = Len(buf) + Len(c)
      /\ \A i \in 1..Len(buf) : buf'[i] = buf[i]
      /\ \A i \in 1..Len(c) : buf'[Len(buf) + i] = c[i]
  BY <1>1, Joined DEF Types
<1>4. Types'
  BY <1>1, <1>3 DEF Types
<1>5. /\ Len(buf) = Len(wire) + 1 - Rest
      /\ \A k \in 1..Len(buf) : buf[k] = wire[Rest + k - 1]
  BY <1>1 DEF Tiles
<1>6. ASSUME NEW k \in 1..Len(buf') PROVE buf'[k] = wire'[Rest + k - 1]
  <2>1. CASE k \in 1..Len(buf)
    <3>1. Rest + k - 1 \in 1..Len(wire)
      BY <1>2, <1>5, <2>1
    <3>. QED BY <1>3, <1>5, <2>1, <3>1
  <2>2. CASE k \notin 1..Len(buf)
    <3>. DEFINE j == k - Len(buf)
    <3>1. j \in 1..Len(c) /\ Len(buf) + j = k /\ Len(wire) + j = Rest + k - 1
      BY <1>2, <1>3, <1>5, <2>2
    <3>. HIDE DEF j
    <3>. QED BY <1>3, <3>1
  <2>. QED BY <2>1, <2>2
<1>7. Tiles'
  <2>1. Len(buf') = Len(wire') + 1 - Rest'
    BY <1>2, <1>3, <1>5
  <2>2. ASSUME NEW i \in DOMAIN blocks
        PROVE  /\ blocks[i].first = IF i = 1 THEN 1 ELSE blocks[i - 1].next
               /\ 1 =< blocks[i].first /\ blocks[i].first =< blocks[i].last + 1
               /\ blocks[i].last < blocks[i].next /\ blocks[i].next =< Len(wire') + 1
    <3>1. /\ blocks[i].first = IF i = 1 THEN 1 ELSE blocks[i - 1].next
          /\ 1 =< blocks[i].first /\ blocks[i].first =< blocks[i].last + 1
          /\ blocks[i].last < blocks[i].next /\ blocks[i].next =< Len(wire) + 1
      BY <1>1 DEF Tiles
    <3>2. Len(wire') = Len(wire) + Len(c) /\ Len(wire) \in Nat /\ Len(c) \in Nat
      BY <1>2, <1>3
    <3>3. blocks[i].next \in Nat
      BY <1>2
    <3>. QED BY <3>1, <3>2, <3>3
  <2>. QED BY <1>1, <1>2, <1>6, <2>1, <2>2 DEF Tiles
<1>8. Bounded'
  BY <1>1 DEF Bounded
<1>9. BlocksByWireAlone'
  <2>. SUFFICES ASSUME NEW i \in 1..Len(blocks)
                PROVE  /\ \A p \in blocks[i].first..blocks[i].last : ~Begins(p)'
                       /\ \E sep \in Terminators :
                             /\ TerminatorAt(wire', blocks[i].last + 1, sep)
                             /\ blocks[i].next = blocks[i].last + 1 + Len(sep)
    BY <1>1, <1>2 DEF BlocksByWireAlone
  <2>1. PICK sep \in Terminators : /\ TerminatorAt(wire, blocks[i].last + 1, sep)
                                   /\ blocks[i].next = blocks[i].last + 1 + Len(sep)
    BY <1>2 DEF IInv, BlocksByWireAlone
  <2>. DEFINE l == blocks[i].last + 1
  <2>2. l \in Nat \ {0} /\ l + Len(sep) - 1 =< Len(wire) /\ Len(sep) \in {2, 4}
    <3>1. blocks[i].first \in 1..(Len(wire) + 1) /\ blocks[i].last \in (blocks[i].first - 1)..Len(wire)
      BY <1>2
    <3>2. \A w \in Nat : \A x \in 1..(w + 1) : \A y \in (x - 1)..w : y + 1 \in Nat \ {0}
      OBVIOUS
    <3>3. l \in Nat \ {0}
      BY <1>2, <3>1, <3>2
    <3>4. l \in Nat \ {0} /\ Len(sep) \in {2, 4}
      BY <3>3, TerminatorBytes
    <3>5. l + Len(sep) =< Len(wire) + 1
      BY <1>2, <2>1
    <3>6. \A x, y \in Nat : \A w \in {2, 4} : x + w =< y + 1 => x + w - 1 =< y
      OBVIOUS
    <3>. HIDE DEF l
    <3>. QED BY <1>2, <3>4, <3>5, <3>6
  <2>3. TerminatorAt(wire', l, sep)
    BY <1>1, <2>1, <2>2, TerminatorsStay DEF Types
  <2>4. ASSUME NEW p \in blocks[i].first..blocks[i].last, Begins(p)' PROVE FALSE
    <3>1. PICK other \in Terminators : TerminatorAt(wire', p, other)
      BY <2>4 DEF Begins
    <3>2. p \in Nat \ {0} /\ p < l /\ Len(other) \in {2, 4}
      <4>1. blocks[i].first \in 1..(Len(wire) + 1) /\ blocks[i].last \in (blocks[i].first - 1)..Len(wire)
            /\ Len(wire) \in Nat
        BY <1>2
      <4>2. \A w \in Nat : \A x \in 1..(w + 1) : \A y \in (x - 1)..w : \A z \in x..y :
              z \in Nat \ {0} /\ z < y + 1
        OBVIOUS
      <4>3. p \in Nat \ {0} /\ p < blocks[i].last + 1
        BY <2>4, <4>1, <4>2
      <4>. QED BY <4>3, TerminatorBytes
    <3>3. p + Len(other) =< l + Len(sep)
      BY <1>3, <2>2, <2>3, <3>1, <3>2, NoneInFront
    <3>4. p + Len(other) - 1 =< Len(wire)
      <4>1. Len(wire) \in Nat /\ Len(sep) \in {2, 4}
        BY <1>2, <2>2
      <4>. HIDE DEF l
      <4>. QED BY <2>2, <3>2, <3>3, <4>1
    <3>5. TerminatorAt(wire, p, other)
      BY <1>1, <3>1, <3>2, <3>4, TerminatorsStay DEF Types
    <3>6. ~Begins(p)
      BY <1>2, <2>4 DEF IInv, BlocksByWireAlone
    <3>. QED BY <3>5, <3>6 DEF Begins
  <2>. QED BY <2>1, <2>3, <2>4
<1>. QED BY <1>4, <1>7, <1>8, <1>9 DEF IInv

(* The block that is cut is the next tile.                                 *)
CutOut(p, sep) == [first |-> Rest, last |-> Rest + p - 2, next |-> Rest + p + Len(sep) - 1]

LEMMA CutBlockShape ==
  ASSUME IInv, at # "closed", NEW sep \in Terminators, NEW p \in Places(buf, sep), EndsBlock(p, sep),
         Drain(p, sep), UNCHANGED wire
  PROVE  /\ blocks' = Append(blocks, CutOut(p, sep)) /\ blocks' \in Seq(Block)
         /\ p \in 1..Len(buf) /\ p + Len(sep) - 1 =< Len(buf) /\ Len(sep) \in {2, 4}
         /\ Len(blocks') = Len(blocks) + 1 /\ blocks'[Len(blocks) + 1] = CutOut(p, sep)
         /\ \A i \in 1..Len(blocks) : blocks'[i] = blocks[i]
         /\ DOMAIN blocks' = 1..(Len(blocks) + 1) /\ Rest' = CutOut(p, sep).next
<1>. DEFINE n == Len(sep)
            b == CutOut(p, sep)
<1>1. /\ Types /\ Tiles /\ Rest \in 1..(Len(wire) + 1) /\ Len(wire) \in Nat /\ Len(buf) \in Nat
      /\ DOMAIN blocks = 1..Len(blocks) /\ Len(blocks) \in Nat /\ Len(buf) = Len(wire) + 1 - Rest
      /\ DOMAIN buf = 1..Len(buf)
  BY RestInWire, LenProperties DEF IInv, Tiles, Types
<1>2. n \in {2, 4}
  BY TerminatorBytes
<1>3. p \in 1..Len(buf) /\ p + n - 1 =< Len(buf)
  BY <1>1 DEF Places, TerminatorAt
<1>4. Drained + 1 = Rest /\ Drained + p - 1 = Rest + p - 2 /\ Drained + p + n = Rest + p + n - 1
  BY <1>1, <1>2, <1>3 DEF Drained
<1>5. blocks' = Append(blocks, b)
  BY <1>4 DEF Drain, CutOut
<1>6. Rest \in Nat /\ Rest + p - 2 \in Nat /\ Rest + p + n - 1 \in Nat
  BY <1>1, <1>2, <1>3
<1>7. b \in Block
  BY <1>6 DEF Block, CutOut
<1>. HIDE DEF b
<1>8. /\ blocks' \in Seq(Block) /\ Len(blocks') = Len(blocks) + 1
      /\ blocks'[Len(blocks) + 1] = b
      /\ \A i \in 1..Len(blocks) : blocks'[i] = blocks[i]
      /\ DOMAIN blocks' = 1..(Len(blocks) + 1)
  BY <1>1, <1>5, <1>7, AppendProperties, LenProperties DEF Types
<1>9. Rest' = b.next
  <2>1. blocks' # <<>>
    BY <1>1, <1>8, EmptySeq
  <2>. QED BY <1>8, <2>1 DEF Rest
<1>. QED BY <1>2, <1>3, <1>5, <1>7, <1>8, <1>9 DEF b

LEMMA CutBlockKeeps == ASSUME IInv, CutBlock PROVE IInv'
<1>0. PICK sep \in Terminators : \E p \in Places(buf, sep) : EndsBlock(p, sep) /\ Drain(p, sep)
  BY DEF CutBlock
<1>1. PICK p \in Places(buf, sep) : EndsBlock(p, sep) /\ Drain(p, sep)
  BY <1>0
<1>2. at = "scan" /\ UNCHANGED <<at, residue, wire, got>> /\ Types /\ Tiles
  BY DEF CutBlock, IInv
<1>. DEFINE n == Len(sep)
            m == Len(blocks) + 1
            first == Rest
            last == Rest + p - 2
            next == Rest + p + n - 1
<1>3. /\ p \in 1..Len(buf) /\ p + n - 1 =< Len(buf) /\ n \in {2, 4}
      /\ blocks' \in Seq(Block) /\ DOMAIN blocks' = 1..m /\ Rest' = next
      /\ blocks'[m].first = first /\ blocks'[m].last = last /\ blocks'[m].next = next
      /\ \A i \in 1..Len(blocks) : blocks'[i] = blocks[i]
  <2>1. /\ p \in 1..Len(buf) /\ p + n - 1 =< Len(buf) /\ n \in {2, 4}
        /\ blocks' \in Seq(Block) /\ DOMAIN blocks' = 1..m /\ Rest' = CutOut(p, sep).next
        /\ blocks'[m] = CutOut(p, sep)
        /\ \A i \in 1..Len(blocks) : blocks'[i] = blocks[i]
    BY <1>1, <1>2, CutBlockShape
  <2>2. CutOut(p, sep).first = first /\ CutOut(p, sep).last = last /\ CutOut(p, sep).next = next
    BY DEF CutOut
  <2>. QED BY <2>1, <2>2
<1>4. /\ Rest \in 1..(Len(wire) + 1) /\ Len(wire) \in Nat /\ Len(buf) \in Nat
      /\ DOMAIN blocks = 1..Len(blocks) /\ Len(blocks) \in Nat /\ Len(buf) = Len(wire) + 1 - Rest
      /\ \A k \in 1..Len(buf) : buf[k] = wire[Rest + k - 1]
  BY <1>2, RestInWire DEF Tiles
<1>5. /\ 1 =< first /\ first =< last + 1 /\ last < next /\ next =< Len(wire) + 1
      /\ first \in Nat /\ last \in Nat /\ next \in Nat
  <2>1. Rest \in 1..(Len(wire) + 1) /\ Len(wire) \in Nat /\ Len(buf) = Len(wire) + 1 - Rest
    BY <1>4
  <2>2. p \in 1..Len(buf) /\ p + n - 1 =< Len(buf) /\ n \in {2, 4}
    BY <1>3
  <2>. HIDE DEF n
  <2>3. /\ Rest \in Nat /\ 1 =< Rest /\ p \in Nat /\ 1 =< p /\ n \in Nat /\ n >= 2
        /\ p + n - 1 =< Len(wire) + 1 - Rest
    BY <2>1, <2>2
  <2>. QED BY <2>1, <2>3
<1>6. /\ buf' = SubSeq(buf, p + n, Len(buf)) /\ buf' \in Seq(Byte)
      /\ Len(buf') = Len(buf) - (p + n) + 1
      /\ \A k \in 1..Len(buf') : buf'[k] = buf[p + n + k - 1]
  <2>1. p + n \in 1..(Len(buf) + 1) /\ Len(buf) \in (p + n - 1)..Len(buf)
    <3>1. p \in 1..Len(buf) /\ p + n - 1 =< Len(buf) /\ n \in {2, 4}
      BY <1>3
    <3>2. Len(buf) \in Nat
      BY <1>4
    <3>. HIDE DEF n
    <3>. QED BY <3>1, <3>2
  <2>2. buf' = SubSeq(buf, p + n, Len(buf))
    BY <1>1 DEF Drain
  <2>3. buf \in Seq(Byte)
    BY <1>2 DEF Types
  <2>4. /\ SubSeq(buf, p + n, Len(buf)) \in Seq(Byte)
        /\ Len(SubSeq(buf, p + n, Len(buf))) = Len(buf) - (p + n) + 1
        /\ \A k \in 1..(Len(buf) - (p + n) + 1) : SubSeq(buf, p + n, Len(buf))[k] = buf[p + n + k - 1]
    BY <2>1, <2>3, Cut
  <2>. QED BY <2>2, <2>4
<1>. HIDE DEF n, m, first, last, next
<1>7. Types'
  BY <1>2, <1>3, <1>6 DEF Types
<1>8. Tiles'
  <2>1. Len(buf') = Len(wire') + 1 - Rest'
    <3>1. Len(wire') = Len(wire) /\ Rest' = Rest + p + n - 1 /\ Rest \in Nat /\ p \in Nat /\ n \in Nat
      <4>1. wire' = wire /\ Rest' = next
        BY <1>2, <1>3
      <4>2. p \in 1..Len(buf) /\ n \in {2, 4} /\ Rest \in 1..(Len(wire) + 1)
        BY <1>3, <1>4
      <4>. QED BY <4>1, <4>2 DEF next
    <3>2. Len(buf) = Len(wire) + 1 - Rest /\ Len(buf') = Len(buf) - (p + n) + 1 /\ Len(wire) \in Nat
      BY <1>4, <1>6
    <3>3. \A w, r, x, y \in Nat : (w + 1 - r) - (x + y) + 1 = w + 1 - (r + x + y - 1)
      OBVIOUS
    <3>. QED BY <3>1, <3>2, <3>3
  <2>2. ASSUME NEW k \in 1..Len(buf') PROVE buf'[k] = wire'[Rest' + k - 1]
    <3>1. /\ p + n + k - 1 \in 1..Len(buf)
          /\ Rest + (p + n + k - 1) - 1 = Rest' + k - 1
      <4>1. /\ Len(buf) \in Nat /\ Len(buf') = Len(buf) - (p + n) + 1
            /\ Rest \in Nat /\ p \in Nat \ {0} /\ n \in Nat /\ k \in 1..Len(buf')
        <5>1. p \in 1..Len(buf) /\ n \in {2, 4} /\ Rest \in 1..(Len(wire) + 1)
          BY <1>3, <1>4
        <5>2. Len(buf) \in Nat /\ Len(wire) \in Nat
          BY <1>4
        <5>3. Rest \in Nat /\ p \in Nat \ {0} /\ n \in Nat
          BY <5>1, <5>2
        <5>4. Len(buf') = Len(buf) - (p + n) + 1
          BY <1>6
        <5>. QED BY <2>2, <5>2, <5>3, <5>4
      <4>2. Rest' = Rest + p + n - 1
        BY <1>3 DEF next
      <4>. QED BY <4>1, <4>2
    <3>. QED BY <1>2, <1>4, <1>6, <3>1
  <2>3. ASSUME NEW i \in 1..m
        PROVE  /\ blocks'[i].first = IF i = 1 THEN 1 ELSE blocks'[i - 1].next
               /\ 1 =< blocks'[i].first /\ blocks'[i].first =< blocks'[i].last + 1
               /\ blocks'[i].last < blocks'[i].next /\ blocks'[i].next =< Len(wire) + 1
    <3>1. CASE i = m
      <4>1. /\ 1 =< blocks'[i].first /\ blocks'[i].first =< blocks'[i].last + 1
            /\ blocks'[i].last < blocks'[i].next /\ blocks'[i].next =< Len(wire) + 1
        BY <1>3, <1>5, <3>1
      <4>2. CASE m = 1
        <5>1. Len(blocks) = 0
          BY <1>4, <4>2 DEF m
        <5>2. Rest = 1
          BY <1>2, <5>1, EmptySeq DEF Rest, Types
        <5>. QED BY <1>3, <3>1, <4>1, <4>2, <5>2 DEF first
      <4>3. CASE m # 1
        <5>1. m - 1 = Len(blocks) /\ m - 1 \in 1..Len(blocks) /\ blocks # <<>>
          BY <1>4, <4>3 DEF m
        <5>2. Rest = blocks[m - 1].next
          BY <5>1 DEF Rest
        <5>. QED BY <1>3, <3>1, <4>1, <4>3, <5>1, <5>2 DEF first
      <4>. QED BY <4>2, <4>3
    <3>2. CASE i # m
      <4>1. i \in 1..Len(blocks) /\ (i # 1 => i - 1 \in 1..Len(blocks))
        BY <1>4, <3>2 DEF m
      <4>2. /\ blocks[i].first = IF i = 1 THEN 1 ELSE blocks[i - 1].next
            /\ 1 =< blocks[i].first /\ blocks[i].first =< blocks[i].last + 1
            /\ blocks[i].last < blocks[i].next /\ blocks[i].next =< Len(wire) + 1
        BY <1>2, <1>4, <4>1 DEF Tiles
      <4>. QED BY <1>3, <4>1, <4>2
    <3>. QED BY <3>1, <3>2
  <2>. QED BY <1>2, <1>3, <2>1, <2>2, <2>3 DEF Tiles
<1>9. Bounded'
  BY <1>2 DEF Bounded
<1>10. TerminatorAt(wire, last + 1, sep) /\ next = last + 1 + n
  <2>1. TerminatorAt(buf, p, sep) /\ p \in Nat \ {0}
    BY <1>3, <1>4 DEF Places
  <2>2. TerminatorAt(wire, Rest + p - 1, sep)
    BY <1>2, <2>1, BufferTerminators
  <2>3. Rest + p - 1 = last + 1 /\ next = last + 1 + n
    BY <1>3, <1>4 DEF last, next
  <2>. QED BY <2>2, <2>3
<1>11. ASSUME NEW q \in first..last, Begins(q) PROVE FALSE
  <2>1. PICK other \in Terminators : TerminatorAt(wire, q, other)
    BY <1>11 DEF Begins
  <2>. DEFINE k == q - Rest + 1
  <2>2. k \in 1..(p - 1) /\ Rest + k - 1 = q
    <3>1. \A r, x \in Nat : \A y \in r..(r + x - 2) : /\ y - r + 1 \in 1..(x - 1)
                                                     /\ r + (y - r + 1) - 1 = y
      OBVIOUS
    <3>2. Rest \in Nat /\ p \in Nat /\ q \in Rest..(Rest + p - 2)
      BY <1>3, <1>4, <1>11 DEF first, last
    <3>. QED BY <3>1, <3>2
  <2>3. k \in Nat \ {0} /\ k \in 1..Len(buf) /\ k < p
    BY <1>3, <1>4, <2>2
  <2>. HIDE DEF k
  <2>4. TerminatorAt(buf, k, other)
    BY <1>2, <2>1, <2>2, <2>3, BufferTerminators
  <2>5. k \in Places(buf, other)
    BY <1>2, <2>3, <2>4, LenProperties DEF Places, Types
  <2>6. p =< k
    BY <1>1, <2>5 DEF EndsBlock
  <2>. QED BY <1>3, <1>4, <2>3, <2>6
<1>12. BlocksByWireAlone'
  <2>. SUFFICES ASSUME NEW i \in 1..m
                PROVE  /\ \A q \in blocks'[i].first..blocks'[i].last : ~Begins(q)
                       /\ \E s \in Terminators :
                             /\ TerminatorAt(wire, blocks'[i].last + 1, s)
                             /\ blocks'[i].next = blocks'[i].last + 1 + Len(s)
    BY <1>2, <1>3 DEF BlocksByWireAlone, Begins
  <2>1. CASE i = m
    <3>1. \E s \in Terminators : /\ TerminatorAt(wire, blocks'[i].last + 1, s)
                                 /\ blocks'[i].next = blocks'[i].last + 1 + Len(s)
      BY <1>3, <1>10, <2>1 DEF n
    <3>. QED BY <1>3, <1>11, <2>1, <3>1
  <2>2. CASE i # m
    <3>1. i \in 1..Len(blocks)
      BY <1>4, <2>2 DEF m
    <3>. QED BY <1>3, <1>4, <3>1 DEF IInv, BlocksByWireAlone
  <2>. QED BY <2>1, <2>2
<1>. QED BY <1>7, <1>8, <1>9, <1>12 DEF IInv

LEMMA ReturnKeeps == ASSUME IInv, PushReturns PROVE IInv'
<1>1. /\ at = "scan" /\ at' = "idle" /\ ~Terminated(buf) /\ Len(buf) =< Limit
      /\ UNCHANGED <<buf, residue, wire, blocks>> /\ Types /\ Tiles /\ Rest' = Rest
  BY DEF PushReturns, IInv, histories, Rest
<1>2. Types' /\ Tiles' /\ Bounded'
  BY <1>1 DEF Types, Tiles, Bounded
<1>3. \A p \in Rest..Len(wire) : ~Begins(p)
  BY <1>1, NothingBegins
<1>4. BlocksByWireAlone'
  BY <1>1, <1>3 DEF IInv, BlocksByWireAlone, Begins
<1>. QED BY <1>2, <1>4 DEF IInv

LEMMA OverflowKeeps == ASSUME IInv, PushOverflows PROVE IInv'
<1>1. /\ at = "scan" /\ at' = "overflow" /\ ~Terminated(buf) /\ Len(buf) > Limit
      /\ UNCHANGED <<buf, residue, wire, blocks>> /\ Types /\ Tiles /\ Rest' = Rest
  BY DEF PushOverflows, IInv, histories, Rest
<1>2. Types' /\ Tiles' /\ Bounded'
  BY <1>1 DEF Types, Tiles, Bounded, Terminated, Places
<1>3. \A p \in Rest..Len(wire) : ~Begins(p)
  BY <1>1, NothingBegins
<1>4. BlocksByWireAlone'
  BY <1>1, <1>3 DEF IInv, BlocksByWireAlone, Begins
<1>. QED BY <1>2, <1>4 DEF IInv

LEMMA FinishKeeps == ASSUME IInv, FinishWithResidue PROVE IInv'
<1>1. /\ at = "idle" /\ at' = "closed" /\ buf' = <<>> /\ residue' \in {buf, <<>>}
      /\ UNCHANGED <<wire, blocks>> /\ Types /\ Tiles /\ Rest' = Rest
  BY DEF FinishWithResidue, IInv, histories, Rest
<1>2. buf = SubSeq(wire, Rest, Len(wire))
  BY <1>1, BufferIsRest
<1>3. Types' /\ Tiles' /\ Bounded'
  <2>1. Types'
    <3>1. <<>> \in Seq(Byte)
      OBVIOUS
    <3>. QED BY <1>1, <3>1 DEF Types
  <2>2. Tiles'
    BY <1>1, <1>2 DEF Tiles
  <2>3. Bounded'
    BY <1>1 DEF Bounded
  <2>. QED BY <2>1, <2>2, <2>3
<1>4. BlocksByWireAlone'
  BY <1>1 DEF IInv, BlocksByWireAlone, Begins
<1>. QED BY <1>3, <1>4 DEF IInv

LEMMA StepKeeps == IInv /\ [Next]_vars => IInv'
<1>. SUFFICES ASSUME IInv, [Next]_vars PROVE IInv'
  OBVIOUS
<1>1. CASE UNCHANGED vars
  BY <1>1 DEF vars, histories, IInv, Types, Tiles, Bounded, BlocksByWireAlone, Begins, Rest,
              Terminated, Places
<1>. QED BY <1>1, PushKeeps, CutBlockKeeps, ReturnKeeps, OverflowKeeps, FinishKeeps DEF Next, Dropped

(* INV-CHAT-06 to 08: for every wire and every division of it into reads,  *)
(* blocks, terminators and the buffer tile the wire.                       *)
THEOREM TilesSafe == Spec => []WireIsTiled
<1>1. IInv => WireIsTiled
  BY BufferIsRest DEF IInv, Tiles, WireIsTiled
<1>. QED BY <1>1, InitHolds, StepKeeps, PTL DEF Spec

(* DEC-CHAT-06: the blocks are those of the wire alone, for every wire     *)
(* and wherever the reads were cut.                                        *)
THEOREM BlocksSafe == Spec => []BlocksByWireAlone
<1>1. IInv => BlocksByWireAlone
  BY DEF IInv
<1>. QED BY <1>1, InitHolds, StepKeeps, PTL DEF Spec

(* INV-CHAT-06: for every limit, only a rest longer than it in which no    *)
(* frame ends overflows.                                                   *)
THEOREM OverflowSafe == Spec => []OnlyFramelessOverflows
<1>1. IInv => OnlyFramelessOverflows
  <2>. SUFFICES ASSUME IInv PROVE OnlyFramelessOverflows
    OBVIOUS
  <2>1. Rest \in 1..(Len(wire) + 1) /\ Len(wire) \in Nat
    BY RestInWire DEF IInv
  <2>2. at = "overflow" => Len(wire) - Rest + 1 = Len(buf)
    BY <2>1 DEF IInv, Tiles
  <2>. QED BY <2>2 DEF IInv, Bounded, OnlyFramelessOverflows
<1>. QED BY <1>1, InitHolds, StepKeeps, PTL DEF Spec

-----------------------------------------------------------------------------
(* The frames.                                                             *)

Gave == got \o out

(* What was handed out, and what the running push has completed, are the   *)
(* frames of the pieces in their order.                                    *)
FramesInv ==
  /\ got \in Seq(Events) /\ out \in Seq(Events)
  /\ at # "scan" => out = <<>>
  /\ Len(Gave) =< Cardinality(Framed) /\ (at # "overflow" => Len(Gave) = Cardinality(Framed))
  /\ \A i \in Framed : Rank(i) =< Len(Gave) => ParseBlock(Piece(i)) = <<Gave[Rank(i)]>>

LEMMA FramedFinite ==
  ASSUME Types
  PROVE  /\ IsFiniteSet(Framed) /\ Cardinality(Framed) \in Nat
         /\ Framed \subseteq Pieces /\ Pieces \subseteq 1..(Len(blocks) + 1) /\ Len(blocks) \in Nat
<1>1. Len(blocks) \in Nat
  BY LenProperties DEF Types
<1>2. Framed \subseteq Pieces /\ Pieces \subseteq 1..(Len(blocks) + 1)
  BY <1>1 DEF Framed, Pieces
<1>3. IsFiniteSet(1..(Len(blocks) + 1))
  BY <1>1, FS_Interval
<1>4. Framed \subseteq 1..(Len(blocks) + 1)
  BY <1>2
<1>. QED BY <1>1, <1>2, <1>3, <1>4, FS_Subset, FS_CardinalityType

LEMMA RankRange ==
  ASSUME Types, NEW i \in Framed
  PROVE  Rank(i) \in 1..Cardinality(Framed)
<1>1. IsFiniteSet(Framed) /\ Framed \subseteq 1..(Len(blocks) + 1) /\ Len(blocks) \in Nat
  BY FramedFinite
<1>. DEFINE upto == {j \in Framed : j =< i}
<1>2. upto \subseteq Framed /\ i \in upto
  BY <1>1
<1>. HIDE DEF upto
<1>3. /\ IsFiniteSet(upto) /\ Cardinality(upto) =< Cardinality(Framed)
      /\ Cardinality(upto) \in Nat /\ Cardinality(Framed) \in Nat
  BY <1>1, <1>2, FS_Subset, FS_CardinalityType
<1>4. Cardinality(upto) # 0
  BY <1>2, <1>3, FS_EmptySet
<1>5. Rank(i) = Cardinality(upto)
  BY DEF Rank, upto
<1>. QED BY <1>3, <1>4, <1>5

LEMMA GaveShape ==
  ASSUME FramesInv
  PROVE  /\ Gave \in Seq(Events) /\ Len(Gave) = Len(got) + Len(out)
         /\ Len(got) \in Nat /\ Len(out) \in Nat /\ Len(Gave) \in Nat
         /\ \A k \in 1..Len(got) : Gave[k] = got[k]
         /\ out = <<>> => Gave = got
<1>1. Len(got) \in Nat /\ Len(out) \in Nat
  BY LenProperties DEF FramesInv
<1>. QED BY <1>1, ConcatProperties, ConcatEmptySeq DEF FramesInv, Gave

(* A step that makes no piece.                                             *)
LEMMA SamePieces ==
  ASSUME Types, UNCHANGED Pieces, \A i \in Pieces : Piece(i)' = Piece(i)
  PROVE  UNCHANGED Framed /\ \A i : Rank(i)' = Rank(i)
<1>1. UNCHANGED Framed
  BY DEF Framed
<1>. QED BY <1>1 DEF Rank

(* A step that makes one piece more adds the frame of it, if it has one.   *)
LEMMA OnePieceMore ==
  ASSUME Types, FramesInv, at # "overflow", NEW b \in Seq(Byte),
         NEW m \in Nat, m = Len(blocks) + 1, Pieces = 1..Len(blocks), Pieces' = 1..m,
         \A i \in 1..Len(blocks) : Piece(i)' = Piece(i), Piece(m)' = b,
         Gave' = Gave \o ParseBlock(b)
  PROVE  /\ Len(Gave') = Cardinality(Framed')
         /\ \A i \in Framed' : ParseBlock(Piece(i)') = <<Gave'[Rank(i)']>>
<1>1. /\ IsFiniteSet(Framed) /\ Cardinality(Framed) \in Nat /\ Len(blocks) \in Nat
      /\ Framed \subseteq 1..Len(blocks) /\ m \notin Framed
      /\ Len(Gave) = Cardinality(Framed)
  BY FramedFinite DEF FramesInv
<1>2. \A i \in Framed : /\ Rank(i) \in 1..Len(Gave)
                        /\ ParseBlock(Piece(i)) = <<Gave[Rank(i)]>>
  <2>1. \A i \in Framed : Rank(i) \in 1..Len(Gave)
    BY <1>1, RankRange
  <2>2. \A r \in 1..Len(Gave) : r =< Len(Gave)
    BY <1>1
  <2>. QED BY <2>1, <2>2 DEF FramesInv
<1>3. \A i \in 1..m : i # m => i \in 1..Len(blocks)
  BY <1>1
<1>4. CASE ParseBlock(b) = <<>>
  <2>1. Framed' = Framed
    BY <1>1, <1>3, <1>4 DEF Framed
  <2>2. Gave' = Gave
    BY <1>4, GaveShape, ConcatEmptySeq
  <2>3. \A i : Rank(i)' = Rank(i)
    BY <2>1 DEF Rank
  <2>. QED BY <1>1, <1>2, <2>1, <2>2, <2>3
<1>5. ASSUME NEW ev \in Events, ParseBlock(b) = <<ev>>
      PROVE  /\ Len(Gave') = Cardinality(Framed')
             /\ \A i \in Framed' : ParseBlock(Piece(i)') = <<Gave'[Rank(i)']>>
  <2>1. Framed' = Framed \cup {m}
    <3>1. m \in 1..m
      BY <1>1
    <3>2. ParseBlock(b) # <<>>
      BY <1>5
    <3>3. \A i \in 1..Len(blocks) : i \in 1..m
      BY <1>1
    <3>4. Framed' = {i \in 1..m : ParseBlock(Piece(i)') # <<>>}
      BY DEF Framed
    <3>5. Framed = {i \in 1..Len(blocks) : ParseBlock(Piece(i)) # <<>>}
      BY DEF Framed
    <3>. QED BY <1>3, <3>1, <3>2, <3>3, <3>4, <3>5
  <2>2. Cardinality(Framed') = Cardinality(Framed) + 1
    BY <1>1, <2>1, FS_AddElement
  <2>3. Gave \in Seq(Events) /\ <<ev>> \in Seq(Events) /\ Len(<<ev>>) = 1 /\ <<ev>>[1] = ev
        /\ Gave' = Gave \o <<ev>>
    BY <1>5, GaveShape
  <2>4. /\ Len(Gave') = Len(Gave) + 1 /\ Gave'[Len(Gave) + 1] = ev
        /\ \A k \in 1..Len(Gave) : Gave'[k] = Gave[k]
    BY <1>1, <2>3, ConcatProperties
  <2>5. ASSUME NEW i \in Framed' PROVE ParseBlock(Piece(i)') = <<Gave'[Rank(i)']>>
    <3>1. CASE i = m
      <4>1. \A j \in Framed' : j =< i
        BY <1>1, <2>1, <3>1
      <4>2. {j \in Framed' : j =< i} = Framed'
        BY <4>1
      <4>3. Rank(i)' = Len(Gave) + 1
        BY <1>1, <2>2, <4>2 DEF Rank
      <4>. QED BY <1>5, <2>4, <3>1, <4>3
    <3>2. CASE i # m
      <4>1. i \in Framed /\ i \in 1..Len(blocks)
        BY <1>1, <2>1, <3>2
      <4>2. ~(m =< i)
        BY <1>1, <4>1
      <4>3. {j \in Framed' : j =< i} = {j \in Framed : j =< i}
        BY <2>1, <4>2
      <4>4. Rank(i)' = Rank(i)
        BY <4>3 DEF Rank
      <4>. QED BY <1>2, <2>4, <4>1, <4>4
    <3>. QED BY <3>1, <3>2
  <2>. QED BY <1>1, <2>2, <2>4, <2>5
<1>. QED BY <1>4, <1>5, OneFrame

(* How the end of such a step is put together.                             *)
LEMMA AllFrames ==
  ASSUME got' \in Seq(Events), out' \in Seq(Events), at' # "scan" => out' = <<>>,
         Cardinality(Framed') \in Nat, Len(Gave') = Cardinality(Framed'),
         \A i \in Framed' : ParseBlock(Piece(i)') = <<Gave'[Rank(i)']>>
  PROVE  FramesInv'
BY DEF FramesInv

LEMMA InitFrames == Init => FramesInv
<1>. SUFFICES ASSUME Init PROVE FramesInv
  OBVIOUS
<1>1. <<>> \in Seq(Events) /\ Len(<<>>) = 0 /\ <<>> \o <<>> = <<>>
  BY ConcatEmptySeq
<1>2. Gave = <<>> /\ got = <<>> /\ out = <<>> /\ Len(blocks) = 0 /\ at = "idle"
  BY <1>1 DEF Init, Gave
<1>3. Framed = {}
  BY <1>2 DEF Framed, Pieces
<1>4. Cardinality(Framed) = 0
  BY <1>3, FS_EmptySet
<1>. QED BY <1>1, <1>2, <1>3, <1>4 DEF FramesInv

LEMMA PushFrames == ASSUME IInv, FramesInv, NEW c \in Chunks, Push(c) PROVE FramesInv'
<1>1. /\ c \in Seq(Byte) /\ at = "idle" /\ at' = "scan" /\ wire' = wire \o c
      /\ UNCHANGED <<out, blocks, got>> /\ Types /\ Tiles
  BY ChunkBytes DEF Push, IInv
<1>2. UNCHANGED Pieces /\ Pieces = 1..Len(blocks)
  BY <1>1 DEF Pieces
<1>3. ASSUME NEW i \in Pieces PROVE Piece(i)' = Piece(i)
  <2>1. /\ i \in 1..Len(blocks) /\ i =< Len(blocks)
        /\ blocks[i].first \in 1..(Len(wire) + 1) /\ blocks[i].last \in (blocks[i].first - 1)..Len(wire)
    BY <1>1, <1>2, RestInWire
  <2>2. SubSeq(wire', blocks[i].first, blocks[i].last) = SubSeq(wire, blocks[i].first, blocks[i].last)
    BY <1>1, <2>1, CutJoined DEF Types
  <2>. QED BY <1>1, <2>1, <2>2 DEF Piece
<1>4. UNCHANGED Framed /\ \A i : Rank(i)' = Rank(i)
  BY <1>1, <1>2, <1>3, SamePieces
<1>5. UNCHANGED Gave
  BY <1>1 DEF Gave
<1>6. \A i \in Framed : ParseBlock(Piece(i)') = ParseBlock(Piece(i))
  BY <1>3 DEF Framed
<1>. QED BY <1>1, <1>4, <1>5, <1>6 DEF FramesInv

LEMMA CutBlockFrames == ASSUME IInv, FramesInv, CutBlock PROVE FramesInv'
<1>1. PICK sep \in Terminators : \E p \in Places(buf, sep) :
         /\ EndsBlock(p, sep) /\ Drain(p, sep) /\ out' = out \o ParseBlock(SubSeq(buf, 1, p - 1))
  BY DEF CutBlock
<1>2. PICK p \in Places(buf, sep) :
         /\ EndsBlock(p, sep) /\ Drain(p, sep) /\ out' = out \o ParseBlock(SubSeq(buf, 1, p - 1))
  BY <1>1
<1>3. at = "scan" /\ UNCHANGED <<at, wire, got>> /\ Types /\ Tiles
  BY DEF CutBlock, IInv
<1>13. PICK m \in Nat : m = Len(blocks) + 1
  BY <1>3, RestInWire
<1>. DEFINE b == SubSeq(buf, 1, p - 1)
<1>4. /\ p \in 1..Len(buf) /\ blocks' \in Seq(Block) /\ Len(blocks') = m
      /\ blocks'[m] = CutOut(p, sep)
      /\ \A i \in 1..Len(blocks) : blocks'[i] = blocks[i]
  BY <1>2, <1>3, <1>13, CutBlockShape
<1>5. /\ Rest \in 1..(Len(wire) + 1) /\ Len(wire) \in Nat /\ Len(buf) \in Nat
      /\ Len(blocks) \in Nat /\ Len(buf) = Len(wire) + 1 - Rest
      /\ \A k \in 1..Len(buf) : buf[k] = wire[Rest + k - 1]
  BY <1>3, RestInWire DEF Tiles
<1>6. /\ b \in Seq(Byte) /\ Len(b) = p - 1 /\ \A k \in 1..(p - 1) : b[k] = buf[k]
  <2>1. 1 \in 1..(Len(buf) + 1) /\ p - 1 \in (1 - 1)..Len(buf) /\ (p - 1) - 1 + 1 = p - 1
    BY <1>4, <1>5
  <2>2. \A k \in 1..(p - 1) : 1 + k - 1 = k
    BY <1>4, <1>5
  <2>. QED BY <1>3, <2>1, <2>2, Cut DEF Types
<1>7. SubSeq(wire, Rest, Rest + p - 2) = b
  <2>1. /\ Rest + p - 2 \in (Rest - 1)..Len(wire) /\ (Rest + p - 2) - Rest + 1 = p - 1
        /\ \A k \in 1..(p - 1) : k \in 1..Len(buf)
    BY <1>4, <1>5
  <2>2. /\ SubSeq(wire, Rest, Rest + p - 2) \in Seq(Byte)
        /\ Len(SubSeq(wire, Rest, Rest + p - 2)) = p - 1
        /\ \A k \in 1..(p - 1) : SubSeq(wire, Rest, Rest + p - 2)[k] = wire[Rest + k - 1]
    BY <1>3, <1>5, <2>1, Cut DEF Types
  <2>3. \A k \in 1..Len(b) : b[k] = SubSeq(wire, Rest, Rest + p - 2)[k]
    BY <1>5, <1>6, <2>1, <2>2
  <2>. QED BY <1>6, <2>2, <2>3, SeqEqual
<1>. HIDE DEF b
<1>8. Pieces = 1..Len(blocks) /\ Pieces' = 1..m
  BY <1>3, <1>4 DEF Pieces
<1>9. \A i \in 1..Len(blocks) : Piece(i)' = Piece(i)
  <2>1. \A i \in 1..Len(blocks) : i =< Len(blocks) /\ i =< Len(blocks')
    BY <1>4, <1>5, <1>13
  <2>. QED BY <1>3, <1>4, <2>1 DEF Piece
<1>10. Piece(m)' = b
  <2>1. m =< Len(blocks')
    BY <1>4, <1>5
  <2>2. Piece(m)' = SubSeq(wire, blocks'[m].first, blocks'[m].last)
    BY <1>3, <2>1 DEF Piece
  <2>. QED BY <1>4, <1>7, <2>2 DEF CutOut
<1>11. /\ out' \in Seq(Events) /\ Gave' = Gave \o ParseBlock(b)
  <2>1. ParseBlock(b) \in Seq(Events)
    BY <1>6, FrameSeq
  <2>2. out' = out \o ParseBlock(b)
    BY <1>2 DEF b
  <2>3. Gave' = got \o (out \o ParseBlock(b))
    BY <1>3, <2>2 DEF Gave
  <2>4. (got \o out) \o ParseBlock(b) = got \o (out \o ParseBlock(b))
    BY <2>1, ConcatAssociative, SMTT(30) DEF FramesInv
  <2>5. out \in Seq(Events)
    BY DEF FramesInv
  <2>6. out' \in Seq(Events)
    BY <2>1, <2>2, <2>5, ConcatProperties
  <2>. QED BY <2>3, <2>4, <2>6 DEF Gave
<1>12. /\ Len(Gave') = Cardinality(Framed')
       /\ \A i \in Framed' : ParseBlock(Piece(i)') = <<Gave'[Rank(i)']>>
  BY <1>3, <1>6, <1>8, <1>9, <1>10, <1>11, <1>13, OnePieceMore
<1>14. Cardinality(Framed') \in Nat
  <2>1. Framed' \subseteq 1..m /\ m \in Int /\ 1 \in Int
    BY <1>8 DEF Framed
  <2>2. IsFiniteSet(1..m)
    BY <2>1, FS_Interval
  <2>. QED BY <2>1, <2>2, FS_Subset, FS_CardinalityType
<1>. QED BY <1>3, <1>11, <1>12, <1>14, AllFrames DEF FramesInv

LEMMA ReturnFrames == ASSUME IInv, FramesInv, PushReturns PROVE FramesInv'
<1>1. /\ at = "scan" /\ at' = "idle" /\ got' = got \o out /\ out' = <<>>
      /\ UNCHANGED <<wire, blocks>> /\ Types
  BY DEF PushReturns, IInv, histories
<1>2. /\ UNCHANGED Pieces /\ \A i : Piece(i)' = Piece(i)
  BY <1>1 DEF Pieces, Piece, Rest
<1>3. UNCHANGED Framed /\ \A i : Rank(i)' = Rank(i)
  BY <1>1, <1>2, SamePieces
<1>4. got' \in Seq(Events) /\ out' \in Seq(Events) /\ Gave' = Gave
  <2>1. got \o out \in Seq(Events)
    BY ConcatProperties DEF FramesInv
  <2>2. Gave' = (got \o out) \o <<>>
    BY <1>1 DEF Gave
  <2>. QED BY <1>1, <2>1, <2>2, ConcatEmptySeq DEF Gave
<1>5. \A i \in Framed : ParseBlock(Piece(i)') = ParseBlock(Piece(i))
  BY <1>2
<1>. QED BY <1>1, <1>3, <1>4, <1>5 DEF FramesInv

(* What an overflow takes away is what its own push had completed.         *)
LEMMA OverflowFrames == ASSUME IInv, FramesInv, PushOverflows PROVE FramesInv'
<1>1. /\ at = "scan" /\ at' = "overflow" /\ got' = got /\ out' = <<>>
      /\ UNCHANGED <<wire, blocks>> /\ Types
  BY DEF PushOverflows, IInv, histories
<1>2. /\ UNCHANGED Pieces /\ \A i : Piece(i)' = Piece(i)
  BY <1>1 DEF Pieces, Piece, Rest
<1>3. UNCHANGED Framed /\ \A i : Rank(i)' = Rank(i)
  BY <1>1, <1>2, SamePieces
<1>4. got' \in Seq(Events) /\ out' \in Seq(Events) /\ Gave' = got
  <2>1. Gave' = got \o <<>>
    BY <1>1 DEF Gave
  <2>. QED BY <1>1, <2>1, ConcatEmptySeq DEF FramesInv
<1>5. /\ Cardinality(Framed) \in Nat /\ Len(got) \in Nat /\ Len(got) =< Len(Gave) /\ Len(Gave) \in Nat
      /\ \A k \in 1..Len(got) : Gave[k] = got[k]
  BY <1>1, GaveShape, FramedFinite
<1>6. Len(Gave') =< Cardinality(Framed')
  BY <1>3, <1>4, <1>5 DEF FramesInv
<1>7. ASSUME NEW i \in Framed, Rank(i) =< Len(got)
      PROVE  ParseBlock(Piece(i)') = <<got[Rank(i)]>>
  <2>1. Rank(i) \in 1..Len(got) /\ Rank(i) =< Len(Gave)
    BY <1>1, <1>5, <1>7, RankRange
  <2>2. ParseBlock(Piece(i)) = <<Gave[Rank(i)]>>
    BY <2>1 DEF FramesInv
  <2>. QED BY <1>2, <1>5, <2>1, <2>2
<1>. QED BY <1>1, <1>3, <1>4, <1>6, <1>7 DEF FramesInv

(* The tail is one piece more.                                             *)
LEMMA FinishFrames == ASSUME IInv, FramesInv, FinishWithResidue PROVE FramesInv'
<1>1. /\ at = "idle" /\ at' = "closed" /\ got' = got \o ParseBlock(buf)
      /\ UNCHANGED <<out, wire, blocks>> /\ Types /\ Tiles /\ out = <<>>
  BY DEF FinishWithResidue, IInv, FramesInv, histories
<1>2. PICK m \in Nat : m = Len(blocks) + 1
  BY <1>1, RestInWire
<1>3. Pieces = 1..Len(blocks) /\ Pieces' = 1..m /\ Len(blocks) \in Nat
  BY <1>1, <1>2, RestInWire DEF Pieces
<1>4. \A i \in 1..Len(blocks) : Piece(i)' = Piece(i)
  BY <1>1 DEF Piece, Rest
<1>5. Piece(m)' = buf /\ buf \in Seq(Byte)
  <2>1. ~(m =< Len(blocks))
    BY <1>2, <1>3
  <2>2. buf = SubSeq(wire, Rest, Len(wire))
    BY <1>1, BufferIsRest
  <2>3. Piece(m)' = SubSeq(wire, Rest, Len(wire))
    BY <1>1, <2>1 DEF Piece, Rest
  <2>. QED BY <1>1, <2>2, <2>3 DEF Types
<1>6. Gave' = Gave \o ParseBlock(buf) /\ got' \in Seq(Events)
  <2>1. ParseBlock(buf) \in Seq(Events)
    BY <1>5, FrameSeq
  <2>2. Gave = got /\ Gave' = got \o ParseBlock(buf) /\ got \o ParseBlock(buf) \in Seq(Events)
    BY <1>1, <2>1, ConcatProperties, ConcatEmptySeq DEF FramesInv, Gave
  <2>. QED BY <1>1, <2>2
<1>7. /\ Len(Gave') = Cardinality(Framed')
      /\ \A i \in Framed' : ParseBlock(Piece(i)') = <<Gave'[Rank(i)']>>
  BY <1>1, <1>2, <1>3, <1>4, <1>5, <1>6, OnePieceMore
<1>8. Cardinality(Framed') \in Nat
  <2>1. Framed' \subseteq 1..m /\ m \in Int /\ 1 \in Int
    BY <1>3 DEF Framed
  <2>2. IsFiniteSet(1..m)
    BY <2>1, FS_Interval
  <2>. QED BY <2>1, <2>2, FS_Subset, FS_CardinalityType
<1>9. out' \in Seq(Events) /\ out' = <<>>
  BY <1>1 DEF FramesInv
<1>. QED BY <1>1, <1>6, <1>7, <1>8, <1>9, AllFrames

LEMMA StepFrames == IInv /\ FramesInv /\ [Next]_vars => FramesInv'
<1>. SUFFICES ASSUME IInv, FramesInv, [Next]_vars PROVE FramesInv'
  OBVIOUS
<1>1. CASE UNCHANGED vars
  <2>1. UNCHANGED <<at, got, out, wire, blocks>> /\ Types
    BY <1>1 DEF vars, histories, IInv
  <2>2. UNCHANGED <<Pieces, Gave>> /\ \A i : Piece(i)' = Piece(i)
    BY <2>1 DEF Pieces, Piece, Rest, Gave
  <2>3. UNCHANGED Framed /\ \A i : Rank(i)' = Rank(i)
    BY <2>1, <2>2, SamePieces
  <2>4. \A i \in Framed : ParseBlock(Piece(i)') = ParseBlock(Piece(i))
    BY <2>2
  <2>. QED BY <2>1, <2>2, <2>3, <2>4 DEF FramesInv
<1>. QED BY <1>1, PushFrames, CutBlockFrames, ReturnFrames, OverflowFrames, FinishFrames
         DEF Next, Dropped

(* Bytes, positions and frames keep their types, for every wire.           *)
THEOREM TypeCorrect == Spec => []TypeOK
<1>1. IInv /\ FramesInv => TypeOK
  <2>. SUFFICES ASSUME IInv, FramesInv PROVE TypeOK
    OBVIOUS
  <2>1. \A i \in DOMAIN out : IsEvent(out[i])
    BY EventTypes, ElementOfSeq, LenProperties DEF FramesInv
  <2>2. \A i \in DOMAIN got : IsEvent(got[i])
    BY EventTypes, ElementOfSeq, LenProperties DEF FramesInv
  <2>. QED BY <2>1, <2>2 DEF IInv, Types, TypeOK
<1>. QED BY <1>1, InitHolds, StepKeeps, InitFrames, StepFrames, PTL DEF Spec

(* INV-CHAT-07: for every wire and every division of it into reads, what   *)
(* the driver was given are the frames of the wire, in order, once each.   *)
THEOREM FramesSafe == Spec => []FramesByWireAlone
<1>1. IInv /\ FramesInv => FramesByWireAlone
  <2>. SUFFICES ASSUME IInv, FramesInv PROVE FramesByWireAlone
    OBVIOUS
  <2>1. /\ Types /\ Cardinality(Framed) \in Nat
        /\ Len(Gave) = Len(got) + Len(out) /\ Len(got) \in Nat /\ Len(out) \in Nat
        /\ \A k \in 1..Len(got) : Gave[k] = got[k]
        /\ out = <<>> => Gave = got
    BY GaveShape, FramedFinite DEF IInv
  <2>2. ASSUME NEW i \in Framed, Rank(i) =< Len(got)
        PROVE  ParseBlock(Piece(i)) = <<got[Rank(i)]>>
    <3>1. Rank(i) \in 1..Len(got) /\ Rank(i) =< Len(Gave)
      BY <2>1, <2>2, RankRange
    <3>2. ParseBlock(Piece(i)) = <<Gave[Rank(i)]>>
      BY <3>1 DEF FramesInv
    <3>. QED BY <2>1, <3>1, <3>2
  <2>3. Len(got) =< Cardinality(Framed) /\ (at \in {"idle", "closed"} => Len(got) = Cardinality(Framed))
    BY <2>1 DEF FramesInv
  <2>. QED BY <2>2, <2>3 DEF FramesByWireAlone
<1>. QED BY <1>1, InitHolds, StepKeeps, InitFrames, StepFrames, PTL DEF Spec

=============================================================================
