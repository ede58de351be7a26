--------------------------- MODULE ProtocolProofs ---------------------------
(***************************************************************************)
(* Proofs about Protocol, for every set of values, every memory of the     *)
(* caller and any number of calls: the two sides never get out of step,    *)
(* whole values reach the table and the caller, and what a call reports is *)
(* what the server did.                                                    *)
(***************************************************************************)
EXTENDS Protocol, SequenceTheorems, TLAPS

(***************************************************************************)
(* The inductive invariant.                                                *)
(***************************************************************************)

Up(p) == pc[p] \notin {"gone", "killed"}

(* What a process may have to send: nothing, or what is left of a message  *)
(* of one chunk or two.                                                    *)
Some == Seq(Cell) \ {<< >>}
Chunks(o) ==
  \/ o = << >>
  \/ \E a \in Some : o = <<a>>
  \/ \E a, b \in Some : o = <<a, b>>
Rest(o) ==
  IF o = << >> THEN << >> ELSE IF Len(o) = 1 THEN o[1] ELSE o[1] \o o[2]

(* What p has still to take of what it was sent: what it has collected,    *)
(* what is on its way, and what its peer has not written yet.              *)
Due(p) == got[p] \o (wire[p] \o Rest(out[Peer(p)]))

(* It is m, or the start of m if the peer died while it was sending.       *)
Arriving(p, m) ==
  \E r \in Seq(Cell) : Due(p) \o r = m /\ (r = << >> \/ Peer(p) \in torn)

Stream(h, v) == Cells(h) \o Data(v)

(* What the server did is an answer to the call, and this is the answer.   *)
Answered ==
  \/ IsWrite(call) /\ did \in {<<"stored", call.value>>, <<"refused", call.value>>}
  \/ call.op = "DELETE_REQ" /\ did \in {<<"deleted", None>>, <<"missing", None>>}
  \/ call.op = "READ_REQ" /\ did = <<"missing", None>>
  \/ call.op = "READ_REQ" /\ did[1] = "read" /\ did[2] \in Values
AnswerPayload == IF did[1] = "read" THEN did[2] ELSE << >>
AnswerHeader ==
  IF did[1] = "stored" THEN Header("WRITE_RESP", 0, 0)
  ELSE IF did[1] = "refused" THEN Header("WRITE_RESP", 999, 0)
  ELSE IF did[1] = "deleted" THEN Header("DELETE_RESP", 0, 1)
  ELSE IF did[1] = "read" THEN Header("READ_RESP", 0, Len(did[2]))
  ELSE IF call.op = "READ_REQ" THEN Header("ERROR", 0, 0)
  ELSE Header("DELETE_RESP", 0, 0)

(* The server has nothing to do; it is asked; it takes the value.          *)
Unasked == pc["server"] = "header" /\ Due("server") = << >>
Asked ==
  /\ pc["server"] = "header"
  /\ Arriving("server", Stream(Request(call), Payload(call)))
Taking ==
  /\ pc["server"] = "value" /\ IsWrite(call)
  /\ msg["server"] = Request(call)
  /\ Arriving("server", Data(call.value))

ServerSide == Up("server") => Unasked \/ Asked \/ Taking

(* The client has no call; it waits for the answer; it takes the value.    *)
AtMenu == Due("client") = << >> /\ (Up("server") => Unasked)
Waiting ==
  /\ msg["client"] = Request(call)
  /\ \/ Due("client") = << >> /\ (Up("server") => Asked \/ Taking)
     \/ /\ Answered /\ Arriving("client", Stream(AnswerHeader, AnswerPayload))
        /\ Up("server") => Unasked
Reading ==
  /\ call.op = "READ_REQ" /\ did[1] = "read" /\ did[2] \in Values
  /\ msg["client"].len = Len(did[2])
  /\ Arriving("client", Data(did[2]))
  /\ Up("server") => Unasked

ClientSide ==
  /\ pc["client"] = "menu" => AtMenu
  /\ pc["client"] = "header" => Waiting
  /\ pc["client"] = "value" => Reading

(* Who is down sends nothing, and only he may have died while sending.     *)
Ends ==
  /\ \A p \in Party : Chunks(out[p]) /\ (~Up(p) => out[p] = << >>)
  /\ \A p \in Party : ~open[p] \/ p \in torn => ~Up(p)
  /\ open["client"] => Up("client")

Told == WholeItems /\ ReadsWhole /\ ChangesTold

IInv == TypeOK /\ Ends /\ ServerSide /\ ClientSide /\ Told

-----------------------------------------------------------------------------
(***************************************************************************)
(* Messages and streams.                                                   *)
(***************************************************************************)

LEMMA Tuples ==
  ASSUME NEW S, NEW a \in S, NEW b \in S
  PROVE  /\ <<a>> \in Seq(S) /\ Len(<<a>>) = 1
         /\ <<a, b>> \in Seq(S) /\ Len(<<a, b>>) = 2
OBVIOUS

LEMMA Empty ==
  /\ << >> \in Seq(Cell) /\ Len(<< >>) = 0
  /\ \A s \in Seq(Cell) : s \o << >> = s /\ << >> \o s = s
  /\ \A s, t \in Seq(Cell) : s \o t \in Seq(Cell)
  /\ \A s, t \in Seq(Cell) : s \o t = << >> <=> s = << >> /\ t = << >>
  /\ \A s \in Seq(Cell) : Len(s) = 0 <=> s = << >>
<1>1. << >> \in Seq(Cell) /\ Len(<< >>) = 0 /\ \A s \in Seq(Cell) : Len(s) = 0 <=> s = << >>
  BY EmptySeq
<1>2. \A s \in Seq(Cell) : s \o << >> = s /\ << >> \o s = s
  BY ConcatEmptySeq
<1>3. \A s, t \in Seq(Cell) : s \o t \in Seq(Cell)
  BY ConcatProperties
<1>4. \A s, t \in Seq(Cell) : s \o t = << >> <=> s = << >> /\ t = << >>
  BY ConcatEqualIffEmpty
<1> QED
  BY <1>1, <1>2, <1>3, <1>4

(* Two ways to cut one sequence at the same place.                         *)
LEMMA SameCut ==
  ASSUME NEW s \in Seq(Cell), NEW t \in Seq(Cell), NEW u \in Seq(Cell), NEW v \in Seq(Cell),
         s \o t = u \o v, Len(s) = Len(u)
  PROVE  s = u /\ t = v
<1>1. \A i \in 1 .. Len(s) : (s \o t)[i] = s[i]
  BY ConcatProperties
<1>2. \A i \in 1 .. Len(u) : (u \o v)[i] = u[i]
  BY ConcatProperties
<1>3. \A i \in 1 .. Len(s) : s[i] = u[i]
  BY <1>1, <1>2
<1>4. s = u
  BY <1>3, SeqEqual
<1>5. t = v
  BY <1>4, ConcatSimplifications
<1> QED
  BY <1>4, <1>5

LEMMA Prefix ==
  ASSUME NEW s \in Seq(Cell), NEW t \in Seq(Cell), NEW i \in 1 .. Len(s)
  PROVE  (s \o t)[i] = s[i]
BY ConcatProperties

LEMMA Associative ==
  ASSUME NEW s \in Seq(Cell), NEW t \in Seq(Cell), NEW u \in Seq(Cell)
  PROVE  (s \o t) \o u = s \o (t \o u)
BY ConcatAssociative

(* A call asks with a header that says how long its value is.              *)
LEMMA CallFacts ==
  ASSUME NEW c \in Call
  PROVE  /\ Request(c) \in Hdr
         /\ Payload(c) \in Seq(Byte)
         /\ Request(c).len = Len(Payload(c))
         /\ Request(c).type = c.op
         /\ IsWrite(c) => c.value \in Values /\ Payload(c) = c.value
         /\ ~IsWrite(c) => Payload(c) = << >> /\ c.op \in {"READ_REQ", "DELETE_REQ"}
<1>1. CASE IsWrite(c)
  <2>1. c.value \in Values /\ c.value \in Seq(Byte) /\ c.op \in {"WRITE_REQ", "WRITE_REQ_OW"}
    BY <1>1, CallAssumption DEF Call, IsWrite
  <2>2. Len(c.value) \in Nat
    BY <2>1, LenProperties
  <2> QED
    BY <1>1, <2>1, <2>2, CallAssumption DEF Request, Payload, Header, Hdr
<1>2. CASE ~IsWrite(c)
  <2>1. c.op \in {"READ_REQ", "DELETE_REQ"}
    BY <1>2 DEF Call, IsWrite
  <2>2. << >> \in Seq(Byte) /\ Len(<< >>) = 0
    BY EmptySeq
  <2> QED
    BY <1>2, <2>1, <2>2, CallAssumption DEF Request, Payload, Header, Hdr
<1> QED
  BY <1>1, <1>2

LEMMA CellsFacts ==
  ASSUME NEW h \in Hdr
  PROVE  /\ Cells(h) \in Seq(Cell) /\ Len(Cells(h)) = 3 /\ Cells(h) # << >>
         /\ \A i \in 1 .. 3 : Cells(h)[i] = Part(Field[i], h, NoByte)
<1>1. \A i \in 1 .. 3 : Part(Field[i], h, NoByte) \in Cell
  BY DEF Field, Part, Cell
<1> QED
  BY <1>1 DEF Cells

LEMMA DataFacts ==
  ASSUME NEW v \in Bytestring
  PROVE  /\ Data(v) \in Seq(Cell) /\ Len(Data(v)) = Len(v)
         /\ \A i \in 1 .. Len(v) : Data(v)[i] = Part("data", NoHeader, v[i])
         /\ v # << >> => Data(v) # << >>
         /\ \A i \in 1 .. Len(v) : Data(v)[i].name = "data" /\ Data(v)[i].byte = v[i]
<1>1. Len(v) \in Nat /\ \A i \in 1 .. Len(v) : v[i] \in Byte \cup {NoByte, Junk}
  BY LenProperties DEF Bytestring
<1>2. \A i \in 1 .. Len(v) : Part("data", NoHeader, v[i]) \in Cell
  BY <1>1 DEF Part, Cell, NoHeader, Header, Hdr
<1>3. Data(v) \in Seq(Cell) /\ Len(Data(v)) = Len(v)
  BY <1>1, <1>2 DEF Data
<1>4. v # << >> => Len(v) # 0
  BY EmptySeq
<1> QED
  BY <1>1, <1>3, <1>4, EmptySeq DEF Data, Part

LEMMA ValuesAreBytes == Values \subseteq Bytestring
<1>1. \A v \in Values : v \in Seq(Byte)
  BY CallAssumption
<1>2. \A v \in Seq(Byte) : v \in Seq(Byte \cup {NoByte, Junk})
  BY LenProperties, ElementOfSeq
<1> QED
  BY <1>1, <1>2 DEF Bytestring

LEMMA ChunksType ==
  ASSUME NEW o, Chunks(o)
  PROVE  o \in Seq(Some) /\ Len(o) \in 0 .. 2
<1>1. CASE o = << >>
  BY <1>1, EmptySeq
<1>2. ASSUME NEW a \in Some, o = <<a>>
      PROVE  o \in Seq(Some) /\ Len(o) \in 0 .. 2
  BY <1>2, Tuples
<1>3. ASSUME NEW a \in Some, NEW b \in Some, o = <<a, b>>
      PROVE  o \in Seq(Some) /\ Len(o) \in 0 .. 2
  BY <1>3, Tuples
<1> QED
  BY <1>1, <1>2, <1>3 DEF Chunks

LEMMA RestFacts ==
  /\ Rest(<< >>) = << >>
  /\ \A a \in Some : Rest(<<a>>) = a
  /\ \A a, b \in Some : Rest(<<a, b>>) = a \o b
BY DEF Rest

LEMMA RestType ==
  ASSUME NEW o, Chunks(o)
  PROVE  Rest(o) \in Seq(Cell) /\ (Rest(o) = << >> <=> o = << >>)
<1>1. CASE o = << >>
  BY <1>1, RestFacts, EmptySeq
<1>2. ASSUME NEW a \in Some, o = <<a>>
      PROVE  Rest(o) \in Seq(Cell) /\ Rest(o) # << >> /\ o # << >>
  BY <1>2, RestFacts DEF Some
<1>3. ASSUME NEW a \in Some, NEW b \in Some, o = <<a, b>>
      PROVE  Rest(o) \in Seq(Cell) /\ Rest(o) # << >> /\ o # << >>
  <2>1. a \in Seq(Cell) /\ b \in Seq(Cell) /\ a # << >>
    BY DEF Some
  <2>2. a \o b \in Seq(Cell) /\ a \o b # << >>
    BY <2>1, ConcatProperties, ConcatEqualIffEmpty
  <2> QED
    BY <1>3, <2>2, RestFacts
<1> QED
  BY <1>1, <1>2, <1>3 DEF Chunks

(* What a message is when it is put into the hands of TCPsend.             *)
LEMMA MessageFacts ==
  ASSUME NEW h \in Hdr, NEW v \in Bytestring
  PROVE  Chunks(Message(h, v)) /\ Rest(Message(h, v)) = Stream(h, v)
<1>1. Cells(h) \in Some /\ (v # << >> => Data(v) \in Some)
  BY CellsFacts, DataFacts DEF Some
<1>2. CASE v = << >>
  <2>1. Message(h, v) = <<Cells(h)>>
    BY <1>2 DEF Message
  <2>2. Data(v) = << >>
    BY <1>2, DataFacts, Empty
  <2>3. Stream(h, v) = Cells(h)
    BY <2>2, CellsFacts, Empty DEF Stream
  <2> QED
    BY <1>1, <2>1, <2>3, RestFacts DEF Chunks
<1>3. CASE v # << >>
  <2>1. Message(h, v) = <<Cells(h), Data(v)>>
    BY <1>3 DEF Message
  <2> QED
    BY <1>1, <1>3, <2>1, RestFacts DEF Chunks, Stream
<1> QED
  BY <1>2, <1>3

(* A whole header, and a whole value, in the memory they were read into.   *)
LEMMA FilledWhole ==
  ASSUME NEW h \in Hdr, NEW x \in Hdr
  PROVE  Filled(x, Cells(h)) = h
<1>1. /\ Len(Cells(h)) = 3
      /\ Cells(h)[1].of = h /\ Cells(h)[2].of = h /\ Cells(h)[3].of = h
  <2>1. \A i \in 1 .. 3 : Part(Field[i], h, NoByte).of = h
    BY DEF Part
  <2>2. \A i \in 1 .. 3 : Cells(h)[i] = Part(Field[i], h, NoByte)
    BY CellsFacts
  <2>3. \A i \in 1 .. 3 : Cells(h)[i].of = h
    BY <2>1, <2>2
  <2> QED
    BY <2>3, CellsFacts
<1>2. Filled(x, Cells(h)) = [type |-> h.type, key |-> h.key, len |-> h.len]
  BY <1>1 DEF Filled
<1> QED
  BY <1>2 DEF Hdr

LEMMA FilledNothing ==
  ASSUME NEW x \in Hdr
  PROVE  Filled(x, << >>) = x
<1>1. Filled(x, << >>) = [type |-> x.type, key |-> x.key, len |-> x.len]
  BY Empty DEF Filled
<1> QED
  BY <1>1 DEF Hdr

LEMMA BytesWhole ==
  ASSUME NEW v \in Bytestring
  PROVE  Bytes(Data(v), Len(v)) = v
<1>1. Len(Data(v)) = Len(v) /\ \A i \in 1 .. Len(v) : Data(v)[i].byte = v[i]
  BY DataFacts
<1>2. \A i \in 1 .. Len(v) : i <= Len(v)
  BY LenProperties DEF Bytestring
<1>3. Bytes(Data(v), Len(v)) = [i \in 1 .. Len(v) |-> v[i]]
  BY <1>1, <1>2 DEF Bytes
<1>4. v = [i \in 1 .. Len(v) |-> v[i]]
  BY LenProperties DEF Bytestring
<1> QED
  BY <1>3, <1>4

LEMMA BytesType ==
  ASSUME NEW s \in Seq(Cell), NEW n \in Nat
  PROVE  Bytes(s, n) \in Bytestring
<1>1. \A i \in 1 .. n : i <= Len(s) => i \in 1 .. Len(s)
  BY LenProperties
<1>2. \A i \in 1 .. n : i <= Len(s) => s[i] \in Cell
  BY <1>1, ElementOfSeq
<1>3. \A i \in 1 .. n : (IF i <= Len(s) THEN s[i].byte ELSE Junk) \in Byte \cup {NoByte, Junk}
  BY <1>2 DEF Cell
<1> QED
  BY <1>3 DEF Bytes, Bytestring

LEMMA FilledType ==
  ASSUME NEW s \in Seq(Cell), NEW x \in Hdr
  PROVE  Filled(x, s) \in Hdr
<1>0. \A i \in 1 .. Len(s) : s[i] \in Cell
  BY ElementOfSeq
<1>1. \A i \in 1 .. Len(s) : s[i].of \in Hdr
  BY <1>0 DEF Cell
<1>2. Len(s) \in Nat
  BY LenProperties
<1>3. /\ Len(s) >= 1 => 1 \in 1 .. Len(s)
      /\ Len(s) >= 2 => 2 \in 1 .. Len(s)
      /\ Len(s) >= 3 => 3 \in 1 .. Len(s)
  BY <1>2
<1> QED
  BY <1>1, <1>3 DEF Filled, Hdr

LEMMA Split ==
  ASSUME NEW c \in Seq(Cell), NEW n \in 1 .. Len(c), n # Len(c),
         NEW d, d = SubSeq(c, n + 1, Len(c))
  PROVE  /\ SubSeq(c, 1, n) \in Seq(Cell)
         /\ d \in Seq(Cell) /\ d # << >>
         /\ SubSeq(c, 1, n) \o d = c
<1>1. PICK k \in Nat : k = Len(c)
  BY LenProperties
<1>2. n \in 1 .. k /\ n + 1 <= k /\ d = SubSeq(c, n + 1, k) /\ n # k
  BY <1>1
<1>3. \A i \in 1 .. k : c[i] \in Cell
  BY <1>1, ElementOfSeq
<1>4. (\A i \in n + 1 .. k : c[i] \in Cell) /\ (\A i \in 1 .. n : c[i] \in Cell)
  BY <1>2, <1>3
<1>5. SubSeq(c, n + 1, k) \in Seq(Cell) /\ Len(SubSeq(c, n + 1, k)) = k - n
  BY <1>2, <1>4, SubSeqProperties
<1>6. SubSeq(c, 1, n) \in Seq(Cell)
  BY <1>2, <1>4, SubSeqProperties
<1>7. d # << >>
  <2>1. k - n # 0
    BY <1>2
  <2> QED
    BY <1>2, <1>5, <2>1, EmptySeq
<1>8. SubSeq(c, 1, n) \o SubSeq(c, n + 1, Len(c)) = SubSeq(c, 1, Len(c))
  <2>1. 1 \in 1 .. Len(c) + 1 /\ n \in 1 - 1 .. Len(c) /\ Len(c) \in n .. Len(c)
    BY <1>1, <1>2
  <2> QED
    BY <2>1, ConcatAdjacentSubSeq
<1>9. SubSeq(c, 1, Len(c)) = c
  BY SubSeqFull
<1> QED
  BY <1>2, <1>5, <1>6, <1>7, <1>8, <1>9

(* One write takes the first n bytes of the first chunk.                   *)
LEMMA RestTail ==
  ASSUME NEW o, Chunks(o), o # << >>
  PROVE  /\ Chunks(Tail(o)) /\ Head(o) \in Some
         /\ Head(o) \o Rest(Tail(o)) = Rest(o)
<1>1. ASSUME NEW a \in Some, o = <<a>>
      PROVE  Chunks(Tail(o)) /\ Head(o) = a /\ Head(o) \o Rest(Tail(o)) = Rest(o)
  <2>1. Tail(o) = << >> /\ Head(o) = a
    BY <1>1
  <2>2. a \in Seq(Cell)
    BY DEF Some
  <2>3. a \o << >> = a
    BY <2>2, ConcatEmptySeq
  <2> QED
    BY <1>1, <2>1, <2>3, RestFacts DEF Chunks
<1>2. ASSUME NEW a \in Some, NEW b \in Some, o = <<a, b>>
      PROVE  Chunks(Tail(o)) /\ Head(o) = a /\ Head(o) \o Rest(Tail(o)) = Rest(o)
  <2>1. Tail(o) = <<b>> /\ Head(o) = a
    BY <1>2
  <2> QED
    BY <1>2, <2>1, RestFacts DEF Chunks
<1> QED
  BY <1>1, <1>2 DEF Chunks

LEMMA RestSplit ==
  ASSUME NEW o, Chunks(o), o # << >>,
         NEW s \in Seq(Cell), NEW d \in Some, s \o d = Head(o)
  PROVE  /\ Chunks([o EXCEPT ![1] = d])
         /\ s \o Rest([o EXCEPT ![1] = d]) = Rest(o)
<1>1. ASSUME NEW a \in Some, o = <<a>>
      PROVE  /\ Chunks([o EXCEPT ![1] = d])
             /\ s \o Rest([o EXCEPT ![1] = d]) = Rest(o)
  <2>1. [o EXCEPT ![1] = d] = <<d>> /\ Head(o) = a
    BY <1>1
  <2> QED
    BY <1>1, <2>1, RestFacts DEF Chunks
<1>2. ASSUME NEW a \in Some, NEW b \in Some, o = <<a, b>>
      PROVE  /\ Chunks([o EXCEPT ![1] = d])
             /\ s \o Rest([o EXCEPT ![1] = d]) = Rest(o)
  <2>1. [o EXCEPT ![1] = d] = <<d, b>> /\ Head(o) = a
    BY <1>2
  <2>2. d \in Seq(Cell) /\ b \in Seq(Cell)
    BY DEF Some
  <2>3. s \o (d \o b) = (s \o d) \o b
    BY <2>2, Associative
  <2>4. Rest(o) = a \o b /\ Rest([o EXCEPT ![1] = d]) = d \o b
    BY <1>2, <2>1, RestFacts
  <2>5. Chunks(<<d, b>>)
    BY DEF Chunks
  <2>6. s \o d = a
    BY <2>1
  <2> QED
    BY <2>1, <2>3, <2>4, <2>5, <2>6
<1> QED
  BY <1>1, <1>2 DEF Chunks

-----------------------------------------------------------------------------
(***************************************************************************)
(* The streams, step by step.                                              *)
(***************************************************************************)

LEMMA Types ==
  ASSUME TypeOK, Ends, NEW p \in Party
  PROVE  /\ Peer(p) \in Party
         /\ got[p] \in Seq(Cell) /\ wire[p] \in Seq(Cell)
         /\ Rest(out[Peer(p)]) \in Seq(Cell)
         /\ Rest(out[Peer(p)]) = << >> <=> out[Peer(p)] = << >>
         /\ wire[p] \o Rest(out[Peer(p)]) \in Seq(Cell)
         /\ Due(p) \in Seq(Cell)
<1>1. Peer(p) \in Party
  BY DEF Party, Peer
<1>2. got[p] \in Seq(Cell) /\ wire[p] \in Seq(Cell)
  BY DEF TypeOK
<1>3. Rest(out[Peer(p)]) \in Seq(Cell) /\ (Rest(out[Peer(p)]) = << >> <=> out[Peer(p)] = << >>)
  BY <1>1, RestType DEF Ends
<1> QED
  BY <1>1, <1>2, <1>3, Empty DEF Due

(* Nothing is due if nothing was collected, nothing is on its way, and     *)
(* nothing is left to send.                                                *)
LEMMA NothingDue ==
  ASSUME TypeOK, Ends, NEW p \in Party
  PROVE  Due(p) = << >> <=> got[p] = << >> /\ wire[p] = << >> /\ out[Peer(p)] = << >>
<1>1. Due(p) = << >> <=> got[p] = << >> /\ wire[p] \o Rest(out[Peer(p)]) = << >>
  BY Types, Empty DEF Due
<1>2. wire[p] \o Rest(out[Peer(p)]) = << >> <=> wire[p] = << >> /\ Rest(out[Peer(p)]) = << >>
  BY Types, Empty
<1> QED
  BY <1>1, <1>2, Types

(* Of a stream that begins with a header, a whole header was collected.    *)
LEMMA HeaderArrived ==
  ASSUME TypeOK, Ends, NEW p \in Party, NEW h \in Hdr, NEW v \in Bytestring,
         Arriving(p, Stream(h, v)), Len(got[p]) = 3
  PROVE  /\ got[p] = Cells(h)
         /\ \E r \in Seq(Cell) : /\ (wire[p] \o Rest(out[Peer(p)])) \o r = Data(v)
                                 /\ r = << >> \/ Peer(p) \in torn
<1> DEFINE t == wire[p] \o Rest(out[Peer(p)])
<1>1. PICK r \in Seq(Cell) : Due(p) \o r = Stream(h, v) /\ (r = << >> \/ Peer(p) \in torn)
  BY DEF Arriving
<1>2. got[p] \in Seq(Cell) /\ t \in Seq(Cell) /\ Due(p) = got[p] \o t
  BY Types DEF Due
<1> HIDE DEF t
<1>3. got[p] \o (t \o r) = Cells(h) \o Data(v)
  <2>1. (got[p] \o t) \o r = got[p] \o (t \o r)
    BY <1>2, Associative
  <2> QED
    BY <1>1, <1>2, <2>1 DEF Stream
<1>4. t \o r \in Seq(Cell) /\ Cells(h) \in Seq(Cell) /\ Data(v) \in Seq(Cell) /\ Len(Cells(h)) = 3
  BY <1>2, Empty, CellsFacts, DataFacts
<1>5. got[p] = Cells(h) /\ t \o r = Data(v)
  BY <1>2, <1>3, <1>4, SameCut
<1> QED
  BY <1>1, <1>5 DEF t

(* A whole value was collected: nothing else is due.                       *)
LEMMA ValueArrived ==
  ASSUME TypeOK, Ends, NEW p \in Party, NEW v \in Bytestring,
         Arriving(p, Data(v)), Len(got[p]) = Len(v)
  PROVE  got[p] = Data(v) /\ wire[p] = << >> /\ out[Peer(p)] = << >>
<1> DEFINE t == wire[p] \o Rest(out[Peer(p)])
<1>1. PICK r \in Seq(Cell) : Due(p) \o r = Data(v)
  BY DEF Arriving
<1>2. got[p] \in Seq(Cell) /\ t \in Seq(Cell) /\ Due(p) = got[p] \o t
  BY Types DEF Due
<1> HIDE DEF t
<1>3. got[p] \o (t \o r) = Data(v) \o << >>
  <2>1. (got[p] \o t) \o r = got[p] \o (t \o r)
    BY <1>2, Associative
  <2>2. Data(v) \o << >> = Data(v)
    BY DataFacts, Empty
  <2> QED
    BY <1>1, <1>2, <2>1, <2>2
<1>4. t \o r \in Seq(Cell) /\ Data(v) \in Seq(Cell) /\ Len(Data(v)) = Len(v) /\ << >> \in Seq(Cell)
  BY <1>2, Empty, DataFacts
<1>5. got[p] = Data(v) /\ t \o r = << >>
  BY <1>2, <1>3, <1>4, SameCut
<1>6. t = << >>
  BY <1>2, <1>5, Empty
<1>7. wire[p] = << >> /\ Rest(out[Peer(p)]) = << >>
  BY <1>6, Types, Empty DEF t
<1> QED
  BY <1>5, <1>7, Types

(* The end of the connection has come, and too little was collected: the   *)
(* peer died in the middle of its message.                                 *)
LEMMA CutShort ==
  ASSUME TypeOK, Ends, NEW p \in Party, NEW m \in Seq(Cell), Arriving(p, m),
         wire[p] = << >>, out[Peer(p)] = << >>, Len(got[p]) # Len(m)
  PROVE  Peer(p) \in torn
<1>1. Due(p) = got[p] /\ got[p] \in Seq(Cell)
  <2>1. Rest(out[Peer(p)]) = << >>
    BY Types
  <2> QED
    BY <2>1, Types, Empty DEF Due
<1>2. PICK r \in Seq(Cell) : got[p] \o r = m /\ (r = << >> \/ Peer(p) \in torn)
  BY <1>1 DEF Arriving
<1>3. r # << >>
  BY <1>1, <1>2, Empty
<1> QED
  BY <1>2, <1>3

(* What was collected is the start of what arrives.                        *)
LEMMA Start ==
  ASSUME TypeOK, Ends, NEW p \in Party, NEW m \in Seq(Cell), Arriving(p, m),
         NEW i \in 1 .. Len(got[p])
  PROVE  got[p][i] = m[i]
<1> DEFINE t == wire[p] \o Rest(out[Peer(p)])
<1>1. PICK r \in Seq(Cell) : Due(p) \o r = m
  BY DEF Arriving
<1>2. got[p] \in Seq(Cell) /\ t \in Seq(Cell) /\ Due(p) = got[p] \o t
  BY Types DEF Due
<1> HIDE DEF t
<1>3. got[p] \o (t \o r) = m /\ t \o r \in Seq(Cell)
  <2>1. (got[p] \o t) \o r = got[p] \o (t \o r)
    BY <1>2, Associative
  <2> QED
    BY <1>1, <1>2, <2>1, Empty
<1> QED
  BY <1>2, <1>3, Prefix

-----------------------------------------------------------------------------
(***************************************************************************)
(* The steps that move bytes.                                              *)
(***************************************************************************)

LEMMA HeadFirst ==
  ASSUME NEW w \in Seq(Cell), w # << >>
  PROVE  /\ Head(w) \in Cell /\ Tail(w) \in Seq(Cell)
         /\ w = <<Head(w)>> \o Tail(w)
<1>1. /\ Head(w) \in Cell /\ Tail(w) \in Seq(Cell)
      /\ Len(Tail(w)) = Len(w) - 1
      /\ \A i \in 1 .. Len(Tail(w)) : Tail(w)[i] = w[i + 1]
  BY HeadTailProperties
<1>2. PICK n \in Nat : n = Len(w) /\ n # 0
  BY LenProperties, EmptySeq
<1>3. PICK x, t \in Seq(Cell) : x = <<Head(w)>> /\ t = Tail(w) /\ Len(x) = 1 /\ x[1] = w[1]
  <2>1. <<Head(w)>> \in Seq(Cell) /\ Len(<<Head(w)>>) = 1
    BY <1>1, Tuples
  <2>2. <<Head(w)>>[1] = Head(w) /\ Head(w) = w[1]
    OBVIOUS
  <2> QED
    BY <1>1, <2>1, <2>2
<1>4. x \in Seq(Cell)
  BY <1>1, <1>3
<1>5. /\ x \o t \in Seq(Cell) /\ Len(x \o t) = n
      /\ \A i \in 1 .. n : (x \o t)[i] = IF i <= 1 THEN x[i] ELSE t[i - 1]
  <2>1. Len(x) + Len(t) = n
    BY <1>1, <1>2, <1>3
  <2> QED
    BY <1>3, <1>4, <2>1, ConcatProperties
<1>6. \A i \in 1 .. n : (x \o t)[i] = w[i]
  <2> TAKE i \in 1 .. n
  <2>1. CASE i = 1
    BY <1>3, <1>5, <2>1
  <2>2. CASE i # 1
    <3>1. i - 1 \in 1 .. Len(Tail(w)) /\ (i - 1) + 1 = i
      BY <1>1, <1>2, <2>2
    <3>2. t[i - 1] = w[i]
      BY <1>1, <1>3, <3>1
    <3>3. (x \o t)[i] = t[i - 1]
      BY <1>5, <2>2
    <3> QED
      BY <3>2, <3>3
  <2> QED
    BY <2>1, <2>2
<1>7. x \o t = w
  BY <1>2, <1>5, <1>6, SeqEqual
<1> QED
  BY <1>1, <1>3, <1>7

LEMMA Parties ==
  /\ Party = {"client", "server"}
  /\ Peer("client") = "server" /\ Peer("server") = "client"
  /\ \A p \in Party : Peer(p) \in Party /\ Peer(p) # p /\ Peer(Peer(p)) = p
BY DEF Party, Peer

LEMMA PutOut ==
  ASSUME TypeOK, Ends, NEW p \in Party, NEW x, Chunks(x)
  PROVE  /\ Put(out, p, x) \in [Party -> Seq(Seq(Cell) \ {<< >>})]
         /\ \A q \in Party : Len(Put(out, p, x)[q]) \in 0 .. 2
         /\ \A q \in Party : Put(out, p, x)[q] = IF q = p THEN x ELSE out[q]
         /\ \A q \in Party : Chunks(Put(out, p, x)[q])
<1>1. x \in Seq(Some) /\ Len(x) \in 0 .. 2
  BY ChunksType
<1>2. out \in [Party -> Seq(Some)] /\ \A q \in Party : Len(out[q]) \in 0 .. 2 /\ Chunks(out[q])
  BY DEF TypeOK, Ends, Some
<1>3. \A q \in Party : Put(out, p, x)[q] = IF q = p THEN x ELSE out[q]
  BY <1>2 DEF Put
<1>4. Put(out, p, x) \in [Party -> Seq(Some)]
  BY <1>1, <1>2 DEF Put
<1>5. \A q \in Party : Len(Put(out, p, x)[q]) \in 0 .. 2
  BY <1>1, <1>2, <1>3
<1>6. \A q \in Party : Chunks(Put(out, p, x)[q])
  BY <1>2, <1>3
<1> QED
  BY <1>3, <1>4, <1>5, <1>6 DEF Some

LEMMA SameStreams ==
  ASSUME Due("server")' = Due("server"), Due("client")' = Due("client"),
         UNCHANGED <<pc, call, msg, did, torn>>
  PROVE  (ServerSide => ServerSide') /\ (ClientSide => ClientSide')
<1>1. \A m : Arriving("server", m) => Arriving("server", m)'
  BY DEF Arriving, Peer
<1>2. \A m : Arriving("client", m) => Arriving("client", m)'
  BY DEF Arriving, Peer
<1>3. UNCHANGED <<Up("server"), Answered, AnswerHeader, AnswerPayload>>
  BY DEF Up, Answered, AnswerHeader, AnswerPayload
<1>4. (Unasked => Unasked') /\ (Asked => Asked') /\ (Taking => Taking')
  BY <1>1 DEF Unasked, Asked, Taking
<1>5. (AtMenu => AtMenu') /\ (Waiting => Waiting') /\ (Reading => Reading')
  BY <1>2, <1>3, <1>4 DEF AtMenu, Waiting, Reading
<1> QED
  BY <1>3, <1>4, <1>5 DEF ServerSide, ClientSide

LEMMA SameTold ==
  ASSUME Told, UNCHANGED <<pc, call, stored, did, result, torn, calls>>
  PROVE  Told'
BY DEF Told, WholeItems, ReadsWhole, ChangesTold

LEMMA WriteStep ==
  ASSUME IInv, NEW p \in Party, Write(p)
  PROVE  IInv'
<1> DEFINE q == Peer(p)
           o == out[p]
<1>1. TypeOK /\ Ends /\ ServerSide /\ ClientSide /\ Told
  BY DEF IInv
<1>2. Chunks(o) /\ o # << >> /\ q \in Party /\ q # p /\ Peer(q) = p
  BY <1>1, Parties DEF Ends, Write
<1>3. PICK n \in 1 .. Len(Head(o)) :
        /\ wire' = Put(wire, q, wire[q] \o SubSeq(Head(o), 1, n))
        /\ out' = Put(out, p, IF n = Len(Head(o)) THEN Tail(o)
                              ELSE [o EXCEPT ![1] = SubSeq(@, n + 1, Len(@))])
  BY DEF Write
<1>4. UNCHANGED <<pc, call, msg, got, open, stored, did, result, torn, calls>>
  BY DEF Write
<1>5. Head(o) \in Some /\ Head(o) \in Seq(Cell) /\ Head(o) = o[1]
  BY <1>2, RestTail DEF Some
<1>6. PICK s, r :
        /\ s \in Seq(Cell) /\ wire' = Put(wire, q, wire[q] \o s) /\ out' = Put(out, p, r)
        /\ Chunks(r) /\ s \o Rest(r) = Rest(o)
  <2> HIDE DEF o
  <2>1. CASE n = Len(Head(o))
    <3>1. SubSeq(Head(o), 1, n) = Head(o)
      BY <1>5, <2>1, SubSeqFull
    <3> QED
      BY <1>2, <1>3, <1>5, <2>1, <3>1, RestTail
  <2>2. CASE n # Len(Head(o))
    <3>1. PICK d : d = SubSeq(Head(o), n + 1, Len(Head(o)))
      OBVIOUS
    <3>2. PICK s : s = SubSeq(Head(o), 1, n)
      OBVIOUS
    <3>3. s \in Seq(Cell) /\ d \in Some /\ s \o d = Head(o)
      BY <1>5, <2>2, <3>1, <3>2, Split DEF Some
    <3>4. out' = Put(out, p, [o EXCEPT ![1] = d]) /\ wire' = Put(wire, q, wire[q] \o s)
      BY <1>3, <1>5, <2>2, <3>1, <3>2
    <3> QED
      BY <1>2, <3>3, <3>4, RestSplit
  <2> QED
    BY <2>1, <2>2
<1>7. wire[q] \in Seq(Cell) /\ wire[p] \in Seq(Cell) /\ wire[q] \o s \in Seq(Cell)
  BY <1>1, <1>2, <1>6, Types, Empty
<1>8. wire'[q] = wire[q] \o s /\ wire'[p] = wire[p] /\ wire' \in [Party -> Seq(Cell)]
  BY <1>1, <1>2, <1>6, <1>7 DEF TypeOK, Put
<1>9. /\ out' \in [Party -> Seq(Seq(Cell) \ {<< >>})]
      /\ \A u \in Party : Len(out'[u]) \in 0 .. 2 /\ Chunks(out'[u])
      /\ out'[p] = r /\ out'[q] = out[q]
  BY <1>1, <1>2, <1>6, PutOut
<1>10. reset' \in [Party -> BOOLEAN]
  BY <1>1, <1>2 DEF Write, TypeOK, Put
<1>11. TypeOK'
  BY <1>1, <1>4, <1>8, <1>9, <1>10 DEF TypeOK, Wanted
<1>12. Ends'
  <2>1. Up(p)
    BY <1>1, <1>2 DEF Ends
  <2> QED
    BY <1>1, <1>2, <1>4, <1>9, <2>1, Parties DEF Ends, Up
<1>13. Due(q)' = Due(q)
  <2>1. Rest(r) \in Seq(Cell)
    BY <1>6, RestType
  <2>2. (wire[q] \o s) \o Rest(r) = wire[q] \o (s \o Rest(r))
    <3> HIDE DEF q
    <3> QED
      BY <1>6, <1>7, <2>1, Associative
  <2>3. (wire[q] \o s) \o Rest(r) = wire[q] \o Rest(o)
    BY <1>6, <2>2
  <2> QED
    BY <1>2, <1>4, <1>8, <1>9, <2>3 DEF Due
<1>14. Due(p)' = Due(p)
  BY <1>4, <1>8, <1>9 DEF Due
<1>15. Due("server")' = Due("server") /\ Due("client")' = Due("client")
  BY <1>2, <1>13, <1>14, Parties
<1>16. ServerSide' /\ ClientSide' /\ Told'
  BY <1>1, <1>4, <1>15, SameStreams, SameTold
<1> QED
  BY <1>11, <1>12, <1>16 DEF IInv

LEMMA ReadStep ==
  ASSUME IInv, NEW p \in Party, Read(p)
  PROVE  IInv'
<1> DEFINE w == wire[p]
           g == got[p]
<1>1. TypeOK /\ Ends /\ ServerSide /\ ClientSide /\ Told
  BY DEF IInv
<1>2. /\ w # << >> /\ Len(g) < Wanted(p) /\ pc[p] \in {"header", "value"}
      /\ got' = Put(got, p, Append(g, Head(w))) /\ wire' = Put(wire, p, Tail(w))
      /\ UNCHANGED <<pc, call, msg, out, open, reset, stored, did, result, torn, calls>>
  BY DEF Read, Receiving
<1>3. w \in Seq(Cell) /\ g \in Seq(Cell)
  BY <1>1, Types
<1>4. Head(w) \in Cell /\ Tail(w) \in Seq(Cell) /\ w = <<Head(w)>> \o Tail(w)
  BY <1>2, <1>3, HeadFirst
<1>5. <<Head(w)>> \in Seq(Cell) /\ Append(g, Head(w)) = g \o <<Head(w)>>
  BY <1>3, <1>4, AppendIsConcat
<1>6. Append(g, Head(w)) \in Seq(Cell) /\ Len(Append(g, Head(w))) = Len(g) + 1
  BY <1>3, <1>4, AppendProperties
<1>7. /\ got' \in [Party -> Seq(Cell)] /\ wire' \in [Party -> Seq(Cell)]
      /\ got'[p] = g \o <<Head(w)>> /\ wire'[p] = Tail(w)
      /\ \A q \in Party \ {p} : got'[q] = got[q] /\ wire'[q] = wire[q]
  BY <1>1, <1>2, <1>4, <1>5, <1>6 DEF TypeOK, Put
<1>8. Len(got'[p]) <= Wanted(p)
  <2>1. Wanted(p) \in Nat
    BY <1>1 DEF TypeOK, Wanted, Hdr
  <2>2. PICK n \in Nat : n = Len(g)
    BY <1>3, LenProperties
  <2>3. n + 1 <= Wanted(p)
    BY <1>2, <2>1, <2>2
  <2> QED
    BY <1>5, <1>6, <1>7, <2>2, <2>3
<1>9. TypeOK'
  <2>1. \A q \in Party : pc[q] \in {"header", "value"} => Len(got'[q]) <= Wanted(q)
    BY <1>1, <1>7, <1>8 DEF TypeOK
  <2>2. \A q \in Party : Wanted(q)' = Wanted(q)
    BY <1>2 DEF Wanted
  <2> QED
    BY <1>1, <1>2, <1>7, <2>1, <2>2 DEF TypeOK
<1>10. Ends'
  BY <1>1, <1>2 DEF Ends, Up
<1>11. Due(p)' = Due(p)
  <2> DEFINE t == Rest(out[Peer(p)])
             x == <<Head(w)>>
             y == Tail(w)
  <2>1. t \in Seq(Cell) /\ x \in Seq(Cell) /\ y \in Seq(Cell)
    BY <1>1, <1>4, <1>5, Types
  <2>2. Due(p)' = (g \o x) \o (y \o t)
    BY <1>2, <1>7 DEF Due
  <2>3. Due(p) = g \o ((x \o y) \o t)
    BY <1>4 DEF Due
  <2> HIDE DEF t, x, y, g, w
  <2>4. y \o t \in Seq(Cell) /\ (x \o y) \o t = x \o (y \o t)
    BY <2>1, Associative, Empty
  <2>5. (g \o x) \o (y \o t) = g \o (x \o (y \o t))
    BY <1>3, <2>1, <2>4, Associative
  <2> QED
    BY <2>2, <2>3, <2>4, <2>5
<1>12. \A q \in Party \ {p} : Due(q)' = Due(q)
  BY <1>2, <1>7 DEF Due
<1>13. Due("server")' = Due("server") /\ Due("client")' = Due("client")
  BY <1>11, <1>12, Parties
<1>14. ServerSide' /\ ClientSide' /\ Told'
  BY <1>1, <1>2, <1>13, SameStreams, SameTold
<1> QED
  BY <1>9, <1>10, <1>14 DEF IInv

-----------------------------------------------------------------------------
(***************************************************************************)
(* The end of a process.                                                   *)
(***************************************************************************)

LEMMA ToldKept ==
  ASSUME Told, UNCHANGED <<call, stored, did, result, calls>>, torn \subseteq torn',
         pc'["client"] = "menu" => pc["client"] = "menu"
  PROVE  Told'
BY DEF Told, WholeItems, ReadsWhole, ChangesTold, IsWrite

(* What its peer had from it, and what it still gets.                      *)
LEMMA LastWords ==
  ASSUME TypeOK, Ends, NEW p \in Party, NEW q, q = Peer(p),
         out'[p] = << >>, got'[q] = got[q], wire'[q] = wire[q],
         out[p] = << >> \/ p \in torn', torn \subseteq torn'
  PROVE  /\ Due(q) = << >> => Due(q)' = << >>
         /\ \A m : Arriving(q, m) => Arriving(q, m)'
<1>1. q \in Party /\ Peer(q) = p
  BY Parties
<1>2. PICK g, w, t \in Seq(Cell) : g = got[q] /\ w = wire[q] /\ t = Rest(out[p])
  BY <1>1, Types
<1>3. Due(q) = g \o (w \o t) /\ (out[p] = << >> => t = << >>)
  BY <1>1, <1>2, RestFacts DEF Due
<1>4. Due(q)' = g \o w
  <2>1. Due(q)' = g \o (w \o << >>)
    BY <1>1, <1>2, RestFacts DEF Due
  <2> QED
    BY <1>2, <2>1, Empty
<1>5. Due(q) = Due(q)' \o t
  <2>1. g \in Seq(Cell) /\ w \in Seq(Cell) /\ t \in Seq(Cell)
    BY <1>2
  <2>2. (g \o w) \o t = g \o (w \o t)
    BY <2>1, Associative
  <2> QED
    BY <1>3, <1>4, <2>2
<1>6. Due(q)' \in Seq(Cell)
  BY <1>2, <1>4, Empty
<1>7. Due(q) = << >> => Due(q)' = << >>
  BY <1>2, <1>5, <1>6, Empty
<1>8. ASSUME NEW m, Arriving(q, m)
      PROVE  Arriving(q, m)'
  <2>1. PICK r \in Seq(Cell) : Due(q) \o r = m /\ (r = << >> \/ p \in torn)
    BY <1>1, <1>8 DEF Arriving
  <2>2. Due(q)' \o (t \o r) = m
    <3>1. PICK d \in Seq(Cell) : d = Due(q)'
      BY <1>6
    <3>2. (d \o t) \o r = d \o (t \o r)
      <4>1. t \in Seq(Cell)
        BY <1>2
      <4> QED
        BY <4>1, Associative
    <3> QED
      BY <1>5, <2>1, <3>1, <3>2
  <2>3. t \o r \in Seq(Cell) /\ (t \o r = << >> \/ p \in torn')
    BY <1>2, <1>3, <2>1, Empty
  <2> QED
    BY <1>1, <2>2, <2>3 DEF Arriving
<1> QED
  BY <1>7, <1>8

LEMMA ShutStep ==
  ASSUME IInv, NEW p \in Party, NEW label \in {"gone", "killed"}, Shut(p, label),
         UNCHANGED <<call, msg, reset, stored, did, result, calls>>,
         torn' \in {torn, torn \cup {p}},
         out[p] = << >> \/ p \in torn' \/ ~Up(Peer(p))
  PROVE  IInv'
<1> DEFINE q == Peer(p)
<1>1. TypeOK /\ Ends /\ ServerSide /\ ClientSide /\ Told
  BY DEF IInv
<1>2. q \in Party /\ q # p /\ Peer(q) = p /\ Party = {p, q}
  BY Parties
<1>3. Chunks(<< >>) /\ << >> \in Seq(Cell)
  BY Empty DEF Chunks
<1>4. /\ pc'[p] = label /\ pc'[q] = pc[q] /\ open'[p] = FALSE /\ open'[q] = open[q]
      /\ out'[p] = << >> /\ out'[q] = out[q]
      /\ got'[p] = << >> /\ got'[q] = got[q] /\ wire'[p] = << >> /\ wire'[q] = wire[q]
  BY <1>1, <1>2 DEF Shut, Put, TypeOK
<1>5. /\ pc' \in [Party -> {"menu", "header", "value", "gone", "killed"}]
      /\ open' \in [Party -> BOOLEAN]
      /\ got' \in [Party -> Seq(Cell)] /\ wire' \in [Party -> Seq(Cell)]
  BY <1>1, <1>3 DEF Shut, Put, TypeOK
<1>6. /\ out' \in [Party -> Seq(Seq(Cell) \ {<< >>})]
      /\ \A u \in Party : Len(out'[u]) \in 0 .. 2 /\ Chunks(out'[u])
  BY <1>1, <1>3, PutOut DEF Shut
<1>7. TypeOK'
  <2>1. \A u \in Party : pc'[u] \in {"header", "value"} => Len(got'[u]) <= Wanted(u)'
    BY <1>1, <1>2, <1>4 DEF TypeOK, Wanted
  <2>2. pc'["server"] # "menu" /\ torn' \subseteq Party
    BY <1>1, <1>2, <1>4, Parties DEF TypeOK
  <2> QED
    BY <1>1, <1>5, <1>6, <2>1, <2>2 DEF TypeOK
<1>8. Ends'
  BY <1>1, <1>2, <1>4, <1>6, Parties DEF Ends, Up
<1>9. Told'
  BY <1>1, <1>2, <1>4, ToldKept, Parties
<1>10. ~Up(p)' /\ (Up(q)' <=> Up(q))
  BY <1>4 DEF Up
<1>11. CASE ~Up(q)
  BY <1>2, <1>7, <1>8, <1>9, <1>10, <1>11, Parties DEF IInv, ServerSide, ClientSide, Up
<1>12. CASE Up(q)
  <2>1. (Due(q) = << >> => Due(q)' = << >>) /\ \A m : Arriving(q, m) => Arriving(q, m)'
    BY <1>1, <1>2, <1>4, <1>12, LastWords
  <2>2. CASE p = "client"
    <3>1. (Unasked => Unasked') /\ (Asked => Asked') /\ (Taking => Taking')
      BY <1>4, <2>1, <2>2, Parties DEF Unasked, Asked, Taking
    <3> QED
      BY <1>1, <1>7, <1>8, <1>9, <1>10, <1>12, <2>2, <3>1, Parties
      DEF IInv, ServerSide, ClientSide, Up
  <2>3. CASE p = "server"
    <3>1. UNCHANGED <<Answered, AnswerHeader, AnswerPayload>>
      BY DEF Answered, AnswerHeader, AnswerPayload
    <3>2. (AtMenu => AtMenu') /\ (Waiting => Waiting') /\ (Reading => Reading')
      BY <1>10, <2>1, <2>3, <3>1, Parties DEF AtMenu, Waiting, Reading
    <3> QED
      BY <1>1, <1>4, <1>7, <1>8, <1>9, <1>10, <2>3, <3>2, Parties
      DEF IInv, ServerSide, ClientSide
  <2> QED
    BY <2>2, <2>3, Parties
<1> QED
  BY <1>11, <1>12

LEMMA DieStep ==
  ASSUME IInv, NEW p \in Party, Die(p)
  PROVE  IInv'
BY ShutStep DEF Die

(* Who writes to a closed end writes to a process that is down.            *)
LEMMA SigPipeStep ==
  ASSUME IInv, NEW p \in Party, SigPipe(p)
  PROVE  IInv'
<1>1. ~Up(Peer(p))
  BY Parties DEF IInv, Ends, SigPipe
<1> QED
  BY <1>1, ShutStep DEF SigPipe

LEMMA ServerClosesStep ==
  ASSUME IInv, ServerCloses
  PROVE  IInv'
<1>1. ~Up(Peer("server")) /\ "server" \in Party
  BY Parties DEF IInv, Ends, ServerCloses, Closed
<1> QED
  BY <1>1, ShutStep DEF ServerCloses

(* The thread returns after its client is down.                            *)
LEMMA ServerGivesUpStep ==
  ASSUME IInv, ServerGivesUp
  PROVE  IInv'
<1>1. TypeOK /\ Ends /\ Told
  BY DEF IInv
<1>2. ~Up("client") /\ pc' = Put(pc, "server", "gone") /\ out' = Put(out, "server", << >>)
  BY <1>1, Parties DEF Ends, ServerGivesUp
<1>3. /\ pc' \in [Party -> {"menu", "header", "value", "gone", "killed"}]
      /\ pc'["server"] = "gone" /\ pc'["client"] = pc["client"]
  BY <1>1, <1>2, Parties DEF TypeOK, Put
<1>4. Chunks(<< >>)
  BY DEF Chunks
<1>5. /\ out' \in [Party -> Seq(Seq(Cell) \ {<< >>})]
      /\ \A u \in Party : Len(out'[u]) \in 0 .. 2 /\ Chunks(out'[u])
      /\ out'["server"] = << >> /\ out'["client"] = out["client"]
  BY <1>1, <1>2, <1>4, PutOut, Parties
<1>6. UNCHANGED <<call, msg, got, wire, open, reset, stored, did, result, torn, calls>>
  BY DEF ServerGivesUp
<1>7. TypeOK'
  BY <1>1, <1>2, <1>3, <1>5, <1>6, Parties DEF TypeOK, Wanted, Up
<1>8. Ends'
  BY <1>1, <1>2, <1>3, <1>5, <1>6, Parties DEF Ends, Up
<1>9. Told'
  BY <1>1, <1>3, <1>6, ToldKept
<1> QED
  BY <1>2, <1>3, <1>7, <1>8, <1>9 DEF IInv, ServerSide, ClientSide, Up

(* Another connection writes whole values.                                 *)
LEMMA OthersStep ==
  ASSUME IInv, Others
  PROVE  IInv'
<1>1. /\ stored' \in Values \cup {None}
      /\ UNCHANGED <<pc, call, msg, got, out, wire, open, reset, did, result, torn, calls>>
  BY DEF Others
<1>2. Values \subseteq Bytestring
  BY ValuesAreBytes
<1>3. TypeOK'
  BY <1>1, <1>2 DEF IInv, TypeOK, Wanted
<1>4. Ends'
  BY <1>1 DEF IInv, Ends, Up
<1>5. Due("server")' = Due("server") /\ Due("client")' = Due("client")
  BY <1>1 DEF Due
<1>6. ServerSide' /\ ClientSide'
  BY <1>1, <1>5, SameStreams DEF IInv
<1>7. Told'
  BY <1>1 DEF IInv, Told, WholeItems, ReadsWhole, ChangesTold
<1> QED
  BY <1>3, <1>4, <1>6, <1>7 DEF IInv

-----------------------------------------------------------------------------
(***************************************************************************)
(* The server.                                                             *)
(***************************************************************************)

LEMMA EmptyData == Data(<< >>) = << >> /\ << >> \in Bytestring
<1>1. << >> \in Bytestring /\ Len(<< >>) = 0
  BY EmptySeq DEF Bytestring
<1>2. Data(<< >>) \in Seq(Cell) /\ Len(Data(<< >>)) = 0
  BY <1>1, DataFacts
<1> QED
  BY <1>1, <1>2, Empty

(* While the server works on a request, the client waits for the answer,   *)
(* of which there is nothing yet.                                          *)
LEMMA ClientWaits ==
  ASSUME IInv, Up("server"), ~Unasked, Up("client")
  PROVE  /\ pc["client"] = "header" /\ msg["client"] = Request(call)
         /\ Due("client") = << >>
<1>1. pc["client"] \in {"menu", "header", "value"}
  BY Parties DEF IInv, TypeOK, Up
<1>2. pc["client"] # "menu" /\ pc["client"] # "value"
  BY DEF IInv, ClientSide, AtMenu, Reading
<1> QED
  BY <1>1, <1>2 DEF IInv, ClientSide, Waiting

(* The server's answer: a header h and a payload v.                        *)
LEMMA Replies ==
  ASSUME IInv, Up("server"), ~Unasked, wire["server"] = << >>, out["client"] = << >>,
         NEW h \in Hdr, NEW v \in Bytestring,
         out' = Put(out, "server", Message(h, v)),
         did' \in {"none", "stored", "refused", "read", "missing", "deleted"}
                    \X (Bytestring \cup {None}),
         pc' = Put(pc, "server", "header"),
         msg' \in [Party -> Hdr], msg'["client"] = msg["client"],
         got' = Put(got, "server", << >>),
         stored' \in Bytestring \cup {None}, WholeItems',
         UNCHANGED <<call, wire, open, reset, result, torn, calls>>,
         Up("client") => /\ Answered'
                         /\ AnswerHeader' = h /\ AnswerPayload' = v
  PROVE  IInv'
<1>1. TypeOK /\ Ends /\ Told
  BY DEF IInv
<1>2. << >> \in Seq(Cell) /\ Len(<< >>) = 0
  BY Empty
<1>3. /\ pc' \in [Party -> {"menu", "header", "value", "gone", "killed"}]
      /\ pc'["server"] = "header" /\ pc'["client"] = pc["client"]
      /\ got' \in [Party -> Seq(Cell)]
      /\ got'["server"] = << >> /\ got'["client"] = got["client"]
  BY <1>1, <1>2, Parties DEF TypeOK, Put
<1>4. /\ out' \in [Party -> Seq(Seq(Cell) \ {<< >>})]
      /\ \A u \in Party : Len(out'[u]) \in 0 .. 2 /\ Chunks(out'[u])
      /\ out'["server"] = Message(h, v) /\ out'["client"] = << >>
  BY <1>1, MessageFacts, PutOut, Parties
<1>5. TypeOK'
  <2>1. Len(got'["server"]) <= Wanted("server")'
    BY <1>2, <1>3 DEF Wanted
  <2>2. pc'["client"] \in {"header", "value"} => Len(got'["client"]) <= Wanted("client")'
    BY <1>1, <1>3, Parties DEF TypeOK, Wanted
  <2> QED
    BY <1>1, <1>3, <1>4, <2>1, <2>2, Parties DEF TypeOK
<1>6. Ends'
  BY <1>1, <1>3, <1>4, Parties DEF Ends, Up
<1>7. pc["client"] # "menu"
  BY ClientWaits DEF Up
<1>8. Told'
  BY <1>3, <1>7 DEF Told, ReadsWhole, ChangesTold
<1>9. Unasked'
  <2>1. Due("server")' = << >> \o (<< >> \o << >>)
    BY <1>3, <1>4, RestFacts, Parties DEF Due
  <2> QED
    BY <1>2, <1>3, <2>1, Empty DEF Unasked
<1>10. ASSUME Up("client")
       PROVE  Arriving("client", Stream(h, v))'
  <2>1. got["client"] = << >> /\ wire["client"] = << >>
    BY <1>1, <1>10, ClientWaits, NothingDue, Parties
  <2>2. Due("client")' = << >> \o (<< >> \o Stream(h, v))
    <3>1. Rest(Message(h, v)) = Stream(h, v)
      BY MessageFacts
    <3>2. wire'["client"] = << >> /\ got'["client"] = << >>
      BY <1>3, <2>1
    <3>3. Rest(out'["server"]) = Stream(h, v)
      BY <1>4, <3>1
    <3> QED
      BY <3>2, <3>3, Parties DEF Due
  <2>3. Stream(h, v) \in Seq(Cell)
    BY CellsFacts, DataFacts, Empty DEF Stream
  <2>4. Due("client")' \o << >> = Stream(h, v)
    BY <2>2, <2>3, Empty
  <2> QED
    BY <1>2, <2>4 DEF Arriving
<1>11. ClientSide'
  <2>1. CASE Up("client")
    <3>1. Waiting'
      BY <1>9, <1>10, <2>1, ClientWaits DEF Waiting
    <3> QED
      BY <1>3, <2>1, <3>1, ClientWaits DEF ClientSide
  <2>2. CASE ~Up("client")
    BY <1>3, <2>2 DEF ClientSide, Up
  <2> QED
    BY <2>1, <2>2
<1> QED
  BY <1>5, <1>6, <1>8, <1>9, <1>11 DEF IInv, ServerSide

(* A whole header has been received: it is that of the call, and behind it *)
(* comes the call's value.                                                 *)
LEMMA RequestArrived ==
  ASSUME IInv, pc["server"] = "header", Received("server")
  PROVE  /\ Up("server") /\ ~Unasked
         /\ Filled(msg["server"], got["server"]) = Request(call)
         /\ \E r \in Seq(Cell) :
              /\ (wire["server"] \o Rest(out["client"])) \o r = Data(Payload(call))
              /\ r = << >> \/ "client" \in torn
<1>1. TypeOK /\ Ends /\ "server" \in Party /\ Peer("server") = "client"
  BY Parties DEF IInv
<1>2. Len(got["server"]) = 3 /\ got["server"] # << >>
  BY Empty DEF Received, Wanted
<1>3. Up("server") /\ ~Unasked
  BY <1>1, <1>2, NothingDue DEF Up, Unasked
<1>4. Arriving("server", Stream(Request(call), Payload(call)))
  BY <1>3 DEF IInv, ServerSide, Asked, Taking
<1>5. Request(call) \in Hdr /\ Payload(call) \in Bytestring
  <2>1. call \in Call
    BY <1>1 DEF TypeOK
  <2>2. CASE IsWrite(call)
    BY <2>1, <2>2, CallFacts, ValuesAreBytes
  <2>3. CASE ~IsWrite(call)
    BY <2>1, <2>3, CallFacts, EmptyData
  <2> QED
    BY <2>2, <2>3
<1>6. /\ got["server"] = Cells(Request(call))
      /\ \E r \in Seq(Cell) :
           /\ (wire["server"] \o Rest(out["client"])) \o r = Data(Payload(call))
           /\ r = << >> \/ "client" \in torn
  BY <1>1, <1>2, <1>4, <1>5, HeaderArrived
<1>7. msg["server"] \in Hdr
  BY <1>1 DEF TypeOK
<1> QED
  BY <1>3, <1>5, <1>6, <1>7, FilledWhole

(* Behind a header without a value comes nothing.                          *)
LEMMA NothingBehind ==
  ASSUME TypeOK, Ends, NEW p \in Party,
         \E r \in Seq(Cell) : (wire[p] \o Rest(out[Peer(p)])) \o r = << >>
  PROVE  wire[p] = << >> /\ out[Peer(p)] = << >>
<1>1. wire[p] \o Rest(out[Peer(p)]) = << >>
  BY Types, Empty
<1>2. wire[p] = << >> /\ Rest(out[Peer(p)]) = << >>
  BY <1>1, Types, Empty
<1> QED
  BY <1>2, Types

LEMMA TakesWrite ==
  ASSUME IInv, process_psiskv_prequest, pc' = Put(pc, "server", "value"),
         Filled(msg["server"], got["server"]).type \in {"WRITE_REQ", "WRITE_REQ_OW"},
         UNCHANGED <<out, did, stored>>
  PROVE  IInv'
<1>1. TypeOK /\ Ends /\ Told
  BY DEF IInv
<1>2. /\ pc["server"] = "header" /\ Received("server")
      /\ msg' = Put(msg, "server", Request(call)) /\ got' = Put(got, "server", << >>)
      /\ UNCHANGED <<call, wire, open, reset, result, torn, calls>>
  BY RequestArrived DEF process_psiskv_prequest
<1>3. /\ Up("server") /\ ~Unasked
      /\ Filled(msg["server"], got["server"]) = Request(call)
  BY <1>2, RequestArrived
<1>4. PICK r \in Seq(Cell) :
        /\ (wire["server"] \o Rest(out["client"])) \o r = Data(Payload(call))
        /\ r = << >> \/ "client" \in torn
  BY <1>2, RequestArrived
<1>5. call \in Call /\ Request(call) \in Hdr /\ Request(call).type = call.op
  BY <1>1, CallFacts DEF TypeOK
<1>6. IsWrite(call) /\ Payload(call) = call.value
  <2>1. IsWrite(call)
    BY <1>3, <1>5 DEF IsWrite
  <2> QED
    BY <2>1, <1>5, CallFacts
<1>7. << >> \in Seq(Cell) /\ Len(<< >>) = 0
  BY Empty
<1>8. /\ pc' \in [Party -> {"menu", "header", "value", "gone", "killed"}]
      /\ pc'["server"] = "value" /\ pc'["client"] = pc["client"]
      /\ got' \in [Party -> Seq(Cell)]
      /\ got'["server"] = << >> /\ got'["client"] = got["client"]
      /\ msg' \in [Party -> Hdr]
      /\ msg'["server"] = Request(call) /\ msg'["client"] = msg["client"]
  BY <1>1, <1>2, <1>5, <1>7, Parties DEF TypeOK, Put
<1>9. TypeOK'
  <2>1. Wanted("server")' \in Nat /\ Len(got'["server"]) = 0
    BY <1>5, <1>7, <1>8 DEF Wanted, Hdr
  <2>2. Len(got'["server"]) <= Wanted("server")'
    BY <2>1
  <2>3. pc'["client"] \in {"header", "value"} => Len(got'["client"]) <= Wanted("client")'
    BY <1>1, <1>8, Parties DEF TypeOK, Wanted
  <2> QED
    BY <1>1, <1>2, <1>8, <2>2, <2>3, Parties DEF TypeOK
<1>10. Ends'
  BY <1>1, <1>2, <1>8, Parties DEF Ends, Up
<1>11. Told'
  BY <1>1, <1>2, <1>8, ToldKept
<1>12. Taking'
  <2>1. Due("server")' = wire["server"] \o Rest(out["client"])
    <3>1. Due("server")' = << >> \o (wire["server"] \o Rest(out["client"]))
      BY <1>2, <1>8, Parties DEF Due
    <3>2. PICK t \in Seq(Cell) : t = wire["server"] \o Rest(out["client"])
      BY <1>1, Types, Parties
    <3> QED
      BY <3>1, <3>2, Empty
  <2>2. Arriving("server", Data(call.value))'
    BY <1>2, <1>4, <1>6, <2>1, Parties DEF Arriving
  <2> QED
    BY <1>2, <1>6, <1>8, <2>2 DEF Taking, IsWrite, Request, Header
<1>13. ClientSide'
  <2>1. CASE Up("client")
    <3>1. Due("client")' = Due("client")
      BY <1>2, <1>8, Parties DEF Due
    <3> QED
      BY <1>2, <1>3, <1>8, <1>12, <2>1, <3>1, ClientWaits DEF ClientSide, Waiting, Request, Header, IsWrite
  <2>2. CASE ~Up("client")
    BY <1>8, <2>2 DEF ClientSide, Up
  <2> QED
    BY <2>1, <2>2
<1> QED
  BY <1>9, <1>10, <1>11, <1>12, <1>13 DEF IInv, ServerSide

LEMMA SendsItem ==
  ASSUME IInv, process_psiskv_prequest, SendItem,
         Filled(msg["server"], got["server"]).type = "READ_REQ"
  PROVE  IInv'
<1>1. TypeOK /\ Ends /\ Told /\ "server" \in Party /\ Peer("server") = "client"
  BY Parties DEF IInv
<1>2. /\ pc["server"] = "header" /\ Received("server")
      /\ msg' = Put(msg, "server", Request(call)) /\ got' = Put(got, "server", << >>)
      /\ UNCHANGED <<call, wire, open, reset, result, torn, calls>>
  BY RequestArrived DEF process_psiskv_prequest
<1>3. /\ Up("server") /\ ~Unasked
      /\ Filled(msg["server"], got["server"]) = Request(call)
  BY <1>2, RequestArrived
<1>4. call \in Call /\ Request(call) \in Hdr /\ Request(call).type = call.op
  BY <1>1, CallFacts DEF TypeOK
<1>5. call.op = "READ_REQ" /\ ~IsWrite(call) /\ Payload(call) = << >>
  <2>1. call.op = "READ_REQ"
    BY <1>3, <1>4
  <2> QED
    BY <1>4, <2>1, CallFacts DEF IsWrite
<1>6. wire["server"] = << >> /\ out["client"] = << >>
  <2>1. \E r \in Seq(Cell) : (wire["server"] \o Rest(out["client"])) \o r = << >>
    BY <1>2, <1>5, RequestArrived, EmptyData
  <2> QED
    BY <1>1, <2>1, NothingBehind
<1>7. msg' \in [Party -> Hdr] /\ msg'["client"] = msg["client"]
  BY <1>1, <1>2, <1>4, Parties DEF TypeOK, Put
<1>8. UNCHANGED stored /\ stored \in Bytestring \cup {None} /\ WholeItems'
  BY <1>1, <1>2 DEF SendItem, TypeOK, Told, WholeItems
<1>9. CASE stored = None
  <2>1. /\ out' = Put(out, "server", Message(Header("ERROR", 0, 0), << >>))
        /\ did' = <<"missing", None>> /\ pc' = Put(pc, "server", "header")
    BY <1>9 DEF SendItem, Answer
  <2>2. Header("ERROR", 0, 0) \in Hdr
    BY DEF Header, Hdr
  <2>3. Answered' /\ AnswerHeader' = Header("ERROR", 0, 0) /\ AnswerPayload' = << >>
    BY <1>2, <1>5, <2>1 DEF Answered, AnswerHeader, AnswerPayload
  <2> QED
    BY <1>2, <1>3, <1>6, <1>7, <1>8, <2>1, <2>2, <2>3, EmptyData, Replies
<1>10. CASE stored # None
  <2>1. /\ out' = Put(out, "server", Message(Header("READ_RESP", 0, Len(stored)), stored))
        /\ did' = <<"read", stored>> /\ pc' = Put(pc, "server", "header")
    BY <1>10 DEF SendItem, Answer
  <2>2. stored \in Bytestring /\ Header("READ_RESP", 0, Len(stored)) \in Hdr
    <3>1. stored \in Bytestring /\ Len(stored) \in Nat
      BY <1>8, <1>10, LenProperties DEF Bytestring
    <3> QED
      BY <3>1 DEF Header, Hdr
  <2>3. ASSUME Up("client")
        PROVE  Answered'
    <3>1. stored \in Values
      BY <1>1, <1>10, <2>3, Parties DEF Told, WholeItems, Ends
    <3> QED
      BY <1>2, <1>5, <2>1, <3>1 DEF Answered
  <2>4. AnswerHeader' = Header("READ_RESP", 0, Len(stored)) /\ AnswerPayload' = stored
    BY <2>1 DEF AnswerHeader, AnswerPayload
  <2> QED
    BY <1>2, <1>3, <1>6, <1>7, <1>8, <2>1, <2>2, <2>3, <2>4, Replies
<1> QED
  BY <1>9, <1>10

LEMMA Deletes ==
  ASSUME IInv, process_psiskv_prequest, Delete,
         Filled(msg["server"], got["server"]).type = "DELETE_REQ"
  PROVE  IInv'
<1>1. TypeOK /\ Ends /\ Told /\ "server" \in Party /\ Peer("server") = "client"
  BY Parties DEF IInv
<1>2. /\ pc["server"] = "header" /\ Received("server")
      /\ msg' = Put(msg, "server", Request(call)) /\ got' = Put(got, "server", << >>)
      /\ UNCHANGED <<call, wire, open, reset, result, torn, calls>>
  BY RequestArrived DEF process_psiskv_prequest
<1>3. /\ Up("server") /\ ~Unasked
      /\ Filled(msg["server"], got["server"]) = Request(call)
  BY <1>2, RequestArrived
<1>4. call \in Call /\ Request(call) \in Hdr /\ Request(call).type = call.op
  BY <1>1, CallFacts DEF TypeOK
<1>5. call.op = "DELETE_REQ" /\ ~IsWrite(call) /\ Payload(call) = << >>
  <2>1. call.op = "DELETE_REQ"
    BY <1>3, <1>4
  <2> QED
    BY <1>4, <2>1, CallFacts DEF IsWrite
<1>6. wire["server"] = << >> /\ out["client"] = << >>
  <2>1. \E r \in Seq(Cell) : (wire["server"] \o Rest(out["client"])) \o r = << >>
    BY <1>2, <1>5, RequestArrived, EmptyData
  <2> QED
    BY <1>1, <2>1, NothingBehind
<1>7. msg' \in [Party -> Hdr] /\ msg'["client"] = msg["client"]
  BY <1>1, <1>2, <1>4, Parties DEF TypeOK, Put
<1>8. stored' \in Bytestring \cup {None} /\ WholeItems'
  BY DEF Delete, WholeItems
<1>9. PICK n \in {0, 1}, what \in {"missing", "deleted"} :
        /\ what = IF n = 0 THEN "missing" ELSE "deleted"
        /\ out' = Put(out, "server", Message(Header("DELETE_RESP", 0, n), << >>))
        /\ did' = <<what, None>> /\ pc' = Put(pc, "server", "header")
  <2>1. CASE stored = None
    BY <2>1 DEF Delete, Answer
  <2>2. CASE stored # None
    BY <2>2 DEF Delete, Answer
  <2> QED
    BY <2>1, <2>2
<1>10. Header("DELETE_RESP", 0, n) \in Hdr
  BY DEF Header, Hdr
<1>11. Answered' /\ AnswerHeader' = Header("DELETE_RESP", 0, n) /\ AnswerPayload' = << >>
  BY <1>2, <1>5, <1>9 DEF Answered, AnswerHeader, AnswerPayload
<1> QED
  BY <1>2, <1>3, <1>6, <1>7, <1>8, <1>9, <1>10, <1>11, EmptyData, Replies

LEMMA RequestStep ==
  ASSUME IInv, process_psiskv_prequest
  PROVE  IInv'
<1>1. LET m == Filled(msg["server"], got["server"]) IN
      \/ /\ m.type \in {"WRITE_REQ", "WRITE_REQ_OW"}
         /\ pc' = Put(pc, "server", "value")
         /\ UNCHANGED <<out, did, stored>>
      \/ m.type = "READ_REQ" /\ SendItem
      \/ m.type = "DELETE_REQ" /\ Delete
  BY DEF process_psiskv_prequest
<1> QED
  BY <1>1, TakesWrite, SendsItem, Deletes

LEMMA write_preqStep ==
  ASSUME IInv, write_preq
  PROVE  IInv'
<1> DEFINE v == Bytes(got["server"], msg["server"].len)
           code == IF stored # None /\ msg["server"].type = "WRITE_REQ" THEN 999 ELSE 0
           what == IF stored # None /\ msg["server"].type = "WRITE_REQ" THEN "refused" ELSE "stored"
<1>1. TypeOK /\ Ends /\ Told /\ "server" \in Party /\ Peer("server") = "client"
  BY Parties DEF IInv
<1>2. /\ pc["server"] = "value" /\ (Received("server") \/ Closed("server"))
      /\ stored' \in {stored, v}
      /\ out' = Put(out, "server", Message(Header("WRITE_RESP", code, 0), << >>))
      /\ did' = <<what, v>> /\ pc' = Put(pc, "server", "header")
      /\ got' = Put(got, "server", << >>)
      /\ UNCHANGED <<call, msg, wire, open, reset, result, torn, calls>>
  BY DEF write_preq, Insert, Answer
<1>3. Up("server") /\ ~Unasked /\ Taking
  BY <1>2 DEF Up, Unasked, Asked, IInv, ServerSide
<1>4. /\ IsWrite(call) /\ msg["server"] = Request(call)
      /\ Arriving("server", Data(call.value))
  BY <1>3 DEF Taking
<1>5. /\ call.value \in Values /\ call.value \in Bytestring
      /\ msg["server"].len = Len(call.value)
  BY <1>1, <1>4, CallFacts, ValuesAreBytes DEF TypeOK
<1>6. v \in Bytestring
  BY <1>1, BytesType DEF TypeOK, Hdr
<1>7. /\ wire["server"] = << >> /\ out["client"] = << >>
      /\ Up("client") => v = call.value
      /\ v = call.value \/ "client" \in torn
  <2>1. CASE Received("server")
    <3>1. Len(got["server"]) = Len(call.value)
      BY <1>2, <1>5, <2>1 DEF Received, Wanted
    <3>2. got["server"] = Data(call.value) /\ wire["server"] = << >> /\ out["client"] = << >>
      BY <1>1, <1>4, <1>5, <3>1, ValueArrived
    <3> QED
      BY <1>5, <3>2, BytesWhole
  <2>2. CASE Closed("server")
    <3>1. wire["server"] = << >> /\ ~Up("client") /\ out["client"] = << >>
      BY <1>1, <2>2, Parties DEF Closed, Ends
    <3>2. Len(got["server"]) # Len(Data(call.value)) /\ Data(call.value) \in Seq(Cell)
      <4>1. Len(got["server"]) < Len(call.value)
        BY <1>2, <1>5, <2>2 DEF Closed, Wanted
      <4>2. Len(got["server"]) \in Nat
        BY <1>1, LenProperties DEF TypeOK
      <4>3. Len(got["server"]) # Len(call.value)
        BY <4>1, <4>2
      <4> QED
        BY <1>5, <4>3, DataFacts
    <3>3. "client" \in torn
      BY <1>1, <1>4, <3>1, <3>2, CutShort
    <3> QED
      BY <3>1, <3>3
  <2> QED
    BY <1>2, <2>1, <2>2
<1> HIDE DEF v
<1>8. stored' \in Bytestring \cup {None}
  BY <1>1, <1>2, <1>6 DEF TypeOK
<1>9. WholeItems'
  BY <1>1, <1>2, <1>5, <1>7 DEF Told, WholeItems
<1>10. did' \in {"none", "stored", "refused", "read", "missing", "deleted"} \X (Bytestring \cup {None})
  BY <1>2, <1>6
<1>11. Header("WRITE_RESP", code, 0) \in Hdr
  BY DEF Header, Hdr
<1>12. AnswerHeader' = Header("WRITE_RESP", code, 0) /\ AnswerPayload' = << >>
  BY <1>2 DEF AnswerHeader, AnswerPayload
<1>13. Up("client") => Answered'
  BY <1>2, <1>4, <1>7 DEF Answered, IsWrite
<1>14. msg' \in [Party -> Hdr] /\ msg'["client"] = msg["client"]
  BY <1>1, <1>2 DEF TypeOK
<1> HIDE DEF code, what
<1> QED
  BY <1>2, <1>3, <1>7, <1>8, <1>9, <1>10, <1>11, <1>12, <1>13, <1>14, EmptyData, Replies

-----------------------------------------------------------------------------
(***************************************************************************)
(* The client.                                                             *)
(***************************************************************************)

LEMMA CommandStep ==
  ASSUME IInv, NEW c \in Call, Command(c)
  PROVE  IInv'
<1>1. TypeOK /\ Ends /\ Told /\ "client" \in Party /\ Peer("client") = "server"
  BY Parties DEF IInv
<1>2. /\ pc["client"] = "menu" /\ calls < MaxCalls /\ calls' = calls + 1 /\ call' = c
      /\ pc' = Put(pc, "client", "header") /\ msg' = Put(msg, "client", Request(c))
      /\ out' = Put(out, "client", Message(Request(c), Payload(c)))
      /\ did' = <<"none", None>>
      /\ UNCHANGED <<got, wire, open, reset, stored, result, torn>>
  BY DEF Command
<1>3. Request(c) \in Hdr /\ Payload(c) \in Bytestring
  <2>1. CASE IsWrite(c)
    BY <2>1, CallFacts, ValuesAreBytes
  <2>2. CASE ~IsWrite(c)
    BY <2>2, CallFacts, EmptyData
  <2> QED
    BY <2>1, <2>2
<1>4. AtMenu
  BY <1>2 DEF IInv, ClientSide
<1>5. got["client"] = << >> /\ wire["client"] = << >> /\ out["server"] = << >>
  BY <1>1, <1>4, NothingDue DEF AtMenu
<1>6. /\ pc' \in [Party -> {"menu", "header", "value", "gone", "killed"}]
      /\ pc'["client"] = "header" /\ pc'["server"] = pc["server"]
      /\ msg' \in [Party -> Hdr]
      /\ msg'["client"] = Request(c) /\ msg'["server"] = msg["server"]
  BY <1>1, <1>2, <1>3, Parties DEF TypeOK, Put
<1>7. /\ Chunks(Message(Request(c), Payload(c)))
      /\ Rest(Message(Request(c), Payload(c))) = Stream(Request(c), Payload(c))
  BY <1>3, MessageFacts
<1>8. /\ out' \in [Party -> Seq(Seq(Cell) \ {<< >>})]
      /\ \A u \in Party : Len(out'[u]) \in 0 .. 2 /\ Chunks(out'[u])
      /\ out'["client"] = Message(Request(c), Payload(c)) /\ out'["server"] = << >>
  BY <1>1, <1>2, <1>5, <1>7, PutOut, Parties
<1>9. TypeOK'
  <2>1. Len(got'["client"]) <= Wanted("client")'
    BY <1>2, <1>5, <1>6, Empty DEF Wanted
  <2>2. pc'["server"] \in {"header", "value"} => Len(got'["server"]) <= Wanted("server")'
    BY <1>1, <1>2, <1>6, Parties DEF TypeOK, Wanted
  <2>3. calls' \in 0 .. MaxCalls
    BY <1>1, <1>2, CallAssumption DEF TypeOK
  <2>4. None \in Bytestring \cup {None}
    OBVIOUS
  <2> QED
    BY <1>1, <1>2, <1>6, <1>8, <2>1, <2>2, <2>3, <2>4, Parties DEF TypeOK
<1>10. Ends'
  BY <1>1, <1>2, <1>6, <1>8, Parties DEF Ends, Up
<1>11. Told'
  BY <1>1, <1>2, <1>6 DEF Told, WholeItems, ReadsWhole, ChangesTold
<1>12. ASSUME Up("server")
       PROVE  Asked'
  <2>1. Unasked
    BY <1>4, <1>12 DEF AtMenu
  <2>2. got["server"] = << >> /\ wire["server"] = << >> /\ pc["server"] = "header"
    BY <1>1, <2>1, NothingDue, Parties DEF Unasked
  <2>3. PICK s \in Seq(Cell) : s = Stream(Request(c), Payload(c))
    BY <1>3, CellsFacts, DataFacts, Empty DEF Stream
  <2>4. Due("server")' = << >> \o (<< >> \o s)
    BY <1>2, <1>7, <1>8, <2>2, <2>3, Parties DEF Due
  <2>5. Due("server")' \o << >> = s /\ << >> \in Seq(Cell)
    BY <2>3, <2>4, Empty
  <2>6. Arriving("server", Stream(Request(c), Payload(c)))'
    BY <2>3, <2>5 DEF Arriving
  <2> QED
    BY <1>2, <1>6, <2>2, <2>6 DEF Asked
<1>13. Up("server")' <=> Up("server")
  BY <1>6 DEF Up
<1>14. Due("client")' = << >>
  BY <1>2, <1>5, <1>8, RestFacts, Empty, Parties DEF Due
<1>15. Waiting'
  BY <1>2, <1>6, <1>12, <1>13, <1>14 DEF Waiting
<1>16. ServerSide' /\ ClientSide'
  BY <1>6, <1>12, <1>13, <1>15 DEF ServerSide, ClientSide
<1> QED
  BY <1>9, <1>10, <1>11, <1>16 DEF IInv

(* What the call returns is true.                                          *)
Truthful(code, value) ==
  /\ (call.op = "READ_REQ" /\ code = 0) =>
       "server" \in torn \/ (did[1] = "read" /\ value = Fitting(did[2]))
  /\ (IsWrite(call) /\ "server" \notin torn) =>
       /\ code = 0 => did = <<"stored", call.value>>
       /\ code = -2 => did = <<"refused", call.value>>
  /\ (call.op = "DELETE_REQ" /\ code = 0) => did[1] = "deleted"

LEMMA Returns ==
  ASSUME IInv, NEW code \in {-2, -1, 0}, NEW value \in Bytestring \cup {None},
         Return(code, value), Truthful(code, value),
         wire["client"] = << >>, out["server"] = << >>,
         Up("client"), Up("server") => Unasked /\ out["client"] = << >>
  PROVE  IInv'
<1>1. TypeOK /\ Ends /\ Told /\ "client" \in Party /\ Peer("client") = "server"
  BY Parties DEF IInv
<1>2. /\ result' = [code |-> code, value |-> value]
      /\ UNCHANGED <<call, msg, reset, stored, did, torn, calls>>
  BY DEF Return
<1>3. PICK label \in {"gone", "menu"} :
        /\ pc' = Put(pc, "client", label)
        /\ got' = Put(got, "client", << >>) /\ out' = Put(out, "client", << >>)
        /\ IF label = "gone"
           THEN open' = Put(open, "client", FALSE) /\ wire' = Put(wire, "client", << >>)
           ELSE UNCHANGED <<open, wire>>
  <2>1. CASE Fatal(code)
    BY <2>1 DEF Return, Shut
  <2>2. CASE ~Fatal(code)
    BY <2>2 DEF Return
  <2> QED
    BY <2>1, <2>2
<1>4. << >> \in Seq(Cell) /\ Chunks(<< >>)
  BY Empty DEF Chunks
<1>5. /\ pc' \in [Party -> {"menu", "header", "value", "gone", "killed"}]
      /\ pc'["client"] = label /\ pc'["server"] = pc["server"]
      /\ got' \in [Party -> Seq(Cell)]
      /\ got'["client"] = << >> /\ got'["server"] = got["server"]
  BY <1>1, <1>3, <1>4, Parties DEF TypeOK, Put
<1>6. /\ open' \in [Party -> BOOLEAN] /\ open'["server"] = open["server"]
      /\ IF label = "gone" THEN ~open'["client"] ELSE open'["client"] = open["client"]
      /\ wire' \in [Party -> Seq(Cell)]
      /\ wire'["client"] = << >> /\ wire'["server"] = wire["server"]
  <2>1. CASE label = "gone"
    <3>1. open' = Put(open, "client", FALSE) /\ wire' = Put(wire, "client", << >>)
      BY <1>3, <2>1
    <3>2. open \in [Party -> BOOLEAN] /\ wire \in [Party -> Seq(Cell)]
      BY <1>1 DEF TypeOK
    <3>3. Put(wire, "client", << >>) \in [Party -> Seq(Cell)]
      BY <1>4, <3>2 DEF Put
    <3> QED
      BY <2>1, <3>1, <3>2, <3>3, Parties DEF Put
  <2>2. CASE label = "menu"
    BY <1>1, <1>3, <2>2 DEF TypeOK
  <2> QED
    BY <2>1, <2>2
<1>7. /\ out' \in [Party -> Seq(Seq(Cell) \ {<< >>})]
      /\ \A u \in Party : Len(out'[u]) \in 0 .. 2 /\ Chunks(out'[u])
      /\ out'["client"] = << >> /\ out'["server"] = << >>
  BY <1>1, <1>3, <1>4, PutOut, Parties
<1>8. TypeOK'
  <2>1. pc'["server"] \in {"header", "value"} => Len(got'["server"]) <= Wanted("server")'
    BY <1>1, <1>2, <1>5, Parties DEF TypeOK, Wanted
  <2> QED
    BY <1>1, <1>2, <1>5, <1>6, <1>7, <2>1, Parties DEF TypeOK
<1>9. Ends'
  <2>1. "client" \notin torn /\ open["client"]
    BY <1>1 DEF Ends
  <2>2. \A p \in Party : Chunks(out'[p]) /\ out'[p] = << >>
    BY <1>7, Parties
  <2>3. ~open'["client"] => label = "gone"
    BY <1>6, <2>1
  <2>4. Up("client")' <=> label = "menu"
    BY <1>3, <1>5 DEF Up
  <2>5. ~open'["server"] \/ "server" \in torn' => ~Up("server")'
    BY <1>1, <1>2, <1>5, <1>6, Parties DEF Ends, Up
  <2> QED
    BY <1>2, <1>6, <2>1, <2>2, <2>3, <2>4, <2>5, Parties DEF Ends
<1>10. Told'
  <2>1. result'.code = code /\ result'.value = value
    BY <1>2
  <2>2. WholeItems'
    BY <1>1, <1>2 DEF Told, WholeItems
  <2>3. ReadsWhole' /\ ChangesTold'
    BY <1>2, <2>1 DEF Truthful, ReadsWhole, ChangesTold, IsWrite
  <2> QED
    BY <2>2, <2>3 DEF Told
<1>11. Up("server")' <=> Up("server")
  BY <1>5 DEF Up
<1>12. ASSUME Up("server")
       PROVE  Unasked'
  <2>1. Due("server")' = Due("server")
    BY <1>5, <1>6, <1>7, <1>12, Parties DEF Due
  <2> QED
    BY <1>5, <1>12, <2>1 DEF Unasked
<1>13. Due("client")' = << >>
  BY <1>5, <1>6, <1>7, RestFacts, Empty, Parties DEF Due
<1>14. ServerSide' /\ ClientSide'
  BY <1>5, <1>11, <1>12, <1>13 DEF ServerSide, ClientSide, AtMenu
<1> QED
  BY <1>8, <1>9, <1>10, <1>14 DEF IInv

LEMMA AnswerTypes ==
  ASSUME Answered
  PROVE  AnswerHeader \in Hdr /\ AnswerPayload \in Bytestring
<1>1. CASE did[1] = "read"
  <2>1. did[2] \in Bytestring
    BY <1>1, ValuesAreBytes DEF Answered, IsWrite
  <2>2. Len(did[2]) \in Nat
    BY <2>1, LenProperties DEF Bytestring
  <2> QED
    BY <1>1, <2>1, <2>2 DEF AnswerHeader, AnswerPayload, Header, Hdr
<1>2. CASE did[1] # "read"
  BY <1>2, EmptyData DEF AnswerHeader, AnswerPayload, Header, Hdr
<1> QED
  BY <1>1, <1>2

(* A whole header has been received: it is that of the answer.             *)
LEMMA AnswerArrived ==
  ASSUME IInv, pc["client"] = "header", Received("client")
  PROVE  /\ Answered /\ Filled(msg["client"], got["client"]) = AnswerHeader
         /\ Up("server") => Unasked
         /\ out["client"] = << >>
         /\ \E r \in Seq(Cell) :
              /\ (wire["client"] \o Rest(out["server"])) \o r = Data(AnswerPayload)
              /\ r = << >> \/ "server" \in torn
<1>1. TypeOK /\ Ends /\ "client" \in Party /\ Peer("client") = "server" /\ Waiting
  BY Parties DEF IInv, ClientSide
<1>2. Len(got["client"]) = 3 /\ got["client"] # << >> /\ out["client"] = << >>
  BY Empty DEF Received, Receiving, Wanted
<1>3. Due("client") # << >>
  BY <1>1, <1>2, NothingDue
<1>4. /\ Answered /\ Arriving("client", Stream(AnswerHeader, AnswerPayload))
      /\ Up("server") => Unasked
  BY <1>1, <1>3 DEF Waiting
<1>5. AnswerHeader \in Hdr /\ AnswerPayload \in Bytestring
  BY <1>4, AnswerTypes
<1>6. /\ got["client"] = Cells(AnswerHeader)
      /\ \E r \in Seq(Cell) :
           /\ (wire["client"] \o Rest(out["server"])) \o r = Data(AnswerPayload)
           /\ r = << >> \/ "server" \in torn
  BY <1>1, <1>2, <1>4, <1>5, HeaderArrived
<1>7. msg["client"] \in Hdr
  BY <1>1 DEF TypeOK
<1> QED
  BY <1>2, <1>4, <1>5, <1>6, <1>7, FilledWhole

(* An answer without a value is all there is.                              *)
LEMMA AnswerAlone ==
  ASSUME IInv, pc["client"] = "header", Received("client"), did[1] # "read"
  PROVE  wire["client"] = << >> /\ out["server"] = << >>
<1>1. TypeOK /\ Ends /\ "client" \in Party /\ Peer("client") = "server"
  BY Parties DEF IInv
<1>2. \E r \in Seq(Cell) : (wire["client"] \o Rest(out["server"])) \o r = << >>
  BY AnswerArrived, EmptyData DEF AnswerPayload
<1> QED
  BY <1>1, <1>2, NothingBehind

(* The connection has ended: nothing more comes.                           *)
LEMMA ServerClosed ==
  ASSUME IInv, Closed("client")
  PROVE  /\ wire["client"] = << >> /\ out["server"] = << >> /\ ~Up("server")
         /\ out["client"] = << >>
BY Parties DEF IInv, Ends, Closed, Receiving

(* A value that fits is a value.                                           *)
LEMMA FittingType ==
  ASSUME NEW v \in Bytestring
  PROVE  Fitting(v) \in Bytestring
<1>1. Len(v) \in Nat /\ Room \in Nat
  BY LenProperties, CallAssumption DEF Bytestring
<1> DEFINE n == IF Room > Len(v) THEN Len(v) ELSE Room
<1>2. n \in 0 .. Len(v)
  BY <1>1
<1> HIDE DEF n
<1>3. SubSeq(v, 1, n) \in Seq(Byte \cup {NoByte, Junk})
  BY <1>1, <1>2, SubSeqProperties DEF Bytestring
<1> QED
  BY <1>3 DEF Fitting, Bytestring, n

(* The connection has ended before the answer did.                         *)
LEMMA AnswerTorn ==
  ASSUME IInv, pc["client"] = "header", Closed("client")
  PROVE  \/ "server" \in torn
         \/ Filled(msg["client"], got["client"]) = Request(call)
<1>1. TypeOK /\ Ends /\ "client" \in Party /\ Peer("client") = "server" /\ Waiting
  BY Parties DEF IInv, ClientSide
<1>2. wire["client"] = << >> /\ out["server"] = << >>
  BY ServerClosed
<1>3. call \in Call /\ Request(call) \in Hdr
  BY <1>1, CallFacts DEF TypeOK
<1>4. CASE Due("client") = << >>
  BY <1>1, <1>3, <1>4, NothingDue, FilledNothing DEF Waiting
<1>5. CASE Answered /\ Arriving("client", Stream(AnswerHeader, AnswerPayload))
  <2>1. AnswerHeader \in Hdr /\ AnswerPayload \in Bytestring
    BY <1>5, AnswerTypes
  <2>2. PICK a, b \in Seq(Cell) :
          a = Cells(AnswerHeader) /\ b = Data(AnswerPayload) /\ Len(a) = 3
    BY <2>1, CellsFacts, DataFacts
  <2>3. Stream(AnswerHeader, AnswerPayload) \in Seq(Cell)
        /\ Len(Stream(AnswerHeader, AnswerPayload)) = 3 + Len(b)
    <3>1. a \o b \in Seq(Cell) /\ Len(a \o b) = Len(a) + Len(b)
      BY ConcatProperties
    <3>2. Stream(AnswerHeader, AnswerPayload) = a \o b
      BY <2>2 DEF Stream
    <3> QED
      BY <2>2, <3>1, <3>2
  <2>4. Len(got["client"]) < 3 /\ Len(got["client"]) \in Nat /\ Len(b) \in Nat
    BY <1>1, <2>2, LenProperties DEF Closed, Wanted, TypeOK
  <2>5. Len(got["client"]) # Len(Stream(AnswerHeader, AnswerPayload))
    BY <2>3, <2>4
  <2> QED
    BY <1>1, <1>2, <1>5, <2>3, <2>5, CutShort
<1> QED
  BY <1>1, <1>4, <1>5 DEF Waiting

LEMMA kv_writeStep ==
  ASSUME IInv, kv_write
  PROVE  IInv'
<1> DEFINE m == Filled(msg["client"], got["client"])
<1>1. /\ pc["client"] = "header" /\ IsWrite(call)
      /\ Received("client") \/ Closed("client")
      /\ Return(WriteResult(m), None)
  BY DEF kv_write
<1>2. Up("client") /\ WriteResult(m) \in {-2, -1, 0}
  BY <1>1 DEF Up, WriteResult
<1>3. CASE Received("client")
  <2>1. /\ Answered /\ m = AnswerHeader /\ (Up("server") => Unasked)
        /\ out["client"] = << >>
    BY <1>1, <1>3, AnswerArrived
  <2>2. did \in {<<"stored", call.value>>, <<"refused", call.value>>}
    BY <1>1, <2>1 DEF Answered, IsWrite
  <2>3. wire["client"] = << >> /\ out["server"] = << >>
    BY <1>1, <1>3, <2>2, AnswerAlone
  <2>4. CASE did = <<"stored", call.value>>
    <3>1. WriteResult(m) = 0
      BY <2>1, <2>4 DEF AnswerHeader, Header, WriteResult
    <3>2. Truthful(WriteResult(m), None)
      BY <1>1, <2>4, <3>1 DEF Truthful, IsWrite
    <3> QED
      BY <1>1, <1>2, <2>1, <2>3, <3>2, Returns
  <2>5. CASE did = <<"refused", call.value>>
    <3>1. WriteResult(m) = -2
      BY <2>1, <2>5 DEF AnswerHeader, Header, WriteResult
    <3>2. Truthful(WriteResult(m), None)
      BY <1>1, <2>5, <3>1 DEF Truthful, IsWrite
    <3> QED
      BY <1>1, <1>2, <2>1, <2>3, <3>2, Returns
  <2> QED
    BY <2>2, <2>4, <2>5
<1>4. CASE Closed("client")
  <2>1. "server" \in torn \/ m = Request(call)
    BY <1>1, <1>4, AnswerTorn
  <2>2. Request(call).type # "WRITE_RESP"
    BY <1>1, CallFacts DEF IInv, TypeOK, IsWrite
  <2>3. Truthful(WriteResult(m), None)
    BY <1>1, <2>1, <2>2 DEF Truthful, IsWrite, WriteResult
  <2> QED
    BY <1>1, <1>2, <1>4, <2>3, ServerClosed, Returns
<1> QED
  BY <1>1, <1>3, <1>4

LEMMA kv_deleteStep ==
  ASSUME IInv, kv_delete
  PROVE  IInv'
<1>1. pc["client"] = "header" /\ call.op = "DELETE_REQ" /\ Up("client")
  BY DEF kv_delete, Up
<1>2. ASSUME Received("client"),
             NEW code \in {-1, 0}, Return(code, None),
             code = IF /\ Filled(msg["client"], got["client"]).type = "DELETE_RESP"
                       /\ Filled(msg["client"], got["client"]).len # 0 THEN 0 ELSE -1
      PROVE  IInv'
  <2>1. /\ Answered /\ Filled(msg["client"], got["client"]) = AnswerHeader
        /\ Up("server") => Unasked
        /\ out["client"] = << >>
    BY <1>1, <1>2, AnswerArrived
  <2>2. did \in {<<"deleted", None>>, <<"missing", None>>}
    BY <1>1, <2>1 DEF Answered, IsWrite
  <2>3. wire["client"] = << >> /\ out["server"] = << >>
    BY <1>1, <1>2, <2>2, AnswerAlone
  <2>4. code = 0 => did[1] = "deleted"
    BY <1>1, <1>2, <2>1, <2>2 DEF AnswerHeader, Header
  <2>5. Truthful(code, None)
    BY <1>1, <2>4 DEF Truthful, IsWrite
  <2> QED
    BY <1>1, <1>2, <2>1, <2>3, <2>5, Returns
<1>3. ASSUME Closed("client"), Return(-1, None)
      PROVE  IInv'
  <2>1. Truthful(-1, None)
    BY DEF Truthful
  <2> QED
    BY <1>1, <1>3, <2>1, ServerClosed, Returns
<1> QED
  BY <1>2, <1>3 DEF kv_delete

(* The header of a value has been taken: the value follows.                *)
LEMMA TakesValue ==
  ASSUME IInv, pc["client"] = "header", call.op = "READ_REQ", Received("client"),
         Filled(msg["client"], got["client"]).type = "READ_RESP",
         pc' = Put(pc, "client", "value"),
         msg' = Put(msg, "client", Filled(msg["client"], got["client"])),
         got' = Put(got, "client", << >>),
         UNCHANGED <<call, out, wire, open, reset, stored, did, result, torn, calls>>
  PROVE  IInv'
<1>1. TypeOK /\ Ends /\ Told /\ "client" \in Party /\ Peer("client") = "server"
  BY Parties DEF IInv
<1>2. /\ Answered /\ Filled(msg["client"], got["client"]) = AnswerHeader
      /\ Up("server") => Unasked
      /\ out["client"] = << >>
      /\ \E r \in Seq(Cell) :
           /\ (wire["client"] \o Rest(out["server"])) \o r = Data(AnswerPayload)
           /\ r = << >> \/ "server" \in torn
  BY AnswerArrived
<1>3. did[1] = "read" /\ did[2] \in Values
  BY <1>2 DEF Answered, AnswerHeader, Header, IsWrite
<1>4. /\ AnswerHeader = Header("READ_RESP", 0, Len(did[2])) /\ AnswerPayload = did[2]
      /\ AnswerHeader \in Hdr /\ AnswerHeader.len = Len(did[2])
  <2>1. AnswerHeader = Header("READ_RESP", 0, Len(did[2])) /\ AnswerPayload = did[2]
    BY <1>3 DEF AnswerHeader, AnswerPayload
  <2> QED
    BY <1>2, <2>1, AnswerTypes DEF Header
<1>5. /\ pc' \in [Party -> {"menu", "header", "value", "gone", "killed"}]
      /\ pc'["client"] = "value" /\ pc'["server"] = pc["server"]
      /\ msg' \in [Party -> Hdr] /\ msg'["client"] = AnswerHeader
      /\ msg'["server"] = msg["server"]
  <2>1. msg' = Put(msg, "client", AnswerHeader)
    BY <1>2
  <2> QED
    BY <1>1, <1>4, <2>1, Parties DEF TypeOK, Put
<1>6. /\ got' \in [Party -> Seq(Cell)]
      /\ got'["client"] = << >> /\ got'["server"] = got["server"]
  BY <1>1, Empty, Parties DEF TypeOK, Put
<1>7. TypeOK'
  <2>1. Len(did[2]) \in Nat
    BY <1>3, ValuesAreBytes, LenProperties DEF Bytestring
  <2>2. Len(got'["client"]) <= Wanted("client")'
    BY <1>4, <1>5, <1>6, <2>1, Empty DEF Wanted
  <2>3. pc'["server"] \in {"header", "value"} => Len(got'["server"]) <= Wanted("server")'
    BY <1>1, <1>5, <1>6, Parties DEF TypeOK, Wanted
  <2> QED
    BY <1>1, <1>5, <1>6, <2>2, <2>3, Parties DEF TypeOK
<1>8. Ends'
  <2>1. Up("client") /\ Up("client")' /\ (Up("server")' <=> Up("server"))
    BY <1>5 DEF Up
  <2> QED
    BY <1>1, <2>1, Parties DEF Ends
<1>9. Told'
  BY <1>1, <1>5, ToldKept
<1>10. Due("client")' = wire["client"] \o Rest(out["server"])
  <2>1. wire["client"] \o Rest(out["server"]) \in Seq(Cell)
    BY <1>1, Types
  <2>2. Due("client")' = << >> \o (wire["client"] \o Rest(out["server"]))
    BY <1>6, Parties DEF Due
  <2> QED
    BY <2>1, <2>2, Empty
<1>11. Arriving("client", Data(did[2]))'
  BY <1>2, <1>4, <1>10, Parties DEF Arriving
<1>12. ASSUME Up("server")
       PROVE  Unasked'
  <2>1. Due("server")' = Due("server")
    BY <1>6, Parties DEF Due
  <2> QED
    BY <1>2, <1>5, <1>12, <2>1 DEF Unasked
<1>13. Up("server")' <=> Up("server")
  BY <1>5 DEF Up
<1>14. Reading'
  BY <1>3, <1>4, <1>5, <1>11, <1>12, <1>13 DEF Reading
<1> QED
  BY <1>5, <1>7, <1>8, <1>9, <1>12, <1>13, <1>14 DEF IInv, ServerSide, ClientSide

LEMMA kv_readStep ==
  ASSUME IInv, kv_read
  PROVE  IInv'
<1>1. pc["client"] = "header" /\ call.op = "READ_REQ" /\ Up("client")
  BY DEF kv_read, Up
<1>2. ASSUME Received("client"), NEW code \in {-2, -1}, Return(code, None),
             Filled(msg["client"], got["client"]).type # "READ_RESP"
      PROVE  IInv'
  <2>1. /\ Answered /\ Filled(msg["client"], got["client"]) = AnswerHeader
        /\ Up("server") => Unasked
        /\ out["client"] = << >>
    BY <1>1, <1>2, AnswerArrived
  <2>2. did[1] # "read"
    BY <1>2, <2>1 DEF AnswerHeader, Header
  <2>3. wire["client"] = << >> /\ out["server"] = << >>
    BY <1>1, <1>2, <2>2, AnswerAlone
  <2>4. Truthful(code, None)
    BY <1>1, <1>2 DEF Truthful, IsWrite
  <2> QED
    BY <1>1, <1>2, <2>1, <2>3, <2>4, Returns
<1>3. ASSUME Closed("client"), Return(-1, None)
      PROVE  IInv'
  <2>1. Truthful(-1, None)
    BY DEF Truthful
  <2> QED
    BY <1>1, <1>3, <2>1, ServerClosed, Returns
<1> QED
  BY <1>1, <1>2, <1>3, TakesValue DEF kv_read

LEMMA ReadValueStep ==
  ASSUME IInv, ReadValue
  PROVE  IInv'
<1> DEFINE v == Bytes(got["client"], msg["client"].len)
<1>1. /\ TypeOK /\ Ends /\ "client" \in Party /\ Peer("client") = "server"
      /\ pc["client"] = "value" /\ Up("client")
      /\ Received("client") \/ Closed("client")
      /\ Return(0, Fitting(v)) /\ Reading
  BY Parties DEF IInv, ReadValue, ClientSide, Up
<1>2. /\ call.op = "READ_REQ" /\ did[1] = "read" /\ did[2] \in Values
      /\ did[2] \in Bytestring
      /\ msg["client"].len = Len(did[2]) /\ Arriving("client", Data(did[2]))
      /\ Up("server") => Unasked
  BY <1>1, ValuesAreBytes DEF Reading
<1>3. v \in Bytestring
  BY <1>1, BytesType DEF TypeOK, Hdr
<1>4. Fitting(v) \in Bytestring
  BY <1>3, FittingType
<1>5. CASE Received("client")
  <2>1. Len(got["client"]) = Len(did[2]) /\ out["client"] = << >>
    BY <1>1, <1>2, <1>5 DEF Received, Receiving, Wanted
  <2>2. got["client"] = Data(did[2]) /\ wire["client"] = << >> /\ out["server"] = << >>
    BY <1>1, <1>2, <2>1, ValueArrived
  <2>3. v = did[2]
    BY <1>2, <2>2, BytesWhole
  <2>4. Truthful(0, Fitting(v))
    BY <1>2, <2>3 DEF Truthful, IsWrite
  <2> QED
    BY <1>1, <1>2, <1>4, <2>1, <2>2, <2>4, Returns
<1>6. CASE Closed("client")
  <2>1. /\ wire["client"] = << >> /\ out["server"] = << >> /\ ~Up("server")
        /\ out["client"] = << >>
    BY <1>1, <1>6, ServerClosed
  <2>2. Len(got["client"]) < Len(did[2]) /\ Len(got["client"]) \in Nat
    BY <1>1, <1>2, <1>6, LenProperties DEF Closed, Wanted, TypeOK
  <2>3. Data(did[2]) \in Seq(Cell) /\ Len(got["client"]) # Len(Data(did[2]))
    BY <1>2, <2>2, DataFacts
  <2>4. "server" \in torn
    BY <1>1, <1>2, <2>1, <2>3, CutShort
  <2>5. Truthful(0, Fitting(v))
    BY <1>2, <2>4 DEF Truthful, IsWrite
  <2> QED
    BY <1>1, <1>4, <2>1, <2>5, Returns
<1> QED
  BY <1>1, <1>5, <1>6

LEMMA ClientFailsStep ==
  ASSUME IInv, ClientFails
  PROVE  IInv'
<1>1. ~Up("server") /\ out["server"] = << >> /\ wire["client"] = << >> /\ Up("client")
  BY Parties DEF IInv, Ends, ClientFails, Up
<1>2. Truthful(-1, None)
  BY DEF Truthful
<1> QED
  BY <1>1, <1>2, Returns DEF ClientFails

-----------------------------------------------------------------------------
(***************************************************************************)
(* The invariant.                                                          *)
(***************************************************************************)

LEMMA InitIInv ==
  ASSUME Init
  PROVE  IInv
<1>1. << >> \in Seq(Cell) /\ Len(<< >>) = 0 /\ << >> \in Seq(Seq(Cell) \ {<< >>})
  BY Empty, EmptySeq
<1>2. NoHeader \in Hdr
  BY DEF NoHeader, Header, Hdr
<1>3. TypeOK
  BY <1>1, <1>2, CallAssumption, Parties DEF Init, TypeOK, Wanted
<1>4. Ends
  BY Parties DEF Init, Ends, Chunks, Up
<1>5. Due("client") = << >> /\ Due("server") = << >>
  BY <1>3, <1>4, NothingDue, Parties DEF Init
<1>6. ServerSide /\ ClientSide
  BY <1>5, Parties DEF Init, ServerSide, ClientSide, Unasked, AtMenu
<1>7. Told
  BY DEF Init, Told, WholeItems, ReadsWhole, ChangesTold
<1> QED
  BY <1>3, <1>4, <1>6, <1>7 DEF IInv

LEMMA StutterIInv ==
  ASSUME IInv, UNCHANGED vars
  PROVE  IInv'
<1>1. TypeOK' /\ Ends'
  BY DEF IInv, TypeOK, Ends, Wanted, Up, vars
<1>2. Due("client")' = Due("client") /\ Due("server")' = Due("server")
  BY DEF Due, vars
<1>3. ServerSide' /\ ClientSide'
  BY <1>2, SameStreams DEF IInv, vars
<1>4. Told'
  BY SameTold DEF IInv, vars
<1> QED
  BY <1>1, <1>3, <1>4 DEF IInv

LEMMA NextIInv ==
  ASSUME IInv, [Next]_vars
  PROVE  IInv'
<1>1. ASSUME NEW p \in Party, Write(p) \/ SigPipe(p) \/ Read(p) \/ Die(p)
      PROVE  IInv'
  BY <1>1, WriteStep, SigPipeStep, ReadStep, DieStep
<1>2. CASE ClientStep \/ ClientFails
  BY <1>2, kv_writeStep, kv_readStep, ReadValueStep, kv_deleteStep, ClientFailsStep
  DEF ClientStep
<1>3. CASE ServerStep \/ ServerGivesUp
  BY <1>3, RequestStep, write_preqStep, ServerClosesStep, ServerGivesUpStep DEF ServerStep
<1>4. ASSUME NEW c \in Call, Command(c)
      PROVE  IInv'
  BY <1>4, CommandStep
<1>5. CASE Others
  BY <1>5, OthersStep
<1>6. CASE UNCHANGED vars
  BY <1>6, StutterIInv
<1> QED
  BY <1>1, <1>2, <1>3, <1>4, <1>5, <1>6 DEF Next

LEMMA Invariance == Spec => []IInv
BY InitIInv, NextIInv, PTL DEF Spec

(* Every variable has its type, and no side collects more bytes than it    *)
(* asked TCPnrecv for.                                                     *)
THEOREM TypeCorrect == Spec => []TypeOK
<1>1. IInv => TypeOK
  BY DEF IInv
<1> QED
  BY <1>1, Invariance, PTL

(* The parts of a header that were collected are those of one header, in   *)
(* order, and the parts of a value are parts of a value.                   *)
LEMMA InStep ==
  ASSUME IInv
  PROVE  Framing
<1> SUFFICES ASSUME NEW p \in Party, pc[p] \in {"header", "value"}, NEW i \in 1 .. Len(got[p])
             PROVE  got[p][i].name = IF pc[p] = "header" THEN Field[i] ELSE "data"
  BY DEF Framing
<1>1. TypeOK /\ Ends /\ Len(got[p]) \in Nat /\ got[p] # << >> /\ Due(p) # << >>
  <2>1. TypeOK /\ Ends /\ Len(got[p]) \in Nat
    BY LenProperties DEF IInv, TypeOK
  <2>2. got[p] # << >>
    BY <2>1, Empty
  <2> QED
    BY <2>1, <2>2, NothingDue
<1>2. ASSUME NEW h \in Hdr, NEW v \in Bytestring, Arriving(p, Stream(h, v)), pc[p] = "header"
      PROVE  got[p][i].name = Field[i]
  <2>1. PICK a, b \in Seq(Cell) : a = Cells(h) /\ b = Data(v)
    BY CellsFacts, DataFacts
  <2>2. a \o b \in Seq(Cell) /\ a \o b = Stream(h, v)
    BY <2>1, ConcatProperties DEF Stream
  <2>3. got[p][i] = (a \o b)[i]
    BY <1>1, <1>2, <2>2, Start
  <2>4. i \in 1 .. 3 /\ Len(a) = 3
    BY <1>1, <1>2, <2>1, CellsFacts DEF TypeOK, Wanted
  <2>5. (a \o b)[i] = a[i]
    BY <2>4, Prefix
  <2>6. a[i] = Part(Field[i], h, NoByte)
    BY <2>1, <2>4, CellsFacts
  <2> QED
    BY <2>3, <2>5, <2>6 DEF Part
<1>3. ASSUME NEW v \in Bytestring, Arriving(p, Data(v)), pc[p] = "value", msg[p].len = Len(v)
      PROVE  got[p][i].name = "data"
  <2>1. Data(v) \in Seq(Cell) /\ got[p][i] = Data(v)[i]
    BY <1>1, <1>3, DataFacts, Start
  <2>2. i \in 1 .. Len(v)
    <3>1. Len(got[p]) <= Len(v) /\ Len(v) \in Nat
      BY <1>1, <1>3, LenProperties DEF TypeOK, Wanted, Bytestring
    <3> QED
      BY <1>1, <3>1
  <2> QED
    BY <2>1, <2>2, DataFacts
<1>4. /\ call \in Call /\ Request(call) \in Hdr /\ Payload(call) \in Bytestring
      /\ IsWrite(call) => call.value \in Bytestring /\ Request(call).len = Len(call.value)
  <2>1. call \in Call
    BY <1>1 DEF TypeOK
  <2>2. CASE IsWrite(call)
    BY <2>1, <2>2, CallFacts, ValuesAreBytes
  <2>3. CASE ~IsWrite(call)
    BY <2>1, <2>3, CallFacts, EmptyData
  <2> QED
    BY <2>2, <2>3
<1>5. CASE p = "server"
  <2>1. Asked \/ Taking
    BY <1>1, <1>5 DEF IInv, ServerSide, Unasked, Up
  <2>2. CASE Asked
    BY <1>2, <1>4, <1>5, <2>2 DEF Asked
  <2>3. CASE Taking
    BY <1>3, <1>4, <1>5, <2>3 DEF Taking
  <2> QED
    BY <2>1, <2>2, <2>3
<1>6. CASE p = "client"
  <2>1. CASE pc["client"] = "header"
    <3>1. Answered /\ Arriving("client", Stream(AnswerHeader, AnswerPayload))
      BY <1>1, <1>6, <2>1 DEF IInv, ClientSide, Waiting
    <3> QED
      BY <1>2, <1>6, <2>1, <3>1, AnswerTypes
  <2>2. CASE pc["client"] = "value"
    <3>1. /\ did[2] \in Bytestring /\ Arriving("client", Data(did[2]))
          /\ msg["client"].len = Len(did[2])
      BY <2>2, ValuesAreBytes DEF IInv, ClientSide, Reading
    <3> QED
      BY <1>3, <1>6, <2>2, <3>1
  <2> QED
    BY <1>6, <2>1, <2>2
<1> QED
  BY <1>5, <1>6, Parties

(* The two sides never get out of step: TCPnrecv never gives a header the  *)
(* bytes of a value, nor a value those of a header, however the bytes      *)
(* arrive and whoever dies.                                                *)
THEOREM StaysInStep == Spec => []Framing
BY Invariance, InStep, PTL

(* The item of the key is a whole value that some client wrote, unless a   *)
(* client died in the middle of a request.                                 *)
THEOREM ItemsAreWhole == Spec => []WholeItems
<1>1. IInv => WholeItems
  BY DEF IInv, Told
<1> QED
  BY <1>1, Invariance, PTL

(* A kv_read that succeeds returns the value that the server had, as much  *)
(* of it as fits, unless the server died in the middle of its answer.      *)
THEOREM ReadsAreWhole == Spec => []ReadsWhole
<1>1. IInv => ReadsWhole
  BY DEF IInv, Told
<1> QED
  BY <1>1, Invariance, PTL

(* What kv_write and kv_delete return is what the server did.              *)
THEOREM ChangesAreTold == Spec => []ChangesTold
<1>1. IInv => ChangesTold
  BY DEF IInv, Told
<1> QED
  BY <1>1, Invariance, PTL

=============================================================================
