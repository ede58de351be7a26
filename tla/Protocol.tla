------------------------------ MODULE Protocol ------------------------------
(***************************************************************************)
(* One connection between a client and the data server, byte by byte:      *)
(* kv_write, kv_read and kv_delete of the client library against           *)
(* process_psiskv_prequest, over TCPsend and TCPnrecv.                     *)
(*                                                                         *)
(* TCPsend hands over any non-empty part of what is left to send with each *)
(* write; TCPnrecv collects bytes until it has as many as it wants (0), or *)
(* the peer has closed (-2), or the connection was reset (-1).  Either     *)
(* process may die at any moment, and what it had sent by then may still   *)
(* be read.  A first write to a peer that has closed succeeds; the next    *)
(* one raises SIGPIPE, which ends the process.                             *)
(***************************************************************************)
EXTENDS Integers, Sequences

CONSTANTS
  Byte,
  Values,     \* what is written
  Key,        \* the key of all calls
  Room,       \* value_length of kv_read
  MaxCalls    \* bound of the model

None == <<"none">>       \* there is no item of the key
Junk == "junk"           \* a byte that malloc left as it was
NoByte == ""

ASSUME CallAssumption ==
  /\ {Junk, NoByte} \cap Byte = {}
  /\ Values \subseteq Seq(Byte) /\ None \notin Values
  /\ Key \in Nat /\ Room \in Nat /\ MaxCalls \in Nat

VARIABLES
  pc,       \* pc[p]: what p waits for
  call,     \* the call of the client library
  msg,      \* msg[p]: the kv_msg of p
  got,      \* got[p]: what TCPnrecv has collected
  out,      \* out[p]: what p has still to send, one sequence per TCPsend
  wire,     \* wire[p]: on its way to p
  open,     \* open[p]: the end of p is open
  reset,    \* reset[p]: p has written to a closed connection
  stored,   \* the item of Key in the table
  did,      \* what the server did with the call
  result,   \* what the call returned
  torn,     \* history: the processes that died in the middle of a message
  calls     \* counter for the bound

vars == <<pc, call, msg, got, out, wire, open, reset, stored, did, result, torn, calls>>

Party == {"client", "server"}
Peer(p) == IF p = "client" THEN "server" ELSE "client"

Field == <<"type", "key", "len">>
Header(type, key, len) == [type |-> type, key |-> key, len |-> len]

(* What goes over the wire: a header in as many parts as it has fields, a  *)
(* value byte by byte.                                                     *)
Part(name, header, byte) == [name |-> name, of |-> header, byte |-> byte]
Cells(h) == [i \in 1 .. 3 |-> Part(Field[i], h, NoByte)]
NoHeader == Header("none", 0, 0)
Data(v) == [i \in 1 .. Len(v) |-> Part("data", NoHeader, v[i])]

(* One TCPsend of the header and one of the value, if it has any bytes.    *)
Message(h, v) == IF v = << >> THEN <<Cells(h)>> ELSE <<Cells(h), Data(v)>>

Call == [op : {"WRITE_REQ", "WRITE_REQ_OW"}, value : Values]
          \cup [op : {"READ_REQ", "DELETE_REQ"}, value : {None}]
IsWrite(c) == c.op \in {"WRITE_REQ", "WRITE_REQ_OW"}

Put(f, p, x) == [f EXCEPT ![p] = x]

Init ==
  /\ pc = [p \in Party |-> IF p = "client" THEN "menu" ELSE "header"]
  /\ call \in Call
  /\ msg = [p \in Party |-> NoHeader]
  /\ got = [p \in Party |-> << >>]
  /\ out = [p \in Party |-> << >>]
  /\ wire = [p \in Party |-> << >>]
  /\ open = [p \in Party |-> TRUE]
  /\ reset = [p \in Party |-> FALSE]
  /\ stored = None
  /\ did = <<"none", None>>
  /\ result = [code |-> -1, value |-> None]
  /\ torn = {}
  /\ calls = 0

-----------------------------------------------------------------------------
(* TCPsend and TCPnrecv.                                                   *)

(* One write of p.                                                         *)
Write(p) ==
  /\ out[p] # << >>
  /\ \E n \in 1 .. Len(Head(out[p])) :
       /\ wire' = Put(wire, Peer(p), wire[Peer(p)] \o SubSeq(Head(out[p]), 1, n))
       /\ out' = Put(out, p, IF n = Len(Head(out[p])) THEN Tail(out[p])
                             ELSE [out[p] EXCEPT ![1] = SubSeq(@, n + 1, Len(@))])
  /\ reset' = Put(reset, p, reset[p] \/ ~open[Peer(p)])
  /\ UNCHANGED <<pc, call, msg, got, open, stored, did, result, torn, calls>>

(* What the death of p, or its thread's close, leaves.                     *)
Shut(p, label) ==
  /\ pc' = Put(pc, p, label)
  /\ open' = Put(open, p, FALSE)
  /\ out' = Put(out, p, << >>)
  /\ got' = Put(got, p, << >>)
  /\ wire' = Put(wire, p, << >>)

SigPipe(p) ==
  /\ out[p] # << >> /\ ~open[Peer(p)] /\ reset[p]
  /\ Shut(p, "killed")
  /\ UNCHANGED <<call, msg, reset, stored, did, result, torn, calls>>

(* Fault: kv_read receives no more than fits into the caller's memory.     *)
WantedFits(p) ==
  IF pc[p] = "header" THEN 3
  ELSE IF p = "client" /\ Room < msg[p].len THEN Room ELSE msg[p].len

(* How many bytes p wants.                                                 *)
Wanted(p) == IF pc[p] = "header" THEN 3 ELSE msg[p].len

Receiving(p) == pc[p] \in {"header", "value"} /\ out[p] = << >>

(* One read of p.                                                          *)
Read(p) ==
  /\ Receiving(p)
  /\ Len(got[p]) < Wanted(p) /\ wire[p] # << >>
  /\ got' = Put(got, p, Append(got[p], Head(wire[p])))
  /\ wire' = Put(wire, p, Tail(wire[p]))
  /\ UNCHANGED <<pc, call, msg, out, open, reset, stored, did, result, torn, calls>>

Received(p) == Receiving(p) /\ Len(got[p]) = Wanted(p)
Closed(p) ==
  /\ Receiving(p) /\ Len(got[p]) < Wanted(p)
  /\ wire[p] = << >> /\ ~open[Peer(p)]

(* The memory of a header that was filled from the parts received.         *)
Filled(h, parts) ==
  [type |-> IF Len(parts) >= 1 THEN parts[1].of.type ELSE h.type,
   key |-> IF Len(parts) >= 2 THEN parts[2].of.key ELSE h.key,
   len |-> IF Len(parts) >= 3 THEN parts[3].of.len ELSE h.len]

(* The memory of a value of n bytes that was filled from the parts.        *)
Bytes(parts, n) ==
  [i \in 1 .. n |-> IF i <= Len(parts) THEN parts[i].byte ELSE Junk]

-----------------------------------------------------------------------------
(* The data server: process_psiskv_prequest in the loop of answer_call.    *)

Answer(chunks, what) ==
  /\ out' = Put(out, "server", chunks)
  /\ did' = what
  /\ pc' = Put(pc, "server", "header")

(* Fault: the answer does not tell that there was an item already.         *)
InsertQuietly(v) ==
  LET refused == stored # None /\ msg["server"].type = "WRITE_REQ" IN
  /\ stored' = IF refused THEN stored ELSE v
  /\ Answer(Message(Header("WRITE_RESP", 0, 0), << >>),
            <<IF refused THEN "refused" ELSE "stored", v>>)

(* write_preq has its value, or what there was of it.                      *)
Insert(v) ==
  LET refused == stored # None /\ msg["server"].type = "WRITE_REQ" IN
  /\ stored' = IF refused THEN stored ELSE v
  /\ Answer(Message(Header("WRITE_RESP", IF refused THEN 999 ELSE 0, 0), << >>),
            <<IF refused THEN "refused" ELSE "stored", v>>)

(* Fault: no answer when there is no item.                                 *)
SendItemIfAny ==
  /\ IF stored = None
     THEN Answer(<< >>, <<"missing", None>>)
     ELSE Answer(Message(Header("READ_RESP", 0, Len(stored)), stored),
                 <<"read", stored>>)
  /\ UNCHANGED stored

(* read_preq                                                               *)
SendItem ==
  /\ IF stored = None
     THEN Answer(Message(Header("ERROR", 0, 0), << >>), <<"missing", None>>)
     ELSE Answer(Message(Header("READ_RESP", 0, Len(stored)), stored),
                 <<"read", stored>>)
  /\ UNCHANGED stored

(* delete_preq                                                             *)
Delete ==
  /\ Answer(Message(Header("DELETE_RESP", 0, IF stored = None THEN 0 ELSE 1), << >>),
            <<IF stored = None THEN "missing" ELSE "deleted", None>>)
  /\ stored' = None

process_psiskv_prequest ==
  /\ pc["server"] = "header" /\ Received("server")
  /\ LET m == Filled(msg["server"], got["server"]) IN
     /\ msg' = Put(msg, "server", m)
     /\ \/ /\ m.type \in {"WRITE_REQ", "WRITE_REQ_OW"}
           /\ pc' = Put(pc, "server", "value")
           /\ UNCHANGED <<out, did, stored>>
        \/ m.type = "READ_REQ" /\ SendItem
        \/ m.type = "DELETE_REQ" /\ Delete
  /\ got' = Put(got, "server", << >>)
  /\ UNCHANGED <<call, wire, open, reset, result, torn, calls>>

(* Fault: one read is taken for the whole value.                           *)
write_preqOnce ==
  /\ pc["server"] = "value" /\ Receiving("server") /\ got["server"] # << >>
  /\ Insert(Bytes(got["server"], msg["server"].len))
  /\ got' = Put(got, "server", << >>)
  /\ UNCHANGED <<call, msg, wire, open, reset, result, torn, calls>>

(* It looks for -1 only: on -2 it goes on as if it had the whole value.    *)
write_preq ==
  /\ pc["server"] = "value" /\ (Received("server") \/ Closed("server"))
  /\ Insert(Bytes(got["server"], msg["server"].len))
  /\ got' = Put(got, "server", << >>)
  /\ UNCHANGED <<call, msg, wire, open, reset, result, torn, calls>>

(* The header ends with -2: the thread closes and returns.                 *)
ServerCloses ==
  /\ pc["server"] = "header" /\ Closed("server")
  /\ Shut("server", "gone")
  /\ UNCHANGED <<call, msg, reset, stored, did, result, torn, calls>>

(* A read fails with -1, or a write does: the thread returns at once, and  *)
(* leaves its end open.                                                    *)
ServerGivesUp ==
  /\ pc["server"] \in {"header", "value"} /\ ~open["client"]
  /\ out["server"] # << >> \/ wire["server"] = << >>
  /\ pc' = Put(pc, "server", "gone")
  /\ out' = Put(out, "server", << >>)
  /\ UNCHANGED <<call, msg, got, wire, open, reset, stored, did, result, torn, calls>>

(* Another connection changes the item.                                    *)
Others ==
  /\ pc["server"] \in {"header", "value"}
  /\ stored' \in Values \cup {None}
  /\ UNCHANGED <<pc, call, msg, got, out, wire, open, reset, did, result, torn, calls>>

-----------------------------------------------------------------------------
(* The client library.                                                     *)

Request(c) ==
  Header(c.op, Key, IF IsWrite(c) THEN Len(c.value) ELSE 0)
Payload(c) == IF IsWrite(c) THEN c.value ELSE << >>

(* A command of client.c: any call, on a connection that may be broken.    *)
Command(c) ==
  /\ pc["client"] = "menu" /\ calls < MaxCalls
  /\ calls' = calls + 1
  /\ call' = c
  /\ pc' = Put(pc, "client", "header")
  /\ msg' = Put(msg, "client", Request(c))
  /\ out' = Put(out, "client", Message(Request(c), Payload(c)))
  /\ did' = <<"none", None>>
  /\ UNCHANGED <<got, wire, open, reset, stored, result, torn>>

(* client.c gives up after an error of kv_write without overwrite, and of  *)
(* kv_read; it ignores the other results.                                  *)
Fatal(code) == code = -1 /\ call.op \in {"WRITE_REQ", "READ_REQ"}

Return(code, value) ==
  /\ result' = [code |-> code, value |-> value]
  /\ IF Fatal(code)
     THEN Shut("client", "gone")
     ELSE /\ pc' = Put(pc, "client", "menu")
          /\ got' = Put(got, "client", << >>)
          /\ out' = Put(out, "client", << >>)
          /\ UNCHANGED <<open, wire>>
  /\ UNCHANGED <<call, msg, reset, stored, did, torn, calls>>

(* The first n bytes of a value are what fits into the caller's memory.    *)
Fitting(v) == SubSeq(v, 1, IF Room > Len(v) THEN Len(v) ELSE Room)

WriteResult(m) ==
  IF m.type # "WRITE_RESP" THEN -1 ELSE IF m.key = 999 THEN -2 ELSE 0

(* The test for -2 is never reached (it asks for -1 twice): an answer that *)
(* was cut short is looked at over what is left of the request.            *)
kv_write ==
  /\ pc["client"] = "header" /\ IsWrite(call)
  /\ Received("client") \/ Closed("client")
  /\ Return(WriteResult(Filled(msg["client"], got["client"])), None)

kv_delete ==
  /\ pc["client"] = "header" /\ call.op = "DELETE_REQ"
  /\ \/ /\ Received("client")
        /\ LET m == Filled(msg["client"], got["client"]) IN
           Return(IF m.type = "DELETE_RESP" /\ m.len # 0 THEN 0 ELSE -1, None)
     \/ Closed("client") /\ Return(-1, None)

kv_read ==
  /\ pc["client"] = "header" /\ call.op = "READ_REQ"
  /\ \/ Closed("client") /\ Return(-1, None)
     \/ /\ Received("client")
        /\ LET m == Filled(msg["client"], got["client"]) IN
           IF m.type # "READ_RESP"
           THEN Return(IF m.type = "ERROR" THEN -2 ELSE -1, None)
           ELSE /\ pc' = Put(pc, "client", "value")
                /\ msg' = Put(msg, "client", m)
                /\ got' = Put(got, "client", << >>)
                /\ UNCHANGED <<call, out, wire, open, reset, stored, did, result, torn, calls>>

(* Fault: one read is taken for the whole value.                           *)
ReadValueOnce ==
  /\ pc["client"] = "value" /\ Receiving("client") /\ got["client"] # << >>
  /\ Return(0, Fitting(Bytes(got["client"], msg["client"].len)))

(* It looks for -1 only.                                                   *)
ReadValue ==
  /\ pc["client"] = "value" /\ (Received("client") \/ Closed("client"))
  /\ Return(0, Fitting(Bytes(got["client"], msg["client"].len)))

(* A read or a write fails with -1.                                        *)
ClientFails ==
  /\ pc["client"] \in {"header", "value"} /\ ~open["server"]
  /\ wire["client"] = << >>
  /\ Return(-1, None)

-----------------------------------------------------------------------------
(* Death.  The server closes as well when it leaves after EXIT.            *)

Die(p) ==
  /\ open[p]
  /\ torn' = IF out[p] = << >> THEN torn ELSE torn \cup {p}
  /\ Shut(p, "gone")
  /\ UNCHANGED <<call, msg, reset, stored, did, result, calls>>

ClientStep == kv_write \/ kv_read \/ ReadValue \/ kv_delete
ServerStep == process_psiskv_prequest \/ write_preq \/ ServerCloses

Next ==
  \/ \E p \in Party : Write(p) \/ SigPipe(p) \/ Read(p) \/ Die(p)
  \/ ClientStep \/ ClientFails
  \/ ServerStep \/ ServerGivesUp
  \/ \E c \in Call : Command(c)
  \/ Others

(* Both threads run, and the network delivers.                             *)
Fairness ==
  /\ \A p \in Party : WF_vars(Write(p)) /\ WF_vars(Read(p))
  /\ WF_vars(ClientStep)
  /\ WF_vars(ServerStep)

Spec == Init /\ [][Next]_vars /\ Fairness

-----------------------------------------------------------------------------
(* Properties.                                                             *)

(* Every variable has its type; nobody collects more than he wants.        *)
Hdr ==
  [type : {"WRITE_REQ", "WRITE_REQ_OW", "READ_REQ", "DELETE_REQ",
           "WRITE_RESP", "READ_RESP", "DELETE_RESP", "ERROR", "none"},
   key : Nat, len : Nat]
Cell == [name : {"type", "key", "len", "data"}, of : Hdr,
         byte : Byte \cup {NoByte, Junk}]
Bytestring == Seq(Byte \cup {NoByte, Junk})

TypeOK ==
  /\ pc \in [Party -> {"menu", "header", "value", "gone", "killed"}]
  /\ pc["server"] # "menu"
  /\ call \in Call
  /\ msg \in [Party -> Hdr]
  /\ got \in [Party -> Seq(Cell)] /\ wire \in [Party -> Seq(Cell)]
  /\ out \in [Party -> Seq(Seq(Cell) \ {<< >>})]
  /\ \A p \in Party : Len(out[p]) \in 0 .. 2
  /\ \A p \in Party : pc[p] \in {"header", "value"} => Len(got[p]) <= Wanted(p)
  /\ open \in [Party -> BOOLEAN] /\ reset \in [Party -> BOOLEAN]
  /\ stored \in Bytestring \cup {None}
  /\ did \in {"none", "stored", "refused", "read", "missing", "deleted"}
             \X (Bytestring \cup {None})
  /\ result \in [code : {-2, -1, 0}, value : Bytestring \cup {None}]
  /\ torn \subseteq Party
  /\ calls \in 0 .. MaxCalls

(* Both sides agree where a message ends: a header is filled with the      *)
(* parts of one header, a value with bytes of values.                      *)
Framing ==
  \A p \in Party : pc[p] \in {"header", "value"} => \A i \in 1 .. Len(got[p]) :
    got[p][i].name = IF pc[p] = "header" THEN Field[i] ELSE "data"

(* The table holds only values that some client wrote, whole, though they  *)
(* arrive in any portions; a client that dies in the middle of a value is  *)
(* not noticed by write_preq (psiskv_server.c:128 looks for -1 only).      *)
WholeItems == "client" \in torn \/ stored \in Values \cup {None}

(* A kv_read that returns 0 returns the value the server had, as much of   *)
(* it as fits, unless the server died in the middle of it, which kv_read   *)
(* does not notice (psiskv_lib.c:195).                                     *)
ReadsWhole ==
  (pc["client"] = "menu" /\ call.op = "READ_REQ" /\ result.code = 0 /\ calls > 0)
    => "server" \in torn \/ (did[1] = "read" /\ result.value = Fitting(did[2]))

(* A kv_write that returns 0 was stored, one that returns -2 was refused   *)
(* because there was an item already, and a kv_delete that returns 0 did   *)
(* delete an item.  A server that dies in the middle of its answer to a    *)
(* write is not noticed (psiskv_lib.c:128 asks for -1 twice).              *)
ChangesTold ==
  (pc["client"] = "menu" /\ calls > 0) =>
    /\ (IsWrite(call) /\ "server" \notin torn) =>
         /\ result.code = 0 => did = <<"stored", call.value>>
         /\ result.code = -2 => did = <<"refused", call.value>>
    /\ (call.op = "DELETE_REQ" /\ result.code = 0) => did[1] = "deleted"

(* Every call of the library returns, or its process ends.                 *)
CallsReturn ==
  pc["client"] \in {"header", "value"} ~> pc["client"] \in {"menu", "gone", "killed"}

=============================================================================
