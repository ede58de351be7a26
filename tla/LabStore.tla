------------------------------ MODULE LabStore ------------------------------
(***************************************************************************)
(* The store of Labs/Lab6: one thread, which serves one client until that  *)
(* one leaves, and ends the whole server when anything fails.  While it    *)
(* serves, it answers the requests it reads as KVStore does.  It reads a   *)
(* header and a value with one read each, of which it tests the error      *)
(* only: what did not come is what the memory held, and what comes later   *)
(* is read as the next header.                                             *)
(***************************************************************************)
EXTENDS Integers, Sequences

CONSTANTS
  Clients, Keys, Values,
  Garbage,     \* bytes of a value of which a part, or all, did not come
  Size,        \* number of buckets
  MaxFds,      \* descriptors that accept may return
  None,        \* no item, no request, no answer, nobody
  MaxCalls     \* bound of the model

Op == {"WRITE_REQ", "READ_REQ", "DELETE_REQ"}    \* there is no overwrite

ASSUME StoreAssumption ==
  /\ Keys \subseteq Nat /\ Size \in Nat \ {0}
  /\ MaxFds \in Nat /\ MaxCalls \in Nat

VARIABLES
  server,   \* what the process is at
  table,    \* table[b]: the items in the chain of bucket b
  current,  \* the client that is served
  queue,    \* the clients that wait in accept's queue
  fds,      \* descriptors that accept has returned and nobody has closed
  conn,     \* conn[c]: the connection, seen from the client
  sent,     \* sent[c]: what c has sent and the server has not read
  astray,   \* astray[c]: the server is no more at the beginning of a request
  calling,  \* calling[c]: c is in kv_write, kv_read or kv_delete
  answers,  \* answers[c]: how many answers c has not read
  req,      \* req[c]: the request that the server has read from c
  reply,    \* reply[c]: the answer to it, which is to be sent
  calls     \* counter for the bound

accepting == <<current, queue, fds>>
client == <<conn, calling, answers>>
vars == <<server, table, accepting, client, sent, astray, req, reply, calls>>

Bytes == Values \cup {Garbage}

hash_function(k) == k % Size
Chain(k) == table[hash_function(k)]
Found(k) == {h \in Chain(k) : h.key = k}
Hitem(k, v) == [key |-> k, item |-> v]

(* What KVStore's variables are here.                                      *)
ItemOf(found) == IF found = {} THEN None ELSE (CHOOSE h \in found : TRUE).item
Stored(k) == ItemOf(Found(k))
Phase(c) ==
  IF req[c] = None THEN "idle" ELSE IF reply[c] = None THEN "called" ELSE "done"

KV == INSTANCE KVStore WITH
        Thread <- Clients, Key <- Keys, Value <- Bytes, NULL <- None,
        kv <- [k \in Keys |-> Stored(k)], phase <- [c \in Clients |-> Phase(c)]

ASSUME NoneAssumption ==
  /\ None \notin Bytes \cup Clients \cup KV!Request \cup KV!Reply
  /\ Garbage \notin Values

Request == {r \in KV!Request : r.op \in Op}

Init ==
  /\ server = "up"
  /\ table = [b \in 0 .. Size - 1 |-> {}]
  /\ current = None /\ queue = << >> /\ fds = 0
  /\ conn = [c \in Clients |-> "none"]
  /\ sent = [c \in Clients |-> None] /\ astray = [c \in Clients |-> FALSE]
  /\ calling = [c \in Clients |-> FALSE] /\ answers = [c \in Clients |-> 0]
  /\ req = [c \in Clients |-> None]
  /\ reply = [c \in Clients |-> None]
  /\ calls = 0

-----------------------------------------------------------------------------
(* Clients.                                                                *)

Connect(c) ==
  /\ server = "up" /\ conn[c] = "none"
  /\ conn' = [conn EXCEPT ![c] = "open"]
  /\ queue' = Append(queue, c)
  /\ UNCHANGED <<server, table, current, fds, calling, answers, sent, astray,
                 req, reply, calls>>

(* The header, and the value of a write.                                   *)
Call(c) ==
  /\ server = "up" /\ conn[c] = "open" /\ ~calling[c] /\ calls < MaxCalls
  /\ \E r \in Request : r.val # Garbage /\ sent' = [sent EXCEPT ![c] = r]
  /\ calling' = [calling EXCEPT ![c] = TRUE]
  /\ calls' = calls + 1
  /\ UNCHANGED <<server, table, accepting, conn, answers, astray, req, reply>>

(* The call returns with the first answer there is.                        *)
Return(c) ==
  /\ conn[c] = "open" /\ calling[c] /\ answers[c] > 0
  /\ calling' = [calling EXCEPT ![c] = FALSE]
  /\ answers' = [answers EXCEPT ![c] = @ - 1]
  /\ UNCHANGED <<server, table, accepting, conn, sent, astray, req, reply, calls>>

(* The server has gone: the call fails, and client.c with it.              *)
Fail(c) ==
  /\ server # "up" /\ conn[c] = "open" /\ calling[c] /\ answers[c] = 0
  /\ conn' = [conn EXCEPT ![c] = "closed"]
  /\ UNCHANGED <<server, table, accepting, calling, answers, sent, astray,
                 req, reply, calls>>

(* A client leaves when it likes; with an answer unread, this resets the   *)
(* connection.                                                             *)
Leave(c) ==
  /\ conn[c] = "open"
  /\ conn' = [conn EXCEPT ![c] = IF answers[c] = 0 THEN "closed" ELSE "reset"]
  /\ UNCHANGED <<server, table, accepting, calling, answers, sent, astray,
                 req, reply, calls>>

-----------------------------------------------------------------------------
(* The server: main.                                                       *)

CleanUp(why) ==
  /\ server' = why
  /\ UNCHANGED <<table, accepting, client, sent, astray, req, reply, calls>>

Accept ==
  /\ server = "up" /\ current = None /\ queue # << >>
  /\ IF fds = MaxFds THEN CleanUp("failed")
     ELSE /\ current' = Head(queue) /\ queue' = Tail(queue)
          /\ fds' = fds + 1
          /\ UNCHANGED <<server, table, client, sent, astray, req, reply, calls>>

Serving == server = "up" /\ current # None

(* -2: back to accept, without a close.                                    *)
PeerClosed ==
  /\ Serving /\ conn[current] = "closed"
  /\ sent[current] = None /\ req[current] = None
  /\ current' = None
  /\ UNCHANGED <<server, table, queue, fds, client, sent, astray, req, reply, calls>>

(* -1 ends the server.                                                     *)
PeerReset == Serving /\ conn[current] = "reset" /\ CleanUp("failed")

Interrupt == server = "up" /\ CleanUp("interrupted")

-----------------------------------------------------------------------------
(* The server: process_psiskv_request, and the value that write_req reads. *)

Readable ==
  /\ Serving /\ conn[current] # "reset"
  /\ req[current] = None /\ sent[current] # None

Receive(r) ==
  /\ req' = [req EXCEPT ![current] = r]
  /\ UNCHANGED <<server, table, accepting, client, reply>>

ReadWhole ==
  /\ Readable /\ ~astray[current]
  /\ Receive(sent[current])
  /\ sent' = [sent EXCEPT ![current] = None]
  /\ UNCHANGED <<astray, calls>>

(* The header, but not the value: the client left in between, or a part of *)
(* the value is still under way.                                           *)
ReadCut ==
  /\ Readable /\ ~astray[current] /\ sent[current].op = "WRITE_REQ"
  /\ Receive([sent[current] EXCEPT !.val = Garbage])
  /\ \/ /\ conn[current] = "closed"
        /\ sent' = [sent EXCEPT ![current] = None] /\ UNCHANGED astray
     \/ /\ astray' = [astray EXCEPT ![current] = TRUE] /\ UNCHANGED sent
  /\ UNCHANGED calls

(* A part of a header, or bytes out of a value: they may make up any       *)
(* request, or none.                                                       *)
ReadAstray ==
  /\ Readable /\ calls < MaxCalls
  /\ \/ /\ \E r \in Request : Receive(r)
        /\ astray' = [astray EXCEPT ![current] = TRUE]
        /\ \/ UNCHANGED sent
           \/ astray[current] /\ sent' = [sent EXCEPT ![current] = None]
        /\ calls' = calls + 1
     \/ CleanUp("failed")

-----------------------------------------------------------------------------
(* The server: the requests.                                               *)

Handles(op) ==
  /\ Serving
  /\ req[current] # None /\ reply[current] = None
  /\ req[current].op = op

Answer(r) ==
  /\ reply' = [reply EXCEPT ![current] = r]
  /\ UNCHANGED <<server, accepting, client, sent, astray, req, calls>>

(* Fault: the item of a key that is there is replaced.                     *)
insert_itemOver(k, v) ==
  /\ Chain(k) = {} \/ Found(k) # {}
  /\ table' = [table EXCEPT ![hash_function(k)] = {Hitem(k, v)}]

(* The search of a bucket that is not empty stops at an item, its last or  *)
(* that of the key, never at NULL: it returns false.                       *)
insert_item(k, v) ==
  /\ Chain(k) = {}
  /\ table' = [table EXCEPT ![hash_function(k)] = {Hitem(k, v)}]

delete_item(k) ==
  /\ Found(k) # {}
  /\ table' = [table EXCEPT ![hash_function(k)] = @ \ Found(k)]

write_req ==
  /\ Handles("WRITE_REQ")
  /\ LET k == req[current].key IN
     \/ insert_item(k, req[current].val) /\ Answer(KV!Written(0))
     \/ Chain(k) # {} /\ CleanUp("failed")

(* Fault: nothing is sent when there is no item.                           *)
read_reqSilent ==
  /\ Handles("READ_REQ")
  /\ \E h \in Found(req[current].key) : Answer(KV!Found(h.item)) /\ UNCHANGED table

read_req ==
  /\ Handles("READ_REQ")
  /\ LET found == Found(req[current].key) IN
     \/ found = {} /\ Answer(KV!NotFound)
     \/ \E h \in found : Answer(KV!Found(h.item))
  /\ UNCHANGED table

delete_req ==
  /\ Handles("DELETE_REQ")
  /\ LET k == req[current].key IN
     \/ delete_item(k) /\ Answer(KV!Deleted(1))
     \/ Found(k) = {} /\ CleanUp("failed")

(* TCPsend: what is sent to a client that has left resets the connection. *)
Send ==
  /\ Serving /\ reply[current] # None /\ conn[current] # "reset"
  /\ answers' = [answers EXCEPT ![current] = @ + 1]
  /\ conn' = [conn EXCEPT ![current] = IF @ = "closed" THEN "reset" ELSE @]
  /\ req' = [req EXCEPT ![current] = None]
  /\ reply' = [reply EXCEPT ![current] = None]
  /\ UNCHANGED <<server, table, accepting, calling, sent, astray, calls>>

(* The value of a read is sent on its own: the second write to a client    *)
(* that has left may raise SIGPIPE.                                        *)
BrokenPipe ==
  /\ Serving /\ reply[current] # None /\ reply[current].type = "READ_RESP"
  /\ conn[current] = "closed"
  /\ CleanUp("killed")

process_psiskv_request ==
  ReadWhole \/ write_req \/ read_req \/ delete_req \/ Send \/ BrokenPipe

-----------------------------------------------------------------------------

Main == Accept \/ process_psiskv_request \/ PeerClosed \/ PeerReset

Next ==
  \/ \E c \in Clients : Connect(c) \/ Call(c) \/ Return(c) \/ Fail(c) \/ Leave(c)
  \/ Main \/ ReadCut \/ ReadAstray \/ Interrupt

(* The server and its clients run; nobody need leave.  What has gone       *)
(* astray may make the server wait for a value that nobody sends.          *)
Fairness == WF_vars(Main) /\ \A c \in Clients : WF_vars(Return(c)) /\ WF_vars(Fail(c))

Spec == Init /\ [][Next]_vars /\ Fairness

-----------------------------------------------------------------------------
(* Properties.                                                             *)

(* Every variable has its type; a chain has one item of a key, in the      *)
(* key's bucket.                                                           *)
TypeOK ==
  /\ server \in {"up", "failed", "killed", "interrupted"}
  /\ table \in [0 .. Size - 1 -> SUBSET [key : Keys, item : Bytes]]
  /\ \A b \in 0 .. Size - 1 : \A h, g \in table[b] :
       hash_function(h.key) = b /\ (h.key = g.key => h = g)
  /\ current \in Clients \cup {None} /\ queue \in Seq(Clients)
  /\ fds \in 0 .. MaxFds
  /\ conn \in [Clients -> {"none", "open", "closed", "reset"}]
  /\ sent \in [Clients -> Request \cup {None}]
  /\ astray \in [Clients -> BOOLEAN] /\ calling \in [Clients -> BOOLEAN]
  /\ answers \in [Clients -> Nat]
  /\ req \in [Clients -> Request \cup {None}]
  /\ reply \in [Clients -> KV!Reply \cup {None}]

(* Whatever it answers to the requests it reads is what one map answers,   *)
(* on which they take effect one after the other.  They are what the       *)
(* clients sent, but for a value that did not come whole, which is stored  *)
(* as what the memory held, and for what is read after it.                 *)
ImplementsKVStore == KV!Init /\ [][KV!Next]_(KV!vars)

(* The call of the client that is served comes to an end, unless its       *)
(* connection has gone astray.                                             *)
ServedReturns ==
  \A c \in Clients :
    current = c /\ calling[c] ~> ~calling[c] \/ conn[c] # "open" \/ astray[c]

=============================================================================
