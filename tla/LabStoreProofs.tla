--------------------------- MODULE LabStoreProofs ---------------------------
(***************************************************************************)
(* Proofs about LabStore, for any set of clients, keys and values and any  *)
(* number of buckets: its answers are those of KVStore.                    *)
(***************************************************************************)
EXTENDS LabStore, TLAPS

Bucket == 0 .. Size - 1

(* Nobody has an answer without a request.                                 *)
AnswersKept == \A c \in Clients : reply[c] # None => req[c] # None

IInv == TypeOK /\ AnswersKept

(* Every key has a bucket.                                                 *)
LEMMA BucketOfKey == \A k \in Keys : hash_function(k) \in Bucket
  BY StoreAssumption DEF hash_function, Bucket

(* What is stored under a key is the item found in its chain, if any.      *)
LEMMA StoredIsFound ==
  ASSUME TypeOK, NEW k \in Keys
  PROVE  /\ Found(k) = {} => Stored(k) = None
         /\ \A h \in Found(k) : Stored(k) = h.item /\ h.item \in Bytes
         /\ Stored(k) = None <=> Found(k) = {}
<1>1. hash_function(k) \in Bucket
  BY BucketOfKey
<1>2. \A h, g \in Found(k) : h = g
  BY <1>1 DEF TypeOK, Found, Chain, Bucket
<1>3. \A h \in Found(k) : h.item \in Bytes
  BY <1>1 DEF TypeOK, Found, Chain, Bucket
<1>4. ASSUME NEW h \in Found(k) PROVE (CHOOSE g \in Found(k) : TRUE) = h
  BY <1>2
<1> QED
  BY <1>3, <1>4, NoneAssumption DEF Stored, ItemOf

(* The request of the client that is served.                               *)
LEMMA ServedRequest ==
  ASSUME TypeOK, NEW op, Handles(op)
  PROVE  /\ current \in Clients
         /\ req[current] \in KV!Request /\ req[current].key \in Keys
         /\ op \in KV!Writes => req[current].val \in Bytes
         /\ Phase(current) = "called"
  BY DEF TypeOK, Handles, Serving, Phase, Request, KV!Request, KV!Writes

(* What the server reads is a request, or it ends; the table stays.        *)
LEMMA Read ==
  ASSUME TypeOK, ReadWhole \/ ReadCut \/ ReadAstray
  PROVE  \/ CleanUp("failed")
         \/ \E r \in Request :
              /\ Receive(r) /\ Readable
              /\ sent' \in [Clients -> Request \cup {None}]
              /\ astray' \in [Clients -> BOOLEAN]
<1>1. Readable => current \in Clients /\ sent[current] \in Request
  BY DEF TypeOK, Readable, Serving
<1>2. CASE ReadWhole
  BY <1>1, <1>2 DEF ReadWhole, TypeOK
<1>3. CASE ReadCut
  <2> SUFFICES ASSUME NEW r, r = [sent[current] EXCEPT !.val = Garbage]
               PROVE  /\ r \in Request /\ Receive(r) /\ Readable
                      /\ sent' \in [Clients -> Request \cup {None}]
                      /\ astray' \in [Clients -> BOOLEAN]
    OBVIOUS
  <2>1. sent[current] \in [op : KV!Writes, key : Keys, val : Bytes]
    BY <1>1, <1>3 DEF ReadCut, Request, KV!Request, KV!Writes
  <2>2. r \in [op : KV!Writes, key : Keys, val : Bytes] /\ r.op = sent[current].op
    BY <2>1 DEF Bytes
  <2>3. r \in Request
    <3>1. r \in KV!Request
      BY <2>2 DEF KV!Request
    <3>2. r.op \in Op
      BY <1>1, <1>3, <2>2 DEF ReadCut, Request
    <3> QED
      BY <3>1, <3>2 DEF Request
  <2>4. sent' \in [Clients -> Request \cup {None}] /\ astray' \in [Clients -> BOOLEAN]
    BY <1>1, <1>3 DEF ReadCut, TypeOK
  <2> QED
    BY <1>3, <2>3, <2>4 DEF ReadCut
<1>4. CASE ReadAstray
  <2>1. ASSUME NEW r \in Request, Receive(r), Readable,
               astray' = [astray EXCEPT ![current] = TRUE],
               UNCHANGED sent \/ sent' = [sent EXCEPT ![current] = None]
        PROVE  /\ sent' \in [Clients -> Request \cup {None}]
               /\ astray' \in [Clients -> BOOLEAN]
    BY <2>1 DEF TypeOK
  <2> QED
    BY <1>4, <2>1 DEF ReadAstray
<1> QED
  BY <1>2, <1>3, <1>4

-----------------------------------------------------------------------------
(* What the two operations that change the table do to it.                 *)

(* A first item in a chain is stored under its key; no other key changes.  *)
LEMMA Inserted ==
  ASSUME TypeOK, NEW k \in Keys, NEW v \in Bytes, insert_item(k, v)
  PROVE  /\ table' \in [Bucket -> SUBSET [key : Keys, item : Bytes]]
         /\ \A b \in Bucket : \A h, g \in table'[b] :
              hash_function(h.key) = b /\ (h.key = g.key => h = g)
         /\ Found(k) = {} /\ Found(k)' = {Hitem(k, v)}
         /\ \A j \in Keys \ {k} : Found(j)' = Found(j)
<1>1. hash_function(k) \in Bucket /\ \A j \in Keys : hash_function(j) \in Bucket
  BY BucketOfKey
<1>2. /\ table' = [table EXCEPT ![hash_function(k)] = {Hitem(k, v)}]
      /\ table \in [Bucket -> SUBSET [key : Keys, item : Bytes]]
  BY DEF insert_item, TypeOK, Bucket
<1>3. table[hash_function(k)] = {}
  BY DEF insert_item, Chain
<1>4. Hitem(k, v) \in [key : Keys, item : Bytes] /\ Hitem(k, v).key = k
  BY DEF Hitem
<1>5. table' \in [Bucket -> SUBSET [key : Keys, item : Bytes]]
  BY <1>1, <1>2, <1>4
<1>6. ASSUME NEW b \in Bucket, NEW h \in table'[b], NEW g \in table'[b]
      PROVE  hash_function(h.key) = b /\ (h.key = g.key => h = g)
  <2>1. CASE b = hash_function(k)
    <3>1. h = Hitem(k, v) /\ g = Hitem(k, v)
      BY <1>1, <1>2, <2>1
    <3> QED
      BY <3>1, <2>1, <1>4
  <2>2. CASE b # hash_function(k)
    <3>1. table'[b] = table[b]
      BY <1>1, <1>2, <2>2
    <3> QED
      BY <3>1 DEF TypeOK, Bucket
  <2> QED
    BY <2>1, <2>2
<1>7. Found(k) = {} /\ Found(k)' = {Hitem(k, v)}
  BY <1>1, <1>2, <1>3, <1>4 DEF Found, Chain, hash_function
<1>8. ASSUME NEW j \in Keys \ {k} PROVE Found(j)' = Found(j)
  <2>1. CASE hash_function(j) = hash_function(k)
    <3>1. Found(j) = {}
      BY <2>1, <1>3 DEF Found, Chain
    <3>2. Found(j)' = {}
      BY <2>1, <1>1, <1>2, <1>4 DEF Found, Chain, hash_function
    <3> QED
      BY <3>1, <3>2
  <2>2. CASE hash_function(j) # hash_function(k)
    BY <2>2, <1>1, <1>2 DEF Found, Chain, hash_function
  <2> QED
    BY <2>1, <2>2
<1> QED
  BY <1>5, <1>6, <1>7, <1>8

(* What is deleted is gone; no other key changes.                          *)
LEMMA Removed ==
  ASSUME TypeOK, NEW k \in Keys, delete_item(k)
  PROVE  /\ table' \in [Bucket -> SUBSET [key : Keys, item : Bytes]]
         /\ \A b \in Bucket : \A h, g \in table'[b] :
              hash_function(h.key) = b /\ (h.key = g.key => h = g)
         /\ Found(k)' = {}
         /\ \A j \in Keys \ {k} : Found(j)' = Found(j)
<1>1. hash_function(k) \in Bucket /\ \A j \in Keys : hash_function(j) \in Bucket
  BY BucketOfKey
<1>2. /\ table' = [table EXCEPT ![hash_function(k)] = @ \ Found(k)]
      /\ table \in [Bucket -> SUBSET [key : Keys, item : Bytes]]
  BY DEF delete_item, TypeOK, Bucket
<1>3. /\ table'[hash_function(k)] = table[hash_function(k)] \ Found(k)
      /\ \A b \in Bucket \ {hash_function(k)} : table'[b] = table[b]
      /\ table' \in [Bucket -> SUBSET [key : Keys, item : Bytes]]
  BY <1>1, <1>2
<1>4. \A b \in Bucket : table'[b] \subseteq table[b]
  BY <1>3
<1>5. ASSUME NEW b \in Bucket, NEW h \in table'[b], NEW g \in table'[b]
      PROVE  hash_function(h.key) = b /\ (h.key = g.key => h = g)
  BY <1>4 DEF TypeOK, Bucket
<1>6. Found(k)' = {}
  BY <1>3 DEF Found, Chain, hash_function
<1>7. ASSUME NEW j \in Keys \ {k} PROVE Found(j)' = Found(j)
  BY <1>1, <1>3 DEF Found, Chain, hash_function
<1> QED
  BY <1>3, <1>5, <1>6, <1>7

-----------------------------------------------------------------------------
(* The invariant.                                                          *)

(* The empty store satisfies it.                                           *)
LEMMA InitInvariant == Init => IInv
<1> SUFFICES ASSUME Init PROVE IInv
  OBVIOUS
<1>1. table \in [0 .. Size - 1 -> SUBSET [key : Keys, item : Bytes]]
  BY DEF Init
<1>2. \A b \in 0 .. Size - 1 : \A h, g \in table[b] :
        hash_function(h.key) = b /\ (h.key = g.key => h = g)
  BY DEF Init
<1>3. fds \in 0 .. MaxFds /\ queue \in Seq(Clients)
  BY StoreAssumption DEF Init
<1> QED
  BY <1>1, <1>2, <1>3 DEF Init, IInv, TypeOK, AnswersKept

(* No step leaves it: the variables of the clients, of accept and of the   *)
(* requests, and the table.                                                *)
LEMMA NextInvariant == IInv /\ [Next]_vars => IInv'
<1> SUFFICES ASSUME IInv, [Next]_vars PROVE IInv'
  OBVIOUS
<1> USE DEF IInv
<1>1. ASSUME NEW c \in Clients, Connect(c) PROVE IInv'
  <2>1. Append(queue, c) \in Seq(Clients)
    BY DEF TypeOK
  <2> QED
    BY <1>1, <2>1 DEF Connect, TypeOK, AnswersKept
<1>2. ASSUME NEW c \in Clients, Call(c) PROVE IInv'
  BY <1>2 DEF Call, TypeOK, AnswersKept, accepting
<1>3. ASSUME NEW c \in Clients, Return(c) PROVE IInv'
  <2>1. answers[c] - 1 \in Nat
    BY <1>3 DEF Return, TypeOK
  <2> QED
    BY <1>3, <2>1 DEF Return, TypeOK, AnswersKept, accepting
<1>4. ASSUME NEW c \in Clients, Fail(c) \/ Leave(c) PROVE IInv'
  BY <1>4 DEF Fail, Leave, TypeOK, AnswersKept, accepting
<1>5. ASSUME NEW why \in {"failed", "killed", "interrupted"}, CleanUp(why) PROVE IInv'
  BY <1>5 DEF CleanUp, TypeOK, AnswersKept, accepting, client
<1>6. CASE Accept
  <2>1. CASE fds = MaxFds
    BY <1>5, <1>6, <2>1 DEF Accept
  <2>2. CASE fds # MaxFds
    <3>1. Head(queue) \in Clients /\ Tail(queue) \in Seq(Clients)
      BY <1>6 DEF Accept, TypeOK
    <3>2. fds + 1 \in 0 .. MaxFds
      BY <2>2, StoreAssumption DEF TypeOK
    <3> QED
      BY <1>6, <2>2, <3>1, <3>2 DEF Accept, TypeOK, AnswersKept, client
  <2> QED
    BY <2>1, <2>2
<1>7. CASE PeerClosed
  BY <1>7 DEF PeerClosed, TypeOK, AnswersKept, client
<1>8. CASE PeerReset \/ Interrupt \/ BrokenPipe
  BY <1>5, <1>8 DEF PeerReset, Interrupt, BrokenPipe
<1>9. ASSUME NEW r \in KV!Reply, NEW op, Handles(op), Answer(r),
             table' \in [Bucket -> SUBSET [key : Keys, item : Bytes]],
             \A b \in Bucket : \A h, g \in table'[b] :
               hash_function(h.key) = b /\ (h.key = g.key => h = g)
      PROVE  IInv'
  <2>1. current \in Clients
    BY <1>9, ServedRequest
  <2> QED
    BY <1>9, <2>1 DEF Answer, Handles, TypeOK, AnswersKept, Bucket, accepting, client,
                      hash_function
<1>10. CASE write_req
  <2>1. CASE Chain(req[current].key) # {} /\ CleanUp("failed")
    BY <1>5, <2>1
  <2>2. CASE /\ insert_item(req[current].key, req[current].val)
             /\ Answer(KV!Written(0))
    <3>1. /\ Handles("WRITE_REQ")
          /\ req[current].key \in Keys /\ req[current].val \in Bytes
      BY <1>10, ServedRequest DEF write_req, KV!Writes
    <3>2. KV!Written(0) \in KV!Reply
      BY DEF KV!Reply
    <3> QED
      BY <1>9, <2>2, <3>1, <3>2, Inserted
  <2> QED
    BY <1>10, <2>1, <2>2 DEF write_req
<1>11. CASE read_req
  <2>1. Handles("READ_REQ") /\ req[current].key \in Keys
    BY <1>11, ServedRequest DEF read_req
  <2>2. ASSUME NEW r \in KV!Reply, Answer(r), UNCHANGED table PROVE IInv'
    BY <1>9, <2>1, <2>2 DEF TypeOK, Bucket
  <2>3. KV!NotFound \in KV!Reply
    BY DEF KV!Reply
  <2>4. \A h \in Found(req[current].key) : KV!Found(h.item) \in KV!Reply
    BY <2>1, StoredIsFound DEF KV!Reply
  <2> QED
    BY <1>11, <2>2, <2>3, <2>4 DEF read_req
<1>12. CASE delete_req
  <2>1. CASE CleanUp("failed")
    BY <1>5, <2>1
  <2>2. CASE delete_item(req[current].key) /\ Answer(KV!Deleted(1))
    <3>1. Handles("DELETE_REQ") /\ req[current].key \in Keys
      BY <1>12, ServedRequest DEF delete_req
    <3>2. KV!Deleted(1) \in KV!Reply
      BY DEF KV!Reply
    <3> QED
      BY <1>9, <2>2, <3>1, <3>2, Removed
  <2> QED
    BY <1>12, <2>1, <2>2 DEF delete_req
<1>13. CASE ReadWhole \/ ReadCut \/ ReadAstray
  <2>1. CASE CleanUp("failed")
    BY <1>5, <2>1
  <2>2. ASSUME NEW r, r \in Request, Receive(r), Readable,
               sent' \in [Clients -> Request \cup {None}],
               astray' \in [Clients -> BOOLEAN]
        PROVE  IInv'
    BY <2>2 DEF Receive, Readable, Serving, TypeOK, AnswersKept, accepting, client
  <2> QED
    BY <1>13, <2>1, <2>2, Read
<1>14. CASE Send
  <2>1. current \in Clients /\ answers[current] + 1 \in Nat
    BY <1>14 DEF Send, Serving, TypeOK
  <2> QED
    BY <1>14, <2>1 DEF Send, TypeOK, AnswersKept, accepting
<1>15. CASE UNCHANGED vars
  BY <1>15 DEF vars, accepting, client, TypeOK, AnswersKept
<1> QED
  BY <1>1, <1>2, <1>3, <1>4, <1>6, <1>7, <1>8, <1>10, <1>11, <1>12, <1>13, <1>14, <1>15
     DEF Next, Main, process_psiskv_request

-----------------------------------------------------------------------------
(* The refinement.                                                         *)

(* It begins with an empty map and no call.                                *)
LEMMA InitRefines == Init => KV!Init
<1> SUFFICES ASSUME Init PROVE KV!Init
  OBVIOUS
<1>1. \A k \in Keys : Stored(k) = None
  BY InitInvariant, StoredIsFound, BucketOfKey DEF IInv, Init, Found, Chain, Bucket
<1>2. \A c \in Clients : Phase(c) = "idle"
  BY DEF Init, Phase
<1>3. req = [c \in Clients |-> None] /\ reply = [c \in Clients |-> None]
  BY DEF Init
<1> QED
  BY <1>1, <1>2, <1>3 DEF KV!Init

(* A step that leaves table, requests and answers alone is no step of the  *)
(* map.                                                                    *)
LEMMA Stutters == UNCHANGED <<table, req, reply>> => UNCHANGED KV!vars
<1> SUFFICES ASSUME UNCHANGED <<table, req, reply>> PROVE UNCHANGED KV!vars
  OBVIOUS
<1>1. \A k \in Keys : Stored(k)' = Stored(k)
  BY DEF Stored, Found, Chain, hash_function
<1>2. \A c \in Clients : Phase(c)' = Phase(c)
  BY DEF Phase
<1> QED
  BY <1>1, <1>2 DEF KV!vars

(* An answer is a request that takes effect, if it is what the map answers *)
(* and the table becomes what the map becomes.                             *)
LEMMA TakesEffect ==
  ASSUME IInv, NEW op, Handles(op), NEW r, Answer(r), r # None,
         NEW c, c = current, r = KV!Answer(req[c]),
         [k \in Keys |-> Stored(k)]' = KV!Outcome(req[c])
  PROVE  KV!TakeEffect(c)
<1>1. c \in Clients /\ Phase(c) = "called"
  BY ServedRequest DEF IInv
<1>2. req' = req /\ reply' = [reply EXCEPT ![c] = r]
  BY DEF Answer
<1>3. Phase(c)' = "done"
  BY <1>1, <1>2 DEF IInv, TypeOK, Handles, Phase
<1>4. \A d \in Clients \ {c} : Phase(d)' = Phase(d)
  BY <1>2 DEF IInv, TypeOK, Phase
<1>5. [d \in Clients |-> Phase(d)]' = [[d \in Clients |-> Phase(d)] EXCEPT ![c] = "done"]
  BY <1>1, <1>3, <1>4
<1> QED
  BY <1>1, <1>2, <1>5 DEF KV!TakeEffect

(* What the server answers to a write, a read and a delete.                *)
LEMMA WriteRefines == IInv /\ write_req => [KV!Next]_(KV!vars)
<1> SUFFICES ASSUME IInv, write_req PROVE [KV!Next]_(KV!vars)
  OBVIOUS
<1> SUFFICES ASSUME NEW c, c = current, NEW k, k = req[c].key, NEW v, v = req[c].val
             PROVE  [KV!Next]_(KV!vars)
  OBVIOUS
<1>1. /\ Handles("WRITE_REQ") /\ req[c].op = "WRITE_REQ"
      /\ c \in Clients /\ k \in Keys /\ v \in Bytes
  BY ServedRequest DEF write_req, Handles, IInv, KV!Writes
<1>2. CASE CleanUp("failed")
  BY <1>2, Stutters DEF CleanUp
<1>3. CASE insert_item(k, v) /\ Answer(KV!Written(0))
  <2>1. /\ Found(k) = {} /\ Found(k)' = {Hitem(k, v)}
        /\ \A j \in Keys \ {k} : Found(j)' = Found(j)
    BY <1>1, <1>3, Inserted DEF IInv
  <2>2. Stored(k) = None
    BY <2>1, <1>1, StoredIsFound DEF IInv
  <2>3. Stored(k)' = v
    <3>1. (CHOOSE h \in {Hitem(k, v)} : TRUE) = Hitem(k, v)
      OBVIOUS
    <3>2. ItemOf({Hitem(k, v)}) = v
      BY <3>1 DEF ItemOf, Hitem
    <3> QED
      BY <2>1, <3>2 DEF Stored
  <2>4. \A j \in Keys \ {k} : Stored(j)' = Stored(j)
    BY <2>1 DEF Stored
  <2>5. KV!Answer(req[c]) = KV!Written(0)
    BY <1>1, <2>2 DEF KV!Answer
  <2>6. [j \in Keys |-> Stored(j)]' = KV!Outcome(req[c])
    BY <1>1, <2>2, <2>3, <2>4 DEF KV!Outcome
  <2>7. KV!Written(0) # None
    BY NoneAssumption DEF KV!Reply
  <2>8. KV!TakeEffect(c)
    BY <1>1, <1>3, <2>5, <2>6, <2>7, TakesEffect
  <2> QED
    BY <1>1, <2>8 DEF KV!Next
<1> QED
  BY <1>2, <1>3 DEF write_req

LEMMA ReadRefines == IInv /\ read_req => [KV!Next]_(KV!vars)
<1> SUFFICES ASSUME IInv, read_req PROVE [KV!Next]_(KV!vars)
  OBVIOUS
<1> SUFFICES ASSUME NEW c, c = current, NEW k, k = req[c].key
             PROVE  [KV!Next]_(KV!vars)
  OBVIOUS
<1>1. /\ Handles("READ_REQ") /\ req[c].op = "READ_REQ"
      /\ c \in Clients /\ k \in Keys
  BY ServedRequest DEF read_req, Handles, IInv
<1>2. ASSUME NEW r, Answer(r), UNCHANGED table, r # None,
             r = IF Stored(k) = None THEN KV!NotFound ELSE KV!Found(Stored(k))
      PROVE  [KV!Next]_(KV!vars)
  <2>1. r = KV!Answer(req[c])
    BY <1>1, <1>2 DEF KV!Answer
  <2>2. \A j \in Keys : Stored(j)' = Stored(j)
    BY <1>2 DEF Stored, Found, Chain, hash_function
  <2>3. [j \in Keys |-> Stored(j)]' = KV!Outcome(req[c])
    BY <1>1, <2>2 DEF KV!Outcome
  <2>4. KV!TakeEffect(c)
    BY <1>1, <1>2, <2>1, <2>3, TakesEffect
  <2> QED
    BY <1>1, <2>4 DEF KV!Next
<1>3. CASE Found(k) = {} /\ Answer(KV!NotFound) /\ UNCHANGED table
  <2>1. Stored(k) = None
    BY <1>1, <1>3, StoredIsFound DEF IInv
  <2>2. KV!NotFound # None
    BY NoneAssumption DEF KV!Reply
  <2> QED
    BY <1>2, <1>3, <2>1, <2>2
<1>4. ASSUME NEW h \in Found(k), Answer(KV!Found(h.item)), UNCHANGED table
      PROVE  [KV!Next]_(KV!vars)
  <2>1. Stored(k) = h.item /\ Stored(k) # None /\ h.item \in Bytes
    BY <1>1, <1>4, StoredIsFound DEF IInv
  <2>2. KV!Found(h.item) # None
    BY <2>1, NoneAssumption DEF KV!Reply
  <2> QED
    BY <1>2, <1>4, <2>1, <2>2
<1> QED
  BY <1>1, <1>3, <1>4 DEF read_req

LEMMA DeleteRefines == IInv /\ delete_req => [KV!Next]_(KV!vars)
<1> SUFFICES ASSUME IInv, delete_req PROVE [KV!Next]_(KV!vars)
  OBVIOUS
<1> SUFFICES ASSUME NEW c, c = current, NEW k, k = req[c].key
             PROVE  [KV!Next]_(KV!vars)
  OBVIOUS
<1>1. /\ Handles("DELETE_REQ") /\ req[c].op = "DELETE_REQ"
      /\ c \in Clients /\ k \in Keys /\ req[c].val = None
  BY ServedRequest DEF delete_req, Handles, IInv, TypeOK, Request, KV!Request, KV!Writes
<1>2. CASE CleanUp("failed")
  BY <1>2, Stutters DEF CleanUp
<1>3. CASE delete_item(k) /\ Answer(KV!Deleted(1))
  <2>1. /\ Found(k)' = {} /\ \A j \in Keys \ {k} : Found(j)' = Found(j)
    BY <1>1, <1>3, Removed DEF IInv
  <2>2. Stored(k) # None
    BY <1>1, <1>3, StoredIsFound DEF IInv, delete_item
  <2>3. Stored(k)' = None
    BY <2>1 DEF Stored, ItemOf
  <2>4. \A j \in Keys \ {k} : Stored(j)' = Stored(j)
    BY <2>1 DEF Stored
  <2>5. KV!Answer(req[c]) = KV!Deleted(1)
    BY <1>1, <2>2 DEF KV!Answer
  <2>6. [j \in Keys |-> Stored(j)]' = KV!Outcome(req[c])
    BY <1>1, <2>3, <2>4 DEF KV!Outcome
  <2>7. KV!Deleted(1) # None
    BY NoneAssumption DEF KV!Reply
  <2>8. KV!TakeEffect(c)
    BY <1>1, <1>3, <2>5, <2>6, <2>7, TakesEffect
  <2> QED
    BY <1>1, <2>8 DEF KV!Next
<1> QED
  BY <1>2, <1>3 DEF delete_req

(* Every step of the store is one of the map, or none.                     *)
LEMMA NextRefines == IInv /\ [Next]_vars => [KV!Next]_(KV!vars)
<1> SUFFICES ASSUME IInv, [Next]_vars PROVE [KV!Next]_(KV!vars)
  OBVIOUS
<1>1. ASSUME NEW r \in Request, Receive(r), Readable PROVE [KV!Next]_(KV!vars)
  <2> SUFFICES ASSUME NEW c, c = current PROVE [KV!Next]_(KV!vars)
    OBVIOUS
  <2>1. c \in Clients /\ req[c] = None /\ req' = [req EXCEPT ![c] = r]
    BY <1>1 DEF Receive, Readable, Serving, IInv, TypeOK
  <2>2. r \in KV!Request /\ r # None
    BY NoneAssumption DEF Request
  <2>3. reply[c] = None /\ UNCHANGED <<table, reply>>
    BY <1>1, <2>1 DEF Receive, IInv, AnswersKept
  <2>4. \A k \in Keys : Stored(k)' = Stored(k)
    BY <2>3 DEF Stored, Found, Chain, hash_function
  <2>5. Phase(c) = "idle" /\ Phase(c)' = "called"
    BY <2>1, <2>2, <2>3 DEF Phase, IInv, TypeOK
  <2>6. \A d \in Clients \ {c} : Phase(d)' = Phase(d)
    BY <2>1, <2>3 DEF Phase, IInv, TypeOK
  <2>7. [d \in Clients |-> Phase(d)]' = [[d \in Clients |-> Phase(d)] EXCEPT ![c] = "called"]
    BY <2>1, <2>5, <2>6
  <2>8. KV!Call(c, r)
    BY <2>1, <2>3, <2>4, <2>5, <2>7 DEF KV!Call
  <2> QED
    BY <2>1, <2>2, <2>8 DEF KV!Next
<1>2. CASE Send
  <2> SUFFICES ASSUME NEW c, c = current PROVE [KV!Next]_(KV!vars)
    OBVIOUS
  <2>1. /\ req' = [req EXCEPT ![c] = None] /\ reply' = [reply EXCEPT ![c] = None]
        /\ c \in Clients /\ req[c] # None /\ reply[c] # None /\ UNCHANGED table
    BY <1>2 DEF Send, Serving, IInv, TypeOK, AnswersKept
  <2>2. \A k \in Keys : Stored(k)' = Stored(k)
    BY <2>1 DEF Stored, Found, Chain, hash_function
  <2>3. Phase(c) = "done" /\ Phase(c)' = "idle"
    BY <2>1 DEF Phase, IInv, TypeOK
  <2>4. \A d \in Clients \ {c} : Phase(d)' = Phase(d)
    BY <2>1 DEF Phase, IInv, TypeOK
  <2>5. [d \in Clients |-> Phase(d)]' = [[d \in Clients |-> Phase(d)] EXCEPT ![c] = "idle"]
    BY <2>1, <2>3, <2>4
  <2>6. KV!Return(c)
    BY <2>1, <2>2, <2>3, <2>5 DEF KV!Return
  <2> QED
    BY <2>1, <2>6 DEF KV!Next
<1>3. ASSUME NEW c \in Clients, Connect(c) \/ Call(c) \/ Return(c) \/ Fail(c) \/ Leave(c)
      PROVE  UNCHANGED KV!vars
  BY <1>3, Stutters DEF Connect, Call, Return, Fail, Leave
<1>4. ASSUME NEW why, CleanUp(why) PROVE UNCHANGED KV!vars
  BY <1>4, Stutters DEF CleanUp
<1>5. CASE Accept \/ PeerClosed \/ PeerReset \/ Interrupt \/ BrokenPipe
  BY <1>4, <1>5, Stutters DEF Accept, PeerClosed, PeerReset, Interrupt, BrokenPipe
<1>6. CASE ReadWhole \/ ReadCut \/ ReadAstray
  BY <1>1, <1>4, <1>6, Read DEF IInv
<1>7. CASE UNCHANGED vars
  BY <1>7, Stutters DEF vars
<1> QED
  BY <1>2, <1>3, <1>5, <1>6, <1>7, WriteRefines, ReadRefines, DeleteRefines
     DEF Next, Main, process_psiskv_request

-----------------------------------------------------------------------------
(* Theorems.                                                               *)

(* The invariant holds in every state of every behaviour of the store.     *)
THEOREM Invariance == Spec => []IInv
  BY InitInvariant, NextInvariant, PTL DEF Spec

(* insert_item and delete_item keep one item of a key, in the bucket of    *)
(* the key, whichever requests arrive.                                     *)
THEOREM TypeCorrect == Spec => []TypeOK
<1>1. IInv => TypeOK
  BY DEF IInv
<1> QED
  BY <1>1, Invariance, PTL

(* Whatever the clients send, in whatever portions it arrives, and         *)
(* whenever they leave, the store of Lab6 answers the requests it reads as *)
(* one map: write_req, read_req and delete_req implement KVStore.  A value *)
(* that did not come whole is stored as bytes that nobody sent.            *)
THEOREM Refines == Spec => ImplementsKVStore
  BY InitRefines, NextRefines, Invariance, PTL DEF Spec, ImplementsKVStore

=============================================================================
